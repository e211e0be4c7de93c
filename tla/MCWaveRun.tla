----------------------------- MODULE MCWaveRun -----------------------------
(***************************************************************************)
(* Small instances of WaveRun. Graphs has every dependency relation of     *)
(* three nodes, with itself and with node 0, which is none, each node      *)
(* writing a file of its own. The other plans have globs that overlap      *)
(* without looking so, copies of a dependency's file, or a trap.           *)
(***************************************************************************)
EXTENDS WaveRun

Put(f, v)    == [do |-> "write", path |-> f, from |-> f, value |-> v]
Copy(f, g)   == [do |-> "copy", path |-> g, from |-> f, value |-> "none"]
Fails        == [do |-> "trap", path |-> "a", from |-> "a", value |-> "none"]
NoTasks      == [t \in {} |-> 0]

MCPaths    == {"a", "b", "c"}
MCContents == {"absent", "old", "artifact", "x", "y"}

Graphs ==
    {[deps |-> d, globs |-> << {{"a"}}, {{"b"}}, {{"c"}} >>,
      steps |-> << <<Put("a", "x")>>, <<>>, <<Put("c", "x")>> >>,
      artifacts |-> {"b"}, before |-> {}, tasks |-> NoTasks] : d \in [1 .. 3 -> SUBSET (0 .. 3)]}

\* Two globs, {a, c} and {b, c}, of which neither matches the other.
Shared ==
    {[deps |-> <<{}, d>>, globs |-> << {{"a", "c"}}, {{"b", "c"}} >>,
      steps |-> << <<Put("a", "x"), Put("c", "x")>>, <<Put("b", "y"), Put("c", "y")>> >>,
      artifacts |-> {}, before |-> {}, tasks |-> NoTasks] : d \in {{}, {1}}}

Copies ==
    {[deps |-> <<{}, {1}, d>>, globs |-> << {{"a"}}, {{"b"}}, {{"c"}} >>,
      steps |-> << <<Put("a", "x")>>, <<Copy("a", "b")>>, <<Copy("a", "c")>> >>,
      artifacts |-> {}, before |-> {}, tasks |-> NoTasks] : d \in {{1}, {2}}}

Traps ==
    {[deps |-> <<{}, {1}, {}>>, globs |-> << {{"a"}}, {{"b"}}, {{"c"}} >>,
      steps |-> << <<s>>, <<Put("b", "x")>>, <<Put("c", "x")>> >>,
      artifacts |-> {}, before |-> {}, tasks |-> NoTasks] : s \in {Fails, Copy("b", "a")}}

\* Two nodes write c with globs that do not look as if they overlapped; nothing
\* orders them, and Kahn's order has them the other way round than the waves.
Late ==
    {[deps |-> <<{2}, {}, {}>>, globs |-> << {{"a", "c"}}, {{"b"}}, {{"b1", "c"}} >>,
      steps |-> << <<Put("c", "x")>>, <<Put("b", "x")>>, <<Put("c", "y")>> >>,
      artifacts |-> {}, before |-> {}, tasks |-> NoTasks]}

MCPlans == Graphs \cup Shared \cup Copies \cup Traps \cup Late

\* The workspace's task graph says that task 2 depends on task 1, the plan does not.
TaskPlans ==
    {[deps |-> <<{}, {}>>, globs |-> << {{"a"}}, {{"b"}} >>,
      steps |-> << <<Put("a", "x")>>, <<Put("b", "x")>> >>, artifacts |-> {}, before |-> {},
      tasks |-> << [writes |-> {{"a"}}, deps |-> {}], [writes |-> {{"b"}}, deps |-> {1}] >>]}
=============================================================================
