---------------------------- MODULE CommitPromise ----------------------------
(***************************************************************************)
(* What the lock and the generation store promise to the coordinator       *)
(* loop, and what RunLoop takes for granted: at most one process works on  *)
(* the worktree, and each of its commits takes effect at once, on top of   *)
(* the last one, or not at all.  A crash loses nothing that was committed. *)
(***************************************************************************)
EXTENDS Integers

CONSTANTS Procs, Runs, run, NoProcess, MaxGeneration

VARIABLES
  active,     \* the process that owns the worktree
  committed   \* of each run, its last generation and the process that wrote it

Nothing == [generation |-> -1, by |-> NoProcess]

Init ==
  /\ active = NoProcess
  /\ committed = [r \in Runs |-> Nothing]

Begin(p) ==
  /\ active = NoProcess
  /\ active' = p
  /\ UNCHANGED committed

End ==
  /\ active # NoProcess
  /\ active' = NoProcess
  /\ UNCHANGED committed

Commit ==
  /\ active # NoProcess
  /\ committed[run[active]].generation < MaxGeneration
  /\ committed' = [committed EXCEPT ![run[active]] =
                     [generation |-> @.generation + 1, by |-> active]]
  /\ UNCHANGED active

Next == (\E p \in Procs : Begin(p)) \/ End \/ Commit

Spec == Init /\ [][Next]_<<active, committed>>
=============================================================================
