------------------------------- MODULE RunLock -------------------------------
(***************************************************************************)
(* The coordinator lock of one worktree: acquire_run_lock and              *)
(* release_run_lock of locking.py.                                         *)
(*                                                                         *)
(* A process here is one incarnation: pid and start time together, which   *)
(* is what process_identity returns, so a dead process never lives again.  *)
(* A restart is another process with the same run id.  The lock file has a *)
(* guard file beside it, locked with flock or msvcrt, which the operating  *)
(* system releases when its holder dies.                                   *)
(***************************************************************************)
EXTENDS Naturals

CONSTANTS
  Procs,      \* coordinator processes, each started at most once
  Runs,       \* run ids
  run,        \* the run id each process is started with
  NoProcess,  \* no lock file; nobody at the guard
  Torn        \* a lock file that is created and has no content yet

ASSUME RunLockConstants ==
  /\ run \in [Procs -> Runs]
  /\ NoProcess \notin Procs
  /\ Torn \notin Procs \cup {NoProcess}

VARIABLES
  lock,   \* the lock file: the process it names
  guard,  \* who holds the lock on the guard file
  pc      \* where each process is

lockVars == <<lock, guard, pc>>

Acquiring == {"new", "waiting", "guarded", "creating"}
Owning == {"owner", "loaded", "state", "ledger", "manifest"}

LockTypeOK ==
  /\ lock \in Procs \cup {NoProcess, Torn}
  /\ guard \in Procs \cup {NoProcess}
  /\ pc \in [Procs -> Acquiring \cup Owning \cup {"dead"}]
  /\ \A p \in Procs : guard = p <=> pc[p] \in {"guarded", "creating"}

LockInit ==
  /\ lock = NoProcess
  /\ guard = NoProcess
  /\ pc = [p \in Procs |-> "new"]

Alive(p) == pc[p] \notin {"new", "dead"}
Go(p, place) == pc' = [pc EXCEPT ![p] = place]

-----------------------------------------------------------------------------
\* Mutant of Stale: the process identity is not looked at.
StaleByRun(p) == lock \in Procs /\ run[lock] = run[p]

\* _lock_is_stale, and the run it belongs to: a process takes over the lock of
\* a dead process of its own run only.
Stale(p) == lock \in Procs /\ ~Alive(lock) /\ run[lock] = run[p]

Start(p) ==
  /\ pc[p] = "new"
  /\ Go(p, "waiting")
  /\ UNCHANGED <<lock, guard>>

\* Entering _lock_guard.
TakeGuard(p) ==
  /\ pc[p] = "waiting"
  /\ guard = NoProcess
  /\ guard' = p
  /\ Go(p, "guarded")
  /\ UNCHANGED lock

\* Mutant of Refuse: the guard is given back on the way of success only.
RefuseUnderGuard(p) ==
  /\ pc[p] = "guarded"
  /\ lock # NoProcess /\ ~Stale(p)
  /\ Go(p, "dead")
  /\ UNCHANGED <<lock, guard>>

\* RunLockError: the lock is unreadable, its process lives, or it is another run's.
Refuse(p) ==
  /\ pc[p] = "guarded"
  /\ lock # NoProcess /\ ~Stale(p)
  /\ guard' = NoProcess
  /\ Go(p, "dead")
  /\ UNCHANGED lock

\* path.unlink() of a stale lock.
RemoveStale(p) ==
  /\ pc[p] = "guarded"
  /\ Stale(p)
  /\ lock' = NoProcess
  /\ UNCHANGED <<guard, pc>>

\* os.open with O_CREAT and O_EXCL.
Create(p) ==
  /\ pc[p] = "guarded"
  /\ lock = NoProcess
  /\ lock' = Torn
  /\ Go(p, "creating")
  /\ UNCHANGED guard

\* The content is written and synced, and the guard released.
Write(p) ==
  /\ pc[p] = "creating"
  /\ lock' = p
  /\ guard' = NoProcess
  /\ Go(p, "owner")

\* OSError on the write: the incomplete lock is removed.
WriteFails(p) ==
  /\ pc[p] = "creating"
  /\ lock' = NoProcess
  /\ guard' = NoProcess
  /\ Go(p, "dead")

\* release_run_lock, in the finally of main, whatever the outcome: under the
\* guard, and only of a lock that is its own.
Release(p) ==
  /\ pc[p] \in Owning
  /\ guard = NoProcess
  /\ lock' = IF lock = p THEN NoProcess ELSE lock
  /\ Go(p, "dead")
  /\ UNCHANGED guard

\* The process is killed or the machine fails.
Crash(p) ==
  /\ Alive(p)
  /\ guard' = IF guard = p THEN NoProcess ELSE guard
  /\ Go(p, "dead")
  /\ UNCHANGED lock

LockStep(p) ==
  \/ Start(p) \/ TakeGuard(p) \/ Refuse(p) \/ RemoveStale(p)
  \/ Create(p) \/ Write(p) \/ WriteFails(p) \/ Release(p) \/ Crash(p)

-----------------------------------------------------------------------------
\* The worktree has one coordinator: two processes never both pass
\* acquire_run_lock and live, whatever crashes and takeovers come between.
OneCoordinator ==
  \A p, q \in Procs : pc[p] \in Owning /\ pc[q] \in Owning => p = q

\* The lock names its owner as long as the owner lives.
OwnerHoldsLock == \A p \in Procs : pc[p] \in Owning => lock = p
=============================================================================
