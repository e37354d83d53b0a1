------------------------ MODULE GenerationStoreProofs ------------------------
(***************************************************************************)
(* The lock and the generation store keep their promise for any number of  *)
(* processes, runs and generations.                                        *)
(***************************************************************************)
EXTENDS GenerationStore, TLAPS

\* Only the process that is creating the lock file leaves it without content.
CreatorLeavesTorn == \A p \in Procs : pc[p] = "creating" => lock = Torn

\* The files of the generation under way are written by its process.
FilesAreWritten ==
  \A p \in Procs :
    /\ pc[p] \in {"state", "ledger"} =>
         memory[p] < MaxGeneration /\ stateFile[run[p]][memory[p] + 1] = p
    /\ pc[p] = "ledger" => ledgerFile[run[p]][memory[p] + 1] = p

\* Before its directory exists nothing of a run is committed, and before it
\* has loaded anything a process remembers nothing.
NothingBeforeLoad ==
  /\ \A r \in Runs : r \notin workspace => manifest[r] = NoManifest
  /\ \A p \in Procs : pc[p] \in Acquiring \cup {"owner"} => memory[p] = -1
  /\ \A p \in Procs : pc[p] \in Owning \ {"owner"} => run[p] \in workspace

IInv ==
  /\ TypeOK
  /\ CreatorLeavesTorn
  /\ OwnerHoldsLock
  /\ CommittedIsLoadable
  /\ MemoryIsCommitted
  /\ FilesAreWritten
  /\ NothingBeforeLoad

USE RunLockConstants, GenerationConstants
    DEF Acquiring, Owning, Alive, Go, Stale, Generations, Generation, NoManifest

LEMMA InitIInv == Init => IInv
<1> SUFFICES ASSUME Init PROVE IInv
  OBVIOUS
<1>1. TypeOK
  BY DEF Init, LockInit, TypeOK, LockTypeOK, Files
<1>2. CreatorLeavesTorn
  BY DEF Init, LockInit, CreatorLeavesTorn
<1>3. OwnerHoldsLock
  BY DEF Init, LockInit, OwnerHoldsLock
<1>4. CommittedIsLoadable
  BY DEF Init, LockInit, CommittedIsLoadable, Loadable
<1>5. MemoryIsCommitted
  BY DEF Init, LockInit, MemoryIsCommitted
<1>6. FilesAreWritten
  BY DEF Init, LockInit, FilesAreWritten
<1>7. NothingBeforeLoad
  BY DEF Init, LockInit, NothingBeforeLoad
<1>8. QED
  BY <1>1, <1>2, <1>3, <1>4, <1>5, <1>6, <1>7 DEF IInv

\* Every step of the lock protocol and of the store keeps it.
LEMMA NextIInv == IInv /\ [Next]_vars => IInv'
<1> SUFFICES ASSUME IInv, [Next]_vars PROVE IInv'
  OBVIOUS
<1> USE DEF IInv, TypeOK, LockTypeOK, Files
<1>1. ASSUME NEW p \in Procs, Start(p), UNCHANGED storeVars
      PROVE  IInv'
  <2>1. TypeOK'
    BY <1>1 DEF Start, storeVars
  <2>2. CreatorLeavesTorn'
    BY <1>1 DEF CreatorLeavesTorn, Start, storeVars
  <2>3. OwnerHoldsLock'
    BY <1>1 DEF OwnerHoldsLock, Start, storeVars
  <2>4. CommittedIsLoadable'
    BY <1>1 DEF CommittedIsLoadable, Loadable, Start, storeVars
  <2>5. MemoryIsCommitted'
    BY <1>1 DEF MemoryIsCommitted, Start, storeVars
  <2>6. FilesAreWritten'
    BY <1>1 DEF FilesAreWritten, Start, storeVars
  <2>7. NothingBeforeLoad'
    BY <1>1 DEF NothingBeforeLoad, Start, storeVars
  <2>8. QED
    BY <2>1, <2>2, <2>3, <2>4, <2>5, <2>6, <2>7
<1>2. ASSUME NEW p \in Procs, TakeGuard(p), UNCHANGED storeVars
      PROVE  IInv'
  <2>1. TypeOK'
    BY <1>2 DEF TakeGuard, storeVars
  <2>2. CreatorLeavesTorn'
    BY <1>2 DEF CreatorLeavesTorn, TakeGuard, storeVars
  <2>3. OwnerHoldsLock'
    BY <1>2 DEF OwnerHoldsLock, TakeGuard, storeVars
  <2>4. CommittedIsLoadable'
    BY <1>2 DEF CommittedIsLoadable, Loadable, TakeGuard, storeVars
  <2>5. MemoryIsCommitted'
    BY <1>2 DEF MemoryIsCommitted, TakeGuard, storeVars
  <2>6. FilesAreWritten'
    BY <1>2 DEF FilesAreWritten, TakeGuard, storeVars
  <2>7. NothingBeforeLoad'
    BY <1>2 DEF NothingBeforeLoad, TakeGuard, storeVars
  <2>8. QED
    BY <2>1, <2>2, <2>3, <2>4, <2>5, <2>6, <2>7
<1>3. ASSUME NEW p \in Procs, Refuse(p), UNCHANGED storeVars
      PROVE  IInv'
  <2>1. TypeOK'
    BY <1>3 DEF Refuse, storeVars
  <2>2. CreatorLeavesTorn'
    BY <1>3 DEF CreatorLeavesTorn, Refuse, storeVars
  <2>3. OwnerHoldsLock'
    BY <1>3 DEF OwnerHoldsLock, Refuse, storeVars
  <2>4. CommittedIsLoadable'
    BY <1>3 DEF CommittedIsLoadable, Loadable, Refuse, storeVars
  <2>5. MemoryIsCommitted'
    BY <1>3 DEF MemoryIsCommitted, Refuse, storeVars
  <2>6. FilesAreWritten'
    BY <1>3 DEF FilesAreWritten, Refuse, storeVars
  <2>7. NothingBeforeLoad'
    BY <1>3 DEF NothingBeforeLoad, Refuse, storeVars
  <2>8. QED
    BY <2>1, <2>2, <2>3, <2>4, <2>5, <2>6, <2>7
<1>4. ASSUME NEW p \in Procs, RemoveStale(p), UNCHANGED storeVars
      PROVE  IInv'
  <2>1. TypeOK'
    BY <1>4 DEF RemoveStale, storeVars
  <2>2. CreatorLeavesTorn'
    BY <1>4 DEF CreatorLeavesTorn, RemoveStale, storeVars
  <2>3. OwnerHoldsLock'
    BY <1>4 DEF OwnerHoldsLock, RemoveStale, storeVars
  <2>4. CommittedIsLoadable'
    BY <1>4 DEF CommittedIsLoadable, Loadable, RemoveStale, storeVars
  <2>5. MemoryIsCommitted'
    BY <1>4 DEF MemoryIsCommitted, RemoveStale, storeVars
  <2>6. FilesAreWritten'
    BY <1>4 DEF FilesAreWritten, RemoveStale, storeVars
  <2>7. NothingBeforeLoad'
    BY <1>4 DEF NothingBeforeLoad, RemoveStale, storeVars
  <2>8. QED
    BY <2>1, <2>2, <2>3, <2>4, <2>5, <2>6, <2>7
<1>5. ASSUME NEW p \in Procs, Create(p), UNCHANGED storeVars
      PROVE  IInv'
  <2>1. TypeOK'
    BY <1>5 DEF Create, storeVars
  <2>2. CreatorLeavesTorn'
    BY <1>5 DEF CreatorLeavesTorn, Create, storeVars
  <2>3. OwnerHoldsLock'
    BY <1>5 DEF OwnerHoldsLock, Create, storeVars
  <2>4. CommittedIsLoadable'
    BY <1>5 DEF CommittedIsLoadable, Loadable, Create, storeVars
  <2>5. MemoryIsCommitted'
    BY <1>5 DEF MemoryIsCommitted, Create, storeVars
  <2>6. FilesAreWritten'
    BY <1>5 DEF FilesAreWritten, Create, storeVars
  <2>7. NothingBeforeLoad'
    BY <1>5 DEF NothingBeforeLoad, Create, storeVars
  <2>8. QED
    BY <2>1, <2>2, <2>3, <2>4, <2>5, <2>6, <2>7
<1>6. ASSUME NEW p \in Procs, Write(p), UNCHANGED storeVars
      PROVE  IInv'
  <2>1. TypeOK'
    BY <1>6 DEF Write, storeVars
  <2>2. CreatorLeavesTorn'
    BY <1>6 DEF CreatorLeavesTorn, Write, storeVars
  <2>3. OwnerHoldsLock'
    BY <1>6 DEF CreatorLeavesTorn, OwnerHoldsLock, CommittedIsLoadable, MemoryIsCommitted, FilesAreWritten, NothingBeforeLoad, Loadable, Write, storeVars
  <2>4. CommittedIsLoadable'
    BY <1>6 DEF CommittedIsLoadable, Loadable, Write, storeVars
  <2>5. MemoryIsCommitted'
    BY <1>6 DEF MemoryIsCommitted, Write, storeVars
  <2>6. FilesAreWritten'
    BY <1>6 DEF FilesAreWritten, Write, storeVars
  <2>7. NothingBeforeLoad'
    BY <1>6 DEF NothingBeforeLoad, Write, storeVars
  <2>8. QED
    BY <2>1, <2>2, <2>3, <2>4, <2>5, <2>6, <2>7
<1>7. ASSUME NEW p \in Procs, WriteFails(p), UNCHANGED storeVars
      PROVE  IInv'
  <2>1. TypeOK'
    BY <1>7 DEF WriteFails, storeVars
  <2>2. CreatorLeavesTorn'
    BY <1>7 DEF CreatorLeavesTorn, WriteFails, storeVars
  <2>3. OwnerHoldsLock'
    BY <1>7 DEF CreatorLeavesTorn, OwnerHoldsLock, CommittedIsLoadable, MemoryIsCommitted, FilesAreWritten, NothingBeforeLoad, Loadable, WriteFails, storeVars
  <2>4. CommittedIsLoadable'
    BY <1>7 DEF CommittedIsLoadable, Loadable, WriteFails, storeVars
  <2>5. MemoryIsCommitted'
    BY <1>7 DEF MemoryIsCommitted, WriteFails, storeVars
  <2>6. FilesAreWritten'
    BY <1>7 DEF FilesAreWritten, WriteFails, storeVars
  <2>7. NothingBeforeLoad'
    BY <1>7 DEF NothingBeforeLoad, WriteFails, storeVars
  <2>8. QED
    BY <2>1, <2>2, <2>3, <2>4, <2>5, <2>6, <2>7
<1>8. ASSUME NEW p \in Procs, Release(p), UNCHANGED storeVars
      PROVE  IInv'
  <2>1. TypeOK'
    BY <1>8 DEF Release, storeVars
  <2>2. CreatorLeavesTorn'
    BY <1>8 DEF CreatorLeavesTorn, Release, storeVars
  <2>3. OwnerHoldsLock'
    BY <1>8 DEF OwnerHoldsLock, Release, storeVars
  <2>4. CommittedIsLoadable'
    BY <1>8 DEF CommittedIsLoadable, Loadable, Release, storeVars
  <2>5. MemoryIsCommitted'
    BY <1>8 DEF MemoryIsCommitted, Release, storeVars
  <2>6. FilesAreWritten'
    BY <1>8 DEF FilesAreWritten, Release, storeVars
  <2>7. NothingBeforeLoad'
    BY <1>8 DEF NothingBeforeLoad, Release, storeVars
  <2>8. QED
    BY <2>1, <2>2, <2>3, <2>4, <2>5, <2>6, <2>7
<1>9. ASSUME NEW p \in Procs, Crash(p), UNCHANGED storeVars
      PROVE  IInv'
  <2>1. TypeOK'
    BY <1>9 DEF Crash, storeVars
  <2>2. CreatorLeavesTorn'
    BY <1>9 DEF CreatorLeavesTorn, Crash, storeVars
  <2>3. OwnerHoldsLock'
    BY <1>9 DEF OwnerHoldsLock, Crash, storeVars
  <2>4. CommittedIsLoadable'
    BY <1>9 DEF CommittedIsLoadable, Loadable, Crash, storeVars
  <2>5. MemoryIsCommitted'
    BY <1>9 DEF MemoryIsCommitted, Crash, storeVars
  <2>6. FilesAreWritten'
    BY <1>9 DEF FilesAreWritten, Crash, storeVars
  <2>7. NothingBeforeLoad'
    BY <1>9 DEF NothingBeforeLoad, Crash, storeVars
  <2>8. QED
    BY <2>1, <2>2, <2>3, <2>4, <2>5, <2>6, <2>7
<1>10. ASSUME NEW p \in Procs, Initialize(p)
      PROVE  IInv'
  <2>1. TypeOK'
    BY <1>10 DEF Initialize
  <2>2. CreatorLeavesTorn'
    BY <1>10 DEF CreatorLeavesTorn, Initialize
  <2>3. OwnerHoldsLock'
    BY <1>10 DEF OwnerHoldsLock, Initialize
  <2>4. CommittedIsLoadable'
    BY <1>10 DEF CommittedIsLoadable, Loadable, Initialize
  <2>5. MemoryIsCommitted'
    BY <1>10 DEF CreatorLeavesTorn, OwnerHoldsLock, CommittedIsLoadable, MemoryIsCommitted, FilesAreWritten, NothingBeforeLoad, Loadable, Initialize
  <2>6. FilesAreWritten'
    BY <1>10 DEF FilesAreWritten, Initialize
  <2>7. NothingBeforeLoad'
    BY <1>10 DEF NothingBeforeLoad, Initialize
  <2>8. QED
    BY <2>1, <2>2, <2>3, <2>4, <2>5, <2>6, <2>7
<1>11. ASSUME NEW p \in Procs, Load(p)
      PROVE  IInv'
  <2>1. TypeOK'
    BY <1>11 DEF Loadable, Load
  <2>2. CreatorLeavesTorn'
    BY <1>11 DEF CreatorLeavesTorn, Loadable, Load
  <2>3. OwnerHoldsLock'
    BY <1>11 DEF OwnerHoldsLock, Loadable, Load
  <2>4. CommittedIsLoadable'
    BY <1>11 DEF CommittedIsLoadable, Loadable, Load
  <2>5. MemoryIsCommitted'
    BY <1>11 DEF MemoryIsCommitted, Loadable, Load
  <2>6. FilesAreWritten'
    BY <1>11 DEF FilesAreWritten, Loadable, Load
  <2>7. NothingBeforeLoad'
    BY <1>11 DEF NothingBeforeLoad, Loadable, Load
  <2>8. QED
    BY <2>1, <2>2, <2>3, <2>4, <2>5, <2>6, <2>7
<1>12. ASSUME NEW p \in Procs, WriteState(p)
      PROVE  IInv'
  <2>1. TypeOK'
    BY <1>12 DEF WriteState
  <2>2. CreatorLeavesTorn'
    BY <1>12 DEF CreatorLeavesTorn, WriteState
  <2>3. OwnerHoldsLock'
    BY <1>12 DEF OwnerHoldsLock, WriteState
  <2>4. CommittedIsLoadable'
    BY <1>12 DEF CommittedIsLoadable, Loadable, WriteState
  <2>5. MemoryIsCommitted'
    BY <1>12 DEF MemoryIsCommitted, WriteState
  <2>6. FilesAreWritten'
    BY <1>12 DEF OwnerHoldsLock, MemoryIsCommitted, FilesAreWritten, WriteState
  <2>7. NothingBeforeLoad'
    BY <1>12 DEF NothingBeforeLoad, WriteState
  <2>8. QED
    BY <2>1, <2>2, <2>3, <2>4, <2>5, <2>6, <2>7
<1>13. ASSUME NEW p \in Procs, WriteLedger(p)
      PROVE  IInv'
  <2>1. TypeOK'
    BY <1>13 DEF WriteLedger
  <2>2. CreatorLeavesTorn'
    BY <1>13 DEF CreatorLeavesTorn, WriteLedger
  <2>3. OwnerHoldsLock'
    BY <1>13 DEF OwnerHoldsLock, WriteLedger
  <2>4. CommittedIsLoadable'
    BY <1>13 DEF OwnerHoldsLock, CommittedIsLoadable, MemoryIsCommitted, Loadable, WriteLedger
  <2>5. MemoryIsCommitted'
    BY <1>13 DEF MemoryIsCommitted, WriteLedger
  <2>6. FilesAreWritten'
    BY <1>13 DEF FilesAreWritten, WriteLedger
  <2>7. NothingBeforeLoad'
    BY <1>13 DEF NothingBeforeLoad, WriteLedger
  <2>8. QED
    BY <2>1, <2>2, <2>3, <2>4, <2>5, <2>6, <2>7
<1>14. ASSUME NEW p \in Procs, WriteManifest(p)
      PROVE  IInv'
  <2>1. TypeOK'
    BY <1>14 DEF CreatorLeavesTorn, OwnerHoldsLock, CommittedIsLoadable, MemoryIsCommitted, FilesAreWritten, NothingBeforeLoad, Loadable, WriteManifest
  <2>2. CreatorLeavesTorn'
    BY <1>14 DEF CreatorLeavesTorn, WriteManifest
  <2>3. OwnerHoldsLock'
    BY <1>14 DEF OwnerHoldsLock, WriteManifest
  <2>4. CommittedIsLoadable'
    BY <1>14 DEF CreatorLeavesTorn, OwnerHoldsLock, CommittedIsLoadable, MemoryIsCommitted, FilesAreWritten, NothingBeforeLoad, Loadable, WriteManifest
  <2>5. MemoryIsCommitted'
    BY <1>14 DEF OwnerHoldsLock, MemoryIsCommitted, WriteManifest
  <2>6. FilesAreWritten'
    BY <1>14 DEF FilesAreWritten, WriteManifest
  <2>7. NothingBeforeLoad'
    BY <1>14 DEF NothingBeforeLoad, WriteManifest
  <2>8. QED
    BY <2>1, <2>2, <2>3, <2>4, <2>5, <2>6, <2>7
<1>15. ASSUME NEW p \in Procs, Reread(p)
      PROVE  IInv'
  <2>1. TypeOK'
    BY <1>15 DEF CreatorLeavesTorn, OwnerHoldsLock, CommittedIsLoadable, MemoryIsCommitted, FilesAreWritten, NothingBeforeLoad, Loadable, Reread
  <2>2. CreatorLeavesTorn'
    BY <1>15 DEF CreatorLeavesTorn, Loadable, Reread
  <2>3. OwnerHoldsLock'
    BY <1>15 DEF OwnerHoldsLock, Loadable, Reread
  <2>4. CommittedIsLoadable'
    BY <1>15 DEF CommittedIsLoadable, Loadable, Reread
  <2>5. MemoryIsCommitted'
    BY <1>15 DEF MemoryIsCommitted, Loadable, Reread
  <2>6. FilesAreWritten'
    BY <1>15 DEF FilesAreWritten, Loadable, Reread
  <2>7. NothingBeforeLoad'
    BY <1>15 DEF NothingBeforeLoad, Loadable, Reread
  <2>8. QED
    BY <2>1, <2>2, <2>3, <2>4, <2>5, <2>6, <2>7
<1>16. CASE UNCHANGED vars
  BY <1>16 DEF vars, CreatorLeavesTorn, OwnerHoldsLock, CommittedIsLoadable, MemoryIsCommitted, FilesAreWritten, NothingBeforeLoad,
    Loadable
<1>17. QED
  BY <1>1, <1>2, <1>3, <1>4, <1>5, <1>6, <1>7, <1>8,
    <1>9, <1>10, <1>11, <1>12, <1>13, <1>14, <1>15, <1>16
    DEF Next, LockStep, StoreStep

\* The inductive invariant holds of every behaviour.
THEOREM Invariance == Spec => []IInv
<1>1. QED
  BY InitIInv, NextIInv, PTL DEF Spec

\* The variables keep their types, and the guard is held by who is inside it.
THEOREM TypeCorrect == Spec => []TypeOK
<1>1. IInv => TypeOK
  BY DEF IInv
<1>2. QED
  BY <1>1, Invariance, PTL

\* The worktree never has two coordinators: crashes, stale locks and takeovers
\* leave at most one process past acquire_run_lock.
THEOREM MutualExclusion == Spec => []OneCoordinator
<1>1. IInv => OneCoordinator
  BY DEF IInv, OwnerHoldsLock, OneCoordinator
<1>2. QED
  BY <1>1, Invariance, PTL

\* After a crash anywhere in commit_generation, load_committed finds the
\* generation the manifest names.
THEOREM CommitsAreLoadable == Spec => []CommittedIsLoadable
<1>1. IInv => CommittedIsLoadable
  BY DEF IInv
<1>2. QED
  BY <1>1, Invariance, PTL

\* No process commits behind the back of another.
THEOREM MemoryFollowsManifest == Spec => []MemoryIsCommitted
<1>1. IInv => MemoryIsCommitted
  BY DEF IInv
<1>2. QED
  BY <1>1, Invariance, PTL

-----------------------------------------------------------------------------
\* The lock and the store implement CommitPromise.

LEMMA ActiveIsOwner ==
  ASSUME IInv, NEW p \in Procs, pc[p] \in Owning
  PROVE  Active = p
<1>1. \A q \in Procs : pc[q] \in Owning => q = p
  BY DEF IInv, OwnerHoldsLock
<1>2. QED
  BY <1>1 DEF Active

LEMMA NobodyActive ==
  ASSUME \A p \in Procs : pc[p] \notin Owning
  PROVE  Active = NoProcess
BY DEF Active

\* What is committed depends on the three files alone.
LEMMA SameFiles ==
  ASSUME UNCHANGED <<stateFile, ledgerFile, manifest>>
  PROVE  UNCHANGED Committed
BY DEF Committed, Loadable

LEMMA InitPromise == Init => Promise!Init
<1> SUFFICES ASSUME Init PROVE Promise!Init
  OBVIOUS
<1>1. Active = NoProcess
  BY NobodyActive DEF Init, LockInit
<1>2. \A r \in Runs : ~Loadable(r)
  BY DEF Init, Loadable
<1>3. QED
  BY <1>1, <1>2 DEF Promise!Init, Promise!Nothing, Committed

\* A step that neither enters nor leaves ownership keeps the active process.
LEMMA SameOwner ==
  ASSUME IInv, IInv', \A p \in Procs : pc[p] \in Owning <=> pc'[p] \in Owning
  PROVE  UNCHANGED Active
<1>1. CASE \E p \in Procs : pc[p] \in Owning
  <2>1. PICK p \in Procs : pc[p] \in Owning
    BY <1>1
  <2>2. Active = p
    BY <2>1, ActiveIsOwner
  <2>3. \A q \in Procs : pc'[q] \in Owning => q = p
    BY <2>1 DEF IInv, OwnerHoldsLock
  <2>4. Active' = p
    BY <2>1, <2>3 DEF Active
  <2>5. QED
    BY <2>2, <2>4
<1>2. CASE \A p \in Procs : pc[p] \notin Owning
  BY <1>2 DEF Active
<1>3. QED
  BY <1>1, <1>2

\* Write is Begin.
LEMMA WriteBegins ==
  ASSUME IInv, IInv', NEW p \in Procs, Write(p), UNCHANGED storeVars
  PROVE  Promise!Begin(p)
<1>1. lock = Torn
  BY DEF IInv, CreatorLeavesTorn, Write
<1>2. Active = NoProcess
  BY <1>1, NobodyActive DEF IInv, OwnerHoldsLock
<1>3. pc'[p] \in Owning /\ \A q \in Procs : pc'[q] \in Owning => q = p
  BY DEF Write, IInv, TypeOK, LockTypeOK, OwnerHoldsLock
<1>4. Active' = p
  BY <1>3 DEF Active
<1>5. UNCHANGED Committed
  BY SameFiles DEF storeVars
<1>6. QED
  BY <1>2, <1>4, <1>5 DEF Promise!Begin

\* An owner that releases the lock, or dies, is End.
LEMMA OwnerLeaves ==
  ASSUME IInv, NEW p \in Procs, pc[p] \in Owning, Go(p, "dead"), UNCHANGED storeVars
  PROVE  Promise!End
<1>1. Active = p
  BY ActiveIsOwner
<1>2. \A q \in Procs : pc'[q] \notin Owning
  BY DEF IInv, TypeOK, LockTypeOK, OwnerHoldsLock
<1>3. Active' = NoProcess
  BY <1>2 DEF Active
<1>4. UNCHANGED Committed
  BY SameFiles DEF storeVars
<1>5. QED
  BY <1>1, <1>3, <1>4 DEF Promise!End

\* Files of a generation that is not committed yet decide nothing.
LEMMA FilesFirst ==
  ASSUME IInv, NEW p \in Procs, WriteState(p) \/ WriteLedger(p)
  PROVE  UNCHANGED Committed
<1>1. /\ manifest' = manifest
      /\ Generation(run[p]) # memory[p] + 1
  BY DEF IInv, TypeOK, MemoryIsCommitted, WriteState, WriteLedger
<1>2. \A r \in Runs : Generation(r) \in Generations =>
        /\ stateFile'[r][Generation(r)] = stateFile[r][Generation(r)]
        /\ ledgerFile'[r][Generation(r)] = ledgerFile[r][Generation(r)]
  <2>1. CASE WriteState(p)
    BY <1>1, <2>1 DEF IInv, TypeOK, Files, WriteState
  <2>2. CASE WriteLedger(p)
    BY <1>1, <2>2 DEF IInv, TypeOK, Files, WriteLedger
  <2>3. QED
    BY <2>1, <2>2
<1>3. \A r \in Runs : Loadable(r)' = Loadable(r)
  BY <1>1, <1>2 DEF Loadable
<1>4. QED
  BY <1>1, <1>3 DEF Committed

\* WriteManifest is Commit.
LEMMA ManifestCommits ==
  ASSUME IInv, IInv', NEW p \in Procs, WriteManifest(p)
  PROVE  Promise!Commit
<1> DEFINE r == run[p]
           new == [generation |-> memory[p] + 1, by |-> p]
<1>1. Active = p
  BY ActiveIsOwner DEF WriteManifest
<1>2. UNCHANGED Active
  <2>1. \A q \in Procs : pc[q] \in Owning <=> pc'[q] \in Owning
    BY DEF WriteManifest, IInv, TypeOK, LockTypeOK
  <2>2. QED
    BY <2>1, SameOwner
<1>3. memory[p] = Generation(r) /\ memory[p] < MaxGeneration /\ memory[p] \in Int
  BY DEF IInv, TypeOK, MemoryIsCommitted, FilesAreWritten, WriteManifest
<1>4. Committed[r].generation = memory[p]
  BY <1>3 DEF IInv, CommittedIsLoadable, Committed, Loadable
<1>5. \A s \in Runs \ {r} : Committed'[s] = Committed[s]
  BY DEF IInv, TypeOK, WriteManifest, Committed, Loadable
<1>6. Committed'[r] = new
  <2>1. manifest'[r] = [generation |-> memory[p] + 1, state |-> p, ledger |-> p]
    BY DEF IInv, TypeOK, WriteManifest
  <2>2. Loadable(r)'
    BY <1>3, <2>1 DEF IInv, TypeOK, CommittedIsLoadable
  <2>3. QED
    BY <2>1, <2>2 DEF Committed
<1>7. Committed' = [Committed EXCEPT ![r] = new]
  <2>1. /\ Committed = [s \in Runs |-> Committed[s]]
        /\ Committed' = [s \in Runs |-> Committed'[s]]
    BY DEF Committed
  <2> HIDE DEF new
  <2>2. QED
    BY <1>5, <1>6, <2>1
<1>8. QED
  BY <1>1, <1>2, <1>3, <1>4, <1>7 DEF Promise!Commit

LEMMA NextPromise ==
  IInv /\ IInv' /\ [Next]_vars => [Promise!Next]_<<Active, Committed>>
<1> SUFFICES ASSUME IInv, IInv', [Next]_vars
             PROVE  Promise!Next \/ UNCHANGED <<Active, Committed>>
  OBVIOUS
<1> USE DEF IInv, TypeOK, LockTypeOK
<1>1. ASSUME NEW p \in Procs, UNCHANGED storeVars,
             Start(p) \/ TakeGuard(p) \/ Refuse(p) \/ RemoveStale(p) \/ Create(p) \/ WriteFails(p)
      PROVE  UNCHANGED <<Active, Committed>>
  <2>1. \A q \in Procs : pc[q] \in Owning <=> pc'[q] \in Owning
    BY <1>1 DEF Start, TakeGuard, Refuse, RemoveStale, Create, WriteFails
  <2>2. QED
    BY <1>1, <2>1, SameOwner, SameFiles DEF storeVars
<1>2. ASSUME NEW p \in Procs, Write(p), UNCHANGED storeVars PROVE Promise!Next
  BY <1>2, WriteBegins DEF Promise!Next
<1>3. ASSUME NEW p \in Procs, Release(p), UNCHANGED storeVars PROVE Promise!Next
  BY <1>3, OwnerLeaves DEF Promise!Next, Release
<1>4. ASSUME NEW p \in Procs, Crash(p), UNCHANGED storeVars
      PROVE  Promise!Next \/ UNCHANGED <<Active, Committed>>
  <2>1. CASE pc[p] \in Owning
    BY <1>4, <2>1, OwnerLeaves DEF Promise!Next, Crash
  <2>2. CASE pc[p] \notin Owning
    <3>1. \A q \in Procs : pc[q] \in Owning <=> pc'[q] \in Owning
      BY <1>4, <2>2 DEF Crash
    <3>2. QED
      BY <1>4, <3>1, SameOwner, SameFiles DEF storeVars
  <2>3. QED
    BY <2>1, <2>2
<1>5. ASSUME NEW p \in Procs, StoreStep(p), ~WriteManifest(p)
      PROVE  UNCHANGED <<Active, Committed>>
  <2>1. \A q \in Procs : pc[q] \in Owning <=> pc'[q] \in Owning
    BY <1>5 DEF StoreStep, Initialize, Load, WriteState, WriteLedger, Reread
  <2>2. UNCHANGED Committed
    <3>1. CASE WriteState(p) \/ WriteLedger(p)
      BY <3>1, FilesFirst
    <3>2. CASE Initialize(p) \/ Load(p) \/ Reread(p)
      BY <3>2, SameFiles DEF Initialize, Load, Reread
    <3>3. QED
      BY <1>5, <3>1, <3>2 DEF StoreStep
  <2>3. QED
    BY <2>1, <2>2, SameOwner
<1>6. ASSUME NEW p \in Procs, WriteManifest(p) PROVE Promise!Next
  BY <1>6, ManifestCommits DEF Promise!Next
<1>7. CASE UNCHANGED vars
  <2>1. \A q \in Procs : pc[q] \in Owning <=> pc'[q] \in Owning
    BY <1>7 DEF vars
  <2>2. QED
    BY <1>7, <2>1, SameOwner, SameFiles DEF vars
<1>8. QED
  BY <1>1, <1>2, <1>3, <1>4, <1>5, <1>6, <1>7 DEF Next, LockStep

\* The lock and the generation store implement the promise RunLoop builds on:
\* one process at a time, each commit at once or not at all, none ever lost.
THEOREM PromiseIsKept == Spec => PromiseKept
<1>1. QED
  BY Invariance, InitPromise, NextPromise, PTL DEF Spec, PromiseKept, Promise!Spec
=============================================================================
