---------------------------- MODULE GenerationStore ----------------------------
(***************************************************************************)
(* The committed state of each run: commit_generation and load_committed   *)
(* of generation.py, under the coordinator lock of RunLock.                *)
(*                                                                         *)
(* A generation is two files, state.N.json and ledger.N.json, and the      *)
(* manifest commit.json with their digests; each file is synced and        *)
(* replaced at once, in this order.  The content of a file is told apart   *)
(* by the process that wrote it, since a process writes each number once.  *)
(***************************************************************************)
EXTENDS RunLock, Integers

CONSTANT MaxGeneration  \* bound on the generations of a run

ASSUME GenerationConstants == MaxGeneration \in Nat

Generations == 0 .. MaxGeneration
Files == [Runs -> [Generations -> Procs \cup {NoProcess}]]

VARIABLES
  workspace,   \* runs whose directory exists
  stateFile,   \* state.N.json of each run: its writer, or NoProcess
  ledgerFile,  \* ledger.N.json
  manifest,    \* commit.json: a generation and the digests of its two files
  memory       \* the generation of controller.state in each process

storeVars == <<workspace, stateFile, ledgerFile, manifest, memory>>
vars == <<lock, guard, pc, workspace, stateFile, ledgerFile, manifest, memory>>

NoManifest == [generation |-> -1, state |-> NoProcess, ledger |-> NoProcess]

TypeOK ==
  /\ LockTypeOK
  /\ workspace \subseteq Runs
  /\ stateFile \in Files
  /\ ledgerFile \in Files
  /\ manifest \in [Runs -> [generation : -1 .. MaxGeneration,
                            state : Procs \cup {NoProcess},
                            ledger : Procs \cup {NoProcess}]]
  /\ memory \in [Procs -> -1 .. MaxGeneration]

Init ==
  /\ LockInit
  /\ workspace = {}
  /\ stateFile = [r \in Runs |-> [g \in Generations |-> NoProcess]]
  /\ ledgerFile = [r \in Runs |-> [g \in Generations |-> NoProcess]]
  /\ manifest = [r \in Runs |-> NoManifest]
  /\ memory = [p \in Procs |-> -1]

Generation(r) == manifest[r].generation

\* load_committed of a run: the files have the digests of the manifest.
Loadable(r) ==
  /\ Generation(r) \in Generations
  /\ stateFile[r][Generation(r)] = manifest[r].state
  /\ ledgerFile[r][Generation(r)] = manifest[r].ledger

-----------------------------------------------------------------------------
\* _initialize: create_run_workspace accepts no directory that exists.
Initialize(p) ==
  /\ pc[p] = "owner"
  /\ run[p] \notin workspace
  /\ workspace' = workspace \cup {run[p]}
  /\ Go(p, "loaded")
  /\ UNCHANGED <<lock, guard, stateFile, ledgerFile, manifest, memory>>

\* _resume; it raises when there is nothing it can load.
Load(p) ==
  /\ pc[p] = "owner"
  /\ run[p] \in workspace
  /\ Loadable(run[p])
  /\ memory' = [memory EXCEPT ![p] = Generation(run[p])]
  /\ Go(p, "loaded")
  /\ UNCHANGED <<lock, guard, workspace, stateFile, ledgerFile, manifest>>

\* Mutant of WriteState: the new state replaces the committed file.
WriteStateInPlace(p) ==
  /\ pc[p] = "loaded"
  /\ memory[p] = Generation(run[p])
  /\ memory[p] < MaxGeneration
  /\ stateFile' = [stateFile EXCEPT ![run[p]][IF memory[p] = -1 THEN 0 ELSE memory[p]] = p]
  /\ Go(p, "state")
  /\ UNCHANGED <<lock, guard, workspace, ledgerFile, manifest, memory>>

\* commit_generation: the new generation is the manifest's plus one, or it
\* raises; then the three files, one after the other.
WriteState(p) ==
  /\ pc[p] = "loaded"
  /\ memory[p] = Generation(run[p])
  /\ memory[p] < MaxGeneration
  /\ stateFile' = [stateFile EXCEPT ![run[p]][memory[p] + 1] = p]
  /\ Go(p, "state")
  /\ UNCHANGED <<lock, guard, workspace, ledgerFile, manifest, memory>>

WriteLedger(p) ==
  /\ pc[p] = "state"
  /\ ledgerFile' = [ledgerFile EXCEPT ![run[p]][memory[p] + 1] = p]
  /\ Go(p, "ledger")
  /\ UNCHANGED <<lock, guard, workspace, stateFile, manifest, memory>>

\* Mutant of WriteManifest: it does not wait for the ledger.
WriteManifestEarly(p) ==
  /\ pc[p] \in {"state", "ledger"}
  /\ manifest' = [manifest EXCEPT ![run[p]] =
                    [generation |-> memory[p] + 1, state |-> p, ledger |-> p]]
  /\ Go(p, "manifest")
  /\ UNCHANGED <<lock, guard, workspace, stateFile, ledgerFile, memory>>

WriteManifest(p) ==
  /\ pc[p] = "ledger"
  /\ manifest' = [manifest EXCEPT ![run[p]] =
                    [generation |-> memory[p] + 1, state |-> p, ledger |-> p]]
  /\ Go(p, "manifest")
  /\ UNCHANGED <<lock, guard, workspace, stateFile, ledgerFile, memory>>

\* Mutant of Reread: the controller keeps the state it had.
RereadOnly(p) ==
  /\ pc[p] = "manifest"
  /\ Loadable(run[p])
  /\ manifest[run[p]] = [generation |-> memory[p] + 1, state |-> p, ledger |-> p]
  /\ Go(p, "loaded")
  /\ UNCHANGED <<lock, guard, storeVars>>

\* What was written is read again, or commit_generation raises; the new state
\* is the controller's.
Reread(p) ==
  /\ pc[p] = "manifest"
  /\ Loadable(run[p])
  /\ manifest[run[p]] = [generation |-> memory[p] + 1, state |-> p, ledger |-> p]
  /\ memory' = [memory EXCEPT ![p] = memory[p] + 1]
  /\ Go(p, "loaded")
  /\ UNCHANGED <<lock, guard, workspace, stateFile, ledgerFile, manifest>>

StoreStep(p) ==
  \/ Initialize(p) \/ Load(p) \/ WriteState(p) \/ WriteLedger(p)
  \/ WriteManifest(p) \/ Reread(p)

Next == \E p \in Procs : (LockStep(p) /\ UNCHANGED storeVars) \/ StoreStep(p)

Spec == Init /\ [][Next]_vars

-----------------------------------------------------------------------------
\* Wherever a crash falls, in whichever process of the run, the files the
\* manifest names are there with the digests it names (load_committed).
CommittedIsLoadable == \A r \in Runs : manifest[r] # NoManifest => Loadable(r)

\* A process between two commits holds the committed state: nobody commits
\* behind its back, so its next commit is never refused as out of sequence
\* (GenerationMismatchError).
MemoryIsCommitted ==
  \A p \in Procs : pc[p] \in {"loaded", "state", "ledger"} =>
    memory[p] = Generation(run[p])

\* The generation store under the run lock implements CommitPromise: the owner
\* of the lock is the active process, and the manifest alone decides what is
\* committed; a run whose files do not match it would have committed nothing.
Active ==
  IF \E p \in Procs : pc[p] \in Owning
  THEN CHOOSE p \in Procs : pc[p] \in Owning
  ELSE NoProcess

Committed == [r \in Runs |->
  IF Loadable(r) THEN [generation |-> Generation(r), by |-> manifest[r].state]
  ELSE [generation |-> -1, by |-> NoProcess]]

Promise == INSTANCE CommitPromise WITH active <- Active, committed <- Committed

PromiseKept == Promise!Spec
=============================================================================
