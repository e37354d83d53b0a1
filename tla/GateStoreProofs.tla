--------------------------- MODULE GateStoreProofs ---------------------------
(***************************************************************************)
(* The invariants of GateStore, for any number of gates, launchers and     *)
(* users.                                                                  *)
(***************************************************************************)
EXTENDS GateStore, TLAPS

\* Who works for the coordinator has the run lock.
OwnerPlace ==
  \A p \in Procs :
    pc[p] \in {"loop", "notify"} \/ job[p] \in {"create", "resume"} => owner = p

\* Where a process can be on whose behalf.
JobPlace ==
  \A p \in Procs :
    /\ pc[p] \in {"idle", "done", "loop", "notify", "poll", "reload"} => job[p] = "none"
    /\ pc[p] = "list" => job[p] \in {"create", "resume", "decide"}
    /\ pc[p] = "bind" => job[p] = "create"
    /\ pc[p] = "read" => job[p] = "resume"
    /\ pc[p] \in {"check", "resolve"} => job[p] = "decide"
    /\ pc[p] \in {"publish", "ack"} => job[p] # "none"
    /\ pc[p] = "sync" => job[p] = "resolve"
    /\ todo[p] # {} => pc[p] \in {"list", "publish", "ack"} /\ job[p] # "resolve"

\* The store is filled in one order: the gate, its notification, the
\* acknowledgement; what is applied was an answer of the store.
FilesInOrder ==
  \A g \in Gates :
    /\ note[g] # "absent" => gate[g] # "absent"
    /\ ack[g] \in Answers => note[g] = ack[g]
    /\ applied[g] # NoAnswer => gate[g] \in Answers

\* Only gates with a notification are listed or locked, and a process has the
\* lock of at most one.
LocksInOrder ==
  /\ \A p \in Procs : \A g \in todo[p] : note[g] # "absent"
  /\ \A g \in Gates :
       lock[g] # Nobody => note[g] # "absent" /\ pc[lock[g]] \in {"sync", "publish", "ack"}
  /\ \A g, h \in Gates : lock[g] # Nobody /\ lock[g] = lock[h] => g = h

\* A gate in creation is the run's affair alone: no run is bound to it, nobody
\* answers it.
CreationPlace ==
  \A p \in Procs :
    /\ pc[p] = "notify" \/ job[p] = "create" =>
         /\ phase = "blocked" /\ bound = NoGate
         /\ target[p] \in Gates
         /\ gate[target[p]] = "pending" /\ applied[target[p]] = NoAnswer
    /\ pc[p] = "notify" => note[target[p]] = "absent"
    /\ job[p] = "create" => note[target[p]] # "absent"

ResumePlace == \A p \in Procs : job[p] = "resume" => bound # NoGate

\* Whoever answers a gate was led to it by the binding, which stays until the
\* gate is answered.
DecisionPlace ==
  \A p \in Procs :
    /\ job[p] = "decide" =>
         /\ target[p] \in Gates
         /\ note[target[p]] # "absent"
         /\ gate[target[p]] = "pending" => bound = target[p]
    /\ pc[p] = "reload" \/ job[p] = "decide" => wish[p] \in Answers

\* What is about to be acknowledged was published, and has not been asked again.
PublishedBeforeAck ==
  \A g \in Gates :
    lock[g] # Nobody /\ pc[lock[g]] = "ack" /\ note[g] \in Answers =>
      remote[g] \in {Missing, Shown("resolved", note[g])}

IInv ==
  /\ TypeOK
  /\ OwnerPlace
  /\ JobPlace
  /\ FilesInOrder
  /\ LocksInOrder
  /\ CreationPlace
  /\ ResumePlace
  /\ DecisionPlace
  /\ PublishedBeforeAck
  /\ NothingShownBeforeStored
  /\ AckedAnswerIsNotAskedAgain
  /\ BoundGateIsComplete
  /\ AnsweredGateIsLive

USE DEF Procs, NoAnswer

\* A new ID is one of a gate that does not exist.
LEMMA FreshIsUnused ==
  ASSUME Unused # {}
  PROVE  Fresh \in Gates /\ gate[Fresh] = "absent"
BY DEF Fresh, Unused

\* What a process does when it gives the lock of g back: the next notification,
\* or what the list was for, or the end of its invocation.
UnlockKept(p, g) ==
  /\ lock' = [lock EXCEPT ![g] = Nobody]
  /\ \/ /\ \/ Goto(p, "list") /\ job[p] \in {"create", "resume", "decide"}
           \/ /\ todo[p] = {}
              /\ \/ Goto(p, "bind") /\ job[p] = "create"
                 \/ Goto(p, "read") /\ job[p] = "resume"
                 \/ Goto(p, "check") /\ job[p] = "decide"
        /\ UNCHANGED <<job, todo, errand>>
     \/ Leave(p)

LEMMA UnlockFacts ==
  ASSUME IInv, NEW p \in Procs, NEW g \in Gates, Unlock(p, g)
  PROVE  UnlockKept(p, g)
<1>1. CASE todo[p] # {} /\ Goto(p, "list")
  BY <1>1 DEF Unlock, UnlockKept, IInv, TypeOK, JobPlace
<1>2. CASE todo[p] = {} /\ job[p] \in {"create", "resume", "decide"} /\ Goto(p, After(job[p]))
  BY <1>2 DEF Unlock, UnlockKept, After
<1>3. CASE Leave(p)
  BY <1>3 DEF Unlock, UnlockKept
<1>4. QED
  BY <1>1, <1>2, <1>3 DEF Unlock

\* At the start there is no gate and nobody at work.
LEMMA InitIInv == Init => IInv
<1> SUFFICES ASSUME Init PROVE IInv
  OBVIOUS
<1>1. TypeOK
  BY GateConstants DEF Init, TypeOK, Contents, Missing, Shown
<1>2. OwnerPlace
  BY GateConstants DEF Init, OwnerPlace
<1>3. JobPlace
  BY GateConstants DEF Init, JobPlace
<1>4. FilesInOrder
  BY GateConstants DEF Init, FilesInOrder
<1>5. LocksInOrder
  BY GateConstants DEF Init, LocksInOrder
<1>6. CreationPlace
  BY GateConstants DEF Init, CreationPlace
<1>7. ResumePlace
  BY GateConstants DEF Init, ResumePlace
<1>8. DecisionPlace
  BY GateConstants DEF Init, DecisionPlace
<1>9. PublishedBeforeAck
  BY GateConstants DEF Init, PublishedBeforeAck, Missing, Shown
<1>10. NothingShownBeforeStored
  BY GateConstants DEF Init, NothingShownBeforeStored, Missing, Shown
<1>11. AckedAnswerIsNotAskedAgain
  BY GateConstants DEF Init, AckedAnswerIsNotAskedAgain, Missing, Shown
<1>12. BoundGateIsComplete
  BY GateConstants DEF Init, BoundGateIsComplete
<1>13. AnsweredGateIsLive
  BY GateConstants DEF Init, AnsweredGateIsLive
<1>14. QED
  BY <1>1, <1>2, <1>3, <1>4, <1>5, <1>6, <1>7, <1>8, <1>9, <1>10, <1>11, <1>12, <1>13
    DEF IInv

\* Every step of a process, a crash, the browser and the bridge keep it.
LEMMA NextIInv == IInv /\ [Next]_vars => IInv'
<1> SUFFICES ASSUME IInv, [Next]_vars PROVE IInv'
  OBVIOUS
<1> USE DEF IInv
<1>1. ASSUME NEW p \in Procs, TakeAndSync(p) PROVE IInv'
  <2>1. UNCHANGED <<phase, bound, gate, ack, remote, applied, meant, owner, job,
                    target, wish, question, crashes>>
    BY <1>1 DEF TakeAndSync, Told, Goto, files, run, errand
  <2>2. TypeOK'
    BY <1>1, <2>1 DEF TypeOK, TakeAndSync, Told, Goto, Contents, Shown, Missing,
      Asking
  <2>3. OwnerPlace'
    BY <1>1, <2>1 DEF TypeOK, OwnerPlace, TakeAndSync, Told, Goto
  <2>4. JobPlace'
    BY <1>1, <2>1 DEF TypeOK, JobPlace, TakeAndSync, Told, Goto
  <2>5. FilesInOrder'
    BY <1>1, <2>1, GateConstants DEF TypeOK, FilesInOrder, LocksInOrder,
      NothingShownBeforeStored, TakeAndSync, Told, Goto
  <2>6. LocksInOrder'
    <3>1. PICK g \in todo[p] :
            /\ lock[g] = Nobody
            /\ lock' = [lock EXCEPT ![g] = p]
            /\ note' = [note EXCEPT ![g] = gate[g]]
            /\ todo' = [todo EXCEPT ![p] = @ \ {g}]
      BY <1>1 DEF TakeAndSync, Told
    <3>2. g \in Gates /\ gate[g] # "absent"
      BY <3>1 DEF TypeOK, LocksInOrder, FilesInOrder
    <3>3. /\ \A h \in Gates : note'[h] = IF h = g THEN gate[g] ELSE note[h]
          /\ \A h \in Gates : lock'[h] = IF h = g THEN p ELSE lock[h]
          /\ \A q \in Procs : todo'[q] \subseteq todo[q] /\ todo[q] \subseteq Gates
      BY <3>1, <3>2 DEF TypeOK
    <3>4. pc[p] = "list" /\ \A q \in Procs : pc'[q] = IF q = p THEN "publish" ELSE pc[q]
      BY <1>1 DEF TakeAndSync, Goto, TypeOK
    <3>5. p # Nobody /\ \A h \in Gates : lock[h] # p
      BY <3>4, GateConstants DEF LocksInOrder
    <3>6. \A q \in Procs : \A h \in todo'[q] : note'[h] # "absent"
      BY <3>2, <3>3 DEF LocksInOrder
    <3>7. ASSUME NEW h \in Gates, lock'[h] # Nobody
          PROVE  note'[h] # "absent" /\ pc'[lock'[h]] \in {"sync", "publish", "ack"}
      <4>1. CASE h = g
        BY <4>1, <3>2, <3>3, <3>4
      <4>2. CASE h # g
        <5>1. lock'[h] = lock[h] /\ note'[h] = note[h] /\ lock[h] \in Procs /\ lock[h] # p
          BY <4>2, <3>3, <3>5, <3>7 DEF TypeOK
        <5>2. QED
          BY <5>1, <3>4, <3>7 DEF LocksInOrder
      <4>3. QED
        BY <4>1, <4>2
    <3>8. \A h, k \in Gates : lock'[h] # Nobody /\ lock'[h] = lock'[k] => h = k
      BY <3>3, <3>5 DEF LocksInOrder
    <3>9. QED
      BY <3>6, <3>7, <3>8 DEF LocksInOrder
  <2>7. CreationPlace'
    BY <1>1, <2>1 DEF TypeOK, JobPlace, FilesInOrder, LocksInOrder, CreationPlace,
      TakeAndSync, Told, Goto
  <2>8. DecisionPlace'
    BY <1>1, <2>1 DEF TypeOK, FilesInOrder, LocksInOrder, DecisionPlace, TakeAndSync,
      Told, Goto
  <2>9. PublishedBeforeAck'
    BY <1>1, <2>1 DEF TypeOK, PublishedBeforeAck, TakeAndSync, Told, Goto, Shown,
      Missing, Asking
  <2>10. NothingShownBeforeStored'
    BY <1>1, <2>1 DEF TypeOK, NothingShownBeforeStored, TakeAndSync, Told, Goto,
      Shown, Missing, Asking
  <2>11. BoundGateIsComplete'
    BY <1>1, <2>1 DEF TypeOK, BoundGateIsComplete, TakeAndSync, Told, Goto
  <2>12. ResumePlace' /\ AckedAnswerIsNotAskedAgain' /\ AnsweredGateIsLive'
    BY <2>1 DEF ResumePlace, AckedAnswerIsNotAskedAgain, AnsweredGateIsLive
  <2>13. QED
    BY <2>2, <2>3, <2>4, <2>5, <2>6, <2>7, <2>8, <2>9, <2>10, <2>11, <2>12
<1>2. ASSUME NEW p \in Procs, AckStands(p) PROVE IInv'
  <2>1. UNCHANGED <<phase, bound, gate, note, ack, remote, applied, meant, owner,
                    crashes>>
    BY <1>2 DEF AckStands, Unlock, Holds, Leave, After, Goto, files, run, errand
  <2>2. PICK g \in Gates : Holds(p, g) /\ Unlock(p, g)
    BY <1>2 DEF AckStands
  <2>3. UnlockKept(p, g)
    BY <1>2, <2>2, UnlockFacts DEF AckStands
  <2>4. TypeOK'
    BY <1>2, <2>1, <2>2, <2>3 DEF TypeOK, UnlockKept, Holds, Goto, Leave, errand,
      AckStands
  <2>5. OwnerPlace'
    BY <1>2, <2>1, <2>2, <2>3 DEF TypeOK, OwnerPlace, UnlockKept, Holds, Goto, Leave,
      errand, AckStands
  <2>6. JobPlace'
    BY <1>2, <2>1, <2>2, <2>3 DEF TypeOK, UnlockKept, Holds, Goto, Leave, errand,
      JobPlace, AckStands
  <2>7. LocksInOrder'
    <3>1. lock[g] = p /\ \A h \in Gates : lock'[h] = IF h = g THEN Nobody ELSE lock[h]
      BY <2>2, <2>3 DEF UnlockKept, Holds, TypeOK
    <3>2. /\ \A q \in Procs : q # p => pc'[q] = pc[q]
          /\ \A q \in Procs : todo'[q] \subseteq todo[q]
      BY <2>3 DEF UnlockKept, Leave, Goto, TypeOK
    <3>3. note' = note /\ \A h \in Gates : h # g => lock[h] # p
      <4>1. p # Nobody /\ g \in Gates
        BY GateConstants
      <4>2. \A h \in Gates : lock[g] # Nobody /\ lock[g] = lock[h] => g = h
        BY DEF LocksInOrder
      <4>3. QED
        BY <2>1, <3>1, <4>1, <4>2
    <3>4. \A h \in Gates : lock[h] # Nobody => lock[h] \in Procs
      BY DEF TypeOK
    <3>5. \A q \in Procs : \A h \in todo'[q] : note'[h] # "absent"
      BY <3>2, <3>3 DEF LocksInOrder
    <3>6. ASSUME NEW h \in Gates, lock'[h] # Nobody
          PROVE  note'[h] # "absent" /\ pc'[lock'[h]] \in {"sync", "publish", "ack"}
      <4>1. h # g /\ lock'[h] = lock[h] /\ lock[h] \in Procs /\ lock[h] # p
        BY <3>1, <3>3, <3>4, <3>6
      <4>2. QED
        BY <4>1, <3>2, <3>3, <3>6 DEF LocksInOrder
    <3>7. \A h, k \in Gates : lock'[h] # Nobody /\ lock'[h] = lock'[k] => h = k
      BY <3>1 DEF LocksInOrder
    <3>8. QED
      BY <3>5, <3>6, <3>7 DEF LocksInOrder
  <2>8. CreationPlace'
    BY <1>2, <2>1, <2>2, <2>3 DEF TypeOK, CreationPlace, UnlockKept, Holds, Goto,
      Leave, errand, AckStands
  <2>9. ResumePlace'
    BY <1>2, <2>1, <2>2, <2>3 DEF TypeOK, ResumePlace, UnlockKept, Holds, Goto, Leave,
      errand, AckStands
  <2>10. DecisionPlace'
    BY <1>2, <2>1, <2>2, <2>3 DEF TypeOK, DecisionPlace, UnlockKept, Holds, Goto,
      Leave, errand, AckStands
  <2>11. PublishedBeforeAck'
    BY <1>2, <2>1, <2>2, <2>3 DEF TypeOK, PublishedBeforeAck, UnlockKept, Holds, Goto,
      Leave, errand, Shown, Missing, Asking, AckStands
  <2>12. /\ FilesInOrder' /\ NothingShownBeforeStored' /\ AckedAnswerIsNotAskedAgain'
        /\ BoundGateIsComplete' /\ AnsweredGateIsLive'
    BY <2>1 DEF FilesInOrder, NothingShownBeforeStored, AckedAnswerIsNotAskedAgain,
      BoundGateIsComplete, AnsweredGateIsLive
  <2>13. QED
    BY <2>4, <2>5, <2>6, <2>7, <2>8, <2>9, <2>10, <2>11, <2>12
<1>3. ASSUME NEW p \in Procs, Publish(p) PROVE IInv'
  <2>1. UNCHANGED <<phase, bound, gate, note, ack, lock, applied, meant, owner, job,
                    todo, target, wish, question, crashes>>
    BY <1>3 DEF Publish, Holds, MustPublish, OutOfDate, Taken, Goto, files, run,
      errand
  <2>2. TypeOK'
    BY <1>3, <2>1 DEF TypeOK, Publish, Holds, MustPublish, OutOfDate, Taken, Goto,
      Contents, Shown, Missing, Asking
  <2>3. OwnerPlace'
    BY <1>3, <2>1 DEF TypeOK, OwnerPlace, Publish, Holds, MustPublish, OutOfDate,
      Taken, Goto, Shown, Missing, Asking
  <2>4. JobPlace'
    BY <1>3, <2>1 DEF TypeOK, JobPlace, Publish, Holds, MustPublish, OutOfDate, Taken,
      Goto, Shown, Missing, Asking
  <2>5. LocksInOrder'
    BY <1>3, <2>1 DEF TypeOK, LocksInOrder, Publish, Holds, MustPublish, OutOfDate,
      Taken, Goto, Shown, Missing, Asking
  <2>6. CreationPlace'
    BY <1>3, <2>1 DEF TypeOK, CreationPlace, Publish, Holds, MustPublish, OutOfDate,
      Taken, Goto, Shown, Missing, Asking
  <2>7. DecisionPlace'
    BY <1>3, <2>1 DEF TypeOK, DecisionPlace, Publish, Holds, MustPublish, OutOfDate,
      Taken, Goto, Shown, Missing, Asking
  <2>8. PublishedBeforeAck'
    BY <1>3, <2>1 DEF TypeOK, FilesInOrder, LocksInOrder, PublishedBeforeAck, Publish,
      Holds, MustPublish, OutOfDate, Taken, Goto, Shown, Missing, Asking
  <2>9. NothingShownBeforeStored'
    BY <1>3, <2>1 DEF TypeOK, NothingShownBeforeStored, Publish, Holds, MustPublish,
      OutOfDate, Taken, Goto, Shown, Missing, Asking
  <2>10. AckedAnswerIsNotAskedAgain'
    BY <1>3, <2>1, GateConstants DEF TypeOK, FilesInOrder, AckedAnswerIsNotAskedAgain,
      Publish, Holds, MustPublish, OutOfDate, Taken, Goto, Shown, Missing, Asking
  <2>11. /\ FilesInOrder' /\ ResumePlace' /\ BoundGateIsComplete'
        /\ AnsweredGateIsLive'
    BY <2>1 DEF FilesInOrder, ResumePlace, BoundGateIsComplete, AnsweredGateIsLive
  <2>12. QED
    BY <2>2, <2>3, <2>4, <2>5, <2>6, <2>7, <2>8, <2>9, <2>10, <2>11
<1>4. ASSUME NEW p \in Procs, PublishFails(p) PROVE IInv'
  <2>1. UNCHANGED <<phase, bound, gate, note, ack, remote, applied, meant, owner,
                    crashes>>
    BY <1>4 DEF PublishFails, Holds, MustPublish, OutOfDate, AfterFailure, Unlock,
      Leave, After, Goto, files, run, errand
  <2>2. PICK g \in Gates : Holds(p, g) /\ Unlock(p, g)
    BY <1>4 DEF PublishFails
  <2>3. UnlockKept(p, g)
    BY <1>4, <2>2, UnlockFacts DEF PublishFails
  <2>4. TypeOK'
    BY <1>4, <2>1, <2>2, <2>3 DEF TypeOK, UnlockKept, Holds, Goto, Leave, errand,
      PublishFails
  <2>5. OwnerPlace'
    BY <1>4, <2>1, <2>2, <2>3 DEF TypeOK, OwnerPlace, UnlockKept, Holds, Goto, Leave,
      errand, PublishFails
  <2>6. JobPlace'
    BY <1>4, <2>1, <2>2, <2>3 DEF TypeOK, UnlockKept, Holds, Goto, Leave, errand,
      JobPlace, PublishFails
  <2>7. LocksInOrder'
    BY <1>4, <2>1, <2>2, <2>3 DEF TypeOK, LocksInOrder, UnlockKept, Holds, Goto,
      Leave, errand, PublishFails
  <2>8. CreationPlace'
    BY <1>4, <2>1, <2>2, <2>3 DEF TypeOK, CreationPlace, UnlockKept, Holds, Goto,
      Leave, errand, PublishFails
  <2>9. ResumePlace'
    BY <1>4, <2>1, <2>2, <2>3 DEF TypeOK, ResumePlace, UnlockKept, Holds, Goto, Leave,
      errand, PublishFails
  <2>10. DecisionPlace'
    BY <1>4, <2>1, <2>2, <2>3 DEF TypeOK, DecisionPlace, UnlockKept, Holds, Goto,
      Leave, errand, PublishFails
  <2>11. PublishedBeforeAck'
    BY <1>4, <2>1, <2>2, <2>3 DEF TypeOK, PublishedBeforeAck, UnlockKept, Holds, Goto,
      Leave, errand, Shown, Missing, Asking, PublishFails
  <2>12. /\ FilesInOrder' /\ NothingShownBeforeStored' /\ AckedAnswerIsNotAskedAgain'
        /\ BoundGateIsComplete' /\ AnsweredGateIsLive'
    BY <2>1 DEF FilesInOrder, NothingShownBeforeStored, AckedAnswerIsNotAskedAgain,
      BoundGateIsComplete, AnsweredGateIsLive
  <2>13. QED
    BY <2>4, <2>5, <2>6, <2>7, <2>8, <2>9, <2>10, <2>11, <2>12
<1>5. ASSUME NEW p \in Procs, Acknowledge(p) PROVE IInv'
  <2>1. UNCHANGED <<phase, bound, gate, note, remote, applied, meant, owner, crashes>>
    BY <1>5 DEF Acknowledge, Holds, Unlock, Leave, After, Goto, files, run, errand
  <2>2. PICK g \in Gates : Holds(p, g) /\ Unlock(p, g) /\ ack' = [ack EXCEPT ![g] = note[g]]
    BY <1>5 DEF Acknowledge
  <2>3. UnlockKept(p, g)
    BY <1>5, <2>2, UnlockFacts DEF Acknowledge
  <2>4. TypeOK'
    BY <1>5, <2>1, <2>2, <2>3 DEF TypeOK, UnlockKept, Holds, Goto, Leave, errand,
      Acknowledge
  <2>5. OwnerPlace'
    BY <1>5, <2>1, <2>2, <2>3 DEF TypeOK, OwnerPlace, UnlockKept, Holds, Goto, Leave,
      errand, Acknowledge
  <2>6. JobPlace'
    BY <1>5, <2>1, <2>2, <2>3 DEF TypeOK, UnlockKept, Holds, Goto, Leave, errand,
      JobPlace, Acknowledge
  <2>7. FilesInOrder'
    BY <1>5, <2>1, <2>2, <2>3 DEF TypeOK, FilesInOrder, UnlockKept, Holds, Goto,
      Leave, errand, Acknowledge
  <2>8. LocksInOrder'
    BY <1>5, <2>1, <2>2, <2>3 DEF TypeOK, LocksInOrder, UnlockKept, Holds, Goto,
      Leave, errand, Acknowledge
  <2>9. CreationPlace'
    BY <1>5, <2>1, <2>2, <2>3 DEF TypeOK, CreationPlace, UnlockKept, Holds, Goto,
      Leave, errand, Acknowledge
  <2>10. ResumePlace'
    BY <1>5, <2>1, <2>2, <2>3 DEF TypeOK, ResumePlace, UnlockKept, Holds, Goto, Leave,
      errand, Acknowledge
  <2>11. DecisionPlace'
    BY <1>5, <2>1, <2>2, <2>3 DEF TypeOK, DecisionPlace, UnlockKept, Holds, Goto,
      Leave, errand, Acknowledge
  <2>12. PublishedBeforeAck'
    BY <1>5, <2>1, <2>2, <2>3 DEF TypeOK, PublishedBeforeAck, UnlockKept, Holds, Goto,
      Leave, errand, Shown, Missing, Asking, Acknowledge
  <2>13. AckedAnswerIsNotAskedAgain'
    BY <1>5, <2>1, <2>2, <2>3, GateConstants DEF TypeOK, FilesInOrder,
      PublishedBeforeAck, AckedAnswerIsNotAskedAgain, UnlockKept, Holds, Goto, Leave,
      errand, Shown, Missing, Asking, Acknowledge
  <2>14. NothingShownBeforeStored' /\ BoundGateIsComplete' /\ AnsweredGateIsLive'
    BY <2>1 DEF NothingShownBeforeStored, BoundGateIsComplete, AnsweredGateIsLive
  <2>15. QED
    BY <2>4, <2>5, <2>6, <2>7, <2>8, <2>9, <2>10, <2>11, <2>12, <2>13, <2>14
<1>6. ASSUME NEW p \in Procs, Work(p) PROVE IInv'
  <2>1. UNCHANGED <<bound, gate, note, ack, lock, remote, applied, meant, job, todo,
                    target, wish, question, crashes>>
    BY <1>6 DEF Work, Goto, files, run, errand
  <2>2. TypeOK'
    BY <1>6, <2>1 DEF TypeOK, Work, Goto, Contents, Shown, Missing, Asking
  <2>3. OwnerPlace'
    BY <1>6, <2>1 DEF TypeOK, OwnerPlace, JobPlace, Work, Goto
  <2>4. JobPlace'
    BY <1>6, <2>1 DEF TypeOK, JobPlace, Work, Goto
  <2>5. LocksInOrder'
    BY <1>6, <2>1 DEF TypeOK, LocksInOrder, Work, Goto
  <2>6. CreationPlace'
    BY <1>6, <2>1 DEF TypeOK, CreationPlace, Work, Goto
  <2>7. DecisionPlace'
    BY <1>6, <2>1 DEF TypeOK, DecisionPlace, Work, Goto
  <2>8. PublishedBeforeAck'
    BY <1>6, <2>1 DEF TypeOK, PublishedBeforeAck, Work, Goto, Shown, Missing, Asking
  <2>9. /\ FilesInOrder' /\ ResumePlace' /\ NothingShownBeforeStored'
        /\ AckedAnswerIsNotAskedAgain' /\ BoundGateIsComplete' /\ AnsweredGateIsLive'
    BY <2>1 DEF FilesInOrder, ResumePlace, NothingShownBeforeStored,
      AckedAnswerIsNotAskedAgain, BoundGateIsComplete, AnsweredGateIsLive
  <2>10. QED
    BY <2>2, <2>3, <2>4, <2>5, <2>6, <2>7, <2>8, <2>9
<1>7. ASSUME NEW p \in Procs, MasterRecovers(p) PROVE IInv'
  <2>1. UNCHANGED <<bound, gate, note, ack, lock, remote, applied, meant, owner, pc,
                    job, todo, target, wish, question, crashes>>
    BY <1>7 DEF MasterRecovers, files, run, errand
  <2>2. TypeOK'
    BY <1>7, <2>1 DEF TypeOK, MasterRecovers, Contents, Shown, Missing, Asking
  <2>3. /\ OwnerPlace' /\ JobPlace' /\ FilesInOrder'
        /\ LocksInOrder' /\ ResumePlace'
        /\ DecisionPlace' /\ PublishedBeforeAck' /\ NothingShownBeforeStored'
        /\ AckedAnswerIsNotAskedAgain' /\ BoundGateIsComplete' /\ AnsweredGateIsLive'
    BY <2>1 DEF OwnerPlace, JobPlace, FilesInOrder, LocksInOrder,
      ResumePlace, DecisionPlace, PublishedBeforeAck, NothingShownBeforeStored,
      AckedAnswerIsNotAskedAgain, BoundGateIsComplete, AnsweredGateIsLive
  <2>4. \A q \in Procs : pc[q] # "notify" /\ job[q] # "create"
    BY <1>7 DEF MasterRecovers, OwnerPlace, JobPlace
  <2>5. CreationPlace'
    BY <2>1, <2>4 DEF CreationPlace
  <2>6. QED
    BY <2>2, <2>3, <2>5
<1>8. ASSUME NEW p \in Procs, CreateGate(p) PROVE IInv'
  <2>1. UNCHANGED <<phase, bound, note, ack, lock, remote, applied, meant, owner, job,
                    todo, wish, question, crashes>>
    BY <1>8 DEF CreateGate, Unbound, Unused, AfterCreation, Goto, files, run, errand
  <2>2. TypeOK'
    BY <1>8, <2>1, FreshIsUnused, GateConstants DEF TypeOK, CreateGate, Unbound,
      Unused, AfterCreation, Goto, Contents, Shown, Missing, Asking
  <2>3. OwnerPlace'
    BY <1>8, <2>1 DEF TypeOK, OwnerPlace, CreateGate, Unbound, Unused, AfterCreation,
      Goto
  <2>4. JobPlace'
    BY <1>8, <2>1 DEF TypeOK, JobPlace, CreateGate, Unbound, Unused, AfterCreation,
      Goto
  <2>5. FilesInOrder'
    BY <1>8, <2>1, FreshIsUnused, GateConstants DEF TypeOK, FilesInOrder, CreateGate,
      Unbound, Unused, AfterCreation, Goto
  <2>6. LocksInOrder'
    BY <1>8, <2>1 DEF TypeOK, LocksInOrder, CreateGate, Unbound, Unused,
      AfterCreation, Goto
  <2>7. CreationPlace'
    BY <1>8, <2>1, FreshIsUnused, GateConstants DEF TypeOK, OwnerPlace, JobPlace,
      FilesInOrder, CreationPlace, CreateGate, Unbound, Unused, AfterCreation, Goto
  <2>8. DecisionPlace'
    BY <1>8, <2>1, FreshIsUnused, GateConstants DEF TypeOK, JobPlace, FilesInOrder,
      DecisionPlace, CreateGate, Unbound, Unused, AfterCreation, Goto
  <2>9. PublishedBeforeAck'
    BY <1>8, <2>1 DEF TypeOK, PublishedBeforeAck, CreateGate, Unbound, Unused,
      AfterCreation, Goto, Shown, Missing, Asking
  <2>10. NothingShownBeforeStored'
    BY <1>8, <2>1, FreshIsUnused, GateConstants DEF TypeOK, NothingShownBeforeStored,
      CreateGate, Unbound, Unused, AfterCreation, Goto, Shown, Missing, Asking
  <2>11. BoundGateIsComplete'
    BY <1>8, <2>1 DEF TypeOK, BoundGateIsComplete, CreateGate, Unbound, Unused,
      AfterCreation, Goto
  <2>12. AnsweredGateIsLive'
    BY <1>8, <2>1, FreshIsUnused, GateConstants DEF TypeOK, AnsweredGateIsLive,
      CreateGate, Unbound, Unused, AfterCreation, Goto
  <2>13. ResumePlace' /\ AckedAnswerIsNotAskedAgain'
    BY <2>1 DEF ResumePlace, AckedAnswerIsNotAskedAgain
  <2>14. QED
    BY <2>2, <2>3, <2>4, <2>5, <2>6, <2>7, <2>8, <2>9, <2>10, <2>11, <2>12, <2>13
<1>9. ASSUME NEW p \in Procs, Notify(p) PROVE IInv'
  <2>1. UNCHANGED <<phase, bound, gate, ack, lock, remote, applied, meant, owner,
                    target, wish, question, crashes>>
    BY <1>9 DEF Notify, Goto, files, run, errand
  <2>2. TypeOK'
    BY <1>9, <2>1 DEF TypeOK, CreationPlace, Notify, Goto, Contents, Shown, Missing,
      Asking
  <2>3. OwnerPlace'
    BY <1>9, <2>1 DEF TypeOK, OwnerPlace, Notify, Goto
  <2>4. JobPlace'
    BY <1>9, <2>1 DEF TypeOK, JobPlace, Notify, Goto
  <2>5. FilesInOrder'
    BY <1>9, <2>1, GateConstants DEF TypeOK, FilesInOrder, CreationPlace, Notify, Goto
  <2>6. LocksInOrder'
    BY <1>9, <2>1, GateConstants DEF TypeOK, LocksInOrder, CreationPlace, Notify, Goto
  <2>7. CreationPlace'
    BY <1>9, <2>1, GateConstants DEF TypeOK, OwnerPlace, JobPlace, CreationPlace,
      Notify, Goto
  <2>8. ResumePlace'
    BY <1>9, <2>1 DEF TypeOK, ResumePlace, Notify, Goto
  <2>9. DecisionPlace'
    BY <1>9, <2>1, GateConstants DEF TypeOK, CreationPlace, DecisionPlace, Notify,
      Goto
  <2>10. PublishedBeforeAck'
    BY <1>9, <2>1, GateConstants DEF TypeOK, LocksInOrder, CreationPlace,
      PublishedBeforeAck, Notify, Goto, Shown, Missing, Asking
  <2>11. NothingShownBeforeStored'
    BY <1>9, <2>1, GateConstants DEF TypeOK, CreationPlace, NothingShownBeforeStored,
      Notify, Goto, Shown, Missing, Asking
  <2>12. BoundGateIsComplete'
    BY <1>9, <2>1 DEF TypeOK, BoundGateIsComplete, Notify, Goto
  <2>13. AckedAnswerIsNotAskedAgain' /\ AnsweredGateIsLive'
    BY <2>1 DEF AckedAnswerIsNotAskedAgain, AnsweredGateIsLive
  <2>14. QED
    BY <2>2, <2>3, <2>4, <2>5, <2>6, <2>7, <2>8, <2>9, <2>10, <2>11, <2>12, <2>13
<1>10. ASSUME NEW p \in Procs, Bind(p) PROVE IInv'
  <2>1. UNCHANGED <<phase, gate, note, ack, lock, remote, applied, meant, todo, wish,
                    question, crashes>>
    BY <1>10 DEF Bind, Goto, files, run, errand
  <2>2. TypeOK'
    BY <1>10, <2>1 DEF TypeOK, Bind, Goto, Contents, Shown, Missing, Asking
  <2>3. OwnerPlace'
    BY <1>10, <2>1 DEF TypeOK, OwnerPlace, JobPlace, Bind, Goto
  <2>4. JobPlace'
    BY <1>10, <2>1 DEF TypeOK, JobPlace, Bind, Goto
  <2>5. LocksInOrder'
    BY <1>10, <2>1 DEF TypeOK, LocksInOrder, Bind, Goto
  <2>6. CreationPlace'
    BY <1>10, <2>1 DEF TypeOK, OwnerPlace, JobPlace, CreationPlace, Bind, Goto
  <2>7. ResumePlace'
    BY <1>10, <2>1 DEF TypeOK, OwnerPlace, JobPlace, ResumePlace, Bind, Goto
  <2>8. DecisionPlace'
    BY <1>10, <2>1, GateConstants DEF TypeOK, JobPlace, CreationPlace, DecisionPlace,
      Bind, Goto
  <2>9. PublishedBeforeAck'
    BY <1>10, <2>1 DEF TypeOK, PublishedBeforeAck, Bind, Goto, Shown, Missing, Asking
  <2>10. BoundGateIsComplete'
    BY <1>10, <2>1 DEF TypeOK, JobPlace, CreationPlace, BoundGateIsComplete, Bind,
      Goto
  <2>11. AnsweredGateIsLive'
    BY <1>10, <2>1, GateConstants DEF TypeOK, JobPlace, CreationPlace,
      AnsweredGateIsLive, Bind, Goto
  <2>12. FilesInOrder' /\ NothingShownBeforeStored' /\ AckedAnswerIsNotAskedAgain'
    BY <2>1 DEF FilesInOrder, NothingShownBeforeStored, AckedAnswerIsNotAskedAgain
  <2>13. QED
    BY <2>2, <2>3, <2>4, <2>5, <2>6, <2>7, <2>8, <2>9, <2>10, <2>11, <2>12
<1>11. ASSUME NEW p \in Procs, ListResolved(p) PROVE IInv'
  <2>1. UNCHANGED <<phase, bound, gate, note, ack, lock, remote, applied, meant,
                    owner, target, wish, question, crashes>>
    BY <1>11 DEF ListResolved, BeginList, After, Goto, files, run, errand
  <2>2. TypeOK'
    BY <1>11, <2>1 DEF TypeOK, ListResolved, BeginList, After, Goto, Contents, Shown,
      Missing, Asking
  <2>3. OwnerPlace'
    BY <1>11, <2>1 DEF TypeOK, OwnerPlace, ListResolved, BeginList, After, Goto
  <2>4. JobPlace'
    BY <1>11, <2>1 DEF TypeOK, JobPlace, ListResolved, BeginList, After, Goto
  <2>5. LocksInOrder'
    BY <1>11, <2>1 DEF TypeOK, LocksInOrder, ListResolved, BeginList, After, Goto
  <2>6. CreationPlace'
    BY <1>11, <2>1 DEF TypeOK, CreationPlace, ListResolved, BeginList, After, Goto
  <2>7. ResumePlace'
    BY <1>11, <2>1 DEF TypeOK, ResumePlace, ListResolved, BeginList, After, Goto
  <2>8. DecisionPlace'
    BY <1>11, <2>1 DEF TypeOK, DecisionPlace, ListResolved, BeginList, After, Goto
  <2>9. PublishedBeforeAck'
    BY <1>11, <2>1 DEF TypeOK, PublishedBeforeAck, ListResolved, BeginList, After,
      Goto, Shown, Missing, Asking
  <2>10. /\ FilesInOrder' /\ NothingShownBeforeStored' /\ AckedAnswerIsNotAskedAgain'
        /\ BoundGateIsComplete' /\ AnsweredGateIsLive'
    BY <2>1 DEF FilesInOrder, NothingShownBeforeStored, AckedAnswerIsNotAskedAgain,
      BoundGateIsComplete, AnsweredGateIsLive
  <2>11. QED
    BY <2>2, <2>3, <2>4, <2>5, <2>6, <2>7, <2>8, <2>9, <2>10
<1>12. ASSUME NEW p \in Procs, Apply(p) PROVE IInv'
  <2>1. UNCHANGED <<gate, note, ack, lock, remote, meant, owner, todo, target, wish,
                    question, crashes>>
    BY <1>12 DEF Apply, Answered, Goto, files, run, errand
  <2>2. TypeOK'
    BY <1>12, <2>1 DEF TypeOK, JobPlace, ResumePlace, Apply, Answered, Goto, Contents,
      Shown, Missing, Asking
  <2>3. OwnerPlace'
    BY <1>12, <2>1 DEF TypeOK, OwnerPlace, JobPlace, Apply, Answered, Goto
  <2>4. JobPlace'
    BY <1>12, <2>1 DEF TypeOK, JobPlace, Apply, Answered, Goto
  <2>5. FilesInOrder'
    BY <1>12, <2>1 DEF TypeOK, JobPlace, FilesInOrder, ResumePlace, Apply, Answered,
      Goto
  <2>6. LocksInOrder'
    BY <1>12, <2>1 DEF TypeOK, LocksInOrder, Apply, Answered, Goto
  <2>7. CreationPlace'
    BY <1>12, <2>1 DEF TypeOK, OwnerPlace, JobPlace, CreationPlace, ResumePlace,
      Apply, Answered, Goto
  <2>8. ResumePlace'
    BY <1>12, <2>1 DEF TypeOK, OwnerPlace, JobPlace, ResumePlace, Apply, Answered,
      Goto
  <2>9. DecisionPlace'
    BY <1>12, <2>1, GateConstants DEF TypeOK, JobPlace, ResumePlace, DecisionPlace,
      Apply, Answered, Goto
  <2>10. PublishedBeforeAck'
    BY <1>12, <2>1 DEF TypeOK, PublishedBeforeAck, Apply, Answered, Goto, Shown,
      Missing, Asking
  <2>11. BoundGateIsComplete'
    BY <1>12, <2>1 DEF TypeOK, BoundGateIsComplete, Apply, Answered, Goto
  <2>12. AnsweredGateIsLive'
    BY <1>12, <2>1 DEF TypeOK, JobPlace, ResumePlace, AnsweredGateIsLive, Apply,
      Answered, Goto
  <2>13. NothingShownBeforeStored' /\ AckedAnswerIsNotAskedAgain'
    BY <2>1 DEF NothingShownBeforeStored, AckedAnswerIsNotAskedAgain
  <2>14. QED
    BY <2>2, <2>3, <2>4, <2>5, <2>6, <2>7, <2>8, <2>9, <2>10, <2>11, <2>12, <2>13
<1>13. ASSUME NEW p \in Procs, StillPending(p) PROVE IInv'
  <2>1. UNCHANGED <<phase, bound, gate, note, ack, lock, remote, applied, meant, todo,
                    target, wish, question, crashes>>
    BY <1>13 DEF StillPending, Answered, Goto, files, run, errand
  <2>2. TypeOK'
    BY <1>13, <2>1 DEF TypeOK, StillPending, Answered, Goto, Contents, Shown, Missing,
      Asking
  <2>3. OwnerPlace'
    BY <1>13, <2>1 DEF TypeOK, OwnerPlace, JobPlace, StillPending, Answered, Goto
  <2>4. JobPlace'
    BY <1>13, <2>1 DEF TypeOK, JobPlace, StillPending, Answered, Goto
  <2>5. LocksInOrder'
    BY <1>13, <2>1 DEF TypeOK, LocksInOrder, StillPending, Answered, Goto
  <2>6. CreationPlace'
    BY <1>13, <2>1 DEF TypeOK, CreationPlace, StillPending, Answered, Goto
  <2>7. ResumePlace'
    BY <1>13, <2>1 DEF TypeOK, ResumePlace, StillPending, Answered, Goto
  <2>8. DecisionPlace'
    BY <1>13, <2>1 DEF TypeOK, DecisionPlace, StillPending, Answered, Goto
  <2>9. PublishedBeforeAck'
    BY <1>13, <2>1 DEF TypeOK, PublishedBeforeAck, StillPending, Answered, Goto,
      Shown, Missing, Asking
  <2>10. /\ FilesInOrder' /\ NothingShownBeforeStored' /\ AckedAnswerIsNotAskedAgain'
        /\ BoundGateIsComplete' /\ AnsweredGateIsLive'
    BY <2>1 DEF FilesInOrder, NothingShownBeforeStored, AckedAnswerIsNotAskedAgain,
      BoundGateIsComplete, AnsweredGateIsLive
  <2>11. QED
    BY <2>2, <2>3, <2>4, <2>5, <2>6, <2>7, <2>8, <2>9, <2>10
<1>14. ASSUME NEW p \in Procs, PollAnswer(p) PROVE IInv'
  <2>1. UNCHANGED <<phase, bound, gate, note, ack, lock, remote, applied, meant,
                    owner, job, todo, target, crashes>>
    BY <1>14 DEF PollAnswer, Goto, files, run, errand
  <2>2. TypeOK'
    BY <1>14, <2>1 DEF TypeOK, PollAnswer, Goto, Contents, Shown, Missing, Asking
  <2>3. OwnerPlace'
    BY <1>14, <2>1 DEF TypeOK, OwnerPlace, PollAnswer, Goto, Shown, Missing, Asking
  <2>4. JobPlace'
    BY <1>14, <2>1 DEF TypeOK, JobPlace, PollAnswer, Goto, Shown, Missing, Asking
  <2>5. LocksInOrder'
    BY <1>14, <2>1 DEF TypeOK, LocksInOrder, PollAnswer, Goto, Shown, Missing, Asking
  <2>6. CreationPlace'
    BY <1>14, <2>1 DEF TypeOK, CreationPlace, PollAnswer, Goto, Shown, Missing, Asking
  <2>7. DecisionPlace'
    BY <1>14, <2>1 DEF TypeOK, DecisionPlace, PollAnswer, Goto, Shown, Missing, Asking
  <2>8. PublishedBeforeAck'
    BY <1>14, <2>1 DEF TypeOK, PublishedBeforeAck, PollAnswer, Goto, Shown, Missing,
      Asking
  <2>9. /\ FilesInOrder' /\ ResumePlace' /\ NothingShownBeforeStored'
        /\ AckedAnswerIsNotAskedAgain' /\ BoundGateIsComplete' /\ AnsweredGateIsLive'
    BY <2>1 DEF FilesInOrder, ResumePlace, NothingShownBeforeStored,
      AckedAnswerIsNotAskedAgain, BoundGateIsComplete, AnsweredGateIsLive
  <2>10. QED
    BY <2>2, <2>3, <2>4, <2>5, <2>6, <2>7, <2>8, <2>9
<1>15. ASSUME NEW p \in Procs, StopWaiting(p) PROVE IInv'
  <2>1. UNCHANGED <<phase, bound, gate, note, ack, lock, remote, applied, meant,
                    owner, crashes>>
    BY <1>15 DEF StopWaiting, Leave, Goto, files, run, errand
  <2>2. TypeOK'
    BY <1>15, <2>1 DEF TypeOK, StopWaiting, Leave, Goto, Contents, Shown, Missing,
      Asking
  <2>3. OwnerPlace'
    BY <1>15, <2>1 DEF TypeOK, OwnerPlace, StopWaiting, Leave, Goto
  <2>4. JobPlace'
    BY <1>15, <2>1 DEF TypeOK, JobPlace, StopWaiting, Leave, Goto
  <2>5. LocksInOrder'
    BY <1>15, <2>1 DEF TypeOK, LocksInOrder, StopWaiting, Leave, Goto
  <2>6. CreationPlace'
    BY <1>15, <2>1 DEF TypeOK, CreationPlace, StopWaiting, Leave, Goto
  <2>7. ResumePlace'
    BY <1>15, <2>1 DEF TypeOK, ResumePlace, StopWaiting, Leave, Goto
  <2>8. DecisionPlace'
    BY <1>15, <2>1 DEF TypeOK, DecisionPlace, StopWaiting, Leave, Goto
  <2>9. PublishedBeforeAck'
    BY <1>15, <2>1 DEF TypeOK, PublishedBeforeAck, StopWaiting, Leave, Goto, Shown,
      Missing, Asking
  <2>10. /\ FilesInOrder' /\ NothingShownBeforeStored' /\ AckedAnswerIsNotAskedAgain'
        /\ BoundGateIsComplete' /\ AnsweredGateIsLive'
    BY <2>1 DEF FilesInOrder, NothingShownBeforeStored, AckedAnswerIsNotAskedAgain,
      BoundGateIsComplete, AnsweredGateIsLive
  <2>11. QED
    BY <2>2, <2>3, <2>4, <2>5, <2>6, <2>7, <2>8, <2>9, <2>10
<1>16. ASSUME NEW p \in Procs, Reload(p) PROVE IInv'
  <2>1. UNCHANGED <<phase, bound, gate, note, ack, lock, remote, applied, meant,
                    owner, wish, question, crashes>>
    BY <1>16 DEF Reload, Addressed, BeginList, After, Goto, files, run, errand
  <2>2. TypeOK'
    BY <1>16, <2>1 DEF TypeOK, Reload, Addressed, BeginList, After, Goto, Contents, Shown,
      Missing, Asking
  <2>3. OwnerPlace'
    BY <1>16, <2>1 DEF TypeOK, OwnerPlace, Reload, Addressed, BeginList, After, Goto
  <2>4. JobPlace'
    BY <1>16, <2>1 DEF TypeOK, JobPlace, Reload, Addressed, BeginList, After, Goto
  <2>5. LocksInOrder'
    BY <1>16, <2>1 DEF TypeOK, LocksInOrder, Reload, Addressed, BeginList, After, Goto
  <2>6. CreationPlace'
    BY <1>16, <2>1 DEF TypeOK, CreationPlace, Reload, Addressed, BeginList, After, Goto
  <2>7. ResumePlace'
    BY <1>16, <2>1 DEF TypeOK, ResumePlace, Reload, Addressed, BeginList, After, Goto
  <2>8. DecisionPlace'
    BY <1>16, <2>1 DEF TypeOK, FilesInOrder, DecisionPlace, BoundGateIsComplete,
      Reload, Addressed, BeginList, After, Goto
  <2>9. PublishedBeforeAck'
    BY <1>16, <2>1 DEF TypeOK, PublishedBeforeAck, Reload, Addressed, BeginList, After, Goto,
      Shown, Missing, Asking
  <2>10. /\ FilesInOrder' /\ NothingShownBeforeStored' /\ AckedAnswerIsNotAskedAgain'
        /\ BoundGateIsComplete' /\ AnsweredGateIsLive'
    BY <2>1 DEF FilesInOrder, NothingShownBeforeStored, AckedAnswerIsNotAskedAgain,
      BoundGateIsComplete, AnsweredGateIsLive
  <2>11. QED
    BY <2>2, <2>3, <2>4, <2>5, <2>6, <2>7, <2>8, <2>9, <2>10
<1>17. ASSUME NEW p \in Procs, Check(p) PROVE IInv'
  <2>1. UNCHANGED <<phase, bound, gate, note, ack, lock, remote, applied, meant,
                    owner, job, todo, target, wish, question, crashes>>
    BY <1>17 DEF Check, Goto, files, run, errand
  <2>2. TypeOK'
    BY <1>17, <2>1 DEF TypeOK, Check, Goto, Contents, Shown, Missing, Asking
  <2>3. OwnerPlace'
    BY <1>17, <2>1 DEF TypeOK, OwnerPlace, Check, Goto
  <2>4. JobPlace'
    BY <1>17, <2>1 DEF TypeOK, JobPlace, Check, Goto
  <2>5. LocksInOrder'
    BY <1>17, <2>1 DEF TypeOK, LocksInOrder, Check, Goto
  <2>6. CreationPlace'
    BY <1>17, <2>1 DEF TypeOK, CreationPlace, Check, Goto
  <2>7. DecisionPlace'
    BY <1>17, <2>1 DEF TypeOK, DecisionPlace, Check, Goto
  <2>8. PublishedBeforeAck'
    BY <1>17, <2>1 DEF TypeOK, PublishedBeforeAck, Check, Goto, Shown, Missing, Asking
  <2>9. /\ FilesInOrder' /\ ResumePlace' /\ NothingShownBeforeStored'
        /\ AckedAnswerIsNotAskedAgain' /\ BoundGateIsComplete' /\ AnsweredGateIsLive'
    BY <2>1 DEF FilesInOrder, ResumePlace, NothingShownBeforeStored,
      AckedAnswerIsNotAskedAgain, BoundGateIsComplete, AnsweredGateIsLive
  <2>10. QED
    BY <2>2, <2>3, <2>4, <2>5, <2>6, <2>7, <2>8, <2>9
<1>18. ASSUME NEW p \in Procs, Look(p) PROVE IInv'
  <2>1. UNCHANGED <<phase, bound, gate, note, ack, lock, remote, applied, meant,
                    owner, crashes>>
    BY <1>18 DEF Look, Leave, Goto, files, run, errand
  <2>2. TypeOK'
    BY <1>18, <2>1 DEF TypeOK, Look, Leave, Goto, Contents, Shown, Missing, Asking
  <2>3. OwnerPlace'
    BY <1>18, <2>1 DEF TypeOK, OwnerPlace, Look, Leave, Goto
  <2>4. JobPlace'
    BY <1>18, <2>1 DEF TypeOK, JobPlace, Look, Leave, Goto
  <2>5. LocksInOrder'
    BY <1>18, <2>1 DEF TypeOK, LocksInOrder, Look, Leave, Goto
  <2>6. CreationPlace'
    BY <1>18, <2>1 DEF TypeOK, CreationPlace, Look, Leave, Goto
  <2>7. ResumePlace'
    BY <1>18, <2>1 DEF TypeOK, ResumePlace, Look, Leave, Goto
  <2>8. DecisionPlace'
    BY <1>18, <2>1 DEF TypeOK, DecisionPlace, Look, Leave, Goto
  <2>9. PublishedBeforeAck'
    BY <1>18, <2>1 DEF TypeOK, PublishedBeforeAck, Look, Leave, Goto, Shown, Missing,
      Asking
  <2>10. /\ FilesInOrder' /\ NothingShownBeforeStored' /\ AckedAnswerIsNotAskedAgain'
        /\ BoundGateIsComplete' /\ AnsweredGateIsLive'
    BY <2>1 DEF FilesInOrder, NothingShownBeforeStored, AckedAnswerIsNotAskedAgain,
      BoundGateIsComplete, AnsweredGateIsLive
  <2>11. QED
    BY <2>2, <2>3, <2>4, <2>5, <2>6, <2>7, <2>8, <2>9, <2>10
<1>19. ASSUME NEW p \in Procs, Resolve(p) PROVE IInv'
  <2>1. UNCHANGED <<phase, bound, note, ack, remote, applied, owner, todo, target,
                    wish, question, crashes>>
    BY <1>19 DEF Resolve, MayResolve, Goto, files, run, errand
  <2>2. TypeOK'
    BY <1>19, <2>1, GateConstants DEF TypeOK, JobPlace, DecisionPlace, Resolve,
      MayResolve, Goto, Contents, Shown, Missing, Asking
  <2>3. OwnerPlace'
    BY <1>19, <2>1 DEF TypeOK, OwnerPlace, Resolve, MayResolve, Goto
  <2>4. JobPlace'
    BY <1>19, <2>1 DEF TypeOK, JobPlace, Resolve, MayResolve, Goto
  <2>5. FilesInOrder'
    BY <1>19, <2>1, GateConstants DEF TypeOK, JobPlace, FilesInOrder, DecisionPlace,
      Resolve, MayResolve, Goto
  <2>6. LocksInOrder'
    BY <1>19, <2>1, GateConstants DEF TypeOK, JobPlace, LocksInOrder, DecisionPlace,
      Resolve, MayResolve, Goto
  <2>7. CreationPlace'
    BY <1>19, <2>1, GateConstants DEF TypeOK, JobPlace, CreationPlace, DecisionPlace,
      BoundGateIsComplete, Resolve, MayResolve, Goto
  <2>8. ResumePlace'
    BY <1>19, <2>1 DEF TypeOK, ResumePlace, Resolve, MayResolve, Goto
  <2>9. DecisionPlace'
    BY <1>19, <2>1, GateConstants DEF TypeOK, JobPlace, DecisionPlace, Resolve,
      MayResolve, Goto
  <2>10. PublishedBeforeAck'
    BY <1>19, <2>1, GateConstants DEF TypeOK, JobPlace, DecisionPlace,
      PublishedBeforeAck, Resolve, MayResolve, Goto, Shown, Missing, Asking
  <2>11. NothingShownBeforeStored'
    BY <1>19, <2>1, GateConstants DEF TypeOK, JobPlace, DecisionPlace,
      NothingShownBeforeStored, Resolve, MayResolve, Goto, Shown, Missing, Asking
  <2>12. BoundGateIsComplete'
    BY <1>19, <2>1, GateConstants DEF TypeOK, JobPlace, DecisionPlace,
      BoundGateIsComplete, Resolve, MayResolve, Goto
  <2>13. AnsweredGateIsLive'
    BY <1>19, <2>1, GateConstants DEF TypeOK, JobPlace, DecisionPlace,
      AnsweredGateIsLive, Resolve, MayResolve, Goto
  <2>14. AckedAnswerIsNotAskedAgain'
    BY <2>1 DEF AckedAnswerIsNotAskedAgain
  <2>15. QED
    BY <2>2, <2>3, <2>4, <2>5, <2>6, <2>7, <2>8, <2>9, <2>10, <2>11, <2>12, <2>13,
      <2>14
<1>20. ASSUME NEW p \in Procs, SyncResolved(p) PROVE IInv'
  <2>1. UNCHANGED <<phase, bound, gate, ack, lock, remote, applied, meant, owner, job,
                    todo, target, wish, question, crashes>>
    BY <1>20 DEF SyncResolved, Holds, Told, Goto, files, run, errand
  <2>2. TypeOK'
    BY <1>20, <2>1 DEF TypeOK, SyncResolved, Holds, Told, Goto, Contents, Shown,
      Missing, Asking
  <2>3. OwnerPlace'
    BY <1>20, <2>1 DEF TypeOK, OwnerPlace, SyncResolved, Holds, Told, Goto
  <2>4. JobPlace'
    BY <1>20, <2>1 DEF TypeOK, JobPlace, SyncResolved, Holds, Told, Goto
  <2>5. FilesInOrder'
    BY <1>20, <2>1, GateConstants DEF TypeOK, FilesInOrder, LocksInOrder,
      NothingShownBeforeStored, SyncResolved, Holds, Told, Goto
  <2>6. LocksInOrder'
    BY <1>20, <2>1, GateConstants DEF TypeOK, FilesInOrder, LocksInOrder,
      SyncResolved, Holds, Told, Goto
  <2>7. CreationPlace'
    BY <1>20, <2>1, GateConstants DEF TypeOK, FilesInOrder, LocksInOrder,
      CreationPlace, SyncResolved, Holds, Told, Goto
  <2>8. DecisionPlace'
    BY <1>20, <2>1 DEF TypeOK, FilesInOrder, LocksInOrder, DecisionPlace,
      SyncResolved, Holds, Told, Goto
  <2>9. PublishedBeforeAck'
    BY <1>20, <2>1 DEF TypeOK, PublishedBeforeAck, SyncResolved, Holds, Told, Goto,
      Shown, Missing, Asking
  <2>10. NothingShownBeforeStored'
    BY <1>20, <2>1 DEF TypeOK, NothingShownBeforeStored, SyncResolved, Holds, Told,
      Goto, Shown, Missing, Asking
  <2>11. BoundGateIsComplete'
    BY <1>20, <2>1 DEF TypeOK, BoundGateIsComplete, SyncResolved, Holds, Told, Goto
  <2>12. ResumePlace' /\ AckedAnswerIsNotAskedAgain' /\ AnsweredGateIsLive'
    BY <2>1 DEF ResumePlace, AckedAnswerIsNotAskedAgain, AnsweredGateIsLive
  <2>13. QED
    BY <2>2, <2>3, <2>4, <2>5, <2>6, <2>7, <2>8, <2>9, <2>10, <2>11, <2>12
<1>21. ASSUME NEW p \in Procs, Refused(p) PROVE IInv'
  <2>1. UNCHANGED <<phase, bound, gate, note, ack, lock, remote, applied, meant,
                    owner, crashes>>
    BY <1>21 DEF Refused, Leave, Goto, files, run, errand
  <2>2. TypeOK'
    BY <1>21, <2>1 DEF TypeOK, Refused, Leave, Goto, Contents, Shown, Missing, Asking
  <2>3. OwnerPlace'
    BY <1>21, <2>1 DEF TypeOK, OwnerPlace, Refused, Leave, Goto
  <2>4. JobPlace'
    BY <1>21, <2>1 DEF TypeOK, JobPlace, Refused, Leave, Goto
  <2>5. LocksInOrder'
    BY <1>21, <2>1 DEF TypeOK, LocksInOrder, Refused, Leave, Goto
  <2>6. CreationPlace'
    BY <1>21, <2>1 DEF TypeOK, CreationPlace, Refused, Leave, Goto
  <2>7. ResumePlace'
    BY <1>21, <2>1 DEF TypeOK, ResumePlace, Refused, Leave, Goto
  <2>8. DecisionPlace'
    BY <1>21, <2>1 DEF TypeOK, DecisionPlace, Refused, Leave, Goto
  <2>9. PublishedBeforeAck'
    BY <1>21, <2>1 DEF TypeOK, PublishedBeforeAck, Refused, Leave, Goto, Shown,
      Missing, Asking
  <2>10. /\ FilesInOrder' /\ NothingShownBeforeStored' /\ AckedAnswerIsNotAskedAgain'
        /\ BoundGateIsComplete' /\ AnsweredGateIsLive'
    BY <2>1 DEF FilesInOrder, NothingShownBeforeStored, AckedAnswerIsNotAskedAgain,
      BoundGateIsComplete, AnsweredGateIsLive
  <2>11. QED
    BY <2>2, <2>3, <2>4, <2>5, <2>6, <2>7, <2>8, <2>9, <2>10
<1>22. ASSUME NEW p \in Procs, Launch(p) PROVE IInv'
  <2>1. UNCHANGED <<phase, bound, gate, note, ack, lock, remote, applied, meant, job,
                    todo, target, wish, question, crashes>>
    BY <1>22 DEF Launch, Goto, files, run, errand
  <2>2. TypeOK'
    BY <1>22, <2>1 DEF TypeOK, Launch, Goto, Contents, Shown, Missing, Asking
  <2>3. OwnerPlace'
    BY <1>22, <2>1, GateConstants DEF TypeOK, OwnerPlace, JobPlace, Launch, Goto
  <2>4. JobPlace'
    BY <1>22, <2>1 DEF TypeOK, JobPlace, Launch, Goto
  <2>5. LocksInOrder'
    BY <1>22, <2>1 DEF TypeOK, LocksInOrder, Launch, Goto
  <2>6. CreationPlace'
    BY <1>22, <2>1 DEF TypeOK, CreationPlace, Launch, Goto
  <2>7. DecisionPlace'
    BY <1>22, <2>1 DEF TypeOK, DecisionPlace, Launch, Goto
  <2>8. PublishedBeforeAck'
    BY <1>22, <2>1 DEF TypeOK, PublishedBeforeAck, Launch, Goto, Shown, Missing,
      Asking
  <2>9. /\ FilesInOrder' /\ ResumePlace' /\ NothingShownBeforeStored'
        /\ AckedAnswerIsNotAskedAgain' /\ BoundGateIsComplete' /\ AnsweredGateIsLive'
    BY <2>1 DEF FilesInOrder, ResumePlace, NothingShownBeforeStored,
      AckedAnswerIsNotAskedAgain, BoundGateIsComplete, AnsweredGateIsLive
  <2>10. QED
    BY <2>2, <2>3, <2>4, <2>5, <2>6, <2>7, <2>8, <2>9
<1>23. ASSUME NEW p \in Procs, ReadQuestion(p) PROVE IInv'
  <2>1. UNCHANGED <<phase, bound, gate, note, ack, lock, remote, applied, meant,
                    owner, job, todo, target, crashes>>
    BY <1>23 DEF ReadQuestion, Goto, files, run, errand
  <2>2. TypeOK'
    BY <1>23, <2>1, GateConstants DEF TypeOK, ReadQuestion, Goto, Contents, Shown,
      Missing, Asking
  <2>3. OwnerPlace'
    BY <1>23, <2>1 DEF TypeOK, OwnerPlace, ReadQuestion, Goto
  <2>4. JobPlace'
    BY <1>23, <2>1 DEF TypeOK, JobPlace, ReadQuestion, Goto
  <2>5. LocksInOrder'
    BY <1>23, <2>1 DEF TypeOK, LocksInOrder, ReadQuestion, Goto
  <2>6. CreationPlace'
    BY <1>23, <2>1 DEF TypeOK, CreationPlace, ReadQuestion, Goto
  <2>7. DecisionPlace'
    BY <1>23, <2>1, GateConstants DEF TypeOK, DecisionPlace, ReadQuestion, Goto
  <2>8. PublishedBeforeAck'
    BY <1>23, <2>1 DEF TypeOK, PublishedBeforeAck, ReadQuestion, Goto, Shown, Missing,
      Asking
  <2>9. /\ FilesInOrder' /\ ResumePlace' /\ NothingShownBeforeStored'
        /\ AckedAnswerIsNotAskedAgain' /\ BoundGateIsComplete' /\ AnsweredGateIsLive'
    BY <2>1 DEF FilesInOrder, ResumePlace, NothingShownBeforeStored,
      AckedAnswerIsNotAskedAgain, BoundGateIsComplete, AnsweredGateIsLive
  <2>10. QED
    BY <2>2, <2>3, <2>4, <2>5, <2>6, <2>7, <2>8, <2>9
<1>24. ASSUME NEW p \in Procs, Crash(p) PROVE IInv'
  <2>1. UNCHANGED <<phase, bound, gate, note, ack, remote, applied, meant>>
    BY <1>24 DEF Crash, Leave, Goto, files, run, errand
  <2>2. TypeOK'
    BY <1>24, <2>1, GateConstants DEF TypeOK, Crash, Leave, Goto, Contents, Shown,
      Missing, Asking
  <2>3. OwnerPlace'
    BY <1>24, <2>1 DEF TypeOK, OwnerPlace, Crash, Leave, Goto
  <2>4. JobPlace'
    BY <1>24, <2>1 DEF TypeOK, JobPlace, Crash, Leave, Goto
  <2>5. LocksInOrder'
    BY <1>24, <2>1 DEF TypeOK, LocksInOrder, Crash, Leave, Goto
  <2>6. CreationPlace'
    BY <1>24, <2>1 DEF TypeOK, CreationPlace, Crash, Leave, Goto
  <2>7. ResumePlace'
    BY <1>24, <2>1 DEF TypeOK, ResumePlace, Crash, Leave, Goto
  <2>8. DecisionPlace'
    BY <1>24, <2>1 DEF TypeOK, DecisionPlace, Crash, Leave, Goto
  <2>9. PublishedBeforeAck'
    BY <1>24, <2>1 DEF TypeOK, PublishedBeforeAck, Crash, Leave, Goto, Shown, Missing,
      Asking
  <2>10. /\ FilesInOrder' /\ NothingShownBeforeStored' /\ AckedAnswerIsNotAskedAgain'
        /\ BoundGateIsComplete' /\ AnsweredGateIsLive'
    BY <2>1 DEF FilesInOrder, NothingShownBeforeStored, AckedAnswerIsNotAskedAgain,
      BoundGateIsComplete, AnsweredGateIsLive
  <2>11. QED
    BY <2>2, <2>3, <2>4, <2>5, <2>6, <2>7, <2>8, <2>9, <2>10
<1>25. CASE BrowserAnswers
  <2>1. UNCHANGED <<phase, bound, gate, note, ack, lock, applied, meant, owner, pc,
                    job, todo, target, wish, question, crashes>>
    BY <1>25 DEF BrowserAnswers, files, run, errand
  <2>2. TypeOK'
    BY <1>25, <2>1 DEF TypeOK, BrowserAnswers, Contents, Shown, Missing, Asking
  <2>3. PublishedBeforeAck'
    BY <1>25, <2>1 DEF TypeOK, PublishedBeforeAck, BrowserAnswers, Shown, Missing,
      Asking
  <2>4. NothingShownBeforeStored'
    BY <1>25, <2>1 DEF TypeOK, NothingShownBeforeStored, BrowserAnswers, Shown,
      Missing, Asking
  <2>5. AckedAnswerIsNotAskedAgain'
    BY <1>25, <2>1 DEF TypeOK, AckedAnswerIsNotAskedAgain, BrowserAnswers, Shown,
      Missing, Asking
  <2>6. /\ OwnerPlace' /\ JobPlace' /\ FilesInOrder'
        /\ LocksInOrder' /\ CreationPlace' /\ ResumePlace'
        /\ DecisionPlace' /\ BoundGateIsComplete' /\ AnsweredGateIsLive'
    BY <2>1 DEF OwnerPlace, JobPlace, FilesInOrder, LocksInOrder, CreationPlace,
      ResumePlace, DecisionPlace, BoundGateIsComplete, AnsweredGateIsLive
  <2>7. QED
    BY <2>2, <2>3, <2>4, <2>5, <2>6
<1>26. CASE BridgeForgets
  <2>1. UNCHANGED <<phase, bound, gate, note, ack, lock, applied, meant, owner, pc,
                    job, todo, target, wish, question, crashes>>
    BY <1>26 DEF BridgeForgets, files, run, errand
  <2>2. TypeOK'
    BY <1>26, <2>1 DEF TypeOK, BridgeForgets, Contents, Shown, Missing, Asking
  <2>3. PublishedBeforeAck'
    BY <1>26, <2>1 DEF TypeOK, PublishedBeforeAck, BridgeForgets, Shown, Missing,
      Asking
  <2>4. NothingShownBeforeStored'
    BY <1>26, <2>1 DEF TypeOK, NothingShownBeforeStored, BridgeForgets, Shown,
      Missing, Asking
  <2>5. AckedAnswerIsNotAskedAgain'
    BY <1>26, <2>1 DEF TypeOK, AckedAnswerIsNotAskedAgain, BridgeForgets, Shown,
      Missing, Asking
  <2>6. /\ OwnerPlace' /\ JobPlace' /\ FilesInOrder'
        /\ LocksInOrder' /\ CreationPlace' /\ ResumePlace'
        /\ DecisionPlace' /\ BoundGateIsComplete' /\ AnsweredGateIsLive'
    BY <2>1 DEF OwnerPlace, JobPlace, FilesInOrder, LocksInOrder, CreationPlace,
      ResumePlace, DecisionPlace, BoundGateIsComplete, AnsweredGateIsLive
  <2>7. QED
    BY <2>2, <2>3, <2>4, <2>5, <2>6
<1>27. CASE UNCHANGED vars
  BY <1>27 DEF vars, files, run, errand, TypeOK, OwnerPlace, JobPlace, FilesInOrder,
    LocksInOrder, CreationPlace, ResumePlace, DecisionPlace, PublishedBeforeAck,
    NothingShownBeforeStored, AckedAnswerIsNotAskedAgain, BoundGateIsComplete,
    AnsweredGateIsLive
<1>28. QED
  BY <1>1, <1>2, <1>3, <1>4, <1>5, <1>6, <1>7, <1>8, <1>9, <1>10, <1>11, <1>12, <1>13,
    <1>14, <1>15, <1>16, <1>17, <1>18, <1>19, <1>20, <1>21, <1>22, <1>23, <1>24,
    <1>25, <1>26, <1>27 DEF Next, Step

\* The inductive invariant holds of every behaviour.
THEOREM Invariance == Spec => []IInv
<1>1. Init => IInv
  BY InitIInv
<1>2. IInv /\ [Next]_vars => IInv'
  BY NextIInv
<1>3. QED
  BY <1>1, <1>2, PTL DEF Spec

\* The variables keep their types: files, locks, bridge and every process.
THEOREM TypeCorrect == Spec => []TypeOK
<1>1. IInv => TypeOK
  BY DEF IInv
<1>2. QED
  BY <1>1, Invariance, PTL

\* resolve_gate gives no answer in vain: an answered gate is the bound one, or
\* its answer has decided a transition.
THEOREM AnswersAreLive == Spec => []AnsweredGateIsLive
<1>1. IInv => AnsweredGateIsLive
  BY DEF IInv
<1>2. QED
  BY <1>1, Invariance, PTL

\* Neither a notification nor the bridge tells of a decision before gates/ has it.
THEOREM StoreIsAuthority == Spec => []NothingShownBeforeStored
<1>1. IInv => NothingShownBeforeStored
  BY DEF IInv
<1>2. QED
  BY <1>1, Invariance, PTL

\* The acknowledgement of a resolution is never followed by a repeated question,
\* for any number of processes that reconcile and die.
THEOREM AcksAreFinal == Spec => []AckedAnswerIsNotAskedAgain
<1>1. IInv => AckedAnswerIsNotAskedAgain
  BY DEF IInv
<1>2. QED
  BY <1>1, Invariance, PTL

\* The binding never names a gate without its files, or one that has decided.
THEOREM BoundGatesAreComplete == Spec => []BoundGateIsComplete
<1>1. IInv => BoundGateIsComplete
  BY DEF IInv
<1>2. QED
  BY <1>1, Invariance, PTL

-----------------------------------------------------------------------------
\* Answers are final: every step but CreateGate and Resolve leaves the gates
\* alone, and these two write absent and pending gates only.

AnswersStay ==
  \A g \in Gates : gate[g] \in Answers => gate'[g] = gate[g] /\ meant'[g] = meant[g]

LEMMA StepKeepsAnswers == TypeOK /\ [Next]_vars => AnswersStay
<1> SUFFICES ASSUME TypeOK, [Next]_vars PROVE AnswersStay
  OBVIOUS
<1>1. ASSUME NEW p \in Procs, CreateGate(p) PROVE AnswersStay
  BY <1>1, FreshIsUnused, GateConstants DEF CreateGate, AnswersStay, TypeOK
<1>2. ASSUME NEW p \in Procs, Resolve(p) PROVE AnswersStay
  BY <1>2, GateConstants DEF Resolve, MayResolve, AnswersStay, TypeOK
<1>3. CASE UNCHANGED <<gate, meant>>
  BY <1>3 DEF AnswersStay
<1>4. ASSUME NEW p \in Procs, Step(p), ~CreateGate(p), ~Resolve(p)
      PROVE  UNCHANGED <<gate, meant>>
  BY <1>4 DEF Step, TakeAndSync, AckStands, Publish, PublishFails, Acknowledge, Work,
     MasterRecovers, Notify, Bind, ListResolved, Apply, StillPending, PollAnswer,
     StopWaiting, Reload, Check, Look, SyncResolved, Refused, files
<1>5. ASSUME NEW p \in Procs, Launch(p) \/ ReadQuestion(p) \/ Crash(p)
      PROVE  UNCHANGED <<gate, meant>>
  BY <1>5 DEF Launch, ReadQuestion, Crash, files
<1>6. CASE BrowserAnswers \/ BridgeForgets \/ UNCHANGED vars
  BY <1>3, <1>6 DEF BrowserAnswers, BridgeForgets, vars, files
<1>7. QED
  BY <1>1, <1>2, <1>3, <1>4, <1>5, <1>6 DEF Next

\* No answer in the store is ever replaced, by any number of users and launchers.
THEOREM AnswersAreFinal == Spec => AnswerIsFinal
<1>1. TypeOK /\ [Next]_vars => [AnswersStay]_vars
  BY StepKeepsAnswers
<1>2. QED
  BY <1>1, TypeCorrect, PTL DEF Spec, AnswerIsFinal, AnswersStay

-----------------------------------------------------------------------------
\* The store as the run sees it: what the promise speaks of changes in five
\* actions, each of which is the promise's own.

\* Everything else stutters, creating a gate included, which no run is bound to yet.
LEMMA OthersStutter ==
  ASSUME IInv, bound = NoGate \/ gate' = gate,
         UNCHANGED <<phase, bound, applied>>
  PROVE  UNCHANGED Promise!vars
BY DEF Promise!vars

LEMMA BindAsks == ASSUME IInv, NEW p \in Procs, Bind(p) PROVE Promise!Ask
<1>1. /\ phase = "blocked" /\ bound = NoGate
      /\ target[p] \in Gates /\ gate[target[p]] = "pending" /\ applied[target[p]] = NoAnswer
  BY DEF Bind, IInv, JobPlace, CreationPlace
<1>2. bound' = target[p] /\ UNCHANGED <<phase, gate, applied>>
  BY DEF Bind, files
<1>3. gate'[bound'] \notin Answers
  BY <1>1, <1>2, GateConstants
<1>4. QED
  BY <1>1, <1>2, <1>3 DEF Promise!Ask

LEMMA ResolveAnswers == ASSUME IInv, NEW p \in Procs, Resolve(p) PROVE Promise!Answer
<1>1. gate[target[p]] = "pending" /\ bound = target[p] /\ target[p] \in Gates
      /\ wish[p] \in Answers
  BY DEF Resolve, MayResolve, IInv, JobPlace, DecisionPlace
<1>2. gate' = [gate EXCEPT ![bound] = wish[p]] /\ UNCHANGED <<phase, bound, applied>>
  BY <1>1 DEF Resolve, run
<1>3. bound # NoGate /\ gate[bound] \notin Answers /\ gate'[bound] \in Answers
  BY <1>1, <1>2, GateConstants DEF IInv, TypeOK
<1>4. QED
  BY <1>2, <1>3 DEF Promise!Answer

LEMMA ApplyApplies == ASSUME IInv, NEW p \in Procs, Apply(p) PROVE Promise!Apply
<1>1. bound # NoGate /\ gate[bound] \in Answers
  BY DEF Apply, Answered, IInv, JobPlace, ResumePlace
<1>2. /\ applied' = [applied EXCEPT ![bound] = gate[bound]]
      /\ bound' = NoGate /\ phase' = "working"
  BY DEF Apply
<1>3. QED
  BY <1>1, <1>2, GateConstants DEF Promise!Apply

\* The gate store implements what RunLoop takes for granted of it.
THEOREM ImplementsPromise == Spec => PromiseKept
<1>1. Init => Promise!Init
  BY DEF Init, Promise!Init
<1>2. ASSUME IInv, [Next]_vars PROVE [Promise!Next]_(Promise!vars)
  <2>1. CASE \E p \in Procs : Bind(p)
    BY <1>2, <2>1, BindAsks DEF Promise!Next
  <2>2. CASE \E p \in Procs : Resolve(p)
    BY <1>2, <2>2, ResolveAnswers DEF Promise!Next
  <2>3. CASE \E p \in Procs : Apply(p)
    BY <1>2, <2>3, ApplyApplies DEF Promise!Next
  <2>4. CASE \E p \in Procs : MasterRecovers(p)
    <3>1. Promise!MasterDecides
      BY <2>4 DEF MasterRecovers, files, Promise!MasterDecides
    <3>2. QED
      BY <3>1 DEF Promise!Next
  <2>5. CASE \E p \in Procs : Work(p)
    <3>1. Promise!Work
      BY <2>5 DEF Work, files, Promise!Work
    <3>2. QED
      BY <3>1 DEF Promise!Next
  <2>6. ASSUME NEW p \in Procs, CreateGate(p) PROVE UNCHANGED Promise!vars
    BY <1>2, <2>6, OthersStutter DEF CreateGate, Unbound, run
  <2>7. ASSUME NEW p \in Procs, Step(p), ~Bind(p), ~Resolve(p), ~Apply(p),
               ~MasterRecovers(p), ~Work(p), ~CreateGate(p)
        PROVE  UNCHANGED <<gate, phase, bound, applied>>
    BY <2>7 DEF Step, TakeAndSync, AckStands, Publish, PublishFails, Acknowledge, Notify,
       ListResolved, StillPending, PollAnswer, StopWaiting, Reload, Check, Look,
       SyncResolved, Refused, files, run
  <2>8. ASSUME NEW p \in Procs, Launch(p) \/ ReadQuestion(p) \/ Crash(p)
        PROVE  UNCHANGED <<gate, phase, bound, applied>>
    BY <2>8 DEF Launch, ReadQuestion, Crash, files, run
  <2>9. CASE BrowserAnswers \/ BridgeForgets \/ UNCHANGED vars
    <3>1. UNCHANGED <<gate, phase, bound, applied>>
      BY <2>9 DEF BrowserAnswers, BridgeForgets, vars, files, run
    <3>2. QED
      BY <1>2, <3>1, OthersStutter
  <2>10. QED
    BY <1>2, <2>1, <2>2, <2>3, <2>4, <2>5, <2>6, <2>7, <2>8, <2>9, OthersStutter DEF Next
<1>3. QED
  BY <1>1, <1>2, Invariance, PTL DEF Spec, PromiseKept, Promise!Spec

-----------------------------------------------------------------------------
\* What it takes for an answer to fit its question: a launcher that answers alone.

\* The binding its answer was read for is the one it is stored for.
QuestionPlace ==
  /\ \A p \in Procs :
       /\ pc[p] = "reload" => question[p] = bound
       /\ job[p] = "decide" => question[p] = target[p]
  /\ AnswerIsForItsQuestion

Alone == Users = {} /\ \E l : Launchers = {l}

LEMMA NextQuestionPlace ==
  ASSUME Alone, IInv, QuestionPlace, [Next]_vars
  PROVE  QuestionPlace'
<1> USE DEF IInv, TypeOK, JobPlace, QuestionPlace, AnswerIsForItsQuestion
<1>1. \A p, q \in Procs : p = q
  BY DEF Alone
<1>2. ASSUME NEW p \in Procs,
             \/ AckStands(p) \/ PublishFails(p) \/ Acknowledge(p)
      PROVE  QuestionPlace'
  <2>1. PICK g \in Gates : Unlock(p, g)
    BY <1>2 DEF AckStands, PublishFails, Acknowledge
  <2>2. UnlockKept(p, g)
    BY <2>1, UnlockFacts
  <2>3. UNCHANGED <<gate, meant, bound>>
    BY <1>2 DEF AckStands, PublishFails, Acknowledge, files, run, AfterFailure
  <2>4. QED
    BY <1>1, <2>2, <2>3 DEF UnlockKept, Goto, Leave, errand
<1>3. ASSUME NEW p \in Procs, Resolve(p) PROVE QuestionPlace'
  BY <1>1, <1>3, GateConstants
     DEF Resolve, MayResolve, Goto, files, run, errand, DecisionPlace, Contents
<1>4. ASSUME NEW p \in Procs, CreateGate(p) PROVE QuestionPlace'
  BY <1>1, <1>4, FreshIsUnused, GateConstants DEF CreateGate, AfterCreation, Goto, run
<1>5. ASSUME NEW p \in Procs,
             \/ TakeAndSync(p) \/ Publish(p) \/ Work(p) \/ MasterRecovers(p) \/ Notify(p)
             \/ SyncResolved(p) \/ Check(p) \/ Launch(p)
      PROVE  QuestionPlace'
  BY <1>1, <1>5 DEF TakeAndSync, Publish, Work, MasterRecovers, Notify, SyncResolved,
     Check, Launch, Goto, files, run, errand
<1>6. ASSUME NEW p \in Procs,
             \/ Bind(p) \/ ListResolved(p) \/ Apply(p) \/ StillPending(p) \/ PollAnswer(p)
             \/ Reload(p)
      PROVE  QuestionPlace'
  BY <1>1, <1>6 DEF Bind, ListResolved, Apply, StillPending, PollAnswer, Reload,
     Addressed, BeginList, After, Goto, files, run, errand
<1>7. ASSUME NEW p \in Procs, StopWaiting(p) \/ Look(p) \/ Refused(p) \/ Crash(p)
      PROVE  QuestionPlace'
  BY <1>1, <1>7 DEF StopWaiting, Look, Refused, Crash, Leave, Goto, files, run
<1>8. ASSUME NEW p \in Procs, ReadQuestion(p) PROVE QuestionPlace'
  BY <1>8, GateConstants DEF Alone, ReadQuestion
<1>9. CASE BrowserAnswers \/ BridgeForgets \/ UNCHANGED vars
  BY <1>9 DEF BrowserAnswers, BridgeForgets, vars, files, run, errand
<1>10. QED
  BY <1>2, <1>3, <1>4, <1>5, <1>6, <1>7, <1>8, <1>9 DEF Next, Step

\* A run with one launcher and nobody at the command line stores every answer for
\* the gate whose question it was given to; the second process that answers is what
\* it takes to break "stale decision rejection".
THEOREM AnswersFitAlone == Alone => (Spec => []AnswerIsForItsQuestion)
<1> SUFFICES ASSUME Alone PROVE Spec => []AnswerIsForItsQuestion
  OBVIOUS
<1>1. Init => QuestionPlace
  BY GateConstants DEF Init, QuestionPlace, AnswerIsForItsQuestion
<1>2. IInv /\ QuestionPlace /\ [Next]_vars => QuestionPlace'
  BY NextQuestionPlace
<1>3. QuestionPlace => AnswerIsForItsQuestion
  BY DEF QuestionPlace
<1>4. QED
  BY <1>1, <1>2, <1>3, Invariance, PTL DEF Spec

=============================================================================
