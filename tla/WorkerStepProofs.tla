--------------------------- MODULE WorkerStepProofs ---------------------------
(***************************************************************************)
(* The invariants of WorkerStep, for any number of dispatches and          *)
(* terminals.                                                              *)
(***************************************************************************)
EXTENDS WorkerStep, TLAPS

\* The step is known to the control state, and its worker starts after that.
Working == {"committed", "started", "waiting", "checking", "finishing", "received"}

\* The current step is the last one dispatched, by this process.
CurrentStep ==
  /\ cur # None => cur = last /\ cur \in session
  /\ pc \in {"down", "recovering", "idle", "ended"} => cur = None
  /\ pc \in {"created"} \cup Working => cur # None

CommittedFirst ==
  /\ committed <= last
  /\ pc = "created" => committed < cur
  /\ pc \in Working => committed = cur
  /\ pc = "committed" => runner[cur] = "none"
  /\ \A d \in Dispatches : runner[d] # "none" => d <= committed

\* A runner speaks once, last, and says worker_done only of a written artifact.
MessagesAreFinal ==
  \A m \in queue \cup batch \cup inbox :
    /\ runner[m[1]] = "dead"
    /\ m[2] = "worker_done" => m[1] \in output

ReceivedIsFinal == pc = "received" => runner[cur] = "dead" /\ cur \in output

\* A runner at work that was not lost is the current step's, in the hands of
\* the coordinator, or else in the records of a process that ended.
RunnersAreKnown ==
  \A d \in Dispatches : runner[d] = "running" /\ d \notin lost =>
    \/ pc = "down" /\ recorded[to[d]] = d
    \/ /\ d = cur /\ owned[to[d]] = d
       /\ pc \in {"started", "waiting", "checking", "finishing"}
       /\ pc # "started" => recorded[to[d]] = d

\* An agent does not outlive a runner that was killed, and the artifact is
\* written after it has ended.
AgentsHaveRunners ==
  /\ TreeKill => \A d \in Dispatches :
       agent[d] = "running" /\ d \notin lost => runner[d] = "running"
  /\ \A d \in output : agent[d] = "dead"

\* _check deals with one message file at a time.
OneFileAtATime ==
  /\ pc \notin {"checking", "finishing"} => inbox = {}
  /\ pc = "checking" => batch \cap inbox = {}

IInv ==
  /\ TypeOK
  /\ CurrentStep
  /\ CommittedFirst
  /\ MessagesAreFinal
  /\ ReceivedIsFinal
  /\ RunnersAreKnown
  /\ AgentsHaveRunners
  /\ OneFileAtATime
  /\ PartialWorkIsNotInherited

USE DEF Dispatches, None, Process, Messages, Working, Running, memory, check, disk, workers

\* Nothing is dispatched, started or said at first.
LEMMA InitIInv == Init => IInv
<1> SUFFICES ASSUME Init PROVE IInv
  OBVIOUS
<1>1. TypeOK
  <2>1. /\ owned \in [Terminals -> Dispatches \cup {None}]
        /\ recorded \in [Terminals -> Dispatches \cup {None}]
    BY DEF Init
  <2>2. /\ runner \in [Dispatches -> Process]
        /\ agent \in [Dispatches -> Process]
    BY DEF Init
  <2>3. cur = 0 /\ committed = 0 /\ last \in 0 .. MaxDispatches
    BY WorkerStepConstants DEF Init
  <2>4. QED BY <2>1, <2>2, <2>3 DEF Init, TypeOK
<1>2. CurrentStep
  BY DEF Init, CurrentStep
<1>3. CommittedFirst
  BY DEF Init, CommittedFirst
<1>4. MessagesAreFinal
  BY DEF Init, MessagesAreFinal
<1>5. ReceivedIsFinal
  BY DEF Init, ReceivedIsFinal
<1>6. RunnersAreKnown
  BY DEF Init, RunnersAreKnown
<1>7. AgentsHaveRunners
  BY DEF Init, AgentsHaveRunners
<1>8. OneFileAtATime
  BY DEF Init, OneFileAtATime
<1>9. PartialWorkIsNotInherited
  BY DEF Init, PartialWorkIsNotInherited
<1>10. QED BY <1>1, <1>2, <1>3, <1>4, <1>5, <1>6, <1>7, <1>8, <1>9 DEF IInv

\* Every step of the coordinator, of a crash or of a worker keeps it.
LEMMA NextIInv == IInv /\ [Next]_vars => IInv'
<1> SUFFICES ASSUME IInv, [Next]_vars PROVE IInv'
  OBVIOUS
<1>1. CASE Dispatch
  <2>1. TypeOK'
    <3>1. last + 1 \in Dispatches
      BY <1>1, WorkerStepConstants DEF IInv, TypeOK, Dispatch
    <3>2. /\ last' \in 0 .. MaxDispatches /\ cur' \in Dispatches
          /\ session' \subseteq Dispatches
      BY <1>1, <3>1 DEF IInv, TypeOK, Dispatch
    <3>3. cur' # None
      BY <3>2
    <3>4. QED
      BY <1>1, <3>2, <3>3 DEF IInv, TypeOK, Dispatch
  <2>2. CurrentStep'
    BY <1>1 DEF IInv, TypeOK, CurrentStep, Dispatch
  <2>3. CommittedFirst'
    BY <1>1 DEF IInv, TypeOK, CommittedFirst, Dispatch
  <2>4. MessagesAreFinal'
    BY <1>1 DEF IInv, MessagesAreFinal, Dispatch
  <2>5. ReceivedIsFinal'
    BY <1>1 DEF IInv, ReceivedIsFinal, Dispatch
  <2>6. RunnersAreKnown'
    BY <1>1 DEF IInv, RunnersAreKnown, Dispatch
  <2>7. AgentsHaveRunners'
    BY <1>1 DEF IInv, AgentsHaveRunners, Dispatch
  <2>8. OneFileAtATime'
    BY <1>1 DEF IInv, OneFileAtATime, Dispatch
  <2>9. PartialWorkIsNotInherited'
    BY <1>1 DEF IInv, PartialWorkIsNotInherited, Dispatch
  <2>10. QED BY <2>1, <2>2, <2>3, <2>4, <2>5, <2>6, <2>7, <2>8, <2>9 DEF IInv
<1>2. CASE CommitDispatched
  <2>1. TypeOK'
    BY <1>2 DEF IInv, TypeOK, CommitDispatched
  <2>2. CurrentStep'
    BY <1>2 DEF IInv, CurrentStep, CommitDispatched
  <2>3. CommittedFirst'
    BY <1>2 DEF IInv, TypeOK, CurrentStep, CommittedFirst, CommitDispatched
  <2>4. MessagesAreFinal'
    BY <1>2 DEF IInv, MessagesAreFinal, CommitDispatched
  <2>5. ReceivedIsFinal'
    BY <1>2 DEF IInv, ReceivedIsFinal, CommitDispatched
  <2>6. RunnersAreKnown'
    BY <1>2 DEF IInv, RunnersAreKnown, CommitDispatched
  <2>7. AgentsHaveRunners'
    BY <1>2 DEF IInv, AgentsHaveRunners, CommitDispatched
  <2>8. OneFileAtATime'
    BY <1>2 DEF IInv, OneFileAtATime, CommitDispatched
  <2>9. PartialWorkIsNotInherited'
    BY <1>2 DEF IInv, PartialWorkIsNotInherited, CommitDispatched
  <2>10. QED BY <2>1, <2>2, <2>3, <2>4, <2>5, <2>6, <2>7, <2>8, <2>9 DEF IInv
<1>3. CASE Launch
  <2>1. TypeOK'
    BY <1>3 DEF IInv, TypeOK, Launch
  <2>2. CurrentStep'
    BY <1>3 DEF IInv, CurrentStep, Launch
  <2>3. CommittedFirst'
    BY <1>3 DEF IInv, CommittedFirst, Launch
  <2>4. MessagesAreFinal'
    BY <1>3 DEF IInv, TypeOK, CurrentStep, CommittedFirst, MessagesAreFinal, Launch
  <2>5. ReceivedIsFinal'
    BY <1>3 DEF IInv, ReceivedIsFinal, Launch
  <2>6. RunnersAreKnown'
    BY <1>3 DEF IInv, TypeOK, RunnersAreKnown, Launch
  <2>7. AgentsHaveRunners'
    BY <1>3 DEF IInv, AgentsHaveRunners, Launch
  <2>8. OneFileAtATime'
    BY <1>3 DEF IInv, OneFileAtATime, Launch
  <2>9. PartialWorkIsNotInherited'
    BY <1>3 DEF IInv, PartialWorkIsNotInherited, Launch
  <2>10. QED BY <2>1, <2>2, <2>3, <2>4, <2>5, <2>6, <2>7, <2>8, <2>9 DEF IInv
<1>4. CASE RecordWorker
  <2>1. TypeOK'
    BY <1>4 DEF IInv, TypeOK, RecordWorker
  <2>2. CurrentStep'
    BY <1>4 DEF IInv, CurrentStep, RecordWorker
  <2>3. CommittedFirst'
    BY <1>4 DEF IInv, CommittedFirst, RecordWorker
  <2>4. MessagesAreFinal'
    BY <1>4 DEF IInv, MessagesAreFinal, RecordWorker
  <2>5. ReceivedIsFinal'
    BY <1>4 DEF IInv, ReceivedIsFinal, RecordWorker
  <2>6. RunnersAreKnown'
    BY <1>4 DEF IInv, TypeOK, RunnersAreKnown, RecordWorker
  <2>7. AgentsHaveRunners'
    BY <1>4 DEF IInv, AgentsHaveRunners, RecordWorker
  <2>8. OneFileAtATime'
    BY <1>4 DEF IInv, OneFileAtATime, RecordWorker
  <2>9. PartialWorkIsNotInherited'
    BY <1>4 DEF IInv, PartialWorkIsNotInherited, RecordWorker
  <2>10. QED BY <2>1, <2>2, <2>3, <2>4, <2>5, <2>6, <2>7, <2>8, <2>9 DEF IInv
<1>5. CASE Check
  <2>1. TypeOK'
    BY <1>5 DEF IInv, TypeOK, Check
  <2>2. CurrentStep'
    BY <1>5 DEF IInv, CurrentStep, Check
  <2>3. CommittedFirst'
    BY <1>5 DEF IInv, CommittedFirst, Check
  <2>4. MessagesAreFinal'
    BY <1>5 DEF IInv, MessagesAreFinal, Check
  <2>5. ReceivedIsFinal'
    BY <1>5 DEF IInv, ReceivedIsFinal, Check
  <2>6. RunnersAreKnown'
    BY <1>5 DEF IInv, RunnersAreKnown, Check
  <2>7. AgentsHaveRunners'
    BY <1>5 DEF IInv, AgentsHaveRunners, Check
  <2>8. OneFileAtATime'
    BY <1>5 DEF IInv, OneFileAtATime, Check
  <2>9. PartialWorkIsNotInherited'
    BY <1>5 DEF IInv, PartialWorkIsNotInherited, Check
  <2>10. QED BY <2>1, <2>2, <2>3, <2>4, <2>5, <2>6, <2>7, <2>8, <2>9 DEF IInv
<1>6. CASE Archive
  <2>1. TypeOK'
    BY <1>6 DEF IInv, TypeOK, OneFileAtATime, Archive
  <2>2. CurrentStep'
    BY <1>6 DEF IInv, CurrentStep, Archive
  <2>3. CommittedFirst'
    BY <1>6 DEF IInv, CommittedFirst, Archive
  <2>4. MessagesAreFinal'
    BY <1>6 DEF IInv, MessagesAreFinal, Archive
  <2>5. ReceivedIsFinal'
    BY <1>6 DEF IInv, ReceivedIsFinal, Archive
  <2>6. RunnersAreKnown'
    BY <1>6 DEF IInv, RunnersAreKnown, Archive
  <2>7. AgentsHaveRunners'
    BY <1>6 DEF IInv, AgentsHaveRunners, Archive
  <2>8. OneFileAtATime'
    BY <1>6 DEF IInv, OneFileAtATime, Archive
  <2>9. PartialWorkIsNotInherited'
    BY <1>6 DEF IInv, PartialWorkIsNotInherited, Archive
  <2>10. QED BY <2>1, <2>2, <2>3, <2>4, <2>5, <2>6, <2>7, <2>8, <2>9 DEF IInv
<1>7. CASE FinishMessageWorker
  <2>1. TypeOK'
    BY <1>7 DEF IInv, TypeOK, FinishMessageWorker, FinishWorker, Killed
  <2>2. CurrentStep'
    BY <1>7 DEF IInv, CurrentStep, FinishMessageWorker, FinishWorker, Killed
  <2>3. CommittedFirst'
    BY <1>7 DEF IInv, CommittedFirst, FinishMessageWorker, FinishWorker, Killed
  <2>4. MessagesAreFinal'
    BY <1>7 DEF IInv, TypeOK, MessagesAreFinal, FinishMessageWorker, FinishWorker,
      Killed
  <2>5. ReceivedIsFinal'
    BY <1>7 DEF IInv, ReceivedIsFinal, FinishMessageWorker, FinishWorker, Killed
  <2>6. RunnersAreKnown'
    BY <1>7 DEF IInv, RunnersAreKnown, FinishMessageWorker, FinishWorker, Killed
  <2>7. AgentsHaveRunners'
    BY <1>7 DEF IInv, TypeOK, AgentsHaveRunners, FinishMessageWorker, FinishWorker,
      Killed
  <2>8. OneFileAtATime'
    BY <1>7 DEF IInv, TypeOK, OneFileAtATime, FinishMessageWorker, FinishWorker, Killed
  <2>9. PartialWorkIsNotInherited'
    BY <1>7 DEF IInv, PartialWorkIsNotInherited, FinishMessageWorker, FinishWorker,
      Killed
  <2>10. QED BY <2>1, <2>2, <2>3, <2>4, <2>5, <2>6, <2>7, <2>8, <2>9 DEF IInv
<1>8. CASE Return
  <2>1. TypeOK'
    BY <1>8 DEF IInv, TypeOK, Return, Own
  <2>2. CurrentStep'
    BY <1>8 DEF IInv, CurrentStep, Return, Own
  <2>3. CommittedFirst'
    BY <1>8 DEF IInv, CommittedFirst, Return, Own
  <2>4. MessagesAreFinal'
    BY <1>8 DEF IInv, MessagesAreFinal, Return, Own
  <2>5. ReceivedIsFinal'
    BY <1>8 DEF IInv, TypeOK, MessagesAreFinal, ReceivedIsFinal, Return, Own
  <2>6. RunnersAreKnown'
    BY <1>8 DEF IInv, TypeOK, MessagesAreFinal, RunnersAreKnown, Return, Own
  <2>7. AgentsHaveRunners'
    BY <1>8 DEF IInv, AgentsHaveRunners, Return, Own
  <2>8. OneFileAtATime'
    BY <1>8 DEF IInv, OneFileAtATime, Return, Own
  <2>9. PartialWorkIsNotInherited'
    BY <1>8 DEF IInv, PartialWorkIsNotInherited, Return, Own
  <2>10. QED BY <2>1, <2>2, <2>3, <2>4, <2>5, <2>6, <2>7, <2>8, <2>9 DEF IInv
<1>9. CASE Timeout
  <2>1. TypeOK'
    BY <1>9 DEF IInv, TypeOK, Timeout, FinishWorker, Killed
  <2>2. CurrentStep'
    BY <1>9 DEF IInv, CurrentStep, Timeout, FinishWorker, Killed
  <2>3. CommittedFirst'
    BY <1>9 DEF IInv, CommittedFirst, Timeout, FinishWorker, Killed
  <2>4. MessagesAreFinal'
    BY <1>9 DEF IInv, TypeOK, MessagesAreFinal, Timeout, FinishWorker, Killed
  <2>5. ReceivedIsFinal'
    BY <1>9 DEF IInv, ReceivedIsFinal, Timeout, FinishWorker, Killed
  <2>6. RunnersAreKnown'
    BY <1>9 DEF IInv, RunnersAreKnown, Timeout, FinishWorker, Killed
  <2>7. AgentsHaveRunners'
    BY <1>9 DEF IInv, TypeOK, AgentsHaveRunners, Timeout, FinishWorker, Killed
  <2>8. OneFileAtATime'
    BY <1>9 DEF IInv, OneFileAtATime, Timeout, FinishWorker, Killed
  <2>9. PartialWorkIsNotInherited'
    BY <1>9 DEF IInv, PartialWorkIsNotInherited, Timeout, FinishWorker, Killed
  <2>10. QED BY <2>1, <2>2, <2>3, <2>4, <2>5, <2>6, <2>7, <2>8, <2>9 DEF IInv
<1>10. CASE VerifyStep
  <2>1. TypeOK'
    BY <1>10 DEF IInv, TypeOK, VerifyStep
  <2>2. CurrentStep'
    BY <1>10 DEF IInv, CurrentStep, VerifyStep
  <2>3. CommittedFirst'
    BY <1>10 DEF IInv, CommittedFirst, VerifyStep
  <2>4. MessagesAreFinal'
    BY <1>10 DEF IInv, MessagesAreFinal, VerifyStep
  <2>5. ReceivedIsFinal'
    BY <1>10 DEF IInv, ReceivedIsFinal, VerifyStep
  <2>6. RunnersAreKnown'
    BY <1>10 DEF IInv, RunnersAreKnown, VerifyStep
  <2>7. AgentsHaveRunners'
    BY <1>10 DEF IInv, AgentsHaveRunners, VerifyStep
  <2>8. OneFileAtATime'
    BY <1>10 DEF IInv, OneFileAtATime, VerifyStep
  <2>9. PartialWorkIsNotInherited'
    BY <1>10 DEF IInv, PartialWorkIsNotInherited, VerifyStep
  <2>10. QED BY <2>1, <2>2, <2>3, <2>4, <2>5, <2>6, <2>7, <2>8, <2>9 DEF IInv
<1>11. CASE ContractViolated
  <2>1. TypeOK'
    BY <1>11 DEF IInv, TypeOK, ContractViolated
  <2>2. CurrentStep'
    BY <1>11 DEF IInv, CurrentStep, ContractViolated
  <2>3. CommittedFirst'
    BY <1>11 DEF IInv, CommittedFirst, ContractViolated
  <2>4. MessagesAreFinal'
    BY <1>11 DEF IInv, MessagesAreFinal, ContractViolated
  <2>5. ReceivedIsFinal'
    BY <1>11 DEF IInv, ReceivedIsFinal, ContractViolated
  <2>6. RunnersAreKnown'
    BY <1>11 DEF IInv, RunnersAreKnown, ContractViolated
  <2>7. AgentsHaveRunners'
    BY <1>11 DEF IInv, AgentsHaveRunners, ContractViolated
  <2>8. OneFileAtATime'
    BY <1>11 DEF IInv, OneFileAtATime, ContractViolated
  <2>9. PartialWorkIsNotInherited'
    BY <1>11 DEF IInv, PartialWorkIsNotInherited, ContractViolated
  <2>10. QED BY <2>1, <2>2, <2>3, <2>4, <2>5, <2>6, <2>7, <2>8, <2>9 DEF IInv
<1>12. CASE CallFails
  <2>1. TypeOK'
    BY <1>12 DEF IInv, TypeOK, CallFails, Killed, Forget
  <2>2. CurrentStep'
    BY <1>12 DEF IInv, CurrentStep, CallFails, Killed, Forget
  <2>3. CommittedFirst'
    BY <1>12 DEF IInv, CommittedFirst, CallFails, Killed, Forget
  <2>4. MessagesAreFinal'
    BY <1>12 DEF IInv, TypeOK, MessagesAreFinal, CallFails, Killed, Forget
  <2>5. ReceivedIsFinal'
    BY <1>12 DEF IInv, ReceivedIsFinal, CallFails, Killed, Forget
  <2>6. RunnersAreKnown'
    BY <1>12 DEF IInv, RunnersAreKnown, CallFails, Killed, Forget
  <2>7. AgentsHaveRunners'
    BY <1>12 DEF IInv, TypeOK, AgentsHaveRunners, CallFails, Killed, Forget
  <2>8. OneFileAtATime'
    BY <1>12 DEF IInv, OneFileAtATime, CallFails, Killed, Forget
  <2>9. PartialWorkIsNotInherited'
    BY <1>12 DEF IInv, PartialWorkIsNotInherited, CallFails, Killed, Forget
  <2>10. QED BY <2>1, <2>2, <2>3, <2>4, <2>5, <2>6, <2>7, <2>8, <2>9 DEF IInv
<1>13. CASE Stop
  <2>1. TypeOK'
    BY <1>13 DEF IInv, TypeOK, Stop, Forget
  <2>2. CurrentStep'
    BY <1>13 DEF IInv, CurrentStep, Stop, Forget
  <2>3. CommittedFirst'
    BY <1>13 DEF IInv, CommittedFirst, Stop, Forget
  <2>4. MessagesAreFinal'
    BY <1>13 DEF IInv, MessagesAreFinal, Stop, Forget
  <2>5. ReceivedIsFinal'
    BY <1>13 DEF IInv, ReceivedIsFinal, Stop, Forget
  <2>6. RunnersAreKnown'
    BY <1>13 DEF IInv, RunnersAreKnown, Stop, Forget
  <2>7. AgentsHaveRunners'
    BY <1>13 DEF IInv, AgentsHaveRunners, Stop, Forget
  <2>8. OneFileAtATime'
    BY <1>13 DEF IInv, OneFileAtATime, Stop, Forget
  <2>9. PartialWorkIsNotInherited'
    BY <1>13 DEF IInv, PartialWorkIsNotInherited, Stop, Forget
  <2>10. QED BY <2>1, <2>2, <2>3, <2>4, <2>5, <2>6, <2>7, <2>8, <2>9 DEF IInv
<1>14. CASE Recover
  <2>1. TypeOK'
    BY <1>14 DEF IInv, TypeOK, Recover, Killed
  <2>2. CurrentStep'
    BY <1>14 DEF IInv, CurrentStep, Recover, Killed
  <2>3. CommittedFirst'
    BY <1>14 DEF IInv, CommittedFirst, Recover, Killed
  <2>4. MessagesAreFinal'
    BY <1>14 DEF IInv, TypeOK, MessagesAreFinal, Recover, Killed
  <2>5. ReceivedIsFinal'
    BY <1>14 DEF IInv, ReceivedIsFinal, Recover, Killed
  <2>6. RunnersAreKnown'
    BY <1>14 DEF IInv, TypeOK, RunnersAreKnown, Recover, Killed
  <2>7. AgentsHaveRunners'
    BY <1>14 DEF IInv, TypeOK, AgentsHaveRunners, Recover, Killed
  <2>8. OneFileAtATime'
    BY <1>14 DEF IInv, OneFileAtATime, Recover, Killed
  <2>9. PartialWorkIsNotInherited'
    BY <1>14 DEF IInv, PartialWorkIsNotInherited, Recover, Killed
  <2>10. QED BY <2>1, <2>2, <2>3, <2>4, <2>5, <2>6, <2>7, <2>8, <2>9 DEF IInv
<1>15. CASE Resume
  <2>1. TypeOK'
    BY <1>15 DEF IInv, TypeOK, Resume
  <2>2. CurrentStep'
    BY <1>15 DEF IInv, CurrentStep, Resume
  <2>3. CommittedFirst'
    BY <1>15 DEF IInv, CommittedFirst, Resume
  <2>4. MessagesAreFinal'
    BY <1>15 DEF IInv, MessagesAreFinal, Resume
  <2>5. ReceivedIsFinal'
    BY <1>15 DEF IInv, ReceivedIsFinal, Resume
  <2>6. RunnersAreKnown'
    BY <1>15 DEF IInv, RunnersAreKnown, Resume
  <2>7. AgentsHaveRunners'
    BY <1>15 DEF IInv, AgentsHaveRunners, Resume
  <2>8. OneFileAtATime'
    BY <1>15 DEF IInv, OneFileAtATime, Resume
  <2>9. PartialWorkIsNotInherited'
    BY <1>15 DEF IInv, PartialWorkIsNotInherited, Resume
  <2>10. QED BY <2>1, <2>2, <2>3, <2>4, <2>5, <2>6, <2>7, <2>8, <2>9 DEF IInv
<1>16. CASE \E d \in Dispatches : StartAgent(d)
  <2> PICK d \in Dispatches : StartAgent(d)
    BY <1>16
  <2>1. TypeOK'
    BY DEF IInv, TypeOK, StartAgent
  <2>2. CurrentStep'
    BY DEF IInv, CurrentStep, StartAgent
  <2>3. CommittedFirst'
    BY DEF IInv, CommittedFirst, StartAgent
  <2>4. MessagesAreFinal'
    BY DEF IInv, MessagesAreFinal, StartAgent
  <2>5. ReceivedIsFinal'
    BY DEF IInv, ReceivedIsFinal, StartAgent
  <2>6. RunnersAreKnown'
    BY DEF IInv, RunnersAreKnown, StartAgent
  <2>7. AgentsHaveRunners'
    BY DEF IInv, AgentsHaveRunners, StartAgent
  <2>8. OneFileAtATime'
    BY DEF IInv, OneFileAtATime, StartAgent
  <2>9. PartialWorkIsNotInherited'
    BY DEF IInv, PartialWorkIsNotInherited, StartAgent
  <2>10. QED BY <2>1, <2>2, <2>3, <2>4, <2>5, <2>6, <2>7, <2>8, <2>9 DEF IInv
<1>17. CASE \E d \in Dispatches : AgentEdits(d)
  <2> PICK d \in Dispatches : AgentEdits(d)
    BY <1>17
  <2>1. TypeOK'
    BY DEF IInv, TypeOK, AgentEdits
  <2>2. CurrentStep'
    BY DEF IInv, CurrentStep, AgentEdits
  <2>3. CommittedFirst'
    BY DEF IInv, CommittedFirst, AgentEdits
  <2>4. MessagesAreFinal'
    BY DEF IInv, MessagesAreFinal, AgentEdits
  <2>5. ReceivedIsFinal'
    BY DEF IInv, ReceivedIsFinal, AgentEdits
  <2>6. RunnersAreKnown'
    BY DEF IInv, RunnersAreKnown, AgentEdits
  <2>7. AgentsHaveRunners'
    BY DEF IInv, AgentsHaveRunners, AgentEdits
  <2>8. OneFileAtATime'
    BY DEF IInv, OneFileAtATime, AgentEdits
  <2>9. PartialWorkIsNotInherited'
    BY DEF IInv, TypeOK, CurrentStep, RunnersAreKnown, AgentsHaveRunners,
      PartialWorkIsNotInherited, AgentEdits
  <2>10. QED BY <2>1, <2>2, <2>3, <2>4, <2>5, <2>6, <2>7, <2>8, <2>9 DEF IInv
<1>18. CASE \E d \in Dispatches : AgentExits(d)
  <2> PICK d \in Dispatches : AgentExits(d)
    BY <1>18
  <2>1. TypeOK'
    BY DEF IInv, TypeOK, AgentExits
  <2>2. CurrentStep'
    BY DEF IInv, CurrentStep, AgentExits
  <2>3. CommittedFirst'
    BY DEF IInv, CommittedFirst, AgentExits
  <2>4. MessagesAreFinal'
    BY DEF IInv, MessagesAreFinal, AgentExits
  <2>5. ReceivedIsFinal'
    BY DEF IInv, ReceivedIsFinal, AgentExits
  <2>6. RunnersAreKnown'
    BY DEF IInv, RunnersAreKnown, AgentExits
  <2>7. AgentsHaveRunners'
    BY DEF IInv, AgentsHaveRunners, AgentExits
  <2>8. OneFileAtATime'
    BY DEF IInv, OneFileAtATime, AgentExits
  <2>9. PartialWorkIsNotInherited'
    BY DEF IInv, PartialWorkIsNotInherited, AgentExits
  <2>10. QED BY <2>1, <2>2, <2>3, <2>4, <2>5, <2>6, <2>7, <2>8, <2>9 DEF IInv
<1>19. CASE \E d \in Dispatches : WriteArtifact(d)
  <2> PICK d \in Dispatches : WriteArtifact(d)
    BY <1>19
  <2>1. TypeOK'
    BY DEF IInv, TypeOK, WriteArtifact
  <2>2. CurrentStep'
    BY DEF IInv, CurrentStep, WriteArtifact
  <2>3. CommittedFirst'
    BY DEF IInv, CommittedFirst, WriteArtifact
  <2>4. MessagesAreFinal'
    BY DEF IInv, MessagesAreFinal, WriteArtifact
  <2>5. ReceivedIsFinal'
    BY DEF IInv, ReceivedIsFinal, WriteArtifact
  <2>6. RunnersAreKnown'
    BY DEF IInv, RunnersAreKnown, WriteArtifact
  <2>7. AgentsHaveRunners'
    BY DEF IInv, AgentsHaveRunners, WriteArtifact
  <2>8. OneFileAtATime'
    BY DEF IInv, OneFileAtATime, WriteArtifact
  <2>9. PartialWorkIsNotInherited'
    BY DEF IInv, PartialWorkIsNotInherited, WriteArtifact
  <2>10. QED BY <2>1, <2>2, <2>3, <2>4, <2>5, <2>6, <2>7, <2>8, <2>9 DEF IInv
<1>20. CASE \E d \in Dispatches : SendDone(d)
  <2> PICK d \in Dispatches : SendDone(d)
    BY <1>20
  <2>1. TypeOK'
    BY DEF IInv, TypeOK, SendDone
  <2>2. CurrentStep'
    BY DEF IInv, CurrentStep, SendDone
  <2>3. CommittedFirst'
    BY DEF IInv, CommittedFirst, SendDone
  <2>4. MessagesAreFinal'
    BY DEF IInv, TypeOK, MessagesAreFinal, SendDone
  <2>5. ReceivedIsFinal'
    BY DEF IInv, ReceivedIsFinal, SendDone
  <2>6. RunnersAreKnown'
    BY DEF IInv, RunnersAreKnown, SendDone
  <2>7. AgentsHaveRunners'
    BY DEF IInv, AgentsHaveRunners, SendDone
  <2>8. OneFileAtATime'
    BY DEF IInv, OneFileAtATime, SendDone
  <2>9. PartialWorkIsNotInherited'
    BY DEF IInv, PartialWorkIsNotInherited, SendDone
  <2>10. QED BY <2>1, <2>2, <2>3, <2>4, <2>5, <2>6, <2>7, <2>8, <2>9 DEF IInv
<1>21. CASE \E d \in Dispatches : SendEscalation(d)
  <2> PICK d \in Dispatches : SendEscalation(d)
    BY <1>21
  <2>1. TypeOK'
    <3>1. agent' \in [Dispatches -> Process] /\ runner' \in [Dispatches -> Process]
      BY DEF IInv, TypeOK, SendEscalation
    <3>2. queue' \subseteq Messages
      BY DEF IInv, TypeOK, SendEscalation
    <3>3. QED
      BY <3>1, <3>2 DEF IInv, TypeOK, SendEscalation
  <2>2. CurrentStep'
    BY DEF IInv, CurrentStep, SendEscalation
  <2>3. CommittedFirst'
    BY DEF IInv, CommittedFirst, SendEscalation
  <2>4. MessagesAreFinal'
    BY DEF IInv, TypeOK, MessagesAreFinal, SendEscalation
  <2>5. ReceivedIsFinal'
    BY DEF IInv, ReceivedIsFinal, SendEscalation
  <2>6. RunnersAreKnown'
    BY DEF IInv, RunnersAreKnown, SendEscalation
  <2>7. AgentsHaveRunners'
    BY DEF IInv, TypeOK, AgentsHaveRunners, SendEscalation
  <2>8. OneFileAtATime'
    BY DEF IInv, OneFileAtATime, SendEscalation
  <2>9. PartialWorkIsNotInherited'
    BY DEF IInv, PartialWorkIsNotInherited, SendEscalation
  <2>10. QED BY <2>1, <2>2, <2>3, <2>4, <2>5, <2>6, <2>7, <2>8, <2>9 DEF IInv
<1>22. CASE \E d \in Dispatches : RunnerDies(d)
  <2> PICK d \in Dispatches : RunnerDies(d)
    BY <1>22
  <2>1. TypeOK'
    BY DEF IInv, TypeOK, RunnerDies
  <2>2. CurrentStep'
    BY DEF IInv, CurrentStep, RunnerDies
  <2>3. CommittedFirst'
    BY DEF IInv, CommittedFirst, RunnerDies
  <2>4. MessagesAreFinal'
    BY DEF IInv, MessagesAreFinal, RunnerDies
  <2>5. ReceivedIsFinal'
    BY DEF IInv, ReceivedIsFinal, RunnerDies
  <2>6. RunnersAreKnown'
    BY DEF IInv, RunnersAreKnown, RunnerDies
  <2>7. AgentsHaveRunners'
    BY DEF IInv, AgentsHaveRunners, RunnerDies
  <2>8. OneFileAtATime'
    BY DEF IInv, OneFileAtATime, RunnerDies
  <2>9. PartialWorkIsNotInherited'
    BY DEF IInv, PartialWorkIsNotInherited, RunnerDies
  <2>10. QED BY <2>1, <2>2, <2>3, <2>4, <2>5, <2>6, <2>7, <2>8, <2>9 DEF IInv
<1>23. CASE UNCHANGED vars
  <2>1. TypeOK'
    BY <1>23 DEF IInv, TypeOK, vars
  <2>2. CurrentStep'
    BY <1>23 DEF IInv, CurrentStep, vars
  <2>3. CommittedFirst'
    BY <1>23 DEF IInv, CommittedFirst, vars
  <2>4. MessagesAreFinal'
    BY <1>23 DEF IInv, MessagesAreFinal, vars
  <2>5. ReceivedIsFinal'
    BY <1>23 DEF IInv, ReceivedIsFinal, vars
  <2>6. RunnersAreKnown'
    BY <1>23 DEF IInv, RunnersAreKnown, vars
  <2>7. AgentsHaveRunners'
    BY <1>23 DEF IInv, AgentsHaveRunners, vars
  <2>8. OneFileAtATime'
    BY <1>23 DEF IInv, OneFileAtATime, vars
  <2>9. PartialWorkIsNotInherited'
    BY <1>23 DEF IInv, PartialWorkIsNotInherited, vars
  <2>10. QED BY <2>1, <2>2, <2>3, <2>4, <2>5, <2>6, <2>7, <2>8, <2>9 DEF IInv
<1>24. QED
  BY <1>1, <1>2, <1>3, <1>4, <1>5, <1>6, <1>7, <1>8, <1>9, <1>10, <1>11, <1>12, <1>13,
    <1>14, <1>15, <1>16, <1>17, <1>18, <1>19, <1>20, <1>21, <1>22, <1>23 DEF Next,
    Coordinate, Interrupt, Work

-----------------------------------------------------------------------------
\* The inductive invariant holds of every behaviour of the specification.
THEOREM Invariance == Spec => []IInv
<1>1. Init => IInv
  BY InitIInv
<1>2. IInv /\ [Next]_vars => IInv'
  BY NextIInv
<1>3. QED
  BY <1>1, <1>2, PTL DEF Spec

\* The variables of a worker step keep their types, for any number of terminals.
THEOREM TypeCorrect == Spec => []TypeOK
<1>1. IInv => TypeOK
  BY DEF IInv
<1>2. QED
  BY <1>1, Invariance, PTL

\* dispatch_and_wait takes up no completion but that of its own dispatch, whose
\* artifact is written, whatever earlier attempts left in the queue.
THEOREM CompletionsAreOwn == Spec => []CompletionIsOwn
<1>1. IInv => CompletionIsOwn
  BY DEF IInv, ReceivedIsFinal, CompletionIsOwn
<1>2. QED
  BY <1>1, Invariance, PTL

\* No worker process starts before commit_dispatched has made its dispatch known.
THEOREM WorkersAreCommitted == Spec => []StartedAfterCommit
<1>1. IInv => StartedAfterCommit
  BY DEF IInv, CommittedFirst, StartedAfterCommit
<1>2. QED
  BY <1>1, Invariance, PTL

\* Timeouts, failed calls, stale messages and restarts leave no agent at work,
\* but for one whose runner died by itself or was never recorded.
THEOREM StraysAreLost == Spec => []StrayAgentsAreLost
<1>1. IInv => StrayAgentsAreLost
  BY DEF IInv, AgentsHaveRunners, RunnersAreKnown, StrayAgentsAreLost
<1>2. QED
  BY <1>1, Invariance, PTL

\* A resumed process works on no edit its predecessors left unverified, but for
\* those of a lost agent.
THEOREM PartialWorkIsRefused == Spec => []PartialWorkIsNotInherited
<1>1. IInv => PartialWorkIsNotInherited
  BY DEF IInv
<1>2. QED
  BY <1>1, Invariance, PTL

-----------------------------------------------------------------------------
\* An agent is the child of a runner.
AgentsAreStarted == \A d \in Dispatches : agent[d] # "none" => runner[d] # "none"

\* Only a running worker_runner starts an agent, and no process is unstarted.
LEMMA AgentsStarted == Spec => []AgentsAreStarted
<1>1. Init => AgentsAreStarted
  BY DEF Init, AgentsAreStarted
<1>2. IInv /\ AgentsAreStarted /\ [Next]_vars => AgentsAreStarted'
  <2> SUFFICES ASSUME IInv, AgentsAreStarted, [Next]_vars,
                      NEW d \in Dispatches, agent'[d] # "none"
               PROVE  runner'[d] # "none"
    BY DEF AgentsAreStarted
  <2> USE DEF AgentsAreStarted
  <2>1. runner \in [Dispatches -> Process] /\ agent \in [Dispatches -> Process]
    BY DEF IInv, TypeOK
  <2>2. CASE UNCHANGED <<runner, agent>>
    BY <2>2
  <2>3. CASE Launch
    BY <2>1, <2>3 DEF Launch
  <2>4. CASE FinishMessageWorker \/ Timeout \/ CallFails \/ Recover
    <3>1. \E D : Killed(D)
      BY <2>4 DEF FinishMessageWorker, Timeout, CallFails, Recover, FinishWorker
    <3>2. QED
      BY <2>1, <3>1 DEF Killed
  <2>5. CASE \E e \in Dispatches : Work(e)
    <3> PICK e \in Dispatches : Work(e)
      BY <2>5
    <3>1. CASE StartAgent(e) \/ AgentEdits(e) \/ AgentExits(e) \/ WriteArtifact(e)
      BY <2>1, <3>1 DEF StartAgent, AgentEdits, AgentExits, WriteArtifact
    <3>2. CASE SendDone(e) \/ RunnerDies(e)
      BY <2>1, <3>2 DEF SendDone, RunnerDies
    <3>3. CASE SendEscalation(e)
      BY <2>1, <3>3 DEF SendEscalation
    <3>4. QED
      BY <3>1, <3>2, <3>3 DEF Work
  <2>6. QED
    BY <2>2, <2>3, <2>4, <2>5 DEF Next, Coordinate, Interrupt, Dispatch, CommitDispatched,
      RecordWorker, Check, Archive, Return, VerifyStep, ContractViolated, Stop, Resume, vars
<1>3. QED
  BY <1>1, <1>2, Invariance, PTL DEF Spec

\* The first step is none, and nothing is committed.
LEMMA PromiseInit == Init => Promise!Init
BY DEF Init, Promise!Init, Promise!NoStep, Stage

\* A step of a worker is one of the abstract worker's: it works for a step whose
\* dispatch is committed.
LEMMA WorkPromised ==
  ASSUME IInv, AgentsAreStarted, NEW d \in Dispatches, Work(d)
  PROVE  [Promise!Next]_(Promise!vars)
<1>1. d \in 1 .. MaxDispatches
  OBVIOUS
<1>2. runner[d] # "none" => d <= committed
  BY DEF IInv, CommittedFirst
<1>3. CASE AgentEdits(d)
  <2>1. runner[d] # "none"
    BY <1>3 DEF AgentEdits, AgentsAreStarted
  <2>2. Promise!Edit(d)
    BY <1>2, <1>3, <2>1 DEF AgentEdits, Promise!Edit, Promise!numbers, Stage
  <2>3. QED
    BY <1>1, <2>2 DEF Promise!Next
<1>4. CASE WriteArtifact(d)
  <2>1. Promise!Deliver(d)
    BY <1>2, <1>4 DEF WriteArtifact, Promise!Deliver, Promise!numbers, Stage
  <2>2. QED
    BY <1>1, <2>1 DEF Promise!Next
<1>5. CASE StartAgent(d) \/ AgentExits(d) \/ SendDone(d) \/ SendEscalation(d)
           \/ RunnerDies(d)
  BY <1>5 DEF StartAgent, AgentExits, SendDone, SendEscalation, RunnerDies, Promise!vars, Stage
<1>6. QED
  BY <1>3, <1>4, <1>5 DEF Work

\* What the coordinator does for a step comes in the order of the promise:
\* prepared, committed, then answered by its own worker or given up, then
\* verified or refused.
LEMMA CoordinatePromised ==
  ASSUME IInv, Coordinate
  PROVE  [Promise!Next]_(Promise!vars)
<1>1. CASE Dispatch
  <2>1. Promise!Prepare
    BY <1>1 DEF Dispatch, Promise!Prepare, Stage
  <2>2. QED
    BY <2>1 DEF Promise!Next
<1>2. CASE CommitDispatched
  <2>1. Promise!Dispatch
    BY <1>2 DEF CommitDispatched, Promise!Dispatch, Stage
  <2>2. QED
    BY <2>1 DEF Promise!Next
<1>3. CASE Launch \/ RecordWorker \/ Check \/ Archive
  BY <1>3 DEF Launch, RecordWorker, Check, Archive, Promise!vars, Stage
<1>4. CASE FinishMessageWorker
  BY <1>4 DEF FinishMessageWorker, FinishWorker, Promise!vars, Stage
<1>5. CASE Return
  <2>1. CASE \E m \in inbox : Own(m) /\ m[2] = "worker_done"
    <3>1. cur \in output
      BY <2>1 DEF IInv, MessagesAreFinal, Own
    <3>2. Promise!Answered
      BY <1>5, <2>1, <3>1 DEF Return, Promise!Answered, Promise!numbers, Stage
    <3>3. QED
      BY <3>2 DEF Promise!Next
  <2>2. CASE /\ ~\E m \in inbox : Own(m) /\ m[2] = "worker_done"
             /\ \E m \in inbox : Own(m)
    <3>1. pc = "checking" /\ pc' = "idle" /\ cur' = None
      BY <1>5, <2>2 DEF Return
    <3>2. Promise!Fail
      BY <1>5, <3>1 DEF Return, Promise!Fail, Promise!numbers, Promise!NoStep, Stage
    <3>3. QED
      BY <3>2 DEF Promise!Next
  <2>3. CASE ~\E m \in inbox : Own(m)
    <3>1. pc = "checking" /\ pc' = "waiting" /\ cur' = cur
      BY <1>5, <2>3 DEF Return
    <3>2. QED
      BY <1>5, <3>1 DEF Return, Promise!vars, Stage
  <2>4. QED
    BY <2>1, <2>2, <2>3
<1>6. CASE Timeout
  <2>1. Promise!Fail
    BY <1>6 DEF Timeout, FinishWorker, Promise!Fail, Promise!numbers, Promise!NoStep, Stage
  <2>2. QED
    BY <2>1 DEF Promise!Next
<1>7. CASE VerifyStep
  <2>1. Promise!Verify
    BY <1>7 DEF VerifyStep, Promise!Verify, Promise!numbers, Promise!NoStep, Stage
  <2>2. QED
    BY <2>1 DEF Promise!Next
<1>8. CASE ContractViolated
  <2>1. Promise!Refuse
    BY <1>8 DEF ContractViolated, Promise!Refuse, Promise!numbers, Promise!NoStep, Stage
  <2>2. QED
    BY <2>1 DEF Promise!Next
<1>9. QED
  BY <1>1, <1>2, <1>3, <1>4, <1>5, <1>6, <1>7, <1>8 DEF Coordinate

\* A process that ends drops its step, and the next one starts on verified work.
LEMMA InterruptPromised ==
  ASSUME IInv, Interrupt
  PROVE  [Promise!Next]_(Promise!vars)
<1>1. CASE CallFails
  <2>1. Promise!Stop
    BY <1>1 DEF CallFails, Forget, Promise!Stop, Promise!numbers, Promise!NoStep, Stage
  <2>2. QED
    BY <2>1 DEF Promise!Next
<1>2. CASE Stop
  <2>1. CASE pc = "recovering"
    BY <1>2, <2>1 DEF Stop, Forget, IInv, CurrentStep, Promise!vars, Stage
  <2>2. CASE pc # "recovering"
    <3>1. Stage \notin {"down", "ended"}
      BY <1>2, <2>2 DEF Stop, IInv, TypeOK, Stage
    <3>2. Promise!Stop
      BY <1>2, <3>1 DEF Stop, Forget, Promise!Stop, Promise!numbers, Promise!NoStep, Stage
    <3>3. QED
      BY <3>2 DEF Promise!Next
  <2>3. QED
    BY <2>1, <2>2
<1>3. CASE Recover
  BY <1>3 DEF Recover, Promise!vars, Stage
<1>4. CASE Resume
  <2>1. CASE writers = {}
    <3>1. Promise!Restart
      BY <1>4, <2>1 DEF Resume, Promise!Restart, Promise!numbers, Stage
    <3>2. QED
      BY <3>1 DEF Promise!Next
  <2>2. CASE writers # {}
    BY <1>4, <2>2 DEF Resume, Promise!vars, Stage
  <2>3. QED
    BY <2>1, <2>2
<1>5. QED
  BY <1>1, <1>2, <1>3, <1>4 DEF Interrupt

\* The dispatcher, the queue, the runner processes and the crashes together do
\* what StepPromise says: every step of theirs is a step of it or changes
\* nothing it sees.
THEOREM ImplementsPromise == Spec => PromiseKept
<1>1. Init => Promise!Init
  BY PromiseInit
<1>2. IInv /\ AgentsAreStarted /\ [Next]_vars => [Promise!Next]_(Promise!vars)
  <2> SUFFICES ASSUME IInv, AgentsAreStarted, [Next]_vars
               PROVE  [Promise!Next]_(Promise!vars)
    OBVIOUS
  <2>1. CASE Coordinate
    BY <2>1, CoordinatePromised
  <2>2. CASE Interrupt
    BY <2>2, InterruptPromised
  <2>3. CASE \E d \in Dispatches : Work(d)
    BY <2>3, WorkPromised
  <2>4. CASE UNCHANGED vars
    BY <2>4 DEF vars, Promise!vars, Stage
  <2>5. QED
    BY <2>1, <2>2, <2>3, <2>4 DEF Next
<1>3. QED
  BY <1>1, <1>2, Invariance, AgentsStarted, PTL DEF Spec, PromiseKept, Promise!Spec
=============================================================================
