------------------------ MODULE CommandSystemProofs ------------------------
(***************************************************************************)
(* Theorems about CommandSystem, for any set of clusters, commands and     *)
(* Server goroutines and any bounds.                                       *)
(***************************************************************************)
EXTENDS CommandSystem, TLAPS

\* The state NewStore and the Agents start with has the right types.
LEMMA TypeInit == Init => TypeOK
  BY BoundAssumption, FaultAssumption DEF Init, BrokerInit, AgentInit, TypeOK, BrokerTypeOK, AgentTypeOK, PollStates,
         LoopStates, IdleLoop, NoTask, CallStates, ProbeStates, UploadStates

\* A step of a call keeps the types of the Server's state.
LEMMA CallType ==
  ASSUME BrokerTypeOK, NEW c \in Commands,
         \/ EnvoyConfig(c) \/ CreateProbe(c) \/ ExecuteProbeCommand(c)
         \/ Enqueue(c) \/ EnqueueFails(c)
         \/ WaitCanceled(c) \/ WaitTimedOut(c) \/ ReceiveResult(c)
         \/ FinishProbe(c) \/ Close(c)
         \/ ClientDisconnects(c) \/ DeadlinePasses(c)
  PROVE  BrokerTypeOK'
<1> USE DEF BrokerTypeOK, CallStates, Active, ProbeStates, HTTPCommands, ObserveCommands
<1>1. CASE EnvoyConfig(c)
  BY <1>1 DEF EnvoyConfig, Register
<1>2. CASE CreateProbe(c)
  BY <1>2 DEF CreateProbe, Register, DiscoverTargets, ObserversOf
<1>3. CASE ExecuteProbeCommand(c)
  BY <1>3 DEF ExecuteProbeCommand, Register
<1>4. CASE Enqueue(c)
  <2>1. queue' \in [Clusters -> Seq(Commands)]
    <3>1. ClusterOf[c] \in Clusters
      BY ClusterAssumption
    <3>2. Append(queue[ClusterOf[c]], c) \in Seq(Commands)
      BY <3>1
    <3> QED BY <1>4, <3>2 DEF Enqueue
  <2> QED BY <1>4, <2>1 DEF Enqueue
<1>5. ASSUME NEW why \in Failures, GiveUp(c, why) PROVE BrokerTypeOK'
  BY <1>5 DEF GiveUp, FailProbe
<1>6. CASE EnqueueFails(c)
  BY <1>5, <1>6 DEF EnqueueFails, Failures
<1>7. CASE WaitCanceled(c)
  BY <1>5, <1>7 DEF WaitCanceled, Failures
<1>8. CASE WaitTimedOut(c)
  BY <1>5, <1>8 DEF WaitTimedOut, Failures
<1>9. CASE ReceiveResult(c)
  BY <1>9 DEF ReceiveResult, ProbeAfter
<1>10. CASE FinishProbe(c)
  BY <1>10 DEF FinishProbe
<1>11. CASE Close(c)
  BY <1>11 DEF Close
<1>12. CASE ClientDisconnects(c)
  BY <1>12 DEF ClientDisconnects
<1>13. CASE DeadlinePasses(c)
  BY <1>13 DEF DeadlinePasses, callVars
<1> QED BY <1>1, <1>2, <1>3, <1>4, <1>6, <1>7, <1>8, <1>9, <1>10, <1>11, <1>12, <1>13

\* A step of a poll keeps the types of the Server's state.
LEMMA PollType ==
  ASSUME BrokerTypeOK, NEW h \in Handlers,
         \/ \E k \in Clusters : NextAgentCommand(h, k)
         \/ PollTake(h) \/ PollCheck(h) \/ PollTimer(h)
         \/ PollAbandoned(h) \/ PollDiscarded(h) \/ PollAnswered(h)
  PROVE  BrokerTypeOK'
<1> USE DEF BrokerTypeOK, PollStates, FreeHandler, Handler, callVars
<1>1. CASE \E k \in Clusters : NextAgentCommand(h, k)
  BY <1>1 DEF NextAgentCommand
<1>2. CASE PollTake(h)
  <2>1. poll[h].cluster \in Clusters /\ poll[h].live \in BOOLEAN
    BY <1>2 DEF PollTake
  <2>2. /\ Head(queue[poll[h].cluster]) \in Commands
        /\ Tail(queue[poll[h].cluster]) \in Seq(Commands)
    BY <1>2, <2>1 DEF PollTake
  <2>3. queue' \in [Clusters -> Seq(Commands)]
    BY <1>2, <2>2 DEF PollTake
  <2>4. poll' \in [Handlers -> PollStates]
    BY <1>2, <2>1, <2>2 DEF PollTake
  <2> QED BY <1>2, <2>3, <2>4 DEF PollTake
<1>3. CASE PollCheck(h)
  <2>1. poll[h].cluster \in Clusters /\ poll[h].live \in BOOLEAN /\ poll[h].cmd \in Commands
    BY <1>3 DEF PollCheck
  <2> QED BY <1>3, <2>1 DEF PollCheck
<1>4. CASE PollTimer(h)
  <2>1. poll[h].cluster \in Clusters /\ poll[h].live \in BOOLEAN
    BY <1>4 DEF PollTimer
  <2> QED BY <1>4, <2>1 DEF PollTimer
<1>5. CASE PollAbandoned(h)
  <2>1. Handler(poll[h].pc, poll[h].cluster, poll[h].cmd, FALSE) \in PollStates
    BY <1>5 DEF PollAbandoned
  <2> QED BY <1>5, <2>1 DEF PollAbandoned
<1>6. CASE PollDiscarded(h)
  BY <1>6 DEF PollDiscarded
<1>7. CASE PollAnswered(h)
  BY <1>7 DEF PollAnswered
<1> QED BY <1>1, <1>2, <1>3, <1>4, <1>5, <1>6, <1>7

\* So does a step of CompleteAgentCommand.
LEMMA UploadType ==
  ASSUME BrokerTypeOK, NEW c \in Commands, NEW a,
         \/ UploadArrives(c, a) \/ CompleteLookup(c, a)
         \/ \E r \in Results \cup {None} : CompleteSend(c, a, r)
         \/ CompleteCanceled(c, a)
  PROVE  BrokerTypeOK'
<1> USE DEF BrokerTypeOK, UploadStates, callVars
<1>1. CASE UploadArrives(c, a)
  BY <1>1 DEF UploadArrives
<1>2. CASE CompleteLookup(c, a)
  BY <1>2 DEF CompleteLookup
<1>3. CASE \E r \in Results \cup {None} : CompleteSend(c, a, r)
  <2>1. PICK r \in Results \cup {None} : CompleteSend(c, a, r)
    BY <1>3
  <2>2. chan' \in [Commands -> Results \cup {None}]
    BY <2>1 DEF CompleteSend
  <2>3. upload' \in [Commands -> [Attempts -> UploadStates]]
    BY <2>1 DEF CompleteSend
  <2> QED BY <2>1, <2>2, <2>3 DEF CompleteSend
<1>4. CASE CompleteCanceled(c, a)
  BY <1>4 DEF CompleteCanceled
<1> QED BY <1>1, <1>2, <1>3, <1>4

\* A step of an Agent's loop keeps the types of the Agents' state.
LEMMA LoopType ==
  ASSUME AgentTypeOK, NEW k \in Clusters,
         \/ CommandsStart(k) \/ BeginPoll(k) \/ EndPoll(k)
         \/ \E c \in Commands : NextCommand(k, c)
         \/ Dispatch(k) \/ AgentCrash(k)
  PROVE  AgentTypeOK'
<1> USE DEF AgentTypeOK, LoopStates, IdleLoop, EndedTask
<1>1. CASE CommandsStart(k)
  BY <1>1 DEF CommandsStart
<1>2. CASE BeginPoll(k)
  BY <1>2 DEF BeginPoll
<1>3. CASE EndPoll(k)
  BY <1>3 DEF EndPoll
<1>4. ASSUME NEW c \in Commands, NextCommand(k, c) PROVE AgentTypeOK'
  <2>1. CASE UNCHANGED <<task, executed>>
    BY <1>4, <2>1 DEF NextCommand
  <2>2. CASE BeginTask(c)
    <3>1. loop' \in [Clusters -> LoopStates]
      BY <1>4 DEF NextCommand
    <3> QED BY <1>4, <2>2, <3>1, BoundAssumption DEF NextCommand, BeginTask
  <2> QED BY <1>4, <2>1, <2>2 DEF NextCommand
<1>5. CASE Dispatch(k)
  BY <1>5, BoundAssumption DEF Dispatch, BeginTask
<1>6. CASE AgentCrash(k)
  BY <1>6, BoundAssumption DEF AgentCrash
<1> QED BY <1>1, <1>2, <1>3, <1>4, <1>5, <1>6

\* So does a step of a task.
LEMMA TaskType ==
  ASSUME AgentTypeOK, NEW c \in Commands,
         \/ \E r \in Results : ExecuteCommand(c, r)
         \/ SendCommandResult(c) \/ UploadSucceeds(c) \/ UploadFails(c)
  PROVE  AgentTypeOK'
<1> USE DEF AgentTypeOK, EndedTask
<1>1. CASE \E r \in Results : ExecuteCommand(c, r)
  BY <1>1, BoundAssumption DEF ExecuteCommand
<1>2. CASE SendCommandResult(c)
  BY <1>2 DEF SendCommandResult
<1>3. EndTask(c) => /\ task' \in [Commands -> [pc : {"none", "executing", "uploading", "awaiting", "done"},
                                              attempt : 0..MaxAttempts]]
                    /\ loop' \in [Clusters -> LoopStates]
  BY BoundAssumption DEF EndTask, LoopStates, IdleLoop
<1>4. CASE UploadSucceeds(c)
  BY <1>3, <1>4 DEF UploadSucceeds
<1>5. CASE UploadFails(c)
  <2>1. CASE EndTask(c)
    BY <1>3, <1>5, <2>1 DEF UploadFails
  <2>2. CASE /\ task[c].attempt < MaxAttempts
             /\ task' = [task EXCEPT ![c] = [pc |-> "uploading", attempt |-> @.attempt + 1]]
             /\ UNCHANGED loop
    <3>1. task[c].attempt + 1 \in 0..MaxAttempts
      BY <2>2, BoundAssumption
    <3> QED BY <1>5, <2>2, <3>1 DEF UploadFails
  <2> QED BY <1>5, <2>1, <2>2 DEF UploadFails
<1> QED BY <1>1, <1>2, <1>4, <1>5

\* Every step, alone or shared by the Server and an Agent, keeps all types.
LEMMA TypeNext == TypeOK /\ [Next]_vars => TypeOK'
<1> SUFFICES ASSUME TypeOK, [Next]_vars PROVE TypeOK'
  OBVIOUS
<1> USE DEF TypeOK
<1>a. UNCHANGED agentVars => AgentTypeOK'
  BY DEF AgentTypeOK, agentVars
<1>b. UNCHANGED brokerVars => BrokerTypeOK'
  BY DEF BrokerTypeOK, brokerVars
<1>c. UNCHANGED faultVars => /\ agentCrashes' \in 0..MaxAgentCrashes
                             /\ serverRestarts' \in 0..MaxServerRestarts
  BY DEF faultVars
<1>1. ASSUME NEW c \in Commands, CallStep(c) PROVE TypeOK'
  BY <1>1, <1>a, <1>c, CallType DEF CallStep
<1>2. ASSUME NEW c \in Commands, TaskStep(c) PROVE TypeOK'
  BY <1>2, <1>b, <1>c, TaskType, ResultAssumption DEF TaskStep, ResultsOf
<1>3. ASSUME NEW c \in Commands, SendResult(c) PROVE TypeOK'
  BY <1>3, <1>c, TaskType, UploadType DEF SendResult
<1>4. ASSUME NEW c \in Commands, AcknowledgeResult(c) PROVE TypeOK'
  BY <1>4, <1>b, <1>c, TaskType DEF AcknowledgeResult
<1>5. ASSUME NEW c \in Commands, LoseResult(c) PROVE TypeOK'
  BY <1>5, <1>b, <1>c, TaskType DEF LoseResult
<1>6. ASSUME NEW c \in Commands, NEW a \in Attempts, UploadStep(c, a) PROVE TypeOK'
  <2>1. result[c] \in Results \cup {None}
    BY DEF AgentTypeOK
  <2> QED BY <1>6, <1>a, <1>c, <2>1, UploadType DEF UploadStep
<1>7. ASSUME NEW h \in Handlers, PollStep(h) PROVE TypeOK'
  BY <1>7, <1>a, <1>c, PollType DEF PollStep
<1>8. ASSUME NEW k \in Clusters, AgentStep(k) PROVE TypeOK'
  BY <1>8, <1>b, <1>c, LoopType DEF AgentStep
<1>9. ASSUME NEW k \in Clusters, SendOnce(k) PROVE TypeOK'
  <2>1. BrokerTypeOK'
    BY <1>9 DEF SendOnce, ReceiveSnapshot, BrokerTypeOK, callVars
  <2> QED BY <1>9, <1>a, <1>c, <2>1, LoopType DEF SendOnce
<1>10. ASSUME NEW k \in Clusters, CrashAgent(k) PROVE TypeOK'
  <2>1. BrokerTypeOK'
    <3>1. ASSUME NEW h \in Handlers PROVE poll'[h] \in PollStates
      <4>1. poll[h] \in PollStates
        BY DEF BrokerTypeOK
      <4>2. poll'[h] = IF poll[h].cluster = k
                       THEN Handler(poll[h].pc, k, poll[h].cmd, FALSE) ELSE poll[h]
        BY <1>10 DEF CrashAgent
      <4> QED BY <4>1, <4>2, NoneAssumption DEF PollStates, FreeHandler, Handler
    <3>2. poll' \in [Handlers -> PollStates]
      BY <1>10, <3>1 DEF CrashAgent
    <3> QED BY <1>10, <3>2 DEF CrashAgent, BrokerTypeOK, callVars
  <2>2. AgentTypeOK'
    BY <1>10, LoopType DEF CrashAgent
  <2> QED BY <1>10, <2>1, <2>2, FaultAssumption DEF CrashAgent
<1>11. ASSUME NEW k \in Clusters, NEW h \in Handlers, StartPoll(k, h) PROVE TypeOK'
  BY <1>11, <1>c, LoopType, PollType DEF StartPoll
<1>12. ASSUME NEW k \in Clusters, NEW h \in Handlers, DeliverCommand(k, h) PROVE TypeOK'
  <2>1. poll[h].cmd \in Commands
    <3>1. poll[h] \in PollStates /\ poll[h].pc = "reply"
      BY <1>12 DEF DeliverCommand, BrokerTypeOK
    <3> QED BY <3>1 DEF PollStates, FreeHandler, Handler
  <2> QED BY <1>12, <1>c, <2>1, LoopType, PollType DEF DeliverCommand
<1>13. ASSUME NEW k \in Clusters, NEW h \in Handlers, DeliverNothing(k, h) PROVE TypeOK'
  BY <1>13, <1>c, LoopType, PollType DEF DeliverNothing
<1>14. ASSUME NEW k \in Clusters, NEW h \in Handlers, LosePoll(k, h) PROVE TypeOK'
  BY <1>14, <1>c, LoopType, PollType DEF LosePoll
<1>15. CASE RestartServer
  <2>1. BrokerTypeOK'
    BY <1>15 DEF RestartServer, BrokerRestart, BrokerTypeOK, PollStates, CallStates,
                 ProbeStates, UploadStates
  <2>2. AgentTypeOK'
    BY <1>15 DEF RestartServer, PollsFail, AgentTypeOK, LoopStates, IdleLoop
  <2> QED BY <1>15, <2>1, <2>2, FaultAssumption DEF RestartServer
<1>16. CASE UNCHANGED vars
  BY <1>16, <1>a, <1>b, <1>c DEF vars
<1> QED BY <1>1, <1>2, <1>3, <1>4, <1>5, <1>6, <1>7, <1>8, <1>9, <1>10, <1>11,
           <1>12, <1>13, <1>14, <1>15, <1>16 DEF Next

\* Every variable keeps its type; in particular a goroutine that serves a poll
\* knows its cluster, and a command is held only by one that took it.
THEOREM TypeCorrect == Spec => []TypeOK
  BY TypeInit, TypeNext, PTL DEF Spec

-----------------------------------------------------------------------------
(* A command is in one place                                               *)

\* At the start no command has been sent.
LEMMA OnePlaceInit == Init => OnePlace
<1> SUFFICES ASSUME Init PROVE OnePlace
  OBVIOUS
<1>1. \A k \in Clusters : queue[k] = <<>>
  BY DEF Init, BrokerInit
<1>2. \A d \in Commands : ~Queued(d) /\ ~Held(d) /\ ~Looped(d) /\ Untouched(d)
  BY <1>1, ClusterAssumption
     DEF Init, BrokerInit, AgentInit, Queued, Held, Looped, Holds, AtLoop, Untouched,
         NoTask, IdleLoop, FreeHandler, Handler
<1>3. QueueDistinct /\ QueueOwn
  BY <1>1 DEF QueueDistinct, QueueOwn
<1>4. HeldOnce /\ HeldOwn /\ LoopedOwn
  BY <1>2 DEF HeldOnce, HeldOwn, LoopedOwn, Held, Looped
<1>5. ExecutedWithTask
  BY <1>2 DEF ExecutedWithTask, Init, AgentInit
<1>6. TargetsObserve /\ ObserversWait
  BY DEF TargetsObserve, ObserversWait, Init, BrokerInit, ObserveCommands
<1> QED BY <1>2, <1>3, <1>4, <1>5, <1>6
        DEF OnePlace, QueuedIsElsewhereNot, HeldIsElsewhereNot, LoopedIsUntouched, NotYetSent

\* Where a command is depends on the queues, polls, loops and tasks only.
LEMMA PlacesKept ==
  ASSUME OnePlace, UNCHANGED <<queue, poll, loop, task, executed>>
  PROVE  /\ QueueDistinct' /\ QueueOwn' /\ QueuedIsElsewhereNot'
         /\ HeldIsElsewhereNot' /\ HeldOnce' /\ HeldOwn'
         /\ LoopedIsUntouched' /\ LoopedOwn' /\ ExecutedWithTask'
         /\ \A d \in Commands : /\ Queued(d)' <=> Queued(d)
                                /\ Held(d)' <=> Held(d)
                                /\ Looped(d)' <=> Looped(d)
                                /\ Untouched(d)' <=> Untouched(d)
  BY DEF OnePlace, QueueDistinct, QueueOwn, QueuedIsElsewhereNot, HeldIsElsewhereNot,
         HeldOnce, HeldOwn, LoopedIsUntouched, LoopedOwn, ExecutedWithTask,
         Queued, Held, Looped, Holds, AtLoop, Untouched

\* A step of a call that sends nothing moves no command.
LEMMA CallKeepsPlace ==
  ASSUME TypeOK, OnePlace, NEW c \in Commands,
         \/ EnvoyConfig(c) \/ CreateProbe(c) \/ ExecuteProbeCommand(c)
         \/ EnqueueFails(c) \/ WaitCanceled(c) \/ WaitTimedOut(c) \/ ReceiveResult(c)
         \/ FinishProbe(c) \/ Close(c) \/ ClientDisconnects(c) \/ DeadlinePasses(c),
         UNCHANGED agentVars
  PROVE  OnePlace'
<1>1. UNCHANGED <<queue, poll, loop, task, executed>>
  BY DEF EnvoyConfig, CreateProbe, ExecuteProbeCommand, EnqueueFails, WaitCanceled,
         WaitTimedOut, GiveUp, ReceiveResult, FinishProbe, Close, ClientDisconnects,
         DeadlinePasses, Register, agentVars
<1> DEFINE NotSent(d) == ~Queued(d) /\ ~Held(d) /\ ~Looped(d) /\ Untouched(d)
<1>2. \A d \in Commands : NotSent(d)' <=> NotSent(d)
  BY <1>1, PlacesKept
<1>3. \A d \in Commands : call[d] \in {"idle", "spawned", "registered"} => NotSent(d)
  BY DEF OnePlace, NotYetSent
<1> HIDE DEF NotSent
<1>4. SUFFICES /\ \A d \in Commands : call'[d] \in {"idle", "spawned", "registered"} => NotSent(d)
               /\ TargetsObserve' /\ ObserversWait'
  BY <1>1, <1>2, PlacesKept DEF OnePlace, NotYetSent, NotSent
<1> USE DEF OnePlace, TargetsObserve, ObserversWait, HTTPCommands, ObserveCommands
<1>5. call \in [Commands -> CallStates] /\ targets \in [HTTPCommands -> SUBSET ObserveCommands]
  BY DEF TypeOK, BrokerTypeOK
<1>6. \A o \in ObserveCommands : SourceOf[o] \in HTTPCommands
  BY SourceAssumption
<1>7. CASE EnvoyConfig(c)
  BY <1>3, <1>5, <1>6, <1>7 DEF EnvoyConfig, Register
<1>8. CASE CreateProbe(c)
  BY <1>3, <1>5, <1>6, <1>8 DEF CreateProbe, Register, DiscoverTargets
<1>9. CASE ExecuteProbeCommand(c)
  BY <1>3, <1>5, <1>6, <1>9 DEF ExecuteProbeCommand, Register
<1>10. CASE call[c] \in {"registered", "waiting"} /\ \E why : GiveUp(c, why)
  BY <1>3, <1>5, <1>6, <1>10 DEF GiveUp
<1>11. CASE EnqueueFails(c) \/ WaitCanceled(c) \/ WaitTimedOut(c)
  BY <1>10, <1>11 DEF EnqueueFails, WaitCanceled, WaitTimedOut
<1>12. CASE ReceiveResult(c)
  <2>1. CASE Observes(c, chan[c])
    <3>1. c \in HTTPCommands /\ targets[c] \subseteq ObserversOf(c)
      BY <2>1 DEF Observes
    <3>2. \A d \in targets[c] : d \in ObserveCommands /\ SourceOf[d] = c /\ call[d] = "idle"
      BY <1>12, <3>1 DEF ReceiveResult, ObserversOf
    <3>3. /\ call'[c] = "observing"
          /\ \A d \in targets[c] : call'[d] = "spawned"
          /\ \A d \in Commands \ ({c} \cup targets[c]) : call'[d] = call[d]
      BY <1>12, <2>1, <3>1, <3>2 DEF ReceiveResult
    <3>4. targets' = targets
      BY <1>12 DEF ReceiveResult
    <3> QED BY <1>3, <1>5, <1>6, <3>1, <3>2, <3>3, <3>4
  <2>2. CASE ~Observes(c, chan[c])
    <3>1. /\ call[c] = "waiting" /\ call'[c] = "returning" /\ targets' = targets
          /\ \A d \in Commands \ {c} : call'[d] = call[d]
      BY <1>12, <2>2 DEF ReceiveResult
    <3> QED BY <1>3, <1>5, <1>6, <3>1
  <2> QED BY <2>1, <2>2
<1>13. CASE FinishProbe(c)
  BY <1>3, <1>5, <1>6, <1>13 DEF FinishProbe
<1>14. CASE Close(c)
  BY <1>3, <1>5, <1>6, <1>14 DEF Close
<1>15. CASE ClientDisconnects(c)
  BY <1>3, <1>5, <1>6, <1>15 DEF ClientDisconnects
<1>16. CASE DeadlinePasses(c)
  BY <1>3, <1>5, <1>6, <1>16 DEF DeadlinePasses, callVars
<1> QED BY <1>7, <1>8, <1>9, <1>11, <1>12, <1>13, <1>14, <1>15, <1>16

\* Enqueue moves c from the call to the end of its cluster's queue.
LEMMA EnqueueKeepsPlace ==
  ASSUME TypeOK, OnePlace, NEW c \in Commands, Enqueue(c), UNCHANGED agentVars
  PROVE  OnePlace'
<1> DEFINE kc == ClusterOf[c]
<1>1. kc \in Clusters /\ queue \in [Clusters -> Seq(Commands)]
  BY ClusterAssumption DEF TypeOK, BrokerTypeOK
<1>2. queue' = [queue EXCEPT ![kc] = Append(queue[kc], c)] /\ UNCHANGED <<poll, loop, task, executed>>
  BY DEF Enqueue, agentVars
<1>3. ~Queued(c) /\ ~Held(c) /\ ~Looped(c) /\ Untouched(c)
  BY DEF Enqueue, OnePlace, NotYetSent
<1>4. /\ DOMAIN queue'[kc] = 1..(Len(queue[kc]) + 1)
      /\ DOMAIN queue[kc] = 1..Len(queue[kc]) /\ Len(queue[kc]) \in Nat
      /\ \A i \in 1..Len(queue[kc]) : queue'[kc][i] = queue[kc][i]
      /\ queue'[kc][Len(queue[kc]) + 1] = c
  BY <1>1, <1>2
<1>5. \A k \in Clusters \ {kc} : queue'[k] = queue[k]
  BY <1>1, <1>2
<1>6. \A i \in DOMAIN queue[kc] : queue[kc][i] # c
  BY <1>3 DEF Queued
<1>7. QueueDistinct'
  <2>1. ASSUME NEW i \in DOMAIN queue'[kc], NEW j \in DOMAIN queue'[kc],
               queue'[kc][i] = queue'[kc][j]
        PROVE  i = j
    BY <1>1, <1>4, <1>6, <2>1 DEF OnePlace, QueueDistinct
  <2>2. ASSUME NEW k \in Clusters \ {kc}, NEW i \in DOMAIN queue'[k], NEW j \in DOMAIN queue'[k],
               queue'[k][i] = queue'[k][j]
        PROVE  i = j
    BY <1>5, <2>2 DEF OnePlace, QueueDistinct
  <2> HIDE DEF kc
  <2> QED BY <2>1, <2>2 DEF QueueDistinct
<1>8. QueueOwn'
  <2>1. \A i \in DOMAIN queue'[kc] : ClusterOf[queue'[kc][i]] = kc
    BY <1>1, <1>4 DEF OnePlace, QueueOwn
  <2>2. ASSUME NEW k \in Clusters \ {kc} PROVE \A i \in DOMAIN queue'[k] : ClusterOf[queue'[k][i]] = k
    BY <1>5 DEF OnePlace, QueueOwn
  <2> HIDE DEF kc
  <2> QED BY <2>1, <2>2 DEF QueueOwn
<1>9. \A d \in Commands : Queued(d)' => Queued(d) \/ d = c
  BY <1>4, <1>5, ClusterAssumption DEF Queued
<1>10. \A d \in Commands : /\ Held(d)' <=> Held(d)
                           /\ Looped(d)' <=> Looped(d)
                           /\ Untouched(d)' <=> Untouched(d)
  BY <1>2 DEF Held, Looped, Holds, AtLoop, Untouched
<1>11. /\ HeldIsElsewhereNot' /\ HeldOnce' /\ HeldOwn'
       /\ LoopedIsUntouched' /\ LoopedOwn' /\ ExecutedWithTask'
  BY <1>2, <1>10 DEF OnePlace, HeldIsElsewhereNot, HeldOnce, HeldOwn, LoopedIsUntouched,
     LoopedOwn, ExecutedWithTask, Holds, AtLoop
<1>12. QueuedIsElsewhereNot'
  BY <1>3, <1>9, <1>10 DEF OnePlace, QueuedIsElsewhereNot
<1>13. /\ call' = [call EXCEPT ![c] = "waiting"] /\ targets' = targets
       /\ call[c] = "registered" /\ call \in [Commands -> CallStates]
  BY DEF Enqueue, TypeOK, BrokerTypeOK
<1>14. NotYetSent'
  BY <1>9, <1>10, <1>13 DEF OnePlace, NotYetSent
<1>15. TargetsObserve' /\ ObserversWait'
  BY <1>13, SourceAssumption DEF OnePlace, TargetsObserve, ObserversWait, HTTPCommands, ObserveCommands
<1> QED BY <1>7, <1>8, <1>11, <1>12, <1>14, <1>15 DEF OnePlace

\* PollTake moves the head of a queue to the goroutine that took it, or drops it.
LEMMA TakeKeepsPlace ==
  ASSUME TypeOK, OnePlace, NEW h \in Handlers, PollTake(h), UNCHANGED agentVars
  PROVE  OnePlace'
<1> DEFINE kh == poll[h].cluster
<1>1. kh \in Clusters
  BY DEF PollTake, TypeOK, BrokerTypeOK, PollStates, FreeHandler, Handler
<1>2. queue[kh] \in Seq(Commands) /\ queue[kh] # <<>> /\ queue \in [Clusters -> Seq(Commands)]
  BY <1>1 DEF PollTake, TypeOK, BrokerTypeOK
<1>a. PICK c \in Commands : c = Head(queue[kh])
  BY <1>2
<1>3. queue' = [queue EXCEPT ![kh] = Tail(queue[kh])] /\ UNCHANGED <<loop, task, executed, call, targets>>
  BY DEF PollTake, callVars, agentVars
<1>4. /\ DOMAIN queue'[kh] = 1..(Len(queue[kh]) - 1)
      /\ DOMAIN queue[kh] = 1..Len(queue[kh]) /\ Len(queue[kh]) \in Nat \ {0}
      /\ \A i \in DOMAIN queue'[kh] : queue'[kh][i] = queue[kh][i + 1]
      /\ c = queue[kh][1]
  BY <1>1, <1>2, <1>3, <1>a
<1>5. \A k \in Clusters \ {kh} : queue'[k] = queue[k]
  BY <1>1, <1>2, <1>3
<1>6. ClusterOf[c] = kh /\ Queued(c)
  BY <1>1, <1>4 DEF OnePlace, QueueOwn, Queued
<1>7. QueueDistinct'
  <2>1. ASSUME NEW i \in DOMAIN queue'[kh], NEW j \in DOMAIN queue'[kh],
               queue'[kh][i] = queue'[kh][j]
        PROVE  i = j
    <3>1. /\ i + 1 \in DOMAIN queue[kh] /\ j + 1 \in DOMAIN queue[kh]
          /\ i \in Nat /\ j \in Nat
      BY <1>4
    <3>2. queue[kh][i + 1] = queue[kh][j + 1]
      BY <1>4, <2>1
    <3>3. i + 1 = j + 1
      BY <1>1, <3>1, <3>2 DEF OnePlace, QueueDistinct
    <3> QED BY <3>1, <3>3
  <2>2. ASSUME NEW k \in Clusters \ {kh}, NEW i \in DOMAIN queue'[k], NEW j \in DOMAIN queue'[k],
               queue'[k][i] = queue'[k][j]
        PROVE  i = j
    BY <1>5, <2>2 DEF OnePlace, QueueDistinct
  <2> HIDE DEF kh
  <2> QED BY <2>1, <2>2 DEF QueueDistinct
<1>8. QueueOwn'
  <2>1. ASSUME NEW i \in DOMAIN queue'[kh] PROVE ClusterOf[queue'[kh][i]] = kh
    <3>1. i + 1 \in DOMAIN queue[kh]
      BY <1>4
    <3> QED BY <1>1, <1>4, <3>1 DEF OnePlace, QueueOwn
  <2>2. ASSUME NEW k \in Clusters \ {kh} PROVE \A i \in DOMAIN queue'[k] : ClusterOf[queue'[k][i]] = k
    BY <1>5 DEF OnePlace, QueueOwn
  <2> HIDE DEF kh
  <2> QED BY <2>1, <2>2 DEF QueueOwn
<1>9. \A d \in Commands : Queued(d)' => Queued(d)
  <2> SUFFICES ASSUME NEW d \in Commands, Queued(d)' PROVE Queued(d)
    OBVIOUS
  <2>1. PICK i \in DOMAIN queue'[ClusterOf[d]] : queue'[ClusterOf[d]][i] = d
    BY DEF Queued
  <2>2. CASE ClusterOf[d] = kh
    <3>1. i \in DOMAIN queue'[kh] /\ queue'[kh][i] = d
      BY <2>1, <2>2
    <3>2. i + 1 \in DOMAIN queue[kh] /\ queue[kh][i + 1] = d
      BY <1>4, <3>1
    <3> QED BY <2>2, <3>2 DEF Queued
  <2>3. CASE ClusterOf[d] # kh
    BY <1>5, <2>1, <2>3, ClusterAssumption DEF Queued
  <2> QED BY <2>2, <2>3
<1>10. ~Queued(c)'
  <2>1. ASSUME NEW i \in DOMAIN queue'[kh], queue'[kh][i] = c PROVE FALSE
    <3>1. i + 1 \in DOMAIN queue[kh] /\ 1 \in DOMAIN queue[kh] /\ i + 1 # 1
      BY <1>4
    <3>2. queue[kh][i + 1] = queue[kh][1]
      BY <1>4, <2>1
    <3> QED BY <1>1, <3>1, <3>2 DEF OnePlace, QueueDistinct
  <2> QED BY <1>6, <2>1 DEF Queued
<1>11. /\ poll' = poll \/ poll' = [poll EXCEPT ![h] = Handler("popped", kh, c, poll[h].live)]
       /\ poll[h].pc = "select" /\ poll \in [Handlers -> PollStates]
  BY <1>a DEF PollTake, TypeOK, BrokerTypeOK
<1> HIDE DEF kh
<1>12. \A d \in Commands, g \in Handlers : Holds(g, d)' => Holds(g, d) \/ (g = h /\ d = c)
  BY <1>11 DEF Holds, Handler
<1>13. \A d \in Commands : /\ Held(d)' => Held(d) \/ d = c
                           /\ Looped(d)' <=> Looped(d)
                           /\ Untouched(d)' <=> Untouched(d)
  BY <1>3, <1>12 DEF Held, Looped, AtLoop, Untouched
<1>14. ~Held(c) /\ ~Looped(c) /\ Untouched(c)
  BY <1>4, <1>6 DEF OnePlace, QueuedIsElsewhereNot
<1>15. QueuedIsElsewhereNot' /\ HeldIsElsewhereNot'
  BY <1>9, <1>10, <1>13, <1>14 DEF OnePlace, QueuedIsElsewhereNot, HeldIsElsewhereNot
<1>16. HeldOnce'
  BY <1>12, <1>14 DEF OnePlace, HeldOnce, Held
<1>17. HeldOwn'
  BY <1>6, <1>11, <1>12 DEF OnePlace, HeldOwn, Holds, Handler
<1>18. LoopedIsUntouched' /\ LoopedOwn' /\ ExecutedWithTask'
  BY <1>3, <1>13 DEF OnePlace, LoopedIsUntouched, LoopedOwn, ExecutedWithTask, AtLoop
<1>19. NotYetSent'
  BY <1>3, <1>4, <1>6, <1>9, <1>13 DEF OnePlace, NotYetSent
<1>20. TargetsObserve' /\ ObserversWait'
  BY <1>3 DEF OnePlace, TargetsObserve, ObserversWait
<1> QED BY <1>7, <1>8, <1>15, <1>16, <1>17, <1>18, <1>19, <1>20 DEF OnePlace

\* The queues and calls stay as they are, and nothing begins.
LEMMA QueuesKept ==
  ASSUME OnePlace, UNCHANGED <<queue, executed, call, targets>>,
         \A d \in Commands : Untouched(d)' <=> Untouched(d)
  PROVE  /\ QueueDistinct' /\ QueueOwn' /\ ExecutedWithTask' /\ TargetsObserve' /\ ObserversWait'
         /\ \A d \in Commands : Queued(d)' <=> Queued(d)
  BY DEF OnePlace, QueueDistinct, QueueOwn, ExecutedWithTask, TargetsObserve, ObserversWait, Queued

\* Polls and loops let go of commands, or nothing happens to these.
LEMMA LettingGoKeepsPlace ==
  ASSUME OnePlace, UNCHANGED <<queue, executed, call, targets>>,
         \A d \in Commands : Untouched(d)' <=> Untouched(d),
         \A d \in Commands, g \in Handlers :
             Holds(g, d)' => Holds(g, d) /\ poll'[g].cluster = poll[g].cluster,
         \A d \in Commands, k \in Clusters : AtLoop(k, d)' => AtLoop(k, d)
  PROVE  OnePlace'
<1>1. \A d \in Commands : (Held(d)' => Held(d)) /\ (Looped(d)' => Looped(d))
  BY DEF Held, Looped
<1>2. HeldOnce' /\ HeldOwn' /\ LoopedOwn'
  BY DEF OnePlace, HeldOnce, HeldOwn, LoopedOwn
<1>3. QueuedIsElsewhereNot' /\ HeldIsElsewhereNot' /\ LoopedIsUntouched' /\ NotYetSent'
  BY <1>1, QueuesKept DEF OnePlace, QueuedIsElsewhereNot, HeldIsElsewhereNot,
     LoopedIsUntouched, NotYetSent
<1> QED BY <1>2, <1>3, QueuesKept DEF OnePlace

\* The other steps of a poll: what it holds stays or is dropped.
LEMMA PollKeepsPlace ==
  ASSUME TypeOK, OnePlace, NEW h \in Handlers, UNCHANGED agentVars,
         PollCheck(h) \/ PollTimer(h) \/ PollDiscarded(h)
  PROVE  OnePlace'
<1>1. UNCHANGED <<queue, loop, task, executed, call, targets>>
  BY DEF PollCheck, PollTimer, PollDiscarded, callVars, agentVars
<1>2. poll \in [Handlers -> PollStates]
  BY DEF TypeOK, BrokerTypeOK
<1>3. \A g \in Handlers \ {h} : poll'[g] = poll[g]
  BY <1>2 DEF PollCheck, PollTimer, PollDiscarded
<1>4. \A d \in Commands : Holds(h, d)' => Holds(h, d) /\ poll'[h].cluster = poll[h].cluster
  BY <1>2 DEF Holds, PollCheck, PollTimer, PollDiscarded, Handler, FreeHandler
<1>5. \A d \in Commands, g \in Handlers :
         Holds(g, d)' => Holds(g, d) /\ poll'[g].cluster = poll[g].cluster
  BY <1>3, <1>4 DEF Holds
<1>6. \A d \in Commands, k \in Clusters : AtLoop(k, d)' => AtLoop(k, d)
  BY <1>1 DEF AtLoop
<1>7. \A d \in Commands : Untouched(d)' <=> Untouched(d)
  BY <1>1 DEF Untouched
<1> QED BY <1>1, <1>5, <1>6, <1>7, LettingGoKeepsPlace

\* A poll begins, ends without a command, or is given up.
LEMMA EmptyPollKeepsPlace ==
  ASSUME TypeOK, OnePlace, NEW h \in Handlers, NEW k \in Clusters,
         StartPoll(k, h) \/ DeliverNothing(k, h) \/ LosePoll(k, h)
  PROVE  OnePlace'
<1>1. UNCHANGED <<queue, task, executed, call, targets>>
  BY DEF StartPoll, BeginPoll, NextAgentCommand, DeliverNothing, PollAnswered, EndPoll,
         LosePoll, PollAbandoned, callVars
<1>2. poll \in [Handlers -> PollStates] /\ loop \in [Clusters -> LoopStates]
  BY DEF TypeOK, BrokerTypeOK, AgentTypeOK
<1>3. \A g \in Handlers \ {h} : poll'[g] = poll[g]
  BY <1>2 DEF StartPoll, NextAgentCommand, DeliverNothing, PollAnswered, LosePoll, PollAbandoned
<1>4. \A d \in Commands : Holds(h, d)' => Holds(h, d) /\ poll'[h].cluster = poll[h].cluster
  BY <1>2 DEF Holds, StartPoll, NextAgentCommand, DeliverNothing, PollAnswered, LosePoll,
              PollAbandoned, Handler, FreeHandler
<1>5. \A d \in Commands, g \in Handlers :
         Holds(g, d)' => Holds(g, d) /\ poll'[g].cluster = poll[g].cluster
  BY <1>3, <1>4 DEF Holds
<1>6. \A d \in Commands, j \in Clusters : AtLoop(j, d)' => AtLoop(j, d)
  <2>1. /\ loop' = [loop EXCEPT ![k].pc = "polling"] \/ loop' = [loop EXCEPT ![k] = IdleLoop]
    BY DEF StartPoll, BeginPoll, DeliverNothing, EndPoll, LosePoll
  <2>2. /\ loop'[k].pc # "dispatch"
        /\ \A j \in Clusters \ {k} : loop'[j] = loop[j]
    BY <1>2, <2>1 DEF IdleLoop, LoopStates
  <2> QED BY <2>2 DEF AtLoop
<1>7. \A d \in Commands : Untouched(d)' <=> Untouched(d)
  BY <1>1 DEF Untouched
<1> QED BY <1>1, <1>5, <1>6, <1>7, LettingGoKeepsPlace

\* A command that is nowhere any more begins.
LEMMA BeginKeepsPlace ==
  ASSUME TypeOK, OnePlace, NEW c \in Commands, BeginTask(c), Untouched(c),
         UNCHANGED <<queue, call, targets>>,
         call[c] \notin {"idle", "spawned", "registered"},
         LoopedOwn', HeldOnce', HeldOwn',
         ~Queued(c), ~Held(c)', ~Looped(c)',
         \A d \in Commands : (Held(d)' => Held(d)) /\ (Looped(d)' => Looped(d))
  PROVE  OnePlace'
<1>1. /\ QueueDistinct' /\ QueueOwn' /\ TargetsObserve' /\ ObserversWait'
      /\ \A d \in Commands : Queued(d)' <=> Queued(d)
  BY DEF OnePlace, QueueDistinct, QueueOwn, TargetsObserve, ObserversWait, Queued
<1>2. task' = [task EXCEPT ![c] = [pc |-> "executing", attempt |-> 0]]
      /\ executed' = [executed EXCEPT ![c] = executed[c] + 1]
      /\ DOMAIN task = Commands /\ executed \in [Commands -> Nat]
  BY DEF BeginTask, TypeOK, AgentTypeOK
<1>3. ~Untouched(c)' /\ \A d \in Commands \ {c} : Untouched(d)' <=> Untouched(d)
  BY <1>2 DEF Untouched
<1>4. ExecutedWithTask'
  <2>1. executed[c] = 0
    BY DEF OnePlace, ExecutedWithTask
  <2>2. executed'[c] = 1 /\ \A d \in Commands \ {c} : executed'[d] = executed[d]
    BY <1>2, <2>1
  <2> QED BY <1>3, <2>2 DEF OnePlace, ExecutedWithTask
<1>5. QueuedIsElsewhereNot' /\ HeldIsElsewhereNot' /\ LoopedIsUntouched'
  BY <1>1, <1>3 DEF OnePlace, QueuedIsElsewhereNot, HeldIsElsewhereNot, LoopedIsUntouched
<1>6. NotYetSent'
  BY <1>1, <1>3 DEF OnePlace, NotYetSent
<1> QED BY <1>1, <1>4, <1>5, <1>6 DEF OnePlace

\* The command of an answered poll goes to the loop, begins, or is refused.
LEMMA DeliverKeepsPlace ==
  ASSUME TypeOK, OnePlace, NEW h \in Handlers, NEW k \in Clusters, DeliverCommand(k, h)
  PROVE  OnePlace'
<1>1. UNCHANGED <<queue, call, targets>> /\ poll' = [poll EXCEPT ![h] = FreeHandler]
  BY DEF DeliverCommand, PollAnswered, callVars
<1>2. /\ poll \in [Handlers -> PollStates] /\ loop \in [Clusters -> LoopStates]
      /\ poll[h].pc = "reply" /\ poll[h].cluster = k
  BY DEF TypeOK, BrokerTypeOK, AgentTypeOK, DeliverCommand
<1>3. PICK c \in Commands : c = poll[h].cmd
  BY <1>2 DEF PollStates, FreeHandler, Handler
<1>4. Holds(h, c)
  BY <1>2, <1>3 DEF Holds
<1>5. ClusterOf[c] = k /\ ~Looped(c) /\ Untouched(c) /\ ~Queued(c)
  BY <1>2, <1>4 DEF OnePlace, HeldOwn, HeldIsElsewhereNot, QueuedIsElsewhereNot, Held
<1>6. call[c] \notin {"idle", "spawned", "registered"}
  BY <1>4 DEF OnePlace, NotYetSent, Held
<1>7. \A g \in Handlers, d \in Commands :
        Holds(g, d)' => Holds(g, d) /\ poll'[g] = poll[g] /\ g # h
  BY <1>1, <1>2 DEF Holds, FreeHandler, Handler
<1>8. ~Held(c)' /\ \A d \in Commands : Held(d)' => Held(d)
  BY <1>4, <1>7 DEF Held, OnePlace, HeldOnce
<1>9. NextCommand(k, c)
  BY <1>3 DEF DeliverCommand
<1>10. CASE UNCHANGED <<task, executed>> /\ loop' = [loop EXCEPT ![k] = IdleLoop]
  <2>1. \A d \in Commands, j \in Clusters : AtLoop(j, d)' => AtLoop(j, d)
    BY <1>2, <1>10 DEF AtLoop, IdleLoop
  <2>2. \A d \in Commands : Untouched(d)' <=> Untouched(d)
    BY <1>10 DEF Untouched
  <2> QED BY <1>1, <1>7, <1>10, <2>1, <2>2, LettingGoKeepsPlace
<1>11. CASE /\ UNCHANGED <<task, executed>>
            /\ loop' = [loop EXCEPT ![k] = [pc |-> "dispatch", cmd |-> c]]
  <2>1. \A d \in Commands, j \in Clusters : AtLoop(j, d)' => AtLoop(j, d) \/ (j = k /\ d = c)
    BY <1>2, <1>11 DEF AtLoop
  <2>2. \A d \in Commands : Looped(d)' => Looped(d) \/ d = c
    BY <2>1 DEF Looped
  <2>3. /\ QueueDistinct' /\ QueueOwn' /\ ExecutedWithTask' /\ TargetsObserve' /\ ObserversWait'
        /\ \A d \in Commands : /\ Queued(d)' <=> Queued(d)
                               /\ Untouched(d)' <=> Untouched(d)
    BY <1>1, <1>11, QueuesKept DEF Untouched
  <2>4. HeldOnce' /\ HeldOwn'
    BY <1>7 DEF OnePlace, HeldOnce, HeldOwn
  <2>5. LoopedOwn'
    BY <1>5, <2>1 DEF OnePlace, LoopedOwn
  <2>6. QueuedIsElsewhereNot' /\ HeldIsElsewhereNot' /\ LoopedIsUntouched'
    BY <1>5, <1>8, <2>2, <2>3 DEF OnePlace, QueuedIsElsewhereNot, HeldIsElsewhereNot, LoopedIsUntouched
  <2>7. NotYetSent'
    BY <1>1, <1>6, <1>8, <2>2, <2>3 DEF OnePlace, NotYetSent
  <2> QED BY <2>3, <2>4, <2>5, <2>6, <2>7 DEF OnePlace
<1>12. CASE /\ BeginTask(c)
            /\ loop' = [loop EXCEPT ![k] = [pc |-> "serial", cmd |-> c]]
  <2>1. \A d \in Commands, j \in Clusters : AtLoop(j, d)' => AtLoop(j, d)
    BY <1>2, <1>12 DEF AtLoop
  <2>2. \A d \in Commands : Looped(d)' => Looped(d)
    BY <2>1 DEF Looped
  <2>3. ~Queued(c)' /\ \A d \in Commands : Queued(d)' <=> Queued(d)
    BY <1>1, <1>5 DEF Queued
  <2>4. LoopedOwn' /\ HeldOnce' /\ HeldOwn'
    BY <1>7, <2>1 DEF OnePlace, HeldOnce, HeldOwn, LoopedOwn
  <2> QED BY <1>1, <1>5, <1>6, <1>8, <1>12, <2>2, <2>3, <2>4, BeginKeepsPlace
<1> QED BY <1>9, <1>10, <1>11, <1>12 DEF NextCommand

\* A free slot: the loop's command begins.
LEMMA DispatchKeepsPlace ==
  ASSUME TypeOK, OnePlace, NEW k \in Clusters, AgentStep(k)
  PROVE  OnePlace'
<1>1. /\ UNCHANGED <<queue, call, targets, poll>> /\ loop' = [loop EXCEPT ![k] = IdleLoop]
      /\ loop[k].pc = "dispatch" /\ loop \in [Clusters -> LoopStates]
  BY DEF AgentStep, Dispatch, brokerVars, TypeOK, AgentTypeOK
<1>2. PICK c \in Commands : c = loop[k].cmd
  BY <1>1 DEF LoopStates
<1>3. AtLoop(k, c) /\ Looped(c)
  BY <1>1, <1>2 DEF AtLoop, Looped
<1>4. ~Queued(c) /\ ~Held(c) /\ Untouched(c) /\ call[c] \notin {"idle", "spawned", "registered"}
  BY <1>3 DEF OnePlace, QueuedIsElsewhereNot, HeldIsElsewhereNot, LoopedIsUntouched, NotYetSent
<1>5. \A d \in Commands, j \in Clusters : AtLoop(j, d)' => AtLoop(j, d) /\ j # k
  BY <1>1 DEF AtLoop, IdleLoop
<1>6. ~Looped(c)' /\ \A d \in Commands : Looped(d)' => Looped(d)
  BY <1>3, <1>5 DEF Looped, OnePlace, LoopedOwn
<1>7. \A d \in Commands : (Queued(d)' <=> Queued(d)) /\ (Held(d)' <=> Held(d))
  BY <1>1 DEF Queued, Held, Holds
<1>8. LoopedOwn' /\ HeldOnce' /\ HeldOwn'
  BY <1>1, <1>5 DEF OnePlace, HeldOnce, HeldOwn, LoopedOwn, Holds
<1>9. BeginTask(c)
  BY <1>2 DEF AgentStep, Dispatch
<1> QED BY <1>1, <1>4, <1>6, <1>7, <1>8, <1>9, BeginKeepsPlace

\* A task that has begun goes on, whatever becomes of its uploads.
LEMMA TaskKeepsPlace ==
  ASSUME TypeOK, OnePlace, NEW c \in Commands,
         TaskStep(c) \/ SendResult(c) \/ AcknowledgeResult(c) \/ LoseResult(c)
  PROVE  OnePlace'
<1>1. UNCHANGED <<queue, executed, call, targets, poll>>
  BY DEF TaskStep, ExecuteCommand, SendResult, SendCommandResult, UploadArrives, AcknowledgeResult,
         UploadSucceeds, LoseResult, UploadFails, brokerVars, callVars
<1>2. /\ loop \in [Clusters -> LoopStates]
      /\ task \in [Commands -> [pc : {"none", "executing", "uploading", "awaiting", "done"},
                                attempt : 0..MaxAttempts]]
  BY DEF TypeOK, AgentTypeOK
<1>3. \A d \in Commands : Untouched(d)' <=> Untouched(d)
  <2>1. CASE TaskStep(c)
    BY <1>2, <2>1 DEF TaskStep, ExecuteCommand, Untouched
  <2>2. CASE SendResult(c)
    BY <1>2, <2>2 DEF SendResult, SendCommandResult, Untouched
  <2>3. CASE AcknowledgeResult(c)
    BY <1>2, <2>3 DEF AcknowledgeResult, UploadSucceeds, EndTask, EndedTask, Untouched
  <2>4. CASE LoseResult(c)
    BY <1>2, <2>4 DEF LoseResult, UploadFails, EndTask, EndedTask, Untouched
  <2> QED BY <2>1, <2>2, <2>3, <2>4
<1>4. \A k \in Clusters : loop'[k] = loop[k] \/ loop'[k] = IdleLoop
  BY <1>2 DEF TaskStep, ExecuteCommand, SendResult, SendCommandResult, AcknowledgeResult,
         UploadSucceeds, LoseResult, UploadFails, EndTask
<1>5. \A d \in Commands, k \in Clusters : AtLoop(k, d)' => AtLoop(k, d)
  BY <1>4 DEF AtLoop, IdleLoop
<1>6. \A d \in Commands, g \in Handlers :
         Holds(g, d)' => Holds(g, d) /\ poll'[g].cluster = poll[g].cluster
  BY <1>1 DEF Holds
<1> QED BY <1>1, <1>3, <1>5, <1>6, LettingGoKeepsPlace

\* An Agent that dies drops what it has; what it has begun stays begun.
LEMMA CrashKeepsPlace ==
  ASSUME TypeOK, OnePlace, NEW k \in Clusters, CrashAgent(k)
  PROVE  OnePlace'
<1>1. UNCHANGED <<queue, executed, call, targets>>
  BY DEF CrashAgent, AgentCrash, callVars
<1>2. /\ loop \in [Clusters -> LoopStates] /\ poll \in [Handlers -> PollStates]
      /\ DOMAIN task = Commands
  BY DEF TypeOK, AgentTypeOK, BrokerTypeOK
<1>3. \A d \in Commands : Untouched(d)' <=> Untouched(d)
  BY <1>2 DEF CrashAgent, AgentCrash, Untouched, Busy, EndedTask
<1>4. \A d \in Commands, j \in Clusters : AtLoop(j, d)' => AtLoop(j, d)
  BY <1>2 DEF CrashAgent, AgentCrash, AtLoop, IdleLoop
<1>5. \A g \in Handlers : /\ poll'[g].pc = poll[g].pc /\ poll'[g].cmd = poll[g].cmd
                         /\ poll'[g].cluster = poll[g].cluster
  BY <1>2 DEF CrashAgent, Handler
<1>6. \A d \in Commands, g \in Handlers :
         Holds(g, d)' => Holds(g, d) /\ poll'[g].cluster = poll[g].cluster
  BY <1>5 DEF Holds
<1> QED BY <1>1, <1>3, <1>4, <1>6, LettingGoKeepsPlace

\* The Server restarts: the queues and polls are gone, the Agents go on.
LEMMA RestartKeepsPlace ==
  ASSUME TypeOK, OnePlace, RestartServer
  PROVE  OnePlace'
<1>1. /\ queue' = [k \in Clusters |-> <<>>] /\ poll' = [h \in Handlers |-> FreeHandler]
      /\ UNCHANGED <<task, executed, targets>>
      /\ loop' = [k \in Clusters |-> IF loop[k].pc = "polling" THEN IdleLoop ELSE loop[k]]
  BY DEF RestartServer, BrokerRestart, PollsFail
<1>2. \A d \in Commands : Untouched(d)' <=> Untouched(d)
  BY <1>1 DEF Untouched
<1>3. \A d \in Commands, h \in Handlers : ~Holds(h, d)'
  BY <1>1 DEF Holds, FreeHandler, Handler
<1>4. \A d \in Commands : ~Queued(d)' /\ ~Held(d)'
  BY <1>1, <1>3, ClusterAssumption DEF Queued, Held
<1>5. \A d \in Commands, k \in Clusters : AtLoop(k, d)' => AtLoop(k, d)
  BY <1>1 DEF AtLoop, IdleLoop
<1>6. \A d \in Commands : Looped(d)' => Looped(d)
  BY <1>5 DEF Looped
<1>7. QueueDistinct' /\ QueueOwn'
  BY <1>1 DEF QueueDistinct, QueueOwn
<1>8. /\ QueuedIsElsewhereNot' /\ HeldIsElsewhereNot' /\ HeldOnce' /\ HeldOwn'
      /\ LoopedIsUntouched' /\ LoopedOwn'
  BY <1>2, <1>3, <1>4, <1>5, <1>6 DEF OnePlace, QueuedIsElsewhereNot, HeldIsElsewhereNot, HeldOnce,
     HeldOwn, LoopedIsUntouched, LoopedOwn
<1>9. ExecutedWithTask' /\ TargetsObserve'
  BY <1>1, <1>2 DEF OnePlace, ExecutedWithTask, TargetsObserve
<1>10. \A d \in Commands :
          call'[d] = IF call[d] \in Active THEN "lost" ELSE IF call[d] = "spawned" THEN "idle" ELSE call[d]
  BY DEF RestartServer, BrokerRestart
<1>11. NotYetSent'
  <2>1. \A d \in Commands : call'[d] \in {"idle", "spawned", "registered"}
                             => call[d] \in {"idle", "spawned"}
    BY <1>10 DEF Active
  <2> QED BY <1>2, <1>4, <1>6, <2>1 DEF OnePlace, NotYetSent
<1>12. ObserversWait'
  <2>1. \A o \in ObserveCommands : o \in Commands /\ SourceOf[o] \in Commands
    BY SourceAssumption DEF ObserveCommands, HTTPCommands
  <2>2. \A d \in Commands : call'[d] \in {"idle", "spawned", "registered", "waiting"}
                             => call[d] \in {"idle", "spawned"}
    BY <1>10 DEF Active
  <2>3. \A d \in Commands : call[d] = "idle" => call'[d] = "idle"
    BY <1>10 DEF Active
  <2> QED BY <2>1, <2>2, <2>3 DEF OnePlace, ObserversWait
<1> QED BY <1>7, <1>8, <1>9, <1>11, <1>12 DEF OnePlace

\* Uploads and snapshots touch no command.
LEMMA ElsewhereKeepsPlace ==
  ASSUME OnePlace,
         \/ \E c \in Commands, a \in Attempts : UploadStep(c, a)
         \/ \E k \in Clusters : SendOnce(k)
         \/ UNCHANGED vars
  PROVE  OnePlace'
<1>1. UNCHANGED <<queue, poll, loop, task, executed, call, targets>>
  BY DEF UploadStep, CompleteLookup, CompleteSend, CompleteCanceled, SendOnce, ReceiveSnapshot,
         CommandsStart, vars, brokerVars, agentVars, callVars
<1>2. /\ \A d \in Commands : Untouched(d)' <=> Untouched(d)
      /\ \A d \in Commands, k \in Clusters : AtLoop(k, d)' => AtLoop(k, d)
      /\ \A d \in Commands, g \in Handlers :
            Holds(g, d)' => Holds(g, d) /\ poll'[g].cluster = poll[g].cluster
  BY <1>1 DEF Untouched, AtLoop, Holds
<1> QED BY <1>1, <1>2, LettingGoKeepsPlace

\* No step puts a command in a second place: one case per action of Next.
LEMMA OnePlaceNext == TypeOK /\ OnePlace /\ [Next]_vars => OnePlace'
<1> SUFFICES ASSUME TypeOK, OnePlace, [Next]_vars PROVE OnePlace'
  OBVIOUS
<1>1. CASE \E c \in Commands : CallStep(c)
  <2>1. PICK c \in Commands : CallStep(c)
    BY <1>1
  <2>2. CASE Enqueue(c)
    BY <2>1, <2>2, EnqueueKeepsPlace DEF CallStep
  <2>3. CASE ~Enqueue(c)
    BY <2>1, <2>3, CallKeepsPlace DEF CallStep
  <2> QED BY <2>2, <2>3
<1>2. CASE \E h \in Handlers : PollStep(h)
  BY <1>2, TakeKeepsPlace, PollKeepsPlace DEF PollStep
<1>3. CASE \E k \in Clusters, h \in Handlers :
             StartPoll(k, h) \/ DeliverCommand(k, h) \/ DeliverNothing(k, h) \/ LosePoll(k, h)
  BY <1>3, EmptyPollKeepsPlace, DeliverKeepsPlace
<1>4. CASE \E c \in Commands : TaskStep(c) \/ SendResult(c) \/ AcknowledgeResult(c) \/ LoseResult(c)
  BY <1>4, TaskKeepsPlace
<1>5. CASE \E k \in Clusters : AgentStep(k) \/ CrashAgent(k)
  BY <1>5, DispatchKeepsPlace, CrashKeepsPlace
<1>6. CASE RestartServer
  BY <1>6, RestartKeepsPlace
<1>7. CASE \/ \E c \in Commands, a \in Attempts : UploadStep(c, a)
           \/ \E k \in Clusters : SendOnce(k)
           \/ UNCHANGED vars
  BY <1>7, ElsewhereKeepsPlace
<1> QED BY <1>1, <1>2, <1>3, <1>4, <1>5, <1>6, <1>7 DEF Next

\* Whatever is lost, retried or restarted, a command is in one place at a time:
\* queued, with one poll, with its cluster's loop, or begun.
THEOREM OnePlaceHolds == Spec => []OnePlace
<1>1. Init => OnePlace
  BY OnePlaceInit
<1>2. TypeOK /\ OnePlace /\ [Next]_vars => OnePlace'
  BY OnePlaceNext
<1> QED BY <1>1, <1>2, TypeCorrect, PTL DEF Spec

\* No command is executed twice: NextAgentCommand takes it off the queue for good,
\* and what executeAndSendCommand retries is the upload, not the execution.
THEOREM AtMostOnceHolds == Spec => []AtMostOnce
<1>1. OnePlace => AtMostOnce
  BY DEF OnePlace, ExecutedWithTask, AtMostOnce
<1> QED BY <1>1, OnePlaceHolds, PTL

\* A step of a call keeps its pending entry as long as the call is under way.
LEMMA PendingCall ==
  ASSUME TypeOK, OnePlace, PendingIsActive, NEW c \in Commands, CallStep(c)
  PROVE  PendingIsActive'
<1>1. /\ call \in [Commands -> CallStates] /\ pending = {d \in Commands : call[d] \in Active}
      /\ targets \in [HTTPCommands -> SUBSET ObserveCommands]
  BY DEF TypeOK, BrokerTypeOK, PendingIsActive
<1>2. ASSUME NEW s \in Active, call' = [call EXCEPT ![c] = s], pending' = pending \cup {c}
      PROVE  PendingIsActive'
  BY <1>1, <1>2 DEF PendingIsActive
<1>3. ASSUME NEW s \in Active, call' = [call EXCEPT ![c] = s], pending' = pending, call[c] \in Active
      PROVE  PendingIsActive'
  BY <1>1, <1>3 DEF PendingIsActive
<1>4. CASE EnvoyConfig(c) \/ CreateProbe(c) \/ ExecuteProbeCommand(c)
  <2>1. call' = [call EXCEPT ![c] = "registered"] /\ pending' = pending \cup {c}
    BY <1>4 DEF EnvoyConfig, CreateProbe, ExecuteProbeCommand, Register
  <2>2. "registered" \in Active
    BY DEF Active
  <2> QED BY <1>2, <2>1, <2>2
<1>5. CASE Enqueue(c)
  <2>1. call' = [call EXCEPT ![c] = "waiting"] /\ pending' = pending /\ call[c] \in Active
    BY <1>5 DEF Enqueue, Active
  <2>2. "waiting" \in Active
    BY DEF Active
  <2> QED BY <1>3, <2>1, <2>2
<1>6. CASE EnqueueFails(c) \/ WaitCanceled(c) \/ WaitTimedOut(c) \/ FinishProbe(c)
  <2>1. call' = [call EXCEPT ![c] = "returning"] /\ pending' = pending /\ call[c] \in Active
    BY <1>6 DEF EnqueueFails, WaitCanceled, WaitTimedOut, FinishProbe, GiveUp, Active
  <2>2. "returning" \in Active
    BY DEF Active
  <2> QED BY <1>3, <2>1, <2>2
<1>7. CASE ReceiveResult(c)
  <2>1. /\ pending' = pending /\ call[c] = "waiting" /\ call'[c] \in {"observing", "returning"}
        /\ DOMAIN call' = Commands
    BY <1>7 DEF ReceiveResult
  <2>2. ASSUME NEW d \in Commands \ {c} PROVE call'[d] \in Active <=> call[d] \in Active
    <3>1. CASE Observes(c, chan[c]) /\ d \in targets[c]
      <4>1. c \in HTTPCommands
        BY <3>1 DEF Observes, HTTPCommands
      <4>2. d \in ObserveCommands /\ SourceOf[d] = c
        BY <3>1, <4>1 DEF OnePlace, TargetsObserve, ObserversOf
      <4>3. call[d] = "idle"
        BY <2>1, <4>2 DEF OnePlace, ObserversWait
      <4>4. call'[d] = "spawned"
        BY <1>7, <3>1 DEF ReceiveResult
      <4> QED BY <4>3, <4>4 DEF Active
    <3>2. CASE ~(Observes(c, chan[c]) /\ d \in targets[c])
      <4>1. call'[d] = call[d]
        BY <1>7, <3>2 DEF ReceiveResult
      <4> QED BY <4>1
    <3> QED BY <3>1, <3>2
  <2>3. call[c] \in Active /\ call'[c] \in Active
    BY <2>1 DEF Active
  <2> QED BY <1>1, <2>1, <2>2, <2>3 DEF PendingIsActive
<1>8. CASE Close(c)
  <2>1. call' = [call EXCEPT ![c] = "closed"] /\ pending' = pending \ {c} /\ "closed" \notin Active
    BY <1>8 DEF Close, Active
  <2> QED BY <1>1, <2>1 DEF PendingIsActive
<1>9. CASE ClientDisconnects(c) \/ DeadlinePasses(c)
  <2>1. UNCHANGED <<call, pending>>
    BY <1>9 DEF ClientDisconnects, DeadlinePasses, callVars
  <2> QED BY <1>1, <2>1 DEF PendingIsActive
<1> QED BY <1>4, <1>5, <1>6, <1>7, <1>8, <1>9 DEF CallStep

\* No step leaves an entry of a returned call behind or drops one of a call under way.
LEMMA PendingNext == TypeOK /\ OnePlace /\ PendingIsActive /\ [Next]_vars => PendingIsActive'
<1> SUFFICES ASSUME TypeOK, OnePlace, PendingIsActive, [Next]_vars PROVE PendingIsActive'
  OBVIOUS
<1>1. CASE \E c \in Commands : CallStep(c)
  BY <1>1, PendingCall
<1>2. CASE RestartServer
  <2>1. /\ pending' = {}
        /\ call' = [c \in Commands |-> IF call[c] \in Active THEN "lost"
                                      ELSE IF call[c] = "spawned" THEN "idle" ELSE call[c]]
    BY <1>2 DEF RestartServer, BrokerRestart
  <2>2. \A c \in Commands : call'[c] \notin Active
    BY <2>1 DEF Active
  <2> QED BY <2>1, <2>2 DEF PendingIsActive
<1>3. ASSUME UNCHANGED <<call, pending>> PROVE PendingIsActive'
  BY <1>3 DEF PendingIsActive
<1>4. CASE \E c \in Commands : TaskStep(c) \/ SendResult(c) \/ AcknowledgeResult(c) \/ LoseResult(c)
  BY <1>3, <1>4 DEF TaskStep, SendResult, UploadArrives, AcknowledgeResult, LoseResult, brokerVars, callVars
<1>5. CASE \E c \in Commands, a \in Attempts : UploadStep(c, a)
  BY <1>3, <1>5 DEF UploadStep, CompleteLookup, CompleteSend, CompleteCanceled, callVars
<1>6. CASE \E h \in Handlers : PollStep(h)
  BY <1>3, <1>6 DEF PollStep, PollTake, PollCheck, PollTimer, PollDiscarded, callVars
<1>7. CASE \E k \in Clusters : AgentStep(k) \/ SendOnce(k) \/ CrashAgent(k)
  BY <1>3, <1>7 DEF AgentStep, SendOnce, ReceiveSnapshot, CrashAgent, brokerVars, callVars
<1>8. CASE \E k \in Clusters, h \in Handlers :
             StartPoll(k, h) \/ DeliverCommand(k, h) \/ DeliverNothing(k, h) \/ LosePoll(k, h)
  BY <1>3, <1>8 DEF StartPoll, NextAgentCommand, DeliverCommand, DeliverNothing, PollAnswered,
                    LosePoll, PollAbandoned, callVars
<1>9. CASE UNCHANGED vars
  BY <1>3, <1>9 DEF vars, brokerVars
<1> QED BY <1>1, <1>2, <1>4, <1>5, <1>6, <1>7, <1>8, <1>9 DEF Next

\* The deferred deletes leave no entry behind, and no call under way loses its own.
THEOREM PendingIsActiveHolds == Spec => []PendingIsActive
<1>1. Init => PendingIsActive
  BY DEF Init, BrokerInit, PendingIsActive, Active
<1>2. TypeOK /\ OnePlace /\ PendingIsActive /\ [Next]_vars => PendingIsActive'
  BY PendingNext
<1> QED BY <1>1, <1>2, TypeCorrect, OnePlaceHolds, PTL DEF Spec

\* A step by which no poll and no loop gets c, and c does not begin.
LEMMA NotHandedOut ==
  ASSUME NEW c \in Commands, ~InHand(c), executed'[c] = executed[c],
         \A h \in Handlers : poll'[h].pc = "reply" /\ poll'[h].cmd = c
                               => poll[h].pc = "reply" /\ poll[h].cmd = c,
         \A k \in Clusters : loop'[k].pc = "dispatch" /\ loop'[k].cmd = c
                               => loop[k].pc = "dispatch" /\ loop[k].cmd = c
  PROVE  ~InHand(c)' /\ executed'[c] = executed[c]
  BY DEF InHand

\* No step hands out or begins a command whose call has returned.
LEMMA ReturnedStaysOut ==
  ASSUME TypeOK, PendingIsActive, [Next]_vars,
         NEW c \in Commands, call[c] \in {"closed", "lost"}, ~InHand(c)
  PROVE  ~InHand(c)' /\ executed'[c] = executed[c]
<1> DEFINE PollsSame == \A h \in Handlers : poll'[h].pc = "reply" /\ poll'[h].cmd = c
                                             => poll[h].pc = "reply" /\ poll[h].cmd = c
           LoopsSame == \A k \in Clusters : loop'[k].pc = "dispatch" /\ loop'[k].cmd = c
                                             => loop[k].pc = "dispatch" /\ loop[k].cmd = c
<1>1. /\ poll \in [Handlers -> PollStates] /\ loop \in [Clusters -> LoopStates]
      /\ executed \in [Commands -> Nat]
  BY DEF TypeOK, BrokerTypeOK, AgentTypeOK
<1>2. c \notin pending
  BY DEF PendingIsActive, Active
<1>3. PollsSame /\ LoopsSame /\ executed'[c] = executed[c] => ~InHand(c)' /\ executed'[c] = executed[c]
  BY NotHandedOut
<1>4. CASE \/ \E d \in Commands : CallStep(d)
           \/ \E d \in Commands, a \in Attempts : UploadStep(d, a)
           \/ \E k \in Clusters : SendOnce(k)
           \/ UNCHANGED vars
  <2>1. UNCHANGED <<poll, loop, executed>>
    BY <1>4 DEF CallStep, EnvoyConfig, CreateProbe, ExecuteProbeCommand, Register, Enqueue, EnqueueFails,
       WaitCanceled, WaitTimedOut, GiveUp, ReceiveResult, FinishProbe, Close, ClientDisconnects,
       DeadlinePasses, UploadStep, CompleteLookup, CompleteSend, CompleteCanceled, SendOnce,
       ReceiveSnapshot, CommandsStart, vars, brokerVars, agentVars, callVars
  <2> QED BY <1>3, <2>1
<1>5. CASE \E h \in Handlers : PollStep(h)
  <2>1. PICK h \in Handlers : PollStep(h)
    BY <1>5
  <2>2. UNCHANGED <<loop, executed>> /\ \A g \in Handlers \ {h} : poll'[g] = poll[g]
    BY <1>1, <2>1 DEF PollStep, PollTake, PollCheck, PollTimer, PollDiscarded, agentVars
  <2>3. ~(poll'[h].pc = "reply" /\ poll'[h].cmd = c) \/ poll'[h] = poll[h]
    <3>1. CASE PollCheck(h)
      BY <1>1, <1>2, <3>1 DEF PollCheck, Handler
    <3>2. CASE PollTake(h) \/ PollTimer(h) \/ PollDiscarded(h)
      BY <1>1, <3>2 DEF PollTake, PollTimer, PollDiscarded, Handler, FreeHandler
    <3> QED BY <2>1, <3>1, <3>2 DEF PollStep
  <2> QED BY <1>3, <2>2, <2>3
<1>6. CASE \E k \in Clusters, h \in Handlers :
             StartPoll(k, h) \/ DeliverNothing(k, h) \/ LosePoll(k, h)
  <2>1. PICK k \in Clusters, h \in Handlers : StartPoll(k, h) \/ DeliverNothing(k, h) \/ LosePoll(k, h)
    BY <1>6
  <2>2. /\ executed' = executed
        /\ \/ poll' = [poll EXCEPT ![h] = Handler("select", k, None, TRUE)]
           \/ poll' = [poll EXCEPT ![h] = FreeHandler]
           \/ poll' = [poll EXCEPT ![h] = Handler(poll[h].pc, poll[h].cluster, poll[h].cmd, FALSE)]
        /\ loop' = [loop EXCEPT ![k].pc = "polling"] \/ loop' = [loop EXCEPT ![k] = IdleLoop]
    BY <2>1 DEF StartPoll, NextAgentCommand, BeginPoll, DeliverNothing, PollAnswered, EndPoll,
                LosePoll, PollAbandoned
  <2>3. PollsSame
    BY <1>1, <2>2 DEF Handler, FreeHandler
  <2>4. LoopsSame
    <3>1. loop'[k].pc # "dispatch" /\ \A j \in Clusters \ {k} : loop'[j] = loop[j]
      BY <1>1, <2>2 DEF IdleLoop, LoopStates
    <3> QED BY <3>1
  <2> QED BY <1>3, <2>2, <2>3, <2>4
<1>7. CASE \E k \in Clusters, h \in Handlers : DeliverCommand(k, h)
  <2>1. PICK k \in Clusters, h \in Handlers : DeliverCommand(k, h)
    BY <1>7
  <2>2. poll[h].pc = "reply" /\ poll' = [poll EXCEPT ![h] = FreeHandler] /\ NextCommand(k, poll[h].cmd)
    BY <2>1 DEF DeliverCommand, PollAnswered
  <2>3. PICK d \in Commands : d = poll[h].cmd
    BY <1>1, <2>2 DEF PollStates, FreeHandler, Handler
  <2>4. d # c
    BY <2>2, <2>3 DEF InHand
  <2>5. PollsSame
    BY <1>1, <2>2 DEF FreeHandler, Handler
  <2>6. LoopsSame /\ executed'[c] = executed[c]
    BY <1>1, <2>2, <2>3, <2>4 DEF NextCommand, BeginTask, IdleLoop
  <2> QED BY <1>3, <2>5, <2>6
<1>8. CASE \E k \in Clusters : AgentStep(k)
  <2>1. PICK k \in Clusters : AgentStep(k)
    BY <1>8
  <2>2. /\ loop[k].pc = "dispatch" /\ loop' = [loop EXCEPT ![k] = IdleLoop] /\ poll' = poll
        /\ executed' = [executed EXCEPT ![loop[k].cmd] = executed[loop[k].cmd] + 1]
    BY <2>1 DEF AgentStep, Dispatch, BeginTask, brokerVars
  <2>3. loop[k].cmd # c
    BY <2>2 DEF InHand
  <2>4. PollsSame /\ LoopsSame /\ executed'[c] = executed[c]
    BY <1>1, <2>2, <2>3 DEF IdleLoop
  <2> QED BY <1>3, <2>4
<1>9. CASE \E d \in Commands : TaskStep(d) \/ SendResult(d) \/ AcknowledgeResult(d) \/ LoseResult(d)
  <2>1. /\ UNCHANGED <<poll, executed>>
        /\ \A k \in Clusters : loop'[k] = loop[k] \/ loop'[k] = IdleLoop
    BY <1>1, <1>9 DEF TaskStep, ExecuteCommand, SendResult, SendCommandResult, UploadArrives,
       AcknowledgeResult, UploadSucceeds, LoseResult, UploadFails, EndTask, brokerVars
  <2> QED BY <1>3, <2>1 DEF IdleLoop
<1>10. CASE \E k \in Clusters : CrashAgent(k)
  <2>1. /\ executed' = executed
        /\ \A k \in Clusters : loop'[k] = loop[k] \/ loop'[k] = IdleLoop
        /\ \A h \in Handlers : poll'[h].pc = poll[h].pc /\ poll'[h].cmd = poll[h].cmd
    BY <1>1, <1>10 DEF CrashAgent, AgentCrash, Handler
  <2> QED BY <1>3, <2>1 DEF IdleLoop
<1>11. CASE RestartServer
  <2>1. /\ executed' = executed
        /\ \A k \in Clusters : loop'[k] = loop[k] \/ loop'[k] = IdleLoop
        /\ \A h \in Handlers : poll'[h] = FreeHandler
    BY <1>11 DEF RestartServer, BrokerRestart, PollsFail
  <2> QED BY <1>3, <2>1 DEF IdleLoop, FreeHandler, Handler
<1> QED BY <1>4, <1>5, <1>6, <1>7, <1>8, <1>9, <1>10, <1>11 DEF Next

\* A command whose call has returned is not handed to an Agent any more, though it
\* may still be queued or with a poll: NextAgentCommand's look into pendingCommands.
THEOREM ReturnedNeverRunsHolds == Spec => ReturnedNeverRuns
<1>1. TypeOK /\ PendingIsActive /\ [Next]_vars =>
        [\A c \in Commands : call[c] \in {"closed", "lost"} /\ ~InHand(c)
                              => ~InHand(c)' /\ executed'[c] = executed[c]]_vars
  BY ReturnedStaysOut
<1> QED BY <1>1, TypeCorrect, PendingIsActiveHolds, PTL DEF Spec, ReturnedNeverRuns

=============================================================================
