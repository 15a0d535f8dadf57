------------------------- MODULE CommandCallProofs -------------------------
(***************************************************************************)
(* Theorems about the calls of CommandSystem: what a call is given is what *)
(* its command produced, an observation runs inside the call of its probe, *)
(* and what GetProbe shows of a probe is true and, once ended, final.      *)
(* Broker, Agents and network implement CommandRPC, the at-most-once call: *)
(* the initial state maps to its initial state, and every step to one of   *)
(* its steps or to none.                                                   *)
(***************************************************************************)
EXTENDS CommandSystemProofs

\* No call, no result and no probe at the start.
LEMMA CallsAgreeInit == Init => CallsAgree
<1> SUFFICES ASSUME Init PROVE CallsAgree
  OBVIOUS
<1> USE DEF Init, BrokerInit, AgentInit, NoTask
<1>1. ResultFollowsRun /\ UploadCarriesResult /\ ChannelCarriesResult
  BY DEF ResultFollowsRun, UploadCarriesResult, ChannelCarriesResult
<1>2. AnswerIsResult
  BY NoneAssumption DEF AnswerIsResult, Results
<1>3. ObserversNested
  BY SourceAssumption DEF ObserversNested, Active, ObserveCommands
<1>4. ProbeFollowsCall
  BY DEF ProbeFollowsCall, HTTPCommands
<1> QED BY <1>1, <1>2, <1>3, <1>4 DEF CallsAgree

\* The calls and the stored probes agree as long as neither changes.
LEMMA CallsKept ==
  ASSUME CallsAgree, UNCHANGED <<call, outcome, targets, probes>>
  PROVE  /\ ObserversNested' /\ ProbeFollowsCall'
         /\ \A d \in Commands : outcome'[d] \in Results => outcome'[d] = result[d]
         /\ (\A d \in Commands : outcome[d] \in Results => result'[d] = result[d]) => AnswerIsResult'
  BY DEF CallsAgree, ObserversNested, ProbeFollowsCall, AnswerIsResult, ObserversOf

\* A step of a call takes results out of its channel only.
LEMMA CallResults ==
  ASSUME TypeOK, CallsAgree, NEW c \in Commands, CallStep(c)
  PROVE  /\ ResultFollowsRun' /\ UploadCarriesResult' /\ ChannelCarriesResult'
         /\ \A d \in Commands : outcome'[d] \in Results => outcome'[d] = result'[d]
<1>1. UNCHANGED <<task, result, upload>>
  BY DEF CallStep, EnvoyConfig, CreateProbe, ExecuteProbeCommand, Register, Enqueue, EnqueueFails,
       WaitCanceled, WaitTimedOut, GiveUp, ReceiveResult, FinishProbe, Close, ClientDisconnects,
       DeadlinePasses, agentVars
<1>2. /\ chan \in [Commands -> Results \cup {None}]
      /\ outcome \in [Commands -> Results \cup Failures \cup {None}]
  BY DEF TypeOK, BrokerTypeOK
<1>3. \A d \in Commands : /\ chan[d] # None => chan[d] = result[d]
                          /\ outcome[d] \in Results => outcome[d] = result[d]
  BY DEF CallsAgree, ChannelCarriesResult, AnswerIsResult
<1>4. ResultFollowsRun' /\ UploadCarriesResult'
  BY <1>1 DEF CallsAgree, ResultFollowsRun, UploadCarriesResult
<1>5. CASE ReceiveResult(c)
  <2>1. /\ chan[c] # None
        /\ chan' = [chan EXCEPT ![c] = None] /\ outcome' = [outcome EXCEPT ![c] = chan[c]]
    BY <1>5 DEF ReceiveResult
  <2> QED BY <1>1, <1>2, <1>3, <1>4, <2>1 DEF ChannelCarriesResult
<1>6. CASE EnqueueFails(c) \/ WaitCanceled(c) \/ WaitTimedOut(c)
  <2>1. PICK why \in Failures : GiveUp(c, why)
    BY <1>6 DEF EnqueueFails, WaitCanceled, WaitTimedOut, Failures
  <2>2. why \notin Results
    BY DEF Failures, Results
  <2>3. chan' = chan /\ outcome' = [outcome EXCEPT ![c] = why]
    BY <2>1 DEF GiveUp
  <2> QED BY <1>1, <1>2, <1>3, <1>4, <2>2, <2>3 DEF ChannelCarriesResult
<1>7. CASE UNCHANGED <<chan, outcome>>
  BY <1>1, <1>3, <1>4, <1>7 DEF ChannelCarriesResult
<1>8. \/ ReceiveResult(c) \/ EnqueueFails(c) \/ WaitCanceled(c) \/ WaitTimedOut(c)
      \/ UNCHANGED <<chan, outcome>>
  BY DEF CallStep, EnvoyConfig, CreateProbe, ExecuteProbeCommand, Register, Enqueue, FinishProbe,
         Close, ClientDisconnects, DeadlinePasses, callVars
<1> QED BY <1>5, <1>6, <1>7, <1>8

\* What a call has been given, as far as the call itself tells.
CallOutcome ==
    \A c \in Commands :
        /\ call[c] \in {"idle", "spawned", "registered", "waiting"} => outcome[c] = None
        /\ call[c] = "observing" => Kind[c] = "http" /\ outcome[c] \in Usable

\* A step of a call keeps the calls nested and the stored probe true to its call.
LEMMA CallNesting ==
  ASSUME TypeOK, OnePlace, CallsAgree, NEW c \in Commands, CallStep(c)
  PROVE  ObserversNested' /\ ProbeFollowsCall' /\ CallOutcome'
<1>1. /\ call \in [Commands -> CallStates] /\ targets \in [HTTPCommands -> SUBSET ObserveCommands]
      /\ probes \in [HTTPCommands -> ProbeStates]
      /\ outcome \in [Commands -> Results \cup Failures \cup {None}]
      /\ chan \in [Commands -> Results \cup {None}]
  BY DEF TypeOK, BrokerTypeOK
<1>2. \A o \in ObserveCommands : SourceOf[o] \in HTTPCommands
  BY SourceAssumption
<1>3. /\ ObserversNested /\ ProbeFollowsCall /\ CallOutcome /\ TargetsObserve /\ ObserversWait
  BY DEF CallsAgree, AnswerIsResult, CallOutcome, OnePlace
<1>4. /\ \A d \in HTTPCommands : d \in Commands /\ Kind[d] = "http" 
      /\ \A d \in ObserveCommands : d \in Commands /\ Kind[d] = "observe"
      /\ \A d \in Commands : (Kind[d] = "http" => d \in HTTPCommands) /\ (Kind[d] = "observe" => d \in ObserveCommands)
  BY DEF HTTPCommands, ObserveCommands
<1>5. None \notin Usable
  BY NoneAssumption DEF Usable
<1> USE DEF Active, ObserversOf
<1>6. CASE EnvoyConfig(c)
  <2>1. /\ call' = [call EXCEPT ![c] = "registered"] /\ UNCHANGED <<outcome, targets, probes>>
        /\ Kind[c] = "envoy" /\ call[c] = "idle"
    BY <1>6 DEF EnvoyConfig, Register
  <2>2. ObserversNested'
    BY <1>1, <1>2, <1>3, <1>4, <2>1 DEF ObserversNested
  <2>3. ProbeFollowsCall'
    BY <1>1, <1>2, <1>3, <1>4, <2>1 DEF ProbeFollowsCall
  <2>4. CallOutcome'
    BY <1>1, <1>3, <2>1 DEF CallOutcome
  <2> QED BY <2>2, <2>3, <2>4
<1>7. CASE CreateProbe(c)
  <2>1. /\ call' = [call EXCEPT ![c] = "registered"] /\ UNCHANGED outcome
        /\ targets' = [targets EXCEPT ![c] = DiscoverTargets(c)]
        /\ probes' = [probes EXCEPT ![c] = "running"]
        /\ Kind[c] = "http" /\ call[c] = "idle"
    BY <1>7 DEF CreateProbe, Register
  <2>2. ObserversNested'
    BY <1>1, <1>2, <1>3, <1>4, <2>1 DEF ObserversNested, ObserversWait
  <2>3. ProbeFollowsCall'
    BY <1>1, <1>2, <1>3, <1>4, <2>1 DEF ProbeFollowsCall
  <2>4. CallOutcome'
    BY <1>1, <1>3, <2>1 DEF CallOutcome
  <2> QED BY <2>2, <2>3, <2>4
<1>8. CASE ExecuteProbeCommand(c)
  <2>1. /\ call' = [call EXCEPT ![c] = "registered"] /\ UNCHANGED <<outcome, targets, probes>>
        /\ Kind[c] = "observe" /\ call[c] = "spawned"
    BY <1>8 DEF ExecuteProbeCommand, Register
  <2>2. ObserversNested'
    BY <1>1, <1>2, <1>3, <1>4, <2>1 DEF ObserversNested
  <2>3. ProbeFollowsCall'
    BY <1>1, <1>2, <1>3, <1>4, <2>1 DEF ProbeFollowsCall
  <2>4. CallOutcome'
    BY <1>1, <1>3, <2>1 DEF CallOutcome
  <2> QED BY <2>2, <2>3, <2>4
<1>9. CASE Enqueue(c)
  <2>1. /\ call' = [call EXCEPT ![c] = "waiting"] /\ UNCHANGED <<outcome, targets, probes>>
        /\ call[c] = "registered"
    BY <1>9 DEF Enqueue
  <2>2. ObserversNested'
    BY <1>1, <1>2, <1>3, <1>4, <2>1 DEF ObserversNested
  <2>3. ProbeFollowsCall'
    BY <1>1, <1>2, <1>3, <1>4, <2>1 DEF ProbeFollowsCall
  <2>4. CallOutcome'
    BY <1>1, <1>3, <2>1 DEF CallOutcome
  <2> QED BY <2>2, <2>3, <2>4
<1>10. CASE EnqueueFails(c) \/ WaitCanceled(c) \/ WaitTimedOut(c)
  <2>1. PICK why : call[c] \in {"registered", "waiting"} /\ GiveUp(c, why)
    BY <1>10 DEF EnqueueFails, WaitCanceled, WaitTimedOut
  <2>2. /\ call' = [call EXCEPT ![c] = "returning"] /\ UNCHANGED targets
        /\ outcome' = [outcome EXCEPT ![c] = why]
        /\ probes' = IF Kind[c] = "http" THEN [probes EXCEPT ![c] = "failed"] ELSE probes
    BY <2>1 DEF GiveUp, FailProbe
  <2>3. ObserversNested'
    BY <1>1, <1>2, <1>3, <1>4, <2>1, <2>2 DEF ObserversNested, ObserversWait
  <2>4. ProbeFollowsCall'
    BY <1>1, <1>2, <1>3, <1>4, <2>1, <2>2 DEF ProbeFollowsCall
  <2>5. CallOutcome'
    BY <1>1, <1>3, <2>1, <2>2 DEF CallOutcome
  <2> QED BY <2>3, <2>4, <2>5
<1>11. CASE ReceiveResult(c) /\ ~Observes(c, chan[c])
  <2>1. /\ call' = [call EXCEPT ![c] = "returning"] /\ UNCHANGED targets
        /\ outcome' = [outcome EXCEPT ![c] = chan[c]]
        /\ probes' = IF Kind[c] = "http" THEN [probes EXCEPT ![c] = "failed"] ELSE probes
        /\ call[c] = "waiting"
    BY <1>1, <1>11 DEF ReceiveResult, Observes, ProbeAfter
  <2>2. ObserversNested'
    BY <1>1, <1>2, <1>3, <1>4, <2>1 DEF ObserversNested, ObserversWait
  <2>3. ProbeFollowsCall'
    BY <1>1, <1>2, <1>3, <1>4, <2>1 DEF ProbeFollowsCall
  <2>4. CallOutcome'
    BY <1>1, <1>3, <2>1 DEF CallOutcome
  <2> QED BY <2>2, <2>3, <2>4
<1>12. CASE ReceiveResult(c) /\ Observes(c, chan[c])
  <2>1. /\ c \in HTTPCommands /\ Kind[c] = "http" /\ call[c] = "waiting"
        /\ chan[c] \in Usable /\ UNCHANGED <<targets, probes>>
        /\ outcome' = [outcome EXCEPT ![c] = chan[c]]
    BY <1>4, <1>12 DEF ReceiveResult, Observes, ProbeAfter
  <2>2. \A o \in targets[c] : o \in ObserveCommands /\ SourceOf[o] = c /\ call[o] = "idle"
    BY <1>3, <2>1 DEF TargetsObserve, ObserversWait
  <2>3. \A o \in ObserveCommands : SourceOf[o] = c => call[o] = "idle"
    BY <1>3, <2>1 DEF ObserversWait
  <2>4. /\ call'[c] = "observing"
        /\ \A d \in targets[c] : call'[d] = "spawned"
        /\ \A d \in Commands \ ({c} \cup targets[c]) : call'[d] = call[d]
    BY <1>4, <1>12, <2>1, <2>2 DEF ReceiveResult
  <2>5. ObserversNested'
    BY <1>1, <1>2, <1>3, <1>4, <2>1, <2>2, <2>3, <2>4 DEF ObserversNested
  <2>6. ProbeFollowsCall'
    BY <1>1, <1>2, <1>3, <1>4, <2>1, <2>2, <2>3, <2>4 DEF ProbeFollowsCall
  <2>7. CallOutcome'
    BY <1>1, <1>3, <1>4, <2>1, <2>2, <2>4 DEF CallOutcome
  <2> QED BY <2>5, <2>6, <2>7
<1>13. CASE FinishProbe(c)
  <2>1. /\ call' = [call EXCEPT ![c] = "returning"] /\ UNCHANGED <<outcome, targets>>
        /\ probes' = [probes EXCEPT ![c] = IF outcome[c] = "valid" THEN "completed" ELSE "failed"]
        /\ call[c] = "observing" /\ \A o \in targets[c] : call[o] = "closed"
    BY <1>13 DEF FinishProbe
  <2>2. c \in HTTPCommands
    BY <1>3, <1>4, <2>1 DEF CallOutcome
  <2>3. \A o \in ObserversOf(c) : call[o] \in {"idle", "closed"}
    BY <1>3, <2>1 DEF ObserversNested
  <2>4. ObserversNested'
    BY <1>1, <1>2, <1>3, <1>4, <2>1, <2>3 DEF ObserversNested
  <2>5. ProbeFollowsCall'
    BY <1>1, <1>2, <1>3, <1>4, <2>1, <2>2, <2>3 DEF ProbeFollowsCall
  <2>6. CallOutcome'
    BY <1>1, <1>3, <2>1 DEF CallOutcome
  <2> QED BY <2>4, <2>5, <2>6
<1>14. CASE Close(c)
  <2>1. /\ call' = [call EXCEPT ![c] = "closed"] /\ UNCHANGED <<outcome, targets, probes>>
        /\ call[c] = "returning"
    BY <1>14 DEF Close
  <2>2. ObserversNested'
    BY <1>1, <1>2, <1>3, <1>4, <2>1 DEF ObserversNested
  <2>3. ProbeFollowsCall'
    BY <1>1, <1>2, <1>3, <1>4, <2>1 DEF ProbeFollowsCall
  <2>4. CallOutcome'
    BY <1>1, <1>3, <2>1 DEF CallOutcome
  <2> QED BY <2>2, <2>3, <2>4
<1>15. CASE ClientDisconnects(c) \/ DeadlinePasses(c)
  <2>1. UNCHANGED <<call, outcome, targets, probes>>
    BY <1>15 DEF ClientDisconnects, DeadlinePasses, callVars
  <2> QED BY <1>3, <2>1 DEF ObserversNested, ProbeFollowsCall, CallOutcome
<1> QED BY <1>6, <1>7, <1>8, <1>9, <1>10, <1>11, <1>12, <1>13, <1>14, <1>15 DEF CallStep

\* An upload puts the command's own result into the channel, or nothing.
LEMMA UploadAgrees ==
  ASSUME TypeOK, CallsAgree, NEW c \in Commands, NEW a \in Attempts, UploadStep(c, a)
  PROVE  CallsAgree'
<1>1. UNCHANGED <<task, result, call, outcome, targets, probes>>
  BY DEF UploadStep, CompleteLookup, CompleteSend, CompleteCanceled, callVars, agentVars
<1>2. /\ chan \in [Commands -> Results \cup {None}]
      /\ upload \in [Commands -> [Attempts -> UploadStates]]
  BY DEF TypeOK, BrokerTypeOK
<1>3. /\ upload[c][a] # "none"
      /\ chan' = chan \/ chan' = [chan EXCEPT ![c] = result[c]]
      /\ \E s \in UploadStates : upload' = [upload EXCEPT ![c][a] = s]
  BY DEF UploadStep, CompleteLookup, CompleteSend, CompleteCanceled, callVars, UploadStates
<1>4. ResultFollowsRun'
  BY <1>1 DEF CallsAgree, ResultFollowsRun
<1>5. UploadCarriesResult'
  BY <1>1, <1>2, <1>3 DEF CallsAgree, UploadCarriesResult
<1>6. ChannelCarriesResult'
  BY <1>1, <1>2, <1>3 DEF CallsAgree, ChannelCarriesResult
<1> QED BY <1>1, <1>4, <1>5, <1>6, CallsKept DEF CallsAgree

\* A task gives its command a result once, before its first upload.
LEMMA TaskAgrees ==
  ASSUME TypeOK, CallsAgree, NEW c \in Commands,
         TaskStep(c) \/ SendResult(c) \/ AcknowledgeResult(c) \/ LoseResult(c)
  PROVE  CallsAgree'
<1>1. UNCHANGED <<chan, call, outcome, targets, probes>>
  BY DEF TaskStep, SendResult, UploadArrives, AcknowledgeResult, LoseResult, brokerVars, callVars
<1>2. /\ upload \in [Commands -> [Attempts -> UploadStates]]
      /\ task \in [Commands -> [pc : {"none", "executing", "uploading", "awaiting", "done"},
                                attempt : 0..MaxAttempts]]
      /\ result \in [Commands -> Results \cup {None}]
      /\ outcome \in [Commands -> Results \cup Failures \cup {None}]
  BY DEF TypeOK, BrokerTypeOK, AgentTypeOK
<1>3. None \notin Results
  BY NoneAssumption DEF Results
<1>4. CASE TaskStep(c)
  <2>1. PICK r \in Results : ExecuteCommand(c, r)
    BY <1>4, ResultAssumption DEF TaskStep, ResultsOf
  <2>2. /\ task[c].pc = "executing" /\ upload' = upload
        /\ task' = [task EXCEPT ![c] = [pc |-> "uploading", attempt |-> 1]]
        /\ result' = [result EXCEPT ![c] = r]
    BY <1>4, <2>1 DEF TaskStep, ExecuteCommand, brokerVars
  <2>3. result[c] = None
    BY <2>2 DEF CallsAgree, ResultFollowsRun
  <2>4. \A d \in Commands : result[d] # None => result'[d] = result[d] /\ result'[d] # None
    BY <1>2, <2>2, <2>3
  <2>5. ResultFollowsRun'
    BY <1>2, <1>3, <2>2 DEF CallsAgree, ResultFollowsRun
  <2>6. UploadCarriesResult' /\ ChannelCarriesResult'
    BY <1>1, <2>2, <2>4 DEF CallsAgree, UploadCarriesResult, ChannelCarriesResult
  <2>7. \A d \in Commands : outcome[d] \in Results => result'[d] = result[d]
    BY <1>3, <2>4 DEF CallsAgree, AnswerIsResult
  <2> QED BY <1>1, <2>5, <2>6, <2>7, CallsKept DEF CallsAgree
<1>5. CASE SendResult(c)
  <2>1. /\ task[c].pc = "uploading" /\ result' = result
        /\ task' = [task EXCEPT ![c].pc = "awaiting"]
        /\ upload' = [upload EXCEPT ![c][task[c].attempt] = "sent"]
    BY <1>5 DEF SendResult, SendCommandResult, UploadArrives
  <2>2. ResultFollowsRun'
    BY <1>2, <2>1 DEF CallsAgree, ResultFollowsRun
  <2>3. result[c] # None
    BY <2>1 DEF CallsAgree, ResultFollowsRun
  <2>4. \A d \in Commands, b \in Attempts : upload'[d][b] # "none" => d = c \/ upload[d][b] # "none"
    BY <1>2, <2>1
  <2>5. UploadCarriesResult' /\ ChannelCarriesResult'
    BY <1>1, <2>1, <2>3, <2>4 DEF CallsAgree, UploadCarriesResult, ChannelCarriesResult
  <2> QED BY <1>1, <2>1, <2>2, <2>5, CallsKept DEF CallsAgree
<1>6. CASE AcknowledgeResult(c) \/ LoseResult(c)
  <2>1. /\ UNCHANGED <<result, upload>> /\ task[c].pc = "awaiting"
        /\ task'[c].pc \in {"uploading", "done"} /\ \A d \in Commands \ {c} : task'[d] = task[d]
    BY <1>2, <1>6 DEF AcknowledgeResult, UploadSucceeds, LoseResult, UploadFails, EndTask, EndedTask, brokerVars
  <2>2. ResultFollowsRun'
    BY <1>2, <2>1 DEF CallsAgree, ResultFollowsRun
  <2>3. UploadCarriesResult' /\ ChannelCarriesResult'
    BY <1>1, <2>1 DEF CallsAgree, UploadCarriesResult, ChannelCarriesResult
  <2> QED BY <1>1, <2>1, <2>2, <2>3, CallsKept DEF CallsAgree
<1> QED BY <1>4, <1>5, <1>6

\* A command that begins has no result yet, and one whose Agent dies keeps its own.
LEMMA AgentAgrees ==
  ASSUME TypeOK, OnePlace, CallsAgree,
         \/ \E k \in Clusters : AgentStep(k) \/ CrashAgent(k)
         \/ \E k \in Clusters, h \in Handlers : DeliverCommand(k, h)
  PROVE  CallsAgree'
<1>1. UNCHANGED <<result, upload, chan, call, outcome, targets, probes>>
  BY DEF AgentStep, Dispatch, CrashAgent, AgentCrash, DeliverCommand, PollAnswered, NextCommand,
         brokerVars, callVars
<1>2. /\ loop \in [Clusters -> LoopStates] /\ poll \in [Handlers -> PollStates]
      /\ task \in [Commands -> [pc : {"none", "executing", "uploading", "awaiting", "done"},
                                attempt : 0..MaxAttempts]]
  BY DEF TypeOK, BrokerTypeOK, AgentTypeOK
<1>3. ASSUME NEW c \in Commands, Untouched(c), BeginTask(c) PROVE ResultFollowsRun'
  <2>1. task[c].pc = "none" /\ task' = [task EXCEPT ![c] = [pc |-> "executing", attempt |-> 0]]
    BY <1>3 DEF Untouched, BeginTask
  <2> QED BY <1>1, <1>2, <2>1 DEF CallsAgree, ResultFollowsRun
<1>4. ResultFollowsRun'
  <2>1. CASE \E k \in Clusters : AgentStep(k)
    <3>1. PICK k \in Clusters : AgentStep(k)
      BY <2>1
    <3>2. PICK c \in Commands : c = loop[k].cmd /\ AtLoop(k, c)
      BY <1>2, <3>1 DEF AgentStep, Dispatch, AtLoop, LoopStates
    <3>3. Untouched(c) /\ BeginTask(c)
      BY <3>1, <3>2 DEF OnePlace, LoopedIsUntouched, Looped, AgentStep, Dispatch
    <3> QED BY <1>3, <3>3
  <2>2. CASE \E k \in Clusters, h \in Handlers : DeliverCommand(k, h)
    <3>1. PICK k \in Clusters, h \in Handlers : DeliverCommand(k, h)
      BY <2>2
    <3>2. PICK c \in Commands : c = poll[h].cmd /\ Holds(h, c)
      BY <1>2, <3>1 DEF DeliverCommand, Holds, PollStates, FreeHandler, Handler
    <3>3. Untouched(c) /\ NextCommand(k, c)
      BY <3>1, <3>2 DEF OnePlace, HeldIsElsewhereNot, Held, DeliverCommand
    <3>4. CASE task' = task
      BY <1>1, <3>4 DEF CallsAgree, ResultFollowsRun
    <3> QED BY <1>3, <3>3, <3>4 DEF NextCommand
  <2>3. CASE \E k \in Clusters : CrashAgent(k)
    <3>1. \A d \in Commands : task'[d] = task[d] \/ task'[d] = EndedTask
      BY <2>3 DEF CrashAgent, AgentCrash
    <3> QED BY <1>1, <3>1 DEF CallsAgree, ResultFollowsRun, EndedTask
  <2> QED BY <2>1, <2>2, <2>3
<1>5. UploadCarriesResult' /\ ChannelCarriesResult'
  BY <1>1 DEF CallsAgree, UploadCarriesResult, ChannelCarriesResult
<1> QED BY <1>1, <1>4, <1>5, CallsKept DEF CallsAgree

\* The Server restarts: its calls are lost, its probes gone; what they were given
\* and what the Agents produced stays as it was.
LEMMA RestartAgrees ==
  ASSUME TypeOK, OnePlace, CallsAgree, RestartServer
  PROVE  CallsAgree'
<1>1. /\ UNCHANGED <<result, task, outcome, targets>>
      /\ chan' = [c \in Commands |-> None] /\ probes' = [c \in HTTPCommands |-> "none"]
  BY DEF RestartServer, BrokerRestart, PollsFail
<1>2. \A d \in Commands :
        call'[d] = IF call[d] \in Active THEN "lost" ELSE IF call[d] = "spawned" THEN "idle" ELSE call[d]
  BY DEF RestartServer, BrokerRestart
<1>3. \A d \in Commands, a \in Attempts : upload'[d][a] # "none" => upload[d][a] # "none"
  BY DEF RestartServer, BrokerRestart
<1>4. ResultFollowsRun' /\ UploadCarriesResult' /\ ChannelCarriesResult'
  BY <1>1, <1>3 DEF CallsAgree, ResultFollowsRun, UploadCarriesResult, ChannelCarriesResult
<1>5. \A d \in Commands : /\ call'[d] \notin Active \cup {"spawned"}
                          /\ call'[d] = "idle" => call[d] \in {"idle", "spawned"}
                          /\ call'[d] # "idle" => call[d] # "idle"
  BY <1>2 DEF Active
<1>6. AnswerIsResult'
  BY <1>1, <1>5 DEF CallsAgree, AnswerIsResult, Active
<1>7. ObserversNested'
  BY <1>1, <1>5 DEF CallsAgree, ObserversNested, ObserveCommands
<1>8. ProbeFollowsCall'
  BY <1>1, <1>5 DEF ProbeFollowsCall, HTTPCommands, Active
<1> QED BY <1>4, <1>6, <1>7, <1>8 DEF CallsAgree

\* Every step keeps the calls, the results and the probes in agreement.
LEMMA CallsAgreeNext == TypeOK /\ OnePlace /\ CallsAgree /\ [Next]_vars => CallsAgree'
<1> SUFFICES ASSUME TypeOK, OnePlace, CallsAgree, [Next]_vars PROVE CallsAgree'
  OBVIOUS
<1>1. CASE \E c \in Commands : CallStep(c)
  BY <1>1, CallResults, CallNesting DEF CallsAgree, AnswerIsResult, CallOutcome
<1>2. CASE \E c \in Commands : TaskStep(c) \/ SendResult(c) \/ AcknowledgeResult(c) \/ LoseResult(c)
  BY <1>2, TaskAgrees
<1>3. CASE \E c \in Commands, a \in Attempts : UploadStep(c, a)
  BY <1>3, UploadAgrees
<1>4. CASE \/ \E k \in Clusters : AgentStep(k) \/ CrashAgent(k)
           \/ \E k \in Clusters, h \in Handlers : DeliverCommand(k, h)
  BY <1>4, AgentAgrees
<1>5. CASE RestartServer
  BY <1>5, RestartAgrees
<1>6. CASE \/ \E h \in Handlers : PollStep(h)
           \/ \E k \in Clusters : SendOnce(k)
           \/ \E k \in Clusters, h \in Handlers :
                StartPoll(k, h) \/ DeliverNothing(k, h) \/ LosePoll(k, h)
           \/ UNCHANGED vars
  <2>1. UNCHANGED <<result, task, upload, chan, call, outcome, targets, probes>>
    BY <1>6 DEF PollStep, PollTake, PollCheck, PollTimer, PollDiscarded, SendOnce, ReceiveSnapshot,
       CommandsStart, StartPoll, NextAgentCommand, BeginPoll, DeliverNothing, PollAnswered, EndPoll,
       LosePoll, PollAbandoned, vars, brokerVars, agentVars, callVars
  <2>2. ResultFollowsRun' /\ UploadCarriesResult' /\ ChannelCarriesResult'
    BY <2>1 DEF CallsAgree, ResultFollowsRun, UploadCarriesResult, ChannelCarriesResult
  <2> QED BY <2>1, <2>2, CallsKept DEF CallsAgree
<1> QED BY <1>1, <1>2, <1>3, <1>4, <1>5, <1>6 DEF Next

\* Whatever is lost, retried or restarted: a call is only ever given what its own
\* command produced, and observations run inside the call of their probe.
THEOREM CallsAgreeHolds == Spec => []CallsAgree
<1>1. Init => CallsAgree
  BY CallsAgreeInit
<1>2. TypeOK /\ OnePlace /\ CallsAgree /\ [Next]_vars => CallsAgree'
  BY CallsAgreeNext
<1> QED BY <1>1, <1>2, TypeCorrect, OnePlaceHolds, PTL DEF Spec

\* An observation that ran has a probe whose own request ran and was answered with
\* a usable result: completeFederatedProbe starts after CreateProbe has its result.
THEOREM ObservationFollowsSourceHolds == Spec => []ObservationFollowsSource
<1>1. TypeOK /\ OnePlace /\ CallsAgree => ObservationFollowsSource
  <2> SUFFICES ASSUME TypeOK, OnePlace, CallsAgree, NEW o \in ObserveCommands, executed[o] > 0
               PROVE  executed[SourceOf[o]] > 0 /\ outcome[SourceOf[o]] \in Usable
    BY DEF ObservationFollowsSource
  <2>1. o \in Commands /\ SourceOf[o] \in Commands
    BY SourceAssumption DEF ObserveCommands, HTTPCommands
  <2>2. ~Untouched(o)
    BY <2>1 DEF OnePlace, ExecutedWithTask
  <2>3. call[o] # "idle"
    BY <2>1, <2>2 DEF OnePlace, NotYetSent
  <2>4. outcome[SourceOf[o]] \in Usable
    BY <2>3 DEF CallsAgree, ObserversNested
  <2>5. result[SourceOf[o]] # None
    BY <2>1, <2>4, NoneAssumption DEF CallsAgree, AnswerIsResult, Usable, Results
  <2>6. ~Untouched(SourceOf[o])
    BY <2>1, <2>5 DEF CallsAgree, ResultFollowsRun, Untouched
  <2>7. executed[SourceOf[o]] = 1
    BY <2>1, <2>6 DEF OnePlace, ExecutedWithTask
  <2> QED BY <2>4, <2>7
<1> QED BY <1>1, TypeCorrect, OnePlaceHolds, CallsAgreeHolds, PTL

\* What GetProbe shows is true: a running probe has a goroutine that will still
\* store its end; a completed one sent its request and has nothing under way.
THEOREM ProbeStateTrueHolds == Spec => []ProbeStateTrue
<1>1. OnePlace /\ CallsAgree => ProbeStateTrue
  <2> SUFFICES ASSUME OnePlace, CallsAgree, NEW c \in HTTPCommands
               PROVE  /\ probes[c] = "running" => call[c] \in {"registered", "waiting", "observing"}
                      /\ probes[c] = "completed" =>
                           /\ executed[c] > 0 /\ result[c] = "valid"
                           /\ \A o \in ObserversOf(c) : call[o] \in {"idle", "closed"}
    BY DEF ProbeStateTrue
  <2>1. c \in Commands
    BY DEF HTTPCommands
  <2>2. probes[c] = "running" => call[c] \in {"registered", "waiting", "observing"}
    BY DEF CallsAgree, ProbeFollowsCall
  <2>3. ASSUME probes[c] = "completed"
        PROVE  /\ executed[c] > 0 /\ result[c] = "valid"
               /\ \A o \in ObserversOf(c) : call[o] \in {"idle", "closed"}
    <3>1. outcome[c] = "valid" /\ \A o \in ObserversOf(c) : call[o] \in {"idle", "closed"}
      BY <2>3 DEF CallsAgree, ProbeFollowsCall
    <3>2. result[c] = "valid" /\ result[c] # None
      BY <2>1, <3>1, NoneAssumption DEF CallsAgree, AnswerIsResult, Results
    <3>3. executed[c] = 1
      BY <2>1, <3>2 DEF CallsAgree, ResultFollowsRun, OnePlace, ExecutedWithTask, Untouched
    <3> QED BY <3>1, <3>2, <3>3
  <2> QED BY <2>2, <2>3
<1> QED BY <1>1, OnePlaceHolds, CallsAgreeHolds, PTL

\* An ended probe stays as it ended while the Server runs: storeProbe and failProbe
\* write only for a call that is still under way.
THEOREM ProbeEndIsFinalHolds == Spec => ProbeEndIsFinal
<1> DEFINE Final == \A c \in HTTPCommands :
                      probes[c] \in {"completed", "failed"} /\ serverRestarts' = serverRestarts
                        => probes'[c] = probes[c]
<1>1. TypeOK /\ CallsAgree /\ [Next]_vars => [Final]_vars
  <2> SUFFICES ASSUME TypeOK, CallsAgree, [Next]_vars,
                      NEW c \in HTTPCommands, probes[c] \in {"completed", "failed"},
                      serverRestarts' = serverRestarts
               PROVE  probes'[c] = probes[c]
    OBVIOUS
  <2>1. /\ probes \in [HTTPCommands -> ProbeStates] /\ serverRestarts \in Nat
    BY FaultAssumption DEF TypeOK, BrokerTypeOK
  <2>2. call[c] \notin {"idle", "registered", "waiting", "observing"}
    BY DEF CallsAgree, ProbeFollowsCall
  <2>3. CASE \E d \in Commands : CallStep(d)
    <3>1. PICK d \in Commands : CallStep(d)
      BY <2>3
    <3>2. probes'[c] = probes[c] \/ (d = c /\ call[d] \in {"idle", "registered", "waiting", "observing"})
      BY <2>1, <3>1 DEF CallStep, EnvoyConfig, CreateProbe, ExecuteProbeCommand, Register, Enqueue,
         EnqueueFails, WaitCanceled, WaitTimedOut, GiveUp, FailProbe, ReceiveResult, ProbeAfter,
         FinishProbe, Close, ClientDisconnects, DeadlinePasses, callVars
    <3> QED BY <2>2, <3>2
  <2>4. CASE RestartServer
    BY <2>1, <2>4 DEF RestartServer
  <2>5. CASE ~RestartServer /\ ~\E d \in Commands : CallStep(d)
    BY <2>5 DEF Next, PollStep, PollTake, PollCheck, PollTimer, PollDiscarded, SendOnce, ReceiveSnapshot,
       StartPoll, NextAgentCommand, DeliverCommand, DeliverNothing, PollAnswered, LosePoll, PollAbandoned,
       UploadStep, CompleteLookup, CompleteSend, CompleteCanceled, TaskStep, SendResult, UploadArrives,
       AcknowledgeResult, LoseResult, AgentStep, CrashAgent, vars, brokerVars, callVars
  <2> QED BY <2>3, <2>4, <2>5
<1> QED BY <1>1, TypeCorrect, CallsAgreeHolds, PTL DEF Spec, ProbeEndIsFinal

-----------------------------------------------------------------------------
(* The refinement of CommandRPC                                            *)

\* What CommandRPC sees of a step that it takes no part in.
Stutters == UNCHANGED <<Phase, Handed, executed, result, Answered>>

\* The phase of a call, state by state.
LEMMA PhaseOf ==
  ASSUME NEW c \in Commands
  PROVE  /\ call[c] \in {"idle", "spawned"} => Phase[c] = "idle"
         /\ call[c] \in {"closed", "lost"} => Phase[c] = "closed"
         /\ call[c] \in Active /\ outcome[c] \in Results => Phase[c] = "answered"
         /\ call[c] \in Active /\ outcome[c] \notin Results => Phase[c] = "open"
         /\ Answered[c] = IF outcome[c] \in Results THEN outcome[c] ELSE None
  BY DEF Phase, Answered, Active

\* The same after a step.
LEMMA PhaseOfNext ==
  ASSUME NEW c \in Commands
  PROVE  /\ call'[c] \in {"idle", "spawned"} => Phase'[c] = "idle"
         /\ call'[c] \in {"closed", "lost"} => Phase'[c] = "closed"
         /\ call'[c] \in Active /\ outcome'[c] \in Results => Phase'[c] = "answered"
         /\ call'[c] \in Active /\ outcome'[c] \notin Results => Phase'[c] = "open"
         /\ Answered'[c] = IF outcome'[c] \in Results THEN outcome'[c] ELSE None
  BY DEF Phase, Answered, Active

\* The views are functions on the commands.
LEMMA ViewDomains ==
  /\ Phase = [c \in Commands |-> Phase[c]] /\ Phase' = [c \in Commands |-> Phase'[c]]
  /\ Answered = [c \in Commands |-> Answered[c]] /\ Answered' = [c \in Commands |-> Answered'[c]]
  /\ Handed = [c \in Commands |-> InHand(c)] /\ Handed' = [c \in Commands |-> InHand(c)']
  BY DEF Phase, Answered, Handed

\* A step that moves no command into or out of an Agent's hands.
LEMMA HandedSame ==
  ASSUME \A c \in Commands : InHand(c)' <=> InHand(c)
  PROVE  Handed' = Handed
<1>1. \A c \in Commands : InHand(c) \in BOOLEAN /\ InHand(c)' \in BOOLEAN
  BY DEF InHand
<1>2. \A c \in Commands : InHand(c)' = InHand(c)
  BY <1>1, Zenon
<1> QED BY <1>2, Zenon DEF Handed

\* A step that hands out or takes back one command.
LEMMA HandedOne ==
  ASSUME NEW c \in Commands, NEW b \in BOOLEAN, InHand(c)' <=> b,
         \A d \in Commands \ {c} : InHand(d)' <=> InHand(d)
  PROVE  Handed' = [Handed EXCEPT ![c] = b]
<1>1. \A d \in Commands : InHand(d) \in BOOLEAN /\ InHand(d)' \in BOOLEAN
  BY DEF InHand
<1>2. InHand(c)' = b /\ \A d \in Commands \ {c} : InHand(d)' = InHand(d)
  BY <1>1, Zenon
<1>3. DOMAIN Handed = Commands /\ \A d \in Commands : Handed[d] = InHand(d)
  BY Zenon DEF Handed
<1>4. Handed' = [d \in Commands |-> InHand(d)']
  BY DEF Handed
<1>5. [Handed EXCEPT ![c] = b] = [d \in Commands |-> IF d = c THEN b ELSE Handed[d]]
  BY <1>3, Zenon
<1>6. \A d \in Commands : InHand(d)' = IF d = c THEN b ELSE Handed[d]
  BY <1>2, <1>3, Zenon
<1> QED BY <1>4, <1>5, <1>6, Zenon

\* The start: no call, nothing handed out, nothing run.
LEMMA MapsInit == Init => RPC!RPCInit
<1> SUFFICES ASSUME Init PROVE RPC!RPCInit
  OBVIOUS
<1>1. Phase = [c \in Commands |-> "idle"]
  BY DEF Init, BrokerInit, Phase
<1>2. Handed = [c \in Commands |-> FALSE]
  <2>1. \A c \in Commands : ~InHand(c)
    BY DEF Init, BrokerInit, AgentInit, InHand, FreeHandler, Handler, IdleLoop
  <2>2. \A c \in Commands : InHand(c) = FALSE
    BY <2>1, Zenon DEF InHand
  <2> QED BY <2>2, Zenon DEF Handed
<1>3. Answered = [c \in Commands |-> None]
  BY NoneAssumption DEF Init, BrokerInit, Answered, Results
<1> QED BY <1>1, <1>2, <1>3 DEF Init, AgentInit, RPC!RPCInit

\* A step of a call opens it, answers it, closes it, or is its own business.
LEMMA CallMaps ==
  ASSUME TypeOK, OnePlace, CallsAgree, NEW c \in Commands, CallStep(c)
  PROVE  RPC!RPCNext \/ Stutters
<1>1. UNCHANGED <<poll, loop, executed, result>>
  BY DEF CallStep, EnvoyConfig, CreateProbe, ExecuteProbeCommand, Register, Enqueue, EnqueueFails,
       WaitCanceled, WaitTimedOut, GiveUp, ReceiveResult, FinishProbe, Close, ClientDisconnects,
       DeadlinePasses, agentVars
<1>2. Handed' = Handed
  BY <1>1, HandedSame DEF InHand
<1>3. /\ call \in [Commands -> CallStates]
      /\ outcome \in [Commands -> Results \cup Failures \cup {None}]
      /\ chan \in [Commands -> Results \cup {None}]
  BY DEF TypeOK, BrokerTypeOK
<1>4. None \notin Results /\ None \notin Usable /\ Failures \cap Results = {}
  BY NoneAssumption DEF Results, Failures, Usable
<1>5. \A d \in Commands :
        call[d] \in {"idle", "spawned", "registered", "waiting"} => outcome[d] = None
  BY DEF CallsAgree, AnswerIsResult
<1>6. \A d \in Commands : call'[d] = call[d] /\ outcome'[d] = outcome[d]
                            => Phase'[d] = Phase[d] /\ Answered'[d] = Answered[d]
  BY DEF Phase, Answered
<1>7. ASSUME call[c] \in {"idle", "spawned"}, UNCHANGED outcome,
             call' = [call EXCEPT ![c] = "registered"],
             Kind[c] = "observe" => call[c] = "spawned"
      PROVE  RPC!Open(c)
  <2>1. Phase[c] = "idle" /\ Phase'[c] = "open"
    BY <1>3, <1>4, <1>5, <1>7, PhaseOf, PhaseOfNext DEF Active
  <2>2. Phase' = [Phase EXCEPT ![c] = "open"] /\ Answered' = Answered
    <3>1. \A d \in Commands \ {c} : Phase'[d] = Phase[d]
      BY <1>3, <1>6, <1>7
    <3> QED BY <1>7, <2>1, <3>1, ViewDomains DEF Answered
  <2>3. ASSUME Kind[c] = "observe"
        PROVE  Phase[SourceOf[c]] = "answered" /\ Answered[SourceOf[c]] \in Usable
    <3>1. c \in ObserveCommands /\ SourceOf[c] \in Commands
      BY <2>3, SourceAssumption DEF ObserveCommands, HTTPCommands
    <3>2. call[SourceOf[c]] = "observing" /\ outcome[SourceOf[c]] \in Usable
      BY <1>7, <2>3, <3>1 DEF CallsAgree, ObserversNested
    <3>3. outcome[SourceOf[c]] \in Results
      BY <3>2 DEF Usable, Results
    <3> QED BY <3>1, <3>2, <3>3, PhaseOf DEF Active
  <2> QED BY <1>1, <1>2, <2>1, <2>2, <2>3 DEF RPC!Open, RPC!Usable, Usable
<1>8. CASE EnvoyConfig(c) \/ CreateProbe(c) \/ ExecuteProbeCommand(c)
  <2>1. RPC!Open(c)
    BY <1>7, <1>8 DEF EnvoyConfig, CreateProbe, ExecuteProbeCommand, Register
  <2> QED BY <2>1 DEF RPC!RPCNext
<1>9. ASSUME \A d \in Commands : Phase'[d] = Phase[d] /\ Answered'[d] = Answered[d] PROVE Stutters
  BY <1>1, <1>2, <1>9, ViewDomains DEF Stutters
<1>10. CASE Enqueue(c)
  <2>1. call' = [call EXCEPT ![c] = "waiting"] /\ UNCHANGED outcome /\ call[c] = "registered"
    BY <1>10 DEF Enqueue
  <2>2. Phase'[c] = Phase[c] /\ Answered'[c] = Answered[c]
    BY <1>3, <2>1, PhaseOf, PhaseOfNext DEF Active
  <2> QED BY <1>3, <1>6, <1>9, <2>1, <2>2
<1>11. CASE EnqueueFails(c) \/ WaitCanceled(c) \/ WaitTimedOut(c)
  <2>1. PICK why \in Failures : call[c] \in {"registered", "waiting"} /\ GiveUp(c, why)
    BY <1>11 DEF EnqueueFails, WaitCanceled, WaitTimedOut, Failures
  <2>2. call' = [call EXCEPT ![c] = "returning"] /\ outcome' = [outcome EXCEPT ![c] = why]
    BY <2>1 DEF GiveUp
  <2>3. Phase'[c] = Phase[c] /\ Answered'[c] = Answered[c]
    BY <1>3, <1>4, <1>5, <2>1, <2>2, PhaseOf, PhaseOfNext DEF Active
  <2> QED BY <1>3, <1>6, <1>9, <2>2, <2>3
<1>12. CASE ReceiveResult(c)
  <2>1. /\ call[c] = "waiting" /\ chan[c] # None /\ outcome' = [outcome EXCEPT ![c] = chan[c]]
        /\ call'[c] \in {"observing", "returning"}
    BY <1>12 DEF ReceiveResult
  <2>2. chan[c] = result[c] /\ result[c] \in Results
    BY <1>3, <2>1 DEF CallsAgree, ChannelCarriesResult
  <2>3. Phase[c] = "open" /\ Phase'[c] = "answered" /\ Answered'[c] = result[c]
    BY <1>3, <1>4, <1>5, <2>1, <2>2, PhaseOf, PhaseOfNext DEF Active
  <2>4. \A d \in Commands \ {c} : Phase'[d] = Phase[d] /\ Answered'[d] = Answered[d]
    <3> SUFFICES ASSUME NEW d \in Commands \ {c}
                 PROVE  Phase'[d] = Phase[d] /\ Answered'[d] = Answered[d]
      OBVIOUS
    <3>1. outcome'[d] = outcome[d]
      BY <1>3, <2>1
    <3>2. CASE Observes(c, chan[c]) /\ d \in targets[c]
      <4>1. c \in HTTPCommands
        BY <3>2 DEF Observes, HTTPCommands
      <4>2. d \in ObserveCommands /\ SourceOf[d] = c
        BY <3>2, <4>1 DEF OnePlace, TargetsObserve, ObserversOf
      <4>3. call[d] = "idle"
        BY <2>1, <4>2 DEF OnePlace, ObserversWait
      <4>4. call'[d] = "spawned"
        BY <1>12, <3>2 DEF ReceiveResult
      <4> QED BY <3>1, <4>3, <4>4, PhaseOf, PhaseOfNext
    <3>3. CASE ~(Observes(c, chan[c]) /\ d \in targets[c])
      BY <1>6, <1>12, <3>1, <3>3 DEF ReceiveResult
    <3> QED BY <3>2, <3>3
  <2>5. /\ Phase' = [Phase EXCEPT ![c] = "answered"]
        /\ Answered' = [Answered EXCEPT ![c] = result[c]]
    BY <2>3, <2>4, ViewDomains
  <2>6. RPC!Answer(c)
    BY <1>1, <1>2, <1>4, <2>2, <2>3, <2>5 DEF RPC!Answer
  <2> QED BY <2>6 DEF RPC!RPCNext
<1>13. CASE FinishProbe(c)
  <2>1. call' = [call EXCEPT ![c] = "returning"] /\ UNCHANGED outcome /\ call[c] = "observing"
    BY <1>13 DEF FinishProbe
  <2>2. Phase'[c] = Phase[c] /\ Answered'[c] = Answered[c]
    BY <1>3, <2>1, PhaseOf, PhaseOfNext DEF Active
  <2> QED BY <1>3, <1>6, <1>9, <2>1, <2>2
<1>14. CASE Close(c)
  <2>1. call' = [call EXCEPT ![c] = "closed"] /\ UNCHANGED outcome /\ call[c] = "returning"
    BY <1>14 DEF Close
  <2>2. Phase[c] \in {"open", "answered"} /\ Phase'[c] = "closed"
    BY <1>3, <2>1, PhaseOf, PhaseOfNext DEF Active
  <2>3. Phase' = [Phase EXCEPT ![c] = "closed"] /\ Answered' = Answered
    <3>1. \A d \in Commands \ {c} : Phase'[d] = Phase[d]
      BY <1>3, <1>6, <2>1
    <3> QED BY <2>1, <2>2, <3>1, ViewDomains DEF Answered
  <2>4. ASSUME NEW o \in ObserversOf(c) PROVE Phase[o] \in {"idle", "closed"}
    <3>1. o \in Commands /\ o \in ObserveCommands /\ SourceOf[o] = c
      BY DEF ObserversOf, ObserveCommands
    <3>2. call[o] \notin Active \cup {"spawned"}
      BY <2>1, <3>1 DEF CallsAgree, ObserversNested
    <3>3. call[o] \in {"idle", "closed", "lost"}
      BY <1>3, <3>1, <3>2 DEF CallStates
    <3> QED BY <3>1, <3>3, PhaseOf
  <2>5. RPC!CloseCall(c)
    BY <1>1, <1>2, <2>2, <2>3, <2>4
       DEF RPC!CloseCall, RPC!ObserversOf, RPC!ObserveCommands, ObserversOf, ObserveCommands
  <2> QED BY <2>5 DEF RPC!RPCNext
<1>15. CASE ClientDisconnects(c) \/ DeadlinePasses(c)
  <2>1. UNCHANGED <<call, outcome>>
    BY <1>15 DEF ClientDisconnects, DeadlinePasses, callVars
  <2> QED BY <1>6, <1>9, <2>1
<1> QED BY <1>8, <1>10, <1>11, <1>12, <1>13, <1>14, <1>15 DEF CallStep

\* The views of a step that leaves the calls alone.
LEMMA CallViewsSame ==
  ASSUME UNCHANGED <<call, outcome>>
  PROVE  Phase' = Phase /\ Answered' = Answered
  BY DEF Phase, Answered

\* Looking at the pending commands hands one out; ending an abandoned poll loses one.
LEMMA PollMaps ==
  ASSUME TypeOK, OnePlace, PendingIsActive, CallsAgree, NEW h \in Handlers, PollStep(h)
  PROVE  RPC!RPCNext \/ Stutters
<1>1. UNCHANGED <<loop, task, executed, result, call, outcome>>
  BY DEF PollStep, PollTake, PollCheck, PollTimer, PollDiscarded, callVars, agentVars
<1>2. Phase' = Phase /\ Answered' = Answered
  BY <1>1, CallViewsSame
<1>3. poll \in [Handlers -> PollStates]
  BY DEF TypeOK, BrokerTypeOK
<1>4. \A g \in Handlers \ {h} : poll'[g] = poll[g]
  BY <1>3 DEF PollStep, PollTake, PollCheck, PollTimer, PollDiscarded
<1>5. \A d \in Commands, g \in Handlers : Holds(g, d) /\ Holds(h, d) => g = h
  BY DEF OnePlace, HeldOnce
<1>6. CASE poll[h].pc # "reply" /\ poll'[h].pc # "reply"
  <2>1. \A d \in Commands : InHand(d)' <=> InHand(d)
    BY <1>1, <1>4, <1>6 DEF InHand
  <2> QED BY <1>1, <1>2, <2>1, HandedSame DEF Stutters
<1>7. CASE poll[h].pc # "reply" /\ poll'[h].pc = "reply"
  <2>1. /\ poll[h].pc = "popped" /\ poll[h].cmd \in pending
        /\ poll'[h].cmd = poll[h].cmd
    BY <1>3, <1>7 DEF PollStep, PollTake, PollCheck, PollTimer, PollDiscarded, Handler, FreeHandler
  <2>2. PICK c \in Commands : c = poll[h].cmd
    BY <1>3, <2>1 DEF PollStates, FreeHandler, Handler
  <2>3. Holds(h, c)
    BY <2>1, <2>2 DEF Holds
  <2>4. ~Looped(c) /\ Untouched(c)
    BY <2>3 DEF OnePlace, HeldIsElsewhereNot, Held
  <2>5. ~InHand(c)
    BY <1>5, <2>1, <2>3, <2>4 DEF InHand, Holds, Looped, AtLoop
  <2>6. InHand(c)' /\ \A d \in Commands \ {c} : InHand(d)' <=> InHand(d)
    <3>1. InHand(c)'
      BY <1>7, <2>1, <2>2 DEF InHand
    <3>2. ASSUME NEW d \in Commands \ {c} PROVE InHand(d)' <=> InHand(d)
      BY <1>1, <1>4, <1>7, <2>1, <2>2 DEF InHand
    <3> QED BY <3>1, <3>2
  <2>7. executed[c] = 0 /\ result[c] = None
    BY <2>4 DEF OnePlace, ExecutedWithTask, CallsAgree, ResultFollowsRun, Untouched
  <2>8. outcome[c] \notin Results
    BY <2>7, NoneAssumption DEF CallsAgree, AnswerIsResult, Results
  <2>9. call[c] \in Active
    BY <2>1, <2>2 DEF PendingIsActive
  <2>10. Phase[c] = "open"
    BY <2>8, <2>9, PhaseOf
  <2>11. Handed' = [Handed EXCEPT ![c] = TRUE] /\ ~Handed[c]
    BY <2>5, <2>6, HandedOne, Zenon DEF Handed
  <2>12. RPC!HandOut(c)
    BY <1>1, <1>2, <2>7, <2>10, <2>11 DEF RPC!HandOut
  <2> QED BY <2>12 DEF RPC!RPCNext
<1>8. CASE poll[h].pc = "reply"
  <2>1. PICK c \in Commands : c = poll[h].cmd
    BY <1>3, <1>8 DEF PollStates, FreeHandler, Handler
  <2>2. poll'[h] = FreeHandler
    BY <1>3, <1>8 DEF PollStep, PollTake, PollCheck, PollTimer, PollDiscarded
  <2>3. Holds(h, c) /\ ~Looped(c)
    BY <1>8, <2>1 DEF OnePlace, HeldIsElsewhereNot, Held, Holds
  <2>4. InHand(c)
    BY <1>8, <2>1 DEF InHand
  <2>5. ~InHand(c)'
    BY <1>1, <1>4, <1>5, <2>2, <2>3 DEF InHand, Holds, Looped, AtLoop, FreeHandler, Handler
  <2>6. \A d \in Commands \ {c} : InHand(d)' <=> InHand(d)
    BY <1>1, <1>4, <1>8, <2>1, <2>2 DEF InHand, FreeHandler, Handler
  <2>7. Handed' = [Handed EXCEPT ![c] = FALSE] /\ Handed[c]
    BY <2>4, <2>5, <2>6, HandedOne, Zenon DEF Handed
  <2>8. RPC!Lose(c)
    BY <1>1, <1>2, <2>7 DEF RPC!Lose
  <2> QED BY <2>8 DEF RPC!RPCNext
<1> QED BY <1>6, <1>7, <1>8

\* A command leaves the hands it was in and begins.
LEMMA BeginMaps ==
  ASSUME TypeOK, OnePlace, NEW c \in Commands, BeginTask(c), Untouched(c),
         UNCHANGED <<call, outcome, result>>, InHand(c), ~InHand(c)',
         \A d \in Commands \ {c} : InHand(d)' <=> InHand(d)
  PROVE  RPC!RPCNext
<1>1. Phase' = Phase /\ Answered' = Answered
  BY CallViewsSame
<1>2. executed[c] = 0
  BY DEF OnePlace, ExecutedWithTask
<1>3. executed' = [executed EXCEPT ![c] = 1]
  <2>1. executed' = [executed EXCEPT ![c] = executed[c] + 1]
    BY DEF BeginTask
  <2>2. executed[c] + 1 = 1
    BY <1>2
  <2> QED BY <2>1, <2>2
<1>4. Handed' = [Handed EXCEPT ![c] = FALSE] /\ Handed[c]
  BY HandedOne, Zenon DEF Handed
<1>5. RPC!Run(c)
  BY <1>1, <1>2, <1>3, <1>4 DEF RPC!Run
<1> QED BY <1>5 DEF RPC!RPCNext

\* A free observer slot: the observation in hand runs.
LEMMA DispatchMaps ==
  ASSUME TypeOK, OnePlace, NEW k \in Clusters, AgentStep(k)
  PROVE  RPC!RPCNext
<1>1. /\ UNCHANGED <<poll, call, outcome, result>> /\ loop' = [loop EXCEPT ![k] = IdleLoop]
      /\ loop[k].pc = "dispatch" /\ loop \in [Clusters -> LoopStates]
  BY DEF AgentStep, Dispatch, brokerVars, TypeOK, AgentTypeOK
<1>2. PICK c \in Commands : c = loop[k].cmd
  BY <1>1 DEF LoopStates
<1>3. AtLoop(k, c) /\ Looped(c) /\ BeginTask(c)
  BY <1>1, <1>2 DEF AtLoop, Looped, AgentStep, Dispatch
<1>4. Untouched(c) /\ ~Held(c) /\ \A j \in Clusters : AtLoop(j, c) => j = k
  BY <1>3 DEF OnePlace, LoopedIsUntouched, HeldIsElsewhereNot, LoopedOwn
<1>5. InHand(c)
  BY <1>1, <1>2 DEF InHand
<1>6. ~InHand(c)'
  BY <1>1, <1>4 DEF InHand, Held, Holds, AtLoop, IdleLoop
<1>7. \A d \in Commands \ {c} : InHand(d)' <=> InHand(d)
  BY <1>1, <1>2 DEF InHand, IdleLoop
<1> QED BY <1>1, <1>3, <1>4, <1>5, <1>6, <1>7, BeginMaps

\* A delivered command is lost, stays in hand, or runs.
LEMMA DeliverMaps ==
  ASSUME TypeOK, OnePlace, NEW k \in Clusters, NEW h \in Handlers, DeliverCommand(k, h)
  PROVE  RPC!RPCNext \/ Stutters
<1>1. UNCHANGED <<call, outcome, result>> /\ poll' = [poll EXCEPT ![h] = FreeHandler]
  BY DEF DeliverCommand, PollAnswered, NextCommand, callVars
<1>2. /\ poll \in [Handlers -> PollStates] /\ loop \in [Clusters -> LoopStates]
      /\ poll[h].pc = "reply" /\ loop[k].pc = "polling"
  BY DEF TypeOK, BrokerTypeOK, AgentTypeOK, DeliverCommand, NextCommand
<1>3. PICK c \in Commands : c = poll[h].cmd
  BY <1>2 DEF PollStates, FreeHandler, Handler
<1>4. Holds(h, c) /\ ~Looped(c) /\ Untouched(c) /\ InHand(c)
  BY <1>2, <1>3 DEF OnePlace, HeldIsElsewhereNot, Held, Holds, InHand
<1>5. \A g \in Handlers : /\ poll'[g].pc = "reply" => g # h /\ poll'[g] = poll[g]
                          /\ g # h => poll'[g] = poll[g]
  BY <1>1, <1>2 DEF FreeHandler, Handler
<1>6. \A g \in Handlers : poll'[g].pc = "reply" => poll'[g].cmd # c
  BY <1>4, <1>5 DEF OnePlace, HeldOnce, Holds
<1>7. Phase' = Phase /\ Answered' = Answered
  BY <1>1, CallViewsSame
<1>8. NextCommand(k, c)
  BY <1>3 DEF DeliverCommand
<1>9. ASSUME NEW l, l.pc # "dispatch", loop' = [loop EXCEPT ![k] = l]
      PROVE  ~InHand(c)' /\ \A d \in Commands \ {c} : InHand(d)' <=> InHand(d)
  <2>1. \A j \in Clusters : /\ loop'[j].pc = "dispatch" => loop'[j] = loop[j]
                            /\ loop[j].pc = "dispatch" => loop'[j] = loop[j]
    BY <1>2, <1>9
  <2>2. ~InHand(c)'
    BY <1>4, <1>6, <2>1 DEF InHand, Looped, AtLoop
  <2>3. \A d \in Commands \ {c} : InHand(d)' <=> InHand(d)
    BY <1>3, <1>5, <2>1 DEF InHand
  <2> QED BY <2>2, <2>3
<1>10. CASE UNCHANGED <<task, executed>> /\ loop' = [loop EXCEPT ![k] = IdleLoop]
  <2>1. ~InHand(c)' /\ \A d \in Commands \ {c} : InHand(d)' <=> InHand(d)
    BY <1>9, <1>10 DEF IdleLoop
  <2>2. Handed' = [Handed EXCEPT ![c] = FALSE] /\ Handed[c]
    BY <1>4, <2>1, HandedOne, Zenon DEF Handed
  <2>3. RPC!Lose(c)
    BY <1>1, <1>7, <1>10, <2>2 DEF RPC!Lose
  <2> QED BY <2>3 DEF RPC!RPCNext
<1>11. CASE /\ UNCHANGED <<task, executed>>
            /\ loop' = [loop EXCEPT ![k] = [pc |-> "dispatch", cmd |-> c]]
  <2>1. /\ loop'[k].pc = "dispatch" /\ loop'[k].cmd = c
        /\ \A j \in Clusters \ {k} : loop'[j] = loop[j]
    BY <1>2, <1>11
  <2>2. InHand(c)'
    BY <2>1 DEF InHand
  <2>3. \A d \in Commands \ {c} : InHand(d)' <=> InHand(d)
    BY <1>2, <1>3, <1>5, <2>1 DEF InHand
  <2>4. Handed' = Handed
    BY <1>4, <2>2, <2>3, HandedSame
  <2> QED BY <1>1, <1>7, <1>11, <2>4 DEF Stutters
<1>12. CASE /\ BeginTask(c)
            /\ loop' = [loop EXCEPT ![k] = [pc |-> "serial", cmd |-> c]]
  <2>1. ~InHand(c)' /\ \A d \in Commands \ {c} : InHand(d)' <=> InHand(d)
    BY <1>9, <1>12
  <2> QED BY <1>1, <1>4, <1>12, <2>1, BeginMaps
<1> QED BY <1>8, <1>10, <1>11, <1>12 DEF NextCommand

\* A step that only frees loops which wait for no slot, or starts polls.
LEMMA LoopsMap ==
  ASSUME UNCHANGED <<call, outcome, executed, result>>,
         \A g \in Handlers : \/ poll'[g].pc = poll[g].pc /\ poll'[g].cmd = poll[g].cmd
                             \/ poll[g].pc # "reply" /\ poll'[g].pc # "reply",
         \A k \in Clusters : \/ loop'[k].pc = loop[k].pc /\ loop'[k].cmd = loop[k].cmd
                             \/ loop[k].pc # "dispatch" /\ loop'[k].pc # "dispatch"
  PROVE  Stutters
<1>1. \A d \in Commands : InHand(d)' <=> InHand(d)
  BY DEF InHand
<1> QED BY <1>1, HandedSame, CallViewsSame DEF Stutters

\* The end of an execution produces the result; uploads are the parties' own business.
LEMMA TaskMaps ==
  ASSUME TypeOK, OnePlace, CallsAgree, NEW c \in Commands,
         TaskStep(c) \/ SendResult(c) \/ AcknowledgeResult(c) \/ LoseResult(c)
  PROVE  RPC!RPCNext \/ Stutters
<1>1. UNCHANGED <<call, outcome, executed, poll>>
  BY DEF TaskStep, ExecuteCommand, SendResult, SendCommandResult, UploadArrives, AcknowledgeResult,
         UploadSucceeds, LoseResult, UploadFails, brokerVars, callVars
<1>2. CASE TaskStep(c)
  <2>1. PICK r \in ResultsOf(c) : ExecuteCommand(c, r)
    BY <1>2 DEF TaskStep
  <2>2. task[c].pc = "executing" /\ result' = [result EXCEPT ![c] = r] /\ loop' = loop
    BY <2>1 DEF ExecuteCommand
  <2>3. result[c] = None /\ executed[c] = 1
    BY <2>2 DEF CallsAgree, ResultFollowsRun, OnePlace, ExecutedWithTask, Untouched
  <2>4. Handed' = Handed
    BY <1>1, <2>2, HandedSame DEF InHand
  <2>5. RPC!Produce(c)
    BY <1>1, <2>2, <2>3, <2>4, CallViewsSame DEF RPC!Produce, RPC!ResultsOf, ResultsOf
  <2> QED BY <2>5 DEF RPC!RPCNext
<1>3. CASE SendResult(c) \/ AcknowledgeResult(c) \/ LoseResult(c)
  <2>1. loop \in [Clusters -> LoopStates]
    BY DEF TypeOK, AgentTypeOK
  <2>2. /\ result' = result
        /\ \A k \in Clusters : loop'[k] = loop[k] \/ (loop[k].pc = "serial" /\ loop'[k] = IdleLoop)
    BY <1>3, <2>1 DEF SendResult, SendCommandResult, AcknowledgeResult, UploadSucceeds, LoseResult,
                      UploadFails, EndTask
  <2> QED BY <1>1, <2>2, LoopsMap DEF IdleLoop
<1> QED BY <1>2, <1>3

\* A process dies: calls end, and what was on its way may be lost.
LEMMA FaultMaps ==
  ASSUME TypeOK, OnePlace, RestartServer \/ \E k \in Clusters : CrashAgent(k)
  PROVE  RPC!RPCNext
<1>1. UNCHANGED <<outcome, executed, result>>
  BY DEF RestartServer, BrokerRestart, PollsFail, CrashAgent, AgentCrash, callVars
<1>2. /\ loop \in [Clusters -> LoopStates] /\ poll \in [Handlers -> PollStates]
      /\ call \in [Commands -> CallStates]
  BY DEF TypeOK, BrokerTypeOK, AgentTypeOK
<1>3. /\ \A g \in Handlers : poll'[g].pc = "reply" => poll[g].pc = "reply" /\ poll'[g].cmd = poll[g].cmd
      /\ \A j \in Clusters : loop'[j].pc = "dispatch" => loop[j].pc = "dispatch" /\ loop'[j].cmd = loop[j].cmd
  <2>1. CASE RestartServer
    BY <1>2, <2>1 DEF RestartServer, BrokerRestart, PollsFail, IdleLoop, FreeHandler, Handler
  <2>2. CASE \E k \in Clusters : CrashAgent(k)
    BY <1>2, <2>2 DEF CrashAgent, AgentCrash, IdleLoop, Handler
  <2> QED BY <2>1, <2>2
<1>4. \A d \in Commands : InHand(d)' => InHand(d)
  BY <1>3 DEF InHand
<1>5. Handed' \in [Commands -> BOOLEAN] /\ \A d \in Commands : Handed'[d] => Handed[d]
  <2>1. \A d \in Commands : InHand(d)' \in BOOLEAN
    BY DEF InHand
  <2> QED BY <1>4, <2>1, Zenon DEF Handed
<1>6. Phase' \in [Commands -> {"idle", "open", "answered", "closed"}]
  BY DEF Phase
<1>7. ASSUME NEW d \in Commands, Phase'[d] # Phase[d]
      PROVE  /\ Phase'[d] = "closed" /\ Phase[d] \in {"open", "answered"}
             /\ \A o \in ObserversOf(d) : Phase'[o] \in {"idle", "closed"}
  <2>1. CASE RestartServer
    <3>1. \A e \in Commands :
            call'[e] = IF call[e] \in Active THEN "lost" ELSE IF call[e] = "spawned" THEN "idle" ELSE call[e]
      BY <2>1 DEF RestartServer, BrokerRestart
    <3>2. \A e \in Commands : call'[e] \in {"idle", "closed", "lost"}
      BY <1>2, <3>1 DEF CallStates
    <3>3. \A e \in Commands : Phase'[e] \in {"idle", "closed"}
      BY <3>2, PhaseOfNext
    <3>4. call[d] \in Active
      BY <1>1, <1>2, <1>7, <3>1, PhaseOf, PhaseOfNext DEF CallStates
    <3>5. Phase[d] \in {"open", "answered"} /\ Phase'[d] = "closed"
      BY <3>1, <3>4, PhaseOf, PhaseOfNext
    <3> QED BY <3>3, <3>5 DEF ObserversOf, ObserveCommands
  <2>2. CASE \E k \in Clusters : CrashAgent(k)
    <3>1. UNCHANGED <<call, outcome>>
      BY <2>2 DEF CrashAgent, callVars
    <3> QED BY <1>7, <3>1, CallViewsSame
  <2> QED BY <2>1, <2>2
<1>8. Answered' = Answered
  BY <1>1 DEF Answered
<1>9. RPC!Fault
  BY <1>1, <1>5, <1>6, <1>7, <1>8
     DEF RPC!Fault, RPC!ObserversOf, RPC!ObserveCommands, ObserversOf, ObserveCommands
<1> QED BY <1>9 DEF RPC!RPCNext

\* Every step of the system is a step of CommandRPC or none: one case per action.
LEMMA MapsNext ==
  TypeOK /\ OnePlace /\ PendingIsActive /\ CallsAgree /\ [Next]_vars => RPC!RPCNext \/ Stutters
<1> SUFFICES ASSUME TypeOK, OnePlace, PendingIsActive, CallsAgree, [Next]_vars
             PROVE  RPC!RPCNext \/ Stutters
  OBVIOUS
<1>1. CASE \E c \in Commands : CallStep(c)
  BY <1>1, CallMaps
<1>2. CASE \E c \in Commands : TaskStep(c) \/ SendResult(c) \/ AcknowledgeResult(c) \/ LoseResult(c)
  BY <1>2, TaskMaps
<1>3. CASE \E h \in Handlers : PollStep(h)
  BY <1>3, PollMaps
<1>4. CASE \E k \in Clusters : AgentStep(k)
  BY <1>4, DispatchMaps
<1>5. CASE \E k \in Clusters, h \in Handlers : DeliverCommand(k, h)
  BY <1>5, DeliverMaps
<1>6. CASE RestartServer \/ \E k \in Clusters : CrashAgent(k)
  BY <1>6, FaultMaps
<1>7. CASE \/ \E c \in Commands, a \in Attempts : UploadStep(c, a)
           \/ \E k \in Clusters : SendOnce(k)
           \/ UNCHANGED vars
  <2>1. UNCHANGED <<call, outcome, executed, result, poll, loop>>
    BY <1>7 DEF UploadStep, CompleteLookup, CompleteSend, CompleteCanceled, SendOnce, ReceiveSnapshot,
       CommandsStart, vars, brokerVars, agentVars, callVars
  <2> QED BY <2>1, LoopsMap
<1>8. CASE \E k \in Clusters, h \in Handlers :
             StartPoll(k, h) \/ DeliverNothing(k, h) \/ LosePoll(k, h)
  <2>1. PICK k \in Clusters, h \in Handlers : StartPoll(k, h) \/ DeliverNothing(k, h) \/ LosePoll(k, h)
    BY <1>8
  <2>2. poll \in [Handlers -> PollStates] /\ loop \in [Clusters -> LoopStates]
    BY DEF TypeOK, BrokerTypeOK, AgentTypeOK
  <2>3. UNCHANGED <<call, outcome, executed, result>>
    BY <2>1 DEF StartPoll, NextAgentCommand, BeginPoll, DeliverNothing, PollAnswered, EndPoll,
                LosePoll, PollAbandoned, callVars
  <2>4. \A g \in Handlers : \/ poll'[g].pc = poll[g].pc /\ poll'[g].cmd = poll[g].cmd
                            \/ poll[g].pc # "reply" /\ poll'[g].pc # "reply"
    BY <2>1, <2>2 DEF StartPoll, NextAgentCommand, DeliverNothing, PollAnswered, LosePoll,
                      PollAbandoned, Handler, FreeHandler
  <2>5. \A j \in Clusters : \/ loop'[j].pc = loop[j].pc /\ loop'[j].cmd = loop[j].cmd
                            \/ loop[j].pc # "dispatch" /\ loop'[j].pc # "dispatch"
    <3>1. loop[k].pc \in {"idle", "polling"}
      BY <2>1 DEF StartPoll, BeginPoll, DeliverNothing, EndPoll, LosePoll
    <3>2. loop' = [loop EXCEPT ![k].pc = "polling"] \/ loop' = [loop EXCEPT ![k] = IdleLoop]
      BY <2>1 DEF StartPoll, BeginPoll, DeliverNothing, EndPoll, LosePoll
    <3>3. loop'[k].pc # "dispatch" /\ \A j \in Clusters \ {k} : loop'[j] = loop[j]
      BY <2>2, <3>2 DEF LoopStates, IdleLoop
    <3> QED BY <3>1, <3>3
  <2> QED BY <2>3, <2>4, <2>5, LoopsMap
<1> QED BY <1>1, <1>2, <1>3, <1>4, <1>5, <1>6, <1>7, <1>8 DEF Next

\* The command broker and the Agents implement CommandRPC: a call is answered only
\* with what its command produced in its one run, a command is handed out only
\* while its call is open, and an observation lives inside the call of its probe.
THEOREM Refinement == Spec => ImplementsRPC
<1>1. Init => RPC!RPCInit
  BY MapsInit
<1>2. TypeOK /\ OnePlace /\ PendingIsActive /\ CallsAgree /\ [Next]_vars
        => [RPC!RPCNext]_(RPC!rpcVars)
  BY MapsNext DEF Stutters, RPC!rpcVars
<1> QED BY <1>1, <1>2, TypeCorrect, OnePlaceHolds, PendingIsActiveHolds, CallsAgreeHolds, PTL
        DEF Spec, ImplementsRPC, RPC!RPCSpec

=============================================================================
