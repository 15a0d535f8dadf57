--------------------------- MODULE CommandSystem ---------------------------
(***************************************************************************)
(* The Server's broker and the Agents of its clusters together: the steps  *)
(* each side takes alone, the HTTP exchanges both take part in, and the    *)
(* failures of either.  A poll or an upload may be given up by the Agent   *)
(* (its client's 15s timeout, a broken connection) while the Server still  *)
(* works on it; an upload the Server has accepted may look failed to the   *)
(* Agent, which then sends the result again.                               *)
(***************************************************************************)
EXTENDS FederationBroker, AgentRunner

CONSTANTS
    MaxAgentCrashes,    \* bound on crashes of Agents in a behaviour
    MaxServerRestarts   \* bound on restarts of the Server in a behaviour

ASSUME FaultAssumption == MaxAgentCrashes \in Nat /\ MaxServerRestarts \in Nat

VARIABLES agentCrashes, serverRestarts

faultVars == <<agentCrashes, serverRestarts>>
vars == <<brokerVars, agentVars, faultVars>>

TypeOK ==
    /\ BrokerTypeOK
    /\ AgentTypeOK
    /\ agentCrashes \in 0..MaxAgentCrashes
    /\ serverRestarts \in 0..MaxServerRestarts

Init ==
    /\ BrokerInit
    /\ AgentInit
    /\ agentCrashes = 0
    /\ serverRestarts = 0

\* The a-th upload of c is the one its Agent is waiting for.
Awaited(c, a) == task[c] = [pc |-> "awaiting", attempt |-> a]

-----------------------------------------------------------------------------
(* Steps of one goroutine of the Server                                    *)

CallStep(c) ==
    /\ \/ EnvoyConfig(c) \/ CreateProbe(c) \/ ExecuteProbeCommand(c)
       \/ Enqueue(c) \/ EnqueueFails(c)
       \/ WaitCanceled(c) \/ WaitTimedOut(c) \/ ReceiveResult(c)
       \/ FinishProbe(c) \/ Close(c)
       \/ ClientDisconnects(c) \/ DeadlinePasses(c)
    /\ UNCHANGED <<agentVars, faultVars>>

PollStep(h) ==
    /\ \/ PollTake(h) \/ PollCheck(h) \/ PollTimer(h) \/ PollDiscarded(h)
    /\ UNCHANGED <<agentVars, faultVars>>

UploadStep(c, a) ==
    /\ \/ CompleteLookup(c, a)
       \/ CompleteSend(c, a, result[c])
       \/ ~Awaited(c, a) /\ CompleteCanceled(c, a)
    /\ UNCHANGED <<agentVars, faultVars>>

(* Steps of one goroutine of an Agent                                      *)

AgentStep(k) ==
    /\ Dispatch(k)
    /\ UNCHANGED <<brokerVars, faultVars>>

TaskStep(c) ==
    /\ \E r \in ResultsOf(c) : ExecuteCommand(c, r)
    /\ UNCHANGED <<brokerVars, faultVars>>

(* Exchanges between an Agent and the Server                               *)

\* A snapshot is stored; its acknowledgement reaches the Agent, or not.
SendOnce(k) ==
    /\ ReceiveSnapshot(k)
    /\ CommandsStart(k) \/ UNCHANGED agentVars
    /\ UNCHANGED faultVars

StartPoll(k, h) ==
    /\ BeginPoll(k)
    /\ NextAgentCommand(h, k)
    /\ UNCHANGED faultVars

DeliverCommand(k, h) ==
    /\ poll[h].cluster = k
    /\ poll[h].pc = "reply"
    /\ PollAnswered(h)
    /\ NextCommand(k, poll[h].cmd)
    /\ UNCHANGED faultVars

DeliverNothing(k, h) ==
    /\ poll[h].cluster = k
    /\ poll[h].pc = "empty"
    /\ PollAnswered(h)
    /\ EndPoll(k)
    /\ UNCHANGED faultVars

LosePoll(k, h) ==
    /\ poll[h].cluster = k
    /\ PollAbandoned(h)
    /\ EndPoll(k)
    /\ UNCHANGED faultVars

SendResult(c) ==
    /\ SendCommandResult(c)
    /\ UploadArrives(c, task[c].attempt)
    /\ UNCHANGED faultVars

AcknowledgeResult(c) ==
    /\ UploadSucceeds(c)
    /\ upload[c][task[c].attempt] = "accepted"
    /\ UNCHANGED <<brokerVars, faultVars>>

\* Refused, answered with an error, or never answered.
LoseResult(c) ==
    /\ UploadFails(c)
    /\ UNCHANGED <<brokerVars, faultVars>>

(* Failures                                                                *)

CrashAgent(k) ==
    /\ agentCrashes < MaxAgentCrashes
    /\ AgentCrash(k)
    /\ poll' = [h \in Handlers |->
                  IF poll[h].cluster = k
                  THEN Handler(poll[h].pc, k, poll[h].cmd, FALSE) ELSE poll[h]]
    /\ agentCrashes' = agentCrashes + 1
    /\ UNCHANGED <<snapshots, queue, callVars, expired, upload, serverRestarts>>

RestartServer ==
    /\ serverRestarts < MaxServerRestarts
    /\ BrokerRestart
    /\ PollsFail
    /\ serverRestarts' = serverRestarts + 1
    /\ UNCHANGED agentCrashes

-----------------------------------------------------------------------------

Next ==
    \/ \E c \in Commands : CallStep(c) \/ TaskStep(c) \/ SendResult(c)
                             \/ AcknowledgeResult(c) \/ LoseResult(c)
    \/ \E c \in Commands, a \in Attempts : UploadStep(c, a)
    \/ \E h \in Handlers : PollStep(h)
    \/ \E k \in Clusters : AgentStep(k) \/ SendOnce(k) \/ CrashAgent(k)
    \/ \E k \in Clusters, h \in Handlers :
         StartPoll(k, h) \/ DeliverCommand(k, h) \/ DeliverNothing(k, h) \/ LosePoll(k, h)
    \/ RestartServer

Spec == Init /\ [][Next]_vars

\* Under FairSpec the Server's goroutines and timers make progress.  Nothing is
\* assumed of the Agents or of the network: an Agent may stay away for ever.
CallProgress(c) ==
    /\ \/ ExecuteProbeCommand(c) \/ Enqueue(c) \/ EnqueueFails(c)
       \/ DeadlinePasses(c) \/ WaitTimedOut(c) \/ FinishProbe(c) \/ Close(c)
    /\ UNCHANGED <<agentVars, faultVars>>

\* executeCommand runs under a timeout and the Agent's HTTP client under
\* another, so every task of a running Agent goes on.
TaskProgress(c) == TaskStep(c) \/ SendResult(c) \/ LoseResult(c)

FairSpec ==
    /\ Spec
    /\ \A c \in Commands : WF_vars(CallProgress(c)) /\ WF_vars(TaskProgress(c))
    /\ \A k \in Clusters : WF_vars(AgentStep(k))

-----------------------------------------------------------------------------
(* Properties                                                              *)

\* An Agent has the command c, or is being sent it, and has not begun it.
InHand(c) ==
    \/ \E h \in Handlers : poll[h].pc = "reply" /\ poll[h].cmd = c
    \/ \E k \in Clusters : loop[k].pc = "dispatch" /\ loop[k].cmd = c

\* A command is executed at most once: one probe sends one HTTP request, however
\* often polls are lost, results are uploaded again and processes restart.
AtMostOnce == \A c \in Commands : executed[c] <= 1

\* An observation runs only for a probe whose own request ran and whose usable
\* result reached the probe's call (completeFederatedProbe comes after it).
ObservationFollowsSource ==
    \A o \in ObserveCommands :
        executed[o] > 0 => /\ executed[SourceOf[o]] > 0
                           /\ outcome[SourceOf[o]] \in Usable

\* A probe shown as running has a goroutine that will still store its end, and
\* one shown as completed sent its request and has no observation under way.
ProbeStateTrue ==
    \A c \in HTTPCommands :
        /\ probes[c] = "running" => call[c] \in {"registered", "waiting", "observing"}
        /\ probes[c] = "completed" =>
             /\ executed[c] > 0 /\ result[c] = "valid"
             /\ \A o \in ObserversOf(c) : call[o] \in {"idle", "closed"}

\* What GetProbe shows of an ended probe never changes while the Server runs:
\* no late result, second upload or second failure rewrites it.
ProbeEndIsFinal ==
    [][\A c \in HTTPCommands :
         probes[c] \in {"completed", "failed"} /\ serverRestarts' = serverRestarts
           => probes'[c] = probes[c]]_vars

\* A command whose call has returned, and which no Agent has in hand, never gets
\* into an Agent's hands and never runs: neither one still queued nor one a poll
\* has just taken off the queue.
ReturnedNeverRuns ==
    [][\A c \in Commands :
         call[c] \in {"closed", "lost"} /\ ~InHand(c)
           => ~InHand(c)' /\ executed'[c] = executed[c]]_vars

\* pendingCommands holds the commands of the calls under way and no other: none is
\* left behind by a call that failed, timed out or was canceled.
PendingIsActive == pending = {c \in Commands : call[c] \in Active}

\* Every call ends, with a result or an error, whatever the Agents do.
EveryCallReturns ==
    \A c \in Commands : call[c] = "registered" ~> call[c] \in {"closed", "lost"}

\* The poll loop of an Agent never stays blocked, neither on the observer slots
\* nor on the command it executes itself.
LoopComesBack ==
    \A k \in Clusters : loop[k].pc \in {"dispatch", "serial"} ~> loop[k].pc = "idle"

\* A probe the Server accepted, once an Agent's poll has received it, is begun:
\* the documented body limit is one an Agent can take.
ReceivedIsBegun ==
    [][\A k \in Clusters, h \in Handlers :
         DeliverCommand(k, h) => loop'[k].pc \in {"dispatch", "serial"}]_vars

\* How far a call is, as CommandRPC tells calls apart.
Phase ==
    [c \in Commands |->
        IF call[c] \in {"idle", "spawned"} THEN "idle"
        ELSE IF call[c] \in {"closed", "lost"} THEN "closed"
        ELSE IF outcome[c] \in Results THEN "answered" ELSE "open"]

Handed == [c \in Commands |-> InHand(c)]
Answered == [c \in Commands |-> IF outcome[c] \in Results THEN outcome[c] ELSE None]

\* The broker and the Agents together implement the at-most-once call.
RPC == INSTANCE CommandRPC WITH
    phase <- Phase, handed <- Handed, runs <- executed, produced <- result, answer <- Answered

\* Every step of the system is a step of CommandRPC, or none of its business.
ImplementsRPC == RPC!RPCSpec

-----------------------------------------------------------------------------
(* Why AtMostOnce holds: a command is in one place at a time               *)

\* Handler h has taken c off the queue.
Holds(h, c) == poll[h].pc \in {"popped", "reply"} /\ poll[h].cmd = c

\* The loop of k has c and waits for an observer slot.
AtLoop(k, c) == loop[k].pc = "dispatch" /\ loop[k].cmd = c

Held(c) == \E h \in Handlers : Holds(h, c)
Looped(c) == \E k \in Clusters : AtLoop(k, c)
Untouched(c) == task[c].pc = "none"

QueueDistinct ==
    \A k \in Clusters : \A i, j \in DOMAIN queue[k] : queue[k][i] = queue[k][j] => i = j

QueueOwn ==
    \A k \in Clusters : \A i \in DOMAIN queue[k] : ClusterOf[queue[k][i]] = k

QueuedIsElsewhereNot ==
    \A c \in Commands : Queued(c) => ~Held(c) /\ ~Looped(c) /\ Untouched(c)

HeldIsElsewhereNot ==
    \A c \in Commands : Held(c) => ~Looped(c) /\ Untouched(c)

LoopedIsUntouched ==
    \A c \in Commands : Looped(c) => Untouched(c)

HeldOnce ==
    \A c \in Commands : \A g, h \in Handlers : Holds(g, c) /\ Holds(h, c) => g = h

HeldOwn ==
    \A c \in Commands, h \in Handlers : Holds(h, c) => ClusterOf[c] = poll[h].cluster

LoopedOwn ==
    \A c \in Commands, k \in Clusters : AtLoop(k, c) => ClusterOf[c] = k

ExecutedWithTask ==
    \A c \in Commands : executed[c] = IF Untouched(c) THEN 0 ELSE 1

NotYetSent ==
    \A c \in Commands : call[c] \in {"idle", "spawned", "registered"} =>
        ~Queued(c) /\ ~Held(c) /\ ~Looped(c) /\ Untouched(c)

TargetsObserve ==
    \A c \in HTTPCommands : targets[c] \subseteq ObserversOf(c)

ObserversWait ==
    \A o \in ObserveCommands :
        call[SourceOf[o]] \in {"idle", "spawned", "registered", "waiting"} => call[o] = "idle"

\* A command is in one place: not yet sent, in its cluster's queue, with one poll,
\* with the loop of its cluster's Agent, or begun; and no observation is on its
\* way before its probe has a result.
OnePlace ==
    /\ QueueDistinct /\ QueueOwn /\ QueuedIsElsewhereNot
    /\ HeldIsElsewhereNot /\ HeldOnce /\ HeldOwn
    /\ LoopedIsUntouched /\ LoopedOwn
    /\ ExecutedWithTask /\ NotYetSent /\ TargetsObserve /\ ObserversWait

-----------------------------------------------------------------------------
(* Why an answer is the command's own, and a probe's state is true          *)

ResultFollowsRun ==
    \A c \in Commands :
        /\ task[c].pc \in {"none", "executing"} => result[c] = None
        /\ task[c].pc \in {"uploading", "awaiting"} => result[c] # None

UploadCarriesResult ==
    \A c \in Commands, a \in Attempts : upload[c][a] # "none" => result[c] # None

ChannelCarriesResult ==
    \A c \in Commands : chan[c] # None => chan[c] = result[c]

AnswerIsResult ==
    \A c \in Commands :
        /\ outcome[c] \in Results => outcome[c] = result[c]
        /\ call[c] \in {"idle", "spawned", "registered", "waiting"} => outcome[c] = None
        /\ call[c] = "observing" => Kind[c] = "http" /\ outcome[c] \in Usable

ObserversNested ==
    \A o \in ObserveCommands :
        /\ call[o] # "idle" => /\ outcome[SourceOf[o]] \in Usable
                               /\ o \in targets[SourceOf[o]]
        /\ call[o] \in Active \cup {"spawned"} => call[SourceOf[o]] = "observing"

ProbeFollowsCall ==
    \A c \in HTTPCommands :
        /\ call[c] = "idle" => probes[c] = "none"
        /\ call[c] \in {"registered", "waiting", "observing"} <=> probes[c] = "running"
        /\ probes[c] = "completed" =>
             /\ call[c] \in {"returning", "closed"}
             /\ outcome[c] = "valid"
             /\ \A o \in ObserversOf(c) : call[o] \in {"idle", "closed"}

\* What a call was given is what its command produced, an observation is a call
\* inside the call of its probe, and the stored probe follows that call.
CallsAgree ==
    /\ ResultFollowsRun /\ UploadCarriesResult /\ ChannelCarriesResult
    /\ AnswerIsResult /\ ObserversNested /\ ProbeFollowsCall

=============================================================================
