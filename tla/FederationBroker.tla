-------------------------- MODULE FederationBroker --------------------------
(***************************************************************************)
(* The Server's command broker, internal/federation/store.go: browser      *)
(* calls (EnvoyConfig, CreateProbe and the observations CreateProbe        *)
(* spawns) register a pending command, put it on the bounded queue of its  *)
(* cluster and wait; Agent polls (NextAgentCommand) take commands off the  *)
(* queue; Agent uploads (CompleteAgentCommand) hand results to the waiting *)
(* calls.  Each call, poll and upload is a goroutine of the Server.  A     *)
(* step of a goroutine is a section under Store.mutex or one channel       *)
(* operation, together with the local computation around it.               *)
(*                                                                         *)
(* Time is abstracted to its order: `expired` holds the commands whose     *)
(* Deadline has passed.  A wait timer is started after the Deadline was    *)
(* computed and lasts longer than the queue wait (85s > 45s, 70s > 30s,    *)
(* 21s > 12s), so a call can only time out once its command has expired.   *)
(***************************************************************************)
EXTENDS AgentCommands

VARIABLES
    snapshots,  \* clusters with a received snapshot (Store.snapshots)
    queue,      \* queue[k]: Store.commandQueues[k], a channel of QueueSize
    pending,    \* the keys of Store.pendingCommands
    chan,       \* chan[c]: pendingCommand.result, a channel of one result
    call,       \* call[c]: where the goroutine that issued c is
    outcome,    \* outcome[c]: what that call got
    targets,    \* targets[c]: the gateways a probe decided to observe
    ctxDone,    \* calls whose request context is done (browser went away)
    expired,    \* commands whose Deadline has passed
    probes,     \* probes[c]: state of the ProbeExecution in Store.probes
    poll,       \* poll[h]: a NextAgentCommand goroutine
    upload      \* upload[c][a]: the a-th result upload of c, as an HTTP request

callVars == <<pending, chan, call, outcome, targets, ctxDone, probes>>
brokerVars == <<snapshots, queue, pending, chan, call, outcome, targets,
                ctxDone, expired, probes, poll, upload>>

\* A call that holds its entry in pendingCommands.
Active == {"registered", "waiting", "observing", "returning"}
CallStates == {"idle", "spawned", "closed", "lost"} \cup Active
ProbeStates == {"none", "running", "completed", "failed"}
UploadStates == {"none", "sent", "found", "accepted", "refused"}

\* A poll goroutine of cluster k holding command c; live: the Agent still waits
\* for the answer.
Handler(pc, k, c, live) == [pc |-> pc, cluster |-> k, cmd |-> c, live |-> live]
FreeHandler == Handler("free", None, None, FALSE)
PollStates ==
    {FreeHandler}
      \cup [pc : {"select", "empty"}, cluster : Clusters, cmd : {None}, live : BOOLEAN]
      \cup [pc : {"popped", "reply"}, cluster : Clusters, cmd : Commands, live : BOOLEAN]

BrokerTypeOK ==
    /\ snapshots \subseteq Clusters
    /\ queue \in [Clusters -> Seq(Commands)]
    /\ pending \subseteq Commands
    /\ chan \in [Commands -> Results \cup {None}]
    /\ call \in [Commands -> CallStates]
    /\ outcome \in [Commands -> Results \cup Failures \cup {None}]
    /\ targets \in [HTTPCommands -> SUBSET ObserveCommands]
    /\ ctxDone \subseteq Commands
    /\ expired \subseteq Commands
    /\ probes \in [HTTPCommands -> ProbeStates]
    /\ poll \in [Handlers -> PollStates]
    /\ upload \in [Commands -> [Attempts -> UploadStates]]

\* NewStore.
BrokerInit ==
    /\ snapshots = {}
    /\ queue = [k \in Clusters |-> <<>>]
    /\ pending = {}
    /\ chan = [c \in Commands |-> None]
    /\ call = [c \in Commands |-> "idle"]
    /\ outcome = [c \in Commands |-> None]
    /\ targets = [c \in HTTPCommands |-> {}]
    /\ ctxDone = {}
    /\ expired = {}
    /\ probes = [c \in HTTPCommands |-> "none"]
    /\ poll = [h \in Handlers |-> FreeHandler]
    /\ upload = [c \in Commands |-> [a \in Attempts |-> "none"]]

-----------------------------------------------------------------------------
(* Snapshots                                                               *)

ReceiveSnapshot(k) ==
    /\ snapshots' = snapshots \cup {k}
    /\ UNCHANGED <<callVars, queue, expired, poll, upload>>

-----------------------------------------------------------------------------
(* The calls                                                               *)

\* The section under the lock that every call starts with.
Register(c) ==
    /\ pending' = pending \cup {c}
    /\ UNCHANGED <<snapshots, queue, chan, outcome, ctxDone, expired, poll, upload>>

\* A browser asks for the Envoy configuration of a gateway.
EnvoyConfig(c) ==
    /\ Kind[c] = "envoy"
    /\ call[c] = "idle"
    /\ ClusterOf[c] \in snapshots
    /\ call' = [call EXCEPT ![c] = "registered"]
    /\ Register(c)
    /\ UNCHANGED <<targets, probes>>

\* The gateways of the topology at creation, the source excepted.
DiscoverTargets(c) == {o \in ObserversOf(c) : ClusterOf[o] \in snapshots}

\* A browser creates a probe; its execution is stored as running.
CreateProbe(c) ==
    /\ Kind[c] = "http"
    /\ call[c] = "idle"
    /\ ClusterOf[c] \in snapshots
    /\ BodySize[c] <= MaxBodySize
    /\ call' = [call EXCEPT ![c] = "registered"]
    /\ targets' = [targets EXCEPT ![c] = DiscoverTargets(c)]
    /\ probes' = [probes EXCEPT ![c] = "running"]
    /\ Register(c)

\* An observation that a probe spawned registers its own command.
ExecuteProbeCommand(c) ==
    /\ Kind[c] = "observe"
    /\ call[c] = "spawned"
    /\ call' = [call EXCEPT ![c] = "registered"]
    /\ Register(c)
    /\ UNCHANGED <<targets, probes>>

\* Mutant: return the error without storing it.
FailProbeForgotten(c) == probes' = probes

\* failProbe, for a call that is a probe.
FailProbe(c) ==
    probes' = IF Kind[c] = "http" THEN [probes EXCEPT ![c] = "failed"] ELSE probes

\* The call gives up for reason `why`: it only has its deferred delete left.
GiveUp(c, why) ==
    /\ call' = [call EXCEPT ![c] = "returning"]
    /\ outcome' = [outcome EXCEPT ![c] = why]
    /\ FailProbe(c)
    /\ UNCHANGED <<snapshots, queue, pending, chan, targets, ctxDone, expired, poll, upload>>

Enqueue(c) ==
    /\ call[c] = "registered"
    /\ Len(queue[ClusterOf[c]]) < QueueSize
    /\ queue' = [queue EXCEPT ![ClusterOf[c]] = Append(@, c)]
    /\ call' = [call EXCEPT ![c] = "waiting"]
    /\ UNCHANGED <<snapshots, pending, chan, outcome, targets, ctxDone, expired,
                   probes, poll, upload>>

\* Mutant: block on a full queue.
EnqueueBlocks(c) ==
    /\ call[c] = "registered"
    /\ Caller(c) \in ctxDone
    /\ GiveUp(c, "canceled")

\* The non-blocking send is not possible: a select takes its default branch only
\* when no other branch is ready.
EnqueueFails(c) ==
    /\ call[c] = "registered"
    /\ \/ Caller(c) \in ctxDone /\ GiveUp(c, "canceled")
       \/ /\ Caller(c) \notin ctxDone
          /\ Len(queue[ClusterOf[c]]) = QueueSize
          /\ GiveUp(c, "queueFull")

WaitCanceled(c) ==
    /\ call[c] = "waiting"
    /\ Caller(c) \in ctxDone
    /\ GiveUp(c, "canceled")

\* Mutant: stop the timer once a poll has taken the command.
WaitTimedOutInQueue(c) ==
    /\ call[c] = "waiting"
    /\ c \in expired
    /\ \E i \in DOMAIN queue[ClusterOf[c]] : queue[ClusterOf[c]][i] = c
    /\ GiveUp(c, "timeout")

WaitTimedOut(c) ==
    /\ call[c] = "waiting"
    /\ c \in expired
    /\ GiveUp(c, "timeout")

\* Mutant: observe whatever the Agent answered.
ObservesAlways(c, r) == Kind[c] = "http"

\* Does the call go on to observe the other gateways after result r?
Observes(c, r) == Kind[c] = "http" /\ r \in Usable

\* Mutant: store the execution before the observations are in.
ProbeStoredEarly(c, r) ==
    IF Kind[c] # "http" THEN probes
    ELSE [probes EXCEPT ![c] = IF r \in Usable THEN "completed" ELSE "failed"]

\* What Store.probes holds once the call has examined r.
ProbeAfter(c, r) ==
    IF Kind[c] = "http" /\ r \notin Usable THEN [probes EXCEPT ![c] = "failed"] ELSE probes

\* The caller takes the result out of its channel.  A usable probe result makes
\* completeFederatedProbe start one goroutine per target; anything else ends
\* the call, and fails the probe.
ReceiveResult(c) ==
    LET r == chan[c]
    IN  /\ call[c] = "waiting"
        /\ r # None
        /\ chan' = [chan EXCEPT ![c] = None]
        /\ outcome' = [outcome EXCEPT ![c] = r]
        /\ call' = [d \in Commands |->
                      IF d = c THEN (IF Observes(c, r) THEN "observing" ELSE "returning")
                      ELSE IF Observes(c, r) /\ d \in targets[c] THEN "spawned"
                      ELSE call[d]]
        /\ probes' = ProbeAfter(c, r)
        /\ UNCHANGED <<snapshots, queue, pending, targets, ctxDone, expired, poll, upload>>

\* Mutant: do not wait for the observations.
FinishProbeAtOnce(c) ==
    /\ call[c] = "observing"
    /\ call' = [call EXCEPT ![c] = "returning"]
    /\ probes' = [probes EXCEPT ![c] = IF outcome[c] = "valid" THEN "completed" ELSE "failed"]
    /\ UNCHANGED <<snapshots, queue, pending, chan, outcome, targets, ctxDone,
                   expired, poll, upload>>

\* wait.Wait() has seen every observation return; the assembled execution is
\* stored.
FinishProbe(c) ==
    /\ call[c] = "observing"
    /\ \A o \in targets[c] : call[o] = "closed"
    /\ call' = [call EXCEPT ![c] = "returning"]
    /\ probes' = [probes EXCEPT ![c] = IF outcome[c] = "valid" THEN "completed" ELSE "failed"]
    /\ UNCHANGED <<snapshots, queue, pending, chan, outcome, targets, ctxDone,
                   expired, poll, upload>>

\* Mutant: delete the entry only when a result arrived.
CloseAfterResult(c) ==
    /\ call[c] = "returning"
    /\ call' = [call EXCEPT ![c] = "closed"]
    /\ pending' = IF outcome[c] \in Results THEN pending \ {c} ELSE pending
    /\ UNCHANGED <<snapshots, queue, chan, outcome, targets, ctxDone, expired,
                   probes, poll, upload>>

\* The deferred delete of the pending entry.
Close(c) ==
    /\ call[c] = "returning"
    /\ call' = [call EXCEPT ![c] = "closed"]
    /\ pending' = pending \ {c}
    /\ UNCHANGED <<snapshots, queue, chan, outcome, targets, ctxDone, expired,
                   probes, poll, upload>>

\* The browser goes away while its call can still notice.
ClientDisconnects(c) ==
    /\ Kind[c] # "observe"
    /\ call[c] \in {"registered", "waiting", "observing"}
    /\ c \notin ctxDone
    /\ ctxDone' = ctxDone \cup {c}
    /\ UNCHANGED <<snapshots, queue, pending, chan, call, outcome, targets, expired,
                   probes, poll, upload>>

Queued(c) == \E i \in DOMAIN queue[ClusterOf[c]] : queue[ClusterOf[c]][i] = c

\* The clock passes the Deadline of a command that is queued or waited for.
DeadlinePasses(c) ==
    /\ Queued(c) \/ call[c] \in {"registered", "waiting"}
    /\ c \notin expired
    /\ expired' = expired \cup {c}
    /\ UNCHANGED <<snapshots, queue, callVars, poll, upload>>

-----------------------------------------------------------------------------
(* The polls                                                               *)

\* A poll of cluster k arrives.  Without a snapshot of k it is refused, which
\* changes nothing on the Server.
NextAgentCommand(h, k) ==
    /\ k \in snapshots
    /\ poll[h].pc = "free"
    /\ poll' = [poll EXCEPT ![h] = Handler("select", k, None, TRUE)]
    /\ UNCHANGED <<snapshots, queue, callVars, expired, upload>>

\* Mutant: leave the command on the queue until its result is in.
PollPeek(h) ==
    LET c == Head(queue[poll[h].cluster])
    IN  /\ poll[h].pc = "select"
        /\ queue[poll[h].cluster] # <<>>
        /\ c \notin expired
        /\ poll' = [poll EXCEPT ![h] = Handler("popped", @.cluster, c, @.live)]
        /\ UNCHANGED <<snapshots, queue, callVars, expired, upload>>

\* The queue branch of the select.  A command past its Deadline is dropped and
\* the loop goes on.
PollTake(h) ==
    LET k == poll[h].cluster
        c == Head(queue[k])
    IN  /\ poll[h].pc = "select"
        /\ queue[k] # <<>>
        /\ queue' = [queue EXCEPT ![k] = Tail(@)]
        /\ poll' = IF c \in expired THEN poll
                   ELSE [poll EXCEPT ![h] = Handler("popped", k, c, @.live)]
        /\ UNCHANGED <<snapshots, callVars, expired, upload>>

\* Mutant: hand the command out without looking.
PollUnchecked(h) ==
    /\ poll[h].pc = "popped"
    /\ poll' = [poll EXCEPT ![h].pc = "reply"]
    /\ UNCHANGED <<snapshots, queue, callVars, expired, upload>>

\* Is anybody still waiting for the command taken?
PollCheck(h) ==
    LET c == poll[h].cmd
        k == poll[h].cluster
    IN  /\ poll[h].pc = "popped"
        /\ poll' = [poll EXCEPT ![h] =
                      IF c \in pending /\ ClusterOf[c] = k
                      THEN Handler("reply", k, c, @.live)
                      ELSE Handler("select", k, None, @.live)]
        /\ UNCHANGED <<snapshots, queue, callVars, expired, upload>>

\* The timer branch: 204 No Content.
PollTimer(h) ==
    /\ poll[h].pc = "select"
    /\ poll' = [poll EXCEPT ![h] = Handler("empty", @.cluster, None, @.live)]
    /\ UNCHANGED <<snapshots, queue, callVars, expired, upload>>

\* The Agent's side of the request is gone; the goroutine does not know yet.
PollAbandoned(h) ==
    /\ poll[h].live
    /\ poll' = [poll EXCEPT ![h] = Handler(@.pc, @.cluster, @.cmd, FALSE)]
    /\ UNCHANGED <<snapshots, queue, callVars, expired, upload>>

\* The goroutine of an abandoned poll ends: on ctx.Done() in the select, or by
\* writing a response nobody reads.
PollDiscarded(h) ==
    /\ ~poll[h].live
    /\ poll[h].pc \in {"select", "reply", "empty"}
    /\ poll' = [poll EXCEPT ![h] = FreeHandler]
    /\ UNCHANGED <<snapshots, queue, callVars, expired, upload>>

\* The response reaches the Agent.
PollAnswered(h) ==
    /\ poll[h].live
    /\ poll[h].pc \in {"reply", "empty"}
    /\ poll' = [poll EXCEPT ![h] = FreeHandler]
    /\ UNCHANGED <<snapshots, queue, callVars, expired, upload>>

-----------------------------------------------------------------------------
(* The uploads                                                             *)

UploadArrives(c, a) ==
    /\ upload' = [upload EXCEPT ![c][a] = "sent"]
    /\ UNCHANGED <<snapshots, queue, callVars, expired, poll>>

\* CompleteAgentCommand looks the command up under the read lock ...
CompleteLookup(c, a) ==
    /\ upload[c][a] = "sent"
    /\ upload' = [upload EXCEPT ![c][a] = IF c \in pending THEN "found" ELSE "refused"]
    /\ UNCHANGED <<snapshots, queue, callVars, expired, poll>>

\* ... and then sends into the channel it found without blocking.
CompleteSend(c, a, r) ==
    /\ upload[c][a] = "found"
    /\ chan' = IF chan[c] = None THEN [chan EXCEPT ![c] = r] ELSE chan
    /\ upload' = [upload EXCEPT ![c][a] = IF chan[c] = None THEN "accepted" ELSE "refused"]
    /\ UNCHANGED <<snapshots, queue, pending, call, outcome, targets, ctxDone,
                   expired, probes, poll>>

\* The select may also take ctx.Done(), once the Agent gave the upload up.
CompleteCanceled(c, a) ==
    /\ upload[c][a] = "found"
    /\ upload' = [upload EXCEPT ![c][a] = "refused"]
    /\ UNCHANGED <<snapshots, queue, callVars, expired, poll>>

-----------------------------------------------------------------------------
\* The Server process restarts: everything the Store held is gone, and so are
\* the goroutines.  A request not yet read may still reach the new process.
BrokerRestart ==
    /\ snapshots' = {}
    /\ queue' = [k \in Clusters |-> <<>>]
    /\ pending' = {}
    /\ chan' = [c \in Commands |-> None]
    /\ call' = [c \in Commands |->
                  IF call[c] \in Active THEN "lost"
                  ELSE IF call[c] = "spawned" THEN "idle" ELSE call[c]]
    /\ probes' = [c \in HTTPCommands |-> "none"]
    /\ poll' = [h \in Handlers |-> FreeHandler]
    /\ upload' = [c \in Commands |-> [a \in Attempts |->
                    IF upload[c][a] = "found" THEN "refused" ELSE upload[c][a]]]
    /\ UNCHANGED <<outcome, targets, ctxDone, expired>>

=============================================================================
