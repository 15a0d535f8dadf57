---------------------------- MODULE AgentRunner ----------------------------
(***************************************************************************)
(* The Agents' command loops, internal/agent/agent.go.  Run starts         *)
(* runCommands once a snapshot upload was acknowledged.  runCommands polls *)
(* the Server; it executes "envoy" and "http" commands itself, one at a    *)
(* time, and starts a goroutine for each "observe" command, at most        *)
(* MaxObservers at once, blocking while all slots are taken.  A command is *)
(* executed once, and its result is uploaded up to MaxAttempts times.      *)
(*                                                                         *)
(* Retry delays and the poll back-off are left out: they only say how soon *)
(* the next step happens.                                                  *)
(***************************************************************************)
EXTENDS AgentCommands

VARIABLES
    started,    \* started[k]: runCommands is running in the Agent of k
    loop,       \* loop[k]: where that loop is, and the command it holds
    task,       \* task[c]: executeAndSendCommand for c
    result,     \* result[c]: the result the execution of c produced
    executed    \* executed[c]: how often the execution of c has begun

agentVars == <<started, loop, task, result, executed>>

IdleLoop == [pc |-> "idle", cmd |-> None]
LoopStates ==
    [pc : {"idle", "polling"}, cmd : {None}] \cup [pc : {"dispatch", "serial"}, cmd : Commands]
NoTask == [pc |-> "none", attempt |-> 0]
EndedTask == [pc |-> "done", attempt |-> 0]

AgentTypeOK ==
    /\ started \in [Clusters -> BOOLEAN]
    /\ loop \in [Clusters -> LoopStates]
    /\ task \in [Commands -> [pc : {"none", "executing", "uploading", "awaiting", "done"},
                              attempt : 0..MaxAttempts]]
    /\ result \in [Commands -> Results \cup {None}]
    /\ executed \in [Commands -> Nat]

AgentInit ==
    /\ started = [k \in Clusters |-> FALSE]
    /\ loop = [k \in Clusters |-> IdleLoop]
    /\ task = [c \in Commands |-> NoTask]
    /\ result = [c \in Commands |-> None]
    /\ executed = [c \in Commands |-> 0]

Busy(c) == task[c].pc \in {"executing", "uploading", "awaiting"}

\* Mutant: a slot is never given back.
ObserversEver(k) == {c \in ObserveCommands : ClusterOf[c] = k /\ task[c].pc # "none"}

\* The observer slots of the Agent of k that are taken.
Observers(k) == {c \in ObserveCommands : ClusterOf[c] = k /\ Busy(c)}

\* A snapshot upload by SendOnce was acknowledged: Run starts runCommands, once.
CommandsStart(k) ==
    /\ started' = [started EXCEPT ![k] = TRUE]
    /\ UNCHANGED <<loop, task, result, executed>>

BeginPoll(k) ==
    /\ started[k]
    /\ loop[k].pc = "idle"
    /\ loop' = [loop EXCEPT ![k].pc = "polling"]
    /\ UNCHANGED <<started, task, result, executed>>

\* The poll failed, or brought no command: the loop polls again.
EndPoll(k) ==
    /\ loop[k].pc = "polling"
    /\ loop' = [loop EXCEPT ![k] = IdleLoop]
    /\ UNCHANGED <<started, task, result, executed>>

BeginTask(c) ==
    /\ task' = [task EXCEPT ![c] = [pc |-> "executing", attempt |-> 0]]
    /\ executed' = [executed EXCEPT ![c] = @ + 1]

\* nextCommand refuses a command it cannot decode or that names another cluster.
Acceptable(k, c) == Decodable(c) /\ ClusterOf[c] = k

\* The poll brought command c.
NextCommand(k, c) ==
    /\ loop[k].pc = "polling"
    /\ UNCHANGED <<started, result>>
    /\ \/ /\ ~Acceptable(k, c)
          /\ loop' = [loop EXCEPT ![k] = IdleLoop]
          /\ UNCHANGED <<task, executed>>
       \/ /\ Acceptable(k, c)
          /\ Kind[c] = "observe"
          /\ loop' = [loop EXCEPT ![k] = [pc |-> "dispatch", cmd |-> c]]
          /\ UNCHANGED <<task, executed>>
       \/ /\ Acceptable(k, c)
          /\ Kind[c] # "observe"
          /\ loop' = [loop EXCEPT ![k] = [pc |-> "serial", cmd |-> c]]
          /\ BeginTask(c)

\* An observer slot is free: the observation gets its goroutine.
Dispatch(k) ==
    /\ loop[k].pc = "dispatch"
    /\ Cardinality(Observers(k)) < MaxObservers
    /\ loop' = [loop EXCEPT ![k] = IdleLoop]
    /\ BeginTask(loop[k].cmd)
    /\ UNCHANGED <<started, result>>

\* executeCommand returns, on its own or at its execution timeout.
ExecuteCommand(c, r) ==
    /\ task[c].pc = "executing"
    /\ task' = [task EXCEPT ![c] = [pc |-> "uploading", attempt |-> 1]]
    /\ result' = [result EXCEPT ![c] = r]
    /\ UNCHANGED <<started, loop, executed>>

SendCommandResult(c) ==
    /\ task[c].pc = "uploading"
    /\ task' = [task EXCEPT ![c].pc = "awaiting"]
    /\ UNCHANGED <<started, loop, result, executed>>

\* executeAndSendCommand returns; the loop goes on if it was the one executing.
EndTask(c) ==
    /\ task' = [task EXCEPT ![c] = EndedTask]
    /\ loop' = [k \in Clusters |->
                  IF loop[k] = [pc |-> "serial", cmd |-> c] THEN IdleLoop ELSE loop[k]]

\* The upload was answered with 2xx.
UploadSucceeds(c) ==
    /\ task[c].pc = "awaiting"
    /\ EndTask(c)
    /\ UNCHANGED <<started, result, executed>>

\* Mutant: one attempt too many.
UploadRetriesOnceMore(c) ==
    /\ task[c].pc = "awaiting"
    /\ \/ /\ task[c].attempt <= MaxAttempts
          /\ task' = [task EXCEPT ![c] = [pc |-> "uploading", attempt |-> @.attempt + 1]]
          /\ UNCHANGED loop
       \/ /\ task[c].attempt > MaxAttempts
          /\ EndTask(c)
    /\ UNCHANGED <<started, result, executed>>

\* The upload got another answer, or none: try again, or give up.
UploadFails(c) ==
    /\ task[c].pc = "awaiting"
    /\ \/ /\ task[c].attempt < MaxAttempts
          /\ task' = [task EXCEPT ![c] = [pc |-> "uploading", attempt |-> @.attempt + 1]]
          /\ UNCHANGED loop
       \/ /\ task[c].attempt = MaxAttempts
          /\ EndTask(c)
    /\ UNCHANGED <<started, result, executed>>

\* The Agent process dies.  Its successor starts with a snapshot upload again.
AgentCrash(k) ==
    /\ started[k]
    /\ started' = [started EXCEPT ![k] = FALSE]
    /\ loop' = [loop EXCEPT ![k] = IdleLoop]
    /\ task' = [c \in Commands |->
                  IF ClusterOf[c] = k /\ Busy(c) THEN EndedTask ELSE task[c]]
    /\ UNCHANGED <<result, executed>>

\* The Server went away under the polls of all loops.
PollsFail ==
    /\ loop' = [k \in Clusters |-> IF loop[k].pc = "polling" THEN IdleLoop ELSE loop[k]]
    /\ UNCHANGED <<started, task, result, executed>>

=============================================================================
