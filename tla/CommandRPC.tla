----------------------------- MODULE CommandRPC -----------------------------
(***************************************************************************)
(* What the command broker and the Agents promise together: a remote call  *)
(* that runs at most once.  A call opens, its command may be handed to an  *)
(* Agent while the call is open, and what was handed out may run, once.    *)
(* The call is answered only with what its run produced, and it closes     *)
(* answered or not.  An observation is a call inside the call of its       *)
(* probe: it opens only after the probe's own request was answered with a  *)
(* usable result, and the probe closes only after it has closed.           *)
(***************************************************************************)
EXTENDS AgentCommands

VARIABLES
    phase,      \* phase[c]: "idle", "open", "answered" or "closed"
    handed,     \* handed[c]: an Agent has, or is being sent, the command
    runs,       \* runs[c]: how often the command began to run
    produced,   \* produced[c]: the result of the run, or None
    answer      \* answer[c]: the result the call was given, or None

rpcVars == <<phase, handed, runs, produced, answer>>

RPCInit ==
    /\ phase = [c \in Commands |-> "idle"]
    /\ handed = [c \in Commands |-> FALSE]
    /\ runs = [c \in Commands |-> 0]
    /\ produced = [c \in Commands |-> None]
    /\ answer = [c \in Commands |-> None]

Open(c) ==
    /\ phase[c] = "idle"
    /\ Kind[c] = "observe" => /\ phase[SourceOf[c]] = "answered"
                              /\ answer[SourceOf[c]] \in Usable
    /\ phase' = [phase EXCEPT ![c] = "open"]
    /\ UNCHANGED <<handed, runs, produced, answer>>

HandOut(c) ==
    /\ phase[c] = "open"
    /\ ~handed[c]
    /\ runs[c] = 0
    /\ handed' = [handed EXCEPT ![c] = TRUE]
    /\ UNCHANGED <<phase, runs, produced, answer>>

\* A command is lost on its way to the Agent.
Lose(c) ==
    /\ handed[c]
    /\ handed' = [handed EXCEPT ![c] = FALSE]
    /\ UNCHANGED <<phase, runs, produced, answer>>

Run(c) ==
    /\ handed[c]
    /\ runs[c] = 0
    /\ handed' = [handed EXCEPT ![c] = FALSE]
    /\ runs' = [runs EXCEPT ![c] = 1]
    /\ UNCHANGED <<phase, produced, answer>>

Produce(c) ==
    /\ runs[c] = 1
    /\ produced[c] = None
    /\ produced' \in {[produced EXCEPT ![c] = r] : r \in ResultsOf(c)}
    /\ UNCHANGED <<phase, handed, runs, answer>>

Answer(c) ==
    /\ phase[c] = "open"
    /\ produced[c] # None
    /\ phase' = [phase EXCEPT ![c] = "answered"]
    /\ answer' = [answer EXCEPT ![c] = produced[c]]
    /\ UNCHANGED <<handed, runs, produced>>

CloseCall(c) ==
    /\ phase[c] \in {"open", "answered"}
    /\ \A o \in ObserversOf(c) : phase[o] \in {"idle", "closed"}
    /\ phase' = [phase EXCEPT ![c] = "closed"]
    /\ UNCHANGED <<handed, runs, produced, answer>>

\* A process dies: calls under way end, commands on their way are lost.
Fault ==
    /\ phase' \in [Commands -> {"idle", "open", "answered", "closed"}]
    /\ handed' \in [Commands -> BOOLEAN]
    /\ \A c \in Commands :
         /\ phase'[c] # phase[c] => phase'[c] = "closed" /\ phase[c] \in {"open", "answered"}
         /\ phase'[c] # phase[c] => \A o \in ObserversOf(c) : phase'[o] \in {"idle", "closed"}
         /\ handed'[c] => handed[c]
    /\ UNCHANGED <<runs, produced, answer>>

RPCNext ==
    \/ \E c \in Commands : Open(c) \/ HandOut(c) \/ Lose(c) \/ Run(c)
                             \/ Produce(c) \/ Answer(c) \/ CloseCall(c)
    \/ Fault

RPCSpec == RPCInit /\ [][RPCNext]_rpcVars

=============================================================================
