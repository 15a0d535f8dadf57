--------------------------- MODULE AgentCommands ---------------------------
(***************************************************************************)
(* The commands a GateLens Server sends to the Agents of its clusters      *)
(* (domain.AgentCommand), as far as the broker and the Agent tell them     *)
(* apart: which cluster owns a command, what kind it is, which probe an    *)
(* observation belongs to, how large its body is, and what an Agent may    *)
(* answer.  FederationBroker (the Server side) and AgentRunner (the Agent  *)
(* side) share these constants; CommandSystem composes the two.            *)
(***************************************************************************)
EXTENDS Naturals, FiniteSets, Sequences

CONSTANTS
    Clusters,       \* the cluster ids of the federation
    Commands,       \* the ids newCommandID can draw; each names one command
    Kind,           \* Kind[c]: "envoy", "http" or "observe"
    ClusterOf,      \* ClusterOf[c]: command.ClusterID, the queue it goes to
    SourceOf,       \* SourceOf[o]: the "http" command of the probe o observes
    BodySize,       \* BodySize[c]: bytes of the request body it carries
    AgentResults,   \* the kinds of result the Agents give, out of Results
    None            \* no command, no result

CONSTANTS
    MaxBodySize,        \* CreateProbe's bound on the body, 64<<10
    EnvelopeSize,       \* the bytes the JSON of a command adds to its body
    CommandReadLimit,   \* nextCommand's LimitReader, 64<<10
    QueueSize,          \* agentCommandQueueSize, 32
    MaxObservers,       \* maxConcurrentObservers, 8
    MaxAttempts,        \* uploads executeAndSendCommand tries, 3
    Handlers            \* Server goroutines serving GET commands/next at once

EnvoyCommands == {c \in Commands : Kind[c] = "envoy"}
HTTPCommands == {c \in Commands : Kind[c] = "http"}
ObserveCommands == {c \in Commands : Kind[c] = "observe"}

Attempts == 1..MaxAttempts

ASSUME KindAssumption == Kind \in [Commands -> {"envoy", "http", "observe"}]
ASSUME ClusterAssumption == ClusterOf \in [Commands -> Clusters]
ASSUME SourceAssumption == SourceOf \in [ObserveCommands -> HTTPCommands]
ASSUME NoneAssumption == /\ None \notin Commands \cup Clusters
                         /\ None \notin {"valid", "httpError", "error", "malformed",
                                         "canceled", "timeout", "queueFull"}
ASSUME SizeAssumption ==
    /\ BodySize \in [Commands -> Nat]
    /\ MaxBodySize \in Nat
    /\ EnvelopeSize \in Nat \ {0}
    /\ CommandReadLimit \in Nat
ASSUME BoundAssumption ==
    /\ QueueSize \in Nat \ {0}
    /\ MaxObservers \in Nat \ {0}
    /\ MaxAttempts \in Nat \ {0}

\* The call whose request context a command runs under: an observation runs
\* under the context of the probe that spawned it.
Caller(c) == IF Kind[c] = "observe" THEN SourceOf[c] ELSE c

\* The observations completeFederatedProbe can start for the probe command c.
ObserversOf(c) == {o \in ObserveCommands : SourceOf[o] = c}

\* What CommandResult an Agent can send: a payload that passes the caller's
\* checks, a probe payload whose HTTP request failed (HTTP.Error), an Error, or
\* a payload that is missing or fails Validate.
Results == {"valid", "httpError", "error", "malformed"}
ResultsOf(c) == AgentResults \ (IF Kind[c] = "http" THEN {} ELSE {"httpError"})

ASSUME ResultAssumption == AgentResults \subseteq Results

\* The results that make a probe go on to observe the other gateways.
Usable == {"valid", "httpError"}

\* Why a call returned without a result.
Failures == {"canceled", "timeout", "queueFull"}

\* Whether the Agent can decode the whole command behind its LimitReader.
Decodable(c) == BodySize[c] + EnvelopeSize <= CommandReadLimit

=============================================================================
