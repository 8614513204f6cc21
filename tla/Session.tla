------------------------------- MODULE Session -------------------------------
(***************************************************************************)
(* A client kernel and the daemon it talks to, end to end: Kernel sends    *)
(* and replays calls over the connections it makes, DedupLedger executes   *)
(* them in one process after the other.  A request of the ledger is a      *)
(* frame of the kernel's wire, named by its call and its connection.       *)
(*                                                                         *)
(* A frame reaches the process it was sent to or nobody; a reply reaches   *)
(* the kernel at any later time or never; either end may lose the          *)
(* connection, and the daemon may restart, without the other knowing.      *)
(***************************************************************************)
EXTENDS Kernel

CONSTANT NoKey   \* the ledger key of a frame without op_id

\* Processes are numbered in the order they run.
ASSUME SessionAssumption ==
    /\ NoKey \notin Calls
    /\ Incarnations \subseteq Nat \ {0}
    /\ \E n \in Incarnations : Incarnations = 1..n

VARIABLES incarnation, subject, entries, owners, watch, request, effects

Requests == Calls \X (1..MaxGeneration)

Daemon == INSTANCE DedupLedger WITH
    Keys <- Calls, Bodies <- {"operation"}, Malformed <- {}, Uploads <- {},
    MaxIncarnations <- Cardinality(Incarnations)

daemon == <<incarnation, subject, entries, owners, watch, request, effects>>

RequestOf(f) == <<f.call, f.generation>>

SessionInit == Init /\ Daemon!Init /\ subject

\* The connection of an accepted dial leads to the process that answered it,
\* which may be gone by the time the kernel hears of it.
Connect ==
    /\ \E token \in Tokens, i \in 1..incarnation :
         i >= last_incarnation /\ Connected(token, i)
    /\ UNCHANGED daemon

\* A frame arrives while the process it was sent to runs.
Deliver(f) ==
    /\ f.incarnation = incarnation
    /\ Daemon!Receive(RequestOf(f), IF f.keyed THEN f.call ELSE NoKey,
                      "operation")
    /\ UNCHANGED vars

\* The answer to a frame travels back.
ReplyArrives(f) ==
    /\ request[RequestOf(f)].stage = "answered"
    /\ Reply(f)
    /\ UNCHANGED daemon

\* Every other step of the client.
ClientStep ==
    /\ \/ Start
       \/ Stop
       \/ \E token \in Tokens : DialFailed(token) \/ GateRefused(token)
       \/ BackoffFires
       \/ \E g \in 0..generation : Interrupted(g)
       \/ Dispatch
       \/ Cancel
       \/ \E c \in Calls : DeadlinePasses(c) \/ TimerFires(c)
    /\ UNCHANGED daemon

DaemonStep ==
    /\ \/ \E r \in Requests : Daemon!DaemonStep(r)
       \/ Daemon!Restart
    /\ UNCHANGED vars

SessionNext ==
    \/ Connect
    \/ ClientStep
    \/ DaemonStep
    \/ \E f \in wire : Deliver(f) \/ ReplyArrives(f)

SessionSpec == SessionInit /\ [][SessionNext]_<<vars, daemon>>

-----------------------------------------------------------------------------
(* Properties                                                              *)

Executions(c) == {e \in effects : e.owner[1] = c}

\* The session implements the promise: replays across reconnects never repeat
\* an effect, not even when the daemon restarted and lost its ledger, and a
\* call settled as not executed is never executed later by a late frame.
Promise == INSTANCE Mutation WITH
    Verdicts <- Outcomes, verdict <- outcome,
    executed <- [c \in Calls |-> Cardinality(Executions(c))]
KeepsPromise == Promise!Spec

\* A caller is given a daemon's answer only if the daemon gave one to a frame
\* of that very call, and a success only with its effect authored.
AnswersAreReal ==
    \A c \in Calls : outcome[c] = "reply" =>
      \E f \in wire :
        /\ f.call = c
        /\ request[RequestOf(f)].stage = "answered"
        /\ request[RequestOf(f)].reply = "ok" => Cardinality(Executions(c)) = 1
=============================================================================
