------------------------------ MODULE Mutation ------------------------------
(***************************************************************************)
(* What the system promises the caller of a mutating operation, whatever   *)
(* connections, retries, timeouts and daemon restarts lie between: the     *)
(* call is settled at most once, its effect happens at most once, and a    *)
(* settlement that says it did not execute is right for ever.              *)
(***************************************************************************)
EXTENDS Naturals

CONSTANTS
    Calls,        \* the calls
    Verdicts,     \* what a call may be settled with
    NotExecuted   \* the verdicts that promise it had and will have no effect

VARIABLES
    verdict,      \* per call, a verdict or "none"
    executed      \* per call, how often its effect was authored

Init ==
    /\ verdict = [c \in Calls |-> "none"]
    /\ executed = [c \in Calls |-> 0]

\* The effect happens: once, and never for a call that was disowned.  It may
\* well happen after the caller was told that nobody knows.
Execute(c) ==
    /\ executed[c] = 0
    /\ verdict[c] \notin NotExecuted
    /\ executed' = [executed EXCEPT ![c] = 1]
    /\ UNCHANGED verdict

\* Callers are told, several in one step when a connection or a client ends.
Tell ==
    /\ verdict' \in [Calls -> Verdicts \cup {"none"}]
    /\ \A c \in Calls :
         verdict'[c] # verdict[c] =>
           /\ verdict[c] = "none"
           /\ verdict'[c] \in NotExecuted => executed[c] = 0
    /\ UNCHANGED executed

Next == Tell \/ \E c \in Calls : Execute(c)

Spec == Init /\ [][Next]_<<verdict, executed>>
=============================================================================
