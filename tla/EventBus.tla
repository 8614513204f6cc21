------------------------------- MODULE EventBus -------------------------------
(***************************************************************************)
(* The mailbox of one subscriber of the client's event bus                 *)
(* (jeliya-client/src/event.rs): a bounded queue in broadcast order, the   *)
(* number of pushes dropped since the last loss marker, and the rules that *)
(* keep a marker where the loss happened.                                  *)
(*                                                                         *)
(* An event is a record with a type: "event" (a push of a committed        *)
(* event), "gap", "junk" (a push no typed limit admits), "lagged" (a loss  *)
(* marker) or "state".  The lifecycle is abstracted to "Ready" and "Down": *)
(* the reconciler asks for nothing else.  One room, so a loss is always    *)
(* attributable to it.                                                     *)
(***************************************************************************)
EXTENDS Integers, Sequences

CONSTANT BoxCap     \* SubscriberState.capacity

\* The code's capacity is DEFAULT_FANOUT_CAPACITY = 1024.  With room for a
\* single item the only transition would be the trailing one, and absorb the
\* next before anybody has read it.
ASSUME BoxCapAssumption == BoxCap \in Nat \ {0, 1}

EmptyBox == [q |-> <<>>, lost |-> 0]

Lagged(n) == [type |-> "lagged", dropped |-> n]

Full(box) == Len(box.q) >= BoxCap

\* The pending loss becomes a marker behind what was broadcast before it.
Flushed(box) ==
    IF box.lost = 0 THEN box
    ELSE [q |-> Append(box.q, Lagged(box.lost)), lost |-> 0]

Coalesces(box, ev) ==
    /\ ev.type = "state"
    /\ Full(box)
    /\ box.q[Len(box.q)].type = "state"

\* The trailing transition absorbs the new one; a pending loss goes directly
\* in front of it, into the marker that is there already if there is one.
Coalesced(box, ev) ==
    LET n     == Len(box.q)
        tail  == box.q[n]
        merged == [tail EXCEPT !.to = ev.to,
                               !.problem = @ \/ tail.to = "Down"]
        before == SubSeq(box.q, 1, n - 1)
        absorbed == n > 1 /\ box.q[n - 1].type = "lagged"
    IN  CASE box.lost = 0 -> [box EXCEPT !.q[n] = merged]
          [] box.lost > 0 /\ absorbed ->
                [q |-> Append([before EXCEPT ![n - 1].dropped = @ + box.lost], merged),
                 lost |-> 0]
          [] OTHER -> [q |-> before \o <<Lagged(box.lost), merged>>, lost |-> 0]

\* Mutant of Broadcast: a push that finds the mailbox full is dropped silently.
BroadcastLossy(box, ev) ==
    IF Coalesces(box, ev) THEN Coalesced(box, ev)
    ELSE IF Full(box) /\ ev.type # "state" THEN box
    ELSE [Flushed(box) EXCEPT !.q = Append(@, ev)]

\* EventBus::broadcast for one subscriber.
Broadcast(box, ev) ==
    IF Coalesces(box, ev) THEN Coalesced(box, ev)
    ELSE IF ev.type = "state"
         THEN LET b == Flushed(box) IN [b EXCEPT !.q = Append(@, ev)]
         ELSE LET b == IF Full(box) THEN box ELSE Flushed(box)
              IN  IF Full(b) THEN [b EXCEPT !.lost = @ + 1]
                             ELSE [b EXCEPT !.q = Append(@, ev)]

\* EventSubscription::poll_next: what it yields, and what it leaves.
Readable(box) == box.q # <<>> \/ box.lost > 0

Yielded(box) == IF box.q # <<>> THEN Head(box.q) ELSE Lagged(box.lost)

Polled(box) == IF box.q # <<>> THEN [box EXCEPT !.q = Tail(@)] ELSE EmptyBox
=============================================================================
