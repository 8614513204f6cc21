------------------------------ MODULE Reconciler ------------------------------
(***************************************************************************)
(* The reconciler of one room: the sans-IO core                            *)
(* (jeliya-client/src/reconcile/core.rs) over RoomState, driven by the     *)
(* event bus of EventBus, the reads it has in flight and the adapter's     *)
(* controls (driver.rs), against a daemon that keeps a growing history.    *)
(*                                                                         *)
(* hist is the daemon's canonical order: hist[p + 1] is the event at       *)
(* position p.  A late sibling is inserted below the tip and shifts the    *)
(* positions above it; the daemon then sends a gap and the event.  Reads   *)
(* are answered truthfully but in any page size, or by an error, a         *)
(* malformed page or a redirect to any position, as often as the daemon    *)
(* likes.                                                                  *)
(*                                                                         *)
(* The driver drops the future of a read it supersedes.  The core does not *)
(* rely on it, and neither does the model: the read superseded last may    *)
(* still be answered.                                                      *)
(***************************************************************************)
EXTENDS RoomState, EventBus

CONSTANTS
    MaxEvents,      \* bound: events ever committed
    MaxCalls,       \* bound: link losses, controls and junk pushes together
    FaultCost,      \* what an answer other than a page takes of that bound
    MaxJunk,        \* bound: junk pushes
    Anchors         \* positions a room is activated at

ASSUME ReconcilerAssumption ==
    /\ MaxEvents \in Nat \ {0}
    /\ MaxCalls \in Nat
    /\ FaultCost \in Nat
    /\ MaxJunk \in Nat
    /\ Anchors \subseteq Nat

VARIABLES
    hist,           \* the daemon's history of the room
    link,           \* the transport, as the client's lifecycle names it
    calls,          \* budget spent
    junk,           \* junk pushes sent
    box,            \* the reconciler's subscription to the event bus
    run,            \* the driver: "new", "subscribed", "running", "stopped"
    state,          \* Core.state
    epoch,          \* Core.epoch
    seen_ready,     \* Core.seen_ready
    room,           \* the tracked room, or Untracked
    reads,          \* reads issued and not settled
    told,           \* the loss the last step reported to the consumer
    named           \* the highest position named by a gap, or by a redirect followed

envVars  == <<hist, link, calls, junk>>
coreVars == <<run, state, epoch, seen_ready>>
vars == <<envVars, box, coreVars, room, reads, told, named>>

Untracked == [phase |-> [tag |-> "Untracked"]]
IsTracked == room.phase.tag # "Untracked"

NoReply == [kind |-> "none"]
Error   == [kind |-> "error"]

Init ==
    /\ hist = <<0>>
    /\ link \in {"Down", "Ready"}
    /\ calls = 0 /\ junk = 0
    /\ box = EmptyBox
    /\ run = "new"
    /\ state = "Down" /\ epoch = 0 /\ seen_ready = FALSE
    /\ room = Untracked
    /\ reads = {}
    /\ told = 0 /\ named = NoPos

-----------------------------------------------------------------------------
(* What every step of the core leaves.                                     *)

\* The read of the reconciliation in flight.
Current(rd) ==
    /\ IsTracked /\ IsReconciling(room)
    /\ room.phase.epoch = rd.epoch
    /\ room.phase.read_id = rd.read_id

\* Core::alloc_read_id: an identity no read that may still be answered has.
FreshId == CHOOSE n \in 0 .. 2 :
              /\ \A rd \in reads : rd.read_id # n
              /\ \A k \in 0 .. n - 1 : \E rd \in reads : rd.read_id = k

Quiet == told' = 0

\* Take the effect of a handler; pending are the reads it leaves unsettled.
Perform(effect, pending) ==
    /\ room' = effect.room
    /\ told' = effect.told
    /\ reads' = IF effect.issue = <<>> THEN pending
                ELSE {rd \in pending : Current(rd)} \cup
                     {[read_id |-> effect.room.phase.read_id,
                       epoch |-> effect.room.phase.epoch,
                       req |-> effect.issue[1], reply |-> NoReply]}

Ignore == Quiet /\ UNCHANGED <<room, reads>>

Relaunch(reason, at) ==
    IF IsTracked THEN Perform(Launch(room, reason, NoPos, at, FreshId), reads) ELSE Ignore

OnTrigger(reason, from) ==
    IF IsTracked THEN Perform(Trigger(room, reason, from, epoch, FreshId), reads)
                 ELSE Ignore

Name(pos) == named' = IF IsTracked /\ pos > named THEN pos ELSE named

\* Core::on_lifecycle.  observed: it came over the subscription, from that state.
OnLifecycle(observed, from, to, problem) ==
    LET stale     == observed /\ ~problem /\ from # state
        same      == observed /\ ~problem /\ from = to
        reconnect == to = "Ready" /\ (~observed \/ state # "Ready" \/ problem)
    IN  /\ state' = IF stale THEN state ELSE to
        /\ IF ~stale /\ ~same /\ reconnect
           THEN /\ epoch' = epoch + 1
                /\ seen_ready' = TRUE
                /\ Relaunch(IF seen_ready THEN Reconnect ELSE Bootstrap, epoch + 1)
           ELSE Ignore /\ UNCHANGED <<epoch, seen_ready>>

-----------------------------------------------------------------------------
(* The driver and the adapter.                                             *)

Listening == run \in {"subscribed", "running"}
Running   == run = "running"

\* A control or a change of the environment, charged to the budget.
Charge == calls < MaxCalls /\ calls' = calls + 1

\* Reconciler::run subscribes first and takes the lifecycle snapshot after it.
Subscribe ==
    /\ run = "new"
    /\ run' = "subscribed"
    /\ Quiet
    /\ UNCHANGED <<envVars, box, state, epoch, seen_ready, room, reads, named>>

Start ==
    /\ run = "subscribed"
    /\ run' = "running"
    /\ OnLifecycle(FALSE, link, link, FALSE)
    /\ UNCHANGED <<envVars, box, named>>

\* Core::activate.
Activate(anchor) ==
    /\ Running
    /\ IF epoch = 0 /\ ~IsTracked THEN UNCHANGED calls ELSE Charge
    /\ IF ~IsTracked
       THEN IF state = "Ready"
            THEN Perform(Launch(NewRoom(anchor), Bootstrap, NoPos, epoch, FreshId), reads)
            ELSE Perform(Settled(NewRoom(anchor)), reads)
       ELSE LET marked == [room EXCEPT !.bootstrap_anchor = anchor,
                                       !.pending_bootstrap = TRUE]
            IN  CASE anchor = room.bootstrap_anchor -> Ignore
                  [] anchor # room.bootstrap_anchor /\ state = "Ready" ->
                        Perform(Launch(marked, Bootstrap, NoPos, epoch, FreshId), reads)
                  [] anchor # room.bootstrap_anchor /\ state # "Ready" ->
                        Perform(Settled(marked), reads)
    /\ UNCHANGED <<hist, link, junk, box, coreVars, named>>

\* Core::forget, and Core::on_stop with run' = "stopped".
Forgotten ==
    /\ room' = Untracked
    /\ named' = NoPos
    /\ Quiet

Deactivate ==
    /\ Running /\ IsTracked
    /\ Charge
    /\ Forgotten
    /\ reads' = {rd \in reads : Current(rd)}
    /\ UNCHANGED <<hist, link, junk, box, coreVars>>

Stop ==
    /\ Running
    /\ Charge
    /\ run' = "stopped"
    /\ Forgotten
    /\ reads' = {}
    /\ box' = EmptyBox
    /\ UNCHANGED <<hist, link, junk, state, epoch, seen_ready>>

\* Core::on_resume.
Resume ==
    /\ Running
    /\ Charge
    /\ epoch' = epoch + 1
    /\ Relaunch(Reconnect, epoch + 1)
    /\ UNCHANGED <<hist, link, junk, box, run, state, seen_ready, named>>

DecodeFailed ==
    /\ Running /\ IsTracked
    /\ Charge
    /\ OnTrigger(ProtocolGap, NoPos)
    /\ UNCHANGED <<hist, link, junk, box, coreVars, named>>

-----------------------------------------------------------------------------
(* The daemon and the transport.                                           *)

Heard(ev) == IF Listening THEN Broadcast(box, ev) ELSE box

Push(pos, id) == [type |-> "event", pos |-> pos, id |-> id]

\* A new event at the end of the history.
Commit ==
    /\ Len(hist) < MaxEvents
    /\ hist' = Append(hist, Len(hist))
    /\ box' = IF link = "Ready" THEN Heard(Push(Len(hist), Len(hist))) ELSE box
    /\ Quiet
    /\ UNCHANGED <<link, calls, junk, coreVars, room, reads, named>>

\* A late sibling at position r: the gap, then the event.
Insert(r) ==
    LET gap == [type |-> "gap", from |-> r]
        ev  == Push(r, Len(hist))
    IN  /\ Len(hist) < MaxEvents
        /\ r \in 1 .. Len(hist) - 1
        /\ hist' = SubSeq(hist, 1, r) \o <<Len(hist)>> \o SubSeq(hist, r + 1, Len(hist))
        /\ box' = IF link = "Ready" /\ Listening
                  THEN Broadcast(Broadcast(box, gap), ev) ELSE box
        /\ Quiet
        /\ UNCHANGED <<link, calls, junk, coreVars, room, reads, named>>

JunkPush ==
    /\ link = "Ready" /\ Listening
    /\ junk < MaxJunk
    /\ junk' = junk + 1
    /\ Charge
    /\ box' = Heard([type |-> "junk"])
    /\ Quiet
    /\ UNCHANGED <<hist, link, coreVars, room, reads, named>>

Transition(from, to) == [type |-> "state", from |-> from, to |-> to, problem |-> FALSE]

\* The reads sent are settled as disconnected before the transition is told.
LinkDown ==
    /\ link = "Ready" /\ run # "stopped"
    /\ Charge
    /\ link' = "Down"
    /\ box' = Heard(Transition("Ready", "Down"))
    /\ reads' = {IF rd.reply = NoReply THEN [rd EXCEPT !.reply = Error] ELSE rd : rd \in reads}
    /\ Quiet
    /\ UNCHANGED <<hist, junk, coreVars, room, named>>

LinkUp ==
    /\ link = "Down" /\ run # "stopped"
    /\ link' = "Ready"
    /\ box' = Heard(Transition("Down", "Ready"))
    /\ Quiet
    /\ UNCHANGED <<hist, calls, junk, coreVars, room, reads, named>>

\* What the daemon may answer a read with.
Page(from, n) ==
    [kind |-> "page", ids |-> SubSeq(hist, from + 1, from + n), more |-> from + n < Len(hist)]

Truthful(req) ==
    LET left(from) == Len(hist) - from
        pages(from) == IF left(from) <= 0 THEN {[kind |-> "page", ids |-> <<>>, more |-> FALSE]}
                       ELSE {Page(from, n) : n \in 1 .. left(from)}
    IN  CASE req.op = "Timeline" -> pages(req.from)
          [] req.op = "Resync" -> pages(req.from + 1)
          [] req.op = "Members" ->
                {[kind |-> "members", ids |-> IdsOf(hist) \cap Membership]}

Faults(req) ==
    {Error, [kind |-> "malformed"]} \cup
    IF req.op = "Resync" THEN {[kind |-> "redirect", from |-> p] : p \in 0 .. Len(hist)} ELSE {}

Serve(rd) ==
    /\ rd \in reads /\ rd.reply = NoReply
    /\ \/ /\ link = "Ready"
          /\ \E answer \in Truthful(rd.req) :
                reads' = (reads \ {rd}) \cup {[rd EXCEPT !.reply = answer]}
          /\ UNCHANGED calls
       \/ /\ calls + FaultCost <= MaxCalls
          /\ \E answer \in IF link = "Ready" THEN Faults(rd.req) ELSE {Error} :
                reads' = (reads \ {rd}) \cup {[rd EXCEPT !.reply = answer]}
          /\ calls' = calls + FaultCost
    /\ Quiet
    /\ UNCHANGED <<hist, link, junk, box, coreVars, room, named>>

-----------------------------------------------------------------------------
(* The core's inputs from the transport.                                   *)

\* Core::on_read_reply, behind its fence.
ReadSettles(rd) ==
    /\ Running
    /\ rd \in reads /\ rd.reply # NoReply
    /\ IF ~Current(rd) THEN Quiet /\ room' = room /\ reads' = reads \ {rd}
       ELSE IF state # "Ready"
       THEN Perform(Settled(ParkOutstanding(room)), reads \ {rd})
       ELSE Perform(OnReadReply(room, rd.reply, epoch, FreshId), reads \ {rd})
    /\ IF Current(rd) /\ state = "Ready" /\ rd.reply.kind = "redirect" /\ IsReconciling(room')
       THEN Name(rd.reply.from) ELSE UNCHANGED named
    /\ UNCHANGED <<envVars, box, coreVars>>

\* Core::on_event over the next event of the subscription.
Consume ==
    /\ Running
    /\ Readable(box)
    /\ box' = Polled(box)
    /\ LET ev == Yielded(box)
           changing == ev.type = "state"
       IN  /\ changing => OnLifecycle(TRUE, ev.from, ev.to, ev.problem)
           /\ ev.type = "gap" => OnTrigger(ProtocolGap, ev.from)
           /\ ev.type = "lagged" => OnTrigger(Overflow(ev.dropped), NoPos)
           /\ ev.type = "event" =>
                IF IsTracked THEN Perform(OnLiveEvent(room, ev, epoch, FreshId), reads) ELSE Ignore
           /\ ev.type = "junk" =>
                IF IsTracked THEN Perform(OnJunk(room, epoch, FreshId), reads) ELSE Ignore
           /\ ~changing => UNCHANGED <<state, epoch, seen_ready>>
           /\ IF ev.type = "gap" THEN Name(ev.from) ELSE UNCHANGED named
    /\ UNCHANGED <<envVars, run>>

-----------------------------------------------------------------------------

Control ==
    \/ \E anchor \in Anchors : Activate(anchor)
    \/ Deactivate
    \/ Stop
    \/ Resume
    \/ DecodeFailed

Next ==
    \/ Subscribe
    \/ Start
    \/ Control
    \/ Commit
    \/ \E r \in 1 .. MaxEvents : Insert(r)
    \/ JunkPush
    \/ LinkDown
    \/ LinkUp
    \/ \E rd \in reads : Serve(rd)
    \/ \E rd \in reads : ReadSettles(rd)
    \/ Consume

Spec == Init /\ [][Next]_vars

\* Weak fairness of the two handlers, with what enables them and what shows
\* that they ran written out: TLC is slow to find it by ENABLED.
ReplyReady(rd) == Current(rd) /\ rd.reply # NoReply

SettleFairly ==
    \/ []<>~(Running /\ \E rd \in reads : ReplyReady(rd))
    \/ []<><<\E rd \in reads : ReplyReady(rd) /\ rd \notin reads'>>_vars
ConsumeFairly ==
    \/ []<>~(Running /\ Readable(box))
    \/ []<><<Readable(box) /\ box' = Polled(box)>>_vars

\* The kernel answers every call by its deadline; the driver polls what is ready.
FairSpec ==
    /\ Spec
    /\ WF_vars(Subscribe) /\ WF_vars(Start)
    /\ WF_vars(\E rd \in reads : Current(rd) /\ Serve(rd))
    /\ SettleFairly
    /\ ConsumeFairly

-----------------------------------------------------------------------------
(* Properties.                                                             *)

\* What is still on its way to the core and could repudiate position p of
\* the view it has: a gap, a loss marker, a transition, a conflicting event.
Unread ==
    IdsOf(box.q) \cup (IF box.lost > 0 THEN {Lagged(box.lost)} ELSE {})

Repudiates(ev, p) ==
    \/ ev.type = "lagged"
    \/ ev.type = "state"
    \/ ev.type = "gap" /\ ev.from <= p
    \/ ev.type = "event" /\ ev.pos <= p /\ room.known[ev.pos + 1] # ev.id

\* A room that claims to be converged shows, at every position, the event the
\* daemon's history has there, unless the evidence against it is still unread
\* or the transport is away (room.rs, converge and apply_live_event).
ViewIsCommittedHistory ==
    IsTracked /\ IsConverged(room) /\ link = "Ready" =>
        \A p \in 0 .. Watermark(room) :
            \/ p < Len(hist) /\ room.known[p + 1] = hist[p + 1]
            \/ \E ev \in Unread : Repudiates(ev, p)

\* When nothing is unread and the transport is up, a converged room has it all:
\* nothing a push, a page or a buffer dropped on the way is missing.
ConvergedIsCurrent ==
    IsTracked /\ IsConverged(room) /\ link = "Ready" /\ Unread = {}
        => room.known = hist

\* A converged room reaches every position the daemon named in a gap or in a
\* redirect the room followed, whatever stronger cause the evidence was merged into
\* (RoomState::note_trigger_evidence).
FrontierCovered == IsTracked /\ IsConverged(room) => Watermark(room) >= named

\* The loss the room holds and has not reported.
Held(rm) ==
    IF rm.phase.tag = "Untracked" THEN 0
    ELSE rm.pending_loss_notice + rm.pending_local_dropped + rm.parked_buffer.dropped
         + OverflowDropped(PendingCause(rm))
         + IF IsReconciling(rm) THEN rm.phase.buffer.dropped ELSE 0

Incoming == IF Readable(box) /\ Yielded(box).type = "lagged" THEN Yielded(box).dropped ELSE 0

\* What the room holds after a step, or tells in it, is no less than what it held before
\* and took off the bus.
KeepsLoss ==
    room'.phase.tag # "Untracked" /\ ~(box # box' /\ Yielded(box).type = "junk") =>
        Held(room') + told' >= Held(room) + IF Consume THEN Incoming ELSE 0

\* No step loses count of the pushes that were dropped: what the room held,
\* and a loss marker it consumes, is held afterwards or told in this step.  A
\* junk push is left out: buffer_live_event stores its cause without banking.
LossKept == [][KeepsLoss]_vars

\* Whatever the daemon answers, reconciling comes to an end: the retries,
\* restarts and chases are bounded (driver.rs, fail: "bounded: no auto-spin").
Settles == <>[](IsTracked => ~IsReconciling(room))

=============================================================================
