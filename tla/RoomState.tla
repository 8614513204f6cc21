------------------------------ MODULE RoomState ------------------------------
(***************************************************************************)
(* One room of the reconciler (jeliya-client/src/reconcile/room.rs, with   *)
(* reason.rs and buffer.rs) as operators on its state record, and the      *)
(* launch of a reconciliation (core.rs), which they all end in.            *)
(*                                                                         *)
(* An event is its identity, a natural number; genesis is 0.  known is the *)
(* committed history the room holds: known[p + 1] is the event at position *)
(* p.  It stands for the watermark (its last position), for all_event_ids  *)
(* and for recent_ids, which is a subset of them.  The rendered timeline   *)
(* is the part of it from position lo on.  Content beyond the identity,    *)
(* byte budgets and the ceiling on the total history are abstracted.  Peer  *)
(* pushes and the peers read that closes a baseline are left out: they     *)
(* decide nothing about the history.                                       *)
(***************************************************************************)
EXTENDS Integers, Sequences, FiniteSets

CONSTANTS
    Membership,     \* events that change the roster
    Departures,     \* those of them that name a member the roster must know
    TimelineDepth,  \* limits.timeline_depth
    BufferDepth,    \* limits.buffer_depth
    MaxRestartChain \* MAX_RESTART_CHAIN

ASSUME RoomAssumption ==
    /\ Departures \subseteq Membership
    /\ TimelineDepth \in Nat \ {0}
    /\ BufferDepth \in Nat \ {0}
    /\ MaxRestartChain \in Nat

-----------------------------------------------------------------------------
\* Causes (reason.rs).  NoPos and NoReason stand for None.

NoPos == -1

NoReason      == [kind |-> "None"]
Bootstrap     == [kind |-> "Bootstrap"]
Reconnect     == [kind |-> "Reconnect"]     \* and Resume: same rank, same reads
GapTo(pos)    == [kind |-> "Gap", to |-> pos]
ProtocolGap   == GapTo(NoPos)
Overflow(n)   == [kind |-> "LocalOverflow", dropped |-> n]
ByDaemon(pos) == [kind |-> "ResyncRequiredByDaemon", from |-> pos]

Priority(r) ==
    CASE r.kind = "None" -> -1
      [] r.kind = "Bootstrap" -> 0
      [] r.kind = "LocalOverflow" -> 1
      [] r.kind = "Gap" -> 2
      [] r.kind = "Reconnect" -> 3
      [] r.kind = "ResyncRequiredByDaemon" -> 4

OverflowDropped(r) == IF r.kind = "LocalOverflow" THEN r.dropped ELSE 0

Lower(p, q) == IF p = NoPos \/ (q # NoPos /\ q < p) THEN q ELSE p

Coalesce(old, new) ==
    IF old.kind = new.kind /\ old.kind = "ResyncRequiredByDaemon"
    THEN ByDaemon(Lower(old.from, new.from))
    ELSE IF old.kind = new.kind /\ old.kind = "LocalOverflow"
    THEN Overflow(old.dropped + new.dropped)
    ELSE IF Priority(new) >= Priority(old) THEN new ELSE old

\* The loss an outranked LocalOverflow would take along (coalesce_banking_loss).
Outranked(old, new) ==
    OverflowDropped(old) + OverflowDropped(new) - OverflowDropped(Coalesce(old, new))

FromPosFor(r) == IF r.kind = "ResyncRequiredByDaemon" THEN r.from ELSE NoPos

ImplicatesPresence(r) == r.kind # "Gap"

-----------------------------------------------------------------------------
\* Buffers of pushes (buffer.rs).

EmptyBuffer == [q |-> <<>>, dropped |-> 0]

BufferPush(b, e) ==
    IF b.dropped > 0 \/ Len(b.q) >= BufferDepth
    THEN [b EXCEPT !.dropped = @ + 1]
    ELSE [b EXCEPT !.q = Append(@, e)]

\* buffer_live_event: full, it drops the push whether it lost one before or not.
BufferLive(b, e) ==
    IF Len(b.q) >= BufferDepth THEN [b EXCEPT !.dropped = @ + 1] ELSE BufferPush(b, e)

\* Iterator::fold, as a recursive function: what a fold keeps is proved of it.
FoldOver(op(_, _), base, q) ==
    LET acc[i \in 0 .. Len(q)] == IF i = 0 THEN base ELSE op(acc[i - 1], q[i])
    IN  acc[Len(q)]

BufferAll(b, q) == FoldOver(BufferPush, b, q)

\* Behind everything at or below its position.
Place(s, e) ==
    LET k == Cardinality({i \in DOMAIN s : s[i].pos <= e.pos})
    IN  SubSeq(s, 1, k) \o <<e>> \o SubSeq(s, k + 1, Len(s))

\* A stable sort by position.
ByPosition(q) == FoldOver(Place, <<>>, q)

-----------------------------------------------------------------------------
\* The state of a room.

Converged == [tag |-> "Converged"]
Parked(reason) == [tag |-> "NeedsReconcile", reason |-> reason]

NewRoom(anchor) ==
    [known |-> <<>>, lo |-> 0, roster |-> {}, bootstrap_anchor |-> anchor,
     pending_bootstrap |-> FALSE, presence_refresh_pending |-> FALSE,
     protocol_retry_used |-> FALSE, required_frontier |-> NoPos,
     frontier_retry_used |-> FALSE, restart_chain |-> 0,
     restart_retry_used |-> FALSE, pending_gap_from |-> NoPos,
     pending_local_dropped |-> 0, pending_loss_notice |-> 0,
     parked_buffer |-> EmptyBuffer, phase |-> Parked(Bootstrap)]

Watermark(room) == Len(room.known) - 1      \* NoPos before the first baseline

IsReconciling(room) == room.phase.tag = "Reconciling"
IsConverged(room)   == room.phase.tag = "Converged"

IdsOf(s) == {s[i] : i \in DOMAIN s}

\* The scan of the baseline read in flight: the last position validated.
ScanPos(rec) ==
    IF rec.replace_timeline
    THEN IF rec.scan = <<>> THEN 0 ELSE Len(rec.scan) - 1
    ELSE rec.baseline_start + Len(rec.scan)

\* Mutant of Banked: the stronger cause erases the loss of the weaker one.
Erased(room, old, new) == room

Banked(room, old, new) ==
    [room EXCEPT !.pending_loss_notice = @ + Outranked(old, new)]

NoteFrontier(room, pos) ==
    IF pos > room.required_frontier
    THEN [room EXCEPT !.required_frontier = pos, !.frontier_retry_used = FALSE]
    ELSE room

\* Mutant of NoteTriggerEvidence: the cursor only selects where to read from.
NoteNothing(room, reason, from) == room

\* A cursor the daemon named proves that history reaches it.
NoteTriggerEvidence(room, reason, from) ==
    NoteFrontier(NoteFrontier(room, from),
                 IF reason.kind = "Gap" THEN reason.to ELSE FromPosFor(reason))

\* Take the cause that is pending but not acted on.
PendingCause(room) ==
    CASE room.phase.tag = "NeedsReconcile" -> room.phase.reason
      [] room.phase.tag = "Reconciling" -> room.phase.rerun
      [] OTHER -> NoReason

TakePendingCause(room) ==
    IF IsReconciling(room) THEN [room EXCEPT !.phase.rerun = NoReason] ELSE room

CoalesceRerun(room, reason, from) ==
    LET kept == [room EXCEPT !.pending_gap_from = Lower(@, from)]
        merged == Coalesce(room.phase.rerun, reason)
    IN  [Banked(kept, room.phase.rerun, reason) EXCEPT !.phase.rerun = merged]

\* Keep the pushes an in-flight reconciliation holds before it is replaced.
StashReconcilingPushes(room) ==
    IF ~IsReconciling(room) THEN room
    ELSE LET rec    == room.phase
             loss   == rec.buffer.dropped
             parked == BufferAll(room.parked_buffer, rec.buffer.q)
         IN  [room EXCEPT !.phase.buffer = EmptyBuffer,
                          !.parked_buffer = parked,
                          !.pending_local_dropped = @ + loss,
                          !.presence_refresh_pending =
                              @ \/ rec.presence \/ loss > 0 \/ parked.dropped > 0]

\* Discard back to pos: what lies above is repudiated.  The roster cannot be
\* rolled back and has to be read again.
TruncateTo(room, pos) ==
    IF pos >= Watermark(room) THEN room
    ELSE [room EXCEPT !.known = SubSeq(@, 1, pos + 1),
                      !.lo = IF @ > pos + 1 THEN pos + 1 ELSE @,
                      !.presence_refresh_pending = TRUE]

\* Contradicting evidence at a committed position: read it again from before.
DisputePosition(room, pos) ==
    IF pos = 0 THEN [room EXCEPT !.pending_bootstrap = TRUE]
    ELSE [room EXCEPT !.pending_gap_from = Lower(@, pos - 1)]

-----------------------------------------------------------------------------
\* Extending the history.

\* apply_membership_event: a departure of somebody unknown asks for the roster.
Fold(room, id) ==
    IF id \notin Membership THEN room
    ELSE IF id \in Departures /\ id \notin room.roster
         THEN [room EXCEPT !.presence_refresh_pending = TRUE]
         ELSE [room EXCEPT !.roster = @ \cup {id}]

\* The rendered window is the newest part of the history.
Trimmed(room) ==
    LET first == Len(room.known) - TimelineDepth
    IN  [room EXCEPT !.lo = IF @ < first THEN first ELSE @]

Grown(room, id) ==
    Trimmed([Fold(room, id) EXCEPT !.known = Append(@, id)])

\* Whether a push at or below the watermark only repeats what is held there.
Replays(room, e) == room.known[e.pos + 1] = e.id

\* apply_ordered over one event of a run; stop is set by the first gap.
ApplyOne(acc, e) ==
    LET room == acc.room
    IN  CASE acc.stop -> acc
          [] ~acc.stop /\ e.pos <= Watermark(room) ->
                IF Replays(room, e) THEN acc
                ELSE [room |-> DisputePosition(room, e.pos), stop |-> TRUE]
          [] ~acc.stop /\ e.pos > Watermark(room) ->
                IF e.pos # Watermark(room) + 1 \/ e.id \in IdsOf(room.known)
                THEN [acc EXCEPT !.stop = TRUE]
                ELSE [acc EXCEPT !.room = Grown(room, e.id)]

ApplyOrdered(room, q) == FoldOver(ApplyOne, [room |-> room, stop |-> FALSE], q)

-----------------------------------------------------------------------------
(***************************************************************************)
(* A handler's effect: the room it leaves, the read it issues (at most     *)
(* one) and the loss it reports to the consumer.                           *)
(***************************************************************************)
Settled(room) == [room |-> room, issue |-> <<>>, told |-> 0]

Publishing(room) ==
    [Settled([room EXCEPT !.pending_loss_notice = 0]) EXCEPT
        !.told = room.pending_loss_notice]

\* The reads of a reconciliation of a room truncated to from (NoPos: not).
Reading(room, reason, from, loss, epoch, read_id) ==
    LET replace == \/ Watermark(room) = NoPos
                   \/ reason.kind = "Bootstrap" /\ from = NoPos
                   \/ room.pending_bootstrap
        presence == \/ ImplicatesPresence(reason)
                    \/ room.presence_refresh_pending
                    \/ loss > 0
        first == IF replace THEN [op |-> "Timeline", from |-> 0]
                            ELSE [op |-> "Resync", from |-> Watermark(room)]
        rec == [tag |-> "Reconciling", epoch |-> epoch, reason |-> reason,
                read_id |-> read_id, outstanding |-> first,
                plan |-> IF replace \/ presence THEN <<"Members">> ELSE <<>>,
                scan |-> <<>>,
                baseline_start |-> IF replace THEN 0 ELSE Watermark(room),
                replace_timeline |-> replace, presence |-> presence,
                buffer |-> BufferAll(EmptyBuffer, room.parked_buffer.q),
                rerun |-> IF loss > 0 THEN Overflow(loss) ELSE NoReason,
                members |-> <<>>]
    IN  [Settled([room EXCEPT !.pending_local_dropped = 0,
                              !.parked_buffer = EmptyBuffer,
                              !.pending_bootstrap = @ /\ ~replace,
                              !.presence_refresh_pending = FALSE,
                              !.phase = rec])
         EXCEPT !.issue = <<first>>, !.told = OverflowDropped(reason)]

\* Discard what the wanted cursor repudiates, no higher than the history held.
ReadFrom(room, reason, wanted, epoch, read_id) ==
    LET from == IF wanted > Watermark(room) THEN Watermark(room) ELSE wanted
    IN  Reading(IF from = NoPos THEN room ELSE TruncateTo(room, from), reason, from,
                room.parked_buffer.dropped + room.pending_local_dropped, epoch, read_id)

\* RoomState::begin_reconcile.
BeginReconcile(room, reason, from, epoch, read_id) ==
    ReadFrom(StashReconcilingPushes([room EXCEPT !.pending_gap_from = NoPos]), reason,
             Lower(Lower(FromPosFor(reason), from), room.pending_gap_from),
             epoch, read_id)

\* Core::launch: the cause that was pending is merged into the new one.  The
\* read_id and the epoch are given by the core.
Launch(room, reason, from, epoch, read_id) ==
    LET parked == PendingCause(room)
        merged == Coalesce(parked, reason)
        taken  == TakePendingCause(NoteTriggerEvidence(room, reason, from))
    IN  BeginReconcile(NoteTriggerEvidence(Banked(taken, parked, reason), merged, NoPos),
                       merged, from, epoch, read_id)

\* Core::trigger: coalesce into the read in flight, or launch.
Trigger(room, reason, from, epoch, read_id) ==
    IF IsReconciling(room)
    THEN Settled(CoalesceRerun(NoteTriggerEvidence(room, reason, from), reason, from))
    ELSE Launch(NoteTriggerEvidence(room, reason, from), reason, from, epoch, read_id)

-----------------------------------------------------------------------------
\* A settled read.

\* fail_inner: park with everything that accrued; run an accrued cause once.
Fail(room0, relaunch, epoch, read_id) ==
    LET room  == StashReconcilingPushes(room0)
        rec   == room.phase
        loss  == room.parked_buffer.dropped + room.pending_local_dropped
        had   == rec.rerun # NoReason
        cause == IF had THEN Coalesce(rec.reason, rec.rerun) ELSE rec.reason
        kept  == IF had THEN Banked(room, rec.reason, rec.rerun) ELSE room
        all   == IF loss > 0 THEN Coalesce(cause, Overflow(loss)) ELSE cause
        left  == [kept EXCEPT !.presence_refresh_pending = @ \/ rec.presence,
                              !.phase = Parked(all)]
    IN  IF relaunch /\ had
        THEN Launch(left, all, FromPosFor(all), epoch, read_id)
        ELSE Settled(left)

\* Mutant of StructuralRetry: nothing remembers that the retry was used.
StructuralRetryForever(room, epoch, read_id) ==
    LET rec == room.phase
        retried == [Banked(room, rec.rerun, ProtocolGap) EXCEPT
                        !.pending_bootstrap = @ \/ rec.replace_timeline,
                        !.presence_refresh_pending = @ \/ rec.presence,
                        !.phase.rerun = NoReason]
    IN  Launch(retried, Coalesce(rec.rerun, ProtocolGap), NoPos, epoch, read_id)

\* structural_retry: one retry of an inconsistent page, then park.
StructuralRetry(room, epoch, read_id) ==
    LET rec == room.phase
        retried == [Banked(room, rec.rerun, ProtocolGap) EXCEPT
                        !.protocol_retry_used = TRUE,
                        !.pending_bootstrap = @ \/ rec.replace_timeline,
                        !.presence_refresh_pending = @ \/ rec.presence,
                        !.phase.rerun = NoReason]
    IN  IF room.protocol_retry_used THEN Fail(room, FALSE, epoch, read_id)
        ELSE Launch(retried, Coalesce(rec.rerun, ProtocolGap), NoPos, epoch, read_id)

\* bounded_restart: a redirect that makes progress, at most a chain of them; one
\* that does not, once.
BoundedRestart(room, from, epoch, read_id) ==
    LET effective == IF from > Watermark(room) THEN Watermark(room) ELSE from
        progress  == effective < room.phase.baseline_start
        exhausted == IF progress THEN room.restart_chain >= MaxRestartChain
                                 ELSE room.restart_retry_used
        spent     == IF progress THEN [room EXCEPT !.restart_chain = @ + 1]
                                 ELSE [room EXCEPT !.restart_retry_used = TRUE]
    IN  IF exhausted
        THEN Fail(CoalesceRerun(spent, ByDaemon(from), from), FALSE, epoch, read_id)
        ELSE Launch(spent, ByDaemon(from), from, epoch, read_id)

\* The baseline becomes the room's history (converge, step 1 and 2).
Baselined(room) ==
    LET rec      == room.phase
        tail     == IF Len(rec.scan) > TimelineDepth
                    THEN SubSeq(rec.scan, Len(rec.scan) - TimelineDepth + 1, Len(rec.scan))
                    ELSE rec.scan
        folded   == FoldOver(Fold, room, tail)
        history  == IF rec.replace_timeline THEN rec.scan ELSE room.known \o rec.scan
        grown    == IF rec.scan = <<>> THEN room
                    ELSE Trimmed([folded EXCEPT !.known = history,
                                     !.lo = IF rec.replace_timeline THEN 0 ELSE @])
        stale    == \/ grown.presence_refresh_pending
                    \/ rec.buffer.dropped > 0
                    \/ IdsOf(rec.scan) \cap Membership # {}
    IN  IF rec.members = <<>>
        THEN [grown EXCEPT !.presence_refresh_pending = stale]
        ELSE [grown EXCEPT !.presence_refresh_pending = FALSE, !.roster = rec.members[1]]

\* After the commit: chase an accrued cause, a stale roster, an unreached
\* frontier or an empty window; otherwise publish.
Conclude(room, rerun, replaced, epoch, read_id) ==
    LET frontier == room.required_frontier
        chase    == GapTo(frontier)
        reached  == [room EXCEPT !.required_frontier = NoPos,
                                 !.frontier_retry_used = FALSE]
    IN  CASE rerun # NoReason -> Launch(room, rerun, NoPos, epoch, read_id)
          [] rerun = NoReason /\ Watermark(room) < frontier ->
                IF room.frontier_retry_used
                THEN Settled([room EXCEPT !.phase = Parked(chase)])
                ELSE Launch([room EXCEPT !.frontier_retry_used = TRUE],
                            chase, NoPos, epoch, read_id)
          [] rerun = NoReason /\ Watermark(room) >= frontier ->
                IF ~replaced /\ room.lo > Watermark(room)
                THEN Launch([reached EXCEPT !.pending_bootstrap = TRUE],
                            ProtocolGap, NoPos, epoch, read_id)
                ELSE Publishing(reached)

\* The buffered pushes have been replayed on the baseline: live is where it ended.
Replayed(live, rerun, replaced, epoch, read_id) ==
    LET cause == IF live.stop THEN Coalesce(rerun, ProtocolGap) ELSE rerun
        room  == IF live.stop THEN Banked(live.room, rerun, ProtocolGap) ELSE live.room
    IN  Conclude([room EXCEPT !.protocol_retry_used = FALSE, !.restart_chain = 0,
                              !.restart_retry_used = FALSE,
                              !.pending_bootstrap = FALSE, !.phase = Converged],
                 IF cause = NoReason /\ live.room.presence_refresh_pending
                 THEN ProtocolGap ELSE cause,
                 replaced, epoch, read_id)

\* RoomState::converge; rec is the reconciliation that read everything.
Converge(room, rec, epoch, read_id) ==
    LET lost == rec.buffer.dropped
        loss == Overflow(lost)
        superseded == [room EXCEPT !.presence_refresh_pending = @ \/ rec.presence,
                                   !.phase.rerun = NoReason]
    IN  CASE room.pending_bootstrap ->
                Launch(superseded, IF rec.rerun = NoReason THEN Bootstrap ELSE rec.rerun,
                       NoPos, epoch, read_id)
          [] ~room.pending_bootstrap /\ rec.replace_timeline /\ rec.scan = <<>> ->
                StructuralRetry(room, epoch, read_id)
          [] OTHER ->
                Replayed(ApplyOrdered(IF lost = 0 THEN Baselined(room)
                                      ELSE Banked(Baselined(room), rec.rerun, loss),
                                      ByPosition(rec.buffer.q)),
                         IF lost = 0 THEN rec.rerun ELSE Coalesce(rec.rerun, loss),
                         rec.replace_timeline, epoch, read_id)

\* The next read of the plan, under the same read_id, or the end of it.
Advance(room, epoch, read_id) ==
    LET rec  == room.phase
        next == [op |-> Head(rec.plan), from |-> 0]
    IN  IF rec.plan = <<>> THEN Converge(room, rec, epoch, read_id)
        ELSE [Settled([room EXCEPT !.phase.outstanding = next,
                                   !.phase.plan = Tail(@)])
              EXCEPT !.issue = <<next>>]

\* Mutant of PageValid: a page is only compared with the scan it continues.
PageContinues(room, ids) == IdsOf(ids) \cap IdsOf(room.phase.scan) = {}

\* A page is valid when it continues the scan and repeats no identity.
PageValid(room, ids) ==
    LET held == IdsOf(room.phase.scan) \cup
                (IF room.phase.replace_timeline THEN {} ELSE IdsOf(room.known))
    IN  IdsOf(ids) \cap held = {}

TakePage(room, reply, epoch, read_id) ==
    LET rec     == room.phase
        scanned == [room EXCEPT !.phase.scan = @ \o reply.ids]
        next    == [rec.outstanding EXCEPT
                      !.from = IF rec.replace_timeline THEN Len(scanned.phase.scan)
                                                       ELSE ScanPos(scanned.phase)]
    IN  CASE ~PageValid(room, reply.ids) -> StructuralRetry(room, epoch, read_id)
          [] PageValid(room, reply.ids) /\ reply.more ->
                [Settled([scanned EXCEPT !.phase.outstanding = next])
                 EXCEPT !.issue = <<next>>]
          [] PageValid(room, reply.ids) /\ ~reply.more ->
                IF rec.replace_timeline /\ ScanPos(scanned.phase) < room.bootstrap_anchor
                THEN StructuralRetry(scanned, epoch, read_id)
                ELSE Advance(scanned, epoch, read_id)

\* RoomState::on_read_reply with the core's treatment of its outcome.
OnReadReply(room, reply, epoch, read_id) ==
    CASE reply.kind = "malformed" -> StructuralRetry(room, epoch, read_id)
      [] reply.kind = "error" -> Fail(room, TRUE, epoch, read_id)
      [] reply.kind = "redirect" -> BoundedRestart(room, reply.from, epoch, read_id)
      [] reply.kind = "page" -> TakePage(room, reply, epoch, read_id)
      [] reply.kind = "members" ->
            Advance([room EXCEPT !.phase.members = <<reply.ids>>], epoch, read_id)

-----------------------------------------------------------------------------
\* A live push.

OnLiveEvent(room, e, epoch, read_id) ==
    LET again(r) == Launch(r, ProtocolGap, NoPos, epoch, read_id)
        grown == Grown(room, e.id)
    IN  CASE IsReconciling(room) ->
                Settled([room EXCEPT !.phase.buffer = BufferLive(@, e)])
          [] room.phase.tag = "NeedsReconcile" ->
                Settled([room EXCEPT !.parked_buffer = BufferPush(@, e)])
          [] IsConverged(room) /\ e.pos <= Watermark(room) ->
                IF Replays(room, e) THEN Settled(room)
                ELSE again(DisputePosition(room, e.pos))
          [] IsConverged(room) /\ e.pos > Watermark(room) ->
                IF e.id \in IdsOf(room.known) \/ e.pos # Watermark(room) + 1
                THEN again(room)
                ELSE IF grown.presence_refresh_pending THEN again(grown)
                ELSE Settled(grown)

\* A push beyond the byte or identifier limits: never kept, never silent.
OnJunk(room, epoch, read_id) ==
    CASE IsReconciling(room) ->
            Settled([room EXCEPT !.phase.rerun = Coalesce(@, ProtocolGap)])
      [] room.phase.tag = "NeedsReconcile" ->
            Settled([room EXCEPT !.pending_local_dropped = @ + 1,
                                 !.presence_refresh_pending = TRUE])
      [] IsConverged(room) -> Launch(room, ProtocolGap, NoPos, epoch, read_id)

\* The transport left Ready before the answer came: keep the evidence.
ParkOutstanding(room0) ==
    LET room == StashReconcilingPushes(room0)
        rec  == room.phase
    IN  [Banked(room, rec.rerun, rec.reason) EXCEPT
            !.phase = Parked(Coalesce(rec.rerun, rec.reason))]
=============================================================================
