------------------------- MODULE ReconcilerProofs -------------------------
(***************************************************************************)
(* What holds of the reconciler for any room, any limits, any history and  *)
(* any answers of the daemon.                                              *)
(*                                                                         *)
(* Every handler ends in an effect, and Outcome says what an effect may    *)
(* leave: a room within the history, whose read in flight continues its    *)
(* scan, and for which every position the daemon has named is one of the   *)
(* history, or the frontier the room has yet to reach.  The lemmas follow  *)
(* the operators of RoomState from the causes up; the loss a room holds is *)
(* counted along with them.                                                *)
(***************************************************************************)
EXTENDS Reconciler, SequenceTheorems, FiniteSetTheorems, WellFoundedInduction, TLAPS

\* A cursor, or none.
Cursors == Nat \cup {NoPos}
\* The causes a reconciliation may have.
Reasons ==
    [kind : {"None", "Bootstrap", "Reconnect"}] \cup [kind : {"LocalOverflow"}, dropped : Nat] \cup
    [kind : {"Gap"}, to : Cursors] \cup [kind : {"ResyncRequiredByDaemon"}, from : Cursors]
\* A push of a committed event.
Pushes   == [type : {"event"}, pos : Nat, id : Nat]
\* What the event bus carries.
Notices  == Pushes \cup [type : {"gap"}, from : Nat] \cup [type : {"junk"}] \cup
            [type : {"lagged"}, dropped : Nat] \cup
            [type : {"state"}, from : {"Ready", "Down"}, to : {"Ready", "Down"}, problem : BOOLEAN]
\* Pushes held back, and how many were not.
Buffers  == [q : Seq(Pushes), dropped : Nat]
\* The reads the core issues.
Requests == [op : {"Timeline", "Resync", "Members"}, from : Nat]
\* A reconciliation in flight.
Scans == [tag : {"Reconciling"}, epoch : Nat, reason : Reasons, read_id : 0 .. 2,
          outstanding : Requests, plan : Seq({"Members"}), scan : Seq(Nat),
          baseline_start : Int, replace_timeline : BOOLEAN, presence : BOOLEAN,
          buffer : Buffers, rerun : Reasons, members : Seq(SUBSET Nat)]
\* The phases of a room that is tracked.
Phases == {Converged} \cup [tag : {"NeedsReconcile"}, reason : Reasons] \cup Scans
\* The states of a room that is tracked.
Rooms == [known : Seq(Nat), lo : Int, roster : SUBSET Nat, bootstrap_anchor : Nat,
          pending_bootstrap : BOOLEAN, presence_refresh_pending : BOOLEAN,
          protocol_retry_used : BOOLEAN, required_frontier : Cursors,
          frontier_retry_used : BOOLEAN, restart_chain : Nat, restart_retry_used : BOOLEAN,
          pending_gap_from : Cursors, pending_local_dropped : Nat, pending_loss_notice : Nat,
          parked_buffer : Buffers, phase : Phases]
\* What a read in flight may hold.
Replies == {NoReply, Error, [kind |-> "malformed"]} \cup [kind : {"redirect"}, from : Nat] \cup
           [kind : {"page"}, ids : Seq(Nat), more : BOOLEAN] \cup
           [kind : {"members"}, ids : SUBSET Nat]
\* A read in flight.
Reads == [read_id : 0 .. 2, epoch : Nat, req : Requests, reply : Replies]

\* What is on its way names positions of the history.
NoticesTo(h) == {n \in Notices : /\ n.type = "event" => n.pos < h
                                 /\ n.type = "gap" => n.from < h}
\* A mailbox whose content is within a history of length h.
Boxes(h) == [q : Seq(NoticesTo(h)), lost : Nat]

\* The types of what the invariant is about.
Types ==
    /\ hist \in Seq(Nat) /\ Len(hist) >= 1
    /\ link \in {"Ready", "Down"} /\ state \in {"Ready", "Down"}
    /\ epoch \in Nat /\ told \in Nat /\ named \in Int /\ junk \in Nat
    /\ room \in Rooms \cup {Untracked}
    /\ box \in Boxes(Len(hist))
    /\ \A rd \in reads : rd \in Reads

\* Every push of q is within a history of length h.
Below(q, h) == \A i \in DOMAIN q : q[i].type = "event" => q[i].pos < h

\* The last position the scan in flight has read up to.
Reach(rm) == IF rm.phase.replace_timeline THEN Len(rm.phase.scan) - 1
             ELSE Watermark(rm) + Len(rm.phase.scan)

\* The room holds, scans and buffers nothing beyond a history of length h.
Within(rm, h) ==
    /\ Len(rm.known) <= h
    /\ Below(rm.parked_buffer.q, h)
    /\ IsReconciling(rm) => Below(rm.phase.buffer.q, h) /\ Reach(rm) < h

\* What is needed to launch a reconciliation.
Fit(rm, h) ==
    /\ Len(rm.known) <= h
    /\ Below(rm.parked_buffer.q, h)
    /\ IsReconciling(rm) => Below(rm.phase.buffer.q, h)

\* The same reconciliation and the same loss: the history may differ.
Kin(a, b) ==
    /\ a.phase = b.phase /\ a.parked_buffer = b.parked_buffer
    /\ a.pending_local_dropped = b.pending_local_dropped
    /\ a.pending_loss_notice = b.pending_loss_notice
    /\ a.required_frontier = b.required_frontier

\* Every position named is one of the history, or the frontier the room must reach.
Owed(rm, nm, h) == nm < h \/ nm <= rm.required_frontier

\* The first position a read asks for.
First(req) == IF req.op = "Timeline" THEN req.from ELSE req.from + 1

\* The same history, scan and loss: the frontier and the causes may differ.
Alike(a, b) ==
    /\ a.known = b.known /\ a.phase = b.phase /\ a.parked_buffer = b.parked_buffer
    /\ a.pending_local_dropped = b.pending_local_dropped
    /\ a.pending_loss_notice = b.pending_loss_notice

\* The loss a room holds apart from its phase.
Bag(rm) == rm.pending_loss_notice + rm.pending_local_dropped + rm.parked_buffer.dropped

\* A scan that does not replace the history continues it.
Based(rm) ==
    ~rm.phase.replace_timeline => rm.phase.baseline_start = Watermark(rm) /\ Watermark(rm) >= 0

\* The read in flight asks for what follows the scan.
Continues(rm) ==
    IsReconciling(rm) =>
      LET req == rm.phase.outstanding IN
      /\ Based(rm)
      /\ req.op = "Timeline" => rm.phase.replace_timeline
      /\ req.op = "Resync" => ~rm.phase.replace_timeline
      /\ req.op # "Members" => First(req) = Reach(rm) + 1

\* What a launched reconciliation leaves.
Begun(e, ep, id, h) ==
    /\ e.room \in Rooms /\ e.told \in Nat
    /\ IsReconciling(e.room) /\ e.room.phase.epoch = ep /\ e.room.phase.read_id = id
    /\ e.issue = <<e.room.phase.outstanding>>
    /\ e.room.phase.outstanding.op # "Members"
    /\ Within(e.room, h) /\ Continues(e.room)

\* Every position named is one of the history, or required.
Named(rm, nm, h) ==
    /\ nm < h \/ nm <= rm.required_frontier
    /\ IsConverged(rm) => nm <= Watermark(rm)
    /\ IsReconciling(rm) /\ rm.phase.outstanding.op = "Members" =>
         nm <= rm.required_frontier \/ nm <= Reach(rm)

\* What a handler leaves of a room rm that was reconciling, or was not.
Outcome(e, rm, nm, ep, id, h) ==
    /\ e.room \in Rooms /\ e.told \in Nat
    /\ Within(e.room, h) /\ Continues(e.room) /\ Named(e.room, nm, h)
    /\ \/ /\ IsReconciling(e.room) /\ e.room.phase.epoch = ep /\ e.room.phase.read_id = id
          /\ e.issue = <<e.room.phase.outstanding>>
       \/ /\ IsReconciling(e.room) /\ IsReconciling(rm)
          /\ e.room.phase.epoch = rm.phase.epoch /\ e.room.phase.read_id = rm.phase.read_id
          /\ \/ e.issue = <<e.room.phase.outstanding>>
             \/ e.issue = <<>> /\ e.room.phase.outstanding = rm.phase.outstanding
       \/ ~IsReconciling(e.room) /\ e.issue = <<>>

\* A room that waits for its read: nothing is issued, and what was named is owed.
Waits(e, rm, nm, om) ==
    /\ e.issue = <<>>
    /\ e.room.required_frontier >= rm.required_frontier
    /\ nm = om \/ nm <= e.room.required_frontier

\* What answers a read is within the history, and the last page of the current one reaches
\* every position named that the frontier does not.
Answered(rd) ==
    /\ rd.reply.kind = "page" =>
         /\ rd.req.op # "Members"
         /\ rd.reply.ids = <<>> \/ First(rd.req) + Len(rd.reply.ids) <= Len(hist)
         /\ Current(rd) /\ ~rd.reply.more =>
              \/ named <= room.required_frontier
              \/ named < First(rd.req) + Len(rd.reply.ids)
    /\ rd.reply.kind = "members" => rd.req.op = "Members"

\* At most two reads are in flight, one of them the current one, which is what the room
\* waits for.
OneIsCurrent ==
    /\ \E a, b \in reads : reads \subseteq {a, b}
    /\ \A rd, sd \in reads : Current(rd) /\ Current(sd) => rd = sd
    /\ \A rd \in reads : Current(rd) => rd.req = room.phase.outstanding
\* So it is when anything is in flight.
ReadsApart == reads # {} => OneIsCurrent

\* The inductive invariant of the reconciler.
RecInv ==
    /\ Types /\ ReadsApart
    /\ IsTracked => Within(room, Len(hist)) /\ Continues(room) /\ Named(room, named, Len(hist))
    /\ ~IsTracked => named = NoPos
    /\ \A rd \in reads : Answered(rd)

-----------------------------------------------------------------------------
(* Folds                                                                   *)

\* A set of naturals has a least member.
LEMMA Least ==
  ASSUME NEW S, S \subseteq Nat, S # {}
  PROVE  \E m \in S : \A k \in S : m <= k
<1> DEFINE R == {ss \in Nat \X Nat : ss[1] < ss[2]}
<1>1. OpToRel(<, Nat) = R
  BY DEF OpToRel
<1>2. IsWellFoundedOn(R, Nat)
  BY <1>1, NatLessThanWellFounded
<1>3. PICK m \in S : \A k \in S : <<k, m>> \notin R
  BY <1>2, WFMin
<1>4. ASSUME NEW k \in S PROVE m <= k
  <2>1. k \in Nat /\ m \in Nat
    OBVIOUS
  <2>2. ~(k < m)
    BY <1>3, <2>1
  <2> QED BY <2>1, <2>2
<1> QED BY <1>4

\* What each step of a fold keeps, the fold keeps.
LEMMA Carried ==
  ASSUME NEW S, NEW n \in Nat, NEW f, f[0] \in S,
         \A i \in 1 .. n : f[i - 1] \in S => f[i] \in S
  PROVE  \A i \in 0 .. n : f[i] \in S
<1> DEFINE B == {i \in 0 .. n : f[i] \notin S}
<1>1. SUFFICES B = {}
  OBVIOUS
<1>2. SUFFICES ASSUME B # {} PROVE FALSE
  OBVIOUS
<1>3. B \subseteq Nat
  OBVIOUS
<1>4. PICK m \in B : \A k \in B : m <= k
  BY <1>2, <1>3, Least
<1>5. m # 0 /\ m \in 1 .. n
  BY <1>4
<1>6. m - 1 \notin B /\ m - 1 \in 0 .. n
  BY <1>4, <1>5
<1> QED BY <1>4, <1>5, <1>6

\* A fold over a sequence is a function.
Accumulations(S, F, b, q) ==
  {g \in [0 .. Len(q) -> S] :
     \A i \in 0 .. Len(q) : g[i] = IF i = 0 THEN b ELSE F[g[i - 1]][q[i]]}

\* There is such a function: it is built from the first element on.
LEMMA Accumulates ==
  ASSUME NEW S, NEW T, NEW F \in [S -> [T -> S]], NEW b \in S, NEW q \in Seq(T)
  PROVE  \E g : g \in Accumulations(S, F, b, q)
<1> SUFFICES \E g \in [0 .. Len(q) -> S] :
      \A i \in 0 .. Len(q) : g[i] = IF i = 0 THEN b ELSE F[g[i - 1]][q[i]]
  BY DEF Accumulations
<1> DEFINE Good(n) == \E g \in [0 .. n -> S] :
                        \A i \in 0 .. n : g[i] = IF i = 0 THEN b ELSE F[g[i - 1]][q[i]]
           B == {n \in 0 .. Len(q) : ~Good(n)}
<1>1. SUFFICES ASSUME B # {} PROVE FALSE
  <2>1. Len(q) \in 0 .. Len(q)
    OBVIOUS
  <2> QED BY <2>1
<1>2. B \subseteq Nat
  OBVIOUS
<1>3. PICK m \in B : \A k \in B : m <= k
  BY <1>1, <1>2, Least
<1>4. m # 0
  <2>1. Good(0)
    <3>1. [i \in 0 .. 0 |-> b] \in [0 .. 0 -> S]
      OBVIOUS
    <3> WITNESS [i \in 0 .. 0 |-> b] \in [0 .. 0 -> S]
    <3> QED OBVIOUS
  <2>2. m \in B
    BY <1>3
  <2> HIDE DEF Good
  <2> QED BY <2>1, <2>2
<1>5. m \in 1 .. Len(q) /\ m - 1 \in 0 .. Len(q) /\ m - 1 \in Nat
  BY <1>3, <1>4
<1>6. Good(m - 1)
  <2>1. m - 1 \notin B
    <3>1. m \in Nat /\ ~(m <= m - 1)
      BY <1>5
    <3> HIDE DEF B
    <3> QED BY <1>3, <3>1
  <2> QED BY <2>1, <1>5
<1>7. PICK g \in [0 .. m - 1 -> S] :
        \A i \in 0 .. m - 1 : g[i] = IF i = 0 THEN b ELSE F[g[i - 1]][q[i]]
  BY <1>6
<1> DEFINE h == [i \in 0 .. m |-> IF i < m THEN g[i] ELSE F[g[m - 1]][q[m]]]
<1>8. q[m] \in T /\ g[m - 1] \in S
  BY <1>5, <1>7
<1>9. h \in [0 .. m -> S]
  BY <1>5, <1>7, <1>8
<1>10. \A i \in 0 .. m : h[i] = IF i = 0 THEN b ELSE F[h[i - 1]][q[i]]
  <2> SUFFICES ASSUME NEW i \in 0 .. m
               PROVE  h[i] = IF i = 0 THEN b ELSE F[h[i - 1]][q[i]]
    OBVIOUS
  <2>1. CASE i = m
    <3>1. h[m] = F[g[m - 1]][q[m]] /\ h[m - 1] = g[m - 1]
      BY <1>5
    <3>2. m # 0
      BY <1>5
    <3> HIDE DEF h
    <3> QED BY <2>1, <3>1, <3>2
  <2>2. CASE i # m
    <3>1. i \in 0 .. m - 1 /\ h[i] = g[i] /\ i \in Nat
      BY <2>2, <1>5
    <3>2. CASE i = 0
      BY <3>1, <3>2, <1>7
    <3>3. CASE i # 0
      <4>1. i - 1 \in 0 .. m /\ h[i - 1] = g[i - 1]
        BY <3>1, <3>3, <1>5, <2>2
      <4> QED BY <3>1, <3>3, <4>1, <1>7
    <3> QED BY <3>2, <3>3
  <2> QED BY <2>1, <2>2
<1>11. Good(m)
  <2> HIDE DEF h
  <2> QED BY <1>9, <1>10
<1> QED BY <1>3, <1>11

\* What a push keeps, a whole queue of them keeps: of a buffer, ...
LEMMA BufferAllIn ==
  ASSUME NEW S, NEW T, NEW b \in S, NEW q \in Seq(T), \A x \in S : \A e \in T : BufferPush(x, e) \in S
  PROVE  BufferAll(b, q) \in S
<1> DEFINE Runs(acc) == acc = [i \in 0 .. Len(q) |-> IF i = 0 THEN b ELSE BufferPush(acc[i - 1], q[i])]
           F == [x \in S |-> [e \in T |-> BufferPush(x, e)]]
           f == CHOOSE acc : Runs(acc)
<1>1. F \in [S -> [T -> S]]
  OBVIOUS
<1>2. PICK g : g \in Accumulations(S, F, b, q)
  <2> HIDE DEF F
  <2> QED BY <1>1, Accumulates
<1>3. \A i \in 0 .. Len(q) : g[i] = IF i = 0 THEN b ELSE BufferPush(g[i - 1], q[i])
  <2> SUFFICES ASSUME NEW i \in 0 .. Len(q), i # 0
               PROVE  F[g[i - 1]][q[i]] = BufferPush(g[i - 1], q[i])
    BY <1>2 DEF Accumulations
  <2> HIDE DEF F, f
  <2>1. i - 1 \in 0 .. Len(q) /\ i \in 1 .. Len(q)
    OBVIOUS
  <2>2. g[i - 1] \in S /\ q[i] \in T
    BY <1>2, <2>1 DEF Accumulations
  <2> QED BY <2>2 DEF F
<1>4. Runs(g)
  BY <1>2, <1>3 DEF Accumulations
<1>5. Runs(f)
  <2> HIDE DEF Runs
  <2> QED BY <1>4
<1> HIDE DEF f, F
<1>6. f[0] \in S /\ \A i \in 1 .. Len(q) : f[i - 1] \in S => f[i] \in S
  <2>1. f[0] = b
    BY <1>5
  <2>2. ASSUME NEW i \in 1 .. Len(q), f[i - 1] \in S PROVE f[i] \in S
    <3>1. f[i] = BufferPush(f[i - 1], q[i])
      <4>1. i \in 0 .. Len(q) /\ i # 0
        OBVIOUS
      <4> QED BY <1>5, <4>1
    <3>2. q[i] \in T
      OBVIOUS
    <3> QED BY <2>2, <3>1, <3>2
  <2> QED BY <2>1, <2>2
<1>7. f[Len(q)] \in S
  <2>1. Len(q) \in Nat /\ Len(q) \in 0 .. Len(q)
    OBVIOUS
  <2> QED BY <1>6, <2>1, Carried
<1> QED BY <1>7 DEF BufferAll, FoldOver, f

\* ... of the roster, ...
LEMMA FoldOverIn ==
  ASSUME NEW S, NEW T, NEW b \in S, NEW q \in Seq(T), \A x \in S : \A e \in T : Fold(x, e) \in S
  PROVE  FoldOver(Fold, b, q) \in S
<1> DEFINE Runs(acc) == acc = [i \in 0 .. Len(q) |-> IF i = 0 THEN b ELSE Fold(acc[i - 1], q[i])]
           F == [x \in S |-> [e \in T |-> Fold(x, e)]]
           f == CHOOSE acc : Runs(acc)
<1>1. F \in [S -> [T -> S]]
  OBVIOUS
<1>2. PICK g : g \in Accumulations(S, F, b, q)
  <2> HIDE DEF F
  <2> QED BY <1>1, Accumulates
<1>3. \A i \in 0 .. Len(q) : g[i] = IF i = 0 THEN b ELSE Fold(g[i - 1], q[i])
  <2> SUFFICES ASSUME NEW i \in 0 .. Len(q), i # 0
               PROVE  F[g[i - 1]][q[i]] = Fold(g[i - 1], q[i])
    BY <1>2 DEF Accumulations
  <2> HIDE DEF F, f
  <2>1. i - 1 \in 0 .. Len(q) /\ i \in 1 .. Len(q)
    OBVIOUS
  <2>2. g[i - 1] \in S /\ q[i] \in T
    BY <1>2, <2>1 DEF Accumulations
  <2> QED BY <2>2 DEF F
<1>4. Runs(g)
  BY <1>2, <1>3 DEF Accumulations
<1>5. Runs(f)
  <2> HIDE DEF Runs
  <2> QED BY <1>4
<1> HIDE DEF f, F
<1>6. f[0] \in S /\ \A i \in 1 .. Len(q) : f[i - 1] \in S => f[i] \in S
  <2>1. f[0] = b
    BY <1>5
  <2>2. ASSUME NEW i \in 1 .. Len(q), f[i - 1] \in S PROVE f[i] \in S
    <3>1. f[i] = Fold(f[i - 1], q[i])
      <4>1. i \in 0 .. Len(q) /\ i # 0
        OBVIOUS
      <4> QED BY <1>5, <4>1
    <3>2. q[i] \in T
      OBVIOUS
    <3> QED BY <2>2, <3>1, <3>2
  <2> QED BY <2>1, <2>2
<1>7. f[Len(q)] \in S
  <2>1. Len(q) \in Nat /\ Len(q) \in 0 .. Len(q)
    OBVIOUS
  <2> QED BY <1>6, <2>1, Carried
<1> QED BY <1>7 DEF FoldOver, f

\* ... of a queue that is sorted, ...
LEMMA ByPositionIn ==
  ASSUME NEW S, NEW T, NEW b \in S, b = <<>>, NEW q \in Seq(T), \A x \in S : \A e \in T : Place(x, e) \in S
  PROVE  ByPosition(q) \in S
<1> DEFINE Runs(acc) == acc = [i \in 0 .. Len(q) |-> IF i = 0 THEN b ELSE Place(acc[i - 1], q[i])]
           F == [x \in S |-> [e \in T |-> Place(x, e)]]
           f == CHOOSE acc : Runs(acc)
<1>1. F \in [S -> [T -> S]]
  OBVIOUS
<1>2. PICK g : g \in Accumulations(S, F, b, q)
  <2> HIDE DEF F
  <2> QED BY <1>1, Accumulates
<1>3. \A i \in 0 .. Len(q) : g[i] = IF i = 0 THEN b ELSE Place(g[i - 1], q[i])
  <2> SUFFICES ASSUME NEW i \in 0 .. Len(q), i # 0
               PROVE  F[g[i - 1]][q[i]] = Place(g[i - 1], q[i])
    BY <1>2 DEF Accumulations
  <2> HIDE DEF F, f
  <2>1. i - 1 \in 0 .. Len(q) /\ i \in 1 .. Len(q)
    OBVIOUS
  <2>2. g[i - 1] \in S /\ q[i] \in T
    BY <1>2, <2>1 DEF Accumulations
  <2> QED BY <2>2 DEF F
<1>4. Runs(g)
  BY <1>2, <1>3 DEF Accumulations
<1>5. Runs(f)
  <2> HIDE DEF Runs
  <2> QED BY <1>4
<1> HIDE DEF f, F
<1>6. f[0] \in S /\ \A i \in 1 .. Len(q) : f[i - 1] \in S => f[i] \in S
  <2>1. f[0] = b
    BY <1>5
  <2>2. ASSUME NEW i \in 1 .. Len(q), f[i - 1] \in S PROVE f[i] \in S
    <3>1. f[i] = Place(f[i - 1], q[i])
      <4>1. i \in 0 .. Len(q) /\ i # 0
        OBVIOUS
      <4> QED BY <1>5, <4>1
    <3>2. q[i] \in T
      OBVIOUS
    <3> QED BY <2>2, <3>1, <3>2
  <2> QED BY <2>1, <2>2
<1>7. f[Len(q)] \in S
  <2>1. Len(q) \in Nat /\ Len(q) \in 0 .. Len(q)
    OBVIOUS
  <2> QED BY <1>6, <2>1, Carried
<1> QED BY <1>7 DEF ByPosition, FoldOver, f

\* ... and of a room they are applied to.
LEMMA ApplyOrderedIn ==
  ASSUME NEW S, NEW T, NEW b \in S, NEW rm, b = [room |-> rm, stop |-> FALSE], NEW q \in Seq(T), \A x \in S : \A e \in T : ApplyOne(x, e) \in S
  PROVE  ApplyOrdered(rm, q) \in S
<1> DEFINE Runs(acc) == acc = [i \in 0 .. Len(q) |-> IF i = 0 THEN b ELSE ApplyOne(acc[i - 1], q[i])]
           F == [x \in S |-> [e \in T |-> ApplyOne(x, e)]]
           f == CHOOSE acc : Runs(acc)
<1>1. F \in [S -> [T -> S]]
  OBVIOUS
<1>2. PICK g : g \in Accumulations(S, F, b, q)
  <2> HIDE DEF F
  <2> QED BY <1>1, Accumulates
<1>3. \A i \in 0 .. Len(q) : g[i] = IF i = 0 THEN b ELSE ApplyOne(g[i - 1], q[i])
  <2> SUFFICES ASSUME NEW i \in 0 .. Len(q), i # 0
               PROVE  F[g[i - 1]][q[i]] = ApplyOne(g[i - 1], q[i])
    BY <1>2 DEF Accumulations
  <2> HIDE DEF F, f
  <2>1. i - 1 \in 0 .. Len(q) /\ i \in 1 .. Len(q)
    OBVIOUS
  <2>2. g \in [0 .. Len(q) -> S]
    BY <1>2 DEF Accumulations
  <2>3. q[i] \in T
    BY <2>1
  <2>4. g[i - 1] \in S
    BY <2>1, <2>2
  <2> QED BY <2>3, <2>4 DEF F
<1>4. Runs(g)
  BY <1>2, <1>3 DEF Accumulations
<1>5. Runs(f)
  <2> HIDE DEF Runs
  <2> QED BY <1>4
<1> HIDE DEF f, F
<1>6. f[0] \in S /\ \A i \in 1 .. Len(q) : f[i - 1] \in S => f[i] \in S
  <2>1. f[0] = b
    BY <1>5
  <2>2. ASSUME NEW i \in 1 .. Len(q), f[i - 1] \in S PROVE f[i] \in S
    <3>1. f[i] = ApplyOne(f[i - 1], q[i])
      <4>1. i \in 0 .. Len(q) /\ i # 0
        OBVIOUS
      <4> QED BY <1>5, <4>1
    <3>2. q[i] \in T
      OBVIOUS
    <3> QED BY <2>2, <3>1, <3>2
  <2> QED BY <2>1, <2>2
<1>7. f[Len(q)] \in S
  <2>1. Len(q) \in Nat /\ Len(q) \in 0 .. Len(q)
    OBVIOUS
  <2> QED BY <1>6, <2>1, Carried
<1> QED BY <1>7 DEF ApplyOrdered, FoldOver, f

\* Causes: what merging two of them keeps of the loss they carry.
LEMMA Causes ==
  /\ NoReason \in Reasons /\ Bootstrap \in Reasons /\ Reconnect \in Reasons
  /\ ProtocolGap \in Reasons
  /\ \A n \in Nat : Overflow(n) \in Reasons /\ OverflowDropped(Overflow(n)) = n
  /\ \A p \in Cursors : GapTo(p) \in Reasons /\ OverflowDropped(GapTo(p)) = 0
  /\ \A p \in Cursors : ByDaemon(p) \in Reasons /\ OverflowDropped(ByDaemon(p)) = 0
  /\ OverflowDropped(NoReason) = 0 /\ OverflowDropped(ProtocolGap) = 0
  /\ OverflowDropped(Bootstrap) = 0 /\ OverflowDropped(Reconnect) = 0
BY DEF NoReason, Bootstrap, Reconnect, ProtocolGap, GapTo, ByDaemon, Overflow, Reasons, NoPos, OverflowDropped, Cursors

\* What the causes carry.
LEMMA ReasonFields ==
  ASSUME NEW r \in Reasons
  PROVE  /\ OverflowDropped(r) \in Nat
         /\ FromPosFor(r) \in Cursors
         /\ r.kind = "Gap" => r.to \in Cursors
BY DEF Reasons, OverflowDropped, FromPosFor, NoPos, Cursors

\* A merged cause is a cause.
LEMMA CoalesceIn ==
  ASSUME NEW r \in Reasons, NEW s \in Reasons
  PROVE  Coalesce(r, s) \in Reasons
<1>1. CASE r.kind = s.kind /\ r.kind = "ResyncRequiredByDaemon"
  <2>1. r.from \in Cursors /\ s.from \in Cursors
    BY <1>1 DEF Reasons
  <2>2. Lower(r.from, s.from) \in Cursors
    BY <2>1 DEF Lower
  <2> QED BY <1>1, <2>2 DEF Coalesce, ByDaemon, Reasons
<1>2. CASE r.kind = s.kind /\ r.kind = "LocalOverflow"
  <2>1. r.dropped \in Nat /\ s.dropped \in Nat
    BY <1>2 DEF Reasons
  <2>2. r.dropped + s.dropped \in Nat
    BY <2>1
  <2> QED BY <1>2, <2>2 DEF Coalesce, Overflow, Reasons
<1>3. CASE ~(r.kind = s.kind /\ r.kind = "ResyncRequiredByDaemon") /\
           ~(r.kind = s.kind /\ r.kind = "LocalOverflow")
  BY <1>3 DEF Coalesce
<1> QED BY <1>1, <1>2, <1>3

\* What a merge outranks and what it keeps make up the loss of both causes.
LEMMA CoalesceLoss ==
  ASSUME NEW r \in Reasons, NEW s \in Reasons
  PROVE  /\ Outranked(r, s) \in Nat
         /\ OverflowDropped(Coalesce(r, s)) \in Nat
         /\ Outranked(r, s) + OverflowDropped(Coalesce(r, s)) = OverflowDropped(r) + OverflowDropped(s)
<1>1. OverflowDropped(r) \in Nat /\ OverflowDropped(s) \in Nat
  BY ReasonFields
<1>2. OverflowDropped(Coalesce(r, s)) \in Nat
  BY CoalesceIn, ReasonFields
<1>3. OverflowDropped(Coalesce(r, s)) <= OverflowDropped(r) + OverflowDropped(s)
  <2>1. CASE r.kind = s.kind /\ r.kind = "ResyncRequiredByDaemon"
    BY <2>1, <1>1 DEF Coalesce, OverflowDropped, ByDaemon
  <2>2. CASE r.kind = s.kind /\ r.kind = "LocalOverflow"
    <3>1. r.dropped \in Nat /\ s.dropped \in Nat
      BY <2>2 DEF Reasons
    <3> QED BY <2>2, <3>1 DEF Coalesce, OverflowDropped, Overflow
  <2>3. CASE ~(r.kind = s.kind /\ r.kind = "ResyncRequiredByDaemon") /\
             ~(r.kind = s.kind /\ r.kind = "LocalOverflow")
    <3>1. Coalesce(r, s) = r \/ Coalesce(r, s) = s
      BY <2>3 DEF Coalesce
    <3> QED BY <3>1, <1>1
  <2> QED BY <2>1, <2>2, <2>3
<1> QED BY <1>1, <1>2, <1>3 DEF Outranked

\* Merging a loss into a cause keeps what the cause carried.
LEMMA CoalesceOverflow ==
  ASSUME NEW r \in Reasons, NEW n \in Nat
  PROVE  OverflowDropped(Coalesce(r, Overflow(n))) >= OverflowDropped(r)
<1>1. CASE r.kind = "LocalOverflow"
  <2>1. r.dropped \in Nat
    BY <1>1 DEF Reasons
  <2> QED BY <1>1, <2>1 DEF Coalesce, Overflow, OverflowDropped
<1>2. CASE r.kind # "LocalOverflow"
  <2>1. OverflowDropped(r) = 0
    BY <1>2 DEF OverflowDropped
  <2>2. OverflowDropped(Coalesce(r, Overflow(n))) \in Nat
    BY CoalesceIn, Causes, ReasonFields
  <2> QED BY <2>1, <2>2
<1> QED BY <1>1, <1>2

-----------------------------------------------------------------------------
\* Buffers.

\* A push is buffered or counted.
LEMMA BufferPushIn ==
  ASSUME NEW b \in Buffers, NEW e \in Pushes, NEW h \in Int, Below(b.q, h), e.pos < h
  PROVE  /\ BufferPush(b, e) \in Buffers
         /\ Below(BufferPush(b, e).q, h)
         /\ BufferPush(b, e).dropped >= b.dropped
<1>1. b.q \in Seq(Pushes) /\ b.dropped \in Nat
  BY DEF Buffers
<1>2. CASE b.dropped > 0 \/ Len(b.q) >= BufferDepth
  <2>1. BufferPush(b, e) = [b EXCEPT !.dropped = b.dropped + 1]
    BY <1>2 DEF BufferPush
  <2> QED BY <1>1, <2>1 DEF Buffers
<1>3. CASE ~(b.dropped > 0 \/ Len(b.q) >= BufferDepth)
  <2>1. BufferPush(b, e) = [b EXCEPT !.q = Append(b.q, e)]
    BY <1>3 DEF BufferPush
  <2>2. Append(b.q, e) \in Seq(Pushes)
    BY <1>1
  <2>3. Below(Append(b.q, e), h)
    <3> SUFFICES ASSUME NEW i \in DOMAIN Append(b.q, e), Append(b.q, e)[i].type = "event"
                 PROVE  Append(b.q, e)[i].pos < h
      BY DEF Below
    <3>1. i \in 1 .. Len(b.q) + 1
      BY <1>1
    <3>2. CASE i = Len(b.q) + 1
      BY <3>2, <1>1
    <3>3. CASE i # Len(b.q) + 1
      <4>1. i \in DOMAIN b.q /\ Append(b.q, e)[i] = b.q[i]
        BY <3>1, <3>3, <1>1
      <4> QED BY <4>1 DEF Below
    <3> QED BY <3>2, <3>3
  <2>4. [b EXCEPT !.q = Append(b.q, e)].q = Append(b.q, e)
    BY DEF Buffers
  <2>5. [b EXCEPT !.q = Append(b.q, e)].dropped = b.dropped
    BY DEF Buffers
  <2>6. [b EXCEPT !.q = Append(b.q, e)] \in Buffers
    BY <2>2 DEF Buffers
  <2> QED BY <1>1, <2>1, <2>3, <2>4, <2>5, <2>6
<1> QED BY <1>2, <1>3

\* The empty buffer is one.
LEMMA EmptyBufferIn ==
  /\ EmptyBuffer \in Buffers /\ EmptyBuffer.q = <<>> /\ EmptyBuffer.dropped = 0
  /\ \A h : Below(<<>>, h)
BY DEF EmptyBuffer, Buffers, Below

\* A buffer that takes over the pushes of another one.
LEMMA BufferAllKeeps ==
  ASSUME NEW b \in Buffers, NEW q \in Seq(Pushes), NEW h \in Int, Below(b.q, h), Below(q, h)
  PROVE  /\ BufferAll(b, q) \in Buffers
         /\ Below(BufferAll(b, q).q, h)
         /\ BufferAll(b, q).dropped >= b.dropped
<1> DEFINE S == {x \in Buffers : Below(x.q, h) /\ x.dropped >= b.dropped}
           T == {e \in Pushes : e.pos < h}
<1>1. b \in S
  BY DEF Buffers
<1>2. q \in Seq(T)
  <2>1. ASSUME NEW i \in 1 .. Len(q) PROVE q[i] \in T
    <3>1. q[i] \in Pushes
      OBVIOUS
    <3>2. q[i].type = "event" /\ i \in DOMAIN q
      BY <3>1 DEF Pushes
    <3> QED BY <3>1, <3>2 DEF Below
  <2> HIDE DEF T
  <2>2. Len(q) \in Nat /\ q = [i \in 1 .. Len(q) |-> q[i]]
    OBVIOUS
  <2> QED BY <2>1, <2>2, IsASeq
<1>3. \A x \in S : \A e \in T : BufferPush(x, e) \in S
  <2> SUFFICES ASSUME NEW x \in S, NEW e \in T PROVE BufferPush(x, e) \in S
    OBVIOUS
  <2>1. x \in Buffers /\ Below(x.q, h) /\ x.dropped >= b.dropped /\ x.dropped \in Nat /\ b.dropped \in Nat
    BY DEF Buffers
  <2>2. e \in Pushes /\ e.pos < h
    OBVIOUS
  <2>3. BufferPush(x, e) \in Buffers /\ Below(BufferPush(x, e).q, h) /\ BufferPush(x, e).dropped >= x.dropped
    BY <2>1, <2>2, BufferPushIn
  <2>4. BufferPush(x, e).dropped \in Nat
    BY <2>3 DEF Buffers
  <2> QED BY <2>1, <2>3, <2>4
<1>4. BufferAll(b, q) \in S
  <2> HIDE DEF S, T
  <2> QED BY <1>1, <1>2, <1>3, BufferAllIn
<1> QED BY <1>4

\* The fields of a room.
LEMMA RoomFields ==
  ASSUME NEW rm \in Rooms
  PROVE  /\ rm.known \in Seq(Nat) /\ rm.lo \in Int /\ rm.bootstrap_anchor \in Nat
         /\ rm.required_frontier \in Cursors /\ rm.pending_gap_from \in Cursors /\ rm.required_frontier \in Int
         /\ rm.pending_local_dropped \in Nat /\ rm.pending_loss_notice \in Nat
         /\ rm.parked_buffer \in Buffers /\ rm.parked_buffer.dropped \in Nat
         /\ rm.parked_buffer.q \in Seq(Pushes)
         /\ rm.phase \in Phases /\ rm.restart_chain \in Nat
         /\ rm.pending_bootstrap \in BOOLEAN /\ rm.presence_refresh_pending \in BOOLEAN
         /\ Watermark(rm) \in Int /\ Watermark(rm) >= -1
BY DEF Rooms, Buffers, Watermark, Cursors, NoPos

\* What the fields of a scan are.
LEMMA ScanFields ==
  ASSUME NEW rm \in Rooms, IsReconciling(rm)
  PROVE  /\ rm.phase \in Scans
         /\ rm.phase.reason \in Reasons /\ rm.phase.rerun \in Reasons
         /\ rm.phase.buffer \in Buffers /\ rm.phase.buffer.dropped \in Nat
         /\ rm.phase.buffer.q \in Seq(Pushes)
         /\ rm.phase.scan \in Seq(Nat) /\ rm.phase.plan \in Seq({"Members"})
         /\ rm.phase.outstanding \in Requests
         /\ rm.phase.baseline_start \in Int
         /\ rm.phase.replace_timeline \in BOOLEAN /\ rm.phase.presence \in BOOLEAN
<1>1. rm.phase \in Phases
  BY RoomFields
<1>2. rm.phase \in Scans
  BY <1>1 DEF Phases, IsReconciling, Converged
<1> QED BY <1>2 DEF Scans, Buffers

\* Banked changes the notice alone.
LEMMA Banking ==
  ASSUME NEW rm \in Rooms, NEW r \in Reasons, NEW s \in Reasons
  PROVE  /\ Banked(rm, r, s) \in Rooms
         /\ Banked(rm, r, s) = [rm EXCEPT !.pending_loss_notice = rm.pending_loss_notice + Outranked(r, s)]
         /\ Banked(rm, r, s).pending_loss_notice = rm.pending_loss_notice + Outranked(r, s)
<1>1. rm.pending_loss_notice + Outranked(r, s) \in Nat
  BY CoalesceLoss, RoomFields, SMTT(30)
<1> QED BY <1>1 DEF Banked, Rooms

\* The evidence a cause carries raises the frontier, and changes nothing else that is held.
LEMMA Noting ==
  ASSUME NEW rm \in Rooms, NEW reason \in Reasons, NEW from \in Cursors
  PROVE  LET r2 == NoteTriggerEvidence(rm, reason, from)
         IN  /\ r2 \in Rooms /\ Alike(r2, rm)
             /\ r2.required_frontier >= rm.required_frontier
             /\ r2.required_frontier >= from
<1>1. ASSUME NEW x \in Rooms, NEW p \in Cursors
      PROVE  /\ NoteFrontier(x, p) \in Rooms /\ Alike(NoteFrontier(x, p), x)
             /\ NoteFrontier(x, p).required_frontier >= x.required_frontier
             /\ NoteFrontier(x, p).required_frontier >= p
  <2>1. x.required_frontier \in Int /\ p \in Int
    BY RoomFields DEF Cursors, NoPos
  <2>2. CASE p > x.required_frontier
    <3>1. NoteFrontier(x, p) = [x EXCEPT !.required_frontier = p, !.frontier_retry_used = FALSE]
      BY <2>2 DEF NoteFrontier
    <3>2. NoteFrontier(x, p) \in Rooms /\ NoteFrontier(x, p).required_frontier = p
      BY <3>1 DEF Rooms
    <3>3. Alike(NoteFrontier(x, p), x)
      BY <3>1 DEF Rooms, Alike
    <3> QED BY <2>1, <2>2, <3>2, <3>3
  <2>3. CASE ~(p > x.required_frontier)
    BY <2>1, <2>3 DEF NoteFrontier, Alike
  <2> QED BY <2>2, <2>3
<1>2. (IF reason.kind = "Gap" THEN reason.to ELSE FromPosFor(reason)) \in Cursors
  BY ReasonFields
<1> DEFINE x == NoteFrontier(rm, from)
           y == NoteFrontier(x, IF reason.kind = "Gap" THEN reason.to ELSE FromPosFor(reason))
<1>3. x \in Rooms /\ Alike(x, rm) /\ x.required_frontier >= rm.required_frontier /\ x.required_frontier >= from
  BY <1>1
<1>4. y \in Rooms /\ Alike(y, x) /\ y.required_frontier >= x.required_frontier
  BY <1>1, <1>2, <1>3
<1>5. y.required_frontier \in Int /\ x.required_frontier \in Int /\ rm.required_frontier \in Int /\ from \in Int
  BY <1>3, <1>4, RoomFields DEF Cursors, NoPos
<1> HIDE DEF x
<1>6. Alike(y, rm)
  BY <1>3, <1>4 DEF Alike
<1> QED BY <1>3, <1>4, <1>5, <1>6 DEF NoteTriggerEvidence, x

\* Taking the pending cause leaves the rest.
LEMMA Taking ==
  ASSUME NEW rm \in Rooms
  PROVE  LET r2 == TakePendingCause(rm)
         IN  /\ r2 \in Rooms
             /\ r2.known = rm.known /\ r2.required_frontier = rm.required_frontier
             /\ r2.parked_buffer = rm.parked_buffer
             /\ r2.pending_local_dropped = rm.pending_local_dropped
             /\ r2.pending_loss_notice = rm.pending_loss_notice
             /\ IsReconciling(r2) <=> IsReconciling(rm)
             /\ IsReconciling(rm) => r2.phase.buffer = rm.phase.buffer
<1>1. CASE IsReconciling(rm)
  <2>1. rm.phase \in Scans
    BY <1>1, ScanFields
  <2>2. [rm.phase EXCEPT !.rerun = NoReason] \in Scans
    BY <2>1, Causes DEF Scans
  <2>3. TakePendingCause(rm) = [rm EXCEPT !.phase = [rm.phase EXCEPT !.rerun = NoReason]]
    BY <1>1 DEF TakePendingCause
  <2>4. TakePendingCause(rm).phase = [rm.phase EXCEPT !.rerun = NoReason]
    BY <2>3 DEF Rooms
  <2>5. [rm.phase EXCEPT !.rerun = NoReason].buffer = rm.phase.buffer /\
        [rm.phase EXCEPT !.rerun = NoReason].tag = rm.phase.tag
    BY <2>1 DEF Scans
  <2>6. [rm.phase EXCEPT !.rerun = NoReason] \in Phases
    BY <2>2 DEF Phases
  <2>7. TakePendingCause(rm) \in Rooms
    BY <2>3, <2>6 DEF Rooms
  <2> HIDE DEF IsReconciling
  <2>8. /\ TakePendingCause(rm).known = rm.known
        /\ TakePendingCause(rm).required_frontier = rm.required_frontier
        /\ TakePendingCause(rm).parked_buffer = rm.parked_buffer
        /\ TakePendingCause(rm).pending_local_dropped = rm.pending_local_dropped
        /\ TakePendingCause(rm).pending_loss_notice = rm.pending_loss_notice
    BY <2>3 DEF Rooms
  <2> QED BY <1>1, <2>4, <2>5, <2>7, <2>8 DEF IsReconciling
<1>2. CASE ~IsReconciling(rm)
  BY <1>2 DEF TakePendingCause
<1> QED BY <1>1, <1>2

\* The pushes of a scan that is replaced are parked, and the loss with them.
LEMMA Stashing ==
  ASSUME NEW rm \in Rooms, NEW h \in Int, Below(rm.parked_buffer.q, h),
         IsReconciling(rm) => Below(rm.phase.buffer.q, h)
  PROVE  LET r2 == StashReconcilingPushes(rm)
         IN  /\ r2 \in Rooms
             /\ r2.known = rm.known /\ r2.required_frontier = rm.required_frontier
             /\ r2.pending_loss_notice = rm.pending_loss_notice
             /\ Below(r2.parked_buffer.q, h)
             /\ IsReconciling(r2) <=> IsReconciling(rm)
             /\ IsReconciling(rm) =>
                  /\ Bag(r2) >= Bag(rm) + rm.phase.buffer.dropped
                  /\ r2.phase = [rm.phase EXCEPT !.buffer = EmptyBuffer]
             /\ ~IsReconciling(rm) => r2 = rm
<1>1. CASE ~IsReconciling(rm)
  BY <1>1 DEF StashReconcilingPushes
<1>2. CASE IsReconciling(rm)
  <2> DEFINE rec == rm.phase
             loss == rec.buffer.dropped
             parked == BufferAll(rm.parked_buffer, rec.buffer.q)
             r2 == StashReconcilingPushes(rm)
  <2>1. rec \in Scans /\ rec.buffer \in Buffers /\ loss \in Nat /\ rec.presence \in BOOLEAN
        /\ rec.buffer.q \in Seq(Pushes)
    BY <1>2, ScanFields
  <2>2. /\ rm.parked_buffer \in Buffers /\ rm.parked_buffer.dropped \in Nat
        /\ rm.pending_local_dropped \in Nat /\ rm.pending_loss_notice \in Nat
        /\ rm.presence_refresh_pending \in BOOLEAN
    BY RoomFields
  <2>3. parked \in Buffers /\ Below(parked.q, h) /\ parked.dropped >= rm.parked_buffer.dropped
    BY <1>2, <2>1, <2>2, BufferAllKeeps
  <2>4. parked.dropped \in Nat
    BY <2>3 DEF Buffers
  <2> HIDE DEF parked
  <2>5. [rec EXCEPT !.buffer = EmptyBuffer] \in Phases
    BY <2>1, EmptyBufferIn DEF Scans, Phases
  <2>6. r2 = [rm EXCEPT !.phase = [rec EXCEPT !.buffer = EmptyBuffer],
                        !.parked_buffer = parked,
                        !.pending_local_dropped = rm.pending_local_dropped + loss,
                        !.presence_refresh_pending =
                            rm.presence_refresh_pending \/ rec.presence \/ loss > 0 \/ parked.dropped > 0]
    BY <1>2 DEF StashReconcilingPushes, parked
  <2>7. rm.pending_local_dropped + loss \in Nat
        /\ (rm.presence_refresh_pending \/ rec.presence \/ loss > 0 \/ parked.dropped > 0) \in BOOLEAN
    BY <2>1, <2>2
  <2>8. r2 \in Rooms
    BY <2>3, <2>5, <2>6, <2>7 DEF Rooms
  <2>9. /\ r2.known = rm.known /\ r2.required_frontier = rm.required_frontier
        /\ r2.pending_loss_notice = rm.pending_loss_notice
        /\ r2.parked_buffer = parked /\ r2.phase = [rec EXCEPT !.buffer = EmptyBuffer]
        /\ r2.pending_local_dropped = rm.pending_local_dropped + loss
    BY <2>6 DEF Rooms
  <2>10. [rec EXCEPT !.buffer = EmptyBuffer].tag = rec.tag
    BY <2>1 DEF Scans
  <2> HIDE DEF r2
  <2>11. Bag(r2) >= Bag(rm) + loss
    BY <2>1, <2>2, <2>3, <2>4, <2>9 DEF Bag
  <2> QED BY <1>2, <2>3, <2>8, <2>9, <2>10, <2>11 DEF r2, IsReconciling
<1> QED BY <1>1, <1>2

\* Discarding back to a position shortens the history alone.
LEMMA Truncating ==
  ASSUME NEW rm \in Rooms, NEW p \in Cursors
  PROVE  LET r2 == TruncateTo(rm, p)
         IN  /\ r2 \in Rooms
             /\ Len(r2.known) <= Len(rm.known)
             /\ r2.phase = rm.phase /\ r2.parked_buffer = rm.parked_buffer
             /\ r2.pending_local_dropped = rm.pending_local_dropped
             /\ r2.pending_loss_notice = rm.pending_loss_notice
             /\ r2.required_frontier = rm.required_frontier
<1>1. CASE p >= Watermark(rm)
  BY <1>1, RoomFields DEF TruncateTo
<1>2. CASE ~(p >= Watermark(rm))
  <2>1. p \in Int /\ p >= -1 /\ rm.known \in Seq(Nat) /\ p < Len(rm.known) - 1 /\ Len(rm.known) \in Nat /\ rm.lo \in Int
    BY <1>2, RoomFields DEF Cursors, NoPos, Watermark
  <2>2. SubSeq(rm.known, 1, p + 1) \in Seq(Nat) /\ Len(SubSeq(rm.known, 1, p + 1)) = p + 1
    BY <2>1, SubSeqProperties
  <2>3. TruncateTo(rm, p) = [rm EXCEPT !.known = SubSeq(rm.known, 1, p + 1),
                                       !.lo = IF rm.lo > p + 1 THEN p + 1 ELSE rm.lo,
                                       !.presence_refresh_pending = TRUE]
    BY <1>2 DEF TruncateTo
  <2>4. (IF rm.lo > p + 1 THEN p + 1 ELSE rm.lo) \in Int
    BY <2>1
  <2>5. TruncateTo(rm, p) \in Rooms
    BY <2>2, <2>3, <2>4 DEF Rooms
  <2>6. TruncateTo(rm, p).known = SubSeq(rm.known, 1, p + 1)
    BY <2>3 DEF Rooms
  <2>7. /\ TruncateTo(rm, p).phase = rm.phase /\ TruncateTo(rm, p).parked_buffer = rm.parked_buffer
        /\ TruncateTo(rm, p).pending_local_dropped = rm.pending_local_dropped
        /\ TruncateTo(rm, p).pending_loss_notice = rm.pending_loss_notice
        /\ TruncateTo(rm, p).required_frontier = rm.required_frontier
    BY <2>3 DEF Rooms
  <2> QED BY <2>1, <2>2, <2>5, <2>6, <2>7
<1> QED BY <1>1, <1>2

\* The lower of two cursors is a cursor.
LEMMA Lowest ==
  ASSUME NEW p \in Cursors, NEW q \in Cursors
  PROVE  Lower(p, q) \in Cursors
BY DEF Lower

\* What the record of an effect holds.
LEMMA Effects ==
  ASSUME NEW x, NEW i, NEW n
  PROVE  /\ [Settled(x) EXCEPT !.issue = i, !.told = n].room = x
         /\ [Settled(x) EXCEPT !.issue = i, !.told = n].issue = i
         /\ [Settled(x) EXCEPT !.issue = i, !.told = n].told = n
         /\ [Settled(x) EXCEPT !.issue = i].room = x
         /\ [Settled(x) EXCEPT !.issue = i].issue = i
         /\ [Settled(x) EXCEPT !.issue = i].told = 0
         /\ [Settled(x) EXCEPT !.told = n].room = x
         /\ [Settled(x) EXCEPT !.told = n].issue = <<>>
         /\ [Settled(x) EXCEPT !.told = n].told = n
         /\ Settled(x).room = x /\ Settled(x).issue = <<>> /\ Settled(x).told = 0
BY DEF Settled

\* Reading begins a reconciliation of the room as it is.
LEMMA ReadingBegins ==
  ASSUME NEW rm \in Rooms, NEW reason \in Reasons, NEW from \in Cursors, NEW loss \in Nat,
         NEW ep \in Nat, NEW id \in 0 .. 2, NEW h \in Nat \ {0},
         Len(rm.known) <= h, Below(rm.parked_buffer.q, h)
  PROVE  LET e == Reading(rm, reason, from, loss, ep, id)
         IN  /\ Begun(e, ep, id, h)
             /\ e.room.required_frontier = rm.required_frontier
             /\ Held(e.room) + e.told >= rm.pending_loss_notice + loss + OverflowDropped(reason)
<1> DEFINE e == Reading(rm, reason, from, loss, ep, id)
           replace == \/ Watermark(rm) = NoPos
                      \/ reason.kind = "Bootstrap" /\ from = NoPos
                      \/ rm.pending_bootstrap
           presence == \/ ImplicatesPresence(reason)
                       \/ rm.presence_refresh_pending
                       \/ loss > 0
           first == IF replace THEN [op |-> "Timeline", from |-> 0]
                               ELSE [op |-> "Resync", from |-> Watermark(rm)]
           rec == [tag |-> "Reconciling", epoch |-> ep, reason |-> reason,
                   read_id |-> id, outstanding |-> first,
                   plan |-> IF replace \/ presence THEN <<"Members">> ELSE <<>>,
                   scan |-> <<>>,
                   baseline_start |-> IF replace THEN 0 ELSE Watermark(rm),
                   replace_timeline |-> replace, presence |-> presence,
                   buffer |-> BufferAll(EmptyBuffer, rm.parked_buffer.q),
                   rerun |-> IF loss > 0 THEN Overflow(loss) ELSE NoReason,
                   members |-> <<>>]
           r2 == [rm EXCEPT !.pending_local_dropped = 0,
                            !.parked_buffer = EmptyBuffer,
                            !.pending_bootstrap = rm.pending_bootstrap /\ ~replace,
                            !.presence_refresh_pending = FALSE,
                            !.phase = rec]
<1>1. /\ Watermark(rm) \in Int /\ Watermark(rm) >= -1 /\ rm.known \in Seq(Nat)
      /\ rm.parked_buffer \in Buffers /\ rm.parked_buffer.q \in Seq(Pushes)
      /\ rm.pending_bootstrap \in BOOLEAN /\ rm.presence_refresh_pending \in BOOLEAN
      /\ rm.pending_loss_notice \in Nat
  BY RoomFields
<1>2. /\ BufferAll(EmptyBuffer, rm.parked_buffer.q) \in Buffers
      /\ Below(BufferAll(EmptyBuffer, rm.parked_buffer.q).q, h)
  BY <1>1, EmptyBufferIn, BufferAllKeeps
<1>3. replace \in BOOLEAN /\ presence \in BOOLEAN
  OBVIOUS
<1>4. first \in Requests
  <2>1. ~replace => Watermark(rm) \in Nat
    BY <1>1 DEF NoPos
  <2> QED BY <2>1 DEF Requests
<1> DEFINE buf == BufferAll(EmptyBuffer, rm.parked_buffer.q)
           rerun == IF loss > 0 THEN Overflow(loss) ELSE NoReason
           plan == IF replace \/ presence THEN <<"Members">> ELSE <<>>
           start == IF replace THEN 0 ELSE Watermark(rm)
<1>5. rerun \in Reasons /\ OverflowDropped(rerun) = loss
  BY Causes
<1>6. plan \in Seq({"Members"}) /\ start \in Int
  <2>1. <<"Members">> \in Seq({"Members"}) /\ <<>> \in Seq({"Members"})
    OBVIOUS
  <2>2. start \in Int
    BY <1>1
  <2>3. plan = <<"Members">> \/ plan = <<>>
    OBVIOUS
  <2> HIDE DEF plan
  <2> QED BY <2>1, <2>2, <2>3
<1>7. rec = [tag |-> "Reconciling", epoch |-> ep, reason |-> reason,
                   read_id |-> id, outstanding |-> first, plan |-> plan, scan |-> <<>>,
                   baseline_start |-> start, replace_timeline |-> replace, presence |-> presence,
                   buffer |-> buf, rerun |-> rerun, members |-> <<>>]
  OBVIOUS
<1>8. e.room = r2 /\ e.issue = <<first>> /\ e.told = OverflowDropped(reason)
  <2>1. e = [Settled(r2) EXCEPT !.issue = <<first>>, !.told = OverflowDropped(reason)]
    BY DEF Reading
  <2> HIDE DEF e, r2, first
  <2> QED BY <2>1, Effects
<1>9. /\ replace => first = [op |-> "Timeline", from |-> 0] /\ start = 0
      /\ ~replace => /\ first = [op |-> "Resync", from |-> Watermark(rm)] /\ start = Watermark(rm)
                     /\ Watermark(rm) >= 0
  BY <1>1 DEF NoPos
<1> DEFINE nb == rm.pending_bootstrap /\ ~replace
<1>10. r2 = [rm EXCEPT !.pending_local_dropped = 0,
                            !.parked_buffer = EmptyBuffer,
                            !.pending_bootstrap = nb,
                            !.presence_refresh_pending = FALSE,
                            !.phase = rec]
  OBVIOUS
<1>11. nb \in BOOLEAN
  OBVIOUS
<1> HIDE DEF replace, presence, first, buf, rerun, plan, start, e, r2, rec, nb
<1>12. <<>> \in Seq(Nat) /\ <<>> \in Seq(SUBSET Nat)
  OBVIOUS
<1>13. rec \in Scans
  BY <1>2, <1>3, <1>4, <1>5, <1>6, <1>7, <1>12 DEF Scans, buf
<1>14. /\ rec.tag = "Reconciling" /\ rec.epoch = ep /\ rec.read_id = id
       /\ rec.outstanding = first /\ rec.buffer = buf /\ rec.rerun = rerun /\ rec.scan = <<>>
       /\ rec.replace_timeline = replace /\ rec.baseline_start = start
  BY <1>7
<1>15. r2 \in Rooms
  BY <1>10, <1>11, <1>13, EmptyBufferIn DEF Rooms, Phases
<1>16. /\ r2.known = rm.known /\ r2.phase = rec /\ r2.parked_buffer = EmptyBuffer
       /\ r2.pending_local_dropped = 0 /\ r2.pending_loss_notice = rm.pending_loss_notice
       /\ r2.required_frontier = rm.required_frontier
  BY <1>10 DEF Rooms
<1>17. e.room = r2 /\ e.issue = <<first>> /\ e.told = OverflowDropped(reason)
  BY <1>8
<1>18. IsReconciling(r2)
  BY <1>14, <1>16 DEF IsReconciling
<1>19. Reach(r2) = IF replace THEN -1 ELSE Watermark(rm)
  <2>1. Watermark(r2) = Watermark(rm)
    BY <1>16 DEF Watermark
  <2>2. Len(r2.phase.scan) = 0 /\ r2.phase.replace_timeline = replace
    BY <1>14, <1>16
  <2> QED BY <1>1, <2>1, <2>2 DEF Reach
<1>20. Within(r2, h)
  <2>1. Reach(r2) < h
    BY <1>1, <1>19 DEF Watermark
  <2> QED BY <1>2, <1>14, <1>16, <2>1, EmptyBufferIn DEF Within, buf
<1>21. first.op # "Members"
  BY <1>9, <1>3
<1>22. Continues(r2)
  <2>1. Watermark(r2) = Watermark(rm)
    BY <1>16 DEF Watermark
  <2>2. CASE replace
    <3>1. first.op = "Timeline" /\ First(first) = 0
      BY <1>9, <2>2 DEF First
    <3>2. r2.phase.replace_timeline /\ r2.phase.outstanding = first
      BY <1>14, <1>16, <2>2
    <3>3. First(first) = Reach(r2) + 1
      BY <1>19, <2>2, <3>1
    <3> QED BY <3>1, <3>2, <3>3 DEF Continues, Based
  <2>3. CASE ~replace
    <3>1. first.op = "Resync" /\ First(first) = Watermark(rm) + 1
      BY <1>9, <2>3 DEF First
    <3>2. ~r2.phase.replace_timeline /\ r2.phase.outstanding = first /\ r2.phase.baseline_start = start
      BY <1>14, <1>16, <2>3
    <3>3. First(first) = Reach(r2) + 1
      BY <1>19, <2>3, <3>1
    <3> QED BY <1>9, <2>1, <2>3, <3>1, <3>2, <3>3 DEF Continues, Based
  <2> QED BY <2>2, <2>3
<1>23. OverflowDropped(reason) \in Nat
  BY ReasonFields
<1>24. Begun(e, ep, id, h)
  BY <1>14, <1>15, <1>16, <1>17, <1>18, <1>20, <1>21, <1>22, <1>23 DEF Begun
<1>25. Held(r2) >= rm.pending_loss_notice + loss
  <2>1. PendingCause(r2) = rerun
    BY <1>14, <1>16 DEF PendingCause
  <2>2. buf.dropped \in Nat
    BY <1>2 DEF Buffers, buf
  <2>3. Held(r2) = rm.pending_loss_notice + 0 + 0 + loss + buf.dropped
    BY <1>5, <1>14, <1>16, <1>18, <2>1, EmptyBufferIn DEF Held
  <2> QED BY <1>1, <2>2, <2>3
<1>26. Held(r2) \in Int
  BY <1>5, <1>1, <1>2, <1>14, <1>16, <1>18, EmptyBufferIn DEF Held, PendingCause, buf, Buffers
<1>27. Held(e.room) + e.told >= rm.pending_loss_notice + loss + OverflowDropped(reason)
  BY <1>1, <1>17, <1>23, <1>25, <1>26
<1> QED BY <1>16, <1>17, <1>24, <1>27 DEF e

\* A reconciliation from a wanted cursor begins one.
LEMMA ReadFromBegins ==
  ASSUME NEW rm \in Rooms, NEW reason \in Reasons, NEW wanted \in Cursors,
         NEW ep \in Nat, NEW id \in 0 .. 2, NEW h \in Nat \ {0},
         Len(rm.known) <= h, Below(rm.parked_buffer.q, h)
  PROVE  LET e == ReadFrom(rm, reason, wanted, ep, id)
         IN  /\ Begun(e, ep, id, h)
             /\ e.room.required_frontier = rm.required_frontier
             /\ Held(e.room) + e.told >= Bag(rm) + OverflowDropped(reason)
<1> DEFINE from == IF wanted > Watermark(rm) THEN Watermark(rm) ELSE wanted
           t == IF from = NoPos THEN rm ELSE TruncateTo(rm, from)
           loss == rm.parked_buffer.dropped + rm.pending_local_dropped
<1>1. /\ Watermark(rm) \in Int /\ Watermark(rm) >= -1 /\ rm.known \in Seq(Nat)
      /\ rm.parked_buffer.dropped \in Nat /\ rm.pending_local_dropped \in Nat /\ rm.pending_loss_notice \in Nat
  BY RoomFields
<1>2. from \in Cursors
  BY <1>1 DEF Cursors, NoPos
<1>3. loss \in Nat
  BY <1>1
<1> HIDE DEF from
<1>4. /\ t \in Rooms /\ Len(t.known) <= Len(rm.known) /\ t.parked_buffer = rm.parked_buffer
      /\ t.pending_loss_notice = rm.pending_loss_notice
      /\ t.required_frontier = rm.required_frontier
  BY <1>1, <1>2, Truncating
<1> HIDE DEF t
<1>5. Len(t.known) \in Int /\ Len(rm.known) \in Int /\ Len(t.known) <= h
  <2>1. t.known \in Seq(Nat)
    BY <1>4, RoomFields
  <2> QED BY <1>1, <1>4, <2>1
<1>6. ReadFrom(rm, reason, wanted, ep, id) = Reading(t, reason, from, loss, ep, id)
  BY DEF ReadFrom, t, from
<1>7. /\ Begun(Reading(t, reason, from, loss, ep, id), ep, id, h)
      /\ Reading(t, reason, from, loss, ep, id).room.required_frontier = t.required_frontier
      /\ Held(Reading(t, reason, from, loss, ep, id).room) + Reading(t, reason, from, loss, ep, id).told
           >= t.pending_loss_notice + loss + OverflowDropped(reason)
  BY <1>2, <1>3, <1>4, <1>5, ReadingBegins
<1>8. Bag(rm) = rm.pending_loss_notice + loss
  BY <1>1 DEF Bag
<1> QED BY <1>4, <1>6, <1>7, <1>8

\* What a room holds.
LEMMA Holding ==
  ASSUME NEW rm \in Rooms
  PROVE  /\ PendingCause(rm) \in Reasons
         /\ Bag(rm) \in Nat /\ Held(rm) \in Nat
         /\ rm.phase.tag \in {"Converged", "NeedsReconcile", "Reconciling"}
         /\ IsReconciling(rm) => PendingCause(rm) = rm.phase.rerun
         /\ IsConverged(rm) => PendingCause(rm) = NoReason
         /\ rm.phase.tag = "NeedsReconcile" => PendingCause(rm) = rm.phase.reason
         /\ Held(rm) = Bag(rm) + OverflowDropped(PendingCause(rm))
                       + IF IsReconciling(rm) THEN rm.phase.buffer.dropped ELSE 0
<1>1. rm.phase \in Phases
  BY RoomFields
<1>2. rm.phase.tag \in {"Converged", "NeedsReconcile", "Reconciling"}
  BY <1>1 DEF Phases, Converged, Scans
<1>3. rm.phase.tag = "NeedsReconcile" => rm.phase.reason \in Reasons
  BY <1>1 DEF Phases, Converged, Scans
<1>4. /\ PendingCause(rm) \in Reasons
      /\ IsReconciling(rm) => PendingCause(rm) = rm.phase.rerun
      /\ IsConverged(rm) => PendingCause(rm) = NoReason
      /\ rm.phase.tag = "NeedsReconcile" => PendingCause(rm) = rm.phase.reason
  BY <1>2, <1>3, ScanFields, Causes DEF PendingCause, IsReconciling, IsConverged
<1>5. Bag(rm) \in Nat
  BY RoomFields DEF Bag
<1>6. OverflowDropped(PendingCause(rm)) \in Nat
  BY <1>4, ReasonFields
<1>7. (IF IsReconciling(rm) THEN rm.phase.buffer.dropped ELSE 0) \in Nat
  BY ScanFields
<1>8. Held(rm) = Bag(rm) + OverflowDropped(PendingCause(rm))
                       + IF IsReconciling(rm) THEN rm.phase.buffer.dropped ELSE 0
  BY <1>2 DEF Held, Bag
<1> QED BY <1>2, <1>4, <1>5, <1>6, <1>7, <1>8

\* BeginReconcile
LEMMA BeginBegins ==
  ASSUME NEW rm \in Rooms, NEW reason \in Reasons, NEW from \in Cursors,
         NEW ep \in Nat, NEW id \in 0 .. 2, NEW h \in Nat \ {0},
         Len(rm.known) <= h, Below(rm.parked_buffer.q, h),
         IsReconciling(rm) => Below(rm.phase.buffer.q, h)
  PROVE  LET e == BeginReconcile(rm, reason, from, ep, id)
         IN  /\ Begun(e, ep, id, h)
             /\ e.room.required_frontier = rm.required_frontier
             /\ Held(e.room) + e.told >= Bag(rm) + OverflowDropped(reason)
                  + IF IsReconciling(rm) THEN rm.phase.buffer.dropped ELSE 0
<1> DEFINE w == Lower(Lower(FromPosFor(reason), from), rm.pending_gap_from)
           r1 == [rm EXCEPT !.pending_gap_from = NoPos]
           r2 == StashReconcilingPushes(r1)
           e == ReadFrom(r2, reason, w, ep, id)
<1>1. w \in Cursors
  BY ReasonFields, RoomFields, Lowest
<1>2. /\ r1 \in Rooms /\ r1.known = rm.known /\ r1.parked_buffer = rm.parked_buffer
      /\ r1.phase = rm.phase /\ r1.required_frontier = rm.required_frontier
      /\ r1.pending_local_dropped = rm.pending_local_dropped
      /\ r1.pending_loss_notice = rm.pending_loss_notice
  BY DEF Rooms, Cursors
<1> HIDE DEF w, r1
<1>3. IsReconciling(r1) <=> IsReconciling(rm)
  BY <1>2 DEF IsReconciling
<1>4. Bag(r1) = Bag(rm)
  BY <1>2 DEF Bag
<1>5. /\ r2 \in Rooms /\ r2.known = r1.known /\ r2.required_frontier = r1.required_frontier
      /\ Below(r2.parked_buffer.q, h)
      /\ IsReconciling(r1) => Bag(r2) >= Bag(r1) + r1.phase.buffer.dropped
      /\ ~IsReconciling(r1) => r2 = r1
  <2>1. Below(r1.parked_buffer.q, h) /\ (IsReconciling(r1) => Below(r1.phase.buffer.q, h))
    BY <1>2, <1>3
  <2>2. /\ StashReconcilingPushes(r1) \in Rooms
        /\ StashReconcilingPushes(r1).known = r1.known
        /\ StashReconcilingPushes(r1).required_frontier = r1.required_frontier
        /\ Below(StashReconcilingPushes(r1).parked_buffer.q, h)
        /\ IsReconciling(r1) => Bag(StashReconcilingPushes(r1)) >= Bag(r1) + r1.phase.buffer.dropped
        /\ ~IsReconciling(r1) => StashReconcilingPushes(r1) = r1
    <3>1. h \in Int
      OBVIOUS
    <3>2. r1 \in Rooms
      BY <1>2
    <3> HIDE DEF r2, e
    <3> QED BY <3>1, <3>2, <2>1, Stashing, Zenon
  <2> QED BY <2>2
<1> HIDE DEF r2
<1>6. /\ Begun(e, ep, id, h)
      /\ e.room.required_frontier = r2.required_frontier
      /\ Held(e.room) + e.told >= Bag(r2) + OverflowDropped(reason)
  BY <1>1, <1>2, <1>5, ReadFromBegins
<1>7. Bag(r2) \in Int /\ Bag(rm) \in Int /\ OverflowDropped(reason) \in Nat /\ Held(e.room) \in Int /\ e.told \in Nat
  <2>1. \A x \in Rooms : Bag(x) \in Int
    BY RoomFields DEF Bag
  <2> QED BY <2>1, <1>5, <1>6, ReasonFields, Holding DEF Begun
<1>8. IsReconciling(rm) => rm.phase.buffer.dropped \in Nat
  BY ScanFields
<1>9. BeginReconcile(rm, reason, from, ep, id) = e
  BY <1>1 DEF BeginReconcile, w, r1, r2
<1> HIDE DEF e
<1>10. Held(e.room) + e.told >= Bag(rm) + OverflowDropped(reason)
                  + IF IsReconciling(rm) THEN rm.phase.buffer.dropped ELSE 0
  <2>1. CASE IsReconciling(rm)
    BY <2>1, <1>2, <1>3, <1>4, <1>5, <1>6, <1>7, <1>8, SMTT(30)
  <2>2. CASE ~IsReconciling(rm)
    BY <2>2, <1>2, <1>3, <1>4, <1>5, <1>6, <1>7
  <2> QED BY <2>1, <2>2
<1> QED BY <1>2, <1>5, <1>6, <1>9, <1>10

\* A launch begins a reconciliation: the pending cause is merged, the loss it carried is
\* kept, and the frontier covers every cursor named.
LEMMA LaunchBegins ==
  ASSUME NEW rm \in Rooms, NEW reason \in Reasons, NEW from \in Cursors,
         NEW ep \in Nat, NEW id \in 0 .. 2, NEW h \in Nat \ {0},
         Len(rm.known) <= h, Below(rm.parked_buffer.q, h),
         IsReconciling(rm) => Below(rm.phase.buffer.q, h)
  PROVE  LET e == Launch(rm, reason, from, ep, id)
         IN  /\ Begun(e, ep, id, h)
             /\ e.room.required_frontier >= rm.required_frontier
             /\ e.room.required_frontier >= from
             /\ Held(e.room) + e.told >= Held(rm) + OverflowDropped(reason)
<1> DEFINE parked == PendingCause(rm)
           merged == Coalesce(parked, reason)
           n1 == NoteTriggerEvidence(rm, reason, from)
           taken  == TakePendingCause(n1)
           b1 == Banked(taken, parked, reason)
           n2 == NoteTriggerEvidence(b1, merged, NoPos)
           e == BeginReconcile(n2, merged, from, ep, id)
<1>1. parked \in Reasons
  BY Holding
<1> HIDE DEF parked
<1>2. merged \in Reasons
  BY <1>1, CoalesceIn
<1>3. /\ n1 \in Rooms /\ Alike(n1, rm)
      /\ n1.required_frontier >= rm.required_frontier
      /\ n1.required_frontier >= from
  BY Noting
<1> HIDE DEF n1
<1>4. IsReconciling(n1) <=> IsReconciling(rm)
  BY <1>3 DEF Alike, IsReconciling
<1>5. /\ taken \in Rooms
      /\ taken.known = rm.known /\ taken.required_frontier = n1.required_frontier
      /\ taken.parked_buffer = rm.parked_buffer
      /\ taken.pending_local_dropped = rm.pending_local_dropped
      /\ taken.pending_loss_notice = rm.pending_loss_notice
      /\ IsReconciling(taken) <=> IsReconciling(rm)
      /\ IsReconciling(rm) => taken.phase.buffer = rm.phase.buffer
  BY <1>3, <1>4, Taking DEF Alike
<1> HIDE DEF taken
<1>6. /\ b1 \in Rooms
      /\ b1 = [taken EXCEPT !.pending_loss_notice = taken.pending_loss_notice + Outranked(parked, reason)]
      /\ b1.pending_loss_notice = rm.pending_loss_notice + Outranked(parked, reason)
  BY <1>1, <1>5, Banking
<1>7. /\ b1.known = rm.known /\ b1.required_frontier = n1.required_frontier
      /\ b1.parked_buffer = rm.parked_buffer
      /\ b1.pending_local_dropped = rm.pending_local_dropped
      /\ b1.phase = taken.phase
  BY <1>5, <1>6 DEF Rooms
<1> HIDE DEF b1
<1>8. /\ n2 \in Rooms /\ Alike(n2, b1)
      /\ n2.required_frontier >= b1.required_frontier
  BY <1>2, <1>6, Noting DEF Cursors
<1> HIDE DEF n2, merged
<1>9. /\ n2.known = rm.known /\ n2.parked_buffer = rm.parked_buffer
      /\ IsReconciling(n2) <=> IsReconciling(rm)
      /\ IsReconciling(rm) => n2.phase.buffer = rm.phase.buffer
      /\ n2.pending_local_dropped = rm.pending_local_dropped
      /\ n2.pending_loss_notice = rm.pending_loss_notice + Outranked(parked, reason)
  BY <1>5, <1>6, <1>7, <1>8 DEF Alike, IsReconciling
<1>10. /\ Begun(e, ep, id, h)
       /\ e.room.required_frontier = n2.required_frontier
       /\ Held(e.room) + e.told >= Bag(n2) + OverflowDropped(merged)
                  + IF IsReconciling(n2) THEN n2.phase.buffer.dropped ELSE 0
  BY <1>2, <1>8, <1>9, BeginBegins
<1>11. Launch(rm, reason, from, ep, id) = e
  BY DEF Launch, parked, merged, n1, taken, b1, n2
<1> HIDE DEF e
<1>12. /\ Outranked(parked, reason) \in Nat /\ OverflowDropped(merged) \in Nat
       /\ Outranked(parked, reason) + OverflowDropped(merged) = OverflowDropped(parked) + OverflowDropped(reason)
  BY <1>1, CoalesceLoss DEF merged
<1>13. /\ OverflowDropped(parked) \in Nat /\ OverflowDropped(reason) \in Nat
       /\ rm.pending_loss_notice \in Nat /\ rm.pending_local_dropped \in Nat /\ rm.parked_buffer.dropped \in Nat
  BY <1>1, ReasonFields, RoomFields
<1>14. Bag(n2) = Bag(rm) + Outranked(parked, reason)
  BY <1>9, <1>12, <1>13 DEF Bag
<1> DEFINE d == IF IsReconciling(rm) THEN rm.phase.buffer.dropped ELSE 0
<1>15. d \in Nat /\ d = IF IsReconciling(n2) THEN n2.phase.buffer.dropped ELSE 0
  BY <1>9, ScanFields
<1>16. Held(rm) = Bag(rm) + OverflowDropped(parked) + d /\ Bag(rm) \in Nat
  BY Holding DEF parked
<1>17. Held(e.room) \in Nat /\ e.told \in Nat
  BY <1>10, Holding DEF Begun
<1> HIDE DEF d
<1>18. Held(e.room) + e.told >= Held(rm) + OverflowDropped(reason)
  <2>1. Held(e.room) + e.told >= Bag(n2) + OverflowDropped(merged) + d
    BY <1>10, <1>15
  <2>2. Bag(rm) \in Nat /\ d \in Nat /\ OverflowDropped(parked) \in Nat /\ OverflowDropped(reason) \in Nat
        /\ Outranked(parked, reason) \in Nat /\ OverflowDropped(merged) \in Nat
    BY <1>12, <1>13, <1>15, <1>16
  <2>3. Held(rm) + OverflowDropped(reason) = Bag(rm) + (OverflowDropped(parked) + OverflowDropped(reason)) + d
    BY <2>2, <1>16
  <2>4. Bag(n2) + OverflowDropped(merged) + d = Bag(rm) + (Outranked(parked, reason) + OverflowDropped(merged)) + d
    BY <2>2, <1>14
  <2> QED BY <2>1, <2>3, <2>4, <1>12
<1>19. e.room.required_frontier >= rm.required_frontier /\ e.room.required_frontier >= from
  <2>1. \A x \in Rooms : x.required_frontier \in Int
    BY RoomFields
  <2>2. from \in Int
    BY DEF Cursors, NoPos
  <2> QED BY <2>1, <2>2, <1>3, <1>6, <1>7, <1>8, <1>10
<1> QED BY <1>10, <1>11, <1>18, <1>19

\* So a launch is an outcome, whatever the room was before.
LEMMA LaunchOutcome ==
  ASSUME NEW rm \in Rooms, NEW reason \in Reasons, NEW from \in Cursors,
         NEW ep \in Nat, NEW id \in 0 .. 2, NEW h \in Nat \ {0}, NEW nm \in Int,
         Fit(rm, h), Owed(rm, nm, h) \/ nm <= from, NEW old
  PROVE  LET e == Launch(rm, reason, from, ep, id)
         IN  /\ Outcome(e, old, nm, ep, id, h)
             /\ IsReconciling(e.room) /\ e.issue # <<>>
             /\ e.room.phase.epoch = ep /\ e.room.phase.read_id = id
             /\ e.room.required_frontier >= rm.required_frontier
             /\ e.room.required_frontier >= from
             /\ Held(e.room) + e.told >= Held(rm) + OverflowDropped(reason)
<1> DEFINE e == Launch(rm, reason, from, ep, id)
<1>1. /\ Begun(e, ep, id, h)
      /\ e.room.required_frontier >= rm.required_frontier
      /\ e.room.required_frontier >= from
      /\ Held(e.room) + e.told >= Held(rm) + OverflowDropped(reason)
  BY LaunchBegins DEF Fit
<1> HIDE DEF e
<1>2. e.room.required_frontier \in Int /\ rm.required_frontier \in Int /\ from \in Int
  BY <1>1, RoomFields DEF Begun, Cursors, NoPos
<1>3. Named(e.room, nm, h)
  <2>1. nm < h \/ nm <= e.room.required_frontier
    BY <1>1, <1>2 DEF Owed
  <2>2. ~IsConverged(e.room) /\ e.room.phase.outstanding.op # "Members"
    BY <1>1 DEF Begun, IsReconciling, IsConverged
  <2> QED BY <2>1, <2>2 DEF Named
<1>4. Outcome(e, old, nm, ep, id, h)
  BY <1>1, <1>3 DEF Outcome, Begun
<1>5. IsReconciling(e.room) /\ e.issue # <<>> /\ e.room.phase.epoch = ep /\ e.room.phase.read_id = id
  BY <1>1 DEF Begun
<1> QED BY <1>1, <1>4, <1>5 DEF e

\* A room whose phase is replaced.
LEMMA Rephased ==
  ASSUME NEW rm \in Rooms, NEW ph \in Phases
  PROVE  LET r2 == [rm EXCEPT !.phase = ph]
         IN  /\ r2 \in Rooms /\ r2.phase = ph
             /\ r2.known = rm.known /\ r2.parked_buffer = rm.parked_buffer
             /\ r2.required_frontier = rm.required_frontier
             /\ r2.pending_local_dropped = rm.pending_local_dropped
             /\ r2.pending_loss_notice = rm.pending_loss_notice
             /\ r2.presence_refresh_pending = rm.presence_refresh_pending
             /\ r2.bootstrap_anchor = rm.bootstrap_anchor
             /\ Bag(r2) = Bag(rm) /\ Watermark(r2) = Watermark(rm)
BY DEF Rooms, Bag, Watermark

\* What a scan will do again is the only thing that changes.
LEMMA Reruns ==
  ASSUME NEW ph \in Scans, NEW r \in Reasons
  PROVE  LET p2 == [ph EXCEPT !.rerun = r]
         IN  /\ p2 \in Scans /\ p2 \in Phases /\ p2.rerun = r
             /\ p2.tag = ph.tag /\ p2.buffer = ph.buffer /\ p2.scan = ph.scan
             /\ p2.replace_timeline = ph.replace_timeline
             /\ p2.baseline_start = ph.baseline_start /\ p2.outstanding = ph.outstanding
             /\ p2.epoch = ph.epoch /\ p2.read_id = ph.read_id
             /\ p2.presence = ph.presence /\ p2.reason = ph.reason /\ p2.plan = ph.plan
<1>1. [ph EXCEPT !.rerun = r] \in Scans
  BY DEF Scans
<1>2. [ph EXCEPT !.rerun = r] \in Phases
  BY <1>1 DEF Phases
<1> QED BY <1>1, <1>2 DEF Scans

\* A cause coalesced into the read in flight.
LEMMA Coalescing ==
  ASSUME NEW rm \in Rooms, NEW reason \in Reasons, NEW from \in Cursors, IsReconciling(rm)
  PROVE  LET r2 == CoalesceRerun(rm, reason, from)
         IN  /\ r2 \in Rooms
             /\ r2.phase = [rm.phase EXCEPT !.rerun = Coalesce(rm.phase.rerun, reason)]
             /\ r2.known = rm.known /\ r2.parked_buffer = rm.parked_buffer
             /\ r2.required_frontier = rm.required_frontier
             /\ Held(r2) = Held(rm) + OverflowDropped(reason)
             /\ IsReconciling(r2)
<1> DEFINE kept == [rm EXCEPT !.pending_gap_from = Lower(rm.pending_gap_from, from)]
           merged == Coalesce(rm.phase.rerun, reason)
           b == Banked(kept, rm.phase.rerun, reason)
           ph == [rm.phase EXCEPT !.rerun = merged]
<1>1. /\ rm.phase \in Scans /\ rm.phase.rerun \in Reasons /\ rm.phase.buffer.dropped \in Nat
  BY ScanFields
<1>2. merged \in Reasons
  BY <1>1, CoalesceIn
<1>3. Lower(rm.pending_gap_from, from) \in Cursors
  BY RoomFields, Lowest
<1>4. /\ kept \in Rooms /\ kept.known = rm.known /\ kept.parked_buffer = rm.parked_buffer
      /\ kept.required_frontier = rm.required_frontier /\ kept.phase = rm.phase
      /\ kept.pending_local_dropped = rm.pending_local_dropped
      /\ kept.pending_loss_notice = rm.pending_loss_notice
  BY <1>3 DEF Rooms
<1> HIDE DEF kept
<1>5. /\ b \in Rooms
      /\ b = [kept EXCEPT !.pending_loss_notice = kept.pending_loss_notice + Outranked(rm.phase.rerun, reason)]
      /\ b.pending_loss_notice = rm.pending_loss_notice + Outranked(rm.phase.rerun, reason)
  BY <1>1, <1>4, Banking, ZenonT(60)
<1>6. /\ b.known = rm.known /\ b.parked_buffer = rm.parked_buffer
      /\ b.required_frontier = rm.required_frontier /\ b.phase = rm.phase
      /\ b.pending_local_dropped = rm.pending_local_dropped
  BY <1>4, <1>5 DEF Rooms
<1> HIDE DEF b, merged
<1>7. ph \in Phases /\ ph \in Scans /\ ph.rerun = merged /\ ph.tag = rm.phase.tag /\ ph.buffer = rm.phase.buffer
  BY <1>1, <1>2, Reruns
<1>8. CoalesceRerun(rm, reason, from) = [b EXCEPT !.phase = ph]
  BY <1>6 DEF CoalesceRerun, b, merged, kept
<1> DEFINE r2 == [b EXCEPT !.phase = ph]
<1> HIDE DEF ph
<1>9. /\ r2 \in Rooms /\ r2.phase = ph /\ r2.known = b.known /\ r2.parked_buffer = b.parked_buffer
      /\ r2.required_frontier = b.required_frontier /\ Bag(r2) = Bag(b)
  BY <1>5, <1>7, Rephased
<1> HIDE DEF r2
<1>10. IsReconciling(r2)
  BY <1>7, <1>9 DEF IsReconciling
<1>11. Held(r2) = Bag(b) + OverflowDropped(merged) + rm.phase.buffer.dropped
  BY <1>7, <1>9, <1>10, Holding
<1>12. Held(rm) = Bag(rm) + OverflowDropped(rm.phase.rerun) + rm.phase.buffer.dropped /\ Bag(rm) \in Nat
  BY Holding
<1>13. /\ Outranked(rm.phase.rerun, reason) \in Nat /\ OverflowDropped(merged) \in Nat
       /\ Outranked(rm.phase.rerun, reason) + OverflowDropped(merged)
            = OverflowDropped(rm.phase.rerun) + OverflowDropped(reason)
       /\ OverflowDropped(rm.phase.rerun) \in Nat /\ OverflowDropped(reason) \in Nat
  BY <1>1, CoalesceLoss, ReasonFields DEF merged
<1>14. Bag(b) = Bag(rm) + Outranked(rm.phase.rerun, reason)
  <2>1. rm.pending_loss_notice \in Nat /\ rm.pending_local_dropped \in Nat /\ rm.parked_buffer.dropped \in Nat
    BY RoomFields
  <2> QED BY <1>5, <1>6, <1>13, <2>1 DEF Bag
<1>15. Held(r2) = Held(rm) + OverflowDropped(reason)
  <2>1. Held(r2) = Bag(rm) + (Outranked(rm.phase.rerun, reason) + OverflowDropped(merged)) + rm.phase.buffer.dropped
    BY <1>1, <1>11, <1>12, <1>13, <1>14
  <2>2. Held(rm) + OverflowDropped(reason) = Bag(rm) + (OverflowDropped(rm.phase.rerun) + OverflowDropped(reason)) + rm.phase.buffer.dropped
    BY <1>1, <1>12, <1>13
  <2> QED BY <2>1, <2>2, <1>13
<1> QED BY <1>6, <1>8, <1>9, <1>10, <1>15 DEF r2, ph, merged

\* Replacing what a scan will do again disturbs nothing of what it has read.
LEMMA SameScan ==
  ASSUME NEW a \in Rooms, NEW rm \in Rooms, IsReconciling(rm), IsReconciling(a), NEW h \in Int, NEW nm \in Int,
         a.known = rm.known, a.parked_buffer = rm.parked_buffer,
         a.phase.buffer = rm.phase.buffer, a.phase.scan = rm.phase.scan,
         a.phase.replace_timeline = rm.phase.replace_timeline,
         a.phase.baseline_start = rm.phase.baseline_start,
         a.phase.outstanding = rm.phase.outstanding,
         a.required_frontier >= rm.required_frontier
  PROVE  /\ Reach(a) = Reach(rm) /\ Watermark(a) = Watermark(rm)
         /\ Within(rm, h) => Within(a, h)
         /\ Continues(rm) => Continues(a)
         /\ Named(rm, nm, h) => Named(a, nm, h)
<1>1. Watermark(a) = Watermark(rm)
  BY DEF Watermark
<1>2. Reach(a) = Reach(rm)
  BY <1>1 DEF Reach
<1>3. Within(rm, h) => Within(a, h)
  BY <1>2 DEF Within
<1>4. Continues(rm) => Continues(a)
  BY <1>1, <1>2 DEF Continues, Based
<1>5. a.required_frontier \in Int /\ rm.required_frontier \in Int
  BY RoomFields
<1>6. Named(rm, nm, h) => Named(a, nm, h)
  <2>1. ~IsConverged(a)
    BY DEF IsConverged, IsReconciling
  <2> QED BY <1>2, <1>5, <2>1 DEF Named
<1> QED BY <1>1, <1>2, <1>3, <1>4, <1>6

\* Core::trigger: merged into the read in flight or launched, the loss is held and the
\* cursor named is owed.
LEMMA TriggerOutcome ==
  ASSUME NEW rm \in Rooms, NEW reason \in Reasons, NEW from \in Cursors,
         NEW ep \in Nat, NEW id \in 0 .. 2, NEW h \in Nat \ {0}, NEW nm \in Int, NEW om \in Int,
         Within(rm, h), Continues(rm), Named(rm, om, h), nm = om \/ nm <= from
  PROVE  LET e == Trigger(rm, reason, from, ep, id)
         IN  /\ Outcome(e, rm, nm, ep, id, h)
             /\ Held(e.room) + e.told >= Held(rm) + OverflowDropped(reason)
<1> DEFINE n == NoteTriggerEvidence(rm, reason, from)
           e == Trigger(rm, reason, from, ep, id)
<1>1. /\ n \in Rooms /\ Alike(n, rm)
      /\ n.required_frontier >= rm.required_frontier
      /\ n.required_frontier >= from
  BY Noting
<1>2. /\ n.required_frontier \in Int /\ rm.required_frontier \in Int /\ from \in Int
      /\ rm.pending_loss_notice \in Nat /\ Held(rm) \in Nat /\ OverflowDropped(reason) \in Nat
  BY <1>1, RoomFields, Holding, ReasonFields DEF Cursors, NoPos
<1> HIDE DEF n
<1>3. Held(n) = Held(rm) /\ (IsReconciling(n) <=> IsReconciling(rm))
  BY <1>1 DEF Alike, Held, PendingCause, IsReconciling
<1>4. CASE IsReconciling(rm)
  <2> DEFINE r2 == CoalesceRerun(n, reason, from)
  <2>1. e = Settled(r2)
    BY <1>4 DEF Trigger, n
  <2>2. /\ r2 \in Rooms
        /\ r2.phase = [n.phase EXCEPT !.rerun = Coalesce(n.phase.rerun, reason)]
        /\ r2.known = n.known /\ r2.parked_buffer = n.parked_buffer
        /\ r2.required_frontier = n.required_frontier
        /\ Held(r2) = Held(n) + OverflowDropped(reason)
        /\ IsReconciling(r2)
    BY <1>1, <1>3, <1>4, Coalescing
  <2> HIDE DEF r2
  <2>3. n.phase = rm.phase /\ rm.phase \in Scans /\ rm.phase.rerun \in Reasons /\ Coalesce(n.phase.rerun, reason) \in Reasons
    BY <1>1, <1>4, ScanFields, CoalesceIn DEF Alike
  <2>4. /\ r2.phase.buffer = rm.phase.buffer /\ r2.phase.scan = rm.phase.scan
        /\ r2.phase.replace_timeline = rm.phase.replace_timeline
        /\ r2.phase.baseline_start = rm.phase.baseline_start
        /\ r2.phase.outstanding = rm.phase.outstanding
        /\ r2.phase.epoch = rm.phase.epoch /\ r2.phase.read_id = rm.phase.read_id
    BY <2>2, <2>3, Reruns
  <2>5. r2.known = rm.known /\ r2.parked_buffer = rm.parked_buffer /\ r2.required_frontier >= rm.required_frontier
    BY <1>1, <2>2 DEF Alike
  <2>6. Within(r2, h) /\ Continues(r2) /\ Named(r2, om, h) /\ Reach(r2) = Reach(rm)
    <3>1. h \in Int
      OBVIOUS
    <3> HIDE DEF e
    <3> QED BY <1>4, <2>2, <2>4, <2>5, <3>1, SameScan, Zenon
  <2>7. Named(r2, nm, h)
    <3>1. CASE nm <= from
      <4>1. nm <= r2.required_frontier
        BY <1>1, <1>2, <2>2, <3>1
      <4>2. ~IsConverged(r2)
        BY <2>2 DEF IsReconciling, IsConverged
      <4> QED BY <4>1, <4>2 DEF Named
    <3> QED BY <3>1, <2>6
  <2>8. e.room = r2 /\ e.issue = <<>> /\ e.told = 0
    BY <2>1, Effects
  <2> HIDE DEF e
  <2>9. Outcome(e, rm, nm, ep, id, h)
    <3>1. e.room \in Rooms /\ e.told \in Nat /\ Within(e.room, h) /\ Continues(e.room) /\ Named(e.room, nm, h)
      BY <2>2, <2>6, <2>7, <2>8
    <3>2. /\ IsReconciling(e.room) /\ IsReconciling(rm)
          /\ e.room.phase.epoch = rm.phase.epoch /\ e.room.phase.read_id = rm.phase.read_id
          /\ e.issue = <<>> /\ e.room.phase.outstanding = rm.phase.outstanding
      BY <1>4, <2>2, <2>4, <2>8
    <3> QED BY <3>1, <3>2 DEF Outcome
  <2>10. Held(e.room) + e.told >= Held(rm) + OverflowDropped(reason)
    BY <1>2, <1>3, <2>2, <2>8
  <2> QED BY <2>9, <2>10 DEF e
<1>5. CASE ~IsReconciling(rm)
  <2> DEFINE l == Launch(n, reason, from, ep, id)
  <2>1. e = l
    BY <1>5 DEF Trigger, n
  <2>2. Fit(n, h)
    BY <1>1, <1>3, <1>5 DEF Fit, Within, Alike
  <2>3. Owed(n, nm, h) \/ nm <= from
    BY <1>1, <1>2 DEF Owed, Named
  <2>4. Outcome(l, rm, nm, ep, id, h) /\ Held(l.room) + l.told >= Held(n) + OverflowDropped(reason)
    BY <1>1, <2>2, <2>3, LaunchOutcome
  <2> QED BY <1>3, <2>1, <2>4
<1> QED BY <1>4, <1>5

\* A room that is parked with a cause.
LEMMA ParkedOutcome ==
  ASSUME NEW rm \in Rooms, NEW r \in Reasons, rm.phase = Parked(r),
         NEW ep, NEW id, NEW h \in Nat \ {0}, NEW nm \in Int, Fit(rm, h), Owed(rm, nm, h), NEW old
  PROVE  /\ Outcome(Settled(rm), old, nm, ep, id, h)
         /\ Settled(rm).room = rm /\ Settled(rm).told = 0 /\ Settled(rm).issue = <<>>
         /\ Held(rm) = Bag(rm) + OverflowDropped(r)
         /\ ~IsReconciling(rm)
<1>1. ~IsReconciling(rm) /\ ~IsConverged(rm) /\ rm.phase.tag = "NeedsReconcile" /\ rm.phase.reason = r
  BY DEF Parked, IsReconciling, IsConverged
<1>2. Settled(rm).room = rm /\ Settled(rm).told = 0 /\ Settled(rm).issue = <<>>
  BY Effects
<1>3. Within(rm, h) /\ Continues(rm) /\ Named(rm, nm, h)
  BY <1>1 DEF Within, Continues, Named, Fit, Owed
<1>4. Held(rm) = Bag(rm) + OverflowDropped(r)
  BY <1>1, Holding, ReasonFields
<1> QED BY <1>1, <1>2, <1>3, <1>4 DEF Outcome

\* A parked phase is a phase.
LEMMA ParkedIn ==
  ASSUME NEW r \in Reasons
  PROVE  Parked(r) \in Phases
BY DEF Parked, Phases

\* A failed read parks the room with everything that accrued, or runs it once.
LEMMA FailOutcome ==
  ASSUME NEW rm \in Rooms, IsReconciling(rm), NEW relaunch \in BOOLEAN,
         NEW ep \in Nat, NEW id \in 0 .. 2, NEW h \in Nat \ {0}, NEW nm \in Int,
         Fit(rm, h), Owed(rm, nm, h), NEW old
  PROVE  LET e == Fail(rm, relaunch, ep, id)
         IN  /\ Outcome(e, old, nm, ep, id, h)
             /\ Held(e.room) + e.told >= Held(rm)
             /\ ~relaunch => ~IsReconciling(e.room)
<1> DEFINE st == StashReconcilingPushes(rm)
           rec   == st.phase
           loss  == st.parked_buffer.dropped + st.pending_local_dropped
           had   == rec.rerun # NoReason
           cause == IF had THEN Coalesce(rec.reason, rec.rerun) ELSE rec.reason
           kept  == IF had THEN Banked(st, rec.reason, rec.rerun) ELSE st
           all   == IF loss > 0 THEN Coalesce(cause, Overflow(loss)) ELSE cause
           pr    == kept.presence_refresh_pending \/ rec.presence
           left  == [kept EXCEPT !.presence_refresh_pending = pr, !.phase = Parked(all)]
           e == Fail(rm, relaunch, ep, id)
<1>1. h \in Int /\ Below(rm.parked_buffer.q, h) /\ Below(rm.phase.buffer.q, h)
  BY DEF Fit
<1>2. /\ st \in Rooms
      /\ st.known = rm.known /\ st.required_frontier = rm.required_frontier
      /\ st.pending_loss_notice = rm.pending_loss_notice
      /\ Below(st.parked_buffer.q, h)
      /\ IsReconciling(st)
      /\ Bag(st) >= Bag(rm) + rm.phase.buffer.dropped
      /\ rec = [rm.phase EXCEPT !.buffer = EmptyBuffer]
  <2> HIDE DEF e
  <2> QED BY <1>1, Stashing, Zenon
<1> HIDE DEF st
<1>3. /\ rm.phase \in Scans /\ rm.phase.rerun \in Reasons /\ rm.phase.reason \in Reasons /\ rm.phase.buffer.dropped \in Nat
      /\ rm.phase.presence \in BOOLEAN
  BY ScanFields
<1>4. rec.rerun = rm.phase.rerun /\ rec.reason = rm.phase.reason /\ rec.presence = rm.phase.presence
  BY <1>2, <1>3 DEF Scans
<1> HIDE DEF rec
<1>5. loss \in Nat /\ st.presence_refresh_pending \in BOOLEAN
      /\ Bag(st) \in Nat /\ Bag(rm) \in Nat
      /\ st.pending_loss_notice \in Nat /\ st.pending_local_dropped \in Nat /\ st.parked_buffer.dropped \in Nat
  <2>1. Bag(st) \in Nat /\ Bag(rm) \in Nat
    BY <1>2, Holding
  <2>2. /\ st.presence_refresh_pending \in BOOLEAN
        /\ st.pending_loss_notice \in Nat /\ st.pending_local_dropped \in Nat /\ st.parked_buffer.dropped \in Nat
    BY <1>2, RoomFields
  <2> QED BY <2>1, <2>2
<1> HIDE DEF loss
<1>6. cause \in Reasons
  BY <1>3, <1>4, CoalesceIn
<1>7. /\ kept \in Rooms /\ kept.known = rm.known /\ kept.required_frontier = rm.required_frontier
      /\ kept.parked_buffer = st.parked_buffer
      /\ Bag(kept) + OverflowDropped(cause) >= Bag(st) + OverflowDropped(rm.phase.rerun)
  <2>1. CASE had
    <3> DEFINE o == Outranked(rec.reason, rec.rerun)
               b == Banked(st, rec.reason, rec.rerun)
    <3>1. /\ b \in Rooms
          /\ b = [st EXCEPT !.pending_loss_notice = st.pending_loss_notice + o]
          /\ b.pending_loss_notice = st.pending_loss_notice + o
      <4>1. rec.reason \in Reasons /\ rec.rerun \in Reasons
        BY <1>3, <1>4
      <4> QED BY <1>2, <4>1, Banking
    <3>2. /\ o \in Nat /\ OverflowDropped(cause) \in Nat
          /\ o + OverflowDropped(cause) = OverflowDropped(rec.reason) + OverflowDropped(rec.rerun)
          /\ OverflowDropped(rec.reason) \in Nat /\ OverflowDropped(rec.rerun) \in Nat
      BY <1>3, <1>4, <2>1, CoalesceLoss, ReasonFields
    <3> HIDE DEF o
    <3>3. /\ b.known = st.known /\ b.required_frontier = st.required_frontier
          /\ b.parked_buffer = st.parked_buffer /\ b.pending_local_dropped = st.pending_local_dropped
      BY <1>2, <3>1, SMTT(30) DEF Rooms
    <3>4. kept = b
      BY <2>1
    <3> HIDE DEF b, kept, cause
    <3>5. Bag(b) = Bag(st) + o
      BY <1>5, <3>1, <3>2, <3>3 DEF Bag
    <3>6. Bag(b) + OverflowDropped(cause) = Bag(st) + (o + OverflowDropped(cause))
      BY <1>5, <3>2, <3>5
    <3>7. Bag(b) + OverflowDropped(cause) >= Bag(st) + OverflowDropped(rec.rerun)
      BY <1>5, <3>2, <3>6
    <3> QED BY <1>2, <1>4, <3>1, <3>3, <3>4, <3>7
  <2>2. CASE ~had
    <3>1. kept = st /\ OverflowDropped(rm.phase.rerun) = 0
      BY <2>2, <1>4, Causes
    <3>2. OverflowDropped(cause) \in Nat
      BY <1>6, ReasonFields
    <3> HIDE DEF kept, cause
    <3> QED BY <1>2, <1>5, <3>1, <3>2
  <2> QED BY <2>1, <2>2
<1> HIDE DEF kept, cause
<1>8. all \in Reasons /\ OverflowDropped(all) >= OverflowDropped(cause)
  <2>1. OverflowDropped(cause) \in Nat
    BY <1>6, ReasonFields
  <2>2. loss > 0 => /\ Coalesce(cause, Overflow(loss)) \in Reasons
                    /\ OverflowDropped(Coalesce(cause, Overflow(loss))) >= OverflowDropped(cause)
    BY <1>5, <1>6, Causes, CoalesceIn, CoalesceOverflow
  <2> QED BY <1>6, <2>1, <2>2
<1> HIDE DEF all
<1>9. pr \in BOOLEAN
  BY <1>3, <1>4, <1>7, RoomFields
<1> HIDE DEF pr
<1>10. /\ left \in Rooms /\ left.phase = Parked(all)
       /\ left.known = rm.known /\ left.required_frontier = rm.required_frontier
       /\ left.parked_buffer = st.parked_buffer
       /\ left.pending_loss_notice = kept.pending_loss_notice
       /\ left.pending_local_dropped = kept.pending_local_dropped
  <2>1. Parked(all) \in Phases
    BY <1>8, ParkedIn
  <2> QED BY <1>7, <1>9, <2>1 DEF Rooms
<1>11. e = IF relaunch /\ had THEN Launch(left, all, FromPosFor(all), ep, id) ELSE Settled(left)
  BY DEF Fail, st, rec, loss, cause, kept, all, pr
<1> HIDE DEF left, had
<1>12. ~IsReconciling(left)
  BY <1>10 DEF Parked, IsReconciling
<1>13. Fit(left, h) /\ Owed(left, nm, h)
  BY <1>2, <1>10, <1>12 DEF Fit, Owed
<1>14. /\ Outcome(Settled(left), old, nm, ep, id, h)
       /\ Settled(left).room = left /\ Settled(left).told = 0
       /\ Held(left) = Bag(left) + OverflowDropped(all)
  BY <1>8, <1>10, <1>13, ParkedOutcome
<1>15. Bag(left) = Bag(kept)
  BY <1>7, <1>10 DEF Bag
<1>16. Held(rm) = Bag(rm) + OverflowDropped(rm.phase.rerun) + rm.phase.buffer.dropped
  BY Holding
<1>17. /\ OverflowDropped(all) \in Nat /\ OverflowDropped(cause) \in Nat /\ OverflowDropped(rm.phase.rerun) \in Nat
       /\ Bag(kept) \in Nat /\ Held(left) \in Nat /\ Held(rm) \in Nat
  BY <1>3, <1>6, <1>7, <1>8, <1>10, ReasonFields, Holding
<1>18. Held(left) >= Held(rm)
  BY <1>2, <1>3, <1>5, <1>7, <1>8, <1>14, <1>15, <1>16, <1>17
<1>19. CASE relaunch /\ had
  <2> DEFINE l == Launch(left, all, FromPosFor(all), ep, id)
  <2>1. FromPosFor(all) \in Cursors
    BY <1>8, ReasonFields
  <2>2. Outcome(l, old, nm, ep, id, h) /\ Held(l.room) + l.told >= Held(left) + OverflowDropped(all)
    BY <1>8, <1>10, <1>13, <2>1, LaunchOutcome
  <2>3. Held(l.room) \in Nat /\ l.told \in Nat
    BY <2>2, Holding DEF Outcome
  <2> HIDE DEF e
  <2>4. e = l
    BY <1>11, <1>19
  <2> HIDE DEF l
  <2>5. Held(e.room) + e.told >= Held(rm)
    BY <1>17, <1>18, <2>2, <2>3, <2>4
  <2> QED BY <1>19, <2>2, <2>4, <2>5 DEF e
<1>20. CASE ~(relaunch /\ had)
  <2> HIDE DEF e
  <2>1. e = Settled(left)
    BY <1>11, <1>20
  <2>2. Held(e.room) + e.told >= Held(rm)
    BY <1>14, <1>17, <1>18, <2>1
  <2> QED BY <1>12, <1>14, <2>1, <2>2 DEF e
<1> QED BY <1>19, <1>20

\* A read that is answered when the transport is away parks the room.
LEMMA ParkOutcome ==
  ASSUME NEW rm \in Rooms, IsReconciling(rm),
         NEW ep, NEW id, NEW h \in Nat \ {0}, NEW nm \in Int,
         Fit(rm, h), Owed(rm, nm, h), NEW old
  PROVE  LET e == Settled(ParkOutstanding(rm))
         IN  /\ Outcome(e, old, nm, ep, id, h)
             /\ Held(e.room) + e.told >= Held(rm)
             /\ ~IsReconciling(e.room)
<1> DEFINE st == StashReconcilingPushes(rm)
           rec   == st.phase
           b == Banked(st, rec.rerun, rec.reason)
           all == Coalesce(rec.rerun, rec.reason)
           o == Outranked(rec.rerun, rec.reason)
           left  == [b EXCEPT !.phase = Parked(all)]
<1>1. h \in Int /\ Below(rm.parked_buffer.q, h) /\ Below(rm.phase.buffer.q, h)
  BY DEF Fit
<1>2. /\ st \in Rooms
      /\ st.known = rm.known /\ st.required_frontier = rm.required_frontier
      /\ st.pending_loss_notice = rm.pending_loss_notice
      /\ Below(st.parked_buffer.q, h)
      /\ Bag(st) >= Bag(rm) + rm.phase.buffer.dropped
      /\ rec = [rm.phase EXCEPT !.buffer = EmptyBuffer]
  BY <1>1, Stashing, Zenon
<1> HIDE DEF st
<1>3. /\ rm.phase \in Scans /\ rm.phase.rerun \in Reasons /\ rm.phase.reason \in Reasons /\ rm.phase.buffer.dropped \in Nat
  BY ScanFields
<1>4. rec.rerun = rm.phase.rerun /\ rec.reason = rm.phase.reason
  BY <1>2, <1>3 DEF Scans
<1> HIDE DEF rec
<1>5. /\ Bag(st) \in Nat /\ Bag(rm) \in Nat
      /\ st.pending_loss_notice \in Nat /\ st.pending_local_dropped \in Nat /\ st.parked_buffer.dropped \in Nat
  BY <1>2, RoomFields, Holding
<1>6. all \in Reasons
  BY <1>3, <1>4, CoalesceIn
<1>7. /\ b \in Rooms
      /\ b = [st EXCEPT !.pending_loss_notice = st.pending_loss_notice + o]
      /\ b.pending_loss_notice = st.pending_loss_notice + o
  <2>1. rec.reason \in Reasons /\ rec.rerun \in Reasons
    BY <1>3, <1>4
  <2> QED BY <1>2, <2>1, Banking, ZenonT(60)
<1>8. /\ o \in Nat /\ OverflowDropped(all) \in Nat
      /\ o + OverflowDropped(all) = OverflowDropped(rec.rerun) + OverflowDropped(rec.reason)
      /\ OverflowDropped(rec.reason) \in Nat /\ OverflowDropped(rec.rerun) \in Nat
  BY <1>3, <1>4, CoalesceLoss, ReasonFields
<1> HIDE DEF o, all
<1>9. /\ b.known = st.known /\ b.required_frontier = st.required_frontier
      /\ b.parked_buffer = st.parked_buffer /\ b.pending_local_dropped = st.pending_local_dropped
  BY <1>2, <1>7, SMTT(30) DEF Rooms
<1> HIDE DEF b
<1>10. Bag(b) = Bag(st) + o
  BY <1>5, <1>7, <1>8, <1>9 DEF Bag
<1>11. Parked(all) \in Phases
  BY <1>6, ParkedIn
<1>12. /\ left \in Rooms /\ left.phase = Parked(all)
       /\ left.known = b.known /\ left.required_frontier = b.required_frontier
       /\ left.parked_buffer = b.parked_buffer /\ Bag(left) = Bag(b)
  BY <1>7, <1>11, Rephased
<1>13. ParkOutstanding(rm) = left
  BY DEF ParkOutstanding, st, rec, b, all
<1> HIDE DEF left
<1>14. ~IsReconciling(left)
  BY <1>12 DEF Parked, IsReconciling
<1>15. Fit(left, h) /\ Owed(left, nm, h)
  BY <1>2, <1>9, <1>12, <1>14 DEF Fit, Owed
<1>16. /\ Outcome(Settled(left), old, nm, ep, id, h)
       /\ Settled(left).room = left /\ Settled(left).told = 0
       /\ Held(left) = Bag(left) + OverflowDropped(all)
  BY <1>6, <1>12, <1>15, ParkedOutcome
<1>17. Held(rm) = Bag(rm) + OverflowDropped(rm.phase.rerun) + rm.phase.buffer.dropped
  BY Holding
<1>18. Held(left) = Bag(st) + (OverflowDropped(rec.rerun) + OverflowDropped(rec.reason))
  BY <1>5, <1>8, <1>10, <1>12, <1>16
<1>19. Held(left) >= Held(rm) /\ Held(left) \in Nat
  BY <1>2, <1>3, <1>4, <1>5, <1>8, <1>12, <1>17, <1>18, Holding
<1> QED BY <1>13, <1>14, <1>16, <1>19

\* An inconsistent page is retried or parks the room.
LEMMA StructuralOutcome ==
  ASSUME NEW rm \in Rooms, IsReconciling(rm),
         NEW ep \in Nat, NEW id \in 0 .. 2, NEW h \in Nat \ {0}, NEW nm \in Int,
         Fit(rm, h), Owed(rm, nm, h), NEW old
  PROVE  LET e == StructuralRetry(rm, ep, id)
         IN  /\ Outcome(e, old, nm, ep, id, h)
             /\ Held(e.room) + e.told >= Held(rm)
<1> DEFINE rec == rm.phase
           b == Banked(rm, rec.rerun, ProtocolGap)
           o == Outranked(rec.rerun, ProtocolGap)
           pb == b.pending_bootstrap \/ rec.replace_timeline
           pr == b.presence_refresh_pending \/ rec.presence
           ph == [rec EXCEPT !.rerun = NoReason]
           retried == [b EXCEPT !.protocol_retry_used = TRUE, !.pending_bootstrap = pb,
                                !.presence_refresh_pending = pr, !.phase = ph]
           cause == Coalesce(rec.rerun, ProtocolGap)
           e == StructuralRetry(rm, ep, id)
<1>1. CASE rm.protocol_retry_used
  <2>1. e = Fail(rm, FALSE, ep, id)
    BY <1>1 DEF StructuralRetry
  <2> QED BY <2>1, FailOutcome
<1>2. CASE ~rm.protocol_retry_used
  <2>1. /\ rec \in Scans /\ rec.rerun \in Reasons /\ rec.buffer.dropped \in Nat
        /\ rec.presence \in BOOLEAN /\ rec.replace_timeline \in BOOLEAN
    BY ScanFields
  <2>2. ProtocolGap \in Reasons /\ OverflowDropped(ProtocolGap) = 0 /\ NoReason \in Reasons /\ OverflowDropped(NoReason) = 0
    BY Causes
  <2>3. /\ b \in Rooms
        /\ b = [rm EXCEPT !.pending_loss_notice = rm.pending_loss_notice + o]
        /\ b.pending_loss_notice = rm.pending_loss_notice + o
    BY <2>1, <2>2, Banking
  <2>4. /\ b.known = rm.known /\ b.required_frontier = rm.required_frontier
        /\ b.parked_buffer = rm.parked_buffer /\ b.pending_local_dropped = rm.pending_local_dropped
        /\ b.phase = rec
    BY <2>3 DEF Rooms
  <2>5. /\ o \in Nat /\ OverflowDropped(cause) \in Nat /\ cause \in Reasons
        /\ o + OverflowDropped(cause) = OverflowDropped(rec.rerun) + 0
        /\ OverflowDropped(rec.rerun) \in Nat
    BY <2>1, <2>2, CoalesceLoss, CoalesceIn, ReasonFields
  <2>6. pb \in BOOLEAN /\ pr \in BOOLEAN
    BY <2>1, <2>3, RoomFields
  <2>7. e = Launch(retried, cause, NoPos, ep, id)
    BY <1>2, <2>4 DEF StructuralRetry
  <2> HIDE DEF o, cause, b, pb, pr, e
  <2>8. ph \in Phases /\ ph \in Scans /\ ph.rerun = NoReason /\ ph.tag = rec.tag /\ ph.buffer = rec.buffer
    BY <2>1, <2>2, Reruns
  <2> HIDE DEF ph
  <2>9. /\ retried \in Rooms /\ retried.phase = ph /\ retried.known = rm.known
        /\ retried.required_frontier = rm.required_frontier
        /\ retried.parked_buffer = rm.parked_buffer
        /\ retried.pending_local_dropped = rm.pending_local_dropped
        /\ retried.pending_loss_notice = rm.pending_loss_notice + o
    BY <2>3, <2>4, <2>6, <2>8, ZenonT(60) DEF Rooms
  <2> HIDE DEF retried
  <2>10. IsReconciling(retried)
    BY <2>8, <2>9 DEF IsReconciling
  <2>11. Fit(retried, h) /\ Owed(retried, nm, h)
    BY <2>8, <2>9, <2>10 DEF Fit, Owed
  <2>12. Outcome(e, old, nm, ep, id, h) /\ Held(e.room) + e.told >= Held(retried) + OverflowDropped(cause)
    BY <2>5, <2>7, <2>9, <2>11, LaunchOutcome DEF Cursors
  <2>13. Bag(retried) = Bag(rm) + o
    <3>1. rm.pending_loss_notice \in Nat /\ rm.pending_local_dropped \in Nat /\ rm.parked_buffer.dropped \in Nat
      BY RoomFields
    <3> QED BY <2>5, <2>9, <3>1 DEF Bag
  <2>14. Held(retried) = Bag(retried) + 0 + rec.buffer.dropped
    BY <2>2, <2>8, <2>9, <2>10, Holding
  <2>15. Held(rm) = Bag(rm) + OverflowDropped(rec.rerun) + rec.buffer.dropped /\ Bag(rm) \in Nat
    BY Holding
  <2>16. Held(retried) + OverflowDropped(cause) = Held(rm)
    <3>1. Held(retried) + OverflowDropped(cause) = Bag(rm) + (o + OverflowDropped(cause)) + rec.buffer.dropped
      BY <2>1, <2>5, <2>13, <2>14, <2>15
    <3> QED BY <2>1, <2>5, <2>15, <3>1
  <2> QED BY <2>12, <2>16 DEF e
<1> QED BY <1>1, <1>2

\* A redirect is followed, and the position it names is owed, or the room is parked.
LEMMA BoundedOutcome ==
  ASSUME NEW rm \in Rooms, IsReconciling(rm), NEW from \in Nat,
         NEW ep \in Nat, NEW id \in 0 .. 2, NEW h \in Nat \ {0}, NEW nm \in Int, NEW om \in Int,
         Fit(rm, h), Owed(rm, om, h), NEW old,
         nm = IF IsReconciling(BoundedRestart(rm, from, ep, id).room) /\ from > om THEN from ELSE om
  PROVE  LET e == BoundedRestart(rm, from, ep, id)
         IN  /\ Outcome(e, old, nm, ep, id, h)
             /\ Held(e.room) + e.told >= Held(rm)
<1> DEFINE effective == IF from > Watermark(rm) THEN Watermark(rm) ELSE from
           progress  == effective < rm.phase.baseline_start
           exhausted == IF progress THEN rm.restart_chain >= MaxRestartChain
                                    ELSE rm.restart_retry_used
           spent     == IF progress THEN [rm EXCEPT !.restart_chain = rm.restart_chain + 1]
                                    ELSE [rm EXCEPT !.restart_retry_used = TRUE]
           parked == CoalesceRerun(spent, ByDaemon(from), from)
           e == BoundedRestart(rm, from, ep, id)
<1>1. /\ spent \in Rooms /\ spent.phase = rm.phase /\ spent.known = rm.known
      /\ spent.required_frontier = rm.required_frontier
      /\ spent.parked_buffer = rm.parked_buffer
      /\ spent.pending_local_dropped = rm.pending_local_dropped
      /\ spent.pending_loss_notice = rm.pending_loss_notice
  <2> DEFINE a == [rm EXCEPT !.restart_chain = rm.restart_chain + 1]
             c == [rm EXCEPT !.restart_retry_used = TRUE]
  <2>1. rm.restart_chain + 1 \in Nat
    BY RoomFields
  <2>2. /\ a \in Rooms /\ a.phase = rm.phase /\ a.known = rm.known
        /\ a.required_frontier = rm.required_frontier
        /\ a.parked_buffer = rm.parked_buffer
        /\ a.pending_local_dropped = rm.pending_local_dropped
        /\ a.pending_loss_notice = rm.pending_loss_notice
    BY <2>1 DEF Rooms
  <2>3. /\ c \in Rooms /\ c.phase = rm.phase /\ c.known = rm.known
        /\ c.required_frontier = rm.required_frontier
        /\ c.parked_buffer = rm.parked_buffer
        /\ c.pending_local_dropped = rm.pending_local_dropped
        /\ c.pending_loss_notice = rm.pending_loss_notice
    BY DEF Rooms
  <2>4. spent = a \/ spent = c
    OBVIOUS
  <2> HIDE DEF a, c, spent
  <2> QED BY <2>2, <2>3, <2>4
<1>2. e = IF exhausted THEN Fail(parked, FALSE, ep, id) ELSE Launch(spent, ByDaemon(from), from, ep, id)
  BY DEF BoundedRestart
<1> HIDE DEF spent, exhausted, e
<1>3. Held(spent) = Held(rm) /\ IsReconciling(spent) /\ Fit(spent, h) /\ Owed(spent, om, h)
  BY <1>1 DEF Held, PendingCause, IsReconciling, Fit, Owed
<1>4. from \in Cursors /\ ByDaemon(from) \in Reasons /\ OverflowDropped(ByDaemon(from)) = 0
  BY Causes DEF Cursors
<1>5. nm = IF IsReconciling(e.room) /\ from > om THEN from ELSE om
  BY DEF e
<1>6. CASE exhausted
  <2>1. /\ parked \in Rooms
        /\ parked.phase = [spent.phase EXCEPT !.rerun = Coalesce(spent.phase.rerun, ByDaemon(from))]
        /\ parked.known = spent.known /\ parked.parked_buffer = spent.parked_buffer
        /\ parked.required_frontier = spent.required_frontier
        /\ Held(parked) = Held(spent) + OverflowDropped(ByDaemon(from))
        /\ IsReconciling(parked)
    BY <1>1, <1>3, <1>4, Coalescing
  <2> HIDE DEF parked
  <2>2. parked.phase.buffer = spent.phase.buffer
    <3>1. spent.phase \in Scans /\ spent.phase.rerun \in Reasons
      BY <1>1, <1>3, ScanFields
    <3> QED BY <1>4, <2>1, <3>1, CoalesceIn, Reruns
  <2>3. Fit(parked, h) /\ Owed(parked, om, h)
    BY <1>3, <2>1, <2>2 DEF Fit, Owed
  <2>4. e = Fail(parked, FALSE, ep, id)
    BY <1>2, <1>6
  <2>5. Outcome(e, old, om, ep, id, h) /\ Held(e.room) + e.told >= Held(parked) /\ ~IsReconciling(e.room)
    BY <2>1, <2>3, <2>4, FailOutcome
  <2>6. nm = om
    BY <1>5, <2>5
  <2>7. Held(parked) = Held(rm)
    <3>1. Held(rm) \in Nat
      BY Holding
    <3> QED BY <1>3, <1>4, <2>1, <3>1
  <2> QED BY <2>5, <2>6, <2>7 DEF e
<1>7. CASE ~exhausted
  <2>1. e = Launch(spent, ByDaemon(from), from, ep, id)
    BY <1>2, <1>7
  <2>2. Owed(spent, nm, h) \/ nm <= from
    <3>1. nm = om \/ nm = from
      BY <1>5
    <3> QED BY <1>3, <3>1
  <2>3. Outcome(e, old, nm, ep, id, h) /\ Held(e.room) + e.told >= Held(spent) + OverflowDropped(ByDaemon(from))
    BY <1>1, <1>3, <1>4, <2>1, <2>2, LaunchOutcome
  <2>4. Held(spent) + OverflowDropped(ByDaemon(from)) = Held(rm)
    <3>1. Held(rm) \in Nat
      BY Holding
    <3> QED BY <1>3, <1>4, <3>1
  <2> QED BY <2>3, <2>4 DEF e
<1> QED BY <1>6, <1>7

\* apply_membership_event changes the roster alone.
LEMMA Folding ==
  ASSUME NEW rm \in Rooms, NEW id \in Nat
  PROVE  Fold(rm, id) \in Rooms /\ Kin(Fold(rm, id), rm) /\ Fold(rm, id).known = rm.known
<1>1. rm.roster \in SUBSET Nat
  BY DEF Rooms
<1> DEFINE a == [rm EXCEPT !.presence_refresh_pending = TRUE]
           c == [rm EXCEPT !.roster = rm.roster \cup {id}]
<1>2. a \in Rooms /\ Kin(a, rm) /\ a.known = rm.known
  BY DEF Rooms, Kin
<1>3. rm.roster \cup {id} \in SUBSET Nat
  BY <1>1
<1>4. c \in Rooms /\ Kin(c, rm) /\ c.known = rm.known
  BY <1>3 DEF Rooms, Kin
<1>5. Fold(rm, id) = rm \/ Fold(rm, id) = a \/ Fold(rm, id) = c
  BY DEF Fold
<1> HIDE DEF a, c
<1>6. Kin(rm, rm)
  BY DEF Kin
<1> QED BY <1>2, <1>4, <1>5, <1>6

\* Trimming changes the window alone.
LEMMA Trimming ==
  ASSUME NEW rm \in Rooms
  PROVE  Trimmed(rm) \in Rooms /\ Kin(Trimmed(rm), rm) /\ Trimmed(rm).known = rm.known
<1> DEFINE l == IF rm.lo < Len(rm.known) - TimelineDepth THEN Len(rm.known) - TimelineDepth ELSE rm.lo
<1>1. l \in Int
  BY RoomFields, RoomAssumption
<1>2. Trimmed(rm) = [rm EXCEPT !.lo = l]
  BY DEF Trimmed
<1> HIDE DEF l
<1> QED BY <1>1, <1>2 DEF Rooms, Kin

\* One more event at the end of the history.
LEMMA Growing ==
  ASSUME NEW rm \in Rooms, NEW id \in Nat
  PROVE  /\ Grown(rm, id) \in Rooms /\ Kin(Grown(rm, id), rm)
         /\ Grown(rm, id).known = Append(rm.known, id)
<1> DEFINE f == Fold(rm, id)
           g == [f EXCEPT !.known = Append(f.known, id)]
<1>1. f \in Rooms /\ Kin(f, rm) /\ f.known = rm.known
  BY Folding
<1> HIDE DEF f
<1>2. Append(f.known, id) \in Seq(Nat)
  BY <1>1, RoomFields
<1>3. g \in Rooms /\ Kin(g, f) /\ g.known = Append(f.known, id)
  BY <1>1, <1>2 DEF Rooms, Kin
<1>4. Grown(rm, id) = Trimmed(g)
  BY DEF Grown, f
<1> HIDE DEF g
<1>5. Trimmed(g) \in Rooms /\ Kin(Trimmed(g), g) /\ Trimmed(g).known = g.known
  BY <1>3, Trimming
<1> QED BY <1>1, <1>3, <1>4, <1>5 DEF Kin

\* A dispute changes what is read again alone.
LEMMA Disputing ==
  ASSUME NEW rm \in Rooms, NEW p \in Nat
  PROVE  /\ DisputePosition(rm, p) \in Rooms /\ Kin(DisputePosition(rm, p), rm)
         /\ DisputePosition(rm, p).known = rm.known
<1>1. CASE p = 0
  <2>1. DisputePosition(rm, p) = [rm EXCEPT !.pending_bootstrap = TRUE]
    BY <1>1 DEF DisputePosition
  <2> QED BY <2>1 DEF Rooms, Kin
<1>2. CASE p # 0
  <2> DEFINE low == Lower(rm.pending_gap_from, p - 1)
  <2>1. p - 1 \in Cursors
    BY <1>2 DEF Cursors
  <2>2. low \in Cursors
    BY <2>1, RoomFields, Lowest
  <2>3. DisputePosition(rm, p) = [rm EXCEPT !.pending_gap_from = low]
    BY <1>2 DEF DisputePosition
  <2> HIDE DEF low
  <2> QED BY <2>2, <2>3 DEF Rooms, Kin
<1> QED BY <1>1, <1>2

\* The queue a sort leaves.
LEMMA Sorted ==
  ASSUME NEW q \in Seq(Pushes), NEW h \in Int, Below(q, h)
  PROVE  ByPosition(q) \in Seq({e \in Pushes : e.pos < h})
<1> DEFINE T == {e \in Pushes : e.pos < h}
<1>1. q \in Seq(T)
  <2>1. ASSUME NEW i \in 1 .. Len(q) PROVE q[i] \in T
    <3>1. q[i] \in Pushes
      OBVIOUS
    <3>2. q[i].type = "event" /\ i \in DOMAIN q
      BY <3>1 DEF Pushes
    <3> QED BY <3>1, <3>2 DEF Below
  <2> HIDE DEF T
  <2>2. Len(q) \in Nat /\ q = [i \in 1 .. Len(q) |-> q[i]]
    OBVIOUS
  <2> QED BY <2>1, <2>2, IsASeq
<1> HIDE DEF T
<1>2. \A s \in Seq(T) : \A e \in T : Place(s, e) \in Seq(T)
  <2> SUFFICES ASSUME NEW s \in Seq(T), NEW e \in T PROVE Place(s, e) \in Seq(T)
    OBVIOUS
  <2> DEFINE K == {i \in DOMAIN s : s[i].pos <= e.pos}
             k == Cardinality(K)
  <2>1. K \subseteq 1 .. Len(s) /\ Len(s) \in Nat
    OBVIOUS
  <2>2. IsFiniteSet(1 .. Len(s)) /\ Cardinality(1 .. Len(s)) = Len(s)
    <3>1. 1 \in Int /\ Len(s) \in Int
      OBVIOUS
    <3>2. /\ IsFiniteSet(1 .. Len(s))
          /\ Cardinality(1 .. Len(s)) = IF 1 > Len(s) THEN 0 ELSE Len(s) - 1 + 1
      BY <3>1, FS_Interval
    <3>3. (IF 1 > Len(s) THEN 0 ELSE Len(s) - 1 + 1) = Len(s)
      BY <2>1
    <3> QED BY <3>2, <3>3
  <2> HIDE DEF K
  <2>3. k \in Nat /\ k <= Len(s)
    BY <2>1, <2>2, FS_Subset, FS_CardinalityType
  <2>4. Place(s, e) = SubSeq(s, 1, k) \o <<e>> \o SubSeq(s, k + 1, Len(s))
    BY DEF Place, K
  <2> HIDE DEF k
  <2>5. SubSeq(s, 1, k) \in Seq(T) /\ SubSeq(s, k + 1, Len(s)) \in Seq(T)
    <3>1. 1 \in 1 .. Len(s) + 1 /\ k \in 0 .. Len(s) /\ k + 1 \in 1 .. Len(s) + 1 /\ Len(s) \in k .. Len(s)
      BY <2>1, <2>3
    <3> QED BY <3>1, <2>3, SubSeqProperties
  <2> QED BY <2>4, <2>5
<1>3. ByPosition(q) \in Seq(T)
  <2>1. <<>> \in Seq(T)
    OBVIOUS
  <2> QED BY <1>1, <1>2, <2>1, ByPositionIn
<1> QED BY <1>3 DEF T

\* The buffered pushes replayed on a room.
LEMMA Replaying ==
  ASSUME NEW rm \in Rooms, NEW h \in Nat, Len(rm.known) <= h,
         NEW q \in Seq({e \in Pushes : e.pos < h})
  PROVE  LET a == ApplyOrdered(rm, q)
         IN  /\ a.room \in Rooms /\ a.stop \in BOOLEAN /\ Kin(a.room, rm)
             /\ Len(a.room.known) <= h /\ Len(a.room.known) >= Len(rm.known)
<1> DEFINE S == {x \in [room : Rooms, stop : BOOLEAN] :
                   /\ Kin(x.room, rm)
                   /\ Len(x.room.known) <= h /\ Len(x.room.known) >= Len(rm.known)}
           T == {e \in Pushes : e.pos < h}
           b == [room |-> rm, stop |-> FALSE]
<1>1. b \in S
  BY DEF Kin, Rooms
<1>2. ASSUME NEW x \in S, NEW e \in T PROVE ApplyOne(x, e) \in S
  <2>1. x \in [room : Rooms, stop : BOOLEAN] /\ Kin(x.room, rm) /\ Len(x.room.known) <= h /\ Len(x.room.known) >= Len(rm.known)
    OBVIOUS
  <2>2. e \in Pushes /\ e.pos < h /\ e.pos \in Nat /\ e.id \in Nat
    BY DEF Pushes
  <2>3. x.room \in Rooms /\ x.stop \in BOOLEAN
    BY <2>1
  <2>4. x.room.known \in Seq(Nat) /\ Watermark(x.room) = Len(x.room.known) - 1 /\ Len(x.room.known) \in Nat
    BY <2>3, RoomFields DEF Watermark
  <2> DEFINE d == DisputePosition(x.room, e.pos)
             g == Grown(x.room, e.id)
  <2>5. d \in Rooms /\ Kin(d, x.room) /\ d.known = x.room.known
    BY <2>2, <2>3, Disputing
  <2>6. g \in Rooms /\ Kin(g, x.room) /\ g.known = Append(x.room.known, e.id)
    BY <2>2, <2>3, Growing
  <2>7. Kin(d, rm) /\ Kin(g, rm)
    BY <2>1, <2>5, <2>6 DEF Kin
  <2> HIDE DEF d, g
  <2>8. \/ ApplyOne(x, e) = x
        \/ ApplyOne(x, e) = [room |-> d, stop |-> TRUE]
        \/ ApplyOne(x, e) = [x EXCEPT !.stop = TRUE]
        \/ e.pos = Watermark(x.room) + 1 /\ ApplyOne(x, e) = [x EXCEPT !.room = g]
    BY <2>2, <2>3, <2>4 DEF ApplyOne, d, g
  <2>9. CASE ApplyOne(x, e) = [room |-> d, stop |-> TRUE]
    <3>1. ApplyOne(x, e).room = d /\ ApplyOne(x, e) \in [room : Rooms, stop : BOOLEAN]
      BY <2>5, <2>9
    <3> QED BY <2>1, <2>5, <2>7, <3>1
  <2>10. CASE ApplyOne(x, e) = [x EXCEPT !.stop = TRUE]
    <3>1. ApplyOne(x, e).room = x.room /\ ApplyOne(x, e) \in [room : Rooms, stop : BOOLEAN]
      BY <2>1, <2>10
    <3> QED BY <2>1, <3>1
  <2>11. CASE e.pos = Watermark(x.room) + 1 /\ ApplyOne(x, e) = [x EXCEPT !.room = g]
    <3>1. ApplyOne(x, e).room = g /\ ApplyOne(x, e) \in [room : Rooms, stop : BOOLEAN]
      BY <2>1, <2>6, <2>11
    <3>2. Len(g.known) = Len(x.room.known) + 1
      BY <2>2, <2>4, <2>6
    <3>3. Len(rm.known) \in Nat
      BY RoomFields
    <3>4. Len(g.known) <= h /\ Len(g.known) >= Len(rm.known)
      BY <2>1, <2>2, <2>4, <2>11, <3>2, <3>3
    <3> QED BY <2>7, <3>1, <3>4
  <2> QED BY <2>8, <2>9, <2>10, <2>11
<1>3. ApplyOrdered(rm, q) \in S
  <2> HIDE DEF S, T
  <2>1. q \in Seq(T)
    BY DEF T
  <2> QED BY <1>1, <1>2, <2>1, ApplyOrderedIn
<1> QED BY <1>3

\* The baseline that was read.
LEMMA Baselining ==
  ASSUME NEW rm \in Rooms, IsReconciling(rm), NEW h \in Nat, Within(rm, h),
         ~(rm.phase.replace_timeline /\ rm.phase.scan = <<>>)
  PROVE  LET a == Baselined(rm)
         IN  /\ a \in Rooms /\ Kin(a, rm)
             /\ Len(a.known) = Reach(rm) + 1 /\ Len(a.known) <= h
<1> DEFINE rec == rm.phase
           tail == IF Len(rec.scan) > TimelineDepth
                   THEN SubSeq(rec.scan, Len(rec.scan) - TimelineDepth + 1, Len(rec.scan))
                   ELSE rec.scan
           folded == FoldOver(Fold, rm, tail)
           history == IF rec.replace_timeline THEN rec.scan ELSE rm.known \o rec.scan
           l == IF rec.replace_timeline THEN 0 ELSE folded.lo
           f2 == [folded EXCEPT !.known = history, !.lo = l]
           grown == IF rec.scan = <<>> THEN rm ELSE Trimmed(f2)
           stale == \/ grown.presence_refresh_pending
                    \/ rec.buffer.dropped > 0
                    \/ IdsOf(rec.scan) \cap Membership # {}
<1>1. /\ rec \in Scans /\ rec.scan \in Seq(Nat) /\ Len(rec.scan) \in Nat /\ rec.replace_timeline \in BOOLEAN
      /\ rm.known \in Seq(Nat) /\ Len(rm.known) \in Nat
  BY ScanFields, RoomFields
<1>2. tail \in Seq(Nat)
  <2>1. CASE Len(rec.scan) > TimelineDepth
    <3> DEFINE n == Len(rec.scan)
               m == n - TimelineDepth + 1
    <3>0. m \in Int /\ n \in Int /\ m >= 1
      BY <1>1, <2>1, RoomAssumption
    <3>1. m \in Int /\ n \in Int /\ \A i \in m .. n : rec.scan[i] \in Nat
      <4>1. \A i \in 1 .. n : rec.scan[i] \in Nat
        BY <1>1
      <4> HIDE DEF m, n, rec
      <4> QED BY <3>0, <4>1
    <3> HIDE DEF m, n
    <3>2. SubSeq(rec.scan, m, n) \in Seq(Nat)
      BY <3>1, SubSeqProperties
    <3> QED BY <2>1, <3>2 DEF m, n
  <2> QED BY <1>1, <2>1
<1> HIDE DEF tail
<1>3. folded \in Rooms /\ Kin(folded, rm) /\ folded.known = rm.known
  <2> DEFINE S == {x \in Rooms : Kin(x, rm) /\ x.known = rm.known}
  <2>1. rm \in S
    BY DEF Kin
  <2>2. \A x \in S : \A i \in Nat : Fold(x, i) \in S
    BY Folding DEF Kin
  <2>3. folded \in S
    <3> HIDE DEF S
    <3> QED BY <1>2, <2>1, <2>2, FoldOverIn
  <2> QED BY <2>3
<1> HIDE DEF folded
<1>4. history \in Seq(Nat) /\ Len(history) = Reach(rm) + 1
  <2>1. CASE rec.replace_timeline
    <3>1. history = rec.scan
      BY <2>1
    <3> QED BY <1>1, <2>1, <3>1 DEF Reach
  <2>2. CASE ~rec.replace_timeline
    <3>1. history = rm.known \o rec.scan
      BY <2>2
    <3>2. Len(rm.known \o rec.scan) = Len(rm.known) + Len(rec.scan) /\ rm.known \o rec.scan \in Seq(Nat)
      BY <1>1
    <3>3. Reach(rm) = Len(rm.known) - 1 + Len(rec.scan)
      BY <2>2 DEF Reach, Watermark
    <3> HIDE DEF history
    <3>4. Len(history) = Len(rm.known) + Len(rec.scan)
      BY <3>1, <3>2
    <3> QED BY <1>1, <3>1, <3>2, <3>3, <3>4
  <2> QED BY <2>1, <2>2
<1> HIDE DEF history
<1>5. l \in Int
  BY <1>3, RoomFields
<1> HIDE DEF l
<1>6. f2 \in Rooms /\ Kin(f2, rm) /\ f2.known = history
  <2>1. f2 \in Rooms /\ Kin(f2, folded) /\ f2.known = history
    BY <1>3, <1>4, <1>5 DEF Rooms, Kin
  <2> HIDE DEF f2
  <2> QED BY <1>3, <2>1 DEF Kin
<1> HIDE DEF f2
<1>7. grown \in Rooms /\ Kin(grown, rm) /\ Len(grown.known) = Reach(rm) + 1
  <2>1. CASE rec.scan = <<>>
    <3>1. grown = rm /\ ~rec.replace_timeline /\ Len(rec.scan) = 0
      BY <2>1
    <3>2. Reach(rm) + 1 = Len(rm.known)
      BY <1>1, <3>1 DEF Reach, Watermark
    <3> HIDE DEF grown
    <3> QED BY <3>1, <3>2 DEF Kin
  <2>2. CASE rec.scan # <<>>
    <3>1. grown = Trimmed(f2)
      BY <2>2
    <3>2. Trimmed(f2) \in Rooms /\ Kin(Trimmed(f2), f2) /\ Trimmed(f2).known = f2.known
      BY <1>6, Trimming
    <3> HIDE DEF grown
    <3> QED BY <1>4, <1>6, <3>1, <3>2 DEF Kin
  <2> QED BY <2>1, <2>2
<1>8. rec.members \in Seq(SUBSET Nat)
  BY <1>1 DEF Scans
<1> DEFINE a1 == [grown EXCEPT !.presence_refresh_pending = stale]
           a2 == [grown EXCEPT !.presence_refresh_pending = FALSE, !.roster = rec.members[1]]
<1>9. Baselined(rm) = IF rec.members = <<>> THEN a1 ELSE a2
  BY DEF Baselined, tail, folded, history, l, f2
<1>10. stale \in BOOLEAN
  BY <1>7, RoomFields
<1> HIDE DEF grown, stale
<1>11. a1 \in Rooms /\ Kin(a1, grown) /\ a1.known = grown.known
  BY <1>7, <1>10 DEF Rooms, Kin
<1>12. ASSUME rec.members # <<>> PROVE a2 \in Rooms /\ Kin(a2, grown) /\ a2.known = grown.known
  <2>1. rec.members[1] \in SUBSET Nat
    BY <1>8, <1>12
  <2> QED BY <1>7, <2>1 DEF Rooms, Kin
<1> HIDE DEF a1, a2
<1>13. Baselined(rm) \in Rooms /\ Kin(Baselined(rm), grown) /\ Baselined(rm).known = grown.known
  BY <1>9, <1>11, <1>12
<1>14. Reach(rm) < h /\ Reach(rm) \in Int
  <2>1. Reach(rm) \in Int
    BY <1>1 DEF Reach, Watermark
  <2> QED BY <2>1 DEF Within
<1>15. Reach(rm) + 1 <= h
  BY <1>14
<1> QED BY <1>7, <1>13, <1>15 DEF Kin

\* After the commit.
LEMMA ConcludeOutcome ==
  ASSUME NEW rm \in Rooms, IsConverged(rm), NEW rerun \in Reasons, NEW replaced \in BOOLEAN,
         NEW ep \in Nat, NEW id \in 0 .. 2, NEW h \in Nat \ {0}, NEW nm \in Int,
         Fit(rm, h), nm <= rm.required_frontier \/ nm <= Watermark(rm), NEW old
  PROVE  LET e == Conclude(rm, rerun, replaced, ep, id)
         IN  /\ Outcome(e, old, nm, ep, id, h)
             /\ Held(e.room) + e.told >= Held(rm) + OverflowDropped(rerun)
<1> DEFINE e == Conclude(rm, rerun, replaced, ep, id)
           frontier == rm.required_frontier
           chase    == GapTo(frontier)
           reached  == [rm EXCEPT !.required_frontier = NoPos, !.frontier_retry_used = FALSE]
<1>1. /\ frontier \in Cursors /\ frontier \in Int /\ Watermark(rm) \in Int /\ rm.known \in Seq(Nat)
      /\ Len(rm.known) \in Nat /\ Held(rm) \in Nat /\ Bag(rm) \in Nat
      /\ rm.pending_loss_notice \in Nat /\ rm.pending_local_dropped \in Nat /\ rm.parked_buffer.dropped \in Nat
  <2>1. Held(rm) \in Nat /\ Bag(rm) \in Nat
    BY Holding
  <2>2. /\ frontier \in Cursors /\ frontier \in Int /\ Watermark(rm) \in Int /\ rm.known \in Seq(Nat)
        /\ rm.pending_loss_notice \in Nat /\ rm.pending_local_dropped \in Nat /\ rm.parked_buffer.dropped \in Nat
    BY RoomFields
  <2> QED BY <2>1, <2>2
<1>2. chase \in Reasons /\ OverflowDropped(chase) = 0 /\ NoPos \in Cursors
      /\ ProtocolGap \in Reasons /\ OverflowDropped(ProtocolGap) = 0 /\ OverflowDropped(NoReason) = 0
  BY <1>1, Causes DEF Cursors
<1>3. Watermark(rm) < h
  BY <1>1 DEF Fit, Watermark
<1>4. Owed(rm, nm, h)
  BY <1>1, <1>3 DEF Owed
<1>5. ~IsReconciling(rm)
  BY DEF IsConverged, IsReconciling
<1>6. Held(rm) = Bag(rm)
  BY <1>1, <1>2, <1>5, Holding
<1>7. CASE rerun # NoReason
  <2>1. e = Launch(rm, rerun, NoPos, ep, id)
    BY <1>7 DEF Conclude
  <2> QED BY <1>2, <1>4, <2>1, LaunchOutcome
<1>8. CASE rerun = NoReason /\ Watermark(rm) < frontier
  <2>1. CASE rm.frontier_retry_used
    <3> DEFINE left == [rm EXCEPT !.phase = Parked(chase)]
    <3>1. e = Settled(left)
      BY <1>1, <1>8, <2>1 DEF Conclude
    <3>2. Parked(chase) \in Phases
      BY <1>2, ParkedIn
    <3>3. /\ left \in Rooms /\ left.phase = Parked(chase) /\ left.known = rm.known
          /\ left.parked_buffer = rm.parked_buffer /\ left.required_frontier = rm.required_frontier
          /\ Bag(left) = Bag(rm)
      BY <3>2, Rephased
    <3> HIDE DEF left
    <3>4. Fit(left, h) /\ Owed(left, nm, h)
      BY <1>4, <3>3 DEF Fit, Owed, Parked, IsReconciling
    <3>5. /\ Outcome(Settled(left), old, nm, ep, id, h)
          /\ Settled(left).room = left /\ Settled(left).told = 0
          /\ Held(left) = Bag(left) + OverflowDropped(chase)
      BY <1>2, <3>3, <3>4, ParkedOutcome
    <3>6. Held(left) + 0 >= Held(rm) + OverflowDropped(rerun)
      BY <1>1, <1>2, <1>6, <1>8, <3>3, <3>5
    <3> QED BY <3>1, <3>5, <3>6
  <2>2. CASE ~rm.frontier_retry_used
    <3> DEFINE r2 == [rm EXCEPT !.frontier_retry_used = TRUE]
               la == Launch(r2, chase, NoPos, ep, id)
    <3>1. e = la
      BY <1>1, <1>8, <2>2 DEF Conclude
    <3>2. /\ r2 \in Rooms /\ r2.known = rm.known /\ r2.phase = rm.phase
          /\ r2.parked_buffer = rm.parked_buffer /\ r2.required_frontier = rm.required_frontier
          /\ r2.pending_local_dropped = rm.pending_local_dropped
          /\ r2.pending_loss_notice = rm.pending_loss_notice
      BY DEF Rooms
    <3> HIDE DEF r2
    <3>3. Fit(r2, h) /\ Owed(r2, nm, h) /\ Held(r2) = Held(rm)
      BY <1>4, <3>2 DEF Fit, Owed, IsReconciling, Held, PendingCause
    <3>4. Outcome(la, old, nm, ep, id, h) /\ Held(la.room) + la.told >= Held(r2) + OverflowDropped(chase)
      BY <1>2, <3>2, <3>3, LaunchOutcome
    <3> QED BY <1>2, <1>8, <3>1, <3>3, <3>4
  <2> QED BY <2>1, <2>2
<1>9. CASE rerun = NoReason /\ ~(Watermark(rm) < frontier)
  <2>1. Watermark(rm) >= frontier /\ nm <= Watermark(rm) /\ nm < h
    BY <1>1, <1>3, <1>9
  <2>2. /\ reached \in Rooms /\ reached.known = rm.known /\ reached.phase = rm.phase
        /\ reached.parked_buffer = rm.parked_buffer
        /\ reached.pending_local_dropped = rm.pending_local_dropped
        /\ reached.pending_loss_notice = rm.pending_loss_notice
    BY <1>2 DEF Rooms
  <2> HIDE DEF reached
  <2>3. CASE ~replaced /\ rm.lo > Watermark(rm)
    <3> DEFINE r2 == [reached EXCEPT !.pending_bootstrap = TRUE]
               la == Launch(r2, ProtocolGap, NoPos, ep, id)
    <3>1. e = la
      BY <1>9, <2>1, <2>3 DEF Conclude, reached
    <3>2. /\ r2 \in Rooms /\ r2.known = rm.known /\ r2.phase = rm.phase
          /\ r2.parked_buffer = rm.parked_buffer
          /\ r2.pending_local_dropped = rm.pending_local_dropped
          /\ r2.pending_loss_notice = rm.pending_loss_notice
      BY <2>2 DEF Rooms
    <3> HIDE DEF r2
    <3>3. Fit(r2, h) /\ Owed(r2, nm, h) /\ Held(r2) = Held(rm)
      BY <2>1, <3>2 DEF Fit, Owed, IsReconciling, Held, PendingCause
    <3>4. Outcome(la, old, nm, ep, id, h) /\ Held(la.room) + la.told >= Held(r2) + OverflowDropped(ProtocolGap)
      BY <1>2, <3>2, <3>3, LaunchOutcome
    <3> QED BY <1>2, <1>9, <3>1, <3>3, <3>4
  <2>4. CASE ~(~replaced /\ rm.lo > Watermark(rm))
    <3> DEFINE r2 == [reached EXCEPT !.pending_loss_notice = 0]
    <3>1. e = Publishing(reached)
      BY <1>9, <2>1, <2>4 DEF Conclude, reached
    <3>2. /\ r2 \in Rooms /\ r2.known = rm.known /\ r2.phase = rm.phase
          /\ r2.parked_buffer = rm.parked_buffer
          /\ r2.pending_local_dropped = rm.pending_local_dropped
          /\ r2.pending_loss_notice = 0
      BY <2>2 DEF Rooms
    <3>3. e = [Settled(r2) EXCEPT !.told = reached.pending_loss_notice]
      BY <3>1 DEF Publishing
    <3> HIDE DEF r2, e
    <3>4. e.room = r2 /\ e.issue = <<>> /\ e.told = rm.pending_loss_notice
      BY <2>2, <3>3, Effects
    <3>5. IsConverged(r2) /\ ~IsReconciling(r2) /\ Watermark(r2) = Watermark(rm)
      BY <1>5, <3>2 DEF IsConverged, IsReconciling, Watermark
    <3>6. Within(r2, h) /\ Continues(r2) /\ Named(r2, nm, h)
      BY <2>1, <3>2, <3>5 DEF Within, Continues, Named, Fit
    <3>7. Outcome(e, old, nm, ep, id, h)
      BY <1>1, <3>2, <3>4, <3>5, <3>6 DEF Outcome
    <3>8. Held(r2) = Bag(r2)
      <4>1. Bag(r2) \in Nat
        BY <3>2, Holding
      <4> QED BY <1>2, <3>2, <3>5, <4>1, Holding
    <3>9. Bag(r2) + rm.pending_loss_notice = Bag(rm)
      BY <1>1, <3>2 DEF Bag
    <3>10. Held(e.room) + e.told >= Held(rm) + OverflowDropped(rerun)
      BY <1>1, <1>2, <1>6, <1>9, <3>4, <3>8, <3>9
    <3> QED BY <3>7, <3>10 DEF e
  <2> QED BY <2>3, <2>4
<1> QED BY <1>7, <1>8, <1>9

\* The replay of the buffer, and the conclusion of the reconciliation.
LEMMA ReplayedOutcome ==
  ASSUME NEW live, live.room \in Rooms, live.stop \in BOOLEAN, NEW rerun \in Reasons, NEW replaced \in BOOLEAN,
         NEW ep \in Nat, NEW id \in 0 .. 2, NEW h \in Nat \ {0}, NEW nm \in Int,
         Len(live.room.known) <= h, Below(live.room.parked_buffer.q, h),
         nm <= live.room.required_frontier \/ nm <= Watermark(live.room), NEW old
  PROVE  LET e == Replayed(live, rerun, replaced, ep, id)
         IN  /\ Outcome(e, old, nm, ep, id, h)
             /\ Held(e.room) + e.told >= Bag(live.room) + OverflowDropped(rerun)
<1> DEFINE l == live.room
           cause == IF live.stop THEN Coalesce(rerun, ProtocolGap) ELSE rerun
           o == Outranked(rerun, ProtocolGap)
           b == Banked(l, rerun, ProtocolGap)
           st  == IF live.stop THEN b ELSE l
           r2 == [st EXCEPT !.protocol_retry_used = FALSE, !.restart_chain = 0,
                              !.restart_retry_used = FALSE,
                              !.pending_bootstrap = FALSE, !.phase = Converged]
           c2 == IF cause = NoReason /\ l.presence_refresh_pending THEN ProtocolGap ELSE cause
           e == Conclude(r2, c2, replaced, ep, id)
<1>1. ProtocolGap \in Reasons /\ OverflowDropped(ProtocolGap) = 0 /\ OverflowDropped(NoReason) = 0 /\ NoReason \in Reasons
  BY Causes
<1>2. /\ b \in Rooms /\ b = [l EXCEPT !.pending_loss_notice = l.pending_loss_notice + o]
      /\ b.pending_loss_notice = l.pending_loss_notice + o
  BY <1>1, Banking, ZenonT(60)
<1>3. /\ o \in Nat /\ OverflowDropped(Coalesce(rerun, ProtocolGap)) \in Nat
      /\ o + OverflowDropped(Coalesce(rerun, ProtocolGap)) = OverflowDropped(rerun) + 0
      /\ OverflowDropped(rerun) \in Nat /\ Coalesce(rerun, ProtocolGap) \in Reasons
  BY <1>1, CoalesceLoss, CoalesceIn, ReasonFields
<1> HIDE DEF o
<1>4. /\ l.pending_loss_notice \in Nat /\ l.pending_local_dropped \in Nat /\ l.parked_buffer.dropped \in Nat
  BY RoomFields
<1>5. /\ b.known = l.known /\ b.parked_buffer = l.parked_buffer /\ b.required_frontier = l.required_frontier
      /\ Bag(b) = Bag(l) + o /\ Bag(l) \in Nat
  <2>1. /\ b.known = l.known /\ b.parked_buffer = l.parked_buffer /\ b.required_frontier = l.required_frontier
        /\ b.pending_local_dropped = l.pending_local_dropped
    BY <1>2 DEF Rooms
  <2>2. b.pending_loss_notice = l.pending_loss_notice + o /\ o \in Nat
    BY <1>2, <1>3
  <2> HIDE DEF b, l
  <2>3. Bag(b) = Bag(l) + o /\ Bag(l) \in Nat
    BY <1>4, <2>1, <2>2, SMTT(30) DEF Bag
  <2> QED BY <2>1, <2>3
<1> HIDE DEF b
<1>6. /\ st \in Rooms /\ st.known = l.known /\ st.parked_buffer = l.parked_buffer
      /\ st.required_frontier = l.required_frontier
      /\ cause \in Reasons
      /\ Bag(st) + OverflowDropped(cause) = Bag(l) + OverflowDropped(rerun)
  <2>1. CASE live.stop
    <3>1. st = b /\ cause = Coalesce(rerun, ProtocolGap)
      BY <2>1
    <3>2. Bag(b) + OverflowDropped(cause) = Bag(l) + (o + OverflowDropped(cause))
      BY <1>3, <1>5, <3>1
    <3> HIDE DEF st, cause, l
    <3> QED BY <1>2, <1>3, <1>5, <3>1, <3>2
  <2>2. CASE ~live.stop
    BY <2>2
  <2> QED BY <2>1, <2>2
<1> HIDE DEF st, cause
<1>7. /\ r2 \in Rooms /\ r2.phase = Converged /\ r2.known = l.known /\ r2.parked_buffer = l.parked_buffer
      /\ r2.required_frontier = l.required_frontier /\ Bag(r2) = Bag(st)
  <2>1. Converged \in Phases
    BY DEF Phases
  <2> HIDE DEF l
  <2> QED BY <1>6, <2>1 DEF Rooms, Bag
<1> HIDE DEF r2
<1>8. c2 \in Reasons /\ OverflowDropped(c2) = OverflowDropped(cause)
  BY <1>1, <1>6
<1> HIDE DEF c2
<1>9. IsConverged(r2) /\ ~IsReconciling(r2)
  BY <1>7 DEF Converged, IsConverged, IsReconciling
<1>10. Fit(r2, h)
  BY <1>7, <1>9 DEF Fit
<1>11. nm <= r2.required_frontier \/ nm <= Watermark(r2)
  BY <1>7 DEF Watermark
<1>12. Outcome(e, old, nm, ep, id, h) /\ Held(e.room) + e.told >= Held(r2) + OverflowDropped(c2)
  BY <1>7, <1>8, <1>9, <1>10, <1>11, ConcludeOutcome
<1>13. Held(r2) = Bag(r2)
  <2>1. Bag(r2) \in Nat
    BY <1>7, Holding
  <2> QED BY <1>1, <1>7, <1>9, <2>1, Holding
<1>14. Replayed(live, rerun, replaced, ep, id) = e
  BY DEF Replayed, st, cause, r2, c2, b
<1> QED BY <1>6, <1>7, <1>8, <1>12, <1>13, <1>14

\* RoomState::converge, when everything has been read up to every position named.
LEMMA ConvergeOutcome ==
  ASSUME NEW rm \in Rooms, IsReconciling(rm),
         NEW ep \in Nat, NEW id \in 0 .. 2, NEW h \in Nat \ {0}, NEW nm \in Int,
         Within(rm, h), nm <= rm.required_frontier \/ nm <= Reach(rm), NEW old
  PROVE  LET e == Converge(rm, rm.phase, ep, id)
         IN  /\ Outcome(e, old, nm, ep, id, h)
             /\ Held(e.room) + e.told >= Held(rm)
<1> DEFINE rec == rm.phase
           lost == rec.buffer.dropped
           e == Converge(rm, rec, ep, id)
<1>1. /\ rec \in Scans /\ rec.rerun \in Reasons /\ rec.buffer \in Buffers /\ lost \in Nat
      /\ rec.buffer.q \in Seq(Pushes) /\ rec.scan \in Seq(Nat) /\ Len(rec.scan) \in Nat
      /\ rec.presence \in BOOLEAN /\ rec.replace_timeline \in BOOLEAN
  BY ScanFields
<1>2. /\ rm.pending_bootstrap \in BOOLEAN /\ rm.presence_refresh_pending \in BOOLEAN
      /\ rm.known \in Seq(Nat) /\ Len(rm.known) \in Nat /\ rm.required_frontier \in Int
  BY RoomFields
<1>3. h \in Nat /\ h \in Int /\ h >= 1
  OBVIOUS
<1>4. Reach(rm) \in Int /\ Reach(rm) < h
  <2>1. Reach(rm) \in Int
    BY <1>1, <1>2 DEF Reach, Watermark
  <2> QED BY <2>1 DEF Within
<1>5. Fit(rm, h) /\ Owed(rm, nm, h)
  BY <1>2, <1>4 DEF Within, Fit, Owed
<1>6. Held(rm) = Bag(rm) + OverflowDropped(rec.rerun) + lost /\ Bag(rm) \in Nat /\ OverflowDropped(rec.rerun) \in Nat
  BY <1>1, Holding, ReasonFields
<1>7. CASE rm.pending_bootstrap
  <2> DEFINE pr == rm.presence_refresh_pending \/ rec.presence
             ph == [rec EXCEPT !.rerun = NoReason]
             sup == [rm EXCEPT !.presence_refresh_pending = pr, !.phase = ph]
             why == IF rec.rerun = NoReason THEN Bootstrap ELSE rec.rerun
             la == Launch(sup, why, NoPos, ep, id)
  <2>1. e = la
    BY <1>7 DEF Converge
  <2>2. why \in Reasons /\ OverflowDropped(why) = OverflowDropped(rec.rerun) /\ NoReason \in Reasons /\ OverflowDropped(NoReason) = 0
    BY <1>1, Causes
  <2> HIDE DEF why
  <2>3. ph \in Phases /\ ph \in Scans /\ ph.rerun = NoReason /\ ph.tag = rec.tag /\ ph.buffer = rec.buffer
    BY <1>1, <2>2, Reruns
  <2> HIDE DEF ph
  <2>4. pr \in BOOLEAN
    BY <1>1, <1>2
  <2> HIDE DEF pr
  <2>5. /\ sup \in Rooms /\ sup.phase = ph /\ sup.known = rm.known
        /\ sup.required_frontier = rm.required_frontier
        /\ sup.parked_buffer = rm.parked_buffer /\ Bag(sup) = Bag(rm)
    BY <2>3, <2>4 DEF Rooms, Bag
  <2> HIDE DEF sup
  <2>6. IsReconciling(sup)
    BY <2>3, <2>5 DEF IsReconciling
  <2>7. Fit(sup, h) /\ Owed(sup, nm, h)
    BY <1>5, <2>3, <2>5, <2>6 DEF Fit, Owed
  <2>8. Held(sup) = Bag(rm) + 0 + lost
    BY <2>2, <2>3, <2>5, <2>6, Holding
  <2>9. NoPos \in Cursors
    BY DEF Cursors
  <2>10. Outcome(la, old, nm, ep, id, h) /\ Held(la.room) + la.told >= Held(sup) + OverflowDropped(why)
    BY <2>2, <2>5, <2>7, <2>9, LaunchOutcome
  <2> HIDE DEF la
  <2>11. Held(sup) + OverflowDropped(why) = Held(rm)
    BY <1>1, <1>6, <2>2, <2>8
  <2> QED BY <2>1, <2>10, <2>11
<1>8. CASE ~rm.pending_bootstrap /\ rec.replace_timeline /\ rec.scan = <<>>
  <2>1. e = StructuralRetry(rm, ep, id)
    BY <1>8 DEF Converge
  <2> QED BY <1>5, <2>1, StructuralOutcome
<1>9. CASE ~rm.pending_bootstrap /\ ~(rec.replace_timeline /\ rec.scan = <<>>)
  <2> DEFINE base == Baselined(rm)
             loss == Overflow(lost)
             b == Banked(base, rec.rerun, loss)
             o == Outranked(rec.rerun, loss)
             start == IF lost = 0 THEN base ELSE b
             rerun == IF lost = 0 THEN rec.rerun ELSE Coalesce(rec.rerun, loss)
             q == ByPosition(rec.buffer.q)
             live == ApplyOrdered(start, q)
             re == Replayed(live, rerun, rec.replace_timeline, ep, id)
  <2>1. e = re
    BY <1>9 DEF Converge
  <2>2. base \in Rooms /\ Kin(base, rm) /\ Len(base.known) = Reach(rm) + 1 /\ Len(base.known) <= h
    BY <1>3, <1>9, Baselining
  <2> HIDE DEF base
  <2>3. loss \in Reasons /\ OverflowDropped(loss) = lost
    BY <1>1, Causes
  <2> HIDE DEF loss
  <2>4. /\ b \in Rooms /\ b = [base EXCEPT !.pending_loss_notice = base.pending_loss_notice + o]
        /\ b.pending_loss_notice = base.pending_loss_notice + o
    <3>1. rec.rerun \in Reasons /\ base \in Rooms /\ loss \in Reasons
      BY <1>1, <2>2, <2>3
    <3> DEFINE r == rec.rerun
    <3>2. r \in Reasons
      BY <3>1
    <3> HIDE DEF r, rec
    <3>3. /\ Banked(base, r, loss) \in Rooms
          /\ Banked(base, r, loss) = [base EXCEPT !.pending_loss_notice = base.pending_loss_notice + Outranked(r, loss)]
          /\ Banked(base, r, loss).pending_loss_notice = base.pending_loss_notice + Outranked(r, loss)
      BY <3>1, <3>2, Banking
    <3> QED BY <3>3 DEF r
  <2>5. /\ o \in Nat /\ OverflowDropped(Coalesce(rec.rerun, loss)) \in Nat
        /\ o + OverflowDropped(Coalesce(rec.rerun, loss)) = OverflowDropped(rec.rerun) + lost
        /\ Coalesce(rec.rerun, loss) \in Reasons
    BY <1>1, <2>3, CoalesceLoss, CoalesceIn
  <2> HIDE DEF o
  <2>6. Bag(base) = Bag(rm)
    BY <2>2 DEF Kin, Bag
  <2>7. /\ b.known = base.known /\ b.parked_buffer = base.parked_buffer
        /\ b.required_frontier = base.required_frontier /\ Bag(b) = Bag(base) + o
    <3>1. /\ b.known = base.known /\ b.parked_buffer = base.parked_buffer
          /\ b.required_frontier = base.required_frontier /\ b.pending_local_dropped = base.pending_local_dropped
      BY <2>2, <2>4 DEF Rooms
    <3>2. base.pending_loss_notice \in Nat /\ base.pending_local_dropped \in Nat /\ base.parked_buffer.dropped \in Nat
      BY <2>2, RoomFields
    <3> HIDE DEF b
    <3> QED BY <2>4, <2>5, <3>1, <3>2 DEF Bag
  <2> HIDE DEF b
  <2>8. /\ start \in Rooms /\ start.known = base.known /\ start.parked_buffer = rm.parked_buffer
        /\ start.required_frontier = rm.required_frontier
        /\ rerun \in Reasons
        /\ Bag(start) + OverflowDropped(rerun) = Bag(rm) + OverflowDropped(rec.rerun) + lost
    <3>1. base.parked_buffer = rm.parked_buffer /\ base.required_frontier = rm.required_frontier
      BY <2>2 DEF Kin
    <3>2. CASE lost = 0
      BY <1>1, <1>6, <2>2, <2>6, <3>1, <3>2
    <3>3. CASE lost # 0
      <4>1. start = b /\ rerun = Coalesce(rec.rerun, loss)
        BY <3>3
      <4> HIDE DEF start, rerun
      <4>2. Bag(start) + OverflowDropped(rerun) = Bag(rm) + (o + OverflowDropped(Coalesce(rec.rerun, loss)))
        BY <1>6, <2>5, <2>6, <2>7, <4>1
      <4>3. Bag(start) + OverflowDropped(rerun) = Bag(rm) + OverflowDropped(rec.rerun) + lost
        BY <1>1, <1>6, <2>5, <4>2
      <4> QED BY <2>4, <2>5, <2>7, <3>1, <4>1, <4>3
    <3> QED BY <3>2, <3>3
  <2> HIDE DEF start, rerun
  <2>9. q \in Seq({x \in Pushes : x.pos < h})
    <3>1. Below(rec.buffer.q, h)
      BY DEF Within
    <3> QED BY <1>1, <1>3, <3>1, Sorted
  <2> HIDE DEF q
  <2>10. /\ live.room \in Rooms /\ live.stop \in BOOLEAN /\ Kin(live.room, start)
         /\ Len(live.room.known) <= h /\ Len(live.room.known) >= Len(start.known)
    BY <1>3, <2>2, <2>8, <2>9, Replaying
  <2> HIDE DEF live
  <2>11. /\ live.room.parked_buffer = rm.parked_buffer /\ live.room.required_frontier = rm.required_frontier
         /\ Bag(live.room) = Bag(start)
    BY <2>8, <2>10 DEF Kin, Bag
  <2>12. Watermark(live.room) >= Reach(rm) /\ Watermark(live.room) \in Int
    <3>1. Len(live.room.known) \in Nat
      BY <2>10, RoomFields
    <3> QED BY <1>4, <2>2, <2>8, <2>10, <3>1 DEF Watermark
  <2>13. nm <= live.room.required_frontier \/ nm <= Watermark(live.room)
    BY <1>4, <2>11, <2>12
  <2>14. Below(live.room.parked_buffer.q, h)
    BY <2>11 DEF Within
  <2>15. Outcome(re, old, nm, ep, id, h) /\ Held(re.room) + re.told >= Bag(live.room) + OverflowDropped(rerun)
    BY <1>1, <2>8, <2>10, <2>13, <2>14, ReplayedOutcome
  <2>16. Bag(live.room) + OverflowDropped(rerun) = Held(rm)
    BY <1>6, <2>8, <2>11
  <2> QED BY <2>1, <2>15, <2>16
<1> QED BY <1>7, <1>8, <1>9

\* The next read of the plan, or the end of it.
LEMMA AdvanceOutcome ==
  ASSUME NEW rm \in Rooms, IsReconciling(rm),
         NEW ep \in Nat, NEW id \in 0 .. 2, NEW h \in Nat \ {0}, NEW nm \in Int,
         Within(rm, h), Based(rm), nm <= rm.required_frontier \/ nm <= Reach(rm)
  PROVE  LET e == Advance(rm, ep, id)
         IN  /\ Outcome(e, rm, nm, ep, id, h)
             /\ Held(e.room) + e.told >= Held(rm)
<1> DEFINE e == Advance(rm, ep, id)
           rec == rm.phase
<1>1. CASE rec.plan = <<>>
  <2>1. e = Converge(rm, rec, ep, id)
    BY <1>1 DEF Advance
  <2> QED BY <2>1, ConvergeOutcome
<1>2. CASE rec.plan # <<>>
  <2> DEFINE next == [op |-> Head(rec.plan), from |-> 0]
             ph == [rec EXCEPT !.outstanding = next, !.plan = Tail(rec.plan)]
             r2 == [rm EXCEPT !.phase = ph]
  <2>1. rec \in Scans /\ rec.plan \in Seq({"Members"})
    BY ScanFields
  <2>2. Head(rec.plan) = "Members" /\ Tail(rec.plan) \in Seq({"Members"})
    BY <1>2, <2>1
  <2>3. next.op = "Members" /\ next \in Requests
    BY <2>2 DEF Requests
  <2>4. e = [Settled(r2) EXCEPT !.issue = <<next>>]
    BY <1>2 DEF Advance
  <2> HIDE DEF next, e
  <2>5. /\ ph \in Scans /\ ph.tag = rec.tag /\ ph.buffer = rec.buffer /\ ph.scan = rec.scan
        /\ ph.replace_timeline = rec.replace_timeline /\ ph.baseline_start = rec.baseline_start
        /\ ph.epoch = rec.epoch /\ ph.read_id = rec.read_id /\ ph.rerun = rec.rerun
        /\ ph.outstanding = next
    BY <2>1, <2>2, <2>3 DEF Scans
  <2> HIDE DEF ph
  <2>6. ph \in Phases
    BY <2>5 DEF Phases
  <2>7. /\ r2 \in Rooms /\ r2.phase = ph /\ r2.known = rm.known /\ r2.parked_buffer = rm.parked_buffer
        /\ r2.required_frontier = rm.required_frontier /\ Bag(r2) = Bag(rm) /\ Watermark(r2) = Watermark(rm)
    BY <2>6, Rephased
  <2> HIDE DEF r2
  <2>8. IsReconciling(r2) /\ ~IsConverged(r2)
    BY <2>5, <2>7 DEF IsReconciling, IsConverged
  <2>9. Reach(r2) = Reach(rm)
    BY <2>5, <2>7 DEF Reach
  <2>10. Within(r2, h) /\ Continues(r2)
    BY <2>3, <2>5, <2>7, <2>8, <2>9 DEF Within, Continues, Based
  <2>11. Named(r2, nm, h)
    <3>1. Reach(rm) \in Int /\ Reach(rm) < h
      <4>1. Reach(rm) \in Int
        BY ScanFields, RoomFields DEF Reach, Watermark
      <4> QED BY <4>1 DEF Within
    <3>2. nm < h \/ nm <= r2.required_frontier
      BY <2>7, <3>1
    <3> QED BY <2>7, <2>8, <2>9, <3>2 DEF Named
  <2>12. e.room = r2 /\ e.issue = <<next>> /\ e.told = 0
    BY <2>4, Effects
  <2>13. Outcome(e, rm, nm, ep, id, h)
    BY <2>5, <2>7, <2>8, <2>10, <2>11, <2>12 DEF Outcome
  <2>14. Held(r2) = Held(rm) /\ Held(rm) \in Nat
    BY <2>5, <2>7, <2>8, Holding
  <2> QED BY <2>12, <2>13, <2>14 DEF e
<1> QED BY <1>1, <1>2

\* An outcome for a room is one for a room with the same read in flight.
LEMMA OutcomeFor ==
  ASSUME NEW e, NEW a, NEW rm, NEW nm, NEW ep, NEW id, NEW h, Outcome(e, a, nm, ep, id, h),
         IsReconciling(a) => IsReconciling(rm) /\ a.phase.epoch = rm.phase.epoch
                             /\ a.phase.read_id = rm.phase.read_id,
         e.issue # <<>> \/ ~IsReconciling(e.room) \/ a.phase.outstanding = rm.phase.outstanding
  PROVE  Outcome(e, rm, nm, ep, id, h)
BY DEF Outcome

\* A page: the scan grows by it, and the last one reaches every position named.
LEMMA PageOutcome ==
  ASSUME NEW rm \in Rooms, IsReconciling(rm), NEW ids \in Seq(Nat), NEW more \in BOOLEAN,
         NEW ep \in Nat, NEW id \in 0 .. 2, NEW h \in Nat \ {0}, NEW nm \in Int,
         Within(rm, h), Continues(rm), Named(rm, nm, h),
         NEW reply, reply.ids = ids, reply.more = more,
         rm.phase.outstanding.op # "Members",
         ids = <<>> \/ First(rm.phase.outstanding) + Len(ids) <= h,
         ~more => nm <= rm.required_frontier \/ nm < First(rm.phase.outstanding) + Len(ids)
  PROVE  LET e == TakePage(rm, reply, ep, id)
         IN  /\ Outcome(e, rm, nm, ep, id, h)
             /\ Held(e.room) + e.told >= Held(rm)
<1> DEFINE e == TakePage(rm, reply, ep, id)
           rec == rm.phase
           ph == [rec EXCEPT !.scan = rec.scan \o ids]
           r2 == [rm EXCEPT !.phase = ph]
           next == [rec.outstanding EXCEPT
                      !.from = IF rec.replace_timeline THEN Len(r2.phase.scan) ELSE ScanPos(r2.phase)]
<1>1. /\ rec \in Scans /\ rec.scan \in Seq(Nat) /\ Len(rec.scan) \in Nat /\ rec.outstanding \in Requests
      /\ rec.replace_timeline \in BOOLEAN /\ rec.baseline_start \in Int
  BY ScanFields
<1>2. rm.known \in Seq(Nat) /\ Len(rm.known) \in Nat /\ rm.required_frontier \in Int /\ Watermark(rm) \in Int
  BY RoomFields
<1>3. rec.scan \o ids \in Seq(Nat) /\ Len(rec.scan \o ids) = Len(rec.scan) + Len(ids) /\ Len(ids) \in Nat
  BY <1>1
<1>4. /\ ph \in Scans /\ ph.tag = rec.tag /\ ph.buffer = rec.buffer /\ ph.scan = rec.scan \o ids
      /\ ph.replace_timeline = rec.replace_timeline /\ ph.baseline_start = rec.baseline_start
      /\ ph.epoch = rec.epoch /\ ph.read_id = rec.read_id /\ ph.rerun = rec.rerun
      /\ ph.outstanding = rec.outstanding
  BY <1>1, <1>3 DEF Scans
<1> HIDE DEF ph
<1>5. ph \in Phases
  BY <1>4 DEF Phases
<1>6. /\ r2 \in Rooms /\ r2.phase = ph /\ r2.known = rm.known /\ r2.parked_buffer = rm.parked_buffer
      /\ r2.required_frontier = rm.required_frontier /\ Bag(r2) = Bag(rm) /\ Watermark(r2) = Watermark(rm)
      /\ r2.bootstrap_anchor = rm.bootstrap_anchor
  BY <1>5, Rephased
<1> HIDE DEF r2
<1>7. IsReconciling(r2) /\ ~IsConverged(r2)
  BY <1>4, <1>6 DEF IsReconciling, IsConverged
<1>8. Reach(r2) = Reach(rm) + Len(ids) /\ Reach(rm) \in Int /\ Reach(rm) < h
  <2>1. Reach(rm) \in Int
    BY <1>1, <1>2 DEF Reach
  <2>2. Len(ph.scan) = Len(rec.scan) + Len(ids)
    BY <1>3, <1>4
  <2>3. Reach(r2) = Reach(rm) + Len(ids)
    <3>1. CASE rec.replace_timeline
      <4>1. r2.phase.replace_timeline /\ Len(r2.phase.scan) = Len(rec.scan) + Len(ids)
        BY <1>4, <1>6, <2>2, <3>1
      <4> QED BY <1>1, <1>3, <3>1, <4>1 DEF Reach
    <3>2. CASE ~rec.replace_timeline
      <4>1. ~r2.phase.replace_timeline /\ Len(r2.phase.scan) = Len(rec.scan) + Len(ids)
        BY <1>4, <1>6, <2>2, <3>2
      <4> QED BY <1>1, <1>2, <1>3, <1>6, <3>2, <4>1, SMTT(30) DEF Reach
    <3> QED BY <3>1, <3>2
  <2> QED BY <2>1, <2>3 DEF Within
<1>9. First(rec.outstanding) = Reach(rm) + 1
  BY DEF Continues
<1>10. Reach(r2) < h
  <2>1. CASE ids = <<>>
    BY <1>3, <1>8, <2>1
  <2>2. CASE First(rec.outstanding) + Len(ids) <= h
    BY <1>3, <1>8, <1>9, <2>2
  <2> QED BY <2>1, <2>2
<1>11. Within(r2, h)
  BY <1>4, <1>6, <1>7, <1>10 DEF Within
<1>12. Fit(rm, h) /\ Owed(rm, nm, h) /\ Fit(r2, h) /\ Owed(r2, nm, h)
  BY <1>4, <1>6, <1>7 DEF Fit, Within, Owed, Named
<1>13. Held(r2) = Held(rm) /\ Held(rm) \in Nat
  BY <1>4, <1>6, <1>7, Holding
<1>14. CASE ~PageValid(rm, ids)
  <2>1. e = StructuralRetry(rm, ep, id)
    BY <1>14 DEF TakePage
  <2> QED BY <1>12, <2>1, StructuralOutcome
<1>15. CASE PageValid(rm, ids) /\ more
  <2>1. e = [Settled([r2 EXCEPT !.phase.outstanding = next]) EXCEPT !.issue = <<next>>]
    BY <1>15 DEF TakePage, r2, ph
  <2>2. next \in Requests /\ next.op = rec.outstanding.op /\ First(next) = Reach(r2) + 1
    <3>1. rec.outstanding.op \in {"Timeline", "Resync"}
      BY <1>1 DEF Requests
    <3> DEFINE f == IF rec.replace_timeline THEN Len(r2.phase.scan) ELSE ScanPos(r2.phase)
    <3>2. f \in Nat /\ (rec.replace_timeline => f = Reach(r2) + 1) /\ (~rec.replace_timeline => f = Reach(r2))
      <4>1. CASE rec.replace_timeline
        <5>1. r2.phase.replace_timeline
          BY <1>4, <1>6, <4>1
        <5>2. Len(r2.phase.scan) \in Nat
          BY <1>3, <1>4, <1>6
        <5> QED BY <4>1, <5>1, <5>2 DEF Reach
      <4>2. CASE ~rec.replace_timeline
        <5>1. ScanPos(r2.phase) = rec.baseline_start + Len(r2.phase.scan)
          BY <1>4, <1>6, <4>2 DEF ScanPos
        <5>2. rec.baseline_start = Watermark(rm) /\ Watermark(rm) >= 0
          BY <4>2 DEF Continues, Based
        <5>3. ~r2.phase.replace_timeline /\ Len(r2.phase.scan) \in Nat
          BY <1>3, <1>4, <1>6, <4>2
        <5> QED BY <1>2, <1>6, <4>2, <5>1, <5>2, <5>3 DEF Reach
      <4> QED BY <1>1, <4>1, <4>2
    <3> HIDE DEF f
    <3>3. next = [rec.outstanding EXCEPT !.from = f]
      BY DEF f
    <3> HIDE DEF next
    <3>4. next \in Requests /\ next.op = rec.outstanding.op /\ next.from = f
      BY <1>1, <3>2, <3>3 DEF Requests
    <3>5. First(next) = Reach(r2) + 1
      <4>1. CASE rec.outstanding.op = "Timeline"
        <5>1. rec.replace_timeline
          BY <4>1 DEF Continues
        <5> QED BY <3>2, <3>4, <4>1, <5>1 DEF First
      <4>2. CASE rec.outstanding.op = "Resync"
        <5>1. ~rec.replace_timeline
          BY <4>2 DEF Continues
        <5> QED BY <3>2, <3>4, <4>2, <5>1 DEF First
      <4> QED BY <3>1, <4>1, <4>2
    <3> QED BY <3>4, <3>5
  <2> HIDE DEF next, e
  <2> DEFINE p3 == [ph EXCEPT !.outstanding = next]
             r3 == [r2 EXCEPT !.phase = p3]
  <2>3. /\ p3 \in Scans /\ p3.tag = ph.tag /\ p3.buffer = ph.buffer /\ p3.scan = ph.scan
        /\ p3.replace_timeline = ph.replace_timeline /\ p3.baseline_start = ph.baseline_start
        /\ p3.epoch = ph.epoch /\ p3.read_id = ph.read_id /\ p3.rerun = ph.rerun
        /\ p3.outstanding = next
    BY <1>4, <2>2 DEF Scans
  <2>4. e = [Settled(r3) EXCEPT !.issue = <<next>>]
    BY <1>6, <2>1
  <2> HIDE DEF p3
  <2>5. p3 \in Phases
    BY <2>3 DEF Phases
  <2>6. /\ r3 \in Rooms /\ r3.phase = p3 /\ r3.known = r2.known /\ r3.parked_buffer = r2.parked_buffer
        /\ r3.required_frontier = r2.required_frontier /\ Bag(r3) = Bag(r2) /\ Watermark(r3) = Watermark(r2)
    BY <1>6, <2>5, Rephased
  <2> HIDE DEF r3
  <2>7. IsReconciling(r3) /\ ~IsConverged(r3)
    BY <1>4, <2>3, <2>6 DEF IsReconciling, IsConverged
  <2>8. Reach(r3) = Reach(r2)
    BY <1>6, <2>3, <2>6 DEF Reach
  <2>9. Within(r3, h)
    BY <1>6, <1>7, <1>11, <2>3, <2>6, <2>8 DEF Within
  <2>10. Continues(r3)
    <3>1. /\ r3.phase.outstanding = next /\ r3.phase.replace_timeline = rec.replace_timeline
          /\ r3.phase.baseline_start = rec.baseline_start /\ Watermark(r3) = Watermark(rm)
      BY <1>4, <1>6, <2>3, <2>6
    <3>2. /\ ~rec.replace_timeline => rec.baseline_start = Watermark(rm) /\ Watermark(rm) >= 0
          /\ next.op = "Timeline" => rec.replace_timeline
          /\ next.op = "Resync" => ~rec.replace_timeline
      BY <2>2 DEF Continues, Based
    <3> QED BY <2>2, <2>8, <3>1, <3>2 DEF Continues, Based
  <2>11. Named(r3, nm, h)
    BY <1>6, <2>2, <2>3, <2>6, <2>7 DEF Named
  <2>12. e.room = r3 /\ e.issue = <<next>> /\ e.told = 0
    BY <2>4, Effects
  <2>13. Outcome(e, rm, nm, ep, id, h)
    <3>1. r3.phase.epoch = rm.phase.epoch /\ r3.phase.read_id = rm.phase.read_id /\ r3.phase.outstanding = next
      BY <1>4, <2>3, <2>6
    <3> QED BY <2>6, <2>7, <2>9, <2>10, <2>11, <2>12, <3>1 DEF Outcome
  <2>14. Held(r3) = Held(rm)
    BY <1>4, <1>6, <1>7, <1>13, <2>3, <2>6, <2>7, Holding
  <2> QED BY <1>13, <2>12, <2>13, <2>14 DEF e
<1>16. CASE PageValid(rm, ids) /\ ~more
  <2>1. nm <= r2.required_frontier \/ nm <= Reach(r2)
    BY <1>3, <1>6, <1>8, <1>9, <1>16
  <2>2. e = IF rec.replace_timeline /\ ScanPos(r2.phase) < rm.bootstrap_anchor
            THEN StructuralRetry(r2, ep, id) ELSE Advance(r2, ep, id)
    BY <1>16 DEF TakePage, r2, ph
  <2>3. Based(r2)
    <3>1. Based(rm)
      BY DEF Continues
    <3> QED BY <1>4, <1>6, <3>1 DEF Based
  <2>4. r2.phase.epoch = rm.phase.epoch /\ r2.phase.read_id = rm.phase.read_id /\ r2.phase.outstanding = rm.phase.outstanding
    BY <1>4, <1>6
  <2>5. Outcome(e, r2, nm, ep, id, h) /\ Held(e.room) + e.told >= Held(r2)
    <3>1. CASE rec.replace_timeline /\ ScanPos(r2.phase) < rm.bootstrap_anchor
      <4>1. e = StructuralRetry(r2, ep, id)
        BY <2>2, <3>1
      <4> HIDE DEF e
      <4> QED BY <1>6, <1>7, <1>12, <4>1, StructuralOutcome
    <3>2. CASE ~(rec.replace_timeline /\ ScanPos(r2.phase) < rm.bootstrap_anchor)
      <4>1. e = Advance(r2, ep, id)
        BY <2>2, <3>2
      <4> HIDE DEF e
      <4> QED BY <1>6, <1>7, <1>11, <2>1, <2>3, <4>1, AdvanceOutcome
    <3> QED BY <3>1, <3>2
  <2> HIDE DEF e
  <2>6. Outcome(e, rm, nm, ep, id, h)
    BY <2>4, <2>5, OutcomeFor
  <2> QED BY <1>13, <2>5, <2>6 DEF e
<1> QED BY <1>14, <1>15, <1>16

\* A position named by a redirect that is followed.
Naming(e, reply, om) ==
    IF reply.kind = "redirect" /\ IsReconciling(e.room) /\ reply.from > om THEN reply.from ELSE om

\* RoomState::on_read_reply, whatever the answer.
LEMMA ReplyOutcome ==
  ASSUME NEW rm \in Rooms, IsReconciling(rm), NEW reply \in Replies, reply # NoReply,
         NEW ep \in Nat, NEW id \in 0 .. 2, NEW h \in Nat \ {0}, NEW om \in Int,
         Within(rm, h), Continues(rm), Named(rm, om, h),
         reply.kind = "members" => rm.phase.outstanding.op = "Members",
         reply.kind = "page" =>
           /\ rm.phase.outstanding.op # "Members"
           /\ reply.ids = <<>> \/ First(rm.phase.outstanding) + Len(reply.ids) <= h
           /\ ~reply.more => om <= rm.required_frontier \/ om < First(rm.phase.outstanding) + Len(reply.ids)
  PROVE  LET e == OnReadReply(rm, reply, ep, id)
         IN  /\ Outcome(e, rm, Naming(e, reply, om), ep, id, h)
             /\ Held(e.room) + e.told >= Held(rm)
<1> DEFINE e == OnReadReply(rm, reply, ep, id)
<1>1. reply.kind \in {"error", "malformed", "redirect", "page", "members"}
  BY DEF Replies, Error, NoReply
<1>2. Fit(rm, h) /\ Owed(rm, om, h)
  BY DEF Fit, Owed, Within, Named
<1>3. CASE reply.kind = "malformed"
  <2>1. e = StructuralRetry(rm, ep, id) /\ Naming(e, reply, om) = om
    BY <1>3 DEF OnReadReply, Naming
  <2> HIDE DEF e
  <2> QED BY <1>2, <2>1, StructuralOutcome DEF e
<1>4. CASE reply.kind = "error"
  <2>1. e = Fail(rm, TRUE, ep, id) /\ Naming(e, reply, om) = om
    BY <1>4 DEF OnReadReply, Naming
  <2> HIDE DEF e
  <2> QED BY <1>2, <2>1, FailOutcome DEF e
<1>5. CASE reply.kind = "redirect"
  <2>1. reply.from \in Nat
    BY <1>5 DEF Replies, Error, NoReply
  <2> DEFINE from == reply.from
             b == BoundedRestart(rm, from, ep, id)
             nm == IF IsReconciling(b.room) /\ from > om THEN from ELSE om
  <2>2. e = b
    BY <1>5 DEF OnReadReply
  <2>3. nm \in Int
    BY <2>1
  <2>4. Outcome(b, rm, nm, ep, id, h) /\ Held(b.room) + b.told >= Held(rm)
    BY <1>2, <2>1, <2>3, BoundedOutcome
  <2>5. Naming(b, reply, om) = nm
    BY <1>5 DEF Naming
  <2> HIDE DEF e, b, nm
  <2> QED BY <2>2, <2>4, <2>5 DEF e
<1>6. CASE reply.kind = "page"
  <2>1. reply.ids \in Seq(Nat) /\ reply.more \in BOOLEAN
    BY <1>6 DEF Replies, Error, NoReply
  <2>2. e = TakePage(rm, reply, ep, id) /\ Naming(e, reply, om) = om
    BY <1>6 DEF OnReadReply, Naming
  <2> HIDE DEF e
  <2>3. /\ rm.phase.outstanding.op # "Members"
        /\ reply.ids = <<>> \/ First(rm.phase.outstanding) + Len(reply.ids) <= h
        /\ ~reply.more => om <= rm.required_frontier \/ om < First(rm.phase.outstanding) + Len(reply.ids)
    BY <1>6
  <2> QED BY <2>1, <2>2, <2>3, PageOutcome DEF e
<1>7. CASE reply.kind = "members"
  <2>1. reply.ids \in SUBSET Nat
    BY <1>7 DEF Replies, Error, NoReply
  <2> DEFINE ph == [rm.phase EXCEPT !.members = <<reply.ids>>]
             r2 == [rm EXCEPT !.phase = ph]
  <2>2. e = Advance(r2, ep, id) /\ Naming(e, reply, om) = om
    BY <1>7 DEF OnReadReply, Naming
  <2> HIDE DEF e
  <2>3. rm.phase \in Scans /\ rm.phase.outstanding.op = "Members"
    BY <1>7, ScanFields
  <2>4. <<reply.ids>> \in Seq(SUBSET Nat)
    BY <2>1
  <2>5. /\ ph \in Scans /\ ph.tag = rm.phase.tag /\ ph.buffer = rm.phase.buffer /\ ph.scan = rm.phase.scan
        /\ ph.replace_timeline = rm.phase.replace_timeline /\ ph.baseline_start = rm.phase.baseline_start
        /\ ph.epoch = rm.phase.epoch /\ ph.read_id = rm.phase.read_id /\ ph.rerun = rm.phase.rerun
        /\ ph.outstanding = rm.phase.outstanding
    BY <2>3, <2>4 DEF Scans
  <2> HIDE DEF ph
  <2>6. ph \in Phases
    BY <2>5 DEF Phases
  <2>7. /\ r2 \in Rooms /\ r2.phase = ph /\ r2.known = rm.known /\ r2.parked_buffer = rm.parked_buffer
        /\ r2.required_frontier = rm.required_frontier /\ Bag(r2) = Bag(rm) /\ Watermark(r2) = Watermark(rm)
    BY <2>6, Rephased
  <2> HIDE DEF r2
  <2>8. IsReconciling(r2)
    BY <2>5, <2>7 DEF IsReconciling
  <2>9. Reach(r2) = Reach(rm)
    BY <2>5, <2>7 DEF Reach
  <2>10. Within(r2, h) /\ Based(r2)
    BY <2>5, <2>7, <2>8, <2>9 DEF Within, Continues, Based
  <2>11. om <= r2.required_frontier \/ om <= Reach(r2)
    BY <2>3, <2>7, <2>9 DEF Named
  <2>12. Outcome(e, r2, om, ep, id, h) /\ Held(e.room) + e.told >= Held(r2)
    BY <2>2, <2>7, <2>8, <2>10, <2>11, AdvanceOutcome
  <2>13. Outcome(e, rm, om, ep, id, h)
    BY <2>5, <2>7, <2>12, OutcomeFor
  <2>14. Held(r2) = Held(rm)
    BY <2>5, <2>7, <2>8, Holding
  <2> QED BY <2>2, <2>12, <2>13, <2>14 DEF e
<1> QED BY <1>1, <1>3, <1>4, <1>5, <1>6, <1>7

\* A handler that only settles: the read in flight, if any, is the same.
LEMMA SettledOutcome ==
  ASSUME NEW a \in Rooms, NEW rm, NEW nm, NEW ep, NEW id, NEW h,
         Within(a, h), Continues(a), Named(a, nm, h),
         IsReconciling(a) => /\ IsReconciling(rm)
                             /\ a.phase.epoch = rm.phase.epoch /\ a.phase.read_id = rm.phase.read_id
                             /\ a.phase.outstanding = rm.phase.outstanding
  PROVE  /\ Outcome(Settled(a), rm, nm, ep, id, h)
         /\ Settled(a).room = a /\ Settled(a).told = 0
<1>1. Settled(a).room = a /\ Settled(a).told = 0 /\ Settled(a).issue = <<>>
  BY Effects
<1> QED BY <1>1 DEF Outcome

\* A live push: buffered, parked, repeated, disputed or applied.
LEMMA LiveOutcome ==
  ASSUME NEW rm \in Rooms, NEW x \in Pushes,
         NEW ep \in Nat, NEW id \in 0 .. 2, NEW h \in Nat \ {0}, NEW nm \in Int, x.pos < h,
         Within(rm, h), Continues(rm), Named(rm, nm, h)
  PROVE  LET e == OnLiveEvent(rm, x, ep, id)
         IN  /\ Outcome(e, rm, nm, ep, id, h)
             /\ Held(e.room) + e.told >= Held(rm)
<1> DEFINE e == OnLiveEvent(rm, x, ep, id)
<1>1. rm.phase.tag \in {"Converged", "NeedsReconcile", "Reconciling"} /\ Held(rm) \in Nat
  BY Holding
<1>2. h \in Int /\ x.pos \in Nat /\ x.id \in Nat
  BY DEF Pushes
<1>3. CASE IsReconciling(rm)
  <2> DEFINE b == rm.phase.buffer
             nb == BufferLive(b, x)
             ph == [rm.phase EXCEPT !.buffer = nb]
             r2 == [rm EXCEPT !.phase = ph]
  <2>1. e = Settled(r2)
    BY <1>3 DEF OnLiveEvent, IsReconciling, IsConverged
  <2>2. rm.phase \in Scans /\ b \in Buffers /\ b.dropped \in Nat
    BY <1>3, ScanFields
  <2>3. Below(b.q, h)
    BY <1>3 DEF Within
  <2>4. nb \in Buffers /\ Below(nb.q, h) /\ nb.dropped >= b.dropped
    <3>1. CASE Len(b.q) >= BufferDepth
      <4>1. nb = [b EXCEPT !.dropped = b.dropped + 1]
        BY <3>1 DEF BufferLive
      <4> QED BY <2>2, <2>3, <4>1 DEF Buffers
    <3>2. CASE ~(Len(b.q) >= BufferDepth)
      <4>1. nb = BufferPush(b, x)
        BY <3>2 DEF BufferLive
      <4> QED BY <1>2, <2>2, <2>3, <4>1, BufferPushIn
    <3> QED BY <3>1, <3>2
  <2> HIDE DEF nb
  <2>5. /\ ph \in Scans /\ ph.tag = rm.phase.tag /\ ph.buffer = nb /\ ph.scan = rm.phase.scan
        /\ ph.replace_timeline = rm.phase.replace_timeline /\ ph.baseline_start = rm.phase.baseline_start
        /\ ph.epoch = rm.phase.epoch /\ ph.read_id = rm.phase.read_id /\ ph.rerun = rm.phase.rerun
        /\ ph.outstanding = rm.phase.outstanding
    BY <2>2, <2>4 DEF Scans
  <2> HIDE DEF ph, e
  <2>6. ph \in Phases
    BY <2>5 DEF Phases
  <2>7. /\ r2 \in Rooms /\ r2.phase = ph /\ r2.known = rm.known /\ r2.parked_buffer = rm.parked_buffer
        /\ r2.required_frontier = rm.required_frontier /\ Bag(r2) = Bag(rm) /\ Watermark(r2) = Watermark(rm)
    BY <2>6, Rephased
  <2> HIDE DEF r2
  <2>8. IsReconciling(r2) /\ ~IsConverged(r2)
    BY <1>3, <2>5, <2>7 DEF IsReconciling, IsConverged
  <2>9. Reach(r2) = Reach(rm)
    BY <2>5, <2>7 DEF Reach
  <2>10. Within(r2, h) /\ Continues(r2)
    BY <1>3, <2>4, <2>5, <2>7, <2>8, <2>9 DEF Within, Continues, Based
  <2>11. Named(r2, nm, h)
    BY <1>3, <2>5, <2>7, <2>8, <2>9 DEF Named
  <2>12. Outcome(Settled(r2), rm, nm, ep, id, h) /\ Settled(r2).room = r2 /\ Settled(r2).told = 0
    BY <1>3, <2>5, <2>7, <2>10, <2>11, SettledOutcome
  <2>13. Held(r2) >= Held(rm) /\ Held(r2) \in Nat
    <3>1. Held(rm) = Bag(rm) + OverflowDropped(rm.phase.rerun) + b.dropped /\ Bag(rm) \in Nat
      BY <1>3, Holding
    <3>2. Held(r2) = Bag(rm) + OverflowDropped(rm.phase.rerun) + nb.dropped
      BY <2>5, <2>7, <2>8, Holding
    <3>3. nb.dropped \in Nat
      BY <2>4 DEF Buffers
    <3>4. OverflowDropped(rm.phase.rerun) \in Nat
      BY <1>3, ScanFields, ReasonFields
    <3> QED BY <2>2, <2>4, <3>1, <3>2, <3>3, <3>4
  <2> QED BY <2>1, <2>12, <2>13 DEF e
<1>4. CASE rm.phase.tag = "NeedsReconcile"
  <2> DEFINE nb == BufferPush(rm.parked_buffer, x)
             r2 == [rm EXCEPT !.parked_buffer = nb]
  <2>1. e = Settled(r2)
    BY <1>4 DEF OnLiveEvent, IsReconciling, IsConverged
  <2>2. rm.parked_buffer \in Buffers /\ Below(rm.parked_buffer.q, h) /\ rm.parked_buffer.dropped \in Nat
        /\ rm.pending_loss_notice \in Nat /\ rm.pending_local_dropped \in Nat
    BY RoomFields DEF Within
  <2>3. nb \in Buffers /\ Below(nb.q, h) /\ nb.dropped >= rm.parked_buffer.dropped
    BY <1>2, <2>2, BufferPushIn
  <2>4. nb.dropped \in Nat
    BY <2>3 DEF Buffers
  <2> HIDE DEF nb, e
  <2>5. /\ r2 \in Rooms /\ r2.phase = rm.phase /\ r2.known = rm.known /\ r2.parked_buffer = nb
        /\ r2.required_frontier = rm.required_frontier
        /\ r2.pending_loss_notice = rm.pending_loss_notice /\ r2.pending_local_dropped = rm.pending_local_dropped
    BY <2>3 DEF Rooms
  <2> HIDE DEF r2
  <2>6. ~IsReconciling(r2) /\ ~IsConverged(r2)
    BY <1>4, <2>5 DEF IsReconciling, IsConverged
  <2>7. Within(r2, h) /\ Continues(r2) /\ Named(r2, nm, h)
    BY <2>3, <2>5, <2>6 DEF Within, Continues, Named
  <2>8. Outcome(Settled(r2), rm, nm, ep, id, h) /\ Settled(r2).room = r2 /\ Settled(r2).told = 0
    BY <2>5, <2>6, <2>7, SettledOutcome
  <2>9. Held(r2) >= Held(rm) /\ Held(r2) \in Nat
    <3>1. PendingCause(r2) = PendingCause(rm) /\ OverflowDropped(PendingCause(rm)) \in Nat
      BY <2>5, Holding, ReasonFields DEF PendingCause
    <3>2. Bag(r2) >= Bag(rm) /\ Bag(r2) \in Nat /\ Bag(rm) \in Nat
      BY <2>2, <2>3, <2>4, <2>5 DEF Bag
    <3>3. ~IsReconciling(rm)
      BY <1>4 DEF IsReconciling
    <3>4. Held(rm) = Bag(rm) + OverflowDropped(PendingCause(rm)) + 0
      BY <3>3, Holding
    <3>5. Held(r2) = Bag(r2) + OverflowDropped(PendingCause(rm)) + 0
      BY <2>5, <2>6, <3>1, Holding
    <3> QED BY <3>1, <3>2, <3>4, <3>5
  <2> QED BY <2>1, <2>8, <2>9 DEF e
<1>5. CASE IsConverged(rm)
  <2> DEFINE again(r) == Launch(r, ProtocolGap, NoPos, ep, id)
             g == Grown(rm, x.id)
             d == DisputePosition(rm, x.pos)
  <2>1. ~IsReconciling(rm) /\ rm.phase.tag # "NeedsReconcile"
    BY <1>5 DEF IsConverged, IsReconciling
  <2>2. g \in Rooms /\ Kin(g, rm) /\ g.known = Append(rm.known, x.id)
    BY <1>2, Growing
  <2>3. d \in Rooms /\ Kin(d, rm) /\ d.known = rm.known
    BY <1>2, Disputing
  <2>4. /\ rm.known \in Seq(Nat) /\ Len(rm.known) \in Nat /\ Len(rm.known) <= h
        /\ Len(g.known) = Len(rm.known) + 1 /\ rm.required_frontier \in Int /\ Watermark(rm) \in Int
    BY <1>2, <2>2, RoomFields DEF Within
  <2> HIDE DEF g, d
  <2>5. \/ e = Settled(rm) \/ e = again(d) \/ e = again(rm)
        \/ x.pos = Watermark(rm) + 1 /\ (e = again(g) \/ e = Settled(g))
    BY <1>2, <1>5, <2>1, <2>4 DEF OnLiveEvent, g, d
  <2> HIDE DEF e
  <2>6. ASSUME NEW r \in Rooms, Kin(r, rm), Len(r.known) <= h
        PROVE  Outcome(again(r), rm, nm, ep, id, h) /\ Held(again(r).room) + again(r).told >= Held(rm)
    <3>1. Fit(r, h) /\ Owed(r, nm, h)
      BY <2>1, <2>6 DEF Fit, Owed, Kin, Within, Named, IsReconciling
    <3>2. Held(r) = Held(rm)
      BY <2>6 DEF Held, Kin, PendingCause, IsReconciling
    <3>3. ProtocolGap \in Reasons /\ OverflowDropped(ProtocolGap) = 0 /\ NoPos \in Cursors
      BY Causes DEF Cursors
    <3>4. Outcome(again(r), rm, nm, ep, id, h) /\ Held(again(r).room) + again(r).told >= Held(r) + OverflowDropped(ProtocolGap)
      BY <3>1, <3>3, LaunchOutcome
    <3> QED BY <1>1, <3>2, <3>3, <3>4
  <2>7. ASSUME NEW r \in Rooms, Kin(r, rm), Len(r.known) <= h, Len(r.known) >= Len(rm.known)
        PROVE  Outcome(Settled(r), rm, nm, ep, id, h) /\ Held(Settled(r).room) + Settled(r).told >= Held(rm)
    <3>1. ~IsReconciling(r) /\ IsConverged(r)
      BY <1>5, <2>1, <2>7 DEF Kin, IsReconciling, IsConverged
    <3>2. Held(r) = Held(rm)
      BY <2>7 DEF Held, Kin, PendingCause, IsReconciling
    <3>3. Len(r.known) \in Nat
      BY RoomFields
    <3>4. Within(r, h) /\ Continues(r)
      BY <2>7, <3>1 DEF Within, Continues, Kin
    <3>5. Named(r, nm, h)
      <4>1. nm <= Watermark(r)
        BY <1>5, <2>4, <2>7, <3>3 DEF Named, Watermark
      <4>2. r.required_frontier = rm.required_frontier
        BY <2>7 DEF Kin
      <4> QED BY <3>1, <4>1, <4>2 DEF Named
    <3>6. Outcome(Settled(r), rm, nm, ep, id, h) /\ Settled(r).room = r /\ Settled(r).told = 0
      BY <3>1, <3>4, <3>5, SettledOutcome
    <3> QED BY <1>1, <3>2, <3>6
  <2> HIDE DEF again
  <2>8. Kin(rm, rm)
    BY DEF Kin
  <2>9. x.pos = Watermark(rm) + 1 => Len(g.known) <= h
    BY <1>2, <2>4 DEF Watermark
  <2>10. CASE e = Settled(rm) \/ e = again(d) \/ e = again(rm)
    BY <2>3, <2>4, <2>6, <2>7, <2>8, <2>10 DEF e
  <2>11. CASE x.pos = Watermark(rm) + 1 /\ (e = again(g) \/ e = Settled(g))
    <3>1. Len(g.known) <= h /\ Len(g.known) >= Len(rm.known)
      BY <2>4, <2>9, <2>11
    <3> QED BY <2>2, <2>6, <2>7, <2>11, <3>1 DEF e
  <2> QED BY <2>5, <2>10, <2>11
<1> QED BY <1>1, <1>3, <1>4, <1>5 DEF IsReconciling, IsConverged

\* A junk push: its cause is stored or launched.
LEMMA JunkOutcome ==
  ASSUME NEW rm \in Rooms,
         NEW ep \in Nat, NEW id \in 0 .. 2, NEW h \in Nat \ {0}, NEW nm \in Int,
         Within(rm, h), Continues(rm), Named(rm, nm, h)
  PROVE  Outcome(OnJunk(rm, ep, id), rm, nm, ep, id, h)
<1> DEFINE e == OnJunk(rm, ep, id)
<1>1. rm.phase.tag \in {"Converged", "NeedsReconcile", "Reconciling"}
  BY Holding
<1>2. ProtocolGap \in Reasons /\ NoPos \in Cursors
  BY Causes DEF Cursors
<1>3. CASE IsReconciling(rm)
  <2> DEFINE m == Coalesce(rm.phase.rerun, ProtocolGap)
             ph == [rm.phase EXCEPT !.rerun = m]
             r2 == [rm EXCEPT !.phase = ph]
  <2>1. e = Settled(r2)
    BY <1>3 DEF OnJunk, IsReconciling, IsConverged
  <2>2. rm.phase \in Scans /\ m \in Reasons
    BY <1>2, <1>3, ScanFields, CoalesceIn
  <2> HIDE DEF m
  <2>3. /\ ph \in Scans /\ ph \in Phases
        /\ ph.tag = rm.phase.tag /\ ph.buffer = rm.phase.buffer /\ ph.scan = rm.phase.scan
        /\ ph.replace_timeline = rm.phase.replace_timeline
        /\ ph.baseline_start = rm.phase.baseline_start /\ ph.outstanding = rm.phase.outstanding
        /\ ph.epoch = rm.phase.epoch /\ ph.read_id = rm.phase.read_id
    BY <2>2, Reruns
  <2> HIDE DEF ph, e
  <2>4. /\ r2 \in Rooms /\ r2.phase = ph /\ r2.known = rm.known /\ r2.parked_buffer = rm.parked_buffer
        /\ r2.required_frontier = rm.required_frontier
    BY <2>3, Rephased
  <2> HIDE DEF r2
  <2>5. IsReconciling(r2)
    BY <1>3, <2>3, <2>4 DEF IsReconciling
  <2>6. r2.required_frontier >= rm.required_frontier /\ h \in Int
    BY <2>4, RoomFields
  <2>7. Within(r2, h) /\ Continues(r2) /\ Named(r2, nm, h)
    BY <1>3, <2>3, <2>4, <2>5, <2>6, SameScan, Zenon
  <2> QED BY <1>3, <2>1, <2>3, <2>4, <2>7, SettledOutcome DEF e
<1>4. CASE rm.phase.tag = "NeedsReconcile"
  <2> DEFINE n == rm.pending_local_dropped + 1
             r2 == [rm EXCEPT !.pending_local_dropped = n, !.presence_refresh_pending = TRUE]
  <2>1. e = Settled(r2)
    BY <1>4 DEF OnJunk, IsReconciling, IsConverged
  <2>2. n \in Nat
    BY RoomFields
  <2> HIDE DEF n, e
  <2>3. /\ r2 \in Rooms /\ r2.phase = rm.phase /\ r2.known = rm.known /\ r2.parked_buffer = rm.parked_buffer
        /\ r2.required_frontier = rm.required_frontier
    BY <2>2 DEF Rooms
  <2> HIDE DEF r2
  <2>4. ~IsReconciling(r2) /\ ~IsConverged(r2)
    BY <1>4, <2>3 DEF IsReconciling, IsConverged
  <2>5. Within(r2, h) /\ Continues(r2) /\ Named(r2, nm, h)
    BY <2>3, <2>4 DEF Within, Continues, Named
  <2> QED BY <2>1, <2>3, <2>4, <2>5, SettledOutcome DEF e
<1>5. CASE IsConverged(rm)
  <2>1. ~IsReconciling(rm)
    BY <1>5 DEF IsConverged, IsReconciling
  <2>2. e = Launch(rm, ProtocolGap, NoPos, ep, id)
    BY <1>5, <2>1 DEF OnJunk, IsConverged
  <2>3. Fit(rm, h) /\ Owed(rm, nm, h)
    BY <2>1 DEF Fit, Owed, Within, Named
  <2> QED BY <1>2, <2>2, <2>3, LaunchOutcome
<1> QED BY <1>1, <1>3, <1>4, <1>5 DEF IsReconciling, IsConverged

\* Two reads at most can be answered: one of three identities is free.
LEMMA FreshIdIn ==
  ASSUME ReadsApart, \A rd \in reads : rd \in Reads
  PROVE  FreshId \in 0 .. 2 /\ \A rd \in reads : rd.read_id # FreshId
<1> DEFINE Free(n) == \A rd \in reads : rd.read_id # n
           Least3(n) == Free(n) /\ \A k \in 0 .. n - 1 : \E rd \in reads : rd.read_id = k
<1>1. \E n \in 0 .. 2 : Free(n)
  <2>1. CASE reads = {}
    BY <2>1
  <2>2. CASE reads # {}
    <3>1. PICK a, b \in reads : reads \subseteq {a, b}
      BY <2>2 DEF ReadsApart, OneIsCurrent
    <3>2. a.read_id \in 0 .. 2 /\ b.read_id \in 0 .. 2
      BY DEF Reads
    <3>3. \E n \in 0 .. 2 : n # a.read_id /\ n # b.read_id
      BY <3>2
    <3> QED BY <3>1, <3>3
  <2> QED BY <2>1, <2>2
<1>2. \E n \in 0 .. 2 : Least3(n)
  <2>1. CASE Free(0)
    BY <2>1
  <2>2. CASE ~Free(0) /\ Free(1)
    <3>1. \A k \in 0 .. 1 - 1 : k = 0
      OBVIOUS
    <3> QED BY <2>2, <3>1
  <2>3. CASE ~Free(0) /\ ~Free(1)
    <3>1. Free(2)
      <4>1. PICK n \in 0 .. 2 : Free(n)
        BY <1>1
      <4>2. n # 0 /\ n # 1
        BY <2>3, <4>1
      <4>3. n = 2
        BY <4>2
      <4> QED BY <4>1, <4>3
    <3>2. \A k \in 0 .. 2 - 1 : k = 0 \/ k = 1
      OBVIOUS
    <3> QED BY <2>3, <3>1, <3>2
  <2> QED BY <2>1, <2>2, <2>3
<1>3. FreshId = CHOOSE n \in 0 .. 2 : Least3(n)
  BY DEF FreshId
<1> DEFINE f == CHOOSE n \in 0 .. 2 : Least3(n)
<1>4. f \in 0 .. 2 /\ Least3(f)
  BY <1>2
<1> QED BY <1>3, <1>4

\* Whoever waits for a read names nothing it does not come to owe.
LEMMA TriggerWaits ==
  ASSUME NEW rm \in Rooms, NEW reason \in Reasons, NEW from \in Cursors, IsReconciling(rm),
         NEW ep, NEW id, NEW om \in Int, NEW nm \in Int, nm = om \/ nm <= from
  PROVE  Waits(Trigger(rm, reason, from, ep, id), rm, nm, om)
<1> DEFINE n == NoteTriggerEvidence(rm, reason, from)
           c == CoalesceRerun(n, reason, from)
<1>1. n \in Rooms /\ Alike(n, rm) /\ n.required_frontier >= rm.required_frontier
      /\ n.required_frontier >= from
  BY Noting
<1>2. Trigger(rm, reason, from, ep, id) = Settled(c)
  BY DEF Trigger
<1> HIDE DEF n
<1>3. IsReconciling(n)
  BY <1>1 DEF Alike, IsReconciling
<1>4. c.required_frontier = n.required_frontier
  BY <1>1, <1>3, Coalescing
<1> HIDE DEF c
<1>5. Settled(c).room = c /\ Settled(c).issue = <<>>
  BY Effects
<1>6. n.required_frontier \in Int /\ from \in Int
  BY <1>1, RoomFields DEF Cursors, NoPos
<1> QED BY <1>1, <1>2, <1>4, <1>5, <1>6 DEF Waits

\* A push that arrives while a read is in flight.
LEMMA LiveWaits ==
  ASSUME NEW rm \in Rooms, NEW x, IsReconciling(rm), NEW ep, NEW id, NEW nm
  PROVE  Waits(OnLiveEvent(rm, x, ep, id), rm, nm, nm)
<1> DEFINE r2 == [rm EXCEPT !.phase.buffer = BufferLive(@, x)]
<1>1. OnLiveEvent(rm, x, ep, id) = Settled(r2)
  BY DEF OnLiveEvent, IsReconciling, IsConverged
<1>2. r2.required_frontier = rm.required_frontier /\ rm.required_frontier \in Int
  BY RoomFields DEF Rooms
<1> HIDE DEF r2
<1>3. Settled(r2).room = r2 /\ Settled(r2).issue = <<>>
  BY Effects
<1> QED BY <1>1, <1>2, <1>3 DEF Waits

\* So for a junk push.
LEMMA JunkWaits ==
  ASSUME NEW rm \in Rooms, IsReconciling(rm), NEW ep, NEW id, NEW nm
  PROVE  Waits(OnJunk(rm, ep, id), rm, nm, nm)
<1> DEFINE r2 == [rm EXCEPT !.phase.rerun = Coalesce(@, ProtocolGap)]
<1>1. OnJunk(rm, ep, id) = Settled(r2)
  BY DEF OnJunk, IsReconciling, IsConverged
<1>2. r2.required_frontier = rm.required_frontier /\ rm.required_frontier \in Int
  BY RoomFields DEF Rooms
<1> HIDE DEF r2
<1>3. Settled(r2).room = r2 /\ Settled(r2).issue = <<>>
  BY Effects
<1> QED BY <1>1, <1>2, <1>3 DEF Waits

\* What a handler leaves of the invariant, whatever the room was before it.
Left(nm) ==
    /\ room' \in Rooms /\ told' \in Nat /\ IsTracked'
    /\ Within(room', Len(hist)) /\ Continues(room') /\ Named(room', nm, Len(hist))
    /\ ReadsApart'
    /\ \A rd \in reads' : rd \in Reads
    /\ named' = nm => \A rd \in reads' : Answered(rd)'

\* A handler's effect, taken, leaves the invariant of the core.
LEMMA Performed ==
  ASSUME RecInv, UNCHANGED hist,
         NEW e, NEW rm, NEW nm \in Int, NEW ep \in Nat, NEW pending, pending \subseteq reads,
         Outcome(e, rm, nm, ep, FreshId, Len(hist)), Perform(e, pending),
         IsReconciling(rm) =>
           /\ IsTracked /\ room = rm
           /\ \/ \A rd \in pending : ~Current(rd)
              \/ Waits(e, rm, nm, named)
              \/ e.issue # <<>> /\ e.room.phase.read_id = FreshId
  PROVE  Left(nm)
<1> DEFINE h == Len(hist)
           new == [read_id |-> e.room.phase.read_id, epoch |-> e.room.phase.epoch,
                   req |-> e.issue[1], reply |-> NoReply]
<1>1. FreshId \in 0 .. 2 /\ \A rd \in reads : rd.read_id # FreshId
  BY FreshIdIn DEF RecInv, Types
<1>2. room' = e.room /\ told' = e.told
  BY DEF Perform
<1>3. e.room \in Rooms /\ e.told \in Nat /\ Within(e.room, h) /\ Continues(e.room) /\ Named(e.room, nm, h)
  BY DEF Outcome
<1>4. e.room.phase.tag # "Untracked"
  BY <1>3, Holding
<1>5. IsTracked'
  BY <1>2, <1>4 DEF IsTracked
<1>6. reads # {} => OneIsCurrent
  BY DEF RecInv, ReadsApart
<1>7. \A rd \in reads : rd \in Reads /\ Answered(rd)
  BY DEF RecInv, Types
<1>8. \A rd : Current(rd)' <=> IsReconciling(e.room) /\ e.room.phase.epoch = rd.epoch
                               /\ e.room.phase.read_id = rd.read_id
  BY <1>2, <1>5 DEF Current
<1>9. \A rd : rd.reply = NoReply => Answered(rd)'
  BY DEF Answered, NoReply
<1>10. \A rd \in reads : ~Current(rd)' => Answered(rd)'
  BY <1>7 DEF Answered
<1>11. IsReconciling(e.room) => e.room.phase \in Scans /\ e.room.phase.outstanding \in Requests
  BY <1>3, ScanFields
<1>12. e.issue = <<>> => reads' = pending
  BY DEF Perform
<1>13. e.issue # <<>> => reads' = {rd \in pending : Current(rd)} \cup {new}
  BY DEF Perform
<1> SUFFICES /\ reads' # {} => OneIsCurrent'
             /\ \A rd \in reads' : rd \in Reads
             /\ named' = nm => \A rd \in reads' : Answered(rd)'
  BY <1>2, <1>3, <1>5 DEF Left, ReadsApart
<1>14. IsReconciling(e.room) /\ e.issue = <<e.room.phase.outstanding>> =>
         /\ new \in Reads /\ new.reply = NoReply /\ Current(new)'
         /\ new.req = room'.phase.outstanding /\ e.issue # <<>>
  <2> SUFFICES ASSUME IsReconciling(e.room), e.issue = <<e.room.phase.outstanding>>
               PROVE  /\ new \in Reads /\ new.reply = NoReply /\ Current(new)'
                      /\ new.req = room'.phase.outstanding /\ e.issue # <<>>
    OBVIOUS
  <2>1. new.req = e.room.phase.outstanding /\ e.issue # <<>>
    OBVIOUS
  <2>2. e.room.phase.read_id \in 0 .. 2 /\ e.room.phase.epoch \in Nat
    BY <1>11 DEF Scans
  <2>3. new \in Reads
    BY <1>11, <2>1, <2>2 DEF Reads, Replies
  <2> QED BY <1>2, <1>8, <2>1, <2>3
<1> HIDE DEF new
<1>19. pending # {} => \E a, b \in pending : pending \subseteq {a, b}
  <2>1. CASE pending # {}
    <3>1. PICK a, b \in reads : reads \subseteq {a, b}
      BY <1>6, <2>1 DEF OneIsCurrent
    <3>2. PICK c \in pending : TRUE
      BY <2>1
    <3>3. \E d \in pending : pending \subseteq {c, d}
      BY <3>1, <3>2
    <3> QED BY <3>2, <3>3
  <2> QED BY <2>1
<1>15. CASE /\ IsReconciling(e.room) /\ e.room.phase.read_id = FreshId
            /\ e.issue = <<e.room.phase.outstanding>>
  <2>1. reads' = {rd \in pending : Current(rd)} \cup {new}
    BY <1>13, <1>14, <1>15
  <2>2. \A rd \in reads : ~Current(rd)'
    BY <1>1, <1>8, <1>15
  <2>3. \E a \in reads' : \A rd \in reads' : rd = a \/ rd = new
    BY <1>6, <2>1 DEF OneIsCurrent
  <2>4. OneIsCurrent'
    <3>1. \E a, b \in reads' : reads' \subseteq {a, b}
      BY <2>1, <2>3
    <3>2. \A rd \in reads' : Current(rd)' => rd = new
      BY <2>1, <2>2
    <3> QED BY <1>14, <1>15, <3>1, <3>2 DEF OneIsCurrent
  <2> QED BY <1>7, <1>9, <1>10, <1>14, <1>15, <2>1, <2>2, <2>4
<1>16. CASE /\ IsReconciling(e.room) /\ IsReconciling(rm)
            /\ e.room.phase.epoch = rm.phase.epoch /\ e.room.phase.read_id = rm.phase.read_id
            /\ e.room.phase.read_id # FreshId
            /\ e.issue = <<e.room.phase.outstanding>>
  <2>1. \A rd \in pending : ~Current(rd)
    BY <1>14, <1>16 DEF Waits
  <2>2. reads' = {new}
    BY <1>13, <1>14, <1>16, <2>1
  <2> QED BY <1>9, <1>14, <1>16, <2>2 DEF OneIsCurrent
<1>17. CASE /\ IsReconciling(e.room) /\ IsReconciling(rm)
            /\ e.room.phase.epoch = rm.phase.epoch /\ e.room.phase.read_id = rm.phase.read_id
            /\ e.issue = <<>> /\ e.room.phase.outstanding = rm.phase.outstanding
  <2>1. reads' = pending
    BY <1>12, <1>17
  <2>2. \A rd : Current(rd)' <=> Current(rd)
    BY <1>8, <1>17 DEF Current
  <2>3. room'.phase.outstanding = room.phase.outstanding
    BY <1>2, <1>17
  <2>4. reads' # {} => OneIsCurrent'
    BY <1>6, <1>19, <2>1, <2>2, <2>3 DEF OneIsCurrent
  <2>5. ASSUME named' = nm, NEW rd \in pending
        PROVE  Answered(rd)'
    <3>1. CASE ~Current(rd)
      BY <1>10, <2>2, <3>1
    <3>2. CASE Current(rd)
      <4>1. room'.required_frontier >= room.required_frontier
            /\ (nm = named \/ nm <= room'.required_frontier)
        BY <1>2, <1>17, <3>2 DEF Waits
      <4>2. room \in Rooms
        BY <1>17 DEF RecInv, Types, IsTracked, Untracked
      <4>3. room'.required_frontier \in Int /\ room.required_frontier \in Int
        BY <1>2, <1>3, <4>2, RoomFields
      <4>4. Answered(rd) /\ named \in Int
        BY <1>7 DEF RecInv, Types
      <4> QED BY <2>2, <2>5, <3>2, <4>1, <4>3, <4>4 DEF Answered
    <3> QED BY <3>1, <3>2
  <2> QED BY <1>7, <2>1, <2>4, <2>5
<1>18. CASE ~IsReconciling(e.room) /\ e.issue = <<>>
  <2>1. reads' = pending
    BY <1>12, <1>18
  <2>2. \A rd : ~Current(rd)'
    BY <1>8, <1>18
  <2>3. reads' # {} => OneIsCurrent'
    BY <1>6, <1>19, <2>1, <2>2 DEF OneIsCurrent
  <2> QED BY <1>7, <1>10, <2>1, <2>2, <2>3
<1> QED BY <1>15, <1>16, <1>17, <1>18 DEF Outcome

\* A mailbox holds what is broadcast to it, merged or counted, and nothing else.
LEMMA NoticeFields ==
  ASSUME NEW h \in Nat, NEW n \in NoticesTo(h)
  PROVE  /\ n.type \in {"event", "gap", "junk", "lagged", "state"}
         /\ n.type = "event" => n \in Pushes /\ n.pos < h
         /\ n.type = "gap" => n.from \in Nat /\ n.from < h
         /\ n.type = "lagged" => n.dropped \in Nat /\ n \in [type : {"lagged"}, dropped : Nat]
         /\ n.type = "state" =>
              /\ n.from \in {"Ready", "Down"} /\ n.to \in {"Ready", "Down"} /\ n.problem \in BOOLEAN
              /\ n \in [type : {"state"}, from : {"Ready", "Down"}, to : {"Ready", "Down"}, problem : BOOLEAN]
BY DEF NoticesTo, Notices, Pushes

\* A loss marker may be in any mailbox.
LEMMA MarkerIn ==
  ASSUME NEW h \in Nat, NEW n \in Nat
  PROVE  Lagged(n) \in NoticesTo(h)
BY DEF Lagged, NoticesTo, Notices

\* A pending loss is flushed into the mailbox.
LEMMA FlushedIn ==
  ASSUME NEW h \in Nat, NEW b \in Boxes(h)
  PROVE  Flushed(b) \in Boxes(h)
<1>1. b.q \in Seq(NoticesTo(h)) /\ b.lost \in Nat
  BY DEF Boxes
<1>2. Lagged(b.lost) \in NoticesTo(h)
  BY <1>1, MarkerIn
<1>3. Append(b.q, Lagged(b.lost)) \in Seq(NoticesTo(h))
  BY <1>1, <1>2
<1> QED BY <1>3 DEF Flushed, Boxes

\* A transition absorbed by the one at the tail.
LEMMA CoalescedIn ==
  ASSUME NEW h \in Nat, NEW b \in Boxes(h), NEW ev \in NoticesTo(h), Coalesces(b, ev)
  PROVE  Coalesced(b, ev) \in Boxes(h)
<1> DEFINE N == NoticesTo(h)
           n == Len(b.q)
           tail == b.q[n]
           merged == [tail EXCEPT !.to = ev.to, !.problem = @ \/ tail.to = "Down"]
           before == SubSeq(b.q, 1, n - 1)
<1>1. b.q \in Seq(N) /\ b.lost \in Nat /\ n \in Nat
  BY DEF Boxes
<1>2. n >= 1
  BY BoxCapAssumption DEF Coalesces, Full
<1>3. tail \in N /\ tail.type = "state" /\ ev.type = "state"
  BY <1>1, <1>2 DEF Coalesces
<1>4. merged \in N
  <2>1. /\ tail \in [type : {"state"}, from : {"Ready", "Down"}, to : {"Ready", "Down"}, problem : BOOLEAN]
        /\ ev.to \in {"Ready", "Down"}
    BY <1>3, NoticeFields
  <2> HIDE DEF tail
  <2>2. merged \in [type : {"state"}, from : {"Ready", "Down"}, to : {"Ready", "Down"}, problem : BOOLEAN]
    BY <2>1
  <2>3. merged.type = "state"
    BY <2>2
  <2> HIDE DEF merged
  <2> QED BY <2>2, <2>3 DEF NoticesTo, Notices
<1>5. before \in Seq(N) /\ Len(before) = n - 1
  BY <1>1, <1>2
<1> HIDE DEF merged, before, tail, N
<1>6. CASE b.lost = 0
  <2> DEFINE q2 == [b.q EXCEPT ![n] = merged]
  <2>1. q2 \in Seq(N)
    BY <1>1, <1>2, <1>4, ExceptSeq
  <2>2. Coalesced(b, ev) = [b EXCEPT !.q = q2]
    BY <1>6 DEF Coalesced, merged, tail
  <2> HIDE DEF q2
  <2> QED BY <1>1, <2>1, <2>2 DEF Boxes, N
<1>7. CASE b.lost > 0 /\ n > 1 /\ b.q[n - 1].type = "lagged"
  <2> DEFINE m == before[n - 1]
             mk == [m EXCEPT !.dropped = @ + b.lost]
             q2 == [before EXCEPT ![n - 1] = mk]
  <2>1. m = b.q[n - 1] /\ m \in N
    BY <1>1, <1>5, <1>7 DEF before
  <2>2. m \in [type : {"lagged"}, dropped : Nat]
    BY <1>7, <2>1, NoticeFields DEF N
  <2> HIDE DEF m
  <2>3. mk \in [type : {"lagged"}, dropped : Nat] /\ mk.type = "lagged"
    BY <1>1, <2>2
  <2>4. mk \in N
    BY <2>3 DEF N, NoticesTo, Notices
  <2> HIDE DEF mk
  <2>5. q2 \in Seq(N)
    BY <1>1, <1>5, <1>7, <2>4, ExceptSeq
  <2>6. Append(q2, merged) \in Seq(N)
    BY <1>4, <2>5
  <2>7. Coalesced(b, ev) = [q |-> Append(q2, merged), lost |-> 0]
    <3>1. Coalesced(b, ev) = [q |-> Append([before EXCEPT ![n - 1].dropped = @ + b.lost], merged), lost |-> 0]
      <4>1. ~(b.lost = 0) /\ b.lost > 0 /\ n > 1 /\ b.q[n - 1].type = "lagged"
        BY <1>1, <1>7
      <4> QED BY <4>1, Zenon DEF Coalesced, merged, tail, before
    <3>2. [before EXCEPT ![n - 1].dropped = @ + b.lost] = q2
      BY DEF m, mk
    <3> QED BY <3>1, <3>2
  <2> HIDE DEF q2
  <2> QED BY <2>6, <2>7 DEF Boxes, N
<1>8. CASE b.lost > 0 /\ ~(n > 1 /\ b.q[n - 1].type = "lagged")
  <2>1. Lagged(b.lost) \in N
    BY <1>1, MarkerIn DEF N
  <2>2. before \o <<Lagged(b.lost), merged>> \in Seq(N)
    BY <1>4, <1>5, <2>1
  <2>3. Coalesced(b, ev) = [q |-> before \o <<Lagged(b.lost), merged>>, lost |-> 0]
    BY <1>8 DEF Coalesced, merged, tail, before
  <2> QED BY <2>2, <2>3 DEF Boxes, N
<1> QED BY <1>1, <1>6, <1>7, <1>8

\* EventBus::broadcast.
LEMMA BroadcastIn ==
  ASSUME NEW h \in Nat, NEW b \in Boxes(h), NEW ev \in NoticesTo(h)
  PROVE  Broadcast(b, ev) \in Boxes(h)
<1>1. CASE Coalesces(b, ev)
  BY <1>1, CoalescedIn DEF Broadcast
<1>2. ASSUME NEW c \in Boxes(h)
      PROVE  /\ [c EXCEPT !.q = Append(@, ev)] \in Boxes(h)
             /\ [c EXCEPT !.lost = @ + 1] \in Boxes(h)
  <2>1. c.q \in Seq(NoticesTo(h)) /\ c.lost \in Nat
    BY DEF Boxes
  <2>2. Append(c.q, ev) \in Seq(NoticesTo(h)) /\ c.lost + 1 \in Nat
    BY <2>1
  <2>3. /\ [c EXCEPT !.q = Append(c.q, ev)] \in [q : Seq(NoticesTo(h)), lost : Nat]
        /\ [c EXCEPT !.lost = c.lost + 1] \in [q : Seq(NoticesTo(h)), lost : Nat]
    <3> DEFINE S == Seq(NoticesTo(h))
    <3>1. c \in [q : S, lost : Nat] /\ Append(c.q, ev) \in S
      BY <2>2 DEF Boxes
    <3> HIDE DEF S
    <3>2. /\ [c EXCEPT !.q = Append(c.q, ev)] \in [q : S, lost : Nat]
          /\ [c EXCEPT !.lost = c.lost + 1] \in [q : S, lost : Nat]
      BY <2>2, <3>1
    <3> QED BY <3>2 DEF S
  <2> QED BY <2>3 DEF Boxes
<1>3. CASE ~Coalesces(b, ev)
  <2>1. Flushed(b) \in Boxes(h)
    BY FlushedIn
  <2> QED BY <1>2, <1>3, <2>1 DEF Broadcast
<1> QED BY <1>1, <1>3

\* The history only grows: what is on its way stays within it.
LEMMA BoxGrows ==
  ASSUME NEW h \in Nat, NEW b \in Boxes(h)
  PROVE  b \in Boxes(h + 1) /\ Boxes(h) \subseteq Boxes(h + 1) /\ EmptyBox \in Boxes(h)
<1>1. NoticesTo(h) \subseteq NoticesTo(h + 1)
  <2> SUFFICES ASSUME NEW n \in NoticesTo(h)
               PROVE  n \in NoticesTo(h + 1)
    OBVIOUS
  <2>1. n \in Notices /\ (n.type = "event" => n.pos < h) /\ (n.type = "gap" => n.from < h)
    BY DEF NoticesTo
  <2>2. n.type = "event" => n.pos \in Nat
    BY NoticeFields DEF Pushes
  <2>3. n.type = "gap" => n.from \in Nat
    BY NoticeFields
  <2> QED BY <2>1, <2>2, <2>3 DEF NoticesTo
<1>2. Boxes(h) \subseteq Boxes(h + 1)
  BY <1>1 DEF Boxes
<1> QED BY <1>2 DEF EmptyBox, Boxes

\* The next event of a subscription, and what it leaves.
LEMMA PolledIn ==
  ASSUME NEW h \in Nat, NEW b \in Boxes(h), Readable(b)
  PROVE  /\ Polled(b) \in Boxes(h) /\ Polled(b) # b
         /\ Yielded(b) \in NoticesTo(h)
<1>1. b.q \in Seq(NoticesTo(h)) /\ b.lost \in Nat
  BY DEF Boxes
<1>2. CASE b.q # <<>>
  <2>1. Tail(b.q) \in Seq(NoticesTo(h)) /\ Len(Tail(b.q)) # Len(b.q) /\ Head(b.q) \in NoticesTo(h)
    BY <1>1, <1>2
  <2>2. Polled(b) = [b EXCEPT !.q = Tail(b.q)]
    BY <1>2 DEF Polled
  <2>3. Polled(b).q = Tail(b.q) /\ Polled(b) \in Boxes(h)
    BY <1>1, <2>1, <2>2 DEF Boxes
  <2> QED BY <1>2, <2>1, <2>3 DEF Yielded
<1>3. CASE b.q = <<>>
  <2>1. b.lost > 0
    BY <1>3, <1>1 DEF Readable
  <2>2. Polled(b) = EmptyBox /\ Yielded(b) = Lagged(b.lost)
    BY <1>3 DEF Polled, Yielded
  <2>3. EmptyBox.lost = 0
    BY DEF EmptyBox
  <2> QED BY <1>1, <2>1, <2>2, <2>3, MarkerIn, BoxGrows
<1> QED BY <1>2, <1>3

\* What the room owes of the loss after a step that brings it inc more.
Owes(inc) == room'.phase.tag # "Untracked" => Held(room') + told' >= Held(room) + inc

\* What a handler leaves: an outcome of the room, or nothing changed.
Taken == \/ Left(named')
         \/ told' = 0 /\ UNCHANGED <<room, reads, named>>

\* What an untracked room is.
LEMMA Untracks ==
  /\ ~IsTracked <=> room.phase.tag = "Untracked"
  /\ Untracked.phase.tag = "Untracked" /\ Held(Untracked) = 0 /\ ~IsReconciling(Untracked)
BY DEF IsTracked, Untracked, Held, IsReconciling

\* What the invariant says of the room.
LEMMA Tracking ==
  ASSUME RecInv
  PROVE  /\ IsTracked => /\ room \in Rooms /\ Within(room, Len(hist)) /\ Continues(room)
                         /\ Named(room, named, Len(hist)) /\ Fit(room, Len(hist))
                         /\ Owed(room, named, Len(hist))
         /\ ~IsTracked => room = Untracked /\ named = NoPos
         /\ Len(hist) \in Nat \ {0} /\ named \in Int /\ epoch \in Nat
         /\ Held(room) \in Nat
<1>1. room \in Rooms \/ room = Untracked
  BY DEF RecInv, Types
<1>2. IsTracked => room \in Rooms
  BY <1>1, Untracks
<1>3. ASSUME ~IsTracked
      PROVE  room = Untracked
  <2>1. room \in Rooms => IsTracked
    BY Holding DEF IsTracked
  <2> QED BY <1>1, <1>3, <2>1
<1>4. Held(room) \in Nat
  BY <1>1, Holding, Untracks
<1>5. IsTracked => Within(room, Len(hist)) /\ Continues(room) /\ Named(room, named, Len(hist))
  BY DEF RecInv
<1>6. IsTracked => Fit(room, Len(hist))
  BY <1>5 DEF Fit, Within
<1>7. IsTracked => Owed(room, named, Len(hist))
  BY <1>5 DEF Owed, Named
<1>8. Len(hist) \in Nat \ {0} /\ named \in Int /\ epoch \in Nat
  BY DEF RecInv, Types
<1> QED BY <1>2, <1>3, <1>4, <1>5, <1>6, <1>7, <1>8 DEF RecInv

\* A handler that took its effect leaves the invariant, whatever else of it moved.
LEMMA Ending ==
  ASSUME RecInv, Taken, named' \in Int, UNCHANGED hist, box' \in Boxes(Len(hist)),
         link' \in {"Ready", "Down"}, state' \in {"Ready", "Down"}, epoch' \in Nat, junk' \in Nat
  PROVE  RecInv'
<1>1. CASE Left(named')
  <2>1. Types'
    <3>1. hist' \in Seq(Nat) /\ Len(hist') >= 1 /\ box' \in Boxes(Len(hist'))
      BY DEF RecInv, Types
    <3> QED BY <1>1, <3>1 DEF Left, Types
  <2>2. \A rd \in reads' : Answered(rd)'
    BY <1>1 DEF Left
  <2>3. Within(room', Len(hist')) /\ Continues(room') /\ Named(room', named', Len(hist'))
    BY <1>1 DEF Left
  <2> QED BY <1>1, <2>1, <2>2, <2>3 DEF Left, RecInv
<1>2. CASE told' = 0 /\ UNCHANGED <<room, reads, named>>
  <2>1. Types'
    <3>1. hist' \in Seq(Nat) /\ Len(hist') >= 1 /\ box' \in Boxes(Len(hist'))
      BY DEF RecInv, Types
    <3>2. room' \in Rooms \cup {Untracked} /\ \A rd \in reads' : rd \in Reads
      BY <1>2 DEF RecInv, Types
    <3> QED BY <1>2, <3>1, <3>2 DEF Types
  <2>2. \A rd : Current(rd)' <=> Current(rd)
    BY <1>2 DEF Current, IsTracked
  <2>3. ReadsApart'
    BY <1>2, <2>2 DEF RecInv, ReadsApart, OneIsCurrent
  <2>4. \A rd \in reads' : Answered(rd)'
    BY <1>2, <2>2 DEF RecInv, Answered
  <2> QED BY <1>2, <2>1, <2>3, <2>4 DEF RecInv, IsTracked
<1> QED BY <1>1, <1>2 DEF Taken

\* A relaunch: whatever was in flight, a new read begins.
LEMMA Relaunched ==
  ASSUME RecInv, NEW reason \in Reasons, NEW at \in Nat, Relaunch(reason, at), UNCHANGED <<hist, named>>
  PROVE  Taken /\ Owes(0)
<1> DEFINE h == Len(hist)
           e == Launch(room, reason, NoPos, at, FreshId)
<1>1. CASE ~IsTracked
  <2>1. told' = 0 /\ UNCHANGED <<room, reads>>
    BY <1>1 DEF Relaunch, Ignore, Quiet
  <2>2. Held(room) \in Nat
    BY Tracking
  <2> QED BY <2>1, <2>2 DEF Taken, Owes
<1>2. CASE IsTracked
  <2>1. room \in Rooms /\ Fit(room, h) /\ Owed(room, named, h) /\ h \in Nat \ {0} /\ named \in Int
        /\ Held(room) \in Nat
    BY <1>2, Tracking
  <2>2. FreshId \in 0 .. 2
    BY FreshIdIn DEF RecInv, Types
  <2>3. NoPos \in Cursors /\ OverflowDropped(reason) \in Nat
    BY ReasonFields DEF Cursors
  <2>4. /\ Outcome(e, room, named, at, FreshId, h) /\ e.issue # <<>> /\ e.room.phase.read_id = FreshId
        /\ Held(e.room) + e.told >= Held(room) + OverflowDropped(reason)
    <3>1. Owed(room, named, h) \/ named <= NoPos
      BY <2>1
    <3> HIDE DEF e, h
    <3> QED BY <2>1, <2>2, <2>3, <3>1, LaunchOutcome DEF e
  <2>5. Perform(e, reads)
    BY <1>2 DEF Relaunch
  <2> HIDE DEF e
  <2>6. Left(named)
    BY <1>2, <2>1, <2>4, <2>5, Performed
  <2>7. room' = e.room /\ told' = e.told
    BY <2>5 DEF Perform
  <2>8. e.told \in Nat /\ Held(e.room) \in Nat
    BY <2>4, Holding DEF Outcome
  <2>9. Taken
    BY <2>6 DEF Taken
  <2>10. Held(e.room) + e.told >= Held(room) + 0
    BY <2>1, <2>3, <2>4, <2>8
  <2> QED BY <2>7, <2>9, <2>10 DEF Owes
<1> QED BY <1>1, <1>2

\* A trigger from the core: the position named is owed.
LEMMA Triggered ==
  ASSUME RecInv, NEW reason \in Reasons, NEW from \in Cursors, OnTrigger(reason, from), UNCHANGED hist,
         named' = named \/ named' = IF IsTracked /\ from > named THEN from ELSE named
  PROVE  Taken /\ Owes(OverflowDropped(reason)) /\ named' \in Int
<1> DEFINE h == Len(hist)
           e == Trigger(room, reason, from, epoch, FreshId)
<1>0. from \in Int /\ named \in Int /\ named' \in Int
  BY Tracking DEF Cursors, NoPos
<1>1. CASE ~IsTracked
  <2>1. told' = 0 /\ UNCHANGED <<room, reads>> /\ named' = named
    BY <1>1 DEF OnTrigger, Ignore, Quiet
  <2>2. room.phase.tag = "Untracked"
    BY <1>1, Untracks
  <2> QED BY <1>0, <2>1, <2>2 DEF Taken, Owes
<1>2. CASE IsTracked
  <2>1. room \in Rooms /\ Within(room, h) /\ Continues(room) /\ Named(room, named, h)
        /\ h \in Nat \ {0} /\ named \in Int /\ epoch \in Nat
    BY <1>2, Tracking
  <2>2. FreshId \in 0 .. 2
    BY FreshIdIn DEF RecInv, Types
  <2>3. named' = named \/ named' <= from
    BY <1>0
  <2>4. /\ Outcome(e, room, named', epoch, FreshId, h)
        /\ Held(e.room) + e.told >= Held(room) + OverflowDropped(reason)
    <3> HIDE DEF e, h
    <3> QED BY <1>0, <2>1, <2>2, <2>3, TriggerOutcome DEF e
  <2>5. Perform(e, reads)
    BY <1>2 DEF OnTrigger
  <2>6. IsReconciling(room) => Waits(e, room, named', named)
    BY <1>0, <2>1, <2>3, TriggerWaits
  <2> HIDE DEF e
  <2>7. Left(named')
    BY <1>0, <1>2, <2>1, <2>4, <2>5, <2>6, Performed
  <2>8. room' = e.room /\ told' = e.told
    BY <2>5 DEF Perform
  <2>9. Taken
    BY <2>7 DEF Taken
  <2> QED BY <1>0, <2>4, <2>8, <2>9 DEF Owes
<1> QED BY <1>1, <1>2

\* Only Consume takes an event from the mailbox and leaves the rest alone.
LEMMA NotConsumed ==
  ASSUME RecInv, Owes(0), box' = box \/ hist' # hist \/ link' # link \/ junk' # junk
  PROVE  KeepsLoss
<1>1. ~Consume
  <2> SUFFICES ASSUME Consume PROVE FALSE
    OBVIOUS
  <2>1. Readable(box) /\ box' = Polled(box) /\ UNCHANGED <<hist, link, junk>>
    BY DEF Consume, envVars
  <2>2. box \in Boxes(Len(hist)) /\ Len(hist) \in Nat
    BY DEF RecInv, Types
  <2> QED BY <2>1, <2>2, PolledIn
<1> QED BY <1>1 DEF KeepsLoss, Owes

\* A step that does not touch the room owes nothing.
LEMMA Unmoved ==
  ASSUME RecInv, Quiet, room' = room
  PROVE  Owes(0)
<1>1. Held(room) \in Nat
  BY Tracking
<1> QED BY <1>1 DEF Owes, Quiet

\* Subscribe keeps the invariant and the loss.
LEMMA SubscribeKeeps ==
  ASSUME RecInv, Subscribe
  PROVE  RecInv' /\ KeepsLoss
<1>1. Quiet /\ UNCHANGED <<hist, link, junk, box, state, epoch, room, reads, named>>
  BY DEF Subscribe, envVars
<1>2. Taken
  BY <1>1 DEF Taken, Quiet
<1>3. RecInv'
  BY <1>1, <1>2, Ending DEF RecInv, Types
<1> QED BY <1>1, <1>3, Unmoved, NotConsumed

\* Core::on_lifecycle, over the subscription or not.
LEMMA LifecycleKeeps ==
  ASSUME RecInv, NEW observed \in BOOLEAN, NEW from \in {"Ready", "Down"}, NEW to \in {"Ready", "Down"},
         NEW problem \in BOOLEAN, OnLifecycle(observed, from, to, problem), UNCHANGED <<hist, named>>
  PROVE  Taken /\ Owes(0) /\ state' \in {"Ready", "Down"} /\ epoch' \in Nat
<1> DEFINE stale == observed /\ ~problem /\ from # state
           same == observed /\ ~problem /\ from = to
           reconnect == to = "Ready" /\ (~observed \/ state # "Ready" \/ problem)
<1>1. state \in {"Ready", "Down"} /\ epoch \in Nat
  BY DEF RecInv, Types
<1>2. state' \in {"Ready", "Down"}
  BY <1>1 DEF OnLifecycle
<1>3. CASE ~stale /\ ~same /\ reconnect
  <2>1. epoch' = epoch + 1 /\ Relaunch(IF seen_ready THEN Reconnect ELSE Bootstrap, epoch + 1)
    BY <1>3 DEF OnLifecycle
  <2>2. (IF seen_ready THEN Reconnect ELSE Bootstrap) \in Reasons
    BY Causes
  <2>3. epoch + 1 \in Nat
    BY <1>1
  <2>4. Taken /\ Owes(0)
    <3> DEFINE why == IF seen_ready THEN Reconnect ELSE Bootstrap
               at == epoch + 1
    <3>1. why \in Reasons /\ at \in Nat /\ Relaunch(why, at)
      BY <2>1, <2>2, <2>3
    <3> HIDE DEF why, at
    <3> QED BY <3>1, Relaunched
  <2> QED BY <1>2, <2>1, <2>3, <2>4
<1>4. CASE ~(~stale /\ ~same /\ reconnect)
  <2>1. Ignore /\ epoch' = epoch
    BY <1>4 DEF OnLifecycle
  <2>2. Taken
    BY <2>1 DEF Taken, Ignore, Quiet
  <2> QED BY <1>1, <1>2, <2>1, <2>2, Unmoved DEF Ignore
<1> QED BY <1>3, <1>4

\* Start keeps the invariant and the loss.
LEMMA StartKeeps ==
  ASSUME RecInv, Start
  PROVE  RecInv' /\ KeepsLoss
<1>1. OnLifecycle(FALSE, link, link, FALSE) /\ UNCHANGED <<hist, link, junk, box, named>>
  BY DEF Start, envVars
<1>2. link \in {"Ready", "Down"}
  BY DEF RecInv, Types
<1>3. Taken /\ Owes(0) /\ state' \in {"Ready", "Down"} /\ epoch' \in Nat
  BY <1>1, <1>2, LifecycleKeeps
<1>4. RecInv'
  BY <1>1, <1>2, <1>3, Ending DEF RecInv, Types
<1> QED BY <1>1, <1>3, <1>4, NotConsumed

\* So does Resume.
LEMMA ResumeKeeps ==
  ASSUME RecInv, Resume
  PROVE  RecInv' /\ KeepsLoss
<1>1. /\ epoch' = epoch + 1 /\ Relaunch(Reconnect, epoch + 1)
      /\ UNCHANGED <<hist, link, junk, box, state, named>>
  BY DEF Resume
<1>2. epoch + 1 \in Nat /\ Reconnect \in Reasons
  BY Causes DEF RecInv, Types
<1>3. Taken /\ Owes(0)
  <2> DEFINE at == epoch + 1
  <2>1. at \in Nat /\ Relaunch(Reconnect, at)
    BY <1>1, <1>2
  <2> HIDE DEF at
  <2> QED BY <1>1, <1>2, <2>1, Relaunched
<1>4. RecInv'
  BY <1>1, <1>2, <1>3, Ending DEF RecInv, Types
<1> QED BY <1>1, <1>3, <1>4, NotConsumed

\* So does a push that cannot be decoded.
LEMMA DecodeFailedKeeps ==
  ASSUME RecInv, DecodeFailed
  PROVE  RecInv' /\ KeepsLoss
<1>1. OnTrigger(ProtocolGap, NoPos) /\ UNCHANGED <<hist, link, junk, box, state, epoch, named>>
  BY DEF DecodeFailed, coreVars
<1>2. ProtocolGap \in Reasons /\ NoPos \in Cursors /\ OverflowDropped(ProtocolGap) = 0
  BY Causes DEF Cursors
<1>3. Taken /\ Owes(0) /\ named' \in Int
  BY <1>1, <1>2, Triggered
<1>4. RecInv'
  BY <1>1, <1>3, Ending DEF RecInv, Types
<1> QED BY <1>1, <1>3, <1>4, NotConsumed

\* Some of the reads in flight are two at most.
LEMMA FewerReads ==
  ASSUME ReadsApart, NEW S, S \subseteq reads, S # {}
  PROVE  \E a, b \in S : S \subseteq {a, b}
<1>1. PICK a, b \in reads : reads \subseteq {a, b}
  BY DEF ReadsApart, OneIsCurrent
<1>2. PICK c \in S : TRUE
  OBVIOUS
<1>3. \E d \in S : S \subseteq {c, d}
  BY <1>1, <1>2
<1> QED BY <1>2, <1>3

\* A forgotten room owes nothing, and its reads are for nobody.
LEMMA ForgottenKeeps ==
  ASSUME RecInv, Forgotten, reads' \subseteq reads,
         UNCHANGED hist, box' \in Boxes(Len(hist)),
         link' \in {"Ready", "Down"}, state' \in {"Ready", "Down"}, epoch' \in Nat, junk' \in Nat
  PROVE  RecInv' /\ KeepsLoss
<1>1. room' = Untracked /\ named' = NoPos /\ told' = 0
  BY DEF Forgotten, Quiet
<1>2. ~IsTracked' /\ room'.phase.tag = "Untracked"
  BY <1>1, Untracks DEF IsTracked
<1>3. \A rd : ~Current(rd)'
  BY <1>2 DEF Current
<1>4. Types'
  <2>1. hist' \in Seq(Nat) /\ Len(hist') >= 1 /\ box' \in Boxes(Len(hist'))
    BY DEF RecInv, Types
  <2>2. named' \in Int /\ told' \in Nat
    BY <1>1 DEF NoPos
  <2> QED BY <1>1, <2>1, <2>2 DEF RecInv, Types
<1>5. ReadsApart'
  <2>1. reads' # {} => \E a, b \in reads' : reads' \subseteq {a, b}
    BY FewerReads DEF RecInv
  <2> QED BY <1>3, <2>1 DEF ReadsApart, OneIsCurrent
<1>6. \A rd \in reads' : Answered(rd)'
  BY <1>3 DEF RecInv, Answered
<1> QED BY <1>1, <1>2, <1>4, <1>5, <1>6 DEF RecInv, KeepsLoss

\* Deactivate keeps the invariant and the loss.
LEMMA DeactivateKeeps ==
  ASSUME RecInv, Deactivate
  PROVE  RecInv' /\ KeepsLoss
<1>1. Forgotten /\ reads' \subseteq reads /\ UNCHANGED <<hist, link, junk, box, state, epoch>>
  BY DEF Deactivate, coreVars
<1> QED BY <1>1, ForgottenKeeps DEF RecInv, Types

\* So does Stop.
LEMMA StopKeeps ==
  ASSUME RecInv, Stop
  PROVE  RecInv' /\ KeepsLoss
<1>1. Forgotten /\ reads' \subseteq reads /\ box' = EmptyBox /\ UNCHANGED <<hist, link, junk, state, epoch>>
  BY DEF Stop
<1>2. Len(hist) \in Nat /\ box \in Boxes(Len(hist))
  BY DEF RecInv, Types
<1>3. box' \in Boxes(Len(hist))
  BY <1>1, <1>2, BoxGrows
<1> QED BY <1>1, <1>3, ForgottenKeeps DEF RecInv, Types

\* A room that has just been activated.
LEMMA NewRoomIn ==
  ASSUME NEW anchor \in Nat, NEW h \in Nat \ {0}
  PROVE  LET n == NewRoom(anchor)
         IN  /\ n \in Rooms /\ n.phase = Parked(Bootstrap) /\ ~IsReconciling(n)
             /\ Fit(n, h) /\ Owed(n, NoPos, h)
<1> DEFINE n == NewRoom(anchor)
<1>1. Parked(Bootstrap) \in Phases
  BY Causes, ParkedIn
<1>2. EmptyBuffer \in Buffers /\ Below(EmptyBuffer.q, h)
  BY EmptyBufferIn
<1>3. n \in Rooms
  BY <1>1, <1>2 DEF NewRoom, Rooms, Cursors, NoPos
<1>4. n.phase = Parked(Bootstrap) /\ ~IsReconciling(n)
  BY DEF NewRoom, Parked, IsReconciling
<1>5. n.known = <<>> /\ n.parked_buffer = EmptyBuffer
  BY DEF NewRoom
<1>6. Fit(n, h)
  BY <1>2, <1>4, <1>5 DEF Fit
<1>7. Owed(n, NoPos, h)
  BY DEF Owed, NoPos
<1> QED BY <1>3, <1>4, <1>6, <1>7

\* The rest of what Activate may leave of a room tracked already.
LEMMA Marking ==
  ASSUME NEW rm \in Rooms, NEW anchor \in Nat
  PROVE  LET m == [rm EXCEPT !.bootstrap_anchor = anchor, !.pending_bootstrap = TRUE]
         IN  /\ m \in Rooms /\ Kin(m, rm) /\ m.known = rm.known /\ Held(m) = Held(rm)
             /\ IsReconciling(m) <=> IsReconciling(rm)
<1> DEFINE m == [rm EXCEPT !.bootstrap_anchor = anchor, !.pending_bootstrap = TRUE]
<1>1. m \in Rooms /\ Kin(m, rm) /\ m.known = rm.known
  BY DEF Rooms, Kin
<1> HIDE DEF m
<1>2. Held(m) = Held(rm) /\ (IsReconciling(m) <=> IsReconciling(rm))
  BY <1>1 DEF Held, Kin, PendingCause, IsReconciling
<1> QED BY <1>1, <1>2 DEF m

\* Activate keeps the invariant and the loss.
LEMMA ActivateKeeps ==
  ASSUME RecInv, NEW anchor \in Anchors, Activate(anchor)
  PROVE  RecInv' /\ KeepsLoss
<1> DEFINE h == Len(hist)
           n == NewRoom(anchor)
           m == [room EXCEPT !.bootstrap_anchor = anchor, !.pending_bootstrap = TRUE]
           ln == Launch(n, Bootstrap, NoPos, epoch, FreshId)
           lm == Launch(m, Bootstrap, NoPos, epoch, FreshId)
<1>1. anchor \in Nat /\ UNCHANGED <<hist, link, junk, box, state, epoch, named>>
  BY ReconcilerAssumption DEF Activate, coreVars
<1>2. h \in Nat \ {0} /\ named \in Int /\ epoch \in Nat /\ Held(room) \in Nat /\ FreshId \in 0 .. 2
  BY Tracking, FreshIdIn DEF RecInv, Types
<1>3. Bootstrap \in Reasons /\ NoPos \in Cursors /\ OverflowDropped(Bootstrap) = 0
  BY Causes DEF Cursors
<1>4. /\ n \in Rooms /\ n.phase = Parked(Bootstrap) /\ ~IsReconciling(n)
      /\ Fit(n, h) /\ Owed(n, NoPos, h)
  BY <1>1, <1>2, NewRoomIn
<1>7. ASSUME Taken, Owes(0) PROVE RecInv' /\ KeepsLoss
  BY <1>1, <1>7, Ending, NotConsumed DEF RecInv, Types
<1>5. CASE ~IsTracked
  <2>1. named = NoPos /\ room = Untracked /\ Held(room) = 0
    BY <1>5, Tracking, Untracks
  <2>2. \/ Perform(ln, reads)
        \/ Perform(Settled(n), reads)
    BY <1>5 DEF Activate
  <2>3. Outcome(ln, n, named, epoch, FreshId, h)
    <3>1. Owed(n, named, h) \/ named <= NoPos
      BY <1>4, <2>1
    <3> HIDE DEF n, h
    <3> QED BY <1>2, <1>3, <1>4, <3>1, LaunchOutcome
  <2>4. Outcome(Settled(n), n, named, epoch, FreshId, h)
    <3>1. Owed(n, named, h)
      BY <1>4, <2>1
    <3> HIDE DEF n, h
    <3> QED BY <1>2, <1>3, <1>4, <3>1, ParkedOutcome
  <2>5. ASSUME NEW e, Perform(e, reads), Outcome(e, n, named, epoch, FreshId, h)
        PROVE  Taken /\ Owes(0)
    <3>1. Left(named)
      <4> HIDE DEF n
      <4> QED BY <1>1, <1>2, <1>4, <2>5, Performed
    <3>2. Taken
      BY <1>1, <3>1 DEF Taken
    <3>3. room' \in Rooms /\ told' \in Nat
      BY <3>1 DEF Left
    <3>4. Held(room') \in Nat
      BY <3>3, Holding
    <3> QED BY <2>1, <3>2, <3>3, <3>4 DEF Owes
  <2> HIDE DEF ln, n, h
  <2> QED BY <1>7, <2>2, <2>3, <2>4, <2>5
<1>6. CASE IsTracked
  <2>1. /\ room \in Rooms /\ Within(room, h) /\ Continues(room) /\ Named(room, named, h)
        /\ Fit(room, h) /\ Owed(room, named, h)
    BY <1>6, Tracking
  <2>2. /\ m \in Rooms /\ Kin(m, room) /\ m.known = room.known /\ Held(m) = Held(room)
        /\ IsReconciling(m) <=> IsReconciling(room)
    BY <1>1, <2>1, Marking
  <2>3. Ignore \/ Perform(lm, reads) \/ Perform(Settled(m), reads)
    BY <1>6, <2>1 DEF Activate
  <2> HIDE DEF m
  <2>4. /\ Outcome(lm, room, named, epoch, FreshId, h)
        /\ lm.issue # <<>> /\ lm.room.phase.read_id = FreshId
        /\ Held(lm.room) + lm.told >= Held(m) + OverflowDropped(Bootstrap)
    <3>1. Fit(m, h) /\ (Owed(m, named, h) \/ named <= NoPos)
      BY <2>1, <2>2 DEF Fit, Owed, Kin
    <3> HIDE DEF h, lm
    <3>2. Bootstrap \in Reasons /\ NoPos \in Cursors /\ m \in Rooms
      BY <1>3, <2>2
    <3>3. epoch \in Nat /\ FreshId \in 0 .. 2 /\ h \in Nat \ {0} /\ named \in Int
      BY <1>2
    <3> DEFINE why == Bootstrap
    <3>4. why \in Reasons
      BY <3>2
    <3> HIDE DEF why
    <3>5. Launch(m, why, NoPos, epoch, FreshId) = lm
      BY DEF lm, why
    <3> DEFINE id == FreshId
               at == epoch
               far == NoPos
               nm == named
               old == room
               e == Launch(m, why, far, at, id)
    <3>6. id \in 0 .. 2 /\ e = lm /\ at \in Nat /\ far \in Cursors /\ nm \in Int
      BY <3>2, <3>3, <3>5
    <3>7. Fit(m, h) /\ (Owed(m, nm, h) \/ nm <= far)
      BY <3>1
    <3>8. /\ m \in Rooms /\ why \in Reasons /\ far \in Cursors /\ at \in Nat /\ id \in 0 .. 2
          /\ h \in Nat \ {0} /\ nm \in Int
      BY <3>2, <3>3, <3>4, <3>6
    <3> HIDE DEF id, at, far, nm, old, e, n, ln
    <3>9. /\ Outcome(e, old, nm, at, id, h)
          /\ e.issue # <<>> /\ e.room.phase.read_id = id
          /\ Held(e.room) + e.told >= Held(m) + OverflowDropped(why)
      <4>1. Outcome(e, old, nm, at, id, h)
        BY <3>7, <3>8, LaunchOutcome DEF e
      <4>2. e.issue # <<>>
        BY <3>7, <3>8, LaunchOutcome DEF e
      <4>3. e.room.phase.read_id = id
        BY <3>7, <3>8, LaunchOutcome, SMTT(60) DEF e
      <4>4. Held(e.room) + e.told >= Held(m) + OverflowDropped(why)
        BY <3>7, <3>8, LaunchOutcome DEF e
      <4> QED BY <4>1, <4>2, <4>3, <4>4
    <3> QED BY <3>6, <3>9 DEF why, id, at, nm, old
  <2>5. /\ Outcome(Settled(m), room, named, epoch, FreshId, h)
        /\ Settled(m).room = m /\ Settled(m).told = 0 /\ Settled(m).issue = <<>>
    <3>1. Watermark(m) = Watermark(room) /\ m.phase = room.phase /\ m.parked_buffer = room.parked_buffer
          /\ m.required_frontier = room.required_frontier
      BY <2>2 DEF Kin, Watermark
    <3>2. Within(m, h) /\ Continues(m) /\ Named(m, named, h)
      BY <2>1, <2>2, <3>1 DEF Within, Continues, Based, Named, Reach, IsReconciling, IsConverged
    <3> HIDE DEF h
    <3> QED BY <2>2, <3>1, <3>2, SettledOutcome, Effects
  <2>6. CASE Ignore
    <3>1. Taken
      BY <1>1, <2>6 DEF Taken, Ignore, Quiet
    <3> QED BY <1>7, <2>6, <3>1, Unmoved DEF Ignore
  <2>7. CASE Perform(lm, reads)
    <3> HIDE DEF lm
    <3>1. Left(named)
      BY <1>1, <1>2, <1>6, <2>1, <2>4, <2>7, Performed
    <3>2. Taken
      BY <1>1, <3>1 DEF Taken
    <3>3. room' = lm.room /\ told' = lm.told
      BY <2>7 DEF Perform
    <3>4. Owes(0)
      BY <1>2, <1>3, <2>2, <2>4, <3>3 DEF Owes
    <3> QED BY <1>7, <3>2, <3>4
  <2>8. CASE Perform(Settled(m), reads)
    <3>1. Waits(Settled(m), room, named, named)
      <4>1. room.required_frontier \in Int
        BY <2>1, RoomFields
      <4> QED BY <2>2, <2>5, <4>1 DEF Waits, Kin
    <3>2. Left(named)
      BY <1>1, <1>2, <1>6, <2>1, <2>5, <2>8, <3>1, Performed
    <3>3. Taken
      BY <1>1, <3>2 DEF Taken
    <3>4. room' = m /\ told' = 0
      BY <2>5, <2>8 DEF Perform
    <3>5. Owes(0)
      BY <1>2, <2>2, <3>4 DEF Owes
    <3> QED BY <1>7, <3>3, <3>5
  <2> HIDE DEF lm
  <2> QED BY <2>3, <2>6, <2>7, <2>8
<1> QED BY <1>5, <1>6

\* A longer history: whatever was within it stays within it.
LEMMA HistoryGrows ==
  ASSUME RecInv, hist' \in Seq(Nat), Len(hist') = Len(hist) + 1, box' \in Boxes(Len(hist) + 1), Quiet,
         UNCHANGED <<link, junk, state, epoch, room, reads, named>>
  PROVE  RecInv' /\ KeepsLoss
<1>1. Len(hist) \in Nat \ {0} /\ named \in Int
  BY Tracking
<1>2. Types'
  BY <1>1 DEF RecInv, Types, Quiet
<1>3. \A rd : Current(rd)' <=> Current(rd)
  BY DEF Current, IsTracked
<1>4. ReadsApart'
  BY <1>3 DEF RecInv, ReadsApart, OneIsCurrent
<1>5. ASSUME NEW rd \in reads
      PROVE  Answered(rd)'
  <2>1. rd \in Reads /\ Answered(rd)
    BY DEF RecInv, Types
  <2>2. rd.reply.kind = "page" => rd.reply.ids \in Seq(Nat)
    BY <2>1 DEF Reads, Replies, NoReply, Error
  <2>3. First(rd.req) \in Int
    BY <2>1 DEF Reads, Requests, First
  <2>4. \A q \in Seq(Nat) : First(rd.req) + Len(q) <= Len(hist) => First(rd.req) + Len(q) <= Len(hist')
    BY <1>1, <2>3
  <2> QED BY <1>3, <2>1, <2>2, <2>4 DEF Answered
<1>6. IsTracked => /\ Within(room, Len(hist) + 1) /\ Continues(room)
                   /\ Named(room, named, Len(hist) + 1)
  <2> SUFFICES ASSUME IsTracked
               PROVE  /\ Within(room, Len(hist) + 1) /\ Continues(room)
                      /\ Named(room, named, Len(hist) + 1)
    OBVIOUS
  <2>1. room \in Rooms /\ Within(room, Len(hist)) /\ Continues(room) /\ Named(room, named, Len(hist))
    BY Tracking
  <2> DEFINE h == Len(hist)
  <2>2. \A q \in Seq(Pushes) : Below(q, h) => Below(q, h + 1)
    <3> SUFFICES ASSUME NEW q \in Seq(Pushes), Below(q, h), NEW i \in DOMAIN q, q[i].type = "event"
                 PROVE  q[i].pos < h + 1
      BY DEF Below
    <3>1. q[i] \in Pushes
      OBVIOUS
    <3>2. q[i].pos < h
      BY DEF Below
    <3>3. q[i].pos \in Nat
      BY <3>1 DEF Pushes
    <3> QED BY <1>1, <3>2, <3>3
  <2>3. room.parked_buffer.q \in Seq(Pushes) /\ Len(room.known) \in Nat /\ Watermark(room) \in Int
    BY <2>1, RoomFields
  <2>4. IsReconciling(room) => room.phase.buffer.q \in Seq(Pushes) /\ Reach(room) \in Int
    BY <2>1, <2>3, ScanFields, SMTT(30) DEF Reach
  <2>5. Within(room, h + 1)
    BY <1>1, <2>1, <2>2, <2>3, <2>4 DEF Within
  <2> QED BY <1>1, <2>1, <2>5 DEF Named
<1>7. RecInv'
  <2>1. IsTracked' <=> IsTracked
    BY DEF IsTracked
  <2>2. IsTracked' => Within(room', Len(hist')) /\ Continues(room') /\ Named(room', named', Len(hist'))
    BY <1>6, <2>1
  <2>3. ~IsTracked' => named' = NoPos
    BY <2>1 DEF RecInv
  <2> QED BY <1>2, <1>4, <1>5, <2>2, <2>3 DEF RecInv
<1>8. hist' # hist
  BY <1>1
<1> QED BY <1>7, <1>8, Unmoved, NotConsumed

\* A push of a position of the history.
LEMMA PushIn ==
  ASSUME NEW h \in Nat, NEW p \in Nat, p < h, NEW i \in Nat
  PROVE  Push(p, i) \in NoticesTo(h)
BY DEF Push, NoticesTo, Notices, Pushes

\* What is heard is kept within the history.
LEMMA HeardIn ==
  ASSUME NEW h \in Nat, box \in Boxes(h), NEW ev \in NoticesTo(h)
  PROVE  Heard(ev) \in Boxes(h)
BY BroadcastIn DEF Heard

\* Commit keeps the invariant and the loss.
LEMMA CommitKeeps ==
  ASSUME RecInv, Commit
  PROVE  RecInv' /\ KeepsLoss
<1> DEFINE h == Len(hist)
<1>1. /\ hist' = Append(hist, h) /\ Quiet
      /\ box' = IF link = "Ready" THEN Heard(Push(h, h)) ELSE box
      /\ UNCHANGED <<link, junk, state, epoch, room, reads, named>>
  BY DEF Commit, coreVars
<1>2. hist \in Seq(Nat) /\ h \in Nat /\ box \in Boxes(h)
  BY DEF RecInv, Types
<1>3. hist' \in Seq(Nat) /\ Len(hist') = h + 1
  BY <1>1, <1>2
<1>4. box \in Boxes(h + 1) /\ Push(h, h) \in NoticesTo(h + 1)
  BY <1>2, BoxGrows, PushIn
<1>5. box' \in Boxes(h + 1)
  BY <1>1, <1>2, <1>4, HeardIn
<1> QED BY <1>1, <1>3, <1>5, HistoryGrows

\* So does Insert.
LEMMA InsertKeeps ==
  ASSUME RecInv, NEW r \in 1 .. MaxEvents, Insert(r)
  PROVE  RecInv' /\ KeepsLoss
<1> DEFINE h == Len(hist)
           gap == [type |-> "gap", from |-> r]
           ev == Push(r, h)
           two == Broadcast(Broadcast(box, gap), ev)
<1>1. /\ r \in 1 .. h - 1 /\ Quiet
      /\ hist' = SubSeq(hist, 1, r) \o <<h>> \o SubSeq(hist, r + 1, h)
      /\ box' = two \/ box' = box
      /\ UNCHANGED <<link, junk, state, epoch, room, reads, named>>
  BY DEF Insert, coreVars
<1>2. hist \in Seq(Nat) /\ h \in Nat /\ box \in Boxes(h) /\ r \in Nat /\ r < h
  BY <1>1 DEF RecInv, Types
<1>3. hist' \in Seq(Nat) /\ Len(hist') = h + 1
  <2>1. SubSeq(hist, 1, r) \in Seq(Nat) /\ Len(SubSeq(hist, 1, r)) = r
    BY <1>2
  <2>2. SubSeq(hist, r + 1, h) \in Seq(Nat) /\ Len(SubSeq(hist, r + 1, h)) = h - r
    BY <1>2
  <2>3. <<h>> \in Seq(Nat) /\ Len(<<h>>) = 1
    BY <1>2
  <2> QED BY <1>1, <1>2, <2>1, <2>2, <2>3
<1>4. box \in Boxes(h + 1)
  BY <1>2, BoxGrows
<1>5. gap \in NoticesTo(h + 1) /\ ev \in NoticesTo(h + 1)
  <2>1. gap \in NoticesTo(h + 1)
    BY <1>2 DEF NoticesTo, Notices
  <2>2. r < h + 1
    BY <1>2
  <2> QED BY <1>2, <2>1, <2>2, PushIn
<1>6. two \in Boxes(h + 1)
  <2> HIDE DEF gap, ev
  <2>1. h + 1 \in Nat
    BY <1>2
  <2>2. Broadcast(box, gap) \in Boxes(h + 1)
    BY <1>4, <1>5, <2>1, BroadcastIn
  <2> QED BY <1>5, <2>1, <2>2, BroadcastIn
<1>7. box' \in Boxes(h + 1)
  <2> HIDE DEF two
  <2> QED BY <1>1, <1>4, <1>6
<1> QED BY <1>1, <1>3, <1>7, HistoryGrows

\* So does a junk push.
LEMMA JunkPushKeeps ==
  ASSUME RecInv, JunkPush
  PROVE  RecInv' /\ KeepsLoss
<1>1. /\ junk' = junk + 1 /\ box' = Heard([type |-> "junk"]) /\ Quiet
      /\ UNCHANGED <<hist, link, state, epoch, room, reads, named>>
  BY DEF JunkPush, coreVars
<1>2. Len(hist) \in Nat /\ box \in Boxes(Len(hist)) /\ junk \in Nat
  BY DEF RecInv, Types
<1>3. [type |-> "junk"] \in NoticesTo(Len(hist))
  BY DEF NoticesTo, Notices
<1>4. box' \in Boxes(Len(hist)) /\ junk' \in Nat /\ junk' # junk
  BY <1>1, <1>2, <1>3, HeardIn
<1>5. Taken
  BY <1>1 DEF Taken, Quiet
<1>6. RecInv'
  BY <1>1, <1>4, <1>5, Ending DEF RecInv, Types
<1> QED BY <1>1, <1>4, <1>6, Unmoved, NotConsumed

\* A transition may be in any mailbox.
LEMMA TransitionIn ==
  ASSUME NEW h \in Nat, NEW a \in {"Ready", "Down"}, NEW b \in {"Ready", "Down"}
  PROVE  Transition(a, b) \in NoticesTo(h)
BY DEF Transition, NoticesTo, Notices

\* LinkUp keeps the invariant and the loss.
LEMMA LinkUpKeeps ==
  ASSUME RecInv, LinkUp
  PROVE  RecInv' /\ KeepsLoss
<1>1. /\ link = "Down" /\ link' = "Ready" /\ box' = Heard(Transition("Down", "Ready")) /\ Quiet
      /\ UNCHANGED <<hist, junk, state, epoch, room, reads, named>>
  BY DEF LinkUp, coreVars
<1>2. Len(hist) \in Nat /\ box \in Boxes(Len(hist))
  BY DEF RecInv, Types
<1>3. box' \in Boxes(Len(hist))
  BY <1>1, <1>2, TransitionIn, HeardIn
<1>4. Taken
  BY <1>1 DEF Taken, Quiet
<1>5. RecInv'
  BY <1>1, <1>3, <1>4, Ending DEF RecInv, Types
<1> QED BY <1>1, <1>5, Unmoved, NotConsumed

\* Reads answered where they are: the reads are the same but for their answers.
LEMMA AnsweringKeeps ==
  ASSUME RecInv, NEW f \in [reads -> Reads], reads' = {f[rd] : rd \in reads},
         \A rd \in reads : /\ f[rd].read_id = rd.read_id /\ f[rd].epoch = rd.epoch
                           /\ f[rd].req = rd.req /\ Answered(f[rd]),
         UNCHANGED <<hist, room, named, state, epoch, junk>>, Quiet,
         link' \in {"Ready", "Down"}, box' \in Boxes(Len(hist))
  PROVE  RecInv'
<1>1. \A rd : Current(rd)' <=> Current(rd)
  BY DEF Current, IsTracked
<1>2. \A rd \in reads : Current(f[rd]) <=> Current(rd)
  BY DEF Current
<1>3. \A rd \in reads' : rd \in Reads
  OBVIOUS
<1>4. Types'
  BY <1>3 DEF RecInv, Types, Quiet
<1>5. \A rd \in reads' : Answered(rd)'
  BY <1>1 DEF Answered
<1>6. ReadsApart'
  <2> SUFFICES ASSUME reads' # {} PROVE OneIsCurrent'
    BY DEF ReadsApart
  <2>1. reads # {}
    OBVIOUS
  <2>2. PICK a, b \in reads : reads \subseteq {a, b}
    BY <2>1 DEF RecInv, ReadsApart, OneIsCurrent
  <2>3. f[a] \in reads' /\ f[b] \in reads' /\ reads' \subseteq {f[a], f[b]}
    BY <2>2
  <2>4. /\ \A rd, sd \in reads : Current(rd) /\ Current(sd) => rd = sd
        /\ \A rd \in reads : Current(rd) => rd.req = room.phase.outstanding
    BY <2>1 DEF RecInv, ReadsApart, OneIsCurrent
  <2>5. \A rd, sd \in reads' : Current(rd)' /\ Current(sd)' => rd = sd
    BY <1>1, <1>2, <2>4
  <2>6. \A rd \in reads' : Current(rd)' => rd.req = room'.phase.outstanding
    BY <1>1, <1>2, <2>4
  <2> QED BY <2>3, <2>5, <2>6 DEF OneIsCurrent
<1> QED BY <1>4, <1>5, <1>6 DEF RecInv, IsTracked

\* LinkDown keeps the invariant and the loss: the reads sent are answered.
LEMMA LinkDownKeeps ==
  ASSUME RecInv, LinkDown
  PROVE  RecInv' /\ KeepsLoss
<1> DEFINE F(rd) == IF rd.reply = NoReply THEN [rd EXCEPT !.reply = Error] ELSE rd
<1>1. /\ link = "Ready" /\ link' = "Down" /\ box' = Heard(Transition("Ready", "Down")) /\ Quiet
      /\ reads' = {F(rd) : rd \in reads}
      /\ UNCHANGED <<hist, junk, state, epoch, room, named>>
  BY DEF LinkDown, coreVars
<1>2. Len(hist) \in Nat /\ box \in Boxes(Len(hist))
  BY DEF RecInv, Types
<1>3. box' \in Boxes(Len(hist))
  BY <1>1, <1>2, TransitionIn, HeardIn
<1>4. ASSUME NEW rd \in reads
      PROVE  /\ F(rd) \in Reads /\ F(rd).read_id = rd.read_id /\ F(rd).epoch = rd.epoch
             /\ F(rd).req = rd.req /\ Answered(F(rd))
  <2>1. rd \in Reads /\ Answered(rd)
    BY DEF RecInv, Types
  <2>2. CASE rd.reply = NoReply
    <3>1. F(rd) \in Reads /\ F(rd).reply = Error
      BY <2>1, <2>2 DEF Reads, Replies
    <3>2. Answered(F(rd))
      BY <3>1 DEF Answered, Error
    <3> QED BY <2>1, <3>1, <3>2 DEF Reads
  <2>3. CASE rd.reply # NoReply
    BY <2>1, <2>3
  <2> QED BY <2>2, <2>3
<1>5. RecInv'
  <2> DEFINE f == [rd \in reads |-> F(rd)]
  <2> HIDE DEF F
  <2>1. f \in [reads -> Reads] /\ reads' = {f[rd] : rd \in reads}
    BY <1>1, <1>4
  <2>2. \A rd \in reads : f[rd].read_id = rd.read_id /\ f[rd].epoch = rd.epoch /\ f[rd].req = rd.req
                         /\ Answered(f[rd])
    BY <1>4
  <2> HIDE DEF f
  <2> QED BY <1>1, <1>3, <2>1, <2>2, AnsweringKeeps
<1> QED BY <1>1, <1>5, Unmoved, NotConsumed

\* A page is as long as was asked, and typed as the history is.
LEMMA PageShape ==
  ASSUME NEW q \in Seq(Nat), NEW from \in Nat, NEW n \in Nat, n >= 1, from + n <= Len(q)
  PROVE  SubSeq(q, from + 1, from + n) \in Seq(Nat) /\ Len(SubSeq(q, from + 1, from + n)) = n
<1> DEFINE a == from + 1
           b == from + n
           h == Len(q)
<1>1. a \in Int /\ b \in Int /\ h \in Int /\ a >= 1 /\ b <= h /\ a <= b /\ b - a + 1 = n
  OBVIOUS
<1>2. \A i \in a .. b : q[i] \in Nat
  OBVIOUS
<1> HIDE DEF a, b, h
<1>3. SubSeq(q, a, b) \in Seq(Nat) /\ Len(SubSeq(q, a, b)) = n
  BY <1>1, <1>2, SubSeqProperties
<1> QED BY <1>3 DEF a, b

\* What the daemon may answer a read with, truthfully or not, can be handled.
LEMMA PagesAnswer ==
  ASSUME RecInv, NEW rd \in reads, NEW from \in Nat, from = First(rd.req), rd.req.op # "Members",
         NEW n \in 1 .. Len(hist) - from
  PROVE  /\ Page(from, n) \in Replies
         /\ Answered([rd EXCEPT !.reply = Page(from, n)])
<1> DEFINE ids == SubSeq(hist, from + 1, from + n)
           new == [rd EXCEPT !.reply = Page(from, n)]
<1>1. hist \in Seq(Nat) /\ Len(hist) \in Nat /\ rd \in Reads /\ n \in Nat /\ n >= 1 /\ from + n <= Len(hist)
  BY DEF RecInv, Types
<1>2. ids \in Seq(Nat) /\ Len(ids) = n
  BY <1>1, PageShape
<1>3. /\ Page(from, n).kind = "page" /\ Page(from, n).ids = ids
      /\ Page(from, n).more <=> from + n < Len(hist)
      /\ Page(from, n) \in [kind : {"page"}, ids : Seq(Nat), more : BOOLEAN]
  <2> DEFINE b == from + n < Len(hist)
  <2>1. Page(from, n) = [kind |-> "page", ids |-> ids, more |-> b]
    BY DEF Page
  <2>2. b \in BOOLEAN
    OBVIOUS
  <2> HIDE DEF b, ids
  <2>3. /\ Page(from, n).kind = "page" /\ Page(from, n).ids = ids /\ (Page(from, n).more <=> b)
        /\ Page(from, n) \in [kind : {"page"}, ids : Seq(Nat), more : BOOLEAN]
    BY <1>2, <2>1, <2>2
  <2> QED BY <2>3 DEF b
<1>4. Page(from, n) \in Replies
  BY <1>3 DEF Replies
<1> HIDE DEF ids
<1>5. new.reply = Page(from, n) /\ new.req = rd.req /\ new.epoch = rd.epoch /\ new.read_id = rd.read_id
  BY <1>1 DEF Reads
<1>6. Current(new) => named < Len(hist) \/ named <= room.required_frontier
  BY Tracking DEF Current, Named
<1>7. Current(new) => room.required_frontier \in Int /\ named \in Int
  BY Tracking, RoomFields DEF Current
<1> HIDE DEF new
<1>8. Answered(new)
  BY <1>1, <1>2, <1>3, <1>5, <1>6, <1>7 DEF Answered
<1> QED BY <1>4, <1>8 DEF new

\* A page beyond the end of the history.
LEMMA EmptyPageAnswers ==
  ASSUME RecInv, NEW rd \in reads, NEW from \in Nat, from = First(rd.req), rd.req.op # "Members",
         Len(hist) - from <= 0, NEW page, page = [kind |-> "page", ids |-> <<>>, more |-> FALSE]
  PROVE  page \in Replies /\ Answered([rd EXCEPT !.reply = page])
<1> DEFINE new == [rd EXCEPT !.reply = page]
<1>1. Len(hist) \in Nat /\ rd \in Reads
  BY DEF RecInv, Types
<1>2. page \in Replies
  BY DEF Replies
<1>3. new.reply = page /\ new.req = rd.req /\ new.epoch = rd.epoch /\ new.read_id = rd.read_id
  BY <1>1 DEF Reads
<1>4. Current(new) => named < Len(hist) \/ named <= room.required_frontier
  BY Tracking DEF Current, Named
<1>5. Current(new) => named \in Int
  BY Tracking
<1> HIDE DEF new
<1>6. Answered(new)
  BY <1>1, <1>3, <1>4, <1>5 DEF Answered
<1> QED BY <1>2, <1>6 DEF new

\* A truthful answer.
LEMMA TruthfulAnswers ==
  ASSUME RecInv, NEW rd \in reads, NEW answer \in Truthful(rd.req)
  PROVE  answer \in Replies /\ Answered([rd EXCEPT !.reply = answer])
<1>1. rd \in Reads /\ rd.req \in Requests /\ hist \in Seq(Nat) /\ Len(hist) \in Nat
  BY DEF RecInv, Types, Reads
<1>2. rd.req.op \in {"Timeline", "Resync", "Members"} /\ rd.req.from \in Nat
  BY <1>1 DEF Requests
<1>3. ASSUME NEW from \in Nat, from = First(rd.req), rd.req.op # "Members",
             answer \in IF Len(hist) - from <= 0 THEN {[kind |-> "page", ids |-> <<>>, more |-> FALSE]}
                        ELSE {Page(from, n) : n \in 1 .. Len(hist) - from}
      PROVE  answer \in Replies /\ Answered([rd EXCEPT !.reply = answer])
  <2>1. CASE Len(hist) - from <= 0
    BY <1>3, <2>1, EmptyPageAnswers
  <2>2. CASE ~(Len(hist) - from <= 0)
    <3>1. PICK n \in 1 .. Len(hist) - from : answer = Page(from, n)
      BY <1>3, <2>2
    <3> QED BY <1>3, <3>1, PagesAnswer
  <2> QED BY <2>1, <2>2
<1>4. CASE rd.req.op = "Timeline"
  <2> DEFINE from == rd.req.from
  <2>1. from \in Nat /\ from = First(rd.req)
    BY <1>2, <1>4 DEF First
  <2>2. answer \in IF Len(hist) - from <= 0 THEN {[kind |-> "page", ids |-> <<>>, more |-> FALSE]}
                   ELSE {Page(from, n) : n \in 1 .. Len(hist) - from}
    BY <1>4 DEF Truthful
  <2> HIDE DEF from
  <2> QED BY <1>3, <1>4, <2>1, <2>2
<1>5. CASE rd.req.op = "Resync"
  <2> DEFINE from == rd.req.from + 1
  <2>1. from \in Nat /\ from = First(rd.req)
    BY <1>2, <1>5 DEF First
  <2>2. answer \in IF Len(hist) - from <= 0 THEN {[kind |-> "page", ids |-> <<>>, more |-> FALSE]}
                   ELSE {Page(from, n) : n \in 1 .. Len(hist) - from}
    BY <1>5 DEF Truthful
  <2> HIDE DEF from
  <2> QED BY <1>3, <1>5, <2>1, <2>2
<1>6. CASE rd.req.op = "Members"
  <2> DEFINE new == [rd EXCEPT !.reply = answer]
  <2>1. answer = [kind |-> "members", ids |-> IdsOf(hist) \cap Membership]
    BY <1>6 DEF Truthful
  <2>2. IdsOf(hist) \cap Membership \in SUBSET Nat
    BY <1>1 DEF IdsOf
  <2>3. answer \in Replies /\ answer.kind = "members"
    BY <2>1, <2>2 DEF Replies
  <2>4. new.reply = answer /\ new.req = rd.req
    BY <1>1 DEF Reads
  <2> HIDE DEF new
  <2>5. Answered(new)
    BY <1>6, <2>3, <2>4 DEF Answered
  <2> QED BY <2>3, <2>5 DEF new
<1> QED BY <1>2, <1>4, <1>5, <1>6

\* An answer that is not a page.
LEMMA FaultAnswers ==
  ASSUME RecInv, NEW rd \in reads, NEW answer \in Faults(rd.req) \cup {Error}
  PROVE  answer \in Replies /\ Answered([rd EXCEPT !.reply = answer])
<1> DEFINE new == [rd EXCEPT !.reply = answer]
<1>1. rd \in Reads /\ Len(hist) \in Nat
  BY DEF RecInv, Types
<1>2. \/ answer = Error
      \/ answer = [kind |-> "malformed"]
      \/ \E p \in 0 .. Len(hist) : answer = [kind |-> "redirect", from |-> p]
  BY DEF Faults
<1>3. answer \in Replies /\ answer.kind \in {"error", "malformed", "redirect"}
  BY <1>1, <1>2 DEF Replies, Error
<1>4. new.reply = answer
  BY <1>1 DEF Reads
<1> HIDE DEF new
<1>5. Answered(new)
  BY <1>3, <1>4 DEF Answered
<1> QED BY <1>3, <1>5 DEF new

\* Serve keeps the invariant and the loss.
LEMMA ServeKeeps ==
  ASSUME RecInv, NEW rd \in reads, Serve(rd)
  PROVE  RecInv' /\ KeepsLoss
<1>1. UNCHANGED <<hist, link, junk, box, state, epoch, room, named>> /\ Quiet
  BY DEF Serve, coreVars
<1>2. PICK answer : /\ answer \in Truthful(rd.req) \/ answer \in Faults(rd.req) \cup {Error}
                    /\ reads' = (reads \ {rd}) \cup {[rd EXCEPT !.reply = answer]}
  BY DEF Serve
<1>3. answer \in Replies /\ Answered([rd EXCEPT !.reply = answer])
  BY <1>2, TruthfulAnswers, FaultAnswers
<1> DEFINE new == [rd EXCEPT !.reply = answer]
           f == [sd \in reads |-> IF sd = rd THEN new ELSE sd]
<1>4. /\ new \in Reads /\ new.read_id = rd.read_id /\ new.epoch = rd.epoch /\ new.req = rd.req
      /\ Answered(new)
  BY <1>3 DEF RecInv, Types, Reads
<1>5. reads' = (reads \ {rd}) \cup {new}
  BY <1>2
<1> HIDE DEF new
<1>6. \A sd \in reads : sd \in Reads /\ Answered(sd)
  BY DEF RecInv, Types
<1>7. f \in [reads -> Reads] /\ reads' = {f[sd] : sd \in reads}
  BY <1>4, <1>5, <1>6
<1>8. \A sd \in reads : /\ f[sd].read_id = sd.read_id /\ f[sd].epoch = sd.epoch
                        /\ f[sd].req = sd.req /\ Answered(f[sd])
  BY <1>4, <1>6
<1> HIDE DEF f
<1>9. link' \in {"Ready", "Down"} /\ box' \in Boxes(Len(hist))
  BY <1>1 DEF RecInv, Types
<1>10. RecInv'
  BY <1>1, <1>7, <1>8, <1>9, AnsweringKeeps
<1> QED BY <1>1, <1>10, Unmoved, NotConsumed

\* A read of a reconciliation that is over.
LEMMA StaleReadKeeps ==
  ASSUME RecInv, NEW rd \in reads, ~Current(rd), Quiet, room' = room, reads' = reads \ {rd},
         UNCHANGED <<hist, link, junk, box, state, epoch, named>>
  PROVE  RecInv'
<1>1. \A sd : Current(sd)' <=> Current(sd)
  BY DEF Current, IsTracked
<1>2. Types'
  BY DEF RecInv, Types, Quiet
<1>3. ReadsApart'
  <2>1. reads' # {} => \E a, b \in reads' : reads' \subseteq {a, b}
    BY FewerReads, ZenonT(60) DEF RecInv
  <2> QED BY <1>1, <2>1 DEF RecInv, ReadsApart, OneIsCurrent
<1>4. \A sd \in reads' : Answered(sd)'
  BY <1>1 DEF RecInv, Answered
<1> QED BY <1>2, <1>3, <1>4 DEF RecInv, IsTracked

\* So does a read that settles.
LEMMA ReadSettlesKeeps ==
  ASSUME RecInv, NEW rd \in reads, ReadSettles(rd)
  PROVE  RecInv' /\ KeepsLoss
<1> DEFINE h == Len(hist)
           pending == reads \ {rd}
<1>1. rd.reply # NoReply /\ UNCHANGED <<hist, link, junk, box, state, epoch>>
  BY DEF ReadSettles, envVars, coreVars
<1>2. rd \in Reads /\ rd.reply \in Replies /\ Answered(rd)
  BY DEF RecInv, Types, Reads
<1>3. CASE ~Current(rd)
  <2>1. Quiet /\ room' = room /\ reads' = reads \ {rd} /\ named' = named
    BY <1>3 DEF ReadSettles
  <2>2. RecInv'
    BY <1>1, <1>3, <2>1, StaleReadKeeps
  <2> QED BY <1>1, <2>1, <2>2, Unmoved, NotConsumed
<1>4. CASE Current(rd)
  <2>1. IsTracked /\ IsReconciling(room)
    BY <1>4 DEF Current
  <2>2. /\ room \in Rooms /\ Within(room, h) /\ Continues(room) /\ Named(room, named, h)
        /\ Fit(room, h) /\ Owed(room, named, h)
        /\ h \in Nat \ {0} /\ named \in Int /\ epoch \in Nat /\ Held(room) \in Nat
        /\ FreshId \in 0 .. 2
    BY <2>1, Tracking, FreshIdIn DEF RecInv, Types
  <2>3. rd.req = room.phase.outstanding /\ \A sd \in pending : ~Current(sd)
    BY <1>4 DEF RecInv, ReadsApart, OneIsCurrent
  <2>4. ASSUME NEW e, NEW nm \in Int, named' = nm, Perform(e, pending),
               Outcome(e, room, nm, epoch, FreshId, h), Held(e.room) + e.told >= Held(room)
        PROVE  RecInv' /\ KeepsLoss
    <3>1. Left(nm)
      BY <1>1, <2>1, <2>2, <2>3, <2>4, Performed
    <3>2. Taken
      BY <2>4, <3>1 DEF Taken
    <3>3. room' = e.room /\ told' = e.told
      BY <2>4 DEF Perform
    <3>4. Owes(0)
      BY <2>2, <2>4, <3>3 DEF Owes
    <3>5. RecInv'
      BY <1>1, <2>4, <3>2, Ending DEF RecInv, Types
    <3> QED BY <1>1, <3>4, <3>5, NotConsumed
  <2>5. CASE state # "Ready"
    <3> DEFINE e == Settled(ParkOutstanding(room))
    <3>1. Perform(e, pending) /\ named' = named
      BY <1>4, <2>5 DEF ReadSettles
    <3>2. Outcome(e, room, named, epoch, FreshId, h) /\ Held(e.room) + e.told >= Held(room)
      <4> HIDE DEF e, h
      <4> QED BY <2>1, <2>2, ParkOutcome DEF e
    <3> HIDE DEF e, h, pending
    <3> QED BY <2>2, <2>4, <3>1, <3>2
  <2>6. CASE state = "Ready"
    <3> DEFINE e == OnReadReply(room, rd.reply, epoch, FreshId)
               nm == Naming(e, rd.reply, named)
    <3>1. Perform(e, pending)
      BY <1>4, <2>6 DEF ReadSettles
    <3>2. room' = e.room
      BY <3>1 DEF Perform
    <3>3. named' = nm
      BY <1>4, <2>1, <2>6, <3>2 DEF ReadSettles, Naming, Name
    <3>4. nm \in Int
      BY <1>2, <2>2 DEF Naming, Replies, NoReply, Error
    <3>5. Outcome(e, room, nm, epoch, FreshId, h) /\ Held(e.room) + e.told >= Held(room)
      <4>1. rd.reply.kind = "members" => room.phase.outstanding.op = "Members"
        BY <1>2, <2>3 DEF Answered
      <4>2. rd.reply.kind = "page" =>
              /\ room.phase.outstanding.op # "Members"
              /\ rd.reply.ids = <<>> \/ First(room.phase.outstanding) + Len(rd.reply.ids) <= h
              /\ ~rd.reply.more => \/ named <= room.required_frontier
                                   \/ named < First(room.phase.outstanding) + Len(rd.reply.ids)
        BY <1>2, <1>4, <2>3 DEF Answered
      <4> HIDE DEF e, h
      <4> QED BY <1>1, <1>2, <2>1, <2>2, <4>1, <4>2, ReplyOutcome DEF e
    <3> HIDE DEF e, h, pending, nm
    <3> QED BY <2>4, <3>1, <3>3, <3>4, <3>5
  <2> QED BY <2>5, <2>6
<1> QED BY <1>3, <1>4

\* A handler of what arrived while the room may be waiting for its read.
LEMMA Handled ==
  ASSUME RecInv, IsTracked, NEW e, Perform(e, reads), UNCHANGED <<hist, named>>,
         Outcome(e, room, named, epoch, FreshId, Len(hist)),
         IsReconciling(room) => Waits(e, room, named, named)
  PROVE  Taken /\ room' = e.room /\ told' = e.told
<1>1. named \in Int /\ epoch \in Nat
  BY Tracking
<1>2. Left(named)
  BY <1>1, Performed
<1> QED BY <1>2 DEF Taken, Perform

\* So does Consume, whatever was taken from the mailbox.
LEMMA ConsumeKeeps ==
  ASSUME RecInv, Consume
  PROVE  RecInv' /\ KeepsLoss
<1> DEFINE h == Len(hist)
           ev == Yielded(box)
           Done(inc) == /\ Taken /\ Owes(inc) /\ named' \in Int
                        /\ state' \in {"Ready", "Down"} /\ epoch' \in Nat
<1>1. Readable(box) /\ box' = Polled(box) /\ UNCHANGED <<hist, link, junk>>
  BY DEF Consume, envVars
<1>2. h \in Nat /\ box \in Boxes(h) /\ state \in {"Ready", "Down"} /\ link \in {"Ready", "Down"} /\ junk \in Nat
  BY DEF RecInv, Types
<1>3. ev \in NoticesTo(h) /\ box' \in Boxes(h) /\ box' # box
  BY <1>1, <1>2, PolledIn
<1>4. /\ ev.type = "state" => OnLifecycle(TRUE, ev.from, ev.to, ev.problem)
      /\ ev.type = "gap" => OnTrigger(ProtocolGap, ev.from)
      /\ ev.type = "lagged" => OnTrigger(Overflow(ev.dropped), NoPos)
      /\ ev.type = "event" =>
           IF IsTracked THEN Perform(OnLiveEvent(room, ev, epoch, FreshId), reads) ELSE Ignore
      /\ ev.type = "junk" =>
           IF IsTracked THEN Perform(OnJunk(room, epoch, FreshId), reads) ELSE Ignore
      /\ ev.type # "state" => UNCHANGED <<state, epoch, seen_ready>>
      /\ IF ev.type = "gap" THEN Name(ev.from) ELSE UNCHANGED named
  BY DEF Consume
<1>5. Incoming = IF ev.type = "lagged" THEN ev.dropped ELSE 0
  BY <1>1 DEF Incoming
<1> HIDE DEF ev
<1>6. named \in Int /\ epoch \in Nat /\ h \in Nat \ {0} /\ Held(room) \in Nat /\ FreshId \in 0 .. 2
  BY Tracking, FreshIdIn DEF RecInv, Types
<1>7. /\ ev.type \in {"event", "gap", "junk", "lagged", "state"}
      /\ ev.type = "event" => ev \in Pushes /\ ev.pos < h
      /\ ev.type = "gap" => ev.from \in Nat
      /\ ev.type = "lagged" => ev.dropped \in Nat
      /\ ev.type = "state" =>
           /\ ev.from \in {"Ready", "Down"} /\ ev.to \in {"Ready", "Down"} /\ ev.problem \in BOOLEAN
  BY <1>2, <1>3, NoticeFields
<1>8. IsTracked => /\ room \in Rooms /\ Within(room, h) /\ Continues(room) /\ Named(room, named, h)
  BY Tracking
<1>9. ASSUME NEW inc \in Nat, Done(inc), ev.type # "junk" => inc = Incoming
      PROVE  RecInv' /\ KeepsLoss
  <2>1. RecInv'
    BY <1>1, <1>2, <1>3, <1>9, Ending
  <2>2. KeepsLoss
    <3>1. SUFFICES ASSUME room'.phase.tag # "Untracked", ~(box # box' /\ ev.type = "junk")
                   PROVE  Held(room') + told' >= Held(room) + Incoming
      BY DEF KeepsLoss, ev
    <3>2. inc = Incoming
      BY <1>3, <1>9, <3>1
    <3> QED BY <1>9, <3>1, <3>2 DEF Owes
  <2> QED BY <2>1, <2>2
<1>10. CASE ev.type = "state"
  <2>1. OnLifecycle(TRUE, ev.from, ev.to, ev.problem) /\ named' = named
    BY <1>4, <1>10
  <2>2. Done(0)
    BY <1>1, <1>6, <1>7, <1>10, <2>1, LifecycleKeeps
  <2> QED BY <1>5, <1>9, <1>10, <2>2
<1>11. CASE ev.type = "gap"
  <2>1. OnTrigger(ProtocolGap, ev.from) /\ Name(ev.from) /\ UNCHANGED <<state, epoch>>
    BY <1>4, <1>11
  <2>2. ProtocolGap \in Reasons /\ OverflowDropped(ProtocolGap) = 0 /\ ev.from \in Cursors
    BY <1>7, <1>11, Causes DEF Cursors
  <2>3. Taken /\ Owes(OverflowDropped(ProtocolGap)) /\ named' \in Int
    BY <1>1, <2>1, <2>2, Triggered DEF Name
  <2>4. Done(0)
    BY <1>2, <1>6, <2>1, <2>2, <2>3
  <2> QED BY <1>5, <1>9, <1>11, <2>4
<1>12. CASE ev.type = "lagged"
  <2> DEFINE why == Overflow(ev.dropped)
  <2>1. OnTrigger(why, NoPos) /\ UNCHANGED <<state, epoch, named>>
    BY <1>4, <1>12
  <2>2. why \in Reasons /\ OverflowDropped(why) = ev.dropped /\ NoPos \in Cursors /\ ev.dropped \in Nat
    BY <1>7, <1>12, Causes DEF Cursors
  <2> HIDE DEF why
  <2>3. Taken /\ Owes(OverflowDropped(why)) /\ named' \in Int
    BY <1>1, <2>1, <2>2, Triggered
  <2>4. Done(ev.dropped)
    BY <1>2, <1>6, <2>1, <2>2, <2>3
  <2> QED BY <1>5, <1>9, <1>12, <2>2, <2>4
<1>13. CASE ev.type = "event"
  <2> DEFINE e == OnLiveEvent(room, ev, epoch, FreshId)
  <2>1. UNCHANGED <<state, epoch, named>>
    BY <1>4, <1>13
  <2>2. Taken /\ Owes(0)
    <3>1. CASE ~IsTracked
      <4>1. Ignore
        BY <1>4, <1>13, <3>1
      <4>2. Taken
        BY <2>1, <4>1 DEF Taken, Ignore, Quiet
      <4> QED BY <4>1, <4>2, Unmoved DEF Ignore
    <3>2. CASE IsTracked
      <4>1. Perform(e, reads)
        BY <1>4, <1>13, <3>2
      <4>2. Outcome(e, room, named, epoch, FreshId, h) /\ Held(e.room) + e.told >= Held(room)
        <5>1. ev \in Pushes /\ ev.pos < h
          BY <1>7, <1>13
        <5> HIDE DEF e, h
        <5> QED BY <1>6, <1>8, <3>2, <5>1, LiveOutcome DEF e
      <4>3. IsReconciling(room) => Waits(e, room, named, named)
        BY <1>8, <3>2, LiveWaits
      <4> HIDE DEF e
      <4>4. Taken /\ room' = e.room /\ told' = e.told
        BY <1>1, <2>1, <3>2, <4>1, <4>2, <4>3, Handled
      <4> QED BY <1>6, <4>2, <4>4 DEF Owes
    <3> QED BY <3>1, <3>2
  <2>3. Done(0)
    BY <1>2, <1>6, <2>1, <2>2
  <2> QED BY <1>5, <1>9, <1>13, <2>3
<1>14. CASE ev.type = "junk"
  <2> DEFINE e == OnJunk(room, epoch, FreshId)
  <2>1. UNCHANGED <<state, epoch, named>>
    BY <1>4, <1>14
  <2>2. Taken
    <3>1. CASE ~IsTracked
      <4>1. Ignore
        BY <1>4, <1>14, <3>1
      <4> QED BY <2>1, <4>1 DEF Taken, Ignore, Quiet
    <3>2. CASE IsTracked
      <4>1. Perform(e, reads)
        BY <1>4, <1>14, <3>2
      <4>2. Outcome(e, room, named, epoch, FreshId, h)
        BY <1>6, <1>8, <3>2, JunkOutcome
      <4>3. IsReconciling(room) => Waits(e, room, named, named)
        BY <1>8, <3>2, JunkWaits
      <4> HIDE DEF e
      <4> QED BY <1>1, <2>1, <3>2, <4>1, <4>2, <4>3, Handled
    <3> QED BY <3>1, <3>2
  <2>3. RecInv'
    BY <1>1, <1>2, <1>3, <1>6, <2>1, <2>2, Ending
  <2>4. KeepsLoss
    BY <1>3, <1>14 DEF KeepsLoss, ev
  <2> QED BY <2>3, <2>4
<1> QED BY <1>7, <1>10, <1>11, <1>12, <1>13, <1>14

\* The invariant holds at first.
LEMMA InitKeeps ==
  ASSUME Init
  PROVE  RecInv
<1>1. hist = <<0>> /\ room = Untracked /\ reads = {} /\ named = NoPos /\ box = EmptyBox
  BY DEF Init
<1>2. hist \in Seq(Nat) /\ Len(hist) = 1
  BY <1>1
<1>3. EmptyBox \in Boxes(1)
  BY DEF EmptyBox, Boxes
<1>4. Types
  BY <1>1, <1>2, <1>3 DEF Init, Types, NoPos
<1> QED BY <1>1, <1>4, Untracks DEF RecInv, ReadsApart

\* Every step keeps the invariant and the loss.
LEMMA NextKeeps ==
  ASSUME RecInv, Next
  PROVE  RecInv' /\ KeepsLoss
BY SubscribeKeeps, StartKeeps, ActivateKeeps, DeactivateKeeps, StopKeeps, ResumeKeeps,
   DecodeFailedKeeps, CommitKeeps, InsertKeeps, JunkPushKeeps, LinkDownKeeps, LinkUpKeeps,
   ServeKeeps, ReadSettlesKeeps, ConsumeKeeps DEF Next, Control

\* So does a stuttering step, the invariant.
LEMMA StutterKeeps ==
  ASSUME RecInv, UNCHANGED vars
  PROVE  RecInv'
<1>1. UNCHANGED <<hist, link, junk, box, state, epoch, room, reads, told, named>>
  BY DEF vars, envVars, coreVars
<1>2. \A rd : Current(rd)' <=> Current(rd)
  BY <1>1 DEF Current, IsTracked
<1>3. Types'
  BY <1>1 DEF RecInv, Types
<1>4. ReadsApart' /\ \A rd \in reads' : Answered(rd)'
  BY <1>1, <1>2 DEF RecInv, ReadsApart, OneIsCurrent, Answered
<1> QED BY <1>1, <1>3, <1>4 DEF RecInv, IsTracked

\* The invariant of the reconciler, for any room, any history and any answers of the daemon:
\* the types, the read in flight, and what the frontier and the scan must cover (core.rs,
\* room.rs).
THEOREM ReconcilingIsSound == Spec => []RecInv
<1>1. Init => RecInv
  BY InitKeeps
<1>2. RecInv /\ [Next]_vars => RecInv'
  BY NextKeeps, StutterKeeps
<1> QED BY <1>1, <1>2, PTL DEF Spec

\* A room that claims to be converged reaches every position the daemon named in a gap or a
\* redirect followed (RoomState::note_trigger_evidence).
THEOREM FrontierReached == Spec => []FrontierCovered
<1>1. RecInv => FrontierCovered
  <2> SUFFICES ASSUME RecInv, IsTracked, IsConverged(room)
               PROVE  Watermark(room) >= named
    BY DEF FrontierCovered
  <2>1. named <= Watermark(room) /\ named \in Int /\ room \in Rooms
    BY Tracking DEF Named
  <2> QED BY <2>1, RoomFields
<1> QED BY <1>1, ReconcilingIsSound, PTL

\* No step loses count of the pushes that were dropped (RoomState::coalesce_banking_loss and
\* every place that merges, parks or launches).
THEOREM LossNeverForgotten == Spec => LossKept
<1>1. RecInv /\ [Next]_vars => [KeepsLoss]_vars
  BY NextKeeps
<1> QED BY <1>1, ReconcilingIsSound, PTL DEF Spec, LossKept
=============================================================================
