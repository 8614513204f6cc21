----------------------- MODULE ReconcilerViewProofs -----------------------
(***************************************************************************)
(* What a room of the reconciler knows, where ReconcilerProofs is about    *)
(* how far it knows it: for any room, any limits, any history and any      *)
(* answers of the daemon, a converged room shows at every position what    *)
(* the daemon has there, unless the evidence against it is still unread,   *)
(* and when nothing is unread it shows the whole history.                  *)
(*                                                                         *)
(* Moot, Follows and Buffered say what an effect may leave of a view that  *)
(* leads, with the pushes buffered and those still in the mailbox, to the  *)
(* daemon's history.  ViewInv is what every step keeps of them.            *)
(***************************************************************************)
EXTENDS ReconcilerProofs

-----------------------------------------------------------------------------
(* What a room shows, and what is on its way to it                         *)

\* The history a room would have if the scan in flight were taken.
Viewed(rm) ==
    IF ~IsReconciling(rm) THEN rm.known
    ELSE IF rm.phase.replace_timeline THEN rm.phase.scan ELSE rm.known \o rm.phase.scan

\* An event is at or beyond a position of the history: late siblings move it to the right.
Beyond(h, p, id) == \E a \in p + 1 .. Len(h) : h[a] = id
Distinct(s) == \A i, j \in DOMAIN s : s[i] = s[j] => i = j
\* What may have been read of a history, and pushed of it, as it was at any time.
Histories(h) == {s \in Seq(Nat) : Distinct(s) /\ \A i \in 1 .. Len(s) : Beyond(h, i - 1, s[i])}
Commits(h)   == {e \in Pushes : Beyond(h, e.pos, e.id)}

\* What a room holds, scans and buffers was read or pushed.
Sound(rm, h) ==
    /\ rm.known \in Histories(h)
    /\ rm.parked_buffer.q \in Seq(Commits(h))
    /\ IsReconciling(rm) => Viewed(rm) \in Histories(h) /\ rm.phase.buffer.q \in Seq(Commits(h))

\* Every push in a mailbox, and every item of a page, is an event of the history.
Legit(q, h) == \A i \in 1 .. Len(q) : q[i].type = "event" => q[i] \in Commits(h)
Truthfully(rd, h) ==
    rd.reply.kind = "page" =>
        /\ Distinct(rd.reply.ids)
        /\ \A i \in 1 .. Len(rd.reply.ids) : Beyond(h, First(rd.req) + i - 1, rd.reply.ids[i])

Contents ==
    /\ Distinct(hist) /\ \A i \in 1 .. Len(hist) : hist[i] < Len(hist)
    /\ Legit(box.q, hist)
    /\ IsTracked => Sound(room, hist)
    /\ \A rd \in reads : Truthfully(rd, hist)

\* The transitions in a mailbox lead from one state of the link to another.
Links == {"Ready", "Down"}
Paths(q) ==
    {w \in [1 .. Len(q) + 1 -> Links] :
       \A i \in 1 .. Len(q) :
         IF q[i].type = "state" THEN w[i] = q[i].from /\ w[i + 1] = q[i].to
                                ELSE w[i + 1] = w[i]}
Path(q, a, z) == \E w \in Paths(q) : w[1] = a /\ w[Len(q) + 1] = z

\* A transition that absorbed a loss of the link says so.
Flaps(q) == \A i \in 1 .. Len(q) :
              q[i].type = "state" /\ q[i].from = "Ready" /\ q[i].to = "Ready" => q[i].problem
ComesUp(q) == q # <<>> /\ q[1].type = "state" /\ q[1].from = "Down" /\ q[1].to = "Ready"
Tells(q)   == \E i \in 1 .. Len(q) : q[i].type = "state"

\* The mailbox leads to the link's state.  It starts from the core's, unless the core took its
\* snapshot after what it has yet to read.
Matches ==
    \E a \in Links :
      /\ Path(box.q, a, link)
      /\ run = "subscribed" => a = "Ready" \/ box = EmptyBox \/ ComesUp(box.q)
      /\ Running => \/ a = state
                    \/ state = "Ready" /\ ComesUp(box.q)
                    \/ state = "Down" /\ Tells(box.q)

Reports ==
    /\ IsTracked => Running
    /\ run \in {"new", "subscribed", "running", "stopped"}
    /\ run = "new" => box = EmptyBox
    /\ Listening => Flaps(box.q) /\ Matches

\* The mailbox without the transition the core will find out of date.
Rest(q) == IF q # <<>> /\ q[1].type = "state" THEN Tail(q) ELSE q

\* Nothing in the mailbox tells of a loss, or of a transition the core does not know.
Clean ==
    /\ link = "Ready" /\ state = "Ready"
    /\ box.lost = 0
    /\ \A i \in 1 .. Len(Rest(box.q)) : Rest(box.q)[i].type \notin {"state", "lagged"}
    /\ box.q # <<>> => box.q[1].type # "lagged"
    /\ box.q # <<>> /\ box.q[1].type = "state" => box.q[1].from = "Down" /\ ~box.q[1].problem

\* A gap behind the first k notices repudiates position p; only pushes follow them up to j.
GapAt(L, k, p) == \E i \in k + 1 .. Len(L) : L[i].type = "gap" /\ L[i].from <= p
Plain(L, k, j) == \A i \in k + 1 .. j : L[i].type = "event"

\* Of the notices L, the first k tell of events the view t has, and those behind them
\* continue it to the history h, or tell where it is out of date.
TracksFrom(h, t, L, k) ==
    /\ \A j \in 1 .. k : L[j].type = "event" => L[j].id \in IdsOf(t)
    /\ \A j \in k + 1 .. Len(L) : Plain(L, k, j) =>
         /\ L[j].pos = Len(t) + j - k - 1
         /\ GapAt(L, k, L[j].pos) \/ (L[j].pos < Len(h) /\ h[L[j].pos + 1] = L[j].id)
    /\ \A p \in 1 .. Len(t) : GapAt(L, k, p - 1) \/ (p <= Len(h) /\ h[p] = t[p])
    /\ Plain(L, k, Len(L)) => Len(h) = Len(t) + Len(L) - k
Tracks(h, t, L) == \E k \in 0 .. Len(L) : TracksFrom(h, t, L, k)

\* A reconciliation that will publish what it reads.
Unhurt(rm) == IsReconciling(rm) /\ rm.phase.rerun = NoReason /\ rm.phase.buffer.dropped = 0

\* What is converged, or about to, leads with the mailbox to the history.
Leads(rm, h, q) ==
    /\ IsConverged(rm) => Tracks(h, rm.known, Rest(q))
    /\ Unhurt(rm) /\ rm.phase.outstanding.op = "Members" =>
         Tracks(h, Viewed(rm), rm.phase.buffer.q \o Rest(q))
LeadsBy(rm, ids, h, q) ==
    Unhurt(rm) /\ PageValid(rm, ids) =>
        Tracks(h, Viewed(rm) \o ids, rm.phase.buffer.q \o Rest(q))

Claims ==
    Clean /\ IsTracked =>
      /\ Leads(room, hist, box.q)
      /\ \A rd \in reads : Current(rd) /\ rd.reply.kind = "page" /\ ~rd.reply.more =>
           LeadsBy(room, rd.reply.ids, hist, box.q)

\* The inductive invariant of what a room knows.
ViewInv == RecInv /\ Contents /\ Reports /\ Claims

-----------------------------------------------------------------------------
(* What is known of a history                                              *)

\* Every event of a history is found in a later one, not to the left of where it was.
Moves(h, h2) == \A a \in 1 .. Len(h) : \E b \in a .. Len(h2) : h2[b] = h[a]

\* What was read or pushed of a history was so of a later one.
LEMMA Moved ==
  ASSUME NEW h \in Seq(Nat), NEW h2 \in Seq(Nat), Moves(h, h2)
  PROVE  /\ Histories(h) \subseteq Histories(h2)
         /\ Commits(h) \subseteq Commits(h2)
         /\ \A p \in Nat : \A id : Beyond(h, p, id) => Beyond(h2, p, id)
<1>1. ASSUME NEW p \in Nat, NEW id, Beyond(h, p, id)
      PROVE  Beyond(h2, p, id)
  <2>1. PICK a \in p + 1 .. Len(h) : h[a] = id
    BY <1>1 DEF Beyond
  <2>2. a \in 1 .. Len(h)
    BY <2>1
  <2>3. PICK b \in a .. Len(h2) : h2[b] = id
    BY <2>1, <2>2 DEF Moves
  <2>4. b \in p + 1 .. Len(h2)
    BY <2>1, <2>3
  <2> QED BY <2>3, <2>4 DEF Beyond
<1>2. Histories(h) \subseteq Histories(h2)
  BY <1>1 DEF Histories
<1>3. Commits(h) \subseteq Commits(h2)
  BY <1>1 DEF Commits, Pushes
<1> QED BY <1>1, <1>2, <1>3

\* What is read of the history stays with it when an event is committed at its end ...
LEMMA CommitMoves ==
  ASSUME NEW h \in Seq(Nat), NEW n \in Nat
  PROVE  Moves(h, Append(h, n))
<1> SUFFICES ASSUME NEW a \in 1 .. Len(h)
             PROVE  \E b \in a .. Len(Append(h, n)) : Append(h, n)[b] = h[a]
  BY DEF Moves
<1>1. Append(h, n)[a] = h[a] /\ a \in a .. Len(Append(h, n))
  OBVIOUS
<1> QED BY <1>1

\* A history with n inserted behind its first r events.
Inserted(h, r, n) == SubSeq(h, 1, r) \o <<n>> \o SubSeq(h, r + 1, Len(h))

\* Where its events lie.
LEMMA InsertShape ==
  ASSUME NEW T, NEW h \in Seq(T), NEW n \in T, NEW r \in 0 .. Len(h)
  PROVE  /\ Inserted(h, r, n) \in Seq(T) /\ Len(Inserted(h, r, n)) = Len(h) + 1
         /\ \A i \in 1 .. r : Inserted(h, r, n)[i] = h[i]
         /\ Inserted(h, r, n)[r + 1] = n
         /\ \A i \in r + 1 .. Len(h) : Inserted(h, r, n)[i + 1] = h[i]
<1> DEFINE a == SubSeq(h, 1, r)
           c == SubSeq(h, r + 1, Len(h))
           m == a \o <<n>>
           h2 == m \o c
<1>0. r \in Nat /\ r + 1 \in 1 .. Len(h) + 1 /\ Len(h) \in Nat
  OBVIOUS
<1>1. a \in Seq(T) /\ Len(a) = r /\ \A i \in 1 .. r : a[i] = h[i]
  BY <1>0
<1>2. c \in Seq(T) /\ Len(c) = Len(h) - r /\ \A i \in 1 .. Len(h) - r : c[i] = h[r + i]
  BY <1>0
<1> HIDE DEF a, c
<1>3. m \in Seq(T) /\ Len(m) = r + 1 /\ \A i \in 1 .. r : m[i] = h[i]
  BY <1>0, <1>1
<1>4. m[r + 1] = n
  BY <1>0, <1>1
<1> HIDE DEF m
<1>9. h2 \in Seq(T) /\ Len(h2) = Len(m) + Len(c)
  BY <1>2, <1>3, ConcatProperties
<1>10. \A i \in 1 .. Len(h2) : h2[i] = IF i <= Len(m) THEN m[i] ELSE c[i - Len(m)]
  <2>1. Len(h2) = Len(m) + Len(c)
    BY <1>9
  <2>2. \A i \in 1 .. Len(m) + Len(c) : (m \o c)[i] = IF i <= Len(m) THEN m[i] ELSE c[i - Len(m)]
    BY <1>2, <1>3, ConcatProperties
  <2> QED BY <2>1, <2>2
<1>11. Len(h2) = Len(h) + 1
  BY <1>0, <1>2, <1>3, <1>9
<1> HIDE DEF h2
<1>5. \A i \in 1 .. r : h2[i] = h[i]
  BY <1>0, <1>3, <1>10, <1>11
<1>6. h2[r + 1] = n
  BY <1>0, <1>3, <1>4, <1>10, <1>11
<1>7. ASSUME NEW i \in r + 1 .. Len(h)
      PROVE  h2[i + 1] = h[i]
  <2>1. i + 1 \in 1 .. Len(h2) /\ ~(i + 1 <= r + 1) /\ i - r \in 1 .. Len(h) - r /\ (i + 1) - (r + 1) = i - r
    BY <1>0, <1>11
  <2>2. h2[i + 1] = c[i - r]
    BY <1>3, <1>10, <2>1
  <2>3. c[i - r] = h[r + (i - r)]
    BY <1>2, <2>1
  <2> QED BY <2>2, <2>3
<1>8. Inserted(h, r, n) = h2
  BY DEF Inserted, h2, m, a, c
<1> QED BY <1>9, <1>11, <1>5, <1>6, <1>7, <1>8

\* ... and when a late sibling is inserted.
LEMMA InsertMoves ==
  ASSUME NEW h \in Seq(Nat), NEW n \in Nat, NEW r \in 1 .. Len(h) - 1
  PROVE  Moves(h, Inserted(h, r, n))
<1> DEFINE h2 == Inserted(h, r, n)
<1>1. /\ Len(h2) = Len(h) + 1 /\ \A i \in 1 .. r : h2[i] = h[i]
      /\ \A i \in r + 1 .. Len(h) : h2[i + 1] = h[i]
  <2> DEFINE T == Nat
  <2>1. h \in Seq(T) /\ n \in T /\ r \in 0 .. Len(h)
    OBVIOUS
  <2> HIDE DEF T
  <2>2. Len(h2) = Len(h) + 1 /\ \A i \in 1 .. r : h2[i] = h[i]
    BY <2>1, InsertShape
  <2>3. \A i \in r + 1 .. Len(h) : h2[i + 1] = h[i]
    BY <2>1, InsertShape
  <2> QED BY <2>2, <2>3
<1> HIDE DEF h2
<1> SUFFICES ASSUME NEW a \in 1 .. Len(h)
             PROVE  \E b \in a .. Len(h2) : h2[b] = h[a]
  BY DEF Moves, h2
<1>2. CASE a <= r
  <2>1. a \in a .. Len(h2) /\ h2[a] = h[a]
    BY <1>1, <1>2
  <2> QED BY <2>1
<1>3. CASE a > r
  <2>1. a + 1 \in a .. Len(h2) /\ h2[a + 1] = h[a]
    BY <1>1, <1>3
  <2> QED BY <2>1
<1> QED BY <1>2, <1>3

\* A new identity leaves a history without repetition.
LEMMA StaysDistinct ==
  ASSUME NEW h \in Seq(Nat), Distinct(h), \A i \in 1 .. Len(h) : h[i] < Len(h)
  PROVE  /\ LET h2 == Append(h, Len(h))
            IN  Distinct(h2) /\ \A i \in 1 .. Len(h2) : h2[i] < Len(h2)
         /\ \A r \in 1 .. Len(h) - 1 :
              LET h2 == Inserted(h, r, Len(h))
              IN  Distinct(h2) /\ \A i \in 1 .. Len(h2) : h2[i] < Len(h2)
<1>0. \A i \in 1 .. Len(h) : h[i] \in Nat
  OBVIOUS
<1>1. LET h2 == Append(h, Len(h))
      IN  Distinct(h2) /\ \A i \in 1 .. Len(h2) : h2[i] < Len(h2)
  <2> DEFINE h2 == Append(h, Len(h))
  <2>1. h2 \in Seq(Nat) /\ Len(h2) = Len(h) + 1 /\ \A i \in 1 .. Len(h2) : h2[i] = IF i <= Len(h) THEN h[i] ELSE Len(h)
    OBVIOUS
  <2> HIDE DEF h2
  <2>2. Distinct(h2)
    BY SMTT(30), <1>0, <2>1 DEF Distinct
  <2>3. \A i \in 1 .. Len(h2) : h2[i] < Len(h2)
    BY <1>0, <2>1
  <2> QED BY <2>2, <2>3 DEF h2
<1>2. ASSUME NEW r \in 1 .. Len(h) - 1
      PROVE  LET h2 == Inserted(h, r, Len(h))
             IN  Distinct(h2) /\ \A i \in 1 .. Len(h2) : h2[i] < Len(h2)
  <2> DEFINE h2 == Inserted(h, r, Len(h))
             was(i) == IF i <= r THEN i ELSE i - 1
  <2>1. /\ h2 \in Seq(Nat) /\ Len(h2) = Len(h) + 1
        /\ \A i \in 1 .. r : h2[i] = h[i]
        /\ h2[r + 1] = Len(h)
        /\ \A i \in r + 1 .. Len(h) : h2[i + 1] = h[i]
    <3> DEFINE T == Nat
               n == Len(h)
    <3>1. h \in Seq(T) /\ n \in T /\ r \in 0 .. Len(h)
      OBVIOUS
    <3> HIDE DEF T, n
    <3>2. /\ Inserted(h, r, n) \in Seq(T) /\ Len(Inserted(h, r, n)) = Len(h) + 1
          /\ \A i \in 1 .. r : Inserted(h, r, n)[i] = h[i]
          /\ Inserted(h, r, n)[r + 1] = n
      BY <3>1, InsertShape
    <3>3. \A i \in r + 1 .. Len(h) : Inserted(h, r, n)[i + 1] = h[i]
      BY <3>1, InsertShape
    <3> QED BY <3>2, <3>3 DEF T, n
  <2> HIDE DEF h2
  <2>2. ASSUME NEW i \in 1 .. Len(h2), i # r + 1
        PROVE  was(i) \in 1 .. Len(h) /\ h2[i] = h[was(i)]
    <3>1. CASE i <= r
      BY <2>1, <3>1
    <3>2. CASE i > r + 1
      <4>1. i - 1 \in r + 1 .. Len(h)
        BY <2>1, <3>2
      <4>2. h2[(i - 1) + 1] = h[i - 1]
        BY <2>1, <4>1
      <4> QED BY <4>1, <4>2, <3>2
    <3> QED BY <2>2, <3>1, <3>2
  <2>3. ASSUME NEW i \in 1 .. Len(h2), NEW j \in 1 .. Len(h2), h2[i] = h2[j]
        PROVE  i = j
    <3>1. CASE i # r + 1 /\ j # r + 1
      <4>1. was(i) \in 1 .. Len(h) /\ was(j) \in 1 .. Len(h) /\ h[was(i)] = h[was(j)]
        BY <2>2, <2>3, <3>1
      <4>2. was(i) = was(j)
        BY <4>1 DEF Distinct
      <4> QED BY <3>1, <4>2
    <3>2. CASE i = r + 1 /\ j # r + 1
      <4>1. h2[j] = h[was(j)] /\ was(j) \in 1 .. Len(h)
        BY <2>2, <3>2
      <4> QED BY <1>0, <2>1, <2>3, <3>2, <4>1
    <3>3. CASE i # r + 1 /\ j = r + 1
      <4>1. h2[i] = h[was(i)] /\ was(i) \in 1 .. Len(h)
        BY <2>2, <3>3
      <4> QED BY <1>0, <2>1, <2>3, <3>3, <4>1
    <3> QED BY <3>1, <3>2, <3>3
  <2>4. ASSUME NEW i \in 1 .. Len(h2)
        PROVE  h2[i] < Len(h2)
    <3>1. CASE i = r + 1
      BY <2>1, <3>1
    <3>2. CASE i # r + 1
      <4>1. h2[i] = h[was(i)] /\ was(i) \in 1 .. Len(h)
        BY <2>2, <3>2
      <4>2. h[was(i)] < Len(h) /\ h[was(i)] \in Nat
        BY <1>0, <4>1
      <4> QED BY SMTT(30), <2>1, <4>1, <4>2
    <3> QED BY <3>1, <3>2
  <2>5. Distinct(h2)
    BY <2>1, <2>3 DEF Distinct
  <2> QED BY <2>4, <2>5 DEF h2
<1> QED BY <1>1, <1>2

\* A prefix of what was read was read.
LEMMA PrefixRead ==
  ASSUME NEW h, NEW s \in Histories(h), NEW n \in 0 .. Len(s)
  PROVE  SubSeq(s, 1, n) \in Histories(h) /\ <<>> \in Histories(h)
<1> DEFINE t == SubSeq(s, 1, n)
<1>1. s \in Seq(Nat) /\ Distinct(s) /\ \A i \in 1 .. Len(s) : Beyond(h, i - 1, s[i])
  BY DEF Histories
<1>2. t \in Seq(Nat) /\ Len(t) = n /\ \A i \in 1 .. n : t[i] = s[i]
  BY <1>1
<1> HIDE DEF t
<1>7. DOMAIN t = 1 .. n /\ DOMAIN s = 1 .. Len(s) /\ Len(s) \in Nat
  BY <1>1, <1>2
<1>3. Distinct(t)
  BY <1>1, <1>2, <1>7 DEF Distinct
<1>4. ASSUME NEW i \in 1 .. Len(t)
      PROVE  Beyond(h, i - 1, t[i])
  <2>1. i \in 1 .. Len(s) /\ t[i] = s[i]
    BY <1>2, <1>7
  <2> QED BY <1>1, <2>1
<1>5. t \in Histories(h)
  BY <1>2, <1>3, <1>4 DEF Histories
<1>6. <<>> \in Histories(h)
  BY DEF Histories, Distinct
<1> QED BY <1>5, <1>6 DEF t

\* A page that continues what was read, and repeats none of it.
LEMMA PageRead ==
  ASSUME NEW h, NEW s \in Histories(h), NEW ids \in Seq(Nat), Distinct(ids),
         \A i \in 1 .. Len(ids) : Beyond(h, Len(s) + i - 1, ids[i]),
         IdsOf(ids) \cap IdsOf(s) = {}
  PROVE  s \o ids \in Histories(h)
<1> DEFINE t == s \o ids
<1>1. s \in Seq(Nat) /\ Distinct(s) /\ \A i \in 1 .. Len(s) : Beyond(h, i - 1, s[i])
  BY DEF Histories
<1>2. t \in Seq(Nat) /\ Len(t) = Len(s) + Len(ids)
  BY <1>1
<1>3. \A i \in 1 .. Len(s) + Len(ids) : t[i] = IF i <= Len(s) THEN s[i] ELSE ids[i - Len(s)]
  BY <1>1, ConcatProperties
<1>4. Len(s) \in Nat /\ Len(ids) \in Nat /\ DOMAIN s = 1 .. Len(s) /\ DOMAIN ids = 1 .. Len(ids)
      /\ DOMAIN t = 1 .. Len(t)
  BY <1>1, <1>2, LenProperties
<1> HIDE DEF t
<1>5. \A i \in 1 .. Len(s) : \A j \in 1 .. Len(ids) : s[i] # ids[j]
  BY <1>4 DEF IdsOf
<1>6. ASSUME NEW i \in 1 .. Len(t), NEW j \in 1 .. Len(t), t[i] = t[j]
      PROVE  i = j
  <2>1. CASE i <= Len(s) /\ j <= Len(s)
    <3>1. i \in 1 .. Len(s) /\ j \in 1 .. Len(s) /\ s[i] = s[j]
      BY <1>2, <1>3, <1>4, <1>6, <2>1
    <3> QED BY <1>1, <1>4, <3>1 DEF Distinct
  <2>2. CASE i > Len(s) /\ j > Len(s)
    <3>1. i - Len(s) \in 1 .. Len(ids) /\ j - Len(s) \in 1 .. Len(ids) /\ ids[i - Len(s)] = ids[j - Len(s)]
      BY SMTT(30), <1>2, <1>3, <1>4, <1>6, <2>2
    <3>2. i - Len(s) = j - Len(s)
      BY <1>4, <3>1 DEF Distinct
    <3> QED BY <1>4, <3>2
  <2>3. CASE i <= Len(s) /\ j > Len(s)
    <3>1. i \in 1 .. Len(s) /\ j - Len(s) \in 1 .. Len(ids) /\ s[i] = ids[j - Len(s)]
      BY <1>2, <1>3, <1>4, <1>6, <2>3
    <3> QED BY <1>5, <3>1
  <2>4. CASE i > Len(s) /\ j <= Len(s)
    <3>1. j \in 1 .. Len(s) /\ i - Len(s) \in 1 .. Len(ids) /\ s[j] = ids[i - Len(s)]
      BY <1>2, <1>3, <1>4, <1>6, <2>4
    <3> QED BY <1>5, <3>1
  <2> QED BY <1>2, <1>4, <2>1, <2>2, <2>3, <2>4
<1>7. ASSUME NEW i \in 1 .. Len(t)
      PROVE  Beyond(h, i - 1, t[i])
  <2>1. CASE i <= Len(s)
    <3>1. i \in 1 .. Len(s) /\ t[i] = s[i]
      BY <1>2, <1>3, <1>4, <2>1
    <3> QED BY <1>1, <3>1
  <2>2. CASE i > Len(s)
    <3>1. i - Len(s) \in 1 .. Len(ids) /\ t[i] = ids[i - Len(s)]
      BY <1>2, <1>3, <1>4, <2>2
    <3>2. Beyond(h, Len(s) + (i - Len(s)) - 1, ids[i - Len(s)]) /\ Len(s) + (i - Len(s)) - 1 = i - 1
      BY <1>4, <3>1
    <3> QED BY <3>1, <3>2
  <2> QED BY <1>2, <1>4, <2>1, <2>2
<1> QED BY <1>2, <1>4, <1>6, <1>7 DEF t, Histories, Distinct

\* A push that continues what was read, and is not part of it.
LEMMA PushRead ==
  ASSUME NEW h, NEW s \in Histories(h), NEW e \in Commits(h), e.pos = Len(s), e.id \notin IdsOf(s)
  PROVE  Append(s, e.id) \in Histories(h)
<1> DEFINE t == Append(s, e.id)
<1>1. s \in Seq(Nat) /\ Distinct(s) /\ \A i \in 1 .. Len(s) : Beyond(h, i - 1, s[i])
  BY DEF Histories
<1>2. e.id \in Nat /\ Beyond(h, Len(s), e.id)
  BY DEF Commits, Pushes
<1>3. t \in Seq(Nat) /\ Len(t) = Len(s) + 1 /\ \A i \in 1 .. Len(t) : t[i] = IF i <= Len(s) THEN s[i] ELSE e.id
  BY <1>1, <1>2
<1> HIDE DEF t
<1>4. \A i \in 1 .. Len(s) : s[i] # e.id
  BY <1>1 DEF IdsOf
<1>5. Distinct(t)
  BY SMTT(30), <1>1, <1>3, <1>4 DEF Distinct
<1>6. ASSUME NEW i \in 1 .. Len(t)
      PROVE  Beyond(h, i - 1, t[i])
  <2>1. CASE i <= Len(s)
    <3>1. i \in 1 .. Len(s) /\ t[i] = s[i]
      BY <1>1, <1>3, <2>1
    <3> QED BY <1>1, <3>1
  <2>2. CASE i > Len(s)
    <3>1. i - 1 = Len(s) /\ t[i] = e.id
      BY <1>1, <1>3, <2>2
    <3> QED BY <1>2, <3>1
  <2> QED BY <1>1, <2>1, <2>2
<1> QED BY <1>3, <1>5, <1>6 DEF t, Histories

\* What was read lies where the history has it, unless some of it was moved behind it.
LEMMA NothingMoved ==
  ASSUME NEW h \in Seq(Nat), Distinct(h), NEW s \in Histories(h),
         \A i \in 1 .. Len(s) : \A a \in Len(s) + 1 .. Len(h) : s[i] # h[a]
  PROVE  Len(s) <= Len(h) /\ \A i \in 1 .. Len(s) : h[i] = s[i]
<1> DEFINE n == Len(s)
           S == {k \in Nat : k < n /\ h[n - k] # s[n - k]}
<1>1. s \in Seq(Nat) /\ Distinct(s) /\ \A i \in 1 .. n : Beyond(h, i - 1, s[i])
  BY DEF Histories
<1>2. n \in Nat /\ Len(h) \in Nat
  BY <1>1
<1> HIDE DEF n
<1>3. S = {}
  <2>1. SUFFICES ASSUME S # {} PROVE FALSE
    OBVIOUS
  <2>2. PICK k \in S : \A l \in S : k <= l
    BY <2>1, Least
  <2> DEFINE m == n - k
  <2>3. m \in 1 .. n /\ h[m] # s[m]
    BY <1>2, <2>2
  <2>4. PICK a \in (m - 1) + 1 .. Len(h) : h[a] = s[m]
    BY <1>1, <2>3 DEF Beyond
  <2>5. a > m
    BY <1>2, <2>3, <2>4
  <2>6. a <= n
    BY SMTT(30), <1>2, <2>3, <2>4 DEF n
  <2>7. h[a] = s[a]
    <3>1. n - a \in Nat /\ n - a < k /\ n - (n - a) = a
      BY <1>2, <2>2, <2>3, <2>5, <2>6
    <3>2. n - a \notin S
      BY <2>2, <3>1
    <3>3. n - a < n
      BY <1>2, <2>3, <2>5, <3>1
    <3> HIDE DEF m
    <3> QED BY <3>1, <3>2, <3>3
  <2>8. a = m
    <3>1. a \in DOMAIN s /\ m \in DOMAIN s
      <4>1. DOMAIN s = 1 .. n
        BY <1>1 DEF n
      <4>2. a \in 1 .. n
        BY <1>2, <2>3, <2>5, <2>6
      <4> HIDE DEF m
      <4> QED BY <2>3, <4>1, <4>2
    <3> QED BY <1>1, <2>4, <2>7, <3>1 DEF Distinct
  <2> QED BY <1>2, <2>3, <2>5, <2>8
<1>4. ASSUME NEW i \in 1 .. n
      PROVE  h[i] = s[i]
  <2>1. n - i \in Nat /\ n - i < n /\ n - (n - i) = i
    BY <1>2
  <2>2. n - i \notin S
    BY <1>3
  <2> QED BY <2>1, <2>2
<1>5. n <= Len(h)
  <2>1. CASE n = 0
    BY <1>2, <2>1
  <2>2. CASE n # 0
    <3>1. n \in 1 .. n
      BY <1>2, <2>2
    <3>2. PICK a \in (n - 1) + 1 .. Len(h) : h[a] = s[n]
      BY <1>1, <3>1 DEF Beyond
    <3> QED BY <1>2, <3>2
  <2> QED BY <2>1, <2>2
<1> QED BY <1>4, <1>5 DEF n

-----------------------------------------------------------------------------
(* What leads from a view to the history                                   *)

\* The whole history is led to by whatever tells of it.
LEMMA TracksNow ==
  ASSUME NEW h \in Seq(Nat), NEW L \in Seq(Notices),
         \A j \in 1 .. Len(L) : L[j].type = "event" => L[j].id \in IdsOf(h)
  PROVE  Tracks(h, h, L)
<1>1. Len(L) \in 0 .. Len(L) /\ Len(L) \in Nat /\ Len(h) \in Nat
  OBVIOUS
<1>2. \A j \in Len(L) + 1 .. Len(L) : FALSE
  BY <1>1
<1>3. TracksFrom(h, h, L, Len(L))
  BY <1>1, <1>2 DEF TracksFrom
<1> QED BY <1>1, <1>3 DEF Tracks

\* A notice follows: it tells of the event committed with it, or of where the history has
\* changed, or something did so before it.
LEMMA TracksMore ==
  ASSUME NEW h \in Seq(Nat), NEW h2 \in Seq(Nat), NEW t \in Seq(Nat), NEW L \in Seq(Notices),
         NEW x \in Notices, NEW k \in 0 .. Len(L), TracksFrom(h, t, L, k), Len(h) <= Len(h2),
         \A p \in 0 .. Len(h) - 1 : h2[p + 1] = h[p + 1] \/ (x.type = "gap" /\ x.from <= p),
         Plain(L, k, Len(L)) /\ x.type = "event" =>
           x.pos = Len(h) /\ Len(h2) = Len(h) + 1 /\ h2[Len(h) + 1] = x.id
  PROVE  k \in 0 .. Len(Append(L, x)) /\ TracksFrom(h2, t, Append(L, x), k)
<1> DEFINE M == Append(L, x)
           n == Len(L)
<1>1. M \in Seq(Notices) /\ Len(M) = n + 1 /\ n \in Nat /\ M[n + 1] = x /\ \A i \in 1 .. n : M[i] = L[i]
  OBVIOUS
<1>2. k \in Nat /\ k <= n /\ Len(t) \in Nat /\ Len(h) \in Nat /\ Len(h2) \in Nat
  BY <1>1
<1> HIDE DEF M, n
<1>3. ASSUME NEW p \in Int, GapAt(L, k, p)
      PROVE  GapAt(M, k, p)
  <2>1. PICK i \in k + 1 .. n : L[i].type = "gap" /\ L[i].from <= p
    BY <1>3 DEF GapAt, n
  <2>2. i \in k + 1 .. Len(M) /\ M[i] = L[i]
    BY <1>1, <1>2
  <2> QED BY <2>1, <2>2 DEF GapAt
<1>4. ASSUME NEW p \in Int, x.type = "gap" /\ x.from <= p
      PROVE  GapAt(M, k, p)
  <2>1. n + 1 \in k + 1 .. Len(M)
    BY <1>1, <1>2
  <2> QED BY <1>1, <1>4, <2>1 DEF GapAt
<1>5. ASSUME NEW p \in Nat, GapAt(L, k, p) \/ p < Len(h)
      PROVE  GapAt(M, k, p) \/ (p < Len(h2) /\ h2[p + 1] = h[p + 1])
  <2>1. CASE GapAt(L, k, p)
    BY <1>3, <2>1
  <2>2. CASE p < Len(h)
    <3>1. p \in 0 .. Len(h) - 1
      BY <1>2, <2>2
    <3> QED BY SMTT(30), <1>2, <1>4, <2>2, <3>1
  <2> QED BY <1>5, <2>1, <2>2
<1>6. ASSUME NEW j \in k + 1 .. n
      PROVE  Plain(M, k, j) <=> Plain(L, k, j)
  <2>1. \A i \in k + 1 .. j : M[i] = L[i]
    BY <1>1, <1>2
  <2> QED BY <2>1 DEF Plain
<1>7. Plain(M, k, n + 1) <=> Plain(L, k, n) /\ x.type = "event"
  <2>1. \A i \in k + 1 .. n + 1 : (i \in k + 1 .. n /\ M[i] = L[i]) \/ (i = n + 1 /\ M[i] = x)
    <3> SUFFICES ASSUME NEW i \in k + 1 .. n + 1
                 PROVE  (i \in k + 1 .. n /\ M[i] = L[i]) \/ (i = n + 1 /\ M[i] = x)
      OBVIOUS
    <3>1. i = n + 1 \/ (i \in k + 1 .. n /\ i \in 1 .. n)
      BY <1>1, <1>2
    <3> QED BY <1>1, <3>1
  <2>2. n + 1 \in k + 1 .. n + 1 /\ \A i \in k + 1 .. n : i \in k + 1 .. n + 1 /\ M[i] = L[i]
    BY <1>1, <1>2
  <2> QED BY <1>1, <2>1, <2>2 DEF Plain
<1>8. ASSUME NEW j \in 1 .. k, M[j].type = "event"
      PROVE  M[j].id \in IdsOf(t)
  <2>1. j \in 1 .. n /\ M[j] = L[j]
    BY <1>1, <1>2
  <2> QED BY <1>8, <2>1 DEF TracksFrom
<1>9. ASSUME NEW j \in k + 1 .. Len(M), Plain(M, k, j)
      PROVE  /\ M[j].pos = Len(t) + j - k - 1
             /\ GapAt(M, k, M[j].pos) \/ (M[j].pos < Len(h2) /\ h2[M[j].pos + 1] = M[j].id)
  <2>1. CASE j <= n
    <3>1. j \in k + 1 .. n /\ M[j] = L[j] /\ Plain(L, k, j)
      BY <1>1, <1>2, <1>6, <1>9, <2>1
    <3>2. /\ L[j].pos = Len(t) + j - k - 1
          /\ GapAt(L, k, L[j].pos) \/ (L[j].pos < Len(h) /\ h[L[j].pos + 1] = L[j].id)
      BY <3>1 DEF TracksFrom, n
    <3>3. L[j].pos \in Nat
      <4>1. Len(t) + j - k - 1 \in Nat
        BY <1>1, <1>2, <3>1
      <4> QED BY <3>2, <4>1
    <3>4. CASE GapAt(L, k, L[j].pos)
      BY <1>3, <3>1, <3>2, <3>3, <3>4
    <3>5. CASE L[j].pos < Len(h) /\ h[L[j].pos + 1] = L[j].id
      BY <1>5, <3>1, <3>2, <3>3, <3>5
    <3> QED BY <3>1, <3>2, <3>4, <3>5
  <2>2. CASE j = n + 1
    <3>1. Plain(L, k, n) /\ x.type = "event" /\ M[j] = x
      BY <1>1, <1>7, <1>9, <2>2
    <3>2. Len(h) = Len(t) + n - k
      BY <3>1 DEF TracksFrom, n
    <3>3. x.pos = Len(h) /\ Len(h2) = Len(h) + 1 /\ h2[Len(h) + 1] = x.id
      BY <3>1 DEF n
    <3> QED BY SMTT(30), <1>1, <1>2, <2>2, <3>1, <3>2, <3>3
  <2> QED BY <1>1, <1>2, <2>1, <2>2
<1>10. ASSUME NEW p \in 1 .. Len(t)
       PROVE  GapAt(M, k, p - 1) \/ (p <= Len(h2) /\ h2[p] = t[p])
  <2>1. GapAt(L, k, p - 1) \/ (p <= Len(h) /\ h[p] = t[p])
    BY DEF TracksFrom
  <2>2. p - 1 \in Nat /\ p - 1 + 1 = p
    BY <1>2
  <2>3. CASE GapAt(L, k, p - 1)
    BY <1>3, <2>2, <2>3
  <2>4. CASE p <= Len(h) /\ h[p] = t[p]
    <3>1. p - 1 < Len(h)
      BY <1>2, <2>4
    <3>2. GapAt(M, k, p - 1) \/ (p - 1 < Len(h2) /\ h2[p] = h[p])
      BY <1>5, <2>2, <3>1
    <3> QED BY <1>2, <2>2, <2>4, <3>2
  <2> QED BY <2>1, <2>3, <2>4
<1>11. ASSUME Plain(M, k, Len(M))
       PROVE  Len(h2) = Len(t) + Len(M) - k
  <2>1. Plain(L, k, n) /\ x.type = "event"
    BY <1>1, <1>7, <1>11
  <2>2. Len(h) = Len(t) + n - k
    BY <2>1 DEF TracksFrom, n
  <2>3. Len(h2) = Len(h) + 1
    BY <2>1 DEF n
  <2> QED BY <1>1, <1>2, <2>2, <2>3
<1>12. TracksFrom(h2, t, M, k)
  BY <1>8, <1>9, <1>10, <1>11 DEF TracksFrom
<1> QED BY <1>1, <1>2, <1>12 DEF M

\* The history t has grown to K by pushes of B, and every push of B is in it.
Grows(t, B, K) ==
    /\ Len(t) <= Len(K) /\ \A i \in 1 .. Len(t) : K[i] = t[i]
    /\ \A j \in 1 .. Len(B) : B[j].pos + 1 \in 1 .. Len(K) /\ K[B[j].pos + 1] = B[j].id
    /\ \A i \in Len(t) + 1 .. Len(K) : \E j \in 1 .. Len(B) : B[j].pos + 1 = i

\* The pushes of B have been taken in: what they lead to leads on.
LEMMA Lands ==
  ASSUME NEW h \in Seq(Nat), NEW t \in Seq(Nat), NEW K \in Seq(Nat), Distinct(K),
         NEW B \in Seq(Pushes), NEW R \in Seq(Notices), Tracks(h, t, B \o R), Grows(t, B, K)
  PROVE  Tracks(h, K, R)
<1> DEFINE L == B \o R
           b == Len(B)
<1>1. B \in Seq(Notices)
  <2>1. Pushes \subseteq Notices
    BY DEF Notices
  <2> QED BY <2>1, SeqMonotonic
<1>2. L \in Seq(Notices) /\ Len(L) = b + Len(R) /\ b \in Nat /\ Len(R) \in Nat
  BY <1>1, ConcatProperties
<1>3. \A i \in 1 .. b + Len(R) : L[i] = IF i <= b THEN B[i] ELSE R[i - b]
  BY <1>1, ConcatProperties
<1>4. PICK k \in 0 .. Len(L) : TracksFrom(h, t, L, k)
  BY DEF Tracks
<1>5. Len(t) \in Nat /\ Len(K) \in Nat /\ Len(h) \in Nat /\ k \in Nat /\ DOMAIN K = 1 .. Len(K) /\ DOMAIN t = 1 .. Len(t)
  BY <1>2, <1>4
<1>6. \A j \in 1 .. b : B[j] \in Pushes /\ B[j].type = "event" /\ B[j].pos \in Nat /\ L[j] = B[j]
  <2> SUFFICES ASSUME NEW j \in 1 .. b
               PROVE  B[j] \in Pushes /\ B[j].type = "event" /\ B[j].pos \in Nat /\ L[j] = B[j]
    OBVIOUS
  <2>1. B[j] \in Pushes
    OBVIOUS
  <2>2. L[j] = B[j]
    BY <1>2, <1>3
  <2> QED BY <2>1, <2>2 DEF Pushes
<1>10. Len(t) <= Len(K) /\ \A i \in 1 .. Len(t) : K[i] = t[i]
  BY DEF Grows
<1>11. \A j \in 1 .. b : B[j].pos + 1 \in 1 .. Len(K) /\ K[B[j].pos + 1] = B[j].id
  BY DEF Grows
<1>12. \A i \in Len(t) + 1 .. Len(K) : \E j \in 1 .. b : B[j].pos + 1 = i
  BY DEF Grows
<1> HIDE DEF L, b
\* What the first k tell of was in the view: it is not what came to it.
<1>7. ASSUME NEW j \in 1 .. b, j <= k
      PROVE  B[j].pos + 1 <= Len(t)
  <2>1. B[j].id \in IdsOf(t)
    <3>1. j \in 1 .. k
      BY <1>2, <1>5, <1>7
    <3> QED BY <1>4, <1>6, <3>1 DEF TracksFrom
  <2>2. PICK i \in 1 .. Len(t) : t[i] = B[j].id
    BY <1>5, <2>1 DEF IdsOf
  <2>3. i \in DOMAIN K /\ B[j].pos + 1 \in DOMAIN K /\ K[i] = K[B[j].pos + 1]
    BY SMTT(30), <1>5, <1>10, <1>11, <2>2
  <2>4. i = B[j].pos + 1
    BY <2>3 DEF Distinct
  <2> QED BY <1>5, <2>2, <2>4
<1>8. CASE k >= b
  <2>1. Len(K) = Len(t)
    <3>0. \A a, c \in Nat : a <= c /\ ~(a + 1 <= c) => c = a
      OBVIOUS
    <3>1. SUFFICES ASSUME Len(t) + 1 <= Len(K) PROVE FALSE
      <4>1. Len(t) <= Len(K)
        BY <1>10
      <4>2. Len(t) \in Nat /\ Len(K) \in Nat
        BY <1>5
      <4> QED BY <3>0, <4>1, <4>2
    <3>2. PICK j \in 1 .. b : B[j].pos + 1 = Len(t) + 1
      <4>1. Len(t) + 1 \in Len(t) + 1 .. Len(K)
        BY <1>5, <3>1
      <4> QED BY <1>12, <4>1
    <3>3. j <= k
      BY <1>2, <1>5, <1>8
    <3> QED BY <1>5, <1>6, <1>7, <3>2, <3>3
  <2>2. K = t
    BY <1>5, <1>10, <2>1, SeqEqual
  <2> DEFINE m == k - b
  <2>3. m \in 0 .. Len(R) /\ m \in Nat /\ k = b + m
    BY <1>2, <1>4, <1>5, <1>8
  <2> HIDE DEF m
  <2>4. ASSUME NEW j \in 1 .. Len(R)
        PROVE  L[b + j] = R[j] /\ b + j \in 1 .. Len(L)
    <3>1. b + j \in 1 .. b + Len(R) /\ ~(b + j <= b) /\ (b + j) - b = j
      BY <1>2
    <3> QED BY <1>2, <1>3, <3>1
  <2>5. ASSUME NEW p \in Int
        PROVE  GapAt(L, k, p) <=> GapAt(R, m, p)
    <3>1. ASSUME GapAt(L, k, p) PROVE GapAt(R, m, p)
      <4>1. PICK i \in k + 1 .. Len(L) : L[i].type = "gap" /\ L[i].from <= p
        BY <3>1 DEF GapAt
      <4>2. i - b \in m + 1 .. Len(R) /\ i - b \in 1 .. Len(R) /\ b + (i - b) = i
        BY <1>2, <2>3, <4>1
      <4>3. L[i] = R[i - b]
        BY <2>4, <4>2
      <4> QED BY <4>1, <4>2, <4>3 DEF GapAt
    <3>2. ASSUME GapAt(R, m, p) PROVE GapAt(L, k, p)
      <4>1. PICK i \in m + 1 .. Len(R) : R[i].type = "gap" /\ R[i].from <= p
        BY <3>2 DEF GapAt
      <4>2. b + i \in k + 1 .. Len(L) /\ i \in 1 .. Len(R)
        BY <1>2, <2>3, <4>1
      <4>3. L[b + i] = R[i]
        BY <2>4, <4>2
      <4> QED BY <4>1, <4>2, <4>3 DEF GapAt
    <3> QED BY <3>1, <3>2
  <2>6. ASSUME NEW j \in m .. Len(R), Plain(R, m, j)
        PROVE  Plain(L, k, b + j)
    <3> SUFFICES ASSUME NEW i \in k + 1 .. b + j PROVE L[i].type = "event"
      BY DEF Plain
    <3>1. i - b \in m + 1 .. j /\ i - b \in 1 .. Len(R) /\ b + (i - b) = i
      <4>1. i \in Int /\ j \in Int /\ m + b + 1 <= i /\ i <= b + j /\ j <= Len(R)
        BY <1>2, <2>3
      <4> QED BY <1>2, <2>3, <4>1
    <3>2. R[i - b].type = "event"
      BY <2>6, <3>1 DEF Plain
    <3> QED BY <2>4, <3>1, <3>2
  <2>7. ASSUME NEW j \in 1 .. m, R[j].type = "event"
        PROVE  R[j].id \in IdsOf(K)
    <3>1. j \in 1 .. Len(R) /\ b + j \in 1 .. k
      BY <1>2, <2>3
    <3> QED BY <1>4, <2>2, <2>4, <2>7, <3>1 DEF TracksFrom
  <2>8. ASSUME NEW j \in m + 1 .. Len(R), Plain(R, m, j)
        PROVE  /\ R[j].pos = Len(K) + j - m - 1
               /\ GapAt(R, m, R[j].pos) \/ (R[j].pos < Len(h) /\ h[R[j].pos + 1] = R[j].id)
    <3>1. j \in 1 .. Len(R) /\ j \in m .. Len(R) /\ b + j \in k + 1 .. Len(L) /\ (b + j) - k - 1 = j - m - 1
      BY <1>2, <2>3
    <3>2. Plain(L, k, b + j) /\ L[b + j] = R[j]
      BY <2>4, <2>6, <2>8, <3>1
    <3>3. /\ R[j].pos = Len(t) + (b + j) - k - 1
          /\ GapAt(L, k, R[j].pos) \/ (R[j].pos < Len(h) /\ h[R[j].pos + 1] = R[j].id)
      BY <1>4, <3>1, <3>2 DEF TracksFrom
    <3>4. R[j].pos = Len(K) + j - m - 1 /\ R[j].pos \in Int
      <4>1. Len(t) + (b + j) - k - 1 = Len(K) + j - m - 1 /\ Len(K) + j - m - 1 \in Int
        BY <1>2, <1>5, <2>1, <2>3
      <4> QED BY <3>3, <4>1
    <3> QED BY <2>5, <3>3, <3>4
  <2>9. ASSUME NEW p \in 1 .. Len(K)
        PROVE  GapAt(R, m, p - 1) \/ (p <= Len(h) /\ h[p] = K[p])
    <3>1. GapAt(L, k, p - 1) \/ (p <= Len(h) /\ h[p] = K[p])
      BY <1>4, <2>2 DEF TracksFrom
    <3> QED BY <2>5, <3>1
  <2>10. ASSUME Plain(R, m, Len(R))
         PROVE  Len(h) = Len(K) + Len(R) - m
    <3>1. Plain(L, k, Len(L))
      BY <1>2, <2>3, <2>6, <2>10
    <3>2. Len(h) = Len(t) + Len(L) - k
      BY <1>4, <3>1 DEF TracksFrom
    <3> QED BY <1>2, <1>5, <2>1, <2>3, <3>2
  <2>11. TracksFrom(h, K, R, m)
    BY <2>7, <2>8, <2>9, <2>10 DEF TracksFrom
  <2> QED BY <2>3, <2>11 DEF Tracks
<1>9. CASE k < b
  <2>1. \A j \in k .. b : Plain(L, k, j)
    <3> SUFFICES ASSUME NEW j \in k .. b, NEW i \in k + 1 .. j PROVE L[i].type = "event"
      BY DEF Plain
    <3>1. i \in 1 .. b
      BY <1>2, <1>5
    <3> QED BY <1>6, <3>1
  <2>2. ASSUME NEW j \in k + 1 .. b
        PROVE  /\ B[j].pos = Len(t) + j - k - 1
               /\ GapAt(L, k, B[j].pos) \/ (B[j].pos < Len(h) /\ h[B[j].pos + 1] = B[j].id)
    <3>1. j \in 1 .. b /\ j \in k .. b /\ j \in k + 1 .. Len(L)
      BY <1>2, <1>5
    <3> QED BY <1>4, <1>6, <2>1, <3>1 DEF TracksFrom
  <2>3. Len(K) = Len(t) + b - k
    <3>1. b \in k + 1 .. b /\ b \in 1 .. b
      BY <1>2, <1>5, <1>9
    <3>2. B[b].pos + 1 = Len(t) + b - k /\ B[b].pos + 1 \in 1 .. Len(K)
      <4>1. B[b].pos = Len(t) + b - k - 1
        BY <2>2, <3>1
      <4>2. B[b].pos + 1 \in 1 .. Len(K)
        BY <1>11, <3>1
      <4> QED BY <1>2, <1>5, <4>1, <4>2
    <3>3. Len(K) >= Len(t) + b - k
      BY <1>5, <3>2
    <3>4. Len(K) \in Len(t) + 1 .. Len(K)
      BY <1>2, <1>5, <1>9, <3>3
    <3>5. PICK j \in 1 .. b : B[j].pos + 1 = Len(K)
      BY <1>12, <3>4
    <3>6. ~(j <= k)
      BY <1>5, <1>7, <3>4, <3>5
    <3>7. B[j].pos = Len(t) + j - k - 1
      BY <1>2, <1>5, <2>2, <3>6
    <3>8. Len(K) = Len(t) + j - k /\ j \in Int /\ j <= b
      BY SMTT(30), <1>2, <1>5, <3>5, <3>7
    <3>9. j = b
      BY <1>2, <1>5, <3>3, <3>8
    <3> QED BY <3>8, <3>9
  <2>4. ASSUME NEW j \in 1 .. Len(R)
        PROVE  L[b + j] = R[j] /\ b + j \in k + 1 .. Len(L)
    <3>1. b + j \in 1 .. b + Len(R) /\ ~(b + j <= b) /\ (b + j) - b = j
      BY <1>2
    <3> QED BY <1>2, <1>3, <1>5, <1>9, <3>1
  <2>5. ASSUME NEW p \in Int, GapAt(L, k, p)
        PROVE  GapAt(R, 0, p)
    <3>1. PICK i \in k + 1 .. Len(L) : L[i].type = "gap" /\ L[i].from <= p
      BY <2>5 DEF GapAt
    <3>2. i > b
      <4>1. SUFFICES ASSUME i <= b PROVE FALSE
        BY <1>2, <3>1
      <4>2. i \in 1 .. b
        BY <1>2, <1>5, <3>1, <4>1
      <4> QED BY <1>6, <3>1, <4>2
    <3>3. i - b \in 0 + 1 .. Len(R) /\ i - b \in 1 .. Len(R) /\ b + (i - b) = i
      BY <1>2, <3>1, <3>2
    <3>4. L[i] = R[i - b]
      BY <2>4, <3>3
    <3> QED BY <3>1, <3>3, <3>4 DEF GapAt
  <2>6. ASSUME NEW j \in 0 .. Len(R), Plain(R, 0, j)
        PROVE  Plain(L, k, b + j)
    <3> SUFFICES ASSUME NEW i \in k + 1 .. b + j PROVE L[i].type = "event"
      BY DEF Plain
    <3>1. CASE i <= b
      <4>1. i \in 1 .. b
        BY <1>2, <1>5, <3>1
      <4> QED BY <1>6, <4>1
    <3>2. CASE i > b
      <4>1. i - b \in 0 + 1 .. j /\ i - b \in 1 .. Len(R) /\ b + (i - b) = i
        BY <1>2, <3>2
      <4>2. R[i - b].type = "event"
        BY <2>6, <4>1 DEF Plain
      <4> QED BY <2>4, <4>1, <4>2
    <3> QED BY <1>2, <3>1, <3>2
  <2>7. ASSUME NEW j \in 0 + 1 .. Len(R), Plain(R, 0, j)
        PROVE  /\ R[j].pos = Len(K) + j - 0 - 1
               /\ GapAt(R, 0, R[j].pos) \/ (R[j].pos < Len(h) /\ h[R[j].pos + 1] = R[j].id)
    <3>1. j \in 1 .. Len(R) /\ j \in 0 .. Len(R)
      BY <1>2
    <3>2. Plain(L, k, b + j) /\ L[b + j] = R[j] /\ b + j \in k + 1 .. Len(L)
      BY <2>4, <2>6, <2>7, <3>1
    <3>3. /\ R[j].pos = Len(t) + (b + j) - k - 1
          /\ GapAt(L, k, R[j].pos) \/ (R[j].pos < Len(h) /\ h[R[j].pos + 1] = R[j].id)
      BY <1>4, <3>2 DEF TracksFrom
    <3>4. R[j].pos = Len(K) + j - 0 - 1 /\ R[j].pos \in Int
      BY SMTT(30), <1>2, <1>5, <2>3, <3>1, <3>3
    <3> QED BY <2>5, <3>3, <3>4
  <2>8. ASSUME NEW p \in 1 .. Len(K)
        PROVE  GapAt(R, 0, p - 1) \/ (p <= Len(h) /\ h[p] = K[p])
    <3>1. CASE p <= Len(t)
      <4>1. p \in 1 .. Len(t) /\ K[p] = t[p] /\ p - 1 \in Int
        BY <1>5, <1>10, <3>1
      <4>2. GapAt(L, k, p - 1) \/ (p <= Len(h) /\ h[p] = K[p])
        BY <1>4, <4>1 DEF TracksFrom
      <4> QED BY <2>5, <4>1, <4>2
    <3>2. CASE p > Len(t)
      <4> DEFINE j == k + p - Len(t)
      <4>1. j \in k + 1 .. b /\ j \in 1 .. b /\ p - 1 = Len(t) + j - k - 1
        <5>1. p \in Int /\ Len(t) < p /\ p <= Len(t) + b - k
          BY <1>5, <2>3, <3>2
        <5> QED BY <1>2, <1>5, <5>1
      <4> HIDE DEF j
      <4>2. B[j].pos = p - 1 /\ p - 1 + 1 = p /\ p - 1 \in Int
        <5>1. B[j].pos = Len(t) + j - k - 1
          BY <2>2, <4>1
        <5>2. p \in Int
          BY <1>5
        <5>3. p - 1 = Len(t) + j - k - 1
          BY <4>1
        <5> QED BY <5>1, <5>2, <5>3
      <4>3. K[p] = B[j].id
        <5>1. K[B[j].pos + 1] = B[j].id
          BY <1>11, <4>1
        <5> QED BY <4>2, <5>1
      <4>4. GapAt(L, k, p - 1) \/ (p - 1 < Len(h) /\ h[p] = B[j].id)
        BY <2>2, <4>1, <4>2
      <4> QED BY <1>5, <2>5, <4>2, <4>3, <4>4
    <3> QED BY <1>5, <3>1, <3>2
  <2>9. ASSUME Plain(R, 0, Len(R))
        PROVE  Len(h) = Len(K) + Len(R) - 0
    <3>1. Plain(L, k, Len(L))
      BY <1>2, <2>6, <2>9
    <3>2. Len(h) = Len(t) + Len(L) - k
      BY <1>4, <3>1 DEF TracksFrom
    <3> QED BY <1>2, <1>5, <2>3, <3>2
  <2>10. \A j \in 1 .. 0 : R[j].type = "event" => R[j].id \in IdsOf(K)
    OBVIOUS
  <2>11. TracksFrom(h, K, R, 0)
    BY <2>7, <2>8, <2>9, <2>10 DEF TracksFrom
  <2>12. 0 \in 0 .. Len(R)
    BY <1>2
  <2> QED BY <2>11, <2>12 DEF Tracks
<1> QED BY <1>2, <1>5, <1>8, <1>9

-----------------------------------------------------------------------------
(* What a mailbox tells                                                    *)

\* A mailbox that leads from a to z, and holds pushes of the history h.
Mail(q, a, z, h) == Path(q, a, z) /\ Flaps(q) /\ Legit(q, h)

\* The empty mailbox leads nowhere.
LEMMA MailEmpty ==
  ASSUME NEW a \in Links, NEW h
  PROVE  Mail(<<>>, a, a, h)
<1>1. [i \in 1 .. 1 |-> a] \in Paths(<<>>)
  BY DEF Paths
<1>2. Path(<<>>, a, a)
  BY <1>1 DEF Path
<1> QED BY <1>2 DEF Mail, Flaps, Legit

\* One notice more.
LEMMA MailAppend ==
  ASSUME NEW q \in Seq(Notices), NEW x \in Notices, NEW a, NEW z, NEW h, Mail(q, a, z, h),
         x.type = "event" => x \in Commits(h),
         x.type = "state" => /\ x.from = z /\ x.to \in Links
                             /\ x.from = "Ready" /\ x.to = "Ready" => x.problem
  PROVE  /\ Mail(Append(q, x), a, IF x.type = "state" THEN x.to ELSE z, h)
         /\ ComesUp(q) => ComesUp(Append(q, x))
         /\ Tells(q) \/ x.type = "state" => Tells(Append(q, x))
<1> DEFINE q2 == Append(q, x)
           n == Len(q)
           y == IF x.type = "state" THEN x.to ELSE z
<1>1. q2 \in Seq(Notices) /\ Len(q2) = n + 1 /\ n \in Nat /\ q2[n + 1] = x /\ \A i \in 1 .. n : q2[i] = q[i]
  OBVIOUS
<1>2. PICK w \in Paths(q) : w[1] = a /\ w[n + 1] = z
  BY DEF Mail, Path
<1>3. w \in [1 .. n + 1 -> Links] /\ \A i \in 1 .. n : IF q[i].type = "state" THEN w[i] = q[i].from /\ w[i + 1] = q[i].to
                                                        ELSE w[i + 1] = w[i]
  BY <1>2 DEF Paths
<1> HIDE DEF q2, n
<1> DEFINE w2 == [i \in 1 .. Len(q2) + 1 |-> IF i <= n + 1 THEN w[i] ELSE y]
<1>4. z \in Links /\ y \in Links
  BY <1>1, <1>2, <1>3
<1>5. /\ w2 \in [1 .. Len(q2) + 1 -> Links] /\ \A i \in 1 .. n + 1 : w2[i] = w[i]
      /\ w2[Len(q2) + 1] = y /\ w2[1] = a
  BY <1>1, <1>2, <1>3, <1>4
<1> HIDE DEF w2
<1>6. ASSUME NEW i \in 1 .. Len(q2)
      PROVE  IF q2[i].type = "state" THEN w2[i] = q2[i].from /\ w2[i + 1] = q2[i].to ELSE w2[i + 1] = w2[i]
  <2>1. CASE i = n + 1
    BY <1>1, <1>2, <1>5, <2>1
  <2>2. CASE i # n + 1
    <3>1. i \in 1 .. n /\ i \in 1 .. n + 1 /\ i + 1 \in 1 .. n + 1
      BY <1>1, <2>2
    <3> QED BY <1>1, <1>3, <1>5, <3>1
  <2> QED BY <2>1, <2>2
<1>7. Path(q2, a, y)
  BY <1>5, <1>6 DEF Path, Paths
<1>8. Flaps(q2)
  <2> SUFFICES ASSUME NEW i \in 1 .. Len(q2), q2[i].type = "state", q2[i].from = "Ready", q2[i].to = "Ready"
               PROVE  q2[i].problem
    BY DEF Flaps
  <2>1. CASE i = n + 1
    BY <1>1, <2>1
  <2>2. CASE i # n + 1
    <3>1. i \in 1 .. n /\ q2[i] = q[i]
      BY <1>1, <2>2
    <3> QED BY <3>1 DEF Mail, Flaps, n
  <2> QED BY <2>1, <2>2
<1>9. Legit(q2, h)
  <2> SUFFICES ASSUME NEW i \in 1 .. Len(q2), q2[i].type = "event"
               PROVE  q2[i] \in Commits(h)
    BY DEF Legit
  <2>1. CASE i = n + 1
    BY <1>1, <2>1
  <2>2. CASE i # n + 1
    <3>1. i \in 1 .. n /\ q2[i] = q[i]
      BY <1>1, <2>2
    <3> QED BY <3>1 DEF Mail, Legit, n
  <2> QED BY <2>1, <2>2
<1>10. ComesUp(q) => ComesUp(q2)
  <2> SUFFICES ASSUME ComesUp(q) PROVE ComesUp(q2)
    OBVIOUS
  <2>1. q # <<>> /\ q[1].type = "state" /\ q[1].from = "Down" /\ q[1].to = "Ready"
    BY DEF ComesUp
  <2>2. n # 0
    BY <2>1 DEF n
  <2>3. 1 \in 1 .. n /\ q2 # <<>>
    BY <1>1, <2>2
  <2> QED BY <1>1, <2>1, <2>3 DEF ComesUp
<1>11. Tells(q) \/ x.type = "state" => Tells(q2)
  <2>1. ASSUME Tells(q) PROVE Tells(q2)
    <3>1. PICK i \in 1 .. n : q[i].type = "state"
      BY <2>1 DEF Tells, n
    <3>2. i \in 1 .. Len(q2) /\ q2[i] = q[i]
      BY <1>1
    <3> QED BY <3>1, <3>2 DEF Tells
  <2>2. ASSUME x.type = "state" PROVE Tells(q2)
    <3>1. n + 1 \in 1 .. Len(q2)
      BY <1>1
    <3> QED BY <1>1, <2>2, <3>1 DEF Tells
  <2> QED BY <2>1, <2>2
<1> QED BY <1>7, <1>8, <1>9, <1>10, <1>11 DEF Mail, q2, y

\* Without its last notice, a transition.
LEMMA MailFront ==
  ASSUME NEW q \in Seq(Notices), NEW a, NEW z, NEW h, Mail(q, a, z, h), NEW n, n = Len(q), n # 0,
         q[n].type = "state"
  PROVE  /\ Mail(SubSeq(q, 1, n - 1), a, q[n].from, h) /\ q[n].to = z
         /\ n > 1 /\ ComesUp(q) => ComesUp(SubSeq(q, 1, n - 1))
<1> DEFINE q2 == SubSeq(q, 1, n - 1)
<1>0. n \in Nat /\ n >= 1
  OBVIOUS
<1>1. q2 \in Seq(Notices) /\ Len(q2) = n - 1 /\ \A i \in 1 .. n - 1 : q2[i] = q[i]
  BY <1>0
<1>2. PICK w \in Paths(q) : w[1] = a /\ w[n + 1] = z
  BY DEF Mail, Path
<1>3. w \in [1 .. n + 1 -> Links] /\ \A i \in 1 .. n : IF q[i].type = "state" THEN w[i] = q[i].from /\ w[i + 1] = q[i].to
                                                        ELSE w[i + 1] = w[i]
  BY <1>2 DEF Paths
<1> HIDE DEF q2
<1> DEFINE w2 == [i \in 1 .. Len(q2) + 1 |-> w[i]]
<1>4. w2 \in [1 .. Len(q2) + 1 -> Links] /\ (\A i \in 1 .. n : w2[i] = w[i]) /\ Len(q2) + 1 = n
  BY <1>0, <1>1, <1>3
<1> HIDE DEF w2
<1>5. w[n] = q[n].from /\ q[n].to = z
  BY <1>0, <1>2, <1>3
<1>6. ASSUME NEW i \in 1 .. Len(q2)
      PROVE  IF q2[i].type = "state" THEN w2[i] = q2[i].from /\ w2[i + 1] = q2[i].to ELSE w2[i + 1] = w2[i]
  <2>1. i \in 1 .. n - 1 /\ i \in 1 .. n /\ i + 1 \in 1 .. n /\ q2[i] = q[i]
    BY <1>0, <1>1
  <2> QED BY <1>3, <1>4, <2>1
<1>7. w2[1] = a /\ w2[Len(q2) + 1] = q[n].from
  <2>1. 1 \in 1 .. n /\ n \in 1 .. n
    BY <1>0
  <2> QED BY <1>2, <1>4, <1>5, <2>1
<1>8. Path(q2, a, q[n].from)
  BY <1>4, <1>6, <1>7 DEF Path, Paths
<1>9. \A i \in 1 .. Len(q2) : i \in 1 .. Len(q) /\ q2[i] = q[i]
  BY <1>0, <1>1
<1>10. Flaps(q2) /\ Legit(q2, h)
  BY <1>9 DEF Mail, Flaps, Legit
<1>11. ASSUME n > 1, ComesUp(q)
       PROVE  ComesUp(q2)
  <2>1. 1 \in 1 .. Len(q2) /\ q2 # <<>>
    BY <1>0, <1>1, <1>11
  <2> QED BY <1>9, <1>11, <2>1 DEF ComesUp
<1> QED BY <1>5, <1>8, <1>10, <1>11 DEF Mail, q2

\* Only loss markers differ.
LEMMA MailSame ==
  ASSUME NEW q \in Seq(Notices), NEW q2 \in Seq(Notices), NEW a, NEW z, NEW h, Mail(q, a, z, h), Len(q2) = Len(q),
         \A i \in 1 .. Len(q) : q2[i] = q[i] \/ (q[i].type = "lagged" /\ q2[i].type = "lagged")
  PROVE  Mail(q2, a, z, h) /\ (ComesUp(q) => ComesUp(q2))
<1>1. Path(q2, a, z)
  <2>1. Paths(q2) = Paths(q)
    BY DEF Paths
  <2> QED BY <2>1 DEF Mail, Path
<1>2. Flaps(q2) /\ Legit(q2, h)
  BY DEF Mail, Flaps, Legit
<1>3. ASSUME ComesUp(q)
      PROVE  ComesUp(q2)
  <2>1. q # <<>> /\ q[1].type = "state" /\ Len(q) # 0
    BY <1>3 DEF ComesUp
  <2>2. 1 \in 1 .. Len(q) /\ q2 # <<>>
    BY <2>1
  <2>3. q2[1] = q[1]
    BY <2>1, <2>2
  <2> QED BY <1>3, <2>2, <2>3 DEF ComesUp
<1> QED BY <1>1, <1>2, <1>3 DEF Mail

\* Without its first notice.
LEMMA MailTail ==
  ASSUME NEW q \in Seq(Notices), NEW a, NEW z, NEW h, Mail(q, a, z, h), q # <<>>
  PROVE  /\ Mail(Tail(q), IF q[1].type = "state" THEN q[1].to ELSE a, z, h)
         /\ q[1].type = "state" => q[1].from = a
         /\ Tells(q) => q[1].type = "state" \/ Tells(Tail(q))
<1> DEFINE q2 == Tail(q)
           n == Len(q)
           b == IF q[1].type = "state" THEN q[1].to ELSE a
<1>0. n \in Nat /\ n >= 1
  OBVIOUS
<1>1. q2 \in Seq(Notices) /\ Len(q2) = n - 1 /\ \A i \in 1 .. n - 1 : q2[i] = q[i + 1]
  BY <1>0
<1>2. PICK w \in Paths(q) : w[1] = a /\ w[n + 1] = z
  BY DEF Mail, Path
<1>3. w \in [1 .. n + 1 -> Links] /\ \A i \in 1 .. n : IF q[i].type = "state" THEN w[i] = q[i].from /\ w[i + 1] = q[i].to
                                                        ELSE w[i + 1] = w[i]
  BY <1>2 DEF Paths
<1> HIDE DEF q2, n
<1> DEFINE w2 == [i \in 1 .. Len(q2) + 1 |-> w[i + 1]]
<1>4. w2 \in [1 .. Len(q2) + 1 -> Links] /\ (\A i \in 1 .. n : w2[i] = w[i + 1]) /\ Len(q2) + 1 = n
  BY <1>0, <1>1, <1>3
<1> HIDE DEF w2
<1>5. w[2] = b /\ (q[1].type = "state" => q[1].from = a)
  <2>1. 1 \in 1 .. n
    BY <1>0
  <2> QED BY <1>2, <1>3, <2>1
<1>6. ASSUME NEW i \in 1 .. Len(q2)
      PROVE  IF q2[i].type = "state" THEN w2[i] = q2[i].from /\ w2[i + 1] = q2[i].to ELSE w2[i + 1] = w2[i]
  <2>1. i \in 1 .. n - 1 /\ i + 1 \in 1 .. n /\ i \in 1 .. n /\ q2[i] = q[i + 1]
    BY <1>0, <1>1
  <2> QED BY <1>3, <1>4, <2>1
<1>7. w2[1] = b /\ w2[Len(q2) + 1] = z
  <2>1. 1 \in 1 .. n /\ n \in 1 .. n
    BY <1>0
  <2> QED BY <1>2, <1>4, <1>5, <2>1
<1>8. Path(q2, b, z)
  BY <1>4, <1>6, <1>7 DEF Path, Paths
<1>9. \A i \in 1 .. Len(q2) : i + 1 \in 1 .. Len(q) /\ q2[i] = q[i + 1]
  BY <1>0, <1>1 DEF n
<1>10. Flaps(q2) /\ Legit(q2, h)
  BY <1>9 DEF Mail, Flaps, Legit
<1>11. ASSUME Tells(q), q[1].type # "state"
       PROVE  Tells(q2)
  <2>1. PICK i \in 1 .. n : q[i].type = "state"
    BY <1>11 DEF Tells, n
  <2>2. i - 1 \in 1 .. n - 1 /\ (i - 1) + 1 = i
    BY <1>0, <1>11, <2>1
  <2>3. i - 1 \in 1 .. Len(q2) /\ q2[i - 1] = q[i]
    BY <1>1, <2>2
  <2> QED BY <2>1, <2>3 DEF Tells
<1> QED BY <1>5, <1>8, <1>10, <1>11 DEF Mail, q2, b

\* A mailbox without transitions leads nowhere.
LEMMA MailSteady ==
  ASSUME NEW q \in Seq(Notices), NEW a, NEW z, Path(q, a, z), ~Tells(q)
  PROVE  a = z
<1>1. PICK w \in Paths(q) : w[1] = a /\ w[Len(q) + 1] = z
  BY DEF Path
<1>2. \A i \in 1 .. Len(q) : w[i + 1] = w[i]
  BY <1>1 DEF Paths, Tells
<1> DEFINE f == [i \in 0 .. Len(q) |-> w[i + 1]]
<1>3. Len(q) \in Nat
  OBVIOUS
<1> DEFINE S == {a}
           n == Len(q)
<1>4. f[0] \in S
  BY <1>1, <1>3
<1>5. \A i \in 1 .. n : f[i - 1] \in S => f[i] \in S
  BY <1>2, <1>3
<1>8. n \in Nat
  BY <1>3
<1> HIDE DEF f, S, n
<1>6. \A i \in 0 .. n : f[i] \in S
  BY <1>8, <1>4, <1>5, Carried
<1>7. f[n] = a
  BY <1>8, <1>6 DEF S
<1> QED BY <1>1, <1>3, <1>7 DEF f, n

\* A mailbox that has lost something says so.
Marked(b) == b.lost # 0 \/ \E i \in 1 .. Len(b.q) : b.q[i].type = "lagged"

\* A transition absorbed by the one at the tail, with the loss in front of it: what the mailbox
\* was without that one, and the two merged at the end.
LEMMA Absorbed ==
  ASSUME NEW m \in Nat, NEW b \in Boxes(m), NEW ev \in NoticesTo(m), Coalesces(b, ev),
         NEW a, NEW z, NEW h, Mail(b.q, a, z, h), ev.from = z, ev.from # ev.to
  PROVE  LET c == Coalesced(b, ev)
         IN  /\ Mail(c.q, a, ev.to, h) /\ Tells(c.q) /\ (ComesUp(b.q) => ComesUp(c.q))
             /\ Len(c.q) > 1 /\ c.q[Len(c.q)].type = "state"
<1> DEFINE n == Len(b.q)
           tail == b.q[n]
           merged == [tail EXCEPT !.to = ev.to, !.problem = @ \/ tail.to = "Down"]
           before == SubSeq(b.q, 1, n - 1)
<1>0. NoticesTo(m) \subseteq Notices
  BY DEF NoticesTo
<1>1. b.q \in Seq(Notices) /\ b.lost \in Nat /\ n \in Nat
  <2>1. b.q \in Seq(NoticesTo(m)) /\ b.lost \in Nat
    BY DEF Boxes
  <2>2. b.q \in Seq(Notices)
    BY <1>0, <2>1, SeqMonotonic
  <2> QED BY <2>1, <2>2
<1>2. n > 1 /\ n # 0
  BY <1>1, BoxCapAssumption DEF Coalesces, Full
<1>3. tail \in Notices /\ tail.type = "state" /\ ev.type = "state"
  BY <1>1, <1>2 DEF Coalesces
<1>4. tail \in [type : {"state"}, from : Links, to : Links, problem : BOOLEAN] /\ ev.to \in Links /\ ev.from \in Links
  <2>1. tail \in [type : {"state"}, from : Links, to : Links, problem : BOOLEAN]
    BY <1>3 DEF Notices, Pushes, Links
  <2>2. ev.to \in Links /\ ev.from \in Links
    BY <1>3, NoticeFields DEF Links
  <2> QED BY <2>1, <2>2
<1>5. /\ Mail(before, a, tail.from, h) /\ tail.to = z
      /\ ComesUp(b.q) => ComesUp(before)
  BY <1>1, <1>2, <1>3, MailFront
<1>6. before \in Seq(Notices) /\ Len(before) = n - 1 /\ \A i \in 1 .. n - 1 : before[i] = b.q[i]
  BY <1>1, <1>2
<1> HIDE DEF tail, before
<1>7. /\ merged \in Notices /\ merged.type = "state" /\ merged.from = tail.from /\ merged.to = ev.to
      /\ merged.from = "Ready" /\ merged.to = "Ready" => merged.problem
  <2>1. /\ merged \in [type : {"state"}, from : Links, to : Links, problem : BOOLEAN]
        /\ merged.from = tail.from /\ merged.to = ev.to /\ (tail.to = "Down" => merged.problem)
    BY <1>4
  <2>2. merged \in Notices
    BY <2>1 DEF Notices, Links
  <2>3. merged.type = "state"
    BY <2>1
  <2> HIDE DEF merged
  <2>4. ev.to = "Ready" => tail.to = "Down"
    BY <1>4, <1>5 DEF Links
  <2> QED BY <2>1, <2>2, <2>3, <2>4
<1> HIDE DEF merged
<1>8. ASSUME NEW q \in Seq(Notices), Mail(q, a, tail.from, h), ComesUp(b.q) => ComesUp(q), Len(q) >= 1
      PROVE  LET d == Append(q, merged)
             IN  /\ Mail(d, a, ev.to, h) /\ Tells(d) /\ (ComesUp(b.q) => ComesUp(d))
                 /\ Len(d) > 1 /\ d[Len(d)].type = "state"
  <2>1. merged.type = "event" => merged \in Commits(h)
    BY <1>7
  <2>2. merged.type = "state" => /\ merged.from = tail.from /\ merged.to \in Links
                                 /\ merged.from = "Ready" /\ merged.to = "Ready" => merged.problem
    BY <1>4, <1>7
  <2>3. /\ Mail(Append(q, merged), a, IF merged.type = "state" THEN merged.to ELSE tail.from, h)
        /\ ComesUp(q) => ComesUp(Append(q, merged))
        /\ Tells(q) \/ merged.type = "state" => Tells(Append(q, merged))
    BY <1>7, <1>8, <2>1, <2>2, MailAppend
  <2>4. Len(Append(q, merged)) = Len(q) + 1 /\ Append(q, merged)[Len(q) + 1] = merged
    BY <1>7
  <2> QED BY <1>7, <1>8, <2>3, <2>4
<1>9. CASE b.lost = 0
  <2> DEFINE q2 == [b.q EXCEPT ![n] = merged]
  <2>1. q2 = Append(before, merged)
    <3>1. q2 \in Seq(Notices) /\ Len(q2) = n /\ \A i \in 1 .. n : q2[i] = IF i = n THEN merged ELSE b.q[i]
      BY <1>1, <1>2, <1>7, ExceptSeq
    <3>2. /\ Append(before, merged) \in Seq(Notices) /\ Len(Append(before, merged)) = n
          /\ \A i \in 1 .. n : Append(before, merged)[i] = IF i = n THEN merged ELSE b.q[i]
      BY <1>1, <1>2, <1>6, <1>7
    <3> HIDE DEF q2
    <3> QED BY <3>1, <3>2, SeqEqual
  <2>2. Coalesced(b, ev) = [b EXCEPT !.q = q2]
    BY <1>9 DEF Coalesced, merged, tail
  <2> HIDE DEF q2
  <2>3. Coalesced(b, ev).q = Append(before, merged)
    <3>1. b \in [q : Seq(NoticesTo(m)), lost : Nat]
      BY DEF Boxes
    <3> QED BY <2>1, <2>2, <3>1
  <2>4. Len(before) >= 1
    BY <1>1, <1>2, <1>6
  <2> QED BY <1>5, <1>6, <1>8, <2>3, <2>4
<1>10. CASE b.lost > 0 /\ n > 1 /\ b.q[n - 1].type = "lagged"
  <2> DEFINE k == before[n - 1]
             mk == [k EXCEPT !.dropped = @ + b.lost]
             q2 == [before EXCEPT ![n - 1] = mk]
  <2>1. k = b.q[n - 1] /\ k \in Notices /\ k.type = "lagged"
    BY <1>1, <1>2, <1>6, <1>10
  <2>2. k \in [type : {"lagged"}, dropped : Nat]
    BY <2>1 DEF Notices, Pushes
  <2> HIDE DEF k
  <2>3. mk \in [type : {"lagged"}, dropped : Nat] /\ mk.type = "lagged"
    BY <1>1, <2>2
  <2>4. mk \in Notices
    BY <2>3 DEF Notices
  <2> HIDE DEF mk
  <2>5. q2 \in Seq(Notices) /\ Len(q2) = Len(before) /\ \A i \in 1 .. Len(before) : q2[i] = IF i = n - 1 THEN mk ELSE before[i]
    BY <1>1, <1>2, <1>6, <2>4, ExceptSeq
  <2>6. Coalesced(b, ev) = [q |-> Append(q2, merged), lost |-> 0]
    <3>1. Coalesced(b, ev) = [q |-> Append([before EXCEPT ![n - 1].dropped = @ + b.lost], merged), lost |-> 0]
      <4>1. ~(b.lost = 0) /\ b.lost > 0 /\ n > 1 /\ b.q[n - 1].type = "lagged"
        BY <1>1, <1>10
      <4> QED BY <4>1, Zenon DEF Coalesced, merged, tail, before
    <3>2. [before EXCEPT ![n - 1].dropped = @ + b.lost] = q2
      BY DEF k, mk
    <3> QED BY <3>1, <3>2
  <2> HIDE DEF q2
  <2>7. \A i \in 1 .. Len(before) : q2[i] = before[i] \/ (before[i].type = "lagged" /\ q2[i].type = "lagged")
    BY <2>1, <2>3, <2>5 DEF k
  <2>8. Mail(q2, a, tail.from, h) /\ (ComesUp(before) => ComesUp(q2))
    BY <1>5, <1>6, <2>5, <2>7, MailSame
  <2>9. Len(q2) >= 1
    BY <1>1, <1>2, <1>6, <2>5
  <2> QED BY <1>5, <1>8, <2>5, <2>6, <2>8, <2>9
<1>11. CASE b.lost > 0 /\ ~(n > 1 /\ b.q[n - 1].type = "lagged")
  <2> DEFINE x == Lagged(b.lost)
  <2>1. x \in Notices /\ x.type = "lagged"
    BY <1>1 DEF Notices, Lagged
  <2> HIDE DEF x
  <2>2. before \o <<x, merged>> = Append(Append(before, x), merged)
    BY <1>6, <1>7, <2>1
  <2>3. Coalesced(b, ev) = [q |-> before \o <<x, merged>>, lost |-> 0]
    BY <1>11 DEF Coalesced, merged, tail, before, x
  <2>4. /\ Mail(Append(before, x), a, IF x.type = "state" THEN x.to ELSE tail.from, h)
        /\ ComesUp(before) => ComesUp(Append(before, x))
    BY <1>5, <1>6, <2>1, MailAppend
  <2>5. Append(before, x) \in Seq(Notices) /\ Len(Append(before, x)) >= 1
    BY <1>1, <1>2, <1>6, <2>1
  <2> DEFINE q2 == Append(before, x)
  <2>6. Coalesced(b, ev).q = Append(q2, merged)
    BY <2>2, <2>3
  <2>7. Mail(q2, a, tail.from, h) /\ (ComesUp(b.q) => ComesUp(q2))
    BY <1>5, <2>1, <2>4
  <2> HIDE DEF q2
  <2>8. q2 \in Seq(Notices) /\ Len(q2) >= 1
    BY <2>5 DEF q2
  <2> QED BY <1>8, <2>6, <2>7, <2>8
<1> QED BY <1>1, <1>2, <1>9, <1>10, <1>11

\* EventBus::broadcast: what the mailbox leads to, and what it is if nothing was lost.
LEMMA Broadcasting ==
  ASSUME NEW m \in Nat, NEW b \in Boxes(m), NEW ev \in NoticesTo(m),
         NEW a, NEW z, NEW h, Mail(b.q, a, z, h), ev.type = "event" => ev \in Commits(h),
         ev.type = "state" => ev.from = z /\ ev.from # ev.to
  PROVE  LET c == Broadcast(b, ev)
         IN  /\ Mail(c.q, a, IF ev.type = "state" THEN ev.to ELSE z, h)
             /\ Tells(b.q) \/ ev.type = "state" => Tells(c.q)
             /\ ComesUp(b.q) => ComesUp(c.q)
             /\ ev.type # "state" =>
                  \/ b.lost = 0 /\ c.q = Append(b.q, ev)
                  \/ Marked(c)
             /\ ev.type = "state" =>
                  /\ Len(c.q) >= 1 /\ c.q[Len(c.q)].type = "state"
                  /\ Len(c.q) > 1 \/ (b.q = <<>> /\ c.q = <<ev>>)
<1> DEFINE c == Broadcast(b, ev)
<1>0. NoticesTo(m) \subseteq Notices
  BY DEF NoticesTo
<1>1. b \in [q : Seq(Notices), lost : Nat] /\ ev \in Notices
  <2>1. b.q \in Seq(NoticesTo(m)) /\ b.lost \in Nat /\ b = [q |-> b.q, lost |-> b.lost]
    BY DEF Boxes
  <2>2. b.q \in Seq(Notices)
    BY <1>0, <2>1, SeqMonotonic
  <2> QED BY <1>0, <2>1, <2>2
<1>2. CASE Coalesces(b, ev)
  <2>1. ev.type = "state" /\ c = Coalesced(b, ev)
    BY <1>2 DEF Coalesces, Broadcast
  <2>2. /\ Mail(c.q, a, ev.to, h) /\ Tells(c.q) /\ (ComesUp(b.q) => ComesUp(c.q))
        /\ Len(c.q) > 1 /\ c.q[Len(c.q)].type = "state"
    BY <1>2, <2>1, Absorbed
  <2> HIDE DEF c
  <2>3. Len(c.q) >= 1
    <3>1. c.q \in Seq(NoticesTo(m))
      <4>1. c \in Boxes(m)
        BY BroadcastIn DEF c
      <4> QED BY <4>1 DEF Boxes
    <3>2. Len(c.q) \in Nat
      BY <3>1
    <3> QED BY <2>2, <3>2
  <2> QED BY <2>1, <2>2, <2>3 DEF c
<1> DEFINE f == Flushed(b)
<1>3. /\ f \in [q : Seq(Notices), lost : {0}] /\ Mail(f.q, a, z, h)
      /\ (Tells(b.q) => Tells(f.q)) /\ (ComesUp(b.q) => ComesUp(f.q))
      /\ b.lost = 0 => f = b
      /\ b.lost # 0 => Len(f.q) >= 1 /\ f.q[Len(f.q)].type = "lagged"
  <2>1. CASE b.lost = 0
    BY <1>1, <2>1 DEF Flushed
  <2>2. CASE b.lost # 0
    <3> DEFINE x == Lagged(b.lost)
    <3>1. x \in Notices /\ x.type = "lagged"
      BY <1>1 DEF Notices, Lagged
    <3>2. f = [q |-> Append(b.q, x), lost |-> 0]
      BY <2>2 DEF Flushed
    <3> HIDE DEF x
    <3>3. /\ Mail(Append(b.q, x), a, IF x.type = "state" THEN x.to ELSE z, h)
          /\ ComesUp(b.q) => ComesUp(Append(b.q, x))
          /\ Tells(b.q) \/ x.type = "state" => Tells(Append(b.q, x))
      BY <1>1, <3>1, MailAppend
    <3>4. Append(b.q, x) \in Seq(Notices) /\ Len(Append(b.q, x)) = Len(b.q) + 1 /\ Append(b.q, x)[Len(b.q) + 1] = x
          /\ Len(b.q) \in Nat
      BY <1>1, <3>1
    <3> HIDE DEF f
    <3> QED BY <2>2, <3>1, <3>2, <3>3, <3>4
  <2> QED BY <2>1, <2>2
<1> HIDE DEF f
<1>4. ASSUME NEW d \in [q : Seq(Notices), lost : Nat], Mail(d.q, a, z, h)
      PROVE  /\ Mail(Append(d.q, ev), a, IF ev.type = "state" THEN ev.to ELSE z, h)
             /\ ComesUp(d.q) => ComesUp(Append(d.q, ev))
             /\ Tells(d.q) \/ ev.type = "state" => Tells(Append(d.q, ev))
  <2>1. ev.type = "state" => /\ ev.from = z /\ ev.to \in Links
                             /\ ev.from = "Ready" /\ ev.to = "Ready" => ev.problem
    <3>1. ev.type = "state" => ev.to \in Links
      BY NoticeFields DEF Links
    <3> QED BY <3>1
  <2>2. d.q \in Seq(Notices)
    BY <1>4
  <2> QED BY <1>1, <1>4, <2>1, <2>2, MailAppend
<1>5. CASE ~Coalesces(b, ev) /\ ev.type = "state"
  <2>1. c = [f EXCEPT !.q = Append(f.q, ev)]
    BY <1>5 DEF Broadcast, f
  <2>2. c.q = Append(f.q, ev) /\ f \in [q : Seq(Notices), lost : Nat]
    BY <1>3, <2>1
  <2>3. /\ Mail(c.q, a, ev.to, h) /\ Tells(c.q) /\ (ComesUp(b.q) => ComesUp(c.q))
    BY <1>3, <1>4, <1>5, <2>2
  <2>4. Len(c.q) = Len(f.q) + 1 /\ Len(f.q) \in Nat /\ c.q[Len(f.q) + 1] = ev
    BY <1>1, <2>2
  <2>5. Len(f.q) = 0 => b.q = <<>> /\ c.q = <<ev>>
    <3>1. f.q \in Seq(Notices)
      BY <1>3
    <3>2. Len(f.q) = 0 => f.q = <<>>
      BY <3>1
    <3>3. Append(<<>>, ev) = <<ev>>
      OBVIOUS
    <3>4. Len(f.q) = 0 => f = b
      BY <1>1, <1>3
    <3> QED BY <2>2, <3>2, <3>3, <3>4
  <2> HIDE DEF c
  <2> QED BY <1>5, <2>3, <2>4, <2>5 DEF c
<1>6. CASE ~Coalesces(b, ev) /\ ev.type # "state"
  <2> DEFINE g == IF Full(b) THEN b ELSE f
  <2>1. c = IF Full(g) THEN [g EXCEPT !.lost = @ + 1] ELSE [g EXCEPT !.q = Append(@, ev)]
    BY <1>6 DEF Broadcast, f
  <2>2. /\ g \in [q : Seq(Notices), lost : Nat] /\ Mail(g.q, a, z, h)
        /\ (Tells(b.q) => Tells(g.q)) /\ (ComesUp(b.q) => ComesUp(g.q))
    BY <1>1, <1>3
  <2>3. Full(b) => g = b
    OBVIOUS
  <2>4. ~Full(b) => g = f
    OBVIOUS
  <2> HIDE DEF g
  <2>5. CASE Full(g)
    <3>1. c.q = g.q /\ c.lost = g.lost + 1
      BY <2>1, <2>2, <2>5
    <3>2. c.lost # 0
      BY <2>2, <3>1
    <3> HIDE DEF c
    <3> QED BY <1>6, <2>2, <3>1, <3>2 DEF c, Marked
  <2>6. CASE ~Full(g)
    <3>1. c.q = Append(g.q, ev) /\ g = f /\ c = [g EXCEPT !.q = Append(g.q, ev)]
      BY <2>1, <2>2, <2>3, <2>4, <2>6
    <3>2. Mail(c.q, a, z, h) /\ (Tells(b.q) => Tells(c.q)) /\ (ComesUp(b.q) => ComesUp(c.q))
      BY <1>4, <1>6, <2>2, <3>1
    <3>3. CASE b.lost = 0
      BY <1>3, <1>6, <3>1, <3>2, <3>3
    <3>4. CASE b.lost # 0
      <4>1. Len(f.q) >= 1 /\ f.q[Len(f.q)].type = "lagged"
        BY <1>3, <3>4
      <4>2. Len(f.q) \in 1 .. Len(c.q) /\ c.q[Len(f.q)] = f.q[Len(f.q)]
        BY <1>1, <1>3, <3>1, <4>1
      <4> HIDE DEF c
      <4> QED BY <1>6, <3>2, <4>1, <4>2 DEF c, Marked
    <3> QED BY <3>3, <3>4
  <2> QED BY <2>5, <2>6
<1> QED BY <1>2, <1>5, <1>6

-----------------------------------------------------------------------------
(* What a room holds was read or pushed                                    *)

\* The pushes of a history are pushes.
LEMMA CommitsArePushes ==
  ASSUME NEW h
  PROVE  /\ Commits(h) \subseteq Pushes
         /\ \A q \in Seq(Commits(h)) : q \in Seq(Pushes)
<1>1. Commits(h) \subseteq Pushes
  BY DEF Commits
<1> QED BY <1>1, SeqMonotonic

\* What a room needs to start a reconciliation, or to park: that what it holds was read or pushed.
Kept(rm, h) ==
    /\ rm.known \in Histories(h)
    /\ rm.parked_buffer.q \in Seq(Commits(h))
    /\ IsReconciling(rm) => rm.phase.buffer.q \in Seq(Commits(h))

\* A sound room is kept, and one that is not reconciling and kept is sound.
LEMMA KeptOrSound ==
  ASSUME NEW rm, NEW h
  PROVE  /\ Sound(rm, h) => Kept(rm, h)
         /\ ~IsReconciling(rm) /\ Kept(rm, h) => Sound(rm, h)
BY DEF Kept, Sound

\* What was read or pushed is within the history.
LEMMA KeptFits ==
  ASSUME NEW rm \in Rooms, NEW h \in Seq(Nat), Kept(rm, h)
  PROVE  Fit(rm, Len(h))
<1>0. Len(h) \in Nat
  OBVIOUS
<1>1. ASSUME NEW q \in Seq(Commits(h))
      PROVE  Below(q, Len(h))
  <2> SUFFICES ASSUME NEW i \in DOMAIN q
               PROVE  q[i].pos < Len(h)
    BY DEF Below
  <2>1. q[i] \in Commits(h)
    OBVIOUS
  <2>2. q[i].pos \in Nat /\ Beyond(h, q[i].pos, q[i].id)
    BY <2>1 DEF Commits, Pushes
  <2> QED BY <1>0, <2>2 DEF Beyond
<1>2. Len(rm.known) <= Len(h)
  <2>1. rm.known \in Seq(Nat) /\ \A i \in 1 .. Len(rm.known) : Beyond(h, i - 1, rm.known[i])
    BY DEF Kept, Histories
  <2>2. CASE Len(rm.known) = 0
    BY <1>0, <2>2
  <2>3. CASE Len(rm.known) # 0
    <3> DEFINE n == Len(rm.known)
    <3>1. n \in 1 .. n /\ n \in Nat
      BY <2>1, <2>3
    <3>2. Beyond(h, n - 1, rm.known[n])
      BY <2>1, <3>1
    <3> HIDE DEF n
    <3>3. PICK a \in (n - 1) + 1 .. Len(h) : h[a] = rm.known[n]
      BY <3>2 DEF Beyond
    <3> QED BY <1>0, <3>1, <3>3 DEF n
  <2> QED BY <2>2, <2>3
<1> QED BY <1>1, <1>2 DEF Fit, Kept

\* A buffer takes a push or counts it.
LEMMA BufferPushKept ==
  ASSUME NEW b \in Buffers, NEW h, b.q \in Seq(Commits(h)), NEW e \in Commits(h)
  PROVE  /\ BufferPush(b, e) \in Buffers /\ BufferPush(b, e).q \in Seq(Commits(h))
         /\ BufferPush(b, e).dropped = 0 => b.dropped = 0 /\ BufferPush(b, e).q = Append(b.q, e)
<1>1. e \in Pushes /\ b \in [q : Seq(Pushes), dropped : Nat]
  BY CommitsArePushes DEF Buffers
<1>2. CASE b.dropped > 0 \/ Len(b.q) >= BufferDepth
  <2>1. BufferPush(b, e) = [b EXCEPT !.dropped = b.dropped + 1]
    BY <1>2 DEF BufferPush
  <2>2. [b EXCEPT !.dropped = b.dropped + 1].q = b.q /\ [b EXCEPT !.dropped = b.dropped + 1].dropped = b.dropped + 1
        /\ [b EXCEPT !.dropped = b.dropped + 1] \in Buffers /\ b.dropped + 1 # 0
    BY <1>1 DEF Buffers
  <2> QED BY <2>1, <2>2
<1>3. CASE ~(b.dropped > 0 \/ Len(b.q) >= BufferDepth)
  <2>1. BufferPush(b, e) = [b EXCEPT !.q = Append(b.q, e)]
    BY <1>3 DEF BufferPush
  <2>2. Append(b.q, e) \in Seq(Pushes) /\ Append(b.q, e) \in Seq(Commits(h))
    BY <1>1
  <2>3. [b EXCEPT !.q = Append(b.q, e)].q = Append(b.q, e) /\ [b EXCEPT !.q = Append(b.q, e)].dropped = b.dropped
        /\ [b EXCEPT !.q = Append(b.q, e)] \in Buffers
    BY <1>1, <2>2 DEF Buffers
  <2> QED BY <1>1, <1>3, <2>1, <2>2, <2>3
<1> QED BY <1>2, <1>3

\* A buffer that takes over another one.
LEMMA BufferAllKept ==
  ASSUME NEW b \in Buffers, NEW h, b.q \in Seq(Commits(h)), NEW q \in Seq(Commits(h))
  PROVE  BufferAll(b, q) \in Buffers /\ BufferAll(b, q).q \in Seq(Commits(h))
<1> DEFINE S == {x \in Buffers : x.q \in Seq(Commits(h))}
           T == Commits(h)
<1>1. \A x \in S : \A e \in T : BufferPush(x, e) \in S
  BY BufferPushKept
<1>2. b \in S /\ q \in Seq(T)
  OBVIOUS
<1>3. BufferAll(b, q) \in S
  <2> HIDE DEF S, T
  <2> QED BY <1>1, <1>2, BufferAllIn
<1> QED BY <1>3

\* StashReconcilingPushes
LEMMA StashKept ==
  ASSUME NEW rm \in Rooms, NEW h, Kept(rm, h)
  PROVE  Kept(StashReconcilingPushes(rm), h)
<1>1. CASE ~IsReconciling(rm)
  BY <1>1 DEF StashReconcilingPushes
<1>2. CASE IsReconciling(rm)
  <2> DEFINE rec == rm.phase
             parked == BufferAll(rm.parked_buffer, rec.buffer.q)
             a == rm.pending_local_dropped + rec.buffer.dropped
             p == rm.presence_refresh_pending \/ rec.presence \/ rec.buffer.dropped > 0 \/ parked.dropped > 0
             r2 == [rm EXCEPT !.phase = [rec EXCEPT !.buffer = EmptyBuffer],
                        !.parked_buffer = parked,
                        !.pending_local_dropped = a,
                        !.presence_refresh_pending = p]
  <2>1. rec \in Scans
    BY <1>2, ScanFields
  <2>2. parked.q \in Seq(Commits(h))
    BY <1>2, RoomFields, BufferAllKept DEF Kept
  <2>3. StashReconcilingPushes(rm) = r2
    BY <1>2 DEF StashReconcilingPushes
  <2> HIDE DEF parked, a, p
  <2>4. r2.known = rm.known /\ r2.parked_buffer = parked /\ r2.phase = [rec EXCEPT !.buffer = EmptyBuffer]
    BY DEF Rooms
  <2>5. [rec EXCEPT !.buffer = EmptyBuffer].buffer = EmptyBuffer
    BY <2>1 DEF Scans
  <2>6. EmptyBuffer.q \in Seq(Commits(h))
    BY EmptyBufferIn
  <2> HIDE DEF r2
  <2> QED BY <2>2, <2>3, <2>4, <2>5, <2>6 DEF Kept
<1> QED BY <1>1, <1>2

\* TruncateTo
LEMMA TruncateKept ==
  ASSUME NEW rm \in Rooms, NEW p \in Cursors, NEW h, Kept(rm, h)
  PROVE  Kept(TruncateTo(rm, p), h)
<1>1. CASE p >= Watermark(rm)
  BY <1>1 DEF TruncateTo
<1>2. CASE ~(p >= Watermark(rm))
  <2>1. p \in Int /\ p >= -1 /\ rm.known \in Seq(Nat) /\ p < Len(rm.known) - 1 /\ Len(rm.known) \in Nat
    BY <1>2, RoomFields DEF Cursors, NoPos, Watermark
  <2>2. SubSeq(rm.known, 1, p + 1) \in Histories(h)
    <3>1. p + 1 \in 0 .. Len(rm.known) /\ rm.known \in Histories(h)
      BY <2>1 DEF Kept
    <3> QED BY <3>1, PrefixRead
  <2> DEFINE l == IF rm.lo > p + 1 THEN p + 1 ELSE rm.lo
             s == SubSeq(rm.known, 1, p + 1)
  <2>3. TruncateTo(rm, p) = [rm EXCEPT !.known = s, !.lo = l, !.presence_refresh_pending = TRUE]
    BY <1>2 DEF TruncateTo
  <2> HIDE DEF l, s
  <2>4. /\ TruncateTo(rm, p).known = s /\ TruncateTo(rm, p).phase = rm.phase
        /\ TruncateTo(rm, p).parked_buffer = rm.parked_buffer
    BY <2>3 DEF Rooms
  <2> QED BY <2>2, <2>4 DEF Kept, IsReconciling, s
<1> QED BY <1>1, <1>2

\* What a reconciliation starts from was read and pushed.
LEMMA ReadingSound ==
  ASSUME NEW rm \in Rooms, NEW reason, NEW from, NEW loss, NEW ep, NEW id, NEW h, Kept(rm, h)
  PROVE  Sound(Reading(rm, reason, from, loss, ep, id).room, h)
<1> DEFINE e == Reading(rm, reason, from, loss, ep, id)
           replace == \/ Watermark(rm) = NoPos
                      \/ reason.kind = "Bootstrap" /\ from = NoPos
                      \/ rm.pending_bootstrap
           presence == \/ ImplicatesPresence(reason)
                       \/ rm.presence_refresh_pending
                       \/ loss > 0
           first == IF replace THEN [op |-> "Timeline", from |-> 0]
                               ELSE [op |-> "Resync", from |-> Watermark(rm)]
           plan == IF replace \/ presence THEN <<"Members">> ELSE <<>>
           start == IF replace THEN 0 ELSE Watermark(rm)
           buf == BufferAll(EmptyBuffer, rm.parked_buffer.q)
           rerun == IF loss > 0 THEN Overflow(loss) ELSE NoReason
           rec == [tag |-> "Reconciling", epoch |-> ep, reason |-> reason,
                   read_id |-> id, outstanding |-> first, plan |-> plan, scan |-> <<>>,
                   baseline_start |-> start, replace_timeline |-> replace, presence |-> presence,
                   buffer |-> buf, rerun |-> rerun, members |-> <<>>]
           nb == rm.pending_bootstrap /\ ~replace
           r2 == [rm EXCEPT !.pending_local_dropped = 0,
                            !.parked_buffer = EmptyBuffer,
                            !.pending_bootstrap = nb,
                            !.presence_refresh_pending = FALSE,
                            !.phase = rec]
<1>1. e.room = r2
  <2>1. e = [Settled(r2) EXCEPT !.issue = <<first>>, !.told = OverflowDropped(reason)]
    BY DEF Reading
  <2> HIDE DEF e, r2, first
  <2> QED BY <2>1, Effects
<1>2. buf.q \in Seq(Commits(h))
  <2>1. EmptyBuffer \in Buffers /\ EmptyBuffer.q \in Seq(Commits(h)) /\ rm.parked_buffer.q \in Seq(Commits(h))
    BY EmptyBufferIn DEF Kept
  <2> HIDE DEF e, r2, rec
  <2> QED BY <2>1, BufferAllKept
<1> HIDE DEF replace, presence, first, plan, start, buf, rerun, nb
<1>3. rec.tag = "Reconciling" /\ rec.scan = <<>> /\ rec.replace_timeline = replace /\ rec.buffer = buf
  OBVIOUS
<1> HIDE DEF rec
<1>4. r2.known = rm.known /\ r2.parked_buffer = EmptyBuffer /\ r2.phase = rec
  BY DEF Rooms
<1> HIDE DEF r2
<1>5. rm.known \o <<>> = rm.known /\ rm.known \in Seq(Nat)
  BY RoomFields
<1>6. Viewed(r2) = IF replace THEN <<>> ELSE rm.known
  BY <1>3, <1>4, <1>5 DEF Viewed, IsReconciling
<1>7. rm.known \in Histories(h) /\ <<>> \in Histories(h) /\ EmptyBuffer.q \in Seq(Commits(h))
  <2>1. rm.known \in Histories(h) /\ 0 \in 0 .. Len(rm.known)
    BY <1>5 DEF Kept
  <2> QED BY <2>1, PrefixRead, EmptyBufferIn
<1> QED BY <1>1, <1>2, <1>3, <1>4, <1>6, <1>7 DEF Sound

\* BeginReconcile
LEMMA BeginSound ==
  ASSUME NEW rm \in Rooms, NEW reason \in Reasons, NEW from \in Cursors, NEW ep, NEW id,
         NEW h \in Seq(Nat), Kept(rm, h)
  PROVE  Sound(BeginReconcile(rm, reason, from, ep, id).room, h)
<1> DEFINE w == Lower(Lower(FromPosFor(reason), from), rm.pending_gap_from)
           r1 == [rm EXCEPT !.pending_gap_from = NoPos]
           r2 == StashReconcilingPushes(r1)
           f == IF w > Watermark(r2) THEN Watermark(r2) ELSE w
           t == IF f = NoPos THEN r2 ELSE TruncateTo(r2, f)
           loss == r2.parked_buffer.dropped + r2.pending_local_dropped
<1>1. w \in Cursors
  BY ReasonFields, RoomFields, Lowest
<1>2. r1 \in Rooms /\ r1.known = rm.known /\ r1.parked_buffer = rm.parked_buffer /\ r1.phase = rm.phase
  BY DEF Rooms, Cursors
<1> HIDE DEF w, r1
<1>3. Kept(r1, h)
  BY <1>2 DEF Kept, IsReconciling
<1>4. Kept(r2, h)
  BY <1>2, <1>3, StashKept
<1>5. r2 \in Rooms
  <2>1. Below(r1.parked_buffer.q, Len(h)) /\ (IsReconciling(r1) => Below(r1.phase.buffer.q, Len(h)))
    BY <1>2, <1>3, KeptFits DEF Fit
  <2>2. Len(h) \in Int
    OBVIOUS
  <2> QED BY <1>2, <2>1, <2>2, Stashing
<1> HIDE DEF r2
<1>6. f \in Cursors
  <2>1. Watermark(r2) \in Int /\ Watermark(r2) >= -1
    BY <1>5, RoomFields
  <2> QED BY <1>1, <2>1 DEF Cursors, NoPos
<1> HIDE DEF f
<1>7. Kept(t, h) /\ t \in Rooms
  BY <1>4, <1>5, <1>6, TruncateKept, Truncating
<1> HIDE DEF t, loss
<1>8. Sound(Reading(t, reason, f, loss, ep, id).room, h)
  BY <1>7, ReadingSound
<1>9. BeginReconcile(rm, reason, from, ep, id) = Reading(t, reason, f, loss, ep, id)
  BY DEF BeginReconcile, ReadFrom, w, r1, r2, f, t, loss
<1> QED BY <1>8, <1>9

\* A reconciliation that reads on: what it has asked for is yet to be answered.
Afresh(e) ==
    /\ IsReconciling(e.room)
    /\ e.room.phase.outstanding.op # "Members"
    /\ e.issue = <<e.room.phase.outstanding>>

\* A room that claims nothing, and will claim nothing when it has read everything.
Mute(e) == e.issue = <<>> /\ ~IsConverged(e.room) /\ ~Unhurt(e.room)

\* What most handlers leave.
Moot(e, h) == Sound(e.room, h) /\ (Afresh(e) \/ Mute(e))

\* Core::launch
LEMMA LaunchMoot ==
  ASSUME NEW rm \in Rooms, NEW reason \in Reasons, NEW from \in Cursors, NEW ep \in Nat, NEW id \in 0 .. 2,
         NEW h \in Seq(Nat), Len(h) >= 1, Kept(rm, h)
  PROVE  LET e == Launch(rm, reason, from, ep, id)
         IN  Sound(e.room, h) /\ Afresh(e)
<1> DEFINE parked == PendingCause(rm)
           merged == Coalesce(parked, reason)
           n1 == NoteTriggerEvidence(rm, reason, from)
           taken  == TakePendingCause(n1)
           b1 == Banked(taken, parked, reason)
           n2 == NoteTriggerEvidence(b1, merged, NoPos)
           e == Launch(rm, reason, from, ep, id)
<1>0. parked \in Reasons
  BY Holding
<1> HIDE DEF parked
<1>1. merged \in Reasons
  BY <1>0, CoalesceIn
<1>2. n1 \in Rooms /\ Alike(n1, rm)
  BY Noting
<1> HIDE DEF n1
<1>3. /\ taken \in Rooms /\ taken.known = rm.known /\ taken.parked_buffer = rm.parked_buffer
      /\ IsReconciling(taken) <=> IsReconciling(rm)
      /\ IsReconciling(rm) => taken.phase.buffer = rm.phase.buffer
  <2>1. IsReconciling(n1) <=> IsReconciling(rm)
    BY <1>2 DEF Alike, IsReconciling
  <2> QED BY <1>2, <2>1, Taking DEF Alike
<1> HIDE DEF taken
<1>4. b1 \in Rooms /\ b1 = [taken EXCEPT !.pending_loss_notice = taken.pending_loss_notice + Outranked(parked, reason)]
  BY <1>0, <1>3, Banking
<1>5. b1.known = taken.known /\ b1.parked_buffer = taken.parked_buffer /\ b1.phase = taken.phase
  BY <1>3, <1>4 DEF Rooms
<1> HIDE DEF b1
<1>6. n2 \in Rooms /\ Alike(n2, b1)
  BY <1>1, <1>4, Noting DEF Cursors
<1> HIDE DEF n2, merged
<1>7. Kept(n2, h)
  BY <1>3, <1>5, <1>6 DEF Alike, Kept, IsReconciling
<1>8. Sound(BeginReconcile(n2, merged, from, ep, id).room, h)
  BY <1>1, <1>6, <1>7, BeginSound
<1>9. e = BeginReconcile(n2, merged, from, ep, id)
  BY DEF Launch, parked, merged, n1, taken, b1, n2
<1>10. Begun(e, ep, id, Len(h))
  <2>1. Len(h) \in Nat \ {0}
    OBVIOUS
  <2>2. Len(rm.known) <= Len(h) /\ Below(rm.parked_buffer.q, Len(h))
        /\ (IsReconciling(rm) => Below(rm.phase.buffer.q, Len(h)))
    BY KeptFits DEF Fit
  <2> QED BY <2>1, <2>2, LaunchBegins
<1> HIDE DEF e
<1> QED BY <1>8, <1>9, <1>10 DEF Begun, Afresh, e

\* Banked keeps what the room knows and reads.
LEMMA BankedKeeps ==
  ASSUME NEW rm \in Rooms, NEW r \in Reasons, NEW s \in Reasons
  PROVE  LET b == Banked(rm, r, s)
         IN  b \in Rooms /\ b.known = rm.known /\ b.parked_buffer = rm.parked_buffer /\ b.phase = rm.phase
<1> DEFINE o == rm.pending_loss_notice + Outranked(r, s)
<1>1. Banked(rm, r, s) \in Rooms /\ Banked(rm, r, s) = [rm EXCEPT !.pending_loss_notice = o]
  BY Banking
<1> HIDE DEF o
<1> QED BY <1>1 DEF Rooms

\* A cause that is added to another leaves a cause.
LEMMA CoalesceSome ==
  ASSUME NEW r \in Reasons, NEW s \in Reasons, r # NoReason \/ s # NoReason
  PROVE  Coalesce(r, s) # NoReason
<1>1. /\ Priority(r) >= -1 /\ Priority(s) >= -1 /\ Priority(r) \in Int /\ Priority(s) \in Int
      /\ Priority(r) = -1 <=> r = NoReason
      /\ Priority(s) = -1 <=> s = NoReason
  BY DEF Reasons, Priority, NoReason
<1>2. \A p : ByDaemon(p) # NoReason /\ Overflow(p) # NoReason
  BY DEF ByDaemon, Overflow, NoReason
<1>3. CASE Coalesce(r, s) = IF Priority(s) >= Priority(r) THEN s ELSE r
  BY <1>1, <1>3
<1> QED BY <1>2, <1>3 DEF Coalesce

\* A scan that is hurt stays so.
LEMMA Hurting ==
  ASSUME NEW rm, rm.phase.tag = "Reconciling", rm.phase.rerun # NoReason \/ rm.phase.buffer.dropped # 0
  PROVE  ~Unhurt(rm) /\ ~IsConverged(rm)
BY DEF Unhurt, IsConverged

\* Core::trigger
LEMMA TriggerMoot ==
  ASSUME NEW rm \in Rooms, NEW reason \in Reasons, reason # NoReason, NEW from \in Cursors, NEW ep \in Nat, NEW id \in 0 .. 2,
         NEW h \in Seq(Nat), Len(h) >= 1, Sound(rm, h)
  PROVE  Moot(Trigger(rm, reason, from, ep, id), h)
<1> DEFINE n == NoteTriggerEvidence(rm, reason, from)
           e == Trigger(rm, reason, from, ep, id)
<1>1. n \in Rooms /\ Alike(n, rm)
  BY Noting
<1> HIDE DEF n
<1>2. IsReconciling(n) <=> IsReconciling(rm)
  BY <1>1 DEF Alike, IsReconciling
<1>3. Sound(n, h)
  BY <1>1, <1>2 DEF Alike, Sound, Viewed
<1>4. CASE IsReconciling(rm)
  <2> DEFINE r2 == CoalesceRerun(n, reason, from)
             why == Coalesce(n.phase.rerun, reason)
  <2>1. e = Settled(r2)
    BY <1>4 DEF Trigger, n
  <2>2. /\ r2 \in Rooms /\ r2.phase = [n.phase EXCEPT !.rerun = why]
        /\ r2.known = n.known /\ r2.parked_buffer = n.parked_buffer
    BY <1>1, <1>2, <1>4, Coalescing
  <2>3. n.phase \in Scans /\ n.phase.rerun \in Reasons
    BY <1>1, <1>2, <1>4, ScanFields
  <2>4. why \in Reasons /\ why # NoReason
    BY <2>3, CoalesceIn, CoalesceSome
  <2> HIDE DEF r2, why
  <2>5. /\ r2.phase.tag = n.phase.tag /\ r2.phase.rerun = why /\ r2.phase.buffer = n.phase.buffer
        /\ r2.phase.scan = n.phase.scan /\ r2.phase.replace_timeline = n.phase.replace_timeline
    BY <2>2, <2>3, <2>4, Reruns
  <2>6. Sound(r2, h)
    BY <1>3, <2>2, <2>5 DEF Sound, Viewed, IsReconciling
  <2>7. ~Unhurt(r2) /\ ~IsConverged(r2)
    BY <1>2, <1>4, <2>4, <2>5, Hurting DEF IsReconciling
  <2>8. e.room = r2 /\ e.issue = <<>>
    BY <2>1, Effects
  <2> HIDE DEF e
  <2> QED BY <2>6, <2>7, <2>8 DEF Moot, Mute, e
<1>5. CASE ~IsReconciling(rm)
  <2>1. e = Launch(n, reason, from, ep, id)
    BY <1>5 DEF Trigger, n
  <2>2. Kept(n, h)
    BY <1>3, KeptOrSound
  <2> HIDE DEF e
  <2> QED BY <1>1, <2>1, <2>2, LaunchMoot DEF Moot, e
<1> QED BY <1>4, <1>5

\* A room that is parked claims nothing.
LEMMA ParkedMoot ==
  ASSUME NEW rm, NEW r, rm.phase = Parked(r), NEW h, Kept(rm, h), NEW id
  PROVE  Moot(Settled(rm), h)
<1>1. ~IsReconciling(rm) /\ ~IsConverged(rm) /\ ~Unhurt(rm)
  BY DEF Parked, IsReconciling, IsConverged, Unhurt
<1>2. Settled(rm).room = rm /\ Settled(rm).issue = <<>>
  BY Effects
<1> QED BY <1>1, <1>2, KeptOrSound DEF Moot, Mute

\* fail_inner
LEMMA FailMoot ==
  ASSUME NEW rm \in Rooms, IsReconciling(rm), NEW relaunch \in BOOLEAN, NEW ep \in Nat, NEW id \in 0 .. 2,
         NEW h \in Seq(Nat), Len(h) >= 1, Kept(rm, h)
  PROVE  Moot(Fail(rm, relaunch, ep, id), h)
<1> DEFINE st == StashReconcilingPushes(rm)
           rec   == st.phase
           loss  == st.parked_buffer.dropped + st.pending_local_dropped
           had   == rec.rerun # NoReason
           cause == IF had THEN Coalesce(rec.reason, rec.rerun) ELSE rec.reason
           b == Banked(st, rec.reason, rec.rerun)
           kept  == IF had THEN b ELSE st
           all   == IF loss > 0 THEN Coalesce(cause, Overflow(loss)) ELSE cause
           pr    == kept.presence_refresh_pending \/ rec.presence
           left  == [kept EXCEPT !.presence_refresh_pending = pr, !.phase = Parked(all)]
           e == Fail(rm, relaunch, ep, id)
<1>1. st \in Rooms /\ rec = [rm.phase EXCEPT !.buffer = EmptyBuffer]
  <2>1. Len(h) \in Int /\ Below(rm.parked_buffer.q, Len(h)) /\ Below(rm.phase.buffer.q, Len(h))
    BY KeptFits DEF Fit
  <2> HIDE DEF e
  <2> QED BY <2>1, Stashing, Zenon
<1>2. Kept(st, h)
  BY StashKept
<1>3. /\ rm.phase \in Scans /\ rm.phase.rerun \in Reasons /\ rm.phase.reason \in Reasons /\ rm.phase.presence \in BOOLEAN
  BY ScanFields
<1> HIDE DEF st
<1>4. rec.rerun = rm.phase.rerun /\ rec.reason = rm.phase.reason /\ rec.presence = rm.phase.presence
  BY <1>1, <1>3 DEF Scans
<1> HIDE DEF rec
<1>5. cause \in Reasons
  BY <1>3, <1>4, CoalesceIn
<1>6. loss \in Nat
  <2>1. st.pending_local_dropped \in Nat /\ st.parked_buffer.dropped \in Nat
    BY <1>1, RoomFields
  <2> QED BY <2>1
<1> HIDE DEF loss, cause
<1>7. all \in Reasons
  <2>1. loss > 0 => Coalesce(cause, Overflow(loss)) \in Reasons
    BY <1>5, <1>6, Causes, CoalesceIn
  <2> QED BY <1>5, <2>1
<1>8. b \in Rooms /\ b.known = st.known /\ b.parked_buffer = st.parked_buffer
  <2>1. rec.reason \in Reasons /\ rec.rerun \in Reasons
    BY <1>3, <1>4
  <2> QED BY <1>1, <2>1, BankedKeeps
<1> HIDE DEF b
<1>9. kept \in Rooms /\ kept.known = st.known /\ kept.parked_buffer = st.parked_buffer
  BY <1>1, <1>8
<1> HIDE DEF kept, all
<1>10. pr \in BOOLEAN
  BY <1>3, <1>4, <1>9, RoomFields
<1> HIDE DEF pr
<1>11. left \in Rooms /\ left.phase = Parked(all) /\ left.known = st.known /\ left.parked_buffer = st.parked_buffer
  <2>1. Parked(all) \in Phases
    BY <1>7, ParkedIn
  <2> QED BY <1>9, <1>10, <2>1 DEF Rooms
<1>12. e = IF relaunch /\ had THEN Launch(left, all, FromPosFor(all), ep, id) ELSE Settled(left)
  BY DEF Fail, st, rec, loss, cause, kept, all, pr, b
<1> HIDE DEF left, had, e
<1>13. Kept(left, h)
  BY <1>2, <1>11 DEF Kept, Parked, IsReconciling
<1>14. CASE relaunch /\ had
  <2>1. FromPosFor(all) \in Cursors
    BY <1>7, ReasonFields
  <2>2. e = Launch(left, all, FromPosFor(all), ep, id)
    BY <1>12, <1>14
  <2> QED BY <1>7, <1>11, <1>13, <2>1, <2>2, LaunchMoot DEF Moot, e
<1>15. CASE ~(relaunch /\ had)
  <2>1. e = Settled(left)
    BY <1>12, <1>15
  <2> QED BY <1>11, <1>13, <2>1, ParkedMoot DEF e
<1> QED BY <1>14, <1>15

\* The transport left before the answer came.
LEMMA ParkMoot ==
  ASSUME NEW rm \in Rooms, IsReconciling(rm), NEW id, NEW h \in Seq(Nat), Kept(rm, h)
  PROVE  Moot(Settled(ParkOutstanding(rm)), h)
<1> DEFINE st == StashReconcilingPushes(rm)
           rec   == st.phase
           b == Banked(st, rec.rerun, rec.reason)
           all == Coalesce(rec.rerun, rec.reason)
           left  == [b EXCEPT !.phase = Parked(all)]
<1>1. st \in Rooms /\ rec = [rm.phase EXCEPT !.buffer = EmptyBuffer]
  <2>1. Len(h) \in Int /\ Below(rm.parked_buffer.q, Len(h)) /\ Below(rm.phase.buffer.q, Len(h))
    BY KeptFits DEF Fit
  <2> QED BY <2>1, Stashing, Zenon
<1>2. Kept(st, h)
  BY StashKept
<1> HIDE DEF st
<1>3. rm.phase \in Scans /\ rm.phase.rerun \in Reasons /\ rm.phase.reason \in Reasons
  BY ScanFields
<1>4. rec.rerun = rm.phase.rerun /\ rec.reason = rm.phase.reason
  BY <1>1, <1>3 DEF Scans
<1> HIDE DEF rec
<1>5. b \in Rooms /\ b.known = st.known /\ b.parked_buffer = st.parked_buffer
  <2>1. rec.reason \in Reasons /\ rec.rerun \in Reasons
    BY <1>3, <1>4
  <2> QED BY <1>1, <2>1, BankedKeeps
<1> HIDE DEF b
<1>6. all \in Reasons
  BY <1>3, <1>4, CoalesceIn
<1> HIDE DEF all
<1>7. left.phase = Parked(all) /\ left.known = st.known /\ left.parked_buffer = st.parked_buffer
  <2>1. Parked(all) \in Phases
    BY <1>6, ParkedIn
  <2> QED BY <1>5, <2>1, Rephased
<1>8. ParkOutstanding(rm) = left
  BY DEF ParkOutstanding, st, rec, b, all
<1> HIDE DEF left
<1>9. Kept(left, h)
  BY <1>2, <1>7 DEF Kept, Parked, IsReconciling
<1> QED BY <1>7, <1>8, <1>9, ParkedMoot

\* structural_retry
LEMMA StructuralMoot ==
  ASSUME NEW rm \in Rooms, IsReconciling(rm), NEW ep \in Nat, NEW id \in 0 .. 2,
         NEW h \in Seq(Nat), Len(h) >= 1, Kept(rm, h)
  PROVE  Moot(StructuralRetry(rm, ep, id), h)
<1> DEFINE rec == rm.phase
           b == Banked(rm, rec.rerun, ProtocolGap)
           pb == b.pending_bootstrap \/ rec.replace_timeline
           pr == b.presence_refresh_pending \/ rec.presence
           ph == [rec EXCEPT !.rerun = NoReason]
           retried == [b EXCEPT !.protocol_retry_used = TRUE, !.pending_bootstrap = pb,
                                !.presence_refresh_pending = pr, !.phase = ph]
           cause == Coalesce(rec.rerun, ProtocolGap)
           e == StructuralRetry(rm, ep, id)
<1>1. CASE rm.protocol_retry_used
  <2>1. e = Fail(rm, FALSE, ep, id)
    BY <1>1 DEF StructuralRetry
  <2> QED BY <2>1, FailMoot
<1>2. CASE ~rm.protocol_retry_used
  <2>1. /\ rec \in Scans /\ rec.rerun \in Reasons /\ rec.presence \in BOOLEAN /\ rec.replace_timeline \in BOOLEAN
    BY ScanFields
  <2>2. ProtocolGap \in Reasons /\ NoReason \in Reasons
    BY Causes
  <2>3. b \in Rooms /\ b.known = rm.known /\ b.parked_buffer = rm.parked_buffer /\ b.phase = rec
    <3> DEFINE o == Outranked(rec.rerun, ProtocolGap)
    <3>1. b \in Rooms /\ b = [rm EXCEPT !.pending_loss_notice = rm.pending_loss_notice + o]
      BY <2>1, <2>2, Banking
    <3> HIDE DEF o
    <3> QED BY <3>1 DEF Rooms
  <2>4. cause \in Reasons
    BY <2>1, <2>2, CoalesceIn
  <2>5. pb \in BOOLEAN /\ pr \in BOOLEAN
    BY <2>1, <2>3, RoomFields
  <2>6. e = Launch(retried, cause, NoPos, ep, id)
    BY <1>2, <2>3 DEF StructuralRetry
  <2> HIDE DEF cause, b, pb, pr, e
  <2>7. ph \in Phases /\ ph.tag = rec.tag /\ ph.buffer = rec.buffer
    BY <2>1, <2>2, Reruns
  <2> HIDE DEF ph
  <2>8. /\ retried \in Rooms /\ retried.phase = ph /\ retried.known = rm.known
        /\ retried.parked_buffer = rm.parked_buffer
    BY <2>3, <2>5, <2>7, ZenonT(60) DEF Rooms
  <2> HIDE DEF retried
  <2>9. Kept(retried, h)
    BY <2>7, <2>8 DEF Kept, IsReconciling
  <2>10. NoPos \in Cursors
    BY DEF Cursors
  <2> QED BY <2>4, <2>6, <2>8, <2>9, <2>10, LaunchMoot DEF Moot, e
<1> QED BY <1>1, <1>2

\* bounded_restart
LEMMA BoundedMoot ==
  ASSUME NEW rm \in Rooms, IsReconciling(rm), NEW from \in Nat, NEW ep \in Nat, NEW id \in 0 .. 2,
         NEW h \in Seq(Nat), Len(h) >= 1, Kept(rm, h)
  PROVE  Moot(BoundedRestart(rm, from, ep, id), h)
<1> DEFINE effective == IF from > Watermark(rm) THEN Watermark(rm) ELSE from
           progress  == effective < rm.phase.baseline_start
           exhausted == IF progress THEN rm.restart_chain >= MaxRestartChain
                                    ELSE rm.restart_retry_used
           spent     == IF progress THEN [rm EXCEPT !.restart_chain = rm.restart_chain + 1]
                                    ELSE [rm EXCEPT !.restart_retry_used = TRUE]
           parked == CoalesceRerun(spent, ByDaemon(from), from)
           e == BoundedRestart(rm, from, ep, id)
<1>1. /\ spent \in Rooms /\ spent.phase = rm.phase /\ spent.known = rm.known
      /\ spent.parked_buffer = rm.parked_buffer
  <2> DEFINE a == [rm EXCEPT !.restart_chain = rm.restart_chain + 1]
             c == [rm EXCEPT !.restart_retry_used = TRUE]
  <2>1. rm.restart_chain + 1 \in Nat
    BY RoomFields
  <2>2. a \in Rooms /\ a.phase = rm.phase /\ a.known = rm.known /\ a.parked_buffer = rm.parked_buffer
    BY <2>1 DEF Rooms
  <2>3. c \in Rooms /\ c.phase = rm.phase /\ c.known = rm.known /\ c.parked_buffer = rm.parked_buffer
    BY DEF Rooms
  <2>4. spent = a \/ spent = c
    OBVIOUS
  <2> HIDE DEF a, c, spent
  <2> QED BY <2>2, <2>3, <2>4
<1>2. e = IF exhausted THEN Fail(parked, FALSE, ep, id) ELSE Launch(spent, ByDaemon(from), from, ep, id)
  BY DEF BoundedRestart
<1> HIDE DEF spent, exhausted, e
<1>3. IsReconciling(spent) /\ Kept(spent, h)
  BY <1>1 DEF IsReconciling, Kept
<1>4. from \in Cursors /\ ByDaemon(from) \in Reasons
  BY Causes DEF Cursors
<1>5. CASE exhausted
  <2>1. /\ parked \in Rooms
        /\ parked.phase = [spent.phase EXCEPT !.rerun = Coalesce(spent.phase.rerun, ByDaemon(from))]
        /\ parked.known = spent.known /\ parked.parked_buffer = spent.parked_buffer
        /\ IsReconciling(parked)
    BY <1>1, <1>3, <1>4, Coalescing
  <2> HIDE DEF parked
  <2>2. parked.phase.buffer = spent.phase.buffer
    <3>1. spent.phase \in Scans /\ spent.phase.rerun \in Reasons
      BY <1>1, <1>3, ScanFields
    <3>2. Coalesce(spent.phase.rerun, ByDaemon(from)) \in Reasons
      BY <1>4, <3>1, CoalesceIn
    <3> QED BY <2>1, <3>1, <3>2, Reruns
  <2>3. Kept(parked, h)
    BY <1>3, <2>1, <2>2 DEF Kept
  <2>4. e = Fail(parked, FALSE, ep, id)
    BY <1>2, <1>5
  <2> QED BY <2>1, <2>3, <2>4, FailMoot DEF e
<1>6. CASE ~exhausted
  <2>1. e = Launch(spent, ByDaemon(from), from, ep, id)
    BY <1>2, <1>6
  <2> QED BY <1>1, <1>3, <1>4, <2>1, LaunchMoot DEF Moot, e
<1> QED BY <1>5, <1>6

-----------------------------------------------------------------------------
(* What a reconciliation publishes                                         *)

\* A push is placed somewhere in the queue.
LEMMA PlaceShape ==
  ASSUME NEW T, NEW s \in Seq(T), NEW e
  PROVE  \E k \in 0 .. Len(s) : Place(s, e) = Inserted(s, k, e)
<1> DEFINE K == {i \in DOMAIN s : s[i].pos <= e.pos}
           k == Cardinality(K)
<1>1. K \subseteq 1 .. Len(s) /\ Len(s) \in Nat
  OBVIOUS
<1>2. IsFiniteSet(1 .. Len(s)) /\ Cardinality(1 .. Len(s)) = Len(s)
  <2>1. 1 \in Int /\ Len(s) \in Int
    OBVIOUS
  <2>2. /\ IsFiniteSet(1 .. Len(s))
        /\ Cardinality(1 .. Len(s)) = IF 1 > Len(s) THEN 0 ELSE Len(s) - 1 + 1
    BY <2>1, FS_Interval
  <2>3. (IF 1 > Len(s) THEN 0 ELSE Len(s) - 1 + 1) = Len(s)
    BY <1>1
  <2> QED BY <2>2, <2>3
<1> HIDE DEF K
<1>3. k \in Nat /\ k <= Len(s)
  BY <1>1, <1>2, FS_Subset, FS_CardinalityType
<1>4. Place(s, e) = Inserted(s, k, e)
  BY DEF Place, K, Inserted
<1> QED BY <1>1, <1>3, <1>4

\* Placing a push keeps what is there and adds it.
LEMMA PlaceHolds ==
  ASSUME NEW T, NEW s \in Seq(T), NEW e \in T
  PROVE  Place(s, e) \in Seq(T) /\ e \in IdsOf(Place(s, e)) /\ IdsOf(s) \subseteq IdsOf(Place(s, e))
<1> DEFINE p == Place(s, e)
<1>1. PICK k \in 0 .. Len(s) : p = Inserted(s, k, e)
  BY PlaceShape
<1>6. /\ Inserted(s, k, e) \in Seq(T) /\ Len(Inserted(s, k, e)) = Len(s) + 1
      /\ \A i \in 1 .. k : Inserted(s, k, e)[i] = s[i]
      /\ Inserted(s, k, e)[k + 1] = e
  BY InsertShape
<1>7. \A i \in k + 1 .. Len(s) : Inserted(s, k, e)[i + 1] = s[i]
  BY SMTT(30), InsertShape
<1>2. /\ p \in Seq(T) /\ Len(p) = Len(s) + 1
      /\ \A i \in 1 .. k : p[i] = s[i]
      /\ p[k + 1] = e
      /\ \A i \in k + 1 .. Len(s) : p[i + 1] = s[i]
  BY <1>1, <1>6, <1>7
<1> HIDE DEF p
<1>3. Len(s) \in Nat /\ k \in Nat /\ k <= Len(s) /\ DOMAIN s = 1 .. Len(s) /\ DOMAIN p = 1 .. Len(p)
  BY <1>2
<1>4. e \in IdsOf(p)
  <2>1. k + 1 \in DOMAIN p
    BY <1>2, <1>3
  <2> QED BY <1>2, <2>1 DEF IdsOf
<1>5. ASSUME NEW x \in IdsOf(s)
      PROVE  x \in IdsOf(p)
  <2>1. PICK i \in 1 .. Len(s) : s[i] = x
    BY <1>3 DEF IdsOf
  <2>2. CASE i <= k
    <3>1. i \in 1 .. k /\ i \in DOMAIN p
      BY <1>2, <1>3, <2>2
    <3> QED BY <1>2, <2>1, <3>1 DEF IdsOf
  <2>3. CASE ~(i <= k)
    <3>1. i \in k + 1 .. Len(s) /\ i + 1 \in DOMAIN p
      BY <1>2, <1>3, <2>3
    <3> QED BY <1>2, <2>1, <3>1 DEF IdsOf
  <2> QED BY <2>2, <2>3
<1> QED BY <1>2, <1>4, <1>5 DEF p

\* What a fold has from some step on.
LEMMA CarriedOn ==
  ASSUME NEW S, NEW n \in Nat, NEW f, NEW j \in 0 .. n, f[j] \in S,
         \A i \in j + 1 .. n : f[i - 1] \in S => f[i] \in S
  PROVE  f[n] \in S
<1> DEFINE m == n - j
           g == [i \in 0 .. m |-> f[j + i]]
<1>1. m \in Nat /\ m \in 0 .. m /\ j + m = n /\ 0 \in 0 .. m
  OBVIOUS
<1>2. g[0] \in S /\ g[m] = f[n]
  BY <1>1
<1>3. ASSUME NEW i \in 1 .. m, g[i - 1] \in S
      PROVE  g[i] \in S
  <2>1. i \in 0 .. m /\ i - 1 \in 0 .. m /\ j + i \in j + 1 .. n /\ j + (i - 1) = (j + i) - 1
    BY <1>1
  <2>2. g[i] = f[j + i] /\ g[i - 1] = f[(j + i) - 1]
    BY <2>1
  <2> HIDE DEF g, m
  <2> QED BY <1>3, <2>1, <2>2
<1> HIDE DEF g, m
<1>4. \A i \in 0 .. m : g[i] \in S
  BY <1>1, <1>2, <1>3, Carried
<1> QED BY <1>1, <1>2, <1>4

\* The steps of a sort ...
LEMMA PlaceRuns ==
  ASSUME NEW S, NEW T, NEW b \in S, b = <<>>, NEW q \in Seq(T), \A x \in S : \A e \in T : Place(x, e) \in S
  PROVE  \E f : /\ f[Len(q)] = ByPosition(q) /\ \A i \in 0 .. Len(q) : f[i] \in S
                /\ \A i \in 1 .. Len(q) : f[i] = Place(f[i - 1], q[i])
<1> DEFINE Runs(acc) == acc = [i \in 0 .. Len(q) |-> IF i = 0 THEN b ELSE Place(acc[i - 1], q[i])]
           F == [x \in S |-> [e \in T |-> Place(x, e)]]
           f == CHOOSE acc : Runs(acc)
<1>1. F \in [S -> [T -> S]]
  OBVIOUS
<1>2. PICK g : g \in Accumulations(S, F, b, q)
  <2> HIDE DEF F
  <2> QED BY <1>1, Accumulates
<1>3. \A i \in 0 .. Len(q) : g[i] = IF i = 0 THEN b ELSE Place(g[i - 1], q[i])
  <2> SUFFICES ASSUME NEW i \in 0 .. Len(q), i # 0
               PROVE  F[g[i - 1]][q[i]] = Place(g[i - 1], q[i])
    BY <1>2 DEF Accumulations
  <2> HIDE DEF F, f
  <2>1. i - 1 \in 0 .. Len(q) /\ i \in 1 .. Len(q)
    OBVIOUS
  <2>2. g[i - 1] \in S /\ q[i] \in T
    BY <1>2, <2>1 DEF Accumulations
  <2> QED BY <2>2 DEF F
<1>4. Runs(g)
  BY <1>2, <1>3 DEF Accumulations
<1>5. Runs(f)
  <2> HIDE DEF Runs
  <2> QED BY <1>4
<1>9. ByPosition(q) = f[Len(q)]
  BY DEF ByPosition, FoldOver
<1> HIDE DEF f, F
<1>6. f[0] \in S
  BY <1>5
<1>7. \A i \in 1 .. Len(q) : f[i] = Place(f[i - 1], q[i])
  <2> SUFFICES ASSUME NEW i \in 1 .. Len(q) PROVE f[i] = Place(f[i - 1], q[i])
    OBVIOUS
  <2>1. i \in 0 .. Len(q) /\ i # 0
    OBVIOUS
  <2> QED BY <1>5, <2>1
<1>8. \A i \in 0 .. Len(q) : f[i] \in S
  <2>1. \A i \in 1 .. Len(q) : f[i - 1] \in S => f[i] \in S
    BY <1>7
  <2>2. Len(q) \in Nat
    OBVIOUS
  <2> HIDE DEF Runs
  <2> QED BY <1>6, <2>1, <2>2, Carried
<1> QED BY <1>7, <1>8, <1>9

\* ... and of a replay.
LEMMA ApplyRuns ==
  ASSUME NEW S, NEW T, NEW b \in S, NEW rm, b = [room |-> rm, stop |-> FALSE], NEW q \in Seq(T), \A x \in S : \A e \in T : ApplyOne(x, e) \in S
  PROVE  \E f : /\ f[Len(q)] = ApplyOrdered(rm, q) /\ \A i \in 0 .. Len(q) : f[i] \in S
                /\ \A i \in 1 .. Len(q) : f[i] = ApplyOne(f[i - 1], q[i])
<1> DEFINE Runs(acc) == acc = [i \in 0 .. Len(q) |-> IF i = 0 THEN b ELSE ApplyOne(acc[i - 1], q[i])]
           F == [x \in S |-> [e \in T |-> ApplyOne(x, e)]]
           f == CHOOSE acc : Runs(acc)
<1>1. F \in [S -> [T -> S]]
  OBVIOUS
<1>2. PICK g : g \in Accumulations(S, F, b, q)
  <2> HIDE DEF F
  <2> QED BY <1>1, Accumulates
<1>3. \A i \in 0 .. Len(q) : g[i] = IF i = 0 THEN b ELSE ApplyOne(g[i - 1], q[i])
  <2> SUFFICES ASSUME NEW i \in 0 .. Len(q), i # 0
               PROVE  F[g[i - 1]][q[i]] = ApplyOne(g[i - 1], q[i])
    BY <1>2 DEF Accumulations
  <2> HIDE DEF F, f
  <2>1. i - 1 \in 0 .. Len(q) /\ i \in 1 .. Len(q)
    OBVIOUS
  <2>2. g \in [0 .. Len(q) -> S]
    BY <1>2 DEF Accumulations
  <2>3. q[i] \in T
    BY <2>1
  <2>4. g[i - 1] \in S
    BY <2>1, <2>2
  <2> QED BY <2>3, <2>4 DEF F
<1>4. Runs(g)
  BY <1>2, <1>3 DEF Accumulations
<1>5. Runs(f)
  <2> HIDE DEF Runs
  <2> QED BY <1>4
<1>9. ApplyOrdered(rm, q) = f[Len(q)]
  BY DEF ApplyOrdered, FoldOver
<1> HIDE DEF f, F
<1>6. f[0] \in S
  BY <1>5
<1>7. \A i \in 1 .. Len(q) : f[i] = ApplyOne(f[i - 1], q[i])
  <2> SUFFICES ASSUME NEW i \in 1 .. Len(q) PROVE f[i] = ApplyOne(f[i - 1], q[i])
    OBVIOUS
  <2>1. i \in 0 .. Len(q) /\ i # 0
    OBVIOUS
  <2> QED BY <1>5, <2>1
<1>8. \A i \in 0 .. Len(q) : f[i] \in S
  <2>1. \A i \in 1 .. Len(q) : f[i - 1] \in S => f[i] \in S
    BY <1>7
  <2>2. Len(q) \in Nat
    OBVIOUS
  <2> HIDE DEF Runs
  <2> QED BY <1>6, <2>1, <2>2, Carried
<1> QED BY <1>7, <1>8, <1>9

\* A sort has the pushes of the queue it sorts.
LEMMA SortHolds ==
  ASSUME NEW T, NEW q \in Seq(T)
  PROVE  ByPosition(q) \in Seq(T) /\ IdsOf(ByPosition(q)) = IdsOf(q)
<1> DEFINE U == IdsOf(q)
           n == Len(q)
<1>1. q \in Seq(U) /\ U \subseteq T /\ n \in Nat /\ \A i \in 1 .. n : q[i] \in U
  <2>1. \A i \in 1 .. Len(q) : q[i] \in U
    BY DEF IdsOf
  <2>2. Len(q) \in Nat /\ q = [i \in 1 .. Len(q) |-> q[i]] /\ U \subseteq T
    BY DEF IdsOf
  <2> HIDE DEF U
  <2> QED BY <2>1, <2>2, IsASeq
<1>2. \A i \in U : \E j \in 1 .. n : q[j] = i
  BY DEF IdsOf
<1> HIDE DEF U
<1> DEFINE A == Seq(U)
<1>3. \A x \in A : \A e \in U : Place(x, e) \in A
  BY PlaceHolds
<1>4. <<>> \in A
  OBVIOUS
<1>5. PICK f : /\ f[n] = ByPosition(q) /\ \A i \in 0 .. n : f[i] \in A
               /\ \A i \in 1 .. n : f[i] = Place(f[i - 1], q[i])
  <2> HIDE DEF A
  <2> QED BY <1>1, <1>3, <1>4, PlaceRuns DEF n
<1> HIDE DEF n
<1>6. ByPosition(q) \in Seq(U)
  BY <1>1, <1>5
<1>7. ASSUME NEW x \in U
      PROVE  x \in IdsOf(ByPosition(q))
  <2> DEFINE S == {s \in A : x \in IdsOf(s)}
  <2>1. PICK j \in 1 .. n : q[j] = x
    BY <1>2
  <2>2. \A i \in 1 .. n : i \in 0 .. n /\ i - 1 \in 0 .. n
    BY <1>1
  <2>3. f[j] \in S
    <3>1. f[j] = Place(f[j - 1], x) /\ f[j - 1] \in Seq(U) /\ f[j] \in A
      BY <1>5, <2>1, <2>2
    <3> QED BY <3>1, PlaceHolds
  <2>4. ASSUME NEW i \in j + 1 .. n, f[i - 1] \in S
        PROVE  f[i] \in S
    <3>1. i \in 1 .. n
      BY <1>1
    <3>2. f[i] = Place(f[i - 1], q[i]) /\ f[i - 1] \in Seq(U) /\ f[i] \in A /\ q[i] \in U
      BY <1>1, <1>5, <2>2, <3>1
    <3>3. x \in IdsOf(f[i - 1])
      BY <2>4
    <3> QED BY <3>2, <3>3, PlaceHolds
  <2> HIDE DEF S
  <2>5. f[n] \in S
    BY <1>1, <2>2, <2>3, <2>4, CarriedOn
  <2> QED BY <1>5, <2>5 DEF S
<1>8. \A x \in IdsOf(ByPosition(q)) : x \in U
  <2>1. \A i \in DOMAIN ByPosition(q) : ByPosition(q)[i] \in U
    BY <1>6
  <2> QED BY <2>1 DEF IdsOf
<1>9. ByPosition(q) \in Seq(T)
  BY <1>1, <1>6, SeqMonotonic
<1> QED BY <1>7, <1>8, <1>9 DEF U

\* apply_ordered over one push.
LEMMA ApplyStep ==
  ASSUME NEW h, NEW x \in [room : Rooms, stop : BOOLEAN], x.room.known \in Histories(h), NEW e \in Commits(h)
  PROVE  LET y == ApplyOne(x, e)
         IN  /\ y \in [room : Rooms, stop : BOOLEAN] /\ Kin(y.room, x.room)
             /\ y.room.known \in Histories(h)
             /\ \/ y.room.known = x.room.known
                \/ y.room.known = Append(x.room.known, e.id) /\ e.pos = Len(x.room.known)
             /\ ~y.stop => /\ ~x.stop
                           /\ e.pos + 1 \in 1 .. Len(y.room.known)
                           /\ y.room.known[e.pos + 1] = e.id
<1> DEFINE y == ApplyOne(x, e)
           r == x.room
           k == r.known
           d == DisputePosition(r, e.pos)
           g == Grown(r, e.id)
<1>1. e.pos \in Nat /\ e.id \in Nat
  BY DEF Commits, Pushes
<1>2. r \in Rooms /\ x.stop \in BOOLEAN /\ k \in Seq(Nat) /\ Len(k) \in Nat /\ Watermark(r) = Len(k) - 1
  <2>1. r \in Rooms /\ x.stop \in BOOLEAN
    OBVIOUS
  <2>2. k \in Seq(Nat)
    BY <2>1, RoomFields
  <2> QED BY <2>1, <2>2 DEF Watermark
<1>3. d \in Rooms /\ Kin(d, r) /\ d.known = k
  BY <1>1, <1>2, Disputing
<1>4. g \in Rooms /\ Kin(g, r) /\ g.known = Append(k, e.id)
  BY <1>1, <1>2, Growing
<1>5. /\ x.stop => y = x
      /\ ~x.stop /\ e.pos <= Watermark(r) => y = IF Replays(r, e) THEN x ELSE [room |-> d, stop |-> TRUE]
      /\ ~x.stop /\ ~(e.pos <= Watermark(r)) =>
           y = IF e.pos # Watermark(r) + 1 \/ e.id \in IdsOf(k) THEN [x EXCEPT !.stop = TRUE]
               ELSE [x EXCEPT !.room = g]
  <2>1. ~(e.pos <= Watermark(r)) <=> e.pos > Watermark(r)
    BY <1>1, <1>2
  <2> DEFINE w == Watermark(r)
  <2> HIDE DEF w
  <2>2. x.stop => y = x
    BY DEF ApplyOne
  <2>3. ~x.stop /\ e.pos <= w => y = IF Replays(r, e) THEN x ELSE [room |-> d, stop |-> TRUE]
    BY <1>1, <1>2, <2>1 DEF ApplyOne, w
  <2>4. ~x.stop /\ e.pos > w =>
          y = IF e.pos # w + 1 \/ e.id \in IdsOf(k) THEN [x EXCEPT !.stop = TRUE]
              ELSE [x EXCEPT !.room = g]
    BY <1>1, <1>2, <2>1 DEF ApplyOne, w
  <2> QED BY <2>1, <2>2, <2>3, <2>4 DEF w
<1> HIDE DEF y, d, g
<1>6. Kin(r, r)
  BY DEF Kin
<1>7. CASE x.stop
  BY <1>2, <1>5, <1>6, <1>7 DEF y
<1>8. CASE ~x.stop /\ e.pos <= Watermark(r) /\ Replays(r, e)
  <2>1. y = x /\ k[e.pos + 1] = e.id
    BY <1>5, <1>8 DEF Replays
  <2>2. e.pos + 1 \in 1 .. Len(k)
    BY <1>1, <1>2, <1>8
  <2> QED BY <1>2, <1>6, <1>8, <2>1, <2>2 DEF y
<1>9. CASE ~x.stop /\ e.pos <= Watermark(r) /\ ~Replays(r, e)
  <2>1. y = [room |-> d, stop |-> TRUE]
    BY <1>5, <1>9
  <2>2. y.room = d /\ y.stop /\ y \in [room : Rooms, stop : BOOLEAN]
    BY <1>3, <2>1
  <2> QED BY <1>3, <2>2 DEF y
<1>10. CASE ~x.stop /\ ~(e.pos <= Watermark(r)) /\ (e.pos # Watermark(r) + 1 \/ e.id \in IdsOf(k))
  <2>1. y = [x EXCEPT !.stop = TRUE]
    BY <1>5, <1>10
  <2>2. y.room = r /\ y.stop /\ y \in [room : Rooms, stop : BOOLEAN]
    BY <2>1
  <2> QED BY <1>6, <2>2 DEF y
<1>11. CASE ~x.stop /\ ~(e.pos <= Watermark(r)) /\ ~(e.pos # Watermark(r) + 1 \/ e.id \in IdsOf(k))
  <2>1. y = [x EXCEPT !.room = g]
    BY <1>5, <1>11
  <2>2. y.room = g /\ ~y.stop /\ y \in [room : Rooms, stop : BOOLEAN]
    BY <1>4, <1>11, <2>1
  <2>3. e.pos = Len(k) /\ e.id \notin IdsOf(k)
    BY <1>1, <1>2, <1>11
  <2>4. Append(k, e.id) \in Histories(h)
    BY <2>3, PushRead
  <2>5. e.pos + 1 \in 1 .. Len(Append(k, e.id)) /\ Append(k, e.id)[e.pos + 1] = e.id
    BY <1>1, <1>2, <2>3
  <2> QED BY <1>4, <1>11, <2>2, <2>3, <2>4, <2>5 DEF y
<1> QED BY <1>2, <1>7, <1>8, <1>9, <1>10, <1>11

\* The part of the history t that K adds consists of pushes of B.
Spans(t, B, K) ==
    /\ Len(t) <= Len(K) /\ \A i \in 1 .. Len(t) : K[i] = t[i]
    /\ \A i \in Len(t) + 1 .. Len(K) : \E j \in 1 .. Len(B) : B[j].pos + 1 = i

\* A push of B added to it.
LEMMA SpansMore ==
  ASSUME NEW t \in Seq(Nat), NEW B, NEW K \in Seq(Nat), Spans(t, B, K), NEW id \in Nat,
         \E j \in 1 .. Len(B) : B[j].pos = Len(K)
  PROVE  Spans(t, B, Append(K, id))
<1> DEFINE M == Append(K, id)
<1>1. M \in Seq(Nat) /\ Len(M) = Len(K) + 1 /\ \A i \in 1 .. Len(K) : M[i] = K[i]
  OBVIOUS
<1>2. Len(t) \in Nat /\ Len(K) \in Nat /\ Len(t) <= Len(K) /\ \A i \in 1 .. Len(t) : K[i] = t[i]
  BY DEF Spans
<1> HIDE DEF M
<1>3. \A i \in 1 .. Len(t) : M[i] = t[i]
  BY <1>1, <1>2
<1>4. ASSUME NEW i \in Len(t) + 1 .. Len(M)
      PROVE  \E j \in 1 .. Len(B) : B[j].pos + 1 = i
  <2>1. CASE i <= Len(K)
    <3>1. i \in Len(t) + 1 .. Len(K)
      BY <1>2, <2>1
    <3> QED BY <3>1 DEF Spans
  <2>2. CASE ~(i <= Len(K))
    <3>1. i = Len(K) + 1
      BY <1>1, <1>2, <2>2
    <3> QED BY <3>1
  <2> QED BY <2>1, <2>2
<1>5. Len(t) <= Len(M)
  BY <1>1, <1>2
<1> QED BY <1>3, <1>4, <1>5 DEF Spans, M

\* The pushes replayed on a room are in the history it has then, unless one of them did not fit.
LEMMA Applied ==
  ASSUME NEW rm \in Rooms, NEW h, rm.known \in Histories(h), NEW q \in Seq(Commits(h))
  PROVE  LET a == ApplyOrdered(rm, q)
         IN  /\ a \in [room : Rooms, stop : BOOLEAN] /\ Kin(a.room, rm)
             /\ a.room.known \in Histories(h)
             /\ ~a.stop => Grows(rm.known, q, a.room.known)
<1> DEFINE t == rm.known
           n == Len(q)
           a == ApplyOrdered(rm, q)
           U == IdsOf(q)
           S == {x \in [room : Rooms, stop : BOOLEAN] :
                   Kin(x.room, rm) /\ x.room.known \in Histories(h) /\ Spans(t, q, x.room.known)}
           b == [room |-> rm, stop |-> FALSE]
<1>1. n \in Nat /\ t \in Seq(Nat) /\ q \in Seq(U) /\ U \subseteq Commits(h) /\ \A i \in 1 .. n : q[i] \in U
  <2>1. \A i \in 1 .. Len(q) : q[i] \in U
    BY DEF IdsOf
  <2>2. Len(q) \in Nat /\ q = [i \in 1 .. Len(q) |-> q[i]] /\ U \subseteq Commits(h)
    BY DEF IdsOf
  <2>3. t \in Seq(Nat)
    BY RoomFields
  <2> HIDE DEF U
  <2> QED BY <2>1, <2>2, <2>3, IsASeq
<1>2. \A x \in U : \E j \in 1 .. n : q[j] = x
  BY DEF IdsOf
<1> HIDE DEF U
<1>3. b \in S
  <2>1. b.room = rm /\ b \in [room : Rooms, stop : BOOLEAN]
    OBVIOUS
  <2>2. Kin(rm, rm)
    BY DEF Kin
  <2>3. Spans(t, q, t)
    <3>1. \A i \in Len(t) + 1 .. Len(t) : FALSE
      BY <1>1
    <3> QED BY <1>1, <3>1 DEF Spans
  <2> QED BY <2>1, <2>2, <2>3
<1>4. ASSUME NEW x \in S, NEW e \in U
      PROVE  ApplyOne(x, e) \in S
  <2> DEFINE y == ApplyOne(x, e)
  <2>1. x \in [room : Rooms, stop : BOOLEAN] /\ Kin(x.room, rm) /\ x.room.known \in Histories(h) /\ Spans(t, q, x.room.known)
    OBVIOUS
  <2>2. e \in Commits(h) /\ e.id \in Nat
    BY <1>1 DEF Commits, Pushes
  <2>3. /\ y \in [room : Rooms, stop : BOOLEAN] /\ Kin(y.room, x.room)
        /\ y.room.known \in Histories(h)
        /\ \/ y.room.known = x.room.known
           \/ y.room.known = Append(x.room.known, e.id) /\ e.pos = Len(x.room.known)
    BY <2>1, <2>2, ApplyStep
  <2> HIDE DEF y
  <2>4. Kin(y.room, rm)
    BY <2>1, <2>3 DEF Kin
  <2>5. Spans(t, q, y.room.known)
    <3>1. CASE y.room.known = x.room.known
      BY <2>1, <3>1
    <3>2. CASE y.room.known = Append(x.room.known, e.id) /\ e.pos = Len(x.room.known)
      <4>1. x.room.known \in Seq(Nat)
        BY <2>1 DEF Histories
      <4>2. \E j \in 1 .. Len(q) : q[j].pos = Len(x.room.known)
        BY <1>2, <3>2
      <4> QED BY SMTT(30), <1>1, <2>1, <2>2, <3>2, <4>1, <4>2, SpansMore
    <3> QED BY <2>3, <3>1, <3>2
  <2> QED BY <2>3, <2>4, <2>5 DEF y
<1>5. PICK f : /\ f[n] = a /\ \A i \in 0 .. n : f[i] \in S
               /\ \A i \in 1 .. n : f[i] = ApplyOne(f[i - 1], q[i])
  <2>1. b = [room |-> rm, stop |-> FALSE]
    OBVIOUS
  <2> HIDE DEF S, a, b
  <2>2. \E f : /\ f[Len(q)] = ApplyOrdered(rm, q) /\ \A i \in 0 .. Len(q) : f[i] \in S
               /\ \A i \in 1 .. Len(q) : f[i] = ApplyOne(f[i - 1], q[i])
    BY <1>1, <1>3, <1>4, <2>1, ApplyRuns
  <2> QED BY <2>2 DEF n, a
<1>6. a \in S
  <2>1. n \in 0 .. n
    BY <1>1
  <2> HIDE DEF S, a, n
  <2> QED BY <1>5, <2>1
<1>7. a \in [room : Rooms, stop : BOOLEAN] /\ Kin(a.room, rm) /\ a.room.known \in Histories(h) /\ Spans(t, q, a.room.known)
  <2> HIDE DEF a
  <2> QED BY <1>6
<1>8. ASSUME ~a.stop, NEW j \in 1 .. n
      PROVE  q[j].pos + 1 \in 1 .. Len(a.room.known) /\ a.room.known[q[j].pos + 1] = q[j].id
  <2> DEFINE e == q[j]
             Has(x) == ~x.stop => e.pos + 1 \in 1 .. Len(x.room.known) /\ x.room.known[e.pos + 1] = e.id
             R == {x \in S : Has(x)}
  <2>0. \A i \in 1 .. n : i \in 0 .. n /\ i - 1 \in 0 .. n
    BY <1>1
  <2>1. ASSUME NEW i \in 1 .. n
        PROVE  /\ f[i] \in S /\ f[i - 1] \in S
               /\ f[i] = ApplyOne(f[i - 1], q[i]) /\ q[i] \in Commits(h) /\ q[i].id \in Nat
               /\ f[i - 1] \in [room : Rooms, stop : BOOLEAN] /\ f[i - 1].room.known \in Histories(h)
               /\ f[i - 1].room.known \in Seq(Nat)
    <3>1. f[i] \in S /\ f[i - 1] \in S
      BY <1>5, <2>0
    <3>2. f[i - 1] \in [room : Rooms, stop : BOOLEAN] /\ f[i - 1].room.known \in Histories(h)
      BY <3>1
    <3>3. f[i - 1].room.known \in Seq(Nat)
      BY <3>2 DEF Histories
    <3>4. q[i] \in Commits(h)
      BY <1>1
    <3>5. q[i].id \in Nat
      BY <3>4 DEF Commits, Pushes
    <3> QED BY <1>5, <3>1, <3>2, <3>3, <3>4, <3>5
  <2>2. f[j] \in R
    <3>1. Has(f[j])
      <4> DEFINE x == f[j - 1]
      <4>1. x \in [room : Rooms, stop : BOOLEAN] /\ x.room.known \in Histories(h) /\ e \in Commits(h) /\ f[j] = ApplyOne(x, e)
        BY <2>1
      <4> HIDE DEF x, e
      <4>2. ~ApplyOne(x, e).stop =>
              /\ e.pos + 1 \in 1 .. Len(ApplyOne(x, e).room.known)
              /\ ApplyOne(x, e).room.known[e.pos + 1] = e.id
        BY <4>1, ApplyStep
      <4> QED BY <4>1, <4>2
    <3> HIDE DEF Has, S
    <3> QED BY <2>1, <3>1
  <2>3. ASSUME NEW i \in j + 1 .. n, f[i - 1] \in R
        PROVE  f[i] \in R
    <3>1. i \in 1 .. n
      BY <1>1
    <3> DEFINE x == f[i - 1]
               y == f[i]
    <3>2. /\ \/ y.room.known = x.room.known
             \/ y.room.known = Append(x.room.known, q[i].id)
          /\ ~y.stop => ~x.stop
      <4> DEFINE u == q[i]
      <4>1. x \in [room : Rooms, stop : BOOLEAN] /\ x.room.known \in Histories(h) /\ u \in Commits(h) /\ y = ApplyOne(x, u)
        BY <2>1, <3>1
      <4> HIDE DEF x, y, u, e
      <4>2. LET w == ApplyOne(x, u)
            IN  (w.room.known = x.room.known \/ w.room.known = Append(x.room.known, u.id)) /\ (~w.stop => ~x.stop)
        BY <4>1, ApplyStep
      <4> QED BY <4>1, <4>2 DEF u
    <3>3. Has(x) /\ x.room.known \in Seq(Nat) /\ q[i].id \in Nat /\ y \in S
      BY <2>1, <2>3, <3>1
    <3> HIDE DEF x, y, e, S
    <3>4. Has(y)
      <4> SUFFICES ASSUME ~y.stop
                   PROVE  e.pos + 1 \in 1 .. Len(y.room.known) /\ y.room.known[e.pos + 1] = e.id
        OBVIOUS
      <4>1. e.pos + 1 \in 1 .. Len(x.room.known) /\ x.room.known[e.pos + 1] = e.id
        BY <3>2, <3>3
      <4> DEFINE p == e.pos + 1
                 k == x.room.known
                 k2 == y.room.known
      <4>2. p \in 1 .. Len(k) /\ k[p] = e.id /\ k \in Seq(Nat) /\ (k2 = k \/ k2 = Append(k, q[i].id))
        BY <3>2, <3>3, <4>1
      <4> HIDE DEF p, k, k2
      <4>3. CASE k2 = k
        BY <4>2, <4>3 DEF p, k2
      <4>4. CASE k2 = Append(k, q[i].id)
        <5> DEFINE v == q[i].id
        <5>1. v \in Nat
          BY <3>3
        <5>2. k2 = Append(k, v)
          BY <4>4
        <5> HIDE DEF v
        <5>3. Len(k2) = Len(k) + 1 /\ Len(k) \in Nat /\ \A l \in 1 .. Len(k) : k2[l] = k[l]
          BY <4>2, <5>1, <5>2
        <5>4. p \in 1 .. Len(k2)
          BY <4>2, <5>3
        <5> QED BY <4>2, <5>3, <5>4 DEF p, k2
      <4> QED BY <4>2, <4>3, <4>4
    <3> HIDE DEF Has
    <3> QED BY <3>3, <3>4 DEF y
  <2> DEFINE Q == R
  <2>4. j \in 0 .. n
    BY <1>1
  <2>5. f[n] \in Q
    <3> HIDE DEF Q
    <3>1. f[j] \in Q /\ \A i \in j + 1 .. n : f[i - 1] \in Q => f[i] \in Q
      BY <2>2, <2>3 DEF Q
    <3> HIDE DEF n
    <3> QED BY <1>1, <2>4, <3>1, CarriedOn
  <2>6. Has(a)
    <3> HIDE DEF Has, S, a
    <3> QED BY <1>5, <2>5
  <2> HIDE DEF a
  <2> QED BY <1>8, <2>6
<1> HIDE DEF a
<1>9. ~a.stop => Grows(t, q, a.room.known)
  BY <1>7, <1>8 DEF Grows, Spans
<1> QED BY <1>7, <1>9 DEF a

-----------------------------------------------------------------------------
(* What a reconciliation that ends shows. *)

\* The baseline is what was viewed of the history.
LEMMA BaselineViewed ==
  ASSUME NEW rm \in Rooms, IsReconciling(rm), ~(rm.phase.replace_timeline /\ rm.phase.scan = <<>>)
  PROVE  LET a == Baselined(rm)
         IN  a \in Rooms /\ Kin(a, rm) /\ a.known = Viewed(rm)
<1> DEFINE rec == rm.phase
           tail == IF Len(rec.scan) > TimelineDepth
                   THEN SubSeq(rec.scan, Len(rec.scan) - TimelineDepth + 1, Len(rec.scan))
                   ELSE rec.scan
           folded == FoldOver(Fold, rm, tail)
           history == IF rec.replace_timeline THEN rec.scan ELSE rm.known \o rec.scan
           l == IF rec.replace_timeline THEN 0 ELSE folded.lo
           f2 == [folded EXCEPT !.known = history, !.lo = l]
           grown == IF rec.scan = <<>> THEN rm ELSE Trimmed(f2)
           stale == \/ grown.presence_refresh_pending
                    \/ rec.buffer.dropped > 0
                    \/ IdsOf(rec.scan) \cap Membership # {}
<1>1. /\ rec \in Scans /\ rec.scan \in Seq(Nat) /\ Len(rec.scan) \in Nat /\ rec.replace_timeline \in BOOLEAN
      /\ rm.known \in Seq(Nat) /\ Len(rm.known) \in Nat
  BY ScanFields, RoomFields
<1>2. tail \in Seq(Nat)
  <2>1. CASE Len(rec.scan) > TimelineDepth
    <3> DEFINE n == Len(rec.scan)
               m == n - TimelineDepth + 1
    <3>0. m \in Int /\ n \in Int /\ m >= 1
      BY <1>1, <2>1, RoomAssumption
    <3>1. m \in Int /\ n \in Int /\ \A i \in m .. n : rec.scan[i] \in Nat
      <4>1. \A i \in 1 .. n : rec.scan[i] \in Nat
        BY <1>1
      <4> HIDE DEF m, n, rec
      <4> QED BY <3>0, <4>1
    <3> HIDE DEF m, n
    <3>2. SubSeq(rec.scan, m, n) \in Seq(Nat)
      BY <3>1, SubSeqProperties
    <3> QED BY <2>1, <3>2 DEF m, n
  <2> QED BY <1>1, <2>1
<1> HIDE DEF tail
<1>3. folded \in Rooms /\ Kin(folded, rm) /\ folded.known = rm.known
  <2> DEFINE S == {x \in Rooms : Kin(x, rm) /\ x.known = rm.known}
  <2>1. rm \in S
    BY DEF Kin
  <2>2. \A x \in S : \A i \in Nat : Fold(x, i) \in S
    BY Folding DEF Kin
  <2>3. folded \in S
    <3> HIDE DEF S
    <3> QED BY <1>2, <2>1, <2>2, FoldOverIn
  <2> QED BY <2>3
<1> HIDE DEF folded
<1>4. history \in Seq(Nat) /\ history = Viewed(rm)
  <2>1. rm.known \o rec.scan \in Seq(Nat)
    BY <1>1
  <2> QED BY <1>1, <2>1 DEF Viewed
<1> HIDE DEF history
<1>5. l \in Int
  BY <1>3, RoomFields
<1> HIDE DEF l
<1>6. f2 \in Rooms /\ Kin(f2, rm) /\ f2.known = history
  <2>1. f2 \in Rooms /\ Kin(f2, folded) /\ f2.known = history
    BY <1>3, <1>4, <1>5 DEF Rooms, Kin
  <2> HIDE DEF f2
  <2> QED BY <1>3, <2>1 DEF Kin
<1> HIDE DEF f2
<1>7. grown \in Rooms /\ Kin(grown, rm) /\ grown.known = Viewed(rm)
  <2>1. CASE rec.scan = <<>>
    <3>1. grown = rm /\ ~rec.replace_timeline
      BY <2>1
    <3>2. rm.known \o <<>> = rm.known
      BY <1>1
    <3>3. Viewed(rm) = rm.known
      BY <2>1, <3>1, <3>2 DEF Viewed
    <3> HIDE DEF grown
    <3> QED BY <3>1, <3>3 DEF Kin
  <2>2. CASE rec.scan # <<>>
    <3>1. grown = Trimmed(f2)
      BY <2>2
    <3>2. Trimmed(f2) \in Rooms /\ Kin(Trimmed(f2), f2) /\ Trimmed(f2).known = f2.known
      BY <1>6, Trimming
    <3> HIDE DEF grown
    <3> QED BY <1>4, <1>6, <3>1, <3>2 DEF Kin
  <2> QED BY <2>1, <2>2
<1>8. rec.members \in Seq(SUBSET Nat)
  BY <1>1 DEF Scans
<1> DEFINE a1 == [grown EXCEPT !.presence_refresh_pending = stale]
           a2 == [grown EXCEPT !.presence_refresh_pending = FALSE, !.roster = rec.members[1]]
<1>9. Baselined(rm) = IF rec.members = <<>> THEN a1 ELSE a2
  BY DEF Baselined, tail, folded, history, l, f2
<1>10. stale \in BOOLEAN
  BY <1>7, RoomFields
<1> HIDE DEF grown, stale
<1>11. a1 \in Rooms /\ Kin(a1, grown) /\ a1.known = grown.known
  BY <1>7, <1>10 DEF Rooms, Kin
<1>12. ASSUME rec.members # <<>> PROVE a2 \in Rooms /\ Kin(a2, grown) /\ a2.known = grown.known
  <2>1. rec.members[1] \in SUBSET Nat
    BY <1>8, <1>12
  <2> QED BY <1>7, <2>1 DEF Rooms, Kin
<1> HIDE DEF a1, a2
<1>13. Baselined(rm) \in Rooms /\ Kin(Baselined(rm), grown) /\ Baselined(rm).known = grown.known
  BY <1>9, <1>11, <1>12
<1> QED BY <1>7, <1>13 DEF Kin

\* A room that is converged, and shows K.
Shows(e, K, h) == Sound(e.room, h) /\ e.issue = <<>> /\ IsConverged(e.room) /\ e.room.known = K

\* After the commit: what is published has no cause left.
LEMMA ConcludeMoot ==
  ASSUME NEW rm \in Rooms, IsConverged(rm), NEW rerun \in Reasons, NEW replaced \in BOOLEAN,
         NEW ep \in Nat, NEW id \in 0 .. 2, NEW h \in Seq(Nat), Len(h) >= 1, Kept(rm, h)
  PROVE  LET e == Conclude(rm, rerun, replaced, ep, id)
         IN  Moot(e, h) \/ (rerun = NoReason /\ Shows(e, rm.known, h))
<1> DEFINE e == Conclude(rm, rerun, replaced, ep, id)
           frontier == rm.required_frontier
           chase    == GapTo(frontier)
           reached  == [rm EXCEPT !.required_frontier = NoPos, !.frontier_retry_used = FALSE]
<1>1. frontier \in Cursors /\ frontier \in Int /\ Watermark(rm) \in Int
  BY RoomFields
<1>2. chase \in Reasons /\ NoPos \in Cursors /\ ProtocolGap \in Reasons
  BY <1>1, Causes DEF Cursors
<1>3. ~IsReconciling(rm)
  BY DEF IsConverged, IsReconciling
<1>7. CASE rerun # NoReason
  <2>1. e = Launch(rm, rerun, NoPos, ep, id)
    BY <1>7 DEF Conclude
  <2> HIDE DEF e
  <2> QED BY <1>2, <2>1, LaunchMoot DEF Moot, e
<1>8. CASE rerun = NoReason /\ Watermark(rm) < frontier
  <2>1. CASE rm.frontier_retry_used
    <3> DEFINE left == [rm EXCEPT !.phase = Parked(chase)]
    <3>1. e = Settled(left)
      BY <1>1, <1>8, <2>1 DEF Conclude
    <3>2. Parked(chase) \in Phases
      BY <1>2, ParkedIn
    <3>3. left.phase = Parked(chase) /\ left.known = rm.known /\ left.parked_buffer = rm.parked_buffer
      BY <3>2, Rephased
    <3> HIDE DEF left, e
    <3>4. Kept(left, h)
      BY <3>3 DEF Kept, Parked, IsReconciling
    <3> QED BY <3>1, <3>3, <3>4, ParkedMoot DEF e
  <2>2. CASE ~rm.frontier_retry_used
    <3> DEFINE r2 == [rm EXCEPT !.frontier_retry_used = TRUE]
    <3>1. e = Launch(r2, chase, NoPos, ep, id)
      BY <1>1, <1>8, <2>2 DEF Conclude
    <3>2. r2 \in Rooms /\ r2.known = rm.known /\ r2.phase = rm.phase /\ r2.parked_buffer = rm.parked_buffer
      BY DEF Rooms
    <3> HIDE DEF r2, e
    <3>3. Kept(r2, h)
      BY <3>2 DEF Kept, IsReconciling
    <3> QED BY <1>2, <3>1, <3>2, <3>3, LaunchMoot DEF Moot, e
  <2> QED BY <2>1, <2>2
<1>9. CASE rerun = NoReason /\ ~(Watermark(rm) < frontier)
  <2>1. Watermark(rm) >= frontier
    BY <1>1, <1>9
  <2>2. reached \in Rooms /\ reached.known = rm.known /\ reached.phase = rm.phase
        /\ reached.parked_buffer = rm.parked_buffer
    BY <1>2 DEF Rooms
  <2> HIDE DEF reached
  <2>3. CASE ~replaced /\ rm.lo > Watermark(rm)
    <3> DEFINE r2 == [reached EXCEPT !.pending_bootstrap = TRUE]
    <3>1. e = Launch(r2, ProtocolGap, NoPos, ep, id)
      BY <1>9, <2>1, <2>3 DEF Conclude, reached
    <3>2. r2 \in Rooms /\ r2.known = rm.known /\ r2.phase = rm.phase /\ r2.parked_buffer = rm.parked_buffer
      BY <2>2 DEF Rooms
    <3> HIDE DEF r2, e
    <3>3. Kept(r2, h)
      BY <3>2 DEF Kept, IsReconciling
    <3> QED BY <1>2, <3>1, <3>2, <3>3, LaunchMoot DEF Moot, e
  <2>4. CASE ~(~replaced /\ rm.lo > Watermark(rm))
    <3> DEFINE r2 == [reached EXCEPT !.pending_loss_notice = 0]
    <3>1. e = Publishing(reached)
      BY <1>9, <2>1, <2>4 DEF Conclude, reached
    <3>2. r2.known = rm.known /\ r2.phase = rm.phase /\ r2.parked_buffer = rm.parked_buffer
      BY <2>2 DEF Rooms
    <3>3. e = [Settled(r2) EXCEPT !.told = reached.pending_loss_notice]
      BY <3>1 DEF Publishing
    <3> HIDE DEF r2, e
    <3>4. e.room = r2 /\ e.issue = <<>>
      BY <3>3, Effects
    <3>5. IsConverged(r2) /\ ~IsReconciling(r2) /\ Kept(r2, h)
      BY <1>3, <3>2 DEF IsConverged, IsReconciling, Kept
    <3>6. Sound(r2, h)
      BY <3>5, KeptOrSound
    <3> QED BY <1>9, <3>2, <3>4, <3>5, <3>6 DEF Shows, e
  <2> QED BY <2>3, <2>4
<1> QED BY <1>7, <1>8, <1>9

\* The replay of the buffer: what is published has met no gap in it.
LEMMA ReplayedMoot ==
  ASSUME NEW live, live.room \in Rooms, live.stop \in BOOLEAN, NEW rerun \in Reasons, NEW replaced \in BOOLEAN,
         NEW ep \in Nat, NEW id \in 0 .. 2, NEW h \in Seq(Nat), Len(h) >= 1,
         live.room.known \in Histories(h), live.room.parked_buffer.q \in Seq(Commits(h))
  PROVE  LET e == Replayed(live, rerun, replaced, ep, id)
         IN  Moot(e, h) \/ (~live.stop /\ rerun = NoReason /\ Shows(e, live.room.known, h))
<1> DEFINE l == live.room
           cause == IF live.stop THEN Coalesce(rerun, ProtocolGap) ELSE rerun
           b == Banked(l, rerun, ProtocolGap)
           st  == IF live.stop THEN b ELSE l
           r2 == [st EXCEPT !.protocol_retry_used = FALSE, !.restart_chain = 0,
                              !.restart_retry_used = FALSE,
                              !.pending_bootstrap = FALSE, !.phase = Converged]
           c2 == IF cause = NoReason /\ l.presence_refresh_pending THEN ProtocolGap ELSE cause
           e == Conclude(r2, c2, replaced, ep, id)
<1>1. ProtocolGap \in Reasons /\ NoReason \in Reasons /\ ProtocolGap # NoReason
  <2>1. ProtocolGap # NoReason
    BY DEF ProtocolGap, GapTo, NoReason
  <2> QED BY <2>1, Causes
<1>2. b \in Rooms /\ b.known = l.known /\ b.parked_buffer = l.parked_buffer
  BY <1>1, BankedKeeps
<1>3. Coalesce(rerun, ProtocolGap) \in Reasons /\ Coalesce(rerun, ProtocolGap) # NoReason
  BY <1>1, CoalesceIn, CoalesceSome
<1> HIDE DEF b
<1>4. /\ st \in Rooms /\ st.known = l.known /\ st.parked_buffer = l.parked_buffer
      /\ cause \in Reasons /\ (cause = NoReason => ~live.stop /\ rerun = NoReason)
  BY <1>2, <1>3
<1> HIDE DEF st, cause
<1>5. r2 \in Rooms /\ r2.phase = Converged /\ r2.known = l.known /\ r2.parked_buffer = l.parked_buffer
  <2>1. Converged \in Phases
    BY DEF Phases
  <2> HIDE DEF l
  <2> QED BY <1>4, <2>1 DEF Rooms
<1> HIDE DEF r2
<1>6. c2 \in Reasons /\ (c2 = NoReason => cause = NoReason)
  BY <1>1, <1>4
<1> HIDE DEF c2
<1>7. IsConverged(r2) /\ Kept(r2, h)
  BY <1>5 DEF Converged, IsConverged, IsReconciling, Kept
<1>8. Moot(e, h) \/ (c2 = NoReason /\ Shows(e, r2.known, h))
  BY <1>5, <1>6, <1>7, ConcludeMoot
<1>9. Replayed(live, rerun, replaced, ep, id) = e
  BY DEF Replayed, st, cause, r2, c2, b
<1> HIDE DEF e
<1> QED BY <1>4, <1>5, <1>6, <1>8, <1>9

\* A reconciliation that asks for the members: the view is read, and nothing else has changed.
Asks(e, rm, t) ==
    /\ IsReconciling(e.room) /\ e.room.phase.outstanding.op = "Members"
    /\ e.issue = <<e.room.phase.outstanding>>
    /\ Viewed(e.room) = t
    /\ e.room.phase.buffer = rm.phase.buffer /\ e.room.phase.rerun = rm.phase.rerun

\* A reconciliation that ends: what is published is the view with what was buffered.
Publishes(e, rm, t) ==
    /\ Unhurt(rm)
    /\ e.issue = <<>> /\ IsConverged(e.room)
    /\ Grows(t, rm.phase.buffer.q, e.room.known)

\* What is left of a reconciliation whose view is complete.
Follows(e, rm, t, h) == Sound(e.room, h) /\ (Asks(e, rm, t) \/ Publishes(e, rm, t))

\* The order in which the pushes are taken in does not matter.
LEMMA GrowsSorted ==
  ASSUME NEW t, NEW B, NEW C, NEW K, IdsOf(C) = IdsOf(B), Grows(t, C, K), Len(B) \in Nat, Len(C) \in Nat,
         DOMAIN B = 1 .. Len(B), DOMAIN C = 1 .. Len(C)
  PROVE  Grows(t, B, K)
<1>1. \A j \in 1 .. Len(B) : \E i \in 1 .. Len(C) : C[i] = B[j]
  BY DEF IdsOf
<1>2. \A j \in 1 .. Len(C) : \E i \in 1 .. Len(B) : B[i] = C[j]
  BY DEF IdsOf
<1>3. ASSUME NEW j \in 1 .. Len(B)
      PROVE  B[j].pos + 1 \in 1 .. Len(K) /\ K[B[j].pos + 1] = B[j].id
  <2>1. PICK i \in 1 .. Len(C) : C[i] = B[j]
    BY <1>1
  <2> QED BY <2>1 DEF Grows
<1>4. ASSUME NEW i \in Len(t) + 1 .. Len(K)
      PROVE  \E j \in 1 .. Len(B) : B[j].pos + 1 = i
  <2>1. PICK j \in 1 .. Len(C) : C[j].pos + 1 = i
    BY DEF Grows
  <2>2. PICK k \in 1 .. Len(B) : B[k] = C[j]
    BY <1>2
  <2> QED BY <2>1, <2>2
<1> QED BY <1>3, <1>4 DEF Grows

\* RoomState::converge: what is published is what was read and buffered, with nothing lost.
LEMMA ConvergeMoot ==
  ASSUME NEW rm \in Rooms, IsReconciling(rm),
         NEW ep \in Nat, NEW id \in 0 .. 2, NEW h \in Seq(Nat), Len(h) >= 1, Sound(rm, h)
  PROVE  LET e == Converge(rm, rm.phase, ep, id)
         IN  Moot(e, h) \/ Follows(e, rm, Viewed(rm), h)
<1> DEFINE rec == rm.phase
           lost == rec.buffer.dropped
           e == Converge(rm, rec, ep, id)
<1>1. /\ rec \in Scans /\ rec.rerun \in Reasons /\ rec.buffer \in Buffers /\ lost \in Nat
      /\ rec.buffer.q \in Seq(Pushes)
      /\ rec.presence \in BOOLEAN /\ rec.replace_timeline \in BOOLEAN
  BY ScanFields
<1>2. rm.pending_bootstrap \in BOOLEAN /\ rm.presence_refresh_pending \in BOOLEAN
  BY RoomFields
<1>3. Kept(rm, h) /\ Viewed(rm) \in Histories(h) /\ rec.buffer.q \in Seq(Commits(h))
      /\ rm.parked_buffer.q \in Seq(Commits(h))
  BY KeptOrSound DEF Sound
<1>7. CASE rm.pending_bootstrap
  <2> DEFINE pr == rm.presence_refresh_pending \/ rec.presence
             ph == [rec EXCEPT !.rerun = NoReason]
             sup == [rm EXCEPT !.presence_refresh_pending = pr, !.phase = ph]
             why == IF rec.rerun = NoReason THEN Bootstrap ELSE rec.rerun
  <2>1. e = Launch(sup, why, NoPos, ep, id)
    BY <1>7 DEF Converge
  <2>2. why \in Reasons /\ NoReason \in Reasons
    BY <1>1, Causes
  <2> HIDE DEF why, e
  <2>3. ph \in Phases /\ ph.tag = rec.tag /\ ph.buffer = rec.buffer
    BY <1>1, <2>2, Reruns
  <2> HIDE DEF ph
  <2>4. pr \in BOOLEAN
    BY <1>1, <1>2
  <2> HIDE DEF pr
  <2>5. sup \in Rooms /\ sup.phase = ph /\ sup.known = rm.known /\ sup.parked_buffer = rm.parked_buffer
    BY <2>3, <2>4 DEF Rooms
  <2> HIDE DEF sup
  <2>6. Kept(sup, h)
    BY <1>3, <2>3, <2>5 DEF Kept, IsReconciling
  <2>9. NoPos \in Cursors
    BY DEF Cursors
  <2> QED BY <2>1, <2>2, <2>5, <2>6, <2>9, LaunchMoot DEF Moot, e
<1>8. CASE ~rm.pending_bootstrap /\ rec.replace_timeline /\ rec.scan = <<>>
  <2>1. e = StructuralRetry(rm, ep, id)
    BY <1>8 DEF Converge
  <2> HIDE DEF e
  <2> QED BY <1>3, <2>1, StructuralMoot DEF e
<1>9. CASE ~rm.pending_bootstrap /\ ~(rec.replace_timeline /\ rec.scan = <<>>)
  <2> DEFINE base == Baselined(rm)
             loss == Overflow(lost)
             b == Banked(base, rec.rerun, loss)
             start == IF lost = 0 THEN base ELSE b
             rerun == IF lost = 0 THEN rec.rerun ELSE Coalesce(rec.rerun, loss)
             q == ByPosition(rec.buffer.q)
             live == ApplyOrdered(start, q)
  <2>1. e = Replayed(live, rerun, rec.replace_timeline, ep, id)
    BY <1>9 DEF Converge
  <2>2. base \in Rooms /\ Kin(base, rm) /\ base.known = Viewed(rm)
    BY <1>9, BaselineViewed
  <2> HIDE DEF base
  <2>3. loss \in Reasons /\ loss # NoReason
    <3>1. loss \in Reasons
      BY <1>1, Causes
    <3>2. loss # NoReason
      BY DEF Overflow, NoReason
    <3> QED BY <3>1, <3>2
  <2> HIDE DEF loss
  <2>4. b \in Rooms /\ b.known = base.known /\ b.parked_buffer = base.parked_buffer
    <3>1. rec.rerun \in Reasons
      BY <1>1
    <3> HIDE DEF rec
    <3> QED BY <2>2, <2>3, <3>1, BankedKeeps
  <2> HIDE DEF b
  <2>5. Coalesce(rec.rerun, loss) \in Reasons /\ Coalesce(rec.rerun, loss) # NoReason
    BY <1>1, <2>3, CoalesceIn, CoalesceSome
  <2>8. /\ start \in Rooms /\ start.known = Viewed(rm) /\ start.parked_buffer = rm.parked_buffer
        /\ rerun \in Reasons /\ (rerun = NoReason => lost = 0 /\ rec.rerun = NoReason)
    <3>1. base.parked_buffer = rm.parked_buffer
      BY <2>2 DEF Kin
    <3> QED BY <1>1, <2>2, <2>4, <2>5, <3>1
  <2> HIDE DEF start, rerun
  <2>9. q \in Seq(Commits(h)) /\ IdsOf(q) = IdsOf(rec.buffer.q)
    <3> DEFINE T == Commits(h)
    <3>1. rec.buffer.q \in Seq(T)
      BY <1>3
    <3> HIDE DEF T, rec
    <3>2. q \in Seq(T) /\ IdsOf(q) = IdsOf(rec.buffer.q)
      BY <3>1, SortHolds
    <3> QED BY <3>2 DEF T
  <2> HIDE DEF q
  <2>10. /\ live \in [room : Rooms, stop : BOOLEAN] /\ Kin(live.room, start)
         /\ live.room.known \in Histories(h)
         /\ ~live.stop => Grows(Viewed(rm), q, live.room.known)
    <3> HIDE DEF live
    <3>1. start.known \in Histories(h)
      BY <1>3, <2>8
    <3>2. LET a == ApplyOrdered(start, q)
          IN  /\ a \in [room : Rooms, stop : BOOLEAN] /\ Kin(a.room, start)
              /\ a.room.known \in Histories(h)
              /\ ~a.stop => Grows(start.known, q, a.room.known)
      BY <2>8, <2>9, <3>1, Applied
    <3> QED BY <2>8, <3>2 DEF live
  <2> HIDE DEF live
  <2>11. live.room \in Rooms /\ live.stop \in BOOLEAN /\ live.room.parked_buffer.q \in Seq(Commits(h))
    BY <1>3, <2>8, <2>10 DEF Kin
  <2> DEFINE rp == rec.replace_timeline
  <2>12. rp \in BOOLEAN
    BY <1>1
  <2> HIDE DEF rp, e
  <2>13. Moot(e, h) \/ (~live.stop /\ rerun = NoReason /\ Shows(e, live.room.known, h))
    BY <2>1, <2>8, <2>10, <2>11, <2>12, ReplayedMoot DEF rp
  <2>14. CASE ~live.stop /\ rerun = NoReason /\ Shows(e, live.room.known, h)
    <3>1. Unhurt(rm)
      BY <2>8, <2>14 DEF Unhurt
    <3>2. Grows(Viewed(rm), rec.buffer.q, live.room.known)
      <4> DEFINE B == rec.buffer.q
      <4>1. /\ Len(B) \in Nat /\ DOMAIN B = 1 .. Len(B) /\ Len(q) \in Nat /\ DOMAIN q = 1 .. Len(q)
            /\ IdsOf(q) = IdsOf(B)
        BY <1>1, <2>9
      <4>2. Grows(Viewed(rm), q, live.room.known)
        BY <2>10, <2>14
      <4> HIDE DEF B
      <4>3. Grows(Viewed(rm), B, live.room.known)
        BY <4>1, <4>2, GrowsSorted
      <4> QED BY <4>3 DEF B
    <3> QED BY <2>14, <3>1, <3>2 DEF Shows, Follows, Publishes, e
  <2> QED BY <2>13, <2>14 DEF e
<1> QED BY <1>7, <1>8, <1>9

\* The next read of the plan, or the end of it.
LEMMA AdvanceMoot ==
  ASSUME NEW rm \in Rooms, IsReconciling(rm),
         NEW ep \in Nat, NEW id \in 0 .. 2, NEW h \in Seq(Nat), Len(h) >= 1, Sound(rm, h)
  PROVE  LET e == Advance(rm, ep, id)
         IN  Moot(e, h) \/ Follows(e, rm, Viewed(rm), h)
<1> DEFINE e == Advance(rm, ep, id)
           rec == rm.phase
<1>1. CASE rec.plan = <<>>
  <2>1. e = Converge(rm, rec, ep, id)
    BY <1>1 DEF Advance
  <2> HIDE DEF e
  <2> QED BY <2>1, ConvergeMoot DEF e
<1>2. CASE rec.plan # <<>>
  <2> DEFINE next == [op |-> Head(rec.plan), from |-> 0]
             ph == [rec EXCEPT !.outstanding = next, !.plan = Tail(rec.plan)]
             r2 == [rm EXCEPT !.phase = ph]
  <2>1. rec \in Scans /\ rec.plan \in Seq({"Members"})
    BY ScanFields
  <2>2. Head(rec.plan) = "Members" /\ Tail(rec.plan) \in Seq({"Members"})
    BY <1>2, <2>1
  <2>3. next.op = "Members" /\ next \in Requests
    BY <2>2 DEF Requests
  <2>4. e = [Settled(r2) EXCEPT !.issue = <<next>>]
    BY <1>2 DEF Advance
  <2> HIDE DEF next, e
  <2>5. /\ ph \in Scans /\ ph.tag = rec.tag /\ ph.buffer = rec.buffer /\ ph.scan = rec.scan
        /\ ph.replace_timeline = rec.replace_timeline /\ ph.rerun = rec.rerun
        /\ ph.outstanding = next
    BY <2>1, <2>2, <2>3 DEF Scans
  <2> HIDE DEF ph
  <2>6. ph \in Phases
    BY <2>5 DEF Phases
  <2>7. r2.phase = ph /\ r2.known = rm.known /\ r2.parked_buffer = rm.parked_buffer
    BY <2>6, Rephased
  <2> HIDE DEF r2
  <2>8. IsReconciling(r2) /\ Viewed(r2) = Viewed(rm)
    BY <2>5, <2>7 DEF IsReconciling, Viewed
  <2>9. Sound(r2, h)
    BY <2>5, <2>7, <2>8 DEF Sound
  <2>10. e.room = r2 /\ e.issue = <<next>>
    BY <2>4, Effects
  <2>11. Asks(e, rm, Viewed(rm))
    BY <2>3, <2>5, <2>7, <2>8, <2>10 DEF Asks
  <2> QED BY <2>9, <2>10, <2>11 DEF Follows, e
<1> QED BY <1>1, <1>2

\* What follows is the same for a room with the same buffer and cause.
LEMMA FollowsFor ==
  ASSUME NEW e, NEW a, NEW rm, NEW t, NEW h, Follows(e, a, t, h),
         a.phase.buffer = rm.phase.buffer, a.phase.rerun = rm.phase.rerun, IsReconciling(rm)
  PROVE  Follows(e, rm, t, h)
BY DEF Follows, Asks, Publishes, Unhurt

\* The members.
LEMMA MembersMoot ==
  ASSUME NEW rm \in Rooms, IsReconciling(rm), NEW ids \in SUBSET Nat,
         NEW ep \in Nat, NEW id \in 0 .. 2, NEW h \in Seq(Nat), Len(h) >= 1, Sound(rm, h)
  PROVE  LET e == Advance([rm EXCEPT !.phase.members = <<ids>>], ep, id)
         IN  Moot(e, h) \/ Follows(e, rm, Viewed(rm), h)
<1> DEFINE ph == [rm.phase EXCEPT !.members = <<ids>>]
           r2 == [rm EXCEPT !.phase = ph]
           e == Advance(r2, ep, id)
<1>1. rm.phase \in Scans
  BY ScanFields
<1>2. <<ids>> \in Seq(SUBSET Nat)
  OBVIOUS
<1>3. /\ ph \in Scans /\ ph.tag = rm.phase.tag /\ ph.buffer = rm.phase.buffer /\ ph.scan = rm.phase.scan
      /\ ph.replace_timeline = rm.phase.replace_timeline /\ ph.rerun = rm.phase.rerun
  BY <1>1, <1>2 DEF Scans
<1> HIDE DEF ph
<1>4. ph \in Phases
  BY <1>3 DEF Phases
<1>5. r2 \in Rooms /\ r2.phase = ph /\ r2.known = rm.known /\ r2.parked_buffer = rm.parked_buffer
  BY <1>4, Rephased
<1> HIDE DEF r2
<1>6. IsReconciling(r2) /\ Viewed(r2) = Viewed(rm)
  BY <1>3, <1>5 DEF IsReconciling, Viewed
<1>7. Sound(r2, h)
  BY <1>3, <1>5, <1>6 DEF Sound
<1>8. Moot(e, h) \/ Follows(e, r2, Viewed(r2), h)
  BY <1>5, <1>6, <1>7, AdvanceMoot
<1> HIDE DEF e
<1>9. Moot(e, h) \/ Follows(e, rm, Viewed(rm), h)
  BY <1>3, <1>5, <1>6, <1>8, FollowsFor
<1> QED BY <1>9 DEF e, r2, ph

\* What is viewed is as long as the scan reaches; a page that is valid repeats none of it.
LEMMA ViewReaches ==
  ASSUME NEW rm \in Rooms, IsReconciling(rm)
  PROVE  /\ Viewed(rm) \in Seq(Nat) /\ Len(Viewed(rm)) = Reach(rm) + 1
         /\ \A ids : PageValid(rm, ids) => IdsOf(ids) \cap IdsOf(Viewed(rm)) = {}
<1> DEFINE k == rm.known
           s == rm.phase.scan
<1>1. k \in Seq(Nat) /\ s \in Seq(Nat) /\ Watermark(rm) = Len(k) - 1 /\ Len(k) \in Nat /\ Len(s) \in Nat
  <2>1. k \in Seq(Nat) /\ s \in Seq(Nat)
    BY RoomFields, ScanFields
  <2> QED BY <2>1 DEF Watermark
<1>2. CASE rm.phase.replace_timeline
  <2>1. Viewed(rm) = s /\ Reach(rm) = Len(s) - 1
    BY <1>2 DEF Viewed, Reach
  <2>2. \A ids : PageValid(rm, ids) => IdsOf(ids) \cap IdsOf(s) = {}
    BY DEF PageValid
  <2> QED BY <1>1, <2>1, <2>2
<1>3. CASE ~rm.phase.replace_timeline
  <2>1. Viewed(rm) = k \o s /\ Reach(rm) = Len(k) - 1 + Len(s)
    BY <1>1, <1>3 DEF Viewed, Reach
  <2>2. \A ids : PageValid(rm, ids) => IdsOf(ids) \cap IdsOf(s) = {} /\ IdsOf(ids) \cap IdsOf(k) = {}
    BY <1>3 DEF PageValid
  <2>3. IdsOf(k \o s) = IdsOf(k) \cup IdsOf(s)
    <3> HIDE DEF k, s
    <3>1. /\ k \o s \in Seq(Nat) /\ Len(k \o s) = Len(k) + Len(s)
          /\ \A i \in 1 .. Len(k) + Len(s) : (k \o s)[i] = IF i <= Len(k) THEN k[i] ELSE s[i - Len(k)]
      BY <1>1, ConcatProperties
    <3> DEFINE t == k \o s
    <3>2. /\ t \in Seq(Nat) /\ Len(t) = Len(k) + Len(s)
          /\ \A i \in 1 .. Len(k) + Len(s) : t[i] = IF i <= Len(k) THEN k[i] ELSE s[i - Len(k)]
      BY <3>1
    <3> HIDE DEF t
    <3>3. \A i \in 1 .. Len(k) : i \in 1 .. Len(t) /\ t[i] = k[i]
      BY <1>1, <3>2
    <3>4. \A i \in 1 .. Len(s) : Len(k) + i \in 1 .. Len(t) /\ t[Len(k) + i] = s[i]
      <4> TAKE i \in 1 .. Len(s)
      <4>1. Len(k) + i \in 1 .. Len(k) + Len(s) /\ ~(Len(k) + i <= Len(k)) /\ Len(k) + i - Len(k) = i
        BY <1>1
      <4> QED BY <3>2, <4>1
    <3>5. \A i \in 1 .. Len(t) : (i \in 1 .. Len(k) /\ t[i] = k[i]) \/ (i - Len(k) \in 1 .. Len(s) /\ t[i] = s[i - Len(k)])
      BY <1>1, <3>2
    <3>6. DOMAIN t = 1 .. Len(t) /\ DOMAIN k = 1 .. Len(k) /\ DOMAIN s = 1 .. Len(s)
      BY <1>1, <3>2
    <3>7. IdsOf(t) \subseteq IdsOf(k) \cup IdsOf(s)
      BY <3>5, <3>6 DEF IdsOf
    <3>8. IdsOf(k) \subseteq IdsOf(t) /\ IdsOf(s) \subseteq IdsOf(t)
      BY <3>3, <3>4, <3>6 DEF IdsOf
    <3> QED BY <3>7, <3>8 DEF t
  <2>4. k \o s \in Seq(Nat) /\ Len(k \o s) = Len(k) + Len(s)
    BY <1>1
  <2>5. \A ids : PageValid(rm, ids) => IdsOf(ids) \cap IdsOf(k \o s) = {}
    BY <2>2, <2>3
  <2> QED BY <1>1, <2>1, <2>4, <2>5
<1> QED BY <1>2, <1>3

\* Sequences are joined in any grouping.
LEMMA ViewJoins ==
  ASSUME NEW a \in Seq(Nat), NEW b \in Seq(Nat), NEW c \in Seq(Nat)
  PROVE  a \o (b \o c) = (a \o b) \o c
<1> DEFINE T == Nat
<1>1. a \in Seq(T) /\ b \in Seq(T) /\ c \in Seq(T)
  OBVIOUS
<1> HIDE DEF T
<1> QED BY SMTT(30), <1>1, ConcatAssociative

\* A page is read: the view grows by it.
LEMMA PageMoot ==
  ASSUME NEW rm \in Rooms, IsReconciling(rm), NEW ids \in Seq(Nat), NEW more \in BOOLEAN,
         NEW ep \in Nat, NEW id \in 0 .. 2, NEW h \in Seq(Nat), Len(h) >= 1, Sound(rm, h), Continues(rm),
         NEW reply, reply.ids = ids, reply.more = more,
         rm.phase.outstanding.op # "Members", Distinct(ids),
         \A i \in 1 .. Len(ids) : Beyond(h, First(rm.phase.outstanding) + i - 1, ids[i])
  PROVE  LET e == TakePage(rm, reply, ep, id)
         IN  Moot(e, h) \/ (~more /\ PageValid(rm, ids) /\ Follows(e, rm, Viewed(rm) \o ids, h))
<1> DEFINE e == TakePage(rm, reply, ep, id)
           rec == rm.phase
           ph == [rec EXCEPT !.scan = rec.scan \o ids]
           r2 == [rm EXCEPT !.phase = ph]
           next == [rec.outstanding EXCEPT
                      !.from = IF rec.replace_timeline THEN Len(r2.phase.scan) ELSE ScanPos(r2.phase)]
<1>1. /\ rec \in Scans /\ rec.scan \in Seq(Nat) /\ rec.outstanding \in Requests
      /\ rec.replace_timeline \in BOOLEAN
  BY ScanFields
<1>2. rm.known \in Seq(Nat)
  BY RoomFields
<1>3. rec.scan \o ids \in Seq(Nat)
  BY <1>1
<1>4. /\ ph \in Scans /\ ph.tag = rec.tag /\ ph.buffer = rec.buffer /\ ph.scan = rec.scan \o ids
      /\ ph.replace_timeline = rec.replace_timeline /\ ph.rerun = rec.rerun
  BY <1>1, <1>3 DEF Scans
<1> HIDE DEF ph
<1>5. ph \in Phases
  BY <1>4 DEF Phases
<1>6. r2 \in Rooms /\ r2.phase = ph /\ r2.known = rm.known /\ r2.parked_buffer = rm.parked_buffer
  BY <1>5, Rephased
<1> HIDE DEF r2
<1>7. IsReconciling(r2)
  BY <1>4, <1>6 DEF IsReconciling
<1>8. Viewed(r2) = Viewed(rm) \o ids
  <2>1. CASE rec.replace_timeline
    BY <1>4, <1>6, <1>7, <2>1 DEF Viewed
  <2>2. CASE ~rec.replace_timeline
    <3>1. Viewed(r2) = rm.known \o (rec.scan \o ids) /\ Viewed(rm) = rm.known \o rec.scan
      BY <1>4, <1>6, <1>7, <2>2 DEF Viewed
    <3>2. rm.known \o (rec.scan \o ids) = (rm.known \o rec.scan) \o ids
      BY <1>1, <1>2, ViewJoins
    <3> QED BY <3>1, <3>2
  <2> QED BY <2>1, <2>2
<1>9. Kept(rm, h) /\ Kept(r2, h)
  BY <1>4, <1>6, <1>7, KeptOrSound DEF Kept
<1>10. PageValid(rm, ids) => Sound(r2, h)
  <2> SUFFICES ASSUME PageValid(rm, ids)
               PROVE  Sound(r2, h)
    OBVIOUS
  <2>1. First(rec.outstanding) = Len(Viewed(rm))
    <3>1. First(rec.outstanding) = Reach(rm) + 1
      BY DEF Continues
    <3> QED BY <3>1, ViewReaches
  <2>2. \A i \in 1 .. Len(ids) : Beyond(h, Len(Viewed(rm)) + i - 1, ids[i])
    BY <2>1
  <2>3. Viewed(rm) \in Histories(h) /\ IdsOf(ids) \cap IdsOf(Viewed(rm)) = {}
    BY ViewReaches DEF Sound
  <2>4. Viewed(rm) \o ids \in Histories(h)
    BY <2>2, <2>3, PageRead
  <2> QED BY <1>4, <1>6, <1>7, <1>8, <2>4 DEF Sound
<1>14. CASE ~PageValid(rm, ids)
  <2>1. e = StructuralRetry(rm, ep, id)
    BY <1>14 DEF TakePage
  <2> HIDE DEF e
  <2> QED BY <1>9, <2>1, StructuralMoot DEF e
<1>15. CASE PageValid(rm, ids) /\ more
  <2>1. e = [Settled([r2 EXCEPT !.phase.outstanding = next]) EXCEPT !.issue = <<next>>]
    BY <1>15 DEF TakePage, r2, ph
  <2>2. next.op = rec.outstanding.op
    <3> DEFINE f == IF rec.replace_timeline THEN Len(r2.phase.scan) ELSE ScanPos(r2.phase)
    <3>1. next = [rec.outstanding EXCEPT !.from = f]
      BY DEF f
    <3> HIDE DEF next, f
    <3> QED BY <1>1, <3>1 DEF Requests
  <2> HIDE DEF next, e
  <2> DEFINE p3 == [ph EXCEPT !.outstanding = next]
             r3 == [r2 EXCEPT !.phase = p3]
  <2>3. /\ p3.tag = ph.tag /\ p3.buffer = ph.buffer /\ p3.scan = ph.scan
        /\ p3.replace_timeline = ph.replace_timeline /\ p3.outstanding = next
    BY <1>4 DEF Scans
  <2>4. e = [Settled(r3) EXCEPT !.issue = <<next>>]
    BY <1>6, <2>1
  <2> HIDE DEF p3
  <2>5. r3.phase = p3 /\ r3.known = r2.known /\ r3.parked_buffer = r2.parked_buffer
    BY <1>6 DEF Rooms
  <2> HIDE DEF r3
  <2>6. IsReconciling(r3) /\ Viewed(r3) = Viewed(r2)
    BY <1>4, <1>6, <1>7, <2>3, <2>5 DEF IsReconciling, Viewed
  <2>7. Sound(r3, h)
    <3>1. Sound(r2, h)
      BY <1>10, <1>15
    <3> QED BY <1>6, <1>7, <2>3, <2>5, <2>6, <3>1 DEF Sound
  <2>8. e.room = r3 /\ e.issue = <<next>>
    BY <2>4, Effects
  <2>9. Afresh(e)
    BY <2>2, <2>3, <2>5, <2>6, <2>8 DEF Afresh
  <2> QED BY <2>7, <2>8, <2>9 DEF Moot, e
<1>16. CASE PageValid(rm, ids) /\ ~more
  <2>2. e = IF rec.replace_timeline /\ ScanPos(r2.phase) < rm.bootstrap_anchor
            THEN StructuralRetry(r2, ep, id) ELSE Advance(r2, ep, id)
    BY <1>16 DEF TakePage, r2, ph
  <2>3. r2.phase.buffer = rm.phase.buffer /\ r2.phase.rerun = rm.phase.rerun
    BY <1>4, <1>6
  <2> HIDE DEF e
  <2>4. Moot(e, h) \/ Follows(e, r2, Viewed(r2), h)
    <3>1. CASE rec.replace_timeline /\ ScanPos(r2.phase) < rm.bootstrap_anchor
      <4>1. e = StructuralRetry(r2, ep, id)
        BY <2>2, <3>1
      <4> QED BY <1>6, <1>7, <1>9, <4>1, StructuralMoot
    <3>2. CASE ~(rec.replace_timeline /\ ScanPos(r2.phase) < rm.bootstrap_anchor)
      <4>1. e = Advance(r2, ep, id)
        BY <2>2, <3>2
      <4> QED BY <1>6, <1>7, <1>10, <1>16, <4>1, AdvanceMoot
    <3> QED BY <3>1, <3>2
  <2>5. Moot(e, h) \/ Follows(e, rm, Viewed(rm) \o ids, h)
    BY <1>8, <2>3, <2>4, FollowsFor
  <2> QED BY <1>16, <2>5 DEF e
<1> QED BY <1>14, <1>15, <1>16

\* A reconciling room rm that has put the push x into its buffer, or counted it as lost: r.
Buffered(rm, x, r) ==
    /\ IsReconciling(rm) /\ IsReconciling(r)
    /\ Viewed(r) = Viewed(rm) /\ r.phase.rerun = rm.phase.rerun
    /\ r.phase.outstanding = rm.phase.outstanding
    /\ r.phase.epoch = rm.phase.epoch /\ r.phase.read_id = rm.phase.read_id
    /\ r.known = rm.known /\ r.phase.scan = rm.phase.scan /\ r.phase.replace_timeline = rm.phase.replace_timeline
    /\ r.phase.buffer.dropped = 0 => rm.phase.buffer.dropped = 0 /\ r.phase.buffer.q = Append(rm.phase.buffer.q, x)

\* A live push: buffered, counted as lost, parked, or what the history goes on with.
LEMMA LiveMoot ==
  ASSUME NEW rm \in Rooms, NEW h \in Seq(Nat), Len(h) >= 1, Sound(rm, h), NEW x \in Commits(h),
         NEW ep \in Nat, NEW id \in 0 .. 2
  PROVE  LET e == OnLiveEvent(rm, x, ep, id)
         IN  \/ Moot(e, h)
             \/ Sound(e.room, h) /\ e.issue = <<>> /\ Buffered(rm, x, e.room)
             \/ Sound(e.room, h) /\ e.issue = <<>> /\ IsConverged(rm) /\ IsConverged(e.room)
                /\ Grows(rm.known, <<x>>, e.room.known)
<1> DEFINE e == OnLiveEvent(rm, x, ep, id)
<1>1. rm.phase.tag \in {"Converged", "NeedsReconcile", "Reconciling"}
  BY Holding
<1>2. x \in Pushes /\ x.pos \in Nat /\ x.id \in Nat
  BY CommitsArePushes DEF Pushes
<1>3. CASE IsReconciling(rm)
  <2> DEFINE b == rm.phase.buffer
             nb == BufferLive(b, x)
             ph == [rm.phase EXCEPT !.buffer = nb]
             r2 == [rm EXCEPT !.phase = ph]
  <2>1. e = Settled(r2)
    BY <1>3 DEF OnLiveEvent, IsReconciling, IsConverged
  <2>2. rm.phase \in Scans /\ b \in Buffers /\ b.dropped \in Nat /\ b.q \in Seq(Commits(h))
    BY <1>3, ScanFields DEF Sound
  <2>3. nb \in Buffers /\ nb.q \in Seq(Commits(h))
        /\ (nb.dropped = 0 => b.dropped = 0 /\ nb.q = Append(b.q, x))
    <3>1. CASE Len(b.q) >= BufferDepth
      <4>1. nb = [b EXCEPT !.dropped = b.dropped + 1]
        BY <3>1 DEF BufferLive
      <4>2. nb \in Buffers /\ nb.q = b.q /\ nb.dropped = b.dropped + 1
        BY SMTT(30), <2>2, <4>1 DEF Buffers
      <4> HIDE DEF nb, b
      <4> QED BY <2>2, <4>2
    <3>2. CASE ~(Len(b.q) >= BufferDepth)
      <4>1. nb = BufferPush(b, x)
        BY <3>2 DEF BufferLive
      <4> HIDE DEF nb, b
      <4> QED BY <2>2, <4>1, BufferPushKept
    <3> QED BY <3>1, <3>2
  <2> HIDE DEF nb
  <2>5. /\ ph \in Scans /\ ph.tag = rm.phase.tag /\ ph.buffer = nb /\ ph.scan = rm.phase.scan
        /\ ph.replace_timeline = rm.phase.replace_timeline
        /\ ph.rerun = rm.phase.rerun
        /\ ph.outstanding = rm.phase.outstanding
        /\ ph.epoch = rm.phase.epoch /\ ph.read_id = rm.phase.read_id
    BY <2>2, <2>3 DEF Scans
  <2> HIDE DEF ph, e
  <2>6. ph \in Phases
    BY <2>5 DEF Phases
  <2>7. r2.phase = ph /\ r2.known = rm.known /\ r2.parked_buffer = rm.parked_buffer
    BY <2>6, Rephased
  <2> HIDE DEF r2
  <2>8. IsReconciling(r2) /\ Viewed(r2) = Viewed(rm)
    BY <1>3, <2>5, <2>7 DEF IsReconciling, Viewed
  <2>9. Sound(r2, h)
    BY <1>3, <2>3, <2>5, <2>7, <2>8 DEF Sound
  <2>10. e.room = r2 /\ e.issue = <<>>
    BY <2>1, Effects
  <2>11. Buffered(rm, x, r2)
    BY <1>3, <2>3, <2>5, <2>7, <2>8 DEF Buffered
  <2> QED BY <2>9, <2>10, <2>11 DEF e
<1>4. CASE rm.phase.tag = "NeedsReconcile"
  <2> DEFINE nb == BufferPush(rm.parked_buffer, x)
             r2 == [rm EXCEPT !.parked_buffer = nb]
  <2>1. e = Settled(r2)
    BY <1>4 DEF OnLiveEvent, IsReconciling, IsConverged
  <2>2. nb \in Buffers /\ nb.q \in Seq(Commits(h))
    <3> DEFINE b == rm.parked_buffer
    <3>1. b \in Buffers /\ b.q \in Seq(Commits(h))
      BY RoomFields DEF Sound
    <3> HIDE DEF b
    <3>2. BufferPush(b, x) \in Buffers /\ BufferPush(b, x).q \in Seq(Commits(h))
      BY <3>1, BufferPushKept
    <3> QED BY <3>2 DEF b
  <2> HIDE DEF nb, e
  <2>5. r2.phase = rm.phase /\ r2.known = rm.known /\ r2.parked_buffer = nb
    BY <2>2 DEF Rooms
  <2> HIDE DEF r2
  <2>6. ~IsReconciling(r2) /\ ~IsConverged(r2) /\ ~Unhurt(r2)
    BY <1>4, <2>5 DEF IsReconciling, IsConverged, Unhurt
  <2>7. Sound(r2, h)
    BY <2>2, <2>5, <2>6 DEF Sound
  <2>8. e.room = r2 /\ e.issue = <<>>
    BY <2>1, Effects
  <2> QED BY <2>6, <2>7, <2>8 DEF Moot, Mute, e
<1>5. CASE IsConverged(rm)
  <2> DEFINE again(r) == Launch(r, ProtocolGap, NoPos, ep, id)
             g == Grown(rm, x.id)
             d == DisputePosition(rm, x.pos)
  <2>1. ~IsReconciling(rm) /\ rm.phase.tag # "NeedsReconcile"
    BY <1>5 DEF IsConverged, IsReconciling
  <2>2. g \in Rooms /\ Kin(g, rm) /\ g.known = Append(rm.known, x.id)
    BY <1>2, Growing
  <2>3. d \in Rooms /\ Kin(d, rm) /\ d.known = rm.known
    BY <1>2, Disputing
  <2>4. /\ rm.known \in Seq(Nat) /\ rm.known \in Histories(h) /\ Len(rm.known) \in Nat /\ Watermark(rm) = Len(rm.known) - 1
    <3>1. rm.known \in Seq(Nat) /\ rm.known \in Histories(h)
      BY RoomFields DEF Sound
    <3> QED BY <3>1 DEF Watermark
  <2> HIDE DEF g, d
  <2>5. \/ e = Settled(rm) /\ x.pos <= Watermark(rm) /\ Replays(rm, x)
        \/ e = again(d) \/ e = again(rm)
        \/ x.pos = Watermark(rm) + 1 /\ x.id \notin IdsOf(rm.known) /\ (e = again(g) \/ e = Settled(g))
    <3>1. Watermark(rm) \in Int
      BY <2>4
    <3> QED BY <1>2, <1>5, <2>1, <3>1 DEF OnLiveEvent, g, d
  <2> HIDE DEF e
  <2>6. ASSUME NEW r \in Rooms, Kin(r, rm), r.known \in Histories(h)
        PROVE  Moot(again(r), h)
    <3>1. Kept(r, h)
      BY <2>1, <2>6 DEF Kept, Kin, Sound, IsReconciling
    <3>2. ProtocolGap \in Reasons /\ NoPos \in Cursors
      BY Causes DEF Cursors
    <3> QED BY <3>1, <3>2, LaunchMoot DEF Moot
  <2>7. ASSUME NEW r \in Rooms, Kin(r, rm), r.known \in Histories(h)
        PROVE  LET s == Settled(r) IN s.room = r /\ s.issue = <<>> /\ Sound(s.room, h) /\ IsConverged(s.room)
    <3>1. ~IsReconciling(r) /\ IsConverged(r)
      BY <1>5, <2>1, <2>7 DEF Kin, IsReconciling, IsConverged
    <3>2. Kept(r, h)
      BY <3>1, <2>7 DEF Kept, Kin, Sound
    <3>3. Sound(r, h)
      BY <3>1, <3>2, KeptOrSound
    <3> QED BY <3>1, <3>3, Effects
  <2> HIDE DEF again
  <2>8. Kin(rm, rm)
    BY DEF Kin
  <2>9. CASE e = Settled(rm) /\ x.pos <= Watermark(rm) /\ Replays(rm, x)
    <3>1. Grows(rm.known, <<x>>, rm.known)
      <4> DEFINE t == rm.known
                 B == <<x>>
      <4>1. Len(B) = 1 /\ B[1] = x /\ \A j \in 1 .. Len(B) : j = 1
        OBVIOUS
      <4>2. x.pos + 1 \in 1 .. Len(t) /\ t[x.pos + 1] = x.id
        BY <1>2, <2>4, <2>9 DEF Replays
      <4>3. \A i \in Len(t) + 1 .. Len(t) : FALSE
        BY <2>4
      <4>4. Len(t) <= Len(t)
        BY <2>4
      <4> HIDE DEF B
      <4> QED BY <4>1, <4>2, <4>3, <4>4 DEF Grows, B
    <3>2. e.room = rm /\ e.issue = <<>> /\ Sound(e.room, h) /\ IsConverged(e.room)
      BY <2>4, <2>7, <2>8, <2>9
    <3> QED BY <1>5, <3>1, <3>2 DEF e
  <2>10. CASE e = again(d) \/ e = again(rm)
    BY <2>3, <2>4, <2>6, <2>8, <2>10 DEF e
  <2>11. CASE x.pos = Watermark(rm) + 1 /\ x.id \notin IdsOf(rm.known) /\ (e = again(g) \/ e = Settled(g))
    <3>1. x.pos = Len(rm.known)
      BY <2>4, <2>11
    <3>2. g.known \in Histories(h)
      BY <2>2, <2>4, <2>11, <3>1, PushRead
    <3>3. CASE e = again(g)
      BY <2>2, <2>6, <3>2, <3>3 DEF e
    <3>4. CASE e = Settled(g)
      <4>1. Grows(rm.known, <<x>>, g.known)
        <5> DEFINE t == rm.known
                   K == g.known
                   B == <<x>>
        <5>1. Len(B) = 1 /\ B[1] = x /\ \A j \in 1 .. Len(B) : j = 1
          OBVIOUS
        <5>2. K = Append(t, x.id) /\ t \in Seq(Nat) /\ x.pos = Len(t)
          BY <2>2, <2>4, <3>1
        <5>3. Len(K) = Len(t) + 1 /\ (\A i \in 1 .. Len(t) : K[i] = t[i]) /\ K[Len(t) + 1] = x.id /\ Len(t) \in Nat
          BY <1>2, <5>2
        <5> HIDE DEF t, K, B
        <5>4. Len(t) <= Len(K) /\ x.pos + 1 \in 1 .. Len(K) /\ K[x.pos + 1] = x.id
              /\ \A i \in Len(t) + 1 .. Len(K) : x.pos + 1 = i
          BY <5>2, <5>3
        <5>5. Grows(t, B, K)
          BY <5>1, <5>3, <5>4 DEF Grows
        <5> QED BY <5>5 DEF t, K, B
      <4>2. e.room = g /\ e.issue = <<>> /\ Sound(e.room, h) /\ IsConverged(e.room)
        BY <2>2, <2>7, <3>2, <3>4
      <4> QED BY <1>5, <4>1, <4>2 DEF e
    <3> QED BY <2>11, <3>3, <3>4
  <2> QED BY <2>5, <2>9, <2>10, <2>11
<1> QED BY <1>1, <1>3, <1>4, <1>5 DEF IsReconciling, IsConverged

\* A junk push: its cause hurts what is being read.
LEMMA JunkMoot ==
  ASSUME NEW rm \in Rooms, NEW h \in Seq(Nat), Len(h) >= 1, Sound(rm, h), NEW ep \in Nat, NEW id \in 0 .. 2
  PROVE  Moot(OnJunk(rm, ep, id), h)
<1> DEFINE e == OnJunk(rm, ep, id)
<1>1. rm.phase.tag \in {"Converged", "NeedsReconcile", "Reconciling"}
  BY Holding
<1>2. ProtocolGap \in Reasons /\ NoPos \in Cursors /\ ProtocolGap # NoReason
  <2>1. ProtocolGap # NoReason
    BY DEF ProtocolGap, GapTo, NoReason
  <2> QED BY <2>1, Causes DEF Cursors
<1>3. CASE IsReconciling(rm)
  <2> DEFINE m == Coalesce(rm.phase.rerun, ProtocolGap)
             ph == [rm.phase EXCEPT !.rerun = m]
             r2 == [rm EXCEPT !.phase = ph]
  <2>1. e = Settled(r2)
    BY <1>3 DEF OnJunk, IsReconciling, IsConverged
  <2>2. rm.phase \in Scans /\ m \in Reasons /\ m # NoReason
    BY <1>2, <1>3, ScanFields, CoalesceIn, CoalesceSome
  <2> HIDE DEF m
  <2>3. /\ ph \in Phases /\ ph.rerun = m
        /\ ph.tag = rm.phase.tag /\ ph.buffer = rm.phase.buffer /\ ph.scan = rm.phase.scan
        /\ ph.replace_timeline = rm.phase.replace_timeline
    BY <2>2, Reruns
  <2> HIDE DEF ph, e
  <2>4. r2.phase = ph /\ r2.known = rm.known /\ r2.parked_buffer = rm.parked_buffer
    BY <2>3, Rephased
  <2> HIDE DEF r2
  <2>5. ~Unhurt(r2) /\ ~IsConverged(r2)
    BY <1>3, <2>2, <2>3, <2>4, Hurting DEF IsReconciling
  <2>6. IsReconciling(r2) /\ Viewed(r2) = Viewed(rm)
    BY <1>3, <2>3, <2>4 DEF IsReconciling, Viewed
  <2>7. Sound(r2, h)
    BY <1>3, <2>3, <2>4, <2>6 DEF Sound
  <2>8. e.room = r2 /\ e.issue = <<>>
    BY <2>1, Effects
  <2> QED BY <2>5, <2>7, <2>8 DEF Moot, Mute, e
<1>4. CASE rm.phase.tag = "NeedsReconcile"
  <2> DEFINE n == rm.pending_local_dropped + 1
             r2 == [rm EXCEPT !.pending_local_dropped = n, !.presence_refresh_pending = TRUE]
  <2>1. e = Settled(r2)
    BY <1>4 DEF OnJunk, IsReconciling, IsConverged
  <2> HIDE DEF n, e
  <2>3. r2.phase = rm.phase /\ r2.known = rm.known /\ r2.parked_buffer = rm.parked_buffer
    BY DEF Rooms
  <2> HIDE DEF r2
  <2>4. ~IsReconciling(r2) /\ ~IsConverged(r2) /\ ~Unhurt(r2)
    BY <1>4, <2>3 DEF IsReconciling, IsConverged, Unhurt
  <2>5. Sound(r2, h)
    BY <2>3, <2>4 DEF Sound
  <2>8. e.room = r2 /\ e.issue = <<>>
    BY <2>1, Effects
  <2> QED BY <2>4, <2>5, <2>8 DEF Moot, Mute, e
<1>5. CASE IsConverged(rm)
  <2>1. ~IsReconciling(rm)
    BY <1>5 DEF IsConverged, IsReconciling
  <2>2. e = Launch(rm, ProtocolGap, NoPos, ep, id)
    BY <1>5, <2>1 DEF OnJunk, IsConverged
  <2>3. Kept(rm, h)
    BY KeptOrSound
  <2> HIDE DEF e
  <2> QED BY <1>2, <2>2, <2>3, LaunchMoot DEF Moot, e
<1> QED BY <1>1, <1>3, <1>4, <1>5 DEF IsReconciling, IsConverged

-----------------------------------------------------------------------------
(* What a handler's effect leaves of what is claimed                       *)

\* The mailbox holds notices, with and without the transition in front.
LEMMA Mailbox ==
  ASSUME NEW m \in Nat, NEW b \in Boxes(m)
  PROVE  b.q \in Seq(Notices) /\ b.lost \in Nat /\ Rest(b.q) \in Seq(Notices)
<1>1. b.q \in Seq(NoticesTo(m)) /\ b.lost \in Nat
  BY DEF Boxes
<1>2. NoticesTo(m) \subseteq Notices
  BY DEF NoticesTo
<1> HIDE DEF NoticesTo
<1> DEFINE q == b.q
           T == Notices
<1>3. q \in Seq(T)
  <2> HIDE DEF T
  <2>1. \A i \in 1 .. Len(q) : q[i] \in NoticesTo(m)
    BY <1>1
  <2>2. \A i \in 1 .. Len(q) : q[i] \in T
    BY <1>2, <2>1 DEF T
  <2> QED BY <1>1, <2>2
<1> HIDE DEF T, q
<1>4. q # <<>> => Tail(q) \in Seq(T)
  BY <1>3
<1> QED BY <1>1, <1>3, <1>4 DEF Rest, T, q

\* A read just issued is the current one, and has no answer.
LEMMA JustIssued ==
  ASSUME RecInv', NEW e, NEW pending, Perform(e, pending), IsReconciling(e.room),
         e.issue = <<e.room.phase.outstanding>>
  PROVE  \A rd \in reads' : Current(rd)' => rd.reply.kind = "none"
<1> DEFINE new == [read_id |-> e.room.phase.read_id, epoch |-> e.room.phase.epoch,
                   req |-> e.issue[1], reply |-> NoReply]
<1>1. room' = e.room
  BY DEF Perform
<1>2. reads' = {rd \in pending : Current(rd)} \cup {new}
  BY DEF Perform
<1>3. room'.phase.tag = "Reconciling"
  BY <1>1 DEF IsReconciling
<1>4. Current(new)'
  BY <1>1, <1>3 DEF Current, IsTracked, IsReconciling
<1>5. new \in reads' /\ new.reply.kind = "none"
  BY <1>2 DEF NoReply
<1> HIDE DEF new
<1>6. OneIsCurrent'
  BY <1>5 DEF RecInv, ReadsApart
<1> QED BY <1>4, <1>5, <1>6 DEF OneIsCurrent

\* What is held, scanned and read stays truthful.
LEMMA ContentsAfter ==
  ASSUME Contents, UNCHANGED hist, NEW e, NEW pending, pending \subseteq reads, Perform(e, pending),
         Sound(e.room, hist), Legit(box'.q, hist)
  PROVE  Contents'
<1>1. room' = e.room
  BY DEF Perform
<1>2. \A rd \in reads' : rd \in reads \/ rd.reply.kind = "none"
  BY DEF Perform, NoReply
<1>3. \A rd \in reads' : Truthfully(rd, hist)
  BY <1>2 DEF Contents, Truthfully
<1> QED BY <1>1, <1>3 DEF Contents

\* What starts afresh, or does not publish what it reads, claims nothing.
LEMMA MootClaims ==
  ASSUME RecInv', NEW e, NEW pending, Perform(e, pending), NEW h, Moot(e, h)
  PROVE  Claims'
<1>1. room' = e.room
  BY DEF Perform
<1>2. CASE Mute(e)
  <2>1. ~IsConverged(room') /\ ~Unhurt(room')
    BY <1>1, <1>2 DEF Mute
  <2> QED BY <2>1 DEF Claims, Leads, LeadsBy
<1>3. CASE Afresh(e)
  <2>1. ~IsConverged(room') /\ room'.phase.outstanding.op # "Members"
    BY <1>1, <1>3 DEF Afresh, IsConverged, IsReconciling
  <2>2. \A rd \in reads' : Current(rd)' => rd.reply.kind = "none"
    BY <1>3, JustIssued DEF Afresh
  <2> QED BY <2>1, <2>2 DEF Claims, Leads
<1> QED BY <1>2, <1>3 DEF Moot

\* What follows a scan that leads, with the buffer and the mailbox, to the history leads there.
LEMMA FollowsClaims ==
  ASSUME RecInv', UNCHANGED hist, hist \in Seq(Nat), NEW e, NEW pending, Perform(e, pending),
         room \in Rooms, IsReconciling(room), NEW t \in Seq(Nat), Follows(e, room, t, hist),
         box'.q \in Seq(Notices), Rest(box'.q) \in Seq(Notices),
         Clean' /\ Unhurt(room) => Tracks(hist, t, room.phase.buffer.q \o Rest(box'.q))
  PROVE  Claims'
<1>1. room' = e.room
  BY DEF Perform
<1>2. CASE Asks(e, room, t)
  <2>1. IsReconciling(room') /\ ~IsConverged(room') /\ Viewed(room') = t
        /\ room'.phase.buffer = room.phase.buffer /\ room'.phase.rerun = room.phase.rerun
    BY <1>1, <1>2 DEF Asks, IsReconciling, IsConverged
  <2>2. Unhurt(room') => Unhurt(room)
    BY <2>1 DEF Unhurt
  <2>3. \A rd \in reads' : Current(rd)' => rd.reply.kind = "none"
    BY <1>2, JustIssued DEF Asks
  <2> QED BY <2>1, <2>2, <2>3 DEF Claims, Leads
<1>3. CASE Publishes(e, room, t)
  <2> DEFINE K == e.room.known
             B == room.phase.buffer.q
             R == Rest(box'.q)
  <2>1. IsConverged(room') /\ ~IsReconciling(room')
    BY <1>1, <1>3 DEF Publishes, IsReconciling, IsConverged
  <2>2. K \in Seq(Nat) /\ Distinct(K)
    BY DEF Follows, Sound, Histories
  <2>3. B \in Seq(Pushes)
    BY ScanFields DEF Buffers
  <2>4. Grows(t, B, K) /\ Unhurt(room)
    BY <1>3 DEF Publishes
  <2>5. Clean' => Tracks(hist, t, B \o R)
    BY <2>4
  <2> HIDE DEF K, B, R
  <2>6. Clean' => Tracks(hist, K, R)
    <3>1. R \in Seq(Notices)
      BY DEF R
    <3> QED BY <2>2, <2>3, <2>4, <2>5, <3>1, Lands
  <2>7. Clean' => Leads(room', hist', box'.q)
    BY <1>1, <2>1, <2>6 DEF Leads, Unhurt, K, R
  <2>8. \A rd : ~Current(rd)'
    BY <2>1 DEF Current
  <2> QED BY <2>7, <2>8 DEF Claims
<1> QED BY <1>2, <1>3 DEF Follows

-----------------------------------------------------------------------------
(* The view along a step: settled reads                                    *)

\* A step that leaves the link, the mailbox and the driver alone leaves their reports.
LEMMA ReportsStay ==
  ASSUME Reports, UNCHANGED <<run, box, state, link>>, IsTracked' => Running
  PROVE  Reports'
BY DEF Reports, Matches, Listening, Running

\* What the mailbox tells of a loss does not depend on the room.
LEMMA CleanStays ==
  ASSUME UNCHANGED <<box, state, link>>
  PROVE  Clean' <=> Clean
BY DEF Clean

\* A step that leaves the room alone leaves what is claimed of it.
LEMMA RoomStays ==
  ASSUME Contents, Claims, UNCHANGED <<hist, room>>, Legit(box'.q, hist),
         \A rd \in reads' : rd \in reads \/ rd.reply.kind # "page",
         Clean' => Clean /\ Rest(box'.q) = Rest(box.q)
  PROVE  Contents' /\ Claims'
<1>1. \A rd \in reads' : Truthfully(rd, hist)
  BY DEF Contents, Truthfully
<1>2. Contents'
  BY <1>1 DEF Contents, IsTracked
<1>3. \A rd : Current(rd)' <=> Current(rd)
  BY DEF Current, IsTracked
<1>4. IsTracked' <=> IsTracked
  BY DEF IsTracked
<1>5. ASSUME Clean', IsTracked'
      PROVE  /\ Leads(room', hist', box'.q)
             /\ \A rd \in reads' : Current(rd)' /\ rd.reply.kind = "page" /\ ~rd.reply.more =>
                  LeadsBy(room', rd.reply.ids, hist', box'.q)
  <2>1. Clean /\ IsTracked /\ Rest(box'.q) = Rest(box.q)
    BY <1>4, <1>5
  <2>2. Leads(room, hist, box.q)
    BY <2>1 DEF Claims
  <2>3. \A rd \in reads : Current(rd) /\ rd.reply.kind = "page" /\ ~rd.reply.more =>
           LeadsBy(room, rd.reply.ids, hist, box.q)
    BY <2>1 DEF Claims
  <2>4. Leads(room', hist', box'.q)
    BY <2>1, <2>2 DEF Leads
  <2>5. ASSUME NEW rd \in reads', Current(rd)', rd.reply.kind = "page", ~rd.reply.more
        PROVE  LeadsBy(room', rd.reply.ids, hist', box'.q)
    BY <1>3, <2>1, <2>3, <2>5 DEF LeadsBy
  <2> QED BY <2>4, <2>5
<1>6. Claims'
  BY <1>5 DEF Claims
<1> QED BY <1>2, <1>6

\* What the invariant says of a room that is tracked.
LEMMA Watching ==
  ASSUME ViewInv, IsTracked
  PROVE  /\ room \in Rooms /\ Sound(room, hist) /\ Kept(room, hist)
         /\ Continues(room) /\ Within(room, Len(hist))
         /\ hist \in Seq(Nat) /\ Len(hist) >= 1 /\ Distinct(hist)
         /\ epoch \in Nat /\ FreshId \in 0 .. 2
         /\ box.q \in Seq(Notices) /\ Rest(box.q) \in Seq(Notices)
<1>1. RecInv /\ Contents
  BY DEF ViewInv
<1>2. room \in Rooms /\ Continues(room) /\ Within(room, Len(hist)) /\ epoch \in Nat
  BY <1>1, Tracking
<1>3. Sound(room, hist) /\ Distinct(hist)
  BY <1>1 DEF Contents
<1>4. FreshId \in 0 .. 2
  BY <1>1, FreshIdIn DEF RecInv, Types
<1>5. hist \in Seq(Nat) /\ Len(hist) >= 1 /\ box \in Boxes(Len(hist)) /\ Len(hist) \in Nat
  BY <1>1 DEF RecInv, Types
<1>6. box.q \in Seq(Notices) /\ Rest(box.q) \in Seq(Notices)
  BY <1>5, Mailbox
<1> QED BY <1>2, <1>3, <1>4, <1>5, <1>6, KeptOrSound

\* An answer starts over, hurts what is read, or takes what leads to the history.
LEMMA AnswerViews ==
  ASSUME ViewInv, NEW rd \in reads, Current(rd), rd.reply # NoReply
  PROVE  LET e == OnReadReply(room, rd.reply, epoch, FreshId)
         IN  \/ Moot(e, hist)
             \/ \E t \in Seq(Nat) :
                  /\ Follows(e, room, t, hist)
                  /\ Clean /\ Unhurt(room) => Tracks(hist, t, room.phase.buffer.q \o Rest(box.q))
<1> DEFINE e == OnReadReply(room, rd.reply, epoch, FreshId)
           reply == rd.reply
<1>1. IsTracked /\ IsReconciling(room)
  BY DEF Current
<1>2. /\ room \in Rooms /\ Sound(room, hist) /\ Kept(room, hist) /\ Continues(room)
      /\ hist \in Seq(Nat) /\ Len(hist) >= 1 /\ epoch \in Nat /\ FreshId \in 0 .. 2
  BY <1>1, Watching
<1>3. RecInv /\ Contents /\ Claims
  BY DEF ViewInv
<1>4. rd.req = room.phase.outstanding
  BY <1>3 DEF RecInv, ReadsApart, OneIsCurrent
<1>5. rd \in Reads /\ Answered(rd) /\ Truthfully(rd, hist)
  BY <1>3 DEF RecInv, Types, Contents
<1>6. reply \in Replies /\ reply # NoReply
  BY <1>5 DEF Reads
<1>7. /\ reply.kind \in {"error", "malformed", "redirect", "page", "members"}
      /\ reply.kind = "redirect" => reply.from \in Nat
      /\ reply.kind = "page" => reply.ids \in Seq(Nat) /\ reply.more \in BOOLEAN
      /\ reply.kind = "members" => reply.ids \in SUBSET Nat
  <2> HIDE DEF reply
  <2> QED BY <1>6 DEF Replies, Error, NoReply
<1>8. Viewed(room) \in Seq(Nat)
  BY <1>1, <1>2, ViewReaches
<1> HIDE DEF reply
<1>9. CASE reply.kind = "error"
  <2>1. e = Fail(room, TRUE, epoch, FreshId)
    BY <1>9 DEF OnReadReply, reply
  <2> HIDE DEF e
  <2>2. Moot(e, hist)
    BY <1>1, <1>2, <2>1, FailMoot
  <2> QED BY <2>2 DEF e
<1>10. CASE reply.kind = "malformed"
  <2>1. e = StructuralRetry(room, epoch, FreshId)
    BY <1>10 DEF OnReadReply, reply
  <2> HIDE DEF e
  <2>2. Moot(e, hist)
    BY <1>1, <1>2, <2>1, StructuralMoot
  <2> QED BY <2>2 DEF e
<1>11. CASE reply.kind = "redirect"
  <2>1. e = BoundedRestart(room, reply.from, epoch, FreshId)
    BY <1>11 DEF OnReadReply, reply
  <2> HIDE DEF e
  <2>2. Moot(e, hist)
    BY <1>1, <1>2, <1>7, <1>11, <2>1, BoundedMoot
  <2> QED BY <2>2 DEF e
<1>12. CASE reply.kind = "page"
  <2> DEFINE ids == reply.ids
             t == Viewed(room) \o ids
  <2>1. e = TakePage(room, reply, epoch, FreshId)
    BY <1>12 DEF OnReadReply, reply
  <2>2. rd.req.op # "Members"
    BY <1>5, <1>12 DEF Answered, reply
  <2>3. Distinct(ids) /\ \A i \in 1 .. Len(ids) : Beyond(hist, First(room.phase.outstanding) + i - 1, ids[i])
    BY <1>4, <1>5, <1>12 DEF Truthfully, reply
  <2>4. ids \in Seq(Nat) /\ reply.more \in BOOLEAN
    BY <1>7, <1>12
  <2>5. t \in Seq(Nat)
    BY <1>8, <2>4, ConcatProperties
  <2>9. room.phase.outstanding.op # "Members"
    BY <1>4, <2>2
  <2> HIDE DEF ids
  <2>6. Moot(e, hist) \/ (~reply.more /\ PageValid(room, ids) /\ Follows(e, room, t, hist))
    <3> HIDE DEF e, t
    <3>1. reply.ids = ids /\ reply.more = reply.more
      BY DEF ids
    <3>2. ASSUME NEW f, f = TakePage(room, reply, epoch, FreshId)
          PROVE  Moot(f, hist) \/ (~reply.more /\ PageValid(room, ids) /\ Follows(f, room, Viewed(room) \o ids, hist))
      BY <1>1, <1>2, <2>3, <2>4, <2>9, <3>1, <3>2, PageMoot
    <3> QED BY <2>1, <3>2 DEF t
  <2>7. ~reply.more /\ PageValid(room, ids) /\ Clean /\ Unhurt(room) =>
          Tracks(hist, t, room.phase.buffer.q \o Rest(box.q))
    <3>1. ~reply.more /\ Clean => LeadsBy(room, ids, hist, box.q)
      BY <1>1, <1>3, <1>12 DEF Claims, ids, reply
    <3> QED BY <3>1 DEF LeadsBy
  <2> HIDE DEF t, e
  <2> QED BY <2>5, <2>6, <2>7 DEF e
<1>13. CASE reply.kind = "members"
  <2> DEFINE ids == reply.ids
             t == Viewed(room)
  <2>1. e = Advance([room EXCEPT !.phase.members = <<ids>>], epoch, FreshId)
    BY <1>13 DEF OnReadReply, reply
  <2>2. rd.req.op = "Members"
    BY <1>5, <1>13 DEF Answered, reply
  <2>3. ids \in SUBSET Nat
    BY <1>7, <1>13
  <2> HIDE DEF ids
  <2>4. Moot(e, hist) \/ Follows(e, room, t, hist)
    <3> HIDE DEF e, t
    <3>1. ASSUME NEW f, f = Advance([room EXCEPT !.phase.members = <<ids>>], epoch, FreshId)
          PROVE  Moot(f, hist) \/ Follows(f, room, Viewed(room), hist)
      BY <1>1, <1>2, <2>3, <3>1, MembersMoot
    <3> QED BY <2>1, <3>1 DEF t
  <2>5. Clean /\ Unhurt(room) => Tracks(hist, t, room.phase.buffer.q \o Rest(box.q))
    BY <1>1, <1>3, <1>4, <2>2 DEF Claims, Leads
  <2> HIDE DEF t, e
  <2> QED BY <1>8, <2>4, <2>5 DEF e, t
<1> QED BY <1>7, <1>9, <1>10, <1>11, <1>12, <1>13

\* A read settles: superseded, parked with the link down, or answered.
LEMMA ReadSettlesViews ==
  ASSUME ViewInv, RecInv', NEW rd \in reads, ReadSettles(rd)
  PROVE  Contents' /\ Reports' /\ Claims'
<1>1. RecInv /\ Contents /\ Reports /\ Claims
  BY DEF ViewInv
<1>2. Running /\ UNCHANGED <<hist, link, box, run, state, epoch>>
  BY DEF ReadSettles, envVars, coreVars
<1>3. Reports'
  BY <1>1, <1>2, ReportsStay
<1>4. Clean' <=> Clean
  BY <1>2, CleanStays
<1>5. Legit(box'.q, hist)
  BY <1>1, <1>2 DEF Contents
<1>6. CASE ~Current(rd)
  <2>1. room' = room /\ reads' \subseteq reads
    BY <1>6 DEF ReadSettles
  <2> QED BY <1>1, <1>2, <1>3, <1>4, <1>5, <2>1, RoomStays
<1>7. CASE Current(rd)
  <2>1. IsTracked /\ IsReconciling(room) /\ rd.reply # NoReply
    BY <1>7 DEF Current, ReadSettles
  <2>2. /\ room \in Rooms /\ Kept(room, hist) /\ hist \in Seq(Nat)
        /\ box.q \in Seq(Notices) /\ Rest(box.q) \in Seq(Notices)
    BY <2>1, Watching
  <2>3. CASE state # "Ready"
    <3> DEFINE e == Settled(ParkOutstanding(room))
    <3>1. Perform(e, reads \ {rd})
      BY <1>7, <2>3 DEF ReadSettles
    <3>2. Moot(e, hist)
      BY <2>1, <2>2, ParkMoot
    <3> HIDE DEF e
    <3>3. Claims'
      BY <3>1, <3>2, MootClaims
    <3>4. Contents'
      BY <1>1, <1>2, <1>5, <3>1, <3>2, ContentsAfter DEF Moot
    <3> QED BY <1>3, <3>3, <3>4
  <2>4. CASE state = "Ready"
    <3> DEFINE e == OnReadReply(room, rd.reply, epoch, FreshId)
    <3>1. Perform(e, reads \ {rd})
      BY <1>7, <2>4 DEF ReadSettles
    <3>2. \/ Moot(e, hist)
          \/ \E t \in Seq(Nat) :
               /\ Follows(e, room, t, hist)
               /\ Clean /\ Unhurt(room) => Tracks(hist, t, room.phase.buffer.q \o Rest(box.q))
      BY <1>7, <2>1, AnswerViews
    <3> HIDE DEF e
    <3>3. Sound(e.room, hist)
      BY <3>2 DEF Moot, Follows
    <3>4. Contents'
      BY <1>1, <1>2, <1>5, <3>1, <3>3, ContentsAfter
    <3>5. CASE Moot(e, hist)
      BY <1>3, <3>1, <3>4, <3>5, MootClaims
    <3>6. ASSUME NEW t \in Seq(Nat), Follows(e, room, t, hist),
                 Clean /\ Unhurt(room) => Tracks(hist, t, room.phase.buffer.q \o Rest(box.q))
          PROVE  Claims'
      <4>1. box' = box
        BY <1>2
      <4> QED BY <1>2, <1>4, <2>1, <2>2, <3>1, <3>6, <4>1, FollowsClaims
    <3> QED BY <1>3, <3>2, <3>4, <3>5, <3>6
  <2> QED BY <2>3, <2>4
<1> QED BY <1>6, <1>7

-----------------------------------------------------------------------------
(* The view along a step: the driver and the adapter                       *)

\* A room that is not tracked holds and claims nothing.
LEMMA UntrackedViews ==
  ASSUME Contents, UNCHANGED hist, ~IsTracked', Legit(box'.q, hist),
         \A rd \in reads' : rd \in reads \/ rd.reply.kind # "page"
  PROVE  Contents' /\ Claims'
<1>1. \A rd \in reads' : Truthfully(rd, hist)
  BY DEF Contents, Truthfully
<1> QED BY <1>1 DEF Contents, Claims

\* A handler that starts over, or hurts what is read, leaves no claim.
LEMMA MootViews ==
  ASSUME Contents, RecInv', UNCHANGED hist, NEW e, NEW pending, pending \subseteq reads,
         Perform(e, pending), Moot(e, hist), Legit(box'.q, hist)
  PROVE  Contents' /\ Claims'
<1>1. Sound(e.room, hist)
  BY DEF Moot
<1> QED BY <1>1, ContentsAfter, MootClaims

\* So does a launch, ...
LEMMA RelaunchViews ==
  ASSUME ViewInv, RecInv', UNCHANGED hist, NEW reason \in Reasons, NEW at \in Nat,
         IsTracked, Relaunch(reason, at), Legit(box'.q, hist)
  PROVE  Contents' /\ Claims'
<1> DEFINE e == Launch(room, reason, NoPos, at, FreshId)
<1>1. Perform(e, reads)
  BY DEF Relaunch
<1>2. /\ room \in Rooms /\ Kept(room, hist) /\ hist \in Seq(Nat) /\ Len(hist) >= 1
      /\ FreshId \in 0 .. 2 /\ NoPos \in Cursors
  BY Watching DEF Cursors
<1>3. Moot(e, hist)
  <2> HIDE DEF e
  <2>1. ASSUME NEW f, f = Launch(room, reason, NoPos, at, FreshId)
        PROVE  Sound(f.room, hist) /\ Afresh(f)
    BY <1>2, <2>1, LaunchMoot
  <2> QED BY <2>1 DEF Moot, e
<1> HIDE DEF e
<1> QED BY <1>1, <1>3, MootViews DEF ViewInv

\* ... and a cause that is merged into a launch or into the one in flight.
LEMMA TriggerViews ==
  ASSUME ViewInv, RecInv', UNCHANGED hist, NEW reason \in Reasons, reason # NoReason,
         NEW from \in Cursors, IsTracked, OnTrigger(reason, from), Legit(box'.q, hist)
  PROVE  Contents' /\ Claims'
<1> DEFINE e == Trigger(room, reason, from, epoch, FreshId)
<1>1. Perform(e, reads)
  BY DEF OnTrigger
<1>2. /\ room \in Rooms /\ Sound(room, hist) /\ hist \in Seq(Nat) /\ Len(hist) >= 1
      /\ epoch \in Nat /\ FreshId \in 0 .. 2
  BY Watching
<1>3. Moot(e, hist)
  BY <1>2, TriggerMoot
<1> HIDE DEF e
<1> QED BY <1>1, <1>3, MootViews DEF ViewInv

\* The subscription starts with an empty mailbox.
LEMMA SubscribeViews ==
  ASSUME ViewInv, RecInv', Subscribe
  PROVE  Contents' /\ Reports' /\ Claims'
<1>1. RecInv /\ Contents /\ Reports /\ Claims
  BY DEF ViewInv
<1>2. UNCHANGED <<hist, link, box, state, room, reads>> /\ run = "new" /\ run' = "subscribed"
  BY DEF Subscribe, envVars
<1>3. Clean' <=> Clean
  BY <1>2, CleanStays
<1>4. Contents' /\ Claims'
  BY <1>1, <1>2, <1>3, RoomStays DEF Contents
<1>5. box = EmptyBox /\ ~IsTracked
  BY <1>1, <1>2 DEF Reports, Running
<1>6. box'.q = <<>> /\ link \in Links
  BY <1>1, <1>2, <1>5 DEF EmptyBox, RecInv, Types, Links
<1>7. Path(box'.q, link, link) /\ Flaps(box'.q)
  BY <1>6, MailEmpty DEF Mail
<1>8. Matches'
  BY <1>2, <1>5, <1>6, <1>7 DEF Matches, Running
<1>9. ~IsTracked'
  BY <1>2, <1>5 DEF IsTracked
<1> QED BY <1>2, <1>4, <1>7, <1>8, <1>9 DEF Reports

\* The snapshot is taken behind the subscription: what the mailbox tells may be in it.
LEMMA StartViews ==
  ASSUME ViewInv, RecInv', Start
  PROVE  Contents' /\ Reports' /\ Claims'
<1>1. RecInv /\ Contents /\ Reports /\ Claims
  BY DEF ViewInv
<1>2. UNCHANGED <<hist, link, box>> /\ run = "subscribed" /\ run' = "running"
      /\ OnLifecycle(FALSE, link, link, FALSE)
  BY DEF Start, envVars
<1>3. ~IsTracked
  BY <1>1, <1>2 DEF Reports, Running
<1>4. room' = room /\ reads' = reads /\ state' = link
  BY <1>2, <1>3 DEF OnLifecycle, Relaunch, Ignore
<1>5. ~IsTracked'
  BY <1>3, <1>4 DEF IsTracked
<1>6. Legit(box'.q, hist)
  BY <1>1, <1>2 DEF Contents
<1>7. Contents' /\ Claims'
  BY <1>1, <1>2, <1>4, <1>5, <1>6, UntrackedViews
<1>8. link \in Links /\ box \in Boxes(Len(hist)) /\ Len(hist) \in Nat
  BY <1>1 DEF RecInv, Types, Links
<1>9. box.q \in Seq(Notices)
  BY <1>8, Mailbox
<1>10. Flaps(box.q) /\ Matches
  BY <1>1, <1>2 DEF Reports, Listening
<1>11. PICK a \in Links : Path(box.q, a, link) /\ (a = "Ready" \/ box = EmptyBox \/ ComesUp(box.q))
  BY <1>2, <1>10 DEF Matches
<1>12. a = link \/ Tells(box.q)
  BY <1>9, <1>11, MailSteady
<1>13. box = EmptyBox => ~Tells(box.q)
  BY DEF EmptyBox, Tells
<1>14. \/ a = link
       \/ link = "Ready" /\ ComesUp(box.q)
       \/ link = "Down" /\ Tells(box.q)
  BY <1>8, <1>11, <1>12, <1>13 DEF Links
<1>15. Matches'
  BY <1>2, <1>4, <1>11, <1>14 DEF Matches
<1>16. Flaps(box'.q)
  BY <1>2, <1>10
<1> QED BY <1>2, <1>5, <1>7, <1>15, <1>16 DEF Reports, Running

\* An activation launches, parks, or leaves the room alone.
LEMMA ActivateViews ==
  ASSUME ViewInv, RecInv', NEW anchor \in Anchors, Activate(anchor)
  PROVE  Contents' /\ Reports' /\ Claims'
<1>1. RecInv /\ Contents /\ Reports /\ Claims
  BY DEF ViewInv
<1>2. UNCHANGED <<hist, link, box, run, state, epoch>> /\ Running
  BY DEF Activate, coreVars
<1>3. Reports'
  BY <1>1, <1>2, ReportsStay
<1>4. Clean' <=> Clean
  BY <1>2, CleanStays
<1>5. Legit(box'.q, hist)
  BY <1>1, <1>2 DEF Contents
<1>6. anchor \in Nat /\ hist \in Seq(Nat) /\ Len(hist) >= 1 /\ epoch \in Nat /\ FreshId \in 0 .. 2
  BY <1>1, FreshIdIn, ReconcilerAssumption DEF RecInv, Types
<1>7. Bootstrap \in Reasons /\ NoPos \in Cursors
  BY Causes DEF Cursors
<1>8. CASE ~IsTracked
  <2> DEFINE n == NewRoom(anchor)
  <2>1. n \in Rooms /\ n.phase = Parked(Bootstrap) /\ ~IsReconciling(n)
    BY <1>6, NewRoomIn
  <2>2. n.known = <<>> /\ n.parked_buffer.q = <<>>
    BY DEF NewRoom, EmptyBuffer
  <2>3. <<>> \in Histories(hist) /\ <<>> \in Seq(Commits(hist))
    BY DEF Histories, Distinct
  <2> HIDE DEF n
  <2>4. Kept(n, hist)
    BY <2>1, <2>2, <2>3 DEF Kept
  <2>5. CASE state = "Ready"
    <3> DEFINE e == Launch(n, Bootstrap, NoPos, epoch, FreshId)
    <3>1. Perform(e, reads)
      BY <1>8, <2>5 DEF Activate, n
    <3>2. Moot(e, hist)
      <4> HIDE DEF e
      <4>1. ASSUME NEW f, f = Launch(n, Bootstrap, NoPos, epoch, FreshId)
            PROVE  Sound(f.room, hist) /\ Afresh(f)
        BY <1>6, <1>7, <2>1, <2>4, <4>1, LaunchMoot
      <4> QED BY <4>1 DEF Moot, e
    <3> HIDE DEF e
    <3> QED BY <1>1, <1>2, <1>3, <1>5, <3>1, <3>2, MootViews
  <2>6. CASE state # "Ready"
    <3> DEFINE e == Settled(n)
    <3>1. Perform(e, reads)
      BY <1>8, <2>6 DEF Activate, n
    <3>2. Moot(e, hist)
      BY <2>1, <2>4, ParkedMoot
    <3> HIDE DEF e
    <3> QED BY <1>1, <1>2, <1>3, <1>5, <3>1, <3>2, MootViews
  <2> QED BY <2>5, <2>6
<1>9. CASE IsTracked
  <2> DEFINE m == [room EXCEPT !.bootstrap_anchor = anchor, !.pending_bootstrap = TRUE]
  <2>1. room \in Rooms /\ Sound(room, hist) /\ Kept(room, hist)
    BY <1>9, Watching
  <2>2. m \in Rooms /\ Kin(m, room) /\ m.known = room.known
    BY <1>6, <2>1, Marking
  <2>3. \/ Ignore
        \/ state = "Ready" /\ Perform(Launch(m, Bootstrap, NoPos, epoch, FreshId), reads)
        \/ state # "Ready" /\ Perform(Settled(m), reads)
    BY <1>9 DEF Activate
  <2> HIDE DEF m
  <2>4. Kept(m, hist) /\ Sound(m, hist)
    BY <2>1, <2>2 DEF Kept, Sound, Kin, Viewed, IsReconciling
  <2>5. CASE Ignore
    BY <1>1, <1>2, <1>3, <1>4, <1>5, <2>5, RoomStays DEF Ignore
  <2>6. CASE state = "Ready" /\ Perform(Launch(m, Bootstrap, NoPos, epoch, FreshId), reads)
    <3> DEFINE e == Launch(m, Bootstrap, NoPos, epoch, FreshId)
    <3>1. Moot(e, hist)
      <4> HIDE DEF e
      <4>1. ASSUME NEW f, f = Launch(m, Bootstrap, NoPos, epoch, FreshId)
            PROVE  Sound(f.room, hist) /\ Afresh(f)
        BY <1>6, <1>7, <2>2, <2>4, <4>1, LaunchMoot
      <4> QED BY <4>1 DEF Moot, e
    <3>2. Perform(e, reads)
      BY <2>6
    <3> HIDE DEF e
    <3> QED BY <1>1, <1>2, <1>3, <1>5, <3>1, <3>2, MootViews
  <2>7. CASE state # "Ready" /\ Perform(Settled(m), reads)
    <3> DEFINE e == Settled(m)
    <3>1. Sound(e.room, hist)
      BY <2>4, Effects
    <3>2. Perform(e, reads)
      BY <2>7
    <3> HIDE DEF e
    <3>3. Contents'
      BY <1>1, <1>2, <1>5, <3>1, <3>2, ContentsAfter
    <3>4. ~Clean'
      BY <1>2, <2>7 DEF Clean
    <3> QED BY <1>3, <3>3, <3>4 DEF Claims
  <2> QED BY <2>3, <2>5, <2>6, <2>7
<1> QED BY <1>8, <1>9

\* A room is closed.
LEMMA DeactivateViews ==
  ASSUME ViewInv, RecInv', Deactivate
  PROVE  Contents' /\ Reports' /\ Claims'
<1>1. RecInv /\ Contents /\ Reports /\ Claims
  BY DEF ViewInv
<1>2. UNCHANGED <<hist, link, box, run, state>> /\ Running /\ room' = Untracked /\ reads' \subseteq reads
  BY DEF Deactivate, Forgotten, coreVars
<1>3. ~IsTracked'
  BY <1>2 DEF IsTracked, Untracked
<1>4. Reports'
  BY <1>1, <1>2, ReportsStay
<1>5. Legit(box'.q, hist)
  BY <1>1, <1>2 DEF Contents
<1>6. Contents' /\ Claims'
  BY <1>1, <1>2, <1>3, <1>5, UntrackedViews
<1> QED BY <1>4, <1>6

\* The driver stops, and drops its subscription.
LEMMA StopViews ==
  ASSUME ViewInv, RecInv', Stop
  PROVE  Contents' /\ Reports' /\ Claims'
<1>1. Contents
  BY DEF ViewInv
<1>2. hist' = hist /\ box' = EmptyBox /\ run' = "stopped" /\ room' = Untracked /\ reads' = {}
  BY DEF Stop, Forgotten
<1>3. ~IsTracked'
  BY <1>2 DEF IsTracked, Untracked
<1>4. Legit(box'.q, hist)
  BY <1>2 DEF Legit, EmptyBox
<1>5. Contents' /\ Claims'
  BY <1>1, <1>2, <1>3, <1>4, UntrackedViews
<1> QED BY <1>2, <1>3, <1>5 DEF Reports, Listening

\* A resume launches.
LEMMA ResumeViews ==
  ASSUME ViewInv, RecInv', Resume
  PROVE  Contents' /\ Reports' /\ Claims'
<1>1. RecInv /\ Contents /\ Reports /\ Claims
  BY DEF ViewInv
<1>2. UNCHANGED <<hist, link, box, run, state>> /\ Running /\ Relaunch(Reconnect, epoch + 1)
  BY DEF Resume
<1>3. Reports'
  BY <1>1, <1>2, ReportsStay
<1>4. Legit(box'.q, hist)
  BY <1>1, <1>2 DEF Contents
<1>5. epoch + 1 \in Nat /\ Reconnect \in Reasons
  BY <1>1, Causes DEF RecInv, Types
<1>6. CASE IsTracked
  BY <1>2, <1>3, <1>4, <1>5, <1>6, RelaunchViews
<1>7. CASE ~IsTracked
  <2>1. room' = room /\ reads' = reads
    BY <1>2, <1>7 DEF Relaunch, Ignore
  <2>2. ~IsTracked'
    BY <1>7, <2>1 DEF IsTracked
  <2> QED BY <1>1, <1>2, <1>3, <1>4, <2>1, <2>2, UntrackedViews
<1> QED BY <1>6, <1>7

\* A push that cannot be decoded is a gap.
LEMMA DecodeFailedViews ==
  ASSUME ViewInv, RecInv', DecodeFailed
  PROVE  Contents' /\ Reports' /\ Claims'
<1>1. RecInv /\ Contents /\ Reports /\ Claims
  BY DEF ViewInv
<1>2. UNCHANGED <<hist, link, box, run, state>> /\ Running /\ IsTracked /\ OnTrigger(ProtocolGap, NoPos)
  BY DEF DecodeFailed, coreVars
<1>3. Reports'
  BY <1>1, <1>2, ReportsStay
<1>4. Legit(box'.q, hist)
  BY <1>1, <1>2 DEF Contents
<1>5. ProtocolGap \in Reasons /\ ProtocolGap # NoReason /\ NoPos \in Cursors
  BY Causes DEF Cursors, ProtocolGap, GapTo, NoReason
<1> QED BY <1>2, <1>3, <1>4, <1>5, TriggerViews

-----------------------------------------------------------------------------
(* The view along a step: pushes                                           *)

\* Queues of notices may be joined in any order.
LEMMA NoticesJoin ==
  ASSUME NEW T, NEW a \in Seq(T), NEW b \in Seq(T), NEW c \in Seq(T)
  PROVE  /\ a \o (b \o c) = (a \o b) \o c /\ a \o b \in Seq(T) /\ Len(a \o b) = Len(a) + Len(b)
         /\ \A i \in 1 .. Len(a) : (a \o b)[i] = a[i]
         /\ \A i \in 1 .. Len(b) : (a \o b)[Len(a) + i] = b[i]
BY ConcatAssociative, ConcatProperties

\* What is told behind a transition in front, or behind nothing.
LEMMA RestGrows ==
  ASSUME NEW q \in Seq(Notices), NEW X \in Seq(Notices), \A i \in 1 .. Len(X) : X[i].type # "state"
  PROVE  Rest(q \o X) = Rest(q) \o X /\ (q # <<>> => q \o X # <<>> /\ (q \o X)[1] = q[1])
<1> DEFINE T == Notices
<1>1. q \in Seq(T) /\ X \in Seq(T)
  OBVIOUS
<1> HIDE DEF T
<1>2. CASE q = <<>>
  <2>1. q \o X = X /\ Rest(q) \o X = X
    BY <1>1, <1>2 DEF Rest
  <2>2. Rest(X) = X
    BY <1>1 DEF Rest
  <2> QED BY <1>2, <2>1, <2>2
<1>3. CASE q # <<>>
  <2>1. q \o X # <<>> /\ (q \o X)[1] = q[1]
    BY <1>1, <1>3, ConcatProperties
  <2>2. Tail(q \o X) = Tail(q) \o X
    <3> DEFINE l == q[1]
               t == Tail(q)
    <3>1. l \in T /\ t \in Seq(T) /\ q = <<l>> \o t
      BY <1>1, <1>3
    <3> HIDE DEF l, t
    <3>2. <<l>> \in Seq(T)
      BY <3>1
    <3>3. q \o X = <<l>> \o (t \o X) /\ t \o X \in Seq(T)
      BY <1>1, <3>1, <3>2, NoticesJoin
    <3>4. Tail(<<l>> \o (t \o X)) = t \o X
      <4> DEFINE y == t \o X
      <4>1. y \in Seq(T)
        BY <3>3
      <4> HIDE DEF y
      <4>2. Tail(<<l>> \o y) = y
        BY <3>1, <4>1
      <4> QED BY <4>2 DEF y
    <3> QED BY <3>3, <3>4 DEF t
  <2> QED BY <1>3, <2>1, <2>2 DEF Rest
<1> QED BY <1>2, <1>3

\* A mailbox that tells of no loss behind what is in front tells of none.
LEMMA Unmarked ==
  ASSUME NEW q \in Seq(Notices), \A i \in 1 .. Len(Rest(q)) : Rest(q)[i].type \notin {"state", "lagged"},
         q # <<>> => q[1].type # "lagged"
  PROVE  \A i \in 1 .. Len(q) : q[i].type # "lagged" /\ (i # 1 => q[i].type # "state")
<1> SUFFICES ASSUME NEW i \in 1 .. Len(q) PROVE q[i].type # "lagged" /\ (i # 1 => q[i].type # "state")
  OBVIOUS
<1>1. CASE q[1].type = "state"
  <2>1. q # <<>> /\ Rest(q) = Tail(q)
    BY <1>1 DEF Rest
  <2>2. CASE i = 1
    BY <1>1, <2>2
  <2>3. CASE i # 1
    <3> DEFINE t == Tail(q)
    <3>1. i - 1 \in 1 .. Len(t) /\ t[i - 1] = q[i]
      <4>1. Len(t) = Len(q) - 1 /\ \A j \in 1 .. Len(t) : t[j] = q[j + 1]
        BY <2>1
      <4> HIDE DEF t
      <4>2. Len(q) \in Nat
        OBVIOUS
      <4> QED BY <2>3, <4>1, <4>2
    <3> QED BY <2>1, <3>1
  <2> QED BY <2>2, <2>3
<1>2. CASE q[1].type # "state"
  <2>1. Rest(q) = q
    BY <1>2 DEF Rest
  <2> QED BY <1>2, <2>1
<1> QED BY <1>1, <1>2

\* A notice is delivered: it is the last of the mailbox, or the loss is marked.
LEMMA Delivered ==
  ASSUME NEW m \in Nat, NEW b \in Boxes(m), NEW x \in NoticesTo(m), x.type # "state",
         NEW a, NEW z, NEW h, Mail(b.q, a, z, h), x.type = "event" => x \in Commits(h)
  PROVE  LET c == Broadcast(b, x)
         IN  /\ c \in Boxes(m) /\ Mail(c.q, a, z, h)
             /\ (Tells(b.q) => Tells(c.q)) /\ (ComesUp(b.q) => ComesUp(c.q))
             /\ (b.lost = 0 /\ c.q = Append(b.q, x)) \/ Marked(c)
<1> DEFINE c == Broadcast(b, x)
<1>1. c \in Boxes(m)
  BY BroadcastIn
<1>2. /\ Mail(c.q, a, z, h) /\ (Tells(b.q) => Tells(c.q)) /\ (ComesUp(b.q) => ComesUp(c.q))
      /\ (b.lost = 0 /\ c.q = Append(b.q, x)) \/ Marked(c)
  <2>1. ASSUME NEW d, d = Broadcast(b, x)
        PROVE  /\ Mail(d.q, a, IF x.type = "state" THEN x.to ELSE z, h)
               /\ (Tells(b.q) \/ x.type = "state" => Tells(d.q)) /\ (ComesUp(b.q) => ComesUp(d.q))
               /\ (b.lost = 0 /\ d.q = Append(b.q, x)) \/ Marked(d)
    <3> DEFINE y == IF x.type = "state" THEN x.to ELSE z
    <3>1. x.type = "state" => x.from = z /\ x.from # x.to
      OBVIOUS
    <3>2. Mail(d.q, a, y, h)
      BY <2>1, <3>1, Broadcasting
    <3>3. /\ Tells(b.q) \/ x.type = "state" => Tells(d.q)
          /\ ComesUp(b.q) => ComesUp(d.q)
      BY <2>1, <3>1, Broadcasting
    <3>4. (b.lost = 0 /\ d.q = Append(b.q, x)) \/ Marked(d)
      BY <2>1, <3>1, Broadcasting
    <3> QED BY <3>2, <3>3, <3>4
  <2> HIDE DEF c
  <2> QED BY <2>1 DEF c
<1> HIDE DEF c
<1> QED BY <1>1, <1>2 DEF c

\* What the mailbox reports is kept by a step that adds to it.
LEMMA ReportsPushed ==
  ASSUME Reports, UNCHANGED <<run, state, room>>, NEW h, Legit(box.q, h),
         ~Listening => box' = box,
         \A a \in Links : Listening /\ Mail(box.q, a, link, h) =>
           /\ Mail(box'.q, a, link', h)
           /\ Tells(box.q) => Tells(box'.q)
           /\ ComesUp(box.q) => ComesUp(box'.q)
           /\ box = EmptyBox => a = "Ready" \/ box' = EmptyBox \/ ComesUp(box'.q)
  PROVE  Reports' /\ Legit(box'.q, h)
<1>1. IsTracked' => Running'
  BY DEF Reports, IsTracked, Running
<1>2. run' \in {"new", "subscribed", "running", "stopped"} /\ (run' = "new" => box' = EmptyBox)
  BY DEF Reports, Listening
<1>3. Listening' <=> Listening
  BY DEF Listening
<1>4. CASE Listening
  <2>1. Flaps(box.q) /\ Matches
    BY <1>4 DEF Reports
  <2>2. PICK a \in Links :
          /\ Path(box.q, a, link)
          /\ run = "subscribed" => a = "Ready" \/ box = EmptyBox \/ ComesUp(box.q)
          /\ Running => \/ a = state
                        \/ state = "Ready" /\ ComesUp(box.q)
                        \/ state = "Down" /\ Tells(box.q)
    BY <2>1 DEF Matches
  <2>3. Mail(box.q, a, link, h)
    BY <2>1, <2>2 DEF Mail
  <2>4. /\ Mail(box'.q, a, link', h)
        /\ Tells(box.q) => Tells(box'.q)
        /\ ComesUp(box.q) => ComesUp(box'.q)
        /\ box = EmptyBox => a = "Ready" \/ box' = EmptyBox \/ ComesUp(box'.q)
    BY <1>4, <2>3
  <2>5. Path(box'.q, a, link') /\ Flaps(box'.q) /\ Legit(box'.q, h)
    BY <2>4 DEF Mail
  <2>6. run' = "subscribed" => a = "Ready" \/ box' = EmptyBox \/ ComesUp(box'.q)
    BY <2>2, <2>4
  <2>7. Running' => \/ a = state'
                    \/ state' = "Ready" /\ ComesUp(box'.q)
                    \/ state' = "Down" /\ Tells(box'.q)
    BY <2>2, <2>4 DEF Running
  <2>8. Matches'
    BY <2>5, <2>6, <2>7 DEF Matches
  <2> QED BY <1>1, <1>2, <2>5, <2>8 DEF Reports
<1>5. CASE ~Listening
  BY <1>1, <1>2, <1>3, <1>5 DEF Reports
<1> QED BY <1>4, <1>5

\* What was read or pushed of a history is found in a later one.
LEMMA ContentsMoved ==
  ASSUME RecInv, Contents, hist' \in Seq(Nat), Moves(hist, hist'), Distinct(hist'),
         \A i \in 1 .. Len(hist') : hist'[i] < Len(hist'),
         UNCHANGED <<room, reads>>, Legit(box'.q, hist')
  PROVE  Contents'
<1>1. hist \in Seq(Nat)
  BY DEF RecInv, Types
<1>2. /\ Histories(hist) \subseteq Histories(hist') /\ Commits(hist) \subseteq Commits(hist')
      /\ \A p \in Nat : \A id : Beyond(hist, p, id) => Beyond(hist', p, id)
  BY <1>1, Moved
<1>3. ASSUME NEW q \in Seq(Commits(hist)) PROVE q \in Seq(Commits(hist'))
  <2> DEFINE S == Commits(hist)
             T == Commits(hist')
  <2>1. S \subseteq T /\ q \in Seq(S)
    BY <1>2
  <2> HIDE DEF S, T
  <2>2. q \in Seq(T)
    BY <2>1
  <2> QED BY <2>2 DEF T
<1>4. IsTracked' => Sound(room', hist')
  <2>1. IsTracked' => Sound(room, hist)
    BY DEF Contents, IsTracked
  <2> QED BY <1>2, <1>3, <2>1 DEF Sound
<1>5. \A rd \in reads' : Truthfully(rd, hist')
  <2> SUFFICES ASSUME NEW rd \in reads, rd.reply.kind = "page"
               PROVE  /\ Distinct(rd.reply.ids)
                      /\ \A i \in 1 .. Len(rd.reply.ids) :
                           Beyond(hist', First(rd.req) + i - 1, rd.reply.ids[i])
    BY DEF Truthfully
  <2>1. Distinct(rd.reply.ids)
        /\ \A i \in 1 .. Len(rd.reply.ids) : Beyond(hist, First(rd.req) + i - 1, rd.reply.ids[i])
    BY DEF Contents, Truthfully
  <2>2. First(rd.req) \in Nat
    BY DEF RecInv, Types, Reads, Requests, First
  <2>3. ASSUME NEW i \in 1 .. Len(rd.reply.ids)
        PROVE  Beyond(hist', First(rd.req) + i - 1, rd.reply.ids[i])
    <3>1. First(rd.req) + i - 1 \in Nat
      BY <2>2
    <3> QED BY <1>2, <2>1, <3>1
  <2> QED BY <2>1, <2>3
<1> QED BY <1>4, <1>5 DEF Contents

\* Pushes that continue the history, at the end of the mailbox, keep what is claimed.
LEMMA ClaimsPushed ==
  ASSUME ViewInv, UNCHANGED <<link, state, room, reads>>, NEW X \in Seq(Notices),
         \A t \in Seq(Nat) : \A L \in Seq(Notices) : Tracks(hist, t, L) => Tracks(hist', t, L \o X),
         \A i \in 1 .. Len(X) : X[i].type # "state",
         Clean' /\ IsTracked => box.lost = 0 /\ box'.q = box.q \o X
  PROVE  Claims'
<1> SUFFICES ASSUME Clean', IsTracked'
             PROVE  /\ Leads(room', hist', box'.q)
                    /\ \A rd \in reads' : Current(rd)' /\ rd.reply.kind = "page" /\ ~rd.reply.more =>
                         LeadsBy(room', rd.reply.ids, hist', box'.q)
  BY DEF Claims
<1> DEFINE R == Rest(box.q)
           B == room.phase.buffer.q
<1>1. IsTracked
  BY DEF IsTracked
<1>2. room \in Rooms /\ box.q \in Seq(Notices) /\ R \in Seq(Notices) /\ Sound(room, hist)
  BY <1>1, Watching
<1>3. box.lost = 0 /\ box'.q = box.q \o X
  BY <1>1
<1>4. Rest(box'.q) = R \o X /\ (box.q # <<>> => box'.q # <<>> /\ box'.q[1] = box.q[1])
  BY <1>2, <1>3, RestGrows
<1>5. \A i \in 1 .. Len(R) : R[i].type \notin {"state", "lagged"}
  <2>1. \A i \in 1 .. Len(R \o X) : (R \o X)[i].type \notin {"state", "lagged"}
    BY <1>4 DEF Clean
  <2> HIDE DEF R
  <2>2. Len(R \o X) = Len(R) + Len(X) /\ \A i \in 1 .. Len(R) : (R \o X)[i] = R[i]
    BY <1>2, NoticesJoin
  <2>3. Len(R) \in Nat /\ Len(X) \in Nat
    BY <1>2
  <2> QED BY <2>1, <2>2, <2>3
<1>6. Clean
  BY <1>3, <1>4, <1>5 DEF Clean
<1>7. Claims
  BY DEF ViewInv
<1> HIDE DEF R, B
<1>8. room.known \in Seq(Nat)
  BY <1>2, RoomFields
<1>9. ASSUME NEW t \in Seq(Nat), IsReconciling(room), Tracks(hist, t, B \o R)
      PROVE  Tracks(hist', t, B \o Rest(box'.q))
  <2>1. B \in Seq(Pushes)
    BY <1>2, <1>9, ScanFields DEF B
  <2>2. B \in Seq(Notices)
    <3> DEFINE T == Notices
               S == Pushes
    <3>1. S \subseteq T /\ B \in Seq(S)
      BY <2>1 DEF Notices
    <3> HIDE DEF S, T
    <3>2. B \in Seq(T)
      BY <3>1
    <3> QED BY <3>2 DEF T
  <2>3. B \o R \in Seq(Notices) /\ B \o (R \o X) = (B \o R) \o X
    BY <1>2, <2>2, NoticesJoin
  <2>4. Tracks(hist', t, (B \o R) \o X)
    BY <1>9, <2>3
  <2> QED BY <1>4, <2>3, <2>4
<1>10. Leads(room, hist, box.q)
  BY <1>1, <1>6, <1>7 DEF Claims
<1>11. Leads(room', hist', box'.q)
  <2>1. IsConverged(room) => Tracks(hist', room.known, Rest(box'.q))
    BY <1>2, <1>4, <1>8, <1>10 DEF Leads, R
  <2>2. Unhurt(room) /\ room.phase.outstanding.op = "Members" =>
          Tracks(hist', Viewed(room), B \o Rest(box'.q))
    <3>1. Unhurt(room) => IsReconciling(room)
      BY DEF Unhurt
    <3>2. IsReconciling(room) => Viewed(room) \in Seq(Nat)
      BY <1>2, ViewReaches
    <3> QED BY <1>9, <1>10, <3>1, <3>2 DEF Leads, R, B
  <2> QED BY <2>1, <2>2 DEF Leads, B
<1>12. ASSUME NEW rd \in reads', Current(rd)', rd.reply.kind = "page", ~rd.reply.more
       PROVE  LeadsBy(room', rd.reply.ids, hist', box'.q)
  <2> DEFINE ids == rd.reply.ids
  <2>1. rd \in reads /\ Current(rd)
    BY <1>1, <1>12 DEF Current
  <2>2. LeadsBy(room, ids, hist, box.q)
    BY <1>1, <1>6, <1>7, <1>12, <2>1 DEF Claims
  <2>3. ids \in Seq(Nat)
    <3>1. rd.reply \in Replies
      BY <2>1 DEF ViewInv, RecInv, Types, Reads
    <3> QED BY <1>12, <3>1 DEF Replies, NoReply, Error
  <2> HIDE DEF ids
  <2>4. ASSUME Unhurt(room), PageValid(room, ids)
        PROVE  Tracks(hist', Viewed(room) \o ids, B \o Rest(box'.q))
    <3>1. IsReconciling(room)
      BY <2>4 DEF Unhurt
    <3>2. Viewed(room) \in Seq(Nat)
      BY <1>2, <3>1, ViewReaches
    <3>3. Viewed(room) \o ids \in Seq(Nat)
      BY <2>3, <3>2, ConcatProperties
    <3>4. Tracks(hist, Viewed(room) \o ids, B \o R)
      BY <2>2, <2>4 DEF LeadsBy, B, R
    <3> HIDE DEF B
    <3> QED BY <1>9, <3>1, <3>3, <3>4
  <2> QED BY <2>4 DEF LeadsBy, B, ids
<1> QED BY <1>11, <1>12

\* A mailbox that tells of no loss is not marked.
LEMMA NotMarked ==
  ASSUME RecInv', Clean'
  PROVE  ~Marked(box')
<1>1. Len(hist') \in Nat /\ box' \in Boxes(Len(hist'))
  BY DEF RecInv, Types
<1>2. box'.q \in Seq(Notices)
  BY <1>1, Mailbox
<1>3. box'.lost = 0 /\ \A i \in 1 .. Len(box'.q) : box'.q[i].type # "lagged"
  BY <1>2, Unmarked DEF Clean
<1> QED BY <1>3 DEF Marked

\* The mailbox leads from some state of the link to the present one.
LEMMA MailFrom ==
  ASSUME Reports, Listening, NEW h, Legit(box.q, h)
  PROVE  \E a \in Links : Mail(box.q, a, link, h)
<1>1. Matches /\ Flaps(box.q)
  BY DEF Reports
<1> QED BY <1>1 DEF Matches, Mail

\* A push of what continues the history, told to who listens.
LEMMA PushedViews ==
  ASSUME ViewInv, RecInv', UNCHANGED <<link, run, state, room, reads>>,
         hist' \in Seq(Nat), Moves(hist, hist'), Distinct(hist'),
         \A i \in 1 .. Len(hist') : hist'[i] < Len(hist'),
         NEW X \in Seq(Notices), \A i \in 1 .. Len(X) : X[i].type # "state",
         \A t \in Seq(Nat) : \A L \in Seq(Notices) : Tracks(hist, t, L) => Tracks(hist', t, L \o X),
         NEW c, box' = IF link = "Ready" /\ Listening THEN c ELSE box,
         \A a \in Links : Mail(box.q, a, link, hist') =>
           /\ Mail(c.q, a, link, hist')
           /\ (Tells(box.q) => Tells(c.q)) /\ (ComesUp(box.q) => ComesUp(c.q))
           /\ (box.lost = 0 /\ c.q = box.q \o X) \/ Marked(c)
  PROVE  Contents' /\ Reports' /\ Claims'
<1>1. RecInv /\ Contents /\ Reports /\ Claims
  BY DEF ViewInv
<1>2. hist \in Seq(Nat) /\ box \in Boxes(Len(hist)) /\ Len(hist) \in Nat /\ link \in Links
  BY <1>1 DEF RecInv, Types, Links
<1>3. Legit(box.q, hist')
  <2>1. Commits(hist) \subseteq Commits(hist')
    BY <1>2, Moved
  <2> QED BY <1>1, <2>1 DEF Contents, Legit
<1>4. ASSUME NEW a \in Links, Listening, Mail(box.q, a, link, hist')
      PROVE  /\ Mail(box'.q, a, link', hist')
             /\ Tells(box.q) => Tells(box'.q)
             /\ ComesUp(box.q) => ComesUp(box'.q)
             /\ box = EmptyBox => a = "Ready" \/ box' = EmptyBox \/ ComesUp(box'.q)
  <2>1. CASE link # "Ready"
    BY <1>4, <2>1
  <2>2. CASE link = "Ready"
    <3>1. box' = c
      BY <1>4, <2>2
    <3>2. box = EmptyBox => a = "Ready"
      <4>1. box.q \in Seq(Notices) /\ Path(box.q, a, "Ready")
        BY <1>2, <1>4, <2>2, Mailbox DEF Mail
      <4>2. box = EmptyBox => ~Tells(box.q)
        BY DEF EmptyBox, Tells
      <4> QED BY <4>1, <4>2, MailSteady
    <3> QED BY <1>4, <3>1, <3>2
  <2> QED BY <2>1, <2>2
<1>5. Reports' /\ Legit(box'.q, hist')
  <2>1. ~Listening => box' = box
    OBVIOUS
  <2> QED BY <1>1, <1>3, <1>4, <2>1, ReportsPushed
<1>6. Contents'
  BY <1>1, <1>5, ContentsMoved
<1>7. Clean' /\ IsTracked => box.lost = 0 /\ box'.q = box.q \o X
  <2> SUFFICES ASSUME Clean', IsTracked PROVE box.lost = 0 /\ box'.q = box.q \o X
    OBVIOUS
  <2>1. link = "Ready" /\ Listening
    BY <1>1 DEF Clean, Reports, Listening, Running
  <2>2. box' = c
    BY <2>1
  <2>3. \E a \in Links : Mail(box.q, a, link, hist')
    BY <1>1, <1>3, <2>1, MailFrom
  <2>4. ~Marked(c)
    BY <2>2, NotMarked
  <2> QED BY <2>2, <2>3, <2>4
<1>8. Claims'
  BY <1>7, ClaimsPushed
<1> QED BY <1>5, <1>6, <1>8

\* An event at the end of the history continues what leads to it.
LEMMA CommitViews ==
  ASSUME ViewInv, RecInv', Commit
  PROVE  Contents' /\ Reports' /\ Claims'
<1> DEFINE h == Len(hist)
           x == Push(h, h)
           X == <<x>>
           c == Broadcast(box, x)
<1>1. RecInv /\ Contents
  BY DEF ViewInv
<1>2. /\ hist' = Append(hist, h) /\ box' = IF link = "Ready" THEN Heard(x) ELSE box
      /\ UNCHANGED <<link, run, state, room, reads>>
  BY DEF Commit, coreVars
<1>3. hist \in Seq(Nat) /\ h \in Nat /\ box \in Boxes(h) /\ Distinct(hist) /\ \A i \in 1 .. h : hist[i] < h
  BY <1>1 DEF RecInv, Types, Contents
<1>4. hist' \in Seq(Nat) /\ Len(hist') = h + 1 /\ hist'[h + 1] = h /\ \A i \in 1 .. h : hist'[i] = hist[i]
  BY <1>2, <1>3
<1>5. Moves(hist, hist') /\ Distinct(hist') /\ \A i \in 1 .. Len(hist') : hist'[i] < Len(hist')
  BY <1>2, <1>3, CommitMoves, StaysDistinct
<1>6. x.type = "event" /\ x.pos = h /\ x.id = h /\ x \in Pushes
  BY <1>3 DEF Push, Pushes
<1>7. x \in NoticesTo(h + 1) /\ box \in Boxes(h + 1)
  BY <1>3, PushIn, BoxGrows
<1> HIDE DEF x
<1>8. x \in Notices /\ x \in Commits(hist')
  <2>1. x \in Notices
    BY <1>6 DEF Notices
  <2>2. h + 1 \in h + 1 .. Len(hist')
    BY <1>3, <1>4
  <2>3. Beyond(hist', h, h)
    BY <1>4, <2>2 DEF Beyond
  <2> QED BY <1>6, <2>1, <2>3 DEF Commits
<1>9. X \in Seq(Notices) /\ \A i \in 1 .. Len(X) : X[i].type # "state"
  BY <1>6, <1>8
<1>10. ASSUME NEW t \in Seq(Nat), NEW L \in Seq(Notices), Tracks(hist, t, L)
       PROVE  Tracks(hist', t, L \o X)
  <2>1. PICK k \in 0 .. Len(L) : TracksFrom(hist, t, L, k)
    BY <1>10 DEF Tracks
  <2>2. L \o X = Append(L, x)
    BY <1>8, <1>10
  <2> HIDE DEF X
  <2>3. /\ Len(hist) <= Len(hist')
        /\ \A p \in 0 .. Len(hist) - 1 : hist'[p + 1] = hist[p + 1] \/ (x.type = "gap" /\ x.from <= p)
        /\ x.pos = Len(hist) /\ Len(hist') = Len(hist) + 1 /\ hist'[Len(hist) + 1] = x.id
    BY <1>3, <1>4, <1>6
  <2>4. k \in 0 .. Len(Append(L, x)) /\ TracksFrom(hist', t, Append(L, x), k)
    BY <1>3, <1>4, <1>8, <1>10, <2>1, <2>3, TracksMore
  <2> QED BY <2>2, <2>4 DEF Tracks
<1>11. box' = IF link = "Ready" /\ Listening THEN c ELSE box
  BY <1>2 DEF Heard
<1>12. ASSUME NEW a \in Links, Mail(box.q, a, link, hist')
       PROVE  /\ Mail(c.q, a, link, hist')
              /\ (Tells(box.q) => Tells(c.q)) /\ (ComesUp(box.q) => ComesUp(c.q))
              /\ (box.lost = 0 /\ c.q = box.q \o X) \/ Marked(c)
  <2>1. Append(box.q, x) = box.q \o X
    <3>1. box.q \in Seq(Notices)
      BY <1>3, Mailbox
    <3> QED BY <1>8, <3>1
  <2>2. h + 1 \in Nat /\ x.type # "state"
    BY <1>3, <1>6
  <2> HIDE DEF X
  <2>3. /\ Mail(c.q, a, link, hist')
        /\ (Tells(box.q) => Tells(c.q)) /\ (ComesUp(box.q) => ComesUp(c.q))
        /\ (box.lost = 0 /\ c.q = Append(box.q, x)) \/ Marked(c)
    BY <1>7, <1>8, <1>12, <2>2, Delivered
  <2> QED BY <2>1, <2>3
<1> HIDE DEF X, c
<1> QED BY <1>2, <1>4, <1>5, <1>9, <1>10, <1>11, <1>12, PushedViews

\* A junk push tells nothing of the history.
LEMMA JunkPushViews ==
  ASSUME ViewInv, RecInv', JunkPush
  PROVE  Contents' /\ Reports' /\ Claims'
<1> DEFINE h == Len(hist)
           x == [type |-> "junk"]
           X == <<x>>
           c == Broadcast(box, x)
<1>1. RecInv /\ Contents
  BY DEF ViewInv
<1>2. link = "Ready" /\ Listening /\ box' = Heard(x) /\ UNCHANGED <<hist, link, run, state, room, reads>>
  BY DEF JunkPush, coreVars
<1>3. hist \in Seq(Nat) /\ h \in Nat /\ box \in Boxes(h) /\ Distinct(hist) /\ \A i \in 1 .. h : hist[i] < h
  BY <1>1 DEF RecInv, Types, Contents
<1>5. Moves(hist, hist')
  <2> SUFFICES ASSUME NEW i \in 1 .. Len(hist) PROVE \E j \in i .. Len(hist') : hist'[j] = hist[i]
    BY DEF Moves
  <2>1. i \in i .. Len(hist')
    BY <1>2, <1>3
  <2> QED BY <1>2, <2>1
<1>6. x.type = "junk" /\ x \in NoticesTo(h) /\ x \in Notices
  BY DEF NoticesTo, Notices
<1> HIDE DEF x
<1>9. X \in Seq(Notices) /\ \A i \in 1 .. Len(X) : X[i].type # "state"
  BY <1>6
<1>10. ASSUME NEW t \in Seq(Nat), NEW L \in Seq(Notices), Tracks(hist, t, L)
       PROVE  Tracks(hist', t, L \o X)
  <2>1. PICK k \in 0 .. Len(L) : TracksFrom(hist, t, L, k)
    BY <1>10 DEF Tracks
  <2>2. L \o X = Append(L, x)
    BY <1>6, <1>10
  <2> HIDE DEF X
  <2>4. k \in 0 .. Len(Append(L, x)) /\ TracksFrom(hist, t, Append(L, x), k)
    BY <1>3, <1>6, <1>10, <2>1, TracksMore
  <2> QED BY <1>2, <2>2, <2>4 DEF Tracks
<1>11. box' = IF link = "Ready" /\ Listening THEN c ELSE box
  BY <1>2 DEF Heard
<1>12. ASSUME NEW a \in Links, Mail(box.q, a, link, hist')
       PROVE  /\ Mail(c.q, a, link, hist')
              /\ (Tells(box.q) => Tells(c.q)) /\ (ComesUp(box.q) => ComesUp(c.q))
              /\ (box.lost = 0 /\ c.q = box.q \o X) \/ Marked(c)
  <2>1. Append(box.q, x) = box.q \o X
    <3>1. box.q \in Seq(Notices)
      BY <1>3, Mailbox
    <3> QED BY <1>6, <3>1
  <2> HIDE DEF X
  <2>3. /\ Mail(c.q, a, link, hist')
        /\ (Tells(box.q) => Tells(c.q)) /\ (ComesUp(box.q) => ComesUp(c.q))
        /\ (box.lost = 0 /\ c.q = Append(box.q, x)) \/ Marked(c)
    BY <1>3, <1>6, <1>12, Delivered
  <2> QED BY <2>1, <2>3
<1> HIDE DEF X, c
<1> QED BY <1>2, <1>3, <1>5, <1>9, <1>10, <1>11, <1>12, PushedViews

\* A late sibling: the gap in front of it tells where the history moved.
LEMMA InsertViews ==
  ASSUME ViewInv, RecInv', NEW r \in 1 .. MaxEvents, Insert(r)
  PROVE  Contents' /\ Reports' /\ Claims'
<1> DEFINE h == Len(hist)
           g == [type |-> "gap", from |-> r]
           x == Push(r, h)
           X == <<g, x>>
           d == Broadcast(box, g)
           c == Broadcast(d, x)
<1>1. RecInv /\ Contents
  BY DEF ViewInv
<1>2. /\ r \in 1 .. h - 1 /\ hist' = Inserted(hist, r, h)
      /\ box' = IF link = "Ready" /\ Listening THEN c ELSE box
      /\ UNCHANGED <<link, run, state, room, reads>>
  BY DEF Insert, Inserted, coreVars
<1>3. hist \in Seq(Nat) /\ h \in Nat /\ box \in Boxes(h) /\ Distinct(hist) /\ \A i \in 1 .. h : hist[i] < h
  BY <1>1 DEF RecInv, Types, Contents
<1>4. /\ hist' \in Seq(Nat) /\ Len(hist') = h + 1 /\ hist'[r + 1] = h
      /\ \A i \in 1 .. r : hist'[i] = hist[i]
  <2> DEFINE T == Nat
             n == Len(hist)
             q == hist
  <2>1. q \in Seq(T) /\ n \in T /\ r \in 0 .. Len(q)
    BY <1>2, <1>3
  <2> HIDE DEF T, n, q
  <2>2. /\ Inserted(q, r, n) \in Seq(T) /\ Len(Inserted(q, r, n)) = Len(q) + 1
        /\ \A i \in 1 .. r : Inserted(q, r, n)[i] = q[i]
        /\ Inserted(q, r, n)[r + 1] = n
    BY <2>1, InsertShape
  <2> QED BY <1>2, <2>2 DEF T, n, q
<1>5. Moves(hist, hist') /\ Distinct(hist') /\ \A i \in 1 .. Len(hist') : hist'[i] < Len(hist')
  <2>1. Moves(hist, hist')
    BY <1>2, <1>3, InsertMoves
  <2> QED BY <1>2, <1>3, <2>1, StaysDistinct
<1>6. x.type = "event" /\ x.pos = r /\ x.id = h /\ x \in Pushes /\ g.type = "gap" /\ g.from = r /\ r \in Nat
  BY <1>2, <1>3 DEF Push, Pushes
<1>7. x \in NoticesTo(h + 1) /\ g \in NoticesTo(h + 1) /\ box \in Boxes(h + 1) /\ h + 1 \in Nat
  <2>1. g \in NoticesTo(h + 1)
    BY <1>2, <1>3 DEF NoticesTo, Notices
  <2>2. r < h + 1
    BY <1>2, <1>3
  <2> QED BY <1>3, <1>6, <2>1, <2>2, PushIn, BoxGrows
<1> HIDE DEF x, g
<1>8. x \in Notices /\ g \in Notices /\ x \in Commits(hist')
  <2>1. x \in Notices /\ g \in Notices
    BY <1>7 DEF NoticesTo
  <2>2. r + 1 \in r + 1 .. Len(hist')
    BY <1>2, <1>3, <1>4
  <2>3. Beyond(hist', r, h)
    BY <1>4, <2>2 DEF Beyond
  <2> QED BY <1>6, <2>1, <2>3 DEF Commits
<1>9. X \in Seq(Notices) /\ \A i \in 1 .. Len(X) : X[i].type # "state"
  BY <1>6, <1>8
<1>13. ASSUME NEW q \in Seq(Notices)
       PROVE  Append(Append(q, g), x) = q \o X /\ Append(q, g) \in Seq(Notices)
  BY <1>8, <1>13
<1> HIDE DEF X
<1>10. ASSUME NEW t \in Seq(Nat), NEW L \in Seq(Notices), Tracks(hist, t, L)
       PROVE  Tracks(hist', t, L \o X)
  <2> DEFINE L1 == Append(L, g)
  <2>1. PICK k \in 0 .. Len(L) : TracksFrom(hist, t, L, k)
    BY <1>10 DEF Tracks
  <2>2. L \o X = Append(L1, x) /\ L1 \in Seq(Notices)
    BY <1>10, <1>13
  <2>3. /\ Len(hist) <= Len(hist') /\ g.type # "event"
        /\ \A p \in 0 .. Len(hist) - 1 : hist'[p + 1] = hist[p + 1] \/ (g.type = "gap" /\ g.from <= p)
    <3>1. ASSUME NEW p \in 0 .. Len(hist) - 1, ~(r <= p)
          PROVE  hist'[p + 1] = hist[p + 1]
      <4>1. p + 1 \in 1 .. r
        BY <1>6, <3>1
      <4> QED BY <1>4, <4>1
    <3> QED BY <1>3, <1>4, <1>6, <3>1
  <2>4. k \in 0 .. Len(L1) /\ TracksFrom(hist', t, L1, k)
    BY <1>3, <1>4, <1>8, <1>10, <2>1, <2>3, TracksMore
  <2>5. ~Plain(L1, k, Len(L1))
    <3>1. Len(L1) \in k + 1 .. Len(L1) /\ L1[Len(L1)] = g
      <4>1. Len(L1) = Len(L) + 1 /\ L1[Len(L) + 1] = g /\ Len(L) \in Nat
        BY <1>8, <1>10
      <4> HIDE DEF L1
      <4> QED BY <2>1, <4>1
    <3> QED BY <2>3, <3>1 DEF Plain
  <2> HIDE DEF L1
  <2>6. \A p \in 0 .. Len(hist') - 1 : hist'[p + 1] = hist'[p + 1] \/ (x.type = "gap" /\ x.from <= p)
    OBVIOUS
  <2>7. Len(hist') <= Len(hist')
    BY <1>4, <1>3
  <2>8. k \in 0 .. Len(Append(L1, x)) /\ TracksFrom(hist', t, Append(L1, x), k)
    BY <1>4, <1>8, <2>2, <2>4, <2>5, <2>6, <2>7, TracksMore
  <2> QED BY <2>2, <2>8 DEF Tracks
<1>12. ASSUME NEW a \in Links, Mail(box.q, a, link, hist')
       PROVE  /\ Mail(c.q, a, link, hist')
              /\ (Tells(box.q) => Tells(c.q)) /\ (ComesUp(box.q) => ComesUp(c.q))
              /\ (box.lost = 0 /\ c.q = box.q \o X) \/ Marked(c)
  <2>1. box.q \in Seq(Notices) /\ Append(Append(box.q, g), x) = box.q \o X
    BY <1>3, <1>13, Mailbox
  <2>2. x.type # "state" /\ g.type # "state" /\ (g.type = "event" => g \in Commits(hist'))
    BY <1>6
  <2>3. /\ d \in Boxes(h + 1) /\ Mail(d.q, a, link, hist')
        /\ (Tells(box.q) => Tells(d.q)) /\ (ComesUp(box.q) => ComesUp(d.q))
        /\ (box.lost = 0 /\ d.q = Append(box.q, g)) \/ Marked(d)
    BY <1>7, <1>12, <2>2, Delivered
  <2> HIDE DEF d
  <2>4. /\ Mail(c.q, a, link, hist')
        /\ (Tells(d.q) => Tells(c.q)) /\ (ComesUp(d.q) => ComesUp(c.q))
        /\ (d.lost = 0 /\ c.q = Append(d.q, x)) \/ Marked(c)
    BY <1>7, <1>8, <2>2, <2>3, Delivered
  <2> HIDE DEF c
  <2>5. Marked(d) /\ ~Marked(c) => FALSE
    <3> SUFFICES ASSUME Marked(d), ~Marked(c) PROVE FALSE
      OBVIOUS
    <3>1. d.lost = 0 /\ c.q = Append(d.q, x)
      BY <2>4
    <3>2. PICK i \in 1 .. Len(d.q) : d.q[i].type = "lagged"
      BY <3>1 DEF Marked
    <3>3. d.q \in Seq(Notices)
      BY <1>7, <2>3, Mailbox
    <3>4. i \in 1 .. Len(c.q) /\ c.q[i] = d.q[i]
      <4> DEFINE q == d.q
      <4>1. q \in Seq(Notices) /\ i \in 1 .. Len(q)
        BY <3>2, <3>3
      <4> HIDE DEF q
      <4>2. i \in 1 .. Len(Append(q, x)) /\ Append(q, x)[i] = q[i]
        BY <1>8, <4>1
      <4> QED BY <3>1, <4>2 DEF q
    <3> QED BY <3>2, <3>4 DEF Marked
  <2> QED BY <2>1, <2>3, <2>4, <2>5
<1> HIDE DEF c, d
<1> QED BY <1>2, <1>4, <1>5, <1>9, <1>10, <1>12, PushedViews

\* The link comes up: who has yet to read of it is not clean.
LEMMA LinkUpViews ==
  ASSUME ViewInv, RecInv', LinkUp
  PROVE  Contents' /\ Reports' /\ Claims'
<1> DEFINE ev == Transition("Down", "Ready")
           c == Broadcast(box, ev)
           m == Len(hist)
<1>1. RecInv /\ Contents /\ Reports
  BY DEF ViewInv
<1>2. /\ link = "Down" /\ link' = "Ready" /\ box' = IF Listening THEN c ELSE box
      /\ UNCHANGED <<hist, run, state, room, reads>>
  BY DEF LinkUp, Heard, coreVars
<1>3. hist \in Seq(Nat) /\ m \in Nat /\ box \in Boxes(m)
  BY <1>1 DEF RecInv, Types
<1>4. ev.type = "state" /\ ev.from = "Down" /\ ev.to = "Ready" /\ ~ev.problem
  BY DEF Transition
<1>5. ev \in NoticesTo(m)
  BY <1>3, TransitionIn
<1> HIDE DEF ev
<1>6. ASSUME NEW a, Mail(box.q, a, "Down", hist)
      PROVE  /\ Mail(c.q, a, "Ready", hist) /\ Tells(c.q) /\ (ComesUp(box.q) => ComesUp(c.q))
             /\ Len(c.q) >= 1 /\ c.q[Len(c.q)].type = "state"
             /\ Len(c.q) > 1 \/ (box.q = <<>> /\ c.q = <<ev>>)
  <2>1. (ev.type = "event" => ev \in Commits(hist)) /\ (ev.type = "state" => ev.from = "Down" /\ ev.from # ev.to)
    BY <1>4
  <2>2. Mail(c.q, a, IF ev.type = "state" THEN ev.to ELSE "Down", hist)
    BY <1>3, <1>5, <1>6, <2>1, Broadcasting
  <2>3. Tells(c.q) /\ (ComesUp(box.q) => ComesUp(c.q))
    BY <1>3, <1>4, <1>5, <1>6, <2>1, Broadcasting
  <2>4. /\ Len(c.q) >= 1 /\ c.q[Len(c.q)].type = "state"
        /\ Len(c.q) > 1 \/ (box.q = <<>> /\ c.q = <<ev>>)
    BY <1>3, <1>4, <1>5, <1>6, <2>1, Broadcasting
  <2> HIDE DEF c
  <2> QED BY <1>4, <2>2, <2>3, <2>4
<1>7. box = EmptyBox => ComesUp(c.q)
  <2> SUFFICES ASSUME box = EmptyBox PROVE ComesUp(c.q)
    OBVIOUS
  <2>1. box.q = <<>> /\ box.lost = 0 /\ ~Full(box)
    BY BoxCapAssumption DEF EmptyBox, Full
  <2>2. c = [box EXCEPT !.q = Append(@, ev)]
    BY <1>4, <2>1 DEF Broadcast, Coalesces, Flushed
  <2>3. c.q = <<ev>>
    BY <2>1, <2>2 DEF EmptyBox
  <2> HIDE DEF c
  <2> QED BY <1>4, <2>3 DEF ComesUp
<1> HIDE DEF c
<1>8. Legit(box.q, hist)
  BY <1>1 DEF Contents
<1>9. Reports' /\ Legit(box'.q, hist)
  <2>1. \A a \in Links : Listening /\ Mail(box.q, a, link, hist) =>
           /\ Mail(box'.q, a, link', hist)
           /\ Tells(box.q) => Tells(box'.q)
           /\ ComesUp(box.q) => ComesUp(box'.q)
           /\ box = EmptyBox => a = "Ready" \/ box' = EmptyBox \/ ComesUp(box'.q)
    BY <1>2, <1>6, <1>7
  <2>2. ~Listening => box' = box
    BY <1>2
  <2> QED BY <1>1, <1>2, <1>8, <2>1, <2>2, ReportsPushed
<1>10. Contents'
  BY <1>1, <1>2, <1>9 DEF Contents, IsTracked
<1>11. ~(Clean' /\ IsTracked')
  <2> SUFFICES ASSUME Clean', IsTracked' PROVE FALSE
    OBVIOUS
  <2>1. Running /\ Listening /\ state = "Ready"
    BY <1>1, <1>2 DEF IsTracked, Reports, Listening, Running, Clean
  <2>2. Flaps(box.q) /\ Matches
    BY <1>1, <2>1 DEF Reports
  <2>3. PICK a \in Links : Path(box.q, a, link) /\ (a = "Ready" \/ ComesUp(box.q))
    BY <2>1, <2>2 DEF Matches
  <2>4. Mail(box.q, a, "Down", hist)
    BY <1>2, <1>8, <2>2, <2>3 DEF Mail
  <2>5. /\ box' = c /\ Len(c.q) >= 1 /\ c.q[Len(c.q)].type = "state"
        /\ Len(c.q) > 1 \/ (box.q = <<>> /\ c.q = <<ev>>)
    BY <1>2, <1>6, <2>1, <2>4
  <2>6. c.q \in Seq(Notices)
    <3>1. c \in Boxes(m)
      BY <1>3, <1>5, BroadcastIn DEF c
    <3> QED BY <1>3, <3>1, Mailbox
  <2>7. \A i \in 1 .. Len(c.q) : i # 1 => c.q[i].type # "state"
    BY <2>5, <2>6, Unmarked DEF Clean
  <2>8. Len(c.q) \in 1 .. Len(c.q)
    BY <2>5, <2>6
  <2>9. box.q = <<>>
    BY <2>5, <2>7, <2>8
  <2>10. a = "Ready" /\ a = "Down"
    <3>1. ~ComesUp(box.q) /\ ~Tells(box.q)
      BY <2>9 DEF ComesUp, Tells
    <3>2. box.q \in Seq(Notices)
      BY <1>3, Mailbox
    <3> QED BY <1>2, <2>3, <3>1, <3>2, MailSteady
  <2> QED BY <2>10
<1> QED BY <1>9, <1>10, <1>11 DEF Claims

\* The link goes down: nothing is claimed until it is up again.
LEMMA LinkDownViews ==
  ASSUME ViewInv, RecInv', LinkDown
  PROVE  Contents' /\ Reports' /\ Claims'
<1> DEFINE ev == Transition("Ready", "Down")
           c == Broadcast(box, ev)
           m == Len(hist)
<1>1. RecInv /\ Contents /\ Reports
  BY DEF ViewInv
<1>2. /\ link = "Ready" /\ link' = "Down" /\ box' = IF Listening THEN c ELSE box
      /\ UNCHANGED <<hist, run, state, room>>
      /\ reads' = {IF rd.reply = NoReply THEN [rd EXCEPT !.reply = Error] ELSE rd : rd \in reads}
  BY DEF LinkDown, Heard, coreVars
<1>3. hist \in Seq(Nat) /\ m \in Nat /\ box \in Boxes(m)
  BY <1>1 DEF RecInv, Types
<1>4. ev.type = "state" /\ ev.from = "Ready" /\ ev.to = "Down" /\ ~ev.problem
  BY DEF Transition
<1>5. ev \in NoticesTo(m)
  BY <1>3, TransitionIn
<1> HIDE DEF ev
<1>6. ASSUME NEW a, Mail(box.q, a, "Ready", hist)
      PROVE  Mail(c.q, a, "Down", hist) /\ Tells(c.q) /\ (ComesUp(box.q) => ComesUp(c.q))
  <2>1. (ev.type = "event" => ev \in Commits(hist)) /\ (ev.type = "state" => ev.from = "Ready" /\ ev.from # ev.to)
    BY <1>4
  <2>2. Mail(c.q, a, IF ev.type = "state" THEN ev.to ELSE "Ready", hist)
    BY <1>3, <1>5, <1>6, <2>1, Broadcasting
  <2>3. Tells(c.q) /\ (ComesUp(box.q) => ComesUp(c.q))
    BY <1>3, <1>4, <1>5, <1>6, <2>1, Broadcasting
  <2> HIDE DEF c
  <2> QED BY <1>4, <2>2, <2>3
<1> HIDE DEF c
<1>7. ASSUME NEW a, Mail(box.q, a, "Ready", hist), box = EmptyBox
      PROVE  a = "Ready"
  <2>1. box.q \in Seq(Notices) /\ Path(box.q, a, "Ready") /\ ~Tells(box.q)
    BY <1>3, <1>7, Mailbox DEF Mail, EmptyBox, Tells
  <2> QED BY <2>1, MailSteady
<1>8. Legit(box.q, hist)
  BY <1>1 DEF Contents
<1>9. Reports' /\ Legit(box'.q, hist)
  <2>1. \A a \in Links : Listening /\ Mail(box.q, a, link, hist) =>
           /\ Mail(box'.q, a, link', hist)
           /\ Tells(box.q) => Tells(box'.q)
           /\ ComesUp(box.q) => ComesUp(box'.q)
           /\ box = EmptyBox => a = "Ready" \/ box' = EmptyBox \/ ComesUp(box'.q)
    BY <1>2, <1>6, <1>7
  <2>2. ~Listening => box' = box
    BY <1>2
  <2> QED BY <1>1, <1>2, <1>8, <2>1, <2>2, ReportsPushed
<1>10. \A rd \in reads' : Truthfully(rd, hist)
  <2>1. \A rd \in reads' : rd \in reads \/ rd.reply = Error
    <3> SUFFICES ASSUME NEW sd \in reads, NEW rd,
                        rd = IF sd.reply = NoReply THEN [sd EXCEPT !.reply = Error] ELSE sd
                 PROVE  rd \in reads \/ rd.reply = Error
      BY <1>2
    <3>1. sd \in Reads
      BY <1>1 DEF RecInv, Types
    <3>2. [sd EXCEPT !.reply = Error].reply = Error
      BY <3>1 DEF Reads
    <3> QED BY <3>2
  <2>2. Error.kind = "error"
    BY DEF Error
  <2> QED BY <1>1, <2>1, <2>2 DEF Contents, Truthfully
<1>11. Contents'
  BY <1>1, <1>2, <1>9, <1>10 DEF Contents, IsTracked
<1>12. ~Clean'
  BY <1>2 DEF Clean
<1> QED BY <1>9, <1>11, <1>12 DEF Claims

-----------------------------------------------------------------------------
(* The view along a step: answers                                          *)

\* A page is a part of the history.
LEMMA PageSays ==
  ASSUME NEW h \in Seq(Nat), Distinct(h), NEW from \in Nat, NEW n \in 1 .. Len(h) - from,
         NEW ids, ids = SubSeq(h, from + 1, from + n)
  PROVE  /\ ids \in Seq(Nat) /\ Len(ids) = n /\ \A i \in 1 .. n : ids[i] = h[from + i]
         /\ Distinct(ids) /\ \A i \in 1 .. n : Beyond(h, from + i - 1, ids[i])
<1>1. n \in Nat /\ n >= 1 /\ from + n <= Len(h) /\ Len(h) \in Nat
  OBVIOUS
<1>2. ids \in Seq(Nat) /\ Len(ids) = n
  BY <1>1, PageShape
<1>3. \A i \in 1 .. n : ids[i] = h[from + i]
  <2> DEFINE T == Nat
  <2>1. h \in Seq(T) /\ from + 1 \in Nat
    OBVIOUS
  <2> HIDE DEF T
  <2> QED BY <1>1, <2>1
<1>4. Distinct(ids)
  <2>1. DOMAIN ids = 1 .. n /\ DOMAIN h = 1 .. Len(h)
    BY <1>2
  <2>2. ASSUME NEW i \in 1 .. n, NEW j \in 1 .. n, ids[i] = ids[j]
        PROVE  i = j
    <3>1. from + i \in 1 .. Len(h) /\ from + j \in 1 .. Len(h)
      BY <1>1
    <3>2. h[from + i] = h[from + j]
      BY <1>3, <2>2
    <3>3. from + i = from + j
      BY <2>1, <3>1, <3>2 DEF Distinct
    <3> QED BY <3>3
  <2> QED BY <2>1, <2>2 DEF Distinct
<1>5. ASSUME NEW i \in 1 .. n PROVE Beyond(h, from + i - 1, ids[i])
  <2>1. from + i \in from + i - 1 + 1 .. Len(h)
    BY <1>1
  <2> QED BY <1>3, <2>1 DEF Beyond
<1> QED BY <1>2, <1>3, <1>4, <1>5

\* The last page of the current read, if it is valid, makes the view the history.
LEMMA LastPage ==
  ASSUME NEW rm \in Rooms, IsReconciling(rm), Sound(rm, hist), hist \in Seq(Nat), Distinct(hist),
         NEW ids \in Seq(Nat), NEW n, n = Len(Viewed(rm)), Len(ids) = (IF n < Len(hist) THEN Len(hist) - n ELSE 0),
         \A i \in 1 .. Len(ids) : ids[i] = hist[n + i], PageValid(rm, ids),
         NEW q \in Seq(Notices), Legit(q, hist)
  PROVE  Tracks(hist, Viewed(rm) \o ids, rm.phase.buffer.q \o q)
<1> DEFINE s == Viewed(rm)
           B == rm.phase.buffer.q
           L == B \o q
<1>1. s \in Seq(Nat) /\ IdsOf(ids) \cap IdsOf(s) = {} /\ s \in Histories(hist)
      /\ B \in Seq(Commits(hist))
  BY ViewReaches DEF Sound
<1>2. B \in Seq(Pushes)
  BY <1>1, CommitsArePushes
<1> HIDE DEF s, B
<1>3. n = Len(s) /\ n \in Nat /\ Len(hist) \in Nat
  BY <1>1 DEF s
<1>4. ASSUME NEW i \in 1 .. Len(s), NEW a \in Len(s) + 1 .. Len(hist)
      PROVE  s[i] # hist[a]
  <2>1. a - n \in 1 .. Len(ids) /\ n + (a - n) = a
    <3>1. a \in Int /\ n < a /\ a <= Len(hist)
      BY <1>3
    <3>2. n < Len(hist)
      BY <1>3, <3>1
    <3>3. Len(ids) = Len(hist) - n
      BY <3>2
    <3> QED BY SMTT(30), <1>3, <3>1, <3>3
  <2>2. ids[a - n] = hist[a]
    BY <2>1
  <2>3. DOMAIN ids = 1 .. Len(ids) /\ DOMAIN s = 1 .. Len(s)
    BY <1>1
  <2>4. ids[a - n] \in IdsOf(ids) /\ s[i] \in IdsOf(s)
    BY <2>1, <2>3 DEF IdsOf
  <2> QED BY <1>1, <2>2, <2>4
<1>5. Len(s) <= Len(hist) /\ \A i \in 1 .. Len(s) : hist[i] = s[i]
  BY <1>1, <1>4, NothingMoved
<1>6. s \o ids = hist
  <2>1. s \o ids \in Seq(Nat) /\ Len(s \o ids) = Len(s) + Len(ids)
        /\ (\A i \in 1 .. Len(s) : (s \o ids)[i] = s[i])
        /\ \A i \in 1 .. Len(ids) : (s \o ids)[Len(s) + i] = ids[i]
    <3> DEFINE T == Nat
               x == s
               y == ids
    <3>1. x \in Seq(T) /\ y \in Seq(T)
      BY <1>1
    <3> HIDE DEF T, x, y
    <3>2. x \o y \in Seq(T) /\ Len(x \o y) = Len(x) + Len(y)
          /\ (\A i \in 1 .. Len(x) : (x \o y)[i] = x[i])
          /\ \A i \in 1 .. Len(y) : (x \o y)[Len(x) + i] = y[i]
      BY <3>1, NoticesJoin
    <3> QED BY <3>2 DEF T, x, y
  <2>2. Len(ids) = Len(hist) - Len(s)
    BY <1>3, <1>5
  <2>3. ASSUME NEW i \in 1 .. Len(hist) PROVE (s \o ids)[i] = hist[i]
    <3>1. CASE i <= Len(s)
      <4>1. i \in 1 .. Len(s)
        BY <1>3, <3>1
      <4> QED BY <1>5, <2>1, <4>1
    <3>2. CASE ~(i <= Len(s))
      <4>1. i - Len(s) \in 1 .. Len(ids) /\ Len(s) + (i - Len(s)) = i
        BY <1>3, <1>5, <2>2, <3>2
      <4>2. (s \o ids)[Len(s) + (i - Len(s))] = ids[i - Len(s)]
        BY <2>1, <4>1
      <4>3. ids[i - Len(s)] = hist[i]
        BY <1>3, <4>1
      <4> QED BY <4>1, <4>2, <4>3
    <3> QED BY <3>1, <3>2
  <2>4. Len(s \o ids) = Len(hist)
    <3>1. Len(s \o ids) = Len(s) + Len(ids)
      BY <2>1
    <3>2. Len(s) \in Nat /\ Len(hist) \in Nat
      BY <1>3
    <3>4. \A u, v \in Nat : \A w : w = u - v => v + w = u
      OBVIOUS
    <3>3. Len(s) + Len(ids) = Len(hist)
      BY <2>2, <3>2, <3>4
    <3> QED BY <3>1, <3>3
  <2> DEFINE y == s \o ids
             x == hist
  <2>5. y \in Seq(Nat) /\ x \in Seq(Nat) /\ Len(y) = Len(x) /\ \A i \in 1 .. Len(y) : y[i] = x[i]
    BY <2>1, <2>3, <2>4
  <2> HIDE DEF x, y
  <2>6. y = x
    BY <2>5, SeqEqual
  <2> QED BY <2>6 DEF x, y
<1>7. B \in Seq(Notices)
  <2> DEFINE T == Notices
             S == Pushes
  <2>1. S \subseteq T /\ B \in Seq(S)
    BY <1>2 DEF Notices
  <2> HIDE DEF S, T
  <2>2. B \in Seq(T)
    BY <2>1
  <2> QED BY <2>2 DEF T
<1>8. /\ L \in Seq(Notices) /\ Len(L) = Len(B) + Len(q)
      /\ \A i \in 1 .. Len(B) : L[i] = B[i]
      /\ \A i \in 1 .. Len(q) : L[Len(B) + i] = q[i]
  BY <1>7, NoticesJoin
<1>9. Len(B) \in Nat /\ Len(q) \in Nat /\ \A i \in 1 .. Len(B) : B[i] \in Commits(hist)
  BY <1>1, <1>7
<1> HIDE DEF L
<1>10. ASSUME NEW e \in Commits(hist)
       PROVE  e.id \in IdsOf(hist)
  <2>1. PICK a \in e.pos + 1 .. Len(hist) : hist[a] = e.id
    BY DEF Commits, Beyond
  <2>2. e.pos \in Nat
    BY DEF Commits, Pushes
  <2>3. a \in DOMAIN hist
    BY <1>3, <2>1, <2>2
  <2> QED BY <2>1, <2>3 DEF IdsOf
<1>11. ASSUME NEW j \in 1 .. Len(L), L[j].type = "event"
       PROVE  L[j].id \in IdsOf(hist)
  <2>1. CASE j <= Len(B)
    <3>1. j \in 1 .. Len(B)
      BY <1>8, <1>9, <2>1
    <3> QED BY <1>8, <1>9, <1>10, <3>1
  <2>2. CASE ~(j <= Len(B))
    <3>1. j - Len(B) \in 1 .. Len(q) /\ Len(B) + (j - Len(B)) = j
      BY <1>8, <1>9, <2>2
    <3>2. L[j] = q[j - Len(B)]
      BY <1>8, <3>1
    <3>3. L[j] \in Commits(hist)
      BY <1>11, <3>1, <3>2 DEF Legit
    <3> QED BY <1>10, <3>3
  <2> QED BY <2>1, <2>2
<1>12. Tracks(hist, hist, L)
  BY <1>8, <1>11, TracksNow
<1> QED BY <1>6, <1>12 DEF L, s, B

\* What a truthful page says, and leads to when it is the last.
LEMMA TruthfulSays ==
  ASSUME ViewInv, NEW rd \in reads, NEW answer \in Truthful(rd.req), answer.kind = "page"
  PROVE  /\ Distinct(answer.ids)
         /\ \A i \in 1 .. Len(answer.ids) : Beyond(hist, First(rd.req) + i - 1, answer.ids[i])
         /\ Current(rd) /\ ~answer.more => LeadsBy(room, answer.ids, hist, box.q)
<1> DEFINE ids == answer.ids
           from == First(rd.req)
<1>1. RecInv /\ Contents
  BY DEF ViewInv
<1>2. rd.req \in Requests /\ hist \in Seq(Nat) /\ Len(hist) \in Nat /\ Distinct(hist)
  BY <1>1 DEF RecInv, Types, Reads, Contents
<1>3. from \in Nat
  BY <1>2 DEF Requests, First
<1>4. /\ rd.req.op # "Members"
      /\ answer \in IF Len(hist) - from <= 0 THEN {[kind |-> "page", ids |-> <<>>, more |-> FALSE]}
                    ELSE {Page(from, n) : n \in 1 .. Len(hist) - from}
  <2>1. rd.req.op \in {"Timeline", "Resync", "Members"}
    BY <1>2 DEF Requests
  <2>2. CASE rd.req.op = "Timeline"
    <3>1. from = rd.req.from
      BY <2>2 DEF First
    <3> HIDE DEF from
    <3> QED BY <2>2, <3>1 DEF Truthful
  <2>3. CASE rd.req.op = "Resync"
    <3>1. from = rd.req.from + 1
      BY <2>3 DEF First
    <3> HIDE DEF from
    <3> QED BY <2>3, <3>1 DEF Truthful
  <2>4. CASE rd.req.op = "Members"
    BY <2>4 DEF Truthful
  <2> QED BY <2>1, <2>2, <2>3, <2>4
<1> HIDE DEF from, ids
<1>5. /\ ids \in Seq(Nat) /\ Distinct(ids) /\ (\A i \in 1 .. Len(ids) : Beyond(hist, from + i - 1, ids[i]))
      /\ (\A i \in 1 .. Len(ids) : ids[i] = hist[from + i])
      /\ ~answer.more => Len(ids) = IF from < Len(hist) THEN Len(hist) - from ELSE 0
  <2>1. CASE Len(hist) - from <= 0
    <3>1. ids = <<>>
      BY <1>4, <2>1 DEF ids
    <3>2. Len(ids) = 0 /\ ids \in Seq(Nat) /\ DOMAIN ids = {}
      BY <3>1
    <3>3. ~(from < Len(hist)) /\ 1 .. Len(ids) = {}
      BY <1>2, <1>3, <2>1, <3>2
    <3> QED BY <3>2, <3>3 DEF Distinct
  <2>2. CASE ~(Len(hist) - from <= 0)
    <3>1. PICK n \in 1 .. Len(hist) - from : answer = Page(from, n)
      BY <1>4, <2>2
    <3>2. ids = SubSeq(hist, from + 1, from + n)
      BY <3>1 DEF Page, ids
    <3>5. ~answer.more => ~(from + n < Len(hist))
      BY <3>1 DEF Page
    <3>6. ids \in Seq(Nat) /\ Len(ids) = n /\ \A i \in 1 .. n : ids[i] = hist[from + i]
      <4> DEFINE h == hist
      <4>1. h \in Seq(Nat) /\ Distinct(h) /\ from \in Nat /\ n \in 1 .. Len(h) - from
            /\ ids = SubSeq(h, from + 1, from + n)
        BY <1>2, <1>3, <3>2
      <4> HIDE DEF h
      <4>2. ids \in Seq(Nat) /\ Len(ids) = n
        BY <4>1, PageSays
      <4>3. \A i \in 1 .. n : ids[i] = h[from + i]
        BY <4>1, PageSays
      <4> QED BY <4>2, <4>3 DEF h
    <3>7. Distinct(ids) /\ \A i \in 1 .. n : Beyond(hist, from + i - 1, ids[i])
      BY <1>2, <1>3, <3>2, PageSays
    <3>4. ~answer.more => n = Len(hist) - from /\ from < Len(hist)
      BY <1>2, <1>3, <2>2, <3>5
    <3> QED BY <3>4, <3>6, <3>7
  <2> QED BY <2>1, <2>2
<1>6. ASSUME Current(rd), ~answer.more
      PROVE  LeadsBy(room, ids, hist, box.q)
  <2>1. IsTracked /\ IsReconciling(room)
    BY <1>6 DEF Current
  <2>2. /\ room \in Rooms /\ Sound(room, hist) /\ Continues(room)
        /\ box.q \in Seq(Notices) /\ Rest(box.q) \in Seq(Notices)
    BY <2>1, Watching
  <2>3. rd.req = room.phase.outstanding
    BY <1>1, <1>6 DEF RecInv, ReadsApart, OneIsCurrent
  <2>4. from = Reach(room) + 1
    BY <1>4, <2>1, <2>2, <2>3 DEF Continues, from
  <2>5. from = Len(Viewed(room))
    BY <2>1, <2>2, <2>4, ViewReaches
  <2>6. Legit(Rest(box.q), hist)
    <3> DEFINE q == box.q
    <3>1. q \in Seq(Notices) /\ Legit(q, hist)
      BY <1>1, <2>2 DEF Contents
    <3> HIDE DEF q
    <3>2. q # <<>> => Len(Tail(q)) = Len(q) - 1 /\ \A i \in 1 .. Len(q) - 1 : Tail(q)[i] = q[i + 1]
      BY <3>1
    <3>3. q # <<>> => Legit(Tail(q), hist)
      <4> SUFFICES ASSUME q # <<>>, NEW i \in 1 .. Len(q) - 1, Tail(q)[i].type = "event"
                   PROVE  Tail(q)[i] \in Commits(hist)
        BY <3>2 DEF Legit
      <4>1. i + 1 \in 1 .. Len(q) /\ Tail(q)[i] = q[i + 1]
        BY <3>1, <3>2
      <4> QED BY <3>1, <4>1 DEF Legit
    <3> QED BY <3>1, <3>3 DEF Rest, q
  <2>7. PageValid(room, ids) => Tracks(hist, Viewed(room) \o ids, room.phase.buffer.q \o Rest(box.q))
    <3> SUFFICES ASSUME PageValid(room, ids)
                 PROVE  Tracks(hist, Viewed(room) \o ids, room.phase.buffer.q \o Rest(box.q))
      OBVIOUS
    <3>1. /\ Len(ids) = (IF from < Len(hist) THEN Len(hist) - from ELSE 0)
          /\ \A i \in 1 .. Len(ids) : ids[i] = hist[from + i]
      BY <1>5, <1>6
    <3> QED BY <1>2, <1>5, <2>1, <2>2, <2>5, <2>6, <3>1, LastPage
  <2> QED BY <2>7 DEF LeadsBy
<1> QED BY <1>5, <1>6 DEF ids, from

\* The daemon answers: with a page of the history, the members, or a fault.
LEMMA ServeViews ==
  ASSUME ViewInv, RecInv', NEW rd \in reads, Serve(rd)
  PROVE  Contents' /\ Reports' /\ Claims'
<1>1. RecInv /\ Contents /\ Reports /\ Claims
  BY DEF ViewInv
<1>2. UNCHANGED <<hist, link, box, run, state, room>>
  BY DEF Serve, coreVars
<1>3. PICK answer : /\ answer \in Truthful(rd.req) \/ answer \in Faults(rd.req) \cup {Error}
                    /\ reads' = (reads \ {rd}) \cup {[rd EXCEPT !.reply = answer]}
  BY DEF Serve
<1> DEFINE new == [rd EXCEPT !.reply = answer]
<1>4. new.reply = answer /\ new.req = rd.req /\ new.epoch = rd.epoch /\ new.read_id = rd.read_id
  BY <1>1 DEF RecInv, Types, Reads
<1>5. reads' = (reads \ {rd}) \cup {new}
  BY <1>3
<1> HIDE DEF new
<1>6. Reports'
  <2>1. IsTracked' => Running
    BY <1>1, <1>2 DEF Reports, IsTracked
  <2> QED BY <1>1, <1>2, <2>1, ReportsStay
<1>7. Clean' <=> Clean
  BY <1>2, CleanStays
<1>8. Legit(box'.q, hist)
  BY <1>1, <1>2 DEF Contents
<1>9. CASE answer.kind # "page"
  <2>1. \A sd \in reads' : sd \in reads \/ sd.reply.kind # "page"
    BY <1>4, <1>5, <1>9
  <2> QED BY <1>1, <1>2, <1>6, <1>7, <1>8, <2>1, RoomStays
<1>10. CASE answer.kind = "page"
  <2>1. answer \in Truthful(rd.req)
    BY <1>3, <1>10 DEF Faults, Error
  <2>2. /\ Distinct(answer.ids)
        /\ \A i \in 1 .. Len(answer.ids) : Beyond(hist, First(rd.req) + i - 1, answer.ids[i])
        /\ Current(rd) /\ ~answer.more => LeadsBy(room, answer.ids, hist, box.q)
    BY <1>10, <2>1, TruthfulSays
  <2>3. Truthfully(new, hist)
    BY <1>4, <2>2 DEF Truthfully
  <2>4. Contents'
    <3>1. \A sd \in reads' : Truthfully(sd, hist)
      BY <1>1, <1>5, <2>3 DEF Contents
    <3> QED BY <1>1, <1>2, <1>8, <3>1 DEF Contents, IsTracked
  <2>5. \A sd : Current(sd)' <=> Current(sd)
    BY <1>2 DEF Current, IsTracked
  <2>6. Current(new) <=> Current(rd)
    BY <1>4 DEF Current
  <2>7. ASSUME Clean', IsTracked'
        PROVE  /\ Leads(room', hist', box'.q)
               /\ \A sd \in reads' : Current(sd)' /\ sd.reply.kind = "page" /\ ~sd.reply.more =>
                    LeadsBy(room', sd.reply.ids, hist', box'.q)
    <3>1. Clean /\ IsTracked
      BY <1>2, <1>7, <2>7 DEF IsTracked
    <3>2. Leads(room', hist', box'.q)
      BY <1>1, <1>2, <3>1 DEF Claims, Leads
    <3>3. \A sd \in reads : Current(sd) /\ sd.reply.kind = "page" /\ ~sd.reply.more =>
             LeadsBy(room, sd.reply.ids, hist, box.q)
      BY <1>1, <3>1 DEF Claims
    <3>4. ASSUME NEW sd \in reads', Current(sd)', sd.reply.kind = "page", ~sd.reply.more
          PROVE  LeadsBy(room', sd.reply.ids, hist', box'.q)
      <4>1. LeadsBy(room, sd.reply.ids, hist, box.q)
        BY <1>4, <1>5, <2>2, <2>5, <2>6, <3>3, <3>4
      <4> QED BY <1>2, <4>1 DEF LeadsBy
    <3> QED BY <3>2, <3>4
  <2>8. Claims'
    BY <2>7 DEF Claims
  <2> QED BY <1>6, <2>4, <2>8
<1> QED BY <1>9, <1>10

-----------------------------------------------------------------------------
(* The view along a step: notices consumed                                 *)

\* What polling takes off the mailbox.
LEMMA TakenOff ==
  ASSUME NEW m \in Nat, NEW b \in Boxes(m), Readable(b)
  PROVE  /\ b.q # <<>> => /\ Yielded(b) = b.q[1] /\ Polled(b).q = Tail(b.q)
                          /\ Polled(b).lost = b.lost /\ b.q = <<b.q[1]>> \o Tail(b.q)
                          /\ Tail(b.q) \in Seq(Notices) /\ b.q[1] \in Notices
                          /\ Len(Tail(b.q)) = Len(b.q) - 1
                          /\ \A i \in 1 .. Len(b.q) - 1 : Tail(b.q)[i] = b.q[i + 1]
         /\ b.q = <<>> => Yielded(b) = Lagged(b.lost) /\ Polled(b).q = <<>>
<1> DEFINE q == b.q
           T == Notices
<1>1. q \in Seq(T)
  BY Mailbox
<1>2. b.q = <<>> => Yielded(b) = Lagged(b.lost) /\ Polled(b).q = <<>>
  BY DEF Yielded, Polled, EmptyBox
<1>3. ASSUME b.q # <<>>
      PROVE  Yielded(b) = b.q[1] /\ Polled(b).q = Tail(b.q) /\ Polled(b).lost = b.lost
  BY <1>3 DEF Yielded, Polled, Boxes
<1> HIDE DEF q, T
<1>4. ASSUME q # <<>>
      PROVE  /\ q = <<q[1]>> \o Tail(q) /\ Tail(q) \in Seq(T) /\ q[1] \in T
             /\ Len(Tail(q)) = Len(q) - 1 /\ \A i \in 1 .. Len(q) - 1 : Tail(q)[i] = q[i + 1]
  BY <1>1, <1>4
<1> QED BY <1>2, <1>3, <1>4 DEF q, T

\* What the mailbox reports when its first notice is consumed.
LEMMA ReportsPolled ==
  ASSUME Reports, RecInv, Running, Readable(box), box' = Polled(box), UNCHANGED <<run, link>>,
         Legit(box.q, hist), NEW x, x = Yielded(box),
         x.type # "state" => state' = state,
         x.type = "state" => state' = IF ~x.problem /\ x.from # state THEN state ELSE x.to
  PROVE  Reports' /\ Legit(box'.q, hist)
<1> DEFINE q == box.q
           t == box'.q
<1>1. Flaps(q) /\ Matches /\ Listening /\ Running'
  BY DEF Reports, Listening, Running
<1>2. PICK a \in Links :
        /\ Path(q, a, link)
        /\ \/ a = state
           \/ state = "Ready" /\ ComesUp(q)
           \/ state = "Down" /\ Tells(q)
  BY <1>1 DEF Matches
<1>3. box \in Boxes(Len(hist)) /\ Len(hist) \in Nat /\ state \in Links
  BY DEF RecInv, Types, Links
<1>4. q \in Seq(Notices) /\ Mail(q, a, link, hist)
  BY <1>1, <1>2, <1>3, Mailbox DEF Mail
<1>5. /\ q # <<>> => /\ x = q[1] /\ t = Tail(q) /\ q[1] \in Notices
      /\ q = <<>> => t = <<>> /\ x = Lagged(box.lost)
  BY <1>3, TakenOff
<1>6. ASSUME NEW b \in Links, Mail(t, b, link, hist),
             \/ b = state'
             \/ state' = "Ready" /\ ComesUp(t)
             \/ state' = "Down" /\ Tells(t)
      PROVE  Reports' /\ Legit(box'.q, hist)
  <2>1. Flaps(t) /\ Legit(t, hist) /\ Path(t, b, link)
    BY <1>6 DEF Mail
  <2>2. Matches'
    BY <1>1, <1>6, <2>1 DEF Matches, Running
  <2> QED BY <1>1, <2>1, <2>2 DEF Reports, Running, Listening
<1> HIDE DEF q, t
<1>7. CASE q = <<>>
  <2>1. x.type = "lagged"
    BY <1>5, <1>7 DEF Lagged
  <2>2. a = state'
    BY <1>2, <1>7, <2>1 DEF ComesUp, Tells
  <2>3. Mail(t, a, link, hist)
    BY <1>4, <1>5, <1>7
  <2> QED BY <1>6, <2>2, <2>3
<1>8. CASE q # <<>>
  <2>1. /\ Mail(t, IF x.type = "state" THEN x.to ELSE a, link, hist)
        /\ x.type = "state" => x.from = a
        /\ Tells(q) => x.type = "state" \/ Tells(t)
    BY <1>4, <1>5, <1>8, MailTail
  <2>2. CASE x.type # "state"
    <3>1. ~ComesUp(q)
      BY <1>5, <1>8, <2>2 DEF ComesUp
    <3> QED BY <1>2, <1>6, <2>1, <2>2, <3>1
  <2>3. CASE x.type = "state"
    <3>1. x.to \in Links /\ x.from \in Links
      <4>1. x \in Notices
        BY <1>5, <1>8
      <4> QED BY <2>3, <4>1 DEF Links, Notices, Pushes
    <3>2. Mail(t, x.to, link, hist) /\ x.from = a
      BY <2>1, <2>3
    <3>3. CASE ~x.problem /\ x.from # state
      <4>1. state' = state
        BY <2>3, <3>3
      <4>2. CASE state = "Ready"
        <5>1. x.to = "Ready"
          BY <1>2, <1>5, <1>8, <3>2, <3>3, <4>2 DEF ComesUp
        <5> QED BY <1>6, <3>1, <3>2, <4>1, <4>2, <5>1
      <4>3. CASE state = "Down"
        <5>1. x.from = "Ready"
          BY <3>1, <3>3, <4>3 DEF Links
        <5>2. 1 \in 1 .. Len(q)
          BY <1>4, <1>8
        <5>3. x.to # "Ready"
          BY <1>1, <1>5, <1>8, <2>3, <3>3, <5>1, <5>2 DEF Flaps, q
        <5>4. x.to = "Down"
          BY <3>1, <5>3 DEF Links
        <5> QED BY <1>6, <3>1, <3>2, <4>1, <4>3, <5>4
      <4> QED BY <1>3, <4>2, <4>3 DEF Links
    <3>4. CASE ~(~x.problem /\ x.from # state)
      <4>1. state' = x.to
        BY <2>3, <3>4
      <4> QED BY <1>6, <3>1, <3>2, <4>1
    <3> QED BY <3>3, <3>4
  <2> QED BY <2>2, <2>3
<1> QED BY <1>7, <1>8

\* A notice consumed, neither of a loss nor of the link, leaves a mailbox that was clean.
LEMMA HeadPlain ==
  ASSUME Reports, RecInv, Running, Readable(box), box' = Polled(box), UNCHANGED <<link, state>>,
         Legit(box.q, hist), NEW x, x = Yielded(box), x.type \notin {"state", "lagged"}, Clean'
  PROVE  /\ Clean /\ Rest(box.q) = <<x>> \o Rest(box'.q)
         /\ x \in Notices /\ Rest(box'.q) \in Seq(Notices)
<1> DEFINE q == box.q
           t == box'.q
<1>1. Flaps(q) /\ Matches
  BY DEF Reports, Listening, Running
<1>2. box \in Boxes(Len(hist)) /\ Len(hist) \in Nat /\ q \in Seq(Notices)
  BY Mailbox DEF RecInv, Types
<1>3. q # <<>>
  <2>1. q = <<>> => x = Lagged(box.lost)
    BY <1>2, TakenOff
  <2>2. Lagged(box.lost).type = "lagged"
    BY DEF Lagged
  <2> HIDE DEF q
  <2> QED BY <2>1, <2>2
<1>4. /\ x = q[1] /\ t = Tail(q) /\ box'.lost = box.lost /\ q = <<x>> \o t
      /\ t \in Seq(Notices) /\ x \in Notices
      /\ Len(t) = Len(q) - 1 /\ \A i \in 1 .. Len(q) - 1 : t[i] = q[i + 1]
  BY <1>2, <1>3, TakenOff
<1>5. Rest(q) = q /\ ~ComesUp(q)
  BY <1>3, <1>4 DEF Rest, ComesUp
<1>6. state = "Ready" /\ link = "Ready" /\ box'.lost = 0
  BY DEF Clean
<1>7. PICK a \in Links : Path(q, a, link) /\ a = "Ready"
  BY <1>1, <1>5, <1>6 DEF Matches
<1>8. Mail(t, a, link, hist)
  <2>1. Mail(q, a, link, hist)
    BY <1>1, <1>7 DEF Mail
  <2> QED BY <1>2, <1>3, <1>4, <2>1, MailTail
<1>9. t # <<>> => t[1].type \notin {"state", "lagged"}
  <2>1. t # <<>> /\ t[1].type = "state" => t[1].from = "Ready"
    BY <1>4, <1>7, <1>8, MailTail
  <2>2. t # <<>> => t[1].type # "lagged" /\ (t[1].type = "state" => t[1].from = "Down")
    BY DEF Clean
  <2> QED BY <2>1, <2>2
<1>10. Rest(t) = t
  BY <1>9 DEF Rest
<1>11. \A i \in 1 .. Len(t) : t[i].type \notin {"state", "lagged"}
  BY <1>10 DEF Clean
<1> HIDE DEF t, q
<1>12. \A i \in 1 .. Len(q) : q[i].type \notin {"state", "lagged"}
  <2> SUFFICES ASSUME NEW i \in 1 .. Len(q) PROVE q[i].type \notin {"state", "lagged"}
    OBVIOUS
  <2>1. CASE i = 1
    BY <1>4, <2>1
  <2>2. CASE i # 1
    <3>1. i - 1 \in 1 .. Len(t) /\ t[i - 1] = q[i]
      <4>1. Len(q) \in Nat
        BY <1>2
      <4>2. i - 1 \in 1 .. Len(q) - 1 /\ i - 1 + 1 = i
        BY <2>2, <4>1
      <4> QED BY <1>4, <4>2
    <3> QED BY <1>11, <3>1
  <2> QED BY <2>1, <2>2
<1>13. Clean
  BY <1>3, <1>4, <1>5, <1>6, <1>12 DEF Clean, q
<1> QED BY <1>4, <1>5, <1>10, <1>13 DEF q, t

\* A transition consumed that the core finds out of date leaves a mailbox that was clean.
LEMMA HeadStale ==
  ASSUME Reports, RecInv, Running, Readable(box), box' = Polled(box), UNCHANGED <<link, state>>,
         Legit(box.q, hist), NEW x, x = Yielded(box), x.type = "state", ~x.problem, x.from # state, Clean'
  PROVE  Clean /\ Rest(box'.q) = Rest(box.q)
<1> DEFINE q == box.q
           t == box'.q
<1>1. Flaps(q) /\ Matches
  BY DEF Reports, Listening, Running
<1>2. box \in Boxes(Len(hist)) /\ Len(hist) \in Nat /\ q \in Seq(Notices)
  BY Mailbox DEF RecInv, Types
<1>3. q # <<>>
  <2>1. q = <<>> => x = Lagged(box.lost)
    BY <1>2, TakenOff
  <2>2. Lagged(box.lost).type = "lagged"
    BY DEF Lagged
  <2> HIDE DEF q
  <2> QED BY <2>1, <2>2
<1>4. x = q[1] /\ t = Tail(q) /\ box'.lost = box.lost /\ t \in Seq(Notices)
  BY <1>2, <1>3, TakenOff
<1>5. Rest(q) = t
  BY <1>3, <1>4 DEF Rest
<1>6. state = "Ready" /\ link = "Ready" /\ box'.lost = 0
  BY DEF Clean
<1>7. PICK a \in Links : Path(q, a, link) /\ (a = "Ready" \/ ComesUp(q))
  BY <1>1, <1>6 DEF Matches
<1>8. Mail(t, x.to, link, hist) /\ x.from = a
  <2>1. Mail(q, a, link, hist)
    BY <1>1, <1>7 DEF Mail
  <2> QED BY <1>2, <1>3, <1>4, <2>1, MailTail
<1>9. x.from = "Down" /\ x.to = "Ready"
  BY <1>4, <1>6, <1>7, <1>8 DEF ComesUp
<1>10. t # <<>> => t[1].type # "state"
  <2>1. t # <<>> /\ t[1].type = "state" => t[1].from = "Ready"
    BY <1>4, <1>8, <1>9, MailTail
  <2>2. t # <<>> => (t[1].type = "state" => t[1].from = "Down")
    BY DEF Clean
  <2> QED BY <2>1, <2>2
<1>11. Rest(t) = t
  BY <1>10 DEF Rest
<1>12. \A i \in 1 .. Len(t) : t[i].type \notin {"state", "lagged"}
  BY <1>11 DEF Clean
<1>13. Clean
  BY <1>3, <1>4, <1>5, <1>6, <1>9, <1>12 DEF Clean
<1> QED BY <1>5, <1>11, <1>13

-----------------------------------------------------------------------------
(* The view along a step: the inputs of the bus                            *)

\* A push that is buffered: the mailbox has it no more, the buffer has it.
LEMMA BufferedViews ==
  ASSUME ViewInv, UNCHANGED hist, IsTracked, NEW x \in Pushes, NEW e, Perform(e, reads), e.issue = <<>>,
         Sound(e.room, hist), Buffered(room, x, e.room), Legit(box'.q, hist),
         Clean' => /\ Clean /\ Rest(box.q) = <<x>> \o Rest(box'.q)
                   /\ Rest(box'.q) \in Seq(Notices)
  PROVE  Contents' /\ Claims'
<1>1. Contents /\ Claims
  BY DEF ViewInv
<1>2. room' = e.room /\ reads' = reads
  BY DEF Perform
<1>3. Contents'
  BY <1>1, ContentsAfter
<1>4. /\ IsReconciling(room) /\ IsReconciling(room') /\ ~IsConverged(room')
      /\ Viewed(room') = Viewed(room) /\ room'.phase.rerun = room.phase.rerun
      /\ room'.phase.outstanding = room.phase.outstanding
      /\ room'.phase.epoch = room.phase.epoch /\ room'.phase.read_id = room.phase.read_id
  BY <1>2 DEF Buffered, IsReconciling, IsConverged
<1>5. \A ids : PageValid(room', ids) <=> PageValid(room, ids)
  BY <1>2 DEF Buffered, PageValid
<1>6. \A rd : Current(rd)' <=> Current(rd)
  BY <1>4 DEF Current, IsTracked, IsReconciling
<1>7. room \in Rooms
  BY Watching
<1> DEFINE B == room.phase.buffer.q
           C == room'.phase.buffer.q
           R == Rest(box'.q)
<1>8. Unhurt(room') => Unhurt(room) /\ C = Append(B, x)
  BY <1>2, <1>4 DEF Buffered, Unhurt
<1>9. B \in Seq(Notices)
  <2> DEFINE T == Notices
             S == Pushes
             y == B
  <2>1. S \subseteq T /\ y \in Seq(S)
    BY <1>4, <1>7, ScanFields DEF Buffers, Notices
  <2> HIDE DEF S, T, y
  <2>2. y \in Seq(T)
    BY <2>1
  <2> QED BY <2>2 DEF T, y
<1> HIDE DEF B, C, R
<1>10. ASSUME Clean', Unhurt(room') PROVE B \o Rest(box.q) = C \o R
  <2> DEFINE T == Notices
  <2>1. R \in Seq(T) /\ <<x>> \in Seq(T) /\ B \in Seq(T)
    BY <1>9, <1>10 DEF R, Notices
  <2>2. Append(B, x) = B \o <<x>>
    <3> HIDE DEF T
    <3> QED BY <2>1
  <2> HIDE DEF T
  <2>3. B \o (<<x>> \o R) = (B \o <<x>>) \o R
    BY <2>1, NoticesJoin
  <2> QED BY <1>8, <1>10, <2>2, <2>3 DEF R
<1>11. ASSUME Clean'
       PROVE  /\ Leads(room', hist', box'.q)
              /\ \A rd \in reads' : Current(rd)' /\ rd.reply.kind = "page" /\ ~rd.reply.more =>
                   LeadsBy(room', rd.reply.ids, hist', box'.q)
  <2>1. Leads(room, hist, box.q)
    BY <1>1, <1>11 DEF Claims
  <2>2. \A rd \in reads : Current(rd) /\ rd.reply.kind = "page" /\ ~rd.reply.more =>
           LeadsBy(room, rd.reply.ids, hist, box.q)
    BY <1>1, <1>11 DEF Claims
  <2>3. Leads(room', hist', box'.q)
    <3> SUFFICES ASSUME Unhurt(room'), room'.phase.outstanding.op = "Members"
                 PROVE  Tracks(hist, Viewed(room'), C \o R)
      BY <1>4 DEF Leads, C, R
    <3>1. Tracks(hist, Viewed(room), B \o Rest(box.q))
      BY <1>4, <1>8, <2>1 DEF Leads, B
    <3> QED BY <1>4, <1>10, <1>11, <3>1
  <2>4. ASSUME NEW rd \in reads', Current(rd)', rd.reply.kind = "page", ~rd.reply.more
        PROVE  LeadsBy(room', rd.reply.ids, hist', box'.q)
    <3> DEFINE ids == rd.reply.ids
    <3>1. LeadsBy(room, ids, hist, box.q)
      BY <1>2, <1>6, <2>2, <2>4
    <3> HIDE DEF ids
    <3> SUFFICES ASSUME Unhurt(room'), PageValid(room', ids)
                 PROVE  Tracks(hist, Viewed(room') \o ids, C \o R)
      BY DEF LeadsBy, C, R, ids
    <3>2. Tracks(hist, Viewed(room) \o ids, B \o Rest(box.q))
      BY <1>5, <1>8, <3>1 DEF LeadsBy, B
    <3> QED BY <1>4, <1>10, <1>11, <3>2
  <2> QED BY <2>3, <2>4
<1>12. Claims'
  BY <1>11 DEF Claims
<1> QED BY <1>3, <1>12

\* A push that a converged room takes in: what the room shows leads on without it.
LEMMA ShownViews ==
  ASSUME ViewInv, UNCHANGED hist, IsTracked, NEW x \in Pushes, NEW e, Perform(e, reads), e.issue = <<>>,
         Sound(e.room, hist), IsConverged(room), IsConverged(e.room), Grows(room.known, <<x>>, e.room.known),
         Legit(box'.q, hist),
         Clean' => /\ Clean /\ Rest(box.q) = <<x>> \o Rest(box'.q)
                   /\ Rest(box'.q) \in Seq(Notices)
  PROVE  Contents' /\ Claims'
<1> DEFINE K == e.room.known
           B == <<x>>
           R == Rest(box'.q)
           t == room.known
<1>1. Contents /\ Claims
  BY DEF ViewInv
<1>2. room' = e.room /\ reads' = reads
  BY DEF Perform
<1>3. Contents'
  BY <1>1, ContentsAfter
<1>4. IsConverged(room') /\ ~IsReconciling(room')
  BY <1>2 DEF IsReconciling, IsConverged
<1>5. K \in Seq(Nat) /\ Distinct(K)
  BY DEF Sound, Histories
<1>6. t \in Seq(Nat) /\ hist \in Seq(Nat)
  BY Watching, RoomFields
<1>7. B \in Seq(Pushes) /\ Grows(t, B, K)
  OBVIOUS
<1>8. Clean' => Tracks(hist, t, B \o R) /\ R \in Seq(Notices)
  <2>1. Clean' => Leads(room, hist, box.q)
    BY <1>1 DEF Claims
  <2> QED BY <2>1 DEF Leads
<1> HIDE DEF K, B, R, t
<1>9. Clean' => Tracks(hist, K, R)
  BY <1>5, <1>6, <1>7, <1>8, Lands
<1>10. Clean' => Leads(room', hist', box'.q)
  BY <1>2, <1>4, <1>9 DEF Leads, Unhurt, K, R
<1>11. \A rd : ~Current(rd)'
  BY <1>4 DEF Current
<1> QED BY <1>3, <1>10, <1>11 DEF Claims

\* The subscription yields a notice: a transition, a loss, a gap, an event or junk.
LEMMA ConsumeViews ==
  ASSUME ViewInv, RecInv', Consume
  PROVE  Contents' /\ Reports' /\ Claims'
<1> DEFINE ev == Yielded(box)
           h == Len(hist)
<1>1. RecInv /\ Contents /\ Reports /\ Claims
  BY DEF ViewInv
<1>2. Running /\ Readable(box) /\ box' = Polled(box) /\ UNCHANGED <<hist, link, run>>
  BY DEF Consume, envVars
<1>3. /\ ev.type = "state" => OnLifecycle(TRUE, ev.from, ev.to, ev.problem)
      /\ ev.type = "gap" => OnTrigger(ProtocolGap, ev.from)
      /\ ev.type = "lagged" => OnTrigger(Overflow(ev.dropped), NoPos)
      /\ ev.type = "event" =>
           IF IsTracked THEN Perform(OnLiveEvent(room, ev, epoch, FreshId), reads) ELSE Ignore
      /\ ev.type = "junk" =>
           IF IsTracked THEN Perform(OnJunk(room, epoch, FreshId), reads) ELSE Ignore
      /\ ev.type # "state" => UNCHANGED <<state, epoch, seen_ready>>
  BY DEF Consume
<1>4. h \in Nat /\ box \in Boxes(h) /\ epoch \in Nat
  BY <1>1 DEF RecInv, Types
<1>5. ev \in NoticesTo(h)
  BY <1>2, <1>4, PolledIn
<1>6. Legit(box.q, hist)
  BY <1>1 DEF Contents
<1>7. ev.type = "event" => ev \in Commits(hist)
  <2>1. box.q # <<>> => ev = box.q[1] /\ 1 \in 1 .. Len(box.q)
    <3>1. box.q \in Seq(Notices)
      BY <1>4, Mailbox
    <3>2. box.q # <<>> => ev = box.q[1]
      BY <1>2, <1>4, TakenOff
    <3> HIDE DEF ev
    <3> QED BY <3>1, <3>2
  <2>2. box.q = <<>> => ev.type = "lagged"
    <3>1. box.q = <<>> => ev = Lagged(box.lost)
      BY <1>2, <1>4, TakenOff
    <3>2. Lagged(box.lost).type = "lagged"
      BY DEF Lagged
    <3> HIDE DEF ev
    <3> QED BY <3>1, <3>2
  <2> HIDE DEF ev
  <2> QED BY <1>6, <2>1, <2>2 DEF Legit
<1>8. ev = Yielded(box)
  OBVIOUS
<1> HIDE DEF ev, h
<1>9. /\ ev.type \in {"event", "gap", "junk", "lagged", "state"}
      /\ ev.type = "gap" => ev.from \in Nat
      /\ ev.type = "lagged" => ev.dropped \in Nat
      /\ ev.type = "event" => ev \in Pushes
      /\ ev.type = "state" => ev.to \in Links
  BY <1>4, <1>5, NoticeFields DEF Links
<1>10. ev.type = "state" => state' = IF ~ev.problem /\ ev.from # state THEN state ELSE ev.to
  BY <1>3 DEF OnLifecycle
<1>11. Reports' /\ Legit(box'.q, hist)
  BY <1>1, <1>2, <1>3, <1>6, <1>8, <1>10, ReportsPolled
<1>12. ASSUME Clean', ev.type \notin {"state", "lagged"}
       PROVE  Clean /\ Rest(box.q) = <<ev>> \o Rest(box'.q) /\ Rest(box'.q) \in Seq(Notices)
  BY <1>1, <1>2, <1>3, <1>6, <1>8, <1>12, HeadPlain
<1>13. ASSUME ~IsTracked, Ignore PROVE Contents' /\ Claims'
  <2>1. ~IsTracked' /\ reads' = reads
    BY <1>13 DEF Ignore, IsTracked
  <2> QED BY <1>1, <1>2, <1>11, <2>1, UntrackedViews
<1>14. CASE ev.type = "state"
  <2> DEFINE stale == ~ev.problem /\ ev.from # state
             same  == ~ev.problem /\ ev.from = ev.to
             why   == IF seen_ready THEN Reconnect ELSE Bootstrap
  <2>1. \/ Relaunch(why, epoch + 1)
        \/ Ignore /\ (stale \/ same \/ ev.to # "Ready")
    BY <1>3, <1>14 DEF OnLifecycle
  <2>2. CASE Relaunch(why, epoch + 1)
    <3>1. why \in Reasons /\ epoch + 1 \in Nat
      BY <1>4, Causes
    <3> HIDE DEF why
    <3>2. CASE IsTracked
      BY <1>2, <1>11, <2>2, <3>1, <3>2, RelaunchViews
    <3>3. CASE ~IsTracked
      <4>1. Ignore
        BY <2>2, <3>3 DEF Relaunch
      <4> QED BY <1>11, <1>13, <3>3, <4>1
    <3> QED BY <1>11, <3>2, <3>3
  <2>3. CASE Ignore /\ (stale \/ same \/ ev.to # "Ready")
    <3>1. room' = room /\ reads' = reads
      BY <2>3 DEF Ignore
    <3>2. Clean' => Clean /\ Rest(box'.q) = Rest(box.q)
      <4>1. CASE stale
        <5>1. state' = state
          BY <1>10, <1>14, <4>1
        <5> QED BY <1>1, <1>2, <1>6, <1>8, <1>14, <4>1, <5>1, HeadStale
      <4>2. CASE ~stale
        <5>1. state' = ev.to
          BY <1>10, <1>14, <4>2
        <5>2. ev.to # "Ready"
          <6>1. CASE same
            <7>1. Flaps(box.q)
              BY <1>1, <1>2 DEF Reports, Listening, Running
            <7>2. box.q # <<>> /\ ev = box.q[1]
              <8>1. /\ box.q # <<>> => ev = box.q[1]
                    /\ box.q = <<>> => ev = Lagged(box.lost)
                BY <1>2, <1>4, <1>8, TakenOff
              <8>2. Lagged(box.lost).type = "lagged"
                BY DEF Lagged
              <8> QED BY <1>14, <8>1, <8>2
            <7>3. 1 \in 1 .. Len(box.q)
              <8>1. box.q \in Seq(Notices)
                BY <1>4, Mailbox
              <8> QED BY <7>2, <8>1
            <7> QED BY <1>14, <6>1, <7>1, <7>2, <7>3 DEF Flaps
          <6>2. CASE ~same
            BY <2>3, <4>2, <6>2
          <6> QED BY <6>1, <6>2
        <5> QED BY <5>1, <5>2 DEF Clean
      <4> QED BY <4>1, <4>2
    <3> QED BY <1>1, <1>2, <1>11, <3>1, <3>2, RoomStays
  <2> QED BY <1>11, <2>1, <2>2, <2>3
<1>15. CASE ev.type = "gap"
  <2>1. OnTrigger(ProtocolGap, ev.from)
    BY <1>3, <1>15
  <2>2. ProtocolGap \in Reasons /\ ProtocolGap # NoReason /\ ev.from \in Cursors
    BY <1>9, <1>15, Causes DEF Cursors, ProtocolGap, GapTo, NoReason
  <2>3. CASE IsTracked
    BY <1>2, <1>11, <2>1, <2>2, <2>3, TriggerViews
  <2>4. CASE ~IsTracked
    <3>1. Ignore
      BY <2>1, <2>4 DEF OnTrigger
    <3> QED BY <1>11, <1>13, <2>4, <3>1
  <2> QED BY <1>11, <2>3, <2>4
<1>16. CASE ev.type = "lagged"
  <2> DEFINE why == Overflow(ev.dropped)
  <2>1. OnTrigger(why, NoPos)
    BY <1>3, <1>16
  <2>2. why \in Reasons /\ why # NoReason /\ NoPos \in Cursors
    BY <1>9, <1>16, Causes DEF Cursors, Overflow, NoReason
  <2> HIDE DEF why
  <2>3. CASE IsTracked
    BY <1>2, <1>11, <2>1, <2>2, <2>3, TriggerViews
  <2>4. CASE ~IsTracked
    <3>1. Ignore
      BY <2>1, <2>4 DEF OnTrigger
    <3> QED BY <1>11, <1>13, <2>4, <3>1
  <2> QED BY <1>11, <2>3, <2>4
<1>17. CASE ev.type = "event"
  <2>1. CASE ~IsTracked
    BY <1>3, <1>11, <1>13, <1>17, <2>1
  <2>2. CASE IsTracked
    <3> DEFINE e == OnLiveEvent(room, ev, epoch, FreshId)
    <3>1. Perform(e, reads)
      BY <1>3, <1>17, <2>2
    <3>2. /\ room \in Rooms /\ Sound(room, hist) /\ hist \in Seq(Nat) /\ Len(hist) >= 1
          /\ FreshId \in 0 .. 2
      BY <2>2, Watching
    <3>3. ev \in Commits(hist) /\ ev \in Pushes
      BY <1>7, <1>9, <1>17
    <3>4. \/ Moot(e, hist)
          \/ Sound(e.room, hist) /\ e.issue = <<>> /\ Buffered(room, ev, e.room)
          \/ Sound(e.room, hist) /\ e.issue = <<>> /\ IsConverged(room) /\ IsConverged(e.room)
             /\ Grows(room.known, <<ev>>, e.room.known)
      <4> HIDE DEF e
      <4>1. ASSUME NEW f, f = OnLiveEvent(room, ev, epoch, FreshId)
            PROVE  \/ Moot(f, hist)
                   \/ Sound(f.room, hist) /\ f.issue = <<>> /\ Buffered(room, ev, f.room)
                   \/ Sound(f.room, hist) /\ f.issue = <<>> /\ IsConverged(room) /\ IsConverged(f.room)
                      /\ Grows(room.known, <<ev>>, f.room.known)
        BY <1>4, <3>2, <3>3, <4>1, LiveMoot
      <4> QED BY <4>1 DEF e
    <3> HIDE DEF e
    <3>5. Clean' => Clean /\ Rest(box.q) = <<ev>> \o Rest(box'.q) /\ Rest(box'.q) \in Seq(Notices)
      BY <1>12, <1>17
    <3>6. CASE Moot(e, hist)
      BY <1>1, <1>2, <1>11, <3>1, <3>6, MootViews
    <3>7. CASE Sound(e.room, hist) /\ e.issue = <<>> /\ Buffered(room, ev, e.room)
      BY <1>2, <1>11, <2>2, <3>1, <3>3, <3>5, <3>7, BufferedViews
    <3>8. CASE Sound(e.room, hist) /\ e.issue = <<>> /\ IsConverged(room) /\ IsConverged(e.room)
               /\ Grows(room.known, <<ev>>, e.room.known)
      BY <1>2, <1>11, <2>2, <3>1, <3>3, <3>5, <3>8, ShownViews
    <3> QED BY <1>11, <3>4, <3>6, <3>7, <3>8
  <2> QED BY <2>1, <2>2
<1>18. CASE ev.type = "junk"
  <2>1. CASE ~IsTracked
    BY <1>3, <1>11, <1>13, <1>18, <2>1
  <2>2. CASE IsTracked
    <3> DEFINE e == OnJunk(room, epoch, FreshId)
    <3>1. Perform(e, reads)
      BY <1>3, <1>18, <2>2
    <3>2. /\ room \in Rooms /\ Sound(room, hist) /\ hist \in Seq(Nat) /\ Len(hist) >= 1
          /\ FreshId \in 0 .. 2
      BY <2>2, Watching
    <3>3. Moot(e, hist)
      BY <1>4, <3>2, JunkMoot
    <3> HIDE DEF e
    <3> QED BY <1>1, <1>2, <1>11, <3>1, <3>3, MootViews
  <2> QED BY <2>1, <2>2
<1> QED BY <1>9, <1>14, <1>15, <1>16, <1>17, <1>18

-----------------------------------------------------------------------------
(* The invariant of what a room shows                                      *)

\* The invariant holds at first.
LEMMA InitViews ==
  ASSUME Init
  PROVE  ViewInv
<1>1. hist = <<0>> /\ room = Untracked /\ reads = {} /\ box = EmptyBox /\ run = "new"
  BY DEF Init
<1>2. ~IsTracked
  BY <1>1 DEF IsTracked, Untracked
<1>3. Distinct(hist) /\ (\A i \in 1 .. Len(hist) : hist[i] < Len(hist)) /\ Legit(box.q, hist)
  BY <1>1 DEF Distinct, Legit, EmptyBox
<1>4. Contents
  BY <1>1, <1>2, <1>3 DEF Contents
<1>5. Reports
  BY <1>1, <1>2 DEF Reports, Listening
<1>6. Claims
  BY <1>2 DEF Claims
<1> QED BY <1>4, <1>5, <1>6, InitKeeps DEF ViewInv

\* Every step keeps it.
LEMMA NextViews ==
  ASSUME ViewInv, Next
  PROVE  ViewInv'
<1>1. RecInv'
  BY NextKeeps DEF ViewInv
<1>2. Contents' /\ Reports' /\ Claims'
  BY <1>1, SubscribeViews, StartViews, ActivateViews, DeactivateViews, StopViews, ResumeViews,
     DecodeFailedViews, CommitViews, InsertViews, JunkPushViews, LinkDownViews, LinkUpViews,
     ServeViews, ReadSettlesViews, ConsumeViews DEF Next, Control
<1> QED BY <1>1, <1>2 DEF ViewInv

\* So does a stuttering step.
LEMMA StutterViews ==
  ASSUME ViewInv, UNCHANGED vars
  PROVE  ViewInv'
<1>1. UNCHANGED <<hist, link, box, run, state, room, reads>>
  BY DEF vars, envVars, coreVars
<1>2. RecInv /\ Contents /\ Reports /\ Claims
  BY DEF ViewInv
<1>3. Legit(box'.q, hist)
  BY <1>1, <1>2 DEF Contents
<1>4. Clean' <=> Clean
  BY <1>1, CleanStays
<1>5. Contents' /\ Claims'
  BY <1>1, <1>2, <1>3, <1>4, RoomStays
<1>6. Reports'
  <2>1. IsTracked' => Running
    BY <1>1, <1>2 DEF Reports, IsTracked
  <2> QED BY <1>1, <1>2, <2>1, ReportsStay
<1> QED BY <1>2, <1>5, <1>6, StutterKeeps DEF ViewInv

\* What a room holds, scans and buffers was read or pushed; the mailbox leads the core to the
\* state of the link; and what a room shows, or is about to, leads with what it has yet to read
\* of the bus to the history (room.rs, converge and apply_live_event; event.rs, broadcast).
THEOREM ViewsAreSound == Spec => []ViewInv
<1>1. Init => ViewInv
  BY InitViews
<1>2. ViewInv /\ [Next]_vars => ViewInv'
  BY NextViews, StutterViews
<1> QED BY <1>1, <1>2, PTL DEF Spec

\* A mailbox that tells of no loss and no transition is clean.
LEMMA NothingTold ==
  ASSUME ViewInv, IsTracked, link = "Ready", box.lost = 0,
         \A i \in 1 .. Len(box.q) : box.q[i].type \notin {"lagged", "state"}
  PROVE  Clean /\ Rest(box.q) = box.q
<1> DEFINE q == box.q
<1>1. Reports /\ q \in Seq(Notices)
  BY Watching DEF ViewInv
<1>2. Running /\ Matches
  BY <1>1 DEF Reports, Listening, Running
<1>3. ~Tells(q)
  BY DEF Tells
<1>4. q # <<>> => q[1].type \notin {"lagged", "state"}
  <2>1. q # <<>> => 1 \in 1 .. Len(q)
    <3> HIDE DEF q
    <3> QED BY <1>1
  <2> QED BY <2>1
<1>5. ~ComesUp(q)
  BY <1>4 DEF ComesUp
<1>6. PICK a \in Links : Path(q, a, link) /\ a = state
  BY <1>2, <1>3, <1>5 DEF Matches
<1>7. state = "Ready"
  BY <1>1, <1>3, <1>6, MailSteady
<1>8. Rest(q) = q
  BY <1>4 DEF Rest
<1> QED BY <1>4, <1>7, <1>8 DEF Clean

\* A room that claims to be converged shows, at every position, the event the daemon's history
\* has there, unless the evidence against it is still unread or the transport is away (room.rs,
\* converge and apply_live_event).
THEOREM ViewReached == Spec => []ViewIsCommittedHistory
<1>1. ViewInv => ViewIsCommittedHistory
  <2> SUFFICES ASSUME ViewInv, IsTracked, IsConverged(room), link = "Ready",
                      NEW p \in 0 .. Watermark(room)
               PROVE  \/ p < Len(hist) /\ room.known[p + 1] = hist[p + 1]
                      \/ \E ev \in Unread : Repudiates(ev, p)
    BY DEF ViewIsCommittedHistory
  <2> DEFINE q == box.q
             t == room.known
  <2>1. t \in Seq(Nat) /\ hist \in Seq(Nat) /\ q \in Seq(Notices)
    BY Watching, RoomFields
  <2>2. \A i \in 1 .. Len(q) : q[i] \in Unread
    BY <2>1 DEF Unread, IdsOf
  <2>3. box.lost \in Nat
    <3>1. box \in Boxes(Len(hist)) /\ Len(hist) \in Nat
      BY DEF ViewInv, RecInv, Types
    <3> QED BY <3>1, Mailbox
  <2>4. CASE box.lost # 0
    <3>1. Lagged(box.lost) \in Unread
      BY <2>3, <2>4 DEF Unread
    <3> QED BY <3>1 DEF Repudiates, Lagged
  <2>5. CASE \E i \in 1 .. Len(q) : q[i].type \in {"lagged", "state"}
    BY <2>2, <2>5 DEF Repudiates
  <2>6. CASE box.lost = 0 /\ \A i \in 1 .. Len(q) : q[i].type \notin {"lagged", "state"}
    <3>1. Clean /\ Rest(q) = q
      BY <2>6, NothingTold
    <3>2. Tracks(hist, t, q)
      BY <3>1 DEF ViewInv, Claims, Leads
    <3>3. PICK k \in 0 .. Len(q) : TracksFrom(hist, t, q, k)
      BY <3>2 DEF Tracks
    <3>4. p + 1 \in 1 .. Len(t) /\ p + 1 - 1 = p /\ p \in Nat
      BY <2>1 DEF Watermark
    <3>5. GapAt(q, k, p) \/ (p + 1 <= Len(hist) /\ hist[p + 1] = t[p + 1])
      BY <3>3, <3>4 DEF TracksFrom
    <3>6. CASE GapAt(q, k, p)
      <4>1. PICK i \in k + 1 .. Len(q) : q[i].type = "gap" /\ q[i].from <= p
        BY <3>6 DEF GapAt
      <4>2. i \in 1 .. Len(q)
        BY <2>1, <3>3
      <4> QED BY <2>2, <4>1, <4>2 DEF Repudiates
    <3>7. CASE p + 1 <= Len(hist) /\ hist[p + 1] = t[p + 1]
      <4>1. p < Len(hist)
        BY <2>1, <3>4, <3>7
      <4> QED BY <3>7, <4>1
    <3> QED BY <3>5, <3>6, <3>7
  <2> QED BY <2>4, <2>5, <2>6
<1> QED BY <1>1, ViewsAreSound, PTL

\* When nothing is unread and the transport is up, a converged room has the whole history:
\* nothing that a push, a page or a buffer dropped on the way is missing (room.rs, converge).
THEOREM CurrentReached == Spec => []ConvergedIsCurrent
<1>1. ViewInv => ConvergedIsCurrent
  <2> SUFFICES ASSUME ViewInv, IsTracked, IsConverged(room), link = "Ready", Unread = {}
               PROVE  room.known = hist
    BY DEF ConvergedIsCurrent
  <2> DEFINE q == box.q
             t == room.known
             h == hist
  <2>1. t \in Seq(Nat) /\ h \in Seq(Nat) /\ q \in Seq(Notices)
    BY Watching, RoomFields
  <2>2. box.lost = 0
    <3>1. box \in Boxes(Len(hist)) /\ Len(hist) \in Nat
      BY DEF ViewInv, RecInv, Types
    <3>2. box.lost \in Nat
      BY <3>1, Mailbox
    <3> QED BY <3>2 DEF Unread
  <2>3. q = <<>> /\ Len(q) = 0
    <3>1. IdsOf(q) = {}
      BY DEF Unread
    <3> HIDE DEF q
    <3>2. DOMAIN q = 1 .. Len(q) /\ Len(q) \in Nat
      BY <2>1
    <3>3. \A i \in 1 .. Len(q) : q[i] \in IdsOf(q)
      BY <3>2 DEF IdsOf
    <3>4. Len(q) = 0
      <4>1. 1 \notin 1 .. Len(q)
        BY <3>1, <3>3
      <4> QED BY <3>2, <4>1
    <3> QED BY <2>1, <3>4
  <2>4. Clean /\ Rest(q) = q
    <3>1. 1 .. Len(q) = {}
      BY <2>3
    <3> QED BY <2>2, <3>1, NothingTold
  <2>5. Tracks(h, t, q)
    BY <2>4 DEF ViewInv, Claims, Leads
  <2>6. TracksFrom(h, t, q, 0)
    BY <2>3, <2>5 DEF Tracks
  <2> HIDE DEF q, t, h
  <2>7. \A p \in 1 .. Len(t) : p <= Len(h) /\ h[p] = t[p]
    BY <2>3, <2>6 DEF TracksFrom, GapAt
  <2>8. Len(h) = Len(t)
    <3>1. Plain(q, 0, Len(q))
      BY <2>3 DEF Plain
    <3>2. Len(h) = Len(t) + Len(q) - 0
      BY <2>6, <3>1 DEF TracksFrom
    <3> QED BY <2>1, <2>3, <3>2
  <2>9. t = h
    BY <2>1, <2>7, <2>8, SeqEqual
  <2> QED BY <2>9 DEF t, h
<1> QED BY <1>1, ViewsAreSound, PTL
=============================================================================
