-------------------------- MODULE PushFanoutProofs --------------------------
(***************************************************************************)
(* Theorems about PushFanout: for any number of collectors, events and     *)
(* sessions, no event is pushed twice, and a client that was sent nothing  *)
(* to contradict its copy holds the history once everything was pushed.    *)
(***************************************************************************)
EXTENDS PushFanout, SequenceTheorems, FiniteSetTheorems, WellFoundedInduction, TLAPS

-----------------------------------------------------------------------------
(* The inductive invariant                                                 *)

Sessions == [seen : SUBSET Nat, next_push_rank : Nat]
Items    == [id : Nat, pos : Nat, gap : BOOLEAN]
Readings == [at : {"read"}, rows : Seq(Nat), session : Nat]
Batches  == [at : {"emit"}, out : SUBSET Items]

Distinct(s) == \A i, j \in DOMAIN s : s[i] = s[j] => i = j

PushTypes ==
  /\ tail \in Seq(Nat) /\ pushed \in Seq(Nat)
  /\ sessions \in Seq(Sessions) /\ sessions # <<>>
  /\ task \in [Tasks -> {Idle} \cup Readings \cup Batches]

Reading(t) == task[t].at = "read"
Emitting(t) == task[t].at = "emit"

\* The history holds each event once, and the next one is new to it.
HistoryGrows ==
  /\ Distinct(tail)
  /\ \A i \in DOMAIN tail : tail[i] < Len(tail)
  /\ \A k \in DOMAIN sessions : sessions[k].seen \subseteq Ids(tail)

\* Taken for emission: pushed already, or held by a collector.
Taken(x) == x \in Ids(pushed) \/ \E t \in Tasks : x \in Pending(t)

\* What was taken is seen by the session of today.
TakenSeen == \A x : Taken(x) => x \in sessions[Len(sessions)].seen

\* Rows read under a session are part of every later session's seed, and what
\* they would add to their own session is taken by nobody.
RowsFresh ==
  \A t \in Tasks : Reading(t) =>
    /\ Distinct(task[t].rows) /\ Ids(task[t].rows) \subseteq Ids(tail)
    /\ task[t].session \in DOMAIN sessions
    /\ \A k \in DOMAIN sessions :
         task[t].session < k => Ids(task[t].rows) \subseteq sessions[k].seen
    /\ \A x \in Ids(task[t].rows) :
         x \notin sessions[task[t].session].seen => ~Taken(x)

\* A collector holds an event once, and no two at one position.
BatchesDistinct ==
  \A t \in Tasks : Emitting(t) =>
    /\ task[t].out # {}
    /\ \A e, f \in task[t].out : e.id = f.id \/ e.pos = f.pos => e = f

PushInv ==
  /\ PushTypes /\ HistoryGrows /\ TakenSeen /\ RowsFresh /\ BatchesDistinct /\ PushedOnce

-----------------------------------------------------------------------------
(* Least and greatest                                                      *)

LEMMA Least ==
  ASSUME NEW S, S \subseteq Nat, S # {}
  PROVE  \E m \in S : \A k \in S : m <= k
<1> DEFINE R == {ss \in Nat \X Nat : ss[1] < ss[2]}
<1>1. OpToRel(<, Nat) = R
  BY DEF OpToRel
<1>2. IsWellFoundedOn(R, Nat)
  BY <1>1, NatLessThanWellFounded
<1>3. PICK m \in S : \A k \in S : <<k, m>> \notin R
  BY <1>2, WFMin
<1>4. ASSUME NEW k \in S PROVE m <= k
  <2>1. k \in Nat /\ m \in Nat
    OBVIOUS
  <2>2. ~(k < m)
    BY <1>3, <2>1
  <2> QED BY <2>1, <2>2
<1> QED BY <1>4

LEMMA Greatest ==
  ASSUME NEW n \in Nat, NEW S, S \subseteq 0..n, S # {}
  PROVE  \E m \in S : \A k \in S : m >= k
<1> DEFINE D == {n - k : k \in S}
<1>1. D \subseteq Nat /\ D # {}
  <2>1. \A k \in S : n - k \in Nat
    OBVIOUS
  <2> QED BY <2>1
<1>2. PICK d \in D : \A x \in D : d <= x
  BY <1>1, Least
<1>3. PICK m \in S : d = n - m
  OBVIOUS
<1>4. ASSUME NEW k \in S PROVE m >= k
  <2>1. d <= n - k
    BY <1>2
  <2> QED BY <1>3, <2>1
<1> QED BY <1>4

\* emit_committed starts with an event it holds.
LEMMA LowestHeld ==
  ASSUME NEW out, out \subseteq Items, out # {}
  PROVE  Lowest(out) \in out
<1> DEFINE P == {e.pos : e \in out}
<1>1. P \subseteq Nat /\ P # {}
  BY DEF Items
<1>2. PICK p \in P : \A q \in P : p <= q
  BY <1>1, Least
<1>3. PICK e \in out : e.pos = p
  OBVIOUS
<1>4. \A f \in out : e.pos <= f.pos
  BY <1>2, <1>3
<1> QED BY <1>4 DEF Lowest

-----------------------------------------------------------------------------
(* Collecting                                                              *)

\* A session afterwards has seen the rows too.
LEMMA MarkedSees ==
  ASSUME NEW rows \in Seq(Nat), NEW s \in Sessions
  PROVE  Marked(rows, s) \in Sessions /\ Marked(rows, s).seen = s.seen \cup Ids(rows)
<1>1. CASE New(rows, s) = {}
  <2>1. Ids(rows) \subseteq s.seen
    BY <1>1 DEF New, Ids
  <2> QED BY <1>1, <2>1 DEF Marked
<1>2. CASE New(rows, s) # {}
  <2> DEFINE k == LastOf(New(rows, s))
             mark == IF Reorders(k, rows, s) THEN k - 1 ELSE k
  <2>1. New(rows, s) \subseteq 0..Len(rows) /\ New(rows, s) \subseteq DOMAIN rows /\ Len(rows) \in Nat
    BY DEF New
  <2>2. \E m \in New(rows, s) : \A j \in New(rows, s) : m >= j
    BY <1>2, <2>1, Greatest
  <2>3. k \in DOMAIN rows
    BY <2>1, <2>2 DEF LastOf
  <2>4. mark \in Nat
    BY <2>3
  <2>5. Marked(rows, s) = [seen |-> s.seen \cup Ids(rows), next_push_rank |-> mark]
    BY <1>2 DEF Marked
  <2>6. Ids(rows) \subseteq Nat
    BY DEF Ids
  <2> HIDE DEF mark
  <2> QED BY <2>4, <2>5, <2>6 DEF Sessions
<1> QED BY <1>1, <1>2

LEMMA CollectedItems ==
  ASSUME NEW rows \in Seq(Nat), Distinct(rows), NEW s
  PROVE  /\ Collected(rows, s) \subseteq Items
         /\ {e.id : e \in Collected(rows, s)} = Ids(rows) \ s.seen
         /\ \A e, f \in Collected(rows, s) : e.id = f.id \/ e.pos = f.pos => e = f
<1> DEFINE item(k) == [id |-> rows[k], pos |-> k - 1, gap |-> Reorders(k, rows, s)]
<1>1. \A k \in New(rows, s) : k \in DOMAIN rows /\ k \in Nat \ {0} /\ rows[k] \in Nat
  BY DEF New
<1>2. \A k : Reorders(k, rows, s) \in BOOLEAN
  BY DEF Reorders
<1>3. \A k \in New(rows, s) : item(k) \in Items
  BY <1>1, <1>2 DEF Items
<1>4. Collected(rows, s) = {item(k) : k \in New(rows, s)}
  BY DEF Collected
<1>5. \A k : item(k).id = rows[k] /\ item(k).pos = k - 1
  OBVIOUS
<1>6. ASSUME NEW j \in New(rows, s), NEW k \in New(rows, s),
             item(j).id = item(k).id \/ item(j).pos = item(k).pos
      PROVE  item(j) = item(k)
  <2>1. j = k
    BY <1>1, <1>6 DEF Distinct
  <2> QED BY <2>1
<1> HIDE DEF item
<1>7. ASSUME NEW e \in Collected(rows, s) PROVE e.id \in Ids(rows) \ s.seen
  <2>1. PICK k \in New(rows, s) : e = item(k)
    BY <1>4
  <2>2. e.id = rows[k]
    BY <1>5, <2>1
  <2> QED BY <2>2 DEF New, Ids
<1>8. ASSUME NEW x \in Ids(rows) \ s.seen PROVE \E e \in Collected(rows, s) : e.id = x
  <2>1. PICK k \in New(rows, s) : x = rows[k]
    BY DEF New, Ids
  <2>2. item(k) \in Collected(rows, s) /\ item(k).id = x
    BY <1>4, <1>5, <2>1
  <2> QED BY <2>2
<1>9. Collected(rows, s) \subseteq Items
  BY <1>3, <1>4
<1>10. \A e, f \in Collected(rows, s) : e.id = f.id \/ e.pos = f.pos => e = f
  <2> SUFFICES ASSUME NEW e \in Collected(rows, s), NEW f \in Collected(rows, s),
                      e.id = f.id \/ e.pos = f.pos
               PROVE  e = f
    OBVIOUS
  <2>1. PICK j \in New(rows, s) : e = item(j)
    BY <1>4
  <2>2. PICK k \in New(rows, s) : f = item(k)
    BY <1>4
  <2> QED BY <1>6, <2>1, <2>2
<1> QED BY <1>7, <1>8, <1>9, <1>10

-----------------------------------------------------------------------------
(* One lemma per action                                                    *)

LEMMA LenFacts ==
  ASSUME NEW S, NEW s \in Seq(S)
  PROVE  Len(s) \in Nat /\ DOMAIN s = 1..Len(s) /\ \A i \in DOMAIN s : s[i] \in S
  OBVIOUS

\* insertion of the next event behind position r
LEMMA TailInserted ==
  ASSUME PushInv, NEW r, Commit(r)
  PROVE  /\ r \in 1..Len(tail) /\ DOMAIN tail = 1..Len(tail) /\ Len(tail) \in Nat
         /\ tail' \in Seq(Nat) /\ Len(tail') = Len(tail) + 1
         /\ DOMAIN tail' = 1..(Len(tail) + 1)
         /\ \A i \in 1..(Len(tail) + 1) :
              tail'[i] = IF i <= r THEN tail[i]
                         ELSE IF i = r + 1 THEN Len(tail) ELSE tail[i - 1]
<1> DEFINE n == Len(tail)
<1>1. n \in Nat /\ DOMAIN tail = 1..n /\ r \in 1..n /\ tail \in Seq(Nat)
  BY DEF PushInv, PushTypes, Commit
<1>2. tail' = SubSeq(tail, 1, r) \o <<n>> \o SubSeq(tail, r + 1, n)
  BY DEF Commit
<1>3. /\ tail' \in Seq(Nat) /\ Len(tail') = n + 1 /\ DOMAIN tail' = 1..(n + 1)
      /\ \A i \in 1..(n + 1) :
           tail'[i] = IF i <= r THEN tail[i] ELSE IF i = r + 1 THEN n ELSE tail[i - 1]
  <2> DEFINE a == SubSeq(tail, 1, r)
             b == <<n>>
             c == SubSeq(tail, r + 1, n)
             ab == a \o b
  <2>1. a \in Seq(Nat) /\ Len(a) = r /\ \A i \in 1..r : a[i] = tail[i]
    BY <1>1
  <2>2. b \in Seq(Nat) /\ Len(b) = 1 /\ b[1] = n
    BY <1>1
  <2>3. c \in Seq(Nat) /\ Len(c) = n - r /\ \A i \in 1..(n - r) : c[i] = tail[r + i]
    <3>1. r + 1 \in Int /\ n \in Int /\ \A i \in (r + 1)..n : tail[i] \in Nat
      BY <1>1
    <3>2. /\ c \in Seq(Nat)
          /\ Len(c) = IF r + 1 <= n THEN n - (r + 1) + 1 ELSE 0
          /\ \A i \in 1..(n - (r + 1) + 1) : c[i] = tail[(r + 1) + i - 1]
      BY <3>1, SubSeqProperties
    <3>3. n - (r + 1) + 1 = n - r /\ (~(r + 1 <= n) => n - r = 0)
      <4>1. n \in Nat /\ r \in Nat /\ r <= n
        BY <1>1
      <4> HIDE DEF n
      <4> QED BY <4>1
    <3>4. \A i \in 1..(n - r) : (r + 1) + i - 1 = r + i
      BY <1>1
    <3> HIDE DEF c
    <3> QED BY <3>2, <3>3, <3>4
  <2>4. tail' = ab \o c
    BY <1>2
  <2> HIDE DEF a, b, c, n
  <2>5. /\ ab \in Seq(Nat) /\ Len(ab) = Len(a) + Len(b)
        /\ \A i \in 1..(Len(a) + Len(b)) : ab[i] = IF i <= Len(a) THEN a[i] ELSE b[i - Len(a)]
    BY <2>1, <2>2, ConcatProperties
  <2> HIDE DEF ab
  <2>6. /\ Len(ab) = r + 1
        /\ \A i \in 1..(r + 1) : ab[i] = IF i <= r THEN tail[i] ELSE n
    <3>1. \A i \in 1..(r + 1) : i <= r \/ i - r = 1
      BY <1>1
    <3> QED BY <1>1, <2>1, <2>2, <2>5, <3>1
  <2>7. /\ tail' \in Seq(Nat) /\ Len(tail') = Len(ab) + Len(c)
        /\ \A i \in 1..(Len(ab) + Len(c)) :
             tail'[i] = IF i <= Len(ab) THEN ab[i] ELSE c[i - Len(ab)]
    <3>1. /\ ab \o c \in Seq(Nat) /\ Len(ab \o c) = Len(ab) + Len(c)
          /\ \A i \in 1..(Len(ab) + Len(c)) :
               (ab \o c)[i] = IF i <= Len(ab) THEN ab[i] ELSE c[i - Len(ab)]
      BY <2>3, <2>5, ConcatProperties
    <3> QED BY <2>4, <3>1
  <2>8. /\ Len(tail') = n + 1
        /\ \A i \in 1..(n + 1) : tail'[i] = IF i <= r + 1 THEN ab[i] ELSE c[i - (r + 1)]
    <3>1. Len(ab) + Len(c) = n + 1
      BY <1>1, <2>3, <2>6
    <3> QED BY <2>6, <2>7, <3>1
  <2>9. DOMAIN tail' = 1..(n + 1)
    BY <2>7, <2>8
  <2>10. \A i \in 1..(n + 1) : tail'[i] = IF i <= r THEN tail[i] ELSE IF i = r + 1 THEN n ELSE tail[i - 1]
    <3> SUFFICES ASSUME NEW i \in 1..(n + 1)
                 PROVE tail'[i] = IF i <= r THEN tail[i] ELSE IF i = r + 1 THEN n ELSE tail[i - 1]
      OBVIOUS
    <3>1. CASE i <= r + 1
      <4>1. i \in 1..(r + 1) /\ (~(i <= r) => i = r + 1)
        BY <1>1, <3>1
      <4> QED BY <2>6, <2>8, <3>1, <4>1
    <3>2. CASE ~(i <= r + 1)
      <4>1. i - (r + 1) \in 1..(n - r) /\ r + (i - (r + 1)) = i - 1 /\ ~(i <= r) /\ i # r + 1
        BY <1>1, <3>2
      <4> QED BY <2>3, <2>8, <3>2, <4>1
    <3> QED BY <3>1, <3>2
  <2> QED BY <2>7, <2>8, <2>9, <2>10
<1> QED BY <1>1, <1>3

LEMMA TailGrows ==
  ASSUME PushInv, NEW r, Commit(r)
  PROVE  /\ tail' \in Seq(Nat) /\ Distinct(tail')
         /\ \A i \in DOMAIN tail' : tail'[i] < Len(tail')
         /\ Ids(tail) \subseteq Ids(tail')
<1> DEFINE n == Len(tail)
<1>1. n \in Nat /\ DOMAIN tail = 1..n /\ r \in 1..n /\ tail \in Seq(Nat)
  BY DEF PushInv, PushTypes, Commit
<1>3. /\ tail' \in Seq(Nat) /\ Len(tail') = n + 1 /\ DOMAIN tail' = 1..(n + 1)
      /\ \A i \in 1..(n + 1) :
           tail'[i] = IF i <= r THEN tail[i] ELSE IF i = r + 1 THEN n ELSE tail[i - 1]
  BY TailInserted
<1>4. \A i \in DOMAIN tail : tail[i] < n /\ tail[i] \in Nat
  BY <1>1 DEF PushInv, HistoryGrows
<1>5. \A i, j \in DOMAIN tail : tail[i] = tail[j] => i = j
  BY DEF PushInv, HistoryGrows, Distinct
<1> HIDE DEF n
<1>6. \A i \in 1..(n + 1) : i > r + 1 => i - 1 \in DOMAIN tail
  BY <1>1
<1>7. \A i \in 1..(n + 1) : i <= r => i \in DOMAIN tail
  BY <1>1
<1>8. \A i \in DOMAIN tail' : tail'[i] < Len(tail')
  <2> SUFFICES ASSUME NEW i \in 1..(n + 1) PROVE tail'[i] < n + 1
    BY <1>3
  <2>1. CASE i = r + 1
    BY <1>1, <1>3, <2>1
  <2>2. CASE i # r + 1
    <3>1. PICK j \in DOMAIN tail : tail'[i] = tail[j]
      <4>1. CASE i <= r
        BY <1>3, <1>7, <4>1
      <4>2. CASE ~(i <= r)
        <5>1. i > r + 1
          BY <1>1, <2>2, <4>2
        <5> QED BY <1>3, <1>6, <2>2, <4>2, <5>1
      <4> QED BY <4>1, <4>2
    <3>2. tail[j] < n /\ tail[j] \in Nat
      BY <1>4
    <3> QED BY <1>1, <3>1, <3>2
  <2> QED BY <2>1, <2>2
<1>9. Distinct(tail')
  <2> DEFINE at(i) == IF i <= r THEN i ELSE i - 1
  <2>1. \A i \in 1..(n + 1) : i # r + 1 => at(i) \in DOMAIN tail /\ tail'[i] = tail[at(i)]
    BY <1>1, <1>3, <1>6, <1>7
  <2>2. \A i, j \in 1..(n + 1) : i # r + 1 /\ j # r + 1 /\ at(i) = at(j) => i = j
    BY <1>1
  <2> HIDE DEF at
  <2> SUFFICES ASSUME NEW i \in 1..(n + 1), NEW j \in 1..(n + 1), tail'[i] = tail'[j]
               PROVE  i = j
    BY <1>3 DEF Distinct
  <2>3. tail'[r + 1] = n
    BY <1>1, <1>3
  <2>4. i # r + 1 => tail'[i] # n
    BY <1>1, <1>4, <2>1
  <2>5. j # r + 1 => tail'[j] # n
    BY <1>1, <1>4, <2>1
  <2>6. CASE i = r + 1 \/ j = r + 1
    BY <2>3, <2>4, <2>5, <2>6
  <2>7. CASE i # r + 1 /\ j # r + 1
    BY <1>5, <2>1, <2>2, <2>7
  <2> QED BY <2>6, <2>7
<1>10. Ids(tail) \subseteq Ids(tail')
  <2> SUFFICES ASSUME NEW i \in DOMAIN tail PROVE \E j \in DOMAIN tail' : tail'[j] = tail[i]
    BY DEF Ids
  <2>1. i \in 1..n
    BY <1>1
  <2>2. CASE i <= r
    <3>1. i \in 1..(n + 1)
      BY <1>1, <2>1
    <3> QED BY <1>3, <2>2, <3>1
  <2>3. CASE i > r
    <3>1. i + 1 \in 1..(n + 1) /\ ~(i + 1 <= r) /\ i + 1 # r + 1 /\ (i + 1) - 1 = i
      BY <1>1, <2>1, <2>3
    <3> QED BY <1>3, <3>1
  <2> QED BY <1>1, <2>1, <2>2, <2>3
<1> QED BY <1>3, <1>8, <1>9, <1>10

\* What is taken and held does not change.
LEMMA HeldStays ==
  ASSUME UNCHANGED pushed, \A t \in Tasks : Pending(t)' = Pending(t)
  PROVE  /\ \A x : Taken(x)' = Taken(x)
         /\ PushedOnce => PushedOnce'
  BY DEF Taken, PushedOnce

LEMMA CommitPreserves ==
  ASSUME PushInv, NEW r, Commit(r) PROVE PushInv'
<1>1. UNCHANGED <<sessions, task, pushed>>
  BY DEF Commit
<1>2. \A t \in Tasks : Pending(t)' = Pending(t)
  BY <1>1 DEF Pending
<1>3. PushTypes'
  BY <1>1, TailGrows DEF PushInv, PushTypes
<1>4. HistoryGrows'
  BY <1>1, TailGrows DEF PushInv, HistoryGrows
<1>5. TakenSeen'
  BY <1>1, <1>2, HeldStays DEF PushInv, TakenSeen
<1>6. RowsFresh'
  <2>1. \A t \in Tasks : Reading(t) => Ids(task[t].rows) \subseteq Ids(tail')
    BY TailGrows DEF PushInv, RowsFresh
  <2> QED BY <1>1, <1>2, <2>1, HeldStays DEF PushInv, RowsFresh, Reading
<1>7. BatchesDistinct' /\ PushedOnce'
  BY <1>1, <1>2, HeldStays DEF PushInv, BatchesDistinct, Emitting
<1> QED BY <1>3, <1>4, <1>5, <1>6, <1>7 DEF PushInv

LEMMA LapsePreserves ==
  ASSUME PushInv, Lapse PROVE PushInv'
<1> DEFINE n == Len(sessions)
           s == Seeded(tail)
<1>1. UNCHANGED <<tail, task, pushed>> /\ sessions' = Append(sessions, s)
  BY DEF Lapse
<1>2. \A t \in Tasks : Pending(t)' = Pending(t)
  BY <1>1 DEF Pending
<1>3. n \in Nat /\ n > 0 /\ DOMAIN sessions = 1..n /\ sessions \in Seq(Sessions)
  BY DEF PushInv, PushTypes
<1>4. s \in Sessions /\ s.seen = Ids(tail)
  <2>1. Len(tail) \in Nat /\ Ids(tail) \subseteq Nat
    BY DEF PushInv, PushTypes, Ids
  <2> QED BY <2>1 DEF Seeded, Sessions
<1> HIDE DEF s
<1>5. /\ sessions' \in Seq(Sessions) /\ sessions' # <<>> /\ Len(sessions') = n + 1
      /\ DOMAIN sessions' = 1..(n + 1) /\ sessions'[n + 1] = s
      /\ \A k \in DOMAIN sessions : sessions'[k] = sessions[k]
  BY <1>1, <1>3, <1>4
<1> HIDE DEF n
<1>6. \A k \in DOMAIN sessions' : k \in DOMAIN sessions \/ k = n + 1
  BY <1>3, <1>5
<1>7. PushTypes'
  BY <1>1, <1>5 DEF PushInv, PushTypes
<1>8. HistoryGrows'
  BY <1>1, <1>4, <1>5, <1>6 DEF PushInv, HistoryGrows
<1>9. TakenSeen'
  <2>1. \A x : Taken(x) => x \in Ids(tail)
    BY <1>3 DEF PushInv, TakenSeen, HistoryGrows, n
  <2> QED BY <1>1, <1>2, <1>4, <1>5, <2>1, HeldStays DEF TakenSeen
<1>10. RowsFresh'
  <2> SUFFICES ASSUME NEW t \in Tasks, Reading(t)
               PROVE  /\ Distinct(task[t].rows) /\ Ids(task[t].rows) \subseteq Ids(tail)
                      /\ task[t].session \in DOMAIN sessions'
                      /\ \A k \in DOMAIN sessions' :
                           task[t].session < k => Ids(task[t].rows) \subseteq sessions'[k].seen
                      /\ \A x \in Ids(task[t].rows) :
                           x \notin sessions'[task[t].session].seen => ~Taken(x)
    BY <1>1, <1>2, HeldStays DEF RowsFresh, Reading
  <2>1. /\ Distinct(task[t].rows) /\ Ids(task[t].rows) \subseteq Ids(tail)
        /\ task[t].session \in DOMAIN sessions
        /\ \A k \in DOMAIN sessions :
             task[t].session < k => Ids(task[t].rows) \subseteq sessions[k].seen
        /\ \A x \in Ids(task[t].rows) :
             x \notin sessions[task[t].session].seen => ~Taken(x)
    BY DEF PushInv, RowsFresh
  <2>2. task[t].session \in DOMAIN sessions'
    BY <1>3, <1>5, <2>1
  <2> QED BY <1>4, <1>5, <1>6, <2>1, <2>2
<1>11. BatchesDistinct' /\ PushedOnce'
  BY <1>1, <1>2, HeldStays DEF PushInv, BatchesDistinct, Emitting
<1> QED BY <1>7, <1>8, <1>9, <1>10, <1>11 DEF PushInv

LEMMA ReadPreserves ==
  ASSUME PushInv, NEW t \in Tasks, ReadTail(t) PROVE PushInv'
<1> DEFINE reading == [at |-> "read", rows |-> tail, session |-> Len(sessions)]
<1>1. UNCHANGED <<tail, sessions, pushed>> /\ task[t].at = "idle"
      /\ task' = [task EXCEPT ![t] = reading]
  BY DEF ReadTail
<1>2. reading \in Readings /\ Len(sessions) \in DOMAIN sessions /\ Len(sessions) \in Nat
      /\ DOMAIN sessions = 1..Len(sessions)
  BY DEF PushInv, PushTypes, Readings
<1>3. reading.at = "read" /\ reading.rows = tail /\ reading.session = Len(sessions)
  OBVIOUS
<1> HIDE DEF reading
<1>4. /\ task' \in [Tasks -> {Idle} \cup Readings \cup Batches] /\ task'[t] = reading
      /\ \A u \in Tasks : u # t => task'[u] = task[u]
  BY <1>1, <1>2 DEF PushInv, PushTypes
<1>5. \A u \in Tasks : Pending(u)' = Pending(u)
  BY <1>1, <1>3, <1>4 DEF Pending
<1>6. PushTypes' /\ HistoryGrows'
  BY <1>1, <1>4 DEF PushInv, PushTypes, HistoryGrows
<1>7. TakenSeen'
  BY <1>1, <1>5, HeldStays DEF PushInv, TakenSeen
<1>8. RowsFresh'
  <2>1. \A k \in DOMAIN sessions : ~(Len(sessions) < k)
    BY <1>2
  <2>2. /\ Distinct(tail)
        /\ \A x \in Ids(tail) : x \notin sessions[Len(sessions)].seen => ~Taken(x)
    BY DEF PushInv, HistoryGrows, TakenSeen
  <2> QED BY <1>1, <1>2, <1>3, <1>4, <1>5, <2>1, <2>2, HeldStays DEF PushInv, RowsFresh, Reading
<1>9. BatchesDistinct' /\ PushedOnce'
  BY <1>1, <1>3, <1>4, <1>5, HeldStays DEF PushInv, BatchesDistinct, Emitting
<1> QED BY <1>6, <1>7, <1>8, <1>9 DEF PushInv

LEMMA CollectPreserves ==
  ASSUME PushInv, NEW t \in Tasks, Collect(t) PROVE PushInv'
<1> DEFINE i    == task[t].session
           rows == task[t].rows
           s    == sessions[i]
           out  == Collected(rows, s)
           next == Marked(rows, s)
           N    == Ids(rows) \ s.seen
           held == IF out = {} THEN Idle ELSE [at |-> "emit", out |-> out]
<1>1. UNCHANGED <<tail, pushed>> /\ Reading(t)
      /\ sessions' = [sessions EXCEPT ![i] = next] /\ task' = [task EXCEPT ![t] = held]
  BY DEF Collect, Reading
<1>2. rows \in Seq(Nat) /\ i \in Nat
  BY <1>1 DEF PushInv, PushTypes, Reading, Readings, Batches, Idle
<1>3. /\ sessions \in Seq(Sessions) /\ Len(sessions) \in Nat \ {0}
      /\ DOMAIN sessions = 1..Len(sessions)
  BY DEF PushInv, PushTypes
<1>4. /\ Distinct(rows) /\ Ids(rows) \subseteq Ids(tail) /\ i \in DOMAIN sessions
      /\ \A k \in DOMAIN sessions : i < k => Ids(rows) \subseteq sessions[k].seen
      /\ \A x \in N : ~Taken(x)
  BY <1>1 DEF PushInv, RowsFresh
<1>5. s \in Sessions
  BY <1>3, <1>4
<1>6. next \in Sessions /\ next.seen = s.seen \cup Ids(rows)
  BY <1>2, <1>5, MarkedSees
<1>7. /\ out \subseteq Items /\ {e.id : e \in out} = N
      /\ \A e, f \in out : e.id = f.id \/ e.pos = f.pos => e = f
  BY <1>2, <1>4, CollectedItems
<1> HIDE DEF next, out
<1>8. /\ sessions' \in Seq(Sessions) /\ sessions' # <<>> /\ Len(sessions') = Len(sessions)
      /\ DOMAIN sessions' = DOMAIN sessions
      /\ \A k \in DOMAIN sessions :
           sessions'[k].seen = IF k = i THEN sessions[k].seen \cup Ids(rows) ELSE sessions[k].seen
  <2>1. /\ sessions' \in Seq(Sessions) /\ Len(sessions') = Len(sessions)
        /\ DOMAIN sessions' = DOMAIN sessions
        /\ \A k \in DOMAIN sessions : sessions'[k] = IF k = i THEN next ELSE sessions[k]
    BY <1>1, <1>3, <1>4, <1>6
  <2>2. sessions' # <<>>
    BY <1>3, <2>1
  <2> QED BY <1>6, <2>1, <2>2
<1>9. /\ held \in {Idle} \cup Batches /\ held.at # "read"
      /\ held.at = "emit" => held.out = out /\ out # {}
      /\ (IF held.at = "emit" THEN {e.id : e \in held.out} ELSE {}) = N
  <2>1. CASE out = {}
    <3>1. held = Idle /\ N = {}
      BY <1>7, <2>1
    <3> QED BY <3>1 DEF Idle
  <2>2. CASE out # {}
    <3>1. held = [at |-> "emit", out |-> out]
      BY <2>2
    <3> QED BY <1>7, <2>2, <3>1 DEF Batches
  <2> QED BY <2>1, <2>2
<1> HIDE DEF held
<1>10. /\ task' \in [Tasks -> {Idle} \cup Readings \cup Batches] /\ task'[t] = held
       /\ \A u \in Tasks : u # t => task'[u] = task[u]
  BY <1>1, <1>9 DEF PushInv, PushTypes
<1>11. /\ Pending(t) = {} /\ Pending(t)' = N
       /\ \A u \in Tasks : u # t => Pending(u)' = Pending(u)
  BY <1>1, <1>9, <1>10 DEF Pending, Reading
<1>12. \A x : Taken(x)' => Taken(x) \/ x \in N
  BY <1>1, <1>11 DEF Taken
<1>13. PushTypes'
  BY <1>1, <1>8, <1>10 DEF PushInv, PushTypes
<1>14. HistoryGrows'
  BY <1>1, <1>4, <1>8 DEF PushInv, HistoryGrows
<1>15. TakenSeen'
  <2> SUFFICES ASSUME NEW x, Taken(x) \/ x \in N PROVE x \in sessions'[Len(sessions)].seen
    BY <1>8, <1>12 DEF TakenSeen
  <2>1. Len(sessions) \in DOMAIN sessions /\ (i = Len(sessions) \/ i < Len(sessions))
    BY <1>2, <1>3, <1>4
  <2>2. CASE Taken(x)
    BY <1>8, <2>1, <2>2 DEF PushInv, TakenSeen
  <2>3. CASE x \in N
    BY <1>4, <1>8, <2>1, <2>3
  <2> QED BY <2>2, <2>3
<1>16. RowsFresh'
  <2> SUFFICES ASSUME NEW u \in Tasks, u # t, Reading(u)
               PROVE  /\ Distinct(task[u].rows) /\ Ids(task[u].rows) \subseteq Ids(tail)
                      /\ task[u].session \in DOMAIN sessions
                      /\ \A k \in DOMAIN sessions :
                           task[u].session < k => Ids(task[u].rows) \subseteq sessions'[k].seen
                      /\ \A x \in Ids(task[u].rows) :
                           x \notin sessions'[task[u].session].seen => ~Taken(x)'
    BY <1>1, <1>8, <1>9, <1>10 DEF RowsFresh, Reading
  <2> DEFINE j == task[u].session
  <2>1. /\ Distinct(task[u].rows) /\ Ids(task[u].rows) \subseteq Ids(tail)
        /\ j \in DOMAIN sessions
        /\ \A k \in DOMAIN sessions : j < k => Ids(task[u].rows) \subseteq sessions[k].seen
        /\ \A x \in Ids(task[u].rows) : x \notin sessions[j].seen => ~Taken(x)
    BY DEF PushInv, RowsFresh
  <2>2. i = j \/ i < j \/ j < i
    BY <1>3, <1>4, <2>1
  <2> HIDE DEF j
  <2>3. ASSUME NEW x \in Ids(task[u].rows), x \notin sessions'[j].seen
        PROVE  ~Taken(x)'
    <3>1. x \notin sessions[j].seen /\ ~Taken(x)
      BY <1>8, <2>1, <2>3
    <3>2. x \notin N
      BY <1>4, <1>8, <2>1, <2>2, <2>3, <3>1
    <3> QED BY <1>12, <3>1, <3>2
  <2> QED BY <1>8, <2>1, <2>3 DEF j
<1>17. BatchesDistinct'
  BY <1>7, <1>9, <1>10 DEF PushInv, BatchesDistinct, Emitting
<1>18. PushedOnce'
  <2>1. N \cap Ids(pushed) = {} /\ \A u \in Tasks : N \cap Pending(u) = {}
    BY <1>4 DEF Taken
  <2> QED BY <1>1, <1>11, <2>1 DEF PushInv, PushedOnce
<1> QED BY <1>13, <1>14, <1>15, <1>16, <1>17, <1>18 DEF PushInv

\* The batch of an emitting collector, and what it emits next.
LEMMA EmitFacts ==
  ASSUME PushInv, NEW t \in Tasks, Emitting(t)
  PROVE  /\ task[t] \in Batches /\ task[t] = [at |-> "emit", out |-> task[t].out]
         /\ task[t].out \subseteq Items /\ Lowest(task[t].out) \in task[t].out
         /\ \A e, f \in task[t].out : e.id = f.id \/ e.pos = f.pos => e = f
         /\ Pending(t) = {e.id : e \in task[t].out}
<1>1. task[t] \in Batches
  BY DEF PushInv, PushTypes, Emitting, Readings, Idle
<1>2. task[t] = [at |-> "emit", out |-> task[t].out] /\ task[t].out \subseteq Items
  BY <1>1 DEF Batches
<1>3. task[t].out # {} /\ \A e, f \in task[t].out : e.id = f.id \/ e.pos = f.pos => e = f
  BY DEF PushInv, BatchesDistinct
<1>4. Lowest(task[t].out) \in task[t].out
  BY <1>2, <1>3, LowestHeld
<1> QED BY <1>1, <1>2, <1>3, <1>4 DEF Pending, Emitting

LEMMA EmitGapPreserves ==
  ASSUME PushInv, NEW t \in Tasks, EmitGap(t) PROVE PushInv'
<1> DEFINE out  == task[t].out
           e    == Lowest(out)
           f    == [e EXCEPT !.gap = FALSE]
           rest == (out \ {e}) \cup {f}
<1>1. UNCHANGED <<tail, sessions, pushed>> /\ Emitting(t)
      /\ task' = [task EXCEPT ![t].out = rest]
  BY DEF EmitGap, Emitting
<1>2. /\ task[t] = [at |-> "emit", out |-> out] /\ out \subseteq Items /\ e \in out
      /\ \A g, h \in out : g.id = h.id \/ g.pos = h.pos => g = h
      /\ Pending(t) = {g.id : g \in out}
  BY <1>1, EmitFacts
<1>3. f \in Items /\ f.id = e.id /\ f.pos = e.pos
  BY <1>2 DEF Items
<1> HIDE DEF out, e, f
<1>4. rest \subseteq Items /\ rest # {} /\ {g.id : g \in rest} = {g.id : g \in out}
  <2>1. \A g \in rest : \E h \in out : g.id = h.id
    BY <1>2, <1>3
  <2>2. \A h \in out : \E g \in rest : g.id = h.id
    BY <1>2, <1>3
  <2>3. rest \subseteq Items /\ rest # {}
    BY <1>2, <1>3
  <2> HIDE DEF rest
  <2> QED BY <2>1, <2>2, <2>3
<1>5. \A g, h \in rest : g.id = h.id \/ g.pos = h.pos => g = h
  BY <1>2, <1>3
<1> HIDE DEF rest
<1>6. task' = [task EXCEPT ![t] = [at |-> "emit", out |-> rest]]
  <2>1. [task[t] EXCEPT !.out = rest] = [at |-> "emit", out |-> rest]
    BY <1>2
  <2>2. task \in [Tasks -> {Idle} \cup Readings \cup Batches]
    BY DEF PushInv, PushTypes
  <2>3. task' = [u \in Tasks |-> IF u = t THEN [task[t] EXCEPT !.out = rest] ELSE task[u]]
    BY <1>1, <2>2
  <2>4. task' = [u \in Tasks |-> IF u = t THEN [at |-> "emit", out |-> rest] ELSE task[u]]
    BY <2>1, <2>3
  <2> QED BY <2>2, <2>4
<1> DEFINE held == [at |-> "emit", out |-> rest]
<1>7. held \in Batches /\ held.at = "emit" /\ held.out = rest
  BY <1>4 DEF Batches
<1> HIDE DEF held
<1>8. /\ task' \in [Tasks -> {Idle} \cup Readings \cup Batches] /\ task'[t] = held
      /\ \A u \in Tasks : u # t => task'[u] = task[u]
  BY <1>6, <1>7 DEF PushInv, PushTypes, held
<1>9. \A u \in Tasks : Pending(u)' = Pending(u)
  BY <1>1, <1>2, <1>4, <1>7, <1>8 DEF Pending
<1>10. PushTypes' /\ HistoryGrows'
  BY <1>1, <1>8 DEF PushInv, PushTypes, HistoryGrows
<1>11. TakenSeen' /\ PushedOnce'
  BY <1>1, <1>9, HeldStays DEF PushInv, TakenSeen
<1>12. RowsFresh'
  BY <1>1, <1>7, <1>8, <1>9, HeldStays DEF PushInv, RowsFresh, Reading
<1>13. BatchesDistinct'
  BY <1>4, <1>5, <1>7, <1>8 DEF PushInv, BatchesDistinct, Emitting
<1> QED BY <1>10, <1>11, <1>12, <1>13 DEF PushInv

LEMMA EmitEventPreserves ==
  ASSUME PushInv, NEW t \in Tasks, EmitEvent(t) PROVE PushInv'
<1> DEFINE out  == task[t].out
           e    == Lowest(out)
           left == out \ {e}
           held == IF left = {} THEN Idle ELSE [at |-> "emit", out |-> left]
<1>1. UNCHANGED <<tail, sessions>> /\ Emitting(t) /\ pushed' = Append(pushed, e.id)
      /\ task' = [task EXCEPT ![t] = held]
  BY DEF EmitEvent, Emitting
<1>2. /\ out \subseteq Items /\ e \in out
      /\ \A g, h \in out : g.id = h.id \/ g.pos = h.pos => g = h
      /\ Pending(t) = {g.id : g \in out}
  BY <1>1, EmitFacts
<1> HIDE DEF out, e
<1>3. e.id \in Nat /\ e.id \in Pending(t) /\ left \subseteq Items
      /\ {g.id : g \in left} = Pending(t) \ {e.id}
  BY <1>2 DEF Items
<1>4. \A g, h \in left : g.id = h.id \/ g.pos = h.pos => g = h
  BY <1>2
<1> HIDE DEF left
<1>5. /\ held \in {Idle} \cup Batches /\ held.at # "read"
      /\ held.at = "emit" => held.out = left /\ left # {}
      /\ (IF held.at = "emit" THEN {g.id : g \in held.out} ELSE {}) = Pending(t) \ {e.id}
  <2>1. CASE left = {}
    <3>1. held = Idle
      BY <2>1
    <3> QED BY <1>3, <2>1, <3>1 DEF Idle
  <2>2. CASE left # {}
    <3>1. held = [at |-> "emit", out |-> left]
      BY <2>2
    <3> QED BY <1>3, <2>2, <3>1 DEF Batches
  <2> QED BY <2>1, <2>2
<1> HIDE DEF held
<1>6. /\ task' \in [Tasks -> {Idle} \cup Readings \cup Batches] /\ task'[t] = held
      /\ \A u \in Tasks : u # t => task'[u] = task[u]
  BY <1>1, <1>5 DEF PushInv, PushTypes
<1>7. /\ Pending(t)' = Pending(t) \ {e.id}
      /\ \A u \in Tasks : u # t => Pending(u)' = Pending(u)
  BY <1>5, <1>6 DEF Pending
<1>8. /\ pushed' \in Seq(Nat) /\ DOMAIN pushed = 1..Len(pushed) /\ Len(pushed) \in Nat
      /\ DOMAIN pushed' = 1..(Len(pushed) + 1) /\ pushed'[Len(pushed) + 1] = e.id
      /\ \A k \in DOMAIN pushed : pushed'[k] = pushed[k]
  BY <1>1, <1>3 DEF PushInv, PushTypes
<1>9. Ids(pushed') = Ids(pushed) \cup {e.id}
  <2>1. \A k \in DOMAIN pushed' : k \in DOMAIN pushed \/ k = Len(pushed) + 1
    BY <1>8
  <2>2. Len(pushed) + 1 \in DOMAIN pushed' /\ \A k \in DOMAIN pushed : k \in DOMAIN pushed'
    BY <1>8
  <2> QED BY <1>8, <2>1, <2>2 DEF Ids
<1>10. \A x : Taken(x)' = Taken(x)
  BY <1>3, <1>7, <1>9 DEF Taken
<1>11. PushTypes' /\ HistoryGrows'
  BY <1>1, <1>6, <1>8 DEF PushInv, PushTypes, HistoryGrows
<1>12. TakenSeen'
  BY <1>1, <1>10 DEF PushInv, TakenSeen
<1>13. RowsFresh'
  BY <1>1, <1>5, <1>6, <1>10 DEF PushInv, RowsFresh, Reading
<1>14. BatchesDistinct'
  BY <1>4, <1>5, <1>6 DEF PushInv, BatchesDistinct, Emitting
<1>15. PushedOnce'
  <2>1. /\ \A j, k \in DOMAIN pushed : pushed[j] = pushed[k] => j = k
        /\ \A u \in Tasks : Pending(u) \cap Ids(pushed) = {}
        /\ \A u, v \in Tasks : u # v => Pending(u) \cap Pending(v) = {}
    BY DEF PushInv, PushedOnce
  <2>2. \A k \in DOMAIN pushed : pushed[k] # e.id
    BY <1>3, <2>1 DEF Ids
  <2>3. \A j, k \in DOMAIN pushed' : pushed'[j] = pushed'[k] => j = k
    <3>1. \A k \in DOMAIN pushed' : k \in DOMAIN pushed \/ k = Len(pushed) + 1
      BY <1>8
    <3> QED BY <1>8, <2>1, <2>2, <3>1
  <2>4. \A u \in Tasks : Pending(u)' \subseteq Pending(u) /\ e.id \notin Pending(u)'
    BY <1>3, <1>7, <2>1
  <2>5. \A u \in Tasks : Pending(u)' \cap Ids(pushed') = {}
    BY <1>9, <2>1, <2>4
  <2>6. \A u, v \in Tasks : u # v => Pending(u)' \cap Pending(v)' = {}
    BY <2>1, <2>4
  <2> QED BY <2>3, <2>5, <2>6 DEF PushedOnce
<1> QED BY <1>11, <1>12, <1>13, <1>14, <1>15 DEF PushInv

-----------------------------------------------------------------------------
(* The order of a history                                                  *)

Precedes(h, x, y) == \E i, j \in DOMAIN h : i < j /\ h[i] = x /\ h[j] = y

\* The position of x among the first n events committed.
Ranked(h, n, x) == Cardinality({g \in 0..(n - 1) : Precedes(h, g, x)})

LEMMA PrecedesOrders ==
  ASSUME NEW h \in Seq(Nat), Distinct(h)
  PROVE  /\ \A x, y : Precedes(h, x, y) => x \in Ids(h) /\ y \in Ids(h) /\ x # y
         /\ \A x, y : ~(Precedes(h, x, y) /\ Precedes(h, y, x))
         /\ \A x, y, z : Precedes(h, x, y) /\ Precedes(h, y, z) => Precedes(h, x, z)
         /\ \A x, y \in Ids(h) : x = y \/ Precedes(h, x, y) \/ Precedes(h, y, x)
<1>1. DOMAIN h \subseteq Nat /\ \A i, j \in DOMAIN h : h[i] = h[j] => i = j
  BY DEF Distinct
<1>2. \A i, j \in DOMAIN h : ~(i < j /\ j < i) /\ ~(i < i) /\ (i = j \/ i < j \/ j < i)
  BY <1>1
<1>3. \A i, j, k \in DOMAIN h : i < j /\ j < k => i < k
  BY <1>1
<1>4. \A x, y : Precedes(h, x, y) => x \in Ids(h) /\ y \in Ids(h) /\ x # y
  BY <1>1, <1>2 DEF Precedes, Ids
<1>5. \A x, y : ~(Precedes(h, x, y) /\ Precedes(h, y, x))
  BY <1>1, <1>2 DEF Precedes
<1>6. \A x, y, z : Precedes(h, x, y) /\ Precedes(h, y, z) => Precedes(h, x, z)
  BY <1>1, <1>3 DEF Precedes
<1>7. \A x, y \in Ids(h) : x = y \/ Precedes(h, x, y) \/ Precedes(h, y, x)
  BY <1>2 DEF Precedes, Ids
<1> QED BY <1>4, <1>5, <1>6, <1>7

\* The rows of a tail read earlier are in its order: their index is their rank
\* among what was committed then.
LEMMA RankOfRow ==
  ASSUME NEW h \in Seq(Nat), Distinct(h), NEW rows \in Seq(Nat), Distinct(rows),
         Ids(rows) = 0..(Len(rows) - 1),
         \A i, j \in DOMAIN rows : i < j => Precedes(h, rows[i], rows[j]),
         NEW k \in DOMAIN rows
  PROVE  Ranked(h, Len(rows), rows[k]) = k - 1
<1> DEFINE S == {g \in 0..(Len(rows) - 1) : Precedes(h, g, rows[k])}
           f == [j \in 1..(k - 1) |-> rows[j]]
<1>1. k \in Nat \ {0} /\ DOMAIN rows = 1..Len(rows) /\ 1..(k - 1) \subseteq DOMAIN rows
  OBVIOUS
<1>2. \A j \in 1..(k - 1) : rows[j] \in S
  <2> SUFFICES ASSUME NEW j \in 1..(k - 1) PROVE rows[j] \in S
    OBVIOUS
  <2>1. j \in DOMAIN rows /\ j < k
    BY <1>1
  <2>2. rows[j] \in Ids(rows)
    BY <2>1 DEF Ids
  <2> QED BY <2>1, <2>2
<1>3. \A x \in S : \E j \in 1..(k - 1) : rows[j] = x
  <2> SUFFICES ASSUME NEW x \in S PROVE \E j \in 1..(k - 1) : rows[j] = x
    OBVIOUS
  <2>1. PICK j \in DOMAIN rows : rows[j] = x
    BY DEF Ids
  <2>2. ~(k < j) /\ j # k
    BY <2>1, PrecedesOrders
  <2> QED BY <1>1, <2>1, <2>2
<1>4. \A i, j \in 1..(k - 1) : rows[i] = rows[j] => i = j
  BY <1>1 DEF Distinct
<1> HIDE DEF S
<1>5. f \in Bijection(1..(k - 1), S)
  <2>1. f \in [1..(k - 1) -> S]
    BY <1>2
  <2> QED BY <1>3, <1>4, <2>1 DEF Bijection, Injection, Surjection, IsInjective
<1>6. k - 1 \in Nat /\ ExistsBijection(1..(k - 1), S)
  BY <1>1, <1>5 DEF ExistsBijection
<1>7. Cardinality(S) = k - 1
  BY <1>6, FS_CountingElements
<1> QED BY <1>7 DEF S, Ranked

\* An increasing numbering never falls behind the numbers.
LEMMA IncreasingGrows ==
  ASSUME NEW m \in Nat, NEW f, \A i \in 1..m : f[i] \in Nat \ {0},
         \A i, j \in 1..m : i < j => f[i] < f[j]
  PROVE  \A i \in 1..m : i <= f[i]
<1> DEFINE S == {i \in 1..m : f[i] < i}
<1> SUFFICES ASSUME S # {} PROVE FALSE
  OBVIOUS
<1>1. S \subseteq Nat
  OBVIOUS
<1>2. PICK i \in S : \A j \in S : i <= j
  BY <1>1, Least
<1>3. i \in 1..m /\ f[i] < i /\ f[i] \in Nat \ {0}
  OBVIOUS
<1>4. i - 1 \in 1..m /\ i - 1 < i
  BY <1>3
<1>5. ~(f[i - 1] < i - 1) /\ f[i - 1] \in Nat
  BY <1>2, <1>3, <1>4
<1>6. f[i - 1] < f[i]
  BY <1>3, <1>4
<1> QED BY <1>3, <1>4, <1>5, <1>6

\* A history is determined by its events and their order.
LEMMA OrderDetermines ==
  ASSUME NEW h \in Seq(Nat), Distinct(h), NEW s \in Seq(Nat), Ids(s) = Ids(h),
         \A i, j \in DOMAIN s : i < j => Precedes(h, s[i], s[j])
  PROVE  s = h
<1> DEFINE m == Len(s)
           n == Len(h)
<1>1. m \in Nat /\ n \in Nat /\ DOMAIN s = 1..m /\ DOMAIN h = 1..n
  OBVIOUS
<1> DEFINE f == [i \in 1..m |-> CHOOSE k \in 1..n : h[k] = s[i]]
           g == [k \in 1..n |-> CHOOSE i \in 1..m : s[i] = h[k]]
<1>2. \A i \in 1..m : f[i] \in 1..n /\ h[f[i]] = s[i]
  <2> SUFFICES ASSUME NEW i \in 1..m PROVE \E k \in 1..n : h[k] = s[i]
    OBVIOUS
  <2>1. s[i] \in Ids(s)
    BY <1>1 DEF Ids
  <2> QED BY <1>1, <2>1 DEF Ids
<1>3. \A k \in 1..n : g[k] \in 1..m /\ s[g[k]] = h[k]
  <2> SUFFICES ASSUME NEW k \in 1..n PROVE \E i \in 1..m : s[i] = h[k]
    OBVIOUS
  <2>1. h[k] \in Ids(h)
    BY <1>1 DEF Ids
  <2> QED BY <1>1, <2>1 DEF Ids
<1> HIDE DEF f, g, m, n
<1>4. \A i, j \in 1..n : h[i] = h[j] => i = j
  BY <1>1 DEF Distinct
<1>12. \A k \in 1..n : f[g[k]] = k
  <2> SUFFICES ASSUME NEW k \in 1..n PROVE f[g[k]] = k
    OBVIOUS
  <2>1. g[k] \in 1..m /\ s[g[k]] = h[k]
    BY <1>3
  <2>2. f[g[k]] \in 1..n /\ h[f[g[k]]] = h[k]
    BY <1>2, <2>1
  <2> QED BY <1>4, <2>2
<1>5. \A i, j \in 1..m : i < j => f[i] < f[j]
  <2> SUFFICES ASSUME NEW i \in 1..m, NEW j \in 1..m, i < j PROVE f[i] < f[j]
    OBVIOUS
  <2>1. PICK a \in 1..n, b \in 1..n : a < b /\ h[a] = s[i] /\ h[b] = s[j]
    <3>1. Precedes(h, s[i], s[j])
      BY <1>1
    <3> QED BY <1>1, <3>1 DEF Precedes
  <2>2. a = f[i] /\ b = f[j]
    BY <1>2, <1>4, <2>1
  <2> QED BY <2>1, <2>2
<1>6. \A k, l \in 1..n : k < l => g[k] < g[l]
  <2> SUFFICES ASSUME NEW k \in 1..n, NEW l \in 1..n, k < l PROVE g[k] < g[l]
    OBVIOUS
  <2>1. g[k] \in 1..m /\ g[l] \in 1..m /\ f[g[k]] = k /\ f[g[l]] = l
    BY <1>3, <1>12
  <2>2. ~(g[l] < g[k]) /\ g[k] # g[l]
    BY <1>1, <1>5, <2>1
  <2> QED BY <1>1, <2>1, <2>2
<1>7. \A i \in 1..m : i <= f[i]
  <2>1. \A i \in 1..m : f[i] \in Nat \ {0}
    BY <1>1, <1>2
  <2> QED BY <1>1, <1>5, <2>1, IncreasingGrows
<1>8. \A k \in 1..n : k <= g[k]
  <2>1. \A k \in 1..n : g[k] \in Nat \ {0}
    BY <1>1, <1>3
  <2> QED BY <1>1, <1>6, <2>1, IncreasingGrows
<1>9. \A k \in 1..n : k \in 1..m /\ s[k] = h[k]
  <2> SUFFICES ASSUME NEW k \in 1..n PROVE g[k] = k
    BY <1>3
  <2>1. g[k] \in 1..m /\ f[g[k]] = k
    BY <1>3, <1>12
  <2> QED BY <1>1, <1>7, <1>8, <2>1
<1>10. \A i \in 1..m : i \in 1..n
  BY <1>1, <1>2, <1>7
<1>11. m = n
  BY <1>1, <1>9, <1>10
<1> QED BY <1>1, <1>9, <1>11

-----------------------------------------------------------------------------
(* What a subscriber may rely on: the invariant                            *)

Pushes == [type : {"gap"}, from : Nat] \cup [type : {"event"}, id : Nat, pos : Nat]
Subscriptions == [subscribed : {TRUE}, from_pos : Int, last_delivered : Int]

ConnTypes ==
  /\ chan \in Seq(Pushes) /\ Len(chan) <= ChannelCap /\ lagged \in BOOLEAN
  /\ sub \in {NoSub} \cup Subscriptions
  /\ known \in Seq(Nat) /\ clean \in BOOLEAN
  /\ clean => sub.subscribed

HistoryFull == Ids(tail) = 0..(Len(tail) - 1)

\* Rows are the tail of an earlier time: they lack what was committed since,
\* and are in its order.
RowsOrdered ==
  \A t \in Tasks : Reading(t) =>
    /\ Ids(task[t].rows) = 0..(Len(task[t].rows) - 1)
    /\ Len(task[t].rows) <= Len(tail)
    /\ \A i, j \in DOMAIN task[t].rows :
         i < j => Precedes(tail, task[t].rows[i], task[t].rows[j])

\* The channel holds pushes of events taken for emission, each once.
ChanPushed ==
  \A i \in DOMAIN chan : chan[i].type = "event" =>
    /\ chan[i].id \in Ids(pushed)
    /\ \A j \in DOMAIN chan : chan[j].type = "event" /\ chan[j].id = chan[i].id => i = j

\* On its way to the connection: held by a collector, or in the channel.
Held(x, p) == \E t \in Tasks : Emitting(t) /\ \E e \in task[t].out : e.id = x /\ e.pos = p
InChan(x, p) == \E i \in DOMAIN chan : chan[i] = Event(x, p)
Coming(x, p) == Held(x, p) \/ InChan(x, p)

One == Len(sessions) = 1
Seen == sessions[1].seen

\* The position an event is pushed with is its rank among the first n events
\* committed, all of them collected; what precedes it and is still on its way
\* has a lower one.
Placed(x, p) ==
  \E n \in 0..Len(tail) :
    /\ x \in 0..(n - 1) /\ 0..(n - 1) \subseteq Seen
    /\ p = Ranked(tail, n, x)
    /\ \A y, q : Coming(y, q) /\ y \in 0..(n - 1) /\ Precedes(tail, y, x) => q < p

ItemsPlaced == One => \A x, p : Coming(x, p) => Placed(x, p)

\* The client's copy is in the order of the history, or something on its way
\* will contradict it.
Ordered == \A i, j \in DOMAIN known : i < j => Precedes(tail, known[i], known[j])
Doomed == \E y, q : Coming(y, q) /\ y \notin Ids(known) /\ q < Len(known)

\* What a clean copy lacks was not collected yet or is on its way.
ViewKept ==
  One /\ sub.subscribed /\ clean /\ ~lagged =>
    /\ Distinct(known) /\ Ids(known) \subseteq Ids(tail)
    /\ \A x \in Ids(tail) \ Ids(known) : x \in Seen => \E q : Coming(x, q)
    /\ Ordered \/ Doomed

ViewInv ==
  /\ ConnTypes /\ HistoryFull /\ RowsOrdered /\ ChanPushed /\ ItemsPlaced /\ ViewKept

-----------------------------------------------------------------------------
(* What is on its way                                                      *)

LEMMA ComingFacts ==
  ASSUME PushInv, ConnTypes, ChanPushed
  PROVE  /\ \A x, p : Coming(x, p) => x \in Nat /\ p \in Nat
         /\ \A x, p, q : Coming(x, p) /\ Coming(x, q) => p = q
<1>1. \A t \in Tasks : Emitting(t) =>
        /\ task[t].out \subseteq Items
        /\ \A e, f \in task[t].out : e.id = f.id => e = f
        /\ Pending(t) = {e.id : e \in task[t].out}
  BY EmitFacts
<1>2. \A x, p : Held(x, p) => x \in Nat /\ p \in Nat /\ x \notin Ids(pushed)
  <2> SUFFICES ASSUME NEW x, NEW p, NEW t \in Tasks, Emitting(t),
                      NEW e \in task[t].out, e.id = x /\ e.pos = p
               PROVE  x \in Nat /\ p \in Nat /\ x \notin Ids(pushed)
    BY DEF Held
  <2>1. x \in Pending(t)
    BY <1>1
  <2>2. x \notin Ids(pushed)
    BY <2>1 DEF PushInv, PushedOnce
  <2> QED BY <1>1, <2>2 DEF Items
<1>3. \A x, p : InChan(x, p) => x \in Nat /\ p \in Nat /\ x \in Ids(pushed)
  <2> SUFFICES ASSUME NEW x, NEW p, NEW i \in DOMAIN chan, chan[i] = Event(x, p)
               PROVE  x \in Nat /\ p \in Nat /\ x \in Ids(pushed)
    BY DEF InChan
  <2>1. chan[i].type = "event" /\ chan[i].id = x /\ chan[i].pos = p
    BY DEF Event
  <2>2. chan[i] \in Pushes
    BY DEF ConnTypes
  <2>3. x \in Nat /\ p \in Nat
    BY <2>1, <2>2 DEF Pushes
  <2> QED BY <2>1, <2>3 DEF ChanPushed
<1>4. \A x, p, q : Held(x, p) /\ Held(x, q) => p = q
  <2> SUFFICES ASSUME NEW x, NEW p, NEW q, Held(x, p), Held(x, q) PROVE p = q
    OBVIOUS
  <2>11. PICK t \in Tasks : Emitting(t) /\ \E e \in task[t].out : e.id = x /\ e.pos = p
    BY DEF Held
  <2>12. PICK u \in Tasks : Emitting(u) /\ \E f \in task[u].out : f.id = x /\ f.pos = q
    BY DEF Held
  <2>1. x \in Pending(t) /\ x \in Pending(u)
    BY <1>1, <2>11, <2>12
  <2>2. t = u
    BY <2>1 DEF PushInv, PushedOnce
  <2> QED BY <1>1, <2>2, <2>11, <2>12
<1>5. \A x, p, q : InChan(x, p) /\ InChan(x, q) => p = q
  <2> SUFFICES ASSUME NEW x, NEW p, NEW q, NEW i \in DOMAIN chan, chan[i] = Event(x, p),
                      NEW j \in DOMAIN chan, chan[j] = Event(x, q)
               PROVE  p = q
    BY DEF InChan
  <2>1. i = j
    BY DEF ChanPushed, Event
  <2> QED BY <2>1 DEF Event
<1> QED BY <1>2, <1>3, <1>4, <1>5 DEF Coming

\* A position is lower the fewer events are ranked and the earlier one stands.
LEMMA RankGrows ==
  ASSUME NEW h \in Seq(Nat), Distinct(h), NEW m \in Nat, NEW n \in Nat, m <= n,
         NEW y \in 0..(n - 1), NEW x, Precedes(h, y, x)
  PROVE  Ranked(h, m, y) < Ranked(h, n, x)
<1> DEFINE A == {g \in 0..(m - 1) : Precedes(h, g, y)}
           B == {g \in 0..(n - 1) : Precedes(h, g, x)}
<1>1. \A g \in A : g \in B
  BY PrecedesOrders
<1>2. y \in B /\ y \notin A
  BY PrecedesOrders
<1>3. IsFiniteSet(0..(n - 1)) /\ B \subseteq 0..(n - 1)
  BY FS_Interval
<1> HIDE DEF A, B
<1>4. IsFiniteSet(B) /\ A \subseteq B
  BY <1>1, <1>3, FS_Subset
<1>5. IsFiniteSet(A) /\ Cardinality(A) <= Cardinality(B) /\ Cardinality(A) # Cardinality(B)
  BY <1>2, <1>4, FS_Subset
<1>6. Cardinality(A) \in Nat /\ Cardinality(B) \in Nat
  BY <1>4, <1>5, FS_CardinalityType
<1>7. Cardinality(A) < Cardinality(B)
  BY <1>5, <1>6
<1> QED BY <1>7 DEF A, B, Ranked

\* What stays placed when less is on its way.
LEMMA PlacedStays ==
  ASSUME ItemsPlaced, UNCHANGED <<tail, sessions>>,
         \A x, p : Coming(x, p)' => Coming(x, p)
  PROVE  ItemsPlaced'
  BY DEF ItemsPlaced, Placed, One, Seen

\* A copy nobody touches stays what it was while the same is on its way.
LEMMA ViewStays ==
  ASSUME ViewKept, UNCHANGED <<tail, sessions, sub, known, clean>>,
         lagged' \/ ((\A x, p : Coming(x, p) <=> Coming(x, p)') /\ ~lagged)
  PROVE  ViewKept'
<1>1. CASE lagged'
  BY <1>1 DEF ViewKept
<1>2. CASE ~lagged'
  BY <1>2 DEF ViewKept, One, Seen, Ordered, Doomed
<1> QED BY <1>1, <1>2

-----------------------------------------------------------------------------
(* The daemon's steps                                                      *)

\* A commit leaves what was there in its order.
LEMMA OrderKept ==
  ASSUME PushInv, HistoryFull, NEW r, Commit(r)
  PROVE  /\ HistoryFull' /\ Ids(tail') = Ids(tail) \cup {Len(tail)}
         /\ \A x, y \in Ids(tail) : Precedes(tail', x, y) <=> Precedes(tail, x, y)
<1> DEFINE n == Len(tail)
           up(i) == IF i <= r THEN i ELSE i + 1
<1>1. /\ n \in Nat /\ r \in 1..n /\ DOMAIN tail = 1..n /\ DOMAIN tail' = 1..(n + 1)
      /\ Len(tail') = n + 1 /\ tail' \in Seq(Nat) /\ tail \in Seq(Nat)
      /\ \A i \in 1..(n + 1) :
           tail'[i] = IF i <= r THEN tail[i] ELSE IF i = r + 1 THEN n ELSE tail[i - 1]
  BY TailInserted DEF PushInv, PushTypes
<1>2. Distinct(tail) /\ Distinct(tail') /\ Ids(tail) \subseteq Ids(tail')
  BY TailGrows DEF PushInv, HistoryGrows
<1> HIDE DEF n
<1>3. \A i \in 1..n : up(i) \in 1..(n + 1) /\ tail'[up(i)] = tail[i]
  <2> SUFFICES ASSUME NEW i \in 1..n PROVE up(i) \in 1..(n + 1) /\ tail'[up(i)] = tail[i]
    OBVIOUS
  <2>1. CASE i <= r
    BY <1>1, <2>1
  <2>2. CASE ~(i <= r)
    <3>1. i + 1 \in 1..(n + 1) /\ ~(i + 1 <= r) /\ i + 1 # r + 1 /\ (i + 1) - 1 = i
      BY <1>1, <2>2
    <3> QED BY <1>1, <2>2, <3>1
  <2> QED BY <2>1, <2>2
<1>4. \A i, j \in 1..n : i < j => up(i) < up(j)
  BY <1>1
<1> HIDE DEF up
<1>5. \A x, y : Precedes(tail, x, y) => Precedes(tail', x, y)
  <2> SUFFICES ASSUME NEW x, NEW y, Precedes(tail, x, y) PROVE Precedes(tail', x, y)
    OBVIOUS
  <2>1. PICK i \in 1..n, j \in 1..n : i < j /\ tail[i] = x /\ tail[j] = y
    BY <1>1 DEF Precedes
  <2>2. up(i) \in DOMAIN tail' /\ up(j) \in DOMAIN tail' /\ up(i) < up(j)
        /\ tail'[up(i)] = x /\ tail'[up(j)] = y
    BY <1>1, <1>3, <1>4, <2>1
  <2> QED BY <2>2 DEF Precedes
<1>6. \A x, y \in Ids(tail) : Precedes(tail', x, y) => Precedes(tail, x, y)
  <2> SUFFICES ASSUME NEW x \in Ids(tail), NEW y \in Ids(tail), Precedes(tail', x, y)
               PROVE  Precedes(tail, x, y)
    OBVIOUS
  <2>1. x # y /\ ~Precedes(tail', y, x)
    BY <1>1, <1>2, PrecedesOrders
  <2>2. ~Precedes(tail, y, x)
    BY <1>5, <2>1
  <2> QED BY <1>1, <1>2, <2>1, <2>2, PrecedesOrders
<1>7. Ids(tail') = Ids(tail) \cup {n}
  <2>1. \A i \in 1..(n + 1) : tail'[i] \in Ids(tail) \cup {n}
    <3> SUFFICES ASSUME NEW i \in 1..(n + 1) PROVE tail'[i] \in Ids(tail) \cup {n}
      OBVIOUS
    <3>1. CASE i = r + 1
      BY <1>1, <3>1
    <3>2. CASE i <= r
      <4>1. i \in DOMAIN tail /\ tail'[i] = tail[i]
        BY <1>1, <3>2
      <4> QED BY <4>1 DEF Ids
    <3>3. CASE i > r + 1
      <4>1. i - 1 \in 1..n
        BY <1>1, <3>3
      <4>2. i - 1 \in DOMAIN tail /\ tail'[i] = tail[i - 1]
        BY <1>1, <3>3, <4>1
      <4> QED BY <4>2 DEF Ids
    <3> QED BY <1>1, <3>1, <3>2, <3>3
  <2>2. n \in Ids(tail')
    <3>1. r + 1 \in DOMAIN tail' /\ tail'[r + 1] = n
      BY <1>1
    <3> QED BY <3>1 DEF Ids
  <2>3. Ids(tail') \subseteq Ids(tail) \cup {n}
    BY <1>1, <2>1 DEF Ids
  <2> QED BY <1>2, <2>2, <2>3
<1>8. Ids(tail') = 0..(Len(tail') - 1)
  <2>1. Ids(tail) = 0..(n - 1)
    BY DEF HistoryFull, n
  <2> QED BY <1>1, <1>7, <2>1
<1> QED BY <1>5, <1>6, <1>7, <1>8 DEF HistoryFull, n

LEMMA CommitKeepsView ==
  ASSUME PushInv, ViewInv, NEW r, Commit(r) PROVE ViewInv'
<1>1. UNCHANGED <<sessions, task, pushed, chan, lagged, sub, known, clean>>
  BY DEF Commit, connVars, clientVars
<1>2. /\ HistoryFull /\ HistoryFull' /\ Ids(tail') = Ids(tail) \cup {Len(tail)}
      /\ \A x, y \in Ids(tail) : Precedes(tail', x, y) <=> Precedes(tail, x, y)
  BY OrderKept DEF ViewInv
<1>3. Len(tail) \in Nat /\ Len(tail') = Len(tail) + 1 /\ Ids(tail) = 0..(Len(tail) - 1)
  BY TailInserted DEF ViewInv, HistoryFull
<1>4. \A x, p : Coming(x, p)' <=> Coming(x, p)
  BY <1>1 DEF Coming, Held, InChan, Emitting
<1>5. ConnTypes' /\ ChanPushed'
  BY <1>1 DEF ViewInv, ConnTypes, ChanPushed
<1>6. RowsOrdered'
  <2> SUFFICES ASSUME NEW t \in Tasks, Reading(t)
               PROVE  /\ Ids(task[t].rows) = 0..(Len(task[t].rows) - 1)
                      /\ Len(task[t].rows) <= Len(tail')
                      /\ \A i, j \in DOMAIN task[t].rows :
                           i < j => Precedes(tail', task[t].rows[i], task[t].rows[j])
    BY <1>1 DEF RowsOrdered, Reading
  <2> DEFINE rows == task[t].rows
  <2>1. /\ Ids(rows) = 0..(Len(rows) - 1) /\ Len(rows) <= Len(tail)
        /\ \A i, j \in DOMAIN rows : i < j => Precedes(tail, rows[i], rows[j])
    BY DEF ViewInv, RowsOrdered
  <2>2. Ids(rows) \subseteq Ids(tail)
    BY DEF PushInv, RowsFresh
  <2>3. \A i \in DOMAIN rows : rows[i] \in Ids(tail)
    BY <2>2 DEF Ids
  <2>4. Len(rows) \in Nat
    BY DEF PushInv, PushTypes, Reading, Readings, Batches, Idle
  <2> HIDE DEF rows
  <2>5. Len(rows) <= Len(tail')
    BY <1>3, <2>1, <2>4
  <2>6. \A i, j \in DOMAIN rows : i < j => Precedes(tail', rows[i], rows[j])
    BY <1>2, <2>1, <2>3
  <2> QED BY <2>1, <2>5, <2>6 DEF rows
<1>7. ItemsPlaced'
  <2> SUFFICES ASSUME One, NEW x, NEW p, Coming(x, p) PROVE Placed(x, p)'
    BY <1>1, <1>4 DEF ItemsPlaced, One
  <2>1. PICK n \in 0..Len(tail) :
           /\ x \in 0..(n - 1) /\ 0..(n - 1) \subseteq Seen /\ p = Ranked(tail, n, x)
           /\ \A y, q : Coming(y, q) /\ y \in 0..(n - 1) /\ Precedes(tail, y, x) => q < p
    BY DEF ViewInv, ItemsPlaced, Placed
  <2>2. n \in 0..Len(tail') /\ 0..(n - 1) \subseteq Ids(tail)
    BY <1>3
  <2>3. \A y \in 0..(n - 1) : Precedes(tail', y, x) <=> Precedes(tail, y, x)
    BY <1>2, <2>1, <2>2
  <2>4. {g \in 0..(n - 1) : Precedes(tail', g, x)} = {g \in 0..(n - 1) : Precedes(tail, g, x)}
    BY <2>3
  <2>5. Ranked(tail', n, x) = Ranked(tail, n, x)
    BY <2>4 DEF Ranked
  <2>6. \A y, q : Coming(y, q)' /\ y \in 0..(n - 1) /\ Precedes(tail', y, x) => q < p
    BY <1>4, <2>1, <2>3
  <2> QED BY <1>1, <2>1, <2>2, <2>5, <2>6 DEF Placed, Seen
<1>8. ViewKept'
  <2> SUFFICES ASSUME One, sub.subscribed, clean, ~lagged
               PROVE  /\ Distinct(known) /\ Ids(known) \subseteq Ids(tail')
                      /\ \A x \in Ids(tail') \ Ids(known) : x \in Seen => \E q : Coming(x, q)'
                      /\ Ordered' \/ Doomed'
    BY <1>1 DEF ViewKept, One, Seen
  <2>1. /\ Distinct(known) /\ Ids(known) \subseteq Ids(tail)
        /\ \A x \in Ids(tail) \ Ids(known) : x \in Seen => \E q : Coming(x, q)
        /\ Ordered \/ Doomed
    BY DEF ViewInv, ViewKept
  <2>2. Seen \subseteq Ids(tail)
    BY DEF One, Seen, PushInv, PushTypes, HistoryGrows
  <2>3. \A x \in Ids(tail') \ Ids(known) : x \in Seen => \E q : Coming(x, q)'
    BY <1>2, <1>4, <2>1, <2>2
  <2>4. Doomed => Doomed'
    BY <1>1, <1>4 DEF Doomed
  <2>5. \A i \in DOMAIN known : known[i] \in Ids(tail)
    BY <2>1 DEF Ids
  <2>6. Ordered => Ordered'
    BY <1>1, <1>2, <2>5 DEF Ordered
  <2> QED BY <1>2, <2>1, <2>3, <2>4, <2>6
<1> QED BY <1>2, <1>5, <1>6, <1>7, <1>8 DEF ViewInv

LEMMA LapseKeepsView ==
  ASSUME PushInv, ViewInv, Lapse PROVE ViewInv'
<1>1. UNCHANGED <<tail, task, pushed, chan, lagged, sub, known, clean>>
      /\ sessions' = Append(sessions, Seeded(tail))
  BY DEF Lapse, connVars, clientVars
<1>2. ~One'
  <2>1. sessions \in Seq(Sessions) /\ sessions # <<>>
    BY DEF PushInv, PushTypes
  <2>2. Len(sessions) \in Nat \ {0} /\ Len(sessions') = Len(sessions) + 1
    BY <1>1, <2>1
  <2> QED BY <2>2 DEF One
<1>3. ConnTypes' /\ HistoryFull' /\ ChanPushed' /\ RowsOrdered'
  BY <1>1 DEF ViewInv, ConnTypes, HistoryFull, ChanPushed, RowsOrdered, Reading
<1> QED BY <1>2, <1>3 DEF ViewInv, ItemsPlaced, ViewKept

LEMMA ReadKeepsView ==
  ASSUME PushInv, ViewInv, NEW t \in Tasks, ReadTail(t) PROVE ViewInv'
<1> DEFINE held == [at |-> "read", rows |-> tail, session |-> Len(sessions)]
<1>1. UNCHANGED <<tail, sessions, pushed, chan, lagged, sub, known, clean>>
      /\ task[t].at = "idle" /\ task' = [task EXCEPT ![t] = held]
  BY DEF ReadTail, connVars, clientVars
<1>2. held.at = "read" /\ held.rows = tail
  OBVIOUS
<1> HIDE DEF held
<1>3. task'[t] = held /\ \A u \in Tasks : u # t => task'[u] = task[u]
  BY <1>1 DEF PushInv, PushTypes
<1>4. \A x, p : Coming(x, p)' <=> Coming(x, p)
  BY <1>1, <1>2, <1>3 DEF Coming, Held, InChan, Emitting
<1>5. ConnTypes' /\ HistoryFull' /\ ChanPushed'
  BY <1>1 DEF ViewInv, ConnTypes, HistoryFull, ChanPushed
<1>6. RowsOrdered'
  <2>1. \A i, j \in DOMAIN tail : i < j => Precedes(tail, tail[i], tail[j])
    BY DEF Precedes
  <2>2. Ids(tail) = 0..(Len(tail) - 1) /\ Len(tail) <= Len(tail)
    BY DEF ViewInv, HistoryFull, PushInv, PushTypes
  <2> QED BY <1>1, <1>2, <1>3, <2>1, <2>2 DEF ViewInv, RowsOrdered, Reading
<1>7. ItemsPlaced'
  BY <1>1, <1>4, PlacedStays DEF ViewInv
<1>8. ViewKept'
  BY <1>1, <1>4, ViewStays DEF ViewInv
<1> QED BY <1>5, <1>6, <1>7, <1>8 DEF ViewInv

\* Row k of what was read is event x at position p, and new to the session.
NewRow(rows, s, x, p) == \E k \in DOMAIN rows : rows[k] = x /\ x \notin s.seen /\ p = k - 1

\* What a collection adds is new, and each event has the index of its row.
LEMMA CollectedRows ==
  ASSUME NEW rows \in Seq(Nat), NEW s
  PROVE  \A x, p : (\E e \in Collected(rows, s) : e.id = x /\ e.pos = p)
                     <=> NewRow(rows, s, x, p)
<1> DEFINE item(k) == [id |-> rows[k], pos |-> k - 1, gap |-> Reorders(k, rows, s)]
<1>1. Collected(rows, s) = {item(k) : k \in New(rows, s)}
  BY DEF Collected
<1>2. \A k : item(k).id = rows[k] /\ item(k).pos = k - 1
  OBVIOUS
<1> HIDE DEF item
<1> QED BY <1>1, <1>2 DEF New, NewRow

LEMMA CollectKeepsView ==
  ASSUME PushInv, ViewInv, NEW t \in Tasks, Collect(t) PROVE ViewInv'
<1> DEFINE i    == task[t].session
           rows == task[t].rows
           s    == sessions[i]
           out  == Collected(rows, s)
           next == Marked(rows, s)
           held == IF out = {} THEN Idle ELSE [at |-> "emit", out |-> out]
<1>1. /\ UNCHANGED <<tail, pushed, chan, lagged, sub, known, clean>> /\ Reading(t)
      /\ sessions' = [sessions EXCEPT ![i] = next] /\ task' = [task EXCEPT ![t] = held]
  BY DEF Collect, Reading, connVars, clientVars
<1>2. rows \in Seq(Nat) /\ i \in DOMAIN sessions /\ Distinct(rows) /\ Ids(rows) \subseteq Ids(tail)
  BY <1>1 DEF PushInv, PushTypes, RowsFresh, Reading, Readings, Batches, Idle
<1>3. /\ Ids(rows) = 0..(Len(rows) - 1) /\ Len(rows) <= Len(tail)
      /\ \A j, k \in DOMAIN rows : j < k => Precedes(tail, rows[j], rows[k])
  BY <1>1 DEF ViewInv, RowsOrdered
<1>4. sessions \in Seq(Sessions) /\ s = sessions[i] /\ s \in Sessions /\ tail \in Seq(Nat) /\ Distinct(tail)
  BY <1>2 DEF PushInv, PushTypes, HistoryGrows
<1> HIDE DEF rows, s, i
<1>5. next \in Sessions /\ next.seen = s.seen \cup Ids(rows)
  BY <1>2, <1>4, MarkedSees
<1>6. \A x, p : (\E e \in out : e.id = x /\ e.pos = p) <=> NewRow(rows, s, x, p)
  BY <1>2, CollectedRows
<1> HIDE DEF next, out
<1>7. Len(sessions') = Len(sessions)
  BY <1>1, <1>2, <1>4, <1>5
<1>8. held.at # "read" /\ (held.at = "emit" <=> out # {}) /\ (out # {} => held.out = out)
  BY DEF Idle
<1> HIDE DEF held
<1>9. task'[t] = held /\ \A u \in Tasks : u # t => task'[u] = task[u]
  BY <1>1 DEF PushInv, PushTypes
<1>10. \A x, p : Coming(x, p)' <=> Coming(x, p) \/ NewRow(rows, s, x, p)
  <2>1. \A x, p : Held(x, p)' <=> Held(x, p) \/ \E e \in out : e.id = x /\ e.pos = p
    BY <1>1, <1>8, <1>9 DEF Held, Emitting, Reading
  <2>2. \A x, p : InChan(x, p)' <=> InChan(x, p)
    BY <1>1 DEF InChan
  <2> QED BY <1>6, <2>1, <2>2 DEF Coming
<1>11. ConnTypes' /\ HistoryFull' /\ ChanPushed'
  BY <1>1 DEF ViewInv, ConnTypes, HistoryFull, ChanPushed
<1>12. RowsOrdered'
  BY <1>1, <1>8, <1>9 DEF ViewInv, RowsOrdered, Reading
<1>13. One' => One /\ s.seen = Seen /\ Seen' = Seen \cup Ids(rows)
  <2> SUFFICES ASSUME One' PROVE One /\ s.seen = Seen /\ Seen' = Seen \cup Ids(rows)
    OBVIOUS
  <2>1. One /\ i = 1
    <3>0. Len(sessions) = 1
      BY <1>7 DEF One
    <3>1. Len(sessions) = 1 /\ DOMAIN sessions = 1..1
      BY <1>4, <3>0
    <3> QED BY <1>2, <3>1 DEF One
  <2>2. sessions'[1] = next /\ s = sessions[1]
    BY <1>1, <1>2, <1>4, <2>1
  <2> QED BY <1>5, <2>1, <2>2 DEF Seen
<1>14. Len(rows) \in Nat /\ DOMAIN rows = 1..Len(rows) /\ Len(tail) \in Nat
  BY <1>2, <1>4
<1>15. \A k \in DOMAIN rows : rows[k] \in Ids(rows)
  BY DEF Ids
<1>16. ItemsPlaced'
  <2> SUFFICES ASSUME One', NEW x, NEW p, Coming(x, p)' PROVE Placed(x, p)'
    BY DEF ItemsPlaced
  <2> USE <1>13
  <2>1. CASE Coming(x, p)
    <3>1. PICK n \in 0..Len(tail) :
             /\ x \in 0..(n - 1) /\ 0..(n - 1) \subseteq Seen /\ p = Ranked(tail, n, x)
             /\ \A y, q : Coming(y, q) /\ y \in 0..(n - 1) /\ Precedes(tail, y, x) => q < p
      BY <2>1 DEF ViewInv, ItemsPlaced, Placed
    <3>2. \A y, q : Coming(y, q)' /\ y \in 0..(n - 1) /\ Precedes(tail, y, x) => q < p
      BY <1>10, <3>1 DEF NewRow
    <3> QED BY <1>1, <3>1, <3>2 DEF Placed
  <2>2. CASE NewRow(rows, s, x, p)
    <3>1. PICK k \in DOMAIN rows : rows[k] = x /\ x \notin Seen /\ p = k - 1
      BY <2>2 DEF NewRow
    <3> DEFINE n == Len(rows)
    <3>2. n \in 0..Len(tail) /\ x \in 0..(n - 1) /\ 0..(n - 1) \subseteq Seen'
      BY <1>3, <1>14, <1>15, <3>1
    <3>3. p = Ranked(tail, n, x)
      BY <1>2, <1>3, <1>4, <3>1, RankOfRow
    <3>4. ASSUME NEW y, NEW q, NewRow(rows, s, y, q), Precedes(tail, y, x) PROVE q < p
      <4>1. PICK j \in DOMAIN rows : rows[j] = y /\ q = j - 1
        BY <3>4 DEF NewRow
      <4>2. ~(k < j) /\ j # k
        BY <1>3, <1>4, <3>1, <3>4, <4>1, PrecedesOrders
      <4> QED BY <1>14, <3>1, <4>1, <4>2
    <3>5. ASSUME NEW y, NEW q, Coming(y, q), y \in 0..(n - 1), Precedes(tail, y, x) PROVE q < p
      <4>1. PICK m \in 0..Len(tail) : 0..(m - 1) \subseteq Seen /\ q = Ranked(tail, m, y)
        BY <3>5 DEF ViewInv, ItemsPlaced, Placed
      <4>2. m <= x /\ x < n /\ m \in Nat /\ x \in Nat
        BY <1>14, <3>1, <3>2, <4>1
      <4>3. m <= n
        BY <1>14, <4>2
      <4> QED BY <1>4, <1>14, <3>3, <3>5, <4>1, <4>2, <4>3, RankGrows
    <3>6. \A y, q : Coming(y, q)' /\ y \in 0..(n - 1) /\ Precedes(tail, y, x) => q < p
      BY <1>10, <3>4, <3>5
    <3> QED BY <1>1, <3>2, <3>3, <3>6 DEF Placed
  <2> QED BY <1>10, <2>1, <2>2
<1>17. ViewKept'
  <2> SUFFICES ASSUME One', sub.subscribed, clean, ~lagged
               PROVE  /\ Distinct(known) /\ Ids(known) \subseteq Ids(tail)
                      /\ \A x \in Ids(tail) \ Ids(known) : x \in Seen' => \E q : Coming(x, q)'
                      /\ Ordered' \/ Doomed'
    BY <1>1 DEF ViewKept
  <2> USE <1>13
  <2>1. /\ Distinct(known) /\ Ids(known) \subseteq Ids(tail)
        /\ \A x \in Ids(tail) \ Ids(known) : x \in Seen => \E q : Coming(x, q)
        /\ Ordered \/ Doomed
    BY DEF ViewInv, ViewKept
  <2>2. ASSUME NEW x \in Ids(tail) \ Ids(known), x \in Seen' PROVE \E q : Coming(x, q)'
    <3>1. CASE x \in Seen
      BY <1>10, <2>1, <3>1
    <3>2. CASE x \notin Seen
      <4>1. x \in Ids(rows)
        BY <2>2, <3>2
      <4>2. PICK k \in DOMAIN rows : rows[k] = x
        BY <4>1 DEF Ids
      <4>3. NewRow(rows, s, x, k - 1)
        BY <3>2, <4>2 DEF NewRow
      <4> QED BY <1>10, <4>3
    <3> QED BY <3>1, <3>2
  <2>3. Doomed => Doomed'
    BY <1>1, <1>10 DEF Doomed
  <2>4. Ordered => Ordered'
    BY <1>1 DEF Ordered
  <2> QED BY <2>1, <2>2, <2>3, <2>4
<1> QED BY <1>11, <1>12, <1>16, <1>17 DEF ViewInv

\* A push goes to the end of the channel; what it drops is noticed.
LEMMA SendFacts ==
  ASSUME ConnTypes, NEW push \in Pushes, Send(push)
  PROVE  /\ chan' \in Seq(Pushes) /\ Len(chan') <= ChannelCap /\ lagged' \in BOOLEAN
         /\ Len(chan) \in Nat /\ DOMAIN chan = 1..Len(chan) /\ DOMAIN chan' = 1..Len(chan')
         /\ lagged => lagged'
         /\ \E d \in {0, 1} :
              /\ Len(chan') = Len(chan) - d + 1 /\ d <= Len(chan) /\ (d = 1 => lagged')
              /\ \A j \in 1..(Len(chan) - d) : chan'[j] = chan[j + d]
              /\ chan'[Len(chan')] = push
<1>1. ChannelCap \in Nat \ {0}
  BY PushAssumption
<1>2. chan \in Seq(Pushes) /\ Len(chan) \in Nat /\ Len(chan) <= ChannelCap /\ lagged \in BOOLEAN
      /\ DOMAIN chan = 1..Len(chan)
  BY DEF ConnTypes
<1>3. CASE Len(chan) < ChannelCap
  <2>1. chan' = Append(chan, push) /\ (lagged => lagged') /\ lagged' \in BOOLEAN
    BY <1>2, <1>3 DEF Send
  <2>2. /\ chan' \in Seq(Pushes) /\ Len(chan') = Len(chan) + 1
        /\ \A j \in 1..Len(chan) : chan'[j] = chan[j]
        /\ chan'[Len(chan) + 1] = push
    BY <1>2, <2>1, AppendProperties
  <2>3. /\ Len(chan') <= ChannelCap /\ DOMAIN chan' = 1..Len(chan')
        /\ Len(chan') = Len(chan) - 0 + 1 /\ 0 <= Len(chan)
        /\ \A j \in 1..(Len(chan) - 0) : chan'[j] = chan[j + 0]
        /\ chan'[Len(chan')] = push
    BY <1>1, <1>2, <1>3, <2>2
  <2> QED BY <1>2, <2>1, <2>2, <2>3
<1>4. CASE ~(Len(chan) < ChannelCap)
  <2>1. Len(chan) = ChannelCap /\ chan # <<>>
    <3>1. Len(chan) \in Nat /\ Len(chan) <= ChannelCap
      BY <1>2
    <3>2. Len(chan) = ChannelCap /\ Len(chan) # 0
      BY <1>1, <1>4, <3>1
    <3> QED BY <3>2
  <2>2. chan' = Append(Tail(chan), push) /\ lagged'
    BY <1>4, <2>1 DEF Send
  <2>3. /\ Tail(chan) \in Seq(Pushes) /\ Len(Tail(chan)) = Len(chan) - 1
        /\ \A j \in 1..Len(Tail(chan)) : Tail(chan)[j] = chan[j + 1]
    BY <1>2, <2>1, HeadTailProperties
  <2> DEFINE rest == Tail(chan)
  <2> HIDE DEF rest
  <2>4. /\ chan' \in Seq(Pushes) /\ Len(chan') = Len(rest) + 1
        /\ \A j \in 1..Len(rest) : chan'[j] = rest[j]
        /\ chan'[Len(rest) + 1] = push
    BY <2>2, <2>3, AppendProperties DEF rest
  <2>5. Len(rest) = Len(chan) - 1 /\ \A j \in 1..Len(rest) : rest[j] = chan[j + 1]
    BY <2>3 DEF rest
  <2>6. /\ Len(chan') <= ChannelCap /\ DOMAIN chan' = 1..Len(chan')
        /\ Len(chan') = Len(chan) - 1 + 1 /\ 1 <= Len(chan)
        /\ \A j \in 1..(Len(chan) - 1) : chan'[j] = chan[j + 1]
        /\ chan'[Len(chan')] = push
    BY <1>1, <1>2, <2>1, <2>4, <2>5
  <2> QED BY <1>2, <2>2, <2>4, <2>6
<1> QED BY <1>3, <1>4

\* What is in the channel afterwards, seen as what is on its way.
LEMMA SendComing ==
  ASSUME ConnTypes, NEW push \in Pushes, Send(push)
  PROVE  /\ \A x, p : InChan(x, p)' => InChan(x, p) \/ push = Event(x, p)
         /\ ~lagged' => ~lagged /\ \A x, p : InChan(x, p) => InChan(x, p)'
         /\ \A x, p : push = Event(x, p) => InChan(x, p)'
<1>1. /\ Len(chan) \in Nat /\ DOMAIN chan = 1..Len(chan) /\ DOMAIN chan' = 1..Len(chan')
      /\ lagged => lagged'
  BY SendFacts
<1>2. PICK d \in {0, 1} :
              /\ Len(chan') = Len(chan) - d + 1 /\ d <= Len(chan) /\ (d = 1 => lagged')
              /\ \A j \in 1..(Len(chan) - d) : chan'[j] = chan[j + d]
              /\ chan'[Len(chan')] = push
  BY SendFacts
<1>3. \A j \in DOMAIN chan' : j = Len(chan') \/ (j \in 1..(Len(chan) - d) /\ j + d \in DOMAIN chan)
  BY <1>1, <1>2
<1>4. Len(chan') \in DOMAIN chan'
  BY <1>1, <1>2
<1>5. ~lagged' => d = 0 /\ \A j \in DOMAIN chan : j \in DOMAIN chan' /\ chan'[j] = chan[j]
  BY <1>1, <1>2
<1>6. ASSUME NEW x, NEW p, InChan(x, p)' PROVE InChan(x, p) \/ push = Event(x, p)
  <2>1. PICK j \in DOMAIN chan' : chan'[j] = Event(x, p)
    BY <1>6 DEF InChan, Event
  <2>2. CASE j = Len(chan')
    BY <1>2, <2>1, <2>2
  <2>3. CASE j \in 1..(Len(chan) - d) /\ j + d \in DOMAIN chan
    BY <1>2, <2>1, <2>3 DEF InChan
  <2> QED BY <1>3, <2>2, <2>3
<1>7. ASSUME NEW x, NEW p, push = Event(x, p) PROVE InChan(x, p)'
  BY <1>2, <1>4, <1>7 DEF InChan, Event
<1>8. ASSUME ~lagged', NEW x, NEW p, InChan(x, p) PROVE InChan(x, p)'
  BY <1>5, <1>8 DEF InChan, Event
<1> QED BY <1>1, <1>6, <1>7, <1>8

LEMMA EmitGapKeepsView ==
  ASSUME PushInv, ViewInv, NEW t \in Tasks, EmitGap(t) PROVE ViewInv'
<1> DEFINE out  == task[t].out
           e    == Lowest(out)
           f    == [e EXCEPT !.gap = FALSE]
           rest == (out \ {e}) \cup {f}
           push == Gap(e.pos)
<1>1. /\ UNCHANGED <<tail, sessions, pushed, sub, known, clean>> /\ Emitting(t)
      /\ task' = [task EXCEPT ![t].out = rest] /\ Send(push)
  BY DEF EmitGap, Emitting, clientVars
<1>2. /\ task[t] = [at |-> "emit", out |-> out] /\ out \subseteq Items /\ e \in out
  BY <1>1, EmitFacts
<1>3. f.id = e.id /\ f.pos = e.pos /\ push \in Pushes /\ push.type = "gap"
  BY <1>2 DEF Items, Gap, Pushes
<1> HIDE DEF out, e, f, push
<1>4. \A x, p : (\E g \in rest : g.id = x /\ g.pos = p) <=> (\E g \in out : g.id = x /\ g.pos = p)
  BY <1>2, <1>3
<1> HIDE DEF rest
<1>5. /\ task'[t].at = "emit" /\ task'[t].out = rest
      /\ \A u \in Tasks : u # t => task'[u] = task[u]
  BY <1>1, <1>2 DEF PushInv, PushTypes
<1>6. \A x, p : Held(x, p)' <=> Held(x, p)
  BY <1>1, <1>4, <1>5 DEF Held, Emitting, out
<1>7. \A x, p : push # Event(x, p)
  BY <1>3 DEF Event
<1>8. /\ \A x, p : Coming(x, p)' => Coming(x, p)
      /\ ~lagged' => ~lagged /\ \A x, p : Coming(x, p) => Coming(x, p)'
  BY <1>1, <1>3, <1>6, <1>7, SendComing DEF Coming, ViewInv
<1>9. ConnTypes' /\ HistoryFull'
  BY <1>1, <1>3, SendFacts DEF ViewInv, ConnTypes, HistoryFull
<1>10. RowsOrdered'
  BY <1>1, <1>5 DEF ViewInv, RowsOrdered, Reading
<1>11. ChanPushed'
  <2>1. PICK d \in {0, 1} :
              /\ Len(chan') = Len(chan) - d + 1 /\ d <= Len(chan)
              /\ \A j \in 1..(Len(chan) - d) : chan'[j] = chan[j + d]
              /\ chan'[Len(chan')] = push
    BY <1>1, <1>3, SendFacts DEF ViewInv
  <2>2. Len(chan) \in Nat /\ DOMAIN chan = 1..Len(chan) /\ DOMAIN chan' = 1..Len(chan')
    BY <1>1, <1>3, SendFacts DEF ViewInv
  <2>3. \A j \in DOMAIN chan' : chan'[j].type = "event" => j + d \in DOMAIN chan /\ chan'[j] = chan[j + d]
    <3> SUFFICES ASSUME NEW j \in DOMAIN chan', chan'[j].type = "event"
                 PROVE  j + d \in DOMAIN chan /\ chan'[j] = chan[j + d]
      OBVIOUS
    <3>1. j # Len(chan')
      BY <1>3, <2>1
    <3>2. j \in 1..(Len(chan) - d) /\ j + d \in 1..Len(chan)
      BY <2>1, <2>2, <3>1
    <3> QED BY <2>1, <2>2, <3>2
  <2>4. \A j, k \in DOMAIN chan' : j + d = k + d => j = k
    BY <2>1, <2>2
  <2> QED BY <1>1, <2>3, <2>4 DEF ViewInv, ChanPushed
<1>12. ItemsPlaced'
  BY <1>1, <1>8, PlacedStays DEF ViewInv
<1>13. ViewKept'
  BY <1>1, <1>8, ViewStays DEF ViewInv
<1> QED BY <1>9, <1>10, <1>11, <1>12, <1>13 DEF ViewInv

LEMMA EmitEventKeepsView ==
  ASSUME PushInv, ViewInv, NEW t \in Tasks, EmitEvent(t) PROVE ViewInv'
<1> DEFINE out  == task[t].out
           e    == Lowest(out)
           left == out \ {e}
           held == IF left = {} THEN Idle ELSE [at |-> "emit", out |-> left]
           push == Event(e.id, e.pos)
<1>1. /\ UNCHANGED <<tail, sessions, sub, known, clean>> /\ Emitting(t)
      /\ task' = [task EXCEPT ![t] = held] /\ Send(push) /\ pushed' = Append(pushed, e.id)
  BY DEF EmitEvent, Emitting, clientVars
<1>2. /\ out \subseteq Items /\ e \in out /\ Pending(t) = {g.id : g \in out}
      /\ \A g, h \in out : g.id = h.id \/ g.pos = h.pos => g = h
  BY <1>1, EmitFacts
<1>3. /\ e.id \in Nat /\ e.pos \in Nat /\ push \in Pushes /\ push.type = "event" /\ push.id = e.id
      /\ \A x, p : push = Event(x, p) <=> x = e.id /\ p = e.pos
  BY <1>2 DEF Items, Event, Pushes
<1> HIDE DEF out, e, push
<1>4. \A x, p : (\E g \in out : g.id = x /\ g.pos = p)
                  <=> (x = e.id /\ p = e.pos) \/ (\E g \in left : g.id = x /\ g.pos = p)
  BY <1>2, <1>3
<1> HIDE DEF left
<1>5. held.at # "read" /\ (held.at = "emit" <=> left # {}) /\ (left # {} => held.out = left)
  BY DEF Idle
<1> HIDE DEF held
<1>6. task'[t] = held /\ \A u \in Tasks : u # t => task'[u] = task[u]
  BY <1>1 DEF PushInv, PushTypes
<1>7. /\ \A x, p : Held(x, p)' => Held(x, p)
      /\ \A x, p : Held(x, p) => Held(x, p)' \/ (x = e.id /\ p = e.pos)
      /\ Held(e.id, e.pos)
  <2>1. \A x, p : Held(x, p)' <=>
           \/ \E g \in left : g.id = x /\ g.pos = p
           \/ \E u \in Tasks : u # t /\ Emitting(u) /\ \E g \in task[u].out : g.id = x /\ g.pos = p
    BY <1>5, <1>6 DEF Held, Emitting
  <2>2. \A x, p : Held(x, p) <=>
           \/ \E g \in out : g.id = x /\ g.pos = p
           \/ \E u \in Tasks : u # t /\ Emitting(u) /\ \E g \in task[u].out : g.id = x /\ g.pos = p
    BY <1>1 DEF Held, out
  <2>3. \A x, p : Held(x, p)' => Held(x, p)
    BY <1>4, <2>1, <2>2
  <2>4. \A x, p : Held(x, p) => Held(x, p)' \/ (x = e.id /\ p = e.pos)
    BY <1>4, <2>1, <2>2
  <2>5. Held(e.id, e.pos)
    BY <1>4, <2>2
  <2> QED BY <2>3, <2>4, <2>5
<1>8. /\ \A x, p : Coming(x, p)' => Coming(x, p)
      /\ ~lagged' => ~lagged /\ \A x, p : Coming(x, p) => Coming(x, p)'
  BY <1>1, <1>3, <1>7, SendComing DEF Coming, ViewInv
<1>9. ConnTypes' /\ HistoryFull'
  BY <1>1, <1>3, SendFacts DEF ViewInv, ConnTypes, HistoryFull
<1>10. RowsOrdered'
  BY <1>1, <1>5, <1>6 DEF ViewInv, RowsOrdered, Reading
<1>11. Ids(pushed') = Ids(pushed) \cup {e.id} /\ e.id \notin Ids(pushed)
  <2>1. e.id \in Pending(t)
    BY <1>2
  <2>2. pushed \in Seq(Nat) /\ e.id \notin Ids(pushed)
    BY <2>1 DEF PushInv, PushTypes, PushedOnce
  <2>3. /\ DOMAIN pushed = 1..Len(pushed) /\ Len(pushed) \in Nat
        /\ DOMAIN pushed' = 1..(Len(pushed) + 1) /\ pushed'[Len(pushed) + 1] = e.id
        /\ \A k \in DOMAIN pushed : pushed'[k] = pushed[k]
    BY <1>1, <1>3, <2>2
  <2>4. \A k \in DOMAIN pushed' : k \in DOMAIN pushed \/ k = Len(pushed) + 1
    BY <2>3
  <2>5. Len(pushed) + 1 \in DOMAIN pushed' /\ \A k \in DOMAIN pushed : k \in DOMAIN pushed'
    BY <2>3
  <2> QED BY <2>2, <2>3, <2>4, <2>5 DEF Ids
<1>12. ChanPushed'
  <2>1. PICK d \in {0, 1} :
              /\ Len(chan') = Len(chan) - d + 1 /\ d <= Len(chan)
              /\ \A j \in 1..(Len(chan) - d) : chan'[j] = chan[j + d]
              /\ chan'[Len(chan')] = push
    BY <1>1, <1>3, SendFacts DEF ViewInv
  <2>2. Len(chan) \in Nat /\ DOMAIN chan = 1..Len(chan) /\ DOMAIN chan' = 1..Len(chan')
    BY <1>1, <1>3, SendFacts DEF ViewInv
  <2>3. \A j \in DOMAIN chan' : j # Len(chan') => j + d \in DOMAIN chan /\ chan'[j] = chan[j + d]
    BY <2>1, <2>2
  <2>4. \A j, k \in DOMAIN chan' : j + d = k + d => j = k
    BY <2>1, <2>2
  <2>5. \A j \in DOMAIN chan' : j # Len(chan') /\ chan'[j].type = "event" => chan'[j].id \in Ids(pushed)
    BY <2>3 DEF ViewInv, ChanPushed
  <2>6. chan'[Len(chan')].id = e.id
    BY <1>3, <2>1
  <2> SUFFICES ASSUME NEW j \in DOMAIN chan', chan'[j].type = "event"
               PROVE  /\ chan'[j].id \in Ids(pushed')
                      /\ \A k \in DOMAIN chan' :
                           chan'[k].type = "event" /\ chan'[k].id = chan'[j].id => j = k
    BY DEF ChanPushed
  <2>7. chan'[j].id \in Ids(pushed')
    BY <1>11, <2>5, <2>6
  <2>8. ASSUME NEW k \in DOMAIN chan', chan'[k].type = "event", chan'[k].id = chan'[j].id
        PROVE  j = k
    <3>1. CASE j = Len(chan') \/ k = Len(chan')
      BY <1>11, <2>5, <2>6, <2>8, <3>1
    <3>2. CASE j # Len(chan') /\ k # Len(chan')
      <4>1. j + d = k + d
        BY <2>3, <2>8, <3>2 DEF ViewInv, ChanPushed
      <4> QED BY <2>4, <4>1
    <3> QED BY <3>1, <3>2
  <2> QED BY <2>7, <2>8
<1>13. ItemsPlaced'
  BY <1>1, <1>8, PlacedStays DEF ViewInv
<1>14. ViewKept'
  BY <1>1, <1>8, ViewStays DEF ViewInv
<1> QED BY <1>9, <1>10, <1>12, <1>13, <1>14 DEF ViewInv

-----------------------------------------------------------------------------
(* The connection's and the client's steps                                 *)

\* A copy stays clean only by what it has already or what comes next.
LEMMA HeardFacts ==
  ASSUME ConnTypes, NEW push \in Pushes, Heard(push)
  PROVE  /\ known' \in Seq(Nat) /\ clean' \in BOOLEAN
         /\ clean' => /\ clean /\ push.type = "event"
                      /\ \/ known' = known /\ push.id \in Ids(known)
                         \/ /\ push.pos = Len(known) /\ push.id \notin Ids(known)
                            /\ known' = Append(known, push.id)
<1> DEFINE n == Len(known)
<1>1. known \in Seq(Nat) /\ n \in Nat /\ DOMAIN known = 1..n /\ clean \in BOOLEAN
  BY DEF ConnTypes
<1>2. CASE ~clean \/ push.type = "gap"
  BY <1>1, <1>2 DEF Heard
<1>3. CASE clean /\ push.type # "gap"
  <2>1. push.type = "event" /\ push.id \in Nat /\ push.pos \in Nat
    BY <1>3 DEF Pushes
  <2>2. CASE push.pos < n
    <3>1. known' = known /\ clean' = (known[push.pos + 1] = push.id)
      BY <1>3, <2>1, <2>2 DEF Heard
    <3>2. push.pos + 1 \in DOMAIN known
      BY <1>1, <2>1, <2>2
    <3> QED BY <1>1, <1>3, <2>1, <3>1, <3>2 DEF Ids
  <2>3. CASE push.pos = n /\ push.id \notin Ids(known)
    <3>1. known' = Append(known, push.id) /\ clean' = TRUE
      BY <1>1, <1>3, <2>1, <2>3 DEF Heard
    <3>2. known' \in Seq(Nat)
      BY <1>1, <2>1, <3>1
    <3> QED BY <1>3, <2>1, <2>3, <3>1, <3>2
  <2>4. CASE ~(push.pos < n) /\ ~(push.pos = n /\ push.id \notin Ids(known))
    <3>1. known' = known /\ clean' = FALSE
      BY <1>3, <2>1, <2>4 DEF Heard
    <3> QED BY <1>1, <3>1
  <2> QED BY <2>2, <2>3, <2>4
<1> QED BY <1>1, <1>2, <1>3 DEF Pushes

\* The push at the head of the channel leaves it, and nothing else does.
LEMMA HeadLeaves ==
  ASSUME ConnTypes, chan # <<>>, chan' = Tail(chan)
  PROVE  /\ Head(chan) \in Pushes /\ Head(chan) = chan[1] /\ 1 \in DOMAIN chan
         /\ chan' \in Seq(Pushes) /\ Len(chan') <= ChannelCap
         /\ \A j \in DOMAIN chan' : j + 1 \in DOMAIN chan /\ chan'[j] = chan[j + 1] /\ j \in Nat
         /\ \A x, p : InChan(x, p)' => InChan(x, p)
         /\ \A x, p : InChan(x, p) => InChan(x, p)' \/ Head(chan) = Event(x, p)
<1>1. /\ chan \in Seq(Pushes) /\ Len(chan) \in Nat \ {0} /\ DOMAIN chan = 1..Len(chan)
      /\ Len(chan) <= ChannelCap /\ ChannelCap \in Nat
  BY PushAssumption DEF ConnTypes
<1>2. /\ chan' \in Seq(Pushes) /\ Len(chan') = Len(chan) - 1
      /\ \A j \in 1..Len(chan') : chan'[j] = chan[j + 1]
      /\ Head(chan) = chan[1] /\ Head(chan) \in Pushes
  BY <1>1, HeadTailProperties
<1>3. DOMAIN chan' = 1..(Len(chan) - 1)
  BY <1>2
<1>4. \A j \in DOMAIN chan' : j + 1 \in DOMAIN chan /\ chan'[j] = chan[j + 1] /\ j \in Nat
  BY <1>1, <1>2, <1>3
<1>5. \A i \in DOMAIN chan : i = 1 \/ (i - 1 \in DOMAIN chan' /\ (i - 1) + 1 = i)
  BY <1>1, <1>3
<1>6. ASSUME NEW x, NEW p, InChan(x, p)' PROVE InChan(x, p)
  BY <1>4, <1>6 DEF InChan, Event
<1>7. ASSUME NEW x, NEW p, InChan(x, p) PROVE InChan(x, p)' \/ Head(chan) = Event(x, p)
  <2>1. PICK i \in DOMAIN chan : chan[i] = Event(x, p)
    BY <1>7 DEF InChan
  <2>2. CASE i = 1
    BY <1>2, <2>1, <2>2
  <2>3. CASE i - 1 \in DOMAIN chan' /\ (i - 1) + 1 = i
    <3>1. chan'[i - 1] = Event(x, p)
      BY <1>4, <2>1, <2>3
    <3>2. \E j \in DOMAIN chan' : chan'[j] = Event(x, p)
      BY <2>3, <3>1
    <3> QED BY <3>2 DEF InChan, Event
  <2> QED BY <1>5, <2>2, <2>3
<1> QED BY <1>1, <1>2, <1>3, <1>4, <1>6, <1>7

\* A history without repetition has as many events as positions.
LEMMA DistinctCounts ==
  ASSUME NEW s \in Seq(Nat), Distinct(s)
  PROVE  IsFiniteSet(Ids(s)) /\ Cardinality(Ids(s)) = Len(s)
<1> DEFINE n == Len(s)
           f == [i \in 1..n |-> s[i]]
<1>1. n \in Nat /\ DOMAIN s = 1..n
  OBVIOUS
<1> HIDE DEF n
<1>2. f \in Bijection(1..n, Ids(s))
  <2>1. f \in [1..n -> Ids(s)]
    BY <1>1 DEF Ids
  <2>2. \A i, j \in 1..n : f[i] = f[j] => i = j
    BY <1>1 DEF Distinct
  <2>3. \A x \in Ids(s) : \E i \in 1..n : f[i] = x
    BY <1>1 DEF Ids
  <2> QED BY <2>1, <2>2, <2>3 DEF Bijection, Injection, Surjection, IsInjective
<1>3. ExistsBijection(1..n, Ids(s))
  BY <1>2 DEF ExistsBijection
<1>4. IsFiniteSet(Ids(s)) /\ Cardinality(Ids(s)) = n
  BY <1>1, <1>3, FS_CountingElements, FS_NatBijection
<1> QED BY <1>4 DEF n

\* The event that comes next follows the whole copy, or one that precedes it is
\* missing, is on its way, and will be late.
LEMMA NextFollows ==
  ASSUME PushInv, ViewInv, One, sub.subscribed, clean, ~lagged,
         NEW x, Coming(x, Len(known))
  PROVE  /\ x \in Ids(tail)
         /\ \/ \A y \in Ids(known) : Precedes(tail, y, x)
            \/ \E y, q : Coming(y, q) /\ y # x /\ y \notin Ids(known) /\ q < Len(known)
<1> DEFINE K == Ids(known)
<1>1. /\ Distinct(known) /\ K \subseteq Ids(tail)
      /\ \A y \in Ids(tail) \ K : y \in Seen => \E q : Coming(y, q)
  BY DEF ViewInv, ViewKept
<1>2. tail \in Seq(Nat) /\ Distinct(tail) /\ known \in Seq(Nat) /\ Len(tail) \in Nat
      /\ Ids(tail) = 0..(Len(tail) - 1)
  BY DEF PushInv, PushTypes, HistoryGrows, ViewInv, ConnTypes, HistoryFull
<1>3. PICK n \in 0..Len(tail) :
        /\ x \in 0..(n - 1) /\ 0..(n - 1) \subseteq Seen /\ Len(known) = Ranked(tail, n, x)
        /\ \A y, q : Coming(y, q) /\ y \in 0..(n - 1) /\ Precedes(tail, y, x) => q < Len(known)
  BY DEF ViewInv, ItemsPlaced, Placed
<1> DEFINE B == {g \in 0..(n - 1) : Precedes(tail, g, x)}
<1>4. 0..(n - 1) \subseteq Ids(tail)
  BY <1>2
<1>5. IsFiniteSet(K) /\ Cardinality(K) = Cardinality(B)
  BY <1>1, <1>2, <1>3, DistinctCounts DEF Ranked
<1>6. ASSUME NEW z \in K, ~Precedes(tail, z, x)
      PROVE  \E y, q : Coming(y, q) /\ y # x /\ y \notin K /\ q < Len(known)
  <2>1. z \notin B
    BY <1>6
  <2>2. ~(B \subseteq K)
    <3> SUFFICES ASSUME B \subseteq K PROVE FALSE
      OBVIOUS
    <3>1. B = K
      BY <1>5, FS_Subset
    <3> QED BY <2>1, <3>1
  <2>3. PICK y \in B : y \notin K
    BY <2>2
  <2>4. y \in 0..(n - 1) /\ Precedes(tail, y, x)
    OBVIOUS
  <2>5. PICK q : Coming(y, q)
    BY <1>1, <1>3, <1>4, <2>3, <2>4
  <2>6. q < Len(known)
    BY <1>3, <2>4, <2>5
  <2>7. y # x
    BY <1>2, <2>4, PrecedesOrders
  <2> QED BY <2>3, <2>5, <2>6, <2>7
<1> QED BY <1>3, <1>4, <1>6

LEMMA DeliverKeepsView ==
  ASSUME PushInv, ViewInv, Deliver PROVE ViewInv'
<1> DEFINE push == Head(chan)
           n == Len(known)
<1>1. /\ UNCHANGED <<tail, sessions, task, pushed, lagged>> /\ ~lagged /\ chan # <<>>
      /\ chan' = Tail(chan)
      /\ IF ~sub.subscribed THEN UNCHANGED <<sub, known, clean>>
         ELSE /\ Heard(push)
              /\ sub' = IF push.type = "event" THEN [sub EXCEPT !.last_delivered = push.pos]
                                               ELSE sub
  BY DEF Deliver, daemonVars, clientVars
<1>2. /\ push \in Pushes /\ push = chan[1] /\ 1 \in DOMAIN chan
      /\ chan' \in Seq(Pushes) /\ Len(chan') <= ChannelCap
      /\ \A j \in DOMAIN chan' : j + 1 \in DOMAIN chan /\ chan'[j] = chan[j + 1] /\ j \in Nat
      /\ \A x, p : InChan(x, p)' => InChan(x, p)
      /\ \A x, p : InChan(x, p) => InChan(x, p)' \/ push = Event(x, p)
  BY <1>1, HeadLeaves DEF ViewInv
<1> HIDE DEF push
<1>3. /\ \A x, p : Coming(x, p)' => Coming(x, p)
      /\ \A x, p : Coming(x, p) => Coming(x, p)' \/ push = Event(x, p)
  <2>1. \A x, p : Held(x, p)' <=> Held(x, p)
    BY <1>1 DEF Held, Emitting
  <2> QED BY <1>2, <2>1 DEF Coming
<1>4. HistoryFull' /\ RowsOrdered'
  BY <1>1 DEF ViewInv, HistoryFull, RowsOrdered, Reading
<1>5. ChanPushed'
  <2>1. \A j, k \in DOMAIN chan' : j + 1 = k + 1 => j = k
    BY <1>2
  <2> QED BY <1>1, <1>2, <2>1 DEF ViewInv, ChanPushed
<1>6. ItemsPlaced'
  BY <1>1, <1>3, PlacedStays DEF ViewInv
<1>7. CASE ~sub.subscribed
  <2>1. ~clean /\ UNCHANGED <<sub, known, clean>>
    BY <1>1, <1>7 DEF ViewInv, ConnTypes
  <2>2. ConnTypes'
    BY <1>1, <1>2, <2>1 DEF ViewInv, ConnTypes
  <2> QED BY <1>4, <1>5, <1>6, <2>1, <2>2 DEF ViewInv, ViewKept
<1>8. CASE sub.subscribed
  <2>1. /\ known' \in Seq(Nat) /\ clean' \in BOOLEAN
        /\ clean' => /\ clean /\ push.type = "event"
                     /\ \/ known' = known /\ push.id \in Ids(known)
                        \/ /\ push.pos = Len(known) /\ push.id \notin Ids(known)
                           /\ known' = Append(known, push.id)
    BY <1>1, <1>2, <1>8, HeardFacts DEF ViewInv
  <2>2. sub' \in Subscriptions /\ sub'.subscribed
    <3>1. sub \in Subscriptions
      BY <1>8 DEF ViewInv, ConnTypes, NoSub
    <3>2. CASE push.type = "event"
      <4>1. push.pos \in Int
        BY <1>2, <3>2 DEF Pushes
      <4> QED BY <1>1, <1>8, <3>1, <3>2, <4>1 DEF Subscriptions
    <3>3. CASE push.type # "event"
      BY <1>1, <1>8, <3>1, <3>3
    <3> QED BY <3>2, <3>3
  <2>3. ConnTypes'
    BY <1>1, <1>2, <2>1, <2>2 DEF ViewInv, ConnTypes
  <2>4. ViewKept'
    <3> SUFFICES ASSUME One, clean'
                 PROVE  /\ Distinct(known)' /\ Ids(known') \subseteq Ids(tail)
                        /\ \A x \in Ids(tail) \ Ids(known') : x \in Seen => \E q : Coming(x, q)'
                        /\ Ordered' \/ Doomed'
      BY <1>1 DEF ViewKept, One, Seen
    <3>1. clean /\ push.type = "event" /\ known \in Seq(Nat) /\ n \in Nat
      BY <2>1 DEF ViewInv, ConnTypes
    <3>2. /\ Distinct(known) /\ Ids(known) \subseteq Ids(tail)
          /\ \A x \in Ids(tail) \ Ids(known) : x \in Seen => \E q : Coming(x, q)
          /\ Ordered \/ Doomed
      BY <1>1, <1>8, <3>1 DEF ViewInv, ViewKept
    <3> DEFINE x == push.id
    <3>3. /\ push = Event(x, push.pos) /\ x \in Nat /\ Coming(x, push.pos)
          /\ \A y, q : push = Event(y, q) => y = x
      BY <1>2, <3>1 DEF Pushes, Event, Coming, InChan
    <3>4. \A y, q : Coming(y, q) /\ y # x => Coming(y, q)'
      BY <1>3, <3>3
    <3> HIDE DEF x
    <3>5. CASE known' = known /\ x \in Ids(known)
      <4>1. \A y \in Ids(tail) \ Ids(known) : y \in Seen => \E q : Coming(y, q)'
        BY <3>2, <3>4, <3>5
      <4>2. Doomed => Doomed'
        BY <3>4, <3>5 DEF Doomed
      <4>3. Ordered => Ordered'
        BY <1>1, <3>5 DEF Ordered
      <4> QED BY <3>2, <3>5, <4>1, <4>2, <4>3
    <3>6. CASE push.pos = n /\ x \notin Ids(known) /\ known' = Append(known, x)
      <4>1. /\ DOMAIN known = 1..n /\ DOMAIN known' = 1..(n + 1) /\ Len(known') = n + 1
            /\ known'[n + 1] = x /\ \A k \in 1..n : known'[k] = known[k]
        BY <3>1, <3>3, <3>6
      <4>2. \A k \in DOMAIN known' : k \in 1..n \/ k = n + 1
        BY <3>1, <4>1
      <4>3. n + 1 \in DOMAIN known' /\ \A k \in 1..n : k \in DOMAIN known'
        BY <3>1, <4>1
      <4>4. Ids(known') = Ids(known) \cup {x}
        <5>1. x \in Ids(known')
          BY <4>1, <4>3 DEF Ids
        <5>2. Ids(known) \subseteq Ids(known')
          BY <4>1, <4>3 DEF Ids
        <5>3. Ids(known') \subseteq Ids(known) \cup {x}
          BY <4>1, <4>2 DEF Ids
        <5> QED BY <5>1, <5>2, <5>3
      <4>5. \A k \in 1..n : known[k] \in Ids(known)
        BY <4>1 DEF Ids
      <4>6. Distinct(known)'
        BY <3>2, <3>6, <4>1, <4>2, <4>5 DEF Distinct
      <4>7. /\ x \in Ids(tail)
            /\ \/ \A y \in Ids(known) : Precedes(tail, y, x)
               \/ \E y, q : Coming(y, q) /\ y # x /\ y \notin Ids(known) /\ q < Len(known)
        BY <1>1, <1>8, <3>1, <3>3, <3>6, NextFollows
      <4>8. \A y \in Ids(tail) \ Ids(known') : y \in Seen => \E q : Coming(y, q)'
        BY <3>2, <3>4, <4>4
      <4>9. ASSUME \E y, q : Coming(y, q) /\ y # x /\ y \notin Ids(known) /\ q < Len(known)
            PROVE  Doomed'
        <5>1. PICK y, q : Coming(y, q) /\ y # x /\ y \notin Ids(known) /\ q < n
          BY <4>9
        <5>2. q \in Nat
          BY <5>1, ComingFacts DEF ViewInv
        <5>3. q < Len(known') /\ y \notin Ids(known') /\ Coming(y, q)'
          BY <3>1, <3>4, <4>1, <4>4, <5>1, <5>2
        <5> QED BY <5>3 DEF Doomed
      <4>10. Doomed => Doomed'
        <5> SUFFICES ASSUME Doomed PROVE Doomed'
          OBVIOUS
        <5>1. PICK y, q : Coming(y, q) /\ y \notin Ids(known) /\ q < Len(known)
          BY DEF Doomed
        <5>2. y # x
          BY <3>1, <3>3, <3>6, <5>1, ComingFacts DEF ViewInv
        <5> QED BY <4>9, <5>1, <5>2
      <4>11. ASSUME Ordered, \A y \in Ids(known) : Precedes(tail, y, x) PROVE Ordered'
        <5> SUFFICES ASSUME NEW i \in DOMAIN known', NEW j \in DOMAIN known', i < j
                     PROVE  Precedes(tail, known'[i], known'[j])
          BY <1>1 DEF Ordered
        <5>1. i \in 1..n
          BY <3>1, <4>1
        <5>2. CASE j \in 1..n
          BY <4>1, <4>11, <5>1, <5>2 DEF Ordered
        <5>3. CASE j = n + 1
          BY <4>1, <4>5, <4>11, <5>1, <5>3
        <5> QED BY <4>2, <5>2, <5>3
      <4>12. Ordered' \/ Doomed'
        BY <3>2, <4>7, <4>9, <4>10, <4>11
      <4> QED BY <3>2, <4>4, <4>6, <4>7, <4>8, <4>12
    <3> QED BY <2>1, <3>5, <3>6 DEF x
  <2> QED BY <1>4, <1>5, <1>6, <2>3, <2>4 DEF ViewInv
<1> QED BY <1>7, <1>8

\* A step that leaves the daemon and the channel alone keeps what is on its way.
LEMMA ConnStep ==
  ASSUME ViewInv, UNCHANGED <<tail, sessions, task, pushed, chan>>
  PROVE  /\ \A x, p : Coming(x, p)' <=> Coming(x, p)
         /\ HistoryFull' /\ RowsOrdered' /\ ChanPushed' /\ ItemsPlaced'
<1>1. \A x, p : Coming(x, p)' <=> Coming(x, p)
  BY DEF Coming, Held, InChan, Emitting
<1>2. HistoryFull' /\ RowsOrdered' /\ ChanPushed'
  BY DEF ViewInv, HistoryFull, RowsOrdered, Reading, ChanPushed
<1>3. ItemsPlaced'
  BY <1>1, PlacedStays DEF ViewInv
<1> QED BY <1>1, <1>2, <1>3

LEMMA LaggingKeepsView ==
  ASSUME ViewInv, Lagging PROVE ViewInv'
<1>1. /\ UNCHANGED <<tail, sessions, task, pushed, chan, sub>> /\ lagged' = FALSE
      /\ IF sub.subscribed
         THEN Heard(Gap(IF sub.last_delivered >= 0 THEN sub.last_delivered ELSE sub.from_pos))
         ELSE UNCHANGED <<known, clean>>
  BY DEF Lagging, daemonVars, clientVars
<1>2. known' = known /\ clean' = FALSE
  <2>1. CASE sub.subscribed
    BY <1>1, <2>1 DEF Heard, Gap
  <2>2. CASE ~sub.subscribed
    BY <1>1, <2>2 DEF ViewInv, ConnTypes
  <2> QED BY <2>1, <2>2
<1>3. ConnTypes'
  BY <1>1, <1>2 DEF ViewInv, ConnTypes
<1>4. HistoryFull' /\ RowsOrdered' /\ ChanPushed' /\ ItemsPlaced'
  BY <1>1, ConnStep
<1> QED BY <1>2, <1>3, <1>4 DEF ViewInv, ViewKept

LEMMA SubscribeKeepsView ==
  ASSUME PushInv, ViewInv, Subscribe PROVE ViewInv'
<1>1. /\ UNCHANGED <<tail, sessions, task, pushed, chan, lagged, known, clean>> /\ ~sub.subscribed
      /\ sub' = [subscribed |-> TRUE, from_pos |-> Len(tail) - 1, last_delivered |-> -1]
  BY DEF Subscribe, daemonVars, clientVars
<1>2. ~clean /\ Len(tail) - 1 \in Int
  BY <1>1 DEF ViewInv, ConnTypes, PushInv, PushTypes
<1>3. ConnTypes'
  BY <1>1, <1>2 DEF ViewInv, ConnTypes, Subscriptions
<1>4. HistoryFull' /\ RowsOrdered' /\ ChanPushed' /\ ItemsPlaced'
  BY <1>1, ConnStep
<1> QED BY <1>1, <1>2, <1>3, <1>4 DEF ViewInv, ViewKept

LEMMA UnsubscribeKeepsView ==
  ASSUME ViewInv, Unsubscribe PROVE ViewInv'
<1>1. /\ UNCHANGED <<tail, sessions, task, pushed, chan, lagged>>
      /\ sub' = NoSub /\ known' = <<>> /\ clean' = FALSE
  BY DEF Unsubscribe, daemonVars
<1>2. ConnTypes'
  <2>1. known' \in Seq(Nat)
    <3>1. <<>> \in Seq(Nat)
      OBVIOUS
    <3> QED BY <1>1, <3>1
  <2> QED BY <1>1, <2>1 DEF ViewInv, ConnTypes
<1>3. HistoryFull' /\ RowsOrdered' /\ ChanPushed' /\ ItemsPlaced'
  BY <1>1, ConnStep
<1> QED BY <1>1, <1>2, <1>3 DEF ViewInv, ViewKept

LEMMA ReadRoomKeepsView ==
  ASSUME PushInv, ViewInv, ReadRoom PROVE ViewInv'
<1>1. /\ UNCHANGED <<tail, sessions, task, pushed, chan, lagged, sub>> /\ sub.subscribed
      /\ known' = tail /\ clean' = TRUE
  BY DEF ReadRoom, daemonVars, connVars
<1>2. ConnTypes'
  BY <1>1 DEF ViewInv, ConnTypes, PushInv, PushTypes
<1>3. HistoryFull' /\ RowsOrdered' /\ ChanPushed' /\ ItemsPlaced'
  BY <1>1, ConnStep
<1>4. Distinct(known)' /\ Ids(known)' = Ids(tail')
  BY <1>1 DEF PushInv, HistoryGrows, Distinct, Ids
<1>5. Ordered'
  BY <1>1 DEF Ordered, Precedes
<1> QED BY <1>2, <1>3, <1>4, <1>5 DEF ViewInv, ViewKept

LEMMA InitView == ASSUME Init PROVE ViewInv
<1>1. /\ tail = <<0>> /\ task = [t \in Tasks |-> Idle] /\ chan = <<>> /\ lagged = FALSE
      /\ sub = NoSub /\ known = <<>> /\ clean = FALSE
  BY DEF Init
<1>2. ConnTypes
  <2>1. known \in Seq(Nat) /\ chan \in Seq(Pushes)
    BY <1>1
  <2>2. Len(chan) = 0 /\ ChannelCap \in Nat
    BY <1>1, PushAssumption
  <2>3. Len(chan) <= ChannelCap
    BY <2>2
  <2> QED BY <1>1, <2>1, <2>3 DEF ConnTypes
<1>3. HistoryFull
  BY <1>1 DEF HistoryFull, Ids
<1>4. \A t \in Tasks : ~Reading(t) /\ ~Emitting(t)
  BY <1>1 DEF Reading, Emitting, Idle
<1>5. RowsOrdered /\ ChanPushed
  BY <1>1, <1>4 DEF RowsOrdered, ChanPushed
<1>6. ItemsPlaced
  BY <1>1, <1>4 DEF ItemsPlaced, Coming, Held, InChan
<1> QED BY <1>1, <1>2, <1>3, <1>5, <1>6 DEF ViewInv, ViewKept

LEMMA NextKeepsView == ASSUME PushInv, ViewInv, [Next]_vars PROVE ViewInv'
<1>1. CASE \E r \in 1..MaxEvents : Commit(r)
  BY <1>1, CommitKeepsView
<1>2. CASE Lapse
  BY <1>2, LapseKeepsView
<1>3. CASE \E t \in Tasks : Step(t)
  <2>1. PICK t \in Tasks : Step(t)
    BY <1>3
  <2> QED BY <2>1, ReadKeepsView, CollectKeepsView, EmitGapKeepsView, EmitEventKeepsView
          DEF Step, Emit
<1>4. CASE Lagging
  BY <1>4, LaggingKeepsView
<1>5. CASE Deliver
  BY <1>5, DeliverKeepsView
<1>6. CASE Subscribe
  BY <1>6, SubscribeKeepsView
<1>7. CASE Unsubscribe
  BY <1>7, UnsubscribeKeepsView
<1>8. CASE ReadRoom
  BY <1>8, ReadRoomKeepsView
<1>9. CASE UNCHANGED vars
  <2>1. UNCHANGED <<tail, sessions, task, pushed, chan, lagged, sub, known, clean>>
    BY <1>9 DEF vars, daemonVars, connVars, clientVars
  <2>2. /\ \A x, p : Coming(x, p)' <=> Coming(x, p)
        /\ HistoryFull' /\ RowsOrdered' /\ ChanPushed' /\ ItemsPlaced'
    BY <2>1, ConnStep
  <2>3. ConnTypes'
    BY <2>1 DEF ViewInv, ConnTypes
  <2>4. ViewKept'
    BY <2>1, <2>2 DEF ViewInv, ViewKept, One, Seen, Ordered, Doomed
  <2> QED BY <2>2, <2>3, <2>4 DEF ViewInv
<1> QED BY <1>1, <1>2, <1>3, <1>4, <1>5, <1>6, <1>7, <1>8, <1>9 DEF Next

\* A copy that is clean when all was sent has every event, in the order of the
\* history: so it is the history.
LEMMA CleanIsCurrent == ASSUME PushInv, ViewInv PROVE NoSilentDivergence
<1> SUFFICES ASSUME sub.subscribed, clean, Quiescent, Len(sessions) = 1
             PROVE  known = tail
  BY DEF NoSilentDivergence
<1>1. /\ \A t \in Tasks : ~Emitting(t) /\ chan = <<>> /\ ~lagged
      /\ Ids(tail) \subseteq sessions[1].seen
  BY DEF Quiescent, Emitting
<1>2. \A x, p : ~Coming(x, p)
  <2>1. chan = <<>>
    BY DEF Quiescent
  <2> QED BY <1>1, <2>1 DEF Coming, Held, InChan
<1>3. /\ Distinct(known) /\ Ids(known) \subseteq Ids(tail)
      /\ \A x \in Ids(tail) \ Ids(known) : x \in Seen => \E q : Coming(x, q)
      /\ Ordered \/ Doomed
  BY DEF ViewInv, ViewKept, One, Quiescent
<1>4. Ordered /\ Ids(known) = Ids(tail)
  BY <1>1, <1>2, <1>3 DEF Doomed, Seen
<1>5. tail \in Seq(Nat) /\ Distinct(tail) /\ known \in Seq(Nat)
  BY DEF PushInv, PushTypes, HistoryGrows, ViewInv, ConnTypes
<1> QED BY <1>4, <1>5, OrderDetermines DEF Ordered

-----------------------------------------------------------------------------
(* The theorems                                                            *)

LEMMA PushInit == Init => PushInv
<1> SUFFICES ASSUME Init PROVE PushInv OBVIOUS
<1>1. tail = <<0>> /\ pushed = <<>> /\ \A t \in Tasks : task[t] = Idle
  BY DEF Init
<1>2. /\ tail \in Seq(Nat) /\ Len(tail) = 1 /\ DOMAIN tail = {1} /\ tail[1] = 0
      /\ pushed \in Seq(Nat) /\ DOMAIN pushed = {}
  BY <1>1
<1>3. Seeded(tail) \in Sessions /\ Seeded(tail).seen = Ids(tail)
  <2>1. Ids(tail) \subseteq Nat
    BY <1>2 DEF Ids
  <2> QED BY <1>2, <2>1 DEF Seeded, Sessions
<1> DEFINE s == Seeded(tail)
<1> HIDE DEF s
<1>4. sessions = <<s>> /\ s \in Sessions /\ s.seen = Ids(tail)
  BY <1>3 DEF Init, s
<1>5. sessions \in Seq(Sessions) /\ sessions # <<>> /\ DOMAIN sessions = {1} /\ sessions[1] = s
  BY <1>4
<1>6. \A t \in Tasks : task[t].at = "idle" /\ Pending(t) = {}
  BY <1>1 DEF Idle, Pending
<1>7. PushTypes
  BY <1>2, <1>5 DEF Init, PushTypes
<1>8. HistoryGrows
  BY <1>2, <1>4, <1>5 DEF HistoryGrows, Distinct
<1>9. \A x : ~Taken(x)
  BY <1>2, <1>6 DEF Taken, Ids
<1>10. PushedOnce
  BY <1>2, <1>6 DEF PushedOnce
<1> QED BY <1>6, <1>7, <1>8, <1>9, <1>10 DEF PushInv, TakenSeen, RowsFresh, BatchesDistinct, Reading, Emitting

LEMMA PushNext == PushInv /\ [Next]_vars => PushInv'
<1> SUFFICES ASSUME PushInv, [Next]_vars PROVE PushInv' OBVIOUS
<1>1. ASSUME NEW r, Commit(r) PROVE PushInv'
  BY <1>1, CommitPreserves
<1>2. CASE Lapse
  BY <1>2, LapsePreserves
<1>3. ASSUME NEW t \in Tasks, Step(t) PROVE PushInv'
  BY <1>3, ReadPreserves, CollectPreserves, EmitGapPreserves, EmitEventPreserves DEF Step, Emit
<1>4. CASE Lagging \/ Deliver \/ Subscribe \/ Unsubscribe \/ ReadRoom \/ UNCHANGED vars
  <2>1. UNCHANGED daemonVars
    BY <1>4 DEF Lagging, Deliver, Subscribe, Unsubscribe, ReadRoom, vars
  <2>2. UNCHANGED <<tail, sessions, task, pushed>>
    BY <2>1 DEF daemonVars
  <2>3. \A t \in Tasks : Pending(t)' = Pending(t)
    BY <2>2 DEF Pending
  <2> QED BY <2>2, <2>3, HeldStays
          DEF PushInv, PushTypes, HistoryGrows, TakenSeen, RowsFresh, Reading, BatchesDistinct, Emitting
<1> QED BY <1>1, <1>2, <1>3, <1>4 DEF Next

\* The invariant of the proof: what a collector may still take is taken by
\* nobody, whichever session of the room it works for.
THEOREM PushInvariant == Spec => []PushInv
<1> QED BY PushInit, PushNext, PTL DEF Spec

\* However many collectors read, rank and emit the tail of a room, in whatever
\* order and across closed and reopened sessions, no event is pushed twice and
\* none is held by two of them (collect_committed and emit_committed).
THEOREM EventsPushedOnce == Spec => []PushedOnce
<1>1. PushInv => PushedOnce
  BY DEF PushInv
<1> QED BY <1>1, PushInvariant, PTL

\* The invariant behind the client's side: what is on its way to a connection
\* has its rank among the events collected so far as its position, above all
\* that precedes it and is still to come; and a copy nothing contradicted lacks
\* only what is on its way, and is in order unless what is on its way will tell.
THEOREM ViewInvariant == Spec => [](PushInv /\ ViewInv)
<1>1. Init => PushInv /\ ViewInv
  BY PushInit, InitView
<1>2. PushInv /\ ViewInv /\ [Next]_vars => PushInv' /\ ViewInv'
  BY PushNext, NextKeepsView
<1> QED BY <1>1, <1>2, PTL DEF Spec

\* A subscriber that was sent nothing to contradict its copy holds the history
\* of the room, in its order, once everything was pushed: insertions below the
\* tip, collectors that overtake one another and overwritten pushes never pass
\* unnoticed (collect_committed, emit_committed and serve_connection).
THEOREM CleanCopyIsHistory == Spec => []NoSilentDivergence
<1>1. PushInv /\ ViewInv => NoSilentDivergence
  BY CleanIsCurrent
<1> QED BY <1>1, ViewInvariant, PTL

=============================================================================
