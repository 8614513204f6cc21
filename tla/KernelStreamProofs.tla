-------------------------- MODULE KernelStreamProofs --------------------------
(***************************************************************************)
(* Theorems about KernelStream: for any number of calls, windows and caps, *)
(* a call on the wire always has a timer or a terminal to wait for, a      *)
(* success is of a complete exchange, and a daemon that keeps to the       *)
(* protocol is faulted in one race only.                                   *)
(***************************************************************************)
EXTENDS KernelStream, SequenceTheorems, FiniteSetTheorems, TLAPS

-----------------------------------------------------------------------------
(* The kernel's queues, duplicate-free                                     *)

\* Without closes the gap an element leaves.
LEMMA WithoutAt ==
    ASSUME NEW S, NEW s \in Seq(S), NEW i \in 1..Len(s), Distinct(s)
    PROVE  /\ Without(s, s[i]) \in Seq(S)
           /\ Len(Without(s, s[i])) = Len(s) - 1
           /\ \A k \in 1..(Len(s) - 1) :
                Without(s, s[i])[k] = IF k < i THEN s[k] ELSE s[k + 1]
<1>1. s[i] \in Elements(s)
  BY DEF Elements
<1>2. (CHOOSE j \in DOMAIN s : s[j] = s[i]) = i
  BY DEF Distinct
<1> DEFINE a == SubSeq(s, 1, i - 1)
           b == SubSeq(s, i + 1, Len(s))
           t == a \o b
<1>3. Without(s, s[i]) = t
  BY <1>1, <1>2 DEF Without
<1>4. /\ a \in Seq(S) /\ Len(a) = i - 1
      /\ \A k \in 1..(i - 1) : a[k] = s[k]
  OBVIOUS
<1>5. /\ b \in Seq(S) /\ Len(b) = Len(s) - i
      /\ \A k \in 1..(Len(s) - i) : b[k] = s[k + i]
  OBVIOUS
<1> HIDE DEF a, b
<1>6. /\ t \in Seq(S) /\ Len(t) = Len(a) + Len(b)
      /\ \A k \in 1..(Len(a) + Len(b)) :
           t[k] = IF k <= Len(a) THEN a[k] ELSE b[k - Len(a)]
  BY <1>4, <1>5, ConcatProperties, Zenon
<1> HIDE DEF t
<1>7. Len(a) + Len(b) = Len(s) - 1 /\ Len(s) \in Nat /\ i \in Nat
  BY <1>4, <1>5
<1>8. ASSUME NEW k \in 1..(Len(s) - 1)
      PROVE  t[k] = IF k < i THEN s[k] ELSE s[k + 1]
  <2>1. CASE k < i
    BY <2>1, <1>6, <1>7, <1>4
  <2>2. CASE k >= i
    <3>1. k - (i - 1) \in 1..(Len(s) - i) /\ (k - (i - 1)) + i = k + 1
      BY <2>2, <1>7
    <3>2. t[k] = b[k - (i - 1)]
      <4>1. /\ k \in 1..(Len(a) + Len(b)) /\ ~(k <= Len(a))
            /\ Len(a) = i - 1
        BY <2>2, <1>7, <1>4
      <4> QED BY <4>1, <1>6
    <3>3. b[k - (i - 1)] = s[(k - (i - 1)) + i]
      BY <3>1, <1>5
    <3> QED BY <3>1, <3>2, <3>3, <2>2, <1>7
  <2> QED BY <2>1, <2>2, <1>7
<1> QED BY <1>3, <1>6, <1>7, <1>8

\* Without removes one element of a duplicate-free sequence and nothing else.
LEMMA WithoutRemoves ==
    ASSUME NEW S, NEW s \in Seq(S), NEW c, Distinct(s)
    PROVE  /\ Without(s, c) \in Seq(S)
           /\ Distinct(Without(s, c))
           /\ Elements(Without(s, c)) = Elements(s) \ {c}
           /\ Len(Without(s, c)) <= Len(s)
<1>1. CASE c \notin Elements(s)
  BY <1>1 DEF Without
<1>2. CASE c \in Elements(s)
  <2> PICK i \in 1..Len(s) : s[i] = c
    BY <1>2 DEF Elements
  <2> DEFINE t == Without(s, c)
  <2>5. /\ t \in Seq(S) /\ Len(t) = Len(s) - 1
        /\ \A k \in 1..(Len(s) - 1) : t[k] = IF k < i THEN s[k] ELSE s[k + 1]
    BY WithoutAt
  <2> HIDE DEF t
  <2>6. Distinct(t)
    <3> SUFFICES ASSUME NEW k \in 1..(Len(s) - 1), NEW m \in 1..(Len(s) - 1),
                        t[k] = t[m]
                 PROVE  k = m
      BY <2>5 DEF Distinct
    <3> DEFINE pos(x) == IF x < i THEN x ELSE x + 1
    <3>1. s[pos(k)] = s[pos(m)] /\ pos(k) \in DOMAIN s /\ pos(m) \in DOMAIN s
      BY <2>5
    <3>2. pos(k) = pos(m)
      BY <3>1 DEF Distinct
    <3> QED BY <3>2
  <2>7. Elements(t) = Elements(s) \ {c}
    <3>1. ASSUME NEW k \in 1..(Len(s) - 1)
          PROVE  t[k] \in Elements(s) \ {c}
      <4> DEFINE m == IF k < i THEN k ELSE k + 1
      <4>1. m \in DOMAIN s /\ m # i /\ t[k] = s[m]
        BY <2>5
      <4> HIDE DEF m
      <4> QED BY <4>1 DEF Distinct, Elements
    <3>2. ASSUME NEW k \in 1..Len(s), s[k] # c
          PROVE  \E j \in 1..(Len(s) - 1) : t[j] = s[k]
      <4>1. CASE k < i
        <5>1. k \in 1..(Len(s) - 1) /\ t[k] = s[k]
          BY <4>1, <2>5
        <5> QED BY <5>1
      <4>2. CASE k > i
        <5>1. k - 1 \in 1..(Len(s) - 1) /\ t[k - 1] = s[k]
          BY <4>2, <2>5
        <5> QED BY <5>1
      <4> QED BY <3>2, <4>1, <4>2
    <3> QED BY <3>1, <3>2, <2>5 DEF Elements
  <2> QED BY <2>5, <2>6, <2>7 DEF t
<1> QED BY <1>1, <1>2

\* Tail removes the head, which is nowhere else.
LEMMA TailRemoves ==
    ASSUME NEW S, NEW s \in Seq(S), Distinct(s), s # <<>>
    PROVE  /\ Tail(s) \in Seq(S)
           /\ Distinct(Tail(s))
           /\ Elements(Tail(s)) = Elements(s) \ {Head(s)}
           /\ Head(s) \in Elements(s) /\ Len(Tail(s)) = Len(s) - 1
<1> DEFINE t == Tail(s)
<1>1. /\ t \in Seq(S) /\ Len(t) = Len(s) - 1 /\ Len(s) \in Nat /\ Len(s) >= 1
      /\ \A i \in 1..(Len(s) - 1) : t[i] = s[i + 1]
      /\ Head(s) = s[1]
  OBVIOUS
<1> HIDE DEF t
<1>2. /\ DOMAIN s = 1..Len(s) /\ DOMAIN t = 1..(Len(s) - 1) /\ 1 \in DOMAIN s
      /\ \A i \in DOMAIN t : i + 1 \in DOMAIN s /\ i + 1 # 1 /\ i \in Nat
      /\ \A i \in DOMAIN s : i # 1 => i - 1 \in DOMAIN t /\ (i - 1) + 1 = i
  BY <1>1
<1>3. \A i \in DOMAIN t : t[i] = s[i + 1]
  BY <1>1, <1>2
<1>4. Distinct(t)
  <2> SUFFICES ASSUME NEW i \in DOMAIN t, NEW j \in DOMAIN t, t[i] = t[j]
               PROVE  i = j
    BY DEF Distinct
  <2>1. i + 1 = j + 1
    BY <1>2, <1>3 DEF Distinct
  <2> QED BY <2>1, <1>2
<1>5. Elements(t) = Elements(s) \ {Head(s)}
  <2>1. ASSUME NEW i \in DOMAIN t PROVE t[i] \in Elements(s) /\ t[i] # Head(s)
    BY <1>1, <1>2, <1>3 DEF Distinct, Elements
  <2>2. ASSUME NEW i \in DOMAIN s, s[i] # Head(s) PROVE s[i] \in Elements(t)
    <3>1. i # 1
      BY <2>2, <1>1
    <3>2. i - 1 \in DOMAIN t /\ t[i - 1] = s[i]
      BY <3>1, <1>2, <1>3
    <3> QED BY <3>2 DEF Elements
  <2> QED BY <2>1, <2>2 DEF Elements
<1>6. Head(s) \in Elements(s)
  BY <1>1, <1>2 DEF Elements
<1> QED BY <1>1, <1>4, <1>5, <1>6 DEF t

\* Append adds an id that was not queued.
LEMMA AppendAdds ==
    ASSUME NEW S, NEW s \in Seq(S), Distinct(s), NEW c \in S, c \notin Elements(s)
    PROVE  /\ Append(s, c) \in Seq(S)
           /\ Distinct(Append(s, c))
           /\ Elements(Append(s, c)) = Elements(s) \cup {c}
           /\ Len(Append(s, c)) = Len(s) + 1
<1> DEFINE t == Append(s, c)
           n == Len(s)
<1>1. /\ t \in Seq(S) /\ n \in Nat /\ Len(t) = n + 1 /\ DOMAIN s = 1..n /\ DOMAIN t = 1..(n + 1)
      /\ t[n + 1] = c /\ \A i \in 1..n : t[i] = s[i]
  OBVIOUS
<1> HIDE DEF t, n
<1>2. /\ \A i \in DOMAIN t : i = n + 1 \/ i \in DOMAIN s
      /\ n + 1 \in DOMAIN t /\ \A i \in DOMAIN s : i \in DOMAIN t
  BY <1>1
<1>3. \A i \in DOMAIN s : s[i] \in Elements(s)
  BY DEF Elements
<1>4. Distinct(t)
  BY <1>1, <1>2, <1>3 DEF Distinct
<1>5. Elements(t) = Elements(s) \cup {c}
  <2>1. Elements(t) \subseteq Elements(s) \cup {c}
    BY <1>1, <1>2 DEF Elements
  <2>2. Elements(s) \subseteq Elements(t)
    BY <1>1, <1>2 DEF Elements
  <2>3. c \in Elements(t)
    BY <1>1, <1>2 DEF Elements
  <2> QED BY <2>1, <2>2, <2>3
<1> QED BY <1>1, <1>4, <1>5 DEF t, n

-----------------------------------------------------------------------------
(* The inductive invariant                                                 *)

Entry == [cancelled : BOOLEAN, timer : {"base", "none", "reclaim"}, late : BOOLEAN]

Stream == [phase : {"Active", "Finalizing", "Retired"},
           send_through : Nat, accepted : Nat, sent : Nat, granted : Nat,
           source_ended : BOOLEAN, deadline : BOOLEAN, stall : BOOLEAN, fresh : BOOLEAN]

MediaTask == [len : Nat, grants : Seq(Nat), pos : Nat,
              owed : Seq({"produced", "end", "failed"}), over : BOOLEAN]

Outcomes == {"none", "ok", "refused", "timeout", "fault", "queue_full", "dropped", "disconnected"}

StreamTypes ==
  /\ ledger \in [DOMAIN ledger -> Entry] /\ DOMAIN ledger \subseteq Calls
  /\ streams \in [DOMAIN streams -> Stream] /\ DOMAIN streams \subseteq Calls
  /\ outcome \in [Calls -> Outcomes]
  /\ task \in [Calls -> MediaTask]
  /\ peer \in [Calls -> {"silent", "open", "aborted"}]
  /\ junk \in Nat

\* The two queues of tombstones.
Buried ==
  /\ buried \in Seq(Calls) /\ Distinct(buried) /\ Len(buried) <= InFlight
  /\ Elements(buried) = {c \in DOMAIN ledger : ledger[c].cancelled}

Retirees ==
  /\ retired \in Seq(Calls) /\ Distinct(retired) /\ Len(retired) <= MaxStreams
  /\ Elements(retired) = {c \in DOMAIN streams : streams[c].phase = "Retired"}

\* A call, its stream and what its caller was told.
Guarded(c) ==
  /\ Live(c) =>
       /\ outcome[c] = "none" /\ Phase(c) # "Retired"
       /\ ledger[c].timer = IF Installed(c) THEN "none" ELSE "base"
       /\ peer[c] = "open" => Installed(c)
  /\ Installed(c) =>
       /\ peer[c] # "silent"
       /\ streams[c].deadline = (Phase(c) = "Active")
       /\ streams[c].stall = (Phase(c) = "Active")
       /\ Phase(c) = "Active" => Live(c)
  /\ outcome[c] = "none" /\ (Resolves(c) \/ Installed(c) \/ peer[c] # "silent") => Live(c)

\* A media task does not pass the end of its source, and says so once it is there.
TaskSound(c) ==
  /\ task[c].pos <= task[c].len
  /\ \A i \in DOMAIN task[c].owed : task[c].owed[i] = "end" => task[c].pos = task[c].len

\* What a stream counts is on the wire; one that finished by itself is complete.
Counted(c) ==
  /\ Phase(c) = "Active" =>
       /\ streams[c].sent <= task[c].pos
       /\ streams[c].source_ended => streams[c].sent = task[c].len
  /\ Phase(c) = "Finalizing" /\ peer[c] = "open" => Complete(c)

CallInv(c) == Guarded(c) /\ TaskSound(c) /\ Counted(c)

StreamInv == StreamTypes /\ Buried /\ Retirees /\ \A c \in Calls : CallInv(c)

-----------------------------------------------------------------------------
(* The tables                                                              *)

\* A retired stream is disarmed and queued; what it displaces was retired.
LEMMA RetireFacts ==
  ASSUME StreamTypes, Retirees, NEW c \in DOMAIN streams, Retire(c, streams)
  PROVE  /\ streams' \in [DOMAIN streams' -> Stream] /\ DOMAIN streams' \subseteq DOMAIN streams
         /\ c \in DOMAIN streams' /\ streams'[c] = Disarmed(streams[c], "Retired")
         /\ \A d \in DOMAIN streams' : d # c => streams'[d] = streams[d]
         /\ \A d \in DOMAIN streams \ DOMAIN streams' : d # c /\ streams[d].phase = "Retired"
         /\ Retirees'
<1> DEFINE order  == Without(retired, c)
           closed == [streams EXCEPT ![c] = Disarmed(@, "Retired")]
           full   == Len(order) >= MaxStreams
           rest   == IF full THEN Tail(order) ELSE order
<1>1. /\ streams' = IF full THEN Drop(closed, Head(order)) ELSE closed
      /\ retired' = Append(rest, c)
  BY DEF Retire
<1>2. /\ order \in Seq(Calls) /\ Distinct(order) /\ Elements(order) = Elements(retired) \ {c}
      /\ Len(order) <= MaxStreams /\ Len(order) \in Nat /\ MaxStreams \in Nat \ {0}
  <2>1. /\ order \in Seq(Calls) /\ Distinct(order) /\ Elements(order) = Elements(retired) \ {c}
        /\ Len(order) <= Len(retired)
    BY WithoutRemoves DEF Retirees
  <2>2. Len(order) \in Nat /\ Len(retired) \in Nat /\ Len(retired) <= MaxStreams
    BY <2>1 DEF Retirees
  <2>3. MaxStreams \in Nat \ {0}
    BY StreamAssumption
  <2> HIDE DEF order
  <2>4. Len(order) <= MaxStreams
    BY <2>1, <2>2, <2>3
  <2> QED BY <2>1, <2>2, <2>3, <2>4
<1>3. c \in Calls /\ Disarmed(streams[c], "Retired") \in Stream
      /\ Disarmed(streams[c], "Retired").phase = "Retired"
  BY DEF StreamTypes, Disarmed, Stream
<1>4. /\ closed \in [DOMAIN closed -> Stream] /\ DOMAIN closed = DOMAIN streams
      /\ closed[c] = Disarmed(streams[c], "Retired")
      /\ \A d \in DOMAIN streams : d # c => closed[d] = streams[d]
  BY <1>3 DEF StreamTypes
<1>5. Elements(retired) = {d \in DOMAIN streams : streams[d].phase = "Retired"}
  BY DEF Retirees
<1> HIDE DEF order, closed
<1>6. CASE full
  <2> DEFINE h == Head(order)
  <2>1. Len(order) = MaxStreams /\ order # <<>>
    <3>1. Len(order) = MaxStreams /\ Len(order) # 0
      BY <1>2, <1>6
    <3> QED BY <3>1
  <2>2. /\ rest \in Seq(Calls) /\ Distinct(rest) /\ Elements(rest) = Elements(order) \ {h}
        /\ h \in Elements(order) /\ Len(rest) = Len(order) - 1
    BY <1>2, <1>6, <2>1, TailRemoves
  <2>3. c \notin Elements(rest) /\ h # c /\ h \in DOMAIN streams /\ streams[h].phase = "Retired"
    BY <1>2, <1>5, <2>2
  <2> HIDE DEF rest, h
  <2>4. /\ retired' \in Seq(Calls) /\ Distinct(retired') /\ Elements(retired') = Elements(rest) \cup {c}
        /\ Len(retired') = Len(rest) + 1
    BY <1>1, <1>3, <2>2, <2>3, AppendAdds
  <2>5. streams' = Drop(closed, h)
    BY <1>1, <1>6 DEF h
  <2>6. /\ streams' \in [DOMAIN streams' -> Stream] /\ DOMAIN streams' = DOMAIN streams \ {h}
        /\ \A d \in DOMAIN streams' : streams'[d] = closed[d]
    <3>1. /\ Drop(closed, h) \in [DOMAIN Drop(closed, h) -> Stream]
          /\ DOMAIN Drop(closed, h) = DOMAIN closed \ {h}
          /\ \A d \in DOMAIN closed : d # h => Drop(closed, h)[d] = closed[d]
      BY <1>4 DEF Drop
    <3> QED BY <1>4, <2>5, <3>1
  <2>7. Len(retired') <= MaxStreams
    BY <1>2, <2>1, <2>2, <2>4
  <2>8. Elements(retired') = {d \in DOMAIN streams' : streams'[d].phase = "Retired"}
    BY <1>2, <1>3, <1>4, <1>5, <2>2, <2>3, <2>4, <2>6
  <2> QED BY <1>4, <2>3, <2>4, <2>6, <2>7, <2>8 DEF Retirees
<1>7. CASE ~full
  <2>1. rest = order /\ streams' = closed
    BY <1>1, <1>7
  <2>2. /\ retired' \in Seq(Calls) /\ Distinct(retired') /\ Elements(retired') = Elements(order) \cup {c}
        /\ Len(retired') = Len(order) + 1
    BY <1>1, <1>2, <1>3, <2>1, AppendAdds
  <2>3. Len(retired') <= MaxStreams
    BY <1>2, <1>7, <2>2
  <2>4. Elements(retired') = {d \in DOMAIN streams' : streams'[d].phase = "Retired"}
    BY <1>2, <1>3, <1>4, <1>5, <2>1, <2>2
  <2> QED BY <1>4, <2>1, <2>2, <2>3, <2>4 DEF Retirees
<1> QED BY <1>6, <1>7

\* A buried call keeps its entry; what it displaces was a tombstone.
LEMMA BuryFacts ==
  ASSUME StreamTypes, Buried, NEW c \in DOMAIN ledger, ~ledger[c].cancelled,
         NEW e \in Entry, e.cancelled, Bury(c, [ledger EXCEPT ![c] = e])
  PROVE  /\ ledger' \in [DOMAIN ledger' -> Entry] /\ DOMAIN ledger' \subseteq DOMAIN ledger
         /\ c \in DOMAIN ledger' /\ ledger'[c] = e
         /\ \A d \in DOMAIN ledger' : d # c => ledger'[d] = ledger[d]
         /\ \A d \in DOMAIN ledger \ DOMAIN ledger' : d # c /\ ledger[d].cancelled
         /\ Buried'
<1> DEFINE table == [ledger EXCEPT ![c] = e]
           full  == Len(buried) >= InFlight
           rest  == IF full THEN Tail(buried) ELSE buried
<1>1. /\ ledger' = IF full THEN Drop(table, Head(buried)) ELSE table
      /\ buried' = Append(rest, c)
  BY DEF Bury
<1>2. /\ buried \in Seq(Calls) /\ Distinct(buried) /\ Len(buried) <= InFlight /\ Len(buried) \in Nat
      /\ Elements(buried) = {d \in DOMAIN ledger : ledger[d].cancelled}
      /\ InFlight \in Nat \ {0}
  BY StreamAssumption DEF Buried
<1>3. c \in Calls /\ c \notin Elements(buried)
  BY <1>2 DEF StreamTypes
<1>4. /\ table \in [DOMAIN table -> Entry] /\ DOMAIN table = DOMAIN ledger
      /\ table[c] = e /\ \A d \in DOMAIN ledger : d # c => table[d] = ledger[d]
  BY DEF StreamTypes
<1> HIDE DEF table
<1>5. CASE full
  <2> DEFINE h == Head(buried)
  <2>1. Len(buried) = InFlight /\ buried # <<>>
    <3>1. Len(buried) = InFlight /\ Len(buried) # 0
      BY <1>2, <1>5
    <3> QED BY <3>1
  <2>2. /\ rest \in Seq(Calls) /\ Distinct(rest) /\ Elements(rest) = Elements(buried) \ {h}
        /\ h \in Elements(buried) /\ Len(rest) = Len(buried) - 1
    BY <1>2, <1>5, <2>1, TailRemoves
  <2>3. c \notin Elements(rest) /\ h # c /\ h \in DOMAIN ledger /\ ledger[h].cancelled
    BY <1>2, <1>3, <2>2
  <2> HIDE DEF rest, h
  <2>4. /\ buried' \in Seq(Calls) /\ Distinct(buried') /\ Elements(buried') = Elements(rest) \cup {c}
        /\ Len(buried') = Len(rest) + 1
    BY <1>1, <1>3, <2>2, <2>3, AppendAdds
  <2>5. ledger' = Drop(table, h)
    BY <1>1, <1>5 DEF h
  <2>6. /\ ledger' \in [DOMAIN ledger' -> Entry] /\ DOMAIN ledger' = DOMAIN ledger \ {h}
        /\ \A d \in DOMAIN ledger' : ledger'[d] = table[d]
    <3>1. /\ Drop(table, h) \in [DOMAIN Drop(table, h) -> Entry]
          /\ DOMAIN Drop(table, h) = DOMAIN table \ {h}
          /\ \A d \in DOMAIN table : d # h => Drop(table, h)[d] = table[d]
      BY <1>4 DEF Drop
    <3> QED BY <1>4, <2>5, <3>1
  <2>7. Len(buried') <= InFlight
    BY <1>2, <2>1, <2>2, <2>4
  <2>8. Elements(buried') = {d \in DOMAIN ledger' : ledger'[d].cancelled}
    BY <1>2, <1>4, <2>2, <2>3, <2>4, <2>6
  <2> QED BY <1>4, <2>3, <2>4, <2>6, <2>7, <2>8 DEF Buried
<1>6. CASE ~full
  <2>1. rest = buried /\ ledger' = table
    BY <1>1, <1>6
  <2>2. /\ buried' \in Seq(Calls) /\ Distinct(buried') /\ Elements(buried') = Elements(buried) \cup {c}
        /\ Len(buried') = Len(buried) + 1
    BY <1>1, <1>2, <1>3, <2>1, AppendAdds
  <2>3. Len(buried') <= InFlight
    BY <1>2, <1>6, <2>2
  <2>4. Elements(buried') = {d \in DOMAIN ledger' : ledger'[d].cancelled}
    BY <1>2, <1>4, <2>1, <2>2
  <2> QED BY <1>4, <2>1, <2>2, <2>3, <2>4 DEF Buried
<1> QED BY <1>5, <1>6

\* Of call d a step changes nothing, or evicts what was a tombstone.
LedgerKept(d) ==
  /\ d \in DOMAIN ledger' => d \in DOMAIN ledger /\ ledger'[d] = ledger[d]
  /\ d \in DOMAIN ledger \ DOMAIN ledger' => ledger[d].cancelled

StreamKept(d) ==
  /\ d \in DOMAIN streams' => d \in DOMAIN streams /\ streams'[d] = streams[d]
  /\ d \in DOMAIN streams \ DOMAIN streams' => streams[d].phase = "Retired"

Bystander(d) ==
  /\ LedgerKept(d) /\ StreamKept(d)
  /\ outcome'[d] = outcome[d] /\ peer'[d] = peer[d] /\ task'[d] = task[d]

LEMMA BystanderKeeps == ASSUME NEW d, CallInv(d), Bystander(d) PROVE CallInv(d)'
<1>1. /\ Live(d)' <=> Live(d)
      /\ Installed(d)' => Installed(d) /\ Phase(d)' = Phase(d)
      /\ Resolves(d)' => Resolves(d)
      /\ Live(d)' => ledger'[d] = ledger[d]
      /\ Live(d) => Phase(d) # "Retired"
      /\ Live(d) /\ Installed(d) => Installed(d)'
  BY DEF Live, Installed, Phase, Resolves, Bystander, LedgerKept, StreamKept, CallInv, Guarded
<1>2. Guarded(d)'
  BY <1>1 DEF CallInv, Guarded, Bystander, StreamKept, Installed, Phase
<1>3. TaskSound(d)' /\ Counted(d)'
  BY <1>1 DEF CallInv, TaskSound, Counted, Complete, Bystander, StreamKept, Installed, Phase
<1> QED BY <1>2, <1>3 DEF CallInv

\* Failing a call that was settled before changes nothing.
LEMMA SettleFacts ==
  ASSUME StreamTypes, Buried, NEW c \in Calls, NEW error \in Outcomes \ {"none"},
         SettleFailure(c, error)
  PROVE  /\ ledger' \in [DOMAIN ledger' -> Entry] /\ DOMAIN ledger' \subseteq DOMAIN ledger
         /\ ~Live(c)' /\ Buried' /\ outcome' \in [Calls -> Outcomes]
         /\ outcome'[c] = IF Live(c) THEN error ELSE outcome[c]
         /\ \A d \in Calls : d # c => LedgerKept(d) /\ outcome'[d] = outcome[d]
<1>1. CASE Live(c)
  <2> DEFINE e == [cancelled |-> TRUE, timer |-> "reclaim", late |-> FALSE]
  <2>1. /\ outcome' = [outcome EXCEPT ![c] = error] /\ Bury(c, [ledger EXCEPT ![c] = e])
        /\ c \in DOMAIN ledger /\ ~ledger[c].cancelled
    BY <1>1 DEF SettleFailure, Live
  <2>2. e \in Entry /\ e.cancelled
    BY DEF Entry
  <2> HIDE DEF e
  <2>3. /\ ledger' \in [DOMAIN ledger' -> Entry] /\ DOMAIN ledger' \subseteq DOMAIN ledger
        /\ c \in DOMAIN ledger' /\ ledger'[c] = e
        /\ \A d \in DOMAIN ledger' : d # c => ledger'[d] = ledger[d]
        /\ \A d \in DOMAIN ledger \ DOMAIN ledger' : d # c /\ ledger[d].cancelled
        /\ Buried'
    BY <2>1, <2>2, BuryFacts
  <2>4. /\ outcome' \in [Calls -> Outcomes] /\ outcome'[c] = error
        /\ \A d \in Calls : d # c => outcome'[d] = outcome[d]
    BY <2>1 DEF StreamTypes
  <2> QED BY <1>1, <2>2, <2>3, <2>4 DEF Live, LedgerKept
<1>2. CASE ~Live(c)
  <2>1. UNCHANGED <<ledger, buried, outcome>>
    BY <1>2 DEF SettleFailure
  <2> QED BY <1>2, <2>1 DEF StreamTypes, Buried, Live, LedgerKept
<1> QED BY <1>1, <1>2

\* A stream that fails is retired, and its call settled.
LEMMA FailFacts ==
  ASSUME StreamInv, NEW c \in Calls, NEW error \in Outcomes \ {"none"}, Fail(c, error)
  PROVE  /\ ledger' \in [DOMAIN ledger' -> Entry] /\ DOMAIN ledger' \subseteq DOMAIN ledger
         /\ streams' \in [DOMAIN streams' -> Stream] /\ DOMAIN streams' \subseteq DOMAIN streams
         /\ outcome' \in [Calls -> Outcomes] /\ Buried' /\ Retirees'
         /\ ~Live(c)' /\ outcome'[c] = IF Live(c) THEN error ELSE outcome[c]
         /\ c \in DOMAIN streams' =>
              streams'[c].phase = "Retired" /\ ~streams'[c].deadline /\ ~streams'[c].stall
         /\ \A d \in Calls : d # c => LedgerKept(d) /\ StreamKept(d) /\ outcome'[d] = outcome[d]
<1>1. /\ ledger' \in [DOMAIN ledger' -> Entry] /\ DOMAIN ledger' \subseteq DOMAIN ledger
      /\ ~Live(c)' /\ Buried' /\ outcome' \in [Calls -> Outcomes]
      /\ outcome'[c] = IF Live(c) THEN error ELSE outcome[c]
      /\ \A d \in Calls : d # c => LedgerKept(d) /\ outcome'[d] = outcome[d]
  BY SettleFacts DEF Fail, StreamInv
<1>2. CASE Installed(c)
  <2>1. /\ streams' \in [DOMAIN streams' -> Stream] /\ DOMAIN streams' \subseteq DOMAIN streams
        /\ c \in DOMAIN streams' /\ streams'[c] = Disarmed(streams[c], "Retired")
        /\ \A d \in DOMAIN streams' : d # c => streams'[d] = streams[d]
        /\ \A d \in DOMAIN streams \ DOMAIN streams' : d # c /\ streams[d].phase = "Retired"
        /\ Retirees'
    BY <1>2, RetireFacts DEF Fail, StreamInv, Installed
  <2>2. streams[c] \in Stream
    BY <1>2 DEF StreamInv, StreamTypes, Installed
  <2>3. streams'[c].phase = "Retired" /\ ~streams'[c].deadline /\ ~streams'[c].stall
    BY <2>1, <2>2 DEF Disarmed, Stream
  <2> QED BY <1>1, <2>1, <2>3 DEF StreamKept
<1>3. CASE ~Installed(c)
  <2>1. UNCHANGED <<streams, retired>>
    BY <1>3 DEF Fail
  <2> QED BY <1>1, <1>3, <2>1 DEF StreamKept, StreamInv, StreamTypes, Retirees, Installed
<1> QED BY <1>2, <1>3

\* A step that settles or buries a call, or forgets it, and retires its stream.
LEMMA EndsKeeps ==
  ASSUME StreamInv, NEW c \in Calls,
         ledger' \in [DOMAIN ledger' -> Entry], DOMAIN ledger' \subseteq DOMAIN ledger,
         streams' \in [DOMAIN streams' -> Stream], DOMAIN streams' \subseteq DOMAIN streams,
         outcome' \in [Calls -> Outcomes], Buried', Retirees', ~Live(c)',
         outcome'[c] # "none" \/ (~Live(c) /\ outcome'[c] = outcome[c]),
         c \in DOMAIN streams' =>
           \/ Phase(c) # "Active" /\ streams'[c] = streams[c] /\ task'[c] = task[c]
           \/ streams'[c].phase = "Retired" /\ ~streams'[c].deadline /\ ~streams'[c].stall,
         peer' = peer, junk' \in Nat, task' \in [Calls -> MediaTask], TaskSound(c)',
         \A d \in Calls : d # c =>
           LedgerKept(d) /\ StreamKept(d) /\ outcome'[d] = outcome[d] /\ task'[d] = task[d]
  PROVE  StreamInv'
<1>1. StreamTypes'
  BY DEF StreamInv, StreamTypes
<1>2. \A d \in Calls : d # c => CallInv(d)'
  BY BystanderKeeps DEF StreamInv, Bystander
<1>3. Guarded(c) /\ Counted(c)
  BY DEF StreamInv, CallInv
<1>4. Phase(c)' # "Active"
  BY DEF Phase, Installed
<1>5. Installed(c)' => Installed(c) /\ streams'[c].deadline = FALSE /\ streams'[c].stall = FALSE
  <2>1. Installed(c)' => Installed(c) /\ streams[c] \in Stream /\ streams'[c] \in Stream
    BY DEF Installed, StreamInv, StreamTypes
  <2>2. Installed(c) /\ Phase(c) # "Active" => streams[c].deadline = FALSE /\ streams[c].stall = FALSE
    BY <1>3 DEF Guarded
  <2> QED BY <2>1, <2>2 DEF Installed, Stream
<1>6. Guarded(c)'
  <2>1. Resolves(c)' => Resolves(c)
    BY DEF Resolves
  <2>2. outcome'[c] = "none" => outcome[c] = "none" /\ ~Live(c)
    OBVIOUS
  <2> QED BY <1>3, <1>4, <1>5, <2>1, <2>2 DEF Guarded
<1>7. Counted(c)'
  BY <1>3, <1>4 DEF Counted, Complete, Phase, Installed
<1> QED BY <1>1, <1>2, <1>6, <1>7 DEF StreamInv, CallInv

\* So does a task that goes on meanwhile: nothing is counted on a failed stream.
LEMMA FailKeeps ==
  ASSUME StreamInv, NEW c \in Calls, NEW error \in Outcomes \ {"none"}, Fail(c, error),
         peer' = peer, junk' \in Nat, task' \in [Calls -> MediaTask], TaskSound(c)',
         \A d \in Calls : d # c => task'[d] = task[d]
  PROVE  StreamInv'
BY FailFacts, EndsKeeps

-----------------------------------------------------------------------------
(* What a record or a report does to a stream                              *)

\* A stream that goes on, or finishes, stays guarded.
LEMMA AdvanceKeeps ==
  ASSUME StreamInv, NEW c \in Calls, Installed(c), NEW s \in Stream, Advance(c, s),
         s.phase = streams[c].phase, s.deadline = streams[c].deadline, s.stall = streams[c].stall,
         s.phase # "Active" => s.accepted = streams[c].accepted,
         s.phase = "Active" =>
           s.sent <= task'[c].pos /\ (s.source_ended => s.sent = task[c].len),
         peer' = peer, junk' \in Nat, task' \in [Calls -> MediaTask],
         task'[c].len = task[c].len, TaskSound(c)',
         \A d \in Calls : d # c => task'[d] = task[d]
  PROVE  StreamInv'
<1> DEFINE finishing == c \in Uploads /\ Finishes(s)
           next == IF finishing THEN Finalized(s) ELSE s
<1>1. /\ streams' = [streams EXCEPT ![c] = next]
      /\ UNCHANGED <<ledger, buried, retired, outcome>>
  BY DEF Advance
<1>2. /\ next \in Stream /\ next.accepted = s.accepted
      /\ next.phase = "Retired" <=> s.phase = "Retired"
      /\ next.phase = "Active" => next = s
      /\ s.phase # "Active" => next = s
      /\ finishing => next.phase = "Finalizing" /\ ~next.deadline /\ ~next.stall
  BY DEF Finishes, Finalized, Disarmed, Stream
<1> HIDE DEF next
<1>3. /\ c \in DOMAIN streams /\ streams' \in [DOMAIN streams -> Stream] /\ streams'[c] = next
      /\ \A d \in DOMAIN streams : d # c => streams'[d] = streams[d]
  BY <1>1, <1>2 DEF StreamInv, StreamTypes, Installed
<1>4. StreamTypes' /\ Buried'
  BY <1>1, <1>3 DEF StreamInv, StreamTypes, Buried
<1>5. Retirees'
  BY <1>1, <1>2, <1>3 DEF StreamInv, Retirees
<1>6. \A d \in Calls : d # c => CallInv(d)'
  BY <1>1, <1>3, BystanderKeeps DEF StreamInv, Bystander, LedgerKept, StreamKept
<1>7. Guarded(c) /\ Counted(c)
  BY DEF StreamInv, CallInv
<1>8. /\ Installed(c)' /\ Phase(c) = s.phase /\ Phase(c)' = next.phase
      /\ Live(c)' = Live(c) /\ Resolves(c)' = Resolves(c)
  BY <1>1, <1>3 DEF Installed, Phase, Live, Resolves
<1>9. Guarded(c)'
  <2>1. CASE finishing
    <3>1. s.phase = "Active" /\ next.deadline = FALSE /\ next.stall = FALSE
      BY <1>2, <2>1 DEF Finishes, Stream
    <3> QED BY <1>1, <1>2, <1>3, <1>7, <1>8, <2>1, <3>1 DEF Guarded, Installed
  <2>2. CASE ~finishing
    <3>1. next = s
      BY <2>2 DEF next
    <3> QED BY <1>1, <1>3, <1>7, <1>8, <3>1 DEF Guarded, Installed
  <2> QED BY <2>1, <2>2
<1>10. Counted(c)'
  <2>1. CASE finishing
    <3>1. s.source_ended /\ s.accepted = s.sent /\ s.phase = "Active" /\ c \in Uploads
      BY <2>1 DEF Finishes
    <3>2. Phase(c)' = "Finalizing" /\ streams'[c].accepted = task'[c].len
      BY <1>2, <1>3, <1>8, <2>1, <3>1
    <3> QED BY <3>1, <3>2 DEF Counted, Complete
  <2>2. CASE ~finishing
    <3>1. next = s
      BY <2>2 DEF next
    <3> QED BY <1>3, <1>7, <1>8, <3>1 DEF Counted, Complete
  <2> QED BY <2>1, <2>2
<1> QED BY <1>4, <1>5, <1>6, <1>9, <1>10 DEF StreamInv, CallInv

\* A stream that waits for its terminal reply has no timer, and is complete
\* unless the daemon aborted it.
LEMMA FinalizeKeeps ==
  ASSUME StreamInv, NEW c \in Calls, Phase(c) = "Active",
         streams' = [streams EXCEPT ![c] = Finalized(@)],
         UNCHANGED <<ledger, buried, retired, outcome, task>>, junk' \in Nat,
         peer' \in [Calls -> {"silent", "open", "aborted"}], peer'[c] # "silent",
         peer'[c] = "open" => peer[c] = "open" /\ c \notin Uploads /\ streams[c].accepted = Total[c],
         \A d \in Calls : d # c => peer'[d] = peer[d]
  PROVE  StreamInv'
<1>1. c \in DOMAIN streams /\ streams[c] \in Stream /\ streams[c].phase = "Active"
  BY DEF Phase, Installed, StreamInv, StreamTypes
<1>2. /\ Finalized(streams[c]) \in Stream /\ Finalized(streams[c]).phase = "Finalizing"
      /\ Finalized(streams[c]).deadline = FALSE /\ Finalized(streams[c]).stall = FALSE
      /\ Finalized(streams[c]).accepted = streams[c].accepted
  BY <1>1 DEF Finalized, Disarmed, Stream
<1>3. /\ streams' \in [DOMAIN streams -> Stream] /\ streams'[c] = Finalized(streams[c])
      /\ \A d \in DOMAIN streams : d # c => streams'[d] = streams[d]
  BY <1>1, <1>2 DEF StreamInv, StreamTypes
<1>4. StreamTypes' /\ Buried'
  BY <1>3 DEF StreamInv, StreamTypes, Buried
<1>5. Retirees'
  BY <1>1, <1>2, <1>3 DEF StreamInv, Retirees
<1>6. \A d \in Calls : d # c => CallInv(d)'
  BY <1>3, BystanderKeeps DEF StreamInv, Bystander, LedgerKept, StreamKept
<1>7. /\ Installed(c) /\ Installed(c)' /\ Phase(c)' = "Finalizing"
      /\ Live(c)' = Live(c) /\ Resolves(c)' = Resolves(c)
  BY <1>1, <1>2, <1>3 DEF Installed, Phase, Live, Resolves
<1>8. Guarded(c) /\ TaskSound(c)
  BY DEF StreamInv, CallInv
<1>9. Guarded(c)'
  BY <1>2, <1>3, <1>7, <1>8 DEF Guarded, Installed
<1>10. TaskSound(c)' /\ Counted(c)'
  BY <1>2, <1>3, <1>7, <1>8 DEF TaskSound, Counted, Complete
<1> QED BY <1>4, <1>5, <1>6, <1>9, <1>10 DEF StreamInv, CallInv

\* A step that leaves the tables alone, but for one call's task.
LEMMA TaskKeeps ==
  ASSUME StreamInv, NEW c \in Calls, Unmoved, peer' = peer, junk' \in Nat,
         task' \in [Calls -> MediaTask], task'[c].len = task[c].len,
         task'[c].pos >= task[c].pos, TaskSound(c)',
         \A d \in Calls : d # c => task'[d] = task[d]
  PROVE  StreamInv'
<1>1. UNCHANGED <<ledger, buried, streams, retired, outcome>>
  BY DEF Unmoved, coreVars
<1>2. StreamTypes' /\ Buried' /\ Retirees'
  BY <1>1 DEF StreamInv, StreamTypes, Buried, Retirees
<1>3. \A d \in Calls : d # c => CallInv(d)'
  BY <1>1, BystanderKeeps DEF StreamInv, Bystander, LedgerKept, StreamKept
<1>4. Guarded(c)'
  BY <1>1 DEF StreamInv, CallInv, Guarded, Live, Resolves, Installed, Phase
<1>5. Counted(c)'
  <2>1. Counted(c)
    BY DEF StreamInv, CallInv
  <2>2. Installed(c) => streams[c].sent \in Nat
    BY DEF StreamInv, StreamTypes, Installed, Stream
  <2>3. task[c].pos \in Nat /\ task'[c].pos \in Nat
    BY DEF StreamInv, StreamTypes, MediaTask
  <2>4. Phase(c)' = Phase(c) /\ (Phase(c) = "Active" => Installed(c))
    BY <1>1 DEF Phase, Installed
  <2>5. Phase(c) = "Active" => streams[c].sent <= task'[c].pos
    BY <2>1, <2>2, <2>3, <2>4 DEF Counted
  <2> QED BY <1>1, <2>1, <2>4, <2>5 DEF Counted, Complete
<1> QED BY <1>2, <1>3, <1>4, <1>5 DEF StreamInv, CallInv

\* What the daemon does not pay for leaves the count of junk alone.
LEMMA ChargeFacts ==
  ASSUME junk \in Nat, UNCHANGED junk \/ Charge
  PROVE  junk' \in Nat /\ (Charge => junk' # junk)
  BY DEF Charge

-----------------------------------------------------------------------------
(* The daemon's records                                                    *)

LEMMA OpenKeeps == ASSUME StreamInv, NEW c \in Calls, Open(c) PROVE StreamInv'
<1>1. /\ Resolves(c) /\ OnOpen(c) /\ junk' \in Nat
      /\ peer' = [peer EXCEPT ![c] = IF peer[c] = "silent" THEN "open" ELSE peer[c]]
  BY ChargeFacts DEF Open, Said, StreamInv, StreamTypes
<1>2. /\ peer' \in [Calls -> {"silent", "open", "aborted"}] /\ peer'[c] # "silent"
      /\ peer'[c] = IF peer[c] = "silent" THEN "open" ELSE peer[c]
      /\ \A d \in Calls : d # c => peer'[d] = peer[d]
  BY <1>1 DEF StreamInv, StreamTypes
<1>3. Guarded(c) /\ TaskSound(c) /\ Counted(c)
  BY DEF StreamInv, CallInv
<1>4. CASE ~Live(c)
  <2>1. UNCHANGED <<ledger, buried, streams, retired, outcome, task>>
    BY <1>1, <1>4 DEF OnOpen, Unmoved, coreVars
  <2>2. StreamTypes' /\ Buried' /\ Retirees'
    BY <1>1, <1>2, <2>1 DEF StreamInv, StreamTypes, Buried, Retirees
  <2>3. \A d \in Calls : d # c => CallInv(d)'
    BY <1>2, <2>1, BystanderKeeps DEF StreamInv, Bystander, LedgerKept, StreamKept
  <2>4. Guarded(c)'
    BY <1>1, <1>2, <1>3, <1>4, <2>1 DEF Guarded, Live, Resolves, Installed, Phase
  <2>5. TaskSound(c)' /\ Counted(c)'
    <3>1. Phase(c)' = Phase(c) /\ (Phase(c) # "none" => peer[c] # "silent")
      BY <1>3, <2>1 DEF Guarded, Phase, Installed
    <3> QED BY <1>2, <1>3, <2>1, <3>1 DEF TaskSound, Counted, Complete
  <2> QED BY <2>2, <2>3, <2>4, <2>5 DEF StreamInv, CallInv
<1>5. CASE Live(c) /\ Installed(c)
  <2>1. Fail(c, "timeout") /\ task' = task
    BY <1>1, <1>5 DEF OnOpen
  <2>2. peer' = peer
    BY <1>1, <1>2, <1>3, <1>5 DEF Guarded, StreamInv, StreamTypes
  <2> QED BY <1>1, <1>3, <2>1, <2>2, FailKeeps DEF Outcomes, StreamInv, StreamTypes, TaskSound
<1>6. CASE Live(c) /\ ~Installed(c)
  <2> DEFINE s == [FreshStream EXCEPT !.granted = IF c \in Uploads THEN 0 ELSE ReceiverCeiling(c, FreshStream)]
  <2>1. /\ ledger' = [ledger EXCEPT ![c].timer = "none", ![c].late = FALSE]
        /\ streams' = With(streams, c, s)
        /\ UNCHANGED <<buried, retired, outcome, task>>
    BY <1>1, <1>6 DEF OnOpen
  <2>2. /\ s \in Stream /\ s.phase = "Active" /\ s.deadline = TRUE /\ s.stall = TRUE
        /\ s.sent = 0 /\ s.source_ended = FALSE
    <3>1. ReceiverCeiling(c, FreshStream) \in Nat
      BY StreamAssumption DEF ReceiverCeiling, FreshStream, Max2, Min2
    <3> QED BY <3>1 DEF FreshStream, Stream
  <2> HIDE DEF s
  <2>3. /\ c \in DOMAIN ledger /\ ~ledger[c].cancelled /\ ledger[c] \in Entry /\ c \notin DOMAIN streams
    BY <1>6 DEF Live, Installed, StreamInv, StreamTypes
  <2>4. /\ ledger' \in [DOMAIN ledger -> Entry]
        /\ ledger'[c].timer = "none" /\ ledger'[c].cancelled = ledger[c].cancelled
        /\ \A d \in DOMAIN ledger : d # c => ledger'[d] = ledger[d]
    BY <2>1, <2>3 DEF StreamInv, StreamTypes, Entry
  <2>5. /\ streams' \in [DOMAIN streams \cup {c} -> Stream] /\ streams'[c] = s
        /\ \A d \in DOMAIN streams : d # c => streams'[d] = streams[d]
    BY <2>1, <2>2 DEF StreamInv, StreamTypes, With
  <2>6. StreamTypes'
    BY <1>1, <1>2, <2>1, <2>4, <2>5 DEF StreamInv, StreamTypes
  <2>7. Buried' /\ Retirees'
    BY <2>1, <2>2, <2>3, <2>4, <2>5 DEF StreamInv, Buried, Retirees
  <2>8. \A d \in Calls : d # c => CallInv(d)'
    BY <1>2, <2>1, <2>4, <2>5, BystanderKeeps DEF StreamInv, Bystander, LedgerKept, StreamKept
  <2>9. /\ Live(c)' /\ Installed(c)' /\ Phase(c)' = "Active"
    BY <2>2, <2>3, <2>4, <2>5 DEF Live, Installed, Phase
  <2>10. Guarded(c)'
    BY <1>2, <1>3, <1>6, <2>1, <2>2, <2>4, <2>5, <2>9 DEF Guarded
  <2>11. TaskSound(c)' /\ Counted(c)'
    <3>1. task[c].pos \in Nat
      BY DEF StreamInv, StreamTypes, MediaTask
    <3> QED BY <1>3, <2>1, <2>2, <2>5, <2>9, <3>1 DEF TaskSound, Counted
  <2> QED BY <2>6, <2>7, <2>8, <2>10, <2>11 DEF StreamInv, CallInv
<1> QED BY <1>4, <1>5, <1>6

\* What the media task may be granted is a number of bytes.
LEMMA PumpedFacts ==
  ASSUME StreamInv, NEW c \in Calls, NEW s \in Stream
  PROVE  /\ Pumped(c, s) \in [Calls -> MediaTask]
         /\ Pumped(c, s)[c].len = task[c].len /\ Pumped(c, s)[c].pos = task[c].pos
         /\ Pumped(c, s)[c].owed = task[c].owed
         /\ \A d \in Calls : d # c => Pumped(c, s)[d] = task[d]
<1>1. ProducerGrant(c, s) \in Nat
  BY StreamAssumption DEF ProducerGrant, Less, Min2, Stream
<1>2. task \in [Calls -> MediaTask] /\ task[c] \in MediaTask
  BY DEF StreamInv, StreamTypes
<1> DEFINE g == ProducerGrant(c, s)
           t == [task EXCEPT ![c].grants = Append(@, g)]
<1>3. Pumped(c, s) = t \/ Pumped(c, s) = task
  BY DEF Pumped
<1> HIDE DEF g
<1>4. /\ t \in [Calls -> MediaTask] /\ t[c].len = task[c].len /\ t[c].pos = task[c].pos
      /\ t[c].owed = task[c].owed /\ \A d \in Calls : d # c => t[d] = task[d]
  <2>1. Append(task[c].grants, g) \in Seq(Nat)
    BY <1>1, <1>2 DEF MediaTask, g
  <2> QED BY <1>2, <2>1 DEF MediaTask
<1> QED BY <1>2, <1>3, <1>4

LEMMA CreditKeeps ==
  ASSUME StreamInv, NEW c \in Calls, NEW acc \in Nat, NEW send \in Nat, Credit(c, acc, send)
  PROVE  StreamInv'
<1> DEFINE s == streams[c]
           credited == [s EXCEPT !.send_through = send, !.accepted = acc,
                                 !.fresh = @ \/ acc > s.accepted]
<1>1. Installed(c) /\ OnCredit(c, acc, send) /\ junk' \in Nat /\ peer' = peer
  BY ChargeFacts DEF Credit, StreamInv, StreamTypes
<1>2. Guarded(c) /\ TaskSound(c) /\ Counted(c)
  BY DEF StreamInv, CallInv
<1>3. task \in [Calls -> MediaTask]
  BY DEF StreamInv, StreamTypes
<1>4. CASE Phase(c) # "Active"
  <2>1. Unmoved /\ task' = task
    BY <1>1, <1>4 DEF OnCredit
  <2>2. task[c].pos >= task[c].pos
    BY <1>3 DEF MediaTask
  <2> QED BY <1>1, <1>2, <1>3, <2>1, <2>2, TaskKeeps DEF TaskSound
<1>5. CASE Phase(c) = "Active" /\ ~CreditValid(c, s, acc, send)
  <2>1. Fail(c, "fault") /\ task' = task
    BY <1>1, <1>5 DEF OnCredit
  <2> QED BY <1>1, <1>2, <1>3, <2>1, FailKeeps DEF Outcomes, TaskSound
<1>6. CASE Phase(c) = "Active" /\ CreditValid(c, s, acc, send)
  <2>1. Advance(c, credited) /\ task' = Pumped(c, credited)
    BY <1>1, <1>6 DEF OnCredit
  <2>2. s \in Stream
    BY <1>1 DEF StreamInv, StreamTypes, Installed
  <2>3. /\ credited \in Stream /\ credited.phase = s.phase /\ credited.deadline = s.deadline
        /\ credited.stall = s.stall /\ credited.sent = s.sent
        /\ credited.source_ended = s.source_ended
    BY <2>2 DEF Stream
  <2> HIDE DEF credited
  <2>4. /\ task' \in [Calls -> MediaTask] /\ task'[c].len = task[c].len
        /\ task'[c].pos = task[c].pos /\ task'[c].owed = task[c].owed
        /\ \A d \in Calls : d # c => task'[d] = task[d]
    BY <2>1, <2>3, PumpedFacts
  <2>5. TaskSound(c)'
    BY <1>2, <2>4 DEF TaskSound
  <2>6. s.phase = "Active"
    BY <1>1, <1>6 DEF Phase, Installed
  <2>7. s.sent <= task[c].pos /\ (s.source_ended => s.sent = task[c].len)
    BY <1>2, <1>6 DEF Counted
  <2> QED BY <1>1, <2>1, <2>3, <2>4, <2>5, <2>6, <2>7, AdvanceKeeps
<1> QED BY <1>4, <1>5, <1>6

LEMMA DataKeeps ==
  ASSUME StreamInv, NEW c \in Calls, NEW offset \in Nat, NEW len \in Nat, NEW sinks \in BOOLEAN,
         Data(c, offset, len, sinks)
  PROVE  StreamInv'
<1> DEFINE s == streams[c]
           n == offset + len
           got == [s EXCEPT !.accepted = n, !.fresh = TRUE]
           ceiling == ReceiverCeiling(c, got)
           next == [got EXCEPT !.granted = ceiling]
<1>1. /\ Installed(c) /\ OnData(c, offset, len, sinks) /\ junk' \in Nat /\ peer' = peer
      /\ task' = task
  BY ChargeFacts DEF Data, OnData, StreamInv, StreamTypes
<1>2. TaskSound(c) /\ Counted(c) /\ task \in [Calls -> MediaTask] /\ task[c].pos >= task[c].pos
  BY DEF StreamInv, CallInv, StreamTypes, MediaTask
<1>3. TaskSound(c)'
  BY <1>1, <1>2 DEF TaskSound
<1>4. CASE Unmoved
  BY <1>1, <1>2, <1>3, <1>4, TaskKeeps
<1>5. CASE Fail(c, "fault") \/ Fail(c, "timeout")
  BY <1>1, <1>2, <1>3, <1>5, FailKeeps DEF Outcomes
<1>6. CASE Phase(c) = "Active" /\ Advance(c, next)
  <2>1. s \in Stream /\ s.phase = "Active"
    BY <1>1, <1>6 DEF StreamInv, StreamTypes, Installed, Phase
  <2>2. n \in Nat
    OBVIOUS
  <2> HIDE DEF n
  <2>3. /\ got \in Stream /\ got.phase = s.phase /\ got.deadline = s.deadline
        /\ got.stall = s.stall /\ got.sent = s.sent /\ got.source_ended = s.source_ended
    BY <2>1, <2>2 DEF Stream
  <2> HIDE DEF got
  <2>4. ceiling \in Nat
    BY <2>3, StreamAssumption DEF ReceiverCeiling, Max2, Min2, Stream
  <2> HIDE DEF ceiling
  <2>5. /\ next \in Stream /\ next.phase = s.phase /\ next.deadline = s.deadline
        /\ next.stall = s.stall /\ next.sent = s.sent /\ next.source_ended = s.source_ended
    BY <2>3, <2>4 DEF Stream
  <2> HIDE DEF next
  <2>6. s.sent <= task[c].pos /\ (s.source_ended => s.sent = task[c].len)
    BY <1>2, <1>6 DEF Counted
  <2> QED BY <1>1, <1>2, <1>3, <1>6, <2>1, <2>5, <2>6, AdvanceKeeps
<1>7. Unmoved \/ Fail(c, "fault") \/ Fail(c, "timeout") \/ (Phase(c) = "Active" /\ Advance(c, next))
  BY <1>1 DEF OnData
<1> QED BY <1>4, <1>5, <1>6, <1>7

LEMMA EndKeeps ==
  ASSUME StreamInv, NEW c \in Calls, NEW offset \in Nat, End(c, offset) PROVE StreamInv'
<1> DEFINE valid == c \notin Uploads /\ offset = Total[c] /\ streams[c].accepted = Total[c]
<1>1. /\ Installed(c) /\ OnEnd(c, offset) /\ junk' \in Nat /\ peer' = peer /\ task' = task
  BY ChargeFacts DEF End, OnEnd, StreamInv, StreamTypes
<1>2. /\ TaskSound(c) /\ Guarded(c) /\ task \in [Calls -> MediaTask] /\ task[c].pos >= task[c].pos
  BY DEF StreamInv, CallInv, StreamTypes, MediaTask
<1>3. TaskSound(c)'
  BY <1>1, <1>2 DEF TaskSound
<1>4. CASE Unmoved
  BY <1>1, <1>2, <1>3, <1>4, TaskKeeps
<1>5. CASE Fail(c, "fault")
  BY <1>1, <1>2, <1>3, <1>5, FailKeeps DEF Outcomes
<1>6. CASE Phase(c) = "Active" /\ valid /\ streams' = [streams EXCEPT ![c] = Finalized(@)]
           /\ UNCHANGED <<ledger, buried, retired, outcome>>
  <2>1. peer' \in [Calls -> {"silent", "open", "aborted"}] /\ peer[c] # "silent"
    BY <1>1, <1>2 DEF StreamInv, StreamTypes, Guarded
  <2> QED BY <1>1, <1>6, <2>1, FinalizeKeeps
<1>7. \/ Unmoved \/ Fail(c, "fault")
      \/ /\ Phase(c) = "Active" /\ valid /\ streams' = [streams EXCEPT ![c] = Finalized(@)]
         /\ UNCHANGED <<ledger, buried, retired, outcome>>
  BY <1>1 DEF OnEnd
<1> QED BY <1>4, <1>5, <1>6, <1>7

\* A media task that did not move.
LEMMA SameTask ==
  ASSUME StreamInv, task' = task
  PROVE  task' \in [Calls -> MediaTask] /\ \A c \in Calls : TaskSound(c)'
BY DEF StreamInv, StreamTypes, CallInv, TaskSound

LEMMA AbortKeeps == ASSUME StreamInv, NEW c \in Calls, Abort(c) PROVE StreamInv'
<1>1. /\ Resolves(c) /\ OnAbort(c) /\ junk' = junk /\ task' = task
      /\ peer' = [peer EXCEPT ![c] = "aborted"]
      /\ UNCHANGED <<ledger, buried, retired, outcome>>
  BY DEF Abort, Said, OnAbort
<1>2. /\ peer' \in [Calls -> {"silent", "open", "aborted"}] /\ peer'[c] = "aborted"
      /\ junk' \in Nat /\ \A d \in Calls : d # c => peer'[d] = peer[d]
  BY <1>1 DEF StreamInv, StreamTypes
<1>3. CASE Phase(c) = "Active"
  <2>1. streams' = [streams EXCEPT ![c] = Finalized(@)]
    BY <1>1, <1>3 DEF OnAbort
  <2> QED BY <1>1, <1>2, <1>3, <2>1, FinalizeKeeps
<1>4. CASE Phase(c) # "Active"
  <2>1. UNCHANGED <<ledger, buried, streams, retired, outcome, task>>
    BY <1>1, <1>4 DEF OnAbort
  <2>2. StreamTypes' /\ Buried' /\ Retirees'
    BY <1>2, <2>1 DEF StreamInv, StreamTypes, Buried, Retirees
  <2>3. \A d \in Calls : d # c => CallInv(d)'
    BY <1>2, <2>1, BystanderKeeps DEF StreamInv, Bystander, LedgerKept, StreamKept
  <2>4. Guarded(c) /\ TaskSound(c) /\ Counted(c)
    BY DEF StreamInv, CallInv
  <2>5. Phase(c)' = Phase(c) /\ Live(c)' = Live(c) /\ Installed(c)' = Installed(c)
        /\ Resolves(c)' = Resolves(c)
    BY <2>1 DEF Phase, Live, Installed, Resolves
  <2>6. Guarded(c)'
    BY <1>1, <1>2, <2>1, <2>4, <2>5 DEF Guarded
  <2>7. TaskSound(c)' /\ Counted(c)'
    BY <1>2, <2>1, <2>4, <2>5, <1>4 DEF TaskSound, Counted
  <2> QED BY <2>2, <2>3, <2>6, <2>7 DEF StreamInv, CallInv
<1> QED BY <1>3, <1>4

LEMMA AckKeeps == ASSUME StreamInv, NEW c \in Calls, Ack(c) PROVE StreamInv'
<1>1. Installed(c) /\ OnAck(c) /\ junk' \in Nat /\ peer' = peer /\ task' = task
  BY ChargeFacts DEF Ack, OnAck, StreamInv, StreamTypes
<1>2. task' \in [Calls -> MediaTask] /\ TaskSound(c)' /\ task[c].pos >= task[c].pos
  BY <1>1, SameTask DEF StreamInv, StreamTypes, MediaTask
<1>3. CASE Phase(c) = "Retired"
  <2>1. Retire(c, streams) /\ UNCHANGED <<ledger, buried, outcome>>
    BY <1>1, <1>3 DEF OnAck
  <2>2. /\ streams' \in [DOMAIN streams' -> Stream] /\ DOMAIN streams' \subseteq DOMAIN streams
        /\ streams'[c] = Disarmed(streams[c], "Retired")
        /\ \A d \in DOMAIN streams' : d # c => streams'[d] = streams[d]
        /\ \A d \in DOMAIN streams \ DOMAIN streams' : d # c /\ streams[d].phase = "Retired"
        /\ Retirees'
    BY <1>1, <2>1, RetireFacts DEF StreamInv, Installed
  <2>3. streams'[c].phase = "Retired" /\ ~streams'[c].deadline /\ ~streams'[c].stall
    BY <1>1, <2>2 DEF StreamInv, StreamTypes, Installed, Disarmed, Stream
  <2>4. ~Live(c) /\ ~Live(c)'
    BY <1>3, <2>1 DEF StreamInv, CallInv, Guarded, Live
  <2>5. /\ ledger' \in [DOMAIN ledger' -> Entry] /\ outcome' \in [Calls -> Outcomes] /\ Buried'
    BY <2>1 DEF StreamInv, StreamTypes, Buried
  <2>6. \A d \in Calls : d # c => LedgerKept(d) /\ StreamKept(d)
    BY <2>1, <2>2 DEF LedgerKept, StreamKept
  <2> QED BY <1>1, <1>2, <2>1, <2>2, <2>3, <2>4, <2>5, <2>6, EndsKeeps
<1>4. CASE Phase(c) = "Active"
  <2>1. Fail(c, "fault")
    BY <1>1, <1>4 DEF OnAck
  <2> QED BY <1>1, <1>2, <2>1, FailKeeps DEF Outcomes
<1>5. CASE Phase(c) \notin {"Retired", "Active"}
  <2>1. Unmoved
    BY <1>1, <1>5 DEF OnAck
  <2> QED BY <1>1, <1>2, <2>1, TaskKeeps
<1> QED BY <1>3, <1>4, <1>5

LEMMA FaultKeeps == ASSUME StreamInv, NEW c \in Calls, Fault(c) PROVE StreamInv'
<1>1. Fail(c, "fault") /\ junk' \in Nat /\ peer' = peer /\ task' = task
  BY ChargeFacts DEF Fault, StreamInv, StreamTypes
<1> QED BY <1>1, SameTask, FailKeeps DEF Outcomes

\* What is dropped from both tables and both queues leaves no trace.
LEMMA DropFacts ==
  ASSUME StreamTypes, Buried, NEW c \in Calls,
         ledger' = Drop(ledger, c), buried' = Without(buried, c)
  PROVE  /\ ledger' \in [DOMAIN ledger' -> Entry] /\ DOMAIN ledger' \subseteq DOMAIN ledger
         /\ ~Live(c)' /\ Buried' /\ \A d \in Calls : d # c => LedgerKept(d)
<1>1. /\ ledger' \in [DOMAIN ledger' -> Entry] /\ DOMAIN ledger' = DOMAIN ledger \ {c}
      /\ \A d \in DOMAIN ledger' : ledger'[d] = ledger[d]
  <2>1. /\ Drop(ledger, c) \in [DOMAIN ledger \ {c} -> Entry]
        /\ \A d \in DOMAIN ledger \ {c} : Drop(ledger, c)[d] = ledger[d]
    BY DEF Drop, StreamTypes
  <2> QED BY <2>1
<1>2. /\ buried' \in Seq(Calls) /\ Distinct(buried') /\ Elements(buried') = Elements(buried) \ {c}
      /\ Len(buried') <= Len(buried)
  BY WithoutRemoves DEF Buried
<1>3. Len(buried') <= InFlight
  <2>1. Len(buried') \in Nat /\ Len(buried) \in Nat /\ Len(buried) <= InFlight /\ InFlight \in Nat
    BY <1>2, StreamAssumption DEF Buried
  <2> QED BY <1>2, <2>1
<1>4. Buried'
  BY <1>1, <1>2, <1>3 DEF Buried
<1> QED BY <1>1, <1>4 DEF Live, LedgerKept

LEMMA ReplyKeeps ==
  ASSUME StreamInv, NEW c \in Calls, NEW ok \in BOOLEAN, Reply(c, ok) PROVE StreamInv'
<1>1. /\ Resolves(c) /\ OnReply(c, ok) /\ junk' \in Nat /\ peer' = peer
      /\ task' = [task EXCEPT ![c] = NoTask]
  BY ChargeFacts DEF Reply, OnReply, StreamInv, StreamTypes
<1>2. /\ task' \in [Calls -> MediaTask] /\ TaskSound(c)'
      /\ \A d \in Calls : d # c => task'[d] = task[d]
  <2>1. <<>> \in Seq(Nat) /\ <<>> \in Seq({"produced", "end", "failed"})
    OBVIOUS
  <2>2. NoTask \in MediaTask
    BY <2>1 DEF NoTask, MediaTask
  <2>3. task' \in [Calls -> MediaTask] /\ task'[c] = NoTask
    BY <1>1, <2>2 DEF StreamInv, StreamTypes
  <2>4. NoTask.pos <= NoTask.len /\ DOMAIN NoTask.owed = {}
    BY DEF NoTask
  <2> QED BY <1>1, <2>3, <2>4 DEF TaskSound
<1>3. CASE ok /\ Phase(c) = "Active"
  <2>1. Fail(c, "fault")
    BY <1>1, <1>3 DEF OnReply
  <2> QED BY <1>1, <1>2, <2>1, FailKeeps DEF Outcomes
<1>4. CASE ~(ok /\ Phase(c) = "Active")
  <2>1. /\ ledger' = Drop(ledger, c) /\ buried' = Without(buried, c)
        /\ streams' = Drop(streams, c) /\ retired' = Without(retired, c)
        /\ outcome' = IF Live(c) THEN [outcome EXCEPT ![c] = Settled(c, ok)] ELSE outcome
    BY <1>1, <1>4 DEF OnReply
  <2>2. /\ ledger' \in [DOMAIN ledger' -> Entry] /\ DOMAIN ledger' \subseteq DOMAIN ledger
        /\ ~Live(c)' /\ Buried' /\ \A d \in Calls : d # c => LedgerKept(d)
    BY <2>1, DropFacts DEF StreamInv
  <2>3. /\ streams' \in [DOMAIN streams' -> Stream] /\ DOMAIN streams' = DOMAIN streams \ {c}
        /\ \A d \in DOMAIN streams' : streams'[d] = streams[d]
    <3>1. /\ Drop(streams, c) \in [DOMAIN streams \ {c} -> Stream]
          /\ \A d \in DOMAIN streams \ {c} : Drop(streams, c)[d] = streams[d]
      BY DEF Drop, StreamInv, StreamTypes
    <3> QED BY <2>1, <3>1
  <2>4. Retirees'
    <3>1. /\ retired' \in Seq(Calls) /\ Distinct(retired') /\ Elements(retired') = Elements(retired) \ {c}
          /\ Len(retired') <= Len(retired)
      BY <2>1, WithoutRemoves DEF StreamInv, Retirees
    <3>2. Len(retired') \in Nat /\ Len(retired) \in Nat /\ Len(retired) <= MaxStreams /\ MaxStreams \in Nat
      BY <3>1, StreamAssumption DEF StreamInv, Retirees
    <3>3. Len(retired') <= MaxStreams
      BY <3>1, <3>2
    <3> QED BY <2>3, <3>1, <3>3 DEF StreamInv, Retirees
  <2>5. /\ outcome' \in [Calls -> Outcomes]
        /\ outcome'[c] # "none" \/ (~Live(c) /\ outcome'[c] = outcome[c])
        /\ \A d \in Calls : d # c => outcome'[d] = outcome[d]
    <3>1. Settled(c, ok) \in Outcomes \ {"none"}
      <4>1. ledger[c].late \in BOOLEAN
        BY <1>1 DEF Resolves, StreamInv, StreamTypes, Entry
      <4> QED BY <4>1 DEF Settled, Outcomes
    <3> QED BY <2>1, <3>1 DEF StreamInv, StreamTypes
  <2>6. \A d \in Calls : d # c => StreamKept(d)
    BY <2>3 DEF StreamKept
  <2> QED BY <1>1, <1>2, <2>2, <2>3, <2>4, <2>5, <2>6, EndsKeeps
<1> QED BY <1>3, <1>4

LEMMA FromDaemonKeeps == ASSUME StreamInv, NEW c \in Calls, FromDaemon(c) PROVE StreamInv'
<1>1. Offsets(c) \subseteq Nat
  BY DEF Offsets
<1>2. CASE Open(c)
  BY <1>2, OpenKeeps
<1>3. CASE \E acc, send \in Offsets(c) : Credit(c, acc, send)
  BY <1>1, <1>3, CreditKeeps
<1>4. CASE \E offset, len \in Offsets(c), sinks \in BOOLEAN : Data(c, offset, len, sinks)
  BY <1>1, <1>4, DataKeeps
<1>5. CASE \E offset \in Offsets(c) : End(c, offset)
  BY <1>1, <1>5, EndKeeps
<1>6. CASE Abort(c)
  BY <1>6, AbortKeeps
<1>7. CASE Ack(c)
  BY <1>7, AckKeeps
<1>8. CASE Fault(c)
  BY <1>8, FaultKeeps
<1>9. CASE \E ok \in BOOLEAN : Reply(c, ok)
  BY <1>9, ReplyKeeps
<1> QED BY <1>2, <1>3, <1>4, <1>5, <1>6, <1>7, <1>8, <1>9 DEF FromDaemon

-----------------------------------------------------------------------------
(* The media task                                                          *)

LEMMA FulfilKeeps == ASSUME StreamInv, NEW c \in Calls, Fulfil(c) PROVE StreamInv'
<1> DEFINE t     == task[c]
           up_to == Head(t.grants)
           read  == Min2(up_to, t.len - t.pos)
           atEnd == t.pos + read = t.len
           owed  == (IF read > 0 /\ read = up_to THEN <<"produced">> ELSE <<>>)
                    \o (IF atEnd THEN <<"end">> ELSE <<>>)
           next  == [t EXCEPT !.pos = @ + read, !.owed = owed, !.over = atEnd,
                              !.grants = Tail(@)]
<1>1. /\ t.grants # <<>> /\ task' = [task EXCEPT ![c] = next]
      /\ Unmoved /\ UNCHANGED <<peer, junk>>
  <2>1. task' = [task EXCEPT ![c].pos = @ + read, ![c].owed = owed,
                             ![c].over = atEnd, ![c].grants = Tail(@)]
    BY DEF Fulfil
  <2>2. [task EXCEPT ![c].pos = @ + read, ![c].owed = owed,
                     ![c].over = atEnd, ![c].grants = Tail(@)] = [task EXCEPT ![c] = next]
    <3> HIDE DEF read, owed, atEnd
    <3>1. task \in [Calls -> MediaTask] /\ t \in MediaTask
      BY DEF StreamInv, StreamTypes
    <3> QED BY <3>1 DEF MediaTask
  <2> QED BY <2>1, <2>2 DEF Fulfil
<1>2. task \in [Calls -> MediaTask] /\ t \in MediaTask /\ t.pos <= t.len
  BY DEF StreamInv, StreamTypes, CallInv, TaskSound
<1>3. up_to \in Nat /\ Tail(t.grants) \in Seq(Nat)
  BY <1>1, <1>2 DEF MediaTask
<1>4. read \in Nat /\ t.pos + read \in Nat /\ t.pos + read <= t.len /\ atEnd \in BOOLEAN
      /\ t.pos + read >= t.pos
  <2> HIDE DEF up_to
  <2>1. t.pos \in Nat /\ t.len \in Nat
    BY <1>2 DEF MediaTask
  <2> HIDE DEF t
  <2> QED BY <1>2, <1>3, <2>1 DEF Min2
<1>5. owed \in Seq({"produced", "end", "failed"})
      /\ \A i \in DOMAIN owed : owed[i] = "end" => atEnd
  <2> DEFINE first == IF read > 0 /\ read = up_to THEN <<"produced">> ELSE <<>>
             last  == IF atEnd THEN <<"end">> ELSE <<>>
  <2>1. first \in {<<"produced">>, <<>>} /\ last \in {<<"end">>, <<>>} /\ (~atEnd => last = <<>>)
    OBVIOUS
  <2>2. owed = first \o last
    OBVIOUS
  <2> HIDE DEF first, last, atEnd, owed
  <2>3. /\ first \in Seq({"produced", "end", "failed"})
        /\ last \in Seq({"produced", "end", "failed"})
    <3>1. <<>> \in Seq({"produced", "end", "failed"})
      OBVIOUS
    <3>2. <<"produced">> \in Seq({"produced", "end", "failed"})
      OBVIOUS
    <3>3. <<"end">> \in Seq({"produced", "end", "failed"})
      OBVIOUS
    <3> QED BY <2>1, <3>1, <3>2, <3>3
  <2>4. owed \in Seq({"produced", "end", "failed"})
    BY <2>2, <2>3
  <2>5. ASSUME NEW i \in DOMAIN owed, owed[i] = "end", ~atEnd PROVE FALSE
    <3>1. last = <<>> /\ owed = first
      BY <2>1, <2>2, <2>3, <2>5
    <3> QED BY <2>1, <2>5, <3>1
  <2> QED BY <2>4, <2>5
<1> HIDE DEF read, owed, atEnd, up_to
<1>6. /\ next \in MediaTask /\ next.len = t.len /\ next.pos = t.pos + read /\ next.owed = owed
  BY <1>2, <1>3, <1>4, <1>5 DEF MediaTask
<1> HIDE DEF next
<1>7. task' \in [Calls -> MediaTask] /\ task'[c] = next /\ \A d \in Calls : d # c => task'[d] = task[d]
  BY <1>1, <1>2, <1>6
<1>8. TaskSound(c)'
  BY <1>4, <1>5, <1>6, <1>7 DEF TaskSound, atEnd
<1> QED BY <1>1, <1>4, <1>6, <1>7, <1>8, TaskKeeps DEF StreamInv, StreamTypes

LEMMA SourceBreaksKeeps == ASSUME StreamInv, NEW c \in Calls, SourceBreaks(c) PROVE StreamInv'
<1> DEFINE t == [task[c] EXCEPT !.owed = <<"failed">>, !.over = TRUE, !.grants = <<>>]
<1>1. Unmoved /\ peer' = peer /\ junk' \in Nat
  BY DEF SourceBreaks, Charge, StreamInv, StreamTypes
<1>2. task \in [Calls -> MediaTask] /\ task[c] \in MediaTask /\ task[c].pos <= task[c].len
  BY DEF StreamInv, StreamTypes, CallInv, TaskSound
<1>3. task' = [task EXCEPT ![c] = t]
  BY <1>2 DEF SourceBreaks, MediaTask
<1>4. t \in MediaTask /\ t.len = task[c].len /\ t.pos = task[c].pos /\ t.owed = <<"failed">>
  <2>1. <<>> \in Seq(Nat) /\ <<"failed">> \in Seq({"produced", "end", "failed"})
    OBVIOUS
  <2> QED BY <1>2, <2>1 DEF MediaTask
<1> HIDE DEF t
<1>5. task' \in [Calls -> MediaTask] /\ task'[c] = t /\ \A d \in Calls : d # c => task'[d] = task[d]
  BY <1>2, <1>3, <1>4
<1>6. TaskSound(c)'
  BY <1>2, <1>4, <1>5 DEF TaskSound
<1>7. task'[c].pos >= task[c].pos
  BY <1>2, <1>4, <1>5 DEF MediaTask
<1> QED BY <1>1, <1>4, <1>5, <1>6, <1>7, TaskKeeps

\* A report that is taken leaves the task sound.
LEMMA ReportedFacts ==
  ASSUME NEW t \in MediaTask, t.owed # <<>>, t.pos <= t.len,
         \A i \in DOMAIN t.owed : t.owed[i] = "end" => t.pos = t.len
  PROVE  /\ Reported(t) \in MediaTask /\ Reported(t).len = t.len /\ Reported(t).pos = t.pos
         /\ \A i \in DOMAIN Reported(t).owed : Reported(t).owed[i] = "end" => t.pos = t.len
         /\ Head(t.owed) = "end" => t.pos = t.len
         /\ Head(t.owed) \in {"produced", "end", "failed"}
<1> DEFINE q == t.owed
<1>1. q \in Seq({"produced", "end", "failed"}) /\ q # <<>>
  BY DEF MediaTask
<1> HIDE DEF q
<1>2. /\ Tail(q) \in Seq({"produced", "end", "failed"}) /\ Head(q) = q[1] /\ 1 \in DOMAIN q
      /\ \A i \in DOMAIN Tail(q) : i + 1 \in DOMAIN q /\ Tail(q)[i] = q[i + 1]
  BY <1>1
<1>3. Reported(t).owed = Tail(q) /\ Reported(t).len = t.len /\ Reported(t).pos = t.pos
  BY DEF Reported, MediaTask, q
<1>4. Reported(t) \in MediaTask
  BY <1>2 DEF Reported, MediaTask, q
<1>5. Head(q) \in {"produced", "end", "failed"}
  BY <1>1
<1>6. \A i \in DOMAIN q : q[i] = "end" => t.pos = t.len
  BY DEF q
<1>7. \A i \in DOMAIN Tail(q) : Tail(q)[i] = "end" => t.pos = t.len
  BY <1>2, <1>6
<1>8. Head(q) = "end" => t.pos = t.len
  BY <1>2, <1>6
<1> QED BY <1>3, <1>4, <1>5, <1>7, <1>8 DEF q

LEMMA ReportKeeps == ASSUME StreamInv, NEW c \in Calls, Report(c) PROVE StreamInv'
<1> DEFINE s == streams[c]
           t == task[c]
           sent    == Max2(s.sent, t.pos)
           counted == [s EXCEPT !.sent = sent]
           closed  == [counted EXCEPT !.source_ended = TRUE]
<1>1. t.owed # <<>> /\ peer' = peer /\ junk' \in Nat
  BY DEF Report, StreamInv, StreamTypes
<1>2. /\ task \in [Calls -> MediaTask] /\ t \in MediaTask /\ t.pos <= t.len
      /\ \A i \in DOMAIN t.owed : t.owed[i] = "end" => t.pos = t.len
      /\ t.pos \in Nat /\ t.len \in Nat
  BY DEF StreamInv, StreamTypes, CallInv, TaskSound, MediaTask
<1>3. /\ Reported(t) \in MediaTask /\ Reported(t).len = t.len /\ Reported(t).pos = t.pos
      /\ \A i \in DOMAIN Reported(t).owed : Reported(t).owed[i] = "end" => t.pos = t.len
      /\ Head(t.owed) = "end" => t.pos = t.len
      /\ Head(t.owed) \in {"produced", "end", "failed"}
  BY <1>1, <1>2, ReportedFacts
<1>4. /\ Phase(c) = "Active" \/ Installed(c) => Installed(c) /\ s \in Stream /\ Phase(c) = s.phase
  BY DEF StreamInv, StreamTypes, Installed, Phase
<1>5. s \in Stream =>
        /\ counted \in Stream /\ counted.phase = s.phase /\ counted.deadline = s.deadline
        /\ counted.stall = s.stall /\ counted.accepted = s.accepted
        /\ counted.source_ended = s.source_ended /\ counted.sent = sent
        /\ closed \in Stream /\ closed.phase = s.phase /\ closed.deadline = s.deadline
        /\ closed.stall = s.stall /\ closed.accepted = s.accepted /\ closed.sent = sent
  <2>1. s \in Stream => sent \in Nat
    BY <1>2 DEF Max2, Stream
  <2> HIDE DEF sent
  <2> QED BY <2>1 DEF Stream
<1>6. Phase(c) = "Active" => sent = t.pos /\ (s.source_ended => sent = t.len)
  <2>1. Phase(c) = "Active" => s.sent <= t.pos /\ s.sent \in Nat /\ (s.source_ended => s.sent = t.len)
    BY <1>4 DEF StreamInv, CallInv, Counted, Stream
  <2> QED BY <1>2, <2>1 DEF Max2
<1> HIDE DEF sent, counted, closed
<1>7. ASSUME task' = [task EXCEPT ![c] = Reported(@)]
      PROVE  /\ task' \in [Calls -> MediaTask] /\ task'[c].len = task[c].len
             /\ task'[c].pos = task[c].pos /\ TaskSound(c)'
             /\ \A d \in Calls : d # c => task'[d] = task[d]
  <2>1. task' \in [Calls -> MediaTask] /\ task'[c] = Reported(t)
    BY <1>2, <1>3, <1>7
  <2> QED BY <1>2, <1>3, <1>7, <2>1 DEF TaskSound
<1>8. CASE Head(t.owed) = "produced" /\ Phase(c) = "Active"
  <2>1. Advance(c, counted) /\ task' = [Pumped(c, counted) EXCEPT ![c] = Reported(@)]
    BY <1>8 DEF Report, counted, sent
  <2> DEFINE p == Pumped(c, counted)
  <2>2. /\ p \in [Calls -> MediaTask] /\ p[c].len = t.len /\ p[c].pos = t.pos /\ p[c].owed = t.owed
        /\ \A d \in Calls : d # c => p[d] = task[d]
    BY <1>4, <1>5, <1>8, PumpedFacts
  <2> HIDE DEF p
  <2>3. /\ Reported(p[c]) \in MediaTask /\ Reported(p[c]).len = t.len /\ Reported(p[c]).pos = t.pos
        /\ \A i \in DOMAIN Reported(p[c]).owed : Reported(p[c]).owed[i] = "end" => t.pos = t.len
    <3>1. /\ p[c] \in MediaTask /\ p[c].owed # <<>> /\ p[c].pos <= p[c].len
          /\ \A i \in DOMAIN p[c].owed : p[c].owed[i] = "end" => p[c].pos = p[c].len
      BY <1>1, <1>2, <2>2
    <3> QED BY <2>2, <3>1, ReportedFacts
  <2>4. task' \in [Calls -> MediaTask] /\ task'[c] = Reported(p[c])
        /\ \A d \in Calls : d # c => task'[d] = task[d]
    BY <2>1, <2>2, <2>3 DEF p
  <2>5. TaskSound(c)' /\ task'[c].len = task[c].len /\ task'[c].pos = t.pos
    BY <1>2, <2>3, <2>4 DEF TaskSound
  <2>6. counted.sent <= task'[c].pos /\ (counted.source_ended => counted.sent = task[c].len)
    BY <1>2, <1>4, <1>5, <1>6, <1>8, <2>5
  <2> QED BY <1>1, <1>4, <1>5, <1>8, <2>1, <2>4, <2>5, <2>6, AdvanceKeeps
<1>9. CASE Head(t.owed) = "produced" /\ Phase(c) # "Active"
  <2>1. Unmoved /\ task' = [task EXCEPT ![c] = Reported(@)]
    BY <1>9 DEF Report
  <2>2. task'[c].pos >= task[c].pos
    BY <1>2, <1>7, <2>1
  <2> QED BY <1>1, <1>7, <2>1, <2>2, TaskKeeps
<1>10. CASE Head(t.owed) = "end" /\ Installed(c)
  <2>1. Advance(c, closed) /\ task' = [task EXCEPT ![c] = Reported(@)]
    BY <1>10 DEF Report, closed, counted, sent
  <2>2. closed.phase = "Active" => closed.sent <= task'[c].pos /\ closed.sent = task[c].len
    BY <1>2, <1>3, <1>4, <1>5, <1>6, <1>7, <1>10, <2>1
  <2> QED BY <1>1, <1>4, <1>5, <1>7, <1>10, <2>1, <2>2, AdvanceKeeps
<1>11. CASE Head(t.owed) = "end" /\ ~Installed(c)
  <2>1. Unmoved /\ task' = [task EXCEPT ![c] = Reported(@)]
    BY <1>11 DEF Report
  <2>2. task'[c].pos >= task[c].pos
    BY <1>2, <1>7, <2>1
  <2> QED BY <1>1, <1>7, <2>1, <2>2, TaskKeeps
<1>12. CASE Head(t.owed) = "failed"
  <2>1. Fail(c, "timeout") /\ task' = [task EXCEPT ![c] = Reported(@)]
    BY <1>12 DEF Report
  <2> QED BY <1>1, <1>7, <2>1, FailKeeps DEF Outcomes
<1> QED BY <1>3, <1>8, <1>9, <1>10, <1>11, <1>12

-----------------------------------------------------------------------------
(* Calls, timers and the connection                                        *)

LEMMA SendKeeps == ASSUME StreamInv, NEW c \in Calls, Send(c) PROVE StreamInv'
<1>1. /\ outcome[c] = "none" /\ c \notin DOMAIN ledger
      /\ ledger' = With(ledger, c, FreshEntry)
      /\ UNCHANGED <<buried, streams, retired, outcome, task, peer, junk>>
  BY DEF Send, Resolves
<1>2. FreshEntry \in Entry /\ FreshEntry.timer = "base" /\ FreshEntry.cancelled = FALSE
  BY DEF FreshEntry, Entry
<1>3. /\ ledger' \in [DOMAIN ledger \cup {c} -> Entry] /\ ledger'[c] = FreshEntry
      /\ \A d \in DOMAIN ledger : ledger'[d] = ledger[d]
  BY <1>1, <1>2 DEF With, StreamInv, StreamTypes
<1>4. StreamTypes' /\ Buried' /\ Retirees'
  BY <1>1, <1>2, <1>3 DEF StreamInv, StreamTypes, Buried, Retirees
<1>5. \A d \in Calls : d # c => CallInv(d)'
  BY <1>1, <1>3, BystanderKeeps DEF StreamInv, Bystander, LedgerKept, StreamKept
<1>6. Guarded(c) /\ TaskSound(c) /\ Counted(c)
  BY DEF StreamInv, CallInv
<1>7. ~Live(c) /\ ~Installed(c) /\ peer[c] = "silent"
  <2>1. ~Live(c)
    BY <1>1 DEF Live
  <2>2. peer[c] \in {"silent", "open", "aborted"}
    BY DEF StreamInv, StreamTypes
  <2> QED BY <1>1, <1>6, <2>1, <2>2 DEF Guarded
<1>8. Live(c)' /\ ~Installed(c)' /\ Phase(c)' = "none" /\ ledger'[c].timer = "base"
  BY <1>1, <1>2, <1>3, <1>7 DEF Live, Installed, Phase
<1>9. Guarded(c)' /\ TaskSound(c)' /\ Counted(c)'
  BY <1>1, <1>6, <1>7, <1>8 DEF Guarded, TaskSound, Counted
<1> QED BY <1>4, <1>5, <1>9 DEF StreamInv, CallInv

LEMMA RefuseKeeps == ASSUME StreamInv, NEW c \in Calls, Refuse(c) PROVE StreamInv'
<1>1. /\ outcome[c] = "none" /\ ~Resolves(c)
      /\ outcome' = [outcome EXCEPT ![c] = "queue_full"]
      /\ UNCHANGED <<ledger, buried, streams, retired, task, peer, junk>>
  BY DEF Refuse
<1>2. /\ outcome' \in [Calls -> Outcomes] /\ outcome'[c] = "queue_full"
      /\ \A d \in Calls : d # c => outcome'[d] = outcome[d]
  BY <1>1 DEF StreamInv, StreamTypes, Outcomes
<1>3. ~Live(c) /\ ~Live(c)' /\ ~Installed(c)
  <2>1. ~Live(c) /\ ~Live(c)'
    BY <1>1 DEF Live, Resolves
  <2> QED BY <1>1, <2>1 DEF StreamInv, CallInv, Guarded
<1>4. Buried' /\ Retirees'
  BY <1>1 DEF StreamInv, Buried, Retirees
<1>5. \A d \in Calls : d # c => LedgerKept(d) /\ StreamKept(d)
  BY <1>1 DEF LedgerKept, StreamKept
<1> QED BY <1>1, <1>2, <1>3, <1>4, <1>5, SameTask, EndsKeeps DEF StreamInv, StreamTypes, Installed

LEMMA CancelKeeps == ASSUME StreamInv, NEW c \in Calls, Cancel(c) PROVE StreamInv'
<1> DEFINE e == [ledger[c] EXCEPT !.cancelled = TRUE]
<1>1. /\ c \in DOMAIN ledger /\ ~ledger[c].cancelled /\ Phase(c) # "Retired"
      /\ IF Phase(c) = "Active" THEN Retire(c, streams) ELSE UNCHANGED <<streams, retired>>
      /\ Bury(c, [ledger EXCEPT ![c].cancelled = TRUE])
      /\ outcome' = [outcome EXCEPT ![c] = "dropped"] /\ UNCHANGED <<task, peer, junk>>
  BY DEF Cancel, Live, StreamInv, CallInv, Guarded
<1>2. e \in Entry /\ e.cancelled /\ [ledger EXCEPT ![c].cancelled = TRUE] = [ledger EXCEPT ![c] = e]
  BY <1>1 DEF StreamInv, StreamTypes, Entry
<1> HIDE DEF e
<1>3. /\ ledger' \in [DOMAIN ledger' -> Entry] /\ DOMAIN ledger' \subseteq DOMAIN ledger
      /\ ~Live(c)' /\ Buried' /\ \A d \in Calls : d # c => LedgerKept(d)
  <2>1. /\ ledger' \in [DOMAIN ledger' -> Entry] /\ DOMAIN ledger' \subseteq DOMAIN ledger
        /\ c \in DOMAIN ledger' /\ ledger'[c] = e
        /\ \A d \in DOMAIN ledger' : d # c => ledger'[d] = ledger[d]
        /\ \A d \in DOMAIN ledger \ DOMAIN ledger' : d # c /\ ledger[d].cancelled
        /\ Buried'
    BY <1>1, <1>2, BuryFacts DEF StreamInv
  <2> QED BY <1>2, <2>1 DEF Live, LedgerKept
<1>4. /\ streams' \in [DOMAIN streams' -> Stream] /\ DOMAIN streams' \subseteq DOMAIN streams
      /\ Retirees' /\ \A d \in Calls : d # c => StreamKept(d)
      /\ c \in DOMAIN streams' =>
           \/ Phase(c) # "Active" /\ streams'[c] = streams[c]
           \/ streams'[c].phase = "Retired" /\ ~streams'[c].deadline /\ ~streams'[c].stall
  <2>1. CASE Phase(c) = "Active"
    <3>1. c \in DOMAIN streams
      BY <2>1 DEF Phase, Installed
    <3>2. /\ streams' \in [DOMAIN streams' -> Stream] /\ DOMAIN streams' \subseteq DOMAIN streams
          /\ streams'[c] = Disarmed(streams[c], "Retired")
          /\ \A d \in DOMAIN streams' : d # c => streams'[d] = streams[d]
          /\ \A d \in DOMAIN streams \ DOMAIN streams' : d # c /\ streams[d].phase = "Retired"
          /\ Retirees'
      BY <1>1, <2>1, <3>1, RetireFacts DEF StreamInv
    <3>3. streams'[c].phase = "Retired" /\ ~streams'[c].deadline /\ ~streams'[c].stall
      BY <3>1, <3>2 DEF StreamInv, StreamTypes, Disarmed, Stream
    <3> QED BY <3>2, <3>3 DEF StreamKept
  <2>2. CASE Phase(c) # "Active"
    <3>1. UNCHANGED <<streams, retired>>
      BY <1>1, <2>2
    <3> QED BY <2>2, <3>1 DEF StreamKept, StreamInv, StreamTypes, Retirees
  <2> QED BY <2>1, <2>2
<1>5. /\ outcome' \in [Calls -> Outcomes] /\ outcome'[c] = "dropped"
      /\ \A d \in Calls : d # c => outcome'[d] = outcome[d]
  BY <1>1 DEF StreamInv, StreamTypes, Outcomes
<1> QED BY <1>1, <1>3, <1>4, <1>5, SameTask, EndsKeeps DEF StreamInv, StreamTypes

LEMMA DeadlinePassesKeeps == ASSUME StreamInv, NEW c \in Calls, DeadlinePasses(c) PROVE StreamInv'
<1>1. /\ c \in DOMAIN ledger /\ ledger' = [ledger EXCEPT ![c].late = TRUE]
      /\ UNCHANGED <<buried, streams, retired, outcome, task, peer, junk>>
  BY DEF DeadlinePasses, Live
<1>2. /\ ledger' \in [DOMAIN ledger -> Entry] /\ ledger'[c].timer = ledger[c].timer
      /\ ledger'[c].cancelled = ledger[c].cancelled
      /\ \A d \in DOMAIN ledger : d # c => ledger'[d] = ledger[d]
  BY <1>1 DEF StreamInv, StreamTypes, Entry
<1>3. StreamTypes' /\ Buried' /\ Retirees'
  BY <1>1, <1>2 DEF StreamInv, StreamTypes, Buried, Retirees
<1>4. \A d \in Calls : d # c => CallInv(d)'
  BY <1>1, <1>2, BystanderKeeps DEF StreamInv, Bystander, LedgerKept, StreamKept
<1>5. Live(c)' = Live(c) /\ Installed(c)' = Installed(c) /\ Phase(c)' = Phase(c)
      /\ Resolves(c)' = Resolves(c)
  BY <1>1, <1>2 DEF Live, Installed, Phase, Resolves
<1>6. CallInv(c)'
  BY <1>1, <1>2, <1>5 DEF StreamInv, CallInv, Guarded, TaskSound, Counted, Complete
<1> QED BY <1>3, <1>4, <1>6 DEF StreamInv

LEMMA CallTimerKeeps == ASSUME StreamInv, NEW c \in Calls, CallTimer(c) PROVE StreamInv'
<1>1. /\ Resolves(c) /\ ledger[c].timer # "none"
      /\ UNCHANGED <<streams, retired, task, peer, junk>>
  BY DEF CallTimer
<1>2. Phase(c) # "Active"
  BY <1>1 DEF StreamInv, CallInv, Guarded, Phase, Installed
<1>3. /\ Retirees' /\ \A d \in Calls : d # c => StreamKept(d)
  BY <1>1 DEF StreamInv, Retirees, StreamKept
<1>4. CASE Live(c)
  <2>1. SettleFailure(c, "timeout")
    BY <1>4 DEF CallTimer
  <2>2. /\ ledger' \in [DOMAIN ledger' -> Entry] /\ DOMAIN ledger' \subseteq DOMAIN ledger
        /\ ~Live(c)' /\ Buried' /\ outcome' \in [Calls -> Outcomes]
        /\ outcome'[c] = "timeout"
        /\ \A d \in Calls : d # c => LedgerKept(d) /\ outcome'[d] = outcome[d]
    BY <1>4, <2>1, SettleFacts DEF StreamInv, Outcomes
  <2> QED BY <1>1, <1>2, <1>3, <2>2, SameTask, EndsKeeps DEF StreamInv, StreamTypes
<1>5. CASE ~Live(c)
  <2>1. ledger' = Drop(ledger, c) /\ buried' = Without(buried, c) /\ outcome' = outcome
    BY <1>5 DEF CallTimer
  <2>2. /\ ledger' \in [DOMAIN ledger' -> Entry] /\ DOMAIN ledger' \subseteq DOMAIN ledger
        /\ ~Live(c)' /\ Buried' /\ \A d \in Calls : d # c => LedgerKept(d)
    BY <2>1, DropFacts DEF StreamInv
  <2> QED BY <1>1, <1>2, <1>3, <1>5, <2>1, <2>2, SameTask, EndsKeeps DEF StreamInv, StreamTypes
<1> QED BY <1>4, <1>5

LEMMA DeadlineTimerKeeps == ASSUME StreamInv, NEW c \in Calls, DeadlineTimer(c) PROVE StreamInv'
BY SameTask, FailKeeps DEF DeadlineTimer, Outcomes, StreamInv, StreamTypes

LEMMA StallTimerKeeps == ASSUME StreamInv, NEW c \in Calls, StallTimer(c) PROVE StreamInv'
<1>1. Phase(c) = "Active" /\ Installed(c) /\ UNCHANGED <<task, peer, junk>>
  BY DEF StallTimer, Phase
<1>2. CASE Fail(c, "timeout")
  BY <1>1, <1>2, SameTask, FailKeeps DEF Outcomes, StreamInv, StreamTypes
<1>3. CASE /\ streams' = [streams EXCEPT ![c].fresh = FALSE]
           /\ UNCHANGED <<ledger, buried, retired, outcome>>
  <2>1. /\ streams' \in [DOMAIN streams -> Stream] /\ streams'[c].phase = streams[c].phase
        /\ streams'[c].deadline = streams[c].deadline /\ streams'[c].stall = streams[c].stall
        /\ streams'[c].sent = streams[c].sent /\ streams'[c].source_ended = streams[c].source_ended
        /\ \A d \in DOMAIN streams : d # c => streams'[d] = streams[d]
    BY <1>1, <1>3 DEF StreamInv, StreamTypes, Installed, Stream
  <2>2. StreamTypes' /\ Buried' /\ Retirees'
    BY <1>1, <1>3, <2>1 DEF StreamInv, StreamTypes, Buried, Retirees
  <2>3. \A d \in Calls : d # c => CallInv(d)'
    BY <1>1, <1>3, <2>1, BystanderKeeps DEF StreamInv, Bystander, LedgerKept, StreamKept
  <2>4. Live(c)' = Live(c) /\ Installed(c)' = Installed(c) /\ Phase(c)' = "Active"
        /\ Resolves(c)' = Resolves(c)
    BY <1>1, <1>3, <2>1 DEF Live, Installed, Phase, Resolves
  <2>5. Guarded(c) /\ TaskSound(c) /\ Counted(c)
    BY DEF StreamInv, CallInv
  <2>6. Guarded(c)' /\ TaskSound(c)' /\ Counted(c)'
    BY <1>1, <1>3, <2>1, <2>4, <2>5 DEF Guarded, TaskSound, Counted, Installed
  <2> QED BY <2>2, <2>3, <2>6 DEF StreamInv, CallInv
<1> QED BY <1>2, <1>3 DEF StallTimer

LEMMA InterruptedKeeps == ASSUME StreamInv, Interrupted PROVE StreamInv'
<1>1. /\ ledger' = <<>> /\ buried' = <<>> /\ streams' = <<>> /\ retired' = <<>>
      /\ task' = [c \in Calls |-> NoTask] /\ UNCHANGED <<peer, junk>>
      /\ outcome' = [c \in Calls |-> IF ~Live(c) THEN outcome[c]
                                     ELSE IF ledger[c].late THEN "timeout" ELSE "disconnected"]
  BY DEF Interrupted, Nothing
<1>2. DOMAIN ledger' = {} /\ DOMAIN streams' = {}
  BY <1>1
<1>3. ledger' \in [DOMAIN ledger' -> Entry] /\ streams' \in [DOMAIN streams' -> Stream]
  BY <1>1, <1>2
<1>4. NoTask \in MediaTask /\ NoTask.pos <= NoTask.len /\ DOMAIN NoTask.owed = {}
  <2>1. <<>> \in Seq(Nat)
    OBVIOUS
  <2>2. <<>> \in Seq({"produced", "end", "failed"})
    OBVIOUS
  <2> QED BY <2>1, <2>2 DEF NoTask, MediaTask
<1>5. outcome' \in [Calls -> Outcomes] /\ \A c \in Calls : Live(c) => outcome'[c] # "none"
  BY <1>1 DEF StreamInv, StreamTypes, Outcomes
<1>6. StreamTypes'
  BY <1>1, <1>2, <1>3, <1>4, <1>5 DEF StreamInv, StreamTypes
<1>7. <<>> \in Seq(Calls) /\ Len(<<>>) = 0 /\ Elements(<<>>) = {} /\ Distinct(<<>>)
  <2>1. <<>> \in Seq(Calls)
    OBVIOUS
  <2>2. DOMAIN <<>> = {} /\ Len(<<>>) = 0
    OBVIOUS
  <2> QED BY <2>1, <2>2 DEF Elements, Distinct
<1>8. Buried' /\ Retirees'
  BY <1>1, <1>2, <1>7, StreamAssumption DEF Buried, Retirees
<1>9. ASSUME NEW c \in Calls PROVE CallInv(c)'
  <2>1. ~Live(c)' /\ ~Installed(c)' /\ ~Resolves(c)' /\ Phase(c)' = "none" /\ task'[c] = NoTask
    BY <1>1, <1>2 DEF Live, Installed, Resolves, Phase
  <2>2. outcome'[c] = "none" => outcome[c] = "none" /\ ~Live(c)
    BY <1>1, <1>5
  <2>3. outcome'[c] = "none" => peer[c] = "silent"
    BY <2>2 DEF StreamInv, StreamTypes, CallInv, Guarded
  <2> QED BY <1>1, <1>4, <2>1, <2>3 DEF CallInv, Guarded, TaskSound, Counted
<1> QED BY <1>6, <1>8, <1>9 DEF StreamInv

-----------------------------------------------------------------------------
(* The specification                                                       *)

LEMMA InitHolds == Init => StreamInv
<1> SUFFICES ASSUME Init PROVE StreamInv
  OBVIOUS
<1>1. /\ ledger = <<>> /\ buried = <<>> /\ streams = <<>> /\ retired = <<>>
      /\ outcome = [c \in Calls |-> "none"] /\ peer = [c \in Calls |-> "silent"] /\ junk = 0
      /\ task \in [Calls -> {IdleTask(len) : len \in SourceLengths}]
  BY DEF Init, Nothing
<1>2. DOMAIN ledger = {} /\ DOMAIN streams = {}
  BY <1>1
<1>3. ASSUME NEW c \in Calls
      PROVE  task[c] \in MediaTask /\ task[c].pos <= task[c].len /\ DOMAIN task[c].owed = {}
  <2>1. <<>> \in Seq(Nat)
    OBVIOUS
  <2>2. <<>> \in Seq({"produced", "end", "failed"})
    OBVIOUS
  <2>3. PICK len \in SourceLengths : task[c] = IdleTask(len)
    BY <1>1
  <2>4. len \in Nat
    BY StreamAssumption
  <2> QED BY <2>1, <2>2, <2>3, <2>4 DEF IdleTask, MediaTask
<1>4. StreamTypes
  <2>1. ledger \in [DOMAIN ledger -> Entry] /\ streams \in [DOMAIN streams -> Stream]
    BY <1>1, <1>2
  <2>2. task \in [Calls -> MediaTask]
    BY <1>1, <1>3
  <2> QED BY <1>1, <1>2, <2>1, <2>2 DEF StreamTypes, Outcomes
<1>5. <<>> \in Seq(Calls) /\ Len(<<>>) = 0 /\ Elements(<<>>) = {} /\ Distinct(<<>>)
  <2>1. <<>> \in Seq(Calls)
    OBVIOUS
  <2>2. DOMAIN <<>> = {} /\ Len(<<>>) = 0
    OBVIOUS
  <2> QED BY <2>1, <2>2 DEF Elements, Distinct
<1>6. Buried /\ Retirees
  BY <1>1, <1>2, <1>5, StreamAssumption DEF Buried, Retirees
<1>7. ASSUME NEW c \in Calls PROVE CallInv(c)
  BY <1>1, <1>2, <1>3 DEF CallInv, Guarded, TaskSound, Counted, Live, Installed, Resolves, Phase
<1> QED BY <1>4, <1>6, <1>7 DEF StreamInv

LEMMA StepHolds == StreamInv /\ [Next]_vars => StreamInv'
<1> SUFFICES ASSUME StreamInv, [Next]_vars PROVE StreamInv'
  OBVIOUS
<1>1. ASSUME NEW c \in Calls,
             \/ Send(c) \/ Refuse(c) \/ Cancel(c) \/ FromDaemon(c) \/ Fulfil(c) \/ SourceBreaks(c)
             \/ Report(c) \/ DeadlinePasses(c) \/ CallTimer(c) \/ DeadlineTimer(c) \/ StallTimer(c)
      PROVE  StreamInv'
  BY <1>1, SendKeeps, RefuseKeeps, CancelKeeps, FromDaemonKeeps, FulfilKeeps, SourceBreaksKeeps,
     ReportKeeps, DeadlinePassesKeeps, CallTimerKeeps, DeadlineTimerKeeps, StallTimerKeeps
<1>2. CASE Interrupted
  BY <1>2, InterruptedKeeps
<1>3. CASE UNCHANGED vars
  <2>1. UNCHANGED <<ledger, buried, streams, retired, outcome, task, peer, junk>>
    BY <1>3 DEF vars, coreVars
  <2>2. StreamTypes' /\ Buried' /\ Retirees'
    BY <2>1 DEF StreamInv, StreamTypes, Buried, Retirees
  <2>3. \A c \in Calls : CallInv(c)'
    BY <2>1, BystanderKeeps DEF StreamInv, Bystander, LedgerKept, StreamKept
  <2> QED BY <2>2, <2>3 DEF StreamInv
<1> QED BY <1>1, <1>2, <1>3 DEF Next

\* The tables, their timers and their queues agree, and what a stream counts is
\* on the wire, in every state of every execution.
THEOREM StreamInvariant == Spec => []StreamInv
BY InitHolds, StepHolds, PTL DEF Spec

\* A call on the wire has its base timer, its stream's two timers, or a terminal
\* reply to wait for, and the queues hold the tombstones and no others.
THEOREM TimersAlwaysGuard == Spec => []TimersGuardCalls
<1>1. StreamInv => TimersGuardCalls
  <2> SUFFICES ASSUME StreamInv PROVE TimersGuardCalls
    OBVIOUS
  <2>1. \A c \in Calls : Guarded(c)
    BY DEF StreamInv, CallInv
  <2>2. DOMAIN ledger \subseteq Calls /\ DOMAIN streams \subseteq Calls
    BY DEF StreamInv, StreamTypes
  <2>3. ASSUME NEW c \in Calls, Live(c)
        PROVE  /\ outcome[c] = "none"
               /\ ~Installed(c) => ledger[c].timer = "base"
               /\ Phase(c) = "Active" => streams[c].deadline /\ streams[c].stall
               /\ Phase(c) # "Retired"
    BY <2>1, <2>3 DEF Guarded, Phase
  <2>4. ASSUME NEW c \in DOMAIN streams
        PROVE  /\ Phase(c) = "Active" => Live(c)
               /\ Phase(c) # "Active" => ~streams[c].deadline /\ ~streams[c].stall
    BY <2>1, <2>2 DEF Guarded, Installed
  <2>5. Elements(buried) = {c \in DOMAIN ledger : ~Live(c)}
    BY DEF StreamInv, Buried, Live
  <2>6. Elements(retired) = {c \in DOMAIN streams : Phase(c) = "Retired"}
    BY DEF StreamInv, Retirees, Phase, Installed
  <2>7. /\ Distinct(buried) /\ Distinct(retired)
        /\ Len(buried) <= InFlight /\ Len(retired) <= MaxStreams
    BY DEF StreamInv, Buried, Retirees
  <2> QED BY <2>3, <2>4, <2>5, <2>6, <2>7 DEF TimersGuardCalls
<1> QED BY <1>1, StreamInvariant, PTL

-----------------------------------------------------------------------------
(* What a caller is told                                                   *)

\* A settlement by failure says so, and to nobody but the call that failed.
LEMMA FailTells ==
  ASSUME NEW c \in Calls, NEW d \in Calls, NEW error, Fail(c, error),
         outcome \in [Calls -> Outcomes]
  PROVE  outcome'[d] = outcome[d] \/ (d = c /\ outcome'[d] = error)
BY DEF Fail, SettleFailure

\* Every step but a record, a failed report and a firing timer keeps what the
\* callers were told, or tells them neither of a success nor of a fault.
Innocent(d) == outcome'[d] = outcome[d] \/ outcome'[d] \notin {"ok", "fault"}

LEMMA QuietSteps ==
  ASSUME StreamInv, NEW c \in Calls, NEW d \in Calls,
         \/ Send(c) \/ Refuse(c) \/ Cancel(c) \/ Fulfil(c) \/ SourceBreaks(c)
         \/ Report(c) \/ DeadlinePasses(c) \/ CallTimer(c) \/ DeadlineTimer(c) \/ StallTimer(c)
  PROVE  Innocent(d)
<1>1. outcome \in [Calls -> Outcomes]
  BY DEF StreamInv, StreamTypes
<1>2. CASE Send(c) \/ Fulfil(c) \/ SourceBreaks(c) \/ DeadlinePasses(c)
  BY <1>2 DEF Send, Fulfil, SourceBreaks, DeadlinePasses, Unmoved, coreVars, Innocent
<1>3. CASE Refuse(c) \/ Cancel(c)
  <2>1. outcome' = [outcome EXCEPT ![c] = "queue_full"] \/ outcome' = [outcome EXCEPT ![c] = "dropped"]
    BY <1>3 DEF Refuse, Cancel
  <2> QED BY <1>1, <2>1 DEF Innocent
<1>4. CASE Report(c)
  <2>1. outcome' = outcome \/ Fail(c, "timeout")
    <3>1. Head(task[c].owed) \in {"produced", "end", "failed"}
      BY <1>4, ReportedFacts DEF Report, StreamInv, StreamTypes, CallInv, TaskSound
    <3> QED BY <1>4, <3>1 DEF Report, Advance, Unmoved, coreVars
  <2> QED BY <1>1, <2>1, FailTells DEF Innocent
<1>5. CASE CallTimer(c)
  <2>1. outcome' = outcome \/ outcome' = [outcome EXCEPT ![c] = "timeout"]
    BY <1>5 DEF CallTimer, SettleFailure
  <2> QED BY <1>1, <2>1 DEF Innocent
<1>6. CASE DeadlineTimer(c) \/ StallTimer(c)
  <2>1. outcome' = outcome \/ Fail(c, "timeout")
    BY <1>6 DEF DeadlineTimer, StallTimer
  <2> QED BY <1>1, <2>1, FailTells DEF Innocent
<1> QED BY <1>2, <1>3, <1>4, <1>5, <1>6

\* Of the records, only a reply tells of a success, and only of its own call.
LEMMA RecordTells ==
  ASSUME StreamInv, NEW c \in Calls, NEW d \in Calls, FromDaemon(c),
         outcome'[d] = "ok", outcome[d] = "none"
  PROVE  d = c /\ Live(c) /\ Phase(c) # "Active"
<1>1. outcome \in [Calls -> Outcomes]
  BY DEF StreamInv, StreamTypes
<1>2. ~(Unmoved \/ Fail(c, "fault") \/ Fail(c, "timeout") \/ outcome' = outcome)
  BY <1>1, FailTells DEF Unmoved, coreVars
<1>3. ~Open(c)
  BY <1>2 DEF Open, OnOpen
<1>4. ~\E acc, send \in Offsets(c) : Credit(c, acc, send)
  BY <1>2 DEF Credit, OnCredit, Advance
<1>5. ~\E offset, len \in Offsets(c), sinks \in BOOLEAN : Data(c, offset, len, sinks)
  BY <1>2 DEF Data, OnData, Advance
<1>6. ~\E offset \in Offsets(c) : End(c, offset)
  BY <1>2 DEF End, OnEnd
<1>7. ~Abort(c) /\ ~Ack(c) /\ ~Fault(c)
  BY <1>2 DEF Abort, OnAbort, Ack, OnAck, Fault
<1>8. PICK ok \in BOOLEAN : Reply(c, ok)
  BY <1>3, <1>4, <1>5, <1>6, <1>7 DEF FromDaemon
<1>9. ~(ok /\ Phase(c) = "Active")
      /\ outcome' = IF Live(c) THEN [outcome EXCEPT ![c] = Settled(c, ok)] ELSE outcome
  BY <1>2, <1>8 DEF Reply, OnReply
<1>10. d = c /\ Live(c) /\ Settled(c, ok) = "ok"
  BY <1>1, <1>2, <1>9
<1>11. ok
  <2>1. ledger[c].late \in BOOLEAN
    BY <1>10 DEF Live, StreamInv, StreamTypes, Entry
  <2> QED BY <1>10, <2>1 DEF Settled
<1> QED BY <1>9, <1>10, <1>11

LEMMA InterruptedTells ==
  ASSUME StreamInv, NEW d \in Calls, Interrupted PROVE Innocent(d)
BY DEF Interrupted, Innocent

\* A success is of a complete exchange, or of one that had no stream, or whose
\* stream the daemon aborted itself.
THEOREM SuccessAlwaysComplete == Spec => SuccessIsComplete
<1>1. ASSUME StreamInv, [Next]_vars, NEW d \in Calls,
             outcome'[d] = "ok", outcome[d] = "none"
      PROVE  peer[d] # "open" \/ Complete(d)
  <2>1. ~Innocent(d) /\ ~UNCHANGED vars
    BY <1>1 DEF Innocent, vars, coreVars
  <2>2. PICK c \in Calls : FromDaemon(c)
    BY <1>1, <2>1, QuietSteps, InterruptedTells DEF Next
  <2>3. d = c /\ Live(d) /\ Phase(d) # "Active"
    BY <1>1, <2>2, RecordTells
  <2>4. Guarded(d) /\ Counted(d)
    BY <1>1 DEF StreamInv, CallInv
  <2>5. ASSUME peer[d] = "open" PROVE Phase(d) = "Finalizing"
    <3>1. Installed(d) /\ Phase(d) # "Retired"
      BY <2>3, <2>4, <2>5 DEF Guarded
    <3>2. Phase(d) \in {"Active", "Finalizing", "Retired"}
      BY <1>1, <3>1 DEF StreamInv, StreamTypes, Installed, Phase, Stream
    <3> QED BY <2>3, <3>1, <3>2
  <2> QED BY <2>4, <2>5 DEF Counted
<1>2. StreamInv /\ [Next]_vars =>
        [\A c \in Calls : outcome'[c] = "ok" /\ outcome[c] = "none" =>
           peer[c] # "open" \/ Complete(c)]_vars
  BY <1>1
<1> QED BY <1>2, StreamInvariant, PTL DEF Spec, SuccessIsComplete

\* A record that the protocol allows is never taken for a fault, unless it is a
\* CREDIT for bytes that are on the wire and not yet reported.
LEMMA HonestRecord ==
  ASSUME StreamInv, NEW c \in Calls, NEW d \in Calls, FromDaemon(c), junk' = junk,
         outcome'[d] = "fault", outcome[d] # "fault"
  PROVE  d = c /\ Installed(c) /\ streams[c].sent < task[c].pos
<1>1. outcome \in [Calls -> Outcomes] /\ junk \in Nat
  BY DEF StreamInv, StreamTypes
<1>2. ~Charge /\ ~Unmoved /\ outcome' # outcome /\ ~Fail(c, "timeout")
      /\ (Fail(c, "fault") => d = c)
  BY <1>1, FailTells DEF Charge, Unmoved, coreVars
<1>3. ~Open(c)
  BY <1>2 DEF Open, OnOpen
<1>4. ~\E offset, len \in Offsets(c), sinks \in BOOLEAN : Data(c, offset, len, sinks)
  BY <1>2 DEF Data, OnData, Advance
<1>5. ~\E offset \in Offsets(c) : End(c, offset)
  BY <1>2 DEF End, OnEnd
<1>6. ~Abort(c) /\ ~Fault(c)
  BY <1>2 DEF Abort, OnAbort, Fault
<1>7. ~Ack(c)
  BY <1>2 DEF Ack, OnAck
<1>8. ~\E ok \in BOOLEAN : Reply(c, ok)
  <2> SUFFICES ASSUME NEW ok \in BOOLEAN, Reply(c, ok) PROVE FALSE
    OBVIOUS
  <2>1. ok => peer[c] = "silent" \/ Phase(c) = "Finalizing"
    BY <1>2 DEF Reply
  <2>2. ~(ok /\ Phase(c) = "Active")
    BY <2>1 DEF StreamInv, CallInv, Guarded, Phase
  <2>3. outcome' = IF Live(c) THEN [outcome EXCEPT ![c] = Settled(c, ok)] ELSE outcome
    BY <2>2 DEF Reply, OnReply
  <2>4. Settled(c, ok) # "fault"
    <3>1. Live(c) => ledger[c].late \in BOOLEAN
      BY DEF Live, StreamInv, StreamTypes, Entry
    <3>2. Live(c)
      BY <1>2, <2>3
    <3> QED BY <3>1, <3>2 DEF Settled
  <2> QED BY <1>1, <2>3, <2>4
<1>9. PICK acc \in Offsets(c), send \in Offsets(c) : Credit(c, acc, send)
  BY <1>3, <1>4, <1>5, <1>6, <1>7, <1>8 DEF FromDaemon
<1>10. Installed(c) /\ streams[c] \in Stream /\ task[c].pos \in Nat /\ acc \in Nat /\ send \in Nat
  BY <1>9 DEF Credit, Installed, StreamInv, StreamTypes, MediaTask, Offsets
<1>11. /\ c \in Uploads /\ acc \in streams[c].accepted .. task[c].pos
       /\ send \in Max2(acc, streams[c].send_through) .. Total[c] + 1
  BY <1>2, <1>9 DEF Credit
<1>12. Fail(c, "fault") /\ ~CreditValid(c, streams[c], acc, send)
  BY <1>2, <1>9 DEF Credit, OnCredit, Advance
<1>13. streams[c].accepted \in Nat /\ streams[c].send_through \in Nat /\ streams[c].sent \in Nat
       /\ Total[c] \in Nat
  BY <1>10, StreamAssumption DEF Stream
<1>14. acc <= send /\ send >= streams[c].send_through /\ acc >= streams[c].accepted /\ acc <= task[c].pos
  BY <1>10, <1>11, <1>13 DEF Max2
<1>15. acc > streams[c].sent
  BY <1>10, <1>11, <1>12, <1>13, <1>14 DEF CreditValid
<1> QED BY <1>2, <1>10, <1>12, <1>13, <1>14, <1>15

\* A daemon that keeps to the protocol is never faulted, but in the race of a
\* CREDIT with the media task's report.
THEOREM HonestDaemonSpared == Spec => HonestDaemonNotFaulted
<1>1. ASSUME StreamInv, [Next]_vars, NEW d \in Calls,
             outcome'[d] = "fault", outcome[d] # "fault", junk' = junk
      PROVE  Installed(d) /\ streams[d].sent < task[d].pos
  <2>1. ~Innocent(d) /\ ~UNCHANGED vars
    BY <1>1 DEF Innocent, vars, coreVars
  <2>2. PICK c \in Calls : FromDaemon(c)
    BY <1>1, <2>1, QuietSteps, InterruptedTells DEF Next
  <2> QED BY <1>1, <2>2, HonestRecord
<1>2. StreamInv /\ [Next]_vars =>
        [\A c \in Calls : outcome'[c] = "fault" /\ outcome[c] # "fault" /\ junk' = junk =>
           Installed(c) /\ streams[c].sent < task[c].pos]_vars
  BY <1>1
<1> QED BY <1>2, StreamInvariant, PTL DEF Spec, HonestDaemonNotFaulted
=============================================================================
