--------------------------- MODULE KernelCallProofs ---------------------------
(***************************************************************************)
(* Theorems about Kernel and about Session, for every value of their       *)
(* constants.  Of the kernel first the lifecycle: the reconnect loop is    *)
(* driven and stop is for good.  Then the calls: each is settled once and  *)
(* with its own answer, no claim about execution is wrong, a call is sent  *)
(* again only where it is deduplicated, and calls go out in dispatch       *)
(* order; the admission account and the bounds of the tables are exact.    *)
(* Last the session, Session extending Kernel: for any number of calls,    *)
(* connections and daemon processes, the kernel and the ledger behind the  *)
(* wire together keep what Mutation promises to the caller.                *)
(***************************************************************************)
EXTENDS Session, SequenceTheorems, FiniteSetTheorems, TLAPS

-----------------------------------------------------------------------------
(* The kernel's queues, duplicate-free                                     *)

\* Without closes the gap an element leaves.
LEMMA WithoutAt ==
    ASSUME NEW S, NEW s \in Seq(S), NEW i \in 1..Len(s), Distinct(s)
    PROVE  /\ Without(s, s[i]) \in Seq(S)
           /\ Len(Without(s, s[i])) = Len(s) - 1
           /\ \A k \in 1..(Len(s) - 1) :
                Without(s, s[i])[k] = IF k < i THEN s[k] ELSE s[k + 1]
<1>1. s[i] \in Elements(s)
  BY DEF Elements
<1>2. (CHOOSE j \in DOMAIN s : s[j] = s[i]) = i
  BY DEF Distinct
<1> DEFINE a == SubSeq(s, 1, i - 1)
           b == SubSeq(s, i + 1, Len(s))
           t == a \o b
<1>3. Without(s, s[i]) = t
  BY <1>1, <1>2 DEF Without
<1>4. /\ a \in Seq(S) /\ Len(a) = i - 1
      /\ \A k \in 1..(i - 1) : a[k] = s[k]
  OBVIOUS
<1>5. /\ b \in Seq(S) /\ Len(b) = Len(s) - i
      /\ \A k \in 1..(Len(s) - i) : b[k] = s[k + i]
  OBVIOUS
<1> HIDE DEF a, b
<1>6. /\ t \in Seq(S) /\ Len(t) = Len(a) + Len(b)
      /\ \A k \in 1..(Len(a) + Len(b)) :
           t[k] = IF k <= Len(a) THEN a[k] ELSE b[k - Len(a)]
  BY <1>4, <1>5, ConcatProperties, Zenon
<1> HIDE DEF t
<1>7. Len(a) + Len(b) = Len(s) - 1 /\ Len(s) \in Nat /\ i \in Nat
  BY <1>4, <1>5
<1>8. ASSUME NEW k \in 1..(Len(s) - 1)
      PROVE  t[k] = IF k < i THEN s[k] ELSE s[k + 1]
  <2>1. CASE k < i
    BY <2>1, <1>6, <1>7, <1>4
  <2>2. CASE k >= i
    <3>1. k - (i - 1) \in 1..(Len(s) - i) /\ (k - (i - 1)) + i = k + 1
      BY <2>2, <1>7
    <3>2. t[k] = b[k - (i - 1)]
      <4>1. /\ k \in 1..(Len(a) + Len(b)) /\ ~(k <= Len(a))
            /\ Len(a) = i - 1
        BY <2>2, <1>7, <1>4
      <4> QED BY <4>1, <1>6
    <3>3. b[k - (i - 1)] = s[(k - (i - 1)) + i]
      BY <3>1, <1>5
    <3> QED BY <3>1, <3>2, <3>3, <2>2, <1>7
  <2> QED BY <2>1, <2>2, <1>7
<1> QED BY <1>3, <1>6, <1>7, <1>8

\* Without removes one element of a duplicate-free sequence and nothing else.
LEMMA WithoutRemoves ==
    ASSUME NEW S, NEW s \in Seq(S), NEW c, Distinct(s)
    PROVE  /\ Without(s, c) \in Seq(S)
           /\ Distinct(Without(s, c))
           /\ Elements(Without(s, c)) = Elements(s) \ {c}
           /\ Len(Without(s, c)) <= Len(s)
<1>1. CASE c \notin Elements(s)
  BY <1>1 DEF Without
<1>2. CASE c \in Elements(s)
  <2> PICK i \in 1..Len(s) : s[i] = c
    BY <1>2 DEF Elements
  <2> DEFINE t == Without(s, c)
  <2>5. /\ t \in Seq(S) /\ Len(t) = Len(s) - 1
        /\ \A k \in 1..(Len(s) - 1) : t[k] = IF k < i THEN s[k] ELSE s[k + 1]
    BY WithoutAt
  <2> HIDE DEF t
  <2>6. Distinct(t)
    <3> SUFFICES ASSUME NEW k \in 1..(Len(s) - 1), NEW m \in 1..(Len(s) - 1),
                        t[k] = t[m]
                 PROVE  k = m
      BY <2>5 DEF Distinct
    <3> DEFINE pos(x) == IF x < i THEN x ELSE x + 1
    <3>1. s[pos(k)] = s[pos(m)] /\ pos(k) \in DOMAIN s /\ pos(m) \in DOMAIN s
      BY <2>5
    <3>2. pos(k) = pos(m)
      BY <3>1 DEF Distinct
    <3> QED BY <3>2
  <2>7. Elements(t) = Elements(s) \ {c}
    <3>1. ASSUME NEW k \in 1..(Len(s) - 1)
          PROVE  t[k] \in Elements(s) \ {c}
      <4> DEFINE m == IF k < i THEN k ELSE k + 1
      <4>1. m \in DOMAIN s /\ m # i /\ t[k] = s[m]
        BY <2>5
      <4> HIDE DEF m
      <4> QED BY <4>1 DEF Distinct, Elements
    <3>2. ASSUME NEW k \in 1..Len(s), s[k] # c
          PROVE  \E j \in 1..(Len(s) - 1) : t[j] = s[k]
      <4>1. CASE k < i
        <5>1. k \in 1..(Len(s) - 1) /\ t[k] = s[k]
          BY <4>1, <2>5
        <5> QED BY <5>1
      <4>2. CASE k > i
        <5>1. k - 1 \in 1..(Len(s) - 1) /\ t[k - 1] = s[k]
          BY <4>2, <2>5
        <5> QED BY <5>1
      <4> QED BY <3>2, <4>1, <4>2
    <3> QED BY <3>1, <3>2, <2>5 DEF Elements
  <2> QED BY <2>5, <2>6, <2>7 DEF t
<1> QED BY <1>1, <1>2

\* Tail removes the head, which is nowhere else.
LEMMA TailRemoves ==
    ASSUME NEW S, NEW s \in Seq(S), Distinct(s), s # <<>>
    PROVE  /\ Tail(s) \in Seq(S)
           /\ Distinct(Tail(s))
           /\ Elements(Tail(s)) = Elements(s) \ {Head(s)}
           /\ Head(s) \in Elements(s) /\ Len(Tail(s)) = Len(s) - 1
<1> DEFINE t == Tail(s)
<1>1. /\ t \in Seq(S) /\ Len(t) = Len(s) - 1 /\ Len(s) \in Nat /\ Len(s) >= 1
      /\ \A i \in 1..(Len(s) - 1) : t[i] = s[i + 1]
      /\ Head(s) = s[1]
  OBVIOUS
<1> HIDE DEF t
<1>2. /\ DOMAIN s = 1..Len(s) /\ DOMAIN t = 1..(Len(s) - 1) /\ 1 \in DOMAIN s
      /\ \A i \in DOMAIN t : i + 1 \in DOMAIN s /\ i + 1 # 1 /\ i \in Nat
      /\ \A i \in DOMAIN s : i # 1 => i - 1 \in DOMAIN t /\ (i - 1) + 1 = i
  BY <1>1
<1>3. \A i \in DOMAIN t : t[i] = s[i + 1]
  BY <1>1, <1>2
<1>4. Distinct(t)
  <2> SUFFICES ASSUME NEW i \in DOMAIN t, NEW j \in DOMAIN t, t[i] = t[j]
               PROVE  i = j
    BY DEF Distinct
  <2>1. i + 1 = j + 1
    BY <1>2, <1>3 DEF Distinct
  <2> QED BY <2>1, <1>2
<1>5. Elements(t) = Elements(s) \ {Head(s)}
  <2>1. ASSUME NEW i \in DOMAIN t PROVE t[i] \in Elements(s) /\ t[i] # Head(s)
    BY <1>1, <1>2, <1>3 DEF Distinct, Elements
  <2>2. ASSUME NEW i \in DOMAIN s, s[i] # Head(s) PROVE s[i] \in Elements(t)
    <3>1. i # 1
      BY <2>2, <1>1
    <3>2. i - 1 \in DOMAIN t /\ t[i - 1] = s[i]
      BY <3>1, <1>2, <1>3
    <3> QED BY <3>2 DEF Elements
  <2> QED BY <2>1, <2>2 DEF Elements
<1>6. Head(s) \in Elements(s)
  BY <1>1, <1>2 DEF Elements
<1> QED BY <1>1, <1>4, <1>5, <1>6 DEF t

-----------------------------------------------------------------------------
(* The reconnect loop                                                      *)

\* The invariant that is inductive by itself: ReconnectDriven with the types of
\* the lifecycle variables.
LifecycleInv ==
    /\ state \in States
    /\ stopping \in BOOLEAN
    /\ attempt \in 0..MaxReconnectAttempts
    /\ next_dial_token \in Nat
    /\ pending_dial \in 0..next_dial_token
    /\ backoff_timer \in BOOLEAN
    /\ ReconnectDriven

LEMMA WithoutOfEmpty == \A c : Without(<<>>, c) = <<>>
  BY DEF Without, Elements

\* A handler that leaves the lifecycle alone and ends with the flush keeps the
\* hold empty outside Interrupted.
LEMMA FlushKeepsLifecycle ==
    ASSUME LifecycleInv, UNCHANGED lifecycle,
           NEW L, NEW idx, NEW q, NEW n, NEW count, NEW bytes, NEW out,
           Flush(L, idx, q, replay_hold, n, count, bytes, out)
    PROVE  LifecycleInv'
<1>1. replay_hold' = <<>> \/ replay_hold' = replay_hold
  BY DEF Flush, FlushReady, NoFlush
<1> QED BY <1>1 DEF LifecycleInv, ReconnectDriven, lifecycle

\* FailAll, as far as the lifecycle sees it.
LEMMA FailAllLifecycle ==
    ASSUME NEW L, NEW out, FailAll(L, out), LifecycleInv,
           UNCHANGED <<stopping, next_dial_token>>
    PROVE  LifecycleInv'
<1>1. /\ state' = "Failed" /\ pending_dial' = 0 /\ ~backoff_timer' /\ backoff_timer' \in BOOLEAN
      /\ attempt' = attempt /\ replay_hold' = <<>>
  BY DEF FailAll, DrainAll
<1> QED BY <1>1 DEF LifecycleInv, ReconnectDriven, States

\* ScheduleReconnect keeps the invariant when it may hold calls: the client
\* was Ready, or the hold does not change.
LEMMA ScheduleReconnectLifecycle ==
    ASSUME ScheduleReconnect, LifecycleInv,
           UNCHANGED <<stopping, next_dial_token>>,
           replay_hold' = replay_hold \/ state # "Connecting"
    PROVE  LifecycleInv'
<1>1. attempt + 1 \in 0..MaxReconnectAttempts
  BY LimitsAssumption DEF ScheduleReconnect, BudgetExhausted, LifecycleInv
<1>2. /\ backoff_timer' /\ backoff_timer' \in BOOLEAN /\ pending_dial' = 0 /\ attempt' = attempt + 1
      /\ state' = IF state = "Connecting" THEN "Connecting" ELSE "Interrupted"
  BY DEF ScheduleReconnect
<1> QED BY <1>1, <1>2 DEF LifecycleInv, ReconnectDriven, States

LEMMA LifecycleStep ==
    ASSUME LifecycleInv, [Next]_vars
    PROVE  LifecycleInv'
<1>1. CASE Start
  <2>1. /\ state' = "Connecting" /\ state = "Idle"
        /\ next_dial_token' = next_dial_token + 1
        /\ pending_dial' = next_dial_token + 1
        /\ UNCHANGED <<stopping, attempt, backoff_timer, replay_hold>>
    BY <1>1 DEF Start, MintDial, work
  <2> QED BY <2>1 DEF LifecycleInv, ReconnectDriven, States
<1>2. CASE Stop
  <2>1. /\ state' = "Stopped" /\ stopping' \in BOOLEAN /\ pending_dial' = 0
        /\ ~backoff_timer' /\ backoff_timer' \in BOOLEAN /\ replay_hold' = <<>>
        /\ UNCHANGED <<attempt, next_dial_token>>
    BY <1>2 DEF Stop, DrainAll
  <2> QED BY <2>1 DEF LifecycleInv, ReconnectDriven, States
<1>3. CASE DialOutcome
  <2>1. ASSUME NEW token \in Tokens, NEW i \in Incarnations,
               Connected(token, i)
        PROVE  LifecycleInv'
    <3>1. /\ state' = "Ready" /\ pending_dial' = 0 /\ ~backoff_timer' /\ backoff_timer' \in BOOLEAN
          /\ attempt' = 0 /\ replay_hold' = <<>>
          /\ UNCHANGED <<stopping, next_dial_token>>
      BY <2>1 DEF Connected, FlushReady
    <3> QED BY <3>1, LimitsAssumption DEF LifecycleInv, ReconnectDriven, States
  <2>2. ASSUME NEW token \in Tokens, DialFailed(token)
        PROVE  LifecycleInv'
    <3>1. UNCHANGED <<stopping, next_dial_token>>
      BY <2>2 DEF DialFailed
    <3>2. CASE FailAll(ledger, outcome)
      BY <3>1, <3>2, FailAllLifecycle
    <3>3. CASE ScheduleReconnect /\ replay_hold' = replay_hold
      BY <3>1, <3>3, ScheduleReconnectLifecycle
    <3> QED BY <2>2, <3>2, <3>3 DEF DialFailed, work
  <2>3. ASSUME NEW token \in Tokens, GateRefused(token)
        PROVE  LifecycleInv'
    BY <2>3, FailAllLifecycle DEF GateRefused
  <2> QED BY <1>3, <2>1, <2>2, <2>3 DEF DialOutcome
<1>4. CASE BackoffFires
  <2>1. /\ backoff_timer /\ ~backoff_timer' /\ backoff_timer' \in BOOLEAN
        /\ next_dial_token' = next_dial_token + 1
        /\ pending_dial' = next_dial_token + 1
        /\ UNCHANGED <<state, stopping, attempt, replay_hold>>
    BY <1>4 DEF BackoffFires, MintDial, work
  <2> QED BY <2>1 DEF LifecycleInv, ReconnectDriven, States
<1>5. ASSUME NEW g \in 0..generation, Interrupted(g)
      PROVE  LifecycleInv'
  <2>1. state = "Ready" /\ UNCHANGED <<stopping, next_dial_token>>
    BY <1>5 DEF Interrupted
  <2>2. ASSUME NEW L, NEW out, FailAll(L, out)
        PROVE  LifecycleInv'
    BY <2>1, <2>2, FailAllLifecycle
  <2>3. CASE ScheduleReconnect
    BY <2>1, <2>3, ScheduleReconnectLifecycle
  <2> QED BY <1>5, <2>2, <2>3 DEF Interrupted
<1>6. CASE Dispatch
  <2>1. CASE DispatchRefused \/ \E shape \in CallShapes :
                                  DispatchQueueFull(shape)
    <3>1. UNCHANGED <<lifecycle, replay_hold>>
      BY <2>1 DEF DispatchRefused, DispatchQueueFull
    <3> QED BY <3>1 DEF lifecycle, LifecycleInv, ReconnectDriven
  <2>2. ASSUME NEW shape \in CallShapes, DispatchAdmitted(shape)
        PROVE  LifecycleInv'
    BY <2>2, FlushKeepsLifecycle DEF DispatchAdmitted
  <2> QED BY <1>6, <2>1, <2>2 DEF Dispatch
<1>7. CASE Cancel
  <2>1. ASSUME NEW c \in Calls, CancelQueued(c)
        PROVE  LifecycleInv'
    <3>1. UNCHANGED lifecycle /\ replay_hold' = Without(replay_hold, c)
      BY <2>1 DEF CancelQueued, NoFlush
    <3> QED BY <3>1, WithoutOfEmpty DEF lifecycle, LifecycleInv, ReconnectDriven
  <2>2. ASSUME NEW c \in Calls, CancelSent(c)
        PROVE  LifecycleInv'
    BY <2>2, FlushKeepsLifecycle DEF CancelSent, Bury
  <2> QED BY <1>7, <2>1, <2>2 DEF Cancel
<1>8. CASE \E f \in wire : Reply(f)
  BY <1>8, FlushKeepsLifecycle DEF Reply
<1>9. CASE \E c \in Calls : DeadlinePasses(c) \/ TimerFires(c)
  <2>1. ASSUME NEW c \in Calls, DeadlinePasses(c)
        PROVE  LifecycleInv'
    BY <2>1 DEF DeadlinePasses, lifecycle, LifecycleInv, ReconnectDriven
  <2>2. ASSUME NEW c \in Calls, SentTimesOut(c)
        PROVE  LifecycleInv'
    BY <2>2, FlushKeepsLifecycle DEF SentTimesOut, Bury
  <2>3. ASSUME NEW c \in Calls, TombstoneReclaimed(c)
        PROVE  LifecycleInv'
    <3>1. UNCHANGED <<lifecycle, replay_hold>>
      BY <2>3 DEF TombstoneReclaimed, NoFlush
    <3> QED BY <3>1 DEF lifecycle, LifecycleInv, ReconnectDriven
  <2>4. ASSUME NEW c \in Calls, QueuedTimesOut(c)
        PROVE  LifecycleInv'
    <3>1. UNCHANGED lifecycle /\ replay_hold' = Without(replay_hold, c)
      BY <2>4 DEF QueuedTimesOut, NoFlush
    <3> QED BY <3>1, WithoutOfEmpty DEF lifecycle, LifecycleInv, ReconnectDriven
  <2> QED BY <1>9, <2>1, <2>2, <2>3, <2>4 DEF TimerFires
<1>10. CASE UNCHANGED vars
  BY <1>10 DEF vars, lifecycle, work, LifecycleInv, ReconnectDriven
<1> QED BY <1>1, <1>2, <1>3, <1>4, <1>5, <1>6, <1>7, <1>8, <1>9, <1>10
        DEF Next

LEMMA LifecycleInit == Init => LifecycleInv
<1>1. Init => /\ state = "Idle" /\ stopping \in BOOLEAN /\ attempt = 0
              /\ pending_dial = 0 /\ next_dial_token = 0
              /\ ~backoff_timer /\ backoff_timer \in BOOLEAN
              /\ replay_hold = <<>>
  BY DEF Init
<1> QED BY <1>1, LimitsAssumption DEF LifecycleInv, ReconnectDriven, States

\* In every behaviour the client that is neither ready nor finished has exactly
\* one thing that moves it on, and replay-held calls exist only meanwhile.
THEOREM ReconnectIsDriven == Spec => []ReconnectDriven
<1>1. Init => LifecycleInv
  BY LifecycleInit
<1>2. LifecycleInv /\ [Next]_vars => LifecycleInv'
  BY LifecycleStep
<1>3. LifecycleInv => ReconnectDriven
  BY DEF LifecycleInv
<1> QED BY <1>1, <1>2, <1>3, PTL DEF Spec

\* What was stopped or has failed for good is never revived: no late dial outcome,
\* loss or timer finds anything to act on.
THEOREM StopIsForGood == Spec => StopIsFinal
<1> DEFINE Final == /\ state = "Stopped" => state' = "Stopped"
                    /\ state = "Failed" => state' \in {"Failed", "Stopped"}
<1>1. ASSUME LifecycleInv, [Next]_vars
      PROVE  [Final]_vars
  <2>1. CASE UNCHANGED lifecycle
    BY <2>1 DEF lifecycle
  <2>2. CASE pending_dial # 0 \/ backoff_timer
    <3>1. state \in {"Connecting", "Interrupted"}
      BY <1>1, <2>2 DEF LifecycleInv, ReconnectDriven
    <3> QED BY <3>1
  <2>3. CASE Start \/ Stop \/ \E g \in 0..generation : Interrupted(g)
    BY <2>3 DEF Start, Stop, Interrupted
  <2>4. DialOutcome \/ BackoffFires => pending_dial # 0 \/ backoff_timer
    BY DEF DialOutcome, Connected, DialFailed, GateRefused, OutstandingDial, BackoffFires
  <2>5. Dispatch \/ Cancel => UNCHANGED lifecycle
    BY DEF Dispatch, DispatchRefused, DispatchQueueFull, DispatchAdmitted, Cancel,
           CancelQueued, CancelSent
  <2>6. (\E f \in wire : Reply(f)) => UNCHANGED lifecycle
    BY DEF Reply
  <2>7. (\E c \in Calls : DeadlinePasses(c) \/ TimerFires(c)) => UNCHANGED lifecycle
    BY DEF DeadlinePasses, TimerFires, SentTimesOut, TombstoneReclaimed, QueuedTimesOut
  <2>8. UNCHANGED vars => UNCHANGED lifecycle
    BY DEF vars
  <2> QED BY <1>1, <2>1, <2>2, <2>3, <2>4, <2>5, <2>6, <2>7, <2>8 DEF Next
<1>2. Init => LifecycleInv
  BY LifecycleInit
<1>3. LifecycleInv /\ [Next]_vars => LifecycleInv'
  BY LifecycleStep
<1>4. LifecycleInv /\ [Next]_vars => [Final]_vars
  BY <1>1
<1> HIDE DEF Final
<1>5. Spec => [][Final]_vars
  BY <1>2, <1>3, <1>4, PTL DEF Spec
<1> QED BY <1>5 DEF StopIsFinal, Final

-----------------------------------------------------------------------------
(* The inductive invariant                                                 *)
(*                                                                         *)
(* A handler computes new tables and then flushes them, so every part is   *)
(* stated of any tables: a ledger L, its index idx, the calls held for     *)
(* replay and the queued ones, the tombstones T, n slots in use, the       *)
(* outcomes out; and of the frames W, the generation g, the incarnation    *)
(* inc, the next wire id w, the next call id m.                            *)

Increasing(s) == \A i, j \in DOMAIN s : i < j => s[i] < s[j]

\* The entries of dispatched calls.  Only a sent call can be a tombstone.
Rows(L, m) ==
    /\ m \in 0..MaxCalls
    /\ \A c \in DOMAIN L : /\ c \in Calls /\ c < m
                           /\ L[c] \in Entry
                           /\ L[c].cancelled => L[c].phase = "sent"
                           /\ L[c].phase = "sent" => L[c].ever_sent
                           /\ L[c].replayable => L[c].keyed /\ stable_principal

\* The unsent calls in call order, the held ones first: they will all find a slot.
Unsent(L, hold, q, n) ==
    /\ hold \in Seq(Calls) /\ Increasing(hold)
    /\ q \in Seq(Calls) /\ Increasing(q)
    /\ \A c \in Elements(hold), d \in Elements(q) : c < d
    /\ Elements(hold) \cup Elements(q) = Queued(L)
    /\ n + Len(hold) <= InFlight

Buried(L, T) ==
    /\ T \in Seq(Calls)
    /\ Distinct(T)
    /\ Elements(T) = DOMAIN L \ Live(L)

Slots(L, n) ==
    /\ n \in Nat
    /\ n = Cardinality(Sent(L) \cap Live(L))

\* The index routes exactly the sent calls, all of this connection.
Routes(L, idx, g) ==
    /\ \A x \in DOMAIN idx : /\ x \in Nat
                             /\ idx[x] \in Sent(L)
                             /\ L[idx[x]].wire_id = x
    /\ \A c \in Sent(L) : /\ L[c].wire_id \in DOMAIN idx
                          /\ idx[L[c].wire_id] = c
                          /\ L[c].generation = g

\* A dispatched call is settled or awaited, never both.
Answers(L, out, m) ==
    /\ out \in [Calls -> Outcomes]
    /\ \A c \in Calls :
         /\ (c < m /\ out[c] = "none") <=> (c \in DOMAIN L /\ ~L[c].cancelled)
         /\ c >= m => out[c] = "none"
         /\ out[c] \notin {"twice", "misrouted"}

\* Frames of one connection have distinct ids, in the order of their calls.
Frames(W, g, inc, w, m) ==
    /\ g \in Nat /\ inc \in Incarnations \cup {0} /\ w \in Nat
    /\ W \subseteq Frame
    /\ \A f \in W : /\ f.call < m /\ f.generation <= g
                    /\ f.generation = g => f.wire_id < w
                    /\ inc # 0
    /\ \A e, f \in W : e.generation = f.generation =>
         /\ e.wire_id = f.wire_id => e = f
         /\ e.wire_id < f.wire_id => e.call < f.call

\* The ledger knows what was on the wire.
History(L, W, inc) ==
    \A c \in DOMAIN L :
      /\ L[c].ever_sent <=> \E f \in W : f.call = c
      /\ \A f \in W : f.call = c => f.incarnation = inc /\ f.keyed = L[c].keyed
      /\ L[c].phase = "sent" =>
           \E f \in W : /\ f.call = c /\ f.wire_id = L[c].wire_id
                        /\ f.generation = L[c].generation

\* Only held calls were sent before; the others come after all that was sent.
Fresh(L, hold, q, W, g) ==
    /\ \A c \in Elements(hold) : L[c].ever_sent /\ L[c].replayable
    /\ \A c \in Elements(q) :
         ~L[c].ever_sent /\ \A f \in W : f.generation = g => f.call < c

\* A claim about execution is true of the frames.
Claims(out, W) ==
    \A c \in Calls : /\ out[c] \in NotExecuted => \A f \in W : f.call # c
                     /\ out[c] \in MayHaveExecuted => \E f \in W : f.call = c

Deduplicated(W) ==
    \A e, f \in W : e.call = f.call /\ e # f =>
        /\ e.keyed /\ stable_principal
        /\ e.incarnation = f.incarnation /\ e.generation # f.generation

Tables(L, idx, hold, q, T, n, out, W, g, inc, w, m) ==
    /\ Rows(L, m) /\ Unsent(L, hold, q, n) /\ Buried(L, T) /\ Slots(L, n)
    /\ Routes(L, idx, g) /\ Answers(L, out, m) /\ Frames(W, g, inc, w, m)
    /\ History(L, W, inc) /\ Fresh(L, hold, q, W, g) /\ Claims(out, W) /\ Deduplicated(W)

\* What a Ready client never leaves behind, and what the others do not have.
Settled ==
    /\ Sent(ledger) # {} => state = "Ready"
    /\ state = "Ready" => last_incarnation # 0
    /\ NoIdleSlot
    /\ stable_principal \in BOOLEAN /\ queued_count \in Nat

TablesNow == Tables(ledger, wire_index, replay_hold, queue, tombstones, in_flight_count,
                    outcome, wire, generation, last_incarnation, next_wire_id, next_call_id)

CallInv == LifecycleInv /\ Settled /\ TablesNow

-----------------------------------------------------------------------------
(* Increasing sequences of calls                                           *)

LEMMA CallsAreNat == Calls \subseteq Nat /\ IsFiniteSet(Calls)
<1>1. MaxCalls - 1 \in Int /\ 0 \in Int
  BY MaxCallsAssumption
<1>2. IsFiniteSet(0..(MaxCalls - 1))
  BY <1>1, FS_Interval
<1> QED BY <1>1, <1>2 DEF Calls

LEMMA IncreasingDistinct ==
    ASSUME NEW s \in Seq(Calls), Increasing(s)
    PROVE  Distinct(s)
<1> SUFFICES ASSUME NEW i \in DOMAIN s, NEW j \in DOMAIN s, s[i] = s[j]
             PROVE  i = j
  BY DEF Distinct
<1>1. i \in Nat /\ j \in Nat /\ s[i] \in Nat /\ s[j] \in Nat
  <2>1. s[i] \in Calls /\ s[j] \in Calls /\ i \in Nat /\ j \in Nat
    OBVIOUS
  <2> QED BY <2>1, CallsAreNat
<1>2. (i < j => s[i] < s[j]) /\ (j < i => s[j] < s[i])
  BY DEF Increasing
<1> QED BY <1>1, <1>2

LEMMA WithoutIncreases ==
    ASSUME NEW s \in Seq(Calls), Increasing(s), NEW c
    PROVE  Increasing(Without(s, c))
<1>1. CASE c \notin Elements(s)
  BY <1>1 DEF Without
<1>2. CASE c \in Elements(s)
  <2> PICK i \in 1..Len(s) : s[i] = c
    BY <1>2 DEF Elements
  <2> DEFINE t == Without(s, c)
  <2>1. /\ Len(t) = Len(s) - 1 /\ t \in Seq(Calls) /\ Len(s) \in Nat
        /\ \A k \in 1..(Len(s) - 1) : t[k] = IF k < i THEN s[k] ELSE s[k + 1]
    <3>1. Distinct(s) /\ Len(s) \in Nat
      BY IncreasingDistinct
    <3> QED BY <3>1, WithoutAt
  <2> HIDE DEF t
  <2>2. DOMAIN t = 1..(Len(s) - 1) /\ DOMAIN s = 1..Len(s) /\ i \in Nat
    BY <2>1
  <2>3. ASSUME NEW k \in DOMAIN t, NEW m \in DOMAIN t, k < m
        PROVE  t[k] < t[m]
    <3> DEFINE p(x) == IF x < i THEN x ELSE x + 1
    <3>1. p(k) \in DOMAIN s /\ p(m) \in DOMAIN s /\ p(k) < p(m)
      BY <2>2, <2>3, <2>1
    <3>2. t[k] = s[p(k)] /\ t[m] = s[p(m)]
      BY <2>1, <2>2
    <3> HIDE DEF p
    <3> QED BY <3>1, <3>2 DEF Increasing
  <2>4. Increasing(t)
    BY <2>3 DEF Increasing
  <2> QED BY <2>4 DEF t
<1> QED BY <1>1, <1>2

\* Two sequences of calls, one before the other.
LEMMA ConcatIncreases ==
    ASSUME NEW a \in Seq(Calls), NEW b \in Seq(Calls), Increasing(a), Increasing(b),
           \A c \in Elements(a), d \in Elements(b) : c < d
    PROVE  /\ a \o b \in Seq(Calls)
           /\ Len(a \o b) = Len(a) + Len(b)
           /\ Increasing(a \o b)
           /\ Elements(a \o b) = Elements(a) \cup Elements(b)
           /\ \A i \in DOMAIN (a \o b) :
                /\ i <= Len(a) => (a \o b)[i] \in Elements(a)
                /\ i > Len(a) => (a \o b)[i] \in Elements(b)
<1> DEFINE t == a \o b
<1>1. /\ t \in Seq(Calls) /\ Len(t) = Len(a) + Len(b)
      /\ \A i \in 1..(Len(a) + Len(b)) :
           t[i] = IF i <= Len(a) THEN a[i] ELSE b[i - Len(a)]
  BY ConcatProperties
<1> HIDE DEF t
<1>2. /\ Len(a) \in Nat /\ Len(b) \in Nat /\ DOMAIN a = 1..Len(a) /\ DOMAIN b = 1..Len(b)
      /\ DOMAIN t = 1..(Len(a) + Len(b))
  BY <1>1
<1>3. ASSUME NEW i \in DOMAIN t
      PROVE  /\ i <= Len(a) => i \in DOMAIN a /\ t[i] = a[i] /\ t[i] \in Elements(a)
             /\ i > Len(a) => /\ i - Len(a) \in DOMAIN b /\ t[i] = b[i - Len(a)]
                              /\ t[i] \in Elements(b)
  <2>1. CASE i <= Len(a)
    <3>1. i \in DOMAIN a /\ t[i] = a[i] /\ ~(i > Len(a))
      BY <2>1, <1>1, <1>2
    <3> QED BY <3>1 DEF Elements
  <2>2. CASE i > Len(a)
    <3>1. i - Len(a) \in DOMAIN b /\ t[i] = b[i - Len(a)] /\ ~(i <= Len(a))
      BY <2>2, <1>1, <1>2
    <3> QED BY <3>1 DEF Elements
  <2>3. i <= Len(a) \/ i > Len(a)
    BY <1>2
  <2> QED BY <2>1, <2>2, <2>3
<1>4. ASSUME NEW i \in DOMAIN t, NEW j \in DOMAIN t, i < j
      PROVE  t[i] < t[j]
  <2>0. i \in Nat /\ j \in Nat
    BY <1>2
  <2>1. CASE j <= Len(a)
    <3>1. i <= Len(a)
      BY <2>1, <1>2, <1>4
    <3> QED BY <3>1, <2>1, <1>3, <1>4 DEF Increasing
  <2>2. CASE i > Len(a)
    <3>1. j > Len(a) /\ i - Len(a) < j - Len(a)
      BY <2>0, <2>2, <1>2, <1>4
    <3> QED BY <3>1, <2>2, <1>3 DEF Increasing
  <2>3. CASE i <= Len(a) /\ j > Len(a)
    BY <2>3, <1>3
  <2> QED BY <2>0, <2>1, <2>2, <2>3, <1>2
<1>5. Elements(t) = Elements(a) \cup Elements(b)
  <2>1. Elements(t) \subseteq Elements(a) \cup Elements(b)
    <3>1. ASSUME NEW i \in DOMAIN t PROVE t[i] \in Elements(a) \cup Elements(b)
      <4>1. i <= Len(a) \/ i > Len(a)
        BY <1>2
      <4> QED BY <4>1, <1>3
    <3> QED BY <3>1 DEF Elements
  <2>2. ASSUME NEW i \in DOMAIN a PROVE a[i] \in Elements(t)
    <3>1. i \in DOMAIN t /\ t[i] = a[i]
      BY <1>1, <1>2
    <3> QED BY <3>1 DEF Elements
  <2>3. ASSUME NEW i \in DOMAIN b PROVE b[i] \in Elements(t)
    <3>1. /\ Len(a) + i \in 1..(Len(a) + Len(b)) /\ ~(Len(a) + i <= Len(a))
          /\ (Len(a) + i) - Len(a) = i
      BY <1>2
    <3>2. Len(a) + i \in DOMAIN t /\ t[Len(a) + i] = b[i]
      BY <3>1, <1>1, <1>2
    <3> QED BY <3>2 DEF Elements
  <2> QED BY <2>1, <2>2, <2>3 DEF Elements
<1>6. Increasing(t)
  BY <1>4 DEF Increasing
<1> QED BY <1>1, <1>3, <1>5, <1>6 DEF t

LEMMA AppendIncreases ==
    ASSUME NEW s \in Seq(Calls), Increasing(s), NEW c \in Calls,
           \A d \in Elements(s) : d < c
    PROVE  /\ Append(s, c) \in Seq(Calls)
           /\ Increasing(Append(s, c))
           /\ Elements(Append(s, c)) = Elements(s) \cup {c}
<1>1. /\ Append(s, c) \in Seq(Calls) /\ Len(Append(s, c)) = Len(s) + 1
      /\ \A i \in DOMAIN s : Append(s, c)[i] = s[i]
      /\ Append(s, c)[Len(s) + 1] = c
      /\ DOMAIN Append(s, c) = DOMAIN s \cup {Len(s) + 1}
      /\ \A i \in DOMAIN s : i \in Nat /\ i < Len(s) + 1
      /\ Len(s) \in Nat
  OBVIOUS
<1> DEFINE t == Append(s, c)
           z == Len(s) + 1
<1>2. /\ DOMAIN t = DOMAIN s \cup {z} /\ t[z] = c
      /\ \A i \in DOMAIN s : t[i] = s[i] /\ i \in Nat /\ i < z /\ s[i] \in Elements(s)
      /\ z \in Nat
  BY <1>1 DEF Elements
<1> HIDE DEF t, z
<1>3. Elements(t) = Elements(s) \cup {c}
  BY <1>2 DEF Elements
<1>4. Increasing(t)
  BY <1>2 DEF Increasing
<1> QED BY <1>1, <1>3, <1>4 DEF t

-----------------------------------------------------------------------------
(* What flush does                                                         *)

\* flush popped the first k calls of q: the lapsed ones settle, the others are
\* sent with ids in call order.
Flushed(L, idx, q, n, out, first, k, sent, lapsed, idOf) ==
    /\ sent = {q[i] : i \in {j \in 1..k : ~L[q[j]].expired}}
    /\ lapsed = {q[i] : i \in {j \in 1..k : L[q[j]].expired}}
    /\ IsFiniteSet(sent)
    /\ idOf \in [sent -> Nat]
    /\ \A c \in sent : first <= idOf[c] /\ idOf[c] < next_wire_id'
    /\ \A c, d \in sent : c < d => idOf[c] < idOf[d]
    /\ next_wire_id' \in Nat /\ first <= next_wire_id'
    /\ in_flight_count' = n + Cardinality(sent)
    /\ in_flight_count' \in Nat /\ in_flight_count' <= InFlight
    /\ k < Len(q) => in_flight_count' = InFlight /\ InFlight <= n + k
    /\ queued_count' \in Nat
    /\ queue' = SubSeq(q, k + 1, Len(q))
    /\ replay_hold' = <<>>
    /\ ledger' = [c \in DOMAIN L \ lapsed |->
                    IF c \in sent THEN SentEntry(L[c], idOf[c]) ELSE L[c]]
    /\ DOMAIN wire_index' = DOMAIN idx \cup {idOf[c] : c \in sent}
    /\ \A c \in sent : wire_index'[idOf[c]] = c
    /\ \A x \in DOMAIN idx : x \notin {idOf[c] : c \in sent} => wire_index'[x] = idx[x]
    /\ outcome' = [c \in DOMAIN out |->
                     IF c \in lapsed THEN IF out[c] = "none" THEN "timeout" ELSE "twice"
                     ELSE out[c]]
    /\ wire' = wire \cup
         {[call |-> c, wire_id |-> idOf[c], generation |-> generation',
           incarnation |-> last_incarnation', keyed |-> L[c].keyed] : c \in sent}

LEMMA FlushFacts ==
    ASSUME NEW L, NEW idx, NEW q \in Seq(Calls), Increasing(q), Elements(q) \subseteq DOMAIN L,
           \A c \in DOMAIN L : L[c].expired \in BOOLEAN,
           NEW n \in Nat, n <= InFlight, NEW count \in Nat, NEW bytes, NEW out,
           NEW first \in Nat,
           FlushReady(L, idx, q, n, count, bytes, out, first)
    PROVE  \E k \in 0..Len(q) : \E sent, lapsed \in SUBSET Calls : \E idOf :
             Flushed(L, idx, q, n, out, first, k, sent, lapsed, idOf)
<1> DEFINE taken(k) == {q[i] : i \in 1..k}
           lapsedOf(k) == taken(k) \cap Expired(L)
           sentOf(k) == taken(k) \ lapsedOf(k)
           rankOf(k, i) == Cardinality({j \in 1..(i - 1) : q[j] \notin lapsedOf(k)})
           ids(k) == [c \in sentOf(k) |->
                        first + rankOf(k, CHOOSE i \in 1..k : q[i] = c)]
           charged(k) == Charged(L, taken(k))
<1>1. PICK k \in 0..Len(q) :
        /\ FlushPops(L, q, n, k)
        /\ queue' = SubSeq(q, k + 1, Len(q))
        /\ ledger' = [c \in DOMAIN L \ lapsedOf(k) |->
                        IF c \in sentOf(k) THEN SentEntry(L[c], ids(k)[c]) ELSE L[c]]
        /\ wire_index' =
             [w \in DOMAIN idx \cup {ids(k)[c] : c \in sentOf(k)} |->
                IF w \in {ids(k)[c] : c \in sentOf(k)}
                THEN CHOOSE c \in sentOf(k) : ids(k)[c] = w ELSE idx[w]]
        /\ in_flight_count' = n + Cardinality(sentOf(k))
        /\ queued_count' = SatSub(count, Cardinality(charged(k)))
        /\ outcome' = Settle(out, lapsedOf(k), LAMBDA c : "timeout")
        /\ next_wire_id' = first + Cardinality(sentOf(k))
        /\ wire' = wire \cup
             {[call |-> c, wire_id |-> ids(k)[c], generation |-> generation',
               incarnation |-> last_incarnation', keyed |-> L[c].keyed] : c \in sentOf(k)}
        /\ replay_hold' = <<>>
  BY DEF FlushReady
<1> DEFINE lapsed == lapsedOf(k)
           sent == sentOf(k)
           NL(i) == {j \in 1..i : ~L[q[j]].expired}
           pos(c) == CHOOSE i \in 1..k : q[i] = c
<1>q. /\ Len(q) \in Nat /\ k \in Nat /\ k <= Len(q)
      /\ \A i \in 1..k : /\ q[i] \in Calls /\ q[i] \in DOMAIN L
                         /\ L[q[i]].expired \in BOOLEAN
      /\ \A i, j \in 1..k : i < j => q[i] < q[j]
      /\ \A i, j \in 1..k : q[i] = q[j] => i = j
  <2>1. Distinct(q) /\ \A i \in DOMAIN q : q[i] \in Calls /\ q[i] \in DOMAIN L
    BY IncreasingDistinct DEF Elements
  <2>2. Len(q) \in Nat /\ k \in Nat /\ k <= Len(q) /\ 1..k \subseteq DOMAIN q
    OBVIOUS
  <2> QED BY <2>1, <2>2 DEF Distinct, Increasing
<1>s. /\ sent = {q[i] : i \in NL(k)}
      /\ lapsed = {q[i] : i \in {j \in 1..k : L[q[j]].expired}}
      /\ sent \subseteq Calls /\ lapsed \subseteq Calls
      /\ \A i \in 1..k : q[i] \notin lapsed <=> ~L[q[i]].expired
  <2>1. \A i \in 1..k : q[i] \in Expired(L) <=> L[q[i]].expired
    BY <1>q DEF Expired
  <2> QED BY <1>q, <2>1
<1>p. ASSUME NEW i \in 1..k PROVE pos(q[i]) = i
  BY <1>q
<1> HIDE DEF pos
<1>f. /\ IsFiniteSet(NL(k)) /\ IsFiniteSet(sent)
      /\ Cardinality(sent) = Cardinality(NL(k))
      /\ Cardinality(NL(k)) \in Nat
  <2> DEFINE f == [i \in NL(k) |-> q[i]]
  <2>1. IsFiniteSet(1..k) /\ NL(k) \in SUBSET (1..k)
    BY <1>q, FS_Interval
  <2>2. IsFiniteSet(NL(k)) /\ Cardinality(NL(k)) \in Nat
    BY <2>1, FS_Subset, FS_CardinalityType
  <2>3. /\ f \in [NL(k) -> sent]
        /\ \A a, b \in NL(k) : f[a] = f[b] => a = b
        /\ \A c \in sent : \E a \in NL(k) : f[a] = c
    BY <2>1, <1>q, <1>s
  <2>4. f \in Bijection(NL(k), sent)
    <3> HIDE DEF f, sent, NL
    <3>1. f \in Injection(NL(k), sent)
      BY <2>3 DEF Injection, IsInjective
    <3>2. f \in Surjection(NL(k), sent)
      BY <2>3 DEF Surjection
    <3> QED BY <3>1, <3>2 DEF Bijection
  <2>5. ExistsBijection(NL(k), sent)
    BY <2>4 DEF ExistsBijection
  <2> QED BY <2>2, <2>5, FS_Bijection
<1>r. ASSUME NEW i \in NL(k)
      PROVE  /\ i \in 1..k /\ i \in Nat
             /\ IsFiniteSet(NL(i - 1)) /\ rankOf(k, i) = Cardinality(NL(i - 1))
             /\ rankOf(k, i) \in Nat
             /\ Cardinality(NL(i - 1) \cup {i}) = rankOf(k, i) + 1
  <2>1. i \in 1..k /\ i \in Nat /\ 1..(i - 1) \subseteq 1..k /\ i \notin 1..(i - 1)
        /\ i - 1 \in Int
    BY <1>q
  <2>2. {j \in 1..(i - 1) : q[j] \notin lapsed} = NL(i - 1)
    BY <2>1, <1>s
  <2>3. IsFiniteSet(1..(i - 1)) /\ NL(i - 1) \in SUBSET (1..(i - 1))
    <3>1. IsFiniteSet(1..(i - 1))
      BY <2>1, FS_Interval
    <3> QED BY <3>1
  <2>4. IsFiniteSet(NL(i - 1)) /\ Cardinality(NL(i - 1)) \in Nat
    BY <2>3, FS_Subset, FS_CardinalityType
  <2>5. Cardinality(NL(i - 1) \cup {i}) = Cardinality(NL(i - 1)) + 1
    <3>1. i \notin NL(i - 1)
      BY <2>1
    <3> HIDE DEF NL
    <3> QED BY <3>1, <2>4, FS_AddElement
  <2> HIDE DEF NL, lapsed
  <2> QED BY <2>1, <2>2, <2>4, <2>5 DEF lapsed
<1>m. ASSUME NEW i \in NL(k), NEW j \in NL(k), i < j
      PROVE  rankOf(k, i) < rankOf(k, j)
  <2>1. NL(i - 1) \cup {i} \in SUBSET NL(j - 1)
    BY <1>q, <1>m
  <2>2. Cardinality(NL(i - 1) \cup {i}) <= Cardinality(NL(j - 1))
    <3> HIDE DEF NL
    <3> QED BY <2>1, <1>r, FS_Subset
  <2>3. /\ Cardinality(NL(i - 1) \cup {i}) = rankOf(k, i) + 1
        /\ rankOf(k, i) \in Nat /\ rankOf(k, j) = Cardinality(NL(j - 1))
        /\ rankOf(k, j) \in Nat
    BY <1>r
  <2> HIDE DEF NL, rankOf
  <2> QED BY <2>2, <2>3
<1>n. ASSUME NEW i \in NL(k)
      PROVE  rankOf(k, i) < Cardinality(sent)
  <2>1. NL(i - 1) \cup {i} \in SUBSET NL(k)
    BY <1>q, <1>n
  <2>2. Cardinality(NL(i - 1) \cup {i}) <= Cardinality(NL(k))
    <3> HIDE DEF NL
    <3> QED BY <2>1, <1>f, FS_Subset
  <2>3. /\ Cardinality(NL(i - 1) \cup {i}) = rankOf(k, i) + 1
        /\ rankOf(k, i) \in Nat
    BY <1>r
  <2>4. Cardinality(NL(k)) = Cardinality(sent) /\ Cardinality(NL(k)) \in Nat
    BY <1>f
  <2> HIDE DEF NL, rankOf, sent
  <2> QED BY <2>2, <2>3, <2>4
<1> DEFINE idOf == ids(k)
<1>i. /\ idOf \in [sent -> Nat]
      /\ \A i \in NL(k) : q[i] \in sent /\ idOf[q[i]] = first + rankOf(k, i)
  <2>1. ASSUME NEW i \in NL(k) PROVE q[i] \in sent /\ idOf[q[i]] = first + rankOf(k, i)
    <3>1. q[i] \in sent /\ i \in 1..k
      BY <1>s
    <3>2. idOf[q[i]] = first + rankOf(k, pos(q[i]))
      BY <3>1 DEF pos
    <3> HIDE DEF rankOf, idOf, sent, NL
    <3> QED BY <3>1, <3>2, <1>p
  <2>2. ASSUME NEW c \in sent PROVE idOf[c] \in Nat
    <3>1. PICK i \in NL(k) : q[i] = c
      BY <1>s
    <3>2. rankOf(k, i) \in Nat
      BY <1>r
    <3>3. idOf[c] = first + rankOf(k, i)
      BY <3>1, <2>1
    <3> HIDE DEF rankOf, idOf
    <3> QED BY <3>2, <3>3
  <2>3. idOf = [c \in sent |-> idOf[c]]
    OBVIOUS
  <2> HIDE DEF idOf, sent, rankOf, NL
  <2> QED BY <2>1, <2>2, <2>3
<1>o. /\ \A c, d \in sent : c < d => idOf[c] < idOf[d]
      /\ \A c \in sent : first <= idOf[c] /\ idOf[c] < first + Cardinality(sent)
      /\ \A c, d \in sent : idOf[c] = idOf[d] => c = d
  <2>1. ASSUME NEW c \in sent, NEW d \in sent
        PROVE  /\ c < d => idOf[c] < idOf[d]
               /\ idOf[c] = idOf[d] => c = d
               /\ first <= idOf[c] /\ idOf[c] < first + Cardinality(sent)
    <3>1. PICK i \in NL(k) : q[i] = c
      BY <1>s
    <3>2. PICK j \in NL(k) : q[j] = d
      BY <1>s
    <3>3. /\ idOf[c] = first + rankOf(k, i) /\ idOf[d] = first + rankOf(k, j)
          /\ rankOf(k, i) \in Nat /\ rankOf(k, j) \in Nat
          /\ i \in 1..k /\ j \in 1..k
      BY <3>1, <3>2, <1>i, <1>r
    <3>4. rankOf(k, i) < Cardinality(sent) /\ Cardinality(sent) \in Nat
      BY <1>n, <1>f
    <3>5. i < j => rankOf(k, i) < rankOf(k, j)
      BY <1>m
    <3>6. j < i => rankOf(k, j) < rankOf(k, i)
      BY <1>m
    <3>7. (i < j => c < d) /\ (j < i => d < c) /\ (i = j => c = d) /\ c \in Nat /\ d \in Nat
      BY <3>1, <3>2, <3>3, <1>q, CallsAreNat
    <3> HIDE DEF rankOf, idOf, sent, NL
    <3> QED BY <3>3, <3>4, <3>5, <3>6, <3>7, <1>q
  <2> HIDE DEF idOf, sent
  <2> QED BY <2>1
<1>t. /\ in_flight_count' = n + Cardinality(sent) /\ in_flight_count' \in Nat
      /\ in_flight_count' <= InFlight
      /\ k < Len(q) => in_flight_count' = InFlight /\ InFlight <= n + k
  <2>1. /\ \A j \in 1..k : n + Cardinality(NL(j - 1)) < InFlight
        /\ k = Len(q) \/ n + Cardinality(NL(k)) >= InFlight
    BY <1>1 DEF FlushPops
  <2>2. in_flight_count' = n + Cardinality(sent)
    BY <1>1
  <2>3. n + Cardinality(NL(k)) <= InFlight
    <3>1. CASE k = 0
      <4>1. NL(k) = {}
        BY <3>1
      <4>2. Cardinality(NL(k)) = 0
        BY <4>1, FS_EmptySet
      <4> HIDE DEF NL
      <4> QED BY <4>2, LimitsAssumption
    <3>2. CASE k # 0
      <4>1. k \in 1..k /\ NL(k) \in SUBSET (NL(k - 1) \cup {k})
        BY <3>2, <1>q
      <4>2. n + Cardinality(NL(k - 1)) < InFlight
        BY <2>1, <4>1
      <4>3. IsFiniteSet(1..(k - 1)) /\ NL(k - 1) \in SUBSET (1..(k - 1)) /\ k \notin NL(k - 1)
        <5>1. IsFiniteSet(1..(k - 1))
          BY <1>q, FS_Interval
        <5>2. k \notin 1..(k - 1)
          BY <1>q
        <5> QED BY <5>1, <5>2
      <4> HIDE DEF NL
      <4>4. IsFiniteSet(NL(k - 1)) /\ Cardinality(NL(k - 1)) \in Nat
        BY <4>3, FS_Subset, FS_CardinalityType
      <4>5. /\ IsFiniteSet(NL(k - 1) \cup {k})
            /\ Cardinality(NL(k - 1) \cup {k}) = Cardinality(NL(k - 1)) + 1
        BY <4>3, <4>4, FS_AddElement
      <4>6. Cardinality(NL(k)) <= Cardinality(NL(k - 1) \cup {k})
        BY <4>1, <4>5, FS_Subset
      <4> QED BY <4>2, <4>4, <4>5, <4>6, <1>f, LimitsAssumption
    <3> QED BY <3>1, <3>2
  <2>4. Cardinality(NL(k)) <= k
    <3>1. IsFiniteSet(1..k) /\ Cardinality(1..k) = k /\ NL(k) \in SUBSET (1..k)
      <4>1. IsFiniteSet(1..k) /\ Cardinality(1..k) = k
        BY <1>q, FS_Interval
      <4> QED BY <4>1
    <3> HIDE DEF NL
    <3>2. Cardinality(NL(k)) <= Cardinality(1..k)
      BY <3>1, FS_Subset
    <3> QED BY <3>1, <3>2
  <2>5. Cardinality(sent) = Cardinality(NL(k)) /\ Cardinality(NL(k)) \in Nat
    BY <1>f
  <2> HIDE DEF NL, sent
  <2>6. k = Len(q) \/ n + Cardinality(NL(k)) >= InFlight
    BY <2>1
  <2>7. n \in Nat /\ k \in Nat /\ Len(q) \in Nat /\ InFlight \in Nat
    BY <1>q, LimitsAssumption
  <2> QED BY <2>2, <2>3, <2>4, <2>5, <2>6, <2>7
<1>c. queued_count' \in Nat
  <2>1. IsFiniteSet(Calls) /\ charged(k) \in SUBSET Calls
    BY <1>q, CallsAreNat DEF Charged
  <2>2. Cardinality(charged(k)) \in Nat
    <3> HIDE DEF charged
    <3> QED BY <2>1, FS_Subset, FS_CardinalityType
  <2>3. queued_count' = SatSub(count, Cardinality(charged(k)))
    BY <1>1
  <2> HIDE DEF charged
  <2> QED BY <2>2, <2>3 DEF SatSub
<1>d. /\ next_wire_id' = first + Cardinality(sent) /\ next_wire_id' \in Nat
      /\ first <= next_wire_id'
  <2>1. Cardinality(sent) \in Nat /\ next_wire_id' = first + Cardinality(sent)
    BY <1>1, <1>f
  <2> HIDE DEF sent
  <2> QED BY <2>1
<1>w. /\ DOMAIN wire_index' = DOMAIN idx \cup {idOf[c] : c \in sent}
      /\ \A c \in sent : wire_index'[idOf[c]] = c
      /\ \A x \in DOMAIN idx : x \notin {idOf[c] : c \in sent} => wire_index'[x] = idx[x]
  <2> HIDE DEF idOf, sent
  <2>1. wire_index' =
          [w \in DOMAIN idx \cup {idOf[c] : c \in sent} |->
             IF w \in {idOf[c] : c \in sent}
             THEN CHOOSE c \in sent : idOf[c] = w ELSE idx[w]]
    BY <1>1 DEF idOf, sent
  <2>2. ASSUME NEW c \in sent PROVE wire_index'[idOf[c]] = c
    <3>1. idOf[c] \in {idOf[d] : d \in sent}
      OBVIOUS
    <3>2. wire_index'[idOf[c]] = CHOOSE d \in sent : idOf[d] = idOf[c]
      BY <2>1, <3>1
    <3>3. (CHOOSE d \in sent : idOf[d] = idOf[c]) = c
      BY <1>o
    <3> QED BY <3>2, <3>3
  <2> QED BY <2>1, <2>2
<1>l. ledger' = [c \in DOMAIN L \ lapsed |->
                   IF c \in sent THEN SentEntry(L[c], idOf[c]) ELSE L[c]]
  BY <1>1
<1>u. outcome' = [c \in DOMAIN out |->
                    IF c \in lapsed THEN IF out[c] = "none" THEN "timeout" ELSE "twice"
                    ELSE out[c]]
  BY <1>1 DEF Settle
<1>v. wire' = wire \cup
        {[call |-> c, wire_id |-> idOf[c], generation |-> generation',
          incarnation |-> last_incarnation', keyed |-> L[c].keyed] : c \in sent}
  BY <1>1
<1>x. queue' = SubSeq(q, k + 1, Len(q)) /\ replay_hold' = <<>>
  BY <1>1
<1> HIDE DEF idOf, sent, lapsed
<1>y. Flushed(L, idx, q, n, out, first, k, sent, lapsed, idOf)
  <2>1. \A c \in sent : first <= idOf[c] /\ idOf[c] < next_wire_id'
    BY <1>o, <1>d
  <2>2. IsFiniteSet(sent)
    BY <1>f
  <2> QED BY <2>1, <2>2, <1>s, <1>i, <1>o, <1>t, <1>c, <1>d, <1>w, <1>l, <1>u, <1>v, <1>x DEF Flushed
<1> QED BY <1>y, <1>s

\* The tables flush leaves are as good as those it was given.  Calls held for
\* replay go out on a connection that has carried no frame.
LEMMA FlushTables ==
    ASSUME NEW L, NEW idx, NEW hold, NEW q, NEW n, NEW count \in Nat, NEW bytes, NEW out,
           NEW first,
           Tables(L, idx, hold, q, tombstones', n, out, wire, generation',
                  last_incarnation', first, next_call_id'),
           FlushReady(L, idx, hold \o q, n, count, bytes, out, first),
           hold # <<>> => \A f \in wire : f.generation < generation',
           last_incarnation' # 0
    PROVE  /\ Tables(ledger', wire_index', <<>>, queue', tombstones', in_flight_count',
                     outcome', wire', generation', last_incarnation', next_wire_id',
                     next_call_id')
           /\ replay_hold' = <<>> /\ queued_count' \in Nat
           /\ queue' # <<>> => in_flight_count' = InFlight
<1> DEFINE u == hold \o q
           g == generation'
           inc == last_incarnation'
           m == next_call_id'
<1>r. Rows(L, m) /\ Unsent(L, hold, q, n) /\ Buried(L, tombstones') /\ Slots(L, n)
  BY DEF Tables
<1>a. /\ Routes(L, idx, g) /\ Answers(L, out, m) /\ Frames(wire, g, inc, first, m)
      /\ History(L, wire, inc) /\ Fresh(L, hold, q, wire, g) /\ Claims(out, wire)
      /\ Deduplicated(wire)
  BY DEF Tables
<1>u. /\ u \in Seq(Calls) /\ Len(u) = Len(hold) + Len(q) /\ Increasing(u)
      /\ Elements(u) = Queued(L)
      /\ \A i \in DOMAIN u : i > Len(hold) => u[i] \in Elements(q)
      /\ Len(hold) \in Nat /\ Len(q) \in Nat /\ DOMAIN u = 1..Len(u) /\ Len(u) \in Nat
  <2>1. /\ hold \in Seq(Calls) /\ q \in Seq(Calls) /\ Increasing(hold) /\ Increasing(q)
        /\ \A c \in Elements(hold), d \in Elements(q) : c < d
        /\ Elements(hold) \cup Elements(q) = Queued(L)
    BY <1>r DEF Unsent
  <2>2. Len(hold) \in Nat /\ Len(q) \in Nat
    BY <2>1
  <2>3. /\ u \in Seq(Calls) /\ Len(u) = Len(hold) + Len(q) /\ Increasing(u)
        /\ Elements(u) = Elements(hold) \cup Elements(q)
        /\ \A i \in DOMAIN u : i > Len(hold) => u[i] \in Elements(q)
    BY <2>1, ConcatIncreases
  <2> HIDE DEF u
  <2>4. DOMAIN u = 1..Len(u) /\ Len(u) \in Nat
    BY <2>3
  <2> QED BY <2>1, <2>2, <2>3, <2>4
<1>n. n \in Nat /\ first \in Nat /\ n <= InFlight /\ n + Len(hold) <= InFlight
  BY <1>r, <1>a, <1>u, LimitsAssumption DEF Slots, Frames, Unsent
<1>e. \A c \in DOMAIN L :
        /\ c \in Calls /\ c \in Nat /\ c < m /\ L[c] \in Entry
        /\ L[c].expired \in BOOLEAN /\ L[c].phase \in {"queued", "sent"}
        /\ L[c].cancelled \in BOOLEAN /\ L[c].wire_id \in Nat
        /\ L[c].cancelled => L[c].phase = "sent"
        /\ L[c].phase = "sent" => L[c].ever_sent
        /\ L[c].replayable => L[c].keyed /\ stable_principal
  BY <1>r, CallsAreNat DEF Rows, Entry
<1>q. \A c \in Queued(L) : c \in DOMAIN L /\ L[c].phase = "queued" /\ ~L[c].cancelled
                           /\ c \notin Sent(L)
  BY <1>e DEF Queued, Sent
<1>k. PICK k \in 0..Len(u), sent \in SUBSET Calls, lapsed \in SUBSET Calls :
        \E idOf : Flushed(L, idx, u, n, out, first, k, sent, lapsed, idOf)
  <2>1. Elements(u) \subseteq DOMAIN L
    BY <1>u DEF Queued
  <2>2. FlushReady(L, idx, u, n, count, bytes, out, first)
    OBVIOUS
  <2> HIDE DEF u
  <2> QED BY <2>1, <2>2, <1>u, <1>n, <1>e, FlushFacts
<1>i. PICK idOf : Flushed(L, idx, u, n, out, first, k, sent, lapsed, idOf)
  BY <1>k
<1> HIDE DEF u, g, inc, m
<1>1. /\ sent = {u[i] : i \in {j \in 1..k : ~L[u[j]].expired}}
      /\ lapsed = {u[i] : i \in {j \in 1..k : L[u[j]].expired}}
      /\ IsFiniteSet(sent)
      /\ k \in Nat /\ k <= Len(u)
  BY <1>i, <1>u DEF Flushed
<1>2. /\ idOf \in [sent -> Nat]
      /\ \A c \in sent : first <= idOf[c] /\ idOf[c] < next_wire_id'
      /\ \A c, d \in sent : c < d => idOf[c] < idOf[d]
      /\ next_wire_id' \in Nat /\ first <= next_wire_id'
  BY <1>i DEF Flushed
<1>3. /\ in_flight_count' = n + Cardinality(sent)
      /\ in_flight_count' \in Nat /\ in_flight_count' <= InFlight
      /\ k < Len(u) => in_flight_count' = InFlight /\ InFlight <= n + k
      /\ queued_count' \in Nat
      /\ queue' = SubSeq(u, k + 1, Len(u))
      /\ replay_hold' = <<>>
  BY <1>i DEF Flushed
<1>4. /\ DOMAIN ledger' = DOMAIN L \ lapsed
      /\ \A c \in DOMAIN ledger' :
           ledger'[c] = IF c \in sent THEN SentEntry(L[c], idOf[c]) ELSE L[c]
  <2>1. ledger' = [c \in DOMAIN L \ lapsed |->
                     IF c \in sent THEN SentEntry(L[c], idOf[c]) ELSE L[c]]
    BY <1>i DEF Flushed
  <2> QED BY <2>1
<1>5. /\ DOMAIN wire_index' = DOMAIN idx \cup {idOf[c] : c \in sent}
      /\ \A c \in sent : wire_index'[idOf[c]] = c
      /\ \A x \in DOMAIN idx : x \notin {idOf[c] : c \in sent} => wire_index'[x] = idx[x]
  BY <1>i DEF Flushed
<1>6. outcome' = [c \in DOMAIN out |->
                    IF c \in lapsed THEN IF out[c] = "none" THEN "timeout" ELSE "twice"
                    ELSE out[c]]
  BY <1>i DEF Flushed
<1>7. wire' = wire \cup
        {[call |-> c, wire_id |-> idOf[c], generation |-> g,
          incarnation |-> inc, keyed |-> L[c].keyed] : c \in sent}
  BY <1>i DEF Flushed, g, inc
<1> DEFINE frame(c) == [call |-> c, wire_id |-> idOf[c], generation |-> g,
                        incarnation |-> inc, keyed |-> L[c].keyed]
<1>8. /\ \A c \in sent : frame(c) \in wire'
      /\ \A f \in wire : f \in wire'
      /\ \A f \in wire' : f \in wire \/ \E c \in sent : f = frame(c)
      /\ \A c \in sent : /\ frame(c).call = c /\ frame(c).wire_id = idOf[c]
                         /\ frame(c).generation = g /\ frame(c).incarnation = inc
                         /\ frame(c).keyed = L[c].keyed
  BY <1>7
<1> HIDE DEF frame
<1>9. /\ sent \subseteq Queued(L) /\ lapsed \subseteq Queued(L) /\ sent \cap lapsed = {}
      /\ \A i \in DOMAIN u : i <= k => u[i] \in sent \cup lapsed
      /\ \A i \in DOMAIN u : i > k => u[i] \notin sent \cup lapsed
      /\ \A c \in sent : \A i \in DOMAIN u : i > k => c < u[i]
  <2>1. Distinct(u)
    BY <1>u, IncreasingDistinct
  <2>2. /\ 1..k \subseteq DOMAIN u
        /\ \A i, j \in DOMAIN u : u[i] = u[j] => i = j
        /\ \A i, j \in DOMAIN u : i < j => u[i] < u[j]
        /\ \A i \in DOMAIN u : u[i] \in Queued(L) /\ u[i] \in DOMAIN L
                               /\ (i <= k <=> i \in 1..k) /\ (i > k <=> i \notin 1..k)
                               /\ \A j \in 1..k : i > k => j < i
    BY <2>1, <1>1, <1>u DEF Distinct, Increasing, Elements, Queued
  <2> QED BY <2>2, <1>1, <1>e
<1>10. /\ \A c \in sent : /\ c \in DOMAIN L /\ c \in DOMAIN ledger' /\ c \in Calls /\ c \in Nat
                          /\ ledger'[c] = SentEntry(L[c], idOf[c])
       /\ \A c \in DOMAIN ledger' : c \in DOMAIN L /\ c \notin lapsed
                                    /\ (c \notin sent => ledger'[c] = L[c])
       /\ \A c \in DOMAIN L : c \notin lapsed => c \in DOMAIN ledger'
       /\ \A c \in lapsed : c \in DOMAIN L /\ c \in Calls
  BY <1>4, <1>9, <1>q, <1>e
<1>11. \A c \in sent :
         /\ SentEntry(L[c], idOf[c]) \in Entry
         /\ SentEntry(L[c], idOf[c]).phase = "sent"
         /\ SentEntry(L[c], idOf[c]).wire_id = idOf[c]
         /\ SentEntry(L[c], idOf[c]).generation = g
         /\ SentEntry(L[c], idOf[c]).ever_sent
         /\ ~SentEntry(L[c], idOf[c]).cancelled
         /\ SentEntry(L[c], idOf[c]).keyed = L[c].keyed
         /\ SentEntry(L[c], idOf[c]).replayable = L[c].replayable
  <2> SUFFICES ASSUME NEW c \in sent
               PROVE  /\ SentEntry(L[c], idOf[c]) \in Entry
                      /\ SentEntry(L[c], idOf[c]).phase = "sent"
                      /\ SentEntry(L[c], idOf[c]).wire_id = idOf[c]
                      /\ SentEntry(L[c], idOf[c]).generation = g
                      /\ SentEntry(L[c], idOf[c]).ever_sent
                      /\ ~SentEntry(L[c], idOf[c]).cancelled
                      /\ SentEntry(L[c], idOf[c]).keyed = L[c].keyed
                      /\ SentEntry(L[c], idOf[c]).replayable = L[c].replayable
    OBVIOUS
  <2> DEFINE e == L[c]
             x == idOf[c]
  <2>1. e \in Entry /\ ~e.cancelled /\ x \in Nat /\ g \in Nat
    BY <1>2, <1>9, <1>q, <1>e, <1>a DEF Frames
  <2> HIDE DEF e, x
  <2>2. /\ e.holds_charge \in BOOLEAN /\ e.replayable \in BOOLEAN /\ e.keyed \in BOOLEAN
        /\ (e.holds_charge /\ e.replayable) \in BOOLEAN
    BY <2>1 DEF Entry
  <2>3. SentEntry(e, x) = [e EXCEPT !.phase = "sent", !.wire_id = x, !.generation = g,
                                    !.ever_sent = TRUE,
                                    !.holds_charge = e.holds_charge /\ e.replayable]
    BY DEF SentEntry, g
  <2>4. /\ SentEntry(e, x) \in Entry /\ SentEntry(e, x).phase = "sent"
        /\ SentEntry(e, x).wire_id = x /\ SentEntry(e, x).generation = g
        /\ SentEntry(e, x).ever_sent /\ ~SentEntry(e, x).cancelled
        /\ SentEntry(e, x).keyed = e.keyed /\ SentEntry(e, x).replayable = e.replayable
    BY <2>1, <2>2, <2>3 DEF Entry
  <2> QED BY <2>4 DEF e, x
<1>12. /\ out \in [Calls -> Outcomes]
       /\ \A c \in Queued(L) : out[c] = "none" /\ c < m
       /\ \A c \in Calls :
            /\ (c < m /\ out[c] = "none") <=> (c \in DOMAIN L /\ ~L[c].cancelled)
            /\ c >= m => out[c] = "none"
            /\ out[c] \notin {"twice", "misrouted"}
  <2>1. /\ out \in [Calls -> Outcomes]
        /\ \A c \in Calls :
            /\ (c < m /\ out[c] = "none") <=> (c \in DOMAIN L /\ ~L[c].cancelled)
            /\ c >= m => out[c] = "none"
            /\ out[c] \notin {"twice", "misrouted"}
    BY <1>a DEF Answers
  <2>2. ASSUME NEW c \in Queued(L) PROVE out[c] = "none" /\ c < m
    <3>1. c \in DOMAIN L /\ ~L[c].cancelled /\ c \in Calls
      BY <1>q, <1>e
    <3> QED BY <3>1, <2>1
  <2> QED BY <2>1, <2>2
<1>13. \A c \in DOMAIN ledger' :
         /\ c \in DOMAIN L /\ c \in Calls /\ c \in Nat /\ c < m
         /\ ledger'[c] \in Entry
         /\ ledger'[c].cancelled = L[c].cancelled
         /\ ledger'[c].keyed = L[c].keyed /\ ledger'[c].replayable = L[c].replayable
         /\ ledger'[c].phase = "sent" <=> c \in sent \/ L[c].phase = "sent"
         /\ ledger'[c].phase = "queued" <=> c \notin sent /\ L[c].phase = "queued"
         /\ ledger'[c].ever_sent <=> c \in sent \/ L[c].ever_sent
  <2> SUFFICES ASSUME NEW c \in DOMAIN ledger'
               PROVE  /\ c \in DOMAIN L /\ c \in Calls /\ c \in Nat /\ c < m
                      /\ ledger'[c] \in Entry
                      /\ ledger'[c].cancelled = L[c].cancelled
                      /\ ledger'[c].keyed = L[c].keyed
                      /\ ledger'[c].replayable = L[c].replayable
                      /\ ledger'[c].phase = "sent" <=> c \in sent \/ L[c].phase = "sent"
                      /\ ledger'[c].phase = "queued" <=> c \notin sent /\ L[c].phase = "queued"
                      /\ ledger'[c].ever_sent <=> c \in sent \/ L[c].ever_sent
    OBVIOUS
  <2>0. c \in DOMAIN L
    BY <1>10
  <2>1. /\ c \in Calls /\ c \in Nat /\ c < m /\ L[c] \in Entry
        /\ L[c].phase \in {"queued", "sent"} /\ L[c].ever_sent \in BOOLEAN
        /\ L[c].cancelled \in BOOLEAN
    BY <2>0, <1>e DEF Entry
  <2>2. CASE c \notin sent
    <3>1. ledger'[c] = L[c]
      BY <2>2, <1>10
    <3> QED BY <3>1, <2>0, <2>1, <2>2
  <2>3. CASE c \in sent
    <3>1. /\ ledger'[c] = SentEntry(L[c], idOf[c])
          /\ ~L[c].cancelled
      BY <2>3, <1>10, <1>9, <1>q
    <3>2. /\ SentEntry(L[c], idOf[c]) \in Entry
          /\ SentEntry(L[c], idOf[c]).phase = "sent"
          /\ SentEntry(L[c], idOf[c]).ever_sent
          /\ ~SentEntry(L[c], idOf[c]).cancelled
          /\ SentEntry(L[c], idOf[c]).keyed = L[c].keyed
          /\ SentEntry(L[c], idOf[c]).replayable = L[c].replayable
      BY <2>3, <1>11
    <3>3. SentEntry(L[c], idOf[c]).cancelled \in BOOLEAN
      BY <3>2 DEF Entry
    <3> HIDE DEF SentEntry
    <3> QED BY <3>1, <3>2, <3>3, <2>0, <2>1, <2>3
  <2> QED BY <2>2, <2>3
<1>14. /\ Queued(ledger') = Queued(L) \ (sent \cup lapsed)
       /\ Sent(ledger') = Sent(L) \cup sent
       /\ sent \cap Sent(L) = {}
       /\ Sent(ledger') \cap Live(ledger') = (Sent(L) \cap Live(L)) \cup sent
       /\ DOMAIN ledger' \ Live(ledger') = DOMAIN L \ Live(L)
  <2>1. Queued(ledger') = Queued(L) \ (sent \cup lapsed)
    BY <1>13, <1>10, <1>q DEF Queued
  <2>2. /\ Sent(ledger') = Sent(L) \cup sent
        /\ sent \cap Sent(L) = {}
    BY <1>13, <1>10, <1>q, <1>9 DEF Sent, Queued
  <2>3. DOMAIN ledger' \ Live(ledger') = DOMAIN L \ Live(L)
    BY <1>13, <1>10, <1>q, <1>9 DEF Live
  <2>4. Sent(ledger') \cap Live(ledger') = (Sent(L) \cap Live(L)) \cup sent
    BY <2>2, <1>13, <1>10, <1>q, <1>9 DEF Live
  <2> QED BY <2>1, <2>2, <2>3, <2>4
<1>15. Rows(ledger', m)
  <2>1. m \in 0..MaxCalls
    BY <1>r DEF Rows
  <2>2. ASSUME NEW c \in DOMAIN ledger'
        PROVE  /\ c \in Calls /\ c < m /\ ledger'[c] \in Entry
               /\ ledger'[c].cancelled => ledger'[c].phase = "sent"
               /\ ledger'[c].phase = "sent" => ledger'[c].ever_sent
               /\ ledger'[c].replayable => ledger'[c].keyed /\ stable_principal
    BY <1>13, <1>e
  <2> QED BY <2>1, <2>2 DEF Rows
<1>16. /\ queue' \in Seq(Calls) /\ Increasing(queue')
       /\ Elements(queue') = Queued(ledger')
       /\ \A c \in Elements(queue') : \E i \in DOMAIN u : i > k /\ c = u[i]
       /\ queue' # <<>> => k < Len(u)
  <2>1. /\ queue' = SubSeq(u, k + 1, Len(u)) /\ u \in Seq(Calls) /\ Len(u) \in Nat
        /\ k \in Nat /\ k <= Len(u)
    BY <1>1, <1>3, <1>u
  <2>2. /\ queue' \in Seq(Calls) /\ Len(queue') = Len(u) - k
        /\ \A i \in 1..(Len(u) - k) : queue'[i] = u[k + i]
    <3>1. k + 1 \in 1..(Len(u) + 1)
      BY <2>1
    <3>2. k + 1 \in Int /\ Len(u) \in Int
      BY <2>1
    <3>3. queue' \in Seq(Calls)
      <4>1. \A i \in (k + 1)..Len(u) : u[i] \in Calls
        BY <2>1
      <4> QED BY <4>1, <2>1, <3>2, SubSeqProperties
    <3> QED BY <3>3, <2>1, <3>1
  <2>3. DOMAIN queue' = 1..(Len(u) - k) /\ DOMAIN u = 1..Len(u)
    BY <2>1, <2>2
  <2>4. ASSUME NEW i \in DOMAIN queue'
        PROVE  k + i \in DOMAIN u /\ k + i > k /\ queue'[i] = u[k + i]
    <3>1. i \in 1..(Len(u) - k)
      BY <2>3
    <3>2. k + i \in DOMAIN u /\ k + i > k
      BY <3>1, <2>1, <2>3
    <3> QED BY <3>1, <3>2, <2>2
  <2>5. \A i \in DOMAIN u : i > k => i - k \in DOMAIN queue' /\ queue'[i - k] = u[i]
    <3> SUFFICES ASSUME NEW i \in DOMAIN u, i > k
                 PROVE  i - k \in DOMAIN queue' /\ queue'[i - k] = u[i]
      OBVIOUS
    <3>1. i - k \in 1..(Len(u) - k) /\ k + (i - k) = i
      BY <2>1, <2>3
    <3> QED BY <3>1, <2>2, <2>3
  <2>6. Increasing(queue')
    <3> SUFFICES ASSUME NEW i \in DOMAIN queue', NEW j \in DOMAIN queue', i < j
                 PROVE  queue'[i] < queue'[j]
      BY DEF Increasing
    <3>1. k + i < k + j
      BY <2>1, <2>3
    <3> QED BY <3>1, <2>4, <1>u DEF Increasing
  <2>7. Elements(queue') = {u[i] : i \in {j \in DOMAIN u : j > k}}
    BY <2>4, <2>5 DEF Elements
  <2>8. Queued(L) = {u[i] : i \in DOMAIN u}
    BY <1>u DEF Elements
  <2>9. \A i \in DOMAIN u : i <= k \/ i > k
    BY <2>1, <2>3
  <2>10. Elements(queue') = Queued(L) \ (sent \cup lapsed)
    BY <2>7, <2>8, <2>9, <1>9
  <2>11. queue' # <<>> => k < Len(u)
    <3>1. CASE k = Len(u)
      <4>1. Len(queue') = 0
        BY <3>1, <2>1, <2>2
      <4> QED BY <4>1, <2>2
    <3> QED BY <3>1, <2>1
  <2> QED BY <2>2, <2>6, <2>7, <2>10, <2>11, <1>14
<1>17. Unsent(ledger', <<>>, queue', in_flight_count')
  <2>1. Elements(<<>>) = {} /\ Increasing(<<>>) /\ <<>> \in Seq(Calls) /\ Len(<<>>) = 0
    BY DEF Elements, Increasing
  <2>2. in_flight_count' + Len(<<>>) <= InFlight
    BY <2>1, <1>3, LimitsAssumption
  <2> QED BY <2>1, <2>2, <1>16 DEF Unsent
<1>18. Buried(ledger', tombstones')
  BY <1>r, <1>14 DEF Buried
<1>19. Slots(ledger', in_flight_count')
  <2> DEFINE old == Sent(L) \cap Live(L)
  <2>1. n = Cardinality(old) /\ n \in Nat
    BY <1>r DEF Slots
  <2>2. IsFiniteSet(old)
    <3>1. old \subseteq Calls
      BY <1>e DEF Sent
    <3> QED BY <3>1, CallsAreNat, FS_Subset
  <2>3. old \cap sent = {}
    BY <1>14
  <2>4. Sent(ledger') \cap Live(ledger') = old \cup sent
    BY <1>14
  <2> HIDE DEF old
  <2>5. Cardinality(old \cup sent) = Cardinality(old) + Cardinality(sent) - Cardinality({})
    BY <2>2, <2>3, <1>1, FS_Union
  <2>6. Cardinality({}) = 0 /\ Cardinality(sent) \in Nat
    BY <1>1, FS_EmptySet, FS_CardinalityType
  <2>7. Cardinality(old \cup sent) = n + Cardinality(sent)
    BY <2>1, <2>5, <2>6
  <2> QED BY <2>4, <2>7, <1>3 DEF Slots
<1>20. \A c \in Sent(L) : /\ L[c].wire_id \in DOMAIN idx /\ L[c].wire_id \in Nat
                          /\ idx[L[c].wire_id] = c
                          /\ L[c].generation = g /\ L[c].wire_id < first
                          /\ c \in DOMAIN L /\ c \notin lapsed /\ c \notin sent
  <2> SUFFICES ASSUME NEW c \in Sent(L)
               PROVE  /\ L[c].wire_id \in DOMAIN idx /\ L[c].wire_id \in Nat
                      /\ idx[L[c].wire_id] = c
                      /\ L[c].generation = g /\ L[c].wire_id < first
                      /\ c \in DOMAIN L /\ c \notin lapsed /\ c \notin sent
    OBVIOUS
  <2>1. c \in DOMAIN L /\ L[c].phase = "sent" /\ c \notin Queued(L)
    BY DEF Sent, Queued
  <2>2. /\ L[c].wire_id \in DOMAIN idx /\ idx[L[c].wire_id] = c
        /\ L[c].generation = g
    BY <1>a DEF Routes
  <2>3. PICK f \in wire : f.wire_id = L[c].wire_id /\ f.generation = L[c].generation
    BY <1>a, <2>1 DEF History
  <2>4. f.wire_id < first
    BY <1>a, <2>2, <2>3 DEF Frames
  <2> QED BY <2>1, <2>2, <2>3, <2>4, <1>e, <1>9
<1>21. Routes(ledger', wire_index', g)
  <2>0. \A c \in sent : /\ idOf[c] \in Nat /\ idOf[c] >= first
                        /\ idOf[c] \in DOMAIN wire_index' /\ wire_index'[idOf[c]] = c
                        /\ ledger'[c].wire_id = idOf[c] /\ ledger'[c].generation = g
    <3> SUFFICES ASSUME NEW c \in sent
                 PROVE  /\ idOf[c] \in Nat /\ idOf[c] >= first
                        /\ idOf[c] \in DOMAIN wire_index' /\ wire_index'[idOf[c]] = c
                        /\ ledger'[c].wire_id = idOf[c] /\ ledger'[c].generation = g
      OBVIOUS
    <3>1. idOf[c] \in Nat /\ idOf[c] >= first
      BY <1>2, <1>n
    <3>2. idOf[c] \in DOMAIN wire_index' /\ wire_index'[idOf[c]] = c
      BY <1>5
    <3>3. /\ ledger'[c] = SentEntry(L[c], idOf[c])
          /\ SentEntry(L[c], idOf[c]).wire_id = idOf[c]
          /\ SentEntry(L[c], idOf[c]).generation = g
      BY <1>10, <1>11
    <3> QED BY <3>1, <3>2, <3>3
  <2>1. ASSUME NEW c \in Sent(ledger')
        PROVE  /\ ledger'[c].wire_id \in DOMAIN wire_index'
               /\ wire_index'[ledger'[c].wire_id] = c
               /\ ledger'[c].generation = g
    <3>1. CASE c \in sent
      BY <3>1, <2>0
    <3>2. CASE c \in Sent(L)
      <4>1. ledger'[c] = L[c]
        BY <3>2, <1>20, <1>10
      <4>2. \A d \in sent : idOf[d] # L[c].wire_id
        BY <3>2, <1>20, <2>0, <1>n
      <4>3. /\ L[c].wire_id \in DOMAIN wire_index'
            /\ wire_index'[L[c].wire_id] = idx[L[c].wire_id]
        BY <4>2, <3>2, <1>20, <1>5
      <4> QED BY <4>1, <4>3, <3>2, <1>20
    <3> QED BY <3>1, <3>2, <1>14
  <2>2. ASSUME NEW x \in DOMAIN wire_index'
        PROVE  /\ x \in Nat
               /\ wire_index'[x] \in Sent(ledger')
               /\ ledger'[wire_index'[x]].wire_id = x
    <3>1. ASSUME NEW c \in sent, x = idOf[c]
          PROVE  /\ x \in Nat
                 /\ wire_index'[x] \in Sent(ledger')
                 /\ ledger'[wire_index'[x]].wire_id = x
      BY <3>1, <2>0, <1>14
    <3>2. CASE x \in DOMAIN idx /\ x \notin {idOf[c] : c \in sent}
      <4>1. wire_index'[x] = idx[x]
        BY <3>2, <1>5
      <4>2. x \in Nat /\ idx[x] \in Sent(L) /\ L[idx[x]].wire_id = x
        BY <3>2, <1>a DEF Routes
      <4>3. ledger'[idx[x]] = L[idx[x]] /\ idx[x] \in Sent(ledger')
        BY <4>2, <1>20, <1>10, <1>14
      <4> QED BY <4>1, <4>2, <4>3
    <3> QED BY <3>1, <3>2, <1>5
  <2> QED BY <2>1, <2>2 DEF Routes
<1>22. /\ DOMAIN outcome' = Calls
       /\ \A c \in lapsed : outcome'[c] = "timeout"
       /\ \A c \in Calls : c \notin lapsed => outcome'[c] = out[c]
       /\ \A c \in lapsed : out[c] = "none"
  <2>1. DOMAIN out = Calls
    BY <1>12
  <2>2. \A c \in lapsed : out[c] = "none" /\ c \in Calls
    BY <1>9, <1>10, <1>12
  <2> QED BY <2>1, <2>2, <1>6
<1>23. Answers(ledger', outcome', m)
  <2>1. outcome' \in [Calls -> Outcomes]
    <3>1. \A c \in Calls : outcome'[c] \in Outcomes
      <4>1. "timeout" \in Outcomes
        BY DEF Outcomes
      <4> QED BY <4>1, <1>22, <1>12
    <3>2. outcome' = [c \in Calls |-> outcome'[c]]
      <4>1. DOMAIN out = Calls
        BY <1>12
      <4> QED BY <4>1, <1>6, <1>22
    <3> QED BY <3>1, <3>2
  <2>2. ASSUME NEW c \in Calls
        PROVE  /\ (c < m /\ outcome'[c] = "none") <=> (c \in DOMAIN ledger' /\ ~ledger'[c].cancelled)
               /\ c >= m => outcome'[c] = "none"
               /\ outcome'[c] \notin {"twice", "misrouted"}
    <3>1. CASE c \in lapsed
      <4>1. outcome'[c] = "timeout" /\ c \notin DOMAIN ledger' /\ c < m /\ c \in Nat
        BY <3>1, <1>22, <1>10, <1>e
      <4>2. m \in Nat
        BY <1>r, MaxCallsAssumption DEF Rows
      <4>3. ~(c >= m)
        BY <4>1, <4>2
      <4> QED BY <4>1, <4>3
    <3>2. CASE c \notin lapsed
      <4>1. outcome'[c] = out[c]
        BY <3>2, <1>22
      <4>2. c \in DOMAIN ledger' <=> c \in DOMAIN L
        BY <3>2, <1>10
      <4>3. c \in DOMAIN ledger' => ledger'[c].cancelled = L[c].cancelled
        BY <1>13
      <4> QED BY <4>1, <4>2, <4>3, <1>12
    <3> QED BY <3>1, <3>2
  <2> QED BY <2>1, <2>2 DEF Answers
<1>24. \A f \in wire : /\ f \in Frame /\ f.call \in Nat /\ f.wire_id \in Nat
                       /\ f.generation \in Nat /\ f.call < m /\ f.generation <= g
                       /\ f.generation = g => f.wire_id < first
  BY <1>a, CallsAreNat DEF Frames, Frame
<1>25. \A c \in sent : \A f \in wire : f.generation = g => f.call < c
  <2> SUFFICES ASSUME NEW c \in sent, NEW f \in wire, f.generation = g
               PROVE  f.call < c
    OBVIOUS
  <2>1. c \in Elements(hold) \cup Elements(q)
    BY <1>r, <1>9 DEF Unsent
  <2>2. CASE c \in Elements(q)
    BY <2>2, <1>a DEF Fresh
  <2>3. CASE c \in Elements(hold)
    <3>1. hold # <<>>
      BY <2>3 DEF Elements
    <3>2. f.generation < g
      BY <3>1 DEF g
    <3> QED BY <3>2, <1>24
  <2> QED BY <2>1, <2>2, <2>3
<1>26. Frames(wire', g, inc, next_wire_id', m)
  <2>1. g \in Nat /\ inc \in Incarnations \cup {0} /\ wire \subseteq Frame /\ inc # 0 /\ inc \in Nat
    BY <1>a, BoundsAssumption DEF Frames, inc
  <2>2. ASSUME NEW c \in sent
        PROVE  /\ frame(c) \in Frame /\ frame(c).call = c /\ frame(c).wire_id = idOf[c]
               /\ frame(c).generation = g /\ c < m /\ idOf[c] < next_wire_id'
               /\ idOf[c] \in Nat /\ first <= idOf[c] /\ c \in Nat
    <3>1. c \in Calls /\ idOf[c] \in Nat /\ L[c].keyed \in BOOLEAN /\ c < m /\ c \in Nat
      BY <1>2, <1>10, <1>e DEF Entry
    <3>2. frame(c) \in Frame
      BY <3>1, <2>1 DEF frame, Frame
    <3> QED BY <3>1, <3>2, <1>8, <1>2
  <2>3. wire' \subseteq Frame
    BY <2>1, <2>2, <1>8
  <2>4. ASSUME NEW f \in wire'
        PROVE  /\ f.call < m /\ f.generation <= g
               /\ f.generation = g => f.wire_id < next_wire_id'
               /\ inc # 0
    <3>1. CASE f \in wire
      BY <3>1, <1>24, <1>2, <1>n, <2>1
    <3>2. ASSUME NEW c \in sent, f = frame(c)
          PROVE  f.call < m /\ f.generation <= g /\ f.wire_id < next_wire_id'
      BY <3>2, <2>2, <2>1
    <3> QED BY <3>1, <3>2, <1>8, <2>1
  <2>5. ASSUME NEW e \in wire', NEW f \in wire', e.generation = f.generation
        PROVE  /\ e.wire_id = f.wire_id => e = f
               /\ e.wire_id < f.wire_id => e.call < f.call
    <3>1. CASE e \in wire /\ f \in wire
      BY <3>1, <2>5, <1>a DEF Frames
    <3>2. ASSUME NEW c \in sent, f = frame(c), e \in wire
          PROVE  e.wire_id < f.wire_id /\ e.call < f.call
      <4>1. e.generation = g /\ f.wire_id = idOf[c] /\ f.call = c
        BY <3>2, <2>2, <2>5
      <4>2. e.wire_id < first /\ e.call < c /\ e.wire_id \in Nat
        BY <4>1, <3>2, <1>24, <1>25
      <4> QED BY <4>1, <4>2, <2>2, <1>n
    <3>3. ASSUME NEW c \in sent, e = frame(c), f \in wire
          PROVE  f.wire_id < e.wire_id
      <4>1. f.generation = g /\ e.wire_id = idOf[c]
        BY <3>3, <2>2, <2>5
      <4>2. f.wire_id < first /\ f.wire_id \in Nat
        BY <4>1, <3>3, <1>24
      <4> QED BY <4>1, <4>2, <2>2, <1>n
    <3>4. ASSUME NEW c \in sent, NEW d \in sent, e = frame(c), f = frame(d)
          PROVE  /\ e.wire_id = f.wire_id => e = f
                 /\ e.wire_id < f.wire_id => e.call < f.call
      <4>1. /\ e.wire_id = idOf[c] /\ f.wire_id = idOf[d] /\ e.call = c /\ f.call = d
            /\ idOf[c] \in Nat /\ idOf[d] \in Nat /\ c \in Nat /\ d \in Nat
        BY <3>4, <2>2
      <4>2. (c < d => idOf[c] < idOf[d]) /\ (d < c => idOf[d] < idOf[c])
        BY <1>2
      <4>3. c < d \/ d < c \/ c = d
        BY <4>1
      <4> QED BY <4>1, <4>2, <4>3, <3>4
    <3>5. e.wire_id \in Nat /\ f.wire_id \in Nat
      BY <2>3 DEF Frame
    <3>6. (e \in wire \/ \E c \in sent : e = frame(c)) /\ (f \in wire \/ \E c \in sent : f = frame(c))
      BY <1>8
    <3>7. CASE e \in wire
      <4>1. e.wire_id < f.wire_id => ~(e.wire_id = f.wire_id)
        BY <3>5
      <4> QED BY <3>7, <3>1, <3>2, <3>6, <4>1
    <3>8. CASE \E c \in sent : e = frame(c)
      <4>1. f.wire_id < e.wire_id => ~(e.wire_id = f.wire_id) /\ ~(e.wire_id < f.wire_id)
        BY <3>5
      <4> QED BY <3>8, <3>3, <3>4, <3>6, <4>1
    <3> QED BY <3>6, <3>7, <3>8
  <2> QED BY <2>1, <2>3, <2>4, <2>5, <1>2 DEF Frames
<1>27. History(ledger', wire', inc)
  <2> SUFFICES ASSUME NEW c \in DOMAIN ledger'
               PROVE  /\ ledger'[c].ever_sent <=> \E f \in wire' : f.call = c
                      /\ \A f \in wire' : f.call = c =>
                           f.incarnation = inc /\ f.keyed = ledger'[c].keyed
                      /\ ledger'[c].phase = "sent" =>
                           \E f \in wire' : /\ f.call = c /\ f.wire_id = ledger'[c].wire_id
                                            /\ f.generation = ledger'[c].generation
    BY DEF History
  <2>1. /\ c \in DOMAIN L
        /\ ledger'[c].keyed = L[c].keyed
        /\ ledger'[c].ever_sent <=> c \in sent \/ L[c].ever_sent
        /\ ledger'[c].phase = "sent" <=> c \in sent \/ L[c].phase = "sent"
    BY <1>13
  <2>2. /\ L[c].ever_sent <=> \E f \in wire : f.call = c
        /\ \A f \in wire : f.call = c => f.incarnation = inc /\ f.keyed = L[c].keyed
        /\ L[c].phase = "sent" =>
             \E f \in wire : /\ f.call = c /\ f.wire_id = L[c].wire_id
                             /\ f.generation = L[c].generation
    BY <2>1, <1>a DEF History
  <2>3. CASE c \in sent
    <3>1. /\ frame(c) \in wire' /\ frame(c).call = c /\ frame(c).wire_id = idOf[c]
          /\ frame(c).generation = g
      BY <2>3, <1>8
    <3>2. ledger'[c].wire_id = idOf[c] /\ ledger'[c].generation = g
      BY <2>3, <1>10, <1>11
    <3>3. \A f \in wire' : f.call = c => f.incarnation = inc /\ f.keyed = L[c].keyed
      BY <2>2, <1>8
    <3> QED BY <2>1, <2>3, <3>1, <3>2, <3>3
  <2>4. CASE c \notin sent
    <3>1. ledger'[c] = L[c]
      BY <2>4, <1>10
    <3>2. \A f \in wire' : f.call = c => f \in wire
      BY <2>4, <1>8
    <3>3. \A f \in wire : f \in wire'
      BY <1>8
    <3> QED BY <2>2, <3>1, <3>2, <3>3
  <2> QED BY <2>3, <2>4
<1>28. Fresh(ledger', <<>>, queue', wire', g)
  <2>1. ASSUME NEW c \in Elements(queue')
        PROVE  ~ledger'[c].ever_sent /\ \A f \in wire' : f.generation = g => f.call < c
    <3>1. PICK i \in DOMAIN u : i > k /\ c = u[i]
      BY <1>16
    <3>2. c \in Queued(ledger') /\ c \in DOMAIN ledger'
      BY <1>16 DEF Queued
    <3>3. c \notin sent /\ c \notin lapsed
      BY <3>2, <1>14
    <3>4. i > Len(hold)
      <4>1. k < Len(u) /\ i \in Nat
        BY <3>1, <1>u, <1>1
      <4>2. InFlight <= n + k /\ n + Len(hold) <= InFlight
        BY <4>1, <1>3, <1>n
      <4> QED BY <4>1, <4>2, <3>1, <1>1, <1>n, <1>u, LimitsAssumption
    <3>5. c \in Elements(q)
      BY <3>1, <3>4, <1>u
    <3>6. ~L[c].ever_sent /\ \A f \in wire : f.generation = g => f.call < c
      BY <3>5, <1>a DEF Fresh
    <3>7. \A d \in sent : d < c
      BY <3>1, <1>9
    <3>8. \A f \in wire' : f.generation = g => f.call < c
      BY <3>6, <3>7, <1>8
    <3> QED BY <3>2, <3>3, <3>6, <3>8, <1>10
  <2>2. Elements(<<>>) = {}
    BY DEF Elements
  <2> QED BY <2>1, <2>2 DEF Fresh
<1>29. Claims(outcome', wire')
  <2> SUFFICES ASSUME NEW c \in Calls
               PROVE  /\ outcome'[c] \in NotExecuted => \A f \in wire' : f.call # c
                      /\ outcome'[c] \in MayHaveExecuted => \E f \in wire' : f.call = c
    BY DEF Claims
  <2>1. CASE c \in lapsed
    <3>1. outcome'[c] = "timeout"
      BY <2>1, <1>22
    <3> QED BY <3>1 DEF NotExecuted, MayHaveExecuted
  <2>2. CASE c \in sent
    <3>1. outcome'[c] = "none"
      BY <2>2, <1>9, <1>22, <1>12
    <3> QED BY <3>1 DEF NotExecuted, MayHaveExecuted
  <2>3. CASE c \notin lapsed /\ c \notin sent
    <3>1. outcome'[c] = out[c]
      BY <2>3, <1>22
    <3>2. /\ out[c] \in NotExecuted => \A f \in wire : f.call # c
          /\ out[c] \in MayHaveExecuted => \E f \in wire : f.call = c
      BY <1>a DEF Claims
    <3>3. \A f \in wire' : f.call = c => f \in wire
      BY <2>3, <1>8
    <3> QED BY <3>1, <3>2, <3>3, <1>8
  <2> QED BY <2>1, <2>2, <2>3
<1>30. Deduplicated(wire')
  <2>1. ASSUME NEW c \in sent, NEW e \in wire, e.call = c
        PROVE  /\ e.keyed /\ stable_principal /\ L[c].keyed
               /\ e.incarnation = inc /\ e.generation # g
    <3>1. c \in DOMAIN L /\ c \in Elements(hold) \cup Elements(q)
      BY <1>r, <1>9, <1>10 DEF Unsent
    <3>2. L[c].ever_sent /\ e.incarnation = inc /\ e.keyed = L[c].keyed
      BY <3>1, <2>1, <1>a DEF History
    <3>3. c \in Elements(hold) /\ L[c].replayable
      BY <3>1, <3>2, <1>a DEF Fresh
    <3>4. L[c].keyed /\ stable_principal
      BY <3>1, <3>3, <1>e
    <3>5. hold # <<>>
      BY <3>3 DEF Elements
    <3>6. e.generation < g
      BY <3>5 DEF g
    <3>7. e.generation # g
      BY <3>6, <1>24
    <3> QED BY <3>2, <3>4, <3>7
  <2>2. ASSUME NEW e \in wire', NEW f \in wire', e.call = f.call, e # f
        PROVE  /\ e.keyed /\ stable_principal
               /\ e.incarnation = f.incarnation /\ e.generation # f.generation
    <3>1. CASE e \in wire /\ f \in wire
      BY <3>1, <2>2, <1>a DEF Deduplicated
    <3>2. ASSUME NEW c \in sent, e = frame(c), f \in wire
          PROVE  /\ e.keyed /\ stable_principal
                 /\ e.incarnation = f.incarnation /\ e.generation # f.generation
      BY <3>2, <2>2, <2>1, <1>8
    <3>3. ASSUME NEW c \in sent, f = frame(c), e \in wire
          PROVE  /\ e.keyed /\ stable_principal
                 /\ e.incarnation = f.incarnation /\ e.generation # f.generation
      BY <3>3, <2>2, <2>1, <1>8
    <3>4. ASSUME NEW c \in sent, NEW d \in sent, e = frame(c), f = frame(d)
          PROVE  FALSE
      BY <3>4, <2>2, <1>8
    <3> QED BY <3>1, <3>2, <3>3, <3>4, <1>8
  <2> QED BY <2>2 DEF Deduplicated
<1>31. Tables(ledger', wire_index', <<>>, queue', tombstones', in_flight_count', outcome',
              wire', g, inc, next_wire_id', m)
  BY <1>15, <1>17, <1>18, <1>19, <1>21, <1>23, <1>26, <1>27, <1>28, <1>29, <1>30 DEF Tables
<1>32. queue' # <<>> => in_flight_count' = InFlight
  BY <1>16, <1>3
<1> QED BY <1>31, <1>32, <1>3 DEF g, inc, m

-----------------------------------------------------------------------------
(* From the tables a handler computes to the invariant                     *)

LEMMA TablesNext ==
    ASSUME stable_principal' = stable_principal,
           Tables(ledger', wire_index', replay_hold', queue', tombstones', in_flight_count',
                  outcome', wire', generation', last_incarnation', next_wire_id',
                  next_call_id')
    PROVE  TablesNow'
<1>1. /\ Rows(ledger', next_call_id') /\ Deduplicated(wire')
      /\ Unsent(ledger', replay_hold', queue', in_flight_count')
      /\ Buried(ledger', tombstones') /\ Slots(ledger', in_flight_count')
      /\ Routes(ledger', wire_index', generation')
      /\ Answers(ledger', outcome', next_call_id')
      /\ Frames(wire', generation', last_incarnation', next_wire_id', next_call_id')
      /\ History(ledger', wire', last_incarnation')
      /\ Fresh(ledger', replay_hold', queue', wire', generation')
      /\ Claims(outcome', wire')
  BY DEF Tables
<1>2. Rows(ledger, next_call_id)'
  BY <1>1 DEF Rows
<1>3. Deduplicated(wire)'
  BY <1>1 DEF Deduplicated
<1> QED BY <1>1, <1>2, <1>3 DEF TablesNow, Tables

\* A handler that leaves the lifecycle alone and ends with flush.
LEMMA FlushStep ==
    ASSUME CallInv, UNCHANGED lifecycle, stable_principal' = stable_principal,
           NEW L, NEW idx, NEW q, NEW n, NEW count \in Nat, NEW bytes, NEW out,
           Tables(L, idx, replay_hold, q, tombstones', n, out, wire, generation,
                  last_incarnation, next_wire_id, next_call_id'),
           Sent(L) # {} => state = "Ready",
           Flush(L, idx, q, replay_hold, n, count, bytes, out)
    PROVE  CallInv'
<1>1. LifecycleInv'
  BY FlushKeepsLifecycle DEF CallInv
<1>2. /\ state' = state /\ generation' = generation /\ last_incarnation' = last_incarnation
      /\ stable_principal \in BOOLEAN /\ (state = "Ready" => last_incarnation # 0)
  BY DEF lifecycle, CallInv, Settled
<1>3. CASE state = "Ready"
  <2>1. replay_hold = <<>>
    BY <1>3 DEF CallInv, LifecycleInv, ReconnectDriven
  <2>2. q \in Seq(Calls)
    BY DEF Tables, Unsent
  <2>3. <<>> \o q = q
    BY <2>2
  <2>4. FlushReady(L, idx, <<>> \o q, n, count, bytes, out, next_wire_id)
    BY <1>2, <1>3, <2>3 DEF Flush
  <2>5. Tables(L, idx, <<>>, q, tombstones', n, out, wire, generation', last_incarnation',
               next_wire_id, next_call_id')
    BY <1>2, <2>1
  <2>6. last_incarnation' # 0
    BY <1>2, <1>3
  <2>7. <<>> # <<>> => \A f \in wire : f.generation < generation'
    OBVIOUS
  <2>8. /\ Tables(ledger', wire_index', <<>>, queue', tombstones', in_flight_count',
                  outcome', wire', generation', last_incarnation', next_wire_id',
                  next_call_id')
        /\ replay_hold' = <<>> /\ queued_count' \in Nat
        /\ queue' # <<>> => in_flight_count' = InFlight
    BY <2>4, <2>5, <2>6, <2>7, FlushTables
  <2>9. Tables(ledger', wire_index', replay_hold', queue', tombstones', in_flight_count',
               outcome', wire', generation', last_incarnation', next_wire_id',
               next_call_id')
    BY <2>8
  <2>10. TablesNow'
    BY <2>9, TablesNext
  <2>11. Settled'
    BY <1>2, <1>3, <2>6, <2>8 DEF Settled, NoIdleSlot
  <2> QED BY <1>1, <2>10, <2>11 DEF CallInv
<1>4. CASE state # "Ready"
  <2>1. /\ ledger' = L /\ wire_index' = idx /\ queue' = q /\ replay_hold' = replay_hold
        /\ in_flight_count' = n /\ queued_count' = count /\ outcome' = out
        /\ next_wire_id' = next_wire_id /\ wire' = wire
    BY <1>2, <1>4 DEF Flush, NoFlush
  <2>2. Tables(ledger', wire_index', replay_hold', queue', tombstones', in_flight_count',
               outcome', wire', generation', last_incarnation', next_wire_id',
               next_call_id')
    BY <1>2, <2>1
  <2>3. TablesNow'
    BY <2>2, TablesNext
  <2>4. Sent(ledger') = {}
    BY <2>1, <1>4
  <2>5. Settled'
    BY <2>1, <2>4, <1>2, <1>4 DEF Settled, NoIdleSlot, Sent
  <2> QED BY <1>1, <2>3, <2>5 DEF CallInv
<1> QED BY <1>3, <1>4

\* A handler that only takes calls out of the tables, or adds none to queue.
LEMMA QuietStep ==
    ASSUME CallInv, LifecycleInv', UNCHANGED lifecycle, stable_principal' = stable_principal,
           UNCHANGED <<wire, next_wire_id>>, queued_count' \in Nat,
           Tables(ledger', wire_index', replay_hold', queue', tombstones', in_flight_count',
                  outcome', wire, generation, last_incarnation, next_wire_id,
                  next_call_id'),
           Sent(ledger') # {} => state = "Ready",
           queue' # <<>> => queue # <<>> /\ in_flight_count' = in_flight_count
    PROVE  CallInv'
<1>1. /\ state' = state /\ generation' = generation /\ last_incarnation' = last_incarnation
      /\ wire' = wire /\ next_wire_id' = next_wire_id
      /\ stable_principal \in BOOLEAN /\ (state = "Ready" => last_incarnation # 0)
      /\ (state = "Ready" /\ queue # <<>> => in_flight_count = InFlight)
  BY DEF lifecycle, CallInv, Settled, NoIdleSlot
<1>2. Tables(ledger', wire_index', replay_hold', queue', tombstones', in_flight_count',
             outcome', wire', generation', last_incarnation', next_wire_id',
             next_call_id')
  BY <1>1
<1>3. TablesNow'
  BY <1>2, TablesNext
<1>4. Settled'
  BY <1>1 DEF Settled, NoIdleSlot, Sent
<1> QED BY <1>3, <1>4 DEF CallInv

-----------------------------------------------------------------------------
(* What a handler does to the tables before it flushes                     *)

\* What a caller may be told of a call that leaves the ledger.
MayBeTold(v, e) ==
    v \in {"timeout", "dropped", "reply"} \/ (v \in MayHaveExecuted /\ e.ever_sent)

\* Take: the calls of S leave every table; those awaited are settled.
Removal(L, S, idx, hold, q, T, out, idx2, hold2, q2, T2, n2, out2) ==
    /\ S \subseteq DOMAIN L
    /\ DOMAIN idx2 = DOMAIN idx \ {L[c].wire_id : c \in S \cap Sent(L)}
    /\ \A x \in DOMAIN idx2 : idx2[x] = idx[x]
    /\ hold2 \in Seq(Calls) /\ Increasing(hold2) /\ Elements(hold2) = Elements(hold) \ S
    /\ q2 \in Seq(Calls) /\ Increasing(q2) /\ Elements(q2) = Elements(q) \ S
    /\ T2 \in Seq(Calls) /\ Distinct(T2) /\ Elements(T2) = Elements(T) \ S
    /\ n2 = Cardinality((Sent(L) \cap Live(L)) \ S)
    /\ n2 + Len(hold2) <= InFlight
    /\ out2 \in [Calls -> Outcomes]
    /\ \A c \in Calls : c \notin S \cap Live(L) => out2[c] = out[c]
    /\ \A c \in S \cap Live(L) : MayBeTold(out2[c], L[c])

LEMMA RemoveTables ==
    ASSUME NEW L, NEW idx, NEW hold, NEW q, NEW T, NEW n, NEW out, NEW W, NEW g, NEW inc,
           NEW w, NEW m, Tables(L, idx, hold, q, T, n, out, W, g, inc, w, m),
           NEW S, NEW idx2, NEW hold2, NEW q2, NEW T2, NEW n2, NEW out2,
           Removal(L, S, idx, hold, q, T, out, idx2, hold2, q2, T2, n2, out2)
    PROVE  Tables(Take(L, S), idx2, hold2, q2, T2, n2, out2, W, g, inc, w, m)
<1>r. /\ S \subseteq DOMAIN L
      /\ DOMAIN idx2 = DOMAIN idx \ {L[c].wire_id : c \in S \cap Sent(L)}
      /\ \A x \in DOMAIN idx2 : idx2[x] = idx[x]
      /\ hold2 \in Seq(Calls) /\ Increasing(hold2) /\ Elements(hold2) = Elements(hold) \ S
      /\ q2 \in Seq(Calls) /\ Increasing(q2) /\ Elements(q2) = Elements(q) \ S
      /\ T2 \in Seq(Calls) /\ Distinct(T2) /\ Elements(T2) = Elements(T) \ S
      /\ n2 = Cardinality((Sent(L) \cap Live(L)) \ S)
      /\ n2 + Len(hold2) <= InFlight
      /\ out2 \in [Calls -> Outcomes]
      /\ \A c \in Calls : c \notin S \cap Live(L) => out2[c] = out[c]
      /\ \A c \in S \cap Live(L) : MayBeTold(out2[c], L[c])
  BY DEF Removal
<1> DEFINE K == Take(L, S)
<1>a. /\ Rows(L, m) /\ Unsent(L, hold, q, n) /\ Buried(L, T) /\ Slots(L, n)
      /\ Routes(L, idx, g) /\ Answers(L, out, m) /\ Frames(W, g, inc, w, m)
      /\ History(L, W, inc) /\ Fresh(L, hold, q, W, g) /\ Claims(out, W) /\ Deduplicated(W)
  BY DEF Tables
<1>k. DOMAIN K = DOMAIN L \ S /\ \A c \in DOMAIN K : K[c] = L[c]
  BY DEF Take
<1> HIDE DEF K
<1>s. /\ Sent(K) = Sent(L) \ S /\ Queued(K) = Queued(L) \ S
      /\ DOMAIN K \ Live(K) = (DOMAIN L \ Live(L)) \ S
      /\ Sent(K) \cap Live(K) = (Sent(L) \cap Live(L)) \ S
  BY <1>k, <1>r DEF Sent, Queued, Live
<1>1. Rows(K, m)
  BY <1>a, <1>k DEF Rows
<1>2. Unsent(K, hold2, q2, n2)
  BY <1>a, <1>s, <1>r DEF Unsent
<1>3. Buried(K, T2)
  BY <1>a, <1>s, <1>r DEF Buried
<1>4. Slots(K, n2)
  <2>1. IsFiniteSet((Sent(L) \cap Live(L)) \ S)
    <3>1. (Sent(L) \cap Live(L)) \ S \in SUBSET Calls
      BY <1>a DEF Rows, Sent
    <3> QED BY <3>1, CallsAreNat, FS_Subset
  <2>2. n2 \in Nat
    BY <2>1, <1>r, FS_CardinalityType
  <2> QED BY <2>2, <1>s, <1>r DEF Slots
<1>5. Routes(K, idx2, g)
  <2>0. /\ \A x \in DOMAIN idx : /\ x \in Nat
                                 /\ idx[x] \in Sent(L)
                                 /\ L[idx[x]].wire_id = x
        /\ \A c \in Sent(L) : /\ L[c].wire_id \in DOMAIN idx
                              /\ idx[L[c].wire_id] = c
                              /\ L[c].generation = g
    BY <1>a DEF Routes
  <2>1. ASSUME NEW x \in DOMAIN idx2
        PROVE  x \in Nat /\ idx2[x] \in Sent(K) /\ K[idx2[x]].wire_id = x
    <3>1. /\ x \in DOMAIN idx /\ x \notin {L[c].wire_id : c \in S \cap Sent(L)}
          /\ idx2[x] = idx[x]
      BY <1>r
    <3>2. x \in Nat /\ idx[x] \in Sent(L) /\ L[idx[x]].wire_id = x
      BY <2>0, <3>1
    <3>3. idx[x] \notin S
      BY <3>1, <3>2
    <3>4. idx[x] \in Sent(K) /\ idx[x] \in DOMAIN K
      BY <3>2, <3>3, <1>s DEF Sent
    <3> QED BY <3>1, <3>2, <3>4, <1>k
  <2>2. ASSUME NEW c \in Sent(K)
        PROVE  K[c].wire_id \in DOMAIN idx2 /\ idx2[K[c].wire_id] = c /\ K[c].generation = g
    <3>1. c \in Sent(L) /\ c \notin S /\ K[c] = L[c]
      BY <1>s, <1>k DEF Sent
    <3>2. L[c].wire_id \in DOMAIN idx /\ idx[L[c].wire_id] = c /\ L[c].generation = g
      BY <2>0, <3>1
    <3>3. \A d \in S \cap Sent(L) : L[d].wire_id # L[c].wire_id
      BY <2>0, <3>1
    <3>4. L[c].wire_id \in DOMAIN idx2
      BY <3>2, <3>3, <1>r
    <3> QED BY <3>1, <3>2, <3>4, <1>r
  <2> QED BY <2>1, <2>2 DEF Routes
<1>6. Answers(K, out2, m)
  <2>1. ASSUME NEW c \in Calls
        PROVE  /\ (c < m /\ out2[c] = "none") <=> (c \in DOMAIN K /\ ~K[c].cancelled)
               /\ c >= m => out2[c] = "none"
               /\ out2[c] \notin {"twice", "misrouted"}
    <3>1. /\ (c < m /\ out[c] = "none") <=> (c \in DOMAIN L /\ ~L[c].cancelled)
          /\ c >= m => out[c] = "none"
          /\ out[c] \notin {"twice", "misrouted"}
      BY <1>a DEF Answers
    <3>2. CASE c \in S \cap Live(L)
      <4>1. out2[c] \notin {"none", "twice", "misrouted"}
        BY <3>2, <1>r DEF MayBeTold, MayHaveExecuted
      <4>2. c \notin DOMAIN K /\ c < m
        BY <3>2, <1>k, <1>a, <1>r DEF Rows, Live
      <4>3. c \in Nat /\ m \in Nat
        BY <1>a, CallsAreNat, MaxCallsAssumption DEF Rows
      <4>4. ~(c >= m)
        BY <4>2, <4>3
      <4> QED BY <4>1, <4>2, <4>4
    <3>3. CASE c \notin S \cap Live(L)
      <4>1. out2[c] = out[c]
        BY <3>3, <1>r
      <4>2. (c \in DOMAIN K /\ ~K[c].cancelled) <=> (c \in DOMAIN L /\ ~L[c].cancelled)
        BY <3>3, <1>k DEF Live
      <4> QED BY <4>1, <4>2, <3>1
    <3> QED BY <3>2, <3>3
  <2> QED BY <2>1, <1>r DEF Answers
<1>7. History(K, W, inc)
  BY <1>a, <1>k DEF History
<1>8. Fresh(K, hold2, q2, W, g)
  <2>1. \A c \in Elements(hold2) \cup Elements(q2) : c \in DOMAIN K /\ K[c] = L[c]
    BY <1>2, <1>k DEF Unsent, Queued
  <2> QED BY <2>1, <1>a, <1>r DEF Fresh
<1>9. Claims(out2, W)
  <2> SUFFICES ASSUME NEW c \in Calls
               PROVE  /\ out2[c] \in NotExecuted => \A f \in W : f.call # c
                      /\ out2[c] \in MayHaveExecuted => \E f \in W : f.call = c
    BY DEF Claims
  <2>1. CASE c \notin S \cap Live(L)
    BY <2>1, <1>a, <1>r DEF Claims
  <2>2. CASE c \in S \cap Live(L)
    <3>1. out2[c] \notin NotExecuted
      BY <2>2, <1>r DEF MayBeTold, NotExecuted, MayHaveExecuted
    <3>2. out2[c] \in MayHaveExecuted => L[c].ever_sent
      BY <2>2, <1>r DEF MayBeTold, MayHaveExecuted
    <3>3. c \in DOMAIN L
      BY <2>2, <1>r
    <3> QED BY <3>1, <3>2, <3>3, <1>a DEF History
  <2> QED BY <2>1, <2>2
<1>10. Tables(K, idx2, hold2, q2, T2, n2, out2, W, g, inc, w, m)
  BY <1>a, <1>1, <1>2, <1>3, <1>4, <1>5, <1>6, <1>7, <1>8, <1>9 DEF Tables
<1> QED BY <1>10 DEF K

-----------------------------------------------------------------------------
(* The handlers                                                            *)

\* The facts of a ledger entry the handlers rest on.
LEMMA EntryFacts ==
    ASSUME TablesNow, NEW c \in DOMAIN ledger
    PROVE  /\ c \in Calls /\ c \in Nat /\ c < next_call_id
           /\ ledger[c] \in Entry
           /\ ledger[c].cancelled \in BOOLEAN /\ ledger[c].expired \in BOOLEAN
           /\ (c \in Queued(ledger) \/ c \in Sent(ledger))
           /\ ~(c \in Queued(ledger) /\ c \in Sent(ledger))
           /\ c \in Queued(ledger) => ~ledger[c].cancelled
           /\ ~ledger[c].cancelled => outcome[c] = "none"
           /\ outcome \in [Calls -> Outcomes]
<1>1. Rows(ledger, next_call_id) /\ Answers(ledger, outcome, next_call_id)
  BY DEF TablesNow, Tables
<1>2. /\ c \in Calls /\ c < next_call_id /\ ledger[c] \in Entry
      /\ ledger[c].cancelled => ledger[c].phase = "sent"
  BY <1>1 DEF Rows
<1>3. /\ ledger[c].cancelled \in BOOLEAN /\ ledger[c].expired \in BOOLEAN
      /\ ledger[c].phase \in {"queued", "sent"}
  BY <1>2 DEF Entry
<1>4. ~ledger[c].cancelled => outcome[c] = "none"
  BY <1>1, <1>2 DEF Answers
<1>5. outcome \in [Calls -> Outcomes]
  BY <1>1 DEF Answers
<1> QED BY <1>2, <1>3, <1>4, <1>5, CallsAreNat DEF Queued, Sent

LEMMA SettleOne ==
    ASSUME NEW out \in [Calls -> Outcomes], NEW c \in Calls, out[c] = "none"
    PROVE  /\ \A v \in Outcomes : Settle(out, {c}, LAMBDA d : v)
                                    = [d \in Calls |-> IF d = c THEN v ELSE out[d]]
           /\ DropSender(out, c) = [d \in Calls |-> IF d = c THEN "dropped" ELSE out[d]]
<1>1. DOMAIN out = Calls
  OBVIOUS
<1>2. \A v \in Outcomes : Settle(out, {c}, LAMBDA d : v)
                            = [d \in Calls |-> IF d = c THEN v ELSE out[d]]
  BY <1>1 DEF Settle
<1>3. DropSender(out, c) = [d \in Calls |-> IF d = c THEN "dropped" ELSE out[d]]
  BY <1>1 DEF DropSender
<1> QED BY <1>2, <1>3

LEMMA SatSubIsNat ==
    ASSUME NEW a \in Nat, NEW L, NEW S \in SUBSET Calls
    PROVE  SatSub(a, Cardinality(Charged(L, S))) \in Nat
<1>1. Charged(L, S) \in SUBSET Calls
  BY DEF Charged
<1>2. Cardinality(Charged(L, S)) \in Nat
  BY <1>1, CallsAreNat, FS_Subset, FS_CardinalityType
<1> QED BY <1>2 DEF SatSub

\* CancelQueued and QueuedTimesOut.
LEMMA UnsentLeaves ==
    ASSUME CallInv, LifecycleInv', UNCHANGED lifecycle,
           UNCHANGED <<stable_principal, next_call_id, tombstones>>,
           NEW c \in Queued(ledger), NEW v \in {"timeout", "dropped"},
           NEW count \in Nat, NEW bytes,
           NoFlush(Take(ledger, {c}), wire_index, Without(queue, c), Without(replay_hold, c),
                   in_flight_count, count, bytes,
                   [d \in Calls |-> IF d = c THEN v ELSE outcome[d]])
    PROVE  CallInv'
<1> DEFINE out2 == [d \in Calls |-> IF d = c THEN v ELSE outcome[d]]
<1>1. /\ ledger' = Take(ledger, {c}) /\ wire_index' = wire_index
      /\ queue' = Without(queue, c) /\ replay_hold' = Without(replay_hold, c)
      /\ in_flight_count' = in_flight_count /\ queued_count' = count
      /\ outcome' = out2 /\ next_wire_id' = next_wire_id /\ wire' = wire
  BY DEF NoFlush
<1>2. c \in DOMAIN ledger /\ c \in Calls /\ ~ledger[c].cancelled /\ c \notin Sent(ledger)
      /\ outcome \in [Calls -> Outcomes]
  BY EntryFacts DEF CallInv, Queued
<1>3. /\ Unsent(ledger, replay_hold, queue, in_flight_count)
      /\ Buried(ledger, tombstones) /\ Slots(ledger, in_flight_count)
  BY DEF CallInv, TablesNow, Tables
<1>4. /\ replay_hold' \in Seq(Calls) /\ Increasing(replay_hold')
      /\ Elements(replay_hold') = Elements(replay_hold) \ {c}
      /\ Len(replay_hold') <= Len(replay_hold)
      /\ replay_hold \in Seq(Calls)
  <2>1. replay_hold \in Seq(Calls) /\ Increasing(replay_hold)
    BY <1>3 DEF Unsent
  <2> QED BY <2>1, <1>1, WithoutRemoves, WithoutIncreases, IncreasingDistinct
<1>5. /\ queue' \in Seq(Calls) /\ Increasing(queue')
      /\ Elements(queue') = Elements(queue) \ {c}
  <2>1. queue \in Seq(Calls) /\ Increasing(queue)
    BY <1>3 DEF Unsent
  <2> QED BY <2>1, <1>1, WithoutRemoves, WithoutIncreases, IncreasingDistinct
<1>6. /\ tombstones \in Seq(Calls) /\ Distinct(tombstones)
      /\ Elements(tombstones) = Elements(tombstones) \ {c}
  BY <1>2, <1>3 DEF Buried, Live
<1>7. in_flight_count = Cardinality((Sent(ledger) \cap Live(ledger)) \ {c})
  <2>1. (Sent(ledger) \cap Live(ledger)) \ {c} = Sent(ledger) \cap Live(ledger)
    BY <1>2
  <2> QED BY <2>1, <1>3 DEF Slots
<1>8. in_flight_count + Len(replay_hold') <= InFlight
  <2>1. /\ in_flight_count + Len(replay_hold) <= InFlight /\ in_flight_count \in Nat
        /\ Len(replay_hold) \in Nat /\ Len(replay_hold') \in Nat
    BY <1>3, <1>4 DEF Unsent, Slots
  <2> QED BY <2>1, <1>4, LimitsAssumption
<1>9. /\ out2 \in [Calls -> Outcomes]
      /\ \A d \in Calls : d \notin {c} \cap Live(ledger) => out2[d] = outcome[d]
      /\ \A d \in {c} \cap Live(ledger) : MayBeTold(out2[d], ledger[d])
  <2>1. v \in Outcomes
    BY DEF Outcomes
  <2>2. c \in Live(ledger)
    BY <1>2 DEF Live
  <2> QED BY <2>1, <2>2, <1>2 DEF MayBeTold
<1>10. DOMAIN wire_index = DOMAIN wire_index \ {ledger[d].wire_id : d \in {c} \cap Sent(ledger)}
  BY <1>2
<1> DEFINE K == Take(ledger, {c})
<1> HIDE DEF out2, K
<1>11. Tables(K, wire_index, replay_hold', queue', tombstones, in_flight_count, out2, wire,
              generation, last_incarnation, next_wire_id, next_call_id)
  <2>1. Removal(ledger, {c}, wire_index, replay_hold, queue, tombstones, outcome,
                wire_index, replay_hold', queue', tombstones, in_flight_count, out2)
    BY <1>2, <1>4, <1>5, <1>6, <1>7, <1>8, <1>9, <1>10 DEF Removal
  <2>2. Tables(ledger, wire_index, replay_hold, queue, tombstones, in_flight_count,
               outcome, wire, generation, last_incarnation, next_wire_id, next_call_id)
    BY DEF CallInv, TablesNow
  <2> QED BY <2>1, <2>2, RemoveTables DEF K
<1>12. Tables(ledger', wire_index', replay_hold', queue', tombstones', in_flight_count',
              outcome', wire, generation, last_incarnation, next_wire_id, next_call_id')
  BY <1>1, <1>11 DEF K
<1>13. Sent(ledger') # {} => state = "Ready"
  <2>1. Sent(ledger') \subseteq Sent(ledger)
    BY <1>1 DEF Take, Sent
  <2> QED BY <2>1 DEF CallInv, Settled
<1>14. queue' # <<>> => queue # <<>>
  BY <1>1, WithoutOfEmpty
<1> QED BY <1>1, <1>12, <1>13, <1>14, QuietStep

LEMMA CancelQueuedStep ==
    ASSUME CallInv, LifecycleInv', NEW c \in Calls, CancelQueued(c)
    PROVE  CallInv'
<1>1. c \in Queued(ledger) /\ c \in DOMAIN ledger
  BY DEF CancelQueued, Queued
<1>2. outcome[c] = "none" /\ outcome \in [Calls -> Outcomes] /\ queued_count \in Nat
  BY <1>1, EntryFacts DEF CallInv, Settled
<1>3. DropSender(outcome, c) = [d \in Calls |-> IF d = c THEN "dropped" ELSE outcome[d]]
  BY <1>2, SettleOne
<1>4. SatSub(queued_count, Cardinality(Charged(ledger, {c}))) \in Nat
  BY <1>2, SatSubIsNat
<1> QED BY <1>1, <1>3, <1>4, UnsentLeaves DEF CancelQueued

LEMMA QueuedTimesOutStep ==
    ASSUME CallInv, LifecycleInv', NEW c \in Calls, QueuedTimesOut(c)
    PROVE  CallInv'
<1>1. c \in Queued(ledger) /\ c \in DOMAIN ledger
  BY DEF QueuedTimesOut, Queued
<1>2. outcome[c] = "none" /\ outcome \in [Calls -> Outcomes] /\ queued_count \in Nat
  BY <1>1, EntryFacts DEF CallInv, Settled
<1>3. Settle(outcome, {c}, LAMBDA d : "timeout")
        = [d \in Calls |-> IF d = c THEN "timeout" ELSE outcome[d]]
  <2>1. "timeout" \in Outcomes
    BY DEF Outcomes
  <2> QED BY <2>1, <1>2, SettleOne, ZenonT(40)
<1>4. SatSub(queued_count, Cardinality(Charged(ledger, {c}))) \in Nat
  BY <1>2, SatSubIsNat
<1> QED BY <1>1, <1>3, <1>4, UnsentLeaves DEF QueuedTimesOut

\* Sent calls leave: answered, reclaimed or evicted.
LEMMA ForgetTables ==
    ASSUME TablesNow, NEW S \in SUBSET Sent(ledger),
           NEW T2 \in Seq(Calls), Distinct(T2), Elements(T2) = Elements(tombstones) \ S,
           NEW n2, n2 = Cardinality((Sent(ledger) \cap Live(ledger)) \ S),
           n2 \in Nat, n2 <= in_flight_count,
           NEW out2 \in [Calls -> Outcomes],
           \A c \in Calls : c \notin S \cap Live(ledger) => out2[c] = outcome[c],
           \A c \in S \cap Live(ledger) : MayBeTold(out2[c], ledger[c])
    PROVE  Tables(Take(ledger, S), Unindex(wire_index, ledger, S), replay_hold, queue, T2, n2,
                  out2, wire, generation, last_incarnation, next_wire_id, next_call_id)
<1>1. Tables(ledger, wire_index, replay_hold, queue, tombstones, in_flight_count,
             outcome, wire, generation, last_incarnation, next_wire_id, next_call_id)
  BY DEF TablesNow
<1>2. Unsent(ledger, replay_hold, queue, in_flight_count) /\ Slots(ledger, in_flight_count)
  BY <1>1 DEF Tables
<1>3. /\ replay_hold \in Seq(Calls) /\ Increasing(replay_hold)
      /\ queue \in Seq(Calls) /\ Increasing(queue)
      /\ Elements(replay_hold) \cup Elements(queue) = Queued(ledger)
      /\ in_flight_count + Len(replay_hold) <= InFlight /\ in_flight_count \in Nat
      /\ Len(replay_hold) \in Nat
  BY <1>2 DEF Unsent, Slots
<1>4. /\ Elements(replay_hold) = Elements(replay_hold) \ S
      /\ Elements(queue) = Elements(queue) \ S
  BY <1>3 DEF Queued, Sent
<1>5. n2 + Len(replay_hold) <= InFlight
  BY <1>3, LimitsAssumption
<1> DEFINE idx2 == Unindex(wire_index, ledger, S)
<1>6. /\ DOMAIN idx2 = DOMAIN wire_index \ {ledger[c].wire_id : c \in S \cap Sent(ledger)}
      /\ \A x \in DOMAIN idx2 : idx2[x] = wire_index[x]
  BY DEF Unindex
<1> HIDE DEF idx2
<1>7. S \subseteq DOMAIN ledger
  BY DEF Sent
<1>8. Removal(ledger, S, wire_index, replay_hold, queue, tombstones, outcome,
              idx2, replay_hold, queue, T2, n2, out2)
  BY <1>3, <1>4, <1>5, <1>6, <1>7 DEF Removal
<1>9. Tables(Take(ledger, S), idx2, replay_hold, queue, T2, n2, out2, wire, generation,
             last_incarnation, next_wire_id, next_call_id)
  BY <1>1, <1>8, RemoveTables
<1> QED BY <1>9 DEF idx2

LEMMA SlotFreed ==
    ASSUME TablesNow, NEW c \in Sent(ledger), ~ledger[c].cancelled
    PROVE  /\ SatSub(in_flight_count, 1)
                = Cardinality((Sent(ledger) \cap Live(ledger)) \ {c})
           /\ SatSub(in_flight_count, 1) \in Nat
           /\ SatSub(in_flight_count, 1) <= in_flight_count
<1> DEFINE A == Sent(ledger) \cap Live(ledger)
<1>1. c \in A
  BY DEF Sent, Live
<1>2. in_flight_count \in Nat /\ in_flight_count = Cardinality(A)
  BY DEF TablesNow, Tables, Slots
<1>3. IsFiniteSet(A)
  <2>1. A \in SUBSET Calls
    BY DEF TablesNow, Tables, Rows, Sent
  <2> QED BY <2>1, CallsAreNat, FS_Subset
<1> HIDE DEF A
<1>4. Cardinality(A \ {c}) = Cardinality(A) - 1
  BY <1>1, <1>3, FS_RemoveElement
<1>5. Cardinality(A \ {c}) \in Nat
  BY <1>3, FS_RemoveElement, FS_CardinalityType
<1>6. /\ SatSub(in_flight_count, 1) = Cardinality(A \ {c})
      /\ SatSub(in_flight_count, 1) \in Nat
      /\ SatSub(in_flight_count, 1) <= in_flight_count
  BY <1>2, <1>4, <1>5 DEF SatSub
<1> QED BY <1>6 DEF A

LEMMA SlotKept ==
    ASSUME TablesNow, NEW S \in SUBSET (DOMAIN ledger \ Live(ledger))
    PROVE  /\ in_flight_count = Cardinality((Sent(ledger) \cap Live(ledger)) \ S)
           /\ in_flight_count \in Nat /\ in_flight_count <= in_flight_count
           /\ S \in SUBSET Sent(ledger) /\ S \cap Live(ledger) = {}
<1>1. (Sent(ledger) \cap Live(ledger)) \ S = Sent(ledger) \cap Live(ledger)
  OBVIOUS
<1>2. in_flight_count \in Nat /\ in_flight_count = Cardinality(Sent(ledger) \cap Live(ledger))
  BY DEF TablesNow, Tables, Slots
<1>3. S \in SUBSET Sent(ledger)
  BY DEF TablesNow, Tables, Rows, Sent, Live
<1> QED BY <1>1, <1>2, <1>3

LEMMA TombstoneFacts ==
    ASSUME TablesNow
    PROVE  /\ tombstones \in Seq(Calls) /\ Distinct(tombstones)
           /\ Elements(tombstones) = DOMAIN ledger \ Live(ledger)
           /\ \A c \in Live(ledger) : c \notin Elements(tombstones)
           /\ outcome \in [Calls -> Outcomes]
  BY DEF TablesNow, Tables, Buried, Answers

\* The frame a reply answers is the one its wire id was given to.
LEMMA ReplyIsItsOwn ==
    ASSUME TablesNow, NEW f \in wire, NEW c \in Resolve(f.wire_id, f.generation)
    PROVE  f.call = c /\ c \in Sent(ledger) /\ c \in DOMAIN ledger
<1>1. /\ c \in DOMAIN ledger /\ f.wire_id \in DOMAIN wire_index
      /\ wire_index[f.wire_id] = c
      /\ ledger[c].phase = "sent" /\ ledger[c].generation = f.generation
  BY DEF Resolve
<1>2. /\ Routes(ledger, wire_index, generation) /\ History(ledger, wire, last_incarnation)
      /\ Frames(wire, generation, last_incarnation, next_wire_id, next_call_id)
  BY DEF TablesNow, Tables
<1>3. ledger[c].wire_id = f.wire_id
  BY <1>1, <1>2 DEF Routes
<1>4. PICK e \in wire : /\ e.call = c /\ e.wire_id = ledger[c].wire_id
                        /\ e.generation = ledger[c].generation
  BY <1>1, <1>2 DEF History
<1>5. e = f
  BY <1>1, <1>2, <1>3, <1>4 DEF Frames
<1> QED BY <1>1, <1>4, <1>5 DEF Sent

LEMMA TakeSent ==
    ASSUME CallInv, NEW S
    PROVE  Sent(Take(ledger, S)) # {} => state = "Ready"
<1>1. Sent(Take(ledger, S)) \subseteq Sent(ledger)
  BY DEF Take, Sent
<1> QED BY <1>1 DEF CallInv, Settled

LEMMA ReplyStep ==
    ASSUME CallInv, NEW f \in wire, Reply(f)
    PROVE  CallInv'
<1> PICK c \in Resolve(f.wire_id, f.generation) :
      LET freed == Charged(ledger, {c})
          verdict == IF ledger[c].expired THEN "timeout"
                     ELSE IF f.call = c THEN "reply" ELSE "misrouted"
          live == ~ledger[c].cancelled
      IN /\ UNCHANGED lifecycle
         /\ tombstones' = IF live THEN tombstones ELSE Without(tombstones, c)
         /\ Flush(Take(ledger, {c}), Unindex(wire_index, ledger, {c}), queue,
                  replay_hold,
                  IF live THEN SatSub(in_flight_count, 1) ELSE in_flight_count,
                  queued_count,
                  SatSub(queued_bytes, ByteSum(ledger, freed)),
                  IF live THEN Settle(outcome, {c}, LAMBDA d : verdict)
                  ELSE outcome)
         /\ UNCHANGED <<stable_principal, next_call_id>>
  BY DEF Reply
<1> DEFINE verdict == IF ledger[c].expired THEN "timeout"
                      ELSE IF f.call = c THEN "reply" ELSE "misrouted"
           L == Take(ledger, {c})
           idx == Unindex(wire_index, ledger, {c})
           n == IF ~ledger[c].cancelled THEN SatSub(in_flight_count, 1) ELSE in_flight_count
           bytes == SatSub(queued_bytes, ByteSum(ledger, Charged(ledger, {c})))
           out == IF ~ledger[c].cancelled THEN Settle(outcome, {c}, LAMBDA d : verdict)
                  ELSE outcome
<1>0. TablesNow /\ queued_count \in Nat
  BY DEF CallInv, Settled
<1>1. /\ UNCHANGED lifecycle /\ stable_principal' = stable_principal
      /\ next_call_id' = next_call_id
      /\ tombstones' = IF ~ledger[c].cancelled THEN tombstones ELSE Without(tombstones, c)
      /\ Flush(L, idx, queue, replay_hold, n, queued_count, bytes, out)
  OBVIOUS
<1>2. f.call = c /\ c \in Sent(ledger) /\ c \in DOMAIN ledger
  BY <1>0, ReplyIsItsOwn
<1>3. verdict \in {"timeout", "reply"}
  BY <1>2
<1> HIDE DEF verdict
<1>4. /\ c \in Calls /\ ledger[c].cancelled \in BOOLEAN
      /\ ~ledger[c].cancelled => outcome[c] = "none"
      /\ outcome \in [Calls -> Outcomes]
  BY <1>0, <1>2, EntryFacts
<1>5. Tables(L, idx, replay_hold, queue, tombstones', n, out, wire, generation,
             last_incarnation, next_wire_id, next_call_id)
  <2>1. CASE ~ledger[c].cancelled
    <3>1. /\ n = SatSub(in_flight_count, 1) /\ tombstones' = tombstones
          /\ out = Settle(outcome, {c}, LAMBDA d : verdict)
      BY <2>1, <1>1
    <3>2. out = [d \in Calls |-> IF d = c THEN verdict ELSE outcome[d]]
      <4>1. verdict \in Outcomes
        BY <1>3 DEF Outcomes
      <4> QED BY <2>1, <3>1, <4>1, <1>4, SettleOne
    <3> HIDE DEF n, out
    <3>3. /\ n = Cardinality((Sent(ledger) \cap Live(ledger)) \ {c})
          /\ n \in Nat /\ n <= in_flight_count
      BY <2>1, <3>1, <1>0, <1>2, SlotFreed
    <3>4. c \in Live(ledger)
      BY <2>1, <1>2 DEF Live
    <3>5. /\ tombstones' \in Seq(Calls) /\ Distinct(tombstones')
          /\ Elements(tombstones') = Elements(tombstones) \ {c}
      BY <3>1, <3>4, <1>0, TombstoneFacts
    <3>6. /\ out \in [Calls -> Outcomes]
          /\ \A d \in Calls : d \notin {c} \cap Live(ledger) => out[d] = outcome[d]
          /\ \A d \in {c} \cap Live(ledger) : MayBeTold(out[d], ledger[d])
      BY <3>2, <3>4, <1>3, <1>4 DEF MayBeTold, Outcomes
    <3> QED BY <1>0, <1>2, <3>3, <3>5, <3>6, ForgetTables
  <2>2. CASE ledger[c].cancelled
    <3>1. /\ n = in_flight_count /\ tombstones' = Without(tombstones, c)
          /\ out = outcome
      BY <2>2, <1>1
    <3> HIDE DEF n, out
    <3>2. {c} \in SUBSET (DOMAIN ledger \ Live(ledger))
      BY <2>2, <1>2 DEF Live
    <3>3. /\ n = Cardinality((Sent(ledger) \cap Live(ledger)) \ {c})
          /\ n \in Nat /\ n <= in_flight_count /\ {c} \cap Live(ledger) = {}
      BY <3>1, <3>2, <1>0, SlotKept
    <3>4. /\ tombstones' \in Seq(Calls) /\ Distinct(tombstones')
          /\ Elements(tombstones') = Elements(tombstones) \ {c}
      <4>1. tombstones \in Seq(Calls) /\ Distinct(tombstones)
        BY <1>0, TombstoneFacts
      <4>2. /\ Without(tombstones, c) \in Seq(Calls)
            /\ Distinct(Without(tombstones, c))
            /\ Elements(Without(tombstones, c)) = Elements(tombstones) \ {c}
        BY <4>1, WithoutRemoves
      <4> QED BY <3>1, <4>2
    <3>5. /\ out \in [Calls -> Outcomes]
          /\ \A d \in Calls : d \notin {c} \cap Live(ledger) => out[d] = outcome[d]
          /\ \A d \in {c} \cap Live(ledger) : MayBeTold(out[d], ledger[d])
      BY <3>1, <3>3, <1>4
    <3> QED BY <1>0, <1>2, <3>3, <3>4, <3>5, ForgetTables
  <2> QED BY <2>1, <2>2, <1>4
<1>6. Sent(L) # {} => state = "Ready"
  BY TakeSent
<1> HIDE DEF L, idx, n, out, bytes
<1>7. Tables(L, idx, replay_hold, queue, tombstones', n, out, wire, generation,
             last_incarnation, next_wire_id, next_call_id')
  BY <1>1, <1>5
<1> QED BY <1>0, <1>1, <1>6, <1>7, FlushStep

LEMMA TombstoneReclaimedStep ==
    ASSUME CallInv, LifecycleInv', NEW c \in Calls, TombstoneReclaimed(c)
    PROVE  CallInv'
<1>1. /\ c \in Sent(ledger) /\ ledger[c].cancelled
      /\ UNCHANGED lifecycle /\ tombstones' = Without(tombstones, c)
      /\ ledger' = Take(ledger, {c}) /\ wire_index' = Unindex(wire_index, ledger, {c})
      /\ queue' = queue /\ replay_hold' = replay_hold /\ in_flight_count' = in_flight_count
      /\ queued_count' = queued_count /\ outcome' = outcome
      /\ UNCHANGED <<wire, next_wire_id>>
      /\ stable_principal' = stable_principal /\ next_call_id' = next_call_id
  BY DEF TombstoneReclaimed, NoFlush
<1>2. TablesNow /\ queued_count \in Nat
  BY DEF CallInv, Settled
<1>3. {c} \in SUBSET (DOMAIN ledger \ Live(ledger))
  BY <1>1 DEF Live, Sent
<1>4. /\ in_flight_count = Cardinality((Sent(ledger) \cap Live(ledger)) \ {c})
      /\ in_flight_count \in Nat /\ in_flight_count <= in_flight_count
      /\ {c} \cap Live(ledger) = {} /\ {c} \in SUBSET Sent(ledger)
  BY <1>2, <1>3, SlotKept
<1>5. /\ tombstones' \in Seq(Calls) /\ Distinct(tombstones')
      /\ Elements(tombstones') = Elements(tombstones) \ {c}
      /\ outcome \in [Calls -> Outcomes]
  BY <1>1, <1>2, TombstoneFacts, WithoutRemoves
<1>6. /\ \A d \in Calls : d \notin {c} \cap Live(ledger) => outcome[d] = outcome[d]
      /\ \A d \in {c} \cap Live(ledger) : MayBeTold(outcome[d], ledger[d])
  BY <1>4
<1>7. Tables(Take(ledger, {c}), Unindex(wire_index, ledger, {c}), replay_hold, queue,
             tombstones', in_flight_count, outcome, wire, generation, last_incarnation,
             next_wire_id, next_call_id)
  BY <1>2, <1>4, <1>5, <1>6, ForgetTables
<1>8. Tables(ledger', wire_index', replay_hold', queue', tombstones', in_flight_count',
             outcome', wire, generation, last_incarnation, next_wire_id, next_call_id')
  BY <1>1, <1>7
<1>9. Sent(ledger') # {} => state = "Ready"
  BY <1>1, TakeSent
<1> QED BY <1>1, <1>2, <1>8, <1>9, QuietStep

\* A sent call nobody waits for any more keeps its wire id.
LEMMA BuryTables ==
    ASSUME NEW L, NEW idx, NEW hold, NEW q, NEW T, NEW n, NEW out, NEW W, NEW g, NEW inc,
           NEW w, NEW m, Tables(L, idx, hold, q, T, n, out, W, g, inc, w, m),
           NEW c \in Sent(L), ~L[c].cancelled,
           NEW out2 \in [Calls -> Outcomes],
           \A d \in Calls : d # c => out2[d] = out[d],
           out2[c] \in {"timeout", "dropped"}
    PROVE  Tables([L EXCEPT ![c] = [@ EXCEPT !.cancelled = TRUE, !.holds_charge = FALSE]],
                  idx, hold, q, Append(T, c), SatSub(n, 1), out2, W, g, inc, w, m)
<1> DEFINE e == [L[c] EXCEPT !.cancelled = TRUE, !.holds_charge = FALSE]
           K == [L EXCEPT ![c] = [@ EXCEPT !.cancelled = TRUE, !.holds_charge = FALSE]]
<1>a. /\ Rows(L, m) /\ Unsent(L, hold, q, n) /\ Buried(L, T) /\ Slots(L, n)
      /\ Routes(L, idx, g) /\ Answers(L, out, m) /\ Frames(W, g, inc, w, m)
      /\ History(L, W, inc) /\ Fresh(L, hold, q, W, g) /\ Claims(out, W) /\ Deduplicated(W)
  BY DEF Tables
<1>c. c \in DOMAIN L /\ L[c].phase = "sent" /\ c \in Calls /\ L[c] \in Entry /\ c < m
  BY <1>a DEF Rows, Sent
<1>e. /\ e \in Entry /\ e.cancelled /\ e.phase = "sent"
      /\ e.wire_id = L[c].wire_id /\ e.generation = L[c].generation
      /\ e.keyed = L[c].keyed /\ e.replayable = L[c].replayable
      /\ e.ever_sent = L[c].ever_sent
  BY <1>c DEF Entry
<1>k. DOMAIN K = DOMAIN L /\ K[c] = e /\ \A d \in DOMAIN L : d # c => K[d] = L[d]
  BY <1>c
<1> HIDE DEF K, e
<1>f. \A d \in DOMAIN L : /\ K[d].phase = L[d].phase /\ K[d].wire_id = L[d].wire_id
                          /\ K[d].generation = L[d].generation /\ K[d].keyed = L[d].keyed
                          /\ K[d].replayable = L[d].replayable
                          /\ K[d].ever_sent = L[d].ever_sent
                          /\ K[d] \in Entry
                          /\ d # c => K[d].cancelled = L[d].cancelled
  <2>1. \A d \in DOMAIN L : L[d] \in Entry
    BY <1>a DEF Rows
  <2>2. ASSUME NEW d \in DOMAIN L
        PROVE  /\ K[d].phase = L[d].phase /\ K[d].wire_id = L[d].wire_id
               /\ K[d].generation = L[d].generation /\ K[d].keyed = L[d].keyed
               /\ K[d].replayable = L[d].replayable
               /\ K[d].ever_sent = L[d].ever_sent
               /\ K[d] \in Entry
               /\ d # c => K[d].cancelled = L[d].cancelled
    <3>1. CASE d = c
      BY <3>1, <1>e, <1>k, <1>c
    <3>2. CASE d # c
      <4>1. K[d] = L[d] /\ L[d] \in Entry
        BY <3>2, <1>k, <2>1
      <4> QED BY <4>1
    <3> QED BY <3>1, <3>2
  <2> QED BY <2>2
<1>s. /\ Sent(K) = Sent(L) /\ Queued(K) = Queued(L)
      /\ Live(K) = Live(L) \ {c}
  <2>1. Sent(K) = Sent(L) /\ Queued(K) = Queued(L)
    BY <1>k, <1>f DEF Sent, Queued
  <2>2. K[c].cancelled
    BY <1>k, <1>e
  <2>3. Live(K) = Live(L) \ {c}
    BY <2>2, <1>k, <1>f DEF Live
  <2> QED BY <2>1, <2>3
<1>1. Rows(K, m)
  BY <1>a, <1>k, <1>f, <1>c DEF Rows
<1>2. Slots(K, SatSub(n, 1)) /\ SatSub(n, 1) <= n /\ n \in Nat
  <2> DEFINE A == Sent(L) \cap Live(L)
  <2>1. c \in A /\ Sent(K) \cap Live(K) = A \ {c}
    BY <1>s, <1>c DEF Live
  <2>2. n \in Nat /\ n = Cardinality(A)
    BY <1>a DEF Slots
  <2>3. IsFiniteSet(A)
    <3>1. A \in SUBSET Calls
      BY <1>a DEF Rows, Sent
    <3> QED BY <3>1, CallsAreNat, FS_Subset
  <2> HIDE DEF A
  <2>4. Cardinality(A \ {c}) = Cardinality(A) - 1 /\ Cardinality(A \ {c}) \in Nat
    BY <2>1, <2>3, FS_RemoveElement, FS_CardinalityType
  <2>5. /\ SatSub(n, 1) = Cardinality(A \ {c}) /\ SatSub(n, 1) \in Nat
        /\ SatSub(n, 1) <= n
    BY <2>2, <2>4 DEF SatSub
  <2> QED BY <2>1, <2>2, <2>5 DEF Slots
<1>3. Unsent(K, hold, q, SatSub(n, 1))
  <2>1. n + Len(hold) <= InFlight /\ Len(hold) \in Nat
    BY <1>a DEF Unsent
  <2>2. SatSub(n, 1) + Len(hold) <= InFlight
    BY <2>1, <1>2, LimitsAssumption DEF Slots
  <2> QED BY <2>2, <1>a, <1>s DEF Unsent
<1>4. Buried(K, Append(T, c))
  <2>1. /\ T \in Seq(Calls) /\ Distinct(T) /\ Elements(T) = DOMAIN L \ Live(L)
    BY <1>a DEF Buried
  <2>2. c \notin Elements(T) /\ c \in Live(L)
    BY <2>1, <1>c DEF Live
  <2> DEFINE t == Append(T, c)
             z == Len(T) + 1
  <2>3. /\ t \in Seq(Calls) /\ DOMAIN t = DOMAIN T \cup {z} /\ t[z] = c
        /\ \A i \in DOMAIN T : t[i] = T[i] /\ T[i] \in Elements(T)
    BY <2>1, <1>c DEF Elements
  <2> HIDE DEF t, z
  <2>4. Distinct(t)
    BY <2>1, <2>2, <2>3 DEF Distinct
  <2>5. Elements(t) = Elements(T) \cup {c}
    BY <2>3 DEF Elements
  <2>6. Elements(t) = DOMAIN K \ Live(K)
    BY <2>1, <2>2, <2>5, <1>s, <1>k, <1>c
  <2> QED BY <2>3, <2>4, <2>6 DEF Buried, t
<1>5. Routes(K, idx, g)
  <2>1. \A d \in Sent(L) : d \in DOMAIN L
    BY DEF Sent
  <2> QED BY <2>1, <1>a, <1>f, <1>s DEF Routes
<1>6. Answers(K, out2, m)
  <2>1. ASSUME NEW d \in Calls
        PROVE  /\ (d < m /\ out2[d] = "none") <=> (d \in DOMAIN K /\ ~K[d].cancelled)
               /\ d >= m => out2[d] = "none"
               /\ out2[d] \notin {"twice", "misrouted"}
    <3>1. CASE d = c
      <4>1. c \in Nat /\ m \in Nat /\ ~(c >= m)
        BY <1>a, <1>c, CallsAreNat, MaxCallsAssumption DEF Rows
      <4> QED BY <3>1, <4>1, <1>k, <1>e
    <3>2. CASE d # c
      <4>1. /\ (d < m /\ out[d] = "none") <=> (d \in DOMAIN L /\ ~L[d].cancelled)
            /\ d >= m => out[d] = "none"
            /\ out[d] \notin {"twice", "misrouted"}
        BY <1>a DEF Answers
      <4>2. out2[d] = out[d]
        BY <3>2
      <4>3. (d \in DOMAIN K /\ ~K[d].cancelled) <=> (d \in DOMAIN L /\ ~L[d].cancelled)
        BY <3>2, <1>k
      <4> QED BY <4>1, <4>2, <4>3
    <3> QED BY <3>1, <3>2
  <2> QED BY <2>1 DEF Answers
<1>7. History(K, W, inc)
  BY <1>a, <1>k, <1>f DEF History
<1>8. Fresh(K, hold, q, W, g)
  <2>1. \A d \in Elements(hold) \cup Elements(q) : d \in DOMAIN L
    BY <1>a DEF Unsent, Queued
  <2> QED BY <2>1, <1>a, <1>f DEF Fresh
<1>9. Claims(out2, W)
  <2> SUFFICES ASSUME NEW d \in Calls
               PROVE  /\ out2[d] \in NotExecuted => \A f \in W : f.call # d
                      /\ out2[d] \in MayHaveExecuted => \E f \in W : f.call = d
    BY DEF Claims
  <2>1. CASE d = c
    BY <2>1 DEF NotExecuted, MayHaveExecuted
  <2>2. CASE d # c
    BY <2>2, <1>a DEF Claims
  <2> QED BY <2>1, <2>2
<1>10. Tables(K, idx, hold, q, Append(T, c), SatSub(n, 1), out2, W, g, inc, w, m)
  BY <1>a, <1>1, <1>2, <1>3, <1>4, <1>5, <1>6, <1>7, <1>8, <1>9 DEF Tables
<1> QED BY <1>10 DEF K

LEMMA BuryStep ==
    ASSUME CallInv, UNCHANGED lifecycle, UNCHANGED <<stable_principal, next_call_id>>,
           NEW c \in Sent(ledger), ~ledger[c].cancelled, NEW v \in {"timeout", "dropped"},
           Bury(c, [d \in Calls |-> IF d = c THEN v ELSE outcome[d]])
    PROVE  CallInv'
<1> DEFINE out == [d \in Calls |-> IF d = c THEN v ELSE outcome[d]]
           L == Take(ledger, Evicted)
           K == [L EXCEPT ![c] = [@ EXCEPT !.cancelled = TRUE, !.holds_charge = FALSE]]
           idx == Unindex(wire_index, ledger, Evicted)
           n == SatSub(in_flight_count, 1)
           bytes == SatSub(queued_bytes, ByteSum(ledger, Charged(ledger, {c})))
           T == IF Evicted = {} THEN tombstones ELSE Tail(tombstones)
<1>0. TablesNow /\ queued_count \in Nat
  BY DEF CallInv, Settled
<1>1. /\ tombstones' = Append(T, c)
      /\ Flush(K, idx, queue, replay_hold, n, queued_count, bytes, out)
  BY DEF Bury, PushTombstone
<1>2. /\ tombstones \in Seq(Calls) /\ Distinct(tombstones)
      /\ Elements(tombstones) = DOMAIN ledger \ Live(ledger)
      /\ outcome \in [Calls -> Outcomes]
  BY <1>0, TombstoneFacts
<1>3. /\ Evicted \in SUBSET Elements(tombstones)
      /\ T \in Seq(Calls) /\ Distinct(T) /\ Elements(T) = Elements(tombstones) \ Evicted
  <2>1. CASE Len(tombstones) >= InFlight
    <3>1. tombstones # <<>>
      BY <2>1, LimitsAssumption
    <3>2. Evicted = {Head(tombstones)}
      BY <2>1 DEF Evicted
    <3>3. T = Tail(tombstones)
      BY <3>2
    <3>4. /\ Tail(tombstones) \in Seq(Calls) /\ Distinct(Tail(tombstones))
          /\ Elements(Tail(tombstones)) = Elements(tombstones) \ {Head(tombstones)}
          /\ Head(tombstones) \in Elements(tombstones)
      BY <3>1, <1>2, TailRemoves
    <3> HIDE DEF T
    <3> QED BY <3>2, <3>3, <3>4
  <2>2. CASE ~(Len(tombstones) >= InFlight)
    <3>1. Evicted = {} /\ T = tombstones
      BY <2>2 DEF Evicted
    <3> QED BY <3>1, <1>2
  <2> QED BY <2>1, <2>2
<1> HIDE DEF T
<1>4. Evicted \in SUBSET (DOMAIN ledger \ Live(ledger))
  BY <1>2, <1>3
<1>5. /\ in_flight_count = Cardinality((Sent(ledger) \cap Live(ledger)) \ Evicted)
      /\ in_flight_count \in Nat /\ in_flight_count <= in_flight_count
      /\ Evicted \cap Live(ledger) = {} /\ Evicted \in SUBSET Sent(ledger)
  BY <1>0, <1>4, SlotKept
<1>6. /\ \A d \in Calls : d \notin Evicted \cap Live(ledger) => outcome[d] = outcome[d]
      /\ \A d \in Evicted \cap Live(ledger) : MayBeTold(outcome[d], ledger[d])
  BY <1>5
<1>7. Tables(L, idx, replay_hold, queue, T, in_flight_count, outcome, wire, generation,
             last_incarnation, next_wire_id, next_call_id)
  BY <1>0, <1>2, <1>3, <1>5, <1>6, ForgetTables
<1>8. c \in Live(ledger) /\ c \in DOMAIN ledger /\ c \in Calls
  <2>1. c \in DOMAIN ledger
    BY DEF Sent
  <2> QED BY <2>1, <1>0, EntryFacts DEF Live
<1>9. c \in Sent(L) /\ ~L[c].cancelled
  <2>1. c \notin Evicted
    BY <1>5, <1>8
  <2> QED BY <2>1, <1>8 DEF Take, Sent
<1>10. Sent(K) # {} => state = "Ready"
  <2>1. Sent(ledger) # {}
    OBVIOUS
  <2> QED BY <2>1 DEF CallInv, Settled
<1> HIDE DEF L, idx, out
<1>11. /\ out \in [Calls -> Outcomes]
       /\ \A d \in Calls : d # c => out[d] = outcome[d]
       /\ out[c] \in {"timeout", "dropped"}
  BY <1>2, <1>8 DEF out, Outcomes
<1>12. Tables(K, idx, replay_hold, queue, Append(T, c), n, out, wire, generation,
              last_incarnation, next_wire_id, next_call_id)
  BY <1>7, <1>9, <1>11, BuryTables
<1> HIDE DEF K, n, bytes
<1>13. Tables(K, idx, replay_hold, queue, tombstones', n, out, wire, generation,
              last_incarnation, next_wire_id, next_call_id')
  BY <1>1, <1>12
<1> QED BY <1>0, <1>1, <1>10, <1>13, FlushStep

LEMMA CancelSentStep ==
    ASSUME CallInv, NEW c \in Calls, CancelSent(c)
    PROVE  CallInv'
<1>1. c \in Sent(ledger) /\ ~ledger[c].cancelled /\ c \in DOMAIN ledger
  BY DEF CancelSent, Sent
<1>2. outcome[c] = "none" /\ outcome \in [Calls -> Outcomes]
  BY <1>1, EntryFacts DEF CallInv
<1>3. DropSender(outcome, c) = [d \in Calls |-> IF d = c THEN "dropped" ELSE outcome[d]]
  BY <1>2, SettleOne
<1> QED BY <1>1, <1>3, BuryStep DEF CancelSent

LEMMA SentTimesOutStep ==
    ASSUME CallInv, NEW c \in Calls, SentTimesOut(c)
    PROVE  CallInv'
<1>1. c \in Sent(ledger) /\ ~ledger[c].cancelled /\ c \in DOMAIN ledger
  BY DEF SentTimesOut, Sent
<1>2. outcome[c] = "none" /\ outcome \in [Calls -> Outcomes]
  BY <1>1, EntryFacts DEF CallInv
<1>3. Settle(outcome, {c}, LAMBDA d : "timeout")
        = [d \in Calls |-> IF d = c THEN "timeout" ELSE outcome[d]]
  <2>1. "timeout" \in Outcomes
    BY DEF Outcomes
  <2> QED BY <2>1, <1>2, SettleOne, ZenonT(40)
<1> QED BY <1>1, <1>3, BuryStep DEF SentTimesOut

\* Nothing but the deadline of one entry changes.
LEMMA DeadlinePassesStep ==
    ASSUME CallInv, LifecycleInv', NEW c \in Calls, DeadlinePasses(c)
    PROVE  CallInv'
<1> DEFINE K == [ledger EXCEPT ![c].expired = TRUE]
<1>1. /\ c \in DOMAIN ledger /\ ledger' = K
      /\ UNCHANGED <<lifecycle, wire_index, queue, replay_hold, in_flight_count,
                     queued_count, next_wire_id, outcome, wire,
                     stable_principal, next_call_id, tombstones>>
  BY DEF DeadlinePasses
<1>a. /\ Rows(ledger, next_call_id) /\ Unsent(ledger, replay_hold, queue, in_flight_count)
      /\ Buried(ledger, tombstones) /\ Slots(ledger, in_flight_count)
      /\ Routes(ledger, wire_index, generation) /\ Answers(ledger, outcome, next_call_id)
      /\ Frames(wire, generation, last_incarnation, next_wire_id, next_call_id)
      /\ History(ledger, wire, last_incarnation)
      /\ Fresh(ledger, replay_hold, queue, wire, generation) /\ Claims(outcome, wire)
      /\ Deduplicated(wire)
  BY DEF CallInv, TablesNow, Tables
<1>2. DOMAIN K = DOMAIN ledger
      /\ \A d \in DOMAIN ledger :
           /\ K[d].phase = ledger[d].phase /\ K[d].wire_id = ledger[d].wire_id
           /\ K[d].generation = ledger[d].generation /\ K[d].keyed = ledger[d].keyed
           /\ K[d].replayable = ledger[d].replayable
           /\ K[d].ever_sent = ledger[d].ever_sent
           /\ K[d].cancelled = ledger[d].cancelled
           /\ K[d] \in Entry
  <2>1. \A d \in DOMAIN ledger : ledger[d] \in Entry
    BY <1>a DEF Rows
  <2>2. ASSUME NEW d \in DOMAIN ledger
        PROVE  /\ K[d].phase = ledger[d].phase /\ K[d].wire_id = ledger[d].wire_id
               /\ K[d].generation = ledger[d].generation /\ K[d].keyed = ledger[d].keyed
               /\ K[d].replayable = ledger[d].replayable
               /\ K[d].ever_sent = ledger[d].ever_sent
               /\ K[d].cancelled = ledger[d].cancelled
               /\ K[d] \in Entry
    <3> DEFINE e == ledger[d]
    <3>1. e \in Entry
      BY <2>1
    <3>2. K[d] = e \/ K[d] = [e EXCEPT !.expired = TRUE]
      OBVIOUS
    <3> HIDE DEF e, K
    <3>3. /\ K[d].phase = e.phase /\ K[d].wire_id = e.wire_id
          /\ K[d].generation = e.generation /\ K[d].keyed = e.keyed
          /\ K[d].replayable = e.replayable /\ K[d].ever_sent = e.ever_sent
          /\ K[d].cancelled = e.cancelled /\ K[d] \in Entry
      BY <3>1, <3>2 DEF Entry
    <3> QED BY <3>3 DEF e
  <2> HIDE DEF K
  <2>3. DOMAIN K = DOMAIN ledger
    BY DEF K
  <2> QED BY <2>2, <2>3
<1> HIDE DEF K
<1>3. Sent(K) = Sent(ledger) /\ Queued(K) = Queued(ledger) /\ Live(K) = Live(ledger)
  BY <1>2 DEF Sent, Queued, Live
<1>4. /\ Rows(K, next_call_id) /\ Unsent(K, replay_hold, queue, in_flight_count)
      /\ Buried(K, tombstones) /\ Slots(K, in_flight_count)
  BY <1>a, <1>2, <1>3 DEF Rows, Unsent, Buried, Slots
<1>5. Routes(K, wire_index, generation)
  <2>1. \A d \in Sent(ledger) : d \in DOMAIN ledger
    BY DEF Sent
  <2> QED BY <2>1, <1>a, <1>2, <1>3 DEF Routes
<1>6. Answers(K, outcome, next_call_id)
  BY <1>a, <1>2 DEF Answers
<1>7. History(K, wire, last_incarnation)
  BY <1>a, <1>2 DEF History
<1>8. Fresh(K, replay_hold, queue, wire, generation)
  <2>1. \A d \in Elements(replay_hold) \cup Elements(queue) : d \in DOMAIN ledger
    BY <1>a DEF Unsent, Queued
  <2> QED BY <2>1, <1>a, <1>2 DEF Fresh
<1>9. Tables(K, wire_index, replay_hold, queue, tombstones, in_flight_count, outcome, wire,
             generation, last_incarnation, next_wire_id, next_call_id)
  BY <1>a, <1>4, <1>5, <1>6, <1>7, <1>8 DEF Tables
<1>10. Tables(ledger', wire_index', replay_hold', queue', tombstones', in_flight_count',
              outcome', wire, generation, last_incarnation, next_wire_id, next_call_id')
  BY <1>1, <1>9
<1>11. Sent(ledger') # {} => state = "Ready"
  BY <1>1, <1>3 DEF CallInv, Settled
<1>12. queued_count' \in Nat
  BY <1>1 DEF CallInv, Settled
<1> QED BY <1>1, <1>10, <1>11, <1>12, QuietStep

\* The id of a fresh call: no table and no frame knows it.
LEMMA FreshCall ==
    ASSUME TablesNow, NextCall
    PROVE  /\ next_call_id \in Calls /\ next_call_id \in Nat
           /\ next_call_id' = next_call_id + 1 /\ next_call_id + 1 \in 0..MaxCalls
           /\ next_call_id \notin DOMAIN ledger
           /\ outcome[next_call_id] = "none"
           /\ \A f \in wire : f.call # next_call_id /\ f.call \in Nat
           /\ \A d \in Calls : d < next_call_id + 1 <=> d < next_call_id \/ d = next_call_id
           /\ \A d \in Calls : d >= next_call_id + 1 => d >= next_call_id /\ d # next_call_id
<1>1. /\ next_call_id \in 0..MaxCalls /\ next_call_id < MaxCalls
      /\ next_call_id' = next_call_id + 1
      /\ \A c \in DOMAIN ledger : c \in Calls /\ c < next_call_id
      /\ \A c \in Calls : c >= next_call_id => outcome[c] = "none"
      /\ \A f \in wire : f.call < next_call_id /\ f \in Frame
  BY DEF TablesNow, Tables, Rows, Answers, Frames, NextCall
<1>2. next_call_id \in Calls /\ next_call_id \in Nat /\ MaxCalls \in Nat
  BY <1>1, MaxCallsAssumption DEF Calls
<1>3. /\ next_call_id + 1 \in 0..MaxCalls
      /\ ~(next_call_id < next_call_id)
      /\ next_call_id >= next_call_id
  BY <1>1, <1>2
<1>4. \A f \in wire : f.call # next_call_id /\ f.call \in Nat
  <2>1. \A f \in wire : f.call \in Calls
    BY <1>1 DEF Frame
  <2> QED BY <1>1, <1>3, <2>1, CallsAreNat
<1>5. \A d \in Calls : /\ d < next_call_id + 1 <=> d < next_call_id \/ d = next_call_id
                       /\ d >= next_call_id + 1 => d >= next_call_id /\ d # next_call_id
  BY <1>2, CallsAreNat
<1> QED BY <1>1, <1>2, <1>3, <1>4, <1>5

LEMMA RefusedStep ==
    ASSUME CallInv, LifecycleInv', NEW v \in NotExecuted, NextCall,
           outcome' = Settle(outcome, {next_call_id}, LAMBDA c : v),
           UNCHANGED <<lifecycle, ledger, wire_index, queue, replay_hold,
                       in_flight_count, queued_count, queued_bytes, next_wire_id,
                       wire, stable_principal, tombstones>>
    PROVE  CallInv'
<1> DEFINE k == next_call_id
           out == [d \in Calls |-> IF d = k THEN v ELSE outcome[d]]
<1>a. /\ Rows(ledger, next_call_id) /\ Unsent(ledger, replay_hold, queue, in_flight_count)
      /\ Buried(ledger, tombstones) /\ Slots(ledger, in_flight_count)
      /\ Routes(ledger, wire_index, generation) /\ Answers(ledger, outcome, next_call_id)
      /\ Frames(wire, generation, last_incarnation, next_wire_id, next_call_id)
      /\ History(ledger, wire, last_incarnation)
      /\ Fresh(ledger, replay_hold, queue, wire, generation) /\ Claims(outcome, wire)
      /\ Deduplicated(wire)
  BY DEF CallInv, TablesNow, Tables
<1>1. /\ k \in Calls /\ k \in Nat /\ next_call_id' = k + 1 /\ k + 1 \in 0..MaxCalls
      /\ k \notin DOMAIN ledger /\ outcome[k] = "none"
      /\ \A f \in wire : f.call # k /\ f.call \in Nat
      /\ \A d \in Calls : d < k + 1 <=> d < k \/ d = k
      /\ \A d \in Calls : d >= k + 1 => d >= k /\ d # k
  BY FreshCall DEF CallInv
<1>2. outcome \in [Calls -> Outcomes] /\ v \in Outcomes
  BY <1>a DEF Answers, Outcomes
<1>3. outcome' = out
  <2>1. DOMAIN outcome = Calls
    BY <1>2
  <2> QED BY <2>1, <1>1 DEF Settle
<1>4. Rows(ledger, k + 1)
  BY <1>a, <1>1 DEF Rows
<1>5. Answers(ledger, out, k + 1)
  <2>1. out \in [Calls -> Outcomes]
    BY <1>2
  <2>2. ASSUME NEW d \in Calls
        PROVE  /\ (d < k + 1 /\ out[d] = "none") <=> (d \in DOMAIN ledger /\ ~ledger[d].cancelled)
               /\ d >= k + 1 => out[d] = "none"
               /\ out[d] \notin {"twice", "misrouted"}
    <3>1. /\ (d < k /\ outcome[d] = "none") <=> (d \in DOMAIN ledger /\ ~ledger[d].cancelled)
          /\ d >= k => outcome[d] = "none"
          /\ outcome[d] \notin {"twice", "misrouted"}
      BY <1>a DEF Answers
    <3>2. CASE d = k
      <4>1. out[d] = v /\ v \notin {"none", "twice", "misrouted"}
        BY <3>2 DEF NotExecuted
      <4> QED BY <4>1, <3>2, <1>1
    <3>3. CASE d # k
      <4>1. out[d] = outcome[d]
        BY <3>3
      <4> QED BY <4>1, <3>1, <3>3, <1>1
    <3> QED BY <3>2, <3>3
  <2> HIDE DEF out, k
  <2> QED BY <2>1, <2>2 DEF Answers
<1>6. Frames(wire, generation, last_incarnation, next_wire_id, k + 1)
  <2>1. \A f \in wire : f.call < k => f.call < k + 1
    BY <1>1
  <2> QED BY <2>1, <1>a DEF Frames
<1>7. Claims(out, wire)
  <2> SUFFICES ASSUME NEW d \in Calls
               PROVE  /\ out[d] \in NotExecuted => \A f \in wire : f.call # d
                      /\ out[d] \in MayHaveExecuted => \E f \in wire : f.call = d
    BY DEF Claims
  <2>1. CASE d = k
    <3>1. out[d] \notin MayHaveExecuted
      BY <2>1 DEF NotExecuted, MayHaveExecuted
    <3> QED BY <3>1, <2>1, <1>1
  <2>2. CASE d # k
    BY <2>2, <1>a DEF Claims
  <2> QED BY <2>1, <2>2
<1> HIDE DEF out
<1>8. Tables(ledger, wire_index, replay_hold, queue, tombstones, in_flight_count, out, wire,
             generation, last_incarnation, next_wire_id, k + 1)
  BY <1>a, <1>4, <1>5, <1>6, <1>7 DEF Tables
<1>9. Tables(ledger', wire_index', replay_hold', queue', tombstones', in_flight_count',
             outcome', wire, generation, last_incarnation, next_wire_id, next_call_id')
  BY <1>1, <1>3, <1>8
<1>10. Sent(ledger') # {} => state = "Ready"
  BY DEF CallInv, Settled
<1>11. queued_count' \in Nat
  BY DEF CallInv, Settled
<1> QED BY <1>9, <1>10, <1>11, QuietStep

LEMMA AdmittedStep ==
    ASSUME CallInv, NEW shape \in CallShapes, DispatchAdmitted(shape)
    PROVE  CallInv'
<1> DEFINE k == next_call_id
           new == NewEntry(shape)
           K == [d \in DOMAIN ledger \cup {k} |-> IF d = k THEN new ELSE ledger[d]]
           q == Append(queue, k)
           count == queued_count + 1
           bytes == queued_bytes + shape.bytes
<1>0. /\ NextCall /\ UNCHANGED lifecycle /\ stable_principal' = stable_principal
      /\ tombstones' = tombstones
      /\ Flush(K, wire_index, q, replay_hold, in_flight_count, count, bytes, outcome)
  BY DEF DispatchAdmitted
<1>a. /\ Rows(ledger, next_call_id) /\ Unsent(ledger, replay_hold, queue, in_flight_count)
      /\ Buried(ledger, tombstones) /\ Slots(ledger, in_flight_count)
      /\ Routes(ledger, wire_index, generation) /\ Answers(ledger, outcome, next_call_id)
      /\ Frames(wire, generation, last_incarnation, next_wire_id, next_call_id)
      /\ History(ledger, wire, last_incarnation)
      /\ Fresh(ledger, replay_hold, queue, wire, generation) /\ Claims(outcome, wire)
      /\ Deduplicated(wire)
  BY DEF CallInv, TablesNow, Tables
<1>1. /\ k \in Calls /\ k \in Nat /\ next_call_id' = k + 1 /\ k + 1 \in 0..MaxCalls
      /\ k \notin DOMAIN ledger /\ outcome[k] = "none"
      /\ \A f \in wire : f.call # k /\ f.call \in Nat
      /\ \A d \in Calls : d < k + 1 <=> d < k \/ d = k
      /\ \A d \in Calls : d >= k + 1 => d >= k /\ d # k
  BY <1>0, FreshCall DEF CallInv
<1>2. /\ new \in Entry /\ new.phase = "queued" /\ ~new.cancelled /\ ~new.ever_sent
      /\ new.replayable => new.keyed /\ stable_principal
  <2>1. shape.keyed \in BOOLEAN /\ shape.bytes \in Nat /\ stable_principal \in BOOLEAN
    BY ShapesAssumption DEF CallInv, Settled
  <2>2. Replayable(shape) \in BOOLEAN /\ (Replayable(shape) => shape.keyed /\ stable_principal)
    BY <2>1 DEF Replayable
  <2> QED BY <2>1, <2>2 DEF NewEntry, Entry
<1>3. /\ DOMAIN K = DOMAIN ledger \cup {k} /\ K[k] = new
      /\ \A d \in DOMAIN ledger : d # k /\ K[d] = ledger[d]
  BY <1>1
<1> HIDE DEF K, new
<1>4. /\ Sent(K) = Sent(ledger) /\ Queued(K) = Queued(ledger) \cup {k}
      /\ Live(K) = Live(ledger) \cup {k} /\ k \notin Sent(ledger)
  BY <1>1, <1>2, <1>3 DEF Sent, Queued, Live
<1>5. Rows(K, k + 1)
  <2>1. \A d \in DOMAIN ledger : /\ d \in Calls /\ d < k + 1 /\ d < k /\ ledger[d] \in Entry
                                 /\ ledger[d].cancelled => ledger[d].phase = "sent"
                                 /\ ledger[d].phase = "sent" => ledger[d].ever_sent
                                 /\ ledger[d].replayable => ledger[d].keyed /\ stable_principal
    BY <1>a, <1>1 DEF Rows
  <2>2. k < k + 1
    BY <1>1
  <2> QED BY <2>1, <2>2, <1>1, <1>2, <1>3 DEF Rows
<1>6. Unsent(K, replay_hold, q, in_flight_count)
  <2>1. /\ queue \in Seq(Calls) /\ Increasing(queue)
        /\ \A c \in Elements(replay_hold), d \in Elements(queue) : c < d
        /\ Elements(replay_hold) \cup Elements(queue) = Queued(ledger)
    BY <1>a DEF Unsent
  <2>2. \A d \in Queued(ledger) : d < k
    BY <1>a DEF Rows, Queued
  <2>3. q \in Seq(Calls) /\ Increasing(q) /\ Elements(q) = Elements(queue) \cup {k}
    BY <2>1, <2>2, <1>1, AppendIncreases
  <2> HIDE DEF q
  <2>4. \A c \in Elements(replay_hold), d \in Elements(q) : c < d
    BY <2>1, <2>2, <2>3
  <2>5. Elements(replay_hold) \cup Elements(q) = Queued(K)
    BY <2>1, <2>3, <1>4
  <2> QED BY <2>3, <2>4, <2>5, <1>a DEF Unsent
<1>7. Buried(K, tombstones)
  BY <1>a, <1>1, <1>3, <1>4 DEF Buried
<1>8. Slots(K, in_flight_count)
  <2>1. Sent(K) \cap Live(K) = Sent(ledger) \cap Live(ledger)
    BY <1>4
  <2> QED BY <2>1, <1>a DEF Slots
<1>9. Routes(K, wire_index, generation)
  <2>1. \A d \in Sent(ledger) : d \in DOMAIN ledger
    BY DEF Sent
  <2> QED BY <2>1, <1>a, <1>3, <1>4 DEF Routes
<1>10. Answers(K, outcome, k + 1)
  <2>1. outcome \in [Calls -> Outcomes]
    BY <1>a DEF Answers
  <2>2. ASSUME NEW d \in Calls
        PROVE  /\ (d < k + 1 /\ outcome[d] = "none") <=> (d \in DOMAIN K /\ ~K[d].cancelled)
               /\ d >= k + 1 => outcome[d] = "none"
               /\ outcome[d] \notin {"twice", "misrouted"}
    <3>1. /\ (d < k /\ outcome[d] = "none") <=> (d \in DOMAIN ledger /\ ~ledger[d].cancelled)
          /\ d >= k => outcome[d] = "none"
          /\ outcome[d] \notin {"twice", "misrouted"}
      BY <1>a DEF Answers
    <3>2. CASE d = k
      BY <3>1, <3>2, <1>1, <1>2, <1>3
    <3>3. CASE d # k
      BY <3>1, <3>3, <1>1, <1>3
    <3> QED BY <3>2, <3>3
  <2> HIDE DEF k
  <2> QED BY <2>1, <2>2 DEF Answers
<1>11. Frames(wire, generation, last_incarnation, next_wire_id, k + 1)
  <2>1. \A f \in wire : f.call < k => f.call < k + 1
    BY <1>1
  <2> QED BY <2>1, <1>a DEF Frames
<1>12. History(K, wire, last_incarnation)
  <2> SUFFICES ASSUME NEW c \in DOMAIN K
               PROVE  /\ K[c].ever_sent <=> \E f \in wire : f.call = c
                      /\ \A f \in wire : f.call = c =>
                           f.incarnation = last_incarnation /\ f.keyed = K[c].keyed
                      /\ K[c].phase = "sent" =>
                           \E f \in wire : /\ f.call = c /\ f.wire_id = K[c].wire_id
                                           /\ f.generation = K[c].generation
    BY DEF History
  <2>1. CASE c = k
    BY <2>1, <1>1, <1>2, <1>3
  <2>2. CASE c \in DOMAIN ledger
    BY <2>2, <1>a, <1>3 DEF History
  <2> QED BY <2>1, <2>2, <1>3
<1>13. Fresh(K, replay_hold, q, wire, generation)
  <2>1. /\ queue \in Seq(Calls) /\ Increasing(queue)
        /\ Elements(replay_hold) \cup Elements(queue) = Queued(ledger)
    BY <1>a DEF Unsent
  <2>2. \A d \in Queued(ledger) : d < k /\ d \in DOMAIN ledger /\ K[d] = ledger[d]
    BY <1>a, <1>3 DEF Rows, Queued
  <2>3. Elements(q) = Elements(queue) \cup {k}
    BY <2>1, <2>2, <1>1, AppendIncreases
  <2> HIDE DEF q
  <2>4. \A f \in wire : f.call < k
    BY <1>a DEF Frames
  <2> QED BY <2>1, <2>2, <2>3, <2>4, <1>a, <1>2, <1>3 DEF Fresh
<1>14. Tables(K, wire_index, replay_hold, q, tombstones, in_flight_count, outcome, wire,
              generation, last_incarnation, next_wire_id, k + 1)
  BY <1>a, <1>5, <1>6, <1>7, <1>8, <1>9, <1>10, <1>11, <1>12, <1>13 DEF Tables
<1>15. Sent(K) # {} => state = "Ready"
  BY <1>4 DEF CallInv, Settled
<1>16. count \in Nat
  BY DEF CallInv, Settled
<1> HIDE DEF q, count, bytes
<1>17. Tables(K, wire_index, replay_hold, q, tombstones', in_flight_count, outcome, wire,
              generation, last_incarnation, next_wire_id, next_call_id')
  BY <1>0, <1>1, <1>14
<1> QED BY <1>0, <1>15, <1>16, <1>17, FlushStep

LEMMA DispatchStep ==
    ASSUME CallInv, LifecycleInv', Dispatch
    PROVE  CallInv'
<1>1. CASE DispatchRefused
  <2>1. "cancelled_not" \in NotExecuted
    BY DEF NotExecuted
  <2> QED BY <1>1, <2>1, RefusedStep DEF DispatchRefused
<1>2. ASSUME NEW shape \in CallShapes, DispatchQueueFull(shape)
      PROVE  CallInv'
  <2>1. "queue_full" \in NotExecuted
    BY DEF NotExecuted
  <2> QED BY <1>2, <2>1, RefusedStep DEF DispatchQueueFull
<1>3. ASSUME NEW shape \in CallShapes, DispatchAdmitted(shape)
      PROVE  CallInv'
  BY <1>3, AdmittedStep
<1> QED BY <1>1, <1>2, <1>3 DEF Dispatch

\* Stop and terminal failure: every awaited call is settled by what it was.
LEMMA DrainStep ==
    ASSUME CallInv, LifecycleInv', state' # "Ready",
           UNCHANGED <<generation, last_incarnation, stable_principal, next_call_id>>,
           NEW L, NEW out, NEW maybe \in MayHaveExecuted, NEW never \in NotExecuted,
           DrainAll(L, out, maybe, never),
           \A c \in DOMAIN L : /\ c < next_call_id
                               /\ L[c].ever_sent <=> \E f \in wire : f.call = c,
           Answers(L, out, next_call_id), Claims(out, wire)
    PROVE  CallInv'
<1>1. /\ ledger' = Empty /\ wire_index' = Empty /\ queue' = <<>> /\ replay_hold' = <<>>
      /\ tombstones' = <<>> /\ in_flight_count' = 0 /\ queued_count' = 0
      /\ outcome' = Settle(out, Live(L), LAMBDA c : Drained(L, c, maybe, never))
      /\ next_wire_id' = next_wire_id /\ wire' = wire
  BY DEF DrainAll
<1>a. /\ next_call_id \in 0..MaxCalls
      /\ Frames(wire, generation, last_incarnation, next_wire_id, next_call_id)
      /\ Deduplicated(wire)
  BY DEF CallInv, TablesNow, Tables, Rows
<1>2. DOMAIN Empty = {} /\ Live(Empty) = {} /\ Sent(Empty) = {} /\ Queued(Empty) = {}
      /\ Elements(<<>>) = {} /\ Increasing(<<>>) /\ Distinct(<<>>)
      /\ <<>> \in Seq(Calls) /\ Len(<<>>) = 0
  <2>1. DOMAIN Empty = {}
    BY DEF Empty
  <2>2. /\ Elements(<<>>) = {} /\ Increasing(<<>>) /\ Distinct(<<>>)
        /\ <<>> \in Seq(Calls) /\ Len(<<>>) = 0
    BY DEF Elements, Increasing, Distinct
  <2> QED BY <2>1, <2>2 DEF Live, Sent, Queued
<1>3. Rows(Empty, next_call_id)
  BY <1>a, <1>2 DEF Rows
<1>4. Unsent(Empty, <<>>, <<>>, 0)
  <2>1. 0 + Len(<<>>) <= InFlight
    BY <1>2, LimitsAssumption
  <2> QED BY <2>1, <1>2 DEF Unsent
<1>5. Buried(Empty, <<>>) /\ Slots(Empty, 0) /\ Routes(Empty, Empty, generation)
  <2>1. Cardinality({}) = 0
    BY FS_EmptySet
  <2> QED BY <2>1, <1>2 DEF Buried, Slots, Routes
<1>6. /\ out \in [Calls -> Outcomes]
      /\ \A c \in Calls :
           /\ (c < next_call_id /\ out[c] = "none") <=> (c \in DOMAIN L /\ ~L[c].cancelled)
           /\ c >= next_call_id => out[c] = "none"
           /\ out[c] \notin {"twice", "misrouted"}
  BY DEF Answers
<1>7. /\ DOMAIN outcome' = Calls
      /\ outcome' = [c \in Calls |-> outcome'[c]]
      /\ \A c \in Calls : c \notin Live(L) => outcome'[c] = out[c]
      /\ \A c \in Calls : c \in Live(L) => outcome'[c] = Drained(L, c, maybe, never)
  <2>1. DOMAIN out = Calls
    BY <1>6
  <2>2. outcome' = [c \in Calls |->
          IF c \in Live(L) THEN IF out[c] = "none" THEN Drained(L, c, maybe, never)
                                ELSE "twice"
          ELSE out[c]]
    BY <2>1, <1>1 DEF Settle
  <2>3. \A c \in Calls : c \in Live(L) => out[c] = "none"
    BY <1>6 DEF Live
  <2> QED BY <2>2, <2>3
<1>8. \A c \in Calls : c \in Live(L) =>
        /\ outcome'[c] \in {"timeout"} \cup MayHaveExecuted \cup NotExecuted
        /\ outcome'[c] \in MayHaveExecuted => L[c].ever_sent
        /\ outcome'[c] \in NotExecuted => ~L[c].ever_sent
  <2>1. MayHaveExecuted \cap NotExecuted = {} /\ "timeout" \notin MayHaveExecuted \cup NotExecuted
    BY DEF MayHaveExecuted, NotExecuted
  <2> QED BY <2>1, <1>7 DEF Drained
<1>9. Answers(Empty, outcome', next_call_id)
  <2>1. \A c \in Calls : /\ outcome'[c] \in Outcomes
                         /\ outcome'[c] = "none" => c >= next_call_id
                         /\ c >= next_call_id => outcome'[c] = "none"
                         /\ ~(c >= next_call_id /\ c < next_call_id)
                         /\ outcome'[c] \notin {"twice", "misrouted"}
    <3> SUFFICES ASSUME NEW c \in Calls
                 PROVE  /\ outcome'[c] \in Outcomes
                        /\ outcome'[c] = "none" => c >= next_call_id
                        /\ c >= next_call_id => outcome'[c] = "none"
                        /\ ~(c >= next_call_id /\ c < next_call_id)
                        /\ outcome'[c] \notin {"twice", "misrouted"}
      OBVIOUS
    <3>1. /\ c \in Nat /\ next_call_id \in Nat
          /\ c >= next_call_id \/ c < next_call_id
          /\ ~(c >= next_call_id /\ c < next_call_id)
      BY <1>a, CallsAreNat, MaxCallsAssumption
    <3>2. CASE c \in Live(L)
      <4>1. c < next_call_id
        BY <3>2 DEF Live
      <4>2. outcome'[c] \in {"timeout"} \cup MayHaveExecuted \cup NotExecuted
        BY <3>2, <1>8
      <4>3. /\ outcome'[c] \in Outcomes
            /\ outcome'[c] \notin {"none", "twice", "misrouted"}
        BY <4>2 DEF Outcomes, MayHaveExecuted, NotExecuted
      <4> QED BY <4>1, <4>3, <3>1
    <3>3. CASE c \notin Live(L)
      <4>1. outcome'[c] = out[c] /\ out[c] \in Outcomes
        BY <3>3, <1>7, <1>6
      <4>2. out[c] = "none" => ~(c < next_call_id)
        BY <3>3, <1>6 DEF Live
      <4> QED BY <4>1, <4>2, <3>1, <1>6
    <3> QED BY <3>2, <3>3
  <2>2. outcome' \in [Calls -> Outcomes]
    BY <2>1, <1>7
  <2> QED BY <2>1, <2>2, <1>2 DEF Answers
<1>10. History(Empty, wire, last_incarnation) /\ Fresh(Empty, <<>>, <<>>, wire, generation)
  BY <1>2 DEF History, Fresh
<1>11. Claims(outcome', wire)
  <2> SUFFICES ASSUME NEW c \in Calls
               PROVE  /\ outcome'[c] \in NotExecuted => \A f \in wire : f.call # c
                      /\ outcome'[c] \in MayHaveExecuted => \E f \in wire : f.call = c
    BY DEF Claims
  <2>1. CASE c \in Live(L)
    <3>1. L[c].ever_sent <=> \E f \in wire : f.call = c
      BY <2>1 DEF Live
    <3> QED BY <3>1, <2>1, <1>8
  <2>2. CASE c \notin Live(L)
    BY <2>2, <1>7 DEF Claims
  <2> QED BY <2>1, <2>2
<1>12. Tables(Empty, Empty, <<>>, <<>>, <<>>, 0, outcome', wire, generation,
              last_incarnation, next_wire_id, next_call_id)
  BY <1>a, <1>3, <1>4, <1>5, <1>9, <1>10, <1>11 DEF Tables
<1>13. Tables(ledger', wire_index', replay_hold', queue', tombstones', in_flight_count',
              outcome', wire', generation', last_incarnation', next_wire_id',
              next_call_id')
  BY <1>1, <1>12
<1>14. TablesNow'
  BY <1>13, TablesNext
<1>15. Sent(ledger') = {}
  BY <1>1, <1>2
<1>16. Settled'
  <2>1. stable_principal \in BOOLEAN
    BY DEF CallInv, Settled
  <2> QED BY <2>1, <1>1, <1>15 DEF Settled, NoIdleSlot, Sent
<1> QED BY <1>14, <1>16 DEF CallInv

\* Nothing but the lifecycle changes, and the client is not Ready afterwards.
LEMMA IdleStep ==
    ASSUME CallInv, LifecycleInv', state # "Ready", state' # "Ready",
           UNCHANGED <<generation, last_incarnation, work, stable_principal, next_call_id,
                       tombstones>>
    PROVE  CallInv'
<1>1. TablesNow'
  BY TablesNext DEF CallInv, TablesNow, work
<1>2. Settled'
  BY DEF CallInv, Settled, NoIdleSlot, work, Sent
<1> QED BY <1>1, <1>2 DEF CallInv

LEMMA LedgerHonest ==
    ASSUME CallInv
    PROVE  /\ \A c \in DOMAIN ledger : /\ c < next_call_id
                                       /\ ledger[c].ever_sent <=> \E f \in wire : f.call = c
           /\ Answers(ledger, outcome, next_call_id) /\ Claims(outcome, wire)
  BY DEF CallInv, TablesNow, Tables, Rows, History

LEMMA FailAllStep ==
    ASSUME CallInv, LifecycleInv', FailAll(ledger, outcome),
           UNCHANGED <<generation, last_incarnation, stable_principal, next_call_id>>
    PROVE  CallInv'
<1>1. "disconnected_unknown" \in MayHaveExecuted /\ "disconnected_not" \in NotExecuted
  BY DEF MayHaveExecuted, NotExecuted
<1>2. state' # "Ready" /\ DrainAll(ledger, outcome, "disconnected_unknown", "disconnected_not")
  BY DEF FailAll
<1> QED BY <1>1, <1>2, LedgerHonest, DrainStep

LEMMA StopStep ==
    ASSUME CallInv, LifecycleInv', Stop
    PROVE  CallInv'
<1>1. "cancelled_unknown" \in MayHaveExecuted /\ "cancelled_not" \in NotExecuted
  BY DEF MayHaveExecuted, NotExecuted
<1>2. /\ state' # "Ready" /\ DrainAll(ledger, outcome, "cancelled_unknown", "cancelled_not")
      /\ UNCHANGED <<generation, last_incarnation, stable_principal, next_call_id>>
  BY DEF Stop
<1> QED BY <1>1, <1>2, LedgerHonest, DrainStep

\* A dial outcome finds the client between connections.
LEMMA DialingIsNotReady ==
    ASSUME LifecycleInv, pending_dial # 0 \/ backoff_timer
    PROVE  state \in {"Connecting", "Interrupted"}
  BY DEF LifecycleInv, ReconnectDriven

LEMMA DialLostStep ==
    ASSUME CallInv, LifecycleInv', NEW token \in Tokens,
           DialFailed(token) \/ GateRefused(token)
    PROVE  CallInv'
<1>1. pending_dial # 0 /\ UNCHANGED <<generation, last_incarnation, stable_principal,
                                      next_call_id>>
  BY DEF DialFailed, GateRefused, OutstandingDial
<1>2. state \in {"Connecting", "Interrupted"}
  BY <1>1, DialingIsNotReady DEF CallInv
<1>3. CASE FailAll(ledger, outcome)
  BY <1>1, <1>3, FailAllStep
<1>4. CASE ScheduleReconnect /\ UNCHANGED <<work, tombstones>>
  <2>1. state # "Ready" /\ state' # "Ready"
    BY <1>2, <1>4 DEF ScheduleReconnect
  <2> QED BY <2>1, <1>1, <1>4, IdleStep
<1> QED BY <1>3, <1>4 DEF DialFailed, GateRefused

LEMMA StartOrBackoffStep ==
    ASSUME CallInv, LifecycleInv', Start \/ BackoffFires
    PROVE  CallInv'
<1>1. CASE Start
  <2>1. state # "Ready" /\ state' # "Ready"
    BY <1>1 DEF Start
  <2> QED BY <2>1, <1>1, IdleStep DEF Start
<1>2. CASE BackoffFires
  <2>1. state \in {"Connecting", "Interrupted"} /\ state' = state
    BY <1>2, DialingIsNotReady DEF BackoffFires, CallInv
  <2>2. state # "Ready" /\ state' # "Ready"
    BY <2>1
  <2> QED BY <2>2, <1>2, IdleStep DEF BackoffFires
<1> QED BY <1>1, <1>2

\* A fresh connection has carried nothing yet.  What was sent before is known to
\* the daemon process it reaches, or is not in the ledger any more.
LEMMA ReconnectTables ==
    ASSUME NEW L, NEW idx, NEW hold, NEW q, NEW T, NEW n, NEW out, NEW W, NEW g, NEW inc,
           NEW w, NEW m, Tables(L, idx, hold, q, T, n, out, W, g, inc, w, m),
           NEW i \in Incarnations,
           Sent(L) = {}, inc # i => \A c \in DOMAIN L : ~L[c].ever_sent
    PROVE  /\ Tables(L, Empty, hold, q, T, n, out, W, g + 1, i, 0, m)
           /\ \A f \in W : f.generation < g + 1
<1>a. /\ Rows(L, m) /\ Unsent(L, hold, q, n) /\ Buried(L, T) /\ Slots(L, n)
      /\ Routes(L, idx, g) /\ Answers(L, out, m) /\ Frames(W, g, inc, w, m)
      /\ History(L, W, inc) /\ Fresh(L, hold, q, W, g) /\ Claims(out, W) /\ Deduplicated(W)
  BY DEF Tables
<1>1. /\ g \in Nat /\ g + 1 \in Nat /\ i # 0
      /\ \A f \in W : /\ f.generation <= g + 1 /\ f.generation # g + 1
                      /\ f.generation < g + 1
  <2>1. \A f \in W : f.generation \in Nat /\ f.generation <= g
    BY <1>a DEF Frames, Frame
  <2>2. g \in Nat
    BY <1>a DEF Frames
  <2> QED BY <2>1, <2>2, BoundsAssumption
<1>2. Routes(L, Empty, g + 1)
  <2>1. DOMAIN Empty = {}
    BY DEF Empty
  <2> QED BY <2>1 DEF Routes
<1>3. Frames(W, g + 1, i, 0, m)
  BY <1>1, <1>a DEF Frames
<1>4. History(L, W, i)
  <2> SUFFICES ASSUME NEW c \in DOMAIN L
               PROVE  /\ L[c].ever_sent <=> \E f \in W : f.call = c
                      /\ \A f \in W : f.call = c => f.incarnation = i /\ f.keyed = L[c].keyed
                      /\ L[c].phase # "sent"
    BY DEF History
  <2>1. /\ L[c].ever_sent <=> \E f \in W : f.call = c
        /\ \A f \in W : f.call = c => f.incarnation = inc /\ f.keyed = L[c].keyed
    BY <1>a DEF History
  <2>2. L[c].phase # "sent"
    BY DEF Sent
  <2> QED BY <2>1, <2>2
<1>5. Fresh(L, hold, q, W, g + 1)
  BY <1>1, <1>a DEF Fresh
<1>6. Tables(L, Empty, hold, q, T, n, out, W, g + 1, i, 0, m)
  BY <1>a, <1>2, <1>3, <1>4, <1>5 DEF Tables
<1> QED BY <1>1, <1>6

LEMMA ConnectedStep ==
    ASSUME CallInv, LifecycleInv', NEW token \in Tokens, NEW i \in Incarnations,
           Connected(token, i)
    PROVE  CallInv'
<1> DEFINE held == IF Restarted(i) THEN Elements(replay_hold) ELSE {}
           L == Take(ledger, held)
           hold == IF Restarted(i) THEN <<>> ELSE replay_hold
           q == IF Restarted(i) THEN queue ELSE replay_hold \o queue
           count == SatSub(queued_count, Cardinality(Charged(ledger, held)))
           bytes == SatSub(queued_bytes, ByteSum(ledger, Charged(ledger, held)))
           out == Settle(outcome, held, LAMBDA c : "disconnected_unknown")
<1>0. /\ pending_dial # 0 /\ generation' = generation + 1 /\ last_incarnation' = i
      /\ state' = "Ready"
      /\ FlushReady(L, Empty, q, in_flight_count, count, bytes, out, 0)
      /\ UNCHANGED <<stable_principal, next_call_id, tombstones>>
  BY DEF Connected, OutstandingDial
<1>1. Sent(ledger) = {} /\ TablesNow /\ queued_count \in Nat /\ stable_principal \in BOOLEAN
  <2>1. state \in {"Connecting", "Interrupted"}
    BY <1>0, DialingIsNotReady DEF CallInv
  <2> QED BY <2>1 DEF CallInv, Settled
<1>a. /\ Rows(ledger, next_call_id) /\ Unsent(ledger, replay_hold, queue, in_flight_count)
      /\ Buried(ledger, tombstones) /\ Slots(ledger, in_flight_count)
      /\ Routes(ledger, wire_index, generation) /\ Answers(ledger, outcome, next_call_id)
      /\ Frames(wire, generation, last_incarnation, next_wire_id, next_call_id)
      /\ History(ledger, wire, last_incarnation)
      /\ Fresh(ledger, replay_hold, queue, wire, generation) /\ Claims(outcome, wire)
  BY <1>1 DEF TablesNow, Tables
<1>2. /\ queue \in Seq(Calls) /\ Increasing(queue)
      /\ replay_hold \in Seq(Calls) /\ Increasing(replay_hold)
      /\ \A c \in Elements(replay_hold), d \in Elements(queue) : c < d
      /\ Elements(replay_hold) \cup Elements(queue) = Queued(ledger)
      /\ in_flight_count + Len(replay_hold) <= InFlight
      /\ in_flight_count = Cardinality(Sent(ledger) \cap Live(ledger))
      /\ in_flight_count \in Nat
  BY <1>a DEF Unsent, Slots
<1>3. \A c \in Elements(replay_hold) :
        /\ c \in DOMAIN ledger /\ c \in Calls /\ ~ledger[c].cancelled /\ outcome[c] = "none"
        /\ ledger[c].ever_sent /\ c \notin Elements(queue) /\ c \in Live(ledger)
  <2>1. \A c \in Elements(replay_hold) : c \in Queued(ledger) /\ c \in DOMAIN ledger
    BY <1>2 DEF Queued
  <2>2. \A c \in Elements(replay_hold) : ledger[c].ever_sent
    BY <1>a DEF Fresh
  <2>3. \A c \in Elements(replay_hold) :
          c \in Calls /\ ~ledger[c].cancelled /\ outcome[c] = "none" /\ c \in Nat
    BY <2>1, <1>1, EntryFacts
  <2>4. \A c \in Elements(replay_hold) : c \notin Elements(queue)
    <3>1. \A c \in Nat : ~(c < c)
      OBVIOUS
    <3> QED BY <3>1, <2>3, <1>2
  <2> QED BY <2>1, <2>2, <2>3, <2>4 DEF Live
<1>4. /\ hold \in Seq(Calls) /\ Increasing(hold)
      /\ Elements(hold) = Elements(replay_hold) \ held
      /\ in_flight_count + Len(hold) <= InFlight
      /\ q = hold \o queue
  <2>1. CASE Restarted(i)
    <3>1. /\ Elements(<<>>) = {} /\ Increasing(<<>>) /\ <<>> \in Seq(Calls) /\ Len(<<>>) = 0
      BY DEF Elements, Increasing
    <3>2. <<>> \o queue = queue
      BY <1>2
    <3>3. in_flight_count + Len(<<>>) <= InFlight
      <4>1. Len(replay_hold) \in Nat
        BY <1>2
      <4> QED BY <4>1, <3>1, <1>2, LimitsAssumption
    <3>4. hold = <<>> /\ held = Elements(replay_hold) /\ q = queue
      BY <2>1
    <3> HIDE DEF hold, held, q
    <3>5. Elements(hold) = Elements(replay_hold) \ held
      BY <3>1, <3>4
    <3> QED BY <3>1, <3>2, <3>3, <3>4, <3>5
  <2>2. CASE ~Restarted(i)
    <3>1. hold = replay_hold /\ held = {} /\ q = replay_hold \o queue
      BY <2>2
    <3> HIDE DEF hold, held, q
    <3> QED BY <3>1, <1>2
  <2> QED BY <2>1, <2>2
<1>5. held \subseteq Elements(replay_hold)
  OBVIOUS
<1>6. /\ out \in [Calls -> Outcomes]
      /\ \A c \in Calls : c \notin held \cap Live(ledger) => out[c] = outcome[c]
      /\ \A c \in held \cap Live(ledger) : MayBeTold(out[c], ledger[c])
  <2> HIDE DEF held
  <2>1. outcome \in [Calls -> Outcomes] /\ DOMAIN outcome = Calls
    BY <1>a DEF Answers
  <2>2. out = [c \in Calls |-> IF c \in held
                               THEN IF outcome[c] = "none" THEN "disconnected_unknown"
                                    ELSE "twice"
                               ELSE outcome[c]]
    BY <2>1 DEF Settle
  <2>3. "disconnected_unknown" \in Outcomes /\ "disconnected_unknown" \in MayHaveExecuted
        /\ "twice" \in Outcomes
    BY DEF Outcomes, MayHaveExecuted
  <2> HIDE DEF out
  <2>4. \A c \in held : out[c] = "disconnected_unknown"
    BY <2>2, <1>3, <1>5
  <2> QED BY <2>1, <2>2, <2>3, <2>4, <1>3, <1>5 DEF MayBeTold
<1> HIDE DEF held, hold, q, out
<1>7. Removal(ledger, held, wire_index, replay_hold, queue, tombstones, outcome,
              Empty, hold, queue, tombstones, in_flight_count, out)
  <2>1. held \subseteq DOMAIN ledger /\ held \cap Sent(ledger) = {}
    BY <1>1, <1>3, <1>5
  <2>2. DOMAIN Empty = {} /\ DOMAIN wire_index = {}
    BY <1>1, <1>a DEF Routes, Empty
  <2>3. Elements(queue) = Elements(queue) \ held
    BY <1>3, <1>5
  <2>4. /\ tombstones \in Seq(Calls) /\ Distinct(tombstones)
        /\ Elements(tombstones) = Elements(tombstones) \ held
    <3>1. /\ tombstones \in Seq(Calls) /\ Distinct(tombstones)
          /\ Elements(tombstones) = DOMAIN ledger \ Live(ledger)
      BY <1>a DEF Buried
    <3> QED BY <3>1, <1>3, <1>5
  <2>5. in_flight_count = Cardinality((Sent(ledger) \cap Live(ledger)) \ held)
    <3>1. (Sent(ledger) \cap Live(ledger)) \ held = Sent(ledger) \cap Live(ledger)
      BY <1>1
    <3> QED BY <3>1, <1>2
  <2> QED BY <2>1, <2>2, <2>3, <2>4, <2>5, <1>2, <1>4, <1>6 DEF Removal
<1>8. Tables(L, Empty, hold, queue, tombstones, in_flight_count, out, wire, generation,
             last_incarnation, next_wire_id, next_call_id)
  BY <1>1, <1>7, RemoveTables DEF TablesNow
<1>9. last_incarnation # i => \A c \in DOMAIN L : ~L[c].ever_sent
  <2>1. CASE Restarted(i)
    <3>1. held = Elements(replay_hold)
      BY <2>1 DEF held
    <3>2. ASSUME NEW c \in DOMAIN L PROVE ~L[c].ever_sent
      <4>1. c \in DOMAIN ledger /\ c \notin held /\ L[c] = ledger[c]
        BY DEF Take
      <4>2. c \in Queued(ledger)
        BY <4>1, <1>1, EntryFacts
      <4>3. c \in Elements(queue)
        BY <4>1, <4>2, <3>1, <1>2
      <4> QED BY <4>1, <4>3, <1>a DEF Fresh
    <3> QED BY <3>2
  <2>2. CASE ~Restarted(i)
    <3>1. last_incarnation # i => last_incarnation = 0
      BY <2>2 DEF Restarted
    <3>2. last_incarnation = 0 => \A f \in wire : FALSE
      BY <1>a DEF Frames
    <3>3. \A c \in DOMAIN L : c \in DOMAIN ledger /\ L[c] = ledger[c]
      BY DEF Take
    <3>4. last_incarnation = 0 => \A c \in DOMAIN ledger : ~ledger[c].ever_sent
      BY <3>2, <1>a DEF History
    <3> QED BY <3>1, <3>3, <3>4
  <2> QED BY <2>1, <2>2
<1>10. Sent(L) = {}
  <2>1. Sent(L) \subseteq Sent(ledger)
    BY DEF Take, Sent
  <2> QED BY <2>1, <1>1
<1>11. count \in Nat
  <2>1. held \in SUBSET Calls
    BY <1>3, <1>5
  <2> QED BY <2>1, <1>1, SatSubIsNat
<1> HIDE DEF L, count, bytes
<1>12. /\ Tables(L, Empty, hold, queue, tombstones, in_flight_count, out, wire,
                 generation + 1, i, 0, next_call_id)
       /\ \A f \in wire : f.generation < generation + 1
  BY <1>8, <1>9, <1>10, ReconnectTables
<1>13. /\ Tables(L, Empty, hold, queue, tombstones', in_flight_count, out, wire,
                 generation', last_incarnation', 0, next_call_id')
       /\ hold # <<>> => \A f \in wire : f.generation < generation'
       /\ last_incarnation' # 0
       /\ FlushReady(L, Empty, hold \o queue, in_flight_count, count, bytes, out, 0)
  BY <1>0, <1>4, <1>12, BoundsAssumption
<1>14. /\ Tables(ledger', wire_index', <<>>, queue', tombstones', in_flight_count',
                 outcome', wire', generation', last_incarnation', next_wire_id',
                 next_call_id')
       /\ replay_hold' = <<>> /\ queued_count' \in Nat
       /\ queue' # <<>> => in_flight_count' = InFlight
  BY <1>11, <1>13, FlushTables
<1>15. Tables(ledger', wire_index', replay_hold', queue', tombstones', in_flight_count',
              outcome', wire', generation', last_incarnation', next_wire_id',
              next_call_id')
  BY <1>14
<1>16. TablesNow'
  BY <1>0, <1>15, TablesNext
<1>17. Settled'
  BY <1>0, <1>1, <1>13, <1>14 DEF Settled, NoIdleSlot
<1> QED BY <1>16, <1>17 DEF CallInv

\* The sent calls of a lost connection are held, in call order: they come before
\* every queued call.
LEMMA HoldTables ==
    ASSUME NEW K, NEW idx, NEW q, NEW n, NEW out, NEW W, NEW g, NEW inc,
           NEW w, NEW m, Tables(K, idx, <<>>, q, <<>>, n, out, W, g, inc, w, m),
           \A c \in Sent(K) : K[c].replayable,
           NEW L, DOMAIN L = DOMAIN K,
           \A c \in DOMAIN K : L[c] = IF c \in Sent(K) THEN [K[c] EXCEPT !.phase = "queued"]
                                      ELSE K[c],
           NEW held \in InCallOrder(Sent(K))
    PROVE  Tables(L, Empty, held, q, <<>>, 0, out, W, g, inc, w, m) /\ Sent(L) = {}
<1>a. /\ Rows(K, m) /\ Unsent(K, <<>>, q, n) /\ Buried(K, <<>>) /\ Slots(K, n)
      /\ Routes(K, idx, g) /\ Answers(K, out, m) /\ Frames(W, g, inc, w, m)
      /\ History(K, W, inc) /\ Fresh(K, <<>>, q, W, g) /\ Claims(out, W) /\ Deduplicated(W)
  BY DEF Tables
<1>k. \A c \in DOMAIN K : /\ c \in Calls /\ c < m /\ K[c] \in Entry
                          /\ K[c].phase \in {"queued", "sent"}
                          /\ K[c].phase = "sent" => K[c].ever_sent
                          /\ K[c].replayable => K[c].keyed /\ stable_principal
                          /\ ~K[c].cancelled
  <2>1. DOMAIN K \ Live(K) = {}
    BY <1>a DEF Buried, Elements
  <2> QED BY <2>1, <1>a DEF Rows, Entry, Live
<1>f. \A c \in DOMAIN K : /\ L[c].phase = "queued" /\ L[c].keyed = K[c].keyed
                          /\ L[c].replayable = K[c].replayable
                          /\ L[c].ever_sent = K[c].ever_sent
                          /\ L[c].cancelled = K[c].cancelled
                          /\ L[c] \in Entry
  <2> SUFFICES ASSUME NEW c \in DOMAIN K
               PROVE  /\ L[c].phase = "queued" /\ L[c].keyed = K[c].keyed
                      /\ L[c].replayable = K[c].replayable
                      /\ L[c].ever_sent = K[c].ever_sent
                      /\ L[c].cancelled = K[c].cancelled
                      /\ L[c] \in Entry
    OBVIOUS
  <2> DEFINE e == K[c]
  <2>1. e \in Entry /\ e.phase \in {"queued", "sent"}
    BY <1>k
  <2>2. CASE c \in Sent(K)
    <3>1. L[c] = [e EXCEPT !.phase = "queued"]
      BY <2>2
    <3> HIDE DEF e
    <3>2. /\ L[c].phase = "queued" /\ L[c].keyed = e.keyed
          /\ L[c].replayable = e.replayable /\ L[c].ever_sent = e.ever_sent
          /\ L[c].cancelled = e.cancelled /\ L[c] \in Entry
      BY <2>1, <3>1 DEF Entry
    <3> QED BY <3>2 DEF e
  <2>3. CASE c \notin Sent(K)
    <3>1. L[c] = e /\ e.phase # "sent"
      BY <2>3 DEF Sent
    <3> HIDE DEF e
    <3>2. /\ L[c].phase = "queued" /\ L[c].keyed = e.keyed
          /\ L[c].replayable = e.replayable /\ L[c].ever_sent = e.ever_sent
          /\ L[c].cancelled = e.cancelled /\ L[c] \in Entry
      BY <2>1, <3>1
    <3> QED BY <3>2 DEF e
  <2> QED BY <2>2, <2>3
<1>s. /\ Sent(L) = {} /\ Queued(L) = DOMAIN K /\ Live(L) = DOMAIN K
      /\ DOMAIN K = Sent(K) \cup Queued(K) /\ Sent(K) \cap Queued(K) = {}
      /\ Live(K) = DOMAIN K
  BY <1>k, <1>f DEF Sent, Queued, Live
<1>h. /\ held \in Seq(Calls) /\ Increasing(held) /\ Elements(held) = Sent(K)
      /\ Len(held) = n /\ n \in Nat
  <2>1. Sent(K) \in SUBSET Calls
    BY <1>k, <1>s
  <2>2. IsFiniteSet(Sent(K)) /\ Cardinality(Sent(K)) \in Nat
    BY <2>1, CallsAreNat, FS_Subset, FS_CardinalityType
  <2>3. /\ held \in [1..Cardinality(Sent(K)) -> Sent(K)] /\ Elements(held) = Sent(K)
        /\ \A i, j \in DOMAIN held : i < j => held[i] < held[j]
    BY DEF InCallOrder
  <2>4. held \in [1..Cardinality(Sent(K)) -> Calls]
    BY <2>1, <2>3
  <2>5. held \in Seq(Calls) /\ Len(held) = Cardinality(Sent(K))
    BY <2>2, <2>4
  <2>6. n = Cardinality(Sent(K))
    <3>1. Sent(K) \cap Live(K) = Sent(K)
      BY <1>s
    <3> QED BY <3>1, <1>a DEF Slots
  <2> QED BY <2>2, <2>3, <2>5, <2>6 DEF Increasing
<1>1. Rows(L, m)
  BY <1>a, <1>k, <1>f DEF Rows
<1>2. Unsent(L, held, q, 0)
  <2>1. q \in Seq(Calls) /\ Increasing(q) /\ Elements(q) = Queued(K) /\ n + 0 <= InFlight
    <3>1. Elements(<<>>) = {} /\ Len(<<>>) = 0
      BY DEF Elements
    <3> QED BY <3>1, <1>a DEF Unsent
  <2>2. ASSUME NEW c \in Elements(held), NEW d \in Elements(q)
        PROVE  c < d
    <3>1. c \in Sent(K) /\ c \in DOMAIN K /\ K[c].phase = "sent"
      BY <1>h DEF Sent
    <3>2. PICK f \in W : f.call = c /\ f.generation = K[c].generation
      BY <3>1, <1>a DEF History
    <3>3. f.generation = g
      BY <3>1, <3>2, <1>a DEF Routes
    <3> QED BY <3>2, <3>3, <1>a DEF Fresh
  <2>3. Elements(held) \cup Elements(q) = Queued(L)
    BY <2>1, <1>h, <1>s
  <2>4. 0 + Len(held) <= InFlight
    BY <2>1, <1>h, LimitsAssumption
  <2> QED BY <2>1, <2>2, <2>3, <2>4, <1>h DEF Unsent
<1>3. Buried(L, <<>>)
  <2>1. DOMAIN L \ Live(L) = {} /\ DOMAIN K \ Live(K) = {}
    BY <1>s
  <2> QED BY <2>1, <1>a DEF Buried
<1>4. Slots(L, 0)
  <2>1. Sent(L) \cap Live(L) = {} /\ Cardinality({}) = 0
    BY <1>s, FS_EmptySet
  <2> QED BY <2>1 DEF Slots
<1>5. Routes(L, Empty, g)
  <2>1. DOMAIN Empty = {}
    BY DEF Empty
  <2> QED BY <2>1, <1>s DEF Routes
<1>6. Answers(L, out, m)
  BY <1>a, <1>f DEF Answers
<1>7. History(L, W, inc)
  <2> SUFFICES ASSUME NEW c \in DOMAIN L
               PROVE  /\ L[c].ever_sent <=> \E f \in W : f.call = c
                      /\ \A f \in W : f.call = c => f.incarnation = inc /\ f.keyed = L[c].keyed
                      /\ L[c].phase # "sent"
    BY DEF History
  <2>1. /\ K[c].ever_sent <=> \E f \in W : f.call = c
        /\ \A f \in W : f.call = c => f.incarnation = inc /\ f.keyed = K[c].keyed
    BY <1>a DEF History
  <2> QED BY <2>1, <1>f
<1>8. Fresh(L, held, q, W, g)
  <2>1. \A c \in Elements(q) : c \in DOMAIN K
    BY <1>a DEF Unsent, Queued
  <2>2. \A c \in Elements(held) : c \in DOMAIN K /\ K[c].ever_sent /\ K[c].replayable
    BY <1>h, <1>k DEF Sent
  <2> QED BY <2>1, <2>2, <1>a, <1>f DEF Fresh
<1>9. Tables(L, Empty, held, q, <<>>, 0, out, W, g, inc, w, m)
  BY <1>a, <1>1, <1>2, <1>3, <1>4, <1>5, <1>6, <1>7, <1>8 DEF Tables
<1> QED BY <1>9, <1>s

LEMMA InterruptedStep ==
    ASSUME CallInv, LifecycleInv', NEW gen \in 0..generation, Interrupted(gen)
    PROVE  CallInv'
<1> DEFINE sent == Sent(ledger)
           forgotten == {c \in sent : ledger[c].cancelled}
           expired == (sent \ forgotten) \cap Expired(ledger)
           hold == {c \in sent \ (forgotten \cup expired) : ledger[c].replayable}
           lost == sent \ (forgotten \cup expired \cup hold)
           S == forgotten \cup expired \cup lost
           bytes == SatSub(queued_bytes, ByteSum(ledger, Charged(ledger, expired \cup lost)))
           K == Take(ledger, S)
           L == [c \in DOMAIN ledger \ S |->
                   IF c \in hold THEN [ledger[c] EXCEPT !.phase = "queued"] ELSE ledger[c]]
           out == Settle(outcome, expired \cup lost, LAMBDA c :
                    IF c \in expired THEN "timeout" ELSE "disconnected_unknown")
<1>0. /\ state = "Ready"
      /\ UNCHANGED <<generation, last_incarnation, stable_principal, next_call_id>>
      /\ \/ FailAll(L, out)
         \/ /\ ScheduleReconnect
            /\ \E held \in InCallOrder(hold) :
                  NoFlush(L, Empty, queue, replay_hold \o held, 0,
                          queued_count + Cardinality(hold), bytes, out)
            /\ tombstones' = <<>>
  BY DEF Interrupted
<1>1. TablesNow /\ queued_count \in Nat /\ stable_principal \in BOOLEAN /\ replay_hold = <<>>
  BY <1>0 DEF CallInv, Settled, LifecycleInv, ReconnectDriven
<1>2. \A c \in sent : /\ c \in DOMAIN ledger /\ c \in Calls
                      /\ ledger[c].cancelled \in BOOLEAN /\ ledger[c].ever_sent
                      /\ ~ledger[c].cancelled => outcome[c] = "none"
  <2>1. \A c \in sent : c \in DOMAIN ledger /\ ledger[c].phase = "sent"
    BY DEF Sent
  <2>2. \A c \in sent : ledger[c].ever_sent
    BY <2>1, <1>1 DEF TablesNow, Tables, Rows
  <2>3. \A c \in sent : /\ c \in Calls /\ ledger[c].cancelled \in BOOLEAN
                        /\ ~ledger[c].cancelled => outcome[c] = "none"
    BY <2>1, <1>1, EntryFacts
  <2> HIDE DEF sent
  <2> QED BY <2>1, <2>2, <2>3
<1>3. /\ S \in SUBSET sent /\ hold = sent \ S
      /\ expired \cup lost = S \cap Live(ledger)
      /\ \A c \in hold : ledger[c].replayable
      /\ \A c \in expired \cup lost : outcome[c] = "none" /\ ledger[c].ever_sent /\ c \in Calls
  <2> HIDE DEF sent
  <2>1. \A c \in sent : c \in Live(ledger) <=> ~ledger[c].cancelled
    BY <1>2 DEF Live
  <2> QED BY <2>1, <1>2
<1>4. /\ DOMAIN K = DOMAIN ledger \ S /\ \A c \in DOMAIN K : K[c] = ledger[c]
      /\ Sent(K) = hold
  <2> HIDE DEF S, hold
  <2>1. DOMAIN K = DOMAIN ledger \ S /\ \A c \in DOMAIN K : K[c] = ledger[c]
    BY DEF Take
  <2> QED BY <2>1, <1>3 DEF Sent
<1>5. /\ DOMAIN L = DOMAIN K
      /\ \A c \in DOMAIN K : L[c] = IF c \in Sent(K) THEN [K[c] EXCEPT !.phase = "queued"]
                                    ELSE K[c]
  <2> HIDE DEF S, hold, K
  <2> QED BY <1>4
<1>6. /\ out \in [Calls -> Outcomes]
      /\ \A c \in Calls : c \notin S \cap Live(ledger) => out[c] = outcome[c]
      /\ \A c \in S \cap Live(ledger) : MayBeTold(out[c], ledger[c])
  <2> HIDE DEF expired, lost, S
  <2>1. outcome \in [Calls -> Outcomes] /\ DOMAIN outcome = Calls
    BY <1>1, TombstoneFacts
  <2>2. out = [c \in Calls |-> IF c \in expired \cup lost
                               THEN IF outcome[c] = "none"
                                    THEN IF c \in expired THEN "timeout"
                                         ELSE "disconnected_unknown"
                                    ELSE "twice"
                               ELSE outcome[c]]
    BY <2>1 DEF Settle
  <2>3. /\ "disconnected_unknown" \in Outcomes /\ "disconnected_unknown" \in MayHaveExecuted
        /\ "twice" \in Outcomes /\ "timeout" \in Outcomes
    BY DEF Outcomes, MayHaveExecuted
  <2> HIDE DEF out
  <2>4. \A c \in expired \cup lost : out[c] \in {"timeout", "disconnected_unknown"}
    BY <2>2, <1>3
  <2> QED BY <2>1, <2>2, <2>3, <2>4, <1>3 DEF MayBeTold
<1> HIDE DEF L, K, S, hold, out, bytes, sent, expired, lost, forgotten
<1>s. S \in SUBSET Sent(ledger)
  BY <1>3 DEF sent
<1> DEFINE n == Cardinality((Sent(ledger) \cap Live(ledger)) \ S)
<1>7. n \in Nat /\ n <= in_flight_count
  <2>1. Sent(ledger) \cap Live(ledger) \in SUBSET Calls
    BY <1>2 DEF sent
  <2>2. /\ IsFiniteSet(Sent(ledger) \cap Live(ledger))
        /\ (Sent(ledger) \cap Live(ledger)) \ S \in SUBSET (Sent(ledger) \cap Live(ledger))
    BY <2>1, CallsAreNat, FS_Subset
  <2>3. /\ IsFiniteSet((Sent(ledger) \cap Live(ledger)) \ S)
        /\ n <= Cardinality(Sent(ledger) \cap Live(ledger))
    BY <2>2, FS_Subset
  <2>4. in_flight_count = Cardinality(Sent(ledger) \cap Live(ledger))
    BY <1>1 DEF TablesNow, Tables, Slots
  <2> QED BY <2>3, <2>4, FS_CardinalityType
<1>8. Elements(<<>>) = Elements(tombstones) \ S /\ Distinct(<<>>) /\ <<>> \in Seq(Calls)
  <2>1. Elements(tombstones) = DOMAIN ledger \ Live(ledger)
    BY <1>1, TombstoneFacts
  <2>2. \A c \in DOMAIN ledger \ Live(ledger) : c \in sent /\ ledger[c].cancelled
    BY <1>1 DEF TablesNow, Tables, Rows, Live, Sent, sent
  <2>3. \A c \in sent : ledger[c].cancelled => c \in S
    BY DEF S, forgotten
  <2>4. Elements(<<>>) = {} /\ Distinct(<<>>) /\ <<>> \in Seq(Calls)
    BY DEF Elements, Distinct
  <2> QED BY <2>1, <2>2, <2>3, <2>4
<1> DEFINE idx == Unindex(wire_index, ledger, S)
<1>n. n = Cardinality((Sent(ledger) \cap Live(ledger)) \ S)
  OBVIOUS
<1> HIDE DEF n, idx
<1>9. Tables(K, idx, <<>>, queue, <<>>, n, out, wire, generation, last_incarnation,
             next_wire_id, next_call_id)
  <2>1. Tables(Take(ledger, S), Unindex(wire_index, ledger, S), replay_hold, queue, <<>>, n,
               out, wire, generation, last_incarnation, next_wire_id, next_call_id)
    BY <1>s, <1>1, <1>6, <1>7, <1>8, <1>n, ForgetTables
  <2> QED BY <2>1, <1>1 DEF K, idx
<1>10. CASE FailAll(L, out)
  <2>1. "disconnected_unknown" \in MayHaveExecuted /\ "disconnected_not" \in NotExecuted
    BY DEF MayHaveExecuted, NotExecuted
  <2>2. state' # "Ready" /\ DrainAll(L, out, "disconnected_unknown", "disconnected_not")
    BY <1>10 DEF FailAll
  <2>3. /\ Rows(K, next_call_id) /\ Answers(K, out, next_call_id) /\ Claims(out, wire)
        /\ History(K, wire, last_incarnation)
    BY <1>9 DEF Tables
  <2>4. \A c \in DOMAIN K : L[c].ever_sent = K[c].ever_sent /\ L[c].cancelled = K[c].cancelled
    <3>1. \A c \in DOMAIN K : K[c] \in Entry
      BY <2>3 DEF Rows
    <3> QED BY <3>1, <1>5 DEF Entry
  <2>5. \A c \in DOMAIN L : /\ c < next_call_id
                            /\ L[c].ever_sent <=> \E f \in wire : f.call = c
    BY <2>3, <2>4, <1>5 DEF Rows, History
  <2>6. Answers(L, out, next_call_id)
    BY <2>3, <2>4, <1>5 DEF Answers
  <2> QED BY <1>0, <2>1, <2>2, <2>3, <2>5, <2>6, DrainStep
<1>11. ASSUME ScheduleReconnect, NEW held \in InCallOrder(hold), tombstones' = <<>>,
              NoFlush(L, Empty, queue, replay_hold \o held, 0,
                      queued_count + Cardinality(hold), bytes, out)
       PROVE  CallInv'
  <2>1. \A c \in Sent(K) : K[c].replayable
    <3>1. Sent(K) \subseteq DOMAIN K
      BY DEF Sent
    <3> QED BY <3>1, <1>3, <1>4
  <2>2. held \in InCallOrder(Sent(K))
    BY <1>4, <1>11
  <2>3. Tables(L, Empty, held, queue, <<>>, 0, out, wire, generation, last_incarnation,
               next_wire_id, next_call_id) /\ Sent(L) = {}
    BY <1>5, <1>9, <2>1, <2>2, HoldTables
  <2>4. replay_hold \o held = held
    <3>1. held \in Seq(Calls)
      BY <2>3 DEF Tables, Unsent
    <3> QED BY <3>1, <1>1
  <2>5. /\ ledger' = L /\ wire_index' = Empty /\ queue' = queue /\ replay_hold' = held
        /\ in_flight_count' = 0 /\ queued_count' = queued_count + Cardinality(hold)
        /\ outcome' = out /\ next_wire_id' = next_wire_id /\ wire' = wire
    BY <1>11, <2>4 DEF NoFlush
  <2>6. Tables(ledger', wire_index', replay_hold', queue', tombstones', in_flight_count',
               outcome', wire', generation', last_incarnation', next_wire_id',
               next_call_id')
    BY <1>0, <1>11, <2>3, <2>5
  <2>7. TablesNow'
    BY <1>0, <2>6, TablesNext
  <2>8. state' # "Ready"
    BY <1>0, <1>11 DEF ScheduleReconnect
  <2>9. queued_count' \in Nat
    <3>1. hold \in SUBSET Calls
      BY <1>2, <1>3
    <3>2. Cardinality(hold) \in Nat
      BY <3>1, CallsAreNat, FS_Subset, FS_CardinalityType
    <3> QED BY <3>2, <2>5, <1>1
  <2>10. Sent(ledger') = {}
    BY <2>3, <2>5
  <2>11. Settled'
    BY <1>0, <1>1, <2>8, <2>9, <2>10 DEF Settled, NoIdleSlot, Sent
  <2> QED BY <2>7, <2>11 DEF CallInv
<1> QED BY <1>0, <1>10, <1>11

-----------------------------------------------------------------------------
(* The invariant, and the theorems                                         *)

LEMMA CallInit == Init => CallInv
<1> SUFFICES ASSUME Init PROVE CallInv
  OBVIOUS
<1>1. /\ state = "Idle" /\ stable_principal \in BOOLEAN /\ generation = 0
      /\ last_incarnation = 0 /\ next_call_id = 0 /\ ledger = Empty /\ wire_index = Empty
      /\ queue = <<>> /\ replay_hold = <<>> /\ tombstones = <<>> /\ in_flight_count = 0
      /\ queued_count = 0 /\ next_wire_id = 0 /\ outcome = [c \in Calls |-> "none"]
      /\ wire = {}
  BY DEF Init
<1>2. LifecycleInv
  BY LifecycleInit
<1>3. DOMAIN Empty = {} /\ Live(Empty) = {} /\ Sent(Empty) = {} /\ Queued(Empty) = {}
      /\ Elements(<<>>) = {} /\ Increasing(<<>>) /\ Distinct(<<>>)
      /\ <<>> \in Seq(Calls) /\ Len(<<>>) = 0
  <2>1. DOMAIN Empty = {}
    BY DEF Empty
  <2>2. /\ Elements(<<>>) = {} /\ Increasing(<<>>) /\ Distinct(<<>>)
        /\ <<>> \in Seq(Calls) /\ Len(<<>>) = 0
    BY DEF Elements, Increasing, Distinct
  <2> QED BY <2>1, <2>2 DEF Live, Sent, Queued
<1>4. Rows(Empty, 0)
  BY <1>3, MaxCallsAssumption DEF Rows
<1>5. Unsent(Empty, <<>>, <<>>, 0)
  <2>1. 0 + Len(<<>>) <= InFlight
    BY <1>3, LimitsAssumption
  <2> QED BY <2>1, <1>3 DEF Unsent
<1>6. Buried(Empty, <<>>) /\ Slots(Empty, 0) /\ Routes(Empty, Empty, 0)
  <2>1. Cardinality({}) = 0
    BY FS_EmptySet
  <2> QED BY <2>1, <1>3 DEF Buried, Slots, Routes
<1>7. Answers(Empty, outcome, 0)
  <2>1. outcome \in [Calls -> Outcomes]
    BY <1>1 DEF Outcomes
  <2>2. \A c \in Calls : ~(c < 0) /\ outcome[c] = "none"
    BY <1>1, CallsAreNat
  <2> QED BY <2>1, <2>2, <1>3 DEF Answers
<1>8. /\ Frames({}, 0, 0, 0, 0) /\ History(Empty, {}, 0)
      /\ Fresh(Empty, <<>>, <<>>, {}, 0) /\ Deduplicated({})
  BY <1>3 DEF Frames, History, Fresh, Deduplicated
<1>9. Claims(outcome, {})
  BY <1>1 DEF Claims, NotExecuted, MayHaveExecuted
<1>10. Tables(Empty, Empty, <<>>, <<>>, <<>>, 0, outcome, {}, 0, 0, 0, 0)
  BY <1>4, <1>5, <1>6, <1>7, <1>8, <1>9 DEF Tables
<1>11. TablesNow
  BY <1>1, <1>10 DEF TablesNow
<1>12. Settled
  BY <1>1, <1>3 DEF Settled, NoIdleSlot
<1> QED BY <1>2, <1>11, <1>12 DEF CallInv

LEMMA CallStep == CallInv /\ [Next]_vars => CallInv'
<1> SUFFICES ASSUME CallInv, [Next]_vars PROVE CallInv'
  OBVIOUS
<1>0. LifecycleInv'
  BY LifecycleStep DEF CallInv
<1>1. CASE Start \/ BackoffFires
  BY <1>0, <1>1, StartOrBackoffStep
<1>2. CASE Stop
  BY <1>0, <1>2, StopStep
<1>3. CASE DialOutcome
  BY <1>0, <1>3, ConnectedStep, DialLostStep DEF DialOutcome
<1>4. CASE \E g \in 0..generation : Interrupted(g)
  BY <1>0, <1>4, InterruptedStep
<1>5. CASE Dispatch
  BY <1>0, <1>5, DispatchStep
<1>6. CASE Cancel
  BY <1>0, <1>6, CancelQueuedStep, CancelSentStep DEF Cancel
<1>7. CASE \E f \in wire : Reply(f)
  BY <1>7, ReplyStep
<1>8. CASE \E c \in Calls : DeadlinePasses(c) \/ TimerFires(c)
  BY <1>0, <1>8, DeadlinePassesStep, SentTimesOutStep, TombstoneReclaimedStep,
     QueuedTimesOutStep DEF TimerFires
<1>9. CASE UNCHANGED vars
  <2>1. /\ UNCHANGED <<lifecycle, work, stable_principal, next_call_id, tombstones>>
    BY <1>9 DEF vars
  <2>2. TablesNow'
    BY <2>1, TablesNext DEF CallInv, TablesNow, lifecycle, work
  <2>3. Settled'
    BY <2>1 DEF CallInv, Settled, NoIdleSlot, lifecycle, work, Sent
  <2> QED BY <1>0, <2>2, <2>3 DEF CallInv
<1> QED BY <1>1, <1>2, <1>3, <1>4, <1>5, <1>6, <1>7, <1>8, <1>9 DEF Next

\* In every behaviour the ledger, its FIFOs, the index and the frames describe
\* the same calls.
THEOREM CallsAreKept == Spec => []CallInv
  BY CallInit, CallStep, PTL DEF Spec

\* No call is settled twice or with another call's answer, however late,
\* duplicated or stale the replies are.
THEOREM EachCallItsOwnAnswer == Spec => []SettledOnceWithItsOwnAnswer
<1>1. CallInv => SettledOnceWithItsOwnAnswer
  BY DEF CallInv, TablesNow, Tables, Answers, SettledOnceWithItsOwnAnswer
<1> QED BY <1>1, CallsAreKept, PTL

\* No handler loses a call, and none settles one and keeps it.
THEOREM NoCallIsStranded == Spec => []NoStrandedCall
<1>1. CallInv => NoStrandedCall
  BY DEF CallInv, TablesNow, Tables, Answers, NoStrandedCall
<1> QED BY <1>1, CallsAreKept, PTL

\* No caller is told that a call was not executed, or may have been, against
\* what was put on the wire.
THEOREM ClaimsAreHonest == Spec => []HonestClassification
<1>1. CallInv => HonestClassification
  BY DEF CallInv, TablesNow, Tables, Claims, HonestClassification
<1> QED BY <1>1, CallsAreKept, PTL

\* A second send of a call meets the same daemon process, which deduplicates it.
THEOREM ReplayIsDeduplicated == Spec => []ReplayOnlyWhereDeduplicated
<1>1. CallInv => ReplayOnlyWhereDeduplicated
  BY DEF CallInv, TablesNow, Tables, Deduplicated, ReplayOnlyWhereDeduplicated
<1> QED BY <1>1, CallsAreKept, PTL

\* Calls go out in dispatch order on every connection.
THEOREM CallsGoOutInOrder == Spec => []SendOrder
<1>1. ASSUME CallInv PROVE SendOrder
  <2>1. /\ replay_hold \in Seq(Calls) /\ Increasing(replay_hold)
        /\ queue \in Seq(Calls) /\ Increasing(queue)
        /\ \A c \in Elements(replay_hold), d \in Elements(queue) : c < d
    BY <1>1 DEF CallInv, TablesNow, Tables, Unsent
  <2>2. Increasing(replay_hold \o queue)
    BY <2>1, ConcatIncreases
  <2>3. \A e, f \in wire : e.generation = f.generation /\ e.wire_id < f.wire_id
                             => e.call < f.call
    BY <1>1 DEF CallInv, TablesNow, Tables, Frames
  <2> QED BY <2>2, <2>3 DEF SendOrder, Increasing
<1>2. CallInv => SendOrder
  BY <1>1
<1> QED BY <1>2, CallsAreKept, PTL

\* The throttle counter is exact and within its limit.
THEOREM ThrottleIsExact == Spec => []InFlightExact
<1>1. ASSUME CallInv PROVE InFlightExact
  <2>1. /\ in_flight_count = Cardinality(Sent(ledger) \cap Live(ledger))
        /\ in_flight_count \in Nat /\ in_flight_count + Len(replay_hold) <= InFlight
        /\ Len(replay_hold) \in Nat
    BY <1>1 DEF CallInv, TablesNow, Tables, Slots, Unsent
  <2> QED BY <2>1, LimitsAssumption DEF InFlightExact
<1>2. CallInv => InFlightExact
  BY <1>1
<1> QED BY <1>2, CallsAreKept, PTL

\* A Ready client leaves no call queued next to a free slot.
THEOREM SlotsAreUsed == Spec => []NoIdleSlot
<1>1. CallInv => NoIdleSlot
  BY DEF CallInv, Settled
<1> QED BY <1>1, CallsAreKept, PTL

\* Every variable of the client has its type.
THEOREM TypesHold == Spec => []TypeOK
<1>1. ASSUME CallInv PROVE TypeOK
  <2>1. /\ state \in States /\ stopping \in BOOLEAN /\ stable_principal \in BOOLEAN
        /\ attempt \in 0..MaxReconnectAttempts /\ next_dial_token \in Nat
        /\ pending_dial \in 0..next_dial_token /\ backoff_timer \in BOOLEAN
        /\ queued_count \in Nat
    BY <1>1 DEF CallInv, LifecycleInv, Settled
  <2>2. /\ Rows(ledger, next_call_id)
        /\ Unsent(ledger, replay_hold, queue, in_flight_count)
        /\ Buried(ledger, tombstones) /\ Slots(ledger, in_flight_count)
        /\ Routes(ledger, wire_index, generation)
        /\ Answers(ledger, outcome, next_call_id)
        /\ Frames(wire, generation, last_incarnation, next_wire_id, next_call_id)
    BY <1>1 DEF CallInv, TablesNow, Tables
  <2>3. /\ next_call_id \in 0..MaxCalls /\ DOMAIN ledger \subseteq Calls
        /\ \A c \in DOMAIN ledger : ledger[c] \in Entry
    BY <2>2 DEF Rows
  <2>4. /\ queue \in Seq(Calls) /\ replay_hold \in Seq(Calls) /\ tombstones \in Seq(Calls)
        /\ in_flight_count \in Nat /\ outcome \in [Calls -> Outcomes]
        /\ generation \in Nat /\ last_incarnation \in Incarnations \cup {0}
        /\ next_wire_id \in Nat /\ wire \subseteq Frame
    BY <2>2 DEF Unsent, Buried, Slots, Answers, Frames
  <2>5. /\ DOMAIN wire_index \subseteq Nat
        /\ \A w \in DOMAIN wire_index : wire_index[w] \in Calls
    BY <2>2, <2>3 DEF Routes, Sent
  <2> QED BY <2>1, <2>3, <2>4, <2>5 DEF TypeOK
<1>2. CallInv => TypeOK
  BY <1>1
<1> QED BY <1>2, CallsAreKept, PTL

LEMMA DistinctLength ==
    ASSUME NEW S, NEW s \in Seq(S), Distinct(s)
    PROVE  Len(s) = Cardinality(Elements(s))
<1>1. s \in [1..Len(s) -> Elements(s)] /\ Len(s) \in Nat
  BY DEF Elements
<1> DEFINE k == Len(s)
<1>2. IsFiniteSet(1..k) /\ Cardinality(1..k) = k
  <2>1. k \in Nat /\ 1 \in Int /\ k \in Int
    BY <1>1
  <2> HIDE DEF k
  <2>2. /\ IsFiniteSet(1..k)
        /\ Cardinality(1..k) = IF 1 > k THEN 0 ELSE k - 1 + 1
    BY <2>1, FS_Interval
  <2> QED BY <2>1, <2>2
<1>3. s \in Bijection(1..Len(s), Elements(s))
  BY <1>1 DEF Elements, Distinct, Bijection, Injection, IsInjective, Surjection
<1> QED BY <1>2, <1>3, FS_Bijection DEF ExistsBijection

\* The FIFOs, the index and the ledger name the same calls, each once.
THEOREM TablesNameTheSameCalls == Spec => []TablesAgree
<1>1. ASSUME CallInv PROVE TablesAgree
  <2>1. /\ Rows(ledger, next_call_id)
        /\ Unsent(ledger, replay_hold, queue, in_flight_count)
        /\ Buried(ledger, tombstones)
        /\ Routes(ledger, wire_index, generation)
    BY <1>1 DEF CallInv, TablesNow, Tables
  <2>2. /\ queue \in Seq(Calls) /\ Distinct(queue)
        /\ replay_hold \in Seq(Calls) /\ Distinct(replay_hold)
        /\ tombstones \in Seq(Calls) /\ Distinct(tombstones)
    BY <2>1, IncreasingDistinct DEF Unsent, Buried
  <2>3. \A s \in {queue, replay_hold, tombstones} : Len(s) = Cardinality(Elements(s))
    BY <2>2, DistinctLength
  <2>4. Elements(queue) \cap Elements(replay_hold) = {}
    <3>1. \A c \in Elements(queue) : c \in Nat /\ ~(c < c)
      <4>1. \A c \in Elements(queue) : c \in Calls
        BY <2>2 DEF Elements
      <4>2. \A c \in Nat : ~(c < c)
        OBVIOUS
      <4> QED BY <4>1, <4>2, CallsAreNat
    <3> QED BY <3>1, <2>1 DEF Unsent
  <2>5. /\ \A x \in DOMAIN wire_index : /\ wire_index[x] \in Sent(ledger)
                                        /\ ledger[wire_index[x]].wire_id = x
        /\ \A c \in Sent(ledger) : /\ ledger[c].wire_id \in DOMAIN wire_index
                                   /\ wire_index[ledger[c].wire_id] = c
                                   /\ ledger[c].generation = generation
    BY <2>1 DEF Routes
  <2>6. Cardinality(DOMAIN wire_index) = Cardinality(Sent(ledger))
    <3> DEFINE idOf == [c \in Sent(ledger) |-> ledger[c].wire_id]
    <3>1. idOf \in Bijection(Sent(ledger), DOMAIN wire_index)
      BY <2>5 DEF Bijection, Injection, IsInjective, Surjection
    <3> HIDE DEF idOf
    <3>2. IsFiniteSet(Sent(ledger))
      <4>1. Sent(ledger) \in SUBSET Calls
        BY <2>1 DEF Rows, Sent
      <4> QED BY <4>1, CallsAreNat, FS_Subset
    <3>3. ExistsBijection(Sent(ledger), DOMAIN wire_index)
      BY <3>1 DEF ExistsBijection
    <3> QED BY <3>2, <3>3, FS_Bijection
  <2> QED BY <2>1, <2>3, <2>4, <2>5, <2>6 DEF TablesAgree, Unsent, Buried
<1>2. CallInv => TablesAgree
  BY <1>1
<1> QED BY <1>2, CallsAreKept, PTL

-----------------------------------------------------------------------------
(* The admission account: the invariant                                    *)

\* A charge is held by the unsent calls and the sent ones that may be replayed.
ChargesHeld(L) ==
    \A c \in DOMAIN L :
      L[c].holds_charge <=> c \in Queued(L) \/ (L[c].replayable /\ ~L[c].cancelled)

Accounted(L, count, bytes) ==
    /\ ChargesHeld(L)
    /\ count = Cardinality(Queued(L))
    /\ bytes = ByteSum(L, Charged(L, DOMAIN L)) /\ bytes <= OutboundBytes

AccountInv ==
    /\ Accounted(ledger, queued_count, queued_bytes)
    /\ Len(queue) <= QueueDepth /\ Len(tombstones) <= InFlight

-----------------------------------------------------------------------------
(* Sums of bytes                                                           *)

Units(L, S) == UNION {{c} \X (1..L[c].bytes) : c \in S}

LEMMA UnitsFinite ==
    ASSUME NEW L, NEW S, IsFiniteSet(S), \A c \in S : L[c].bytes \in Nat
    PROVE  IsFiniteSet(Units(L, S)) /\ Cardinality(Units(L, S)) \in Nat
<1> DEFINE part(c) == {c} \X (1..L[c].bytes)
           parts == {part(c) : c \in S}
<1>1. IsFiniteSet(parts)
  <2> DEFINE f == [c \in S |-> part(c)]
  <2>1. f \in Surjection(S, parts)
    BY DEF Surjection
  <2> HIDE DEF f, parts
  <2> QED BY <2>1, FS_Surjection
<1>2. ASSUME NEW p \in parts PROVE IsFiniteSet(p)
  <2>1. PICK c \in S : p = part(c)
    OBVIOUS
  <2>2. IsFiniteSet(1..L[c].bytes) /\ IsFiniteSet({c})
    <3>1. 1 \in Int /\ L[c].bytes \in Int
      OBVIOUS
    <3> QED BY <3>1, FS_Interval, FS_Singleton
  <2> QED BY <2>1, <2>2, FS_Product
<1>3. IsFiniteSet(UNION parts)
  BY <1>1, <1>2, FS_UNION
<1> QED BY <1>3, FS_CardinalityType DEF Units

\* Bytes add up.
LEMMA ByteSumAdds ==
    ASSUME NEW L, NEW S, NEW T, IsFiniteSet(S), IsFiniteSet(T), S \cap T = {},
           \A c \in S \cup T : L[c].bytes \in Nat
    PROVE  /\ ByteSum(L, S) \in Nat /\ ByteSum(L, T) \in Nat
           /\ ByteSum(L, S \cup T) = ByteSum(L, S) + ByteSum(L, T)
<1>1. IsFiniteSet(Units(L, S)) /\ Cardinality(Units(L, S)) \in Nat
  BY UnitsFinite
<1>2. IsFiniteSet(Units(L, T)) /\ Cardinality(Units(L, T)) \in Nat
  BY UnitsFinite
<1>3. Units(L, S \cup T) = Units(L, S) \cup Units(L, T)
  BY DEF Units
<1>4. Units(L, S) \cap Units(L, T) = {}
  BY DEF Units
<1>5. Cardinality(Units(L, S \cup T)) =
        Cardinality(Units(L, S)) + Cardinality(Units(L, T)) - Cardinality({})
  <2> DEFINE A == Units(L, S)
             B == Units(L, T)
  <2> HIDE DEF A, B
  <2>1. Cardinality(A \cup B) = Cardinality(A) + Cardinality(B) - Cardinality(A \cap B)
    BY <1>1, <1>2, FS_Union DEF A, B
  <2> QED BY <1>3, <1>4, <2>1 DEF A, B
<1>6. Cardinality({}) = 0
  BY FS_EmptySet
<1>7. \A X : ByteSum(L, X) = Cardinality(Units(L, X))
  BY DEF ByteSum, Units
<1> QED BY <1>1, <1>2, <1>5, <1>6, <1>7

LEMMA ByteSumSame ==
    ASSUME NEW L, NEW K, NEW S, \A c \in S : K[c].bytes = L[c].bytes
    PROVE  ByteSum(K, S) = ByteSum(L, S)
<1>1. {{c} \X (1..K[c].bytes) : c \in S} = {{c} \X (1..L[c].bytes) : c \in S}
  OBVIOUS
<1> QED BY <1>1 DEF ByteSum

LEMMA ByteSumOne ==
    ASSUME NEW L, NEW c, L[c].bytes \in Nat
    PROVE  ByteSum(L, {c}) = L[c].bytes
<1> DEFINE n == L[c].bytes
           pair == [i \in 1..n |-> <<c, i>>]
<1>1. UNION {{d} \X (1..L[d].bytes) : d \in {c}} = {c} \X (1..n)
  OBVIOUS
<1>2. IsFiniteSet(1..n) /\ Cardinality(1..n) = n
  <2>1. 1 \in Int /\ n \in Int /\ n \in Nat
    OBVIOUS
  <2> HIDE DEF n
  <2>2. IsFiniteSet(1..n) /\ Cardinality(1..n) = IF 1 > n THEN 0 ELSE n - 1 + 1
    BY <2>1, FS_Interval
  <2> QED BY <2>1, <2>2
<1> HIDE DEF n
<1>3. pair \in Bijection(1..n, {c} \X (1..n))
  BY DEF Bijection, Injection, IsInjective, Surjection
<1>4. Cardinality({c} \X (1..n)) = n
  BY <1>2, <1>3, FS_Bijection DEF ExistsBijection
<1> QED BY <1>1, <1>4 DEF ByteSum, n

\* What is given back of a sum leaves the sum of the rest.
LEMMA BytesReleased ==
    ASSUME NEW L, NEW S, NEW F \in SUBSET S, IsFiniteSet(S), \A c \in S : L[c].bytes \in Nat
    PROVE  /\ SatSub(ByteSum(L, S), ByteSum(L, F)) = ByteSum(L, S \ F)
           /\ ByteSum(L, S \ F) <= ByteSum(L, S) /\ ByteSum(L, S \ F) \in Nat
           /\ ByteSum(L, S) \in Nat
<1>1. IsFiniteSet(F) /\ IsFiniteSet(S \ F) /\ F \cup (S \ F) = S /\ F \cap (S \ F) = {}
  BY FS_Subset
<1>2. /\ ByteSum(L, F) \in Nat /\ ByteSum(L, S \ F) \in Nat
      /\ ByteSum(L, S) = ByteSum(L, F) + ByteSum(L, S \ F)
  BY <1>1, ByteSumAdds
<1> QED BY <1>2 DEF SatSub

LEMMA CountReleased ==
    ASSUME NEW S, NEW F \in SUBSET S, IsFiniteSet(S)
    PROVE  /\ SatSub(Cardinality(S), Cardinality(F)) = Cardinality(S \ F)
           /\ Cardinality(S) \in Nat /\ Cardinality(F) \in Nat
<1>1. /\ IsFiniteSet(F) /\ Cardinality(F) <= Cardinality(S) /\ S \cap F = F
      /\ Cardinality(S \ F) = Cardinality(S) - Cardinality(S \cap F)
  BY FS_Subset, FS_Difference
<1>2. Cardinality(S) \in Nat /\ Cardinality(F) \in Nat
  BY <1>1, FS_CardinalityType
<1> QED BY <1>1, <1>2 DEF SatSub

-----------------------------------------------------------------------------
(* What a handler gives back                                               *)

\* The entries of a ledger, as far as the account looks at them.
Sound(L) ==
    /\ IsFiniteSet(DOMAIN L)
    /\ \A c \in DOMAIN L : /\ L[c].bytes \in Nat /\ L[c].holds_charge \in BOOLEAN
                           /\ L[c].replayable \in BOOLEAN /\ L[c].cancelled \in BOOLEAN
                           /\ L[c].expired \in BOOLEAN /\ L[c].phase \in {"queued", "sent"}
                           /\ L[c].cancelled => L[c].phase = "sent"

LEMMA RowsSound == ASSUME NEW L, NEW m, Rows(L, m) PROVE Sound(L)
<1>1. DOMAIN L \in SUBSET Calls
  BY DEF Rows
<1>2. IsFiniteSet(DOMAIN L)
  BY <1>1, CallsAreNat, FS_Subset
<1> QED BY <1>2 DEF Rows, Sound, Entry

\* The calls of Q leave the unsent ones, those of F give their bytes back.
LEMMA Releases ==
    ASSUME NEW L, NEW K, NEW count, NEW bytes, Accounted(L, count, bytes), Sound(L),
           NEW Q \in SUBSET Queued(L), NEW F \in SUBSET Charged(L, DOMAIN L),
           DOMAIN K \subseteq DOMAIN L, \A c \in DOMAIN K : K[c].bytes = L[c].bytes,
           Queued(K) = Queued(L) \ Q,
           Charged(K, DOMAIN K) = Charged(L, DOMAIN L) \ F, ChargesHeld(K)
    PROVE  Accounted(K, SatSub(count, Cardinality(Q)), SatSub(bytes, ByteSum(L, F)))
<1> DEFINE C == Charged(L, DOMAIN L)
<1>1. IsFiniteSet(Queued(L)) /\ IsFiniteSet(C) /\ \A c \in C : L[c].bytes \in Nat
  <2>1. Queued(L) \in SUBSET DOMAIN L /\ C \in SUBSET DOMAIN L
    BY DEF Queued, Charged
  <2> QED BY <2>1, FS_Subset DEF Sound
<1> HIDE DEF C
<1>2. SatSub(Cardinality(Queued(L)), Cardinality(Q)) = Cardinality(Queued(L) \ Q)
  BY <1>1, CountReleased
<1>3. /\ SatSub(ByteSum(L, C), ByteSum(L, F)) = ByteSum(L, C \ F)
      /\ ByteSum(L, C \ F) <= ByteSum(L, C) /\ ByteSum(L, C \ F) \in Nat /\ ByteSum(L, C) \in Nat
  BY <1>1, BytesReleased DEF C
<1>4. ByteSum(K, C \ F) = ByteSum(L, C \ F)
  <2>1. C \ F \subseteq DOMAIN K
    BY DEF Charged, C
  <2> QED BY <2>1, ByteSumSame
<1>5. count = Cardinality(Queued(L)) /\ bytes = ByteSum(L, C) /\ bytes <= OutboundBytes
  BY DEF Accounted, C
<1>6. ByteSum(L, C \ F) <= OutboundBytes
  BY <1>3, <1>5, LimitsAssumption
<1> QED BY <1>2, <1>3, <1>4, <1>5, <1>6 DEF Accounted, C

LEMMA NothingReleased ==
    ASSUME NEW count \in Nat
    PROVE  SatSub(count, Cardinality({})) = count
BY FS_EmptySet DEF SatSub

\* The calls of S leave the ledger whole.
LEMMA TakeAccounts ==
    ASSUME NEW L, NEW count, NEW bytes, Accounted(L, count, bytes), Sound(L),
           NEW S \in SUBSET DOMAIN L
    PROVE  Accounted(Take(L, S), SatSub(count, Cardinality(S \cap Queued(L))),
                     SatSub(bytes, ByteSum(L, Charged(L, S))))
<1> DEFINE K == Take(L, S)
<1>1. DOMAIN K = DOMAIN L \ S /\ \A c \in DOMAIN K : K[c] = L[c]
  BY DEF Take
<1> HIDE DEF K
<1>2. Queued(K) = Queued(L) \ (S \cap Queued(L))
  BY <1>1 DEF Queued
<1>3. Charged(K, DOMAIN K) = Charged(L, DOMAIN L) \ Charged(L, S)
  BY <1>1 DEF Charged
<1>4. ChargesHeld(K)
  BY <1>1 DEF Accounted, ChargesHeld, Queued
<1>5. Charged(L, S) \in SUBSET Charged(L, DOMAIN L)
  BY DEF Charged
<1>6. S \cap Queued(L) \in SUBSET Queued(L) /\ DOMAIN K \subseteq DOMAIN L
      /\ \A c \in DOMAIN K : K[c].bytes = L[c].bytes
  BY <1>1
<1> QED BY <1>2, <1>3, <1>4, <1>5, <1>6, Releases DEF K

\* Sent calls leave, or are buried: they use no slot of the queue.
LEMMA CountKept ==
    ASSUME NEW L, NEW count, NEW bytes, Accounted(L, count, bytes), Sound(L),
           NEW S, S \cap Queued(L) = {}
    PROVE  SatSub(count, Cardinality(S \cap Queued(L))) = count
<1>1. Queued(L) \in SUBSET DOMAIN L
  BY DEF Queued
<1>2. count \in Nat
  BY <1>1, FS_Subset, FS_CardinalityType DEF Accounted, Sound
<1> QED BY <1>2, NothingReleased

-----------------------------------------------------------------------------
(* flush                                                                   *)

\* What flush takes from the queue it gives back, but the bytes of what may be
\* replayed; and it leaves no more than was queued behind the held calls.
LEMMA FlushAccounts ==
    ASSUME NEW L, NEW idx, NEW u \in Seq(Calls), NEW n, NEW count, NEW bytes, NEW out, NEW first,
           Accounted(L, count, bytes), Sound(L), Elements(u) = Queued(L),
           FlushReady(L, idx, u, n, count, bytes, out, first)
    PROVE  Accounted(ledger', queued_count', queued_bytes')
<1>1. PICK k \in 0..Len(u) :
        LET taken == {u[i] : i \in 1..k}
            lapsed == taken \cap Expired(L)
            sent == taken \ lapsed
            rank(i) == Cardinality({j \in 1..(i - 1) : u[j] \notin lapsed})
            idOf == [c \in sent |-> first + rank(CHOOSE i \in 1..k : u[i] = c)]
            charged == Charged(L, taken)
            freed == {c \in charged : c \in lapsed \/ ~L[c].replayable}
        IN  /\ ledger' = [c \in DOMAIN L \ lapsed |->
                            IF c \in sent THEN SentEntry(L[c], idOf[c]) ELSE L[c]]
            /\ queued_count' = SatSub(count, Cardinality(charged))
            /\ queued_bytes' = SatSub(bytes, ByteSum(L, freed))
  BY DEF FlushReady
<1> DEFINE taken == {u[i] : i \in 1..k}
           lapsed == taken \cap Expired(L)
           sent == taken \ lapsed
           rank(i) == Cardinality({j \in 1..(i - 1) : u[j] \notin lapsed})
           idOf == [c \in sent |-> first + rank(CHOOSE i \in 1..k : u[i] = c)]
           charged == Charged(L, taken)
           freed == {c \in charged : c \in lapsed \/ ~L[c].replayable}
<1>2. /\ ledger' = [c \in DOMAIN L \ lapsed |->
                      IF c \in sent THEN SentEntry(L[c], idOf[c]) ELSE L[c]]
      /\ queued_count' = SatSub(count, Cardinality(charged))
      /\ queued_bytes' = SatSub(bytes, ByteSum(L, freed))
  BY <1>1
<1>3. taken \in SUBSET Queued(L)
  <2>1. \A i \in 1..k : i \in DOMAIN u
    OBVIOUS
  <2> QED BY <2>1 DEF Elements
<1> HIDE DEF taken, idOf
<1>4. charged = taken
  BY <1>3 DEF Accounted, ChargesHeld, Charged, Queued
<1>5. /\ DOMAIN ledger' = DOMAIN L \ lapsed /\ lapsed \subseteq taken /\ sent = taken \ lapsed
      /\ taken \subseteq DOMAIN L
      /\ \A c \in DOMAIN ledger' :
           /\ c \notin sent => ledger'[c] = L[c]
           /\ c \in sent => ledger'[c] = SentEntry(L[c], idOf[c])
  BY <1>2, <1>3 DEF Queued
<1>6. /\ freed \in SUBSET charged
      /\ \A c \in charged : c \in freed <=> c \in lapsed \/ ~L[c].replayable
  OBVIOUS
<1> HIDE DEF lapsed, sent, charged, freed
<1> DEFINE K == ledger'
<1>7. ASSUME NEW c \in DOMAIN K
      PROVE  /\ c \in DOMAIN L /\ c \notin lapsed
             /\ c \notin sent => K[c] = L[c]
             /\ c \in sent => /\ K[c].phase = "sent" /\ K[c].bytes = L[c].bytes
                              /\ K[c].replayable = L[c].replayable
                              /\ K[c].cancelled = L[c].cancelled
                              /\ K[c].holds_charge = (L[c].holds_charge /\ L[c].replayable)
                              /\ L[c].phase = "queued" /\ L[c].holds_charge /\ ~L[c].cancelled
  <2>1. c \in DOMAIN L /\ c \notin lapsed /\ (c \notin sent => K[c] = L[c])
    BY <1>5
  <2>2. ASSUME c \in sent
        PROVE  /\ K[c].phase = "sent" /\ K[c].bytes = L[c].bytes
               /\ K[c].replayable = L[c].replayable
               /\ K[c].cancelled = L[c].cancelled
               /\ K[c].holds_charge = (L[c].holds_charge /\ L[c].replayable)
               /\ L[c].phase = "queued" /\ L[c].holds_charge /\ ~L[c].cancelled
    <3>1. c \in Queued(L) /\ K[c] = SentEntry(L[c], idOf[c])
      BY <1>3, <1>5, <2>2
    <3>2. L[c].phase = "queued" /\ L[c].holds_charge /\ ~L[c].cancelled
      BY <2>1, <3>1 DEF Accounted, ChargesHeld, Queued, Sound
    <3>3. /\ K[c].phase = "sent" /\ K[c].bytes = L[c].bytes
          /\ K[c].replayable = L[c].replayable /\ K[c].cancelled = L[c].cancelled
          /\ K[c].holds_charge = (L[c].holds_charge /\ L[c].replayable)
      BY <3>1 DEF SentEntry
    <3> QED BY <3>2, <3>3
  <2> QED BY <2>1, <2>2
<1>8. Queued(K) = Queued(L) \ taken
  <2>1. ASSUME NEW c \in Queued(L), c \notin taken PROVE c \in Queued(K)
    BY <1>5, <1>7, <2>1 DEF Queued
  <2>2. ASSUME NEW c \in Queued(K) PROVE c \in Queued(L) \ taken
    BY <1>5, <1>7, <2>2 DEF Queued
  <2> QED BY <2>1, <2>2
<1>9. ChargesHeld(K)
  BY <1>5, <1>7 DEF Accounted, ChargesHeld, Queued, Sound
<1>10. Charged(K, DOMAIN K) = Charged(L, DOMAIN L) \ freed
  <2>1. ASSUME NEW c \in Charged(K, DOMAIN K) PROVE c \in Charged(L, DOMAIN L) \ freed
    BY <1>4, <1>5, <1>6, <1>7, <2>1 DEF Charged
  <2>2. ASSUME NEW c \in Charged(L, DOMAIN L), c \notin freed PROVE c \in Charged(K, DOMAIN K)
    BY <1>4, <1>5, <1>6, <1>7, <2>2 DEF Charged
  <2> QED BY <2>1, <2>2
<1>11. freed \in SUBSET Charged(L, DOMAIN L) /\ \A c \in DOMAIN K : K[c].bytes = L[c].bytes
       /\ DOMAIN K \subseteq DOMAIN L
  BY <1>3, <1>4, <1>6, <1>7 DEF Accounted, ChargesHeld, Charged, Queued
<1> HIDE DEF K
<1>12. Accounted(K, SatSub(count, Cardinality(taken)), SatSub(bytes, ByteSum(L, freed)))
  BY <1>3, <1>8, <1>9, <1>10, <1>11, Releases
<1> QED BY <1>2, <1>4, <1>12 DEF K

\* Beside the h held calls in front no more than QueueDepth calls were queued:
\* there is a slot for each held one, so no more than QueueDepth are left.
LEMMA FlushBounds ==
    ASSUME NEW L, NEW idx, NEW u \in Seq(Calls), Increasing(u), Elements(u) \subseteq DOMAIN L,
           Sound(L), NEW n \in Nat, NEW h \in Nat, n + h <= InFlight,
           Len(u) <= QueueDepth + h,
           NEW count \in Nat, NEW bytes, NEW out, NEW first \in Nat,
           FlushReady(L, idx, u, n, count, bytes, out, first)
    PROVE  Len(queue') <= QueueDepth
<1>1. n <= InFlight /\ InFlight \in Nat /\ QueueDepth \in Nat /\ Len(u) \in Nat
  BY LimitsAssumption
<1>2. \A c \in DOMAIN L : L[c].expired \in BOOLEAN
  BY DEF Sound
<1>3. PICK k \in 0..Len(u) : \E sent, lapsed \in SUBSET Calls : \E idOf :
        Flushed(L, idx, u, n, out, first, k, sent, lapsed, idOf)
  BY <1>1, <1>2, FlushFacts
<1>4. /\ k < Len(u) => InFlight <= n + k
      /\ queue' = SubSeq(u, k + 1, Len(u))
  BY <1>3 DEF Flushed
<1>5. Len(queue') = Len(u) - k /\ k \in Nat /\ k <= Len(u)
  BY <1>1, <1>4
<1>6. CASE k < Len(u)
  BY <1>1, <1>4, <1>5, <1>6
<1>7. CASE k = Len(u)
  BY <1>1, <1>5, <1>7
<1> QED BY <1>1, <1>5, <1>6, <1>7

\* A handler that leaves the lifecycle alone and ends with the flush.
LEMMA FlushHandler ==
    ASSUME CallInv, UNCHANGED lifecycle, NEW L, NEW idx, NEW q, NEW n, NEW count, NEW bytes, NEW out,
           Sound(L), Accounted(L, count, bytes), Unsent(L, replay_hold, q, n),
           n \in Nat, count \in Nat, Len(q) <= QueueDepth,
           Flush(L, idx, q, replay_hold, n, count, bytes, out)
    PROVE  Accounted(ledger', queued_count', queued_bytes') /\ Len(queue') <= QueueDepth
<1>1. CASE state' = "Ready"
  <2>1. replay_hold = <<>> /\ next_wire_id \in Nat
    BY <1>1 DEF CallInv, LifecycleInv, ReconnectDriven, TablesNow, Tables, Frames, lifecycle
  <2>2. FlushReady(L, idx, q, n, count, bytes, out, next_wire_id)
    BY <1>1 DEF Flush
  <2>3. /\ q \in Seq(Calls) /\ Increasing(q) /\ Elements(q) = Queued(L)
        /\ n + Len(<<>>) <= InFlight
    <3>1. Elements(<<>>) = {}
      BY DEF Elements
    <3> QED BY <2>1, <3>1 DEF Unsent
  <2>4. Elements(q) \subseteq DOMAIN L
    BY <2>3 DEF Queued
  <2>5. n + 0 <= InFlight /\ Len(q) <= QueueDepth + 0 /\ 0 \in Nat
    BY <2>3, LimitsAssumption
  <2>6. Len(queue') <= QueueDepth
    BY <2>1, <2>2, <2>3, <2>4, <2>5, FlushBounds
  <2> QED BY <2>2, <2>3, <2>6, FlushAccounts
<1>2. CASE state' # "Ready"
  <2>1. /\ ledger' = L /\ queued_count' = count /\ queued_bytes' = bytes /\ queue' = q
    BY <1>2 DEF Flush, NoFlush
  <2> QED BY <2>1
<1> QED BY <1>1, <1>2

-----------------------------------------------------------------------------
(* One step                                                                *)

\* What the steps use of the calls' invariant.
LEMMA CallFacts ==
    ASSUME CallInv
    PROVE  /\ Sound(ledger) /\ Unsent(ledger, replay_hold, queue, in_flight_count)
           /\ Slots(ledger, in_flight_count) /\ queued_count \in Nat
           /\ tombstones \in Seq(Calls) /\ Distinct(tombstones)
           /\ Elements(tombstones) = DOMAIN ledger \ Live(ledger)
           /\ in_flight_count \in Nat /\ next_wire_id \in Nat
           /\ replay_hold # <<>> => state = "Interrupted"
<1>1. /\ Rows(ledger, next_call_id) /\ Unsent(ledger, replay_hold, queue, in_flight_count)
      /\ Slots(ledger, in_flight_count) /\ Buried(ledger, tombstones)
      /\ Frames(wire, generation, last_incarnation, next_wire_id, next_call_id)
  BY DEF CallInv, TablesNow, Tables
<1>2. Sound(ledger)
  BY <1>1, RowsSound
<1>3. queued_count \in Nat /\ (replay_hold # <<>> => state = "Interrupted")
  BY DEF CallInv, Settled, LifecycleInv, ReconnectDriven
<1> QED BY <1>1, <1>2, <1>3 DEF Slots, Buried, Frames

LEMMA TakeSound ==
    ASSUME NEW L, NEW S, Sound(L)
    PROVE  Sound(Take(L, S))
<1>1. DOMAIN Take(L, S) = DOMAIN L \ S /\ \A c \in DOMAIN Take(L, S) : Take(L, S)[c] = L[c]
  BY DEF Take
<1>2. IsFiniteSet(DOMAIN L \ S)
  <2>1. DOMAIN L \ S \in SUBSET DOMAIN L
    OBVIOUS
  <2> QED BY <2>1, FS_Subset DEF Sound
<1> QED BY <1>1, <1>2 DEF Sound

\* A handler that takes or buries sent calls: the queue keeps its calls.
LEMMA SentHandler ==
    ASSUME CallInv, Len(queue) <= QueueDepth, UNCHANGED lifecycle,
           NEW L, NEW idx, NEW n, NEW bytes, NEW out,
           Sound(L), Accounted(L, queued_count, bytes), Queued(L) = Queued(ledger),
           n \in {in_flight_count, SatSub(in_flight_count, 1)},
           Flush(L, idx, queue, replay_hold, n, queued_count, bytes, out)
    PROVE  Accounted(ledger', queued_count', queued_bytes') /\ Len(queue') <= QueueDepth
<1>1. /\ Unsent(ledger, replay_hold, queue, in_flight_count) /\ in_flight_count \in Nat
      /\ queued_count \in Nat
  BY CallFacts
<1>2. n \in Nat /\ n <= in_flight_count
  BY <1>1 DEF SatSub
<1>3. Unsent(L, replay_hold, queue, n)
  <2>1. in_flight_count + Len(replay_hold) <= InFlight /\ Len(replay_hold) \in Nat
    BY <1>1 DEF Unsent
  <2>2. n + Len(replay_hold) <= InFlight
    BY <1>1, <1>2, <2>1, LimitsAssumption
  <2> QED BY <1>1, <2>2 DEF Unsent
<1> QED BY <1>1, <1>2, <1>3, FlushHandler

\* What the handlers that take a sent call give back.
LEMMA SentTaken ==
    ASSUME CallInv, AccountInv, NEW S \in SUBSET Sent(ledger)
    PROVE  /\ Accounted(Take(ledger, S), queued_count,
                        SatSub(queued_bytes, ByteSum(ledger, Charged(ledger, S))))
           /\ Sound(Take(ledger, S)) /\ Queued(Take(ledger, S)) = Queued(ledger)
<1>1. Sound(ledger) /\ Accounted(ledger, queued_count, queued_bytes)
  BY CallFacts DEF AccountInv
<1>2. S \in SUBSET DOMAIN ledger /\ S \cap Queued(ledger) = {}
  BY DEF Sent, Queued
<1>3. SatSub(queued_count, Cardinality(S \cap Queued(ledger))) = queued_count
  BY <1>1, <1>2, CountKept
<1>4. Accounted(Take(ledger, S), SatSub(queued_count, Cardinality(S \cap Queued(ledger))),
                SatSub(queued_bytes, ByteSum(ledger, Charged(ledger, S))))
  BY <1>1, <1>2, TakeAccounts
<1>5. Sound(Take(ledger, S))
  BY <1>1, TakeSound
<1>6. Queued(Take(ledger, S)) = Queued(ledger)
  BY <1>2 DEF Take, Queued
<1> QED BY <1>3, <1>4, <1>5, <1>6

LEMMA ReplyAccounts ==
    ASSUME CallInv, AccountInv, NEW f \in wire, Reply(f)
    PROVE  AccountInv'
<1>1. PICK c \in Resolve(f.wire_id, f.generation) :
        /\ UNCHANGED lifecycle
        /\ tombstones' = IF ~ledger[c].cancelled THEN tombstones ELSE Without(tombstones, c)
        /\ \E out : Flush(Take(ledger, {c}), Unindex(wire_index, ledger, {c}), queue,
                 replay_hold,
                 IF ~ledger[c].cancelled THEN SatSub(in_flight_count, 1) ELSE in_flight_count,
                 queued_count,
                 SatSub(queued_bytes, ByteSum(ledger, Charged(ledger, {c}))), out)
  BY DEF Reply
<1>2. c \in Sent(ledger)
  BY ReplyIsItsOwn DEF CallInv
<1>3. Len(queue) <= QueueDepth /\ Len(tombstones) <= InFlight
  BY DEF AccountInv
<1>4. Accounted(ledger', queued_count', queued_bytes') /\ Len(queue') <= QueueDepth
  <2> DEFINE L == Take(ledger, {c})
             bytes == SatSub(queued_bytes, ByteSum(ledger, Charged(ledger, {c})))
             n == IF ~ledger[c].cancelled THEN SatSub(in_flight_count, 1) ELSE in_flight_count
             idx == Unindex(wire_index, ledger, {c})
  <2>1. {c} \in SUBSET Sent(ledger)
    BY <1>2
  <2>2. Accounted(L, queued_count, bytes) /\ Sound(L) /\ Queued(L) = Queued(ledger)
    BY <2>1, SentTaken
  <2>3. n \in {in_flight_count, SatSub(in_flight_count, 1)}
    OBVIOUS
  <2>4. PICK out : Flush(L, idx, queue, replay_hold, n, queued_count, bytes, out)
    BY <1>1
  <2>5. UNCHANGED lifecycle
    BY <1>1
  <2> HIDE DEF L, bytes, n, idx
  <2> QED BY <1>3, <2>2, <2>3, <2>4, <2>5, SentHandler
<1>5. Len(tombstones') <= InFlight
  <2>1. Len(Without(tombstones, c)) <= Len(tombstones) /\ tombstones \in Seq(Calls)
        /\ Without(tombstones, c) \in Seq(Calls)
    BY CallFacts, WithoutRemoves
  <2>2. Len(Without(tombstones, c)) \in Nat /\ Len(tombstones) \in Nat /\ InFlight \in Nat
    BY <2>1, LimitsAssumption
  <2>3. tombstones' \in {tombstones, Without(tombstones, c)}
    BY <1>1
  <2> QED BY <2>1, <2>2, <2>3, <1>3
<1> QED BY <1>4, <1>5 DEF AccountInv

LEMMA TombstoneReclaimedAccounts ==
    ASSUME CallInv, AccountInv, NEW c \in Calls, TombstoneReclaimed(c)
    PROVE  AccountInv'
<1>1. /\ c \in Sent(ledger) /\ ledger[c].cancelled
      /\ tombstones' = Without(tombstones, c)
      /\ ledger' = Take(ledger, {c}) /\ queue' = queue
      /\ queued_count' = queued_count /\ queued_bytes' = queued_bytes
  BY DEF TombstoneReclaimed, NoFlush
<1>2. Len(queue) <= QueueDepth /\ Len(tombstones) <= InFlight
  BY DEF AccountInv
<1>3. Len(tombstones') <= InFlight
  <2>1. Len(Without(tombstones, c)) <= Len(tombstones) /\ tombstones \in Seq(Calls)
        /\ Without(tombstones, c) \in Seq(Calls)
    BY CallFacts, WithoutRemoves
  <2>2. Len(Without(tombstones, c)) \in Nat /\ Len(tombstones) \in Nat /\ InFlight \in Nat
    BY <2>1, LimitsAssumption
  <2> QED BY <2>1, <2>2, <1>1, <1>2
<1>4. Charged(ledger, {c}) = {}
  BY <1>1 DEF AccountInv, Accounted, ChargesHeld, Charged, Sent, Queued
<1>5. SatSub(queued_bytes, ByteSum(ledger, {})) = queued_bytes
  <2>1. Charged(ledger, DOMAIN ledger) \in SUBSET DOMAIN ledger
    BY DEF Charged
  <2>2. IsFiniteSet(Charged(ledger, DOMAIN ledger))
        /\ \A d \in Charged(ledger, DOMAIN ledger) : ledger[d].bytes \in Nat
    BY <2>1, CallFacts, FS_Subset DEF Sound
  <2>3. {} \in SUBSET Charged(ledger, DOMAIN ledger)
    OBVIOUS
  <2>4. SatSub(ByteSum(ledger, Charged(ledger, DOMAIN ledger)), ByteSum(ledger, {}))
          = ByteSum(ledger, Charged(ledger, DOMAIN ledger) \ {})
    BY <2>2, <2>3, BytesReleased
  <2>5. Charged(ledger, DOMAIN ledger) \ {} = Charged(ledger, DOMAIN ledger)
    OBVIOUS
  <2> QED BY <2>4, <2>5 DEF AccountInv, Accounted
<1>6. Accounted(Take(ledger, {c}), queued_count,
                SatSub(queued_bytes, ByteSum(ledger, Charged(ledger, {c}))))
  <2>1. {c} \in SUBSET Sent(ledger)
    BY <1>1
  <2> QED BY <2>1, SentTaken
<1> QED BY <1>1, <1>2, <1>3, <1>4, <1>5, <1>6 DEF AccountInv

\* CancelSent and SentTimesOut: the bytes of the buried call are given back, and
\* the tombstone pushed out, if any, held none.
LEMMA BuryAccounts ==
    ASSUME CallInv, AccountInv, UNCHANGED lifecycle,
           NEW c \in Sent(ledger), ~ledger[c].cancelled, NEW out, Bury(c, out)
    PROVE  AccountInv'
<1> DEFINE bytes == SatSub(queued_bytes, ByteSum(ledger, Charged(ledger, {c})))
           K == Take(ledger, Evicted)
           L == [K EXCEPT ![c] = [@ EXCEPT !.cancelled = TRUE, !.holds_charge = FALSE]]
           idx == Unindex(wire_index, ledger, Evicted)
<1>1. /\ tombstones' = PushTombstone(c)
      /\ Flush(L, idx, queue, replay_hold, SatSub(in_flight_count, 1), queued_count, bytes, out)
  BY DEF Bury
<1>2. /\ Sound(ledger) /\ Accounted(ledger, queued_count, queued_bytes)
      /\ tombstones \in Seq(Calls) /\ Distinct(tombstones)
      /\ Elements(tombstones) = DOMAIN ledger \ Live(ledger)
      /\ Len(queue) <= QueueDepth /\ Len(tombstones) <= InFlight
      /\ queued_count \in Nat
  BY CallFacts DEF AccountInv
<1>3. /\ Evicted \subseteq DOMAIN ledger \ Live(ledger)
      /\ Len(tombstones') <= InFlight
  <2>1. CASE Len(tombstones) >= InFlight
    <3>1. /\ Evicted = {Head(tombstones)} /\ tombstones # <<>>
      BY <2>1, LimitsAssumption DEF Evicted
    <3>2. /\ Head(tombstones) \in Elements(tombstones) /\ Tail(tombstones) \in Seq(Calls)
          /\ Len(Tail(tombstones)) = Len(tombstones) - 1
      BY <1>2, <3>1, TailRemoves
    <3>3. tombstones' = Append(Tail(tombstones), c)
      BY <1>1, <3>1 DEF PushTombstone
    <3>4. Len(tombstones') = Len(tombstones) - 1 + 1 /\ Len(tombstones) \in Nat
      BY <1>2, <3>2, <3>3
    <3> QED BY <1>2, <3>1, <3>2, <3>4
  <2>2. CASE ~(Len(tombstones) >= InFlight)
    <3>1. Evicted = {} /\ tombstones' = Append(tombstones, c)
      BY <2>2, <1>1 DEF Evicted, PushTombstone
    <3>2. Len(tombstones') = Len(tombstones) + 1 /\ Len(tombstones) \in Nat
      BY <1>2, <3>1
    <3>3. InFlight \in Nat
      BY LimitsAssumption
    <3> QED BY <2>2, <3>1, <3>2, <3>3
  <2> QED BY <2>1, <2>2
<1>4. /\ \A d \in Evicted : d \in DOMAIN ledger /\ d # c /\ ledger[d].cancelled
                            /\ ledger[d].phase = "sent" /\ ~ledger[d].holds_charge
      /\ c \in DOMAIN ledger /\ c \notin Evicted /\ ledger[c].phase = "sent"
  <2>1. \A d \in Evicted : d \in DOMAIN ledger /\ ledger[d].cancelled
    BY <1>3 DEF Live
  <2>2. c \in DOMAIN ledger /\ ledger[c].phase = "sent"
    BY DEF Sent
  <2>3. \A d \in Evicted : ledger[d].phase = "sent" /\ ~ledger[d].holds_charge
    BY <2>1, <1>2 DEF Accounted, ChargesHeld, Sound, Queued
  <2> QED BY <2>1, <2>2, <2>3
<1>5. /\ DOMAIN L = DOMAIN ledger \ Evicted
      /\ \A d \in DOMAIN L : d # c => L[d] = ledger[d]
      /\ L[c] = [ledger[c] EXCEPT !.cancelled = TRUE, !.holds_charge = FALSE]
  BY <1>4 DEF Take
<1>6. \A d \in DOMAIN L : /\ L[d].bytes = ledger[d].bytes /\ L[d].phase = ledger[d].phase
                          /\ L[d].replayable = ledger[d].replayable
                          /\ L[d].expired = ledger[d].expired
                          /\ d # c => L[d].cancelled = ledger[d].cancelled
                                      /\ L[d].holds_charge = ledger[d].holds_charge
  <2> HIDE DEF L
  <2>1. /\ L[c].bytes = ledger[c].bytes /\ L[c].phase = ledger[c].phase
        /\ L[c].replayable = ledger[c].replayable /\ L[c].expired = ledger[c].expired
    BY <1>5
  <2> QED BY <1>5, <2>1
<1>7. L[c].cancelled = TRUE /\ L[c].holds_charge = FALSE
  <2>1. /\ [ledger[c] EXCEPT !.cancelled = TRUE, !.holds_charge = FALSE].holds_charge = FALSE
        /\ [ledger[c] EXCEPT !.cancelled = TRUE, !.holds_charge = FALSE].cancelled = TRUE
    <3>1. ledger[c] \in Entry
      BY <1>4 DEF CallInv, TablesNow, Tables, Rows
    <3> QED BY <3>1 DEF Entry
  <2> HIDE DEF L
  <2> QED BY <1>5, <2>1
<1> HIDE DEF L, K, bytes, idx
<1>8. Sound(L)
  <2>1. IsFiniteSet(DOMAIN L)
    <3>1. DOMAIN L \in SUBSET DOMAIN ledger
      BY <1>5
    <3> QED BY <3>1, <1>2, FS_Subset DEF Sound
  <2> QED BY <2>1, <1>2, <1>4, <1>5, <1>6, <1>7 DEF Sound
<1>9. Queued(L) = Queued(ledger) \ {} /\ Queued(L) = Queued(ledger)
  BY <1>4, <1>5, <1>6 DEF Queued
<1>10. ChargesHeld(L)
  <2> SUFFICES ASSUME NEW d \in DOMAIN L
               PROVE  L[d].holds_charge <=> d \in Queued(L) \/ (L[d].replayable /\ ~L[d].cancelled)
    BY DEF ChargesHeld
  <2>1. CASE d = c
    <3>1. c \notin Queued(L)
      BY <1>6, <2>1 DEF Queued, Sent
    <3> QED BY <1>7, <2>1, <3>1
  <2>2. CASE d # c
    <3>1. d \in DOMAIN ledger /\ (d \in Queued(L) <=> d \in Queued(ledger))
      BY <1>5, <1>9
    <3>2. ledger[d].holds_charge <=>
            d \in Queued(ledger) \/ (ledger[d].replayable /\ ~ledger[d].cancelled)
      BY <1>2, <3>1 DEF Accounted, ChargesHeld
    <3> QED BY <1>6, <2>2, <3>1, <3>2
  <2> QED BY <2>1, <2>2
<1>11. Charged(L, DOMAIN L) = Charged(ledger, DOMAIN ledger) \ Charged(ledger, {c})
  <2>1. ASSUME NEW d \in Charged(L, DOMAIN L)
        PROVE  d \in Charged(ledger, DOMAIN ledger) \ Charged(ledger, {c})
    BY <1>5, <1>6, <1>7, <2>1 DEF Charged
  <2>2. ASSUME NEW d \in Charged(ledger, DOMAIN ledger), d \notin Charged(ledger, {c})
        PROVE  d \in Charged(L, DOMAIN L)
    <3>1. d \in DOMAIN ledger /\ ledger[d].holds_charge /\ d # c
      BY <2>2 DEF Charged
    <3>2. d \in DOMAIN L
      BY <3>1, <1>4, <1>5
    <3> QED BY <3>1, <3>2, <1>5 DEF Charged
  <2> QED BY <2>1, <2>2
<1>12. Accounted(L, queued_count, bytes)
  <2>1. Charged(ledger, {c}) \in SUBSET Charged(ledger, DOMAIN ledger) /\ {} \in SUBSET Queued(ledger)
    BY <1>4 DEF Charged
  <2>2. DOMAIN L \subseteq DOMAIN ledger /\ \A d \in DOMAIN L : L[d].bytes = ledger[d].bytes
    BY <1>5, <1>6
  <2>3. Accounted(L, SatSub(queued_count, Cardinality({})), bytes)
    BY <1>2, <1>9, <1>10, <1>11, <2>1, <2>2, Releases DEF bytes
  <2> QED BY <2>3, <1>2, NothingReleased
<1>13. Accounted(ledger', queued_count', queued_bytes') /\ Len(queue') <= QueueDepth
  BY <1>1, <1>2, <1>8, <1>9, <1>12, SentHandler
<1> QED BY <1>3, <1>13 DEF AccountInv

\* CancelQueued and QueuedTimesOut.
LEMMA UnsentAccounts ==
    ASSUME CallInv, AccountInv, UNCHANGED tombstones, NEW c \in Queued(ledger), NEW out,
           NoFlush(Take(ledger, {c}), wire_index, Without(queue, c), Without(replay_hold, c),
                   in_flight_count, SatSub(queued_count, Cardinality(Charged(ledger, {c}))),
                   SatSub(queued_bytes, ByteSum(ledger, Charged(ledger, {c}))), out)
    PROVE  AccountInv'
<1>1. /\ ledger' = Take(ledger, {c}) /\ queue' = Without(queue, c)
      /\ queued_count' = SatSub(queued_count, Cardinality(Charged(ledger, {c})))
      /\ queued_bytes' = SatSub(queued_bytes, ByteSum(ledger, Charged(ledger, {c})))
      /\ tombstones' = tombstones
  BY DEF NoFlush
<1>2. /\ Sound(ledger) /\ Accounted(ledger, queued_count, queued_bytes)
      /\ Len(queue) <= QueueDepth /\ Len(tombstones) <= InFlight
      /\ queue \in Seq(Calls) /\ Distinct(queue)
  BY CallFacts, IncreasingDistinct DEF AccountInv, Unsent
<1>3. {c} \in SUBSET DOMAIN ledger /\ {c} \cap Queued(ledger) = {c}
  BY DEF Queued
<1>4. Charged(ledger, {c}) = {c}
  BY <1>2, <1>3 DEF Accounted, ChargesHeld, Charged
<1>5. Accounted(ledger', queued_count', queued_bytes')
  BY <1>1, <1>2, <1>3, <1>4, TakeAccounts
<1>6. Len(queue') <= QueueDepth
  <2>1. Len(queue') <= Len(queue) /\ queue' \in Seq(Calls)
    BY <1>1, <1>2, WithoutRemoves
  <2>2. Len(queue') \in Nat /\ Len(queue) \in Nat /\ QueueDepth \in Nat
    BY <2>1, <1>2, LimitsAssumption
  <2> QED BY <2>1, <2>2, <1>2
<1> QED BY <1>1, <1>2, <1>5, <1>6 DEF AccountInv

LEMMA DeadlinePassesAccounts ==
    ASSUME CallInv, AccountInv, NEW c \in Calls, DeadlinePasses(c)
    PROVE  AccountInv'
<1>1. /\ ledger' = [ledger EXCEPT ![c].expired = TRUE] /\ queue' = queue
      /\ queued_count' = queued_count /\ queued_bytes' = queued_bytes /\ tombstones' = tombstones
  BY DEF DeadlinePasses
<1> DEFINE K == ledger'
<1>2. /\ DOMAIN K = DOMAIN ledger
      /\ \A d \in DOMAIN ledger : /\ K[d].bytes = ledger[d].bytes
                                  /\ K[d].holds_charge = ledger[d].holds_charge
                                  /\ K[d].phase = ledger[d].phase
                                  /\ K[d].replayable = ledger[d].replayable
                                  /\ K[d].cancelled = ledger[d].cancelled
  <2>1. \A d \in DOMAIN ledger : K[d] \in {ledger[d], [ledger[d] EXCEPT !.expired = TRUE]}
    BY <1>1
  <2>2. DOMAIN K = DOMAIN ledger
    BY <1>1
  <2>3. \A d \in DOMAIN ledger : ledger[d] \in Entry
    BY DEF CallInv, TablesNow, Tables, Rows
  <2> HIDE DEF K
  <2>4. ASSUME NEW d \in DOMAIN ledger
        PROVE  /\ K[d].bytes = ledger[d].bytes /\ K[d].holds_charge = ledger[d].holds_charge
               /\ K[d].phase = ledger[d].phase /\ K[d].replayable = ledger[d].replayable
               /\ K[d].cancelled = ledger[d].cancelled
    <3>1. ledger[d] \in Entry /\ K[d] \in {ledger[d], [ledger[d] EXCEPT !.expired = TRUE]}
      BY <2>1, <2>3
    <3> QED BY <3>1 DEF Entry
  <2> QED BY <2>2, <2>4
<1> HIDE DEF K
<1>3. /\ Queued(K) = Queued(ledger) /\ Charged(K, DOMAIN K) = Charged(ledger, DOMAIN ledger)
  BY <1>2 DEF Queued, Charged
<1>4. ChargesHeld(K)
  BY <1>2, <1>3 DEF AccountInv, Accounted, ChargesHeld, Queued
<1>5. ByteSum(K, Charged(ledger, DOMAIN ledger)) = ByteSum(ledger, Charged(ledger, DOMAIN ledger))
  <2>1. \A d \in Charged(ledger, DOMAIN ledger) : K[d].bytes = ledger[d].bytes
    BY <1>2 DEF Charged
  <2> QED BY <2>1, ByteSumSame
<1> QED BY <1>1, <1>3, <1>4, <1>5 DEF AccountInv, Accounted, K

\* The accountant let the call in: there is room for it and for its bytes.
LEMMA AdmittedAccounts ==
    ASSUME CallInv, AccountInv, NEW shape \in CallShapes, DispatchAdmitted(shape)
    PROVE  AccountInv'
<1> DEFINE k == next_call_id
           new == NewEntry(shape)
           K == [d \in DOMAIN ledger \cup {k} |-> IF d = k THEN new ELSE ledger[d]]
           q == Append(queue, k)
           count == queued_count + 1
           bytes == queued_bytes + shape.bytes
<1>1. /\ NextCall /\ UNCHANGED lifecycle /\ tombstones' = tombstones
      /\ ~(queued_count >= QueueDepth) /\ ~(bytes > OutboundBytes)
      /\ Flush(K, wire_index, q, replay_hold, in_flight_count, count, bytes, outcome)
  BY DEF DispatchAdmitted, NoRoom
<1>2. /\ Sound(ledger) /\ Unsent(ledger, replay_hold, queue, in_flight_count)
      /\ in_flight_count \in Nat /\ queued_count \in Nat
      /\ Accounted(ledger, queued_count, queued_bytes)
      /\ Len(queue) <= QueueDepth /\ Len(tombstones) <= InFlight
  BY CallFacts DEF AccountInv
<1>3. /\ k \in Calls /\ k \notin DOMAIN ledger
      /\ \A d \in DOMAIN ledger : d < k
  <2>1. k \in Calls /\ k \notin DOMAIN ledger
    BY <1>1, FreshCall DEF CallInv
  <2>2. \A d \in DOMAIN ledger : d < k
    BY DEF CallInv, TablesNow, Tables, Rows
  <2> QED BY <2>1, <2>2
<1>4. /\ new.phase = "queued" /\ new.bytes = shape.bytes /\ new.holds_charge = TRUE
      /\ new.cancelled = FALSE /\ new.expired = FALSE /\ new.replayable \in BOOLEAN
      /\ shape.bytes \in Nat
  <2>1. shape.keyed \in BOOLEAN /\ shape.bytes \in Nat /\ stable_principal \in BOOLEAN
    BY ShapesAssumption DEF CallInv, Settled
  <2> QED BY <2>1 DEF NewEntry, Replayable
<1>5. DOMAIN K = DOMAIN ledger \cup {k} /\ K[k] = new /\ \A d \in DOMAIN ledger : K[d] = ledger[d]
  BY <1>3
<1> HIDE DEF K, new
<1>6. Sound(K)
  <2>1. IsFiniteSet(DOMAIN K)
    BY <1>2, <1>5, FS_AddElement DEF Sound
  <2> QED BY <2>1, <1>2, <1>4, <1>5 DEF Sound
<1>7. Queued(K) = Queued(ledger) \cup {k} /\ k \notin Queued(ledger)
  BY <1>3, <1>4, <1>5 DEF Queued
<1>8. /\ Charged(K, DOMAIN K) = Charged(ledger, DOMAIN ledger) \cup {k}
      /\ k \notin Charged(ledger, DOMAIN ledger)
  BY <1>3, <1>4, <1>5 DEF Charged
<1>9. ChargesHeld(K)
  BY <1>2, <1>4, <1>5, <1>7 DEF Accounted, ChargesHeld, Queued
<1>10. count = Cardinality(Queued(K)) /\ count \in Nat /\ Cardinality(Queued(ledger)) < QueueDepth
  <2>1. IsFiniteSet(Queued(ledger))
    <3>1. Queued(ledger) \in SUBSET DOMAIN ledger
      BY DEF Queued
    <3> QED BY <3>1, <1>2, FS_Subset DEF Sound
  <2>2. Cardinality(Queued(K)) = Cardinality(Queued(ledger)) + 1
    BY <2>1, <1>7, FS_AddElement
  <2>3. queued_count = Cardinality(Queued(ledger))
    BY <1>2 DEF Accounted
  <2> QED BY <2>2, <2>3, <1>1, <1>2, LimitsAssumption
<1>11. bytes = ByteSum(K, Charged(K, DOMAIN K)) /\ bytes <= OutboundBytes
  <2> DEFINE C == Charged(ledger, DOMAIN ledger)
  <2>1. IsFiniteSet(C) /\ \A c \in C : c \in DOMAIN ledger /\ ledger[c].bytes \in Nat
    <3>1. C \in SUBSET DOMAIN ledger
      BY DEF Charged
    <3> QED BY <3>1, <1>2, FS_Subset DEF Sound
  <2>2. \A c \in C : K[c].bytes = ledger[c].bytes
    BY <2>1, <1>5
  <2>3. ByteSum(K, C) = ByteSum(ledger, C)
    BY <2>2, ByteSumSame
  <2>4. IsFiniteSet({k}) /\ C \cap {k} = {} /\ \A c \in C \cup {k} : K[c].bytes \in Nat
    BY <2>1, <2>2, <1>4, <1>5, <1>8, FS_Singleton
  <2>5. ByteSum(K, {k}) = shape.bytes
    BY <1>4, <1>5, ByteSumOne
  <2>6. /\ ByteSum(K, C) \in Nat
        /\ ByteSum(K, C \cup {k}) = ByteSum(K, C) + ByteSum(K, {k})
    BY <2>1, <2>4, ByteSumAdds
  <2>7. queued_bytes = ByteSum(ledger, C)
    BY <1>2 DEF Accounted
  <2> HIDE DEF C
  <2>8. bytes = ByteSum(K, C \cup {k})
    BY <2>3, <2>5, <2>6, <2>7
  <2>9. bytes <= OutboundBytes
    BY <1>1, <1>4, <2>3, <2>6, <2>7, LimitsAssumption
  <2> QED BY <2>8, <2>9, <1>8 DEF C
<1>12. Unsent(K, replay_hold, q, in_flight_count) /\ Len(q) <= QueueDepth
  <2>1. /\ queue \in Seq(Calls) /\ Increasing(queue) /\ replay_hold \in Seq(Calls)
        /\ Elements(replay_hold) \cup Elements(queue) = Queued(ledger)
    BY <1>2 DEF Unsent
  <2>2. \A d \in Elements(replay_hold) \cup Elements(queue) : d < k
    BY <2>1, <1>3 DEF Queued
  <2>3. /\ q \in Seq(Calls) /\ Increasing(q) /\ Elements(q) = Elements(queue) \cup {k}
    BY <2>1, <2>2, <1>3, AppendIncreases
  <2>4. Unsent(K, replay_hold, q, in_flight_count)
    <3> HIDE DEF q
    <3> QED BY <1>2, <1>7, <2>2, <2>3 DEF Unsent
  <2>5. Len(queue) = Cardinality(Elements(queue))
    BY <2>1, IncreasingDistinct, DistinctLength
  <2>6. Cardinality(Elements(queue)) <= Cardinality(Queued(ledger))
    <3>1. IsFiniteSet(Queued(ledger)) /\ Elements(queue) \in SUBSET Queued(ledger)
      <4>1. Queued(ledger) \in SUBSET DOMAIN ledger
        BY DEF Queued
      <4> QED BY <4>1, <2>1, <1>2, FS_Subset DEF Sound
    <3> QED BY <3>1, FS_Subset
  <2>7. Len(q) = Len(queue) + 1 /\ Len(queue) \in Nat
    BY <2>1
  <2>8. Cardinality(Queued(ledger)) \in Nat
    BY <1>2 DEF Accounted
  <2> HIDE DEF q
  <2>9. Len(q) <= QueueDepth
    BY <2>5, <2>6, <2>7, <2>8, <1>10, LimitsAssumption
  <2> QED BY <2>4, <2>9
<1> HIDE DEF q, count, bytes
<1>13. Accounted(ledger', queued_count', queued_bytes') /\ Len(queue') <= QueueDepth
  <2>1. Accounted(K, count, bytes)
    BY <1>9, <1>10, <1>11 DEF Accounted
  <2> QED BY <2>1, <1>1, <1>2, <1>6, <1>10, <1>12, FlushHandler
<1> QED BY <1>1, <1>2, <1>13 DEF AccountInv

\* The held calls go back to the queue, or leave whole on another incarnation.
LEMMA ConnectedAccounts ==
    ASSUME CallInv, AccountInv, NEW token \in Tokens, NEW i \in Incarnations, Connected(token, i)
    PROVE  AccountInv'
<1> DEFINE held == IF Restarted(i) THEN Elements(replay_hold) ELSE {}
           L == Take(ledger, held)
           q == IF Restarted(i) THEN queue ELSE replay_hold \o queue
           h == IF Restarted(i) THEN 0 ELSE Len(replay_hold)
           count == SatSub(queued_count, Cardinality(Charged(ledger, held)))
           bytes == SatSub(queued_bytes, ByteSum(ledger, Charged(ledger, held)))
           out == Settle(outcome, held, LAMBDA c : "disconnected_unknown")
<1>1. FlushReady(L, Empty, q, in_flight_count, count, bytes, out, 0) /\ tombstones' = tombstones
  BY DEF Connected
<1>2. /\ Sound(ledger) /\ in_flight_count \in Nat /\ queued_count \in Nat
      /\ Accounted(ledger, queued_count, queued_bytes)
      /\ Len(queue) <= QueueDepth /\ Len(tombstones) <= InFlight
      /\ Unsent(ledger, replay_hold, queue, in_flight_count)
  BY CallFacts DEF AccountInv
<1>3. /\ queue \in Seq(Calls) /\ Increasing(queue)
      /\ replay_hold \in Seq(Calls) /\ Increasing(replay_hold)
      /\ \A c \in Elements(replay_hold), d \in Elements(queue) : c < d
      /\ Elements(replay_hold) \cup Elements(queue) = Queued(ledger)
      /\ in_flight_count + Len(replay_hold) <= InFlight
      /\ Len(replay_hold) \in Nat /\ Len(queue) \in Nat
  BY <1>2 DEF Unsent
<1>4. held \in SUBSET Queued(ledger) /\ held \in SUBSET DOMAIN ledger /\ held \cap Queued(ledger) = held
      /\ Charged(ledger, held) = held
  <2>1. held \in SUBSET Queued(ledger)
    BY <1>3
  <2>2. held \in SUBSET DOMAIN ledger
    BY <2>1 DEF Queued
  <2> HIDE DEF held
  <2>3. Charged(ledger, held) = held
    BY <1>2, <2>1, <2>2 DEF Accounted, ChargesHeld, Charged
  <2> QED BY <2>1, <2>2, <2>3
<1>5. Accounted(L, count, bytes) /\ Sound(L) /\ count \in Nat
  <2> HIDE DEF held
  <2>1. Accounted(L, count, bytes) /\ Sound(L)
    BY <1>2, <1>4, TakeAccounts, TakeSound
  <2>2. Queued(L) \in SUBSET DOMAIN L
    BY DEF Queued
  <2> HIDE DEF L, count, bytes
  <2>3. count \in Nat
    BY <2>1, <2>2, FS_Subset, FS_CardinalityType DEF Accounted, Sound
  <2> QED BY <2>1, <2>3
<1>6. /\ q \in Seq(Calls) /\ Increasing(q) /\ Elements(q) = Queued(ledger) \ held
      /\ Len(q) <= QueueDepth + h /\ h \in Nat /\ in_flight_count + h <= InFlight
  <2>1. CASE Restarted(i)
    <3>1. q = queue /\ held = Elements(replay_hold) /\ h = 0
      BY <2>1
    <3>2. Elements(queue) \cap Elements(replay_hold) = {}
      <4>1. \A c \in Elements(queue) : c \in Nat /\ ~(c < c)
        <5>1. \A c \in Elements(queue) : c \in Calls
          BY <1>3 DEF Elements
        <5>2. \A c \in Nat : ~(c < c)
          OBVIOUS
        <5> QED BY <5>1, <5>2, CallsAreNat
      <4> QED BY <4>1, <1>3
    <3>3. Elements(queue) = Queued(ledger) \ Elements(replay_hold)
      BY <3>2, <1>3
    <3>4. Len(queue) <= QueueDepth + 0 /\ 0 \in Nat /\ in_flight_count + 0 <= InFlight
      BY <1>2, <1>3, LimitsAssumption
    <3> HIDE DEF q, held, h
    <3> QED BY <3>1, <3>3, <3>4, <1>3
  <2>2. CASE ~Restarted(i)
    <3>1. q = replay_hold \o queue /\ held = {} /\ h = Len(replay_hold)
      BY <2>2
    <3>2. /\ replay_hold \o queue \in Seq(Calls) /\ Increasing(replay_hold \o queue)
          /\ Len(replay_hold \o queue) = Len(replay_hold) + Len(queue)
          /\ Elements(replay_hold \o queue) = Elements(replay_hold) \cup Elements(queue)
      BY <1>3, ConcatIncreases
    <3> DEFINE a == Len(replay_hold)
               b == Len(queue)
               t == Len(replay_hold \o queue)
    <3>3. t = a + b /\ a \in Nat /\ b \in Nat /\ b <= QueueDepth
      BY <3>2, <1>2, <1>3
    <3> HIDE DEF a, b, t
    <3>4. t <= QueueDepth + a
      BY <3>3, LimitsAssumption
    <3> HIDE DEF q, held, h
    <3> QED BY <3>1, <3>2, <3>4, <1>3 DEF a, t
  <2> QED BY <2>1, <2>2
<1>7. Queued(L) = Queued(ledger) \ held
  <2> HIDE DEF held
  <2> QED BY DEF Take, Queued
<1> HIDE DEF held, L, q, h, count, bytes, out
<1>8. Elements(q) = Queued(L) /\ Elements(q) \subseteq DOMAIN L
  BY <1>6, <1>7 DEF Queued
<1>9. Accounted(ledger', queued_count', queued_bytes')
  BY <1>1, <1>5, <1>6, <1>8, FlushAccounts
<1>10. Len(queue') <= QueueDepth
  <2>1. 0 \in Nat
    OBVIOUS
  <2> QED BY <2>1, <1>1, <1>2, <1>5, <1>6, <1>8, FlushBounds
<1> QED BY <1>1, <1>2, <1>9, <1>10 DEF AccountInv

LEMMA NothingCharged == Accounted(Empty, 0, 0) /\ Len(<<>>) = 0
<1>1. DOMAIN Empty = {}
  BY DEF Empty
<1>2. Queued(Empty) = {} /\ Charged(Empty, DOMAIN Empty) = {} /\ ChargesHeld(Empty)
  BY <1>1 DEF Queued, Charged, ChargesHeld
<1>3. ByteSum(Empty, {}) = Cardinality({})
  <2>1. UNION {{c} \X (1..Empty[c].bytes) : c \in {}} = {}
    OBVIOUS
  <2> QED BY <2>1 DEF ByteSum
<1>4. Cardinality({}) = 0
  BY FS_EmptySet
<1>5. 0 <= OutboundBytes
  BY LimitsAssumption
<1> QED BY <1>2, <1>3, <1>4, <1>5 DEF Accounted

LEMMA DrainAccounts ==
    ASSUME NEW L, NEW out, NEW maybe, NEW never, DrainAll(L, out, maybe, never)
    PROVE  AccountInv'
<1>1. /\ ledger' = Empty /\ queue' = <<>> /\ tombstones' = <<>>
      /\ queued_count' = 0 /\ queued_bytes' = 0
  BY DEF DrainAll
<1>2. 0 <= QueueDepth /\ 0 <= InFlight
  BY LimitsAssumption
<1> QED BY <1>1, <1>2, NothingCharged DEF AccountInv

\* The held calls are unsent again and keep their charge; the others give theirs
\* back.
LEMMA InterruptedAccounts ==
    ASSUME CallInv, AccountInv, NEW gen \in 0..generation, Interrupted(gen)
    PROVE  AccountInv'
<1> DEFINE sent == Sent(ledger)
           forgotten == {c \in sent : ledger[c].cancelled}
           expired == (sent \ forgotten) \cap Expired(ledger)
           hold == {c \in sent \ (forgotten \cup expired) : ledger[c].replayable}
           lost == sent \ (forgotten \cup expired \cup hold)
           S == forgotten \cup expired \cup lost
           bytes == SatSub(queued_bytes, ByteSum(ledger, Charged(ledger, expired \cup lost)))
           K == Take(ledger, S)
           L == [c \in DOMAIN ledger \ S |->
                   IF c \in hold THEN [ledger[c] EXCEPT !.phase = "queued"] ELSE ledger[c]]
           out == Settle(outcome, expired \cup lost, LAMBDA c :
                    IF c \in expired THEN "timeout" ELSE "disconnected_unknown")
<1>0. \/ FailAll(L, out)
      \/ /\ tombstones' = <<>>
         /\ ledger' = L /\ queue' = queue /\ queued_bytes' = bytes
         /\ queued_count' = queued_count + Cardinality(hold)
  BY DEF Interrupted, NoFlush
<1>1. CASE FailAll(L, out)
  BY <1>1, DrainAccounts DEF FailAll
<1>2. ASSUME tombstones' = <<>>, ledger' = L, queue' = queue, queued_bytes' = bytes,
             queued_count' = queued_count + Cardinality(hold)
      PROVE  AccountInv'
  <2>1. /\ Accounted(ledger, queued_count, queued_bytes) /\ Sound(ledger)
        /\ Len(queue) <= QueueDepth /\ queued_count \in Nat
    BY CallFacts DEF AccountInv
  <2>2. /\ S \in SUBSET Sent(ledger) /\ hold = Sent(ledger) \ S
        /\ \A c \in hold : ledger[c].replayable /\ ~ledger[c].cancelled
        /\ \A c \in S : c \in expired \cup lost \/ ledger[c].cancelled
        /\ expired \cup lost \subseteq S
    OBVIOUS
  <2>3. hold \in SUBSET DOMAIN ledger
    BY <2>2 DEF Sent
  <2>4. \A c \in DOMAIN ledger \ S : L[c] \in {ledger[c], [ledger[c] EXCEPT !.phase = "queued"]}
                                     /\ (c \notin hold => L[c] = ledger[c])
                                     /\ (c \in hold => L[c] = [ledger[c] EXCEPT !.phase = "queued"])
    OBVIOUS
  <2>5. DOMAIN L = DOMAIN ledger \ S
    OBVIOUS
  <2> DEFINE E == expired \cup lost
  <2>6. /\ \A c \in S : c \in E \/ ledger[c].cancelled
        /\ E \subseteq S
    BY <2>2
  <2>7. bytes = SatSub(queued_bytes, ByteSum(ledger, Charged(ledger, E)))
    OBVIOUS
  <2> HIDE DEF E, S, L, hold, bytes, out
  <2>8. Charged(ledger, E) = Charged(ledger, S)
    BY <2>1, <2>2, <2>6 DEF Accounted, ChargesHeld, Charged, Sent, Queued
  <2>9. Accounted(K, queued_count, bytes) /\ Sound(K) /\ Queued(K) = Queued(ledger)
    BY <2>2, <2>7, <2>8, SentTaken
  <2>10. DOMAIN K = DOMAIN ledger \ S /\ \A c \in DOMAIN K : K[c] = ledger[c]
    BY DEF Take
  <2> HIDE DEF K
  <2>11. ASSUME NEW c \in DOMAIN ledger, c \notin S
         PROVE  /\ L[c].bytes = ledger[c].bytes /\ L[c].holds_charge = ledger[c].holds_charge
                /\ L[c].replayable = ledger[c].replayable /\ L[c].cancelled = ledger[c].cancelled
                /\ c \in hold => L[c].phase = "queued"
                /\ c \notin hold => L[c].phase = ledger[c].phase
    <3>1. ledger[c] \in Entry
      BY DEF CallInv, TablesNow, Tables, Rows
    <3>2. c \notin hold => L[c] = ledger[c]
      BY <2>4, <2>11
    <3>3. c \in hold => L[c] = [ledger[c] EXCEPT !.phase = "queued"]
      BY <2>4, <2>11
    <3> QED BY <3>1, <3>2, <3>3 DEF Entry
  <2>12. Queued(L) = Queued(K) \cup hold /\ Queued(K) \cap hold = {}
    <3>1. \A c \in hold : c \in DOMAIN ledger /\ c \notin S /\ ledger[c].phase = "sent"
      BY <2>2, <2>3 DEF Sent
    <3>2. \A c \in DOMAIN L : L[c].phase = "queued" <=> c \in hold \/ ledger[c].phase = "queued"
      BY <2>5, <2>11
    <3> QED BY <2>5, <2>10, <3>1, <3>2 DEF Queued
  <2>13. Charged(L, DOMAIN L) = Charged(K, DOMAIN K)
    BY <2>5, <2>10, <2>11 DEF Charged
  <2>14. ChargesHeld(L)
    <3> SUFFICES ASSUME NEW c \in DOMAIN L
                 PROVE  L[c].holds_charge <=> c \in Queued(L) \/ (L[c].replayable /\ ~L[c].cancelled)
      BY DEF ChargesHeld
    <3>1. c \in DOMAIN ledger /\ c \notin S /\ c \in DOMAIN K /\ K[c] = ledger[c]
      BY <2>5, <2>10
    <3>2. K[c].holds_charge <=> c \in Queued(K) \/ (K[c].replayable /\ ~K[c].cancelled)
      BY <3>1, <2>9 DEF Accounted, ChargesHeld
    <3> QED BY <3>1, <3>2, <2>2, <2>11, <2>12
  <2>15. ByteSum(L, Charged(K, DOMAIN K)) = ByteSum(K, Charged(K, DOMAIN K))
    <3>1. \A c \in Charged(K, DOMAIN K) : L[c].bytes = K[c].bytes
      BY <2>10, <2>11 DEF Charged
    <3> QED BY <3>1, ByteSumSame
  <2>16. queued_count + Cardinality(hold) = Cardinality(Queued(L))
    <3>1. IsFiniteSet(hold) /\ IsFiniteSet(Queued(K))
      <4>1. Queued(K) \in SUBSET DOMAIN K
        BY DEF Queued
      <4> QED BY <4>1, <2>1, <2>3, <2>9, FS_Subset DEF Sound
    <3>2. Cardinality(Queued(K) \cup hold) = Cardinality(Queued(K)) + Cardinality(hold)
                                             - Cardinality(Queued(K) \cap hold)
      BY <3>1, FS_Union
    <3>3. Cardinality(Queued(K) \cap hold) = 0
      BY <2>12, FS_EmptySet
    <3>4. Cardinality(Queued(K)) \in Nat /\ Cardinality(hold) \in Nat
      BY <3>1, FS_CardinalityType
    <3> QED BY <2>9, <2>12, <3>2, <3>3, <3>4 DEF Accounted
  <2>17. Accounted(L, queued_count', bytes)
    BY <1>2, <2>9, <2>13, <2>14, <2>15, <2>16 DEF Accounted
  <2>18. Len(<<>>) <= InFlight
    BY NothingCharged, LimitsAssumption
  <2> QED BY <1>2, <2>1, <2>17, <2>18 DEF AccountInv
<1> QED BY <1>0, <1>1, <1>2

-----------------------------------------------------------------------------
(* The theorems                                                            *)

LEMMA AccountStep == CallInv /\ AccountInv /\ [Next]_vars => AccountInv'
<1> SUFFICES ASSUME CallInv, AccountInv, [Next]_vars PROVE AccountInv'
  OBVIOUS
<1>1. CASE UNCHANGED <<ledger, queue, tombstones, queued_count, queued_bytes>>
  BY <1>1 DEF AccountInv, Accounted
<1>2. CASE Start \/ BackoffFires
  BY <1>1, <1>2 DEF Start, BackoffFires, work
<1>3. CASE Stop
  BY <1>3, DrainAccounts DEF Stop
<1>4. CASE DialOutcome
  <2>1. ASSUME NEW token \in Tokens, DialFailed(token) \/ GateRefused(token)
        PROVE  AccountInv'
    <3>1. CASE FailAll(ledger, outcome)
      BY <3>1, DrainAccounts DEF FailAll
    <3>2. CASE UNCHANGED <<work, tombstones>>
      BY <1>1, <3>2 DEF work
    <3> QED BY <2>1, <3>1, <3>2 DEF DialFailed, GateRefused
  <2> QED BY <1>4, <2>1, ConnectedAccounts DEF DialOutcome
<1>5. CASE \E g \in 0..generation : Interrupted(g)
  BY <1>5, InterruptedAccounts
<1>6. CASE Dispatch
  <2>1. CASE DispatchRefused \/ \E shape \in CallShapes : DispatchQueueFull(shape)
    BY <1>1, <2>1 DEF DispatchRefused, DispatchQueueFull
  <2> QED BY <1>6, <2>1, AdmittedAccounts DEF Dispatch
<1>7. CASE Cancel
  <2>1. ASSUME NEW c \in Calls, CancelQueued(c) PROVE AccountInv'
    BY <2>1, UnsentAccounts DEF CancelQueued
  <2>2. ASSUME NEW c \in Calls, CancelSent(c) PROVE AccountInv'
    BY <2>2, BuryAccounts DEF CancelSent
  <2> QED BY <1>7, <2>1, <2>2 DEF Cancel
<1>8. CASE \E f \in wire : Reply(f)
  BY <1>8, ReplyAccounts
<1>9. CASE \E c \in Calls : DeadlinePasses(c) \/ TimerFires(c)
  <2>1. ASSUME NEW c \in Calls, SentTimesOut(c) PROVE AccountInv'
    BY <2>1, BuryAccounts DEF SentTimesOut
  <2>2. ASSUME NEW c \in Calls, QueuedTimesOut(c) PROVE AccountInv'
    BY <2>2, UnsentAccounts DEF QueuedTimesOut
  <2> QED BY <1>9, <2>1, <2>2, DeadlinePassesAccounts, TombstoneReclaimedAccounts DEF TimerFires
<1>10. CASE UNCHANGED vars
  BY <1>1, <1>10 DEF vars, work
<1> QED BY <1>2, <1>3, <1>4, <1>5, <1>6, <1>7, <1>8, <1>9, <1>10 DEF Next

LEMMA AccountInit == Init => AccountInv
<1> SUFFICES ASSUME Init PROVE AccountInv
  OBVIOUS
<1>1. /\ ledger = Empty /\ queue = <<>> /\ tombstones = <<>>
      /\ queued_count = 0 /\ queued_bytes = 0
  BY DEF Init
<1>2. 0 <= QueueDepth /\ 0 <= InFlight
  BY LimitsAssumption
<1> QED BY <1>1, <1>2, NothingCharged DEF AccountInv

\* The admission account is what the ledger says, in every behaviour: no handler
\* leaks a slot or a byte, and none gives one back twice.
THEOREM AccountsAreKept == Spec => []AccountInv
<1>1. Init => AccountInv
  BY AccountInit
<1>2. CallInv /\ AccountInv /\ [Next]_vars => AccountInv'
  BY AccountStep
<1> QED BY <1>1, <1>2, CallsAreKept, PTL DEF Spec

\* The account is that of the unsent calls and of the sent ones to be replayed.
LEMMA AdmissionIsExact == CallInv /\ AccountInv => AdmissionExact
<1> SUFFICES ASSUME CallInv, AccountInv PROVE AdmissionExact
  OBVIOUS
<1>1. Accounted(ledger, queued_count, queued_bytes) /\ Sound(ledger)
  BY CallFacts DEF AccountInv
<1>2. Charged(ledger, DOMAIN ledger) = Queued(ledger) \cup
        {c \in Sent(ledger) : ledger[c].replayable /\ ~ledger[c].cancelled}
  BY <1>1 DEF Accounted, ChargesHeld, Charged, Sent, Queued, Sound
<1> QED BY <1>1, <1>2 DEF AdmissionExact, Accounted

\* Every table keeps its documented bound: an entry is queued, held, in a slot or
\* a tombstone.
LEMMA TablesAreBounded == CallInv /\ AccountInv => TablesBounded
<1> SUFFICES ASSUME CallInv, AccountInv PROVE TablesBounded
  OBVIOUS
<1>1. /\ Sound(ledger) /\ Unsent(ledger, replay_hold, queue, in_flight_count)
      /\ Slots(ledger, in_flight_count) /\ tombstones \in Seq(Calls) /\ Distinct(tombstones)
      /\ Elements(tombstones) = DOMAIN ledger \ Live(ledger)
      /\ Len(queue) <= QueueDepth /\ Len(tombstones) <= InFlight
  BY CallFacts DEF AccountInv
<1> DEFINE A == Elements(queue)
           B == Elements(replay_hold)
           C == Sent(ledger) \cap Live(ledger)
           D == Elements(tombstones)
<1>2. DOMAIN ledger = (A \cup B) \cup (C \cup D)
  BY <1>1 DEF Unsent, Sound, Queued, Sent, Live
<1>3. /\ IsFiniteSet(A) /\ IsFiniteSet(B) /\ IsFiniteSet(C) /\ IsFiniteSet(D)
      /\ IsFiniteSet(A \cup B) /\ IsFiniteSet(C \cup D)
  <2>1. /\ A \in SUBSET DOMAIN ledger /\ B \in SUBSET DOMAIN ledger
        /\ C \in SUBSET DOMAIN ledger /\ D \in SUBSET DOMAIN ledger
        /\ A \cup B \in SUBSET DOMAIN ledger /\ C \cup D \in SUBSET DOMAIN ledger
    BY <1>2
  <2> HIDE DEF A, B, C, D
  <2> QED BY <2>1, <1>1, FS_Subset DEF Sound
<1>4. /\ Cardinality(A) = Len(queue) /\ Cardinality(B) = Len(replay_hold)
      /\ Cardinality(C) = in_flight_count /\ Cardinality(D) = Len(tombstones)
      /\ in_flight_count + Len(replay_hold) <= InFlight
  BY <1>1, IncreasingDistinct, DistinctLength DEF Unsent, Slots
<1>5. /\ Cardinality(A) \in Nat /\ Cardinality(B) \in Nat /\ Cardinality(C) \in Nat
      /\ Cardinality(D) \in Nat /\ Cardinality(A \cup B) \in Nat /\ Cardinality(C \cup D) \in Nat
  BY <1>3, FS_CardinalityType
<1> HIDE DEF A, B, C, D
<1>6. \A X, Y : IsFiniteSet(X) /\ IsFiniteSet(Y) =>
        Cardinality(X \cup Y) <= Cardinality(X) + Cardinality(Y)
  <2> SUFFICES ASSUME NEW X, NEW Y, IsFiniteSet(X), IsFiniteSet(Y)
               PROVE  Cardinality(X \cup Y) <= Cardinality(X) + Cardinality(Y)
    OBVIOUS
  <2>1. Cardinality(X \cup Y) = Cardinality(X) + Cardinality(Y) - Cardinality(X \cap Y)
    BY FS_Union
  <2>2. IsFiniteSet(X \cap Y)
    <3>1. X \cap Y \in SUBSET X
      OBVIOUS
    <3> QED BY <3>1, FS_Subset
  <2>3. Cardinality(X) \in Nat /\ Cardinality(Y) \in Nat /\ Cardinality(X \cap Y) \in Nat
    BY <2>2, FS_CardinalityType
  <2> QED BY <2>1, <2>3
<1>7. Cardinality(DOMAIN ledger) <= Cardinality(A \cup B) + Cardinality(C \cup D)
  BY <1>2, <1>3, <1>6
<1>8. /\ Cardinality(A \cup B) <= Cardinality(A) + Cardinality(B)
      /\ Cardinality(C \cup D) <= Cardinality(C) + Cardinality(D)
  BY <1>3, <1>6
<1>9. Cardinality(DOMAIN ledger) \in Nat
  BY <1>1, FS_CardinalityType DEF Sound
<1> DEFINE a == Cardinality(A)
           b == Cardinality(B)
           c == Cardinality(C)
           d == Cardinality(D)
           x == Cardinality(A \cup B)
           y == Cardinality(C \cup D)
           z == Cardinality(DOMAIN ledger)
<1>10. /\ a \in Nat /\ b \in Nat /\ c \in Nat /\ d \in Nat /\ x \in Nat /\ y \in Nat /\ z \in Nat
       /\ z <= x + y /\ x <= a + b /\ y <= c + d
       /\ a <= QueueDepth /\ d <= InFlight /\ c + b <= InFlight
  BY <1>1, <1>4, <1>5, <1>7, <1>8, <1>9
<1> HIDE DEF a, b, c, d, x, y, z
<1>11. b <= InFlight /\ z <= QueueDepth + 2 * InFlight
  BY <1>10, LimitsAssumption
<1> QED BY <1>1, <1>4, <1>11 DEF TablesBounded, b, z

\* Five tables, two counters and a byte account describe the same set of calls in
\* every behaviour, and keep their bounds.
THEOREM TablesAreExact == Spec => []TablesExact
<1>1. Spec => []AdmissionExact
  BY AdmissionIsExact, CallsAreKept, AccountsAreKept, PTL
<1>2. Spec => []TablesBounded
  BY TablesAreBounded, CallsAreKept, AccountsAreKept, PTL
<1>3. NoStrandedCall /\ InFlightExact /\ AdmissionExact /\ TablesAgree /\ TablesBounded
        /\ NoIdleSlot => TablesExact
  BY DEF TablesExact
<1> QED BY <1>1, <1>2, <1>3, NoCallIsStranded, ThrottleIsExact, TablesNameTheSameCalls,
           SlotsAreUsed, PTL

-----------------------------------------------------------------------------
(* The session: kernel and daemon                                          *)

\* The theorems of DedupLedger, of the daemon this kernel talks to.
Ledger == INSTANCE DedupLedgerProofs WITH
    Keys <- Calls, Bodies <- {"operation"}, Malformed <- {}, Uploads <- {},
    MaxIncarnations <- Cardinality(Incarnations)

-----------------------------------------------------------------------------
(* The inductive invariant                                                 *)

\* Connections are numbered from one; a frame bears the number of its own.
Numbered ==
    /\ generation \in 0..MaxGeneration
    /\ state = "Ready" => generation # 0
    /\ \A f \in wire : f.generation \in 1..MaxGeneration

\* What the daemon works on is a frame that was sent to this very process.
RequestsSent ==
    \A r \in Requests : request[r].stage # "new" =>
      \E f \in wire : /\ RequestOf(f) = r
                      /\ f.incarnation = request[r].incarnation
                      /\ request[r].key = IF f.keyed THEN f.call ELSE NoKey

\* A request authors once, and an inline one is answered ok only if it did.
InlineOnce ==
    /\ \A e, f \in effects : e.owner = f.owner => e = f
    /\ \A r \in Requests :
         request[r].stage = "answered" /\ request[r].reply = "ok" /\ request[r].key = NoKey
           => \E e \in effects : e.owner = r

\* What a caller was given as a reply, the daemon answered to one of its frames.
RepliesGiven ==
    \A c \in Calls : outcome[c] = "reply" =>
      \E f \in wire : f.call = c /\ request[RequestOf(f)].stage = "answered"

SessionInv ==
    CallInv /\ Ledger!LedgerInv /\ Numbered /\ RequestsSent /\ InlineOnce /\ RepliesGiven

-----------------------------------------------------------------------------
(* The daemon is an instance of DedupLedger                                *)

LEMMA LedgerAssumptions ==
    /\ Ledger!KeysAssumption /\ Ledger!BodiesAssumption /\ Ledger!IncarnationsAssumption
    /\ 1..Cardinality(Incarnations) = Incarnations
<1>1. NoKey \notin Calls
  BY SessionAssumption
<1>2. PICK n \in Nat \ {0} : Incarnations = 1..n
  BY SessionAssumption
<1>3. Cardinality(1..n) = n
  <2>1. 1 \in Int /\ n \in Int
    OBVIOUS
  <2>2. Cardinality(1..n) = IF 1 > n THEN 0 ELSE n - 1 + 1
    BY <2>1, FS_Interval
  <2> QED BY <2>2
<1> QED BY <1>1, <1>2, <1>3
        DEF Ledger!KeysAssumption, Ledger!BodiesAssumption, Ledger!IncarnationsAssumption

\* Session's daemon and the one the theorems speak of take the same steps.
LEMMA SameDaemon ==
    /\ \A r : Daemon!DaemonStep(r) <=> Ledger!DaemonStep(r)
    /\ Daemon!Restart <=> Ledger!Restart
    /\ \A r, k, b : Daemon!Receive(r, k, b) <=> Ledger!Receive(r, k, b)
    /\ Daemon!Init <=> Ledger!Init
    /\ Daemon!EnsureSubject <=> Ledger!EnsureSubject
<1>1. \A r : Daemon!Refuse(r) <=> Ledger!Refuse(r)
  BY DEF Daemon!Refuse, Ledger!Refuse, Daemon!Keyed, Ledger!Keyed, Daemon!Streamed, Ledger!Streamed, Daemon!Valid, Ledger!Valid, Daemon!Answered, Ledger!Answered, Daemon!ledgerVars, Ledger!ledgerVars
<1>2. \A r : Daemon!Validate(r) <=> Ledger!Validate(r)
  BY DEF Daemon!Validate, Ledger!Validate, Daemon!Keyed, Ledger!Keyed, Daemon!Valid, Ledger!Valid, Daemon!ledgerVars, Ledger!ledgerVars
<1>3. \A r : Daemon!GateOwner(r) <=> Ledger!GateOwner(r)
  BY DEF Daemon!GateOwner, Ledger!GateOwner, Daemon!Recorded, Ledger!Recorded, Daemon!Insert, Ledger!Insert, Daemon!AddOwner, Ledger!AddOwner, Daemon!NewOwner, Ledger!NewOwner, Daemon!FirstStage, Ledger!FirstStage, Daemon!Streamed, Ledger!Streamed
<1>4. \A r : Daemon!GateReplay(r) <=> Ledger!GateReplay(r)
  BY DEF Daemon!GateReplay, Ledger!GateReplay, Daemon!Recorded, Ledger!Recorded, Daemon!Answered, Ledger!Answered, Daemon!ledgerVars, Ledger!ledgerVars
<1>5. \A r : Daemon!GateConflict(r) <=> Ledger!GateConflict(r)
  BY DEF Daemon!GateConflict, Ledger!GateConflict, Daemon!Recorded, Ledger!Recorded, Daemon!Answered, Ledger!Answered, Daemon!ledgerVars, Ledger!ledgerVars
<1>6. \A r : Daemon!RunInline(r) <=> Ledger!RunInline(r)
  BY DEF Daemon!RunInline, Ledger!RunInline, Daemon!Keyed, Ledger!Keyed, Daemon!AddOwner, Ledger!AddOwner, Daemon!NewOwner, Ledger!NewOwner
<1>7. \A r : Daemon!Announce(r) <=> Ledger!Announce(r)
  BY DEF Daemon!Announce, Ledger!Announce, Daemon!DropOwner, Ledger!DropOwner
<1>8. \A r : Daemon!Wake(r) <=> Ledger!Wake(r)
  BY DEF Daemon!Wake, Ledger!Wake, Daemon!Answered, Ledger!Answered, Daemon!ledgerVars, Ledger!ledgerVars
<1>9. \A r : Daemon!Author(r) <=> Ledger!Author(r)
  BY DEF Daemon!Author, Ledger!Author, Daemon!Running, Ledger!Running, Daemon!ledgerVars, Ledger!ledgerVars
<1>10. \A r : Daemon!SelectCancelled(r) <=> Ledger!SelectCancelled(r)
  BY DEF Daemon!SelectCancelled, Ledger!SelectCancelled, Daemon!Uploading, Ledger!Uploading
<1>11. \A r : Daemon!Finalize(r) <=> Ledger!Finalize(r)
  BY DEF Daemon!Finalize, Ledger!Finalize, Daemon!Uploading, Ledger!Uploading
<1>12. \A r : Daemon!UploadEnds(r) <=> Ledger!UploadEnds(r)
  BY DEF Daemon!UploadEnds, Ledger!UploadEnds, Daemon!Uploading, Ledger!Uploading, Daemon!Unaccepted, Ledger!Unaccepted, Daemon!Publish, Ledger!Publish, Daemon!Terminal, Ledger!Terminal, Daemon!Insert, Ledger!Insert
<1>13. \A r : Daemon!ConnectionLost(r) <=> Ledger!ConnectionLost(r)
  BY DEF Daemon!ConnectionLost, Ledger!ConnectionLost, Daemon!Streamed, Ledger!Streamed, Daemon!Keyed, Ledger!Keyed, Daemon!DropOwner, Ledger!DropOwner
<1>14. \A r, v : Daemon!Finish(r, v) <=> Ledger!Finish(r, v)
  BY DEF Daemon!Finish, Ledger!Finish, Daemon!Running, Ledger!Running, Daemon!Dropped, Ledger!Dropped, Daemon!Streamed, Ledger!Streamed, Daemon!Keyed, Ledger!Keyed, Daemon!Publish, Ledger!Publish, Daemon!Terminal, Ledger!Terminal, Daemon!Insert, Ledger!Insert, Daemon!DropOwner, Ledger!DropOwner, Daemon!Answered, Ledger!Answered
<1>15. Daemon!Restart <=> Ledger!Restart
  BY DEF Daemon!Restart, Ledger!Restart, Daemon!Nothing, Ledger!Nothing
<1>16. \A r, k, b : Daemon!Receive(r, k, b) <=> Ledger!Receive(r, k, b)
  BY DEF Daemon!Receive, Ledger!Receive, Daemon!ledgerVars, Ledger!ledgerVars
<1>17. Daemon!Init <=> Ledger!Init
  BY DEF Daemon!Init, Ledger!Init, Daemon!Nothing, Ledger!Nothing
<1>18. \A r : Daemon!Handle(r) <=> Ledger!Handle(r)
  BY <1>1, <1>2, <1>3, <1>4, <1>5, <1>6, <1>7, <1>8 DEF Daemon!Handle, Ledger!Handle
<1>19. \A r : Daemon!Effectful(r) <=> Ledger!Effectful(r)
  BY <1>9, <1>14 DEF Daemon!Effectful, Ledger!Effectful, Daemon!Recordable, Ledger!Recordable
<1>20. \A r : Daemon!Upload(r) <=> Ledger!Upload(r)
  BY <1>10, <1>11, <1>12 DEF Daemon!Upload, Ledger!Upload
<1>21. \A r : Daemon!DaemonStep(r) <=> Ledger!DaemonStep(r)
  BY <1>13, <1>18, <1>19, <1>20 DEF Daemon!DaemonStep, Ledger!DaemonStep
<1>22. Daemon!EnsureSubject <=> Ledger!EnsureSubject
  BY DEF Daemon!EnsureSubject, Ledger!EnsureSubject, Daemon!ledgerVars, Ledger!ledgerVars
<1> QED BY <1>15, <1>16, <1>17, <1>21, <1>22

-----------------------------------------------------------------------------
(* What a step of the kernel does to callers and wire                      *)

\* Callers are told at most once, and a reply only to those of R.
Told(out, next, R) ==
    \A c \in Calls :
      \/ next[c] = out[c]
      \/ next[c] = "twice"
      \/ out[c] = "none" /\ (next[c] = "reply" => c \in R)

\* A flush adds frames of the present connection only.
WireGrows ==
    /\ wire \subseteq wire'
    /\ \A f \in wire' \ wire : f.generation = generation' /\ state' = "Ready"

LEMMA FlushReadyGrows ==
    ASSUME NEW L, NEW idx, NEW q, NEW n, NEW count, NEW bytes, NEW out, NEW id,
           DOMAIN out = Calls, state' = "Ready", FlushReady(L, idx, q, n, count, bytes, out, id)
    PROVE  /\ WireGrows
           /\ Told(out, outcome', {}) /\ \A c \in Calls : out[c] = "twice" => outcome'[c] = "twice"
<1> DEFINE taken(k) == {q[i] : i \in 1..k}
           lapsed(k) == taken(k) \cap Expired(L)
           sent(k) == taken(k) \ lapsed(k)
           rank(k, i) == Cardinality({j \in 1..(i - 1) : q[j] \notin lapsed(k)})
           ids(k) == [c \in sent(k) |-> id + rank(k, CHOOSE i \in 1..k : q[i] = c)]
           charged(k) == Charged(L, taken(k))
<1>0. PICK k \in 0..Len(q) :
        /\ FlushPops(L, q, n, k)
        /\ queue' = SubSeq(q, k + 1, Len(q))
        /\ ledger' = [c \in DOMAIN L \ lapsed(k) |->
                        IF c \in sent(k) THEN SentEntry(L[c], ids(k)[c]) ELSE L[c]]
        /\ wire_index' =
             [w \in DOMAIN idx \cup {ids(k)[c] : c \in sent(k)} |->
                IF w \in {ids(k)[c] : c \in sent(k)}
                THEN CHOOSE c \in sent(k) : ids(k)[c] = w ELSE idx[w]]
        /\ in_flight_count' = n + Cardinality(sent(k))
        /\ queued_count' = SatSub(count, Cardinality(charged(k)))
        /\ outcome' = Settle(out, lapsed(k), LAMBDA c : "timeout")
        /\ next_wire_id' = id + Cardinality(sent(k))
        /\ wire' = wire \cup
             {[call |-> c, wire_id |-> ids(k)[c], generation |-> generation',
               incarnation |-> last_incarnation', keyed |-> L[c].keyed] : c \in sent(k)}
        /\ replay_hold' = <<>>
  BY DEF FlushReady
<1>1. outcome' = Settle(out, lapsed(k), LAMBDA c : "timeout")
  BY <1>0
<1> HIDE DEF lapsed, sent, ids
<1>2. /\ wire \subseteq wire'
      /\ \A f \in wire' \ wire : f.generation = generation'
  <2>1. wire' = wire \cup
          {[call |-> c, wire_id |-> ids(k)[c], generation |-> generation',
            incarnation |-> last_incarnation', keyed |-> L[c].keyed] : c \in sent(k)}
    BY <1>0
  <2> QED BY <2>1
<1>3. \A c \in Calls : outcome'[c] = IF c \in lapsed(k)
                                     THEN IF out[c] = "none" THEN "timeout" ELSE "twice"
                                     ELSE out[c]
  BY <1>1 DEF Settle
<1> QED BY <1>2, <1>3 DEF WireGrows, Told

LEMMA FlushGrows ==
    ASSUME NEW L, NEW idx, NEW q, NEW hold, NEW n, NEW count, NEW bytes, NEW out,
           DOMAIN out = Calls, Flush(L, idx, q, hold, n, count, bytes, out)
    PROVE  /\ WireGrows
           /\ Told(out, outcome', {}) /\ \A c \in Calls : out[c] = "twice" => outcome'[c] = "twice"
<1>1. CASE state' = "Ready"
  BY <1>1, FlushReadyGrows DEF Flush
<1>2. CASE state' # "Ready"
  <2>1. wire' = wire /\ outcome' = out
    BY <1>2 DEF Flush, NoFlush
  <2> QED BY <2>1 DEF WireGrows, Told
<1> QED BY <1>1, <1>2

\* A flush tells nobody but those whose deadline lapsed, and nobody of a reply.
LEMMA ToldThenFlush ==
    ASSUME NEW L, NEW idx, NEW q, NEW hold, NEW n, NEW count, NEW bytes, NEW out, NEW R,
           DOMAIN out = Calls, Flush(L, idx, q, hold, n, count, bytes, out),
           Told(outcome, out, R)
    PROVE  WireGrows /\ Told(outcome, outcome', R)
<1>1. /\ WireGrows /\ Told(out, outcome', {})
      /\ \A c \in Calls : out[c] = "twice" => outcome'[c] = "twice"
  BY FlushGrows
<1> QED BY <1>1 DEF Told

LEMMA StillTells ==
    ASSUME UNCHANGED <<wire, outcome>>, NEW R
    PROVE  WireGrows /\ Told(outcome, outcome', R)
BY DEF WireGrows, Told

LEMMA DrainTells ==
    ASSUME NEW L, NEW out, NEW maybe, NEW never, maybe # "reply", never # "reply",
           DOMAIN out = Calls, DrainAll(L, out, maybe, never), Told(outcome, out, {})
    PROVE  WireGrows /\ Told(outcome, outcome', {})
<1>1. wire' = wire /\ outcome' = Settle(out, Live(L), LAMBDA c : Drained(L, c, maybe, never))
  BY DEF DrainAll
<1>2. \A c \in Calls : outcome'[c] = IF c \in Live(L)
                                     THEN IF out[c] = "none" THEN Drained(L, c, maybe, never)
                                          ELSE "twice"
                                     ELSE out[c]
  BY <1>1 DEF Settle
<1>3. \A c : Drained(L, c, maybe, never) # "reply"
  BY DEF Drained
<1> QED BY <1>1, <1>2, <1>3 DEF WireGrows, Told

LEMMA FailTells ==
    ASSUME NEW L, NEW out, DOMAIN out = Calls, FailAll(L, out), Told(outcome, out, {})
    PROVE  WireGrows /\ Told(outcome, outcome', {})
BY DrainTells DEF FailAll

LEMMA DropTells ==
    ASSUME NEW c, DOMAIN outcome = Calls
    PROVE  DOMAIN DropSender(outcome, c) = Calls /\ Told(outcome, DropSender(outcome, c), {})
BY DEF DropSender, Told

LEMMA SelfTold == \A R : Told(outcome, outcome, R)
BY DEF Told

LEMMA ConnectedTells ==
    ASSUME DOMAIN outcome = Calls, NEW token, NEW i, Connected(token, i)
    PROVE  WireGrows /\ Told(outcome, outcome', {})
<1> DEFINE held == IF Restarted(i) THEN Elements(replay_hold) ELSE {}
           out == Settle(outcome, held, LAMBDA c : "disconnected_unknown")
<1>1. DOMAIN out = Calls /\ Told(outcome, out, {})
  BY DEF Settle, Told
<1>2. \E L, idx, q, n, count, bytes : FlushReady(L, idx, q, n, count, bytes, out, 0)
  BY DEF Connected
<1>3. state' = "Ready"
  BY DEF Connected
<1> HIDE DEF out
<1>4. /\ WireGrows /\ Told(out, outcome', {})
      /\ \A c \in Calls : out[c] = "twice" => outcome'[c] = "twice"
  BY <1>1, <1>2, <1>3, FlushReadyGrows
<1> QED BY <1>1, <1>4 DEF Told

LEMMA InterruptedTells ==
    ASSUME DOMAIN outcome = Calls, NEW gen, Interrupted(gen)
    PROVE  WireGrows /\ Told(outcome, outcome', {})
<1> DEFINE sent == Sent(ledger)
           forgotten == {c \in sent : ledger[c].cancelled}
           expired == (sent \ forgotten) \cap Expired(ledger)
           hold == {c \in sent \ (forgotten \cup expired) : ledger[c].replayable}
           lost == sent \ (forgotten \cup expired \cup hold)
           out == Settle(outcome, expired \cup lost, LAMBDA c :
                    IF c \in expired THEN "timeout" ELSE "disconnected_unknown")
<1>1. DOMAIN out = Calls /\ Told(outcome, out, {})
  <2> HIDE DEF expired, lost
  <2> QED BY DEF Settle, Told
<1>2. \/ \E L : FailAll(L, out)
      \/ \E L, idx, q, h, n, count, bytes : NoFlush(L, idx, q, h, n, count, bytes, out)
  BY DEF Interrupted
<1> HIDE DEF out
<1>3. CASE \E L : FailAll(L, out)
  BY <1>1, <1>3, FailTells
<1>4. CASE \E L, idx, q, h, n, count, bytes : NoFlush(L, idx, q, h, n, count, bytes, out)
  <2>1. wire' = wire /\ outcome' = out
    BY <1>4 DEF NoFlush
  <2> QED BY <1>1, <2>1 DEF WireGrows
<1> QED BY <1>2, <1>3, <1>4

LEMMA DispatchTells ==
    ASSUME DOMAIN outcome = Calls, Dispatch
    PROVE  WireGrows /\ Told(outcome, outcome', {})
<1>1. ASSUME NEW v, v # "reply", wire' = wire,
             \A c \in Calls : outcome'[c] = IF c \in {next_call_id}
                                            THEN IF outcome[c] = "none" THEN v ELSE "twice"
                                            ELSE outcome[c]
      PROVE  WireGrows /\ Told(outcome, outcome', {})
  BY <1>1 DEF WireGrows, Told
<1>2. CASE DispatchRefused
  <2>1. outcome' = Settle(outcome, {next_call_id}, LAMBDA c : "cancelled_not")
    BY <1>2 DEF DispatchRefused
  <2>2. \A c \in Calls : outcome'[c] = IF c \in {next_call_id}
                           THEN IF outcome[c] = "none" THEN "cancelled_not" ELSE "twice"
                           ELSE outcome[c]
    BY <2>1 DEF Settle
  <2>3. wire' = wire
    BY <1>2 DEF DispatchRefused
  <2> QED BY <1>1, <2>2, <2>3
<1>3. ASSUME NEW shape \in CallShapes, DispatchQueueFull(shape)
      PROVE  WireGrows /\ Told(outcome, outcome', {})
  <2>1. outcome' = Settle(outcome, {next_call_id}, LAMBDA c : "queue_full")
    BY <1>3 DEF DispatchQueueFull
  <2>2. \A c \in Calls : outcome'[c] = IF c \in {next_call_id}
                           THEN IF outcome[c] = "none" THEN "queue_full" ELSE "twice"
                           ELSE outcome[c]
    BY <2>1 DEF Settle
  <2>3. wire' = wire
    BY <1>3 DEF DispatchQueueFull
  <2> QED BY <1>1, <2>2, <2>3
<1>4. ASSUME NEW shape \in CallShapes, DispatchAdmitted(shape)
      PROVE  WireGrows /\ Told(outcome, outcome', {})
  <2>1. \E L, idx, q, hold, n, count, bytes : Flush(L, idx, q, hold, n, count, bytes, outcome)
    BY <1>4 DEF DispatchAdmitted
  <2> QED BY <2>1, SelfTold, ToldThenFlush
<1> QED BY <1>2, <1>3, <1>4 DEF Dispatch

LEMMA CancelTells ==
    ASSUME DOMAIN outcome = Calls, Cancel
    PROVE  WireGrows /\ Told(outcome, outcome', {})
<1>1. ASSUME NEW c \in Calls, CancelQueued(c)
      PROVE  WireGrows /\ Told(outcome, outcome', {})
  <2>1. wire' = wire /\ outcome' = DropSender(outcome, c)
    BY <1>1 DEF CancelQueued, NoFlush
  <2> QED BY <2>1, DropTells DEF WireGrows
<1>2. ASSUME NEW c \in Calls, CancelSent(c)
      PROVE  WireGrows /\ Told(outcome, outcome', {})
  <2>1. \E L, idx, q, hold, n, count, bytes :
          Flush(L, idx, q, hold, n, count, bytes, DropSender(outcome, c))
    BY <1>2 DEF CancelSent, Bury
  <2> QED BY <2>1, DropTells, ToldThenFlush
<1> QED BY <1>1, <1>2 DEF Cancel

LEMMA TimerTells ==
    ASSUME DOMAIN outcome = Calls, NEW c \in Calls, DeadlinePasses(c) \/ TimerFires(c)
    PROVE  WireGrows /\ Told(outcome, outcome', {})
<1> DEFINE out == Settle(outcome, {c}, LAMBDA d : "timeout")
<1>1. DOMAIN out = Calls /\ Told(outcome, out, {})
  BY DEF Settle, Told
<1>2. CASE DeadlinePasses(c)
  BY <1>2, StillTells DEF DeadlinePasses
<1>3. CASE TombstoneReclaimed(c)
  BY <1>3, StillTells DEF TombstoneReclaimed, NoFlush
<1>4. CASE SentTimesOut(c)
  <2>1. \E L, idx, q, hold, n, count, bytes : Flush(L, idx, q, hold, n, count, bytes, out)
    BY <1>4 DEF SentTimesOut, Bury
  <2> HIDE DEF out
  <2> QED BY <1>1, <2>1, ToldThenFlush
<1>5. CASE QueuedTimesOut(c)
  <2>1. wire' = wire /\ outcome' = out
    BY <1>5 DEF QueuedTimesOut, NoFlush
  <2> HIDE DEF out
  <2> QED BY <1>1, <2>1 DEF WireGrows
<1> QED BY <1>2, <1>3, <1>4, <1>5 DEF TimerFires

\* Only the call of the answered frame can be given a reply: another call that
\* bears the frame's wire id would get "misrouted".
LEMMA ReplyTells ==
    ASSUME DOMAIN outcome = Calls, NEW f, Reply(f)
    PROVE  WireGrows /\ Told(outcome, outcome', {f.call})
<1>1. PICK c \in Resolve(f.wire_id, f.generation) :
        LET verdict == IF ledger[c].expired THEN "timeout"
                       ELSE IF f.call = c THEN "reply" ELSE "misrouted"
        IN  \E L, idx, q, hold, n, count, bytes :
              Flush(L, idx, q, hold, n, count, bytes,
                    IF ~ledger[c].cancelled THEN Settle(outcome, {c}, LAMBDA d : verdict)
                    ELSE outcome)
  BY DEF Reply
<1> DEFINE verdict == IF ledger[c].expired THEN "timeout"
                      ELSE IF f.call = c THEN "reply" ELSE "misrouted"
           out == IF ~ledger[c].cancelled THEN Settle(outcome, {c}, LAMBDA d : verdict)
                  ELSE outcome
<1>2. DOMAIN out = Calls /\ Told(outcome, out, {f.call})
  <2>1. verdict = "reply" => c = f.call
    OBVIOUS
  <2> HIDE DEF verdict
  <2> QED BY <2>1 DEF Settle, Told
<1>3. \E L, idx, q, hold, n, count, bytes : Flush(L, idx, q, hold, n, count, bytes, out)
  BY <1>1
<1> HIDE DEF out
<1> QED BY <1>2, <1>3, ToldThenFlush

\* Every other step of the client gives nobody a reply.
LEMMA ClientTells ==
    ASSUME DOMAIN outcome = Calls,
           \/ Start \/ Stop \/ BackoffFires \/ Dispatch \/ Cancel
           \/ \E token \in Tokens : DialFailed(token) \/ GateRefused(token)
           \/ \E g \in 0..generation : Interrupted(g)
           \/ \E c \in Calls : DeadlinePasses(c) \/ TimerFires(c)
    PROVE  WireGrows /\ Told(outcome, outcome', {})
<1>1. CASE Start \/ BackoffFires
  BY <1>1, StillTells DEF Start, BackoffFires, work
<1>2. CASE Stop
  <2>1. DrainAll(ledger, outcome, "cancelled_unknown", "cancelled_not")
    BY <1>2 DEF Stop
  <2> QED BY <2>1, SelfTold, DrainTells
<1>3. ASSUME NEW token \in Tokens, DialFailed(token) \/ GateRefused(token)
      PROVE  WireGrows /\ Told(outcome, outcome', {})
  <2>1. FailAll(ledger, outcome) \/ UNCHANGED work
    BY <1>3 DEF DialFailed, GateRefused
  <2>2. CASE UNCHANGED work
    BY <2>2, StillTells DEF work
  <2> QED BY <2>1, <2>2, SelfTold, FailTells
<1> QED BY <1>1, <1>2, <1>3, DispatchTells, CancelTells, InterruptedTells, TimerTells

\* Connections are counted, and a client is Ready only on one.
LEMMA GenerationMoves ==
    ASSUME [Next]_vars
    PROVE  \/ generation' = generation /\ (state' = "Ready" => state = "Ready")
           \/ generation < MaxGeneration /\ generation' = generation + 1
<1>1. CASE UNCHANGED lifecycle
  BY <1>1 DEF lifecycle
<1>2. CASE Start \/ Stop \/ BackoffFires
  BY <1>2 DEF Start, Stop, BackoffFires
<1>3. CASE DialOutcome
  BY <1>3 DEF DialOutcome, Connected, DialFailed, GateRefused, FailAll, ScheduleReconnect
<1>4. CASE \E g \in 0..generation : Interrupted(g)
  BY <1>4 DEF Interrupted, FailAll, ScheduleReconnect
<1>5. CASE Dispatch \/ Cancel \/ (\E f \in wire : Reply(f))
           \/ \E c \in Calls : DeadlinePasses(c) \/ TimerFires(c)
  <2>1. UNCHANGED lifecycle
    BY <1>5 DEF Dispatch, DispatchRefused, DispatchQueueFull, DispatchAdmitted, Cancel,
                CancelQueued, CancelSent, Reply, DeadlinePasses, TimerFires, SentTimesOut,
                TombstoneReclaimed, QueuedTimesOut
  <2> QED BY <1>1, <2>1
<1> QED BY <1>1, <1>2, <1>3, <1>4, <1>5 DEF Next, vars

LEMMA NumbersKept ==
    ASSUME Numbered, [Next]_vars, WireGrows
    PROVE  Numbered'
<1>1. MaxGeneration \in Nat
  BY BoundsAssumption
<1>2. generation' \in 0..MaxGeneration /\ (state' = "Ready" => generation' # 0)
  BY <1>1, GenerationMoves DEF Numbered
<1> QED BY <1>1, <1>2 DEF Numbered, WireGrows

-----------------------------------------------------------------------------
(* What a step of the daemon does to requests and effects                  *)

\* Requests keep their identity and move on; an answer is final, and an inline
\* one is ok only with its effect.
RequestsMove ==
    \A q \in Requests :
      /\ request'[q].key = request[q].key
      /\ request'[q].incarnation = request[q].incarnation
      /\ request'[q].stage # "new" => request[q].stage # "new"
      /\ request[q].stage = "answered" => request'[q] = request[q]
      /\ request'[q].stage = "answered" /\ request[q].stage # "answered"
         /\ request[q].key = NoKey /\ request'[q].reply = "ok"
           => \E e \in effects : e.owner = q

LEMMA StayMoves == UNCHANGED request => RequestsMove
BY DEF RequestsMove

LEMMA OneMoves ==
    ASSUME NEW r \in Requests, NEW q, DOMAIN request = Requests,
           request' = [request EXCEPT ![r] = q],
           q.key = request[r].key, q.incarnation = request[r].incarnation,
           request[r].stage \notin {"new", "answered"},
           q.stage = "answered" /\ q.key = NoKey /\ q.reply = "ok"
             => \E e \in effects : e.owner = r
    PROVE  RequestsMove
<1>1. \A p \in Requests : request'[p] = IF p = r THEN q ELSE request[p]
  OBVIOUS
<1> QED BY <1>1 DEF RequestsMove

LEMMA AnswerMoves ==
    ASSUME NEW r \in Requests, NEW v, Ledger!TypeOK, request' = Ledger!Answered(r, v),
           request[r].stage \notin {"new", "answered"},
           v = "ok" /\ request[r].key = NoKey => \E e \in effects : e.owner = r
    PROVE  RequestsMove
<1> DEFINE q == [request[r] EXCEPT !.reply = v,
                   !.stage = IF request[r].connected THEN "answered" ELSE "gone"]
<1>1. request \in [Requests -> Ledger!Request]
  BY DEF Ledger!TypeOK
<1>2. request' = [request EXCEPT ![r] = q]
  BY DEF Ledger!Answered
<1>3. q.key = request[r].key /\ q.incarnation = request[r].incarnation /\ q.reply = v
  BY <1>1 DEF Ledger!Request
<1> HIDE DEF q
<1> QED BY <1>1, <1>2, <1>3, OneMoves

LEMMA DaemonMoves ==
    ASSUME Ledger!LedgerInv, NEW r \in Requests, Ledger!DaemonStep(r)
    PROVE  RequestsMove
<1> USE DEF Ledger!LedgerInv
<1>t. /\ request \in [Requests -> Ledger!Request] /\ DOMAIN owners \subseteq Requests
      /\ Ledger!TypeOK /\ DOMAIN entries \subseteq Calls /\ NoKey \notin Calls
  BY SessionAssumption DEF Ledger!TypeOK
<1>n. /\ request[r].stage = "new" => request[r].key = NoKey
      /\ request[r].stage = "validated" => request[r].key # NoKey
  BY DEF Ledger!RequestsInOrder, Ledger!Keyed
<1>w. ASSUME NEW o, request[r].stage = "validated",
             request' = [request EXCEPT ![r] = [request[r] EXCEPT !.stage = "waiting", !.on = o]]
      PROVE  RequestsMove
  <2> DEFINE q == [request[r] EXCEPT !.stage = "waiting", !.on = o]
  <2>1. q.key = request[r].key /\ q.incarnation = request[r].incarnation /\ q.stage = "waiting"
    BY <1>t DEF Ledger!Request
  <2>2. request' = [request EXCEPT ![r] = q]
    BY <1>w
  <2> HIDE DEF q
  <2> QED BY <1>t, <1>w, <2>1, <2>2, OneMoves
<1>v. ASSUME NEW s \in {"validated", "waiting"}, request[r].stage = "received",
             request' = [request EXCEPT ![r] = [request[r] EXCEPT !.stage = s]]
      PROVE  RequestsMove
  <2> DEFINE q == [request[r] EXCEPT !.stage = s]
  <2>1. q.key = request[r].key /\ q.incarnation = request[r].incarnation /\ q.stage = s
    BY <1>t DEF Ledger!Request
  <2>2. request' = [request EXCEPT ![r] = q]
    BY <1>v
  <2> HIDE DEF q
  <2> QED BY <1>t, <1>v, <2>1, <2>2, OneMoves
<1>1. CASE Ledger!Refuse(r)
  <2>1. request' = Ledger!Answered(r, "invalid") /\ request[r].stage = "received"
    BY <1>1 DEF Ledger!Refuse
  <2> QED BY <1>t, <2>1, AnswerMoves
<1>2. CASE Ledger!Validate(r)
  <2>1. request' = [request EXCEPT ![r].stage = "validated"] /\ request[r].stage = "received"
    BY <1>2 DEF Ledger!Validate
  <2>2. request' = [request EXCEPT ![r] = [request[r] EXCEPT !.stage = "validated"]]
    BY <1>t, <2>1
  <2> QED BY <2>1, <2>2, <1>v
<1>3. CASE Ledger!GateOwner(r)
  <2>1. request' = [request EXCEPT ![r] = [request[r] EXCEPT !.stage = "waiting", !.on = r]]
        /\ request[r].stage = "validated"
    BY <1>3 DEF Ledger!GateOwner
  <2> QED BY <1>t, <2>1, <1>w
<1>4. CASE Ledger!GateReplay(r)
  <2>1. request[r].stage = "validated" /\ request[r].key # NoKey
    BY <1>4, <1>n DEF Ledger!GateReplay
  <2>2. CASE \E o \in DOMAIN owners : request' = [request EXCEPT ![r] =
               [request[r] EXCEPT !.stage = "waiting", !.on = o]]
    BY <1>t, <2>1, <2>2, <1>w
  <2>3. CASE request' = Ledger!Answered(r, entries[request[r].key].reply)
    BY <1>t, <2>1, <2>3, AnswerMoves
  <2> QED BY <1>4, <2>2, <2>3 DEF Ledger!GateReplay
<1>5. CASE Ledger!GateConflict(r)
  <2>1. request' = Ledger!Answered(r, "conflict") /\ request[r].stage = "validated"
    BY <1>5 DEF Ledger!GateConflict
  <2> QED BY <1>t, <2>1, AnswerMoves
<1>6. CASE Ledger!RunInline(r)
  <2>1. request' = [request EXCEPT ![r].stage = "waiting"] /\ request[r].stage = "received"
    BY <1>6 DEF Ledger!RunInline
  <2>2. request' = [request EXCEPT ![r] = [request[r] EXCEPT !.stage = "waiting"]]
    BY <1>t, <2>1
  <2> QED BY <2>1, <2>2, <1>v
<1>7. CASE Ledger!Announce(r) \/ Ledger!Author(r) \/ Ledger!Upload(r)
  <2>1. UNCHANGED request
    BY <1>7 DEF Ledger!Announce, Ledger!Author, Ledger!Upload, Ledger!SelectCancelled,
                Ledger!Finalize, Ledger!UploadEnds
  <2> QED BY <2>1, StayMoves
<1>8. CASE Ledger!Wake(r)
  <2>1. /\ request' = Ledger!Answered(r, watch[request[r].on])
        /\ request[r].stage = "waiting" /\ watch[request[r].on] # "none"
    BY <1>8 DEF Ledger!Wake
  <2>2. request[r].key # NoKey
    <3>1. SUFFICES ASSUME request[r].key = NoKey PROVE FALSE
      OBVIOUS
    <3>2. request[r].on = r
      BY <2>1, <3>1 DEF Ledger!WaitersServed, Ledger!Keyed
    <3>3. request[r].key \in DOMAIN entries
      BY <2>1, <3>2 DEF Ledger!WatchRecorded
    <3> QED BY <1>t, <3>1, <3>3
  <2> QED BY <1>t, <2>1, <2>2, AnswerMoves
<1>9. ASSUME NEW v \in Ledger!Recordable, Ledger!Finish(r, v)
      PROVE  RequestsMove
  <2>1. CASE UNCHANGED request
    BY <2>1, StayMoves
  <2>2. CASE request' = Ledger!Answered(r, v)
    <3>1. request[r].stage \in {"gone", "waiting"}
      BY <1>9 DEF Ledger!Finish, Ledger!Running, Ledger!OwnersHold
    <3>2. v = "ok" => \E e \in effects : e.owner = r
      BY <1>9 DEF Ledger!Finish
    <3> QED BY <1>t, <2>2, <3>1, <3>2, AnswerMoves
  <2> QED BY <1>9, <2>1, <2>2 DEF Ledger!Finish
<1>10. CASE Ledger!ConnectionLost(r)
  <2> DEFINE stage == IF Ledger!Streamed(r) THEN request[r].stage ELSE "gone"
  <2>1. /\ request[r].stage \in {"received", "validated", "waiting"}
        /\ request' = [request EXCEPT ![r] = [request[r] EXCEPT !.connected = FALSE,
                                                                !.stage = stage]]
    BY <1>10 DEF Ledger!ConnectionLost
  <2>2. stage # "answered"
    BY <2>1
  <2> HIDE DEF stage
  <2> QED BY <1>t, <2>1, <2>2, OneMoves DEF Ledger!Request
<1> QED BY <1>1, <1>2, <1>3, <1>4, <1>5, <1>6, <1>7, <1>8, <1>9, <1>10
        DEF Ledger!DaemonStep, Ledger!Handle, Ledger!Effectful

LEMMA RestartMoves ==
    ASSUME Ledger!LedgerInv, Ledger!Restart
    PROVE  RequestsMove
<1>1. request \in [Requests -> Ledger!Request]
  BY DEF Ledger!LedgerInv, Ledger!TypeOK
<1>2. request' = [r \in Requests |->
         IF request[r].stage \in {"received", "validated", "waiting"}
         THEN [request[r] EXCEPT !.stage = "gone", !.connected = FALSE]
         ELSE request[r]]
  BY DEF Ledger!Restart
<1>3. ASSUME NEW q \in Requests
      PROVE  \/ request'[q] = request[q]
             \/ /\ request'[q].key = request[q].key
                /\ request'[q].incarnation = request[q].incarnation
                /\ request'[q].stage = "gone"
                /\ request[q].stage \notin {"new", "answered"}
  <2>1. CASE request[q].stage \in {"received", "validated", "waiting"}
    <3>1. request'[q] = [request[q] EXCEPT !.stage = "gone", !.connected = FALSE]
      BY <1>2, <2>1
    <3> QED BY <1>1, <2>1, <3>1 DEF Ledger!Request
  <2>2. CASE request[q].stage \notin {"received", "validated", "waiting"}
    BY <1>2, <2>2
  <2> QED BY <2>1, <2>2
<1> QED BY <1>3 DEF RequestsMove

\* Only Author adds to the effects, one of a request that had none.
LEMMA EffectsMove ==
    ASSUME NEW r \in Requests, Ledger!DaemonStep(r)
    PROVE  \/ UNCHANGED effects
           \/ /\ \A e \in effects : e.owner # r
              /\ \E d : d.owner = r /\ effects' = effects \cup {d}
<1>1. CASE Ledger!Author(r)
  <2> DEFINE d == [owner |-> r, key |-> request[r].key, body |-> request[r].body,
                   incarnation |-> incarnation]
  <2>1. (\A e \in effects : e.owner # r) /\ effects' = effects \cup {d} /\ d.owner = r
    BY <1>1 DEF Ledger!Author
  <2> HIDE DEF d
  <2> QED BY <2>1
<1>2. CASE ~Ledger!Author(r)
  BY <1>2 DEF Ledger!DaemonStep, Ledger!Handle, Ledger!Effectful, Ledger!Upload, Ledger!Refuse,
              Ledger!Validate, Ledger!GateOwner, Ledger!GateReplay, Ledger!GateConflict,
              Ledger!RunInline, Ledger!Announce, Ledger!Wake, Ledger!Finish,
              Ledger!SelectCancelled, Ledger!Finalize, Ledger!UploadEnds,
              Ledger!ConnectionLost
<1> QED BY <1>1, <1>2

-----------------------------------------------------------------------------
(* A request and its frame                                                 *)

\* A frame names its request, and a call's frames are told apart by theirs.
LEMMA FramesNamed ==
    ASSUME CallInv, Numbered
    PROVE  /\ \A f \in wire : /\ RequestOf(f) \in Requests /\ f.call \in Calls
                              /\ f.keyed \in BOOLEAN /\ f.incarnation \in Nat
           /\ \A f, g \in wire : RequestOf(f) = RequestOf(g) => f = g
<1>1. /\ wire \subseteq Frame
      /\ \A f, g \in wire : f.call = g.call /\ f # g => f.generation # g.generation
  BY DEF CallInv, TablesNow, Tables, Frames, Deduplicated
<1>2. \A f \in wire : f.call \in Calls /\ f.generation \in 1..MaxGeneration
                      /\ f.keyed \in BOOLEAN /\ f.incarnation \in Nat
  BY <1>1 DEF Frame, Numbered
<1> QED BY <1>1, <1>2 DEF RequestOf, Requests

\* An effect is that of a frame.
LEMMA EffectsSent ==
    ASSUME Ledger!LedgerInv, RequestsSent, NEW e \in effects
    PROVE  \E f \in wire : /\ e.owner = RequestOf(f) /\ e.owner[1] = f.call
                           /\ e.incarnation = f.incarnation
                           /\ e.key = IF f.keyed THEN f.call ELSE NoKey
<1>1. e.owner \in Requests
  BY DEF Ledger!LedgerInv, Ledger!TypeOK, Ledger!Effect
<1>2. /\ e.key = request[e.owner].key /\ e.incarnation = request[e.owner].incarnation
      /\ request[e.owner].stage # "new"
  BY DEF Ledger!LedgerInv, Ledger!EffectsKept
<1>3. PICK f \in wire : /\ RequestOf(f) = e.owner
                        /\ f.incarnation = request[e.owner].incarnation
                        /\ request[e.owner].key = IF f.keyed THEN f.call ELSE NoKey
  BY <1>1, <1>2 DEF RequestsSent
<1> QED BY <1>2, <1>3 DEF RequestOf

\* One call, one effect: a keyed call goes to one process only, whose ledger
\* has one effect of the key, and another is one request.
LEMMA OneExecution ==
    ASSUME CallInv, Ledger!LedgerInv, Numbered, RequestsSent, InlineOnce,
           NEW c \in Calls, NEW d \in Executions(c), NEW e \in Executions(c)
    PROVE  d = e
<1>1. d \in effects /\ d.owner[1] = c /\ e \in effects /\ e.owner[1] = c
  BY DEF Executions
<1>2. PICK f \in wire : /\ d.owner = RequestOf(f) /\ d.owner[1] = f.call
                        /\ d.incarnation = f.incarnation
                        /\ d.key = IF f.keyed THEN f.call ELSE NoKey
  BY <1>1, EffectsSent
<1>3. PICK g \in wire : /\ e.owner = RequestOf(g) /\ e.owner[1] = g.call
                        /\ e.incarnation = g.incarnation
                        /\ e.key = IF g.keyed THEN g.call ELSE NoKey
  BY <1>1, EffectsSent
<1>4. CASE f = g
  BY <1>1, <1>2, <1>3, <1>4 DEF InlineOnce
<1>5. CASE f # g
  <2>1. f.keyed /\ g.keyed /\ f.incarnation = g.incarnation
    BY <1>1, <1>2, <1>3, <1>5 DEF CallInv, TablesNow, Tables, Deduplicated
  <2>2. d.key = c /\ e.key = c /\ d.incarnation = e.incarnation /\ c # NoKey
    BY <1>1, <1>2, <1>3, <2>1, SessionAssumption
  <2> QED BY <1>1, <2>2 DEF Ledger!LedgerInv, Ledger!AtMostOneEffect
<1> QED BY <1>4, <1>5

LEMMA ExecutionCount ==
    ASSUME CallInv, Ledger!LedgerInv, Numbered, RequestsSent, InlineOnce, NEW c \in Calls
    PROVE  Cardinality(Executions(c)) = IF Executions(c) = {} THEN 0 ELSE 1
<1>1. CASE Executions(c) = {}
  BY <1>1, FS_EmptySet
<1>2. CASE Executions(c) # {}
  <2>1. PICK e \in Executions(c) : TRUE
    BY <1>2
  <2>2. Executions(c) = {e}
    BY <2>1, OneExecution
  <2> QED BY <1>2, <2>2, FS_Singleton
<1> QED BY <1>1, <1>2

-----------------------------------------------------------------------------
(* The invariant is inductive                                              *)

LEMMA SessionInitial == SessionInit => SessionInv
<1> SUFFICES ASSUME SessionInit PROVE SessionInv
  OBVIOUS
<1>1. Init /\ Ledger!Init
  BY SameDaemon DEF SessionInit
<1>2. CallInv
  BY <1>1, CallInit
<1>3. Ledger!LedgerInv
  BY <1>1, LedgerAssumptions, Ledger!InitEstablishes
<1>4. /\ generation = 0 /\ state = "Idle" /\ wire = {} /\ \A c \in Calls : outcome[c] = "none"
  BY <1>1 DEF Init
<1>5. effects = {} /\ \A r \in Requests : request[r].stage = "new"
  BY <1>1 DEF Ledger!Init
<1>6. MaxGeneration \in Nat
  BY BoundsAssumption
<1>7. Numbered
  BY <1>4, <1>6 DEF Numbered
<1>8. RequestsSent /\ InlineOnce
  BY <1>5 DEF RequestsSent, InlineOnce
<1>9. RepliesGiven
  BY <1>4 DEF RepliesGiven
<1> QED BY <1>2, <1>3, <1>7, <1>8, <1>9 DEF SessionInv

\* The kernel moves: frames are added, and a reply is given for an answer.
LEMMA KernelMoves ==
    ASSUME SessionInv, [Next]_vars, UNCHANGED daemon, WireGrows,
           NEW R, Told(outcome, outcome', R),
           \A c \in R : \E f \in wire : f.call = c /\ request[RequestOf(f)].stage = "answered"
    PROVE  SessionInv'
<1>1. CallInv'
  BY CallStep DEF SessionInv
<1>2. UNCHANGED <<incarnation, subject, entries, owners, watch, request, effects>>
  BY DEF daemon
<1>3. Ledger!LedgerInv'
  BY <1>2, LedgerAssumptions, Ledger!StepPreserves DEF SessionInv, Ledger!daemonVars
<1>4. Numbered'
  BY NumbersKept DEF SessionInv
<1>5. RequestsSent' /\ InlineOnce'
  BY <1>2 DEF SessionInv, RequestsSent, InlineOnce, WireGrows, RequestOf
<1>6. RepliesGiven'
  <2> SUFFICES ASSUME NEW c \in Calls, outcome'[c] = "reply"
               PROVE  \E f \in wire' : f.call = c /\ request'[RequestOf(f)].stage = "answered"
    BY DEF RepliesGiven, RequestOf
  <2>1. outcome[c] = "reply" \/ c \in R
    BY DEF Told
  <2>2. \E f \in wire : f.call = c /\ request[RequestOf(f)].stage = "answered"
    BY <2>1 DEF SessionInv, RepliesGiven
  <2> QED BY <1>2, <2>2 DEF WireGrows
<1> QED BY <1>1, <1>3, <1>4, <1>5, <1>6 DEF SessionInv

\* The daemon moves: what it works on was sent, what it answered stays.
LEMMA DaemonPartMoves ==
    ASSUME SessionInv, UNCHANGED vars, [Ledger!Next]_daemon,
           InlineOnce', RequestsSent',
           \A q \in Requests : request[q].stage = "answered" => request'[q] = request[q]
    PROVE  SessionInv'
<1>1. /\ UNCHANGED <<wire, generation, state, outcome>>
  BY DEF vars, lifecycle, work
<1>2. CallInv'
  BY CallStep DEF SessionInv
<1>3. Ledger!LedgerInv'
  BY LedgerAssumptions, Ledger!StepPreserves DEF SessionInv, Ledger!daemonVars, daemon
<1>4. Numbered'
  BY <1>1 DEF SessionInv, Numbered
<1>5. RepliesGiven'
  <2>1. \A f \in wire : RequestOf(f) \in Requests
    BY FramesNamed DEF SessionInv
  <2> QED BY <1>1, <2>1 DEF SessionInv, RepliesGiven, RequestOf
<1> QED BY <1>2, <1>3, <1>4, <1>5 DEF SessionInv

\* Every step of the session is a step of the client or one of the daemon.
LEMMA PartsStep ==
    ASSUME SessionInv, [SessionNext]_<<vars, daemon>>
    PROVE  [Next]_vars /\ [Ledger!Next]_daemon
<1>1. CASE Connect
  <2>1. incarnation \in 1..Cardinality(Incarnations)
    BY DEF SessionInv, Ledger!LedgerInv, Ledger!TypeOK
  <2>2. 1..Cardinality(Incarnations) = Incarnations /\ Incarnations \subseteq Nat
    BY LedgerAssumptions, BoundsAssumption
  <2>3. 1..incarnation \subseteq Incarnations
    <3>1. \A i \in 1..incarnation : i \in 1..Cardinality(Incarnations)
      <4>1. PICK n \in Nat \ {0} : Incarnations = 1..n
        BY SessionAssumption
      <4>2. incarnation \in 1..n
        BY <2>1, <2>2, <4>1
      <4>3. \A i \in 1..incarnation : i \in 1..n
        BY <4>2
      <4> QED BY <2>2, <4>1, <4>3
    <3> QED BY <2>2, <3>1
  <2>4. DialOutcome
    BY <1>1, <2>3 DEF Connect, DialOutcome
  <2> QED BY <1>1, <2>4 DEF Connect, Next
<1>2. CASE ClientStep
  BY <1>2 DEF ClientStep, Next, DialOutcome
<1>3. CASE DaemonStep
  BY <1>3, SameDaemon DEF DaemonStep, Ledger!Next
<1>4. ASSUME NEW f \in wire, Deliver(f)
      PROVE  [Next]_vars /\ [Ledger!Next]_daemon
  <2>1. RequestOf(f) \in Requests /\ f.call \in Calls
    BY FramesNamed DEF SessionInv
  <2>2. Ledger!Receive(RequestOf(f), IF f.keyed THEN f.call ELSE NoKey, "operation")
    BY <1>4, SameDaemon DEF Deliver
  <2>3. Ledger!Next
    BY <2>1, <2>2 DEF Ledger!Next
  <2> QED BY <1>4, <2>3 DEF Deliver
<1>5. ASSUME NEW f \in wire, ReplyArrives(f)
      PROVE  [Next]_vars /\ [Ledger!Next]_daemon
  BY <1>5 DEF ReplyArrives, Next
<1>6. CASE UNCHANGED <<vars, daemon>>
  BY <1>6
<1> QED BY <1>1, <1>2, <1>3, <1>4, <1>5, <1>6 DEF SessionNext

LEMMA DeliverStep ==
    ASSUME SessionInv, NEW f \in wire, Deliver(f), [Ledger!Next]_daemon
    PROVE  SessionInv'
<1> DEFINE r == RequestOf(f)
           k == IF f.keyed THEN f.call ELSE NoKey
<1>1. /\ r \in Requests /\ f.incarnation = incarnation /\ UNCHANGED vars
      /\ Ledger!Receive(r, k, "operation")
  BY FramesNamed, SameDaemon DEF SessionInv, Deliver
<1>2. request \in [Requests -> Ledger!Request] /\ effects \subseteq Ledger!Effect
  BY DEF SessionInv, Ledger!LedgerInv, Ledger!TypeOK
<1> HIDE DEF k
<1>3. /\ request[r].stage = "new" /\ effects' = effects
      /\ request' = [request EXCEPT ![r] =
           [request[r] EXCEPT !.stage = "received", !.key = k, !.body = "operation",
                              !.incarnation = incarnation]]
  BY <1>1 DEF Ledger!Receive
<1>4. /\ \A q \in Requests : q # r => request'[q] = request[q]
      /\ request'[r] = [request[r] EXCEPT !.stage = "received", !.key = k, !.body = "operation",
                                          !.incarnation = incarnation]
  BY <1>1, <1>2, <1>3
<1>5. /\ request'[r].stage = "received" /\ request'[r].key = k
      /\ request'[r].incarnation = incarnation
  <2>1. request[r] \in Ledger!Request
    BY <1>1, <1>2
  <2> HIDE DEF r
  <2> QED BY <1>4, <2>1 DEF Ledger!Request
<1>6. UNCHANGED wire
  BY <1>1 DEF vars, work
<1>7. RequestsSent'
  <2> SUFFICES ASSUME NEW q \in Requests, request'[q].stage # "new"
               PROVE  \E g \in wire : /\ RequestOf(g) = q
                                      /\ g.incarnation = request'[q].incarnation
                                      /\ request'[q].key = IF g.keyed THEN g.call ELSE NoKey
    BY <1>6 DEF RequestsSent, RequestOf
  <2>1. CASE q = r
    BY <1>1, <1>5, <2>1 DEF k
  <2>2. CASE q # r
    BY <1>4, <2>2 DEF SessionInv, RequestsSent
  <2> QED BY <2>1, <2>2
<1>8. InlineOnce'
  <2>1. \A q \in Requests : request'[q].stage = "answered" => request'[q] = request[q]
    BY <1>4, <1>5
  <2> QED BY <1>3, <2>1 DEF SessionInv, InlineOnce
<1>9. \A q \in Requests : request[q].stage = "answered" => request'[q] = request[q]
  BY <1>3, <1>4
<1> HIDE DEF r
<1> QED BY <1>1, <1>7, <1>8, <1>9, DaemonPartMoves

LEMMA DaemonWorks ==
    ASSUME SessionInv, UNCHANGED vars, [Ledger!Next]_daemon, RequestsMove,
           \/ UNCHANGED effects
           \/ \E d : (\A e \in effects : e.owner # d.owner) /\ effects' = effects \cup {d}
    PROVE  SessionInv'
<1>1. UNCHANGED wire /\ effects \subseteq effects'
  BY DEF vars, work
<1>2. RequestsSent'
  BY <1>1 DEF SessionInv, RequestsSent, RequestsMove, RequestOf
<1>3. InlineOnce'
  <2>1. \A e, f \in effects' : e.owner = f.owner => e = f
    BY DEF SessionInv, InlineOnce
  <2>2. ASSUME NEW q \in Requests, request'[q].stage = "answered", request'[q].reply = "ok",
               request'[q].key = NoKey
        PROVE  \E e \in effects' : e.owner = q
    <3>1. request[q].key = NoKey
      BY <2>2 DEF RequestsMove
    <3>2. CASE request[q].stage = "answered"
      <4>1. request'[q] = request[q]
        BY <3>2 DEF RequestsMove
      <4> QED BY <1>1, <2>2, <3>2, <4>1 DEF SessionInv, InlineOnce
    <3>3. CASE request[q].stage # "answered"
      BY <1>1, <2>2, <3>1, <3>3 DEF RequestsMove
    <3> QED BY <3>2, <3>3
  <2> QED BY <2>1, <2>2 DEF InlineOnce
<1>4. \A q \in Requests : request[q].stage = "answered" => request'[q] = request[q]
  BY DEF RequestsMove
<1> QED BY <1>2, <1>3, <1>4, DaemonPartMoves

LEMMA SessionStep == SessionInv /\ [SessionNext]_<<vars, daemon>> => SessionInv'
<1> SUFFICES ASSUME SessionInv, [SessionNext]_<<vars, daemon>> PROVE SessionInv'
  OBVIOUS
<1>1. [Next]_vars /\ [Ledger!Next]_daemon
  BY PartsStep
<1>2. DOMAIN outcome = Calls
  BY DEF SessionInv, CallInv, TablesNow, Tables, Answers
<1>3. CASE Connect
  <2>1. PICK token \in Tokens, i \in 1..incarnation : Connected(token, i)
    BY <1>3 DEF Connect
  <2>2. WireGrows /\ Told(outcome, outcome', {})
    BY <1>2, <2>1, ConnectedTells
  <2> QED BY <1>1, <1>3, <2>2, KernelMoves DEF Connect
<1>4. CASE ClientStep
  <2>1. WireGrows /\ Told(outcome, outcome', {})
    BY <1>2, <1>4, ClientTells DEF ClientStep
  <2> QED BY <1>1, <1>4, <2>1, KernelMoves DEF ClientStep
<1>5. ASSUME NEW f \in wire, ReplyArrives(f)
      PROVE  SessionInv'
  <2>1. request[RequestOf(f)].stage = "answered" /\ Reply(f) /\ UNCHANGED daemon
    BY <1>5 DEF ReplyArrives
  <2>2. WireGrows /\ Told(outcome, outcome', {f.call})
    BY <1>2, <2>1, ReplyTells
  <2> QED BY <1>1, <2>1, <2>2, KernelMoves
<1>6. ASSUME NEW f \in wire, Deliver(f)
      PROVE  SessionInv'
  BY <1>1, <1>6, DeliverStep
<1>7. CASE DaemonStep
  <2>1. CASE Ledger!Restart
    <3>1. UNCHANGED effects
      BY <2>1 DEF Ledger!Restart
    <3> QED BY <1>1, <1>7, <2>1, <3>1, RestartMoves, DaemonWorks DEF DaemonStep, SessionInv
  <2>2. ASSUME NEW r \in Requests, Ledger!DaemonStep(r)
        PROVE  SessionInv'
    <3>1. RequestsMove
      BY <2>2, DaemonMoves DEF SessionInv
    <3>2. \/ UNCHANGED effects
          \/ \E d : (\A e \in effects : e.owner # d.owner) /\ effects' = effects \cup {d}
      BY <2>2, EffectsMove
    <3> QED BY <1>1, <1>7, <3>1, <3>2, DaemonWorks DEF DaemonStep
  <2> QED BY <1>7, <2>1, <2>2, SameDaemon DEF DaemonStep
<1>8. CASE UNCHANGED <<vars, daemon>>
  <2>1. WireGrows /\ Told(outcome, outcome', {})
    BY <1>8, StillTells DEF vars, work
  <2> QED BY <1>1, <1>8, <2>1, KernelMoves
<1> QED BY <1>3, <1>4, <1>5, <1>6, <1>7, <1>8 DEF SessionNext

-----------------------------------------------------------------------------
(* What the session promises                                               *)

\* Kernel, ledger and what links them: the frames behind the requests of the
\* ledger, and the answers behind the replies that callers were given.
THEOREM SessionInvariant == SessionSpec => []SessionInv
BY SessionInitial, SessionStep, PTL DEF SessionSpec

\* The kernel in a session is Kernel, and its daemon DedupLedger: what is proved
\* of each holds of the two together.
THEOREM PartsKept == SessionSpec => Spec /\ Ledger!Spec
<1>1. SessionInit => Init /\ Ledger!Init
  BY SameDaemon DEF SessionInit
<1>2. SessionInv /\ [SessionNext]_<<vars, daemon>>
        => [Next]_vars /\ [Ledger!Next]_(Ledger!daemonVars)
  BY PartsStep DEF daemon, Ledger!daemonVars
<1> QED BY <1>1, <1>2, SessionInvariant, PTL DEF SessionSpec, Spec, Ledger!Spec

\* A caller is given a daemon's answer only if the daemon gave one to a frame of
\* that very call, and a success only with its effect authored: across replays,
\* reconnects and daemon restarts.
THEOREM AnswersAlwaysReal == SessionSpec => []AnswersAreReal
<1>1. ASSUME SessionInv PROVE AnswersAreReal
  <2> USE <1>1 DEF SessionInv
  <2> SUFFICES ASSUME NEW c \in Calls, outcome[c] = "reply"
               PROVE  \E f \in wire :
                        /\ f.call = c
                        /\ request[RequestOf(f)].stage = "answered"
                        /\ request[RequestOf(f)].reply = "ok" => Cardinality(Executions(c)) = 1
    BY DEF AnswersAreReal
  <2>1. PICK f \in wire : f.call = c /\ request[RequestOf(f)].stage = "answered"
    BY DEF RepliesGiven
  <2> DEFINE r == RequestOf(f)
  <2>2. r \in Requests
    BY FramesNamed
  <2>3. PICK g \in wire : RequestOf(g) = r /\ request[r].key = IF g.keyed THEN g.call ELSE NoKey
    BY <2>1, <2>2 DEF RequestsSent
  <2>4. g.call = c
    BY <2>1, <2>3 DEF RequestOf
  <2>5. ASSUME request[r].reply = "ok" PROVE Executions(c) # {}
    <3>1. CASE request[r].key = NoKey
      <4>1. PICK e \in effects : e.owner = r
        BY <2>1, <2>2, <2>5, <3>1 DEF InlineOnce
      <4>2. e.owner[1] = c
        BY <2>1, <4>1 DEF RequestOf
      <4> QED BY <4>1, <4>2 DEF Executions
    <3>2. CASE request[r].key # NoKey
      <4>1. request[r].key = c
        BY <2>3, <2>4, <3>2
      <4>2. Ledger!FromLedger(r)
        BY <2>1, <2>5, <3>2 DEF Ledger!FromLedger, Ledger!Recordable
      <4>3. Ledger!Authored(r) # {}
        BY <2>2, <2>5, <4>2 DEF Ledger!LedgerInv, Ledger!AnswersBacked
      <4>4. PICK e \in effects : e.key = c
        BY <4>1, <4>3 DEF Ledger!Authored
      <4>5. PICK h \in wire : e.owner[1] = h.call /\ e.key = IF h.keyed THEN h.call ELSE NoKey
        BY EffectsSent
      <4>6. e.owner[1] = c
        BY <4>4, <4>5, SessionAssumption
      <4> QED BY <4>4, <4>6 DEF Executions
    <3> QED BY <3>1, <3>2
  <2>6. request[r].reply = "ok" => Cardinality(Executions(c)) = 1
    BY <2>5, ExecutionCount
  <2> QED BY <2>1, <2>6
<1> QED BY <1>1, SessionInvariant, PTL

-----------------------------------------------------------------------------
(* The session implements Mutation                                         *)

Executed == [c \in Calls |-> Cardinality(Executions(c))]

\* A step of the client tells callers, each once, and claims that a call was not
\* executed only if none of its frames ever went out.
LEMMA ClientKeepsPromise ==
    ASSUME SessionInv, SessionInv', UNCHANGED effects,
           NEW R, Told(outcome, outcome', R), WireGrows
    PROVE  Promise!Tell
<1>1. /\ outcome' \in [Calls -> Outcomes]
      /\ \A c \in Calls : outcome'[c] # "twice"
      /\ \A c \in Calls : outcome'[c] \in NotExecuted => \A f \in wire' : f.call # c
  BY DEF SessionInv, CallInv, TablesNow, Tables, Answers, Claims
<1>2. Executed' = Executed
  BY DEF Executed, Executions
<1>3. ASSUME NEW c \in Calls, outcome'[c] \in NotExecuted
      PROVE  Executed[c] = 0
  <2>1. \A f \in wire : f.call # c
    BY <1>1, <1>3 DEF WireGrows
  <2>2. Executions(c) = {}
    BY <2>1, EffectsSent DEF SessionInv, Executions
  <2> QED BY <2>2, FS_EmptySet DEF Executed
<1>4. \A c \in Calls : outcome'[c] # outcome[c] => outcome[c] = "none"
  BY <1>1 DEF Told
<1>5. outcome' \in [Calls -> Outcomes \cup {"none"}]
  BY <1>1 DEF Outcomes
<1> QED BY <1>2, <1>3, <1>4, <1>5 DEF Promise!Tell, Executed

\* What the effects of a session are: of a call one, of a frame that went out.
Executable ==
    /\ \A c \in Calls : \A d, e \in Executions(c) : d = e
    /\ \A e \in effects : e.owner \in Requests /\ \E f \in wire : f.call = e.owner[1]

LEMMA EffectsExecutable == SessionInv => Executable
<1> SUFFICES ASSUME SessionInv PROVE Executable
  OBVIOUS
<1>1. \A c \in Calls : \A d, e \in Executions(c) : d = e
  BY OneExecution DEF SessionInv
<1>2. \A e \in effects : e.owner \in Requests
  BY DEF SessionInv, Ledger!LedgerInv, Ledger!TypeOK, Ledger!Effect
<1>3. \A e \in effects : \E f \in wire : f.call = e.owner[1]
  BY EffectsSent DEF SessionInv
<1> QED BY <1>1, <1>2, <1>3 DEF Executable

LEMMA NextExecutable == SessionInv' => Executable'
BY EffectsExecutable, PTL

\* The daemon authors an effect for a call that has none and was sent, so that
\* nobody was told it was not executed.
LEMMA DaemonKeepsPromise ==
    ASSUME SessionInv, SessionInv', UNCHANGED vars,
           NEW d, \A e \in effects : e.owner # d.owner, effects' = effects \cup {d}
    PROVE  \E c \in Calls : Promise!Execute(c)
<1> DEFINE c == d.owner[1]
<1>1. /\ \A b \in Calls : \A e, f \in Executions(b)' : e = f
      /\ d.owner \in Requests /\ \E f \in wire' : f.call = c
  BY NextExecutable DEF Executable
<1>2. wire' = wire /\ outcome' = outcome
  BY DEF vars, work
<1>3. c \in Calls
  BY <1>1 DEF Requests
<1>4. outcome[c] \notin NotExecuted
  BY <1>1, <1>2, <1>3 DEF SessionInv, CallInv, TablesNow, Tables, Claims
<1>5. /\ Executions(c)' = Executions(c) \cup {d}
      /\ \A b \in Calls : b # c => Executions(b)' = Executions(b)
      /\ d \notin effects
  BY DEF Executions
<1>6. Executions(c) = {}
  <2> SUFFICES ASSUME NEW e \in Executions(c) PROVE FALSE
    OBVIOUS
  <2>1. e = d
    BY <1>1, <1>3, <1>5
  <2> QED BY <1>5, <2>1 DEF Executions
<1>7. Executed[c] = 0 /\ Executed'[c] = 1
  <2>1. Executions(c)' = {d}
    BY <1>5, <1>6
  <2>2. Cardinality(Executions(c)) = 0 /\ Cardinality(Executions(c)') = 1
    BY <1>6, <2>1, FS_EmptySet, FS_Singleton
  <2> HIDE DEF c
  <2> QED BY <1>3, <2>2 DEF Executed
<1>8. \A b \in Calls : b # c => Executed'[b] = Executed[b]
  BY <1>5 DEF Executed
<1> HIDE DEF c
<1>9. Executed' = [Executed EXCEPT ![c] = 1]
  <2>1. /\ Executed = [b \in Calls |-> Cardinality(Executions(b))]
        /\ Executed' = [b \in Calls |-> Cardinality(Executions(b)')]
    BY DEF Executed
  <2>2. DOMAIN Executed = Calls /\ DOMAIN Executed' = Calls
    BY <2>1
  <2> QED BY <1>3, <1>7, <1>8, <2>1, <2>2
<1>10. Promise!Execute(c)
  BY <1>2, <1>4, <1>7, <1>9 DEF Promise!Execute, Executed
<1> QED BY <1>3, <1>10

LEMMA PromiseStep ==
    ASSUME SessionInv, SessionInv', [SessionNext]_<<vars, daemon>>
    PROVE  [Promise!Next]_<<outcome, Executed>>
<1>0. DOMAIN outcome = Calls
  BY DEF SessionInv, CallInv, TablesNow, Tables, Answers
<1>1. ASSUME UNCHANGED <<outcome, effects>>
      PROVE  [Promise!Next]_<<outcome, Executed>>
  BY <1>1 DEF Executed, Executions
<1>2. ASSUME NEW R, WireGrows, Told(outcome, outcome', R), UNCHANGED daemon
      PROVE  [Promise!Next]_<<outcome, Executed>>
  <2>1. UNCHANGED effects
    BY <1>2 DEF daemon
  <2> QED BY <1>2, <2>1, ClientKeepsPromise DEF Promise!Next
<1>3. CASE Connect
  <2>1. PICK token \in Tokens, i \in 1..incarnation : Connected(token, i)
    BY <1>3 DEF Connect
  <2>2. WireGrows /\ Told(outcome, outcome', {})
    BY <1>0, <2>1, ConnectedTells
  <2> QED BY <1>2, <1>3, <2>2 DEF Connect
<1>4. CASE ClientStep
  <2>1. WireGrows /\ Told(outcome, outcome', {})
    BY <1>0, <1>4, ClientTells DEF ClientStep
  <2> QED BY <1>2, <1>4, <2>1 DEF ClientStep
<1>5. ASSUME NEW f \in wire, ReplyArrives(f)
      PROVE  [Promise!Next]_<<outcome, Executed>>
  <2>1. Reply(f) /\ UNCHANGED daemon
    BY <1>5 DEF ReplyArrives
  <2> QED BY <1>0, <1>2, <2>1, ReplyTells
<1>6. ASSUME NEW f \in wire, Deliver(f)
      PROVE  [Promise!Next]_<<outcome, Executed>>
  <2>1. UNCHANGED <<outcome, effects>>
    BY <1>6 DEF Deliver, Daemon!Receive, vars, work
  <2> QED BY <1>1, <2>1
<1>7. CASE DaemonStep
  <2>1. UNCHANGED vars /\ UNCHANGED outcome
    BY <1>7 DEF DaemonStep, vars, work
  <2>2. CASE UNCHANGED effects
    BY <1>1, <2>1, <2>2
  <2>3. ASSUME NEW r \in Requests, Ledger!DaemonStep(r), ~UNCHANGED effects
        PROVE  [Promise!Next]_<<outcome, Executed>>
    <3>1. PICK d : (\A e \in effects : e.owner # d.owner) /\ effects' = effects \cup {d}
      BY <2>3, EffectsMove
    <3> QED BY <2>1, <3>1, DaemonKeepsPromise DEF Promise!Next
  <2>4. CASE Ledger!Restart
    BY <2>2, <2>4 DEF Ledger!Restart
  <2> QED BY <1>7, <2>2, <2>3, <2>4, SameDaemon DEF DaemonStep
<1>8. CASE UNCHANGED <<vars, daemon>>
  BY <1>1, <1>8 DEF vars, work, daemon
<1> QED BY <1>3, <1>4, <1>5, <1>6, <1>7, <1>8 DEF SessionNext

LEMMA PromiseInitial == SessionInit => Promise!Init
<1> SUFFICES ASSUME SessionInit PROVE Promise!Init
  OBVIOUS
<1>1. outcome = [c \in Calls |-> "none"] /\ effects = {}
  BY SameDaemon DEF SessionInit, Init, Ledger!Init
<1>2. \A c \in Calls : Cardinality(Executions(c)) = 0
  BY <1>1, FS_EmptySet DEF Executions
<1> QED BY <1>1, <1>2 DEF Promise!Init

\* Kernel and daemon together implement Mutation, for any number of calls,
\* connections, replays and daemon processes: each call is settled once, its
\* effect is authored at most once, and a call settled as not executed is never
\* executed, not even by a frame that arrives later.
THEOREM PromiseKept == SessionSpec => KeepsPromise
<1>1. SessionInv /\ SessionInv' /\ [SessionNext]_<<vars, daemon>>
        => [Promise!Next]_<<outcome, [c \in Calls |-> Cardinality(Executions(c))]>>
  BY PromiseStep DEF Executed
<1> QED BY <1>1, PromiseInitial, SessionInvariant, PTL DEF SessionSpec, KeepsPromise, Promise!Spec
=============================================================================
