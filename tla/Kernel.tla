------------------------------- MODULE Kernel -------------------------------
(***************************************************************************)
(* The request/reply core of the client kernel: jeliya-client's sans-IO    *)
(* state machine (kernel/core.rs) with the call ledger (inflight.rs), the  *)
(* admission accountant (admission.rs), the replay policy (replay.rs) and  *)
(* the wire-id and generation counters (ids.rs).                           *)
(*                                                                         *)
(* One action is one Input handled by Core::step, up to and including the  *)
(* flush the handler ends with.  The environment is whatever a driver may  *)
(* report: dial outcomes of the outstanding or of a retired attempt, a     *)
(* loss of the live or of a replaced connection, replies that are late,    *)
(* duplicated or from an older connection, callers that give up, deadlines *)
(* that pass before or after their timer is handled.  Byte streams         *)
(* (streaming.rs) are not part of this module.                             *)
(***************************************************************************)
EXTENDS Naturals, Sequences, FiniteSets, Queues

CONSTANTS
    MaxCalls,              \* bound: calls a behaviour dispatches
    CallShapes,            \* facts of a call: [keyed: BOOLEAN, bytes: Nat]
    QueueDepth,            \* KernelLimits.queue_depth
    OutboundBytes,         \* KernelLimits.outbound_bytes
    InFlight,              \* KernelLimits.in_flight
    MaxReconnectAttempts,  \* KernelLimits.max_reconnect_attempts
    MaxGeneration,         \* bound: connections a behaviour establishes
    Incarnations           \* bound: 1..n, the daemon processes it may meet

ASSUME MaxCallsAssumption == MaxCalls \in Nat
ASSUME ShapesAssumption == CallShapes \subseteq [keyed : BOOLEAN, bytes : Nat]
ASSUME LimitsAssumption ==
    /\ QueueDepth \in Nat
    /\ OutboundBytes \in Nat
    /\ InFlight \in Nat \ {0}
    /\ MaxReconnectAttempts \in Nat
ASSUME BoundsAssumption ==
    /\ MaxGeneration \in Nat
    /\ Incarnations \subseteq Nat \ {0}

VARIABLES
    state,              \* lifecycle State; Stopping is passed through inside Stop
    stopping,           \* set the instant stop is invoked
    stable_principal,   \* the driver certifies one principal for all connections
    generation,         \* GenerationCounter.current
    attempt,            \* consecutive failed reconnect attempts
    pending_dial,       \* token of the outstanding dial, 0 for None
    next_dial_token,    \* last token minted
    backoff_timer,      \* TRUE while the reconnect-backoff timer is armed
    last_incarnation,   \* incarnation of the last accepted connection, 0 for None
    next_call_id,       \* call ids below it have been dispatched
    ledger,             \* Ledger.entries: call id -> Entry, for live entries only
    wire_index,         \* Ledger.wire_index: wire id -> call id
    queue,              \* admitted-but-unsent call ids, FIFO
    replay_hold,        \* sent replayable call ids held across a reconnect, FIFO
    tombstones,         \* ids of sent entries nobody waits for any more, FIFO
    in_flight_count,    \* the counter of sent, non-cancelled calls
    queued_count,       \* Admission.queued_count
    queued_bytes,       \* Admission.queued_bytes
    next_wire_id,       \* IdAllocator.next
    outcome,            \* per call, what its reply future was given
    wire                \* every frame ever put on a connection

lifecycle == <<state, stopping, generation, attempt, pending_dial,
               next_dial_token, backoff_timer, last_incarnation>>
work == <<ledger, wire_index, queue, replay_hold, in_flight_count,
          queued_count, queued_bytes, next_wire_id, outcome, wire>>
vars == <<lifecycle, work, stable_principal, next_call_id, tombstones>>

-----------------------------------------------------------------------------
(* Types                                                                   *)

Calls == 0..(MaxCalls - 1)

States == {"Idle", "Connecting", "Ready", "Interrupted", "Failed", "Stopped"}

\* The classifications a settlement can carry, with DefinitelyNot ("not") and
\* Unknown ("unknown") execution.
NotExecuted == {"disconnected_not", "cancelled_not", "queue_full"}
MayHaveExecuted == {"disconnected_unknown", "cancelled_unknown"}
\* "dropped": the caller abandoned the future.  "misrouted" and "twice" are
\* error values no handler may produce: another call's reply, a second Settle.
Outcomes == {"none", "reply", "timeout", "dropped", "misrouted", "twice"}
              \cup NotExecuted \cup MayHaveExecuted

\* A ledger entry.  wire_id and generation are those of Phase::Sent and mean
\* nothing while the phase is "queued"; expired says deadline_at <= now.
Entry == [phase : {"queued", "sent"}, wire_id : Nat, generation : Nat,
          bytes : Nat, keyed : BOOLEAN, replayable : BOOLEAN,
          holds_charge : BOOLEAN, ever_sent : BOOLEAN, cancelled : BOOLEAN,
          expired : BOOLEAN]

Frame == [call : Calls, wire_id : Nat, generation : Nat, incarnation : Nat,
          keyed : BOOLEAN]

Empty == [x \in {} |-> x]

-----------------------------------------------------------------------------
(* Helpers                                                                 *)

\* saturating_sub
SatSub(a, b) == IF b <= a THEN a - b ELSE 0

Sent(L) == {c \in DOMAIN L : L[c].phase = "sent"}
Queued(L) == {c \in DOMAIN L : L[c].phase = "queued"}
Live(L) == {c \in DOMAIN L : ~L[c].cancelled}
Expired(L) == {c \in DOMAIN L : L[c].expired}

\* Ledger::take for every call of S.
Take(L, S) == [c \in DOMAIN L \ S |-> L[c]]
Unindex(idx, L, S) ==
    LET gone == {L[c].wire_id : c \in S \cap Sent(L)}
    IN  [w \in DOMAIN idx \ gone |-> idx[w]]

\* The payload bytes of the calls of S together, counted one by one.
ByteSum(L, S) == Cardinality(UNION {{c} \X (1..L[c].bytes) : c \in S})
Charged(L, S) == {c \in S : L[c].holds_charge}

\* Action::Settle for every call of S, with the classification v[c].  The
\* driver removes the sender with the first one; a second is flagged here.
Settle(out, S, v(_)) ==
    [c \in DOMAIN out |->
        IF c \in S THEN IF out[c] = "none" THEN v(c) ELSE "twice" ELSE out[c]]

\* Action::DropSender: a no-op when the call was already settled.
DropSender(out, c) ==
    IF out[c] = "none" THEN [out EXCEPT ![c] = "dropped"] ELSE out

\* Mutant of Replayable: no look at the principal.
ReplayableWheneverKeyed(shape) == shape.keyed

\* ReplayPolicy::derive.  "keyed" stands for: mutating, with an op_id, and of
\* the op_id-deduplicated set (a byte stream is never keyed).
Replayable(shape) == stable_principal /\ shape.keyed

\* Mutant of Resolve: no generation fence.
ResolveAnyGeneration(wire_id, gen) ==
    {c \in DOMAIN ledger : /\ wire_id \in DOMAIN wire_index
                           /\ wire_index[wire_id] = c
                           /\ ledger[c].phase = "sent"}

\* Ledger::resolve_reply: the calls (at most one) a frame's answer settles.
Resolve(wire_id, gen) ==
    {c \in DOMAIN ledger : /\ wire_id \in DOMAIN wire_index
                           /\ wire_index[wire_id] = c
                           /\ ledger[c].phase = "sent"
                           /\ ledger[c].generation = gen}

-----------------------------------------------------------------------------
(* flush                                                                   *)

\* The while loop of flush pops k ids from the front of q: it tests the
\* throttle before every pop, a lapsed call settles Timeout without using a
\* slot, a live one is sent and uses one.
FlushPops(L, q, n, k) ==
    LET slotsAt(j) == n + Cardinality({i \in 1..j : ~L[q[i]].expired})
    IN  /\ \A j \in 1..k : slotsAt(j - 1) < InFlight
        /\ k = Len(q) \/ slotsAt(k) >= InFlight

\* Mutant of SentEntry: the bytes of a replayable call are released too.
SentEntryUncharged(e, id) ==
    [e EXCEPT !.phase = "sent", !.wire_id = id, !.generation = generation',
              !.ever_sent = TRUE, !.holds_charge = FALSE]

\* The entry flush leaves in the ledger for a call it sends: mark_sent, and the
\* payload and its charge dropped unless the call may be replayed.
SentEntry(e, id) ==
    [e EXCEPT !.phase = "sent", !.wire_id = id, !.generation = generation',
              !.ever_sent = TRUE,
              !.holds_charge = e.holds_charge /\ e.replayable]

\* No send: the work tables become the given ones.
NoFlush(L, idx, q, hold, n, count, bytes, out) ==
    /\ ledger' = L
    /\ wire_index' = idx
    /\ queue' = q
    /\ replay_hold' = hold
    /\ in_flight_count' = n
    /\ queued_count' = count
    /\ queued_bytes' = bytes
    /\ outcome' = out
    /\ UNCHANGED <<next_wire_id, wire>>

\* flush on a Ready connection, from the given work tables; ids are allocated
\* from firstId.  (Its retain on replay_hold finds nothing: Connected emptied
\* the hold, see ReconnectDriven.)
FlushReady(L, idx, q, n, count, bytes, out, firstId) ==
    \E k \in 0..Len(q) :
      LET taken == {q[i] : i \in 1..k}
          lapsed == taken \cap Expired(L)
          sent == taken \ lapsed
          rank(i) == Cardinality({j \in 1..(i - 1) : q[j] \notin lapsed})
          idOf == [c \in sent |->
                     firstId + rank(CHOOSE i \in 1..k : q[i] = c)]
          charged == Charged(L, taken)
          freed == {c \in charged : c \in lapsed \/ ~L[c].replayable}
      IN /\ FlushPops(L, q, n, k)
         /\ queue' = SubSeq(q, k + 1, Len(q))
         /\ ledger' = [c \in DOMAIN L \ lapsed |->
                         IF c \in sent THEN SentEntry(L[c], idOf[c]) ELSE L[c]]
         /\ wire_index' =
              [w \in DOMAIN idx \cup {idOf[c] : c \in sent} |->
                 IF w \in {idOf[c] : c \in sent}
                 THEN CHOOSE c \in sent : idOf[c] = w ELSE idx[w]]
         /\ in_flight_count' = n + Cardinality(sent)
         /\ queued_count' = SatSub(count, Cardinality(charged))
         /\ queued_bytes' = SatSub(bytes, ByteSum(L, freed))
         /\ outcome' = Settle(out, lapsed, LAMBDA c : "timeout")
         /\ next_wire_id' = firstId + Cardinality(sent)
         /\ wire' = wire \cup
              {[call |-> c, wire_id |-> idOf[c], generation |-> generation',
                incarnation |-> last_incarnation', keyed |-> L[c].keyed]
                 : c \in sent}
         /\ replay_hold' = <<>>

\* flush as the handlers call it: nothing unless Ready.
Flush(L, idx, q, hold, n, count, bytes, out) ==
    IF state' = "Ready"
    THEN FlushReady(L, idx, q, n, count, bytes, out, next_wire_id)
    ELSE NoFlush(L, idx, q, hold, n, count, bytes, out)

-----------------------------------------------------------------------------
(* Lifecycle                                                               *)

Init ==
    /\ state = "Idle"
    /\ stopping = FALSE
    /\ stable_principal \in BOOLEAN
    /\ generation = 0
    /\ attempt = 0
    /\ pending_dial = 0
    /\ next_dial_token = 0
    /\ backoff_timer = FALSE
    /\ last_incarnation = 0
    /\ next_call_id = 0
    /\ ledger = Empty
    /\ wire_index = Empty
    /\ queue = <<>>
    /\ replay_hold = <<>>
    /\ tombstones = <<>>
    /\ in_flight_count = 0
    /\ queued_count = 0
    /\ queued_bytes = 0
    /\ next_wire_id = 0
    /\ outcome = [c \in Calls |-> "none"]
    /\ wire = {}

\* Mutant of MintDial: the attempt is started and not recorded.
MintDialUnrecorded ==
    next_dial_token' = next_dial_token + 1 /\ UNCHANGED pending_dial

MintDial ==
    /\ next_dial_token' = next_dial_token + 1
    /\ pending_dial' = next_dial_token + 1

Start ==
    /\ state = "Idle" /\ ~stopping
    /\ state' = "Connecting"
    /\ MintDial
    /\ UNCHANGED <<stopping, generation, attempt, backoff_timer,
                   last_incarnation, work, stable_principal, next_call_id,
                   tombstones>>

\* Mutant of Drained: a held call passes for one that never was sent.
DrainedByPhase(L, c, maybe, never) ==
    IF L[c].expired THEN "timeout"
    ELSE IF L[c].phase = "sent" THEN maybe ELSE never

\* What terminal failure and stop settle a drained call with: an elapsed
\* deadline binds, then ever_sent decides between the two classifications.
Drained(L, c, maybe, never) ==
    IF L[c].expired THEN "timeout" ELSE IF L[c].ever_sent THEN maybe ELSE never

\* Drain the ledger, settle every live call and empty every work table.
DrainAll(L, out, maybe, never) ==
    /\ ledger' = Empty
    /\ wire_index' = Empty
    /\ queue' = <<>>
    /\ replay_hold' = <<>>
    /\ tombstones' = <<>>
    /\ in_flight_count' = 0
    /\ queued_count' = 0
    /\ queued_bytes' = 0
    /\ outcome' = Settle(out, Live(L), LAMBDA c : Drained(L, c, maybe, never))
    /\ UNCHANGED <<next_wire_id, wire>>

FailAll(L, out) ==
    /\ DrainAll(L, out, "disconnected_unknown", "disconnected_not")
    /\ pending_dial' = 0
    /\ backoff_timer' = FALSE
    /\ state' = "Failed"
    /\ UNCHANGED attempt

\* Mutant of BudgetExhausted: one attempt too many.
BudgetExceeded == attempt > MaxReconnectAttempts

BudgetExhausted == attempt >= MaxReconnectAttempts

\* The retry half of schedule_reconnect_or_fail: arm the backoff timer.  A
\* retry of the first activation stays Connecting.
ScheduleReconnect ==
    /\ ~BudgetExhausted
    /\ backoff_timer' = TRUE
    /\ pending_dial' = 0
    /\ attempt' = attempt + 1
    /\ state' = IF state = "Connecting" THEN "Connecting" ELSE "Interrupted"

\* Mutant of OutstandingDial: no token fence.
AnyDial(token) == token <= next_dial_token

\* The outstanding dial is the only one whose outcome counts.
OutstandingDial(token) == pending_dial # 0 /\ pending_dial = token

\* The driver may report an outcome for any attempt it was ever told to make.
Tokens == 1..next_dial_token

\* Mutant of Restarted: the storage generation matches, so nothing is fenced.
NeverRestarted(incarnation) == last_incarnation = 0 /\ incarnation = 0

\* The daemon incarnation is not the one held calls were sent to.
Restarted(incarnation) ==
    last_incarnation # 0 /\ last_incarnation # incarnation

\* A connection passed the generation gate.  Replay-held calls are requeued in
\* front, in order, when the daemon incarnation is the one they were sent to;
\* on a changed incarnation they are settled and dropped.
Connected(token, incarnation) ==
    LET held == IF Restarted(incarnation) THEN Elements(replay_hold) ELSE {}
        L == Take(ledger, held)
        q == IF Restarted(incarnation) THEN queue ELSE replay_hold \o queue
        freed == Charged(ledger, held)
    IN /\ OutstandingDial(token)
       /\ generation < MaxGeneration
       /\ pending_dial' = 0
       /\ generation' = generation + 1
       /\ attempt' = 0
       /\ backoff_timer' = FALSE
       /\ last_incarnation' = incarnation
       /\ state' = "Ready"
       /\ FlushReady(L, Empty, q, in_flight_count,
                     SatSub(queued_count, Cardinality(freed)),
                     SatSub(queued_bytes, ByteSum(ledger, freed)),
                     Settle(outcome, held, LAMBDA c : "disconnected_unknown"),
                     0)
       /\ UNCHANGED <<stopping, next_dial_token, stable_principal,
                      next_call_id, tombstones>>

\* Mutant of InCallOrder: the calls in the order the hash map yields them.
InAnyOrder(S) == {s \in [1..Cardinality(S) -> S] : Elements(s) = S}

\* The sequences on_interrupted pushes to replay_hold: the held calls in
\* CallId order.
InCallOrder(S) ==
    {s \in [1..Cardinality(S) -> S] :
        /\ Elements(s) = S
        /\ \A i, j \in DOMAIN s : i < j => s[i] < s[j]}

\* The live connection was lost: every sent call is reclassified, and either a
\* backoff is armed or, with no retry budget at all, everything fails.
Interrupted(gen) ==
    LET sent == Sent(ledger)
        forgotten == {c \in sent : ledger[c].cancelled}
        expired == (sent \ forgotten) \cap Expired(ledger)
        hold == {c \in sent \ (forgotten \cup expired) : ledger[c].replayable}
        lost == sent \ (forgotten \cup expired \cup hold)
        freed == Charged(ledger, expired \cup lost)
        L == [c \in DOMAIN ledger \ (forgotten \cup expired \cup lost) |->
                IF c \in hold THEN [ledger[c] EXCEPT !.phase = "queued"]
                ELSE ledger[c]]
        out == Settle(outcome, expired \cup lost, LAMBDA c :
                 IF c \in expired THEN "timeout" ELSE "disconnected_unknown")
    IN /\ state = "Ready"
       /\ gen = generation
       /\ \/ /\ BudgetExhausted
             /\ FailAll(L, out)
          \/ /\ ScheduleReconnect
             /\ \E held \in InCallOrder(hold) :
                  NoFlush(L, Empty, queue, replay_hold \o held, 0,
                          queued_count + Cardinality(hold),
                          SatSub(queued_bytes, ByteSum(ledger, freed)), out)
             /\ tombstones' = <<>>
       /\ UNCHANGED <<stopping, generation, next_dial_token, last_incarnation,
                      stable_principal, next_call_id>>

DialFailed(token) ==
    /\ OutstandingDial(token)
    /\ \/ BudgetExhausted /\ FailAll(ledger, outcome)
       \/ ScheduleReconnect /\ UNCHANGED <<work, tombstones>>
    /\ UNCHANGED <<stopping, generation, next_dial_token, last_incarnation,
                   stable_principal, next_call_id>>

GateRefused(token) ==
    /\ OutstandingDial(token)
    /\ FailAll(ledger, outcome)
    /\ UNCHANGED <<stopping, generation, next_dial_token, last_incarnation,
                   stable_principal, next_call_id>>

\* Mutant of BackoffFires: the timer stays armed.
BackoffFiresAgain ==
    /\ backoff_timer
    /\ MintDial
    /\ UNCHANGED <<state, stopping, generation, attempt, backoff_timer,
                   last_incarnation, work, stable_principal, next_call_id,
                   tombstones>>

BackoffFires ==
    /\ backoff_timer
    /\ backoff_timer' = FALSE
    /\ MintDial
    /\ UNCHANGED <<state, stopping, generation, attempt, last_incarnation,
                   work, stable_principal, next_call_id, tombstones>>

Stop ==
    /\ ~stopping /\ state # "Stopped"
    /\ stopping' = TRUE
    /\ pending_dial' = 0
    /\ backoff_timer' = FALSE
    /\ state' = "Stopped"
    /\ DrainAll(ledger, outcome, "cancelled_unknown", "cancelled_not")
    /\ UNCHANGED <<generation, attempt, next_dial_token, last_incarnation,
                   stable_principal, next_call_id>>

-----------------------------------------------------------------------------
(* Dispatch, cancel                                                        *)

NextCall == next_call_id < MaxCalls /\ next_call_id' = next_call_id + 1

Refusing == stopping \/ state \in {"Stopped", "Failed"}

NoRoom(shape) == \/ queued_count >= QueueDepth
                 \/ queued_bytes + shape.bytes > OutboundBytes

\* A dispatch after stop or terminal failure never leaves the seam.
DispatchRefused ==
    /\ NextCall
    /\ Refusing
    /\ outcome' = Settle(outcome, {next_call_id}, LAMBDA c : "cancelled_not")
    /\ UNCHANGED <<lifecycle, ledger, wire_index, queue, replay_hold,
                   in_flight_count, queued_count, queued_bytes, next_wire_id,
                   wire, stable_principal, tombstones>>

\* QueueFull is visible, never absorbed.
DispatchQueueFull(shape) ==
    /\ NextCall
    /\ ~Refusing
    /\ NoRoom(shape)
    /\ outcome' = Settle(outcome, {next_call_id}, LAMBDA c : "queue_full")
    /\ UNCHANGED <<lifecycle, ledger, wire_index, queue, replay_hold,
                   in_flight_count, queued_count, queued_bytes, next_wire_id,
                   wire, stable_principal, tombstones>>

NewEntry(shape) ==
    [phase |-> "queued", wire_id |-> 0, generation |-> 0,
     bytes |-> shape.bytes, keyed |-> shape.keyed,
     replayable |-> Replayable(shape), holds_charge |-> TRUE,
     ever_sent |-> FALSE, cancelled |-> FALSE, expired |-> FALSE]

DispatchAdmitted(shape) ==
    LET c == next_call_id
        L == [d \in DOMAIN ledger \cup {c} |->
                IF d = c THEN NewEntry(shape) ELSE ledger[d]]
    IN /\ NextCall
       /\ ~Refusing
       /\ ~NoRoom(shape)
       /\ UNCHANGED lifecycle
       /\ Flush(L, wire_index, Append(queue, c), replay_hold, in_flight_count,
                queued_count + 1, queued_bytes + shape.bytes, outcome)
       /\ UNCHANGED <<stable_principal, tombstones>>

\* A queued call is cancelled: it leaves whole, with its charge.
CancelQueued(c) ==
    LET freed == Charged(ledger, {c})
    IN /\ c \in Queued(ledger)
       /\ UNCHANGED lifecycle
       /\ NoFlush(Take(ledger, {c}), wire_index, Without(queue, c),
                  Without(replay_hold, c), in_flight_count,
                  SatSub(queued_count, Cardinality(freed)),
                  SatSub(queued_bytes, ByteSum(ledger, freed)),
                  DropSender(outcome, c))
       /\ UNCHANGED <<stable_principal, next_call_id, tombstones>>

\* push_tombstone: the id it evicts when the budget is full, the new FIFO.
Evicted == IF Len(tombstones) >= InFlight THEN {Head(tombstones)} ELSE {}
PushTombstone(c) ==
    Append(IF Evicted = {} THEN tombstones ELSE Tail(tombstones), c)

\* A sent, live call becomes a tombstone: it keeps its wire id reserved, frees
\* its throttle slot and its bytes, and may push the oldest tombstone out.
Bury(c, out) ==
    LET freed == Charged(ledger, {c})
        L == [Take(ledger, Evicted) EXCEPT
                ![c] = [@ EXCEPT !.cancelled = TRUE, !.holds_charge = FALSE]]
    IN /\ tombstones' = PushTombstone(c)
       /\ Flush(L, Unindex(wire_index, ledger, Evicted), queue, replay_hold,
                SatSub(in_flight_count, 1), queued_count,
                SatSub(queued_bytes, ByteSum(ledger, freed)), out)

\* The caller drops the future of a sent call.  (Cancelling a tombstone, or a
\* call no longer in the ledger, changes nothing.)
CancelSent(c) ==
    /\ c \in Sent(ledger)
    /\ ~ledger[c].cancelled
    /\ UNCHANGED lifecycle
    /\ Bury(c, DropSender(outcome, c))
    /\ UNCHANGED <<stable_principal, next_call_id>>

-----------------------------------------------------------------------------
(* Replies and deadlines                                                   *)

\* The answer to frame f arrives, tagged with the generation of the connection
\* it arrived on: now, late, twice, or after that connection is gone.
Reply(f) ==
    \E c \in Resolve(f.wire_id, f.generation) :
      LET freed == Charged(ledger, {c})
          verdict == IF ledger[c].expired THEN "timeout"
                     ELSE IF f.call = c THEN "reply" ELSE "misrouted"
          live == ~ledger[c].cancelled
      IN /\ UNCHANGED lifecycle
         /\ tombstones' = IF live THEN tombstones ELSE Without(tombstones, c)
         /\ Flush(Take(ledger, {c}), Unindex(wire_index, ledger, {c}), queue,
                  replay_hold,
                  IF live THEN SatSub(in_flight_count, 1) ELSE in_flight_count,
                  queued_count,
                  SatSub(queued_bytes, ByteSum(ledger, freed)),
                  IF live THEN Settle(outcome, {c}, LAMBDA d : verdict)
                  ELSE outcome)
         /\ UNCHANGED <<stable_principal, next_call_id>>

\* Time reaches the absolute deadline of a call.  Every call has the same
\* budget, so deadlines pass in dispatch order.
DeadlinePasses(c) ==
    /\ c \in DOMAIN ledger \ Expired(ledger)
    /\ \A d \in DOMAIN ledger : d < c => ledger[d].expired
    /\ ledger' = [ledger EXCEPT ![c].expired = TRUE]
    /\ UNCHANGED <<lifecycle, wire_index, queue, replay_hold, in_flight_count,
                   queued_count, queued_bytes, next_wire_id, outcome, wire,
                   stable_principal, next_call_id, tombstones>>

\* The deadline timer of a sent call that is still awaited: it settles Timeout
\* and becomes a tombstone with a fresh reclaim timer.
SentTimesOut(c) ==
    /\ c \in Sent(ledger) \cap Expired(ledger)
    /\ ~ledger[c].cancelled
    /\ UNCHANGED lifecycle
    /\ Bury(c, Settle(outcome, {c}, LAMBDA d : "timeout"))
    /\ UNCHANGED <<stable_principal, next_call_id>>

\* The timer of a tombstone: the original deadline timer a cancel left armed, or
\* the reclaim timer armed when the live call timed out.
TombstoneReclaimed(c) ==
    /\ c \in Sent(ledger)
    /\ ledger[c].cancelled
    /\ ledger[c].expired
    /\ UNCHANGED lifecycle
    /\ tombstones' = Without(tombstones, c)
    /\ NoFlush(Take(ledger, {c}), Unindex(wire_index, ledger, {c}), queue,
               replay_hold, in_flight_count, queued_count, queued_bytes,
               outcome)
    /\ UNCHANGED <<stable_principal, next_call_id>>

\* The deadline timer of a call that was not sent, or is held for replay.
QueuedTimesOut(c) ==
    LET freed == Charged(ledger, {c})
    IN /\ c \in Queued(ledger) \cap Expired(ledger)
       /\ UNCHANGED lifecycle
       /\ NoFlush(Take(ledger, {c}), wire_index, Without(queue, c),
                  Without(replay_hold, c), in_flight_count,
                  SatSub(queued_count, Cardinality(freed)),
                  SatSub(queued_bytes, ByteSum(ledger, freed)),
                  Settle(outcome, {c}, LAMBDA d : "timeout"))
       /\ UNCHANGED <<stable_principal, next_call_id, tombstones>>

\* Mutant of TimerFires: an unsent call has no timer.
TimerFiresOnlyIfSent(c) == SentTimesOut(c) \/ TombstoneReclaimed(c)

TimerFires(c) == SentTimesOut(c) \/ TombstoneReclaimed(c) \/ QueuedTimesOut(c)

-----------------------------------------------------------------------------
(* Specification                                                           *)

\* An outcome of the dial attempt the driver is making.  A later dial reaches
\* the same daemon process or a later one.
DialOutcome ==
    \E token \in Tokens :
      \/ \E i \in Incarnations : i >= last_incarnation /\ Connected(token, i)
      \/ DialFailed(token)
      \/ GateRefused(token)

Dispatch ==
    \/ DispatchRefused
    \/ \E shape \in CallShapes :
         DispatchQueueFull(shape) \/ DispatchAdmitted(shape)

Cancel == \E c \in Calls : CancelQueued(c) \/ CancelSent(c)

Next ==
    \/ Start
    \/ Stop
    \/ DialOutcome
    \/ BackoffFires
    \/ \E g \in 0..generation : Interrupted(g)
    \/ Dispatch
    \/ Cancel
    \/ \E f \in wire : Reply(f)
    \/ \E c \in Calls : DeadlinePasses(c) \/ TimerFires(c)

Spec == Init /\ [][Next]_vars

\* Armed timers fire: time passes, and the driver reports every elapsed timer.
TimersFire ==
    /\ \A c \in Calls : WF_vars(DeadlinePasses(c)) /\ WF_vars(TimerFires(c))
    /\ WF_vars(BackoffFires)

\* Every dial attempt ends: the driver's connect timeout.
DialsEnd == WF_vars(DialOutcome)

FairSpec == Spec /\ TimersFire /\ DialsEnd

-----------------------------------------------------------------------------
(* Properties                                                              *)

\* Every variable has its type.  (queued_bytes is pinned by AdmissionExact.)
TypeOK ==
    /\ state \in States
    /\ stopping \in BOOLEAN
    /\ stable_principal \in BOOLEAN
    /\ generation \in Nat
    /\ attempt \in 0..MaxReconnectAttempts
    /\ pending_dial \in 0..next_dial_token
    /\ next_dial_token \in Nat
    /\ backoff_timer \in BOOLEAN
    /\ last_incarnation \in Incarnations \cup {0}
    /\ next_call_id \in 0..MaxCalls
    /\ DOMAIN ledger \subseteq Calls
    /\ \A c \in DOMAIN ledger : ledger[c] \in Entry
    /\ DOMAIN wire_index \subseteq Nat
    /\ \A w \in DOMAIN wire_index : wire_index[w] \in Calls
    /\ queue \in Seq(Calls)
    /\ replay_hold \in Seq(Calls)
    /\ tombstones \in Seq(Calls)
    /\ in_flight_count \in Nat
    /\ queued_count \in Nat
    /\ next_wire_id \in Nat
    /\ outcome \in [Calls -> Outcomes]
    /\ wire \subseteq Frame

\* No call is settled twice, and none is settled with another call's answer,
\* however late, duplicated or stale the replies are: a fresh connection reuses
\* the wire ids of the one before (take, resolve_reply).
SettledOnceWithItsOwnAnswer ==
    \A c \in Calls : outcome[c] \notin {"twice", "misrouted"}

\* A dispatched call is either settled or still awaited in the ledger: no
\* handler loses a call, whose caller would wait for ever, and none settles a
\* call and keeps it.
NoStrandedCall ==
    \A c \in Calls : (c < next_call_id /\ outcome[c] = "none")
                       <=> (c \in DOMAIN ledger /\ ~ledger[c].cancelled)

\* DefinitelyNot is never claimed for a call that was ever put on a
\* connection, and an Unknown only for one that was.
HonestClassification ==
    \A c \in Calls :
      /\ outcome[c] \in NotExecuted => \A f \in wire : f.call # c
      /\ outcome[c] \in MayHaveExecuted => \E f \in wire : f.call = c

\* A call is put on the wire a second time only on another connection, only if
\* it is keyed and the principal is stable, and only to the daemon incarnation
\* that may already have executed it, whose dedup ledger still knows it.
ReplayOnlyWhereDeduplicated ==
    \A f, g \in wire : f.call = g.call /\ f # g =>
        /\ f.keyed /\ stable_principal
        /\ f.incarnation = g.incarnation
        /\ f.generation # g.generation

\* The throttle counter is exactly the number of sent calls still awaited, and
\* within its limit; it is kept by hand in seven handlers.
InFlightExact ==
    /\ in_flight_count = Cardinality(Sent(ledger) \cap Live(ledger))
    /\ in_flight_count <= InFlight

\* The admission accountant is exact: one count slot per unsent call, the bytes
\* of every unsent call and of every sent one that may be replayed.  A leak
\* would in time refuse every call, a double release admit beyond the bound.
AdmissionExact ==
    /\ queued_count = Cardinality(Queued(ledger))
    /\ queued_bytes = ByteSum(ledger, Queued(ledger) \cup
         {c \in Sent(ledger) : ledger[c].replayable /\ ~ledger[c].cancelled})
    /\ queued_bytes <= OutboundBytes

\* The FIFOs name exactly the ledger entries they stand for, without
\* duplicates: unsent calls, held calls, tombstones; and the wire index routes
\* exactly the sent calls.
TablesAgree ==
    /\ Elements(queue) \cap Elements(replay_hold) = {}
    /\ Elements(queue) \cup Elements(replay_hold) = Queued(ledger)
    /\ Elements(tombstones) = DOMAIN ledger \ Live(ledger)
    /\ \A s \in {queue, replay_hold, tombstones} :
         Len(s) = Cardinality(Elements(s))
    /\ \A c \in Sent(ledger) :
         /\ ledger[c].wire_id \in DOMAIN wire_index
         /\ wire_index[ledger[c].wire_id] = c
         /\ ledger[c].generation = generation
    /\ Cardinality(DOMAIN wire_index) = Cardinality(Sent(ledger))

\* The documented bound of every table, churn of cancels, timeouts and
\* reconnects included (a held call may overshoot queue_depth as a count).
TablesBounded ==
    /\ Len(queue) <= QueueDepth
    /\ Len(replay_hold) <= InFlight
    /\ Len(tombstones) <= InFlight
    /\ Cardinality(DOMAIN ledger) <= QueueDepth + 2 * InFlight

\* A Ready client never leaves a call queued next to a free slot: every handler
\* that frees one flushes.
NoIdleSlot == state = "Ready" /\ queue # <<>> => in_flight_count = InFlight

\* Five tables, two counters and a byte account are kept by hand in a dozen
\* handlers: together they always describe the same set of calls.
TablesExact ==
    NoStrandedCall /\ InFlightExact /\ AdmissionExact /\ TablesAgree
    /\ TablesBounded /\ NoIdleSlot

\* Calls go out in dispatch order on every connection, calls held across a
\* reconnect first: the order survives interrupts, requeues and cancels.
SendOrder ==
    /\ LET unsent == replay_hold \o queue
       IN  \A i, j \in DOMAIN unsent : i < j => unsent[i] < unsent[j]
    /\ \A f, g \in wire : f.generation = g.generation /\ f.wire_id < g.wire_id
                            => f.call < g.call

\* While the client is neither Ready nor finished it has exactly one thing that
\* will move it on, an outstanding dial or an armed backoff, and otherwise none;
\* replay-held calls exist only while a connection is being re-established.
ReconnectDriven ==
    /\ (state \in {"Connecting", "Interrupted"})
          <=> (pending_dial # 0 \/ backoff_timer)
    /\ ~(pending_dial # 0 /\ backoff_timer)
    /\ replay_hold # <<>> => state = "Interrupted"

\* Stop and terminal failure are final: a late outcome of a retired dial, a late
\* loss or timer never revives the client.
StopIsFinal ==
    [][/\ state = "Stopped" => state' = "Stopped"
       /\ state = "Failed" => state' \in {"Failed", "Stopped"}]_vars

\* Every call accepted is answered: with nothing but its timer firing, whatever
\* the daemon, the connection and the reconnect loop do.
EveryCallAnswered ==
    \A c \in Calls : (c \in DOMAIN ledger) ~> (outcome[c] # "none")

\* Every ledger entry is eventually reclaimed, tombstones of a silent daemon
\* included.
EveryEntryReclaimed ==
    \A c \in Calls : (c \in DOMAIN ledger) ~> (c \notin DOMAIN ledger)

\* Both, for every call: no caller and no table waits for ever.
EveryCallEnds == EveryCallAnswered /\ EveryEntryReclaimed

\* A reconnect loop ends: Ready again, or finished.
ReconnectEnds ==
    (state \in {"Connecting", "Interrupted"})
        ~> (state \in {"Ready", "Failed", "Stopped"})
=============================================================================
