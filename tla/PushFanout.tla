------------------------------ MODULE PushFanout ------------------------------
(***************************************************************************)
(* The daemon's push stream of one room, from the canonical history to one *)
(* subscribed connection and the client behind it.                         *)
(*                                                                         *)
(* Two tasks collect what was committed (jeliya-core/src/engine.rs,        *)
(* push_loop): the pump, woken by the node, and the poll, every tick.      *)
(* Each reads the whole tail, ranks it under the lock of the room's        *)
(* session (supervisor.rs, collect_committed) and emits what nobody pushed *)
(* before, one push after the other and outside the lock.  The pushes go   *)
(* through a bounded broadcast channel to the connection (jeliyad/src/     *)
(* serve.rs), which filters them by its subscription and turns a lag into  *)
(* a gap.                                                                  *)
(*                                                                         *)
(* An event is its identity; its position is its rank in tail.  A late     *)
(* concurrent sibling is inserted below the tip.  The client is any that   *)
(* checks what it is sent: it extends its history by the next position     *)
(* only, ignores a repetition, and reads the room again on anything else.  *)
(* A session that lapses (its room was closed and opened again) is         *)
(* replaced by one seeded with the whole tail.  Removal of the local       *)
(* subject, which closes the room after its push, is left out.             *)
(***************************************************************************)
EXTENDS Integers, Sequences, FiniteSets

CONSTANTS
    Tasks,          \* the collectors of the room
    Pump,           \* the one of them that waits to be woken
    ChannelCap,     \* capacity of the broadcast channel
    MaxEvents,      \* bound: events ever committed
    MaxLapses,      \* bound: sessions replaced
    MaxSubscribes   \* bound: subscriptions made

ASSUME PushAssumption ==
    /\ Pump \in Tasks
    /\ ChannelCap \in Nat \ {0}
    /\ {MaxEvents, MaxLapses, MaxSubscribes} \subseteq Nat

VARIABLES
    tail,           \* the canonical history
    woken,          \* a room event nobody has received
    sessions,       \* every session of the room: what it has seen, and its mark
    task,           \* per collector: where it is, and what it holds
    pushed,         \* every event taken for emission, in order
    chan,           \* the broadcast channel, as this connection's receiver sees it
    lagged,         \* it overwrote something this receiver had not read
    sub,            \* the connection's SubscriptionState, or NoSub
    subscribes,     \* subscriptions made
    known,          \* the client's copy of the history
    clean           \* nothing it was sent contradicts that copy

daemonVars == <<tail, woken, sessions, task, pushed>>
connVars   == <<chan, lagged, sub, subscribes>>
clientVars == <<known, clean>>
vars == <<daemonVars, connVars, clientVars>>

Ids(s) == {s[i] : i \in DOMAIN s}

NoSub == [subscribed |-> FALSE]
Idle  == [at |-> "idle"]

Seeded(history) == [seen |-> Ids(history), next_push_rank |-> Len(history)]

Init ==
    /\ tail = <<0>>
    /\ woken = FALSE
    /\ sessions = <<Seeded(tail)>>
    /\ task = [t \in Tasks |-> Idle]
    /\ pushed = <<>>
    /\ chan = <<>> /\ lagged = FALSE
    /\ sub = NoSub /\ subscribes = 0
    /\ known = <<>> /\ clean = FALSE

-----------------------------------------------------------------------------
(* The history grows.                                                      *)

Commit(r) ==
    /\ Len(tail) < MaxEvents
    /\ r \in 1 .. Len(tail)
    /\ tail' = SubSeq(tail, 1, r) \o <<Len(tail)>> \o SubSeq(tail, r + 1, Len(tail))
    /\ woken' = TRUE
    /\ UNCHANGED <<sessions, task, pushed, connVars, clientVars>>

\* close_room, and activate_room again: the new session has seen all there is.
Lapse ==
    /\ Len(sessions) <= MaxLapses
    /\ sessions' = Append(sessions, Seeded(tail))
    /\ woken' = FALSE
    /\ UNCHANGED <<tail, task, pushed, connVars, clientVars>>

-----------------------------------------------------------------------------
(* Collecting (collect_committed).  The position of rows[k] is k - 1.      *)

New(rows, s) == {k \in DOMAIN rows : rows[k] \notin s.seen}

FirstOf(S) == CHOOSE k \in S : \A j \in S : k <= j
LastOf(S)  == CHOOSE k \in S : \A j \in S : k >= j

\* Only the first new event can find the mark above it: after it the mark is at
\* or below the rank of every later one.
Reorders(k, rows, s) == k = FirstOf(New(rows, s)) /\ k - 1 < s.next_push_rank

Collected(rows, s) ==
    {[id |-> rows[k], pos |-> k - 1, gap |-> Reorders(k, rows, s)] : k \in New(rows, s)}

\* The session afterwards: past the last new event, or rewound to it.
Marked(rows, s) ==
    IF New(rows, s) = {} THEN s
    ELSE LET k == LastOf(New(rows, s))
         IN  [seen |-> s.seen \cup Ids(rows),
              next_push_rank |-> IF Reorders(k, rows, s) THEN k - 1 ELSE k]

\* poll_new_events_typed and recv_room_events_typed read the tail first.
ReadTail(t) ==
    /\ task[t].at = "idle"
    /\ t = Pump => woken
    /\ woken' = IF t = Pump THEN FALSE ELSE woken
    /\ task' = [task EXCEPT ![t] = [at |-> "read", rows |-> tail, session |-> Len(sessions)]]
    /\ UNCHANGED <<tail, sessions, pushed, connVars, clientVars>>

\* Mutant of Collect: what is collected is not remembered.
CollectUnmarked(t) ==
    /\ task[t].at = "read"
    /\ LET out == Collected(task[t].rows, sessions[task[t].session])
       IN  task' = [task EXCEPT ![t] = IF out = {} THEN Idle
                                       ELSE [at |-> "emit", out |-> out]]
    /\ UNCHANGED <<tail, woken, sessions, pushed, connVars, clientVars>>

\* Mutant of Collect: the batch stops after its first event.
CollectFirst(t) ==
    /\ task[t].at = "read"
    /\ LET i == task[t].session
           out == Collected(task[t].rows, sessions[i])
       IN  /\ sessions' = [sessions EXCEPT ![i] = Marked(task[t].rows, @)]
           /\ task' = [task EXCEPT ![t] = IF out = {} THEN Idle
                         ELSE [at |-> "emit", out |-> {CHOOSE e \in out : TRUE}]]
    /\ UNCHANGED <<tail, woken, pushed, connVars, clientVars>>

\* Then they rank it, under the lock of the session they started with.
Collect(t) ==
    /\ task[t].at = "read"
    /\ LET i == task[t].session
           out == Collected(task[t].rows, sessions[i])
       IN  /\ sessions' = [sessions EXCEPT ![i] = Marked(task[t].rows, @)]
           /\ task' = [task EXCEPT ![t] = IF out = {} THEN Idle
                                          ELSE [at |-> "emit", out |-> out]]
    /\ UNCHANGED <<tail, woken, pushed, connVars, clientVars>>

-----------------------------------------------------------------------------
(* Emitting (emit_committed).                                              *)

Gap(from) == [type |-> "gap", from |-> from]
Event(id, pos) == [type |-> "event", id |-> id, pos |-> pos]

\* A full channel overwrites its oldest push.
Send(push) ==
    /\ chan' = Append(IF Len(chan) < ChannelCap THEN chan ELSE Tail(chan), push)
    /\ lagged' = (lagged \/ Len(chan) = ChannelCap)

Lowest(out) == CHOOSE e \in out : \A f \in out : e.pos <= f.pos

EmitGap(t) ==
    /\ task[t].at = "emit"
    /\ LET e == Lowest(task[t].out)
       IN  /\ e.gap
           /\ Send(Gap(e.pos))
           /\ task' = [task EXCEPT ![t].out = (@ \ {e}) \cup {[e EXCEPT !.gap = FALSE]}]
    /\ UNCHANGED <<tail, woken, sessions, pushed, sub, subscribes, clientVars>>

EmitEvent(t) ==
    /\ task[t].at = "emit"
    /\ LET e == Lowest(task[t].out)
           left == task[t].out \ {e}
       IN  /\ ~e.gap
           /\ Send(Event(e.id, e.pos))
           /\ pushed' = Append(pushed, e.id)
           /\ task' = [task EXCEPT ![t] = IF left = {} THEN Idle
                                          ELSE [at |-> "emit", out |-> left]]
    /\ UNCHANGED <<tail, woken, sessions, sub, subscribes, clientVars>>

-----------------------------------------------------------------------------
(* The connection and its client.                                          *)

\* What the client makes of a push.
Heard(push) ==
    LET n == Len(known)
    IN  CASE ~clean \/ push.type = "gap" -> known' = known /\ clean' = FALSE
          [] clean /\ push.type = "event" /\ push.pos < n ->
                known' = known /\ clean' = (known[push.pos + 1] = push.id)
          [] clean /\ push.type = "event" /\ push.pos = n /\ push.id \notin Ids(known) ->
                known' = Append(known, push.id) /\ clean' = TRUE
          [] OTHER -> known' = known /\ clean' = FALSE

\* Mutant of Lagging: a lag is skipped over.
LaggingSilently ==
    /\ lagged
    /\ lagged' = FALSE
    /\ UNCHANGED <<daemonVars, chan, sub, subscribes, clientVars>>

\* serve_connection on RecvError::Lagged: a gap from the last position delivered.
Lagging ==
    /\ lagged
    /\ lagged' = FALSE
    /\ IF sub.subscribed
       THEN Heard(Gap(IF sub.last_delivered >= 0 THEN sub.last_delivered ELSE sub.from_pos))
       ELSE UNCHANGED clientVars
    /\ UNCHANGED <<daemonVars, chan, sub, subscribes>>

\* serve_connection on a push.
Deliver ==
    /\ ~lagged /\ chan # <<>>
    /\ chan' = Tail(chan)
    /\ LET push == Head(chan)
       IN  IF ~sub.subscribed THEN UNCHANGED <<sub, clientVars>>
           ELSE /\ Heard(push)
                /\ sub' = IF push.type = "event" THEN [sub EXCEPT !.last_delivered = push.pos]
                                                 ELSE sub
    /\ UNCHANGED <<daemonVars, lagged, subscribes>>

\* handle_stream_subscribe, from the head; the client has yet to read the room.
Subscribe ==
    /\ ~sub.subscribed /\ subscribes < MaxSubscribes
    /\ subscribes' = subscribes + 1
    /\ sub' = [subscribed |-> TRUE, from_pos |-> Len(tail) - 1, last_delivered |-> -1]
    /\ UNCHANGED <<daemonVars, chan, lagged, clientVars>>

Unsubscribe ==
    /\ sub.subscribed
    /\ sub' = NoSub
    /\ known' = <<>> /\ clean' = FALSE
    /\ UNCHANGED <<daemonVars, chan, lagged, subscribes>>

\* The client reads the room (room.timeline, stream.resync).
ReadRoom ==
    /\ sub.subscribed /\ ~clean
    /\ known' = tail /\ clean' = TRUE
    /\ UNCHANGED <<daemonVars, connVars>>

-----------------------------------------------------------------------------

Emit(t) == EmitGap(t) \/ EmitEvent(t)
Step(t) == ReadTail(t) \/ Collect(t) \/ Emit(t)

Next ==
    \/ \E r \in 1 .. MaxEvents : Commit(r)
    \/ Lapse
    \/ \E t \in Tasks : Step(t)
    \/ Lagging
    \/ Deliver
    \/ Subscribe
    \/ Unsubscribe
    \/ ReadRoom

Spec == Init /\ [][Next]_vars

\* The ticker polls the room for ever; a woken pump runs.
FairSpec == Spec /\ \A t \in Tasks : WF_vars(Step(t))

-----------------------------------------------------------------------------
(* Properties.                                                             *)

Pending(t) == IF task[t].at = "emit" THEN {e.id : e \in task[t].out} ELSE {}

\* Whatever the pump and the poll read, and in whatever order they rank and emit
\* it, no event is pushed twice, and none is held by both ("pushed exactly once",
\* supervisor.rs, poll_new_events).
PushedOnce ==
    /\ \A i, j \in DOMAIN pushed : pushed[i] = pushed[j] => i = j
    /\ \A t \in Tasks : Pending(t) \cap Ids(pushed) = {}
    /\ \A t, u \in Tasks : t # u => Pending(t) \cap Pending(u) = {}

Quiescent ==
    /\ \A t \in Tasks : task[t].at # "emit"
    /\ Ids(tail) \subseteq sessions[Len(sessions)].seen
    /\ chan = <<>> /\ ~lagged

\* A subscriber that was sent nothing to contradict its copy has the history
\* once everything was pushed: overtaking, insertions and lag never pass
\* unnoticed ("never silently continued", serve.rs).  A lapsed session is
\* another matter: what it had not pushed is not pushed by its successor.
NoSilentDivergence ==
    sub.subscribed /\ clean /\ Quiescent /\ Len(sessions) = 1 => known = tail

\* Every event that is committed is pushed in the end, if the session lives: what
\* one task has collected and not emitted, and what the pump was not woken for.
EventuallyPushed ==
    <>[](Len(sessions) = 1 => Ids(tail) \ {0} \subseteq Ids(pushed))
=============================================================================
