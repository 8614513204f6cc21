---------------------------- MODULE KernelRuntime ----------------------------
(***************************************************************************)
(* The async shell around the client kernel: Runtime and KernelBackend of  *)
(* kernel/mod.rs, and the same discipline in kernel/runtime.rs.            *)
(*                                                                         *)
(* Any thread may drive an input into the core under the Shared lock.  The *)
(* wakes that result (settlements, events, the close of the bus) run       *)
(* arbitrary wakers, which may drive again, so they leave as a batch that  *)
(* is queued under the lock and delivered outside it by one thread at a    *)
(* time.  The core is abstracted to what it asks of the shell: it settles  *)
(* calls, emits events and, at stop, settles what is open and closes.      *)
(***************************************************************************)
EXTENDS Naturals, Sequences, FiniteSets

CONSTANTS
    Threads,          \* threads that hold a handle or run an adapter's task
    Nobody,           \* the Shared lock is free
    MaxCalls,         \* bound: dispatches of a behaviour
    MaxDrives,        \* bound: inputs of a behaviour
    MaxDepth          \* bound: drives of a thread inside its own wakers

ASSUME NobodyAssumption == Nobody \notin Threads
ASSUME BoundsAssumption == /\ MaxCalls \in Nat
                           /\ MaxDrives \in Nat
                           /\ MaxDepth \in Nat \ {0}

VARIABLES
    lock,             \* the holder of the Shared mutex
    stopped,          \* the core has been stopped
    calls,            \* call ids allocated
    senders,          \* Shared.senders: calls with a live reply sender
    channel,          \* per call, its oneshot as its future sees it
    refused,          \* calls dispatched after the stop
    bus,              \* "open" until the wake CloseBus ran
    driven,           \* every wake the core produced, in drive order
    queue,            \* Runtime.delivery: batches, each an interval of driven
    draining,         \* Runtime.draining
    stack,            \* per thread, the drives it is inside of, outermost first
    delivered,        \* positions of driven, in the order their wakes ran
    finished,         \* threads whose stop future is resolved
    drives            \* inputs driven so far, for the bound

coreVars == <<stopped, calls, senders, refused>>
effectVars == <<channel, bus, finished>>
shellVars == <<queue, draining>>
vars == <<lock, coreVars, effectVars, shellVars, driven, stack, delivered, drives>>

-----------------------------------------------------------------------------
(* Types                                                                   *)

Calls == 1..MaxCalls

\* DeferredWake, and the done sender that ends the batch of a stop.
Settle(c) == [kind |-> "Settle", call |-> c]
Emit == [kind |-> "Emit"]
CloseBus == [kind |-> "CloseBus"]
Done(t) == [kind |-> "done", thread |-> t]
Wakes == {Settle(c) : c \in Calls} \cup {Emit, CloseBus} \cup {Done(t) : t \in Threads}

\* A Deferred batch: what is left of it to deliver.
Batch == [first : Nat \ {0}, last : Nat]

\* A drive in progress.  Its thread holds the lock in "enqueue" and runs wakers
\* in "waking"; the other places are those of drain_delivery.
Places == {"enqueue", "swap", "pop", "deliver", "waking", "clear", "check"}
Frame == [at : Places, batch : Batch]

\* The flag belongs to the frame that is in one of these places.
Drainer == {"pop", "deliver", "waking", "clear"}

-----------------------------------------------------------------------------
(* Helpers                                                                 *)

IsEmpty(batch) == batch.first > batch.last

Top(t) == stack[t][Len(stack[t])]
At(t, place) == stack[t] # <<>> /\ Top(t).at = place

Goto(t, frame) == stack' = [stack EXCEPT ![t][Len(stack[t])] = frame]
Return(t) == stack' = [stack EXCEPT ![t] = SubSeq(@, 1, Len(@) - 1)]

\* A thread outside the kernel calls it, or a waker it runs does.
MayEnter(t) == \/ stack[t] = <<>>
               \/ At(t, "waking") /\ Len(stack[t]) < MaxDepth

-----------------------------------------------------------------------------
(* Driving an input                                                        *)

Init ==
    /\ lock = Nobody
    /\ stopped = FALSE
    /\ calls = 0
    /\ senders = {}
    /\ channel = [c \in Calls |-> "none"]
    /\ refused = {}
    /\ bus = "open"
    /\ driven = <<>>
    /\ queue = <<>>
    /\ draining = FALSE
    /\ stack = [t \in Threads |-> <<>>]
    /\ delivered = <<>>
    /\ finished = {}
    /\ drives = 0

\* Mutant of Drive: the lock is dropped before the batch is queued.
DriveUnlocked(t, wakes) ==
    /\ MayEnter(t) /\ lock = Nobody /\ drives < MaxDrives
    /\ lock' = Nobody
    /\ drives' = drives + 1
    /\ driven' = driven \o wakes
    /\ stack' = [stack EXCEPT ![t] = Append(@, [at |-> "enqueue",
         batch |-> [first |-> Len(driven) + 1, last |-> Len(driven) + Len(wakes)]])]
    /\ UNCHANGED <<shellVars, delivered>>

\* Shared::drive under the lock: the core steps, and its wakes become a batch.
Drive(t, wakes) ==
    /\ MayEnter(t) /\ lock = Nobody /\ drives < MaxDrives
    /\ lock' = t
    /\ drives' = drives + 1
    /\ driven' = driven \o wakes
    /\ stack' = [stack EXCEPT ![t] = Append(@, [at |-> "enqueue",
         batch |-> [first |-> Len(driven) + 1, last |-> Len(driven) + Len(wakes)]])]
    /\ UNCHANGED <<shellVars, delivered>>

\* dispatch: the sender is in the map before the core steps, so that a refusal
\* settles into a live channel.
Dispatch(t) ==
    /\ calls < MaxCalls
    /\ calls' = calls + 1
    /\ channel' = [channel EXCEPT ![calls'] = "empty"]
    /\ refused' = IF stopped THEN refused \cup {calls'} ELSE refused
    /\ \/ Drive(t, <<Settle(calls')>>) /\ UNCHANGED senders
       \/ ~stopped /\ Drive(t, <<>>) /\ senders' = senders \cup {calls'}
    /\ UNCHANGED <<stopped, bus, finished>>

\* The settlements of the calls of S that still have a sender, by id.
Settlements(S) ==
    LET open == S \cap senders
    IN  {[i \in DOMAIN order |-> Settle(order[i])] :
           order \in {o \in [1..Cardinality(open) -> open] :
                        \A i, j \in DOMAIN o : i < j => o[i] < o[j]}}

\* Mutant of React: the sender of a settled call stays in the map.
ReactAndKeep(t, events, S) ==
    /\ stopped => events = <<>>
    /\ \E settled \in Settlements(S) : Drive(t, events \o settled)
    /\ UNCHANGED <<coreVars, effectVars>>

\* Any other input: its step may emit (a transition of the lifecycle, a push) and
\* settle calls (a reply, a deadline, an interruption).  apply_one takes a call's
\* sender out of the map, so a second settlement finds none.
React(t, events, S) ==
    /\ stopped => events = <<>>
    /\ \E settled \in Settlements(S) : Drive(t, events \o settled)
    /\ senders' = senders \ S
    /\ UNCHANGED <<stopped, calls, refused, effectVars>>

\* on_stop's wakes: Stopping, the open calls by id, Stopped, the close of the bus.
StopWakes ==
    IF stopped THEN {<<>>}
    ELSE {<<Emit>> \o settled \o <<Emit, CloseBus>> : settled \in Settlements(Calls)}

\* Mutant of Stop: its future resolves when the stop is queued, not delivered.
StopWithoutDone(t) ==
    /\ \A i \in DOMAIN driven : driven[i] # Done(t)
    /\ \E wakes \in StopWakes : Drive(t, wakes)
    /\ stopped' = TRUE
    /\ senders' = {}
    /\ finished' = finished \cup {t}
    /\ UNCHANGED <<calls, refused, channel, bus>>

\* stop: the done sender goes at the end of the stop's own batch, or in a batch
\* of its own when the core was stopped before.  A thread stops once (bound).
Stop(t) ==
    /\ \A i \in DOMAIN driven : driven[i] # Done(t)
    /\ \E wakes \in StopWakes : Drive(t, Append(wakes, Done(t)))
    /\ stopped' = TRUE
    /\ senders' = {}
    /\ UNCHANGED <<calls, refused, effectVars>>

\* A DispatchFuture is dropped unresolved: Cancel makes the core forget the
\* sender of a call it still knows.
Drop(t, c) ==
    /\ channel[c] \in {"empty", "full"}
    /\ Drive(t, <<>>)
    /\ channel' = [channel EXCEPT ![c] = "gone"]
    /\ senders' = senders \ {c}
    /\ UNCHANGED <<stopped, calls, refused, bus, finished>>

\* Poll: the future takes its result and disarms its drop.
Take(c) ==
    /\ channel[c] = "full"
    /\ channel' = [channel EXCEPT ![c] = "taken"]
    /\ UNCHANGED <<lock, coreVars, bus, finished, shellVars, driven, stack, delivered,
                   drives>>

-----------------------------------------------------------------------------
(* enqueue and drain_delivery                                              *)

\* Only a batch with work is queued.  The Shared lock is released.
Enqueue(t) ==
    /\ At(t, "enqueue")
    /\ queue' = IF IsEmpty(Top(t).batch) THEN queue ELSE Append(queue, Top(t).batch)
    /\ lock' = Nobody
    /\ Goto(t, [Top(t) EXCEPT !.at = "swap"])
    /\ UNCHANGED <<coreVars, effectVars, draining, driven, delivered, drives>>

\* draining.swap(true): somebody else, or this thread further out, drains.
Swap(t) ==
    /\ At(t, "swap")
    /\ draining' = TRUE
    /\ IF draining THEN Return(t) ELSE Goto(t, [Top(t) EXCEPT !.at = "pop"])
    /\ UNCHANGED <<lock, coreVars, effectVars, queue, driven, delivered, drives>>

Pop(t) ==
    /\ At(t, "pop")
    /\ IF queue = <<>>
       THEN Goto(t, [Top(t) EXCEPT !.at = "clear"]) /\ UNCHANGED queue
       ELSE Goto(t, [at |-> "deliver", batch |-> Head(queue)]) /\ queue' = Tail(queue)
    /\ UNCHANGED <<lock, coreVars, effectVars, draining, driven, delivered, drives>>

\* What a wake does: a settlement reaches a future that is still held.
Apply(wake) ==
    /\ channel' = IF wake.kind = "Settle" /\ channel[wake.call] = "empty"
                  THEN [channel EXCEPT ![wake.call] = "full"] ELSE channel
    /\ bus' = IF wake.kind = "CloseBus" THEN "closed" ELSE bus
    /\ finished' = IF wake.kind = "done" THEN finished \cup {wake.thread} ELSE finished

\* Deferred::deliver, one wake: its effect, and then the wakers it invokes.
Deliver(t) ==
    LET batch == Top(t).batch IN
    /\ At(t, "deliver")
    /\ IF IsEmpty(batch)
       THEN /\ Goto(t, [Top(t) EXCEPT !.at = "pop"])
            /\ UNCHANGED <<effectVars, delivered>>
       ELSE /\ Apply(driven[batch.first])
            /\ delivered' = Append(delivered, batch.first)
            /\ Goto(t, [at |-> "waking",
                        batch |-> [batch EXCEPT !.first = batch.first + 1]])
    /\ UNCHANGED <<lock, coreVars, shellVars, driven, drives>>

\* The wakers return.
Woken(t) ==
    /\ At(t, "waking")
    /\ Goto(t, [Top(t) EXCEPT !.at = "deliver"])
    /\ UNCHANGED <<lock, coreVars, effectVars, shellVars, driven, delivered, drives>>

\* Mutant of Clear: the drainer leaves without a second look at the queue.
ClearAndLeave(t) ==
    /\ At(t, "clear")
    /\ draining' = FALSE
    /\ Return(t)
    /\ UNCHANGED <<lock, coreVars, effectVars, queue, driven, delivered, drives>>

\* draining.store(false)
Clear(t) ==
    /\ At(t, "clear")
    /\ draining' = FALSE
    /\ Goto(t, [Top(t) EXCEPT !.at = "check"])
    /\ UNCHANGED <<lock, coreVars, effectVars, queue, driven, delivered, drives>>

\* A batch may have come after the last pop, from a thread that saw the flag up.
Check(t) ==
    /\ At(t, "check")
    /\ IF queue = <<>> THEN Return(t) ELSE Goto(t, [Top(t) EXCEPT !.at = "swap"])
    /\ UNCHANGED <<lock, coreVars, effectVars, shellVars, driven, delivered, drives>>

-----------------------------------------------------------------------------
(* Specification                                                           *)

Input(t) ==
    \/ Dispatch(t)
    \/ Stop(t)
    \/ \E events \in {<<>>, <<Emit>>}, S \in SUBSET Calls : React(t, events, S)
    \/ \E c \in Calls : Drop(t, c)

\* A thread goes on with the drive it is in.
Step(t) ==
    \/ Enqueue(t)
    \/ Swap(t)
    \/ Pop(t)
    \/ Deliver(t)
    \/ Woken(t)
    \/ Clear(t)
    \/ Check(t)

Next ==
    \/ \E t \in Threads : Input(t) \/ Step(t)
    \/ \E c \in Calls : Take(c)

Spec == Init /\ [][Next]_vars

\* A thread inside the kernel is scheduled, and wakers return: they must not
\* block, as the doc of Runtime says.
FairSpec == Spec /\ \A t \in Threads : WF_vars(Step(t))

-----------------------------------------------------------------------------
(* Properties                                                              *)

\* The wakes of all drives, of every thread and of wakers that drive again, run
\* in drive order, each once: no thread inverts another's effects.
DeliveredInDriveOrder ==
    \A i \in DOMAIN delivered : delivered[i] = i

\* A queued batch always has somebody who will still look for it, although every
\* thread that finds the flag up leaves at once.
NothingStranded ==
    queue # <<>> =>
      \E t \in Threads : \E i \in DOMAIN stack[t] :
        stack[t][i].at \in Drainer \cup {"swap", "check"}

Pending(c) ==
    {i \in DOMAIN driven : driven[i] = Settle(c) /\ i > Len(delivered)}

\* A caller that waits has exactly one answer to come: its sender is in the map,
\* or its one settlement is on its way.  Nobody else has any.
OneAnswerToCome ==
    \A c \in Calls :
      /\ channel[c] = "empty" <=> (c \in senders \/ Pending(c) # {}) /\ channel[c] # "gone"
      /\ c \in senders => Pending(c) = {}
      /\ \A i, j \in DOMAIN driven :
           driven[i] = Settle(c) /\ driven[j] = Settle(c) => i = j

\* A stop future resolves only after every call dispatched before the stop has
\* its result and the bus is closed, even when another thread was draining and
\* even for a second stop.
StopIsTotal ==
    finished # {} =>
      /\ bus = "closed"
      /\ \A c \in (1..calls) \ refused : channel[c] # "empty"

\* Every wake the core asked for runs in the end.
EveryWakeRuns ==
    \A n \in 1..(MaxDrives * (MaxCalls + 4)) :
      Len(driven) >= n ~> Len(delivered) >= n
=============================================================================
