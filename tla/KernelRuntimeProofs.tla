------------------------- MODULE KernelRuntimeProofs -------------------------
(***************************************************************************)
(* Theorems about KernelRuntime: for any number of threads, calls, drives  *)
(* and any depth of re-entry, wakes run in drive order, no batch is left   *)
(* without a thread that will look for it, a caller that waits has exactly *)
(* one answer to come, and a stop future resolves after everything the     *)
(* stop owes.                                                              *)
(***************************************************************************)
EXTENDS KernelRuntime, FiniteSetTheorems, SequenceTheorems, WellFoundedInduction, TLAPS

-----------------------------------------------------------------------------
(* The inductive invariant                                                 *)

\* The types of the delivery queue and of what feeds it.
ShellTypes ==
    /\ lock \in Threads \cup {Nobody}
    /\ driven \in Seq(Wakes)
    /\ queue \in Seq(Batch)
    /\ draining \in BOOLEAN
    /\ stack \in [Threads -> Seq(Frame)]
    /\ delivered \in Seq(Nat)
    /\ calls \in 0..MaxCalls

\* Frame i of thread t is in one of the places.
In(t, i, places) == stack[t][i].at \in places

\* The lock is held by the thread of the one frame that has a batch to queue.
LockHeld ==
    \A t \in Threads : \A i \in DOMAIN stack[t] :
      In(t, i, {"enqueue"}) => lock = t /\ i = Len(stack[t])

\* The flag is up exactly while one frame drains.
FlagHeld ==
    /\ draining => \E t \in Threads : \E i \in DOMAIN stack[t] : In(t, i, Drainer)
    /\ \A t \in Threads : \A i \in DOMAIN stack[t] : In(t, i, Drainer) =>
         /\ draining
         /\ \A u \in Threads : \A j \in DOMAIN stack[u] :
              In(u, j, Drainer) => u = t /\ j = i

\* The queue holds the wakes after position from, up to position to.
Chain(from, to) ==
    /\ queue = <<>> => from = to
    /\ queue # <<>> => queue[1].first = from + 1 /\ queue[Len(queue)].last = to
    /\ \A i \in DOMAIN queue : queue[i].first <= queue[i].last
    /\ \A i \in DOMAIN queue : i + 1 \in DOMAIN queue =>
         queue[i + 1].first = queue[i].last + 1

\* The drainer holds the wakes up to position from that are not delivered.
DrainerAt(from) ==
    /\ \A t \in Threads : \A i \in DOMAIN stack[t] : In(t, i, {"deliver", "waking"}) =>
         /\ stack[t][i].batch.first = Len(delivered) + 1
         /\ stack[t][i].batch.last = from
         /\ Len(delivered) <= from
    /\ (\A t \in Threads : \A i \in DOMAIN stack[t] : ~In(t, i, {"deliver", "waking"}))
         => from = Len(delivered)

\* The holder of the lock has the wakes after position to.
EnqueuerAt(to) ==
    /\ \A t \in Threads : \A i \in DOMAIN stack[t] : In(t, i, {"enqueue"}) =>
         /\ stack[t][i].batch.first = to + 1
         /\ stack[t][i].batch.last = Len(driven)
         /\ to <= Len(driven)
    /\ (\A t \in Threads : \A i \in DOMAIN stack[t] : ~In(t, i, {"enqueue"}))
         => to = Len(driven)

\* What was delivered, what the drainer holds, what is queued and what waits to be
\* queued are driven, in that order and without a gap.
BatchesInOrder ==
    \E from, to \in Nat : Chain(from, to) /\ DrainerAt(from) /\ EnqueuerAt(to)

DeliveryInv ==
    /\ ShellTypes
    /\ LockHeld
    /\ FlagHeld
    /\ BatchesInOrder
    /\ DeliveredInDriveOrder
    /\ NothingStranded

-----------------------------------------------------------------------------
(* What the moves of a thread do to the stacks                             *)

LEMMA TopFacts ==
    ASSUME ShellTypes, NEW t \in Threads, stack[t] # <<>>
    PROVE  /\ Len(stack[t]) \in DOMAIN stack[t]
           /\ Len(stack[t]) \in Nat \ {0}
           /\ DOMAIN stack[t] = 1..Len(stack[t])
           /\ Top(t) = stack[t][Len(stack[t])]
           /\ Top(t) \in Frame
           /\ Top(t).batch \in Batch
           /\ Top(t).batch.first \in Nat \ {0}
           /\ Top(t).batch.last \in Nat
<1>1. stack[t] \in Seq(Frame)
  BY DEF ShellTypes
<1>2. Len(stack[t]) \in Nat \ {0} /\ DOMAIN stack[t] = 1..Len(stack[t])
  BY <1>1
<1>3. stack[t][Len(stack[t])] \in Frame
  BY <1>1, <1>2
<1>4. Top(t) \in Frame
  BY <1>3 DEF Top
<1>5. Top(t).batch \in Batch
  BY <1>4 DEF Frame
<1> QED BY <1>2, <1>4, <1>5 DEF Top, Batch

LEMMA GotoFacts ==
    ASSUME ShellTypes, NEW t \in Threads, stack[t] # <<>>, NEW frame \in Frame,
           Goto(t, frame)
    PROVE  /\ stack' \in [Threads -> Seq(Frame)]
           /\ \A u \in Threads : /\ DOMAIN stack'[u] = DOMAIN stack[u]
                                 /\ Len(stack'[u]) = Len(stack[u])
           /\ stack'[t][Len(stack[t])] = frame
           /\ \A u \in Threads : \A i \in DOMAIN stack[u] :
                u # t \/ i # Len(stack[t]) => stack'[u][i] = stack[u][i]
<1> DEFINE new == [stack[t] EXCEPT ![Len(stack[t])] = frame]
<1>1. stack \in [Threads -> Seq(Frame)] /\ stack[t] \in Seq(Frame)
  BY DEF ShellTypes
<1>2. stack' = [stack EXCEPT ![t] = new]
  BY DEF Goto
<1>3. /\ new \in Seq(Frame) /\ Len(new) = Len(stack[t])
      /\ DOMAIN new = DOMAIN stack[t]
      /\ \A i \in DOMAIN stack[t] : i # Len(stack[t]) => new[i] = stack[t][i]
      /\ new[Len(stack[t])] = frame
  BY <1>1
<1> HIDE DEF new
<1> QED BY <1>1, <1>2, <1>3

LEMMA ReturnFacts ==
    ASSUME ShellTypes, NEW t \in Threads, stack[t] # <<>>, Return(t)
    PROVE  /\ stack' \in [Threads -> Seq(Frame)]
           /\ DOMAIN stack'[t] = DOMAIN stack[t] \ {Len(stack[t])}
           /\ \A u \in Threads : u # t => stack'[u] = stack[u]
           /\ \A i \in DOMAIN stack'[t] : stack'[t][i] = stack[t][i]
<1> DEFINE new == SubSeq(stack[t], 1, Len(stack[t]) - 1)
<1>1. stack \in [Threads -> Seq(Frame)] /\ stack[t] \in Seq(Frame)
  BY DEF ShellTypes
<1>2. stack' = [stack EXCEPT ![t] = new]
  BY DEF Return
<1>3. /\ new \in Seq(Frame) /\ DOMAIN new = DOMAIN stack[t] \ {Len(stack[t])}
      /\ \A i \in DOMAIN new : new[i] = stack[t][i]
  BY <1>1
<1> HIDE DEF new
<1> QED BY <1>1, <1>2, <1>3

LEMMA EnterFacts ==
    ASSUME ShellTypes, NEW t \in Threads, NEW frame \in Frame,
           stack' = [stack EXCEPT ![t] = Append(@, frame)]
    PROVE  /\ stack' \in [Threads -> Seq(Frame)]
           /\ Len(stack'[t]) = Len(stack[t]) + 1
           /\ DOMAIN stack'[t] = DOMAIN stack[t] \cup {Len(stack[t]) + 1}
           /\ stack'[t][Len(stack[t]) + 1] = frame
           /\ \A u \in Threads : u # t => stack'[u] = stack[u]
           /\ \A i \in DOMAIN stack[t] : stack'[t][i] = stack[t][i]
           /\ Len(stack[t]) + 1 \notin DOMAIN stack[t]
<1> DEFINE new == Append(stack[t], frame)
<1>1. stack \in [Threads -> Seq(Frame)] /\ stack[t] \in Seq(Frame)
  BY DEF ShellTypes
<1>2. stack' = [stack EXCEPT ![t] = new]
  OBVIOUS
<1>3. /\ new \in Seq(Frame) /\ Len(new) = Len(stack[t]) + 1
      /\ DOMAIN new = DOMAIN stack[t] \cup {Len(stack[t]) + 1}
      /\ \A i \in DOMAIN stack[t] : new[i] = stack[t][i]
      /\ new[Len(stack[t]) + 1] = frame
      /\ Len(stack[t]) + 1 \notin DOMAIN stack[t]
  BY <1>1
<1> HIDE DEF new
<1> QED BY <1>1, <1>2, <1>3

-----------------------------------------------------------------------------
(* Every action preserves the invariant                                    *)

LEMMA DrivePreserves ==
    ASSUME DeliveryInv, NEW t \in Threads, NEW wakes \in Seq(Wakes),
           Drive(t, wakes), calls' \in 0..MaxCalls
    PROVE  DeliveryInv'
<1> USE DEF DeliveryInv
<1> DEFINE batch == [first |-> Len(driven) + 1, last |-> Len(driven) + Len(wakes)]
           frame == [at |-> "enqueue", batch |-> batch]
           n == Len(stack[t]) + 1
<1>u. /\ UNCHANGED <<queue, draining, delivered>>
      /\ lock = Nobody /\ lock' = t
      /\ stack' = [stack EXCEPT ![t] = Append(@, frame)]
      /\ driven' = driven \o wakes
  BY DEF Drive, shellVars
<1>t. ShellTypes
  OBVIOUS
<1>d. /\ driven' \in Seq(Wakes)
      /\ Len(driven') = Len(driven) + Len(wakes)
      /\ Len(driven) \in Nat /\ Len(wakes) \in Nat
  BY <1>u, <1>t DEF ShellTypes
<1>f. /\ frame \in Frame
      /\ frame.at = "enqueue"
      /\ frame.batch.first = Len(driven) + 1
      /\ frame.batch.last = Len(driven')
  BY <1>d DEF Frame, Batch, Places
<1> HIDE DEF frame
<1>s. /\ stack' \in [Threads -> Seq(Frame)]
      /\ Len(stack'[t]) = n
      /\ DOMAIN stack'[t] = DOMAIN stack[t] \cup {n}
      /\ stack'[t][n] = frame
      /\ \A u \in Threads : u # t => stack'[u] = stack[u]
      /\ \A i \in DOMAIN stack[t] : stack'[t][i] = stack[t][i]
      /\ n \notin DOMAIN stack[t]
  BY <1>u, <1>t, <1>f, EnterFacts
<1> HIDE DEF n
<1>n. \A u \in Threads : \A i \in DOMAIN stack[u] : ~In(u, i, {"enqueue"})
  BY <1>u, NobodyAssumption DEF LockHeld
<1>m. /\ \A u \in Threads : \A i \in DOMAIN stack[u] :
           i \in DOMAIN stack'[u] /\ stack'[u][i] = stack[u][i]
      /\ \A u \in Threads : \A i \in DOMAIN stack'[u] :
           \/ i \in DOMAIN stack[u] /\ stack'[u][i] = stack[u][i]
           \/ u = t /\ i = n /\ stack'[u][i] = frame
  BY <1>s
<1>1. ShellTypes'
  BY <1>t, <1>u, <1>d, <1>s DEF ShellTypes
<1>2. LockHeld'
  BY <1>u, <1>s, <1>m, <1>n DEF LockHeld, In
<1>3. FlagHeld'
  <2>1. \A u \in Threads : \A i \in DOMAIN stack'[u] :
          In(u, i, Drainer)' => i \in DOMAIN stack[u] /\ In(u, i, Drainer)
    BY <1>m, <1>f DEF In, Drainer
  <2>2. \A u \in Threads : \A i \in DOMAIN stack[u] :
          In(u, i, Drainer) => i \in DOMAIN stack'[u] /\ In(u, i, Drainer)'
    BY <1>m DEF In
  <2> QED BY <1>u, <2>1, <2>2 DEF FlagHeld
<1>4. BatchesInOrder'
  <2>1. PICK from, to \in Nat : Chain(from, to) /\ DrainerAt(from) /\ EnqueuerAt(to)
    BY DEF BatchesInOrder
  <2>2. to = Len(driven)
    BY <2>1, <1>n DEF EnqueuerAt
  <2>3. Chain(from, to)'
    BY <2>1, <1>u DEF Chain
  <2>4. DrainerAt(from)'
    BY <2>1, <1>u, <1>m, <1>f DEF DrainerAt, In
  <2>5. EnqueuerAt(to)'
    <3>1. \A u \in Threads : \A i \in DOMAIN stack'[u] :
            In(u, i, {"enqueue"})' => stack'[u][i] = frame
      BY <1>m, <1>n DEF In
    <3>2. stack'[t][n].at = "enqueue" /\ n \in DOMAIN stack'[t]
      BY <1>s, <1>f
    <3> QED BY <2>2, <3>1, <3>2, <1>d, <1>f DEF EnqueuerAt, In
  <2> QED BY <2>3, <2>4, <2>5 DEF BatchesInOrder
<1>5. DeliveredInDriveOrder'
  BY <1>u DEF DeliveredInDriveOrder
<1>6. NothingStranded'
  BY <1>u, <1>m DEF NothingStranded
<1> QED BY <1>1, <1>2, <1>3, <1>4, <1>5, <1>6

\* The top frame of thread t, at depth n, becomes frame; every other stays.
Moved(t, n, frame) ==
    /\ n \in DOMAIN stack[t] /\ n = Len(stack[t])
    /\ stack[t][n] = Top(t)
    /\ stack' \in [Threads -> Seq(Frame)]
    /\ stack'[t][n] = frame
    /\ \A u \in Threads : DOMAIN stack'[u] = DOMAIN stack[u] /\ Len(stack'[u]) = Len(stack[u])
    /\ \A u \in Threads : \A i \in DOMAIN stack[u] :
         u # t \/ i # n => stack'[u][i] = stack[u][i]

\* The top frame of thread t, at depth n, is gone.
Returned(t, n) ==
    /\ n \in DOMAIN stack[t] /\ n = Len(stack[t])
    /\ stack[t][n] = Top(t)
    /\ stack' \in [Threads -> Seq(Frame)]
    /\ \A u \in Threads : \A i \in DOMAIN stack'[u] :
         i \in DOMAIN stack[u] /\ stack'[u][i] = stack[u][i] /\ (u # t \/ i # n)
    /\ \A u \in Threads : \A i \in DOMAIN stack[u] :
         u # t \/ i # n => i \in DOMAIN stack'[u]
    /\ \A u \in Threads : u # t => stack'[u] = stack[u]

LEMMA GotoMoves ==
    ASSUME ShellTypes, NEW t \in Threads, stack[t] # <<>>, NEW frame \in Frame,
           Goto(t, frame)
    PROVE  \E n \in Nat : Moved(t, n, frame)
<1>1. Moved(t, Len(stack[t]), frame)
  BY TopFacts, GotoFacts DEF Moved
<1> QED BY <1>1, TopFacts

LEMMA ReturnReturns ==
    ASSUME ShellTypes, NEW t \in Threads, stack[t] # <<>>, Return(t)
    PROVE  \E n \in Nat : Returned(t, n)
<1>1. Returned(t, Len(stack[t]))
  BY TopFacts, ReturnFacts DEF Returned
<1> QED BY <1>1, TopFacts

LEMMA EnqueuePreserves ==
    ASSUME DeliveryInv, NEW t \in Threads, Enqueue(t)
    PROVE  DeliveryInv'
<1> USE DEF DeliveryInv
<1> DEFINE frame == [Top(t) EXCEPT !.at = "swap"]
           batch == Top(t).batch
<1>u. /\ UNCHANGED <<calls, draining, driven, delivered>>
      /\ stack[t] # <<>> /\ Top(t).at = "enqueue"
      /\ queue' = IF IsEmpty(batch) THEN queue ELSE Append(queue, batch)
      /\ lock' = Nobody
      /\ Goto(t, frame)
  BY DEF Enqueue, At, coreVars
<1>t. /\ ShellTypes
      /\ Top(t) \in Frame /\ batch \in Batch
      /\ batch.first \in Nat \ {0} /\ batch.last \in Nat
      /\ queue \in Seq(Batch)
      /\ Len(driven) \in Nat
  BY <1>u, TopFacts DEF ShellTypes
<1>f. frame \in Frame /\ frame.at = "swap"
  BY <1>t DEF Frame, Places
<1> HIDE DEF frame
<1>m. PICK n \in Nat : Moved(t, n, frame)
  BY <1>u, <1>t, <1>f, GotoMoves
<1>h. /\ \A u \in Threads : \A i \in DOMAIN stack[u] :
           In(u, i, {"enqueue"}) => u = t /\ i = n
      /\ \A u \in Threads : \A i \in DOMAIN stack'[u] : ~In(u, i, {"enqueue"})'
  <2>1. \A u \in Threads : \A i \in DOMAIN stack[u] :
          stack[u][i].at = "enqueue" => u = t /\ i = n
    BY <1>u, <1>m DEF LockHeld, In, Moved
  <2> QED BY <2>1, <1>m, <1>f DEF In, Moved
<1>p. \A u \in Threads : \A i \in DOMAIN stack[u] :
        stack[u][i].at # "enqueue" => stack'[u][i] = stack[u][i]
  BY <1>u, <1>m DEF Moved
<1>1. ShellTypes'
  <2>1. queue' \in Seq(Batch)
    BY <1>u, <1>t
  <2> QED BY <2>1, <1>t, <1>u, <1>m DEF ShellTypes, Moved
<1>2. LockHeld'
  BY <1>h DEF LockHeld
<1>3. FlagHeld'
  <2>1. \A u \in Threads : \A i \in DOMAIN stack[u] :
          i \in DOMAIN stack'[u] /\ (stack'[u][i].at \in Drainer <=> stack[u][i].at \in Drainer)
    BY <1>m, <1>f, <1>u, <1>p DEF Moved, Drainer
  <2>2. \A u \in Threads : DOMAIN stack'[u] = DOMAIN stack[u]
    BY <1>m DEF Moved
  <2> QED BY <1>u, <2>1, <2>2 DEF FlagHeld, In
<1>4. BatchesInOrder'
  <2>1. PICK from, to \in Nat : Chain(from, to) /\ DrainerAt(from) /\ EnqueuerAt(to)
    BY DEF BatchesInOrder
  <2>2. batch.first = to + 1 /\ batch.last = Len(driven) /\ to <= Len(driven)
    BY <2>1, <1>m, <1>u DEF EnqueuerAt, In, Moved
  <2>3. Chain(from, Len(driven))'
    <3>1. CASE IsEmpty(batch)
      <4>1. to = Len(driven) /\ queue' = queue
        BY <3>1, <2>2, <1>t, <1>u DEF IsEmpty
      <4> QED BY <4>1, <2>1, <1>u DEF Chain
    <3>2. CASE ~IsEmpty(batch)
      <4>1. /\ queue' = Append(queue, batch)
            /\ batch.first <= batch.last
        BY <3>2, <1>t, <1>u DEF IsEmpty
      <4>2. /\ Len(queue') = Len(queue) + 1 /\ Len(queue) \in Nat
            /\ DOMAIN queue = 1..Len(queue) /\ DOMAIN queue' = 1..(Len(queue) + 1)
            /\ \A i \in DOMAIN queue : queue'[i] = queue[i]
            /\ queue'[Len(queue) + 1] = batch
            /\ queue' # <<>>
            /\ queue = <<>> <=> Len(queue) = 0
        BY <4>1, <1>t
      <4>3. queue'[1].first = from + 1
        BY <4>2, <2>1, <2>2 DEF Chain
      <4>4. queue'[Len(queue')].last = Len(driven)
        BY <4>2, <2>2
      <4>5. \A i \in DOMAIN queue' : queue'[i].first <= queue'[i].last
        BY <4>1, <4>2, <2>1 DEF Chain
      <4>6. \A i \in DOMAIN queue' : i + 1 \in DOMAIN queue' =>
              queue'[i + 1].first = queue'[i].last + 1
        BY <4>2, <2>1, <2>2 DEF Chain
      <4> QED BY <4>2, <4>3, <4>4, <4>5, <4>6, <1>u DEF Chain
    <3> QED BY <3>1, <3>2
  <2>4. DrainerAt(from)'
    <3>1. \A u \in Threads : \A i \in DOMAIN stack[u] :
            /\ i \in DOMAIN stack'[u]
            /\ stack'[u][i].at \in {"deliver", "waking"}
                 <=> stack[u][i].at \in {"deliver", "waking"}
            /\ stack[u][i].at \in {"deliver", "waking"} => stack'[u][i] = stack[u][i]
      BY <1>m, <1>f, <1>u, <1>p DEF Moved
    <3>2. \A u \in Threads : DOMAIN stack'[u] = DOMAIN stack[u]
      BY <1>m DEF Moved
    <3> QED BY <2>1, <1>u, <3>1, <3>2 DEF DrainerAt, In
  <2>5. EnqueuerAt(Len(driven))'
    BY <1>h, <1>u DEF EnqueuerAt
  <2>6. Len(driven) \in Nat /\ Len(driven)' = Len(driven)
    BY <1>t, <1>u
  <2> QED BY <2>3, <2>4, <2>5, <2>6 DEF BatchesInOrder
<1>5. DeliveredInDriveOrder'
  BY <1>u DEF DeliveredInDriveOrder
<1>6. NothingStranded'
  BY <1>m, <1>f DEF NothingStranded, Moved
<1> QED BY <1>1, <1>2, <1>3, <1>4, <1>5, <1>6
\* A move that starts or ends outside "enqueue" leaves the holder of the lock alone.
LEMMA MoveKeepsLock ==
    ASSUME LockHeld, NEW t \in Threads, NEW n \in Nat, NEW frame, Moved(t, n, frame),
           Top(t).at # "enqueue", frame.at # "enqueue",
           UNCHANGED <<lock, driven>>
    PROVE  LockHeld' /\ \A to \in Nat : EnqueuerAt(to) => EnqueuerAt(to)'
<1>1. \A u \in Threads : \A i \in DOMAIN stack[u] :
        /\ i \in DOMAIN stack'[u]
        /\ stack'[u][i].at = "enqueue" <=> stack[u][i].at = "enqueue"
        /\ stack[u][i].at = "enqueue" => stack'[u][i] = stack[u][i]
  BY DEF Moved
<1>2. \A u \in Threads : DOMAIN stack'[u] = DOMAIN stack[u] /\ Len(stack'[u]) = Len(stack[u])
  BY DEF Moved
<1>3. LockHeld'
  BY <1>1, <1>2 DEF LockHeld, In
<1>4. ASSUME NEW to \in Nat, EnqueuerAt(to) PROVE EnqueuerAt(to)'
  BY <1>1, <1>2, <1>4 DEF EnqueuerAt, In
<1> QED BY <1>3, <1>4

LEMMA ReturnKeepsLock ==
    ASSUME LockHeld, NEW t \in Threads, NEW n \in Nat, Returned(t, n),
           Top(t).at # "enqueue", UNCHANGED <<lock, driven>>
    PROVE  LockHeld' /\ \A to \in Nat : EnqueuerAt(to) => EnqueuerAt(to)'
<1>1. /\ \A u \in Threads : \A i \in DOMAIN stack'[u] :
           i \in DOMAIN stack[u] /\ stack'[u][i] = stack[u][i]
      /\ \A u \in Threads : \A i \in DOMAIN stack[u] :
           stack[u][i].at = "enqueue" => i \in DOMAIN stack'[u]
  BY DEF Returned
<1>2. LockHeld'
  <2>1. \A u \in Threads : \A i \in DOMAIN stack'[u] : stack'[u][i].at = "enqueue" =>
          lock = u /\ i = Len(stack[u]) /\ u # t
    BY <1>1 DEF LockHeld, In, Returned
  <2>2. \A u \in Threads : u # t => stack'[u] = stack[u]
    BY DEF Returned
  <2> QED BY <2>1, <2>2 DEF LockHeld, In
<1>3. ASSUME NEW to \in Nat, EnqueuerAt(to) PROVE EnqueuerAt(to)'
  BY <1>1, <1>3 DEF EnqueuerAt, In
<1> QED BY <1>2, <1>3

LEMMA SwapPreserves ==
    ASSUME DeliveryInv, NEW t \in Threads, Swap(t)
    PROVE  DeliveryInv'
<1> USE DEF DeliveryInv
<1> DEFINE frame == [Top(t) EXCEPT !.at = "pop"]
<1>u. /\ UNCHANGED <<calls, lock, queue, driven, delivered>>
      /\ stack[t] # <<>> /\ Top(t).at = "swap"
      /\ draining' = TRUE
      /\ draining => Return(t)
      /\ ~draining => Goto(t, frame)
  BY DEF Swap, At, coreVars
<1>t. ShellTypes /\ Top(t) \in Frame
  BY <1>u, TopFacts
<1>f. frame \in Frame /\ frame.at = "pop"
  BY <1>t DEF Frame, Places
<1> HIDE DEF frame
<1>5. DeliveredInDriveOrder'
  BY <1>u DEF DeliveredInDriveOrder
<1>b. PICK from, to \in Nat : Chain(from, to) /\ DrainerAt(from) /\ EnqueuerAt(to)
  BY DEF BatchesInOrder
<1>c. Chain(from, to)'
  BY <1>b, <1>u DEF Chain
<1>a. CASE draining
  <2>m. PICK n \in Nat : Returned(t, n)
    BY <1>a, <1>u, <1>t, ReturnReturns
  <2>p. /\ \A u \in Threads : \A i \in DOMAIN stack'[u] :
             i \in DOMAIN stack[u] /\ stack'[u][i] = stack[u][i]
        /\ \A u \in Threads : \A i \in DOMAIN stack[u] :
             stack[u][i].at # "swap" => i \in DOMAIN stack'[u]
    BY <2>m, <1>u DEF Returned
  <2>1. ShellTypes'
    BY <1>t, <1>u, <2>m DEF ShellTypes, Returned
  <2>2. LockHeld' /\ EnqueuerAt(to)'
    BY <1>b, <1>u, <2>m, ReturnKeepsLock
  <2>3. FlagHeld'
    <3>1. PICK u \in Threads : \E i \in DOMAIN stack[u] : stack[u][i].at \in Drainer
      BY <1>a DEF FlagHeld, In
    <3>2. PICK i \in DOMAIN stack[u] : stack[u][i].at \in Drainer
      BY <3>1
    <3>3. i \in DOMAIN stack'[u] /\ stack'[u][i].at \in Drainer
      BY <3>2, <2>p DEF Drainer
    <3>4. \A v \in Threads : \A j \in DOMAIN stack'[v] : stack'[v][j].at \in Drainer =>
            \A w \in Threads : \A k \in DOMAIN stack'[w] :
              stack'[w][k].at \in Drainer => w = v /\ k = j
      BY <2>p DEF FlagHeld, In
    <3> QED BY <3>3, <3>4, <1>u DEF FlagHeld, In
  <2>4. DrainerAt(from)'
    BY <1>b, <1>u, <2>p DEF DrainerAt, In
  <2>6. NothingStranded'
    <3>1. \E u \in Threads : \E i \in DOMAIN stack'[u] : stack'[u][i].at \in Drainer
      BY <1>u, <2>3 DEF FlagHeld, In
    <3> QED BY <3>1 DEF NothingStranded
  <2> QED BY <2>1, <2>2, <2>3, <2>4, <2>6, <1>c, <1>5 DEF BatchesInOrder
<1>n. CASE ~draining
  <2>m. PICK n \in Nat : Moved(t, n, frame)
    BY <1>n, <1>u, <1>t, <1>f, GotoMoves
  <2>n. \A u \in Threads : \A i \in DOMAIN stack[u] : stack[u][i].at \notin Drainer
    BY <1>n DEF FlagHeld, In
  <2>p. /\ \A u \in Threads : DOMAIN stack'[u] = DOMAIN stack[u]
        /\ \A u \in Threads : \A i \in DOMAIN stack[u] :
             \/ stack'[u][i] = stack[u][i] /\ (u # t \/ i # n)
             \/ stack'[u][i] = frame /\ u = t /\ i = n
        /\ n \in DOMAIN stack[t] /\ stack'[t][n] = frame
    BY <2>m DEF Moved
  <2>1. ShellTypes'
    BY <1>t, <1>u, <2>m DEF ShellTypes, Moved
  <2>2. LockHeld' /\ EnqueuerAt(to)'
    BY <1>b, <1>u, <1>f, <2>m, MoveKeepsLock
  <2>3. FlagHeld'
    <3>1. \A u \in Threads : \A i \in DOMAIN stack'[u] :
            stack'[u][i].at \in Drainer <=> u = t /\ i = n
      BY <2>n, <2>p, <1>f DEF Drainer
    <3> QED BY <3>1, <2>p, <1>u DEF FlagHeld, In
  <2>4. DrainerAt(from)'
    <3>1. \A u \in Threads : \A i \in DOMAIN stack'[u] :
            stack'[u][i].at \notin {"deliver", "waking"}
      BY <2>n, <2>p, <1>f DEF Drainer
    <3>2. from = Len(delivered)
      BY <1>b, <2>n DEF DrainerAt, In, Drainer
    <3> QED BY <3>1, <3>2, <1>u DEF DrainerAt, In
  <2>6. NothingStranded'
    BY <2>p, <1>f DEF NothingStranded, Drainer
  <2> QED BY <2>1, <2>2, <2>3, <2>4, <2>6, <1>c, <1>5 DEF BatchesInOrder
<1> QED BY <1>a, <1>n

\* A frame of the drainer moves to another place of the drainer.
LEMMA MoveKeepsFlag ==
    ASSUME FlagHeld, NEW t \in Threads, NEW n \in Nat, NEW frame, Moved(t, n, frame),
           Top(t).at \in Drainer, frame.at \in Drainer, UNCHANGED draining
    PROVE  FlagHeld' /\ NothingStranded'
<1>1. /\ \A u \in Threads : DOMAIN stack'[u] = DOMAIN stack[u]
      /\ \A u \in Threads : \A i \in DOMAIN stack[u] :
           stack'[u][i].at \in Drainer <=> stack[u][i].at \in Drainer
      /\ n \in DOMAIN stack'[t] /\ stack'[t][n].at \in Drainer
  BY DEF Moved
<1>2. FlagHeld'
  BY <1>1 DEF FlagHeld, In
<1>3. NothingStranded'
  BY <1>1 DEF NothingStranded
<1> QED BY <1>2, <1>3

LEMMA TailFacts ==
    ASSUME NEW S, NEW s \in Seq(S), s # <<>>
    PROVE  /\ Head(s) = s[1] /\ s[1] \in S
           /\ Tail(s) \in Seq(S)
           /\ Len(s) \in Nat \ {0} /\ DOMAIN s = 1..Len(s)
           /\ Len(Tail(s)) = Len(s) - 1
           /\ DOMAIN Tail(s) = 1..(Len(s) - 1)
           /\ \A i \in 1..(Len(s) - 1) : Tail(s)[i] = s[i + 1]
           /\ Tail(s) = <<>> <=> Len(s) = 1
<1>1. Len(s) \in Nat \ {0} /\ DOMAIN s = 1..Len(s)
  OBVIOUS
<1>2. Head(s) = s[1] /\ s[1] \in S
  BY <1>1
<1>3. Tail(s) \in Seq(S) /\ Len(Tail(s)) = Len(s) - 1
  BY <1>1
<1>4. DOMAIN Tail(s) = 1..(Len(s) - 1)
  BY <1>3
<1>5. \A i \in 1..(Len(s) - 1) : Tail(s)[i] = s[i + 1]
  BY <1>1
<1>6. Tail(s) = <<>> <=> Len(s) = 1
  <2>1. \A r \in Seq(S) : r = <<>> <=> Len(r) = 0
    OBVIOUS
  <2>2. Tail(s) = <<>> <=> Len(Tail(s)) = 0
    BY <1>3, <2>1
  <2>3. Len(Tail(s)) = 0 <=> Len(s) = 1
    BY <1>1, <1>3
  <2> QED BY <2>2, <2>3
<1> QED BY <1>1, <1>2, <1>3, <1>4, <1>5, <1>6

LEMMA PopPreserves ==
    ASSUME DeliveryInv, NEW t \in Threads, Pop(t)
    PROVE  DeliveryInv'
<1> USE DEF DeliveryInv
<1> DEFINE frame == IF queue = <<>> THEN [Top(t) EXCEPT !.at = "clear"]
                    ELSE [at |-> "deliver", batch |-> Head(queue)]
<1>u. /\ UNCHANGED <<calls, lock, draining, driven, delivered>>
      /\ stack[t] # <<>> /\ Top(t).at = "pop"
      /\ Goto(t, frame)
      /\ queue' = IF queue = <<>> THEN queue ELSE Tail(queue)
  BY DEF Pop, At, coreVars
<1>t. /\ ShellTypes /\ Top(t) \in Frame
      /\ queue \in Seq(Batch)
      /\ Len(delivered) \in Nat
  BY <1>u, TopFacts DEF ShellTypes
<1>q. queue # <<>> =>
        /\ Head(queue) = queue[1] /\ queue[1] \in Batch
        /\ Tail(queue) \in Seq(Batch)
        /\ Len(queue) \in Nat \ {0} /\ DOMAIN queue = 1..Len(queue)
        /\ Len(Tail(queue)) = Len(queue) - 1
        /\ DOMAIN Tail(queue) = 1..(Len(queue) - 1)
        /\ \A i \in 1..(Len(queue) - 1) : Tail(queue)[i] = queue[i + 1]
        /\ Tail(queue) = <<>> <=> Len(queue) = 1
  BY <1>t, TailFacts
<1>f. /\ frame \in Frame /\ frame.at \in {"clear", "deliver"}
      /\ queue = <<>> => frame.at = "clear"
      /\ queue # <<>> => frame.at = "deliver" /\ frame.batch = queue[1]
  BY <1>t, <1>q DEF Frame, Places
<1> HIDE DEF frame
<1>m. PICK n \in Nat : Moved(t, n, frame)
  BY <1>u, <1>t, <1>f, GotoMoves
<1>o. \A u \in Threads : \A i \in DOMAIN stack[u] :
        stack[u][i].at \in Drainer => u = t /\ i = n
  <2>1. n \in DOMAIN stack[t] /\ stack[t][n].at \in Drainer
    BY <1>m, <1>u DEF Moved, Drainer
  <2> QED BY <2>1 DEF FlagHeld, In
<1>p. /\ \A u \in Threads : DOMAIN stack'[u] = DOMAIN stack[u]
      /\ \A u \in Threads : \A i \in DOMAIN stack[u] :
           \/ stack'[u][i] = stack[u][i] /\ stack[u][i].at \notin Drainer
           \/ stack'[u][i] = frame /\ u = t /\ i = n
      /\ n \in DOMAIN stack[t] /\ stack'[t][n] = frame
  BY <1>m, <1>o DEF Moved
<1>b. PICK from, to \in Nat : Chain(from, to) /\ DrainerAt(from) /\ EnqueuerAt(to)
  BY DEF BatchesInOrder
<1>l. from = Len(delivered)
  <2>1. n \in DOMAIN stack[t] /\ stack[t][n].at = "pop"
    BY <1>m, <1>u DEF Moved
  <2>2. \A u \in Threads : \A i \in DOMAIN stack[u] : stack[u][i].at \notin {"deliver", "waking"}
    BY <2>1, <1>o DEF Drainer
  <2> QED BY <2>2, <1>b DEF DrainerAt, In
<1>1. ShellTypes'
  BY <1>t, <1>u, <1>q, <1>m DEF ShellTypes, Moved
<1>2. LockHeld' /\ EnqueuerAt(to)'
  BY <1>b, <1>u, <1>f, <1>m, MoveKeepsLock
<1>3. FlagHeld' /\ NothingStranded'
  <2>1. Top(t).at \in Drainer /\ frame.at \in Drainer
    BY <1>u, <1>f DEF Drainer
  <2> QED BY <2>1, <1>u, <1>m, MoveKeepsFlag
<1>4. BatchesInOrder'
  <2>1. CASE queue = <<>>
    <3>1. Chain(from, to)'
      BY <2>1, <1>b, <1>u DEF Chain
    <3>2. \A u \in Threads : \A i \in DOMAIN stack'[u] :
            stack'[u][i].at \notin {"deliver", "waking"}
      BY <2>1, <1>p, <1>f DEF Drainer
    <3>3. DrainerAt(from)'
      BY <3>2, <1>l, <1>u DEF DrainerAt, In
    <3> QED BY <3>1, <3>3, <1>2 DEF BatchesInOrder
  <2>2. CASE queue # <<>>
    <3>1. PICK upto \in Nat : upto = queue[1].last
      BY <2>2, <1>q DEF Batch
    <3>2. queue[1].first = from + 1 /\ from < upto
      <4>1. 1 \in DOMAIN queue
        BY <2>2, <1>q
      <4>2. queue[1].first = from + 1 /\ queue[1].first <= queue[1].last
        BY <2>2, <4>1, <1>b DEF Chain
      <4> QED BY <4>2, <3>1
    <3>3. Chain(upto, to)'
      <4>1. queue' = Tail(queue)
        BY <2>2, <1>u
      <4>2. Tail(queue) = <<>> => upto = to
        BY <2>2, <3>1, <1>q, <1>b DEF Chain
      <4>3. Tail(queue) # <<>> =>
              /\ Tail(queue)[1].first = upto + 1
              /\ Tail(queue)[Len(Tail(queue))].last = to
        <5> SUFFICES ASSUME Tail(queue) # <<>>
                     PROVE  /\ Tail(queue)[1].first = upto + 1
                            /\ Tail(queue)[Len(Tail(queue))].last = to
          OBVIOUS
        <5>1. Len(queue) # 1 /\ 1 \in DOMAIN queue /\ 1 + 1 \in DOMAIN queue
          BY <2>2, <1>q
        <5>2. /\ Tail(queue)[1] = queue[1 + 1]
              /\ Tail(queue)[Len(Tail(queue))] = queue[Len(queue)]
          BY <2>2, <5>1, <1>q
        <5>3. queue[1 + 1].first = queue[1].last + 1 /\ queue[Len(queue)].last = to
          BY <2>2, <5>1, <1>b DEF Chain
        <5> QED BY <5>2, <5>3, <3>1
      <4>4. \A i \in DOMAIN Tail(queue) : Tail(queue)[i].first <= Tail(queue)[i].last
        BY <2>2, <1>q, <1>b DEF Chain
      <4>5. \A i \in DOMAIN Tail(queue) : i + 1 \in DOMAIN Tail(queue) =>
              Tail(queue)[i + 1].first = Tail(queue)[i].last + 1
        BY <2>2, <1>q, <1>b DEF Chain
      <4> QED BY <4>1, <4>2, <4>3, <4>4, <4>5 DEF Chain
    <3>4. DrainerAt(upto)'
      <4>1. frame.at = "deliver" /\ frame.batch = queue[1]
        BY <2>2, <1>f
      <4>2. \A u \in Threads : \A i \in DOMAIN stack'[u] :
              stack'[u][i].at \in {"deliver", "waking"} => stack'[u][i] = frame
        BY <1>p DEF Drainer
      <4>3. n \in DOMAIN stack'[t] /\ stack'[t][n].at = "deliver"
        BY <1>p, <4>1
      <4>4. frame.batch.first = Len(delivered) + 1 /\ frame.batch.last = upto
        BY <4>1, <3>1, <3>2, <1>l
      <4> QED BY <4>2, <4>3, <4>4, <3>2, <1>l, <1>t, <1>u DEF DrainerAt, In
    <3> QED BY <3>3, <3>4, <1>2 DEF BatchesInOrder
  <2> QED BY <2>1, <2>2
<1>5. DeliveredInDriveOrder'
  BY <1>u DEF DeliveredInDriveOrder
<1> QED BY <1>1, <1>2, <1>3, <1>4, <1>5

\* The one frame that drains moves, and no other frame is a drainer's.
LEMMA DrainerMoves ==
    ASSUME FlagHeld, NEW t \in Threads, NEW n \in Nat, NEW frame, Moved(t, n, frame),
           Top(t).at \in Drainer
    PROVE  /\ \A u \in Threads : DOMAIN stack'[u] = DOMAIN stack[u]
           /\ \A u \in Threads : \A i \in DOMAIN stack[u] :
                \/ stack'[u][i] = stack[u][i] /\ stack[u][i].at \notin Drainer
                \/ stack'[u][i] = frame /\ u = t /\ i = n
           /\ n \in DOMAIN stack[t] /\ stack'[t][n] = frame /\ stack[t][n] = Top(t)
<1>1. n \in DOMAIN stack[t] /\ stack[t][n].at \in Drainer
  BY DEF Moved
<1>2. \A u \in Threads : \A i \in DOMAIN stack[u] :
        stack[u][i].at \in Drainer => u = t /\ i = n
  BY <1>1 DEF FlagHeld, In
<1> QED BY <1>1, <1>2 DEF Moved

LEMMA DeliverPreserves ==
    ASSUME DeliveryInv, NEW t \in Threads, Deliver(t)
    PROVE  DeliveryInv'
<1> USE DEF DeliveryInv
<1> DEFINE batch == Top(t).batch
           rest == [batch EXCEPT !.first = batch.first + 1]
           frame == IF IsEmpty(batch) THEN [Top(t) EXCEPT !.at = "pop"]
                    ELSE [at |-> "waking", batch |-> rest]
<1>u. /\ UNCHANGED <<calls, lock, queue, draining, driven>>
      /\ stack[t] # <<>> /\ Top(t).at = "deliver"
      /\ Goto(t, frame)
      /\ delivered' = IF IsEmpty(batch) THEN delivered ELSE Append(delivered, batch.first)
  BY DEF Deliver, At, coreVars, shellVars
<1>t. /\ ShellTypes /\ Top(t) \in Frame
      /\ batch \in Batch /\ batch.first \in Nat \ {0} /\ batch.last \in Nat
      /\ delivered \in Seq(Nat) /\ Len(delivered) \in Nat
  BY <1>u, TopFacts DEF ShellTypes
<1>r. rest \in Batch /\ rest.first = batch.first + 1 /\ rest.last = batch.last
  BY <1>t DEF Batch
<1> HIDE DEF rest
<1>f. /\ frame \in Frame /\ frame.at \in {"pop", "waking"}
      /\ IsEmpty(batch) => frame.at = "pop"
      /\ ~IsEmpty(batch) => frame.at = "waking" /\ frame.batch = rest
  BY <1>t, <1>r DEF Frame, Places
<1> HIDE DEF frame
<1>m. PICK n \in Nat : Moved(t, n, frame)
  BY <1>u, <1>t, <1>f, GotoMoves
<1>p. /\ \A u \in Threads : DOMAIN stack'[u] = DOMAIN stack[u]
      /\ \A u \in Threads : \A i \in DOMAIN stack[u] :
           \/ stack'[u][i] = stack[u][i] /\ stack[u][i].at \notin Drainer
           \/ stack'[u][i] = frame /\ u = t /\ i = n
      /\ n \in DOMAIN stack[t] /\ stack'[t][n] = frame /\ stack[t][n] = Top(t)
  <2>1. Top(t).at \in Drainer
    BY <1>u DEF Drainer
  <2> QED BY <2>1, <1>m, DrainerMoves
<1>b. PICK from, to \in Nat : Chain(from, to) /\ DrainerAt(from) /\ EnqueuerAt(to)
  BY DEF BatchesInOrder
<1>l. batch.first = Len(delivered) + 1 /\ batch.last = from /\ Len(delivered) <= from
  BY <1>p, <1>u, <1>b DEF DrainerAt, In
<1>d. /\ delivered' \in Seq(Nat)
      /\ IsEmpty(batch) => delivered' = delivered
      /\ ~IsEmpty(batch) =>
           /\ Len(delivered') = Len(delivered) + 1
           /\ DOMAIN delivered' = DOMAIN delivered \cup {Len(delivered) + 1}
           /\ delivered'[Len(delivered) + 1] = Len(delivered) + 1
           /\ \A i \in DOMAIN delivered : delivered'[i] = delivered[i]
  BY <1>u, <1>t, <1>l
<1>1. ShellTypes'
  BY <1>t, <1>u, <1>d, <1>m DEF ShellTypes, Moved
<1>2. LockHeld' /\ EnqueuerAt(to)'
  BY <1>b, <1>u, <1>f, <1>m, MoveKeepsLock
<1>3. FlagHeld' /\ NothingStranded'
  <2>1. Top(t).at \in Drainer /\ frame.at \in Drainer
    BY <1>u, <1>f DEF Drainer
  <2> QED BY <2>1, <1>u, <1>m, MoveKeepsFlag
<1>4. BatchesInOrder'
  <2>1. Chain(from, to)'
    BY <1>b, <1>u DEF Chain
  <2>2. DrainerAt(from)'
    <3>0. \A u \in Threads : \A i \in DOMAIN stack'[u] :
            stack'[u][i].at \in {"deliver", "waking"} => stack'[u][i] = frame
      BY <1>p DEF Drainer
    <3>1. CASE IsEmpty(batch)
      <4>1. from = Len(delivered) /\ delivered' = delivered
        BY <3>1, <1>l, <1>d, <1>t DEF IsEmpty
      <4>2. \A u \in Threads : \A i \in DOMAIN stack'[u] :
              stack'[u][i].at \notin {"deliver", "waking"}
        BY <3>0, <3>1, <1>f
      <4> QED BY <4>1, <4>2 DEF DrainerAt, In
    <3>2. CASE ~IsEmpty(batch)
      <4>1. /\ frame.batch.first = Len(delivered') + 1
            /\ frame.batch.last = from
            /\ Len(delivered') <= from
        BY <3>2, <1>f, <1>r, <1>d, <1>l, <1>t DEF IsEmpty
      <4>2. n \in DOMAIN stack'[t] /\ stack'[t][n].at = "waking"
        BY <3>2, <1>p, <1>f
      <4> QED BY <3>0, <4>1, <4>2 DEF DrainerAt, In
    <3> QED BY <3>1, <3>2
  <2> QED BY <2>1, <2>2, <1>2 DEF BatchesInOrder
<1>5. DeliveredInDriveOrder'
  BY <1>d DEF DeliveredInDriveOrder
<1> QED BY <1>1, <1>2, <1>3, <1>4, <1>5

LEMMA WokenPreserves ==
    ASSUME DeliveryInv, NEW t \in Threads, Woken(t)
    PROVE  DeliveryInv'
<1> USE DEF DeliveryInv
<1> DEFINE frame == [Top(t) EXCEPT !.at = "deliver"]
<1>u. /\ UNCHANGED <<calls, lock, queue, draining, driven, delivered>>
      /\ stack[t] # <<>> /\ Top(t).at = "waking"
      /\ Goto(t, frame)
  BY DEF Woken, At, coreVars, shellVars
<1>t. ShellTypes /\ Top(t) \in Frame
  BY <1>u, TopFacts
<1>f. frame \in Frame /\ frame.at = "deliver" /\ frame.batch = Top(t).batch
  BY <1>t DEF Frame, Places
<1> HIDE DEF frame
<1>m. PICK n \in Nat : Moved(t, n, frame)
  BY <1>u, <1>t, <1>f, GotoMoves
<1>p. /\ \A u \in Threads : DOMAIN stack'[u] = DOMAIN stack[u]
      /\ \A u \in Threads : \A i \in DOMAIN stack[u] :
           \/ stack'[u][i] = stack[u][i] /\ stack[u][i].at \notin Drainer
           \/ stack'[u][i] = frame /\ u = t /\ i = n
      /\ n \in DOMAIN stack[t] /\ stack'[t][n] = frame /\ stack[t][n] = Top(t)
  <2>1. Top(t).at \in Drainer
    BY <1>u DEF Drainer
  <2> QED BY <2>1, <1>m, DrainerMoves
<1>b. PICK from, to \in Nat : Chain(from, to) /\ DrainerAt(from) /\ EnqueuerAt(to)
  BY DEF BatchesInOrder
<1>1. ShellTypes'
  BY <1>t, <1>u, <1>m DEF ShellTypes, Moved
<1>2. LockHeld' /\ EnqueuerAt(to)'
  BY <1>b, <1>u, <1>f, <1>m, MoveKeepsLock
<1>3. FlagHeld' /\ NothingStranded'
  <2>1. Top(t).at \in Drainer /\ frame.at \in Drainer
    BY <1>u, <1>f DEF Drainer
  <2> QED BY <2>1, <1>u, <1>m, MoveKeepsFlag
<1>4. BatchesInOrder'
  <2>1. Chain(from, to)'
    BY <1>b, <1>u DEF Chain
  <2>2. DrainerAt(from)'
    <3>1. /\ frame.batch.first = Len(delivered) + 1
          /\ frame.batch.last = from
          /\ Len(delivered) <= from
      BY <1>p, <1>u, <1>f, <1>b DEF DrainerAt, In
    <3>2. \A u \in Threads : \A i \in DOMAIN stack'[u] :
            stack'[u][i].at \in {"deliver", "waking"} => stack'[u][i] = frame
      BY <1>p DEF Drainer
    <3>3. n \in DOMAIN stack'[t] /\ stack'[t][n].at = "deliver"
      BY <1>p, <1>f
    <3> QED BY <3>1, <3>2, <3>3, <1>u DEF DrainerAt, In
  <2> QED BY <2>1, <2>2, <1>2 DEF BatchesInOrder
<1>5. DeliveredInDriveOrder'
  BY <1>u DEF DeliveredInDriveOrder
<1> QED BY <1>1, <1>2, <1>3, <1>4, <1>5

LEMMA ClearPreserves ==
    ASSUME DeliveryInv, NEW t \in Threads, Clear(t)
    PROVE  DeliveryInv'
<1> USE DEF DeliveryInv
<1> DEFINE frame == [Top(t) EXCEPT !.at = "check"]
<1>u. /\ UNCHANGED <<calls, lock, queue, driven, delivered>>
      /\ stack[t] # <<>> /\ Top(t).at = "clear"
      /\ draining' = FALSE
      /\ Goto(t, frame)
  BY DEF Clear, At, coreVars
<1>t. ShellTypes /\ Top(t) \in Frame
  BY <1>u, TopFacts
<1>f. frame \in Frame /\ frame.at = "check"
  BY <1>t DEF Frame, Places
<1> HIDE DEF frame
<1>m. PICK n \in Nat : Moved(t, n, frame)
  BY <1>u, <1>t, <1>f, GotoMoves
<1>p. /\ \A u \in Threads : DOMAIN stack'[u] = DOMAIN stack[u]
      /\ \A u \in Threads : \A i \in DOMAIN stack[u] :
           \/ stack'[u][i] = stack[u][i] /\ stack[u][i].at \notin Drainer
           \/ stack'[u][i] = frame /\ u = t /\ i = n
      /\ n \in DOMAIN stack[t] /\ stack'[t][n] = frame /\ stack[t][n] = Top(t)
  <2>1. Top(t).at \in Drainer
    BY <1>u DEF Drainer
  <2> QED BY <2>1, <1>m, DrainerMoves
<1>n. \A u \in Threads : \A i \in DOMAIN stack'[u] : stack'[u][i].at \notin Drainer
  BY <1>p, <1>f DEF Drainer
<1>b. PICK from, to \in Nat : Chain(from, to) /\ DrainerAt(from) /\ EnqueuerAt(to)
  BY DEF BatchesInOrder
<1>1. ShellTypes'
  BY <1>t, <1>u, <1>m DEF ShellTypes, Moved
<1>2. LockHeld' /\ EnqueuerAt(to)'
  BY <1>b, <1>u, <1>f, <1>m, MoveKeepsLock
<1>3. FlagHeld'
  BY <1>n, <1>u DEF FlagHeld, In
<1>4. BatchesInOrder'
  <2>1. Chain(from, to)'
    BY <1>b, <1>u DEF Chain
  <2>2. \A u \in Threads : \A i \in DOMAIN stack[u] : stack[u][i].at \notin {"deliver", "waking"}
    BY <1>p, <1>u DEF Drainer
  <2>3. from = Len(delivered)
    BY <2>2, <1>b DEF DrainerAt, In
  <2>4. DrainerAt(from)'
    BY <2>3, <1>n, <1>u DEF DrainerAt, In, Drainer
  <2> QED BY <2>1, <2>4, <1>2 DEF BatchesInOrder
<1>5. DeliveredInDriveOrder'
  BY <1>u DEF DeliveredInDriveOrder
<1>6. NothingStranded'
  BY <1>p, <1>f DEF NothingStranded
<1> QED BY <1>1, <1>2, <1>3, <1>4, <1>5, <1>6

LEMMA CheckPreserves ==
    ASSUME DeliveryInv, NEW t \in Threads, Check(t)
    PROVE  DeliveryInv'
<1> USE DEF DeliveryInv
<1> DEFINE frame == [Top(t) EXCEPT !.at = "swap"]
<1>u. /\ UNCHANGED <<calls, lock, queue, draining, driven, delivered>>
      /\ stack[t] # <<>> /\ Top(t).at = "check"
      /\ queue = <<>> => Return(t)
      /\ queue # <<>> => Goto(t, frame)
  BY DEF Check, At, coreVars, shellVars
<1>t. ShellTypes /\ Top(t) \in Frame
  BY <1>u, TopFacts
<1>f. frame \in Frame /\ frame.at = "swap"
  BY <1>t DEF Frame, Places
<1> HIDE DEF frame
<1>b. PICK from, to \in Nat : Chain(from, to) /\ DrainerAt(from) /\ EnqueuerAt(to)
  BY DEF BatchesInOrder
<1>c. Chain(from, to)'
  BY <1>b, <1>u DEF Chain
<1>5. DeliveredInDriveOrder'
  BY <1>u DEF DeliveredInDriveOrder
<1>a. CASE queue = <<>>
  <2>m. PICK n \in Nat : Returned(t, n)
    BY <1>a, <1>u, <1>t, ReturnReturns
  <2>p. /\ \A u \in Threads : \A i \in DOMAIN stack'[u] :
             i \in DOMAIN stack[u] /\ stack'[u][i] = stack[u][i]
        /\ \A u \in Threads : \A i \in DOMAIN stack[u] :
             stack[u][i].at # "check" => i \in DOMAIN stack'[u]
    BY <2>m, <1>u DEF Returned
  <2>1. ShellTypes'
    BY <1>t, <1>u, <2>m DEF ShellTypes, Returned
  <2>2. LockHeld' /\ EnqueuerAt(to)'
    BY <1>b, <1>u, <2>m, ReturnKeepsLock
  <2>3. FlagHeld'
    <3>1. \A u \in Threads : \A i \in DOMAIN stack[u] :
            stack[u][i].at \in Drainer => i \in DOMAIN stack'[u] /\ stack'[u][i].at \in Drainer
      BY <2>p DEF Drainer
    <3> QED BY <3>1, <2>p, <1>u DEF FlagHeld, In
  <2>4. DrainerAt(from)'
    BY <1>b, <1>u, <2>p DEF DrainerAt, In
  <2>6. NothingStranded'
    BY <1>a, <1>u DEF NothingStranded
  <2> QED BY <2>1, <2>2, <2>3, <2>4, <2>6, <1>c, <1>5 DEF BatchesInOrder
<1>n. CASE queue # <<>>
  <2>m. PICK n \in Nat : Moved(t, n, frame)
    BY <1>n, <1>u, <1>t, <1>f, GotoMoves
  <2>p. /\ \A u \in Threads : DOMAIN stack'[u] = DOMAIN stack[u]
        /\ \A u \in Threads : \A i \in DOMAIN stack[u] :
             \/ stack'[u][i] = stack[u][i]
             \/ stack'[u][i].at = "swap" /\ stack[u][i].at = "check"
        /\ n \in DOMAIN stack'[t] /\ stack'[t][n].at = "swap"
    BY <2>m, <1>u, <1>f DEF Moved
  <2>1. ShellTypes'
    BY <1>t, <1>u, <2>m DEF ShellTypes, Moved
  <2>2. LockHeld' /\ EnqueuerAt(to)'
    BY <1>b, <1>u, <1>f, <2>m, MoveKeepsLock
  <2>3. FlagHeld'
    <3>1. \A u \in Threads : \A i \in DOMAIN stack[u] :
            stack'[u][i].at \in Drainer <=> stack[u][i].at \in Drainer
      BY <2>p DEF Drainer
    <3> QED BY <3>1, <2>p, <1>u DEF FlagHeld, In
  <2>4. DrainerAt(from)'
    <3>1. \A u \in Threads : \A i \in DOMAIN stack[u] :
            /\ stack'[u][i].at \in {"deliver", "waking"}
                 <=> stack[u][i].at \in {"deliver", "waking"}
            /\ stack'[u][i].at \in {"deliver", "waking"} => stack'[u][i] = stack[u][i]
      BY <2>p
    <3> QED BY <3>1, <2>p, <1>b, <1>u DEF DrainerAt, In
  <2>6. NothingStranded'
    BY <2>p DEF NothingStranded
  <2> QED BY <2>1, <2>2, <2>3, <2>4, <2>6, <1>c, <1>5 DEF BatchesInOrder
<1> QED BY <1>a, <1>n

\* The settlements of a set of calls are a finite sequence of wakes.
LEMMA SettlementsAreWakes ==
    ASSUME NEW S \in SUBSET Calls, NEW settled \in Settlements(S)
    PROVE  settled \in Seq(Wakes)
<1> DEFINE open == S \cap senders
<1>1. IsFiniteSet(Calls)
  BY FS_Interval, BoundsAssumption DEF Calls
<1>2. Cardinality(open) \in Nat
  BY <1>1, FS_Subset, FS_CardinalityType
<1>3. PICK order \in [1..Cardinality(open) -> open] :
        settled = [i \in DOMAIN order |-> Settle(order[i])]
  BY DEF Settlements
<1>4. \A c \in Calls : Settle(c) \in Wakes
  BY DEF Wakes
<1>5. \A i \in 1..Cardinality(open) : order[i] \in Calls
  BY <1>3
<1> HIDE DEF open
<1>6. settled = [i \in 1..Cardinality(open) |-> Settle(order[i])]
  BY <1>3
<1>7. settled \in [1..Cardinality(open) -> Wakes]
  BY <1>4, <1>5, <1>6
<1> QED BY <1>2, <1>7

LEMMA InputPreserves ==
    ASSUME DeliveryInv, NEW t \in Threads, Input(t)
    PROVE  DeliveryInv'
<1>w. /\ Emit \in Wakes /\ CloseBus \in Wakes /\ Done(t) \in Wakes
      /\ \A c \in Calls : Settle(c) \in Wakes
  BY DEF Wakes
<1>t. calls \in 0..MaxCalls /\ MaxCalls \in Nat
  BY BoundsAssumption DEF DeliveryInv, ShellTypes
<1>1. CASE Dispatch(t)
  <2>1. calls' \in 0..MaxCalls /\ calls' \in Calls
    BY <1>1, <1>t DEF Dispatch, Calls
  <2>2. PICK wakes \in {<<Settle(calls')>>, <<>>} : Drive(t, wakes)
    BY <1>1 DEF Dispatch
  <2>3. wakes \in Seq(Wakes)
    <3>1. <<>> \in Seq(Wakes)
      OBVIOUS
    <3>2. Settle(calls') \in Wakes
      BY <2>1, <1>w
    <3>3. <<Settle(calls')>> \in Seq(Wakes)
      BY <3>2
    <3> QED BY <3>1, <3>3, <2>2
  <2> QED BY <2>1, <2>2, <2>3, DrivePreserves
<1>2. CASE Stop(t)
  <2>1. PICK wakes \in StopWakes : Drive(t, Append(wakes, Done(t)))
    BY <1>2 DEF Stop
  <2>2. wakes \in Seq(Wakes)
    <3>1. CASE stopped
      BY <3>1, <2>1 DEF StopWakes
    <3>2. CASE ~stopped
      <4>1. PICK settled \in Settlements(Calls) :
              wakes = <<Emit>> \o settled \o <<Emit, CloseBus>>
        BY <3>2, <2>1 DEF StopWakes
      <4>2. settled \in Seq(Wakes)
        BY SettlementsAreWakes
      <4>3. <<Emit>> \in Seq(Wakes) /\ <<Emit, CloseBus>> \in Seq(Wakes)
        BY <1>w
      <4> QED BY <4>1, <4>2, <4>3
    <3> QED BY <3>1, <3>2
  <2>3. Append(wakes, Done(t)) \in Seq(Wakes)
    BY <2>2, <1>w
  <2>4. calls' \in 0..MaxCalls
    BY <1>2, <1>t DEF Stop
  <2> QED BY <2>1, <2>3, <2>4, DrivePreserves
<1>3. CASE \E events \in {<<>>, <<Emit>>}, S \in SUBSET Calls : React(t, events, S)
  <2>1. PICK events \in {<<>>, <<Emit>>}, S \in SUBSET Calls : React(t, events, S)
    BY <1>3
  <2>2. PICK settled \in Settlements(S) : Drive(t, events \o settled)
    BY <2>1 DEF React
  <2>3. settled \in Seq(Wakes)
    BY SettlementsAreWakes
  <2>4. events \in Seq(Wakes)
    <3>1. <<>> \in Seq(Wakes)
      OBVIOUS
    <3>2. <<Emit>> \in Seq(Wakes)
      BY <1>w
    <3> QED BY <3>1, <3>2
  <2>5. events \o settled \in Seq(Wakes)
    BY <2>3, <2>4
  <2>6. calls' \in 0..MaxCalls
    BY <2>1, <1>t DEF React
  <2> QED BY <2>2, <2>5, <2>6, DrivePreserves
<1>4. CASE \E c \in Calls : Drop(t, c)
  <2>1. PICK c \in Calls : Drop(t, c)
    BY <1>4
  <2>2. Drive(t, <<>>) /\ calls' \in 0..MaxCalls /\ <<>> \in Seq(Wakes)
    BY <2>1, <1>t DEF Drop
  <2> QED BY <2>2, DrivePreserves
<1> QED BY <1>1, <1>2, <1>3, <1>4 DEF Input

LEMMA StepPreserves ==
    ASSUME DeliveryInv, NEW t \in Threads, Step(t)
    PROVE  DeliveryInv'
BY EnqueuePreserves, SwapPreserves, PopPreserves, DeliverPreserves, WokenPreserves,
   ClearPreserves, CheckPreserves DEF Step

\* A step of the futures, and a stutter, leave the shell alone.
LEMMA OutsidePreserves ==
    ASSUME DeliveryInv,
           UNCHANGED <<lock, calls, shellVars, driven, stack, delivered>>
    PROVE  DeliveryInv'
<1> USE DEF DeliveryInv
<1>u. UNCHANGED <<lock, calls, queue, draining, driven, stack, delivered>>
  BY DEF shellVars
<1>1. ShellTypes'
  BY <1>u DEF ShellTypes
<1>2. LockHeld'
  BY <1>u DEF LockHeld, In
<1>3. FlagHeld'
  BY <1>u DEF FlagHeld, In
<1>4. BatchesInOrder'
  <2>1. PICK from, to \in Nat : Chain(from, to) /\ DrainerAt(from) /\ EnqueuerAt(to)
    BY DEF BatchesInOrder
  <2>2. Chain(from, to)'
    BY <2>1, <1>u DEF Chain
  <2>3. DrainerAt(from)'
    BY <2>1, <1>u DEF DrainerAt, In
  <2>4. EnqueuerAt(to)'
    BY <2>1, <1>u DEF EnqueuerAt, In
  <2> QED BY <2>2, <2>3, <2>4 DEF BatchesInOrder
<1>5. DeliveredInDriveOrder'
  BY <1>u DEF DeliveredInDriveOrder
<1>6. NothingStranded'
  BY <1>u DEF NothingStranded
<1> QED BY <1>1, <1>2, <1>3, <1>4, <1>5, <1>6

LEMMA InitDelivers == Init => DeliveryInv
<1> SUFFICES ASSUME Init PROVE DeliveryInv
  OBVIOUS
<1> USE BoundsAssumption DEF Init
<1>0. \A t \in Threads : stack[t] = <<>> /\ DOMAIN stack[t] = {}
  OBVIOUS
<1>1. ShellTypes
  <2>1. stack \in [Threads -> Seq(Frame)]
    OBVIOUS
  <2>2. driven \in Seq(Wakes) /\ queue \in Seq(Batch) /\ delivered \in Seq(Nat)
    OBVIOUS
  <2>3. lock \in Threads \cup {Nobody} /\ draining \in BOOLEAN
    OBVIOUS
  <2>4. calls \in 0..MaxCalls
    OBVIOUS
  <2> QED BY <2>1, <2>2, <2>3, <2>4 DEF ShellTypes
<1>2. LockHeld /\ FlagHeld
  BY <1>0 DEF LockHeld, FlagHeld
<1>3. BatchesInOrder
  <2>1. Chain(0, 0)
    BY DEF Chain
  <2>2. DrainerAt(0) /\ EnqueuerAt(0)
    BY <1>0 DEF DrainerAt, EnqueuerAt
  <2> QED BY <2>1, <2>2 DEF BatchesInOrder
<1>4. DeliveredInDriveOrder /\ NothingStranded
  BY DEF DeliveredInDriveOrder, NothingStranded
<1> QED BY <1>1, <1>2, <1>3, <1>4 DEF DeliveryInv

LEMMA NextPreserves == DeliveryInv /\ [Next]_vars => DeliveryInv'
<1> SUFFICES ASSUME DeliveryInv, [Next]_vars PROVE DeliveryInv'
  OBVIOUS
<1>1. CASE \E t \in Threads : Input(t) \/ Step(t)
  BY <1>1, InputPreserves, StepPreserves
<1>2. CASE \E c \in Calls : Take(c)
  <2>1. UNCHANGED <<lock, calls, shellVars, driven, stack, delivered>>
    BY <1>2 DEF Take, coreVars
  <2> QED BY <2>1, OutsidePreserves
<1>3. CASE UNCHANGED vars
  <2>1. UNCHANGED <<lock, calls, shellVars, driven, stack, delivered>>
    BY <1>3 DEF vars, coreVars
  <2> QED BY <2>1, OutsidePreserves
<1> QED BY <1>1, <1>2, <1>3 DEF Next

-----------------------------------------------------------------------------
(* Theorems                                                                *)

\* What is delivered, held by the drainer, queued and held by the thread under the
\* lock is what was driven, in that order: the shell loses and repeats no wake.
THEOREM DeliveryInvariant == Spec => []DeliveryInv
<1>1. Init => DeliveryInv
  BY InitDelivers
<1>2. DeliveryInv /\ [Next]_vars => DeliveryInv'
  BY NextPreserves
<1> QED BY <1>1, <1>2, PTL DEF Spec

\* For any number of threads, calls and nested drives, wakes run in drive order.
THEOREM DriveOrderKept == Spec => []DeliveredInDriveOrder
<1>1. DeliveryInv => DeliveredInDriveOrder
  BY DEF DeliveryInv
<1> QED BY <1>1, DeliveryInvariant, PTL

\* No batch is left in the queue with every thread gone: the drainer's second look
\* closes the window between its last pop and the flag.
THEOREM NoneStranded == Spec => []NothingStranded
<1>1. DeliveryInv => NothingStranded
  BY DEF DeliveryInv
<1> QED BY <1>1, DeliveryInvariant, PTL

\* At most one drive of one thread delivers at any time.
THEOREM OneDrainer ==
    Spec => [](\A t, u \in Threads : \A i \in DOMAIN stack[t], j \in DOMAIN stack[u] :
                 stack[t][i].at \in Drainer /\ stack[u][j].at \in Drainer
                   => t = u /\ i = j)
<1>1. DeliveryInv =>
        (\A t, u \in Threads : \A i \in DOMAIN stack[t], j \in DOMAIN stack[u] :
           stack[t][i].at \in Drainer /\ stack[u][j].at \in Drainer => t = u /\ i = j)
  BY DEF DeliveryInv, FlagHeld, In
<1> QED BY <1>1, DeliveryInvariant, PTL

-----------------------------------------------------------------------------
(* The invariant of the answers and the stop                               *)

ReplyTypes ==
    /\ stopped \in BOOLEAN
    /\ senders \subseteq 1..calls
    /\ refused \subseteq 1..calls
    /\ channel \in [Calls -> {"none", "empty", "full", "taken", "gone"}]
    /\ \A c \in Calls : channel[c] = "none" <=> c > calls

\* A settlement leaves the core once, and takes the sender with it.
SettlesOnce ==
    \A c \in Calls :
      /\ \A i, j \in DOMAIN driven :
           driven[i] = Settle(c) /\ driven[j] = Settle(c) => i = j
      /\ \A i \in DOMAIN driven : driven[i] = Settle(c) => c \notin senders /\ c <= calls

\* A stop settles and closes before it is done; only refusals settle later.
StopCloses ==
    /\ stopped => senders = {} /\ \E k \in DOMAIN driven : driven[k] = CloseBus
    /\ \A j \in DOMAIN driven : driven[j].kind = "done" =>
         /\ stopped
         /\ \E k \in DOMAIN driven : k < j /\ driven[k] = CloseBus
         /\ \A i \in DOMAIN driven : \A c \in Calls \ refused :
              driven[i] = Settle(c) => i < j

\* What is closed and finished, the delivered wakes did.
EffectsDelivered ==
    /\ \A k \in DOMAIN driven :
         k <= Len(delivered) /\ driven[k] = CloseBus => bus = "closed"
    /\ finished # {} =>
         \E j \in DOMAIN driven : j <= Len(delivered) /\ driven[j].kind = "done"

ReplyInv ==
    /\ DeliveryInv /\ ReplyTypes /\ SettlesOnce /\ OneAnswerToCome
    /\ StopCloses /\ EffectsDelivered

-----------------------------------------------------------------------------
(* Wakes and settlements                                                   *)

\* A wake says what it does.
LEMMA WakeFacts ==
    /\ \A c, d \in Calls : Settle(c) = Settle(d) => c = d
    /\ \A c \in Calls : Settle(c).kind = "Settle" /\ Settle(c).call = c
    /\ Emit.kind = "Emit" /\ CloseBus.kind = "CloseBus"
    /\ \A t \in Threads : Done(t).kind = "done" /\ Done(t).thread = t
BY DEF Settle, Emit, CloseBus, Done

\* The core settles every call of S with a sender, each once, and nothing else.
LEMMA SettledFacts ==
    ASSUME NEW S \in SUBSET Calls, NEW settled \in Settlements(S)
    PROVE  /\ settled \in Seq(Wakes)
           /\ \A i \in DOMAIN settled : \E c \in S \cap senders : settled[i] = Settle(c)
           /\ \A i, j \in DOMAIN settled : settled[i] = settled[j] => i = j
           /\ \A c \in S \cap senders : \E i \in DOMAIN settled : settled[i] = Settle(c)
<1> DEFINE open == S \cap senders
           n == Cardinality(open)
<1>1. IsFiniteSet(Calls)
  BY FS_Interval, BoundsAssumption DEF Calls
<1>2. IsFiniteSet(open) /\ n \in Nat
  BY <1>1, FS_Subset, FS_CardinalityType
<1>3. PICK order \in [1..n -> open] :
        /\ settled = [i \in DOMAIN order |-> Settle(order[i])]
        /\ \A i, j \in DOMAIN order : i < j => order[i] < order[j]
  BY DEF Settlements
<1>4. open \subseteq Calls /\ open \subseteq Nat
  <2>1. Calls \subseteq Nat
    BY BoundsAssumption DEF Calls
  <2> QED BY <2>1
<1> HIDE DEF open, n
<1>5. \A i, j \in 1..n : order[i] = order[j] => i = j
  <2>1. \A i \in 1..n : order[i] \in Nat
    BY <1>3, <1>4
  <2>2. \A i, j \in 1..n : i < j => order[i] < order[j]
    BY <1>3
  <2>3. \A i, j \in 1..n : i < j \/ j < i \/ i = j
    BY <1>2
  <2> QED BY <2>1, <2>2, <2>3
<1>6. 1..n = DOMAIN order /\ IsFiniteSet(1..n) /\ Cardinality(1..n) = n
  BY <1>2, <1>3, FS_Interval
<1>7. order \in Injection(1..n, open)
  BY <1>3, <1>5 DEF Injection, IsInjective
<1>8. order \in Surjection(1..n, open)
  BY <1>7, <1>6, <1>2, FS_Injection DEF n
<1>9. \A c \in open : \E i \in 1..n : order[i] = c
  BY <1>8 DEF Surjection
<1>10. /\ DOMAIN settled = 1..n
       /\ \A i \in 1..n : settled[i] = Settle(order[i]) /\ order[i] \in open
  BY <1>3, <1>6
<1>11. settled \in Seq(Wakes)
  BY SettlementsAreWakes
<1>12. \A i, j \in DOMAIN settled : settled[i] = settled[j] => i = j
  <2>1. SUFFICES ASSUME NEW i \in 1..n, NEW j \in 1..n,
                        Settle(order[i]) = Settle(order[j])
                 PROVE  i = j
    BY <1>10
  <2>2. order[i] = order[j]
    BY <2>1, <1>4, <1>10, WakeFacts
  <2> QED BY <2>2, <1>5
<1>13. \A c \in open : \E i \in DOMAIN settled : settled[i] = Settle(c)
  BY <1>9, <1>10
<1> QED BY <1>10, <1>11, <1>12, <1>13 DEF open

\* Where the wakes of a drive lie.
LEMMA DrivenFacts ==
    ASSUME driven \in Seq(Wakes), NEW wakes \in Seq(Wakes), driven' = driven \o wakes
    PROVE  /\ Len(driven) \in Nat /\ Len(driven') = Len(driven) + Len(wakes)
           /\ \A i \in DOMAIN driven :
                i \in DOMAIN driven' /\ driven'[i] = driven[i] /\ i <= Len(driven)
           /\ \A i \in DOMAIN driven' :
                \/ i \in DOMAIN driven
                \/ \E j \in DOMAIN wakes : i = Len(driven) + j /\ driven'[i] = wakes[j]
           /\ \A j \in DOMAIN wakes : /\ Len(driven) + j \in DOMAIN driven'
                                      /\ driven'[Len(driven) + j] = wakes[j]
                                      /\ j \in Nat \ {0}
           /\ DOMAIN driven \subseteq Nat \ {0} /\ DOMAIN driven' \subseteq Nat \ {0}
<1>1. driven' \in Seq(Wakes) /\ Len(driven') = Len(driven) + Len(wakes)
  OBVIOUS
<1>2. /\ Len(driven) \in Nat /\ DOMAIN driven = 1..Len(driven)
      /\ Len(wakes) \in Nat /\ DOMAIN wakes = 1..Len(wakes)
      /\ DOMAIN driven' = 1..(Len(driven) + Len(wakes))
  BY <1>1
<1>3. \A i \in 1..(Len(driven) + Len(wakes)) :
        driven'[i] = IF i <= Len(driven) THEN driven[i] ELSE wakes[i - Len(driven)]
  BY ConcatProperties
<1>4. ASSUME NEW i \in DOMAIN driven', i \notin DOMAIN driven
      PROVE  \E j \in DOMAIN wakes : i = Len(driven) + j /\ driven'[i] = wakes[j]
  <2>1. i - Len(driven) \in DOMAIN wakes /\ i = Len(driven) + (i - Len(driven))
    BY <1>2, <1>4
  <2>2. driven'[i] = wakes[i - Len(driven)]
    BY <1>2, <1>3, <1>4
  <2> QED BY <2>1, <2>2
<1>5. ASSUME NEW j \in DOMAIN wakes
      PROVE  Len(driven) + j \in DOMAIN driven' /\ driven'[Len(driven) + j] = wakes[j]
  <2>1. /\ Len(driven) + j \in 1..(Len(driven) + Len(wakes))
        /\ ~(Len(driven) + j <= Len(driven)) /\ (Len(driven) + j) - Len(driven) = j
    BY <1>2
  <2> QED BY <2>1, <1>2, <1>3
<1>6. \A i \in DOMAIN driven :
        i \in DOMAIN driven' /\ driven'[i] = driven[i] /\ i <= Len(driven)
  BY <1>2, <1>3
<1>7. DOMAIN driven \subseteq Nat \ {0} /\ DOMAIN driven' \subseteq Nat \ {0}
      /\ \A j \in DOMAIN wakes : j \in Nat \ {0}
  BY <1>2
<1> QED BY <1>1, <1>2, <1>4, <1>5, <1>6, <1>7

LEMMA LeastNumber ==
    ASSUME NEW S, S \subseteq Nat, S # {}
    PROVE  \E m \in S : \A k \in S : m <= k
<1> DEFINE R == {ss \in Nat \X Nat : ss[1] < ss[2]}
<1>1. IsWellFoundedOn(R, Nat)
  <2>1. OpToRel(<, Nat) = R
    BY DEF OpToRel
  <2> QED BY <2>1, NatLessThanWellFounded
<1>2. PICK m \in S : \A k \in S : <<k, m>> \notin R
  BY <1>1, WFMin
<1>3. ASSUME NEW k \in S PROVE m <= k
  <2>1. ~(k < m)
    BY <1>2
  <2> QED BY <2>1
<1> QED BY <1>3

LEMMA ChainGrows ==
    ASSUME queue \in Seq(Batch), NEW from \in Nat, NEW to \in Nat, Chain(from, to)
    PROVE  from <= to
<1>1. /\ Len(queue) \in Nat /\ DOMAIN queue = 1..Len(queue)
      /\ \A i \in DOMAIN queue : queue[i].first \in Nat /\ queue[i].last \in Nat
  <2>1. \A i \in DOMAIN queue : queue[i] \in Batch
    OBVIOUS
  <2> QED BY <2>1 DEF Batch
<1>2. CASE queue = <<>>
  BY <1>2 DEF Chain
<1>3. CASE queue # <<>>
  <2> DEFINE Early == {i \in DOMAIN queue : queue[i].first <= from}
  <2>1. 1 \in DOMAIN queue /\ Len(queue) \in DOMAIN queue
    BY <1>1, <1>3
  <2>2. Early = {}
    <3>1. SUFFICES ASSUME Early # {} PROVE FALSE
      OBVIOUS
    <3>2. Early \subseteq Nat
      BY <1>1
    <3>3. PICK m \in Early : \A k \in Early : m <= k
      BY <3>1, <3>2, LeastNumber
    <3>4. m # 1
      BY <2>1, <3>3, <1>3 DEF Chain
    <3>5. m - 1 \in DOMAIN queue /\ (m - 1) + 1 = m /\ ~(m <= m - 1)
      BY <3>4, <1>1
    <3>6. m - 1 \notin Early
      BY <3>3, <3>5
    <3>7. queue[m - 1].first > from
      BY <3>5, <3>6, <1>1
    <3>8. queue[m].first = queue[m - 1].last + 1 /\ queue[m - 1].first <= queue[m - 1].last
      BY <3>5 DEF Chain
    <3>9. queue[m].first <= from
      BY <3>3
    <3> QED BY <3>5, <3>7, <3>8, <3>9, <1>1
  <2>3. queue[Len(queue)].first > from
    BY <2>1, <2>2, <1>1
  <2>4. queue[Len(queue)].first <= queue[Len(queue)].last /\ queue[Len(queue)].last = to
    BY <2>1, <1>3 DEF Chain
  <2> QED BY <2>1, <2>3, <2>4, <1>1
<1> QED BY <1>2, <1>3

\* No more is delivered, or held by the drainer, than was driven.
LEMMA DeliveredWasDriven ==
    ASSUME DeliveryInv
    PROVE  /\ Len(delivered) \in Nat /\ Len(driven) \in Nat /\ Len(delivered) <= Len(driven)
           /\ \A t \in Threads : \A i \in DOMAIN stack[t] : In(t, i, {"deliver", "waking"}) =>
                /\ stack[t][i].batch.first = Len(delivered) + 1
                /\ stack[t][i].batch.last <= Len(driven)
<1>1. PICK from, to \in Nat : Chain(from, to) /\ DrainerAt(from) /\ EnqueuerAt(to)
  BY DEF DeliveryInv, BatchesInOrder
<1>2. Len(delivered) \in Nat /\ Len(driven) \in Nat /\ queue \in Seq(Batch)
  <2>1. delivered \in Seq(Nat) /\ driven \in Seq(Wakes) /\ queue \in Seq(Batch)
    BY DEF DeliveryInv, ShellTypes
  <2> QED BY <2>1
<1>3. from <= to
  BY <1>1, <1>2, ChainGrows
<1>4. Len(delivered) <= from
  BY <1>1, <1>2 DEF DrainerAt
<1>5. to <= Len(driven)
  BY <1>1, <1>2 DEF EnqueuerAt
<1> QED BY <1>1, <1>2, <1>3, <1>4, <1>5 DEF DrainerAt

-----------------------------------------------------------------------------
(* Inputs                                                                  *)

\* What the wakes of an input may settle: an open call, whose sender is taken, or
\* the call that the input dispatches.
Settling(wakes) ==
    /\ \A c \in Calls : \A i, j \in DOMAIN wakes :
         wakes[i] = Settle(c) /\ wakes[j] = Settle(c) => i = j
    /\ \A c \in Calls : \A i \in DOMAIN wakes : wakes[i] = Settle(c) =>
         c \notin senders' /\ c <= calls' /\ (c \in senders \/ c > calls)

\* What an input does to the callers: a dispatched call gets a sender or a
\* settlement, and a sender goes with a settlement or with its future.
Calling(wakes) ==
    /\ \A c \in Calls : c > calls /\ c <= calls' =>
         channel'[c] = "empty" /\ (c \in senders' \/ \E i \in DOMAIN wakes : wakes[i] = Settle(c))
    /\ \A c \in Calls : c > calls' => channel'[c] = "none"
    /\ \A c \in Calls : c <= calls =>
         \/ channel'[c] = channel[c]
         \/ channel[c] \in {"empty", "full"} /\ channel'[c] = "gone" /\ c \notin senders'
    /\ \A c \in senders' : (c \in senders \/ c > calls) /\ c \in 1..calls'
    /\ \A c \in senders : \/ c \in senders' \/ channel'[c] = "gone"
                          \/ \E i \in DOMAIN wakes : wakes[i] = Settle(c)
    /\ calls' \in Nat /\ calls <= calls'
    /\ UNCHANGED <<bus, finished>>

LEMMA InputReplies ==
    ASSUME ReplyInv, NEW t \in Threads, NEW wakes \in Seq(Wakes), Drive(t, wakes),
           Settling(wakes), Calling(wakes)
    PROVE  SettlesOnce' /\ OneAnswerToCome' /\ EffectsDelivered'
<1> DEFINE n == Len(driven)
<1>d. driven' = driven \o wakes /\ delivered' = delivered
  BY DEF Drive
<1>t. /\ driven \in Seq(Wakes) /\ calls \in Nat /\ calls' \in Nat /\ calls <= calls'
      /\ Calls \subseteq Nat /\ senders \subseteq 1..calls
      /\ \A c \in senders : c <= calls
  BY BoundsAssumption DEF ReplyInv, DeliveryInv, ShellTypes, ReplyTypes, Calls, Calling
<1>f. /\ n \in Nat
      /\ \A i \in DOMAIN driven :
           i \in DOMAIN driven' /\ driven'[i] = driven[i] /\ i <= n
      /\ \A i \in DOMAIN driven' :
           \/ i \in DOMAIN driven
           \/ \E j \in DOMAIN wakes : i = n + j /\ driven'[i] = wakes[j]
      /\ \A j \in DOMAIN wakes : /\ n + j \in DOMAIN driven'
                                 /\ driven'[n + j] = wakes[j]
                                 /\ j \in Nat \ {0}
      /\ DOMAIN driven \subseteq Nat \ {0} /\ DOMAIN driven' \subseteq Nat \ {0}
  BY <1>d, <1>t, DrivenFacts
<1>l. Len(delivered) \in Nat /\ Len(delivered) <= n
  BY DeliveredWasDriven DEF ReplyInv
<1> HIDE DEF n
<1>s. \A c \in Calls :
        /\ \A i, j \in DOMAIN driven :
             driven[i] = Settle(c) /\ driven[j] = Settle(c) => i = j
        /\ \A i \in DOMAIN driven : driven[i] = Settle(c) => c \notin senders /\ c <= calls
  BY DEF ReplyInv, SettlesOnce
<1>w. \A c \in Calls :
        /\ \A i, j \in DOMAIN wakes : wakes[i] = Settle(c) /\ wakes[j] = Settle(c) => i = j
        /\ \A i \in DOMAIN wakes : wakes[i] = Settle(c) =>
             c \notin senders' /\ c <= calls' /\ (c \in senders \/ c > calls)
  BY DEF Settling
<1>k. /\ \A c \in senders' : c \in senders \/ c > calls
      /\ \A c \in Calls : c > calls => c \notin senders
  BY <1>t DEF Calling
<1>1. ASSUME NEW c \in Calls
      PROVE  /\ \A i, j \in DOMAIN driven' :
                  driven'[i] = Settle(c) /\ driven'[j] = Settle(c) => i = j
             /\ \A i \in DOMAIN driven' :
                  driven'[i] = Settle(c) => c \notin senders' /\ c <= calls'
  <2>1. ASSUME NEW i \in DOMAIN driven, driven[i] = Settle(c)
        PROVE  /\ c \notin senders' /\ c <= calls'
               /\ \A j \in DOMAIN wakes : wakes[j] # Settle(c)
    <3>1. c \notin senders /\ c <= calls
      BY <2>1, <1>s
    <3> QED BY <3>1, <1>w, <1>k, <1>t
  <2>2. ASSUME NEW i \in DOMAIN driven', driven'[i] = Settle(c)
        PROVE  c \notin senders' /\ c <= calls'
    BY <2>2, <2>1, <1>f, <1>w
  <2>3. ASSUME NEW i \in DOMAIN driven', NEW j \in DOMAIN driven',
               driven'[i] = Settle(c), driven'[j] = Settle(c)
        PROVE  i = j
    <3>1. CASE i \in DOMAIN driven /\ j \in DOMAIN driven
      BY <3>1, <2>3, <1>f, <1>s
    <3>2. CASE i \in DOMAIN driven /\ j \notin DOMAIN driven
      BY <3>2, <2>1, <2>3, <1>f
    <3>3. CASE i \notin DOMAIN driven /\ j \in DOMAIN driven
      BY <3>3, <2>1, <2>3, <1>f
    <3>4. CASE i \notin DOMAIN driven /\ j \notin DOMAIN driven
      BY <3>4, <2>3, <1>f, <1>w
    <3> QED BY <3>1, <3>2, <3>3, <3>4
  <2> QED BY <2>2, <2>3
<1>2. SettlesOnce'
  BY <1>1 DEF SettlesOnce
<1>3. ASSUME NEW c \in Calls
      PROVE  Pending(c)' # {} <=>
               Pending(c) # {} \/ \E j \in DOMAIN wakes : wakes[j] = Settle(c)
  <2>1. ASSUME NEW i \in Pending(c) PROVE i \in Pending(c)'
    BY <1>d, <1>f DEF Pending
  <2>2. ASSUME NEW j \in DOMAIN wakes, wakes[j] = Settle(c) PROVE n + j \in Pending(c)'
    <3>1. n + j \in DOMAIN driven' /\ driven'[n + j] = Settle(c)
      BY <2>2, <1>f
    <3>2. n + j > Len(delivered)
      BY <1>f, <1>l
    <3> QED BY <3>1, <3>2, <1>d DEF Pending
  <2>3. ASSUME NEW i \in Pending(c)'
        PROVE  i \in Pending(c) \/ \E j \in DOMAIN wakes : wakes[j] = Settle(c)
    <3>1. i \in DOMAIN driven' /\ driven'[i] = Settle(c) /\ i > Len(delivered)
      BY <2>3, <1>d DEF Pending
    <3>2. CASE i \in DOMAIN driven
      BY <3>1, <3>2, <1>f DEF Pending
    <3>3. CASE i \notin DOMAIN driven
      BY <3>1, <3>3, <1>f
    <3> QED BY <3>2, <3>3
  <2> QED BY <2>1, <2>2, <2>3
<1>4. OneAnswerToCome'
  <2>1. ASSUME NEW c \in Calls
        PROVE  /\ channel'[c] = "empty"
                    <=> (c \in senders' \/ Pending(c)' # {}) /\ channel'[c] # "gone"
               /\ c \in senders' => Pending(c)' = {}
    <3> DEFINE settled == \E j \in DOMAIN wakes : wakes[j] = Settle(c)
    <3>1. Pending(c)' # {} <=> Pending(c) # {} \/ settled
      BY <1>3
    <3>2. /\ channel[c] = "empty"
               <=> (c \in senders \/ Pending(c) # {}) /\ channel[c] # "gone"
          /\ c \in senders => Pending(c) = {}
      BY DEF ReplyInv, OneAnswerToCome
    <3>3. Pending(c) # {} => c \notin senders /\ c <= calls
      BY <1>s DEF Pending
    <3>4. settled => c \notin senders' /\ c <= calls' /\ (c \in senders \/ c > calls)
      BY <1>w
    <3> HIDE DEF settled
    <3>5. c \in Nat /\ (c > calls => ~(c <= calls)) /\ (c <= calls \/ c > calls)
          /\ (c > calls' => ~(c <= calls')) /\ (c <= calls' \/ c > calls')
          /\ (c <= calls => c <= calls')
      BY <1>t
    <3>6. /\ c > calls /\ c <= calls' => channel'[c] = "empty" /\ (c \in senders' \/ settled)
          /\ c > calls' => channel'[c] = "none"
          /\ c <= calls =>
               \/ channel'[c] = channel[c]
               \/ channel[c] \in {"empty", "full"} /\ channel'[c] = "gone" /\ c \notin senders'
          /\ c \in senders => c \in senders' \/ channel'[c] = "gone" \/ settled
      BY DEF Calling, settled
    <3>7. /\ c \in senders' => c \in senders \/ c > calls
          /\ c > calls => c \notin senders
      BY <1>k
    <3>8. c \in senders' => Pending(c)' = {}
      BY <3>1, <3>2, <3>3, <3>4, <3>5, <3>7
    <3>9. c \in senders' => c <= calls'
      BY <1>t DEF Calling
    <3>10. CASE c > calls
      <4>1. Pending(c) = {} /\ c \notin senders
        BY <3>3, <3>5, <3>7, <3>10
      <4>2. CASE c <= calls'
        BY <4>1, <4>2, <3>1, <3>6, <3>8, <3>10
      <4>3. CASE c > calls'
        <5>1. ~settled
          BY <4>3, <3>4, <3>5
        <5>2. c \notin senders'
          BY <4>3, <3>5, <3>9
        <5> QED BY <4>1, <4>3, <5>1, <5>2, <3>1, <3>6
      <4> QED BY <4>2, <4>3, <3>5
    <3>11. CASE c <= calls
      BY <3>1, <3>2, <3>3, <3>4, <3>5, <3>6, <3>7, <3>8, <3>11
    <3> QED BY <3>10, <3>11, <3>5
  <2>2. \A c \in Calls : \A i, j \in DOMAIN driven' :
          driven'[i] = Settle(c) /\ driven'[j] = Settle(c) => i = j
    BY <1>1
  <2> QED BY <2>1, <2>2 DEF OneAnswerToCome
<1>5. EffectsDelivered'
  <2>1. UNCHANGED <<bus, finished>>
    BY DEF Calling
  <2>2. ASSUME NEW k \in DOMAIN driven', k <= Len(delivered), driven'[k] = CloseBus
        PROVE  bus = "closed"
    <3>1. k \in DOMAIN driven
      BY <2>2, <1>f, <1>l
    <3> QED BY <2>2, <3>1, <1>f DEF ReplyInv, EffectsDelivered
  <2>3. finished # {} =>
          \E j \in DOMAIN driven' : j <= Len(delivered) /\ driven'[j].kind = "done"
    BY <1>f DEF ReplyInv, EffectsDelivered
  <2> QED BY <2>1, <2>2, <2>3, <1>d DEF EffectsDelivered
<1> QED BY <1>2, <1>4, <1>5

LEMMA DispatchReplies ==
    ASSUME ReplyInv, NEW t \in Threads, Dispatch(t)
    PROVE  ReplyTypes' /\ SettlesOnce' /\ OneAnswerToCome' /\ StopCloses' /\ EffectsDelivered'
<1> DEFINE c == calls + 1
<1>t. /\ calls \in 0..MaxCalls /\ MaxCalls \in Nat /\ driven \in Seq(Wakes)
      /\ ReplyTypes
  BY BoundsAssumption DEF ReplyInv, DeliveryInv, ShellTypes
<1>u. /\ calls < MaxCalls /\ calls' = c
      /\ channel' = [channel EXCEPT ![c] = "empty"]
      /\ refused' = IF stopped THEN refused \cup {c} ELSE refused
      /\ UNCHANGED <<stopped, bus, finished>>
  BY DEF Dispatch
<1>c. c \in Calls /\ c > calls /\ c \in Nat /\ calls \in Nat /\ c \in 1..calls'
      /\ 1..calls \subseteq 1..calls' /\ c \notin 1..calls
      /\ \A d \in Calls : (d > calls /\ d <= calls' => d = c)
                          /\ (d > calls' => d > calls /\ d # c) /\ (d <= calls => d # c)
  BY <1>t, <1>u DEF Calls
<1> HIDE DEF c
<1>1. PICK wakes \in {<<Settle(c)>>, <<>>} :
        /\ Drive(t, wakes)
        /\ \/ wakes = <<Settle(c)>> /\ senders' = senders
           \/ wakes = <<>> /\ ~stopped /\ senders' = senders \cup {c}
  BY <1>u DEF Dispatch
<1>2. /\ wakes \in Seq(Wakes)
      /\ wakes = <<Settle(c)>> => DOMAIN wakes = {1} /\ wakes[1] = Settle(c)
      /\ wakes = <<>> => DOMAIN wakes = {}
  <2>1. Settle(c) \in Wakes
    BY <1>c DEF Wakes
  <2> HIDE DEF Settle
  <2>2. <<Settle(c)>> \in Seq(Wakes) /\ <<>> \in Seq(Wakes)
    BY <2>1
  <2>3. DOMAIN <<Settle(c)>> = {1} /\ <<Settle(c)>>[1] = Settle(c)
    OBVIOUS
  <2>4. DOMAIN <<>> = {}
    OBVIOUS
  <2>5. wakes \in Seq(Wakes)
    BY <2>2, <1>1
  <2> QED BY <2>3, <2>4, <2>5
<1>3. \A d \in Calls : Settle(d) = Settle(c) => d = c
  BY <1>c, WakeFacts
<1>4. \A i \in DOMAIN wakes : wakes[i] = Settle(c) /\ i = 1 /\ senders' = senders
  BY <1>1, <1>2
<1>5. Settling(wakes)
  <2>1. c \notin senders /\ c <= calls'
    BY <1>t, <1>c, <1>u DEF ReplyTypes
  <2> QED BY <2>1, <1>3, <1>4, <1>c DEF Settling
<1>6. Calling(wakes)
  <2>1. channel'[c] = "empty" /\ \A d \in Calls : d # c => channel'[d] = channel[d]
    BY <1>t, <1>u, <1>c DEF ReplyTypes
  <2>2. c \in senders' \/ \E i \in DOMAIN wakes : wakes[i] = Settle(c)
    BY <1>1, <1>2
  <2>3. \A d \in senders' : d \in senders \/ d = c
    BY <1>1
  <2>4. \A d \in senders : d \in senders' /\ d \in 1..calls /\ d \in Calls
    BY <1>1, <1>t DEF ReplyTypes, Calls
  <2>5. \A d \in Calls : d > calls' => channel'[d] = "none"
    BY <2>1, <1>c, <1>t DEF ReplyTypes
  <2>6. \A d \in Calls : d > calls /\ d <= calls' =>
          channel'[d] = "empty" /\ (d \in senders' \/ \E i \in DOMAIN wakes : wakes[i] = Settle(d))
    BY <2>1, <2>2, <1>c
  <2>7. \A d \in Calls : d <= calls => channel'[d] = channel[d]
    BY <2>1, <1>c
  <2>8. \A d \in senders' : (d \in senders \/ d > calls) /\ d \in 1..calls'
    BY <2>3, <2>4, <1>c
  <2>9. calls' \in Nat /\ calls <= calls'
    BY <1>u, <1>c
  <2> QED BY <2>4, <2>5, <2>6, <2>7, <2>8, <2>9, <1>u DEF Calling
<1>7. ReplyTypes'
  <2>1. channel' \in [Calls -> {"none", "empty", "full", "taken", "gone"}]
    BY <1>t, <1>u DEF ReplyTypes
  <2>2. \A d \in Calls : channel'[d] = "none" <=> d > calls'
    <3>1. channel'[c] = "empty" /\ \A d \in Calls : d # c => channel'[d] = channel[d]
      BY <1>t, <1>u, <1>c DEF ReplyTypes
    <3>2. \A d \in Calls : d # c => (d > calls <=> d > calls')
      BY <1>u, <1>t DEF c, Calls
    <3>3. ~(c > calls')
      BY <1>u, <1>c
    <3> QED BY <3>1, <3>2, <3>3, <1>t DEF ReplyTypes
  <2>3. senders' \subseteq 1..calls' /\ refused' \subseteq 1..calls' /\ stopped' \in BOOLEAN
    BY <1>t, <1>u, <1>c, <1>1 DEF ReplyTypes
  <2> QED BY <2>1, <2>2, <2>3 DEF ReplyTypes
<1>8. SettlesOnce' /\ OneAnswerToCome' /\ EffectsDelivered'
  BY <1>1, <1>2, <1>5, <1>6, InputReplies
<1>9. StopCloses'
  <2>0. driven' = driven \o wakes
    BY <1>1 DEF Drive
  <2>1. /\ \A i \in DOMAIN driven :
             i \in DOMAIN driven' /\ driven'[i] = driven[i]
        /\ \A i \in DOMAIN driven' :
             i \in DOMAIN driven \/ (driven'[i] = Settle(c))
    BY <2>0, <1>2, <1>4, <1>t, DrivenFacts
  <2>2. Settle(c).kind # "done"
    BY <1>c, WakeFacts
  <2>3. stopped => senders' = {}
    BY <1>1, <1>2, <1>t DEF ReplyInv, StopCloses
  <2>4. stopped => \E k \in DOMAIN driven' : driven'[k] = CloseBus
    BY <2>1 DEF ReplyInv, StopCloses
  <2>5. ASSUME NEW j \in DOMAIN driven', driven'[j].kind = "done"
        PROVE  /\ stopped
               /\ \E k \in DOMAIN driven' : k < j /\ driven'[k] = CloseBus
               /\ \A i \in DOMAIN driven' : \A d \in Calls \ refused' :
                    driven'[i] = Settle(d) => i < j
    <3>1. j \in DOMAIN driven /\ driven[j].kind = "done"
      BY <2>1, <2>2, <2>5
    <3>2. /\ stopped
          /\ \E k \in DOMAIN driven : k < j /\ driven[k] = CloseBus
          /\ \A i \in DOMAIN driven : \A d \in Calls \ refused :
               driven[i] = Settle(d) => i < j
      BY <3>1 DEF ReplyInv, StopCloses
    <3>3. refused' = refused \cup {c}
      BY <3>2, <1>u
    <3> QED BY <3>2, <3>3, <2>1, <1>3
  <2> QED BY <2>3, <2>4, <2>5, <1>u DEF StopCloses
<1> QED BY <1>7, <1>8, <1>9

LEMMA ReactReplies ==
    ASSUME ReplyInv, NEW t \in Threads, NEW events \in {<<>>, <<Emit>>},
           NEW S \in SUBSET Calls, React(t, events, S)
    PROVE  ReplyTypes' /\ SettlesOnce' /\ OneAnswerToCome' /\ StopCloses' /\ EffectsDelivered'
<1>t. /\ calls \in 0..MaxCalls /\ MaxCalls \in Nat /\ driven \in Seq(Wakes)
      /\ ReplyTypes /\ calls \in Nat /\ senders \subseteq Calls
      /\ \A c \in senders : c \in 1..calls /\ c <= calls
  BY BoundsAssumption DEF ReplyInv, DeliveryInv, ShellTypes, ReplyTypes, Calls
<1>u. /\ senders' = senders \ S
      /\ UNCHANGED <<stopped, calls, refused, channel, bus, finished>>
      /\ stopped => events = <<>>
  BY DEF React, effectVars
<1>1. PICK settled \in Settlements(S) : Drive(t, events \o settled)
  BY DEF React
<1>2. /\ settled \in Seq(Wakes)
      /\ \A i \in DOMAIN settled : \E c \in S \cap senders : settled[i] = Settle(c)
      /\ \A i, j \in DOMAIN settled : settled[i] = settled[j] => i = j
      /\ \A c \in S \cap senders : \E i \in DOMAIN settled : settled[i] = Settle(c)
  BY SettledFacts
<1> DEFINE wakes == events \o settled
           m == Len(events)
<1>3. /\ events \in Seq(Wakes) /\ m \in Nat
      /\ \A i \in DOMAIN events : events[i] = Emit
  <2>1. Emit \in Wakes
    BY DEF Wakes
  <2> HIDE DEF Emit
  <2>2. CASE events = <<>>
    BY <2>2
  <2>3. CASE events = <<Emit>>
    BY <2>1, <2>3
  <2> QED BY <2>2, <2>3
<1>4. /\ wakes \in Seq(Wakes)
      /\ \A i \in DOMAIN wakes :
           \/ wakes[i] = Emit
           \/ \E j \in DOMAIN settled : i = m + j /\ wakes[i] = settled[j]
      /\ \A j \in DOMAIN settled : m + j \in DOMAIN wakes /\ wakes[m + j] = settled[j]
  <2>1. /\ wakes \in Seq(Wakes) /\ DOMAIN wakes = 1..(m + Len(settled))
        /\ DOMAIN settled = 1..Len(settled) /\ Len(settled) \in Nat
        /\ DOMAIN events = 1..m
    BY <1>2, <1>3
  <2>2. \A i \in 1..(m + Len(settled)) :
          wakes[i] = IF i <= m THEN events[i] ELSE settled[i - m]
    BY <1>2, <1>3, ConcatProperties
  <2> HIDE DEF wakes, m
  <2>3. ASSUME NEW i \in DOMAIN wakes
        PROVE  \/ wakes[i] = Emit
               \/ \E j \in DOMAIN settled : i = m + j /\ wakes[i] = settled[j]
    <3>1. CASE i <= m
      BY <3>1, <2>1, <2>2, <1>3
    <3>2. CASE ~(i <= m)
      <4>1. i - m \in DOMAIN settled /\ i = m + (i - m)
        BY <3>2, <2>1, <1>3
      <4>2. wakes[i] = settled[i - m]
        BY <3>2, <2>1, <2>2
      <4> QED BY <4>1, <4>2
    <3> QED BY <3>1, <3>2
  <2>4. ASSUME NEW j \in DOMAIN settled
        PROVE  m + j \in DOMAIN wakes /\ wakes[m + j] = settled[j]
    <3>1. m + j \in 1..(m + Len(settled)) /\ ~(m + j <= m) /\ (m + j) - m = j
      BY <2>1, <1>3
    <3> QED BY <3>1, <2>1, <2>2
  <2> QED BY <2>1, <2>3, <2>4
<1> HIDE DEF wakes, m
<1>5. \A c \in Calls : Emit # Settle(c) /\ Emit.kind # "done" /\ Settle(c).kind # "done"
  BY WakeFacts
<1>6. Settling(wakes)
  <2>1. ASSUME NEW c \in Calls, NEW i \in DOMAIN wakes, wakes[i] = Settle(c)
        PROVE  /\ \E j \in DOMAIN settled : i = m + j /\ settled[j] = Settle(c)
               /\ c \in S \cap senders
    <3>1. PICK j \in DOMAIN settled : i = m + j /\ wakes[i] = settled[j]
      BY <2>1, <1>4, <1>5
    <3>2. PICK d \in S \cap senders : settled[j] = Settle(d)
      BY <1>2
    <3>3. d = c
      BY <3>1, <3>2, <2>1, <1>t, WakeFacts
    <3> QED BY <3>1, <3>2, <3>3, <2>1
  <2>2. ASSUME NEW c \in Calls, NEW i \in DOMAIN wakes, NEW j \in DOMAIN wakes,
               wakes[i] = Settle(c), wakes[j] = Settle(c)
        PROVE  i = j
    BY <2>1, <2>2, <1>2
  <2>3. ASSUME NEW c \in Calls, NEW i \in DOMAIN wakes, wakes[i] = Settle(c)
        PROVE  c \notin senders' /\ c <= calls' /\ (c \in senders \/ c > calls)
    BY <2>1, <2>3, <1>u, <1>t
  <2> QED BY <2>2, <2>3 DEF Settling
<1>7. Calling(wakes)
  <2>1. \A c \in Calls : (c > calls => ~(c <= calls)) /\ (c > calls => channel[c] = "none")
    BY <1>t DEF ReplyTypes, Calls
  <2>2. \A c \in senders : c \in senders' \/ \E i \in DOMAIN wakes : wakes[i] = Settle(c)
    <3>1. SUFFICES ASSUME NEW c \in S \cap senders
                   PROVE  \E i \in DOMAIN wakes : wakes[i] = Settle(c)
      BY <1>u
    <3> QED BY <1>2, <1>4
  <2> QED BY <2>1, <2>2, <1>t, <1>u DEF Calling
<1>8. ReplyTypes'
  BY <1>t, <1>u DEF ReplyTypes
<1>9. SettlesOnce' /\ OneAnswerToCome' /\ EffectsDelivered'
  <2>1. Drive(t, wakes)
    BY <1>1 DEF wakes
  <2> QED BY <2>1, <1>4, <1>6, <1>7, InputReplies
<1>10. StopCloses'
  <2>0. driven' = driven \o wakes
    BY <1>1 DEF Drive, wakes
  <2>1. /\ \A i \in DOMAIN driven : i \in DOMAIN driven' /\ driven'[i] = driven[i]
        /\ \A i \in DOMAIN driven' :
             \/ i \in DOMAIN driven
             \/ \E j \in DOMAIN wakes : driven'[i] = wakes[j]
    <3>1. driven \in Seq(Wakes) /\ wakes \in Seq(Wakes)
      BY <1>4, <1>t
    <3> QED BY <3>1, <2>0, DrivenFacts
  <2>2. \A j \in DOMAIN wakes : wakes[j].kind # "done"
    <3>1. \A j \in DOMAIN wakes : wakes[j] = Emit \/ \E c \in Calls : wakes[j] = Settle(c)
      BY <1>2, <1>4, <1>t
    <3>2. Emit.kind # "done" /\ \A c \in Calls : Settle(c).kind # "done"
      BY WakeFacts
    <3> HIDE DEF Emit
    <3> QED BY <3>1, <3>2
  <2>3. ASSUME stopped, NEW j \in DOMAIN wakes PROVE \A c \in Calls : wakes[j] # Settle(c)
    <3>1. senders = {}
      BY <2>3 DEF ReplyInv, StopCloses
    <3> QED BY <3>1, <1>2, <1>4, <1>5
  <2>4. stopped => senders' = {} /\ \E k \in DOMAIN driven' : driven'[k] = CloseBus
    BY <2>1, <1>u DEF ReplyInv, StopCloses
  <2>5. ASSUME NEW j \in DOMAIN driven', driven'[j].kind = "done"
        PROVE  /\ stopped
               /\ \E k \in DOMAIN driven' : k < j /\ driven'[k] = CloseBus
               /\ \A i \in DOMAIN driven' : \A d \in Calls \ refused :
                    driven'[i] = Settle(d) => i < j
    <3>1. j \in DOMAIN driven /\ driven[j].kind = "done"
      BY <2>1, <2>2, <2>5
    <3>2. /\ stopped
          /\ \E k \in DOMAIN driven : k < j /\ driven[k] = CloseBus
          /\ \A i \in DOMAIN driven : \A d \in Calls \ refused :
               driven[i] = Settle(d) => i < j
      BY <3>1 DEF ReplyInv, StopCloses
    <3> QED BY <3>2, <2>1, <2>3
  <2> QED BY <2>4, <2>5, <1>u DEF StopCloses
<1> QED BY <1>8, <1>9, <1>10

\* The batch of a stop: the open calls settle, the bus closes, the stop is done.
LEMMA StopFacts ==
    ASSUME ReplyInv, NEW t \in Threads, NEW first \in StopWakes
    PROVE  LET wakes == Append(first, Done(t))
               last  == Len(wakes)
           IN  /\ wakes \in Seq(Wakes) /\ last \in DOMAIN wakes /\ last \in Nat
               /\ wakes[last] = Done(t)
               /\ \A i \in DOMAIN wakes : i <= last
               /\ \A i \in DOMAIN wakes : i # last =>
                    \/ wakes[i] \in {Emit, CloseBus}
                    \/ \E c \in senders : wakes[i] = Settle(c)
               /\ \A c \in Calls : \A i, j \in DOMAIN wakes :
                    wakes[i] = Settle(c) /\ wakes[j] = Settle(c) => i = j
               /\ \A c \in senders : \E i \in DOMAIN wakes : wakes[i] = Settle(c)
               /\ ~stopped => \E k \in DOMAIN wakes : k < last /\ wakes[k] = CloseBus
<1>w. /\ Emit \in Wakes /\ CloseBus \in Wakes /\ Done(t) \in Wakes
      /\ \A c \in Calls : Settle(c) # Done(t) /\ Settle(c) # Emit /\ Settle(c) # CloseBus
  <2>1. Emit \in Wakes /\ CloseBus \in Wakes /\ Done(t) \in Wakes
    BY DEF Wakes
  <2>2. /\ \A c \in Calls : Settle(c).kind = "Settle"
        /\ Emit.kind = "Emit" /\ CloseBus.kind = "CloseBus" /\ Done(t).kind = "done"
    BY WakeFacts
  <2> HIDE DEF Settle, Emit, CloseBus, Done
  <2> QED BY <2>1, <2>2
<1> DEFINE wakes == Append(first, Done(t))
           last  == Len(wakes)
<1>1. CASE stopped
  <2>1. first = <<>> /\ senders = {}
    BY <1>1 DEF StopWakes, ReplyInv, StopCloses
  <2>2. /\ wakes \in Seq(Wakes) /\ last = 1 /\ DOMAIN wakes = {1} /\ wakes[1] = Done(t)
    BY <2>1, <1>w
  <2> QED BY <2>1, <2>2, <1>1, <1>w
<1>2. CASE ~stopped
  <2>1. PICK settled \in Settlements(Calls) :
          first = <<Emit>> \o settled \o <<Emit, CloseBus>>
    BY <1>2 DEF StopWakes
  <2>2. senders \subseteq Calls
    BY BoundsAssumption DEF ReplyInv, DeliveryInv, ShellTypes, ReplyTypes, Calls
  <2>3. /\ settled \in Seq(Wakes)
        /\ \A i \in DOMAIN settled : \E c \in senders : settled[i] = Settle(c)
        /\ \A i, j \in DOMAIN settled : settled[i] = settled[j] => i = j
        /\ \A c \in senders : \E i \in DOMAIN settled : settled[i] = Settle(c)
    <3>1. Calls \cap senders = senders
      BY <2>2
    <3> QED BY <3>1, SettledFacts
  <2> DEFINE n == Len(settled)
             head == <<Emit>> \o settled
             tail == <<Emit, CloseBus>>
  <2>a. /\ <<Emit>> \in Seq(Wakes) /\ Len(<<Emit>>) = 1 /\ <<Emit>>[1] = Emit
        /\ tail \in Seq(Wakes) /\ Len(tail) = 2 /\ tail[1] = Emit /\ tail[2] = CloseBus
        /\ n \in Nat /\ DOMAIN settled = 1..n
    <3> HIDE DEF Emit, CloseBus
    <3> QED BY <1>w, <2>3
  <2> HIDE DEF n, tail
  <2>4. /\ head \in Seq(Wakes) /\ Len(head) = n + 1
        /\ head[1] = Emit /\ \A j \in 1..n : head[j + 1] = settled[j]
    <3>1. head \in Seq(Wakes) /\ Len(head) = n + 1
      BY <2>a, <2>3 DEF n
    <3>2. \A i \in 1..(1 + n) : head[i] = IF i <= 1 THEN <<Emit>>[i] ELSE settled[i - 1]
      BY <2>a, <2>3, ConcatProperties DEF n
    <3> HIDE DEF head
    <3>3. ASSUME NEW j \in 1..n PROVE head[j + 1] = settled[j]
      <4>1. j + 1 \in 1..(1 + n) /\ ~(j + 1 <= 1) /\ (j + 1) - 1 = j
        BY <2>a
      <4> QED BY <4>1, <3>2
    <3>4. head[1] = Emit
      <4>1. 1 \in 1..(1 + n)
        BY <2>a
      <4> QED BY <4>1, <3>2, <2>a
    <3> QED BY <3>1, <3>3, <3>4
  <2> HIDE DEF head
  <2>5. /\ first \in Seq(Wakes) /\ Len(first) = n + 3
        /\ \A j \in 1..(n + 1) : first[j] = head[j]
        /\ first[n + 2] = Emit /\ first[n + 3] = CloseBus
    <3>0. first = head \o tail
      BY <2>1 DEF head, tail
    <3>a. /\ first \in Seq(Wakes) /\ Len(first) = Len(head) + Len(tail)
          /\ \A i \in 1..(Len(head) + Len(tail)) :
               first[i] = IF i <= Len(head) THEN head[i] ELSE tail[i - Len(head)]
      <4>1. head \in Seq(Wakes) /\ tail \in Seq(Wakes)
        BY <2>4, <2>a
      <4> QED BY <4>1, <3>0, ConcatProperties
    <3>b. Len(head) = n + 1 /\ Len(head) + Len(tail) = n + 3
      BY <2>4, <2>a
    <3>1. first \in Seq(Wakes) /\ Len(first) = n + 3
      BY <3>a, <3>b
    <3>2. \A i \in 1..(n + 3) :
            first[i] = IF i <= n + 1 THEN head[i] ELSE tail[i - (n + 1)]
      BY <3>a, <3>b
    <3>3. \A j \in 1..(n + 1) : j \in 1..(n + 3) /\ j <= n + 1
      BY <2>a
    <3>4. /\ n + 2 \in 1..(n + 3) /\ ~(n + 2 <= n + 1) /\ (n + 2) - (n + 1) = 1
          /\ n + 3 \in 1..(n + 3) /\ ~(n + 3 <= n + 1) /\ (n + 3) - (n + 1) = 2
      BY <2>a
    <3> QED BY <3>1, <3>2, <3>3, <3>4, <2>a
  <2>6. /\ wakes \in Seq(Wakes) /\ last = n + 4 /\ DOMAIN wakes = 1..(n + 4)
        /\ wakes[n + 4] = Done(t)
        /\ \A j \in 1..(n + 3) : wakes[j] = first[j]
    <3>1. DOMAIN first = 1..(n + 3)
      BY <2>5, <2>a
    <3> HIDE DEF Done
    <3> QED BY <3>1, <2>5, <2>a, <1>w
  <2> HIDE DEF wakes, last
  <2>7. /\ wakes[1] = Emit /\ wakes[n + 2] = Emit /\ wakes[n + 3] = CloseBus
        /\ \A j \in 1..n : j + 1 \in DOMAIN wakes /\ wakes[j + 1] = settled[j]
    <3>1. /\ 1 \in 1..(n + 3) /\ 1 \in 1..(n + 1)
          /\ n + 2 \in 1..(n + 3) /\ n + 3 \in 1..(n + 3)
          /\ \A j \in 1..n : j + 1 \in 1..(n + 3) /\ j + 1 \in 1..(n + 1) /\ j + 1 \in 1..(n + 4)
      BY <2>a
    <3> QED BY <3>1, <2>4, <2>5, <2>6
  <2>8. \A i \in DOMAIN wakes :
          \/ i \in {1, n + 2} /\ wakes[i] = Emit
          \/ i = n + 3 /\ wakes[i] = CloseBus
          \/ i = n + 4 /\ wakes[i] = Done(t)
          \/ \E j \in 1..n : i = j + 1 /\ wakes[i] = settled[j]
    <3>1. SUFFICES ASSUME NEW i \in 1..(n + 4), i \notin {1, n + 2, n + 3, n + 4}
                   PROVE  \E j \in 1..n : i = j + 1 /\ wakes[i] = settled[j]
      BY <2>6, <2>7
    <3>2. i - 1 \in 1..n /\ i = (i - 1) + 1
      BY <3>1, <2>a
    <3> QED BY <3>2, <2>7
  <2>9. ASSUME NEW c \in Calls, NEW i \in DOMAIN wakes, wakes[i] = Settle(c)
        PROVE  \E j \in DOMAIN settled : i = j + 1 /\ settled[j] = Settle(c)
    BY <2>8, <2>9, <2>a, <1>w
  <2>10. \A c \in Calls : \A i, j \in DOMAIN wakes :
           wakes[i] = Settle(c) /\ wakes[j] = Settle(c) => i = j
    BY <2>9, <2>3
  <2>11. \A c \in senders : \E i \in DOMAIN wakes : wakes[i] = Settle(c)
    <3>1. SUFFICES ASSUME NEW c \in senders
                   PROVE  \E i \in DOMAIN wakes : wakes[i] = Settle(c)
      OBVIOUS
    <3>2. PICK j \in DOMAIN settled : settled[j] = Settle(c)
      BY <2>3
    <3>3. j + 1 \in DOMAIN wakes /\ wakes[j + 1] = Settle(c)
      BY <3>2, <2>7, <2>a
    <3> QED BY <3>3
  <2>12. \A i \in DOMAIN wakes : i # last =>
           \/ wakes[i] \in {Emit, CloseBus}
           \/ \E c \in senders : wakes[i] = Settle(c)
    BY <2>8, <2>6, <2>3, <2>a
  <2>13. /\ last \in DOMAIN wakes /\ last \in Nat /\ wakes[last] = Done(t)
         /\ \A i \in DOMAIN wakes : i <= last
    BY <2>6, <2>a
  <2>14. \E k \in DOMAIN wakes : k < last /\ wakes[k] = CloseBus
    <3>1. n + 3 \in DOMAIN wakes /\ n + 3 < last
      BY <2>6, <2>a
    <3> QED BY <3>1, <2>7
  <2>15. /\ wakes \in Seq(Wakes) /\ last \in DOMAIN wakes /\ last \in Nat
         /\ wakes[last] = Done(t)
         /\ \A i \in DOMAIN wakes : i <= last
         /\ \A i \in DOMAIN wakes : i # last =>
              \/ wakes[i] \in {Emit, CloseBus}
              \/ \E c \in senders : wakes[i] = Settle(c)
         /\ \A c \in Calls : \A i, j \in DOMAIN wakes :
              wakes[i] = Settle(c) /\ wakes[j] = Settle(c) => i = j
         /\ \A c \in senders : \E i \in DOMAIN wakes : wakes[i] = Settle(c)
         /\ ~stopped => \E k \in DOMAIN wakes : k < last /\ wakes[k] = CloseBus
    BY <2>6, <2>10, <2>11, <2>12, <2>13, <2>14
  <2> QED BY <2>15 DEF wakes, last
<1> QED BY <1>1, <1>2

LEMMA StopReplies ==
    ASSUME ReplyInv, NEW t \in Threads, Stop(t)
    PROVE  ReplyTypes' /\ SettlesOnce' /\ OneAnswerToCome' /\ StopCloses' /\ EffectsDelivered'
<1>t. /\ calls \in 0..MaxCalls /\ MaxCalls \in Nat /\ driven \in Seq(Wakes)
      /\ ReplyTypes /\ calls \in Nat /\ senders \subseteq Calls
      /\ \A c \in senders : c \in 1..calls /\ c <= calls
  BY BoundsAssumption DEF ReplyInv, DeliveryInv, ShellTypes, ReplyTypes, Calls
<1>u. /\ senders' = {} /\ stopped' = TRUE
      /\ UNCHANGED <<calls, refused, channel, bus, finished>>
  BY DEF Stop, effectVars
<1>1. PICK first \in StopWakes : Drive(t, Append(first, Done(t)))
  BY DEF Stop
<1> DEFINE wakes == Append(first, Done(t))
           last  == Len(wakes)
           n     == Len(driven)
<1>2. /\ wakes \in Seq(Wakes) /\ last \in DOMAIN wakes /\ last \in Nat
      /\ wakes[last] = Done(t)
      /\ \A i \in DOMAIN wakes : i <= last
      /\ \A i \in DOMAIN wakes : i # last =>
           \/ wakes[i] \in {Emit, CloseBus}
           \/ \E c \in senders : wakes[i] = Settle(c)
      /\ \A c \in Calls : \A i, j \in DOMAIN wakes :
           wakes[i] = Settle(c) /\ wakes[j] = Settle(c) => i = j
      /\ \A c \in senders : \E i \in DOMAIN wakes : wakes[i] = Settle(c)
      /\ ~stopped => \E k \in DOMAIN wakes : k < last /\ wakes[k] = CloseBus
  BY StopFacts
<1>3. Drive(t, wakes) /\ driven' = driven \o wakes
  BY <1>1 DEF Drive
<1> HIDE DEF wakes, last
<1>4. /\ \A c, d \in Calls : Settle(c) = Settle(d) => c = d
      /\ \A c \in Calls : Settle(c) # Done(t) /\ Settle(c) \notin {Emit, CloseBus}
                          /\ Settle(c).kind # "done"
      /\ Emit.kind # "done" /\ CloseBus.kind # "done" /\ Done(t).kind = "done"
  <2>1. /\ \A c, d \in Calls : Settle(c) = Settle(d) => c = d
        /\ \A c \in Calls : Settle(c).kind = "Settle"
        /\ Emit.kind = "Emit" /\ CloseBus.kind = "CloseBus" /\ Done(t).kind = "done"
    BY WakeFacts
  <2> HIDE DEF Settle, Emit, CloseBus, Done
  <2> QED BY <2>1
<1>5. \A c \in Calls : \A i \in DOMAIN wakes : wakes[i] = Settle(c) => c \in senders /\ i # last
  BY <1>2, <1>4, <1>t
<1>6. Settling(wakes)
  BY <1>2, <1>5, <1>t, <1>u DEF Settling
<1>7. Calling(wakes)
  <2>1. \A c \in Calls : (c > calls => ~(c <= calls)) /\ (c > calls => channel[c] = "none")
    BY <1>t DEF ReplyTypes, Calls
  <2> QED BY <2>1, <1>2, <1>t, <1>u DEF Calling
<1>8. ReplyTypes'
  BY <1>t, <1>u DEF ReplyTypes
<1>9. SettlesOnce' /\ OneAnswerToCome' /\ EffectsDelivered'
  BY <1>2, <1>3, <1>6, <1>7, InputReplies
<1>10. StopCloses'
  <2>1. /\ n \in Nat
        /\ \A i \in DOMAIN driven : i \in DOMAIN driven' /\ driven'[i] = driven[i] /\ i <= n
        /\ \A i \in DOMAIN driven' :
             \/ i \in DOMAIN driven
             \/ \E j \in DOMAIN wakes : i = n + j /\ driven'[i] = wakes[j]
        /\ \A j \in DOMAIN wakes : /\ n + j \in DOMAIN driven'
                                   /\ driven'[n + j] = wakes[j]
                                   /\ j \in Nat \ {0}
        /\ DOMAIN driven \subseteq Nat
    <3>1. driven \in Seq(Wakes) /\ wakes \in Seq(Wakes)
      BY <1>2, <1>t
    <3> QED BY <3>1, <1>3, DrivenFacts
  <2> HIDE DEF n
  <2>2. \A j \in DOMAIN wakes : wakes[j].kind = "done" => j = last
    BY <1>2, <1>4, <1>t
  <2>3. /\ n + last \in DOMAIN driven' /\ n + last > n
        /\ \A i \in DOMAIN driven : i < n + last
    BY <2>1, <1>2
  <2>4. \E k \in DOMAIN driven' : k < n + last /\ driven'[k] = CloseBus
    <3>1. CASE stopped
      <4>1. PICK k \in DOMAIN driven : driven[k] = CloseBus
        BY <3>1 DEF ReplyInv, StopCloses
      <4> QED BY <4>1, <2>1, <2>3
    <3>2. CASE ~stopped
      <4>1. PICK k \in DOMAIN wakes : k < last /\ wakes[k] = CloseBus
        BY <3>2, <1>2
      <4>2. n + k \in DOMAIN driven' /\ driven'[n + k] = CloseBus
        BY <4>1, <2>1
      <4>3. n + k < n + last
        BY <4>1, <2>1, <1>2
      <4> QED BY <4>2, <4>3
    <3> QED BY <3>1, <3>2
  <2>5. ASSUME NEW i \in DOMAIN driven', NEW c \in Calls, driven'[i] = Settle(c)
        PROVE  i < n + last
    <3>1. CASE i \in DOMAIN driven
      BY <3>1, <2>3
    <3>2. CASE i \notin DOMAIN driven
      <4>1. PICK j \in DOMAIN wakes : i = n + j /\ driven'[i] = wakes[j]
        BY <3>2, <2>1
      <4>2. j # last /\ j <= last /\ j \in Nat
        BY <4>1, <2>5, <2>1, <1>5, <1>2
      <4> QED BY <4>1, <4>2, <2>1, <1>2
    <3> QED BY <3>1, <3>2
  <2>6. ASSUME NEW j \in DOMAIN driven', driven'[j].kind = "done"
        PROVE  /\ \E k \in DOMAIN driven' : k < j /\ driven'[k] = CloseBus
               /\ \A i \in DOMAIN driven' : \A c \in Calls \ refused :
                    driven'[i] = Settle(c) => i < j
    <3>1. CASE j \notin DOMAIN driven
      <4>1. j = n + last
        BY <3>1, <2>1, <2>2, <2>6
      <4> QED BY <4>1, <2>4, <2>5
    <3>2. CASE j \in DOMAIN driven
      <4>1. /\ stopped
            /\ \E k \in DOMAIN driven : k < j /\ driven[k] = CloseBus
            /\ \A i \in DOMAIN driven : \A c \in Calls \ refused :
                 driven[i] = Settle(c) => i < j
        <5>1. driven[j].kind = "done"
          BY <3>2, <2>1, <2>6
        <5> QED BY <3>2, <5>1 DEF ReplyInv, StopCloses
      <4>2. \A c \in Calls : \A i \in DOMAIN wakes : wakes[i] # Settle(c)
        <5>1. senders = {}
          BY <4>1 DEF ReplyInv, StopCloses
        <5> QED BY <5>1, <1>5
      <4> QED BY <4>1, <4>2, <2>1
    <3> QED BY <3>1, <3>2
  <2> QED BY <2>4, <2>6, <1>u DEF StopCloses
<1> QED BY <1>8, <1>9, <1>10

LEMMA DropReplies ==
    ASSUME ReplyInv, NEW t \in Threads, NEW c \in Calls, Drop(t, c)
    PROVE  ReplyTypes' /\ SettlesOnce' /\ OneAnswerToCome' /\ StopCloses' /\ EffectsDelivered'
<1>t. /\ calls \in 0..MaxCalls /\ MaxCalls \in Nat /\ driven \in Seq(Wakes)
      /\ ReplyTypes /\ calls \in Nat /\ senders \subseteq Calls
      /\ \A d \in senders : d \in 1..calls /\ d <= calls
  BY BoundsAssumption DEF ReplyInv, DeliveryInv, ShellTypes, ReplyTypes, Calls
<1>u. /\ channel[c] \in {"empty", "full"}
      /\ channel' = [channel EXCEPT ![c] = "gone"]
      /\ senders' = senders \ {c}
      /\ UNCHANGED <<stopped, calls, refused, bus, finished>>
      /\ Drive(t, <<>>)
  BY DEF Drop
<1>1. driven' = driven
  BY <1>u, <1>t DEF Drive
<1>2. <<>> \in Seq(Wakes) /\ DOMAIN <<>> = {}
  OBVIOUS
<1>3. channel'[c] = "gone" /\ \A d \in Calls : d # c => channel'[d] = channel[d]
  BY <1>t, <1>u DEF ReplyTypes
<1>4. /\ \A d \in Calls : (d > calls => ~(d <= calls)) /\ (d > calls <=> channel[d] = "none")
      /\ ~(c > calls)
  BY <1>t, <1>u DEF ReplyTypes, Calls
<1>5. Settling(<<>>)
  BY <1>2 DEF Settling
<1>6. Calling(<<>>)
  BY <1>2, <1>3, <1>4, <1>t, <1>u DEF Calling
<1>7. ReplyTypes'
  <2>1. channel' \in [Calls -> {"none", "empty", "full", "taken", "gone"}]
    BY <1>t, <1>u DEF ReplyTypes
  <2>2. \A d \in Calls : channel'[d] = "none" <=> d > calls
    BY <1>3, <1>4
  <2> QED BY <2>1, <2>2, <1>t, <1>u DEF ReplyTypes
<1>8. SettlesOnce' /\ OneAnswerToCome' /\ EffectsDelivered'
  BY <1>2, <1>5, <1>6, <1>u, InputReplies
<1>9. StopCloses'
  BY <1>1, <1>u DEF ReplyInv, StopCloses
<1> QED BY <1>7, <1>8, <1>9

-----------------------------------------------------------------------------
(* The futures and the drainer                                             *)

\* A future takes a result that is there.
LEMMA TakeReplies ==
    ASSUME ReplyInv, NEW c \in Calls, Take(c)
    PROVE  ReplyTypes' /\ SettlesOnce' /\ OneAnswerToCome' /\ StopCloses' /\ EffectsDelivered'
<1>u. /\ channel[c] = "full" /\ channel' = [channel EXCEPT ![c] = "taken"]
      /\ UNCHANGED <<stopped, calls, senders, refused, bus, finished, driven, delivered>>
  BY DEF Take, coreVars
<1>1. /\ channel \in [Calls -> {"none", "empty", "full", "taken", "gone"}]
      /\ channel'[c] = "taken" /\ \A d \in Calls : d # c => channel'[d] = channel[d]
  BY <1>u DEF ReplyInv, ReplyTypes
<1>2. ReplyTypes'
  BY <1>u, <1>1 DEF ReplyInv, ReplyTypes
<1>3. SettlesOnce' /\ StopCloses' /\ EffectsDelivered'
  BY <1>u DEF ReplyInv, SettlesOnce, StopCloses, EffectsDelivered
<1>4. OneAnswerToCome'
  <2>1. \A d \in Calls : Pending(d)' = Pending(d)
    BY <1>u DEF Pending
  <2> QED BY <1>u, <1>1, <2>1 DEF ReplyInv, OneAnswerToCome
<1> QED BY <1>2, <1>3, <1>4

\* A step that leaves the core, the futures and what is delivered alone.
LEMMA QuietReplies ==
    ASSUME ReplyInv, UNCHANGED <<coreVars, effectVars, driven, delivered>>
    PROVE  ReplyTypes' /\ SettlesOnce' /\ OneAnswerToCome' /\ StopCloses' /\ EffectsDelivered'
<1>u. UNCHANGED <<stopped, calls, senders, refused, channel, bus, finished, driven, delivered>>
  BY DEF coreVars, effectVars
<1>1. ReplyTypes'
  BY <1>u DEF ReplyInv, ReplyTypes
<1>2. SettlesOnce' /\ StopCloses' /\ EffectsDelivered'
  BY <1>u DEF ReplyInv, SettlesOnce, StopCloses, EffectsDelivered
<1>3. OneAnswerToCome'
  <2>1. \A d \in Calls : Pending(d)' = Pending(d)
    BY <1>u DEF Pending
  <2> QED BY <1>u, <2>1 DEF ReplyInv, OneAnswerToCome
<1> QED BY <1>1, <1>2, <1>3

\* The drainer runs the next wake: a settlement answers its own call.
LEMMA DeliverReplies ==
    ASSUME ReplyInv, NEW t \in Threads, Deliver(t)
    PROVE  ReplyTypes' /\ SettlesOnce' /\ OneAnswerToCome' /\ StopCloses' /\ EffectsDelivered'
<1> DEFINE batch == Top(t).batch
           n == Len(delivered)
<1>u. /\ UNCHANGED <<stopped, calls, senders, refused, driven>>
      /\ stack[t] # <<>> /\ Top(t).at = "deliver"
  BY DEF Deliver, At, coreVars
<1>t. /\ ShellTypes /\ driven \in Seq(Wakes) /\ delivered \in Seq(Nat) /\ n \in Nat
      /\ batch.first \in Nat \ {0} /\ batch.last \in Nat
      /\ Len(stack[t]) \in DOMAIN stack[t] /\ Top(t) = stack[t][Len(stack[t])]
  BY <1>u, TopFacts DEF ReplyInv, DeliveryInv, ShellTypes
<1>1. CASE IsEmpty(batch)
  <2>1. UNCHANGED <<coreVars, effectVars, driven, delivered>>
    BY <1>1 DEF Deliver
  <2> QED BY <2>1, QuietReplies
<1>2. CASE ~IsEmpty(batch)
  <2>1. batch.first = n + 1 /\ batch.last <= Len(driven) /\ Len(driven) \in Nat
    <3>1. In(t, Len(stack[t]), {"deliver", "waking"})
      BY <1>t, <1>u DEF In
    <3> QED BY <3>1, <1>t, DeliveredWasDriven DEF ReplyInv
  <2>2. Apply(driven[n + 1]) /\ delivered' = Append(delivered, n + 1)
    BY <1>2, <2>1 DEF Deliver
  <2>3. Len(delivered') = n + 1
    BY <2>2, <1>t
  <2>4. Len(driven) \in Nat /\ n + 1 <= Len(driven)
    BY <1>2, <2>1, <1>t DEF IsEmpty
  <2> DEFINE wake == driven[n + 1]
  <2>5. n + 1 \in DOMAIN driven /\ wake \in Wakes
    BY <2>4, <1>t
  <2> HIDE DEF n, wake
  <2>6. \A i \in DOMAIN driven : i \in Nat /\ (i <= n + 1 => i <= n \/ i = n + 1)
                                 /\ (i > n <=> i > n + 1 \/ i = n + 1)
    BY <1>t
  <2>7. /\ channel' = IF wake.kind = "Settle" /\ channel[wake.call] = "empty"
                      THEN [channel EXCEPT ![wake.call] = "full"] ELSE channel
        /\ bus' = IF wake.kind = "CloseBus" THEN "closed" ELSE bus
        /\ finished' = IF wake.kind = "done" THEN finished \cup {wake.thread} ELSE finished
    BY <2>2 DEF Apply, wake
  <2>8. /\ channel \in [Calls -> {"none", "empty", "full", "taken", "gone"}]
        /\ \A c \in Calls : channel[c] = "none" <=> c > calls
    BY DEF ReplyInv, ReplyTypes
  <2>9. ASSUME NEW c \in Calls
        PROVE  /\ wake = Settle(c) /\ channel[c] = "empty" => channel'[c] = "full"
               /\ wake # Settle(c) \/ channel[c] # "empty" => channel'[c] = channel[c]
    <3>1. Settle(c).kind = "Settle" /\ Settle(c).call = c
      BY WakeFacts
    <3>2. wake.kind = "Settle" => \E d \in Calls : wake = Settle(d) /\ wake.call = d
      <4>1. \/ \E d \in Calls : wake = Settle(d)
            \/ wake \in {Emit, CloseBus} \/ \E u \in Threads : wake = Done(u)
        BY <2>5 DEF Wakes
      <4>2. /\ Emit.kind # "Settle" /\ CloseBus.kind # "Settle"
            /\ \A u \in Threads : Done(u).kind # "Settle"
            /\ \A d \in Calls : Settle(d).call = d
        BY WakeFacts
      <4> HIDE DEF Settle, Emit, CloseBus, Done
      <4> QED BY <4>1, <4>2
    <3> HIDE DEF Settle
    <3> QED BY <3>1, <3>2, <2>7, <2>8
  <2>10. ReplyTypes'
    <3>1. channel' \in [Calls -> {"none", "empty", "full", "taken", "gone"}]
      BY <2>7, <2>8
    <3>2. \A c \in Calls : channel'[c] = "none" <=> c > calls
      BY <2>8, <2>9
    <3> QED BY <3>1, <3>2, <1>u DEF ReplyInv, ReplyTypes
  <2>11. SettlesOnce' /\ StopCloses'
    BY <1>u DEF ReplyInv, SettlesOnce, StopCloses
  <2>12. OneAnswerToCome'
    <3>1. \A c \in Calls : /\ \A i \in Pending(c)' : i \in DOMAIN driven /\ driven[i] = Settle(c) /\ i > n + 1
                           /\ \A i \in DOMAIN driven : driven[i] = Settle(c) /\ i > n + 1 => i \in Pending(c)'
                           /\ \A i \in DOMAIN driven : driven[i] = Settle(c) /\ i > n => i \in Pending(c)
                           /\ \A i \in Pending(c) : i \in DOMAIN driven /\ driven[i] = Settle(c) /\ i > n
      BY <1>u, <2>3 DEF Pending, n
    <3>2. ASSUME NEW c \in Calls, wake = Settle(c)
          PROVE  Pending(c)' = {} /\ Pending(c) # {}
      <4>1. n + 1 \in Pending(c)
        BY <3>1, <3>2, <2>5, <2>6 DEF wake
      <4>2. \A i \in DOMAIN driven : driven[i] = Settle(c) => i = n + 1
        BY <2>5, <3>2 DEF wake, ReplyInv, SettlesOnce
      <4>3. ~(n + 1 > n + 1)
        BY <1>t DEF n
      <4> QED BY <4>1, <4>2, <4>3, <3>1
    <3>3. ASSUME NEW c \in Calls, wake # Settle(c)
          PROVE  Pending(c)' = {} <=> Pending(c) = {}
      BY <3>1, <3>3, <2>6 DEF wake
    <3>4. ASSUME NEW c \in Calls
          PROVE  /\ channel'[c] = "empty"
                      <=> (c \in senders \/ Pending(c)' # {}) /\ channel'[c] # "gone"
                 /\ c \in senders => Pending(c)' = {}
      <4>1. /\ channel[c] = "empty"
                 <=> (c \in senders \/ Pending(c) # {}) /\ channel[c] # "gone"
            /\ c \in senders => Pending(c) = {}
        BY DEF ReplyInv, OneAnswerToCome
      <4>2. CASE wake = Settle(c)
        <5>1. Pending(c)' = {} /\ Pending(c) # {}
          BY <4>2, <3>2
        <5>2. channel[c] = "empty" \/ channel[c] = "gone"
          BY <5>1, <4>1
        <5>3. /\ channel[c] = "empty" => channel'[c] = "full"
              /\ channel[c] # "empty" => channel'[c] = channel[c]
          BY <4>2, <2>9
        <5> QED BY <5>1, <5>2, <5>3, <4>1
      <4>3. CASE wake # Settle(c)
        BY <4>1, <4>3, <3>3, <2>9
      <4> QED BY <4>2, <4>3
    <3> QED BY <3>4, <1>u DEF ReplyInv, OneAnswerToCome
  <2>13. EffectsDelivered'
    <3>1. CloseBus.kind = "CloseBus" /\ \A u \in Threads : Done(u).kind = "done"
      BY WakeFacts
    <3>2. ASSUME NEW k \in DOMAIN driven, k <= n + 1, driven[k] = CloseBus
          PROVE  bus' = "closed"
      <4>1. CASE k = n + 1
        BY <4>1, <3>1, <3>2, <2>7 DEF wake
      <4>2. CASE k <= n
        <5>1. bus = "closed"
          BY <4>2, <3>2 DEF ReplyInv, EffectsDelivered, n
        <5> QED BY <5>1, <2>7
      <4> QED BY <4>1, <4>2, <3>2, <2>6
    <3>3. ASSUME finished' # {}
          PROVE  \E j \in DOMAIN driven : j <= n + 1 /\ driven[j].kind = "done"
      <4>1. CASE wake.kind = "done"
        <5>1. n + 1 <= n + 1
          BY <1>t DEF n
        <5> QED BY <4>1, <5>1, <2>5 DEF wake
      <4>2. CASE wake.kind # "done"
        <5>1. finished # {}
          BY <4>2, <3>3, <2>7
        <5>2. PICK j \in DOMAIN driven : j <= n /\ driven[j].kind = "done"
          BY <5>1 DEF ReplyInv, EffectsDelivered, n
        <5>3. j <= n + 1
          BY <5>2, <2>6, <1>t DEF n
        <5> QED BY <5>2, <5>3
      <4> QED BY <4>1, <4>2
    <3> QED BY <3>2, <3>3, <2>3, <1>u DEF EffectsDelivered, n
  <2> QED BY <2>10, <2>11, <2>12, <2>13
<1> QED BY <1>1, <1>2

LEMMA InitReplies == Init => ReplyInv
<1> SUFFICES ASSUME Init PROVE ReplyInv
  OBVIOUS
<1>1. DeliveryInv
  BY InitDelivers
<1>u. /\ stopped = FALSE /\ calls = 0 /\ senders = {} /\ refused = {} /\ finished = {}
      /\ channel = [c \in Calls |-> "none"]
      /\ DOMAIN driven = {}
  BY DEF Init
<1>2. \A c \in Calls : c > 0
  BY BoundsAssumption DEF Calls
<1>3. ReplyTypes
  BY <1>u, <1>2 DEF ReplyTypes
<1>4. SettlesOnce /\ StopCloses /\ EffectsDelivered
  BY <1>u DEF SettlesOnce, StopCloses, EffectsDelivered
<1>5. OneAnswerToCome
  BY <1>u DEF OneAnswerToCome, Pending
<1> QED BY <1>1, <1>3, <1>4, <1>5 DEF ReplyInv

LEMMA NextReplies == ReplyInv /\ [Next]_vars => ReplyInv'
<1> SUFFICES ASSUME ReplyInv, [Next]_vars PROVE ReplyInv'
  OBVIOUS
<1>1. DeliveryInv'
  BY NextPreserves DEF ReplyInv
<1>2. ReplyTypes' /\ SettlesOnce' /\ OneAnswerToCome' /\ StopCloses' /\ EffectsDelivered'
  <2>1. CASE \E t \in Threads : Input(t)
    <3>1. PICK t \in Threads : Input(t)
      BY <2>1
    <3>2. CASE Dispatch(t)
      BY <3>2, DispatchReplies
    <3>3. CASE Stop(t)
      BY <3>3, StopReplies
    <3>4. CASE \E events \in {<<>>, <<Emit>>}, S \in SUBSET Calls : React(t, events, S)
      BY <3>4, ReactReplies
    <3>5. CASE \E c \in Calls : Drop(t, c)
      BY <3>5, DropReplies
    <3> QED BY <3>1, <3>2, <3>3, <3>4, <3>5 DEF Input
  <2>2. CASE \E t \in Threads : Step(t)
    <3>1. PICK t \in Threads : Step(t)
      BY <2>2
    <3>2. CASE Deliver(t)
      BY <3>2, DeliverReplies
    <3>3. CASE Enqueue(t) \/ Swap(t) \/ Pop(t) \/ Woken(t) \/ Clear(t) \/ Check(t)
      <4>1. UNCHANGED <<coreVars, effectVars, driven, delivered>>
        BY <3>3 DEF Enqueue, Swap, Pop, Woken, Clear, Check
      <4> QED BY <4>1, QuietReplies
    <3> QED BY <3>1, <3>2, <3>3 DEF Step
  <2>3. CASE \E c \in Calls : Take(c)
    BY <2>3, TakeReplies
  <2>4. CASE UNCHANGED vars
    <3>1. UNCHANGED <<coreVars, effectVars, driven, delivered>>
      BY <2>4 DEF vars
    <3> QED BY <3>1, QuietReplies
  <2> QED BY <2>1, <2>2, <2>3, <2>4 DEF Next
<1> QED BY <1>1, <1>2 DEF ReplyInv

-----------------------------------------------------------------------------
(* Theorems                                                                *)

\* Where the answer of every call is: its sender is in the map, or its one
\* settlement was driven and has its place among the wakes still to run.
THEOREM ReplyInvariant == Spec => []ReplyInv
<1>1. Init => ReplyInv
  BY InitReplies
<1>2. ReplyInv /\ [Next]_vars => ReplyInv'
  BY NextReplies
<1> QED BY <1>1, <1>2, PTL DEF Spec

\* For any number of threads and calls: a caller that waits has exactly one answer
\* to come, and no caller is answered twice, whatever is dropped, refused or stopped.
THEOREM AnsweredOnce == Spec => []OneAnswerToCome
<1>1. ReplyInv => OneAnswerToCome
  BY DEF ReplyInv
<1> QED BY <1>1, ReplyInvariant, PTL

\* For any number of threads, calls and stops: when a stop future resolves, the bus
\* is closed and every call dispatched before the stop has its result.
THEOREM StopsAreTotal == Spec => []StopIsTotal
<1>1. ReplyInv => StopIsTotal
  <2> SUFFICES ASSUME ReplyInv, finished # {}
               PROVE  bus = "closed" /\ \A c \in (1..calls) \ refused : channel[c] # "empty"
    BY DEF StopIsTotal
  <2>1. PICK j \in DOMAIN driven : j <= Len(delivered) /\ driven[j].kind = "done"
    BY DEF ReplyInv, EffectsDelivered
  <2>2. /\ stopped /\ senders = {}
        /\ \E k \in DOMAIN driven : k < j /\ driven[k] = CloseBus
        /\ \A i \in DOMAIN driven : \A c \in Calls \ refused :
             driven[i] = Settle(c) => i < j
    BY <2>1 DEF ReplyInv, StopCloses
  <2>3. Len(delivered) \in Nat /\ DOMAIN driven \subseteq Nat
    BY DEF ReplyInv, DeliveryInv, ShellTypes
  <2>4. bus = "closed"
    BY <2>1, <2>2, <2>3 DEF ReplyInv, EffectsDelivered
  <2>5. ASSUME NEW c \in (1..calls) \ refused PROVE channel[c] # "empty"
    <3>1. c \in Calls
      <4>1. calls \in 0..MaxCalls /\ MaxCalls \in Nat
        BY BoundsAssumption DEF ReplyInv, DeliveryInv, ShellTypes
      <4> QED BY <4>1 DEF Calls
    <3>2. Pending(c) = {}
      BY <3>1, <2>1, <2>2, <2>3, <2>5 DEF Pending
    <3> QED BY <3>1, <3>2, <2>2 DEF ReplyInv, OneAnswerToCome
  <2> QED BY <2>4, <2>5
<1> QED BY <1>1, ReplyInvariant, PTL
=============================================================================
