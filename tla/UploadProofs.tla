---------------------------- MODULE UploadProofs ----------------------------
(***************************************************************************)
(* Theorems about Upload: for any declared size, window, lanes and number  *)
(* of transfer.cancel tasks, a finalized upload is whole, what a cancel is *)
(* told is true, and an honest producer is served.                         *)
(***************************************************************************)
EXTENDS UploadInvariants, TLAPS

-----------------------------------------------------------------------------
(* Moves of control: most steps change where the actor, the writer or a    *)
(* cancel is, and neither the bytes nor what the producer sent.            *)

LEMMA EmptyLane == <<>> \in Seq(Events)
  OBVIOUS

LEMMA LaneGrows ==
  ASSUME NEW lane \in Seq(Events), NEW e \in Events
  PROVE  Append(lane, e) \in Seq(Events)
  OBVIOUS

LEMMA LaneElements ==
  ASSUME NEW lane \in Seq(Events), NEW e, NEW i \in DOMAIN Append(lane, e)
  PROVE  Append(lane, e)[i] = e \/ \E j \in DOMAIN lane : Append(lane, e)[i] = lane[j]
  OBVIOUS

LEMMA ControlMovePreserves == UploadInv /\ ControlMove => UploadInv'
<1> SUFFICES ASSUME UploadInv, ControlMove PROVE UploadInv' OBVIOUS
<1> USE DEF UploadInv, ControlMove
<1>1. WireTypes'
  BY DEF WireTypes, PhaseMoves, CancelMoves
<1>2. ActorTypes'
  <2>1. data' \in Seq(Events)
    BY EmptyLane DEF ActorTypes, LaneMoves
  <2>2. term' \in Seq(Events)
    BY EmptyLane, LaneGrows DEF ActorTypes, LaneMoves, Events
  <2> QED BY <2>1, <2>2 DEF ActorTypes, LaneMoves, ActorMoves
<1>3. PhasesAgree'
  BY DEF PhasesAgree, PhaseMoves, ActorMoves, ResultMoves, CancelMoves
<1>4. DataInOrder'
  <2>1. \A i \in DOMAIN data' : i \in DOMAIN data /\ data'[i] = data[i]
    BY DEF LaneMoves, ActorTypes
  <2>2. actor'.pc \in {"handle", "answer", "stage", "commit"} =>
          actor'.pc = actor.pc /\ actor'.ev = actor.ev
    BY DEF ActorMoves, Calm
  <2> QED BY <2>1, <2>2 DEF DataInOrder, Waits, InHand
<1>5. EndsOwned'
  <2>1. \A i \in DOMAIN term' : term'[i].kind = "CANCEL" \/ \E j \in DOMAIN term : term'[i] = term[j]
    <3>1. CASE term' = term \/ term' = <<>>
      BY <3>1
    <3>2. CASE \E e \in Asked : term' = Append(term, e)
      <4>1. PICK e \in Asked : term' = Append(term, e)
        BY <3>2
      <4>2. e.kind = "CANCEL" /\ term \in Seq(Events)
        BY DEF Asked, ActorTypes
      <4> QED BY <4>1, <4>2, LaneElements
    <3> QED BY <3>1, <3>2 DEF LaneMoves
  <2>2. actor'.ev.kind = "END" => actor.ev.kind = "END"
    BY DEF ActorMoves, NoEvent
  <2>3. deferred'.kind \in {deferred.kind, "none"}
    BY DEF LaneMoves, NoEvent
  <2> QED BY <2>1, <2>2, <2>3 DEF EndsOwned
<1>6. OwnersWhole'
  <2>1. actor'.pc \in Owning => actor.pc \in Owning
    BY DEF ActorMoves
  <2>2. owner'.result = "ok" => owner.result = "ok"
    BY DEF ResultMoves
  <2> QED BY <2>1, <2>2 DEF OwnersWhole, Whole, ResultMoves
<1>7. SelectionFinal'
  <2>1. actor'.pc = "record" => actor.pc = "record"
    BY DEF ActorMoves, Calm
  <2>2. actor'.pc = "fail" /\ actor'.why = "cancelled" => actor.pc = "fail" /\ actor.why = "cancelled"
    BY DEF ActorMoves
  <2>3. owner.selected /\ owner'.result # "none" => owner'.result = "cancelled"
    BY DEF ResultMoves, SelectionFinal
  <2>4. \A c \in Cancellers : cancels'[c].at = "cancelled" => cancels[c].at = "cancelled"
    BY DEF CancelMoves
  <2> QED BY <2>1, <2>2, <2>3, <2>4 DEF SelectionFinal, ResultMoves, PhaseMoves
<1>8. AnswersBacked'
  <2>1. TimedOut => TimedOut' \/ phase' # "Active"
    BY DEF ActorMoves, TimedOut
  <2> QED BY <2>1 DEF AnswersBacked, CancelMoves, PhaseMoves, ResultMoves
<1> QED BY <1>1, <1>2, <1>3, <1>4, <1>5, <1>6, <1>7, <1>8

-----------------------------------------------------------------------------
(* What the actor's idioms do to its own state.                            *)

LEMMA FailMoves ==
  ASSUME ActorTypes, NEW why \in Whys, NEW yield \in {"none", "any", "preemptive"},
         Fail(why, yield)
  PROVE  /\ actor' \in Actors /\ write' \in Writes
         /\ actor'.pc = "fail" /\ actor'.ev = NoEvent /\ actor'.why = why
  BY DEF ActorTypes, Actors, Writes, Fail, NoWrite, Messages, Running

LEMMA LoopMoves ==
  ASSUME ActorTypes, Loop
  PROVE  /\ actor' \in Actors /\ write' \in Writes
         /\ actor'.pc = "next" /\ actor'.ev = NoEvent
  BY DEF ActorTypes, Actors, Writes, Loop, NoWrite, Messages, Running

LEMMA ReturnMoves ==
  ASSUME NEW close \in BOOLEAN, WireTypes, Return(close)
  PROVE  /\ actor' \in Actors /\ write' \in Writes
         /\ actor'.pc = "done" /\ actor'.ev = NoEvent
         /\ phase' = "Retired" /\ gone' \in BOOLEAN /\ (gone => gone')
         /\ registered' = FALSE
         /\ data' = <<>> /\ term' = <<>> /\ deferred' = NoEvent
  BY DEF WireTypes, Actors, Writes, Return, Idle, NoWrite, Messages, Ending, Whys

LEMMA TurnMoves ==
  ASSUME ActorTypes, UploadAssumption, NEW s \in States, TurnEnds(s)
  PROVE  /\ actor' \in Actors /\ write' \in Writes
         /\ actor'.pc \in {"credit", "next"} /\ actor'.ev = NoEvent
<1>1. NextCredit(s) \in Nat
  BY DEF UploadAssumption, NextCredit, Lesser, States
<1>2. CASE CreditDue(s)
  <2>1. actor' = [actor EXCEPT !.pc = "credit", !.ev = NoEvent]
    BY <1>2 DEF TurnEnds
  <2>2. write' = [kind |-> "CREDIT", at |-> "queued", n |-> NextCredit(s)]
    BY <1>2 DEF TurnEnds, Queue
  <2>3. write' \in Writes
    BY <1>1, <2>2 DEF Writes, Messages
  <2> QED BY <2>1, <2>3 DEF ActorTypes, Actors, Running
<1>3. CASE ~CreditDue(s)
  BY <1>3, LoopMoves DEF TurnEnds
<1> QED BY <1>2, <1>3

LEMMA CompleteMoves ==
  ASSUME ActorTypes, NEW result \in {"malformed", "aborted", "lost"} \cup Whys,
         Complete(result)
  PROVE  /\ owner' \in Owners /\ owner'.selected = owner.selected
         /\ owner'.result = IF owner.selected THEN "cancelled" ELSE result
         /\ owner'.result # "ok"
  BY DEF ActorTypes, Owners, Complete, Whys

LEMMA RecordAt ==
  ASSUME NEW e, NEW x, e = [at |-> e.at, ticket |-> e.ticket, late |-> e.late]
  PROVE  [e EXCEPT !.at = x] = [at |-> x, ticket |-> e.ticket, late |-> e.late]
<1>1. ASSUME NEW S, NEW T, NEW L, NEW r \in [at : S, ticket : T, late : L], NEW y \in S
      PROVE  [r EXCEPT !.at = y] = [at |-> y, ticket |-> r.ticket, late |-> r.late]
  OBVIOUS
<1>2. e \in [at : {e.at, x}, ticket : {e.ticket}, late : {e.late}]
  OBVIOUS
<1> QED BY <1>1, <1>2

LEMMA CancelRecord ==
  ASSUME CancelShape, NEW c \in Cancellers
  PROVE  cancels[c] = [at |-> cancels[c].at, ticket |-> cancels[c].ticket, late |-> cancels[c].late]
  BY DEF CancelShape

LEMMA AtMoves ==
  ASSUME CancelShape, NEW c, NEW at, MovesTo(c, at)
  PROVE  /\ CancelShape'
         /\ \A d \in Cancellers : /\ cancels'[d].at = IF d = c THEN at ELSE cancels[d].at
                                 /\ cancels'[d].ticket = cancels[d].ticket
                                 /\ cancels'[d].late = cancels[d].late
<1> DEFINE e == [cancels[c] EXCEPT !.at = at]
           New(d) == [at |-> IF d = c THEN at ELSE cancels[d].at, ticket |-> cancels[d].ticket,
                      late |-> cancels[d].late]
<1>1. cancels' = [d \in Cancellers |-> IF d = c THEN e ELSE cancels[d]]
  BY DEF CancelShape, MovesTo
<1>2. c \in Cancellers => e = [at |-> at, ticket |-> cancels[c].ticket, late |-> cancels[c].late]
  BY CancelRecord, RecordAt
<1> HIDE DEF e
<1>3. \A d \in Cancellers : cancels'[d] = New(d)
  BY <1>1, <1>2, CancelRecord
<1>4. ASSUME NEW d \in Cancellers
      PROVE  /\ cancels'[d].at = IF d = c THEN at ELSE cancels[d].at
             /\ cancels'[d].ticket = cancels[d].ticket
             /\ cancels'[d].late = cancels[d].late
  <2> DEFINE a == IF d = c THEN at ELSE cancels[d].at
  <2>1. cancels'[d] = [at |-> a, ticket |-> cancels[d].ticket, late |-> cancels[d].late]
    BY <1>3
  <2> HIDE DEF a
  <2>2. cancels'[d].at = a /\ cancels'[d].ticket = cancels[d].ticket /\ cancels'[d].late = cancels[d].late
    BY <2>1
  <2> QED BY <2>2 DEF a
<1>5. \A d \in Cancellers :
        cancels'[d] = [at |-> cancels'[d].at, ticket |-> cancels'[d].ticket, late |-> cancels'[d].late]
  BY <1>3, <1>4
<1>6. cancels' = [d \in Cancellers |->
        [at |-> cancels'[d].at, ticket |-> cancels'[d].ticket, late |-> cancels'[d].late]]
  BY <1>1, <1>5
<1> QED BY <1>4, <1>6 DEF CancelShape

-----------------------------------------------------------------------------
(* Idioms that are moves of control.                                       *)

LEMMA CancelsStay ==
  ASSUME UploadInv, UNCHANGED cancels, registered' \in BOOLEAN,
         registered' = registered \/ gone' \/ phase' # "Active"
  PROVE  CancelMoves
  BY DEF UploadInv, WireTypes, CancelShape, CancelMoves

LEMMA BytesStay ==
  ASSUME UploadInv, UNCHANGED state
  PROVE  state' \in States /\ state'.accepted = state.accepted /\ state'.staged = state.staged
  BY DEF UploadInv, ActorTypes

LEMMA LoseMoves ==
  ASSUME UploadInv, Apart, UNCHANGED cancels, NEW close \in BOOLEAN,
         state' \in States, state'.accepted = state.accepted, state'.staged = state.staged,
         NEW result \in {"malformed", "aborted", "lost"} \cup Whys,
         Complete(result), Return(close)
  PROVE  ControlMove
<1>1. PhaseMoves /\ LaneMoves
  BY ReturnMoves DEF Apart, UploadInv, WireTypes, PhaseMoves, LaneMoves, Phases
<1>2. ActorMoves
  BY ReturnMoves, CompleteMoves DEF UploadInv, ActorMoves, Calm, Owning
<1>3. ResultMoves
  BY ReturnMoves, CompleteMoves DEF UploadInv, ResultMoves
<1>4. CancelMoves
  BY CancelsStay, ReturnMoves DEF UploadInv
<1> QED BY <1>1, <1>2, <1>3, <1>4 DEF ControlMove, Apart

\* The actor goes on to a place of the loop, or to select a failure.
LEMMA WalkMoves ==
  ASSUME UploadInv, Apart, UNCHANGED <<gone, owner, data, term, deferred>>, CancelMoves,
         actor.pc \in Running \ {"open"}, ~TimedOut,
         phase' = phase \/ phase' = "DaemonAbortQueued",
         state' \in States, state'.accepted = state.accepted, state'.staged = state.staged,
         actor' \in Actors, write' \in Writes,
         actor'.pc \in {"credit", "next", "fail"}, actor'.ev = NoEvent,
         actor'.pc = "fail" => actor'.why # "cancelled"
  PROVE  ControlMove
<1>1. PhaseMoves /\ LaneMoves
  BY DEF Apart, UploadInv, WireTypes, PhaseMoves, LaneMoves, Phases
<1>2. ActorMoves
  BY DEF UploadInv, PhasesAgree, ActorTypes, ActorMoves, Calm, Owning, Running
<1>3. ResultMoves
  BY DEF UploadInv, PhasesAgree, ResultMoves, Running
<1> QED BY <1>1, <1>2, <1>3 DEF ControlMove, Apart

LEMMA RunMoves ==
  ASSUME UploadInv, Apart, UNCHANGED <<gone, owner, registered, cancels, data, term, deferred>>,
         actor.pc \in Running \ {"open"}, ~TimedOut,
         phase' = phase \/ phase' = "DaemonAbortQueued",
         state' \in States, state'.accepted = state.accepted, state'.staged = state.staged,
         actor' \in Actors, write' \in Writes,
         actor'.pc \in {"credit", "next", "fail"}, actor'.ev = NoEvent,
         actor'.pc = "fail" => actor'.why # "cancelled"
  PROVE  ControlMove
  BY CancelsStay, WalkMoves DEF UploadInv, WireTypes

\* The terminal is selected: the actor goes on with it, or publishes.
LEMMA EndingMoves ==
  ASSUME UploadInv, Apart, UNCHANGED state, CancelMoves, LaneMoves,
         phase' \in Phases, gone' = gone,
         phase' \notin {"Opening", "Active", "Finalizing"},
         actor' \in Actors, write' \in Writes, actor'.ev \in {actor.ev, NoEvent},
         actor'.pc \in {"abort", "waitack", "cross", "ack", "faultack", "promote", "reply"},
         \/ UNCHANGED owner /\ owner.result = "none"
         \/ /\ actor'.pc = "reply" /\ owner' \in Owners /\ owner'.selected = owner.selected
            /\ owner'.result # "ok"
            /\ owner.selected => owner'.result = "cancelled"
  PROVE  ControlMove
<1>1. PhaseMoves
  BY DEF Apart, UploadInv, WireTypes, PhaseMoves
<1>2. ActorMoves
  BY DEF UploadInv, ActorTypes, ActorMoves, Calm, Owning
<1>3. ResultMoves
  BY DEF UploadInv, ResultMoves
<1> QED BY <1>1, <1>2, <1>3, BytesStay DEF ControlMove, Apart

-----------------------------------------------------------------------------
(* The steps of the actor that are moves of control.                       *)

LEMMA FaultMoves == UploadInv /\ HandleFault => ControlMove
<1> SUFFICES ASSUME UploadInv, HandleFault PROVE ControlMove OBVIOUS
<1>1. PICK why \in Whys \ {"cancelled"} :
        Fail(why, "none") /\ (actor.ev.kind = "CANCEL" => why = "timeout")
  BY DEF HandleFault, Whys
<1>2. Apart /\ UNCHANGED <<phase, gone, state, owner, registered, data, term, deferred>>
  BY DEF HandleFault, Apart, activeFrame, actorFrame, laneVars, clientVars
<1>3. actor.pc \in Running \ {"open"} /\ ~TimedOut
  BY DEF HandleFault, handling, Running, TimedOut
<1>4. CancelMoves
  <2>1. CASE actor.ev.kind = "CANCEL"
    <3> DEFINE at == IF cancels[actor.ev.from].at = "asked" THEN "refused" ELSE cancels[actor.ev.from].at
    <3>1. MovesTo(actor.ev.from, at)
      BY <2>1 DEF MovesTo, HandleFault
    <3>2. at \in {"refused", cancels[actor.ev.from].at}
      OBVIOUS
    <3> HIDE DEF at
    <3>3. /\ CancelShape'
          /\ \A c \in Cancellers : cancels'[c].at \in {"refused", cancels[c].at}
      BY <3>1, <3>2, AtMoves DEF UploadInv, WireTypes
    <3>4. TimedOut'
      BY <1>1, <2>1, FailMoves DEF TimedOut, UploadInv, Fail, ActorTypes, Actors
    <3>5. phase' # "Opening"
      BY <1>2, <1>3 DEF UploadInv, PhasesAgree
    <3> QED BY <1>2, <3>3, <3>4, <3>5 DEF UploadInv, WireTypes, CancelMoves
  <2>2. CASE actor.ev.kind # "CANCEL"
    BY <1>2, <2>2, CancelsStay DEF HandleFault, UploadInv, WireTypes
  <2> QED BY <2>1, <2>2
<1> QED BY <1>1, <1>2, <1>3, <1>4, FailMoves, BytesStay, WalkMoves DEF UploadInv

LEMMA IdleMoves == UploadInv /\ ActorIdles => ControlMove
<1> SUFFICES ASSUME UploadInv, ActorIdles PROVE ControlMove OBVIOUS
<1>1. Apart /\ UNCHANGED <<state, cancels>> /\ actor.pc \in Running \ {"open"} /\ ~TimedOut
  BY DEF ActorIdles, Apart, actorFrame, clientVars, Running, TimedOut
<1>2. CASE LoseTransport
  BY <1>1, <1>2, BytesStay, LoseMoves DEF LoseTransport
<1>3. CASE Fail("timeout", "any") /\ UNCHANGED <<gone, phase, owner, registered, laneVars>>
  BY <1>1, <1>3, FailMoves, BytesStay, RunMoves DEF UploadInv, laneVars, Whys
<1> QED BY <1>2, <1>3 DEF ActorIdles

LEMMA OpenMoves == UploadInv /\ UploadAssumption /\ OpenSettles => ControlMove
<1> SUFFICES ASSUME UploadInv, UploadAssumption, OpenSettles PROVE ControlMove OBVIOUS
<1>1. Apart /\ UNCHANGED <<state, cancels>> /\ actor.pc = "open"
  BY DEF OpenSettles, Apart, actorFrame, clientVars
<1>2. CASE write.at = "sent" /\ actor' = [actor EXCEPT !.pc = "credit"]
           /\ Queue("CREDIT", NextCredit(state))
           /\ UNCHANGED <<gone, phase, owner, registered, laneVars>>
  <2>1. actor' \in Actors /\ actor'.pc = "credit" /\ actor'.ev = actor.ev
    BY <1>2 DEF UploadInv, ActorTypes, Actors, Running
  <2>2. write' \in Writes
    <3>1. NextCredit(state) \in Nat
      BY DEF UploadInv, UploadAssumption, NextCredit, Lesser, ActorTypes, States
    <3> QED BY <1>2, <3>1 DEF Queue, Writes, Messages
  <2>3. PhaseMoves /\ LaneMoves
    BY <1>1, <1>2 DEF UploadInv, WireTypes, PhaseMoves, LaneMoves, Apart, laneVars
  <2>4. ActorMoves
    <3>1. phase \notin {"Opening", "Finalizing"}
      BY <1>1, <1>2 DEF UploadInv, PhasesAgree, Owning
    <3>2. owner' \in Owners /\ phase' = phase
      BY <1>2 DEF UploadInv, ActorTypes
    <3> QED BY <1>1, <2>1, <2>2, <3>1, <3>2 DEF ActorMoves, Calm, Running, Owning, TimedOut
  <2>5. ResultMoves
    BY <1>1, <1>2 DEF UploadInv, PhasesAgree, ResultMoves
  <2>6. CancelMoves
    BY <1>1, <1>2, CancelsStay DEF UploadInv, WireTypes
  <2> QED BY <1>1, <2>3, <2>4, <2>5, <2>6, BytesStay DEF ControlMove, Apart
<1>3. CASE phase' = "Retired" /\ Complete("timeout") /\ Queue("REPLY", 0)
           /\ actor' = [actor EXCEPT !.pc = "reply", !.acked = TRUE]
           /\ UNCHANGED <<gone, registered, laneVars>>
  <2>1. actor' \in Actors /\ actor'.pc = "reply" /\ actor'.ev = actor.ev
    BY <1>3 DEF UploadInv, ActorTypes, Actors, Ending
  <2>2. write' \in Writes
    BY <1>3 DEF Queue, Writes, Messages
  <2>3. CancelMoves
    BY <1>1, <1>3, CancelsStay DEF UploadInv, WireTypes
  <2> QED BY <1>1, <1>3, <2>1, <2>2, <2>3, CompleteMoves, EndingMoves
          DEF UploadInv, LaneMoves, laneVars, Phases, Whys
<1>4. CASE Complete("lost") /\ Return(TRUE)
  BY <1>1, <1>4, BytesStay, LoseMoves
<1> QED BY <1>2, <1>3, <1>4 DEF OpenSettles

LEMMA CreditMoves == UploadInv /\ UploadAssumption /\ CreditSettles => ControlMove
<1> SUFFICES ASSUME UploadInv, UploadAssumption, CreditSettles PROVE ControlMove OBVIOUS
<1>1. Apart /\ UNCHANGED cancels /\ actor.pc \in Running \ {"open"} /\ ~TimedOut
  BY DEF CreditSettles, Apart, actorFrame, clientVars, Running, TimedOut
<1>2. state' \in States /\ state'.accepted = state.accepted /\ state'.staged = state.staged
  <2>1. CASE write.at = "sent"
    <3>1. state.history \cup {<<state.accepted, write.n>>} \in SUBSET (Nat \X Nat)
      BY DEF UploadInv, ActorTypes, States, Writes, NoWrite
    <3> QED BY <2>1, <3>1 DEF CreditSettles, Credited, UploadInv, ActorTypes, States, Writes
  <2>2. CASE write.at # "sent"
    BY <2>2, BytesStay DEF CreditSettles
  <2> QED BY <2>1, <2>2
<1>3. CASE Loop /\ UNCHANGED <<gone, phase, owner, registered, data, term, deferred>>
  BY <1>1, <1>2, <1>3, LoopMoves, RunMoves DEF UploadInv
<1>4. CASE LoseTransport
  BY <1>1, <1>2, <1>4, LoseMoves DEF LoseTransport
<1>5. CASE (\E why \in {"timeout", "protocol"} : Fail(why, "any"))
           /\ UNCHANGED <<gone, phase, owner, registered, laneVars>>
  BY <1>1, <1>2, <1>5, FailMoves, RunMoves DEF UploadInv, laneVars, Whys
<1> QED BY <1>3, <1>4, <1>5 DEF CreditSettles, laneVars

LEMMA StageMoves == UploadInv /\ UploadAssumption /\ StageInterrupted => ControlMove
<1> SUFFICES ASSUME UploadInv, UploadAssumption, StageInterrupted PROVE ControlMove OBVIOUS
<1>1. Apart /\ UNCHANGED <<state, cancels>> /\ actor.pc \in Running \ {"open"} /\ ~TimedOut
  BY DEF StageInterrupted, Apart, actorFrame, clientVars, Running, TimedOut
<1>2. CASE TurnEnds(state) /\ UNCHANGED <<gone, phase, owner, registered, data, term, deferred>>
  BY <1>1, <1>2, BytesStay, TurnMoves, RunMoves DEF UploadInv
<1>3. CASE LoseTransport
  BY <1>1, <1>3, BytesStay, LoseMoves DEF LoseTransport
<1>4. CASE Fail("timeout", "any") /\ UNCHANGED <<gone, phase, owner, registered, laneVars>>
  BY <1>1, <1>4, FailMoves, BytesStay, RunMoves DEF UploadInv, laneVars, Whys
<1> QED BY <1>2, <1>3, <1>4 DEF StageInterrupted

LEMMA AbortMoves == UploadInv /\ HandleAbort => ControlMove
<1> SUFFICES ASSUME UploadInv, HandleAbort PROVE ControlMove OBVIOUS
<1>1. Apart /\ UNCHANGED <<state, cancels>> /\ actor.pc \in Running \ {"open"} /\ ~TimedOut
  BY DEF HandleAbort, handling, Apart, actorFrame, clientVars, Running, TimedOut
<1>2. CASE Fail("protocol", "none") /\ UNCHANGED <<gone, phase, owner, registered, laneVars>>
  BY <1>1, <1>2, FailMoves, BytesStay, RunMoves DEF UploadInv, laneVars, Whys
<1>3. CASE /\ phase' = "ClientAbortPending" /\ registered' = FALSE /\ data' = <<>>
           /\ actor' = [actor EXCEPT !.pc = "ack", !.ev = NoEvent] /\ Queue("FINALACK", 0)
           /\ UNCHANGED <<gone, owner, term, deferred, processing>>
  <2>1. actor' \in Actors /\ actor'.pc = "ack" /\ actor'.ev = NoEvent
    BY <1>3 DEF UploadInv, ActorTypes, Actors, Ending
  <2>2. write' \in Writes
    BY <1>3 DEF Queue, Writes, Messages
  <2>3. CancelMoves
    BY <1>1, <1>3, CancelsStay DEF UploadInv, WireTypes
  <2>4. owner.result = "none"
    BY <1>1 DEF UploadInv, PhasesAgree, Running
  <2> QED BY <1>1, <1>3, <2>1, <2>2, <2>3, <2>4, EndingMoves DEF LaneMoves, Phases
<1>4. CASE Complete("lost") /\ Return(FALSE)
  BY <1>1, <1>4, BytesStay, LoseMoves
<1> QED BY <1>2, <1>3, <1>4 DEF HandleAbort

\* What a step after the terminal leaves of the rest.
LEMMA EndedFacts ==
  ASSUME UploadInv, actor.pc \in Ending
  PROVE  phase \notin {"Opening", "Active", "Finalizing"}
  BY DEF UploadInv, PhasesAgree, Ending, Running, Owning

LEMMA AbortSettlesMoves == UploadInv /\ AbortSettles => ControlMove
<1> SUFFICES ASSUME UploadInv, AbortSettles PROVE ControlMove OBVIOUS
<1>1. Apart /\ UNCHANGED <<state, cancels>> /\ actor.pc = "abort"
  BY DEF AbortSettles, Apart, actorFrame, clientVars
<1>2. ASSUME NEW close \in BOOLEAN, Complete(Result(actor.why)), Return(close)
      PROVE  ControlMove
  <2>1. Result(actor.why) \in {"malformed", "aborted", "lost"} \cup Whys
    BY DEF Result, UploadInv, ActorTypes, Actors
  <2> QED BY <1>1, <1>2, <2>1, BytesStay, LoseMoves
<1>3. CASE actor' = [actor EXCEPT !.pc = "waitack"] /\ write' = NoWrite
           /\ UNCHANGED <<gone, phase, owner, registered, laneVars>>
  <2>1. actor' \in Actors /\ actor'.pc = "waitack" /\ actor'.ev = actor.ev
    BY <1>3 DEF UploadInv, ActorTypes, Actors, Ending
  <2>2. write' \in Writes
    BY <1>3 DEF NoWrite, Writes, Messages
  <2>3. CancelMoves
    BY <1>1, <1>3, CancelsStay DEF UploadInv, WireTypes
  <2>4. owner.result = "none" /\ phase' \in Phases \ {"Opening", "Active", "Finalizing"}
    BY <1>1, <1>3, EndedFacts DEF UploadInv, WireTypes, PhasesAgree, Ending
  <2> QED BY <1>1, <1>3, <2>1, <2>2, <2>3, <2>4, EndingMoves DEF LaneMoves, laneVars
<1> QED BY <1>2, <1>3 DEF AbortSettles

LEMMA HandshakeMoves ==
  ASSUME UploadInv, Apart, UNCHANGED <<gone, state, registered, laneVars>>, CancelMoves,
         actor.pc \in Ending, NEW acked \in BOOLEAN, HandshakeEnds(acked)
  PROVE  ControlMove
<1>1. actor' \in Actors /\ actor'.pc = "reply" /\ actor'.ev = NoEvent
  BY DEF HandshakeEnds, UploadInv, ActorTypes, Actors, Ending
<1>2. write' \in Writes
  BY DEF HandshakeEnds, Queue, Writes, Messages
<1>3. Result(actor.why) \in {"malformed", "aborted", "lost"} \cup Whys
  BY DEF Result, UploadInv, ActorTypes, Actors
<1>4. Complete(Result(actor.why)) /\ phase' = "Retired"
  BY DEF HandshakeEnds
<1> QED BY <1>1, <1>2, <1>3, <1>4, CompleteMoves, EndingMoves DEF UploadInv, LaneMoves, laneVars, Phases

\* The wait for ACK goes on, or an ACK of the crossed ABORT is queued.
LEMMA AwaitingMoves ==
  ASSUME ActorTypes, NEW pc \in {"waitack", "cross"}, actor' = [actor EXCEPT !.pc = pc, !.ev = NoEvent]
  PROVE  actor' \in Actors /\ actor'.pc = pc /\ actor'.ev = NoEvent
  BY DEF ActorTypes, Actors, Ending

LEMMA WaitMoves == UploadInv /\ ActorWaitsForAck => ControlMove
<1> SUFFICES ASSUME UploadInv, ActorWaitsForAck PROVE ControlMove OBVIOUS
<1>1. Apart /\ UNCHANGED <<gone, state, registered, laneVars>>
  BY DEF ActorWaitsForAck, Apart, actorFrame, clientVars
<1>2. actor.pc \in {"waitack", "answer", "cross"}
  BY DEF ActorWaitsForAck, AnswerAck, AnswerCrossedAbort, AnswerCancel, AnswerOther,
         CrossedAckSettles, HandshakeAbandoned
<1>3. /\ phase \in Phases \ {"Opening", "Active", "Finalizing"} /\ owner.result = "none"
      /\ actor.pc \in Ending
  BY <1>2, EndedFacts DEF UploadInv, WireTypes, PhasesAgree, Ending
<1>4. ASSUME NEW acked \in BOOLEAN, HandshakeEnds(acked), UNCHANGED cancels PROVE ControlMove
  BY <1>1, <1>3, <1>4, CancelsStay, HandshakeMoves DEF UploadInv, WireTypes
<1>5. ASSUME UNCHANGED <<phase, owner>>, CancelMoves, actor' \in Actors, write' \in Writes,
             actor'.ev \in {actor.ev, NoEvent}, actor'.pc \in {"waitack", "cross"}
      PROVE  ControlMove
  BY <1>1, <1>3, <1>5, EndingMoves DEF LaneMoves, laneVars
<1>6. CASE AnswerAck
  <2>1. \E acked \in BOOLEAN : HandshakeEnds(acked)
    BY <1>6 DEF AnswerAck
  <2> QED BY <1>4, <1>6, <2>1 DEF AnswerAck
<1>7. CASE AnswerCrossedAbort
  <2>1. CASE /\ actor' = [actor EXCEPT !.pc = "cross", !.ev = NoEvent]
             /\ Queue("ACK", 0) /\ UNCHANGED <<phase, owner>>
    <3>1. actor' \in Actors /\ actor'.pc = "cross" /\ actor'.ev = NoEvent
      BY <2>1, AwaitingMoves DEF UploadInv
    <3>2. write' \in Writes
      BY <2>1 DEF Queue, Writes, Messages
    <3>3. CancelMoves
      BY <1>1, <1>7, CancelsStay DEF AnswerCrossedAbort, UploadInv, WireTypes
    <3> QED BY <1>5, <2>1, <3>1, <3>2, <3>3
  <2> QED BY <1>4, <1>7, <2>1 DEF AnswerCrossedAbort
<1>8. CASE AnswerCancel
  <2>1. actor' \in Actors /\ actor'.pc = "waitack" /\ actor'.ev = NoEvent
    BY <1>8, AwaitingMoves DEF AnswerCancel, UploadInv
  <2>2. CancelShape' /\ \A c \in Cancellers : cancels'[c].at \in {cancels[c].at, "refused"}
    <3> DEFINE c == actor.ev.from
               at == IF cancels[c].at = "asked" THEN "refused" ELSE cancels[c].at
    <3>1. MovesTo(c, at)
      BY <1>8 DEF MovesTo, AnswerCancel
    <3>2. at \in {cancels[c].at, "refused"}
      OBVIOUS
    <3>3. CancelShape
      BY DEF UploadInv, WireTypes
    <3> HIDE DEF c, at
    <3>4. /\ CancelShape'
          /\ \A d \in Cancellers : cancels'[d].at = IF d = c THEN at ELSE cancels[d].at
      BY <3>1, <3>3, AtMoves
    <3> QED BY <3>2, <3>4
  <2>4. CancelMoves
    BY <1>1, <1>3, <1>8, <2>2 DEF AnswerCancel, UploadInv, WireTypes, CancelMoves
  <2>5. UNCHANGED <<phase, owner>> /\ write' \in Writes
    BY <1>8 DEF AnswerCancel, UploadInv, ActorTypes
  <2> QED BY <1>5, <2>1, <2>4, <2>5
<1>9. CASE AnswerOther
  <2>1. CASE /\ actor' = [actor EXCEPT !.pc = "waitack", !.ev = NoEvent]
             /\ UNCHANGED <<phase, owner, write>>
    <3>1. actor' \in Actors /\ actor'.pc = "waitack" /\ actor'.ev = NoEvent
      BY <2>1, AwaitingMoves DEF UploadInv
    <3>2. write' \in Writes
      BY <2>1 DEF UploadInv, ActorTypes
    <3>3. CancelMoves
      BY <1>1, <1>9, CancelsStay DEF AnswerOther, UploadInv, WireTypes
    <3> QED BY <1>5, <2>1, <3>1, <3>2, <3>3
  <2> QED BY <1>4, <1>9, <2>1 DEF AnswerOther
<1>10. CASE CrossedAckSettles
  <2>1. CASE /\ actor' = [actor EXCEPT !.pc = "waitack", !.crossed = TRUE]
             /\ write' = NoWrite /\ UNCHANGED <<phase, owner>>
    <3>1. actor' \in Actors /\ actor'.pc = "waitack" /\ actor'.ev = actor.ev
      BY <2>1 DEF UploadInv, ActorTypes, Actors, Ending
    <3>2. write' \in Writes
      BY <2>1 DEF NoWrite, Writes, Messages
    <3>3. CancelMoves
      BY <1>1, <1>10, CancelsStay DEF CrossedAckSettles, UploadInv, WireTypes
    <3> QED BY <1>5, <2>1, <3>1, <3>2, <3>3
  <2> QED BY <1>4, <1>10, <2>1 DEF CrossedAckSettles
<1>11. CASE HandshakeAbandoned
  BY <1>4, <1>11 DEF HandshakeAbandoned
<1> QED BY <1>6, <1>7, <1>8, <1>9, <1>10, <1>11 DEF ActorWaitsForAck

LEMMA FinalAckMoves == UploadInv /\ FinalAckSettles => ControlMove
<1> SUFFICES ASSUME UploadInv, FinalAckSettles PROVE ControlMove OBVIOUS
<1>1. Apart /\ UNCHANGED <<state, cancels>> /\ actor.pc = "ack"
  BY DEF FinalAckSettles, Apart, actorFrame, clientVars
<1>2. /\ phase \in Phases \ {"Opening", "Active", "Finalizing"} /\ owner.result = "none"
  BY <1>1, EndedFacts DEF UploadInv, WireTypes, PhasesAgree, Ending
<1>3. ASSUME UNCHANGED <<gone, phase, laneVars, registered>>, actor' \in Actors, write' \in Writes,
             actor'.ev = actor.ev,
             \/ actor'.pc \in {"promote", "faultack"} /\ UNCHANGED owner
             \/ actor'.pc = "reply" /\ Complete("aborted")
      PROVE  ControlMove
  <2>1. CancelMoves
    BY <1>1, <1>3, CancelsStay DEF UploadInv, WireTypes
  <2> QED BY <1>1, <1>2, <1>3, <2>1, CompleteMoves, EndingMoves DEF UploadInv, LaneMoves, laneVars
<1>4. CASE /\ Complete("aborted") /\ Queue("REPLY", 0)
           /\ actor' = [actor EXCEPT !.pc = "reply", !.acked = TRUE]
           /\ UNCHANGED <<gone, phase, registered, laneVars>>
  <2>1. actor' \in Actors /\ actor'.pc = "reply" /\ actor'.ev = actor.ev
    BY <1>4 DEF UploadInv, ActorTypes, Actors, Ending
  <2>2. write' \in Writes
    BY <1>4 DEF Queue, Writes, Messages
  <2> QED BY <1>3, <1>4, <2>1, <2>2
<1>5. CASE /\ actor' = [actor EXCEPT !.pc = "promote"] /\ write' = NoWrite
           /\ UNCHANGED <<gone, phase, owner, registered, laneVars>>
  <2>1. actor' \in Actors /\ actor'.pc = "promote" /\ actor'.ev = actor.ev
    BY <1>5 DEF UploadInv, ActorTypes, Actors, Ending
  <2>2. write' \in Writes
    BY <1>5 DEF NoWrite, Writes, Messages
  <2> QED BY <1>3, <1>5, <2>1, <2>2
<1>6. CASE /\ actor' = [actor EXCEPT !.pc = "faultack"] /\ Queue("ACK", 0)
           /\ UNCHANGED <<gone, phase, owner, registered, laneVars>>
  <2>1. actor' \in Actors /\ actor'.pc = "faultack" /\ actor'.ev = actor.ev
    BY <1>6 DEF UploadInv, ActorTypes, Actors, Ending
  <2>2. write' \in Writes
    BY <1>6 DEF Queue, Writes, Messages
  <2> QED BY <1>3, <1>6, <2>1, <2>2
<1>7. CASE Complete("aborted") /\ Return(TRUE)
  BY <1>1, <1>7, BytesStay, LoseMoves
<1> QED BY <1>4, <1>5, <1>6, <1>7 DEF FinalAckSettles

LEMMA FaultAckMoves == UploadInv /\ FaultAckSettles => ControlMove
<1> SUFFICES ASSUME UploadInv, FaultAckSettles PROVE ControlMove OBVIOUS
<1>1. Apart /\ UNCHANGED <<state, cancels>> /\ actor.pc = "faultack"
  BY DEF FaultAckSettles, Apart, actorFrame, clientVars
<1>2. CASE /\ actor' = [actor EXCEPT !.pc = "promote"] /\ write' = NoWrite
           /\ UNCHANGED <<gone, phase, owner, registered, laneVars>>
  <2>1. actor' \in Actors /\ actor'.pc = "promote" /\ actor'.ev = actor.ev
    BY <1>2 DEF UploadInv, ActorTypes, Actors, Ending
  <2>2. write' \in Writes
    BY <1>2 DEF NoWrite, Writes, Messages
  <2>3. CancelMoves
    BY <1>1, <1>2, CancelsStay DEF UploadInv, WireTypes
  <2>4. owner.result = "none" /\ phase' \in Phases \ {"Opening", "Active", "Finalizing"}
    BY <1>1, <1>2, EndedFacts DEF UploadInv, WireTypes, PhasesAgree, Ending
  <2> QED BY <1>1, <1>2, <2>1, <2>2, <2>3, <2>4, EndingMoves DEF LaneMoves, laneVars
<1>3. CASE Complete("malformed") /\ Return(TRUE)
  BY <1>1, <1>3, BytesStay, LoseMoves
<1> QED BY <1>2, <1>3 DEF FaultAckSettles

\* Queued cancels learn that another terminal was selected.
LEMMA PromoteMoves == UploadInv /\ Promote => ControlMove
<1> SUFFICES ASSUME UploadInv, Promote PROVE ControlMove OBVIOUS
<1> DEFINE drained == {term[i].from : i \in {j \in DOMAIN term : term[j].kind = "CANCEL"}}
<1>1. Apart /\ UNCHANGED state /\ actor.pc = "promote"
  BY DEF Promote, Apart, actorFrame, clientVars
<1>2. /\ phase \in Phases \ {"Opening", "Active", "Finalizing"} /\ owner.result = "none"
  BY <1>1, EndedFacts DEF UploadInv, WireTypes, PhasesAgree, Ending
<1>3. cancels' = [c \in Cancellers |-> IF c \in drained /\ cancels[c].at = "asked"
                                       THEN [cancels[c] EXCEPT !.at = "refused"] ELSE cancels[c]]
  BY DEF Promote
<1> HIDE DEF drained
<1>4. CancelShape
  BY DEF UploadInv, WireTypes
<1>5. \A c \in Cancellers : [cancels[c] EXCEPT !.at = "refused"]
           = [at |-> "refused", ticket |-> cancels[c].ticket, late |-> cancels[c].late]
  BY <1>4, CancelRecord, RecordAt
<1>6. /\ CancelShape'
      /\ \A c \in Cancellers : cancels'[c].at \in {cancels[c].at, "refused"}
  BY <1>3, <1>4, <1>5 DEF CancelShape
<1>7. CASE /\ phase' = "DaemonAbortQueued"
           /\ actor' = [actor EXCEPT !.pc = "abort", !.why = "protocol"]
           /\ Queue("ABORT", 0)
           /\ data' = <<>> /\ term' = <<>> /\ deferred' = NoEvent
           /\ UNCHANGED <<gone, owner, registered>>
  <2>1. actor' \in Actors /\ actor'.pc = "abort" /\ actor'.ev = actor.ev
    BY <1>7 DEF UploadInv, ActorTypes, Actors, Ending, Whys
  <2>2. write' \in Writes
    BY <1>7 DEF Queue, Writes, Messages
  <2>3. CancelMoves
    BY <1>2, <1>6, <1>7 DEF UploadInv, WireTypes, CancelMoves
  <2> QED BY <1>1, <1>2, <1>7, <2>1, <2>2, <2>3, EndingMoves DEF LaneMoves, Phases
<1>8. CASE Complete("malformed") /\ Return(FALSE)
  <2>1. PhaseMoves /\ LaneMoves /\ actor' \in Actors /\ write' \in Writes
        /\ actor'.pc = "done" /\ actor'.ev = NoEvent /\ phase' = "Retired" /\ registered' = FALSE
    BY <1>1, <1>8, ReturnMoves DEF Apart, UploadInv, WireTypes, PhaseMoves, LaneMoves, Phases
  <2>2. ActorMoves /\ ResultMoves
    BY <1>8, <2>1, CompleteMoves DEF UploadInv, ActorMoves, ResultMoves, Calm, Owning
  <2>3. CancelMoves
    BY <1>6, <2>1 DEF CancelMoves
  <2> QED BY <1>1, <2>1, <2>2, <2>3, BytesStay DEF ControlMove, Apart
<1> QED BY <1>7, <1>8 DEF Promote

\* Of a finalized upload: the reply is the result that was published.
LEMMA FinishMoves == UploadInv /\ StageFinishes => ControlMove
<1> SUFFICES ASSUME UploadInv, StageFinishes PROVE ControlMove OBVIOUS
<1>1. Apart /\ UNCHANGED <<state, cancels, registered, phase, gone>> /\ actor.pc = "finish"
  BY DEF StageFinishes, Apart, actorFrame, clientVars, cancelVars
<1>2. phase \notin {"Opening", "Active"} /\ owner.result = "none" /\ ~owner.selected
  BY <1>1 DEF UploadInv, PhasesAgree, OwnersWhole, Whole, Owning, Running
<1>3. PhaseMoves /\ CancelMoves
  BY <1>1, CancelsStay DEF Apart, UploadInv, WireTypes, PhaseMoves
<1>4. CASE /\ actor' = [actor EXCEPT !.pc = "finalize"]
           /\ data' = <<>> /\ term' = <<>> /\ deferred' = NoEvent
           /\ UNCHANGED <<owner, write>>
  <2>1. actor' \in Actors /\ actor'.pc = "finalize" /\ actor'.ev = actor.ev
    BY <1>4 DEF UploadInv, ActorTypes, Actors, Owning
  <2>2. ActorMoves /\ ResultMoves
    BY <1>1, <1>2, <1>4, <2>1 DEF UploadInv, ActorTypes, ActorMoves, ResultMoves, Calm, Owning
  <2> QED BY <1>1, <1>3, <1>4, <2>2, BytesStay DEF ControlMove, Apart, LaneMoves
<1>5. CASE /\ Complete("sink") /\ Queue("REPLY", 0)
           /\ actor' = [actor EXCEPT !.pc = "unfinished"] /\ UNCHANGED laneVars
  <2>1. actor' \in Actors /\ actor'.pc = "unfinished" /\ actor'.ev = actor.ev
    BY <1>5 DEF UploadInv, ActorTypes, Actors, Owning
  <2>2. write' \in Writes
    BY <1>5 DEF Queue, Writes, Messages
  <2>3. ActorMoves /\ ResultMoves
    BY <1>1, <1>2, <1>5, <2>1, <2>2, CompleteMoves
       DEF UploadInv, ActorMoves, ResultMoves, Calm, Owning, Whys
  <2> QED BY <1>1, <1>3, <1>5, <2>3, BytesStay DEF ControlMove, Apart, LaneMoves, laneVars
<1> QED BY <1>4, <1>5 DEF StageFinishes

LEMMA ReplyMoves == UploadInv /\ ReplySettles => ControlMove
<1> SUFFICES ASSUME UploadInv, ReplySettles PROVE ControlMove OBVIOUS
<1>1. Apart /\ UNCHANGED <<state, cancels, owner>>
  BY DEF ReplySettles, Apart, actorFrame, clientVars
<1>2. PICK close \in BOOLEAN : Return(close)
  BY DEF ReplySettles, UploadInv, ActorTypes, Actors
<1>3. PhaseMoves /\ LaneMoves /\ CancelMoves
  BY <1>1, <1>2, ReturnMoves, CancelsStay
     DEF Apart, UploadInv, WireTypes, PhaseMoves, LaneMoves, Phases
<1>4. ActorMoves /\ ResultMoves
  BY <1>1, <1>2, ReturnMoves DEF UploadInv, ActorTypes, ActorMoves, ResultMoves, Calm, Owning
<1> QED BY <1>1, <1>3, <1>4, BytesStay DEF ControlMove, Apart

-----------------------------------------------------------------------------
(* The writer, the clock, teardown and the cancel tasks.                   *)

\* A step of another thread: the actor keeps its place, the result stays.
LEMMA OutsideMoves ==
  ASSUME UploadInv, UNCHANGED <<ingress, client, down, actor, state, owner>>, reader'.ev = reader.ev,
         PhaseMoves, LaneMoves, CancelMoves, write' \in Writes,
         phase' = "Opening" =>
           write'.kind = write.kind /\ write'.at \in {write.at, "unsent", "deadline"}
  PROVE  ControlMove
<1>1. phase' \in {"Opening", "Active", "Finalizing"} => phase' = phase
  BY DEF PhaseMoves
<1>2. ActorMoves
  BY <1>1 DEF UploadInv, ActorTypes, PhasesAgree, ActorMoves
<1>3. ResultMoves
  BY DEF UploadInv, PhasesAgree, OwnersWhole, ResultMoves
<1> QED BY <1>2, <1>3, BytesStay DEF ControlMove

\* The fields of a message whose delivery goes on.
LEMMA WriteMoves ==
  ASSUME ActorTypes, write.at # "idle",
         NEW at \in {"queued", "started", "sent", "unsent", "deadline"}, write' = [write EXCEPT !.at = at]
  PROVE  write' \in Writes /\ write'.kind = write.kind /\ write'.at = at
  BY DEF ActorTypes, Writes, NoWrite

LEMMA PhasesStay ==
  ASSUME UploadInv, UNCHANGED <<phase, gone, expired>>
  PROVE  PhaseMoves
  BY DEF UploadInv, WireTypes, PhaseMoves

LEMMA LanesStay == UNCHANGED <<data, term, deferred>> => LaneMoves
  BY DEF LaneMoves

LEMMA UnsentMoves == UploadInv /\ (WriterDiscards \/ WriterFails \/ HandshakeExpires) => ControlMove
<1> SUFFICES ASSUME UploadInv, WriterDiscards \/ WriterFails \/ HandshakeExpires
             PROVE  ControlMove
  OBVIOUS
<1>1. write.at # "idle" /\ \E at \in {"unsent", "deadline"} : write' = [write EXCEPT !.at = at]
  BY DEF WriterDiscards, WriterFails, HandshakeExpires
<1>2. UNCHANGED <<ingress, client, down, actor, state, owner, reader, phase, gone, expired,
                  data, term, deferred, cancels, registered>>
  BY DEF WriterDiscards, WriterFails, HandshakeExpires, ingressVars, laneVars, cancelVars, clientVars
<1>3. CancelMoves
  BY <1>2, CancelsStay DEF UploadInv, WireTypes
<1> QED BY <1>1, <1>2, <1>3, WriteMoves, PhasesStay, LanesStay, OutsideMoves DEF UploadInv

LEMMA SendMoves == UploadInv /\ WriterSends => ControlMove
<1> SUFFICES ASSUME UploadInv, WriterSends PROVE ControlMove OBVIOUS
<1>1. UNCHANGED <<ingress, client, down, actor, state, owner, reader, gone, expired,
                  data, term, deferred, cancels, registered>>
  BY DEF WriterSends, laneVars, cancelVars, clientVars
<1>2. phase' \in {phase, "ClientAbortAckSent", "Retired"}
  BY DEF WriterSends
<1>3. PhaseMoves
  BY <1>1, <1>2 DEF UploadInv, WireTypes, PhaseMoves, Phases
<1>4. phase' # "Opening"
  BY <1>2 DEF WriterSends, UploadInv, PhasesAgree
<1>5. write' \in Writes
  BY WriteMoves DEF WriterSends, UploadInv
<1>6. CancelMoves
  BY <1>1, CancelsStay DEF UploadInv, WireTypes
<1> QED BY <1>1, <1>3, <1>4, <1>5, <1>6, LanesStay, OutsideMoves

LEMMA DisconnectMoves == UploadInv /\ (Disconnect \/ Expire) => ControlMove
<1> SUFFICES ASSUME UploadInv, Disconnect \/ Expire PROVE ControlMove OBVIOUS
<1>1. UNCHANGED <<ingress, client, down, actor, state, owner, reader, write,
                  data, term, deferred, cancels, registered>>
  BY DEF Disconnect, Expire, ingressVars, laneVars, actorVars, cancelVars, clientVars
<1>2. PhaseMoves
  <2>1. CASE Disconnect
    BY <2>1 DEF Disconnect, CloseConnection, Invalidated, UploadInv, WireTypes, PhaseMoves, Phases
  <2>2. CASE Expire
    BY <2>2 DEF Expire, ingressVars, UploadInv, WireTypes, PhaseMoves
  <2> QED BY <2>1, <2>2
<1>3. CancelMoves
  BY <1>1, CancelsStay DEF UploadInv, WireTypes
<1>4. write' \in Writes
  BY <1>1 DEF UploadInv, ActorTypes
<1> QED BY <1>1, <1>2, <1>3, <1>4, LanesStay, OutsideMoves

LEMMA TicketlessIs ==
  ASSUME NEW at
  PROVE  /\ IsCancel(Ticketless(at)) /\ Ticketless(at).at = at
         /\ Ticketless(at).ticket = NoTicket /\ Ticketless(at).late = FALSE
  BY DEF IsCancel, Ticketless

LEMMA PutMoves ==
  ASSUME CancelShape, NEW c \in Cancellers, NEW e, IsCancel(e), cancels' = [cancels EXCEPT ![c] = e]
  PROVE  /\ CancelShape'
         /\ \A d \in Cancellers : /\ cancels'[d] = IF d = c THEN e ELSE cancels[d]
                                 /\ cancels'[d].at = IF d = c THEN e.at ELSE cancels[d].at
<1>1. cancels' = [d \in Cancellers |-> IF d = c THEN e ELSE cancels[d]]
  BY DEF CancelShape
<1> QED BY <1>1 DEF CancelShape, IsCancel

LEMMA OneCancelMoves ==
  ASSUME UploadInv, CancelShape', NEW c \in Cancellers, NEW at,
         \A d \in Cancellers : cancels'[d].at = IF d = c THEN at ELSE cancels[d].at,
         phase' # "Opening", at # "cancelled",
         at = "refused" => gone' \/ phase' # "Active" \/ TimedOut',
         at = "already" => owner'.selected, registered' \in BOOLEAN,
         registered' = registered \/ gone' \/ phase' # "Active" \/ TimedOut'
  PROVE  CancelMoves
  BY DEF CancelMoves

LEMMA AskMoves == ASSUME NEW c \in Cancellers PROVE UploadInv /\ CancelTask(c) => ControlMove
<1> SUFFICES ASSUME UploadInv, CancelTask(c) PROVE ControlMove OBVIOUS
<1>1. UNCHANGED cancelFrame
  BY DEF CancelTask, CancelLooksUp, CancelAsks, CancelEnqueues, CancelDropped, CancelSettles
<1>2. UNCHANGED <<ingress, client, down, actor, state, owner, write, reader, phase, gone,
                  expired, data, deferred>>
  BY <1>1 DEF cancelFrame, actorVars, clientVars
<1>3. CancelShape /\ registered \in BOOLEAN
  BY DEF UploadInv, WireTypes
<1>4. phase # "Opening"
  BY DEF CancelTask, CancelLooksUp, CancelAsks, CancelEnqueues, CancelDropped, CancelSettles,
         UploadInv, PhasesAgree
<1>5. LaneMoves
  <2>1. CASE term' = term
    BY <1>2, <2>1, LanesStay
  <2>2. CASE CancelEnqueues(c) /\ term' # term
    <3> DEFINE e == [kind |-> "CANCEL", from |-> c, late |-> cancels[c].late]
    <3>1. term' = Append(term, e)
      BY <2>2 DEF CancelEnqueues
    <3>2. e \in Asked
      BY DEF Asked, UploadInv, WireTypes, CancelShape
    <3> QED BY <1>2, <3>1, <3>2 DEF LaneMoves
  <2> QED BY <2>1, <2>2 DEF CancelTask, CancelLooksUp, CancelAsks, CancelDropped, CancelSettles
<1>6. CASE CancelLooksUp(c)
  <2>1. PICK at : /\ MovesTo(c, at)
                  /\ at \in {"found", "already", "unknown"} /\ (at = "already" => owner.selected)
    <3> DEFINE at == IF registered THEN "found" ELSE Recorded
    <3>1. MovesTo(c, at)
      BY <1>6 DEF MovesTo, CancelLooksUp
    <3>2. at \in {"found", "already", "unknown"} /\ (at = "already" => owner.selected)
      BY DEF Recorded
    <3> HIDE DEF at
    <3> QED BY <3>1, <3>2
  <2>2. registered' = registered
    BY <1>6 DEF CancelLooksUp
  <2>3. /\ CancelShape'
        /\ \A d \in Cancellers : cancels'[d].at = IF d = c THEN at ELSE cancels[d].at
    BY <1>3, <2>1, AtMoves
  <2>4. CancelMoves
    BY <1>2, <1>3, <1>4, <2>1, <2>2, <2>3, OneCancelMoves
  <2> QED BY <1>2, <1>5, <2>4, PhasesStay, OutsideMoves DEF UploadInv, ActorTypes
<1>7. CASE CancelAsks(c)
  <2>1. CASE phase # "Active" \/ gone
    <3>1. MovesTo(c, "refused") /\ registered' = registered
      BY <1>7, <2>1 DEF MovesTo, CancelAsks
    <3>2. /\ CancelShape'
          /\ \A d \in Cancellers : cancels'[d].at = IF d = c THEN "refused" ELSE cancels[d].at
      BY <1>3, <3>1, AtMoves
    <3>3. CancelMoves
      BY <1>2, <1>3, <1>4, <2>1, <3>1, <3>2, OneCancelMoves
    <3> QED BY <1>2, <1>5, <3>3, PhasesStay, OutsideMoves DEF UploadInv, ActorTypes
  <2>2. CASE ~(phase # "Active" \/ gone)
    <3> DEFINE e == [at |-> "lane", ticket |-> order.next, late |-> expired]
    <3>1. cancels' = [cancels EXCEPT ![c] = e] /\ registered' = registered
      BY <1>7, <2>2 DEF CancelAsks
    <3>2. IsCancel(e) /\ e.at = "lane"
      BY DEF IsCancel, UploadInv, WireTypes
    <3> HIDE DEF e
    <3>3. /\ CancelShape'
          /\ \A d \in Cancellers : cancels'[d].at = IF d = c THEN e.at ELSE cancels[d].at
      BY ZenonT(40), <1>3, <3>1, <3>2, PutMoves
    <3>4. CancelMoves
      BY <1>2, <1>3, <1>4, <3>1, <3>2, <3>3, OneCancelMoves
    <3> QED BY <1>2, <1>5, <3>4, PhasesStay, OutsideMoves DEF UploadInv, ActorTypes
  <2> QED BY <2>1, <2>2
<1>8. CASE CancelEnqueues(c)
  <2> DEFINE at == IF Receiving /\ phase # "Retired" THEN "asked" ELSE "refused"
             e  == Ticketless(at)
  <2>1. cancels' = [cancels EXCEPT ![c] = e]
    BY <1>8 DEF CancelEnqueues
  <2>5. IsCancel(e) /\ e.at = at
    BY TicketlessIs
  <2>6. at # "cancelled" /\ at # "already" /\ (at = "refused" => ~(Receiving /\ phase # "Retired"))
    OBVIOUS
  <2> HIDE DEF at, e
  <2>2. ~Receiving \/ phase = "Retired" => phase # "Active"
    BY DEF Receiving, UploadInv, PhasesAgree, Running
  <2>3. /\ CancelShape' /\ registered' = registered
        /\ \A d \in Cancellers : cancels'[d].at = IF d = c THEN at ELSE cancels[d].at
    <3>1. registered' = registered
      BY <1>8 DEF CancelEnqueues
    <3>2. CancelShape' /\ \A d \in Cancellers : cancels'[d].at = IF d = c THEN e.at ELSE cancels[d].at
      BY <1>3, <2>1, <2>5, PutMoves
    <3> QED BY <2>5, <3>1, <3>2
  <2>4. CancelMoves
    BY <1>2, <1>3, <1>4, <2>2, <2>3, <2>6, OneCancelMoves
  <2> QED BY <1>2, <1>5, <2>4, PhasesStay, OutsideMoves DEF UploadInv, ActorTypes
<1>9. CASE CancelDropped(c)
  <2>1. MovesTo(c, "refused") /\ registered' = registered
    BY <1>9 DEF MovesTo, CancelDropped
  <2>2. phase # "Active"
    BY <1>9 DEF CancelDropped, Receiving, UploadInv, PhasesAgree, Running
  <2>3. /\ CancelShape'
        /\ \A d \in Cancellers : cancels'[d].at = IF d = c THEN "refused" ELSE cancels[d].at
    BY <1>3, <2>1, AtMoves
  <2>4. CancelMoves
    BY <1>2, <1>3, <1>4, <2>1, <2>2, <2>3, OneCancelMoves
  <2> QED BY <1>2, <1>5, <2>4, PhasesStay, OutsideMoves DEF UploadInv, ActorTypes
<1>10. CASE CancelSettles(c)
  <2>1. PICK at : /\ MovesTo(c, at)
                  /\ at \in {"already", "unknown"} /\ (at = "already" => owner.selected)
    <3>1. MovesTo(c, Recorded)
      BY <1>10 DEF MovesTo, CancelSettles
    <3>2. Recorded \in {"already", "unknown"} /\ (Recorded = "already" => owner.selected)
      BY DEF Recorded
    <3> QED BY <3>1, <3>2
  <2>2. registered' = FALSE /\ (gone' \/ phase' # "Active" \/ TimedOut')
    BY <1>2, <1>10 DEF CancelSettles, UploadInv, AnswersBacked, TimedOut
  <2>3. /\ CancelShape'
        /\ \A d \in Cancellers : cancels'[d].at = IF d = c THEN at ELSE cancels[d].at
    BY <1>3, <2>1, AtMoves
  <2>4. CancelMoves
    BY <1>2, <1>3, <1>4, <2>1, <2>2, <2>3, OneCancelMoves
  <2> QED BY <1>2, <1>5, <2>4, PhasesStay, OutsideMoves DEF UploadInv, ActorTypes
<1> QED BY <1>6, <1>7, <1>8, <1>9, <1>10 DEF CancelTask

LEMMA WithdrawMoves == ASSUME NEW c \in Cancellers PROVE UploadInv /\ CancelWithdrawn(c) => ControlMove
<1> SUFFICES ASSUME UploadInv, CancelWithdrawn(c) PROVE ControlMove OBVIOUS
<1>1. UNCHANGED <<ingress, client, down, actor, state, owner, write, reader, phase, gone,
                  expired, data, term, deferred, registered>>
  BY DEF CancelWithdrawn, cancelFrame, actorVars, clientVars
<1>2. CancelShape /\ registered \in BOOLEAN /\ phase # "Opening"
  BY DEF CancelWithdrawn, UploadInv, WireTypes, PhasesAgree
<1> DEFINE e == Ticketless("withdrawn")
<1>3. cancels' = [cancels EXCEPT ![c] = e] /\ IsCancel(e) /\ e.at = "withdrawn"
  BY TicketlessIs DEF CancelWithdrawn
<1> HIDE DEF e
<1>4. /\ CancelShape'
      /\ \A d \in Cancellers : cancels'[d].at = IF d = c THEN e.at ELSE cancels[d].at
  BY ZenonT(40), <1>2, <1>3, PutMoves
<1>5. CancelMoves
  BY <1>1, <1>2, <1>3, <1>4, OneCancelMoves
<1> QED BY <1>1, <1>5, PhasesStay, LanesStay, OutsideMoves DEF UploadInv, ActorTypes

-----------------------------------------------------------------------------
(* Steps that select a terminal or move bytes, one part of the invariant   *)
(* at a time.                                                              *)

LEMMA UntouchedPreserves ==
  ASSUME UploadInv, Untouched PROVE DataInOrder' /\ EndsOwned'
<1>1. DataInOrder'
  BY DEF UploadInv, Untouched, DataInOrder, Waits, InHand
<1>2. EndsOwned'
  BY DEF UploadInv, Untouched, EndsOwned, NoEvent
<1> QED BY <1>1, <1>2

\* The cancellation is selected: the phase first ...
LEMMA CancelPreserves == UploadInv /\ UploadAssumption /\ HandleCancel => UploadInv'
<1> SUFFICES ASSUME UploadInv, UploadAssumption, HandleCancel PROVE UploadInv' OBVIOUS
<1>1. Apart /\ UNCHANGED <<gone, state, owner, registered, data, term, deferred>>
      /\ actor.pc = "handle"
  BY DEF HandleCancel, handling, Apart, actorFrame, clientVars
<1>2. actor.ev.from \in Cancellers
  BY DEF HandleCancel, UploadInv, ActorTypes, Actors, Events, Received, Asked, RecordKinds, NoEvent
<1>3. phase # "Opening" /\ owner.result = "none"
  BY <1>1 DEF UploadInv, PhasesAgree
<1>4. CASE ~(registered /\ phase = "Active")
  <2> DEFINE c  == actor.ev.from
             at == IF cancels[c].at = "asked" THEN "refused" ELSE cancels[c].at
  <2>1. MovesTo(c, at) /\ TurnEnds(state) /\ phase' = phase
    BY <1>4 DEF MovesTo, HandleCancel
  <2>2. CancelShape /\ registered' \in BOOLEAN
    BY <1>1 DEF UploadInv, WireTypes
  <2>3. gone \/ phase # "Active"
    BY <1>1, <1>4 DEF UploadInv, AnswersBacked, TimedOut
  <2>4. at \in {cancels[c].at, "refused"}
    OBVIOUS
  <2> HIDE DEF c, at
  <2>5. CancelShape' /\ \A d \in Cancellers : cancels'[d].at = IF d = c THEN at ELSE cancels[d].at
    BY <2>1, <2>2, AtMoves
  <2>6. CancelMoves
    BY <1>1, <1>3, <2>1, <2>2, <2>3, <2>4, <2>5 DEF CancelMoves
  <2>7. actor' \in Actors /\ write' \in Writes /\ actor'.pc \in {"credit", "next"}
        /\ actor'.ev = NoEvent
    BY <2>1, TurnMoves DEF UploadInv, ActorTypes
  <2>8. PhaseMoves /\ LaneMoves
    BY <1>1, <2>1 DEF Apart, UploadInv, WireTypes, PhaseMoves, LaneMoves
  <2>9. ActorMoves /\ ResultMoves
    BY <1>1, <1>3, <2>1, <2>7
       DEF UploadInv, ActorTypes, PhasesAgree, ActorMoves, ResultMoves, Calm, Owning, Running,
           TimedOut
  <2> QED BY <1>1, <2>6, <2>8, <2>9, BytesStay, ControlMovePreserves DEF ControlMove, Apart
<1>5. CASE registered /\ phase = "Active"
  <2>1. /\ phase' = "DaemonAbortQueued" /\ UNCHANGED <<write, cancels>>
        /\ actor' = [actor EXCEPT !.pc = "record", !.ev = NoEvent, !.asker = actor.ev.from]
    BY <1>5 DEF HandleCancel
  <2>2. actor' \in Actors /\ actor'.pc = "record" /\ actor'.ev = NoEvent
    BY <1>2, <2>1 DEF UploadInv, ActorTypes, Actors, Ending
  <2>3. WireTypes'
    BY <1>1, <2>1 DEF UploadInv, WireTypes, Apart, Phases, CancelShape
  <2>4. ActorTypes'
    BY <1>1, <2>1, <2>2 DEF UploadInv, ActorTypes, Apart
  <2>5. PhasesAgree'
    BY <1>1, <1>3, <2>1, <2>2 DEF PhasesAgree
  <2>6. DataInOrder' /\ EndsOwned'
    BY <1>1, <2>2, UntouchedPreserves DEF Untouched, Apart
  <2>7. OwnersWhole'
    BY <1>1, <1>3, <2>2 DEF OwnersWhole, Owning
  <2>8. SelectionFinal'
    BY <1>1, <1>3, <1>5, <2>1, <2>2 DEF UploadInv, SelectionFinal
  <2>9. AnswersBacked'
    BY <1>1, <2>1 DEF UploadInv, AnswersBacked, TimedOut
  <2> QED BY <2>3, <2>4, <2>5, <2>6, <2>7, <2>8, <2>9 DEF UploadInv
<1> QED BY <1>4, <1>5

\* ... then the ledger ...
LEMMA RecordPreserves == UploadInv /\ CancelRecords => UploadInv'
<1> SUFFICES ASSUME UploadInv, CancelRecords PROVE UploadInv' OBVIOUS
<1>1. Apart /\ UNCHANGED <<gone, phase, state, cancels, data, term, deferred>>
      /\ actor.pc = "record" /\ registered' = FALSE
  BY DEF CancelRecords, Apart, actorFrame, clientVars, laneVars
<1>2. phase \in Phases \ {"Opening", "Active", "Finalizing"} /\ owner.result = "none"
      /\ ~owner.selected
  BY <1>1, EndedFacts DEF UploadInv, WireTypes, PhasesAgree, SelectionFinal, Ending
<1>3. actor' \in Actors /\ write' \in Writes /\ actor'.pc = "fail" /\ actor'.ev = NoEvent
      /\ actor'.why = "cancelled"
  BY FailMoves DEF CancelRecords, UploadInv, Whys
<1>4. owner' \in Owners /\ owner'.result = "none" /\ owner'.selected
  BY <1>2 DEF CancelRecords, UploadInv, ActorTypes, Owners
<1>5. WireTypes'
  BY <1>1 DEF UploadInv, WireTypes, Apart, CancelShape
<1>6. ActorTypes'
  BY <1>1, <1>3, <1>4 DEF UploadInv, ActorTypes, Apart
<1>7. PhasesAgree'
  BY <1>1, <1>2, <1>4 DEF PhasesAgree
<1>8. DataInOrder' /\ EndsOwned'
  BY <1>1, <1>3, UntouchedPreserves DEF Untouched, Apart
<1>9. OwnersWhole'
  BY <1>3, <1>4 DEF OwnersWhole, Owning
<1>10. SelectionFinal'
  BY <1>1, <1>2, <1>3, <1>4 DEF UploadInv, SelectionFinal, AnswersBacked
<1>11. AnswersBacked'
  BY <1>1, <1>2, <1>4 DEF UploadInv, AnswersBacked
<1> QED BY <1>5, <1>6, <1>7, <1>8, <1>9, <1>10, <1>11 DEF UploadInv

\* ... and then the one cancel that asked is told.
LEMMA SelectPreserves == UploadInv /\ SelectDaemonAbort => UploadInv'
<1> SUFFICES ASSUME UploadInv, SelectDaemonAbort PROVE UploadInv' OBVIOUS
<1>1. Apart /\ UNCHANGED state /\ actor.pc = "fail"
  BY DEF SelectDaemonAbort, Apart, actorFrame, clientVars
<1>2. owner.result = "none" /\ phase # "Opening"
  BY <1>1 DEF UploadInv, PhasesAgree
<1>3. CASE /\ actor.yield # "none" /\ Loop
           /\ UNCHANGED <<gone, phase, owner, registered, cancels, data, term, deferred>>
  BY <1>1, <1>3, LoopMoves, BytesStay, RunMoves, ControlMovePreserves
     DEF UploadInv, Running, TimedOut
<1>4. CASE LoseTransport /\ UNCHANGED cancels
  BY <1>1, <1>4, BytesStay, LoseMoves, ControlMovePreserves DEF LoseTransport
<1>5. CASE /\ phase' = "DaemonAbortQueued" /\ registered' = FALSE
           /\ cancels' = [c \in Cancellers |->
                IF actor.why = "cancelled" /\ c = actor.asker /\ cancels[c].at = "asked"
                THEN [cancels[c] EXCEPT !.at = "cancelled"] ELSE cancels[c]]
           /\ actor' = [actor EXCEPT !.pc = "abort"] /\ Queue("ABORT", 0)
           /\ UNCHANGED <<gone, owner, laneVars>>
  <2>1. actor' \in Actors /\ actor'.pc = "abort" /\ actor'.ev = actor.ev
    BY <1>5 DEF UploadInv, ActorTypes, Actors, Ending
  <2>2. write' \in Writes
    BY <1>5 DEF Queue, Writes, Messages
  <2>3. CancelShape
    BY DEF UploadInv, WireTypes
  <2>4. \A c \in Cancellers : [cancels[c] EXCEPT !.at = "cancelled"]
             = [at |-> "cancelled", ticket |-> cancels[c].ticket, late |-> cancels[c].late]
    BY <2>3, CancelRecord, RecordAt
  <2>5. /\ CancelShape'
        /\ \A c \in Cancellers : cancels'[c].at =
             IF actor.why = "cancelled" /\ c = actor.asker /\ cancels[c].at = "asked"
             THEN "cancelled" ELSE cancels[c].at
    BY <1>5, <2>3, <2>4 DEF CancelShape
  <2>6. actor.why = "cancelled" => owner.selected /\ \A c \in Cancellers : cancels[c].at # "cancelled"
    BY <1>1 DEF UploadInv, SelectionFinal
  <2>7. UNCHANGED <<gone, owner, data, term, deferred>>
    BY <1>5 DEF laneVars
  <2>8. WireTypes'
    BY <1>1, <1>5, <2>5, <2>7 DEF UploadInv, WireTypes, Apart, Phases
  <2>9. ActorTypes'
    BY <1>1, <2>1, <2>2, <2>7 DEF UploadInv, ActorTypes, Apart
  <2>10. PhasesAgree'
    BY <1>2, <1>5, <2>7 DEF PhasesAgree
  <2>11. DataInOrder' /\ EndsOwned'
    BY <1>1, <2>1, <2>7, UntouchedPreserves DEF Untouched, Apart
  <2>12. OwnersWhole'
    BY <1>2, <2>1, <2>7 DEF OwnersWhole, Owning
  <2>13. SelectionFinal'
    BY <1>2, <1>5, <2>1, <2>7 DEF SelectionFinal
  <2>14. AnswersBacked'
    BY <1>5, <2>5, <2>6, <2>7 DEF UploadInv, AnswersBacked
  <2> QED BY <2>8, <2>9, <2>10, <2>11, <2>12, <2>13, <2>14 DEF UploadInv
<1> QED BY <1>3, <1>4, <1>5 DEF SelectDaemonAbort

\* The steps that take DATA from the hand of the actor into the staged file
\* and the accepted offset.
LEMMA DataPreserves == UploadInv /\ HandleData => UploadInv'
<1> SUFFICES ASSUME UploadInv, HandleData PROVE UploadInv' OBVIOUS
<1>1. Apart /\ UNCHANGED <<phase, gone, owner, registered, cancels, data, term, deferred>>
      /\ actor.pc = "handle" /\ actor.ev.kind = "DATA"
  BY DEF HandleData, handling, Apart, activeFrame, actorFrame, laneVars, clientVars
<1>2. CASE Fail("protocol", "preemptive") /\ UNCHANGED state
  BY <1>1, <1>2, FailMoves, BytesStay, RunMoves, ControlMovePreserves
     DEF UploadInv, Running, Whys, TimedOut
<1>3. CASE /\ actor.ev.off = state.accepted
           /\ actor' = [actor EXCEPT !.pc = "stage"]
           /\ state' = [state EXCEPT !.history = {h \in @ : h[2] >= actor.ev.off + actor.ev.n}]
           /\ UNCHANGED write
  <2>1. actor' \in Actors /\ actor'.pc = "stage" /\ actor'.ev = actor.ev
    BY <1>3 DEF UploadInv, ActorTypes, Actors, Running
  <2>2. state' \in States /\ state'.accepted = state.accepted /\ state'.staged = state.staged
    <3> DEFINE kept == {h \in state.history : h[2] >= actor.ev.off + actor.ev.n}
    <3>1. kept \in SUBSET (Nat \X Nat)
      BY DEF UploadInv, ActorTypes, States
    <3>2. state' = [state EXCEPT !.history = kept]
      BY <1>3
    <3> HIDE DEF kept
    <3> QED BY <3>1, <3>2 DEF UploadInv, ActorTypes, States
  <2>3. phase # "Opening" /\ phase # "Finalizing" /\ owner.result = "none"
    BY <1>1 DEF UploadInv, PhasesAgree, Owning
  <2>4. WireTypes'
    BY <1>1 DEF UploadInv, WireTypes, Apart, CancelShape
  <2>5. ActorTypes'
    BY <1>1, <1>3, <2>1, <2>2 DEF UploadInv, ActorTypes, Apart
  <2>6. PhasesAgree'
    BY <1>1, <2>1, <2>3 DEF PhasesAgree, Running
  <2>7. DataInOrder'
    BY <1>1, <1>3, <2>1, <2>2 DEF UploadInv, DataInOrder, Waits, InHand, Apart
  <2>8. EndsOwned'
    BY <1>1, <2>1 DEF UploadInv, EndsOwned, Apart
  <2>9. OwnersWhole'
    BY <1>1, <2>1, <2>3 DEF OwnersWhole, Owning
  <2>10. SelectionFinal' /\ AnswersBacked'
    BY <1>1, <2>1 DEF UploadInv, SelectionFinal, AnswersBacked, TimedOut
  <2> QED BY <2>4, <2>5, <2>6, <2>7, <2>8, <2>9, <2>10 DEF UploadInv
<1> QED BY <1>2, <1>3 DEF HandleData

LEMMA StagePreserves == UploadInv /\ StageCompletes => UploadInv'
<1> SUFFICES ASSUME UploadInv, StageCompletes PROVE UploadInv' OBVIOUS
<1>1. Apart /\ UNCHANGED <<phase, gone, owner, registered, cancels, data, term, deferred>>
      /\ actor.pc = "stage"
  BY DEF StageCompletes, Apart, activeFrame, actorFrame, laneVars, clientVars
<1>2. CASE Fail("sink", "preemptive") /\ UNCHANGED state
  BY <1>1, <1>2, FailMoves, BytesStay, RunMoves, ControlMovePreserves
     DEF UploadInv, Running, Whys, TimedOut
<1>3. CASE /\ actor' = [actor EXCEPT !.pc = "commit"]
           /\ state' = [state EXCEPT !.staged = @ + actor.ev.n] /\ UNCHANGED write
  <2>1. actor' \in Actors /\ actor'.pc = "commit" /\ actor'.ev = actor.ev
    BY <1>3 DEF UploadInv, ActorTypes, Actors, Running
  <2>2. actor.ev \in Received /\ actor.ev.kind = "DATA"
    BY <1>1 DEF UploadInv, DataInOrder, ActorTypes, Actors, Events, Asked, NoEvent
  <2>3. actor.ev.off \in Nat /\ actor.ev.n \in Nat
    BY <2>2 DEF Received
  <2>4. state' \in States /\ state'.accepted = state.accepted
        /\ state'.staged = state.staged + actor.ev.n
    <3>1. state \in States /\ state.staged + actor.ev.n \in Nat
      BY <2>3 DEF UploadInv, ActorTypes, States
    <3>2. state' = [state EXCEPT !.staged = state.staged + actor.ev.n]
      BY <1>3
    <3> QED BY <3>1, <3>2 DEF States
  <2>5. state.accepted \in Nat /\ state.staged \in Nat /\ ingress.received \in Nat
    BY DEF UploadInv, WireTypes, ActorTypes, States, Ingresses
  <2>6. state.staged = actor.ev.off /\ actor.ev.off + actor.ev.n <= ingress.received
    BY <1>1, <2>2, <2>3, <2>5 DEF UploadInv, DataInOrder, InHand, Waits
  <2>7. phase # "Opening" /\ phase # "Finalizing" /\ owner.result = "none"
    BY <1>1 DEF UploadInv, PhasesAgree, Owning
  <2>8. WireTypes'
    BY <1>1 DEF UploadInv, WireTypes, Apart, CancelShape
  <2>9. ActorTypes'
    BY <1>1, <1>3, <2>1, <2>4 DEF UploadInv, ActorTypes, Apart
  <2>10. PhasesAgree'
    BY <1>1, <2>1, <2>7 DEF PhasesAgree, Running
  <2>11. DataInOrder'
    <3>1. /\ \A i \in DOMAIN data : data[i].kind = "DATA" /\ Waits(data[i])'
          /\ reader.ev.kind = "DATA" => Waits(reader.ev)'
      BY <1>1, <2>2, <2>4, <2>6 DEF UploadInv, DataInOrder, InHand, Waits, Apart
    <3>2. state'.accepted <= state'.staged /\ state'.staged <= ingress.received
      BY <2>3, <2>4, <2>5, <2>6 DEF UploadInv, DataInOrder
    <3> QED BY <1>1, <2>1, <2>2, <2>4, <2>6, <3>1, <3>2 DEF UploadInv, DataInOrder, InHand, Waits, Apart
  <2>12. EndsOwned'
    BY <1>1, <2>1 DEF UploadInv, EndsOwned, Apart
  <2>13. OwnersWhole'
    BY <1>1, <2>1, <2>7 DEF OwnersWhole, Owning
  <2>14. SelectionFinal' /\ AnswersBacked'
    BY <1>1, <2>1 DEF UploadInv, SelectionFinal, AnswersBacked, TimedOut
  <2> QED BY <2>8, <2>9, <2>10, <2>11, <2>12, <2>13, <2>14 DEF UploadInv
<1> QED BY <1>2, <1>3 DEF StageCompletes

LEMMA CommitPreserves == UploadInv /\ UploadAssumption /\ CommitAccepted => UploadInv'
<1> SUFFICES ASSUME UploadInv, UploadAssumption, CommitAccepted PROVE UploadInv' OBVIOUS
<1> DEFINE accepted == [state EXCEPT !.accepted = actor.ev.off + actor.ev.n]
<1>1. UNCHANGED <<client, down, expired, cancels>> /\ reader' = reader
      /\ actor.pc = "commit"
  BY DEF CommitAccepted, actorFrame, clientVars
<1>2. CASE /\ UNCHANGED <<gone, phase, ingress, state, owner, registered, data, term, deferred>>
           /\ TurnEnds(state)
  BY <1>1, <1>2, BytesStay, TurnMoves, RunMoves, ControlMovePreserves
     DEF UploadInv, ActorTypes, Apart, Running, TimedOut
<1>3. CASE LoseTransport /\ UNCHANGED <<ingress, state>>
  BY <1>1, <1>3, BytesStay, LoseMoves, ControlMovePreserves DEF LoseTransport, Apart
<1>4. CASE /\ phase' \in {phase, "DaemonAbortQueued"} /\ Fail("timeout", "any")
           /\ UNCHANGED <<gone, ingress, state, owner, registered, laneVars>>
  BY <1>1, <1>4, FailMoves, BytesStay, RunMoves, ControlMovePreserves
     DEF UploadInv, laneVars, Apart, Running, TimedOut, Whys
<1>5. CASE /\ state' = accepted /\ ingress' = [ingress EXCEPT !.accepted = accepted.accepted]
           /\ TurnEnds(accepted)
           /\ UNCHANGED <<gone, phase, owner, registered, data, term, deferred>>
  <2>1. actor.ev \in Received /\ actor.ev.kind = "DATA"
        /\ actor.ev.off + actor.ev.n = state.staged
    BY <1>1 DEF UploadInv, DataInOrder, ActorTypes, Actors, Events, Asked, NoEvent
  <2>2. state.staged \in Nat
    BY DEF UploadInv, ActorTypes, States
  <2>3. accepted \in States /\ accepted.accepted = state.staged /\ accepted.staged = state.staged
    BY <2>1, <2>2 DEF UploadInv, ActorTypes, States
  <2> HIDE DEF accepted
  <2>4. actor' \in Actors /\ write' \in Writes /\ actor'.pc \in {"credit", "next"}
        /\ actor'.ev = NoEvent
    BY <1>5, <2>3, TurnMoves DEF UploadInv
  <2>5. ingress' \in Ingresses /\ ingress'.received = ingress.received
        /\ ingress'.producer = ingress.producer
    BY <1>5, <2>2, <2>3 DEF UploadInv, WireTypes, Ingresses
  <2>6. phase # "Opening" /\ phase # "Finalizing" /\ owner.result = "none"
    BY <1>1 DEF UploadInv, PhasesAgree, Owning
  <2>7. WireTypes'
    BY <1>1, <1>5, <2>5 DEF UploadInv, WireTypes, CancelShape
  <2>8. ActorTypes'
    BY <1>1, <1>5, <2>3, <2>4 DEF UploadInv, ActorTypes
  <2>9. PhasesAgree'
    BY <1>1, <1>5, <2>4, <2>6 DEF PhasesAgree, Running
  <2>10. DataInOrder'
    BY <1>1, <1>5, <2>2, <2>3, <2>4, <2>5 DEF UploadInv, DataInOrder, Waits, InHand
  <2>11. EndsOwned'
    BY <1>1, <1>5, <2>4, <2>5 DEF UploadInv, EndsOwned, NoEvent
  <2>12. OwnersWhole'
    BY <1>5, <2>4, <2>6 DEF OwnersWhole, Owning
  <2>13. SelectionFinal' /\ AnswersBacked'
    BY <1>1, <1>5, <2>4 DEF UploadInv, SelectionFinal, AnswersBacked, TimedOut
  <2> QED BY <2>7, <2>8, <2>9, <2>10, <2>11, <2>12, <2>13 DEF UploadInv
<1> QED BY <1>2, <1>3, <1>4, <1>5 DEF CommitAccepted

\* END owns the result only of a whole upload.
LEMMA EndPreserves == UploadInv /\ UploadAssumption /\ HandleEnd => UploadInv'
<1> SUFFICES ASSUME UploadInv, UploadAssumption, HandleEnd PROVE UploadInv' OBVIOUS
<1>1. UNCHANGED <<state, owner, cancels, client, down, expired, data, term, deferred>>
      /\ reader' = reader /\ actor.pc = "handle" /\ actor.ev.kind = "END"
  BY DEF HandleEnd, handling, actorFrame, clientVars, laneVars
<1>2. phase # "Opening" /\ phase # "Finalizing" /\ owner.result = "none"
  BY <1>1 DEF UploadInv, PhasesAgree, Owning
<1>3. CASE EndFailure(actor.ev.n) # "none"
  <2>1. Fail(EndFailure(actor.ev.n), "none") /\ UNCHANGED <<phase, gone, ingress, registered>>
    BY <1>3 DEF HandleEnd
  <2>2. EndFailure(actor.ev.n) \in Whys \ {"cancelled"}
    BY DEF EndFailure, Whys
  <2> QED BY <1>1, <2>1, <2>2, FailMoves, BytesStay, RunMoves, ControlMovePreserves
          DEF UploadInv, Apart, Running, TimedOut
<1>4. CASE EndFailure(actor.ev.n) = "none"
  <2>1. /\ phase' = "Finalizing" /\ gone' = (gone \/ ingress.postEnd)
        /\ ingress' = [ingress EXCEPT !.accepted = actor.ev.n]
        /\ registered' = FALSE
        /\ actor' = [actor EXCEPT !.pc = "finish", !.ev = NoEvent] /\ UNCHANGED write
    BY <1>4 DEF HandleEnd
  <2>2. actor.ev.n = state.accepted /\ ~(actor.ev.n < Declared) /\ phase = "Active"
    BY <1>4 DEF EndFailure
  <2>3. state.accepted \in Nat /\ state.staged \in Nat /\ ingress.received \in Nat
    BY DEF UploadInv, WireTypes, ActorTypes, States, Ingresses
  <2>4. state.accepted = Declared /\ state.staged = Declared
    BY <2>2, <2>3 DEF UploadInv, DataInOrder, UploadAssumption
  <2>5. actor' \in Actors /\ actor'.pc = "finish" /\ actor'.ev = NoEvent
    BY <2>1 DEF UploadInv, ActorTypes, Actors, Owning
  <2>6. ingress' \in Ingresses /\ ingress'.received = ingress.received
        /\ ingress'.producer = ingress.producer
    BY <2>1, <2>2, <2>3 DEF UploadInv, WireTypes, Ingresses
  <2>7. ingress.producer = "END" /\ ~owner.selected
    BY <1>1, <2>2 DEF UploadInv, EndsOwned, SelectionFinal
  <2>8. gone' \in BOOLEAN
    BY <2>1 DEF UploadInv, WireTypes, Ingresses
  <2>9. WireTypes'
    BY <1>1, <2>1, <2>6, <2>8 DEF UploadInv, WireTypes, CancelShape, Phases
  <2>10. ActorTypes'
    BY <1>1, <2>1, <2>5 DEF UploadInv, ActorTypes
  <2>11. PhasesAgree'
    BY <1>1, <1>2, <2>1, <2>5 DEF PhasesAgree, Owning
  <2>12. DataInOrder'
    BY <1>1, <2>5, <2>6 DEF UploadInv, DataInOrder, Waits, InHand
  <2>13. EndsOwned'
    BY <1>1, <2>5, <2>6 DEF UploadInv, EndsOwned, NoEvent
  <2>14. OwnersWhole'
    BY <1>1, <1>2, <2>4, <2>6, <2>7 DEF OwnersWhole, Whole
  <2>15. SelectionFinal'
    BY <1>1, <2>5, <2>7 DEF SelectionFinal
  <2>16. AnswersBacked'
    BY <1>1, <2>1 DEF UploadInv, AnswersBacked
  <2> QED BY <2>9, <2>10, <2>11, <2>12, <2>13, <2>14, <2>15, <2>16 DEF UploadInv
<1> QED BY <1>3, <1>4

LEMMA FinalPreserves == UploadInv /\ Finalized => UploadInv'
<1> SUFFICES ASSUME UploadInv, Finalized PROVE UploadInv' OBVIOUS
<1>1. Apart /\ UNCHANGED <<gone, phase, state, registered, cancels, data, term, deferred>>
      /\ actor.pc = "finalize"
  BY DEF Finalized, Apart, actorFrame, clientVars, cancelVars, laneVars
<1>2. Whole /\ phase \notin {"Opening", "Active"}
  BY <1>1 DEF UploadInv, OwnersWhole, PhasesAgree, Owning, Running
<1>3. owner' \in Owners /\ owner'.selected = owner.selected /\ owner'.result # "none"
  BY <1>2 DEF Finalized, Complete, Whole, UploadInv, ActorTypes, Owners, Whys
<1>4. actor' \in Actors /\ actor'.pc = "publish" /\ actor'.ev = actor.ev
  BY DEF Finalized, UploadInv, ActorTypes, Actors, Owning
<1>5. write' \in Writes
  BY DEF Finalized, Queue, Writes, Messages
<1>6. WireTypes'
  BY <1>1 DEF UploadInv, WireTypes, Apart, CancelShape
<1>7. ActorTypes'
  BY <1>1, <1>3, <1>4, <1>5 DEF UploadInv, ActorTypes, Apart
<1>8. PhasesAgree'
  BY <1>1, <1>2, <1>4 DEF PhasesAgree, Owning
<1>9. DataInOrder' /\ EndsOwned'
  BY <1>1, <1>4, UntouchedPreserves DEF Untouched, Apart
<1>10. OwnersWhole'
  BY <1>1, <1>2, <1>3, <1>4 DEF OwnersWhole, Whole, Apart
<1>11. SelectionFinal' /\ AnswersBacked'
  BY <1>1, <1>2, <1>3, <1>4 DEF UploadInv, SelectionFinal, AnswersBacked, Whole
<1> QED BY <1>6, <1>7, <1>8, <1>9, <1>10, <1>11 DEF UploadInv

-----------------------------------------------------------------------------
(* Events and messages change hands.                                       *)

\* An event of the lanes, in the hand of the actor.
LEMMA HoldMoves ==
  ASSUME ActorTypes, NEW e \in Events \cup {NoEvent}, Hold(e)
  PROVE  /\ actor' \in Actors /\ actor'.ev = e /\ actor'.why = actor.why
         /\ actor'.pc = IF actor.pc = "next" THEN "handle" ELSE "answer"
  BY ZenonT(40) DEF ActorTypes, Actors, Hold, Running, Ending

LEMMA TailMoves ==
  ASSUME NEW S, NEW lane \in Seq(S), lane # <<>>
  PROVE  /\ Head(lane) \in S /\ Head(lane) = lane[1] /\ 1 \in DOMAIN lane
         /\ Tail(lane) \in Seq(S)
         /\ \A i \in DOMAIN Tail(lane) : i + 1 \in DOMAIN lane /\ Tail(lane)[i] = lane[i + 1]
  OBVIOUS

LEMMA TakePreserves == UploadInv /\ ActorTakes => UploadInv'
<1> SUFFICES ASSUME UploadInv, ActorTakes PROVE UploadInv' OBVIOUS
<1>1. Apart /\ UNCHANGED <<gone, phase, state, write, owner, registered, cancels>>
      /\ actor.pc \in {"next", "waitack"}
  BY DEF ActorTakes, Apart, actorFrame, clientVars, cancelVars
<1>2. /\ data \in Seq(Events) /\ term \in Seq(Events) /\ deferred \in Events \cup {NoEvent}
      /\ ActorTypes
  BY DEF UploadInv, ActorTypes
<1>3. WireTypes'
  BY <1>1 DEF UploadInv, WireTypes, Apart, CancelShape
\* The actor holds an event, or keeps what it has.
<1>4. ASSUME actor' \in Actors,
             actor' = actor \/ (/\ actor'.why = actor.why
                                /\ actor'.pc = IF actor.pc = "next" THEN "handle" ELSE "answer")
      PROVE  PhasesAgree' /\ OwnersWhole' /\ SelectionFinal' /\ AnswersBacked'
  <2>1. owner.result = "none" /\ phase \notin {"Opening", "Finalizing"}
    BY <1>1 DEF UploadInv, PhasesAgree, Owning
  <2>2. phase = "Active" => actor.pc = "next"
    BY <1>1 DEF UploadInv, PhasesAgree, Running
  <2>3. PhasesAgree'
    BY <1>1, <1>4, <2>1, <2>2 DEF UploadInv, PhasesAgree, Running
  <2>4. OwnersWhole'
    BY <1>1, <1>4, <2>1 DEF OwnersWhole, Owning
  <2>5. SelectionFinal' /\ AnswersBacked'
    BY <1>1, <1>4 DEF UploadInv, SelectionFinal, AnswersBacked, TimedOut
  <2> QED BY <2>3, <2>4, <2>5
<1>5. CASE TakeDeferred
  <2>1. UNCHANGED <<data, term>> /\ deferred' = NoEvent /\ Hold(deferred)
    BY <1>5 DEF TakeDeferred
  <2>2. /\ actor' \in Actors /\ actor'.ev = deferred /\ actor'.why = actor.why
        /\ actor'.pc = IF actor.pc = "next" THEN "handle" ELSE "answer"
    BY <1>2, <2>1, HoldMoves
  <2>3. ActorTypes'
    BY <1>1, <1>2, <2>1, <2>2 DEF ActorTypes, Apart
  <2>4. deferred.kind # "DATA"
    BY DEF UploadInv, EndsOwned
  <2>5. DataInOrder'
    BY <1>1, <2>1, <2>2, <2>4 DEF UploadInv, DataInOrder, Waits, InHand, Apart
  <2>6. EndsOwned'
    BY <1>1, <2>1, <2>2 DEF UploadInv, EndsOwned, NoEvent, Apart
  <2> QED BY <1>3, <1>4, <2>2, <2>3, <2>5, <2>6 DEF UploadInv
<1>6. CASE TakeTerminal
  <2> DEFINE e == Head(term)
  <2>1. term # <<>> /\ UNCHANGED data /\ term' = Tail(term)
    BY <1>6 DEF TakeTerminal
  <2>2. /\ e \in Events /\ e = term[1] /\ 1 \in DOMAIN term /\ term' \in Seq(Events)
        /\ \A i \in DOMAIN term' : i + 1 \in DOMAIN term /\ term'[i] = term[i + 1]
    BY <1>2, <2>1, TailMoves
  <2>3. e.kind # "DATA" /\ (e.kind = "END" => ingress.producer = "END")
    BY <2>2 DEF UploadInv, EndsOwned
  <2>4. \/ deferred' = e /\ actor' = actor
        \/ deferred' = deferred /\ Hold(e)
    BY <1>6 DEF TakeTerminal
  <2> HIDE DEF e
  <2>5. \/ deferred' = e /\ actor' = actor
        \/ /\ deferred' = deferred
           /\ actor' \in Actors /\ actor'.ev = e /\ actor'.why = actor.why
           /\ actor'.pc = IF actor.pc = "next" THEN "handle" ELSE "answer"
    BY <1>2, <2>2, <2>4, HoldMoves
  <2>6. ActorTypes'
    BY <1>1, <1>2, <2>1, <2>2, <2>5 DEF ActorTypes, Apart
  <2>7. DataInOrder'
    BY <1>1, <2>1, <2>3, <2>5 DEF UploadInv, DataInOrder, Waits, InHand, Apart
  <2>8. EndsOwned'
    BY <1>1, <2>2, <2>3, <2>5 DEF UploadInv, EndsOwned, Apart
  <2> QED BY <1>2, <1>3, <1>4, <2>5, <2>6, <2>7, <2>8 DEF UploadInv, ActorTypes
<1>7. CASE TakeData
  <2> DEFINE e == Head(data)
  <2>1. data # <<>> /\ UNCHANGED <<term, deferred>> /\ data' = Tail(data) /\ Hold(e)
    BY <1>7 DEF TakeData
  <2>2. /\ e \in Events /\ e = data[1] /\ 1 \in DOMAIN data /\ data' \in Seq(Events)
        /\ \A i \in DOMAIN data' : i + 1 \in DOMAIN data /\ data'[i] = data[i + 1]
    BY <1>2, <2>1, TailMoves
  <2>3. /\ e.kind = "DATA" /\ Waits(e)
        /\ reader.ev.kind = "DATA" => e.off + e.n <= reader.ev.off
    BY <2>2 DEF UploadInv, DataInOrder
  <2>4. \A i \in DOMAIN data' : 1 < i + 1 /\ e.off + e.n <= data'[i].off
    BY <1>2, <2>2 DEF UploadInv, DataInOrder
  <2>5. \A i, j \in DOMAIN data' : i < j => data'[i].off + data'[i].n <= data'[j].off
    <3> SUFFICES ASSUME NEW i \in DOMAIN data', NEW j \in DOMAIN data', i < j
                 PROVE  data'[i].off + data'[i].n <= data'[j].off
      OBVIOUS
    <3>1. i \in Nat /\ j \in Nat
      BY <2>2
    <3>2. i + 1 \in DOMAIN data /\ j + 1 \in DOMAIN data /\ i + 1 < j + 1
      BY <2>2, <3>1
    <3>3. data[i + 1].off + data[i + 1].n <= data[j + 1].off
      BY <3>2 DEF UploadInv, DataInOrder
    <3> QED BY <2>2, <3>3
  <2> HIDE DEF e
  <2>6. /\ actor' \in Actors /\ actor'.ev = e /\ actor'.why = actor.why
        /\ actor'.pc = IF actor.pc = "next" THEN "handle" ELSE "answer"
    BY <1>2, <2>1, <2>2, HoldMoves
  <2>7. ActorTypes'
    BY <1>1, <1>2, <2>1, <2>2, <2>6 DEF ActorTypes, Apart
  <2>8. DataInOrder'
    BY <1>1, <2>2, <2>3, <2>4, <2>5, <2>6 DEF UploadInv, DataInOrder, Waits, InHand, Apart
  <2>9. EndsOwned'
    BY <1>1, <2>1, <2>3, <2>6 DEF UploadInv, EndsOwned, Apart
  <2> QED BY <1>3, <1>4, <2>6, <2>7, <2>8, <2>9 DEF UploadInv
<1> QED BY <1>5, <1>6, <1>7 DEF ActorTakes

LEMMA StartPreserves == UploadInv /\ WriterStarts => UploadInv'
<1> SUFFICES ASSUME UploadInv, WriterStarts PROVE UploadInv' OBVIOUS
<1>1. /\ UNCHANGED <<gone, expired, data, term, deferred, actor, state, owner, cancels, client>>
      /\ reader' = reader /\ ~gone /\ MayStart
  BY DEF WriterStarts, laneVars
<1>2. write' \in Writes /\ write'.kind = write.kind /\ write'.at = "started"
  BY WriteMoves DEF WriterStarts, UploadInv
<1>3. ingress' \in Ingresses /\ ingress'.received = ingress.received
      /\ ingress'.producer = ingress.producer
  <2>1. write.n \in Nat /\ ingress \in Ingresses
    BY DEF UploadInv, WireTypes, ActorTypes, Writes, NoWrite
  <2>2. ingress' = IF write.kind = "CREDIT" THEN [ingress EXCEPT !.served = write.n] ELSE ingress
    BY DEF WriterStarts
  <2> QED BY <2>1, <2>2 DEF Ingresses
<1>4. /\ phase' \in Phases
      /\ \/ phase' = phase /\ phase # "Opening"
         \/ phase = "Opening" /\ phase' = "Active"
         \/ phase' \notin {"Opening", "Active", "Finalizing"}
      /\ phase' = "Active" /\ phase # "Active" => registered'
  BY DEF WriterStarts, MayStart, UploadInv, WireTypes, PhasesAgree, Phases
<1>5. registered' \in BOOLEAN /\ (registered => registered')
  BY DEF WriterStarts, UploadInv, WireTypes
<1>6. down' \in Seq(Downs)
  <2> DEFINE m == [kind |-> IF write.kind = "FINALACK" THEN "ACK" ELSE write.kind,
                   acc |-> state.accepted, n |-> write.n]
  <2>1. m \in Downs
    <3>1. write.kind \in Messages /\ write.n \in Nat
      BY DEF WriterStarts, UploadInv, ActorTypes, Writes, NoWrite
    <3>2. state.accepted \in Nat
      BY DEF UploadInv, ActorTypes, States
    <3> QED BY <3>1, <3>2 DEF Downs, Messages
  <2>2. down' = Append(down, m) /\ down \in Seq(Downs)
    BY DEF WriterStarts, UploadInv, WireTypes
  <2> HIDE DEF m
  <2> QED BY <2>1, <2>2
<1>7. WireTypes'
  BY <1>1, <1>3, <1>4, <1>5, <1>6 DEF UploadInv, WireTypes, CancelShape
<1>8. ActorTypes'
  BY <1>1, <1>2 DEF UploadInv, ActorTypes
<1>9. PhasesAgree'
  BY <1>1, <1>4 DEF UploadInv, PhasesAgree, Running
<1>10. DataInOrder'
  BY <1>1, <1>3 DEF UploadInv, DataInOrder, Waits, InHand
<1>11. EndsOwned' /\ OwnersWhole'
  BY <1>1, <1>3 DEF UploadInv, EndsOwned, OwnersWhole, Whole
<1>12. SelectionFinal'
  BY <1>1, <1>4 DEF UploadInv, SelectionFinal
<1>13. AnswersBacked'
  BY <1>1, <1>4, <1>5 DEF UploadInv, AnswersBacked, PhasesAgree, TimedOut
<1> QED BY <1>7, <1>8, <1>9, <1>10, <1>11, <1>12, <1>13 DEF UploadInv

LEMMA ReadPreserves == UploadInv /\ ClientReads => UploadInv'
<1> SUFFICES ASSUME UploadInv, ClientReads PROVE UploadInv' OBVIOUS
<1>1. /\ UNCHANGED <<gone, phase, expired, data, term, deferred, actor, state, owner, cancels,
                     write, registered, ingress>>
      /\ reader' = reader
  BY DEF ClientReads, ingressVars, laneVars, actorVars, cancelVars
<1>2. phase # "Opening"
  BY DEF ClientReads, UploadInv, PhasesAgree
<1>3. down' \in Seq(Downs) /\ Head(down) \in Downs
  BY TailMoves DEF ClientReads, UploadInv, WireTypes
<1>4. client' \in Clients
  <2> DEFINE m == Head(down)
  <2>1. m.kind \in {"OPEN", "CREDIT", "ABORT", "ACK", "REPLY"} /\ m.acc \in Nat /\ m.n \in Nat
    BY <1>3 DEF Downs, Messages
  <2>2. client' = CASE m.kind = "OPEN"   -> [client EXCEPT !.open = TRUE]
                    [] m.kind = "CREDIT" -> [client EXCEPT !.granted = TRUE, !.accepted = m.acc,
                                                           !.through = m.n]
                    [] m.kind = "ABORT"  -> [client EXCEPT !.told = TRUE, !.owes = TRUE,
                                                           !.echo = m.acc]
                    [] m.kind = "ACK"    -> [client EXCEPT !.acked = TRUE]
                    [] m.kind = "REPLY"  -> [client EXCEPT !.replied = TRUE]
    BY DEF ClientReads
  <2>3. client \in Clients
    BY DEF UploadInv, WireTypes
  <2> HIDE DEF m
  <2>4. CASE m.kind = "OPEN"
    BY <2>2, <2>3, <2>4 DEF Clients
  <2>5. CASE m.kind = "CREDIT"
    BY <2>1, <2>2, <2>3, <2>5 DEF Clients
  <2>6. CASE m.kind = "ABORT"
    BY <2>1, <2>2, <2>3, <2>6 DEF Clients
  <2>7. CASE m.kind = "ACK"
    BY <2>2, <2>3, <2>7 DEF Clients
  <2>8. CASE m.kind = "REPLY"
    BY <2>2, <2>3, <2>8 DEF Clients
  <2> QED BY <2>1, <2>4, <2>5, <2>6, <2>7, <2>8
<1>5. WireTypes'
  BY <1>1, <1>3, <1>4 DEF UploadInv, WireTypes, CancelShape
<1>6. ActorTypes'
  BY <1>1 DEF UploadInv, ActorTypes
<1>7. PhasesAgree'
  BY <1>1, <1>2 DEF UploadInv, PhasesAgree
<1>8. DataInOrder' /\ EndsOwned'
  BY <1>1 DEF UploadInv, DataInOrder, Waits, InHand, EndsOwned
<1>9. OwnersWhole' /\ SelectionFinal' /\ AnswersBacked'
  BY <1>1 DEF UploadInv, OwnersWhole, Whole, SelectionFinal, AnswersBacked, TimedOut
<1> QED BY <1>5, <1>6, <1>7, <1>8, <1>9 DEF UploadInv

-----------------------------------------------------------------------------
(* The reader.                                                             *)

LEMMA EventTypes ==
  ASSUME UploadInv, NEW r \in Records
  PROVE  /\ Event(r) \in Received /\ Event(r).kind = r.kind
         /\ Event(r).off = r.off /\ Event(r).n = r.n
  BY DEF UploadInv, WireTypes, Ingresses, Records, Received, Event

LEMMA KindTypes ==
  ASSUME NEW r \in Records, NEW k \in RecordKinds
  PROVE  [r EXCEPT !.kind = k] \in Records /\ [r EXCEPT !.kind = k].kind = k
  BY DEF Records

LEMMA CloseRouted ==
  ASSUME UploadInv, NEW r \in Records, RefuseAndClose(r), reader.ev = NoEvent, ~gone,
         ingress' \in Ingresses, ingress'.received = ingress.received,
         ingress'.producer = ingress.producer
  PROVE  Routed
  BY DEF RefuseAndClose, CloseConnection, Invalidated, UploadInv, WireTypes, ActorTypes, Routed,
         Admits, Phases

LEMMA AdmitRouted ==
  ASSUME UploadInv, NEW e \in Received, Admit(e), ~gone, Admits(e),
         phase' = phase \/ phase' = "AckPending",
         ingress' \in Ingresses, ingress.producer = "END" => ingress'.producer = "END"
  PROVE  Routed
  BY DEF Admit, UploadInv, WireTypes, Routed, Events, Phases

LEMMA ReceiveRouted ==
  ASSUME UploadInv, NEW r \in Records, Receive(r) PROVE Routed
<1>1. reader.ev = NoEvent /\ ~gone /\ phase \in Phases /\ ingress \in Ingresses
  BY DEF Receive, UploadInv, WireTypes
<1>2. CASE ReceiveTooEarly(r)
  <2>1. ingress' \in Ingresses /\ ingress'.received = ingress.received
        /\ ingress'.producer = ingress.producer
    BY <1>1, <1>2 DEF ReceiveTooEarly, Ingresses
  <2> QED BY <1>1, <1>2, <2>1, CloseRouted DEF ReceiveTooEarly
<1>3. CASE ReceiveUnbound(r)
  BY <1>1, <1>3, CloseRouted DEF ReceiveUnbound
<1>4. CASE ReceiveMalformed(r) \/ ReceiveConflict(r)
  <2> DEFINE bad == Event([r EXCEPT !.kind = "BAD"])
  <2>1. bad \in Received /\ bad.kind = "BAD"
    <3>1. [r EXCEPT !.kind = "BAD"] \in Records /\ [r EXCEPT !.kind = "BAD"].kind = "BAD"
      BY KindTypes DEF RecordKinds
    <3> QED BY <3>1, EventTypes
  <2>2. ingress' \in Ingresses /\ ingress'.received = ingress.received
        /\ ingress'.producer = ingress.producer
    <3>1. ingress' = [ingress EXCEPT !.postEnd = ingress.postEnd \/ ingress.producer = "END"]
      BY <1>4 DEF ReceiveMalformed, ReceiveConflict
    <3>2. (ingress.postEnd \/ ingress.producer = "END") \in BOOLEAN
      BY <1>1 DEF Ingresses
    <3> QED BY <1>1, <3>1, <3>2 DEF Ingresses
  <2>3. RefuseAndClose(r) \/ (Admit(bad) /\ UNCHANGED phase)
    BY <1>4 DEF ReceiveMalformed, ReceiveConflict
  <2> HIDE DEF bad
  <2>4. Admits(bad)
    BY <2>1, <2>2 DEF Admits
  <2> QED BY <1>1, <2>1, <2>2, <2>3, <2>4, CloseRouted, AdmitRouted
<1>5. CASE ReceiveFinalizing(r)
  <2>1. CASE RefuseAndClose(r)
    BY <1>1, <1>5, <2>1, CloseRouted DEF ReceiveFinalizing
  <2>2. CASE UNCHANGED <<phase, gone, reader, order, faulted>>
    BY <1>1, <1>5, <2>2 DEF ReceiveFinalizing, Routed, Admits, UploadInv, WireTypes, ActorTypes
  <2> QED BY <1>5, <2>1, <2>2 DEF ReceiveFinalizing
<1>6. CASE ReceiveTerminal(r)
  <2>1. ingress' \in Ingresses /\ ingress'.received = ingress.received
        /\ (ingress.producer = "END" => ingress'.producer = "END")
    BY <1>1, <1>6 DEF ReceiveTerminal, Ingresses
  <2>2. r.kind = "END" => ingress'.producer = "END"
    <3>1. r.kind = "END" => ingress.producer = "none"
      BY <1>1, <1>6 DEF ReceiveTerminal, Conflict, ValidLateAbort, Ingresses
    <3> QED BY <1>1, <1>6, <3>1 DEF ReceiveTerminal, Ingresses
  <2>3. Admits(Event(r))
    BY <1>6, <2>1, <2>2, EventTypes DEF Admits, ReceiveTerminal
  <2> QED BY <1>1, <1>6, <2>1, <2>3, EventTypes, AdmitRouted DEF ReceiveTerminal
<1>7. CASE ReceiveDiscarded(r)
  BY <1>1, <1>7 DEF ReceiveDiscarded, Routed, Admits, UploadInv, WireTypes, ActorTypes
<1>8. CASE ReceiveRefused(r)
  <2> DEFINE e == Event([r EXCEPT !.kind = Refusal(r)])
  <2>1. Refusal(r) \in {"OVERSIZE", "NOCREDIT"}
    BY <1>8 DEF ReceiveRefused, Refusal
  <2>2. e \in Received /\ e.kind \notin {"DATA", "END"}
    <3>1. /\ [r EXCEPT !.kind = Refusal(r)] \in Records
          /\ [r EXCEPT !.kind = Refusal(r)].kind = Refusal(r)
      BY ZenonT(40), <2>1, KindTypes DEF RecordKinds
    <3> QED BY <2>1, <3>1, EventTypes
  <2>3. ingress' \in Ingresses /\ ingress'.received = ingress.received
        /\ ingress'.producer = ingress.producer
    BY <1>1, <1>8 DEF ReceiveRefused, Ingresses
  <2>4. Admit(e) /\ phase' = phase
    BY <1>8 DEF ReceiveRefused
  <2> HIDE DEF e
  <2>5. Admits(e)
    BY <2>2, <2>3 DEF Admits
  <2> QED BY <1>1, <2>2, <2>3, <2>4, <2>5, AdmitRouted
<1>9. CASE ReceiveData(r)
  <2>1. r.off = ingress.received /\ ~(r.off + r.n > Declared) /\ r.off + r.n \in Nat /\ r.kind = "DATA"
    BY <1>9 DEF ReceiveData, Refusal, Records
  <2>2. r.off + r.n <= Declared
    BY <2>1, UploadAssumption DEF UploadAssumption
  <2>3. ingress' \in Ingresses /\ ingress'.received = r.off + r.n
        /\ ingress'.producer = ingress.producer
    BY <1>1, <1>9, <2>1 DEF ReceiveData, Ingresses
  <2>4. reader'.ev = Event(r) /\ UNCHANGED <<phase, gone>>
    BY <1>9 DEF ReceiveData
  <2>5. Event(r) \in Events /\ Admits(Event(r))
    BY <2>1, <2>2, <2>3, EventTypes DEF Admits, Events
  <2> QED BY <1>1, <2>3, <2>4, <2>5 DEF Routed, UploadInv, WireTypes
<1> QED BY <1>2, <1>3, <1>4, <1>5, <1>6, <1>7, <1>8, <1>9 DEF Receive

LEMMA ReceivePreserves ==
  ASSUME UploadInv, NEW r \in Records, Receive(r), UNCHANGED down,
         client' \in Clients, client'.open = client.open
  PROVE  UploadInv'
<1>1. UNCHANGED <<data, term, deferred, actor, state, write, owner, registered, cancels, expired>>
      /\ ~gone /\ reader.ev = NoEvent
  BY DEF Receive, laneVars, actorVars, cancelVars
<1>2. Routed
  BY ReceiveRouted
<1>3. WireTypes'
  BY <1>1, <1>2 DEF UploadInv, WireTypes, Routed, CancelShape
<1>4. ActorTypes'
  BY <1>1, <1>2 DEF UploadInv, ActorTypes, Routed
<1>5. PhasesAgree'
  BY <1>1, <1>2 DEF UploadInv, PhasesAgree, Routed
<1>6. DataInOrder'
  <2>1. ingress.received \in Nat /\ ingress'.received \in Nat /\ ingress.received <= ingress'.received
        /\ ingress'.received <= Declared
    <3>1. reader'.ev.kind = "DATA" => reader'.ev.off \in Nat /\ reader'.ev.n \in Nat
      BY <1>2 DEF Routed, Events, Received, Asked, NoEvent
    <3>2. ingress.received \in Nat /\ ingress'.received \in Nat /\ ingress.received <= Declared
      BY <1>2 DEF Routed, UploadInv, WireTypes, Ingresses, DataInOrder
    <3> QED BY <1>2, <3>1, <3>2, UploadAssumption DEF Routed, Admits, NoEvent, UploadAssumption
  <2>2. /\ state.staged \in Nat
        /\ \A e \in Received : Waits(e) => e.off + e.n \in Nat /\ state.staged <= e.off /\
                                           e.off + e.n <= ingress'.received
    BY <2>1 DEF UploadInv, ActorTypes, States, Waits, Received
  <2>3. \A i \in DOMAIN data : data[i] \in Received /\ data[i].kind = "DATA" /\ Waits(data[i])
    BY DEF UploadInv, ActorTypes, DataInOrder, Events, Asked
  <2>4. InHand => actor.ev \in Received /\ Waits(actor.ev)
    BY DEF UploadInv, ActorTypes, Actors, DataInOrder, InHand, Events, Asked, NoEvent
  <2>5. reader'.ev.kind = "DATA" =>
          /\ reader'.ev \in Received /\ reader'.ev.off = ingress.received
          /\ ingress'.received = reader'.ev.off + reader'.ev.n
    BY <1>2 DEF Routed, Admits, Events, Asked, NoEvent
  <2>6. state.accepted <= state.staged /\ state.staged <= ingress.received
    BY DEF UploadInv, DataInOrder
  <2>7. /\ \A i \in DOMAIN data' : data'[i].kind = "DATA" /\ Waits(data[i])'
        /\ InHand' => Waits(actor.ev)'
    <3>1. \A e \in Received : Waits(e) => e.off + e.n <= ingress'.received
      BY <2>2
    <3>2. \A i \in DOMAIN data : data[i].off + data[i].n <= ingress'.received
      BY <2>3, <3>1
    <3>3. InHand => actor.ev.off + actor.ev.n <= ingress'.received
      BY <2>4, <3>1
    <3>4. /\ \A i \in DOMAIN data : state.staged <= data[i].off
          /\ InHand => state.staged <= actor.ev.off
      BY <2>3, <2>4 DEF Waits
    <3> QED BY <1>1, <2>3, <3>2, <3>3, <3>4 DEF Waits, InHand
  <2>8. reader'.ev.kind = "DATA" =>
          /\ Waits(reader.ev)'
          /\ \A i \in DOMAIN data' : data'[i].off + data'[i].n <= reader'.ev.off
          /\ InHand' => actor'.ev.off + actor'.ev.n <= reader'.ev.off
    BY <1>1, <2>1, <2>2, <2>3, <2>4, <2>5, <2>6 DEF Waits, InHand, Received
  <2>9. state'.accepted <= state'.staged /\ state'.staged <= ingress'.received
    BY <1>1, <2>1, <2>2, <2>6
  <2>10. /\ \A i, j \in DOMAIN data' : i < j => data'[i].off + data'[i].n <= data'[j].off
         /\ InHand' => \A i \in DOMAIN data' : actor'.ev.off + actor'.ev.n <= data'[i].off
         /\ actor'.pc = "stage" => actor'.ev.kind = "DATA" /\ actor'.ev.off = state'.accepted
         /\ actor'.pc = "commit" =>
              actor'.ev.kind = "DATA" /\ actor'.ev.off + actor'.ev.n = state'.staged
    BY <1>1 DEF UploadInv, DataInOrder, InHand
  <2> QED BY <2>1, <2>7, <2>8, <2>9, <2>10 DEF DataInOrder
<1>7. EndsOwned'
  BY <1>1, <1>2 DEF UploadInv, EndsOwned, Routed, Admits, NoEvent
<1>8. OwnersWhole'
  BY <1>1, <1>2 DEF UploadInv, OwnersWhole, Whole, Routed
<1>9. SelectionFinal' /\ AnswersBacked'
  BY <1>1, <1>2 DEF UploadInv, SelectionFinal, AnswersBacked, Routed, TimedOut
<1> QED BY <1>3, <1>4, <1>5, <1>6, <1>7, <1>8, <1>9 DEF UploadInv

\* A lane longer by one event.
LEMMA AppendMoves ==
  ASSUME NEW S, NEW lane \in Seq(S), NEW e \in S
  PROVE  /\ Append(lane, e) \in Seq(S)
         /\ DOMAIN Append(lane, e) = 1..(Len(lane) + 1) /\ DOMAIN lane = 1..Len(lane)
         /\ Len(lane) \in Nat
         /\ \A i \in DOMAIN Append(lane, e) : i \in DOMAIN lane \/ i = Len(lane) + 1
         /\ \A i \in DOMAIN lane : Append(lane, e)[i] = lane[i]
         /\ Append(lane, e)[Len(lane) + 1] = e
  OBVIOUS

LEMMA EnqueuePreserves == UploadInv /\ ReaderEnqueues => UploadInv'
<1> SUFFICES ASSUME UploadInv, ReaderEnqueues PROVE UploadInv' OBVIOUS
<1> DEFINE e == reader.ev
<1>1. /\ UNCHANGED <<phase, ingress, deferred, actor, state, write, owner, registered, cancels,
                     client, down, expired>>
      /\ reader'.ev = NoEvent /\ e # NoEvent
  BY DEF ReaderEnqueues, actorVars, cancelVars, clientVars
<1>2. gone' \in BOOLEAN /\ (gone => gone')
  <2>1. gone' = TRUE \/ gone' = gone
    BY DEF ReaderEnqueues
  <2> QED BY <2>1 DEF UploadInv, WireTypes
<1>3. /\ data \in Seq(Events) /\ term \in Seq(Events) /\ e \in Events
  BY <1>1 DEF UploadInv, ActorTypes
<1>4. \/ UNCHANGED <<data, term>>
      \/ e.kind = "DATA" /\ data' = Append(data, e) /\ term' = term
      \/ e.kind # "DATA" /\ data' = data /\ term' = Append(term, e)
  BY DEF ReaderEnqueues
<1>5. e.kind = "DATA" =>
        /\ Waits(e) /\ \A i \in DOMAIN data : data[i].off + data[i].n <= e.off
        /\ InHand => actor.ev.off + actor.ev.n <= e.off
  BY DEF UploadInv, DataInOrder
<1>6. e.kind = "END" => ingress.producer = "END"
  BY DEF UploadInv, EndsOwned
<1> HIDE DEF e
<1>7. WireTypes'
  BY <1>1, <1>2 DEF UploadInv, WireTypes, CancelShape
<1>8. ActorTypes'
  <2>1. data' \in Seq(Events) /\ term' \in Seq(Events)
    BY <1>3, <1>4, LaneGrows
  <2> QED BY <1>1, <2>1 DEF UploadInv, ActorTypes
<1>9. PhasesAgree'
  BY <1>1 DEF UploadInv, PhasesAgree
<1>10. DataInOrder'
  <2>1. CASE UNCHANGED data
    BY <1>1, <2>1 DEF UploadInv, DataInOrder, Waits, InHand, NoEvent
  <2>2. CASE e.kind = "DATA" /\ data' = Append(data, e)
    <3> DEFINE k == Len(data) + 1
    <3>1. /\ DOMAIN data' = 1..k /\ DOMAIN data = 1..Len(data) /\ Len(data) \in Nat
          /\ \A i \in DOMAIN data' : i \in DOMAIN data \/ i = k
          /\ \A i \in DOMAIN data : data'[i] = data[i]
          /\ data'[k] = e
      BY <1>3, <2>2, AppendMoves
    <3>2. \A i \in DOMAIN data' : data'[i].kind = "DATA" /\ Waits(data'[i])
      BY <1>5, <2>2, <3>1 DEF UploadInv, DataInOrder
    <3>3. \A i, j \in DOMAIN data' : i < j => data'[i].off + data'[i].n <= data'[j].off
      <4> SUFFICES ASSUME NEW i \in DOMAIN data', NEW j \in DOMAIN data', i < j
                   PROVE  data'[i].off + data'[i].n <= data'[j].off
        OBVIOUS
      <4>1. i \in DOMAIN data
        BY <3>1
      <4>2. CASE j \in DOMAIN data
        BY <3>1, <4>1, <4>2 DEF UploadInv, DataInOrder
      <4>3. CASE j = k
        BY <1>5, <2>2, <3>1, <4>1, <4>3
      <4> QED BY <3>1, <4>2, <4>3
    <3>4. InHand => /\ Waits(actor.ev)
                    /\ \A i \in DOMAIN data' : actor.ev.off + actor.ev.n <= data'[i].off
      BY <1>5, <2>2, <3>1 DEF UploadInv, DataInOrder
    <3> HIDE DEF k
    <3> QED BY <1>1, <3>2, <3>3, <3>4 DEF UploadInv, DataInOrder, Waits, InHand, NoEvent
  <2> QED BY <1>4, <2>1, <2>2
<1>11. EndsOwned'
  <2>1. CASE UNCHANGED term
    BY <1>1, <2>1 DEF UploadInv, EndsOwned, NoEvent
  <2>2. CASE e.kind # "DATA" /\ term' = Append(term, e)
    <3>1. \A i \in DOMAIN term' : term'[i] = e \/ (i \in DOMAIN term /\ term'[i] = term[i])
      BY <1>3, <2>2, AppendMoves
    <3> QED BY <1>1, <1>6, <2>2, <3>1 DEF UploadInv, EndsOwned, NoEvent
  <2> QED BY <1>4, <2>1, <2>2
<1>12. OwnersWhole' /\ SelectionFinal'
  BY <1>1 DEF UploadInv, OwnersWhole, Whole, SelectionFinal
<1>13. AnswersBacked'
  BY <1>1, <1>2 DEF UploadInv, AnswersBacked, TimedOut
<1> QED BY <1>7, <1>8, <1>9, <1>10, <1>11, <1>12, <1>13 DEF UploadInv

\* What the producer sends is a record, and it keeps its own books.
LEMMA SendPreserves ==
  ASSUME UploadInv,
         \/ \E n \in 1..Window : ClientSendsData(n)
         \/ ClientEnds \/ ClientAborts \/ ClientAcks \/ ClientBreaksProtocol
  PROVE  UploadInv'
<1>1. client \in Clients
  BY DEF UploadInv, WireTypes
<1>2. client.sent \in Nat /\ client.accepted \in Nat /\ client.echo \in Nat
  BY <1>1 DEF Clients
<1>3. CASE \E n \in 1..Window : ClientSendsData(n)
  <2>1. PICK n \in 1..Window : ClientSendsData(n)
    BY <1>3
  <2>2. Record("DATA", client.sent, n) \in Records
    BY <1>2 DEF Record, Records, RecordKinds
  <2>3. client' \in Clients /\ client'.open = client.open
    BY <1>1, <1>2, <2>1 DEF ClientSendsData, Clients
  <2> QED BY <2>1, <2>2, <2>3, ReceivePreserves DEF ClientSendsData
<1>4. CASE ClientEnds
  <2>1. Record("END", 0, client.sent) \in Records
    BY <1>2 DEF Record, Records, RecordKinds
  <2>2. client' \in Clients /\ client'.open = client.open
    BY <1>1, <1>4 DEF ClientEnds, Clients
  <2> QED BY <1>4, <2>1, <2>2, ReceivePreserves DEF ClientEnds
<1>5. CASE ClientAborts
  <2>1. Record("ABORT", 0, client.accepted) \in Records
    BY <1>2 DEF Record, Records, RecordKinds
  <2>2. client' \in Clients /\ client'.open = client.open
    BY <1>1, <1>5 DEF ClientAborts, Clients
  <2> QED BY <1>5, <2>1, <2>2, ReceivePreserves DEF ClientAborts
<1>6. CASE ClientAcks
  <2>1. Record("ACK", 0, client.echo) \in Records
    BY <1>2 DEF Record, Records, RecordKinds
  <2>2. client' \in Clients /\ client'.open = client.open
    BY <1>1, <1>6 DEF ClientAcks, Clients
  <2> QED BY <1>6, <2>1, <2>2, ReceivePreserves DEF ClientAcks
<1>7. CASE ClientBreaksProtocol
  <2>1. PICK r \in {Record("BAD", 0, 0), Record("DATA", client.sent, 1),
                    Record("DATA", client.sent + 1, 1), Record("END", 0, client.sent),
                    Record("ABORT", 0, client.accepted),
                    Record("ACK", 0, client.accepted)} : Receive(r)
    BY <1>7 DEF ClientBreaksProtocol
  <2>2. r \in Records
    BY <1>2 DEF Record, Records, RecordKinds
  <2>3. UNCHANGED <<client, down>>
    BY <1>7 DEF ClientBreaksProtocol
  <2> QED BY <1>1, <2>1, <2>2, <2>3, ReceivePreserves
<1> QED BY <1>3, <1>4, <1>5, <1>6, <1>7

-----------------------------------------------------------------------------
(* The theorems.                                                           *)

LEMMA InitHolds == Init /\ UploadAssumption => UploadInv
<1> SUFFICES ASSUME Init, UploadAssumption PROVE UploadInv OBVIOUS
<1>1. WireTypes
  <2>1. down \in Seq(Downs)
    BY DEF Init
  <2>2. CancelShape
    BY TicketlessIs DEF Init, CancelShape, IsCancel
  <2>3. ingress \in Ingresses /\ client \in Clients
    BY DEF Init, Ingresses, Clients
  <2> QED BY <2>1, <2>2, <2>3 DEF Init, WireTypes, Phases
<1>2. ActorTypes
  <2>1. reader.ev = NoEvent /\ deferred = NoEvent /\ data = <<>> /\ term = <<>>
    BY DEF Init
  <2>2. actor \in Actors
    BY DEF Init, Idle, Actors, Running, Whys
  <2>3. state \in States
    <3>1. {} \in SUBSET (Nat \X Nat)
      OBVIOUS
    <3> QED BY <3>1 DEF Init, States
  <2>4. write \in Writes /\ owner \in Owners
    BY DEF Init, Writes, Messages, Owners
  <2> QED BY <2>1, <2>2, <2>3, <2>4, EmptyLane DEF ActorTypes
<1>3. PhasesAgree /\ OwnersWhole /\ SelectionFinal /\ AnswersBacked
  <2>1. \A c \in Cancellers : cancels[c].at = "idle"
    BY TicketlessIs DEF Init
  <2> QED BY <2>1 DEF Init, Idle, PhasesAgree, OwnersWhole, Owning, SelectionFinal, AnswersBacked
<1>4. DataInOrder
  BY DEF Init, Idle, NoEvent, DataInOrder, InHand, UploadAssumption
<1>5. EndsOwned
  BY DEF Init, Idle, NoEvent, EndsOwned
<1> QED BY <1>1, <1>2, <1>3, <1>4, <1>5 DEF UploadInv

LEMMA ActorPreserves == UploadInv /\ UploadAssumption /\ Actor => UploadInv'
<1> SUFFICES ASSUME UploadInv, UploadAssumption, Actor PROVE UploadInv' OBVIOUS
<1>1. CASE OpenSettles \/ CreditSettles \/ ActorIdles \/ HandleFault \/ HandleAbort \/ StageInterrupted
  BY <1>1, OpenMoves, CreditMoves, IdleMoves, FaultMoves, AbortMoves, StageMoves, ControlMovePreserves
<1>2. CASE AbortSettles \/ ActorWaitsForAck \/ FinalAckSettles \/ FaultAckSettles \/ Promote
           \/ StageFinishes \/ ReplySettles
  BY <1>2, AbortSettlesMoves, WaitMoves, FinalAckMoves, FaultAckMoves, PromoteMoves, FinishMoves,
     ReplyMoves, ControlMovePreserves
<1>3. CASE ActorTakes \/ HandleCancel \/ CancelRecords \/ HandleData \/ HandleEnd
           \/ StageCompletes \/ CommitAccepted \/ SelectDaemonAbort \/ Finalized
  BY <1>3, TakePreserves, CancelPreserves, RecordPreserves, DataPreserves, EndPreserves,
     StagePreserves, CommitPreserves, SelectPreserves, FinalPreserves
<1> QED BY <1>1, <1>2, <1>3 DEF Actor

LEMMA NextPreserves == UploadInv /\ UploadAssumption /\ [Next]_vars => UploadInv'
<1> SUFFICES ASSUME UploadInv, UploadAssumption, [Next]_vars PROVE UploadInv' OBVIOUS
<1>1. CASE Client
  BY <1>1, ReadPreserves, SendPreserves DEF Client
<1>2. CASE ReaderEnqueues
  BY <1>2, EnqueuePreserves
<1>3. CASE Writer \/ HandshakeExpires
  BY <1>3, StartPreserves, UnsentMoves, SendMoves, ControlMovePreserves DEF Writer
<1>4. CASE Actor
  BY <1>4, ActorPreserves
<1>5. ASSUME NEW c \in Cancellers, CancelTask(c) \/ CancelWithdrawn(c)
      PROVE  UploadInv'
  BY <1>5, AskMoves, WithdrawMoves, ControlMovePreserves
<1>6. CASE Disconnect \/ Expire
  BY <1>6, DisconnectMoves, ControlMovePreserves
<1>7. CASE UNCHANGED vars
  <2>1. UNCHANGED <<phase, gone, expired, registered, ingress, down, client, cancels, reader,
                    data, term, deferred, actor, state, write, owner>>
    BY <1>7 DEF vars, ingressVars, laneVars, actorVars, cancelVars, clientVars
  <2>2. WireTypes' /\ ActorTypes' /\ PhasesAgree'
    BY <2>1 DEF UploadInv, WireTypes, CancelShape, ActorTypes, PhasesAgree
  <2>3. DataInOrder' /\ EndsOwned'
    BY <2>1 DEF UploadInv, DataInOrder, Waits, InHand, EndsOwned
  <2>4. OwnersWhole' /\ SelectionFinal' /\ AnswersBacked'
    BY <2>1 DEF UploadInv, OwnersWhole, Whole, SelectionFinal, AnswersBacked, TimedOut
  <2> QED BY <2>2, <2>3, <2>4 DEF UploadInv
<1> QED BY <1>1, <1>2, <1>3, <1>4, <1>5, <1>6, <1>7 DEF Next

\* The invariant of the proof: types, where the actor can be in each phase,
\* the order of the DATA records, whose END it is, and what was answered.
THEOREM UploadInvariant == Spec => []UploadInv
<1>1. Init => UploadInv
  BY InitHolds, UploadAssumption
<1>2. UploadInv /\ [Next]_vars => UploadInv'
  BY NextPreserves, UploadAssumption
<1> QED BY <1>1, <1>2, PTL DEF Spec

\* An upload that owns the result, or reports success, staged and accepted
\* every declared byte, ended by the producer's own END, and was not recorded
\* as cancelled: whatever END, ABORT, cancels, the clock and the connection do
\* (HandleEnd, CommitAccepted and Finalized of run_file_share).
THEOREM FinalizedUploadsAreWhole == Spec => []FinalizedIsWhole
<1>1. UploadInv => FinalizedIsWhole
  BY DEF UploadInv, PhasesAgree, OwnersWhole, Whole, FinalizedIsWhole
<1> QED BY <1>1, UploadInvariant, PTL

LEMMA TaskTellsTrue ==
  ASSUME UploadInv, NEW c \in Cancellers, CancelTask(c) \/ CancelWithdrawn(c)
  PROVE  ToldUnknownTrue
<1>0. CancelShape
  BY DEF UploadInv, WireTypes
<1>1. UNCHANGED owner
  BY DEF CancelTask, CancelLooksUp, CancelAsks, CancelEnqueues, CancelDropped, CancelSettles,
         CancelWithdrawn, cancelFrame, actorVars
<1>2. PICK x : cancels' = [cancels EXCEPT ![c] = x]
  BY DEF CancelTask, CancelLooksUp, CancelAsks, CancelEnqueues, CancelDropped, CancelSettles,
         CancelWithdrawn
<1>3. \A d \in Cancellers \ {c} : cancels'[d] = cancels[d]
  BY <1>2 DEF UploadInv, WireTypes, CancelShape
<1>4. CASE CancelLooksUp(c)
  <2>1. cancels'[c].at = IF registered THEN "found" ELSE Recorded
    <3> DEFINE at == IF registered THEN "found" ELSE Recorded
    <3>1. MovesTo(c, at)
      BY <1>4 DEF MovesTo, CancelLooksUp
    <3> HIDE DEF at
    <3>2. \A d \in Cancellers : cancels'[d].at = IF d = c THEN at ELSE cancels[d].at
      BY <3>1, <1>0, AtMoves
    <3> QED BY <3>2 DEF at
  <2>2. phase # "Active" \/ gone \/ registered \/ TimedOut
    BY DEF UploadInv, AnswersBacked
  <2> QED BY <1>1, <1>3, <2>1, <2>2 DEF ToldUnknownTrue, Recorded
<1>5. CASE CancelSettles(c)
  <2>1. cancels'[c].at = Recorded /\ cancels[c].at = "refused"
    <3> DEFINE at == Recorded
    <3>1. MovesTo(c, at) /\ cancels[c].at = "refused"
      BY <1>5 DEF MovesTo, CancelSettles
    <3> HIDE DEF at
    <3>2. \A d \in Cancellers : cancels'[d].at = IF d = c THEN at ELSE cancels[d].at
      BY <3>1, <1>0, AtMoves
    <3> QED BY <3>1, <3>2 DEF at
  <2>2. phase # "Active" \/ gone \/ TimedOut
    BY <2>1 DEF UploadInv, AnswersBacked
  <2> QED BY <1>1, <1>3, <2>1, <2>2 DEF ToldUnknownTrue, Recorded
<1>6. CASE CancelAsks(c) \/ CancelEnqueues(c) \/ CancelDropped(c) \/ CancelWithdrawn(c)
  <2>1. cancels'[c].at # "unknown"
    <3>1. \/ MovesTo(c, "refused")
          \/ \E at \in {"lane", "asked", "refused", "withdrawn"} : \E t, l :
               cancels' = [cancels EXCEPT ![c] = [at |-> at, ticket |-> t, late |-> l]]
      BY <1>6 DEF MovesTo, CancelAsks, CancelDropped, CancelEnqueues, CancelWithdrawn, Ticketless
    <3>2. CASE MovesTo(c, "refused")
      <4>1. \A d \in Cancellers : cancels'[d].at = IF d = c THEN "refused" ELSE cancels[d].at
        BY <1>0, <3>2, AtMoves
      <4> QED BY <4>1
    <3>3. ASSUME NEW at \in {"lane", "asked", "refused", "withdrawn"}, NEW t, NEW l,
                 cancels' = [cancels EXCEPT ![c] = [at |-> at, ticket |-> t, late |-> l]]
          PROVE  cancels'[c].at # "unknown"
      BY <3>3 DEF UploadInv, WireTypes, CancelShape
    <3> QED BY <3>1, <3>2, <3>3
  <2> QED BY <1>3, <2>1 DEF ToldUnknownTrue
<1> QED BY <1>4, <1>5, <1>6 DEF CancelTask

\* The actor refuses a cancel or confirms it, and never tells it "unknown".
LEMMA ActorTellsTrue == UploadInv /\ Actor => ToldUnknownTrue
<1> SUFFICES ASSUME UploadInv, Actor PROVE ToldUnknownTrue OBVIOUS
<1>1. CancelShape
  BY DEF UploadInv, WireTypes
<1>2. CASE UNCHANGED cancels
  BY <1>2 DEF ToldUnknownTrue
<1>3. ASSUME NEW c, NEW at, at # "unknown" \/ at = cancels[c].at,
             MovesTo(c, at)
      PROVE  ToldUnknownTrue
  BY <1>1, <1>3, AtMoves DEF ToldUnknownTrue
<1>4. ASSUME NEW at \in {"refused", "cancelled"}, NEW D,
             cancels' = [c \in Cancellers |-> IF c \in D /\ cancels[c].at = "asked"
                                              THEN [cancels[c] EXCEPT !.at = at] ELSE cancels[c]]
      PROVE  ToldUnknownTrue
  <2> SUFFICES ASSUME NEW c \in Cancellers, cancels'[c].at # cancels[c].at
               PROVE  cancels'[c].at # "unknown"
    BY DEF ToldUnknownTrue
  <2>1. cancels'[c] = [cancels[c] EXCEPT !.at = at]
    BY <1>4
  <2>2. cancels[c] = [at |-> cancels[c].at, ticket |-> cancels[c].ticket, late |-> cancels[c].late]
    BY <1>1, CancelRecord
  <2>3. cancels'[c].at = at
    BY <2>1, <2>2, RecordAt
  <2> QED BY <1>4, <2>3
<1>5. CASE HandleCancel \/ HandleFault
  <2> DEFINE c  == actor.ev.from
             at == IF cancels[c].at = "asked" THEN "refused" ELSE cancels[c].at
  <2>1. UNCHANGED cancels \/ MovesTo(c, at)
    BY <1>5 DEF MovesTo, HandleCancel, HandleFault
  <2>2. at # "unknown" \/ at = cancels[c].at
    OBVIOUS
  <2> HIDE DEF c, at
  <2> QED BY <1>2, <1>3, <2>1, <2>2
<1>6. CASE ActorWaitsForAck
  <2> DEFINE c  == actor.ev.from
             at == IF cancels[c].at = "asked" THEN "refused" ELSE cancels[c].at
  <2>1. UNCHANGED cancels \/ MovesTo(c, at)
    BY <1>6 DEF MovesTo, ActorWaitsForAck, AnswerAck, AnswerCrossedAbort, AnswerCancel, AnswerOther,
       CrossedAckSettles, HandshakeAbandoned
  <2>2. at # "unknown" \/ at = cancels[c].at
    OBVIOUS
  <2> HIDE DEF c, at
  <2> QED BY <1>2, <1>3, <2>1, <2>2
<1>7. CASE SelectDaemonAbort
  <2>1. CASE UNCHANGED cancels
    BY <1>2, <2>1
  <2>2. CASE cancels' = [c \in Cancellers |->
             IF actor.why = "cancelled" /\ c = actor.asker /\ cancels[c].at = "asked"
             THEN [cancels[c] EXCEPT !.at = "cancelled"] ELSE cancels[c]]
    <3> DEFINE D == {c \in Cancellers : actor.why = "cancelled" /\ c = actor.asker}
    <3>1. cancels' = [c \in Cancellers |-> IF c \in D /\ cancels[c].at = "asked"
                                   THEN [cancels[c] EXCEPT !.at = "cancelled"] ELSE cancels[c]]
      BY <2>2
    <3> HIDE DEF D
    <3> QED BY <1>4, <3>1
  <2> QED BY <1>7, <2>1, <2>2 DEF SelectDaemonAbort
<1>8. CASE Promote
  BY <1>4, <1>8 DEF Promote
<1>9. CASE ~(HandleCancel \/ HandleFault \/ ActorWaitsForAck \/ SelectDaemonAbort \/ Promote)
  <2>1. UNCHANGED cancels
    BY <1>9 DEF Actor, OpenSettles, CreditSettles, ActorTakes, ActorIdles, CancelRecords,
       HandleData, HandleEnd, HandleAbort, StageInterrupted, StageCompletes, CommitAccepted,
       AbortSettles, FinalAckSettles, FaultAckSettles, StageFinishes, Finalized, ReplySettles,
       cancelVars
  <2> QED BY <1>2, <2>1
<1> QED BY <1>5, <1>6, <1>7, <1>8, <1>9

LEMMA NextTellsTrue == UploadInv /\ [Next]_vars => ToldUnknownTrue
<1> SUFFICES ASSUME UploadInv, [Next]_vars PROVE ToldUnknownTrue OBVIOUS
<1>1. CASE Actor
  BY <1>1, ActorTellsTrue
<1>2. ASSUME NEW c \in Cancellers, CancelTask(c) \/ CancelWithdrawn(c)
      PROVE  ToldUnknownTrue
  BY <1>2, TaskTellsTrue
<1>3. CASE Client \/ ReaderEnqueues \/ Writer \/ HandshakeExpires \/ Disconnect \/ Expire
           \/ UNCHANGED vars
  <2>1. UNCHANGED cancels
    BY <1>3 DEF Client, ClientReads, ClientEnds, ClientAborts, ClientAcks, ClientBreaksProtocol,
       ClientSendsData, Receive, ReaderEnqueues, Writer, WriterStarts, WriterDiscards, WriterSends,
       WriterFails, HandshakeExpires, Disconnect, Expire, vars, cancelVars
  <2> QED BY <2>1 DEF ToldUnknownTrue
<1> QED BY <1>1, <1>2, <1>3 DEF Next

\* What transfer.cancel answers is true: "cancelled" and "already" only of an
\* upload recorded as cancelled, whose published result then is the
\* cancellation; "cancelled" to one caller only; "unknown" never of an upload
\* that is cancelled, nor of one still active on a live connection, unless the
\* actor has judged an event to be past its timer and selects the abort next
\* (UploadCancellationRegistry::cancel, select_cancelled and the timer check of
\* run_file_share).
THEOREM CancelsAreToldTheTruth == Spec => CancelAnswersTrue
<1>1. UploadInv =>
        /\ \A c \in Cancellers : cancels[c].at \in {"cancelled", "already"} => owner.selected
        /\ owner.selected /\ owner.result # "none" => owner.result = "cancelled"
        /\ \A c, d \in Cancellers :
             cancels[c].at = "cancelled" /\ cancels[d].at = "cancelled" => c = d
  BY DEF UploadInv, AnswersBacked, SelectionFinal
<1>2. UploadInv /\ [Next]_vars =>
        [\A c \in Cancellers : cancels'[c].at = "unknown" /\ cancels[c].at # "unknown"
                                 => ~owner.selected' /\ (phase # "Active" \/ gone \/ TimedOut)]_vars
  BY NextTellsTrue DEF ToldUnknownTrue
<1> QED BY <1>1, <1>2, UploadInvariant, PTL DEF Spec, CancelAnswersTrue

-----------------------------------------------------------------------------
(* What the steps of the actor do, field by field.                         *)

LEMMA FailFields ==
  ASSUME ActorTypes, NEW why, NEW yield, Fail(why, yield)
  PROVE  Failed(why, yield)
  BY DEF ActorTypes, Actors, Fail, Failed

LEMMA LoopFields ==
  ASSUME ActorTypes, Loop, UNCHANGED <<phase, gone, owner, data, term, deferred>>
  PROVE  Looped
  BY DEF ActorTypes, Actors, Loop, Looped, Goes

LEMMA ReturnFields ==
  ASSUME NEW close, Return(close)
  PROVE  Returned /\ (close => gone')
  BY DEF Return, Idle, Returned

LEMMA TurnFields ==
  ASSUME ActorTypes, NEW s, TurnEnds(s), UNCHANGED <<phase, gone, owner, data, term, deferred>>
  PROVE  Turned(s)
<1>1. CASE CreditDue(s)
  BY <1>1 DEF ActorTypes, Actors, TurnEnds, Queue, Turned, Goes, Queued
<1>2. CASE ~CreditDue(s)
  BY <1>2, LoopFields DEF TurnEnds, Turned
<1> QED BY <1>1, <1>2

LEMMA CompleteFields ==
  ASSUME ActorTypes, NEW result, result # "malformed", Complete(result)
  PROVE  Clean
  BY DEF ActorTypes, Owners, Complete, Clean

LEMMA LoseFields ==
  ASSUME ActorTypes, LoseTransport
  PROVE  Returned /\ Clean
  BY ReturnFields, CompleteFields DEF LoseTransport

LEMMA OpenFields ==
  ASSUME ActorTypes, OpenSettles
  PROVE  /\ actor.pc = "open" /\ UNCHANGED <<state, ingress, cancels>>
         /\ \/ /\ write.at = "sent" /\ actor'.ev = actor.ev /\ actor'.crossed = actor.crossed
               /\ actor'.pc = "credit" /\ Queued("CREDIT", NextCredit(state))
               /\ UNCHANGED <<phase, gone, owner, Lanes>>
            \/ /\ write.at \in {"deadline", "queued"} /\ actor'.pc = "reply" /\ actor'.ev = actor.ev
               /\ actor'.crossed = actor.crossed /\ Queued("REPLY", 0)
               /\ phase' = "Retired" /\ Clean /\ UNCHANGED <<gone, Lanes>>
            \/ Returned /\ gone' /\ Clean
<1>1. actor.pc = "open" /\ UNCHANGED <<state, ingress, cancels>>
  BY DEF OpenSettles
<1>2. CASE /\ write.at = "sent"
           /\ actor' = [actor EXCEPT !.pc = "credit"]
           /\ Queue("CREDIT", NextCredit(state))
           /\ UNCHANGED <<gone, phase, owner, registered, laneVars>>
  BY <1>1, <1>2 DEF ActorTypes, Actors, Queue, Queued, laneVars, Lanes
<1>3. CASE /\ write.at = "deadline" \/ (write.at = "queued" /\ expired)
           /\ phase' = "Retired" /\ Complete("timeout") /\ Queue("REPLY", 0)
           /\ actor' = [actor EXCEPT !.pc = "reply", !.acked = TRUE]
           /\ UNCHANGED <<gone, registered, laneVars>>
  BY <1>1, <1>3, CompleteFields DEF ActorTypes, Actors, Queue, Queued, laneVars, Lanes
<1>4. CASE Complete("lost") /\ Return(TRUE)
  BY <1>1, <1>4, CompleteFields, ReturnFields
<1> QED BY <1>2, <1>3, <1>4 DEF OpenSettles

LEMMA CreditFields ==
  ASSUME ActorTypes, CreditSettles
  PROVE  /\ actor.pc = "credit" /\ write.at \in {"queued", "sent", "unsent"}
         /\ UNCHANGED <<ingress, cancels>>
         /\ state' = IF write.at = "sent" THEN Credited(state) ELSE state
         /\ \/ Looped
            \/ Closed /\ ~TerminalPending /\ Returned /\ Clean
            \/ /\ ~TerminalPending /\ Failed("timeout", "any")
               /\ UNCHANGED <<phase, gone, owner, Lanes>>
            \/ /\ ~TerminalPending /\ ~Closed /\ write.at = "unsent" /\ Failed("protocol", "any")
               /\ UNCHANGED <<phase, gone, owner, Lanes>>
<1>1. /\ actor.pc = "credit" /\ write.at \in {"queued", "sent", "unsent"}
      /\ UNCHANGED <<ingress, cancels>>
      /\ state' = IF write.at = "sent" THEN Credited(state) ELSE state
  BY DEF CreditSettles
<1>2. CASE Loop /\ UNCHANGED <<gone, phase, owner, registered, data, term, deferred>>
  BY <1>1, <1>2, LoopFields
<1>3. CASE ~TerminalPending /\ Closed /\ LoseTransport
  BY <1>1, <1>3, LoseFields
<1>4. CASE /\ ~TerminalPending /\ Fail("timeout", "any")
           /\ UNCHANGED <<gone, phase, owner, registered, laneVars>>
  BY <1>1, <1>4, FailFields DEF laneVars, Lanes
<1>5. CASE /\ ~TerminalPending /\ ~Closed /\ write.at = "unsent"
           /\ Fail("protocol", "any") /\ UNCHANGED processing
           /\ UNCHANGED <<gone, phase, owner, registered, data, term, deferred>>
  BY <1>1, <1>5, FailFields DEF Lanes
<1> QED BY <1>1, <1>2, <1>3, <1>4, <1>5 DEF CreditSettles

\* The event in hand is the deferred one, the head of a lane, or none if an
\* END is set aside.
LEMMA TakeFields ==
  ASSUME ActorTypes, ActorTakes
  PROVE  /\ actor.pc \in {"next", "waitack"}
         /\ UNCHANGED <<state, ingress, cancels, phase, gone, owner, write>>
         /\ actor'.why = actor.why /\ actor'.crossed = actor.crossed
         /\ \/ /\ actor'.pc = actor.pc /\ actor'.ev = actor.ev /\ PendingData # 0 /\ term # <<>>
               /\ Head(term).kind = "END" /\ term' = Tail(term) /\ data' = data
            \/ /\ actor'.pc = IF actor.pc = "next" THEN "handle" ELSE "answer"
               /\ \/ /\ deferred # NoEvent /\ actor'.ev = deferred
                  \/ /\ term # <<>> /\ actor'.ev = Head(term) /\ term' = Tail(term)
                     /\ processing' = IF IsPreemptive(Head(term)) THEN "preemptive" ELSE "plain"
                     /\ UNCHANGED <<data, deferred>>
                  \/ /\ data # <<>> /\ actor'.ev = Head(data) /\ data' = Tail(data)
                     /\ deferred = NoEvent => term = <<>>
                     /\ UNCHANGED <<term, deferred, processing>>
<1>1. /\ actor.pc \in {"next", "waitack"}
      /\ UNCHANGED <<state, ingress, cancels, phase, gone, owner, write>>
  BY DEF ActorTakes, cancelVars
<1>2. ASSUME NEW e, Hold(e)
      PROVE  /\ actor'.pc = IF actor.pc = "next" THEN "handle" ELSE "answer"
             /\ actor'.ev = e /\ actor'.why = actor.why /\ actor'.crossed = actor.crossed
  BY <1>2 DEF ActorTypes, Actors, Hold
<1>3. CASE TakeDeferred
  BY <1>1, <1>2, <1>3 DEF TakeDeferred
<1>4. CASE TakeTerminal
  <2>1. CASE Head(term).kind = "END" /\ PendingData # 0
    BY <1>1, <1>4, <2>1 DEF TakeTerminal
  <2>2. CASE ~(Head(term).kind = "END" /\ PendingData # 0)
    <3>1. Hold(Head(term)) /\ UNCHANGED deferred
      BY <1>4, <2>2 DEF TakeTerminal
    <3>2. /\ term # <<>> /\ term' = Tail(term) /\ UNCHANGED data
          /\ processing' = IF IsPreemptive(Head(term)) THEN "preemptive" ELSE "plain"
      BY <1>4 DEF TakeTerminal
    <3> QED BY <1>1, <1>2, <3>1, <3>2
  <2> QED BY <2>1, <2>2
<1>5. CASE TakeData
  BY <1>1, <1>2, <1>5 DEF TakeData
<1> QED BY <1>3, <1>4, <1>5 DEF ActorTakes

LEMMA IdleFields ==
  ASSUME ActorTypes, ActorIdles
  PROVE  /\ actor.pc = "next" /\ ~TerminalPending /\ UNCHANGED <<state, ingress, cancels>>
         /\ \/ Closed /\ Returned /\ Clean
            \/ Failed("timeout", "any") /\ UNCHANGED <<phase, gone, owner, Lanes>>
<1>1. actor.pc = "next" /\ ~TerminalPending /\ UNCHANGED <<state, ingress, cancels>>
  BY DEF ActorIdles
<1>2. CASE Closed /\ LoseTransport
  BY <1>1, <1>2, LoseFields
<1>3. CASE Fail("timeout", "any") /\ UNCHANGED <<gone, phase, owner, registered, laneVars>>
  BY <1>1, <1>3, FailFields DEF laneVars, Lanes
<1> QED BY <1>2, <1>3 DEF ActorIdles

LEMMA FaultFields ==
  ASSUME ActorTypes, HandleFault
  PROVE  /\ actor.pc = "handle" /\ UNCHANGED <<state, ingress, phase, gone, owner, Lanes>>
         /\ \/ UNCHANGED cancels
            \/ \E at : MovesTo(actor.ev.from, at) /\ (at = "lane" => cancels[actor.ev.from].at = at)
         /\ actor.ev.late \/ actor.ev.kind \in {"BAD", "ACK", "NOCREDIT", "OVERSIZE"}
         /\ excuse' = "none" => actor.ev.kind # "ABORT"
         /\ Failed(actor'.why, "none")
         /\ actor'.why = "protocol" => actor.ev.kind \in {"BAD", "ACK", "NOCREDIT"}
<1> DEFINE why == IF actor.ev.late THEN "timeout"
                  ELSE IF actor.ev.kind = "OVERSIZE" THEN "oversize" ELSE "protocol"
<1>1. /\ actor.pc = "handle" /\ UNCHANGED <<state, ingress, phase, gone, owner, Lanes>>
      /\ actor.ev.late \/ actor.ev.kind \in {"BAD", "ACK", "NOCREDIT", "OVERSIZE"}
  BY DEF HandleFault, handling, activeFrame, laneVars, Lanes
<1>6. \/ UNCHANGED cancels
      \/ \E at : MovesTo(actor.ev.from, at) /\ (at = "lane" => cancels[actor.ev.from].at = at)
  <2>1. CASE actor.ev.kind = "CANCEL"
    <3>1. MovesTo(actor.ev.from, IF cancels[actor.ev.from].at = "asked"
                                 THEN "refused" ELSE cancels[actor.ev.from].at)
      BY <2>1 DEF MovesTo, HandleFault
    <3> QED BY <3>1
  <2>2. CASE actor.ev.kind # "CANCEL"
    BY <2>2 DEF HandleFault
  <2> QED BY <2>1, <2>2
<1>2. Fail(why, "none")
  BY DEF HandleFault
<1>3. why = "protocol" => actor.ev.kind \in {"BAD", "ACK", "NOCREDIT"}
  BY <1>1
<1>4. excuse' = "none" => actor.ev.kind # "ABORT"
  BY DEF HandleFault, Excuse
<1> HIDE DEF why
<1>5. Failed(why, "none") /\ actor'.why = why
  BY <1>2, FailFields DEF Failed
<1> QED BY <1>1, <1>3, <1>4, <1>5, <1>6

LEMMA CancelFields ==
  ASSUME ActorTypes, HandleCancel, excuse' = "none"
  PROVE  /\ actor.pc = "handle" /\ actor.ev.kind = "CANCEL" /\ UNCHANGED <<state, ingress>>
         /\ \/ /\ phase = "Active" /\ phase' = "DaemonAbortQueued" /\ Goes("record")
               /\ UNCHANGED <<write, cancels, gone, owner, Lanes>>
            \/ /\ phase # "Active" /\ Turned(state)
               /\ \E at : MovesTo(actor.ev.from, at) /\ (at = "lane" => cancels[actor.ev.from].at = at)
<1>1. actor.pc = "handle" /\ actor.ev.kind = "CANCEL" /\ UNCHANGED <<state, ingress, gone, owner>>
      /\ UNCHANGED <<data, term, deferred>>
  BY DEF HandleCancel, handling
<1>2. CASE registered /\ phase = "Active"
  BY <1>1, <1>2 DEF HandleCancel, ActorTypes, Actors, Goes, Lanes
<1>3. CASE ~(registered /\ phase = "Active")
  <2>1. phase # "Active"
    BY <1>3 DEF HandleCancel, Excuse
  <2>2. TurnEnds(state) /\ phase' = phase
    BY <1>3 DEF HandleCancel
  <2>3. \E at : MovesTo(actor.ev.from, at) /\ (at = "lane" => cancels[actor.ev.from].at = at)
    <3>1. MovesTo(actor.ev.from, IF cancels[actor.ev.from].at = "asked"
                                 THEN "refused" ELSE cancels[actor.ev.from].at)
      BY <1>3 DEF MovesTo, HandleCancel
    <3> QED BY <3>1
  <2> QED BY <1>1, <2>1, <2>2, <2>3, TurnFields
<1> QED BY <1>2, <1>3

LEMMA RecordFields ==
  ASSUME ActorTypes, CancelRecords
  PROVE  /\ actor.pc = "record" /\ UNCHANGED <<state, ingress, cancels, phase, gone, Lanes>>
         /\ Failed("cancelled", "none") /\ owner'.result = owner.result
  BY FailFields DEF CancelRecords, ActorTypes, Owners, laneVars, Lanes

LEMMA DataFields ==
  ASSUME ActorTypes, HandleData
  PROVE  /\ actor.pc = "handle" /\ actor.ev.kind = "DATA"
         /\ UNCHANGED <<ingress, cancels, phase, gone, owner, Lanes>>
         /\ \/ /\ actor.ev.off = state.accepted
               /\ actor'.pc = "stage" /\ actor'.ev = actor.ev /\ actor'.why = actor.why
               /\ actor'.crossed = actor.crossed /\ write' = write
               /\ state' = [state EXCEPT !.history = {h \in @ : h[2] >= actor.ev.off + actor.ev.n}]
            \/ /\ ~(/\ actor.ev.off = state.accepted /\ actor.ev.off + actor.ev.n <= actor.ev.credit
                    /\ actor.ev.credit <= state.through)
               /\ Failed("protocol", "preemptive") /\ state' = state
<1>1. /\ actor.pc = "handle" /\ actor.ev.kind = "DATA"
      /\ UNCHANGED <<ingress, cancels, phase, gone, owner, Lanes>>
  BY DEF HandleData, handling, activeFrame, laneVars, Lanes
<1> DEFINE ok == /\ actor.ev.off = state.accepted /\ actor.ev.off + actor.ev.n <= actor.ev.credit
                 /\ actor.ev.credit <= state.through
<1>2. CASE ok
  BY <1>1, <1>2 DEF HandleData, ActorTypes, Actors
<1>3. CASE ~ok
  <2>1. Fail("protocol", "preemptive") /\ state' = state
    BY <1>3 DEF HandleData
  <2> QED BY <1>1, <1>3, <2>1, FailFields
<1> QED BY <1>2, <1>3

LEMMA InterruptFields ==
  ASSUME ActorTypes, StageInterrupted
  PROVE  /\ actor.pc = "stage" /\ UNCHANGED <<state, ingress, cancels>>
         /\ \/ (PreemptivePending \/ TerminalPending) /\ Turned(state)
            \/ Closed /\ Returned /\ Clean
            \/ Failed("timeout", "any") /\ UNCHANGED <<phase, gone, owner, Lanes>>
<1>1. actor.pc = "stage" /\ UNCHANGED <<state, ingress, cancels>>
  BY DEF StageInterrupted
<1>2. CASE /\ PreemptivePending \/ (Closed /\ TerminalPending)
           /\ TurnEnds(state)
           /\ UNCHANGED <<gone, phase, owner, registered, data, term, deferred>>
  BY <1>1, <1>2, TurnFields
<1>3. CASE Closed /\ LoseTransport
  BY <1>1, <1>3, LoseFields
<1>4. CASE Fail("timeout", "any") /\ UNCHANGED <<gone, phase, owner, registered, laneVars>>
  BY <1>1, <1>4, FailFields DEF laneVars, Lanes
<1> QED BY <1>2, <1>3, <1>4 DEF StageInterrupted

LEMMA StageFields ==
  ASSUME ActorTypes, StageCompletes
  PROVE  /\ actor.pc = "stage" /\ UNCHANGED <<ingress, cancels, phase, gone, owner, Lanes>>
         /\ \/ /\ actor'.pc = "commit" /\ actor'.ev = actor.ev /\ actor'.why = actor.why
               /\ actor'.crossed = actor.crossed /\ write' = write
               /\ state' = [state EXCEPT !.staged = @ + actor.ev.n]
            \/ Failed("sink", "preemptive") /\ state' = state
<1>1. actor.pc = "stage" /\ UNCHANGED <<ingress, cancels, phase, gone, owner, Lanes>>
  BY DEF StageCompletes, activeFrame, laneVars, Lanes
<1>2. CASE actor' = [actor EXCEPT !.pc = "commit"]
  BY <1>1, <1>2 DEF StageCompletes, Fail, ActorTypes, Actors
<1>3. CASE Fail("sink", "preemptive") /\ state' = state
  BY <1>1, <1>3, FailFields
<1> QED BY <1>1, <1>2, <1>3 DEF StageCompletes, ActorTypes, Actors

LEMMA CommitFields ==
  ASSUME ActorTypes, CommitAccepted
  PROVE  /\ actor.pc = "commit" /\ UNCHANGED cancels
         /\ \/ /\ PreemptivePending \/ TerminalPending
               /\ Turned(state) /\ UNCHANGED <<ingress, state>>
            \/ Closed /\ Returned /\ Clean /\ UNCHANGED <<ingress, state>>
            \/ /\ phase' = IF TerminalPending THEN phase ELSE "DaemonAbortQueued"
               /\ ~PreemptivePending /\ ~Closed
               /\ Failed("timeout", "any") /\ UNCHANGED <<gone, ingress, state, owner, Lanes>>
            \/ /\ ~PreemptivePending
               /\ state' = [state EXCEPT !.accepted = actor.ev.off + actor.ev.n]
               /\ ingress' = [ingress EXCEPT !.accepted = state'.accepted]
               /\ Turned(state')
<1>1. actor.pc = "commit" /\ UNCHANGED cancels
  BY DEF CommitAccepted
<1>2. CASE /\ PreemptivePending \/ (Closed /\ TerminalPending)
           /\ TurnEnds(state)
           /\ UNCHANGED <<gone, phase, ingress, state, owner, registered, data, term, deferred>>
  BY <1>1, <1>2, TurnFields
<1>3. CASE Closed /\ LoseTransport /\ UNCHANGED <<ingress, state>>
  BY <1>1, <1>3, LoseFields
<1>4. CASE /\ ~PreemptivePending /\ ~Closed /\ expired
           /\ phase' = IF TerminalPending THEN phase ELSE "DaemonAbortQueued"
           /\ Fail("timeout", "any")
           /\ UNCHANGED <<gone, ingress, state, owner, registered, laneVars>>
  BY <1>1, <1>4, FailFields DEF laneVars, Lanes
<1> DEFINE accepted == [state EXCEPT !.accepted = actor.ev.off + actor.ev.n]
<1>5. CASE /\ ~PreemptivePending /\ ~Closed /\ ~expired
           /\ state' = accepted
           /\ ingress' = [ingress EXCEPT !.accepted = accepted.accepted]
           /\ TurnEnds(accepted)
           /\ UNCHANGED <<gone, phase, owner, registered, data, term, deferred>>
  <2> HIDE DEF accepted
  <2>1. Turned(accepted)
    BY <1>5, TurnFields
  <2>2. state' = accepted /\ ingress' = [ingress EXCEPT !.accepted = accepted.accepted]
    BY <1>5
  <2>3. Turned(state')
    BY <2>1, <2>2
  <2>4. ingress' = [ingress EXCEPT !.accepted = state'.accepted]
    BY <2>2
  <2>5. state' = [state EXCEPT !.accepted = actor.ev.off + actor.ev.n]
    BY <2>2 DEF accepted
  <2> QED BY <1>1, <1>5, <2>3, <2>4, <2>5
<1> QED BY <1>2, <1>3, <1>4, <1>5 DEF CommitAccepted

LEMMA EndFields ==
  ASSUME ActorTypes, HandleEnd
  PROVE  /\ actor.pc = "handle" /\ actor.ev.kind = "END" /\ UNCHANGED <<state, cancels, owner, Lanes>>
         /\ \/ /\ EndFailure(actor.ev.n) # "none" /\ Failed(EndFailure(actor.ev.n), "none")
               /\ UNCHANGED <<phase, gone, ingress>>
            \/ /\ EndFailure(actor.ev.n) = "none" /\ phase = "Active" /\ actor.ev.n = state.accepted
               /\ phase' = "Finalizing" /\ (gone => gone') /\ Goes("finish") /\ write' = write
               /\ ingress' = [ingress EXCEPT !.accepted = actor.ev.n]
<1>1. /\ actor.pc = "handle" /\ actor.ev.kind = "END" /\ UNCHANGED <<state, cancels, owner, Lanes>>
  BY DEF HandleEnd, handling, laneVars, Lanes
<1>2. CASE EndFailure(actor.ev.n) # "none"
  <2>1. Fail(EndFailure(actor.ev.n), "none") /\ UNCHANGED <<phase, gone, ingress>>
    BY <1>2 DEF HandleEnd
  <2>2. Failed(EndFailure(actor.ev.n), "none")
    BY <2>1, FailFields
  <2> QED BY <1>1, <1>2, <2>1, <2>2
<1>3. CASE EndFailure(actor.ev.n) = "none"
  <2>1. phase = "Active" /\ actor.ev.n = state.accepted
    BY <1>3 DEF EndFailure
  <2>2. /\ phase' = "Finalizing" /\ (gone => gone') /\ Goes("finish") /\ write' = write
        /\ ingress' = [ingress EXCEPT !.accepted = actor.ev.n]
    BY <1>3 DEF HandleEnd, ActorTypes, Actors, Goes
  <2> QED BY <1>1, <1>3, <2>1, <2>2
<1> QED BY <1>2, <1>3

LEMMA AbortFields ==
  ASSUME ActorTypes, HandleAbort
  PROVE  /\ actor.pc = "handle" /\ actor.ev.kind = "ABORT" /\ UNCHANGED <<state, ingress, cancels>>
         /\ \/ /\ \A h \in state.history : h[1] # actor.ev.n
               /\ Failed("protocol", "none") /\ UNCHANGED <<phase, gone, owner, Lanes>>
            \/ /\ phase = "Active" /\ phase' = "ClientAbortPending" /\ Goes("ack")
               /\ Queued("FINALACK", 0) /\ data' = <<>>
               /\ UNCHANGED <<gone, owner, term, deferred, processing>>
            \/ phase # "Active" /\ Returned /\ Clean
<1>1. actor.pc = "handle" /\ actor.ev.kind = "ABORT" /\ UNCHANGED <<state, ingress, cancels>>
  BY DEF HandleAbort, handling
<1>2. CASE \A h \in state.history : h[1] # actor.ev.n
  <2>1. Fail("protocol", "none") /\ UNCHANGED <<phase, gone, owner, laneVars>>
    BY <1>2 DEF HandleAbort
  <2> QED BY <1>1, <1>2, <2>1, FailFields DEF laneVars, Lanes
<1>3. CASE ~(\A h \in state.history : h[1] # actor.ev.n) /\ phase = "Active"
  BY <1>1, <1>3 DEF HandleAbort, ActorTypes, Actors, Goes, Queue, Queued
<1>4. CASE ~(\A h \in state.history : h[1] # actor.ev.n) /\ phase # "Active"
  <2>1. Complete("lost") /\ Return(FALSE)
    BY <1>4 DEF HandleAbort
  <2> QED BY <1>1, <1>4, <2>1, CompleteFields, ReturnFields
<1> QED BY <1>2, <1>3, <1>4

LEMMA SelectFields ==
  ASSUME ActorTypes, SelectDaemonAbort
  PROVE  /\ actor.pc = "fail" /\ UNCHANGED <<state, ingress>>
         /\ \/ /\ phase = "Active" /\ Looped /\ UNCHANGED cancels
               /\ \/ actor.yield = "any" /\ TerminalPending
                  \/ actor.yield = "preemptive" /\ PreemptivePending
            \/ /\ \/ phase = "DaemonAbortQueued"
                  \/ /\ phase = "Active"
                     /\ ~(actor.yield = "any" /\ TerminalPending)
                     /\ ~(actor.yield = "preemptive" /\ PreemptivePending)
               /\ phase' = "DaemonAbortQueued"
               /\ \E D : cancels' = [c \in Cancellers |->
                     IF c \in D THEN [cancels[c] EXCEPT !.at = "cancelled"] ELSE cancels[c]]
               /\ actor'.pc = "abort" /\ actor'.ev = actor.ev /\ actor'.why = actor.why
               /\ actor'.crossed = actor.crossed
               /\ Queued("ABORT", 0) /\ UNCHANGED <<gone, owner, Lanes>>
            \/ /\ phase \notin {"Active", "DaemonAbortQueued"}
               /\ Returned /\ Clean /\ UNCHANGED cancels
<1> DEFINE yields == \/ actor.yield = "any" /\ TerminalPending
                     \/ actor.yield = "preemptive" /\ PreemptivePending
<1>1. actor.pc = "fail" /\ UNCHANGED <<state, ingress>>
  BY DEF SelectDaemonAbort
<1>2. CASE phase = "Active" /\ yields
  <2>1. Loop /\ UNCHANGED <<phase, gone, owner, cancels, data, term, deferred>>
    BY <1>2 DEF SelectDaemonAbort
  <2> QED BY <1>1, <1>2, <2>1, LoopFields
<1>3. CASE (phase = "Active" /\ ~yields) \/ phase = "DaemonAbortQueued"
  <2> DEFINE D == {c \in Cancellers : /\ actor.why = "cancelled" /\ c = actor.asker
                                     /\ cancels[c].at = "asked"}
  <2>1. cancels' = [c \in Cancellers |->
             IF actor.why = "cancelled" /\ c = actor.asker /\ cancels[c].at = "asked"
             THEN [cancels[c] EXCEPT !.at = "cancelled"] ELSE cancels[c]]
    BY <1>3 DEF SelectDaemonAbort
  <2>2. cancels' = [c \in Cancellers |->
                     IF c \in D THEN [cancels[c] EXCEPT !.at = "cancelled"] ELSE cancels[c]]
    BY <2>1
  <2> HIDE DEF D
  <2>3. /\ phase' = "DaemonAbortQueued" /\ actor' = [actor EXCEPT !.pc = "abort"]
        /\ Queue("ABORT", 0) /\ UNCHANGED <<gone, owner, laneVars>>
    BY <1>3 DEF SelectDaemonAbort
  <2>4. actor'.pc = "abort" /\ actor'.ev = actor.ev /\ actor'.why = actor.why
               /\ actor'.crossed = actor.crossed
    BY <2>3 DEF ActorTypes, Actors
  <2>5. Queued("ABORT", 0) /\ UNCHANGED Lanes
    BY <2>3 DEF Queue, Queued, laneVars, Lanes
  <2> QED BY <1>1, <1>3, <2>2, <2>3, <2>4, <2>5
<1>4. CASE phase \notin {"Active", "DaemonAbortQueued"}
  <2>1. LoseTransport /\ UNCHANGED cancels
    BY <1>4 DEF SelectDaemonAbort
  <2> QED BY <1>1, <1>4, <2>1, LoseFields
<1> QED BY <1>2, <1>3, <1>4

LEMMA AbortSettlesFields ==
  ASSUME ActorTypes, AbortSettles, actor.why # "protocol", actor.why # "malformed"
  PROVE  /\ actor.pc = "abort" /\ UNCHANGED <<state, ingress, cancels>>
         /\ \/ phase # "DaemonAbortQueued" /\ write.at = "queued" /\ Returned /\ Clean
            \/ /\ write.at = "sent" /\ actor'.pc = "waitack" /\ actor'.ev = actor.ev
               /\ actor'.why = actor.why /\ actor'.crossed = actor.crossed
               /\ write' = NoWrite /\ UNCHANGED <<phase, gone, owner, Lanes>>
            \/ Returned /\ gone' /\ Clean
<1>1. actor.pc = "abort" /\ UNCHANGED <<state, ingress, cancels>>
  BY DEF AbortSettles
<1>2. Result(actor.why) # "malformed"
  BY DEF Result
<1>3. CASE phase # "DaemonAbortQueued" /\ write.at = "queued" /\ Complete(Result(actor.why)) /\ Return(FALSE)
  BY <1>1, <1>2, <1>3, CompleteFields, ReturnFields
<1>4. CASE /\ write.at = "sent" /\ actor' = [actor EXCEPT !.pc = "waitack"] /\ write' = NoWrite
           /\ UNCHANGED <<gone, phase, owner, registered, laneVars>>
  BY <1>1, <1>4 DEF ActorTypes, Actors, laneVars, Lanes
<1>5. CASE Complete(Result(actor.why)) /\ Return(TRUE)
  BY <1>1, <1>2, <1>5, CompleteFields, ReturnFields
<1> QED BY <1>3, <1>4, <1>5 DEF AbortSettles

LEMMA OverFields ==
  ASSUME ActorTypes, actor.why # "protocol", NEW acked, HandshakeEnds(acked)
  PROVE  HandshakeOver
<1>1. Result(actor.why) # "malformed"
  BY DEF Result, ActorTypes, Actors, Whys
<1> QED BY <1>1, CompleteFields DEF HandshakeEnds, HandshakeOver, ActorTypes, Actors, Goes, Queue, Queued

LEMMA WaitFields ==
  ASSUME ActorTypes, ActorWaitsForAck, actor.why # "protocol", excuse' = "none"
  PROVE  /\ UNCHANGED <<gone, ingress, state, Lanes>>
         /\ \/ UNCHANGED cancels
            \/ \E at : MovesTo(actor.ev.from, at) /\ (at = "lane" => cancels[actor.ev.from].at = at)
         /\ \/ actor.pc = "answer" /\ actor.ev.kind = "ACK" /\ HandshakeOver
            \/ /\ actor.pc = "answer" /\ actor.ev.kind = "ABORT"
               /\ actor.crossed \/ \A h \in state.history : h[1] # actor.ev.n
               /\ HandshakeOver
            \/ /\ actor.pc = "answer" /\ actor.ev.kind = "ABORT" /\ ~actor.crossed
               /\ Goes("cross") /\ Queued("ACK", 0) /\ UNCHANGED <<phase, owner>>
            \/ /\ actor.pc = "answer" /\ actor.ev.kind \in {"CANCEL", "DATA", "END"}
               /\ Goes("waitack") /\ UNCHANGED <<phase, owner, write>>
            \/ /\ actor.pc = "answer"
               /\ actor.ev.kind \notin {"ACK", "ABORT", "CANCEL", "DATA", "END"} /\ HandshakeOver
            \/ actor.pc = "cross" /\ write.at = "unsent" /\ HandshakeOver
            \/ /\ actor.pc = "cross" /\ write.at = "sent" /\ actor'.pc = "waitack"
               /\ actor'.ev = actor.ev /\ actor'.why = actor.why /\ actor'.crossed
               /\ write' = NoWrite /\ UNCHANGED <<phase, owner>>
            \/ actor.pc = "waitack" /\ Closed /\ HandshakeOver
<1>1. UNCHANGED <<gone, ingress, state, Lanes>>
  BY DEF ActorWaitsForAck, laneVars, Lanes
<1>2. CASE AnswerAck
  BY <1>1, <1>2, OverFields DEF AnswerAck
<1>3. CASE AnswerCrossedAbort
  <2>1. CASE ~actor.crossed /\ \E h \in state.history : h[1] = actor.ev.n
    BY <1>1, <1>3, <2>1 DEF AnswerCrossedAbort, ActorTypes, Actors, Goes, Queue, Queued
  <2>2. CASE ~(~actor.crossed /\ \E h \in state.history : h[1] = actor.ev.n)
    <3>1. HandshakeEnds(FALSE) /\ UNCHANGED cancels /\ actor.pc = "answer" /\ actor.ev.kind = "ABORT"
      BY <1>3, <2>2 DEF AnswerCrossedAbort
    <3>2. actor.crossed \/ \A h \in state.history : h[1] # actor.ev.n
      BY <2>2
    <3> QED BY <1>1, <3>1, <3>2, OverFields
  <2> QED BY <2>1, <2>2
<1>4. CASE AnswerCancel
  <2>1. \E at : MovesTo(actor.ev.from, at) /\ (at = "lane" => cancels[actor.ev.from].at = at)
    <3>1. MovesTo(actor.ev.from, IF cancels[actor.ev.from].at = "asked"
                                 THEN "refused" ELSE cancels[actor.ev.from].at)
      BY <1>4 DEF MovesTo, AnswerCancel
    <3> QED BY <3>1
  <2> QED BY <1>1, <1>4, <2>1 DEF AnswerCancel, ActorTypes, Actors, Goes
<1>5. CASE AnswerOther
  <2>1. CASE actor.ev.kind \in {"DATA", "END"}
    BY <1>1, <1>5, <2>1 DEF AnswerOther, ActorTypes, Actors, Goes
  <2>2. CASE actor.ev.kind \notin {"DATA", "END"}
    BY <1>1, <1>5, <2>2, OverFields DEF AnswerOther
  <2> QED BY <2>1, <2>2
<1>6. CASE CrossedAckSettles
  <2>1. CASE write.at = "sent"
    BY <1>1, <1>6, <2>1 DEF CrossedAckSettles, ActorTypes, Actors
  <2>2. CASE write.at # "sent"
    BY <1>1, <1>6, <2>2, OverFields DEF CrossedAckSettles
  <2> QED BY <2>1, <2>2
<1>7. CASE HandshakeAbandoned
  <2>1. Closed
    BY <1>7 DEF HandshakeAbandoned, Excuse
  <2> QED BY <1>1, <1>7, <2>1, OverFields DEF HandshakeAbandoned
<1> QED BY <1>2, <1>3, <1>4, <1>5, <1>6, <1>7 DEF ActorWaitsForAck

LEMMA FinalAckFields ==
  ASSUME ActorTypes, FinalAckSettles
  PROVE  /\ actor.pc = "ack" /\ UNCHANGED <<state, ingress, cancels>>
         /\ \/ /\ write.at = "sent" /\ phase = "Retired" /\ actor'.pc = "reply" /\ actor'.ev = actor.ev
               /\ actor'.why = actor.why /\ actor'.crossed = actor.crossed
               /\ Queued("REPLY", 0) /\ Clean /\ UNCHANGED <<phase, gone, Lanes>>
            \/ /\ phase = "ClientAbortAckSent" /\ actor'.pc = "promote" /\ actor'.ev = actor.ev
               /\ write' = NoWrite /\ UNCHANGED <<phase, gone, owner, Lanes>>
            \/ /\ NonCancelPending /\ actor'.pc = "faultack" /\ actor'.ev = actor.ev
               /\ phase = "ClientAbortPending"
               /\ Queued("ACK", 0) /\ UNCHANGED <<phase, gone, owner, Lanes>>
            \/ Returned /\ gone' /\ Clean
<1>1. actor.pc = "ack" /\ UNCHANGED <<state, ingress, cancels>>
  BY DEF FinalAckSettles
<1>2. CASE /\ write.at = "sent" /\ phase = "Retired" /\ Complete("aborted") /\ Queue("REPLY", 0)
           /\ actor' = [actor EXCEPT !.pc = "reply", !.acked = TRUE]
           /\ UNCHANGED <<gone, phase, registered, laneVars>>
  BY <1>1, <1>2, CompleteFields DEF ActorTypes, Actors, Queue, Queued, laneVars, Lanes
<1>3. CASE /\ write.at = "sent" /\ phase = "ClientAbortAckSent"
           /\ actor' = [actor EXCEPT !.pc = "promote"] /\ write' = NoWrite
           /\ UNCHANGED <<gone, phase, owner, registered, laneVars>>
  BY <1>1, <1>3 DEF ActorTypes, Actors, laneVars, Lanes
<1>4. CASE /\ write.at = "unsent" /\ phase = "ClientAbortPending" /\ NonCancelPending
           /\ actor' = [actor EXCEPT !.pc = "faultack"] /\ Queue("ACK", 0)
           /\ UNCHANGED <<gone, phase, owner, registered, laneVars>>
  BY <1>1, <1>4 DEF ActorTypes, Actors, Queue, Queued, laneVars, Lanes
<1>5. CASE Complete("aborted") /\ Return(TRUE)
  BY <1>1, <1>5, CompleteFields, ReturnFields
<1> QED BY <1>2, <1>3, <1>4, <1>5 DEF FinalAckSettles

LEMMA FinishFields ==
  ASSUME ActorTypes, StageFinishes
  PROVE  /\ actor.pc = "finish" /\ UNCHANGED <<state, ingress, cancels, phase, gone>>
         /\ \/ /\ actor'.pc = "finalize" /\ actor'.ev = actor.ev /\ actor'.crossed = actor.crossed
               /\ data' = <<>> /\ term' = <<>> /\ deferred' = NoEvent /\ processing' = "none"
               /\ UNCHANGED <<owner, write>>
            \/ /\ actor'.pc = "unfinished" /\ actor'.ev = actor.ev /\ actor'.crossed = actor.crossed
               /\ Clean /\ Queued("REPLY", 0) /\ UNCHANGED Lanes
<1>1. actor.pc = "finish" /\ UNCHANGED <<state, ingress, cancels, phase, gone>>
  BY DEF StageFinishes, cancelVars
<1>2. CASE /\ actor' = [actor EXCEPT !.pc = "finalize"]
           /\ data' = <<>> /\ term' = <<>> /\ deferred' = NoEvent /\ processing' = "none"
           /\ UNCHANGED <<owner, write>>
  BY <1>1, <1>2 DEF ActorTypes, Actors
<1>3. CASE /\ Complete("sink") /\ Queue("REPLY", 0)
           /\ actor' = [actor EXCEPT !.pc = "unfinished"] /\ UNCHANGED laneVars
  BY <1>1, <1>3, CompleteFields DEF ActorTypes, Actors, Queue, Queued, laneVars, Lanes
<1> QED BY <1>2, <1>3 DEF StageFinishes

LEMMA FinalizedFields ==
  ASSUME ActorTypes, Finalized
  PROVE  /\ actor.pc = "finalize" /\ UNCHANGED <<state, ingress, cancels, phase, gone, Lanes>>
         /\ actor'.pc = "publish" /\ actor'.ev = actor.ev /\ actor'.crossed = actor.crossed
         /\ Clean /\ Queued("REPLY", 0)
<1>1. PICK result \in {"ok", "sink"} : Complete(result)
  BY DEF Finalized
<1>2. Clean
  BY <1>1, CompleteFields
<1> QED BY <1>2 DEF Finalized, ActorTypes, Actors, Queue, Queued, laneVars, Lanes, cancelVars

LEMMA ReplyFields ==
  ASSUME ActorTypes, ReplySettles
  PROVE  /\ actor.pc \in {"reply", "publish", "unfinished"} /\ write.at \in {"sent", "unsent"}
         /\ UNCHANGED <<state, ingress, cancels, owner>> /\ Returned
  BY ReturnFields DEF ReplySettles

-----------------------------------------------------------------------------
(* The steps of the actor keep the parts, one part after the other.        *)

LEMMA ReturnedFits == ingress'.accepted = state'.accepted /\ Returned => Fits'
  BY DEF Returned, Fits, Writing, PhasesAt, NoWrite, NoEvent

LEMMA FailedFits ==
  ASSUME ingress'.accepted = state'.accepted, NEW why, NEW yield, Failed(why, yield),
         phase' \in {"Active", "DaemonAbortQueued", "Retired"}
  PROVE  Fits'
  BY DEF Failed, Fits, Writing, PhasesAt, NoWrite, NoEvent

LEMMA LoopedFits ==
  ingress'.accepted = state'.accepted /\ Looped /\ phase \in {"Active", "Retired"} => Fits'
  BY DEF Looped, Goes, Fits, Writing, PhasesAt, NoWrite, NoEvent

LEMMA TurnedFits ==
  ASSUME ingress'.accepted = state'.accepted, NEW s, Turned(s), phase \in {"Active", "Retired"}
  PROVE  Fits'
<1>1. CASE Looped
  BY <1>1, LoopedFits
<1>2. CASE ~Looped
  BY <1>2 DEF Turned, Goes, Queued, Fits, Writing, PhasesAt, NoWrite, NoEvent
<1> QED BY <1>1, <1>2

LEMMA OverFits == ingress'.accepted = state'.accepted /\ HandshakeOver => Fits'
  BY DEF HandshakeOver, Goes, Queued, Fits, Writing, PhasesAt, NoWrite, NoEvent

\* What several parts say of the place the actor is at.
LEMMA PlaceFacts ==
  ASSUME UploadInv, Honest
  PROVE  /\ ActorTypes /\ WireTypes /\ phase \in PhasesAt(actor.pc)
         /\ actor.pc \in {"abort", "waitack", "answer", "cross"} => actor.why # "protocol"
         /\ actor.why # "malformed"
         /\ actor.pc \notin {"faultack", "promote"} /\ phase # "ClientAbortAckSent"
         /\ actor.pc = "ack" => ~NonCancelPending
         /\ deferred = NoEvent
         /\ actor.ev.kind \in {"none", "CANCEL", "DATA", "END", "ABORT", "ACK", "OVERSIZE"}
         /\ ingress.accepted = state.accepted
<1>1. actor.pc = "ack" => ~NonCancelPending
  <2>1. SUFFICES ASSUME actor.pc = "ack" PROVE ~NonCancelPending
    OBVIOUS
  <2>2. reader.ev.kind = "none" /\ reader.ticket = NoTicket
    BY <2>1 DEF Honest, Handshakes, Ticketed, NoEvent
  <2>3. \A i \in DOMAIN term : term[i].kind = "CANCEL"
    BY <2>1 DEF Honest, Handshakes
  <2> QED BY <2>2, <2>3 DEF NonCancelPending, Admitting
<1>2. actor.why # "malformed"
  BY DEF UploadInv, ActorTypes, Actors, Whys
<1>3. /\ deferred = NoEvent
      /\ actor.ev.kind \in {"none", "CANCEL", "DATA", "END", "ABORT", "ACK", "OVERSIZE"}
  BY DEF Honest, RecordsHonest, RecordOk
<1> QED BY <1>1, <1>2, <1>3 DEF UploadInv, Honest, Blameless, Fits

\* The actor keeps its place, the phase and the writer together.
LEMMA ActorFits ==
  ASSUME UploadInv, Honest, Actor, excuse' = "none"
  PROVE  Fits'
<1>1. ActorTypes /\ Fits /\ DataInOrder /\ ingress.accepted = state.accepted
  BY DEF UploadInv, Honest, Fits
<1> USE PlaceFacts
<1>2. CASE OpenSettles
  <2>1. phase \in {"Opening", "Active", "Retired"} /\ actor.ev.kind = "none"
    BY <1>1, <1>2, OpenFields DEF PhasesAt, Fits
  <2>2. write.at = "sent" => phase # "Opening"
    BY <1>2 DEF UploadInv, PhasesAgree
  <2>3. CASE actor'.pc = "done"
    BY <1>1, <1>2, <2>3, OpenFields, ReturnedFits
  <2>4. CASE actor'.pc = "credit"
    BY <1>1, <1>2, <2>1, <2>2, <2>4, OpenFields DEF Fits, PhasesAt, Writing, Queued, NoWrite, Returned
  <2>5. CASE actor'.pc = "reply"
    BY <1>1, <1>2, <2>1, <2>2, <2>5, OpenFields DEF Fits, PhasesAt, Writing, Queued, NoWrite, Returned
  <2> QED BY <1>1, <1>2, <2>3, <2>4, <2>5, OpenFields DEF Returned
<1>3. CASE CreditSettles
  <2>1. phase \in {"Active", "Retired"}
    BY <1>1, <1>3, CreditFields DEF PhasesAt
  <2>2. ingress'.accepted = state'.accepted
    BY <1>1, <1>3, CreditFields DEF ActorTypes, States, Credited
  <2> QED BY <1>1, <1>3, <2>1, <2>2, CreditFields, ReturnedFits, FailedFits, LoopedFits
<1>4. CASE ActorTakes
  <2>1. actor.pc = "next" => phase \in {"Active", "Retired"}
    BY <1>1 DEF PhasesAt
  <2>2. actor.pc = "waitack" => phase \in {"DaemonAbortWaitAck", "AckPending", "Retired"}
    BY <1>1 DEF PhasesAt
  <2>3. write.kind = "none" /\ actor.ev.kind = "none"
    BY <1>1, <1>4, TakeFields DEF Fits, Writing
  <2>4. CASE actor'.pc = actor.pc /\ actor'.ev = actor.ev
    BY <1>1, <1>4, <2>4, TakeFields DEF Fits
  <2>5. CASE actor'.pc = (IF actor.pc = "next" THEN "handle" ELSE "answer") /\ actor'.ev.kind # "none"
    BY <1>1, <1>4, <2>1, <2>2, <2>3, <2>5, TakeFields DEF Fits, PhasesAt, Writing
  <2>6. /\ term # <<>> => Head(term).kind # "none"
        /\ data # <<>> => Head(data).kind # "none"
        /\ deferred # NoEvent => deferred.kind # "none"
    BY SMTT(20), <1>1 DEF ActorTypes, Events, Received, Asked, RecordKinds
  <2> QED BY <1>1, <1>4, <2>4, <2>5, <2>6, TakeFields
<1>5. CASE ActorIdles
  <2>1. phase \in {"Active", "Retired"}
    BY <1>1, <1>5, IdleFields DEF PhasesAt
  <2> QED BY <1>1, <1>5, <2>1, IdleFields, ReturnedFits, FailedFits
<1>6. CASE HandleFault \/ HandleCancel \/ HandleData \/ HandleEnd \/ HandleAbort
  <2>0. actor.pc = "handle"
    BY <1>6 DEF HandleFault, HandleCancel, HandleData, HandleEnd, HandleAbort, handling
  <2>1. phase \in {"Active", "Retired"} /\ write.kind = "none"
    BY <1>1, <2>0 DEF PhasesAt, Fits, Writing
  <2>2. CASE HandleFault
    BY <1>1, <2>1, <2>2, FaultFields, FailedFits
  <2>3. CASE HandleCancel
    <3>1. CASE Goes("record")
      BY <1>1, <2>1, <2>3, <3>1, CancelFields DEF Goes, Fits, PhasesAt, Writing, NoEvent, Turned, Looped
    <3> QED BY <1>1, <2>1, <2>3, <3>1, CancelFields, TurnedFits
  <2>4. CASE HandleData
    <3>1. CASE actor'.pc = "stage"
      <4>1. state'.accepted = state.accepted
        BY <1>1, <2>4, <3>1, DataFields DEF ActorTypes, States, Failed
      <4> QED BY <1>1, <2>1, <2>4, <3>1, <4>1, DataFields DEF Fits, PhasesAt, Writing, Failed
    <3> QED BY <1>1, <2>1, <2>4, <3>1, DataFields, FailedFits
  <2>5. CASE HandleEnd
    <3>1. CASE Goes("finish") /\ phase' = "Finalizing" /\ ingress' = [ingress EXCEPT !.accepted = state.accepted]
      <4>1. ingress'.accepted = state.accepted
        BY <3>1 DEF WireTypes, Ingresses
      <4> QED BY <1>1, <2>1, <2>5, <3>1, <4>1, EndFields DEF Goes, Fits, PhasesAt, Writing, NoEvent, Failed
    <3> QED BY <1>1, <2>1, <2>5, <3>1, EndFields, FailedFits
  <2>6. CASE HandleAbort
    <3>1. CASE Goes("ack") /\ phase' = "ClientAbortPending"
      BY <1>1, <2>1, <2>6, <3>1, AbortFields DEF Goes, Fits, PhasesAt, Writing, NoEvent, Queued, Failed, Returned
    <3> QED BY <1>1, <2>1, <2>6, <3>1, AbortFields, FailedFits, ReturnedFits
  <2> QED BY <1>6, <2>2, <2>3, <2>4, <2>5, <2>6
<1>7. CASE CancelRecords
  <2>1. phase \in {"DaemonAbortQueued", "Retired"}
    BY <1>1, <1>7, RecordFields DEF PhasesAt
  <2> QED BY <1>1, <1>7, <2>1, RecordFields, FailedFits
<1>8. CASE StageInterrupted
  <2>1. phase \in {"Active", "Retired"}
    BY <1>1, <1>8, InterruptFields DEF PhasesAt
  <2> QED BY <1>1, <1>8, <2>1, InterruptFields, TurnedFits, FailedFits, ReturnedFits
<1>9. CASE StageCompletes
  <2>1. phase \in {"Active", "Retired"} /\ write.kind = "none"
    BY <1>1, <1>9, StageFields DEF PhasesAt, Fits, Writing
  <2>2. CASE actor'.pc = "commit"
    <3>1. state'.accepted = state.accepted /\ actor.ev.off = state.accepted /\ actor.ev.kind = "DATA"
      BY <1>1, <1>9, <2>2, StageFields DEF ActorTypes, States, Failed, DataInOrder
    <3> QED BY <1>1, <1>9, <2>1, <2>2, <3>1, StageFields DEF Fits, PhasesAt, Writing, Failed
  <2> QED BY <1>1, <1>9, <2>1, <2>2, StageFields, FailedFits
<1>10. CASE CommitAccepted
  <2>1. phase \in {"Active", "Retired"}
    BY <1>1, <1>10, CommitFields DEF PhasesAt
  <2>2. ingress'.accepted = state'.accepted
    BY <1>1, <1>10, CommitFields DEF WireTypes, Ingresses
  <2> QED BY <1>1, <1>10, <2>1, <2>2, CommitFields, TurnedFits, FailedFits, ReturnedFits
<1>11. CASE SelectDaemonAbort
  <2>1. phase \in {"Active", "DaemonAbortQueued", "Retired"} /\ actor.ev.kind = "none"
    BY <1>1, <1>11, SelectFields DEF PhasesAt, Fits
  <2>2. CASE actor'.pc = "abort"
    BY <1>1, <1>11, <2>1, <2>2, SelectFields DEF Fits, PhasesAt, Writing, Queued, Looped, Goes, Returned
  <2> QED BY <1>1, <1>11, <2>1, <2>2, SelectFields, LoopedFits, ReturnedFits
<1>12. CASE AbortSettles
  <2>0. actor.pc = "abort"
    BY <1>12 DEF AbortSettles
  <2>1. /\ actor.ev.kind = "none"
        /\ write.at = "sent" => phase \in {"DaemonAbortWaitAck", "AckPending", "Retired"}
    BY <1>1, <2>0 DEF PhasesAt, Fits
  <2>2. CASE actor'.pc = "waitack"
    BY <1>1, <1>12, <2>0, <2>1, <2>2, AbortSettlesFields DEF Fits, PhasesAt, Writing, NoWrite, Returned
  <2> QED BY <1>1, <1>12, <2>0, <2>1, <2>2, AbortSettlesFields, ReturnedFits
<1>13. CASE ActorWaitsForAck
  <2>1. actor.pc \in {"answer", "waitack", "cross"} /\ actor.why # "protocol"
    BY <1>1, <1>13 DEF ActorWaitsForAck, AnswerAck, AnswerCrossedAbort, AnswerCancel, AnswerOther,
       CrossedAckSettles, HandshakeAbandoned
  <2>2. phase \in {"DaemonAbortWaitAck", "AckPending", "Retired"}
    BY <1>1, <2>1 DEF PhasesAt
  <2>3. CASE HandshakeOver
    BY <1>1, <1>13, <2>1, <2>3, WaitFields, OverFits
  <2>4. CASE ~HandshakeOver
    <3>1. UNCHANGED <<ingress, state, phase>> /\ actor'.pc \in {"cross", "waitack"}
      BY <1>1, <1>13, <2>1, <2>4, WaitFields DEF Goes
    <3>2. actor'.ev.kind = "none"
      <4>1. actor.pc = "cross" => actor.ev.kind = "none"
        BY <1>1 DEF Fits
      <4> QED BY <1>1, <1>13, <2>1, <2>4, <4>1, WaitFields DEF Goes, NoEvent
    <3>3. write'.kind = IF actor'.pc = "cross" THEN "ACK" ELSE "none"
      <4>1. actor.pc = "answer" => write.kind = "none"
        BY <1>1 DEF Fits, Writing
      <4> QED BY <1>1, <1>13, <2>1, <2>4, <4>1, WaitFields DEF Goes, NoWrite, Queued
    <3> QED BY <1>1, <2>2, <3>1, <3>2, <3>3 DEF Fits, PhasesAt, Writing
  <2> QED BY <2>3, <2>4
<1>14. CASE FinalAckSettles
  <2>1. actor.ev.kind = "none" /\ actor.pc = "ack"
    BY <1>1, <1>14, FinalAckFields DEF Fits
  <2>2. CASE actor'.pc = "reply"
    BY <1>1, <1>14, <2>1, <2>2, FinalAckFields DEF Fits, PhasesAt, Writing, Queued, Returned
  <2> QED BY <1>1, <1>14, <2>1, <2>2, FinalAckFields, ReturnedFits
<1>15. CASE FaultAckSettles \/ Promote
  BY <1>15 DEF FaultAckSettles, Promote
<1>16. CASE StageFinishes \/ Finalized
  <2>1. phase = "Finalizing" /\ write.kind = "none" /\ actor.ev.kind = "none"
    BY <1>1, <1>16, FinishFields, FinalizedFields DEF Fits, PhasesAt, Writing
  <2> QED BY <1>1, <1>16, <2>1, FinishFields, FinalizedFields DEF Fits, PhasesAt, Writing, Queued
<1>17. CASE ReplySettles
  BY <1>1, <1>17, ReplyFields, ReturnedFits
<1> QED BY <1>2, <1>3, <1>4, <1>5, <1>6, <1>7, <1>8, <1>9, <1>10, <1>11, <1>12, <1>13, <1>14, <1>15,
           <1>16, <1>17 DEF Actor

\* What the client was granted lies within what was accepted.
LEMMA GrantFacts ==
  ASSUME UploadInv, UploadAssumption, Honest, NEW h \in Grants
  PROVE  /\ h[1] \in Nat /\ h[2] \in Nat /\ h[1] <= state.accepted
         /\ h[2] = CreditAt(h[1]) /\ state.accepted <= Declared
         /\ h[2] <= ingress.served
<1>1. /\ state.accepted \in Nat /\ state.credited \in Nat /\ state.through \in Nat
      /\ state.history \subseteq Nat \X Nat /\ ingress.received \in Nat
      /\ state.accepted <= Declared /\ Declared \in Nat /\ Window \in Nat
  BY DEF UploadInv, ActorTypes, States, WireTypes, Ingresses, DataInOrder, UploadAssumption
<1>2. CASE h \in state.history
  <2>1. /\ h[2] = CreditAt(h[1]) /\ h[1] <= state.credited /\ state.credited <= state.accepted
        /\ state.through = CreditAt(state.credited)
    BY <1>2 DEF Honest, CreditsKept
  <2>2. h[1] \in Nat /\ h[2] \in Nat
    BY <1>1, <1>2
  <2>3. CreditAt(h[1]) <= CreditAt(state.credited)
    BY <1>1, <2>1, <2>2 DEF CreditAt, Lesser
  <2>4. CreditAt(state.credited) <= CreditAt(state.accepted) /\ CreditAt(state.accepted) \in Nat
        /\ CreditAt(state.credited) \in Nat
    BY <1>1, <2>1 DEF CreditAt, Lesser
  <2>5. ingress.served \in {state.through, CreditAt(state.accepted)}
    BY DEF Honest, CreditsKept, CreditOut
  <2> QED BY <1>1, <2>1, <2>2, <2>3, <2>4, <2>5
<1>3. CASE CreditOut /\ h = <<state.accepted, write.n>>
  <2>1. write.n = CreditAt(state.accepted) /\ ingress.served = write.n
    BY <1>3 DEF Honest, CreditsKept, CreditOut
  <2>2. CreditAt(state.accepted) \in Nat
    BY <1>1 DEF CreditAt, Lesser
  <2> QED BY <1>1, <1>3, <2>1, <2>2
<1> QED BY <1>2, <1>3 DEF Grants

\* After END nothing is left to accept.
LEMMA Drained ==
  ASSUME UploadInv, UploadAssumption, Honest, client.ended
  PROVE  /\ client.sent = state.accepted /\ ingress.received = state.accepted
         /\ state.staged = state.accepted
         /\ data = <<>> /\ reader.ev.kind # "DATA" /\ actor.ev.kind # "DATA"
         /\ actor.pc \notin {"stage", "commit"} /\ PendingData = 0
<1>1. /\ state.accepted \in Nat /\ state.staged \in Nat /\ client.sent \in Nat
      /\ ingress.received \in Nat
  BY DEF UploadInv, ActorTypes, States, WireTypes, Ingresses, Clients
<1>2. client.accepted <= state.accepted
  <2>1. <<client.accepted, client.through>> \in Grants
    BY DEF Honest, CreditsSeen
  <2> QED BY <2>1, GrantFacts
<1>3. client.accepted = client.sent /\ ingress.received <= client.sent
  BY DEF Honest, CreditsSeen, RecordsHonest
<1>4. state.accepted <= state.staged /\ state.staged <= ingress.received
  BY DEF UploadInv, DataInOrder
<1>5. client.sent = state.accepted /\ ingress.received = state.accepted /\ state.staged = state.accepted
  BY <1>1, <1>2, <1>3, <1>4
<1>6. ASSUME NEW e, e \in Events, e.kind = "DATA", Datum(e), Waits(e) PROVE FALSE
  <2>1. e.off \in Nat /\ e.n \in Nat
    BY <1>6 DEF Events, Received, Asked
  <2> QED BY <1>1, <1>5, <1>6, <2>1 DEF Datum, Waits
<1>7. data = <<>>
  <2>1. SUFFICES ASSUME data # <<>> PROVE FALSE
    OBVIOUS
  <2>2. data \in Seq(Events)
    BY DEF UploadInv, ActorTypes
  <2>3. 1 \in DOMAIN data /\ data[1] \in Events
    BY <2>1, <2>2
  <2>4. data[1].kind = "DATA" /\ Waits(data[1])
    BY <2>3 DEF UploadInv, DataInOrder
  <2>5. Datum(data[1])
    BY <2>3 DEF Honest, RecordsHonest
  <2> QED BY <1>6, <2>3, <2>4, <2>5
<1>8. reader.ev.kind # "DATA"
  BY DEF Honest, RecordsHonest
<1>9. ~InHand /\ actor.pc \notin {"stage", "commit"}
  <2>1. Datum(actor.ev)
    BY DEF Honest, RecordsHonest
  <2>2. actor.ev.kind = "DATA" => actor.ev \in Events
    BY DEF UploadInv, ActorTypes, Actors, NoEvent
  <2>3. ~InHand
    BY <1>6, <2>1, <2>2 DEF UploadInv, DataInOrder, InHand
  <2>4. actor.pc # "stage"
    BY <2>3 DEF UploadInv, DataInOrder, InHand
  <2>5. actor.pc # "commit"
    <3>1. SUFFICES ASSUME actor.pc = "commit" PROVE FALSE
      OBVIOUS
    <3>2. actor.ev.kind = "DATA" /\ actor.ev.off + actor.ev.n = state.staged
      BY <3>1 DEF UploadInv, DataInOrder
    <3>3. actor.ev.off = state.accepted
      BY <3>1 DEF Honest, Fits
    <3>4. actor.ev.n \in Nat /\ actor.ev.n >= 1
      BY <2>1, <2>2, <3>2 DEF Datum, Events, Received, Asked
    <3> QED BY <1>1, <1>5, <3>2, <3>3, <3>4
  <2> QED BY <2>3, <2>4, <2>5
<1>10. actor.ev.kind # "DATA"
  BY <1>9 DEF Honest, Fits, InHand
<1> QED BY <1>5, <1>7, <1>8, <1>9, <1>10 DEF PendingData

-----------------------------------------------------------------------------
(* What no step of the actor undoes.                                       *)

\* What no step of the actor touches.
LEMMA ActorLeaves == Actor => UNCHANGED <<order, reader, client, down>>
  BY DEF Actor, actorFrame, clientVars, OpenSettles, CreditSettles, ActorTakes, ActorIdles, HandleFault,
     HandleCancel, CancelRecords, HandleData, HandleEnd, HandleAbort, StageInterrupted, StageCompletes,
     CommitAccepted, SelectDaemonAbort, AbortSettles, ActorWaitsForAck, FinalAckSettles,
     FaultAckSettles, Promote, StageFinishes, Finalized, ReplySettles

LEMMA ReturnedForward == Returned /\ IngressStays => Forward
  BY DEF Returned, Forward, PhaseForward, LanesDrain, IngressStays

LEMMA FailedForward ==
  ASSUME NEW why, NEW yield, Failed(why, yield), UNCHANGED <<gone, Lanes>>, PhaseForward,
         deferred = NoEvent, IngressStays
  PROVE  Forward
  BY DEF Failed, Forward, LanesDrain, Lanes

LEMMA TurnedForward ==
  ASSUME NEW s, Turned(s), deferred = NoEvent, IngressStays
  PROVE  Forward
  BY DEF Turned, Looped, Goes, Forward, PhaseForward, LanesDrain

LEMMA OverForward ==
  HandshakeOver /\ UNCHANGED <<gone, ingress, Lanes>> /\ deferred = NoEvent => Forward
  BY DEF HandshakeOver, Goes, Forward, PhaseForward, LanesDrain, IngressStays, Lanes

\* Every step of the actor goes forward.
LEMMA ActorForward ==
  ASSUME UploadInv, UploadAssumption, Honest, Actor, excuse' = "none"
  PROVE  Forward
<1>1. ActorTypes /\ WireTypes /\ deferred = NoEvent
  BY PlaceFacts
<1>2. ingress' = ingress => IngressStays
  BY DEF IngressStays
<1>3. phase' = phase => PhaseForward
  BY DEF PhaseForward
<1>4. CASE OpenSettles
  <2>1. CASE Returned
    BY <1>1, <1>2, <1>4, <2>1, OpenFields, ReturnedForward
  <2>2. CASE ~Returned
    BY <1>1, <1>2, <1>4, <2>2, OpenFields DEF Forward, PhaseForward, LanesDrain, Lanes
  <2> QED BY <2>1, <2>2
<1>5. CASE CreditSettles
  <2>1. CASE Looped
    BY <1>1, <1>2, <1>5, <2>1, CreditFields DEF Looped, Goes, Forward, PhaseForward, LanesDrain
  <2> QED BY <1>1, <1>2, <1>3, <1>5, <2>1, CreditFields, ReturnedForward, FailedForward
<1>6. CASE ActorTakes
  <2>1. IngressStays /\ PhaseForward /\ gone' = gone /\ actor.pc \in {"next", "waitack"}
    BY <1>1, <1>2, <1>3, <1>6, TakeFields
  <2>2. LanesDrain
    <3>1. ~(PendingData # 0 /\ term # <<>> /\ Head(term).kind = "END")
      <4>1. SUFFICES ASSUME term # <<>>, Head(term).kind = "END" PROVE PendingData = 0
        OBVIOUS
      <4>2. 1 \in DOMAIN term /\ Head(term) = term[1]
        BY <1>1, <4>1 DEF ActorTypes
      <4>3. client.ended
        BY <4>1, <4>2 DEF Honest, RecordsHonest, RecordOk, Waiting
      <4> QED BY <4>3, Drained
    <3>4. ASSUME NEW e, Hold(e)
          PROVE  actor'.pc = IF actor.pc = "next" THEN "handle" ELSE "answer"
      BY <1>1, <3>4 DEF Hold, ActorTypes, Actors
    <3>2. CASE term # <<>> /\ actor'.ev = Head(term)
      BY <1>1, <1>6, <2>1, <3>1, <3>2, <3>4 DEF ActorTakes, TakeTerminal, TakeDeferred, TakeData, LanesDrain
    <3>3. CASE ~(term # <<>> /\ actor'.ev = Head(term))
      <4>1. TakeData
        <5>1. CASE TakeTerminal
          <6>1. Hold(Head(term)) /\ term # <<>>
            BY <3>1, <5>1 DEF TakeTerminal
          <6>2. actor'.ev = Head(term)
            BY <1>1, <6>1 DEF Hold, ActorTypes, Actors
          <6> QED BY <3>3, <6>1, <6>2
        <5> QED BY <1>1, <1>6, <5>1 DEF ActorTakes, TakeDeferred
      <4>2. actor'.ev = Head(data)
        BY <1>1, <4>1 DEF TakeData, Hold, ActorTypes, Actors
      <4> QED BY <1>1, <2>1, <3>4, <4>1, <4>2 DEF TakeData, LanesDrain
    <3> QED BY <3>2, <3>3
  <2> QED BY <2>1, <2>2 DEF Forward
<1>7. CASE ActorIdles
  BY <1>1, <1>2, <1>3, <1>7, IdleFields, ReturnedForward, FailedForward
<1>8. CASE HandleFault
  BY <1>1, <1>2, <1>3, <1>8, FaultFields, FailedForward
<1>9. CASE HandleCancel
  <2>1. CASE Goes("record")
    BY <1>1, <1>2, <1>9, <2>1, CancelFields DEF Goes, Forward, PhaseForward, LanesDrain, Lanes, Turned, Looped
  <2> QED BY <1>1, <1>2, <1>9, <2>1, CancelFields, TurnedForward
<1>10. CASE CancelRecords
  BY <1>1, <1>2, <1>3, <1>10, RecordFields, FailedForward
<1>11. CASE HandleData
  <2>1. CASE actor'.pc = "stage"
    BY <1>1, <1>2, <1>11, <2>1, DataFields DEF Forward, PhaseForward, LanesDrain, Lanes, Failed
  <2> QED BY <1>1, <1>2, <1>3, <1>11, <2>1, DataFields, FailedForward
<1>12. CASE StageInterrupted
  BY <1>1, <1>2, <1>3, <1>12, InterruptFields, TurnedForward, ReturnedForward, FailedForward
<1>13. CASE StageCompletes
  <2>1. CASE actor'.pc = "commit"
    BY <1>1, <1>2, <1>13, <2>1, StageFields DEF Forward, PhaseForward, LanesDrain, Lanes, Failed
  <2> QED BY <1>1, <1>2, <1>3, <1>13, <2>1, StageFields, FailedForward
<1>14. CASE CommitAccepted
  <2>1. ingress' = [ingress EXCEPT !.accepted = state'.accepted] => IngressStays
    BY <1>1 DEF WireTypes, Ingresses, IngressStays
  <2>2. actor.pc = "commit" => phase \in {"Active", "Retired"}
    BY PlaceFacts DEF PhasesAt
  <2>3. actor.pc = "commit" /\ phase' \in {phase, "DaemonAbortQueued"} /\ ~Closed => PhaseForward
    BY <2>2 DEF PhaseForward, Closed
  <2> QED BY <1>1, <1>2, <1>14, <2>1, <2>3, CommitFields, TurnedForward, ReturnedForward, FailedForward
<1>15. CASE HandleEnd
  <2>1. ingress' = [ingress EXCEPT !.accepted = actor.ev.n] => IngressStays
    BY <1>1 DEF WireTypes, Ingresses, IngressStays
  <2>2. CASE Goes("finish") /\ phase = "Active" /\ phase' = "Finalizing"
    BY <1>1, <1>15, <2>1, <2>2, EndFields DEF Goes, Forward, PhaseForward, LanesDrain, Lanes, Failed
  <2> QED BY <1>1, <1>2, <1>3, <1>15, <2>2, EndFields, FailedForward
<1>16. CASE HandleAbort
  <2>1. CASE Goes("ack")
    BY <1>1, <1>2, <1>16, <2>1, AbortFields DEF Goes, Forward, PhaseForward, LanesDrain, Failed, Returned
  <2> QED BY <1>1, <1>2, <1>3, <1>16, <2>1, AbortFields, ReturnedForward, FailedForward
<1>17. CASE SelectDaemonAbort
  <2>1. CASE actor'.pc = "abort"
    BY <1>1, <1>2, <1>17, <2>1, SelectFields DEF Forward, PhaseForward, LanesDrain, Lanes, Looped, Goes, Returned
  <2>2. CASE Looped
    BY <1>1, <1>2, <1>17, <2>2, SelectFields DEF Looped, Goes, Forward, PhaseForward, LanesDrain
  <2> QED BY <1>1, <1>2, <1>17, <2>1, <2>2, SelectFields, ReturnedForward
<1>18. CASE AbortSettles
  <2>0. actor.why # "protocol" /\ actor.why # "malformed"
    BY <1>18, PlaceFacts DEF AbortSettles
  <2>1. CASE actor'.pc = "waitack"
    BY <1>1, <1>2, <1>18, <2>0, <2>1, AbortSettlesFields DEF Forward, PhaseForward, LanesDrain, Lanes, Returned
  <2> QED BY <1>1, <1>2, <1>18, <2>0, <2>1, AbortSettlesFields, ReturnedForward
<1>19. CASE ActorWaitsForAck
  <2>1. actor.why # "protocol"
    <3>1. actor.pc \in {"answer", "waitack", "cross"}
      BY <1>19 DEF ActorWaitsForAck, AnswerAck, AnswerCrossedAbort, AnswerCancel, AnswerOther,
         CrossedAckSettles, HandshakeAbandoned
    <3> QED BY <3>1, PlaceFacts
  <2>2. CASE HandshakeOver
    BY <1>1, <1>19, <2>1, <2>2, WaitFields, OverForward
  <2>3. CASE ~HandshakeOver
    BY <1>1, <1>2, <1>19, <2>1, <2>3, WaitFields DEF Goes, Forward, PhaseForward, LanesDrain, Lanes
  <2> QED BY <2>2, <2>3
<1>20. CASE FinalAckSettles
  <2>1. CASE ~Returned
    BY <1>1, <1>2, <1>20, <2>1, FinalAckFields DEF Forward, PhaseForward, LanesDrain, Lanes
  <2> QED BY <1>1, <1>2, <1>20, <2>1, FinalAckFields, ReturnedForward
<1>21. CASE FaultAckSettles \/ Promote
  BY <1>21, PlaceFacts DEF FaultAckSettles, Promote
<1>22. CASE StageFinishes \/ Finalized
  BY <1>1, <1>2, <1>22, FinishFields, FinalizedFields DEF Forward, PhaseForward, LanesDrain, Lanes
<1>23. CASE ReplySettles
  BY <1>1, <1>2, <1>23, ReplyFields, ReturnedForward
<1> QED BY <1>4, <1>5, <1>6, <1>7, <1>8, <1>9, <1>10, <1>11, <1>12, <1>13, <1>14, <1>15,
           <1>16, <1>17, <1>18, <1>19, <1>20, <1>21, <1>22, <1>23 DEF Actor

-----------------------------------------------------------------------------
(* Tickets, and what the client was granted.                               *)

LEMMA OneTicket ==
  ASSUME CancelShape, NEW c, NEW at, MovesTo(c, at), at = "lane" => cancels[c].at = at
  PROVE  TicketsStay
  BY AtMoves DEF TicketsStay

LEMMA SomeTickets ==
  ASSUME CancelShape, NEW D,
         cancels' = [c \in Cancellers |->
           IF c \in D THEN [cancels[c] EXCEPT !.at = "cancelled"] ELSE cancels[c]]
  PROVE  TicketsStay
<1>1. \A c \in Cancellers : [cancels[c] EXCEPT !.at = "cancelled"]
                             = [at |-> "cancelled", ticket |-> cancels[c].ticket, late |-> cancels[c].late]
  BY CancelRecord, RecordAt
<1> QED BY <1>1 DEF TicketsStay

\* The actor leaves the tickets as they are.
LEMMA ActorTickets ==
  ASSUME UploadInv, Honest, Actor, excuse' = "none"
  PROVE  TicketsStay
<1>1. ActorTypes /\ CancelShape
  BY DEF UploadInv, WireTypes
<1>2. CASE HandleCancel \/ HandleFault
  <2>1. \/ UNCHANGED cancels
        \/ \E at : MovesTo(actor.ev.from, at) /\ (at = "lane" => cancels[actor.ev.from].at = at)
    BY <1>1, <1>2, CancelFields, FaultFields
  <2> QED BY <1>1, <2>1, OneTicket DEF TicketsStay
<1>3. CASE SelectDaemonAbort
  <2>1. CASE UNCHANGED cancels
    BY <2>1 DEF TicketsStay
  <2>2. CASE ~UNCHANGED cancels
    <3>1. PICK D : cancels' = [c \in Cancellers |->
                     IF c \in D THEN [cancels[c] EXCEPT !.at = "cancelled"] ELSE cancels[c]]
      BY <1>1, <1>3, <2>2, SelectFields
    <3> QED BY <1>1, <3>1, SomeTickets
  <2> QED BY <2>1, <2>2
<1>4. CASE ActorWaitsForAck
  <2>1. actor.why # "protocol"
    <3>1. actor.pc \in {"answer", "waitack", "cross"}
      BY <1>4 DEF ActorWaitsForAck, AnswerAck, AnswerCrossedAbort, AnswerCancel, AnswerOther,
         CrossedAckSettles, HandshakeAbandoned
    <3> QED BY <3>1, PlaceFacts
  <2>2. \/ UNCHANGED cancels
        \/ \E at : MovesTo(actor.ev.from, at) /\ (at = "lane" => cancels[actor.ev.from].at = at)
    BY <1>1, <1>4, <2>1, WaitFields
  <2> QED BY <1>1, <2>2, OneTicket DEF TicketsStay
<1>5. CASE FaultAckSettles \/ Promote
  BY <1>5, PlaceFacts DEF FaultAckSettles, Promote
<1>6. ASSUME ~HandleCancel, ~HandleFault, ~SelectDaemonAbort, ~ActorWaitsForAck, ~FaultAckSettles, ~Promote
      PROVE  UNCHANGED cancels
  BY <1>6 DEF Actor, cancelVars, OpenSettles, CreditSettles, ActorTakes, ActorIdles,
     CancelRecords, HandleData, HandleEnd, HandleAbort, StageInterrupted, StageCompletes,
     CommitAccepted, AbortSettles, FinalAckSettles, StageFinishes, Finalized, ReplySettles
<1> QED BY <1>2, <1>3, <1>4, <1>5, <1>6 DEF TicketsStay

-----------------------------------------------------------------------------
(* The bytes and the credits of the actor.                                 *)

\* A later credit is not smaller.
LEMMA CreditGrows ==
  ASSUME UploadAssumption, NEW a \in Nat, NEW b \in Nat, a <= b, b <= Declared
  PROVE  CreditAt(a) \in Nat /\ CreditAt(b) \in Nat /\ CreditAt(a) <= CreditAt(b)
  BY DEF UploadAssumption, CreditAt, Lesser

\* The actor's steps move the bytes accepted, the credits and the writer so.
LEMMA ActorBytes ==
  ASSUME UploadInv, UploadAssumption, Honest, Actor, excuse' = "none"
  PROVE  StateMoves /\ CreditSettled
<1>1. ActorTypes /\ WireTypes /\ write.kind = Writing(actor.pc)
  BY PlaceFacts DEF Honest, Fits
<1>2. actor.pc # "credit" => write.kind # "CREDIT" /\ ~CreditOut
  BY <1>1 DEF Writing, CreditOut
<1>3. ASSUME NEW s, Turned(s), state' = s PROVE CreditSettled \/ CreditOut
  BY <1>3 DEF Turned, Looped, Queued, NoWrite, CreditSettled, CreditOut, NextCredit, CreditAt
<1>4. write' = NoWrite => CreditSettled \/ CreditOut
  BY DEF NoWrite, CreditSettled, CreditOut
<1>5. ASSUME NEW k, k # "CREDIT", Queued(k, 0) PROVE CreditSettled \/ CreditOut
  BY <1>5 DEF Queued, CreditSettled, CreditOut
<1>6. write' = write /\ actor.pc # "credit" => CreditSettled \/ CreditOut
  BY <1>2 DEF CreditSettled, CreditOut
<1>7. ASSUME NEW why, NEW yield, Failed(why, yield) PROVE CreditSettled \/ CreditOut
  BY <1>4, <1>7 DEF Failed
<1>8. Returned => CreditSettled \/ CreditOut
  BY <1>4 DEF Returned
<1>9. state' = state => StateMoves
  BY DEF StateMoves
<1>10. CASE OpenSettles
  <2>1. Queued("CREDIT", NextCredit(state)) /\ state' = state => CreditSettled \/ CreditOut
    BY DEF Queued, CreditSettled, CreditOut, NextCredit, CreditAt
  <2> QED BY <1>1, <1>2, <1>5, <1>8, <1>9, <1>10, <2>1, OpenFields
<1>11. CASE CreditSettles
  <2>1. write' = NoWrite
    BY <1>1, <1>11, CreditFields DEF Looped, Returned, Failed
  <2>2. CreditOut => write.at = "sent"
    BY <1>1, <1>11, CreditFields DEF CreditOut
  <2>3. write.at = "sent" => CreditOut
    BY <1>1, <1>11, CreditFields DEF CreditOut, Writing
  <2>4. StateMoves
    BY <1>1, <1>11, <2>3, CreditFields DEF StateMoves
  <2>5. ~CreditOut' /\ write'.kind # "CREDIT"
    BY <2>1 DEF CreditOut, NoWrite
  <2>6. CreditOut => state' = Credited(state)
    BY <1>1, <1>11, <2>2, CreditFields
  <2> QED BY <2>4, <2>5, <2>6 DEF CreditSettled
<1>12. CASE ActorTakes
  BY <1>1, <1>2, <1>6, <1>9, <1>12, TakeFields
<1>13. CASE ActorIdles
  BY <1>1, <1>2, <1>7, <1>8, <1>9, <1>13, IdleFields
<1>14. CASE HandleFault
  BY <1>1, <1>2, <1>7, <1>9, <1>14, FaultFields
<1>15. CASE HandleCancel
  BY <1>1, <1>2, <1>3, <1>6, <1>9, <1>15, CancelFields
<1>16. CASE CancelRecords
  BY <1>1, <1>2, <1>7, <1>9, <1>16, RecordFields
<1>17. CASE HandleData
  BY <1>1, <1>2, <1>6, <1>7, <1>9, <1>17, DataFields DEF StateMoves
<1>18. CASE StageInterrupted
  BY <1>1, <1>2, <1>3, <1>7, <1>8, <1>9, <1>18, InterruptFields
<1>19. CASE StageCompletes
  BY <1>1, <1>2, <1>6, <1>7, <1>9, <1>19, StageFields DEF StateMoves
<1>20. CASE CommitAccepted
  BY <1>1, <1>2, <1>3, <1>7, <1>8, <1>9, <1>20, CommitFields DEF StateMoves
<1>21. CASE HandleEnd
  BY <1>1, <1>2, <1>6, <1>7, <1>9, <1>21, EndFields
<1>22. CASE HandleAbort
  BY <1>1, <1>2, <1>5, <1>7, <1>8, <1>9, <1>22, AbortFields
<1>23. CASE SelectDaemonAbort
  <2>1. Looped => CreditSettled \/ CreditOut
    BY <1>4 DEF Looped
  <2> QED BY <1>1, <1>2, <1>5, <1>8, <1>9, <1>23, <2>1, SelectFields
<1>24. CASE AbortSettles
  <2>0. actor.why # "protocol" /\ actor.why # "malformed"
    BY <1>24, PlaceFacts DEF AbortSettles
  <2> QED BY <1>1, <1>2, <1>4, <1>8, <1>9, <1>24, <2>0, AbortSettlesFields
<1>25. CASE ActorWaitsForAck
  <2>0. actor.pc \in {"answer", "waitack", "cross"} /\ actor.why # "protocol"
    <3>1. actor.pc \in {"answer", "waitack", "cross"}
      BY <1>25 DEF ActorWaitsForAck, AnswerAck, AnswerCrossedAbort, AnswerCancel, AnswerOther,
         CrossedAckSettles, HandshakeAbandoned
    <3> QED BY <3>1, PlaceFacts
  <2>1. HandshakeOver => CreditSettled \/ CreditOut
    BY <1>5 DEF HandshakeOver
  <2> QED BY <1>1, <1>2, <1>4, <1>5, <1>6, <1>9, <1>25, <2>0, <2>1, WaitFields
<1>26. CASE FinalAckSettles
  BY <1>1, <1>2, <1>4, <1>5, <1>8, <1>9, <1>26, FinalAckFields
<1>27. CASE FaultAckSettles \/ Promote
  BY <1>27, PlaceFacts DEF FaultAckSettles, Promote
<1>28. CASE StageFinishes \/ Finalized
  BY <1>1, <1>2, <1>5, <1>6, <1>9, <1>28, FinishFields, FinalizedFields
<1>29. CASE ReplySettles
  BY <1>1, <1>2, <1>8, <1>9, <1>29, ReplyFields
<1> QED BY <1>10, <1>11, <1>12, <1>13, <1>14, <1>15,
           <1>16, <1>17, <1>18, <1>19, <1>20, <1>21, <1>22, <1>23, <1>24, <1>25, <1>26, <1>27,
           <1>28, <1>29 DEF Actor

\* What StateMoves says, field by field.
LEMMA StateFields ==
  ASSUME state \in States, StateMoves
  PROVE  /\ \/ state'.accepted = state.accepted
            \/ actor.pc = "commit" /\ state'.accepted = actor.ev.off + actor.ev.n
         /\ state'.accepted # state.accepted => ~CreditOut
         /\ ~CreditOut => /\ state'.credited = state.credited /\ state'.through = state.through
                          /\ state'.history \subseteq state.history
         /\ \/ state'.history = state.history
            \/ CreditOut /\ state' = Credited(state)
            \/ /\ ~CreditOut /\ actor.ev.kind = "DATA" /\ actor.pc = "handle"
               /\ state'.history = {h \in state.history : h[2] >= actor.ev.off + actor.ev.n}
<1>1. CASE state' = state
  BY <1>1
<1>2. CASE CreditOut /\ state' = Credited(state)
  BY <1>2 DEF Credited, States
<1>3. CASE /\ ~CreditOut /\ actor.ev.kind = "DATA" /\ actor.pc = "handle"
           /\ state' = [state EXCEPT !.history = {h \in @ : h[2] >= actor.ev.off + actor.ev.n}]
  BY <1>3 DEF States
<1>4. CASE ~CreditOut /\ state' = [state EXCEPT !.staged = @ + actor.ev.n]
  BY <1>4 DEF States
<1>5. CASE /\ ~CreditOut /\ actor.pc = "commit"
           /\ state' = [state EXCEPT !.accepted = actor.ev.off + actor.ev.n]
  BY <1>5 DEF States
<1> QED BY <1>1, <1>2, <1>3, <1>4, <1>5 DEF StateMoves

\* What settling a CREDIT does, field by field.
LEMMA CreditedFields ==
  ASSUME state \in States, state' = Credited(state)
  PROVE  /\ state'.accepted = state.accepted /\ state'.credited = state.accepted
         /\ state'.through = write.n
         /\ state'.history = state.history \cup {<<state.accepted, write.n>>}
  BY DEF Credited, States

\* The bytes accepted do not shrink.
LEMMA AcceptedGrows ==
  ASSUME UploadInv, Honest, StateMoves
  PROVE  state'.accepted >= state.accepted
<1>1. state \in States /\ state.accepted \in Nat
  BY DEF UploadInv, ActorTypes, States
<1>2. actor.pc = "commit" => actor.ev.off = state.accepted /\ actor.ev.kind = "DATA"
  BY DEF UploadInv, DataInOrder, Honest, Fits
<1>3. actor.pc = "commit" => actor.ev.n \in Nat /\ actor.ev.off \in Nat
  BY <1>2 DEF UploadInv, ActorTypes, Actors, Events, Received, Asked, NoEvent
<1> QED BY <1>1, <1>2, <1>3, StateFields

\* A credit that covers what the producer sent is never forgotten.
LEMMA ActorGrants ==
  ASSUME UploadInv, UploadAssumption, Honest, StateMoves, CreditSettled,
         NEW h \in Grants, client.sent <= h[2]
  PROVE  h \in Grants'
<1>1. state \in States /\ h[2] \in Nat /\ client.sent \in Nat /\ ingress.received \in Nat
  BY GrantFacts DEF UploadInv, ActorTypes, WireTypes, Clients, Ingresses
<1>2. CASE CreditOut
  <2>1. state' = Credited(state)
    BY <1>2 DEF CreditSettled
  <2>2. state'.history = state.history \cup {<<state.accepted, write.n>>}
    BY <1>1, <2>1, CreditedFields
  <2> QED BY <1>2, <2>2 DEF Grants
<1>3. CASE ~CreditOut
  <2>1. h \in state.history
    BY <1>3 DEF Grants
  <2>2. CASE actor.ev.kind = "DATA" /\ actor.pc = "handle"
    <3>1. actor.ev.off + actor.ev.n <= ingress.received
      BY <2>2 DEF UploadInv, DataInOrder, InHand, Waits
    <3>2. ingress.received <= client.sent
      BY DEF Honest, RecordsHonest
    <3>3. actor.ev.off \in Nat /\ actor.ev.n \in Nat
      BY <2>2 DEF UploadInv, ActorTypes, Actors, Events, Received, Asked, NoEvent
    <3>4. h[2] >= actor.ev.off + actor.ev.n
      BY <1>1, <3>1, <3>2, <3>3
    <3>5. h \in state'.history
      BY <1>1, <1>3, <2>1, <3>4, StateFields
    <3> QED BY <3>5 DEF Grants
  <2>3. CASE ~(actor.ev.kind = "DATA" /\ actor.pc = "handle")
    <3>1. h \in state'.history
      BY <1>1, <1>3, <2>1, <2>3, StateFields
    <3> QED BY <3>1 DEF Grants
  <2> QED BY <2>2, <2>3
<1> QED BY <1>2, <1>3

\* The actor keeps its account of the credits.
LEMMA ActorCreditsKept ==
  ASSUME UploadInv, UploadAssumption, Honest, StateMoves, CreditSettled, IngressStays
  PROVE  CreditsKept'
<1>1. state \in States /\ CreditsKept /\ state'.accepted >= state.accepted
  BY AcceptedGrows DEF UploadInv, ActorTypes, Honest
<1>2. CASE CreditOut
  <2>1. /\ state'.accepted = state.accepted /\ state'.credited = state.accepted
        /\ state'.through = write.n
        /\ state'.history = state.history \cup {<<state.accepted, write.n>>}
    BY <1>1, <1>2, CreditedFields DEF CreditSettled
  <2>2. write.n = CreditAt(state.accepted) /\ ingress.served = write.n
    BY <1>1, <1>2 DEF CreditsKept, CreditOut
  <2>3. \A h \in state'.history : h[2] = CreditAt(h[1]) /\ h[1] <= state'.credited
    <3> SUFFICES ASSUME NEW h \in state'.history PROVE h[2] = CreditAt(h[1]) /\ h[1] <= state'.credited
      OBVIOUS
    <3>1. state.accepted \in Nat /\ state.credited \in Nat /\ state.history \subseteq Nat \X Nat
      BY <1>1 DEF States
    <3>2. CASE h \in state.history
      <4>1. h[2] = CreditAt(h[1]) /\ h[1] <= state.credited /\ state.credited <= state.accepted /\ h[1] \in Nat
        BY <1>1, <3>1, <3>2 DEF CreditsKept
      <4> QED BY <2>1, <3>1, <4>1
    <3>3. CASE h = <<state.accepted, write.n>>
      BY <2>1, <2>2, <3>1, <3>3
    <3> QED BY <2>1, <3>2, <3>3
  <2>4. state'.credited <= state'.accepted
    BY <1>1, <2>1 DEF States
  <2>5. state'.through = CreditAt(state'.credited)
    BY <2>1, <2>2
  <2>6. write'.kind = "CREDIT" => write'.n = CreditAt(state'.accepted)
    BY DEF CreditSettled
  <2>7. ingress'.served = IF CreditOut' THEN write'.n ELSE state'.through
    BY <2>1, <2>2 DEF CreditSettled, IngressStays
  <2> HIDE DEF CreditAt
  <2> QED BY <2>3, <2>4, <2>5, <2>6, <2>7 DEF CreditsKept, CreditAt
<1>3. CASE ~CreditOut
  <2>1. /\ state'.credited = state.credited /\ state'.through = state.through
        /\ state'.history \subseteq state.history
    BY <1>1, <1>3, StateFields
  <2>2. state'.credited <= state'.accepted
    <3>1. state.credited <= state.accepted /\ state.credited \in Nat /\ state.accepted \in Nat
      BY <1>1 DEF CreditsKept, States
    <3>2. state'.accepted \in Nat
      <4>1. state'.accepted = state.accepted \/ state'.accepted = actor.ev.off + actor.ev.n
        BY <1>1, StateFields
      <4>2. actor.pc = "commit" => actor.ev.kind = "DATA"
        BY DEF UploadInv, DataInOrder
      <4>3. actor.pc = "commit" => actor.ev.n \in Nat /\ actor.ev.off \in Nat
        BY <4>2 DEF UploadInv, ActorTypes, Actors, Events, Received, Asked, NoEvent
      <4> QED BY <1>1, <3>1, <4>3, StateFields
    <3> QED BY <1>1, <2>1, <3>1, <3>2
  <2>3. \A h \in state'.history : h[2] = CreditAt(h[1]) /\ h[1] <= state'.credited
    BY <1>1, <2>1 DEF CreditsKept
  <2>4. \/ state'.through = CreditAt(state'.credited)
        \/ state'.through = 0 /\ state'.credited = 0 /\ state'.history = {}
    BY <1>1, <2>1 DEF CreditsKept
  <2>5. write'.kind = "CREDIT" => write'.n = CreditAt(state'.accepted)
    BY DEF CreditSettled
  <2>6. ingress'.served = IF CreditOut' THEN write'.n ELSE state'.through
    BY <1>1, <1>3, <2>1 DEF CreditSettled, IngressStays, CreditsKept
  <2> QED BY <2>2, <2>3, <2>4, <2>5, <2>6 DEF CreditsKept, CreditAt
<1> QED BY <1>2, <1>3

-----------------------------------------------------------------------------
(* What is on its way, and the records an honest producer sends.           *)

\* The actor's steps keep to all of these.
LEMMA ActorKeeps ==
  ASSUME UploadInv, UploadAssumption, Honest, Actor, excuse' = "none"
  PROVE  ActorKept /\ Fits'
<1>1. UNCHANGED <<order, reader, client, down>> /\ Forward
  BY ActorLeaves, ActorForward
<1>2. StateMoves /\ CreditSettled /\ Fits'
  BY ActorBytes, ActorFits
<1> QED BY <1>1, <1>2, ActorTickets DEF ActorKept

\* The actor forgets no credit the producer goes by.
LEMMA ActorCreditsSeen ==
  ASSUME UploadInv, UploadAssumption, Honest, ActorKept
  PROVE  CreditsSeen'
<1>1. CreditsSeen /\ UNCHANGED <<client, down>> /\ StateMoves /\ CreditSettled
  BY DEF Honest, ActorKept
<1>2. client.granted => <<client.accepted, client.through>> \in Grants'
  BY <1>1, ActorGrants DEF CreditsSeen
<1>3. ASSUME NEW i \in DOMAIN down, down[i].kind = "CREDIT" PROVE <<down[i].acc, down[i].n>> \in Grants'
  <2>1. <<down[i].acc, down[i].n>> \in Grants /\ client.accepted <= down[i].acc
    BY <1>1, <1>3 DEF CreditsSeen
  <2>2. /\ down[i].acc \in Nat /\ down[i].n \in Nat /\ down[i].n = CreditAt(down[i].acc)
        /\ down[i].acc <= Declared
    <3>1. LET h == <<down[i].acc, down[i].n>> IN
            /\ h[1] \in Nat /\ h[2] \in Nat /\ h[1] <= state.accepted
            /\ h[2] = CreditAt(h[1]) /\ state.accepted <= Declared
      BY <2>1, GrantFacts
    <3>2. state.accepted \in Nat /\ Declared \in Nat
      BY DEF UploadInv, ActorTypes, States, UploadAssumption
    <3> QED BY <3>1, <3>2
  <2>3. client.sent <= down[i].n
    <3>1. CASE client.granted
      <4>1. client.sent <= client.through /\ <<client.accepted, client.through>> \in Grants
        BY <1>1, <3>1 DEF CreditsSeen
      <4>2. client.through = CreditAt(client.accepted)
        BY <4>1, GrantFacts
      <4>3. client.sent \in Nat /\ client.accepted \in Nat
        BY DEF UploadInv, WireTypes, Clients
      <4>4. /\ CreditAt(client.accepted) \in Nat
            /\ CreditAt(client.accepted) <= CreditAt(down[i].acc)
        BY <2>1, <2>2, <4>3, CreditGrows
      <4> QED BY <2>2, <4>1, <4>2, <4>3, <4>4
    <3>2. CASE ~client.granted
      BY <1>1, <2>2, <3>2 DEF CreditsSeen
    <3> QED BY <3>1, <3>2
  <2> DEFINE h == <<down[i].acc, down[i].n>>
  <2>4. h \in Grants /\ client.sent <= h[2]
    BY <2>1, <2>3
  <2> HIDE DEF h
  <2>5. h \in Grants'
    BY <1>1, <2>4, ActorGrants
  <2> QED BY <2>5 DEF h
<1> QED BY <1>1, <1>2, <1>3 DEF CreditsSeen

\* The actor takes no ticket.
LEMMA ActorTicketed ==
  ASSUME Honest, ActorKept
  PROVE  Ticketed'
  BY DEF Honest, Ticketed, ActorKept, TicketsStay, NoTicket

\* What is still on its way after a step was on its way before it.
LEMMA ActorWaiting ==
  ASSUME UploadInv, ActorKept
  PROVE  /\ \A e \in Waiting' : e \in Waiting
         /\ actor'.ev \in {NoEvent, actor.ev} \cup Waiting \cup {data[i] : i \in DOMAIN data}
         /\ \A i \in DOMAIN data' : \E j \in DOMAIN data : data'[i] = data[j]
<1>1. data \in Seq(Events) /\ term \in Seq(Events)
  BY DEF UploadInv, ActorTypes
<1>2. ASSUME NEW i \in DOMAIN term' PROVE \E j \in DOMAIN term : term'[i] = term[j]
  <2>1. term' = term \/ term' = <<>> \/ (term # <<>> /\ term' = Tail(term))
    BY DEF ActorKept, Forward, LanesDrain
  <2> QED BY <1>1, <1>2, <2>1
<1>3. ASSUME NEW i \in DOMAIN data' PROVE \E j \in DOMAIN data : data'[i] = data[j]
  <2>1. data' = data \/ data' = <<>> \/ (data # <<>> /\ data' = Tail(data))
    BY DEF ActorKept, Forward, LanesDrain
  <2> QED BY <1>1, <1>3, <2>1
<1>4. term # <<>> => Head(term) \in Waiting
  BY <1>1 DEF Waiting
<1>5. data # <<>> => Head(data) \in {data[i] : i \in DOMAIN data}
  BY <1>1
<1>6. actor'.ev \in {NoEvent, actor.ev} \cup Waiting \cup {data[i] : i \in DOMAIN data}
  BY <1>4, <1>5 DEF ActorKept, Forward, LanesDrain
<1>7. reader' = reader
  BY DEF ActorKept
<1> QED BY <1>2, <1>3, <1>6, <1>7 DEF Waiting

\* The actor does not come back from the handshake.
LEMMA ReplyingStays ==
  ASSUME UploadInv, UploadAssumption, Honest, Actor, excuse' = "none", actor.pc \in Replying
  PROVE  actor'.pc \in Replying
<1>1. ActorTypes
  BY PlaceFacts
<1>2. CASE actor.pc = "waitack" /\ ActorTakes
  BY <1>1, <1>2, TakeFields DEF Replying
<1>3. CASE AbortSettles
  <2>1. actor.why # "protocol" /\ actor.why # "malformed"
    BY <1>3, PlaceFacts DEF AbortSettles
  <2> QED BY <1>1, <1>3, <2>1, AbortSettlesFields DEF Replying, Returned
<1>4. CASE ActorWaitsForAck
  <2>1. actor.pc \in {"answer", "waitack", "cross"}
    BY <1>4 DEF ActorWaitsForAck, AnswerAck, AnswerCrossedAbort, AnswerCancel, AnswerOther,
       CrossedAckSettles, HandshakeAbandoned
  <2>2. actor.why # "protocol"
    BY <2>1, PlaceFacts
  <2> QED BY <1>1, <1>4, <2>2, WaitFields DEF Replying, HandshakeOver, Goes
<1>5. CASE ReplySettles
  BY <1>1, <1>5, ReplyFields DEF Replying, Returned
<1>6. ~OpenSettles /\ ~CreditSettles /\ ~ActorIdles /\ ~HandleFault /\ ~HandleCancel
      /\ ~CancelRecords /\ ~HandleData /\ ~HandleEnd /\ ~HandleAbort /\ ~StageInterrupted
      /\ ~StageCompletes /\ ~CommitAccepted /\ ~SelectDaemonAbort /\ ~FinalAckSettles
      /\ ~FaultAckSettles /\ ~Promote /\ ~StageFinishes /\ ~Finalized
  BY DEF Replying, OpenSettles, CreditSettles, ActorIdles, HandleFault, handling,
     HandleCancel, CancelRecords, HandleData, HandleEnd, HandleAbort, StageInterrupted, StageCompletes,
     CommitAccepted, SelectDaemonAbort, FinalAckSettles, FaultAckSettles, Promote, StageFinishes, Finalized
<1>7. CASE ActorTakes /\ actor.pc # "waitack"
  BY <1>7 DEF ActorTakes, Replying
<1> QED BY <1>2, <1>3, <1>4, <1>5, <1>6, <1>7 DEF Actor

\* Nothing is accepted beyond the declared size.
LEMMA AcceptedStays ==
  ASSUME UploadInv, UploadInv', UploadAssumption, Honest, ActorKept, state.accepted = Declared
  PROVE  state'.accepted = Declared
<1>1. state'.accepted >= state.accepted
  BY AcceptedGrows DEF ActorKept
<1>2. state'.accepted <= Declared /\ state'.accepted \in Nat /\ Declared \in Nat
  BY SMTT(20) DEF UploadInv, ActorTypes, States, DataInOrder, WireTypes, Ingresses, UploadAssumption
<1> QED BY <1>1, <1>2

\* A record that is honest stays so while the actor works.
LEMMA ActorRecordOk ==
  ASSUME UploadInv, UploadInv', UploadAssumption, Honest, Actor, excuse' = "none", ActorKept,
         NEW e, RecordOk(e), Datum(e)
  PROVE  RecordOk(e)' /\ Datum(e)'
<1>1. UNCHANGED <<client, down>> /\ IngressStays /\ PhaseForward
  BY DEF ActorKept, Forward
<1>2. e.kind = "ABORT" => Echoed(e.n)'
  <2>1. SUFFICES ASSUME e.kind = "ABORT" PROVE Echoed(e.n)'
    OBVIOUS
  <2>2. PICK h \in Grants : h[1] = e.n /\ client.sent <= h[2]
    BY <2>1 DEF RecordOk, Echoed
  <2>3. h \in Grants'
    BY <2>2, ActorGrants DEF ActorKept
  <2> QED BY <1>1, <2>2, <2>3 DEF Echoed
<1>3. e.kind = "ACK" =>
        /\ client'.told /\ ~AwaitsAck' /\ phase' \in {"AckPending", "Retired"}
        /\ actor'.pc \in {"abort", "waitack", "answer", "cross", "reply", "done"}
  <2>1. SUFFICES ASSUME e.kind = "ACK"
                 PROVE  /\ client'.told /\ ~AwaitsAck' /\ phase' \in {"AckPending", "Retired"}
                        /\ actor'.pc \in {"abort", "waitack", "answer", "cross", "reply", "done"}
    OBVIOUS
  <2>2. client.told /\ ~AwaitsAck /\ phase \in {"AckPending", "Retired"} /\ actor.pc \in Replying
    BY <2>1 DEF RecordOk, Replying
  <2>3. actor'.pc \in Replying
    BY <2>2, ReplyingStays
  <2>4. ~AwaitsAck'
    BY <1>1, <2>2 DEF AwaitsAck, InDown
  <2> QED BY <1>1, <2>2, <2>3, <2>4 DEF PhaseForward, Replying
<1>4. e.kind = "OVERSIZE" => client'.sent > Declared /\ state'.accepted = Declared
  BY <1>1, AcceptedStays DEF RecordOk
<1>5. e.kind = "END" => client'.ended /\ e.n = client'.sent
  BY <1>1 DEF RecordOk
<1>6. Datum(e)'
  BY <1>1 DEF Datum, IngressStays
<1>7. e.kind \in {"none", "CANCEL", "DATA", "END", "ABORT", "ACK", "OVERSIZE"}
  BY DEF RecordOk
<1>8. RecordOk(e)'
  <2>1. (e.kind = "ABORT")' => (client.aborted)'
    BY <1>1 DEF RecordOk
  <2> QED BY <1>2, <1>3, <1>4, <1>5, <1>7, <2>1 DEF RecordOk
<1> QED BY <1>6, <1>8

\* The terminal at the head of its lane.
LEMMA HeadFacts ==
  ASSUME UploadInv, Honest, term # <<>>
  PROVE  /\ Head(term) = term[1] /\ 1 \in DOMAIN term /\ Head(term) \in Waiting
         /\ Head(term).kind \in {"CANCEL", "END", "ABORT", "ACK", "OVERSIZE"}
         /\ RecordOk(Head(term))
         /\ \A i \in DOMAIN Tail(term) : i + 1 \in DOMAIN term /\ Tail(term)[i] = term[i + 1]
         /\ Head(term) \in Events
<1>1. term \in Seq(Events)
  BY DEF UploadInv, ActorTypes
<1>2. /\ Head(term) = term[1] /\ 1 \in DOMAIN term /\ Head(term) \in Events
      /\ \A i \in DOMAIN Tail(term) : i + 1 \in DOMAIN term /\ Tail(term)[i] = term[i + 1]
  BY <1>1, TailMoves
<1>3. Head(term).kind # "DATA"
  BY <1>2 DEF UploadInv, EndsOwned
<1>4. Head(term).kind # "none"
  BY <1>2 DEF Events, Received, Asked, RecordKinds
<1>5. Head(term) \in Waiting
  BY <1>2 DEF Waiting
<1>6. RecordOk(Head(term))
  BY <1>5 DEF Honest, RecordsHonest
<1> QED BY <1>2, <1>3, <1>4, <1>5, <1>6 DEF RecordOk

\* The actor makes no record.
LEMMA ActorRecordsHonest ==
  ASSUME UploadInv, UploadInv', UploadAssumption, Honest, Actor, excuse' = "none", ActorKept
  PROVE  RecordsHonest'
<1>1. RecordsHonest /\ UNCHANGED <<client, reader>> /\ IngressStays /\ PhaseForward /\ LanesDrain
  BY DEF Honest, ActorKept, Forward
<1>2. \A e \in Waiting \cup {actor.ev} : RecordOk(e) /\ Datum(e)
  BY <1>1 DEF RecordsHonest
<1>3. \A i \in DOMAIN data : RecordOk(data[i]) /\ Datum(data[i])
  BY <1>1 DEF RecordsHonest, RecordOk, UploadInv, DataInOrder
<1>4. RecordOk(NoEvent) /\ Datum(NoEvent)
  BY DEF RecordOk, Datum, NoEvent
<1>5. ASSUME NEW e \in Waiting' \cup {actor'.ev} PROVE RecordOk(e)' /\ Datum(e)'
  <2>1. RecordOk(e) /\ Datum(e)
    BY <1>2, <1>3, <1>4, <1>5, ActorWaiting
  <2> QED BY <2>1, ActorRecordOk
<1>6. ASSUME NEW i \in DOMAIN data' PROVE Datum(data[i])'
  <2>1. PICK j \in DOMAIN data : data'[i] = data[j]
    BY <1>6, ActorWaiting
  <2>2. Datum(data[j])
    BY <1>3
  <2> QED BY <1>1, <2>1, <2>2 DEF Datum, IngressStays
<1>7. processing' = "plain" => client'.ended \/ phase' \notin {"Opening", "Active"}
  <2>1. SUFFICES ASSUME processing' = "plain", phase' \in {"Opening", "Active"} PROVE client'.ended
    OBVIOUS
  <2>2. phase' = phase
    BY <2>1, <1>1 DEF PhaseForward
  <2>3. CASE processing' = processing
    BY <1>1, <2>1, <2>2, <2>3 DEF RecordsHonest
  <2>4. CASE /\ term # <<>>
             /\ processing' = IF IsPreemptive(Head(term)) THEN "preemptive" ELSE "plain"
    <3>1. Head(term).kind \in {"END", "ACK"}
      BY <2>1, <2>4, HeadFacts DEF IsPreemptive
    <3>2. RecordOk(Head(term))
      BY <2>4, HeadFacts
    <3> QED BY <1>1, <2>1, <2>2, <3>1, <3>2 DEF RecordOk
  <2> QED BY <1>1, <2>1, <2>3, <2>4 DEF LanesDrain
<1>8. /\ deferred' = NoEvent
      /\ reader'.ev.kind # "CANCEL"
      /\ reader'.ev.kind = "DATA" => ~client'.aborted /\ ~client'.ended
      /\ reader'.ev.kind = "END" => ~client'.aborted
      /\ ingress'.producer = "END" => client'.ended
      /\ ingress'.producer = "ABORT" => client'.aborted
      /\ ingress'.received <= client'.sent
  BY <1>1 DEF RecordsHonest, LanesDrain, IngressStays
<1>9. processing' \in {"none", "plain", "preemptive"}
  BY <1>1 DEF RecordsHonest, LanesDrain
<1> QED BY <1>5, <1>6, <1>7, <1>8, <1>9 DEF RecordsHonest

\* Only terminals of the producer have a rank.
LEMMA RankOf == \A e : Rank(e) \in 0..3 /\ (e.kind \in {"none", "DATA", "CANCEL"} => Rank(e) = 0)
  BY DEF Rank

\* The actor takes the terminals in the order they wait in.
LEMMA ActorInRank ==
  ASSUME UploadInv, UploadInv', UploadAssumption, Honest, ActorKept
  PROVE  InRank'
<1>1. InRank /\ reader' = reader /\ LanesDrain
  BY DEF Honest, ActorKept, Forward
<1>2. CASE (term' = term \/ term' = <<>>) /\ Rank(actor'.ev) \in {0, Rank(actor.ev)}
  <2>1. \A e \in Waiting' : e \in Waiting
    BY <1>1, <1>2 DEF Waiting
  <2>2. \A e \in Waiting' : Rank(e) # 0 => Rank(actor'.ev) < Rank(e)
    BY <1>1, <1>2, <2>1, RankOf DEF InRank
  <2> QED BY <1>1, <1>2, <2>2, RankOf DEF InRank
<1>3. CASE term # <<>> /\ actor'.ev = Head(term) /\ term' = Tail(term)
  <2>1. /\ Head(term) = term[1] /\ 1 \in DOMAIN term
        /\ \A i \in DOMAIN Tail(term) : i + 1 \in DOMAIN term /\ Tail(term)[i] = term[i + 1]
        /\ \A i \in DOMAIN Tail(term) : i \in Nat /\ i >= 1
    <3>1. term \in Seq(Events)
      BY DEF UploadInv, ActorTypes
    <3>2. \A i \in DOMAIN Tail(term) : i \in Nat /\ i >= 1
      BY <1>3, <3>1
    <3> QED BY <1>3, <3>2, HeadFacts
  <2>2. \A i, j \in DOMAIN term' : i < j /\ Rank(term'[j]) # 0 => Rank(term'[i]) < Rank(term'[j])
    BY <1>1, <1>3, <2>1 DEF InRank
  <2>3. Rank(reader'.ev) # 0 => \A i \in DOMAIN term' : Rank(term'[i]) < Rank(reader'.ev)
    BY <1>1, <1>3, <2>1 DEF InRank
  <2>4. ASSUME NEW e \in Waiting', Rank(e) # 0 PROVE Rank(actor'.ev) < Rank(e)
    <3>1. CASE e = reader.ev
      BY <1>1, <1>3, <2>1, <2>4, <3>1 DEF InRank
    <3>2. CASE \E i \in DOMAIN term' : e = term'[i]
      BY <1>1, <1>3, <2>1, <2>4, <3>2 DEF InRank
    <3> QED BY <1>1, <2>4, <3>1, <3>2 DEF Waiting
  <2> QED BY <2>2, <2>3, <2>4 DEF InRank
<1>4. CASE data # <<>> /\ actor'.ev = Head(data) /\ term' = term
  <2>1. actor'.ev.kind = "DATA"
    <3>1. data \in Seq(Events)
      BY DEF UploadInv, ActorTypes
    <3>2. 1 \in DOMAIN data /\ Head(data) = data[1]
      BY <1>4, <3>1
    <3> QED BY <1>4, <3>2 DEF UploadInv, DataInOrder
  <2> QED BY <1>2, <1>4, <2>1, RankOf
<1>5. actor'.ev \in {actor.ev, NoEvent} => Rank(actor'.ev) \in {0, Rank(actor.ev)}
  BY RankOf DEF NoEvent
<1> QED BY <1>1, <1>2, <1>3, <1>4, <1>5 DEF LanesDrain

-----------------------------------------------------------------------------
(* What the honest records mean at the actor.                              *)

\* A preemptive terminal on its way is seen by whoever asks.
LEMMA WaitingPends ==
  ASSUME Honest, NEW e \in Waiting, e.kind \notin {"none", "DATA"}
  PROVE  TerminalPending /\ (IsPreemptive(e) => PreemptivePending)
<1>1. CASE e = reader.ev
  <2>1. reader.ticket # NoTicket
    BY <1>1 DEF Honest, Ticketed
  <2>2. e \in Admitting
    BY <1>1, <2>1 DEF Admitting
  <2> QED BY <2>2 DEF TerminalPending, PreemptivePending
<1>2. CASE \E i \in DOMAIN term : e = term[i]
  BY <1>2 DEF TerminalPending, PreemptivePending
<1> QED BY <1>1, <1>2 DEF Waiting

\* While the upload is active, the only terminal that is not preemptive is END.
LEMMA PendingEnds ==
  ASSUME UploadInv, Honest, phase = "Active", TerminalPending, ~PreemptivePending
  PROVE  client.ended
<1>1. ASSUME NEW e \in Waiting, e.kind \notin {"none", "DATA"} PROVE client.ended
  <2>1. RecordOk(e) /\ ~IsPreemptive(e)
    BY <1>1, WaitingPends DEF Honest, RecordsHonest
  <2> QED BY <1>1, <2>1 DEF RecordOk, IsPreemptive
<1>2. CASE Admitting # {}
  <2>1. \A c \in Cancellers : cancels[c].ticket = NoTicket
    <3> SUFFICES ASSUME NEW c \in Cancellers, cancels[c].ticket # NoTicket PROVE FALSE
      OBVIOUS
    <3> DEFINE e == [kind |-> "CANCEL", from |-> c]
    <3>1. e \in Admitting
      BY DEF Admitting
    <3>2. IsPreemptive(e)
      BY DEF IsPreemptive
    <3> QED BY <3>1, <3>2 DEF PreemptivePending
  <2>2. reader.ticket # NoTicket
    BY <1>2, <2>1 DEF Admitting
  <2>3. reader.ev \in Waiting /\ reader.ev.kind \notin {"none", "DATA"}
    BY <2>2 DEF Waiting, Honest, Ticketed
  <2> QED BY <1>1, <2>3
<1>3. CASE term # <<>>
  BY <1>1, <1>3, HeadFacts
<1>4. CASE processing # "none"
  BY <1>4 DEF Honest, RecordsHonest, PreemptivePending
<1> QED BY <1>2, <1>3, <1>4 DEF TerminalPending

\* The event in the hand of an active upload.
LEMMA HandFacts ==
  ASSUME UploadInv, UploadAssumption, Honest, actor.pc = "handle", phase = "Active"
  PROVE  /\ actor.ev.kind \in {"CANCEL", "DATA", "END", "ABORT", "OVERSIZE"}
         /\ actor.ev.kind \in {"CANCEL", "ABORT", "OVERSIZE"} => processing = "preemptive"
         /\ actor.ev.kind = "END" => client.ended
         /\ actor.ev.kind = "ABORT" => client.aborted
<1>1. RecordOk(actor.ev) /\ actor.ev.kind # "none"
  BY DEF Honest, RecordsHonest, Fits
<1>2. IsPreemptive(actor.ev) => processing = "preemptive"
  BY DEF Honest, InStep
<1> QED BY <1>1, <1>2 DEF RecordOk, IsPreemptive

\* The ABORT in the actor's hand echoes a CREDIT of its history.
LEMMA AbortEchoes ==
  ASSUME Honest, actor.pc \in {"handle", "answer"}, actor.ev.kind = "ABORT"
  PROVE  client.aborted /\ \E h \in state.history : h[1] = actor.ev.n
<1>1. RecordOk(actor.ev)
  BY DEF Honest, RecordsHonest
<1>2. ~CreditOut
  BY DEF Honest, Fits, Writing, CreditOut
<1> QED BY <1>1, <1>2 DEF RecordOk, Echoed, Grants

\* A DATA record in hand follows what was accepted, unless the upload is doomed.
LEMMA DataFacts ==
  ASSUME UploadInv, UploadAssumption, Honest, actor.pc \in {"handle", "stage", "commit"},
         actor.ev.kind = "DATA"
  PROVE  /\ actor.ev.off \in Nat /\ actor.ev.n \in Nat /\ actor.ev.n >= 1
         /\ actor.ev.off + actor.ev.n <= actor.ev.credit
         /\ actor.ev.credit <= state.through
         /\ state.accepted < ingress.received
         /\ actor.ev.off + actor.ev.n <= ingress.received
<1>1. Datum(actor.ev)
  BY DEF Honest, RecordsHonest
<1>2. actor.ev.off \in Nat /\ actor.ev.n \in Nat /\ actor.ev.credit \in Nat
  BY DEF UploadInv, ActorTypes, Actors, Events, Received, Asked, NoEvent
<1>3. ingress.served = state.through
  BY DEF Honest, Fits, Writing, CreditsKept, CreditOut
<1>4. /\ state.accepted \in Nat /\ state.staged \in Nat /\ ingress.received \in Nat
      /\ state.accepted <= state.staged /\ state.staged <= ingress.received
  BY DEF UploadInv, ActorTypes, States, WireTypes, Ingresses, DataInOrder
<1>5. CASE actor.pc \in {"handle", "stage"}
  <2>1. Waits(actor.ev)
    BY <1>5 DEF UploadInv, DataInOrder, InHand
  <2> QED BY <1>1, <1>2, <1>3, <1>4, <2>1 DEF Datum, Waits
<1>6. CASE actor.pc = "commit"
  <2>1. actor.ev.off = state.accepted /\ actor.ev.off + actor.ev.n = state.staged
    BY <1>6 DEF UploadInv, DataInOrder, Honest, Fits
  <2> QED BY <1>1, <1>2, <1>3, <1>4, <2>1 DEF Datum
<1> QED BY <1>5, <1>6

-----------------------------------------------------------------------------
(* Where the steps of the actor come from.                                 *)

\* HandleAbort, for an honest producer: never a fault.
LEMMA HonestAbort ==
  ASSUME UploadInv, Honest, HandleAbort
  PROVE  /\ actor.pc = "handle" /\ actor.ev.kind = "ABORT"
         /\ \/ /\ phase = "Active" /\ phase' = "ClientAbortPending" /\ Goes("ack")
               /\ Queued("FINALACK", 0) /\ UNCHANGED <<gone, owner, term, deferred, processing>>
            \/ phase # "Active" /\ Returned /\ Clean
<1>1. actor.pc = "handle" /\ actor.ev.kind = "ABORT"
  BY DEF HandleAbort, handling
<1>2. \E h \in state.history : h[1] = actor.ev.n
  BY <1>1, AbortEchoes
<1> QED BY <1>1, <1>2, PlaceFacts, AbortFields

\* ActorWaitsForAck, for an honest producer.
LEMMA HonestWait ==
  ASSUME UploadInv, Honest, ActorWaitsForAck, excuse' = "none"
  PROVE  /\ UNCHANGED <<gone, ingress, state, Lanes>>
         /\ \/ actor.pc = "answer" /\ actor.ev.kind = "ACK" /\ HandshakeOver
            \/ /\ actor.pc = "answer" /\ actor.ev.kind = "ABORT" /\ ~actor.crossed
               /\ Goes("cross") /\ Queued("ACK", 0) /\ UNCHANGED <<phase, owner>>
            \/ /\ actor.pc = "answer" /\ actor.ev.kind \in {"CANCEL", "DATA", "END"}
               /\ Goes("waitack") /\ UNCHANGED <<phase, owner, write>>
            \/ actor.pc = "cross" /\ write.at = "unsent" /\ gone /\ HandshakeOver
            \/ /\ actor.pc = "cross" /\ write.at = "sent" /\ actor'.pc = "waitack"
               /\ actor'.ev = actor.ev /\ actor'.why = actor.why /\ actor'.crossed
               /\ write' = NoWrite /\ UNCHANGED <<phase, owner>>
            \/ actor.pc = "waitack" /\ gone /\ HandshakeOver
<1>1. actor.pc \in {"answer", "waitack", "cross"}
  BY DEF ActorWaitsForAck, AnswerAck, AnswerCrossedAbort, AnswerCancel, AnswerOther,
     CrossedAckSettles, HandshakeAbandoned
<1>2. actor.why # "protocol" /\ ActorTypes
  BY <1>1, PlaceFacts
<1>3. actor.pc = "answer" /\ actor.ev.kind = "ABORT" =>
        ~actor.crossed /\ \E h \in state.history : h[1] = actor.ev.n
  <2>1. actor.crossed => actor.ev.kind # "ABORT"
    BY DEF Honest, Handshakes
  <2> QED BY <2>1, AbortEchoes
<1>4. actor.pc = "answer" => actor.ev.kind \in {"CANCEL", "DATA", "END", "ABORT", "ACK"}
  BY PlaceFacts DEF Honest, Oversized, Fits
<1>5. actor.pc = "cross" /\ write.at = "unsent" => gone
  BY DEF Honest, Handshakes
<1>6. actor.pc = "waitack" /\ Closed => gone
  <2>1. phase = "Retired" /\ ~gone => actor.pc \in {"reply", "publish", "unfinished", "ack", "done"}
    BY DEF Honest, Handshakes
  <2> QED BY <2>1 DEF Closed
<1> QED BY <1>2, <1>3, <1>4, <1>5, <1>6, WaitFields

\* FinalAckSettles, for an honest producer.
LEMMA HonestAck ==
  ASSUME UploadInv, Honest, FinalAckSettles
  PROVE  /\ actor.pc = "ack"
         /\ \/ /\ write.at = "sent" /\ phase = "Retired" /\ actor'.pc = "reply" /\ actor'.ev = actor.ev
               /\ actor'.why = actor.why /\ actor'.crossed = actor.crossed
               /\ Queued("REPLY", 0) /\ Clean /\ UNCHANGED <<phase, gone, Lanes>>
            \/ Returned /\ gone' /\ Clean
<1>1. actor.pc = "ack"
  BY DEF FinalAckSettles
<1> QED BY <1>1, PlaceFacts, FinalAckFields

\* AbortSettles, for an honest producer.
LEMMA HonestSettles ==
  ASSUME UploadInv, Honest, AbortSettles
  PROVE  /\ actor.pc = "abort"
         /\ \/ phase = "Retired" /\ Returned /\ Clean
            \/ /\ write.at = "sent" /\ actor'.pc = "waitack" /\ actor'.ev = actor.ev
               /\ actor'.why = actor.why /\ actor'.crossed = actor.crossed
               /\ write' = NoWrite /\ UNCHANGED <<phase, gone, owner, Lanes>>
            \/ Returned /\ gone' /\ Clean
<1>1. actor.pc = "abort"
  BY DEF AbortSettles
<1>2. actor.why # "protocol" /\ actor.why # "malformed" /\ ActorTypes
  BY <1>1, PlaceFacts
<1>3. write.at = "queued" => phase \in {"DaemonAbortQueued", "Retired"}
  BY <1>1 DEF Honest, Fits
<1> QED BY <1>1, <1>2, <1>3, AbortSettlesFields

-----------------------------------------------------------------------------
(* The way of the actor of an honest upload.                               *)

LEMMA FailedWalks ==
  ASSUME NEW why, NEW yield, Failed(why, yield), "fail" \in Successors(actor.pc),
         owner'.result = owner.result, Honest, phase' # "Retired" \/ phase = "Retired",
         actor.ev.kind # "ABORT"
  PROVE  Walk /\ Reason
  BY DEF Failed, NoWrite, Walk, Reason, Honest, Blameless

LEMMA ReturnedWalks ==
  ASSUME Returned, Clean, "done" \in Successors(actor.pc),
         actor.pc \in {"abort", "ack"} => gone' \/ phase = "Retired"
  PROVE  Walk /\ Reason
  BY DEF Returned, Clean, NoWrite, Walk, Reason

LEMMA TurnedWalks ==
  ASSUME NEW s, Turned(s), {"next", "credit"} \subseteq Successors(actor.pc), Honest,
         actor.ev.kind # "ABORT"
  PROVE  Walk /\ Reason
<1>1. owner' = owner /\ owner'.result # "malformed" /\ phase' = phase
  BY DEF Turned, Looped, Honest, Blameless
<1>2. /\ actor'.pc \in {"next", "credit"} /\ write'.at \in {"queued", "idle"}
      /\ actor'.crossed = actor.crossed
  BY DEF Turned, Looped, Goes, Queued, NoWrite
<1>3. Walk
  BY <1>1, <1>2 DEF Walk
<1>4. Reason
  BY <1>1, <1>2 DEF Reason
<1> QED BY <1>3, <1>4

\* Each step of the actor goes where Successors says, for the reason given.
LEMMA ActorWalks ==
  ASSUME UploadInv, UploadAssumption, Honest, Actor, excuse' = "none"
  PROVE  Walk /\ Reason
<1>1. ActorTypes /\ deferred = NoEvent /\ owner.result # "malformed" /\ write.kind = Writing(actor.pc)
  BY PlaceFacts DEF Honest, Blameless, Fits
<1>2. actor.pc \notin {"handle", "answer", "stage", "commit"} => actor.ev.kind = "none"
  BY DEF Honest, Fits
<1>3. write.kind = "none" => write.at = "idle"
  BY <1>1 DEF ActorTypes, Writes, NoWrite, Messages
<1>4. actor.pc \in {"stage", "commit"} => actor.ev.kind = "DATA"
  BY DEF UploadInv, DataInOrder
<1>5. CASE OpenSettles
  <2>1. actor.pc = "open" /\ actor.ev.kind = "none"
    BY <1>1, <1>2, <1>5, OpenFields
  <2>2. CASE Returned
    <3>1. Clean
      BY <1>1, <1>5, <2>2, OpenFields DEF Returned
    <3> QED BY <2>1, <2>2, <3>1, ReturnedWalks DEF Successors
  <2>3. CASE actor'.pc = "credit"
    <3>1. write'.at = "queued" /\ owner' = owner /\ phase' = phase /\ actor'.crossed = actor.crossed
      BY <1>1, <1>5, <2>3, OpenFields DEF Returned, Queued
    <3> QED BY <1>1, <2>1, <2>3, <3>1 DEF Walk, Reason, Successors
  <2>4. CASE actor'.pc = "reply"
    <3>1. write'.at = "queued" /\ Clean /\ actor'.crossed = actor.crossed
      BY <1>1, <1>5, <2>4, OpenFields DEF Returned, Queued
    <3> QED BY <1>1, <2>1, <2>4, <3>1 DEF Walk, Reason, Successors, Clean
  <2> QED BY <1>1, <1>5, <2>2, <2>3, <2>4, OpenFields
<1>6. CASE CreditSettles
  <2>1. actor.pc = "credit" /\ actor.ev.kind = "none"
    BY <1>1, <1>2, <1>6, CreditFields
  <2>2. CASE Looped
    BY <1>1, <2>1, <2>2 DEF Looped, Goes, NoWrite, Walk, Reason, Successors
  <2>3. {"fail", "done"} \subseteq Successors(actor.pc)
    BY <2>1 DEF Successors
  <2> QED BY <1>1, <1>6, <2>1, <2>2, <2>3, CreditFields, ReturnedWalks, FailedWalks
<1>7. CASE ActorTakes
  <2>1. /\ actor.pc \in {"next", "waitack"} /\ UNCHANGED <<phase, gone, owner, write>>
        /\ actor'.crossed = actor.crossed /\ actor'.why = actor.why
        /\ actor.ev.kind = "none" /\ write.at = "idle"
    BY <1>1, <1>2, <1>3, <1>7, TakeFields DEF Writing
  <2>2. actor'.pc = IF actor.pc = "next" THEN "handle" ELSE "answer"
    <3>1. ~(PendingData # 0 /\ term # <<>> /\ Head(term).kind = "END")
      <4>1. SUFFICES ASSUME term # <<>>, Head(term).kind = "END" PROVE PendingData = 0
        OBVIOUS
      <4>2. client.ended
        BY <4>1, HeadFacts DEF RecordOk
      <4> QED BY <4>2, Drained
    <3> QED BY <1>1, <1>7, <3>1, TakeFields
  <2> QED BY <1>1, <2>1, <2>2 DEF Walk, Reason, Successors
<1>8. CASE ActorIdles
  <2>1. actor.pc = "next" /\ actor.ev.kind = "none" /\ {"fail", "done"} \subseteq Successors(actor.pc)
    BY <1>1, <1>2, <1>8, IdleFields DEF Successors
  <2> QED BY <1>1, <1>8, <2>1, IdleFields, ReturnedWalks, FailedWalks
<1>9. CASE HandleFault
  <2>1. actor.pc = "handle" /\ actor.ev.kind # "ABORT" /\ "fail" \in Successors(actor.pc)
    BY <1>1, <1>9, FaultFields DEF Successors
  <2> QED BY <1>1, <1>9, <2>1, FaultFields, FailedWalks
<1>10. CASE HandleCancel
  <2>1. actor.pc = "handle" /\ actor.ev.kind = "CANCEL" /\ {"next", "credit"} \subseteq Successors(actor.pc)
    BY <1>1, <1>10, CancelFields DEF Successors
  <2>2. CASE phase = "Active"
    <3>1. Goes("record") /\ write' = write /\ owner' = owner /\ phase' = "DaemonAbortQueued"
      BY <1>1, <1>10, <2>2, CancelFields
    <3>2. write.at = "idle"
      BY <1>1, <1>3, <2>1 DEF Writing
    <3> QED BY <1>1, <2>1, <2>2, <3>1, <3>2 DEF Goes, Walk, Reason, Successors
  <2> QED BY <1>1, <1>10, <2>1, <2>2, CancelFields, TurnedWalks
<1>11. CASE CancelRecords
  <2>1. actor.pc = "record" /\ actor.ev.kind = "none" /\ "fail" \in Successors(actor.pc)
    BY <1>1, <1>2, <1>11, RecordFields DEF Successors
  <2> QED BY <1>1, <1>11, <2>1, RecordFields, FailedWalks
<1>12. CASE HandleData
  <2>1. actor.pc = "handle" /\ actor.ev.kind = "DATA" /\ "fail" \in Successors(actor.pc)
        /\ owner' = owner /\ phase' = phase
    BY <1>1, <1>12, DataFields DEF Successors
  <2>2. CASE actor'.pc = "stage"
    <3>1. write' = write /\ actor'.crossed = actor.crossed
      BY <1>1, <1>12, <2>2, DataFields DEF Failed
    <3>2. write.at = "idle"
      BY <1>1, <1>3, <2>1 DEF Writing
    <3> QED BY <1>1, <2>1, <2>2, <3>1, <3>2 DEF Walk, Reason, Successors
  <2> QED BY <1>1, <1>12, <2>1, <2>2, DataFields, FailedWalks
<1>13. CASE StageInterrupted
  <2>1. actor.pc = "stage" /\ {"fail", "done", "next", "credit"} \subseteq Successors(actor.pc)
    BY <1>1, <1>13, InterruptFields DEF Successors
  <2> QED BY <1>1, <1>4, <1>13, <2>1, InterruptFields, TurnedWalks, ReturnedWalks, FailedWalks
<1>14. CASE StageCompletes
  <2>1. actor.pc = "stage" /\ "fail" \in Successors(actor.pc) /\ owner' = owner /\ phase' = phase
    BY <1>1, <1>14, StageFields DEF Successors
  <2>2. CASE actor'.pc = "commit"
    <3>1. write' = write /\ actor'.crossed = actor.crossed
      BY <1>1, <1>14, <2>2, StageFields DEF Failed
    <3>2. write.at = "idle"
      BY <1>1, <1>3, <2>1 DEF Writing
    <3> QED BY <1>1, <1>4, <2>1, <2>2, <3>1, <3>2 DEF Walk, Reason, Successors
  <2> QED BY <1>1, <1>4, <1>14, <2>1, <2>2, StageFields, FailedWalks
<1>15. CASE CommitAccepted
  <2>1. actor.pc = "commit" /\ {"fail", "done", "next", "credit"} \subseteq Successors(actor.pc)
    BY <1>1, <1>15, CommitFields DEF Successors
  <2>2. Failed("timeout", "any") /\ phase' \in {phase, "DaemonAbortQueued"} /\ owner' = owner => Walk /\ Reason
    BY <1>1, <1>4, <2>1, FailedWalks
  <2> QED BY <1>1, <1>4, <1>15, <2>1, <2>2, CommitFields, TurnedWalks, ReturnedWalks
<1>16. CASE HandleEnd
  <2>1. actor.pc = "handle" /\ actor.ev.kind = "END" /\ "fail" \in Successors(actor.pc) /\ owner' = owner
    BY <1>1, <1>16, EndFields DEF Successors
  <2>2. CASE Goes("finish") /\ phase = "Active" /\ phase' = "Finalizing"
    <3>1. write' = write
      BY <1>1, <1>16, <2>2, EndFields DEF Failed, Goes
    <3>2. write.at = "idle"
      BY <1>1, <1>3, <2>1 DEF Writing
    <3> QED BY <1>1, <2>1, <2>2, <3>1, <3>2 DEF Goes, Walk, Reason, Successors
  <2> QED BY <1>1, <1>16, <2>1, <2>2, EndFields, FailedWalks
<1>17. CASE HandleAbort
  <2>1. actor.pc = "handle" /\ actor.ev.kind = "ABORT" /\ "done" \in Successors(actor.pc)
    BY <1>17, HonestAbort DEF Successors
  <2>2. CASE Goes("ack")
    <3>1. phase = "Active" /\ phase' = "ClientAbortPending" /\ owner' = owner /\ term' = term
          /\ write'.at = "queued"
      BY <1>17, <2>2, HonestAbort DEF Goes, Returned, Queued
    <3> QED BY <1>1, <2>1, <2>2, <3>1 DEF Goes, Walk, Reason, Successors
  <2> QED BY <1>1, <1>17, <2>1, <2>2, HonestAbort, ReturnedWalks
<1>18. CASE SelectDaemonAbort
  <2>1. actor.pc = "fail" /\ actor.ev.kind = "none" /\ "done" \in Successors(actor.pc)
    BY <1>1, <1>2, <1>18, SelectFields DEF Successors
  <2>2. CASE Looped
    BY <1>1, <2>1, <2>2 DEF Looped, Goes, NoWrite, Walk, Reason, Successors
  <2>3. CASE actor'.pc = "abort"
    <3>1. /\ \/ phase = "DaemonAbortQueued"
             \/ /\ phase = "Active"
                /\ ~(actor.yield = "any" /\ TerminalPending)
                /\ ~(actor.yield = "preemptive" /\ PreemptivePending)
          /\ phase' = "DaemonAbortQueued" /\ actor'.why = actor.why /\ actor'.crossed = actor.crossed
          /\ write'.at = "queued" /\ owner' = owner
      BY <1>1, <1>18, <2>3, SelectFields DEF Looped, Goes, Returned, Queued
    <3> QED BY <1>1, <2>1, <2>3, <3>1 DEF Walk, Reason, Successors
  <2> QED BY <1>1, <1>18, <2>1, <2>2, <2>3, SelectFields, ReturnedWalks
<1>19. CASE AbortSettles
  <2>1. actor.pc = "abort" /\ actor.ev.kind = "none" /\ "done" \in Successors(actor.pc)
    BY <1>2, <1>19, HonestSettles DEF Successors
  <2>2. CASE actor'.pc = "waitack"
    <3>1. /\ write' = NoWrite /\ phase' = phase /\ owner' = owner
          /\ actor'.why = actor.why /\ actor'.crossed = actor.crossed
      BY <1>19, <2>2, HonestSettles DEF Returned
    <3> QED BY <1>1, <2>1, <2>2, <3>1 DEF NoWrite, Walk, Reason, Successors
  <2> QED BY <1>1, <1>19, <2>1, <2>2, HonestSettles, ReturnedWalks
<1>20. CASE ActorWaitsForAck
  <2>1. actor.pc \in {"answer", "waitack", "cross"} /\ (actor.ev.kind # "none" => actor.pc = "answer")
    BY <1>2, <1>20, HonestWait
  <2>2. CASE HandshakeOver
    <3>1. /\ actor'.pc = "reply" /\ write'.at = "queued" /\ actor'.crossed = actor.crossed
          /\ owner'.result # "malformed" /\ gone' = gone
      BY <1>20, <2>2, HonestWait DEF HandshakeOver, Goes, Clean, Queued
    <3>2. actor.pc = "answer" => actor.ev.kind = "ACK"
      BY <1>20, <2>2, HonestWait DEF HandshakeOver, Goes
    <3>3. actor.pc \in {"waitack", "cross"} => gone
      BY <1>20, <3>1, HonestWait
    <3> QED BY <2>1, <3>1, <3>2, <3>3 DEF Walk, Reason, Successors
  <2>3. CASE ~HandshakeOver
    <3>1. CASE actor.pc = "cross"
      BY <1>1, <1>20, <2>1, <2>3, <3>1, HonestWait DEF NoWrite, Walk, Reason, Successors
    <3>2. CASE Goes("cross")
      BY <1>1, <1>20, <2>1, <2>3, <3>2, HonestWait DEF Goes, Queued, Walk, Reason, Successors
    <3>3. CASE Goes("waitack") /\ actor.pc = "answer"
      <4>1. write.at = "idle"
        BY <1>1, <1>3, <3>3 DEF Writing
      <4> QED BY <1>1, <1>20, <2>1, <2>3, <3>3, <4>1, HonestWait DEF Goes, Walk, Reason, Successors
    <3> QED BY <1>20, <2>3, <3>1, <3>2, <3>3, HonestWait
  <2> QED BY <2>2, <2>3
<1>21. CASE FinalAckSettles
  <2>1. actor.pc = "ack" /\ actor.ev.kind = "none" /\ "done" \in Successors(actor.pc)
    BY <1>2, <1>21, HonestAck DEF Successors
  <2>2. CASE actor'.pc = "reply"
    <3>1. write.at = "sent" /\ write'.at = "queued" /\ phase = "Retired" /\ Clean
          /\ actor'.crossed = actor.crossed
      BY <1>21, <2>2, HonestAck DEF Returned, Queued
    <3> QED BY <1>1, <2>1, <2>2, <3>1 DEF Clean, Walk, Reason, Successors
  <2> QED BY <1>1, <1>21, <2>1, <2>2, HonestAck, ReturnedWalks
<1>22. CASE FaultAckSettles \/ Promote
  BY <1>22, PlaceFacts DEF FaultAckSettles, Promote
<1>23. CASE StageFinishes
  <2>1. actor.pc = "finish" /\ actor.ev.kind = "none" /\ write.at = "idle"
    BY <1>1, <1>2, <1>3, <1>23, FinishFields DEF Writing
  <2>2. /\ actor'.pc \in {"finalize", "unfinished"} /\ phase' = phase /\ actor'.crossed = actor.crossed
        /\ owner'.result # "malformed" /\ write'.at \in {"idle", "queued"}
    BY <1>1, <1>23, <2>1, FinishFields DEF Clean, Queued
  <2> QED BY <2>1, <2>2 DEF Walk, Reason, Successors
<1>24. CASE Finalized
  <2>1. actor.pc = "finalize" /\ actor.ev.kind = "none"
    BY <1>1, <1>2, <1>24, FinalizedFields
  <2>2. /\ actor'.pc = "publish" /\ phase' = phase /\ actor'.crossed = actor.crossed
        /\ owner'.result # "malformed" /\ write'.at \in {"idle", "queued"}
    BY <1>1, <1>24, <2>1, FinalizedFields DEF Clean, Queued
  <2> QED BY <2>1, <2>2 DEF Walk, Reason, Successors
<1>25. CASE ReplySettles
  <2>1. actor.pc \in {"reply", "publish", "unfinished"} /\ Returned /\ Clean
    BY <1>1, <1>25, ReplyFields DEF Clean
  <2> QED BY <2>1, ReturnedWalks DEF Successors
<1> QED BY <1>5, <1>6, <1>7, <1>8, <1>9, <1>10, <1>11, <1>12, <1>13, <1>14, <1>15,
           <1>16, <1>17, <1>18, <1>19, <1>20, <1>21, <1>22, <1>23, <1>24, <1>25 DEF Actor

-----------------------------------------------------------------------------
(* The failures of an honest upload.                                       *)

\* While the upload stays active, an interrupt in the actor's hand keeps its
\* flag until the failure it selects is recorded.
LEMMA PreemptiveHeld ==
  ASSUME UploadInv, UploadAssumption, Honest, Actor, excuse' = "none", ActorKept,
         processing = "preemptive", phase' \in {"Opening", "Active"}
  PROVE  /\ phase = "Active" /\ processing' = "preemptive"
         /\ actor'.pc = "fail" /\ actor'.yield = "none"
<1>1. ActorTypes /\ phase' = phase /\ PhaseForward
  BY PlaceFacts DEF ActorKept, TicketsStay, Forward, PhaseForward
<1>2. phase = "Active"
  <2>1. SUFFICES ASSUME phase = "Opening" PROVE FALSE
    BY <1>1
  <2>2. actor.pc = "open" /\ write.at \notin {"started", "sent"}
    BY <2>1 DEF UploadInv, PhasesAgree
  <2>3. OpenSettles
    BY <2>2 DEF Actor, CreditSettles, ActorTakes, ActorIdles, HandleFault, handling, HandleCancel,
       CancelRecords, HandleData, HandleEnd, HandleAbort, StageInterrupted, StageCompletes,
       CommitAccepted, SelectDaemonAbort, AbortSettles, ActorWaitsForAck, AnswerAck,
       AnswerCrossedAbort, AnswerCancel, AnswerOther, CrossedAckSettles, HandshakeAbandoned,
       FinalAckSettles, FaultAckSettles, Promote, StageFinishes, Finalized, ReplySettles
  <2>4. phase' = "Retired"
    BY <1>1, <2>2, <2>3, OpenFields DEF Returned
  <2> QED BY <1>1, <2>1, <2>4
<1>3. \/ actor.pc = "handle" /\ IsPreemptive(actor.ev)
      \/ actor.pc = "fail" /\ actor.yield = "none"
  BY <1>2 DEF Honest, InStep
<1>4. CASE actor.pc = "fail" /\ actor.yield = "none"
  <2>1. SelectDaemonAbort
    BY <1>4 DEF Actor, OpenSettles, CreditSettles, ActorTakes, ActorIdles, HandleFault, handling, HandleCancel,
       CancelRecords, HandleData, HandleEnd, HandleAbort, StageInterrupted, StageCompletes,
       CommitAccepted, AbortSettles, ActorWaitsForAck, AnswerAck,
       AnswerCrossedAbort, AnswerCancel, AnswerOther, CrossedAckSettles, HandshakeAbandoned,
       FinalAckSettles, FaultAckSettles, Promote, StageFinishes, Finalized, ReplySettles
  <2> QED BY <1>1, <1>2, <1>4, <2>1, SelectFields
<1>5. CASE actor.pc = "handle" /\ IsPreemptive(actor.ev)
  <2>1. actor.ev.kind \in {"CANCEL", "ABORT", "OVERSIZE"}
    BY <1>2, <1>5, HandFacts DEF IsPreemptive
  <2>2. HandleFault \/ HandleCancel \/ HandleAbort
    BY <1>5, <2>1 DEF Actor, OpenSettles, CreditSettles, ActorTakes, ActorIdles, handling,
       CancelRecords, HandleData, HandleEnd, StageInterrupted, StageCompletes,
       CommitAccepted, SelectDaemonAbort, AbortSettles, ActorWaitsForAck, AnswerAck,
       AnswerCrossedAbort, AnswerCancel, AnswerOther, CrossedAckSettles, HandshakeAbandoned,
       FinalAckSettles, FaultAckSettles, Promote, StageFinishes, Finalized, ReplySettles
  <2>3. CASE HandleFault
    <3>1. Failed(actor'.why, "none") /\ UNCHANGED Lanes
      BY <1>1, <2>3, FaultFields
    <3> QED BY <1>2, <3>1 DEF Failed, Lanes
  <2>4. ~HandleCancel
    BY <1>1, <1>2, CancelFields
  <2>5. ~HandleAbort
    BY <1>1, <1>2, HonestAbort
  <2> QED BY <2>2, <2>3, <2>4, <2>5
<1> QED BY <1>3, <1>4, <1>5

\* An upload that will end on an interrupt does so whatever the actor does.
LEMMA DoomedStays ==
  ASSUME UploadInv, UploadAssumption, Honest, Actor, excuse' = "none", ActorKept, Fits', Doomed
  PROVE  Doomed'
<1>1. PhaseForward /\ LanesDrain /\ UNCHANGED reader
      /\ \A c \in Cancellers : cancels'[c].ticket = cancels[c].ticket
  BY DEF ActorKept, Forward, TicketsStay
<1>2. SUFFICES ASSUME phase' \in {"Opening", "Active"} PROVE PreemptivePending'
  BY DEF Doomed
<1>3. PreemptivePending /\ phase' = phase
  BY <1>1, <1>2 DEF PhaseForward, Doomed
<1>4. Admitting' = Admitting
  BY <1>1 DEF Admitting
<1>5. CASE \E e \in Admitting : IsPreemptive(e)
  BY <1>4, <1>5 DEF PreemptivePending, IsPreemptive
<1>6. CASE processing = "preemptive"
  BY <1>2, <1>6, PreemptiveHeld DEF PreemptivePending
<1>7. CASE \E i \in DOMAIN term : IsPreemptive(term[i])
  <2>1. PICK i \in DOMAIN term : IsPreemptive(term[i])
    BY <1>7
  <2>2. term \in Seq(Events)
    BY DEF UploadInv, ActorTypes
  <2>3. CASE term' = term
    BY <2>1, <2>3 DEF PreemptivePending, IsPreemptive
  <2>4. CASE term' = <<>> /\ actor'.pc \in {"done", "finalize"}
    BY <1>2, <2>4 DEF Fits, PhasesAt
  <2>5. CASE /\ term # <<>> /\ term' = Tail(term)
             /\ processing' = IF IsPreemptive(Head(term)) THEN "preemptive" ELSE "plain"
    <3>1. CASE i = 1
      <4>1. IsPreemptive(Head(term))
        BY <2>1, <2>2, <3>1
      <4> QED BY <2>5, <4>1 DEF PreemptivePending
    <3>2. CASE i # 1
      <4>1. i - 1 \in DOMAIN Tail(term) /\ Tail(term)[i - 1] = term[i]
        BY <2>1, <2>2, <2>5, <3>2
      <4>2. \E j \in DOMAIN term' : IsPreemptive(term'[j])
        BY <2>1, <2>5, <4>1
      <4> QED BY <4>2 DEF PreemptivePending, IsPreemptive
    <3> QED BY <3>1, <3>2
  <2> QED BY <1>1, <2>3, <2>4, <2>5 DEF LanesDrain
<1> QED BY <1>3, <1>5, <1>6, <1>7 DEF PreemptivePending

\* At END the credit of the declared size was sent.
LEMMA EndBlames ==
  ASSUME UploadInv, UploadAssumption, Honest, HandleEnd, EndFailure(actor.ev.n) = "protocol"
  PROVE  phase = "Retired"
<1>1. actor.pc = "handle" /\ actor.ev.kind = "END"
  BY DEF HandleEnd, handling
<1>2. client.ended /\ actor.ev.n = client.sent
  BY <1>1 DEF Honest, RecordsHonest, RecordOk
<1>3. actor.ev.n = state.accepted
  BY <1>2, Drained
<1>4. /\ state.accepted \in Nat /\ state.credited \in Nat /\ Declared \in Nat
      /\ state.accepted <= Declared
  BY DEF UploadInv, ActorTypes, States, DataInOrder, WireTypes, Ingresses, UploadAssumption
<1>5. ASSUME state.accepted = Declared
      PROVE  state.credited = state.accepted /\ state.through = Declared + 1
  <2>1. <<client.accepted, client.through>> \in Grants /\ client.accepted = client.sent
    BY <1>2 DEF Honest, CreditsSeen
  <2>2. Grants = state.history
    BY <1>1 DEF Honest, Fits, Writing, Grants, CreditOut
  <2>3. client.accepted <= state.credited /\ client.accepted = Declared
    <3>1. \A h \in state.history : h[1] <= state.credited
      BY DEF Honest, CreditsKept
    <3> QED BY <1>2, <1>3, <1>5, <2>1, <2>2, <3>1
  <2>4. state.credited <= state.accepted /\ state.history # {}
    BY <2>1, <2>2 DEF Honest, CreditsKept
  <2>5. state.credited = Declared
    BY <1>4, <1>5, <2>3, <2>4
  <2>6. state.through = CreditAt(state.credited)
    BY <2>4 DEF Honest, CreditsKept
  <2> QED BY <1>5, <2>5, <2>6 DEF CreditAt
<1>6. phase # "Active"
  <2>1. CASE state.accepted < Declared
    BY <1>3, <2>1 DEF EndFailure
  <2>2. CASE state.accepted = Declared
    BY <1>3, <1>4, <1>5, <2>2 DEF EndFailure
  <2> QED BY <1>4, <2>1, <2>2
<1> QED BY <1>1, <1>6 DEF Honest, Fits, PhasesAt

\* Each failure of an honest upload is one of these.
LEMMA Failures ==
  ASSUME UploadInv, UploadAssumption, Honest, Actor, excuse' = "none", actor'.pc = "fail"
  PROVE  Blamed
<1>1. ActorTypes /\ phase \in PhasesAt(actor.pc)
  BY PlaceFacts
<1>2. actor.pc \in {"credit", "next", "handle", "record", "stage", "commit"}
  BY ActorWalks DEF Walk, Successors
<1>3. CASE CreditSettles
  <2>1. ~(~TerminalPending /\ ~Closed /\ write.at = "unsent")
    BY <1>1, <1>3, CreditFields DEF Honest, InStep
  <2>2. Failed("timeout", "any")
    BY <1>1, <1>3, <2>1, CreditFields DEF Looped, Goes, Returned
  <2> QED BY <2>2 DEF Failed, Blamed
<1>4. CASE ActorIdles
  BY <1>1, <1>4, IdleFields DEF Failed, Returned, Blamed
<1>5. CASE HandleFault
  <2>1. actor.ev.kind \notin {"BAD", "ACK", "NOCREDIT"}
    <3>1. RecordOk(actor.ev) /\ actor.pc = "handle"
      BY <1>1, <1>5, FaultFields DEF Honest, RecordsHonest
    <3> QED BY <3>1 DEF RecordOk
  <2> QED BY <1>1, <1>5, <2>1, FaultFields DEF Blamed
<1>6. CASE HandleCancel
  BY <1>1, <1>6, CancelFields DEF Goes, Turned, Looped
<1>7. CASE CancelRecords
  <2>1. phase # "Active"
    BY <1>1, <1>7, RecordFields DEF PhasesAt
  <2> QED BY <1>1, <1>7, <2>1, RecordFields DEF Failed, Blamed
<1>8. CASE HandleData
  <2>1. /\ ~(/\ actor.ev.off = state.accepted /\ actor.ev.off + actor.ev.n <= actor.ev.credit
             /\ actor.ev.credit <= state.through)
        /\ Failed("protocol", "preemptive")
    BY <1>1, <1>8, DataFields
  <2>2. actor.pc = "handle" /\ actor.ev.kind = "DATA" /\ UNCHANGED <<phase, Lanes>>
    BY <1>1, <1>8, DataFields
  <2> QED BY <2>1, <2>2 DEF Failed, Blamed
<1>9. CASE HandleEnd
  <2>1. /\ actor.pc = "handle" /\ Failed(EndFailure(actor.ev.n), "none")
        /\ UNCHANGED <<phase, ingress, state, Lanes>>
    BY <1>1, <1>9, EndFields DEF Goes
  <2>2. actor'.why = "protocol" => phase' = "Retired"
    BY <1>9, <2>1, EndBlames DEF Failed
  <2> QED BY <2>1, <2>2 DEF Blamed
<1>10. CASE HandleAbort
  BY <1>10, HonestAbort DEF Goes, Returned
<1>11. CASE StageInterrupted
  <2>1. Failed("timeout", "any")
    BY <1>1, <1>11, InterruptFields DEF Turned, Looped, Goes, Returned
  <2> QED BY <2>1 DEF Failed, Blamed
<1>12. CASE StageCompletes
  <2>1. Failed("sink", "preemptive")
    BY <1>1, <1>12, StageFields
  <2> QED BY <2>1 DEF Failed, Blamed
<1>13. CASE CommitAccepted
  <2>1. Failed("timeout", "any")
    BY <1>1, <1>13, CommitFields DEF Turned, Looped, Goes, Returned
  <2> QED BY <2>1 DEF Failed, Blamed
<1>14. ~ActorTakes
  BY <1>1, <1>2, TakeFields
<1> QED BY <1>2, <1>3, <1>4, <1>5, <1>6, <1>7, <1>8, <1>9, <1>10, <1>11, <1>12, <1>13, <1>14
    DEF Actor, OpenSettles, SelectDaemonAbort, AbortSettles, ActorWaitsForAck, AnswerAck,
       AnswerCrossedAbort, AnswerCancel, AnswerOther, CrossedAckSettles, HandshakeAbandoned,
       FinalAckSettles, FaultAckSettles, Promote, StageFinishes, Finalized, ReplySettles

-----------------------------------------------------------------------------
(* The offsets follow each other until the upload is doomed.               *)

\* Each step of an active upload is one of these.
LEMMA ActiveMoves ==
  ASSUME UploadInv, UploadAssumption, Honest, Actor, excuse' = "none", ActorKept,
         phase = "Active", phase' = "Active", ~TerminalPending, ~PreemptivePending,
         ~client.ended, actor'.pc # "fail"
  PROVE  ActiveMove
<1>1. ActorTypes /\ actor.pc \in Running /\ term = <<>> /\ deferred = NoEvent
  BY PlaceFacts DEF UploadInv, PhasesAgree, TerminalPending
<1>2. ~Returned
  BY DEF Returned
<1>3. \A s : Turned(s) => actor'.pc \in {"next", "credit"} /\ data' = data
  BY DEF Turned, Looped, Goes
<1>4. \A why, yield : ~Failed(why, yield)
  BY DEF Failed
<1>5. CASE OpenSettles
  BY <1>1, <1>2, <1>5, OpenFields DEF ActiveMove, Lanes
<1>6. CASE CreditSettles
  <2>1. Looped /\ actor.pc = "credit" /\ state' = IF write.at = "sent" THEN Credited(state) ELSE state
    BY <1>1, <1>2, <1>4, <1>6, CreditFields
  <2>2. state'.accepted = state.accepted
    BY <1>1, <2>1, CreditedFields DEF ActorTypes
  <2> QED BY <2>1, <2>2 DEF Looped, Goes, ActiveMove
<1>7. CASE ActorTakes
  <2>1. actor.pc = "next"
    BY <1>1, <1>7, TakeFields DEF Running
  <2> QED BY <1>1, <1>7, <2>1, TakeFields DEF ActiveMove
<1>8. ~ActorIdles
  BY <1>1, <1>2, <1>4, IdleFields
<1>9. ~HandleFault
  BY <1>1, <1>4, FaultFields
<1>10. ~HandleCancel
  BY <1>1, CancelFields
<1>11. CASE HandleData
  <2>1. /\ actor.pc = "handle" /\ actor.ev.kind = "DATA" /\ data' = data
        /\ actor'.pc = "stage" /\ actor'.ev = actor.ev
        /\ state' = [state EXCEPT !.history = {h \in @ : h[2] >= actor.ev.off + actor.ev.n}]
    BY <1>1, <1>4, <1>11, DataFields DEF Lanes
  <2>2. state'.accepted = state.accepted
    BY <1>1, <2>1 DEF ActorTypes, States
  <2> QED BY <2>1, <2>2 DEF ActiveMove
<1>12. ~HandleEnd /\ ~HandleAbort
  <2>1. ~HandleEnd
    <3>1. actor.pc = "handle" /\ actor.ev.kind = "END" => client.ended
      BY HandFacts
    <3> QED BY <1>1, <3>1, EndFields
  <2> QED BY <2>1, HonestAbort
<1>13. ~StageInterrupted
  BY <1>1, <1>2, <1>4, InterruptFields
<1>14. CASE StageCompletes
  <2>1. /\ actor.pc = "stage" /\ actor.ev.kind = "DATA" /\ data' = data
        /\ actor'.pc = "commit" /\ actor'.ev = actor.ev
        /\ state' = [state EXCEPT !.staged = @ + actor.ev.n]
    BY <1>1, <1>4, <1>14, StageFields DEF Lanes, UploadInv, DataInOrder
  <2>2. state'.accepted = state.accepted
    BY <1>1, <2>1 DEF ActorTypes, States
  <2> QED BY <2>1, <2>2 DEF ActiveMove
<1>15. CASE CommitAccepted
  <2>1. /\ actor.pc = "commit" /\ Turned(state')
        /\ state' = [state EXCEPT !.accepted = actor.ev.off + actor.ev.n]
    BY <1>1, <1>2, <1>4, <1>15, CommitFields
  <2>2. actor.ev.kind = "DATA" /\ state'.accepted = actor.ev.off + actor.ev.n
    BY <1>1, <2>1 DEF ActorTypes, States, UploadInv, DataInOrder
  <2> QED BY <1>3, <2>1, <2>2 DEF ActiveMove
<1>16. ~SelectDaemonAbort
  <2>1. ~Looped \/ ~SelectDaemonAbort
    BY <1>1, SelectFields
  <2> QED BY <1>1, <1>2, <2>1, SelectFields
<1>17. ~AbortSettles /\ ~ActorWaitsForAck /\ ~FinalAckSettles /\ ~FaultAckSettles /\ ~Promote
       /\ ~StageFinishes /\ ~Finalized /\ ~ReplySettles /\ ~CancelRecords
  BY <1>1 DEF Running, AbortSettles, ActorWaitsForAck, AnswerAck, AnswerCrossedAbort, AnswerCancel,
     AnswerOther, CrossedAckSettles, HandshakeAbandoned, FinalAckSettles, FaultAckSettles, Promote,
     StageFinishes, Finalized, ReplySettles, CancelRecords
<1> QED BY <1>5, <1>6, <1>7, <1>8, <1>9, <1>10, <1>11, <1>12, <1>13, <1>14, <1>15, <1>16, <1>17 DEF Actor

\* The chain of offsets: what is accepted, the record in hand, the lane.
LEMMA ChainMoves ==
  ASSUME UploadInv, Fits, Fits', Chained, ActiveMove, reader' = reader,
         ingress'.received = ingress.received, gone => gone'
  PROVE  Chained'
<1>1. data \in Seq(Events)
  BY DEF UploadInv, ActorTypes
<1>2. CASE data' = data /\ HandEnd' = HandEnd /\ (Holding' => actor'.ev.off = state'.accepted)
  <2>1. LaneEnd' = LaneEnd
    BY <1>2 DEF LaneEnd
  <2> QED BY <1>2, <2>1 DEF Chained
<1>3. CASE actor.pc \in {"open", "credit"} /\ actor'.pc \in {"credit", "next"}
  <2>1. ~Holding /\ ~Holding' /\ data' = data /\ state'.accepted = state.accepted
    BY <1>3 DEF ActiveMove, Holding
  <2> QED BY <1>2, <2>1 DEF HandEnd
<1>4. CASE /\ <<actor.pc, actor'.pc>> \in {<<"handle", "stage">>, <<"stage", "commit">>}
           /\ actor.ev.kind = "DATA" /\ actor'.ev = actor.ev
           /\ UNCHANGED data /\ state'.accepted = state.accepted
  <2>1. Holding /\ Holding'
    BY <1>4 DEF Holding
  <2> QED BY <1>2, <1>4, <2>1 DEF HandEnd, Chained
<1>5. CASE /\ actor.pc = "commit" /\ actor.ev.kind = "DATA" /\ actor'.pc \in {"next", "credit"}
           /\ UNCHANGED data /\ state'.accepted = actor.ev.off + actor.ev.n
  <2>1. Holding /\ ~Holding'
    BY <1>5 DEF Holding
  <2> QED BY <1>2, <1>5, <2>1 DEF HandEnd
<1>6. CASE /\ actor.pc = "next" /\ actor'.pc = "handle" /\ data # <<>>
           /\ actor'.ev = Head(data) /\ data' = Tail(data) /\ state' = state
  <2>1. /\ Head(data) = data[1] /\ 1 \in DOMAIN data /\ data[1].kind = "DATA"
        /\ Len(data) \in Nat /\ Len(data) >= 1 /\ Len(data) \in DOMAIN data
        /\ Len(Tail(data)) = Len(data) - 1
        /\ \A i \in DOMAIN Tail(data) : i \in Nat /\ i >= 1 /\ i + 1 \in DOMAIN data
                                        /\ Tail(data)[i] = data[i + 1]
        /\ \A i \in DOMAIN Tail(data) : i # 1 => i - 1 \in DOMAIN Tail(data)
        /\ Tail(data) # <<>> => Len(data) - 1 \in DOMAIN Tail(data)
        /\ Tail(data) = <<>> => Len(data) = 1
    <3>1. /\ Head(data) = data[1] /\ 1 \in DOMAIN data
          /\ Len(data) \in Nat /\ Len(data) >= 1 /\ Len(data) \in DOMAIN data
          /\ Len(Tail(data)) = Len(data) - 1 /\ DOMAIN Tail(data) = 1..(Len(data) - 1)
          /\ DOMAIN data = 1..Len(data)
      BY <1>1, <1>6
    <3>2. /\ \A i \in DOMAIN Tail(data) : i \in Nat /\ i >= 1 /\ i + 1 \in DOMAIN data
          /\ \A i \in DOMAIN Tail(data) : i # 1 => i - 1 \in DOMAIN Tail(data)
      BY <3>1
    <3>3. \A i \in DOMAIN Tail(data) : Tail(data)[i] = data[i + 1]
      BY <1>1, <1>6
    <3>4. data[1].kind = "DATA"
      BY <3>1 DEF UploadInv, DataInOrder
    <3>5. /\ Tail(data) # <<>> => Len(data) - 1 \in DOMAIN Tail(data)
          /\ Tail(data) = <<>> => Len(data) = 1
      <4>1. ASSUME NEW s \in Seq(Events) PROVE s = <<>> <=> Len(s) = 0
        OBVIOUS
      <4>2. Tail(data) \in Seq(Events)
        BY <1>1, <1>6, TailMoves
      <4>3. Tail(data) = <<>> <=> Len(Tail(data)) = 0
        BY <4>1, <4>2
      <4> QED BY <3>1, <4>3
    <3> QED BY <3>1, <3>2, <3>3, <3>4, <3>5
  <2>2. ~Holding /\ Holding'
    BY <1>6, <2>1 DEF Holding
  <2>3. data[1].off = state.accepted /\ HandEnd' = data[1].off + data[1].n
    BY <1>6, <2>1, <2>2 DEF Chained, HandEnd
  <2>4. LaneEnd' = LaneEnd
    <3>1. CASE Tail(data) = <<>>
      BY <1>6, <2>1, <2>3, <3>1 DEF LaneEnd
    <3>2. CASE Tail(data) # <<>>
      <4>1. Tail(data)[Len(Tail(data))] = data[Len(data)]
        BY <2>1, <3>2
      <4> QED BY <1>6, <2>1, <3>2, <4>1 DEF LaneEnd
    <3> QED BY <3>1, <3>2
  <2>5. ASSUME NEW i \in DOMAIN data'
        PROVE  data'[i].off = IF i = 1 THEN HandEnd' ELSE data'[i - 1].off + data'[i - 1].n
    <3>1. /\ i \in Nat /\ i >= 1 /\ i + 1 \in DOMAIN data /\ data'[i] = data[i + 1]
          /\ i # 1 => data'[i - 1] = data[i]
      <4>1. i # 1 => i - 1 \in DOMAIN Tail(data) /\ Tail(data)[i - 1] = data[(i - 1) + 1]
        BY <1>6, <2>1, <2>5
      <4> QED BY <1>6, <2>1, <2>5, <4>1
    <3>2. data[i + 1].off = data[i].off + data[i].n
      <4>1. i + 1 # 1 /\ (i + 1) - 1 = i
        BY <3>1
      <4> QED BY <3>1, <4>1 DEF Chained
    <3> QED BY <2>3, <3>1, <3>2
  <2>6. actor'.ev.off = state'.accepted
    BY <1>6, <2>1, <2>3
  <2> QED BY <2>4, <2>5, <2>6 DEF Chained
<1> QED BY <1>3, <1>4, <1>5, <1>6 DEF ActiveMove

\* After END the lane stays empty.
LEMMA DrainedChained ==
  ASSUME UploadInv, UploadInv', UploadAssumption, Honest, ActorKept, client.ended
  PROVE  Chained'
<1>1. /\ client.sent = state.accepted /\ ingress.received = state.accepted
      /\ data = <<>> /\ reader.ev.kind # "DATA" /\ actor.ev.kind # "DATA"
      /\ actor.pc \notin {"stage", "commit"}
  BY Drained
<1>2. data' = <<>> /\ reader' = reader /\ ingress'.received = ingress.received
  BY <1>1 DEF ActorKept, Forward, LanesDrain, IngressStays
<1>3. actor'.ev.kind # "DATA"
  <2>1. \A i \in DOMAIN term : term[i].kind # "DATA"
    BY DEF UploadInv, EndsOwned
  <2>2. actor'.ev \in {NoEvent, actor.ev} \cup Waiting
    <3>1. {data[i] : i \in DOMAIN data} = {}
      BY <1>1
    <3> QED BY <3>1, ActorWaiting
  <2> QED BY <1>1, <2>1, <2>2 DEF Waiting, NoEvent
<1>4. state'.accepted = state.accepted
  BY <1>1, StateFields DEF ActorKept, UploadInv, ActorTypes
<1>5. ~Holding' /\ HandEnd' = state.accepted /\ LaneEnd' = state.accepted
  BY <1>2, <1>3, <1>4 DEF Holding, HandEnd, LaneEnd
<1> QED BY <1>1, <1>2, <1>5 DEF Chained

\* The actor keeps the offsets in step.
LEMMA ActorInStep ==
  ASSUME UploadInv, UploadInv', UploadAssumption, Honest, Actor, excuse' = "none", ActorKept, Fits'
  PROVE  InStep'
<1>1. /\ PhaseForward /\ LanesDrain /\ IngressStays /\ UNCHANGED <<reader, client>>
      /\ gone => gone'
      /\ ActorTypes /\ Walk /\ Reason /\ InStep /\ Fits
  BY ActorWalks, PlaceFacts DEF ActorKept, Forward, Honest
<1>2. Doomed => Doomed'
  BY DoomedStays
<1>3. ingress'.refused => Doomed'
  BY <1>1, <1>2 DEF InStep, IngressStays
<1>4. client'.sent # ingress'.received => Doomed'
  BY <1>1, <1>2 DEF InStep, IngressStays
<1>5. Chained' \/ Doomed' \/ actor'.pc = "fail"
  <2>1. SUFFICES ASSUME ~Doomed', actor'.pc # "fail" PROVE Chained'
    OBVIOUS
  <2>2. ~Doomed /\ phase' = phase /\ phase \in {"Opening", "Active"} /\ ~PreemptivePending
    BY <1>1, <1>2, <2>1 DEF PhaseForward, Doomed
  <2>3. CASE client.ended
    BY <2>3, DrainedChained
  <2>4. CASE ~client.ended
    <3>1. phase = "Active"
      <4>1. SUFFICES ASSUME phase = "Opening" PROVE FALSE
        BY <2>2
      <4>2. actor.pc = "open" /\ write.at \notin {"started", "sent"}
        BY <4>1 DEF UploadInv, PhasesAgree
      <4>3. OpenSettles
        BY <4>2 DEF Actor, CreditSettles, ActorTakes, ActorIdles, HandleFault, handling, HandleCancel,
           CancelRecords, HandleData, HandleEnd, HandleAbort, StageInterrupted, StageCompletes,
           CommitAccepted, SelectDaemonAbort, AbortSettles, ActorWaitsForAck, AnswerAck,
           AnswerCrossedAbort, AnswerCancel, AnswerOther, CrossedAckSettles, HandshakeAbandoned,
           FinalAckSettles, FaultAckSettles, Promote, StageFinishes, Finalized, ReplySettles
      <4> QED BY <1>1, <2>2, <4>1, <4>2, <4>3, OpenFields DEF Returned
    <3>2. ~TerminalPending
      BY <2>2, <2>4, <3>1, PendingEnds
    <3>3. ActiveMove
      BY <2>1, <2>2, <2>4, <3>1, <3>2, ActiveMoves
    <3>4. actor.pc # "fail"
      BY <3>3 DEF ActiveMove
    <3>5. Chained
      BY <1>1, <2>2, <3>4 DEF InStep
    <3> QED BY <1>1, <3>3, <3>5, ChainMoves DEF IngressStays
  <2> QED BY <2>3, <2>4
<1>6. actor'.pc = "handle" => /\ actor.pc = "next"
                              /\ \/ /\ actor'.ev = Head(term)
                                    /\ processing' = IF IsPreemptive(Head(term)) THEN "preemptive" ELSE "plain"
                                 \/ data # <<>> /\ actor'.ev = Head(data)
  <2>1. SUFFICES ASSUME actor'.pc = "handle"
                 PROVE  /\ actor.pc = "next"
                        /\ \/ /\ actor'.ev = Head(term)
                              /\ processing' = IF IsPreemptive(Head(term)) THEN "preemptive" ELSE "plain"
                           \/ data # <<>> /\ actor'.ev = Head(data)
    OBVIOUS
  <2>2. actor.pc = "next"
    BY <1>1, <2>1 DEF Walk, Successors
  <2>3. actor'.ev.kind # "none" /\ actor.ev.kind = "none"
    BY <1>1, <2>1, <2>2 DEF Fits
  <2> QED BY <1>1, <2>2, <2>3 DEF LanesDrain, NoEvent
<1>7. data # <<>> => Head(data).kind = "DATA"
  <2>1. data # <<>> => 1 \in DOMAIN data /\ Head(data) = data[1]
    BY <1>1 DEF ActorTypes
  <2> QED BY <2>1 DEF UploadInv, DataInOrder
<1>8. actor'.pc = "handle" /\ IsPreemptive(actor'.ev) => processing' = "preemptive"
  BY <1>6, <1>7 DEF IsPreemptive
<1>9. processing' = "preemptive" /\ phase' = "Active" =>
        \/ actor'.pc = "handle" /\ IsPreemptive(actor'.ev)
        \/ actor'.pc = "fail" /\ actor'.yield = "none"
  <2>1. SUFFICES ASSUME processing' = "preemptive", phase' = "Active", processing # "preemptive"
                 PROVE  actor'.pc = "handle" /\ IsPreemptive(actor'.ev)
    BY PreemptiveHeld
  <2>2. phase = "Active"
    BY <1>1, <2>1 DEF PhaseForward
  <2>3. actor.pc \in Running
    BY <2>2 DEF UploadInv, PhasesAgree
  <2>4. CASE /\ actor.pc \in {"next", "waitack"}
             /\ actor'.pc = IF actor.pc = "next" THEN "handle" ELSE "answer"
             /\ actor'.ev = Head(term)
             /\ processing' = IF IsPreemptive(Head(term)) THEN "preemptive" ELSE "plain"
    BY <2>1, <2>3, <2>4 DEF Running
  <2> QED BY <1>1, <2>1, <2>4 DEF LanesDrain
<1>10. actor'.pc = "fail" /\ actor'.yield = "none" /\ phase' = "Active" /\ ~PreemptivePending' =>
         client'.ended \/ state'.accepted < ingress'.received
  <2>1. SUFFICES ASSUME actor'.pc = "fail", actor'.yield = "none", phase' = "Active",
                        ~PreemptivePending', ~client.ended
                 PROVE  state'.accepted < ingress'.received
    BY <1>1
  <2>2. actor.pc = "handle" /\ phase = "Active" /\ UNCHANGED <<ingress, state, Lanes>>
    BY <2>1, Failures DEF Blamed
  <2>3. processing # "preemptive"
    BY <2>1, <2>2 DEF PreemptivePending, Lanes
  <2>4. actor.ev.kind = "DATA"
    BY <2>1, <2>2, <2>3, HandFacts
  <2> QED BY <2>2, <2>4, DataFacts
<1>11. actor'.pc = "credit" /\ write'.at = "unsent" => TerminalPending' \/ Closed'
  BY <1>1 DEF Walk
<1> QED BY <1>3, <1>4, <1>5, <1>8, <1>9, <1>10, <1>11 DEF InStep, IsPreemptive

-----------------------------------------------------------------------------
(* Nothing is blamed on the producer.                                      *)

\* While a record over the declared size waits, no DATA is left to handle.
LEMMA OversizeFacts ==
  ASSUME UploadInv, UploadAssumption, Honest, NEW o \in Waiting, o.kind = "OVERSIZE"
  PROVE  /\ actor.ev.kind # "DATA" /\ data = <<>> /\ actor.pc \notin {"open", "stage", "commit"}
         /\ TerminalPending /\ PreemptivePending
         /\ actor.pc = "handle" => phase # "Active"
<1>1. RecordOk(o)
  BY DEF Honest, RecordsHonest
<1>2. client.sent > Declared /\ state.accepted = Declared
  BY <1>1 DEF RecordOk
<1>3. /\ state.staged \in Nat /\ Declared \in Nat /\ ingress.received \in Nat
      /\ Declared <= state.staged /\ state.staged <= ingress.received /\ ingress.received <= Declared
  BY <1>2 DEF UploadInv, ActorTypes, States, WireTypes, Ingresses, DataInOrder, UploadAssumption
<1>4. actor.pc \notin {"stage", "commit"}
  BY <1>2, <1>3, DataFacts DEF UploadInv, DataInOrder
<1>5. actor.pc = "handle" => actor.ev.kind # "DATA"
  BY <1>2, <1>3, DataFacts
<1>6. actor.pc \in Running \cup {"done"}
  BY DEF Honest, Oversized
<1>7. actor.ev.kind # "DATA"
  BY <1>4, <1>5, <1>6 DEF Honest, Fits, Running
<1>8. data = <<>>
  <2>1. SUFFICES ASSUME data # <<>> PROVE FALSE
    OBVIOUS
  <2>2. data \in Seq(Events)
    BY DEF UploadInv, ActorTypes
  <2>3. 1 \in DOMAIN data /\ data[1] \in Events
    BY <2>1, <2>2
  <2>4. data[1].kind = "DATA" /\ Waits(data[1]) /\ Datum(data[1])
    BY <2>3 DEF UploadInv, DataInOrder, Honest, RecordsHonest
  <2>5. data[1].off \in Nat /\ data[1].n \in Nat
    BY <2>3, <2>4 DEF Events, Received, Asked
  <2> QED BY <1>3, <2>4, <2>5 DEF Waits, Datum
<1>9. actor.pc # "open"
  <2>1. SUFFICES ASSUME ~client.granted PROVE FALSE
    BY DEF Honest, Handshakes
  <2>2. client.sent = 0
    BY <2>1 DEF Honest, CreditsSeen
  <2> QED BY <1>2, <1>3, <2>2
<1>10. TerminalPending /\ PreemptivePending
  BY WaitingPends DEF IsPreemptive
<1>11. actor.pc = "handle" => phase # "Active"
  <2>1. SUFFICES ASSUME actor.pc = "handle", phase = "Active" PROVE FALSE
    OBVIOUS
  <2>2. processing # "preemptive"
    BY <2>1 DEF Honest, Oversized
  <2>3. actor.ev.kind = "END"
    BY <1>7, <2>1, <2>2, HandFacts
  <2>4. Rank(actor.ev) = 1 /\ Rank(o) = 1
    BY <2>3 DEF Rank
  <2> QED BY <2>4 DEF Honest, InRank
<1> QED BY <1>4, <1>7, <1>8, <1>9, <1>10, <1>11

\* The actor handles no DATA behind a record over the declared size.
LEMMA ActorOversized ==
  ASSUME UploadInv, UploadInv', UploadAssumption, Honest, Actor, excuse' = "none", ActorKept, Fits'
  PROVE  Oversized'
<1>1. /\ PhaseForward /\ LanesDrain /\ UNCHANGED <<order, reader>>
      /\ \A c \in Cancellers : cancels'[c].ticket = cancels[c].ticket
      /\ ActorTypes /\ Walk /\ Reason /\ Oversized /\ Fits
  BY ActorWalks, PlaceFacts DEF ActorKept, TicketsStay, Forward, Honest
<1>2. reader'.ev.kind = "OVERSIZE" =>
        /\ term' = <<>>
        /\ \A c \in Cancellers : cancels'[c].ticket # NoTicket => reader'.ticket < cancels'[c].ticket
  BY <1>1 DEF Oversized, LanesDrain
<1>3. \A i \in DOMAIN term' : term'[i].kind = "OVERSIZE" => i = 1
  <2>1. CASE term' = term \/ term' = <<>>
    BY <1>1, <2>1 DEF Oversized
  <2>2. CASE term # <<>> /\ term' = Tail(term)
    <3> SUFFICES ASSUME NEW i \in DOMAIN term', term'[i].kind = "OVERSIZE" PROVE FALSE
      OBVIOUS
    <3>1. i + 1 \in DOMAIN term /\ term'[i] = term[i + 1]
      BY <2>2, HeadFacts
    <3>2. i \in Nat /\ i >= 1
      BY <1>1, <2>2 DEF ActorTypes
    <3>3. i + 1 = 1
      BY <1>1, <3>1 DEF Oversized
    <3> QED BY <3>2, <3>3
  <2> QED BY <1>1, <2>1, <2>2 DEF LanesDrain
<1>4. actor'.pc = "answer" => actor'.ev.kind # "OVERSIZE"
  <2>1. SUFFICES ASSUME actor'.pc = "answer", actor'.ev.kind = "OVERSIZE" PROVE FALSE
    OBVIOUS
  <2>2. actor.pc = "waitack" /\ actor.ev.kind = "none"
    BY <1>1, <2>1 DEF Walk, Successors, Fits
  <2>3. actor'.ev \notin Waiting
    BY <2>1, <2>2, <1>1 DEF Oversized, Running
  <2>4. \A i \in DOMAIN data : data[i].kind = "DATA"
    BY DEF UploadInv, DataInOrder
  <2> QED BY <2>1, <2>2, <2>3, <2>4, ActorWaiting DEF NoEvent
<1>5. ASSUME NEW o \in Waiting', o.kind = "OVERSIZE"
      PROVE  /\ actor'.pc \in Running \cup {"done"} /\ phase' \in {"Active", "Retired"}
             /\ phase' = "Active" => /\ processing' # "preemptive"
                                     /\ actor'.pc = "fail" => actor'.yield # "none"
  <2>1. o \in Waiting
    BY <1>5, ActorWaiting
  <2>2. /\ actor.ev.kind # "DATA" /\ data = <<>> /\ actor.pc \notin {"open", "stage", "commit"}
        /\ TerminalPending /\ PreemptivePending
        /\ actor.pc = "handle" => phase # "Active"
    BY <1>5, <2>1, OversizeFacts
  <2>3. /\ actor.pc \in Running \cup {"done"} /\ phase \in {"Active", "Retired"}
        /\ phase = "Active" => /\ processing # "preemptive"
                               /\ actor.pc = "fail" => actor.yield # "none"
    BY <1>1, <1>5, <2>1 DEF Oversized
  <2>4. CASE phase = "Retired"
    <3>1. actor'.pc \notin {"record", "finish", "ack", "abort", "reply"}
      BY <1>1, <2>2, <2>3, <2>4 DEF Walk, Reason, Successors, Running
    <3>2. actor'.pc \in Running \cup {"done"}
      BY <1>1, <2>2, <2>3, <3>1 DEF Walk, Successors, Running
    <3> QED BY <1>1, <2>4, <3>2 DEF PhaseForward
  <2>5. CASE phase = "Active"
    <3>1. actor.pc \in {"credit", "next", "fail"}
      BY <2>2, <2>3, <2>5, <1>1 DEF Running, Walk, Successors
    <3>2. CASE actor.pc = "credit"
      <4>1. CreditSettles
        BY <3>2 DEF Actor, OpenSettles, ActorTakes, ActorIdles, HandleFault, handling, HandleCancel,
           CancelRecords, HandleData, HandleEnd, HandleAbort, StageInterrupted, StageCompletes,
           CommitAccepted, SelectDaemonAbort, AbortSettles, ActorWaitsForAck, AnswerAck,
           AnswerCrossedAbort, AnswerCancel, AnswerOther, CrossedAckSettles, HandshakeAbandoned,
           FinalAckSettles, FaultAckSettles, Promote, StageFinishes, Finalized, ReplySettles
      <4>2. Looped
        BY <1>1, <2>2, <4>1, CreditFields
      <4> QED BY <2>5, <4>2, PlaceFacts DEF Looped, Goes, Running
    <3>3. CASE actor.pc = "fail"
      <4>1. SelectDaemonAbort
        BY <3>3 DEF Actor, OpenSettles, ActorTakes, ActorIdles, HandleFault, handling, HandleCancel,
           CancelRecords, HandleData, HandleEnd, HandleAbort, StageInterrupted, StageCompletes,
           CommitAccepted, CreditSettles, AbortSettles, ActorWaitsForAck, AnswerAck,
           AnswerCrossedAbort, AnswerCancel, AnswerOther, CrossedAckSettles, HandshakeAbandoned,
           FinalAckSettles, FaultAckSettles, Promote, StageFinishes, Finalized, ReplySettles
      <4>2. actor.yield \in {"any", "preemptive"}
        BY <1>1, <2>3, <2>5, <3>3 DEF ActorTypes, Actors
      <4>3. Looped
        BY <1>1, <2>2, <2>5, <4>1, <4>2, SelectFields
      <4> QED BY <2>5, <4>3, PlaceFacts DEF Looped, Goes, Running
    <3>4. CASE actor.pc = "next"
      <4>1. ActorTakes
        <5>1. ~ActorIdles
          BY <1>1, <2>2, IdleFields
        <5> QED BY <3>4, <5>1 DEF Actor, OpenSettles, HandleFault, handling, HandleCancel,
           CancelRecords, HandleData, HandleEnd, HandleAbort, StageInterrupted, StageCompletes,
           CommitAccepted, CreditSettles, SelectDaemonAbort, AbortSettles, ActorWaitsForAck, AnswerAck,
           AnswerCrossedAbort, AnswerCancel, AnswerOther, CrossedAckSettles, HandshakeAbandoned,
           FinalAckSettles, FaultAckSettles, Promote, StageFinishes, Finalized, ReplySettles
      <4>2. term # <<>> /\ term' = Tail(term)
        BY <1>1, <2>2, <4>1, PlaceFacts, TakeFields
      <4>3. reader.ev.kind # "OVERSIZE"
        BY <1>1, <4>2 DEF Oversized
      <4>4. PICK i \in DOMAIN term' : term'[i].kind = "OVERSIZE"
        BY <1>1, <1>5, <4>3 DEF Waiting
      <4>5. i = 1 /\ i + 1 \in DOMAIN term /\ term[i + 1].kind = "OVERSIZE"
        BY <1>3, <4>2, <4>4, HeadFacts
      <4>6. i + 1 = 1
        BY <1>1, <4>5 DEF Oversized
      <4> QED BY <4>5, <4>6
    <3> QED BY <3>1, <3>2, <3>3, <3>4
  <2> QED BY <2>3, <2>4, <2>5
<1> QED BY <1>2, <1>3, <1>4, <1>5 DEF Oversized

\* The actor blames nothing on the producer.
LEMMA ActorBlameless ==
  ASSUME UploadInv, UploadInv', UploadAssumption, Honest, Actor, excuse' = "none", ActorKept, Fits'
  PROVE  Blameless'
<1>1. /\ PhaseForward /\ UNCHANGED <<order, reader>>
      /\ \A c \in Cancellers : cancels'[c].ticket = cancels[c].ticket
      /\ Walk /\ Reason /\ Blameless
  BY ActorWalks DEF ActorKept, TicketsStay, Forward, Honest
<1>2. owner'.result # "malformed"
  BY <1>1 DEF Walk, Blameless
<1>3. actor'.pc \in {"abort", "waitack", "answer", "cross"} => actor'.why # "protocol"
  <2>1. actor'.pc \in {"waitack", "answer", "cross"} => actor.pc \in {"abort", "waitack", "answer", "cross"}
    BY <1>1 DEF Walk, Successors
  <2>2. actor'.pc = "abort" => actor.pc = "fail"
    BY <1>1 DEF Walk, Successors
  <2> QED BY <1>1, <2>1, <2>2 DEF Blameless, Walk, Reason
<1>4. actor'.pc = "fail" /\ actor'.why = "protocol" =>
        phase' = "Retired" \/ (phase' = "Active" /\ actor'.yield = "preemptive" /\ PreemptivePending')
  <2>1. SUFFICES ASSUME actor'.pc = "fail", actor'.why = "protocol", phase' # "Retired"
                 PROVE  phase' = "Active" /\ actor'.yield = "preemptive" /\ PreemptivePending'
    OBVIOUS
  <2>2. /\ actor'.yield = "preemptive" /\ actor.pc = "handle" /\ actor.ev.kind = "DATA"
        /\ UNCHANGED <<phase, Lanes>>
        /\ ~(/\ actor.ev.off = state.accepted /\ actor.ev.off + actor.ev.n <= actor.ev.credit
             /\ actor.ev.credit <= state.through)
    BY <2>1, Failures DEF Blamed
  <2>3. phase = "Active"
    BY <2>1, <2>2 DEF Honest, Fits, PhasesAt
  <2>4. actor.ev.off # state.accepted
    BY <2>2, DataFacts
  <2>5. ~Chained
    BY <2>2, <2>4 DEF Chained, Holding
  <2>6. PreemptivePending
    BY <2>2, <2>3, <2>5 DEF Honest, InStep, Doomed
  <2>7. PreemptivePending' = PreemptivePending
    BY <1>1, <2>2 DEF PreemptivePending, Admitting, Lanes, IsPreemptive
  <2> QED BY <2>2, <2>3, <2>6, <2>7
<1>5. actor'.pc \notin {"faultack", "promote"} /\ phase' # "ClientAbortAckSent"
  BY <1>1 DEF Walk, Successors, PhaseForward, Blameless
<1> QED BY <1>2, <1>3, <1>4, <1>5 DEF Blameless

\* The upload an END owns was ended by its producer.
LEMMA OwningEnded ==
  ASSUME UploadInv, Honest, actor.pc \in Owning
  PROVE  client.ended
  BY DEF UploadInv, OwnersWhole, Whole, Honest, RecordsHonest

\* The daemon acknowledges an ABORT behind which nothing came.
LEMMA AckFacts ==
  ASSUME UploadInv, UploadAssumption, Honest, actor.pc = "handle", actor.ev.kind = "ABORT"
  PROVE  /\ client.aborted /\ reader.ev = NoEvent
         /\ \A i \in DOMAIN term : term[i].kind = "CANCEL"
<1>1. client.aborted
  BY DEF Honest, RecordsHonest, RecordOk
<1>2. ASSUME NEW e \in Waiting, e.kind # "DATA" PROVE e.kind \in {"none", "CANCEL"}
  <2>1. RecordOk(e) /\ e.kind # "ACK"
    BY DEF Honest, RecordsHonest, RecordOk
  <2>2. Rank(actor.ev) = 2
    BY DEF Rank
  <2>3. Rank(e) # 0 => 2 < Rank(e)
    BY <2>2 DEF Honest, InRank
  <2> QED BY <1>2, <2>1, <2>3 DEF RecordOk, Rank
<1>3. reader.ev.kind = "none"
  BY <1>1, <1>2 DEF Honest, RecordsHonest, Waiting
<1>4. reader.ev = NoEvent
  BY <1>3 DEF UploadInv, ActorTypes, Events, Received, Asked, RecordKinds
<1>5. ASSUME NEW i \in DOMAIN term PROVE term[i].kind = "CANCEL"
  <2>1. term[i] \in Waiting
    BY DEF Waiting
  <2>2. term[i].kind # "DATA"
    BY DEF UploadInv, EndsOwned
  <2>3. term[i] \in Events
    BY DEF UploadInv, ActorTypes
  <2>4. term[i].kind # "none"
    BY <2>3 DEF Events, Received, Asked, RecordKinds
  <2> QED BY <1>2, <2>1, <2>2, <2>4
<1> QED BY <1>1, <1>4, <1>5

-----------------------------------------------------------------------------
(* The ABORT handshake and the reply.                                      *)

\* The actor keeps to the handshake.
LEMMA ActorHandshakes ==
  ASSUME UploadInv, UploadInv', UploadAssumption, Honest, Actor, excuse' = "none", ActorKept, Fits'
  PROVE  Handshakes'
<1>1. /\ PhaseForward /\ LanesDrain /\ UNCHANGED <<reader, client, down>> /\ (gone => gone')
      /\ Walk /\ Reason /\ Handshakes /\ Fits
  BY ActorWalks DEF ActorKept, Forward, Honest
<1>2. /\ InDown("ABORT")' = InDown("ABORT") /\ InDown("ACK")' = InDown("ACK")
      /\ InDown("CREDIT")' = InDown("CREDIT") /\ AwaitsAck' = AwaitsAck
  BY <1>1 DEF InDown, AwaitsAck
<1>3. /\ \A i, j \in DOMAIN down' : down'[i].kind = "ABORT" /\ down'[j].kind = "ABORT" => i = j
      /\ InDown("ABORT")' => ~client'.told
      /\ client'.owes \/ phase' = "AckPending" => client'.told
  <2>1. phase' = "AckPending" => phase = "AckPending"
    BY <1>1 DEF PhaseForward
  <2> QED BY <1>1, <1>2, <2>1 DEF Handshakes
<1>4. AwaitsAck' /\ ~gone' => phase' = "DaemonAbortWaitAck"
  <2>1. SUFFICES ASSUME AwaitsAck, ~gone' PROVE phase' = "DaemonAbortWaitAck"
    BY <1>2
  <2>2. phase = "DaemonAbortWaitAck"
    BY <1>1, <2>1 DEF Handshakes
  <2>3. actor.pc \in {"abort", "waitack", "answer", "cross"}
    BY <1>1, <2>2 DEF Fits, PhasesAt
  <2>4. actor.ev.kind # "ACK"
    BY <2>1 DEF Honest, RecordsHonest, RecordOk
  <2>5. actor'.pc \notin {"reply", "done"}
    BY <1>1, <2>1, <2>2, <2>3, <2>4 DEF Walk, Reason, Successors
  <2> QED BY <1>1, <2>2, <2>5 DEF PhaseForward, Reason
<1>5. phase' \notin {"DaemonAbortWaitAck", "AckPending", "Retired"} => ~client'.told /\ ~InDown("ABORT")'
  BY <1>1, <1>2 DEF PhaseForward, Handshakes
<1>6. actor'.pc # "open"
  BY <1>1 DEF Walk, Successors
<1>7. actor'.pc = "ack" =>
        /\ client'.aborted /\ ~client'.told /\ ~InDown("ABORT")' /\ reader'.ev = NoEvent
        /\ \A i \in DOMAIN term' : term'[i].kind = "CANCEL"
  <2>1. SUFFICES ASSUME actor'.pc = "ack"
                 PROVE  /\ client'.aborted /\ ~client'.told /\ ~InDown("ABORT")' /\ reader'.ev = NoEvent
                        /\ \A i \in DOMAIN term' : term'[i].kind = "CANCEL"
    OBVIOUS
  <2>2. actor.pc = "handle" /\ actor.ev.kind = "ABORT" /\ phase = "Active" /\ term' = term
    BY <1>1, <2>1 DEF Walk, Reason, Successors
  <2>3. ~client.told /\ ~InDown("ABORT")
    BY <1>1, <2>2 DEF Handshakes
  <2> QED BY <1>1, <1>2, <2>2, <2>3, AckFacts
<1>8. write'.at \notin {"started", "sent", "unsent"}
  BY <1>1 DEF Walk
<1>9. actor'.pc = "cross" \/ actor'.crossed =>
        client'.aborted /\ \A e \in Waiting' \cup {actor'.ev} : e.kind # "ABORT"
  <2>1. CASE actor.crossed \/ actor.pc = "cross"
    <3>1. client.aborted /\ \A e \in Waiting \cup {actor.ev} : e.kind # "ABORT"
      BY <1>1, <2>1 DEF Handshakes
    <3>2. \A i \in DOMAIN data : data[i].kind # "ABORT"
      BY DEF UploadInv, DataInOrder
    <3> QED BY <1>1, <3>1, <3>2, ActorWaiting DEF NoEvent
  <2>2. CASE ~(actor.crossed \/ actor.pc = "cross") /\ actor'.pc = "cross"
    <3>1. actor.pc = "answer" /\ actor.ev.kind = "ABORT" /\ actor'.ev = NoEvent
      BY <1>1, <2>2 DEF Walk, Reason, Successors
    <3>2. client.aborted
      BY <3>1 DEF Honest, RecordsHonest, RecordOk
    <3>3. \A e \in Waiting : e.kind # "ABORT"
      <4>1. Rank(actor.ev) = 2 /\ \A e \in Waiting : e.kind = "ABORT" => Rank(e) = 2
        BY <3>1 DEF Rank
      <4> QED BY <4>1 DEF Honest, InRank
    <3> QED BY <1>1, <3>1, <3>2, <3>3, ActorWaiting DEF NoEvent
  <2> QED BY <1>1, <2>1, <2>2 DEF Walk
<1>10. client'.aborted /\ ~client'.ended /\ ~gone' =>
         \/ \E e \in Waiting' \cup {actor'.ev} : e.kind = "ABORT"
         \/ actor'.pc \in {"ack", "cross", "done"} \/ client'.acked \/ InDown("ACK")'
  <2>1. SUFFICES ASSUME client.aborted, ~client.ended, ~gone', ~client.acked, ~InDown("ACK"),
                        actor'.pc \notin {"ack", "cross", "done"}
                 PROVE  \E e \in Waiting' \cup {actor'.ev} : e.kind = "ABORT"
    BY <1>1, <1>2
  <2>2. \/ \E e \in Waiting \cup {actor.ev} : e.kind = "ABORT"
        \/ actor.pc \in {"ack", "cross", "done"}
    BY <1>1, <2>1 DEF Handshakes
  <2>3. actor.ev.kind # "ABORT"
    BY <1>1, <2>1 DEF Reason
  <2>4. actor.pc \notin {"ack", "cross", "done"}
    <3>1. actor.pc # "done"
      BY <1>1 DEF Walk, Successors
    <3>2. SUFFICES ASSUME actor.pc \in {"ack", "cross"} PROVE FALSE
      BY <3>1
    <3>3. actor'.pc \in {"waitack", "reply"}
      BY <1>1, <2>1, <3>2 DEF Walk, Successors
    <3>4. write.at = "sent"
      BY <1>1, <2>1, <3>2, <3>3 DEF Reason
    <3> QED BY <1>1, <2>1, <3>2, <3>4 DEF Handshakes
  <2>5. PICK e \in Waiting : e.kind = "ABORT"
    BY <2>2, <2>3, <2>4
  <2>6. CASE e = reader.ev
    BY <1>1, <2>5, <2>6 DEF Waiting
  <2>7. CASE \E i \in DOMAIN term : e = term[i]
    <3>1. PICK i \in DOMAIN term : e = term[i]
      BY <2>7
    <3>2. ~(term' = <<>> /\ actor'.pc \in {"done", "finalize"})
      <4>1. actor'.pc = "finalize" => actor.pc = "finish"
        BY <1>1 DEF Walk, Successors
      <4> QED BY <2>1, <4>1, OwningEnded DEF Owning
    <3>3. CASE term' = term
      BY <2>5, <3>1, <3>3 DEF Waiting
    <3>4. CASE term # <<>> /\ actor'.ev = Head(term) /\ term' = Tail(term)
      <4>1. Head(term) = term[1] /\ term \in Seq(Events)
        BY <3>4, HeadFacts DEF UploadInv, ActorTypes
      <4>2. CASE i = 1
        BY <2>5, <3>1, <3>4, <4>1, <4>2
      <4>3. CASE i # 1
        <5>1. i - 1 \in DOMAIN Tail(term) /\ Tail(term)[i - 1] = term[i]
          BY <3>1, <3>4, <4>1, <4>3
        <5>2. e \in Waiting'
          BY <3>1, <3>4, <5>1 DEF Waiting
        <5> QED BY <2>5, <5>2
      <4> QED BY <4>2, <4>3
    <3> QED BY <1>1, <3>2, <3>3, <3>4 DEF LanesDrain
  <2> QED BY <2>5, <2>6, <2>7 DEF Waiting
<1>11. phase' = "Retired" /\ ~gone' => actor'.pc \in {"reply", "publish", "unfinished", "ack", "done"}
  <2>1. SUFFICES ASSUME phase = "Retired", ~gone
                 PROVE  actor'.pc \in {"reply", "publish", "unfinished", "ack", "done"}
    BY <1>1 DEF Reason
  <2>2. actor.pc \in {"reply", "publish", "unfinished", "ack", "done"}
    BY <1>1, <2>1 DEF Handshakes
  <2> QED BY <1>1, <2>2 DEF Walk, Successors
<1> QED BY <1>3, <1>4, <1>5, <1>6, <1>7, <1>8, <1>9, <1>10, <1>11 DEF Handshakes

\* Nothing is owed to an upload that was never told of a daemon ABORT.
LEMMA NotAwaited ==
  ASSUME Honest, phase \notin {"DaemonAbortWaitAck", "AckPending", "Retired"} \/ actor.pc \in {"ack", "open"}
  PROVE  ~AwaitsAck
  BY DEF Honest, Handshakes, AwaitsAck

\* The actor replies last.
LEMMA ActorReplies ==
  ASSUME UploadInv, UploadInv', UploadAssumption, Honest, Actor, excuse' = "none", ActorKept, Fits'
  PROVE  Replies'
<1>1. /\ UNCHANGED <<reader, client, down>> /\ (gone => gone')
      /\ Walk /\ Reason /\ Handshakes /\ Fits /\ Replies
  BY ActorWalks DEF ActorKept, Forward, Honest
<1>2. Over' = Over /\ InDown("REPLY")' = InDown("REPLY")
  BY <1>1 DEF Over, InDown, AwaitsAck
<1>3. actor'.pc \in {"reply", "publish", "unfinished"} /\ ~gone' => Over
  <2>1. SUFFICES ASSUME actor'.pc \in {"reply", "publish", "unfinished"}, ~gone' PROVE Over
    OBVIOUS
  <2>2. actor.pc \in {"open", "answer", "ack", "finish", "finalize"} /\ ~gone
    BY <1>1, <2>1 DEF Walk, Reason, Successors
  <2>3. CASE actor.pc = "open"
    BY <1>1, <2>3, NotAwaited DEF Over, Handshakes
  <2>4. CASE actor.pc = "ack"
    <3>1. write.at = "sent"
      BY <1>1, <2>1, <2>4 DEF Walk, Reason, Successors
    <3> QED BY <1>1, <2>4, <3>1, NotAwaited DEF Over, Handshakes
  <2>5. CASE actor.pc \in {"finish", "finalize"}
    <3>1. phase = "Finalizing"
      BY <1>1, <2>5 DEF Fits, PhasesAt
    <3> QED BY <2>5, <3>1, NotAwaited, OwningEnded DEF Over, Owning
  <2>6. CASE actor.pc = "answer"
    <3>1. actor.ev.kind = "ACK"
      BY <1>1, <2>1, <2>6 DEF Walk, Reason, Successors
    <3>2. ~AwaitsAck
      BY <3>1 DEF Honest, RecordsHonest, RecordOk
    <3>3. \A e \in Waiting \cup {actor.ev} : e.kind # "ABORT"
      <4>1. Rank(actor.ev) = 3 /\ \A e \in Waiting : e.kind = "ABORT" => Rank(e) = 2
        BY <3>1 DEF Rank
      <4> QED BY <3>1, <4>1 DEF Honest, InRank
    <3> QED BY <1>1, <2>2, <2>6, <3>2, <3>3 DEF Over, Handshakes
  <2> QED BY <2>2, <2>3, <2>4, <2>5, <2>6
<1>4. \A i \in DOMAIN down : down[i].kind = "REPLY" => i = Len(down) /\ (~gone' => Over)
  BY <1>1 DEF Replies
<1>5. client.replied => Over /\ down = <<>>
  BY <1>1 DEF Replies
<1>6. client.replied \/ InDown("REPLY") => actor'.pc = "done"
  <2>1. SUFFICES ASSUME client.replied \/ InDown("REPLY") PROVE actor'.pc = "done"
    OBVIOUS
  <2>2. actor.pc \in {"done", "reply", "publish", "unfinished"}
    BY <1>1, <2>1 DEF Replies
  <2> QED BY <1>1, <2>2 DEF Walk, Successors
<1> QED BY <1>1, <1>2, <1>3, <1>4, <1>5, <1>6 DEF Replies

\* The actor keeps all of it.
LEMMA ActorHonest ==
  ASSUME UploadInv, UploadInv', UploadAssumption, Honest, Actor, excuse' = "none"
  PROVE  Honest'
<1>1. ActorKept /\ Fits'
  BY ActorKeeps
<1>2. CreditsSeen' /\ CreditsKept'
  BY <1>1, ActorCreditsSeen, ActorCreditsKept DEF ActorKept, Forward
<1>3. RecordsHonest' /\ InRank' /\ Ticketed'
  BY <1>1, ActorRecordsHonest, ActorInRank, ActorTicketed
<1>4. InStep' /\ Oversized' /\ Blameless'
  BY <1>1, ActorInStep, ActorOversized, ActorBlameless
<1>5. Handshakes' /\ Replies'
  BY <1>1, ActorHandshakes, ActorReplies
<1> QED BY <1>1, <1>2, <1>3, <1>4, <1>5 DEF Honest

-----------------------------------------------------------------------------
(* A reply has a result, and a failure has a reason.                       *)

LEMMA CompletePublishes ==
  ASSUME ActorTypes, NEW result, result # "none", Complete(result)
  PROVE  owner'.result # "none"
  BY DEF ActorTypes, Owners, Complete

LEMMA LosePublishes ==
  ASSUME ActorTypes, NEW result, result # "none", Complete(result), NEW close, Return(close)
  PROVE  Published'
  BY CompletePublishes DEF Published, Return, Idle

LEMMA FailPublishes ==
  ASSUME ActorTypes, NEW why, NEW yield, why # "none", Fail(why, yield)
  PROVE  Published'
  BY DEF ActorTypes, Actors, Published, Fail

LEMMA TurnPublishes ==
  ASSUME ActorTypes, NEW s, TurnEnds(s) \/ Loop
  PROVE  Published'
  BY DEF ActorTypes, Actors, Published, TurnEnds, Loop

LEMMA MovePublishes ==
  ASSUME ActorTypes, actor'.pc \notin {"fail", "abort", "waitack", "answer", "cross",
                                       "reply", "publish", "unfinished", "done"}
  PROVE  Published'
  BY DEF Published

LEMMA HandshakePublishes ==
  ASSUME ActorTypes, actor.why # "none", NEW acked, HandshakeEnds(acked)
  PROVE  Published'
<1>1. Result(actor.why) # "none" /\ actor'.pc = "reply"
  BY DEF Result, HandshakeEnds, ActorTypes, Actors
<1> QED BY <1>1, CompletePublishes DEF HandshakeEnds, Published

\* The actor publishes a result before it replies.
LEMMA ActorPublishes ==
  ASSUME UploadInv, Published, Actor
  PROVE  Published'
<1>1. ActorTypes
  BY DEF UploadInv
<1>2. CASE OpenSettles
  BY <1>1, <1>2, CompletePublishes, LosePublishes DEF OpenSettles, Published, ActorTypes, Actors
<1>3. CASE CreditSettles
  BY <1>1, <1>3, LosePublishes, FailPublishes, TurnPublishes DEF CreditSettles, LoseTransport
<1>4. CASE ActorTakes
  BY <1>1, <1>4 DEF ActorTakes, TakeDeferred, TakeTerminal, TakeData, Hold, Published, ActorTypes, Actors
<1>5. CASE ActorIdles
  BY <1>1, <1>5, LosePublishes, FailPublishes DEF ActorIdles, LoseTransport
<1>6. CASE HandleFault
  BY <1>1, <1>6, FailPublishes DEF HandleFault
<1>7. CASE HandleCancel
  BY <1>1, <1>7, TurnPublishes, MovePublishes DEF HandleCancel, ActorTypes, Actors
<1>8. CASE CancelRecords
  BY <1>1, <1>8, FailPublishes DEF CancelRecords
<1>9. CASE HandleData
  BY <1>1, <1>9, FailPublishes, MovePublishes DEF HandleData, ActorTypes, Actors
<1>10. CASE HandleEnd
  BY <1>1, <1>10, FailPublishes, MovePublishes DEF HandleEnd, ActorTypes, Actors
<1>11. CASE HandleAbort
  BY <1>1, <1>11, FailPublishes, LosePublishes, MovePublishes DEF HandleAbort, ActorTypes, Actors
<1>12. CASE StageInterrupted
  BY <1>1, <1>12, FailPublishes, LosePublishes, TurnPublishes DEF StageInterrupted, LoseTransport
<1>13. CASE StageCompletes
  BY <1>1, <1>13, FailPublishes, MovePublishes DEF StageCompletes, ActorTypes, Actors
<1>14. CASE CommitAccepted
  BY <1>1, <1>14, FailPublishes, LosePublishes, TurnPublishes DEF CommitAccepted, LoseTransport
<1>15. CASE SelectDaemonAbort
  <2>1. actor.why # "none"
    BY <1>15 DEF SelectDaemonAbort, Published
  <2>2. actor' = [actor EXCEPT !.pc = "abort"] => Published'
    BY <1>1, <2>1 DEF ActorTypes, Actors, Published
  <2> QED BY <1>1, <1>15, <2>2, LosePublishes, TurnPublishes DEF SelectDaemonAbort, LoseTransport
<1>16. CASE AbortSettles
  <2>1. actor.why # "none" /\ Result(actor.why) # "none"
    BY <1>16 DEF AbortSettles, Published, Result
  <2>2. actor' = [actor EXCEPT !.pc = "waitack"] => Published'
    BY <1>1, <2>1 DEF ActorTypes, Actors, Published
  <2> QED BY <1>1, <1>16, <2>1, <2>2, LosePublishes DEF AbortSettles
<1>17. CASE ActorWaitsForAck
  <2>1. actor.pc \in {"answer", "waitack", "cross"}
    BY <1>17 DEF ActorWaitsForAck, AnswerAck, AnswerCrossedAbort, AnswerCancel, AnswerOther,
       CrossedAckSettles, HandshakeAbandoned
  <2>2. actor.why # "none"
    BY <2>1 DEF Published
  <2>3. (\E acked : HandshakeEnds(acked)) => Published'
    BY <1>1, <2>2, HandshakePublishes
  <2>4. CASE ~\E acked : HandshakeEnds(acked)
    <3>1. actor'.pc \in {"cross", "waitack"} /\ actor'.why = actor.why
      BY <1>1, <1>17, <2>4 DEF ActorWaitsForAck, AnswerAck, AnswerCrossedAbort, AnswerCancel,
         AnswerOther, CrossedAckSettles, HandshakeAbandoned, ActorTypes, Actors
    <3> QED BY <2>2, <3>1 DEF Published
  <2> QED BY <2>3, <2>4
<1>18. CASE FinalAckSettles
  BY <1>1, <1>18, CompletePublishes, LosePublishes DEF FinalAckSettles, Published, ActorTypes, Actors
<1>19. CASE FaultAckSettles
  BY <1>1, <1>19, LosePublishes DEF FaultAckSettles, Published, ActorTypes, Actors
<1>20. CASE Promote
  BY <1>1, <1>20, LosePublishes DEF Promote, Published, ActorTypes, Actors
<1>21. CASE StageFinishes \/ Finalized
  <2>1. owner'.result # "none" \/ actor'.pc = "finalize"
    BY <1>1, <1>21, CompletePublishes DEF StageFinishes, Finalized, ActorTypes, Actors
  <2>2. actor'.pc \in {"finalize", "publish", "unfinished"}
    BY <1>1, <1>21 DEF StageFinishes, Finalized, ActorTypes, Actors
  <2> QED BY <2>1, <2>2 DEF Published
<1>22. CASE ReplySettles
  BY <1>1, <1>22 DEF ReplySettles, Published, Return, Idle
<1> QED BY <1>2, <1>3, <1>4, <1>5, <1>6, <1>7, <1>8, <1>9, <1>10, <1>11, <1>12, <1>13, <1>14,
           <1>15, <1>16, <1>17, <1>18, <1>19, <1>20, <1>21, <1>22 DEF Actor

-----------------------------------------------------------------------------
(* The steps of the other threads.                                         *)

\* What is on its way stays so when nothing admits or takes it.
LEMMA PendingStay ==
  ASSUME UNCHANGED <<reader, term, processing>>,
         \A c \in Cancellers : cancels'[c].ticket = cancels[c].ticket
  PROVE  TerminalPending' = TerminalPending /\ PreemptivePending' = PreemptivePending
         /\ NonCancelPending' = NonCancelPending
<1>1. Admitting' = Admitting
  BY DEF Admitting
<1> QED BY <1>1 DEF TerminalPending, PreemptivePending, NonCancelPending, IsPreemptive

\* Nothing that the invariant speaks of changes, or the connection ends.
LEMMA EndOfConnection ==
  ASSUME UploadInv, UploadAssumption, Honest, Wired, Acting, TicketsStay,
         gone' = gone \/ gone',
         phase' = phase \/ (phase' = "Retired" /\ phase # "Finalizing" /\ gone')
  PROVE  Honest'
<1> USE DEF Wired, Acting
<1>1. /\ TerminalPending' = TerminalPending /\ PreemptivePending' = PreemptivePending
      /\ gone => gone'
  BY PendingStay DEF TicketsStay
<1>2. /\ Grants' = Grants /\ InDown("ABORT")' = InDown("ABORT") /\ InDown("ACK")' = InDown("ACK")
      /\ InDown("CREDIT")' = InDown("CREDIT") /\ InDown("REPLY")' = InDown("REPLY")
      /\ AwaitsAck' = AwaitsAck /\ Over' = Over /\ Waiting' = Waiting /\ (Doomed => Doomed')
      /\ (Closed => Closed')
  BY <1>1 DEF Grants, CreditOut, InDown, AwaitsAck, Over, Waiting, Doomed, Closed
<1>3. Fits'
  BY DEF Honest, Fits, Writing, PhasesAt
<1>4. CreditsSeen' /\ CreditsKept'
  <2>1. CreditsSeen'
    BY <1>2 DEF Honest, CreditsSeen
  <2>2. CreditsKept'
    BY <1>2 DEF Honest, CreditsKept, CreditOut
  <2> QED BY <2>1, <2>2
<1>5. RecordsHonest'
  <2>1. \A e : RecordOk(e) => RecordOk(e)'
    BY <1>2 DEF RecordOk, Echoed
  <2>2. \A e : Datum(e)' = Datum(e)
    BY DEF Datum
  <2> QED BY <1>2, <2>1, <2>2 DEF Honest, RecordsHonest
<1>6. InRank'
  BY <1>2 DEF Honest, InRank
<1>7. InStep'
  <2>1. Chained => Chained'
    BY <1>1 DEF Chained, Holding, HandEnd, LaneEnd
  <2> QED BY <1>1, <1>2, <2>1 DEF Honest, InStep
<1>8. Oversized'
  BY <1>2 DEF Honest, Oversized, TicketsStay
<1>9. Blameless'
  BY <1>1 DEF Honest, Blameless
<1>10. Handshakes'
  BY <1>1, <1>2 DEF Honest, Handshakes
<1>11. Replies'
  BY <1>1, <1>2 DEF Honest, Replies
<1>12. Ticketed'
  BY DEF Honest, Ticketed, TicketsStay, NoTicket
<1> QED BY <1>3, <1>4, <1>5, <1>6, <1>7, <1>8, <1>9, <1>10, <1>11, <1>12 DEF Honest

\* The connection, or the transfer, may end at any moment.
LEMMA DisconnectHonest ==
  ASSUME UploadInv, UploadAssumption, Honest, Disconnect \/ Expire
  PROVE  Honest'
<1>1. Wired /\ Acting /\ TicketsStay
  BY DEF Disconnect, Expire, Wired, Acting, TicketsStay, ingressVars, laneVars, actorVars, cancelVars,
     clientVars, historyVars
<1>2. /\ gone' = gone \/ gone'
      /\ phase' = phase \/ (phase' = "Retired" /\ phase # "Finalizing" /\ gone')
  BY DEF Disconnect, Expire, CloseConnection, Invalidated, ingressVars
<1> QED BY <1>1, <1>2, EndOfConnection

\* A transfer.cancel that neither takes a ticket nor gives one back.
LEMMA AskingHonest ==
  ASSUME UploadInv, UploadAssumption, Honest, NEW c \in Cancellers,
         CancelLooksUp(c) \/ CancelDropped(c) \/ CancelSettles(c)
  PROVE  Honest'
<1>1. Wired /\ Acting /\ UNCHANGED <<phase, gone>>
  BY DEF CancelLooksUp, CancelDropped, CancelSettles, cancelFrame, Wired, Acting, actorVars, clientVars
<1>2. \E at : MovesTo(c, at) /\ at # "lane"
  BY DEF CancelLooksUp, CancelDropped, CancelSettles, MovesTo, Recorded
<1>3. TicketsStay
  BY <1>2, OneTicket DEF UploadInv, WireTypes
<1> QED BY <1>1, <1>3, EndOfConnection

-----------------------------------------------------------------------------
(* The transfer.cancel tasks.                                              *)

\* One more CANCEL may be in the lane of terminals, or on its way there.
LEMMA AnotherCancel ==
  ASSUME UploadInv, UploadAssumption, Honest, Acting, Ticketed',
         UNCHANGED <<phase, gone, ingress, reader, data, deferred, processing, client, down>>,
         term' = term \/ \E e \in Events : e.kind = "CANCEL" /\ term' = Append(term, e),
         phase \in {"Opening", "Active"} /\ PreemptivePending => PreemptivePending',
         actor.pc = "credit" /\ TerminalPending /\ ~Closed => TerminalPending',
         reader.ev.kind = "OVERSIZE" =>
           term' = <<>> /\ \A c \in Cancellers : cancels'[c].ticket # NoTicket => reader.ticket < cancels'[c].ticket
  PROVE  Honest'
<1> USE DEF Acting
<1>1. /\ Grants' = Grants /\ InDown("ABORT")' = InDown("ABORT") /\ InDown("ACK")' = InDown("ACK")
      /\ InDown("CREDIT")' = InDown("CREDIT") /\ InDown("REPLY")' = InDown("REPLY")
      /\ AwaitsAck' = AwaitsAck /\ Over' = Over /\ (Doomed => Doomed') /\ Closed' = Closed
  BY DEF Grants, CreditOut, InDown, AwaitsAck, Over, Doomed, Closed
<1>2. term \in Seq(Events)
  BY DEF UploadInv, ActorTypes
<1>3. \A i \in DOMAIN term' :
        \/ i \in DOMAIN term /\ term'[i] = term[i]
        \/ term'[i].kind = "CANCEL" /\ \A j \in DOMAIN term' : j <= i
  BY <1>2
<1>4. \A i \in DOMAIN term : i \in DOMAIN term' /\ term'[i] = term[i]
  BY <1>2
<1>5. /\ \A e \in Waiting' : e \in Waiting \/ e.kind = "CANCEL"
      /\ \A e \in Waiting : e \in Waiting'
  BY <1>3, <1>4 DEF Waiting
<1>6. Fits'
  BY DEF Honest, Fits, Writing, PhasesAt
<1>7. CreditsSeen' /\ CreditsKept'
  <2>1. CreditsSeen'
    BY <1>1 DEF Honest, CreditsSeen
  <2>2. CreditsKept'
    BY <1>1 DEF Honest, CreditsKept, CreditOut
  <2> QED BY <2>1, <2>2
<1>8. RecordsHonest'
  <2>1. \A e : RecordOk(e) => RecordOk(e)'
    BY <1>1 DEF RecordOk, Echoed
  <2>2. \A e : Datum(e)' = Datum(e)
    BY DEF Datum
  <2>3. \A e : e.kind = "CANCEL" => RecordOk(e)' /\ Datum(e)'
    BY DEF RecordOk, Datum
  <2>4. \A e \in Waiting' \cup {actor'.ev} : RecordOk(e)' /\ Datum(e)'
    BY <1>5, <2>1, <2>2, <2>3 DEF Honest, RecordsHonest
  <2> QED BY <2>2, <2>4 DEF Honest, RecordsHonest
<1>9. InRank'
  <2>1. \A i \in DOMAIN term' : \/ i \in DOMAIN term /\ term'[i] = term[i]
                               \/ Rank(term'[i]) = 0
    BY <1>3, RankOf
  <2>2. \A i, j \in DOMAIN term' : i < j /\ Rank(term'[j]) # 0 => Rank(term'[i]) < Rank(term'[j])
    <3> SUFFICES ASSUME NEW i \in DOMAIN term', NEW j \in DOMAIN term', i < j, Rank(term'[j]) # 0
                 PROVE  Rank(term'[i]) < Rank(term'[j])
      OBVIOUS
    <3>1. j \in DOMAIN term /\ term'[j] = term[j]
      BY <2>1
    <3>2. CASE i \in DOMAIN term /\ term'[i] = term[i]
      BY <3>1, <3>2 DEF Honest, InRank
    <3>3. CASE Rank(term'[i]) = 0
      BY <3>3, RankOf
    <3> QED BY <2>1, <3>2, <3>3
  <2>3. Rank(reader'.ev) # 0 => \A i \in DOMAIN term' : Rank(term'[i]) < Rank(reader'.ev)
    BY <2>1, RankOf DEF Honest, InRank
  <2>4. \A e \in Waiting' : Rank(e) # 0 => Rank(actor'.ev) < Rank(e)
    BY <1>5, RankOf DEF Honest, InRank
  <2>5. \A e : Rank(e)' = Rank(e)
    BY DEF Rank
  <2> QED BY <2>2, <2>3, <2>4, <2>5 DEF InRank
<1>10. InStep'
  <2>1. Chained => Chained'
    BY DEF Chained, Holding, HandEnd, LaneEnd
  <2> QED BY <1>1, <2>1 DEF Honest, InStep, IsPreemptive
<1>11. Oversized'
  <2>1. \A i \in DOMAIN term' : term'[i].kind = "OVERSIZE" => i = 1
    BY <1>3 DEF Honest, Oversized
  <2>2. (\E e \in Waiting' : e.kind = "OVERSIZE") => \E e \in Waiting : e.kind = "OVERSIZE"
    BY <1>5
  <2> QED BY <2>1, <2>2 DEF Honest, Oversized
<1>12. Blameless'
  BY DEF Honest, Blameless
<1>13. Handshakes'
  <2>1. (\A i \in DOMAIN term : term[i].kind = "CANCEL") => \A i \in DOMAIN term' : term'[i].kind = "CANCEL"
    BY <1>3
  <2>2. (\A e \in Waiting \cup {actor.ev} : e.kind # "ABORT")
        => \A e \in Waiting' \cup {actor'.ev} : e.kind # "ABORT"
    BY <1>5
  <2>3. (\E e \in Waiting \cup {actor.ev} : e.kind = "ABORT")
        => \E e \in Waiting' \cup {actor'.ev} : e.kind = "ABORT"
    BY <1>5
  <2> QED BY <1>1, <2>1, <2>2, <2>3 DEF Honest, Handshakes
<1>14. Replies'
  BY <1>1 DEF Honest, Replies
<1> QED BY <1>6, <1>7, <1>8, <1>9, <1>10, <1>11, <1>12, <1>13, <1>14 DEF Honest

\* A cancel task alone is moved.
LEMMA SetCancel ==
  ASSUME CancelShape, NEW c \in Cancellers, NEW r, cancels' = [cancels EXCEPT ![c] = r]
  PROVE  \A d \in Cancellers : cancels'[d] = IF d = c THEN r ELSE cancels[d]
  BY DEF CancelShape

\* The turn passes to the next ticket.
LEMMA TurnPasses ==
  ASSUME Honest, NEW t, t = order.serving, t < order.next
  PROVE  Finish(order, t) = [order EXCEPT !.serving = t + 1]
<1>1. /\ order \in [next : Nat, serving : Nat, cancelled : {{}}] /\ order.cancelled = {}
      /\ order.next \in Nat /\ t \in Nat
  BY DEF Honest, Ticketed
<1> DEFINE waiting == {s \in (t + 1)..order.next : s \notin order.cancelled}
           next    == CHOOSE s \in waiting : \A u \in waiting : s <= u
<1>2. waiting = (t + 1)..order.next
  BY <1>1
<1>3. t + 1 \in waiting /\ \A u \in waiting : t + 1 <= u
  BY <1>1, <1>2
<1>4. next \in waiting /\ \A u \in waiting : next <= u
  BY <1>3
<1>5. next = t + 1
  BY <1>1, <1>2, <1>3, <1>4
<1>6. Finish(order, t) = [order EXCEPT !.serving = next, !.cancelled = {s \in order.cancelled : s > next}]
  BY DEF Finish
<1> HIDE DEF next
<1>7. {s \in order.cancelled : s > next} = {}
  BY <1>1
<1> QED BY <1>1, <1>5, <1>6, <1>7

\* A transfer.cancel may be withdrawn at any moment.
LEMMA WithdrawnHonest ==
  ASSUME UploadInv, UploadAssumption, Honest, NEW c \in Cancellers, CancelWithdrawn(c), excuse' = "none"
  PROVE  Honest'
<1>1. cancels[c].ticket = NoTicket
  BY DEF CancelWithdrawn, Excuse
<1>2. Wired /\ Acting /\ UNCHANGED <<phase, gone>>
  BY <1>1 DEF CancelWithdrawn, Released, cancelFrame, Wired, Acting, actorVars, clientVars
<1>3. TicketsStay
  <2>1. cancels' = [cancels EXCEPT ![c] = Ticketless("withdrawn")]
    BY DEF CancelWithdrawn
  <2>2. \A d \in Cancellers : cancels'[d] = IF d = c THEN Ticketless("withdrawn") ELSE cancels[d]
    BY <2>1, SetCancel DEF UploadInv, WireTypes
  <2> QED BY ZenonT(40), <1>1, <2>2, TicketlessIs DEF TicketsStay
<1> QED BY <1>2, <1>3, EndOfConnection

\* A ticket is taken after all the others.
LEMMA AsksHonest ==
  ASSUME UploadInv, UploadAssumption, Honest, NEW c \in Cancellers, CancelAsks(c)
  PROVE  Honest'
<1>1. UNCHANGED <<phase, gone, ingress, reader, data, deferred, processing, client, down, term>>
      /\ Acting
  BY DEF CancelAsks, cancelFrame, Acting, actorVars, clientVars
<1>2. CASE phase # "Active" \/ gone
  <2>1. MovesTo(c, "refused") /\ order' = order
    BY <1>2 DEF CancelAsks, MovesTo
  <2>2. TicketsStay
    BY <2>1, OneTicket DEF UploadInv, WireTypes
  <2> QED BY <1>1, <2>1, <2>2, EndOfConnection DEF Wired
<1>3. CASE ~(phase # "Active" \/ gone)
  <2> DEFINE r == [at |-> "lane", ticket |-> order.next, late |-> expired]
  <2>1. \A d \in Cancellers : cancels'[d] = IF d = c THEN r ELSE cancels[d]
    <3>1. cancels' = [cancels EXCEPT ![c] = r]
      BY <1>3 DEF CancelAsks
    <3> QED BY <3>1, SetCancel DEF UploadInv, WireTypes
  <2>2. /\ order' = [order EXCEPT !.next = @ + 1] /\ order \in [next : Nat, serving : Nat, cancelled : {{}}]
        /\ order.serving <= order.next /\ reader.ticket \in Nat \cup {NoTicket}
    BY <1>3 DEF CancelAsks, Honest, Ticketed
  <2>3. /\ order' \in [next : Nat, serving : Nat, cancelled : {{}}]
        /\ order'.next = order.next + 1 /\ order'.serving = order.serving
        /\ order.next \in Nat /\ order.serving \in Nat
    BY <2>2
  <2>4. /\ \A d \in Cancellers : cancels'[d].ticket = IF d = c THEN order.next ELSE cancels[d].ticket
        /\ \A d \in Cancellers : cancels'[d].at = "lane" => d = c \/ cancels[d].at = "lane"
    BY <2>1
  <2>5. order.next # NoTicket
    BY <2>3 DEF NoTicket
  <2>6. \A d \in Cancellers : cancels[d].ticket \in Nat \cup {NoTicket}
    BY DEF Honest, Ticketed
  <2>7. Ticketed'
    <3>1. /\ reader'.ticket = NoTicket <=> reader'.ev.kind \in {"none", "DATA"}
          /\ reader'.ticket # NoTicket => order'.serving <= reader'.ticket /\ reader'.ticket < order'.next
      BY <1>1, <2>2, <2>3 DEF Honest, Ticketed, NoTicket
    <3>2. /\ \A d \in Cancellers : cancels'[d].ticket \in Nat \cup {NoTicket}
          /\ \A d \in Cancellers : cancels'[d].at = "lane" => cancels'[d].ticket # NoTicket
      BY <2>3, <2>4, <2>5 DEF Honest, Ticketed
    <3>3. ASSUME NEW d \in Cancellers, cancels'[d].ticket # NoTicket
          PROVE  /\ order'.serving <= cancels'[d].ticket /\ cancels'[d].ticket < order'.next
                 /\ cancels'[d].ticket # reader'.ticket
      <4>1. CASE d = c
        BY <1>1, <2>2, <2>3, <2>4, <2>5, <4>1 DEF Honest, Ticketed
      <4>2. CASE d # c
        BY <1>1, <2>3, <2>4, <2>6, <3>3, <4>2 DEF Honest, Ticketed, NoTicket
      <4> QED BY <4>1, <4>2
    <3>4. ASSUME NEW d \in Cancellers, NEW f \in Cancellers \ {d}, cancels'[d].ticket # NoTicket
          PROVE  cancels'[f].ticket # cancels'[d].ticket
      <4>1. \A g \in Cancellers : cancels[g].ticket # order.next
        BY <2>3, <2>5, <2>6 DEF Honest, Ticketed
      <4>2. CASE d = c \/ f = c
        BY <2>4, <4>1, <4>2
      <4>3. CASE d # c /\ f # c
        BY <2>4, <3>4, <4>3 DEF Honest, Ticketed
      <4> QED BY <4>2, <4>3
    <3> QED BY <1>1, <2>3, <3>1, <3>2, <3>3, <3>4, <2>2 DEF Ticketed, NoTicket
  <2>8. PreemptivePending' /\ TerminalPending'
    <3> DEFINE e == [kind |-> "CANCEL", from |-> c]
    <3>1. cancels'[c].ticket # NoTicket
      BY <2>4, <2>5
    <3>2. e \in Admitting'
      BY <3>1 DEF Admitting, NoTicket
    <3>3. IsPreemptive(e)'
      BY DEF IsPreemptive
    <3> QED BY <3>2, <3>3 DEF PreemptivePending, TerminalPending
  <2>9. reader.ev.kind = "OVERSIZE" =>
          term' = <<>> /\ \A d \in Cancellers : cancels'[d].ticket # NoTicket => reader.ticket < cancels'[d].ticket
    <3> SUFFICES ASSUME reader.ev.kind = "OVERSIZE"
                 PROVE  term' = <<>> /\ \A d \in Cancellers : cancels'[d].ticket # NoTicket
                                                               => reader.ticket < cancels'[d].ticket
      OBVIOUS
    <3>1. reader.ticket # NoTicket /\ reader.ticket < order.next
      BY DEF Honest, Ticketed
    <3> QED BY <1>1, <2>4, <3>1 DEF Honest, Oversized
  <2> QED BY <1>1, <2>7, <2>8, <2>9, AnotherCancel
<1> QED BY <1>2, <1>3

\* A cancel whose turn it is puts its event in the lane, or gives up.
LEMMA EnqueuesHonest ==
  ASSUME UploadInv, UploadAssumption, Honest, NEW c \in Cancellers, CancelEnqueues(c)
  PROVE  Honest'
<1>1. UNCHANGED <<phase, gone, ingress, reader, data, deferred, processing, client, down>>
      /\ Acting
  BY DEF CancelEnqueues, cancelFrame, Acting, actorVars, clientVars
<1>2. /\ cancels[c].at = "lane" /\ cancels[c].ticket \in Nat /\ cancels[c].ticket # NoTicket
      /\ cancels[c].ticket = order.serving /\ cancels[c].ticket < order.next
  BY DEF CancelEnqueues, MyTurn, Honest, Ticketed
<1>3. order' = [order EXCEPT !.serving = @ + 1] /\ order \in [next : Nat, serving : Nat, cancelled : {{}}]
  <2>1. order' = Finish(order, cancels[c].ticket)
    BY <1>2 DEF CancelEnqueues, Released
  <2>2. Finish(order, cancels[c].ticket) = [order EXCEPT !.serving = cancels[c].ticket + 1]
    BY <1>2, TurnPasses
  <2> QED BY <1>2, <2>1, <2>2 DEF Honest, Ticketed
<1>4. /\ order' \in [next : Nat, serving : Nat, cancelled : {{}}]
      /\ order'.next = order.next /\ order'.serving = order.serving + 1
      /\ order.next \in Nat /\ order.serving \in Nat
  BY <1>3
<1>5. \E at \in {"asked", "refused"} :
        \A d \in Cancellers : cancels'[d] = IF d = c THEN Ticketless(at) ELSE cancels[d]
  <2>1. \E at \in {"asked", "refused"} : cancels' = [cancels EXCEPT ![c] = Ticketless(at)]
    BY DEF CancelEnqueues
  <2> QED BY <2>1, SetCancel DEF UploadInv, WireTypes
<1>6. /\ \A d \in Cancellers : cancels'[d].ticket = IF d = c THEN NoTicket ELSE cancels[d].ticket
      /\ \A d \in Cancellers : cancels'[d].at = "lane" => d # c /\ cancels[d].at = "lane"
  BY <1>5, TicketlessIs
<1>7. \A d \in Cancellers : cancels[d].ticket \in Nat \cup {NoTicket}
  BY DEF Honest, Ticketed
<1>8. Ticketed'
  <2>1. reader.ticket # NoTicket => order.serving < reader.ticket
    BY <1>2, <1>4 DEF Honest, Ticketed
  <2>2. \A d \in Cancellers : d # c /\ cancels[d].ticket # NoTicket => order.serving < cancels[d].ticket
    BY <1>2, <1>4, <1>7 DEF Honest, Ticketed
  <2>3. /\ reader'.ticket = NoTicket <=> reader'.ev.kind \in {"none", "DATA"}
        /\ reader'.ticket # NoTicket => order'.serving <= reader'.ticket /\ reader'.ticket < order'.next
        /\ reader'.ticket \in Nat \cup {NoTicket} /\ order'.serving <= order'.next
    BY <1>1, <1>2, <1>4, <2>1 DEF Honest, Ticketed, NoTicket
  <2>4. /\ \A d \in Cancellers : cancels'[d].ticket \in Nat \cup {NoTicket}
        /\ \A d \in Cancellers : cancels'[d].at = "lane" => cancels'[d].ticket # NoTicket
    BY <1>6 DEF Honest, Ticketed
  <2>5. ASSUME NEW d \in Cancellers, cancels'[d].ticket # NoTicket
        PROVE  /\ order'.serving <= cancels'[d].ticket /\ cancels'[d].ticket < order'.next
               /\ cancels'[d].ticket # reader'.ticket
               /\ \A f \in Cancellers \ {d} : cancels'[f].ticket # cancels'[d].ticket
    <3>1. d # c /\ cancels'[d].ticket = cancels[d].ticket
      BY <1>6, <2>5
    <3> QED BY <1>1, <1>4, <1>6, <1>7, <2>2, <2>5, <3>1 DEF Honest, Ticketed, NoTicket
  <2> QED BY <1>4, <2>3, <2>4, <2>5 DEF Ticketed, NoTicket
<1>9. reader.ev.kind # "OVERSIZE"
  <2> SUFFICES ASSUME reader.ev.kind = "OVERSIZE" PROVE FALSE
    OBVIOUS
  <2>1. reader.ticket < cancels[c].ticket
    BY <1>2 DEF Honest, Oversized
  <2>2. reader.ticket # NoTicket /\ order.serving <= reader.ticket /\ reader.ticket \in Nat
    BY DEF Honest, Ticketed
  <2> QED BY <1>2, <1>4, <2>1, <2>2
<1>10. CASE Receiving /\ phase # "Retired"
  <2> DEFINE e == [kind |-> "CANCEL", from |-> c, late |-> cancels[c].late]
  <2>1. term' = Append(term, e)
    BY <1>10 DEF CancelEnqueues
  <2>2. e \in Events /\ e.kind = "CANCEL" /\ IsPreemptive(e)'
    BY DEF Events, Asked, IsPreemptive, UploadInv, WireTypes, CancelShape
  <2>3. PreemptivePending' /\ TerminalPending'
    <3>1. term \in Seq(Events)
      BY DEF UploadInv, ActorTypes
    <3> HIDE DEF e
    <3>2. Len(term) + 1 \in DOMAIN term' /\ term'[Len(term) + 1] = e /\ term' # <<>>
      BY <2>1, <3>1
    <3>3. \E i \in DOMAIN term' : IsPreemptive(term[i])'
      BY <2>2, <3>2 DEF IsPreemptive
    <3> QED BY <3>2, <3>3 DEF PreemptivePending, TerminalPending
  <2> HIDE DEF e
  <2> QED BY <1>1, <1>8, <1>9, <2>1, <2>2, <2>3, AnotherCancel
<1>11. CASE ~(Receiving /\ phase # "Retired")
  <2>1. term' = term
    BY <1>11 DEF CancelEnqueues
  <2>2. phase \notin {"Opening", "Active"}
    BY <1>11 DEF Receiving, Honest, Fits, PhasesAt
  <2>3. actor.pc = "credit" => Closed
    BY <1>11 DEF Receiving, Closed
  <2> QED BY <1>1, <1>8, <1>9, <2>1, <2>2, <2>3, AnotherCancel
<1> QED BY <1>10, <1>11

-----------------------------------------------------------------------------
(* The reader puts its record in a lane.                                   *)

\* A record passed on keeps the invariant, if the chain and the interrupts do.
LEMMA PassedHonest ==
  ASSUME UploadInv, UploadAssumption, Honest, Passed, Ticketed',
         \A i \in DOMAIN data' : Datum(data'[i]),
         Chained => Chained',
         phase \in {"Opening", "Active"} /\ PreemptivePending => PreemptivePending',
         actor.pc = "credit" /\ TerminalPending => TerminalPending' \/ gone'
  PROVE  Honest'
<1> USE DEF Acting, Passed
<1>1. /\ Grants' = Grants /\ InDown("ABORT")' = InDown("ABORT") /\ InDown("ACK")' = InDown("ACK")
      /\ InDown("CREDIT")' = InDown("CREDIT") /\ InDown("REPLY")' = InDown("REPLY")
      /\ AwaitsAck' = AwaitsAck /\ Over' = Over /\ (Doomed => Doomed') /\ (Closed => Closed')
  BY DEF Grants, CreditOut, InDown, AwaitsAck, Over, Doomed, Closed
<1>2. term \in Seq(Events) /\ reader'.ev = NoEvent /\ reader'.ticket = NoTicket
  BY DEF UploadInv, ActorTypes
<1>3. \A i \in DOMAIN term' :
        \/ i \in DOMAIN term /\ term'[i] = term[i]
        \/ term'[i] = reader.ev /\ i = Len(term) + 1 /\ Rank(reader.ev) \in 0..3
  BY <1>2, RankOf
<1>4. \A i \in DOMAIN term : i \in DOMAIN term' /\ term'[i] = term[i]
  BY <1>2
<1>5. \A e \in Waiting' : e \in Waiting \/ e = NoEvent
  BY <1>2, <1>3 DEF Waiting
<1>6. ASSUME ~gone', NEW e \in Waiting, e.kind \notin {"none", "DATA"} PROVE e \in Waiting'
  <2>1. CASE e = reader.ev
    <3>1. term' = Append(term, e)
      BY <1>6, <2>1
    <3>2. Len(term) + 1 \in DOMAIN term' /\ term'[Len(term) + 1] = e
      BY <1>2, <3>1
    <3> QED BY <3>2 DEF Waiting
  <2>2. CASE \E i \in DOMAIN term : e = term[i]
    BY <1>4, <2>2 DEF Waiting
  <2> QED BY <1>6, <2>1, <2>2 DEF Waiting
<1>7. Fits'
  BY DEF Honest, Fits, Writing, PhasesAt
<1>8. CreditsSeen' /\ CreditsKept'
  <2>1. CreditsSeen'
    BY <1>1 DEF Honest, CreditsSeen
  <2>2. CreditsKept'
    BY <1>1 DEF Honest, CreditsKept, CreditOut
  <2> QED BY <2>1, <2>2
<1>9. RecordsHonest'
  <2>1. \A e : RecordOk(e) => RecordOk(e)'
    BY <1>1 DEF RecordOk, Echoed
  <2>2. \A e : Datum(e)' = Datum(e)
    BY DEF Datum
  <2>3. RecordOk(NoEvent)' /\ Datum(NoEvent)'
    BY DEF RecordOk, Datum, NoEvent
  <2>4. \A e \in Waiting' \cup {actor'.ev} : RecordOk(e)' /\ Datum(e)'
    BY <1>5, <2>1, <2>2, <2>3 DEF Honest, RecordsHonest
  <2>5. \A i \in DOMAIN data' : Datum(data[i])'
    BY DEF Datum
  <2> QED BY <1>2, <2>4, <2>5 DEF Honest, RecordsHonest, NoEvent
<1>10. InRank'
  <2>1. \A i, j \in DOMAIN term' : i < j /\ Rank(term'[j]) # 0 => Rank(term'[i]) < Rank(term'[j])
    <3> SUFFICES ASSUME NEW i \in DOMAIN term', NEW j \in DOMAIN term', i < j, Rank(term'[j]) # 0
                 PROVE  Rank(term'[i]) < Rank(term'[j])
      OBVIOUS
    <3>1. i \in DOMAIN term /\ term'[i] = term[i]
      BY <1>2, <1>3
    <3>2. CASE j \in DOMAIN term /\ term'[j] = term[j]
      BY <3>1, <3>2 DEF Honest, InRank
    <3>3. CASE term'[j] = reader.ev
      BY <3>1, <3>3 DEF Honest, InRank
    <3> QED BY <1>3, <3>2, <3>3
  <2>2. Rank(NoEvent) = 0
    BY DEF Rank, NoEvent
  <2>3. \A e \in Waiting' : Rank(e) # 0 => Rank(actor'.ev) < Rank(e)
    BY <1>5, <2>2 DEF Honest, InRank
  <2>4. \A e : Rank(e)' = Rank(e)
    BY DEF Rank
  <2> QED BY <1>2, <2>1, <2>2, <2>3, <2>4 DEF InRank
<1>11. InStep'
  <2>1. Doomed \/ Chained \/ actor.pc = "fail" => Doomed' \/ Chained' \/ actor.pc = "fail"
    BY <1>1
  <2> QED BY <1>1, <2>1 DEF Honest, InStep, IsPreemptive, Closed
<1>12. Oversized'
  <2>1. \A i \in DOMAIN term' : term'[i].kind = "OVERSIZE" => i = 1
    <3> SUFFICES ASSUME NEW i \in DOMAIN term', term'[i].kind = "OVERSIZE" PROVE i = 1
      OBVIOUS
    <3>1. CASE i \in DOMAIN term /\ term'[i] = term[i]
      BY <3>1 DEF Honest, Oversized
    <3>2. CASE term'[i] = reader.ev /\ i = Len(term) + 1
      <4>1. term = <<>>
        BY <3>2 DEF Honest, Oversized
      <4> QED BY <3>2, <4>1
    <3> QED BY <1>3, <3>1, <3>2
  <2>2. (\E e \in Waiting' : e.kind = "OVERSIZE") => \E e \in Waiting : e.kind = "OVERSIZE"
    BY <1>5 DEF NoEvent
  <2> QED BY <1>2, <2>1, <2>2 DEF Honest, Oversized, NoEvent
<1>13. Blameless'
  BY DEF Honest, Blameless
<1>14. Handshakes'
  <2>1. actor.pc = "ack" => term' = term
    BY DEF Honest, Handshakes, NoEvent
  <2>2. (\A e \in Waiting \cup {actor.ev} : e.kind # "ABORT")
        => \A e \in Waiting' \cup {actor'.ev} : e.kind # "ABORT"
    BY <1>5 DEF NoEvent
  <2>3. (\E e \in Waiting \cup {actor.ev} : e.kind = "ABORT") /\ ~gone'
        => \E e \in Waiting' \cup {actor'.ev} : e.kind = "ABORT"
    BY <1>6
  <2>4. gone' \/ ~gone
    OBVIOUS
  <2> QED BY <1>1, <1>2, <2>1, <2>2, <2>3 DEF Honest, Handshakes
<1>15. Replies'
  BY <1>1 DEF Honest, Replies
<1> QED BY <1>7, <1>8, <1>9, <1>10, <1>11, <1>12, <1>13, <1>14, <1>15 DEF Honest

\* The reader's ticket is given back, and the turn passes.
LEMMA PassedTicketed ==
  ASSUME UploadInv, Honest, reader' = [ev |-> NoEvent, ticket |-> NoTicket], UNCHANGED cancels,
         MyTurn(reader.ticket), order' = Released(reader.ticket)
  PROVE  Ticketed'
<1>1. /\ order \in [next : Nat, serving : Nat, cancelled : {{}}]
      /\ reader.ticket \in Nat \cup {NoTicket}
      /\ \A c \in Cancellers : cancels[c].ticket \in Nat \cup {NoTicket}
      /\ reader'.ev.kind = "none" /\ reader'.ticket = NoTicket
  BY DEF Honest, Ticketed, NoEvent
<1>2. CASE reader.ticket = NoTicket
  <2>1. order' = order
    BY <1>2 DEF Released
  <2> QED BY <1>1, <2>1 DEF Honest, Ticketed, NoTicket
<1>3. CASE reader.ticket # NoTicket
  <2>1. reader.ticket = order.serving /\ reader.ticket < order.next
    BY <1>3 DEF MyTurn, Honest, Ticketed
  <2>2. order' = [order EXCEPT !.serving = reader.ticket + 1]
    BY <1>3, <2>1, TurnPasses DEF Released
  <2>3. /\ order' \in [next : Nat, serving : Nat, cancelled : {{}}]
        /\ order'.next = order.next /\ order'.serving = order.serving + 1
        /\ order.next \in Nat /\ order.serving \in Nat /\ order'.serving <= order'.next
    BY <1>1, <2>1, <2>2
  <2>4. \A d \in Cancellers : cancels[d].ticket # NoTicket => order.serving < cancels[d].ticket
    BY <1>1, <1>3, <2>1, <2>3 DEF Honest, Ticketed
  <2>5. \A d \in Cancellers : cancels'[d].ticket # NoTicket =>
          /\ order'.serving <= cancels'[d].ticket /\ cancels'[d].ticket < order'.next
          /\ cancels'[d].ticket # reader'.ticket
          /\ \A f \in Cancellers \ {d} : cancels'[f].ticket # cancels'[d].ticket
    BY <1>1, <2>3, <2>4 DEF Honest, Ticketed, NoTicket
  <2> QED BY <1>1, <2>3, <2>5 DEF Honest, Ticketed, NoTicket
<1> QED BY <1>2, <1>3

\* The reader passes its record on.
LEMMA ReaderHonest ==
  ASSUME UploadInv, UploadAssumption, Honest, Published, ReaderEnqueues, excuse' = "none"
  PROVE  Honest'
<1> DEFINE isData == reader.ev.kind = "DATA"
           refuse == ~Receiving \/ phase = "Retired" \/ (gone /\ isData)
<1>1. /\ reader' = [ev |-> NoEvent, ticket |-> NoTicket]
      /\ UNCHANGED <<phase, ingress, deferred, processing, client, down, cancels>> /\ Acting
      /\ MyTurn(reader.ticket) /\ order' = Released(reader.ticket)
  BY DEF ReaderEnqueues, Acting, actorVars, cancelVars, clientVars
<1>2. Ticketed'
  BY <1>1, PassedTicketed
<1>3. reader.ev \in Events /\ reader.ev.kind # "none"
  BY DEF ReaderEnqueues, UploadInv, ActorTypes, Events, Received, Asked, RecordKinds
<1>4. \A c \in Cancellers : cancels'[c].ticket = cancels[c].ticket
  BY <1>1
<1>5. isData => /\ reader.ticket = NoTicket
                /\ term' = term => /\ TerminalPending' = TerminalPending
                                   /\ PreemptivePending' = PreemptivePending
  <2>1. isData => reader.ticket = NoTicket
    BY DEF Honest, Ticketed
  <2>2. ASSUME isData PROVE Admitting' = Admitting
    BY <1>1, <2>1, <2>2 DEF Admitting
  <2>3. ASSUME isData, term' = term
        PROVE  TerminalPending' = TerminalPending /\ PreemptivePending' = PreemptivePending
    BY <1>1, <2>2, <2>3 DEF TerminalPending, PreemptivePending, IsPreemptive
  <2> QED BY <2>1, <2>3
<1>6. CASE /\ refuse
           /\ gone' = TRUE
           /\ UNCHANGED <<data, term>>
  <2>3. \A i \in DOMAIN data' : Datum(data'[i])
    BY <1>6 DEF Honest, RecordsHonest
  <2>4. Chained => Chained'
    <3>1. reader'.ev.kind # "DATA" /\ ingress' = ingress /\ data' = data /\ gone' /\ UNCHANGED <<actor, state>>
      BY <1>1, <1>6 DEF NoEvent, Acting
    <3> QED BY <3>1 DEF Chained, Holding, HandEnd, LaneEnd
  <2>5. phase \in {"Opening", "Active"} /\ PreemptivePending => PreemptivePending'
    <3>1. phase \in {"Opening", "Active"} => isData
      BY <1>6 DEF Receiving, Honest, Fits, PhasesAt
    <3> QED BY <1>5, <1>6, <3>1
  <2>6. Passed
    BY <1>1, <1>6 DEF Passed
  <2> QED BY <1>2, <1>6, <2>3, <2>4, <2>5, <2>6, PassedHonest
<1>7. CASE /\ ~refuse
           /\ data' = IF isData THEN Append(data, reader.ev) ELSE data
           /\ term' = IF isData THEN term ELSE Append(term, reader.ev)
           /\ UNCHANGED gone
  <2>2. data \in Seq(Events) /\ term \in Seq(Events)
    BY DEF UploadInv, ActorTypes
  <2>3. Passed
    <3>1. isData => term' = term
      BY <1>7
    <3>2. ~isData => term' = Append(term, reader.ev) /\ term' # term
      BY <1>7, <2>2
    <3> QED BY <1>1, <1>3, <1>7, <3>1, <3>2 DEF Passed
  <2>4. CASE isData
    <3>1. data' = Append(data, reader.ev) /\ term' = term
      BY <1>7, <2>4
    <3>2. /\ Len(data') = Len(data) + 1 /\ DOMAIN data' = 1..(Len(data) + 1) /\ Len(data) \in Nat
          /\ DOMAIN data = 1..Len(data)
          /\ data'[Len(data) + 1] = reader.ev /\ \A i \in DOMAIN data : data'[i] = data[i]
      BY <1>3, <2>2, <3>1
    <3>3. \A i \in DOMAIN data' : Datum(data'[i])
      <4>1. Datum(reader.ev)
        BY DEF Honest, RecordsHonest, Waiting
      <4>2. \A i \in DOMAIN data : Datum(data[i])
        BY DEF Honest, RecordsHonest
      <4>3. \A i \in DOMAIN data' : i \in DOMAIN data \/ i = Len(data) + 1
        BY <3>2
      <4> QED BY <3>2, <4>1, <4>2, <4>3
    <3>4. Chained => Chained'
      <4>1. SUFFICES ASSUME Chained PROVE Chained'
        OBVIOUS
      <4>2. HandEnd' = HandEnd /\ (Holding' <=> Holding) /\ actor'.ev = actor.ev /\ state' = state
        BY <1>1 DEF HandEnd, Holding, Acting
      <4>3. data' # <<>> /\ LaneEnd' = reader.ev.off + reader.ev.n
        BY <3>2 DEF LaneEnd
      <4>4. reader.ev.off = LaneEnd
        BY <2>4, <4>1 DEF Chained
      <4>5. ASSUME NEW i \in DOMAIN data'
            PROVE  data'[i].off = IF i = 1 THEN HandEnd ELSE data'[i - 1].off + data'[i - 1].n
        <5>1. CASE i \in DOMAIN data
          <6>1. i # 1 => i - 1 \in DOMAIN data
            BY <3>2, <5>1
          <6> QED BY <3>2, <4>1, <5>1, <6>1 DEF Chained
        <5>2. CASE i = Len(data) + 1
          <6>1. data = <<>> => i = 1
            BY <3>2, <5>2, <2>2
          <6>2. data # <<>> => i # 1 /\ i - 1 = Len(data) /\ Len(data) \in DOMAIN data
            BY <3>2, <5>2, <2>2
          <6> QED BY <3>2, <4>4, <5>2, <6>1, <6>2 DEF LaneEnd
        <5> QED BY <3>2, <5>1, <5>2
      <4>6. reader'.ev.kind # "DATA" /\ ingress' = ingress /\ gone' = gone
        BY <1>1, <1>7 DEF NoEvent
      <4> QED BY <2>4, <4>1, <4>2, <4>3, <4>5, <4>6 DEF Chained
    <3> QED BY <1>2, <1>5, <2>3, <2>4, <3>1, <3>3, <3>4, PassedHonest
  <2>5. CASE ~isData
    <3>1. data' = data /\ term' = Append(term, reader.ev) /\ gone' = gone
      BY <1>7, <2>5
    <3>2. \A i \in DOMAIN data' : Datum(data'[i])
      BY <3>1 DEF Honest, RecordsHonest
    <3>3. Chained => Chained'
      <4>1. reader'.ev.kind # "DATA" /\ ingress' = ingress /\ UNCHANGED <<actor, state>>
        BY <1>1 DEF NoEvent, Acting
      <4> QED BY <2>5, <3>1, <4>1 DEF Chained, Holding, HandEnd, LaneEnd
    <3>4. /\ Len(term) + 1 \in DOMAIN term' /\ term'[Len(term) + 1] = reader.ev /\ term' # <<>>
          /\ \A i \in DOMAIN term : i \in DOMAIN term' /\ term'[i] = term[i]
      BY <1>3, <2>2, <3>1
    <3>5. TerminalPending'
      BY <3>4 DEF TerminalPending
    <3>6. PreemptivePending => PreemptivePending'
      <4>1. \A e \in Admitting : e = reader.ev \/ e \in Admitting'
        BY <1>4 DEF Admitting
      <4>2. (\E i \in DOMAIN term' : IsPreemptive(term'[i])) => PreemptivePending'
        BY DEF PreemptivePending, IsPreemptive
      <4>3. (\E e \in Admitting' : IsPreemptive(e)) => PreemptivePending'
        BY DEF PreemptivePending, IsPreemptive
      <4> QED BY <1>1, <3>4, <4>1, <4>2, <4>3 DEF PreemptivePending
    <3> QED BY <1>2, <2>3, <3>2, <3>3, <3>5, <3>6, PassedHonest
  <2> QED BY <2>4, <2>5
<1> QED BY <1>6, <1>7 DEF ReaderEnqueues

-----------------------------------------------------------------------------
(* The writer.                                                             *)

\* What the writer does not speak of is kept.
LEMMA WrittenHonest ==
  ASSUME UploadInv, UploadAssumption, Honest, WriterFrame, PhaseWritten,
         Fits', CreditsSeen', CreditsKept', Handshakes', Replies',
         \A h \in Grants : h \in Grants',
         ingress'.served \in Nat, ingress.served <= ingress'.served,
         AwaitsAck' => AwaitsAck \/ phase \notin {"AckPending", "Retired"},
         actor.pc = "credit" /\ write'.at = "unsent" => TerminalPending \/ Closed'
  PROVE  Honest'
<1> USE DEF WriterFrame, PhaseWritten
<1>1. TerminalPending' = TerminalPending /\ PreemptivePending' = PreemptivePending
  BY PendingStay
<1>2. Waiting' = Waiting /\ (Doomed => Doomed') /\ (Closed => Closed')
  BY <1>1 DEF Waiting, Doomed, Closed
<1>3. RecordsHonest'
  <2>1. \A e : RecordOk(e) => RecordOk(e)'
    BY <1>2 DEF RecordOk, Echoed
  <2>2. \A e \in Waiting \cup {actor.ev} : Datum(e)'
    <3> SUFFICES ASSUME NEW e \in Waiting \cup {actor.ev}, e.kind = "DATA" PROVE Datum(e)'
      BY DEF Datum
    <3>1. Datum(e)
      BY DEF Honest, RecordsHonest
    <3>2. e \in Events
      BY DEF Waiting, UploadInv, ActorTypes, Actors, NoEvent
    <3>3. e.credit \in Nat /\ ingress.served \in Nat
      BY <3>2 DEF Events, Received, Asked, UploadInv, WireTypes, Ingresses
    <3> QED BY <3>1, <3>3 DEF Datum
  <2>3. \A i \in DOMAIN data' : Datum(data[i])'
    <3> SUFFICES ASSUME NEW i \in DOMAIN data, data[i].kind = "DATA" PROVE Datum(data[i])'
      BY DEF Datum
    <3>1. Datum(data[i]) /\ data[i] \in Events
      BY DEF Honest, RecordsHonest, UploadInv, ActorTypes
    <3>2. data[i].credit \in Nat /\ ingress.served \in Nat
      BY <3>1 DEF Events, Received, Asked, UploadInv, WireTypes, Ingresses
    <3> QED BY <3>1, <3>2 DEF Datum
  <2> QED BY <1>2, <2>1, <2>2, <2>3 DEF Honest, RecordsHonest
<1>4. InRank' /\ Ticketed'
  <2>1. InRank'
    BY <1>2 DEF Honest, InRank, Rank
  <2>2. Ticketed'
    BY DEF Honest, Ticketed, NoTicket
  <2> QED BY <2>1, <2>2
<1>5. phase = "Opening" => actor.pc = "open" /\ processing = "none"
  BY DEF UploadInv, PhasesAgree, Honest, Handshakes
<1>6. InStep'
  <2>1. Chained => Chained'
    BY DEF Chained, Holding, HandEnd, LaneEnd
  <2> QED BY <1>1, <1>2, <1>5, <2>1 DEF Honest, InStep, IsPreemptive
<1>7. Oversized'
  BY <1>2 DEF Honest, Oversized
<1>8. Blameless'
  BY <1>1 DEF Honest, Blameless
<1> QED BY <1>3, <1>4, <1>6, <1>7, <1>8 DEF Honest

\* The writer discards a message.
LEMMA DiscardHonest ==
  ASSUME UploadInv, UploadAssumption, Honest, WriterDiscards, excuse' = "none"
  PROVE  Honest'
<1>1. /\ write.at = "queued" /\ write'.at \in {"unsent", "deadline"}
      /\ write' = [write EXCEPT !.at = write'.at]
      /\ write'.kind = write.kind /\ write'.n = write.n
      /\ (write.kind # "OPEN" => write'.at = "unsent")
  BY DEF WriterDiscards, UploadInv, ActorTypes, Writes, NoWrite
<1>2. /\ WriterFrame /\ UNCHANGED <<phase, ingress, down>> /\ (gone \/ ~MayStart)
      /\ ~(write.kind = "CREDIT" /\ expired)
  BY <1>1 DEF WriterDiscards, WriterFrame, ingressVars, laneVars, cancelVars, clientVars, Excuse
<1>3. Fits'
  BY <1>1, <1>2 DEF WriterFrame, Honest, Fits, Writing, PhasesAt
<1>4. ~CreditOut /\ ~CreditOut' /\ Grants' = Grants
  BY <1>1, <1>2 DEF CreditOut, Grants, WriterFrame
<1>5. /\ InDown("ABORT")' = InDown("ABORT") /\ InDown("ACK")' = InDown("ACK")
      /\ InDown("CREDIT")' = InDown("CREDIT") /\ InDown("REPLY")' = InDown("REPLY")
      /\ AwaitsAck' = AwaitsAck /\ Over' = Over /\ Waiting' = Waiting
  BY <1>2 DEF InDown, AwaitsAck, Over, Waiting, WriterFrame
<1>6. CreditsSeen' /\ CreditsKept'
  <2>1. CreditsSeen'
    BY <1>2, <1>4 DEF Honest, CreditsSeen, WriterFrame
  <2>2. CreditsKept'
    BY <1>1, <1>2, <1>4 DEF Honest, CreditsKept, WriterFrame
  <2> QED BY <2>1, <2>2
<1>7. actor.pc = "cross" => gone
  BY <1>2 DEF MayStart, Honest, Fits, Writing
<1>8. Handshakes'
  BY <1>1, <1>2, <1>5, <1>7 DEF Honest, Handshakes, WriterFrame
<1>9. Replies'
  BY <1>1, <1>2, <1>5 DEF Honest, Replies, WriterFrame, Fits, Writing
<1>10. actor.pc = "credit" => TerminalPending \/ Closed'
  <2> SUFFICES ASSUME actor.pc = "credit", ~TerminalPending, ~gone PROVE phase = "Retired"
    BY <1>2 DEF Closed, WriterFrame
  <2>1. write.kind = "CREDIT" /\ phase \in {"Active", "Retired"}
    BY DEF Honest, Fits, Writing, PhasesAt
  <2> QED BY <1>2, <2>1 DEF MayStart
<1>11. PhaseWritten /\ ingress.served \in Nat
  BY <1>2 DEF PhaseWritten, Honest, Blameless, UploadInv, WireTypes, Ingresses
<1> QED BY <1>2, <1>3, <1>4, <1>5, <1>6, <1>8, <1>9, <1>10, <1>11, WrittenHonest

\* The writer has sent a message.
LEMMA SendHonest ==
  ASSUME UploadInv, UploadAssumption, Honest, WriterSends
  PROVE  Honest'
<1>1. /\ write.at = "started" /\ write'.at = "sent"
      /\ write'.kind = write.kind /\ write'.n = write.n /\ write.kind # "none"
  <2>1. write.at = "started" /\ write' = [write EXCEPT !.at = "sent"] /\ write \in Writes
    BY DEF WriterSends, UploadInv, ActorTypes
  <2> QED BY <2>1 DEF Writes, NoWrite, Messages
<1>2. WriterFrame /\ UNCHANGED <<ingress, down>>
  BY <1>1 DEF WriterSends, WriterFrame, laneVars, cancelVars, clientVars, historyVars
<1>3. \/ phase' = phase
      \/ /\ phase' = "Retired" /\ actor.pc \in {"ack", "publish", "unfinished"}
         /\ phase \in PhasesAt(actor.pc)
  <2>1. write.kind = Writing(actor.pc) /\ phase \in PhasesAt(actor.pc)
    BY DEF Honest, Fits
  <2>2. CASE write.kind = "FINALACK"
    <3>1. actor.pc = "ack"
      BY <2>1, <2>2 DEF Writing
    <3>2. reader.ticket = NoTicket /\ \A i \in DOMAIN term : term[i].kind = "CANCEL"
      BY <3>1 DEF Honest, Handshakes, Ticketed, NoEvent
    <3>3. ~NonCancelPending
      BY <3>2 DEF NonCancelPending, Admitting
    <3> QED BY <2>1, <2>2, <3>1, <3>3 DEF WriterSends
  <2>3. CASE write.kind = "REPLY" /\ actor.pc # "reply"
    BY <2>1, <2>3 DEF WriterSends, Writing
  <2>4. CASE write.kind # "FINALACK" /\ ~(write.kind = "REPLY" /\ actor.pc # "reply")
    BY <2>4 DEF WriterSends
  <2> QED BY <2>2, <2>3, <2>4
<1>4. Fits'
  BY <1>1, <1>2, <1>3 DEF WriterFrame, Honest, Fits, Writing, PhasesAt
<1>5. CreditOut' = CreditOut /\ Grants' = Grants
  BY <1>1, <1>2 DEF CreditOut, Grants, WriterFrame
<1>6. /\ InDown("ABORT")' = InDown("ABORT") /\ InDown("ACK")' = InDown("ACK")
      /\ InDown("CREDIT")' = InDown("CREDIT") /\ InDown("REPLY")' = InDown("REPLY")
      /\ AwaitsAck' = AwaitsAck /\ Over' = Over /\ Waiting' = Waiting
  BY <1>2 DEF InDown, AwaitsAck, Over, Waiting, WriterFrame
<1>7. CreditsSeen' /\ CreditsKept'
  <2>1. CreditsSeen'
    BY <1>2, <1>5 DEF Honest, CreditsSeen, WriterFrame
  <2>2. CreditsKept'
    BY <1>1, <1>2, <1>5 DEF Honest, CreditsKept, WriterFrame
  <2> QED BY <2>1, <2>2
<1>8. Handshakes'
  <2>1. phase' # phase => ~AwaitsAck \/ gone
    BY <1>3 DEF Honest, Handshakes, PhasesAt
  <2> QED BY <1>1, <1>2, <1>3, <1>6, <2>1 DEF Honest, Handshakes, WriterFrame
<1>9. Replies'
  BY <1>1, <1>2, <1>6 DEF Honest, Replies, WriterFrame, Fits, Writing
<1>10. PhaseWritten /\ ingress.served \in Nat
  BY <1>3 DEF PhaseWritten, PhasesAt, Honest, Blameless, UploadInv, WireTypes, Ingresses
<1> QED BY <1>1, <1>2, <1>4, <1>5, <1>6, <1>7, <1>8, <1>9, <1>10, WrittenHonest

-----------------------------------------------------------------------------
(* The writer starts a message.                                            *)

\* What starting a message does, field by field.
LEMMA StartFields ==
  ASSUME UploadInv, Honest, WriterStarts
  PROVE  /\ write.at = "queued" /\ write'.at = "started" /\ write.kind \in Messages
         /\ write'.kind = write.kind /\ write'.n = write.n
         /\ ~gone /\ MayStart /\ WriterFrame
         /\ ingress'.served = IF write.kind = "CREDIT" THEN write.n ELSE ingress.served
         /\ down' = Append(down, Written)
         /\ ~client.replied /\ ~InDown("REPLY")
<1>1. /\ write.at = "queued" /\ write' = [write EXCEPT !.at = "started"] /\ write \in Writes
      /\ ~gone /\ MayStart /\ down' = Append(down, Written)
  BY DEF WriterStarts, UploadInv, ActorTypes, Written
<1>2. /\ write'.at = "started" /\ write.kind \in Messages
      /\ write'.kind = write.kind /\ write'.n = write.n
  BY <1>1 DEF Writes, NoWrite
<1>3. /\ UNCHANGED <<ingress.accepted, ingress.received, ingress.refused, ingress.producer>>
      /\ ingress'.served = IF write.kind = "CREDIT" THEN write.n ELSE ingress.served
  BY DEF WriterStarts, UploadInv, WireTypes, Ingresses
<1>4. WriterFrame
  BY <1>2, <1>3 DEF WriterStarts, WriterFrame, laneVars, historyVars
<1>5. ~client.replied /\ ~InDown("REPLY")
  BY <1>1, <1>2 DEF Honest, Replies, Fits, Writing, Messages
<1> QED BY <1>1, <1>2, <1>3, <1>4, <1>5

\* One more message is on the wire.
LEMMA DownGrows ==
  ASSUME NEW s \in Seq(Downs), NEW m, down' = Append(down, m), down = s
  PROVE  /\ Len(down') = Len(down) + 1 /\ Len(down) \in Nat
         /\ \A i \in DOMAIN down' : \/ i \in DOMAIN down /\ down'[i] = down[i]
                                    \/ i = Len(down) + 1 /\ down'[i] = m
         /\ \A i \in DOMAIN down : i \in DOMAIN down' /\ down'[i] = down[i] /\ i < Len(down) + 1
         /\ Len(down) + 1 \in DOMAIN down' /\ down'[Len(down) + 1] = m
         /\ down' # <<>>
  OBVIOUS

\* What is on the wire, then.
LEMMA InDownGrows ==
  ASSUME down \in Seq(Downs), NEW m, down' = Append(down, m), NEW k
  PROVE  InDown(k)' <=> InDown(k) \/ m.kind = k
  BY DownGrows DEF InDown

\* The writer starts a message.
LEMMA StartHonest ==
  ASSUME UploadInv, UploadAssumption, Honest, WriterStarts
  PROVE  Honest'
<1>1. /\ write.at = "queued" /\ write'.at = "started" /\ write.kind \in Messages
      /\ write'.kind = write.kind /\ write'.n = write.n
      /\ ~gone /\ MayStart /\ WriterFrame
      /\ ingress'.served = IF write.kind = "CREDIT" THEN write.n ELSE ingress.served
      /\ down' = Append(down, Written)
      /\ ~client.replied /\ ~InDown("REPLY")
  BY StartFields
<1>2. down \in Seq(Downs) /\ Written.n = write.n /\ Written.acc = state.accepted
      /\ Written.kind = IF write.kind = "FINALACK" THEN "ACK" ELSE write.kind
  BY DEF UploadInv, WireTypes, Written
<1> HIDE DEF Written
<1>3. /\ Len(down') = Len(down) + 1 /\ Len(down) \in Nat
      /\ \A i \in DOMAIN down' : \/ i \in DOMAIN down /\ down'[i] = down[i]
                                 \/ i = Len(down) + 1 /\ down'[i] = Written
      /\ \A i \in DOMAIN down : i \in DOMAIN down' /\ down'[i] = down[i] /\ i < Len(down) + 1
  BY <1>1, <1>2, DownGrows
<1>4. \A k : InDown(k)' <=> InDown(k) \/ Written.kind = k
  BY <1>1, <1>2, InDownGrows
<1>5. write.kind = Writing(actor.pc) /\ phase \in PhasesAt(actor.pc)
  BY DEF Honest, Fits
<1>6. ~CreditOut /\ Grants = state.history
  BY <1>1 DEF CreditOut, Grants
<1>7. /\ CreditOut' <=> write.kind = "CREDIT"
      /\ Grants' = state.history \cup (IF write.kind = "CREDIT" THEN {<<state.accepted, write.n>>} ELSE {})
  BY <1>1 DEF CreditOut, Grants, WriterFrame
<1>8. phase' = CASE write.kind = "OPEN"     -> "Active"
                 [] write.kind = "ABORT"    -> "DaemonAbortWaitAck"
                 [] write.kind = "FINALACK" -> "ClientAbortAckCommitted"
                 [] OTHER                   -> phase
  BY DEF WriterStarts
<1>9. \/ write.kind = "OPEN" /\ actor.pc = "open" /\ phase = "Opening" /\ phase' = "Active"
      \/ write.kind = "CREDIT" /\ actor.pc = "credit" /\ phase = "Active" /\ phase' = phase
      \/ write.kind = "ABORT" /\ actor.pc = "abort" /\ phase = "DaemonAbortQueued"
         /\ phase' = "DaemonAbortWaitAck"
      \/ write.kind = "FINALACK" /\ actor.pc = "ack" /\ phase = "ClientAbortPending"
         /\ phase' = "ClientAbortAckCommitted"
      \/ write.kind = "ACK" /\ actor.pc = "cross" /\ phase' = phase
      \/ write.kind = "REPLY" /\ actor.pc \in {"reply", "publish", "unfinished"} /\ phase' = phase
  BY <1>1, <1>5, <1>8 DEF MayStart, Writing, Honest, Blameless, Messages
<1>10. PhaseWritten
  BY <1>9 DEF PhaseWritten, Honest, Blameless
<1>11. Fits'
  BY <1>1, <1>9 DEF WriterFrame, Honest, Fits, Writing, PhasesAt
<1>12. /\ state.accepted \in Nat /\ state.credited \in Nat /\ client.accepted \in Nat
       /\ client.sent \in Nat /\ client.through \in Nat /\ ingress.served \in Nat
       /\ state.accepted <= Declared /\ Declared \in Nat
  BY DEF UploadInv, ActorTypes, States, WireTypes, Clients, Ingresses, DataInOrder, UploadAssumption
<1>13. write.kind = "CREDIT" => /\ write.n = CreditAt(state.accepted) /\ write.n \in Nat
                                /\ ingress.served <= write.n
  <2>1. SUFFICES ASSUME write.kind = "CREDIT"
                 PROVE  /\ write.n = CreditAt(state.accepted) /\ write.n \in Nat
                        /\ ingress.served <= write.n
    OBVIOUS
  <2>2. write.n = CreditAt(state.accepted) /\ ingress.served = state.through
        /\ state.credited <= state.accepted
    BY <1>6, <2>1 DEF Honest, CreditsKept
  <2>3. CreditAt(state.accepted) \in Nat /\ CreditAt(state.credited) <= CreditAt(state.accepted)
    BY <1>12, <2>2, CreditGrows
  <2> QED BY <2>2, <2>3 DEF Honest, CreditsKept
<1>14. CreditsKept'
  BY <1>1, <1>6, <1>7, <1>13 DEF Honest, CreditsKept, WriterFrame
<1>15. CreditsSeen'
  <2>1. \A i \in DOMAIN down : down[i].kind = "CREDIT" => down[i].acc \in Nat /\ down[i].acc <= state.accepted
    <3> SUFFICES ASSUME NEW i \in DOMAIN down, down[i].kind = "CREDIT"
                 PROVE  down[i].acc \in Nat /\ down[i].acc <= state.accepted
      OBVIOUS
    <3>1. <<down[i].acc, down[i].n>> \in Grants
      BY DEF Honest, CreditsSeen
    <3> QED BY <3>1, GrantFacts
  <2>2. client.accepted <= state.accepted
    <3>1. client.granted => <<client.accepted, client.through>> \in Grants
      BY DEF Honest, CreditsSeen
    <3>2. ~client.granted => client.accepted = 0
      BY DEF Honest, CreditsSeen
    <3>3. client.granted => client.accepted <= state.accepted
      BY <3>1, GrantFacts
    <3> QED BY <1>12, <3>2, <3>3
  <2>3. ASSUME NEW i \in DOMAIN down', down'[i].kind = "CREDIT"
        PROVE  /\ <<down'[i].acc, down'[i].n>> \in Grants'
               /\ client.accepted <= down'[i].acc
               /\ \A j \in DOMAIN down' : i < j /\ down'[j].kind = "CREDIT" => down'[i].acc <= down'[j].acc
    <3>1. CASE i \in DOMAIN down /\ down'[i] = down[i]
      <4>1. \A j \in DOMAIN down' : i < j /\ down'[j].kind = "CREDIT" => down'[i].acc <= down'[j].acc
        <5> SUFFICES ASSUME NEW j \in DOMAIN down', i < j, down'[j].kind = "CREDIT"
                     PROVE  down[i].acc <= down'[j].acc
          BY <3>1
        <5>1. CASE j \in DOMAIN down /\ down'[j] = down[j]
          BY <2>3, <3>1, <5>1 DEF Honest, CreditsSeen
        <5>2. CASE down'[j] = Written
          BY <1>2, <2>1, <2>3, <3>1, <5>2
        <5> QED BY <1>3, <5>1, <5>2
      <4>2. <<down[i].acc, down[i].n>> \in Grants /\ client.accepted <= down[i].acc
        BY <2>3, <3>1 DEF Honest, CreditsSeen
      <4> QED BY <1>6, <1>7, <3>1, <4>1, <4>2
    <3>2. CASE i = Len(down) + 1 /\ down'[i] = Written
      <4>1. write.kind = "CREDIT"
        BY <1>2, <2>3, <3>2
      <4>2. \A j \in DOMAIN down' : ~(i < j)
        BY <1>3, <3>2
      <4> QED BY <1>2, <1>7, <2>2, <3>2, <4>1, <4>2
    <3> QED BY <1>3, <3>1, <3>2
  <2>4. client' = client
    BY <1>1 DEF WriterFrame
  <2> QED BY <1>6, <1>7, <2>3, <2>4 DEF Honest, CreditsSeen
<1>16. (AwaitsAck' <=> AwaitsAck \/ write.kind = "ABORT") /\ (Over => Over' \/ write.kind = "ABORT")
       /\ Waiting' = Waiting
  BY <1>1, <1>2, <1>4 DEF AwaitsAck, Over, Waiting, WriterFrame
<1>17. /\ InDown("ABORT")' <=> InDown("ABORT") \/ write.kind = "ABORT"
       /\ InDown("CREDIT")' <=> InDown("CREDIT") \/ write.kind = "CREDIT"
       /\ InDown("REPLY")' <=> write.kind = "REPLY"
       /\ InDown("ACK")' <=> InDown("ACK") \/ write.kind \in {"ACK", "FINALACK"}
  BY <1>1, <1>2, <1>4
<1>18. Handshakes'
  <2>1. write.kind = "ABORT" => ~client.told /\ ~InDown("ABORT")
    BY <1>9 DEF Honest, Handshakes
  <2>2. \A i, j \in DOMAIN down' : down'[i].kind = "ABORT" /\ down'[j].kind = "ABORT" => i = j
    <3> SUFFICES ASSUME NEW i \in DOMAIN down', NEW j \in DOMAIN down', i # j,
                        down'[i].kind = "ABORT", down'[j].kind = "ABORT"
                 PROVE  FALSE
      OBVIOUS
    <3>1. CASE i \in DOMAIN down /\ down'[i] = down[i] /\ j \in DOMAIN down /\ down'[j] = down[j]
      BY <3>1 DEF Honest, Handshakes
    <3>2. CASE /\ down'[i] = Written \/ down'[j] = Written
               /\ \/ i \in DOMAIN down /\ down'[i] = down[i]
                  \/ j \in DOMAIN down /\ down'[j] = down[j]
      <4>1. write.kind = "ABORT" /\ InDown("ABORT")
        BY <1>2, <3>2 DEF InDown
      <4> QED BY <2>1, <4>1
    <3> QED BY <1>3, <3>1, <3>2
  <2> QED BY <1>1, <1>9, <1>16, <1>17, <2>1, <2>2 DEF Honest, Handshakes, WriterFrame
<1>19. Replies'
  <2>1. actor.pc \in {"reply", "publish", "unfinished"} => Over'
    BY <1>1, <1>9, <1>16 DEF Honest, Replies
  <2>2. \A i \in DOMAIN down' : down'[i].kind = "REPLY" =>
          i = Len(down') /\ actor.pc \in {"reply", "publish", "unfinished"}
    <3> SUFFICES ASSUME NEW i \in DOMAIN down', down'[i].kind = "REPLY"
                 PROVE  i = Len(down') /\ actor.pc \in {"reply", "publish", "unfinished"}
      OBVIOUS
    <3>1. ~(i \in DOMAIN down /\ down'[i] = down[i])
      BY <1>1 DEF InDown
    <3> QED BY <1>2, <1>3, <1>9, <3>1
  <2>3. actor' = actor /\ client' = client /\ gone' = gone
    BY <1>1 DEF WriterFrame
  <2> QED BY <1>1, <1>9, <1>17, <2>1, <2>2, <2>3 DEF Replies
<1>20. ingress'.served \in Nat /\ ingress.served <= ingress'.served
  BY <1>1, <1>12, <1>13
<1>21. AwaitsAck' => AwaitsAck \/ phase \notin {"AckPending", "Retired"}
  BY <1>9, <1>16
<1>22. \A h \in Grants : h \in Grants'
  BY <1>6, <1>7
<1> QED BY <1>1, <1>10, <1>11, <1>14, <1>15, <1>18, <1>19, <1>20, <1>21, <1>22, WrittenHonest

-----------------------------------------------------------------------------
(* The producer reads what the daemon wrote.                               *)

\* What reading a message does, field by field.
LEMMA ReadFields ==
  ASSUME UploadInv, ClientReads
  PROVE  LET m == Head(down) IN
         /\ UNCHANGED <<client.sent, client.ended, client.aborted>>
         /\ m.kind \in {"OPEN", "CREDIT", "ABORT", "ACK", "REPLY"}
         /\ client'.granted = (client.granted \/ m.kind = "CREDIT")
         /\ client'.accepted = IF m.kind = "CREDIT" THEN m.acc ELSE client.accepted
         /\ client'.through = IF m.kind = "CREDIT" THEN m.n ELSE client.through
         /\ client'.told = (client.told \/ m.kind = "ABORT")
         /\ client'.owes = (client.owes \/ m.kind = "ABORT")
         /\ client'.acked = (client.acked \/ m.kind = "ACK")
         /\ client'.replied = (client.replied \/ m.kind = "REPLY")
<1> DEFINE m == Head(down)
<1>1. client \in Clients /\ m \in Downs
  BY DEF UploadInv, WireTypes, ClientReads
<1>2. m.kind \in {"OPEN", "CREDIT", "ABORT", "ACK", "REPLY"}
  BY <1>1 DEF Downs, Messages
<1>3. client' = CASE m.kind = "OPEN"   -> [client EXCEPT !.open = TRUE]
                  [] m.kind = "CREDIT" -> [client EXCEPT !.granted = TRUE, !.accepted = m.acc,
                                                         !.through = m.n]
                  [] m.kind = "ABORT"  -> [client EXCEPT !.told = TRUE, !.owes = TRUE,
                                                         !.echo = m.acc]
                  [] m.kind = "ACK"    -> [client EXCEPT !.acked = TRUE]
                  [] m.kind = "REPLY"  -> [client EXCEPT !.replied = TRUE]
  BY DEF ClientReads
<1> HIDE DEF m
<1>4. CASE m.kind = "OPEN"
  BY <1>1, <1>3, <1>4 DEF Clients, m
<1>5. CASE m.kind = "CREDIT"
  BY <1>1, <1>3, <1>5 DEF Clients, m
<1>6. CASE m.kind = "ABORT"
  BY <1>1, <1>3, <1>6 DEF Clients, m
<1>7. CASE m.kind = "ACK"
  BY <1>1, <1>3, <1>7 DEF Clients, m
<1>8. CASE m.kind = "REPLY"
  BY <1>1, <1>3, <1>8 DEF Clients, m
<1> QED BY <1>2, <1>4, <1>5, <1>6, <1>7, <1>8

\* One message less is on the wire.
LEMMA DownShrinks ==
  ASSUME NEW s \in Seq(Downs), down = s, down # <<>>, down' = Tail(down)
  PROVE  /\ 1 \in DOMAIN down /\ Head(down) = down[1]
         /\ Len(down) \in Nat /\ Len(down') = Len(down) - 1
         /\ \A i \in DOMAIN down' : i + 1 \in DOMAIN down /\ down'[i] = down[i + 1]
         /\ \A i \in DOMAIN down : i = 1 \/ (i - 1 \in DOMAIN down' /\ down'[i - 1] = down[i])
         /\ (Len(down) = 1 => down' = <<>>)
  OBVIOUS

\* The producer reads a message.
LEMMA ReadHonest ==
  ASSUME UploadInv, UploadAssumption, Honest, ClientReads
  PROVE  Honest'
<1> DEFINE m == Head(down)
<1>1. /\ UNCHANGED <<phase, gone, ingress, order, reader, data, term, deferred, processing, cancels>>
      /\ Acting /\ down # <<>> /\ ~gone /\ down' = Tail(down)
  BY DEF ClientReads, ingressVars, laneVars, actorVars, cancelVars, historyVars, Acting
<1>2. /\ UNCHANGED <<client.sent, client.ended, client.aborted>>
      /\ m.kind \in {"OPEN", "CREDIT", "ABORT", "ACK", "REPLY"}
      /\ client'.granted = (client.granted \/ m.kind = "CREDIT")
      /\ client'.accepted = IF m.kind = "CREDIT" THEN m.acc ELSE client.accepted
      /\ client'.through = IF m.kind = "CREDIT" THEN m.n ELSE client.through
      /\ client'.told = (client.told \/ m.kind = "ABORT")
      /\ client'.owes = (client.owes \/ m.kind = "ABORT")
      /\ client'.acked = (client.acked \/ m.kind = "ACK")
      /\ client'.replied = (client.replied \/ m.kind = "REPLY")
  BY ReadFields
<1>3. /\ 1 \in DOMAIN down /\ m = down[1]
      /\ Len(down) \in Nat /\ Len(down') = Len(down) - 1
      /\ \A i \in DOMAIN down' : i + 1 \in DOMAIN down /\ down'[i] = down[i + 1]
      /\ \A i \in DOMAIN down : i = 1 \/ (i - 1 \in DOMAIN down' /\ down'[i - 1] = down[i])
      /\ (Len(down) = 1 => down' = <<>>)
      /\ \A i \in DOMAIN down' : i \in Nat /\ 1 # i + 1 /\ 1 < i + 1
      /\ down \in Seq(Downs)
  <2>1. down \in Seq(Downs)
    BY DEF UploadInv, WireTypes
  <2>2. down' \in Seq(Downs) /\ (\A i \in DOMAIN down' : i \in Nat /\ i >= 1)
    BY <1>1, <2>1
  <2>3. \A i \in DOMAIN down' : i \in Nat /\ 1 # i + 1 /\ 1 < i + 1
    BY <2>2
  <2> QED BY <1>1, <2>1, <2>3, DownShrinks
<1> HIDE DEF m
<1>4. \A k : InDown(k) <=> InDown(k)' \/ m.kind = k
  BY <1>3 DEF InDown
<1>5. InDown("ABORT")' => m.kind # "ABORT"
  <2> SUFFICES ASSUME NEW i \in DOMAIN down', down'[i].kind = "ABORT", m.kind = "ABORT"
               PROVE  FALSE
    BY DEF InDown
  <2>1. i + 1 \in DOMAIN down /\ down[i + 1].kind = "ABORT" /\ down[1].kind = "ABORT" /\ 1 # i + 1
    BY <1>3
  <2> QED BY <1>3, <2>1 DEF Honest, Handshakes
<1>6. (AwaitsAck' <=> AwaitsAck) /\ (Over' <=> Over)
  <2>1. AwaitsAck' <=> AwaitsAck
    BY <1>2, <1>4 DEF AwaitsAck
  <2>2. client'.acked \/ InDown("ACK")' <=> client.acked \/ InDown("ACK")
    BY <1>2, <1>4
  <2> QED BY <1>2, <2>1, <2>2 DEF Over
<1>7. /\ Grants' = Grants /\ CreditOut' = CreditOut /\ Waiting' = Waiting
      /\ (\A n : Echoed(n)' <=> Echoed(n))
  BY <1>1, <1>2 DEF Grants, CreditOut, Waiting, Echoed, Acting
<1>8. TerminalPending' = TerminalPending /\ PreemptivePending' = PreemptivePending
  BY <1>1, PendingStay
<1>9. Fits'
  BY <1>1 DEF Acting, Honest, Fits, Writing, PhasesAt
<1>10. CreditsKept'
  BY <1>1, <1>7 DEF Acting, Honest, CreditsKept, CreditAt
<1>11. CreditsSeen'
  <2>1. ASSUME m.kind = "CREDIT"
        PROVE  /\ <<m.acc, m.n>> \in Grants /\ client.accepted <= m.acc
               /\ \A i \in DOMAIN down' : down'[i].kind = "CREDIT" => m.acc <= down'[i].acc
               /\ client.sent <= m.n
               /\ client.ended => m.acc = client.sent
    <3>1. <<m.acc, m.n>> \in Grants /\ client.accepted <= m.acc
      BY <1>3, <2>1 DEF Honest, CreditsSeen
    <3>2. \A i \in DOMAIN down' : down'[i].kind = "CREDIT" => m.acc <= down'[i].acc
      <4> SUFFICES ASSUME NEW i \in DOMAIN down', down'[i].kind = "CREDIT"
                   PROVE  m.acc <= down'[i].acc
        OBVIOUS
      <4>1. i + 1 \in DOMAIN down /\ down[i + 1] = down'[i] /\ 1 < i + 1
        BY <1>3
      <4> QED BY <1>3, <2>1, <4>1 DEF Honest, CreditsSeen
    <3>3. /\ m.acc \in Nat /\ m.n \in Nat /\ m.n = CreditAt(m.acc) /\ m.acc <= state.accepted
          /\ state.accepted <= Declared /\ state.accepted \in Nat /\ Declared \in Nat
          /\ client.sent \in Nat /\ client.accepted \in Nat
      <4> DEFINE h == <<m.acc, m.n>>
      <4>1. h \in Grants
        BY <3>1
      <4>2. h[1] \in Nat /\ h[2] \in Nat /\ h[2] = CreditAt(h[1]) /\ h[1] <= state.accepted
            /\ state.accepted <= Declared
        BY <4>1, GrantFacts
      <4> QED BY <4>2 DEF UploadInv, ActorTypes, States, WireTypes, Clients, UploadAssumption
    <3>4. client.sent <= m.n
      <4>1. CASE client.granted
        <5>1. client.sent <= client.through /\ <<client.accepted, client.through>> \in Grants
          BY <4>1 DEF Honest, CreditsSeen
        <5>2. client.through = CreditAt(client.accepted)
          BY <5>1, GrantFacts
        <5>3. m.acc <= Declared
          BY <3>3
        <5>4. CreditAt(client.accepted) \in Nat /\ CreditAt(client.accepted) <= CreditAt(m.acc)
          BY <3>1, <3>3, <5>3, CreditGrows
        <5> QED BY <3>3, <5>1, <5>2, <5>4
      <4>2. CASE ~client.granted
        BY <3>3, <4>2 DEF Honest, CreditsSeen
      <4> QED BY <4>1, <4>2
    <3>5. client.ended => m.acc = client.sent
      <4>1. SUFFICES ASSUME client.ended PROVE m.acc = client.sent
        OBVIOUS
      <4>2. client.accepted = client.sent /\ client.sent = state.accepted
        BY <4>1, Drained DEF Honest, CreditsSeen
      <4> QED BY <3>1, <3>3, <4>2
    <3> QED BY <3>1, <3>2, <3>4, <3>5
  <2>2. ASSUME NEW i \in DOMAIN down', down'[i].kind = "CREDIT"
        PROVE  /\ <<down'[i].acc, down'[i].n>> \in Grants'
               /\ client'.accepted <= down'[i].acc
               /\ \A j \in DOMAIN down' : i < j /\ down'[j].kind = "CREDIT" => down'[i].acc <= down'[j].acc
    <3>1. i + 1 \in DOMAIN down /\ down'[i] = down[i + 1]
      BY <1>3
    <3>2. \A j \in DOMAIN down' : i < j => i + 1 < j + 1 /\ j + 1 \in DOMAIN down /\ down'[j] = down[j + 1]
      BY <1>3
    <3>3. <<down'[i].acc, down'[i].n>> \in Grants' /\ client.accepted <= down'[i].acc
      BY <1>7, <2>2, <3>1 DEF Honest, CreditsSeen
    <3>4. client'.accepted <= down'[i].acc
      BY <1>2, <2>1, <2>2, <3>3
    <3>5. \A j \in DOMAIN down' : i < j /\ down'[j].kind = "CREDIT" => down'[i].acc <= down'[j].acc
      BY <2>2, <3>1, <3>2 DEF Honest, CreditsSeen
    <3> QED BY <3>3, <3>4, <3>5
  <2>3. CASE m.kind = "CREDIT"
    BY <1>2, <1>7, <2>1, <2>2, <2>3 DEF CreditsSeen
  <2>4. CASE m.kind # "CREDIT"
    BY <1>2, <1>7, <2>2, <2>4 DEF Honest, CreditsSeen
  <2> QED BY <2>3, <2>4
<1>12. RecordsHonest'
  <2>1. \A e : RecordOk(e) => RecordOk(e)'
    BY <1>1, <1>2, <1>6, <1>7 DEF RecordOk, Acting
  <2>2. \A e : Datum(e)' = Datum(e)
    BY <1>1 DEF Datum
  <2>3. \A i \in DOMAIN data' : Datum(data[i])'
    BY <1>1 DEF Datum, Honest, RecordsHonest
  <2>4. \A e \in Waiting' \cup {actor'.ev} : RecordOk(e)' /\ Datum(e)'
    BY <1>1, <1>7, <2>1, <2>2 DEF Honest, RecordsHonest, Acting
  <2> QED BY <1>1, <1>2, <2>3, <2>4 DEF Honest, RecordsHonest, Acting
<1>13. InRank' /\ Ticketed'
  <2>1. InRank'
    BY <1>1, <1>7 DEF Honest, InRank, Rank, Acting
  <2>2. Ticketed'
    BY <1>1 DEF Honest, Ticketed, NoTicket
  <2> QED BY <2>1, <2>2
<1>14. InStep'
  <2>1. (Chained <=> Chained') /\ (Doomed <=> Doomed') /\ (Closed <=> Closed')
    BY <1>1, <1>8 DEF Chained, Holding, HandEnd, LaneEnd, Doomed, Closed, Acting
  <2> QED BY <1>1, <1>2, <1>8, <2>1 DEF Honest, InStep, IsPreemptive, Acting
<1>15. Oversized' /\ Blameless'
  <2>1. Oversized'
    BY <1>1, <1>7 DEF Honest, Oversized, Acting
  <2>2. Blameless'
    BY <1>1, <1>8 DEF Honest, Blameless, Acting
  <2> QED BY <2>1, <2>2
<1>16. Handshakes'
  <2>1. \A i, j \in DOMAIN down' : down'[i].kind = "ABORT" /\ down'[j].kind = "ABORT" => i = j
    <3> SUFFICES ASSUME NEW i \in DOMAIN down', NEW j \in DOMAIN down',
                        down'[i].kind = "ABORT", down'[j].kind = "ABORT"
                 PROVE  i = j
      OBVIOUS
    <3>1. i + 1 \in DOMAIN down /\ j + 1 \in DOMAIN down /\ i \in Nat /\ j \in Nat
          /\ down[i + 1].kind = "ABORT" /\ down[j + 1].kind = "ABORT"
      BY <1>3
    <3>2. i + 1 = j + 1
      BY <3>1 DEF Honest, Handshakes
    <3> QED BY <3>1, <3>2
  <2>2. m.kind = "ABORT" => /\ phase \in {"DaemonAbortWaitAck", "AckPending", "Retired"}
                            /\ actor.pc \notin {"open", "ack"} /\ ~client.told
    BY <1>4 DEF Honest, Handshakes
  <2>3. m.kind = "CREDIT" => actor.pc # "open"
    BY <1>4 DEF Honest, Handshakes
  <2>4. client'.acked \/ InDown("ACK")' <=> client.acked \/ InDown("ACK")
    BY <1>2, <1>4
  <2>5. (InDown("ABORT")' => InDown("ABORT")) /\ (InDown("CREDIT")' => InDown("CREDIT"))
    BY <1>4
  <2> QED BY <1>1, <1>2, <1>5, <1>6, <1>7, <2>1, <2>2, <2>3, <2>4, <2>5 DEF Honest, Handshakes, Acting
<1>17. Replies'
  <2>1. InDown("REPLY")' => InDown("REPLY")
    BY <1>4
  <2>2. m.kind = "REPLY" => Over /\ down' = <<>> /\ InDown("REPLY")
    BY <1>1, <1>3, <1>4 DEF Honest, Replies
  <2>3. ~client.replied
    BY <1>1 DEF Honest, Replies
  <2>4. \A i \in DOMAIN down' : down'[i].kind = "REPLY" => i = Len(down') /\ Over
    BY <1>1, <1>3 DEF Honest, Replies
  <2> QED BY <1>1, <1>2, <1>6, <2>1, <2>2, <2>3, <2>4 DEF Honest, Replies, Acting
<1> QED BY <1>9, <1>10, <1>11, <1>12, <1>13, <1>14, <1>15, <1>16, <1>17 DEF Honest

-----------------------------------------------------------------------------
(* What an honest producer sends.                                          *)

\* The producer's steps say what Said states.
LEMMA SaidFields ==
  ASSUME UploadInv, UploadAssumption, source \in Nat, excuse' = "none"
  PROVE  /\ \A n \in 1..Window : ClientSendsData(n) => Said("DATA") /\ client'.sent = client.sent + n
         /\ ClientEnds => Said("END")
         /\ ClientAborts => Said("ABORT")
         /\ ClientAcks => Said("ACK")
<1>1. client \in Clients /\ Window \in Nat
  BY DEF UploadInv, WireTypes, UploadAssumption
<1>2. /\ client.sent \in Nat /\ client.accepted \in Nat /\ client.through \in Nat
      /\ client.ended \in BOOLEAN /\ client.aborted \in BOOLEAN /\ client.owes \in BOOLEAN
  BY <1>1 DEF Clients
<1>3. ASSUME NEW n \in 1..Window, ClientSendsData(n) PROVE Said("DATA") /\ client'.sent = client.sent + n
  <2>1. client' = [client EXCEPT !.sent = @ + n] /\ client.granted /\ ~Stopped
        /\ client.sent + n <= Lesser(client.through, source)
    BY <1>3 DEF ClientSendsData
  <2>2. client.sent + n <= client.through
    BY <1>2, <2>1 DEF Lesser
  <2>3. /\ client'.sent = client.sent + n
        /\ UNCHANGED <<client.granted, client.accepted, client.through, client.told, client.acked,
                       client.replied, client.ended, client.aborted, client.owes>>
    BY <1>1, <2>1 DEF Clients
  <2>4. /\ client'.sent \in Nat /\ client.sent <= client'.sent /\ client'.sent <= client.through
        /\ client.granted /\ ~client.ended /\ ~client.aborted /\ ~client.told
    BY <1>2, <2>1, <2>2, <2>3 DEF Stopped
  <2> QED BY <2>3, <2>4, Zenon DEF Said
<1>4. ClientEnds => Said("END")
  <2> SUFFICES ASSUME ClientEnds PROVE Said("END")
    OBVIOUS
  <2>1. /\ client' = [client EXCEPT !.ended = TRUE] /\ client.granted /\ ~Stopped
        /\ client.accepted = client.sent
    BY DEF ClientEnds
  <2>2. /\ client'.ended
        /\ UNCHANGED <<client.granted, client.accepted, client.through, client.told, client.acked,
                       client.replied, client.sent, client.aborted, client.owes>>
    BY <1>1, <2>1 DEF Clients
  <2>3. /\ client'.sent \in Nat /\ client.sent <= client'.sent
        /\ client.granted /\ ~client.ended /\ ~client.aborted /\ ~client.told
    BY <1>2, <2>1, <2>2 DEF Stopped
  <2> QED BY <2>1, <2>2, <2>3, Zenon DEF Said
<1>5. ClientAborts => Said("ABORT")
  <2> SUFFICES ASSUME ClientAborts PROVE Said("ABORT")
    OBVIOUS
  <2>1. /\ client' = [client EXCEPT !.aborted = TRUE] /\ ~client.aborted /\ ~client.told
        /\ ~client.replied /\ client.granted
    BY DEF ClientAborts, Excuse
  <2>2. /\ client'.aborted
        /\ UNCHANGED <<client.granted, client.accepted, client.through, client.told, client.acked,
                       client.replied, client.sent, client.ended, client.owes>>
    BY <1>1, <2>1 DEF Clients
  <2>3. /\ client.sent <= client'.sent /\ client'.sent \in Nat
        /\ client'.aborted <=> client.aborted \/ TRUE
    BY <1>2, <2>1, <2>2
  <2>4. client.granted /\ ~client.aborted /\ ~client.told
    BY <2>1
  <2> QED BY <1>2, <2>1, <2>2, <2>3, <2>4, Zenon DEF Said
<1>6. ClientAcks => Said("ACK")
  <2> SUFFICES ASSUME ClientAcks PROVE Said("ACK")
    OBVIOUS
  <2>1. client' = [client EXCEPT !.owes = FALSE] /\ client.owes
    BY DEF ClientAcks
  <2>2. /\ ~client'.owes
        /\ UNCHANGED <<client.granted, client.accepted, client.through, client.told, client.acked,
                       client.replied, client.sent, client.ended, client.aborted>>
    BY <1>1, <2>1 DEF Clients
  <2> QED BY <1>2, <2>1, <2>2 DEF Said
<1> QED BY <1>3, <1>4, <1>5, <1>6

\* Nothing that waits is lost when the reader handles a record.
LEMMA HeardFacts ==
  ASSUME UploadInv, UploadAssumption, Honest, Heard, NEW k, Said(k)
  PROVE  /\ actor.pc \notin {"open", "ack"} /\ phase # "Opening"
         /\ reader.ticket = NoTicket
         /\ Waiting \subseteq Waiting' \cup {NoEvent}
         /\ Waiting' = {reader'.ev} \cup {term[i] : i \in DOMAIN term}
         /\ TerminalPending => TerminalPending'
         /\ PreemptivePending => PreemptivePending'
         /\ Doomed => Doomed'
         /\ Closed => Closed'
         /\ Grants' = Grants /\ (CreditOut' <=> CreditOut)
<1>1. actor.pc \notin {"open", "ack"}
  BY DEF Said, Honest, Handshakes
<1>2. phase # "Opening"
  BY <1>1 DEF UploadInv, PhasesAgree
<1>3. reader.ticket = NoTicket
  BY DEF Heard, NoEvent, Honest, Ticketed
<1>4. Admitting \subseteq Admitting'
  BY <1>3 DEF Heard, Admitting
<1>5. /\ TerminalPending => TerminalPending'
      /\ PreemptivePending => PreemptivePending'
  BY <1>4 DEF Heard, TerminalPending, PreemptivePending, IsPreemptive
<1>6. Waiting' = {reader'.ev} \cup {term[i] : i \in DOMAIN term}
      /\ Waiting = {NoEvent} \cup {term[i] : i \in DOMAIN term}
  BY DEF Heard, Waiting
<1>7. (Doomed => Doomed') /\ (Closed => Closed')
  BY <1>5 DEF Heard, Doomed, Closed
<1>8. Grants' = Grants /\ (CreditOut' <=> CreditOut)
  BY DEF Heard, Acting, Grants, CreditOut
<1> QED BY <1>1, <1>2, <1>3, <1>5, <1>6, <1>7, <1>8

\* A record handled as Routes says keeps the invariant.
LEMMA RoutedHonest ==
  ASSUME UploadInv, UploadAssumption, Honest, Heard, NEW k \in {"DATA", "END", "ABORT", "ACK"},
         Said(k), Routes(k), Ticketed'
  PROVE  Honest'
<1>1. /\ actor.pc \notin {"open", "ack"} /\ phase # "Opening"
      /\ reader.ticket = NoTicket
      /\ Waiting \subseteq Waiting' \cup {NoEvent}
      /\ Waiting' = {reader'.ev} \cup {term[i] : i \in DOMAIN term}
      /\ TerminalPending => TerminalPending'
      /\ PreemptivePending => PreemptivePending'
      /\ Doomed => Doomed'
      /\ Closed => Closed'
      /\ Grants' = Grants /\ (CreditOut' <=> CreditOut)
  BY HeardFacts
<1>2. \A i \in DOMAIN term : term[i] \in Waiting
  BY DEF Waiting
<1>3. /\ \A j : InDown(j)' <=> InDown(j)
      /\ AwaitsAck' => AwaitsAck
  BY DEF Heard, Said, InDown, AwaitsAck
<1>4. Fits'
  BY DEF Heard, Acting, Honest, Fits, Writing, PhasesAt
<1>5. CreditsSeen'
  BY <1>1 DEF Heard, Said, Honest, CreditsSeen
<1>6. CreditsKept'
  BY <1>1 DEF Heard, Acting, Honest, CreditsKept, CreditAt
<1>7. RecordsHonest'
  <2>1. ASSUME NEW e \in Waiting \cup {actor.ev} PROVE RecordOk(e)' /\ Datum(e)'
    <3>1. RecordOk(e) /\ Datum(e)
      BY DEF Honest, RecordsHonest
    <3>2. e.kind = "END" => client'.ended /\ e.n = client'.sent
      BY <3>1 DEF Said, RecordOk
    <3>3. e.kind = "ABORT" => client'.aborted /\ Echoed(e.n)'
      <4> SUFFICES ASSUME e.kind = "ABORT" PROVE client'.aborted /\ Echoed(e.n)'
        OBVIOUS
      <4>1. client.aborted /\ Echoed(e.n)
        BY <3>1 DEF RecordOk
      <4>2. client'.sent = client.sent
        BY <4>1 DEF Said
      <4> QED BY <1>1, <4>1, <4>2 DEF Said, Echoed
    <3>4. e.kind = "ACK" =>
            /\ client'.told /\ ~AwaitsAck' /\ phase' \in {"AckPending", "Retired"}
            /\ actor'.pc \in {"abort", "waitack", "answer", "cross", "reply", "done"}
      BY <1>3, <3>1 DEF Heard, Acting, Said, RecordOk
    <3>5. e.kind = "OVERSIZE" => client'.sent > Declared /\ state'.accepted = Declared
      <4>1. client.sent \in Nat /\ Declared \in Nat
        BY DEF UploadInv, WireTypes, Clients, UploadAssumption
      <4> QED BY <3>1, <4>1 DEF Heard, Acting, Said, RecordOk
    <3>6. RecordOk(e)'
      BY <3>1, <3>2, <3>3, <3>4, <3>5 DEF RecordOk
    <3>7. Datum(e)'
      BY <3>1 DEF Heard, Datum
    <3> QED BY <3>6, <3>7
  <2>2. \A e \in Waiting' \cup {actor'.ev} : RecordOk(e)' /\ Datum(e)'
    BY <1>1, <1>2, <2>1 DEF Heard, Acting, Routes
  <2>3. \A i \in DOMAIN data' : Datum(data[i])'
    BY DEF Heard, Honest, RecordsHonest, Datum
  <2>4. /\ deferred' = NoEvent /\ processing' \in {"none", "plain", "preemptive"}
        /\ processing' = "plain" => client'.ended \/ phase' \notin {"Opening", "Active"}
    BY DEF Heard, Said, Honest, RecordsHonest
  <2> QED BY <2>2, <2>3, <2>4 DEF Routes, RecordsHonest
<1>8. InRank'
  <2>1. \A i, j \in DOMAIN term' : i < j /\ Rank(term'[j]) # 0 => Rank(term'[i]) < Rank(term'[j])
    BY DEF Heard, Honest, InRank
  <2>2. Rank(reader'.ev) # 0 => \A i \in DOMAIN term' : Rank(term'[i]) < Rank(reader'.ev)
    BY DEF Heard, Routes
  <2>3. \A e \in Waiting' : Rank(e) # 0 => Rank(actor'.ev) < Rank(e)
    BY <1>1, <1>2 DEF Heard, Acting, Routes, Honest, InRank
  <2> HIDE DEF Rank
  <2> QED BY <2>1, <2>2, <2>3 DEF InRank, Rank
<1>9. InStep'
  <2>1. /\ actor' = actor /\ state' = state /\ processing' = processing /\ write' = write
        /\ phase' = "Active" => phase = "Active"
    BY DEF Heard, Acting
  <2>2. actor.pc = "fail" /\ actor.yield = "none" /\ phase' = "Active" /\ ~PreemptivePending' =>
          client'.ended \/ state.accepted < ingress'.received
    <3>1. ingress.received \in Nat /\ state.accepted \in Nat
      BY DEF UploadInv, WireTypes, Ingresses, ActorTypes, States
    <3> QED BY <1>1, <2>1, <3>1 DEF Routes, Said, Honest, InStep
  <2>3. actor.pc = "handle" /\ IsPreemptive(actor.ev)' => processing' = "preemptive"
    BY <2>1 DEF IsPreemptive, Honest, InStep
  <2>4. processing' = "preemptive" /\ phase' = "Active" =>
       \/ actor'.pc = "handle" /\ IsPreemptive(actor.ev)'
       \/ actor'.pc = "fail" /\ actor'.yield = "none"
    BY <2>1 DEF IsPreemptive, Honest, InStep
  <2>5. actor.pc = "credit" /\ write.at = "unsent" => TerminalPending' \/ Closed'
    BY <1>1 DEF Honest, InStep
  <2> QED BY <2>1, <2>2, <2>3, <2>4, <2>5 DEF Routes, InStep
<1>10. Oversized'
  <2>1. reader'.ev.kind = "OVERSIZE" =>
          term' = <<>> /\ \A c \in Cancellers : cancels'[c].ticket # NoTicket => reader'.ticket < cancels'[c].ticket
    BY DEF Heard, Routes
  <2>2. /\ \A i \in DOMAIN term' : term'[i].kind = "OVERSIZE" => i = 1
        /\ actor'.pc = "answer" => actor'.ev.kind # "OVERSIZE"
    BY DEF Heard, Acting, Honest, Oversized
  <2>3. ASSUME \E e \in Waiting' : e.kind = "OVERSIZE"
        PROVE  /\ actor'.pc \in Running \cup {"done"}
               /\ phase' \in {"Active", "Retired"}
               /\ phase' = "Active" => /\ processing' # "preemptive"
                                       /\ actor'.pc = "fail" => actor'.yield # "none"
    <3>1. CASE reader'.ev.kind = "OVERSIZE"
      <4>1. phase = "Active" /\ processing # "preemptive" /\ (actor.pc = "fail" => actor.yield # "none")
        BY <3>1 DEF Routes
      <4>2. actor.pc \in Running
        BY <4>1 DEF UploadInv, PhasesAgree
      <4> QED BY <4>1, <4>2 DEF Heard, Acting
    <3>2. CASE \E e \in Waiting : e.kind = "OVERSIZE"
      BY <3>2 DEF Heard, Acting, Honest, Oversized
    <3> QED BY <1>1, <1>2, <2>3, <3>1, <3>2
  <2> QED BY <2>1, <2>2, <2>3 DEF Oversized
<1>11. Blameless'
  <2>1. phase' # "ClientAbortAckSent"
    BY DEF Heard, Honest, Blameless
  <2> QED BY <1>1, <2>1 DEF Heard, Acting, Honest, Blameless
<1>12. Handshakes'
  <2>1. /\ client'.owes \/ phase' = "AckPending" => client'.told
        /\ AwaitsAck' /\ ~gone' => phase' = "DaemonAbortWaitAck"
        /\ phase' \notin {"DaemonAbortWaitAck", "AckPending", "Retired"} => ~client'.told /\ ~InDown("ABORT")'
        /\ phase' # "Retired" \/ gone'
    <3>1. client'.owes \/ phase' = "AckPending" => client'.told
      BY DEF Said, Routes, Honest, Handshakes
    <3>2. AwaitsAck' /\ ~gone' => phase' = "DaemonAbortWaitAck"
      BY <1>3 DEF Heard, Routes, Honest, Handshakes
    <3>3. phase' \notin {"DaemonAbortWaitAck", "AckPending", "Retired"} => ~client'.told /\ ~InDown("ABORT")'
      BY <1>3 DEF Heard, Said, Honest, Handshakes
    <3>4. phase' # "Retired" \/ gone'
      BY DEF Heard
    <3> QED BY <3>1, <3>2, <3>3, <3>4
  <2>2. actor'.pc = "cross" \/ actor'.crossed =>
          client'.aborted /\ \A e \in Waiting' \cup {actor'.ev} : e.kind # "ABORT"
    BY <1>1, <1>2 DEF Heard, Acting, Said, Routes, Honest, Handshakes
  <2>3. client'.aborted /\ ~client'.ended /\ ~gone' =>
          \/ \E e \in Waiting' \cup {actor'.ev} : e.kind = "ABORT"
          \/ actor'.pc \in {"ack", "cross", "done"} \/ client'.acked \/ InDown("ACK")'
    <3> SUFFICES ASSUME client'.aborted, ~client'.ended, ~gone'
                 PROVE  \/ \E e \in Waiting' \cup {actor'.ev} : e.kind = "ABORT"
                        \/ actor'.pc \in {"ack", "cross", "done"} \/ client'.acked \/ InDown("ACK")'
      OBVIOUS
    <3>1. CASE k = "ABORT"
      BY <1>1, <3>1 DEF Routes
    <3>2. CASE k # "ABORT"
      <4>1. client.aborted /\ ~client.ended /\ ~gone
        BY <3>2 DEF Heard, Said
      <4>2. \/ \E e \in Waiting \cup {actor.ev} : e.kind = "ABORT"
            \/ actor.pc \in {"ack", "cross", "done"} \/ client.acked \/ InDown("ACK")
        BY <4>1 DEF Honest, Handshakes
      <4>3. NoEvent.kind # "ABORT"
        BY DEF NoEvent
      <4> QED BY <1>1, <1>3, <4>2, <4>3 DEF Heard, Acting, Said
    <3> QED BY <3>1, <3>2
  <2>4. actor'.pc \in {"ack", "cross"} /\ write'.at \in {"started", "sent"} => client'.acked \/ InDown("ACK")'
    BY <1>3 DEF Heard, Acting, Said, Honest, Handshakes
  <2>5. actor'.pc = "cross" /\ write'.at = "unsent" => gone'
    BY DEF Heard, Acting, Honest, Handshakes
  <2>6. /\ \A i, j \in DOMAIN down' : down'[i].kind = "ABORT" /\ down'[j].kind = "ABORT" => i = j
        /\ InDown("ABORT")' => ~client'.told
    BY <1>3 DEF Heard, Said, Honest, Handshakes
  <2>7. actor'.pc \notin {"open", "ack"}
    BY <1>1 DEF Heard, Acting
  <2> QED BY <2>1, <2>2, <2>3, <2>4, <2>5, <2>6, <2>7 DEF Handshakes
<1>13. Replies'
  <2>1. client.replied => Over'
    BY <1>3 DEF Said, Honest, Replies, Over
  <2>2. actor.pc \in {"reply", "publish", "unfinished"} /\ ~gone' => Over'
    <3> SUFFICES ASSUME actor.pc \in {"reply", "publish", "unfinished"}, ~gone' PROVE Over'
      OBVIOUS
    <3>1. actor.pc \in Owning
      BY DEF Heard, Honest, Fits, PhasesAt, Owning
    <3>2. client.ended
      BY <3>1, OwningEnded
    <3>3. Over
      BY DEF Heard, Honest, Replies
    <3> QED BY <1>3, <3>2, <3>3 DEF Said, Over
  <2>3. client.replied \/ InDown("REPLY") =>
          \/ actor.pc = "done"
          \/ actor.pc \in {"reply", "publish", "unfinished"} /\ write.at \in {"started", "sent", "unsent"}
    BY DEF Heard, Honest, Replies
  <2>4. \A i \in DOMAIN down' : down'[i].kind = "REPLY" => i = Len(down') /\ (~gone' => Over')
    <3> SUFFICES ASSUME NEW i \in DOMAIN down, down[i].kind = "REPLY"
                 PROVE  i = Len(down) /\ (~gone' => Over')
      BY DEF Heard
    <3>1. InDown("REPLY")
      BY DEF InDown
    <3>2. actor.pc = "done" => gone'
      BY DEF Heard, Honest, Fits, PhasesAt
    <3> QED BY <2>2, <2>3, <3>1, <3>2 DEF Honest, Replies
  <2>5. client'.replied => Over' /\ down' = <<>>
    BY <2>1 DEF Heard, Said, Honest, Replies
  <2>6. client'.replied \/ InDown("REPLY")' =>
          \/ actor'.pc = "done"
          \/ actor'.pc \in {"reply", "publish", "unfinished"} /\ write'.at \in {"started", "sent", "unsent"}
    BY <1>3, <2>3 DEF Heard, Acting, Said
  <2>7. actor'.pc = actor.pc
    BY DEF Heard, Acting
  <2> QED BY <2>2, <2>4, <2>5, <2>6, <2>7 DEF Replies
<1> QED BY <1>4, <1>5, <1>6, <1>7, <1>8, <1>9, <1>10, <1>11, <1>12, <1>13 DEF Honest

-----------------------------------------------------------------------------
(* What becomes of an honest record.                                       *)

\* It is never malformed, too early or in conflict with another.
LEMMA HonestRoute ==
  ASSUME UploadInv, UploadAssumption, Honest, NEW r \in Records, Receive(r), r.kind \in Kinds,
         Said(r.kind), r.kind = "ABORT" => r.n = client.accepted
  PROVE  /\ r.kind = "ACK" => phase = "DaemonAbortWaitAck"
         /\ \/ phase = "Retired" /\ ReceiveUnbound(r)
            \/ /\ phase = "Finalizing" /\ client.ended /\ r.kind = "ABORT"
               /\ UNCHANGED <<phase, gone, reader, order, ingress, faulted>>
            \/ /\ phase \notin {"Opening", "Retired", "Finalizing"}
               /\ ReceiveTerminal(r) \/ ReceiveDiscarded(r) \/ ReceiveRefused(r) \/ ReceiveData(r)
<1>1. ~gone /\ actor.pc # "open"
  BY DEF Receive, Said, Honest, Handshakes, Kinds
<1>2. phase # "Opening"
  BY <1>1 DEF UploadInv, PhasesAgree
<1>3. r.kind = "ACK" => AwaitsAck /\ phase = "DaemonAbortWaitAck"
  BY <1>1 DEF Said, AwaitsAck, Honest, Handshakes
<1>4. phase # "AckPending"
  <2>1. SUFFICES ASSUME phase = "AckPending" PROVE FALSE
    OBVIOUS
  <2>2. client.told
    BY <2>1 DEF Honest, Handshakes
  <2> QED BY <1>3, <2>1, <2>2 DEF Said
<1>5. phase = "Finalizing" => client.ended
  BY OwningEnded DEF UploadInv, PhasesAgree
<1>6. phase = "Finalizing" => r.kind = "ABORT"
  BY <1>3, <1>5 DEF Said, Kinds
<1>7. DirectionOk(r.kind)
  BY <1>3, <1>4, <1>6 DEF DirectionOk, Kinds
<1>8. client.ended /\ r.kind = "ABORT" => ValidLateAbort(r)
  <2>1. SUFFICES ASSUME client.ended, r.kind = "ABORT" PROVE ValidLateAbort(r)
    OBVIOUS
  <2>2. client.accepted = client.sent /\ client.sent = state.accepted /\ ingress.accepted = state.accepted
    BY <2>1, Drained DEF Honest, CreditsSeen, Fits
  <2> QED BY <2>1, <2>2 DEF ValidLateAbort
<1>9. ~Conflict(r)
  <2>1. ingress.producer = "END" => r.kind = "ACK" \/ ValidLateAbort(r)
    BY <1>8 DEF Said, Honest, RecordsHonest, Kinds
  <2>2. ingress.producer = "ABORT" => r.kind = "ACK"
    BY DEF Said, Honest, RecordsHonest
  <2> QED BY <2>1, <2>2 DEF Conflict
<1>10. ~ReceiveTooEarly(r) /\ ~ReceiveMalformed(r) /\ ~ReceiveConflict(r)
  BY <1>2, <1>7, <1>9 DEF ReceiveTooEarly, ReceiveMalformed, ReceiveConflict
<1>11. CASE ReceiveFinalizing(r)
  BY <1>3, <1>5, <1>6, <1>8, <1>11 DEF ReceiveFinalizing
<1>12. CASE ReceiveUnbound(r)
  BY <1>3, <1>12 DEF ReceiveUnbound
<1>13. CASE ReceiveTerminal(r) \/ ReceiveDiscarded(r) \/ ReceiveRefused(r) \/ ReceiveData(r)
  <2>1. Routable(r)
    BY <1>13 DEF ReceiveTerminal, ReceiveDiscarded, ReceiveRefused, ReceiveData
  <2> QED BY <1>3, <1>13, <2>1 DEF Routable
<1> QED BY <1>10, <1>11, <1>12, <1>13 DEF Receive

\* A terminal admitted has a ticket after all others.
LEMMA AdmitTicketed ==
  ASSUME Honest, NEW e, Admit(e), reader.ticket = NoTicket, UNCHANGED cancels,
         e.kind \notin {"none", "DATA"}
  PROVE  /\ Ticketed' /\ reader'.ev = e /\ reader'.ticket # NoTicket /\ UNCHANGED <<gone>>
<1>1. /\ order' = [order EXCEPT !.next = @ + 1] /\ order \in [next : Nat, serving : Nat, cancelled : {{}}]
      /\ order.serving <= order.next /\ reader'.ticket = order.next /\ reader'.ev = e
      /\ UNCHANGED <<gone>>
  BY DEF Admit, Honest, Ticketed
<1>2. /\ order' \in [next : Nat, serving : Nat, cancelled : {{}}]
      /\ order'.next = order.next + 1 /\ order'.serving = order.serving
      /\ order.next \in Nat /\ order.serving \in Nat
  BY <1>1
<1>3. order.next # NoTicket
  BY <1>2 DEF NoTicket
<1>4. ASSUME NEW c \in Cancellers, cancels[c].ticket # NoTicket
      PROVE  /\ order.serving <= cancels[c].ticket /\ cancels[c].ticket < order.next
             /\ cancels[c].ticket \in Nat
  BY <1>4 DEF Honest, Ticketed
<1>5. Ticketed'
  <2>1. /\ order' \in [next : Nat, serving : Nat, cancelled : {{}}] /\ order'.serving <= order'.next
        /\ reader'.ticket \in Nat \cup {NoTicket}
        /\ ~(reader'.ticket = NoTicket) /\ ~(reader'.ev.kind \in {"none", "DATA"})
        /\ order'.serving <= reader'.ticket /\ reader'.ticket < order'.next
    BY <1>1, <1>2, <1>3
  <2>2. /\ \A c \in Cancellers : cancels'[c].ticket \in Nat \cup {NoTicket}
        /\ \A c \in Cancellers : cancels'[c].at = "lane" => cancels'[c].ticket # NoTicket
    BY DEF Honest, Ticketed
  <2>3. ASSUME NEW c \in Cancellers, cancels'[c].ticket # NoTicket
        PROVE  /\ order'.serving <= cancels'[c].ticket /\ cancels'[c].ticket < order'.next
               /\ cancels'[c].ticket # reader'.ticket
               /\ \A d \in Cancellers \ {c} : cancels'[d].ticket # cancels'[c].ticket
    <3>1. cancels[c].ticket # NoTicket
      BY <2>3
    <3>2. \A d \in Cancellers \ {c} : cancels[d].ticket # cancels[c].ticket
      BY <3>1 DEF Honest, Ticketed
    <3> QED BY <1>1, <1>2, <1>4, <3>1, <3>2
  <2> QED BY <2>1, <2>2, <2>3 DEF Ticketed, NoTicket
<1> QED BY <1>1, <1>3, <1>5

\* What Receive leaves alone.
LEMMA ReceiveFrame ==
  ASSUME NEW r, Receive(r), UNCHANGED down
  PROVE  /\ UNCHANGED <<data, term, deferred, processing, cancels, down>> /\ Acting
         /\ reader.ev = NoEvent /\ ~gone
  BY DEF Receive, laneVars, actorVars, cancelVars, Acting

\* Nothing that waits is as high as a terminal of an honest producer.
LEMMA RanksBelow ==
  ASSUME UploadInv, UploadAssumption, Honest, NEW e \in Waiting \cup {actor.ev}
  PROVE  /\ ~client.told \/ AwaitsAck => Rank(e) <= 2
         /\ ~client.told /\ ~client.aborted => Rank(e) <= 1
         /\ ~client.told /\ ~client.aborted /\ ~client.ended /\ client.sent <= Declared => Rank(e) = 0
<1>1. RecordOk(e) /\ client.sent \in Nat /\ Declared \in Nat
  BY DEF Honest, RecordsHonest, UploadInv, WireTypes, Clients, UploadAssumption
<1>2. e.kind = "ACK" => client.told /\ ~AwaitsAck
  BY <1>1 DEF RecordOk
<1>3. e.kind = "ABORT" => client.aborted
  BY <1>1 DEF RecordOk
<1>4. e.kind = "END" => client.ended
  BY <1>1 DEF RecordOk
<1>5. e.kind = "OVERSIZE" => ~(client.sent <= Declared)
  BY <1>1 DEF RecordOk
<1> QED BY <1>2, <1>3, <1>4, <1>5 DEF Rank

\* A record that the reader does not pass on.
LEMMA KeptHonest ==
  ASSUME UploadInv, UploadAssumption, Honest, NEW k \in Kinds, Said(k), Heard,
         UNCHANGED <<reader, order, ingress, phase>>, Doomed,
         phase # "AckPending", k = "ABORT" => client.ended \/ gone'
  PROVE  Honest'
<1>1. Doomed'
  BY HeardFacts
<1>2. reader'.ev.kind = "none"
  BY DEF Heard, NoEvent
<1>3. RecordOk(reader.ev)' /\ Datum(reader.ev)' /\ Rank(reader'.ev) = 0
  BY <1>2 DEF RecordOk, Datum, Rank
<1>4. /\ ingress'.producer = "END" => client'.ended
      /\ ingress'.producer = "ABORT" => client'.aborted
      /\ ingress'.received \in Nat /\ ingress.received <= ingress'.received
      /\ ingress'.received <= client'.sent
  <2>1. ingress.received \in Nat /\ client.sent \in Nat /\ client'.sent \in Nat
        /\ client.sent <= client'.sent /\ ingress.received <= client.sent
    BY DEF UploadInv, WireTypes, Ingresses, Clients, Said, Honest, RecordsHonest
  <2> QED BY <2>1 DEF Said, Honest, RecordsHonest
<1>5. Routes(k)
  BY <1>1, <1>2, <1>3, <1>4 DEF Routes, Said
<1>6. Ticketed'
  BY DEF Heard, Honest, Ticketed, NoTicket
<1> QED BY <1>5, <1>6, RoutedHonest DEF Kinds

-----------------------------------------------------------------------------
(* Each record of an honest producer.                                      *)

\* The producer's END, ABORT or ACK is admitted.
LEMMA TerminalHonest ==
  ASSUME UploadInv, UploadAssumption, Honest, NEW r \in Records, r.kind \in Kinds, Said(r.kind),
         Receive(r), UNCHANGED down, ReceiveTerminal(r),
         phase \notin {"Opening", "Retired", "Finalizing"},
         r.kind = "ACK" => phase = "DaemonAbortWaitAck",
         r.kind = "ABORT" => r.n = client.accepted,
         r.kind = "END" => r.n = client.sent
  PROVE  Honest'
<1> DEFINE e == Event(r)
<1>1. e.kind = r.kind /\ e.n = r.n /\ r.kind \in {"END", "ABORT", "ACK"}
  BY EventTypes DEF ReceiveTerminal, Kinds
<1> HIDE DEF e
<1>2. Admit(e) /\ phase' = IF r.kind = "ACK" THEN "AckPending" ELSE phase
  BY DEF ReceiveTerminal, e
<1>3. ingress' = [ingress EXCEPT !.producer =
                   IF @ = "none" /\ r.kind \in {"END", "ABORT"} THEN r.kind ELSE @]
  BY DEF ReceiveTerminal
<1>4. /\ UNCHANGED <<ingress.accepted, ingress.served, ingress.received, ingress.refused>>
      /\ ingress'.producer = IF ingress.producer = "none" /\ r.kind \in {"END", "ABORT"}
                             THEN r.kind ELSE ingress.producer
  BY <1>3 DEF UploadInv, WireTypes, Ingresses
<1>5. /\ UNCHANGED <<data, term, deferred, processing, cancels, down>> /\ Acting
      /\ reader.ev = NoEvent /\ ~gone
  BY ReceiveFrame
<1>6. reader.ticket = NoTicket
  BY <1>5 DEF NoEvent, Honest, Ticketed
<1>7. /\ Ticketed' /\ reader'.ev = e /\ reader'.ticket # NoTicket /\ UNCHANGED <<gone>>
  BY <1>1, <1>2, <1>5, <1>6, AdmitTicketed
<1>8. Heard
  BY <1>2, <1>4, <1>5, <1>7 DEF Heard
<1>9. /\ Doomed => Doomed'
      /\ Grants' = Grants
  BY <1>8, HeardFacts
<1>10. /\ client.sent \in Nat /\ client.accepted \in Nat /\ client.through \in Nat
       /\ state.accepted \in Nat /\ Declared \in Nat /\ state.accepted <= Declared
  BY DEF UploadInv, WireTypes, Clients, ActorTypes, States, DataInOrder, UploadAssumption, Ingresses
<1>11. r.kind # "ACK" => /\ <<client.accepted, client.through>> \in Grants
                         /\ client.accepted <= Declared
  <2>1. SUFFICES ASSUME r.kind # "ACK"
                 PROVE  <<client.accepted, client.through>> \in Grants /\ client.accepted <= Declared
    OBVIOUS
  <2>2. <<client.accepted, client.through>> \in Grants
    BY <2>1 DEF Said, Honest, CreditsSeen
  <2>3. client.accepted <= state.accepted
    BY <2>2, GrantFacts
  <2> QED BY <1>10, <2>2, <2>3
<1>12. RecordOk(reader.ev)'
  <2>1. CASE r.kind = "END"
    BY <1>1, <1>7, <2>1 DEF Said, RecordOk
  <2>2. CASE r.kind = "ABORT"
    <3>1. Echoed(reader.ev.n)'
      <4>1. DEFINE h == <<client.accepted, client.through>>
      <4>2. h \in Grants' /\ h[1] = reader'.ev.n
        BY <1>1, <1>7, <1>9, <1>11, <2>2
      <4>3. client'.sent <= h[2]
        BY <2>2 DEF Said, Honest, CreditsSeen
      <4> QED BY <4>2, <4>3 DEF Echoed
    <3> QED BY <1>1, <1>7, <2>2, <3>1 DEF Said, RecordOk
  <2>3. CASE r.kind = "ACK"
    <3>1. client.told /\ ~InDown("ABORT")
      BY <2>3 DEF Said, Honest, Handshakes
    <3>2. client'.told /\ ~AwaitsAck'
      BY <1>5, <2>3, <3>1 DEF Said, AwaitsAck, InDown
    <3>3. actor.pc \in {"abort", "waitack", "answer", "cross"}
      BY <2>3 DEF Honest, Fits, PhasesAt
    <3> QED BY <1>1, <1>2, <1>5, <1>7, <2>3, <3>2, <3>3 DEF RecordOk, Acting
  <2> QED BY <1>1, <2>1, <2>2, <2>3
<1>13. \A w \in Waiting \cup {actor.ev} : Rank(w) < Rank(e)
  <2> SUFFICES ASSUME NEW w \in Waiting \cup {actor.ev} PROVE Rank(w) < Rank(e)
    OBVIOUS
  <2>1. Rank(w) \in 0..3
    BY RankOf
  <2>2. CASE r.kind = "END"
    <3>1. client.sent <= Declared
      BY <1>11, <2>2 DEF Said
    <3>2. ~client.told /\ ~client.aborted /\ ~client.ended
      BY <2>2 DEF Said
    <3> QED BY <1>1, <2>1, <2>2, <3>1, <3>2, RanksBelow DEF Rank
  <2>3. CASE r.kind = "ABORT"
    <3>1. Rank(w) <= 1
      BY <2>3, RanksBelow DEF Said
    <3> QED BY <1>1, <2>1, <2>3, <3>1 DEF Rank
  <2>4. CASE r.kind = "ACK"
    <3>1. Rank(w) <= 2
      BY <2>4, RanksBelow DEF Said, AwaitsAck
    <3> QED BY <1>1, <2>1, <2>4, <3>1 DEF Rank
  <2> QED BY <1>1, <2>2, <2>3, <2>4
<1>14. Routes(r.kind)
  <2>1. /\ RecordOk(reader.ev)' /\ Datum(reader.ev)'
        /\ reader'.ev.kind = r.kind
    BY <1>1, <1>7, <1>12 DEF Datum
  <2>2. r.kind = "END" => ~client'.aborted
    BY DEF Said
  <2>3. /\ ingress'.producer = "END" => client'.ended
        /\ ingress'.producer = "ABORT" => client'.aborted
    BY <1>4 DEF Said, Honest, RecordsHonest
  <2>4. client'.sent = client.sent
    BY <1>1 DEF Said
  <2>5. /\ ingress'.received \in Nat /\ ingress.received <= ingress'.received
        /\ ingress'.received <= client'.sent
    BY <1>4, <2>4 DEF UploadInv, WireTypes, Ingresses, Honest, RecordsHonest
  <2>6. /\ \A i \in DOMAIN term : Rank(term[i]) < Rank(reader'.ev)
        /\ Rank(actor.ev) < Rank(reader'.ev)
    BY <1>7, <1>13 DEF Waiting
  <2>7. /\ ingress'.refused => Doomed'
        /\ client'.sent # ingress'.received => Doomed'
    BY <1>4, <1>9, <2>4 DEF Honest, InStep
  <2>8. Chained => Chained'
    <3>1. reader'.ev.kind # "DATA" /\ reader.ev.kind # "DATA"
      BY <1>1, <1>5, <2>1 DEF NoEvent
    <3> QED BY <1>4, <1>5, <1>7, <3>1 DEF Chained, Holding, HandEnd, LaneEnd, Acting
  <2>9. Chained' \/ Doomed' \/ actor.pc = "fail"
    BY <1>9, <2>8 DEF Honest, InStep
  <2>10. phase' = "AckPending" => client.told /\ ~AwaitsAck'
    <3>1. phase # "AckPending"
      BY DEF ReceiveTerminal, Routable, DirectionOk
    <3>2. phase' = "AckPending" => r.kind = "ACK"
      BY <1>2, <3>1
    <3> QED BY <1>1, <1>12, <3>2, <1>7 DEF RecordOk, Said
  <2> QED BY <1>1, <2>1, <2>2, <2>3, <2>5, <2>6, <2>7, <2>9, <2>10 DEF Routes
<1> QED BY <1>7, <1>8, <1>14, RoutedHonest DEF Kinds

\* A DATA record in the credit the producer has seen.
LEMMA SentFacts ==
  ASSUME UploadInv, UploadAssumption, Honest, NEW r \in Records, r.kind = "DATA", Said(r.kind),
         r.off = client.sent, client'.sent = client.sent + r.n
  PROVE  /\ client'.sent <= ingress.served
         /\ client'.sent > Declared => state.accepted = Declared
<1>1. <<client.accepted, client.through>> \in Grants /\ client'.sent <= client.through
  BY DEF Said, Honest, CreditsSeen
<1>2. /\ client.accepted \in Nat /\ client.through \in Nat /\ client.accepted <= state.accepted
      /\ client.through = CreditAt(client.accepted) /\ state.accepted <= Declared
      /\ client.through <= ingress.served
  <2> DEFINE h == <<client.accepted, client.through>>
  <2>1. /\ h[1] \in Nat /\ h[2] \in Nat /\ h[1] <= state.accepted
        /\ h[2] = CreditAt(h[1]) /\ state.accepted <= Declared
        /\ h[2] <= ingress.served
    BY <1>1, GrantFacts
  <2> QED BY <2>1
<1>3. /\ client'.sent \in Nat /\ Declared \in Nat /\ state.accepted \in Nat /\ ingress.served \in Nat
      /\ Window \in Nat
  BY DEF Said, UploadInv, WireTypes, Ingresses, ActorTypes, States, UploadAssumption
<1>4. client'.sent <= ingress.served
  BY <1>1, <1>2, <1>3
<1>5. client.accepted # Declared => client.through <= Declared
  BY <1>2, <1>3 DEF CreditAt, Lesser
<1> QED BY <1>1, <1>2, <1>3, <1>4, <1>5

\* While nothing dooms the upload, what waits is DATA.
LEMMA NothingWaits ==
  ASSUME UploadInv, UploadAssumption, Honest, ~Doomed, phase = "Active", ~Stopped
  PROVE  /\ client.sent = ingress.received /\ client.sent <= Declared
         /\ term = <<>> /\ \A c \in Cancellers : cancels[c].ticket = NoTicket
         /\ processing # "preemptive"
         /\ \A e \in Waiting \cup {actor.ev} : Rank(e) = 0
<1>1. ~PreemptivePending /\ client.sent = ingress.received
  BY DEF Doomed, Honest, InStep
<1>2. client.sent <= Declared
  BY <1>1 DEF UploadInv, DataInOrder
<1>3. \A e \in Waiting \cup {actor.ev} : Rank(e) = 0
  BY <1>2, RanksBelow DEF Stopped
<1>4. term = <<>>
  <2> SUFFICES ASSUME term # <<>> PROVE FALSE
    OBVIOUS
  <2>1. 1 \in DOMAIN term /\ term[1] \in Events /\ term[1] \in Waiting
    <3>1. term \in Seq(Events)
      BY DEF UploadInv, ActorTypes
    <3> QED BY <3>1 DEF Waiting
  <2>2. RecordOk(term[1]) /\ term[1].kind # "DATA" /\ Rank(term[1]) = 0
    BY <1>3, <2>1 DEF Honest, RecordsHonest, UploadInv, EndsOwned
  <2>3. term[1].kind # "none"
    BY <2>1 DEF Events, Received, Asked, RecordKinds
  <2>4. term[1].kind = "CANCEL"
    BY <2>2, <2>3 DEF RecordOk, Rank
  <2> QED BY <1>1, <2>1, <2>4 DEF PreemptivePending, IsPreemptive
<1>5. \A c \in Cancellers : cancels[c].ticket = NoTicket
  <2> SUFFICES ASSUME NEW c \in Cancellers, cancels[c].ticket # NoTicket PROVE FALSE
    OBVIOUS
  <2> DEFINE e == [kind |-> "CANCEL", from |-> c]
  <2>1. e \in Admitting
    BY DEF Admitting
  <2>2. IsPreemptive(e)
    BY DEF IsPreemptive
  <2> QED BY <1>1, <2>1, <2>2 DEF PreemptivePending
<1>6. processing # "preemptive"
  BY <1>1 DEF PreemptivePending
<1> QED BY <1>1, <1>2, <1>3, <1>4, <1>5, <1>6

\* DATA over the declared size, inside the credit that allowed for it.
LEMMA RefusedHonest ==
  ASSUME UploadInv, UploadAssumption, Honest, NEW r \in Records, r.kind = "DATA", Said(r.kind),
         Receive(r), UNCHANGED down, ReceiveRefused(r), phase # "Opening",
         r.off = client.sent, client'.sent = client.sent + r.n
  PROVE  Honest'
<1> DEFINE e == Event([r EXCEPT !.kind = Refusal(r)])
<1>1. ~Discarded /\ Refusal(r) # "none" /\ Admit(e) /\ phase' = phase
      /\ ingress' = [ingress EXCEPT !.refused = TRUE]
  BY DEF ReceiveRefused
<1>2. phase = "Active" /\ ~PreemptivePending /\ ~ingress.refused /\ ~Doomed /\ ~Stopped
  BY <1>1 DEF Discarded, Doomed, Said, Stopped
<1>3. /\ client.sent = ingress.received /\ client.sent <= Declared
      /\ term = <<>> /\ \A c \in Cancellers : cancels[c].ticket = NoTicket
      /\ processing # "preemptive"
      /\ \A w \in Waiting \cup {actor.ev} : Rank(w) = 0
  BY <1>2, NothingWaits
<1>4. /\ client'.sent <= ingress.served
      /\ client'.sent > Declared => state.accepted = Declared
  BY SentFacts
<1>5. /\ client.sent \in Nat /\ client'.sent \in Nat /\ ingress.served \in Nat /\ Declared \in Nat
      /\ ingress.received \in Nat /\ state.accepted \in Nat
  BY DEF UploadInv, WireTypes, Clients, Ingresses, ActorTypes, States, UploadAssumption, Said
<1>6. Refusal(r) = "OVERSIZE" /\ client'.sent > Declared /\ state.accepted = Declared
  BY <1>1, <1>3, <1>4, <1>5 DEF Refusal
<1>7. e.kind = "OVERSIZE"
  <2>1. [r EXCEPT !.kind = Refusal(r)] \in Records /\ [r EXCEPT !.kind = Refusal(r)].kind = "OVERSIZE"
    BY ZenonT(40), <1>6, KindTypes DEF RecordKinds
  <2> QED BY <2>1, EventTypes
<1> HIDE DEF e
<1>8. UNCHANGED <<ingress.accepted, ingress.served, ingress.received, ingress.producer>>
  BY <1>1 DEF UploadInv, WireTypes, Ingresses
<1>9. /\ UNCHANGED <<data, term, deferred, processing, cancels, down>> /\ Acting
      /\ reader.ev = NoEvent /\ ~gone
  BY ReceiveFrame
<1>10. reader.ticket = NoTicket
  BY <1>9 DEF NoEvent, Honest, Ticketed
<1>11. /\ Ticketed' /\ reader'.ev = e /\ reader'.ticket # NoTicket /\ UNCHANGED <<gone>>
  BY <1>1, <1>7, <1>9, <1>10, AdmitTicketed
<1>12. Heard
  BY <1>1, <1>2, <1>8, <1>9, <1>11 DEF Heard
<1>13. Doomed'
  <2>1. reader'.ev \in Admitting'
    BY <1>11 DEF Admitting, NoTicket
  <2>2. IsPreemptive(reader.ev)'
    BY <1>7, <1>11 DEF IsPreemptive
  <2> QED BY <2>1, <2>2 DEF Doomed, PreemptivePending
<1>14. actor.pc = "fail" => actor.yield # "none"
  <2> SUFFICES ASSUME actor.pc = "fail", actor.yield = "none" PROVE FALSE
    OBVIOUS
  <2>1. client.ended \/ state.accepted < ingress.received
    BY <1>2 DEF Honest, InStep
  <2> QED BY <1>2, <1>3, <1>5, <1>6, <2>1 DEF Stopped
<1>15. Routes("DATA")
  <2>1. RecordOk(reader.ev)' /\ Datum(reader.ev)' /\ reader'.ev.kind = "OVERSIZE" /\ Rank(reader'.ev) = 1
    BY <1>6, <1>7, <1>9, <1>11 DEF RecordOk, Datum, Rank, Acting
  <2>2. /\ ingress'.producer = "END" => client'.ended
        /\ ingress'.producer = "ABORT" => client'.aborted
    BY <1>8 DEF Said, Honest, RecordsHonest
  <2>3. /\ ingress'.received \in Nat /\ ingress.received <= ingress'.received
        /\ ingress'.received <= client'.sent
    BY <1>3, <1>5, <1>8 DEF Said
  <2>4. /\ \A i \in DOMAIN term : Rank(term[i]) < 1
        /\ Rank(actor.ev) < 1
    BY <1>3 DEF Waiting
  <2> QED BY <1>2, <1>3, <1>9, <1>12, <1>13, <1>14, <2>1, <2>2, <2>3, <2>4 DEF Routes, Heard
<1> QED BY <1>11, <1>12, <1>15, RoutedHonest

\* DATA that follows what was received.
LEMMA DataHonest ==
  ASSUME UploadInv, UploadAssumption, Honest, NEW r \in Records, r.kind = "DATA", Said(r.kind),
         Receive(r), UNCHANGED down, ReceiveData(r), phase # "Opening", r.n >= 1,
         r.off = client.sent, client'.sent = client.sent + r.n
  PROVE  Honest'
<1>1. /\ ~Discarded /\ Refusal(r) = "none"
      /\ reader' = [ev |-> Event(r), ticket |-> NoTicket]
      /\ ingress' = [ingress EXCEPT !.received = r.off + r.n]
      /\ UNCHANGED <<phase, gone, order>>
  BY DEF ReceiveData
<1>2. phase = "Active" /\ ~ingress.refused /\ ~Doomed /\ ~Stopped
  BY <1>1 DEF Discarded, Doomed, Said, Stopped
<1>3. client.sent = ingress.received
  BY <1>2, NothingWaits
<1>4. /\ client.sent \in Nat /\ client'.sent \in Nat /\ ingress.served \in Nat
      /\ ingress.received \in Nat /\ r.n \in Nat
  BY DEF UploadInv, WireTypes, Clients, Ingresses, Said, Records
<1>5. client'.sent <= ingress.served
  BY SentFacts
<1>6. /\ UNCHANGED <<ingress.accepted, ingress.served, ingress.refused, ingress.producer>>
      /\ ingress'.received = r.off + r.n
  BY <1>1 DEF UploadInv, WireTypes, Ingresses
<1>7. /\ reader'.ev.kind = "DATA" /\ reader'.ev.off = r.off /\ reader'.ev.n = r.n
      /\ reader'.ev.credit = ingress.served /\ reader'.ticket = NoTicket
  BY <1>1 DEF Event
<1>8. /\ UNCHANGED <<data, term, deferred, processing, cancels, down>> /\ Acting
      /\ reader.ev = NoEvent /\ ~gone
  BY ReceiveFrame
<1>9. Heard
  BY <1>1, <1>2, <1>6, <1>8 DEF Heard
<1>10. Ticketed'
  <2>1. reader.ticket = NoTicket
    BY <1>8 DEF NoEvent, Honest, Ticketed
  <2> QED BY <1>1, <1>7, <1>8, <2>1 DEF Honest, Ticketed, NoTicket
<1>11. Chained => Chained'
  <2> SUFFICES ASSUME Chained PROVE Chained'
    OBVIOUS
  <2>1. (Holding' <=> Holding) /\ HandEnd' = HandEnd /\ LaneEnd' = LaneEnd
    BY <1>8 DEF Holding, HandEnd, LaneEnd, Acting
  <2>2. ingress.received = LaneEnd
    BY <1>8 DEF Chained, NoEvent
  <2>3. reader'.ev.off = LaneEnd /\ ingress'.received = reader'.ev.off + reader'.ev.n
    BY <1>3, <1>6, <1>7, <2>2
  <2> QED BY <1>7, <1>8, <2>1, <2>3 DEF Chained, Acting
<1>12. Routes("DATA")
  <2>1. RecordOk(reader.ev)' /\ Rank(reader'.ev) = 0
    BY <1>7 DEF RecordOk, Rank
  <2>2. Datum(reader.ev)'
    BY <1>4, <1>5, <1>6, <1>7 DEF Datum
  <2>3. /\ ingress'.producer = "END" => client'.ended
        /\ ingress'.producer = "ABORT" => client'.aborted
    BY <1>6 DEF Said, Honest, RecordsHonest
  <2>4. /\ ingress'.received \in Nat /\ ingress.received <= ingress'.received
        /\ ingress'.received = client'.sent
    BY <1>3, <1>4, <1>6
  <2>5. Chained' \/ Doomed' \/ actor.pc = "fail"
    BY <1>2, <1>11 DEF Honest, InStep
  <2> QED BY <1>1, <1>2, <1>4, <1>6, <1>7, <2>1, <2>2, <2>3, <2>4, <2>5 DEF Routes, Said
<1> QED BY <1>9, <1>10, <1>12, RoutedHonest

\* Whatever an honest producer sends.
LEMMA SpeechHonest ==
  ASSUME UploadInv, UploadAssumption, Honest, Published, NEW r \in Records, r.kind \in Kinds,
         Said(r.kind), Receive(r), UNCHANGED down,
         r.kind = "DATA" => r.n >= 1 /\ r.off = client.sent /\ client'.sent = client.sent + r.n,
         r.kind = "END" => r.n = client.sent,
         r.kind = "ABORT" => r.n = client.accepted
  PROVE  Honest'
<1>1. /\ r.kind = "ACK" => phase = "DaemonAbortWaitAck"
      /\ \/ phase = "Retired" /\ ReceiveUnbound(r)
         \/ /\ phase = "Finalizing" /\ client.ended /\ r.kind = "ABORT"
            /\ UNCHANGED <<phase, gone, reader, order, ingress>>
         \/ /\ phase \notin {"Opening", "Retired", "Finalizing"}
            /\ ReceiveTerminal(r) \/ ReceiveDiscarded(r) \/ ReceiveRefused(r) \/ ReceiveData(r)
  BY HonestRoute
<1>2. /\ UNCHANGED <<data, term, deferred, processing, cancels, down>> /\ Acting
      /\ reader.ev = NoEvent /\ ~gone
  BY ReceiveFrame
<1>3. CASE phase = "Retired" /\ ReceiveUnbound(r)
  <2>1. RefuseAndClose(r) /\ UNCHANGED ingress
    BY <1>3 DEF ReceiveUnbound
  <2>2. gone' /\ UNCHANGED <<phase, reader, order>>
    BY <1>3, <2>1 DEF RefuseAndClose, CloseConnection, Invalidated
  <2>5. Heard
    BY <1>2, <1>3, <2>1, <2>2 DEF Heard
  <2> QED BY <1>3, <2>1, <2>2, <2>5, KeptHonest DEF Doomed
<1>4. CASE /\ phase = "Finalizing" /\ client.ended /\ r.kind = "ABORT"
           /\ UNCHANGED <<phase, gone, reader, order, ingress>>
  <2>1. Heard
    BY <1>2, <1>4 DEF Heard
  <2> QED BY <1>4, <2>1, KeptHonest DEF Doomed
<1>5. CASE /\ phase \notin {"Opening", "Retired", "Finalizing"} /\ ReceiveTerminal(r)
  BY <1>1, <1>5, TerminalHonest
<1>6. CASE /\ phase \notin {"Opening", "Retired", "Finalizing"} /\ ReceiveDiscarded(r)
  <2>1. /\ r.kind = "DATA" /\ Discarded /\ phase # "AckPending"
        /\ UNCHANGED <<phase, gone, ingress, reader, order>>
    BY <1>6 DEF ReceiveDiscarded, Routable, DirectionOk
  <2>2. Doomed
    BY <1>6, <2>1 DEF Discarded, Doomed, Honest, InStep
  <2>3. Heard
    BY <1>2, <1>6, <2>1 DEF Heard
  <2> QED BY <2>1, <2>2, <2>3, KeptHonest
<1>7. CASE /\ phase \notin {"Opening", "Retired", "Finalizing"} /\ ReceiveRefused(r)
  BY <1>7, RefusedHonest DEF ReceiveRefused
<1>8. CASE /\ phase \notin {"Opening", "Retired", "Finalizing"} /\ ReceiveData(r)
  BY <1>8, DataHonest DEF ReceiveData
<1> QED BY <1>1, <1>3, <1>4, <1>5, <1>6, <1>7, <1>8

\* The producer reads, or sends such a record.
LEMMA ProducerSpeaks ==
  ASSUME UploadInv, UploadAssumption, source \in Nat, Client, excuse' = "none"
  PROVE  ClientReads \/ \E r \in Records : Spoken(r)
<1>1. /\ client.sent \in Nat /\ client.accepted \in Nat /\ client.echo \in Nat /\ Window \in Nat
      /\ client \in Clients
  BY DEF UploadInv, WireTypes, Clients, UploadAssumption
<1>2. CASE \E n \in 1..Window : ClientSendsData(n)
  <2>1. PICK n \in 1..Window : ClientSendsData(n)
    BY <1>2
  <2> DEFINE r == Record("DATA", client.sent, n)
  <2>2. r \in Records /\ r.kind = "DATA" /\ r.off = client.sent /\ r.n = n /\ n >= 1
    BY <1>1 DEF Record, Records, RecordKinds
  <2>3. Receive(r) /\ UNCHANGED <<down, client.open, client.echo>>
    BY <1>1, <2>1 DEF ClientSendsData, Clients
  <2>4. Said("DATA") /\ client'.sent = client.sent + n
    BY <2>1, SaidFields
  <2> HIDE DEF r
  <2> QED BY <2>2, <2>3, <2>4 DEF Spoken, Kinds
<1>3. CASE ClientEnds
  <2> DEFINE r == Record("END", 0, client.sent)
  <2>1. r \in Records /\ r.kind = "END" /\ r.n = client.sent
    BY <1>1 DEF Record, Records, RecordKinds
  <2>2. Receive(r) /\ UNCHANGED <<down, client.open, client.echo>>
    BY <1>1, <1>3 DEF ClientEnds, Clients
  <2>3. Said("END")
    BY <1>3, SaidFields
  <2> HIDE DEF r
  <2> QED BY <2>1, <2>2, <2>3 DEF Spoken, Kinds
<1>4. CASE ClientAborts
  <2> DEFINE r == Record("ABORT", 0, client.accepted)
  <2>1. r \in Records /\ r.kind = "ABORT" /\ r.n = client.accepted
    BY <1>1 DEF Record, Records, RecordKinds
  <2>2. Receive(r) /\ UNCHANGED <<down, client.open, client.echo>>
    BY <1>1, <1>4 DEF ClientAborts, Clients
  <2>3. Said("ABORT")
    BY <1>4, SaidFields
  <2> HIDE DEF r
  <2> QED BY <2>1, <2>2, <2>3 DEF Spoken, Kinds
<1>5. CASE ClientAcks
  <2> DEFINE r == Record("ACK", 0, client.echo)
  <2>1. r \in Records /\ r.kind = "ACK" /\ r.n = client.echo
    BY <1>1 DEF Record, Records, RecordKinds
  <2>2. Receive(r) /\ UNCHANGED <<down, client.open, client.echo>>
    BY <1>1, <1>5 DEF ClientAcks, Clients
  <2>3. Said("ACK")
    BY <1>5, SaidFields
  <2> HIDE DEF r
  <2> QED BY <2>1, <2>2, <2>3 DEF Spoken, Kinds
<1>6. ~ClientBreaksProtocol
  BY DEF ClientBreaksProtocol, Excuse
<1> QED BY <1>2, <1>3, <1>4, <1>5, <1>6 DEF Client

\* The producer's steps, and the reader's handling of what it sent.
LEMMA ProducerHonest ==
  ASSUME UploadInv, UploadAssumption, Honest, Published, source \in Nat, Client, excuse' = "none"
  PROVE  Honest'
  BY ProducerSpeaks, ReadHonest, SpeechHonest DEF Spoken

-----------------------------------------------------------------------------
(* The connection of an honest producer.                                   *)

\* The actions of the actor at each place.
LEMMA ActorPlaces ==
  ASSUME Actor
  PROVE  \/ actor.pc = "open" /\ OpenSettles
         \/ actor.pc = "credit" /\ CreditSettles
         \/ actor.pc \in {"next", "waitack"} /\ ActorTakes
         \/ actor.pc = "next" /\ ActorIdles
         \/ actor.pc = "handle" /\ (HandleFault \/ HandleCancel \/ HandleData \/ HandleEnd \/ HandleAbort)
         \/ actor.pc = "record" /\ CancelRecords
         \/ actor.pc = "stage" /\ (StageInterrupted \/ StageCompletes)
         \/ actor.pc = "commit" /\ CommitAccepted
         \/ actor.pc = "fail" /\ SelectDaemonAbort
         \/ actor.pc = "abort" /\ AbortSettles
         \/ actor.pc \in {"answer", "cross", "waitack"} /\ ActorWaitsForAck
         \/ actor.pc = "ack" /\ FinalAckSettles
         \/ actor.pc \in {"faultack", "promote"}
         \/ actor.pc = "finish" /\ StageFinishes
         \/ actor.pc = "finalize" /\ Finalized
         \/ actor.pc \in {"reply", "publish", "unfinished"} /\ ReplySettles
<1>1. ActorWaitsForAck => actor.pc \in {"answer", "cross", "waitack"}
  BY DEF ActorWaitsForAck, AnswerAck, AnswerCrossedAbort, AnswerCancel, AnswerOther,
     CrossedAckSettles, HandshakeAbandoned
<1>2. /\ OpenSettles => actor.pc = "open"
      /\ CreditSettles => actor.pc = "credit"
      /\ ActorTakes => actor.pc \in {"next", "waitack"}
      /\ ActorIdles => actor.pc = "next"
      /\ HandleFault \/ HandleCancel \/ HandleData \/ HandleEnd \/ HandleAbort => actor.pc = "handle"
      /\ CancelRecords => actor.pc = "record"
      /\ StageInterrupted \/ StageCompletes => actor.pc = "stage"
  BY DEF OpenSettles, CreditSettles, ActorTakes, ActorIdles, HandleFault, handling,
     HandleCancel, CancelRecords, HandleData, HandleEnd, HandleAbort, StageInterrupted, StageCompletes
<1>3. /\ CommitAccepted => actor.pc = "commit"
      /\ SelectDaemonAbort => actor.pc = "fail"
      /\ AbortSettles => actor.pc = "abort"
      /\ FinalAckSettles => actor.pc = "ack"
      /\ FaultAckSettles \/ Promote => actor.pc \in {"faultack", "promote"}
      /\ StageFinishes => actor.pc = "finish"
      /\ Finalized => actor.pc = "finalize"
      /\ ReplySettles => actor.pc \in {"reply", "publish", "unfinished"}
  BY DEF CommitAccepted, SelectDaemonAbort, AbortSettles, FinalAckSettles, FaultAckSettles, Promote,
     StageFinishes, Finalized, ReplySettles
<1> QED BY <1>1, <1>2, <1>3 DEF Actor

\* The actor returns once the stream is retired or the connection lost, or
\* when the result was the producer's END.
LEMMA ActorReturns ==
  ASSUME UploadInv, UploadAssumption, Honest, Actor, excuse' = "none", actor'.pc = "done", ~gone'
  PROVE  phase = "Retired" \/ actor.pc \in Owning
<1>1. /\ ActorTypes /\ phase \in PhasesAt(actor.pc) /\ ~gone /\ Walk /\ Reason
      /\ actor.pc \notin {"faultack", "promote"}
  BY PlaceFacts, ActorKeeps, ActorWalks DEF ActorKept, Forward
<1>2. /\ ~Loop /\ (\A why, yield : ~Fail(why, yield)) /\ \A s : ~TurnEnds(s)
      /\ \A e : ~Hold(e)
  BY <1>1 DEF ActorTypes, Actors, Loop, Fail, TurnEnds, Hold
<1>3. actor.pc \in {"open", "credit", "next", "handle", "stage", "commit", "fail", "abort", "ack",
                    "reply", "publish", "unfinished"}
  BY <1>1 DEF Walk, Successors
<1>4. CASE actor.pc \in {"abort", "ack", "reply", "publish", "unfinished"}
  BY <1>1, <1>4 DEF Reason, PhasesAt, Owning
<1>5. CASE actor.pc = "open"
  BY <1>1, <1>5, ActorPlaces, OpenFields
<1>6. CASE actor.pc = "handle"
  <2>1. phase # "Active"
    BY <1>1, <1>2, <1>6, ActorPlaces
    DEF HandleFault, HandleCancel, HandleData, HandleEnd, HandleAbort, ActorTypes, Actors
  <2> QED BY <1>1, <1>6, <2>1 DEF PhasesAt
<1>7. CASE actor.pc \in {"credit", "next", "stage", "commit"}
  <2>1. Closed
    BY <1>1, <1>2, <1>7, ActorPlaces
    DEF CreditSettles, ActorTakes, ActorIdles, StageInterrupted, StageCompletes, CommitAccepted,
        ActorTypes, Actors, TakeDeferred, TakeTerminal, TakeData
  <2> QED BY <1>1, <2>1 DEF Closed
<1>8. CASE actor.pc = "fail"
  <2>1. phase \notin {"Active", "DaemonAbortQueued"}
    BY <1>1, <1>2, <1>8, ActorPlaces DEF SelectDaemonAbort, ActorTypes, Actors
  <2> QED BY <1>1, <1>8, <2>1 DEF PhasesAt
<1> QED BY <1>3, <1>4, <1>5, <1>6, <1>7, <1>8

\* A step of the actor that ends in a reply has the ACK it waited for, or had
\* none to wait for, unless the connection is lost.
LEMMA ActorAcked ==
  ASSUME UploadInv, UploadAssumption, Honest, Unbroken, Actor, excuse' = "none",
         actor'.pc = "reply", ~gone'
  PROVE  actor'.acked
<1>1. /\ ActorTypes /\ ~gone /\ Walk /\ Reason /\ actor.pc \notin {"faultack", "promote"}
  BY PlaceFacts, ActorKeeps, ActorWalks DEF ActorKept, Forward
<1>2. actor.pc \in {"open", "ack", "answer"}
  BY <1>1 DEF Walk, Successors, Reason
<1>3. CASE actor.pc = "open"
  BY <1>1, <1>3, ActorPlaces DEF OpenSettles, Return, ActorTypes, Actors
<1>4. CASE actor.pc = "ack"
  BY <1>1, <1>4, ActorPlaces DEF FinalAckSettles, Return, ActorTypes, Actors
<1>5. CASE actor.pc = "answer"
  <2>1. actor.ev.kind = "ACK" /\ ActorWaitsForAck
    BY <1>1, <1>5, ActorPlaces DEF Reason
  <2>2. AnswerAck
    BY <1>5, <2>1 DEF ActorWaitsForAck, AnswerCrossedAbort, AnswerCancel, AnswerOther,
       CrossedAckSettles, HandshakeAbandoned
  <2>3. actor.ev.n = state.accepted
    BY <2>1 DEF Unbroken, Echoes
  <2>4. phase = "AckPending"
    <3>1. phase \in {"AckPending", "Retired"}
      BY <2>1 DEF Honest, RecordsHonest, RecordOk
    <3> QED BY <1>1, <1>5, <3>1 DEF Honest, Handshakes
  <2>5. ~NonCancelPending
    <3>1. \A e \in Waiting : Rank(e) = 0
      <4> SUFFICES ASSUME NEW e \in Waiting, Rank(e) # 0 PROVE FALSE
        OBVIOUS
      <4>1. Rank(actor.ev) < Rank(e)
        BY DEF Honest, InRank
      <4>2. Rank(actor.ev) = 3 /\ Rank(e) \in 0..3
        BY <2>1, RankOf DEF Rank
      <4> QED BY <4>1, <4>2
    <3>2. \A e \in Waiting : e.kind \in {"none", "CANCEL", "DATA"}
      BY <3>1 DEF Rank, Honest, RecordsHonest, RecordOk
    <3>3. \A i \in DOMAIN term : term[i].kind = "CANCEL"
      <4> SUFFICES ASSUME NEW i \in DOMAIN term PROVE term[i].kind = "CANCEL"
        OBVIOUS
      <4>1. term[i] \in Events
        BY <1>1 DEF ActorTypes
      <4>2. term[i].kind # "none" /\ term[i].kind # "DATA"
        BY <4>1 DEF Events, Received, Asked, RecordKinds, UploadInv, EndsOwned
      <4> QED BY <3>2, <4>2 DEF Waiting
    <3>4. reader.ticket = NoTicket
      BY <3>2 DEF Honest, Ticketed, RecordsHonest, Waiting
    <3> QED BY <3>3, <3>4 DEF NonCancelPending, Admitting
  <2> QED BY <1>1, <2>2, <2>3, <2>4, <2>5 DEF AnswerAck, HandshakeEnds, ActorTypes, Actors
<1> QED BY <1>2, <1>3, <1>4, <1>5

\* What the actor has to do with the closing of the connection over a record.
LEMMA ActorFaults ==
  ASSUME UploadInv, UploadAssumption, Honest, Unbroken, Actor, excuse' = "none"
  PROVE  faulted' = faulted /\ ~ingress'.postEnd
<1>1. ingress \in Ingresses /\ ~ingress.postEnd
  BY DEF UploadInv, WireTypes, Unbroken
<1>2. CASE HandleEnd
  BY <1>1, <1>2 DEF HandleEnd, Ingresses
<1>3. CASE ReplySettles
  BY <1>1, <1>3 DEF ReplySettles, Unbroken
<1>4. CASE CommitAccepted
  BY <1>1, <1>4 DEF CommitAccepted, actorFrame, Ingresses
<1>5. CASE ~HandleEnd /\ ~ReplySettles /\ ~CommitAccepted
  BY <1>1, <1>5 DEF Actor, actorFrame, OpenSettles, CreditSettles, ActorTakes, ActorIdles, HandleFault,
     HandleCancel, CancelRecords, HandleData, HandleAbort, StageInterrupted, StageCompletes,
     SelectDaemonAbort, AbortSettles, ActorWaitsForAck, FinalAckSettles,
     FaultAckSettles, Promote, StageFinishes, Finalized
<1> QED BY <1>2, <1>3, <1>4, <1>5

\* Nothing more is accepted once an ABORT was written or an ACK sent.
LEMMA ActorAccepts ==
  ASSUME UploadInv, UploadAssumption, Honest, Actor, excuse' = "none",
         state'.accepted # state.accepted
  PROVE  phase = "Active" /\ ~client.told /\ ~InDown("ABORT")
<1>1. StateMoves /\ ActorTypes /\ phase \in PhasesAt(actor.pc)
  BY ActorKeeps, PlaceFacts DEF ActorKept
<1>2. actor.pc = "commit"
  BY <1>1 DEF StateMoves, ActorTypes, States, Credited
<1>3. ~Closed
  BY <1>2, ActorPlaces DEF CommitAccepted
<1>4. phase = "Active"
  BY <1>1, <1>2, <1>3 DEF PhasesAt, Closed
<1> QED BY <1>4 DEF Honest, Handshakes

\* The reader has nothing but a late ABORT when END owns the result.
LEMMA EndLeaves ==
  ASSUME UploadInv, UploadAssumption, Honest, actor.pc = "handle", actor.ev.kind = "END"
  PROVE  client.ended /\ reader.ev.kind \in {"none", "ABORT"}
<1>1. client.ended
  BY DEF Honest, RecordsHonest, RecordOk
<1>2. RecordOk(reader.ev) /\ reader.ev.kind # "CANCEL"
  BY DEF Honest, RecordsHonest, Waiting
<1>3. reader.ev.kind \notin {"END", "OVERSIZE"}
  BY DEF Honest, InRank, Waiting, Rank
<1> QED BY <1>1, <1>2, <1>3, Drained DEF RecordOk

\* Before the first CREDIT there is nothing to read.
LEMMA OpenLeaves ==
  ASSUME UploadInv, UploadAssumption, Honest, actor.pc = "open"
  PROVE  reader.ev.kind = "none"
<1>1. /\ ~client.granted /\ ~client.ended /\ ~client.aborted /\ ~client.told /\ client.sent = 0
  BY DEF Honest, Handshakes, CreditsSeen
<1>2. RecordOk(reader.ev) /\ Datum(reader.ev) /\ reader.ev.kind # "CANCEL" /\ ingress.received <= 0
  BY <1>1 DEF Honest, RecordsHonest, Waiting
<1>3. reader.ev.kind # "OVERSIZE"
  BY <1>1, <1>2 DEF RecordOk, UploadAssumption
<1>4. reader.ev.kind # "DATA"
  <2> SUFFICES ASSUME reader.ev.kind = "DATA" PROVE FALSE
    OBVIOUS
  <2>1. reader.ev.off \in Nat /\ reader.ev.n \in Nat /\ state.staged \in Nat /\ ingress.received \in Nat
    BY DEF UploadInv, ActorTypes, WireTypes, Ingresses, States, Events, Received, Asked, NoEvent
  <2>2. Waits(reader.ev) /\ reader.ev.n >= 1
    BY <1>2 DEF UploadInv, DataInOrder, Datum
  <2> QED BY <1>2, <2>1, <2>2 DEF Waits
<1> QED BY <1>1, <1>2, <1>3, <1>4 DEF RecordOk

\* No step of the actor breaks an honest connection.
LEMMA ActorUnbroken ==
  ASSUME UploadInv, UploadInv', UploadAssumption, Honest, Unbroken, Actor, excuse' = "none"
  PROVE  Unbroken'
<1>1. /\ ActorKept /\ Walk /\ Reason /\ Forward /\ (gone => gone')
      /\ UNCHANGED <<client, down, reader, ingress.producer>>
  BY ActorKeeps, ActorWalks DEF ActorKept, Forward, IngressStays
<1>2. faulted' = faulted /\ ~ingress'.postEnd
  BY ActorFaults
<1>3. state'.accepted = state.accepted \/ (phase = "Active" /\ ~client.told /\ ~InDown("ABORT"))
  BY ActorAccepts
<1>4. ASSUME NEW e \in Waiting' \cup {actor'.ev} PROVE Echoes(e)'
  <2>1. e \in Waiting \cup {actor.ev, NoEvent} \/ e.kind = "DATA"
    BY <1>1, <1>4, ActorWaiting DEF UploadInv, DataInOrder
  <2>2. e.kind = "ABORT" /\ client.ended => e.n = client.sent
    BY <2>1 DEF Unbroken, Echoes, NoEvent
  <2>3. e.kind = "ACK" => client.told /\ e.n = state.accepted
    BY <2>1 DEF Unbroken, Echoes, NoEvent, Honest, RecordsHonest, RecordOk
  <2> QED BY <1>1, <1>3, <2>2, <2>3 DEF Echoes
<1>5. client.owes => client.told
  BY DEF Honest, Handshakes
<1>6. actor'.pc # "open"
  BY <1>1 DEF Walk, Successors
<1>7. /\ client'.owes => client'.echo = state'.accepted
      /\ \A i \in DOMAIN down' : down'[i].kind = "ABORT" => down'[i].acc = state'.accepted
  BY <1>1, <1>3, <1>5 DEF Unbroken, InDown
<1>8. actor'.pc = "reply" => actor'.acked \/ gone'
  BY ActorAcked
<1>9. ASSUME ~gone', phase' = "Retired", phase # "Retired"
      PROVE  \/ actor.pc = "open" /\ NeverOpened
             \/ client.told /\ reader.ev.kind = "none"
             \/ actor.pc \in Owning
  <2>1. actor'.pc \in {"reply", "done"} /\ actor.pc \notin {"faultack", "promote"}
    BY <1>1, <1>9, PlaceFacts DEF Reason
  <2>2. actor'.pc = "done" => actor.pc \in Owning
    BY <1>9, ActorReturns
  <2>3. CASE actor'.pc = "reply"
    <3>1. actor.pc \in {"open", "ack", "answer"}
      BY <1>1, <1>9, <2>1, <2>3 DEF Walk, Successors, Reason
    <3>2. actor.pc # "ack"
      <4>1. CASE actor.pc = "ack"
        BY <1>9, <2>3, <4>1, ActorPlaces, HonestAck DEF Returned
      <4> QED BY <4>1
    <3>3. CASE actor.pc = "open"
      <4>1. write.at \in {"deadline", "queued"}
        BY <1>9, <2>3, <3>3, ActorPlaces, OpenFields, PlaceFacts DEF Returned
      <4> QED BY <3>3, <4>1 DEF Unbroken
    <3>4. CASE actor.pc = "answer"
      <4>1. actor.ev.kind = "ACK"
        BY <1>1, <2>3, <3>4 DEF Reason
      <4>2. client.told /\ ~client.owes
        BY <4>1 DEF Honest, RecordsHonest, RecordOk, AwaitsAck
      <4>3. reader.ev.kind \in {"none", "ACK"}
        BY <4>2 DEF Unbroken
      <4>4. reader.ev.kind # "ACK"
        BY <4>1 DEF Honest, InRank, Waiting, Rank
      <4> QED BY <4>2, <4>3, <4>4
    <3> QED BY <3>1, <3>2, <3>3, <3>4
  <2> QED BY <2>1, <2>2, <2>3
<1>10. phase' = "Retired" /\ ~gone' => Stopped' \/ NeverOpened'
  <2>1. phase = "Retired" /\ ~gone => Stopped \/ NeverOpened
    BY DEF Unbroken
  <2>2. client.told \/ actor.pc \in Owning => Stopped
    BY OwningEnded DEF Stopped
  <2>3. Stopped' = Stopped /\ NeverOpened' = NeverOpened
    BY <1>1 DEF Stopped, NeverOpened
  <2> QED BY <1>1, <1>9, <2>1, <2>2, <2>3
<1>11. (phase' = "Retired" \/ actor'.pc \in Owning) /\ ~gone' =>
         reader'.ev.kind = "none" \/ (reader'.ev.kind = "ABORT" /\ client'.ended)
  <2>1. (phase = "Retired" \/ actor.pc \in Owning) /\ ~gone =>
          reader.ev.kind = "none" \/ (reader.ev.kind = "ABORT" /\ client.ended)
    BY DEF Unbroken
  <2>2. actor'.pc \in Owning => actor.pc \in Owning \/ (actor.pc = "handle" /\ actor'.pc = "finish")
    BY <1>1 DEF Walk, Successors, Owning
  <2>3. actor.pc = "handle" /\ actor'.pc = "finish" => actor.ev.kind = "END"
    <3> SUFFICES ASSUME actor.pc = "handle", actor'.pc = "finish" PROVE actor.ev.kind = "END"
      OBVIOUS
    <3>1. ~HandleFault /\ ~HandleCancel /\ ~HandleData /\ ~HandleAbort
      BY PlaceFacts, FaultFields, CancelFields, DataFields, AbortFields
      DEF Failed, Goes, Turned, Looped, Returned
    <3> QED BY <3>1, ActorPlaces DEF HandleEnd
  <2> QED BY <1>1, <1>9, <2>1, <2>2, <2>3, EndLeaves, OpenLeaves
<1>12. /\ client'.ended /\ ~gone' => ingress'.producer = "END"
       /\ client'.told /\ ~client'.owes => reader'.ev.kind \in {"none", "ACK"}
  BY <1>1 DEF Unbroken
<1> QED BY <1>2, <1>4, <1>6, <1>7, <1>8, <1>10, <1>11, <1>12 DEF Unbroken

\* A quiet step that retires the stream does so when nothing is to come.
LEMMA QuietUnbroken ==
  ASSUME UploadInv, Honest, Unbroken, Quiet,
         \A i \in DOMAIN down' : down'[i].kind = "ABORT" => down'[i].acc = state.accepted,
         actor.pc = "open" /\ write'.at \notin {"started", "sent"} => NeverOpened',
         NeverOpened => NeverOpened' \/ phase' # "Retired" \/ gone',
         phase' = "Retired" /\ ~gone' =>
           phase = "Retired" \/ actor.pc \in Owning \/ (Stopped /\ reader.ev = NoEvent)
  PROVE  Unbroken'
<1> USE DEF Quiet
<1>1. \A e \in Waiting' \cup {actor'.ev} : Echoes(e)'
  <2>1. \A e \in Waiting' : e \in Waiting \/ e.kind \in {"none", "CANCEL"}
    BY DEF Waiting, NoEvent
  <2> QED BY <2>1 DEF Unbroken, Echoes
<1>2. Stopped' = Stopped /\ (actor.pc \in Owning => Stopped)
  BY OwningEnded DEF Stopped
<1>3. phase' = "Retired" /\ ~gone' => Stopped' \/ NeverOpened'
  BY <1>2 DEF Unbroken
<1>4. (phase' = "Retired" \/ actor'.pc \in Owning) /\ ~gone' =>
        reader'.ev.kind = "none" \/ (reader'.ev.kind = "ABORT" /\ client'.ended)
  BY DEF Unbroken, NoEvent
<1> QED BY <1>1, <1>3, <1>4 DEF Unbroken, NoEvent

\* A record that finds the receivers gone is an ABORT behind an END.
LEMMA ReaderUnbroken ==
  ASSUME UploadInv, UploadAssumption, Honest, Unbroken, ReaderEnqueues
  PROVE  Unbroken'
<1> DEFINE isData == reader.ev.kind = "DATA"
           refuse == ~Receiving \/ phase = "Retired" \/ (gone /\ isData)
<1>1. /\ reader' = [ev |-> NoEvent, ticket |-> NoTicket] /\ reader.ev # NoEvent
      /\ UNCHANGED <<phase, ingress, client, down, actor, state, write>>
  BY DEF ReaderEnqueues, actorVars, clientVars
<1>2. refuse /\ ~gone => LateAbort(reader.ev)
  <2> SUFFICES ASSUME refuse, ~gone PROVE LateAbort(reader.ev)
    OBVIOUS
  <2>1. phase = "Retired" \/ actor.pc \in Owning
    BY DEF Receiving, Owning, Honest, Fits, PhasesAt
  <2>2. reader.ev.kind # "none"
    BY <1>1 DEF UploadInv, ActorTypes, Events, Received, Asked, RecordKinds
  <2>3. reader.ev.kind = "ABORT" /\ client.ended /\ ingress.producer = "END"
    BY <2>1, <2>2 DEF Unbroken
  <2>4. reader.ev.n = client.sent
    BY <2>3 DEF Unbroken, Echoes, Waiting
  <2>5. client.sent = state.accepted /\ ingress.accepted = state.accepted
    BY <2>3, Drained DEF Honest, Fits
  <2> QED BY <2>3, <2>4, <2>5 DEF LateAbort, ValidLateAbort
<1>3. CASE /\ refuse /\ gone' = TRUE /\ UNCHANGED term
           /\ faulted' = IF gone THEN faulted
                         ELSE IF LateAbort(reader.ev) THEN "overtaken" ELSE "record"
  <2>1. faulted' # "record"
    BY <1>2, <1>3 DEF Unbroken
  <2>2. Quiet
    BY <1>1, <1>3, <2>1 DEF Quiet, Waiting
  <2> QED BY <1>1, <1>3, <2>2, QuietUnbroken DEF Unbroken, NeverOpened
<1>4. CASE /\ ~refuse /\ UNCHANGED <<gone, faulted>>
           /\ term' = IF isData THEN term ELSE Append(term, reader.ev)
  <2>1. \A i \in DOMAIN term' : term'[i] \in Waiting
    <3>1. term \in Seq(Events) /\ reader.ev \in Events
      BY <1>1 DEF UploadInv, ActorTypes
    <3> QED BY <1>4, <3>1 DEF Waiting
  <2>2. Quiet
    BY <1>1, <1>4, <2>1 DEF Quiet, Unbroken
  <2> QED BY <1>1, <1>4, <2>2, QuietUnbroken DEF Unbroken, NeverOpened
<1> QED BY <1>3, <1>4 DEF ReaderEnqueues

\* Neither does the writer: a stream that its message retires has its
\* producer's terminal.
LEMMA WriterUnbroken ==
  ASSUME UploadInv, UploadAssumption, Honest, Unbroken, Writer \/ HandshakeExpires, excuse' = "none"
  PROVE  Unbroken'
<1>1. CASE WriterStarts
  <2>1. /\ write'.at = "started" /\ write.kind \in Messages /\ ~gone /\ MayStart /\ WriterFrame
        /\ down' = Append(down, Written)
    BY <1>1, StartFields
  <2>2. down \in Seq(Downs) /\ Written.acc = state.accepted
    BY DEF UploadInv, WireTypes, Written
  <2>3. Written.kind = IF write.kind = "FINALACK" THEN "ACK" ELSE write.kind
    BY DEF Written
  <2> HIDE DEF Written
  <2>4. \A i \in DOMAIN down' : \/ i \in DOMAIN down /\ down'[i] = down[i]
                                \/ down'[i] = Written
    BY <2>1, <2>2, DownGrows
  <2>5. UNCHANGED ingress.postEnd /\ UNCHANGED faulted
    BY <1>1 DEF WriterStarts, historyVars, UploadInv, WireTypes, Ingresses
  <2>6. phase' = "Retired" => phase = "Retired"
    BY <1>1 DEF WriterStarts
  <2>7. Quiet
    BY <2>1, <2>5 DEF Quiet, WriterFrame, Waiting, Unbroken
  <2>8. phase = "Retired" => write.kind = "REPLY"
    BY <2>1 DEF Honest, Fits, Writing, Handshakes, MayStart, Messages
  <2>9. NeverOpened /\ phase = "Retired" => NeverOpened'
    BY <2>1, <2>3, <2>4, <2>8 DEF NeverOpened, WriterFrame
  <2>10. \A i \in DOMAIN down' : down'[i].kind = "ABORT" => down'[i].acc = state.accepted
    BY <2>2, <2>4 DEF Unbroken
  <2> QED BY <2>1, <2>6, <2>7, <2>9, <2>10, QuietUnbroken
<1>2. CASE WriterDiscards \/ HandshakeExpires
  <2>1. /\ UNCHANGED <<phase, gone, ingress, reader, term, actor, state, client, down, faulted>>
        /\ write.at = "queued"
    BY <1>2 DEF WriterDiscards, HandshakeExpires, ingressVars, laneVars, clientVars
  <2>2. Quiet
    BY <2>1 DEF Quiet, Waiting, Unbroken
  <2> QED BY <2>1, <2>2, QuietUnbroken DEF Unbroken, NeverOpened
<1>3. CASE WriterSends
  <2>1. /\ UNCHANGED <<gone, ingress, reader, term, actor, state, client, down, faulted>>
        /\ write.at = "started" /\ write' = [write EXCEPT !.at = "sent"]
    BY <1>3 DEF WriterSends, laneVars, clientVars, historyVars
  <2>2. Quiet
    BY <2>1 DEF Quiet, Waiting, Unbroken
  <2>3. write'.at = "sent"
    BY <2>1 DEF UploadInv, ActorTypes, Writes, NoWrite
  <2>4. phase' = "Retired" => \/ phase = "Retired" \/ write.kind = "FINALACK"
                              \/ write.kind = "REPLY" /\ actor.pc # "reply"
    BY <1>3 DEF WriterSends
  <2>5. write.kind = Writing(actor.pc)
    BY DEF Honest, Fits
  <2>6. write.kind = "FINALACK" => Stopped /\ reader.ev = NoEvent
    BY <2>5 DEF Writing, Honest, Handshakes, Stopped
  <2>7. write.kind = "REPLY" /\ actor.pc # "reply" => actor.pc \in Owning
    BY <2>5 DEF Writing, Owning
  <2>8. NeverOpened' = NeverOpened
    BY <2>1 DEF NeverOpened
  <2> QED BY <2>1, <2>2, <2>3, <2>4, <2>6, <2>7, <2>8, QuietUnbroken DEF Unbroken
<1>4. ~WriterFails
  BY DEF WriterFails, Excuse
<1> QED BY <1>1, <1>2, <1>3, <1>4 DEF Writer

\* Nor a transfer.cancel, the end of the connection or the clock.
LEMMA OutsideUnbroken ==
  ASSUME UploadInv, Honest, Unbroken,
         \/ \E c \in Cancellers : CancelTask(c) \/ CancelWithdrawn(c)
         \/ Disconnect \/ Expire \/ UNCHANGED vars
  PROVE  Unbroken'
<1>1. /\ UNCHANGED <<ingress, reader, actor, state, write, client, down, faulted>>
      /\ UNCHANGED <<phase, gone>> \/ gone'
  BY DEF CancelTask, CancelLooksUp, CancelAsks, CancelEnqueues, CancelDropped, CancelSettles,
     CancelWithdrawn, cancelFrame, Disconnect, Expire, CloseConnection, vars, ingressVars,
     laneVars, actorVars, clientVars, historyVars
<1>2. term' = term \/ \E e : e.kind = "CANCEL" /\ term' = Append(term, e)
  BY DEF CancelTask, CancelLooksUp, CancelAsks, CancelEnqueues, CancelDropped, CancelSettles,
     CancelWithdrawn, Disconnect, Expire, vars, laneVars
<1>3. \A i \in DOMAIN term' : term'[i] \in Waiting \/ term'[i].kind = "CANCEL"
  <2>1. term \in Seq(Events)
    BY DEF UploadInv, ActorTypes
  <2> QED BY <1>2, <2>1 DEF Waiting
<1>4. Quiet
  BY <1>1, <1>3 DEF Quiet, Unbroken
<1> QED BY <1>1, <1>4, QuietUnbroken DEF Unbroken, NeverOpened

\* Nor the producer's reading.
LEMMA ReadUnbroken ==
  ASSUME UploadInv, Unbroken, ClientReads
  PROVE  Unbroken'
<1> DEFINE m == Head(down)
<1>1. /\ UNCHANGED <<client.sent, client.ended, client.aborted>>
      /\ m.kind \in {"OPEN", "CREDIT", "ABORT", "ACK", "REPLY"}
      /\ client'.granted = (client.granted \/ m.kind = "CREDIT")
      /\ client'.told = (client.told \/ m.kind = "ABORT")
      /\ client'.owes = (client.owes \/ m.kind = "ABORT")
  BY ReadFields
<1>2. /\ UNCHANGED <<phase, gone, ingress, reader, term, actor, state, write, faulted>>
      /\ down # <<>> /\ down' = Tail(down) /\ client \in Clients
  BY DEF ClientReads, ingressVars, laneVars, actorVars, historyVars, UploadInv, WireTypes
<1>3. /\ client'.echo = IF m.kind = "ABORT" THEN m.acc ELSE client.echo
      /\ client'.open = (client.open \/ m.kind = "OPEN")
  <2>1. client' = CASE m.kind = "OPEN"   -> [client EXCEPT !.open = TRUE]
                    [] m.kind = "CREDIT" -> [client EXCEPT !.granted = TRUE, !.accepted = m.acc,
                                                           !.through = m.n]
                    [] m.kind = "ABORT"  -> [client EXCEPT !.told = TRUE, !.owes = TRUE,
                                                           !.echo = m.acc]
                    [] m.kind = "ACK"    -> [client EXCEPT !.acked = TRUE]
                    [] m.kind = "REPLY"  -> [client EXCEPT !.replied = TRUE]
    BY DEF ClientReads
  <2> HIDE DEF m
  <2> QED BY <1>1, <1>2, <2>1 DEF Clients
<1>4. /\ 1 \in DOMAIN down /\ m = down[1]
      /\ \A i \in DOMAIN down' : i + 1 \in DOMAIN down /\ down'[i] = down[i + 1]
  BY <1>2, DownShrinks DEF UploadInv, WireTypes
<1> HIDE DEF m
<1>5. \A e \in Waiting' \cup {actor'.ev} : Echoes(e)'
  BY <1>1, <1>2 DEF Unbroken, Waiting, Echoes
<1>6. NeverOpened => NeverOpened'
  BY <1>1, <1>3, <1>4 DEF NeverOpened
<1>7. Stopped => Stopped'
  BY <1>1 DEF Stopped
<1>8. /\ client'.owes => client'.echo = state.accepted
      /\ \A i \in DOMAIN down' : down'[i].kind = "ABORT" => down'[i].acc = state.accepted
  BY <1>1, <1>3, <1>4 DEF Unbroken
<1>9. client'.told /\ ~client'.owes => reader.ev.kind \in {"none", "ACK"}
  BY <1>1 DEF Unbroken
<1> QED BY <1>1, <1>2, <1>5, <1>6, <1>7, <1>8, <1>9 DEF Unbroken

\* An honest producer that finds the stream retired has sent END, and sends an
\* ABORT behind it.
LEMMA CrossingAbort ==
  ASSUME UploadInv, UploadAssumption, Honest, Unbroken, NEW r, r.kind \in Kinds, Said(r.kind),
         phase = "Retired", ~gone, r.kind # "ACK", r.kind = "ABORT" => r.n = client.accepted
  PROVE  LateAbort(r)
<1>1. client.granted /\ ~client.aborted /\ ~client.told
  BY DEF Said
<1>2. client.ended
  BY <1>1 DEF Unbroken, NeverOpened, Stopped
<1>3. r.kind = "ABORT" /\ ingress.producer = "END"
  BY <1>2 DEF Said, Kinds, Unbroken
<1>4. client.accepted = client.sent /\ client.sent = state.accepted /\ ingress.accepted = state.accepted
  BY <1>2, Drained DEF Honest, CreditsSeen, Fits
<1> QED BY <1>3, <1>4 DEF LateAbort, ValidLateAbort

\* What is admitted of a record echoes what the record does.
LEMMA SpeechEchoes ==
  ASSUME UploadInv, UploadAssumption, Honest, Unbroken, NEW r \in Records, r.kind \in Kinds,
         Said(r.kind), UNCHANGED <<term, actor, state>>,
         r.kind = "ABORT" => r.n = client.accepted, r.kind = "ACK" => r.n = client.echo,
         \/ reader'.ev.kind \notin {"ABORT", "ACK"}
         \/ reader'.ev.kind = r.kind /\ reader'.ev.n = r.n
  PROVE  \A e \in Waiting' \cup {actor'.ev} : Echoes(e)'
<1>1. Echoes(reader.ev)'
  <2>1. reader'.ev.kind = "ABORT" /\ client'.ended => reader'.ev.n = client'.sent
    BY DEF Said, Honest, CreditsSeen
  <2>2. reader'.ev.kind = "ACK" => reader'.ev.n = state'.accepted
    BY DEF Said, Unbroken
  <2> QED BY <2>1, <2>2 DEF Echoes
<1>2. ASSUME NEW e \in Waiting \cup {actor.ev} PROVE Echoes(e)'
  <2>1. e.kind = "ACK" => e.n = state'.accepted
    BY DEF Unbroken, Echoes
  <2>2. ASSUME e.kind = "ABORT", client'.ended PROVE e.n = client'.sent
    <3>1. client.aborted
      BY <2>2 DEF Honest, RecordsHonest, RecordOk
    <3>2. r.kind = "ACK" /\ client.ended /\ client'.sent = client.sent
      BY <2>2, <3>1 DEF Said
    <3> QED BY <2>2, <3>2 DEF Unbroken, Echoes
  <2> QED BY <2>1, <2>2 DEF Echoes
<1>3. \A e \in Waiting' \cup {actor'.ev} : e = reader'.ev \/ e \in Waiting \cup {actor.ev}
  BY DEF Waiting
<1> QED BY <1>1, <1>2, <1>3

\* Whatever an honest producer sends.
LEMMA SpeechUnbroken ==
  ASSUME UploadInv, UploadAssumption, Honest, Unbroken, NEW r \in Records, r.kind \in Kinds,
         Said(r.kind), Receive(r), UNCHANGED <<down, client.open, client.echo>>,
         r.kind = "ABORT" => r.n = client.accepted, r.kind = "ACK" => r.n = client.echo
  PROVE  Unbroken'
<1>1. /\ r.kind = "ACK" => phase = "DaemonAbortWaitAck"
      /\ \/ phase = "Retired" /\ ReceiveUnbound(r)
         \/ /\ phase = "Finalizing" /\ client.ended /\ r.kind = "ABORT"
            /\ UNCHANGED <<phase, gone, reader, order, ingress, faulted>>
         \/ /\ phase \notin {"Opening", "Retired", "Finalizing"}
            /\ ReceiveTerminal(r) \/ ReceiveDiscarded(r) \/ ReceiveRefused(r) \/ ReceiveData(r)
  BY HonestRoute
<1>2. /\ UNCHANGED <<term, actor, state, write, down>> /\ reader.ev = NoEvent /\ ~gone
      /\ ingress \in Ingresses /\ actor.pc # "open"
  BY ReceiveFrame DEF Acting, UploadInv, WireTypes, Said, Honest, Handshakes, Kinds
<1>3. faulted' # "record" /\ ingress'.postEnd = ingress.postEnd
  <2>1. CASE phase = "Retired" /\ ReceiveUnbound(r)
    <3>1. LateAbort(r)
      BY <1>1, <1>2, <2>1, CrossingAbort
    <3> QED BY <2>1, <3>1 DEF ReceiveUnbound, RefuseAndClose
  <2>2. CASE UNCHANGED <<ingress, faulted>>
    BY <2>2 DEF Unbroken
  <2>3. CASE ReceiveTerminal(r) \/ ReceiveDiscarded(r) \/ ReceiveRefused(r) \/ ReceiveData(r)
    BY <1>2, <2>3 DEF ReceiveTerminal, ReceiveDiscarded, ReceiveRefused, ReceiveData, Admit,
       Ingresses, Unbroken
  <2> QED BY <1>1, <2>1, <2>2, <2>3
<1>4. \/ phase = "Retired" /\ gone' /\ UNCHANGED <<reader, ingress>>
      \/ phase = "Finalizing" /\ UNCHANGED <<phase, gone, reader, ingress>> /\ r.kind = "ABORT"
      \/ phase # "Finalizing" /\ phase' # "Retired" /\ phase # "Retired"
  <2>1. CASE phase = "Retired" /\ ReceiveUnbound(r)
    BY <2>1 DEF ReceiveUnbound, RefuseAndClose, CloseConnection
  <2>2. CASE ReceiveTerminal(r) \/ ReceiveDiscarded(r) \/ ReceiveRefused(r) \/ ReceiveData(r)
    BY <1>1, <2>2 DEF ReceiveTerminal, ReceiveDiscarded, ReceiveRefused, ReceiveData, Routable
  <2> QED BY <1>1, <2>1, <2>2
<1>5. \/ reader'.ev = NoEvent /\ r.kind \notin {"END", "ACK"}
      \/ reader'.ev.kind \in {"DATA", "OVERSIZE", "NOCREDIT"} /\ r.kind = "DATA"
      \/ reader'.ev.kind = r.kind /\ reader'.ev.n = r.n /\ r.kind # "DATA"
      \/ reader'.ev = NoEvent /\ gone'
  <2>1. CASE ReceiveTerminal(r)
    BY <2>1, EventTypes DEF ReceiveTerminal, Admit
  <2>2. CASE ReceiveDiscarded(r)
    BY <1>2, <2>2 DEF ReceiveDiscarded
  <2>3. CASE ReceiveRefused(r)
    <3> DEFINE b == [r EXCEPT !.kind = Refusal(r)]
    <3>1. Refusal(r) \in {"OVERSIZE", "NOCREDIT"} /\ r.kind = "DATA" /\ reader'.ev = Event(b)
      BY <2>3 DEF ReceiveRefused, Refusal, Admit
    <3>2. b \in Records /\ b.kind = Refusal(r)
      BY ZenonT(40), <3>1, KindTypes DEF RecordKinds
    <3>3. Event(b).kind = Refusal(r)
      BY <3>2, EventTypes
    <3> QED BY <3>1, <3>3
  <2>4. CASE ReceiveData(r)
    BY <2>4, EventTypes DEF ReceiveData
  <2> QED BY <1>1, <1>2, <1>4, <2>1, <2>2, <2>3, <2>4
<1>6. \A e \in Waiting' \cup {actor'.ev} : Echoes(e)'
  <2>1. \/ reader'.ev.kind \notin {"ABORT", "ACK"}
        \/ reader'.ev.kind = r.kind /\ reader'.ev.n = r.n
    BY <1>1, <1>2, <1>4, <1>5 DEF NoEvent
  <2> QED BY <1>2, <2>1, SpeechEchoes
<1>7. client'.ended /\ ~gone' => ingress'.producer = "END"
  <2> SUFFICES ASSUME client'.ended, ~gone' PROVE ingress'.producer = "END"
    OBVIOUS
  <2>1. \/ ingress'.producer = ingress.producer
        \/ ReceiveTerminal(r) /\ ingress.producer = "none"
    BY <1>1, <1>2 DEF ReceiveUnbound, ReceiveTerminal, ReceiveDiscarded, ReceiveRefused, ReceiveData,
       Ingresses
  <2>2. CASE client.ended
    BY <1>2, <2>1, <2>2 DEF Unbroken
  <2>3. CASE ~client.ended
    <3>1. r.kind = "END" /\ ~client.aborted
      BY <2>3 DEF Said
    <3>2. ReceiveTerminal(r) /\ ingress.producer # "ABORT"
      BY <1>1, <1>4, <3>1 DEF ReceiveDiscarded, ReceiveRefused, ReceiveData, Honest, RecordsHonest
    <3> QED BY <1>2, <3>1, <3>2 DEF ReceiveTerminal, Ingresses
  <2> QED BY <2>2, <2>3
<1>8. client'.told /\ ~client'.owes => reader'.ev.kind \in {"none", "ACK"}
  <2> SUFFICES ASSUME client'.told, ~client'.owes PROVE reader'.ev.kind \in {"none", "ACK"}
    OBVIOUS
  <2>1. r.kind = "ACK"
    BY DEF Said
  <2>2. ReceiveTerminal(r)
    BY <1>1, <2>1 DEF ReceiveDiscarded, ReceiveRefused, ReceiveData
  <2> QED BY <2>1, <2>2, EventTypes DEF ReceiveTerminal, Admit
<1>9. (phase' = "Retired" \/ actor'.pc \in Owning) /\ ~gone' => reader'.ev.kind = "none"
  <2>1. actor.pc \in Owning => phase \in {"Finalizing", "Retired"}
    BY DEF Honest, Fits, PhasesAt, Owning
  <2> QED BY <1>2, <1>4, <2>1 DEF NoEvent
<1>10. ~(phase' = "Retired" /\ ~gone')
  BY <1>4
<1>11. /\ client'.owes => client'.echo = state'.accepted
       /\ \A i \in DOMAIN down' : down'[i].kind = "ABORT" => down'[i].acc = state'.accepted
       /\ actor'.pc = "reply" => actor'.acked \/ gone'
       /\ ~ingress'.postEnd /\ actor'.pc # "open"
  BY <1>2, <1>3 DEF Said, Unbroken
<1> QED BY <1>3, <1>6, <1>7, <1>8, <1>9, <1>10, <1>11 DEF Unbroken

\* The producer's steps, and the reader's handling of what it sent.
LEMMA ProducerUnbroken ==
  ASSUME UploadInv, UploadAssumption, Honest, Unbroken, source \in Nat, Client, excuse' = "none"
  PROVE  Unbroken'
  BY ProducerSpeaks, ReadUnbroken, SpeechUnbroken DEF Spoken

\* Every step keeps an honest connection unbroken.
LEMMA NextUnbroken ==
  ASSUME UploadInv, UploadInv', UploadAssumption, Honest, Unbroken, source \in Nat, [Next]_vars,
         excuse' = "none"
  PROVE  Unbroken'
<1>1. CASE Client
  BY <1>1, ProducerUnbroken
<1>2. CASE ReaderEnqueues
  BY <1>2, ReaderUnbroken
<1>3. CASE Writer \/ HandshakeExpires
  BY <1>3, WriterUnbroken
<1>4. CASE Actor
  BY <1>4, ActorUnbroken
<1>5. CASE \/ \E c \in Cancellers : CancelTask(c) \/ CancelWithdrawn(c)
           \/ Disconnect \/ Expire \/ UNCHANGED vars
  BY <1>5, OutsideUnbroken
<1> QED BY <1>1, <1>2, <1>3, <1>4, <1>5 DEF Next

-----------------------------------------------------------------------------
(* An honest producer is served.                                           *)

\* The actor takes no excuse back.
LEMMA ActorExcuse ==
  ASSUME Actor
  PROVE  ExcuseStays /\ UNCHANGED source
<1>1. UNCHANGED source
  BY DEF Actor, actorFrame, clientVars, OpenSettles, CreditSettles, ActorTakes, TakeDeferred,
     TakeTerminal, TakeData, ActorIdles, HandleFault, HandleCancel, CancelRecords, HandleData,
     HandleEnd, HandleAbort, StageInterrupted, StageCompletes, CommitAccepted, SelectDaemonAbort,
     AbortSettles, ActorWaitsForAck, FinalAckSettles, FaultAckSettles, Promote, StageFinishes,
     Finalized, ReplySettles
<1>2. CASE HandleFault \/ HandleCancel
  <2>1. \/ Excuse(actor.ev.kind = "ABORT", "other")
        \/ Excuse(~registered /\ phase = "Active", "other")
    BY <1>2 DEF HandleFault, HandleCancel
  <2> QED BY <1>1, <2>1 DEF Excuse, ExcuseStays
<1>3. CASE ActorWaitsForAck
  <2>1. UNCHANGED excuse \/ Excuse(TRUE, "other")
    BY <1>3 DEF ActorWaitsForAck, AnswerAck, AnswerCrossedAbort, AnswerCancel, AnswerOther,
       CrossedAckSettles, HandshakeAbandoned
  <2> QED BY <1>1, <2>1 DEF Excuse, ExcuseStays
<1>4. ASSUME ~HandleFault, ~HandleCancel, ~ActorWaitsForAck
      PROVE  UNCHANGED excuse
  BY <1>4 DEF Actor, OpenSettles, CreditSettles, ActorTakes, TakeDeferred,
     TakeTerminal, TakeData, ActorIdles, CancelRecords, HandleData,
     HandleEnd, HandleAbort, StageInterrupted, StageCompletes, CommitAccepted, SelectDaemonAbort,
     AbortSettles, FinalAckSettles, FaultAckSettles, Promote, StageFinishes,
     Finalized, ReplySettles
<1> QED BY <1>1, <1>2, <1>3, <1>4 DEF ExcuseStays

LEMMA ClientOthers == Client => OthersStay
<1> SUFFICES ASSUME Client PROVE OthersStay
  OBVIOUS
<1>1. CASE ClientReads
  BY <1>1 DEF ClientReads, actorVars, historyVars, OthersStay, ExcuseStays
<1>2. ASSUME NEW r, Receive(r) PROVE UNCHANGED <<actor, owner>>
  BY <1>2 DEF Receive, actorVars
<1>3. CASE (\E n \in 1..Window : ClientSendsData(n)) \/ ClientEnds \/ ClientAcks
  BY <1>2, <1>3 DEF ClientSendsData, ClientEnds, ClientAcks, OthersStay, ExcuseStays
<1>4. CASE ClientAborts \/ ClientBreaksProtocol
  BY <1>2, <1>4 DEF ClientAborts, ClientBreaksProtocol, OthersStay, ExcuseStays, Excuse
<1> QED BY <1>1, <1>3, <1>4 DEF Client

\* A step is the actor's, or leaves the actor where it is.
LEMMA OtherSteps ==
  ASSUME Next
  PROVE  Actor \/ OthersStay
<1>1. CASE Client
  BY <1>1, ClientOthers
<1>2. CASE ReaderEnqueues
  BY <1>2 DEF ReaderEnqueues, actorVars, clientVars, OthersStay, ExcuseStays, Excuse
<1>3. CASE Writer \/ HandshakeExpires
  BY <1>3 DEF Writer, HandshakeExpires, WriterStarts, WriterDiscards, WriterSends, WriterFails,
     clientVars, historyVars, OthersStay, ExcuseStays, Excuse
<1>4. ASSUME NEW c \in Cancellers, CancelTask(c) \/ CancelWithdrawn(c) PROVE OthersStay
  BY <1>4 DEF CancelTask, CancelLooksUp, CancelAsks, CancelEnqueues, CancelDropped, CancelSettles,
     CancelWithdrawn, cancelFrame, actorVars, clientVars, OthersStay, ExcuseStays, Excuse
<1>5. CASE Disconnect \/ Expire
  BY <1>5 DEF Disconnect, Expire, actorVars, clientVars, historyVars, OthersStay, ExcuseStays
<1> QED BY <1>1, <1>2, <1>3, <1>4, <1>5 DEF Next

\* What holds of an upload whatever its producer does, and what holds while
\* nothing is excused.
Served ==
  /\ UploadInv /\ source \in Nat /\ Published
  /\ excuse = "none" => Honest /\ Unbroken

\* Every step keeps what holds of an honest upload.
LEMMA NextHonest ==
  ASSUME UploadInv, UploadInv', UploadAssumption, Honest, Published, source \in Nat, Next,
         excuse' = "none"
  PROVE  Honest'
<1>1. CASE Client
  BY <1>1, ProducerHonest
<1>2. CASE ReaderEnqueues
  BY <1>2, ReaderHonest
<1>3. CASE Writer
  <2>1. ~WriterFails
    BY DEF WriterFails, Excuse
  <2> QED BY <1>3, <2>1, StartHonest, DiscardHonest, SendHonest DEF Writer
<1>4. CASE HandshakeExpires
  BY <1>4 DEF HandshakeExpires, Excuse
<1>5. CASE Actor
  BY <1>5, ActorHonest
<1>6. ASSUME NEW c \in Cancellers, CancelTask(c) \/ CancelWithdrawn(c) PROVE Honest'
  BY <1>6, AskingHonest, AsksHonest, EnqueuesHonest, WithdrawnHonest DEF CancelTask
<1>7. CASE Disconnect \/ Expire
  BY <1>7, DisconnectHonest
<1> QED BY <1>1, <1>2, <1>3, <1>4, <1>5, <1>6, <1>7 DEF Next

\* So does a stuttering step.
LEMMA StillHonest ==
  ASSUME UploadInv, UploadAssumption, Honest, UNCHANGED vars
  PROVE  Honest'
<1>1. Wired /\ Acting /\ TicketsStay /\ UNCHANGED <<phase, gone>>
  BY DEF vars, ingressVars, laneVars, actorVars, cancelVars, clientVars, historyVars, Wired, Acting,
     TicketsStay
<1> QED BY <1>1, EndOfConnection

\* The invariant is inductive.
LEMMA ServedStays == Served /\ UploadAssumption /\ [Next]_vars => Served'
<1> SUFFICES ASSUME Served, UploadAssumption, [Next]_vars PROVE Served'
  OBVIOUS
<1>1. UploadInv /\ UploadInv'
  BY NextPreserves DEF Served
<1>2. CASE Next
  <2>1. ExcuseStays /\ source' = source
    BY <1>2, OtherSteps, ActorExcuse DEF OthersStay
  <2>2. Published'
    <3>1. CASE Actor
      BY <1>1, <3>1, ActorPublishes DEF Served
    <3>2. CASE OthersStay
      BY <3>2 DEF Served, OthersStay, Published
    <3> QED BY <1>2, <3>1, <3>2, OtherSteps
  <2>3. excuse' = "none" => Honest' /\ Unbroken'
    BY <1>1, <1>2, <2>1, NextHonest, NextUnbroken DEF Served, ExcuseStays
  <2> QED BY <1>1, <2>1, <2>2, <2>3 DEF Served
<1>3. CASE UNCHANGED vars
  <2>1. UNCHANGED <<source, excuse, actor, owner>>
    BY <1>3 DEF vars, actorVars, clientVars, historyVars
  <2>2. excuse' = "none" => Honest' /\ Unbroken'
    BY <1>1, <1>3, <2>1, StillHonest, NextUnbroken DEF Served
  <2> QED BY <1>1, <2>1, <2>2 DEF Served, Published
<1> QED BY <1>2, <1>3

\* It holds of an upload just admitted.
LEMMA InitServed == Init /\ UploadAssumption => Served
<1> SUFFICES ASSUME Init, UploadAssumption PROVE Served
  OBVIOUS
<1>1. UploadInv
  BY InitHolds
<1>2. /\ phase = "Opening" /\ gone = FALSE /\ actor = Idle
      /\ ingress = [accepted |-> 0, served |-> 0, received |-> 0, refused |-> FALSE,
                    producer |-> "none", postEnd |-> FALSE, openFatal |-> FALSE]
      /\ order = [next |-> 0, serving |-> 0, cancelled |-> {}]
      /\ data = <<>> /\ term = <<>> /\ deferred = NoEvent /\ processing = "none"
      /\ reader = [ev |-> NoEvent, ticket |-> NoTicket]
      /\ state = [accepted |-> 0, credited |-> 0, through |-> 0, history |-> {}, staged |-> 0]
      /\ write = [kind |-> "OPEN", at |-> "queued", n |-> 0]
      /\ owner = [result |-> "none", selected |-> FALSE]
      /\ \A c \in Cancellers : cancels[c] = [at |-> "idle", ticket |-> NoTicket, late |-> FALSE]
      /\ client = [open |-> FALSE, granted |-> FALSE, accepted |-> 0, through |-> 0, sent |-> 0,
                   ended |-> FALSE, aborted |-> FALSE, told |-> FALSE, owes |-> FALSE, echo |-> 0,
                   acked |-> FALSE, replied |-> FALSE]
      /\ down = <<>> /\ faulted = "no"
  BY DEF Init, Ticketless
<1>3. actor.pc = "open" /\ actor.ev = NoEvent /\ actor.why = "none" /\ actor.crossed = FALSE
  BY <1>2 DEF Idle
<1>4. source \in Nat
  BY DEF Init, UploadAssumption
<1>5. Published
  BY <1>3 DEF Published
<1>6. /\ Admitting = {} /\ ~CreditOut /\ Grants = {} /\ Waiting = {NoEvent}
      /\ \A k : ~InDown(k)
  BY <1>2 DEF Admitting, CreditOut, Grants, Waiting, InDown
<1>7. Fits /\ CreditsSeen
  BY <1>2, <1>3 DEF Fits, Writing, PhasesAt, CreditsSeen, NoEvent
<1>8. CreditsKept
  BY <1>2, <1>6 DEF CreditsKept
<1>9. RecordsHonest
  BY <1>2, <1>3, <1>6 DEF RecordsHonest, RecordOk, Datum, NoEvent
<1>10. InRank
  BY <1>2, <1>3, <1>6 DEF InRank, Rank, NoEvent
<1>11. InStep
  BY <1>2, <1>3 DEF InStep, Chained, Holding, HandEnd, LaneEnd, NoEvent
<1>12. Oversized /\ Blameless
  BY <1>2, <1>3, <1>6 DEF Oversized, Blameless, NoEvent
<1>13. Handshakes /\ Replies
  BY <1>2, <1>3, <1>6 DEF Handshakes, Replies, AwaitsAck, Over
<1>14. Ticketed
  BY <1>2 DEF Ticketed, NoTicket, NoEvent
<1>15. Unbroken
  BY <1>2, <1>3, <1>6 DEF Unbroken, Echoes, NeverOpened, Owning, NoEvent
<1> QED BY <1>1, <1>4, <1>5, <1>7, <1>8, <1>9, <1>10, <1>11, <1>12, <1>13, <1>14, <1>15 DEF Served, Honest

\* An honest producer is served. Unless something HonestProducerServed excuses has
\* happened (the producer broke the protocol, a bound of the handshake ran out, a
\* write failed, a cancel was withdrawn or refused in the actor's hand, a record
\* crossed the clock, an ABORT came before the first CREDIT), its upload is not
\* refused as malformed, none of its records closes the connection but an ABORT
\* behind its own END, and once the reply is read no ABORT is unanswered on either
\* side. This is what ProtocolV2Peer::route_bound, the writer's hooks and
\* run_file_share promise together, for any declared size, window, source, lane
\* capacities and number of transfer.cancel tasks.
THEOREM HonestProducersAreServed == Spec => []HonestProducerServed
<1>1. Init => Served
  BY InitServed, UploadAssumption
<1>2. Served /\ [Next]_vars => Served'
  BY ServedStays, UploadAssumption
<1>3. Served => HonestProducerServed
  <2> SUFFICES ASSUME Served, excuse = "none"
               PROVE  /\ ~Refused
                      /\ client.replied => ~client.owes /\ (client.aborted /\ ~client.ended => client.acked)
    BY DEF HonestProducerServed
  <2>1. Blameless /\ Replies /\ faulted # "record"
    BY DEF Served, Honest, Unbroken
  <2>2. client.replied => Over /\ ~InDown("ACK")
    BY <2>1 DEF Replies, InDown
  <2> QED BY <2>1, <2>2 DEF Refused, Blameless, Over, AwaitsAck
<1> QED BY <1>1, <1>2, <1>3, PTL DEF Spec
=============================================================================
