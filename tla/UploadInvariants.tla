--------------------------- MODULE UploadInvariants ---------------------------
(***************************************************************************)
(* The invariants behind the theorems of UploadProofs: UploadInv, which    *)
(* holds of every upload, and Honest, which holds of the upload of an      *)
(* honest producer while nothing has to be excused.                        *)
(***************************************************************************)
EXTENDS Upload

-----------------------------------------------------------------------------
(* The inductive invariant                                                 *)

RecordKinds == {"BAD", "DATA", "END", "ABORT", "ACK", "OVERSIZE", "NOCREDIT"}
Records     == [kind : RecordKinds, off : Nat, n : Nat]
Received    == [kind : RecordKinds, off : Nat, n : Nat, credit : Nat, late : BOOLEAN]
Asked       == [kind : {"CANCEL"}, from : Cancellers, late : BOOLEAN]
Events      == Received \cup Asked
Whys        == {"none", "timeout", "protocol", "oversize", "cancelled", "sink"}
Messages    == {"OPEN", "CREDIT", "ABORT", "ACK", "FINALACK", "REPLY"}

\* Before the terminal is selected, and once END owns the result.
Running == {"open", "credit", "next", "handle", "stage", "commit", "fail"}
Owning  == {"finish", "finalize", "publish", "unfinished"}
Ending  == {"record", "abort", "waitack", "answer", "cross", "ack", "faultack", "promote",
            "reply", "done"}

Actors == [pc : Running \cup Owning \cup Ending, ev : Events \cup {NoEvent},
           why : Whys, yield : {"none", "any", "preemptive"},
           asker : Cancellers \cup {"none"}, acked : BOOLEAN, crossed : BOOLEAN]
States == [accepted : Nat, credited : Nat, through : Nat,
           history : SUBSET (Nat \X Nat), staged : Nat]
Writes == {NoWrite} \cup
          [kind : Messages, at : {"queued", "started", "sent", "unsent", "deadline"}, n : Nat]
Downs  == [kind : Messages \ {"FINALACK"}, acc : Nat, n : Nat]
Owners == [result : {"none", "ok", "malformed", "aborted", "lost"} \cup Whys,
           selected : BOOLEAN]
Ingresses == [accepted : Nat, served : Nat, received : Nat, refused : BOOLEAN,
              producer : {"none", "END", "ABORT"}, postEnd : BOOLEAN, openFatal : BOOLEAN]
Clients == [open : BOOLEAN, granted : BOOLEAN, accepted : Nat, through : Nat, sent : Nat,
            ended : BOOLEAN, aborted : BOOLEAN, told : BOOLEAN, owes : BOOLEAN,
            echo : Nat, acked : BOOLEAN, replied : BOOLEAN]

\* Every cancel task has a place, a ticket and a judgement of its lateness.
CancelShape ==
  /\ cancels = [c \in Cancellers |-> [at |-> cancels[c].at, ticket |-> cancels[c].ticket,
                                      late |-> cancels[c].late]]
  /\ \A c \in Cancellers : cancels[c].late \in BOOLEAN

\* The types of what the connection and its client keep.
WireTypes ==
  /\ phase \in Phases /\ gone \in BOOLEAN /\ expired \in BOOLEAN /\ registered \in BOOLEAN
  /\ ingress \in Ingresses
  /\ down \in Seq(Downs)
  /\ client \in Clients /\ CancelShape

\* The types of the lanes, of the actor and of what it alone writes.
ActorTypes ==
  /\ reader.ev \in Events \cup {NoEvent}
  /\ data \in Seq(Events) /\ term \in Seq(Events)
  /\ deferred \in Events \cup {NoEvent}
  /\ actor \in Actors /\ state \in States /\ write \in Writes /\ owner \in Owners

\* The phase bounds where the actor can be, and OPEN comes before the rest.
PhasesAgree ==
  /\ phase = "Opening" => /\ actor.pc = "open" /\ write.kind = "OPEN"
                          /\ write.at \notin {"started", "sent"}
                          /\ down = <<>> /\ ~client.open
                          /\ \A c \in Cancellers : cancels[c].at = "idle"
  /\ phase = "Active" => actor.pc \in Running
  /\ phase = "Finalizing" => actor.pc \in Owning
  /\ owner.result # "none" => actor.pc \in {"reply", "publish", "unfinished", "done"}

\* A DATA record waits behind what is staged, inside what was admitted.
Waits(e) == state.staged <= e.off /\ e.off + e.n <= ingress.received

\* Where the DATA records are, in the order of their offsets: at the actor,
\* in the lane, at the reader.
InHand == actor.ev.kind = "DATA" /\ actor.pc \in {"handle", "answer", "stage"}

DataInOrder ==
  /\ ingress.received <= Declared
  /\ state.accepted <= state.staged /\ state.staged <= ingress.received
  /\ \A i \in DOMAIN data : data[i].kind = "DATA" /\ Waits(data[i])
  /\ \A i, j \in DOMAIN data : i < j => data[i].off + data[i].n <= data[j].off
  /\ reader.ev.kind = "DATA" =>
       Waits(reader.ev) /\ \A i \in DOMAIN data : data[i].off + data[i].n <= reader.ev.off
  /\ InHand =>
       /\ Waits(actor.ev)
       /\ \A i \in DOMAIN data : actor.ev.off + actor.ev.n <= data[i].off
       /\ reader.ev.kind = "DATA" => actor.ev.off + actor.ev.n <= reader.ev.off
  /\ actor.pc = "stage" => actor.ev.kind = "DATA" /\ actor.ev.off = state.accepted
  /\ actor.pc = "commit" => actor.ev.kind = "DATA" /\ actor.ev.off + actor.ev.n = state.staged

\* An END on its way is the producer's own terminal, and no DATA is ever among
\* the terminals.
EndsOwned ==
  /\ \A i \in DOMAIN term : term[i].kind # "DATA"
  /\ deferred.kind # "DATA"
  /\ (\/ reader.ev.kind = "END" \/ deferred.kind = "END" \/ actor.ev.kind = "END"
      \/ \E i \in DOMAIN term : term[i].kind = "END") => ingress.producer = "END"

\* What FinalizedIsWhole says of a finalized upload.
Whole ==
  /\ state.staged = Declared /\ state.accepted = Declared
  /\ ingress.producer = "END" /\ ~owner.selected

OwnersWhole ==
  /\ actor.pc \in Owning => Whole
  /\ owner.result = "ok" => Whole /\ actor.pc \in {"publish", "done"}

\* A recorded cancellation is final, and is recorded once.
SelectionFinal ==
  /\ owner.selected => phase \notin {"Opening", "Active"} /\ actor.pc # "record"
  /\ owner.selected /\ owner.result # "none" => owner.result = "cancelled"
  /\ actor.pc = "fail" /\ actor.why = "cancelled" =>
       owner.selected /\ \A c \in Cancellers : cancels[c].at # "cancelled"

\* What a cancel was told, or is about to be told.
AnswersBacked ==
  /\ phase = "Active" => gone \/ registered \/ TimedOut
  /\ \A c \in Cancellers :
       /\ cancels[c].at = "refused" => gone \/ phase # "Active" \/ TimedOut
       /\ cancels[c].at \in {"cancelled", "already"} => owner.selected
  /\ \A c, d \in Cancellers :
       cancels[c].at = "cancelled" /\ cancels[d].at = "cancelled" => c = d

UploadInv ==
  /\ WireTypes /\ ActorTypes /\ PhasesAgree /\ DataInOrder /\ EndsOwned
  /\ OwnersWhole /\ SelectionFinal /\ AnswersBacked

-----------------------------------------------------------------------------
(* Where the actor, the phase and the writer can be together, whatever the *)
(* producer sends.                                                         *)

\* The message the writer has while the actor is at a place.
Writing(pc) ==
  CASE pc = "open"   -> "OPEN"
    [] pc = "credit" -> "CREDIT"
    [] pc = "abort"  -> "ABORT"
    [] pc = "ack"    -> "FINALACK"
    [] pc \in {"cross", "faultack"} -> "ACK"
    [] pc \in {"reply", "publish", "unfinished"} -> "REPLY"
    [] OTHER -> "none"

\* The phases the upload can be in while the actor is at a place.
PhasesAt(pc) ==
  CASE pc = "open"   -> {"Opening", "Active", "Retired"}
    [] pc \in {"credit", "next", "handle", "stage", "commit"} -> {"Active", "Retired"}
    [] pc = "fail"   -> {"Active", "DaemonAbortQueued", "Retired"}
    [] pc = "record" -> {"DaemonAbortQueued", "Retired"}
    [] pc = "abort"  -> {"DaemonAbortQueued", "DaemonAbortWaitAck", "AckPending", "Retired"}
    [] pc \in {"waitack", "answer", "cross"} -> {"DaemonAbortWaitAck", "AckPending", "Retired"}
    [] pc \in {"ack", "faultack", "promote"} ->
         {"ClientAbortPending", "ClientAbortAckCommitted", "ClientAbortAckSent", "Retired"}
    [] pc \in {"finish", "finalize"} -> {"Finalizing"}
    [] pc \in {"publish", "unfinished"} -> {"Finalizing", "Retired"}
    [] OTHER -> {"Retired"}

\* The actor, the writer and the phase agree, and a record is held only where
\* one is handled.
Fits ==
  /\ write.kind = Writing(actor.pc)
  /\ phase \in PhasesAt(actor.pc)
  /\ phase = "DaemonAbortQueued" /\ actor.pc = "abort" => write.at \in {"queued", "unsent"}
  /\ actor.pc = "abort" /\ write.at = "queued" => phase \in {"DaemonAbortQueued", "Retired"}
  /\ actor.ev.kind # "none" => actor.pc \in {"handle", "answer", "stage", "commit"}
  /\ actor.pc \in {"handle", "answer"} => actor.ev.kind # "none"
  /\ actor.pc = "commit" => actor.ev.off = state.accepted
  /\ ingress.accepted = state.accepted

-----------------------------------------------------------------------------
(* An honest producer.                                                     *)

\* The credit sent when a bytes are accepted: one byte more than declared at
\* the end, so that a larger upload is seen to be one.
CreditAt(a) == IF a = Declared THEN Declared + 1 ELSE Lesser(a + Window, Declared)

\* A CREDIT is on the wire, or may be, and the actor has not settled it.
CreditOut == write.kind = "CREDIT" /\ write.at \in {"started", "sent"}

\* The credits an ABORT may echo: those of the history, and the one that is
\* out.
Grants == state.history \cup (IF CreditOut THEN {<<state.accepted, write.n>>} ELSE {})

\* A credit of n accepted bytes allowed everything the producer sent.
Echoed(n) == \E h \in Grants : h[1] = n /\ client.sent <= h[2]

InDown(k) == \E i \in DOMAIN down : down[i].kind = k

\* The producer goes by a credit it was sent, and stays within it. The credits
\* on the wire come in order.
CreditsSeen ==
  /\ ~client.granted => /\ client.accepted = 0 /\ client.sent = 0
                        /\ ~client.aborted /\ ~client.ended
  /\ client.granted => /\ <<client.accepted, client.through>> \in Grants
                       /\ client.sent <= client.through
  /\ \A i \in DOMAIN down : down[i].kind = "CREDIT" =>
       /\ <<down[i].acc, down[i].n>> \in Grants
       /\ client.accepted <= down[i].acc
       /\ \A j \in DOMAIN down : i < j /\ down[j].kind = "CREDIT" => down[i].acc <= down[j].acc
  /\ client.ended => client.accepted = client.sent

\* The daemon granted what it says it granted: the history, the credit
\* it enforces and the message at the writer agree.
CreditsKept ==
  /\ \A h \in state.history : h[2] = CreditAt(h[1]) /\ h[1] <= state.credited
  /\ state.credited <= state.accepted
  /\ \/ state.through = CreditAt(state.credited)
     \/ state.through = 0 /\ state.credited = 0 /\ state.history = {}
  /\ write.kind = "CREDIT" => write.n = CreditAt(state.accepted)
  /\ ingress.served = IF CreditOut THEN write.n ELSE state.through

\* The records the reader has admitted.
Waiting == {reader.ev} \cup {term[i] : i \in DOMAIN term}

\* The daemon has an ABORT that the producer has to answer.
AwaitsAck == client.owes \/ InDown("ABORT")

\* The order in which an honest producer ends: END, then ABORT, then ACK.
Rank(e) == CASE e.kind \in {"OVERSIZE", "END"} -> 1 [] e.kind = "ABORT" -> 2
             [] e.kind = "ACK" -> 3 [] OTHER -> 0

\* A DATA record is not empty, and lies within the credit it was read under.
Datum(e) == e.kind = "DATA" => e.n >= 1 /\ e.off + e.n <= e.credit /\ e.credit <= ingress.served

\* What is true of a record that waits, or that the actor holds.
RecordOk(e) ==
  /\ e.kind \in {"none", "CANCEL", "DATA", "END", "ABORT", "ACK", "OVERSIZE"}
  /\ e.kind = "END" => client.ended /\ e.n = client.sent
  /\ e.kind = "ABORT" => client.aborted /\ Echoed(e.n)
  /\ e.kind = "ACK" => /\ client.told /\ ~AwaitsAck /\ phase \in {"AckPending", "Retired"}
                       /\ actor.pc \in {"abort", "waitack", "answer", "cross", "reply", "done"}
  /\ e.kind = "OVERSIZE" => client.sent > Declared /\ state.accepted = Declared

\* Every record was sent by an honest producer, and the reader's memory of
\* its terminal agrees with what it did.
RecordsHonest ==
  /\ deferred = NoEvent
  /\ \A e \in Waiting \cup {actor.ev} : RecordOk(e) /\ Datum(e)
  /\ \A i \in DOMAIN data : Datum(data[i])
  /\ reader.ev.kind # "CANCEL"
  /\ reader.ev.kind = "DATA" => ~client.aborted /\ ~client.ended
  /\ reader.ev.kind = "END" => ~client.aborted
  /\ ingress.producer = "END" => client.ended
  /\ ingress.producer = "ABORT" => client.aborted
  /\ processing \in {"none", "plain", "preemptive"}
  /\ processing = "plain" => client.ended \/ phase \notin {"Opening", "Active"}
  /\ ingress.received <= client.sent

\* The terminals wait in the order in which they were sent.
InRank ==
  /\ \A i, j \in DOMAIN term : i < j /\ Rank(term[j]) # 0 => Rank(term[i]) < Rank(term[j])
  /\ Rank(reader.ev) # 0 => \A i \in DOMAIN term : Rank(term[i]) < Rank(reader.ev)
  /\ \A e \in Waiting : Rank(e) # 0 => Rank(actor.ev) < Rank(e)

\* The upload is not active, or is about to stop being so: DATA may be dropped.
Doomed == phase \notin {"Opening", "Active"} \/ PreemptivePending

\* The actor has a DATA record in hand.
Holding == actor.pc \in {"handle", "stage", "commit"} /\ actor.ev.kind = "DATA"

\* Where the bytes accepted or in hand end.
HandEnd == IF Holding THEN actor.ev.off + actor.ev.n ELSE state.accepted

\* Where the bytes of the data lane end.
LaneEnd == IF data = <<>> THEN HandEnd ELSE data[Len(data)].off + data[Len(data)].n

\* Each DATA record starts where the one before it ends, from the bytes accepted
\* to the bytes received.
Chained ==
  /\ Holding => actor.ev.off = state.accepted
  /\ \A i \in DOMAIN data :
       data[i].off = IF i = 1 THEN HandEnd ELSE data[i - 1].off + data[i - 1].n
  /\ reader.ev.kind = "DATA" => reader.ev.off = LaneEnd
  /\ ~gone => ingress.received =
                IF reader.ev.kind = "DATA" THEN reader.ev.off + reader.ev.n ELSE LaneEnd

\* The offsets follow each other unless the upload is doomed or has failed, an
\* interrupt that doomed it keeps its flag until its failure is recorded, and a
\* failure that yields to nothing has a reason to.
InStep ==
  /\ ingress.refused => Doomed
  /\ client.sent # ingress.received => Doomed
  /\ Chained \/ Doomed \/ actor.pc = "fail"
  /\ actor.pc = "handle" /\ IsPreemptive(actor.ev) => processing = "preemptive"
  /\ processing = "preemptive" /\ phase = "Active" =>
       \/ actor.pc = "handle" /\ IsPreemptive(actor.ev)
       \/ actor.pc = "fail" /\ actor.yield = "none"
  /\ actor.pc = "fail" /\ actor.yield = "none" /\ phase = "Active" /\ ~PreemptivePending =>
       client.ended \/ state.accepted < ingress.received
  /\ actor.pc = "credit" /\ write.at = "unsent" => TerminalPending \/ Closed

\* A record over the declared size is the first terminal and comes alone, so
\* that no DATA behind it is handled.
Oversized ==
  /\ reader.ev.kind = "OVERSIZE" =>
       term = <<>> /\ \A c \in Cancellers : cancels[c].ticket # NoTicket => reader.ticket < cancels[c].ticket
  /\ \A i \in DOMAIN term : term[i].kind = "OVERSIZE" => i = 1
  /\ actor.pc = "answer" => actor.ev.kind # "OVERSIZE"
  /\ (\E e \in Waiting : e.kind = "OVERSIZE") =>
       /\ actor.pc \in Running \cup {"done"}
       /\ phase \in {"Active", "Retired"}
       /\ phase = "Active" => /\ processing # "preemptive"
                              /\ actor.pc = "fail" => actor.yield # "none"

\* A reply is queued only after its result is published, and a failure has a
\* reason.
Published ==
  /\ actor.pc \in {"fail", "abort", "waitack", "answer", "cross"} => actor.why # "none"
  /\ actor.pc \in {"reply", "publish", "unfinished", "done"} => owner.result # "none"

\* No protocol fault is selected or published, and a failure that says
\* protocol is one that an interrupt on its way will preempt.
Blameless ==
  /\ owner.result # "malformed"
  /\ actor.pc \in {"abort", "waitack", "answer", "cross"} => actor.why # "protocol"
  /\ actor.pc = "fail" /\ actor.why = "protocol" =>
       phase = "Retired" \/ (phase = "Active" /\ actor.yield = "preemptive" /\ PreemptivePending)
  /\ actor.pc \notin {"faultack", "promote"} /\ phase # "ClientAbortAckSent"

\* The handshake is over: no ABORT is unanswered on either side.
Over ==
  /\ ~AwaitsAck
  /\ client.aborted /\ ~client.ended => client.acked \/ InDown("ACK")

\* One ABORT crosses the wire in each direction, the phase says which is
\* unanswered, and an ABORT that was sent is on its way, in hand or answered.
Handshakes ==
  /\ \A i, j \in DOMAIN down : down[i].kind = "ABORT" /\ down[j].kind = "ABORT" => i = j
  /\ InDown("ABORT") => ~client.told
  /\ client.owes \/ phase = "AckPending" => client.told
  /\ AwaitsAck /\ ~gone => phase = "DaemonAbortWaitAck"
  /\ phase \notin {"DaemonAbortWaitAck", "AckPending", "Retired"} => ~client.told /\ ~InDown("ABORT")
  /\ actor.pc = "open" => /\ ~client.granted /\ ~client.told /\ ~client.aborted
                          /\ ~InDown("ABORT") /\ ~InDown("CREDIT") /\ processing = "none"
  /\ actor.pc = "ack" =>
       /\ client.aborted /\ ~client.told /\ ~InDown("ABORT") /\ reader.ev = NoEvent
       /\ \A i \in DOMAIN term : term[i].kind = "CANCEL"
  /\ actor.pc \in {"ack", "cross"} /\ write.at \in {"started", "sent"} => client.acked \/ InDown("ACK")
  /\ actor.pc = "cross" /\ write.at = "unsent" => gone
  /\ actor.pc = "cross" \/ actor.crossed =>
       client.aborted /\ \A e \in Waiting \cup {actor.ev} : e.kind # "ABORT"
  /\ client.aborted /\ ~client.ended /\ ~gone =>
       \/ \E e \in Waiting \cup {actor.ev} : e.kind = "ABORT"
       \/ actor.pc \in {"ack", "cross", "done"} \/ client.acked \/ InDown("ACK")
  /\ phase = "Retired" /\ ~gone => actor.pc \in {"reply", "publish", "unfinished", "ack", "done"}

\* The reply is the last message, and comes after the handshake.
Replies ==
  /\ actor.pc \in {"reply", "publish", "unfinished"} /\ ~gone => Over
  /\ \A i \in DOMAIN down : down[i].kind = "REPLY" =>
       /\ i = Len(down) /\ (~gone => Over)
  /\ client.replied => Over /\ down = <<>>
  /\ client.replied \/ InDown("REPLY") =>
       \/ actor.pc = "done"
       \/ actor.pc \in {"reply", "publish", "unfinished"} /\ write.at \in {"started", "sent", "unsent"}

\* Tickets of the arrival order are unique, and a record has one while the
\* reader holds it.
Ticketed ==
  /\ order \in [next : Nat, serving : Nat, cancelled : {{}}] /\ order.serving <= order.next
  /\ reader.ticket \in Nat \cup {NoTicket}
  /\ \A c \in Cancellers : cancels[c].ticket \in Nat \cup {NoTicket}
  /\ \A c \in Cancellers : cancels[c].at = "lane" => cancels[c].ticket # NoTicket
  /\ reader.ticket = NoTicket <=> reader.ev.kind \in {"none", "DATA"}
  /\ reader.ticket # NoTicket => order.serving <= reader.ticket /\ reader.ticket < order.next
  /\ \A c \in Cancellers : cancels[c].ticket # NoTicket =>
       /\ order.serving <= cancels[c].ticket /\ cancels[c].ticket < order.next
       /\ cancels[c].ticket # reader.ticket
       /\ \A d \in Cancellers \ {c} : cancels[d].ticket # cancels[c].ticket

\* What holds of an upload while nothing has to be excused.
Honest ==
  /\ Fits /\ CreditsSeen /\ CreditsKept /\ RecordsHonest /\ InRank /\ InStep /\ Oversized
  /\ Blameless /\ Handshakes /\ Replies /\ Ticketed

\* The client never saw the stream open, and no longer will.
NeverOpened ==
  ~client.open /\ ~client.granted /\ \A i \in DOMAIN down : down[i].kind = "REPLY"

\* What the two terminals of an honest producer echo: all that was accepted.
Echoes(e) ==
  /\ e.kind = "ABORT" /\ client.ended => e.n = client.sent
  /\ e.kind = "ACK" => e.n = state.accepted

\* No record of an honest producer closed the connection, nor will one, but for
\* an ABORT behind its own END: nothing else is with the reader, or is still to
\* come, when END owns the result or the stream is retired, and the ACK that the
\* actor waits for names the bytes it accepted.
Unbroken ==
  /\ faulted # "record" /\ ~ingress.postEnd
  /\ \A e \in Waiting \cup {actor.ev} : Echoes(e)
  /\ client.owes => client.echo = state.accepted
  /\ \A i \in DOMAIN down : down[i].kind = "ABORT" => down[i].acc = state.accepted
  /\ actor.pc = "reply" => actor.acked \/ gone
  /\ actor.pc = "open" /\ write.at \notin {"started", "sent"} => NeverOpened
  /\ phase = "Retired" /\ ~gone => Stopped \/ NeverOpened
  /\ client.ended /\ ~gone => ingress.producer = "END"
  /\ client.told /\ ~client.owes => reader.ev.kind \in {"none", "ACK"}
  /\ (phase = "Retired" \/ actor.pc \in Owning) /\ ~gone =>
       reader.ev.kind = "none" \/ (reader.ev.kind = "ABORT" /\ client.ended)

-----------------------------------------------------------------------------
(* What the steps do, as the proofs of UploadProofs describe them: a step  *)
(* of Upload is shown to be one of these, and these to keep the invariants.*)

\* The phase and the connection do not go back.
PhaseMoves ==
  /\ phase' \in Phases /\ gone' \in BOOLEAN /\ expired' \in BOOLEAN
  /\ gone => gone'
  /\ phase' # phase => phase' \notin {"Opening", "Active", "Finalizing"}

\* Lanes are emptied or kept, but for the event of a cancel.
LaneMoves ==
  /\ data' = data \/ data' = <<>>
  /\ term' = term \/ term' = <<>> \/ \E e \in Asked : term' = Append(term, e)
  /\ deferred' = deferred \/ deferred' = NoEvent

\* The actor goes to a place that asks nothing of the event in its hand.
Calm == {"open", "credit", "next", "fail", "abort", "waitack", "cross", "ack", "faultack",
         "promote", "reply", "publish", "unfinished", "finalize", "done"}

\* The actor keeps what it holds, or goes on calmly.
ActorMoves ==
  /\ actor' \in Actors /\ write' \in Writes /\ owner' \in Owners
  /\ \/ /\ actor'.pc = actor.pc /\ actor'.ev = actor.ev /\ actor'.why = actor.why
        /\ actor'.yield = actor.yield
     \/ /\ actor'.pc \in Calm /\ actor'.ev \in {actor.ev, NoEvent}
        /\ TimedOut => phase' # "Active"
        /\ actor'.pc \in Owning => actor.pc \in Owning
        /\ actor'.pc = "fail" => actor'.why # "cancelled"
  /\ phase' = "Opening" => /\ actor'.pc = "open" /\ write'.kind = "OPEN"
                           /\ write'.at \notin {"started", "sent"}
  /\ phase' = "Active" => actor'.pc \in Running
  /\ phase' = "Finalizing" => actor'.pc \in Owning

\* A result is published with its reply, and a cancellation overrides it.
ResultMoves ==
  /\ owner'.selected = owner.selected
  /\ \/ owner'.result = owner.result
     \/ owner.selected /\ owner'.result = "cancelled"
     \/ ~owner.selected /\ owner'.result # "ok"
  /\ owner'.result # "none" => actor'.pc \in {"reply", "publish", "unfinished", "done"}
  /\ owner'.result = "ok" => actor'.pc \in {"publish", "done"}

\* A cancel is told, and an upload leaves the registry, for a reason.
CancelMoves ==
  /\ CancelShape'
  /\ \A c \in Cancellers : cancels'[c].at = cancels[c].at \/
       /\ phase' # "Opening"
       /\ cancels'[c].at # "cancelled"
       /\ cancels'[c].at = "refused" => gone' \/ phase' # "Active" \/ TimedOut'
       /\ cancels'[c].at = "already" => owner'.selected
  /\ registered' \in BOOLEAN
  /\ registered' = registered \/ gone' \/ phase' # "Active" \/ TimedOut'

\* A step that moves control, and neither bytes nor what the producer sent.
ControlMove ==
  /\ UNCHANGED <<ingress, client, down>> /\ reader'.ev = reader.ev
  /\ state' \in States /\ state'.accepted = state.accepted /\ state'.staged = state.staged
  /\ PhaseMoves /\ LaneMoves /\ ActorMoves /\ ResultMoves /\ CancelMoves

\* A cancel is at another place.
MovesTo(c, at) == cancels' = [cancels EXCEPT ![c].at = at]

\* What every step of the actor leaves alone but for its own variables.
Apart == UNCHANGED <<ingress, client, down, expired>> /\ reader' = reader

\* A cancel has a record of its own from here on.
IsCancel(e) == e = [at |-> e.at, ticket |-> e.ticket, late |-> e.late] /\ e.late \in BOOLEAN

\* The parts that speak of bytes and ENDs survive when neither is touched.
Untouched ==
  /\ UNCHANGED <<ingress, client, down, data, term, deferred, state, expired>>
  /\ reader' = reader /\ actor'.ev \in {actor.ev, NoEvent}
  /\ actor'.pc \notin {"handle", "answer", "stage", "commit"}

\* What a way out of route_bound may admit.
Admits(e) ==
  \/ e = NoEvent /\ UNCHANGED ingress.received
  \/ e.kind \notin {"DATA", "END"} /\ UNCHANGED ingress.received
  \/ e.kind = "END" /\ ingress'.producer = "END" /\ UNCHANGED ingress.received
  \/ /\ e.kind = "DATA" /\ e.off = ingress.received
     /\ ingress'.received = e.off + e.n /\ e.off + e.n <= Declared

\* Each way out: the phase and the connection, what the ingress keeps, and
\* the event that goes on.
Routed ==
  /\ phase' \in Phases /\ gone' \in BOOLEAN
  /\ phase' # phase => phase' \notin {"Opening", "Active", "Finalizing"}
  /\ ingress' \in Ingresses
  /\ ingress.producer = "END" => ingress'.producer = "END"
  /\ reader'.ev \in Events \cup {NoEvent} /\ Admits(reader'.ev)

\* A cancel is told "unknown" only as the ledger and the phase justify it.
ToldUnknownTrue ==
  \A c \in Cancellers : cancels'[c].at = "unknown" /\ cancels[c].at # "unknown"
                         => ~owner.selected' /\ (phase # "Active" \/ gone \/ TimedOut)

\* The lanes, and the flag of the terminal being handled.
Lanes == <<data, term, deferred, processing>>

\* The actor goes to a place, holding nothing.
Goes(pc) ==
  actor'.pc = pc /\ actor'.ev = NoEvent /\ actor'.why = actor.why /\ actor'.crossed = actor.crossed

\* The actor returned, and its connection with it.
Returned ==
  /\ actor'.pc = "done" /\ actor'.ev = NoEvent /\ actor'.crossed = FALSE /\ write' = NoWrite
  /\ phase' = "Retired" /\ (gone => gone')
  /\ data' = <<>> /\ term' = <<>> /\ deferred' = NoEvent /\ processing' = "none"

\* The actor has a failure to record.
Failed(why, yield) ==
  /\ actor'.pc = "fail" /\ actor'.ev = NoEvent /\ actor'.why = why /\ actor'.yield = yield
  /\ actor'.crossed = actor.crossed /\ write' = NoWrite

\* The actor is back at its select.
Looped ==
  /\ Goes("next") /\ write' = NoWrite /\ UNCHANGED <<phase, gone, owner, data, term, deferred>>
  /\ processing' = IF deferred = NoEvent THEN "none" ELSE processing

\* The writer is given a message.
Queued(kind, n) == write' = [kind |-> kind, at |-> "queued", n |-> n]

\* The actor is back at its select, or has a CREDIT to send first.
Turned(s) ==
  \/ Looped
  \/ /\ Goes("credit") /\ Queued("CREDIT", NextCredit(s))
     /\ UNCHANGED <<phase, gone, owner, data, term, deferred, processing>>

\* The published result is not a protocol fault.
Clean == owner'.result # "malformed"

\* The handshake is over: the reply is queued.
HandshakeOver ==
  /\ Goes("reply") /\ phase' = "Retired" /\ Clean /\ Queued("REPLY", 0)

\* The phase stays, retires, or leaves Active.
PhaseForward ==
  \/ phase' = phase \/ phase' = "Retired"
  \/ phase = "Active" /\ phase' \in {"DaemonAbortQueued", "ClientAbortPending", "Finalizing"}

\* The actor's hand is emptied, or takes the head of a lane.
LanesDrain ==
  /\ deferred' = NoEvent
  /\ \/ /\ actor'.ev \in {actor.ev, NoEvent} /\ processing' \in {processing, "none"}
        /\ term' = term \/ (term' = <<>> /\ actor'.pc \in {"done", "finalize"})
        /\ data' = data \/ (data' = <<>> /\ actor'.pc \in {"done", "finalize", "ack"})
     \/ /\ actor.pc \in {"next", "waitack"} /\ term # <<>>
        /\ actor'.pc = IF actor.pc = "next" THEN "handle" ELSE "answer"
        /\ actor'.ev = Head(term) /\ term' = Tail(term) /\ data' = data
        /\ processing' = IF IsPreemptive(Head(term)) THEN "preemptive" ELSE "plain"
     \/ /\ actor.pc \in {"next", "waitack"} /\ data # <<>> /\ term = <<>>
        /\ actor'.pc = IF actor.pc = "next" THEN "handle" ELSE "answer"
        /\ actor'.ev = Head(data) /\ data' = Tail(data) /\ term' = term
        /\ processing' = processing

\* What the reader counts.
IngressStays == UNCHANGED <<ingress.served, ingress.received, ingress.refused, ingress.producer>>

\* No step of the actor reopens an upload, a connection or a lane.
Forward == PhaseForward /\ (gone => gone') /\ LanesDrain /\ IngressStays

\* No transfer.cancel takes a ticket, gives one back or enters the lane.
TicketsStay ==
  \A c \in Cancellers : /\ cancels'[c].ticket = cancels[c].ticket
                        /\ cancels'[c].at = "lane" => cancels[c].at = "lane"

\* What a step does to the consumer's state and to the message at the writer.
StateMoves ==
  \/ state' = state
  \/ CreditOut /\ state' = Credited(state)
  \/ ~CreditOut /\ actor.ev.kind = "DATA" /\ actor.pc = "handle"
     /\ state' = [state EXCEPT !.history = {h \in @ : h[2] >= actor.ev.off + actor.ev.n}]
  \/ ~CreditOut /\ state' = [state EXCEPT !.staged = @ + actor.ev.n]
  \/ /\ ~CreditOut /\ actor.pc = "commit"
     /\ state' = [state EXCEPT !.accepted = actor.ev.off + actor.ev.n]

\* No step of the actor starts a write, and each of them settles a CREDIT.
CreditSettled ==
  /\ ~CreditOut'
  /\ write'.kind = "CREDIT" => write'.n = CreditAt(state'.accepted)
  /\ CreditOut => state' = Credited(state)

\* What a step of the actor of an honest upload keeps to.
ActorKept ==
  /\ UNCHANGED <<order, reader, client, down>>
  /\ Forward /\ StateMoves /\ CreditSettled
  /\ TicketsStay

\* The places after the daemon's ABORT was queued.
Replying == {"abort", "waitack", "answer", "cross", "reply", "done"}

\* Where the actor of an honest upload goes from each place.
Successors(pc) ==
  CASE pc = "open"     -> {"credit", "reply", "done"}
    [] pc = "credit"   -> {"next", "done", "fail"}
    [] pc = "next"     -> {"handle", "done", "fail"}
    [] pc = "handle"   -> {"fail", "record", "next", "credit", "stage", "finish", "ack", "done"}
    [] pc = "record"   -> {"fail"}
    [] pc = "stage"    -> {"commit", "next", "credit", "done", "fail"}
    [] pc = "commit"   -> {"next", "credit", "done", "fail"}
    [] pc = "fail"     -> {"next", "abort", "done"}
    [] pc = "abort"    -> {"waitack", "done"}
    [] pc = "waitack"  -> {"answer", "reply"}
    [] pc = "answer"   -> {"cross", "waitack", "reply"}
    [] pc = "cross"    -> {"waitack", "reply"}
    [] pc = "ack"      -> {"reply", "done"}
    [] pc = "finish"   -> {"finalize", "unfinished"}
    [] pc = "finalize" -> {"publish"}
    [] pc \in {"reply", "publish", "unfinished"} -> {"done"}
    [] OTHER           -> {}

\* A step of the actor of an honest upload.
Walk ==
  /\ actor'.pc \in Successors(actor.pc)
  /\ write'.at \in {"queued", "idle"}
  /\ actor'.crossed => actor.crossed \/ actor.pc = "cross"
  /\ actor'.pc \in {"abort", "waitack", "answer", "cross"} => actor'.why = actor.why
  /\ owner'.result # "malformed"

\* What the way was chosen by.
Reason ==
  /\ actor'.pc \in {"record", "finish", "ack"} => phase = "Active"
  /\ actor'.pc = "ack" => actor.ev.kind = "ABORT" /\ term' = term
  /\ actor'.pc = "abort" =>
       \/ phase = "DaemonAbortQueued"
       \/ /\ phase = "Active"
          /\ ~(actor.yield = "any" /\ TerminalPending)
          /\ ~(actor.yield = "preemptive" /\ PreemptivePending)
  /\ phase' = "Retired" => phase = "Retired" \/ actor'.pc \in {"reply", "done"}
  /\ actor.pc = "answer" /\ actor'.pc = "reply" => actor.ev.kind = "ACK"
  /\ actor.pc = "answer" /\ actor'.pc = "cross" => actor.ev.kind = "ABORT" /\ actor'.ev = NoEvent
  /\ actor.pc \in {"waitack", "cross"} /\ actor'.pc = "reply" => gone'
  /\ actor.pc \in {"cross", "ack"} /\ actor'.pc \in {"waitack", "reply"} =>
       write.at = "sent" \/ gone'
  /\ actor.pc \in {"abort", "ack"} /\ actor'.pc = "done" => gone' \/ phase = "Retired"
  /\ actor.ev.kind = "ABORT" => actor'.pc \in {"ack", "cross", "done"}

\* The failures that name the producer, or that nothing may preempt.
Blamed ==
  /\ actor'.why = "protocol" =>
       \/ /\ actor'.yield = "preemptive" /\ actor.pc = "handle" /\ actor.ev.kind = "DATA"
          /\ UNCHANGED <<phase, Lanes>>
          /\ ~(/\ actor.ev.off = state.accepted /\ actor.ev.off + actor.ev.n <= actor.ev.credit
               /\ actor.ev.credit <= state.through)
       \/ phase' = "Retired"
  /\ actor'.yield = "none" /\ phase' = "Active" =>
       /\ actor.pc = "handle" /\ phase = "Active" /\ UNCHANGED <<ingress, state, Lanes>>

\* What the actor of an active upload does while no terminal is on its way.
ActiveMove ==
  \/ /\ actor.pc \in {"open", "credit"} /\ actor'.pc \in {"credit", "next"}
     /\ UNCHANGED data /\ state'.accepted = state.accepted
  \/ /\ actor.pc = "next" /\ actor'.pc = "handle" /\ data # <<>>
     /\ actor'.ev = Head(data) /\ data' = Tail(data) /\ state' = state
  \/ /\ <<actor.pc, actor'.pc>> \in {<<"handle", "stage">>, <<"stage", "commit">>}
     /\ actor.ev.kind = "DATA" /\ actor'.ev = actor.ev
     /\ UNCHANGED data /\ state'.accepted = state.accepted
  \/ /\ actor.pc = "commit" /\ actor.ev.kind = "DATA" /\ actor'.pc \in {"next", "credit"}
     /\ UNCHANGED data /\ state'.accepted = actor.ev.off + actor.ev.n

\* What a step leaves alone when it is neither the producer's nor the reader's.
Wired == UNCHANGED <<ingress, order, reader, data, term, deferred, processing, client, down>>

\* What only the actor and the writer change.
Acting == UNCHANGED <<actor, state, write, owner>>

\* The reader is done with its record: it is in its lane, or it was dropped
\* with the connection.
Passed ==
  /\ reader' = [ev |-> NoEvent, ticket |-> NoTicket]
  /\ UNCHANGED <<phase, ingress, deferred, processing, client, down>> /\ Acting
  /\ gone => gone'
  /\ \/ term' = term
     \/ term' = Append(term, reader.ev) /\ reader.ev.kind \notin {"none", "DATA"}
  /\ reader.ev.kind \notin {"none", "DATA"} /\ term' = term => gone'

\* What the writer leaves alone.
WriterFrame ==
  /\ UNCHANGED <<gone, order, reader, data, term, deferred, processing, actor, state, owner, cancels,
                 client>>
  /\ UNCHANGED <<ingress.accepted, ingress.received, ingress.refused, ingress.producer>>
  /\ write'.kind = write.kind /\ write'.n = write.n

\* How a message written changes the phase.
PhaseWritten ==
  /\ \/ phase' = phase
     \/ phase = "Opening" /\ phase' = "Active"
     \/ phase \notin {"Opening", "Active", "AckPending", "Retired"} /\ phase' \notin {"Opening", "Active"}
  /\ phase' # "ClientAbortAckSent"

\* What the writer puts on the wire.
Written == [kind |-> IF write.kind = "FINALACK" THEN "ACK" ELSE write.kind,
            acc |-> state.accepted, n |-> write.n]

\* What the producer says of itself when it sends a record.
Said(k) ==
  /\ UNCHANGED <<client.granted, client.accepted, client.through, client.told, client.acked,
                 client.replied>>
  /\ k # "ACK" => client.granted /\ ~client.aborted /\ ~client.told
  /\ k \in {"DATA", "END"} => ~client.ended
  /\ client'.sent \in Nat /\ client.sent <= client'.sent
  /\ IF k = "DATA" THEN client'.sent <= client.through ELSE client'.sent = client.sent
  /\ client'.ended <=> (client.ended \/ k = "END")
  /\ k = "END" => client.accepted = client.sent
  /\ client'.aborted <=> (client.aborted \/ k = "ABORT")
  /\ k = "ABORT" => ~client.replied
  /\ client'.owes <=> (client.owes /\ k # "ACK")
  /\ k = "ACK" => client.owes

\* What the reader's handling of a record leaves alone.
Heard ==
  /\ UNCHANGED <<data, term, deferred, processing, cancels, down>> /\ Acting
  /\ UNCHANGED <<ingress.accepted, ingress.served>>
  /\ reader.ev = NoEvent /\ ~gone
  /\ phase' = phase \/ (phase = "DaemonAbortWaitAck" /\ phase' = "AckPending")
  /\ gone' <=> phase = "Retired"

\* What the reader's handling of a record must see to, so that the rest follows.
Routes(k) ==
  /\ RecordOk(reader.ev)' /\ Datum(reader.ev)' /\ reader'.ev.kind \notin {"CANCEL"}
  /\ reader'.ev.kind = "DATA" => ~client'.aborted /\ ~client'.ended
  /\ reader'.ev.kind = "END" => ~client'.aborted
  /\ ingress'.producer = "END" => client'.ended
  /\ ingress'.producer = "ABORT" => client'.aborted
  /\ ingress'.received \in Nat /\ ingress.received <= ingress'.received
  /\ ingress'.received <= client'.sent
  /\ Rank(reader'.ev) # 0 => /\ \A i \in DOMAIN term : Rank(term[i]) < Rank(reader'.ev)
                             /\ Rank(actor.ev) < Rank(reader'.ev)
  /\ ingress'.refused => Doomed'
  /\ client'.sent # ingress'.received => Doomed'
  /\ Chained' \/ Doomed' \/ actor.pc = "fail"
  /\ reader'.ev.kind = "OVERSIZE" =>
       /\ term = <<>> /\ \A c \in Cancellers : cancels[c].ticket = NoTicket
       /\ phase = "Active" /\ processing # "preemptive"
       /\ actor.pc = "fail" => actor.yield # "none"
  /\ reader'.ev.kind = "ABORT" => k = "ABORT"
  /\ k = "ABORT" => client'.ended \/ gone' \/ reader'.ev.kind = "ABORT"
  /\ phase' = "AckPending" => client.told /\ ~AwaitsAck'

\* What an honest producer sends.
Kinds == {"DATA", "END", "ABORT", "ACK"}

\* A record as an honest producer sends it.
Spoken(r) ==
  /\ r.kind \in Kinds /\ Said(r.kind) /\ Receive(r)
  /\ UNCHANGED <<down, client.open, client.echo>>
  /\ r.kind = "DATA" => r.n >= 1 /\ r.off = client.sent /\ client'.sent = client.sent + r.n
  /\ r.kind = "END" => r.n = client.sent
  /\ r.kind = "ABORT" => r.n = client.accepted
  /\ r.kind = "ACK" => r.n = client.echo

\* What a step of another thread than the actor and the client leaves alone.
Quiet ==
  /\ UNCHANGED <<actor, client, state, ingress.producer, ingress.postEnd>>
  /\ faulted' # "record" /\ (gone => gone')
  /\ reader'.ev \in {reader.ev, NoEvent}
  /\ \A i \in DOMAIN term' : term'[i] \in Waiting \/ term'[i].kind = "CANCEL"

\* What is excused stays excused.
ExcuseStays == excuse' = "none" => excuse = "none"

\* No other thread moves the actor or publishes its result.
OthersStay == ExcuseStays /\ UNCHANGED <<source, actor, owner>>
=============================================================================
