------------------------------- MODULE Upload -------------------------------
(***************************************************************************)
(* One streamed upload (file.share) as the daemon runs it, from the bound  *)
(* stream to the terminal reply: jeliyad/src/file_share.rs, with the       *)
(* stream registry and the closer of file_read.rs and the ledger owner of  *)
(* jeliya-core/src/engine.rs.                                              *)
(*                                                                         *)
(* Five kinds of thread share the ingress under its `sequencing` lock: the *)
(* connection's reader (Receive..., ReaderEnqueues), the sole writer       *)
(* (Writer...), the upload's actor (the actions on actor.pc), one task per *)
(* transfer.cancel (Cancel...), and teardown (Disconnect).  Each critical  *)
(* section is one step.                                                    *)
(*                                                                         *)
(* Abstractions.  A record sent by the client is one step with the reader  *)
(* receiving it: the delay of the wire is the delay of the client's next   *)
(* step, and `down` keeps the order of the other direction.  A payload is  *)
(* its length.  The absolute deadline and the stall timer, which take the  *)
(* same paths, are one clock that expires once (`expired`); the tie of an  *)
(* event received exactly at the deadline is left out.  The bounds of the  *)
(* ABORT/ACK handshake may run out at any time.  file_limit is at least    *)
(* Declared, and both size refusals are "oversize".                        *)
(***************************************************************************)
EXTENDS Integers, Sequences, FiniteSets

CONSTANTS
  Declared,      \* bytes the request declared
  Sources,       \* sizes the client's source may turn out to have
  Window,        \* max_data_payload_bytes: one CREDIT, and the largest DATA
  LaneCap,       \* records the DATA lane holds
  TermCap,       \* UPLOAD_TERMINAL_EVENT_SLOTS
  Cancellers,    \* tasks serving a transfer.cancel of this upload
  MaxRude,       \* bound: records that break the protocol
  MaxWithdrawn   \* bound: transfer.cancel tasks aborted by their own teardown

ASSUME UploadAssumption ==
  /\ Declared \in Nat /\ Window \in Nat \ {0}
  /\ LaneCap \in Nat \ {0} /\ TermCap \in Nat \ {0}
  /\ Sources \subseteq Nat /\ MaxRude \in Nat /\ MaxWithdrawn \in Nat

VARIABLES
  phase,       \* UploadPhase
  gone,        \* the connection was closed or lost: registry and writer invalidated
  expired,     \* the absolute deadline or the stall timer has passed
  ingress,     \* the rest of UploadIngress
  order,       \* TerminalOrderState: the tickets of terminal admissions
  data, term,  \* the two lanes of UploadEvents
  deferred,    \* an END held back until older DATA is handled
  processing,  \* processing_terminal and processing_preemptive
  reader,      \* the event the reader is enqueueing, and its ticket
  actor,       \* run_file_share: where it is and what it holds
  state,       \* ConsumerState, and the bytes the staging sink took
  write,       \* the actor's message at the writer
  owner,       \* FileShareLedgerOwner: result published, cancellation recorded
  registered,  \* the upload's entry in UploadCancellationRegistry
  cancels,     \* each transfer.cancel: where it is, its ticket, and whether it came too late
  client,      \* the producer: what it has seen and sent
  source,      \* bytes its source really has
  down,        \* messages written to the socket and not yet read by the client
  rude,        \* history: records that broke the protocol
  withdrawn,   \* history: cancels withdrawn
  excuse,      \* history: events that may legitimately end an honest upload badly
  faulted      \* history: the connection was closed over a record, and over which

ingressVars == <<phase, gone, ingress, order, reader>>
laneVars    == <<data, term, deferred, processing>>
actorVars   == <<actor, state, write, owner>>
cancelVars  == <<registered, cancels>>
clientVars  == <<client, source, down, rude>>
historyVars == <<withdrawn, excuse, faulted>>
vars == <<ingressVars, laneVars, actorVars, cancelVars, clientVars, historyVars, expired>>

Phases == {"Opening", "Active", "DaemonAbortQueued", "DaemonAbortWaitAck",
           "ClientAbortPending", "ClientAbortAckCommitted", "ClientAbortAckSent",
           "Finalizing", "AckPending", "Retired"}

NoEvent  == [kind |-> "none"]
NoTicket == -1

\* History: something that may end an honest upload badly has happened.  An
\* ABORT sent before the first CREDIT ("early") is told from the rest.
Excuse(happened, e) == excuse' = IF happened /\ excuse # "other" THEN e ELSE excuse

Lesser(a, b) == IF a < b THEN a ELSE b

----------------------------------------------------------------------------
(* What other threads read from the ingress.                               *)

Closed == gone \/ phase = "Retired"

\* The actor still owns the receivers of the two lanes.
Receiving == actor.pc \notin {"finalize", "publish", "done"}

IsPreemptive(e) == e.kind \in {"CANCEL", "ABORT", "OVERSIZE", "NOCREDIT"}

\* Events whose terminal ticket is held: admitted, not yet in the lane.
Admitting ==
  (IF reader.ticket # NoTicket THEN {reader.ev} ELSE {})
  \cup {[kind |-> "CANCEL", from |-> c] : c \in {d \in Cancellers : cancels[d].ticket # NoTicket}}

TerminalPending == Admitting # {} \/ term # <<>> \/ processing # "none"

PreemptivePending ==
  \/ \E e \in Admitting : IsPreemptive(e)
  \/ \E i \in DOMAIN term : IsPreemptive(term[i])
  \/ processing = "preemptive"

NonCancelPending ==
  \/ \E e \in Admitting : e.kind # "CANCEL"
  \/ \E i \in DOMAIN term : term[i].kind # "CANCEL"

\* DATA admitted and not yet handled: at the reader, in the lane, at the actor.
PendingData ==
  (IF reader.ev.kind = "DATA" THEN 1 ELSE 0) + Len(data)
  + (IF actor.ev.kind = "DATA" THEN 1 ELSE 0)

\* The tickets after `t` is finished or rolled back.
Finish(o, t) ==
  IF t = o.serving
  THEN LET waiting == {s \in (t + 1)..o.next : s \notin o.cancelled}
           next    == CHOOSE s \in waiting : \A u \in waiting : s <= u
       IN  [o EXCEPT !.serving = next, !.cancelled = {s \in o.cancelled : s > next}]
  ELSE [o EXCEPT !.cancelled = IF t > o.serving THEN @ \cup {t} ELSE @]

\* The phase after the connection is invalidated.
Invalidated == IF phase = "Finalizing" \/ TerminalPending THEN phase ELSE "Retired"

CloseConnection == gone' = TRUE /\ phase' = Invalidated

----------------------------------------------------------------------------
(* The reader: route_bound.                                                *)

Event(r) == [kind |-> r.kind, off |-> r.off, n |-> r.n,
             credit |-> IF r.kind = "DATA" THEN ingress.served ELSE 0, late |-> expired]

DirectionOk(k) ==
  CASE phase = "AckPending"         -> FALSE
    [] phase = "Finalizing"         -> k = "ABORT"
    [] phase = "DaemonAbortWaitAck" -> k \in {"DATA", "END", "ABORT", "ACK"}
    [] OTHER                        -> k \in {"DATA", "END", "ABORT"}

ValidLateAbort(r) == r.kind = "ABORT" /\ r.n = ingress.accepted

\* A record after the producer's own terminal.
Conflict(r) ==
  \/ ingress.producer = "END" /\ r.kind # "ACK" /\ ~ValidLateAbort(r)
  \/ ingress.producer = "ABORT" /\ r.kind # "ACK"

\* admit_received_data_locked: the refusal a DATA record meets, in order.
Refusal(r) ==
  IF r.off + r.n > Declared THEN "OVERSIZE"
  ELSE IF r.off # ingress.received \/ r.off + r.n > ingress.served THEN "NOCREDIT"
  ELSE "none"

\* begin_terminal_locked: the ticket is taken before the lane has room.
Admit(e) ==
  /\ reader' = [ev |-> e, ticket |-> order.next]
  /\ order' = [order EXCEPT !.next = @ + 1]
  /\ UNCHANGED <<gone, faulted>>

\* An ABORT that comes to nothing: the producer's own END owns the result.
LateAbort(r) == ingress.producer = "END" /\ ValidLateAbort(r)

\* CloseMalformed, and the closer the reader then calls.
RefuseAndClose(r) ==
  /\ CloseConnection
  /\ faulted' = IF phase = "Retired" /\ LateAbort(r) THEN "crossed" ELSE "record"
  /\ UNCHANGED <<reader, order>>

ReceiveTooEarly(r) ==
  /\ phase = "Opening"
  /\ RefuseAndClose(r)
  /\ ingress' = [ingress EXCEPT !.openFatal = TRUE]

\* The stream is no longer bound, whether or not its actor has returned.
ReceiveUnbound(r) ==
  /\ phase = "Retired"
  /\ RefuseAndClose(r)
  /\ UNCHANGED ingress

ReceiveMalformed(r) ==
  /\ phase \notin {"Opening", "Retired"} /\ ~DirectionOk(r.kind)
  /\ ingress' = [ingress EXCEPT !.postEnd = @ \/ ingress.producer = "END"]
  /\ IF phase = "Finalizing"
     THEN RefuseAndClose(r)
     ELSE Admit(Event([r EXCEPT !.kind = "BAD"])) /\ UNCHANGED phase

\* END owns the result: a valid late ABORT changes nothing.
ReceiveFinalizing(r) ==
  /\ phase = "Finalizing" /\ DirectionOk(r.kind)
  /\ IF ValidLateAbort(r)
     THEN UNCHANGED <<phase, gone, reader, order, faulted>>
     ELSE RefuseAndClose(r)
  /\ UNCHANGED ingress

Routable(r) == phase \notin {"Opening", "Retired", "Finalizing"} /\ DirectionOk(r.kind)

ReceiveConflict(r) ==
  /\ Routable(r) /\ Conflict(r)
  /\ Admit(Event([r EXCEPT !.kind = "BAD"]))
  /\ ingress' = [ingress EXCEPT !.postEnd = @ \/ ingress.producer = "END"]
  /\ UNCHANGED phase

ReceiveTerminal(r) ==
  /\ Routable(r) /\ ~Conflict(r) /\ r.kind # "DATA"
  /\ Admit(Event(r))
  /\ ingress' = [ingress EXCEPT !.producer =
                   IF @ = "none" /\ r.kind \in {"END", "ABORT"} THEN r.kind ELSE @]
  /\ phase' = IF r.kind = "ACK" THEN "AckPending" ELSE phase

Discarded == phase # "Active" \/ ingress.refused \/ PreemptivePending

ReceiveDiscarded(r) ==
  /\ Routable(r) /\ ~Conflict(r) /\ r.kind = "DATA" /\ Discarded
  /\ UNCHANGED <<phase, gone, ingress, reader, order, faulted>>

ReceiveRefused(r) ==
  /\ Routable(r) /\ ~Conflict(r) /\ r.kind = "DATA" /\ ~Discarded /\ Refusal(r) # "none"
  /\ Admit(Event([r EXCEPT !.kind = Refusal(r)]))
  /\ ingress' = [ingress EXCEPT !.refused = TRUE]
  /\ UNCHANGED phase

ReceiveData(r) ==
  /\ Routable(r) /\ ~Conflict(r) /\ r.kind = "DATA" /\ ~Discarded /\ Refusal(r) = "none"
  /\ reader' = [ev |-> Event(r), ticket |-> NoTicket]
  /\ ingress' = [ingress EXCEPT !.received = r.off + r.n]
  /\ UNCHANGED <<phase, gone, order, faulted>>

Receive(r) ==
  /\ reader.ev = NoEvent /\ ~gone
  /\ \/ ReceiveTooEarly(r)   \/ ReceiveUnbound(r)   \/ ReceiveMalformed(r)
     \/ ReceiveFinalizing(r) \/ ReceiveConflict(r)  \/ ReceiveTerminal(r)
     \/ ReceiveDiscarded(r)  \/ ReceiveRefused(r)   \/ ReceiveData(r)
  /\ UNCHANGED <<laneVars, actorVars, cancelVars, expired>>

\* A ticket holder waits for its turn, and then for room in the lane.
MyTurn(t) == t = NoTicket \/ t = order.serving
\* Mutant of Released: the ticket is not finished once its event is in the lane.
ReleasedNever(t) == order

Released(t) == IF t = NoTicket THEN order ELSE Finish(order, t)

\* enqueue, for the reader: once the receivers are gone, or the stream is
\* retired, the record it waited with closes the connection.
ReaderEnqueues ==
  LET isData == reader.ev.kind = "DATA"
      room   == IF isData THEN Len(data) < LaneCap ELSE Len(term) < TermCap
      refuse == ~Receiving \/ phase = "Retired" \/ (gone /\ isData)
  IN
  /\ reader.ev # NoEvent /\ MyTurn(reader.ticket)
  /\ room \/ ~Receiving
  /\ order' = Released(reader.ticket)
  /\ reader' = [ev |-> NoEvent, ticket |-> NoTicket]
  /\ \/ /\ refuse
        /\ gone' = TRUE
        /\ faulted' = IF gone THEN faulted
                       ELSE IF LateAbort(reader.ev) THEN "overtaken" ELSE "record"
        /\ UNCHANGED <<data, term>>
     \/ /\ ~refuse
        /\ data' = IF isData THEN Append(data, reader.ev) ELSE data
        /\ term' = IF isData THEN term ELSE Append(term, reader.ev)
        /\ UNCHANGED <<gone, faulted>>
  /\ UNCHANGED <<phase, ingress, deferred, processing, actorVars, cancelVars, clientVars,
                 withdrawn, excuse, expired>>

\* Socket loss, idle close or a fault of another stream: teardown.
Disconnect ==
  /\ ~gone /\ actor.pc # "done" /\ CloseConnection
  /\ UNCHANGED <<ingress, order, reader, laneVars, actorVars, cancelVars, clientVars,
                 historyVars, expired>>

----------------------------------------------------------------------------
(* The producer: the client of the protocol, which is not in this file.    *)

Record(kind, off, n) == [kind |-> kind, off |-> off, n |-> n]

Stopped == client.ended \/ client.aborted \/ client.told

ClientReads ==
  /\ down # <<>> /\ ~gone
  /\ down' = Tail(down)
  /\ LET m == Head(down) IN
     client' = CASE m.kind = "OPEN"   -> [client EXCEPT !.open = TRUE]
                 [] m.kind = "CREDIT" -> [client EXCEPT !.granted = TRUE, !.accepted = m.acc,
                                                        !.through = m.n]
                 [] m.kind = "ABORT"  -> [client EXCEPT !.told = TRUE, !.owes = TRUE,
                                                        !.echo = m.acc]
                 [] m.kind = "ACK"    -> [client EXCEPT !.acked = TRUE]
                 [] m.kind = "REPLY"  -> [client EXCEPT !.replied = TRUE]
  /\ UNCHANGED <<ingressVars, laneVars, actorVars, cancelVars, source, rude, historyVars, expired>>

\* DATA inside the credit the producer has seen.
ClientSendsData(n) ==
  /\ client.granted /\ ~Stopped
  /\ client.sent + n <= Lesser(client.through, source)
  /\ client' = [client EXCEPT !.sent = @ + n]
  /\ Receive(Record("DATA", client.sent, n))
  /\ UNCHANGED <<source, down, rude, withdrawn, excuse>>

\* END only after every byte sent was acknowledged by CREDIT.
ClientEnds ==
  /\ client.granted /\ ~Stopped
  /\ client.sent = source /\ client.accepted = client.sent
  /\ client' = [client EXCEPT !.ended = TRUE]
  /\ Receive(Record("END", 0, client.sent))
  /\ UNCHANGED <<source, down, rude, withdrawn, excuse>>

\* It echoes the greatest accepted_through it has seen; the ABORT may cross
\* the first CREDIT, the daemon's own ABORT, or the handling of its END.
ClientAborts ==
  /\ client.open /\ ~client.aborted /\ ~client.told /\ ~client.replied
  /\ client' = [client EXCEPT !.aborted = TRUE]
  /\ Excuse(~client.granted, "early")
  /\ Receive(Record("ABORT", 0, client.accepted))
  /\ UNCHANGED <<source, down, rude, withdrawn>>

ClientAcks ==
  /\ client.owes
  /\ client' = [client EXCEPT !.owes = FALSE]
  /\ Receive(Record("ACK", 0, client.echo))
  /\ UNCHANGED <<source, down, rude, withdrawn, excuse>>

\* What a faulty producer may send at any time.
ClientBreaksProtocol ==
  /\ rude < MaxRude
  /\ rude' = rude + 1 /\ Excuse(TRUE, "other")
  /\ \E r \in {Record("BAD", 0, 0), Record("DATA", client.sent, 1), Record("DATA", client.sent + 1, 1),
               Record("END", 0, client.sent), Record("ABORT", 0, client.accepted),
               Record("ACK", 0, client.accepted)} : Receive(r)
  /\ UNCHANGED <<client, source, down, withdrawn>>

----------------------------------------------------------------------------
(* The writer and the hooks it runs at the start and the end of a write.   *)

NoWrite == [kind |-> "none", at |-> "idle", n |-> 0]
Queue(kind, n) == write' = [kind |-> kind, at |-> "queued", n |-> n]

\* The start hooks commit_open_with, try_start_active_credit,
\* commit_daemon_abort and try_sequence_client_abort_ack.
MayStart ==
  CASE write.kind = "OPEN"     -> phase = "Opening" /\ ~expired
    [] write.kind = "CREDIT"   -> phase = "Active" /\ ~TerminalPending /\ ~expired
    [] write.kind = "ABORT"    -> phase = "DaemonAbortQueued"
    [] write.kind = "FINALACK" -> phase = "ClientAbortPending" /\ ~NonCancelPending
    [] OTHER                   -> TRUE

WriterStarts ==
  /\ write.at = "queued" /\ ~gone /\ MayStart
  /\ write' = [write EXCEPT !.at = "started"]
  /\ down' = Append(down, [kind |-> IF write.kind = "FINALACK" THEN "ACK" ELSE write.kind,
                           acc |-> state.accepted, n |-> write.n])
  /\ phase' = CASE write.kind = "OPEN"     -> "Active"
                [] write.kind = "ABORT"    -> "DaemonAbortWaitAck"
                [] write.kind = "FINALACK" -> "ClientAbortAckCommitted"
                [] OTHER                   -> phase
  /\ ingress' = IF write.kind = "CREDIT" THEN [ingress EXCEPT !.served = write.n] ELSE ingress
  /\ registered' = (registered \/ write.kind = "OPEN")
  /\ UNCHANGED <<gone, order, reader, laneVars, actor, state, owner, cancels, client, source, rude,
                 historyVars, expired>>

\* Discarded: the connection is gone, or the start hook refuses.
WriterDiscards ==
  /\ write.at = "queued" /\ (gone \/ ~MayStart)
  /\ write' = [write EXCEPT !.at = IF write.kind = "OPEN" /\ ~Closed THEN "deadline" ELSE "unsent"]
  /\ Excuse(write.kind = "CREDIT" /\ expired, "other")
  /\ UNCHANGED <<ingressVars, laneVars, actor, state, owner, cancelVars, clientVars, withdrawn,
                 faulted, expired>>

\* Sent: client_abort_ack_sent_locked retires, unless a record came behind
\* the ABORT; the reply of a finalized upload retires too.
WriterSends ==
  /\ write.at = "started"
  /\ write' = [write EXCEPT !.at = "sent"]
  /\ phase' = CASE write.kind = "FINALACK" ->
                     (IF phase = "ClientAbortAckCommitted" /\ NonCancelPending
                      THEN "ClientAbortAckSent" ELSE "Retired")
                [] write.kind = "REPLY" /\ actor.pc # "reply" -> "Retired"
                [] OTHER -> phase
  /\ UNCHANGED <<gone, ingress, order, reader, laneVars, actor, state, owner, cancelVars, clientVars,
                 historyVars, expired>>

WriterFails ==
  /\ write.at = "started" /\ gone
  /\ write' = [write EXCEPT !.at = "unsent"]
  /\ Excuse(TRUE, "other")
  /\ UNCHANGED <<ingressVars, laneVars, actor, state, owner, cancelVars, clientVars, withdrawn,
                 faulted, expired>>

\* The handshake's bound runs out on a message still queued.
HandshakeExpires ==
  /\ write.at = "queued" /\ write.kind \in {"ABORT", "ACK", "FINALACK"}
  /\ write' = [write EXCEPT !.at = "unsent"]
  /\ Excuse(TRUE, "other")
  /\ UNCHANGED <<ingressVars, laneVars, actor, state, owner, cancelVars, clientVars, withdrawn,
                 faulted, expired>>

----------------------------------------------------------------------------
(* The actor: run_file_share.                                              *)

\* owner.complete: a recorded cancellation overrides any other result.
Complete(result) ==
  owner' = [owner EXCEPT !.result = IF owner.selected THEN "cancelled" ELSE result]

Idle == [pc |-> "open", ev |-> NoEvent, why |-> "none", yield |-> "none", asker |-> "none",
         acked |-> FALSE, crossed |-> FALSE]

\* The function returns: binding, guard and receivers are dropped.
Return(close) ==
  /\ actor' = [Idle EXCEPT !.pc = "done"]
  /\ phase' = "Retired" /\ gone' = (gone \/ close)
  /\ registered' = FALSE /\ write' = NoWrite
  /\ data' = <<>> /\ term' = <<>> /\ deferred' = NoEvent /\ processing' = "none"

\* Back to the top of the loop, the terminal in hand fully handled.
Loop ==
  /\ actor' = [actor EXCEPT !.pc = "next", !.ev = NoEvent]
  /\ processing' = IF deferred = NoEvent THEN "none" ELSE processing
  /\ write' = NoWrite

Fail(why, yield) ==
  /\ actor' = [actor EXCEPT !.pc = "fail", !.ev = NoEvent, !.why = why, !.yield = yield]
  /\ write' = NoWrite

LoseTransport == Complete("lost") /\ Return(FALSE)

\* ConsumerState: next_credit, should_credit, record_credit.
NextCredit(s) ==
  IF s.accepted = Declared THEN Declared + 1 ELSE Lesser(s.accepted + Window, Declared)
CreditDue(s) ==
  /\ s.through = 0 \/ s.accepted = s.through \/ s.accepted = Declared
  /\ s.credited # s.accepted
\* Mutant of Credited: only the last CREDIT is remembered.
CreditedLast(s) ==
  [s EXCEPT !.credited = s.accepted, !.through = write.n, !.history = {<<s.accepted, write.n>>}]

Credited(s) ==
  [s EXCEPT !.credited = s.accepted, !.through = write.n,
            !.history = @ \cup {<<s.accepted, write.n>>}]

\* The end of one turn of the loop that selected no failure.
TurnEnds(s) ==
  IF CreditDue(s)
  THEN /\ actor' = [actor EXCEPT !.pc = "credit", !.ev = NoEvent]
       /\ Queue("CREDIT", NextCredit(s)) /\ UNCHANGED processing
  ELSE Loop

actorFrame == <<order, reader, clientVars, withdrawn, faulted, expired>>

OpenSettles ==
  /\ actor.pc = "open"
  /\ \/ /\ write.at = "sent"
        /\ actor' = [actor EXCEPT !.pc = "credit"]
        /\ Queue("CREDIT", NextCredit(state))
        /\ UNCHANGED <<gone, phase, owner, registered, laneVars>>
     \/ /\ write.at = "deadline" \/ (write.at = "queued" /\ expired)
        /\ ~ingress.openFatal
        /\ phase' = "Retired" /\ Complete("timeout") /\ Queue("REPLY", 0)
        /\ actor' = [actor EXCEPT !.pc = "reply", !.acked = TRUE]
        /\ UNCHANGED <<gone, registered, laneVars>>
     \/ /\ write.at = "unsent" \/ (write.at \in {"queued", "deadline"} /\ expired /\ ingress.openFatal)
        /\ Complete("lost") /\ Return(TRUE)
  /\ UNCHANGED <<ingress, state, cancels, excuse, actorFrame>>

\* issue_credit: an interrupt cancels a queued CREDIT and waits for a started
\* one.  A CREDIT discarded with no interrupt left to see is a protocol fault.
CreditSettles ==
  LET settled == write.at \in {"sent", "unsent"}
  IN
  /\ actor.pc = "credit"
  /\ state' = IF write.at = "sent" THEN Credited(state) ELSE state
  /\ \/ /\ write.at = "queued" \/ settled
        /\ TerminalPending
        /\ Loop
        /\ UNCHANGED <<gone, phase, owner, registered, data, term, deferred>>
     \/ /\ write.at = "queued" \/ settled
        /\ ~TerminalPending /\ Closed
        /\ LoseTransport
     \/ /\ write.at = "queued" \/ settled
        /\ ~TerminalPending /\ ~Closed /\ expired
        /\ Fail("timeout", "any")
        /\ UNCHANGED <<gone, phase, owner, registered, laneVars>>
     \/ /\ settled /\ ~TerminalPending /\ ~Closed
        /\ IF write.at = "sent"
           THEN Loop
           ELSE Fail("protocol", "any") /\ UNCHANGED processing
        /\ UNCHANGED <<gone, phase, owner, registered, data, term, deferred>>
  /\ UNCHANGED <<ingress, cancels, excuse, actorFrame>>

----------------------------------------------------------------------------
(* UploadEvents::recv, from the loop and from the wait for ACK.            *)

Hold(e) ==
  actor' = [actor EXCEPT !.ev = e, !.pc = IF actor.pc = "next" THEN "handle" ELSE "answer"]

TakeDeferred ==
  /\ deferred # NoEvent /\ PendingData = 0
  /\ Hold(deferred) /\ deferred' = NoEvent
  /\ UNCHANGED <<data, term, processing>>

TakeTerminal ==
  LET e == Head(term) IN
  /\ deferred = NoEvent /\ term # <<>>
  /\ term' = Tail(term)
  /\ processing' = IF IsPreemptive(e) THEN "preemptive" ELSE "plain"
  /\ IF e.kind = "END" /\ PendingData # 0
     THEN deferred' = e /\ UNCHANGED actor
     ELSE Hold(e) /\ UNCHANGED deferred
  /\ UNCHANGED data

TakeData ==
  /\ data # <<>> /\ (IF deferred = NoEvent THEN term = <<>> ELSE PendingData # 0)
  /\ Hold(Head(data)) /\ data' = Tail(data)
  /\ UNCHANGED <<term, deferred, processing>>

ActorTakes ==
  /\ actor.pc \in {"next", "waitack"}
  /\ TakeDeferred \/ TakeTerminal \/ TakeData
  /\ UNCHANGED <<gone, phase, ingress, state, write, owner, cancelVars, excuse, actorFrame>>

NothingToTake == deferred = NoEvent /\ term = <<>> /\ data = <<>>

\* next_active with no event: closed, or a timer, once no terminal is pending.
ActorIdles ==
  /\ actor.pc = "next" /\ NothingToTake /\ ~TerminalPending
  /\ \/ /\ Closed
        /\ LoseTransport
     \/ /\ ~Closed /\ expired
        /\ Fail("timeout", "any")
        /\ UNCHANGED <<gone, phase, owner, registered, laneVars>>
  /\ UNCHANGED <<ingress, state, cancels, excuse, actorFrame>>

----------------------------------------------------------------------------
(* One event of the active upload.                                         *)

handling == actor.pc = "handle"
activeFrame == <<gone, owner, registered, laneVars>>

\* Malformed, refused DATA, a stray ACK, or any event received too late.  A
\* late CANCEL is dropped unanswered: its task is told Unknown, before the
\* timer's own abort is selected.
HandleFault ==
  LET e == actor.ev IN
  /\ handling
  /\ e.late \/ e.kind \in {"BAD", "ACK", "NOCREDIT", "OVERSIZE"}
  /\ Fail(IF e.late THEN "timeout" ELSE IF e.kind = "OVERSIZE" THEN "oversize" ELSE "protocol",
          "none")
  /\ cancels' = IF e.kind = "CANCEL"
                 THEN [cancels EXCEPT ![e.from].at = IF @ = "asked" THEN "refused" ELSE @]
                 ELSE cancels
  /\ Excuse(e.kind = "ABORT", "other")
  /\ UNCHANGED <<phase, ingress, state, activeFrame, actorFrame>>

\* select_cancelled, under the cancellation registry's lock: the phase first,
\* then (CancelRecords) the ledger, then the entry.
HandleCancel ==
  LET c == actor.ev.from IN
  /\ handling /\ actor.ev.kind = "CANCEL" /\ ~actor.ev.late
  /\ IF registered /\ phase = "Active"
     THEN /\ phase' = "DaemonAbortQueued"
          /\ actor' = [actor EXCEPT !.pc = "record", !.ev = NoEvent, !.asker = c]
          /\ UNCHANGED <<write, cancels, processing>>
     ELSE /\ cancels' = [cancels EXCEPT ![c].at = IF @ = "asked" THEN "refused" ELSE @]
          /\ TurnEnds(state)
          /\ UNCHANGED phase
  /\ Excuse(~registered /\ phase = "Active", "other")
  /\ UNCHANGED <<gone, ingress, state, owner, registered, data, term, deferred, actorFrame>>

CancelRecords ==
  /\ actor.pc = "record"
  /\ owner' = [owner EXCEPT !.selected = TRUE]
  /\ registered' = FALSE
  /\ Fail("cancelled", "none")
  /\ UNCHANGED <<gone, phase, ingress, state, cancels, laneVars, excuse, actorFrame>>

\* validate_data_at_credit; then the staging sink runs.
HandleData ==
  LET e == actor.ev IN
  /\ handling /\ e.kind = "DATA" /\ ~e.late
  /\ IF e.off = state.accepted /\ e.off + e.n <= e.credit /\ e.credit <= state.through
     THEN /\ actor' = [actor EXCEPT !.pc = "stage"]
          /\ state' = [state EXCEPT !.history = {h \in @ : h[2] >= e.off + e.n}]
          /\ UNCHANGED write
     ELSE Fail("protocol", "preemptive") /\ UNCHANGED state
  /\ UNCHANGED <<phase, ingress, cancels, excuse, activeFrame, actorFrame>>

\* await_active_operation around the sink's write.
StageInterrupted ==
  /\ actor.pc = "stage"
  /\ \/ /\ PreemptivePending \/ (Closed /\ TerminalPending)
        /\ TurnEnds(state)
        /\ UNCHANGED <<gone, phase, owner, registered, data, term, deferred>>
     \/ /\ ~PreemptivePending /\ Closed /\ ~TerminalPending
        /\ LoseTransport
     \/ /\ ~PreemptivePending /\ ~Closed /\ expired
        /\ Fail("timeout", "any")
        /\ UNCHANGED <<gone, phase, owner, registered, laneVars>>
  /\ UNCHANGED <<ingress, state, cancels, excuse, actorFrame>>

StageCompletes ==
  /\ actor.pc = "stage"
  /\ \/ /\ actor' = [actor EXCEPT !.pc = "commit"]
        /\ state' = [state EXCEPT !.staged = @ + actor.ev.n]
        /\ UNCHANGED write
     \/ /\ Fail("sink", "preemptive")
        /\ UNCHANGED state
  /\ UNCHANGED <<phase, ingress, cancels, excuse, activeFrame, actorFrame>>

\* commit_accepted: a terminal, the end of the connection or a timer that came
\* while the sink wrote wins over the bytes it staged.
CommitAccepted ==
  LET accepted == [state EXCEPT !.accepted = actor.ev.off + actor.ev.n]
  IN
  /\ actor.pc = "commit"
  /\ \/ /\ PreemptivePending \/ (Closed /\ TerminalPending)
        /\ TurnEnds(state)
        /\ UNCHANGED <<gone, phase, ingress, state, owner, registered, data, term, deferred>>
     \/ /\ ~PreemptivePending /\ ~TerminalPending /\ Closed
        /\ LoseTransport
        /\ UNCHANGED <<ingress, state>>
     \/ /\ ~PreemptivePending /\ ~Closed /\ expired
        /\ phase' = IF TerminalPending THEN phase ELSE "DaemonAbortQueued"
        /\ Fail("timeout", "any")
        /\ UNCHANGED <<gone, ingress, state, owner, registered, laneVars>>
     \/ /\ ~PreemptivePending /\ ~Closed /\ ~expired
        /\ state' = accepted
        /\ ingress' = [ingress EXCEPT !.accepted = accepted.accepted]
        /\ TurnEnds(accepted)
        /\ UNCHANGED <<gone, phase, owner, registered, data, term, deferred>>
  /\ UNCHANGED <<cancels, excuse, actorFrame>>

\* Mutant of EndFailure: the declared size is not compared.
EndFailureUnsized(total) ==
  IF total # state.accepted \/ phase # "Active" THEN "protocol" ELSE "none"

\* validate_end, commit_finalizing and the hand-over to the finalizer.
EndFailure(total) ==
  IF total # state.accepted THEN "protocol"
  ELSE IF total < Declared THEN "oversize"
  ELSE IF \/ state.credited # state.accepted \/ state.through # Declared + 1
          \/ phase # "Active"
       THEN "protocol" ELSE "none"

HandleEnd ==
  LET total == actor.ev.n IN
  /\ handling /\ actor.ev.kind = "END" /\ ~actor.ev.late
  /\ IF EndFailure(total) # "none"
     THEN /\ Fail(EndFailure(total), "none")
          /\ UNCHANGED <<phase, gone, ingress, registered, laneVars>>
     ELSE /\ phase' = "Finalizing"
          /\ gone' = (gone \/ ingress.postEnd)
          /\ ingress' = [ingress EXCEPT !.accepted = total]
          /\ registered' = FALSE
          /\ actor' = [actor EXCEPT !.pc = "finish", !.ev = NoEvent]
          /\ UNCHANGED <<write, laneVars>>
  /\ faulted' = IF phase' = "Finalizing" /\ ingress.postEnd /\ ~gone THEN "record" ELSE faulted
  /\ UNCHANGED <<state, owner, cancels, excuse, order, reader, clientVars, withdrawn, expired>>

\* valid_producer_abort, try_select_client_abort, and the start of
\* finish_client_abort: older DATA is discarded, then ACK.
HandleAbort ==
  /\ handling /\ actor.ev.kind = "ABORT" /\ ~actor.ev.late
  /\ \/ /\ \A h \in state.history : h[1] # actor.ev.n
        /\ Fail("protocol", "none")
        /\ UNCHANGED <<gone, phase, owner, registered, laneVars>>
     \/ /\ \E h \in state.history : h[1] = actor.ev.n
        /\ IF phase = "Active"
           THEN /\ phase' = "ClientAbortPending"
                /\ registered' = FALSE /\ data' = <<>>
                /\ actor' = [actor EXCEPT !.pc = "ack", !.ev = NoEvent]
                /\ Queue("FINALACK", 0)
                /\ UNCHANGED <<gone, owner, term, deferred, processing>>
           ELSE Complete("lost") /\ Return(FALSE)
  /\ UNCHANGED <<ingress, state, cancels, excuse, actorFrame>>

----------------------------------------------------------------------------
(* Terminals: select_daemon_abort, finish_daemon_abort, finish_client_abort *)
(* and finalize_detached.                                                  *)

SelectDaemonAbort ==
  LET yields == \/ actor.yield = "any" /\ TerminalPending
                \/ actor.yield = "preemptive" /\ PreemptivePending
  IN
  /\ actor.pc = "fail"
  /\ \/ /\ phase = "Active" /\ yields
        /\ Loop
        /\ UNCHANGED <<gone, phase, owner, registered, cancels, data, term, deferred>>
     \/ /\ (phase = "Active" /\ ~yields) \/ phase = "DaemonAbortQueued"
        /\ phase' = "DaemonAbortQueued"
        /\ registered' = FALSE
        /\ cancels' = [c \in Cancellers |->
             IF actor.why = "cancelled" /\ c = actor.asker /\ cancels[c].at = "asked"
             THEN [cancels[c] EXCEPT !.at = "cancelled"] ELSE cancels[c]]
        /\ actor' = [actor EXCEPT !.pc = "abort"]
        /\ Queue("ABORT", 0)
        /\ UNCHANGED <<gone, owner, laneVars>>
     \/ /\ phase \notin {"Active", "DaemonAbortQueued"}
        /\ LoseTransport
        /\ UNCHANGED cancels
  /\ UNCHANGED <<ingress, state, excuse, actorFrame>>

\* failure_error: what the failure becomes in the reply.
Result(why) == IF why = "protocol" THEN "malformed" ELSE why

\* The daemon's ABORT is written, or never will be.
AbortSettles ==
  /\ actor.pc = "abort"
  /\ \/ /\ phase # "DaemonAbortQueued" /\ write.at = "queued"
        /\ Complete(Result(actor.why)) /\ Return(FALSE)
     \/ /\ write.at = "sent"
        /\ actor' = [actor EXCEPT !.pc = "waitack"] /\ write' = NoWrite
        /\ UNCHANGED <<gone, phase, owner, registered, laneVars>>
     \/ /\ write.at = "unsent"
        /\ Complete(Result(actor.why)) /\ Return(TRUE)
  /\ UNCHANGED <<ingress, state, cancels, excuse, actorFrame>>

\* The wait for ACK is over: publish, then reply.
HandshakeEnds(acked) ==
  /\ actor' = [actor EXCEPT !.pc = "reply", !.ev = NoEvent, !.acked = acked]
  /\ phase' = "Retired"
  /\ Complete(Result(actor.why)) /\ Queue("REPLY", 0)

AnswerAck ==
  /\ actor.pc = "answer" /\ actor.ev.kind = "ACK"
  /\ HandshakeEnds(actor.ev.n = state.accepted /\ phase = "AckPending" /\ ~NonCancelPending)
  /\ UNCHANGED <<cancels, excuse>>

\* A crossed ABORT is owed one ACK of its own.
AnswerCrossedAbort ==
  /\ actor.pc = "answer" /\ actor.ev.kind = "ABORT"
  /\ IF ~actor.crossed /\ \E h \in state.history : h[1] = actor.ev.n
     THEN /\ actor' = [actor EXCEPT !.pc = "cross", !.ev = NoEvent]
          /\ Queue("ACK", 0) /\ UNCHANGED <<phase, owner>>
     ELSE HandshakeEnds(FALSE)
  /\ UNCHANGED <<cancels, excuse>>

AnswerCancel ==
  /\ actor.pc = "answer" /\ actor.ev.kind = "CANCEL"
  /\ cancels' = [cancels EXCEPT ![actor.ev.from].at = IF @ = "asked" THEN "refused" ELSE @]
  /\ actor' = [actor EXCEPT !.pc = "waitack", !.ev = NoEvent]
  /\ UNCHANGED <<phase, owner, write, excuse>>

AnswerOther ==
  /\ actor.pc = "answer" /\ actor.ev.kind \notin {"ACK", "ABORT", "CANCEL"}
  /\ IF actor.ev.kind \in {"DATA", "END"}
     THEN /\ actor' = [actor EXCEPT !.pc = "waitack", !.ev = NoEvent]
          /\ UNCHANGED <<phase, owner, write>>
     ELSE HandshakeEnds(FALSE)
  /\ UNCHANGED <<cancels, excuse>>

CrossedAckSettles ==
  /\ actor.pc = "cross" /\ write.at \in {"sent", "unsent"}
  /\ IF write.at = "sent"
     THEN /\ actor' = [actor EXCEPT !.pc = "waitack", !.crossed = TRUE]
          /\ write' = NoWrite /\ UNCHANGED <<phase, owner>>
     ELSE HandshakeEnds(FALSE)
  /\ UNCHANGED <<cancels, excuse>>

\* Closed with nothing left to read, or the bound of the wait ran out.
HandshakeAbandoned ==
  /\ actor.pc = "waitack"
  /\ \/ Closed /\ NothingToTake /\ UNCHANGED excuse
     \/ ~Closed /\ Excuse(TRUE, "other")
  /\ HandshakeEnds(FALSE)
  /\ UNCHANGED cancels

ActorWaitsForAck ==
  /\ \/ AnswerAck \/ AnswerCrossedAbort \/ AnswerCancel \/ AnswerOther
     \/ CrossedAckSettles \/ HandshakeAbandoned
  /\ UNCHANGED <<gone, ingress, state, registered, laneVars, actorFrame>>

\* The ACK of the producer's ABORT: a record behind the ABORT turns the
\* outcome into a crossed daemon ABORT for protocol_error.
FinalAckSettles ==
  /\ actor.pc = "ack" /\ write.at \in {"sent", "unsent"}
  /\ \/ /\ write.at = "sent" /\ phase = "Retired"
        /\ Complete("aborted") /\ Queue("REPLY", 0)
        /\ actor' = [actor EXCEPT !.pc = "reply", !.acked = TRUE]
        /\ UNCHANGED <<gone, phase, registered, laneVars>>
     \/ /\ write.at = "sent" /\ phase = "ClientAbortAckSent"
        /\ actor' = [actor EXCEPT !.pc = "promote"] /\ write' = NoWrite
        /\ UNCHANGED <<gone, phase, owner, registered, laneVars>>
     \/ /\ write.at = "unsent" /\ phase = "ClientAbortPending" /\ NonCancelPending
        /\ actor' = [actor EXCEPT !.pc = "faultack"] /\ Queue("ACK", 0)
        /\ UNCHANGED <<gone, phase, owner, registered, laneVars>>
     \/ /\ write.at = "unsent" /\ ~(phase = "ClientAbortPending" /\ NonCancelPending)
        /\ Complete("aborted") /\ Return(TRUE)
  /\ UNCHANGED <<ingress, state, cancels, excuse, actorFrame>>

FaultAckSettles ==
  /\ actor.pc = "faultack" /\ write.at \in {"sent", "unsent"}
  /\ IF write.at = "sent"
     THEN /\ actor' = [actor EXCEPT !.pc = "promote"] /\ write' = NoWrite
          /\ UNCHANGED <<gone, phase, owner, registered, laneVars>>
     ELSE Complete("malformed") /\ Return(TRUE)
  /\ UNCHANGED <<ingress, state, cancels, excuse, actorFrame>>

\* What is queued is drained; promote_client_abort_protocol.
Promote ==
  LET drained == {term[i].from : i \in {j \in DOMAIN term : term[j].kind = "CANCEL"}}
  IN
  /\ actor.pc = "promote"
  /\ cancels' = [c \in Cancellers |-> IF c \in drained /\ cancels[c].at = "asked"
                                      THEN [cancels[c] EXCEPT !.at = "refused"] ELSE cancels[c]]
  /\ IF phase \in {"ClientAbortPending", "ClientAbortAckCommitted", "ClientAbortAckSent"}
     THEN /\ phase' = "DaemonAbortQueued"
          /\ actor' = [actor EXCEPT !.pc = "abort", !.why = "protocol"]
          /\ Queue("ABORT", 0)
          /\ data' = <<>> /\ term' = <<>> /\ deferred' = NoEvent
          /\ processing' = IF term = <<>> THEN processing ELSE "plain"
          /\ UNCHANGED <<gone, owner, registered>>
     ELSE Complete("malformed") /\ Return(FALSE)
  /\ UNCHANGED <<ingress, state, excuse, actorFrame>>

\* The staged file is closed: the finalizer is detached and the receivers are
\* dropped, or the error is replied with the receivers still owned.
StageFinishes ==
  /\ actor.pc = "finish"
  /\ \/ /\ actor' = [actor EXCEPT !.pc = "finalize"]
        /\ data' = <<>> /\ term' = <<>> /\ deferred' = NoEvent /\ processing' = "none"
        /\ UNCHANGED <<owner, write>>
     \/ /\ Complete("sink") /\ Queue("REPLY", 0)
        /\ actor' = [actor EXCEPT !.pc = "unfinished"]
        /\ UNCHANGED laneVars
  /\ UNCHANGED <<gone, phase, ingress, state, cancelVars, excuse, actorFrame>>

\* The finalizer imports the staged file, or fails.
Finalized ==
  /\ actor.pc = "finalize"
  /\ \E result \in {"ok", "sink"} : Complete(result)
  /\ actor' = [actor EXCEPT !.pc = "publish"] /\ Queue("REPLY", 0)
  /\ UNCHANGED <<gone, phase, ingress, state, cancelVars, laneVars, excuse, actorFrame>>

\* The reply is written or lost.  A finished handshake keeps the connection.
ReplySettles ==
  /\ actor.pc \in {"reply", "publish", "unfinished"} /\ write.at \in {"sent", "unsent"}
  /\ Return(actor.pc = "reply" /\ (~actor.acked \/ write.at = "unsent"))
  /\ faulted' = IF actor.pc = "reply" /\ ~actor.acked /\ ~gone THEN "record" ELSE faulted
  /\ UNCHANGED <<ingress, state, owner, cancels, excuse, order, reader, clientVars, withdrawn,
                 expired>>

----------------------------------------------------------------------------
(* transfer.cancel: UploadCancellationRegistry::cancel.                    *)

LockFree == actor.pc # "record"

Ticketless(at) == [at |-> at, ticket |-> NoTicket, late |-> FALSE]

\* Mutant of Recorded: the ledger is not asked.
RecordedUnknown == "unknown"

Recorded == IF owner.selected THEN "already" ELSE "unknown"

cancelFrame == <<phase, gone, ingress, reader, actorVars, clientVars, faulted, expired,
                 data, deferred, processing>>

CancelLooksUp(c) ==
  /\ cancels[c].at = "idle" /\ LockFree /\ client.open
  /\ cancels' = [cancels EXCEPT ![c].at = IF registered THEN "found" ELSE Recorded]
  /\ UNCHANGED <<cancelFrame, order, term, registered, withdrawn, excuse>>

CancelAsks(c) ==
  /\ cancels[c].at = "found"
  /\ IF phase # "Active" \/ gone
     THEN /\ cancels' = [cancels EXCEPT ![c].at = "refused"]
          /\ UNCHANGED order
     ELSE /\ cancels' = [cancels EXCEPT ![c] = [at |-> "lane", ticket |-> order.next,
                                                  late |-> expired]]
          /\ order' = [order EXCEPT !.next = @ + 1]
  /\ UNCHANGED <<cancelFrame, term, registered, withdrawn, excuse>>

CancelEnqueues(c) ==
  /\ cancels[c].at = "lane" /\ MyTurn(cancels[c].ticket)
  /\ order' = Released(cancels[c].ticket)
  /\ IF Receiving /\ phase # "Retired"
     THEN /\ Len(term) < TermCap
          /\ term' = Append(term, [kind |-> "CANCEL", from |-> c, late |-> cancels[c].late])
          /\ cancels' = [cancels EXCEPT ![c] = Ticketless("asked")]
     ELSE /\ cancels' = [cancels EXCEPT ![c] = Ticketless("refused")]
          /\ UNCHANGED term
  /\ UNCHANGED <<cancelFrame, registered, withdrawn, excuse>>

\* The receivers were dropped, and the event with them.
CancelDropped(c) ==
  /\ cancels[c].at = "asked" /\ ~Receiving
  /\ cancels' = [cancels EXCEPT ![c].at = "refused"]
  /\ UNCHANGED <<cancelFrame, order, term, registered, withdrawn, excuse>>

\* CancelAttempt::Unknown: this upload's entry goes, the ledger answers.
CancelSettles(c) ==
  /\ cancels[c].at = "refused" /\ LockFree
  /\ registered' = FALSE
  /\ cancels' = [cancels EXCEPT ![c].at = Recorded]
  /\ UNCHANGED <<cancelFrame, order, term, withdrawn, excuse>>

\* Its connection's teardown aborts the task: the ticket is rolled back.
CancelWithdrawn(c) ==
  /\ withdrawn < MaxWithdrawn /\ cancels[c].at \in {"lane", "asked"}
  /\ withdrawn' = withdrawn + 1
  /\ cancels' = [cancels EXCEPT ![c] = Ticketless("withdrawn")]
  /\ order' = Released(cancels[c].ticket)
  /\ Excuse(cancels[c].ticket # NoTicket, "other")
  /\ UNCHANGED <<cancelFrame, term, registered>>

----------------------------------------------------------------------------

Expire ==
  /\ ~expired /\ actor.pc # "done" /\ expired' = TRUE
  /\ UNCHANGED <<ingressVars, laneVars, actorVars, cancelVars, clientVars, historyVars>>

Init ==
  /\ phase = "Opening" /\ gone = FALSE /\ expired = FALSE
  /\ ingress = [accepted |-> 0, served |-> 0, received |-> 0, refused |-> FALSE,
                producer |-> "none", postEnd |-> FALSE, openFatal |-> FALSE]
  /\ order = [next |-> 0, serving |-> 0, cancelled |-> {}]
  /\ data = <<>> /\ term = <<>> /\ deferred = NoEvent /\ processing = "none"
  /\ reader = [ev |-> NoEvent, ticket |-> NoTicket]
  /\ actor = Idle
  /\ state = [accepted |-> 0, credited |-> 0, through |-> 0, history |-> {}, staged |-> 0]
  /\ write = [kind |-> "OPEN", at |-> "queued", n |-> 0]
  /\ owner = [result |-> "none", selected |-> FALSE]
  /\ registered = FALSE
  /\ cancels = [c \in Cancellers |-> Ticketless("idle")]
  /\ client = [open |-> FALSE, granted |-> FALSE, accepted |-> 0, through |-> 0, sent |-> 0,
               ended |-> FALSE, aborted |-> FALSE, told |-> FALSE, owes |-> FALSE, echo |-> 0,
               acked |-> FALSE, replied |-> FALSE]
  /\ source \in Sources /\ down = <<>> /\ rude = 0
  /\ withdrawn = 0 /\ excuse = "none" /\ faulted = "no"

Client ==
  \/ ClientReads \/ ClientEnds \/ ClientAborts \/ ClientAcks \/ ClientBreaksProtocol
  \/ \E n \in 1..Window : ClientSendsData(n)

Writer == WriterStarts \/ WriterDiscards \/ WriterSends \/ WriterFails

Actor ==
  \/ OpenSettles \/ CreditSettles \/ ActorTakes \/ ActorIdles
  \/ HandleFault \/ HandleCancel \/ CancelRecords \/ HandleData \/ HandleEnd \/ HandleAbort
  \/ StageInterrupted \/ StageCompletes \/ CommitAccepted
  \/ SelectDaemonAbort \/ AbortSettles \/ ActorWaitsForAck
  \/ FinalAckSettles \/ FaultAckSettles \/ Promote \/ StageFinishes \/ Finalized \/ ReplySettles

CancelTask(c) ==
  CancelLooksUp(c) \/ CancelAsks(c) \/ CancelEnqueues(c) \/ CancelDropped(c) \/ CancelSettles(c)

Next ==
  \/ Client \/ ReaderEnqueues \/ Writer \/ HandshakeExpires \/ Actor
  \/ \E c \in Cancellers : CancelTask(c) \/ CancelWithdrawn(c)
  \/ Disconnect \/ Expire

Spec ==
  /\ Init /\ [][Next]_vars
  /\ WF_vars(ReaderEnqueues) /\ WF_vars(Writer) /\ WF_vars(Actor) /\ WF_vars(Expire)
  /\ \A c \in Cancellers : WF_vars(CancelTask(c))
----------------------------------------------------------------------------

(* Properties.                                                             *)

Refused == owner.result = "malformed" \/ faulted = "record"

\* A producer that keeps the protocol is never told of a protocol fault and
\* never has its connection closed over one of its records, by the reader or by
\* the actor, with two exceptions, both of the ABORT it sends behind its own END
\* (LateAbort): one that the reader still holds when END owns the result and the
\* receivers of the lanes are dropped ("overtaken"), and one that crosses the
\* terminal reply and finds the stream retired ("crossed": the protocol asks for
\* that close).  And it reads the terminal reply only after the handshake it owes
\* is over: its ACK of the daemon's ABORT sent, its own ABORT acknowledged.  The
\* reader, the writer's hooks and the actor each judge a record by the phase
\* they find.  Excused are the cases in which the code gives up (a bound of the
\* handshake, a write that fails, a withdrawn cancel, a crossing with the
\* clock), an ABORT before the first CREDIT, and a cancel refused in the actor's
\* hand because another one, which found the connection closed, took the entry
\* away: the DATA set aside for it is lost, and the next record looks misplaced.
HonestProducerServed ==
  excuse = "none" =>
    /\ ~Refused
    /\ client.replied => ~client.owes /\ (client.aborted /\ ~client.ended => client.acked)

\* "Both begin at zero": an ABORT that echoes offset zero before it has seen a
\* CREDIT is as valid as a later one, and wins while the upload is ACTIVE.
EchoedAbortIsHonoured == excuse # "other" => ~Refused

\* An upload that owns the result, or reports success, staged every declared
\* byte, accepted them all, ended by the producer's own END, and was not
\* recorded as cancelled: END, ABORT, cancel, the clock and a broken sink race
\* for the terminal, and the bytes are staged before they are accepted.
FinalizedIsWhole ==
  phase = "Finalizing" \/ owner.result = "ok" =>
    /\ state.staged = Declared /\ state.accepted = Declared
    /\ ingress.producer = "END" /\ ~owner.selected

\* The actor has judged an event to be late, and will select the timer's abort.
TimedOut == actor.pc = "fail" /\ actor.why = "timeout" /\ actor.yield = "none"

\* What transfer.cancel answers is true: "cancelled" and "already cancelled"
\* only of an upload whose published result is the cancellation, "cancelled" to
\* one caller only, and "unknown" never of an upload that is cancelled, nor of
\* one still active on a live connection, unless the actor has just judged an
\* event to be past its timer and only has to select the abort.  The answer is
\* put together from the registry, the phase and the ledger, read at different
\* times.
CancelAnswersTrue ==
  /\ [](\A c \in Cancellers : cancels[c].at \in {"cancelled", "already"} => owner.selected)
  /\ [](owner.selected /\ owner.result # "none" => owner.result = "cancelled")
  /\ [](\A c, d \in Cancellers :
          cancels[c].at = "cancelled" /\ cancels[d].at = "cancelled" => c = d)
  /\ [][\A c \in Cancellers : cancels'[c].at = "unknown" /\ cancels[c].at # "unknown"
                               => ~owner.selected' /\ (phase # "Active" \/ gone \/ TimedOut)]_vars

\* However silent the producer, the actor returns, and every transfer.cancel
\* that found the upload is answered: nobody waits for ever for a ticket's turn,
\* for room in a lane, for a write or for a deferred END.
UploadEnds ==
  /\ <>(actor.pc = "done")
  /\ \A c \in Cancellers : cancels[c].at = "found" ~>
                             cancels[c].at \in {"cancelled", "already", "unknown", "withdrawn"}
=============================================================================
