----------------------------- MODULE KernelStream -----------------------------
(***************************************************************************)
(* Byte streams of the client kernel: StreamTable                          *)
(* (jeliya-client/src/kernel/streaming.rs), the branches of the core that  *)
(* settle and bury stream calls (core.rs), and the native media task that  *)
(* reads the source (adapter/media.rs), on one connection.                 *)
(*                                                                         *)
(* A call enters when its request is on the wire: queueing, admission and  *)
(* reconnects are in Kernel.  Records of the daemon are taken as they are  *)
(* delivered.  A well-behaved daemon sends only what the protocol allows   *)
(* it to, and may fall silent at any time; a junk record is any other.     *)
(*                                                                         *)
(* Time is abstract: an armed timer may fire at any time, and an instant   *)
(* that has passed may be noticed before its timer fires (late).           *)
(***************************************************************************)
EXTENDS Naturals, Sequences, FiniteSets, Queues

CONSTANTS
    Calls,          \* stream calls
    Uploads,        \* those that are file.share; the others are file.read
    Total,          \* OPEN's total: the bytes declared, or of the file read
    SourceLengths,  \* how long a caller's source may turn out to be
    Window,         \* StreamLimits.stream_window_bytes
    MaxStreams,     \* StreamLimits.max_concurrent_streams
    InFlight,       \* KernelLimits.in_flight: throttle and tombstone budget
    MaxJunk         \* bound: junk records, failures of a source or a sink

ASSUME StreamAssumption ==
    /\ Uploads \subseteq Calls
    /\ Total \in [Calls -> Nat]
    /\ SourceLengths \subseteq Nat
    /\ Window \in Nat \ {0}
    /\ MaxStreams \in Nat \ {0} /\ InFlight \in Nat \ {0}
    /\ MaxJunk \in Nat

VARIABLES
    ledger,         \* sent stream calls that are not taken: Core.ledger
    buried,         \* Core.tombstones
    streams,        \* StreamTable.entries
    retired,        \* StreamTable.tombstones
    outcome,        \* what the caller has
    task,           \* the media task of each upload
    peer,           \* how far the daemon's side of the stream is
    junk            \* bound on what goes wrong

coreVars == <<ledger, buried, streams, retired, outcome>>
vars == <<coreVars, task, peer, junk>>

Nothing == <<>>

\* Put the pairs of g over those of f; drop x from f.
With(f, x, v) == [y \in DOMAIN f \cup {x} |-> IF y = x THEN v ELSE f[y]]
Drop(f, x)    == [y \in DOMAIN f \ {x} |-> f[y]]

Min2(a, b) == IF a < b THEN a ELSE b
Max2(a, b) == IF a > b THEN a ELSE b
Less(a, b) == IF a > b THEN a - b ELSE 0

FreshEntry == [cancelled |-> FALSE, timer |-> "base", late |-> FALSE]

FreshStream == [phase |-> "Active", send_through |-> 0, accepted |-> 0, sent |-> 0,
                granted |-> 0, source_ended |-> FALSE,
                deadline |-> TRUE, stall |-> TRUE, fresh |-> FALSE]

IdleTask(len) == [len |-> len, grants |-> <<>>, pos |-> 0, owed |-> <<>>, over |-> FALSE]

Init ==
    /\ ledger = Nothing /\ buried = <<>>
    /\ streams = Nothing /\ retired = <<>>
    /\ outcome = [c \in Calls |-> "none"]
    /\ task \in [Calls -> {IdleTask(len) : len \in SourceLengths}]
    /\ peer = [c \in Calls |-> "silent"]
    /\ junk = 0

Live(c)      == c \in DOMAIN ledger /\ ~ledger[c].cancelled
Installed(c) == c \in DOMAIN streams
Phase(c)     == IF Installed(c) THEN streams[c].phase ELSE "none"

-----------------------------------------------------------------------------
(* The credit arithmetic.                                                  *)

\* StreamEntry::producer_grant.
ProducerGrant(c, s) ==
    Less(Min2(Min2(s.send_through, s.accepted + Window), Total[c] + 1), s.sent)

\* StreamEntry::receiver_grant: the ceiling, if it is an advance.
ReceiverCeiling(c, s) == Max2(s.granted, Min2(s.accepted + Window, Total[c]))

-----------------------------------------------------------------------------
(* What a step does to a stream: a new entry, and what it provokes.        *)

\* Mutant of Disarmed: the deadline stays armed.
DisarmedStall(s, phase) == [s EXCEPT !.phase = phase, !.stall = FALSE]

\* finalize and retire_to_tombstone cancel both timers.
Disarmed(s, phase) == [s EXCEPT !.phase = phase, !.deadline = FALSE, !.stall = FALSE]
Finalized(s) == Disarmed(s, "Finalizing")

\* Mutant of Finishes: END does not wait for the last acknowledgement.
FinishesUnacknowledged(s) == s.phase = "Active" /\ s.source_ended

\* maybe_finish: END once the source has ended and all is acknowledged.
Finishes(s) == s.phase = "Active" /\ s.source_ended /\ s.accepted = s.sent

\* pump_producer: grant the media task what the credit now permits.
Pumped(c, s) ==
    LET up_to == ProducerGrant(c, s)
    IN  IF s.phase = "Active" /\ (up_to > 0 \/ Total[c] = 0) /\ ~task[c].over
        THEN [task EXCEPT ![c].grants = Append(@, up_to)]
        ELSE task

\* The stream goes on with entry s; an upload finishes if it can.
Advance(c, s) ==
    LET finishing == c \in Uploads /\ Finishes(s)
    IN  /\ streams' = [streams EXCEPT ![c] = IF finishing THEN Finalized(s) ELSE s]
        /\ UNCHANGED <<ledger, buried, retired, outcome>>

\* retire_to_tombstone: a retired stream is kept in a FIFO of its own, whose
\* eviction takes the entry.
Retire(c, table) ==
    LET order  == Without(retired, c)
        full   == Len(order) >= MaxStreams
        closed == [table EXCEPT ![c] = Disarmed(@, "Retired")]
    IN  /\ streams' = IF full THEN Drop(closed, Head(order)) ELSE closed
        /\ retired' = Append(IF full THEN Tail(order) ELSE order, c)

\* push_tombstone: the oldest tombstone of the ledger goes, its stream stays.
Bury(c, table) ==
    LET full == Len(buried) >= InFlight
    IN  /\ ledger' = IF full THEN Drop(table, Head(buried)) ELSE table
        /\ buried' = Append(IF full THEN Tail(buried) ELSE buried, c)

\* settle_stream_failure: the caller is answered and the call becomes a
\* tombstone with a reclaim timer, unless it is one already.
SettleFailure(c, error) ==
    IF Live(c)
    THEN /\ outcome' = [outcome EXCEPT ![c] = error]
         /\ Bury(c, [ledger EXCEPT ![c] = [cancelled |-> TRUE, timer |-> "reclaim", late |-> FALSE]])
    ELSE UNCHANGED <<ledger, buried, outcome>>

\* fail and apply_stream_outcome: ABORT, retire, settle.  fail looks at no phase.
\* The caller is told of a protocol fault as a timeout; "fault" is the ABORT's reason.
Fail(c, error) ==
    /\ IF Installed(c) THEN Retire(c, streams) ELSE UNCHANGED <<streams, retired>>
    /\ SettleFailure(c, error)

Unmoved == UNCHANGED coreVars

-----------------------------------------------------------------------------
(* The records of the daemon, routed by a request id still in the ledger.  *)

Resolves(c) == c \in DOMAIN ledger

\* Core::on_stream_open: the stream's two timers replace the base deadline.  An
\* OPEN for a tombstone is dropped, a second one is a fault.
OnOpen(c) ==
    CASE ~Live(c) -> Unmoved /\ UNCHANGED task
      [] Live(c) /\ Installed(c) -> Fail(c, "timeout") /\ UNCHANGED task
      [] Live(c) /\ ~Installed(c) ->
            /\ ledger' = [ledger EXCEPT ![c].timer = "none", ![c].late = FALSE]
            /\ streams' = With(streams, c,
                 [FreshStream EXCEPT !.granted =
                    IF c \in Uploads THEN 0 ELSE ReceiverCeiling(c, FreshStream)])
            /\ UNCHANGED <<buried, retired, outcome, task>>

\* Mutant of CreditValid: every CREDIT must acknowledge something.
CreditValidAdvancing(c, s, acc, send) ==
    /\ c \in Uploads
    /\ acc <= send /\ send >= s.send_through
    /\ acc > s.accepted /\ acc <= s.sent

CreditValid(c, s, acc, send) ==
    /\ c \in Uploads
    /\ acc <= send /\ send >= s.send_through
    /\ acc >= s.accepted /\ acc <= s.sent

\* StreamTable::on_credit.
OnCredit(c, acc, send) ==
    LET s == streams[c]
        credited == [s EXCEPT !.send_through = send, !.accepted = acc,
                              !.fresh = @ \/ acc > s.accepted]
    IN  CASE Phase(c) # "Active" -> Unmoved /\ UNCHANGED task
          [] Phase(c) = "Active" /\ ~CreditValid(c, s, acc, send) ->
                Fail(c, "fault") /\ UNCHANGED task
          [] Phase(c) = "Active" /\ CreditValid(c, s, acc, send) ->
                Advance(c, credited) /\ task' = Pumped(c, credited)

DataValid(c, s, offset, len) ==
    /\ c \notin Uploads
    /\ len > 0 /\ offset = s.accepted
    /\ offset + len <= s.granted /\ offset + len <= Total[c]

\* StreamTable::on_data, and what the sink answers in the same drive:
\* on_sink_accepted or on_sink_failed.
OnData(c, offset, len, sinks) ==
    LET s == streams[c]
        got == [s EXCEPT !.accepted = offset + len, !.fresh = TRUE]
    IN  /\ CASE Phase(c) # "Active" -> Unmoved
             [] Phase(c) = "Active" /\ ~DataValid(c, s, offset, len) -> Fail(c, "fault")
             [] Phase(c) = "Active" /\ DataValid(c, s, offset, len) /\ ~sinks -> Fail(c, "timeout")
             [] Phase(c) = "Active" /\ DataValid(c, s, offset, len) /\ sinks ->
                   Advance(c, [got EXCEPT !.granted = ReceiverCeiling(c, got)])
        /\ UNCHANGED task

\* StreamTable::on_end.
OnEnd(c, offset) ==
    LET valid == c \notin Uploads /\ offset = Total[c] /\ streams[c].accepted = Total[c]
    IN  /\ CASE Phase(c) # "Active" -> Unmoved
             [] Phase(c) = "Active" /\ ~valid -> Fail(c, "fault")
             [] Phase(c) = "Active" /\ valid ->
                   /\ streams' = [streams EXCEPT ![c] = Finalized(@)]
                   /\ UNCHANGED <<ledger, buried, retired, outcome>>
        /\ UNCHANGED task

\* StreamTable::on_abort: ACK, and wait for the reply that says why.
OnAbort(c) ==
    /\ streams' = IF Phase(c) = "Active" THEN [streams EXCEPT ![c] = Finalized(@)] ELSE streams
    /\ UNCHANGED <<ledger, buried, retired, outcome, task>>

\* Mutant of OnAck: an ACK for our stream retires it in any phase.
OnAckAnyPhase(c) ==
    /\ IF Installed(c) THEN Retire(c, streams) ELSE UNCHANGED <<streams, retired>>
    /\ UNCHANGED <<ledger, buried, outcome, task>>

\* StreamTable::on_ack: it completes the exchange of our ABORT, or is a fault.
OnAck(c) ==
    /\ CASE Phase(c) = "Retired" -> Retire(c, streams) /\ UNCHANGED <<ledger, buried, outcome>>
         [] Phase(c) = "Active" -> Fail(c, "fault")
         [] Phase(c) \notin {"Retired", "Active"} -> Unmoved
    /\ UNCHANGED task

\* The driver prunes the stream when it decodes the terminal reply.
NoTask == [len |-> 0, grants |-> <<>>, pos |-> 0, owed |-> <<>>, over |-> TRUE]

Settled(c, ok) == CASE ledger[c].late -> "timeout"
                    [] ~ledger[c].late /\ ok -> "ok"
                    [] ~ledger[c].late /\ ~ok -> "refused"

\* Core::on_reply of a stream call.
OnReply(c, ok) ==
    /\ IF ok /\ Phase(c) = "Active"
       THEN Fail(c, "fault")
       ELSE /\ ledger' = Drop(ledger, c)
            /\ streams' = Drop(streams, c)
            /\ retired' = Without(retired, c)
            /\ buried' = Without(buried, c)
            /\ outcome' = IF Live(c) THEN [outcome EXCEPT ![c] = Settled(c, ok)] ELSE outcome
    /\ task' = [task EXCEPT ![c] = NoTask]

-----------------------------------------------------------------------------
(* What the daemon may say.                                                *)

Offsets(c) == 0 .. Total[c] + 1
Charge == junk < MaxJunk /\ junk' = junk + 1
Said(c, what) == peer' = [peer EXCEPT ![c] = what]

Open(c) ==
    /\ Resolves(c)
    /\ IF peer[c] = "silent" THEN UNCHANGED junk ELSE Charge
    /\ Said(c, IF peer[c] = "silent" THEN "open" ELSE peer[c])
    /\ OnOpen(c)

\* It raises an offset, acknowledges bytes that are on the wire, and takes
\* nothing back.
Credit(c, acc, send) ==
    /\ Resolves(c) /\ Installed(c)
    /\ IF LET s == streams[c]
          IN  /\ c \in Uploads /\ peer[c] = "open"
              /\ acc \in s.accepted .. task[c].pos
              /\ send \in Max2(acc, s.send_through) .. Total[c] + 1
              /\ acc > s.accepted \/ send > s.send_through
       THEN UNCHANGED junk ELSE Charge
    /\ OnCredit(c, acc, send)
    /\ UNCHANGED peer

\* It sends what the client granted, in order.
Data(c, offset, len, sinks) ==
    /\ Resolves(c) /\ Installed(c)
    /\ IF c \notin Uploads /\ peer[c] = "open" /\ DataValid(c, streams[c], offset, len) /\ sinks
       THEN UNCHANGED junk ELSE Charge
    /\ OnData(c, offset, len, sinks)
    /\ UNCHANGED peer

\* It ends when the client has acknowledged every byte.
End(c, offset) ==
    /\ Resolves(c) /\ Installed(c)
    /\ IF c \notin Uploads /\ peer[c] = "open" /\ offset = Total[c] /\ streams[c].accepted = Total[c]
       THEN UNCHANGED junk ELSE Charge
    /\ OnEnd(c, offset)
    /\ UNCHANGED peer

Abort(c) ==
    /\ Resolves(c)
    /\ peer[c] = "open"
    /\ Said(c, "aborted")
    /\ OnAbort(c)
    /\ UNCHANGED junk

Ack(c) ==
    /\ Resolves(c) /\ Installed(c)
    /\ IF Phase(c) = "Retired" THEN UNCHANGED junk ELSE Charge
    /\ OnAck(c)
    /\ UNCHANGED peer

\* The driver could not decode a record of the stream (Input::StreamFault).
Fault(c) ==
    /\ Resolves(c) /\ Installed(c)
    /\ Charge
    /\ Fail(c, "fault")
    /\ UNCHANGED <<task, peer>>

\* Success is said after END, or at once for a request answered before.
Reply(c, ok) ==
    /\ Resolves(c)
    /\ IF ok => peer[c] = "silent" \/ (Phase(c) = "Finalizing" /\ peer[c] = "open")
       THEN UNCHANGED junk ELSE Charge
    /\ OnReply(c, ok)
    /\ UNCHANGED peer

FromDaemon(c) ==
    \/ Open(c)
    \/ \E acc, send \in Offsets(c) : Credit(c, acc, send)
    \/ \E offset, len \in Offsets(c), sinks \in BOOLEAN : Data(c, offset, len, sinks)
    \/ \E offset \in Offsets(c) : End(c, offset)
    \/ Abort(c)
    \/ Ack(c)
    \/ Fault(c)
    \/ \E ok \in BOOLEAN : Reply(c, ok)

-----------------------------------------------------------------------------
(* The media task: it fulfils one grant, then reports it.                  *)

\* source_task up to the end of a grant: the bytes are on the wire.
Fulfil(c) ==
    LET t     == task[c]
        up_to == Head(t.grants)
        read  == Min2(up_to, t.len - t.pos)
        atEnd == t.pos + read = t.len
        owed  == (IF read > 0 /\ read = up_to THEN <<"produced">> ELSE <<>>)
                 \o (IF atEnd THEN <<"end">> ELSE <<>>)
    IN  /\ t.owed = <<>> /\ ~t.over /\ t.grants # <<>>
        /\ task' = [task EXCEPT ![c].pos = @ + read, ![c].owed = owed,
                                ![c].over = atEnd, ![c].grants = Tail(@)]
        /\ Unmoved /\ UNCHANGED <<peer, junk>>

\* A read that fails, or a record that cannot be framed.
SourceBreaks(c) ==
    /\ task[c].owed = <<>> /\ ~task[c].over /\ task[c].grants # <<>>
    /\ Charge
    /\ task' = [task EXCEPT ![c].owed = <<"failed">>, ![c].over = TRUE, ![c].grants = <<>>]
    /\ Unmoved /\ UNCHANGED peer

Reported(t) == [t EXCEPT !.owed = Tail(@)]

\* on_produced, on_source_end and on_source_failed.
Report(c) ==
    LET s == streams[c]
        t == task[c]
        counted == [s EXCEPT !.sent = Max2(@, t.pos)]
        closed  == [counted EXCEPT !.source_ended = TRUE]
    IN  /\ t.owed # <<>>
        /\ CASE Head(t.owed) = "produced" ->
                  IF Phase(c) = "Active"
                  THEN Advance(c, counted) /\ task' = [Pumped(c, counted) EXCEPT ![c] = Reported(@)]
                  ELSE Unmoved /\ task' = [task EXCEPT ![c] = Reported(@)]
             [] Head(t.owed) = "end" ->
                  /\ IF Installed(c) THEN Advance(c, closed) ELSE Unmoved
                  /\ task' = [task EXCEPT ![c] = Reported(@)]
             [] Head(t.owed) = "failed" ->
                  /\ Fail(c, "timeout")
                  /\ task' = [task EXCEPT ![c] = Reported(@)]
        /\ UNCHANGED <<peer, junk>>

-----------------------------------------------------------------------------
(* Calls, timers and the connection.                                       *)

InFlightCount == Cardinality({c \in DOMAIN ledger : Live(c)})

\* Core::on_dispatch: the cap counts tombstones too.
Refuse(c) ==
    /\ outcome[c] = "none" /\ ~Resolves(c)
    /\ Cardinality(DOMAIN ledger) >= MaxStreams
    /\ outcome' = [outcome EXCEPT ![c] = "queue_full"]
    /\ UNCHANGED <<ledger, buried, streams, retired, task, peer, junk>>

Send(c) ==
    /\ outcome[c] = "none" /\ ~Resolves(c)
    /\ Cardinality(DOMAIN ledger) < MaxStreams
    /\ InFlightCount < InFlight
    /\ ledger' = With(ledger, c, FreshEntry)
    /\ UNCHANGED <<buried, streams, retired, outcome, task, peer, junk>>

\* Core::on_cancel of a sent call: ABORT for an active stream, then a tombstone
\* with whatever timer the entry has.
Cancel(c) ==
    /\ Live(c)
    /\ IF Phase(c) = "Active" THEN Retire(c, streams) ELSE UNCHANGED <<streams, retired>>
    /\ Bury(c, [ledger EXCEPT ![c].cancelled = TRUE])
    /\ outcome' = [outcome EXCEPT ![c] = "dropped"]
    /\ UNCHANGED <<task, peer, junk>>

\* The absolute deadline of a call: the base one, or the stream's after OPEN.
DeadlinePasses(c) ==
    /\ Live(c) /\ ~ledger[c].late
    /\ ledger' = [ledger EXCEPT ![c].late = TRUE]
    /\ UNCHANGED <<buried, streams, retired, outcome, task, peer, junk>>

\* Core::on_timer_fired of a ledger timer.
CallTimer(c) ==
    /\ Resolves(c) /\ ledger[c].timer # "none"
    /\ IF Live(c)
       THEN ledger[c].late /\ SettleFailure(c, "timeout")
       ELSE /\ ledger' = Drop(ledger, c)
            /\ buried' = Without(buried, c)
            /\ UNCHANGED outcome
    /\ UNCHANGED <<streams, retired, task, peer, junk>>

DeadlineTimer(c) ==
    /\ Phase(c) = "Active" /\ streams[c].deadline
    /\ Resolves(c) /\ ledger[c].late
    /\ Fail(c, "timeout")
    /\ UNCHANGED <<task, peer, junk>>

\* The stall timer: it fails the stream, or defers itself if there was progress.
StallTimer(c) ==
    /\ Phase(c) = "Active" /\ streams[c].stall
    /\ \/ Fail(c, "timeout")
       \/ /\ streams[c].fresh
          /\ streams' = [streams EXCEPT ![c].fresh = FALSE]
          /\ UNCHANGED <<ledger, buried, retired, outcome>>
    /\ UNCHANGED <<task, peer, junk>>

\* Core::on_interrupted: streams do not survive their connection.
Interrupted ==
    /\ DOMAIN ledger # {}
    /\ outcome' = [c \in Calls |-> IF ~Live(c) THEN outcome[c]
                                   ELSE IF ledger[c].late THEN "timeout" ELSE "disconnected"]
    /\ ledger' = Nothing /\ buried' = <<>>
    /\ streams' = Nothing /\ retired' = <<>>
    /\ task' = [c \in Calls |-> NoTask]
    /\ UNCHANGED <<peer, junk>>

-----------------------------------------------------------------------------

Next ==
    \/ \E c \in Calls :
         \/ Send(c)
         \/ Refuse(c)
         \/ Cancel(c)
         \/ FromDaemon(c)
         \/ Fulfil(c)
         \/ SourceBreaks(c)
         \/ Report(c)
         \/ DeadlinePasses(c)
         \/ CallTimer(c)
         \/ DeadlineTimer(c)
         \/ StallTimer(c)
    \/ Interrupted

Spec == Init /\ [][Next]_vars

\* Time passes and the driver fires an armed timer; the daemon owes nothing.
FairSpec ==
    /\ Spec
    /\ \A c \in Calls : /\ WF_vars(DeadlinePasses(c))
                        /\ WF_vars(CallTimer(c))
                        /\ WF_vars(DeadlineTimer(c))

-----------------------------------------------------------------------------
(* Properties.                                                             *)

\* StreamTable and Core keep two ledgers of one call and two sets of timers, handed
\* over at OPEN.  An unsettled call always has something that will end it without the daemon,
\* its base timer or the stream's, except while it waits for the terminal reply;
\* no timer is left on a stream that is over; tombstones of both tables are
\* exactly the calls buried in their queues, which never outgrow their caps.
TimersGuardCalls ==
    /\ \A c \in Calls : Live(c) =>
         /\ outcome[c] = "none"
         /\ ~Installed(c) => ledger[c].timer = "base"
         /\ Phase(c) = "Active" => streams[c].deadline /\ streams[c].stall
         /\ Phase(c) # "Retired"
    /\ \A c \in DOMAIN streams :
         /\ Phase(c) = "Active" => Live(c)
         /\ Phase(c) # "Active" => ~streams[c].deadline /\ ~streams[c].stall
    /\ Elements(buried) = {c \in DOMAIN ledger : ~Live(c)} /\ Distinct(buried)
    /\ Elements(retired) = {c \in DOMAIN streams : Phase(c) = "Retired"} /\ Distinct(retired)
    /\ Len(buried) <= InFlight /\ Len(retired) <= MaxStreams

\* Success is reported only for an exchange that is complete: END was sent for
\* the whole source, all of it acknowledged, or accepted for the whole file; or
\* the daemon answered without a stream, or after its own ABORT.
Complete(c) ==
    /\ Phase(c) = "Finalizing"
    /\ IF c \in Uploads THEN streams[c].accepted = task[c].len ELSE streams[c].accepted = Total[c]

SuccessIsComplete ==
    [][\A c \in Calls : outcome'[c] = "ok" /\ outcome[c] = "none" =>
         peer[c] # "open" \/ Complete(c)]_vars

\* A call on the wire is answered, however silent the daemon: or it waits in
\* FINALIZING, where only the terminal reply or the loss of the connection ends it.
EveryStreamEnds ==
    \A c \in Calls : Live(c) ~> (~Live(c) \/ Phase(c) = "Finalizing")

\* A daemon that follows the protocol is never faulted, whatever its records
\* cross with, but for one race: its CREDIT acknowledges bytes that the media
\* task has put on the wire and has not reported yet, and on_credit compares
\* with what was reported.
HonestDaemonNotFaulted ==
    [][\A c \in Calls : outcome'[c] = "fault" /\ outcome[c] # "fault" /\ junk' = junk =>
         Installed(c) /\ streams[c].sent < task[c].pos]_vars
=============================================================================
