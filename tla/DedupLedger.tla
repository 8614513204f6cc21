----------------------------- MODULE DedupLedger -----------------------------
(***************************************************************************)
(* The op_id dedup ledger of the daemon engine: jeliya-core's engine.rs.   *)
(*                                                                         *)
(* A request is one execution of execute_with, or of gate_file_share and   *)
(* the upload actor behind it (jeliyad, file_share.rs).  The first request *)
(* of a key reserves the key and owns the one effect, which runs detached  *)
(* from the connection; a faithful retry joins the owner or replays its    *)
(* recorded reply; a retry with another body is a conflict.  The ledger    *)
(* lives as long as the process: a restart is a new incarnation with an    *)
(* empty one, while the effects are durable.                               *)
(***************************************************************************)
EXTENDS Naturals, FiniteSets

CONSTANTS
    Requests,         \* executions a behaviour may contain
    Keys,             \* (principal, op_id) pairs
    NoKey,            \* no op_id, or an operation outside is_dedup_op
    Bodies,           \* request fingerprints (operation path and body)
    Malformed,        \* bodies validate_structure refuses
    Uploads,          \* bodies of file.share
    MaxIncarnations   \* bound: daemon processes of a behaviour

ASSUME KeysAssumption == NoKey \notin Keys
ASSUME BodiesAssumption ==
    /\ Bodies # {}
    /\ Malformed \subseteq Bodies
    /\ Uploads \subseteq Bodies
ASSUME IncarnationsAssumption == MaxIncarnations \in Nat \ {0}

VARIABLES
    incarnation,      \* the nonce of this process, as a counter
    subject,          \* the daemon has a subject (subject.ensure ran)
    entries,          \* DedupLedger.entries: key -> LedgerEntry
    owners,           \* live LedgerOwners and inline executions
    watch,            \* the watch channel of each owner, "none" until published
    request,          \* per request, where its handler is
    effects           \* the effects authored, of every incarnation

ledgerVars == <<entries, owners, watch>>
daemonVars == <<incarnation, subject, entries, owners, watch, request, effects>>

-----------------------------------------------------------------------------
(* Types                                                                   *)

\* What a handler may answer.  "refused" is the operation's own error,
\* "not_ready" what a dropped owner publishes, "invalid" a refusal of the
\* validation stages in front of the ledger.
Recordable == {"ok", "refused", "not_ready", "cancelled", "transport_lost"}
Replies == Recordable \cup {"invalid", "conflict"}

Entry == [state : {"InFlight", "Done"}, body_hash : Bodies,
          reply : Recordable \cup {"none"}, cancellation : BOOLEAN]

\* An owner: an upload takes bytes before it runs, unless its connection was
\* gone before the gate ("unaccepted"); "publishing" is between the insertion
\* of the Done entry and send_replace.
Owner == [stage : {"uploading", "unaccepted", "running", "publishing"},
          cancelled : BOOLEAN, reply : Recordable \cup {"none"}]

Request == [stage : {"new", "received", "validated", "waiting", "answered",
                     "gone"},
            key : Keys \cup {NoKey}, body : Bodies, connected : BOOLEAN,
            on : Requests, reply : Replies \cup {"none"}, incarnation : Nat]

Effect == [owner : Requests, key : Keys \cup {NoKey}, body : Bodies,
           incarnation : Nat]

Nothing == [x \in {} |-> x]

-----------------------------------------------------------------------------
(* Helpers                                                                 *)

Keyed(r) == request[r].key # NoKey
Streamed(r) == request[r].body \in Uploads
Running(r) == r \in DOMAIN owners /\ owners[r].stage = "running"
Uploading(r) == r \in DOMAIN owners /\ owners[r].stage = "uploading"
Unaccepted(r) == r \in DOMAIN owners /\ owners[r].stage = "unaccepted"

\* The reply reaches the client if its connection is still there.
Answered(r, v) ==
    [request EXCEPT ![r] = [@ EXCEPT !.reply = v,
        !.stage = IF request[r].connected THEN "answered" ELSE "gone"]]

FirstStage(r) == IF ~Streamed(r) THEN "running"
                 ELSE IF request[r].connected THEN "uploading" ELSE "unaccepted"

NewOwner(stage) == [stage |-> stage, cancelled |-> FALSE, reply |-> "none"]

AddOwner(r, stage) ==
    [o \in DOMAIN owners \cup {r} |->
        IF o = r THEN NewOwner(stage) ELSE owners[o]]
DropOwner(r) == [o \in DOMAIN owners \ {r} |-> owners[o]]

Insert(k, e) ==
    [j \in DOMAIN entries \cup {k} |-> IF j = k THEN e ELSE entries[j]]

-----------------------------------------------------------------------------
(* Actions                                                                 *)

Init ==
    /\ incarnation = 1
    /\ subject \in BOOLEAN
    /\ entries = Nothing
    /\ owners = Nothing
    /\ watch = [r \in Requests |-> "none"]
    /\ request = [r \in Requests |->
         [stage |-> "new", key |-> NoKey, body |-> CHOOSE b \in Bodies : TRUE,
          connected |-> TRUE, on |-> r, reply |-> "none", incarnation |-> 0]]
    /\ effects = {}

\* A request enters execute_with or run_file_share.
Receive(r, k, b) ==
    /\ request[r].stage = "new"
    /\ b \in Uploads => k # NoKey
    /\ request' = [request EXCEPT ![r] =
         [@ EXCEPT !.stage = "received", !.key = k, !.body = b,
                   !.incarnation = incarnation]]
    /\ UNCHANGED <<incarnation, subject, ledgerVars, effects>>

\* subject.ensure, which only ever adds a subject.
EnsureSubject ==
    /\ ~subject
    /\ subject' = TRUE
    /\ UNCHANGED <<incarnation, ledgerVars, request, effects>>

Valid(r) == request[r].body \notin Malformed /\ subject

\* Mutant of Refuse: the refusal is recorded against the op_id.
RefuseAndRecord(r) ==
    /\ request[r].stage = "received" /\ Keyed(r)
    /\ ~Valid(r)
    /\ request' = Answered(r, "invalid")
    /\ entries' = Insert(request[r].key,
         [state |-> "Done", body_hash |-> request[r].body,
          reply |-> "invalid", cancellation |-> FALSE])
    /\ UNCHANGED <<incarnation, subject, owners, watch, effects>>

\* Validation stages 1 and 2 run before the ledger and leave no trace in it.
Refuse(r) ==
    /\ request[r].stage = "received" /\ Keyed(r)
    /\ ~Valid(r)
    /\ request' = Answered(r, "invalid")
    /\ UNCHANGED <<incarnation, subject, ledgerVars, effects>>

Validate(r) ==
    /\ request[r].stage = "received" /\ Keyed(r)
    /\ Valid(r)
    /\ request' = [request EXCEPT ![r].stage = "validated"]
    /\ UNCHANGED <<incarnation, subject, ledgerVars, effects>>

\* Mutant of Recorded: a key counts only once its effect is complete.
RecordedWhenDone(r) == /\ request[r].key \in DOMAIN entries
                       /\ entries[request[r].key].state = "Done"

\* gate_operation finds the key in the ledger.
Recorded(r) == request[r].key \in DOMAIN entries

\* gate_operation under the ledger's mutex: the first request of a key reserves
\* it and becomes the owner.  A plain call's effect is spawned at once.
GateOwner(r) ==
    /\ request[r].stage = "validated"
    /\ ~Recorded(r)
    /\ entries' = Insert(request[r].key,
         [state |-> "InFlight", body_hash |-> request[r].body,
          reply |-> "none", cancellation |-> FALSE])
    /\ owners' = AddOwner(r, FirstStage(r))
    /\ request' = [request EXCEPT ![r] = [@ EXCEPT !.stage = "waiting",
                                                   !.on = r]]
    /\ UNCHANGED <<incarnation, subject, watch, effects>>

\* A faithful retry: it joins the running owner, or replays the recorded reply.
GateReplay(r) ==
    /\ request[r].stage = "validated"
    /\ Recorded(r)
    /\ entries[request[r].key].body_hash = request[r].body
    /\ \/ /\ entries[request[r].key].state = "InFlight"
          /\ \E o \in DOMAIN owners :
               /\ request[o].key = request[r].key
               /\ request' = [request EXCEPT ![r] = [@ EXCEPT
                                !.stage = "waiting", !.on = o]]
       \/ /\ entries[request[r].key].state = "Done"
          /\ request' = Answered(r, entries[request[r].key].reply)
    /\ UNCHANGED <<incarnation, subject, ledgerVars, effects>>

\* The same op_id with another body.
GateConflict(r) ==
    /\ request[r].stage = "validated"
    /\ Recorded(r)
    /\ entries[request[r].key].body_hash # request[r].body
    /\ request' = Answered(r, "conflict")
    /\ UNCHANGED <<incarnation, subject, ledgerVars, effects>>

\* An undeduplicated call is dispatched inline, in the connection's own task.
RunInline(r) ==
    /\ request[r].stage = "received" /\ ~Keyed(r)
    /\ owners' = AddOwner(r, "running")
    /\ request' = [request EXCEPT ![r].stage = "waiting"]
    /\ UNCHANGED <<incarnation, subject, entries, watch, effects>>

\* typed::dispatch, or the finalizer of an upload, authors the signed fact.
Author(r) ==
    /\ Running(r)
    /\ \A e \in effects : e.owner # r
    /\ request[r].body \notin Malformed /\ subject
    /\ effects' = effects \cup
         {[owner |-> r, key |-> request[r].key, body |-> request[r].body,
           incarnation |-> incarnation]}
    /\ UNCHANGED <<incarnation, subject, ledgerVars, request>>

\* Mutant of Publish: an error frees the key again.
PublishSuccessOnly(r, v) ==
    /\ entries' = IF v = "ok"
         THEN Insert(request[r].key,
                [entries[request[r].key] EXCEPT !.state = "Done", !.reply = v])
         ELSE [k \in DOMAIN entries \ {request[r].key} |-> entries[k]]
    /\ owners' = [owners EXCEPT ![r].stage = "publishing", ![r].reply = v]

\* LedgerOwner::publish, first half: the entry is Done, its cancellation kept.
Publish(r, v) ==
    /\ entries' = Insert(request[r].key,
         [entries[request[r].key] EXCEPT !.state = "Done", !.reply = v])
    /\ owners' = [owners EXCEPT ![r].stage = "publishing", ![r].reply = v]

\* What FileShareLedgerOwner::complete and drop publish: a cancellation the
\* daemon selected overrides the result.
Terminal(r, v) == IF owners[r].cancelled THEN "cancelled" ELSE v

\* What the owner's destructor publishes when its task panics.
Dropped(r) == IF Streamed(r) THEN "transport_lost" ELSE "not_ready"

\* dispatch or finalize returned, with the effect or without it, or the owning
\* task panicked.
Finish(r, v) ==
    /\ Running(r)
    /\ v \in {"ok", "refused", Dropped(r)}
    /\ v = "ok" => \E e \in effects : e.owner = r
    /\ IF Keyed(r)
       THEN Publish(r, Terminal(r, v)) /\ UNCHANGED request
       ELSE /\ owners' = DropOwner(r)
            /\ request' = Answered(r, v)
            /\ UNCHANGED entries
    /\ UNCHANGED <<incarnation, subject, watch, effects>>

\* Mutant of Announce: the destructor publishes again after a completion.
AnnounceTwice(r) ==
    /\ r \in DOMAIN owners /\ owners[r].stage = "publishing"
    /\ watch' = [watch EXCEPT ![r] = owners[r].reply]
    /\ owners' = DropOwner(r)
    /\ entries' = [entries EXCEPT ![request[r].key].reply = Dropped(r)]
    /\ UNCHANGED <<incarnation, subject, request, effects>>

\* publish, second half: send_replace wakes the joiners; the owner is gone.
Announce(r) ==
    /\ r \in DOMAIN owners /\ owners[r].stage = "publishing"
    /\ watch' = [watch EXCEPT ![r] = owners[r].reply]
    /\ owners' = DropOwner(r)
    /\ UNCHANGED <<incarnation, subject, entries, request, effects>>

\* LedgerWaiter::wait returns.
Wake(r) ==
    /\ request[r].stage = "waiting"
    /\ watch[request[r].on] # "none"
    /\ request' = Answered(r, watch[request[r].on])
    /\ UNCHANGED <<incarnation, subject, ledgerVars, effects>>

\* transfer.cancel reaches an active upload: the ledger entry is annotated.
SelectCancelled(r) ==
    /\ Uploading(r) /\ request[r].connected
    /\ ~owners[r].cancelled
    /\ owners' = [owners EXCEPT ![r].cancelled = TRUE]
    /\ entries' = [entries EXCEPT ![request[r].key].cancellation = TRUE]
    /\ UNCHANGED <<incarnation, subject, watch, request, effects>>

\* Mutant of Finalize: an END queued behind the cancellation is honoured.
FinalizeAnyway(r) ==
    /\ Uploading(r)
    /\ owners' = [owners EXCEPT ![r].stage = "running"]
    /\ UNCHANGED <<incarnation, subject, entries, watch, request, effects>>

\* The exact END was accepted: the upload runs detached to its result.
Finalize(r) ==
    /\ Uploading(r)
    /\ ~owners[r].cancelled
    /\ owners' = [owners EXCEPT ![r].stage = "running"]
    /\ UNCHANGED <<incarnation, subject, entries, watch, request, effects>>

\* The upload ends before its END: the actor notices the lost transport, or
\* completes with the refusal of a stall, a deadline, a fault or a cancel.
UploadEnds(r) ==
    /\ \/ /\ Uploading(r) \/ Unaccepted(r)
          /\ ~request[r].connected
          /\ Publish(r, Terminal(r, "transport_lost"))
       \/ Uploading(r) /\ Publish(r, Terminal(r, "refused"))
    /\ UNCHANGED <<incarnation, subject, watch, request, effects>>

\* Mutant of ConnectionLost: the effect is not detached from the handler.
ConnectionLostWithOwner(r) ==
    /\ request[r].connected
    /\ request[r].stage \in {"received", "validated", "waiting"}
    /\ request' = [request EXCEPT ![r] = [@ EXCEPT !.connected = FALSE,
                                                   !.stage = "gone"]]
    /\ owners' = DropOwner(r)
    /\ UNCHANGED <<incarnation, subject, entries, watch, effects>>

\* The connection's task set is aborted: a call's handler is dropped where it
\* waits, an inline execution with it.  An owned effect and an upload actor are
\* detached and go on.
ConnectionLost(r) ==
    /\ request[r].connected
    /\ request[r].stage \in {"received", "validated", "waiting"}
    /\ request' = [request EXCEPT ![r] = [@ EXCEPT !.connected = FALSE,
         !.stage = IF Streamed(r) THEN request[r].stage ELSE "gone"]]
    /\ owners' = IF Keyed(r) THEN owners ELSE DropOwner(r)
    /\ UNCHANGED <<incarnation, subject, entries, watch, effects>>

\* The process dies and a new one starts: only the effects survive.
Restart ==
    /\ incarnation < MaxIncarnations
    /\ incarnation' = incarnation + 1
    /\ entries' = Nothing
    /\ owners' = Nothing
    /\ watch' = [r \in Requests |-> "none"]
    /\ request' = [r \in Requests |->
         IF request[r].stage \in {"received", "validated", "waiting"}
         THEN [request[r] EXCEPT !.stage = "gone", !.connected = FALSE]
         ELSE request[r]]
    /\ UNCHANGED <<subject, effects>>

-----------------------------------------------------------------------------
(* Specification                                                           *)

\* The steps the handlers and the detached tasks of the process take.
Handle(r) ==
    \/ Refuse(r)
    \/ Validate(r)
    \/ GateOwner(r)
    \/ GateReplay(r)
    \/ GateConflict(r)
    \/ RunInline(r)
    \/ Announce(r)
    \/ Wake(r)

Effectful(r) ==
    \/ Author(r)
    \/ \E v \in Recordable : Finish(r, v)

Upload(r) == SelectCancelled(r) \/ Finalize(r) \/ UploadEnds(r)

DaemonStep(r) == Handle(r) \/ Effectful(r) \/ Upload(r) \/ ConnectionLost(r)

Next ==
    \/ \E r \in Requests, k \in Keys \cup {NoKey}, b \in Bodies : Receive(r, k, b)
    \/ EnsureSubject
    \/ \E r \in Requests : DaemonStep(r)
    \/ Restart

Spec == Init /\ [][Next]_daemonVars

\* The runtime polls every ready task, every operation returns, and an upload
\* ends (its deadline and stall timers bound it).
FairSpec ==
    /\ Spec
    /\ \A r \in Requests :
         /\ WF_daemonVars(Handle(r))
         /\ WF_daemonVars(\E v \in Recordable : Finish(r, v))
         /\ WF_daemonVars(Finalize(r) \/ UploadEnds(r))

-----------------------------------------------------------------------------
(* Properties                                                              *)

\* Every variable has its type.
TypeOK ==
    /\ incarnation \in 1..MaxIncarnations
    /\ subject \in BOOLEAN
    /\ DOMAIN entries \subseteq Keys
    /\ \A k \in DOMAIN entries : entries[k] \in Entry
    /\ DOMAIN owners \subseteq Requests
    /\ \A r \in DOMAIN owners : owners[r] \in Owner
    /\ watch \in [Requests -> Recordable \cup {"none"}]
    /\ request \in [Requests -> Request]
    /\ effects \subseteq Effect

\* One op_id has at most one effect per daemon process, however many requests
\* carry it, overlap, lose their connection, fail or are cancelled.
AtMostOneEffect ==
    \A e, f \in effects :
      e.key = f.key /\ e.key # NoKey /\ e.incarnation = f.incarnation => e = f

FromLedger(r) == /\ request[r].stage = "answered"
                 /\ request[r].key # NoKey
                 /\ request[r].reply \in Recordable

\* Every request of one key and body that a process answers from the ledger,
\* owner, joiner or replay, early or late, gets the same reply.
FaithfulReplay ==
    \A r, s \in Requests :
      /\ FromLedger(r) /\ FromLedger(s)
      /\ request[r].key = request[s].key
      /\ request[r].body = request[s].body
      /\ request[r].incarnation = request[s].incarnation
      => request[r].reply = request[s].reply

Authored(r) == {e \in effects : /\ e.key = request[r].key
                                /\ e.body = request[r].body
                                /\ e.incarnation = request[r].incarnation}

\* Success is answered only for an effect that was authored in this process,
\* and a cancelled upload never authors one, not even later.
AnswersBacked ==
    \A r \in Requests : FromLedger(r) =>
      /\ request[r].reply = "ok" => Authored(r) # {}
      /\ request[r].reply = "cancelled" => Authored(r) = {}

\* op_id_conflict is answered only when a request with another, well-formed
\* body holds the key: a request the client repaired and retried under the same
\* key after a validation refusal is not in conflict with itself.
ConflictIsReal ==
    \A r \in Requests :
      request[r].stage = "answered" /\ request[r].reply = "conflict" =>
        \E s \in Requests : /\ request[s].key = request[r].key
                            /\ request[s].incarnation = request[r].incarnation
                            /\ request[s].body # request[r].body
                            /\ request[s].body \notin Malformed

\* A reserved key has exactly one owner that will publish it, whatever became
\* of the connection it came from, and a joiner waits on an owner that is alive
\* or has spoken.
EveryReservationOwned ==
    /\ \A k \in DOMAIN entries : entries[k].state = "InFlight" =>
         \E o \in DOMAIN owners :
           /\ request[o].key = k
           /\ owners[o].stage # "publishing"
           /\ \A p \in DOMAIN owners : request[p].key = k => p = o
    /\ \A r \in Requests : request[r].stage = "waiting" =>
         request[r].on \in DOMAIN owners \/ watch[request[r].on] # "none"

\* Once transfer.cancel has been told "cancelled", the upload never runs and
\* its recorded result is that cancellation.
CancellationSticks ==
    \A k \in DOMAIN entries : entries[k].cancellation =>
      /\ entries[k].state = "Done" => entries[k].reply = "cancelled"
      /\ \A e \in effects : e.key # k \/ e.incarnation # incarnation

\* Whatever a request is answered is true of what the process did and has.
RepliesTrue == AnswersBacked /\ ConflictIsReal /\ CancellationSticks

\* A recorded reply is final for the life of the process.
RecordedIsFinal ==
    [][incarnation' = incarnation =>
         \A k \in DOMAIN entries :
           /\ k \in DOMAIN entries'
           /\ entries[k].state = "Done" => entries'[k] = entries[k]]_daemonVars

\* Every request is answered, unless its connection or its process dies.
EveryRequestAnswered ==
    \A r \in Requests :
      (request[r].stage \in {"received", "validated", "waiting"})
        ~> (request[r].stage \in {"answered", "gone"})
=============================================================================
