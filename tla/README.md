# Jeliya in TLA+

Specifications, model-checking configurations and proofs for the parts of
jeliya whose correctness depends on the order in which things happen. Every
definition is a translation of the Rust under `src/crates/`; line numbers are in
`PROJECT.json` (`map`).

## 1. The system

Jeliya is a local-first rooms application. A daemon (`jeliyad`) owns the rooms of
one data directory and serves a local WebSocket protocol; clients (native, web,
in-process) speak it through `jeliya-client`.

| Part | Crate, files | State it keeps | Operations | Talks to |
|---|---|---|---|---|
| Client kernel, request/reply | `jeliya-client/src/kernel/core.rs`, `inflight.rs`, `admission.rs`, `replay.rs`, `ids.rs` | lifecycle, call ledger, wire index, queue, replay hold, tombstones, counters | `step(Input)`: dispatch, cancel, start, stop, dial outcomes, loss, reply, timers | runtime shell (actions), daemon (frames) |
| Client kernel, byte streams | `kernel/streaming.rs` | one `StreamEntry` per stream, its two timers, credit, its own tombstones | records, media events, timers | kernel core, media tasks |
| Kernel runtime shell | `kernel/mod.rs`, `runtime.rs` | reply senders, delivery queue, drainer flag | `inject`, `drive`, `drain_delivery` | callers, driver I/O |
| Event bus | `jeliya-client/src/event.rs` | bounded mailbox per subscriber, loss marker | broadcast, coalesce, poll | kernel, reconciler, UI |
| Reconciler | `jeliya-client/src/reconcile/` | per room: epoch, read in flight, live buffer, view | activate, forget, event, read reply, resume, stop | kernel (reads), event bus |
| Adapters | `direct/`, `adapter/`, `ws_web/` | sockets, media tasks | dial, send, receive | kernel, daemon |
| Daemon connection | `jeliyad/src/serve.rs` | request permits, in-flight tasks, subscriptions | dispatch, subscribe, teardown | engine, writer, actors |
| Outbound writer | `jeliyad/src/outbound.rs` | command queues, byte semaphores, terminal latch | text, data, control, cancel, invalidate | socket |
| Upload and download actors | `jeliyad/src/file_share.rs`, `file_read.rs` | phase, credit, terminal order | records, cancel, finalize | engine ledger, writer, pool |
| Transfer pool | `jeliyad/src/transfer.rs` | reserved count and bytes | reserve, drop | actors |
| Engine | `jeliya-core/src/engine.rs` | dedup ledger, push channel | `execute_with`, `gate_file_share`, push loop | supervisor, connections |
| Room supervisor, typed operations | `jeliya-core/src/supervisor.rs`, `typed.rs`, `materializer.rs`, `projection.rs` | open rooms, sessions, seen sets | one function per operation | iroh-rooms |
| Daemon lifecycle | `jeliyad/src/lifecycle.rs` | instance lock, portfile | acquire or adopt, shutdown | file system, other daemons |
| Sidecar supervisor | `jeliya-supervisor/` | child, portfile, health | start or adopt, stop | daemon lifecycle |
| Codec, API, platform, UI, FFI | `jeliya-codec`, `jeliya-api`, `jeliya-platform`, ... | none or presentation | parse, format, render | all |

What is hard, by part (every item with its line is in `PROJECT.json`, `hazards`):

- **Kernel**: wire ids restart on every connection, so late replies must be
  fenced by generation; a loss reclassifies every sent call into four groups;
  deadline, reply, cancel and loss race; counters and byte charges are kept by
  hand on many paths; dial outcomes of retired attempts arrive late. Correct
  when every call is settled once, honestly, with its own answer, and every table
  is exact and bounded.
- **Dedup ledger**: requests with one `op_id` overlap, lose their connection or
  their task, or are cancelled. Correct when one key has one effect and one
  final reply per process.
- **Client with daemon**: the ledger is in memory and dies with the process.
  Correct when a replay never repeats an effect and "not executed" stays true.
- **Byte streams**: two ledgers and two sets of timers for one call; credit, DATA, END
  and the reply race with the media task's reports. Correct when success is complete
  and every call on the wire ends.
- **Upload actor**: several terminals race, immune phases have no timer, credit is
  cumulative. Correct when one terminal wins and every reservation is returned once.
- **Runtime shell**: several threads and re-entrant wakers share one delivery queue
  and one drainer. Correct when wakes run in drive order, none is left behind, and
  a stop that is reported is done.
- **Push loop**: two collectors rank one history under a lock and emit outside it; a
  bounded channel overwrites. Correct when every event is pushed once and a
  subscriber never silently holds another history than the daemon's.
- **Event bus, reconciler**: pushes, paged reads, gaps, losses and redirects of the
  same room cross each other. Correct when a view that calls itself converged is the
  daemon's history, no loss is forgotten and reconciling ends.
- **Adoption**: lock, portfile and health answer at different times.

## 2. Modules

| Module | Models | Notes |
|---|---|---|
| `Kernel` | the request/reply kernel | one action per `Input` handler |
| `MCKernel` | call shapes for TLC | |
| `Queues` | the queues of ids beside the kernel's tables, as operators | used by `Kernel` and `KernelStream` |
| `KernelCallProofs` | theorems about `Kernel`: the lifecycle, the calls, the exactness of the tables; and about `Session`, the refinement of `Mutation` among them | TLAPS |
| `KernelStream` | byte streams of the kernel with the native media task | one connection |
| `MCKernelStream` | sizes for TLC | |
| `KernelStreamProofs` | theorems about `KernelStream` | TLAPS |
| `KernelRuntime` | the async shell: lock, delivery queue, drainer, reply and stop futures | the core reduced to what it asks of the shell |
| `MCKernelRuntime` | interchangeable threads for TLC | |
| `KernelRuntimeProofs` | theorems about `KernelRuntime`: the delivery of wakes, the answers, the stop | TLAPS |
| `DedupLedger` | the engine's ledger and the upload owner's side of it | |
| `MCDedupLedger` | requests, keys and bodies for TLC | |
| `DedupLedgerProofs` | theorems about `DedupLedger` | TLAPS |
| `Mutation` | the abstract promise to the caller of an operation | no code of its own |
| `Session` | `Kernel` and `DedupLedger` composed; implements `Mutation` | |
| `MCSession` | call shapes for TLC | |
| `EventBus` | the mailbox of one subscriber, as operators | used by `Reconciler` |
| `RoomState` | one room of the reconciler, as operators on its state | used by `Reconciler` |
| `Reconciler` | the reconciler's core and driver, its mailbox, its reads and the daemon | composes the two above |
| `MCReconciler` | instance for TLC | |
| `ReconcilerProofs` | theorems about `Reconciler` and the operators it is built from: how far a room knows the history, and the loss it counts | TLAPS |
| `ReconcilerViewProofs` | theorems about what a room of `Reconciler` knows | TLAPS |
| `PushFanout` | the daemon's push stream of one room, to a subscriber | |
| `MCPushFanout` | instance for TLC, and the collecting loop as a fold | |
| `Upload` | one streamed upload in the daemon: ingress, terminal tickets, actor, writer hooks, `transfer.cancel` | the producer is external |
| `PushFanoutProofs` | theorems about `PushFanout` | TLAPS |
| `UploadInvariants` | the parts of the inductive invariants of `Upload`, and its steps as the proofs describe them | |
| `UploadProofs` | theorems about `Upload` | TLAPS |
| `MCUpload` | symmetry and view for TLC | |

Definitions named "Mutant of X" are plausible bugs of X, kept beside it to show
that the property they break depends on X; no specification uses them. A type
invariant is run where the shapes of the state say something that could be wrong
(`Kernel`, `DedupLedger`) and is part of the inductive invariants of the proofs.

### Kernel

A state is the state of `Core` between two inputs. Each handler is one action up
to and including the `flush` it ends with (`Flush`), because `step` runs under
the runtime's lock and returns its actions in one batch.

| Code | Model |
|---|---|
| `Ledger.entries`, `Entry`, `Phase` | `ledger`, a function over the live call ids; `phase`, `wire_id`, `generation` per entry |
| `deadline_at <= now` | the entry's `expired`, set by `DeadlinePasses`. All calls have the same budget, so deadlines pass in dispatch order. The timer handler (`TimerFires`) is a later, separate step, as the driver may deliver another input first |
| `Admission` | `queued_count`, `queued_bytes`, with `saturating_sub` as `SatSub` |
| `Action::Settle`, `DropSender` | `outcome`, the content of each reply future. A second settlement and another call's answer are recorded as the error values `twice` and `misrouted` |
| `Action::Send` | `wire`, the set of all frames ever sent with their generation and daemon incarnation |
| dial tokens, backoff timer | `pending_dial`, `next_dial_token`, `backoff_timer`; the delay itself is not modelled |
| `ReplayPolicy::derive` | `Replayable`: `keyed` stands for mutating, with an `op_id`, of the deduplicated set |
| the loops of `on_interrupted`, `on_connected`, `fail_all`, `on_stop` | one set-valued step each; the order of a hash map is a choice (`InCallOrder` is the sorted one) |

The environment is nondeterministic: any dial token ever minted may get any
outcome, any generation may report its loss, the answer to any frame ever sent
may arrive at any time and any number of times. A daemon process is a number; a
later dial meets the same or a later one.

### KernelStream

Stream calls from the moment their request is on the wire, on one connection;
queueing, admission and reconnects are in `Kernel`. `ledger` and `buried` are the
core's table and tombstone queue restricted to stream calls, `streams` and
`retired` those of `StreamTable`.

| Code | Model |
|---|---|
| `StreamEntry` | `streams[c]`: phase, `send_through`, `accepted`, `sent`, `granted`, `source_ended`, its two timers, `fresh` for progress since the stall timer was armed |
| `on_stream_open` | `OnOpen`: the call's own timer is replaced by the stream's two |
| `on_credit`, `on_data`, `on_end`, `on_abort`, `on_ack`, `on_protocol_fault` | `OnCredit` ... ; each with the validation in its own operator |
| `producer_grant`, `receiver_grant` | `ProducerGrant`, `ReceiverCeiling`, with saturating subtraction |
| `fail`, `apply_stream_outcome`, `settle_stream_failure` | `Fail`, `SettleFailure` |
| `retire_to_tombstone`, `push_tombstone` | `Retire`, `Bury`: two queues, two budgets |
| `source_task` of `adapter/media.rs` | `task[c]`: the grants it has, its position in the file, and what it owes the kernel (`Fulfil`, then `Report`) |

The daemon may send any record at any time; what the protocol does not allow it
is charged to `MaxJunk`. A timer that is armed may fire whenever its instant has
passed (`late`), and other inputs may come before it.

### DedupLedger

A request is one call of `execute_with` or one upload task. `Receive`, the
validation stages, the gate, the effect, the publication in two halves
(`Publish` under the mutex, `Announce` for `send_replace`) and the waiter's
wake-up are separate steps, since each is separated from the next by an await or
an unlock. `owners` holds the live `LedgerOwner`s, `watch` the channels, and
`effects` what `typed::dispatch` has authored, which is outside of this
specification and modelled as one durable, atomic fact. `ConnectionLost` is the
abort of the connection's tasks: handlers go, detached owners and upload tasks
stay. `Restart` is a new process: only effects survive. An uploading owner may
be cancelled, finalized, or end early; the actor's own races are not in this
module.

### Session and Mutation

`Session` extends `Kernel` and instantiates `DedupLedger` with frames for
requests (call and connection) and calls for keys. `Mutation` says what a caller
is promised: settled at most once, executed at most once, and a settlement that
says "not executed" is right for ever. The refinement maps `outcome` to the
verdict and the number of authored effects of a call to `executed`;
`KeepsPromise` is the property `Promise!Spec`.

### KernelRuntime

`Kernel` takes the outputs of a step as done at once; `KernelRuntime` is what
happens to them. `driven` is the sequence of all wakes in drive order, and a
`Deferred` batch an interval of it, so that order and loss can be stated about
positions.

| Code | Model |
|---|---|
| the `Shared` mutex | `lock`, taken by `Drive` and released by `Enqueue` |
| `Shared::drive` with `apply_one` | `Drive`; its callers `Dispatch`, `Stop`, `Drop` and `React` (every other input) choose the wakes the core may ask for |
| `Shared.senders` and the oneshots | `senders` and, as the future sees it, `channel` |
| `Runtime.delivery`, `Runtime.draining` | `queue`, `draining` |
| the places of `drain_delivery` | `stack[t]`, the drives thread `t` is inside of; a waker that drives again pushes a frame on it |
| `Deferred::deliver` | `Deliver`, one wake at a time, then `Woken` when its wakers return |
| `Deferred.done` | the wake `Done(t)`, last in its batch |

The flag and the queue are modelled as sequentially consistent, which the code's
orderings allow: a thread that swapped the flag before it was cleared had pushed
its batch before, under the queue's mutex. If the drainer's second look takes that
mutex first, its clearing of the flag happens before the push and therefore before
the swap, which then finds the flag down; if it takes it second, it sees the batch.
`runtime.rs` (browser) has the same code over a mailbox for its I/O, which is not
modelled.

`StopIsTotal` excludes the calls dispatched after the stop (`refused`): they settle
in batches of their own.

### EventBus, RoomState and Reconciler

One room, one subscriber. An event is a natural number; `hist` is the daemon's
canonical history, in which a late sibling is inserted (`Insert`), and
`room.known[p + 1]` is what the room holds at position `p`.

| Code | Model |
|---|---|
| `EventBus::broadcast`, `EventSubscription::poll_next` | `Broadcast`, `Polled` on the mailbox `[q, lost]` |
| `RoomState` | the record of `NewRoom`. `known` stands for the watermark, `all_event_ids` and `recent_ids`; `lo` for the rendered window |
| `Reason`, `coalesce`, `coalesce_banking_loss` | the causes and `Coalesce`, `Outranked`, `Banked` |
| `BoundedBuffer` | `BufferPush`: after the first drop nothing enters |
| `trigger`, `launch`, `begin_reconcile` | `Trigger`, `Launch`, `BeginReconcile`, `ReadFrom`, `Reading` |
| `on_read_reply` with `fail_inner`, `structural_retry`, `bounded_restart`, `converge` | `OnReadReply`, `Fail`, `StructuralRetry`, `BoundedRestart`, `Converge` |
| `apply_live_event`, `apply_ordered`, `dispute_position` | `OnLiveEvent`, `ApplyOrdered`, `DisputePosition` |
| `Core::on_lifecycle`, `on_resume`, `on_stop`, `activate`, `forget` | actions of `Reconciler` |
| a read in flight | a member of `reads` with its epoch and read id; it may outlive the room's interest in it. The ids are reused only when no read carries them, which is what a 64-bit counter gives |

The handlers return an effect (the room, the read issued, the loss told to the
consumer), as the code collects its outputs. The daemon answers a read with any
page of its history, with an error, a malformed page or a redirect to any
position; the last three are charged to `MaxCalls` (times `FaultCost`).

### PushFanout

| Code | Model |
|---|---|
| `push_loop`'s pump and poll | `Tasks`; both read the tail (`ReadTail`), rank it under the session's lock (`Collect`) and emit one push at a time (`EmitGap`, `EmitEvent`) |
| `collect_committed` | `Collected`, `Marked` in closed form. `MCPushFanout` has the loop itself as a fold, and its assumption `ClosedForm` compares the two for every tail of up to five events, every set of seen ones and every mark |
| the session's `seen` and `next_push_rank` | `sessions`; a task keeps the session it began with when the room is opened again (`Lapse`) |
| `broadcast::Sender`, `RecvError::Lagged` | `chan`, `lagged` |
| `serve_connection`'s push arms, `SubscriptionState` | `Deliver`, `Lagging`, `sub` |

The client is any that checks what it is sent; it stands for the reconciler, so that
the property can speak of what a subscriber knows.

### Upload

Five kinds of thread meet at the ingress of an upload: the connection's reader, its
only writer, the actor, a task per `transfer.cancel`, and teardown. Every critical
section of the `sequencing` lock is one step.

| Code | Model |
|---|---|
| `UploadPhase`, the rest of `UploadIngress` | `phase`, `ingress` |
| `route_bound`, `admit_received_data_locked` | `Receive`, one disjunct per way out; `Refusal` is the order in which a DATA record is refused |
| `TerminalOrderState`, `TerminalTicket` | `order`: the next ticket, the one served, those rolled back; `Finish` is both `finish` and the destructor |
| `UploadEventSender::enqueue` | `ReaderEnqueues`, `CancelEnqueues`: first the ticket's turn, then room in the lane, then the second look at the phase |
| the two lanes, `deferred_end`, the processing flags | `data`, `term`, `deferred`, `processing`; `ActorTakes` is `next_active` |
| `run_file_share` and what it calls | `actor.pc` and one action per await |
| `ConsumerState` with the staging sink | `state` |
| `commit_open_with`, `try_start_active_credit`, `commit_daemon_abort`, `try_sequence_client_abort_ack` and the end hooks | `MayStart`, `WriterStarts`, `WriterSends`, `WriterFails`, on the one message (`write`) an actor has at the writer |
| `FileShareLedgerOwner` | `owner`; what it does to the ledger is `DedupLedger` |
| `UploadCancellationRegistry::cancel` | `CancelLooksUp` ... `CancelSettles`; `CancelWithdrawn` is the abort of its task. A cancel remembers whether it was received `late`: the actor then drops it unanswered, and its task reads that as unknown |
| the client | `client`, `source`, `down`: a producer that keeps the protocol, plus `ClientBreaksProtocol` |

A record is received in the step that sends it, since the delay of the wire is the
delay of the client's next step; the other direction has its queue. The first look of
`route_bound` at the phase and its critical section are one step. A payload is
its length. The absolute deadline and the stall timer, which take the same paths, are
one clock that expires once; an event received at the very instant of the deadline is
left out. `file_limit` is at least the declared size, so that both refusals of a
size are one.

## 3. Runs

| Run | Question and bounds |
|---|---|
| `kernel_safety` | every safety property of `Kernel`; 3 calls of two shapes (keyed with 1 byte, plain with 2), queue depth 1, byte cap 4, throttle 2, one reconnect attempt, 3 connections, 2 incarnations. About 1.8 million states |
| `kernel_liveness` | answers, reclamation, end of reconnects; 3 keyed calls, throttle 1, 2 connections |
| `kernel_stream` | an honest daemon is not faulted, timers, completeness of success, end of every stream; an upload of one byte declared whose source has one or two, a download of two bytes, window 1, one stream slot, two junk records or failures. 560 thousand states |
| `runtime` | order, loss, answers and stop of the shell, and that every wake runs; 2 interchangeable threads, 3 inputs, 2 calls, one level of re-entry |
| `ledger` | everything about the ledger; 2 requests, one key, three bodies (plain, upload, malformed), 2 processes |
| `session` | refinement of `Mutation`; 1 call, 3 connections, 2 daemon processes |
| `reconciler` | safety of the reconciler; mailbox of 2, live buffer of 1, window of 2, 3 events, one junk push, 2 controls or faults. About 1.9 million states |
| `reconciler_liveness` | reconciling ends; 2 events, 2 controls, any number of faults |
| `push_fanout` | pushed once, no silent divergence, pushed in the end; 4 events, channel of 2, one lapse, one subscription |
| `upload` | a finalized upload is whole, what a cancel is told is true; one byte declared, lanes of one record, two interchangeable cancels, one record that breaks the protocol. 3.3 million states |
| `upload_liveness` | an honest producer is served, every upload and every cancel ends; two bytes declared, a source of one, two or three, one cancel that may be withdrawn. 725 thousand states |
| `upload_doc` | an ABORT that overtakes the first CREDIT is refused (finding) |

Why these bounds are enough to be interesting: three calls with a throttle of two
and a queue of one reach a full queue, a full throttle and a tombstone eviction
at once; three connections let a call be held, replayed, held again and meet a
reply from each earlier connection; two incarnations are one restart; one retry
separates the first failure from exhaustion. In the ledger, two requests are an
owner with a joiner, with a conflicting one or with a later retry, and either may
meet a restart; the theorems hold for any number of them. `Session` has one call because
two exceed what TLC explores in minutes; interference between calls is covered in
`kernel_safety`. Its three connections allow two replays of the call.

In the shell, two threads are a drainer and one that leaves its batch to it or
takes over the flag; three inputs are a dispatch, what settles it and a
stop. `MaxDepth` 2 is a waker that drives; a third level repeats the second. The
theorems hold for any number of threads.

One stream slot and a throttle of one make a cancelled call and its successor meet
in the tombstone queues; a source longer or shorter than declared is the case the
credit rules are about. The eviction of a tombstone by `push_tombstone` needs more
live calls than one slot allows and is exercised in `kernel_safety`.

In the reconciler, three events are genesis, one more, and an insertion or a third;
a mailbox of two overflows with the third push; a live buffer of one overflows with
the second. A read may be refused or redirected, the room resynced meanwhile and the
late reply then arrive. In the push loop, four events are enough for an insertion
below a mark that another task has moved, and a channel of two for a lag.

In the upload, lanes of one record make the reader and a cancel wait for room behind
their tickets, two cancels compete with each other and with END or ABORT, and one rude
record can be of any kind and come at any time. Two bytes with a window of one are two
credits, so that a late ABORT may echo either; a source shorter or longer than
declared ends in END with the wrong length or in an unfinished upload. Once the
connection is gone no step reads the producer's side or the checks it fed, and no
step ever reads a history: the view of `upload` leaves both out.

Bounds on the behaviours are the constants `MaxCalls`, `MaxGeneration`,
`Incarnations`, `MaxIncarnations`, `MaxDrives`, `MaxDepth`, `MaxJunk`, `FaultCost`,
`Anchors`, `SourceLengths`, `MaxEvents`, `MaxLapses`, `MaxSubscribes`, `MaxRude` and
`MaxWithdrawn`; the sources of an upload are the set `Sources`;
the others are configuration of the code. Deadlock checking is off in all runs: a stopped
client, a ledger whose requests are all answered, or a daemon with nothing more to
commit really ends.

### Properties worth knowing

- `SettledOnceWithItsOwnAnswer`: the generation fence of `resolve_reply`, and
  `take` as the only way to an answer.
- `HonestClassification`: "definitely not executed" is never said of a call that
  was on a wire, "unknown" only of one that was.
- `ReplayOnlyWhereDeduplicated`: a second transmission needs a key, a stable
  principal and the same daemon process.
- `TablesExact`: the redundant tables and hand-kept counters of the kernel agree,
  stay within the bounds the module headers state, and no handler leaves a free
  slot beside a queued call.
- `SendOrder`: what `flush` does.
- `ReconnectDriven`, `StopIsFinal`, `ReconnectEnds`: the lifecycle.
- `EveryCallEnds`: every accepted call is answered and its entry reclaimed.
- `HonestDaemonNotFaulted`: whatever the media task has reported or not, a daemon that
  keeps the protocol is not faulted; excepted is a CREDIT that overtakes the report of
  the bytes it acknowledges (below).
- `TimersGuardCalls`: an unsettled stream always has a timer that will end it, except
  in FINALIZING; nothing that is over has one; both tombstone queues are exact.
- `SuccessIsComplete`: `ok` is told only when all of the source was acknowledged,
  or all of the file accepted.
- `AtMostOneEffect`, `FaithfulReplay`, `RepliesTrue` (an answer is backed by what the
  process did, a conflict is real, a cancellation sticks), `EveryReservationOwned`,
  `RecordedIsFinal`, `EveryRequestAnswered`: the ledger.
- `KeepsPromise`, `AnswersAreReal`: client and daemon together.
- `DeliveredInDriveOrder`, `NothingStranded`, `EveryWakeRuns`: the shell delivers
  what the core asked for, once, in order.
- `OneAnswerToCome`: the sender map and the batches on their way together hold
  exactly one answer for a caller that waits, so the `Backend` error that
  `DispatchFuture::poll` has for a lost sender cannot come.
- `StopIsTotal`: when the future of any `stop` resolves, the calls before it have
  their results and the bus is closed.
- `ViewIsCommittedHistory`: a converged view differs from the daemon's history only
  where the evidence against it is still unread; `ConvergedIsCurrent`: with nothing
  unread, it is the whole history.
- `FrontierCovered`: a converged room reaches every position a gap or a followed
  redirect named; `LossKept`: no step loses count of dropped pushes.
- `PushedOnce`, `NoSilentDivergence`, `EventuallyPushed`: the push stream.
- `FinalizedIsWhole`: an upload that owns the result has every declared byte staged
  and accepted, its producer's own END, and no recorded cancellation.
- `CancelAnswersTrue`: "cancelled" is told to one caller, and only of an upload whose
  result is the cancellation; "unknown" never of a cancelled one, and never of one that
  is active on a live connection, but for the moment between the judgement that an
  event was received too late and the selection of the timer's abort (`TimedOut`):
  a cancel dropped there is answered at once, on another thread.
- `HonestProducerServed`: a producer that keeps the protocol is not told of a protocol
  fault, and reads its reply only when the handshake it owes is over. Nor is its
  connection closed over one of its records, with two exceptions, both of the ABORT it
  sends behind its own END: one the reader still holds when END takes the result and
  the receivers are dropped (`"overtaken"`), and one that crosses the reply and finds
  the stream retired (`"crossed"`, which the protocol's "later terminal control for the
  retired stream is malformed" asks for). A close is counted (`faulted`) in every phase,
  also after the actor has returned. Excused are the cases in which the code gives
  up: see the findings.
- `UploadEnds`: the actor returns and every cancel is answered, however silent the
  producer.

### Fairness

`Kernel`: deadlines pass and elapsed timers are handled (the driver's timer
wheel), and every dial attempt has an outcome (its connect timeout). Nothing is
assumed of the daemon, of replies or of callers. `KernelStream`: deadlines pass and
timers fire; nothing of the daemon or of media tasks. `DedupLedger`: a task that can
run is polled, an operation returns, an upload ends (its stall and absolute
deadlines). Nothing is assumed of connections. `KernelRuntime`: a thread inside
the kernel is scheduled and wakers return (the doc of `Runtime` makes a blocking
waker a broken contract). Nobody has to drive again. The lock needs no strong
fairness: its holder releases it in one step and nobody's progress waits for it.
`Reconciler`: the driver subscribes, starts and polls what is ready, and a read of
the current epoch is answered, if only with an error, since the kernel settles
every call (`EveryCallEnds`). The fairness of its two handlers is written out as
formulas equivalent to `WF`, which TLC evaluates faster than `ENABLED`.
`PushFanout`: a woken pump and the ticking poll run; nothing of the
connection or the client. `Upload`: the reader, the writer, the actor and the cancel
tasks are scheduled, the staging sink and the finalizer return, and the clock passes
(the stall and absolute deadlines); nothing of the producer.

### Findings

1. A client ABORT at offset 0 that is admitted after OPEN was sent and before the first
   CREDIT starts to be written is refused: the CREDIT is discarded for the pending
   terminal, `credit_history` is still empty, and `valid_producer_abort(0)` is false. The
   upload ends as `malformed_frame`, although the protocol has both offsets begin at
   zero and the conformance harness cancels uploads in just this way (`upload_doc`).

Met on the way and not a run:

- The docs of `execute` and `execute_with` (`engine.rs`) say a dedup-class operation
  without an `op_id` is refused; the code, a comment in it and a test accept it.
- The API documents a gap's `from_pos` as the position the gap starts after; the
  daemon sends the first position that changed. The repository's own reconciler keeps a
  wrong event for a moment, and is saved by the event that follows the gap.
- `on_credit` (client) faults an acknowledgement beyond `sent_offset`, which advances only
  when the source task reports its grant, after the bytes are on the wire.
- In the upload actor: a source that ends inside a credit window is left to the stall
  timer and reported as `transfer_stalled`, where the protocol says
  `declared_size_mismatch`; a cancel withdrawn while it holds a ticket has made DATA be
  discarded or a CREDIT be dropped that nobody issues again; an ABORT received after the deadline and before the daemon's own is dropped without its
  ACK; a CREDIT refused by its start hook because of the clock is reported as a protocol
  error; a cancel that finds the connection closed removes the registry entry under the
  cancel in the actor's hand, whose refusal leaves the lane one DATA record short, so that
  the lost upload is recorded as malformed. `HonestProducerServed` excuses each by name.
- A valid ABORT behind END is meant to come to nothing: "END already owns the result. A
  structurally valid late producer ABORT cannot change it and needs no second terminal
  exchange" (`file_share.rs:1229`), "it cannot change the result"
  (`docs/protocol-v2.md:682`). So it is once the phase is FINALIZING. One admitted just
  before that still holds its ticket when the actor drops the receivers, and `enqueue`
  (`file_share.rs:970`) then closes the connection, with everything else on it, though
  neither side broke the protocol. `HonestProducerServed` names the case instead of
  counting it.
- A `transfer.cancel` received after the deadline is dropped before the abort of the
  timer is selected (`file_share.rs:2977` and `3320`). Its task may answer
  `transfer_unknown` while the upload is active, and has then removed its registry
  entry. The next step of the actor ends the upload.
- `Ledger::len` documents `queue_depth + in_flight`; with tombstones the ledger
  reaches `queue_depth + 2 * in_flight`, as the module header states. The doc of
  `Admission::queued_count` says it is at most `queue_depth`, while
  `charge_count_unchecked` documents the overshoot of held calls.
- A room that is closed and opened again pushes nothing of what was committed but not
  pushed before: a subscriber that stays learns of it only from the next event, whose position
  does not follow. `GapReason::SubscriptionLapse` exists and is never sent.
- `buffer_live_event` stores the cause of a rejected push without banking the loss
  an outranked `LocalOverflow` carried; `LossKept` leaves that step out.
- A redirect that exhausts its chain does not raise the required frontier.
- A stream cancelled after OPEN is a tombstone without a timer, and a stream in
  FINALIZING has none by design: either lasts until the reply, an eviction or the
  loss of the connection. `on_source_failed` and `on_protocol_fault` look at no
  phase. `max_concurrent_streams` counts tombstones.

## 4. Proofs

`KernelCallProofs.ReconnectIsDriven` proves `Spec => []ReconnectDriven` for every value
of the constants. The invariant is inductive once it is joined with the types of
the lifecycle variables (`LifecycleInv`). Its proof has one step per action
(`LifecycleStep`) and rests on small lemmas: what removing an id leaves of a
sequence (`WithoutRemoves`), that `flush` leaves the lifecycle alone
(`FlushKeepsLifecycle`), and what terminal failure and a scheduled reconnect do
to it (`FailAllLifecycle`, `ScheduleReconnectLifecycle`). `StopIsForGood` proves
the action property `StopIsFinal` action by action. Both assume only the named
assumptions on the constants.

`KernelCallProofs` proves what the kernel promises of each call, for any number of
calls, connections, daemon restarts and any limits: `EachCallItsOwnAnswer`
(`SettledOnceWithItsOwnAnswer`), `ClaimsAreHonest` (`HonestClassification`),
`ReplayIsDeduplicated` (`ReplayOnlyWhereDeduplicated`), `CallsGoOutInOrder`
(`SendOrder`), `TypesHold` (`TypeOK`), and of the parts of `TablesExact`:
`NoCallIsStranded`, `ThrottleIsExact`, `SlotsAreUsed` and `TablesNameTheSameCalls`.
None of them is inductive. That an answer reaches its own call rests on the index
naming the call that bears the wire id now (`Routes`), on an id never having been
given to two calls of a connection (`Frames`) and on the ledger knowing what was on
the wire (`History`); `ReplyIsItsOwn` joins the three. The invariant `CallInv` joins
`LifecycleInv`, what a handler leaves settled (`Settled`: only a Ready client has calls
on the wire, and it leaves no slot idle) and the tables of now (`TablesNow`), in these
parts:

- `Rows`, `Unsent`, `Buried`, `Slots`: what a ledger row says of itself; the calls not
  on the wire lie in call order, those held for replay first, and each will find a
  slot; the tombstones are the cancelled rows; the count is the number of slots held.
- `Routes`, `Answers`, `Frames`, `History`: who an answer goes to, and what was sent.
- `Fresh`: only a held call was sent before, and what is queued comes after everything
  this connection sent. This is what makes order survive a reconnect.
- `Claims`, `Deduplicated`: the two properties above, of frames and outcomes.

A handler computes new tables and then flushes them, so between the two no state holds
them. `Tables` is therefore stated of any tables, and the argument follows the code:
`RemoveTables`, `BuryTables`, `HoldTables` and `ReconnectTables` say what settling,
cancelling, an interruption and a new connection do to them, `FlushFacts` and
`FlushTables` that a flush pops the first calls in call order and keeps the tables, and
`FlushStep`, `QuietStep` and `TablesNext` turn tables back into the invariant of the
next state. Each action then has one lemma that names the tables it flushes. Assumed are the
named assumptions of `Kernel`.

Its last part completes this to `TablesAreExact`, which is `TablesExact` as a
whole. What `CallInv` does not say is what the counters of admission count. `AccountInv`
says who holds a charge (`ChargesHeld`: the calls not on the wire, and those on it that
may be replayed), that the two counters are the number and the bytes of just these
(`Accounted`), and that the queue and the tombstones keep their caps. `ByteSum` counts
bytes one by one, as the members of a set, so that what a sum gains or loses by one call is
a fact about cardinality (`ByteSumAdds`) and needs no induction. It follows the code as
above: `SentHandler`, `ReplyAccounts`, `BuryAccounts`, `UnsentAccounts`,
`ConnectedAccounts`, `InterruptedAccounts` and `DrainAccounts` say what each handler does
to the account, and `FlushAccounts` that a flush returns the charge of exactly the calls
which cannot be replayed. `queued_count` may pass `QueueDepth` when calls are held for
replay; that the queue itself does not is proved from `NoIdleSlot` and admission
(`FlushBounds`). `TablesAreBounded` then bounds the ledger by its parts.

`KernelStreamProofs` proves `TimersAlwaysGuard` (`TimersGuardCalls`), `SuccessAlwaysComplete`
(`SuccessIsComplete`) and `HonestDaemonSpared` (`HonestDaemonNotFaulted`) for any number of
streams, sizes, windows and caps. `StreamInv` relates what no single handler sees together:
`Guarded` the ledger row, the stream and the outcome of one call, with the hand-over of the
timers at OPEN; `TaskSound` the media task's position and what it owes the kernel;
`Counted` what the stream counts and what is on the wire; `Buried` and `Retirees` the two
queues of tombstones. A daemon "that follows the protocol" is one whose records are not
charged to `junk`, and the action property leaves exactly one way in which such a
daemon is faulted.

`DedupLedgerProofs` proves all the safety properties of `DedupLedger` for any
number of requests, keys, bodies and processes: `TypeCorrect`, `EffectivelyOnce`
(at most one effect per key and process), `SameReply`, `RepliesAreTrue` (with its
parts `AnswersTrue`, `ConflictsReal`, `CancellationsStick`), `ReservationsOwned`
and, as an action property, `RecordsFinal`. None of them is inductive: that a key has one effect
depends on it having one owner, that on the reservation an owner holds, and what
a joiner is answered on what the owner recorded before it announced. The
inductive invariant `LedgerInv` therefore says how the tables support each other,
one part per relation:

- `OwnersHold`, `OwnersUnique`: an owner's entry is in flight with the owner's
  body and cancellation, or is the record it is about to announce; a key has one
  owner.
- `EntriesBacked`: an entry in flight has an owner still to publish, a recorded
  "ok" has its effect, and a cancelled key has none in this process.
- `WatchRecorded`, `WaitersServed`: a channel carries what is recorded, and a
  waiter waits on an owner of its own key and body.
- `EffectsKept`: an effect of this process has its key in the ledger and, while
  that is in flight, its owner alive. With `OwnersUnique`, a second author of a
  key could only be that same owner, which `Author` forbids.
- `AnswersRecorded`, `RequestsInOrder`: an answer repeats the record; a request
  has no reply before it is settled and never bears a later process's number.

Six handlers change one request and no table; `MovePreserves` treats them at
once from what such a move must satisfy (`Moves`), and a lemma per handler shows
that it does. `PublishPreserves` does the same for the two ways to record a
reply. Every other action has a lemma with one step per part of `LedgerInv`.
`RecordsFinal` follows because `Publish` and `SelectCancelled` only reach keys in
flight. Assumed are the named assumptions of `DedupLedger`: `NoKey` is not a
key, `Bodies` is not empty and contains `Malformed` and `Uploads`, at least one
process runs.

`KernelCallProofs` goes on to prove of `Session` that kernel and daemon together keep the
promise of `Mutation` (`PromiseKept`, of the property `KeepsPromise`), for any number of
calls, connections, replays and daemon processes. `SessionInv` joins `CallInv`, the
`LedgerInv` of the daemon (`Ledger`, an instance of `DedupLedgerProofs` with frames for
requests; `SameDaemon` shows that its actions are those of `Session`'s own instance) and
what links the two: `RequestsSent`, that what a process works on is a frame sent to this
very process under the frame's key; `InlineOnce`, that a request without a key authors once;
`RepliesGiven`, that what a caller was given the daemon answered. Two effects of one call
then belong to two frames of it (`EffectsSent`). If these are one, its request authored
twice; if they are two, both are keyed and went to one process (`Deduplicated`), whose
ledger has one effect per key (`OneExecution`). `ClientTells` and `ReplyTells` say what each
step of the kernel tells callers and adds to the wire, `DaemonMoves` what a step of the
daemon does to requests. Each step is then a `Tell`, an `Execute` or a stutter of `Mutation`
(`PromiseStep`): a claim of "not executed" is made only for a call with no frame, and
effects come only from frames. `AnswersAlwaysReal` follows from the same invariant.
`PartsKept` says that a session implements `Kernel` and `DedupLedger`, so that their
theorems hold in it. Assumed are the named assumptions of `Kernel` and `SessionAssumption`:
`NoKey` is no call, and processes are numbered from one.

`KernelRuntimeProofs` proves `DriveOrderKept` and `NoneStranded` for any number of
threads, calls and inputs and any depth of re-entry, and that at most one frame
drains (`OneDrainer`). The invariant `DeliveryInv` says where every wake is:
`DrainerAt`, `Chain` and `EnqueuerAt` cut `driven` into what is delivered, what the
drainer holds, what is queued and what the holder of the lock is about to queue,
without a gap; `LockHeld` and `FlagHeld` make the holder and the drainer unique.
A thread's step changes the top of its stack (`Moved`) or removes it (`Returned`);
`MoveKeepsLock`, `MoveKeepsFlag` and `DrainerMoves` say what that leaves alone, and
each action has a lemma with one step per part. Assumed are `NobodyAssumption` and
`BoundsAssumption`.

Its second half builds on it: `AnsweredOnce` proves `OneAnswerToCome` and
`StopsAreTotal` proves `StopIsTotal`. `ReplyInv` adds to `DeliveryInv` that a settlement is
driven once and takes the sender with it (`SettlesOnce`), that in the order of `driven` a
stop settles and closes before it is done and only refusals settle later (`StopCloses`),
and that what is closed or finished was done by delivered wakes (`EffectsDelivered`).
Because wakes run in drive order, a delivered "done" has every settlement before it
delivered too. `Settling` and `Calling` say what an input does to the callers, so that
`InputReplies` treats dispatch, stop, drop and every other input at once;
`SettledFacts` rests on a finite set having no injection onto a proper part of it,
`ChainGrows` on `<` being well-founded.

`UploadProofs` proves `FinalizedUploadsAreWhole` and `CancelsAreToldTheTruth` for any
declared size, window, size of the lanes, number of cancels and number of records
that break the protocol. Neither property is inductive; `UploadInv` adds what they
rest on:

- `WireTypes`, `ActorTypes`: the types, split by who writes the variable.
- `PhasesAgree`: which places of the actor a phase allows. The reader, the writer and
  the cancels act on the phase, the actor on its place; the two must not drift apart.
- `DataInOrder`: the DATA records at the actor, in the lane and at the reader lie one
  behind the other between what is staged and what was admitted, and
  accepted <= staged <= received <= `Declared`. An END that names every declared byte
  as accepted therefore finds them staged too, though bytes are staged before they are
  accepted and a terminal may come in between.
- `EndsOwned`: an END at the reader, in the lane, held back or at the actor is the
  producer's own.
- `OwnersWhole`: from `finish` on, and in a published success, the upload is whole.
- `SelectionFinal`, `AnswersBacked`: a recorded cancellation excludes the other phases
  and results, is told to one caller, and a cancel is refused only once the upload is
  not active, its connection is gone, or its actor is `TimedOut`.

Most steps move control and touch neither the bytes nor what the producer sent.
`ControlMove` says what such a step may do, `ControlMovePreserves` treats them at once,
and a lemma per handler shows that it is such a step; the others have a lemma with one
step per part. `ReceiveRouted` does the same for the nine ways out of `route_bound`.
Assumed is `UploadAssumption`; the ticket order, `PendingData` and the writer's `Excuse`
need no invariant here.

`HonestProducersAreServed` proves `HonestProducerServed`, under the same assumption. The
property speaks of results; each of them is decided by a chain of judgements that three
threads make at three moments. `Served` is `UploadInv` and, while nothing has to be excused,
`Honest` and `Unbroken`. `Honest` says what makes each judgement come out right:

- `Fits`: the message at the writer and the phase are those of the actor's place, and the
  reader's count of accepted bytes is the actor's.
- `CreditsKept`, `CreditsSeen`: what was granted, what the daemon remembers and what
  the producer goes by are the same pairs. `Grants` counts in the CREDIT that is written and
  not yet settled: the producer may act on it before the daemon's history has it.
- `RecordsHonest`, `InRank`: what waits was sent by an honest producer, echoes a credit
  that covers all it sent, and waits in the order END, ABORT, ACK. Hence no terminal finds
  another of its kind before it.
- `InStep`: offsets follow each other (`Chained`) unless the upload is `Doomed`. This is the
  delicate part. A DATA record may be dropped for an interrupt that is on its way, and the next
  one then looks misplaced; the interrupt must keep its flag until the failure it selects
  is recorded, and a failure that yields to nothing needs a reason of its own.
- `Oversized`: a record beyond the declared size is the first terminal, so that no record
  behind it is judged.
- `Blameless`: a failure called a protocol error in the meantime will yield to an interrupt.
- `Handshakes`, `Replies`: one ABORT in each direction, answered before the reply is queued.
- `Ticketed`: tickets are unique, so that the turn of a record comes.

`Unbroken` is about the connection: it is not closed over a record, except over the late
ABORT. Nobody is left to take what arrives once END owns the result or
the stream is retired, so nothing else may be with the reader, or still to come, by then: an
honest producer has stopped, or was never told of the stream. The actor also closes the
connection, over an ACK that does not name the bytes it accepted; the parts on `Echoes` and
`acc` follow that number from the daemon's ABORT to the producer and back.

The actor's steps were too many for one lemma per step and part. `ActorKeeps` says what no step
of it undoes (no phase, lane or connection is reopened), `ActorWalks` where it may go from
each place and why, `Failures` and `ActiveMoves` what it does to an active upload; each part
of `Honest` then has one lemma (`ActorInStep`, `ActorBlameless`, ...). The reader's ways are
treated by `RoutedHonest` from what any of them must see to (`Routes`), once `HonestRoute`
has ruled out those that fault.

Two attempts failed for a reason. The property as first stated is false: with two cancels, the
connection is lost while one is in the actor's hand, the other removes the registry entry,
and the refused cancel leaves a gap in the offsets, which is recorded as `malformed_frame`.
TLC shows it once there are two cancels and a window of two; `upload_liveness` has one cancel. The
code does this, so the case is excused by name in `HandleCancel` (see the findings). And
some `CASE` expressions of the model (`Refusal`, `EndFailure`, the reason of `HandleFault`)
had arms that overlap, where TLC takes the first and the logic chooses none; they now
follow the order of the code's tests.

`PushFanoutProofs` proves `EventsPushedOnce` for any number of collectors, events and
sessions. A collector decides what is new by the session it read under, and emits after
that session may be gone; that two of them never push the same event is an invariant over
sessions. `PushInv` says that the history holds each event once (`HistoryGrows`), that what
was taken for emission is seen by the session of today (`TakenSeen`), that rows read under a
session are part of every later session's seed and that what they would add to their own
session was taken by nobody (`RowsFresh`), and that a batch holds an event once
(`BatchesDistinct`). `Least` and `Greatest` say that the minimum and maximum the emission and
the seed take exist; `Least` rests on `<` being well-founded. Assumed is only what
`PushFanout` assumes of its constants.

`CleanCopyIsHistory` proves `NoSilentDivergence` from `PushInv` and `ViewInv`. The property
speaks of a quiet moment; the invariant has to speak of every moment before it. `Coming`
is what a collector holds or the channel carries. `ItemsPlaced` says that each such push
bears the rank the event had among the first `n` committed, all of them collected, and
that what precedes it there and is still on its way bears a lower one: an event that is
overtaken arrives at a position the client already has. `ViewKept` says of a clean copy
that what it lacks is coming or was not collected yet, and that it is in the order
of the history (`Ordered`) or something is coming that will contradict it (`Doomed`). When
nothing is coming, the copy is complete and in order, and two orderings of one finite set that
agree are one sequence.

`ReconcilerProofs` and `ReconcilerViewProofs` prove the four properties of the run `reconciler` for any history, any limits, any
number of pushes and calls and any answers of the daemon, truthful, empty, malformed or
redirecting. The reconciler is one actor whose handlers nest (a reply may end in a
convergence that replays a buffer, meets a gap and launches the next reconciliation), so the
proof follows the operators of `RoomState` from the causes up and has one lemma for each.
`Outcome` is what every handler leaves, and `RecInv` is `Outcome` seen between two steps; it
carries `FrontierCovered` and `LossKept`:

- `Within`: what the room knows, scans and buffers lies within the daemon's history.
- `Continues`: the read in flight asks for the position that follows the scan.
- `Named`: every position the daemon named is within the history or is remembered as
  `required_frontier`; a converged room has read up to it; and in the members step, which no
  longer reads the history, it is covered by the scan or still required.
- `Answered`: a reply in flight is within the history, and the last page of the current read
  covers what was named. That is why what the daemon names afterwards must be noted
  while the page waits: `Waits` says that each cause a waiting room takes in raises the
  frontier by it.
- `ReadsApart`: of two reads in flight one at most is current, and it is what the room waits
  for, so that a late page of a superseded read changes nothing.

`FrontierReached` follows from `Named`. The loss is counted along in the same lemmas
(`Banking`, `Taking`, `Stashing`, the `...Outcome` lemmas end with what they `Held`): a loss
moves between the causes, two buffers and two counters, and each move is shown to lose none
of it, or to tell it (`LossNeverForgotten`). The mailbox has its own lemmas (`FlushedIn`,
`CoalescedIn`, `BroadcastIn`, `PolledIn`). Buffers, pages and replays are folds; they are
written as the recursive function `FoldOver`, and `FoldOverIn` shows that a fold stays in
any set its step stays in, `BufferAllKeeps` that it loses no count: both from the least
index at which it would not. Assumed are the named assumptions of `EventBus`, `RoomState`
and `Reconciler`: the mailbox has room for two, the timeline and the buffer for one, the other
limits are naturals, departures are membership events.

`ReconcilerViewProofs` is about what the room knows, no longer about how far:
`ViewIsCommittedHistory` and `ConvergedIsCurrent`. Neither is inductive, nor is their
conjunction: a room that is converged now is so because a page was truthful when it was
read, a push in the buffer said what had been committed since, and the mailbox tells the
rest. The invariant `ViewInv` of this module joins three parts to `RecInv`:

- `Contents`: all that is known, scanned, buffered, on a page or in the mailbox was read or
  pushed of the history. Such an event sits in the history now at or *beyond* the position
  it had (`Beyond`), because a late sibling only moves events to the right (`Moved`,
  `InsertMoves`). From it follows `NothingMoved`: a sequence that was read is a prefix of the
  history unless part of it was moved behind it.
- `Reports`: the transitions in the mailbox are a path from a state of the link to the present
  one (`Path`), and it starts where the core stands. The exceptions are a core that took its
  snapshot behind the subscription, and has yet to find the first transition out of date
  (`ComesUp`), and one that is down and has yet to be told so again. A transition that
  absorbed a loss of the link is marked as a problem (`Flaps`).
- `Claims`: as long as the mailbox is `Clean` (no loss and no transition the core
  does not know of), a converged view *tracks* the history through the mailbox, and so does
  a scan, with its last page, its buffer and the mailbox, when nothing has hurt it (`Unhurt`).
  `TracksFrom` says of a view and a list of notices: the first `k` tell of events the view
  already has; each of the others, up to the first gap, is the next event of the history, or a
  gap on the list repudiates its position; each position of the view is the history's, or a
  gap repudiates it; and without a gap nothing of the history is missing.

The index `k` is what makes it inductive: a page read late contains events whose pushes are
buffered or still in the mailbox, and how many is not recorded anywhere. `TracksMore` adds a
notice to the list, `Lands` takes in what was buffered, `LastPage` starts afresh (the last
page of a truthful answer, if it repeats nothing, makes the scan the history, and everything
on its way is told already). Each handler then leaves one of four things: `Moot` (it
starts over, or has noted a cause and will not publish what it reads), `Follows` (it published
or goes on to the members), `Buffered`, or a converged room that took the push in. The two
theorems follow: without a loss marker or a transition in the mailbox it is clean
(`NothingTold`); a gap on the list is unread evidence (`ViewReached`); with an empty mailbox
`k` is 0 and the view is the history (`CurrentReached`).

The mailbox is assumed to have room for two items (the code's capacity is 1024). In a mailbox
of one the proof fails for a reason: the transition `Down` to `Ready` of a link that came
up before the reconciler started coalesces with the next `Down` into one that names no
change, the reconciler ignores it and never learns that the link was lost, so that
`ConvergedIsCurrent` fails.

Liveness stays with TLC: the installed provers cannot treat `ENABLED` and fairness. Every
invariant and every action property of the passing runs is a theorem.

## 5. Not modelled, and the plan

Of the kernel: push forwarding, durations. Of its streams: shape errors of single
records, the naming of a downloaded file. Of the shell:
`subscribe`, the pump of `runtime.rs`, panicking wakers. Of the ledger:
uploads without an `op_id` (they have no ledger entry), `daemon.stop`. Of the
reconciler: presence, reachability and their fences, the paging of rendered views, several
rooms that share one limit. Of the push loop: node events and peer pushes, the removal
of the local subject. Of the upload: what precedes OPEN (gate, reservation, staging), the
byte budget of the ingress, stall and deadline as two clocks and their ties, uploads
without an `op_id`, and the races inside one poll of `next_active`. Two properties ask
less than their subject: which timers the kernel arms is not modelled (an entry past its deadline
has one), so that `EveryCallEnds` would not notice a missing reclaim timer (`core.rs:1372`); and
`NoSilentDivergence` judges whether a gap was sent, not the position it names. The other parts are
listed in `PROJECT.json` with their reasons.

Next modules, in this order:

1. `Outbound`: cancel before start, permits, terminal latch.
2. `Download`: `Upload` with the roles of producer and receiver exchanged.
3. `Adoption`: `acquire_or_adopt` with `start_or_adopt`.
