# Formal models of the vLLM-Apple runtime

TLA+ models of the concurrent control plane of the vLLM-Apple runtime: the
admission queue, the device resource ledger, the scheduler that owns both, the
submission layer whose worker threads drive it, the runtime service that
installs dispatchers, plans and tunings around running requests, the engines
and the supervised server that run them, the semantic cache, the resident
tensor worker behind its socket, and the checkpointed conversion jobs of the
optimizer. The modules are checked with TLC on small instances, and every
safety and action property that holds there is proved with TLAPS for every
value of the constants; liveness is model-checked only.

## The system and its parts

The runtime is a Python control plane for inference on Apple Silicon. A daemon
supervises inference backends, an HTTP server and a Swift client talk to a
`RuntimeService`, and every piece of device work is admitted by one
`BasicScheduler`.

| component | source | state | operations | what makes it correct |
|---|---|---|---|---|
| schedule queue | `scheduler.py` `PriorityScheduleQueue` | heap, waiting and claimed requests, sequence | enqueue, cancel, dequeue, peek, claim_head, finish_claim, restore_claim | bounded, nothing lost, served by priority then arrival |
| memory admission | `scheduler.py` `MemoryAdmissionController` | reserved bytes, reservations | reserve, release | exact sum, within budget |
| device ledger | `device_resources.py` | used per dimension, reservations, qualified pairs | reserve, reserve_many, transfer, release, install and replace evidence | exact counters, no overcommit, only qualified pairs run together |
| dispatch and fallback | `operator_dispatch.py` | installed dispatcher | dispatch, execute | the reservation follows the backend that really runs |
| device pipelines | `device_pipeline.py` | group reservations | execute | all stages admitted or none, all released |
| scheduler | `scheduler.py` `BasicScheduler` | policy lock, adaptive policy and its pending relaxation, active and pending plans, maintenance owner, active queued tokens | admit, complete, admit_next, steal_next, complete_queued, cancel, execute_with_fallback, execute_device_pipeline, update_adaptive_inputs, plan and placement requests, maintenance lease | no leaked or stolen reservation, plans change at safe points only, relaxations wait for idle |
| submission | `submission.py` | handles, command table, worker threads, stop flag | start, submit, cancel, shutdown, the worker loop | every command settles exactly once, shutdown ends |
| runtime service | `service.py`, `elastic_memory.py`, `operating_state.py` | its own lock, active and pending dispatcher, placement, tuning, cache size | admit_schedule, complete_schedule, the install methods, apply_memory_pressure, snapshot, apply operating state | lock order, changes at safe points only, nothing deferred is forgotten |
| API server | `api.py` | requests and streams in flight | chat, completion, streaming | a reservation lives exactly as long as its response |
| inference engines | `managed_engine.py`, `process_inference_engine.py`, `main_thread_process_worker.py`, `inference_request.py` | command queue or table of pending requests, owner thread or child process, pipes | chat, diagnostics, close, the owner's and the readers' loops | a lease outlives its native call and comes back, nothing is finished twice |
| backend supervision | `backend.py`, `daemon.py` | server process, ready flag, lifecycle lock, restart count | start, stop, restart, the watchdog | no process is lost, revived after stop or restarted while it lives; a dead one is replaced |
| semantic cache | `semantic_state.py`, `semantic_cache.py`, `elastic_memory.py` | anchors in LRU order, bytes, pending releases | capture, restore_deepest, retry, clear, resize | budgets hold, a backend handle has one owner |
| resident tensors | `qwen4_runtime_*.py`, `qwen4_resident_store.py`, `qwen4_component_loader.py`, `numeric_artifact.py` | connections, sequence and replay cache, records, quarantine, reserved bytes, artifacts | load, unload, status, retry_quarantine, shutdown, cancel, close | nothing is loaded twice, the memory count is what is held, shutdown leaves nothing |
| optimizer jobs | `optimizer/worker.py`, `checkpoint.py`, `adapters.py` | checkpoint files, workspaces, output, promotion lock, manifest | run and resume a plan | only whole artifacts are published, records tell the truth, a resume completes |
| other caches, residency | `token_count_cache.py`, `hierarchical_state_cache.py`, `expert_residency.py`, ... | entries, bytes, leases | put, evict, single flight | byte accounting under concurrency |
| the rest | conversion, numeric formats, probes, benchmarks, CLI | | | sequential or numeric |

Components interact by direct calls. The scheduler's `_policy_lock` is
re-entrant and covers most of its methods; the queue and the ledger have locks
of their own and are also used without the policy lock (`cancel` and the
`dequeue` of `admit_next`, transfers of a running fallback, pipelines). These
are the interleavings the models are about. Threads in play are the API
server's request threads, the submission workers, cancellers, pipelines, the
pressure and thermal monitors and the planner. The engines, the supervisor and
the resident worker add owner threads, reader threads, child processes and one
thread per connection, each with locks that are released around the slow call;
the optimizer's processes share files only. `PROJECT.json` lists the hazards
this gives rise to, each with its line and the properties that cover it.

## Modules

| module | models | extends |
|---|---|---|
| `ScheduleQueue` | the queue | |
| `DeviceLedger` | the ledger | |
| `BasicScheduler` | scheduler, memory controller, dispatch, fallback, pipelines | `ScheduleQueue`, `DeviceLedger` |
| `Submission` | submission scheduler and handles | `BasicScheduler` |
| `RuntimeService` | runtime service, elastic memory, chat requests and streams | |
| `InferenceLease` | what admission control may assume of an engine (abstract) | |
| `InferenceRequest` | request context, handler and completion of a command | |
| `ThreadEngine` | the owner-thread engine | `InferenceRequest`; implements `InferenceLease` |
| `ProcessEngine` | the subprocess engine and its worker | `InferenceRequest`; implements `InferenceLease` |
| `BackendSupervision` | backend process and its supervisor | |
| `OptimizerJob` | conversion jobs, checkpoints, publication | |
| `ByteTotals` | the bytes of a set of allocations or anchors | |
| `SemanticState` | semantic cache, coordinator, resizing | `ByteTotals` |
| `ResidentRuntime` | resident tensor worker: server, protocol, store, admission, artifacts | `ByteTotals` |
| `QueueLedgerProofs` | theorems | `ScheduleQueue`, `DeviceLedger` |
| `BasicSchedulerProofs` | theorems | `BasicScheduler`, `QueueLedgerProofs` |
| `SubmissionProofs` | theorems | `Submission`, `BasicSchedulerProofs` |
| `RuntimeServiceProofs`, `ThreadEngineProofs`, `OptimizerJobProofs` | theorems | the module of the same name |
| `ProcessProofs` | theorems | `ProcessEngine`, `BackendSupervision` |
| `StoreProofs` | theorems | `ResidentRuntime`, `SemanticState` |
| `MCScheduler`, `MCSubmission`, `MCService` | TLC instances | the module of the same name |
| `MCEngines` | TLC instance | `ThreadEngine`, `ProcessEngine`, `BackendSupervision`, one per behaviour |
| `MCStores` | TLC instance | `OptimizerJob`, `SemanticState`, `ResidentRuntime`, one per behaviour |

**ScheduleQueue.** One method is one action, because every method holds the
queue's condition throughout. The binary heap is the set of its entries; a pop
loop over dead entries is `Trimmed`. `_requests` is `queued`, `_claim_entries`
is `entry`, the keys of `_enqueued_ns` are `stamped`. Tokens are uuid values,
never reused, so a token is enqueued at most once; the history variable
`arrival` remembers with which rank and sequence. `Slack` is the 64 of
`_compact_cancelled_locked`.

**DeviceLedger.** One method is one action. A request is a backend and a number
of bytes, since `for_backend` derives everything else. An id names the holder
that will release it, which replaces the uuid. Evidence is a set of unordered
pairs; whether measured latencies qualify a pair is decided before this point
and is abstracted. A capacity error changes nothing and is no action.

**BasicScheduler.** The processes are clients (`admit` ... `complete`), workers
(`steal_next`, `admit_next`, `complete_queued`), cancellers, pipelines, and
control threads that hold no state between calls. `lock` is the owner of
`_policy_lock` between two actions: a critical section that shares nothing with
lock-free users is one action, the others (`steal_next`, the end of `complete`
and `complete_queued`) keep the lock over several. `pc` says where a process
is:

| pc | code position |
|---|---|
| `held` | a client between `admit` and `complete` |
| `dequeued`, `failing`, `admitted` | `admit_next` after `dequeue`; after a refusal; after `admit` |
| `peeked`, `stealing`, `stolen` | `steal_next` after `peek` and `can_steal`; after `claim_head`; after `_admit_selected` |
| `running` | a worker's operation |
| `applying` | inside `complete` or `complete_queued`, before `apply_pending_adaptive_policy` |
| `cancelling` | `cancel` after `queue.cancel` returned False |
| `checked`, `piping`, `finally` | `execute_device_pipeline` after the level test; while its stages run; in its finally |

`Candidates` and `Decision` are `dispatch_decision`: the candidates of the
operator (a constant `Chain` per job), the placement plan's backend in front,
CPU alone at level 2, filtered by the dispatcher's probed backends. Adaptive
inputs are ranks 0..2; an unknown input repeats the last value, which the
caller may also pass. Active and batch limits per level are the code's. The
profile and the expiry of a placement plan are tested when it is requested and
refuse it without a change; a plan the model requests has passed them, and its
later expiry is in `RuntimeService`.

**Submission.** Worker threads are the workers of `BasicScheduler`; `step` is
the position in `_run_worker` around the scheduler calls. `cond` is the owner
of the submission condition, which `_cancel_pending` holds over
`scheduler.cancel`. A handle's lock guards single tests and assignments.

**RuntimeService.** The module is about the two locks of the service and about
what waits for a safe point, so it sees the scheduler through its active
reservations and what is installed in it; `BasicScheduler` has the rest. `svc`
and `pol` are the owners of the service's `_lock` and of the policy lock. The
operation that `at_safe_point` runs is several actions, because it takes and
releases the service lock between them; the thread keeps `pol` meanwhile.

| pc | code position |
|---|---|
| `admitted`, `opening`, `headers`, `serving` | a request after `scheduler.admit`; with its tuning stamp; in `_stream_chat` before the headers; while the answer is produced |
| `released`, `deferred` | `complete_schedule` after `scheduler.complete`; after `at_safe_point` returned False |
| `dispatcher` ... `plan` | the sections of `apply()` in `apply_pending_runtime_policy`, in order |
| `announced`, `installing` | an install method after its item was made pending; inside its safe point |
| `reported`, `resizing`, `deferring` | `apply_memory_pressure` before its safe point, inside it, and after it was refused |
| `holding` | a thread that has the service lock and is about to call the scheduler |

A request and an installer each run once; how long a request is served, whether
its client disconnects and when a placement plan expires is free. Pressure is
one of the known levels (an unknown one is ignored by the code). There is one
pressure monitor, as in the daemon. An admission the scheduler refuses changes
nothing here. The operator's direct `resize_semantic_cache` (`service.py:1088`)
calls the cache without a safe point and is not one of the installs here;
`SemanticState` lets it happen at any moment. The adaptive state coordinator, which is called beside the
elastic controller in the same way, is not modelled.

**InferenceLease, InferenceRequest.** The abstract specification has two
variables per request, its lease and its native execution: a lease is granted,
at most one execution begins and ends under it, and it returns only when none
is under way or can begin. `InferenceRequest` is the part of a chat request
both engines share: the context that may expire or disconnect at any moment,
the `finish()` of a command, and the handler, which gives the lease back itself
or leaves that to the completion future (`watching`).

**ThreadEngine.** Handlers sweep cancelled commands out of the queue, put their
own and wait in slices; the owner thread takes, rejects or runs a command;
`close()` sets `_closed`, drains and puts a sentinel. What holds the queue's
mutex is one action; what `_state_lock` covers besides is several, and
`StateLockFree` is the guard of the others. `dropping` and `drained` are the
commands a sweep or the drain has removed and not finished yet, since finishing
happens outside the locks.

**ProcessEngine.** Both processes are in the module: handlers and diagnostics
calls, the table of pending requests, the parent's reader thread, the pipes as
sequences, the child's reader thread and main thread. The child may die or
print on the protocol stream at any point; the pipes lose what a dead child has
not read and keep what it wrote. Message contents are abstracted to their kind
and id; `Oversized` requests fail to encode.

**BackendSupervision.** `BackendProcess` is always called under the
supervisor's `_lifecycle_lock`, so one variable (`call`) says where that call
is, step by step, while the child may die in between: `stop()` reads the
process, waits for it, clears it; `start()` spawns, polls and sets `_ready`.
The watchdog polls without the lock. `late` remembers that `start()` was
overtaken by `stop()`. Health checks, backoff lengths and captured logs are
abstracted; that the watchdog tests `_stop` and the process in one step only
spares it a turn, since it tests `_stop` again under the lock.

**OptimizerJob.** A worker is a process that runs one plan from its lease to
its return; each action ends where a crash leaves something different on disk.
Checkpoint, workspaces, output, promotion lock and manifest survive a crash,
the flock and the worker's variables do not, and the conversion child goes on
writing. So does a descendant that outlives the child: it is assumed to hold the
child's output pipes, so that joining them raises and the run ends without a
result. `Fault` bounds crashes, failed saves and failed conversions together.
`lost` remembers the plans one of whose terminal saves failed.

**SemanticState.** One action per critical section of the cache and one per
call of the backend. A thread carries the handle it captured, looked up or must
release. The backend returns a new handle for each capture; a release may raise.
The two `OrderedDict`s are a set and an order each (`anchors` and `place`,
`owed` and `turn`), and an eviction takes the oldest anchors until both limits
hold. `retry_pending_releases` reads the list under the lock and releases what
it read without it (`retrying`), so a handle may be dropped from the bounded
list and released all the same. Nothing keeps two threads from retrying at the
same time; both may then release one handle, so the backend gives out no handle
that somebody still has in such a copy.

**ResidentRuntime.** One thread per connection, the main thread, and clients
that may leave at any moment they would be noticed. A command runs from its
checks to its cached answer under the service's lock (`holder`); a load also
holds the store's lock. `pool` is the reserved memory of the admission,
`alive` what the tensor backend really holds. The four load methods of the
store differ in what they validate and are one sequence of actions. A claim that
fails leaves the artifact in the inbox, leaves it in quarantine, or deletes it
(see Findings). The main loop's `closed` test and its `accept` are one action; a
connection accepted late waits in `accepted`, where the session may be over
before it is served. Left out: component
limits and the limits on handles and reservations, which refuse as the pool
does; the session file; the tiles of a stream, at each of which it may stop.
The bytes of a set of allocations (`TotalBytes`) are the size of a set of units,
as `SumOver` of the ledger is, so that their laws need no induction.

## Runs

All instances finish within two or three minutes; deadlock checking is off
because clients may stop asking for work and sessions end.

| run | instance | shows |
|---|---|---|
| `sched_queue` | 2 workers, 1 client, 1 canceller, 3 tokens, capacity 2, slack 0 | ownership of reservations and claims through every race of `admit_next`, `steal_next` and `cancel`; every waiting request stays reachable in the heap and the heads are served in order. Slack 0 makes compaction happen |
| `sched_policy` | 2 clients, 1 worker, 1 canceller, 1 pipeline, pressure, power mode and preference, 2 plans, a placement, 2 dispatchers, 2 maintenance owners | only the rollback of a cancelled admission strands a deferred relaxation, leases exclude requests; the ledger's counters are exact, nothing is overcommitted and only qualified pairs are admitted together |
| `submission` | 2 workers, 1 canceller, shutdown, 2 commands, fallback | handles settle once, none is forgotten, operations keep their reservation |
| `submission_live` | 2 workers, shutdown, 2 commands, a dispatcher, so that heads are stolen, claims restored and one job falls back | every command settles; every worker ends after shutdown |
| `submission_cancel` | as `submission` | violation, finding 1 below |
| `service` | 2 requests, one of them a stream, 2 dispatchers, a placement plan that may expire, an execution plan, 1 monitor, 1 snapshot thread | safe points are exclusive through all their sections, what is installed changes only there |
| `service_tuning` | 2 requests, 2 tunings, a dispatcher, a placement plan | a deferred tuning has someone to apply it and is switched to, completions return |
| `engines` | one of: owner-thread engine, 2 requests, queue of 1; subprocess engine, 1 request and 1 diagnostics call, table of 2; supervisor, 2 planned restarts, 2 watchdog restarts | both engines implement `InferenceLease`, finish every command once, keep the child's queue within the parent's table, give every lease back; the supervisor loses no process, spares living ones, revives none after stop, and recovers |
| `stores` | one of: 2 processes, 2 plans, 4 workspaces, 2 faults; 2 threads, 2 keys, 3 handles, 2 entries, 3 bytes, 1 pending release; 2 connections of 2 commands, pool of 3, replay cache of 1 | publication and its records, completion after faults; cache budgets and handles; loads, answers, memory and end of a session |
| `service_deadlock` | 1 request, 1 snapshot thread | violation, finding 2 |
| `service_poison` | 1 request, a tuning, a dispatcher, an expiring plan | violation, finding 3 |
| `service_stream` | 1 stream | violation, finding 4 |

The memory of the scheduler instances is three units, a job asks for one or
two and a stage for one, so memory, GPU queue and bandwidth refusals all
occur. Two workers and a canceller suffice for the races on one token: a claim
involves the claimer, one competitor and one canceller. `sched_policy` reports
pressures 0 and 2, the level between them comes from the low-power mode. A
stolen request that is refused for another reason than capacity (`StealRefused`)
is reached in `sched_queue`, not in `submission_live`. In the service
instances two requests give a completion that finds the other one active, and
two items of a kind compete for the one pending slot.
In `engines` a queue of one makes the sweep matter and a second handler
compete with it; the table of the process engine is as large as its callers, so
its refusal is not reached there. Each of the two planned restarts may meet the
watchdog, before and after its limit of two. In `stores` two faults give a
crash during a resume and a failed save after a crash; three handles of
different size exceed the cache in bytes and in entries. The three command sets
of the resident worker pair a numeric load and a second load of its artifact
with a shutdown and a cancel; a load with another client's load of the same
sequence number and a plain load that both connections send; and a load and its unload with a
retry and a status. A replay cache of one makes the first answer go away.

`service_tuning` has no snapshot thread and no expiring plan: with either of
them its properties fail, which is what findings 2 and 3 show.

**Fairness.** `Submission` assumes weak fairness of each started worker's step
(threads keep running), of a thread inside `cancel` or `shutdown`, and strong
fairness of the end of an operation (operations return, however many fallback
attempts precede it; a worker's other steps cannot be preferred for ever). No
fairness is assumed of submit, start, cancel or the control threads.
`RuntimeService` assumes strong fairness of a thread that is inside a call: it
keeps running, and it gets a lock that is released again and again (Python locks
give no order, but they do not starve a waiter for ever in practice; requests
and installers are finitely many, so nothing depends on more than that). An
answer ends some time. Requests, installs, reports and snapshots need not come.
The engines assume weak fairness of every thread: it is scheduled, and a native
call returns or its process dies; no client need ask, leave or close.
`OptimizerJob` assumes that a running process goes on and, for `JobsComplete`
only, that the operator runs every plan again and again with `--resume` (strong
fairness of taking the lease). `BackendSupervision` assumes that whoever holds
the lifecycle lock works through its call, where the readiness poll ends by its
timeout, that a process that was sent SIGKILL dies, and that the watchdog gets
the lock if it is free again and again; planned restarts and `stop()` need not
come. `ResidentRuntime` assumes that threads are scheduled and that conversions
and joins end, nothing of clients and nothing of the 30 s read timeout: the end
of a session does not depend on either.

## Findings

1. `submission_cancel`: `_cancel_pending` tests `state != "pending"`, releases
   the token through `scheduler.cancel` and only then calls `_cancelled()`. A
   worker that has already looked the command up can call `_begin()` in
   between. `cancel()` returns True, the operation runs, without its
   reservation, and `result()` returns its value. The repository's test of
   cancellation expects `SubmissionCancelledError` after a True.
2. `service_deadlock`: the two locks are taken in both orders. `snapshot`,
   `apply_operating_state` and the preference calls use the scheduler under the
   service lock; a completion or an install at a safe point takes the service
   lock under the policy lock.
3. `service_poison`: a placement plan that is deferred and then expires raises
   inside `apply()`. It stays pending, so every later completion raises at the
   same place and nothing behind it (tuning, cache resize, plan) is applied.
4. `service_stream`: `_stream_chat` writes the response headers outside its try
   blocks; a disconnect at that moment never completes the reservation.

The models also contain, without a run of their own, places where the code
does less than one may expect:

- The rollback in `admit_next` (the request was cancelled while being admitted)
  releases without `apply_pending_adaptive_policy`: a relaxation deferred
  because of that reservation waits for the next completion.
  `StrandedByRollbackOnly` says that no other release does this.
- The maintenance lease and `at_safe_point` look at memory reservations; a
  device pipeline has none and does not look at the lease.
- `apply_memory_pressure` defers after the policy lock was released. When the
  last completion falls in between, the resize waits for another one.
- A completion that found work active calls `apply_pending_execution_plan` in a
  section of its own, which may by then find none: the plan is activated before
  a pending resize. `execute_device_pipeline` likewise reserves after it tested
  the level, and `ElasticMemoryController.request` clears a report that came
  while it resized.
- Optimizer: a crash between creating `.promotion.lock` (`worker.py:177`) and
  removing it leaves the file behind. Nothing removes it, and every later
  promotion to that output fails, although `README.md:290` of the repository
  speaks of "safe restart after interruption". `JobsComplete` says that this is,
  next to a lost terminal save and an output of another plan, all that keeps a
  resumed plan from completing.
- Optimizer: when the save of a terminal stage fails (`worker.py:332`), the
  workspace is removed while the checkpoint still says converted. The next
  resume raises each time, or adopts the artifact another plan has published; a
  crash in the middle of the removal may even publish a partial artifact. The
  properties of the jobs exclude plans in `lost`. An `fsync` that fails after
  the rename (`worker.py:184`) ends in a failed checkpoint beside a published
  artifact.
- Supervision: `BackendSupervisor.start()` does not look at `_stop`. When
  `stop()` overtakes it, it starts a server nobody stops
  (`StoppedStaysDown` excludes `late`); `docs/GEMMA2-BATCH-MASK-FIX.md:138`
  speaks of preventing shutdown races. After the watchdog is exhausted a planned
  restart brings up a server without supervision.
- Resident worker: `closed` takes the lock that a running command holds, in the
  accept loop and at the head of each connection's loop. A cancel on a new
  connection, the only kind `Qwen4RuntimeClient` opens, therefore waits until
  the load it names has ended; it works on a connection that already waits for
  a frame. `cli.py:932` offers to "cancel one active numeric streaming request".
- Resident worker: after an interrupt of the main thread, `close()` releases the
  store while a busy connection may still load, so a tensor can stay resident
  behind it. `_claim_file_artifact` that fails after `source.unlink()` removes
  both copies of the manifest (`numeric_artifact.py:442`): an artifact that was
  never loaded is gone. `LoadsOnce` therefore says of a deleted artifact only
  that no load finds it.
- Semantic cache: the service never calls `retry_pending_releases`, and the
  discard after a failed restore may drop a newer anchor under the same key. Two
  threads that retry at the same time release a handle twice. A
  backend that returned a handle it had returned before would have it released
  under its second owner; the model's backend does not.

## Proofs

The assumptions on the constants are `QueueAssumption`, `LedgerAssumption`,
`SchedulerAssumption`, `SubmissionAssumption`, `ServiceAssumption`,
`RequestAssumption`, `ThreadAssumption`, `ProcessAssumption`,
`SupervisionAssumption`, `JobAssumption`, `SemanticAssumption` and
`RuntimeAssumption`, stated in the modules that declare the constants and
evaluated by TLC in the runs of those modules. Each invariant below was checked
with TLC before it was proved.

*Queue.* `QueueInv` strengthens the checked invariants (`QueuePartition`,
`WaitingIsReachable`, `QueueBounded`, `TombstonesBounded`) with where heap
entries come from: the heap is finite, every entry sits at the position its
token arrived at and its token is not claimed (`HeapIsArrival`), a claim
remembers the same position (`ClaimIsArrival`), and a token that is waiting or
claimed has arrived (`KnownArrived`). Without them `restore_claim` could put a
second entry of a token into the heap, and neither the service order nor the
bound on tombstones would be inductive. `QueueServesInOrder` proves the action
property from it.

*Ledger.* A sum over a finite set is the size of a set of blocks
(`SumOver`), so that its laws (adding an element, removing one, disjoint union)
follow from the library's cardinality theorems without induction. The invariant
`LedgerInv` is typing, exactness and the upper bounds; the lower bounds of
`NoOvercommit` follow from exactness, which is why releases need it. The proof
has one lemma per method. `LedgerAdmitsQualified` proves the action property.

*Scheduler.* `BasicSchedulerProofs` goes in layers, each using the ones before
as invariants.

1. `SchedType`: typing, which states each kind of process can be in (`Roles`),
   and that a busy worker works on a token (`WorksOnToken`).
2. `QueueStep` and `BookStep`: every action of the scheduler is one action of
   the queue, and one of a few ways to change the two books (an admission or a
   release of both, a transfer, a pipeline's group, the release of one stage,
   new evidence). Hence `SchedulerImplementsQueue` and
   `SchedulerImplementsLedger`: the scheduler refines both components, and the
   invariants proved of them hold inside it, although it uses them with and
   without the policy lock.
3. `BooksInv`: the two books agree, the memory counter is exact and bounded,
   plans are pinned and leases exclude requests. They are inductive on top of
   the first two layers, from the same classification of steps.
4. `PendingIsRelaxation`, and from it the action property
   `RelaxesOnlyWhenIdle`.
5. `OwnInv`: claims have distinct claimers, every claim has one, a claimer's
   token and an active token are not waiting and have arrived, and a job has a
   memory reservation exactly when it has an owner. `OneClaimer` and
   `ReservationsOwned` follow. The strengthening is needed because the token
   of a worker may have been cancelled under it: it then is no longer claimed,
   yet must not come back by another way. One lemma per way a claim or a
   reservation moves (taken, reserved, given up, activated, ended, a client's
   own) carries the proof; every action is one of them.
6. `StrandedByRollbackOnly`: a step that leaves a deferred relaxation without
   running work and without a completion about to apply it is the rollback of
   `admit_next`, which releases without applying (see Findings). Cancellers are
   any number. The proof goes through the steps that defer a relaxation, that
   release, or that leave `applying`, and uses the invariants above to see that a
   release without the rollback goes on to `applying` or leaves work running.

*Submission.* Every step of the submission layer is a step of `BasicScheduler`
or leaves it alone (`SubmissionImplementsScheduler`), so all of the above holds
inside it. `HandlesInv` adds the handles. `Aligned` ties a worker's place in
`_run_worker` to its place in the scheduler, `RunnersApart` gives a running
token one worker. A pending handle is registered or in the hands of the one
worker about to begin or refuse it (`PendingTracked`), a settled one is
registered only until its worker unregisters it (`SettledLeaves`), and
`BegunOnce`, `RefusedGone` say what is past `_begin` and past a refusal:
together they give `HandlesTracked` and `SettlesOnce`. `ActiveOrTaken` says that
an admitted token is active until its worker completes it or a cancel has taken
it. The last alternative is the one finding 1 is about; that it is the only way
to lose the reservation under an operation is `SubmissionHoldsReservation`.

*Service.* `ServiceInv` is typing with the place of each thread and the type of
what a completion has read; `SafePointGuarded`, which says that the owner of the
policy lock is the thread at a safe point and that nothing is active then; the
two checked invariants `TuningPinned` and `DispatcherHasApplier`; and
`PlacementReady`. The last one says why applying a placement plan does not raise
for want of a dispatcher: a plan is announced only after a dispatcher was
offered, and a completion has installed that one by the time it reads the plan.
With it `ServiceAppliesTunings` shows that the expiry of a placement plan is the
only way a pending tuning is stranded (finding 3): its hypothesis is
`MayExpire = {}`, the instance of run `service_tuning`.
`ServiceInstallsWhenIdle` proves the action property `ChangesAtSafePoints`.

*Thread engine.* `ThreadInv` says where a command is: in the queue, with the
owner, dropped by one handler's sweep or drained by `close()`, in exactly one
of these places (`OnePlace`) from its put to its `finish()` (`Owed`). `Held`
ties the lease to it: held while the handler is there and, when the handler has
left, while the completion is not done. `OwnerHas` and `Sweeping` say who may
have a command to finish, `Closing` that the drained queue stays empty, which
needs the put and the drain to exclude each other. Without `OnePlace` a command
could be finished by its sweeper and its owner; without `Held` the return of a
lease would not be known to come after the call. One lemma per action. From it,
`ThreadFinishesOnce`, `ThreadClosesEmpty` and the refinement
`ThreadRefinesLease`: the mapping reads the native call off the owner's state,
and every action is one step of `InferenceLease` or a stutter. The order of the
queue plays no part.

*Process engine.* `ProcessInv` follows a command through both processes. In the
child it is in the pipe, in the queue, with the main thread or answered, in one
of these (`OneChildPlace`), and what a living child has is in the parent's table
(`InTable`): this gives `ChildWithinTable`. In the parent an entry is in the
table, with the reader, or in the batch that the reader or `close()` is failing,
in one of these (`OneEntry`), and is not finished there (`Unfinished`): this
gives `FinishedOnce`. `Deceased` is why failing the table is safe: whoever does
it has seen the child die, so nothing of the table can still be executed; and
why a cancel that meets a closed stdin may give the lease back at once.
`HandlerHolds` ties the lease to the handler and, after it has left, to the
watched completion, and `ExecutedOnce` says that a command that waits has not
been executed. From these `ProcessRefinesLease`: the second implementation of
`InferenceLease`, by the same mapping idea as the first and through two
processes and a crash.

*Backend supervision.* `BackendInv` adds four facts to the three checked
invariants: who holds the lifecycle lock is where its call says (`Locked`), an
attempt of the watchdog is within its limit (`Attempts`), `stop()` clears the
process it has seen die (`Named`), and the stopping thread only stops, after
which nobody takes the lock unless `start()` comes late (`Down`). Without
`Named`, `stop()` could forget a process started meanwhile; without `Down`,
`StoppedStaysDown` would not survive a pending restart.

*Optimizer jobs.* `JobInv` relates each running process to the files: who has
which lease (`Leases`), that a workspace in use is on disk and bound to the
plan's checkpoint (`Holds`, `Bindings`), how far conversion, validation and
promotion are (`Progress`, `Promoted`), that two processes or two
converted plans never share a workspace (`Apart`), that a workspace a child
or its descendant still writes into is bound to no checkpoint and is not the
output (`Written`),
and what completed checkpoints and the manifest say (`Finished`, `OnePlan`,
`Recorded`). `Apart` and `Written` are the heart: a resume adopts the workspace
its checkpoint names, and nothing but the stage that checkpoint reached tells it
that no child of a crashed worker is still at work there. One lemma
per action; three theorems on published artifacts and records, and the action
property `OutputImmutable`. `JobResumable` shows besides that a converted
checkpoint at rest always has its workspace or its artifact.

*Resident runtime.* `RuntimeInv` says what a connection has at hand in each
state (`Serving`) and that the command under the service's lock is the one with
the next number (`Exclusive`). Numbers are used up in order (`UsedUp`): what was
kept or quarantined belongs to a used number or to the load that is about to use
its own, so no load can be repeated; `ClaimedOnce` says the same of artifacts
under different numbers. Both are needed for `LoadsOnce`. `Agreeing` extends
`AnswersAgree` to the answers that are being sent or cached: a cached answer may
go to a second connection after the first was lost. That a passed load has made
its tensor needs `UsedUp` as well: no answer exists before the number is used,
and no tensor before the load is retained. `MemoryAccounted` is
inductive with the finiteness of what is held and the lock's part, and
`OverIsEmpty` gives `SessionOverHoldsNothing`.

*Semantic cache.* `SemanticInv` names the handles in the cache and in the hands
of each thread. These and the list of failed releases share nothing (`Apart`)
and together are what the backend holds (`AllHeld`); `OneEach` says that a
handle has one anchor and one release, `AtHand` what a thread carries where. A
handle of the list that the backend no longer holds is the one a retry has just
released (`Retries`). `Retriers` says that what a retry still has to release is
listed, dropped or released meanwhile; without it the old copy of the list could
release a handle somebody owns. It needs no exclusion between retries. Without `Apart` an eviction and a failed restore
could release the same handle. `WithinBudget` is inductive from the laws of
`TotalBytes`: an eviction stops only when both limits hold.

Only model-checked: liveness (`EveryCommandSettles`, `ShutdownEnds`,
`CompletionEnds`, `TuningSwitches`, `LeaseReturns`, `BackendRecovers`,
`JobsComplete`, `SessionEnds`), which is beyond the prover, and the four
violations. Only proved: the refinements of `ScheduleQueue`, `DeviceLedger` and
`BasicScheduler`, that the two books of the scheduler agree and its memory
counter is exact, that plans and tunings are pinned, that relaxations wait for
idleness, the bounds of the queue and its tombstones, that a closed engine is
empty, that a converted checkpoint at rest can be resumed.

## Not modelled, and the plan

Timeouts of waiting calls, observability counters and error texts are left out.
The remaining components are listed in `PROJECT.json`. Most of the repository
is conversion, numeric formats, kernels' measurement, benchmarks, qualification
and command line: sequential code over tensors, files and reports, whose
correctness is numeric or a matter of formats and which has no protocol a model
checker explores. The models therefore cover a small share of its lines and
most of its concurrent control.

Of the modelled parts these are left out: pausing an optimizer job, its run
without a checkpoint store, the refusal without `--resume` and power loss (files
are durable once written); the daemon's sockets, draining and diagnostics; the
parsing of frames and messages. Worth doing next, in this order:

1. The rest of `RuntimeService`: model activation and the service state machine,
   the native v2 tuning thread and its maintenance lease, the adaptive state
   coordinator; the service composed with `BasicScheduler` itself.
2. `AsyncEncoderLLMPipeline` over the ledger.
3. The single flight of the token count cache, the hierarchical cache and the
   residency leases of expert weights.
4. Proofs: that a completion in `RuntimeService` is a step of `BasicScheduler`
   (it sees the scheduler through its active reservations only), and a bound on
   the handles a thread of the semantic cache may still have to release.
