# A TLA+ verification of MigrateFlow

MigrateFlow takes spreadsheets of employees, matches their columns to a target
schema, cleans and reconciles the records, asks a person about what is
uncertain, and sends the result to a target system. This directory holds TLA+
models of its backend (`src/backend/app`; paths below are relative to that
directory), the TLC configurations that check them, and the theorems that TLAPS
proves about them. `PROJECT.json` lists which definition stands for which lines,
which run checks which property, the hazards and the disagreements found.

To check: `tlc -config <X>.cfg <MCModule>.tla`; to prove: `tlapm <M>.tla` for
`JobQueueProofs`, `TargetProofs`, `PipelineProofs`, `DeliveryProofs`, `ReviewProofs`,
`ReconcileProofs`, `EventsProofs` and `ProposalsProofs`.

## 1. The system

One FastAPI process, or several over one database. Everything that lasts is in
SQL; there are no locks and no shared memory between requests. What makes the
system hard is in one sentence: *every handler reads rows, works for a while on
the copies in its session, and writes back, next to other handlers and next to a
background pass that does the same.*

| component | state | operations | interacts with |
|---|---|---|---|
| Job queue, `agent/jobs.py` | one row of `pipeline_jobs` per migration: status, generation, lease; per process a dispatcher thread and two pool threads | enqueue, claim, renew, hand back, start, stop | a pass calls the pipeline; requests enqueue |
| Pipeline, `api/pipeline.py`, `agent/pipeline.py` | one row of `pipeline_runs`: status, current stage, the statuses of the stages | run, poll, advance, push-decision, cancel, and the pass | runs the stages below; is written by the target too |
| Review, `agent/service.py`, `api/workflow.py` | `workflow_states` (status, applied mappings), `escalations` | start, resolve a mapping, resolve a record problem | the last decision enqueues the next pass |
| Transform, `api/records.py` | `transformed_records` | transform, preview | opens record escalations, pauses the workflow |
| Cleaning and reconciliation, `cleaning/` | none | clean a record, merge identities, find conflicts | used by transform |
| Validation, `validation/employee.py` | none | errors of a payload | used by transform and review |
| Mapping, `mapping/`, `api/mappings.py` | `mapping_proposals` | propose, with a model or with aliases | its outcome is the input of review |
| Policy, `agent/policy.py` | none | apply, retry or escalate one proposal | used by review |
| Target and integration, `api/mock_target.py`, `integration/` | `target_writes` with unique idempotency keys | push, retry, undo, status | writes the status of the pipeline row |
| Events, `events/`, `api/events.py` | `workflow_events`, append only | emit, stream with a resume id | every other component emits |
| Upload, `api/batches.py`, `ingestion/` | batch and profile rows, files | create a batch | creates the pipeline row, enqueues in Autopilot |
| Database, `db/` | | sessions without autoflush and without expiry at commit | shapes all of the above |
| Audit, graph contract, shell, frontend | | | read-only, unused at run time, no state, or a client |

What has to be right, component by component:

- **Job queue.** No two threads work on one migration; a claim is ended by its
  holder; every request is answered by a pass that begins after it; every
  requested job comes to rest, through crashes, errors and shutdowns.
- **Review.** The status of the workflow agrees with the open decisions; every
  record ends rejected, or valid and validated; identifiers stay unique; two
  columns never fill one field; a decision, once made, stands.
- **Pipeline.** Nothing is ready to be sent before both reviews are over; a stop
  holds; the row never claims that somebody is at work when nobody is; a decided
  Autopilot migration is delivered or says that it failed.
- **Target.** A record is written once; an undo is final; the reported status is
  that of the writes.
- **Events.** A reader gets events in order and once, and a reader that resumes
  misses nothing.
- **Proposals and policy.** A generation ends whatever the providers do, its
  answers stay with their columns, and what a model says is never enough for a
  mapping to be applied.
- **Reconciliation.** No row is lost or counted twice, an identity has one
  undisputed record, a contradiction is found in whatever order rows come, and no
  date is guessed.

What is hard in each of them is the list `hazards` of `PROJECT.json`: 40 places
where a step of one session falls between two steps of another, where a copy is
stale, where a process dies between two commits, or where a call fails in
between. Each names the properties that cover it; two have none and say why.

## 2. Modules

| module | models | status |
|---|---|---|
| `Orm` | what a commit writes: the columns whose value differs from the loaded one | used by Review, Pipeline, Target |
| `JobQueue` | `agent/jobs.py` | complete; proved |
| `PassQueue` | abstract: what the queue promises about the passes of one migration | implemented by JobQueue, instantiated by Pipeline; proved |
| `Review` | `agent/service.py`, `transform` of `api/records.py` | complete but for events; proved for independent decisions |
| `Pipeline` | `api/pipeline.py` and everything that writes the pipeline row | complete; push and review coarse; partly proved |
| `Target` | `api/mock_target.py`, `integration/service.py`, write by write | complete for the keys the application uses; proved |
| `Delivery` | abstract: what the target promises about each record | implemented by Target |
| `Proposals` | `api/mappings.py`, `mapping/engine.py`, `agent/policy.py`, the read of `start_workflow` | complete but for prompts and texts; proved |
| `Reconcile` | `cleaning/service.py`, the dates and identities of `validation/employee.py`, the loop of `transform` | complete but for spelling rules; proved |
| `Events` | `events/service.py`, `api/events.py`, an EventSource | complete; proved |
| `MCJobQueue`, `MCReview`, `MCPipeline`, `MCTarget`, `MCProposals`, `MCReconcile`, `MCEvents` | instances for TLC | |
| `JobQueueProofs`, `TargetProofs`, `PipelineProofs`, `DeliveryProofs`, `ReviewProofs`, `ReconcileProofs`, `EventsProofs`, `ProposalsProofs` | theorems about these modules | |

How they fit together: Pipeline takes its job row and its passes from PassQueue,
which JobQueue implements. Review starts from the mappings that Proposals leaves
(`Suggested`, `Automatic`) and from the records that Reconcile produces (`Datasets`).
Pipeline sees of Review the status of the workflow row, and of Target whether
its records are held.

### Conventions

*Grain.* A step is one SELECT, or one transaction from its first flush to its
commit. A SELECT and the write that relies on it are two steps, since neither
SQLite (reads outside a transaction keep no lock) nor PostgreSQL at READ
COMMITTED keeps what was read valid. From the first flush to the commit a
transaction is one step: SQLite's write lock makes it so, and on PostgreSQL a
handler's transaction writes one row that others write too. Consecutive SELECTs
are one step where only the later of them can matter.

*Copies.* `SessionLocal` is created with `autoflush=False` and
`expire_on_commit=False` (`db/database.py:33`). So a session works on the values
it loaded or refreshed last, counts what it has not flushed as unwritten, and its
UPDATE sets a column only if its new value differs from the loaded one. This is
the operator `Write` of `Orm`. It decides several of the results below: a
session that "writes" the value it had loaded writes nothing.

*Mutants.* A definition followed by `\* mutant` is not part of a model. It is
the definition next to it with one plausible mistake, kept to show that the
property it is listed with would notice that mistake.

### JobQueue

`status`, `generation`, `token`, `lease` are the columns of `pipeline_jobs`.
`disp[p]` is where the loop of process *p* stands (`_loop` and `claim`: wait,
select, update, read), `worker[w]` is the future a pool thread runs (running;
finishing, between the SELECT and the UPDATE of the `finally` block; done, until
the loop drops it from `active`). `Enqueue`, `Renew`, `Select`, `Claim`,
`ClaimLost`, `Submit`, `FinishRead`, `FinishWrite` follow the code statement by
statement. `Stop`, `Start`, `Crash`, `DispatcherError`, `WorkerError`, `Stall` are
what can go wrong, chosen by the constant `Faults`. The pass is abstract: it ends
and fails or not. The uuid of a claim is the thread it was drawn for. The code
claims the row with the oldest `updated_at`; the model claims any.

Time is counted in ticks no shorter than the dispatcher's period. A dispatcher
that keeps its period renews between any two ticks (`Clock`); one that is held up
does not (`Stall`). `served` and `late` are history: the generation the latest
pass started from, and the requests that fell into a finishing window.

### PassQueue

The job row of one migration as its users see it: `status`; `owed`, a request no
pass has begun after; `pass`, what each thread has of the migration. A request
is `Ask`, a pass goes through `Claim`, `Begin`, `Finish` (it decides what it will
write) and `HandBack` (it writes), or is lost with `Lose`. `missed` says that a
request fell between the last two, the window of `agent/jobs.py:83-88`.

JobQueue implements it for every migration (`ImplementsPassQueue`): `owed` is
`generation > served`, a pass is claimed while its dispatcher is between the
UPDATE and `pool.submit`, begun while it runs and about to hand back between the
SELECT and the UPDATE of the `finally` block. Leases, renewals and the
dispatchers' own steps are stutters, a crash is a `Lose`. Pipeline instantiates
the module and uses these actions in its own, so that it assumes of the queue
what is checked and proved of it, the window included.

### Review

`workflow` is the row of `workflow_states` (state_json as applied and rejected
columns), `escalation` the rows of `escalations` by what they are about (a
column; a record and a field, or a record and its conflict), `record` the rows of
`transformed_records`. `data` is what the cleaned files hold; `Datasets` is every
outcome of `reconcile_records` for the identifier `employee_id`. A payload is its
identifier and the set of fields that validation rejects. A request is a record
in `session`: opened (the escalation is loaded and OPEN), loaded, counted (the
mapping path counts the open rows before its flush), then its commit; the record
path loads, then flushes, counts and commits. `Refuse` is a 409 or 422.

`Overlap` says which requests the instance lets run at the same time. The code
lets all of them, and then several of the properties are false (two runs show
that). With `"independent"` two reviewers decide on different records at the
same time, at most one of them about an identifier, transforms overlap each
other and record decisions, and mapping decisions are made alone. A transform
reads and commits in two steps; one that found no records and commits after
another replaces what that one wrote, decisions included, and `DecisionsStand`
exempts exactly this step (`LateTransform`).

### Pipeline

`row` is the row of `pipeline_runs`. A session is the pass of the pool thread or
one of the requests in flight; `session[s].pc` is where it stands and, between a
load and the commit that relies on it, `copy` is its copy of the row.
`BeginRead/Begin`, `CompleteRead/Complete`, `PauseRead/Pause`, `Except/Fail`,
`UndoRead/UndoWrite` are the refresh and the commit of `_begin`, `_complete`,
`_pause_for_review`, the except blocks and `rollback`; `AdvanceStage` is the
commit after `_complete` that moves to the next stage, which refreshes nothing.
`Open` starts a poll, run, advance, push-decision or cancel with the check the
handler makes before its load; `Sync` is `_sync_resolved_review`; `Enter`,
`EnterPush` and `Return` are the checks of `advance_pipeline`, of `decide_push`
and of `execute` in their order.

The job row and the steps of a pass at its two ends (`ClaimPass`, `StartPass`,
`Leave`, `HandBack`) and the `Enqueue` of a request are actions of PassQueue. That
a queued or lost job is claimed is what `EveryJobSettles` of JobQueue says. Two
neighbours are coarse. The review is the status of the workflow row: the review or
the transform pauses it or not, and the last decision completes it (`Resolve`). A
push, an undo and the status they write are one step each, and the target holds
all of a migration or none (`SENT`, `FAILED`, `UNDONE`). `Guide` is the path of the
guided screens of the frontend, which call the endpoints of the stages themselves
and send to the target directly.

`Crash` loses a session wherever it stands. `lost` remembers what nobody does in
its place (`LeftUndone`): the enqueue after a commit, a push that has begun, the
status derived from the writes, the status of an undo. The properties about rest
name the loss they exempt, each the one that can cause just that state.
`UndoWhen` is what the target holds when somebody undoes: the frontend offers it
once something was sent or has failed.

The creation of a missing row by `_pipeline` is left out: `create_batch` commits
the row with the batch.

### Target and Delivery

`writes[r]` is the row of `target_writes` for the VALID record *r*, found by its
idempotency key batch:file:number; `row` is the status of `pipeline_runs` and of
its push stage. A push (`PushValid`, of every record, or `Push`, of one) goes
round `Check` (`require_push_ready`, made again before every record), `Look` (a
key that exists is answered with its old outcome) and `Insert` (the commit; of two
inserts of a key the second violates the unique index and ends its request). It
ends with `sync_target_status`: `SyncLoad`, `SyncRead`, `SyncCommit`. A retry
checks, loads the writes, commits them and synchronises; an undo commits the
writes and then the row, which it loads in between; a cancel loads the row and
commits it. `Fate` is what `push_record` makes of a record, a function of its
payload. `Crash` drops a request wherever it stands.

Each function of a request loads its rows anew: the session keeps only weak
references to the rows of the function before. SQLite's lock, which the flush in
`emit_event` takes early, allows fewer interleavings than the model has;
PostgreSQL allows all of them. What `decide_push` itself writes to the row around
a push is in Pipeline. Left out are keys that a client of the direct endpoint
makes up, and the refusal of a known key with another payload: after the review
payloads do not change (`DecisionsStand` of Review).

`Delivery` is one variable, the effect of each record: none, held, postponed,
refused or undone, and the three steps that may change it. Target implements it
with the effect read off `writes` (`EachRecordIsDeliveredOnce`): however requests
overlap, are repeated or get lost, a record is not sent twice, a refusal is
final and so is an undo.

### Proposals

A generation (`session`) looks for stored rows, asks a model once per file, as
many files at a time as there are workers (`WaveTurn`), and takes each failure up
the ladder of `recover_profile` once the wave is over: the same model alone
(`RetryTurn`), the other provider, the deterministic rules. `Reply` is any answer
of a model, with items named or not, in any order, one item short or not;
`Covers` and `ItemFor` are `_validate_batch_result`. `Delete` and `Insert` replace the
rows: on SQLite the first takes the write lock, on PostgreSQL it sees committed
rows only. `StartWorkflow` reads what is stored, and `AutoApplies` is
`evaluate_mapping` on it, with the weighted score in ten-thousandths.

`UncertainAt` are the positions of the columns that were asked about, `Number` the
place of one of them, which is how unnamed items find their column.

Evidence (what the name, the type, the patterns and the uniqueness of a column say
for a target) is a constant, a model's opinion any of `Opinions`. `by` stands for
the warnings an answer carries. A deployment is chosen in `Init`.

### Reconcile

`rows` is any sequence of rows, the files one after another. `StartRecord`, `SetBeside`
and `Merge` are the three branches of the loop of `reconcile_records` for the row
`next`; `Write` is what `transform` makes of the result. `merged`, `index` and
`conflicts` are the variables of the function. A date is what stands where a day
or a month may, and `ReadSlash` the rule of `_transform`. Normalisation of texts is
the constant `Normal`. The properties are about the rows alone: `SamePerson` and
`Disagree` do not look at the index.

### Events

A session's events get their ids at the flush (`Emit`) and are visible after the
`Commit`. SQLite has one writer at a time and takes the id after the highest it
holds; PostgreSQL takes it from a sequence. `stream[c]` is the generator that serves
a client: its cursor, the page of the latest query, what it has yielded and the
client has not got. A page is a set of ids, yielded lowest first, as its query is
ordered by id. `Connect` starts from `Last-Event-ID`, which is the last event
received. `overtaken` is history: what was flushed and not committed when a later
event was read for the client.

## 3. Runs

| run | question | result |
|---|---|---|
| `queue_crash` | two processes, three threads, two migrations, a crash or a database error at any point | `OnePassPerBatch`, `ClaimEndsByHolder`, `ImplementsPassQueue` hold |
| `queue_faults` | one migration, three faults of any kind, with shutdowns and stalls | `RestMeansServed`, `EveryJobSettles` hold |
| `review_independent` | two reviewers on different records, transforms at any time | the six properties of Review hold |
| `review_stuck` | is the workflow over when everything is decided? | **no**, `AllResolvedCompletes` fails |
| `review_invalid` | does a VALID record pass validation? | **no**, `ValidIsValidated` fails |
| `pipeline_stop` | both modes, a pass, a request of any kind but an undo, a crash anywhere | `PushComesAfterReview`, `StopHolds` hold |
| `pipeline_delivery` | Autopilot under fairness, a pass, two requests, a crash anywhere | `RestIsVisible`, `DecisionIsTakenUp`, `CompletedTellsTheTarget`, `DecidedIsDelivered` hold |
| `target_delivery` | two requests of any kind at the target, one lost at any point | `StopIsSeen`, `EachRecordIsDeliveredOnce` hold |
| `target_unsent` | does COMPLETED mean that every record was sent? | **no**, `CompletedMeansSent` fails |
| `events` | two writers and a reader that loses its connection or its page, on either database | `InOrderOnce`, `OnlyOvertakenIsMissed`, `EveryEventArrives` hold |
| `proposals` | two generations, one with a model and one without, every answer and failure, four deployments | `TargetsAreDistinct`, `AppliedNameIsKnown`, `DegradedNeedsHuman`, `NamedAnswersStay`, `UsedSetStands`, `EveryGenerationEnds` hold |
| `reconcile` | all files of up to three rows | `EveryRowOnce`, `ValuesAreTheRows`, `OneRecordPerIdentity`, `ConflictIsDisagreement`, `NoDateIsGuessed` hold |

### Where the code and its documents disagree

Three runs expect a violation; each is a finding of `PROJECT.json`.

1. *A stuck review* (`agent/service.py:273`). Each of two requests that resolve
   the last two mappings counts the other's escalation as open. Nothing is open
   afterwards, the workflow stays PAUSED and the work is never requeued.
2. *An invalid VALID record* (`agent/service.py:166`). A correction writes the
   whole payload from its copy, but the status only if it differs from the
   loaded one. Overlapping corrections of one record can put back an invalid
   value under a status of VALID.
3. *COMPLETED over unsent records* (`api/mock_target.py:39-45`). The status is
   derived from the writes that exist. After a push that ended half way, a retry
   finds only successes among them and reports "All approved records were sent
   successfully." while other records have no write at all.

### What the properties exempt

The other weak places of the code are stated as the exact exception of a property
that holds, so that the run shows that nothing else goes wrong.

- *A request at the end of a pass* (`agent/jobs.py:83-88`). The `finally` block
  compares the generation it has read and then writes WAITING. An enqueue in
  between is overwritten; no further pass runs, though the comment at `jobs.py:34`
  promises one. `RestMeansServed` (`late`) and `DecisionIsTakenUp` (`missed`) show
  that this window is the only one.
- *A decision or an upload without its enqueue* (`api/workflow.py:57`,
  `api/batches.py:85`). A process that dies between the commit and the enqueue
  leaves work nobody requests: `"enqueue"` of `lost`.
- *A push that died* (`api/pipeline.py:166`). `_begin` commits the push stage as
  RUNNING. When the process dies there, the reclaimed pass returns at once and
  `decide_push` refuses a running stage: the migration stays ACTIVE for good.
  `"push"` of `lost`, in `RestIsVisible`.
- *A status that was not derived* (`api/pipeline.py:273`). Lost after COMPLETED and
  before `sync_target_status`: COMPLETED over failed writes, `"settle"` of `lost`,
  in `CompletedTellsTheTarget`.
- *A lost stop* (`api/pipeline.py:71-77`, `:209`). A cancel that commits between
  a check and the commit after it is overwritten, and the target then accepts
  the records. `StopHolds` shows how far it goes: only a session that had checked
  before the stop and had not committed overwrites it, in one commit.
- *A late transform* (`api/records.py:124`). It deletes the records of another with
  the decisions about them, if it had found none; `DecisionsStand` shows that
  nothing else does.
- *Two sets of proposals* (`api/mappings.py:110`). On PostgreSQL the rows of two
  generations that overlapped stand side by side, and two columns may be applied
  to one target. `TargetsAreDistinct` holds on SQLite, and on PostgreSQL for one
  set.
- *An overtaken event* (`api/events.py:27`). On PostgreSQL an event with a lower id
  that commits after the cursor went past it is never delivered.
  `OnlyOvertakenIsMissed` shows that no other event is missed, and on SQLite none.

### Bounds, and why they are enough

- *JobQueue.* Two processes and a lease of two ticks are the least with which a
  live claim, an expired one and a stolen one differ. Two threads in one process
  and one in the other let a thread of the same and of another process compete.
  Two requests (`MaxGeneration`) make one during and one after a pass. Three
  faults let a process stop, another stall and a third event follow. The proofs
  do without bounds.
- *Review.* Two colliding columns and a safe one in one file; three records, so
  that a merged identity, a conflicting one and a third owner of a corrected
  identifier exist together; two reviewers, since every hazard found is a pair of
  requests. Two fields: the identifier, which is compared with other records, and
  one that is not.
- *Pipeline.* `PipelineStop.cfg` has a pass and one request at a time, repeated
  without limit: between two steps of the pass any number of requests begins and
  ends. `PipelineDelivery.cfg` has two requests in flight next to the pass, which
  is what it takes for a request to meet another one that has not enqueued yet.
  One lost session (`MaxCrashes`), at any point and of any kind; two losses in one
  behaviour are not explored.
- *Target.* One record for each outcome of a push; two requests, of any kinds and
  repeated without limit; one lost request. A third request adds nothing to the
  two properties that hold: they are proved for any number. `RetriesMeet` is
  FALSE: of two retries in flight together the second writes what it loaded, and
  with an undo between their commits an undone record is SUCCESS again.
- *Events.* Four ids, so that a transaction may hold two of them around the id of
  another; two losses, so that a client resumes and then starts again. Readers do
  not meet: one client stands for all.
- *Proposals.* Two generations, the least that replace each other. Two files, the
  least for a wave; in the first a column the fast path knows and one it does not
  compete for a target. The four deployments have both databases, a wave and none,
  a failover provider and none, the fast path and none.
- *Reconcile.* Three rows: one that starts a record, one that is merged into it or
  set beside it, and one that meets the result. One identifier in two spellings,
  one address, four dates, of which one has no reading and one has two.
- `PipelineDelivery.cfg` has no polls: a poll's `_sync_resolved_review` can write
  ACTIVE over the FAILED of a pass that has ended, and then `RestIsVisible` is false
  (listed as a hazard at `api/pipeline.py:130`). It has no stop, decline, advance or
  push-decision either; these are in `PipelineStop.cfg`.
- `PipelineStop.cfg` has no undo because an undo overwrites a stop by design.

`CHECK_DEADLOCK FALSE` is set where the system may come to rest: when nobody
makes a further request.

### Fairness

- JobQueue: weak fairness of each dispatcher (a loop in a thread of its own with
  a catch-all), of the end of a pass (every model and target call has a timeout),
  of the restart of a process (`docker-compose.aws.yml`, `restart: unless-stopped`)
  and of the clock. No request and no fault has to happen.
- Pipeline: weak fairness of the steps of a session that is being served, for the
  same timeouts, and of the claim of a queued or lost job, by `EveryJobSettles`.
  Nobody has to decide a review or press a button: `DecidedIsDelivered` starts
  from the moment everything is decided.
- Proposals: weak fairness of a generation that has begun. Calls have timeouts and
  a bounded number of retries of their own; nobody has to ask for proposals, and a
  generation may be lost.
- Events: weak fairness of a stream, whose loop polls every second, and of the
  connection, which an EventSource makes again by itself. Nobody has to emit or to
  commit.
- Review, Target, Reconcile: none; their properties are safety.

## 4. Proofs

`JobQueueProofs` proves, for all finite or infinite sets of processes, threads
and migrations and all bounds:

| theorem | says | assumes |
|---|---|---|
| `Typing` | `Spec => []TypeOK` | |
| `RestIsServed` | `Spec => []RestMeansServed` | |
| `OnePass` | `Spec => []OnePassPerBatch` | `Punctual` |
| `ClaimsAreFenced` | `Spec => ClaimEndsByHolder` | `Punctual` |
| `QueueOfPasses` | `Spec => ImplementsPassQueue` | `Punctual` |

All of them use the named assumptions of `JobQueue` on its constants: each
thread has a process, no thread is the null token, a lease is at least two
ticks, bounds are naturals. `Punctual` says that the instance meets neither
"stop" nor "stall": dispatchers that run keep their period. It cannot be dropped:
a pass whose dispatcher is held up for a lease is overtaken, by design of a lease.

*RestIsServed.* `RestMeansServed` is not inductive: that a pass may leave a row at
rest depends on what it read. `Accounted` adds that the latest pass of a batch
started from a generation no later than the row's, that no pass in flight started
from a later one than `served`, and that a pass which has decided to leave the
row at rest has seen every request, or the batch is in `late`.

*OnePass.* `Holding` ties a pass to its claim: whoever works on a batch holds its
token in a live process, the row is RUNNING, and the lease has not run out, with
one tick in reserve once its process has renewed since the last tick; the same
holds of a claim whose pass has not been submitted yet. Two threads that work on
a batch then hold the same token. The arithmetic of the lease is in
`Clock`, which needs every live process to have renewed, and in `Renew`, which
sets the lease to at least two ticks. A claim by another needs a lease of zero.
`ClaimsAreFenced` follows from the same invariant.

*QueueOfPasses.* `StepIsAStep` maps each action to the step of PassQueue it is for a
given migration. Whoever has a pass there, claimed or begun, holds the token
(`PassHolds`, from `Holding`), so there is one such thread and a step changes only
its pass; that is what makes a crash of a process a single `Lose`, and a claim one
of a row nobody has. A pass decides at its end by the generation it started from,
PassQueue by `owed`: that the two agree is `PassIsLatest`, the pass under way is the
latest one. `Accounted` gives that a new request is owed.

`TargetProofs` proves, for all sets of requests and records, every `Fate` and any
number of losses:

| theorem | says | assumes |
|---|---|---|
| `Typing` | `Spec => []TypeOK`, and only pushes look for keys | |
| `StopsAreSeen` | `Spec => StopIsSeen` | |
| `Implements` | `Spec => EachRecordIsDeliveredOnce` | `Apart` |

*StopsAreSeen.* The history variable `unaware` collects, when a stop commits, the
sessions between their check and their write. `StopIsKnown` is the invariant: once
the row says stopped, every session past its check is among them. It survives a
later `SyncCommit` that overwrites the stop, since nothing is claimed then, and a
second stop, which collects again.

*Implements.* Each commit to `target_writes` is a step of Delivery (`Insert` a
Send, `RetryCommit` a Retry, `UndoCommit` an Undo), and all else a stutter. A
commit writes what its session has loaded, so the step is legal only if the copy
still says enough about the table. `Fresh` is that invariant: what a retry found
failed still is, and what an undo found sent is sent or undone by now. The first
part needs that only one retry is between its check and its commit, which is the
assumption `Apart` (`~RetriesMeet`); without it the theorem is false.

`PipelineProofs` and `DeliveryProofs` prove, for all requests in flight, both modes
and any number of lost sessions:

| theorem | says | assumes |
|---|---|---|
| `Typing` | `Spec => []TypeOK` | |
| `StopsHold` | `Spec => StopHolds` | |
| `PushesFollowReview` | `Spec => []PushComesAfterReview` | |
| `CompletionsTell` | `Spec => []CompletedTellsTheTarget` | |
| `RestsVisibly` | `Spec => []RestIsVisible` | `Unpolled` |
| `DecisionsAreTakenUp` | `Spec => []DecisionIsTakenUp` | `Unpolled` |

The first four hold for every kind of request. `Unpolled` says that the requests
of the instance are runs, decisions, undos and the guided screens, and that what
is undone was pushed; it is what `PipelineDelivery.cfg` takes, and it cannot be
dropped (a poll moves the row itself, section 3).

*Typing* is more than a formality here: each session carries a copy of the row, and
`Save` merges the fields that copy has changed into a row that has moved on. That
every such merge, every advance and every `sync_target_status` yields a row of the
application is `Saving`, `AdvancedIsARow` and `SyncedIsARow`.

*StopsHold.* `StopIsKnown` is the invariant. While the row says `CANCELLED`, a
session between its check of the status and its commit is in `unaware`, which the
cancel filled, or it is a decline that has loaded the stopped row and is about to
be refused. A session that checks after the stop sees it (every step that leads
from a check to a commit reads the row again), so none joins; a commit that keeps
the stop ends its session or leaves it to a later read, except between `Complete`
and `Settle`, where the session stays in `unaware`.

*PushesFollowReview.* `PushComesAfterReview` speaks of the row and the target; what
may be written there depends on copies and positions. `Ordered` says the same of
the row and of every session's copy (`Supported`), adds that a preview waits for a
review only once the records are there, and ties the position of a session to
what it has seen (`Stands`): between the transform and the pause the records
exist, from `_complete` of the preview to the move to push the review is over.
The last is why a poll that finds a decided preview may move the row: what it
loaded was `NEEDS_REVIEW`, so the records were there. `Save` mixes columns of the
copy and of the row, and each of the two conditions is about one column, so a
mixture of two supported rows is supported (`ColumnsAreSupported`).

*CompletionsTell.* `COMPLETED` is committed before the writes are looked at, so the
invariant `Told` names who still has to: a session at `settle`, which has written
`COMPLETED` itself and so has it in its copy, or an undo whose copy does not say
`ROLLED_BACK` yet; or what was lost with such a session. A commit of the derived
status always differs from that copy, so it is not swallowed by the merge of
columns. That only `decide_push` writes `COMPLETED` is `Syncing`: what
`_sync_resolved_review` completes is a review or a preview.

*RestsVisibly, DecisionsAreTakenUp.* Both speak of a moment when nobody is at work,
so the invariant `Delivers` has to say of every other moment who will go on. Until
the row says push the pass is its only writer and its copy is the row; after that
an undo may write `ROLLED_BACK` under it (`Fits`). An ACTIVE row at push has a pass
delivering it (`PushIsPursued`), one before it has a job row that will be claimed
or a request about to ask (`WorkIsPursued`). A decided review that is still PAUSED
has a request about to ask or a job row, and a pass that is handing its row back
to the queue because it owes one (`DecisionIsPursued`); for that the pass that pauses
must have been asked when the decision came before its commit (`PauseIsAsked`). Each
clause has the loss that breaks it beside it.

`ReviewProofs` proves, for all columns, records, fields, identifiers and requests
in flight. The assumptions of `Review` on its constants are that the mappings it
starts from are such as Proposals leaves them, and that the escalation of a column
is not that of a record:

| theorem | says | assumes |
|---|---|---|
| `Typing` | `Spec => []TypeOK` | |
| `Reviewing` | `Spec => []IInv`, the inductive invariant | `Overlap = "independent"` |
| `StatusCounts` | `Spec => []StatusIsTheCount` | `Overlap = "independent"` |
| `MappingsStand` | `Spec => []MappingsDecided` | `Overlap = "independent"` |
| `RecordsDecided` | `Spec => []EveryRecordDecided` | `Overlap = "independent"` |
| `Identifying` | `Spec => []UniqueIds` | `Overlap = "independent"` |
| `Standing` | `Spec => DecisionsStand` | `Overlap = "independent"` |

`Overlap = "independent"` is what the runs check too. It cannot be dropped: the
runs `review_stuck` and `review_invalid` show what happens without it.

*Reviewing.* `Typing` needs of each session that what it decides fits the issue
(`Fits`), so that a correction is of the field that is open. The invariant then
has four parts. `Apart` is the condition on what is in flight, kept by every
request that opens. `Phases` separates the two reviews: mappings are decided
before there is a record, so that a transform, which replaces every record, and
a decision about a mapping never meet. `MappingsKnown`, `RecordsKnown` and
`TransformsKnow` say that what a session has loaded is still so when it commits;
a decision about a record is exempt once the records have been written anew
(`version`), since it then finds nothing. `RecordsAreRight` and `IdsAreRight`
relate a record's status to what is open about it, and let two records share an
identifier only while a conflict that can still be corrected is open.
`StatusIsTheCount` and `MappingsDecided` are conjuncts; the other properties
follow.

`ReconcileProofs` proves, for files of any length and any sets of identifiers,
addresses and dates:

| theorem | says |
|---|---|
| `Typing` | `Spec => []TypeOK` |
| `Reconciling` | `Spec => []IInv`, the invariant of the loop |
| `RowsOnce` | `Spec => []EveryRowOnce` |
| `NothingLost` | `Spec => []ValuesAreTheRows` |
| `OneRecord` | `Spec => []OneRecordPerIdentity` |
| `Conflicts` | `Spec => []ConflictIsDisagreement` |
| `NoGuess` | `Spec => []NoDateIsGuessed` |

The assumptions on the constants are those the code justifies: folding a text that
is not blank does not make it blank, and a month has 28 to 31 days.

*Reconciling.* The properties relate the records to all pairs of rows, the loop
compares a row with one record. `IndexIsRight` bridges the two: the index has
every identity seen, at the one record out of conflict that holds all of its rows
but those set beside. `ValuesAreSaid` says that a record has of each field what
its rows say, so that a row that disagrees with the record disagrees with one of
its rows, and the other way round. `ConflictsAreReal` keeps of a record set
beside that it is one row with such an opponent. `KeysArePersons` shows that the
keys of `reconcile_records` are equal exactly when the rows name one person.

`EventsProofs` proves, for any sessions, clients, ids and losses, on either
database:

| theorem | says |
|---|---|
| `Typing` | `Spec => []TypeOK` |
| `Delivering` | `Spec => []IInv` |
| `InOrder` | `Spec => []InOrderOnce` |
| `NothingElseMissed` | `Spec => []OnlyOvertakenIsMissed` |

*Delivering.* `IdsRise`: on SQLite one transaction at a time holds ids, above all
that is committed; on PostgreSQL nothing is above the sequence. `HistoryIsRight`
and `StreamIsRight` say of what was got, what is on the wire, the cursor and the
page, in this order, that ids rise along them and that everything below each of
them is further ahead in that order or may be missed (`HasAllBelow`). The page is
what makes the invariant: it was read at one moment, and what commits below it
afterwards is what `overtaken` has noted.

`ProposalsProofs` proves, for any generations, files, columns and targets, any
evidence, any opinions of a model and any deployments:

| theorem | says |
|---|---|
| `TypeCorrect` | `Spec => []TypeOK` |
| `NamedAnswersAreStored` | `Spec => []NamedAnswersStay` |
| `AppliedNamesAreKnown` | `Spec => []AppliedNameIsKnown` |
| `DegradedAnswersWait` | `Spec => []DegradedNeedsHuman` |
| `AppliedTargetsAreDistinct` | `Spec => []TargetsAreDistinct` |
| `UsedRowsStand` | `Spec => UsedSetStands` |

The assumptions on the constants: the schema has fields, evidence and confidence
are percentages, the columns of a file are distinct and no column belongs to two
files, in which the model writes what the code has as a pair of file and column.

*TypeCorrect.* That `Rows` has an answer for every column is not seen from one
state: `TInv` adds that a file which is done has one for each of its questions
(`AsksWell`), whichever rung it came from, and `RowsOfAnswers` puts the files and
the known columns together. `CoveringReply` and `NumberIs` say that a reply that
was accepted has an item for every question, by its name or by its number, which
is also why an answer stays with the column it names. `BestIs` finds the best
target of any schema, by what its score lacks of the bound, since the schema need
not be finite.

*AppliedNamesAreKnown.* `ScoreNeedsAlias` is the arithmetic of `WEIGHTS`: without an
alias name, type, pattern, uniqueness and the model add up to at most 8500 of the
9000 that are needed, so no confidence makes up for it.

*AppliedTargetsAreDistinct.* A generation flags its own collisions, so it is enough
that one was read. `OneWriter` has for SQLite that one session at a time stands
between its delete and its commit, that what it deleted is all there is, and so
that the rows of one generation stand.

*UsedRowsStand.* `NobodyNew`: once `start_workflow` has read there are rows, so that
a request which looks finds them, and whoever still generates did so then.

Only model-checked, because they are liveness, which the prover's backends cannot
do under fairness: `EveryJobSettles`, `DecidedIsDelivered`, `EveryGenerationEnds` and
`EveryEventArrives`. Every invariant and every action property that a passing run
checks is proved.

## 5. Plan

What would add most, in this order:

1. `Apart` of Target and `Overlap` of Review as named exceptions of the properties
   in place of assumptions.
2. Target with two retries and an undo between them, and with keys a client of the
   direct endpoint makes up; both would replace an assumption by a named exception.
3. Polls in `PipelineDelivery.cfg`, with the stage a poll writes from its old copy
   as the exception.

## 6. Not modelled

- Audit export, health, logging, settings, headers: no state of a migration.
- `agent/graph.py`: the documents call it a separately tested contract; nothing
  calls it at run time.
- File parsing, profiling, masking, the spelling rules of texts, phones, names and
  departments, and how close two names are: data. The models take what these
  functions can produce as constants.
- Prompts, the texts of a model's answers, and the per-column ladder of the
  engine, which no adapter of the repository reaches.
- Keys that a client of the direct endpoint makes up: no document says what they
  are promised.
- The append-only triggers of `db/database.py` and `audit_events`.
- The frontend, but for the requests it makes.
- Errors of SQLite such as "database is locked": a request that fails is a
  `Refuse`, a `Raise` or a lost session.
