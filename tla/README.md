# Verification of Hotpass

TLA+ models of the parts of Hotpass whose correctness depends on the order of
events, on what fails after what, or on rules that are easy to get wrong;
model-checked with TLC on small instances, and theorems about them that the TLA+
proof system checks for every instance. The models are translated from the
source; `PROJECT.json` maps each definition to the lines it stands for.

## The system

Hotpass refines spreadsheets of organisation records. A Python data platform
(`apps/data-platform/hotpass`) runs pipelines, research and enrichment, from a
command line, from Prefect, or for agents over MCP. A web UI (`apps/web-ui`)
starts those runs as child processes of an Express server (`server/`) and
follows them from a React client.

### Components

| Component | State | Operations | What makes it correct |
|---|---|---|---|
| Command job runner (`server/job-runner.js`) | job table, bounded log per job, event emitter, child processes | create a job, child callbacks (`data`, `error`, `close`), merge metadata, publish | a gapless recent log; one verdict; nothing after the end |
| Dataset import (`server/index.mjs`, `POST /api/import`) | temporary directory, workspace, listener on the job, activity log | receive, reject, store, spawn, announce, follow, clean up | directories match the answer; the listener goes with its job |
| JSON storage (`server/storage.js`) | JSON files below one root | read with fallback, whole-file write | read-change-write cycles do not lose data; files stay readable |
| Human-in-the-loop approvals (`POST /api/hil/approvals`) | approvals, audit log, activity log | one decision: three files in turn | every decision audited with what it replaced; what the audit tells is true |
| Job streams (`GET .../events`, `.../logs`) and the pages that read them | one listener per open response; what a page shows | snapshot, forward, break, reconnect | log in order, without gap; the end that is shown is the job's, and it is learnt |
| Automation deliveries (`automation/http.py`, `hooks.py`) | failure count, circuit deadline, report, dead letter file | webhooks and CRM push with retry, backoff, breaker | nothing sent in a recovery window; keys identify deliveries; failures can be replayed |
| Refining a dataset (`cli/commands/run.py`, `orchestrate.py`, `orchestration.py`, `pipeline/`, `lineage.py`) | data frame, files, lineage events, agents' audit | ingest, redact, aggregate, validate, publish, features, report, deliver, archive, retry | answer, files, lineage and audit agree |
| Aggregation (`pipeline/aggregation.py`) | rows of a group, conflicts | rank, select, record provenance | the best row decides; only spellings of the name are dropped in silence; conflicts agree with the row |
| Backfill (`orchestration.py`, `cli/commands/backfill.py`) | restore directories, outputs, slots of a concurrency key | restore, take and give back slots, replay, fall back, count | replays see their archives; reports are true; flows end |
| Research orchestrator and search service (`research/`) | plan, results per step, two rate limiters, cache on disk | search, enrich, crawl, throttle, cache | turns at the limiters are spaced; permissions and the cache are kept; one result per step |
| MCP server (`mcp/server.py`, `access.py`) | registry, role policy, line in hand | register, read, permit, execute, answer | the policy is what it says; one answer per line |
| Inventory cache, contract jobs, enrichment cache, tunnel sessions, ARC verifier, intent signals, contracts, linkage, telemetry, secrets, the rest of CLI and client | files, caches, views | | see "Not modelled" |

The runner calls the import's listener and the streams' listeners inside its own
callbacks. Imports and approvals share the activity log file. The client only
sees answers and published events. A pipeline run, itself a child process of the
runner when started from the UI, aggregates, publishes and ends with the
automation deliveries. The orchestrator asks the search service; the MCP server
runs both, and commands.

### What is hard here

* Node runs one callback at a time, but every `await` lets others in. The import
  handler spawns its command and then awaits a file append before it attaches
  its listener; the whole job can pass in between.
* Files are read, changed and written back without a lock, and `writeFile`
  truncates first: overlap loses updates or tears the file, a kill leaves it
  empty, and a file that does not parse is never repaired.
* One request writes several files; any of the writes may fail after the others
  took effect. A refine writes up to six, tells a lineage backend, an audit file
  and its caller, and may be retried on top of what a failed attempt left.
* A child's exit, its last output and the failure of its spawn arrive in
  separate callbacks; the browser's connection breaks where it likes, and an event
  named `error` looks to it like a broken connection.
* Backfills run in processes of their own but share restore directories, outputs
  and slots; a failure of the slot and a failure of the replay inside it reach the
  same fallback, which repeats the replay without a slot.
* A request to a webhook may time out after it arrived; it is retried, counted
  by the breaker, and possibly replayed later.
* Two rate limiters of the same design count differently: one restores its burst
  after a wait, the other only after a pause; one counts from the end of some
  calls and the start of others.
* Roles inherit from each other, possibly in circles, and plugins change both
  roles and tools.

`PROJECT.json` lists each of these at its line, under `hazards`, with the
properties that cover it.

## The modules

| Module | Models |
|---|---|
| `JobLifecycle` | abstract: a job is registered, publishes while it runs, ends once |
| `JobRunner` | `job-runner.js`: one job and its child process |
| `JsonFile` | `readJson`/`writeJson`: the states of one file (operators) |
| `ImportJob` | `POST /api/import`, on top of `JobRunner` and `JsonFile` |
| `JobStream` | event streams, import panel and log view, on top of `JobRunner` |
| `HilLedger` | abstract: a decision and its audit entry in one step |
| `HilStore` | `POST /api/hil/approvals` over three `JsonFile`s |
| `AutomationDelivery` | `AutomationHTTPClient`, the hooks, the dead letter file |
| `Backfill` | `backfill_pipeline_flow`, its concurrency slots, the `backfill` command |
| `RefineRun` | one refine from its entry point to its answer, with lineage and audit |
| `Aggregation` | grouping and aggregation of records |
| `Research` | runs of the orchestrator with the search service |
| `RolePolicy` | `access.py`, with a reference definition (operators) |
| `McpServer` | start-up, plugins and the request loop, on top of `RolePolicy` |
| `MCBackfill`, `MCResearch`, `MCMcpServer`, `MCAggregation` | values for the small instances |
| `Jobs_proofs` | theorems about `JobRunner`, `ImportJob` and `JobStream` |
| `HilStore_proofs`, `AutomationDelivery_proofs`, `Backfill_proofs`, `RefineRun_proofs`, `Research_proofs`, `McpServer_proofs`, `Aggregation_proofs` | theorems about the module each is named after; `McpServer_proofs` also those about `RolePolicy` |

Mutants are definitions commented "Not the code:". They stand before the
definition they are compared with and are used by no specification; each shows
that some property notices that mistake.

### JobRunner

One table entry (`job`), the child as Node sees it (`child`, `exit`), its pipe
(`written`, `read`) and everything published for the job (`emitted`). Every
callback is one action, since Node does not interrupt callbacks: `OnData`,
`OnError`, `OnClose`; `createCommandJob` is `Spawn` or, when `spawn` throws after
the entry was stored, `SpawnThrows`. The child writes and exits by itself
(`ChildWrites`, `ChildExits`). Node's promise that `close` comes after the pipes
are drained is `Closable`. Log entries are chunk numbers; text, times and
the split in stdout and stderr are left out.

### ImportJob

Each synchronous stretch of the handler is one action: `CreateTempDir`, then the
upload (`Reception`): it is read to its end (`Accept`), Busboy's constructor throws
outside any `try` (`ParserThrows`), the client breaks off and the handler waits for
ever (`BreakOff`), or a file too long is rejected before anybody listens to its
promise, which ends the process (`RejectUnheard`). After `Accept` come `Reject`, whose
removal of the directory may fail and leave the answer to Express, or `StoreFiles`,
`Dispatch` (spawn, merge the metadata, list an attached profile among the artifacts,
begin the `queued` append), `Announce` (publish the files and the profile, begin the
`upload-complete` append without awaiting it, attach the listener, answer 202), and
for the catch clause `QueuedFails`, `CleanUp`, whose removals may fail unnoticed, and
`Apologise`. `Heard` is the listener; it is conjoined to
the runner's callbacks because listeners run inside them. Its asynchronous
continuation after `finished` is `ListArtifacts` and `Detach`. The four or five
appends of one import, and one of some other request, are interleaved
read-open-write sequences on one activity file. A failed spawn raises `error` on
the next tick, before any input or output completes (`NodeRuns`, which also says that the
process lives). Stage events are kept in `stage`. Form fields and the individual
uploads are left out: they decide between the same outcomes.

### JobStream

A stream is a cursor into `emitted`: the handler writes a snapshot and
subscribes without an await between, so `OpenStream` sets the cursor behind what
has been published. `OnSnapshot` and `OnStreamEvent` are the panel's listeners in
the order the network delivers; `React` is what an event does to the connection
(`finished` closes it; a server event named `error` also fires the browser's own
`onerror`), `ConnectionBreaks` loses what was in flight, `Reconnect` is the
two-second timer. `OpenLogView` to `LogViewBreaks` are the run's log view, which
does not reconnect. The import route is reduced to what decides when the panel is
given its job (`RouteStartsJob`, `RouteResponds`) and when artifacts are
published; its files are in `ImportJob`. Heartbeats and the activity stream are
left out.

### HilStore

Every POST that passes validation is a request with a run and a decision. It
goes through the approvals, the audit log and the activity log in turn, each
time `Read` (and compute the new content), `Open` (which truncates), `Write`.
`Abandon` is the catch clause. `Crash` kills the process: open requests are lost,
files stay. When a writer finds another writer's text, the file may end up whole
or garbled, because which text is longer is not modelled. The activity events of
imports are not in this module; `ImportJob` covers them.

`HilLedger` is the promise: the decision in force and the trail change in one
step. Under the refinement mapping a decision takes effect when the approvals
have been written; until the audit log is written too, the entry that is on its
way counts as part of the trail. The ledger is what requests one at a time give.
What remains of it when they overlap, fail or die is `AuditIsTruthful`: entries may
be missing, but each of those that can be read is of a decision that was stored,
stands there once, and names as replaced what another request had decided, or
nothing.

### AutomationDelivery

The deliveries of a run in order; webhooks and CRM push are treated alike by the
code. `Begin` or `Skip` is the circuit check of `post_json`; `Succeed`, `Retry`,
`Fail` and `FailUnreported` are what a request comes to. Time moves by bounded
amounts with each request and pause and by the computed backoff with each retry.
`received` is what the endpoints know: a request that failed for the client may
be in it. `quietUntil` is a history variable: no action's guard reads it.
Headers, payloads and telemetry are left out.

### RefineRun

One request through one of four entry points (`hotpass run`, `hotpass
orchestrate`, an agent's brokered request, the Prefect task), line by line of
`pipeline/base.py` between the lineage events: `Start`, `Ingest`, `Aggregate`,
`Validate` or `ValidateOnly`, `Publish`, `PersistNotices`, the features
(`Apply`, `SkipFeature`, `EnforceConsent`, `ComplianceBreaks`), then `WriteReport`,
`Deliver`, `Archive`, `Complete`, or `Leave` for an exception on its way out. A
data frame, or a file written from one, is the set of stages its records have
been through, with the attempt that wrote it; records themselves are left out.
Every stage may fail (`StageFails`), publication may fail after some of its
files (`PublishFails`); `Fails` does what the exception handlers do: emit FAIL,
retry the task, record the audit, answer. A lineage backend may miss events.
`Requests` and `Possible` are the combinations the four entry points accept. Whether
Presidio is off, works, or fails on some texts is part of the environment a request
runs in (`presidio`); `Redacted` is what redaction makes of a frame in each case.

### Aggregation

Records are grouped by slug (`Group`); a group is the set of positions of its
records, its rows are a function from these positions. `Better` is `_sort_key`,
which ranks the rows. What the rows say in a column are its offers, each a value
with its row and its place there (`Offers`); `Selections` are what `_iter_values`
yields of them, the first offer of each value, and `Best` the first of these.
`OfContact` finds the name and role of the row that decided the address.
`AggregatedRow` is the row made from them and `ConflictsOf`, one set per group,
what the others said, as `_record_provenance` computes it. Instead of sorting
lists, order is a relation on offers and a result is named by the place it has in
that order; the values are the same. A text joined from several values is the set of
them. The organisation's name follows another rule, the first that is not empty in
input order (`OrganizationName`), and gets neither provenance nor conflict. A column
is the sequence of its clean values out of `Texts`; `Quality` counts those, where the
code counts raw values that are not empty, which is the same after the loaders have
cleaned them. The columns that behave like another one and the assembly of the output
frame are left out.

### Research

One process makes one run after the other. A run takes the steps of `_execute`
in order: snapshots and the deterministic pass (`LocalSteps`), the search with
its terms (`CacheHit`, `Answered`, `SearchFails`, `EndSearch`), enrichment over
the network (`Enrich`), the crawl by scrapy or, address by address, by requests
(`ScrapyCrawl`, `Fetch`), the plan of what to backfill (`End`); each has a `Skip`
action with the code's condition. `Throttled` and `SearchThrottled` are the two
limiters, translated each from its own code. What the orchestrator's limiter gives is
a turn (`CallsOut`), on which one request goes out, or the attempts at one address
(`Fetch`, at most `Attempts`), or Scrapy's requests for all addresses; `grants` has
the times of the turns and `calls` the number of requests on each. Time is counted in
ticks; a request lasts any of `Delays`. The HTTP retries of the search service's
client happen inside one request and are part of its duration. A snapshot that cannot
be read ends the run with an exception (`LocalStepsRaise`). Addresses are equal when `_normalise_url` makes them
so (`Key`). `grants`, `calls`, `sgrants` and `reached` are history variables.

### RolePolicy and McpServer

`Walk` goes through the parents depth first with one set of visited roles, as
`_collect_permissions` does: a recursive function of a role, how many of its
parents to go through and the roles seen, whose value is the roles seen
afterwards. `Collected` is what it finds from a role; `MayCall` says by least
closure what a role may call. The server lets plugins register tools and roles,
then takes a line, resolves the role (`Role`), lists, refuses, executes or answers
an error. What a tool does is its set of outcomes per kind of handler; a result
that cannot be encoded ends the server (`CannotWrite`), and so does a line of JSON
that is not an object (`ReadValue`). A plugin that registers the name of a built-in
tool replaces its handler too (`server.py:168`); the model keeps the kind of handler
that goes with a name (`KindOf`), because every property speaks of who may call what
and of the answers, which are the same for every kind.

### Backfill

Several flows, each with its plan of runs (a run is a date and a version), in
processes of their own. `Clear` and `Extract` are `rehydrate_archive_task`,
member by member, since other processes see what is there in between;
`RehydrateFails` is a missing archive or a file error, with the task's retries
when Prefect's runtime is on. `Extracted` is the choice `_execute_with_concurrency`
makes. `Acquire`, `AcquireFails` and `Release` are the `async with`; Prefect's
slots are a count per key, and slots nobody gave back are `stuck` until
`LeaseExpires`. A replay is `Start` (it loads its files) and `Complete` or
`Raise`. `FallBack` is the way of an exception through the two `except` clauses:
from the slot to the inner call, from there to the outer one, from there out of
the flow. `Kill` ends a process. What the pipeline computes is one verdict
(`summary.success`), chosen anew at each replay; record counts and times are
left out. Nothing in the code keeps flows that share a run from each other, and
nothing in the model does. `shared` is a history variable: the flows in whose
restore directory another flow has been at work since they cleared it (`Sharers`).
Two versions whose sanitised names are equal share a directory too
(`orchestration.py:624`); a plan with such versions is one that names a run twice.

## The runs

| Run | Bounds | Shows |
|---|---|---|
| `job_runner` | 4 chunks of output, log limit 2, 2 metadata keys, 1 topic | the log wraps twice over, exit and output in every order, failed and throwing spawns, callers at any time; refinement of `JobLifecycle` |
| `import_job` | 1 chunk, activity limit 2, one foreign append, failing writes and removals, uploads that break off, profiles attached or not | all handler paths; the job may end before, during and after the 202 |
| `job_stream` | 2 chunks, log limit 1, 2 connections that break | what the pages show, and that the panel learns the end, over every break and reconnection |
| `hil_concurrent` | 3 requests, 2 at once, 1 run, 2 decisions, audit limit 2, 1 kill, failing writes | the audit log is truthful; files that break stay broken; everyone is answered |
| `hil_sequential` | 3 requests one at a time, 2 runs, 2 decisions, audit limit 2 | refinement of `HilLedger` |
| `automation` | 5 deliveries, 3 attempts, threshold 2, recovery 2, backoff capped at 1 | the circuit opens, is skipped, expires, opens again; lost and late requests; failing dead letter file |
| `backfill` | 2 flows of two runs, one of them common to both and one without an archive, 3 slots of which a replay takes 2, 1 retry, 1 kill, every fault, any overlap | replays of their archives only, true reports, flows that end |
| `refine` | 2 retries, 3 features, every entry point and option, Presidio off, failing and working, every stage failing | answer, files, lineage and audit agree |
| `aggregation` | up to 4 records out of 7 that differ in priority, quality, date or nothing | every tie; what is lost and what is not; conflicts of kept and of joined values |
| `research` | 2 runs, interval 2, burst 2, time to live 3, 2 terms, 3 addresses two of which are equal, 2 attempts each, requests of 1 tick | rates over steps and runs, cache at its age limit, offline plans, one result per step |
| `research_gate` | same | violation: see below |
| `mcp` | 3 roles, 3 tools, 3 policies (a chain with a default, circles with a denial, undeclared roles), 2 registrations by plugins, 2 lines | the walk is its reference; one answer per line |

Why the bounds suffice. One job at a time: jobs share only the table, keyed by
unique ids. Log limit 2 with 4 chunks passes the limit twice. Two broken
connections are one for the panel's first stream and one for its reconnection.
Three requests with two at once are two that interfere and one that meets what
they left. Two decisions are enough to tell a decision from the one it replaced;
overlapping requests interfere most on one run.
Five deliveries are two to open the circuit, one skipped, one let through, and
one to see what that led to. Two backfills compete for slots that are
enough for one, and may restore the run they have in common at once or one after the
other; archives of two members can be half restored.
Two retries distinguish the last attempt from the one before and from the first.
Two research runs fill the cache and meet it; bursts of two are spent within one
run. The pure parts (aggregation, policy) are compared with their reference on
inputs chosen to tie and to be circular. Deadlock is not checked anywhere because
every system here may have nothing more to do; that what should happen does
happen is stated by liveness properties.

A property that is proved is still run where TLC can find a mistake in it
cheaply; type invariants that are proved are mostly not repeated in a run.

### Where code and documents disagree

`research_gate`: `docs/explanations/ai/agent-system.md:59` has the crawl require
two environment variables; `_run_native_crawl` (`research/orchestrator.py:806`)
asks for them only on behalf of scrapy and otherwise fetches every address with
requests.

Others were seen while modelling; the models have what the code does.

* Web UI. The stage "Refining" is offered (`DatasetImportPanel.tsx:94`) but never
  announced, because `createCommandJob` publishes `started` before the route
  listens (`index.mjs:2003`). An activity append that fails after the spawn leads
  to the catch clause, which removes the workspace of the running command
  (`index.mjs:2079`). Audit entries are lost by overlap or a failing write,
  against `helpContent.ts:120`. Three ways out of an upload leave the temporary directory, and
  two of them the client without an answer: headers that announce no form make Busboy
  throw outside the `try` (`index.mjs:1658`), an upload that breaks off is waited for
  for ever (`index.mjs:1720`), and a file above the limit rejects a promise nobody has
  listened to yet (`index.mjs:1685`), which ends the process. A job whose 'queued'
  event could not be stored keeps links to the artifacts that the catch clause removed
  (`index.mjs:1947`). The panel closes its stream at `finished`
  (`DatasetImportPanel.tsx:519`) and learns of artifacts published after that only
  if it connects late. A log stream opened after the end is never told so
  (`index.mjs:2176`). After a restart of the server the panel retries a job that
  answers 404 (`DatasetImportPanel.tsx:528`).
* Automation. The circuit is documented as half-opening (`docs/reference/cli.md:482`);
  the first delivery after a recovery closes it fully (`http.py:311`). Deliveries
  skipped by the breaker are reported like failed ones but not dead-lettered
  (`hooks.py:69`, against `cli.md:705`).
* Backfill. "Only the allowed number of runs executed in parallel"
  (`prefect-backfill-guardrails.md:68`): a replay that raised is repeated outside
  the slots (`orchestration.py:714`). An archive is restored before the slot is
  taken, so the slot does not protect it (`orchestration.py:846`). The command
  exits with zero when a replay failed its validation (`backfill.py:143`, against
  `run-a-backfill.md:60`).
* Refining. Errors of the compliance checks other than a missing consent are
  logged and the run succeeds unchecked (`features/compliance.py:75`, against
  `configure-pipeline.md:564`). Features run after the workbook is written
  (`pipeline/orchestrator.py:86`), so their columns (`data-model.md:39`) are not in
  it. Duplicates and rejected rows are written before the second redaction
  (`pipeline/helpers.py:79`, against `presidio-redaction.md:49`). `run` exits with
  zero though expectations failed, where `orchestrate` exits with one.
  "Hotpass now redacts sensitive content at ingest time" (`presidio-redaction.md:7`):
  it does so only where the environment enables Presidio, which is off by default
  (`compliance.py:93`); engines that cannot be made, as that page says at 39, and
  texts they fail on (`compliance.py:215`), which it does not say, leave the run to go
  on without. An answer of success does not tell which it was.
* Research. The limiter spaces turns, not the "remote calls" of `profiles.md:79`:
  attempts after the first of a fetch do not wait for it
  (`research/orchestrator.py:1053`), and Scrapy's requests for all addresses go out on
  one turn (`:830`).
* Aggregation. "When multiple sources provide the same field, Hotpass keeps the value
  from the highest-priority source" (`source-mapping.md:12`), and the primary contact's
  name is "selected using source priority" (`data-model.md:25`): the organisation's
  name is the first in input order, whatever its source, and its other spellings
  leave no trace (`pipeline/aggregation.py:186`); name and role of the primary contact
  are those of the row that decided the e-mail, also when a source of higher priority
  has others, and its phone may come from yet another row (`:397`, `:421`). The
  conflict of a joined column sets aside values that the joined text contains (`:297`).
* MCP. The policy is documented under `HOTPASS_MCP_ROLE_POLICY`
  (`agent-system.md:39`) and read from `HOTPASS_MCP_POLICY_FILE` (`server.py:798`). A
  plugin's tool restricted to roles nobody declares is registered without the
  restriction (`server.py:168`, against `agent-system.md:58`).

### Fairness

Node runs a callback that is due (`WF` on callbacks, handler and continuation),
a file operation ends or fails (`WF` per append or request). An upload is not assumed
to arrive: there is no fairness on `Reception`. That a command ends
is an assumption about the command: a job whose command hangs stays running, as
in the code. The browser delivers what arrives and its timer fires (`WF` on
`PanelStep` and `ViewStep`); a connection is not assumed to break or to last. A
process of a backfill goes on unless it is killed, and Prefect grants free slots
and lets leases run out; a waiting flow may not count on the service failing. The
MCP server goes on with the line it has (`WF` on `Handle`), its commands end. No
client is assumed to ask for anything, no disk to work.

## The proofs

Every safety invariant and every action property of the passing runs is stated by
a theorem, for every value of the constants that satisfies the named assumptions.
Those that follow from assumptions beyond types are said below to do so.

### Jobs

`Jobs_proofs`, for the runner from `MaxLog \in Nat` and `MaxChunks \in Nat` only. The
inductive invariant `IInv` is `TypeOK`, the two properties, and

* `ControlInv`, which ties the status to the state of the child (a running job
  has a child that is alive, exited or unspawned; a terminal one has a child that
  errored or closed);
* `QuietBeforeEnd`: before the status is terminal no end was announced.

Without these `NothingAfterTheEnd` is not inductive: `OnData` could follow an
announced end. From `IInv` follow `TypeCorrect`, `LogIsAlwaysRecent`,
`EndIsTheEnd`; `VerdictNeverRevised` and `RunnerImplementsLifecycle` are step
arguments under `IInv` (every action maps to an abstract action or a stutter).

The import, from the limits and `NamesAssumption` (the keys
and topics the route uses are among those of the instance). Type correctness,
with the activity file's limit, needs that every overlapping append holds a copy
within the limit (`AppendInv`). `FlowInv` ties temporary directory, workspace,
answer and listener to the place the handler is at; `QueuedInv` says that the catch
clause never runs after the 'queued' event was stored, and `ArtifactInv` that nothing
else publishes artifacts before that. From them follow `TempDirIsReclaimed`,
`WorkspaceIsKept`, `ArtifactsAreBacked`, for any overlap of appends and any failing
write or removal.

The streams, from `RouteAssumption` (the route's topics and key are among the
constants) and `KeepsSomeLog` (a log bound above zero; with none the log view could
not be complete). `Growth` says what any step may add to the events; `EventLog`
that they tell each chunk read, once and in order. Then each page's invariant
relates its cursor to what it shows: `ConnInv` says that the rest of an open stream
repeats nothing of the panel's log and names no stage, `CursorInv` that the log
view's cursor splits the output at its last line, whence `NextChunk` and, with the
runner's `NothingAfterTheEnd`, `EndSeesAll`.

Composition. A step of the import or of the streams need not be one of the runner's:
the routes start a job and merge its metadata in one stretch (`Started`), and merge
and publish after its end (`Added`). `HostedStepKeeps` shows that a step of the
runner, a start or an addition keeps `IInv`, revises no verdict and is a step of
`JobLifecycle` or a stutter. `ImportHosts` and `StreamHosts` show that every step of
the two systems is one of these three; the import needs for it that no job exists
before its dispatch (`FreshInv`). Hence both composed systems keep the runner's
promises and implement the abstract life cycle (`LogIsRecentInAnImport`,
`VerdictFinalInAnImport`, `ImportsImplementLifecycle` and their counterparts behind
the streams).

### Approvals

`HilStore_proofs`, from limits and `RequestsAssumption` (finitely many requests).
`HilTypeInv` covers the disk and the copies requests hold. `NobodyRepairs` is a step
argument: a request that reads a broken file is abandoned, so none writes it.
`AuditTellsTheTruth` holds for any overlap, failure and kill. Its invariant `ToldInv`
follows a decision on its way: each decision in the approvals file is of a request
that stored it (`ApprovalsTold`), so is what an open request is about to write there
(`CopiesTold`) and what it found before (`PreviousTold`), so that its entry is true,
and the audit log, on disk or in a copy, holds true entries, one per request, of
requests that are past it (`AuditTold`). `RestingIsLedger` is about what comes after:
from any moment at which no request is open and the files parse, whatever happened
before, steps of one request at a time without failures (`Undisturbed`) are steps of
`HilLedger`. `SequentialInv`, which holds at such a moment (`Resting`), says that all
files but the one being written can be read, and that what the open request has
drafted is what the ledger adds. It cannot be had for requests that overlap or fail;
the disagreement about audit entries above is what happens then.

### Deliveries

`AutomationDelivery_proofs`, from `PolicyAssumption` (natural numbers, at least
one attempt, threshold at least one: what `__post_init__` enforces). `IInv` adds
to the properties

* `RecoveryInv`: the latest recovery window ends with the open circuit, or is
  over;
* `OrderInv`: nothing is known of a delivery before its turn;
* `CurrentKeyInv`: the delivery under way, and no other, uses the current key.

From it follow type correctness, the breaker at its threshold, the quiet
recovery, the identification of deliveries by keys and the safety of replays,
for any number of deliveries and any policy.

### Backfill, refining

`Backfill_proofs`, from `BackfillAssumption` (plans are non-empty sequences of
runs, bounds are numbers), for flows that overlap as they like. `ReportMatchesOutput`
needs only that a flow has counted the runs before the one it is at (`AtPlan`).
`InputsWhole` needs that a directory somebody has cleared holds members of its archive
only, and that while a flow extracts into a directory that nobody else has touched it
holds what the flow has extracted, and until its replay is over, all members. It says
no more of a directory that is shared, because no more is true: one flow clears what
the other is about to replay.

`RefineRun_proofs`, for any number of retries and any set of features. `WholeInv`
says at each line which stages the frame has been through, redaction among them
only if it was asked for and Presidio works, and which files the attempt has written; `LineageInv` and `CompleteInv`, what the backend may have
heard; `AuditInv`, what was recorded; `AnswerInv`, that an answer ends the
request. Together they are inductive and give `SuccessIsWhole`, `LineageIsTrue` and
`AuditIsTrue`.

### Research

`Research_proofs`, from `ResearchAssumption`. Both spacing theorems rest on one
argument about sequences of times: `Batch` says that the turns since the last
pause are no more than the tokens spent, `Counted` adds that the limiter counts
from no earlier than the last call; a call after a pause and a call that spends
a token preserve it (`CountedAfterPause`, `CountedByToken`). `CallsInv` and
`SearchInv` say that each limiter has counted its calls; that the two restore
their tokens differently shows in the cases of `CallIsCounted` and
`RequestIsCounted`. `KeptInv` says of every answer that was kept that the cache
still has it, or a later one, or that it is too old; `KeptAnswersAreUsed` follows.
`OfflineInv` adds to the property that addresses are not fetched without the
network.

`OutcomesAreWhole` rests on `OutcomeInv`: the results so far are a prefix of the
plan's steps and end where the run is (`InOrder`, with `StepNamesOf`), the row is
that of the last pass that made one (`RowIsOfItsPass`), and until the search ends
the addresses are the plan's own (`AddressesBeforeSearch`), without which the crawl
could take a failed search for one that had found something.

### Policy and server

`McpServer_proofs`, from `NamesAreFinite` (a policy file and the plugins name finitely
many roles) and `McpAssumption` (the constants have their types). That the walk is
its reference, for any inheritance with or without circles, takes three steps.

* The walk exists. A recursive function on an infinite domain has a value only if
  something satisfies its equation. `Visits` is the least set of tuples closed under
  the walk's two calls; induction over roles not yet seen and parents left to visit
  shows that it has exactly one result per argument (`WalkInduction`, `WalkExists`),
  so that `Walk` satisfies its equation (`WalkDefined`). The order is well-founded
  because every call either sees one more of finitely many names or has one parent
  less to go; the induction is stated with sets (a non-empty set of arguments has a
  minimal one), since the library's induction takes an operator as a parameter.
* The walk stays inside: every role found is an ancestor, or a parent nobody declares
  (`VisitsStayInside`).
* The walk is whole: when it returns, the declared parents of every role it found
  have been found, except those it was called with, whose turn comes later in the
  caller (`VisitsAreWhole`). At the outermost call nothing is left, so what it found
  is closed and contains the least such set (`CollectedAreAncestors`).

`PolicyMatchesReference` follows at every moment, whatever the plugins have changed.
`EveryLineHasItsAnswer` adds `AnswersInv`: the answers are those to the lines before
the present one, in order.

### Aggregation

`Aggregation_proofs`, from `AggregationAssumption`, for any number of records and
any sizes of groups. `AggregationInv` says that groups are sets of positions of which
none is empty, that rows and conflicts have their types, and that the row of each
group is `AggregatedRow` of its rows (`RowsAreYielded`). The properties are then facts
about the operators: `BetterOrders` shows that the rank is a strict total order (ties
are broken by position), `BeforeOrders` the same of offers, `HasBest` that a non-empty
set of offers has a first one, because a finite set of rows has a best row and a row
a least place; `BestIsBest` that `Best` is that one. From these `BestDecides`, which gives
`TheBestRowDecides`, and `SelectionsOfValues` with `ConflictsNameTheOthers`, which give
`NothingElseIsLost` and `ConflictsAgree`.

### Only model-checked

Liveness, which is out of reach of the provers here: `EverySpawnedJobConcludes`,
`ListenerReleased`, `EveryRequestAnswered`, `EveryPostAnswered`,
`EveryInvocationEnds`, `PanelLearnsTheEnd`, `LinesAreAnswered`. And what is violated:
`GateHolds`.

## Not modelled

* Inventory cache of the UI server: modification times are taken before the files
  are read and overlapping loads overwrite each other (`index.mjs:485`); a stale
  view until the next expiry, of a read-only page.
* Template contract jobs and import templates: the subscriber of an import without
  the await, and one more file read, changed and written back like those of
  `HilStore`.
* The activity stream: an event published between its snapshot and its listener is
  in neither (`index.mjs:2332`); the same cursor as in `JobStream`, with the gap its
  mutant shows.
* Enrichment cache: expiry compares timestamps in two text formats
  (`enrichment/__init__.py:267`); the fault is in SQLite's text comparison, not in
  an order of events.
* Tunnel sessions: CLI processes rewrite one file from copies
  (`cli/commands/net.py:365`), the race of `HilStore` without its second file.
* ARC runner verifier, intent signals, secrets: polling or fetching in straight
  lines.
* Contracts, quality and validation rules, entity resolution and linkage: pure
  functions of data frames; `RefineRun` has their verdicts.
* Telemetry (state of an SDK), argument parsing, rendering, the remaining pages of
  the client.
