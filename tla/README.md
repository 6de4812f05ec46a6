# Klints backend: a TLA+ model of its core

Klints scores the data consistency (DCS) of a company's shop and marketing
platform, explains the failed checks, writes fixes back to the platforms under
human approval, and turns a good score into activated marketing workflows. The
backend is a Django application served by gunicorn workers, with Celery workers
and a beat process over Redis, and PostgreSQL.

Two things are hard to get right here, and hard to test. Several processes change
the same rows, with few locks and at-least-once delivery. And long chains of
judgements, each made from what an earlier one stored (import, checks, score,
gates, package, handoff; or check, evidence, fix, next check), have to stay
consistent while their inputs move. This project models both.

## 1. The system

| part | state | operations | hard behaviour |
|---|---|---|---|
| imports (`dataruns/connectors`, `dcs/fresh_import.py`) | `Contact`, `Order`, `ConnectorSnapshot` rows, the Shopify token | fetch, map, upsert, sync, pin, refresh | scores and bootstraps over the same rows, surfaces that fail softly, tokens that rotate |
| connector bootstrap (`connectors/base.py`, `tasks.py`) | `DataRun` rows, snapshots | enqueue, supersede, claim, import | superseded while it runs, stale saves |
| DCS run lifecycle (`dcs/enqueue.py`, `orchestrate.py`, `tasks.py`) | `DataRun` rows, `RunScore` rows, Celery messages | enqueue, reap, score, fail, daily dispatch | no lock anywhere, at-least-once delivery, time limits, stale copies saved |
| checks and gates (`dcs/executors`, `pilot_gates`, the joins) | none; stored with a run | evaluate | unknown inputs, caps, absent lists |
| scoring (`dcs/assemble.py`, `gates.py`, `run_diff.py`, `status.py`) | score, diff | assemble, compare, show | unknown checks, rounding, runs scored again |
| write-back pipeline (`dataruns/writebacks`) | `WritebackJob` rows, the connected platform | preview, execute, rollback | two executes of one check, a worker killed between an upstream write and the save |
| fixes (`writebacks/transform.py`) | the platforms | collect, build intents, write | evidence older than what is written, fixes beside fixes |
| approvals (`writebacks/approvals`) | `WritebackApprovalToken` rows | request, approve, reject, expire, validate, consume, revoke | validated before a lock and used under it |
| architecture assessment (`dataruns/architecture`) | `ArchitectureAssessment` rows, assets, verdicts | enqueue or coalesce, judge, show | a dead worker blocks, the source changes under the job, incomplete inventories |
| pilots (`dataruns/use_cases`, `dcs/pilot_gates`) | evaluations, packages, QA results, handoffs | recommend, build, test, stage, approve, activate | each keeps what it was made from, requests race |
| suggestions and reports (`dataruns/ai`, `dataruns/reports`) | `AiSuggestion`, `AssessmentReport` rows | look up, ask, save, compose, attach | reuse over runs, findings that change meanwhile |
| audit log (`dataruns/audit.py`) | `AuditLog` rows chained by hash | append, verify | concurrent appends, inside other transactions |
| orchestration tasks (`dataruns/orchestration`) | `OrchestrationTask` rows | create once per key, transition | two operators, retries |
| accounts and teams (`tenants`) | `User`, `Invite`, token rows | sign up, invite, change roles, reset | authority that ends while it is used, the last admin |
| search, seeding, PDF, mail, plan ranking | none, or rows nobody races for | queries, rendering, I/O | section 7 |

How they interact. A request (or beat) enqueues a score run. Its worker imports
from the platforms, pins the snapshots, judges gates and checks on them, scores,
then writes the diff, mails, the audit log and enqueues an architecture
assessment. The *latest terminal* score run is what a write-back preview or
execute is bound to: its evidence becomes intents, it keys the once-per-run gate,
and what is written changes what the next run judges. Score, supplemental gates
and assessment decide whether a pilot may be built; a package, its test result and
its handoff keep what they were built from. Suggestions and reports are written
about the findings of a run. Nearly every state change ends with an entry of the
audit log, and every request acts with the role its maker had when it was
authenticated.

`PROJECT.json` lists every component with its status, and every hazard at its
line with the properties that would catch it.

## 2. Modules

| module | models | state | actions |
|---|---|---|---|
| `WritebackApprovals` | `approvals/service.py`, the preview row | `previews`, `tokens` | one operator per function of the service |
| `Writeback` | `pipeline.py`, `run_gate.py`, `rollback.py`, the execute and rollback views | + `run`, `jobs`, `live`, `worker` | one action per transaction or upstream call of a request |
| `OncePerRunGate` | the abstract promise of the gate | `gate`, `writers` | claim, settle, die, roll back |
| `DcsRuns` | `enqueue.py`, `tasks.run_dcs_score`, the state changes of `orchestrate.py` | `rows`, `scores`, `broker`, `caller`, `worker`, `lost` | one action per read or save |
| `CheckRules` | statuses, severities, caps, masks that all checks share | | |
| `IdentityChecks`, `ConsentChecks`, `SegmentChecks`, `LifecycleChecks`, `ProductChecks` | CI-*, CC-*, SP-*, LE-* and PT-* checks with their evidence, and the intents `transform.py` makes of it | | functions of an imported universe |
| `FixCycle` | runs, merchants and write-backs over the two platforms | `live`, `latest`, `pinned`, `previous`, `shown`, `scoring`, `request`, `held`, `written`, `count` | `Import`, `PublishScore`, `ScoreFails`, `FailsAfterCommit`, `BuildIntents`, `WriteIntents`, `AlreadyExecuted`, `Edit` |
| `PlatformClients` | the Shopify and Manago clients of an import | | functions of the answers |
| `ConnectorImports` | `import_data.py`, `fresh_import.py`, `contact_sync.py`, `shopify_token.py`, what a score reads | `shown`, `connector`, `token`, `contacts`, `orders`, `importer`, `left`, `answers` | one action per transaction or platform call |
| `FoundationGates`, `PilotGates`, `DriftChecks` | FD-01 to FD-07, the twelve supplemental gates, the checks against an earlier run | | functions of what a run knows |
| `DcsScore` | `assemble.py`, `gates.py`, `run_diff.py`, `revenue_impact.py`, `status.py` | | functions of check results and runs |
| `WorkflowQa` | `qa_normalize.py`, `qa_evaluators.py`, the recommendation of a pilot | | functions of a blueprint and its gates |
| `PilotJourney` | from the Manago configuration and the score to the activated handoff | `site`, `config`, `calls`, `runs`, `mode`, `bundles`, `evals`, `builds`, `packages`, `qas`, `posts`, `handoffs` | configuring, scoring, evaluating, handing over: one action per transaction, a read and a save apart |
| `ArchitectureAssessments` | `architecture/enqueue.py`, `runner.py` | `jobs`, `scored`, `queue`, `caller`, `worker`, `faults` | one action per read or save |
| `ArchitectureVerdicts` | `inventory.py`, `wf12.py`, `graph.py`, `verdicts.py`, `coverage.py` | | functions of an estate and check results |
| `ArchitectureEstates` | the two together, and the pages | + `estate`, `held` | the same steps, with what they store |
| `ConnectorBootstrap` | `connectors/base.py`, `import_data.py`, `tasks.bootstrap_connector_fetch`, the connect and disconnect views | `runs`, `connector`, `queue`, `caller`, `worker`, `faults` | one action per look at a row and per save |
| `AuditLog` | `audit.py`, inside the transactions that append | `log`, `clock`, `tx` | one action per statement of an append |
| `AiSuggestions` | `dataruns/ai`, the content of reports | `dcs`, `saved`, `reports`, `asks`, `requests` | look up, gate, ask, save, collect, attach |
| `ReportDesk` | a report stored inside a transaction of the audit log | + `storing` and the log | the steps of both |
| `OrchestrationTasks` | `orchestration/task_transitions.py` | `tasks`, `trail`, `request` | look up, insert, load, transition, refuse |
| `TeamAccess` | `team_views.py`, `auth_views.py`, `auth/services.py` | `members`, `invites`, `mails`, `sessions`, `visit`, `visits` | authenticate, read, write, per view |
| `Workspace` | tasks and team together | all of both | the same steps, the roles of one being those of the other |
| `...Proofs` | theorems about the module they are named after (section 5) | | |
| `MC...` | instances for TLC: value sets and symmetry | | |

### Write-back

A web worker serves one request at a time and `worker[w].pc` says how far it is.
A database transaction is one step; everything that runs outside one is split at
every read, save and upstream call, so that other requests, the clock and a kill
fall in between.

* *Execute* is `ExecuteStart` (rebuild the intents, read the latest DCS run),
  `ExecuteValidate` (`execute_allowed`, no lock), `ExecuteClaim` or
  `ExecuteBlocked` (the transaction under the company row lock: reclaim, look for
  a blocker, insert, consume), `ExecuteWrite` per intent, `ExecuteFinish` or
  `ExecuteCrashed`. A refusal inside the claim rolls its reclaims back.
* *Rollback* takes no lock: `RollbackStart` reads the job, `RollbackIntent` undoes
  one intent upstream, `RollbackFinish` saves the copy.
* `live` says whose write stands at each target on the platform. An adapter call
  may report an error although the write was applied, and may raise either way.
* `standing` (intents stored as executed) and `executed` (the count the gate
  reads) are kept apart, because a rollback changes only the first.
* `Kill` is the end of a web worker at any step; `Tick` ages tokens, claims and
  requests; `LatestRun` is the DCS side, any change of the latest terminal run.

Abstracted: the content of intents (a diff is its hash and its number of ready
intents), mail and audit, who the actor is, plan-only checks (they return before
anything happens).

### DCS runs

* *Enqueue* is `Call` (with the once-a-day test of the beat), `Reap` and `Mark`
  (the reaper reads, then saves its copy of status and metadata), `Manual` (the
  extra look of a manual retry, whose reaper reads again), `Check`, `Create`,
  `Send`. The status poll is the first reap alone.
* *The worker* is `Receive`, `Start`, `Progress` (metadata from its own copy),
  `Commit` (one transaction), `Finish` or `Fail` and `Report`. The status is saved
  without a look at what the row says by then.
* *Celery*: late acknowledgement, prefetch 1. A killed child acknowledges its
  message (`task_reject_on_worker_lost` is off); a lost worker process does not,
  and the broker hands the message out again, at once or after its visibility
  timeout.
* The metadata is reduced to whether it holds a score; ages are saturated at the
  budget they are compared with.

Abstracted: the domain `Run` row, `run_snapshot`, what a score is, which failure
occurred, the skip of companies that are not eligible.

### Audit log

A connection is a transaction that may take the company row first (the execute
claim does), then appends any number of entries. An append is `Stamp`
(`created_at`, before anything is locked), `Select` (the last entry that this
statement sees), `Insert` (once nobody else has that row locked; the row is the
one that was chosen, as PostgreSQL does at READ COMMITTED). `Commit` needs the
company row for the deferred foreign key. An entry is named by its `created_at`
and is its own hash; `alone` is history: no other append was in flight between
the first reading of the clock in its transaction and its commit.

### Orchestration tasks

`CreateLookup` and `CreateInsert` are the two halves of an idempotent create,
with the unique index between them. `TransitionLoad` is the row the view loads,
`Transition` and `Refuse` are the transaction under the row lock, which reads it
again. `trail` is the audit events of a task, appended in the transaction of its
change. Tasks of different keys meet nowhere, so a run needs one key.

### Architecture assessments

An assessment and its `DataRun` are two rows, saved one after the other except
where the worker commits; the copies that are carried from a read to a save are
in `caller` and `worker`. The result is the DCS run whose checks the verdicts
joined; assets, edges and probes stand or fall with it in one transaction.

### Connector bootstrap

*Requests* are `Connect` (a first connect, or a reconnect of the row), then for a
reconnect `List` and `Supersede` (one save per run), then `FindActive`, or
`FindNone`, `Create` and `Send`; `ManualFetch` skips the superseding and
`Disconnect` deletes the row. *The worker* is `Receive` and `Claim` (the one
conditional update), the checks, the two loads of the credentials (task and
`run_import`), `Persist` (one transaction) and the ends: succeeded, failed in the
preflight, failed in the import, any other exception. Every look at the run and
every save is a step of its own; the copy a save is made from is the one of the
last look. Credentials are numbered as they are saved; `used` and `owed` are
history.


### Checks and fixes

`FixCycle` keeps both platforms as one universe (`live`), the newest import
(`latest`), the import the last good run judged (`pinned`) and what the last
terminal run shows: results, and evidence with its caps and masks. A run that fails
before its commit shows nothing (`ScoreFails`); one that fails in what follows the
commit goes on showing its results, while `pinned` falls back to the run before
(`FailsAfterCommit`, `previous`), so that evidence and universe are of two imports.
That a run fails so late only after the next one has begun to be shown is left out.
The five check
modules are functions of a universe. A write-back builds its intents in
`BuildIntents` from `shown`, `pinned` and `latest` together, as `transform.py`
does, and applies them in `WriteIntents`, under the gate of whatever run is the
latest by then; an import, a score and the merchant (`Edit`) may come between.

Abstracted: an address is a number with a plain, an alias and a masked form (two
plain addresses may share a mask); money, months and days are small numbers; a
custom detail is a namespace, a base name and a form; the field maps of the
payloads, the diff shown on the screen, the capability lookup (`Capable`).

### Imports

`PlatformClients` is one fetch: pages, required and soft surfaces, what is kept of
a surface that breaks off, gaps, throttling. `ConnectorImports` is what imports do
to the rows: per platform `EnsureToken` (with the refresh of the Shopify token
under its row lock), `FetchPeople`, `FetchOrders`, `ReadVersion` and `Commit`; a
score goes on with `Sync`, `AssertCovered` and `Freeze` (what it judges). The platforms
change, an access token expires, an admin reconnects or disconnects between any
two steps. What a fetch may answer is judged by itself (`answers`), so that some
5,700 ways to answer do not multiply the interleavings.

### Pilots

`PilotJourney` follows one company's pilot from a score to an activated handoff.
`Configuring` is every request that saves the configuration of the Manago connector
whole from a copy it read before (`calls` holds the copies): the choice of a primary
owner (`ManagoOwnersView_put`), the key of the newer interface
(`ManagoApiV3KeyView`), and `ensure_manago_primary_owner` wherever it is called
(`EnsureOwner`): before a score is queued after a bootstrap or after a choice, when
the owners are looked at, and, in `StartRun`, when a worker takes up a run. Each
reads, is answered by Manago and saves later (`SaveConfig`), whoever saved in
between; a run is running only after its own save. The score that a bootstrap or a
choice queues is an ordinary `Begin`, a transaction of its own that may be refused.
`Scoring` begins, starts, scores, fails and diffs runs and lets the architecture be
judged; a run that failed and is delivered again starts over; what happens when a
worker is lost is the subject of `DcsRuns`. `Evaluating` stores bundles of
supplemental gates in two halves (read the newest bundle, save the merged one);
`Handing` builds a package in two halves (judge, store), tests it, stages it in
two halves (look for a handoff, insert), approves, rejects and activates. The
functions they apply are `FoundationGates`, `DriftChecks`, `PilotGates`,
`DcsScore` and `WorkflowQa`. A `site` says what a deployment requires and what
its runs find; it does not change.

Abstracted: texts, the package as a document, the tests that only look for a word
(one outcome), the business evidence of a recommendation.

### Architecture estates

`ArchitectureEstates` lets a worker that commits store what
`ArchitectureVerdicts` makes of the estate and of the run it read: assets, stages,
edges, verdicts, coverage, mode. The pages read it back
(`resolve_ui_status`, `build_coverage_payload`, the assessment a pilot or a report
is given). An asset is named by a small string; a trigger matches by name. Numeric
scores beside the mode are left out.

### Suggestions and reports

A request looks for a saved suggestion (exact key, then the soft key), passes the
gate, asks the model with retries, saves, and attaches what it has to a report.
`dcs` is the list of terminal runs: a run may be scored again while a request
works. A finding stands for what `content_hash` is computed from; *secret*
findings are those whose text still looks like a secret after scrubbing. In
`ReportDesk` a report is stored inside a transaction of the audit log, which
composes `AiSuggestions` with `AuditLog`.

### Team and workspace

`TeamAccess` has one action per view, or one per half of a view that reads before
it writes without a lock. A request keeps the role it was authenticated with; the
members change meanwhile. `Workspace` lets the same people create and move tasks,
so the roles that `OrchestrationTasks` takes as given are those of the team.

## 3. Runs

| run | question | bounds |
|---|---|---|
| `writeback_gate` | can two executes of one check on one DCS run both hold the gate, or write without holding it; is every step one of the abstract gate | 2 workers, 2 jobs, 2 tokens, 1 check, 1 intent |
| `writeback_writes` | does a job that counts as rolled back leave writes behind; can anything be written that was not approved for this check and diff | 2 workers, 2 checks (one individual tier, irreversible), 2 diffs (0 and 2 intents), 2 previews, 1 token, 1 job, batch 1 |
| `dcs_safety` | can two tasks work on one run | 1 caller, 2 workers, 2 runs, 1 lost process |
| `dcs_live` | does every run leave the active states | 1 caller, 1 worker, 2 runs |
| `fix_cycle` | does what an executed write-back repaired stay repaired, is an order told twice, do fixes undo each other, are plans sound | 27 worlds, 2 imports, 3 writes, 1 edit, samples of 2, ingest batches of 1 |
| `imports` | do orders, contacts and pins of concurrent imports fit together, does the token survive, does an import tell its gaps | 2 importers, 2 imports, 2 moves, 2 faults, 2 attempts, batches and samples of 2 |
| `bootstrap` | is a run imported once, and does a reconnect get its credentials used | 2 requests, 2 workers, 2 runs, 2 credentials, 1 fault |
| `pilots` | does a handoff stand on evidence, are gates, diffs, scores and drift what they say | eight families of deployments (below) |
| `architecture` | is a succeeded assessment whole, are its verdicts defensible, do pages tell what is stored, does every assessment settle | 1 caller, 2 workers, 2 assessments, 2 scores, 1 kill, 1 lost process; 17 inventories on calm estates, where nothing fails |
| `report_desk` | do suggestions fit the finding they are shown for, are fixes reused, do reports tell one story, where can a broken link of the audit chain point | 2 asks, 1 check, 3 findings (one secret), 2 scores, 2 requests, 1 report, 2 retries, 3 transactions, 4 entries |
| `orchestration_tasks` | is the trail of a task its history; who acts with what authority, who may join, when does the last admin go | 2 requests, 1 key, 4 events, 2 people, 4 visits, 8 teams |

One run TLC must find violated, a claim of the repository the code does not keep
(`findings` in `PROJECT.json` quotes the line):

| run | claim | what happens |
|---|---|---|
| `fix_mask` | "Never write the mask" | the evidence of CI-01 holds masked addresses; when the pinned universe no longer has the person, the contact is created with the mask as its address |

What the properties say is above each in its module. The ones that took most
thought:

* *FixesSettle*, *FixesKeepTheRest*, *ToldOnce*, *PlansAreSound* hold *when nothing
  interfered* or up to named exceptions (`PublishedQuietly`, `Spoiled`, the
  disjuncts of `ToldOnce`): each exception is a case in which TLC showed that the
  code does otherwise, and is listed under "Seen" below.
* *OrdersReachTheirBuyer*, *UniverseIsItsOwn*, *JudgedAreLive* relate rows that
  every import overwrites with the pins a score keeps; they are promised only
  while no other importer has worked, where the code promises no more.
* *HandoffStandsOnEvidence* goes back from a handoff over package, bundle and run
  to results of one context. *PassedGatesAreClean* recounts the rows behind each
  supplemental gate from their definition, not from the evaluators.
* *DiffTellsTruth* recomputes the diff a run keeps from the two runs it was made
  of; *ScoreIsEarned* recomputes coverage, shares and rounding of a headline.
* *SafeToRerun*: scoring an unchanged estate again reports no drift.
* *NothingUsedIsRetired*, *BetterDataNeverJudgedWorse*, *NoBlessingOverConsent*
  constrain the verdicts by what they would do to a live account, not by how they
  are computed. *PagesTellWhatIsStored* shares out assets, stages and gaps over
  the cards.
* *LastAdminGoesOnlyStale* and *AuthorityIsFresh* confine what goes wrong to
  requests whose reading has been overtaken.

Why the bounds are enough. The gate is a property of one check and one DCS run,
and any violation of it is between two jobs, so two jobs, two workers and one gate
hold the shortest interleavings; a second token lets both be approved. Two intents
with batch 1 reach partial, crashed-after-a-write and both chunk boundaries; a
diff of zero intents reaches the rest. A score run needs two workers to be
executed twice and two rows for the reaper, which looks at the newest alone, to
overlook one. A broken link is between two appends, a third connection holds the
company row against both; four entries let one transaction append two. Four events
pass an approval, a failed one and both final statuses; two people are an admin
and whoever takes or loses that role. Two assessments let a redelivered one run
beside a newer one, and two scores give them different checks. Two bootstrap runs
are an old one and the one that supersedes it; two requests are a reconnect and a
fetch that creates a run in the middle of it. A fix is judged by the run after it,
so two imports; three writes put two fixes beside the one that is judged; each
world has one defect, or two that meet on the same rows, and caps of one and two
are below the number of rows that some worlds offer. Two imports of one platform
overlap, or a score overlaps a bootstrap. Two requests are enough for one to save
what the other looks for, and two scores for the finding to change between.

The families of `pilots`: *drift* (the drift checks over estates, alone and one
after another), *gates and owner* (the foundation gates over what the platforms
may answer and how the owner is configured), *owners* (two requests of every kind
beside each other, or one beside a run, where one of two users fits the shop and the
other may have been chosen), *scores* (two runs with results that
differ, diffed and shown), *supplemental gates* (each over lists at and around its
limits), *whole flow* (a run, two evaluations and a build interleaved up to the
activation), *workflows* (eighteen graphs through every test) and *staging* (two
requests for one handoff). A deployment of one family leaves alone what the others
vary; the state machine is the same.

Clocks are the smallest on which the real limits can be told apart. Write-backs:
the gunicorn timeout of 120 s is 0 ticks and staleness, 15 min, is 1 (the theorems
hold for every pair in that order). DCS: 30 s < 90 s < 45 min, and the task limit
of 30 min below the visibility timeout of 60 min. `dcs_live` keeps one worker and
`architecture` one caller: what a second one adds is states, not a new way to get
stuck. `report_desk` starts in two families of states, one in which requests of
every kind come while no transaction is open, one in which a report is to be
stored while others append; both obey the same steps.

Deadlock is checked in the write-back and DCS runs. The other instances come to
rest when their requests, imports, entries or edits are used up.

Every property has a mutant of the code (`PROJECT.json`, `mutants`) under which
TLC finds it violated; their definitions stand next to what they change.

### Seen while modelling, without a run

These follow from the lines named and are behaviours of the models (the checked
properties hold in spite of them, or except them by name), but no run singles them
out.

Write-back and approvals:

* A validated grant is consumed without being read again under the lock, so two
  executes may run on one approval (`approvals/service.py:196`, against
  PRD_WB_07:86); the gate still lets only one of them write per check and run.
* A failed execute may have written: an adapter raises, or the worker dies, after a
  write (`pipeline.py:509`); `rollback.py:75` takes failed to mean unwritten.
* A preview that revokes a grant between its validation (`pipeline.py:408`) and
  the claim does not stop the execute, although `pipeline.py:635` says that older
  grants do not stay executable.

DCS runs, audit log, bootstrap, assessments:

* Two callers of `enqueue_dcs_score` both find no active run and both create one
  (`dcs/enqueue.py:379`); its docstring promises the second a 409.
* A score run that waited in the queue is reaped while its worker is healthy: its
  age counts from `started_at`, which the enqueue sets (`dcs/enqueue.py:133`, `:403`).
* A failure after the commit turns a scored run into a failed one
  (`orchestrate.py:706`); if its message comes back it is scored again. When a run
  older than the newest is scored that way, the shell goes by `created_at` and the
  pilots by `finished_at` (`ShellAgreesWithPilots` is about runs that finish in
  order).
* Two overlapping appends choose the same last entry, and the chain forks
  (`audit.py:239`, against PRD_AUDIT_01:239); `BreaksNeedOverlap` says that nothing
  else breaks it. A reclaim appends under the company row lock
  (`run_gate.py:125`): it can wait for the audit row of an append whose commit
  waits for the company row, and the database aborts one of the two. The model lets
  that append wait; no property is about the abort.
* A failed bootstrap is marked failed before its handler asks whether it still
  runs, so all that should follow is skipped (`tasks.py:291`, against
  PRD_CONN_01:131). Two requests both create a bootstrap (`base.py:277`). A
  superseded one can still persist its records and be marked succeeded.
* A bootstrap whose worker process is lost, whose row is deleted before the token
  is refreshed, or whose dispatch raised stays active until a reconnect supersedes
  it. Connect after a disconnect is answered with a bootstrap of the old
  credentials if one is active.
* Two enqueues of an assessment both create one (`architecture/enqueue.py:141`);
  coalescing relabels one that is judging an older score already (`:145`); when the
  dispatch fails its `DataRun` stays pending, because the save names a field that
  model does not have (`:204`). An assessment whose worker was killed stays active
  for good and swallows all later enqueues; that is why `JobsSettle` excepts kills.

Imports:

* A Shopify order whose customer is outside the window makes a stub that overwrites
  phone and link key of an existing contact with blanks (`import_data.py:327`), and
  the sync of a score tombstones everyone who did not change in the window
  (`contact_sync.py`).
* With no order in the pinned import the LE checks fall back to all order rows,
  test and cancelled ones included (`lifecycle_join.py:681`), and CI-02 always
  reads all rows; `pins.py:4` says that a score reads its pins.
* The empty snapshot of a failed import is the newest one, and counts as an empty
  universe for a platform without a pin. Versions of snapshots are not unique.
* The refresh rotates the token at Shopify before it is committed: an answer that
  is lost ends the connection. An old importer may mark a reconnected connector as
  in error (`shopify_token.py:100`).

Fixes:

* LE-01 and LE-05 on one run tell the same orders twice (PRD_WB_13:96, :116 only
  compare with what the run saw); the proof rows that CC-03 and LE-01 invent where
  execution is enabled look at no event.
* CC-03 stamps `klints_consent_evidence`, which `evaluate_cc_03` never reads
  (M3_DEMO_01_WORKING_GAPS.md:75), so it never settles its own check; its proof
  stamp then counts as evidence and turns SKIP_UNEVIDENCED of CC-01 into
  FORCE_OPT_IN (the exception in `PlansAreSound`).
* CI-01 may reuse a link key or take two people of one mask for one; an SP-07
  rename into a legacy name spoils SP-03; SP-03 and SP-07 write without comparing
  with what stands there. PT-03 publishes what Manago keeps archived, and PT-04
  cannot store a worth of zero. Each is excepted by name.
* SP-03 is to write the token `1` as `1.0` (PRD_WB_19:155, :166, the mapping's
  `ORDER_NUMBER`), but the two are equal as numbers, so that `_before_equals_after`
  (`transform.py:2302`) skips the intent as `already_at_target`; its tests have no
  snapshot to compare with. Of what the mapping makes numeric only `true` and `false`
  are written (the flags of `SegmentChecks`), and a key of tokens never settles.
* LE-02 takes up to its cap of rows at the individual tier, and the approval of such a
  job refuses more than one (`approvals/service.py:41`, against PRD_WB_14:111): two
  misvalued orders cannot be corrected (`IndividualTier` in `FixCycle`).
* A contact is looked up by its id or its address, whichever comes first
  (`snapshot.py:26`): the first of two contacts of one address gives the stamp and the
  value before of both. The stamp of one makes the opt-in of the other FORCE_OPT_IN
  when the plan is built from the universe after a failed score, so `PlansAreSound`
  asks for a proof of the address, in the universe the row is of: the pinned import,
  or the one that was judged.

Scores, gates and pilots:

* A primary owner or an API v3 key that is saved while another request is between
  its read and its save of the configuration is lost: `ensure_manago_primary_owner`
  copies the configuration, asks Manago, decides on the copy and saves all of it
  (`manago_topology_service.py:212-307`), and so do the choice of an owner
  (`connector_views.py:940-975`) and the two views of the key, without a lock and
  without reading again. The inferred owner may so replace the one an operator has
  just chosen. `ChoicesGoOnlyStale` says that nothing else does. Choosing or
  settling an owner also drops the classification of the account map (`:134`).
* With two Manago users of whom the first is the primary owner, two accounts stay
  in scope and FD-06 fails for good (`dcs/topology.py:213`, against
  `manago_topology_service.py:97`). FD-03 can only be NOT_CONNECTED.
* CI-13 is not monotone, an emptied segment fails in one run only (SP-08), ME-09
  counts a bounce rate where nothing was sent.
* Two partial evaluations at once lose rows (`store.py:219`); a default
  re-evaluation overwrites BR-09 and PT-06 with NOT_CONNECTED.
* A recommendation ignores a newer BLOCKED run and the INCOMPLETE state
  (PRD_UC_01:250). Packages and handoffs are not tested again when gates change,
  and several handoffs of one package may be activated.

Verdicts: no probe of the inventory lists segments, so the graph is never complete
and the mode always INCOMPLETE in production (PRD_REAL_01:128 knows); coverage
counts no shallow definition; of two assets with one name the last wins; where
workflows overlap a failed check can improve the mode (which is why
`BetterDataNeverJudgedWorse` is about accounts without overlap).

Suggestions and reports: `content_hash` holds neither run, prompt nor policy, so a
saved fix answers for another run or a newer prompt (against PRD_AI_01 §7.2); a
legacy row without a hash answers a changed finding, marked stale; a saved answer
is given before the gate that would deny it; a narrative asked for one run may be
attached to a report of another.

Teams: two admins who demote each other at once leave none, because the count of
active admins is not locked (PRD_TEAM_INVITES.md:138, :208); a password reset
saves the whole stale row of its user and undoes a demotion or a deactivation; a
revocation without a lock may overwrite ACCEPTED. `LastAdminGoesOnlyStale` and
`JoinsByALiveInvite` show that it takes such a race.

## 4. Fairness

`RunsSettle` (`LiveSpec` of `DcsRuns`): the clock runs; a message is delivered
while it is in the broker; a worker that is alive goes on; and the daily beat calls
each company and its two reads and save get through now and then (strong fairness,
since the process may be restarted in between). Nothing is assumed of people: not
that a client polls the status or clicks Re-run.

`JobsSettle` (`Fairness` of `ArchitectureAssessments`, in `EstateSpec`): a caller
in the middle of an enqueue and a worker in the middle of a task go on (weak
fairness; each is one process that runs until it returns or is killed), and a
queued message is delivered. Kills and losses are bounded and not fair.

## 5. Proofs

The theorems hold for every value of the constants that satisfies the named
assumptions, which TLC evaluates in each run. `PROJECT.json` lists them.

* `WritebackProofs`. `Invariance` proves `IInv`, the inductive invariant of
  `Writeback`: types, what a request has set by each `pc` (`RequestBound`), the
  gate itself, *a claim is never older than the request that made it*
  (`ClaimAge`), a job picked for rollback stays settled (`RollbackTarget`), a
  grant once validated keeps its check and diff (`GrantKept`). `ClaimAge` with
  `WorkerTimeout < StaleAfter` is the heart: a claim that looks stale has no live
  request behind it, so a reclaim never frees a gate somebody is writing under.
  From it follow `OncePerRunHolds`, `WriterHoldsClaimHolds` and
  `NoUnapprovedExecuteHolds`. `RolledBackIsUndoneHolds` rests on a second
  invariant, `UndoneInv`, over the same steps: what a settled row or a rollback
  at work no longer counts as standing is off the platform.
  `ImplementsGateHolds` is the refinement: a gate has one holder by `OncePerRun`,
  so what `GateOf` chooses is that job (`GateRead`), and each step is looked at from
  its gate; a claim may take a gate whose claimant is dead because a stale claim has
  no writer.
* `DcsRunsProofs`. `IInv` says that a task in progress holds its message
  unacknowledged, for no longer than the task has run, and is within the hard
  limit (`HoldsMessage`); that a run has one sender (`SentOnce`); that a run not
  committed is not succeeded (`NotYetScored`). With `TaskLimit < Visibility` no
  message of a task in progress can be handed out again. From it follow
  `OneWorkerPerRunHolds` and `SucceededShowsScoreHolds`.

  The second part is about `FixCycle`, what is fixed between the runs. `ToldOnceHolds` is
  for any platforms, caps and bounds. Its invariant `ToldInv` follows an
  event from the gap it was told for: what was told before an import is in the import
  (`ImportKnows`), an order that an event names by its id is no gap of a score
  (`ScoreKnowsItsImport`: this is where the join by id before the join by number counts),
  so neither the evidence (`EvidenceKnows`) nor a request built from it (`RequestKnows`)
  asks for it; and under the run that is shown the gate has every check that told
  (`GateRemembers`). A request asks for an order once (`RequestOnce`), and the platform
  numbers new events after all it has (`LastEvent`).

  `PlansAreSoundHolds` has an invariant of its own, `PlansInv`. From an import to the
  platforms as they have become, contacts go on being who they were and get no link but
  to a customer of their address (`Later`); a contact that CI-01 made has a mask and no
  opt-in, and a stamp stands on what the platforms can prove (`Sound`); evidence is that
  of the import that was judged (`EvidenceIsJudged`), which is not the pinned one when a
  run failed after its commit, and what a request under way asks for still
  fits what the platforms have become since (`RequestFits`). The keys of CI-05 are apart
  and free because a key is claimed for the contacts of one address only
  (`ClaimsOfCI05`). A merge plan has each contact once (`PlanIsApart`), because the
  survivor is a member of its group (`SurvivorIsMember`): it is chosen as a
  lexicographic maximum, which exists because counts are bounded.

  `WorldsAssumption` is about the platforms before the first run: orders, events,
  contacts and customers have positive numbers, of which there is a last; an order, a
  contact, a customer has one of its own; the counts and addresses of contacts are
  bounded; no event is of this program, and nothing is stamped or masked.
* `ConnectorBootstrapProofs`. Only the claim takes a run from pending, so its row
  tells every other task that it is taken (`Progress`, `RunsInHand`). A reconnect
  saves its credentials before it reads the active runs; whatever it then finds
  active without having superseded it was created, or has read the credentials,
  later: `OthersAreNew`, with `CredsGrow` and `LoadedIsOwed`. Most steps are
  instances of four lemmas (`TaskStep`, `LookStep`, `HandStep`, `CallerStep`).
* `ArchitectureProofs`. `IInv` says that what is carried between a read and a save
  agrees with it (`LocalsBound`), that a row has one sender (`SentOnce`) and that a
  worker holds its message (`HoldsMessage`). `EstatesAssess` is a refinement: the
  estates only observe the assessments, so what holds of these carries over. Then
  `HeldAsJudged`: what is stored was judged on the run the result names, because a
  result changes only where it is stored (`ResultStays`). So the properties of what is
  stored are properties of `Assessed`, for any estate and any checks.
  `NoBlessingOverConsent` needs a lemma on the verdict function (`ConsentForbids`).
  For the others the inventory is looked into, a fold over the rows: that it is a list
  of assets whose stages are known (`InventoryIsList`) is shown on sets with a smallest
  element (`Smallest`), which takes no operator. `NothingUsedIsRetiredHolds` goes from
  the names of a workflow over the index to the edges (`NamedIsUsed`).
  `BetterDataNeverJudgedWorseHolds`: a milder run is joined as fewer checks
  (`LessHarmIsMilder`), fewer assets are to be fixed (`FixesGrow`), and the weighted score,
  a quotient, does not fall (`WeightFalls`); without overlaps nothing collides, and what
  makes a mode incomplete is the estate alone. `PagesTellWhatIsStoredHolds` adds up the
  cards as parts of a whole (`PartsAddUp`), and says that a succeeded assessment has
  something stored (`SucceededIsHeld`). Two assumptions: `EstatesAssumption` (platforms
  and imports give lists) and `ConsentsAssumption` (the consent checks are finitely many).
* `ConnectorImportsProofs`. What an importer has done is known from its `pc`
  (`InHand`), an importer that was alone in its snapshot had all others idle
  (`AloneIsAlone`), a row once seen is never made again (`WasRow`, `RowsWere`), the
  orders of a page have their people (`PeopleAreThere`), and what an importer that
  was alone pinned is what is live once it synced, unless the connector is gone or
  the import failed (`PinsAreLive`). From it follow `OrdersReachTheirBuyerHolds`,
  `UniverseIsItsOwnHolds` and `JudgedAreLiveHolds`; `TokenStaysAliveHolds` has an
  invariant of its own (`NobodyExpires`). Most steps are instances of `KeepStep`,
  `QuietStep`, `LeaveStep`, `StartStep` and `ConnectorStep`. It assumes that a
  platform shows an order once (`ViewsAssumption`): `Order` is unique per company,
  source and `external_id`, and ids come from a list that is paginated by id.
  `ImportTellsItsGapsHolds` is about one fetch, whose answers do not change; what is to be
  shown is about sequences of any length. Pages put together have the rows of all
  (`RowsOfAll`), the batches of a list put together are the list (`PartsAreWhole`), and the
  pieces of the window cover it (`PiecesCover`): each by the least place where it would
  fail (`Least`), over the recursive function that joins sequences, which has to be shown
  to exist (`JoinExists`). Requests that are answered from the first on are all of them
  when they are as many (`AllOfThem`); the budget only grows (`ShopSteps`), a throttled
  request is never forgotten (`SurfacesHit`). It assumes the shape of the answers
  (`AnswersAssumption`): every request is answered, a headroom is not negative
  (`parse_shopify_call_limit` cuts it off at 0), ids of people are their own.
* `PilotJourneyProofs`. `IInv` relates every row to what it was made from: the score of
  a run is the score of the results the run keeps (`RunsAreScored`), a diff tells the
  scores it compares as long as neither was scored again (`DiffsTell`), a row of a
  supplemental gate is what its evaluator says of the facts kept with it
  (`RowsAreJudged`), a package stands on a context that was read (`PackagesAreFounded`),
  a QA is the answer for its package (`QasAreOfPackages`), a handoff has come one of five
  ways (`HandoffsGoTheirWay`). None of the properties is inductive without it, because
  runs are scored again and bundles merged while packages are built: `RunsGrow` says
  that what was read of a run holds as long as its score was not replaced. From it follow
  `HandoffTrailHolds` and `DiffTellsTruthHolds`; `PassedGatesAreCleanHolds`, with one lemma
  per evaluator on top of `PassIsLast` (a rule list passes by its last rule only);
  `HandoffStandsOnEvidenceHolds`, from the handoff back over QA and package to the run and
  the bundle; `ShellAgreesWithPilotsHolds`. `ScoreIsEarnedHolds` compares two runs
  dimension by dimension: what is earned of the weight that is judged rises with every
  check, and so do the rounded quotients and their weighted mean; a READY needs the
  coverage, which rounding does not lend. `ActivatedWorkflowsEndHolds` is about the graph
  of the QA: `node_reaches_terminal` and `reachable_node_ids` are recursive functions, so
  that they exist has to be shown first, as the least set that is closed under going on
  (`WalkExists`) and round by round (`RoundsExist`); so is a fold (`SumExists`). Induction
  is done on sets with a least element (`Least`, `Smallest`), which takes no operator.
  `SafeToRerunHolds` has an invariant of its own, `DriftIsMeasured`: the block a run keeps
  is what `build_drift_snapshot` says of the run's rows and of the block of the rows it was
  compared with, whatever that one was compared with before (a run that is scored again
  replaces its block, and the newest success need not be the newest run). Two equal
  estates then have equal populations, samples and ages (`NothingMoved`,
  `NothingStalled`), a funnel's population does not hang on the catalogue
  (`SegmentsStay`), and a volume that did not move adds nothing to the one that is judged
  (`VolumeByItself`). `ChoicesGoOnlyStaleHolds` is about steps: only a save
  changes the configuration (`ConfigStep`), what it changes of its copy is the key or
  an owner (`SavedKeeps`), and an owner is settled only where the copy's is not listed
  (`ListedOwnerIsKept`), for which every listed user has to be an owner, whatever is
  listed before or again (`UsersAreOwners`): the first place of a user among the first
  places has a number of its own. Its invariant, `CallsWereRead`, says that a copy has the
  fields of a configuration.
  Three assumptions: `ScoreAssumption` (a finite master table, no negative weight, a
  positive share per dimension, gates that are in the table), `RoundingAssumption` (weights
  below 4000 per dimension and shares below 2500 in all, so that rounding to four digits
  decides nothing; in `check_master_mvp1.json` no dimension weighs more than 32, and the
  shares add up to 100) and `DeploymentsAssumption` (results, facts and rows have the
  shape their classes give them; finitely many rows, tests and nodes; every listed user
  has a name; the first configuration has its fields; a run measures the rows of its one import).
* `ReportDeskProofs`. For the audit log alone: an append that was alone sees the
  whole log, so what it chose as last is still the newest when it commits;
  `AloneHasNoRival`, `AloneIsLinked` and `RestIsYounger` say so step by step, on top
  of `ReadingsBelowClock`. For the suggestions alone: `AiInv` follows a finding from
  the first lookup of a request to its save and into a report (`SlotTells`): that a
  run may be scored again in between is why the finding is compared at the save and
  not at the lookup.
  `FixesAreReused` has an invariant of its own over the soft key. The desk is shown
  to implement both parts, `DeskImplementsSuggestions` and
  `DeskImplementsAuditLog`, so the broken links of the chain still need an overlap
  (`DeskBreaksNeedOverlap`).
* `WorkspaceProofs`. The three properties of the trail of the orchestration tasks
  are inductive together with the types and with what a request under way has set
  (`RequestsComplete`). `WorkspaceImplementsTasks`: a request whose role is that of
  its maker is one of the requests `OrchestrationTasks` lets carry any role, so
  its theorems hold in the workspace. `TeamInv` (a request has the role of its
  user unless that user was changed since, what it has read is of a member, links
  belong to members) gives
  `AuthorityIsFreshHolds`, and step by step the two action properties
  `JoinsByALiveInviteHolds` and `LastAdminGoesOnlyStaleHolds`.

These results are proved but no longer run, because they are shallow in a small
instance: `WriterHoldsClaim`, `SucceededShowsScore`, `ApprovedByAdmin`,
`FinalStatusStays`, and `SucceededWhole` and `EndedStaysEnded` of the bootstraps.

The two assumptions on time are the ones to keep when settings change:
`WRITEBACK_EXECUTING_STALE_MINUTES` above gunicorn's `--timeout`, and
`CELERY_TASK_TIME_LIMIT` below the broker's visibility timeout.

Model-checked only: `RunsSettle` and `JobsSettle` (liveness is beyond the prover); and
`FixesSettle` and `FixesKeepTheRest` of `FixCycle`, two action properties that follow
every check through every write. Every invariant a passing run checks is a
theorem.

## 6. Plan

Done: the eleven parts of section 2. Next, in this order:

1. The checks that only count rows of a frame, next to those in `SegmentChecks` and
   `ProductChecks`; the plans of the checks that never write.
2. `FixesKeepTheRest` and `FixesSettle` as theorems: one lemma per check on what its
   write leaves of the universe, and what its judgment reads of that.

## 7. Not modelled

* Plan and priority scoring: a weighted sum and a sort, computed for each request
  and stored nowhere. Search, activity views and serializers only read. The
  capability lookup is a constant of `FixCycle`. Seeding and operator scripts are
  not part of the service.
* PDF, mail, prompts, tracing, the wording and layout of reports and pages.
* HTTP and encodings. Where they matter, their failures are choices of the models.
* The older fetch of `tenants/` (`fetch_persist.py`): nothing calls it.
* One store for one company. A read without a lock
  (`assert_external_account_available`) is followed by a save, and the partial
  unique index `uniq_connectors_external_account_key_owner` over connected and
  degraded rows decides every race; the loser gets an uncaught IntegrityError
  instead of the 409 of PRD_CONN_02. There is one step in which it can go wrong, and
  the database takes it. A connector in error does not block, so another company
  may connect the store meanwhile.
* In the modules that are there: what each subsection above names as abstracted.
