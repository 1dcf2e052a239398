# Verification of the toxic-comment moderation service

TLA+ models of the parts of this repository where several threads, processes or
machines touch the same state, model-checked with TLC on small instances, with
theorems checked by TLAPS for every instance.

Paths are relative to the repository. Modules, configurations and this file are
in one directory; `tlc -config X.cfg M` repeats a run, `tlapm M.tla` a proof.

## 1. The system

A visitor types a comment into a Streamlit page. The page calls `POST /predict`
of one FastAPI backend, which scores it, decides `allow`, `review` or `block`,
writes a row to Postgres and answers. Flagged and randomly audited comments
enter a review queue; a second machine re-scores the queue with a larger model,
a person judges it in a reviewer console, and dashboards read all of it. The
machines are built by Terraform and rolled by shell scripts over SSM; models are
trained on rented GPU pods.

| component | state it keeps | operations | depends on |
|---|---|---|---|
| prediction persistence (`backend/persistence.py`, `spool.py`, `db.py`) | `predictions`, `review_queue`, the spool file and its in-memory count | `persist_prediction`, `Spool.append`, `drain_spool`, `Spool.__init__` | Postgres, the file system |
| review queue (`backend/review_api.py`, `retention.py`) | `review_queue` rows, row locks, reviewer rows of `feedback` | `submit`, `pending`, `purge`, `enqueue_review` | Postgres |
| re-scorer (`rescorer/worker.py`) | nothing of its own | `drain_once`, `run_forever` | review queue, ONNX challenger |
| visitor feedback (`backend/queue_guard.py`, `feedback.py`) | user rows of `feedback` | `admit_user_feedback`, `insert_feedback`, `admit_review` | review queue |
| rate limiter (`backend/ratelimit.py`) | a dict of buckets under a lock | `allow`, `_evict` | the monotonic clock |
| gate and routes (`backend/app.py`) | the limiters, counters of refusals | `_gate`, `predict`, `health` | all of the above |
| policy and audit (`backend/policy.py`, `audit.py`) | none | `decide`, `should_random_audit` | thresholds |
| UI and reviewer console (`frontend/`) | Streamlit session state | a script run per interaction | backend API |
| monitoring (`monitoring/`) | none | read-only queries and statistics | Postgres |
| RunPod leases and training runs (`infra/runpod/`) | the pod registry file, pods that cost money, the staged bundle | launch, teardown, reconcile, terminate-all; deliver, train, export, fetch | RunPod API, files |
| deploy and rollback (`.github/workflows/deploy.yml`, `infra/aws/`, `infra/deploy/`) | current and previous SHA, `/opt/toxic`, running containers | build, upload, roll, verify, record, roll back | SSM, ECR |
| data preparation (`model/data/`) | files | load, deduplicate, split, check for leaks | nothing |
| training and release (`model/`, `run_phase1*.py`) | bundle cache, checkpoints, results, the ledger of test readings, the registry | train, tune, evaluate, release | files, W&B |
| challenger (`model/export_onnx.py`, `infra/runpod/register_pod_artifacts.py`, `rescorer/challenger.py`) | checkpoint, ONNX files, parity manifest | export, register, load | files, registry |
| Terraform, bootstrap, seeding, CI | cloud resources | apply, destroy | AWS, GitHub |

What is hard in it, and what would make it correct:

* *Persistence.* Requests run in a thread pool; the database may fail, or commit
  without the client hearing of it; the process may be killed at any line; the
  drain reads, commits and truncates in three steps beside the appends. Correct:
  no answered prediction is lost, a replay changes nothing a person has done,
  the reported latency is the stored one, the bound of the spool and
  `/health` mean what they say.
* *Review queue.* Four programs write it in READ COMMITTED transactions. Correct:
  one judgement per item, statuses only move forward, retention never takes the
  text of an open item, the challenger scores the comment and not a hole, the
  stratum an item was drawn in never changes, every item is eventually decided.
* *Reviewer console.* Every click runs the script again, and the run fetches the
  list anew while four programs change it. Correct: labels belong to the item
  they were made for.
* *Feedback.* A check of quotas and an insert, twice, without a lock. Correct: what
  is referred to a reviewer is a disagreement on record, quotas are exceeded by less than the clicks in flight.
* *Rate limiter and gate.* The clock is read outside the lock; the table evicts; a
  request is metered twice. Correct: over any interval a caller gets the burst and
  the refill, and a peer's ceiling counts what was let through.
* *Decision.* Thresholds, margins, a label hierarchy and a response contract
  that is written somewhere else. Correct: a higher score never earns a milder
  decision, and every place that flags a comment flags alike.
* *RunPod.* A registry file several processes rewrite; a pod exists before it is
  recorded; two runs share a staging directory. Correct: no pod outlives its lease
  unrecorded, weights come from the split that was staged, trained weights get home.
* *Deploy.* Several hosts rolled one after another by commands that outlive their
  sender, then a record. Correct: what is recorded is what was verified and runs.
* *Preparation, training, release.* Each stage leaves files that a later invocation
  picks up, and may be killed between two of them. Correct: nothing leaks from test
  to train, thresholds are tuned out of fold, held-out rows are read once, and what is
  published is what was measured.
* *Challenger.* Files written in place, gates in three programs. Correct: nothing
  ungated is registered as the int8 graph, nothing is served beyond the ceiling.

The full list of hazards, each at its line with the properties that would catch
it, is in `PROJECT.json`.

## 2. The modules

| module | models | builds on |
|---|---|---|
| `PredictionLog` | what persistence promises (abstract) | |
| `Persistence` | prediction persistence and spool | implements `PredictionLog` |
| `ReviewLifecycle` | the life of a review item (abstract) | |
| `ReviewQueue` | the queue and its four programs | implements `ReviewLifecycle` |
| `UserFeedback` | a visitor's verdict | extends and implements `ReviewQueue` |
| `ReviewerConsole` | the reviewer's page | extends `ReviewQueue`, implements `ReviewLifecycle` |
| `RateLimiter`, `Gate` | the token buckets; the middleware | `Gate` has two instances of `RateLimiter`'s buckets |
| `LabelSet`, `Decision` | labels; scores to response and flags | |
| `PodLease`, `GpuRun` | leases; the training runs they are taken for | `GpuRun` extends `PodLease` |
| `Deploy` | workflow, rollback, what runs on an instance | |
| `Corpus`, `Evaluation`, `Release`, `Challenger` | preparation; computations; training and release; ONNX | `LabelSet` |
| `MCServing`, `MCPipeline` | disjoint unions of parts that share no variable, for one run each | |

`MC*` modules give constants their values; `*_proofs` modules hold the theorems.

### Persistence

| state | code |
|---|---|
| `up`, `pc`, `attempt` | the backend process and one thread of `predict`/`persist_prediction` per request |
| `db`, `review` | the rows `insert_prediction` and `enqueue_review` write |
| `file`, `open`, `count` | the spool's lines, whether the last one lacks its newline, `Spool._count` |
| `drain`, `batch` | where `drain_spool` is and what `read_all` returned |
| `exposed` | history: rows appended to an unfinished line, or between a drain's read and its truncation |

A transaction is one action, because Postgres makes it one; what may come between
two actions of a thread is everything else, a kill included. `CommitDirect`,
`AttemptFails` and `AttemptCommitsUnheard` are its three outcomes.
`SpoolHasRoom`, `AppendLine` and `CountLine` are the three steps of
`Spool.append`, which holds no lock. `drain_spool` is four actions. Nothing
deployed calls `drain_spool`, so `DrainMode` says who does: nobody (`never`, the
repository as it is), an operator while the backend is down (`quiesced`), or the
backend itself (`live`). `Faults` names the faults of an instance: a failing
transaction, an unheard commit, a kill, a kill that tears a line, an `OSError`.
`Poison` are requests whose row the database refuses for ever.

### ReviewQueue, ReviewLifecycle

A step is one SQL statement, or the commit with the statements before it that only
touch rows the transaction has locked. `SELECT ... FOR UPDATE` takes `lock`; an
action that needs a lock another transaction holds is not enabled. The purge is
three actions because its second statement reads review statuses that others may
change before it commits. Time is counted in days. A replay from the spool may
write a row whose `ts` lies in the past, which is the `day` of `WritePending`.

### UserFeedback

`Admit` is the count-and-check of `admit_user_feedback`; `InsertFeedback` its insert
and commit; `Refer`, `ReferralRefused` and `InsertReferral` are `admit_review`. Any
number of clicks may be between a check and an insert. The unique index on user
rows and the primary key of `review_queue` are the guards of the two inserts;
`ClickFails` is the error they raise, or any other. Windows of an hour and of a day
are both "the same day" here.

### RateLimiter

`ReadClock` is the line before the lock, `Decide` the block under it, so a thread may
arrive with an older time than the bucket's. Tokens are integers in units of `1/Cost`
and time is counted in ticks; floating point rounding is not modelled. `made`,
`spent`, `admitted` and `lost` are history; `admitted` counts, for one watched key, what each interval of
the clock has let through.

### PodLease

| state | code |
|---|---|
| `live` | the pods `GET /pods` lists; a launcher's pod has the launcher's name |
| `registry` | `runpod_pods.json` |
| `pc` | where a launcher is in `preflight`, `PodLease.__enter__`, `launch_pod` and `teardown`, and the reaper in `reconcile` |
| `before`, `read`, `todo`, `done`, `erring` | `_before`, the entries a read-modify-write began from, the ids to delete, `confirmed`, and an exception on its way out |
| `exposed` | history: pods that lost their record, or never got one, while live |

Reading the registry and replacing it are two actions of `append_registry` and
`remove_from_registry`, because nothing locks the file between them. Each call of
the API is an action with the outcomes that `Faults` names: nothing done and an
exception, done and an exception, a 2xx that did nothing. `TeardownRaises` ends a
lease for good: `_torn_down` is set before anything is deleted, so the exit hook
finds nothing to do. `preflight` needs no more than `live`: a live pod is registered
or an orphan, and both refuse. What a launcher
does with its pod is `GpuRun`.

### GpuRun

`Program(l)` is the sequence of steps of a driver, `at` how far it has come: `phase1`
looks whether anything runs, clears and copies the staging directory, stamps the copy's split, and leases; `finetune`
and `classical` lease at once. Each step may raise (`BodyRaises`), and a step on the pod
is not enabled once the pod is gone. `ExportFails` is caught in `run_finetune` and
remembered in `unexported`; in `run_phase1_gpu` it ends the run. `RebuildCache` is another
terminal, left out once no run is going to read the cache. `raced` remembers, for as long as a pod is live, which
leases were past preflight when it was created.

### ReviewerConsole

| state | code |
|---|---|
| `session` | a Streamlit session, its password check included; `awaiting` is the blocked `httpx` call |
| `shown`, `formed` | the item on the screen; the item the ticks in `st.session_state` were made for |
| `call` | by backend worker, the submit it serves |
| `line` | the requests by `enqueued_ts`, the order of `pending` |

A run of the script is one action, `Runs`: it fetches, shows `Top` and keeps the ticks. `Click` is
the run whose button is pressed: it fetches first, and sends the ticks for whatever it has fetched. `HearFailure` is the
time-out, a 409 or a 5xx, each of which leaves the ticks and may come after the commit. That Streamlit drops the
state of a widget that is not drawn is its own behaviour and modelled as such. The reviewer
is careful: the button is pressed only while the screen shows the item of the ticks.

### Gate

A request goes through `_gate` in one step, because nothing is awaited before
`call_next`: the refusals of framing, path, size and key in the order of the code
(`Turned`), then the bucket of the identity it claims, then that of its TCP peer (`Metered`). `Midnight`
changes the salt of both keys. `passed` counts what a peer was let through.

### Decision

`Predict` is `enforce_hierarchy`, the flags, `decide` and the validation of `PredictionResponse`, on every
score and threshold of a small grid; `Raised` is a response its own contract refuses. `Flagged` is what
`monitoring/queries.py` recomputes from the stored row, `BaselineFlagged` what the Phase 1 baseline flags.

### Deploy

| state | code |
|---|---|
| `images`, `payload` | ECR by commit, and `deploy/<sha>/` in S3, which may be there in part |
| `current`, `previous` | the two SSM parameters |
| `installed`, `env`, `up` | by host: what is in `/opt/toxic`, which images `stack.env` names, which containers run |
| `step`, `target`, `turn`, `seen` | where the workflow and the rollback are |
| `job`, `late` | the SSM command a program polls, and those nobody polls any more |

A command runs `Copies` (`bootstrap.sh`), `WritesEnv` and `Restarts` (`roll.sh`), and may fail before any
of them. `Dies` ends the sender at any line, its command goes on in `late`. `HostRestarts`
is the systemd unit. `PutPrevious` and `PutCurrent` are two writes of `record_deploy.sh`.

### Corpus, Evaluation

`CollapseExact` and `Consider` are the two passes of `dedup.py`: a row is compared with the kept
rows that the hashing nominates, merges into the keeper and may link keepers. Which pairs are nominated is a free
choice. `Split` chooses any stratified assignment. The gate (`GateAccepts`, `GateRefuses`) uses bands
of its own. `Evaluation` translates four computations (`Tune`, `Resample`, `Slice`, `Audit`) and states of
each what its result has to be, in rationals where the code has floats.

### Release

A fitted model, a table of scores, a set of thresholds and a set of metrics are named by
what they were computed from. The actions of `TrainPhase1` are the stages of `run_phase1.py`,
each of which reads its files and writes its own; `ResumeFold` takes a fold's scores from a
checkpoint that is on disk. The actions of `Publish` are `run_phase1_release.py`: the ledger is written
before the intervals, the result before the upload. `Faults` names a kill between steps (`kill`),
a torn file (`tear`), and two processes at once (`overlap`); what raises by itself (`FinalRaises`, `TuneRaises`,
`EvaluationDies` and the others) may always happen. Three variables are history: `readings`, the evaluations that were
recorded; `lost`, the splits whose evaluation is in no file any more, set where it happens; `strays`, the models a release
scored or published beside the footprint of another model, which it does not notice.

### Challenger

A checkpoint or a graph is what it computes on the parity rows: `Outputs` is every function the
exporter or the quantizer may leave behind. `ExportFloat` and `VerifyAndRecord` write file by file behind
`FloatGate` and the int8 gate; `ExportDies` may come between; `Register` checks the digest of the int8
file alone; `Start` is `load_challenger` with its ceiling.

## 3. The runs

| run | module | properties | what it shows |
|---|---|---|---|
| `PersistenceLive` | `MCPersistence` | `AckedRecoverable`, `RowsComplete`, `ReplayChangesNothing` | Three requests, one of which the database refuses for ever, under every fault and with drains of the live spool: nothing answered is lost outside the two windows of `exposed`, the stored latency is the reported one, a row and its review appear together, replays change nothing |
| `PersistenceQuiesced` | `MCPersistence` | `HealthHonest`, `SpoolOvershoot`, `LogSpec` | With drains while the backend is down and lines that are written whole: `/health` is honest, the bound is overshot by fewer than `Threads` rows, `PredictionLog` is implemented, so nothing answered is lost at all |
| `SpoolTornLine` (violation) | `MCPersistence` | `AckedDurable` | With torn lines an answered row is lost even so |
| `ReviewPurge` | `MCReviewQueue` | `OpenReadable`, `ScoredOnText`, `SnapshotsPurged`, `StrataAsDrawn`, `Rescored` | Days of backend, two re-scorers, reviewer and purge: open items stay readable, the challenger scores text, snapshots are purged, an item is in the stratum its prediction was drawn in whatever was reported or replayed, no item stays pending |
| `Feedback` | `MCUserFeedback` | `ReferredOnDisagreement`, `QuotasBounded`, `QueueSpec` | Two clicks at once, agreeing or not, on three predictions of one sender: what is referred is a disagreement on record, the quota of verdicts and the three caps on reports hold up to the clicks in flight, `ReviewQueue` is implemented |
| `ReviewConsole` | `MCReviewerConsole` | `OneJudgement`, `StrayFromTop`, `LifecycleSpec` | A console with two backend workers, beside re-scorer and purge: one judgement per item, `ReviewLifecycle` is implemented, labels stray only from an item that is gone or was overtaken |
| `ConsoleMisfiled` (violation) | `MCReviewerConsole` | `LabelledAsShown` | and stray they do |
| `Serving` | `MCServing` | `Accounting`, `WindowBounded`, `CeilingIsAdmissions`, `DecisionSound`, `OneRule`, `DeploySound` | A limiter under threads, the gate, the decision, or the deployments: a bucket that is kept admits no more than burst and refill over any interval; a peer's ceiling counts admissions; the decision is sound and every place flags alike; what is recorded as deployed was verified, and what was verified undisturbed runs on every host |
| `DeployStale` (violation) | `MCDeploy` | `PayloadArrived` | A command succeeds with the payload of another commit |
| `PodsReaped` | `MCPodLease` | `NoOrphan`, `DoneMeansGone`, `Reaped` | Two launchers and a reaper under every fault: no pod without a record but the exposed ones, a lease that returns has left none, and what is recorded is deleted in the end, by its lease or the reaper, whoever dies |
| `GpuRuns` | `MCGpuRun` | `TrainedAsStaged`, `RunKept`, `OnlyRacers` | Two training runs by either driver: weights come from the staged split, an exit code of 0 means artifacts at home, a stranger's pod is deleted in the documented race only |
| `Pipeline` | `MCPipeline` | `LabelsKept`, `NoLeak`, `TunerSound`, `ComparedAlike`, `TotalsUnbiased`, `GatesHold`, `TunedOutOfFold`, `HeldOutOnce`, `ScoredOwnSplit`, `PublishedIsMeasured`, `ResultKept` | Every corpus of three rows, every table of three rows, every graph of a small set, and the Phase 1 model under kills and torn files |

The type invariants (`TypeOK`, `FTypeOK`, `DeployTypeOK`, `ChallengerTypeOK` and the others) are stated in
every module; those of the modules with a proof are theorems.

**Bounds.** Two requests are the pairs in which a drain, an append, a kill and a restart
can fall between each other's steps; the third finds a spool
that two others have filled, and is the one whose row the database refuses. Two attempts are the code's default. A spool of one row
is the smallest bound that two threads can pass together. In the queue, two items
are what a batch of one has to choose from and what an age order needs; the days
needed are one more than the longest setting. Three predictions are one more than
a quota of one and two clicks at once allow. At the console a second worker is the submit that was given
up and goes on beside its repetition. In the limiter, a token and a half per
tick lets a refill be a part of a token, more than one, and be cut off by the burst; three
keys are one more than fit. At the gate a burst of one below a ceiling of two lets one
caller run dry before its peer does; buckets are evicted only in the limiter's
part, the gate's tables hold every key of two days. Scores and thresholds are twentieths chosen on both sides of
every margin. Two hosts are what can be split, of which the second runs two images so that one may be missing;
three program starts are a deploy, a second one, and a rollback, in any order, and one command may be left behind at a time.
Two launchers and a reaper are three writers of one registry,
and each pair of them can overlap; in `PodsReaped` one of the two launchers has a name the reaper would
refuse. Two training runs, each by `run_phase1_gpu` or `run_finetune`, share cache and staging, with a cache of two splits; a
`--classical` run takes the steps of a fine-tune and survives no failure, so it would add none. Three rows form a chain of near-duplicates whose ends
are not similar, and a stratum with two rows beside one with one. Two outer folds let a resumed fold be of another split than a fresh one.
The outputs of the ONNX graphs are a checkpoint, noise of several sizes on both sides of each tolerance,
exchanged columns, and another checkpoint.

`MaxDay`, `MaxTick`, `MaxCount`, `LastTime`, `LastDay`, `MaxRuns`, `MaxLate`, `MaxVersions`, `Samples` and `Rows` bound the models
and nothing in the code.

Symmetry is used only in runs without liveness, over values the constants do not tell apart.
In `Pipeline` the texts of a corpus are named in the order of its rows, so that of the namings of a corpus one is checked.
In `Serving`, whose parts share no variable, one permutation acts
on both of two parts' values: a behaviour has one part's values only, so the action on the other part
is invisible, and every permutation that is listed maps behaviours to behaviours.

**Deadlock** is checked in the runs of the queue, its visitors, its console and the leases. It is not where the
system really stops: in `Persistence` when every request has been answered, in
`GpuRuns` when both runs have exited, in `Serving` and `Pipeline` when a part has computed its answer or used up
its bounds.

**Fairness.** None in `Persistence`: that a spooled row reaches the database in the end is not claimed, because
nothing deployed calls `drain_spool` (`backend/persistence.py:71`), and a drain that were called would fail for as long as
one line of the file holds a row the database refuses. `ReviewQueue!FairSpec`: a transaction that was
begun ends, because Postgres ends it; the worker, a loop in a container that is
restarted, claims and commits now and then (strong fairness: reviewers may lock its
rows for a while, and a pass may be interrupted). No fairness on reviewers or on the
purge's start, which are people. `PodLease!FairSpec`: the runbook has
a person run the reaper until it reports nothing; not every run of it dies, and a DELETE tried again
and again is granted once (strong fairness on `Deleted`). No fairness on launchers: one may hang for ever.

## 4. The proofs

Eight modules hold the theorems, each for every value of the constants that meets the modules' named
assumptions. Where a theorem needs more, the hypothesis is named below with the reason for it.

* `Persistence_proofs`: `TypeCorrect`; `AckedRecoverableCorrect`; `LogImplemented`
  (assuming `Undisturbed`: no torn or failing writes, no drain beside the server).
  The invariant adds to types what each place of a thread and of the drain knows: a
  thread that has appended and not counted has its line in the file or was exposed,
  a batch that was committed is in the database, and the lines of the file that a drain is
  about to truncate are in its batch or were exposed. The refinement step maps the
  commit to `RecordAndAcknowledge`, the append to `Record`, and the count to `Acknowledge`.
  `RowsCompleteCorrect` holds under every fault and drain, from `RowsInv`: a line that can be read was
  written by a request that will not commit any more, so no transaction meets the drain's, and a line that is truncated
  was committed. `ReplayChangesNothingCorrect` follows step by step. `SpoolOvershootCorrect` and `HealthHonestCorrect`
  come from `BoundInv`: a process that serves counts every line but those just appended, and what it counts together with
  the requests past the check stays below the bound plus the threads. Both assume `Counting`: a write that raises may
  leave a line that is never counted, and a drain beside the server resets a count that a thread is about to add to.
* `ReviewQueue_proofs`: `QueueTypeCorrect`, `OneJudgementCorrect`,
  `LifecycleImplemented` from the invariant `Core`, which says what a held lock means
  (a row the re-scorer or the purge has locked is still in the status it was
  locked in); `SnapshotsPurgedCorrect` from `Core` and the order of the clock and the purge's day;
  `StratumFixedCorrect`, because what is not queued was drawn in no stratum; `StrataAsDrawnCorrect` from `DrawnQueued`, that
  a prediction which was drawn in a stratum is queued in the transaction that stores it, so that no report can get in first;
  `OpenReadableCorrect` and `ScoredOnTextCorrect` from `Kept`, which adds
  that what the purge is about to null is closed and too old to be opened, assuming
  `RetentionOrdered`: the settings are ordered as their defaults are
  (`backend/config.py:56-58`; the code does not check this).
* `ReviewerConsole_proofs`: `ConsoleImplementsQueue`, that every step of a console and its workers is one of
  `ReviewQueue` or none, so that `OneJudgement` and `ReviewLifecycle` carry over (`ConsoleOneJudgement`,
  `ConsoleLifecycle`). `StrayFromTopCorrect` from `Filing`: whatever was queued stands in the line, and what is formed,
  sent or stored strays no further than it may. The position in the line must be part of it, since a status alone changes between the
  click and the commit.
* `UserFeedback_proofs`: `FeedbackTypeCorrect`; `ReferredOnDisagreementCorrect`, from what a click that is past its insert
  knows of the row that was stored; `QuotasBoundedCorrect` from one budget for each of the four quotas: what is counted together
  with the clicks that were counted in and have not inserted stays below the quota plus the clicks. A count alone is not inductive, since a click inserts on a count that is no longer
  true. `QueueImplemented`, under `RetentionOrdered`: `ReviewQueue`'s `Report` asks for a prediction that is
  young and has its text when the review is inserted, `InsertReferral` asks for neither, and what bridges them is that a click
  in flight names a prediction that was young the day before at most (`ClickFresh`) and that a text the purge has taken was
  too old to be voted on (`NulledOld`). So the theorems about `ReviewQueue` hold beside any number of clicks.
* `Serving_proofs`, about four modules:
  * `RateLimiter`: `LimiterTypeCorrect`, `AccountingCorrect`: the books of a bucket
    balance after a refill over any elapsed time, a negative one included. `WindowBoundedCorrect`: over *any* interval, from
    `Leveled`, which charges what a window has admitted together with what the bucket still holds to one burst and the refill since the
    window began; the admissions alone would not be inductive.
  * `Gate`: `GateTypeCorrect`; `CeilingIsAdmissionsCorrect` from `PeersSound` (a peer's bucket has spent and holds at least
    a burst and at most a burst and the refill) and `SpentOnPassed` (it was spent for what passed and nothing else).
  * `Decision`: `DecisionSoundCorrect`, `OneRuleCorrect`, for any labels, scores and thresholds: the
    run enumerates a grid, the theorems hold for every integer scale.
  * `Deploy`: `DeployTypeCorrect`, `DeploySoundCorrect`, for any hosts in any order, any images, and
    any number of programs and of commands left behind. The invariant says that an undisturbed program has brought the hosts
    before its turn to its target, that the command it polls has done what its place says, and
    that who records holds a gated commit.
* `PodLease_proofs`: `TypeCorrect`, `NoOrphanCorrect`, `DoneMeansGoneCorrect`, for any number of
  launchers and reapers and any faults. The invariant says that nobody knows of a pod before it exists
  (so a pod seen to be gone stays gone), that what a lease removes was seen to be gone and what a reaper
  removes is gone or exposed, and that a lease closing without an exception has its own pod on its list.
* `GpuRun_proofs`: `RunImplementsLease`, so that the theorems about leases hold of real runs; `TrainedAsStagedCorrect`,
  `RunKeptCorrect`, `OnlyRacersCorrect`. The invariant (`RunInv`) ties the place in a driver's program to the state of its lease
  (`Prepared`), the weights to the split that was insisted on from the delivery on, an exit code to the steps that were taken, and
  says that a live pod was created after the preflight of every other lease on its way (`Raced`).
* `Pipeline_proofs`, about four modules:
  * `Corpus`: `LabelsKeptCorrect`, `NoLeakCorrect`, for any rows, any symmetric similarity and any nominations. A row
    that was not considered stands for copies of its own text only (`StandsForCopies`); without it a merge could chain.
  * `Release`: `HeldOutOnceCorrect`, `ResultKeptCorrect` under every fault; `TunedOutOfFoldCorrect`, `ScoredOwnSplitCorrect`
    and `PublishedIsMeasuredCorrect` without `overlap`: with two processes over one cache they do not hold (section 5). The last
    two exempt `strays` by name. The invariants say that scores never outlive the cache they were made
    from (`FoldsOfBundle`), and that the footprint on disk is that of the model on disk but between the two writes (`OfOneSplit`).
  * `Challenger`: `ChallengerTypeCorrect`, `GatesHoldCorrect`, for any outputs and tolerances: a manifest
    always describes an int8 graph that passed, and a registered version is a manifest's.
  * `Evaluation`: `TunerSoundCorrect`, `ComparedAlikeCorrect`, for any number of rows, thresholds and labels. The
    walk up the grid and the sum over labels are recursive functions; what they compute is proved by induction as a statement about
    sets: the set of places up to which the walk holds the best point contains 0 and each successor (`Reaches`), and so is `Nat`.
    Comparing F-betas is arithmetic of rationals with positive denominators (`LeqTrans`, `AddFractions`).
    `TotalsUnbiasedCorrect`, for any number of rows, rates and flags. A commutative, associative fold may take the elements of its
    set in any order (`FoldingIs`, by `SubsetInduction`); so a sum over the audits of some rows splits into those that leave
    one more row out and those that review it (`SumOverSubsets`), whose chances are `Design - Chance` and `Chance` times what they
    were (`OneMoreRow`), and what that row is counted with times its chance is `Design` (`WeighsInverse`).

Only model-checked: the liveness properties `Rescored` and `Reaped`, which are out of the prover's reach.
Every other property of a passing run is stated by a theorem.

## 5. Where the code and its words part

Three disagreements have a run: the torn line, the labels that are stored for another item, and the
payload check that an earlier roll satisfies. Others met on the way, which the properties above are worded to respect.

*Persistence, queue, feedback*

* A drain beside a running server loses what is appended between its read and its
  truncation, and resets a count that a thread is about to add to. `exposed` and the
  quiesced run separate the two worlds.
* Nothing that is deployed calls `drain_spool` at all, and one row the database refuses for ever fails every drain of
  the file it is in, so the others wait with it. No property says that a spooled row arrives; `AckedRecoverable` says
  that it stays where a drain would find it.
* A commit that went unheard and is then spooled stays `persist_status = 'direct'`:
  the replay's insert does nothing, though `backend/spool.py:10-11` says replayed rows are
  `spooled`.
* `backend/queue_guard.py:7-8` says `max_pending` bounds the queue globally. It bounds
  reports: `/predict` enqueues without asking, and a re-scored item no longer counts.
  `QuotasBounded` states what holds. A disagreement that the cap refuses is answered as queued
  (`frontend/ui.py:106`).
* Text that is replayed from the spool starts a new snapshot period on the day of the
  replay, so the retention of `backend/retention.py:13-14` is counted from there.
  `SnapshotsPurged` is stated over the queue day.
* Labels are stored for another item after a lost answer, a time-out or a 409, after an
  expiry, or when an item with an older `enqueued_ts` commits later. A time-out of the submit raises an `httpx` error, which
  the page does not catch, and not a `BackendError`.

*Gate, limiter, decision*

* `backend/ratelimit.py:51-52` justifies eviction for full buckets. `_evict` drops the least
  recently seen half, full or not, and an evicted key starts again with a full burst:
  `WindowBounded` is about keys that were not evicted.
* Fingerprints are salted with the day, so every window starts anew at midnight UTC (`Gate!Midnight`).
* Monitoring recomputes flags without `severe_toxic => toxic`, and the Phase 1 baseline uses raw
  probabilities (`monitoring/queries.py:10-13`, `backend/review_api.py:44-46`); `OneRule` bounds the difference.
* `monitoring/stats.py:3-7` calls the estimator unbiased. Its two totals are (`TotalsUnbiased`); the quotient that is shown is not.

*Leases and training runs*

* `PodLease.teardown` says "this invocation's pods" (`infra/runpod/deploy_runpod.py:857`) and deletes
  what was registered since the lease began. Two launchers that both pass `preflight` before
  either creates a pod delete each other's; `OnlyRacers` says that nobody else does.
* A removal writes back the registry it read and drops an entry written in between; `exposed` covers it.
* `PodLease` de-registers on what the API lists; `reconcile` de-registers on DELETE's word, which the
  runbook makes up for by a third command ("Step 3 is not optional").
* A pod that can be neither recorded nor deleted (`infra/runpod/deploy_runpod.py:794`) is an orphan,
  beside the crash window that `launch_pod` documents.
* A `--classical` run is planned on demand and launched with `interruptible=interruptible`. A spot
  fine-tune is said to resume from a checkpoint, but nothing passes `--resume` and the disk dies with the pod.
* `run_phase1_gpu` loses trained weights when the export or the registration fails; only `run_finetune` keeps them
  (`RunKept`). `run_finetune` sends the data set as it is, held-out rows included, and asks for no split.
* `fetch` leaves an older `onnx/` beside new weights; two launchers share the path of the code archive.

*Deploy*

* After a deploy whose gate failed, `current-sha` is still the last good one and `make rollback` goes to `previous-sha`, one
  further back. After a rollback `previous-sha` may name the commit just left.
* `verify_live.sh` does not ask which commit answers. The concurrency group serialises workflows and not `rollback.sh`. A command that
  outlives its poll may land after a later roll: these are what `disturbed` marks in `FleetIsTarget`.
* A roll that failed after `stack.env` was written takes effect at the next restart of the unit, unverified.
* `rollback.sh` checks that every image of its target is there before anything moves, and not the payload.

*Training, release, challenger*

* `Release!OwnThresholds` is a claim that does not hold, and is checked by no run: thresholds tuned on a split can be
  used on another one after a rebuilt cache (`model/oof.py:17-18`). And a second release of one split publishes its own thresholds beside the first one's
  metrics, which the model leaves out.
* A stage that ends between `toxic-clf.skops` and its footprint, by a kill or because the check or the digest of the new file
  raises (`run_phase1.py:622-662`), leaves a new model beside the old footprint. `env_version_check` compares the footprint's split
  only (`run_phase1_release.py:151-159`), so such a model may be scored on rows it was fitted on and published: `strays` in `ScoredOwnSplit`
  and `PublishedIsMeasured`.
* One file holds the evaluation of one split, so releasing a second split overwrites that of the first, whose rows are spent; and an
  evaluation that ends between the ledger and the file is gone (`lost` in `ResultKept`).
* A torn fold checkpoint makes every later cross-validation raise, until it is deleted by hand (`DeleteTorn`).
* The digest of the model is compared before the upload reads the file again.
* `Challenger!FloatIsGated` does not hold either: `register` verifies the digest of the int8 file alone, so a float graph that a failed
  re-export left behind is uploaded ungated, and `model.onnx` is the worker's default. `GatesHold` says what does hold.
* `export_onnx` writes a `parity.json` without the logits that `load_challenger` reads: the worker cannot start on an artifact as
  exported. A graph may pass the export's gate (0.25) and be refused by the worker's ceiling (0.05).
* `train_distilbert.main` blanks three of the recorded provenance fields by `**run_metadata(config.seed)`.
  `_refuse_local_cv_if_stopped` is not asked by `all`.
* `split_version` ignores the text of the comments; `export_heldout.py` prepares a data set without the leakage gate.

## 6. Not modelled, and the plan

Not modelled: Terraform and the account bootstrap (declarative, applied by hand), seeding and operator scripts (straight-line
programs without shared state), the CI workflow (executed by GitHub), DistilBERT's training loop and what a model learns, inference on a
served comment, the drift statistics and plots of the dashboard, wording. Configuration parsing, authentication tokens
and the model's numbers are inputs of the models, not parts of them. An instance that is replaced by a new one, and
`provenance.py` (one download and its digest), are left out too. Components that
are partly modelled say in `PROJECT.json` what is missing.

Plan, in order:

1. The drain of a quiesced spool empties it: what a live drain would have to guarantee once something calls it.
