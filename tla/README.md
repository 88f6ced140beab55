# Verification of the content moderation pipeline

TLA+ models, TLC runs and TLAPS proofs for the multimodal content moderation
system: a FastAPI service that accepts images, a job queue (SQS or Pub/Sub), Python workers
that decide each job, a PostgreSQL database they share, a desk where humans
review what was not decided automatically, and a command line tool that redrives
dead letters. Paths below are relative to the repository (`src/` here).

Everything is translated from the code. Where code and documentation differ, the
model follows the code and the difference is recorded (see *Findings*).

## 1. Inventory

| Component | Code | State it keeps | Operations | Modules |
|---|---|---|---|---|
| API ingest | `apps/api/app/routes/ingest.py`, `ingest_service.py`, `redis_client.py`, `queue.py` | `jobs`, `content` rows; Redis key `ingest:<hash>` | accept an upload: admit, lookup, lock, poll, store, insert, enqueue, failure path | `Admission`, `Ingest`, `Enqueue` |
| URL ingest | `apps/api/app/url_fetch.py` | none | download, size, sniffed type | `Admission`, `Ingest` |
| Object storage (external) | `apps/api/app/storage.py`, `apps/worker/worker/object_store.py` | one object per upload that got that far | put, get | `Ingest` |
| Tenant rate limit | `apps/api/app/rate_limit.py` | one Redis counter per tenant and window | INCR, EXPIRE, evaluate | `RateLimit` |
| SQS queues (external) | `infra/localstack-init.sh`, callers of boto3 | main queue and dead-letter queue | send, receive, delete, visibility timeout, redrive policy | `Messages`, `Sqs` |
| Pub/Sub (external) | `queue.py`, `main.py` | topic and subscription | publish, pull, acknowledge, modify deadline | `Messages`, `PubSub` |
| Database rows of the pipeline | `db/migrations/001_init.sql` and the SQL of its users | `jobs`, `decisions`, `review_queue` | one operator per statement or transaction | `JobStore` |
| Worker | `apps/worker/worker/main.py`, `pipeline.py` | the batch in hand; on Pub/Sub also the outcomes of the batch | receive, handle, persist, mark failed, acknowledge | `Handler` with `Worker` or `PubSub` |
| Analysis | `apps/worker/worker/adapters/`, `packages/moderation_shared` | none outside the job | look, classify, route, build the envelope | `Analysis` |
| Redrive tool | `scripts/redrive.py` | the batch in hand | pull, plan, reset, resend, delete | `Redrive` |
| Review desk | `apps/api/app/routes/review.py`, `review_claims.py`, `redis_client.py` | `review_queue` rows, Redis key `claim:<review>` | list (with expiry sweep), claim, resolve | `ReviewDesk`, `ClaimLease` |

Not modelled, each with its reason under *Not modelled* and in `PROJECT.json`: the
read-only endpoints for decisions, audit and metrics, telemetry, the dashboard, the
evaluation harness and the deployment files.

How the parts interact. The API commits a job row and, outside that transaction,
sends a message. A worker receives messages, reads and writes the same rows and
deletes the message. SQS redelivers what is not deleted in time and moves a
message to the dead-letter queue after `maxReceiveCount` receives; Pub/Sub only
redelivers. The redrive
tool reads the dead-letter queue, resets rows and sends new messages. A decision
that needs a human leaves a `review_queue` row; from then on API processes serve
reviewers, coordinating through a Redis lock and conditional UPDATEs.

What is hard here. No process holds a lock over a job: either queue can deliver it to
several workers, each statement commits alone, and only `persist_envelope` is a
transaction. Two counters (`jobs.attempts`, SQS receives) decide independently
that a job is finished. A claim lives in two stores with two clocks' worth of
expiry. Redis commands that belong together (`GET` then `DELETE` or `EXPIRE`,
`INCR` then `EXPIRE`) are separate. The complete list, line by line, is under
`hazards` in `PROJECT.json`.

What makes each part correct:

- pipeline: no undecided job loses its last message; the first decision stands; a
  review row exists exactly when it is needed; every job is settled or visible in
  the dead-letter queue;
- ingest: one job per content; a job shown as queued was sent; a job that was sent has an
  object, and the worker refuses it only for a type it does not know; every upload is answered;
- desk: a review is leased to one person at a time, closed once, and never stranded;
- analysis: what is settled without a human had the confidence asked for; policy
  text and unreadable images are not released;
- rate limit: at most the limit per window; nobody is refused for another window;
  `Retry-After` leads into the next window.

## 2. Modules

    Jobs ─┬─ Messages ─┬─ Sqs ──────────┬─ Worker ──┐
          └─ JobStore ─┼─ Handler ──────┴───────────┼─ JobPipeline ─ MCJobPipeline, JobPipelineProofs ─ DeadLetterProofs
                       ├─ Enqueue, Redrive ─────────┘
                       └─ Enqueue, Handler ─ PubSub ─── PubSubPipeline ─ PubSubProofs, MCPubSub
    DecisionLedger ── (implemented by) ── JobPipeline, PubSubPipeline
    ClaimLease ────── (implemented by) ── ReviewDesk ─ ReviewDeskProofs, MCReviewDesk
    Admission ─ Ingest ─ IngestProofs, MCIngest
    RateLimit ─ RateLimitProofs, MCRateLimit
    Analysis ── AnalysisProofs, MCAnalysis

`Redrive` uses `Sqs` as well. `map` in `PROJECT.json` gives the lines of every definition.

### The job pipeline

`JobPipeline` composes three kinds of processes over two shared stores.

- `Messages`: what both queues have in common: a message occupies a slot `m \in Msg`
  with the job in its body, is hidden while held, and reappears when its deadline passes
  (`Expire`), at any time: the code does not extend visibility, so a slow worker can lose
  its message while it works.
- `Sqs`: adds the dead-letter queue, how often a message was received and who holds the
  latest receipt. An old receipt may or may not delete (`Delete`).
- `JobStore`: one operator per SQL statement. The failure path's `SetStatus` has no
  condition, `ResetForRedrive` has one, `PersistEnvelope` writes three tables or, on
  a conflict, nothing. `attempts` is counted up to `max_attempts` and no further
  (`CountedOn`); the code counts on, but only asks whether the limit is reached.
- `Enqueue`: the tail of `accept_image`. `SendError` is a failed `send_message`
  whose message may be on the queue all the same.
- `Handler`: what a worker does with one message on either queue. The program counter
  names the next statement: `status` (handle_message's SELECT), `lookup` (decision of this
  job), `start` (UPDATE to processing), `analyze`, `persist`, then `ack`; failures go through
  `count`, `mark`, `log` (the three statements of `mark_failed`). `Raise` is an exception in
  `process_job`.
- `Worker`: `poll_sqs` around it. `Abandon` is an exception in the handler's own statements
  or in the delete, `Crash` the end of the process. A graceful shutdown finishes the batch
  first and is therefore among the behaviours already there. An ambiguous commit of
  `persist_envelope` is covered too: `Persist`, then `Crash`.
- `Redrive`: `Decline` stands for the job filter, the dry run and the limit; `db =
  FALSE` for `--skip-db`.

`DecisionLedger` is the abstract promise: a job is decided at most once, and its review row
appears in the same step and stays. It knows neither queues nor workers; both pipelines
implement it.

### The pipeline on Pub/Sub

`PubSub` and `PubSubPipeline` run the same `Enqueue` and `Handler` with
`QUEUE_PROVIDER=pubsub`. Four things differ. `poll_pubsub` notes the outcome of each message
(`settled`: its `ack_ids` and `nack_ids`) and settles the batch at its end (`Acknowledge`, then
`ReturnNacks`), when deadlines may have passed and others may hold the messages. Either call
may do its work for any part of the ids, and one that raises ends the process (`Die`): neither
is inside a `try`. A failure inside `mark_failed` turns a refused message into a nack, and one
on the way out of `handle_message` a finished one (`Escape`). And `future.result(timeout=30)` gives up while the publisher goes on (`GiveUp`,
`PublishLate`): the message may arrive after the API has answered 502 and marked the row
failed. There is no receive limit and no redrive. An acknowledgement that comes after the
deadline may still remove the message: what the subscription does with it is left open, and
nothing relies on either.

Left out in both: `audit_log` and `metrics_events` rows (appended, never read to decide
anything; the statement that can fail remains as a step), SQS retention (a message
that ages out unread), retries inside the AWS SDK (a duplicate send).

### Analysis

What happens between `start` and `persist`, in order: a vision adapter or its
fallback (`See`, `SeeLocally`), a classifier or its fallback (`ClassifyByModel`,
`ClassifyByRules`), then `RouteJob`. Scores are integers in ten-thousandths, the
precision the adapters round to. An image is one of four kinds, a caption a set of the
cues the regular expressions and the heuristics look for. The thresholds are constants
and nothing is assumed about their order, because the settings check none. A
confidence outside 0..1 is only noticed when the envelope is built and then fails
the job (`Refused`), which `Worker` sees as `Raise`.

### Review desk

A request is a sequence of Redis commands and SQL statements; `req[h].pc` names the next
one. `Abort` is an exception, a 4xx answer before the first write or the end of the
process, at any point. The sweep's UPDATE is two steps, the read of its subquery (`Sweep`) and
the writes (`FreeStale`): PostgreSQL under READ COMMITTED checks a row
that changed in between again only by the join on its id. `RedisRestart`
loses any set of locks; restoring an old snapshot with locks that had been
released is not modelled.

`ClaimLease` is the abstract promise: a lease is granted when the review is free, has
lapsed or is the grantee's own; it ends by lapsing or by its holder closing it; closed is
final (`LeaseSpec`). It knows neither Redis nor requests. The desk implements it only while no
row a sweep has read is claimed or resolved before the sweep writes (`SweepsUndisturbed`), which
the code does not ensure. `RevocableSpec` adds that leases may be taken away, to be free; that
one the desk implements whatever happens inside a sweep (`NeverTakenOver`).

### Ingest and rate limit

`Admission` holds the checks of bytes and types an upload passes on its way:
`fetch_image_bytes` for a URL, `accept_image` for everything, and the worker's `validate` of what
was stored. A content hash stands for its bytes, of which the checks see the length and the type
their first bytes tell. `Ingest` follows one upload per process from either endpoint
(`Arrive`, then for a URL `Fetch`) through `accept_image`. The caption and the policy
version, which also enter the hash, only make it a different hash. What a client declares
need not agree between uploads of the same bytes, so the type of the stored object is that of
the upload that stored it. Which URLs and addresses are refused is left open: `Fetch` may always
refuse. `SettingsAssumption` says that the worker's size limit is no smaller than the API's: both
read `MAX_UPLOAD_BYTES` from one `.env` (`docker-compose.yml`), and nothing in the code checks
it. Of the types nothing is assumed. `ALLOWED_CONTENT_TYPES` is a setting of the API alone
(`config.py:41`), the worker's list is fixed (`pipeline.py:19`), and a type the API lists and the
worker does not know is admitted, queued and then refused; `JobHasObject` says that this is the
only reason for which the worker refuses what the API has stored.

The ingest lock's value is a constant and nothing deletes the key, so it is modelled by its
existence. A put that raised may have stored the object; objects nobody refers to are left behind,
as in the code.
`InsertJob` includes what follows a unique violation: the SELECT runs inside the aborted
transaction and fails. `RateLimit` follows requests of one tenant (tenants share no key)
through the clock read, `INCR`, and `EXPIRE`; `wiped` is a history variable, the
windows whose key a Redis restart lost.

## 3. Runs

Twelve runs; the configuration has the run's name.

| Run | Question | Bounds |
|---|---|---|
| `pipeline_race` | Do the inductive invariant, `NothingLost` and the ledger hold, is a review row there exactly when needed, is every attempt paid for with a receive, is `dead` final until a redrive, when two workers and the redrive tool race? | 1 job, 2 message slots, 2 workers, 1 redrive run, 2 receives, 2 attempts, 2 verdicts |
| `pipeline_pubsub` | Does settling a batch at its end lose anything, with two jobs, of which one is refused by validation? Is it the same ledger? | 2 jobs, 2 slots, 2 workers, batches of 2, 1 attempt, 2 verdicts; starts when the refused job has been published, one message, and nothing was pulled |
| `pipeline_serial` | With one worker: does a decided job stay succeeded, and is every sent job decided or dead-lettered? | 1 job, 2 slots, 1 worker with batches of 2, 1 redrive run |
| `desk_lease` | While sweeps are undisturbed (`SweepsUndisturbed`, an action constraint): does the desk implement `ClaimLease`, and does a resolution keep its verdict and its reviewer? | 1 review, 2 reviewers, 2 requests, 1 dashboard, time 0..3, claims of 1 tick |
| `desk_live` | Without that condition: does nobody take a review over from the reviewer who has it, and does an abandoned claim end? | as above with 1 request |
| `ingest` | One job per content, queued means sent, the worker refuses what the API admitted only for a type it does not know, every upload answered | 3 uploads, by file or URL, declaring one of 3 types: one both lists have, one only the API's has, another; 2 contents: a PNG of the largest size, and bytes that tell no type and are too many; 2 polls |
| `analysis` | What may be settled without a human | default thresholds; every image kind, caption, provider; scores on both sides of the thresholds, and 95 in place of 0.95 |
| `rate_limit` | The limit of a window, the reason for a refusal, `Retry-After` | 3 requests, limits 0 to 2, three windows of 2 ticks |
| `pipeline_persist`, `desk_release`, `desk_sweep`, `ingest_race` | Findings, below: each violates one statement the repository makes | |

Why the bounds are enough to be interesting. Jobs interact only through message slots
and batches, so races on one job need one job, and loss in a batch two: one that may fail next to
one that is acknowledged. Starting after the refused job's publish removes only the order of the
two uploads, which share nothing before their messages meet in a batch. Two copies of a
message are what a visibility timeout together with a redrive produces; the second slot
also lets a resend follow a crash of the first. Two workers are the least that can
disagree. With two receives a job is redelivered, fails again and reaches the dead-letter
queue; `dead` and the dead-letter queue are then reached in either order. On the desk one
tick of lease within three of clock lets a claim lapse, be taken by the other reviewer
and lapse again while a first request is still between two commands. Three uploads make
one winner, one poller and one that finds the lock expired; the two contents sit on either side of
the size limit and of the sniffing, and the three types on every side of the two lists. In `rate_limit`, three
requests exceed the limit of two, and the windows allow a request to be counted late.
In `pipeline_pubsub` a `VIEW` identifies states that differ only in how an upload ended, or in
a publish for which no slot is left; no guard can tell them apart. Symmetry is used only in
runs of safety properties, over sets no definition singles out an element of.

Every property of a passing run has a mutant in `PROJECT.json`: a plausible bug in one
definition (a dropped guard, an off-by-one, another order) with which the same run finds
the property violated. The mutated forms stand next to the definitions and are used by
nothing else.

What the properties need:

- `SerialWorkerAgrees` is stated for one worker process: with two it is false, which is
  what `pipeline_persist` shows. It also excepts jobs whose upload was refused: there
  the API writes `failed` over whatever the worker wrote.
- `DeadIsFinal` needs receives equal to attempts, as deployed (3 and 3; the run uses 2 and
  2), and is about jobs that were sent once: a redrive with `--skip-db` sends a dead job back
  to work without resetting its row.
- `AttemptsPaid` is about jobs sent once as well. It counts, for one message, the attempts
  made and those that workers holding it may still begin; without the second number it would
  not notice an attempt begun twice on one receive until both had been counted. `attempts` is the
  capped one, so the statement is weaker where receives exceed attempts.
- `ResolvedIsFinal` says more of the row than `ImplementsLease`, to which approved and rejected
  are both "closed": the same reviewer's second click may not change the verdict.
- `WindowLimit` counts a request in its window only if it was also counted there:
  a request delayed past its window increments a key that may have expired and started
  again. Its window is then over, and later windows have keys of their own.
- `AutoMeansConfident` states what the code does for a hard vision signal: the confidence
  compared with the block threshold is the classifier's, even when what it suggested was
  to allow.
- `RulesHoldPolicyText` is about the rules; a verdict of the OpenAI classifier is not
  checked against the patterns by the code.
- `UnreadableGoesToHuman` is about the configured local provider.
- `NothingLost` excepts jobs whose object validation refuses: they are acknowledged undecided
  on purpose.
- `ImplementsLease` and `ResolvedIsFinal` are about sweeps that are undisturbed: `desk_sweep` shows
  what the others do. `NeverTakenOver` and `NotStranded` need no such condition.
- `QueuedIsSent` names its exception: the upload died between its commit and its send
  (`ingest_service.py:168`). Nothing in the code finds such a job again.
- `JobHasObject` needs `SettingsAssumption`, which is about the size limit only.

### Fairness

- Workers (`pipeline_serial`): a running worker keeps executing its loop (`while not
  _shutdown`), each process on its own, so `WF` on receiving and on the rest. Nothing is assumed
  about success: every attempt may raise, every ack may fail, the worker may crash for ever.
- SQS: timeouts pass and the redrive policy is applied (`WF`). Neither the API nor
  an operator is obliged to do anything.
- Pub/Sub: none. Without a receive limit a job that always fails circulates for ever, and the
  code promises no end to it.
- Desk (`desk_live`): the clock runs; open dashboards poll (`apps/dashboard/src/App.tsx`)
  and not every poll fails, so `WF` on starting and `SF` on the sweep, which an `Abort` can
  disable over and over. Nothing is assumed about reviewers.
- Ingest: an accepted request is run to its end (`WF` on its steps).

## 4. Findings

Found while modelling; each run ends in the counterexample.

| Run | Code | What happens |
|---|---|---|
| `pipeline_persist` | `apps/worker/worker/pipeline.py:86` | The second of two workers on a job sets it to `processing` after the first one persisted; its own persist conflicts and returns, and the decided job stays `processing`. The docstring promises decision and success atomically. |
| `desk_release` | `apps/api/app/redis_client.py:73` | `release_review_claim` reads the owner, the lock expires and is taken, and the `DELETE` removes the other reviewer's lock. |
| `desk_sweep` | `apps/api/app/review_claims.py:24` | A claim renewed between the sweep's read and its write is returned to pending. |
| `ingest_race` | `apps/api/app/ingest_service.py:153` | The upload that loses the insert race gets a server error, never the "race resolved" answer. |

The lease survives the second of these, because the row decides and not the lock
(`desk_lease` includes that behaviour). It does not survive the third, which is why
`desk_lease` has the condition that nobody claims or resolves a row under a sweep. The sweep's
UPDATE does not ask for the status either, so the row it returns may even have been resolved
meanwhile. What is left then is `NeverTakenOver`.

For three of the four there is a theorem that says when the promise does hold (section 5): no two
workers at work on one job (`ExclusiveWorkersPersist`), no lock gone between the `GET` and the
`DELETE` (`UndisturbedReleaseDropsOwn`), no row claimed or resolved under a sweep
(`UndisturbedSweepFreesExpired`). For the fourth, `OutlastingLockPreventsRace` says when the
branch that gives the wrong answer is not reached.

Smaller disagreements met on the way and present in the models, without a run of their
own: the result of `EXPIRE` is ignored, so a claim may go on with another reviewer's
renewed lock (`redis_client.py:50`, `:62`); the expiry test is `<=` in a Python helper no
route calls and `<` in SQL (`review_claims.py:39`); resolving checks the lock before the UPDATE and not with it
(`routes/review.py:180`); a content whose upload failed answers 409 "in progress" until
the 120 seconds of the lock are over (`ingest_service.py:86`); a confidence out of range fails
the job instead of falling back to the rules (`adapters/llm.py:119`, `:177`); a crash
between `INCR` and `EXPIRE` leaves a counter without an expiry (`rate_limit.py:92`).

## 5. Proofs

TLAPS checks the following for every value of the constants: any number of jobs, messages,
workers, redrive runs, uploads, requests and reviews, every set of verdicts, every threshold and
limit. The assumptions are the `ASSUME`s of the modules: limits are positive, review
verdicts are verdicts, the null values differ from the others, thresholds and replies are
integers, the requests of a tenant are finitely many, the worker's size limit is no smaller than
the API's.

Some theorems have a hypothesis besides. It is either on the constants (`OneWorker`,
`MaxReceives <= MaxAttempts`, `UnreadableIsSoft`), and then the deployment or the defaults satisfy
it or the theorem says it is a special case, or it is a condition on behaviours
(`JobExclusive`, `SweepUndisturbed`, `ReleaseUndisturbed`, `LockOutlasts`) that the code does not
ensure by itself. The latter say on what timing a promise rests: the repository's documents
make it without the condition, and where the condition fails a run shows what happens.

`JobPipelineProofs`:

| Theorem | Says |
|---|---|
| `TypeCorrect` | `Spec => []TypeOK` |
| `Inductive` | `Spec => []IInv` |
| `NothingIsLost` | an undecided job that reached the queue keeps a message that can still be received |
| `DecisionsAreImmutable` | the first decision of a job stands |
| `ReviewRows` | a review row exists exactly for decisions that need one |
| `SucceededJobsAreDecided` | a job shown as succeeded has a decision |
| `LedgerImplemented` | the pipeline implements `DecisionLedger` |
| `ExclusiveWorkersAgree` | as long as no two workers are at work on one job (`JobExclusive`), a decided job stays succeeded |
| `OneWorkerAgrees` | in particular with one worker process |
| `ExclusiveWorkersPersist` | under `JobExclusive`, a job that `persist_envelope` returned from is succeeded |

The argument for `NothingIsLost`. By itself it is not inductive: a step that deletes a message
must know why it may. `IInv` adds three facts. `InHand`: processes hold only messages that were
sent, and a slot never goes back to `free`, so the job in it stays the same while
somebody holds it. `AckJustified`: a worker at `ack` has seen its job decided, or its object
refused, and neither can be undone. `CopyKept`: besides being live, the copy of an undecided
job is not the one a redrive run is about to delete; `Resend` puts a second copy on the main
queue before `Remove`, and that copy is no run's `cur`. Each conjunct is preserved by every
action given the others; the proof has one lemma per group of actions. `ReviewRows` needs
only the type invariant, because the one statement that writes decisions writes review rows.
`LedgerImplemented` combines it with `AckJustified`: what is persisted is a verdict, and a review
row that stood before its decision would make `Decide` differ from `PersistEnvelope`.

`ExclusiveWorkersAgree` adds what a worker has learnt on its way (`SerialInv`). Between `start` and
`persist` its job is undecided, because it looked (`lookup`) and nobody else is at
work on it; in the failure path it is unfinished, so the unconditional UPDATE of `mark_failed`
cannot overwrite a success; and the redrive tool's UPDATE has its own condition. With a second worker
the first of these is what fails. `JobExclusive` is a condition on the deployment or on timing:
one worker process gives it, and so does a visibility timeout that no attempt outlasts together
with a single message per job.

`DeadLetterProofs`: `AttemptsArePaid` and `DeadJobsStayDead`. Two counters in two systems decide
that a job is finished: SQS counts receives, PostgreSQL attempts. `PaidInv` relates them: for a job sent
once, attempts made plus workers that still may begin one (`Holders`) are at most the receives used
up, where a message that left the main queue has used all. A receive raises the right side
and adds one holder; `StartAttempt` turns a holder into an attempt; a crash, a loss or an exception only
lowers the left side; `Expire` changes neither, so an old holder is still counted when another worker
receives the message. The rest of `PaidInv` makes the count sound: copies and
holders are finitely many, a job has no attempts before it is sent, and nobody has a message both in
hand and waiting in the batch. With no more receives than attempts, whoever finds
`attempts >= max_attempts` has then seen every receive used and nobody holding the message.
`DeadIsExhausted` keeps that fact while the worker is at `mark` and as long as the job is
`dead`, and `DeadJobsStayDead` follows: only a holder can set a job to `processing`. The deployed
values are 3 (`infra/localstack-init.sh`) and 3 (`max_attempts` in `001_init.sql`).

`PubSubProofs`: the same for Pub/Sub (`TypeCorrect`, `Inductive`, `NothingIsLost`, `ReviewRows`,
`LedgerImplemented`), and `DecisionsAreImmutable`, here as a consequence of the ledger. The invariant differs, because an ack is used long after it was earned:
`AckJustified` also covers every message in `settled[w].ack`, and `GoneIsFinished` says that only
messages of decided or refused jobs ever left the subscription, whoever acknowledged them
and however late. `NothingIsLost` follows at once: what is not gone can still be pulled.

`IngestProofs`: `TypeCorrect`, `OneJob`, `QueuedWasSent`, `JobsHaveObjects`. The invariant records what
a request has found out at each step: past the checks its content may enter, past the put its
object is stored with its own type, past the insert the row of its content names it, and a job that
was sent belongs to the request that owns the row. `RowInv` says in turn that a row's upload is an
upload of that content. The lock appears nowhere in the argument: the UNIQUE constraint
carries it alone. `OutlastingLockPreventsRace` says what the lock adds: if the key of a content does
not go while an upload of it stands between its lookup and its insert (`LockOutlasts`: no expiry and
no Redis restart then), at most one upload at a time places it and no insert meets a
row that is already there, so the branch of `ingest_race` is never reached.

`RateLimitProofs`: `TypeCorrect`, `LimitHolds`, `DenialIsJustified`, `RetryLeadsOn`. The invariant
counts: a key's counter never exceeds the requests of its window that reached Redis, a key
does not expire inside its own window, and while the window lasts and Redis keeps the key
the counter covers every request it let in.

`ReviewDeskProofs`:

| Theorem | Says | Under |
|---|---|---|
| `TypeCorrect` | `Spec => []TypeOK` | |
| `UndisturbedLease` | the desk implements `ClaimLease` | `SweepUndisturbed` |
| `ClaimsNeverTakenOver` | the desk implements `ClaimLease` with leases that may be taken away | |
| `UndisturbedSweepFreesExpired` | a sweep returns only claims that have run out | `SweepUndisturbed` |
| `UndisturbedResolutionStands` | a resolution keeps its verdict and its reviewer | `SweepUndisturbed` |
| `LockNeverHandedOver` | the claim lock never passes from one owner to another without having been gone | |
| `UndisturbedReleaseDropsOwn` | a release deletes its own reviewer's lock only | `ReleaseUndisturbed` |

What a step of the refinement needs from the past is small: a request's time is not in the future,
its reviewer and review are known, and what a sweep has read and not yet written has lapsed or
is pending (`StaleLapsed`). The last is kept as long as no row that was read is claimed or resolved
before the write (`SweepUndisturbed`; another sweep may well free it). Without it the lease is
broken, which is the finding of `desk_sweep`, and `ClaimsNeverTakenOver` says what stands all the
same: its proof is that of the lease, with `FreeStale` mapped to `Revoke`. `LockNeverHandedOver` rests on `SET NX` and needs no
hypothesis: it is what reduces the finding of `desk_release` to a lock that
vanishes between the two commands.

`AnalysisProofs`: `AnalysisTyped`; `AutomaticIsConfident`, that an outcome without review had
the confidence `route_decision` asks for; `PolicyTextHeld`, that text a policy pattern
matches is not released by the rules. They rest on `StageInv`, which says that a verdict
is the routing of what is stored, and that what the rules stored is their answer to
the text stored. `UnreadableHeld`: with thresholds
that leave the heuristic's score of 0.5 soft (`UnreadableIsSoft`; the defaults of
`config.py`, 0.85 and 0.45 for nudity, 0.80 and 0.40 for violence, do), an image the local provider cannot
read goes to a human, whichever classifier answers. Its invariant, `UnreadableScored`,
follows the score from the adapter to the routing.

Only model-checked: liveness under fairness (`EventuallySettled`, `NotStranded`,
`EveryUploadAnswered`), which is beyond the prover. Every invariant and every action property of a
passing run, and each refinement, is also a theorem, under the hypotheses named above.

## 6. Not modelled

- Decisions, audit and metrics endpoints (`routes/metrics.py`, `routes/audit.py`,
  `prometheus_export.py`, the lists of decisions in `routes/review.py`): queries nothing acts on. The
  metrics' two counts are taken at two instants, which is listed as a hazard; no document says
  what they should add up to.
- Dashboard (`App.tsx`): its requests are those of `ReviewDesk` and its timer is the fairness there.
  What it shows between two refreshes has no statement to be checked against, and its composition
  with the desk, with two overlapping refreshes, exceeds nine million states on the smallest
  interesting instance. The hazards of its merge and its stale selection are listed without a
  property.
- `audit_log`: nothing reads it to decide anything. That a review resolved just before a failure
  has no audit row (`routes/review.py:240`) is therefore a hazard without a property.
- URL checks (`validate_image_url`, `is_blocked_ip`): a function of the URL and of DNS,
  abstracted to a refusal that may always happen. Slow downloads: they delay other requests and
  change no state.
- Object storage clients and URL signing, telemetry, the evaluation harness, the sample tools,
  deployment files: I/O or offline scripts without shared state.
- Pydantic and JSON decoding of message bodies: the API is the only sender.

## 7. Plan

The pipeline came first, because everything the system decides passes through it; then the desk,
where people race; then ingest, analysis and rate limit; then Pub/Sub, admission and the ledger; then
the proofs of every state machine, of the two counters and of the conditions under which the
findings do not arise. What is left:

1. `JobPipeline` and `ReviewDesk` composed over the review row.
2. An analogue of `DeadIsFinal` for Pub/Sub, if the repository comes to say what `dead` means there.
3. `JobExclusive` derived from a visibility timeout no attempt outlasts and a single message per
   job, instead of taken as a hypothesis.
