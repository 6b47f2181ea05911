# Kritika in TLA+

Kritika reviews pull requests. One Go binary, `kritika serve`, runs in one or more replicas on
one PostgreSQL database: every replica serves webhooks and the dashboard and works job queues
(River), and the replica that holds the leader lock has further duties. A review or an index is
built by a runner, a Kubernetes Job the worker launches and watches, which calls models through
the gateway with a token of its run.

This directory holds TLA+ modules translated from the source, the TLC configurations that check
them on small instances, and proofs TLAPS checks. `PROJECT.json` maps every definition to its
lines, lists the runs, the mutants each property must catch, the hazards and the findings.

    tlc -workers 2 -config MCReviewJob.cfg MCReviewJob
    tlapm ReviewJobProofs.tla

The other proof modules are `SpendingProofs`, `IndexGenerationsProofs`, `PublishProofs`,
`ReviewsProofs`, `ServeProofs`, `OperateProofs` and `OrdersProofs`.

## Inventory

Paths are below `src/internal` unless they begin with `cmd` or `charts`.

| Component | State it keeps | Operations | What is hard | What makes it correct |
|---|---|---|---|---|
| Review job: `worker/review.go`, `supervise.go`, `store/reviews.go` | `reviews`, `runner_runs`, the gateway token, the Kubernetes Job, the head's commit status | `Review.Work`: begin, admit, start, launch, record, judge, publish, end; `supervise` | a cancel, timeout, drain or push at any point; calls of four systems, each of which may fail; retries | a review ends once and ends; a head shown pending is answered; an ended run cannot spend |
| Heartbeats and the Rescuer: `worker/heartbeat.go`, `worker/rescue.go`, `store/rescue.go` | `job_heartbeats`, River's job rows | list abandoned jobs, rescue, report; list orphaned runs, reap | it acts on lists read before; a leader may die between calls | only the dead are rescued and reaped; a job is worked no more often than it may |
| Queue: `jobs/jobs.go`, `jobs/actions.go` | `river_job`, unique keys | insert, re-run, cancel, forced reindex | uniqueness differs by kind and by state | one completed review of a head; nothing dropped that should be queued |
| Index jobs: `worker/index.go`, `worker/onboard.go`, `runner/index.go`, `store/indexgen.go`, `store/index.go`, `store/similar.go` | `index_runs`, `index_chunks`, `index_schema`, `repositories.active_index_run_id` | build, step, activate, advance, sweep, clear; onboard; `EnsureIndexSchema` | updates and forced rebuilds run side by side; pushes are absorbed by running jobs; the embedder changes under both | what a review searches is one commit's tree; the index reaches the tip |
| Model slots and caps: `store/lease.go`, `worker/agentic.go` | `model_leases`, usage | acquire, heartbeat, release, `CapReached` | a lease expires under a stalled holder; caps count completed reviews only | one owner per slot; bounded overshoot of a cap |
| Publish phase: `worker/publish.go` | comments and threads on the forge, `findings`, `sticky_comments` | sticky comment, inline review, resolve, approve | forge writes before database writes; what a retry repeats | no comment without a row; nothing said twice |
| Follow-ups, threads, dismissals: `worker/followup.go`, `worker/thread.go`, `store/dismissals.go` | `followups`, `dismissals` | answer, dismiss, pause, request a review; apply a resolution | a reply posted before it is recorded; rate limits under concurrency | one answer per comment; a dismissal lasts as long as its thread says |
| Intake: `ingest/service.go`, `poller/poller.go`, `store/pulls.go` | `pull_requests`, `poll_state` | `Service.Dispatch`, `Poller.Poll`, `pollTip` | deliveries lost, repeated, out of order; timestamps of one second | the head never moves back; what a webhook missed a poll finds |
| Gateway: `gateway/gateway.go`, `store/gateway.go` | `gateway_tokens` | mint, admit, reserve, step, charge, revoke | concurrent steps reserve before they know what they cost | spending beyond the budget is bounded; a revoked token spends nothing |
| Agent loop: `agent/loop.go`, `runner/runner.go` | the conversation, the budget left | step, tool, submit | ends by budget, steps, time or submission | a submission is made once, within the budget |
| Executor: `executor/kube.go`, `executor/sweep.go` | Secrets, Jobs, pods | launch, watch, delete, sweep | Secrets swept by age during a launch; statuses that cannot be read | no Secret outlives its run; none is swept in use |
| Leader: `store/leader.go`, `cmd/kritika/main.go` | an advisory lock's connection | try, ping, lead, stop the duties | a lost connection is noticed at the next ping | duties of two leaders overlap for that long at most |
| Notifications: `store/notify.go` | a queue of 1024, one owed reconnect | listen, publish, drop | overflow, reconnect | a consumer never stays stale |
| Configuration: `configfile`, `store/configsync.go`, `store/register.go` | accounts, repositories | load, overlay, check, apply, report drift | five scopes, each checked alone and used together; replicas with different files | what runs is what was checked; what the leader applied is what its file says |
| Authentication: `auth`, `store/auth.go` | `login_states`, `identities`, `users`, `sessions` | begin, callback, session, sign out | replicas of different files; first sign-ins at once; a callback repeated | no session outlives what the file grants; one user for a person |
| Dashboard: `webapi`, `web/src/lib` | the hub's streams, the page's lists | stream, refetch, load more | answers out of order, rows that move between pages | a page catches up; a list leaves nothing out |
| What a review builds on: `worker/review.go`, `worker/incremental.go`, `review/scope.go` | the last completed review, patch ids | skip, full or incremental | rebases, heads that cannot be fetched, bots | no line is left unreviewed by all |
| What a review is given: `repoconfig`, `worker/repoconfig.go`, `runner/agentic.go`, `review/prompt.go` | none | merge, collect, fit | shared budgets, commits to the base meanwhile | the admin's bounds stand; what is cut is said |
| What a review answers: `review/findings.go`, `worker/publish.go` | findings | parse, split, resolve | the model's numbers against a diff with gaps | every finding is accounted for |
| Transcripts: `transcript`, `store/transcripts.go` | `model_calls` | record, rebuild | rows lost, late, twice, masked differently | what is shown is what was said |
| A replica's life: `cmd/kritika/main.go`, `server` | the process | start, ready, drain, stop | routed to while it stops; bounds within bounds | deliveries find the webhooks; steps are answered, and a cut job has all its time before it is given up |
| Text: `chunk`, `contextpack`, `prfilter`, `textcut` | none | cut, parse, render | inputs, not states | — |

How they interact: a webhook or the poll moves a pull request's row and inserts a review job in
the same transaction; River hands it to one replica, whose worker opens the review and the run,
mints the token and launches the Job; the runner writes its findings to the database and spends
through the gateway; the worker revokes, records, judges and publishes. The leader's Rescuer
does for a dead worker what it would have done. A push to the default branch queues an index job
in the same way, and reviews search the active generation it leaves.

## Modules

| Module | Models | Checked by | Proved in |
|---|---|---|---|
| `ReviewJob` | the review jobs of one pull request, with River and the Rescuer | `MCReviewJob` | `ReviewJobProofs` |
| `IndexGenerations` | the index of one repository | `MCIndexGenerations` | `IndexGenerationsProofs` |
| `LapsingSemaphore` | what slots promise: the abstract specification of `ModelLease` | `MCSpending` | `SpendingProofs` |
| `ModelLease` | an account's slots on its models, and its daily cap | `MCSpending` | `SpendingProofs` |
| `RunBudget` | tokens and budgets of runs, the gateway, the agent's loop | `MCSpending` | `SpendingProofs` |
| `Publish` | the publish phase of a pull request's reviews, thread jobs, dismissals | `MCReviews` | `PublishProofs` |
| `Rereview` | what one review builds on: skips, scope, prior review | `MCReviews` | `ReviewsProofs` |
| `Transcript` | a run's recorded calls | `MCReviews` | `ReviewsProofs` |
| `Answers` | what becomes of submitted findings | `MCReviews` | `ReviewsProofs` |
| `Intake` | webhooks and the poll | `MCServe` | `ServeProofs` |
| `Mentions` | the jobs that answer comments | `MCServe` | `ServeProofs` |
| `LiveView` | from a trigger to the page of the dashboard | `MCServe` | `ServeProofs` |
| `Leader` | the leader lock, its tenures, the configuration they apply | `MCServe` | `ServeProofs` |
| `KubeRun` | a run's Secret, Job and pod | `MCServe` | `ServeProofs` |
| `SignIn` | sign-ins and sessions | `MCOperate` | `OperateProofs` |
| `Listing` | the dashboard's lists and their pages | `MCOperate` | `OperateProofs` |
| `Config` | the layers of the configuration | `MCOperate` | `OperateProofs` |
| `Briefing` | what a review is given | `MCOperate` | `OperateProofs` |
| `Rollout` | pods from start to stop | `MCOperate` | `OperateProofs` |
| `Orders` | selections and stable sorts of lists, without recursion | `MCReviews`, `MCOperate` | `OrdersProofs` |

How they fit. Where components share state they are in one module: `ReviewJob` holds the worker,
River, the Rescuer, the token and the Job together, `IndexGenerations` the two kinds of index
job with webhooks, poll and rollout, `ModelLease` the slots with the four kinds of job that take
them, `RunBudget` the loop with the gateway, `Publish` the reviews with the people and the
thread jobs, `Intake` the webhooks with the poll and the counters, `LiveView` the listener, the
hub and the page. Each of the later modules opens a step of `ReviewJob` up: `Rereview` and
`Briefing` what begins a run, `KubeRun` the launch and the watch, `RunBudget` and `Transcript`
what a run does, `Answers` and `Publish` its end. Between these no variable is shared, and an
`MC` module is their sum: its `Init` gives one `part` its bounds and leaves the others nothing
that may happen, so its state space is the sum and not the product of theirs.

### ReviewJob: the review jobs of one pull request

| Variables | In the code |
|---|---|
| `head`, `former`, `early` | `pull_requests.head_sha`, the heads before it, and how reviews ended without a run |
| `jstate`, `jhead`, `manual`, `attempt`, `asked` | a `river_job` row: state, arguments, attempt, a cancel asked for |
| `pc`, `ctx`, `res` | the goroutine in `Review.Work`: its next call, why its context ended, how the run ended |
| `rev`, `run`, `token`, `kube` | `reviews`, `runner_runs`, the gateway token and the Kubernetes Job, of each job's attempt |
| `status`, `mute` | the commit status on the forge; heads whose closing status was lost |
| `lpc`, `ljobs`, `lruns`, `lcur` | the leader in `Rescuer.Rescue`: its next call and the lists it read |
| `disturbed`, `faults` | bounds only |

Each step of `Work` is one call to the database, the forge or Kubernetes, and what the worker
decides before the next; between two of them anything else may happen. `DeliverCancel`,
`Timeout` and `Stop` end the worker's context: its next call on that context fails, while calls
the code makes on a detached one (recording, finishing, publishing) go on. `Crash` ends the
worker without a trace; what it launched runs on. The Rescuer's pass is split at every call as
well, so a list may be stale when used, and `LeaderDies` may come between any two.

Assumed: a heartbeat goes stale only when its replica is dead (six beats are missed before); one
leader pass at a time; River, which is not under `src`, fetches, retries, snoozes and settles as
its documentation says and its cleaner (24 hours) does not run. `mute` collects the heads whose
closing status was lost for good: a status call the forge refused or that was made on an ended
context, a job River cancelled before `Work` saw the mark, an error on the last attempt before
the review was started, a leader that died between rescue and report, a queued job that was
cancelled. The publish phase is one step here, several in `Publish`: it publishes a review,
publishes that the head was not fully reviewed, or fails.

### IndexGenerations: the index of one repository

| Variables | In the code |
|---|---|
| `tip`, `hooks`, `recent` | the default branch on the forge, its webhooks on the way, `PollState.Delivered` within the lookback |
| `embedding`, `files`, `schema` | the embedder of the newest file, of the files running replicas read at their start, and of `index_schema` |
| `active`, `status`, `commit`, `model`, `chunks` | `repositories.active_index_run_id`, `index_runs`, `index_chunks` |
| `state`, `attempt`, `pc`, `w` | the job of each kind (update, forced rebuild), and its worker in `Index.Work` with what it holds in variables |
| `missed`, `beside` | what an update ended without having seen, and whether a rebuild ran beside it: they say what `PushesAreIndexed` excuses |
| `faults`, `rebuilds`, `changes` | bounds only |

A chunk is a path, the commit that last changed it and the embedder, so a generation's chunks
can be compared with the tree of the commit it claims. `w` keeps what the code read early and
uses late: the active generation, its commit and the tip. Run ids nothing refers to are used
again, which changes nothing a run of the program could see. `Rollout` changes the file:
replicas read it at their start only, and with the chart's default strategy
(`charts/kritika/values.yaml`, surge one, take none down) the old replica drains while the new
one works.

Left out: the lease on the embedder (a wait without effect on the index; it is in `ModelLease`),
disabled repositories and the sweep of their indexes, `.kritika.yaml` and the globs it adds,
repositories that are removed, and an embedder of other dimensions, whose insert fails as in
`InsertFails`, told apart from one of the same dimensions by nothing but the choice between
`Embed` and `InsertFails`.

### ModelLease and LapsingSemaphore

A row of `model_leases` is `lease[key][slot]`, its owner and whether its expiry is still to
come; `held` is the slot the `Lease` in a process's memory names; `job` and `search` are where a
job's worker and its agent's search stand. `TakeLease`, `Release`, `Renew` and `Expire` are the
statements of `store/lease.go`, `Admit`, `Caps` and `Acquire` what `review.go`, `agentic.go` and
`base.go` do with them.

`LapsingSemaphore` is what the comment in `store/lease.go` promises: permits that may lapse
under a holder who works on. `ModelLease` implements it twice, `ReviewSlots` and `EmbedSlots`,
`INSTANCE`s with the holders read off `held` and the lost ones off `lease`; `SlotsAreASemaphore`
is their two `Spec`s, checked step by step. Expiry is a step without time: a row that nobody
renews expires at some point, one that is renewed only by `Lapse`, a fault.

### RunBudget

`token`, `spent`, `budget` are a row of `gateway_tokens`; `call` the requests of a run at the
gateway, each at its step between admission and answer and `heard` while the runner still waits;
`loop`, `step`, `stop`, `used`, `nudged`, `again` the variables of `Run.Do`; `row` the record
the runner writes; `month` the account's usage. `paid` is a history: what the answers cost.
Tools other than the search are part of `Handle`: they change nothing the gateway sees.

### Publish, Rereview, Transcript, Answers

`Publish` numbers comments as the forge posts them; `stickies`, `threads`, `summary`, `approved`
are the forge's side, `stored`, `last`, `known`, `dismissed` the database's, `rv` what each
running review holds, read at its start and used at its end. Every call is a step, fails or
loses its answer, and the review may be lost after any; `Gesture`s are what people do on the
forge meanwhile. A finding is its fingerprint. An answer may have several of one, since nothing
from `Parse` to the rows removes such pairs; `inline` is what the review posts, a thread for each,
and `alike` bounds how many. A thread's `by`, the review that opened it, is a history. A
fingerprint keeps one severity here.

`Rereview` gives each path of a tree its version, so a diff is the paths whose versions differ
and a patch id is the diff itself. `Push`, `Rebase`, `BaseCommit`, `Rerun` are the outside;
`Begins` to `Publish` the worker and the runner.

`Transcript` knows a message by its place in the conversation and by what the replica's mask
made of it. `StartRecord`, `AgentState`, `InsertModelCall` are one recording, with other calls'
in between; `Rebuild` is what the dashboard's reader gets.

`Answers`: a finding is where it points, its severity and what it would put there; `Parse`
filters, clears and orders as `review/findings.go` does, `Submit` is the worker's way with the
result: `splitDropped`, `dropDismissed`, what is told as resolved of the prior review it builds
on, if it builds on one, and whether it approves. What is posted of it is `Publish`'s.

### Intake, Mentions, LiveView, Leader, KubeRun

`Intake`: the forge's versions of each pull request are numbered (`hist`), a webhook is the
version it carries (`mail`, delivered in any order, twice, or lost), `row` is `pull_requests`,
`polled` `poll_state`, `poll` the pass under way with what it has listed. The clock counts half
seconds, since the forge's times are whole ones and the poller's are not.

`Mentions`: `job` is River's job and the place of its attempt, `answers` the `followups` row,
`replies` the marked comments on the forge. The reply is posted before it is recorded, and an
attempt may die in between.

`LiveView`: `wire` is what Postgres sent, `queue` and `dropping` the listener's, `stream` the
hub's client, `page` and `loads` the browser's. An event only says that something changed.

`Leader`: `lock` is the server's view, `tenure` each replica's, `deaf` those whose session the
server has lost and who do not know it. `config` is what was last applied.

`KubeRun`: `run` has the row, the worker's place, and Secret, Job and pod in the cluster; a call
may fail undone, or be done and unanswered. `sweep` is a pass of the leader's with its list.
Time is ticks: deadlines, the TTL of finished Jobs, the age at which the sweep takes a Secret.

### SignIn, Listing, Config, Briefing, Rollout

`SignIn`: `auth` is each replica's file; a request is at a place with what it has read, so two
callbacks interleave between `ConsumeLoginState`, the user's creation and the session's. A
callback whose state is gone, or bound to another cookie, is refused and clears the cookie.

`Listing`: the tables' rows move (`pulls` by update, `reports` by completing out of the order of
creation), `list` is the browser's `Paged`, `replies` the answers under way.

`Config`: `doc` is the file as written, `env` its overlay, `running` what replicas started with.
An admin edits one key at a time; what `Parse` refuses is never run. The checks are the code's
own, scope by scope, and `Effective` and `Sources` are computed apart from each other as there.

`Briefing`: a file is its name and its size, `tip` and `pull` are commits of the base branch and
the pull request with its merge base, `brief` is what the worker read at its start and the
runner then gave the model. A unit stands for each header and note, so budgets are exact in
units. Collecting files, giving rules and instructions and fitting the diff are walks: a step's
operator (`Read`, `AddRule`, `Instruct`, `AddFile`) and the function that takes it for each of a
list.

`Rollout`: a pod's process opens, migrates, reports ready, drains and stops in the order of
`serve`, against ticks since it was told to stop; Kubernetes creates, routes, terminates and
kills. A job that is cut takes as long as it likes to be handed back, and when its process ends
before, it waits for the Rescuer (`ReviewJob`). A pod's name is used again once nothing is left of
the earlier one.

## Runs

| Run | Question | Distinct states |
|---|---|---|
| `ReviewEnds` | what reviews, runs, tokens and statuses may be left as | 537,851 |
| `ReviewsAnswered` | that reviews and runs end and heads are answered | 75,241 |
| `IndexBuilds` | what the generation reviews search may hold, and that it reaches the tip | 628,849 |
| `Spending` | that slots are a semaphore, and that caps and budgets hold | 270,759 |
| `Reviews` | what reviews leave on the forge, for the next one, and on record | 4,498,321 |
| `Serve` | that what is taken in, asked, shown, led and launched comes to its end once | 771,093 |
| `Operate` | that sign-ins, lists, settings, prompts and rollouts hold while they change | 1,488,838 |
| `SkippedHead`, `UnreviewedHead`, `HalfBuiltIndex`, `RewoundHead`, `Approval` | see Findings | violated |

Deadlock is not checked: when the bounds are used up and every job is over, the system rests, as
it does when nobody pushes.

### What they show

Of reviews (`ReviewEnds`, `ReviewsAnswered`): a job never has two open reviews
(`OneUnfinishedPerJob`); without a failed call no open review is out of reach of both its job
and the Rescuer (`NoStranding`); an ended run has neither a Job nor a token, and after one
failed call not both, of which spending needs both (`EndedRunCannotSpend`); the Rescuer never
touches the run of a live attempt (`ReapOnlyDead`); a pending head has someone who will replace
the status, but for `mute` (`PendingHeadHasWork`); what ended a review is the last word
(`EndedReviewsStayEnded`); reviews and runs end and heads are answered (`ReviewsAnswered`).

Of the index (`IndexBuilds`): the generation reviews search holds chunks of its own commit and
embedder only, and the whole tree unless the embedder was changed (`SearchedIsCurrent`); once
nothing is queued and nothing failed it is at the tip, except for a push that fell between a
job's last look and River's completion of it (until the next push, or until the webhooks pause
for the poll's lookback), or a forced rebuild that ran beside an update or instead of one
(`PushesAreIndexed`); and it reaches the tip in the end (`IndexCatchesUp`), provided a job has
more attempts than there are failures: a last attempt whose swap was committed and whose answer
was lost leaves the active run marked failed, at the tip, and then nothing queues another.

Of spending: `SlotsAreASemaphore`, the refinement; a day's cap is overshot by the slots but one
and by lapses (`CapOvershootBounded`); a run's three counts of its tokens agree, its budget is
overshot by one step and what was on its way, the month by what was admitted before
(`SpendingHeld`); no job waits for a slot and no run for a call for good (`JobsAndRunsEnd`).

Of a pull request's reviews (`Reviews`): one sticky comment, and the threads of a finding are of one
review, however often it is reported, lost or reviewed again, but for two reviews at once or an
unreadable forge; an answer that has a finding twice opens two (`OneOfEach`); an approval is
withdrawn by a review that finds something (`ApprovalWithdrawn`); what was dismissed before a review
began is not in it (`DismissedStaysOut`); a head that is reviewed incrementally, or skipped for a
bot's unchanged patch, was seen by the reviews it builds on (`LeftOutWasSeen`); what a reader of the
transcript gets is what was sent (`TranscriptRebuilds`); every submitted finding is kept, on lines
the diff shows, or listed or counted in the summary, and none that was dismissed, or reported again
on such lines, is told as resolved (`AnswersAccountedFor`).

Of serving (`Serve`): a recorded poll has found everything before it (`PollMissesNothing`);
automatic reviews are neither repeated nor beyond their number (`AutomaticReviewsCounted`);
heads are recorded and reviewed in the end (`HeadCatchesUp`); a mention is answered once
(`AnsweredOnce`), and it and every run's Secret come to their end (`NothingLeftBehind`); a
leader leads alone and its file is the one in force, but while a lost session is not yet noticed
(`LeadershipHeld`); a page catches up (`PageCatchesUp`); a Secret is there while its pod may
start, and no Job runs beyond its run (`PodsFollowTheirRun`).

Of operating (`Operate`): a session lets a person do no more than the replica's own file would
(`GrantsFollowTheFile`); sign-ins are single (`SignInsAreSingle`); lists leave nothing out
(`PagesLeaveNothingOut`); scopes, environment, apps and providers agree on what runs, and
`.kritika.yaml` stays in the admin's bounds (`SettingsHold`); what a review is not given is
said, and the prompt is within its budget (`NothingLeftOutUnsaid`); deliveries find the webhooks,
model steps are answered, and a job is given up only when it had the whole drain to end in and then
the whole headroom to be handed back (`RolloutLosesNothing`).

### Bounds, and why they are enough

Every bound is a constant: numbers in a `.cfg`, or a set of records, one for each kind of
trouble, in an `MC` module, since troubles are most telling a few at a time.

- Attempts: two (the code has eight for reviews, three for indexes) make every attempt either
  the last or not, which is all the code asks.
- `ReviewEnds`: two jobs of one head are an automatic one and a re-run, or an old head's and a
  new one's; two disturbances, of them one failed call, let a cancel race a drain, a crash race
  a push, a leader's death follow a worker's. `ReviewsAnswered` has one job and three
  disturbances.
- `IndexBuilds`: two paths and commits 0 to 2, each changing another path, make a full build, a
  step, a step that misses one and a step on a generation that has moved; one failure, forced
  rebuild or change of the embedder.
- `Spending`: two slots for two reviews, a follow-up and an index job, so that someone always
  waits and the embedder keeps a slot for searches; one lapse, death or failed release. One run
  with two connections, three steps, costs below and above the estimate, a budget that is passed
  by one step and a month that is passed before the budget; one fault.
- `Reviews`: three reviews one after the other, which is what it takes to find, lose and find a
  finding again, or two at once, with one blocking finding and perhaps a nit, up to three
  gestures and two faults; where faults are most, and two at once, an answer has up to two findings
  of a fingerprint. Two paths with two versions, two pushes or rebases with a failure, or
  with a commit to the base. Four calls with a lost row and one retry, or three with two
  retries. Two reviews of up to two of six findings, one for each way a finding is kept,
  cleared, listed or dropped.
- `Serve`: two repositories of which one is skipped, two changes of one, or a gap longer than
  the lookback of three ticks; three mentions at a limit of one an hour; a queue of two and a
  buffer of one, and changes to overflow both; two replicas with two files; one run, three
  failed calls and two deaths, with every duration a few ticks.
- `Operate`: two replicas, browsers and tabs, two accounts, four files that differ in one thing;
  three rows in pages of one; edits of three groups of keys; seven documents, four trees and three
  changes that collide in one way each, in budgets of a few units; two pods over two rollouts and an
  outage, or one and a death.

## Fairness

`ReviewJob`: weak fairness of each worker's steps (its goroutine runs on), of River's fetch and
completion, and of the Rescuer's pass (some replica is elected, and passes every
`rescueInterval`); strong fairness of `Admitted`, since leases are released or expire and a
settle time passes, so a snoozed review is not snoozed for ever. Nothing is assumed of the
forge, of a cancel's delivery, or of a disturbance.

`IndexGenerations`: weak fairness of each worker, of River, of the webhook's delivery or loss,
of the leader's onboarding, poll and schema duties and of the rolling update's end. `Quiet` is
fair too: with finitely many pushes the webhooks of a connection pause at some point, which the
poll of the tips waits for.

`ModelLease`: weak fairness of each job's own steps, of a search's end and of expiry; strong
fairness of `Admit`, `SearchStarts` and `Acquire`, which try again at jittered intervals (a
snooze, or `AcquireLease`'s back-off), so that one who tries meets a slot that is free again and
again.

`RunBudget`: weak fairness of minting, revoking, the loop, and the gateway's steps of each call.

`MCServe`: weak fairness of polling, of a mention's attempts, of the listener, the hub, the
stream, a refetch and a load's answer, of the clock and the sweep, of a run's worker and its end
in the cluster. Each is guarded by its `part`, so that it is fairness of the part the behaviour
is of. Losses, failures and people are never fair.

## Findings

1. `SkippedHead`. `afterRun` writes a skip's row, then its status on the job's own context. When
  a replica stops in between, the call fails, is logged, and the job completes: the head stays
  pending, though `worker/review.go:278` says a skipped review ends with a success status.
2. `UnreviewedHead`. The job of a failed review returns nil, so River completes it; completed
  jobs hold the unique key of a review job, so the poll's insert for the head is a duplicate
  until River's cleaner runs, though `store/pulls.go:129` says the poll picks such a head up
  again.
3. `HalfBuiltIndex`. During a rollout to another embedder of the same dimensions a new replica
  may begin a build before the leader drops the table. The build goes on in the new table and is
  made active though it was superseded and its first batches are gone, against "a review never
  sees a half-built index" (`worker/index.go:250`).
4. `RewoundHead`. The upsert of a pull request refuses an event older than the row's, but the
  forge's times are whole seconds: of two pushes in one second the older one's webhook,
  delivered last, records the old head (`store/pulls.go:56`), though the column's comment
  (`store/migrations/0001_init.sql:125`) says a delivery that arrives late or again cannot
  rewind the head. The pull request's next event mends it.
5. `Approval`. A finding on a line the diff does not show is listed in the summary, and the
  verdict, the counts and the approval are taken of the others (`worker/publish.go:310`): a
  review that found something blocking there says nothing blocking was found and approves,
  against `docs/repository-config.md:103`.

## Proofs

TLC looks at small instances; the theorems are about every value of the constants, under the
assumptions the modules state on them. Each rests on an inductive invariant: true at the start,
kept by every step, and implying the property. TLC has checked each of these on an instance.

`ReviewJobProofs` proves, for every set of jobs and heads, any number of attempts, disturbances
and failed calls (`FirstHeadAssumption`, `AttemptsAssumption`, `BudgetAssumption`):

| Theorem | States |
|---|---|
| `Inductive` | `Spec => []` of the type invariant and `Sound` |
| `TypeCorrect` | `TypeOK`; that a job's attempt stays within its bounds is the part that needs `Sound` |
| `OneUnfinished` | `OneUnfinishedPerJob` |
| `OnlyDeadReaped` | `ReapOnlyDead` |
| `StaysEnded` | `EndedReviewsStayEnded` |
| `NoneStranded` | `NoStranding` |
| `EndedRunsAreStopped` | `EndedRunCannotSpend` |
| `PendingAnswered` | `PendingHeadHasWork` |

None of these is inductive alone. `OneUnfinishedPerJob` is kept by `StartReview`, which ends
what earlier attempts left, and by nobody starting another, which depends on where the worker
is; `ReapOnlyDead` depends on a run on the leader's list not being the current attempt of a job
that is worked, however the job was claimed since. So `Sound` adds three facts: `QueueOK`, which
ties River's state, the attempt's number and the worker's being there or not; `RowsOK`, that an
attempt not yet started has no rows and that a worker inside its review has an unfinished one;
`ListOK`, that a listed run is of a past attempt or of a job at rest. The proof first shows that
each step of `Work` has one of a few shapes (lemma `Shape`), and then that each shape, and each
step of River, of the forge and of the leader, keeps each conjunct.

The last three theorems add an argument each to `Sound`. `NoStranding`: while no call has
failed, a job that is neither worked nor died over has no review that is not over (`RestOK`);
one that died is still running for River, so its job is live, and a run stays open until its
review is ended. `EndedRunCannotSpend`: each step of a running attempt says what is left of the
Job and the token and how many failed calls that took (`OwnSpend`), what the leader has stopped
of the run in its hands stays stopped (`LeadOK`), and an attempt that has not begun has neither
(`UnstartedSpend`). `PendingHeadHasWork`: a job's head is the pull request's or a former one
(`HeadOK`), and a head that shows pending has a job that has begun a review and not yet told how
it ended, or a leader that is about to (`AnswerOK`, `Owing`): stronger than the property, which
counts every job of the head.

`SpendingProofs` proves of `ModelLease`, for any finite sets of reviews, follow-ups and index jobs,
any number of slots, any cap and any number of faults (`JobsAssumption`, `SlotsAssumption`,
`LeaseBoundAssumption`):

| Theorem | States |
|---|---|
| `LeaseInvariant` | `LeaseSpec => []Inv`: the types, and `HeldOK` |
| `LeaseTyped` | `LeaseTypeOK` |
| `SlotsImplementSemaphore` | `SlotsAreASemaphore`: both refinement mappings of `LapsingSemaphore` |
| `CapOvershoot` | `CapOvershootBounded` |

The semaphore needs little to be inductive: `HeldOK`, that a process names a slot exactly while
its job, or its agent's search, is where it has one, so that nobody takes a second slot of a
model and nobody releases none. The rest is counting. Jobs that have not lost their slot are the
owners of different rows, so a row that is not live, which is what `TakeLease` takes and `Renew`
renews, leaves at most the other slots to them (`SpareSlot`): the permit taken or regained was
spare. A row that is freed or that expires is either its holder's own or one whose holder had
lost it already (`LeaveSlot`, `FlippedRow`): no third job loses a permit. The cap follows with
`Tallied`: each lapse loses at most one permit, so that the jobs at work are at most the slots
and the lapses, and a review that finds the cap not reached is one of them.

Of `RunBudget` it proves, for any finite sets of runs, connections and costs, any budget, monthly
limit and estimate, and any number of steps, resends and faults (`TokensAssumption`):

| Theorem | States |
|---|---|
| `SpendIsTyped` | `SpendTypeOK`: among others, that no refund takes what a run has spent below zero |
| `SpendingStaysHeld` | `SpendingHeld` |

`SpendingHeld` speaks of counts that have settled, or of bounds with room for what is on its way;
the invariant `SpendSound` says at every moment what that is. `BookSound`: what the answers cost
and the estimates of the calls reserved, less what is answered and not yet charged, is what the
token's row says, and each fault loses at most a call's excess over its estimate; that every
reserved call has its estimate in the row is why a refund takes no more than is there.
`LimitSound` counts whatever the calls asked for may cost as spent, since a call admitted is let
through on what the others have reserved, not on what they will cost. `LoopSound` is the agent's
side: it listens to one request at most, and what it has counted and what that request has cost
are in what was paid. `MonthSound` says the same of the account's calls under way. The amounts
are sums over calls, and they are counted without one: an unsettled answer of cost n is n pairs of
its call and a number, so that every amount is the cardinality of a set, to which a step of one
call adds, or from which it takes, what is that call's own (`OneCall`). `SpendingIsTyped` is
`TypeOK` of `MCSpending`, where a behaviour is of either module: both invariants hold of both.

`IndexGenerationsProofs` proves, for any tree, any history of it, any embedders and row ids, and
any number of attempts, failures, rebuilds and changes of the embedder (`ModelAssumption`,
`ChangedAssumption`, `CountAssumption`, and `RunAssumption`, that no id is `None`):

| Theorem | States |
|---|---|
| `IndexInvariant` | `Spec => []IInv`: the types and `Sound` |
| `IndexTyped` | `TypeOK` |
| `SearchedCurrent` | `SearchedIsCurrent` |
| `IndexFollowsPushes` | `PushesAreIndexed` |

`SearchedIsCurrent` speaks of the active generation only; what makes it hold is what workers do
to generations before they are active and beside them. `Sound` says of each worker that its run
is a row of the commit and embedder it indexes and not active before its swap (`OwnOK`), that the
run's chunks are those of the paths it covers but for the ones still to embed (`PartOK`), and that
the generation an update adds to is still at the commit it was at when the update looked
(`BaseOK`, which holds since only updates add to a generation and there is one at a time); and of
any two that their runs differ and neither builds on what the other is building (`Apart`). At the
swap of an update the old tree with the chunks of the changed paths replaced is the new tree
(`AdvancedTree`), which needs nothing of `Version` but what `Differ` says; that `Version` is a
commit at all is `VersionType`, by the least element of a set of numbers.

`PushesAreIndexed` speaks of an index at rest; `CaughtUp` says what a job at work must have seen
for it to be true when the job ends, as long as nothing failed and the embedder stayed. A rebuild
under way indexes the tip, or a webhook or an update is still to come (`FullOK`); an update that
runs beside no rebuild builds on the active generation and returns with it at the commit it
looked at last (`UpdateOK`); and with no webhook and no update to come the active generation is
at the tip (`TipOK`). That two kinds of job which have both begun are recorded as beside each
other (`BesideOK`) is what keeps the second fact the update's alone.

`PublishProofs` proves, for any findings, any number of reviews, one after the other or at once,
any number of gestures and faults, and any number of findings of one fingerprint in an answer
(`PublishAssumption`):

| Theorem | States |
|---|---|
| `PublishIsTyped` | `PublishTypeOK`: among others, that the comment remembered of a finding is one of its own threads |
| `ForgeShowsOne` | `OneOfEach` |
| `ApprovalsAreWithdrawn` | `ApprovalWithdrawn` |
| `DismissalsAreRespected` | `DismissedStaysOut` |

A review acts on what it read steps before, so each invariant says of every review under way what
it still may rely on. One about to create the sticky comment has seen none, and there is none
unless another created it meanwhile, which `raced` records (`StickySound`); one that will post a
finding it has no comment of has seen no thread of it, and there is none unless it could not look
or another posted (`ThreadSound`); a finding dismissed before a review started is on its list of
dismissed findings until it answers, and not among its findings after (`DismissalsSound`, from
`RecordDismissal` using a number past every review's); a blocking summary stands with an approval
only while a blocking review is on its way to its approvals (`ApprovalSound`). `ForgeShowsOne`
says whose the threads of a finding are, and not how many there are, as an answer may have it
twice: what a review posts is appended to the threads there are, and is all its own
(`PostedAppends`, `PostedOwners`), so a finding that had no thread has one review's after
(`PostsFirst`). That `Oldest` and `Newest` choose a member is `OldestIsOne`, by
well-foundedness of the numbers.

`ReviewsProofs` proves of `Rereview`, `Transcript` and `Answers`:

| Theorem | States |
|---|---|
| `NothingLeftOutUnseen` | `LeftOutWasSeen` |
| `RereviewIsTyped` | `RereviewTypeOK`: among others, that a review builds on an earlier one only |
| `TranscriptsReadBack` | `TranscriptRebuilds` |
| `TranscriptIsTyped` | `TranscriptTypeOK` |
| `AnswersAccounted` | `AnswersAccountedFor` |
| `AnswersIsTyped` | `AnswersTypeOK` |
| `ReviewsIsTyped` | `TypeOK` of `MCReviews` |

The first two hold for any documents
and base versions, any limits of a delta and any numbers of pushes, rebases, moves of the base,
jobs and failures (`RereviewAssumption`). A review's row says what it looked at: the whole pull
request but the ignored paths, or what changed since the completed review it builds on, an earlier
one (`RowsSound`); each worker holds what its row will say (`WorksSound`), and no two have the
same row (`Apart`). That every path a completed review owes a look had one, by it or by one it
builds on, is then a fact about the rows alone (`SoundRowsCover`): of the reviews that owe a path
to nobody take the earliest; it did not look at the path itself, so it is incremental and the path
did not change since its prior, which therefore owes it as well. `Chain` is a recursive function;
that there is one, which its unfolding needs, is `ChainFacts`.

A transcript reads back as sent for any masks, cap of a run, and any numbers of calls, lost rows
and retries (`TranscriptAssumption`). Each row is its call's delta on the state the row before it
left (`RowFollows`), because one call at a time has the lock and nothing was recorded since it
read that state (`LockHeld`). What the rows rebuild to is then right from the first one on: of the
rows a reader would get wrong take the earliest; the one before it reads right, and the delta on
what that left gives what was sent. `Rebuilt` is a recursive function as well (`RebuiltFacts`).

`AnswersAccountedFor` holds for any diffs, settings, given rules, and any findings an agent may
submit, however many (`AnswersAssumption`). A published review stays what it is, so the proof is
about what `Submit` computes. Every list there is the submitted one at some of its places, cleaned
or rearranged: what is kept, listed, counted and dismissed again have places of their own and
together have all (`AllCounted`). What is kept was shown where it points, and cleaning leaves no
end the diff does not show (`CleanShown`); sorting changes the order alone and leaves the more
severe first, because the stable order is one (`StablyOrders`, `ParseFacts`). What is told as
resolved is a prior finding that was not dismissed when the review began and is not among the kept;
what was reported on shown lines and not kept was dismissed by then, so it is none of those either.

`OrdersProofs` has what those proofs, and those of `Config`, need of lists, each definition of
`Orders` being a function on the places and not recursive. The nth element of a finite strict order
is the one with n - 1 below it (`Placed`: there is one, else take the least place without); so an
order lists every element once, ascending (`Listed`, `Ascends`), a selection has the elements at
the selected places and no other, in their order (`PickedFacts`, `PickedApart`), and a sort is a
rearrangement (`ArrangedFacts`).

`ServeProofs` holds the proofs about the five modules that `MCServe` adds up, and `ServeIsTyped`,
the `TypeOK` of their sum. It proves `RepliesAreSingle`, which states `AnsweredOnce`, for any
comments, attempts, faults, redelivered webhooks and hourly limit (`MentionAssumption`). `Tracked`
follows a comment's reply: an attempt past its check has a comment no row says is handled
(`Undecided`), and a posted reply that was not given up on is in the row, or the job is at a step
that records it or that looks for it before anything is posted (`ReplyFound`).

It proves `LeadersAreAlone`, which states `LeadershipHeld`, for any replicas, number
of configuration files and mishaps (`LeaderAssumption`, which also says that `Nobody` is not a
replica). `TenuresHoldTheLock` ties what a replica believes to what the server knows: a tenure
whose session was not lost holds the lock. Two tenures at once therefore have a deaf one among
them, and whoever applies a file beside a leader has lost its session.

It proves `RunsAndPodsAgree`, which states `PodsFollowTheirRun`, for any runs and
number of failed calls and deaths, and any durations of which the sweep's age is no less than a
launch and a Job's deadline together, or than the worker's own bound, and more than the settling
time (`KubeAssumption`). One half is about time: no Job of an open run is live when the sweep may
list it (`Timely`, `ListSound`), and rows do not reopen, so a list may be as old as it likes. The
other follows the worker (`Placed`, `Supplied`, `Stopped`). The proof showed that an exception
`StartingRunHasSecret` made, for a worker undoing its launch, was never used; it is gone.

Of `Intake` it proves, for any numbers of repositories, changes, losses, redeliveries, polls and
half seconds, any lookback and any limit of automatic reviews (`IntakeAssumption`):

| Theorem | States |
|---|---|
| `PollsMissNothing` | `PollMissesNothing` |
| `AutomaticReviewsStayCounted` | `AutomaticReviewsCounted`, an invariant and an action property |

`PollMissesNothing` speaks of the last recorded poll; the invariant speaks of the one under way
as well, because recording it makes it the last. What the database does not know of a pull
request happened after the last recorded poll began (`AheadOfPoll`), and of the repositories the
poll under way has passed, after this one began (`Passed`), but for the version it has listed and
not dispatched. A webhook late or repeated cannot spoil this, as a row once up to date and of the
version's own second takes nothing older. The limit: a count that has reached it goes with a pause
(`LimitPauses`), which every path that queues a review asks for.

Of `LiveView` it proves, for any sizes of the listener's queue, a stream's buffer and the loads
at once, and any numbers of changes, drops, cuts and failures (`LiveAssumption`), `LiveIsTyped` and
`NoChangeForgotten`: a page that does not show the current version shows an error, or has a refetch
due, a signal on the way to it, or a load that has read that version or has yet to read, unless the
listener had never connected. It is what makes `PageCatchesUp` true, of which only the fairness is
left to TLC. The invariant `Following` adds that a load of an older version has a signal behind it
(`LoadCurrent`), that so has a page (`PageCurrent`), that at most one load is the newest and only
that one is shown (`OneNewest`), and that what a full queue dropped is owed as a resync (`DropOwed`).

`OperateProofs` holds the proofs about the five modules that `MCOperate` adds up. Of `SignIn` it
proves, for any replicas, browsers, requests, files and role mappings
(`SignInAssumption`):

| Theorem | States |
|---|---|
| `OneUserOneSession` | `SignInsAreSingle` |
| `NoGrantOutlivesItsFile` | `GrantsFollowTheFile` |
| `SignInIsTyped` | `SignInTypeOK`: among others, that a session's user is one there is |

A login is in one place at a time, a state, a request or an issued session (`LoginsApart`); so is
a user that is being made, and at most one transaction makes one for an identity (`UsersApart`).
Grants are what some file decides of the person, the one the session's key was taken of
(`GrantsSound`); that a replica with another file of the same key decides no less for the accounts
it serves is a fact about `Decide` alone (`SameKeySameWord`).

Of the other modules it proves:

| Theorem | States |
|---|---|
| `NothingIsLost` | `RolloutLosesNothing` |
| `ModelsStayResolved` | `ModelsResolve`, of `SettingsHold` |
| `SourcesTellTheTruth` | `KeysAgree`, of `SettingsHold` |
| `RulesTellTheTruth` | `SourcesAgree`, of `SettingsHold` |
| `EntriesKeepStanding` | `EntriesStand`, of `SettingsHold` |
| `ListsLeaveNothingOut` | `PagesLeaveNothingOut` |
| `SwitchesStayBounded` | `SwitchesBounded` of every briefing, of `SettingsHold` |
| `AdminsRulesComeFirst` | `AdminsBoundsStand`, of `SettingsHold` |
| `WhatIsLeftOutIsSaid` | `NothingLeftOutUnsaid` |
| `OperateKeepsSettings` | `SettingsHold` of `MCOperate` |
| `OperateIsTyped` | `TypeOK` of `MCOperate` |

`NothingIsLost` is for any finite set of pods, any number of replicas but none, rollouts, outages
and deaths, and any durations, in ticks, that stand to each other as the chart's and the code's do
(`RolloutAssumption`: the lag of the endpoints is less than the linger, a model step takes at most
what is waited for it, there is a headroom, and the grace period is as long as either drain; nothing
is assumed of how long a job takes, cut or not), where `NoPod` is not a pod (`PodAssumption`). Each
drain is a race between two clocks, so the invariant relates them: a pod that is routed to has been
stopping for no longer than the lag (`RoutedServe`) and is open for the linger (`Open`); one whose
gateway answers a step has been stopping for less than the linger and the step's age (`StepInTime`);
one whose job was cut has been stopping for the soft stop and the time since the cut, which is the
headroom by the time the pod is gone (`JobInTime`). From the first ready pod on one is always ready
and one routed to (`SomeReady`), since a pod is told to stop only when that leaves enough.

Of `Config` the theorems hold for any apps, owners, vendors, settings and edits
(`ConfigAssumption`). Their invariant is no more than that what runs was accepted (`ConfigSound`):
`Deploy` is the one step that changes what runs. All else is what acceptance is worth. Each check is
of one scope, made with the providers of one account, and a setting is laid together of three; so
that a model resolves follows scope by scope (`SoundResolves`), a scope that leaves the model alone
passing on one that the scope before it had. `Settings` and `Sources` walk the scopes apart, and
agree on each (`SoundSources`); so do `Settings` and `RuleScopes` on each rule, whose place a
narrower scope's rule of the same id takes (`RulesLaid`, `SoundRules`). What is refused of a file
depends on its apps through the connections alone (`SoundEntries`), so that an entry which stands
goes on standing.

Of `Briefing`, for any documents, settings, trees, changes and budgets (`BriefingAssumption`), the
invariant (`BriefingSound`) says only where a review's settings, inputs and message are from: the
settings are what `Merge` made of the admin's of then and the document at the merge base of then,
and the rest is what these gave its change, whatever was committed, pushed or deployed since. All
else is about the operators. `MergeBounded` is about `Merge`, for every document and every settings
of an admin. The budgets are walks over lists, written as recursive functions; a walk exists and
takes its steps (`Walked`, by counting up from a shorter one: `Counting`, which is the least number
at which a claim fails), so what a step does (`KeepFacts`, `AddRuleFacts`, `InstructFacts`,
`AddFileFacts`) adds up to what the walk comes to (`CollectedSaid`, `ActiveRulesSaid`,
`InstructionsSaid`, `FitDiffFacts`).

- That nothing is left out unsaid (`InputsAreSaid`) follows a name through the walks: read, or noted
  and refused from then on, since the total only grows (`Later`, `ReachedLater`). The message is in
  its budget or just what it opens with (`Continues`), and each further section has what room is
  left (`Roomy`).
- That `.kritika.yaml` crowds out no rule of the admin's compares two walks. The names of the
  admin's rules are the first, and a file refused there is refused in the longer walk as well, even
  when a later name is the same file: so both give the admin's rules the same text (`ReadAlike`).
  What is given of these is then settled before the first of the others comes, though they share
  the budgets (`ActiveAlone`).

Of `Listing`, for any finite tables, filters, size of a page and numbers of changes, refetches,
pages, queries and failures (`ListingAssumption`): a page is the next rows of the order, or up to
where its cursor says (`PageRead`, from `Listed`), but only at the moment it is read, and rows move
after. So the invariant says of every page of the list's query, under way or shown, what moves do not
change: its rows are there still or moved, and what comes after the cursor it was asked with is on
it, moved, or after its own (`Stands`). What the shown pages leave out is then after the last one's
cursor (`Covered`), or slid off the first page; one further page at most is under way, asked for
after what is shown (`Follows`), and when it lands the rest is after its cursor. That keys tell rows
apart, which is what hiding a row shown already relies on, holds of each query (`AllRowsApart`).

Only model-checked, and why:

- Liveness: fairness is stated with ENABLED.
- `HeadNeverRewinds` and the other properties of the runs that expect a violation, which are false
  of the code.

## Not modelled

For good: chunking, context packs and templates (text without state: what of it reaches a review
is cut to size in `Briefing`), the forge and model clients, metrics and read-only pages, which
keep no state of their own: what they change is the database's or the forge's and is modelled
where it is called.

Of the components that are modelled in part, `PROJECT.json` says what is left out. Limits a
reader should know:

- Stalls. A worker that stalls past six beats without dying is excluded by assumption: the code
  takes it for dead and its job is worked twice. The write that ends a review may fail on a job
  that then returns nil, and the row is stranded; `NoStranding` speaks of behaviours without a
  failed call. A replica that dies after the review completed and before River has the result
  reviews the head twice. `reportEnded` may overwrite a success with an error status when the
  review was published just before its worker died.
- Clocks. Ties within a second are excluded from `PollMissesNothing` and `HeadCatchesUp`; so is
  a change later in the very second in which a recorded poll began, which, with its webhook
  lost, no later poll lists.
- `Publish`, `Answers`. A finding dismissed while a review runs may be raised by it once more,
  or be listed as unanchored. A prior finding that is reported again, on a line the diff does
  not show, is told as resolved and its thread resolved (`ResolvedOf`), and so is one that the
  prompt had no room for, since what `Trim` left in it is not what the worker compares with: by
  `review/findings.go:149` and `worker/publish.go:356` resolved means asked for and not reported.
  `AnswersAccountedFor` claims it only of what was reported on lines shown; no run shows the
  disagreement, and `Prompt.Trim`'s cut of the prior findings is left out. So is the cap on the
  pack's diff (`noteDiffNotKept`). A prior finding without a thread is posted again; two findings
  of a fingerprint in one answer are two threads.
- `Rereview`. The runner compares head trees: what a new merge base or other ignore globs bring
  into the diff, without a change of the head's files, is not re-reviewed; nor is a finding
  dismissed and then restored. A bot's patch may be skipped because another review of it was
  under way, which then fails. `LeftOutWasSeen` allows for these.
- `Briefing`. `Instructions` (`repoconfig/repoconfig.go:314`) says that it reports when the cap cut
  the instructions short, but when some just fill the room the files after them are left out and
  `truncated` stays false; `NothingLeftOutUnsaid` allows for this (`JustFilled`). The blank lines
  between instructions, and a rule's id, count for nothing. Prior findings, dismissed ones and
  references are cut from the prompt without a note. A system prompt that leaves the message exactly
  nothing gives it the whole default instead (`review/prompt.go:266`, `OrDefault`). The list of
  changed files and the names of omitted ones have no bound, so the budget does not hold for very
  many files. A follow-up may use an older text of a rule's file that is missing at the new merge
  base. The repository's rules never crowd out the admin's; its references may.
- `Listing`. A refetch of the first page may push rows off it that the next page, asked for with
  an old cursor, does not have; "load more" before a new query's first page came uses the old
  query's cursor; a finding reported again is a new row beside the old one.
- `LiveView`. The listener's first connection owes no resync, so a change before it under an
  open stream is never announced.
- `Transcript`. The dashboard reads a run's rows by time and then step
  (`store/web_reads_review.go:303`), the property by step alone.
- `Config`. Entries that differ in case only, egress, tools and the embedder's settings are left
  out; `ignore: []` counts as written in `Sources`.
- `KubeRun`. One run; a Job whose creation was not answered may run to its deadline; a creation
  that takes effect long after its call was given up is excluded.
- `Rollout`. `exit` returning while the pod is still starting, a second signal, and a file of a
  version with newer migrations are left out; a queue that gives up counts as the pod's death.
  How long a cut review takes to be handed back is not assumed: the bounds the comment at
  `cmd/kritika/main.go:315` counts, 20 + 20 + 10 + 40 seconds, are all of the headroom, and
  `recordRun` and `finishEnded` come after on contexts of their own, so one that takes each bound in
  full is still at it when its process ends, and waits for the Rescuer as the comment says.

## Plan

Every invariant that a passing run checks has its theorem. What is left is beyond the provers, as
said above, or not modelled: of the components modelled in part, what `PROJECT.json` names.
