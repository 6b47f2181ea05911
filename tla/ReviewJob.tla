----------------------------- MODULE ReviewJob -----------------------------
(***************************************************************************)
(* The life of the review jobs of one pull request: the River job, the     *)
(* worker attempt that works it (internal/worker/review.go), the reviews   *)
(* and runner_runs rows the attempt writes, the commit status it keeps on  *)
(* the head, and what takes the job away from it: a newer head, a cancel   *)
(* from the dashboard, River's timeout, a stopping replica, a replica that *)
(* dies, and the leader's Rescuer (internal/worker/rescue.go) that hands   *)
(* back the jobs and reaps the runs a dead replica left.                   *)
(*                                                                         *)
(* One database transaction or one forge call is one step, in the order    *)
(* the code makes them, so a crash or another actor may come between any   *)
(* two.  The rows of attempt n of job j are rev[j][n] and run[j][n]: an    *)
(* attempt starts at most one review, and a snooze gives its number back.  *)
(***************************************************************************)
EXTENDS Naturals, FiniteSets

CONSTANTS
    Job,          \* the jobs that may be queued for the pull request
    HeadSHA,      \* the head commits it may have
    FirstHead,    \* the head it was opened with
    MaxAttempts,  \* jobs.reviewAttempts
    Disturbances, \* what may disturb the reviews, of the kinds below
    MaxDisturbances,  \* how many there may be in all, failed calls included
    MaxFaults         \* how many database, forge or cluster calls may fail

\* A push to the pull request, a re-run from the dashboard or by "@bot
\* review", a cancel, a job timeout, a replica's soft stop, a replica's
\* death, and the leader's death or loss of its lock.
Disturbance == {"push", "rerun", "cancel", "timeout", "stop", "crash", "leader"}

ASSUME FirstHeadAssumption == FirstHead \in HeadSHA
ASSUME AttemptsAssumption  == MaxAttempts \in Nat \ {0}
ASSUME BudgetAssumption    ==
    Disturbances \subseteq Disturbance /\ MaxDisturbances \in Nat /\ MaxFaults \in Nat

VARIABLES
    head,      \* pull_requests.head_sha
    former,    \* the heads a push has replaced
    jstate,    \* river_job.state, "absent" before it is inserted
    jhead,     \* the job's ReviewArgs.HeadSHA
    manual,    \* whether its Trigger is manual
    attempt,   \* river_job.attempt
    asked,     \* river_job.metadata ? 'cancel_attempted_at'
    pc,        \* where the attempt working the job stands in Review.Work
    ctx,       \* the job's context, and the cause it ended with
    res,       \* what the executor returned for the attempt's run
    rev,       \* reviews.status of the job's attempts
    run,       \* runner_runs: open until finished_at is set
    token,     \* whether the run's gateway token is live
    kube,      \* whether the run's Kubernetes Job is there, unfinished
    early,     \* statuses recorded for a head by reviews that never ran
    status,    \* the commit status kritika last set on each head
    mute,      \* heads whose closing status was lost (see Silence)
    lpc,       \* where the leader stands in Rescuer.Rescue
    ljobs,     \* the AbandonedJobs it listed and has not handled yet
    lruns,     \* the OrphanedRuns it listed and has not reaped yet
    lcur,      \* the one job it reports, or run it reaps, as a set
    disturbed, \* how many disturbances there were
    faults     \* how many of them were calls that failed

prVars     == <<head, former, early>>
jobVars    == <<jstate, jhead, manual, attempt, asked>>
workVars   == <<pc, ctx, res>>
rowVars    == <<rev, run, token, kube>>
statusVars == <<status, mute>>
leadVars   == <<lpc, ljobs, lruns, lcur>>
bounds     == <<disturbed, faults>>
vars == <<prVars, jobVars, workVars, rowVars, statusVars, leadVars, bounds>>

-----------------------------------------------------------------------------
Attempt    == 1..MaxAttempts
LiveStates == {"available", "retryable", "scheduled", "running"}
EndStates  == {"completed", "cancelled", "discarded"}
Unfinished == {"running", "prepared"}
Finished   == {"completed", "superseded", "skipped", "failed", "canceled"}
EarlyEnds  == {"skipped", "failed", "capped"}
None       == "none"

\* How a run ended, as the executor and supervise tell it.
Results == {"ok", "failed", "superseded", "lost"}

\* Steps of Review.Work: before StartReview, after it, and Work's return.
Beginning == {"begin", "admit", "earlyend", "earlyfail"}
Launching == {"started", "spec", "launch", "exec"}
Judging   == {"ran", "record", "recordcanceled", "superseding", "after"}
Ending    == {"ending", "failing", "failrow", "failingerr", "failrowerr"}
Published == {"publish", "published", "incomplete"}
Closing   == {"endstatus", "skipstatus", "errstatus"}
Returned  == {"retok", "reterr", "retsnooze"}
InReview  == Launching \cup Judging \cup Ending \cup Published
InWork    == Beginning \cup InReview \cup Closing
PC        == InWork \cup Returned \cup {"idle", "dead"}

PrTyped ==
    /\ head \in HeadSHA /\ former \subseteq HeadSHA
    /\ early \in [HeadSHA -> SUBSET (EarlyEnds \cup {"superseded"})]
JobTyped ==
    /\ jstate \in [Job -> LiveStates \cup EndStates \cup {"absent"}]
    /\ jhead \in [Job -> HeadSHA] /\ manual \in [Job -> BOOLEAN]
    /\ attempt \in [Job -> 0..MaxAttempts] /\ asked \in [Job -> BOOLEAN]
WorkTyped ==
    /\ pc \in [Job -> PC]
    /\ ctx \in [Job -> {"live", "canceled", "timeout", "stopping"}]
    /\ res \in [Job -> Results \cup {None}]
RowTyped ==
    /\ rev \in [Job -> [Attempt -> Unfinished \cup Finished \cup {None}]]
    /\ run \in [Job -> [Attempt -> {None, "open", "ended"}]]
    /\ token \in [Job -> [Attempt -> BOOLEAN]]
    /\ kube \in [Job -> [Attempt -> BOOLEAN]]
StatusTyped ==
    /\ status \in [HeadSHA -> {None, "pending", "success", "error"}]
    /\ mute \subseteq HeadSHA
LeadTyped ==
    /\ lpc \in {"idle", "rescue", "report", "reap", "revoke", "endrun"}
    /\ ljobs \subseteq [job: Job, attempt: Attempt, asked: BOOLEAN]
    /\ lruns \subseteq (Job \X Attempt)
    /\ lcur \subseteq (Job \X Attempt)
BoundTyped == disturbed \in 0..MaxDisturbances /\ faults \in 0..MaxFaults

TypeOK == PrTyped /\ JobTyped /\ WorkTyped /\ RowTyped /\ StatusTyped /\ LeadTyped /\ BoundTyped

Spend(d) ==
    /\ d \in Disturbances /\ disturbed < MaxDisturbances
    /\ disturbed' = disturbed + 1 /\ UNCHANGED faults

Init ==
    /\ head = FirstHead /\ former = {}
    /\ jstate = [j \in Job |-> "absent"]
    /\ jhead = [j \in Job |-> FirstHead]
    /\ manual = [j \in Job |-> FALSE]
    /\ attempt = [j \in Job |-> 0]
    /\ asked = [j \in Job |-> FALSE]
    /\ pc = [j \in Job |-> "idle"]
    /\ ctx = [j \in Job |-> "live"]
    /\ res = [j \in Job |-> None]
    /\ rev = [j \in Job |-> [n \in Attempt |-> None]]
    /\ run = [j \in Job |-> [n \in Attempt |-> None]]
    /\ token = [j \in Job |-> [n \in Attempt |-> FALSE]]
    /\ kube = [j \in Job |-> [n \in Attempt |-> FALSE]]
    /\ early = [h \in HeadSHA |-> {}]
    /\ status = [h \in HeadSHA |-> None]
    /\ mute = {}
    /\ lpc = "idle" /\ ljobs = {} /\ lruns = {} /\ lcur = {}
    /\ disturbed = 0 /\ faults = 0

-----------------------------------------------------------------------------
(* What the code reads of the rows, and the writes it shares.              *)

Row(j) == <<j, attempt[j]>>

\* The statuses the reviews of head h ended with (store.HeadReviewed).
Ends(h) == early[h] \cup {rev[j][n] : j \in {i \in Job : jhead[i] = h}, n \in Attempt}
Reviewed(h) == Ends(h) \cap {"completed", "capped"} # {}
Settled(h)  == Ends(h) \cap {"completed", "capped", "skipped", "canceled"} # {}

LiveJobOf(h) == \E j \in Job : jhead[j] = h /\ jstate[j] \in LiveStates

\* River's unique key of an automatic review job of h is taken: by a live
\* job, or by a completed one River has not cleaned up yet.
Duplicate(h) == \E j \in Job :
    ~manual[j] /\ jhead[j] = h /\ jstate[j] \in LiveStates \cup {"completed"}

\* A job inserted for head h: one River has not used yet, so that Job bounds
\* how many are queued in all.
Insert(h, byHand) ==
    \E j \in Job :
        /\ jstate[j] = "absent"
        /\ j = CHOOSE i \in Job : jstate[i] = "absent"
        /\ jstate' = [jstate EXCEPT ![j] = "available"]
        /\ jhead' = [jhead EXCEPT ![j] = h]
        /\ manual' = [manual EXCEPT ![j] = byHand]
        /\ UNCHANGED <<attempt, asked>>

\* MUTANT of EndReview: a canceled review's row is left as it was.
EndReviewUnlessCanceled(j, s) ==
    rev' = IF s = "canceled" THEN rev ELSE [rev EXCEPT ![j][attempt[j]] = s]

\* EndReview of the attempt's own review, whatever its status was.
EndReview(j, s) == rev' = [rev EXCEPT ![j][attempt[j]] = s]

\* MUTANT of EndUnfinished: what an earlier attempt left is kept.
KeepUnfinished(j) == rev[j]

\* The reviews of job j that nothing ended yet, ended as failed.
EndUnfinished(j) ==
    [n \in Attempt |-> IF rev[j][n] \in Unfinished THEN "failed" ELSE rev[j][n]]

Set(f, r, x) == [f EXCEPT ![r[1]][r[2]] = x]

Fault ==
    /\ faults < MaxFaults /\ faults' = faults + 1
    /\ disturbed < MaxDisturbances /\ disturbed' = disturbed + 1

\* A call made on the job's own context fails once that has ended, and
\* otherwise only by a fault.
Broken(j) == IF ctx[j] = "live" THEN Fault ELSE UNCHANGED bounds

\* SetStatus on head h.  A call the forge refuses is logged and forgotten.
\* A head is mute from the loss of a status that would have replaced the
\* pending one until the next status reaches it.
Lose(h) == mute' = mute \cup {h} /\ UNCHANGED status
Report(h, s) ==
    \/ /\ status' = [status EXCEPT ![h] = s]
       /\ mute' = mute \ {h}
       /\ UNCHANGED bounds
    \/ Fault /\ Lose(h)

-----------------------------------------------------------------------------
(* The forge, the dashboard and River.                                     *)

\* A push the forge delivers: the pull request's row moves to the new head
\* and the head's review is queued, unless one has seen it already.
Push ==
    /\ Spend("push")
    /\ \E h \in HeadSHA \ {head} :
        /\ head' = h
        /\ former' = former \cup {head}
        /\ IF Reviewed(h) \/ Duplicate(h) THEN UNCHANGED jobVars ELSE Insert(h, FALSE)
    /\ UNCHANGED <<early, workVars, rowVars, statusVars, leadVars>>

\* The pull request opened, a webhook for it delivered again, or the poller
\* listing it, once its own answer is that the head needs a review.
Redeliver ==
    /\ ~Reviewed(head) /\ ~Duplicate(head) /\ Insert(head, FALSE)
    /\ UNCHANGED <<prVars, workVars, rowVars, statusVars, leadVars, bounds>>

Poll ==
    /\ ~Settled(head) /\ ~Duplicate(head) /\ Insert(head, FALSE)
    /\ UNCHANGED <<prVars, workVars, rowVars, statusVars, leadVars, bounds>>

\* The dashboard's re-run, or "@bot review": jobs.EnqueueRerun.
Rerun ==
    /\ Spend("rerun")
    /\ Ends(head) \cap Unfinished = {} /\ ~LiveJobOf(head)
    /\ Insert(head, TRUE)
    /\ UNCHANGED <<prVars, workVars, rowVars, statusVars, leadVars>>

\* The dashboard's cancel of a review (jobs.RequestCancel): River takes a
\* job that is not running off the queue, and only marks a running one.
RequestCancel(j) ==
    /\ Spend("cancel")
    /\ \E n \in Attempt : rev[j][n] \in Unfinished
    /\ jstate[j] \in LiveStates
    /\ asked' = [asked EXCEPT ![j] = TRUE]
    /\ IF jstate[j] = "running"
       THEN UNCHANGED <<jstate, mute>>
       ELSE /\ jstate' = [jstate EXCEPT ![j] = "cancelled"]
            /\ mute' = mute \cup {jhead[j]}
    /\ UNCHANGED <<prVars, jhead, manual, attempt, workVars, rowVars, status, leadVars>>

\* What ends an attempt's context.  Work is not interrupted: its next call
\* on the context fails, and it asks for the cause.
EndCtx(j, cause) ==
    /\ pc[j] \in InWork /\ ctx[j] = "live"
    /\ ctx' = [ctx EXCEPT ![j] = cause]
    /\ UNCHANGED <<prVars, jobVars, pc, res, rowVars, statusVars, leadVars>>

DeliverCancel(j) == asked[j] /\ EndCtx(j, "canceled") /\ UNCHANGED bounds
Timeout(j)       == Spend("timeout") /\ EndCtx(j, "timeout")
Stop(j)          == Spend("stop") /\ EndCtx(j, "stopping")

\* The replica working j dies.  Its heartbeat goes stale; what it started
\* runs on.
Crash(j) ==
    /\ Spend("crash")
    /\ pc[j] \in InWork \cup Returned
    /\ pc' = [pc EXCEPT ![j] = "dead"]
    /\ ctx' = [ctx EXCEPT ![j] = "live"] /\ res' = [res EXCEPT ![j] = None]
    /\ UNCHANGED <<prVars, jobVars, rowVars, statusVars, leadVars>>

\* The Kubernetes Job of a run nobody watches ends by itself, or at its
\* deadline.
JobEnds(j, n) ==
    /\ kube[j][n] /\ ~(attempt[j] = n /\ pc[j] = "exec")
    /\ kube' = [kube EXCEPT ![j][n] = FALSE]
    /\ UNCHANGED <<prVars, jobVars, workVars, rev, run, token, statusVars, leadVars, bounds>>

Fetch(j) ==
    /\ jstate[j] \in {"available", "retryable", "scheduled"}
    /\ jstate' = [jstate EXCEPT ![j] = "running"]
    /\ attempt' = [attempt EXCEPT ![j] = @ + 1]
    /\ pc' = [pc EXCEPT ![j] = "begin"]
    /\ UNCHANGED <<prVars, jhead, manual, asked, ctx, res, rowVars, statusVars, leadVars, bounds>>

\* What River makes of Work's return.  A cancel that was asked for ends the
\* job, but for a last attempt's error that the cancel did not cause.
Outcome(j) ==
    IF pc[j] = "retok" THEN "completed"
    ELSE IF asked[j] /\ (pc[j] = "retsnooze" \/ ctx[j] = "canceled" \/ attempt[j] < MaxAttempts)
         THEN "cancelled"
    ELSE IF pc[j] = "retsnooze" THEN "scheduled"
    ELSE IF attempt[j] < MaxAttempts THEN "retryable" ELSE "discarded"

\* A job River ends on an error nobody reported leaves its head mute: one
\* cancelled by a mark Work never saw, or one whose last attempt failed
\* before it started a review.
Silenced(j) ==
    \/ Outcome(j) = "cancelled"
    \/ Outcome(j) = "discarded" /\ rev[j][attempt[j]] = None

Finish(j) ==
    /\ pc[j] \in Returned
    /\ jstate' = [jstate EXCEPT ![j] = Outcome(j)]
    /\ attempt' = IF pc[j] = "retsnooze" THEN [attempt EXCEPT ![j] = @ - 1] ELSE attempt
    /\ mute' = IF Silenced(j) THEN mute \cup {jhead[j]} ELSE mute
    /\ pc' = [pc EXCEPT ![j] = "idle"]
    /\ ctx' = [ctx EXCEPT ![j] = "live"] /\ res' = [res EXCEPT ![j] = None]
    /\ UNCHANGED <<prVars, jhead, manual, asked, rowVars, status, leadVars, bounds>>

-----------------------------------------------------------------------------
(* Review.Work.  Every step leaves the queue, the pull request's head, the *)
(* job's context and the leader alone.                                     *)

Step(j, from, to) ==
    /\ pc[j] = from
    /\ pc' = [pc EXCEPT ![j] = to]
    /\ UNCHANGED <<head, former, jobVars, ctx, leadVars>>

\* MUTANT of Fail: the deferred report on the last attempt is missing.
FailUnreported(j) == "reterr"

\* The step after an error Work returns once a review is started: on the
\* last attempt the deferred call reports it first.
Fail(j) == IF attempt[j] = MaxAttempts THEN "errstatus" ELSE "reterr"

\* Where a call that failed leads: the review ends with its context, or
\* else goes the way given.
Cut(j, otherwise) == IF ctx[j] = "live" THEN otherwise ELSE "ending"

\* begin finds the head superseded, and says so in a row only; or goes on.
Check(j) ==
    /\ ctx[j] = "live"
    /\ IF head = jhead[j]
       THEN Step(j, "begin", "admit") /\ UNCHANGED early
       ELSE /\ Step(j, "begin", "retok")
            /\ early' = [early EXCEPT ![jhead[j]] = @ \cup {"superseded"}]
    /\ UNCHANGED <<res, rowVars, statusVars, bounds>>

\* Every model slot is held, or the settle time is not over.
Snooze(j) ==
    /\ ctx[j] = "live" /\ Step(j, "admit", "retsnooze")
    /\ UNCHANGED <<early, res, rowVars, statusVars, bounds>>

\* end: skipped by the repository or as an unchanged bot patch, refused by
\* the configuration, or capped.
EndEarly(j, s) ==
    /\ ctx[j] = "live"
    /\ Step(j, "admit", IF s = "failed" THEN "earlyfail" ELSE "earlyend")
    /\ early' = [early EXCEPT ![jhead[j]] = @ \cup {s}]
    /\ UNCHANGED <<res, rowVars, statusVars, bounds>>

\* The status of that end goes out on the job's context.
ReportEarly(j) ==
    /\ \/ Step(j, "earlyend", "retok") /\ ctx[j] = "live" /\ Report(jhead[j], "success")
       \/ Step(j, "earlyfail", "retok") /\ ctx[j] = "live" /\ Report(jhead[j], "error")
       \/ /\ Step(j, "earlyend", "retok") \/ Step(j, "earlyfail", "retok")
          /\ ctx[j] # "live" /\ Lose(jhead[j]) /\ UNCHANGED bounds
    /\ UNCHANGED <<early, res, rowVars>>

BeginError(j) ==
    /\ Step(j, "begin", "reterr") \/ Step(j, "admit", "reterr")
    /\ Broken(j)
    /\ UNCHANGED <<early, res, rowVars, statusVars>>

\* store.StartReview, one transaction: an earlier attempt's review that
\* never finished is ended, the review and its run are inserted.
Start(j) ==
    /\ ctx[j] = "live" /\ Step(j, "admit", "started")
    /\ rev' = [rev EXCEPT ![j] = [EndUnfinished(j) EXCEPT ![attempt[j]] = "running"]]
    /\ run' = Set(run, Row(j), "open")
    /\ UNCHANGED <<early, res, token, kube, statusVars, bounds>>

SetPending(j) ==
    /\ Step(j, "started", "spec")
    /\ IF ctx[j] = "live" THEN Report(jhead[j], "pending") ELSE UNCHANGED <<statusVars, bounds>>
    /\ UNCHANGED <<early, res, rowVars>>

\* agentSpec mints the run's gateway token last.
Mint(j) ==
    /\ ctx[j] = "live" /\ Step(j, "spec", "launch")
    /\ token' = Set(token, Row(j), TRUE)
    /\ UNCHANGED <<early, res, rev, run, kube, statusVars, bounds>>

\* agentSpecFailed ends the run, or fails to.
SpecFails(j) ==
    /\ Step(j, "spec", Cut(j, "failingerr"))
    /\ \/ Broken(j) /\ run' = Set(run, Row(j), "ended")
       \/ Fault /\ UNCHANGED run
    /\ UNCHANGED <<early, res, rev, token, kube, statusVars>>

Launch(j) ==
    /\ ctx[j] = "live" /\ Step(j, "launch", "exec")
    /\ kube' = Set(kube, Row(j), TRUE)
    /\ UNCHANGED <<early, res, rev, run, token, statusVars, bounds>>

LaunchFails(j) ==
    /\ Step(j, "launch", "ran") /\ Broken(j)
    /\ res' = [res EXCEPT ![j] = "failed"]
    /\ UNCHANGED <<early, rowVars, statusVars>>

\* The executor returns.  The run ended by itself, or supervise or the
\* job's context ended it and its Kubernetes Job is deleted, if that call
\* does not fail.
RunEnds(j, r) ==
    /\ Step(j, "exec", "ran")
    /\ ctx[j] = "live" \/ r = "failed"
    /\ r = "superseded" => head # jhead[j]
    /\ res' = [res EXCEPT ![j] = r]
    /\ \/ kube' = Set(kube, Row(j), FALSE) /\ UNCHANGED bounds
       \/ r # "ok" /\ Fault /\ UNCHANGED kube
    /\ UNCHANGED <<early, rev, run, token, statusVars>>

\* The token is revoked, then the cause of the context's end is read: a
\* cancel that comes later is not this canceled.
Revoke(j) ==
    /\ Step(j, "ran", IF ctx[j] = "canceled" THEN "recordcanceled" ELSE "record")
    /\ \/ token' = Set(token, Row(j), FALSE) /\ UNCHANGED bounds
       \/ Fault /\ UNCHANGED token
    /\ UNCHANGED <<early, res, rev, run, kube, statusVars>>

\* How a recorded run is judged when no cancel was read.
Judged(j) ==
    CASE res[j] = "ok" -> "after"
      [] res[j] # "ok" /\ ctx[j] = "stopping" -> "ending"
      [] res[j] = "superseded" /\ ctx[j] # "stopping" -> "superseding"
      [] OTHER -> "failing"

Record(j) ==
    /\ \/ Step(j, "record", Judged(j)) /\ UNCHANGED bounds
       \/ Step(j, "recordcanceled", "ending") /\ UNCHANGED bounds
       \/ Step(j, "record", IF Judged(j) = "ending" THEN "ending" ELSE "failing")
          /\ Fault  \* the agent's row could not be read
    /\ run' = Set(run, Row(j), "ended")
    /\ UNCHANGED <<early, res, rev, token, kube, statusVars>>

\* The run could not be recorded: it stays open for the Rescuer, and the
\* error is River's to retry unless a cancel was read.
RecordFails(j) ==
    /\ Step(j, "record", Fail(j)) \/ Step(j, "recordcanceled", "ending")
    /\ Fault
    /\ UNCHANGED <<early, res, rowVars, statusVars>>

Supersede(j) ==
    /\ Step(j, "superseding", "retok")
    /\ EndReview(j, "superseded")
    /\ UNCHANGED <<early, res, run, token, kube, statusVars, bounds>>

\* afterRun: the head is read again, then the review is skipped or prepared.
AfterRun(j) ==
    /\ ctx[j] = "live"
    /\ \/ head # jhead[j] /\ Step(j, "after", "retok") /\ EndReview(j, "superseded")
       \/ head = jhead[j] /\ Step(j, "after", "skipstatus") /\ EndReview(j, "skipped")
       \/ head = jhead[j] /\ Step(j, "after", "publish") /\ EndReview(j, "prepared")
    /\ UNCHANGED <<early, res, run, token, kube, statusVars, bounds>>

\* An error of afterRun's, which ran on the job's context.  Without an end
\* of that, River retries the job and the review is left running.
AfterRunFails(j) ==
    /\ Step(j, "after", Cut(j, Fail(j))) /\ Broken(j)
    /\ UNCHANGED <<early, res, rowVars, statusVars>>

ReportSkip(j) ==
    /\ Step(j, "skipstatus", "retok")
    /\ IF ctx[j] = "live" THEN Report(jhead[j], "success") ELSE Lose(jhead[j]) /\ UNCHANGED bounds
    /\ UNCHANGED <<early, res, rowVars>>

\* publishPhase.run, detached: it writes the review back, or the comment
\* that says why the head was not fully reviewed, or fails.
Publish(j) ==
    /\ \/ Step(j, "publish", "published") /\ Report(jhead[j], "success")
       \/ Step(j, "publish", "incomplete") /\ Report(jhead[j], "error")
       \/ Step(j, "publish", Cut(j, "failing")) /\ UNCHANGED <<statusVars, bounds>>
    /\ UNCHANGED <<early, res, rowVars>>

\* What was published could not be persisted.
PersistFails(j) ==
    /\ Step(j, "published", Cut(j, "failing")) /\ Fault
    /\ UNCHANGED <<early, res, rowVars, statusVars>>

Complete(j) ==
    /\ Step(j, "published", "retok") /\ EndReview(j, "completed")
    /\ UNCHANGED <<early, res, run, token, kube, statusVars, bounds>>

EndIncomplete(j) ==
    /\ IF ctx[j] = "live"
       THEN Step(j, "incomplete", "retok") /\ EndReview(j, "failed")
       ELSE Step(j, "incomplete", "ending") /\ UNCHANGED rev
    /\ UNCHANGED <<early, res, run, token, kube, statusVars, bounds>>

\* finishEnded, once the context has ended.  A review something else ended
\* is left as it is.
FinishEnded(j) ==
    /\ LET unfinished == rev[j][attempt[j]] \in Unfinished
           ended == CASE ctx[j] = "stopping" -> "superseded"
                      [] ctx[j] = "canceled" -> "canceled"
                      [] OTHER -> "failed"
       IN /\ Step(j, "ending", CASE ctx[j] = "stopping" -> Fail(j)
                                 [] ctx[j] # "stopping" /\ unfinished -> "endstatus"
                                 [] OTHER -> "retok")
          /\ IF unfinished THEN EndReview(j, ended) ELSE UNCHANGED rev
    /\ UNCHANGED <<early, res, run, token, kube, statusVars, bounds>>

ReportEnded(j) ==
    /\ Step(j, "endstatus", "retok") /\ Report(jhead[j], "error")
    /\ UNCHANGED <<early, res, rowVars>>

\* failReview: the status first, then the row.
ReportFailed(j) ==
    /\ Step(j, "failing", "failrow") \/ Step(j, "failingerr", "failrowerr")
    /\ Report(jhead[j], "error")
    /\ UNCHANGED <<early, res, rowVars>>

FailReview(j) ==
    /\ Step(j, "failrow", "retok") \/ Step(j, "failrowerr", Fail(j))
    /\ EndReview(j, "failed")
    /\ UNCHANGED <<early, res, run, token, kube, statusVars, bounds>>

\* The write that ends the review failed: River is given the error.
EndFails(j) ==
    /\ \E from \in {"superseding", "published", "incomplete", "ending", "failrow", "failrowerr"} :
        Step(j, from, Fail(j)) /\ (from = "incomplete" => ctx[j] = "live")
    /\ Fault
    /\ UNCHANGED <<early, res, rowVars, statusVars>>

\* The status a started review's error is reported with on its last attempt.
ReportError(j) ==
    /\ Step(j, "errstatus", "reterr") /\ Report(jhead[j], "error")
    /\ UNCHANGED <<early, res, rowVars>>

-----------------------------------------------------------------------------
(* The leader: Rescuer.Rescue, one pass at a time.                         *)

\* MUTANT of Abandoned: a job asked to cancel is left to its worker.
AbandonedUnasked == {j \in Job : jstate[j] = "running" /\ pc[j] = "dead" /\ ~asked[j]}

\* MUTANT of Orphaned: a run is reaped whatever its job's state.
OrphanedAnyJob == {r \in Job \X Attempt : run[r[1]][r[2]] = "open"}

Abandoned == {j \in Job : jstate[j] = "running" /\ pc[j] = "dead"}
Orphaned  == {r \in Job \X Attempt : run[r[1]][r[2]] = "open" /\ jstate[r[1]] # "running"}
LeadFrame == UNCHANGED <<prVars, jhead, manual, attempt, asked, ctx, res>>

\* A pass that would find nothing is left out: it changes nothing.
ListAbandoned ==
    /\ lpc = "idle" /\ (Abandoned # {} \/ Orphaned # {})
    /\ lpc' = "rescue"
    /\ ljobs' = {[job |-> j, attempt |-> attempt[j], asked |-> asked[j]] : j \in Abandoned}
    /\ UNCHANGED <<jstate, pc, rowVars, statusVars, lruns, lcur, bounds>> /\ LeadFrame

\* MUTANT of RescueState: one attempt too many.
RescueStateOnceMore(a) ==
    IF a.asked THEN "cancelled"
    ELSE IF a.attempt <= MaxAttempts THEN "retryable" ELSE "discarded"

\* AbandonedJob.RescueState, of the job as it was listed.
RescueState(a) ==
    IF a.asked THEN "cancelled"
    ELSE IF a.attempt < MaxAttempts THEN "retryable" ELSE "discarded"

\* store.RescueJob: not if the job ended, was claimed again or beat since.
RescueJob(a) ==
    LET j == a.job
        rescued == jstate[j] = "running" /\ attempt[j] = a.attempt /\ pc[j] = "dead"
        reported == RescueState(a) # "retryable" /\ \E n \in Attempt : rev[j][n] # None
    IN /\ lpc = "rescue" /\ a \in ljobs
       /\ ljobs' = ljobs \ {a}
       /\ IF rescued
          THEN /\ jstate' = [jstate EXCEPT ![j] = RescueState(a)]
               /\ pc' = [pc EXCEPT ![j] = "idle"]
               /\ rev' = [rev EXCEPT ![j] = EndUnfinished(j)]
               /\ IF reported
                  THEN lpc' = "report" /\ lcur' = {<<j, a.attempt>>}
                  ELSE UNCHANGED <<lpc, lcur>>
          ELSE UNCHANGED <<jstate, pc, rev, lpc, lcur>>
       /\ UNCHANGED <<run, token, kube, statusVars, lruns, bounds>> /\ LeadFrame

\* reportEnded replaces the status of a review that is not tried again.
ReportRescued ==
    /\ lpc = "report" /\ lpc' = "rescue" /\ lcur' = {}
    /\ \E r \in lcur : Report(jhead[r[1]], "error")
    /\ UNCHANGED <<jstate, pc, rowVars, ljobs, lruns>> /\ LeadFrame

ListOrphaned ==
    /\ lpc = "rescue" /\ ljobs = {}
    /\ lpc' = IF Orphaned = {} THEN "idle" ELSE "reap"
    /\ lruns' = Orphaned
    /\ UNCHANGED <<jstate, pc, rowVars, statusVars, ljobs, lcur, bounds>> /\ LeadFrame

\* A query of the pass that fails: what it would have listed, or the job it
\* would have rescued, is left for the next pass.
RescueFails ==
    /\ Fault
    /\ \/ /\ lpc = "idle" /\ Orphaned # {}
          /\ lpc' = "rescue" /\ UNCHANGED ljobs
       \/ /\ lpc = "rescue" /\ \E a \in ljobs : ljobs' = ljobs \ {a}
          /\ UNCHANGED lpc
       \/ /\ lpc = "rescue" /\ ljobs = {}
          /\ lpc' = "idle" /\ UNCHANGED ljobs
    /\ UNCHANGED <<jstate, pc, rowVars, statusVars, lruns, lcur>> /\ LeadFrame

\* reap, of one run: its Job first, then its token, then its rows.
DeleteRun(r) ==
    /\ lpc = "reap" /\ r \in lruns
    /\ lpc' = "revoke" /\ lcur' = {r} /\ lruns' = lruns \ {r}
    /\ kube' = Set(kube, r, FALSE)
    /\ UNCHANGED <<jstate, pc, rev, run, token, statusVars, ljobs, bounds>> /\ LeadFrame

\* MUTANT of RevokeOrphaned: the token is left to expire.
LeaveOrphanedToken ==
    /\ lpc = "revoke" /\ lpc' = "endrun"
    /\ UNCHANGED <<jstate, pc, rowVars, statusVars, ljobs, lruns, lcur, bounds>> /\ LeadFrame

RevokeOrphaned ==
    /\ lpc = "revoke" /\ lpc' = "endrun"
    /\ \E r \in lcur : token' = Set(token, r, FALSE)
    /\ UNCHANGED <<jstate, pc, rev, run, kube, statusVars, ljobs, lruns, lcur, bounds>> /\ LeadFrame

\* Where the pass goes once it is done with a run.
NextRun == lcur' = {} /\ lpc' = IF lruns = {} THEN "idle" ELSE "reap"

\* MUTANT of EndParent: the run's review is ended again.
EndParentAgain(r) == Set(rev, r, "failed")

\* The run's review is ended with it unless something ended that already.
EndParent(r) == IF rev[r[1]][r[2]] \in Unfinished THEN Set(rev, r, "failed") ELSE rev

EndOrphanedRun ==
    /\ lpc = "endrun" /\ NextRun
    /\ \E r \in lcur :
        /\ run' = Set(run, r, "ended")
        /\ rev' = EndParent(r)
    /\ UNCHANGED <<jstate, pc, token, kube, statusVars, ljobs, lruns, bounds>> /\ LeadFrame

\* A run that could not be reaped is left for the next pass.
ReapFails ==
    /\ Fault
    /\ \/ lpc \in {"revoke", "endrun"} /\ NextRun /\ UNCHANGED lruns
       \/ /\ lpc = "reap" /\ \E r \in lruns : lruns' = lruns \ {r}
          /\ lpc' = (IF lruns' = {} THEN "idle" ELSE "reap") /\ UNCHANGED lcur
    /\ UNCHANGED <<jstate, pc, rowVars, statusVars, ljobs>> /\ LeadFrame

\* The leader dies or loses its lock between two calls; another starts a
\* pass of its own.  A rescued job it had not reported stays unreported.
LeaderDies ==
    /\ Spend("leader") /\ lpc # "idle"
    /\ lpc' = "idle" /\ ljobs' = {} /\ lruns' = {} /\ lcur' = {}
    /\ mute' = IF lpc = "report" THEN mute \cup {jhead[r[1]] : r \in lcur} ELSE mute
    /\ UNCHANGED <<jstate, pc, rowVars, status>> /\ LeadFrame

-----------------------------------------------------------------------------
Begin(j) == Check(j) \/ Snooze(j) \/ (\E s \in EarlyEnds : EndEarly(j, s))
            \/ ReportEarly(j) \/ BeginError(j) \/ Start(j)
Runner(j) == SetPending(j) \/ Mint(j) \/ SpecFails(j) \/ Launch(j) \/ LaunchFails(j)
             \/ (\E r \in Results : RunEnds(j, r))
Judge(j) == Revoke(j) \/ Record(j) \/ RecordFails(j) \/ Supersede(j)
            \/ AfterRun(j) \/ AfterRunFails(j) \/ ReportSkip(j)
Close(j) == Publish(j) \/ PersistFails(j) \/ Complete(j) \/ EndIncomplete(j)
            \/ FinishEnded(j) \/ ReportEnded(j) \/ ReportFailed(j) \/ FailReview(j)
            \/ EndFails(j) \/ ReportError(j)
Work(j) == Begin(j) \/ Runner(j) \/ Judge(j) \/ Close(j)

Rescue == ListAbandoned \/ (\E a \in ljobs : RescueJob(a)) \/ ReportRescued
          \/ ListOrphaned \/ (\E r \in lruns : DeleteRun(r)) \/ RevokeOrphaned
          \/ EndOrphanedRun \/ RescueFails \/ ReapFails

Forge == Push \/ Redeliver \/ Poll \/ Rerun
Queue(j) == Fetch(j) \/ Finish(j) \/ RequestCancel(j)
Disturb(j) == DeliverCancel(j) \/ Timeout(j) \/ Stop(j) \/ Crash(j)

Next ==
    \/ Forge
    \/ \E j \in Job : Queue(j) \/ Disturb(j) \/ Work(j) \/ (\E n \in Attempt : JobEnds(j, n))
    \/ Rescue \/ LeaderDies

\* What the code's scheduling gives.  A live worker runs on (River's executor
\* goroutine); a snoozed job is not snoozed for ever, since leases are
\* released or expire and a settle time passes; River fetches what is queued
\* and settles what returned; the replicas elect a leader, whose Rescuer
\* passes every rescueInterval.  Nothing is assumed of the forge, of a
\* cancel's delivery, or of any disturbance.
Admitted(j) == Start(j) \/ \E s \in EarlyEnds : EndEarly(j, s)

Fairness ==
    /\ \A j \in Job : /\ WF_vars(Work(j)) /\ SF_vars(Admitted(j))
                      /\ WF_vars(Fetch(j)) /\ WF_vars(Finish(j))
    /\ WF_vars(Rescue)

Spec == Init /\ [][Next]_vars
LiveSpec == Spec /\ Fairness

-----------------------------------------------------------------------------
(* Properties.                                                             *)

\* A job has at most one review that is not over, however its attempts
\* failed, died or were rescued: an earlier attempt's is ended before the
\* next one starts (StartReview, RescueJob, EndOrphanedRun).
OneUnfinishedPerJob ==
    \A j \in Job : \A m, n \in Attempt :
        rev[j][m] \in Unfinished /\ rev[j][n] \in Unfinished => m = n

\* No review is stranded: while it is not over, its job can still end it or
\* its run is open for the Rescuer to end both.  A write that failed may
\* strand one (see README), so the claim is for runs without faults.
NoStranding ==
    faults = 0 =>
        \A j \in Job : \A n \in Attempt :
            rev[j][n] \in Unfinished => jstate[j] \in LiveStates \/ run[j][n] = "open"

\* "a run is ended only once nothing of it can still spend" (reap): an ended
\* run has neither Job nor token, and one failed call leaves it at most one
\* of the two, of which it would need both.
EndedRunCannotSpend ==
    \A j \in Job : \A n \in Attempt :
        run[j][n] = "ended" =>
            /\ faults = 0 => ~kube[j][n] /\ ~token[j][n]
            /\ faults <= 1 => ~(kube[j][n] /\ token[j][n])

\* The Rescuer never deletes, revokes or ends the run of an attempt that is
\* still being worked, for all that it acts on a list it read before.
ReapOnlyDead ==
    \A r \in lruns \cup (IF lpc \in {"revoke", "endrun"} THEN lcur ELSE {}) :
        ~(attempt[r[1]] = r[2] /\ pc[r[1]] \in InReview)

\* A head kritika shows as pending has a job that will replace the status,
\* or a leader about to, unless a push replaced the head or the status that
\* would have was lost on the way (mute).
Reporting(h) == lpc = "report" /\ \E r \in lcur : jhead[r[1]] = h
PendingHeadHasWork ==
    \A h \in HeadSHA \ (former \cup mute) :
        status[h] = "pending" => LiveJobOf(h) \/ Reporting(h)

\* What ended a review is the last word on it: no later attempt, no cancel
\* that comes late and no rescue gives it another status.
EndedReviewsStayEnded ==
    [][\A j \in Job : \A n \in Attempt :
        rev[j][n] \in Finished => rev'[j][n] = rev[j][n]]_vars

\* Every review ends, whoever dies or stops, unless a failed write strands
\* it; and every run is ended, which is the Rescuer's when a worker cannot.
ReviewsEnd ==
    \A j \in Job : \A n \in Attempt :
        rev[j][n] \in Unfinished ~> (rev[j][n] \in Finished \/ faults > 0)
RunsEnd ==
    \A j \in Job : \A n \in Attempt : run[j][n] = "open" ~> run[j][n] = "ended"

\* "The status says the review is under way until its outcome replaces it":
\* a pending head is told its outcome, with the exceptions of
\* PendingHeadHasWork.
HeadsAnswered ==
    \A h \in HeadSHA :
        status[h] = "pending" ~> (status[h] # "pending" \/ h \in former \cup mute)

\* What is begun is answered, by whoever is left to: the review with its
\* status in the database, the run with its end, the head with its outcome.
ReviewsAnswered == ReviewsEnd /\ RunsEnd /\ HeadsAnswered

\* What afterRun's comment says, that a skipped review ends with a success
\* status: no head is left pending once every job of it is over.
SkippedHeadSaysSo ==
    \A j \in Job : \A n \in Attempt :
        rev[j][n] = "skipped" /\ ~LiveJobOf(jhead[j]) => status[jhead[j]] # "pending"

\* What SettledStatuses' comment says of a head whose reviews all failed or
\* were superseded: the poll picks it up again.
UnreviewedHeadIsPolled ==
    /\ Ends(head) \cap {"superseded", "failed"} # {} /\ ~Settled(head)
    /\ ~LiveJobOf(head)
    => ~Duplicate(head)
=============================================================================
