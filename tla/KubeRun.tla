---- MODULE KubeRun ----
(***************************************************************************)
(* A runner's run in Kubernetes (executor/kube.go): its Secret, its Job    *)
(* and its pod, made, watched and deleted by one worker that may fail or   *)
(* die between any two calls; the leader's reaping of what a dead worker   *)
(* left (worker/rescue.go), and its sweep of Secrets nothing owns          *)
(* (executor/sweep.go, store/runsecrets.go).                               *)
(***************************************************************************)
EXTENDS Integers

CONSTANTS Runs,
          Deadline,     \* the Job's activeDeadlineSeconds, in ticks
          JobTTL,       \* its ttlSecondsAfterFinished
          JobTimeout,   \* River's timeout of the job that has the run
          LaunchWithin, \* the longest a run's row is there before its Job
          Settle, Abandoned, \* RunSecretSettle, RunSecretAbandoned
          MaxUnread,    \* maxUnreadStatus
          StartGrace,   \* startGrace, in checks
          KubeBounds    \* what may happen in a behaviour

\* Runs started, calls that fail, workers and sweepers that die.
KubeBound == [runs : Nat, faults : Nat, deaths : Nat]

\* "abandoned must outlast any Job such a worker could have started"
ASSUME KubeAssumption ==
    /\ {Deadline, JobTTL, JobTimeout, LaunchWithin, Settle, Abandoned} \subseteq Nat
    /\ {MaxUnread, StartGrace} \subseteq Nat \ {0}
    /\ Settle < Abandoned /\ LaunchWithin + Deadline <= Abandoned /\ JobTimeout <= Abandoned
    /\ KubeBounds \subseteq KubeBound

VARIABLES
    run,   \* each run: row, worker, Secret, Job and pod
    sweep, \* the sweep under way: what it has yet to visit, and has deleted
    troubles

kubeVars == <<run, sweep, troubles>>

Unstarted == [row |-> "none", swept |-> FALSE, age |-> 0,
              at |-> "idle", cut |-> FALSE, unread |-> 0, stuck |-> 0, started |-> FALSE,
              secret |-> "none", job |-> "none", since |-> 0, pod |-> "none", loose |-> FALSE]

\* The worker's places; it is dead, or has left, in neither.
Launching == {"secret", "job"}
Undoing   == {"undo", "undoSecret", "drop"}
WorkerAt   == Launching \cup Undoing \cup {"own", "watch", "over"}
Kept      == {"bare", "owned"}
Unready   == {"none", "refused"}

KubeTypeOK ==
    /\ run \in [Runs -> [row : {"none", "open", "finished"}, swept : BOOLEAN, age : 0..(Abandoned + 1),
                         at : WorkerAt \cup {"idle", "dead", "left"}, cut : BOOLEAN,
                         unread : 0..MaxUnread, stuck : 0..StartGrace, started : BOOLEAN,
                         secret : Kept \cup {"none", "gone"}, job : {"none", "live", "ended", "gone"},
                         since : 0..(Deadline + JobTTL), pod : Unready \cup {"running", "ended"},
                         loose : BOOLEAN]]
    /\ sweep \in [on : BOOLEAN, todo : SUBSET Runs, done : SUBSET Runs]
    /\ troubles \in KubeBound

Idle == [on |-> FALSE, todo |-> {}, done |-> {}]

KubeInit == run = [r \in Runs |-> Unstarted] /\ sweep = Idle /\ troubles \in KubeBounds

Trouble(what) == troubles[what] > 0 /\ troubles' = [troubles EXCEPT ![what] = @ - 1]

-----------------------------------------------------------------------------
(* The worker *)

StartRun(r) ==
    /\ run[r].row = "none" /\ Trouble("runs")
    /\ run' = [run EXCEPT ![r].row = "open", ![r].at = "secret"]
    /\ UNCHANGED sweep

\* A call is answered, or it fails, whether or not the server did it: always
\* when the job's context has ended, and otherwise by a fault.
CallFails(r) == IF run[r].cut THEN UNCHANGED troubles ELSE Trouble("faults")

CreateSecret(r) ==
    /\ run[r].at = "secret"
    /\ \/ run' = [run EXCEPT ![r].secret = "bare", ![r].at = "job"] /\ UNCHANGED troubles
       \/ \E s \in {"none", "bare"} : run' = [run EXCEPT ![r].secret = s, ![r].at = "over"] /\ CallFails(r)
    /\ UNCHANGED sweep

\* A Job whose create was not answered is only looked for when the context
\* has ended; otherwise it may be left, without its Secret.
CreateJob(r) ==
    /\ run[r].at = "job"
    /\ \/ run' = [run EXCEPT ![r].job = "live", ![r].at = "own"] /\ UNCHANGED troubles
       \/ \E j \in {"none", "live"} :
             /\ run' = [run EXCEPT ![r].job = j, ![r].at = IF run[r].cut THEN "undo" ELSE "undoSecret",
                                   ![r].loose = j = "live" /\ ~run[r].cut]
             /\ CallFails(r)
    /\ UNCHANGED sweep

\* A Secret that could not be made the Job's is all that is undone.
OwnLoosely(r) ==
    /\ run[r].at = "own"
    /\ \/ run' = [run EXCEPT ![r].secret = "owned", ![r].at = "watch"] /\ UNCHANGED troubles
       \/ run' = [run EXCEPT ![r].at = "undoSecret"] /\ CallFails(r)
    /\ UNCHANGED sweep

\* The Job is made the Secret's owner; there may be no Secret any more.
Own(r) ==
    /\ run[r].at = "own"
    /\ \/ /\ run[r].secret \in Kept
          /\ run' = [run EXCEPT ![r].secret = "owned", ![r].at = "watch"] /\ UNCHANGED troubles
       \/ /\ run[r].secret \in Kept
          /\ \E s \in {run[r].secret, "owned"} : run' = [run EXCEPT ![r].secret = s, ![r].at = "undo"]
          /\ CallFails(r)
       \/ run[r].secret \notin Kept /\ run' = [run EXCEPT ![r].at = "undo"] /\ UNCHANGED troubles
    /\ UNCHANGED sweep

\* The Job, and its pod before it; deleted or not, the worker goes on.
DropJob(r) ==
    /\ run[r].at \in {"undo", "drop"}
    /\ LET next == IF run[r].at = "undo" THEN "undoSecret" ELSE "over" IN
       \/ /\ run' = [run EXCEPT ![r].at = next, ![r].job = IF @ = "none" THEN @ ELSE "gone", ![r].loose = FALSE]
          /\ UNCHANGED troubles
       \/ /\ run' = [run EXCEPT ![r].at = next, ![r].loose = run[r].job = "live"]
          /\ Trouble("faults")
    /\ UNCHANGED sweep

DropSecret(r) ==
    /\ run[r].at = "undoSecret"
    /\ \/ run' = [run EXCEPT ![r].at = "over", ![r].secret = IF @ = "none" THEN @ ELSE "gone"] /\ UNCHANGED troubles
       \/ run' = [run EXCEPT ![r].at = "over"] /\ Trouble("faults")
    /\ UNCHANGED sweep

\* One tick: the Job's status is read, and its pod's until it has started.  A
\* Job deleted meanwhile reads as an error.
WatchRun(r) ==
    /\ run[r].at = "watch" /\ ~run[r].cut
    /\ \/ /\ run[r].job = "gone" \/ troubles.faults > 0
          /\ IF run[r].job = "gone" THEN UNCHANGED troubles ELSE Trouble("faults")
          /\ run' = [run EXCEPT ![r].unread = @ + 1, ![r].at = IF run[r].unread + 1 < MaxUnread THEN @ ELSE "drop"]
       \/ /\ run[r].job = "ended"
          /\ run' = [run EXCEPT ![r].unread = 0, ![r].at = "over"]
          /\ UNCHANGED troubles
       \/ /\ run[r].job = "live"
          /\ LET started == run[r].started \/ run[r].pod = "running"
                 stuck   == IF ~started /\ run[r].pod = "refused" THEN run[r].stuck + 1 ELSE 0
             IN run' = [run EXCEPT ![r].unread = 0, ![r].started = started, ![r].stuck = stuck,
                                   ![r].at = IF stuck >= StartGrace THEN "drop" ELSE @]
          /\ UNCHANGED troubles
    /\ UNCHANGED sweep

CancelRun(r) ==
    /\ run[r].at = "watch" /\ run[r].cut
    /\ run' = [run EXCEPT ![r].at = "drop"]
    /\ UNCHANGED <<sweep, troubles>>

\* The run's row is ended; when that fails the job may leave it open.
RecordRun(r) ==
    /\ run[r].at = "over"
    /\ \/ run' = [run EXCEPT ![r].at = "left", ![r].row = "finished"] /\ UNCHANGED troubles
       \/ run' = [run EXCEPT ![r].at = "left"] /\ Trouble("faults")
    /\ UNCHANGED sweep

\* A newer head, a cancel, a lost heartbeat, a stop, or the job's timeout.
CutRun(r) ==
    /\ run[r].at \in WorkerAt /\ ~run[r].cut
    /\ run' = [run EXCEPT ![r].cut = TRUE]
    /\ UNCHANGED <<sweep, troubles>>

RunsWorkerDies(r) ==
    /\ run[r].at \in WorkerAt /\ Trouble("deaths")
    /\ run' = [run EXCEPT ![r].at = "dead"]
    /\ UNCHANGED sweep

\* The Job of a run whose job is no longer worked, and then its row.
ReapRun(r) ==
    /\ run[r].row = "open" /\ run[r].at \in {"dead", "left"}
    /\ \E row \in {"finished", "open"} :
          /\ run' = [run EXCEPT ![r].row = row, ![r].job = IF @ = "none" THEN @ ELSE "gone", ![r].loose = FALSE]
          /\ IF row = "open" THEN Trouble("faults") ELSE UNCHANGED troubles
    /\ UNCHANGED sweep

-----------------------------------------------------------------------------
(* Kubernetes *)

\* A pod that has not started is refused for a while (its image, its node),
\* or for good when its Secret is gone.
PodRefused(r) ==
    /\ run[r].job = "live" /\ run[r].pod = "none"
    /\ IF run[r].secret \in Kept THEN Trouble("faults") ELSE UNCHANGED troubles
    /\ run' = [run EXCEPT ![r].pod = "refused"]
    /\ UNCHANGED sweep

PodStarts(r) ==
    /\ run[r].job = "live" /\ run[r].pod \in Unready /\ run[r].secret \in Kept
    /\ run' = [run EXCEPT ![r].pod = "running"]
    /\ UNCHANGED <<sweep, troubles>>

\* Its pod ends, or the deadline comes.
JobEnds(r) ==
    /\ run[r].job = "live" /\ (run[r].pod = "running" \/ run[r].since = Deadline)
    /\ run' = [run EXCEPT ![r].job = "ended", ![r].pod = "ended", ![r].since = 0]
    /\ UNCHANGED <<sweep, troubles>>

JobExpires(r) ==
    /\ run[r].job = "ended" /\ run[r].since >= JobTTL
    /\ run' = [run EXCEPT ![r].job = "gone"]
    /\ UNCHANGED <<sweep, troubles>>

\* Garbage collection of what the Job owned.
CollectSecret(r) ==
    /\ run[r].job = "gone" /\ run[r].secret = "owned"
    /\ run' = [run EXCEPT ![r].secret = "gone"]
    /\ UNCHANGED <<sweep, troubles>>

\* A launch is quick, a Job ends by its deadline and a worker by its timeout.
Due(r) ==
    \/ run[r].at \in Launching /\ run[r].age = LaunchWithin
    \/ run[r].at \in WorkerAt /\ run[r].age = JobTimeout
    \/ run[r].job = "live" /\ run[r].since = Deadline

KubeTick ==
    /\ \A r \in Runs : ~Due(r)
    /\ \E r \in Runs : run[r].row # "none" /\ (run[r].age <= Abandoned \/ run[r].job = "ended")
    /\ run' = [r \in Runs |->
          [run[r] EXCEPT !.age = IF run[r].row = "none" \/ @ > Abandoned THEN @ ELSE @ + 1,
                         !.since = IF run[r].job = "live" \/ (run[r].job = "ended" /\ @ < JobTTL) THEN @ + 1 ELSE @]]
    /\ UNCHANGED <<sweep, troubles>>

-----------------------------------------------------------------------------
(* The sweep *)

\* A settled run whose row is open is taken for one that was abandoned.
SettledRuns == {r \in Runs : run[r].row # "none" /\ ~run[r].swept /\ run[r].age > Settle}

RunSecretsToSweep ==
    {r \in Runs : run[r].row # "none" /\ ~run[r].swept /\ run[r].age > Settle
                  /\ (run[r].row = "finished" \/ run[r].age > Abandoned)}

SweepList ==
    /\ ~sweep.on /\ RunSecretsToSweep # {}
    /\ sweep' = [on |-> TRUE, todo |-> RunSecretsToSweep, done |-> {}]
    /\ UNCHANGED <<run, troubles>>

\* A Secret that could not be deleted is counted among those that were.
DeleteHopefully(r) ==
    /\ r \in sweep.todo
    /\ sweep' = [sweep EXCEPT !.todo = @ \ {r}, !.done = @ \cup {r}]
    /\ \/ run' = [run EXCEPT ![r].secret = IF @ = "none" THEN @ ELSE "gone"] /\ UNCHANGED troubles
       \/ Trouble("faults") /\ UNCHANGED run

DeleteRunSecret(r) ==
    /\ r \in sweep.todo
    /\ \/ /\ run' = [run EXCEPT ![r].secret = IF @ = "none" THEN @ ELSE "gone"]
          /\ sweep' = [sweep EXCEPT !.todo = @ \ {r}, !.done = @ \cup {r}]
          /\ UNCHANGED troubles
       \/ sweep' = [sweep EXCEPT !.todo = @ \ {r}] /\ Trouble("faults") /\ UNCHANGED run

MarkRunSecretsSwept ==
    /\ sweep.on /\ sweep.todo = {}
    /\ \/ /\ run' = [r \in Runs |-> [run[r] EXCEPT !.swept = @ \/ r \in sweep.done]]
          /\ UNCHANGED troubles
       \/ sweep.done # {} /\ Trouble("faults") /\ UNCHANGED run
    /\ sweep' = Idle

\* The leader ends in the middle of it.
SweepDies ==
    /\ sweep.on /\ Trouble("deaths")
    /\ sweep' = Idle /\ UNCHANGED run

-----------------------------------------------------------------------------
Worker(r) ==
    \/ CreateSecret(r) \/ CreateJob(r) \/ Own(r) \/ DropJob(r) \/ DropSecret(r)
    \/ WatchRun(r) \/ CancelRun(r) \/ RecordRun(r)

Cluster(r) == PodRefused(r) \/ PodStarts(r) \/ JobEnds(r) \/ JobExpires(r) \/ CollectSecret(r)

Sweeping == SweepList \/ (\E r \in Runs : DeleteRunSecret(r)) \/ MarkRunSecretsSwept

KubeNext ==
    \/ \E r \in Runs : StartRun(r) \/ Worker(r) \/ CutRun(r) \/ RunsWorkerDies(r) \/ ReapRun(r) \/ Cluster(r)
    \/ KubeTick \/ Sweeping \/ SweepDies

KubeSpec ==
    /\ KubeInit /\ [][KubeNext]_kubeVars
    /\ WF_kubeVars(KubeTick) /\ WF_kubeVars(Sweeping)
    /\ \A r \in Runs : WF_kubeVars(CutRun(r)) /\ WF_kubeVars(CancelRun(r) \/ Worker(r)) /\ WF_kubeVars(JobEnds(r))

-----------------------------------------------------------------------------
(* Properties *)

\* "So a live run's Secret is never deleted under it" (runsecrets.go): a pod
\* that has yet to start has its Secret while its run is open, whatever the
\* sweep lists and however late it acts on its list, and wherever the worker
\* is in undoing a launch; but where a Job was left when a call went
\* unanswered.
StartingRunHasSecret ==
    \A r \in Runs :
        run[r].row = "open" /\ run[r].job = "live" /\ run[r].pod \in Unready /\ ~run[r].loose
        => run[r].secret \in Kept

\* A run that is over does not "run beside the retry the worker will start"
\* (kube.go): its Job is not live, however its launch or its watch failed and
\* whoever ended it; but where Kubernetes did not answer the Job's creation,
\* or its deletion.
EndedRunIsStopped ==
    \A r \in Runs : run[r].row = "finished" /\ ~run[r].loose => run[r].job # "live"

\* A run's Secret and its Job last as long as the run: not shorter, which
\* would fail a pod, and not longer, which would leave one running.
PodsFollowTheirRun == StartingRunHasSecret /\ EndedRunIsStopped

\* No credentials stay behind: every run's Secret is deleted in the end, by
\* its worker, with its Job, or by the sweep.
SecretsGo == \A r \in Runs : (run[r].secret \in Kept) ~> (run[r].secret = "gone")
====
