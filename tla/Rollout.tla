------------------------------ MODULE Rollout ------------------------------
(***************************************************************************)
(* The life of a serve process (cmd/kritika/main.go, internal/server) as a *)
(* rollout replaces one pod by another: what it opens in which order, when *)
(* it says it is ready, and what it lets finish when it is told to stop.   *)
(* Kubernetes is the environment: it creates a pod, routes to the ready    *)
(* ones, terminates an old one once the new one is ready, stops routing to *)
(* a terminating pod only some time later, and kills it after its grace.   *)
(*                                                                         *)
(* Time is the ticks since a pod was told to stop.                         *)
(***************************************************************************)
EXTENDS Integers, FiniteSets

CONSTANTS Pod,            \* names of pods
          Replicas,       \* how many the Deployment keeps
          RouteLag,       \* ticks until a terminating pod is routed to no more
          Linger,         \* ticks the listeners stay open (linger)
          StepDrain,      \* ticks a model step in flight may take (gateway.Drain)
          StepMost,       \* ticks a model step takes at most
          QueueDrain,     \* ticks running jobs may finish in (queueDrain)
          Headroom,       \* ticks cut jobs have to be handed back (queueStopHeadroom)
          Grace,          \* the pod's termination grace period
          RolloutBounds   \* records [rollouts, outages, deaths]

ASSUME RolloutAssumption ==
    /\ IsFiniteSet(Pod) /\ Replicas \in Nat \ {0}
    /\ {RouteLag, Linger, StepDrain, StepMost, QueueDrain, Headroom, Grace} \subseteq Nat
    /\ RouteLag < Linger /\ Headroom > 0
    /\ StepMost <= StepDrain
    /\ Grace >= QueueDrain + Headroom
    /\ Grace >= Linger + StepDrain

VARIABLES pods,     \* each pod's process
          routed,   \* the pods the Service sends requests to
          wanted,   \* the version the Deployment wants, and whether its file loads
          database, \* whether the database answers, and has its schema
          job,      \* a queued job: where it is worked, and for how long since it was cut
          step,     \* a runner's model step: the gateway it is at
          past,     \* whether some pod was ever routed to, and whether one died
          luck      \* how much trouble may still come
rolloutVars == <<pods, routed, wanted, database, job, step, past, luck>>

NoPod == "no pod"
\* A pod's name is not the absence of one.
ASSUME PodAssumption == NoPod \notin Pod

OnTime == -1
Absent == [phase |-> "absent", version |-> 0, loads |-> TRUE, public |-> "closed",
           queue |-> "stopped", stopped |-> OnTime]

Stopping(p) == pods[p].stopped # OnTime
Live(p) == pods[p].phase # "absent" /\ ~Stopping(p)
\* Management's readiness: set once serve returned
ReadyOnceOpen(p) == pods[p].phase \in {"opening", "starting", "serving"}
Ready(p) == pods[p].phase = "serving"
LivePods == {p \in Pod : Live(p)}
ReadyPods == {p \in LivePods : Ready(p)}

RolloutInit ==
    /\ pods = [p \in Pod |-> Absent]
    /\ routed = {}
    /\ wanted = [version |-> 1, loads |-> TRUE]
    /\ database = [up |-> TRUE, schema |-> FALSE]
    /\ job = [at |-> NoPod, cut |-> OnTime]
    /\ step = [at |-> NoPod, age |-> 0]
    /\ past = [served |-> FALSE, died |-> FALSE]
    /\ luck \in RolloutBounds

Spends(what) == luck[what] > 0 /\ luck' = [luck EXCEPT ![what] = @ - 1]
Dies == Spends("deaths") /\ past' = [past EXCEPT !.died = TRUE]
Becomes(p, changes) ==
    pods' = [pods EXCEPT ![p] = [k \in DOMAIN @ |-> IF k \in DOMAIN changes THEN changes[k]
                                                    ELSE @[k]]]
World == <<wanted, database, luck>>
Traffic == <<job, step, past>>

-----------------------------------------------------------------------------
(***************************************************************************)
(* Kubernetes: a rolling update that surges one pod and takes none down    *)
(* before its successor is ready.                                          *)
(***************************************************************************)
\* another image or file; it may be one that does not load
RollOut ==
    /\ Spends("rollouts")
    /\ \E loads \in BOOLEAN : wanted' = [version |-> wanted.version + 1, loads |-> loads]
    /\ UNCHANGED <<pods, routed, database>> /\ UNCHANGED Traffic

\* a pod, of a name nothing of an earlier one is left of
Create(p) ==
    /\ pods[p].phase = "absent" /\ p \notin routed \cup {job.at, step.at}
    /\ Cardinality(LivePods) <= Replicas
    /\ Cardinality({q \in LivePods : pods[q].version = wanted.version}) < Replicas
    /\ Becomes(p, [Absent EXCEPT !.phase = "booting", !.version = wanted.version,
                                 !.loads = wanted.loads])
    /\ UNCHANGED routed /\ UNCHANGED World /\ UNCHANGED Traffic

Terminate(p) ==
    /\ Live(p) /\ pods[p].version # wanted.version
    /\ Ready(p) => Cardinality(ReadyPods \ {p}) >= Replicas
    /\ Becomes(p, [stopped |-> 0])
    /\ UNCHANGED routed /\ UNCHANGED World /\ UNCHANGED Traffic

\* the Service follows the ready pods, each time all of them
Route ==
    /\ routed # ReadyPods
    /\ routed' = ReadyPods
    /\ past' = [past EXCEPT !.served = @ \/ ReadyPods # {}]
    /\ UNCHANGED <<pods, job, step>> /\ UNCHANGED World

\* the grace period is over
Kill(p) ==
    /\ pods[p].stopped = Grace
    /\ Becomes(p, Absent)
    /\ UNCHANGED routed /\ UNCHANGED World /\ UNCHANGED Traffic

\* a node is lost
Die(p) ==
    /\ pods[p].phase # "absent" /\ Dies
    /\ Becomes(p, Absent)
    /\ UNCHANGED <<routed, wanted, database, job, step>>

Outage ==
    /\ IF database.up THEN Spends("outages") ELSE UNCHANGED luck
    /\ database' = [database EXCEPT !.up = ~@]
    /\ UNCHANGED <<pods, routed, wanted>> /\ UNCHANGED Traffic

-----------------------------------------------------------------------------
(***************************************************************************)
(* run and serve: the file, the listener that says it is starting, the     *)
(* database, the webhooks and the dashboard, the workers, readiness.       *)
(***************************************************************************)
Steps(p, from, to) ==
    /\ pods[p].phase = from /\ ~Stopping(p)
    /\ Becomes(p, to)
    /\ UNCHANGED routed /\ UNCHANGED World /\ UNCHANGED Traffic

\* loadConfig: a file that does not load ends the process, again and again
Boot(p) ==
    /\ pods[p].loads
    /\ Steps(p, "booting", [phase |-> "opening", public |-> "starting"])

\* openStore retries until the database answers; startPublic then hands the
\* listener the webhooks and the dashboard
StartPublic(p) ==
    /\ database.up
    /\ Steps(p, "opening", [phase |-> "starting", public |-> "service"])

\* startWorker, and run's SetReady
StartWorker(p) == Steps(p, "starting", [phase |-> "serving", queue |-> "waiting"])

\* workQueues waits for the schema and starts River, or is stopped meanwhile
StartQueue(p) ==
    /\ pods[p].queue = "waiting"
    /\ \/ database.up /\ database.schema /\ ~Stopping(p) /\ Becomes(p, [queue |-> "working"])
       \/ Stopping(p) /\ Becomes(p, [queue |-> "stopped"])
    /\ UNCHANGED routed /\ UNCHANGED World /\ UNCHANGED Traffic

\* startQueue gives up on a database that went away: the process ends, and its
\* container starts again
GiveUp(p) ==
    /\ pods[p].queue = "waiting" /\ database.schema /\ ~database.up /\ ~Stopping(p)
    /\ Dies
    /\ Becomes(p, [phase |-> "booting", public |-> "closed", queue |-> "stopped"])
    /\ UNCHANGED <<routed, wanted, database, job, step>>

\* the replica that leads migrates
Migrate ==
    /\ \E p \in Pod : pods[p].phase \in {"starting", "serving"} /\ ~Stopping(p)
    /\ database.up /\ ~database.schema
    /\ database' = [database EXCEPT !.schema = TRUE]
    /\ UNCHANGED <<pods, routed, wanted, luck>> /\ UNCHANGED Traffic

-----------------------------------------------------------------------------
(***************************************************************************)
(* What a pod works: a job of the queues, a model step at its gateway.     *)
(***************************************************************************)
Elsewhere == UNCHANGED <<pods, routed, past>> /\ UNCHANGED World

TakeJob(p) ==
    /\ job.at = NoPod /\ pods[p].queue = "working" /\ ~Stopping(p)
    /\ job' = [at |-> p, cut |-> OnTime] /\ UNCHANGED step /\ Elsewhere

\* the job ends, or hands itself back once its context ended
LeaveJob ==
    /\ job.at # NoPod /\ pods[job.at].phase # "absent"
    /\ job' = [at |-> NoPod, cut |-> OnTime] /\ UNCHANGED step /\ Elsewhere

\* River's soft stop is over: the job's context ends, and the job does on detached
\* ones, for as long as that takes, what comes before it is handed back
CutJob(p) ==
    /\ job = [at |-> p, cut |-> OnTime] /\ pods[p].stopped >= QueueDrain
    /\ job' = [job EXCEPT !.cut = 0] /\ UNCHANGED step /\ Elsewhere

\* a job whose pod is gone is handed back by the leader's Rescuer
RescueJob ==
    /\ job.at # NoPod /\ pods[job.at].phase = "absent"
    /\ job' = [at |-> NoPod, cut |-> OnTime] /\ UNCHANGED step /\ Elsewhere

\* a step begins while the gateway still accepts, lingering included
BeginStep(p) ==
    /\ step.at = NoPod /\ pods[p].phase = "serving" /\ pods[p].stopped < Linger
    /\ step' = [at |-> p, age |-> 0] /\ UNCHANGED job /\ Elsewhere

\* it is answered, or the runner finds its gateway gone and asks again
EndStep ==
    /\ step.at # NoPod
    /\ step' = [at |-> NoPod, age |-> 0] /\ UNCHANGED job /\ Elsewhere

-----------------------------------------------------------------------------
(***************************************************************************)
(* Stopping: the listeners linger, then drain; the queues soft-stop; the   *)
(* process ends when all have ended, each at its own bound.                *)
(***************************************************************************)
CloseAtOnce(p) ==
    /\ Stopping(p) /\ pods[p].public # "closed"
    /\ Becomes(p, [public |-> "closed"])
    /\ UNCHANGED routed /\ UNCHANGED World /\ UNCHANGED Traffic
ClosePublic(p) ==
    /\ pods[p].stopped >= Linger /\ pods[p].public # "closed"
    /\ Becomes(p, [public |-> "closed"])
    /\ UNCHANGED routed /\ UNCHANGED World /\ UNCHANGED Traffic

StepsDrained(p) == step.at # p \/ pods[p].stopped >= Linger + StepDrain
StopsAtDrain(p) == job.at # p \/ pods[p].stopped >= QueueDrain
QueuesStopped(p) == job.at # p \/ pods[p].stopped >= QueueDrain + Headroom

\* run returns; one told to stop before its listeners were up returns at once
Exit(p) ==
    /\ Stopping(p) /\ (pods[p].public = "closed" \/ pods[p].phase = "opening")
    /\ StepsDrained(p) /\ QueuesStopped(p)
    /\ Becomes(p, Absent)
    /\ UNCHANGED routed /\ UNCHANGED World /\ UNCHANGED Traffic

\* time passes for the pods told to stop; what has a bound is not late, but a cut
\* job has none of its own
RolloutTick ==
    /\ \E p \in Pod : Stopping(p)
    /\ \A p \in Pod : Stopping(p) =>
         /\ pods[p].stopped < Grace
         /\ pods[p].stopped = RouteLag => p \notin routed
         /\ job = [at |-> p, cut |-> OnTime] => pods[p].stopped < QueueDrain
    /\ step.at # NoPod => step.age < StepMost
    /\ pods' = [p \in Pod |-> IF Stopping(p) THEN [pods[p] EXCEPT !.stopped = @ + 1]
                              ELSE pods[p]]
    /\ job' = [job EXCEPT !.cut = IF @ # OnTime /\ Stopping(job.at) THEN @ + 1 ELSE @]
    /\ step' = [step EXCEPT !.age = IF step.at = NoPod THEN @ ELSE @ + 1]
    /\ UNCHANGED <<routed, past>> /\ UNCHANGED World

Process(p) ==
    \/ Boot(p) \/ StartPublic(p) \/ StartWorker(p) \/ StartQueue(p) \/ GiveUp(p)
    \/ TakeJob(p) \/ CutJob(p) \/ BeginStep(p) \/ ClosePublic(p) \/ Exit(p)
Kubernetes(p) == Create(p) \/ Terminate(p) \/ Kill(p) \/ Die(p)

RolloutNext ==
    \/ \E p \in Pod : Process(p) \/ Kubernetes(p)
    \/ RollOut \/ Route \/ Outage \/ Migrate \/ LeaveJob \/ RescueJob \/ EndStep \/ RolloutTick
RolloutSpec == RolloutInit /\ [][RolloutNext]_rolloutVars

-----------------------------------------------------------------------------
RolloutTypeOK ==
    /\ pods \in [Pod -> [phase : {"absent", "booting", "opening", "starting", "serving"},
                         version : Nat, loads : BOOLEAN,
                         public : {"closed", "starting", "service"},
                         queue : {"waiting", "working", "stopped"}, stopped : OnTime .. Grace]]
    /\ routed \subseteq Pod /\ past \in [served : BOOLEAN, died : BOOLEAN]
    /\ job.at \in Pod \cup {NoPod} /\ step.at \in Pod \cup {NoPod}

\* Through any number of rollouts, of files that load and of files that do not,
\* and while the database comes and goes, wherever the forge's delivery is sent it
\* finds the webhooks: there is always a pod routed to, and every pod routed to
\* serves them, though Kubernetes still routes to one already told to stop.
DeliveriesHeld ==
    past.served /\ ~past.died => routed # {} /\ \A p \in routed : pods[p].public = "service"

\* A pod told to stop is not gone before the model step at its gateway is answered,
\* nor before its job is done or handed back, unless the job had the whole drain to
\* end in and then, cut, the whole headroom to be handed back: only then is it left
\* to the Rescuer. Neither the listeners, nor the process's own end, nor the end of
\* the grace period, comes before that.
NothingCutShort ==
    ~past.died => \A p \in Pod : pods[p].phase = "absent" =>
        /\ step.at # p
        /\ job.at = p => job.cut # OnTime /\ job.cut >= Headroom

\* A rollout loses nothing that comes in, and leaves what is under way its time.
RolloutLosesNothing == DeliveriesHeld /\ NothingCutShort
=============================================================================
