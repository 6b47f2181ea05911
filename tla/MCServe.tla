---- MODULE MCServe ----
(***************************************************************************)
(* What "kritika serve" does beside its jobs, for TLC: Intake, Mentions,   *)
(* LiveView and Leader, and the Kubernetes side of a run, KubeRun.  They   *)
(* share no state, so each behaviour is of one of them, the part; the      *)
(* others have nothing that may happen.                                    *)
(***************************************************************************)
EXTENDS Intake, Mentions, LiveView, Leader, KubeRun

CONSTANTS question, command, stray

VARIABLE part

serveVars == <<intakeVars, mentionVars, liveVars, leaderVars, kubeVars, part>>

\* Two repositories of which one may be skipped; one that changes twice; a
\* gap longer than the lookback; reviews that end, and maintainers who pause
\* and resume them.
Nothing   == [repos |-> 0, changes |-> 0, ticks |-> 0, faults |-> 0, gestures |-> 0, reviews |-> FALSE]
Skipping  == [Nothing EXCEPT !.repos = 2, !.changes = 1, !.ticks = 3, !.faults = 1]
Changing  == [Nothing EXCEPT !.repos = 1, !.changes = 2, !.ticks = 2, !.faults = 1]
Long      == [Nothing EXCEPT !.repos = 1, !.changes = 1, !.ticks = 5]
Paused    == [Nothing EXCEPT !.repos = 1, !.changes = 2, !.gestures = 1, !.reviews = TRUE]
Reviewing == [Nothing EXCEPT !.repos = 1, !.changes = 1, !.ticks = 2, !.faults = 1, !.reviews = TRUE]
MCIntakeBounds == {Nothing, Skipping, Changing, Long, Paused, Reviewing}

\* Comments whose attempts fail and whose webhooks come again, and more of
\* them than an hour's limit.
Quiet     == [mentions |-> 0, faults |-> 0, again |-> 0, hours |-> 0]
Retrying  == [Quiet EXCEPT !.mentions = 2, !.faults = 3, !.again = 1]
Crowded   == [Quiet EXCEPT !.mentions = 3, !.faults = 1, !.hours = 1]
MCMentionBounds == {Quiet, Retrying, Crowded}

\* More changes than the queue and the buffer hold, with every failure, and
\* one more with the listener's connection lost.
Still     == [changes |-> 0, others |-> 0, cuts |-> 0, breaks |-> 0, errors |-> 0]
Failing   == [changes |-> 1, others |-> 2, cuts |-> 1, breaks |-> 1, errors |-> 1]
Lively    == [changes |-> 2, others |-> 2, cuts |-> 1, breaks |-> 0, errors |-> 0]
MCLiveBounds == {Still, Failing, Lively}

\* A rollout, a failover and a tenure that fails.
Steady    == [lost |-> 0, failed |-> 0, stopped |-> 0]
Unsteady  == [lost |-> 1, failed |-> 1, stopped |-> 2]
MCLeaderBounds == {Steady, Unsteady}

\* A run through three failed calls and the death of its worker and of the
\* sweeping leader.
Unlaunched == [runs |-> 0, faults |-> 0, deaths |-> 0]
Launched   == [runs |-> 1, faults |-> 3, deaths |-> 2]
MCKubeBounds == {Unlaunched, Launched}

Init ==
    /\ part \in {"intake", "mentions", "live", "leader", "kube"}
    /\ IntakeInit  /\ (part = "intake")   = (room # Nothing)
    /\ MentionInit /\ (part = "mentions") = (spare # Quiet)
    /\ LiveInit    /\ (part = "live")     = (chances # Still) /\ (part = "live") = (page = Blank)
    /\ LeaderInit  /\ (part = "leader")   = (mishaps # Steady)
    /\ KubeInit    /\ (part = "kube")     = (troubles # Unlaunched)

Next ==
    \/ part = "intake"   /\ IntakeNext  /\ UNCHANGED <<mentionVars, liveVars, leaderVars, kubeVars, part>>
    \/ part = "mentions" /\ MentionNext /\ UNCHANGED <<intakeVars, liveVars, leaderVars, kubeVars, part>>
    \/ part = "live"     /\ LiveNext    /\ UNCHANGED <<intakeVars, mentionVars, leaderVars, kubeVars, part>>
    \/ part = "leader"   /\ LeaderNext  /\ UNCHANGED <<intakeVars, mentionVars, liveVars, kubeVars, part>>
    \/ part = "kube"     /\ KubeNext    /\ UNCHANGED <<intakeVars, mentionVars, liveVars, leaderVars, part>>

\* Each part's own fairness, when it is the part of the behaviour.
Fairness ==
    /\ WF_intakeVars(part = "intake" /\ Polling)
    /\ \A m \in Mention : WF_mentionVars(part = "mentions" /\ Attempt(m))
    /\ WF_liveVars(part = "live" /\ Listening)
    /\ WF_liveVars(part = "live" /\ Publish1)
    /\ WF_liveVars(part = "live" /\ ServeFrame)
    /\ WF_liveVars(part = "live" /\ OpenStream)
    /\ WF_liveVars(part = "live" /\ Refetch)
    /\ WF_liveVars(part = "live" /\ Loading)
    /\ WF_kubeVars(part = "kube" /\ KubeTick)
    /\ WF_kubeVars(part = "kube" /\ Sweeping)
    /\ \A r \in Runs :
        /\ WF_kubeVars(part = "kube" /\ CutRun(r))
        /\ WF_kubeVars(part = "kube" /\ (CancelRun(r) \/ Worker(r)))
        /\ WF_kubeVars(part = "kube" /\ JobEnds(r))

Spec == Init /\ [][Next]_serveVars /\ Fairness

TypeOK == IntakeTypeOK /\ MentionTypeOK /\ LiveTypeOK /\ LeaderTypeOK /\ KubeTypeOK

\* Nothing begun outside the database is left behind: each mention has its
\* answer or its refusal, and no run's Secret stays in the cluster.
NothingLeftBehind == MentionsEnd /\ SecretsGo
====
