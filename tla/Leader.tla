---- MODULE Leader ----
(***************************************************************************)
(* Which replica leads (store/leader.go) and what its tenure does with the *)
(* configuration (cmd/kritika/main.go, store/configsync.go).               *)
(*                                                                         *)
(* The lock is a Postgres advisory lock of one connection's session: the   *)
(* server frees it when it loses the session, and the leader learns of     *)
(* that when its next ping fails.  A tenure migrates, starts its duties    *)
(* (poll, sweeps, rescue, onboarding), applies the configuration its       *)
(* replica was started with, over other connections, and ends its duties   *)
(* before it gives the lock back.                                          *)
(***************************************************************************)
EXTENDS Integers, FiniteSets

CONSTANTS Replica,
          Files,       \* configuration files, 1 the oldest
          LeaderBounds \* what may happen in a behaviour

\* Sessions lost, calls that fail, replicas that stop or are killed.
LeaderBound == [lost : Nat, failed : Nat, stopped : Nat]

Nobody == 0

ASSUME LeaderAssumption ==
    /\ Nobody \notin Replica
    /\ Files \in Nat \ {0} /\ LeaderBounds \subseteq LeaderBound

VARIABLES
    lock,    \* who holds the lock on the server, or Nobody
    tenure,  \* how far each replica's tenure is
    deaf,    \* replicas whose session the server lost under their tenure
    file,    \* the configuration each replica read when it started
    config, \* config_state, the file last applied
    late,    \* history: a replica whose session was lost applied its file
    mishaps  \* what may still happen

leaderVars == <<lock, tenure, deaf, file, config, late, mishaps>>

\* A tenure's duties run from when it has migrated until they are over.
Dutiful == {"applying", "leading", "refused", "ending"}
Tenured == Dutiful \cup {"migrating", "over"}

LeaderTypeOK ==
    /\ lock \in Replica \cup {Nobody}
    /\ tenure \in [Replica -> Tenured \cup {"none", "down"}]
    /\ deaf \subseteq {r \in Replica : tenure[r] \in Tenured}
    /\ \A r \in Replica : lock = r => tenure[r] \in Tenured /\ r \notin deaf
    /\ file \in [Replica -> 1..Files] /\ config \in 0..Files
    /\ late \in BOOLEAN /\ mishaps \in LeaderBound

LeaderInit ==
    /\ lock = Nobody /\ tenure = [r \in Replica |-> "none"] /\ deaf = {}
    /\ file = [r \in Replica |-> 1] /\ config = 0 /\ late = FALSE
    /\ mishaps \in LeaderBounds

Mishap(what) == mishaps[what] > 0 /\ mishaps' = [mishaps EXCEPT ![what] = @ - 1]
Turn(r, to)  == tenure' = [tenure EXCEPT ![r] = to]

TryLead(r) ==
    /\ tenure[r] = "none" /\ lock = Nobody
    /\ lock' = r /\ Turn(r, "migrating")
    /\ UNCHANGED <<deaf, file, config, late, mishaps>>

\* A lock that lasted for the migration's transaction only.
MigrateAlone(r) ==
    /\ tenure[r] = "migrating"
    /\ lock' = Nobody /\ Turn(r, "applying")
    /\ UNCHANGED <<deaf, file, config, late, mishaps>>

\* The schema is current; the duties start.
Migrate(r) ==
    /\ tenure[r] = "migrating"
    /\ Turn(r, "applying")
    /\ UNCHANGED <<lock, deaf, file, config, late, mishaps>>

\* One transaction.  A file the database refuses for what it says is left
\* unapplied, and the tenure goes on.
ApplyConfig(r) ==
    /\ tenure[r] = "applying"
    /\ \/ config' = file[r] /\ Turn(r, "leading") /\ late' = (late \/ r \in deaf) /\ UNCHANGED mishaps
       \/ Turn(r, "refused") /\ Mishap("failed") /\ UNCHANGED <<config, late>>
    /\ UNCHANGED <<lock, deaf, file>>

\* Migrating or applying failed otherwise, or what follows the file's
\* transaction did: the tenure ends.
LeadFails(r) ==
    /\ Mishap("failed")
    /\ \/ tenure[r] = "migrating" /\ Turn(r, "over") /\ UNCHANGED <<config, late>>
       \/ tenure[r] = "applying" /\ Turn(r, "ending") /\ UNCHANGED <<config, late>>
       \/ tenure[r] = "applying" /\ Turn(r, "ending") /\ config' = file[r] /\ late' = (late \/ r \in deaf)
    /\ UNCHANGED <<lock, deaf, file>>

\* The server ends the session, as in a failover, and the lock is free.
LoseSession(r) ==
    /\ lock = r /\ Mishap("lost")
    /\ lock' = Nobody /\ deaf' = deaf \cup {r}
    /\ UNCHANGED <<tenure, file, config, late>>

\* A ping fails: what the tenure was doing is cancelled.
StepDown(r) ==
    /\ r \in deaf /\ tenure[r] \in {"migrating", "applying", "leading", "refused"}
    /\ Turn(r, IF tenure[r] = "migrating" THEN "over" ELSE "ending")
    /\ UNCHANGED <<lock, deaf, file, config, late, mishaps>>

\* A lead function that does not wait for its duties.
DutiesLinger(r) ==
    /\ tenure[r] = "ending" /\ lock = r
    /\ lock' = Nobody
    /\ UNCHANGED <<tenure, deaf, file, config, late, mishaps>>

\* The lead function has returned: its duties are over.
DutiesEnd(r) ==
    /\ tenure[r] = "ending"
    /\ Turn(r, "over")
    /\ UNCHANGED <<lock, deaf, file, config, late, mishaps>>

Unlock(r) ==
    /\ tenure[r] = "over"
    /\ lock' = IF lock = r THEN Nobody ELSE lock
    /\ Turn(r, "none") /\ deaf' = deaf \ {r}
    /\ UNCHANGED <<file, config, late, mishaps>>

\* The replica is told to stop: a tenure ends first.
Stop(r) ==
    /\ tenure[r] \in {"migrating", "applying", "leading", "refused"} /\ Mishap("stopped")
    /\ Turn(r, IF tenure[r] = "migrating" THEN "over" ELSE "ending")
    /\ UNCHANGED <<lock, deaf, file, config, late>>

\* It is killed, or has stopped: its session ends with it.
Kill(r) ==
    /\ tenure[r] # "down" /\ Mishap("stopped")
    /\ lock' = IF lock = r THEN Nobody ELSE lock
    /\ Turn(r, "down") /\ deaf' = deaf \ {r}
    /\ UNCHANGED <<file, config, late>>

\* It is started again, with the same file or a newer one.
Restart(r) ==
    /\ tenure[r] = "down"
    /\ Turn(r, "none")
    /\ \E f \in file[r]..Files : file' = [file EXCEPT ![r] = f]
    /\ UNCHANGED <<lock, deaf, config, late, mishaps>>

-----------------------------------------------------------------------------
LeaderNext ==
    \E r \in Replica :
        \/ TryLead(r) \/ Migrate(r) \/ ApplyConfig(r) \/ LeadFails(r)
        \/ LoseSession(r) \/ StepDown(r) \/ DutiesEnd(r) \/ Unlock(r)
        \/ Stop(r) \/ Kill(r) \/ Restart(r)

LeaderSpec == LeaderInit /\ [][LeaderNext]_leaderVars

-----------------------------------------------------------------------------
(* Properties *)

\* "Every leader duty ends before lead returns and the lock is released, so
\* the next leader never runs one alongside this replica's" (main.go): two
\* replicas do leader duties at once only while one of them has yet to learn
\* that its session was lost, or is ending its tenure for it.
DutiesAlone ==
    \A r, q \in Replica : r # q /\ tenure[r] \in Dutiful /\ tenure[q] \in Dutiful => deaf \cap {r, q} # {}

\* The database has the leader's configuration: once a tenure has applied its
\* file, no other replica's is applied while it lasts, through any order of
\* elections, stops and restarts of a rollout; unless a replica that lost its
\* session was in the middle of applying its own.
LeadersConfigStands ==
    \A r \in Replica : tenure[r] = "leading" /\ r \notin deaf => config = file[r] \/ late

\* A leader leads alone and its configuration is the one in force.
LeadershipHeld == DutiesAlone /\ LeadersConfigStands
====
