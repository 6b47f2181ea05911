----------------------------- MODULE ModelLease -----------------------------
(***************************************************************************)
(* An account's slots on a model (internal/store/lease.go) and the jobs    *)
(* that need one: a review takes a slot of its review model before its     *)
(* runner starts and reads the account's caps under it, or is snoozed      *)
(* (internal/worker/review.go, agentic.go); its agent's searches take a    *)
(* slot of the embedder for one call (internal/gateway/similar.go); a      *)
(* follow-up waits for a slot of the review model, an index job for one    *)
(* of the embedder (internal/worker/base.go).                              *)
(*                                                                         *)
(* A slot is a row: the job that holds it and whether its expiry is still  *)
(* to come.  A holder renews it until it releases it; one whose renewals   *)
(* fail, or whose process died, lets it expire, and the next taker finds   *)
(* it free.                                                                *)
(***************************************************************************)
EXTENDS Naturals, FiniteSets

CONSTANTS
    Review, FollowUp, Index, \* the jobs of each kind
    Slots,         \* limits.concurrency
    ReviewsPerDay, \* limits.reviewsPerDay
    MaxLeaseFaults \* how many leases lapse, processes die and releases fail

ASSUME JobsAssumption ==
    /\ IsFiniteSet(Review) /\ IsFiniteSet(FollowUp) /\ IsFiniteSet(Index)
    /\ Review \cap FollowUp = {} /\ Review \cap Index = {} /\ FollowUp \cap Index = {}
ASSUME SlotsAssumption == Slots \in Nat \ {0} /\ ReviewsPerDay \in Nat \ {0}
ASSUME LeaseBoundAssumption == MaxLeaseFaults \in Nat

VARIABLES
    lease,     \* model_leases: for each model's slots, holder and expiry
    held,      \* the slot the Lease a process holds names, 0 for none
    job,       \* where the worker of a job stands
    search,    \* where its agent's search stands
    completed, \* reviews completed today
    lapses,    \* leases that lapsed under a living holder
    failures   \* processes that died and releases that failed

leaseVars == <<lease, held, job, search, completed, lapses, failures>>

-----------------------------------------------------------------------------
Job   == Review \cup FollowUp \cup Index
Key   == {"review", "embed"}
Slot  == 1..Slots
NoJob == "none"
Free  == [owner |-> NoJob, live |-> FALSE]

\* The model a job's own slot is of.
KeyOf(j) == IF j \in Index THEN "embed" ELSE "review"

LeaseTypeOK ==
    /\ lease \in [Key -> [Slot -> [owner: Job, live: BOOLEAN] \cup {Free}]]
    /\ held \in [Key -> [Job -> 0..Slots]]
    /\ job \in [Job -> {"queued", "snoozed", "admit", "caps", "working", "leaving", "capped", "ended", "dead"}]
    /\ search \in [Review -> {"idle", "waiting", "embedding", "done"}]
    /\ completed \in Nat
    /\ lapses + failures \in 0..MaxLeaseFaults

\* The jobs are queued, or all are done.
LeaseInit ==
    /\ lease = [k \in Key |-> [n \in Slot |-> Free]]
    /\ held = [k \in Key |-> [j \in Job |-> 0]]
    /\ job \in {[j \in Job |-> s] : s \in {"queued", "ended"}}
    /\ search = [j \in Review |-> "idle"]
    /\ completed = 0 /\ lapses = 0 /\ failures = 0

Goes(j, from, to) == job[j] = from /\ job' = [job EXCEPT ![j] = to]

-----------------------------------------------------------------------------
(* store/lease.go.                                                         *)

\* indexSlots: all but one, so a review's search finds one.
IndexSlots == IF Slots > 1 THEN Slots - 1 ELSE 1

\* The slots a job may take of a model.
SlotsFor(j) == IF j \in Index THEN 1..IndexSlots ELSE Slot

\* MUTANT of Takable: a lease is its job's until it is released.
TakableNeverExpires(k, j) == {n \in SlotsFor(j) : lease[k][n].owner = NoJob}

Takable(k, j) == {n \in SlotsFor(j) : ~lease[k][n].live}

\* TakeLease: the lowest slot that nobody holds or whose lease has expired.
TakeLease(k, j) ==
    \E n \in Takable(k, j) :
        /\ \A m \in Takable(k, j) : n <= m
        /\ lease' = [lease EXCEPT ![k][n] = [owner |-> j, live |-> TRUE]]
        /\ held' = [held EXCEPT ![k][j] = n]

\* MUTANTS of Freed: the slot is freed whoever holds it now; the row keeps
\* its expiry.
FreedOfAnyone(k, j) == [lease EXCEPT ![k][held[k][j]] = Free]
FreedUnexpired(k, j) ==
    IF lease[k][held[k][j]].owner = j THEN [lease EXCEPT ![k][held[k][j]].owner = NoJob] ELSE lease

\* The slots once j's update of its own row went through: a row that
\* another job took over is left alone.
Freed(k, j) ==
    IF lease[k][held[k][j]].owner = j THEN [lease EXCEPT ![k][held[k][j]] = Free] ELSE lease

\* Release stops the renewals and frees the row, unless the update fails:
\* the row is then left to expire.
Release(k, j) ==
    /\ \/ lease' = Freed(k, j) /\ UNCHANGED failures
       \/ lapses + failures < MaxLeaseFaults /\ failures' = failures + 1 /\ UNCHANGED lease
    /\ held' = [held EXCEPT ![k][j] = 0]

\* A living holder's renewals fail for as long as a lease lasts.
Lapse(k, j) ==
    /\ lapses + failures < MaxLeaseFaults /\ lapses' = lapses + 1
    /\ held[k][j] # 0 /\ lease[k][held[k][j]] = [owner |-> j, live |-> TRUE]
    /\ lease' = [lease EXCEPT ![k][held[k][j]].live = FALSE]
    /\ UNCHANGED <<held, job, search, completed, failures>>

\* heartbeat: a renewal finds its row again, expired or not, unless it was
\* taken over.
Renew(k, j) ==
    /\ held[k][j] # 0 /\ lease[k][held[k][j]] = [owner |-> j, live |-> FALSE]
    /\ lease' = [lease EXCEPT ![k][held[k][j]].live = TRUE]
    /\ UNCHANGED <<held, job, search, completed, lapses, failures>>

\* A row nobody renews any more expires.
Expire(k, n) ==
    /\ lease[k][n].live /\ held[k][lease[k][n].owner] # n
    /\ lease' = [lease EXCEPT ![k][n].live = FALSE]
    /\ UNCHANGED <<held, job, search, completed, lapses, failures>>

-----------------------------------------------------------------------------
(* A review: internal/worker/review.go, agentic.go.                        *)

\* begin, slotsHeld: a hint that a slot is free, or a snooze.
Begin(j) ==
    /\ \/ Takable("review", j) # {} /\ Goes(j, "queued", "admit")
       \/ Takable("review", j) = {} /\ Goes(j, "queued", "snoozed")
    /\ UNCHANGED <<lease, held, search, completed, lapses, failures>>

\* River gives a snoozed job to a worker again.
Wake(j) ==
    /\ Goes(j, "snoozed", "queued")
    /\ UNCHANGED <<lease, held, search, completed, lapses, failures>>

\* agentAdmit takes the slot or, the one begin saw taken since, snoozes.
Admit(j) ==
    /\ \/ Goes(j, "admit", "caps") /\ TakeLease("review", j)
       \/ /\ Takable("review", j) = {} /\ Goes(j, "admit", "snoozed")
          /\ UNCHANGED <<lease, held>>
    /\ UNCHANGED <<search, completed, lapses, failures>>

\* MUTANT of CapReached: one review over the cap is let pass.
CapReachedLate == completed > ReviewsPerDay

\* CapReason, of the reviews completed today.
CapReached == completed >= ReviewsPerDay

\* agentCaps, read under the lease: a capped review gives it back.
Caps(j) ==
    /\ \/ ~CapReached /\ Goes(j, "caps", "working") /\ UNCHANGED <<lease, held, failures>>
       \/ CapReached /\ Goes(j, "caps", "capped") /\ Release("review", j)
    /\ UNCHANGED <<search, completed, lapses>>

\* The runner's agent asks for similar code, once here, and the gateway
\* waits for a slot of the embedder.
Search(j) ==
    /\ job[j] = "working" /\ search[j] = "idle"
    /\ search' = [search EXCEPT ![j] = "waiting"]
    /\ UNCHANGED <<lease, held, job, completed, lapses, failures>>

\* similar: AcquireLease, one call, Release.
SearchStarts(j) ==
    /\ search[j] = "waiting" /\ TakeLease("embed", j)
    /\ search' = [search EXCEPT ![j] = "embedding"]
    /\ UNCHANGED <<job, completed, lapses, failures>>

SearchEnds(j) ==
    /\ search[j] = "embedding" /\ Release("embed", j)
    /\ search' = [search EXCEPT ![j] = "done"]
    /\ UNCHANGED <<job, completed, lapses>>

\* The run ended and the review with it: completed, or not when it was
\* superseded, cancelled or failed.  A search still waiting is given up with
\* its request; one that is embedding is not.
ReviewEnds(j) ==
    /\ j \in Review /\ Goes(j, "working", "leaving")
    /\ \/ search[j] \in {"idle", "done"} /\ completed' = completed + 1 /\ UNCHANGED search
       \/ /\ UNCHANGED completed
          /\ search' = IF search[j] = "waiting" THEN [search EXCEPT ![j] = "done"] ELSE search
    /\ UNCHANGED <<lease, held, lapses, failures>>

-----------------------------------------------------------------------------
(* A follow-up and an index job: withLease.                                *)

Acquire(j) ==
    /\ Goes(j, "queued", "working") /\ TakeLease(KeyOf(j), j)
    /\ UNCHANGED <<search, completed, lapses, failures>>

CallEnds(j) ==
    /\ j \in FollowUp \cup Index
    /\ Goes(j, "working", "leaving")
    /\ UNCHANGED <<lease, held, search, completed, lapses, failures>>

\* The deferred releaseLease of any of them.
Leave(j) ==
    /\ Goes(j, "leaving", "ended") /\ Release(KeyOf(j), j)
    /\ UNCHANGED <<search, completed, lapses>>

-----------------------------------------------------------------------------
(* A worker dies with the lease it renews; its job is rescued and worked   *)
(* again under the same id.                                                *)

Die(j) ==
    /\ lapses + failures < MaxLeaseFaults /\ failures' = failures + 1
    /\ \E from \in {"admit", "caps", "working", "leaving"} : Goes(j, from, "dead")
    /\ held' = [held EXCEPT ![KeyOf(j)][j] = 0]
    /\ search' = IF j \in Review /\ search[j] = "waiting" THEN [search EXCEPT ![j] = "done"] ELSE search
    /\ UNCHANGED <<lease, completed, lapses>>

Rescued(j) ==
    /\ Goes(j, "dead", "queued") /\ (j \in Review => search[j] # "embedding")
    /\ UNCHANGED <<lease, held, search, completed, lapses, failures>>

-----------------------------------------------------------------------------
\* What the worker of a job does that no other job holds up.
Works(j) ==
    \/ j \in Review /\ (Begin(j) \/ Wake(j) \/ Caps(j) \/ ReviewEnds(j))
    \/ CallEnds(j) \/ Leave(j) \/ Rescued(j)

LeaseNext ==
    \/ \E j \in Review : Admit(j) \/ Search(j) \/ SearchStarts(j) \/ SearchEnds(j)
    \/ \E j \in FollowUp \cup Index : Acquire(j)
    \/ \E j \in Job : Works(j) \/ Die(j)
    \/ \E k \in Key, j \in Job : Lapse(k, j) \/ Renew(k, j)
    \/ \E k \in Key, n \in Slot : Expire(k, n)

\* Jobs and requests are worked, leases nobody renews expire, and those who
\* wait for a slot try again at jittered intervals: one that is free again
\* and again is taken in the end.
LeaseFairness ==
    /\ \A j \in Review : WF_leaseVars(SearchEnds(j)) /\ SF_leaseVars(Admit(j)) /\ SF_leaseVars(SearchStarts(j))
    /\ \A j \in FollowUp \cup Index : SF_leaseVars(Acquire(j))
    /\ \A j \in Job : WF_leaseVars(Works(j))
    /\ WF_leaseVars(\E k \in Key, n \in Slot : Expire(k, n))

LeaseSpec == LeaseInit /\ [][LeaseNext]_leaseVars /\ LeaseFairness

LeaseIdle == \A j \in Job : job[j] = "ended"

-----------------------------------------------------------------------------
(* Properties.                                                             *)

Holders(k) == {j \in Job : held[k][j] # 0}
Lost(k)    == {j \in Holders(k) : lease[k][held[k][j]] # [owner |-> j, live |-> TRUE]}

ReviewSlots == INSTANCE LapsingSemaphore
    WITH Client <- Job, Permits <- Slots, holders <- Holders("review"), lost <- Lost("review")
EmbedSlots == INSTANCE LapsingSemaphore
    WITH Client <- Job, Permits <- Slots, holders <- Holders("embed"), lost <- Lost("embed")

\* The slots of each model are a semaphore.  A job is beyond the permits
\* only by a lapse of its own or of another: whatever renewals, late
\* releases and takeovers meet on one row, none costs a third job its slot.
SlotsAreASemaphore == ReviewSlots!Spec /\ EmbedSlots!Spec

\* The day's cap is overshot by no more reviews than are admitted at once:
\* by the slots but one, and one for each lapse.
CapOvershootBounded == completed < ReviewsPerDay + Slots + lapses

\* What is to become true: no job waits for a slot for good, reviews that were snoozed are admitted
\* or capped, and a review waiting for the embedder under its review slot
\* is never part of a circle of waiters.
AllHadTheirTurn == \A j \in Job : job[j] \in {"ended", "capped"}

=============================================================================
