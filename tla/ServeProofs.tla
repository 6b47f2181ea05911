---------------------------- MODULE ServeProofs ----------------------------
(***************************************************************************)
(* Proofs about what "kritika serve" does beside its jobs: Leader,         *)
(* Mentions, KubeRun, Intake and LiveView, each for every value of its     *)
(* constants, and about MCServe, where each behaviour is one of theirs.    *)
(***************************************************************************)
EXTENDS MCServe, SequenceTheorems, TLAPS

-----------------------------------------------------------------------------
(***************************************************************************)
(* Leadership, for every set of replicas, every number of configuration    *)
(* files and every number of lost sessions, failures and restarts.         *)
(*                                                                         *)
(* What a replica may believe about itself and what the server knows meet  *)
(* in one fact: a replica in a tenure whose session was not lost holds the *)
(* lock.  The lock has one holder, so two tenures at once have a deaf one  *)
(* among them, which is the first half of LeadershipHeld.  The second      *)
(* half, about the configuration, needs the same fact at the step that     *)
(* applies a file: whoever applies one while another replica leads has     *)
(* lost its session, and the history records it.                           *)
(***************************************************************************)

\* A replica in a tenure of a living session is the one the server gave the lock.
TenuresHoldTheLock == \A r \in Replica : tenure[r] \in Tenured /\ r \notin deaf => lock = r

LeaderSound == LeaderTypeOK /\ TenuresHoldTheLock /\ LeadersConfigStands

LeaderStep(r) ==
    \/ TryLead(r) \/ Migrate(r) \/ ApplyConfig(r) \/ LeadFails(r)
    \/ LoseSession(r) \/ StepDown(r) \/ DutiesEnd(r) \/ Unlock(r)
    \/ Stop(r) \/ Kill(r) \/ Restart(r)

-----------------------------------------------------------------------------
(* Types. *)

\* What may still happen is counted down, and only when there is some left.
LEMMA MishapTyped ==
    ASSUME mishaps \in LeaderBound, NEW what \in {"lost", "failed", "stopped"},
           Mishap(what) \/ mishaps' = mishaps
    PROVE  mishaps' \in LeaderBound
BY DEF LeaderBound, Mishap

LEMMA LeaderTypeInit == LeaderInit => LeaderTypeOK
<1> SUFFICES ASSUME LeaderInit PROVE LeaderTypeOK OBVIOUS
<1>1. mishaps \in LeaderBound BY LeaderAssumption DEF LeaderInit
<1>2. lock \in Replica \cup {Nobody} /\ \A r \in Replica : lock # r
  BY LeaderAssumption DEF LeaderInit
<1>3. tenure \in [Replica -> Tenured \cup {"none", "down"}] /\ file \in [Replica -> 1..Files]
  BY LeaderAssumption DEF LeaderInit
<1>4. deaf \subseteq {r \in Replica : tenure[r] \in Tenured} /\ late \in BOOLEAN
  BY DEF LeaderInit
<1>5. config \in 0..Files BY LeaderAssumption DEF LeaderInit
<1>6. QED BY <1>1, <1>2, <1>3, <1>4, <1>5 DEF LeaderTypeOK

LEMMA LeaderTypeNext ==
    ASSUME LeaderTypeOK, NEW r \in Replica, LeaderStep(r) PROVE LeaderTypeOK'
<1> USE LeaderAssumption DEF LeaderTypeOK, Turn, Tenured, Dutiful
<1>1. CASE TryLead(r)      BY <1>1 DEF TryLead
<1>2. CASE Migrate(r)      BY <1>2 DEF Migrate
<1>3. CASE ApplyConfig(r)
  <2>1. Mishap("failed") \/ mishaps' = mishaps BY <1>3 DEF ApplyConfig
  <2>2. mishaps' \in LeaderBound BY <2>1, MishapTyped
  <2>3. late' \in BOOLEAN BY <1>3, Zenon DEF ApplyConfig
  <2>4. config' = config \/ config' = file[r] BY <1>3, Zenon DEF ApplyConfig
  <2>5. config' \in 0..Files BY <2>4
  <2>6. tenure' \in [Replica -> Tenured \cup {"none", "down"}] /\ UNCHANGED <<lock, deaf, file>>
        /\ \A q \in Replica : tenure[q] \in Tenured => tenure'[q] \in Tenured
    BY <1>3 DEF ApplyConfig
  <2>7. QED BY <2>2, <2>3, <2>5, <2>6
<1>4. CASE LeadFails(r)
  <2>1. Mishap("failed") \/ mishaps' = mishaps BY <1>4 DEF LeadFails
  <2>2. mishaps' \in LeaderBound BY <2>1, MishapTyped
  <2>3. late' \in BOOLEAN BY <1>4, Zenon DEF LeadFails
  <2>4. config' = config \/ config' = file[r] BY <1>4, Zenon DEF LeadFails
  <2>5. config' \in 0..Files BY <2>4
  <2>6. tenure' \in [Replica -> Tenured \cup {"none", "down"}] /\ UNCHANGED <<lock, deaf, file>>
        /\ \A q \in Replica : tenure[q] \in Tenured => tenure'[q] \in Tenured
    BY <1>4 DEF LeadFails
  <2>7. QED BY <2>2, <2>3, <2>5, <2>6
<1>5. CASE LoseSession(r)
  <2>1. Mishap("lost") \/ mishaps' = mishaps BY <1>5 DEF LoseSession
  <2>2. mishaps' \in LeaderBound BY <2>1, MishapTyped
  <2>3. QED BY <1>5, <2>2 DEF LoseSession, Nobody
<1>6. CASE StepDown(r)     BY <1>6 DEF StepDown
<1>7. CASE DutiesEnd(r)    BY <1>7 DEF DutiesEnd
<1>8. CASE Unlock(r)       BY <1>8 DEF Unlock, Nobody
<1>9. CASE Stop(r)
  <2>1. Mishap("stopped") \/ mishaps' = mishaps BY <1>9 DEF Stop
  <2>2. mishaps' \in LeaderBound BY <2>1, MishapTyped
  <2>3. QED BY <1>9, <2>2 DEF Stop
<1>10. CASE Kill(r)
  <2>1. Mishap("stopped") \/ mishaps' = mishaps BY <1>10 DEF Kill
  <2>2. mishaps' \in LeaderBound BY <2>1, MishapTyped
  <2>3. QED BY <1>10, <2>2 DEF Kill, Nobody
<1>11. CASE Restart(r)     BY <1>11 DEF Restart
<1>12. QED BY <1>1, <1>2, <1>3, <1>4, <1>5, <1>6, <1>7, <1>8, <1>9, <1>10, <1>11 DEF LeaderStep

-----------------------------------------------------------------------------
(* The lock. *)

\* Losing the session makes the tenure deaf, and only the end of the tenure
\* gives the lock back.
LEMMA LockKept ==
    ASSUME LeaderSound, NEW r \in Replica, LeaderStep(r) PROVE TenuresHoldTheLock'
<1> USE DEF LeaderSound, LeaderTypeOK, TenuresHoldTheLock, Turn, Tenured, Dutiful
<1>1. CASE TryLead(r)      BY <1>1, LeaderAssumption DEF TryLead
<1>2. CASE Migrate(r)      BY <1>2 DEF Migrate
<1>3. CASE ApplyConfig(r)  BY <1>3 DEF ApplyConfig
<1>4. CASE LeadFails(r)    BY <1>4 DEF LeadFails
<1>5. CASE LoseSession(r)  BY <1>5 DEF LoseSession
<1>6. CASE StepDown(r)     BY <1>6 DEF StepDown
<1>7. CASE DutiesEnd(r)    BY <1>7 DEF DutiesEnd
<1>8. CASE Unlock(r)       BY <1>8 DEF Unlock
<1>9. CASE Stop(r)         BY <1>9 DEF Stop
<1>10. CASE Kill(r)        BY <1>10 DEF Kill
<1>11. CASE Restart(r)     BY <1>11 DEF Restart
<1>12. QED BY <1>1, <1>2, <1>3, <1>4, <1>5, <1>6, <1>7, <1>8, <1>9, <1>10, <1>11 DEF LeaderStep

-----------------------------------------------------------------------------
(* The configuration. *)

\* A file applied while another replica leads is applied by a deaf one.
LEMMA OtherIsDeaf ==
    ASSUME LeaderSound, NEW r \in Replica, NEW q \in Replica, q # r,
           tenure[r] = "applying", tenure[q] = "leading", q \notin deaf
    PROVE  r \in deaf
BY DEF LeaderSound, TenuresHoldTheLock, Tenured, Dutiful

\* A leader's file stands, or a deaf replica's came over it.
LEMMA ConfigKept ==
    ASSUME LeaderSound, NEW r \in Replica, LeaderStep(r) PROVE LeadersConfigStands'
<1> USE DEF LeaderSound, LeaderTypeOK, LeadersConfigStands, Turn
<1>1. CASE TryLead(r)      BY <1>1 DEF TryLead
<1>2. CASE Migrate(r)      BY <1>2 DEF Migrate
<1>3. CASE ApplyConfig(r)
  <2>1. ASSUME NEW q \in Replica, tenure'[q] = "leading", q \notin deaf'
        PROVE  config' = file'[q] \/ late'
    <3>1. CASE q = r  BY <1>3, <2>1, <3>1 DEF ApplyConfig
    <3>2. CASE q # r
      <4>1. r \in deaf BY <1>3, <2>1, <3>2, OtherIsDeaf DEF ApplyConfig
      <4>2. QED BY <1>3, <2>1, <3>2, <4>1 DEF ApplyConfig
    <3>3. QED BY <3>1, <3>2
  <2>2. QED BY <2>1
<1>4. CASE LeadFails(r)
  <2>1. ASSUME NEW q \in Replica, tenure'[q] = "leading", q \notin deaf'
        PROVE  config' = file'[q] \/ late'
    <3>1. q # r  BY <1>4, <2>1 DEF LeadFails
    <3>2. tenure[q] = "leading" /\ q \notin deaf
      BY <1>4, <2>1, <3>1 DEF LeadFails
    <3>3. tenure[r] = "applying" => r \in deaf
      BY <2>1, <3>1, <3>2, OtherIsDeaf
    <3>4. config = file[q] \/ late BY <3>2
    <3>5. UNCHANGED <<config, late>> \/ (tenure[r] = "applying" /\ late' = (late \/ r \in deaf))
      BY <1>4, Zenon DEF LeadFails
    <3>6. UNCHANGED file BY <1>4 DEF LeadFails
    <3>7. QED BY <3>3, <3>4, <3>5, <3>6
  <2>2. QED BY <2>1
<1>5. CASE LoseSession(r)  BY <1>5 DEF LoseSession
<1>6. CASE StepDown(r)     BY <1>6 DEF StepDown
<1>7. CASE DutiesEnd(r)    BY <1>7 DEF DutiesEnd
<1>8. CASE Unlock(r)       BY <1>8 DEF Unlock
<1>9. CASE Stop(r)         BY <1>9 DEF Stop
<1>10. CASE Kill(r)        BY <1>10 DEF Kill
<1>11. CASE Restart(r)     BY <1>11 DEF Restart
<1>12. QED BY <1>1, <1>2, <1>3, <1>4, <1>5, <1>6, <1>7, <1>8, <1>9, <1>10, <1>11 DEF LeaderStep

-----------------------------------------------------------------------------
(* Theorems. *)

\* The invariant holds at first, and every step of every replica keeps it.
LEMMA LeaderInitSound == LeaderInit => LeaderSound
BY LeaderTypeInit DEF LeaderInit, LeaderSound, TenuresHoldTheLock, LeadersConfigStands, Tenured, Dutiful

LEMMA LeaderNextSound == LeaderSound /\ [LeaderNext]_leaderVars => LeaderSound'
<1>1. ASSUME LeaderSound, NEW r \in Replica, LeaderStep(r) PROVE LeaderSound'
  BY <1>1, LeaderTypeNext, LockKept, ConfigKept DEF LeaderSound
<1>2. ASSUME LeaderSound, UNCHANGED leaderVars PROVE LeaderSound'
  BY <1>2 DEF leaderVars, LeaderSound, LeaderTypeOK, TenuresHoldTheLock, LeadersConfigStands
<1>3. QED BY <1>1, <1>2 DEF LeaderNext, LeaderStep

LEMMA LeaderInvariant == LeaderSpec => []LeaderSound
BY LeaderInitSound, LeaderNextSound, PTL DEF LeaderSpec

\* A replica leads alone and its configuration is the one in force, whatever
\* sessions are lost and replicas killed: another can be about leader duties
\* only in a tenure that has lost its session, and only such a one can have
\* applied another file.
THEOREM LeadersAreAlone == LeaderSpec => []LeadershipHeld
<1>1. LeaderSound => LeadershipHeld
  BY DEF LeaderSound, TenuresHoldTheLock, LeadershipHeld, DutiesAlone, Tenured
<1>2. QED BY <1>1, LeaderInvariant, PTL

-----------------------------------------------------------------------------
(***************************************************************************)
(* Replies to mentions, for every set of comments, every number of         *)
(* attempts, faults and redelivered webhooks, and every limit per hour.    *)
(*                                                                         *)
(* A reply is followed along its comment's job.  Once it is posted, and as *)
(* long as somebody may still record it, the job is nowhere past its       *)
(* search: it is about to record the reply, or will look for it before it  *)
(* does anything else, or the row has it (ReplyFound).  This holds because *)
(* an attempt goes past its check only for a mention that no row says is   *)
(* handled (Undecided), and because an attempt that comes back is not the  *)
(* first.  So a second reply needs a first that was given up on.           *)
(***************************************************************************)

Deciding == {"search", "qualify", "limit", "notice", "act", "reply", "record"}
Settling == {"qualify", "limit", "notice", "act", "reply"}

\* An attempt past its check has a mention that no row says is handled; and
\* what a row calls answered has its reply.
Undecided(m) ==
    /\ job[m].pc \in Deciding => ~Handled(m)
    /\ answers[m].status = "answered" => answers[m].reply

\* The job will look for a reply before it could post one.
WillSearch(m) ==
    \/ job[m].pc = "queued" /\ job[m].attempt > 0
    \/ job[m].pc = "check" /\ job[m].attempt > 1
    \/ job[m].pc \in {"search", "record"}

\* A reply that was not given up on is in the row, or will be found.
ReplyFound(m) ==
    replies[m] > 0 /\ m \notin unrecorded =>
        /\ job[m].pc \notin Settling
        /\ answers[m].reply \/ WillSearch(m)
        /\ answers[m].status = "limited" => answers[m].reply

\* One reply, after what it tells of and before its record.
OneReply(m) ==
    /\ replies[m] > 1 => m \in unrecorded
    /\ job[m].pc = "record" => replies[m] > 0
    /\ m \in Command /\ (replies[m] > 0 \/ job[m].pc = "reply") => m \in applied

\* An attempt is started only while some are left.
AttemptsLeft(m) == job[m].pc = "queued" => job[m].attempt < MentionAttempts

Tracked(m) == Undecided(m) /\ ReplyFound(m) /\ OneReply(m) /\ AttemptsLeft(m)

MentionSound == MentionTypeOK /\ \A m \in Mention : Tracked(m)

MentionStep(m) == Attempt(m) \/ Mentioned(m) \/ CleanMention(m) \/ WorkerDies(m) \/ AttemptFails(m)

-----------------------------------------------------------------------------
(* What a step leaves alone. *)

Places == Working \cup {"none", "queued", "kept", "gone"}

\* A step of a mention's job touches no other mention.
LEMMA OthersStay ==
    ASSUME MentionTypeOK, NEW m \in Mention, NEW q \in Mention, q # m, MentionStep(m)
    PROVE  /\ job'[q] = job[q] /\ answers'[q] = answers[q] /\ replies'[q] = replies[q]
           /\ q \in unrecorded' <=> q \in unrecorded
           /\ q \in applied' <=> q \in applied
<1> USE DEF MentionTypeOK, Then, Row, NoRecord, Retried, Forgets, Fails
<1>1. CASE StartAttempt(m) BY <1>1 DEF StartAttempt
<1>2. CASE AlreadyAnswered(m) BY <1>2 DEF AlreadyAnswered
<1>3. CASE RepliedOnForge(m) BY <1>3 DEF RepliedOnForge
<1>4. CASE Disqualified(m) BY <1>4 DEF Disqualified
<1>5. CASE RateLimited(m) BY <1>5 DEF RateLimited
<1>6. CASE RecordLimited(m) BY <1>6 DEF RecordLimited
<1>7. CASE Act(m) BY <1>7 DEF Act
<1>8. CASE Reply(m) BY <1>8 DEF Reply
<1>9. CASE RecordReply(m) BY <1>9 DEF RecordReply
<1>10. CASE Mentioned(m) BY <1>10 DEF Mentioned
<1>11. CASE CleanMention(m) BY <1>11 DEF CleanMention
<1>12. CASE WorkerDies(m) BY <1>12 DEF WorkerDies
<1>13. CASE AttemptFails(m) BY <1>13 DEF AttemptFails
<1>20. QED BY <1>1, <1>2, <1>3, <1>4, <1>5, <1>6, <1>7, <1>8, <1>9, <1>10, <1>11, <1>12, <1>13 DEF MentionStep, Attempt

\* So what is tracked of the others stays true.
LEMMA OthersTracked ==
    ASSUME MentionTypeOK, NEW m \in Mention, NEW q \in Mention, q # m, MentionStep(m), Tracked(q)
    PROVE  Tracked(q)'
BY OthersStay DEF Tracked, Undecided, Handled, ReplyFound, WillSearch, OneReply, AttemptsLeft

-----------------------------------------------------------------------------
(* What a step does to its own mention. *)

\* A job that goes back to the queue goes to its search next; one that does
\* not gives up on the reply that no row has.
LEMMA HandedBack ==
    ASSUME MentionTypeOK, NEW m \in Mention, Tracked(m), job[m].pc \in Working,
           job'[m].pc = (IF job[m].attempt < MentionAttempts THEN "queued" ELSE "gone"),
           job'[m].attempt = job[m].attempt,
           m \in unrecorded' <=> m \in unrecorded \/ (job[m].attempt = MentionAttempts /\ Unknown(m)),
           answers'[m] = answers[m] \/ (answers'[m].status = "failed" /\ answers'[m].reply = answers[m].reply),
           replies' = replies
    PROVE  ReplyFound(m)'
<1> SUFFICES ASSUME replies[m] > 0, m \notin unrecorded'
             PROVE  /\ job'[m].pc \notin Settling
                    /\ answers'[m].reply \/ WillSearch(m)'
                    /\ answers'[m].status = "limited" => answers'[m].reply
  BY DEF ReplyFound
<1>1. job[m].attempt \in 1..MentionAttempts BY MentionAssumption DEF MentionTypeOK
<1>2. m \notin unrecorded /\ (answers[m].reply \/ job[m].attempt < MentionAttempts)
  BY <1>1, MentionAssumption DEF Unknown
<1>3. job'[m].pc \notin Settling BY DEF Settling
<1>4. answers'[m].reply \/ WillSearch(m)' BY <1>1, <1>2 DEF WillSearch
<1>5. answers'[m].status = "limited" => answers'[m].reply BY <1>2 DEF Tracked, ReplyFound
<1>6. QED BY <1>3, <1>4, <1>5

\* Nothing a job does to its own mention undoes what is tracked of it.
LEMMA MineTracked ==
    ASSUME MentionTypeOK, NEW m \in Mention, MentionStep(m), Tracked(m)
    PROVE  Tracked(m)'
<1> USE MentionAssumption DEF MentionTypeOK, Then, Row, NoRecord, Retried, Forgets, Fails, Doing, Unknown, MarkedReply,
      Working, Deciding, Settling, Tracked, Undecided, Handled, ReplyFound, WillSearch, OneReply, AttemptsLeft
<1>1. CASE StartAttempt(m) BY <1>1 DEF StartAttempt
<1>2. CASE AlreadyAnswered(m) BY <1>2 DEF AlreadyAnswered
<1>3. CASE RepliedOnForge(m)
  <2>1. CASE replies[m] > 0
    <3>1. job'[m].pc = "kept" /\ Row(m, "answered", TRUE) BY <1>3, <2>1 DEF RepliedOnForge
    <3>2. answers'[m] = [status |-> "answered", reply |-> TRUE] BY <3>1
    <3>3. QED BY <1>3, <2>1, <3>1, <3>2 DEF RepliedOnForge
  <2>2. CASE ~(replies[m] > 0) BY <1>3, <2>2 DEF RepliedOnForge
  <2>3. QED BY <2>1, <2>2
<1>4. CASE Disqualified(m) BY <1>4 DEF Disqualified
<1>5. CASE RateLimited(m) BY <1>5 DEF RateLimited
<1>6. CASE RecordLimited(m) BY <1>6 DEF RecordLimited
<1>7. CASE Act(m) BY <1>7 DEF Act
<1>8. CASE Reply(m) BY <1>8 DEF Reply
<1>9. CASE RecordReply(m)
  <2>1. job'[m].pc = "kept" BY <1>9 DEF RecordReply
  <2>2. CASE Row(m, "answered", TRUE) /\ UNCHANGED unrecorded
    <3>1. answers'[m] = [status |-> "answered", reply |-> TRUE] BY <2>2
    <3>2. QED BY <1>9, <2>1, <2>2, <3>1 DEF RecordReply
  <2>3. CASE NoRecord /\ Forgets(m, TRUE) BY <1>9, <2>1, <2>3 DEF RecordReply
  <2>4. QED BY <1>9, <2>2, <2>3 DEF RecordReply
<1>10. CASE Mentioned(m) BY <1>10 DEF Mentioned
<1>11. CASE CleanMention(m) BY <1>11 DEF CleanMention
<1>12. CASE WorkerDies(m)
  <2>1. job'[m].pc = IF job[m].attempt < MentionAttempts THEN "queued" ELSE "gone"
    BY <1>12 DEF WorkerDies
  <2>2. job'[m].attempt = job[m].attempt /\ job[m].attempt > 0 /\ job[m].pc \in Working
    BY <1>12 DEF WorkerDies
  <2>3. m \in unrecorded' <=> m \in unrecorded \/ (job[m].attempt = MentionAttempts /\ Unknown(m))
    BY <1>12 DEF WorkerDies
  <2>4. UNCHANGED <<answers, replies, applied>> BY <1>12 DEF WorkerDies
  <2>5. ReplyFound(m)' BY <2>1, <2>2, <2>3, <2>4, HandedBack
  <2>6. Undecided(m)' BY <2>1, <2>4
  <2>7. OneReply(m)' /\ AttemptsLeft(m)' BY <2>1, <2>2, <2>3, <2>4
  <2>8. QED BY <2>5, <2>6, <2>7
<1>13. CASE AttemptFails(m)
  <2>1. job'[m].pc = IF job[m].attempt < MentionAttempts THEN "queued" ELSE "gone"
    BY <1>13 DEF AttemptFails
  <2>2. job'[m].attempt = job[m].attempt /\ job[m].attempt > 0 /\ job[m].pc \in Working
    BY <1>13 DEF AttemptFails
  <2>3. m \in unrecorded' <=> m \in unrecorded \/ (job[m].attempt = MentionAttempts /\ Unknown(m))
    BY <1>13 DEF AttemptFails
  <2>4. answers'[m] = answers[m] \/ (answers'[m].status = "failed" /\ answers'[m].reply = answers[m].reply)
    BY <1>13 DEF AttemptFails
  <2>5. UNCHANGED <<replies, applied>> BY <1>13 DEF AttemptFails
  <2>6. Undecided(m)' BY <2>1, <2>4
  <2>7. ReplyFound(m)' BY <2>1, <2>2, <2>3, <2>4, <2>5, HandedBack
  <2>8. OneReply(m)' /\ AttemptsLeft(m)' BY <2>1, <2>2, <2>3, <2>5
  <2>9. QED BY <2>6, <2>7, <2>8
<1>20. QED BY <1>1, <1>2, <1>3, <1>4, <1>5, <1>6, <1>7, <1>8, <1>9, <1>10, <1>11, <1>12, <1>13 DEF MentionStep, Attempt

-----------------------------------------------------------------------------
(* Types. *)

\* What may still happen is counted down, and only when there is some left.
LEMMA SpareTyped ==
    ASSUME spare \in MentionBound, NEW what \in {"mentions", "faults", "again", "hours"},
           Use(what) \/ spare' = spare
    PROVE  spare' \in MentionBound
BY DEF MentionBound, Use

LEMMA MentionTypeInit == MentionInit => MentionTypeOK /\ \A m \in Mention : Tracked(m)
BY MentionAssumption DEF MentionInit, MentionTypeOK, Unborn, NoAnswer, Working, Tracked, Undecided, Handled,
    ReplyFound, OneReply, AttemptsLeft, Deciding

LEMMA SpareStays ==
    ASSUME MentionTypeOK, NEW m \in Mention, MentionStep(m) PROVE spare' \in MentionBound
<1>1. Use("mentions") \/ Use("faults") \/ Use("again") \/ spare' = spare
  BY DEF MentionStep, Attempt,
    StartAttempt, AlreadyAnswered, RepliedOnForge, Disqualified, RateLimited, RecordLimited, Act, Reply, RecordReply, Mentioned, CleanMention, WorkerDies, AttemptFails
<1>2. QED BY <1>1, SpareTyped DEF MentionTypeOK

\* A row is well formed, and says a mention was replied to when it was.
LEMMA RowTyped ==
    ASSUME MentionTypeOK, NEW m \in Mention, NEW b \in BOOLEAN,
           NEW status \in {"answered", "ignored", "limited", "failed"}, Row(m, status, b)
    PROVE  /\ answers' \in [Mention -> [status : {"none", "answered", "ignored", "limited", "failed"}, reply : BOOLEAN]]
           /\ recent' \subseteq Mention /\ \A q \in recent' : answers'[q].status # "none"
           /\ \A q \in Mention : answers'[q].reply => answers[q].reply \/ (q = m /\ b)
<1> USE DEF MentionTypeOK, Row
<1>1. answers' = [answers EXCEPT ![m] = [status |-> status, reply |-> answers[m].reply \/ b]]
  OBVIOUS
<1>2. (answers[m].reply \/ b) \in BOOLEAN OBVIOUS
<1>3. answers' \in [Mention -> [status : {"none", "answered", "ignored", "limited", "failed"}, reply : BOOLEAN]]
  BY <1>1, <1>2
<1>4. recent' \subseteq Mention /\ \A q \in recent' : answers'[q].status # "none"
  BY <1>1
<1>5. \A q \in Mention : answers'[q].reply => answers[q].reply \/ (q = m /\ b)
  BY <1>1
<1>6. QED BY <1>3, <1>4, <1>5

\* A job that goes on from its attempt keeps the attempt's number.
LEMMA ThenTyped ==
    ASSUME MentionTypeOK, NEW m \in Mention, job[m].attempt > 0,
           NEW pc \in Working \cup {"none", "queued", "kept", "gone"}, Then(m, pc)
    PROVE  /\ job' \in [Mention -> [pc : Working \cup {"none", "queued", "kept", "gone"}, attempt : 0..MentionAttempts]]
           /\ \A q \in Mention : job'[q].pc \in Working => job'[q].attempt > 0
<1> USE DEF MentionTypeOK, Then
<1>1. job'[m].pc = pc /\ job'[m].attempt = job[m].attempt /\ \A q \in Mention \ {m} : job'[q] = job[q]
  OBVIOUS
<1>2. job'[m] \in [pc : Working \cup {"none", "queued", "kept", "gone"}, attempt : 0..MentionAttempts]
  <2>1. [job[m] EXCEPT !.pc = pc] \in [pc : Working \cup {"none", "queued", "kept", "gone"}, attempt : 0..MentionAttempts]
    OBVIOUS
  <2>2. QED BY <2>1
<1>3. job' \in [Mention -> [pc : Working \cup {"none", "queued", "kept", "gone"}, attempt : 0..MentionAttempts]]
  BY <1>1, <1>2
<1>4. QED BY <1>1, <1>2, <1>3

\* Every step keeps every variable in its type.
LEMMA MentionTypeNext ==
    ASSUME MentionTypeOK, NEW m \in Mention, MentionStep(m), Tracked(m)
    PROVE  MentionTypeOK'
<1> USE MentionAssumption
<1> DEFINE JobTyped == /\ job' \in [Mention -> [pc : Working \cup {"none", "queued", "kept", "gone"}, attempt : 0..MentionAttempts]]
                      /\ \A q \in Mention : job'[q].pc \in Working => job'[q].attempt > 0
           RowsTyped == /\ answers' \in [Mention -> [status : {"none", "answered", "ignored", "limited", "failed"},
                                                     reply : BOOLEAN]]
                        /\ recent' \subseteq Mention /\ \A q \in recent' : answers'[q].status # "none"
           Heard == \A q \in Mention : answers'[q].reply => replies'[q] > 0
           Rest == /\ replies' \in [Mention -> Nat] /\ notices' \in Nat
                   /\ applied' \subseteq Command /\ unrecorded' \subseteq Mention
<1>1. JobTyped
  <2> USE DEF MentionTypeOK, Then, Retried, Doing, Fails, Working, Tracked, AttemptsLeft
  <2>1. CASE StartAttempt(m) BY <2>1 DEF StartAttempt
  <2>2. CASE AlreadyAnswered(m) BY <2>2 DEF AlreadyAnswered
  <2>3. CASE RepliedOnForge(m)
    <3>1. PICK pc \in {"kept", "qualify"} : Then(m, pc) BY <2>3 DEF RepliedOnForge
    <3>2. job[m].attempt > 0 BY <2>3 DEF RepliedOnForge
    <3>3. QED BY <3>1, <3>2, ThenTyped
  <2>4. CASE Disqualified(m)
    <3>1. PICK pc \in {"kept", "limit"} : Then(m, pc) BY <2>4 DEF Disqualified
    <3>2. job[m].attempt > 0 BY <2>4 DEF Disqualified
    <3>3. QED BY <3>1, <3>2, ThenTyped
  <2>5. CASE RateLimited(m) BY <2>5 DEF RateLimited
  <2>6. CASE RecordLimited(m) BY <2>6 DEF RecordLimited
  <2>7. CASE Act(m) BY <2>7 DEF Act
  <2>8. CASE Reply(m)
    <3>1. PICK pc \in {"record", "queued", "gone"} : Then(m, pc) BY <2>8 DEF Reply
    <3>2. job[m].attempt > 0 BY <2>8 DEF Reply
    <3>3. QED BY <3>1, <3>2, ThenTyped
  <2>9. CASE RecordReply(m) BY <2>9 DEF RecordReply
  <2>10. CASE Mentioned(m) BY <2>10 DEF Mentioned
  <2>11. CASE CleanMention(m) BY <2>11 DEF CleanMention
  <2>12. CASE WorkerDies(m) BY <2>12 DEF WorkerDies
  <2>13. CASE AttemptFails(m) BY <2>13 DEF AttemptFails
  <2>20. QED BY <2>1, <2>2, <2>3, <2>4, <2>5, <2>6, <2>7, <2>8, <2>9, <2>10, <2>11, <2>12, <2>13 DEF MentionStep, Attempt
<1>2. RowsTyped /\ Heard
  <2>1. \/ NoRecord
        \/ \E status \in {"ignored", "limited", "failed"} : Row(m, status, FALSE)
        \/ Row(m, "answered", TRUE) /\ replies[m] > 0
    <3> USE DEF Fails
    <3>1. CASE StartAttempt(m) BY <3>1 DEF StartAttempt, NoRecord
    <3>2. CASE AlreadyAnswered(m) BY <3>2 DEF AlreadyAnswered, NoRecord
    <3>3. CASE RepliedOnForge(m) BY <3>3 DEF RepliedOnForge, NoRecord, MarkedReply
    <3>4. CASE Disqualified(m) BY <3>4 DEF Disqualified, NoRecord
    <3>5. CASE RateLimited(m) BY <3>5 DEF RateLimited, NoRecord
    <3>6. CASE RecordLimited(m) BY <3>6 DEF RecordLimited, NoRecord
    <3>7. CASE Act(m) BY <3>7 DEF Act, NoRecord
    <3>8. CASE Reply(m) BY <3>8 DEF Reply, NoRecord
    <3>9. CASE RecordReply(m) BY <3>9 DEF RecordReply, NoRecord, Doing, Tracked, OneReply
    <3>10. CASE Mentioned(m) BY <3>10 DEF Mentioned, NoRecord
    <3>11. CASE CleanMention(m) BY <3>11 DEF CleanMention, NoRecord
    <3>12. CASE WorkerDies(m) BY <3>12 DEF WorkerDies, NoRecord
    <3>13. CASE AttemptFails(m) BY <3>13 DEF AttemptFails, NoRecord
    <3>20. QED BY <3>1, <3>2, <3>3, <3>4, <3>5, <3>6, <3>7, <3>8, <3>9, <3>10, <3>11, <3>12, <3>13 DEF MentionStep, Attempt
  <2>2. \A q \in Mention : replies[q] > 0 => replies'[q] > 0
    <3> USE DEF MentionTypeOK
    <3>1. CASE StartAttempt(m) BY <3>1 DEF StartAttempt
    <3>2. CASE AlreadyAnswered(m) BY <3>2 DEF AlreadyAnswered
    <3>3. CASE RepliedOnForge(m) BY <3>3 DEF RepliedOnForge
    <3>4. CASE Disqualified(m) BY <3>4 DEF Disqualified
    <3>5. CASE RateLimited(m) BY <3>5 DEF RateLimited
    <3>6. CASE RecordLimited(m) BY <3>6 DEF RecordLimited
    <3>7. CASE Act(m) BY <3>7 DEF Act
    <3>8. CASE Reply(m) BY <3>8 DEF Reply
    <3>9. CASE RecordReply(m) BY <3>9 DEF RecordReply
    <3>10. CASE Mentioned(m) BY <3>10 DEF Mentioned
    <3>11. CASE CleanMention(m) BY <3>11 DEF CleanMention
    <3>12. CASE WorkerDies(m) BY <3>12 DEF WorkerDies
    <3>13. CASE AttemptFails(m) BY <3>13 DEF AttemptFails
    <3>20. QED BY <3>1, <3>2, <3>3, <3>4, <3>5, <3>6, <3>7, <3>8, <3>9, <3>10, <3>11, <3>12, <3>13 DEF MentionStep, Attempt
  <2>3. CASE NoRecord BY <2>2, <2>3 DEF NoRecord, MentionTypeOK
  <2>4. CASE \E status \in {"ignored", "limited", "failed"} : Row(m, status, FALSE)
    <3>1. PICK status \in {"ignored", "limited", "failed"} : Row(m, status, FALSE) BY <2>4
    <3>2. RowsTyped /\ \A q \in Mention : answers'[q].reply => answers[q].reply BY <3>1, RowTyped
    <3>3. QED BY <2>2, <3>2 DEF MentionTypeOK
  <2>5. CASE Row(m, "answered", TRUE) /\ replies[m] > 0
    <3>1. RowsTyped /\ \A q \in Mention : answers'[q].reply => answers[q].reply \/ q = m BY <2>5, RowTyped
    <3>2. QED BY <2>2, <2>5, <3>1 DEF MentionTypeOK
  <2>6. QED BY <2>1, <2>3, <2>4, <2>5
<1>3. Rest
  <2> USE DEF MentionTypeOK, Forgets
  <2>1. CASE StartAttempt(m) BY <2>1 DEF StartAttempt
  <2>2. CASE AlreadyAnswered(m) BY <2>2 DEF AlreadyAnswered
  <2>3. CASE RepliedOnForge(m) BY <2>3 DEF RepliedOnForge
  <2>4. CASE Disqualified(m) BY <2>4 DEF Disqualified
  <2>5. CASE RateLimited(m) BY <2>5 DEF RateLimited
  <2>6. CASE RecordLimited(m) BY <2>6 DEF RecordLimited
  <2>7. CASE Act(m) BY <2>7 DEF Act
  <2>8. CASE Reply(m) BY <2>8 DEF Reply
  <2>9. CASE RecordReply(m) BY <2>9 DEF RecordReply
  <2>10. CASE Mentioned(m) BY <2>10 DEF Mentioned
  <2>11. CASE CleanMention(m) BY <2>11 DEF CleanMention
  <2>12. CASE WorkerDies(m) BY <2>12 DEF WorkerDies
  <2>13. CASE AttemptFails(m) BY <2>13 DEF AttemptFails
  <2>20. QED BY <2>1, <2>2, <2>3, <2>4, <2>5, <2>6, <2>7, <2>8, <2>9, <2>10, <2>11, <2>12, <2>13 DEF MentionStep, Attempt
<1>4. QED BY <1>1, <1>2, <1>3, SpareStays DEF MentionTypeOK

-----------------------------------------------------------------------------
(* Theorems. *)

\* The invariant holds at first, and every step of every job and every hour
\* that passes keeps it.
LEMMA MentionInitSound == MentionInit => MentionSound
BY MentionTypeInit DEF MentionSound

LEMMA MentionNextSound == MentionSound /\ [MentionNext]_mentionVars => MentionSound'
<1>1. ASSUME MentionSound, NEW m \in Mention, MentionStep(m) PROVE MentionSound'
  <2>1. MentionTypeOK' BY <1>1, MentionTypeNext DEF MentionSound
  <2>2. ASSUME NEW q \in Mention PROVE Tracked(q)'
    <3>1. CASE q = m BY <1>1, <3>1, MineTracked DEF MentionSound
    <3>2. CASE q # m BY <1>1, <3>2, OthersTracked DEF MentionSound
    <3>3. QED BY <3>1, <3>2
  <2>3. QED BY <2>1, <2>2 DEF MentionSound
<1>2. ASSUME MentionSound, HourPasses PROVE MentionSound'
  <2>1. spare' \in MentionBound BY <1>2, SpareTyped DEF HourPasses, MentionSound, MentionTypeOK
  <2>2. QED BY <1>2, <2>1 DEF HourPasses, MentionSound, MentionTypeOK, Tracked, Undecided, Handled, ReplyFound,
          WillSearch, OneReply, AttemptsLeft
<1>3. ASSUME MentionSound, UNCHANGED mentionVars PROVE MentionSound'
  BY <1>3 DEF mentionVars, MentionSound, MentionTypeOK, Tracked, Undecided, Handled, ReplyFound, WillSearch,
      OneReply, AttemptsLeft
<1>4. QED BY <1>1, <1>2, <1>3 DEF MentionNext, MentionStep

LEMMA MentionInvariant == MentionSpec => []MentionSound
BY MentionInitSound, MentionNextSound, PTL DEF MentionSpec

\* A comment is replied to once, and a command's reply comes after its
\* effect, whatever fails, whoever dies and however often a webhook comes: a
\* second reply needs a job that ended with a first nobody had recorded.
THEOREM RepliesAreSingle == MentionSpec => []AnsweredOnce
<1>1. MentionSound => AnsweredOnce
  BY DEF MentionSound, MentionTypeOK, AnsweredOnce, Tracked, OneReply, Mention
<1>2. QED BY <1>1, MentionInvariant, PTL

-----------------------------------------------------------------------------
(***************************************************************************)
(* A run's Secret, Job and pod, for every set of runs, every deadline and  *)
(* settling time that the assumption allows, and every number of failed    *)
(* calls and deaths.                                                       *)
(*                                                                         *)
(* Two arguments meet.  One is about time: an open run is swept only past  *)
(* Abandoned, a launch is over by LaunchWithin and a Job by its deadline   *)
(* after that, so no Job of an open run is live when the sweep may list it *)
(* (Timely, ListSound); the list may be as old as it likes, because rows   *)
(* do not reopen and runs grow no younger.  The other follows the worker:  *)
(* it deletes a Secret, and its row is finished, only where its Job is no  *)
(* longer live or was left by a call that went unanswered (Stopped).       *)
(***************************************************************************)

Shape == [row : {"none", "open", "finished"}, swept : BOOLEAN, age : 0..(Abandoned + 1),
          at : WorkerAt \cup {"idle", "dead", "left"}, cut : BOOLEAN,
          unread : 0..MaxUnread, stuck : 0..StartGrace, started : BOOLEAN,
          secret : Kept \cup {"none", "gone"}, job : {"none", "live", "ended", "gone"},
          since : 0..(Deadline + JobTTL), pod : Unready \cup {"running", "ended"},
          loose : BOOLEAN]

\* A run's row is there from its worker's first step, and open while the
\* worker has it; before its Job's creation there is no Job.
Placed(w) ==
    /\ w.at = "idle" <=> w.row = "none"
    /\ w.at \in WorkerAt => w.row = "open"
    /\ w.at \in Launching \cup {"idle"} => w.job = "none"
    /\ w.at \in Launching \cup {"idle", "own"} => w.unread = 0 /\ w.stuck = 0
    /\ w.at = "watch" => w.unread < MaxUnread /\ w.stuck < StartGrace

\* A launch is quick, and a Job lives no longer than its deadline from then.
Timely(w) ==
    /\ w.row = "none" => w.age = 0
    /\ w.at \in Launching => w.age <= LaunchWithin
    /\ w.job = "live" => w.since <= Deadline /\ w.age <= LaunchWithin + w.since

\* Once its worker is past its Job, or its row is finished, the Job is not
\* live but for a call that Kubernetes did not answer.
Stopped(w) == w.row = "finished" \/ w.at \in {"undoSecret", "over"} => w.loose \/ w.job # "live"

\* An open run's Job, and one about to be created, has its Secret.
Supplied(w) ==
    /\ w.at = "job" => w.secret \in Kept
    /\ w.row = "open" /\ w.job = "live" /\ ~w.loose => w.secret \in Kept

RunSound(w) == Placed(w) /\ Timely(w) /\ Stopped(w) /\ Supplied(w)

\* The sweep's list holds only finished runs and abandoned ones.
ListSound == \A r \in sweep.todo : run[r].row = "finished" \/ run[r].age > Abandoned

KubeSound == KubeTypeOK /\ ListSound /\ \A r \in Runs : RunSound(run[r])
-----------------------------------------------------------------------------
(* One run's steps. *)

RunStep(r) ==
    \/ StartRun(r) \/ Worker(r) \/ CutRun(r) \/ RunsWorkerDies(r) \/ ReapRun(r) \/ Cluster(r) \/ DeleteRunSecret(r)

\* A step of one run touches no other.
LEMMA OtherRunsStay ==
    ASSUME KubeTypeOK, ListSound, NEW r \in Runs, RunSound(run[r]), RunStep(r)
    PROVE  \A q \in Runs \ {r} : run'[q] = run[q]
<1> USE KubeAssumption DEF KubeTypeOK, WorkerAt
<1>1. CASE StartRun(r) BY <1>1 DEF StartRun
<1>2. CASE CreateSecret(r) BY <1>2 DEF CreateSecret
<1>3. CASE CreateJob(r) BY <1>3 DEF CreateJob
<1>4. CASE Own(r) BY <1>4 DEF Own
<1>5. CASE DropJob(r) BY <1>5 DEF DropJob
<1>6. CASE DropSecret(r) BY <1>6 DEF DropSecret
<1>7. CASE WatchRun(r) BY <1>7 DEF WatchRun
<1>8. CASE CancelRun(r) BY <1>8 DEF CancelRun
<1>9. CASE RecordRun(r) BY <1>9 DEF RecordRun
<1>10. CASE CutRun(r) BY <1>10 DEF CutRun
<1>11. CASE RunsWorkerDies(r) BY <1>11 DEF RunsWorkerDies
<1>12. CASE ReapRun(r) BY <1>12 DEF ReapRun
<1>13. CASE PodRefused(r) BY <1>13 DEF PodRefused
<1>14. CASE PodStarts(r) BY <1>14 DEF PodStarts
<1>15. CASE JobEnds(r) BY <1>15 DEF JobEnds
<1>16. CASE JobExpires(r) BY <1>16 DEF JobExpires
<1>17. CASE CollectSecret(r) BY <1>17 DEF CollectSecret
<1>18. CASE DeleteRunSecret(r) BY <1>18 DEF DeleteRunSecret
<1>19. QED BY <1>1, <1>2, <1>3, <1>4, <1>5, <1>6, <1>7, <1>8, <1>9,
  <1>10, <1>11, <1>12, <1>13, <1>14, <1>15, <1>16, <1>17, <1>18
  DEF RunStep, Worker, Cluster

\* What a step makes of a run is a run.
LEMMA CutShaped == ASSUME NEW w \in Shape PROVE [w EXCEPT !.cut = TRUE] \in Shape
BY Zenon DEF Shape

\* The same of one that is reaped.
LEMMA ReapShaped ==
    ASSUME NEW w \in Shape, NEW how \in {"finished", "open"}, NEW left \in {"none", "gone"}
    PROVE  [w EXCEPT !.row = how, !.job = left, !.loose = FALSE] \in Shape
BY DEF Shape

\* The same of one whose Job ends.
LEMMA EndShaped ==
    ASSUME NEW w \in Shape PROVE [w EXCEPT !.job = "ended", !.pod = "ended", !.since = 0] \in Shape
<1>1. 0 \in 0..(Deadline + JobTTL) BY KubeAssumption
<1>2. QED BY <1>1 DEF Shape, Unready

\* Every step keeps every run in its type.
LEMMA StepShaped ==
    ASSUME KubeTypeOK, ListSound, NEW r \in Runs, RunSound(run[r]), RunStep(r)
    PROVE  run' \in [Runs -> Shape]
<1> USE KubeAssumption DEF KubeTypeOK, Shape, RunSound, Placed, WorkerAt, Launching, Undoing, Kept, Unready
<1>1. CASE StartRun(r) BY <1>1 DEF StartRun
<1>2. CASE CreateSecret(r) BY <1>2 DEF CreateSecret
<1>3. CASE CreateJob(r) BY <1>3 DEF CreateJob
<1>4. CASE Own(r) BY <1>4 DEF Own
<1>5. CASE DropJob(r) BY <1>5 DEF DropJob
<1>6. CASE DropSecret(r) BY <1>6 DEF DropSecret
<1>7. CASE WatchRun(r) BY <1>7 DEF WatchRun
<1>8. CASE CancelRun(r) BY <1>8 DEF CancelRun
<1>9. CASE RecordRun(r) BY <1>9 DEF RecordRun
<1>10. CASE CutRun(r)
  <2>1. [run[r] EXCEPT !.cut = TRUE] \in Shape BY CutShaped
  <2>2. run' = [run EXCEPT ![r] = [run[r] EXCEPT !.cut = TRUE]] BY <1>10, Zenon DEF CutRun
  <2>3. QED BY <2>1, <2>2
<1>11. CASE RunsWorkerDies(r) BY <1>11 DEF RunsWorkerDies
<1>12. CASE ReapRun(r)
  <2>1. PICK how \in {"finished", "open"} :
          run' = [run EXCEPT ![r].row = how, ![r].job = IF @ = "none" THEN @ ELSE "gone", ![r].loose = FALSE]
    BY <1>12 DEF ReapRun
  <2> DEFINE left == IF run[r].job = "none" THEN "none" ELSE "gone"
  <2>2. run' = [run EXCEPT ![r] = [run[r] EXCEPT !.row = how, !.job = left, !.loose = FALSE]] BY <2>1
  <2>3. left \in {"none", "gone"} /\ run[r] \in Shape /\ run \in [Runs -> Shape] OBVIOUS
  <2> HIDE DEF left, Shape
  <2>4. [run[r] EXCEPT !.row = how, !.job = left, !.loose = FALSE] \in Shape BY <2>3, ReapShaped
  <2>5. QED BY <2>2, <2>3, <2>4
<1>13. CASE PodRefused(r) BY <1>13 DEF PodRefused
<1>14. CASE PodStarts(r) BY <1>14 DEF PodStarts
<1>15. CASE JobEnds(r)
  <2>1. [run[r] EXCEPT !.job = "ended", !.pod = "ended", !.since = 0] \in Shape BY EndShaped
  <2>2. run' = [run EXCEPT ![r] = [run[r] EXCEPT !.job = "ended", !.pod = "ended", !.since = 0]]
    BY <1>15 DEF JobEnds
  <2>3. QED BY <2>1, <2>2
<1>16. CASE JobExpires(r) BY <1>16 DEF JobExpires
<1>17. CASE CollectSecret(r) BY <1>17 DEF CollectSecret
<1>18. CASE DeleteRunSecret(r) BY <1>18 DEF DeleteRunSecret
<1>19. QED BY <1>1, <1>2, <1>3, <1>4, <1>5, <1>6, <1>7, <1>8, <1>9,
  <1>10, <1>11, <1>12, <1>13, <1>14, <1>15, <1>16, <1>17, <1>18
  DEF RunStep, Worker, Cluster

\* The worker, its row and its Job keep their order.
LEMMA StepPlaced ==
    ASSUME KubeTypeOK, ListSound, NEW r \in Runs, RunSound(run[r]), RunStep(r)
    PROVE  Placed(run'[r])
<1> USE KubeAssumption DEF KubeTypeOK, RunSound, Placed, WorkerAt, Launching, Undoing, Kept, Unready
<1>1. CASE StartRun(r) BY <1>1 DEF StartRun
<1>2. CASE CreateSecret(r) BY <1>2 DEF CreateSecret
<1>3. CASE CreateJob(r) BY <1>3 DEF CreateJob
<1>4. CASE Own(r) BY <1>4 DEF Own
<1>5. CASE DropJob(r) BY <1>5 DEF DropJob
<1>6. CASE DropSecret(r) BY <1>6 DEF DropSecret
<1>7. CASE WatchRun(r) BY <1>7 DEF WatchRun
<1>8. CASE CancelRun(r) BY <1>8 DEF CancelRun
<1>9. CASE RecordRun(r) BY <1>9 DEF RecordRun
<1>10. CASE CutRun(r) BY <1>10 DEF CutRun
<1>11. CASE RunsWorkerDies(r) BY <1>11 DEF RunsWorkerDies
<1>12. CASE ReapRun(r) BY <1>12 DEF ReapRun
<1>13. CASE PodRefused(r) BY <1>13 DEF PodRefused
<1>14. CASE PodStarts(r) BY <1>14 DEF PodStarts
<1>15. CASE JobEnds(r) BY <1>15 DEF JobEnds
<1>16. CASE JobExpires(r) BY <1>16 DEF JobExpires
<1>17. CASE CollectSecret(r) BY <1>17 DEF CollectSecret
<1>18. CASE DeleteRunSecret(r) BY <1>18 DEF DeleteRunSecret
<1>19. QED BY <1>1, <1>2, <1>3, <1>4, <1>5, <1>6, <1>7, <1>8, <1>9,
  <1>10, <1>11, <1>12, <1>13, <1>14, <1>15, <1>16, <1>17, <1>18
  DEF RunStep, Worker, Cluster

\* A Job comes within its launch, and its clock starts with it.
LEMMA StepTimely ==
    ASSUME KubeTypeOK, ListSound, NEW r \in Runs, RunSound(run[r]), RunStep(r)
    PROVE  Timely(run'[r])
<1> USE KubeAssumption DEF KubeTypeOK, RunSound, Placed, Timely, WorkerAt, Launching, Undoing, Kept, Unready
<1>1. CASE StartRun(r) BY <1>1 DEF StartRun
<1>2. CASE CreateSecret(r) BY <1>2 DEF CreateSecret
<1>3. CASE CreateJob(r) BY <1>3 DEF CreateJob
<1>4. CASE Own(r) BY <1>4 DEF Own
<1>5. CASE DropJob(r) BY <1>5 DEF DropJob
<1>6. CASE DropSecret(r) BY <1>6 DEF DropSecret
<1>7. CASE WatchRun(r) BY <1>7 DEF WatchRun
<1>8. CASE CancelRun(r) BY <1>8 DEF CancelRun
<1>9. CASE RecordRun(r) BY <1>9 DEF RecordRun
<1>10. CASE CutRun(r) BY <1>10 DEF CutRun
<1>11. CASE RunsWorkerDies(r) BY <1>11 DEF RunsWorkerDies
<1>12. CASE ReapRun(r) BY <1>12 DEF ReapRun
<1>13. CASE PodRefused(r) BY <1>13 DEF PodRefused
<1>14. CASE PodStarts(r) BY <1>14 DEF PodStarts
<1>15. CASE JobEnds(r) BY <1>15 DEF JobEnds
<1>16. CASE JobExpires(r) BY <1>16 DEF JobExpires
<1>17. CASE CollectSecret(r) BY <1>17 DEF CollectSecret
<1>18. CASE DeleteRunSecret(r) BY <1>18 DEF DeleteRunSecret
<1>19. QED BY <1>1, <1>2, <1>3, <1>4, <1>5, <1>6, <1>7, <1>8, <1>9,
  <1>10, <1>11, <1>12, <1>13, <1>14, <1>15, <1>16, <1>17, <1>18
  DEF RunStep, Worker, Cluster

\* A worker that undoes a launch, drops a Job or leaves one that ended is
\* done with a Job that is not live; only a failed call leaves one.
LEMMA StepStopped ==
    ASSUME KubeTypeOK, ListSound, NEW r \in Runs, RunSound(run[r]), RunStep(r)
    PROVE  Stopped(run'[r])
<1> USE KubeAssumption DEF KubeTypeOK, RunSound, Placed, Stopped, WorkerAt, Launching, Undoing, Kept, Unready
<1>1. CASE StartRun(r) BY <1>1 DEF StartRun
<1>2. CASE CreateSecret(r) BY <1>2 DEF CreateSecret
<1>3. CASE CreateJob(r) BY <1>3 DEF CreateJob
<1>4. CASE Own(r) BY <1>4 DEF Own
<1>5. CASE DropJob(r) BY <1>5 DEF DropJob
<1>6. CASE DropSecret(r) BY <1>6 DEF DropSecret
<1>7. CASE WatchRun(r) BY <1>7 DEF WatchRun
<1>8. CASE CancelRun(r) BY <1>8 DEF CancelRun
<1>9. CASE RecordRun(r) BY <1>9 DEF RecordRun
<1>10. CASE CutRun(r) BY <1>10 DEF CutRun
<1>11. CASE RunsWorkerDies(r) BY <1>11 DEF RunsWorkerDies
<1>12. CASE ReapRun(r) BY <1>12 DEF ReapRun
<1>13. CASE PodRefused(r) BY <1>13 DEF PodRefused
<1>14. CASE PodStarts(r) BY <1>14 DEF PodStarts
<1>15. CASE JobEnds(r) BY <1>15 DEF JobEnds
<1>16. CASE JobExpires(r) BY <1>16 DEF JobExpires
<1>17. CASE CollectSecret(r) BY <1>17 DEF CollectSecret
<1>18. CASE DeleteRunSecret(r) BY <1>18 DEF DeleteRunSecret
<1>19. QED BY <1>1, <1>2, <1>3, <1>4, <1>5, <1>6, <1>7, <1>8, <1>9,
  <1>10, <1>11, <1>12, <1>13, <1>14, <1>15, <1>16, <1>17, <1>18
  DEF RunStep, Worker, Cluster

\* A Secret is deleted by a worker past its Job, with its Job, or from the
\* list; an open run on the list is too old to have a live Job.
LEMMA StepSupplied ==
    ASSUME KubeTypeOK, ListSound, NEW r \in Runs, RunSound(run[r]), RunStep(r)
    PROVE  Supplied(run'[r])
<1> USE KubeAssumption DEF KubeTypeOK, RunSound, Placed, Stopped, Timely, Supplied, ListSound, WorkerAt, Launching, Undoing, Kept, Unready
<1>1. CASE StartRun(r) BY <1>1 DEF StartRun
<1>2. CASE CreateSecret(r) BY <1>2 DEF CreateSecret
<1>3. CASE CreateJob(r) BY <1>3 DEF CreateJob
<1>4. CASE Own(r) BY <1>4 DEF Own
<1>5. CASE DropJob(r) BY <1>5 DEF DropJob
<1>6. CASE DropSecret(r) BY <1>6 DEF DropSecret
<1>7. CASE WatchRun(r) BY <1>7 DEF WatchRun
<1>8. CASE CancelRun(r) BY <1>8 DEF CancelRun
<1>9. CASE RecordRun(r) BY <1>9 DEF RecordRun
<1>10. CASE CutRun(r) BY <1>10 DEF CutRun
<1>11. CASE RunsWorkerDies(r) BY <1>11 DEF RunsWorkerDies
<1>12. CASE ReapRun(r) BY <1>12 DEF ReapRun
<1>13. CASE PodRefused(r) BY <1>13 DEF PodRefused
<1>14. CASE PodStarts(r) BY <1>14 DEF PodStarts
<1>15. CASE JobEnds(r) BY <1>15 DEF JobEnds
<1>16. CASE JobExpires(r) BY <1>16 DEF JobExpires
<1>17. CASE CollectSecret(r) BY <1>17 DEF CollectSecret
<1>18. CASE DeleteRunSecret(r) BY <1>18 DEF DeleteRunSecret
<1>19. QED BY <1>1, <1>2, <1>3, <1>4, <1>5, <1>6, <1>7, <1>8, <1>9,
  <1>10, <1>11, <1>12, <1>13, <1>14, <1>15, <1>16, <1>17, <1>18
  DEF RunStep, Worker, Cluster

-----------------------------------------------------------------------------
(* The sweep, and time. *)

SweepShape == [on : BOOLEAN, todo : SUBSET Runs, done : SUBSET Runs]

\* What may still happen is counted down, and only when there is some left.
LEMMA TroublesTyped ==
    ASSUME troubles \in KubeBound, NEW what \in {"runs", "faults", "deaths"},
           Trouble(what) \/ troubles' = troubles
    PROVE  troubles' \in KubeBound
BY DEF KubeBound, Trouble

\* The steps of a run count it down too.
LEMMA RunTroubles ==
    ASSUME KubeTypeOK, NEW r \in Runs, RunStep(r) PROVE troubles' \in KubeBound
<1>1. Trouble("runs") \/ Trouble("faults") \/ Trouble("deaths") \/ troubles' = troubles
  BY Zenon DEF RunStep, Worker, Cluster, CallFails, StartRun, CreateSecret, CreateJob, Own, DropJob, DropSecret, WatchRun, CancelRun, RecordRun,
    CutRun, RunsWorkerDies, ReapRun, PodRefused, PodStarts, JobEnds, JobExpires, CollectSecret, DeleteRunSecret
<1>2. QED BY <1>1, TroublesTyped DEF KubeTypeOK

\* A run's steps add nothing to the list.
LEMMA RunSweep ==
    ASSUME KubeTypeOK, NEW r \in Runs, RunStep(r)
    PROVE  sweep' \in SweepShape /\ sweep'.todo \subseteq sweep.todo
<1>1. CASE DeleteRunSecret(r)
  <2>1. \/ sweep' = [sweep EXCEPT !.todo = @ \ {r}, !.done = @ \cup {r}]
        \/ sweep' = [sweep EXCEPT !.todo = @ \ {r}]
    BY <1>1 DEF DeleteRunSecret
  <2>2. sweep \in SweepShape BY DEF KubeTypeOK, SweepShape
  <2>3. QED BY <2>1, <2>2 DEF SweepShape
<1>2. CASE ~DeleteRunSecret(r)
  <2>1. sweep' = sweep
    BY <1>2, Zenon DEF RunStep, Worker, Cluster, StartRun, CreateSecret, CreateJob, Own, DropJob, DropSecret, WatchRun, CancelRun, RecordRun,
      CutRun, RunsWorkerDies, ReapRun, PodRefused, PodStarts, JobEnds, JobExpires, CollectSecret
  <2>2. QED BY <2>1 DEF KubeTypeOK, SweepShape
<1>3. QED BY <1>1, <1>2

\* A finished row stays finished, and only time makes a run older.
LEMMA RowsStay ==
    ASSUME KubeTypeOK, NEW r \in Runs, RunSound(run[r]), RunStep(r)
    PROVE  (run[r].row = "finished" => run'[r].row = "finished") /\ run'[r].age = run[r].age
<1> USE KubeAssumption DEF KubeTypeOK, RunSound, Placed, WorkerAt, Launching, Undoing, Kept, Unready
<1>1. CASE StartRun(r) BY <1>1 DEF StartRun
<1>2. CASE CreateSecret(r) BY <1>2 DEF CreateSecret
<1>3. CASE CreateJob(r) BY <1>3 DEF CreateJob
<1>4. CASE Own(r) BY <1>4 DEF Own
<1>5. CASE DropJob(r) BY <1>5 DEF DropJob
<1>6. CASE DropSecret(r) BY <1>6 DEF DropSecret
<1>7. CASE WatchRun(r) BY <1>7 DEF WatchRun
<1>8. CASE CancelRun(r) BY <1>8 DEF CancelRun
<1>9. CASE RecordRun(r) BY <1>9 DEF RecordRun
<1>10. CASE CutRun(r) BY <1>10 DEF CutRun
<1>11. CASE RunsWorkerDies(r) BY <1>11 DEF RunsWorkerDies
<1>12. CASE ReapRun(r) BY <1>12 DEF ReapRun
<1>13. CASE PodRefused(r) BY <1>13 DEF PodRefused
<1>14. CASE PodStarts(r) BY <1>14 DEF PodStarts
<1>15. CASE JobEnds(r) BY <1>15 DEF JobEnds
<1>16. CASE JobExpires(r) BY <1>16 DEF JobExpires
<1>17. CASE CollectSecret(r) BY <1>17 DEF CollectSecret
<1>18. CASE DeleteRunSecret(r) BY <1>18 DEF DeleteRunSecret
<1>19. QED BY <1>1, <1>2, <1>3, <1>4, <1>5, <1>6, <1>7, <1>8, <1>9,
  <1>10, <1>11, <1>12, <1>13, <1>14, <1>15, <1>16, <1>17, <1>18
  DEF RunStep, Worker, Cluster

\* A run's step keeps the invariant.
LEMMA RunKept ==
    ASSUME KubeSound, NEW r \in Runs, RunStep(r) PROVE KubeSound'
<1>1. KubeTypeOK /\ ListSound /\ RunSound(run[r]) BY DEF KubeSound
<1>2. KubeTypeOK'
  <2>1. run' \in [Runs -> Shape] /\ sweep' \in SweepShape /\ troubles' \in KubeBound
    BY <1>1, StepShaped, RunSweep, RunTroubles
  <2>2. QED BY <2>1 DEF KubeTypeOK, Shape, SweepShape
<1>3. ListSound'
  <2>1. ASSUME NEW q \in sweep'.todo PROVE run'[q].row = "finished" \/ run'[q].age > Abandoned
    <3>1. q \in sweep.todo /\ q \in Runs BY <1>1, RunSweep DEF KubeTypeOK
    <3>2. run[q].row = "finished" \/ run[q].age > Abandoned BY <1>1, <3>1 DEF ListSound
    <3>3. CASE q # r BY <1>1, <3>1, <3>2, <3>3, OtherRunsStay
    <3>4. CASE q = r BY <1>1, <3>2, <3>4, RowsStay
    <3>5. QED BY <3>3, <3>4
  <2>2. QED BY <2>1 DEF ListSound
<1>4. ASSUME NEW q \in Runs PROVE RunSound(run'[q])
  <2>1. CASE q = r BY <1>1, <2>1, StepPlaced, StepTimely, StepStopped, StepSupplied DEF RunSound
  <2>2. CASE q # r
    <3>1. run'[q] = run[q] BY <1>1, <2>2, OtherRunsStay
    <3>2. QED BY <3>1 DEF KubeSound
  <2>3. QED BY <2>1, <2>2
<1>5. QED BY <1>2, <1>3, <1>4 DEF KubeSound

\* Time does: a launch, a worker and a Job that are due come first.
LEMMA TickKept == ASSUME KubeSound, KubeTick PROVE KubeSound'
<1> USE KubeAssumption
<1>1. KubeTypeOK /\ ListSound /\ \A r \in Runs : RunSound(run[r]) BY DEF KubeSound
<1>2. UNCHANGED <<sweep, troubles>> BY DEF KubeTick
<1>3. ASSUME NEW r \in Runs
      PROVE  /\ run'[r] = [run[r] EXCEPT
                   !.age = IF run[r].row = "none" \/ run[r].age > Abandoned THEN run[r].age ELSE run[r].age + 1,
                   !.since = IF run[r].job = "live" \/ (run[r].job = "ended" /\ run[r].since < JobTTL)
                             THEN run[r].since + 1 ELSE run[r].since]
             /\ ~Due(r) /\ run[r] \in Shape /\ RunSound(run[r])
  BY <1>1 DEF KubeTick, KubeTypeOK, Shape
<1>4. ASSUME NEW r \in Runs PROVE run'[r] \in Shape
  <2> DEFINE age   == IF run[r].row = "none" \/ run[r].age > Abandoned THEN run[r].age ELSE run[r].age + 1
             since == IF run[r].job = "live" \/ (run[r].job = "ended" /\ run[r].since < JobTTL)
                      THEN run[r].since + 1 ELSE run[r].since
  <2> HIDE DEF age, since
  <2>1. age \in 0..(Abandoned + 1)
    <3>1. run[r] \in Shape BY <1>3
    <3>2. run[r].age \in 0..(Abandoned + 1) BY <3>1 DEF Shape
    <3>3. QED BY <3>2 DEF age
  <2>2. since \in 0..(Deadline + JobTTL)
    <3>1. run[r] \in Shape /\ ~Due(r) /\ Timely(run[r]) BY <1>3 DEF RunSound
    <3>2. run[r].since \in 0..(Deadline + JobTTL) BY <3>1 DEF Shape
    <3>3. run[r].job = "live" => run[r].since < Deadline BY <3>1, <3>2 DEF Due, Timely
    <3>4. QED BY <3>2, <3>3 DEF since
  <2> USE DEF age, since
  <2>3. run'[r] = [run[r] EXCEPT !.age = age, !.since = since] BY <1>3
  <2> HIDE DEF age, since
  <2>4. QED BY <1>3, <2>1, <2>2, <2>3 DEF Shape
<1>5. KubeTypeOK'
  <2>1. run' \in [Runs -> Shape] BY <1>4 DEF KubeTick
  <2>2. QED BY <1>1, <1>2, <2>1 DEF KubeTypeOK, Shape
<1>6. ASSUME NEW r \in Runs
      PROVE  /\ run'[r].row = run[r].row /\ run'[r].at = run[r].at /\ run'[r].job = run[r].job
             /\ run'[r].loose = run[r].loose /\ run'[r].secret = run[r].secret
             /\ run'[r].unread = run[r].unread /\ run'[r].stuck = run[r].stuck
             /\ run'[r].age = IF run[r].row = "none" \/ run[r].age > Abandoned THEN run[r].age ELSE run[r].age + 1
             /\ run[r].job = "live" => run'[r].since = run[r].since + 1
             /\ run[r].age \in Nat /\ run[r].since \in Nat /\ ~Due(r) /\ RunSound(run[r])
  <2>1. run[r] \in Shape BY <1>3
  <2>2. run[r].age \in Nat /\ run[r].since \in Nat BY <2>1 DEF Shape
  <2>3. QED BY <1>3, <2>1, <2>2, ZenonT(30) DEF Shape
<1>7. ListSound'
  <2>1. ASSUME NEW r \in sweep.todo PROVE run'[r].row = "finished" \/ run'[r].age > Abandoned
    <3>1. r \in Runs /\ (run[r].row = "finished" \/ run[r].age > Abandoned) BY <1>1 DEF KubeTypeOK, ListSound
    <3>2. QED BY <1>6, <3>1
  <2>2. QED BY <1>2, <2>1 DEF ListSound
<1>8. ASSUME NEW r \in Runs PROVE RunSound(run'[r])
  <2> USE <1>6 DEF RunSound, WorkerAt
  <2>1. Placed(run'[r]) BY DEF Placed
  <2>2. Timely(run'[r]) BY DEF Timely, Placed, Due
  <2>3. Stopped(run'[r]) BY DEF Stopped
  <2>4. Supplied(run'[r]) BY DEF Supplied
  <2>5. QED BY <2>1, <2>2, <2>3, <2>4
<1>9. QED BY <1>5, <1>7, <1>8 DEF KubeSound

\* The sweep does: what it lists is finished or abandoned.
LEMMA SweepKept == ASSUME KubeSound, SweepList \/ MarkRunSecretsSwept \/ SweepDies PROVE KubeSound'
<1>1. KubeTypeOK /\ ListSound /\ \A r \in Runs : RunSound(run[r]) BY DEF KubeSound
<1>2. troubles' \in KubeBound
  <2>1. Trouble("faults") \/ Trouble("deaths") \/ troubles' = troubles
    BY Zenon DEF SweepList, MarkRunSecretsSwept, SweepDies
  <2>2. QED BY <1>1, <2>1, TroublesTyped DEF KubeTypeOK
<1>3. CASE SweepList
  <2>1. ListSound' BY <1>3 DEF SweepList, RunSecretsToSweep, ListSound
  <2>2. KubeTypeOK' BY <1>1, <1>2, <1>3 DEF SweepList, RunSecretsToSweep, KubeTypeOK
  <2>3. QED BY <1>1, <1>3, <2>1, <2>2 DEF SweepList, KubeSound
<1>4. CASE MarkRunSecretsSwept
  <2>1. sweep' = Idle /\ run' \in [Runs -> Shape]
    <3>1. CASE UNCHANGED run BY <1>1, <1>4, <3>1 DEF MarkRunSecretsSwept, KubeTypeOK, Shape
    <3>2. CASE run' = [r \in Runs |-> [run[r] EXCEPT !.swept = @ \/ r \in sweep.done]]
      <4>1. ASSUME NEW r \in Runs PROVE [run[r] EXCEPT !.swept = @ \/ r \in sweep.done] \in Shape
        <5>1. run[r] \in Shape BY <1>1 DEF KubeTypeOK, Shape
        <5>2. (run[r].swept \/ r \in sweep.done) \in BOOLEAN OBVIOUS
        <5>3. QED BY <5>1, <5>2, Zenon DEF Shape
      <4>2. QED BY <1>4, <3>2, <4>1 DEF MarkRunSecretsSwept
    <3>3. QED BY <1>4, <3>1, <3>2 DEF MarkRunSecretsSwept
  <2>2. KubeTypeOK' BY <1>2, <2>1 DEF KubeTypeOK, Shape, Idle
  <2>3. ListSound' BY <2>1 DEF ListSound, Idle
  <2>4. ASSUME NEW r \in Runs PROVE RunSound(run'[r])
    <3>1. CASE UNCHANGED run BY <1>1, <3>1
    <3>2. CASE run' = [q \in Runs |-> [run[q] EXCEPT !.swept = @ \/ q \in sweep.done]]
      <4>1. /\ run'[r].row = run[r].row /\ run'[r].at = run[r].at /\ run'[r].job = run[r].job
            /\ run'[r].loose = run[r].loose /\ run'[r].secret = run[r].secret /\ run'[r].since = run[r].since
            /\ run'[r].age = run[r].age /\ run'[r].unread = run[r].unread /\ run'[r].stuck = run[r].stuck
        BY <1>1, <3>2 DEF KubeTypeOK
      <4>2. QED BY <1>1, <4>1 DEF RunSound, Placed, Timely, Stopped, Supplied
    <3>3. QED BY <1>4, <3>1, <3>2 DEF MarkRunSecretsSwept
  <2>5. QED BY <2>2, <2>3, <2>4 DEF KubeSound
<1>5. CASE SweepDies
  <2>1. sweep' = Idle /\ run' = run BY <1>5 DEF SweepDies
  <2>2. QED BY <1>1, <1>2, <2>1 DEF KubeSound, KubeTypeOK, ListSound, Idle
<1>6. QED BY <1>3, <1>4, <1>5

-----------------------------------------------------------------------------
(* Theorems. *)

\* The invariant holds at first, and every step keeps it.
LEMMA KubeInitSound == KubeInit => KubeSound
<1> SUFFICES ASSUME KubeInit PROVE KubeSound OBVIOUS
<1> USE KubeAssumption
<1>1. Unstarted \in Shape
  <2>1. 0 \in 0..(Abandoned + 1) /\ 0 \in 0..MaxUnread /\ 0 \in 0..StartGrace /\ 0 \in 0..(Deadline + JobTTL) OBVIOUS
  <2>2. QED BY <2>1 DEF Unstarted, Shape, Unready
<1>2. KubeTypeOK BY <1>1 DEF KubeInit, KubeTypeOK, Shape, Idle
<1>3. ListSound BY DEF KubeInit, ListSound, Idle
<1>4. RunSound(Unstarted)
  BY DEF Unstarted, RunSound, Placed, Timely, Stopped, Supplied, WorkerAt, Launching, Undoing
<1>5. QED BY <1>2, <1>3, <1>4 DEF KubeSound, KubeInit

LEMMA KubeNextSound == KubeSound /\ [KubeNext]_kubeVars => KubeSound'
<1>1. ASSUME KubeSound, UNCHANGED kubeVars PROVE KubeSound'
  BY <1>1 DEF kubeVars, KubeSound, KubeTypeOK, ListSound
<1>2. QED BY <1>1, RunKept, TickKept, SweepKept DEF KubeNext, RunStep, Sweeping

LEMMA KubeInvariant == KubeSpec => []KubeSound
BY KubeInitSound, KubeNextSound, PTL DEF KubeSpec

\* A run's Secret lasts as long as its pod may need it, and its Job no longer
\* than its row, whatever call fails, whoever dies and however late the sweep
\* acts; a Job that a call left unanswered is the one exception.
THEOREM RunsAndPodsAgree == KubeSpec => []PodsFollowTheirRun
<1>1. KubeSound => PodsFollowTheirRun
  BY DEF KubeSound, RunSound, Supplied, Stopped, PodsFollowTheirRun, StartingRunHasSecret, EndedRunIsStopped
<1>2. QED BY <1>1, KubeInvariant, PTL

-----------------------------------------------------------------------------
(***************************************************************************)
(* Intake, for every number of repositories, changes, half seconds and     *)
(* failures, every lookback and every limit of automatic reviews.          *)
(*                                                                         *)
(* Polls miss nothing because of what lies ahead of them.  A version the   *)
(* row does not have changed at or after the last recorded poll began; so  *)
(* the next poll, which looks back to that one, lists it.  While a poll    *)
(* runs, a version that it has passed and the row does not have changed    *)
(* after the poll began, or its repository was skipped, and then the poll  *)
(* is not recorded.  Webhooks do no harm to this: the row gives way only   *)
(* to a later version.                                                     *)
(***************************************************************************)

\* Versions of a pull request, in the order of their times.
Versions == [event : {"push", "edit", "close", "reopen"}, head : Nat \ {0}, open : BOOLEAN, when : Nat,
             split : BOOLEAN]

HistTyped ==
    /\ now \in Nat /\ hist \in [Repo -> Seq(Versions)]
    /\ \A r \in Repo :
        /\ Len(hist[r]) >= 1
        /\ \A v \in 1 .. Len(hist[r]) :
            /\ hist[r][v].head <= v /\ hist[r][v].when <= now
            /\ hist[r][v].open <=> (hist[r][v].event # "close")
            /\ \A u \in 1 .. v : hist[r][u].when <= hist[r][v].when

MailTyped == \A m \in mail : m[1] \in Repo /\ m[2] \in 1 .. Last(m[1])

PullTyped ==
    /\ row \in [Repo -> [head : Nat, open : BOOLEAN, at : Nat \cup {Never}]]
    /\ \A r \in Repo :
        /\ row[r].head \in Heads(r) \cup {0}
        /\ row[r].at \in {Never} \cup {Stamp(hist[r][v].when) : v \in DOMAIN hist[r]}

AutoTyped == auto \in [Repo -> [paused : BOOLEAN, count : Nat]]

JobsTyped ==
    /\ queued \in [Repo -> SUBSET Nat] /\ kept \in [Repo -> SUBSET Nat]
    /\ reviewed \in [Repo -> SUBSET (Nat \X {"completed", "skipped", "failed"})]
    /\ \A r \in Repo :
        /\ queued[r] \subseteq Heads(r) /\ kept[r] \subseteq Heads(r) \ queued[r]
        /\ reviewed[r] \subseteq Heads(r) \X {"completed", "skipped", "failed"}

\* The poll under way looks back to the last recorded one, and further than it
\* only if some poll was cut that short.
PollTyped ==
    /\ polled \in {Never} \cup 0 .. now /\ cut \in BOOLEAN
    /\ poll \in [at : Nat, started : Nat, since : Int, first : BOOLEAN, seen : Nat, skipped : BOOLEAN]
    /\ poll.at <= room.repos + 1 /\ poll.started <= now
    /\ poll.seen # 0 => poll.at \in Repo /\ poll.seen \in 1 .. Last(poll.at)
    /\ poll.at # 0 => /\ poll.since = Later(polled, poll.started - Lookback)
                      /\ ~cut => poll.started - Lookback <= Later(polled, 0)

IntakeTyped ==
    room \in IntakeBound /\ HistTyped /\ MailTyped /\ PullTyped /\ AutoTyped /\ JobsTyped /\ PollTyped

\* The row has the pull request as it last changed.
Known(r) == UpToDate(r) /\ row[r].at = Stamp(Current(r).when)

\* What PollMissesNothing speaks of, at whatever time it last changed.
Plain(r) == Current(r).open /\ ~Current(r).split /\ ~Tied(r) /\ ~cut

\* What is not known lies ahead of the last poll.
AheadOfPoll(r) == Plain(r) => Known(r) \/ Stamp(Current(r).when) >= polled

\* What the poll under way has passed and is not known lies ahead of it too,
\* but for what it has listed and not dispatched.
Passed(r) ==
    Plain(r) /\ poll.at # 0 /\ ~poll.skipped =>
        /\ r < poll.at => Known(r) \/ Stamp(Current(r).when) >= poll.started
        /\ r = poll.at /\ poll.seen # 0 =>
                Known(r) \/ Stamp(Current(r).when) >= poll.started \/ poll.seen = Last(r)

PollSound == \A r \in Repo : AheadOfPoll(r) /\ Passed(r)

\* A limit that was reached pauses.
LimitPauses == \A r \in Repo : MaxAutoReviews > 0 /\ auto[r].count >= MaxAutoReviews => auto[r].paused

IntakeSound == IntakeTyped /\ PollSound /\ LimitPauses /\ ReviewedHeadStaysDone

-----------------------------------------------------------------------------
(* The forge's times, its versions, and what may still happen. *)

LEMMA StampTyped == ASSUME NEW t \in Nat PROVE Stamp(t) \in Nat /\ Stamp(t) <= t
BY DEF Stamp

LEMMA StampMonotone == ASSUME NEW t \in Nat, NEW u \in Nat, t <= u PROVE Stamp(t) <= Stamp(u)
BY DEF Stamp

LEMMA SpendTyped ==
    ASSUME room \in IntakeBound, NEW what \in {"changes", "ticks", "faults", "gestures"},
           Spend(what) \/ room' = room
    PROVE  room' \in IntakeBound /\ Repo' = Repo /\ room'.repos = room.repos
BY DEF IntakeBound, Spend, Repo

LEMMA RoomKeeps ==
    ASSUME room \in IntakeBound, [IntakeNext]_intakeVars
    PROVE  room' \in IntakeBound /\ Repo' = Repo /\ room'.repos = room.repos
<1>1. ASSUME NEW r \in Repo, NEW event \in {"push", "edit", "close", "reopen"}, Change(r, event)
      PROVE  Spend("changes")
    BY <1>1 DEF Change
<1>2. ASSUME NEW r \in Repo, NEW head \in Heads(r), ReviewEnds(r, head)
      PROVE  Spend("faults") \/ room' = room
    BY <1>2 DEF ReviewEnds
<1>3. ASSUME NEW r \in Repo, NEW pause \in BOOLEAN, PausePullRequest(r, pause)
      PROVE  Spend("gestures")
    BY <1>3 DEF PausePullRequest
<1>4. ASSUME NEW m \in mail, Deliver(m) \/ Lose(m) PROVE Spend("faults") \/ room' = room
    BY <1>4 DEF Deliver, Lose
<1>5. ASSUME NEW r \in Repo, NEW head \in Heads(r), CleanJob(r, head) PROVE room' = room
    BY <1>5 DEF CleanJob
<1>6. Tick => Spend("ticks")
    BY DEF Tick
<1>7. Polling \/ PollCut => Spend("faults") \/ room' = room
    BY DEF Polling, PollCut, PollStarts, PollLists, PollDispatches, PollEnds
<1>8. UNCHANGED intakeVars => room' = room
    BY DEF intakeVars
<1>9. (\E what \in {"changes", "ticks", "faults", "gestures"} : Spend(what)) \/ room' = room
    BY <1>1, <1>2, <1>3, <1>4, <1>5, <1>6, <1>7, <1>8 DEF IntakeNext
<1> QED BY <1>9, SpendTyped

LEMMA VersionFacts ==
    ASSUME HistTyped, NEW r \in Repo
    PROVE  /\ Last(r) \in Nat /\ Last(r) >= 1 /\ DOMAIN hist[r] = 1 .. Last(r)
           /\ Current(r) = hist[r][Last(r)] /\ Current(r) \in Versions
           /\ Stamp(Current(r).when) \in Nat /\ Stamp(Current(r).when) <= Current(r).when
           /\ Current(r).when <= now /\ Current(r).when \in Nat
           /\ \A v \in 1 .. Last(r) :
                /\ hist[r][v] \in Versions /\ hist[r][v].when \in Nat /\ hist[r][v].head \in Heads(r)
                /\ Stamp(hist[r][v].when) \in Nat
                /\ Stamp(hist[r][v].when) <= Stamp(Current(r).when)
           /\ Heads(r) \subseteq Nat \ {0}
<1>1. hist[r] \in Seq(Versions) /\ Len(hist[r]) >= 1
    BY DEF HistTyped
<1>2. Last(r) \in Nat /\ Last(r) >= 1 /\ DOMAIN hist[r] = 1 .. Last(r)
    BY <1>1 DEF Last
<1>3. ASSUME NEW v \in 1 .. Last(r)
      PROVE  /\ hist[r][v] \in Versions /\ hist[r][v].when \in Nat /\ hist[r][v].head \in Heads(r)
             /\ hist[r][v].head \in Nat \ {0}
             /\ hist[r][v].when <= now
             /\ hist[r][v].when <= Current(r).when
  <2>1. hist[r][v] \in Versions
      BY <1>1, <1>2 DEF Last
  <2>2. hist[r][v].when <= Current(r).when /\ hist[r][v].when <= now
      BY <1>2 DEF HistTyped, Current, Last
  <2> QED BY <1>2, <2>1, <2>2 DEF Versions, Heads
<1>4. Current(r) = hist[r][Last(r)] /\ Current(r) \in Versions /\ Current(r).when \in Nat /\ Current(r).when <= now
    BY <1>2, <1>3 DEF Current
<1>5. ASSUME NEW v \in 1 .. Last(r)
      PROVE  Stamp(hist[r][v].when) \in Nat /\ Stamp(hist[r][v].when) <= Stamp(Current(r).when)
    BY <1>3, <1>4, StampTyped, StampMonotone
<1>6. Heads(r) \subseteq Nat \ {0}
    BY <1>2, <1>3 DEF Heads
<1> QED BY <1>2, <1>3, <1>4, <1>5, <1>6, StampTyped

\* Where the forge and the rows stay as they are, so does what is known.
LEMMA SameVersions ==
    ASSUME UNCHANGED <<hist, row, cut>>, NEW r
    PROVE  Known(r)' = Known(r) /\ Plain(r)' = Plain(r) /\ Last(r)' = Last(r) /\ Current(r)' = Current(r)
           /\ Heads(r)' = Heads(r)
BY DEF Known, Plain, Last, Current, UpToDate, Tied, Heads

LEMMA IntakeInitSound == IntakeInit => IntakeSound
<1> SUFFICES ASSUME IntakeInit PROVE IntakeSound
    OBVIOUS
<1>1. room \in IntakeBound /\ now = 0 /\ room.repos \in Nat
    BY IntakeAssumption DEF IntakeInit, IntakeBound
<1>2. ASSUME NEW r \in Repo
      PROVE  /\ hist[r] \in Seq(Versions) /\ Len(hist[r]) = 1 /\ hist[r][1].when = 0 /\ hist[r][1].head = 1
             /\ hist[r][1].open /\ hist[r][1].event = "push"
  <2>1. hist[r] = <<[event |-> "push", head |-> 1, open |-> TRUE, when |-> 0, split |-> FALSE]>>
      BY DEF IntakeInit
  <2> QED BY <2>1 DEF Versions
<1>3. HistTyped
  <2>1. hist \in [Repo -> Seq(Versions)]
      BY <1>2 DEF IntakeInit
  <2> QED BY <1>1, <1>2, <2>1 DEF HistTyped
<1>4. MailTyped /\ PullTyped /\ AutoTyped /\ JobsTyped /\ LimitPauses /\ ReviewedHeadStaysDone
    BY IntakeAssumption DEF IntakeInit, MailTyped, PullTyped, AutoTyped, JobsTyped, LimitPauses,
       ReviewedHeadStaysDone, NoRow, Never
<1>5. PollTyped
  <2>1. poll = [at |-> 0, started |-> 0, since |-> 0, first |-> FALSE, seen |-> 0, skipped |-> FALSE]
        /\ polled \in {Never} \cup 0 .. now /\ cut \in BOOLEAN
      BY DEF IntakeInit, NoPoll
  <2> QED BY <1>1, <2>1 DEF PollTyped
<1>6. PollSound
  <2> SUFFICES ASSUME NEW r \in Repo PROVE AheadOfPoll(r) /\ Passed(r)
      BY DEF PollSound
  <2>1. Stamp(Current(r).when) >= polled
      BY <1>3, VersionFacts DEF IntakeInit, Never
  <2> QED BY <2>1 DEF IntakeInit, NoPoll, AheadOfPoll, Passed
<1> QED BY <1>1, <1>3, <1>4, <1>5, <1>6 DEF IntakeSound, IntakeTyped

-----------------------------------------------------------------------------
(* The forge's side. *)

\* What is true of the rows stays true where nothing they speak of changes.
LEMMA SameRows ==
    ASSUME IntakeSound, room' \in IntakeBound, Repo' = Repo, room'.repos = room.repos, UNCHANGED hist
    PROVE  /\ now' \in Nat /\ now' >= now => HistTyped'
           /\ mail' \subseteq mail => MailTyped'
           /\ UNCHANGED row => PullTyped'
           /\ UNCHANGED auto => AutoTyped' /\ LimitPauses'
           /\ UNCHANGED jobRows => JobsTyped' /\ ReviewedHeadStaysDone'
           /\ UNCHANGED <<now, pollSide>> => PollTyped'
           /\ UNCHANGED <<row, pollSide>> => PollSound'
<1>1. now' \in Nat /\ now' >= now => HistTyped'
  <2> SUFFICES ASSUME now' \in Nat, now' >= now PROVE HistTyped'
      OBVIOUS
  <2>1. ASSUME NEW r \in Repo, NEW v \in 1 .. Len(hist[r]) PROVE hist[r][v].when <= now'
    <3>1. hist[r][v].when \in Nat /\ hist[r][v].when <= now /\ now \in Nat
        BY VersionFacts DEF IntakeSound, IntakeTyped, Last, HistTyped
    <3> QED BY <3>1
  <2> QED BY <2>1 DEF IntakeSound, IntakeTyped, HistTyped
<1>2. mail' \subseteq mail => MailTyped'
    BY DEF IntakeSound, IntakeTyped, MailTyped, Last
<1>3. UNCHANGED row => PullTyped'
    BY DEF IntakeSound, IntakeTyped, PullTyped, Heads
<1>4. UNCHANGED auto => AutoTyped' /\ LimitPauses'
    BY DEF IntakeSound, IntakeTyped, AutoTyped, LimitPauses
<1>5. UNCHANGED jobRows => JobsTyped' /\ ReviewedHeadStaysDone'
    BY DEF IntakeSound, IntakeTyped, JobsTyped, ReviewedHeadStaysDone, jobRows, Heads
<1>6. UNCHANGED <<now, pollSide>> => PollTyped'
    BY DEF IntakeSound, IntakeTyped, PollTyped, pollSide, Last
<1>7. UNCHANGED <<row, pollSide>> => PollSound'
  <2> SUFFICES ASSUME UNCHANGED <<row, pollSide>>, NEW r \in Repo PROVE AheadOfPoll(r)' /\ Passed(r)'
      BY DEF PollSound
  <2>1. AheadOfPoll(r) /\ Passed(r)
      BY DEF IntakeSound, PollSound
  <2> QED BY <2>1, SameVersions DEF AheadOfPoll, Passed, pollSide
<1> QED BY <1>1, <1>2, <1>3, <1>4, <1>5, <1>6, <1>7

\* The clock goes on.
LEMMA ClockInv ==
    ASSUME IntakeSound, Tick, room' \in IntakeBound, Repo' = Repo, room'.repos = room.repos
    PROVE  IntakeSound'
<1>1. UNCHANGED <<hist, mail, row, auto, jobRows, pollSide>> /\ now' = now + 1 /\ now \in Nat
    BY DEF Tick, IntakeSound, IntakeTyped, HistTyped
<1>2. PollTyped'
  <2>1. poll.started <= now' /\ polled \in {Never} \cup 0 .. now'
      BY <1>1 DEF IntakeSound, IntakeTyped, PollTyped
  <2> QED BY <1>1, <2>1 DEF IntakeSound, IntakeTyped, PollTyped, pollSide, Last
<1> QED BY <1>1, <1>2, SameRows DEF IntakeSound, IntakeTyped

LEMMA ChangeFacts ==
    ASSUME IntakeTyped, NEW r \in Repo, NEW event \in {"push", "edit", "close", "reopen"}, Change(r, event)
    PROVE  /\ \A q \in Repo : q # r => hist'[q] = hist[q]
           /\ hist' \in [Repo -> Seq(Versions)]
           /\ Len(hist'[r]) = Last(r) + 1
           /\ \A v \in 1 .. Last(r) : hist'[r][v] = hist[r][v]
           /\ hist'[r][Last(r) + 1].event = event
           /\ hist'[r][Last(r) + 1].open <=> (event # "close")
           /\ hist'[r][Last(r) + 1].when = now
           /\ hist'[r][Last(r) + 1].split = MidSecond
           /\ hist'[r][Last(r) + 1].head \in 1 .. Last(r) + 1
<1> DEFINE head == IF event = "push" THEN Last(r) + 1 ELSE Current(r).head
           new  == [event |-> event, head |-> head, open |-> event # "close", when |-> now, split |-> MidSecond]
<1>1. hist' = [hist EXCEPT ![r] = Append(@, new)]
    BY DEF Change
<1>2. hist \in [Repo -> Seq(Versions)] /\ now \in Nat
    BY DEF IntakeTyped, HistTyped
<1>3. head \in 1 .. Last(r) + 1
  <2>1. Last(r) \in Nat /\ Last(r) >= 1 /\ Current(r) \in Versions
      BY VersionFacts DEF IntakeTyped
  <2>2. Current(r).head <= Last(r)
      BY <2>1 DEF IntakeTyped, HistTyped, Current, Last
  <2> QED BY <2>1, <2>2 DEF Versions
<1>4. MidSecond \in BOOLEAN
    BY DEF MidSecond
<1> HIDE DEF head
<1>5. new \in Versions
    BY <1>2, <1>3, <1>4, VersionFacts DEF Versions, IntakeTyped
<1>6. new.event = event /\ new.head = head /\ new.open = (event # "close") /\ new.when = now /\ new.split = MidSecond
    OBVIOUS
<1> HIDE DEF new
<1>7. hist[r] \in Seq(Versions) /\ hist'[r] = Append(hist[r], new)
    BY <1>1, <1>2
<1>8. hist'[r] \in Seq(Versions) /\ Len(hist'[r]) = Last(r) + 1 /\ hist'[r][Last(r) + 1] = new
      /\ \A v \in 1 .. Last(r) : hist'[r][v] = hist[r][v]
    BY <1>5, <1>7 DEF Last
<1>9. hist' \in [Repo -> Seq(Versions)]
    BY <1>1, <1>2, <1>8
<1> QED BY <1>1, <1>2, <1>3, <1>6, <1>8, <1>9

\* A change brings a version later than all others, at or after the last poll,
\* unless their times cannot tell.
LEMMA ChangeInv ==
    ASSUME IntakeSound, NEW r \in Repo, NEW event \in {"push", "edit", "close", "reopen"}, Change(r, event),
           room' \in IntakeBound, Repo' = Repo, room'.repos = room.repos
    PROVE  IntakeSound'
<1> USE DEF IntakeSound
<1>1. UNCHANGED <<now, row, auto, jobRows, pollSide>> /\ mail' = mail \cup {<<r, Last(r) + 1>>} /\ now \in Nat
    BY DEF Change, IntakeTyped, HistTyped
<1>2. HistTyped
    BY DEF IntakeTyped
<1>3. Last(r) \in Nat /\ Last(r) >= 1 /\ Last(r)' = Last(r) + 1 /\ Current(r)' = hist'[r][Last(r) + 1]
      /\ Current(r)'.when = now
    BY <1>2, VersionFacts, ChangeFacts DEF IntakeSound, IntakeTyped, Last, Current
<1>4. ASSUME NEW q \in Repo
      PROVE  /\ Last(q) \in Nat /\ Last(q)' \in Nat /\ Last(q) <= Last(q)' /\ DOMAIN hist'[q] = 1 .. Last(q)'
             /\ \A v \in 1 .. Last(q) : hist'[q][v] = hist[q][v]
             /\ q # r => hist'[q] = hist[q] /\ Last(q)' = Last(q) /\ Current(q)' = Current(q)
  <2>1. Last(q) \in Nat /\ DOMAIN hist[q] = 1 .. Last(q)
      BY <1>2, VersionFacts
  <2>2. CASE q = r
    <3>1. hist'[r] \in Seq(Versions)
        BY ChangeFacts DEF IntakeTyped
    <3> QED BY <1>3, <2>1, <2>2, <3>1, ChangeFacts DEF IntakeTyped, Last
  <2>3. CASE q # r
    <3>1. hist'[q] = hist[q]
        BY <2>3, ChangeFacts DEF IntakeTyped
    <3> QED BY <2>1, <2>3, <3>1 DEF Last, Current
  <2> QED BY <2>2, <2>3
<1>5. HistTyped'
  <2>1. hist' \in [Repo -> Seq(Versions)]
      BY ChangeFacts DEF IntakeTyped
  <2>2. ASSUME NEW q \in Repo, NEW v \in 1 .. Last(q)'
        PROVE  /\ hist'[q][v].head <= v /\ hist'[q][v].when <= now
               /\ hist'[q][v].open <=> (hist'[q][v].event # "close")
               /\ \A u \in 1 .. v : hist'[q][u].when <= hist'[q][v].when
    <3>1. CASE v \in 1 .. Last(q)
      <4>1. hist[q][v].head <= v /\ hist[q][v].when <= now /\ (hist[q][v].open <=> (hist[q][v].event # "close"))
            /\ \A u \in 1 .. v : hist[q][u].when <= hist[q][v].when
          BY <1>2, <3>1 DEF HistTyped, Last
      <4>2. hist'[q][v] = hist[q][v] /\ \A u \in 1 .. v : hist'[q][u] = hist[q][u]
          BY <1>4, <3>1
      <4> QED BY <4>1, <4>2
    <3>2. CASE v \notin 1 .. Last(q)
      <4>1. q = r /\ v = Last(r) + 1
          BY <1>3, <1>4, <3>2
      <4>2. hist'[r][v].head <= v /\ hist'[r][v].when = now /\ (hist'[r][v].open <=> (hist'[r][v].event # "close"))
          BY <1>3, <4>1, ChangeFacts DEF IntakeTyped
      <4>3. ASSUME NEW u \in 1 .. v PROVE hist'[r][u].when <= now
        <5>1. CASE u = v
            BY <1>1, <4>2, <5>1
        <5>2. CASE u \in 1 .. Last(r)
            BY <1>2, <1>4, <5>2 DEF HistTyped, Last
        <5> QED BY <1>3, <4>1, <5>1, <5>2
      <4> QED BY <1>1, <4>1, <4>2, <4>3
    <3> QED BY <3>1, <3>2
  <2>3. ASSUME NEW q \in Repo PROVE Len(hist'[q]) >= 1
      BY <1>2, <1>3, <1>4, VersionFacts DEF Last
  <2> QED BY <1>1, <2>1, <2>2, <2>3 DEF HistTyped, Last
<1>6. ASSUME NEW q \in Repo PROVE Heads(q) \subseteq Heads(q)'
  <2>1. DOMAIN hist[q] = 1 .. Last(q) /\ DOMAIN hist'[q] = 1 .. Last(q)'
      BY <1>2, <1>4, VersionFacts
  <2>2. 1 .. Last(q) \subseteq 1 .. Last(q)'
      BY <1>4
  <2> QED BY <1>4, <2>1, <2>2 DEF Heads
<1>7. MailTyped'
  <2> SUFFICES ASSUME NEW m \in mail' PROVE m[1] \in Repo /\ m[2] \in 1 .. Last(m[1])'
      BY DEF MailTyped
  <2>1. CASE m \in mail
      BY <1>4, <2>1 DEF IntakeTyped, MailTyped
  <2>2. CASE m = <<r, Last(r) + 1>>
      BY <1>3, <2>2
  <2> QED BY <1>1, <2>1, <2>2
<1>8. PullTyped'
  <2>1. ASSUME NEW q \in Repo
        PROVE  row[q].head \in Heads(q)' \cup {0}
               /\ row[q].at \in {Never} \cup {Stamp(hist'[q][v].when) : v \in DOMAIN hist'[q]}
    <3>1. row[q].head \in Heads(q) \cup {0}
          /\ row[q].at \in {Never} \cup {Stamp(hist[q][v].when) : v \in 1 .. Last(q)}
        BY <1>2, VersionFacts DEF IntakeTyped, PullTyped
    <3>2. 1 .. Last(q) \subseteq DOMAIN hist'[q]
        BY <1>4
    <3> QED BY <1>4, <1>6, <3>1, <3>2, SMTT(30)
  <2> QED BY <1>1, <2>1 DEF IntakeTyped, PullTyped
<1>9. JobsTyped' /\ ReviewedHeadStaysDone'
    BY <1>1, <1>6 DEF IntakeTyped, JobsTyped, jobRows, ReviewedHeadStaysDone
<1>10. PollTyped'
  <2>1. ASSUME poll.seen # 0 PROVE poll.at \in Repo /\ poll.seen \in 1 .. Len(hist'[poll.at])
    <3>1. poll.at \in Repo /\ poll.seen \in 1 .. Last(poll.at)
        BY <2>1 DEF IntakeTyped, PollTyped
    <3>2. Last(poll.at) \in Nat /\ Len(hist'[poll.at]) \in Nat /\ Last(poll.at) <= Len(hist'[poll.at])
        BY <1>4, <3>1 DEF Last
    <3> QED BY <3>1, <3>2
  <2> QED BY <1>1, <2>1 DEF IntakeTyped, PollTyped, pollSide, Last
<1>11. PollSound'
  <2> SUFFICES ASSUME NEW q \in Repo PROVE AheadOfPoll(q)' /\ Passed(q)'
      BY DEF PollSound
  <2>1. CASE q = r
    <3>1. Plain(r)' => Stamp(now) >= polled /\ (poll.at # 0 => Stamp(now) >= poll.started)
      <4> SUFFICES ASSUME ~MidSecond PROVE Stamp(now) >= polled /\ (poll.at # 0 => Stamp(now) >= poll.started)
          BY <1>3, ChangeFacts DEF IntakeTyped, Plain
      <4> QED BY <1>1, StampTyped DEF MidSecond, IntakeTyped, PollTyped, Never
    <3> QED BY <1>1, <1>3, <2>1, <3>1 DEF AheadOfPoll, Passed, pollSide
  <2>2. CASE q # r
    <3>1. Known(q)' = Known(q) /\ Plain(q)' = Plain(q)
      <4>1. hist'[q] = hist[q] /\ Last(q)' = Last(q) /\ Current(q)' = Current(q) /\ row' = row /\ cut' = cut
          BY <1>1, <1>4, <2>2 DEF pollSide
      <4> QED BY <4>1 DEF Known, Plain, UpToDate, Tied
    <3> QED BY <1>1, <1>4, <2>2, <3>1 DEF AheadOfPoll, Passed, pollSide, PollSound
  <2> QED BY <2>1, <2>2
<1>12. AutoTyped' /\ LimitPauses'
    BY <1>1 DEF IntakeTyped, AutoTyped, LimitPauses
<1> QED BY <1>5, <1>7, <1>8, <1>9, <1>10, <1>11, <1>12 DEF IntakeTyped

-----------------------------------------------------------------------------
(* The dispatcher. *)

\* What an event does to the row and the queue, of whatever version it is: the
\* row of a pull request that is known stays, and the last version makes it
\* known.
LEMMA RecordsInv ==
    ASSUME IntakeSound, NEW r \in Repo, NEW v \in 1 .. Last(r), NEW starts \in BOOLEAN,
           NEW settled, "completed" \in settled,
           PullRequest(r, v, starts, settled) \/ (hist[r][v].event = "close" /\ ClosePullRequest(r, v)),
           Repo' = Repo, UNCHANGED <<hist, auto, kept, reviewed, cut>>
    PROVE  /\ PullTyped' /\ JobsTyped' /\ ReviewedHeadStaysDone'
           /\ \A q \in Repo : Plain(q)' /\ Known(q) => Known(q)'
           /\ PullRequest(r, v, starts, settled) /\ v = Last(r) => Known(r)'
           /\ auto[r].paused => queued' = queued
<1> DEFINE pr == hist[r][v]
           at == Stamp(pr.when)
<1>1. HistTyped /\ PullTyped /\ JobsTyped /\ ReviewedHeadStaysDone
    BY DEF IntakeSound, IntakeTyped
<1>2. /\ pr.head \in Heads(r) /\ pr.head \in Nat /\ pr.open \in BOOLEAN /\ at \in Nat
      /\ at <= Stamp(Current(r).when) /\ v \in DOMAIN hist[r]
    BY <1>1, VersionFacts DEF Versions
<1>3. row[r].at \in Int /\ row[r].at <= Stamp(Current(r).when)
  <2>1. CASE row[r].at = Never
      BY <1>1, <2>1, VersionFacts DEF Never
  <2>2. CASE row[r].at # Never
    <3>1. PICK u \in DOMAIN hist[r] : row[r].at = Stamp(hist[r][u].when)
        BY <1>1, <2>2 DEF PullTyped
    <3>2. u \in 1 .. Last(r)
        BY <1>1, VersionFacts
    <3> QED BY <1>1, <3>1, <3>2, VersionFacts
  <2> QED BY <2>1, <2>2
<1>4. \A q \in Repo : q # r => row'[q] = row[q]
    BY <1>1 DEF PullRequest, ClosePullRequest, PullTyped
<1>5. \/ row' = row
      \/ Fresh(r, at) /\ row' = [row EXCEPT ![r] = [head |-> pr.head, open |-> pr.open, at |-> at]]
      \/ Fresh(r, at) /\ pr.event = "close" /\ row' = [row EXCEPT ![r].open = FALSE, ![r].at = at]
    BY DEF PullRequest, ClosePullRequest
<1>6. PullTyped'
  <2>1. ASSUME row' # row
        PROVE row'[r] \in [head : Nat, open : BOOLEAN, at : Nat \cup {Never}] /\ row'[r].at = at
              /\ row'[r].head \in Heads(r) \cup {0}
    <3> HIDE DEF at, pr
    <3>1. row[r] \in [head : Nat, open : BOOLEAN, at : Nat \cup {Never}] /\ row[r].head \in Heads(r) \cup {0}
          /\ row \in [Repo -> [head : Nat, open : BOOLEAN, at : Nat \cup {Never}]]
        BY <1>1 DEF PullTyped
    <3>2. CASE row' = [row EXCEPT ![r] = [head |-> pr.head, open |-> pr.open, at |-> at]]
      <4>1. row'[r] = [head |-> pr.head, open |-> pr.open, at |-> at]
          BY <3>1, <3>2
      <4> QED BY <1>2, <4>1
    <3>3. CASE row' = [row EXCEPT ![r].open = FALSE, ![r].at = at]
      <4>1. row'[r] = [head |-> row[r].head, open |-> FALSE, at |-> at]
          BY <3>1, <3>3
      <4> QED BY <1>2, <3>1, <4>1
    <3> QED BY <1>5, <2>1, <3>2, <3>3
  <2>2. row' \in [Repo -> [head : Nat, open : BOOLEAN, at : Nat \cup {Never}]]
      BY <1>1, <1>5, <2>1 DEF PullTyped
  <2>3. ASSUME NEW q \in Repo
        PROVE  row'[q].head \in Heads(q) \cup {0}
               /\ row'[q].at \in {Never} \cup {Stamp(hist[q][u].when) : u \in DOMAIN hist[q]}
    <3>1. CASE row'[q] = row[q]
        BY <1>1, <3>1 DEF PullTyped
    <3>2. CASE row'[q] # row[q]
        BY <1>2, <1>4, <2>1, <3>2
    <3> QED BY <3>1, <3>2
  <2> QED BY <2>2, <2>3 DEF PullTyped, Heads
<1>7. \/ queued' = queued
      \/ Queues(r, pr.head, settled) /\ queued' = [queued EXCEPT ![r] = @ \cup {pr.head}]
    BY DEF PullRequest, ClosePullRequest
<1>8. JobsTyped' /\ ReviewedHeadStaysDone'
  <2>1. CASE queued' = queued
      BY <1>1, <2>1 DEF JobsTyped, ReviewedHeadStaysDone, Heads
  <2>2. CASE Queues(r, pr.head, settled) /\ queued' = [queued EXCEPT ![r] = @ \cup {pr.head}]
    <3>1. pr.head \notin kept[r] /\ <<pr.head, "completed">> \notin reviewed[r]
        BY <2>2 DEF Queues, HeadReviewed
    <3>2. \A q \in Repo : queued'[q] = IF q = r THEN queued[r] \cup {pr.head} ELSE queued[q]
        BY <1>1, <2>2 DEF JobsTyped
    <3>3. queued' \in [Repo -> SUBSET Nat]
        BY <1>1, <1>2, <2>2 DEF JobsTyped
    <3> QED BY <1>1, <1>2, <3>1, <3>2, <3>3 DEF JobsTyped, ReviewedHeadStaysDone, Heads
  <2> QED BY <1>7, <2>1, <2>2
<1>9. ASSUME NEW q \in Repo, Plain(q)', Known(q) PROVE Known(q)'
  <2>1. CASE row'[q] = row[q]
      BY <1>9, <2>1 DEF Known, UpToDate, Current, Last
  <2>2. CASE row'[q] # row[q]
    <3>1. q = r /\ row' # row
        BY <1>4, <2>2
    <3>2. Current(r).open /\ ~Tied(r) /\ UpToDate(r) /\ row[r].at = Stamp(Current(r).when)
        BY <1>9, <3>1 DEF Plain, Known, Current, Last, Tied
    <3>3. row[r].head # 0 /\ at >= row[r].at
        BY <1>1, <1>5, <3>1, <3>2, VersionFacts DEF Fresh, UpToDate, Versions
    <3>4. at = Stamp(Current(r).when)
        BY <1>2, <1>3, <3>2, <3>3, VersionFacts, <1>1
    <3>5. v = Last(r)
        BY <1>1, <3>2, <3>4, VersionFacts DEF Tied
    <3>6. pr = Current(r) /\ pr.event # "close"
        BY <1>1, <3>2, <3>5, VersionFacts DEF HistTyped, Last
    <3>7. row'[r].head = pr.head /\ row'[r].at = at
        BY <1>1, <1>5, <3>1, <3>6 DEF PullTyped
    <3> QED BY <3>1, <3>4, <3>6, <3>7 DEF Known, UpToDate, Current, Last
  <2> QED BY <2>1, <2>2
<1>10. ASSUME PullRequest(r, v, starts, settled), v = Last(r) PROVE Known(r)'
  <2>1. pr = Current(r)
      BY <1>1, <1>10, VersionFacts
  <2>2. Fresh(r, at)
      BY <1>2, <1>3, <2>1 DEF Fresh
  <2>3. row'[r].head = pr.head /\ row'[r].at = at
      BY <1>1, <1>10, <2>2 DEF PullRequest, PullTyped
  <2> QED BY <2>1, <2>3 DEF Known, UpToDate, Current, Last
<1>11. auto[r].paused => queued' = queued
    BY <1>7 DEF Queues
<1> QED BY <1>6, <1>8, <1>9, <1>10, <1>11

\* Webhooks arrive in any order, twice or not at all.
LEMMA DeliverInv ==
    ASSUME IntakeSound, NEW m \in mail, Deliver(m),
           room' \in IntakeBound, Repo' = Repo, room'.repos = room.repos
    PROVE  IntakeSound' /\ (auto[m[1]].paused => queued' = queued) /\ m[1] \in Repo
<1> DEFINE starts == hist[m[1]][m[2]].event \in {"push", "reopen"}
<1>1. m[1] \in Repo /\ m[2] \in 1 .. Last(m[1])
    BY DEF IntakeSound, IntakeTyped, MailTyped
<1>2. /\ PullRequest(m[1], m[2], starts, ReviewedStatuses)
         \/ (hist[m[1]][m[2]].event = "close" /\ ClosePullRequest(m[1], m[2]))
      /\ UNCHANGED <<forgeSide, auto, kept, reviewed, pollSide>> /\ mail' \subseteq mail
    BY DEF Deliver
<1>3. UNCHANGED <<now, hist, auto, kept, reviewed, polled, poll, cut>>
    BY <1>2 DEF forgeSide, pollSide
<1>4. "completed" \in ReviewedStatuses /\ starts \in BOOLEAN
    BY DEF ReviewedStatuses
<1> HIDE DEF starts
<1>5. /\ PullTyped' /\ JobsTyped' /\ ReviewedHeadStaysDone' /\ (auto[m[1]].paused => queued' = queued)
      /\ \A q \in Repo : Plain(q)' /\ Known(q) => Known(q)'
    BY <1>1, <1>2, <1>3, <1>4, RecordsInv
<1>6. HistTyped' /\ MailTyped' /\ AutoTyped' /\ LimitPauses' /\ PollTyped'
  <2>1. now' \in Nat /\ now' >= now
      BY <1>3 DEF IntakeSound, IntakeTyped, HistTyped
  <2> QED BY <1>2, <1>3, <2>1, SameRows DEF pollSide
<1>7. PollSound'
  <2> SUFFICES ASSUME NEW q \in Repo PROVE AheadOfPoll(q)' /\ Passed(q)'
      BY DEF PollSound
  <2>1. AheadOfPoll(q) /\ Passed(q)
      BY DEF IntakeSound, PollSound
  <2>2. Plain(q)' = Plain(q) /\ Current(q)' = Current(q) /\ Last(q)' = Last(q)
      BY <1>3 DEF Plain, Current, Last, Tied
  <2> QED BY <1>3, <1>5, <2>1, <2>2 DEF AheadOfPoll, Passed
<1> QED BY <1>1, <1>5, <1>6, <1>7 DEF IntakeSound, IntakeTyped

LEMMA LoseInv ==
    ASSUME IntakeSound, NEW m \in mail, Lose(m),
           room' \in IntakeBound, Repo' = Repo, room'.repos = room.repos
    PROVE  IntakeSound'
<1>1. UNCHANGED <<now, hist, row, auto, jobRows, pollSide>> /\ mail' \subseteq mail
    BY DEF Lose, forgeSide
<1>2. now' \in Nat /\ now' >= now
    BY <1>1 DEF IntakeSound, IntakeTyped, HistTyped
<1> QED BY <1>1, <1>2, SameRows DEF IntakeSound, IntakeTyped

-----------------------------------------------------------------------------
(* Reviews, and those who pause and resume them. *)

\* What reviews and gestures leave alone.
LEMMA BesideForge ==
    ASSUME IntakeSound, UNCHANGED <<forgeSide, mail, row, pollSide>>,
           room' \in IntakeBound, Repo' = Repo, room'.repos = room.repos,
           JobsTyped', ReviewedHeadStaysDone', AutoTyped', LimitPauses'
    PROVE  IntakeSound'
<1>1. UNCHANGED <<now, hist>> /\ now' \in Nat /\ now' >= now
    BY DEF forgeSide, IntakeSound, IntakeTyped, HistTyped
<1> QED BY <1>1, SameRows DEF IntakeSound, IntakeTyped

LEMMA CountedTyped ==
    ASSUME NEW a \in [paused : BOOLEAN, count : Nat], MaxAutoReviews \in Nat
    PROVE  /\ Counted(a) \in [paused : BOOLEAN, count : Nat]
           /\ MaxAutoReviews > 0 /\ Counted(a).count >= MaxAutoReviews => Counted(a).paused
<1> DEFINE reached == MaxAutoReviews > 0 /\ a.count + 1 >= MaxAutoReviews
<1>1. Counted(a) = [paused |-> a.paused \/ reached, count |-> a.count + 1]
    BY DEF Counted
<1>2. a.count + 1 \in Nat
    OBVIOUS
<1>3. MaxAutoReviews > 0 /\ a.count + 1 >= MaxAutoReviews => reached
    OBVIOUS
<1> HIDE DEF reached
<1>4. Counted(a).count = a.count + 1 /\ Counted(a).paused = (a.paused \/ reached)
    BY <1>1
<1> QED BY <1>1, <1>2, <1>3, <1>4

\* A head leaves the queue before its review is recorded.
LEMMA ReviewEndsInv ==
    ASSUME IntakeSound, NEW r \in Repo, NEW head \in Heads(r), ReviewEnds(r, head),
           room' \in IntakeBound, Repo' = Repo, room'.repos = room.repos
    PROVE  IntakeSound' /\ \A q \in Repo : queued'[q] \subseteq queued[q]
<1>1. UNCHANGED <<forgeSide, mail, row, pollSide>> /\ hist' = hist
    BY DEF ReviewEnds, forgeSide
<1>2. JobsTyped /\ AutoTyped /\ LimitPauses /\ ReviewedHeadStaysDone /\ head \in Nat
    BY VersionFacts DEF IntakeSound, IntakeTyped
<1>3. /\ queued' = [queued EXCEPT ![r] = @ \ {head}] /\ kept' = [kept EXCEPT ![r] = @ \cup {head}]
      /\ \/ reviewed' = reviewed
         \/ \E how \in {"completed", "skipped", "failed"} :
                reviewed' = [reviewed EXCEPT ![r] = @ \cup {<<head, how>>}]
    BY DEF ReviewEnds, Done
<1>4. auto' = auto \/ auto' = [auto EXCEPT ![r] = Counted(@)]
    BY DEF ReviewEnds
<1>5. \A q \in Repo : /\ queued'[q] = IF q = r THEN queued[r] \ {head} ELSE queued[q]
                      /\ kept'[q] = IF q = r THEN kept[r] \cup {head} ELSE kept[q]
    BY <1>2, <1>3 DEF JobsTyped
<1>6. ASSUME NEW q \in Repo
      PROVE  /\ reviewed'[q] \subseteq Heads(q) \X {"completed", "skipped", "failed"}
             /\ \A h \in Nat, how \in {"completed", "skipped", "failed"} :
                    <<h, how>> \in reviewed'[q] => <<h, how>> \in reviewed[q] \/ (q = r /\ h = head)
  <2>1. CASE reviewed' = reviewed
      BY <1>2, <2>1 DEF JobsTyped
  <2>2. ASSUME NEW how \in {"completed", "skipped", "failed"},
               reviewed' = [reviewed EXCEPT ![r] = @ \cup {<<head, how>>}]
        PROVE  /\ reviewed'[q] \subseteq Heads(q) \X {"completed", "skipped", "failed"}
               /\ \A h \in Nat, kind \in {"completed", "skipped", "failed"} :
                    <<h, kind>> \in reviewed'[q] => <<h, kind>> \in reviewed[q] \/ (q = r /\ h = head)
    <3>1. reviewed'[q] = IF q = r THEN reviewed[r] \cup {<<head, how>>} ELSE reviewed[q]
        BY <1>2, <2>2 DEF JobsTyped
    <3> QED BY <1>2, <3>1 DEF JobsTyped
  <2> QED BY <1>3, <2>1, <2>2
<1>7. queued' \in [Repo -> SUBSET Nat] /\ kept' \in [Repo -> SUBSET Nat]
      /\ reviewed' \in [Repo -> SUBSET (Nat \X {"completed", "skipped", "failed"})]
    BY <1>2, <1>3 DEF JobsTyped
<1>8. JobsTyped'
  <2>1. ASSUME NEW q \in Repo
        PROVE  queued'[q] \subseteq Heads(q) /\ kept'[q] \subseteq Heads(q) \ queued'[q]
      BY <1>2, <1>5 DEF JobsTyped
  <2> QED BY <1>1, <1>6, <1>7, <2>1 DEF JobsTyped, Heads
<1>9. ReviewedHeadStaysDone'
  <2> SUFFICES ASSUME NEW q \in Repo, NEW h \in queued'[q] PROVE <<h, "completed">> \notin reviewed'[q]
      BY DEF ReviewedHeadStaysDone
  <2>1. h \in queued[q] /\ ~(q = r /\ h = head) /\ h \in Nat
      BY <1>2, <1>5 DEF JobsTyped
  <2>2. <<h, "completed">> \notin reviewed[q]
      BY <1>2, <2>1 DEF ReviewedHeadStaysDone
  <2> QED BY <1>6, <2>1, <2>2
<1>10. AutoTyped' /\ LimitPauses'
  <2>1. CASE auto' = auto
      BY <1>2, <2>1 DEF AutoTyped, LimitPauses
  <2>2. CASE auto' = [auto EXCEPT ![r] = Counted(@)]
    <3>1. auto[r] \in [paused : BOOLEAN, count : Nat] /\ auto'[r] = Counted(auto[r])
          /\ \A q \in Repo : q # r => auto'[q] = auto[q]
        BY <1>2, <2>2 DEF AutoTyped
    <3> QED BY <1>2, <2>2, <3>1, CountedTyped, IntakeAssumption DEF AutoTyped, LimitPauses
  <2> QED BY <1>4, <2>1, <2>2
<1> QED BY <1>1, <1>5, <1>8, <1>9, <1>10, BesideForge

LEMMA CleanJobInv ==
    ASSUME IntakeSound, NEW r \in Repo, NEW head \in Heads(r), CleanJob(r, head),
           room' \in IntakeBound, Repo' = Repo, room'.repos = room.repos
    PROVE  IntakeSound'
<1>1. UNCHANGED <<forgeSide, mail, row, auto, queued, reviewed, pollSide>> /\ hist' = hist
      /\ kept' = [kept EXCEPT ![r] = @ \ {head}]
    BY DEF CleanJob, forgeSide
<1>2. \A q \in Repo : kept'[q] \subseteq kept[q]
    BY <1>1 DEF IntakeSound, IntakeTyped, JobsTyped
<1>3. kept' \in [Repo -> SUBSET Nat]
    BY <1>1 DEF IntakeSound, IntakeTyped, JobsTyped
<1>4. JobsTyped'
    BY <1>1, <1>2, <1>3 DEF IntakeSound, IntakeTyped, JobsTyped, Heads
<1> QED BY <1>1, <1>4, BesideForge DEF IntakeSound, IntakeTyped, ReviewedHeadStaysDone, AutoTyped, LimitPauses

LEMMA PauseInv ==
    ASSUME IntakeSound, NEW r \in Repo, NEW pause \in BOOLEAN, PausePullRequest(r, pause),
           room' \in IntakeBound, Repo' = Repo, room'.repos = room.repos
    PROVE  IntakeSound'
<1>1. UNCHANGED <<forgeSide, mail, row, jobRows, pollSide>> /\ hist' = hist
      /\ auto' = [auto EXCEPT ![r] = [paused |-> pause, count |-> Recount(pause, @.count)]]
    BY DEF PausePullRequest, forgeSide
<1>2. auto[r] \in [paused : BOOLEAN, count : Nat] /\ AutoTyped /\ LimitPauses
    BY DEF IntakeSound, IntakeTyped, AutoTyped
<1>3. Recount(pause, auto[r].count) \in Nat /\ (~pause => Recount(pause, auto[r].count) = 0)
    BY <1>2 DEF Recount
<1>4. auto'[r] = [paused |-> pause, count |-> Recount(pause, auto[r].count)]
      /\ \A q \in Repo : q # r => auto'[q] = auto[q]
    BY <1>1, <1>2 DEF AutoTyped
<1>5. AutoTyped' /\ LimitPauses'
    BY <1>1, <1>2, <1>3, <1>4, IntakeAssumption DEF AutoTyped, LimitPauses
<1> QED BY <1>1, <1>5, SameRows, BesideForge

-----------------------------------------------------------------------------
(* The poll. *)

\* What the poll leaves alone until it dispatches.
LEMMA BesidePoll ==
    ASSUME IntakeSound, UNCHANGED <<forgeSide, mail, row, auto, jobRows>>,
           room' \in IntakeBound, Repo' = Repo, room'.repos = room.repos, PollTyped', PollSound'
    PROVE  IntakeSound'
<1>1. UNCHANGED <<now, hist>> /\ now' \in Nat /\ now' >= now
    BY DEF forgeSide, IntakeSound, IntakeTyped, HistTyped
<1> QED BY <1>1, SameRows DEF IntakeSound, IntakeTyped

LEMMA PollStartsInv ==
    ASSUME IntakeSound, PollStarts, room' \in IntakeBound, Repo' = Repo, room'.repos = room.repos
    PROVE  IntakeSound'
<1>1. /\ UNCHANGED <<forgeSide, mail, row, auto, jobRows, polled, room>> /\ UNCHANGED <<now, hist>>
      /\ poll' = [at |-> 1, started |-> now, since |-> Later(polled, now - Lookback),
                  first |-> (polled = Never), seen |-> 0, skipped |-> FALSE]
      /\ cut' = (cut \/ now - Lookback > Later(polled, 0))
    BY DEF PollStarts, NoPoll, forgeSide
<1>2. now \in Nat /\ room.repos \in Nat /\ polled \in {Never} \cup 0 .. now /\ cut \in BOOLEAN /\ Lookback \in Nat
    BY IntakeAssumption DEF IntakeSound, IntakeTyped, HistTyped, PollTyped, IntakeBound
<1>3. Later(polled, now - Lookback) \in Int /\ Later(polled, 0) \in Int
    BY <1>2 DEF Later, Never
<1>4. PollTyped'
  <2>1. poll' \in [at : Nat, started : Nat, since : Int, first : BOOLEAN, seen : Nat, skipped : BOOLEAN]
      BY <1>1, <1>2, <1>3
  <2>2. cut' \in BOOLEAN /\ (~cut' => ~(now - Lookback > Later(polled, 0)))
      BY <1>1
  <2>3. ~(now - Lookback > Later(polled, 0)) => now - Lookback <= Later(polled, 0)
      BY <1>2, <1>3
  <2>4. poll'.at = 1 /\ poll'.started = now /\ poll'.since = Later(polled, now - Lookback) /\ poll'.seen = 0
      BY <1>1
  <2> QED BY <1>1, <1>2, <2>1, <2>2, <2>3, <2>4 DEF PollTyped, Later
<1>5. PollSound'
  <2> SUFFICES ASSUME NEW q \in Repo PROVE AheadOfPoll(q)' /\ Passed(q)'
      BY DEF PollSound
  <2>1. AheadOfPoll(q) /\ Known(q)' = Known(q) /\ (Plain(q)' => Plain(q)) /\ Current(q)' = Current(q)
      BY <1>1 DEF IntakeSound, PollSound, Known, UpToDate, Plain, Tied, Current, Last
  <2>2. poll'.seen = 0 /\ ~(q < poll'.at)
      BY <1>1 DEF Repo
  <2> QED BY <1>1, <2>1, <2>2 DEF AheadOfPoll, Passed
<1> QED BY <1>1, <1>4, <1>5, BesidePoll

\* A pull request that is not listed did not change after the last recorded
\* poll began, and is known.
LEMMA UnlistedIsKnown ==
    ASSUME IntakeSound, NEW r \in Repo, poll.at = r, Plain(r), ~Lists(r)
    PROVE  Known(r)
<1>1. Stamp(Current(r).when) \in Nat
    BY VersionFacts DEF IntakeSound, IntakeTyped
<1>2. /\ poll.since = Later(polled, poll.started - Lookback)
      /\ poll.started - Lookback <= Later(polled, 0)
      /\ polled \in {Never} \cup Nat /\ poll.since \in Int /\ poll.started \in Nat /\ Lookback \in Nat
    BY IntakeAssumption DEF IntakeSound, IntakeTyped, PollTyped, Repo, Plain
<1>3. Stamp(Current(r).when) < poll.since
    BY <1>1, <1>2 DEF Lists, Plain
<1>4. poll.since <= polled \/ poll.since <= 0
    BY <1>2 DEF Later, Never
<1>5. ~(Stamp(Current(r).when) >= polled)
    BY <1>1, <1>2, <1>3, <1>4 DEF Never
<1> QED BY <1>5 DEF IntakeSound, PollSound, AheadOfPoll

LEMMA PollListsInv ==
    ASSUME IntakeSound, PollLists, room' \in IntakeBound, Repo' = Repo, room'.repos = room.repos
    PROVE  IntakeSound'
<1>1. UNCHANGED <<forgeSide, mail, row, auto, jobRows, polled, cut>> /\ UNCHANGED <<now, hist>>
      /\ poll.at \in Repo /\ poll.seen = 0
    BY DEF PollLists, forgeSide
<1>2. \/ Lists(poll.at) /\ poll' = [poll EXCEPT !.seen = Last(poll.at)]
      \/ ~Lists(poll.at) /\ poll' = [poll EXCEPT !.at = @ + 1]
      \/ poll' = [poll EXCEPT !.at = @ + 1, !.skipped = TRUE]
    BY DEF PollLists
<1>3. PollTyped /\ room.repos \in Nat /\ poll.at \in 1 .. room.repos
    BY <1>1 DEF IntakeSound, IntakeTyped, IntakeBound, Repo
<1>4. Last(poll.at) \in Nat /\ Last(poll.at) >= 1
    BY <1>1, VersionFacts DEF IntakeSound, IntakeTyped
<1>5. /\ poll'.at \in {poll.at, poll.at + 1} /\ poll'.started = poll.started /\ poll'.since = poll.since
      /\ poll'.seen \in {0, Last(poll.at)} /\ (poll'.seen # 0 => poll'.at = poll.at)
      /\ (poll'.skipped \/ poll'.skipped = poll.skipped)
      /\ poll' \in [at : Nat, started : Nat, since : Int, first : BOOLEAN, seen : Nat, skipped : BOOLEAN]
  <2>1. CASE poll' = [poll EXCEPT !.seen = Last(poll.at)]
      BY <1>1, <1>3, <1>4, <2>1 DEF PollTyped
  <2>2. CASE poll' = [poll EXCEPT !.at = @ + 1]
      BY <1>1, <1>3, <2>2 DEF PollTyped
  <2>3. CASE poll' = [poll EXCEPT !.at = @ + 1, !.skipped = TRUE]
    <3>1. poll' = [at |-> poll.at + 1, started |-> poll.started, since |-> poll.since, first |-> poll.first,
                   seen |-> poll.seen, skipped |-> TRUE]
        BY <1>3, <2>3 DEF PollTyped
    <3> QED BY <1>1, <1>3, <3>1 DEF PollTyped
  <2> QED BY <1>2, <2>1, <2>2, <2>3
<1>6. PollTyped'
  <2>1. poll'.seen # 0 => poll'.at \in Repo /\ poll'.seen \in 1 .. Len(hist'[poll'.at])
      BY <1>1, <1>4, <1>5 DEF Last
  <2> QED BY <1>1, <1>3, <1>5, <2>1 DEF PollTyped, Last
<1>7. PollSound'
  <2> SUFFICES ASSUME NEW q \in Repo PROVE AheadOfPoll(q)' /\ Passed(q)'
      BY DEF PollSound
  <2>1. /\ AheadOfPoll(q) /\ Passed(q) /\ Known(q)' = Known(q) /\ Plain(q)' = Plain(q)
        /\ Current(q)' = Current(q) /\ Last(q)' = Last(q)
      BY <1>1, SameVersions DEF IntakeSound, PollSound
  <2>2. AheadOfPoll(q)'
      BY <1>1, <2>1 DEF AheadOfPoll
  <2>3. Passed(q)'
    <3> SUFFICES ASSUME Plain(q), ~poll'.skipped
                 PROVE  /\ q < poll'.at => Known(q) \/ Stamp(Current(q).when) >= poll.started
                        /\ q = poll'.at /\ poll'.seen # 0 => poll'.seen = Last(q)
        BY <1>5, <2>1 DEF Passed
    <3>1. q < poll.at => Known(q) \/ Stamp(Current(q).when) >= poll.started
        BY <1>1, <1>3, <1>5, <2>1 DEF Passed
    <3>2. q = poll.at /\ poll'.at # poll.at => Known(q)
        BY <1>2, <1>3, UnlistedIsKnown DEF PollTyped
    <3> QED BY <1>3, <1>5, <3>1, <3>2 DEF Repo
  <2> QED BY <2>2, <2>3
<1> QED BY <1>1, <1>6, <1>7, BesidePoll

\* What was listed is known once it is dispatched, if it was the last version.
LEMMA PollDispatchesInv ==
    ASSUME IntakeSound, PollDispatches, room' \in IntakeBound, Repo' = Repo, room'.repos = room.repos
    PROVE  IntakeSound' /\ (auto[poll.at].paused => queued' = queued)
<1>0. PICK r : r = poll.at
    OBVIOUS
<1> DEFINE starts == ~poll.first \/ Stamp(hist[poll.at][poll.seen].when) > 0
<1>1. /\ UNCHANGED <<forgeSide, mail, auto, kept, reviewed, polled, cut, room>> /\ UNCHANGED <<now, hist>>
      /\ PullRequest(poll.at, poll.seen, starts, SettledStatuses)
      /\ poll' = [poll EXCEPT !.at = @ + 1, !.seen = 0]
      /\ poll.at \in Repo /\ poll.seen \in 1 .. Last(poll.at)
    BY DEF PollDispatches, IntakeSound, IntakeTyped, PollTyped, forgeSide
<1>2. "completed" \in SettledStatuses /\ starts \in BOOLEAN
    BY DEF SettledStatuses, IntakeSound, IntakeTyped, PollTyped
<1> HIDE DEF starts
<1>3. /\ PullTyped' /\ JobsTyped' /\ ReviewedHeadStaysDone' /\ (auto[poll.at].paused => queued' = queued)
      /\ \A q \in Repo : Plain(q)' /\ Known(q) => Known(q)'
      /\ poll.seen = Last(r) => Known(r)'
  <2>1. r \in Repo /\ poll.seen \in 1 .. Last(r) /\ PullRequest(r, poll.seen, starts, SettledStatuses)
      BY <1>0, <1>1
  <2> QED BY <1>0, <1>1, <1>2, <2>1, RecordsInv
<1>4. PollTyped /\ room.repos \in Nat /\ poll.at \in 1 .. room.repos
    BY <1>1 DEF IntakeSound, IntakeTyped, IntakeBound, Repo
<1>5. /\ poll'.at = poll.at + 1 /\ poll'.started = poll.started /\ poll'.since = poll.since
      /\ poll'.seen = 0 /\ poll'.skipped = poll.skipped
      /\ poll' \in [at : Nat, started : Nat, since : Int, first : BOOLEAN, seen : Nat, skipped : BOOLEAN]
  <2>1. poll' = [at |-> poll.at + 1, started |-> poll.started, since |-> poll.since, first |-> poll.first,
                 seen |-> 0, skipped |-> poll.skipped]
      BY <1>1, <1>4 DEF PollTyped
  <2> QED BY <1>4, <2>1 DEF PollTyped
<1>6. PollTyped'
    BY <1>1, <1>4, <1>5 DEF PollTyped
<1>7. HistTyped' /\ MailTyped' /\ AutoTyped' /\ LimitPauses'
  <2>1. now' \in Nat /\ now' >= now
      BY <1>1 DEF IntakeSound, IntakeTyped, HistTyped
  <2> QED BY <1>1, <2>1, SameRows
<1>8. PollSound'
  <2> SUFFICES ASSUME NEW q \in Repo PROVE AheadOfPoll(q)' /\ Passed(q)'
      BY DEF PollSound
  <2>1. AheadOfPoll(q) /\ Passed(q)
      BY DEF IntakeSound, PollSound
  <2>2. Plain(q)' = Plain(q) /\ Current(q)' = Current(q) /\ Last(q)' = Last(q)
      BY <1>1 DEF Plain, Current, Last, Tied
  <2>3. AheadOfPoll(q)'
      BY <1>1, <1>3, <2>1, <2>2 DEF AheadOfPoll
  <2>4. Passed(q)'
    <3> SUFFICES ASSUME Plain(q)', ~poll.skipped, q < poll.at + 1
                 PROVE  Known(q)' \/ Stamp(Current(q).when) >= poll.started
        BY <1>5, <2>2 DEF Passed
    <3>1. CASE q < poll.at
        BY <1>3, <1>4, <2>1, <2>2, <3>1 DEF Passed
    <3>2. CASE q = poll.at
      <4>1. Known(q) \/ Stamp(Current(q).when) >= poll.started \/ poll.seen = Last(q)
          BY <1>1, <1>4, <2>1, <2>2, <3>2 DEF Passed
      <4> QED BY <1>0, <1>3, <2>2, <3>2, <4>1
    <3> QED BY <1>4, <3>1, <3>2 DEF Repo
  <2> QED BY <2>3, <2>4
<1> QED BY <1>3, <1>6, <1>7, <1>8 DEF IntakeSound, IntakeTyped

\* A poll that skipped nothing has passed every repository.
LEMMA PollEndsInv ==
    ASSUME IntakeSound, PollEnds \/ PollCut, room' \in IntakeBound, Repo' = Repo, room'.repos = room.repos
    PROVE  IntakeSound'
<1>1. /\ UNCHANGED <<forgeSide, mail, row, auto, jobRows, cut>> /\ UNCHANGED <<now, hist>>
      /\ poll' = [at |-> 0, started |-> 0, since |-> 0, first |-> FALSE, seen |-> 0, skipped |-> FALSE]
      /\ polled' = polled \/ (polled' = poll.started /\ ~poll.skipped /\ poll.at = room.repos + 1)
    BY DEF PollEnds, PollCut, NoPoll, Records, forgeSide
<1>2. PollTyped /\ room.repos \in Nat /\ now \in Nat
    BY DEF IntakeSound, IntakeTyped, IntakeBound, HistTyped
<1>3. PollTyped'
  <2>1. poll' \in [at : Nat, started : Nat, since : Int, first : BOOLEAN, seen : Nat, skipped : BOOLEAN]
        /\ poll'.at = 0 /\ poll'.seen = 0 /\ poll'.started = 0
      BY <1>1
  <2>2. polled' \in {Never} \cup 0 .. now' /\ cut' \in BOOLEAN
      BY <1>1, <1>2 DEF PollTyped
  <2> QED BY <1>1, <1>2, <2>1, <2>2 DEF PollTyped
<1>4. PollSound'
  <2> SUFFICES ASSUME NEW q \in Repo PROVE AheadOfPoll(q)' /\ Passed(q)'
      BY DEF PollSound
  <2>1. /\ AheadOfPoll(q) /\ Passed(q) /\ Known(q)' = Known(q) /\ Plain(q)' = Plain(q)
        /\ Current(q)' = Current(q)
      BY <1>1, SameVersions DEF IntakeSound, PollSound
  <2>2. AheadOfPoll(q)'
    <3>1. CASE polled' = polled
        BY <2>1, <3>1 DEF AheadOfPoll
    <3>2. CASE polled' # polled
      <4>1. polled' = poll.started /\ ~poll.skipped /\ poll.at # 0 /\ q < poll.at
          BY <1>1, <1>2, <3>2 DEF Repo
      <4> QED BY <2>1, <4>1 DEF AheadOfPoll, Passed
    <3> QED BY <3>1, <3>2
  <2>3. Passed(q)'
      BY <1>1 DEF Passed
  <2> QED BY <2>2, <2>3
<1> QED BY <1>1, <1>3, <1>4, BesidePoll

-----------------------------------------------------------------------------
(* The theorems. *)

LEMMA IntakeNextSound == IntakeSound /\ [IntakeNext]_intakeVars => IntakeSound'
<1> SUFFICES ASSUME IntakeSound, [IntakeNext]_intakeVars PROVE IntakeSound'
    OBVIOUS
<1>1. room' \in IntakeBound /\ Repo' = Repo /\ room'.repos = room.repos
    BY RoomKeeps DEF IntakeSound, IntakeTyped
<1>2. CASE Tick
    BY <1>1, <1>2, ClockInv
<1>3. ASSUME NEW r \in Repo, NEW event \in {"push", "edit", "close", "reopen"}, Change(r, event)
      PROVE  IntakeSound'
    BY <1>1, <1>3, ChangeInv
<1>4. ASSUME NEW r \in Repo, NEW head \in Heads(r), ReviewEnds(r, head) \/ CleanJob(r, head)
      PROVE  IntakeSound'
    BY <1>1, <1>4, ReviewEndsInv, CleanJobInv
<1>5. ASSUME NEW r \in Repo, NEW pause \in BOOLEAN, PausePullRequest(r, pause)
      PROVE  IntakeSound'
    BY <1>1, <1>5, PauseInv
<1>6. ASSUME NEW m \in mail, Deliver(m) \/ Lose(m) PROVE IntakeSound'
    BY <1>1, <1>6, DeliverInv, LoseInv
<1>7. CASE Polling \/ PollCut
    BY <1>1, <1>7, PollStartsInv, PollListsInv, PollDispatchesInv, PollEndsInv DEF Polling
<1>8. CASE UNCHANGED intakeVars
  <2>1. UNCHANGED <<forgeSide, mail, row, pollSide>> /\ UNCHANGED <<auto, jobRows, hist>>
      BY <1>8 DEF intakeVars, forgeSide
  <2> QED BY <1>1, <2>1, SameRows, BesideForge
<1> QED BY <1>2, <1>3, <1>4, <1>5, <1>6, <1>7, <1>8 DEF IntakeNext

LEMMA IntakeAlwaysSound == IntakeSpec => []IntakeSound
BY IntakeInitSound, IntakeNextSound, PTL DEF IntakeSpec

\* Webhooks may be lost, late or repeated, polls may skip a repository or be
\* cut: once a poll is recorded, every open pull request that last changed
\* before it began is known as it is (poller/poller.go).
THEOREM PollsMissNothing == IntakeSpec => []PollMissesNothing
<1>1. IntakeSound => PollMissesNothing
  <2> SUFFICES ASSUME IntakeSound, NEW r \in Repo, Current(r).when < polled, Plain(r)
               PROVE  UpToDate(r)
      BY DEF PollMissesNothing, Plain
  <2>1. /\ Stamp(Current(r).when) \in Nat /\ Current(r).when \in Nat
        /\ Stamp(Current(r).when) <= Current(r).when
      BY VersionFacts DEF IntakeSound, IntakeTyped
  <2>2. polled \in Int
      BY DEF IntakeSound, IntakeTyped, PollTyped, Never
  <2>3. ~(Stamp(Current(r).when) >= polled)
      BY <2>1, <2>2
  <2> QED BY <2>3 DEF IntakeSound, PollSound, AheadOfPoll, Known
<1> QED BY <1>1, IntakeAlwaysSound, PTL

\* No head whose automatic review completed is queued again, and a pull
\* request that has had its limit gets no other review queued until it is
\* resumed (ingest/service.go, store/pulls.go: HeadReviewed, CountAutoReview).
THEOREM AutomaticReviewsStayCounted == IntakeSpec => AutomaticReviewsCounted
<1>1. ASSUME IntakeSound, [IntakeNext]_intakeVars, NEW r \in Repo, auto[r].paused
      PROVE  queued'[r] \subseteq queued[r]
  <2>1. room' \in IntakeBound /\ Repo' = Repo /\ room'.repos = room.repos
      BY <1>1, RoomKeeps DEF IntakeSound, IntakeTyped
  <2>2. ASSUME NEW q \in Repo, NEW head \in Heads(q), ReviewEnds(q, head)
        PROVE  queued'[r] \subseteq queued[r]
      BY <1>1, <2>1, <2>2, ReviewEndsInv
  <2>3. ASSUME NEW m \in mail, Deliver(m) PROVE queued'[r] \subseteq queued[r]
    <3>1. CASE m[1] = r
        BY <1>1, <2>1, <2>3, <3>1, DeliverInv
    <3>2. CASE m[1] # r
        BY <1>1, <2>3, <3>2 DEF Deliver, PullRequest, ClosePullRequest, IntakeSound, IntakeTyped, JobsTyped
    <3> QED BY <3>1, <3>2
  <2>4. CASE PollDispatches
    <3>1. CASE poll.at = r
        BY <1>1, <2>1, <2>4, <3>1, PollDispatchesInv
    <3>2. CASE poll.at # r
        BY <1>1, <2>4, <3>2 DEF PollDispatches, PullRequest, IntakeSound, IntakeTyped, JobsTyped
    <3> QED BY <3>1, <3>2
  <2>5. ASSUME UNCHANGED queued PROVE queued'[r] \subseteq queued[r]
      BY <2>5
  <2>6. Tick \/ PollStarts \/ PollLists \/ PollEnds \/ PollCut \/ UNCHANGED intakeVars => UNCHANGED queued
      BY DEF Tick, PollStarts, PollLists, PollEnds, PollCut, intakeVars, jobRows
  <2>7. ASSUME NEW q \in Repo, NEW event \in {"push", "edit", "close", "reopen"}, Change(q, event)
        PROVE  UNCHANGED queued
      BY <2>7 DEF Change, jobRows
  <2>8. ASSUME NEW q \in Repo, NEW head \in Heads(q), CleanJob(q, head) PROVE UNCHANGED queued
      BY <2>8 DEF CleanJob
  <2>9. ASSUME NEW q \in Repo, NEW pause \in BOOLEAN, PausePullRequest(q, pause) PROVE UNCHANGED queued
      BY <2>9 DEF PausePullRequest, jobRows
  <2>10. ASSUME NEW m \in mail, Lose(m) PROVE UNCHANGED queued
      BY <2>10 DEF Lose, jobRows
  <2> QED BY <1>1, <2>2, <2>3, <2>4, <2>5, <2>6, <2>7, <2>8, <2>9, <2>10 DEF IntakeNext, Polling
<1>2. IntakeSound /\ [IntakeNext]_intakeVars =>
        [\A r \in Repo : MaxAutoReviews > 0 /\ auto[r].count >= MaxAutoReviews =>
            queued'[r] \subseteq queued[r]]_intakeVars
    BY <1>1 DEF IntakeSound, LimitPauses
<1>3. IntakeSound => ReviewedHeadStaysDone
    BY DEF IntakeSound
<1> QED BY <1>2, <1>3, IntakeAlwaysSound, PTL DEF IntakeSpec, AutomaticReviewsCounted, NoMoreAfterPause

-----------------------------------------------------------------------------
(***************************************************************************)
(* From the database to the page, for every size of the queue, the buffer  *)
(* and the loads at once, and every number of changes, cuts, breaks and    *)
(* errors.                                                                 *)
(*                                                                         *)
(* Each place that loses an event leaves a signal that says as much, so a  *)
(* signal once on its way ends in a refetch.  A load that began before a   *)
(* change may still land after it; that it is no harm is said of the load  *)
(* that counts while it is under way, and only then of the page.           *)
(***************************************************************************)

\* Something that will have the page load again is on its way to it: the
\* refetch itself, an event or a resync, or the resync that a new stream or
\* a new connection of the listener owes.
Holds(s, what) == \E i \in DOMAIN s : s[i] \in what
Signalled ==
    \/ page.due \/ stream.resync \/ ~stream.open \/ conn = "down"
    \/ Holds(stream.events, {"mine"}) \/ Holds(queue, {"mine", "resync"}) \/ Holds(wire, {"mine"})

\* Whatever is behind will be overtaken: the load whose answer counts, or the
\* page when there is none.
UpToNow(shown) == shown = version \/ unheard \/ Signalled
LoadCurrent == \A i \in DOMAIN loads : loads[i].newest => loads[i].read = Unloaded \/ UpToNow(loads[i].read)
PageCurrent == page.error \/ UpToNow(page.shown) \/ \E i \in DOMAIN loads : loads[i].newest
OneNewest   == \A i, j \in DOMAIN loads : loads[i].newest /\ loads[j].newest => i = j
DropOwed    == dropping /\ Full => Holds(queue, {"resync"})

\* The listener's side and the stream's: what they are, and what is dropped.
ListenTyped ==
    /\ conn \in {"never", "up", "down"} /\ wire \in Seq(Event) /\ (conn # "up" => wire = <<>>)
    /\ queue \in Seq(Event \cup {"resync"}) /\ Len(queue) <= ListenBufferSize
    /\ dropping \in BOOLEAN
StreamTyped ==
    /\ stream \in [open : BOOLEAN, events : Seq(Event), resync : BOOLEAN]
    /\ Len(stream.events) <= ClientBuffer /\ (~stream.open => stream = Closed)
PageTyped ==
    /\ version \in Nat /\ page \in [shown : {Unloaded} \cup 0 .. version, error : BOOLEAN, due : BOOLEAN]
    /\ loads \in Seq([read : {Unloaded} \cup 0 .. version, newest : BOOLEAN]) /\ Len(loads) <= LoadsAtOnce
LuckTyped == unheard \in BOOLEAN /\ chances \in LiveBound

Followed == LoadCurrent /\ PageCurrent /\ OneNewest
Following == ListenTyped /\ StreamTyped /\ PageTyped /\ LuckTyped /\ Followed /\ DropOwed

\* What a change is to a page that does not show it.
ChangeIsOwed ==
    \/ page.shown = version \/ page.error \/ unheard \/ Signalled
    \/ \E i \in DOMAIN loads : loads[i].newest /\ loads[i].read \in {Unloaded, version}

-----------------------------------------------------------------------------
LEMMA TailHolds ==
    ASSUME NEW S, NEW s \in Seq(S), s # <<>>, NEW what
    PROVE  /\ Tail(s) \in Seq(S) /\ Len(Tail(s)) = Len(s) - 1 /\ Len(s) \in Nat \ {0} /\ Head(s) \in S
           /\ Holds(s, what) => Head(s) \in what \/ Holds(Tail(s), what)
<1>1. Tail(s) \in Seq(S) /\ Len(Tail(s)) = Len(s) - 1 /\ Len(s) \in Nat \ {0} /\ Head(s) = s[1] /\ Head(s) \in S
    OBVIOUS
<1>2. ASSUME NEW i \in DOMAIN s, s[i] \in what, i # 1 PROVE Holds(Tail(s), what)
  <2>1. i - 1 \in DOMAIN Tail(s) /\ Tail(s)[i - 1] = s[i]
      BY <1>1, <1>2
  <2> QED BY <1>2, <2>1 DEF Holds
<1> QED BY <1>1, <1>2 DEF Holds

LEMMA AppendHolds ==
    ASSUME NEW S, NEW s \in Seq(S), NEW e \in S, NEW what
    PROVE  /\ Append(s, e) \in Seq(S) /\ Len(Append(s, e)) = Len(s) + 1 /\ Len(s) \in Nat
           /\ Holds(Append(s, e), what) <=> Holds(s, what) \/ e \in what
<1>1. Append(s, e) \in Seq(S) /\ Len(Append(s, e)) = Len(s) + 1 /\ Len(s) \in Nat /\ Append(s, e)[Len(s) + 1] = e
      /\ \A i \in DOMAIN s : i \in DOMAIN Append(s, e) /\ Append(s, e)[i] = s[i]
    OBVIOUS
<1>2. \A i \in DOMAIN Append(s, e) : i \in DOMAIN s \/ i = Len(s) + 1
    BY <1>1
<1>3. Len(s) + 1 \in DOMAIN Append(s, e)
    BY <1>1
<1> QED BY <1>1, <1>2, <1>3 DEF Holds

\* A resync is put in the queue, which may be full.
LEMMA ReconnectFacts ==
    ASSUME ListenTyped, LiveAssumption
    PROVE  /\ EnqueueReconnect \in Seq(Event \cup {"resync"}) /\ Len(EnqueueReconnect) <= ListenBufferSize
           /\ Holds(EnqueueReconnect, {"resync"}) /\ Holds(EnqueueReconnect, {"mine", "resync"})
<1> DEFINE S == Event \cup {"resync"}
           rest == IF Full THEN Tail(queue) ELSE queue
<1>1. queue \in Seq(S) /\ Len(queue) \in Nat /\ Len(queue) <= ListenBufferSize /\ ListenBufferSize \in Nat \ {0}
    BY DEF ListenTyped, LiveAssumption
<1>2. rest \in Seq(S) /\ Len(rest) \in Nat /\ Len(rest) < ListenBufferSize
  <2>1. CASE Full
    <3>1. queue # <<>> /\ Len(queue) = ListenBufferSize
        BY <1>1, <2>1 DEF Full
    <3> HIDE DEF S
    <3>2. Tail(queue) \in Seq(S) /\ Len(Tail(queue)) = Len(queue) - 1
        BY <1>1, <3>1
    <3> QED BY <1>1, <2>1, <3>1, <3>2
  <2>2. CASE ~Full
      BY <1>1, <2>2 DEF Full
  <2> QED BY <2>1, <2>2
<1>3. EnqueueReconnect = Append(rest, "resync") /\ "resync" \in S
    BY DEF EnqueueReconnect
<1> HIDE DEF S, rest
<1>4. EnqueueReconnect \in Seq(S) /\ Len(EnqueueReconnect) = Len(rest) + 1 /\ Holds(EnqueueReconnect, {"resync"})
      /\ Holds(EnqueueReconnect, {"mine", "resync"})
    BY <1>2, <1>3, AppendHolds
<1> QED BY <1>1, <1>2, <1>4 DEF S

\* A load is over: the others are the ones there were.
LEMMA WithoutFacts ==
    ASSUME NEW S, loads \in Seq(S), NEW i \in DOMAIN loads
    PROVE  /\ Without(i) \in Seq(S) /\ Len(Without(i)) = Len(loads) - 1 /\ Len(loads) \in Nat
           /\ \A j \in DOMAIN Without(i) :
                \/ j < i /\ j \in DOMAIN loads /\ Without(i)[j] = loads[j]
                \/ j >= i /\ j + 1 \in DOMAIN loads /\ Without(i)[j] = loads[j + 1]
           /\ \A k \in DOMAIN loads : k # i => \E j \in DOMAIN Without(i) : Without(i)[j] = loads[k]
<1> DEFINE a == SubSeq(loads, 1, i - 1)
           b == SubSeq(loads, i + 1, Len(loads))
<1>1. Len(loads) \in Nat /\ i \in 1 .. Len(loads) /\ DOMAIN loads = 1 .. Len(loads)
    OBVIOUS
<1>2. a \in Seq(S) /\ Len(a) = i - 1 /\ \A j \in 1 .. i - 1 : a[j] = loads[j]
  <2>1. \A j \in 1 .. i - 1 : loads[j] \in S
      BY <1>1
  <2>2. a \in Seq(S) /\ Len(a) = (IF 1 <= i - 1 THEN i - 1 - 1 + 1 ELSE 0)
        /\ \A j \in 1 .. i - 1 - 1 + 1 : a[j] = loads[1 + j - 1]
      BY <1>1, <2>1, SubSeqProperties
  <2> QED BY <1>1, <2>2
<1>3. b \in Seq(S) /\ Len(b) = Len(loads) - i /\ \A j \in 1 .. Len(loads) - i : b[j] = loads[i + j]
  <2>1. \A j \in i + 1 .. Len(loads) : loads[j] \in S
      BY <1>1
  <2>2. b \in Seq(S) /\ Len(b) = (IF i + 1 <= Len(loads) THEN Len(loads) - (i + 1) + 1 ELSE 0)
        /\ \A j \in 1 .. Len(loads) - (i + 1) + 1 : b[j] = loads[(i + 1) + j - 1]
      BY <1>1, <2>1, SubSeqProperties
  <2> QED BY <1>1, <2>2
<1>4. Without(i) = a \o b
    BY DEF Without
<1> HIDE DEF a, b
<1>5. a \o b \in Seq(S) /\ Len(a \o b) = Len(loads) - 1
      /\ \A j \in 1 .. Len(loads) - 1 : (a \o b)[j] = IF j <= i - 1 THEN a[j] ELSE b[j - (i - 1)]
  <2>1. a \o b \in Seq(S) /\ Len(a \o b) = Len(a) + Len(b)
        /\ \A j \in 1 .. Len(a) + Len(b) : (a \o b)[j] = IF j <= Len(a) THEN a[j] ELSE b[j - Len(a)]
      BY <1>2, <1>3, ConcatProperties
  <2>2. Len(a) + Len(b) = Len(loads) - 1 /\ Len(a) = i - 1
      BY <1>1, <1>2, <1>3
  <2> QED BY <2>1, <2>2
<1>6. ASSUME NEW j \in 1 .. Len(loads) - 1
      PROVE  \/ j < i /\ j \in DOMAIN loads /\ (a \o b)[j] = loads[j]
             \/ j >= i /\ j + 1 \in DOMAIN loads /\ (a \o b)[j] = loads[j + 1]
  <2>1. CASE j <= i - 1
    <3>1. j \in 1 .. i - 1 /\ j < i
        BY <1>1, <2>1
    <3>2. (a \o b)[j] = a[j]
        BY <1>5, <2>1
    <3> QED BY <1>1, <1>2, <3>1, <3>2
  <2>2. CASE ~(j <= i - 1)
    <3>1. j - (i - 1) \in 1 .. Len(loads) - i /\ i + (j - (i - 1)) = j + 1 /\ j >= i /\ j + 1 \in DOMAIN loads
        BY <1>1, <2>2
    <3>2. (a \o b)[j] = b[j - (i - 1)]
        BY <1>5, <2>2
    <3>3. b[j - (i - 1)] = loads[i + (j - (i - 1))]
        BY <1>3, <3>1
    <3> QED BY <3>1, <3>2, <3>3
  <2> QED BY <2>1, <2>2
<1>7. DOMAIN (a \o b) = 1 .. Len(loads) - 1
    BY <1>5, LenProperties
<1>8. ASSUME NEW k \in DOMAIN loads, k # i PROVE \E j \in DOMAIN (a \o b) : (a \o b)[j] = loads[k]
  <2>1. CASE k < i
    <3>1. k \in 1 .. Len(loads) - 1 /\ ~(k >= i)
        BY <1>1, <2>1
    <3> QED BY <1>6, <1>7, <3>1
  <2>2. CASE k > i
    <3>1. k - 1 \in 1 .. Len(loads) - 1 /\ ~(k - 1 < i) /\ (k - 1) + 1 = k
        BY <1>1, <2>2
    <3>2. (a \o b)[k - 1] = loads[(k - 1) + 1]
        BY <1>6, <3>1
    <3> QED BY <1>7, <3>1, <3>2
  <2> QED BY <1>1, <1>8, <2>1, <2>2
<1> QED BY <1>1, <1>4, <1>5, <1>6, <1>7, <1>8

-----------------------------------------------------------------------------
(* The steps *)


LEMMA SeqOfMore == ASSUME NEW S, NEW T, S \subseteq T, NEW s \in Seq(S) PROVE s \in Seq(T)
    OBVIOUS

LEMMA ChanceTyped == ASSUME LuckTyped, NEW w \in DOMAIN chances, Chance(w) PROVE chances' \in LiveBound
    BY DEF LuckTyped, Chance, LiveBound

LEMMA ChanceNames == LuckTyped => DOMAIN chances = {"changes", "others", "cuts", "breaks", "errors"}
    BY DEF LuckTyped, LiveBound

\* Where the page's side stays, a signal that stays on its way is enough.
LEMMA FollowedStays ==
    ASSUME Followed, UNCHANGED <<version, page, loads, unheard>>, Signalled => Signalled'
    PROVE  Followed'
    BY DEF Followed, LoadCurrent, PageCurrent, OneNewest, UpToNow

\* A change with a signal, or that no listener could hear.
LEMMA FollowedAnew ==
    ASSUME Followed, UNCHANGED <<page, loads>>, Signalled' \/ unheard'
    PROVE  Followed'
    BY DEF Followed, LoadCurrent, PageCurrent, OneNewest, UpToNow

LEMMA ChangeRowInv == ASSUME Following, NEW which \in Event, ChangeRow(which) PROVE Following'
<1>1. ListenTyped /\ StreamTyped /\ PageTyped /\ LuckTyped /\ Followed /\ DropOwed
    BY DEF Following
<1>2. UNCHANGED <<conn, queue, dropping, stream, page, loads>> /\ which \in {"mine", "other"}
    BY DEF ChangeRow, pageVars, Event
<1>3. wire' \in Seq(Event) /\ (conn = "up" => Holds(wire', {which}) /\ (Holds(wire, {"mine"}) => Holds(wire', {"mine"})))
      /\ (conn # "up" => wire' = wire)
  <2>1. CASE conn = "up"
    <3>1. wire \in Seq(Event) /\ wire' = Append(wire, which)
        BY <1>1, <2>1 DEF ListenTyped, ChangeRow
    <3> QED BY <2>1, <3>1, AppendHolds
  <2>2. CASE conn # "up"
      BY <1>1, <2>2 DEF ListenTyped, ChangeRow
  <2> QED BY <2>1, <2>2
<1>4. ListenTyped' /\ StreamTyped' /\ DropOwed'
    BY <1>1, <1>2, <1>3 DEF ListenTyped, StreamTyped, DropOwed, Full
<1>5. version' \in Nat /\ version' >= version /\ version \in Nat
    BY <1>1 DEF PageTyped, ChangeRow
<1>6. PageTyped'
  <2>1. \A x \in {Unloaded} \cup 0 .. version : x \in {Unloaded} \cup 0 .. version'
      BY <1>5
  <2>2. [read : {Unloaded} \cup 0 .. version, newest : BOOLEAN] \subseteq [read : {Unloaded} \cup 0 .. version', newest : BOOLEAN]
      BY <2>1
  <2>3. loads \in Seq([read : {Unloaded} \cup 0 .. version', newest : BOOLEAN])
    <3>1. loads \in Seq([read : {Unloaded} \cup 0 .. version, newest : BOOLEAN])
        BY <1>1 DEF PageTyped
    <3> QED BY <2>2, <3>1, SeqOfMore
  <2>4. page \in [shown : {Unloaded} \cup 0 .. version', error : BOOLEAN, due : BOOLEAN]
      BY <1>1, <2>1 DEF PageTyped
  <2> QED BY <1>1, <1>2, <1>5, <2>3, <2>4 DEF PageTyped
<1>7. LuckTyped'
  <2>1. chances' \in LiveBound
      BY <1>1, ChanceTyped, ChanceNames DEF ChangeRow
  <2>2. unheard' \in BOOLEAN
      BY <1>1 DEF ChangeRow, LuckTyped
  <2> QED BY <2>1, <2>2 DEF LuckTyped
<1>8. Followed'
  <2>1. CASE which = "other"
    <3>1. version' = version /\ unheard' = unheard
        BY <2>1 DEF ChangeRow
    <3>2. Signalled => Signalled'
        BY <1>2, <1>3 DEF Signalled
    <3> QED BY <1>1, <1>2, <3>1, <3>2, FollowedStays
  <2>2. CASE which = "mine"
    <3>1. Signalled' \/ unheard'
      <4>1. unheard' = (conn = "never" /\ stream.open)
          BY <2>2 DEF ChangeRow
      <4>2. conn = "up" => Signalled'
          BY <1>3, <2>2 DEF Signalled
      <4>3. conn = "down" \/ ~stream.open => Signalled'
          BY <1>2 DEF Signalled
      <4> QED BY <1>1, <4>1, <4>2, <4>3 DEF ListenTyped
    <3> QED BY <1>1, <1>2, <3>1, FollowedAnew
  <2> QED BY <1>2, <2>1, <2>2
<1> QED BY <1>4, <1>6, <1>7, <1>8 DEF Following

LEMMA ConnectInv == ASSUME Following, LiveAssumption, Connect PROVE Following'
<1>1. ListenTyped /\ StreamTyped /\ PageTyped /\ LuckTyped /\ Followed /\ DropOwed
    BY DEF Following
<1>2. UNCHANGED <<version, wire, stream, page, loads, unheard, chances>> /\ conn' = "up" /\ dropping' = FALSE
      /\ conn \in {"never", "down"}
    BY <1>1 DEF Connect, pageVars, ListenTyped
<1>3. /\ queue' \in Seq(Event \cup {"resync"}) /\ Len(queue') <= ListenBufferSize
      /\ conn = "down" => Holds(queue', {"mine", "resync"})
      /\ conn = "never" => queue' = queue
    BY <1>1, <1>2, ReconnectFacts DEF Connect, ListenTyped
<1>4. ListenTyped' /\ StreamTyped' /\ PageTyped' /\ LuckTyped' /\ DropOwed'
    BY <1>1, <1>2, <1>3 DEF ListenTyped, StreamTyped, PageTyped, LuckTyped, DropOwed
<1>5. Signalled => Signalled'
    BY <1>2, <1>3 DEF Signalled
<1> QED BY <1>1, <1>2, <1>4, <1>5, FollowedStays DEF Following

LEMMA DisconnectInv == ASSUME Following, Disconnect PROVE Following'
<1>1. ListenTyped /\ StreamTyped /\ PageTyped /\ LuckTyped /\ Followed /\ DropOwed
    BY DEF Following
<1>2. UNCHANGED <<version, queue, dropping, stream, page, loads, unheard>> /\ conn' = "down" /\ wire' = <<>> /\ Chance("cuts")
    BY DEF Disconnect, pageVars
<1>3. chances' \in LiveBound
    BY <1>1, <1>2, ChanceTyped, ChanceNames
<1>4. ListenTyped' /\ StreamTyped' /\ PageTyped' /\ LuckTyped' /\ DropOwed'
    BY <1>1, <1>2, <1>3 DEF ListenTyped, StreamTyped, PageTyped, LuckTyped, DropOwed, Full
<1>5. Signalled'
    BY <1>2 DEF Signalled
<1> QED BY <1>1, <1>2, <1>4, <1>5, FollowedStays DEF Following

\* One who drops for a full queue has put a resync in it, or had it there.
LEMMA DeliverOneInv == ASSUME Following, LiveAssumption, Deliver1 PROVE Following'
<1>1. ListenTyped /\ StreamTyped /\ PageTyped /\ LuckTyped /\ Followed /\ DropOwed
    BY DEF Following
<1>2. UNCHANGED <<version, conn, stream, page, loads, unheard, chances>> /\ wire # <<>> /\ wire' = Tail(wire) /\ dropping' = Full
    BY DEF Deliver1, pageVars
<1>3. /\ wire \in Seq(Event) /\ wire' \in Seq(Event) /\ conn = "up" /\ Head(wire) \in Event
      /\ Holds(wire, {"mine"}) => Head(wire) = "mine" \/ Holds(wire', {"mine"})
  <2>1. wire \in Seq(Event) /\ conn = "up"
      BY <1>1, <1>2 DEF ListenTyped
  <2> QED BY <1>2, <2>1, TailHolds
<1>4. queue \in Seq(Event \cup {"resync"}) /\ Len(queue) \in Nat /\ Len(queue) <= ListenBufferSize
      /\ ListenBufferSize \in Nat \ {0} /\ Full \in BOOLEAN /\ dropping \in BOOLEAN
    BY <1>1 DEF ListenTyped, LiveAssumption, Full
<1>5. /\ queue' \in Seq(Event \cup {"resync"}) /\ Len(queue') <= ListenBufferSize
      /\ Full => Holds(queue', {"resync"})
      /\ ~Full => /\ Head(wire) = "mine" => Holds(queue', {"mine", "resync"})
                  /\ Holds(queue, {"mine", "resync"}) => Holds(queue', {"mine", "resync"})
  <2>1. CASE Full /\ dropping
    <3>1. queue' = queue /\ Holds(queue, {"resync"})
        BY <1>1, <2>1 DEF Deliver1, DropResyncs, DropOwed
    <3> QED BY <1>4, <2>1, <3>1
  <2>2. CASE Full /\ ~dropping
    <3>1. queue' = EnqueueReconnect
        BY <2>2 DEF Deliver1, DropResyncs
    <3> QED BY <1>1, <2>2, <3>1, ReconnectFacts DEF ListenTyped
  <2>3. CASE ~Full
    <3>1. queue' = Append(queue, Head(wire)) /\ Head(wire) \in Event \cup {"resync"}
        BY <1>3, <2>3 DEF Deliver1
    <3>2. queue' \in Seq(Event \cup {"resync"}) /\ Len(queue') = Len(queue) + 1
          /\ (Holds(queue', {"mine", "resync"}) <=> Holds(queue, {"mine", "resync"}) \/ Head(wire) \in {"mine", "resync"})
        BY <1>4, <3>1, AppendHolds
    <3>3. Len(queue') <= ListenBufferSize
        BY <1>4, <2>3, <3>2 DEF Full
    <3> QED BY <2>3, <3>2, <3>3
  <2> QED BY <1>4, <2>1, <2>2, <2>3
<1>6. Holds(queue', {"resync"}) => Holds(queue', {"mine", "resync"})
    BY DEF Holds
<1>7. ListenTyped' /\ StreamTyped' /\ PageTyped' /\ LuckTyped' /\ DropOwed'
    BY <1>1, <1>2, <1>3, <1>4, <1>5 DEF ListenTyped, StreamTyped, PageTyped, LuckTyped, DropOwed
<1>8. Signalled => Signalled'
    BY <1>2, <1>3, <1>4, <1>5, <1>6 DEF Signalled
<1> QED BY <1>1, <1>2, <1>7, <1>8, FollowedStays DEF Following

\* A stream too far behind takes a resync for the event.
LEMMA PublishInv == ASSUME Following, LiveAssumption, Publish1 PROVE Following'
<1>1. ListenTyped /\ StreamTyped /\ PageTyped /\ LuckTyped /\ Followed /\ DropOwed
    BY DEF Following
<1>2. UNCHANGED <<version, conn, wire, dropping, page, loads, unheard, chances>> /\ queue # <<>> /\ queue' = Tail(queue)
    BY DEF Publish1, pageVars
<1>3. /\ queue \in Seq(Event \cup {"resync"}) /\ queue' \in Seq(Event \cup {"resync"}) /\ Len(queue') = Len(queue) - 1
      /\ Len(queue) \in Nat /\ Len(queue) <= ListenBufferSize /\ ListenBufferSize \in Nat /\ ClientBuffer \in Nat
      /\ Head(queue) \in Event \cup {"resync"}
      /\ Holds(queue, {"mine", "resync"}) => Head(queue) \in {"mine", "resync"} \/ Holds(queue', {"mine", "resync"})
  <2>1. queue \in Seq(Event \cup {"resync"}) /\ Len(queue) <= ListenBufferSize /\ ListenBufferSize \in Nat /\ ClientBuffer \in Nat
      BY <1>1 DEF ListenTyped, LiveAssumption
  <2> QED BY <1>2, <2>1, TailHolds
<1>4. Len(queue') <= ListenBufferSize /\ Len(queue') # ListenBufferSize
    BY <1>3
<1>5. /\ StreamTyped' /\ stream'.open = stream.open
      /\ stream.resync => stream'.resync
      /\ Holds(stream.events, {"mine"}) => Holds(stream'.events, {"mine"})
      /\ stream.open /\ Head(queue) \in {"mine", "resync"} => stream'.resync \/ Holds(stream'.events, {"mine"})
  <2>1. stream \in [open : BOOLEAN, events : Seq(Event), resync : BOOLEAN] /\ Len(stream.events) <= ClientBuffer
        /\ stream.events \in Seq(Event) /\ (~stream.open => stream = Closed)
      BY <1>1 DEF StreamTyped
  <2>2. CASE ~stream.open
      BY <1>1, <2>2 DEF Publish1, StreamTyped
  <2>3. CASE stream.open /\ Head(queue) # "resync" /\ Len(stream.events) < ClientBuffer
    <3>1. stream' = [stream EXCEPT !.events = Append(@, Head(queue))] /\ Head(queue) \in Event
        BY <1>3, <2>3 DEF Publish1
    <3>2. Append(stream.events, Head(queue)) \in Seq(Event) /\ Len(Append(stream.events, Head(queue))) = Len(stream.events) + 1
          /\ Len(stream.events) \in Nat
          /\ (Holds(Append(stream.events, Head(queue)), {"mine"}) <=> Holds(stream.events, {"mine"}) \/ Head(queue) \in {"mine"})
        BY <2>1, <3>1, AppendHolds
    <3>3. Len(Append(stream.events, Head(queue))) <= ClientBuffer
        BY <1>3, <2>3, <3>2
    <3>4. stream'.events = Append(stream.events, Head(queue)) /\ stream'.open = stream.open /\ stream'.resync = stream.resync
          /\ stream' \in [open : BOOLEAN, events : Seq(Event), resync : BOOLEAN]
        BY <2>1, <3>1, <3>2
    <3> QED BY <2>3, <3>2, <3>3, <3>4 DEF StreamTyped
  <2>4. CASE stream.open /\ ~(Head(queue) # "resync" /\ Len(stream.events) < ClientBuffer)
    <3>1. stream' = [stream EXCEPT !.resync = TRUE]
        BY <2>4 DEF Publish1
    <3>2. stream'.events = stream.events /\ stream'.open = stream.open /\ stream'.resync
          /\ stream' \in [open : BOOLEAN, events : Seq(Event), resync : BOOLEAN]
        BY <2>1, <3>1
    <3> QED BY <2>1, <2>4, <3>2 DEF StreamTyped
  <2> QED BY <2>1, <2>2, <2>3, <2>4
<1>6. ListenTyped' /\ PageTyped' /\ LuckTyped' /\ DropOwed'
    BY <1>1, <1>2, <1>3, <1>4 DEF ListenTyped, PageTyped, LuckTyped, DropOwed, Full
<1>7. Signalled => Signalled'
    BY <1>2, <1>3, <1>5 DEF Signalled
<1> QED BY <1>1, <1>2, <1>5, <1>6, <1>7, FollowedStays DEF Following

\* The page's own steps, where what is due stays due or is begun to load.
LEMMA DuePage ==
    ASSUME Followed, UNCHANGED <<version, loads>>, page' = [page EXCEPT !.due = TRUE], PageTyped
    PROVE  Followed' /\ PageTyped'
<1>1. page'.due /\ page'.shown = page.shown /\ page'.error = page.error
      /\ page' \in [shown : {Unloaded} \cup 0 .. version, error : BOOLEAN, due : BOOLEAN]
    BY DEF PageTyped
<1>2. Signalled'
    BY <1>1 DEF Signalled
<1> QED BY <1>1, <1>2 DEF Followed, LoadCurrent, PageCurrent, OneNewest, UpToNow, PageTyped

LEMMA ServeFrameInv == ASSUME Following, ServeFrame PROVE Following'
<1>1. ListenTyped /\ StreamTyped /\ PageTyped /\ LuckTyped /\ Followed /\ DropOwed
    BY DEF Following
<1>2. UNCHANGED <<version, conn, wire, queue, dropping, loads, unheard, chances>>
    BY DEF ServeFrame, listenVars
<1>3. stream \in [open : BOOLEAN, events : Seq(Event), resync : BOOLEAN] /\ Len(stream.events) <= ClientBuffer
      /\ stream.events \in Seq(Event) /\ (~stream.open => stream = Closed)
    BY <1>1 DEF StreamTyped
<1>4. ListenTyped' /\ LuckTyped' /\ DropOwed'
    BY <1>1, <1>2 DEF ListenTyped, LuckTyped, DropOwed, Full
<1>5. CASE stream.resync /\ stream' = [stream EXCEPT !.resync = FALSE, !.events = <<>>] /\ page' = [page EXCEPT !.due = TRUE]
  <2>1. stream.open
      BY <1>3, <1>5 DEF Closed
  <2>2. stream' = [open |-> TRUE, events |-> <<>>, resync |-> FALSE]
      BY <1>3, <1>5, <2>1
  <2>3. Len(<<>>) = 0 /\ 0 <= ClientBuffer
      BY LiveAssumption DEF LiveAssumption
  <2>4. StreamTyped'
      BY <2>2, <2>3, EmptySeq DEF StreamTyped
  <2> QED BY <1>1, <1>2, <1>4, <1>5, <2>4, DuePage DEF Following
<1>6. CASE stream.events # <<>> /\ stream' = [stream EXCEPT !.events = Tail(@)]
           /\ page' = IF Head(stream.events) = "mine" THEN [page EXCEPT !.due = TRUE] ELSE page
  <2>1. Tail(stream.events) \in Seq(Event) /\ Len(Tail(stream.events)) = Len(stream.events) - 1 /\ Len(stream.events) \in Nat
        /\ (Holds(stream.events, {"mine"}) => Head(stream.events) \in {"mine"} \/ Holds(Tail(stream.events), {"mine"}))
      BY <1>3, <1>6, TailHolds
  <2>2. stream.open
      BY <1>3, <1>6 DEF Closed
  <2>3. stream'.events = Tail(stream.events) /\ stream'.open = stream.open /\ stream'.resync = stream.resync
        /\ stream' \in [open : BOOLEAN, events : Seq(Event), resync : BOOLEAN]
      BY <1>3, <1>6, <2>1
  <2>4. StreamTyped'
    <3>1. ClientBuffer \in Nat /\ Len(Tail(stream.events)) <= ClientBuffer
        BY <1>3, <2>1, LiveAssumption DEF LiveAssumption
    <3> QED BY <2>2, <2>3, <3>1 DEF StreamTyped
  <2>5. CASE Head(stream.events) = "mine"
      BY <1>1, <1>2, <1>4, <1>6, <2>4, <2>5, DuePage DEF Following
  <2>6. CASE Head(stream.events) # "mine"
    <3>1. page' = page
        BY <1>6, <2>6
    <3>2. Signalled => Signalled'
        BY <1>2, <2>1, <2>3, <2>6, <3>1 DEF Signalled
    <3>3. PageTyped'
        BY <1>1, <1>2, <3>1 DEF PageTyped
    <3> QED BY <1>1, <1>2, <1>4, <2>4, <3>1, <3>2, <3>3, FollowedStays DEF Following
  <2> QED BY <2>5, <2>6
<1> QED BY <1>5, <1>6 DEF ServeFrame

LEMMA OpenStreamInv == ASSUME Following, LiveAssumption, OpenStream PROVE Following'
<1>1. ListenTyped /\ StreamTyped /\ PageTyped /\ LuckTyped /\ Followed /\ DropOwed
    BY DEF Following
<1>2. UNCHANGED <<version, conn, wire, queue, dropping, loads, chances>> /\ unheard' = FALSE
      /\ page' = [page EXCEPT !.due = TRUE] /\ stream' = [open |-> TRUE, events |-> <<>>, resync |-> FALSE]
    BY DEF OpenStream, listenVars, Closed
<1>3. ListenTyped' /\ LuckTyped' /\ DropOwed'
    BY <1>1, <1>2 DEF ListenTyped, LuckTyped, DropOwed, Full
<1>4. StreamTyped'
  <2>1. Len(<<>>) = 0 /\ 0 <= ClientBuffer
      BY DEF LiveAssumption
  <2> QED BY <1>2, <2>1, EmptySeq DEF StreamTyped
<1> QED BY <1>1, <1>2, <1>3, <1>4, DuePage DEF Following

LEMMA BreakStreamInv == ASSUME Following, LiveAssumption, BreakStream PROVE Following'
<1>1. ListenTyped /\ StreamTyped /\ PageTyped /\ LuckTyped /\ Followed /\ DropOwed
    BY DEF Following
<1>2. UNCHANGED <<version, conn, wire, queue, dropping, page, loads, unheard>> /\ Chance("breaks")
      /\ stream' = [open |-> FALSE, events |-> <<>>, resync |-> FALSE]
    BY DEF BreakStream, listenVars, pageVars, Closed
<1>3. chances' \in LiveBound
    BY <1>1, <1>2, ChanceTyped, ChanceNames
<1>4. ListenTyped' /\ PageTyped' /\ LuckTyped' /\ DropOwed'
    BY <1>1, <1>2, <1>3 DEF ListenTyped, PageTyped, LuckTyped, DropOwed, Full
<1>5. StreamTyped'
  <2>1. Len(<<>>) = 0 /\ 0 <= ClientBuffer
      BY DEF LiveAssumption
  <2> QED BY <1>2, <2>1, EmptySeq DEF StreamTyped, Closed
<1>6. Signalled'
    BY <1>2 DEF Signalled
<1> QED BY <1>1, <1>2, <1>4, <1>5, <1>6, FollowedStays DEF Following

\* A load that begins is the newest, and will read what there is.
LEMMA RefetchInv == ASSUME Following, Refetch PROVE Following'
<1>1. ListenTyped /\ StreamTyped /\ PageTyped /\ LuckTyped /\ Followed /\ DropOwed
    BY DEF Following
<1> DEFINE S == [read : {Unloaded} \cup 0 .. version, newest : BOOLEAN]
           older == [i \in DOMAIN loads |-> [loads[i] EXCEPT !.newest = FALSE]]
           new == [read |-> Unloaded, newest |-> TRUE]
<1>2. UNCHANGED <<version, conn, wire, queue, dropping, stream, unheard, chances>> /\ page' = [page EXCEPT !.due = FALSE]
      /\ loads' = Append(older, new) /\ Len(loads) < LoadsAtOnce
    BY DEF Refetch, listenVars
<1>3. loads \in Seq(S) /\ Len(loads) \in Nat /\ LoadsAtOnce \in Nat /\ DOMAIN loads = 1 .. Len(loads)
    BY <1>1, LiveAssumption DEF PageTyped, LiveAssumption
<1>4. \A i \in DOMAIN loads : loads[i] \in S /\ [loads[i] EXCEPT !.newest = FALSE] \in S
           /\ [loads[i] EXCEPT !.newest = FALSE].newest = FALSE
  <2>1. \A i \in DOMAIN loads : loads[i] \in S
    <3> HIDE DEF S
    <3> QED BY <1>3
  <2>2. \A x \in S : [x EXCEPT !.newest = FALSE] \in S /\ [x EXCEPT !.newest = FALSE].newest = FALSE
      OBVIOUS
  <2> HIDE DEF S
  <2> QED BY <2>1, <2>2
<1>5. older \in Seq(S) /\ Len(older) = Len(loads) /\ new \in S /\ new.newest /\ new.read = Unloaded
    BY <1>3, <1>4
<1>6. \A i \in DOMAIN older : ~older[i].newest
    BY <1>3, <1>4
<1> HIDE DEF older, new, S
<1>7. loads' \in Seq(S) /\ Len(loads') = Len(loads) + 1 /\ loads'[Len(loads) + 1] = new
      /\ DOMAIN loads' = 1 .. Len(loads) + 1
      /\ \A i \in 1 .. Len(loads) : loads'[i] = older[i] /\ i \in DOMAIN older
    BY <1>2, <1>3, <1>5
<1>8. \A i \in DOMAIN loads' : loads'[i].newest <=> i = Len(loads) + 1
  <2>1. ASSUME NEW i \in 1 .. Len(loads) + 1, i # Len(loads) + 1 PROVE i \in 1 .. Len(loads)
      BY <1>3, <2>1
  <2>2. ASSUME NEW i \in 1 .. Len(loads) PROVE i # Len(loads) + 1
      BY <1>3
  <2> QED BY <1>5, <1>6, <1>7, <2>1, <2>2
<1>9. Len(loads) + 1 \in DOMAIN loads' /\ Len(loads') <= LoadsAtOnce
    BY <1>2, <1>3, <1>7
<1>10. Followed'
    BY <1>5, <1>7, <1>8, <1>9 DEF Followed, LoadCurrent, PageCurrent, OneNewest
<1>11. ListenTyped' /\ StreamTyped' /\ LuckTyped' /\ DropOwed'
    BY <1>1, <1>2 DEF ListenTyped, StreamTyped, LuckTyped, DropOwed, Full
<1>12. PageTyped'
  <2>1. page' \in [shown : {Unloaded} \cup 0 .. version, error : BOOLEAN, due : BOOLEAN]
      BY <1>1, <1>2 DEF PageTyped
  <2> QED BY <1>1, <1>2, <1>7, <1>9, <2>1 DEF PageTyped, S
<1> QED BY <1>10, <1>11, <1>12 DEF Following

LEMMA ReadRowInv == ASSUME Following, NEW i \in DOMAIN loads, ReadRow(i) PROVE Following'
<1>1. ListenTyped /\ StreamTyped /\ PageTyped /\ LuckTyped /\ Followed /\ DropOwed
    BY DEF Following
<1> DEFINE S == [read : {Unloaded} \cup 0 .. version, newest : BOOLEAN]
<1>2. UNCHANGED <<version, conn, wire, queue, dropping, stream, page, unheard, chances>> /\ loads' = [loads EXCEPT ![i].read = version]
    BY DEF ReadRow, listenVars
<1>3. loads \in Seq(S) /\ loads[i] \in S /\ version \in 0 .. version
  <2>1. loads \in Seq(S) /\ version \in Nat
      BY <1>1 DEF PageTyped
  <2>2. loads[i] \in S
    <3> HIDE DEF S
    <3> QED BY <2>1
  <2> QED BY <2>1, <2>2
<1>4. [loads[i] EXCEPT !.read = version] \in S
    BY <1>3
<1>5. loads' \in Seq(S) /\ Len(loads') = Len(loads) /\ DOMAIN loads' = DOMAIN loads
      /\ \A j \in DOMAIN loads : loads'[j] = IF j = i THEN [loads[i] EXCEPT !.read = version] ELSE loads[j]
  <2> HIDE DEF S
  <2> QED BY <1>2, <1>3, <1>4
<1>6. \A j \in DOMAIN loads : /\ loads'[j].newest = loads[j].newest
                             /\ loads'[j].read = IF j = i THEN version ELSE loads[j].read
    BY <1>3, <1>5
<1>7. Signalled' = Signalled
    BY <1>2 DEF Signalled
<1>8. Followed'
    BY <1>1, <1>2, <1>5, <1>6, <1>7 DEF Followed, LoadCurrent, PageCurrent, OneNewest, UpToNow
<1>9. ListenTyped' /\ StreamTyped' /\ LuckTyped' /\ DropOwed'
    BY <1>1, <1>2 DEF ListenTyped, StreamTyped, LuckTyped, DropOwed, Full
<1>10. PageTyped'
    BY <1>1, <1>2, <1>5 DEF PageTyped
<1> QED BY <1>8, <1>9, <1>10 DEF Following

\* A load ends: the newest decides what the page shows or says, the others
\* change nothing.
LEMMA LoadEnds ==
    ASSUME Following, NEW i \in DOMAIN loads, loads' = Without(i),
           UNCHANGED <<version, conn, wire, queue, dropping, stream, unheard>>, chances' \in LiveBound,
           ~loads[i].newest => page' = page,
           loads[i].newest =>
              \/ loads[i].read # Unloaded /\ page' = [page EXCEPT !.shown = loads[i].read, !.error = FALSE]
              \/ page' = [page EXCEPT !.error = TRUE]
    PROVE  Following'
<1>1. ListenTyped /\ StreamTyped /\ PageTyped /\ LuckTyped /\ Followed /\ DropOwed
    BY DEF Following
<1> DEFINE S == [read : {Unloaded} \cup 0 .. version, newest : BOOLEAN]
<1>2. loads \in Seq(S) /\ loads[i] \in S /\ page \in [shown : {Unloaded} \cup 0 .. version, error : BOOLEAN, due : BOOLEAN]
      /\ loads[i].newest \in BOOLEAN /\ i \in Int
  <2>1. loads \in Seq(S) /\ page \in [shown : {Unloaded} \cup 0 .. version, error : BOOLEAN, due : BOOLEAN]
      BY <1>1 DEF PageTyped
  <2>2. loads[i] \in S /\ i \in Int
    <3> HIDE DEF S
    <3> QED BY <2>1
  <2> QED BY <2>1, <2>2
<1> HIDE DEF S
<1>3. /\ loads' \in Seq(S) /\ Len(loads') = Len(loads) - 1 /\ Len(loads) \in Nat
      /\ \A j \in DOMAIN loads' :
            \/ j < i /\ j \in DOMAIN loads /\ loads'[j] = loads[j]
            \/ j >= i /\ j + 1 \in DOMAIN loads /\ loads'[j] = loads[j + 1]
      /\ \A k \in DOMAIN loads : k # i => \E j \in DOMAIN loads' : loads'[j] = loads[k]
    BY <1>2, WithoutFacts
<1>4. DOMAIN loads' \subseteq Int /\ DOMAIN loads \subseteq Int
    BY <1>2, <1>3
<1>5. \A j \in DOMAIN loads' : \E k \in DOMAIN loads \ {i} :
            loads'[j] = loads[k] /\ k = IF j < i THEN j ELSE j + 1
    BY <1>2, <1>3, <1>4
<1>6. /\ page' \in [shown : {Unloaded} \cup 0 .. version, error : BOOLEAN, due : BOOLEAN] /\ page'.due = page.due
      /\ ~loads[i].newest => page' = page
      /\ loads[i].newest => page'.error \/ (loads[i].read # Unloaded /\ page'.shown = loads[i].read)
    BY <1>2 DEF S
<1>7. Signalled' = Signalled
    BY <1>6 DEF Signalled
<1>8. LoadCurrent'
  <2>1. ASSUME NEW j \in DOMAIN loads', loads'[j].newest
        PROVE  loads'[j].read = Unloaded \/ loads'[j].read = version \/ unheard \/ Signalled
    <3>1. PICK k \in DOMAIN loads : loads'[j] = loads[k]
        BY <1>5
    <3> QED BY <1>1, <2>1, <3>1 DEF Followed, LoadCurrent, UpToNow
  <2> QED BY <1>7, <2>1 DEF LoadCurrent, UpToNow
<1>9. PageCurrent'
  <2>1. CASE loads[i].newest
    <3>1. loads[i].read = Unloaded \/ loads[i].read = version \/ unheard \/ Signalled
        BY <1>1, <2>1 DEF Followed, LoadCurrent, UpToNow
    <3> QED BY <1>6, <1>7, <2>1, <3>1 DEF PageCurrent, UpToNow
  <2>2. CASE ~loads[i].newest
    <3>1. (\E k \in DOMAIN loads : loads[k].newest) => \E j \in DOMAIN loads' : loads'[j].newest
        BY <1>3, <2>2
    <3>2. page' = page
        BY <1>6, <2>2
    <3> QED BY <1>1, <1>7, <3>1, <3>2 DEF Followed, PageCurrent, UpToNow
  <2> QED BY <2>1, <2>2
<1>10. OneNewest'
  <2> SUFFICES ASSUME NEW x \in DOMAIN loads', NEW y \in DOMAIN loads', loads'[x].newest, loads'[y].newest
               PROVE  x = y
      BY DEF OneNewest
  <2>1. PICK k \in DOMAIN loads \ {i} : loads'[x] = loads[k] /\ k = IF x < i THEN x ELSE x + 1
      BY <1>5
  <2>2. PICK m \in DOMAIN loads \ {i} : loads'[y] = loads[m] /\ m = IF y < i THEN y ELSE y + 1
      BY <1>5
  <2>3. k = m
      BY <1>1, <2>1, <2>2 DEF Followed, OneNewest
  <2>4. x \in Int /\ y \in Int
      BY <1>4
  <2> QED BY <1>2, <2>1, <2>2, <2>3, <2>4
<1>11. ListenTyped' /\ StreamTyped' /\ LuckTyped' /\ DropOwed'
    BY <1>1 DEF ListenTyped, StreamTyped, LuckTyped, DropOwed, Full
<1>12. PageTyped'
  <2>1. LoadsAtOnce \in Nat /\ Len(loads') <= LoadsAtOnce
      BY <1>1, <1>3, LiveAssumption DEF PageTyped, LiveAssumption
  <2> QED BY <1>1, <1>3, <1>6, <2>1 DEF PageTyped, S
<1> QED BY <1>8, <1>9, <1>10, <1>11, <1>12 DEF Following, Followed

LEMMA FollowingInit == LiveInit => Following
<1> SUFFICES ASSUME LiveInit PROVE Following
    OBVIOUS
<1>1. Len(<<>>) = 0 /\ DOMAIN <<>> = {} /\ 0 <= ListenBufferSize /\ 0 <= ClientBuffer /\ 0 <= LoadsAtOnce
      /\ LiveBounds \subseteq LiveBound
    BY LiveAssumption DEF LiveAssumption
<1>2. ListenTyped
    BY <1>1, EmptySeq DEF ListenTyped, LiveInit
<1>3. StreamTyped
    BY <1>1, EmptySeq DEF StreamTyped, LiveInit, Closed
<1>4. PageTyped
  <2>1. version = 0 /\ loads = <<>> /\ 0 \in 0 .. 0
      BY DEF LiveInit
  <2>2. page \in [shown : {Unloaded} \cup 0 .. 0, error : BOOLEAN, due : BOOLEAN]
    <3> DEFINE T == {Unloaded} \cup 0 .. 0
    <3>1. Unloaded \in T /\ 0 \in T
        OBVIOUS
    <3> HIDE DEF T
    <3>2. Blank \in [shown : T, error : BOOLEAN, due : BOOLEAN] /\ Standing \in [shown : T, error : BOOLEAN, due : BOOLEAN]
        BY <3>1 DEF Blank, Standing
    <3> QED BY <3>2 DEF LiveInit, T
  <2> QED BY <1>1, <2>1, <2>2, EmptySeq DEF PageTyped
<1>5. LuckTyped /\ DropOwed
    BY <1>1 DEF LuckTyped, DropOwed, LiveInit
<1>6. Followed
  <2>1. ~stream.open
      BY DEF LiveInit, Closed
  <2> QED BY <1>1, <2>1 DEF LiveInit, Followed, LoadCurrent, PageCurrent, OneNewest, UpToNow, Signalled
<1> QED BY <1>2, <1>3, <1>4, <1>5, <1>6 DEF Following

LEMMA FollowingNext == Following /\ [LiveNext]_liveVars => Following'
<1> SUFFICES ASSUME Following, [LiveNext]_liveVars PROVE Following'
    OBVIOUS
<1>1. ASSUME NEW which \in Event, ChangeRow(which) PROVE Following'
    BY <1>1, ChangeRowInv
<1>2. CASE Disconnect \/ BreakStream
    BY <1>2, LiveAssumption, DisconnectInv, BreakStreamInv
<1>3. CASE Listening
    BY <1>3, LiveAssumption, ConnectInv, DeliverOneInv DEF Listening
<1>4. CASE Publish1 \/ ServeFrame \/ OpenStream
    BY <1>4, LiveAssumption, PublishInv, ServeFrameInv, OpenStreamInv
<1>5. CASE Refetch
    BY <1>5, RefetchInv
<1>6. ASSUME NEW i \in DOMAIN loads, ReadRow(i) PROVE Following'
    BY <1>6, ReadRowInv
<1>7. ASSUME NEW i \in DOMAIN loads, Loaded(i) PROVE Following'
  <2>1. chances' \in LiveBound
      BY <1>7 DEF Loaded, Following, LuckTyped
  <2> QED BY <1>7, <2>1, LoadEnds DEF Loaded, Keeps, listenVars
<1>8. ASSUME NEW i \in DOMAIN loads, LoadFails(i) PROVE Following'
  <2>1. chances' \in LiveBound
      BY <1>8, ChanceTyped, ChanceNames DEF LoadFails, Following
  <2> QED BY <1>8, <2>1, LoadEnds DEF LoadFails, Keeps, listenVars
<1>9. CASE UNCHANGED liveVars
    BY <1>9 DEF liveVars, listenVars, pageVars, Following, ListenTyped, StreamTyped, PageTyped, LuckTyped, DropOwed, Full,
                Followed, LoadCurrent, PageCurrent, OneNewest, UpToNow, Signalled
<1> QED BY <1>1, <1>2, <1>3, <1>4, <1>5, <1>6, <1>7, <1>8, <1>9 DEF LiveNext, Loading

\* A page that shows neither the database as it is nor an error, of a change
\* its listener could hear, has a refetch or its signal still coming, or a
\* load under way that has read, or will read, the page as it is: whatever
\* was dropped, cut or overtaken (store/notify.go, webapi/hub.go,
\* resource.svelte.ts).
THEOREM NoChangeForgotten == LiveSpec => []ChangeIsOwed
<1>1. Following => ChangeIsOwed
    BY DEF Following, Followed, LoadCurrent, PageCurrent, UpToNow, ChangeIsOwed
<1> QED BY <1>1, FollowingInit, FollowingNext, PTL DEF LiveSpec

\* The types of the listener, the stream, the page and its loads, and the
\* bounds of the queue and of the stream's buffer.
THEOREM LiveIsTyped == LiveSpec => []LiveTypeOK
<1>1. Following => LiveTypeOK
    BY DEF Following, ListenTyped, StreamTyped, PageTyped, LuckTyped, LiveTypeOK
<1> QED BY <1>1, FollowingInit, FollowingNext, PTL DEF LiveSpec

-----------------------------------------------------------------------------
(***************************************************************************)
(* The modules together, as MCServe adds them up: each keeps its invariant *)
(* when the step is its own, and its variables when it is another's.       *)
(***************************************************************************)
ServeSound == IntakeSound /\ MentionSound /\ Following /\ LeaderSound /\ KubeSound

LEMMA ServeInit == Init => ServeSound
BY IntakeInitSound, MentionInitSound, FollowingInit, LeaderInitSound, KubeInitSound DEF Init, ServeSound

LEMMA ServeNext == ServeSound /\ [Next]_serveVars => ServeSound'
<1>1. [Next]_serveVars => /\ [IntakeNext]_intakeVars /\ [MentionNext]_mentionVars /\ [LiveNext]_liveVars
                          /\ [LeaderNext]_leaderVars /\ [KubeNext]_kubeVars
    BY DEF Next, serveVars
<1> QED BY <1>1, IntakeNextSound, MentionNextSound, FollowingNext, LeaderNextSound, KubeNextSound DEF ServeSound

\* Every variable of MCServe keeps its type, whichever module a behaviour is
\* of: what the database, the forge, the cluster and the dashboard hold of a
\* thing is of that thing, and every queue, list and age is within its bound.
THEOREM ServeIsTyped == Spec => []TypeOK
<1>1. ServeSound => MentionTypeOK /\ LeaderTypeOK /\ KubeTypeOK
    BY DEF ServeSound, MentionSound, LeaderSound, KubeSound
<1>2. ServeSound => LiveTypeOK
    BY DEF ServeSound, Following, ListenTyped, StreamTyped, PageTyped, LuckTyped, LiveTypeOK
<1>3. ServeSound => IntakeTypeOK
  <2> SUFFICES ASSUME IntakeTyped PROVE IntakeTypeOK
      BY DEF ServeSound, IntakeSound
  <2>1. ASSUME NEW r \in Repo, NEW v \in DOMAIN hist[r]
        PROVE  /\ hist[r][v].event \in {"push", "edit", "close", "reopen"} /\ hist[r][v].open \in BOOLEAN
               /\ hist[r][v].head \in 1 .. v /\ hist[r][v].split \in BOOLEAN
               /\ hist[r][v].when <= now /\ (v > 1 => hist[r][v-1].when <= hist[r][v].when)
    <3>1. hist[r] \in Seq(Versions) /\ v \in 1 .. Len(hist[r]) /\ v \in Nat /\ (v > 1 => v - 1 \in 1 .. v)
        BY <2>1 DEF IntakeTyped, HistTyped
    <3>2. hist[r][v] \in Versions
        BY <3>1
    <3> QED BY <2>1, <3>1, <3>2 DEF IntakeTyped, HistTyped, Versions
  <2>2. ASSUME NEW m \in mail PROVE m[1] \in Repo /\ m[2] \in DOMAIN hist[m[1]]
      BY <2>2 DEF IntakeTyped, MailTyped, HistTyped, Last
  <2>3. poll.at \in 0 .. room.repos + 1 /\ (poll.seen # 0 => poll.at \in Repo /\ poll.seen \in DOMAIN hist[poll.at])
      BY DEF IntakeTyped, PollTyped, HistTyped, Last, IntakeBound
  <2>4. ASSUME NEW r \in Repo
        PROVE  /\ row[r].head \in Heads(r) \cup {0} /\ row[r].open \in BOOLEAN
               /\ row[r].at \in {Never} \cup {Stamp(hist[r][v].when) : v \in DOMAIN hist[r]}
               /\ auto[r] \in [paused : BOOLEAN, count : Nat]
               /\ queued[r] \subseteq Heads(r) /\ kept[r] \subseteq Heads(r) \ queued[r]
               /\ reviewed[r] \subseteq Heads(r) \X {"completed", "skipped", "failed"}
      BY <2>4 DEF IntakeTyped, PullTyped, AutoTyped, JobsTyped
  <2>5. now \in Nat /\ polled \in {Never} \cup 0 .. now /\ cut \in BOOLEAN /\ room \in IntakeBound
      BY DEF IntakeTyped, HistTyped, PollTyped
  <2> QED BY <2>1, <2>2, <2>3, <2>4, <2>5 DEF IntakeTypeOK
<1> QED BY <1>1, <1>2, <1>3, ServeInit, ServeNext, PTL DEF Spec, TypeOK
=============================================================================
