---- MODULE Mentions ----
(***************************************************************************)
(* The jobs that answer "@<bot> ..." comments (worker/followup.go): one    *)
(* per comment, tried again when it fails or its worker dies, and queued   *)
(* again when the webhook is redelivered once River no longer has the job. *)
(* Several are worked at once, and a pull request's answers are limited    *)
(* per hour.                                                               *)
(*                                                                         *)
(* A reply cannot be taken back, and is posted before it is recorded.  So  *)
(* a job first looks whether the mention was answered: in the database,    *)
(* and from its second attempt on, on the forge, where the reply carries a *)
(* marker naming the comment.  What the model answers, and which command   *)
(* is given, is left out: a command has an effect in the database, once or *)
(* several times the same, and then a reply like any other.                *)
(***************************************************************************)
EXTENDS Integers, FiniteSets

CONSTANTS Question, Command, Stray, \* comments: of writers, and of those who may not ask
          FollowUpsPerHour,
          MentionAttempts,
          MentionBounds             \* what may happen in a behaviour

\* Mentions that come, calls that fail or workers that die, webhooks that
\* come again, hours that pass.
MentionBound == [mentions : Nat, faults : Nat, again : Nat, hours : Nat]

ASSUME MentionAssumption ==
    /\ IsFiniteSet(Question \cup Command \cup Stray)
    /\ FollowUpsPerHour \in Nat /\ MentionAttempts \in Nat \ {0}
    /\ MentionBounds \subseteq MentionBound

VARIABLES
    job,        \* River's job for each mention, and how far its attempt is
    answers,    \* followups, the rows' status and reply
    recent,     \* mentions whose row was created in the last hour
    replies,    \* marked replies on the forge
    notices,    \* limit notices posted in the last hour
    applied,    \* commands that took effect
    unrecorded, \* history: mentions a job ended with a reply no row knows of
    spare       \* what may still happen

mentionVars == <<job, answers, recent, replies, notices, applied, unrecorded, spare>>

Mention == Question \cup Command \cup Stray

Working == {"check", "search", "qualify", "limit", "notice", "act", "reply", "record"}
NoAnswer == [status |-> "none", reply |-> FALSE]
Unborn   == [pc |-> "none", attempt |-> 0]

MentionTypeOK ==
    /\ job \in [Mention -> [pc : Working \cup {"none", "queued", "kept", "gone"}, attempt : 0..MentionAttempts]]
    /\ answers \in [Mention -> [status : {"none", "answered", "ignored", "limited", "failed"}, reply : BOOLEAN]]
    /\ \A m \in Mention :
        /\ job[m].pc \in Working => job[m].attempt > 0
        /\ m \in recent => answers[m].status # "none"
        /\ answers[m].reply => replies[m] > 0
    /\ recent \subseteq Mention
    /\ replies \in [Mention -> Nat] /\ notices \in Nat
    /\ applied \subseteq Command /\ unrecorded \subseteq Mention /\ spare \in MentionBound

MentionInit ==
    /\ job = [m \in Mention |-> Unborn]
    /\ answers = [m \in Mention |-> NoAnswer]
    /\ recent = {} /\ replies = [m \in Mention |-> 0] /\ notices = 0
    /\ applied = {} /\ unrecorded = {}
    /\ spare \in MentionBounds

Use(what)    == spare[what] > 0 /\ spare' = [spare EXCEPT ![what] = @ - 1]
Doing(m, pc) == job[m].pc = pc
Then(m, pc)  == job' = [job EXCEPT ![m].pc = pc]

\* record: the row is written, keeping a reply it has already.
Row(m, status, replied) ==
    /\ answers' = [answers EXCEPT ![m] = [status |-> status, reply |-> @.reply \/ replied]]
    /\ recent' = IF answers[m].status = "none" THEN recent \cup {m} ELSE recent
NoRecord == UNCHANGED <<answers, recent>>

RetriedPast(m) == Then(m, IF job[m].attempt <= MentionAttempts THEN "queued" ELSE "gone")

\* The attempt is over; River tries again until the attempts are used up.
Retried(m) == Then(m, IF job[m].attempt < MentionAttempts THEN "queued" ELSE "gone")
Forgets(m, when) == unrecorded' = IF when THEN unrecorded \cup {m} ELSE unrecorded
Unknown(m) == replies[m] > 0 /\ ~answers[m].reply

-----------------------------------------------------------------------------
(* The job's life around its attempts. *)

\* The webhook queues the comment's job unless River has it.
Mentioned(m) ==
    /\ \/ Doing(m, "none") /\ Use("mentions")
       \/ Doing(m, "gone") /\ Use("again")
    /\ job' = [job EXCEPT ![m] = [pc |-> "queued", attempt |-> 0]]
    /\ UNCHANGED <<answers, recent, replies, notices, applied, unrecorded>>

\* River removes jobs done long ago.
CleanMention(m) ==
    /\ Doing(m, "kept") /\ spare.again > 0
    /\ Then(m, "gone")
    /\ UNCHANGED <<answers, recent, replies, notices, applied, unrecorded, spare>>

StartAttempt(m) ==
    /\ Doing(m, "queued")
    /\ job' = [job EXCEPT ![m] = [pc |-> "check", attempt |-> @.attempt + 1]]
    /\ UNCHANGED <<answers, recent, replies, notices, applied, unrecorded, spare>>

\* The worker dies: the leader's Rescuer hands the job back to the queue.
WorkerDies(m) ==
    /\ job[m].pc \in Working /\ Use("faults")
    /\ Retried(m)
    /\ Forgets(m, job[m].attempt = MentionAttempts /\ Unknown(m))
    /\ UNCHANGED <<answers, recent, replies, notices, applied>>

\* A step fails before or after run: what failed in run is recorded, best
\* effort, and goes back to River.
Fails(m) ==
    /\ Retried(m)
    /\ IF job[m].pc \in {"check", "search"} THEN NoRecord
       ELSE Row(m, "failed", FALSE)
AttemptFails(m) ==
    /\ job[m].pc \in Working \ {"record"} /\ Use("faults")
    /\ Fails(m)
    /\ Forgets(m, job[m].attempt = MentionAttempts /\ Unknown(m))
    /\ UNCHANGED <<replies, notices, applied>>

-----------------------------------------------------------------------------
(* One attempt. *)

HandledFailed(m) == answers[m].status \in {"answered", "limited", "failed"} \/ answers[m].reply

\* What the row says of a mention that needs nothing more.
Handled(m) == answers[m].status \in {"answered", "limited"} \/ answers[m].reply

AlreadyAnswered(m) ==
    /\ Doing(m, "check")
    /\ Then(m, IF Handled(m) THEN "kept" ELSE IF job[m].attempt > 1 THEN "search" ELSE "qualify")
    /\ UNCHANGED <<answers, recent, replies, notices, applied, unrecorded, spare>>

NoMarkedReply(m) == FALSE
MarkedReply(m) == replies[m] > 0

\* The forge's comments are listed; a reply found there is recorded.
RepliedOnForge(m) ==
    /\ Doing(m, "search")
    /\ IF MarkedReply(m) THEN Then(m, "kept") /\ Row(m, "answered", TRUE) ELSE Then(m, "qualify") /\ NoRecord
    /\ UNCHANGED <<replies, notices, applied, unrecorded, spare>>

\* Only those who may write are answered; when the forge does not say, nobody.
Disqualified(m) ==
    /\ Doing(m, "qualify")
    /\ \/ m \in Stray /\ Row(m, "ignored", FALSE) /\ Then(m, "kept") /\ UNCHANGED spare
       \/ m \notin Stray /\ Row(m, "ignored", FALSE) /\ Then(m, "kept") /\ Use("faults")
       \/ m \notin Stray /\ NoRecord /\ Then(m, "limit") /\ UNCHANGED spare
    /\ UNCHANGED <<replies, notices, applied, unrecorded>>

Answered(m) == answers[m].status = "answered"
OverLimit == Cardinality({m \in recent : Answered(m)}) >= FollowUpsPerHour

\* The hour's answers and notices are counted; the first mention over the
\* limit posts the notice before it is recorded.
RateLimited(m) ==
    /\ Doing(m, "limit")
    /\ Then(m, IF OverLimit THEN "notice" ELSE "act")
    /\ notices' = IF OverLimit /\ ~\E q \in recent : answers[q].status = "limited" THEN notices + 1 ELSE notices
    /\ UNCHANGED <<answers, recent, replies, applied, unrecorded, spare>>

RecordLimited(m) ==
    /\ Doing(m, "notice")
    /\ Row(m, "limited", FALSE) /\ Then(m, "kept")
    /\ UNCHANGED <<replies, notices, applied, unrecorded, spare>>

\* The command takes effect, or the model is asked.
Act(m) ==
    /\ Doing(m, "act")
    /\ applied' = applied \cup ({m} \cap Command)
    /\ Then(m, "reply")
    /\ UNCHANGED <<answers, recent, replies, notices, unrecorded, spare>>

\* The reply is posted; or posted, with its answer lost, which fails the attempt.
Reply(m) ==
    /\ Doing(m, "reply")
    /\ replies' = [replies EXCEPT ![m] = @ + 1]
    /\ \/ Then(m, "record") /\ NoRecord /\ UNCHANGED <<unrecorded, spare>>
       \/ Fails(m) /\ Use("faults") /\ Forgets(m, job[m].attempt = MentionAttempts)
    /\ UNCHANGED <<notices, applied>>

\* The record of a reply that fails is only logged: the job is done.
RecordReply(m) ==
    /\ Doing(m, "record")
    /\ Then(m, "kept")
    /\ \/ Row(m, "answered", TRUE) /\ UNCHANGED <<unrecorded, spare>>
       \/ NoRecord /\ Use("faults") /\ Forgets(m, TRUE)
    /\ UNCHANGED <<replies, notices, applied>>

HourPasses ==
    /\ Use("hours")
    /\ recent' = {} /\ notices' = 0
    /\ UNCHANGED <<job, answers, replies, applied, unrecorded>>

-----------------------------------------------------------------------------
Attempt(m) ==
    \/ StartAttempt(m) \/ AlreadyAnswered(m) \/ RepliedOnForge(m) \/ Disqualified(m)
    \/ RateLimited(m) \/ RecordLimited(m) \/ Act(m) \/ Reply(m) \/ RecordReply(m)

MentionNext ==
    \/ \E m \in Mention : Attempt(m) \/ Mentioned(m) \/ CleanMention(m) \/ WorkerDies(m) \/ AttemptFails(m)
    \/ HourPasses

\* Workers work the queue for ever, and each attempt that does not die ends.
MentionSpec == MentionInit /\ [][MentionNext]_mentionVars /\ \A m \in Mention : WF_mentionVars(Attempt(m))

-----------------------------------------------------------------------------
(* Properties *)

\* "Once a reply is on the forge the mention is done, whatever happened after
\* posting" (followup.go): a comment is replied to once, though attempts die,
\* fail or lose the forge's answer after it was posted, and though its
\* webhook comes again; a second reply takes a job that ended without anyone
\* recording the first, and a webhook that then comes again.  And a command's
\* reply says what was done: it took effect before.
AnsweredOnce ==
    /\ \A m \in Mention : replies[m] > 1 => m \in unrecorded
    /\ \A m \in Command : replies[m] > 0 => m \in applied

\* A job that is done has left its mention with a reply, or recorded that it
\* is not to be answered; a discarded one has used up its attempts.
Settled(m) == replies[m] > 0 \/ answers[m].status \in {"ignored", "limited"}
Ended(m) ==
    \/ Doing(m, "none")
    \/ job[m].pc \in {"kept", "gone"} /\ Settled(m)
    \/ Doing(m, "gone") /\ job[m].attempt = MentionAttempts

\* Every mention is settled in the end, or its job failed every attempt.
MentionsEnd == <>[](\A m \in Mention : Ended(m))
====
