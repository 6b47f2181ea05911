---- MODULE Publish ----
(***************************************************************************)
(* The publish phase of a pull request's reviews (worker/publish.go,       *)
(* worker/incremental.go) and the dismissals people make in the threads it *)
(* opens (worker/thread.go, store/dismissals.go).                          *)
(*                                                                         *)
(* A review reads the last completed review and the dismissals when it     *)
(* starts, and writes to the forge and to the database only once its agent *)
(* has answered: the sticky comment, an inline comment per finding, the    *)
(* approval, the rows.  The forge keeps what an attempt wrote when the     *)
(* attempt itself is lost; the database does not know of it.  So each      *)
(* write first looks for what is already there, by the markers the         *)
(* comments carry.                                                         *)
(*                                                                         *)
(* A finding is its fingerprint, and an answer may report several of one:  *)
(* Parse keeps them all, and each is posted in a thread of its own.        *)
(* Comments are numbered as the forge posts them.  What a review knows of  *)
(* a finding's inline comments is their numbers, Unread for those that     *)
(* were posted but their numbers never read back, or Nowhere.  The commit  *)
(* status is left to ReviewJob, the wording and the links to nobody.       *)
(***************************************************************************)
EXTENDS Integers, Sequences, FiniteSets

CONSTANTS Finding,      \* findings, by fingerprint
          Blocking,     \* those that withhold an approval
          Nits,         \* those a feedback level may keep to the summary
          Publisher,    \* reviews of the pull request that may run at once
          Bounds        \* what may happen in a behaviour, see Bound

\* Reviews started and how many at once, what people do on the pull request,
\* calls that fail or attempts that are lost; how many findings of one
\* fingerprint an answer has, and whether nits go inline.
Bound == [reviews : Nat, atOnce : Nat, gestures : Nat, faults : Nat, alike : Nat, nits : BOOLEAN]

ASSUME PublishAssumption ==
    /\ IsFiniteSet(Finding) /\ IsFiniteSet(Publisher)
    /\ Blocking \subseteq Finding /\ Nits \subseteq Finding
    /\ Bounds \subseteq Bound

VARIABLES
    stickies,   \* the forge's comments with the pull request's marker
    threads,    \* the forge's inline comments of the bot, oldest first
    summary,    \* what the sticky comment was last edited to say
    approved,   \* an approval of the bot stands
    stored,     \* sticky_comments.forge_comment_id, 0 without a row
    last,       \* the last completed review and its findings
    known,      \* findings some completed review reported
    dismissed,  \* dismissals, each by the reviews started before it
    changes,    \* thread jobs queued or running
    rv,         \* what each running review holds
    started,    \* reviews started
    commented,  \* conversation comments the bot created
    left,       \* what may still happen
    raced       \* history: what two reviews wrote at once, or blindly

forgeVars == <<stickies, threads, summary, approved, commented>>
rowVars   == <<stored, last, known, dismissed, changes>>
publishVars == <<forgeVars, rowVars, rv, started, left, raced>>

\* The places of a finding's inline comments.
Unread  == 0
Nowhere == {}

\* A thread is of a finding, and by the review that opened it, which no code reads.
Comments == Seq([of : Finding, by : Nat, open : BOOLEAN, joined : BOOLEAN])
Where    == {Unread} \cup DOMAIN threads

\* The bot's comments carrying f's marker, and the newest of them.
ThreadsOf(f) == {i \in DOMAIN threads : threads[i].of = f}
Newest(S) == CHOOSE i \in S : \A j \in S : j <= i
Oldest(S) == CHOOSE i \in S : \A j \in S : i <= j

NoReview == [n |-> 0, found |-> {}, on |-> [f \in Finding |-> Nowhere]]
Resting  == [pc |-> "idle", n |-> 0, prior |-> NoReview, gone |-> {}, found |-> {},
             on |-> NoReview.on, inline |-> <<>>, blind |-> FALSE, complete |-> TRUE, comment |-> 0]

Looked    == {"resolve", "sticky", "create", "inline"}
Reviewing == Looked \cup {"ready", "approve", "persist", "record"}
Verdicts  == {"approvable", "blocking"}

PublishTypeOK ==
    /\ stickies \subseteq 1..commented
    /\ threads \in Comments
    /\ summary \in Verdicts \cup {"none", "incomplete"}
    /\ approved \in BOOLEAN
    /\ stored \in 0..commented
    /\ last \in [n : 0..started, found : SUBSET Finding, on : [Finding -> SUBSET Where]]
    /\ known \subseteq Finding
    /\ dismissed \in [Finding -> 0..started + 1]
    /\ changes \subseteq [thread : DOMAIN threads, resolved : BOOLEAN, writer : BOOLEAN]
    /\ \A p \in Publisher :
        /\ rv[p].pc \in Reviewing \cup {"idle"}
        /\ rv[p].n <= started
        /\ rv[p].inline \in Seq(Finding)
        /\ rv[p].on \in [Finding -> SUBSET Where]
        /\ \A f \in Finding : rv[p].on[f] \subseteq {Unread} \cup ThreadsOf(f)
    /\ started \in Nat /\ left \in Bound
    /\ raced \subseteq {"sticky", "approval"} \cup Finding

PublishInit ==
    /\ stickies = {} /\ threads = <<>> /\ summary = "none" /\ approved = FALSE /\ commented = 0
    /\ stored = 0 /\ last = NoReview /\ known = {} /\ changes = {}
    /\ dismissed = [f \in Finding |-> 0]
    /\ rv = [p \in Publisher |-> Resting]
    /\ started = 0 /\ left \in Bounds /\ raced = {}

PublishFault == left.faults > 0 /\ left' = [left EXCEPT !.faults = @ - 1]
Gesture      == left.gestures > 0 /\ left' = [left EXCEPT !.gestures = @ - 1]
At(p, at)    == rv[p].pc = at
Goto(p, at)  == rv' = [rv EXCEPT ![p].pc = at]
Others(p)    == {q \in Publisher \ {p} : rv[q].pc # "idle"}
Raced(what, when) == raced' = IF when THEN raced \cup what ELSE raced

-----------------------------------------------------------------------------
(* One review, from its start to its end. *)

Dismissed == {f \in Finding : dismissed[f] # 0}

\* The last completed review's findings, but those dismissed.
WithDismissals(review, gone) ==
    [review EXCEPT !.found = @ \ gone,
                   !.on = [f \in Finding |-> IF f \in gone THEN Nowhere ELSE @[f]]]

StartReview(p) ==
    /\ At(p, "idle") /\ left.reviews > 0 /\ Cardinality(Others(p)) < left.atOnce
    /\ started' = started + 1 /\ left' = [left EXCEPT !.reviews = @ - 1]
    /\ rv' = [rv EXCEPT ![p] = [Resting EXCEPT
                !.pc = "ready", !.n = started + 1, !.gone = Dismissed,
                !.prior = WithDismissals(last, Dismissed)]]
    /\ UNCHANGED <<forgeVars, rowVars, raced>>

KeepDismissed(found, gone) == found
DropDismissed(found, gone) == found \ gone

\* The agent stopped without submitting, or what it submitted was invalid:
\* the sticky comment says so and no finding is reported.
Incomplete(p) ==
    /\ At(p, "ready")
    /\ rv' = [rv EXCEPT ![p] = [Resting EXCEPT !.pc = "sticky", !.n = rv[p].n, !.complete = FALSE]]
    /\ UNCHANGED <<forgeVars, rowVars, started, left, raced>>

\* What the last review recorded of the inline comments of each finding found,
\* the last of its rows standing for the others.
AlreadyInline(found, prior) ==
    [f \in Finding |-> IF f \in found /\ prior.on[f] # Nowhere THEN {Newest(prior.on[f])} ELSE Nowhere]

MarkNothing(found, on) == on

\* Findings the record has no inline comment for take the newest one on the
\* forge that carries their marker.
MarkOnForge(found, on) ==
    [f \in Finding |-> IF f \in found /\ on[f] = Nowhere /\ ThreadsOf(f) # {}
                       THEN {Newest(ThreadsOf(f))} ELSE on[f]]

PostsInline(f) == f \notin Nits \/ left.nits
ToPost(found, on) == {f \in found : on[f] = Nowhere /\ PostsInline(f)}

\* The inline comments that may be posted for S: one or more for each, as the
\* answer reported it, the most severe first.
Listings(S) ==
    {s \in UNION {[1..n -> S] : n \in 0..left.alike * Cardinality(S)} :
        /\ \A f \in S : Cardinality({i \in DOMAIN s : s[i] = f}) \in 1..left.alike
        /\ \A i, j \in DOMAIN s : s[i] \notin Blocking /\ s[j] \in Blocking => j < i}

\* The agent submitted findings, of which those dismissed are left out; the
\* review builds on the last completed one when the runner found it could.
\* The forge's inline comments are listed, and when they cannot be, the
\* database's answer stands; each finding with none gets one of its own.
Answered(p) ==
    /\ At(p, "ready")
    /\ \E submitted \in SUBSET Finding, builds \in {b \in BOOLEAN : b => rv[p].prior.n > 0}, read \in BOOLEAN :
        LET found    == DropDismissed(submitted, rv[p].gone)
            recorded == AlreadyInline(found, rv[p].prior)
            on       == IF read THEN MarkOnForge(found, recorded) ELSE recorded
        IN
        /\ IF read THEN UNCHANGED left ELSE found # {} /\ PublishFault
        /\ \E inline \in Listings(ToPost(found, on)) :
            rv' = [rv EXCEPT ![p].pc = IF builds THEN "resolve" ELSE "sticky",
                             ![p].found = found, ![p].blind = ~read, ![p].gone = {},
                             ![p].prior = IF builds THEN @ ELSE NoReview,
                             ![p].on = on, ![p].inline = inline]
    /\ UNCHANGED <<forgeVars, rowVars, started, raced>>

\* The threads of the last review's findings this one did not report.
ResolvedThreads(p) ==
    UNION {rv[p].prior.on[f] : f \in rv[p].prior.found \ rv[p].found} \cap DOMAIN threads

Closed(closing) ==
    [i \in DOMAIN threads |-> IF i \in closing THEN [threads[i] EXCEPT !.open = FALSE] ELSE threads[i]]

\* Each thread only the bot wrote in is resolved; any of the calls may fail.
ResolveThreads(p) ==
    /\ At(p, "resolve")
    /\ \E failed \in SUBSET ResolvedThreads(p) :
        /\ threads' = Closed({i \in ResolvedThreads(p) \ failed : ~threads[i].joined})
        /\ IF failed = {} THEN UNCHANGED left ELSE PublishFault
    /\ rv' = [rv EXCEPT ![p].pc = "sticky", ![p].prior = NoReview]
    /\ UNCHANGED <<stickies, summary, approved, commented, rowVars, started, raced>>

Approvable(p) == rv[p].found \cap Blocking = {}
Says(p) == IF ~rv[p].complete THEN "incomplete" ELSE IF Approvable(p) THEN "approvable" ELSE "blocking"
Edited(p, id) ==
    /\ summary' = Says(p)
    /\ rv' = [rv EXCEPT ![p].comment = id, ![p].pc = IF rv[p].complete THEN "inline" ELSE "persist"]

StoredOnly == IF stored \in stickies THEN stored ELSE 0

\* The comment the row remembers, when the forge still has it, or else the
\* first one with the marker.
Sticky == IF stored \in stickies THEN stored ELSE IF stickies = {} THEN 0 ELSE Oldest(stickies)

EditSticky(p) ==
    /\ At(p, "sticky")
    /\ IF Sticky # 0 THEN Edited(p, Sticky) ELSE Goto(p, "create") /\ UNCHANGED summary
    /\ UNCHANGED <<stickies, threads, approved, commented, rowVars, started, left, raced>>

\* A comment created though its answer was lost fails the review and stays.
CreateSticky(p) ==
    /\ At(p, "create")
    /\ commented' = commented + 1
    /\ stickies' = stickies \cup {commented + 1}
    /\ LET both == IF \E q \in Others(p) : At(q, "create") THEN {"sticky"} ELSE {} IN
       \/ Edited(p, commented + 1) /\ UNCHANGED left /\ raced' = raced \cup both
       \/ /\ summary' = Says(p) /\ rv' = [rv EXCEPT ![p] = Resting] /\ PublishFault
          /\ raced' = raced \cup both \cup {"approval"}
    /\ UNCHANGED <<threads, approved, rowVars, started>>

\* The review's inline comments, one a finding reported, after those there are.
Posted(p) ==
    threads \o [i \in DOMAIN rv[p].inline |->
                   [of |-> rv[p].inline[i], by |-> rv[p].n, open |-> TRUE, joined |-> FALSE]]
Posting(p) == {rv[p].inline[i] : i \in DOMAIN rv[p].inline}

\* The numbers of those posted for f.
ListedAt(p, f)   == {i \in DOMAIN rv[p].inline : rv[p].inline[i] = f}
NumberPast(p, f) == {Len(threads) + i + 1 : i \in ListedAt(p, f)}
Number(p, f)     == {Len(threads) + i : i \in ListedAt(p, f)}

\* The inline review is posted and its comments' numbers read back; or, best
\* effort as it is, posted and not read back, posted with its answer lost, or
\* not posted.
CreateReview(p) ==
    /\ At(p, "inline")
    /\ \E outcome \in {"read"} \cup (IF Posting(p) = {} THEN {} ELSE {"unread", "lost", "refused"}) :
        /\ threads' = IF outcome = "refused" THEN threads ELSE Posted(p)
        /\ rv' = [rv EXCEPT ![p].pc = "approve", ![p].inline = <<>>,
                    ![p].on = [f \in Finding |->
                        CASE f \in Posting(p) /\ outcome = "read" -> Number(p, f)
                          [] f \in Posting(p) /\ outcome = "unread" -> {Unread}
                          [] OTHER -> @[f]]]
        /\ IF outcome = "read" THEN UNCHANGED left ELSE PublishFault
    /\ raced' = raced \cup {f \in Posting(p) : \/ rv[p].blind /\ ThreadsOf(f) # {}
                                             \/ \E q \in Others(p) : rv[q].pc \in Looked}
    /\ UNCHANGED <<stickies, summary, approved, commented, rowVars, started>>

ApprovalKept(p)  == approved \/ Approvable(p)
ApprovalAfter(p) == Approvable(p)

\* The head is approved, or the approvals an earlier review gave withdrawn.
Approve(p) ==
    /\ At(p, "approve")
    /\ \/ approved' = ApprovalAfter(p) /\ UNCHANGED left /\ Raced({"approval"}, Others(p) # {})
       \/ approved' = approved /\ PublishFault /\ Raced({"approval"}, TRUE)
    /\ Goto(p, "persist")
    /\ UNCHANGED <<stickies, threads, summary, commented, rowVars, started>>

\* RecordReviewResult: the findings' rows and the sticky comment's, at once.
\* The rows of a review that has not completed are read by nobody.
Persist(p) ==
    /\ At(p, "persist")
    /\ stored' = rv[p].comment
    /\ rv' = IF rv[p].complete THEN [rv EXCEPT ![p].pc = "record"] ELSE [rv EXCEPT ![p] = Resting]
    /\ UNCHANGED <<forgeVars, last, known, dismissed, changes, started, left, raced>>

\* The review is completed: the pull request's last is the one that started last.
Record(p) ==
    /\ At(p, "record")
    /\ known' = known \cup rv[p].found
    /\ last' = IF rv[p].n > last.n THEN [n |-> rv[p].n, found |-> rv[p].found, on |-> rv[p].on] ELSE last
    /\ rv' = [rv EXCEPT ![p] = Resting]
    /\ UNCHANGED <<forgeVars, stored, dismissed, changes, started, left, raced>>

\* A required call fails, or the worker dies: what was written stays written,
\* the review ends as failed, and only another review can follow.
ReviewFails(p) ==
    /\ rv[p].pc # "idle" /\ PublishFault
    /\ rv' = [rv EXCEPT ![p] = Resting]
    /\ Raced({"approval"}, rv[p].pc \in {"inline", "approve"})
    /\ UNCHANGED <<forgeVars, rowVars, started>>

-----------------------------------------------------------------------------
(* What people do on the pull request, and the jobs their gestures queue. *)

DeleteSticky ==
    /\ Gesture
    /\ \E id \in stickies : stickies' = stickies \ {id}
    /\ UNCHANGED <<threads, summary, approved, commented, rowVars, rv, started, raced>>

JoinThread(i) ==
    /\ ~threads[i].joined /\ Gesture
    /\ threads' = [threads EXCEPT ![i].joined = TRUE]
    /\ UNCHANGED <<stickies, summary, approved, commented, rowVars, rv, started, raced>>

\* Someone resolves or unresolves a thread of the bot's.  A job for the same
\* change of the same thread that is still to come stands for this one too.
ToggleThread(i, writer) ==
    LET now == ~threads[i].open IN
    /\ Gesture
    /\ threads' = [threads EXCEPT ![i].open = now]
    /\ changes' = IF \E c \in changes : c.thread = i /\ c.resolved = ~now THEN changes
                  ELSE changes \cup {[thread |-> i, resolved |-> ~now, writer |-> writer]}
    /\ UNCHANGED <<stickies, summary, approved, commented, stored, last, known, dismissed, rv, started, raced>>

RecordDismissal(f) == dismissed' = [dismissed EXCEPT ![f] = started + 1]
DeleteDismissal(f) == dismissed' = [dismissed EXCEPT ![f] = 0]

\* A thread job's work, in whatever order the jobs are worked: the change
\* counts when its sender may write, and a dismissal when some completed
\* review reported the finding.
ApplyChange(c) ==
    LET f == threads[c.thread].of IN
    /\ changes' = changes \ {c}
    /\ IF ~c.writer \/ (c.resolved /\ f \notin known) THEN UNCHANGED dismissed
       ELSE IF c.resolved THEN RecordDismissal(f) ELSE DeleteDismissal(f)
    /\ UNCHANGED <<forgeVars, stored, last, known, rv, started, left, raced>>

\* River discards a thread job that failed every attempt.
LoseChange(c) ==
    /\ PublishFault
    /\ changes' = changes \ {c}
    /\ UNCHANGED <<forgeVars, stored, last, known, dismissed, rv, started, raced>>

\* "@<bot> dismiss" in a finding's thread: recorded when some review reported
\* the finding, then its thread resolved whoever wrote in it, best effort.
MentionDismisses(i) ==
    LET found == threads[i].of \in known IN
    /\ left.gestures > 0
    /\ IF found THEN RecordDismissal(threads[i].of) ELSE UNCHANGED dismissed
    /\ \E failed \in 0..1 :
        /\ failed <= left.faults
        /\ left' = [left EXCEPT !.gestures = @ - 1, !.faults = @ - failed]
        /\ threads' = [threads EXCEPT ![i].joined = TRUE, ![i].open = @ /\ ~(found /\ failed = 0)]
    /\ UNCHANGED <<stickies, summary, approved, commented, stored, last, known, changes, rv, started, raced>>

-----------------------------------------------------------------------------
Publishing(p) ==
    \/ StartReview(p) \/ Answered(p) \/ Incomplete(p) \/ ResolveThreads(p)
    \/ EditSticky(p) \/ CreateSticky(p) \/ CreateReview(p) \/ Approve(p)
    \/ Persist(p) \/ Record(p) \/ ReviewFails(p)

People ==
    \/ DeleteSticky
    \/ \E i \in DOMAIN threads :
        JoinThread(i) \/ MentionDismisses(i) \/ \E writer \in BOOLEAN : ToggleThread(i, writer)

PublishNext ==
    \/ \E p \in Publisher : Publishing(p)
    \/ People
    \/ \E c \in changes : ApplyChange(c) \/ LoseChange(c)

PublishSpec == PublishInit /\ [][PublishNext]_publishVars

-----------------------------------------------------------------------------
(* Properties *)

\* The sticky comment is "created once, edited after" (publish.go): however
\* reviews are lost after they wrote, and whoever deletes a comment, a pull
\* request has two only when two reviews looked for it before either had
\* created it.
OneSticky == Cardinality(stickies) > 1 => "sticky" \in raced

\* A finding's threads are all of one review, for the life of the pull
\* request: one that reports it again posts nothing, though the review that
\* opened them may have died before recording them or never learned their
\* numbers, and though the finding was gone, or dismissed and restored, in
\* between.  Threads of a second review take one that could not read the
\* forge's comments, or two that posted at once (publish.go, markOnForge).
\* Within a review, findings of one path and title have a thread each.
ThreadsOfOneReview ==
    \A f \in Finding \ raced : \A i, j \in ThreadsOf(f) : threads[i].by = threads[j].by

\* What the forge shows of a pull request is one of each, not one of each
\* attempt.
OneOfEach == OneSticky /\ ThreadsOfOneReview

\* "A later review of the same pull request that does find something
\* dismisses kritika's approval" (docs/repository-config.md): while the sticky
\* comment reports a blocking finding the pull request stands approved only
\* until that review has got to its approvals, unless the forge refused, the
\* review was lost there, or another was under way.
ApprovalWithdrawn ==
    approved /\ summary = "blocking" =>
        "approval" \in raced \/ \E p \in Publisher : rv[p].pc \in {"inline", "approve"}

\* A review that started after a maintainer dismissed a finding does not
\* report it: the last completed review lists a dismissed finding only if it
\* was dismissed after that review started.
DismissedStaysOut == \A f \in last.found : dismissed[f] # 0 => last.n < dismissed[f]
====
