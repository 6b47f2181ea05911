---- MODULE Intake ----
(***************************************************************************)
(* How the pull requests of an account become known and get their          *)
(* automatic reviews queued: the webhooks of ingest/service.go, in         *)
(* whatever order and number they arrive, and the leader's poll            *)
(* (poller/poller.go), which lists what changed since the last poll that   *)
(* skipped nothing.                                                        *)
(*                                                                         *)
(* Each repository has one pull request.  Its versions on the forge are    *)
(* numbered; a webhook or a listing is the number of the version it        *)
(* carries, and a head is named by the version that brought it.  The clock *)
(* counts half seconds: the poller's times are finer than the forge's,     *)
(* which are whole seconds.  What ReviewJob says of a review is here one   *)
(* step, its end; forks, filters and disabled repositories are left out.   *)
(***************************************************************************)
EXTENDS Integers, Sequences, FiniteSets

CONSTANTS Lookback,       \* polling.lookback, in half seconds
          MaxAutoReviews, \* the repository's maxAutoReviews, 0 for no limit
          IntakeBounds    \* what may happen in a behaviour, see IntakeBound

\* The account's repositories, changes on the forge, half seconds that pass,
\* calls that fail or come twice, gestures of maintainers, whether reviews end.
IntakeBound == [repos : Nat, changes : Nat, ticks : Nat, faults : Nat, gestures : Nat,
                reviews : BOOLEAN]

ASSUME IntakeAssumption ==
    Lookback \in Nat /\ MaxAutoReviews \in Nat /\ IntakeBounds \subseteq IntakeBound

VARIABLES
    now,        \* the clock
    hist,       \* the pull requests' versions on the forge
    mail,       \* webhooks on their way
    row,        \* pull_requests, what the forge said
    auto,       \* pull_requests, paused and auto_reviews
    queued,     \* heads whose review job waits or runs
    kept,       \* heads whose review job is done and not yet cleaned by River
    reviewed,   \* heads with a completed, with a skipped and with a failed review
    polled,     \* poll_state.last_polled_at
    poll,       \* the poll under way
    cut,        \* history: some poll looked back less far than the last one
    room        \* what may still happen

forgeSide  == <<now, hist>>
jobRows    == <<queued, kept, reviewed>>
pollSide   == <<polled, poll, cut>>
intakeVars == <<forgeSide, mail, row, auto, jobRows, pollSide, room>>

Repo == 1..room.repos

Never  == -1
NoRow  == [head |-> 0, open |-> FALSE, at |-> Never]
NoPoll == [at |-> 0, started |-> 0, since |-> 0, first |-> FALSE, seen |-> 0, skipped |-> FALSE]

\* The forge's time of an instant.
Stamp(t) == t - (t % 2)

Last(r)    == Len(hist[r])
Current(r) == hist[r][Last(r)]
Heads(r)   == {hist[r][v].head : v \in DOMAIN hist[r]}

IntakeTypeOK ==
    /\ now \in Nat
    /\ \A r \in Repo :
        /\ \A v \in DOMAIN hist[r] :
            /\ hist[r][v].event \in {"push", "edit", "close", "reopen"} /\ hist[r][v].open \in BOOLEAN
            /\ hist[r][v].head \in 1..v /\ hist[r][v].split \in BOOLEAN
            /\ hist[r][v].when <= now /\ (v > 1 => hist[r][v-1].when <= hist[r][v].when)
        /\ row[r].head \in Heads(r) \cup {0} /\ row[r].open \in BOOLEAN
        /\ row[r].at \in {Never} \cup {Stamp(hist[r][v].when) : v \in DOMAIN hist[r]}
        /\ auto[r] \in [paused : BOOLEAN, count : Nat]
        /\ queued[r] \subseteq Heads(r) /\ kept[r] \subseteq Heads(r) \ queued[r]
        /\ reviewed[r] \subseteq Heads(r) \X {"completed", "skipped", "failed"}
    /\ \A m \in mail : m[1] \in Repo /\ m[2] \in DOMAIN hist[m[1]]
    /\ polled \in {Never} \cup 0..now
    /\ poll.at \in 0..room.repos + 1 /\ (poll.seen # 0 => poll.at \in Repo /\ poll.seen \in DOMAIN hist[poll.at])
    /\ cut \in BOOLEAN /\ room \in IntakeBound

IntakeInit ==
    /\ room \in IntakeBounds /\ now = 0
    /\ hist = [r \in Repo |-> <<[event |-> "push", head |-> 1, open |-> TRUE, when |-> 0, split |-> FALSE]>>]
    /\ mail = {} /\ row = [r \in Repo |-> NoRow]
    /\ auto = [r \in Repo |-> [paused |-> FALSE, count |-> 0]]
    /\ queued = [r \in Repo |-> {}] /\ kept = queued /\ reviewed = queued
    /\ polled = Never /\ poll = NoPoll /\ cut = FALSE

Spend(what) == room[what] > 0 /\ room' = [room EXCEPT ![what] = @ - 1]

-----------------------------------------------------------------------------
(* The forge. *)

Tick ==
    /\ Spend("ticks") /\ now' = now + 1
    /\ UNCHANGED <<hist, mail, row, auto, jobRows, pollSide>>

\* A poll began earlier in this second, by the forge's clock.
MidSecond == \E s \in {polled} \cup (IF poll.at = 0 THEN {} ELSE {poll.started}) : Stamp(now) < s

\* Someone pushes to the pull request, edits, closes or reopens it: a webhook
\* is sent, which may be lost, or arrive late, or twice.
Change(r, event) ==
    LET head == IF event = "push" THEN Last(r) + 1 ELSE Current(r).head IN
    /\ (event = "reopen") = ~Current(r).open
    /\ Spend("changes")
    /\ hist' = [hist EXCEPT ![r] = Append(@, [event |-> event, head |-> head, open |-> event # "close",
                                               when |-> now, split |-> MidSecond])]
    /\ mail' = mail \cup {<<r, Last(r) + 1>>}
    /\ UNCHANGED <<now, row, auto, jobRows, pollSide>>

-----------------------------------------------------------------------------
(* The dispatcher. *)

\* UpsertPullRequest and ClosePullRequest leave the row alone when the forge
\* changed the pull request after the event.
Fresh(r, at) == row[r].head = 0 \/ at >= row[r].at

\* Outcomes that settle a head, for a webhook and for a poll.
ReviewedStatuses == {"completed"}
SettledStatuses  == {"completed", "skipped"}

HeadUnasked(r, head, settled) == FALSE
HeadReviewed(r, head, settled) == \E how \in settled : <<head, how>> \in reviewed[r]

\* A head no review has settled is queued, unless the pull request is paused
\* or River has a job for it.
Queues(r, head, settled) ==
    ~auto[r].paused /\ ~HeadReviewed(r, head, settled) /\ head \notin kept[r]

\* An event that records the pull request as version v has it, and may start
\* a review.
PullRequest(r, v, starts, settled) ==
    LET pr == hist[r][v]
        at == Stamp(pr.when)
    IN
    /\ row' = IF Fresh(r, at) THEN [row EXCEPT ![r] = [head |-> pr.head, open |-> pr.open, at |-> at]] ELSE row
    /\ queued' = IF Fresh(r, at) /\ starts /\ Queues(r, pr.head, settled)
                 THEN [queued EXCEPT ![r] = @ \cup {pr.head}] ELSE queued

ClosePullRequest(r, v) ==
    LET at == Stamp(hist[r][v].when) IN
    /\ row' = IF row[r].head # 0 /\ Fresh(r, at) THEN [row EXCEPT ![r].open = FALSE, ![r].at = at] ELSE row
    /\ UNCHANGED queued

\* A webhook is delivered, and may be delivered again.
Deliver(m) ==
    LET event == hist[m[1]][m[2]].event IN
    /\ IF event = "close" THEN ClosePullRequest(m[1], m[2])
       ELSE PullRequest(m[1], m[2], event \in {"push", "reopen"}, ReviewedStatuses)
    /\ \/ mail' = mail \ {m} /\ UNCHANGED room
       \/ UNCHANGED mail /\ Spend("faults")
    /\ UNCHANGED <<forgeSide, auto, kept, reviewed, pollSide>>

\* The forge could not deliver it, or its dispatch failed: nothing retries.
Lose(m) ==
    /\ mail' = mail \ {m}
    /\ UNCHANGED <<forgeSide, row, auto, jobRows, pollSide, room>>

-----------------------------------------------------------------------------
(* Automatic reviews, and those who pause and resume them. *)

\* CountAutoReview: the review that reaches the limit pauses the pull request.
Counted(a) ==
    [paused |-> a.paused \/ (MaxAutoReviews > 0 /\ a.count + 1 >= MaxAutoReviews), count |-> a.count + 1]

Done(r, head, how) ==
    /\ queued' = [queued EXCEPT ![r] = @ \ {head}]
    /\ reviewed' = [reviewed EXCEPT ![r] = @ \cup {<<head, how>>}]
    /\ kept' = [kept EXCEPT ![r] = @ \cup {head}]

\* A review job ends: superseded without a result when the row has another
\* head, skipped, completed and counted, or failed, before or after the
\* count.  The job is done in each case, and River keeps its row, and with it
\* its unique key.
ReviewEnds(r, head) ==
    /\ head \in queued[r] /\ room.reviews
    /\ \/ /\ head # row[r].head
          /\ queued' = [queued EXCEPT ![r] = @ \ {head}]
          /\ kept' = [kept EXCEPT ![r] = @ \cup {head}]
          /\ UNCHANGED <<auto, reviewed, room>>
       \/ /\ head = row[r].head
          /\ \/ Done(r, head, "completed") /\ auto' = [auto EXCEPT ![r] = Counted(@)] /\ UNCHANGED room
             \/ Done(r, head, "failed") /\ auto' = [auto EXCEPT ![r] = Counted(@)] /\ Spend("faults")
             \/ Done(r, head, "failed") /\ UNCHANGED auto /\ Spend("faults")
             \/ Done(r, head, "skipped") /\ UNCHANGED <<auto, room>>
    /\ UNCHANGED <<forgeSide, mail, row, pollSide>>

\* River removes finished jobs a day after they ended.
CleanJob(r, head) ==
    /\ head \in kept[r]
    /\ kept' = [kept EXCEPT ![r] = @ \ {head}]
    /\ UNCHANGED <<forgeSide, mail, row, auto, queued, reviewed, pollSide, room>>

Keepcount(pause, count) == count

\* Resuming starts the count of automatic reviews over.
Recount(pause, count) == IF pause THEN count ELSE 0

\* A maintainer's "@<bot> pause" or "@<bot> resume".
PausePullRequest(r, pause) ==
    /\ row[r].head # 0 /\ auto[r].paused # pause /\ Spend("gestures")
    /\ auto' = [auto EXCEPT ![r] = [paused |-> pause, count |-> Recount(pause, @.count)]]
    /\ UNCHANGED <<forgeSide, mail, row, jobRows, pollSide>>

-----------------------------------------------------------------------------
(* The poll, by the leader, one at a time, one repository after the other. *)

Later(a, b) == IF a >= b THEN a ELSE b

\* The account became known at 0.
PollStarts ==
    /\ poll.at = 0
    /\ poll' = [NoPoll EXCEPT !.at = 1, !.started = now, !.first = polled = Never,
                              !.since = Later(polled, now - Lookback)]
    /\ cut' = (cut \/ now - Lookback > Later(polled, 0))
    /\ UNCHANGED <<forgeSide, mail, row, auto, jobRows, polled, room>>

ListsAfter(r) == Current(r).open /\ Stamp(Current(r).when) > poll.since

\* ListOpenPullRequests: those open that changed since.
Lists(r) == Current(r).open /\ Stamp(Current(r).when) >= poll.since

\* A repository is listed; one the forge will not answer for is skipped.
PollLists ==
    /\ poll.at \in Repo /\ poll.seen = 0
    /\ \/ /\ poll' = IF Lists(poll.at) THEN [poll EXCEPT !.seen = Last(poll.at)] ELSE [poll EXCEPT !.at = @ + 1]
          /\ UNCHANGED room
       \/ poll' = [poll EXCEPT !.at = @ + 1, !.skipped = TRUE] /\ Spend("faults")
    /\ UNCHANGED <<forgeSide, mail, row, auto, jobRows, polled, cut>>

\* What was listed goes to the dispatcher: recorded and not reviewed, when
\* this is the account's first poll and the pull request older than it.
PollDispatches ==
    /\ poll.seen # 0
    /\ PullRequest(poll.at, poll.seen, ~poll.first \/ Stamp(hist[poll.at][poll.seen].when) > 0, SettledStatuses)
    /\ poll' = [poll EXCEPT !.at = @ + 1, !.seen = 0]
    /\ UNCHANGED <<forgeSide, mail, auto, kept, reviewed, polled, cut, room>>

RecordsAlways == poll.started
Records == IF poll.skipped THEN polled ELSE poll.started

\* RecordPoll, unless a repository was skipped.
PollEnds ==
    /\ poll.at = room.repos + 1
    /\ polled' = Records
    /\ poll' = NoPoll
    /\ UNCHANGED <<forgeSide, mail, row, auto, jobRows, cut, room>>

\* A poll that outlasts its interval is cut, and one whose dispatch fails or
\* whose leader dies ends there: the poll state stays where it was.
PollCut ==
    /\ poll.at # 0 /\ Spend("faults")
    /\ poll' = NoPoll
    /\ UNCHANGED <<forgeSide, mail, row, auto, jobRows, polled, cut>>

-----------------------------------------------------------------------------
Polling == PollStarts \/ PollLists \/ PollDispatches \/ PollEnds

IntakeNext ==
    \/ Tick
    \/ \E r \in Repo :
        \/ \E event \in {"push", "edit", "close", "reopen"} : Change(r, event)
        \/ \E head \in Heads(r) : ReviewEnds(r, head) \/ CleanJob(r, head)
        \/ \E pause \in BOOLEAN : PausePullRequest(r, pause)
    \/ \E m \in mail : Deliver(m) \/ Lose(m)
    \/ Polling
    \/ PollCut

\* The leader polls for ever.
IntakeSpec == IntakeInit /\ [][IntakeNext]_intakeVars /\ WF_intakeVars(Polling)

-----------------------------------------------------------------------------
(* Properties *)

\* The last version shares its second with an earlier one: the two webhooks
\* are told apart by nothing, and the row may have either.
Tied(r) == \E v \in 1..Last(r) - 1 : Stamp(hist[r][v].when) = Stamp(Current(r).when)

\* The row knows the pull request's current head.
UpToDate(r) == row[r].head = Current(r).head

\* What polling is for (poller.go): once a poll is recorded, the pull request
\* of every repository is known as it last changed before that poll began,
\* however its webhooks were lost, late or repeated, and though a repository
\* was skipped by one poll or the next was cut.  Left out are changes in the
\* second a recorded poll began in, ties, and gaps longer than the lookback.
PollMissesNothing ==
    \A r \in Repo :
        Current(r).open /\ Current(r).when < polled /\ ~Current(r).split /\ ~Tied(r) /\ ~cut => UpToDate(r)

\* "A delivery that arrives late or again cannot rewind the head"
\* (store/pulls.go): a head once recorded gives way only to a later one.
HeadNeverRewinds == [][\A r \in Repo : row'[r].head >= row[r].head]_intakeVars

\* A head whose automatic review completed is not queued again: not by a
\* webhook delivered twice, a reopening or a poll that lists the pull request
\* for some other change, and not once River has cleaned the job whose unique
\* key stood for it (ingest/service.go, HeadReviewed).
ReviewedHeadStaysDone ==
    \A r \in Repo : \A head \in queued[r] : <<head, "completed">> \notin reviewed[r]

\* A pull request that has had its maxAutoReviews gets no other one queued
\* until a maintainer resumes it, which starts the count over, though reviews
\* queued before may still complete, or fail after they were counted.
NoMoreAfterPause ==
    [][\A r \in Repo : MaxAutoReviews > 0 /\ auto[r].count >= MaxAutoReviews => queued'[r] \subseteq queued[r]]_intakeVars

\* Automatic reviews are neither repeated nor more than were allowed.
AutomaticReviewsCounted == []ReviewedHeadStaysDone /\ NoMoreAfterPause

\* The review a head is owed is queued or was, unless the pull request is
\* paused, or stood as it is when the account became known.
Accounted(r) ==
    \/ Current(r).head \in queued[r] \cup kept[r]
    \/ \E how \in {"completed", "skipped", "failed"} : <<Current(r).head, how>> \in reviewed[r]
    \/ auto[r].paused \/ Stamp(Current(r).when) = 0

\* Whatever happens to the webhooks, the poll in the end records the head of
\* every open pull request and has it reviewed.
HeadCatchesUp ==
    <>[](\A r \in Repo :
            Current(r).open /\ ~Current(r).split /\ ~Tied(r) /\ ~cut => UpToDate(r) /\ Accounted(r))
====
