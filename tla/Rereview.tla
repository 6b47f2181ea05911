---- MODULE Rereview ----
(***************************************************************************)
(* What one review builds on (internal/worker/review.go, incremental.go    *)
(* and agentic.go, internal/review/scope.go, internal/runner).  Heads of   *)
(* one pull request are pushed, rebased and merged into while its jobs     *)
(* work: a job may find its head superseded, its repository disabled or a  *)
(* bot's patch unchanged; else it starts a review on the last completed    *)
(* one, and its runner decides whether that review covers the whole pull   *)
(* request, or what changed since, or is skipped.                          *)
(*                                                                         *)
(* A tree gives each path its version; a diff is the paths whose versions  *)
(* differ.  How a review publishes is Publish's subject, how its job dies  *)
(* and is retried ReviewJob's: here it is published, or fails.             *)
(***************************************************************************)
EXTENDS Integers, Sequences, FiniteSets, SequencesExt

CONSTANTS Path, Version,
          Doc,             \* .kritika.yaml's: is the repository enabled, which paths it ignores
          MaxDeltaFiles,   \* incremental.maxDeltaFiles
          MaxChangedLines, \* maxChangedLines, in changed paths
          RereviewBounds

Docs == [enabled : BOOLEAN, ignore : SUBSET Path]

\* Pushes, commits to the base branch, re-runs asked for, faults.
RereviewBound == [pushes : Nat, commits : Nat, reruns : Nat, faults : Nat]

ASSUME RereviewAssumption ==
    /\ Doc \subseteq Docs /\ Doc # {} /\ 0 \in Version
    /\ MaxDeltaFiles \in Nat /\ MaxChangedLines \in Nat
    /\ RereviewBounds \subseteq RereviewBound

VARIABLES
    bot,     \* is its author a bot?
    base,    \* the base branch's last commit
    head,    \* the pull request's head, and where it left the base branch
    work,    \* its review jobs
    reviews, \* its reviews, in the order they were created
    rest     \* what may still happen

rereviewVars == <<bot, base, head, work, reviews, rest>>

Tree == [Path -> Version]
Commit == [tree : Tree, doc : Docs]
PullHead == [n : Nat, tree : Tree, base : Commit]
Nothing == "nothing"
NoPatch == {<<>>} \* "", which no diff has
Triggers == {"synchronize", "manual"}

RereviewTypeOK ==
    /\ bot \in BOOLEAN /\ base \in Commit /\ head \in PullHead /\ rest \in RereviewBound
    /\ \A j \in DOMAIN work :
          /\ work[j].head \in PullHead /\ work[j].trigger \in Triggers
          /\ work[j].at \in {"queued", "begun", "started", "told", "ran", "prepared", "over"}
          /\ work[j].review \in 0..Len(reviews)
    /\ \A r \in DOMAIN reviews :
          /\ reviews[r].head \in PullHead /\ reviews[r].prior \in 0..(r - 1) /\ reviews[r].looked \subseteq Path
          /\ reviews[r].status \in {"running", "prepared", "completed", "superseded", "skipped", "failed"}

Job(h, trigger) == [head |-> h, trigger |-> trigger, at |-> "queued", ignore |-> {}, forge |-> NoPatch,
                    unchanged |-> NoPatch, review |-> 0, pack |-> Nothing]

RereviewInit ==
    /\ bot \in BOOLEAN
    /\ base \in {[tree |-> [p \in Path |-> 0], doc |-> d] : d \in Doc}
    /\ \E p \in Path, v \in Version \ {0} :
          head = [n |-> 1, tree |-> [base.tree EXCEPT ![p] = v], base |-> base]
    /\ work = <<Job(head, "synchronize")>> /\ reviews = <<>>
    /\ rest \in RereviewBounds

UseUp(what) == rest[what] > 0 /\ rest' = [rest EXCEPT ![what] = @ - 1]

-----------------------------------------------------------------------------
(* Git *)

Changed(from, to) == {p \in Path : from[p] # to[p]}
Diff(h)           == Changed(h.base.tree, h.tree)
PatchID(h)        == {<<p, h.base.tree[p], h.tree[p]>> : p \in Diff(h)}

NewHead(h) ==
    /\ h # head /\ head' = [h EXCEPT !.n = head.n + 1]
    /\ work' = Append(work, Job(head', "synchronize"))
    /\ UNCHANGED <<bot, base, reviews>>

\* A commit, or a force push.
Push == UseUp("pushes") /\ \E t \in Tree : NewHead([head EXCEPT !.tree = t])

\* A rebase on the base branch, or a merge of it: what only one side
\* changed is that side's.
Rebase ==
    /\ UseUp("pushes")
    /\ NewHead([head EXCEPT !.base = base,
                            !.tree = [p \in Path |-> IF p \in Diff(head) THEN head.tree[p] ELSE base.tree[p]]])

BaseCommit ==
    /\ UseUp("commits")
    /\ \/ \E p \in Path, v \in Version : base' = [base EXCEPT !.tree[p] = v]
       \/ \E d \in Doc : base' = [base EXCEPT !.doc = d]
    /\ base' # base
    /\ UNCHANGED <<bot, head, work, reviews>>

-----------------------------------------------------------------------------
(* The jobs *)

Ongoing(j)        == work[j].at # "over"
Of(j)          == work[j].review
Advance(j, place) == work' = [work EXCEPT ![j].at = place]
Leave(j)       == work' = [work EXCEPT ![j] = [Job(@.head, @.trigger) EXCEPT !.at = "over"]]
Superseded(j)  == work[j].head.n # head.n

\* Someone asks for the head's review again; one at work is not joined by another.
Rerun ==
    /\ UseUp("reruns") /\ \A j \in DOMAIN work : Ongoing(j) => Superseded(j)
    /\ work' = Append(work, Job(head, "manual"))
    /\ UNCHANGED <<bot, base, head, reviews>>

Row(j, status, why) ==
    [head |-> work[j].head, ignore |-> work[j].ignore, status |-> status, why |-> why, prior |-> 0, scope |-> Nothing,
     looked |-> {}, patch |-> NoPatch, forge |-> work[j].forge]

DedupesBotPatch(j) == bot /\ work[j].trigger # "manual"

\* The newest review that counts, other than r; 0 for none.
LatestReview(r, counts) ==
    Max({0} \cup {s \in DOMAIN reviews \ {r} : reviews[s].status \in counts})

AnyLastPatch(r, field) ==
    LET last == LatestReview(r, {"prepared", "completed", "failed", "skipped"}) IN IF last = 0 THEN NoPatch ELSE reviews[last][field]

LastPatch(r, field) ==
    LET last == LatestReview(r, {"prepared", "completed"}) IN IF last = 0 THEN NoPatch ELSE reviews[last][field]

\* An ended review that never ran.
End(j, row) == reviews' = Append(reviews, row) /\ Leave(j)

\* What .kritika.yaml says at the head's merge base; 'told' is whether the
\* forge gave the pull request's diff.
Begin(j, told) ==
    LET h == work[j].head
        forge == IF DedupesBotPatch(j) /\ told THEN PatchID(h) ELSE NoPatch
    IN /\ work[j].at = "queued"
       /\ CASE Superseded(j)         -> End(j, Row(j, "superseded", ""))
            [] ~h.base.doc.enabled   -> End(j, Row(j, "skipped", "disabled"))
            [] forge # NoPatch /\ forge = LastPatch(0, "forge") ->
                  End(j, [Row(j, "skipped", "unchanged") EXCEPT !.forge = forge])
            [] OTHER -> /\ work' = [work EXCEPT ![j].at = "begun", ![j].ignore = h.base.doc.ignore, ![j].forge = forge]
                        /\ UNCHANGED reviews
       /\ UNCHANGED <<bot, base, head>>

Begins(j) == Begin(j, TRUE) /\ UNCHANGED rest
BeginsUntold(j) == DedupesBotPatch(j) /\ Begin(j, FALSE) /\ UseUp("faults")

LastPrepared == LatestReview(0, {"prepared", "completed"})
LastCompleted == LatestReview(0, {"completed"})

Start(j) ==
    /\ work[j].at = "begun"
    /\ reviews' = Append(reviews, [Row(j, "running", "") EXCEPT !.prior = LastCompleted])
    /\ work' = [work EXCEPT ![j].at = "started", ![j].review = Len(reviews) + 1]
    /\ UNCHANGED <<bot, base, head, rest>>

AgentPrompt(j) ==
    /\ work[j].at = "started"
    /\ work' = [work EXCEPT ![j].at = "told", ![j].unchanged = IF DedupesBotPatch(j) THEN LastPatch(Of(j), "patch") ELSE NoPatch]
    /\ UNCHANGED <<bot, base, head, reviews, rest>>

-----------------------------------------------------------------------------
(* The runner *)

DecideBlindly(hasPrior, sameHead, fetched, deltaFiles) ==
    IF hasPrior /\ ~sameHead /\ deltaFiles < MaxDeltaFiles THEN "incremental" ELSE "full"

DecideScope(hasPrior, sameHead, fetched, deltaFiles) ==
    IF hasPrior /\ ~sameHead /\ fetched /\ deltaFiles < MaxDeltaFiles THEN "incremental" ELSE "full"

AllIgnored(ignore, changed) == changed # {} /\ changed \subseteq ignore

AgentSkip(j, patch) ==
    LET changed == Diff(work[j].head) IN
    CASE work[j].unchanged # NoPatch /\ patch = work[j].unchanged -> "unchanged"
      [] AllIgnored(work[j].ignore, changed) -> "only_skipped_paths"
      [] work[j].trigger # "manual" /\ Cardinality(changed \ work[j].ignore) > MaxChangedLines -> "too_large"
      [] OTHER -> ""

\* 'fetched' is whether the prior head could be had.  The agent of an
\* incremental review reports what the lines changed since show; the delta
\* of a head that was not fetched is empty.
Runner(j, fetched) ==
    LET h     == work[j].head
        prior == reviews[Of(j)].prior
        delta == IF prior # 0 /\ fetched THEN Changed(reviews[prior].head.tree, h.tree) \ work[j].ignore ELSE {}
        scope == DecideScope(prior # 0, prior # 0 /\ reviews[prior].head.n = h.n, fetched, Cardinality(delta))
    IN /\ work[j].at = "told"
       /\ work' = [work EXCEPT ![j].at = "ran", ![j].pack =
              [patch |-> PatchID(h), skip |-> AgentSkip(j, PatchID(h)), scope |-> scope,
               looked |-> Diff(h) \cap (IF scope = "full" THEN Path \ work[j].ignore ELSE delta)]]
       /\ UNCHANGED <<bot, base, head, reviews>>

Runs(j) == Runner(j, TRUE) /\ UNCHANGED rest
RunsUnfetched(j) == work[j].at = "told" /\ reviews[Of(j)].prior # 0 /\ Runner(j, FALSE) /\ UseUp("faults")

AfterRun(j) ==
    LET r == Of(j)  pack == work[j].pack IN
    /\ work[j].at = "ran"
    /\ CASE Superseded(j) ->
              reviews' = [reviews EXCEPT ![r].status = "superseded"] /\ Leave(j)
         [] ~Superseded(j) /\ pack.skip # "" ->
              /\ reviews' = [reviews EXCEPT ![r].status = "skipped", ![r].why = pack.skip, ![r].patch = pack.patch]
              /\ Leave(j)
         [] OTHER ->
              /\ reviews' = [reviews EXCEPT ![r].status = "prepared", ![r].patch = pack.patch, ![r].scope = pack.scope,
                                            ![r].looked = pack.looked]
              /\ Advance(j, "prepared")
    /\ UNCHANGED <<bot, base, head, rest>>

EndReview(j, status) ==
    /\ reviews' = [reviews EXCEPT ![Of(j)].status = status]
    /\ Leave(j) /\ UNCHANGED <<bot, base, head>>

Publish(j) == work[j].at = "prepared" /\ EndReview(j, "completed") /\ UNCHANGED rest

\* A run that fails, a publish that fails, a job that dies.
Fail(j) == Ongoing(j) /\ Of(j) # 0 /\ EndReview(j, "failed") /\ UseUp("faults")

RereviewNext ==
    \/ Push \/ Rebase \/ BaseCommit \/ Rerun
    \/ \E j \in DOMAIN work :
          \/ Begins(j) \/ BeginsUntold(j) \/ Start(j) \/ AgentPrompt(j) \/ Runs(j) \/ RunsUnfetched(j)
          \/ AfterRun(j) \/ Publish(j) \/ Fail(j)

RereviewSpec == RereviewInit /\ [][RereviewNext]_rereviewVars

-----------------------------------------------------------------------------
(* Correctness *)

\* The completed reviews r builds on, and itself.
Chain(r) ==
    LET back[s \in 0..Len(reviews)] ==
            IF s = 0 THEN {} ELSE {s} \cup (IF reviews[s].scope = "incremental" THEN back[reviews[s].prior] ELSE {})
    IN back[r]

\* Nothing of a reviewed head was left for another review to look at that
\* never did: each path it changes was looked at, as it stands, by the
\* completed review or by one it builds on, unless the base branch's copy of
\* the path, or what is ignored, moved between them.
ReviewedHeadIsCovered ==
    \A r \in DOMAIN reviews : reviews[r].status = "completed" =>
        \A p \in Diff(reviews[r].head) \ reviews[r].ignore :
            \/ \E c \in Chain(r) : /\ reviews[c].status = "completed" /\ p \in reviews[c].looked
                                   /\ reviews[c].head.tree[p] = reviews[r].head.tree[p]
            \/ \E c \in Chain(r) : \/ reviews[c].head.base.tree[p] # reviews[r].head.base.tree[p]
                                   \/ p \in reviews[c].ignore

\* A bot's patch is skipped as unchanged only when a review of that very
\* patch got past its runner.
SkippedPatchWasReviewed ==
    \A r \in DOMAIN reviews : reviews[r].status = "skipped" /\ reviews[r].why = "unchanged" =>
        \E s \in DOMAIN reviews : reviews[s].scope # Nothing /\ PatchID(reviews[s].head) = PatchID(reviews[r].head)

\* What a review leaves out another one saw.
LeftOutWasSeen == ReviewedHeadIsCovered /\ SkippedPatchWasReviewed
====
