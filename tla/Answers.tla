------------------------------ MODULE Answers ------------------------------
(***************************************************************************)
(* What becomes of the findings an agent submits (review/findings.go,      *)
(* worker/publish.go, worker/incremental.go): Parse keeps those that can   *)
(* be posted on the lines the diff shows, the summary lists those the diff *)
(* does not show, counts the rest, and says which of the last review's     *)
(* findings are resolved; the review approves, or withdraws.  Heads are    *)
(* pushed and findings dismissed while reviews are under way.              *)
(*                                                                         *)
(* A line is its path and its number; a finding's code is what it would    *)
(* put for its lines, "replace" where it gives an insertion as well.  How  *)
(* the forge and the rows are written is Publish's subject: there a        *)
(* finding is its fingerprint.                                             *)
(***************************************************************************)
EXTENDS Integers, Sequences, FiniteSets, Orders

CONSTANTS
    Diffs,        \* the lines a head's diff may show
    Reported,     \* the findings an agent may submit
    MaxReported,  \* how many at once
    Options,      \* the settings a review is parsed under
    RuleGiven,    \* the ids of the rules an agent is given
    AnswerBounds

\* Reviews, pushes and dismissals.
AnswerBound == [reviews : Nat, pushes : Nat, dismissals : Nat]

\* A finding as an agent writes it; paths are numbers, for their order.
Report == [path : Nat, line : Int, end : Int, severity : STRING, category : STRING, title : STRING,
           code : {"none", "replace", "insert"}, fix : BOOLEAN, rules : Seq(STRING)]

ASSUME AnswersAssumption ==
    /\ Reported \subseteq Report /\ MaxReported \in Nat
    /\ Options \subseteq [requireFix : BOOLEAN, focused : BOOLEAN]
    /\ AnswerBounds \subseteq AnswerBound

VARIABLES
    diff,      \* the lines the head's diff shows
    options,   \* the repository's settings
    review,    \* the review under way, or the last one
    latest,    \* the last completed review's findings
    waived,    \* fingerprints of the findings maintainers dismissed
    ahead      \* what may still happen
answerVars == <<diff, options, review, latest, waived, ahead>>

Severities == <<"blocking", "important", "nit">>
Categories == {"correctness", "security", "performance", "reliability", "maintainability", "tests"}
FocusedCategories == {"correctness", "security", "reliability"}
NoReviewYet == [stage |-> "none"]

AnswersTypeOK ==
    /\ diff \in Diffs /\ options \in Options /\ ahead \in AnswerBound
    /\ review.stage \in {"none", "asked", "published"}
    /\ \A f \in Elements(latest) : f.severity \in Elements(Severities)

AnswersInit ==
    /\ diff \in Diffs /\ options \in Options
    /\ review = NoReviewYet /\ latest = <<>> /\ waived = {}
    /\ ahead \in AnswerBounds

-----------------------------------------------------------------------------
(* Parse *)

\* Fingerprint: the path and the title, whatever the line
Fingerprint(f) == <<f.path, f.title>>
Fingerprints(findings) == {Fingerprint(f) : f \in Elements(findings)}

\* Anchors: the lines the diff shows
Anchored(path, line) == <<path, line>> \in diff
RankOf(severity) == CHOOSE i \in DOMAIN Severities : Severities[i] = severity

\* Why a finding is dropped, the first reason there is; "kept" if none
DropReason(f) ==
    IF f.severity \notin Elements(Severities) THEN "bad_severity"
    ELSE IF f.category \notin Categories THEN "bad_category"
    ELSE IF options.focused /\ f.category \notin FocusedCategories THEN "outside_minimal"
    ELSE IF f.line <= 0 \/ f.title = "" THEN "incomplete"
    ELSE IF options.requireFix /\ ~f.fix /\ f.code = "none" THEN "no_suggested_fix"
    ELSE IF ~Anchored(f.path, f.line) THEN "unanchored"
    ELSE "kept"

\* An insertion becomes a replacement of its line; a range that the diff does
\* not show as a whole is cleared with its replacement, the finding kept.
InsertedAt(f) == IF f.code = "insert" THEN [f EXCEPT !.end = 0, !.code = "replace"] ELSE f
Ranged(f) == IF f.end <= f.line THEN [f EXCEPT !.end = 0] ELSE f
RangeEndsShown(f) ==
    IF f.end # 0 /\ ~Anchored(f.path, f.end) THEN [f EXCEPT !.end = 0, !.code = "none"] ELSE f
RangeShown(f) ==
    IF \E l \in f.line + 1 .. f.end : ~Anchored(f.path, l) THEN [f EXCEPT !.end = 0, !.code = "none"] ELSE f

\* citedRules: those the agent was given, once each
CitedRules(cited) ==
    Picked(cited, {i \in DOMAIN cited : cited[i] \in RuleGiven /\ \A j \in 1 .. i - 1 : cited[j] # cited[i]})

Clean(f) == RangeShown(Ranged(InsertedAt(f)))

\* Most severe first, then by path and line; ties as submitted
Before(f, g) ==
    \/ RankOf(f.severity) < RankOf(g.severity)
    \/ /\ f.severity = g.severity
       /\ f.path < g.path \/ (f.path = g.path /\ f.line < g.line)
Stably(s) == {p \in (DOMAIN s) \X (DOMAIN s) :
                 Before(s[p[1]], s[p[2]]) \/ (p[1] < p[2] /\ ~Before(s[p[2]], s[p[1]]))}
Sorted(s) == Arranged(s, Stably(s))

\* What is dropped for one of the reasons, or kept
Reasons == {"bad_severity", "bad_category", "outside_minimal", "incomplete", "no_suggested_fix", "unanchored"}
WithReason(submitted, reasons) ==
    Picked(submitted, {i \in DOMAIN submitted : DropReason(submitted[i]) \in reasons})
Cleaned(s) == [i \in DOMAIN s |-> Clean(s[i])]
Parse(submitted) == Sorted(Cleaned(WithReason(submitted, {"kept"})))

-----------------------------------------------------------------------------
(* The reviews *)

AheadOf(what) == ahead[what] > 0 /\ ahead' = [ahead EXCEPT ![what] = @ - 1]

\* dropDismissed, of the dismissals the review began with
DropWaived(findings, gone) == Picked(findings, {i \in DOMAIN findings : Fingerprint(findings[i]) \notin gone})

\* The job starts: it reads the last completed review and the dismissals.
AskReview ==
    /\ review.stage # "asked" /\ AheadOf("reviews")
    /\ review' = [stage |-> "asked", prior |-> DropWaived(latest, waived), waived |-> waived]
    /\ UNCHANGED <<diff, options, latest, waived>>

\* splitDropped: listed in the summary, or counted in a note
Unanchored(submitted) == WithReason(submitted, {"unanchored"})
Counted(submitted) == WithReason(submitted, Reasons \ {"unanchored"})

\* priorFindings, resolvedThreads: resolved, as no finding that is kept has its
\* fingerprint.  One the agent reported off the diff, or was never asked for
\* as the prompt had no room, is among them.
ResolvedOf(prior, findings) ==
    {f \in Elements(prior) : Fingerprint(f) \notin Fingerprints(findings)}

\* Counts.Approvable, and approve
ApprovableOf(findings) == \A f \in Elements(findings) : f.severity = "nit"

\* The agent submits a review that Check accepts, and it is published, as one
\* that builds on the last review or not.
Submit ==
    /\ review.stage = "asked"
    /\ \E n \in 0 .. MaxReported, builds \in BOOLEAN : \E said \in [1 .. n -> Reported] :
          LET submitted == [i \in 1 .. n |-> [said[i] EXCEPT !.rules = CitedRules(@)]]
              parsed == Parse(submitted)
              kept == DropWaived(parsed, review.waived)
          IN /\ review' = [stage |-> "published", waived |-> review.waived,
                           submitted |-> submitted, parsed |-> parsed, kept |-> kept,
                           waivedAgain |-> Len(parsed) - Len(kept),
                           unanchored |-> Unanchored(submitted), counted |-> Len(Counted(submitted)),
                           resolved |-> IF builds THEN ResolvedOf(review.prior, kept) ELSE {},
                           approved |-> ApprovableOf(kept), shown |-> diff]
             /\ latest' = kept
    /\ UNCHANGED <<diff, options, waived, ahead>>

\* A push supersedes the review under way.
PushHead ==
    /\ AheadOf("pushes")
    /\ diff' \in Diffs \ {diff}
    /\ review' = IF review.stage = "asked" THEN NoReviewYet ELSE review
    /\ UNCHANGED <<options, latest, waived>>

\* A maintainer dismisses a finding that has a thread.
Dismiss ==
    /\ AheadOf("dismissals")
    /\ \E f \in Elements(latest) : waived' = waived \cup {Fingerprint(f)}
    /\ UNCHANGED <<diff, options, review, latest>>

AnswersNext == AskReview \/ Submit \/ PushHead \/ Dismiss
AnswersSpec == AnswersInit /\ [][AnswersNext]_answerVars

-----------------------------------------------------------------------------
(* Properties *)

\* Every finding that was submitted is kept, on lines the diff shows, listed
\* in the summary, or counted there with the reason or as dismissed: none is
\* lost, and none twice.  A suggestion is only offered for lines the diff
\* shows, all of them; a rule is only cited that the agent was given; what is
\* most severe is first.  What is told as resolved is neither what maintainers
\* had dismissed when the review began nor what the agent reported again on
\* lines the diff shows, though it be dismissed while the review is under way.
AnswersAccountedFor ==
    review.stage = "published" =>
        LET kept == Elements(review.kept)
        IN /\ Len(review.submitted) =
                Len(review.kept) + review.waivedAgain + Len(review.unanchored) + review.counted
           /\ \A f \in kept :
                /\ \A l \in {f.line} \cup f.line .. f.end : <<f.path, l>> \in review.shown
                /\ f.code # "insert" /\ Elements(f.rules) \subseteq RuleGiven
                /\ Cardinality(Elements(f.rules)) = Len(f.rules)
                /\ Fingerprint(f) \notin review.waived
           /\ \A i, j \in DOMAIN review.kept :
                i < j => RankOf(review.kept[i].severity) <= RankOf(review.kept[j].severity)
           /\ \A f \in review.resolved :
                Fingerprint(f) \notin review.waived \cup Fingerprints(review.parsed)

\* docs/repository-config.md:103 says that with approve "a review that finds
\* nothing blocking or important approves the pull request": so what approves
\* lists neither, on lines the diff shows or not.
ApprovalFindsNothing ==
    review.stage = "published" /\ review.approved =>
        \A f \in Elements(review.kept) \cup Elements(review.unanchored) : f.severity = "nit"
=============================================================================
