---- MODULE MCReviews ----
(***************************************************************************)
(* What the reviews of one pull request leave behind, for TLC: on the      *)
(* forge (Publish), for the next review to build on (Rereview), of what    *)
(* they asked a model (Transcript), and of what it answered (Answers).     *)
(* The four share no state, so each behaviour is of one of them, the part. *)
(***************************************************************************)
EXTENDS Publish, Rereview, Transcript, Answers

VARIABLE part

\* A blocking finding and a nit, in a pull request whose reviews come one
\* after the other while people act and calls fail, or come two at a time; an
\* answer may have two findings of a fingerprint where calls fail most.
Unpublished == [reviews |-> 0, atOnce |-> 1, gestures |-> 0, faults |-> 0, alike |-> 1, nits |-> FALSE]
Serial      == [reviews |-> 3, atOnce |-> 1, gestures |-> 2, faults |-> 1, alike |-> 1, nits |-> FALSE]
Busy        == [reviews |-> 3, atOnce |-> 1, gestures |-> 3, faults |-> 0, alike |-> 1, nits |-> TRUE]
Faulty      == [reviews |-> 3, atOnce |-> 1, gestures |-> 1, faults |-> 2, alike |-> 2, nits |-> FALSE]
Concurrent  == [reviews |-> 2, atOnce |-> 2, gestures |-> 1, faults |-> 1, alike |-> 1, nits |-> FALSE]
Paired      == [Concurrent EXCEPT !.gestures = 0, !.alike = 2]
MCBounds    == {Unpublished, Serial, Busy, Faulty, Concurrent, Paired}

\* Two files, of which one may be ignored; two more pushes and a failure, or
\* a commit to the base branch; a re-run of a head that failed.
MCPath    == {1, 2}
MCVersion == {0, 1}
Plain     == [enabled |-> TRUE, ignore |-> {}]
MCDoc     == {Plain, [Plain EXCEPT !.ignore = {2}], [Plain EXCEPT !.enabled = FALSE]}
AtRest    == [pushes |-> 0, commits |-> 0, reruns |-> 0, faults |-> 0]
Pushed    == [AtRest EXCEPT !.pushes = 2, !.faults = 1]
Rebased   == [AtRest EXCEPT !.pushes = 2, !.commits = 1]
Rerunning == [AtRest EXCEPT !.pushes = 1, !.reruns = 1, !.faults = 1]
MCRereviewBounds == {AtRest, Pushed, Rebased, Rerunning}

\* A run of four calls of which a row or a replica is lost, and one whose
\* calls are sent again.
Unsaid == [steps |-> 0, faults |-> 0, retries |-> 0]
MCTranscriptBounds == {Unsaid, [Unsaid EXCEPT !.steps = 4, !.faults = 1, !.retries = 1],
                               [Unsaid EXCEPT !.steps = 3, !.retries = 2]}

\* Two reviews of up to two findings, with a push and a dismissal: of every
\* severity, on lines shown and not, ranges and insertions, and ones that no
\* review may post.
Remark == [path |-> 1, line |-> 2, end |-> 0, severity |-> "nit", category |-> "tests", title |-> "t",
           fix |-> TRUE, code |-> "none", rules |-> <<>>]
MCReported ==
    {[Remark EXCEPT !.severity = "blocking", !.category = "security", !.end = 3, !.code = "replace", !.rules = <<"r", "r">>],
     [Remark EXCEPT !.severity = "important", !.line = 1, !.end = 3, !.code = "replace"],
     [Remark EXCEPT !.title = "u", !.end = 2, !.code = "insert", !.rules = <<"s">>],
     [Remark EXCEPT !.category = "correctness", !.path = 2, !.fix = FALSE],
     [Remark EXCEPT !.severity = "grave"], [Remark EXCEPT !.title = ""]}
MCDiffs   == {{<<1, 2>>, <<1, 3>>, <<2, 2>>}, {<<1, 1>>, <<1, 3>>, <<2, 2>>}}
MCOptions == {[requireFix |-> FALSE, focused |-> FALSE], [requireFix |-> TRUE, focused |-> TRUE]}
Unasked   == [reviews |-> 0, pushes |-> 0, dismissals |-> 0]
MCAnswerBounds == {Unasked, [reviews |-> 2, pushes |-> 1, dismissals |-> 1]}

\* The pull request while another part is looked at.
Untouched == ~bot /\ base.doc = Plain /\ head.tree[1] # 0
Unreported == diff = {<<1, 2>>, <<1, 3>>, <<2, 2>>} /\ ~options.focused

Init ==
    /\ part \in {"publish", "rereview", "transcript", "answers"}
    /\ PublishInit    /\ (part = "publish")    = (left # Unpublished)
    /\ RereviewInit   /\ (part = "rereview")   = (rest # AtRest)  /\ (part = "rereview" \/ Untouched)
    /\ TranscriptInit /\ (part = "transcript") = (slack # Unsaid)
    /\ AnswersInit    /\ (part = "answers")    = (ahead # Unasked) /\ (part = "answers" \/ Unreported)

Next ==
    \/ part = "publish"    /\ PublishNext    /\ UNCHANGED <<rereviewVars, transcriptVars, answerVars, part>>
    \/ part = "rereview"   /\ RereviewNext   /\ UNCHANGED <<publishVars, transcriptVars, answerVars, part>>
    \/ part = "transcript" /\ TranscriptNext /\ UNCHANGED <<publishVars, rereviewVars, answerVars, part>>
    \/ part = "answers"    /\ AnswersNext    /\ UNCHANGED <<publishVars, rereviewVars, transcriptVars, part>>

Spec == Init /\ [][Next]_<<publishVars, rereviewVars, transcriptVars, answerVars, part>>

TypeOK == PublishTypeOK /\ RereviewTypeOK /\ TranscriptTypeOK /\ AnswersTypeOK
====
