-------------------------- MODULE ReviewJobProofs --------------------------
(***************************************************************************)
(* Proofs about ReviewJob for any number of jobs, heads, attempts,         *)
(* disturbances and failed calls: type correctness, and the module's       *)
(* safety properties.                                                      *)
(*                                                                         *)
(* They rest on one inductive invariant, Sound: how River's state, the     *)
(* attempt's number and the worker's place fit together (QueueOK), which   *)
(* rows may exist and which must be unfinished (RowsOK), and what the      *)
(* leader's list may still hold by the time it is acted on (ListOK).       *)
(* Three more are kept by the steps that keep Sound: RestOK (nothing is    *)
(* left unfinished at rest), SpendSound (what each step of a run leaves of *)
(* it, and the failed calls that took), and HeadOK with AnswerOK (who owes *)
(* a pending head its answer).                                             *)
(***************************************************************************)
EXTENDS ReviewJob, TLAPS

\* The steps of an attempt that has not started its review.
Fresh == {"begin", "admit", "retsnooze"}

QueueOK ==
    \A j \in Job :
        /\ pc[j] = "idle" <=> jstate[j] # "running"
        /\ jstate[j] = "absent" => attempt[j] = 0
        /\ jstate[j] \in {"available", "retryable", "scheduled"} => attempt[j] < MaxAttempts
        /\ jstate[j] = "running" => attempt[j] > 0

RowsOK ==
    \A j \in Job :
        /\ \A n \in Attempt :
            n > attempt[j] \/ (n = attempt[j] /\ pc[j] \in Fresh)
                => rev[j][n] = None /\ run[j][n] = None
        /\ pc[j] \in InReview => rev[j][attempt[j]] \in Unfinished

\* The runs the leader has listed and not ended yet.
Listed == lruns \cup (IF lpc \in {"revoke", "endrun"} THEN lcur ELSE {})

ListOK ==
    \A r \in Listed :
        /\ r[2] <= attempt[r[1]]
        /\ jstate[r[1]] = "running" => r[2] < attempt[r[1]]

Sound == QueueOK /\ RowsOK /\ ListOK /\ OneUnfinishedPerJob

USE FirstHeadAssumption, AttemptsAssumption, BudgetAssumption

-----------------------------------------------------------------------------
(* Type correctness.  It needs QueueOK: an attempt's number stays within   *)
(* its bounds only because River fetches no job that has used them up.     *)

LEMMA TypeInit == Init => TypeOK
  BY DEF Init, TypeOK, PrTyped, JobTyped, WorkTyped, RowTyped, StatusTyped, LeadTyped, BoundTyped,
     LiveStates, EndStates, PC, None, EarlyEnds, Attempt

\* What is left alone keeps its type.
LEMMA TypeKept ==
  /\ PrTyped /\ UNCHANGED prVars => PrTyped'
  /\ JobTyped /\ UNCHANGED jobVars => JobTyped'
  /\ WorkTyped /\ UNCHANGED workVars => WorkTyped'
  /\ RowTyped /\ UNCHANGED rowVars => RowTyped'
  /\ StatusTyped /\ UNCHANGED statusVars => StatusTyped'
  /\ LeadTyped /\ UNCHANGED leadVars => LeadTyped'
  /\ BoundTyped /\ UNCHANGED bounds => BoundTyped'
<1>1. PrTyped /\ UNCHANGED prVars => PrTyped'
  BY DEF PrTyped, prVars
<1>2. JobTyped /\ UNCHANGED jobVars => JobTyped'
  BY DEF JobTyped, jobVars
<1>3. WorkTyped /\ UNCHANGED workVars => WorkTyped'
  BY DEF WorkTyped, workVars
<1>4. RowTyped /\ UNCHANGED rowVars => RowTyped'
  BY DEF RowTyped, rowVars
<1>5. StatusTyped /\ UNCHANGED statusVars => StatusTyped'
  BY DEF StatusTyped, statusVars
<1>6. LeadTyped /\ UNCHANGED leadVars => LeadTyped'
  BY DEF LeadTyped, leadVars
<1>7. BoundTyped /\ UNCHANGED bounds => BoundTyped'
  BY DEF BoundTyped, bounds
<1> QED BY <1>1, <1>2, <1>3, <1>4, <1>5, <1>6, <1>7

LEMMA SpendTyped ==
  ASSUME BoundTyped, Fault \/ (\E d \in Disturbance : Spend(d)) \/ UNCHANGED bounds
  PROVE  BoundTyped'
  BY DEF BoundTyped, Fault, Spend, bounds

LEMMA InsertTyped ==
  ASSUME JobTyped, NEW h \in HeadSHA, NEW b \in BOOLEAN, Insert(h, b)
  PROVE  JobTyped'
  BY DEF JobTyped, Insert, LiveStates

LEMMA ReportTyped ==
  ASSUME StatusTyped, BoundTyped, NEW h \in HeadSHA,
         \/ Lose(h) /\ UNCHANGED bounds
         \/ \E s \in {"pending", "success", "error"} : Report(h, s)
         \/ UNCHANGED <<statusVars, bounds>>
  PROVE  StatusTyped' /\ BoundTyped'
<1>1. BoundTyped'
  BY DEF Report, Fault, BoundTyped, bounds
<1>2. StatusTyped'
  BY DEF Report, Lose, StatusTyped, statusVars
<1> QED BY <1>1, <1>2

LEMMA TypeForge ==
  ASSUME TypeOK, Forge
  PROVE  TypeOK'
<1> USE DEF TypeOK
<1>1. CASE Push
  <2>1. PICK h \in HeadSHA \ {head} :
          /\ head' = h /\ former' = former \cup {head}
          /\ IF Reviewed(h) \/ Duplicate(h) THEN UNCHANGED jobVars ELSE Insert(h, FALSE)
    BY <1>1 DEF Push
  <2>2. PrTyped'
    BY <1>1, <2>1 DEF Push, PrTyped
  <2>3. JobTyped'
    BY <2>1, InsertTyped, TypeKept
  <2>4. BoundTyped'
    BY <1>1, SpendTyped DEF Push, Disturbance
  <2> QED BY <1>1, <2>2, <2>3, <2>4, TypeKept DEF Push
<1>2. CASE Redeliver \/ Poll
  <2>1. head \in HeadSHA
    BY DEF PrTyped
  <2>2. JobTyped'
    BY <1>2, <2>1, InsertTyped DEF Redeliver, Poll
  <2> QED BY <1>2, <2>2, TypeKept DEF Redeliver, Poll
<1>3. CASE Rerun
  <2>1. head \in HeadSHA
    BY DEF PrTyped
  <2>2. JobTyped'
    BY <1>3, <2>1, InsertTyped DEF Rerun
  <2>3. BoundTyped'
    BY <1>3, SpendTyped DEF Rerun, Disturbance
  <2> QED BY <1>3, <2>2, <2>3, TypeKept DEF Rerun
<1> QED BY <1>1, <1>2, <1>3 DEF Forge

LEMMA TypeQueue ==
  ASSUME TypeOK, QueueOK, NEW j \in Job, Queue(j)
  PROVE  TypeOK'
<1> USE DEF TypeOK
<1>1. CASE Fetch(j)
  <2>1. JobTyped'
    BY <1>1 DEF Fetch, JobTyped, QueueOK, LiveStates
  <2>2. WorkTyped'
    BY <1>1 DEF Fetch, WorkTyped, PC, InWork, Beginning
  <2>3. PrTyped' /\ RowTyped' /\ StatusTyped' /\ LeadTyped' /\ BoundTyped'
    BY <1>1, TypeKept DEF Fetch
  <2> QED BY <2>1, <2>2, <2>3
<1>2. CASE Finish(j)
  <2>1. Outcome(j) \in LiveStates \cup EndStates
    BY <1>2 DEF Finish, Outcome, Returned, LiveStates, EndStates
  <2>2. attempt[j] \in 1..MaxAttempts
    BY <1>2 DEF Finish, JobTyped, QueueOK, Returned
  <2>3. JobTyped'
    BY <1>2, <2>1, <2>2 DEF Finish, JobTyped
  <2>4. WorkTyped'
    BY <1>2 DEF Finish, WorkTyped, PC
  <2>5. StatusTyped'
    BY <1>2 DEF Finish, StatusTyped, JobTyped
  <2>6. PrTyped' /\ RowTyped' /\ LeadTyped' /\ BoundTyped'
    BY <1>2, TypeKept DEF Finish
  <2> QED BY <2>3, <2>4, <2>5, <2>6
<1>3. CASE RequestCancel(j)
  <2>1. JobTyped'
    BY <1>3 DEF RequestCancel, JobTyped, EndStates
  <2>2. StatusTyped'
    BY <1>3 DEF RequestCancel, StatusTyped, JobTyped
  <2>3. BoundTyped'
    BY <1>3, SpendTyped DEF RequestCancel, Disturbance
  <2>4. PrTyped' /\ WorkTyped' /\ RowTyped' /\ LeadTyped'
    BY <1>3, TypeKept DEF RequestCancel
  <2> QED BY <2>1, <2>2, <2>3, <2>4
<1> QED BY <1>1, <1>2, <1>3 DEF Queue

LEMMA TypeDisturb ==
  ASSUME TypeOK, NEW j \in Job,
         Disturb(j) \/ \E n \in Attempt : JobEnds(j, n)
  PROVE  TypeOK'
<1> USE DEF TypeOK
<1>1. CASE DeliverCancel(j) \/ Timeout(j) \/ Stop(j)
  <2>1. PICK cause \in {"canceled", "timeout", "stopping"} : EndCtx(j, cause)
    BY <1>1 DEF DeliverCancel, Timeout, Stop
  <2>2. WorkTyped'
    BY <2>1 DEF EndCtx, WorkTyped
  <2>3. BoundTyped'
    BY <1>1, SpendTyped DEF DeliverCancel, Timeout, Stop, Disturbance
  <2> QED BY <2>1, <2>2, <2>3, TypeKept DEF EndCtx
<1>2. CASE Crash(j)
  <2>1. WorkTyped'
    BY <1>2 DEF Crash, WorkTyped, PC
  <2>2. BoundTyped'
    BY <1>2, SpendTyped DEF Crash, Disturbance
  <2> QED BY <1>2, <2>1, <2>2, TypeKept DEF Crash
<1>3. CASE \E n \in Attempt : JobEnds(j, n)
  <2>1. RowTyped'
    BY <1>3 DEF JobEnds, RowTyped
  <2> QED BY <1>3, <2>1, TypeKept DEF JobEnds
<1> QED BY <1>1, <1>2, <1>3 DEF Disturb

LEMMA TypeLeaderDies ==
  ASSUME TypeOK, LeaderDies
  PROVE  TypeOK'
<1> USE DEF TypeOK
<1>1. LeadTyped'
  BY DEF LeaderDies, LeadTyped
<1>2. StatusTyped'
  BY DEF LeaderDies, StatusTyped, LeadTyped, JobTyped
<1>3. BoundTyped'
  BY SpendTyped DEF LeaderDies, Disturbance
<1>4. PrTyped' /\ JobTyped' /\ WorkTyped' /\ RowTyped'
  BY TypeKept DEF LeaderDies, LeadFrame, jobVars, workVars
<1> QED BY <1>1, <1>2, <1>3, <1>4

\* Rows keep their type when a member of one job's is replaced.
LEMMA SetTyped ==
  ASSUME NEW S, NEW f \in [Job -> [Attempt -> S]], NEW r \in Job \X Nat, NEW x \in S
  PROVE  Set(f, r, x) \in [Job -> [Attempt -> S]]
  BY DEF Set

LEMMA RowsTyped ==
  ASSUME RowTyped, NEW r \in Job \X Nat,
         \/ rev' = rev
         \/ \E x \in Unfinished \cup Finished : rev' = Set(rev, r, x)
         \/ \E i \in Job : \E g \in [Attempt -> Unfinished \cup Finished \cup {None}] :
                rev' = [rev EXCEPT ![i] = g],
         run' = run \/ run' = Set(run, r, "open") \/ run' = Set(run, r, "ended"),
         token' = token \/ \E b \in BOOLEAN : token' = Set(token, r, b),
         kube' = kube \/ \E b \in BOOLEAN : kube' = Set(kube, r, b)
  PROVE  RowTyped'
<1> USE DEF RowTyped
<1>2. rev' \in [Job -> [Attempt -> Unfinished \cup Finished \cup {None}]]
  <2>1. CASE rev' = rev
    BY <2>1
  <2>2. CASE \E x \in Unfinished \cup Finished : rev' = Set(rev, r, x)
    <3>1. PICK x \in Unfinished \cup Finished : rev' = Set(rev, r, x)
      BY <2>2
    <3>2. Set(rev, r, x) \in [Job -> [Attempt -> Unfinished \cup Finished \cup {None}]]
      BY SetTyped
    <3> QED BY <3>1, <3>2
  <2>3. CASE \E i \in Job : \E g \in [Attempt -> Unfinished \cup Finished \cup {None}] :
               rev' = [rev EXCEPT ![i] = g]
    BY <2>3
  <2> QED BY <2>1, <2>2, <2>3
<1>3. run' \in [Job -> [Attempt -> {None, "open", "ended"}]]
  <2>1. CASE run' = run
    BY <2>1
  <2>2. CASE run' = Set(run, r, "open")
    <3>1. run \in [Job -> [Attempt -> {None, "open", "ended"}]]
      BY DEF RowTyped
    <3>2. Set(run, r, "open") \in [Job -> [Attempt -> {None, "open", "ended"}]]
      BY <3>1, SetTyped
    <3> QED BY <2>2, <3>2
  <2>3. CASE run' = Set(run, r, "ended")
    <3>1. run \in [Job -> [Attempt -> {None, "open", "ended"}]]
      BY DEF RowTyped
    <3>2. Set(run, r, "ended") \in [Job -> [Attempt -> {None, "open", "ended"}]]
      BY <3>1, SetTyped
    <3> QED BY <2>3, <3>2
  <2> QED BY <2>1, <2>2, <2>3
<1>4. token' \in [Job -> [Attempt -> BOOLEAN]]
  <2>1. CASE token' = token
    BY <2>1
  <2>2. CASE \E b \in BOOLEAN : token' = Set(token, r, b)
    <3>1. PICK b \in BOOLEAN : token' = Set(token, r, b)
      BY <2>2
    <3>2. Set(token, r, b) \in [Job -> [Attempt -> BOOLEAN]]
      BY SetTyped
    <3> QED BY <3>1, <3>2
  <2> QED BY <2>1, <2>2
<1>5. kube' \in [Job -> [Attempt -> BOOLEAN]]
  <2>1. CASE kube' = kube
    BY <2>1
  <2>2. CASE \E b \in BOOLEAN : kube' = Set(kube, r, b)
    <3>1. PICK b \in BOOLEAN : kube' = Set(kube, r, b)
      BY <2>2
    <3>2. Set(kube, r, b) \in [Job -> [Attempt -> BOOLEAN]]
      BY SetTyped
    <3> QED BY <3>1, <3>2
  <2> QED BY <2>1, <2>2
<1> QED BY <1>2, <1>3, <1>4, <1>5

\* What every step of Review.Work has in common: it moves its own worker
\* and writes its attempt's own row; only a review that has started and is
\* not over is given another status, and only StartReview reaches further.
Shape(j) ==
    /\ pc[j] \in InWork
    /\ \E to \in PC \ {"idle", "dead"} : Step(j, pc[j], to)
    /\ early' = early \/ \E x \in EarlyEnds \cup {"superseded"} :
                            early' = [early EXCEPT ![jhead[j]] = @ \cup {x}]
    /\ res' = res \/ \E x \in Results : res' = [res EXCEPT ![j] = x]
    /\ \/ rev' = rev /\ (pc'[j] \in InReview => pc[j] \in InReview)
       \/ \E x \in Finished : EndReview(j, x) /\ pc[j] \in InReview /\ pc'[j] \notin InReview
       \/ EndReview(j, "prepared") /\ pc[j] \in InReview
       \/ /\ rev' = [rev EXCEPT ![j] = [EndUnfinished(j) EXCEPT ![attempt[j]] = "running"]]
          /\ pc[j] = "admit"
    /\ run' = run \/ run' = Set(run, Row(j), "open") \/ run' = Set(run, Row(j), "ended")
    /\ pc'[j] \in Fresh => pc[j] \in Fresh /\ rev' = rev /\ run' = run
    /\ token' = token \/ \E b \in BOOLEAN : token' = Set(token, Row(j), b)
    /\ kube' = kube \/ \E b \in BOOLEAN : kube' = Set(kube, Row(j), b)
    /\ \/ Lose(jhead[j]) /\ UNCHANGED bounds
       \/ \E x \in {"pending", "success", "error"} : Report(jhead[j], x)
       \/ UNCHANGED statusVars /\ (Fault \/ UNCHANGED bounds)

LEMMA ShapeTyped ==
  ASSUME TypeOK, NEW j \in Job, Shape(j)
  PROVE  TypeOK'
<1> USE DEF TypeOK
<1>1. PrTyped'
  BY DEF Shape, Step, PrTyped, JobTyped
<1>2. JobTyped' /\ LeadTyped'
  BY TypeKept DEF Shape, Step
<1>3. WorkTyped'
  BY DEF Shape, Step, WorkTyped
<1>4. RowTyped'
  <2>1. Row(j) \in Job \X Nat
    BY DEF Row, JobTyped
  <2>2. EndUnfinished(j) \in [Attempt -> Unfinished \cup Finished \cup {None}]
    BY DEF EndUnfinished, RowTyped, Finished
  <2>3. [EndUnfinished(j) EXCEPT ![attempt[j]] = "running"]
          \in [Attempt -> Unfinished \cup Finished \cup {None}]
    BY <2>2 DEF Unfinished
  <2>4. ASSUME NEW x, EndReview(j, x)
        PROVE  rev' = Set(rev, Row(j), x)
    BY <2>4 DEF EndReview, Set, Row
  <2>5. \/ rev' = rev
        \/ \E x \in Unfinished \cup Finished : rev' = Set(rev, Row(j), x)
        \/ \E i \in Job : \E g \in [Attempt -> Unfinished \cup Finished \cup {None}] :
             rev' = [rev EXCEPT ![i] = g]
    BY <2>3, <2>4 DEF Shape, Unfinished
  <2> QED BY <2>1, <2>5, RowsTyped DEF Shape
<1>5. StatusTyped' /\ BoundTyped'
  <2>1. jhead[j] \in HeadSHA
    BY DEF JobTyped
  <2>2. CASE UNCHANGED statusVars /\ (Fault \/ UNCHANGED bounds)
    BY <2>2, TypeKept, SpendTyped
  <2>3. CASE \/ Lose(jhead[j]) /\ UNCHANGED bounds
             \/ \E x \in {"pending", "success", "error"} : Report(jhead[j], x)
    BY <2>1, <2>3, ReportTyped
  <2> QED BY <2>2, <2>3 DEF Shape
<1> QED BY <1>1, <1>2, <1>3, <1>4, <1>5

LEMMA BeginShape ==
  ASSUME TypeOK, NEW j \in Job, Begin(j)
  PROVE  Shape(j)
<1> USE DEF TypeOK, WorkTyped, Shape, Step, rowVars, statusVars, bounds,
            PC, InWork, Beginning, Returned, InReview, Launching, Judging, Ending, Published,
            Closing, Fresh
<1>1. CASE Check(j)
  BY <1>1 DEF Check
<1>2. CASE Snooze(j)
  BY <1>2 DEF Snooze
<1>3. CASE \E s \in EarlyEnds : EndEarly(j, s)
  <2>1. PICK s \in EarlyEnds : EndEarly(j, s)
    BY <1>3
  <2>2. early' = [early EXCEPT ![jhead[j]] = @ \cup {s}] /\ s \in EarlyEnds
    BY <2>1 DEF EndEarly
  <2> QED BY <2>1, <2>2 DEF EndEarly, EarlyEnds
<1>4. CASE ReportEarly(j)
  BY <1>4 DEF ReportEarly
<1>5. CASE BeginError(j)
  BY <1>5 DEF BeginError, Broken
<1>6. CASE Start(j)
  BY <1>6 DEF Start
<1> QED BY <1>1, <1>2, <1>3, <1>4, <1>5, <1>6 DEF Begin

LEMMA RunnerShape ==
  ASSUME TypeOK, NEW j \in Job, Runner(j)
  PROVE  Shape(j)
<1> USE DEF TypeOK, WorkTyped, Shape, Step, rowVars, statusVars, bounds,
            PC, InWork, Beginning, Returned, InReview, Launching, Judging, Ending, Published,
            Closing, Fresh
<1>1. CASE SetPending(j)
  BY <1>1 DEF SetPending
<1>2. CASE Mint(j)
  BY <1>2 DEF Mint
<1>3. CASE SpecFails(j)
  BY <1>3 DEF SpecFails, Cut, Broken
<1>4. CASE Launch(j)
  BY <1>4 DEF Launch
<1>5. CASE LaunchFails(j)
  BY <1>5 DEF LaunchFails, Broken, Results
<1>6. CASE \E r \in Results : RunEnds(j, r)
  BY <1>6 DEF RunEnds
<1> QED BY <1>1, <1>2, <1>3, <1>4, <1>5, <1>6 DEF Runner

LEMMA JudgeShape ==
  ASSUME TypeOK, NEW j \in Job, Judge(j)
  PROVE  Shape(j)
<1> USE DEF TypeOK, WorkTyped, Shape, Step, rowVars, statusVars, bounds,
            PC, InWork, Beginning, Returned, InReview, Launching, Judging, Ending, Published,
            Closing, Fresh
<1>1. CASE Revoke(j)
  BY <1>1 DEF Revoke
<1>2. CASE Record(j)
  <2>1. Judged(j) \in {"after", "ending", "superseding", "failing"}
    BY DEF Judged
  <2> QED BY <1>2, <2>1 DEF Record
<1>3. CASE RecordFails(j)
  BY <1>3 DEF RecordFails, Fail
<1>4. CASE Supersede(j)
  BY <1>4 DEF Supersede, Finished
<1>5. CASE AfterRun(j)
  BY <1>5 DEF AfterRun, Finished
<1>6. CASE AfterRunFails(j)
  BY <1>6 DEF AfterRunFails, Broken, Cut, Fail
<1>7. CASE ReportSkip(j)
  BY <1>7 DEF ReportSkip
<1> QED BY <1>1, <1>2, <1>3, <1>4, <1>5, <1>6, <1>7 DEF Judge

LEMMA CloseShape ==
  ASSUME TypeOK, NEW j \in Job, Close(j)
  PROVE  Shape(j)
<1> USE DEF TypeOK, WorkTyped, Shape, Step, rowVars, statusVars, bounds,
            PC, InWork, Beginning, Returned, InReview, Launching, Judging, Ending, Published,
            Closing, Fresh
<1>1. CASE Publish(j)
  BY <1>1 DEF Publish, Cut
<1>2. CASE PersistFails(j)
  BY <1>2 DEF PersistFails, Cut
<1>3. CASE Complete(j)
  BY <1>3 DEF Complete, Finished
<1>4. CASE EndIncomplete(j)
  BY <1>4 DEF EndIncomplete, Finished
<1>5. CASE FinishEnded(j)
  BY <1>5 DEF FinishEnded, Fail, Finished
<1>6. CASE ReportEnded(j)
  BY <1>6 DEF ReportEnded
<1>7. CASE ReportFailed(j)
  BY <1>7 DEF ReportFailed
<1>8. CASE FailReview(j)
  BY <1>8 DEF FailReview, Fail, Finished
<1>9. CASE EndFails(j)
  BY <1>9 DEF EndFails, Fail
<1>10. CASE ReportError(j)
  BY <1>10 DEF ReportError
<1> QED BY <1>1, <1>2, <1>3, <1>4, <1>5, <1>6, <1>7, <1>8, <1>9, <1>10 DEF Close

LEMMA WorkShape ==
  ASSUME TypeOK, NEW j \in Job, Work(j)
  PROVE  Shape(j)
  BY BeginShape, RunnerShape, JudgeShape, CloseShape DEF Work

LEMMA TypeLead ==
  ASSUME TypeOK, QueueOK, Rescue
  PROVE  TypeOK'
<1> USE DEF TypeOK
<1>1. CASE ListAbandoned
  <2>1. LeadTyped'
    BY <1>1 DEF ListAbandoned, LeadTyped, Abandoned, JobTyped, QueueOK, Attempt
  <2>2. JobTyped'
    BY <1>1, TypeKept DEF ListAbandoned, LeadFrame, jobVars
  <2>3. WorkTyped'
    BY <1>1, TypeKept DEF ListAbandoned, LeadFrame, workVars
  <2> QED BY <1>1, <2>1, <2>2, <2>3, TypeKept DEF ListAbandoned, LeadFrame
<1>2. CASE \E a \in ljobs : RescueJob(a)
  <2>1. PICK a \in ljobs : RescueJob(a)
    BY <1>2
  <2>2. a.job \in Job /\ a.attempt \in Attempt
    BY DEF LeadTyped
  <2>3. LeadTyped'
    BY <2>1, <2>2 DEF RescueJob, LeadTyped
  <2>4. JobTyped'
    BY <2>1, <2>2 DEF RescueJob, LeadFrame, JobTyped, RescueState, LiveStates, EndStates
  <2>5. WorkTyped'
    BY <2>1, <2>2 DEF RescueJob, LeadFrame, WorkTyped, PC
  <2>6. RowTyped'
    <3>1. EndUnfinished(a.job) \in [Attempt -> Unfinished \cup Finished \cup {None}]
      BY <2>2 DEF EndUnfinished, RowTyped, Finished
    <3> QED BY <2>1, <2>2, <3>1 DEF RescueJob, RowTyped
  <2> QED BY <2>1, <2>3, <2>4, <2>5, <2>6, TypeKept DEF RescueJob, LeadFrame
<1>3. CASE ReportRescued
  <2>1. PICK r \in lcur : Report(jhead[r[1]], "error")
    BY <1>3 DEF ReportRescued
  <2>2. jhead[r[1]] \in HeadSHA
    BY DEF LeadTyped, JobTyped
  <2>3. StatusTyped' /\ BoundTyped'
    BY <2>1, <2>2, ReportTyped
  <2>4. LeadTyped'
    BY <1>3 DEF ReportRescued, LeadTyped
  <2>5. JobTyped' /\ WorkTyped'
    BY <1>3, TypeKept DEF ReportRescued, LeadFrame, jobVars, workVars
  <2> QED BY <1>3, <2>3, <2>4, <2>5, TypeKept DEF ReportRescued, LeadFrame
<1>4. CASE ListOrphaned
  <2>1. LeadTyped'
    BY <1>4 DEF ListOrphaned, LeadTyped, Orphaned
  <2>2. JobTyped' /\ WorkTyped'
    BY <1>4, TypeKept DEF ListOrphaned, LeadFrame, jobVars, workVars
  <2> QED BY <1>4, <2>1, <2>2, TypeKept DEF ListOrphaned, LeadFrame
<1>5. CASE \E r \in lruns : DeleteRun(r)
  <2>1. PICK r \in lruns : DeleteRun(r)
    BY <1>5
  <2>2. r \in Job \X Nat
    BY DEF LeadTyped, Attempt
  <2>3. RowTyped'
    BY <2>1, <2>2, RowsTyped DEF DeleteRun
  <2>4. LeadTyped'
    BY <2>1 DEF DeleteRun, LeadTyped
  <2>5. JobTyped' /\ WorkTyped'
    BY <2>1, TypeKept DEF DeleteRun, LeadFrame, jobVars, workVars
  <2> QED BY <2>1, <2>3, <2>4, <2>5, TypeKept DEF DeleteRun, LeadFrame
<1>6. CASE RevokeOrphaned
  <2>1. PICK r \in lcur : token' = Set(token, r, FALSE)
    BY <1>6 DEF RevokeOrphaned
  <2>2. r \in Job \X Nat
    BY DEF LeadTyped, Attempt
  <2>3. RowTyped'
    BY <1>6, <2>1, <2>2, RowsTyped DEF RevokeOrphaned
  <2>4. LeadTyped'
    BY <1>6 DEF RevokeOrphaned, LeadTyped
  <2>5. JobTyped' /\ WorkTyped'
    BY <1>6, TypeKept DEF RevokeOrphaned, LeadFrame, jobVars, workVars
  <2> QED BY <1>6, <2>3, <2>4, <2>5, TypeKept DEF RevokeOrphaned, LeadFrame
<1>7. CASE EndOrphanedRun
  <2>1. PICK r \in lcur : run' = Set(run, r, "ended") /\ rev' = EndParent(r)
    BY <1>7 DEF EndOrphanedRun
  <2>2. r \in Job \X Nat
    BY DEF LeadTyped, Attempt
  <2>3. rev' = rev \/ \E x \in Unfinished \cup Finished : rev' = Set(rev, r, x)
    BY <2>1 DEF EndParent, Finished
  <2>4. RowTyped'
    BY <1>7, <2>1, <2>2, <2>3, RowsTyped DEF EndOrphanedRun
  <2>5. LeadTyped'
    BY <1>7 DEF EndOrphanedRun, NextRun, LeadTyped
  <2>6. JobTyped' /\ WorkTyped'
    BY <1>7, TypeKept DEF EndOrphanedRun, LeadFrame, jobVars, workVars
  <2> QED BY <1>7, <2>4, <2>5, <2>6, TypeKept DEF EndOrphanedRun, LeadFrame
<1>8. CASE ReapFails
  <2>1. LeadTyped'
    BY <1>8 DEF ReapFails, NextRun, LeadTyped
  <2>2. BoundTyped'
    BY <1>8, SpendTyped DEF ReapFails
  <2>3. JobTyped' /\ WorkTyped'
    BY <1>8, TypeKept DEF ReapFails, LeadFrame, jobVars, workVars
  <2> QED BY <1>8, <2>1, <2>2, <2>3, TypeKept DEF ReapFails, LeadFrame
<1>9. CASE RescueFails
  <2>1. LeadTyped'
    BY <1>9 DEF RescueFails, LeadTyped
  <2>2. BoundTyped'
    BY <1>9, SpendTyped DEF RescueFails
  <2>3. JobTyped' /\ WorkTyped'
    BY <1>9, TypeKept DEF RescueFails, LeadFrame, jobVars, workVars
  <2> QED BY <1>9, <2>1, <2>2, <2>3, TypeKept DEF RescueFails, LeadFrame
<1> QED BY <1>1, <1>2, <1>3, <1>4, <1>5, <1>6, <1>7, <1>8, <1>9 DEF Rescue

LEMMA TypeNext ==
  ASSUME TypeOK, QueueOK, [Next]_vars
  PROVE  TypeOK'
<1>1. CASE Forge
  BY <1>1, TypeForge
<1>2. ASSUME NEW j \in Job, Queue(j)
      PROVE  TypeOK'
  BY <1>2, TypeQueue
<1>3. ASSUME NEW j \in Job, Disturb(j) \/ \E n \in Attempt : JobEnds(j, n)
      PROVE  TypeOK'
  BY <1>3, TypeDisturb
<1>4. ASSUME NEW j \in Job, Work(j)
      PROVE  TypeOK'
  BY <1>4, WorkShape, ShapeTyped
<1>5. CASE Rescue
  BY <1>5, TypeLead
<1>6. CASE LeaderDies
  BY <1>6, TypeLeaderDies
<1>7. CASE UNCHANGED vars
  BY <1>7, TypeKept DEF vars, TypeOK
<1> QED BY <1>1, <1>2, <1>3, <1>4, <1>5, <1>6, <1>7 DEF Next

-----------------------------------------------------------------------------
(* The inductive invariant.  Stays is what a step may do to an ended review. *)

Stays == \A j \in Job : \A n \in Attempt : rev[j][n] \in Finished => rev'[j][n] = rev[j][n]

LEMMA SoundInit == Init => Sound
  BY DEF Init, Sound, QueueOK, RowsOK, ListOK, Listed, OneUnfinishedPerJob, InReview, Launching,
     Judging, Ending, Published, Fresh, Unfinished, None, Attempt

\* A step that leaves the rows and what the leader listed alone keeps the
\* invariant if it keeps its part about the queue and the workers.
LEMMA RowsKept ==
  ASSUME rev' = rev
  PROVE  Stays /\ (OneUnfinishedPerJob => OneUnfinishedPerJob')
  BY DEF Stays, OneUnfinishedPerJob

\* A worker's step changes the rows of its own attempt only.
LEMMA OwnRows ==
  ASSUME TypeOK, NEW j \in Job, Shape(j), NEW i \in Job, i # j
  PROVE  pc'[i] = pc[i] /\ rev'[i] = rev[i] /\ run'[i] = run[i]
<1> USE DEF TypeOK, WorkTyped, RowTyped
<1>1. pc'[i] = pc[i]
  BY DEF Shape, Step
<1>2. rev'[i] = rev[i]
  BY DEF Shape, EndReview
<1>3. run'[i] = run[i]
  BY DEF Shape, Set, Row
<1> QED BY <1>1, <1>2, <1>3

LEMMA SoundWork ==
  ASSUME TypeOK, Sound, NEW j \in Job, Shape(j)
  PROVE  Sound' /\ Stays
<1> USE DEF TypeOK, WorkTyped, RowTyped, JobTyped, Sound
<1>1. attempt[j] \in Attempt /\ jstate[j] = "running"
  BY DEF Shape, QueueOK, InWork, Beginning, InReview, Launching, Judging, Ending, Published,
     Closing, Attempt
<1>2. UNCHANGED <<jobVars, leadVars>>
  BY DEF Shape, Step
<1>3. pc'[j] \in PC \ {"idle", "dead"}
  BY DEF Shape, Step
<1>4. QueueOK'
  BY <1>1, <1>2, <1>3, OwnRows DEF QueueOK, jobVars
<1>5. ListOK'
  BY <1>2 DEF ListOK, Listed, jobVars, leadVars
<1>6. \A n \in Attempt : n # attempt[j] =>
        /\ run'[j][n] = run[j][n]
        /\ \/ rev'[j][n] = rev[j][n]
           \/ rev[j][n] \in Unfinished /\ rev'[j][n] = "failed"
  <2> SUFFICES ASSUME NEW n \in Attempt, n # attempt[j]
               PROVE  /\ run'[j][n] = run[j][n]
                      /\ \/ rev'[j][n] = rev[j][n]
                         \/ rev[j][n] \in Unfinished /\ rev'[j][n] = "failed"
    OBVIOUS
  <2>1. run'[j][n] = run[j][n]
    BY <1>1 DEF Shape, Set, Row
  <2>2. ASSUME NEW x, EndReview(j, x)
        PROVE  rev'[j][n] = rev[j][n]
    BY <1>1, <2>2 DEF EndReview
  <2>3. CASE rev' = [rev EXCEPT ![j] = [EndUnfinished(j) EXCEPT ![attempt[j]] = "running"]]
    <3>1. rev'[j][n] = EndUnfinished(j)[n]
      BY <1>1, <2>3 DEF EndUnfinished
    <3> QED BY <2>1, <3>1 DEF EndUnfinished
  <2> QED BY <2>1, <2>2, <2>3 DEF Shape
<1>7. pc[j] = "admit" => rev[j][attempt[j]] = None
  BY <1>1 DEF RowsOK, Fresh
<1>8. rev[j][attempt[j]] \in Finished => rev'[j][attempt[j]] = rev[j][attempt[j]]
  BY <1>1, <1>7 DEF Shape, RowsOK, EndReview, EndUnfinished, Finished, Unfinished, None
<1>9. pc'[j] \in InReview => rev'[j][attempt[j]] \in Unfinished
  BY <1>1, <1>7 DEF Shape, RowsOK, EndReview, EndUnfinished, Unfinished
<1>10. pc'[j] \in Fresh => rev'[j][attempt[j]] = None /\ run'[j][attempt[j]] = None
  BY <1>1 DEF Shape, RowsOK
<1>11. RowsOK'
  <2> SUFFICES ASSUME NEW i \in Job
               PROVE  /\ \A n \in Attempt :
                           n > attempt[i] \/ (n = attempt[i] /\ pc'[i] \in Fresh)
                             => rev'[i][n] = None /\ run'[i][n] = None
                      /\ pc'[i] \in InReview => rev'[i][attempt[i]] \in Unfinished
    BY <1>2 DEF RowsOK, jobVars
  <2>1. CASE i # j
    BY <2>1, OwnRows DEF RowsOK
  <2>2. CASE i = j
    <3>1. pc'[j] \in InReview => rev'[j][attempt[j]] \in Unfinished
      BY <1>9
    <3>2. ASSUME NEW n \in Attempt, n > attempt[j]
          PROVE  rev'[j][n] = None /\ run'[j][n] = None
      <4>1. n # attempt[j]
        BY <3>2, <1>1 DEF Attempt
      <4>2. rev[j][n] = None /\ run[j][n] = None
        BY <3>2 DEF RowsOK
      <4> QED BY <4>1, <4>2, <1>6 DEF Unfinished, None
    <3> QED BY <2>2, <3>1, <3>2, <1>10
  <2> QED BY <2>1, <2>2
<1>12. Stays
  <2>1. \A i \in Job : \A n \in Attempt : i # j => rev'[i][n] = rev[i][n]
    BY OwnRows
  <2>2. \A n \in Attempt : rev[j][n] \in Finished => rev'[j][n] = rev[j][n]
    BY <1>6, <1>8 DEF Finished, Unfinished
  <2> HIDE DEF TypeOK, WorkTyped, RowTyped, JobTyped, Sound
  <2> QED BY <2>1, <2>2 DEF Stays
<1>13. OneUnfinishedPerJob'
  <2>0. \A i \in Job : i # j =>
          \A m, n \in Attempt : rev'[i][m] \in Unfinished /\ rev'[i][n] \in Unfinished => m = n
    BY OwnRows DEF OneUnfinishedPerJob, Unfinished
  <2>1. CASE rev' = [rev EXCEPT ![j] = [EndUnfinished(j) EXCEPT ![attempt[j]] = "running"]]
    <3>1. \A n \in Attempt : n # attempt[j] => rev'[j][n] \notin Unfinished
      BY <2>1, <1>1 DEF EndUnfinished, Unfinished
    <3>2. \A m, n \in Attempt : rev'[j][m] \in Unfinished /\ rev'[j][n] \in Unfinished => m = n
      BY <3>1
    <3> HIDE DEF TypeOK, WorkTyped, RowTyped, JobTyped, Sound
    <3> QED BY <3>2, <2>0 DEF OneUnfinishedPerJob, Unfinished
  <2>2. CASE ~(rev' = [rev EXCEPT ![j] = [EndUnfinished(j) EXCEPT ![attempt[j]] = "running"]])
    <3>1. \A n \in Attempt : rev'[j][n] \in Unfinished => rev[j][n] \in Unfinished
      BY <2>2, <1>1 DEF Shape, RowsOK, EndReview, Unfinished, Finished
    <3>2. \A m, n \in Attempt : rev'[j][m] \in Unfinished /\ rev'[j][n] \in Unfinished => m = n
      BY <3>1 DEF OneUnfinishedPerJob
    <3> HIDE DEF TypeOK, WorkTyped, RowTyped, JobTyped, Sound
    <3> QED BY <3>2, <2>0 DEF OneUnfinishedPerJob, Unfinished
  <2> QED BY <2>1, <2>2
<1> QED BY <1>4, <1>5, <1>11, <1>12, <1>13

LEMMA SoundForge ==
  ASSUME TypeOK, Sound, Forge
  PROVE  Sound' /\ Stays
<1> USE DEF TypeOK, JobTyped, Sound
<1>1. UNCHANGED <<workVars, rowVars, leadVars, attempt>>
  BY DEF Forge, Push, Redeliver, Poll, Rerun, Insert, jobVars
<1>2. \/ UNCHANGED jobVars
      \/ \E j \in Job : jstate[j] = "absent" /\ jstate' = [jstate EXCEPT ![j] = "available"]
  BY DEF Forge, Push, Redeliver, Poll, Rerun, Insert
<1>3. QueueOK'
  BY <1>1, <1>2 DEF QueueOK, jobVars, workVars
<1>4. RowsOK' /\ OneUnfinishedPerJob' /\ Stays
  BY <1>1 DEF RowsOK, OneUnfinishedPerJob, Stays, workVars, rowVars
<1>5. ListOK'
  <2>1. Listed' = Listed
    BY <1>1 DEF Listed, leadVars
  <2>2. \A r \in Listed : jstate'[r[1]] = "running" => jstate[r[1]] = "running"
    BY <1>2 DEF Listed, LeadTyped, jobVars
  <2> QED BY <1>1, <2>1, <2>2 DEF ListOK
<1> QED BY <1>3, <1>4, <1>5

LEMMA SoundQueue ==
  ASSUME TypeOK, Sound, NEW j \in Job, Queue(j)
  PROVE  Sound' /\ Stays
<1> USE DEF TypeOK, JobTyped, WorkTyped, LeadTyped, Sound
<1>1. UNCHANGED <<rowVars, leadVars>>
  BY DEF Queue, Fetch, Finish, RequestCancel
<1>2. OneUnfinishedPerJob' /\ Stays
  BY <1>1 DEF OneUnfinishedPerJob, Stays, rowVars
<1>3. CASE Fetch(j)
  <2>1. QueueOK'
    BY <1>3 DEF Fetch, QueueOK
  <2>2. RowsOK'
    BY <1>1, <1>3 DEF Fetch, RowsOK, rowVars, InReview, Launching, Judging, Ending, Published,
       Attempt
  <2>3. ListOK'
    BY <1>1, <1>3 DEF Fetch, ListOK, Listed, leadVars, Attempt
  <2> QED BY <1>2, <2>1, <2>2, <2>3
<1>4. CASE Finish(j)
  <2>1. jstate[j] = "running" /\ attempt[j] \in Attempt
    BY <1>4 DEF Finish, QueueOK, Returned, Attempt
  <2>2. /\ Outcome(j) \in EndStates \cup {"retryable", "scheduled"}
        /\ Outcome(j) = "retryable" => attempt[j] < MaxAttempts
        /\ Outcome(j) = "scheduled" => pc[j] = "retsnooze"
    <3>1. pc[j] \in {"retok", "reterr", "retsnooze"}
      BY <1>4 DEF Finish, Returned
    <3>2. Outcome(j) \in EndStates \cup {"retryable", "scheduled"}
      BY DEF Outcome, EndStates
    <3>3. Outcome(j) = "retryable" => attempt[j] < MaxAttempts
      BY <3>1 DEF Outcome
    <3>4. Outcome(j) = "scheduled" => pc[j] = "retsnooze"
      BY <3>1 DEF Outcome
    <3> QED BY <3>2, <3>3, <3>4
  <2>3. attempt'[j] = attempt[j] \/ (pc[j] = "retsnooze" /\ attempt'[j] = attempt[j] - 1)
    BY <1>4 DEF Finish
  <2>4. QueueOK'
    BY <1>4, <2>1, <2>2 DEF Finish, QueueOK, EndStates, Attempt
  <2>5. RowsOK'
    BY <1>1, <1>4, <2>1 DEF Finish, RowsOK, rowVars, Fresh, InReview, Launching, Judging,
       Ending, Published, Attempt
  <2>6. ListOK'
    BY <1>1, <1>4, <2>1, <2>2 DEF Finish, ListOK, Listed, leadVars, EndStates, Attempt
  <2> QED BY <1>2, <2>4, <2>5, <2>6
<1>5. CASE RequestCancel(j)
  <2>1. QueueOK'
    BY <1>5 DEF RequestCancel, QueueOK, workVars, LiveStates
  <2>2. RowsOK'
    BY <1>1, <1>5 DEF RequestCancel, RowsOK, rowVars, workVars
  <2>3. ListOK'
    BY <1>1, <1>5 DEF RequestCancel, ListOK, Listed, leadVars
  <2> QED BY <1>2, <2>1, <2>2, <2>3
<1> QED BY <1>3, <1>4, <1>5 DEF Queue

LEMMA SoundDisturb ==
  ASSUME TypeOK, Sound, NEW j \in Job,
         Disturb(j) \/ \E n \in Attempt : JobEnds(j, n)
  PROVE  Sound' /\ Stays
<1> USE DEF TypeOK, WorkTyped, Sound
<1>1. UNCHANGED <<jobVars, rev, run, leadVars>>
  BY DEF Disturb, DeliverCancel, Timeout, Stop, EndCtx, Crash, JobEnds, rowVars
<1>2. pc' = pc \/ (pc[j] \in InWork \cup Returned /\ pc' = [pc EXCEPT ![j] = "dead"])
  BY DEF Disturb, DeliverCancel, Timeout, Stop, EndCtx, Crash, JobEnds, workVars
<1>3. QueueOK'
  BY <1>1, <1>2 DEF QueueOK, jobVars, InWork, Beginning, InReview, Launching, Judging, Ending,
     Published, Closing, Returned
<1>4. RowsOK'
  BY <1>1, <1>2 DEF RowsOK, jobVars, Fresh, InReview, Launching, Judging, Ending, Published
<1>5. ListOK' /\ OneUnfinishedPerJob' /\ Stays
  BY <1>1 DEF ListOK, Listed, OneUnfinishedPerJob, Stays, jobVars, leadVars
<1> QED BY <1>3, <1>4, <1>5

\* A step of the leader's that changes no job, worker, review or run, and
\* lists no run anew, is harmless.
LEMMA LeadKept ==
  ASSUME Sound, UNCHANGED <<jstate, attempt, pc, rev, run>>, Listed' \subseteq Listed
  PROVE  Sound' /\ Stays
  BY DEF Sound, QueueOK, RowsOK, ListOK, OneUnfinishedPerJob, Stays

LEMMA SoundLead ==
  ASSUME TypeOK, Sound, Rescue \/ LeaderDies
  PROVE  Sound' /\ Stays
<1> USE DEF TypeOK, JobTyped, WorkTyped, RowTyped, LeadTyped, LeadFrame
<1>1. CASE \/ ListAbandoned \/ ReportRescued \/ RevokeOrphaned \/ ReapFails
           \/ RescueFails \/ LeaderDies \/ \E r \in lruns : DeleteRun(r)
  <2>1. UNCHANGED <<jstate, attempt, pc, rev, run>>
    BY <1>1 DEF ListAbandoned, ReportRescued, RevokeOrphaned, ReapFails, RescueFails, LeaderDies,
       DeleteRun,
       rowVars
  <2>2. Listed' \subseteq Listed
    BY <1>1 DEF ListAbandoned, ReportRescued, RevokeOrphaned, ReapFails, RescueFails, LeaderDies,
       DeleteRun,
       NextRun, Listed
  <2> QED BY <2>1, <2>2, LeadKept
<1>2. CASE \E a \in ljobs : RescueJob(a)
  <2>1. PICK a \in ljobs : RescueJob(a)
    BY <1>2
  <2>2. a.job \in Job /\ a.attempt \in Attempt
    OBVIOUS
  <2>3. Listed' = Listed
    BY <2>1 DEF RescueJob, Listed
  <2>4. CASE ~(jstate[a.job] = "running" /\ attempt[a.job] = a.attempt /\ pc[a.job] = "dead")
    <3>1. UNCHANGED <<jstate, attempt, pc, rev, run>>
      BY <2>1, <2>4 DEF RescueJob
    <3> QED BY <2>3, <3>1, LeadKept
  <2>5. CASE jstate[a.job] = "running" /\ attempt[a.job] = a.attempt /\ pc[a.job] = "dead"
    <3>1. /\ jstate' = [jstate EXCEPT ![a.job] = RescueState(a)]
          /\ pc' = [pc EXCEPT ![a.job] = "idle"]
          /\ rev' = [rev EXCEPT ![a.job] = EndUnfinished(a.job)]
          /\ UNCHANGED <<attempt, run>>
      BY <2>1, <2>5 DEF RescueJob
    <3>2. RescueState(a) \in {"cancelled", "retryable", "discarded"}
      BY DEF RescueState
    <3>3. RescueState(a) = "retryable" => attempt[a.job] < MaxAttempts
      BY <2>5 DEF RescueState
    <3>4. \A n \in Attempt :
            rev'[a.job][n] = IF rev[a.job][n] \in Unfinished THEN "failed" ELSE rev[a.job][n]
      BY <2>2, <3>1 DEF EndUnfinished
    <3>5. \A i \in Job : i # a.job =>
            jstate'[i] = jstate[i] /\ pc'[i] = pc[i] /\ rev'[i] = rev[i]
      BY <3>1
    <3>6. jstate'[a.job] = RescueState(a) /\ pc'[a.job] = "idle"
      BY <2>2, <3>1
    <3>7. QueueOK'
      BY <3>1, <3>2, <3>3, <3>5, <3>6 DEF Sound, QueueOK
    <3>8. RowsOK'
      <4> SUFFICES ASSUME NEW i \in Job
                   PROVE  /\ \A n \in Attempt :
                               n > attempt[i] \/ (n = attempt[i] /\ pc'[i] \in Fresh)
                                 => rev'[i][n] = None /\ run[i][n] = None
                          /\ pc'[i] \in InReview => rev'[i][attempt[i]] \in Unfinished
        BY <3>1 DEF RowsOK
      <4>1. CASE i # a.job
        BY <3>5, <4>1 DEF Sound, RowsOK
      <4>2. CASE i = a.job
        <5>1. pc'[i] \notin Fresh /\ pc'[i] \notin InReview
          BY <3>6, <4>2 DEF Fresh, InReview, Launching, Judging, Ending, Published
        <5>2. ASSUME NEW n \in Attempt, n > attempt[i]
              PROVE  rev'[i][n] = None /\ run[i][n] = None
          <6>1. rev[i][n] = None /\ run[i][n] = None
            BY <5>2 DEF Sound, RowsOK
          <6> QED BY <3>4, <4>2, <6>1 DEF Unfinished, None
        <5> QED BY <5>1, <5>2
      <4> QED BY <4>1, <4>2
    <3>9. ListOK'
      BY <2>3, <3>1, <3>2, <3>5, <3>6 DEF Sound, ListOK
    <3>10. OneUnfinishedPerJob' /\ Stays
      BY <3>4, <3>5 DEF Sound, OneUnfinishedPerJob, Stays, Unfinished, Finished
    <3> QED BY <3>7, <3>8, <3>9, <3>10 DEF Sound
  <2> QED BY <2>4, <2>5
<1>3. CASE ListOrphaned
  <2>1. UNCHANGED <<jstate, attempt, pc, rev, run>>
    BY <1>3 DEF ListOrphaned, rowVars
  <2>2. Listed' = Orphaned
    BY <1>3 DEF ListOrphaned, Listed
  <2>3. QueueOK' /\ RowsOK' /\ OneUnfinishedPerJob' /\ Stays
    BY <2>1 DEF Sound, QueueOK, RowsOK, OneUnfinishedPerJob, Stays
  <2>4. \A r \in Orphaned : r[2] <= attempt[r[1]] /\ jstate[r[1]] # "running"
    <3> SUFFICES ASSUME NEW r \in Orphaned
                 PROVE  r[2] <= attempt[r[1]] /\ jstate[r[1]] # "running"
      OBVIOUS
    <3>1. /\ r[1] \in Job /\ r[2] \in Attempt
          /\ run[r[1]][r[2]] = "open" /\ jstate[r[1]] # "running"
      BY DEF Orphaned
    <3>2. ~(r[2] > attempt[r[1]])
      BY <3>1 DEF Sound, RowsOK, None
    <3> QED BY <3>1, <3>2 DEF Attempt
  <2>5. ListOK'
    BY <2>1, <2>2, <2>4 DEF ListOK
  <2> QED BY <2>3, <2>5 DEF Sound
<1>4. CASE EndOrphanedRun
  <2>1. PICK r \in lcur : run' = Set(run, r, "ended") /\ rev' = EndParent(r)
    BY <1>4 DEF EndOrphanedRun
  <2>2. r[1] \in Job /\ r[2] \in Attempt /\ r \in Listed
    BY <1>4 DEF EndOrphanedRun, Listed
  <2>3. UNCHANGED <<jstate, attempt, pc>>
    BY <1>4 DEF EndOrphanedRun
  <2>4. Listed' \subseteq Listed
    BY <1>4 DEF EndOrphanedRun, NextRun, Listed
  <2>5. \A i \in Job, n \in Attempt :
          ~(i = r[1] /\ n = r[2]) => rev'[i][n] = rev[i][n] /\ run'[i][n] = run[i][n]
    BY <2>1, <2>2 DEF EndParent, Set
  <2>6. \/ rev'[r[1]][r[2]] = rev[r[1]][r[2]]
        \/ rev[r[1]][r[2]] \in Unfinished /\ rev'[r[1]][r[2]] = "failed"
    BY <2>1, <2>2 DEF EndParent, Set
  <2>7. QueueOK' /\ ListOK'
    BY <2>3, <2>4 DEF Sound, QueueOK, ListOK
  <2>8. r[2] <= attempt[r[1]] /\ (pc[r[1]] # "idle" => r[2] < attempt[r[1]])
    BY <2>2 DEF Sound, QueueOK, ListOK
  <2>9. RowsOK'
    <3> SUFFICES ASSUME NEW i \in Job
                 PROVE  /\ \A n \in Attempt :
                             n > attempt[i] \/ (n = attempt[i] /\ pc[i] \in Fresh)
                               => rev'[i][n] = None /\ run'[i][n] = None
                        /\ pc[i] \in InReview => rev'[i][attempt[i]] \in Unfinished
      BY <2>3 DEF RowsOK
    <3>1. ASSUME NEW n \in Attempt, n > attempt[i] \/ (n = attempt[i] /\ pc[i] \in Fresh)
          PROVE  rev'[i][n] = None /\ run'[i][n] = None
      <4>1. ~(i = r[1] /\ n = r[2])
        BY <2>2, <2>8, <3>1 DEF Fresh, Attempt
      <4> QED BY <2>5, <3>1, <4>1 DEF Sound, RowsOK
    <3>2. ASSUME pc[i] \in InReview
          PROVE  rev'[i][attempt[i]] \in Unfinished
      <4>1. attempt[i] \in Attempt
        <5>1. pc[i] # "idle"
          BY <3>2 DEF InReview, Launching, Judging, Ending, Published
        <5>2. attempt[i] > 0
          BY <5>1 DEF Sound, QueueOK
        <5> QED BY <5>2 DEF Attempt
      <4>2. ~(i = r[1] /\ attempt[i] = r[2])
        BY <2>2, <2>8, <3>2 DEF InReview, Launching, Judging, Ending, Published, Attempt
      <4> QED BY <2>5, <3>2, <4>1, <4>2 DEF Sound, RowsOK
    <3> QED BY <3>1, <3>2
  <2>10. \A i \in Job, n \in Attempt :
           \/ rev'[i][n] = rev[i][n]
           \/ rev[i][n] \in Unfinished /\ rev'[i][n] = "failed"
    BY <2>5, <2>6
  <2>11. OneUnfinishedPerJob' /\ Stays
    BY <2>10 DEF Sound, OneUnfinishedPerJob, Stays, Unfinished, Finished
  <2> QED BY <2>7, <2>9, <2>11 DEF Sound
<1> QED BY <1>1, <1>2, <1>3, <1>4 DEF Rescue

LEMMA SoundNext ==
  ASSUME TypeOK, Sound, [Next]_vars
  PROVE  Sound' /\ Stays
<1>1. CASE Forge
  BY <1>1, SoundForge
<1>2. ASSUME NEW j \in Job, Queue(j)
      PROVE  Sound' /\ Stays
  BY <1>2, SoundQueue
<1>3. ASSUME NEW j \in Job, Disturb(j) \/ \E n \in Attempt : JobEnds(j, n)
      PROVE  Sound' /\ Stays
  BY <1>3, SoundDisturb
<1>4. ASSUME NEW j \in Job, Work(j)
      PROVE  Sound' /\ Stays
  BY <1>4, WorkShape, SoundWork
<1>5. CASE Rescue \/ LeaderDies
  BY <1>5, SoundLead
<1>6. CASE UNCHANGED vars
  BY <1>6, LeadKept DEF vars, jobVars, workVars, rowVars, leadVars, Listed
<1> QED BY <1>1, <1>2, <1>3, <1>4, <1>5, <1>6 DEF Next

\* The inductive invariant holds in every state of every run.
THEOREM Inductive == Spec => [](TypeOK /\ Sound)
<1>1. Init => TypeOK /\ Sound
  BY TypeInit, SoundInit
<1>2. TypeOK /\ Sound /\ [Next]_vars => (TypeOK /\ Sound)'
  <2> SUFFICES ASSUME TypeOK, Sound, [Next]_vars
               PROVE  TypeOK' /\ Sound'
    OBVIOUS
  <2>1. TypeOK'
    BY TypeNext DEF Sound
  <2>2. Sound'
    BY SoundNext
  <2> QED BY <2>1, <2>2
<1> QED BY <1>1, <1>2, PTL DEF Spec

\* Every variable keeps its type: among others, no job is worked on more
\* than jobs.reviewAttempts attempts, whatever was rescued or snoozed.
THEOREM TypeCorrect == Spec => []TypeOK
  BY Inductive, PTL

\* A job never has two reviews that are not over, however its attempts were
\* retried, killed and rescued (StartReview, RescueJob, EndOrphanedRun).
THEOREM OneUnfinished == Spec => []OneUnfinishedPerJob
<1>1. Sound => OneUnfinishedPerJob
  BY DEF Sound
<1> QED BY <1>1, Inductive, PTL

\* What ended a review is the last word on it (EndReview, finishEnded,
\* RescueJob and EndOrphanedRun leave an ended review alone).
THEOREM StaysEnded == Spec => EndedReviewsStayEnded
<1>1. TypeOK /\ Sound /\ [Next]_vars => [Stays]_vars
  <2> SUFFICES ASSUME TypeOK, Sound, [Next]_vars
               PROVE  Stays
    OBVIOUS
  <2> QED BY SoundNext
<1>2. Spec => [][Stays]_vars
  BY <1>1, Inductive, PTL DEF Spec
<1>3. EndedReviewsStayEnded <=> [][Stays]_vars
  BY DEF EndedReviewsStayEnded, Stays
<1> QED BY <1>2, <1>3

\* The Rescuer never reaps the run of an attempt that is being worked, for
\* all that it acts on a list it read some steps ago (Rescue, reap).
THEOREM OnlyDeadReaped == Spec => []ReapOnlyDead
<1>1. TypeOK /\ Sound => ReapOnlyDead
  <2> SUFFICES ASSUME TypeOK, Sound, NEW r \in Listed,
                      attempt[r[1]] = r[2], pc[r[1]] \in InReview
               PROVE  FALSE
    BY DEF ReapOnlyDead, Listed
  <2>1. r[1] \in Job /\ r[2] \in Attempt
    BY DEF Listed, TypeOK, LeadTyped
  <2>2. jstate[r[1]] = "running"
    BY <2>1 DEF Sound, QueueOK, InReview, Launching, Judging, Ending, Published
  <2> QED BY <2>1, <2>2 DEF Sound, ListOK, Attempt
<1> QED BY <1>1, Inductive, PTL

-----------------------------------------------------------------------------
(* What nobody works on is over, while no call has failed.                 *)

\* A job nobody works on has no review that is not over.
RestOK ==
    faults = 0 =>
        \A j \in Job : pc[j] \notin InReview \cup {"dead"} =>
            \A n \in Attempt : rev[j][n] \notin Unfinished

\* A job that somebody works on, or died working on, is running.
LEMMA Worked ==
  ASSUME TypeOK, Sound, NEW j \in Job, pc[j] # "idle"
  PROVE  attempt[j] \in Attempt /\ jstate[j] = "running"
  BY DEF TypeOK, JobTyped, Sound, QueueOK, Attempt

\* Failed calls are never forgotten.
LEMMA FaultsGrow ==
  ASSUME TypeOK, [Next]_vars
  PROVE  faults \in Nat /\ faults' \in {faults, faults + 1}
<1>1. faults \in Nat
  BY DEF TypeOK, BoundTyped
<1>2. Fault \/ (\E d \in Disturbance : Spend(d)) \/ UNCHANGED bounds
      => faults' \in {faults, faults + 1}
  BY DEF Fault, Spend, bounds
<1> SUFFICES faults' \in {faults, faults + 1}
  BY <1>1
<1>3. CASE Forge
  <2>1. CASE Push \/ Rerun
    BY <1>2, <2>1 DEF Push, Rerun, Disturbance
  <2>2. CASE Redeliver \/ Poll
    BY <1>2, <2>2 DEF Redeliver, Poll
  <2> QED BY <1>3, <2>1, <2>2 DEF Forge
<1>4. ASSUME NEW j \in Job, Queue(j)
      PROVE  faults' \in {faults, faults + 1}
  BY <1>2, <1>4 DEF Queue, Fetch, Finish, RequestCancel, Disturbance
<1>5. ASSUME NEW j \in Job, Disturb(j) \/ \E n \in Attempt : JobEnds(j, n)
      PROVE  faults' \in {faults, faults + 1}
  BY <1>2, <1>5 DEF Disturb, DeliverCancel, Timeout, Stop, Crash, JobEnds, Disturbance
<1>6. ASSUME NEW j \in Job, Work(j)
      PROVE  faults' \in {faults, faults + 1}
  <2>1. Shape(j)
    BY <1>6, WorkShape
  <2>2. ASSUME NEW x, Report(jhead[j], x)
        PROVE  Fault \/ UNCHANGED bounds
    BY <2>2 DEF Report
  <2> QED BY <1>2, <2>1, <2>2 DEF Shape
<1>7. CASE Rescue
  <2>1. Fault \/ UNCHANGED bounds
    BY <1>7 DEF Rescue, ListAbandoned, RescueJob, ReportRescued, Report, ListOrphaned, DeleteRun,
       RevokeOrphaned, EndOrphanedRun, RescueFails, ReapFails
  <2> QED BY <1>2, <2>1
<1>8. CASE LeaderDies
  BY <1>8, <1>2 DEF LeaderDies, Disturbance, bounds
<1>9. CASE UNCHANGED vars
  <2>1. UNCHANGED bounds
    BY <1>9 DEF vars
  <2> QED BY <1>2, <2>1
<1> QED BY <1>1, <1>3, <1>4, <1>5, <1>6, <1>7, <1>8, <1>9 DEF Next

\* How a worker leaves its review: with the review ended, unless a call
\* failed; and what it writes before that.
Leaves(j) ==
    /\ pc[j] \in InReview /\ pc'[j] \notin InReview =>
          faults' > 0 \/ \E x \in Finished : EndReview(j, x)
    /\ pc[j] \notin InReview /\ pc'[j] \notin InReview => rev' = rev

LEMMA WorkLeaves ==
  ASSUME TypeOK, Sound, NEW j \in Job, Work(j)
  PROVE  Leaves(j)
<1> USE DEF TypeOK, WorkTyped, BoundTyped, Leaves, Step, rowVars, Fault,
            PC, InWork, Beginning, Returned, InReview, Launching, Judging, Ending, Published,
            Closing
<1>1. CASE Begin(j)
  BY <1>1 DEF Begin, Check, Snooze, EndEarly, ReportEarly, BeginError, Start
<1>2. CASE Runner(j)
  BY <1>2 DEF Runner, SetPending, Mint, SpecFails, Launch, LaunchFails, RunEnds, Cut
<1>3. CASE Revoke(j) \/ ReportSkip(j)
  BY <1>3 DEF Revoke, ReportSkip
<1>9. CASE RecordFails(j)
  BY <1>9 DEF RecordFails, Fail
<1>10. CASE AfterRunFails(j)
  BY <1>10 DEF AfterRunFails, Cut, Fail, Broken
<1>4. CASE Record(j)
  <2>1. Judged(j) \in {"after", "ending", "superseding", "failing"}
    BY DEF Judged
  <2> QED BY <1>4, <2>1 DEF Record
<1>5. CASE Supersede(j) \/ AfterRun(j)
  BY <1>5 DEF Supersede, AfterRun, Finished
<1>6. CASE Publish(j) \/ PersistFails(j) \/ Complete(j) \/ EndIncomplete(j)
  BY <1>6 DEF Publish, PersistFails, Complete, EndIncomplete, Cut, Finished
<1>7. CASE FinishEnded(j)
  <2>1. pc[j] = "ending" /\ pc'[j] \in {"errstatus", "reterr", "endstatus", "retok"}
    BY <1>7 DEF FinishEnded, Fail
  <2>2. \E x \in Finished : EndReview(j, x) \/ rev[j][attempt[j]] \notin Unfinished
    BY <1>7 DEF FinishEnded, Finished
  <2>3. rev[j][attempt[j]] \in Unfinished
    BY <2>1 DEF Sound, RowsOK
  <2> QED BY <2>1, <2>2, <2>3
<1>8. CASE ReportEnded(j) \/ ReportFailed(j) \/ FailReview(j) \/ EndFails(j) \/ ReportError(j)
  BY <1>8 DEF ReportEnded, ReportFailed, FailReview, EndFails, ReportError, Fail, Finished
<1> QED BY <1>1, <1>2, <1>3, <1>4, <1>5, <1>6, <1>7, <1>8, <1>9, <1>10 DEF Work, Judge, Close

\* Rows and workers that stay put, or a job whose reviews are all over.
LEMMA RestKept ==
  ASSUME TypeOK, RestOK, [Next]_vars,
         \A j \in Job :
            \/ rev'[j] = rev[j] /\ (pc[j] \in InReview \cup {"dead"} => pc'[j] \in InReview \cup {"dead"})
            \/ \A n \in Attempt : rev'[j][n] \notin Unfinished
  PROVE  RestOK'
<1> SUFFICES ASSUME faults' = 0, NEW j \in Job, pc'[j] \notin InReview \cup {"dead"}, NEW n \in Attempt
             PROVE  rev'[j][n] \notin Unfinished
  BY DEF RestOK, Unfinished, InReview, Launching, Judging, Ending, Published
<1>1. faults = 0
  BY FaultsGrow
<1> QED BY <1>1 DEF RestOK

LEMMA RestWork ==
  ASSUME TypeOK, Sound, RestOK, NEW j \in Job, Work(j), [Next]_vars
  PROVE  RestOK'
<1>1. Shape(j) /\ Leaves(j)
  BY WorkShape, WorkLeaves
<1>2. ASSUME NEW i \in Job, i # j
      PROVE  rev'[i] = rev[i] /\ pc'[i] = pc[i]
  BY <1>1, <1>2, OwnRows
<1>3. CASE pc'[j] \in InReview \/ (pc[j] \notin InReview /\ pc'[j] \notin InReview)
  <2> SUFFICES ASSUME faults' = 0, NEW i \in Job, pc'[i] \notin InReview \cup {"dead"}, NEW n \in Attempt
               PROVE  rev'[i][n] \notin Unfinished
    BY DEF RestOK, Unfinished, InReview, Launching, Judging, Ending, Published
  <2>1. faults = 0
    BY FaultsGrow
  <2>2. i = j => rev' = rev /\ pc[i] \notin InReview \cup {"dead"}
    BY <1>1, <1>3 DEF Leaves, Shape, InWork, Beginning, InReview, Launching, Judging, Ending,
       Published, Closing
  <2> QED BY <1>2, <2>1, <2>2 DEF RestOK
<1>4. CASE pc[j] \in InReview /\ pc'[j] \notin InReview
  <2>1. CASE faults' > 0
    BY <2>1 DEF RestOK
  <2>2. CASE \E x \in Finished : EndReview(j, x)
    <3>1. attempt[j] \in Attempt /\ rev[j][attempt[j]] \in Unfinished
      BY <1>4, Worked DEF Sound, RowsOK, InReview, Launching, Judging, Ending, Published
    <3>2. \A n \in Attempt : n # attempt[j] => rev[j][n] \notin Unfinished
      BY <3>1 DEF Sound, OneUnfinishedPerJob
    <3>3. \A n \in Attempt : rev'[j][n] \notin Unfinished
      BY <2>2, <3>1, <3>2 DEF EndReview, TypeOK, RowTyped, Finished, Unfinished
    <3> QED BY <1>2, <3>3, RestKept
  <2> QED BY <1>1, <1>4, <2>1, <2>2 DEF Leaves
<1> QED BY <1>3, <1>4

LEMMA RestNext ==
  ASSUME TypeOK, Sound, RestOK, [Next]_vars
  PROVE  RestOK'
<1> USE DEF TypeOK, WorkTyped, RowTyped, LeadTyped
<1>1. CASE Forge
  <2>1. rev' = rev /\ pc' = pc
    BY <1>1 DEF Forge, Push, Redeliver, Poll, Rerun, rowVars, workVars
  <2> QED BY <2>1, RestKept
<1>2. ASSUME NEW j \in Job, Queue(j)
      PROVE  RestOK'
  <2>1. rev' = rev /\ \A i \in Job : pc[i] \in InReview \cup {"dead"} => pc'[i] = pc[i]
    BY <1>2 DEF Queue, Fetch, Finish, RequestCancel, rowVars, workVars, Sound, QueueOK, InReview,
       Launching, Judging, Ending, Published, Returned
  <2> QED BY <2>1, RestKept
<1>3. ASSUME NEW j \in Job, Disturb(j) \/ \E n \in Attempt : JobEnds(j, n)
      PROVE  RestOK'
  <2>1. rev' = rev /\ \A i \in Job : pc'[i] \in {pc[i], "dead"}
    BY <1>3 DEF Disturb, DeliverCancel, Timeout, Stop, EndCtx, Crash, JobEnds, rowVars, workVars
  <2> QED BY <2>1, RestKept
<1>4. ASSUME NEW j \in Job, Work(j)
      PROVE  RestOK'
  BY <1>4, RestWork
<1>5. CASE \E a \in ljobs : RescueJob(a)
  <2>1. PICK a \in ljobs : RescueJob(a)
    BY <1>5
  <2>2. \/ rev' = rev /\ pc' = pc
        \/ /\ a.job \in Job /\ pc' = [pc EXCEPT ![a.job] = "idle"]
           /\ rev' = [rev EXCEPT ![a.job] = EndUnfinished(a.job)]
    BY <2>1 DEF RescueJob
  <2>3. \A n \in Attempt : EndUnfinished(a.job)[n] \notin Unfinished
    BY DEF EndUnfinished, Unfinished
  <2> QED BY <2>2, <2>3, RestKept
<1>6. CASE EndOrphanedRun
  <2>1. PICK r \in lcur : rev' = EndParent(r)
    BY <1>6 DEF EndOrphanedRun
  <2>2. pc' = pc
    BY <1>6 DEF EndOrphanedRun
  <2>3. \A i \in Job, n \in Attempt : rev'[i][n] \in Unfinished => rev[i][n] \in Unfinished
    BY <2>1 DEF EndParent, Set, Unfinished
  <2>4. faults' = 0 => faults = 0
    BY FaultsGrow
  <2> QED BY <2>2, <2>3, <2>4 DEF RestOK
<1>7. CASE ListAbandoned \/ ReportRescued \/ ListOrphaned \/ (\E r \in lruns : DeleteRun(r))
           \/ RevokeOrphaned \/ RescueFails \/ ReapFails \/ LeaderDies \/ UNCHANGED vars
  <2>1. rev' = rev /\ pc' = pc
    BY <1>7 DEF ListAbandoned, ReportRescued, ListOrphaned, DeleteRun, RevokeOrphaned, RescueFails,
       ReapFails, LeaderDies, rowVars, vars, workVars
  <2> QED BY <2>1, RestKept
<1> QED BY <1>1, <1>2, <1>3, <1>4, <1>5, <1>6, <1>7 DEF Next, Rescue

\* No review is stranded unless a call failed (Review.Work, RescueJob): every
\* way out of a review ends it first, and a death leaves it to the Rescuer.
THEOREM NoneStranded == Spec => []NoStranding
<1>1. Init => RestOK
  BY DEF Init, RestOK, Unfinished, None
<1>2. TypeOK /\ Sound /\ RestOK /\ [Next]_vars => RestOK'
  BY RestNext
<1>3. TypeOK /\ Sound /\ RestOK => NoStranding
  BY DEF RestOK, NoStranding, Sound, QueueOK, LiveStates, InReview, Launching, Judging, Ending, Published
<1> QED BY <1>1, <1>2, <1>3, Inductive, PTL DEF Spec

-----------------------------------------------------------------------------
(* What an ended run can still spend with.                                 *)

\* The steps between StartReview and the run's record.
Running == Launching \cup {"ran", "record", "recordcanceled"}

\* What is left of the current attempt's run, and how many calls that should
\* have stopped it have failed.
OwnSpend(j) ==
    LET left == kube[j][attempt[j]]
        open == token[j][attempt[j]]
    IN /\ run[j][attempt[j]] = "open"
       /\ pc[j] \in {"started", "spec"} => ~open
       /\ pc[j] \in {"started", "spec", "launch"} => ~left
       /\ pc[j] \in {"ran", "record", "recordcanceled"} => (left => faults > 0)
       /\ pc[j] \in {"record", "recordcanceled"} =>
            (open => faults > 0) /\ (open /\ left => faults > 1)

\* A run that was not started has nothing to spend with.
UnstartedSpend ==
    \A j \in Job : \A n \in Attempt :
        n > attempt[j] \/ (n = attempt[j] /\ pc[j] \in Fresh) => ~token[j][n] /\ ~kube[j][n]

\* Run n of job j cannot spend once it is ended.
Stopped(j, n) ==
    run[j][n] = "ended" =>
        /\ faults = 0 => ~kube[j][n] /\ ~token[j][n]
        /\ faults <= 1 => ~(kube[j][n] /\ token[j][n])

\* The leader handles one job or run at a time, and what it has stopped of a
\* run stays stopped.
LeadOK ==
    /\ lpc \in {"report", "revoke", "endrun"} => \E r \in lcur : lcur = {r}
    /\ lpc \in {"revoke", "endrun"} => \A r \in lcur : ~kube[r[1]][r[2]]
    /\ lpc = "endrun" => \A r \in lcur : ~token[r[1]][r[2]]

\* The inductive invariant of EndedRunCannotSpend, with Sound.
SpendSound ==
    /\ \A j \in Job : pc[j] \in Running => OwnSpend(j)
    /\ UnstartedSpend /\ LeadOK
    /\ EndedRunCannotSpend

LEMMA EndedIsStopped == EndedRunCannotSpend <=> \A j \in Job : \A n \in Attempt : Stopped(j, n)
  BY DEF EndedRunCannotSpend, Stopped

\* A step that starts, ends and keeps nothing of a row leaves it stopped.
LEMMA StoppedKept ==
  ASSUME TypeOK, [Next]_vars, NEW j \in Job, NEW n \in Attempt, Stopped(j, n), run'[j][n] = run[j][n],
         kube'[j][n] => kube[j][n], token'[j][n] => token[j][n]
  PROVE  Stopped(j, n)'
  BY FaultsGrow DEF Stopped

\* The worker's steps that touch its run.
LEMMA OwnSpendWork ==
  ASSUME TypeOK, Sound, SpendSound, NEW j \in Job, Work(j), [Next]_vars
  PROVE  /\ pc'[j] \in Running => OwnSpend(j)'
         /\ Stopped(j, attempt[j])'
<1> DEFINE a == attempt[j]
<1>1. faults \in Nat /\ faults' \in {faults, faults + 1} /\ Shape(j)
  BY FaultsGrow, WorkShape
<1>2. a \in Attempt /\ attempt' = attempt /\ pc[j] \in InWork
  BY <1>1, Worked DEF Shape, Step, jobVars, InWork, Beginning, InReview, Launching, Judging, Ending,
     Published, Closing
<1>3. /\ pc \in [Job -> PC] /\ rev \in [Job -> [Attempt -> Unfinished \cup Finished \cup {None}]]
      /\ run \in [Job -> [Attempt -> {None, "open", "ended"}]]
      /\ token \in [Job -> [Attempt -> BOOLEAN]] /\ kube \in [Job -> [Attempt -> BOOLEAN]]
  BY DEF TypeOK, WorkTyped, RowTyped
<1>4. Stopped(j, a)
  BY <1>2, EndedIsStopped DEF SpendSound
<1>5. pc[j] \in Running => OwnSpend(j)
  BY DEF SpendSound
<1>6. pc[j] \in Fresh => ~token[j][a] /\ ~kube[j][a]
  BY <1>2 DEF SpendSound, UnstartedSpend
<1> USE <1>1, <1>2, <1>3
<1> USE DEF Step, Running, Launching, Set, Row
<1>10. CASE Start(j)
  <2>1. /\ pc[j] \in Fresh /\ pc'[j] = "started"
        /\ run'[j][a] = "open" /\ token' = token /\ kube' = kube
    BY <1>10 DEF Start, Fresh
  <2> QED BY <2>1, <1>6 DEF OwnSpend, Stopped
<1>11. CASE SetPending(j)
  <2>1. pc[j] = "started" /\ pc'[j] = "spec" /\ UNCHANGED <<run, token, kube>>
    BY <1>11 DEF SetPending, rowVars
  <2> QED BY <2>1, <1>5 DEF OwnSpend, Stopped
<1>12. CASE Mint(j)
  <2>1. pc[j] = "spec" /\ pc'[j] = "launch" /\ UNCHANGED <<run, kube>>
    BY <1>12 DEF Mint
  <2> QED BY <2>1, <1>5 DEF OwnSpend, Stopped
<1>13. CASE SpecFails(j)
  <2>1. pc[j] = "spec" /\ pc'[j] \in {"failingerr", "ending"} /\ UNCHANGED <<token, kube>>
    BY <1>13 DEF SpecFails, Cut
  <2> QED BY <2>1, <1>5 DEF OwnSpend, Stopped
<1>14. CASE Launch(j)
  <2>1. pc[j] = "launch" /\ pc'[j] = "exec" /\ run' = run
    BY <1>14 DEF Launch
  <2> QED BY <2>1, <1>5 DEF OwnSpend, Stopped
<1>15. CASE LaunchFails(j)
  <2>1. pc[j] = "launch" /\ pc'[j] = "ran" /\ UNCHANGED <<run, token, kube>>
    BY <1>15 DEF LaunchFails, rowVars
  <2> QED BY <2>1, <1>5 DEF OwnSpend, Stopped
<1>16. CASE \E r \in Results : RunEnds(j, r)
  <2>1. pc[j] = "exec" /\ pc'[j] = "ran" /\ UNCHANGED <<run, token>>
    BY <1>16 DEF RunEnds
  <2>2. ~kube'[j][a] \/ faults' > 0
    BY <1>16 DEF RunEnds, Fault
  <2> QED BY <2>1, <2>2, <1>5 DEF OwnSpend, Stopped
<1>17. CASE Revoke(j)
  <2>1. pc[j] = "ran" /\ pc'[j] \in {"record", "recordcanceled"} /\ UNCHANGED <<run, kube>>
    BY <1>17 DEF Revoke
  <2>2. ~token'[j][a] \/ faults' = faults + 1
    BY <1>17 DEF Revoke, Fault
  <2> QED BY <2>1, <2>2, <1>5 DEF OwnSpend, Stopped
<1>18. CASE Record(j)
  <2>1. pc[j] \in {"record", "recordcanceled"} /\ UNCHANGED <<token, kube>>
    BY <1>18 DEF Record
  <2>2. pc'[j] \in {"after", "ending", "superseding", "failing"}
    BY <1>18 DEF Record, Judged
  <2> QED BY <2>1, <2>2, <1>5 DEF OwnSpend, Stopped
<1>19. CASE \/ Check(j) \/ Snooze(j) \/ (\E s \in EarlyEnds : EndEarly(j, s)) \/ ReportEarly(j)
            \/ BeginError(j) \/ RecordFails(j) \/ Supersede(j) \/ AfterRun(j) \/ AfterRunFails(j)
            \/ ReportSkip(j) \/ Close(j)
  <2>1. UNCHANGED <<run, token, kube>>
    BY <1>19 DEF Check, Snooze, EndEarly, ReportEarly, BeginError, RecordFails, Supersede, AfterRun,
       AfterRunFails, ReportSkip, Close, Publish, PersistFails, Complete, EndIncomplete, FinishEnded,
       ReportEnded, ReportFailed, FailReview, EndFails, ReportError, rowVars
  <2>2. pc'[j] \notin Running
    <3>1. CASE \/ Check(j) \/ Snooze(j) \/ (\E s \in EarlyEnds : EndEarly(j, s)) \/ ReportEarly(j)
               \/ BeginError(j)
      BY <3>1 DEF Check, Snooze, EndEarly, ReportEarly, BeginError
    <3>2. CASE RecordFails(j) \/ Supersede(j) \/ AfterRun(j) \/ AfterRunFails(j) \/ ReportSkip(j)
      BY <3>2 DEF RecordFails, Supersede, AfterRun, AfterRunFails, ReportSkip, Fail, Cut
    <3>3. CASE Publish(j) \/ PersistFails(j) \/ Complete(j) \/ EndIncomplete(j)
      BY <3>3 DEF Publish, PersistFails, Complete, EndIncomplete, Cut
    <3>4. CASE FinishEnded(j) \/ ReportEnded(j) \/ ReportFailed(j)
      BY <3>4 DEF FinishEnded, ReportEnded, ReportFailed, Fail
    <3>5. CASE FailReview(j) \/ EndFails(j) \/ ReportError(j)
      BY <3>5 DEF FailReview, EndFails, ReportError, Fail
    <3> QED BY <1>19, <3>1, <3>2, <3>3, <3>4, <3>5 DEF Close
  <2>3. Stopped(j, a)'
    BY <2>1, <1>4 DEF Stopped
  <2> QED BY <2>2, <2>3
<1> QED BY <1>10, <1>11, <1>12, <1>13, <1>14, <1>15, <1>16, <1>17, <1>18, <1>19 DEF Work, Begin, Runner, Judge

\* A step of somebody else leaves a running attempt as it is.
LEMMA OwnSpendKept ==
  ASSUME TypeOK, [Next]_vars, NEW j \in Job, OwnSpend(j), pc'[j] = pc[j], attempt'[j] = attempt[j],
         run'[j][attempt[j]] = run[j][attempt[j]], kube'[j][attempt[j]] => kube[j][attempt[j]],
         token'[j][attempt[j]] => token[j][attempt[j]]
  PROVE  OwnSpend(j)'
  BY FaultsGrow DEF OwnSpend

LEMMA SpendWork ==
  ASSUME TypeOK, Sound, SpendSound, NEW j \in Job, Work(j), [Next]_vars
  PROVE  SpendSound'
<1>1. Shape(j) /\ attempt' = attempt /\ UNCHANGED leadVars /\ pc[j] \in InWork
  BY WorkShape DEF Shape, Step, jobVars
<1>2. attempt[j] \in Attempt /\ jstate[j] = "running"
  BY <1>1, Worked DEF InWork, Beginning, InReview, Launching, Judging, Ending, Published, Closing
<1>3. \A i \in Job, n \in Attempt : ~(i = j /\ n = attempt[j]) =>
        run'[i][n] = run[i][n] /\ token'[i][n] = token[i][n] /\ kube'[i][n] = kube[i][n]
  BY <1>1, <1>2 DEF Shape, Set, Row, TypeOK, RowTyped
<1>4. \A i \in Job : i # j => pc'[i] = pc[i]
  BY <1>1, OwnRows
<1>5. ASSUME NEW i \in Job, pc'[i] \in Running
      PROVE  OwnSpend(i)'
  <2>1. CASE i = j
    BY <1>5, <2>1, OwnSpendWork
  <2>2. CASE i # j
    <3>1. attempt[i] \in Attempt
      BY <1>4, <1>5, <2>2, Worked DEF Running, Launching
    <3> QED BY <1>1, <1>3, <1>4, <1>5, <2>2, <3>1, OwnSpendKept DEF SpendSound
  <2> QED BY <2>1, <2>2
<1>6. UnstartedSpend'
  <2>1. pc'[j] \in Fresh => pc[j] \in Fresh /\ UNCHANGED <<token, kube>>
    <3>1. pc'[j] \in Fresh => Check(j) \/ Snooze(j)
      <4> USE DEF Step, Fresh, TypeOK, WorkTyped
      <4>1. CASE Begin(j)
        BY <4>1 DEF Begin, Check, Snooze, EndEarly, ReportEarly, BeginError, Start
      <4>2. CASE Runner(j)
        BY <4>2 DEF Runner, SetPending, Mint, SpecFails, Launch, LaunchFails, RunEnds, Cut
      <4>3. CASE Judge(j)
        BY <4>3 DEF Judge, Revoke, Record, Judged, RecordFails, Supersede, AfterRun, AfterRunFails, ReportSkip,
           Cut, Fail
      <4>4. CASE Close(j)
        BY <4>4 DEF Close, Publish, PersistFails, Complete, EndIncomplete, FinishEnded,
           ReportEnded, ReportFailed, FailReview, EndFails, ReportError, Cut, Fail
      <4> QED BY <4>1, <4>2, <4>3, <4>4 DEF Work
    <3> QED BY <1>1, <3>1 DEF Shape, Check, Snooze, rowVars
  <2>2. \A n \in Attempt : n > attempt[j] => n # attempt[j]
    BY <1>2 DEF Attempt
  <2> QED BY <1>1, <1>3, <1>4, <2>1, <2>2 DEF SpendSound, UnstartedSpend
<1>7. LeadOK'
  <2>1. UNCHANGED <<lpc, lcur>>
    BY <1>1 DEF leadVars
  <2>2. ASSUME lpc \in {"revoke", "endrun"}, NEW r \in lcur
        PROVE  r[1] \in Job /\ r[2] \in Attempt /\ ~(r[1] = j /\ r[2] = attempt[j])
    BY <1>2, <2>2 DEF Sound, ListOK, Listed, TypeOK, LeadTyped, Attempt
  <2> QED BY <1>3, <2>1, <2>2 DEF SpendSound, LeadOK
<1>8. EndedRunCannotSpend'
  <2> SUFFICES ASSUME NEW i \in Job, NEW n \in Attempt
               PROVE  Stopped(i, n)'
    BY DEF EndedRunCannotSpend, Stopped
  <2>1. CASE i = j /\ n = attempt[j]
    <3>1. Stopped(j, attempt[j])'
      BY OwnSpendWork
    <3> QED BY <1>1, <2>1, <3>1 DEF Stopped
  <2>2. CASE ~(i = j /\ n = attempt[j])
    BY <1>3, <2>2, StoppedKept, EndedIsStopped DEF SpendSound
  <2> QED BY <2>1, <2>2
<1> QED BY <1>5, <1>6, <1>7, <1>8 DEF SpendSound

\* A step that takes at most something away, of rows at rest or of others'
\* runs, and leaves the leader where it is.
LEMMA SpendKept ==
  ASSUME TypeOK, Sound, SpendSound, [Next]_vars, UNCHANGED <<run, lcur, lpc>>,
         \A j \in Job, n \in Attempt : /\ kube'[j][n] => kube[j][n]
                                       /\ token'[j][n] => token[j][n],
         \A j \in Job : \/ pc'[j] = pc[j] /\ attempt'[j] = attempt[j]
                        \/ /\ pc'[j] \notin Running
                           /\ attempt'[j] >= attempt[j] \/ (pc[j] = "retsnooze" /\ attempt'[j] = attempt[j] - 1)
                           /\ pc'[j] \in Fresh => attempt'[j] > attempt[j]
  PROVE  SpendSound'
<1>1. ASSUME NEW j \in Job, pc'[j] \in Running
      PROVE  OwnSpend(j)'
  <2>1. attempt[j] \in Attempt
    BY <1>1, Worked DEF Running, Launching
  <2> QED BY <1>1, <2>1, OwnSpendKept DEF SpendSound
<1>2. UnstartedSpend'
  <2> SUFFICES ASSUME NEW j \in Job, NEW n \in Attempt,
                      n > attempt'[j] \/ (n = attempt'[j] /\ pc'[j] \in Fresh)
               PROVE  ~token'[j][n] /\ ~kube'[j][n]
    BY DEF UnstartedSpend
  <2>1. n > attempt[j] \/ (n = attempt[j] /\ pc[j] \in Fresh)
    <3>1. attempt[j] \in Nat /\ n \in Nat
      BY DEF TypeOK, JobTyped, Attempt
    <3>2. pc[j] = "retsnooze" => pc[j] \in Fresh
      BY DEF Fresh
    <3>3. CASE pc'[j] = pc[j] /\ attempt'[j] = attempt[j]
      BY <3>3
    <3>4. CASE ~(pc'[j] = pc[j] /\ attempt'[j] = attempt[j])
      <4>1. attempt'[j] \in Nat
        BY TypeNext DEF Sound, TypeOK, JobTyped
      <4> QED BY <3>1, <3>2, <3>4, <4>1
    <3> QED BY <3>3, <3>4
  <2> QED BY <2>1 DEF SpendSound, UnstartedSpend
<1>3. LeadOK'
  BY DEF SpendSound, LeadOK, TypeOK, LeadTyped
<1>4. EndedRunCannotSpend'
  <2> SUFFICES ASSUME NEW i \in Job, NEW n \in Attempt
               PROVE  Stopped(i, n)'
    BY DEF EndedRunCannotSpend, Stopped
  <2> QED BY StoppedKept, EndedIsStopped DEF SpendSound
<1> QED BY <1>1, <1>2, <1>3, <1>4 DEF SpendSound

\* The leader's steps on the run it is reaping.
LEMMA SpendReap ==
  ASSUME TypeOK, Sound, SpendSound, [Next]_vars, NEW r \in Job \X Attempt,
         UNCHANGED <<pc, attempt>>,
         ~(attempt[r[1]] = r[2] /\ pc[r[1]] \in Running),
         \/ kube' = Set(kube, r, FALSE) /\ UNCHANGED <<run, token>>
         \/ token' = Set(token, r, FALSE) /\ UNCHANGED <<run, kube>>
         \/ run' = Set(run, r, "ended") /\ UNCHANGED <<kube, token>> /\ ~kube[r[1]][r[2]] /\ ~token[r[1]][r[2]],
         LeadOK'
  PROVE  SpendSound'
<1>1. \A j \in Job, n \in Attempt : /\ kube'[j][n] => kube[j][n]
                                    /\ token'[j][n] => token[j][n]
                                    /\ ~(j = r[1] /\ n = r[2]) => run'[j][n] = run[j][n]
  BY DEF Set, TypeOK, RowTyped
<1>2. ASSUME NEW j \in Job, pc'[j] \in Running
      PROVE  OwnSpend(j)'
  <2>1. attempt[j] \in Attempt
    BY <1>2, Worked DEF Running, Launching
  <2> QED BY <1>1, <1>2, <2>1, OwnSpendKept DEF SpendSound
<1>3. UnstartedSpend'
  BY <1>1 DEF SpendSound, UnstartedSpend
<1>4. EndedRunCannotSpend'
  <2> SUFFICES ASSUME NEW j \in Job, NEW n \in Attempt
               PROVE  Stopped(j, n)'
    BY DEF EndedRunCannotSpend, Stopped
  <2>1. CASE run'[j][n] = run[j][n]
    BY <1>1, <2>1, StoppedKept, EndedIsStopped DEF SpendSound
  <2>2. CASE run'[j][n] # run[j][n]
    BY <1>1, <2>2 DEF Stopped
  <2> QED BY <2>1, <2>2
<1> QED BY <1>2, <1>3, <1>4 DEF SpendSound

LEMMA SpendLead ==
  ASSUME TypeOK, Sound, SpendSound, Rescue \/ LeaderDies, [Next]_vars
  PROVE  SpendSound'
<1> USE DEF LeadFrame
<1>0. \A r \in Listed : r \in Job \X Attempt /\ ~(attempt[r[1]] = r[2] /\ pc[r[1]] \in Running)
  BY Worked DEF Listed, TypeOK, LeadTyped, Sound, ListOK, Attempt, Running, Launching
<1>1. CASE \/ ListAbandoned \/ ReportRescued \/ ListOrphaned \/ RescueFails \/ ReapFails \/ LeaderDies
           \/ \E a \in ljobs : RescueJob(a)
  <2>1. UNCHANGED <<run, token, kube, attempt>>
    BY <1>1 DEF ListAbandoned, ReportRescued, ListOrphaned, RescueFails, ReapFails, LeaderDies, RescueJob,
       rowVars
  <2>2. \A j \in Job : pc'[j] = pc[j] \/ pc'[j] = "idle"
    BY <1>1 DEF ListAbandoned, ReportRescued, ListOrphaned, RescueFails, ReapFails, LeaderDies, RescueJob,
       TypeOK, WorkTyped
  <2>3. LeadOK'
    <3>1. CASE lpc' \notin {"report", "revoke", "endrun"}
      BY <3>1 DEF LeadOK
    <3>2. CASE lpc' \in {"report", "revoke", "endrun"}
      <4>1. lpc' = "report" /\ \E a \in ljobs : lcur' = {<<a.job, a.attempt>>}
        BY <1>1, <3>2 DEF ListAbandoned, ReportRescued, ListOrphaned, RescueFails, ReapFails, LeaderDies,
           RescueJob, NextRun
      <4> QED BY <4>1 DEF LeadOK
    <3> QED BY <3>1, <3>2
  <2>4. ASSUME NEW j \in Job, pc'[j] \in Running
        PROVE  OwnSpend(j)'
    <3>1. attempt[j] \in Attempt /\ pc'[j] = pc[j]
      BY <2>2, <2>4, Worked DEF Running, Launching
    <3> QED BY <2>1, <2>4, <3>1, OwnSpendKept DEF SpendSound
  <2>5. UnstartedSpend'
    BY <2>1, <2>2 DEF SpendSound, UnstartedSpend, Fresh
  <2>6. EndedRunCannotSpend'
    BY <2>1, FaultsGrow DEF SpendSound, EndedRunCannotSpend
  <2> QED BY <2>3, <2>4, <2>5, <2>6 DEF SpendSound
<1>2. CASE \E r \in lruns : DeleteRun(r)
  <2>1. PICK r \in lruns : DeleteRun(r)
    BY <1>2
  <2>2. r \in Listed /\ lpc' = "revoke" /\ lcur' = {r} /\ kube' = Set(kube, r, FALSE)
    BY <2>1 DEF DeleteRun, Listed
  <2>3. LeadOK'
    BY <1>0, <2>2 DEF LeadOK, Set, TypeOK, RowTyped
  <2> QED BY <1>0, <2>1, <2>2, <2>3, SpendReap DEF DeleteRun
<1>3. CASE RevokeOrphaned
  <2>1. PICK r \in lcur : token' = Set(token, r, FALSE)
    BY <1>3 DEF RevokeOrphaned
  <2>2. r \in Listed /\ lcur = {r} /\ lpc' = "endrun" /\ lcur' = lcur /\ kube' = kube
    BY <1>3, <2>1 DEF RevokeOrphaned, Listed, SpendSound, LeadOK
  <2>3. LeadOK'
    BY <1>0, <1>3, <2>1, <2>2 DEF RevokeOrphaned, LeadOK, SpendSound, Set, TypeOK, RowTyped
  <2> QED BY <1>0, <1>3, <2>1, <2>2, <2>3, SpendReap DEF RevokeOrphaned
<1>4. CASE EndOrphanedRun
  <2>1. PICK r \in lcur : run' = Set(run, r, "ended")
    BY <1>4 DEF EndOrphanedRun
  <2>2. r \in Listed /\ ~kube[r[1]][r[2]] /\ ~token[r[1]][r[2]]
    BY <1>4, <2>1 DEF EndOrphanedRun, Listed, SpendSound, LeadOK
  <2>3. LeadOK'
    BY <1>4 DEF EndOrphanedRun, NextRun, LeadOK
  <2> QED BY <1>0, <1>4, <2>1, <2>2, <2>3, SpendReap DEF EndOrphanedRun
<1> QED BY <1>1, <1>2, <1>3, <1>4 DEF Rescue

LEMMA SpendNext ==
  ASSUME TypeOK, Sound, SpendSound, [Next]_vars
  PROVE  SpendSound'
<1> USE DEF rowVars, leadVars, jobVars, workVars
<1>1. CASE Forge
  BY <1>1, SpendKept DEF Forge, Push, Redeliver, Poll, Rerun, Insert
<1>2. ASSUME NEW j \in Job, Queue(j)
      PROVE  SpendSound'
  <2>1. CASE Fetch(j)
    <3>1. \A i \in Job :
            \/ pc'[i] = pc[i] /\ attempt'[i] = attempt[i]
            \/ /\ pc'[i] \notin Running
               /\ attempt'[i] >= attempt[i] \/ (pc[i] = "retsnooze" /\ attempt'[i] = attempt[i] - 1)
               /\ pc'[i] \in Fresh => attempt'[i] > attempt[i]
      <4>1. attempt[j] \in Nat /\ attempt'[j] = attempt[j] + 1 /\ pc'[j] = "begin"
        BY <2>1 DEF Fetch, TypeOK, WorkTyped, JobTyped
      <4>2. \A i \in Job : i # j => pc'[i] = pc[i] /\ attempt'[i] = attempt[i]
        BY <2>1 DEF Fetch, TypeOK, WorkTyped, JobTyped
      <4> QED BY <4>1, <4>2 DEF Running, Launching
    <3> QED BY <2>1, <3>1, SpendKept DEF Fetch
  <2>2. CASE Finish(j)
    <3>1. \A i \in Job :
            \/ pc'[i] = pc[i] /\ attempt'[i] = attempt[i]
            \/ /\ pc'[i] \notin Running
               /\ attempt'[i] >= attempt[i] \/ (pc[i] = "retsnooze" /\ attempt'[i] = attempt[i] - 1)
               /\ pc'[i] \in Fresh => attempt'[i] > attempt[i]
      <4>1. attempt[j] \in Nat /\ pc'[j] = "idle"
        BY <2>2 DEF Finish, TypeOK, WorkTyped, JobTyped
      <4>2. attempt'[j] = IF pc[j] = "retsnooze" THEN attempt[j] - 1 ELSE attempt[j]
        BY <2>2 DEF Finish, TypeOK, JobTyped
      <4>3. \A i \in Job : i # j => pc'[i] = pc[i] /\ attempt'[i] = attempt[i]
        BY <2>2 DEF Finish, TypeOK, WorkTyped, JobTyped
      <4> QED BY <4>1, <4>2, <4>3 DEF Running, Launching, Fresh
    <3> QED BY <2>2, <3>1, SpendKept DEF Finish
  <2>3. CASE RequestCancel(j)
    BY <2>3, SpendKept DEF RequestCancel
  <2> QED BY <1>2, <2>1, <2>2, <2>3 DEF Queue
<1>3. ASSUME NEW j \in Job, Disturb(j)
      PROVE  SpendSound'
  <2>1. \A i \in Job :
          \/ pc'[i] = pc[i] /\ attempt'[i] = attempt[i]
          \/ /\ pc'[i] \notin Running
             /\ attempt'[i] >= attempt[i] \/ (pc[i] = "retsnooze" /\ attempt'[i] = attempt[i] - 1)
             /\ pc'[i] \in Fresh => attempt'[i] > attempt[i]
    <3>1. attempt' = attempt /\ \A i \in Job : attempt[i] \in Nat
      BY <1>3 DEF Disturb, DeliverCancel, Timeout, Stop, EndCtx, Crash, TypeOK, JobTyped
    <3>2. \A i \in Job : pc'[i] \in {pc[i], "dead"}
      BY <1>3 DEF Disturb, DeliverCancel, Timeout, Stop, EndCtx, Crash, TypeOK, WorkTyped
    <3> QED BY <3>1, <3>2 DEF Running, Launching, Fresh
  <2> QED BY <1>3, <2>1, SpendKept DEF Disturb, DeliverCancel, Timeout, Stop, EndCtx, Crash
<1>4. ASSUME NEW j \in Job, NEW n \in Attempt, JobEnds(j, n)
      PROVE  SpendSound'
  <2>1. \A i \in Job, m \in Attempt : kube'[i][m] => kube[i][m]
    BY <1>4 DEF JobEnds, TypeOK, RowTyped
  <2> QED BY <1>4, <2>1, SpendKept DEF JobEnds
<1>5. CASE UNCHANGED vars
  BY <1>5, SpendKept DEF vars
<1> QED BY <1>1, <1>2, <1>3, <1>4, <1>5, SpendWork, SpendLead DEF Next

LEMMA SpendInvariant == Spec => []SpendSound
<1>1. Init => SpendSound
  BY DEF Init, SpendSound, UnstartedSpend, LeadOK, EndedRunCannotSpend, Running, Launching, None
<1>2. TypeOK /\ Sound /\ SpendSound /\ [Next]_vars => SpendSound'
  BY SpendNext
<1> QED BY <1>1, <1>2, Inductive, PTL DEF Spec

\* "a run is ended only once nothing of it can still spend" (reap): what can
\* be left to an ended run, and how many failed calls that takes (Revoke,
\* RunEnds, Record, SpecFails, reap).
THEOREM EndedRunsAreStopped == Spec => []EndedRunCannotSpend
<1>1. SpendSound => EndedRunCannotSpend
  BY DEF SpendSound
<1> QED BY <1>1, SpendInvariant, PTL

-----------------------------------------------------------------------------
(* Who will replace the pending status of a head.                          *)

\* A job's head is the pull request's or a former one, also once the executor
\* or the leader acts on what it read of it.
HeadOK ==
    /\ \A j \in Job : jstate[j] # "absent" => jhead[j] = head \/ jhead[j] \in former
    /\ \A j \in Job : res[j] = "superseded" \/ pc[j] = "superseding" => jhead[j] \in former
    /\ \A j \in Job : pc[j] \in {"idle", "dead"} => res[j] = None
    /\ lpc = "report" => \A r \in lcur : jstate[r[1]] # "absent"

\* The job has started a review.
HasRows(j) == \E n \in Attempt : rev[j][n] # None

\* The steps of a worker that has told the head how its review ended.
Told == {"published", "incomplete", "failrow", "failrowerr", "retok"}

\* Job j has yet to tell its head how its review ended.
Owing(j) ==
    /\ jstate[j] \in LiveStates
    /\ HasRows(j)
    /\ pc[j] \notin Told
    /\ pc[j] = "reterr" => attempt[j] < MaxAttempts \/ rev[j][attempt[j]] = None

\* PendingHeadHasWork, of the jobs that will really replace the status.
AnswerOK ==
    \A h \in HeadSHA \ (former \cup mute) :
        status[h] = "pending" => Reporting(h) \/ \E j \in Job : jhead[j] = h /\ Owing(j)

\* What a worker's step does to its head's status: the job still owes an
\* answer, or has just given it or lost it, or owed none.
Tells(j) ==
    LET h == jhead[j]
    IN /\ \A g \in HeadSHA \ {h} : status'[g] = status[g] /\ (g \in mute => g \in mute')
       /\ \/ Owing(j)'
          \/ status'[h] # "pending"
          \/ h \in mute' \cup former
          \/ status'[h] = status[h] /\ (h \in mute => h \in mute') /\ ~Owing(j)

LEMMA ReportTells ==
  ASSUME TypeOK, NEW h \in HeadSHA, NEW s \in {"success", "error"}, Report(h, s) \/ Lose(h)
  PROVE  /\ \A g \in HeadSHA \ {h} : status'[g] = status[g] /\ (g \in mute => g \in mute')
         /\ status'[h] # "pending" \/ h \in mute'
  BY DEF Report, Lose, TypeOK, StatusTyped

LEMMA RowsStay ==
  ASSUME TypeOK, Sound, NEW j \in Job, Shape(j)
  PROVE  /\ pc[j] \in InReview \/ HasRows(j) => HasRows(j)'
         /\ attempt'[j] = attempt[j] /\ attempt[j] \in Attempt /\ jstate'[j] = "running"
         /\ jhead[j] \in HeadSHA
<1>1. attempt' = attempt /\ jstate' = jstate /\ jstate[j] = "running" /\ attempt[j] \in Attempt
  BY Worked DEF Shape, Step, jobVars, InWork, Beginning, InReview, Launching, Judging, Ending, Published,
     Closing
<1>2. pc[j] \in InReview => HasRows(j)
  BY <1>1 DEF Sound, RowsOK, HasRows, Unfinished, None
<1>3. \A n \in Attempt : rev[j][n] # None => rev'[j][n] # None
  <2> SUFFICES ASSUME NEW n \in Attempt, rev[j][n] # None
               PROVE  rev'[j][n] # None
    OBVIOUS
  <2>1. ASSUME NEW x \in Finished \cup Unfinished, EndReview(j, x)
        PROVE  rev'[j][n] # None
    BY <1>1, <2>1 DEF EndReview, TypeOK, RowTyped, Finished, Unfinished, None
  <2>2. CASE rev' = [rev EXCEPT ![j] = [EndUnfinished(j) EXCEPT ![attempt[j]] = "running"]]
    BY <1>1, <2>2 DEF EndUnfinished, TypeOK, RowTyped, None
  <2> QED BY <2>1, <2>2 DEF Shape, Unfinished
<1> QED BY <1>1, <1>2, <1>3 DEF HasRows, TypeOK, JobTyped

\* A worker that goes on, and says nothing of its end, still owes it.
LEMMA GoesOn ==
  ASSUME TypeOK, Sound, NEW j \in Job, Shape(j), status' = status, mute' = mute,
         pc'[j] \notin Told,
         pc'[j] = "reterr" => attempt[j] < MaxAttempts \/ rev'[j][attempt[j]] = None,
         pc[j] \in InReview \/ ~HasRows(j) \/ HasRows(j)'
  PROVE  Tells(j)
  BY RowsStay DEF Tells, Owing, LiveStates

LEMMA WorkTells ==
  ASSUME TypeOK, Sound, HeadOK, NEW j \in Job, Work(j)
  PROVE  Tells(j)
<1>1. Shape(j) /\ jhead[j] \in HeadSHA /\ pc \in [Job -> PC]
  BY WorkShape, RowsStay DEF TypeOK, WorkTyped
<1>2. HasRows(j) => HasRows(j)'
  BY <1>1, RowsStay
<1>3. head # jhead[j] => jhead[j] \in former
  BY <1>1 DEF HeadOK, Shape, Sound, QueueOK, InWork, Beginning, InReview,
     Launching, Judging, Ending, Published, Closing
<1>4. pc[j] \in Fresh => rev[j][attempt[j]] = None
  BY <1>1, RowsStay DEF Sound, RowsOK
<1>5. ASSUME pc'[j] \in PC \ (Told \cup {"reterr"}), status' = status, mute' = mute
      PROVE  Tells(j)
  BY <1>1, <1>2, <1>5, GoesOn
<1>6. ASSUME pc'[j] \in {Fail(j)}, status' = status, mute' = mute, pc[j] \in InReview
      PROVE  Tells(j)
  <2>1. attempt[j] # MaxAttempts => attempt[j] < MaxAttempts
    BY <1>1, RowsStay DEF Attempt
  <2> QED BY <1>1, <1>6, <2>1, GoesOn DEF Fail, Told
<1>7. ASSUME \/ \E s \in {"success", "error"} : Report(jhead[j], s)
             \/ Lose(jhead[j])
      PROVE  Tells(j)
  BY <1>1, <1>7, ReportTells DEF Tells
<1>8. ASSUME jhead[j] \in former, status' = status, mute' = mute
      PROVE  Tells(j)
  BY <1>8 DEF Tells
<1>9. ASSUME pc[j] \in Told, status' = status, mute' = mute
      PROVE  Tells(j)
  BY <1>9 DEF Tells, Owing
<1> USE <1>1 DEF Step, statusVars, rowVars, PC, InWork, Beginning, Closing, Returned, InReview, Launching, Judging,
                 Ending, Published, Told
<1>10. CASE Begin(j)
  <2>1. CASE Check(j)
    BY <2>1, <1>3, <1>5, <1>8 DEF Check
  <2>2. CASE Snooze(j) \/ (\E s \in EarlyEnds : EndEarly(j, s)) \/ Start(j)
    BY <2>2, <1>5 DEF Snooze, EndEarly, Start
  <2>3. CASE ReportEarly(j)
    BY <2>3, <1>7 DEF ReportEarly
  <2>4. CASE BeginError(j)
    <3>1. pc[j] \in Fresh /\ rev' = rev /\ status' = status /\ mute' = mute /\ pc'[j] = "reterr"
      BY <2>4 DEF BeginError, Fresh
    <3> QED BY <3>1, <1>2, <1>4, GoesOn
  <2> QED BY <1>10, <2>1, <2>2, <2>3, <2>4 DEF Begin
<1>11. CASE Runner(j)
  <2>1. CASE SetPending(j)
    <3>1. Owing(j)'
      BY <2>1, RowsStay DEF SetPending, Owing, LiveStates
    <3>2. \A g \in HeadSHA \ {jhead[j]} : status'[g] = status[g] /\ (g \in mute => g \in mute')
      BY <2>1 DEF SetPending, Report, Lose, TypeOK, StatusTyped
    <3> QED BY <3>1, <3>2 DEF Tells
  <2>2. CASE Mint(j) \/ Launch(j) \/ LaunchFails(j) \/ (\E r \in Results : RunEnds(j, r))
    BY <2>2, <1>5 DEF Mint, Launch, LaunchFails, RunEnds
  <2>3. CASE SpecFails(j)
    BY <2>3, <1>5 DEF SpecFails, Cut
  <2> QED BY <1>11, <2>1, <2>2, <2>3 DEF Runner
<1>12. CASE Judge(j)
  <2>1. CASE Revoke(j) \/ Record(j)
    BY <2>1, <1>5 DEF Revoke, Record, Judged
  <2>2. CASE RecordFails(j)
    BY <2>2, <1>5, <1>6 DEF RecordFails
  <2>3. CASE Supersede(j)
    BY <2>3, <1>8 DEF Supersede, HeadOK
  <2>4. CASE AfterRun(j)
    BY <2>4, <1>3, <1>5, <1>8 DEF AfterRun
  <2>5. CASE AfterRunFails(j)
    BY <2>5, <1>5, <1>6 DEF AfterRunFails, Cut
  <2>6. CASE ReportSkip(j)
    BY <2>6, <1>7 DEF ReportSkip
  <2> QED BY <1>12, <2>1, <2>2, <2>3, <2>4, <2>5, <2>6 DEF Judge
<1>13. CASE Close(j)
  <2>1. CASE Publish(j)
    BY <2>1, <1>5, <1>7 DEF Publish, Cut
  <2>2. CASE PersistFails(j)
    BY <2>2, <1>5 DEF PersistFails, Cut
  <2>3. CASE Complete(j) \/ EndIncomplete(j)
    BY <2>3, <1>9 DEF Complete, EndIncomplete
  <2>4. CASE FinishEnded(j)
    <3>1. rev[j][attempt[j]] \in Unfinished
      BY <2>4 DEF FinishEnded, Sound, RowsOK
    <3> QED BY <2>4, <3>1, <1>5, <1>6 DEF FinishEnded
  <2>5. CASE ReportEnded(j) \/ ReportFailed(j) \/ ReportError(j)
    BY <2>5, <1>7 DEF ReportEnded, ReportFailed, ReportError
  <2>6. CASE FailReview(j)
    BY <2>6, <1>9 DEF FailReview
  <2>7. CASE EndFails(j)
    BY <2>7, <1>6 DEF EndFails
  <2> QED BY <1>13, <2>1, <2>2, <2>3, <2>4, <2>5, <2>6, <2>7 DEF Close
<1> QED BY <1>10, <1>11, <1>12, <1>13 DEF Work

LEMMA HeadWork ==
  ASSUME TypeOK, Sound, HeadOK, NEW j \in Job, Work(j)
  PROVE  HeadOK'
<1>1. Shape(j) /\ pc[j] \in InWork
  BY WorkShape DEF Shape
<1>2. UNCHANGED <<head, former, jstate, jhead, lpc, lcur>>
  BY <1>1 DEF Shape, Step, jobVars, leadVars
<1>3. \A i \in Job : i # j => pc'[i] = pc[i] /\ res'[i] = res[i]
  BY <1>1 DEF Shape, Step, TypeOK, WorkTyped
<1>4. jstate[j] # "absent"
  BY <1>1 DEF Sound, QueueOK, InWork, Beginning, InReview, Launching, Judging, Ending, Published, Closing
<1>5. pc'[j] \notin {"idle", "dead"}
  BY <1>1 DEF Shape, Step, TypeOK, WorkTyped
<1>6. res'[j] = "superseded" => res[j] = "superseded" \/ head # jhead[j]
  <2> USE DEF TypeOK, WorkTyped
  <2>1. CASE Begin(j)
    BY <2>1 DEF Begin, Check, Snooze, EndEarly, ReportEarly, BeginError, Start
  <2>2. CASE Runner(j)
    BY <2>2 DEF Runner, SetPending, Mint, SpecFails, Launch, LaunchFails, RunEnds
  <2>3. CASE Judge(j)
    BY <2>3 DEF Judge, Revoke, Record, RecordFails, Supersede, AfterRun, AfterRunFails, ReportSkip
  <2>4. CASE Close(j)
    BY <2>4 DEF Close, Publish, PersistFails, Complete, EndIncomplete, FinishEnded,
       ReportEnded, ReportFailed, FailReview, EndFails, ReportError
  <2> QED BY <2>1, <2>2, <2>3, <2>4 DEF Work
<1>7. pc'[j] = "superseding" => res[j] = "superseded"
  <2> USE DEF TypeOK, WorkTyped, Step, Cut, Fail
  <2>1. CASE Begin(j)
    BY <2>1 DEF Begin, Check, Snooze, EndEarly, ReportEarly, BeginError, Start
  <2>2. CASE Runner(j)
    BY <2>2 DEF Runner, SetPending, Mint, SpecFails, Launch, LaunchFails, RunEnds
  <2>3. CASE Record(j)
    BY <2>3 DEF Record, Judged
  <2>4. CASE Revoke(j) \/ RecordFails(j) \/ Supersede(j) \/ AfterRun(j) \/ AfterRunFails(j) \/ ReportSkip(j)
    BY <2>4 DEF Revoke, RecordFails, Supersede, AfterRun, AfterRunFails, ReportSkip
  <2>5. CASE Publish(j) \/ PersistFails(j) \/ Complete(j) \/ EndIncomplete(j)
    BY <2>5 DEF Publish, PersistFails, Complete, EndIncomplete
  <2>6. CASE FinishEnded(j) \/ ReportEnded(j) \/ ReportFailed(j)
    BY <2>6 DEF FinishEnded, ReportEnded, ReportFailed
  <2>7. CASE FailReview(j) \/ EndFails(j) \/ ReportError(j)
    BY <2>7 DEF FailReview, EndFails, ReportError
  <2> QED BY <2>1, <2>2, <2>3, <2>4, <2>5, <2>6, <2>7 DEF Work, Judge, Close
<1> QED BY <1>2, <1>3, <1>4, <1>5, <1>6, <1>7 DEF HeadOK

LEMMA HeadNext ==
  ASSUME TypeOK, Sound, HeadOK, [Next]_vars
  PROVE  HeadOK'
<1> USE DEF TypeOK, JobTyped, WorkTyped, LeadTyped, jobVars, workVars, leadVars, prVars
<1>1. CASE Forge
  <2>1. UNCHANGED <<pc, res, lpc, lcur>> /\ former \subseteq former' /\ (head' = head \/ head \in former')
    BY <1>1 DEF Forge, Push, Redeliver, Poll, Rerun
  <2>2. \/ UNCHANGED <<jstate, jhead>>
        \/ \E j \in Job : /\ jstate[j] = "absent" /\ jstate' = [jstate EXCEPT ![j] = "available"]
                          /\ jhead' = [jhead EXCEPT ![j] = head']
    BY <1>1 DEF Forge, Push, Redeliver, Poll, Rerun, Insert
  <2>3. \A j \in Job : jstate[j] = "absent" => pc[j] = "idle" /\ res[j] = None
    BY DEF Sound, QueueOK, HeadOK
  <2>4. \A j \in Job : jstate[j] # "absent" => jstate'[j] # "absent" /\ jhead'[j] = jhead[j]
    BY <2>2
  <2>5. \A j \in Job : jstate'[j] # "absent" => jhead'[j] = head' \/ jhead'[j] \in former'
    BY <2>1, <2>2 DEF HeadOK
  <2>6. \A j \in Job : res[j] = "superseded" \/ pc[j] = "superseding" => jhead'[j] \in former'
    BY <2>1, <2>3, <2>4 DEF HeadOK, None
  <2> QED BY <2>1, <2>3, <2>4, <2>5, <2>6 DEF HeadOK
<1>2. ASSUME NEW j \in Job, Queue(j)
      PROVE  HeadOK'
  <2>1. UNCHANGED <<head, former, jhead, lpc, lcur>>
    BY <1>2 DEF Queue, Fetch, Finish, RequestCancel
  <2>2. \A i \in Job : jstate[i] = "absent" <=> jstate'[i] = "absent"
    BY <1>2 DEF Queue, Fetch, Finish, RequestCancel, Outcome, LiveStates, Sound, QueueOK, Returned
  <2>3. \A i \in Job : (pc'[i] = pc[i] /\ res'[i] = res[i]) \/ (pc'[i] # "superseding" /\ res'[i] = None)
    BY <1>2 DEF Queue, Fetch, Finish, RequestCancel, Sound, QueueOK, HeadOK
  <2> QED BY <2>1, <2>2, <2>3 DEF HeadOK, None
<1>3. ASSUME NEW j \in Job, Disturb(j) \/ \E n \in Attempt : JobEnds(j, n)
      PROVE  HeadOK'
  <2>1. UNCHANGED <<head, former, jstate, jhead, lpc, lcur>>
    BY <1>3 DEF Disturb, DeliverCancel, Timeout, Stop, EndCtx, Crash, JobEnds
  <2>2. \A i \in Job : (pc'[i] = pc[i] /\ res'[i] = res[i]) \/ (pc'[i] # "superseding" /\ res'[i] = None)
    BY <1>3 DEF Disturb, DeliverCancel, Timeout, Stop, EndCtx, Crash, JobEnds
  <2> QED BY <2>1, <2>2 DEF HeadOK, None
<1>4. ASSUME NEW j \in Job, Work(j)
      PROVE  HeadOK'
  BY <1>4, HeadWork
<1>5. CASE Rescue \/ LeaderDies
  <2> USE DEF LeadFrame
  <2>1. UNCHANGED <<head, former, jhead, res>>
    BY <1>5 DEF Rescue, LeaderDies, ListAbandoned, RescueJob, ReportRescued, ListOrphaned, DeleteRun,
       RevokeOrphaned, EndOrphanedRun, RescueFails, ReapFails
  <2>2. \A i \in Job : pc'[i] = pc[i] \/ (pc[i] = "dead" /\ pc'[i] = "idle")
    BY <1>5 DEF Rescue, LeaderDies, ListAbandoned, RescueJob, ReportRescued, ListOrphaned, DeleteRun,
       RevokeOrphaned, EndOrphanedRun, RescueFails, ReapFails
  <2>3. \A i \in Job : jstate'[i] = jstate[i] \/ (jstate[i] = "running" /\ jstate'[i] # "absent")
    <3>1. CASE \E a \in ljobs : RescueJob(a)
      BY <3>1 DEF RescueJob, RescueState
    <3>2. CASE ~\E a \in ljobs : RescueJob(a)
      BY <1>5, <3>2 DEF Rescue, LeaderDies, ListAbandoned, ReportRescued, ListOrphaned, DeleteRun,
         RevokeOrphaned, EndOrphanedRun, RescueFails, ReapFails
    <3> QED BY <3>1, <3>2
  <2>4. lpc' = "report" => \A r \in lcur' : jstate'[r[1]] # "absent"
    <3> SUFFICES ASSUME lpc' = "report"
                 PROVE  \A r \in lcur' : jstate'[r[1]] # "absent"
      OBVIOUS
    <3>1. PICK a \in ljobs : RescueJob(a)
      BY <1>5 DEF Rescue, LeaderDies, ListAbandoned, ReportRescued, ListOrphaned, DeleteRun,
         RevokeOrphaned, EndOrphanedRun, RescueFails, ReapFails, NextRun
    <3>2. jstate[a.job] = "running" /\ lcur' = {<<a.job, a.attempt>>} /\ a.job \in Job
      BY <3>1 DEF RescueJob
    <3> QED BY <2>3, <3>2
  <2> QED BY <2>1, <2>2, <2>3, <2>4 DEF HeadOK
<1>6. CASE UNCHANGED vars
  BY <1>6 DEF vars, HeadOK
<1> QED BY <1>1, <1>2, <1>3, <1>4, <1>5, <1>6 DEF Next

\* A step by which no job stops owing its head, but for jobs whose head is
\* mute by then, and after which the leader still reports what it would.
LEMMA AnswerKept ==
  ASSUME AnswerOK, former \subseteq former', mute \subseteq mute', status' = status,
         \A h \in HeadSHA : Reporting(h) => Reporting(h)',
         \A j \in Job : Owing(j) => /\ jhead'[j] = jhead[j]
                                    /\ Owing(j)' \/ jhead[j] \in mute' \/ Reporting(jhead[j])'
  PROVE  AnswerOK'
<1> SUFFICES ASSUME NEW h \in HeadSHA \ (former' \cup mute'), status'[h] = "pending"
             PROVE  Reporting(h)' \/ \E j \in Job : jhead'[j] = h /\ Owing(j)'
  BY DEF AnswerOK
<1>1. Reporting(h) \/ \E j \in Job : jhead[j] = h /\ Owing(j)
  BY DEF AnswerOK
<1> QED BY <1>1

LEMMA AnswerWork ==
  ASSUME TypeOK, Sound, HeadOK, AnswerOK, NEW j \in Job, Work(j)
  PROVE  AnswerOK'
<1>1. Shape(j) /\ Tells(j) /\ UNCHANGED <<jobVars, former, leadVars>>
  BY WorkShape, WorkTells DEF Shape, Step
<1>2. UNCHANGED <<jstate, jhead, attempt, former, lpc, lcur>>
  BY <1>1 DEF jobVars, leadVars
<1>3. ASSUME NEW i \in Job, i # j, Owing(i)
      PROVE  Owing(i)'
  <2>1. pc'[i] = pc[i] /\ rev'[i] = rev[i]
    BY <1>1, <1>3, OwnRows
  <2> QED BY <1>2, <1>3, <2>1 DEF Owing, HasRows
<1> SUFFICES ASSUME NEW h \in HeadSHA \ (former' \cup mute'), status'[h] = "pending"
             PROVE  Reporting(h)' \/ \E i \in Job : jhead'[i] = h /\ Owing(i)'
  BY DEF AnswerOK
<1>4. CASE Owing(j)' /\ h = jhead[j]
  BY <1>2, <1>4
<1>5. CASE ~(Owing(j)' /\ h = jhead[j])
  <2>1. status[h] = "pending" /\ h \notin former \cup mute /\ (h = jhead[j] => ~Owing(j))
    BY <1>1, <1>2, <1>5 DEF Tells
  <2>2. Reporting(h) \/ \E i \in Job : jhead[i] = h /\ Owing(i)
    BY <2>1 DEF AnswerOK
  <2> QED BY <1>2, <1>3, <2>1, <2>2 DEF Reporting
<1> QED BY <1>4, <1>5

LEMMA AnswerForge ==
  ASSUME TypeOK, Sound, HeadOK, AnswerOK, Forge
  PROVE  AnswerOK'
<1>1. /\ UNCHANGED <<pc, rev, attempt, lpc, lcur, status, mute>> /\ former \subseteq former'
  BY DEF Forge, Push, Redeliver, Poll, Rerun, Insert, prVars, workVars, rowVars, leadVars, statusVars, jobVars
<1>2. \A j \in Job : jstate[j] # "absent" => jstate'[j] = jstate[j] /\ jhead'[j] = jhead[j]
  BY DEF Forge, Push, Redeliver, Poll, Rerun, Insert, jobVars, TypeOK, JobTyped
<1>3. \A j \in Job : Owing(j) => Owing(j)' /\ jhead'[j] = jhead[j]
  BY <1>1, <1>2 DEF Owing, HasRows, LiveStates
<1>4. \A h \in HeadSHA : Reporting(h) => Reporting(h)'
  BY <1>1, <1>2 DEF Reporting, HeadOK, TypeOK, LeadTyped
<1> QED BY <1>1, <1>3, <1>4, AnswerKept

LEMMA AnswerQueue ==
  ASSUME TypeOK, Sound, AnswerOK, NEW j \in Job, Queue(j)
  PROVE  AnswerOK'
<1> USE DEF TypeOK, JobTyped, WorkTyped
<1>1. UNCHANGED <<former, status, jhead, rev, lpc, lcur>> /\ mute \subseteq mute'
  BY DEF Queue, Fetch, Finish, RequestCancel, prVars, rowVars, leadVars, statusVars
<1>2. \A i \in Job : i # j => pc'[i] = pc[i] /\ jstate'[i] = jstate[i] /\ attempt'[i] = attempt[i]
  BY DEF Queue, Fetch, Finish, RequestCancel, workVars
<1>3. \A i \in Job : i # j /\ Owing(i) => Owing(i)'
  BY <1>1, <1>2 DEF Owing, HasRows
<1>4. ASSUME Owing(j)
      PROVE  Owing(j)' \/ jhead[j] \in mute'
  <2>1. CASE Fetch(j)
    <3>1. pc'[j] = "begin" /\ jstate'[j] = "running"
      BY <2>1 DEF Fetch
    <3> QED BY <1>1, <1>4, <3>1 DEF Owing, HasRows, LiveStates, Told
  <2>2. CASE Finish(j)
    <3>1. pc[j] \in {"reterr", "retsnooze"} /\ pc'[j] = "idle" /\ jstate'[j] = Outcome(j)
      BY <1>4, <2>2 DEF Finish, Owing, Returned, Told
    <3>2. CASE Outcome(j) \in {"retryable", "scheduled"}
      BY <1>1, <1>4, <3>1, <3>2 DEF Owing, HasRows, LiveStates, Told
    <3>3. CASE Outcome(j) = "cancelled"
      BY <2>2, <3>3 DEF Finish, Silenced
    <3>4. CASE Outcome(j) = "discarded"
      <4>1. pc[j] = "reterr" /\ ~(attempt[j] < MaxAttempts)
        BY <3>1, <3>4 DEF Outcome
      <4>2. rev[j][attempt[j]] = None
        BY <1>4, <4>1 DEF Owing
      <4> QED BY <2>2, <3>4, <4>2 DEF Finish, Silenced
    <3>5. Outcome(j) \in {"retryable", "scheduled", "cancelled", "discarded"}
      BY <3>1 DEF Outcome
    <3> QED BY <3>2, <3>3, <3>4, <3>5
  <2>3. CASE RequestCancel(j)
    <3>1. CASE jstate[j] = "running"
      BY <1>1, <1>4, <2>3, <3>1 DEF RequestCancel, Owing, HasRows, workVars
    <3>2. CASE jstate[j] # "running"
      BY <2>3, <3>2 DEF RequestCancel
    <3> QED BY <3>1, <3>2
  <2> QED BY <2>1, <2>2, <2>3 DEF Queue
<1>5. \A h \in HeadSHA : Reporting(h) => Reporting(h)'
  BY <1>1 DEF Reporting
<1> QED BY <1>1, <1>3, <1>4, <1>5, AnswerKept

LEMMA AnswerDisturb ==
  ASSUME TypeOK, Sound, AnswerOK, NEW j \in Job,
         Disturb(j) \/ \E n \in Attempt : JobEnds(j, n)
  PROVE  AnswerOK'
<1>1. UNCHANGED <<former, status, mute, jhead, jstate, attempt, rev, lpc, lcur>>
  BY DEF Disturb, DeliverCancel, Timeout, Stop, EndCtx, Crash, JobEnds, prVars, jobVars, rowVars, leadVars,
     statusVars
<1>2. \A i \in Job : pc'[i] \in {pc[i], "dead"}
  BY DEF Disturb, DeliverCancel, Timeout, Stop, EndCtx, Crash, JobEnds, workVars, TypeOK, WorkTyped
<1>3. \A i \in Job : Owing(i) => Owing(i)'
  BY <1>1, <1>2 DEF Owing, HasRows, Told
<1>4. \A h \in HeadSHA : Reporting(h) => Reporting(h)'
  BY <1>1 DEF Reporting
<1> QED BY <1>1, <1>3, <1>4, AnswerKept

LEMMA AnswerLead ==
  ASSUME TypeOK, Sound, LeadOK, AnswerOK, Rescue \/ LeaderDies
  PROVE  AnswerOK'
<1> USE DEF TypeOK, JobTyped, WorkTyped, RowTyped, LeadTyped, StatusTyped
<1>1. UNCHANGED <<former, jhead, attempt>>
  BY DEF Rescue, LeaderDies, ListAbandoned, RescueJob, ReportRescued, ListOrphaned, DeleteRun,
     RevokeOrphaned, EndOrphanedRun, RescueFails, ReapFails, LeadFrame, prVars
<1>2. CASE \E a \in ljobs : RescueJob(a)
  <2>1. PICK a \in ljobs : RescueJob(a)
    BY <1>2
  <2>2. lpc = "rescue" /\ UNCHANGED <<status, mute>> /\ a.job \in Job
    BY <2>1 DEF RescueJob, statusVars
  <2>3. \A h \in HeadSHA : ~Reporting(h)
    BY <2>2 DEF Reporting
  <2>4. ASSUME NEW i \in Job, Owing(i)
        PROVE  Owing(i)' \/ Reporting(jhead[i])'
    <3>1. CASE pc'[i] = pc[i] /\ jstate'[i] = jstate[i] /\ rev'[i] = rev[i]
      BY <1>1, <2>4, <3>1 DEF Owing, HasRows
    <3>2. CASE ~(pc'[i] = pc[i] /\ jstate'[i] = jstate[i] /\ rev'[i] = rev[i])
      <4>1. /\ i = a.job /\ jstate'[i] = RescueState(a) /\ pc'[i] = "idle" /\ rev'[i] = EndUnfinished(i)
            /\ IF RescueState(a) # "retryable" /\ HasRows(i)
               THEN lpc' = "report" /\ lcur' = {<<i, a.attempt>>}
               ELSE UNCHANGED <<lpc, lcur>>
        BY <2>1, <2>2, <3>2 DEF RescueJob, HasRows
      <4>2. HasRows(i) /\ HasRows(i)'
        BY <2>4, <4>1 DEF Owing, HasRows, EndUnfinished, None
      <4>3. CASE RescueState(a) = "retryable"
        BY <4>1, <4>2, <4>3 DEF Owing, LiveStates, Told
      <4>4. CASE RescueState(a) # "retryable"
        <5>1. lpc' = "report" /\ lcur' = {<<i, a.attempt>>}
          BY <4>1, <4>2, <4>4
        <5> QED BY <1>1, <5>1 DEF Reporting
      <4> QED BY <4>3, <4>4
    <3> QED BY <3>1, <3>2
  <2> QED BY <1>1, <2>2, <2>3, <2>4, AnswerKept
<1>3. CASE ReportRescued
  <2>1. PICK r \in lcur : Report(jhead[r[1]], "error")
    BY <1>3 DEF ReportRescued
  <2>2. lcur = {r} /\ jhead[r[1]] \in HeadSHA
    BY <1>3, <2>1 DEF ReportRescued, LeadOK
  <2>3. /\ \A g \in HeadSHA \ {jhead[r[1]]} : status'[g] = status[g] /\ (g \in mute => g \in mute')
        /\ status'[jhead[r[1]]] # "pending" \/ jhead[r[1]] \in mute'
    BY <2>1, <2>2, ReportTells
  <2>4. UNCHANGED <<pc, jstate, rev>>
    BY <1>3 DEF ReportRescued, rowVars
  <2>5. \A j \in Job : Owing(j) => Owing(j)'
    BY <1>1, <2>4 DEF Owing, HasRows
  <2>6. \A h \in HeadSHA \ {jhead[r[1]]} : ~Reporting(h)
    BY <2>2 DEF Reporting
  <2> QED BY <1>1, <2>3, <2>5, <2>6 DEF AnswerOK
<1>4. CASE LeaderDies
  <2>1. UNCHANGED <<pc, jstate, rev, status>> /\ mute \subseteq mute'
    BY <1>4 DEF LeaderDies, rowVars
  <2>2. \A j \in Job : Owing(j) => Owing(j)'
    BY <1>1, <2>1 DEF Owing, HasRows
  <2>3. \A h \in HeadSHA : Reporting(h) => h \in mute'
    BY <1>4 DEF LeaderDies, Reporting
  <2> QED BY <1>1, <2>1, <2>2, <2>3 DEF AnswerOK
<1>5. CASE \/ ListAbandoned \/ ListOrphaned \/ (\E r \in lruns : DeleteRun(r)) \/ RevokeOrphaned
           \/ EndOrphanedRun \/ RescueFails \/ ReapFails
  <2>1. UNCHANGED <<pc, jstate, status, mute>> /\ lpc # "report"
    BY <1>5 DEF ListAbandoned, ListOrphaned, DeleteRun, RevokeOrphaned, EndOrphanedRun, RescueFails, ReapFails,
       statusVars
  <2>2. \A j \in Job, n \in Attempt : rev'[j][n] = None <=> rev[j][n] = None
    <3>1. rev' = rev \/ \E r \in lcur : rev' = EndParent(r)
      BY <1>5 DEF ListAbandoned, ListOrphaned, DeleteRun, RevokeOrphaned, EndOrphanedRun, RescueFails, ReapFails,
         rowVars
    <3>2. ASSUME NEW r \in lcur
          PROVE  \A j \in Job, n \in Attempt : EndParent(r)[j][n] = None <=> rev[j][n] = None
      BY DEF EndParent, Set, Unfinished, None
    <3> QED BY <3>1, <3>2
  <2>3. \A j \in Job : pc[j] = "reterr" => attempt[j] \in Attempt
    BY Worked
  <2>4. \A j \in Job : Owing(j) => Owing(j)'
    BY <1>1, <2>1, <2>2, <2>3 DEF Owing, HasRows
  <2>5. \A h \in HeadSHA : ~Reporting(h)
    BY <2>1 DEF Reporting
  <2> QED BY <1>1, <2>1, <2>4, <2>5, AnswerKept
<1> QED BY <1>2, <1>3, <1>4, <1>5 DEF Rescue

\* A head that shows as pending has a job, or the leader, that will replace
\* the status, unless a push replaced the head or the status was lost
\* (Review.Work, reportEnded, Finish): whoever took the job away.
THEOREM PendingAnswered == Spec => []PendingHeadHasWork
<1>1. Init => HeadOK /\ AnswerOK
  BY DEF Init, HeadOK, AnswerOK, None
<1>2. TypeOK /\ Sound /\ HeadOK /\ [Next]_vars => HeadOK'
  BY HeadNext
<1>3. TypeOK /\ Sound /\ SpendSound /\ HeadOK /\ AnswerOK /\ [Next]_vars => AnswerOK'
  <2> SUFFICES ASSUME TypeOK, Sound, SpendSound, HeadOK, AnswerOK, [Next]_vars
               PROVE  AnswerOK'
    OBVIOUS
  <2>1. CASE UNCHANGED vars
    BY <2>1 DEF vars, prVars, jobVars, workVars, rowVars, statusVars, leadVars, AnswerOK, Owing, HasRows, Reporting
  <2> QED BY <2>1, AnswerForge, AnswerQueue, AnswerDisturb, AnswerWork, AnswerLead DEF Next, SpendSound
<1>4. AnswerOK => PendingHeadHasWork
  BY DEF AnswerOK, PendingHeadHasWork, Owing, LiveJobOf
<1> QED BY <1>1, <1>2, <1>3, <1>4, Inductive, SpendInvariant, PTL DEF Spec
=============================================================================
