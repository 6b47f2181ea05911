--------------------------- MODULE ReviewsProofs ---------------------------
(***************************************************************************)
(* Proofs about what reviews leave behind: Rereview, Transcript and        *)
(* Answers, each for every value of its constants, and about MCReviews,    *)
(* which adds them and Publish up.                                         *)
(***************************************************************************)
EXTENDS MCReviews, PublishProofs, OrdersProofs, SequenceTheorems, WellFoundedInduction, TLAPS

-----------------------------------------------------------------------------
(***************************************************************************)
(* What a review builds on, for every set of paths and versions, every     *)
(* configuration document and limit, and every number of pushes, commits,  *)
(* re-runs and faults.                                                     *)
(*                                                                         *)
(* Nothing a review was of changes once it is recorded, and a completed    *)
(* review stays completed; so each review says in one state what it looked *)
(* at: the whole pull request, or what changed since the completed review  *)
(* it builds on, which is an earlier one.  That is the invariant.  What    *)
(* LeftOutWasSeen claims of a whole chain follows from it within the       *)
(* state: of the completed reviews that would leave a path unseen the      *)
(* earliest left it to a review that is earlier still.                     *)
(***************************************************************************)

\* What is recorded of a review and of a job.
Statuses == {"running", "prepared", "completed", "superseded", "skipped", "failed"}
SkipReasons == {"", "disabled", "unchanged", "only_skipped_paths", "too_large"}
Patches  == {NoPatch} \cup SUBSET (Path \X Version \X Version)
Packs    == [patch : Patches, skip : SkipReasons, scope : {"full", "incremental"}, looked : SUBSET Path]
Rows     == [head : PullHead, ignore : SUBSET Path, status : Statuses, why : SkipReasons, prior : Nat,
             scope : {Nothing, "full", "incremental"}, looked : SUBSET Path, patch : Patches, forge : Patches]
AtWork   == {"started", "told", "ran", "prepared"}
Works    == [head : PullHead, trigger : Triggers, at : {"queued", "begun", "over"} \cup AtWork,
             ignore : SUBSET Path, forge : Patches, unchanged : Patches, review : Nat, pack : Packs \cup {Nothing}]

RereviewTyped ==
    /\ bot \in BOOLEAN /\ base \in Commit /\ head \in PullHead /\ rest \in RereviewBound
    /\ work \in Seq(Works) /\ reviews \in Seq(Rows)

\* Of that patch, a review got past its runner.
WasReviewed(patch) ==
    \E s \in 1 .. Len(reviews) : reviews[s].scope # Nothing /\ PatchID(reviews[s].head) = patch

\* A review of that scope looked at what it is for: the whole pull request, or
\* what changed since the completed review it builds on.
LookedAt(scope, looked, r) ==
    LET h == reviews[r].head  prior == reviews[r].prior IN
    \/ scope = "full" /\ looked = Diff(h) \ reviews[r].ignore
    \/ /\ scope = "incremental" /\ prior # 0
       /\ looked = Diff(h) \cap (Changed(reviews[prior].head.tree, h.tree) \ reviews[r].ignore)

RowSound(r) ==
    LET row == reviews[r] IN
    /\ row.forge \in {NoPatch, PatchID(row.head)}
    /\ row.prior < r /\ (row.prior # 0 => reviews[row.prior].status = "completed")
    /\ row.status \in {"prepared", "completed"} => row.scope # Nothing
    /\ row.scope # Nothing => row.patch = PatchID(row.head) /\ LookedAt(row.scope, row.looked, r)
    /\ row.status = "skipped" /\ row.why = "unchanged" => WasReviewed(PatchID(row.head))

\* A job that has a review is the only one that does, and its review waits for it.
WorkSound(j) ==
    LET job == work[j]  row == reviews[job.review] IN
    /\ (job.review # 0) <=> (job.at \in AtWork)
    /\ job.forge \in {NoPatch, PatchID(job.head)}
    /\ job.unchanged = NoPatch \/ WasReviewed(job.unchanged)
    /\ job.review # 0 =>
        /\ job.review <= Len(reviews)
        /\ row.head = job.head /\ row.ignore = job.ignore
        /\ IF job.at = "prepared" THEN row.status = "prepared" ELSE row.status = "running" /\ row.scope = Nothing
    /\ job.at = "ran" =>
        /\ job.pack \in Packs /\ job.pack.patch = PatchID(job.head)
        /\ LookedAt(job.pack.scope, job.pack.looked, job.review)
        /\ job.pack.skip = "unchanged" => WasReviewed(PatchID(job.head))

Apart == \A i, j \in 1 .. Len(work) : i # j /\ work[i].review # 0 => work[i].review # work[j].review

RowsSound  == \A r \in 1 .. Len(reviews) : RowSound(r)
WorksSound == \A j \in 1 .. Len(work) : WorkSound(j)

RereviewSound == RereviewTyped /\ Apart /\ RowsSound /\ WorksSound

-----------------------------------------------------------------------------
(* What the reviews' order gives: the newest one, and those one builds on. *)

LEMMA LatestFacts ==
    ASSUME reviews \in Seq(Rows), NEW r, NEW counts
    PROVE  /\ LatestReview(r, counts) \in 0 .. Len(reviews)
           /\ LatestReview(r, counts) # 0 => reviews[LatestReview(r, counts)].status \in counts
<1> DEFINE S == {0} \cup {s \in DOMAIN reviews \ {r} : reviews[s].status \in counts}
           Depths == {Len(reviews) - x : x \in S}
<1>1. Len(reviews) \in Nat /\ DOMAIN reviews = 1 .. Len(reviews)
    OBVIOUS
<1>2. S \subseteq 0 .. Len(reviews) /\ 0 \in S /\ \A x \in S : x # 0 => reviews[x].status \in counts
    BY <1>1
<1> HIDE DEF S
<1>3. Depths \subseteq Nat /\ Depths # {}
    BY <1>1, <1>2
<1>4. \E m \in S : \A y \in S : m >= y
  <2>1. PICK b \in Depths : \A y \in Depths : b <= y
      BY <1>3, LeastOf
  <2>2. PICK m \in S : b = Len(reviews) - m
      BY <2>1
  <2>3. ASSUME NEW y \in S PROVE m >= y
    <3>1. Len(reviews) - m <= Len(reviews) - y
        BY <2>1, <2>2
    <3> QED BY <1>1, <1>2, <3>1
  <2> QED BY <2>3
<1>5. Max(S) \in S
    BY <1>4 DEF Max
<1>6. LatestReview(r, counts) = Max(S)
    BY DEF LatestReview, S
<1> QED BY <1>2, <1>5, <1>6

\* The recursion of Chain goes back to earlier reviews only, and so has one
\* function that satisfies it.
LEMMA ChainFacts ==
    ASSUME reviews \in Seq(Rows), \A r \in 1 .. Len(reviews) : reviews[r].prior \in 0 .. r - 1
    PROVE  \A r \in 1 .. Len(reviews) :
                /\ r \in Chain(r)
                /\ reviews[r].scope = "incremental" => Chain(reviews[r].prior) \subseteq Chain(r)
<1> DEFINE Step(f, s) == IF s = 0 THEN {} ELSE {s} \cup (IF reviews[s].scope = "incremental" THEN f[reviews[s].prior] ELSE {})
           Fits(f, n) == f = [s \in 0 .. n |-> Step(f, s)]
           Unfit == {n \in Nat : n <= Len(reviews) /\ ~(\E f : Fits(f, n))}
           back == CHOOSE f : Fits(f, Len(reviews))
<1>1. Len(reviews) \in Nat
    OBVIOUS
<1>2. \E f : Fits(f, Len(reviews))
  <2> SUFFICES ASSUME Unfit # {} PROVE FALSE
    <3> HIDE DEF Fits
    <3> QED BY <1>1
  <2>1. PICK n \in Unfit : \A m \in Unfit : n <= m
      BY LeastOf
  <2>2. n # 0
    <3> DEFINE g == [s \in 0 .. 0 |-> {}]
    <3>1. Fits(g, 0)
        OBVIOUS
    <3> QED BY <2>1, <3>1
  <2>3. n - 1 \in Nat /\ n - 1 \notin Unfit /\ n - 1 <= Len(reviews) /\ n \in 1 .. Len(reviews)
    <3> HIDE DEF Fits
    <3> QED BY <1>1, <2>1, <2>2
  <2>4. PICK f : Fits(f, n - 1)
      BY <2>3
  <2> DEFINE g == [s \in 0 .. n |-> Step(f, s)]
  <2>5. ASSUME NEW s \in 0 .. n PROVE Step(f, s) = Step(g, s)
    <3>1. CASE s = 0
        BY <3>1
    <3>2. CASE s # 0
      <4>1. reviews[s].prior \in 0 .. n - 1
          BY <2>3, <3>2
      <4>2. f[reviews[s].prior] = Step(f, reviews[s].prior)
          BY <2>4, <4>1
      <4>3. g[reviews[s].prior] = Step(f, reviews[s].prior)
        <5> HIDE DEF Step
        <5>1. reviews[s].prior \in 0 .. n
            BY <2>3, <4>1
        <5> QED BY <5>1
      <4> QED BY <4>2, <4>3
    <3> QED BY <3>1, <3>2
  <2>6. Fits(g, n)
    <3> HIDE DEF Step
    <3> QED BY <2>5
  <2> QED BY <2>1, <2>6
<1>3. Fits(back, Len(reviews))
    BY <1>2
<1>4. \A r : Chain(r) = back[r]
    BY DEF Chain
<1>5. ASSUME NEW r \in 1 .. Len(reviews) PROVE Chain(r) = Step(back, r)
  <2> HIDE DEF Step, back
  <2>1. r \in 0 .. Len(reviews)
      BY <1>1
  <2>2. back = [s \in 0 .. Len(reviews) |-> Step(back, s)]
      BY <1>3
  <2> QED BY <1>4, <2>1, <2>2
<1> HIDE DEF back
<1>6. ASSUME NEW r \in 1 .. Len(reviews)
      PROVE  /\ r \in Chain(r)
             /\ reviews[r].scope = "incremental" => Chain(reviews[r].prior) \subseteq Chain(r)
    BY <1>4, <1>5
<1> QED BY <1>6

\* A review that builds on another leaves to it what did not change since, and
\* the earliest that left a path to nobody has none to leave it to.
LEMMA SoundRowsCover ==
    ASSUME reviews \in Seq(Rows), \A r \in 1 .. Len(reviews) : RowSound(r)
    PROVE  ReviewedHeadIsCovered
<1> DEFINE Owed(r) == Diff(reviews[r].head) \ reviews[r].ignore
           Seen(r, p) == \E c \in Chain(r) : /\ reviews[c].status = "completed" /\ p \in reviews[c].looked
                                             /\ reviews[c].head.tree[p] = reviews[r].head.tree[p]
           Moved(r, p) == \E c \in Chain(r) : \/ reviews[c].head.base.tree[p] # reviews[r].head.base.tree[p]
                                              \/ p \in reviews[c].ignore
           Covered(r, p) == Seen(r, p) \/ Moved(r, p)
           Done == {r \in 1 .. Len(reviews) : reviews[r].status = "completed"}
           Open == {r \in Done : \E p \in Owed(r) : ~Covered(r, p)}
<1>1. DOMAIN reviews = 1 .. Len(reviews) /\ Len(reviews) \in Nat
    OBVIOUS
<1>2. ASSUME NEW r \in 1 .. Len(reviews)
      PROVE  /\ reviews[r].prior \in 0 .. r - 1
             /\ reviews[r].prior # 0 => reviews[r].prior \in Done
  <2>1. reviews[r] \in Rows /\ RowSound(r)
      OBVIOUS
  <2>2. reviews[r].prior \in Nat /\ reviews[r].prior < r
      BY <2>1 DEF Rows, RowSound
  <2>3. reviews[r].prior \in 0 .. r - 1 /\ (reviews[r].prior # 0 => reviews[r].prior \in 1 .. Len(reviews))
      BY <1>1, <2>2
  <2> QED BY <2>1, <2>3 DEF RowSound
<1>3. \A r \in 1 .. Len(reviews) :
            /\ r \in Chain(r)
            /\ reviews[r].scope = "incremental" => Chain(reviews[r].prior) \subseteq Chain(r)
    BY <1>2, ChainFacts
<1>4. ASSUME NEW r \in Done, NEW p \in Owed(r),
             reviews[r].prior \in Done => \A q \in Owed(reviews[r].prior) : Covered(reviews[r].prior, q)
      PROVE  Covered(r, p)
  <2> DEFINE prior == reviews[r].prior
             h == reviews[r].head
             was == reviews[prior].head
  <2>1. r \in 1 .. Len(reviews) /\ r \in Chain(r) /\ p \in Diff(h) /\ p \in Path /\ p \notin reviews[r].ignore
      BY <1>3 DEF Diff, Changed
  <2>2. LookedAt(reviews[r].scope, reviews[r].looked, r)
      BY <2>1 DEF RowSound
  <2>3. CASE p \in reviews[r].looked
      BY <2>1, <2>3
  <2>4. CASE p \notin reviews[r].looked
    <3>1. reviews[r].scope = "incremental" /\ prior # 0 /\ p \notin Changed(was.tree, h.tree)
        BY <2>1, <2>2, <2>4 DEF LookedAt
    <3>2. prior \in Done /\ prior \in Chain(prior) /\ Chain(prior) \subseteq Chain(r)
        BY <1>2, <1>3, <2>1, <3>1
    <3>3. was.tree[p] = h.tree[p]
        BY <2>1, <3>1 DEF Changed
    <3>4. CASE was.base.tree[p] # h.base.tree[p] \/ p \in reviews[prior].ignore
        BY <3>2, <3>4
    <3>5. CASE was.base.tree[p] = h.base.tree[p] /\ p \notin reviews[prior].ignore
      <4>1. h.base.tree[p] # h.tree[p]
          BY <2>1 DEF Diff, Changed
      <4>2. p \in Owed(prior)
          BY <2>1, <3>3, <3>5, <4>1 DEF Diff, Changed
      <4>3. Covered(prior, p)
          BY <1>4, <3>2, <4>2
      <4>4. Seen(prior, p) => Seen(r, p)
          BY <3>2, <3>3
      <4>5. Moved(prior, p) => Moved(r, p)
          BY <3>2, <3>5
      <4> QED BY <4>3, <4>4, <4>5
    <3> QED BY <3>4, <3>5
  <2> QED BY <2>3, <2>4
<1> HIDE DEF Covered
<1>5. Open = {}
  <2> SUFFICES ASSUME Open # {} PROVE FALSE
      OBVIOUS
  <2>1. Open \subseteq Nat
      BY <1>1
  <2>2. PICK r \in Open : \A s \in Open : r <= s
      BY <2>1, LeastOf
  <2>3. r \in Done /\ r \in 1 .. Len(reviews)
      BY <2>2
  <2>4. reviews[r].prior \in Done => reviews[r].prior \notin Open
    <3>1. reviews[r].prior \in Nat /\ reviews[r].prior < r
        BY <1>1, <1>2, <2>3
    <3> HIDE DEF Open
    <3> QED BY <2>1, <2>2, <3>1
  <2>5. reviews[r].prior \in Done => \A q \in Owed(reviews[r].prior) : Covered(reviews[r].prior, q)
    <3> HIDE DEF Done, Owed
    <3> QED BY <2>4
  <2>6. \A p \in Owed(r) : Covered(r, p)
    <3> HIDE DEF Done, Owed
    <3> QED BY <1>4, <2>3, <2>5
  <2> QED BY <2>2, <2>6
<1>6. \A r \in Done : \A p \in Owed(r) : Covered(r, p)
  <2> HIDE DEF Done, Owed
  <2> QED BY <1>5
<1> QED BY <1>1, <1>6 DEF ReviewedHeadIsCovered, Covered

-----------------------------------------------------------------------------
(* Rows and jobs, as they are put in their sequences. *)

LEMMA PutFacts ==
    ASSUME NEW S, NEW s \in Seq(S), NEW i \in 1 .. Len(s), NEW x \in S, NEW t, t = [s EXCEPT ![i] = x]
    PROVE  /\ t \in Seq(S) /\ Len(t) = Len(s) /\ t[i] = x
           /\ \A k \in 1 .. Len(s) : k # i => t[k] = s[k]
OBVIOUS

LEMMA AddFacts ==
    ASSUME NEW S, NEW s \in Seq(S), NEW x \in S, NEW t, t = Append(s, x)
    PROVE  /\ t \in Seq(S) /\ Len(t) = Len(s) + 1 /\ t[Len(s) + 1] = x
           /\ \A k \in 1 .. Len(s) : t[k] = s[k]
OBVIOUS

LEMMA PatchTyped == ASSUME NEW h \in PullHead PROVE PatchID(h) \in Patches /\ Diff(h) \subseteq Path
BY DEF PatchID, Patches, Diff, Changed, PullHead, Commit, Tree

LEMMA FieldOfRow ==
    ASSUME NEW row \in Rows PROVE row["patch"] = row.patch /\ row["forge"] = row.forge
BY DEF Rows

LEMMA JobTyped ==
    ASSUME NEW h \in PullHead, NEW trigger \in Triggers
    PROVE  /\ Job(h, trigger) \in Works /\ [Job(h, trigger) EXCEPT !.at = "over"] \in Works
           /\ Job(h, trigger).at = "queued" /\ Job(h, trigger).review = 0
           /\ Job(h, trigger).forge = NoPatch /\ Job(h, trigger).unchanged = NoPatch
           /\ [Job(h, trigger) EXCEPT !.at = "over"].at = "over" /\ [Job(h, trigger) EXCEPT !.at = "over"].review = 0
           /\ [Job(h, trigger) EXCEPT !.at = "over"].forge = NoPatch
           /\ [Job(h, trigger) EXCEPT !.at = "over"].unchanged = NoPatch
BY DEF Job, Works, Patches

LEMMA RestTyped ==
    ASSUME rest \in RereviewBound, NEW what \in {"pushes", "commits", "reruns", "faults"}, UseUp(what) \/ rest' = rest
    PROVE  rest' \in RereviewBound
BY DEF RereviewBound, UseUp

-----------------------------------------------------------------------------
(* What stays true of a row and of a job while others move on. *)

\* No step takes back what a review was of, what it looked at, or that it is
\* completed.
RowsKept ==
    /\ Len(reviews) <= Len(reviews')
    /\ \A s \in 1 .. Len(reviews) :
        /\ reviews'[s].head = reviews[s].head /\ reviews'[s].ignore = reviews[s].ignore
        /\ reviews'[s].prior = reviews[s].prior /\ reviews'[s].forge = reviews[s].forge
        /\ reviews[s].status = "completed" => reviews'[s].status = "completed"
        /\ reviews[s].scope # Nothing => /\ reviews'[s].scope = reviews[s].scope
                                         /\ reviews'[s].patch = reviews[s].patch
                                         /\ reviews'[s].looked = reviews[s].looked

LEMMA PriorFacts ==
    ASSUME reviews \in Seq(Rows), NEW r \in 1 .. Len(reviews), RowSound(r)
    PROVE  reviews[r].prior \in Nat /\ reviews[r].prior < r
           /\ (reviews[r].prior # 0 => reviews[r].prior \in 1 .. Len(reviews))
<1>1. reviews[r] \in Rows
    OBVIOUS
<1>2. reviews[r].prior \in Nat /\ reviews[r].prior < r
    BY <1>1 DEF RowSound, Rows
<1> QED BY <1>2

LEMMA ReviewedStays ==
    ASSUME reviews \in Seq(Rows), reviews' \in Seq(Rows), RowsKept, NEW patch, WasReviewed(patch)
    PROVE  WasReviewed(patch)'
<1>1. PICK s \in 1 .. Len(reviews) : reviews[s].scope # Nothing /\ PatchID(reviews[s].head) = patch
    BY DEF WasReviewed
<1>2. s \in 1 .. Len(reviews')
    BY DEF RowsKept
<1>3. reviews'[s].scope # Nothing /\ PatchID(reviews'[s].head) = patch
    BY <1>1 DEF RowsKept
<1> QED BY <1>2, <1>3 DEF WasReviewed

LEMMA LookedAtStays ==
    ASSUME reviews \in Seq(Rows), RowsKept, NEW r \in 1 .. Len(reviews), RowSound(r),
           NEW scope, NEW looked, LookedAt(scope, looked, r)
    PROVE  LookedAt(scope, looked, r)'
<1>1. reviews'[r].head = reviews[r].head /\ reviews'[r].ignore = reviews[r].ignore
      /\ reviews'[r].prior = reviews[r].prior
    BY DEF RowsKept
<1>2. reviews[r].prior # 0 => reviews[r].prior \in 1 .. Len(reviews)
    BY PriorFacts
<1>3. reviews[r].prior # 0 => reviews'[reviews[r].prior].head = reviews[reviews[r].prior].head
    BY <1>2 DEF RowsKept
<1> QED BY <1>1, <1>3 DEF LookedAt

LEMMA RowStands ==
    ASSUME reviews \in Seq(Rows), reviews' \in Seq(Rows), RowsKept,
           NEW r \in 1 .. Len(reviews), RowSound(r), reviews'[r] = reviews[r]
    PROVE  RowSound(r)'
<1>1. reviews[r].prior \in Nat /\ (reviews[r].prior # 0 => reviews[r].prior \in 1 .. Len(reviews))
    BY PriorFacts
<1>2. reviews[r].prior # 0 => reviews'[reviews[r].prior].status = "completed"
    BY <1>1 DEF RowSound, RowsKept
<1>3. reviews[r].scope # Nothing => LookedAt(reviews[r].scope, reviews[r].looked, r)'
  <2>1. PICK scope, looked : scope = reviews[r].scope /\ looked = reviews[r].looked
      OBVIOUS
  <2>2. scope # Nothing => LookedAt(scope, looked, r)
      BY <2>1 DEF RowSound
  <2>3. scope # Nothing => LookedAt(scope, looked, r)'
      BY <2>2, LookedAtStays
  <2> QED BY <2>1, <2>3 DEF LookedAt
<1>4. reviews[r].status = "skipped" /\ reviews[r].why = "unchanged" => WasReviewed(PatchID(reviews[r].head))'
  <2>1. PICK patch : patch = PatchID(reviews[r].head)
      OBVIOUS
  <2>2. WasReviewed(patch) => WasReviewed(patch)'
      BY ReviewedStays
  <2> QED BY <2>1, <2>2 DEF RowSound, WasReviewed
<1> QED BY <1>2, <1>3, <1>4 DEF RowSound, LookedAt, WasReviewed

LEMMA WorkStands ==
    ASSUME reviews \in Seq(Rows), reviews' \in Seq(Rows), work \in Seq(Works), RowsKept, RowsSound,
           NEW j \in 1 .. Len(work), WorkSound(j), work'[j] = work[j],
           Of(j) # 0 => reviews'[Of(j)] = reviews[Of(j)]
    PROVE  WorkSound(j)'
<1>1. work[j].review \in Nat
  <2>1. work[j] \in Works
      OBVIOUS
  <2> QED BY <2>1 DEF Works
<1>2. work[j].unchanged = NoPatch \/ WasReviewed(work[j].unchanged)'
  <2>1. PICK patch : patch = work[j].unchanged
      OBVIOUS
  <2>2. WasReviewed(patch) => WasReviewed(patch)'
      BY ReviewedStays
  <2> QED BY <2>1, <2>2 DEF WorkSound, WasReviewed
<1>3. work[j].review # 0 => work[j].review \in 1 .. Len(reviews)
    BY <1>1 DEF WorkSound
<1>4. work[j].review # 0 =>
        /\ work[j].review <= Len(reviews')
        /\ reviews'[work[j].review] = reviews[work[j].review]
    BY <1>1, <1>3 DEF RowsKept, Of
<1>5. ASSUME work[j].at = "ran"
      PROVE  /\ LookedAt(work[j].pack.scope, work[j].pack.looked, work[j].review)
             /\ work[j].review \in 1 .. Len(reviews) /\ RowSound(work[j].review)
    BY <1>3, <1>5 DEF WorkSound, AtWork, RowsSound
<1>6. ASSUME work[j].at = "ran", NEW scope, NEW looked, NEW r,
             scope = work[j].pack.scope, looked = work[j].pack.looked, r = work[j].review
      PROVE  LookedAt(scope, looked, r)'
    BY <1>5, <1>6, LookedAtStays
<1>7. ASSUME NEW patch, patch = PatchID(work[j].head), work[j].at = "ran", work[j].pack.skip = "unchanged"
      PROVE  WasReviewed(patch)'
    BY <1>7, ReviewedStays DEF WorkSound
<1> QED BY <1>2, <1>4, <1>6, <1>7, SMTT(30) DEF WorkSound, LookedAt, WasReviewed

\* A step of job j that leaves the others and their reviews alone.
LEMMA JobSteps ==
    ASSUME RereviewSound, RereviewTyped', RowsKept, NEW j \in 1 .. Len(work), Len(work') = Len(work),
           \A i \in 1 .. Len(work) : i # j => work'[i] = work[i],
           \A i \in 1 .. Len(work) : i # j /\ Of(i) # 0 => reviews'[Of(i)] = reviews[Of(i)],
           \A r \in 1 .. Len(reviews') : RowSound(r)' \/ (r \in 1 .. Len(reviews) /\ reviews'[r] = reviews[r]),
           work'[j].review \in {0, Of(j)} \/ work'[j].review = Len(reviews) + 1,
           WorkSound(j)'
    PROVE  RereviewSound'
<1>1. reviews \in Seq(Rows) /\ reviews' \in Seq(Rows) /\ work \in Seq(Works) /\ RowsSound
    BY DEF RereviewSound, RereviewTyped
<1>2. RowsSound'
    BY <1>1, RowStands DEF RowsSound
<1>3. \A i \in 1 .. Len(work) : i # j => WorkSound(i)'
    BY <1>1, WorkStands DEF RereviewSound, WorksSound
<1>4. ASSUME NEW i \in 1 .. Len(work)
      PROVE  work[i].review # 0 => work[i].review \in 1 .. Len(reviews)
  <2>1. work[i] \in Works /\ WorkSound(i)
      BY <1>1 DEF RereviewSound, WorksSound
  <2>2. work[i].review \in Nat
      BY <2>1 DEF Works
  <2> QED BY <2>1, <2>2 DEF WorkSound
<1>5. Apart'
  <2> SUFFICES ASSUME NEW i \in 1 .. Len(work), NEW k \in 1 .. Len(work), i # k, work'[i].review # 0
               PROVE  work'[i].review # work'[k].review
      BY DEF Apart
  <2>1. work[i].review # 0 => work[i].review # work[k].review
      BY DEF RereviewSound, Apart
  <2>2. work[k].review # 0 => work[k].review # work[i].review
      BY DEF RereviewSound, Apart
  <2>3. CASE i = j
      BY <1>1, <1>4, <2>1, <2>2, <2>3 DEF Of
  <2>4. CASE k = j
      BY <1>1, <1>4, <2>1, <2>2, <2>4 DEF Of
  <2> QED BY <2>1, <2>3, <2>4
<1> QED BY <1>2, <1>3, <1>5 DEF RereviewSound, WorksSound

LEMMA SameRows ==
    ASSUME RereviewSound, UNCHANGED reviews
    PROVE  RowsKept /\ \A r \in 1 .. Len(reviews') : r \in 1 .. Len(reviews) /\ reviews'[r] = reviews[r]
BY DEF RowsKept, RereviewSound, RereviewTyped

\* Job j changes, and no review does.
LEMMA JobMoves ==
    ASSUME RereviewSound, NEW j \in 1 .. Len(work), NEW x \in Works, work' = [work EXCEPT ![j] = x],
           UNCHANGED <<bot, base, head, reviews>>, rest' \in RereviewBound,
           x.review = work[j].review, WorkSound(j)'
    PROVE  RereviewSound'
<1>1. /\ work' \in Seq(Works) /\ Len(work') = Len(work) /\ work'[j] = x
      /\ \A i \in 1 .. Len(work) : i # j => work'[i] = work[i]
    BY PutFacts DEF RereviewSound, RereviewTyped
<1>2. RereviewTyped'
    BY <1>1 DEF RereviewSound, RereviewTyped
<1>3. RowsKept /\ \A r \in 1 .. Len(reviews') : r \in 1 .. Len(reviews) /\ reviews'[r] = reviews[r]
    BY SameRows
<1> QED BY <1>1, <1>2, <1>3, JobSteps DEF Of

\* A job that leaves has no review any more.
LEMMA LeaveFacts ==
    ASSUME RereviewSound, NEW j \in 1 .. Len(work), Leave(j)
    PROVE  /\ work' \in Seq(Works) /\ Len(work') = Len(work)
           /\ \A i \in 1 .. Len(work) : i # j => work'[i] = work[i]
           /\ work'[j].review = 0 /\ WorkSound(j)'
<1> DEFINE x == [Job(work[j].head, work[j].trigger) EXCEPT !.at = "over"]
<1>1. work \in Seq(Works) /\ work[j] \in Works
    BY DEF RereviewSound, RereviewTyped
<1>2. x \in Works /\ x.at = "over" /\ x.review = 0 /\ x.forge = NoPatch /\ x.unchanged = NoPatch
    BY <1>1, JobTyped DEF Works
<1>3. work' = [work EXCEPT ![j] = x]
    BY DEF Leave
<1> HIDE DEF x
<1>4. /\ work' \in Seq(Works) /\ Len(work') = Len(work) /\ work'[j] = x
      /\ \A i \in 1 .. Len(work) : i # j => work'[i] = work[i]
    BY <1>1, <1>2, <1>3, PutFacts
<1> QED BY <1>2, <1>4 DEF WorkSound, AtWork

\* A review is added: of a job that leaves, or that starts it.
LEMMA RowAdded ==
    ASSUME RereviewSound, NEW row \in Rows, reviews' = Append(reviews, row),
           row.prior # 0 => row.prior \in 1 .. Len(reviews) /\ reviews[row.prior].status = "completed",
           row.forge \in {NoPatch, PatchID(row.head)}, row.scope = Nothing,
           row.status \notin {"prepared", "completed"},
           row.status = "skipped" /\ row.why = "unchanged" => WasReviewed(PatchID(row.head))
    PROVE  /\ reviews' \in Seq(Rows) /\ RowsKept /\ Len(reviews') = Len(reviews) + 1
           /\ \A r \in 1 .. Len(reviews) : reviews'[r] = reviews[r]
           /\ reviews'[Len(reviews) + 1] = row
           /\ \A r \in 1 .. Len(reviews') : RowSound(r)' \/ (r \in 1 .. Len(reviews) /\ reviews'[r] = reviews[r])
<1>1. reviews \in Seq(Rows) /\ Len(reviews) \in Nat
    BY DEF RereviewSound, RereviewTyped
<1>2. /\ reviews' \in Seq(Rows) /\ Len(reviews') = Len(reviews) + 1
      /\ \A r \in 1 .. Len(reviews) : reviews'[r] = reviews[r]
      /\ reviews'[Len(reviews) + 1] = row
    BY <1>1, AddFacts
<1>3. RowsKept
    BY <1>1, <1>2 DEF RowsKept
<1>4. ASSUME NEW r, r = Len(reviews) + 1 PROVE RowSound(r)'
  <2>1. reviews'[r] = row /\ row.prior \in Nat /\ row.prior < r
      BY <1>1, <1>2, <1>4 DEF Rows
  <2>2. row.prior # 0 => reviews'[row.prior].status = "completed"
      BY <1>2
  <2>3. row.status = "skipped" /\ row.why = "unchanged" => WasReviewed(PatchID(row.head))'
    <3>1. PICK patch : patch = PatchID(row.head)
        OBVIOUS
    <3>2. WasReviewed(patch) => WasReviewed(patch)'
        BY <1>1, <1>2, <1>3, ReviewedStays
    <3> QED BY <3>1, <3>2 DEF WasReviewed
  <2> QED BY <2>1, <2>2, <2>3 DEF RowSound, WasReviewed
<1>5. \A r \in 1 .. Len(reviews') : r \in 1 .. Len(reviews) \/ r = Len(reviews) + 1
    BY <1>1, <1>2
<1> QED BY <1>2, <1>3, <1>4, <1>5

LEMMA EndInv ==
    ASSUME RereviewSound, NEW j \in 1 .. Len(work), NEW row \in Rows, End(j, row),
           UNCHANGED <<bot, base, head>>, rest' \in RereviewBound,
           row.prior = 0, row.forge \in {NoPatch, PatchID(row.head)}, row.scope = Nothing,
           row.status \in {"superseded", "skipped"},
           row.status = "skipped" /\ row.why = "unchanged" => WasReviewed(PatchID(row.head))
    PROVE  RereviewSound'
<1>1. /\ reviews' \in Seq(Rows) /\ RowsKept
      /\ \A r \in 1 .. Len(reviews) : reviews'[r] = reviews[r]
      /\ \A r \in 1 .. Len(reviews') : RowSound(r)' \/ (r \in 1 .. Len(reviews) /\ reviews'[r] = reviews[r])
    BY RowAdded DEF End
<1>2. /\ work' \in Seq(Works) /\ Len(work') = Len(work)
      /\ \A i \in 1 .. Len(work) : i # j => work'[i] = work[i]
      /\ work'[j].review = 0 /\ WorkSound(j)'
    BY LeaveFacts DEF End
<1>3. RereviewTyped'
    BY <1>1, <1>2 DEF RereviewSound, RereviewTyped
<1>4. ASSUME NEW i \in 1 .. Len(work), Of(i) # 0 PROVE Of(i) \in 1 .. Len(reviews)
  <2>1. work[i] \in Works /\ WorkSound(i)
      BY DEF RereviewSound, WorksSound, RereviewTyped
  <2>2. work[i].review \in Nat
      BY <2>1 DEF Works
  <2> QED BY <1>4, <2>1, <2>2 DEF WorkSound, Of
<1> QED BY <1>1, <1>2, <1>3, <1>4, JobSteps

-----------------------------------------------------------------------------
(* The steps before there is a review. *)

LEMMA WorkFacts ==
    ASSUME RereviewSound, NEW j \in 1 .. Len(work)
    PROVE  /\ work[j] \in Works /\ WorkSound(j) /\ reviews \in Seq(Rows) /\ work \in Seq(Works)
           /\ DOMAIN work = 1 .. Len(work) /\ DOMAIN reviews = 1 .. Len(reviews)
           /\ work[j].head \in PullHead /\ work[j].ignore \subseteq Path
           /\ work[j].forge \in Patches /\ work[j].unchanged \in Patches /\ work[j].trigger \in Triggers
           /\ Of(j) \in Nat /\ (Of(j) # 0 => Of(j) \in 1 .. Len(reviews))
           /\ (work[j].at \in {"started", "told", "ran", "prepared"} <=> Of(j) # 0)
<1>1. work[j] \in Works /\ WorkSound(j) /\ reviews \in Seq(Rows) /\ work \in Seq(Works)
    BY DEF RereviewSound, WorksSound, RereviewTyped
<1>2. DOMAIN work = 1 .. Len(work) /\ DOMAIN reviews = 1 .. Len(reviews)
    BY <1>1
<1>3. /\ work[j].head \in PullHead /\ work[j].ignore \subseteq Path
      /\ work[j].forge \in Patches /\ work[j].unchanged \in Patches /\ work[j].trigger \in Triggers
      /\ work[j].review \in Nat
    BY <1>1 DEF Works
<1> QED BY <1>1, <1>2, <1>3 DEF WorkSound, Of, AtWork

\* The patch a review that counts left is one that was reviewed.
LEMMA LastPatchFacts ==
    ASSUME RereviewSound, NEW r, NEW field \in {"patch", "forge"}
    PROVE  /\ LastPatch(r, field) \in Patches
           /\ LastPatch(r, field) # NoPatch => WasReviewed(LastPatch(r, field))
<1> DEFINE of == LatestReview(r, {"prepared", "completed"})
<1>1. reviews \in Seq(Rows)
    BY DEF RereviewSound, RereviewTyped
<1>2. of \in 0 .. Len(reviews) /\ (of # 0 => reviews[of].status \in {"prepared", "completed"})
    BY <1>1, LatestFacts
<1>3. LastPatch(r, field) = IF of = 0 THEN NoPatch ELSE reviews[of][field]
    BY DEF LastPatch
<1> HIDE DEF of
<1>4. CASE of = 0
    BY <1>3, <1>4 DEF Patches
<1>5. CASE of # 0
  <2>1. of \in 1 .. Len(reviews) /\ reviews[of] \in Rows /\ RowSound(of)
    <3>1. of \in 1 .. Len(reviews)
        BY <1>2, <1>5
    <3> QED BY <1>1, <3>1 DEF RereviewSound, RowsSound
  <2>2. reviews[of].patch \in Patches /\ reviews[of].forge \in Patches
      BY <2>1 DEF Rows
  <2>3. reviews[of].scope # Nothing /\ reviews[of].patch = PatchID(reviews[of].head)
        /\ reviews[of].forge \in {NoPatch, PatchID(reviews[of].head)}
      BY <1>2, <1>5, <2>1 DEF RowSound
  <2>4. LastPatch(r, field) \in {reviews[of].patch, reviews[of].forge}
      BY <1>3, <1>5, <2>1, FieldOfRow
  <2>5. WasReviewed(PatchID(reviews[of].head))
      BY <2>1, <2>3 DEF WasReviewed
  <2> QED BY <2>2, <2>3, <2>4, <2>5
<1> QED BY <1>4, <1>5

\* What a job is whose review is started, and its row.
LEMMA StartedWork ==
    ASSUME NEW w \in Works, NEW row \in Nat
    PROVE  \E x \in Works :
                /\ x = [w EXCEPT !.at = "started", !.review = row]
                /\ x.at = "started" /\ x.review = row /\ x.head = w.head /\ x.forge = w.forge
                /\ x.unchanged = w.unchanged /\ x.ignore = w.ignore
<1> DEFINE x == [w EXCEPT !.at = "started", !.review = row]
<1>1. x \in Works
    BY DEF Works, AtWork
<1>2. x.at = "started" /\ x.review = row /\ x.head = w.head /\ x.forge = w.forge
      /\ x.unchanged = w.unchanged /\ x.ignore = w.ignore
    BY DEF Works
<1> HIDE DEF x
<1>3. x = [w EXCEPT !.at = "started", !.review = row]
    BY DEF x
<1> QED BY <1>1, <1>2, <1>3, Zenon

LEMMA RunningRow ==
    ASSUME RereviewSound, NEW j \in 1 .. Len(work), NEW prior \in Nat
    PROVE  \E row \in Rows :
                /\ row = [Row(j, "running", "") EXCEPT !.prior = prior]
                /\ row.prior = prior /\ row.forge = work[j].forge /\ row.head = work[j].head
                /\ row.scope = Nothing /\ row.status = "running" /\ row.ignore = work[j].ignore
<1>1. work[j].head \in PullHead /\ work[j].ignore \subseteq Path /\ work[j].forge \in Patches
    BY WorkFacts
<1>2. PICK row : row = [Row(j, "running", "") EXCEPT !.prior = prior]
    OBVIOUS
<1>3. row = [head |-> work[j].head, ignore |-> work[j].ignore, status |-> "running", why |-> "", prior |-> prior,
             scope |-> Nothing, looked |-> {}, patch |-> NoPatch, forge |-> work[j].forge]
    BY <1>2 DEF Row
<1>4. row \in Rows
    BY <1>1, <1>3 DEF Rows, Statuses, SkipReasons, Patches
<1>5. row.prior = prior /\ row.forge = work[j].forge /\ row.head = work[j].head
      /\ row.scope = Nothing /\ row.status = "running" /\ row.ignore = work[j].ignore
    BY <1>3
<1> QED BY <1>2, <1>4, <1>5, Zenon

LEMMA BeginInv ==
    ASSUME RereviewSound, NEW j \in 1 .. Len(work), NEW told \in BOOLEAN, Begin(j, told), rest' \in RereviewBound
    PROVE  RereviewSound'
<1> DEFINE h == work[j].head
           forge == IF DedupesBotPatch(j) /\ told THEN PatchID(h) ELSE NoPatch
<1>1. work[j].at = "queued" /\ UNCHANGED <<bot, base, head>>
    BY DEF Begin
<1>2. h \in PullHead /\ work[j] \in Works /\ work[j].ignore \subseteq Path /\ work[j].forge \in Patches
      /\ work[j].forge \in {NoPatch, PatchID(h)} /\ Of(j) = 0
    BY <1>1, WorkFacts DEF WorkSound
<1>3. forge \in {NoPatch, PatchID(h)} /\ forge \in Patches
    BY <1>2, PatchTyped DEF Patches
<1>4. \/ End(j, Row(j, "superseded", ""))
      \/ End(j, Row(j, "skipped", "disabled"))
      \/ /\ forge # NoPatch /\ forge = LastPatch(0, "forge")
         /\ End(j, [Row(j, "skipped", "unchanged") EXCEPT !.forge = forge])
      \/ /\ work' = [work EXCEPT ![j].at = "begun", ![j].ignore = h.base.doc.ignore, ![j].forge = forge]
         /\ UNCHANGED reviews
    BY DEF Begin
<1> HIDE DEF forge
<1>5. ASSUME NEW status \in {"superseded", "skipped"}, NEW why \in {"", "disabled"}, End(j, Row(j, status, why))
      PROVE  RereviewSound'
  <2>1. Row(j, status, why) \in Rows
      BY <1>2 DEF Row, Rows, Statuses, SkipReasons, Patches
  <2>2. /\ Row(j, status, why).prior = 0 /\ Row(j, status, why).forge = work[j].forge
        /\ Row(j, status, why).head = h /\ Row(j, status, why).scope = Nothing
        /\ Row(j, status, why).status = status /\ Row(j, status, why).why = why
      BY DEF Row
  <2> QED BY <1>1, <1>2, <1>5, <2>1, <2>2, EndInv
<1>6. ASSUME forge # NoPatch, forge = LastPatch(0, "forge"),
             End(j, [Row(j, "skipped", "unchanged") EXCEPT !.forge = forge])
      PROVE  RereviewSound'
  <2>1. PICK row : row = [Row(j, "skipped", "unchanged") EXCEPT !.forge = forge]
      OBVIOUS
  <2>2. row = [head |-> h, ignore |-> work[j].ignore, status |-> "skipped", why |-> "unchanged", prior |-> 0,
               scope |-> Nothing, looked |-> {}, patch |-> NoPatch, forge |-> forge]
      BY <2>1 DEF Row
  <2>3. row \in Rows /\ row.prior = 0 /\ row.forge = forge /\ row.head = h /\ row.scope = Nothing
        /\ row.status = "skipped"
      BY <1>2, <1>3, <2>2 DEF Rows, Statuses, SkipReasons, Patches
  <2>4. WasReviewed(PatchID(h))
      BY <1>3, <1>6, LastPatchFacts
  <2> QED BY <1>1, <1>3, <1>6, <2>1, <2>3, <2>4, EndInv
<1>7. ASSUME work' = [work EXCEPT ![j].at = "begun", ![j].ignore = h.base.doc.ignore, ![j].forge = forge],
             UNCHANGED reviews
      PROVE  RereviewSound'
  <2>1. h.base.doc.ignore \in SUBSET Path
      BY <1>2 DEF PullHead, Commit, Docs
  <2>2. PICK w \in Works, ignore \in SUBSET Path, f \in Patches :
            w = work[j] /\ ignore = h.base.doc.ignore /\ f = forge
      BY <1>2, <1>3, <2>1
  <2> DEFINE x == [w EXCEPT !.at = "begun", !.ignore = ignore, !.forge = f]
  <2>3. work' = [work EXCEPT ![j] = x]
      BY <1>7, <2>2, WorkFacts
  <2>4. /\ x \in Works /\ x.at = "begun" /\ x.review = w.review /\ x.head = w.head /\ x.forge = f
        /\ x.unchanged = w.unchanged
      BY DEF Works
  <2> HIDE DEF x
  <2>5. x.review = 0
      BY <1>2, <2>2, <2>4 DEF Of
  <2>6. work'[j] = x
      BY <2>3, <2>4, WorkFacts, PutFacts
  <2>7. x.unchanged = NoPatch \/ WasReviewed(x.unchanged)
      BY <2>2, <2>4, WorkFacts DEF WorkSound
  <2>8. WorkSound(j)'
      BY <1>3, <1>7, <2>2, <2>4, <2>5, <2>6, <2>7 DEF WorkSound, AtWork, WasReviewed
  <2> QED BY <1>1, <1>2, <1>7, <2>2, <2>3, <2>4, <2>5, <2>8, JobMoves DEF Of
<1> QED BY <1>4, <1>5, <1>6, <1>7

LEMMA StartInv ==
    ASSUME RereviewSound, NEW j \in 1 .. Len(work), Start(j)
    PROVE  RereviewSound'
<1>1. /\ work[j] \in Works /\ work \in Seq(Works) /\ reviews \in Seq(Rows)
      /\ work[j].forge \in {NoPatch, PatchID(work[j].head)}
    BY WorkFacts DEF WorkSound
<1>2. Len(reviews) \in Nat /\ Len(reviews) + 1 \in Nat
    BY <1>1
<1>3. PICK new \in Nat : new = Len(reviews) + 1
    BY <1>2
<1>4. LastCompleted \in 0 .. Len(reviews) /\ (LastCompleted # 0 => reviews[LastCompleted].status = "completed")
  <2>1. LastCompleted \in 0 .. Len(reviews) /\ (LastCompleted # 0 => reviews[LastCompleted].status \in {"completed"})
      BY <1>1, LatestFacts DEF LastCompleted
  <2> QED BY <2>1
<1>5. PICK row \in Rows :
        /\ row = [Row(j, "running", "") EXCEPT !.prior = LastCompleted]
        /\ row.prior = LastCompleted /\ row.forge = work[j].forge /\ row.head = work[j].head
        /\ row.scope = Nothing /\ row.status = "running" /\ row.ignore = work[j].ignore
  <2>1. LastCompleted \in Nat
      BY <1>2, <1>4
  <2> QED BY <2>1, RunningRow, Zenon
<1>6. PICK x \in Works :
        /\ x = [work[j] EXCEPT !.at = "started", !.review = new]
        /\ x.at = "started" /\ x.review = new /\ x.head = work[j].head /\ x.forge = work[j].forge
        /\ x.unchanged = work[j].unchanged /\ x.ignore = work[j].ignore
    BY <1>1, StartedWork, Zenon
<1>13. reviews' = Append(reviews, row)
    BY <1>5 DEF Start
<1>14. work' = [work EXCEPT ![j] = x]
    BY <1>3, <1>6, WorkFacts DEF Start
<1>15. /\ row.prior = LastCompleted /\ row.forge = work[j].forge /\ row.head = work[j].head
      /\ row.scope = Nothing /\ row.status = "running" /\ row.ignore = work[j].ignore
    BY <1>5
<1>16. /\ x.at = "started" /\ x.review = new /\ x.head = work[j].head /\ x.forge = work[j].forge
      /\ x.unchanged = work[j].unchanged /\ x.ignore = work[j].ignore
    BY <1>6
<1>7. /\ reviews' \in Seq(Rows) /\ RowsKept /\ Len(reviews') = Len(reviews) + 1 /\ reviews'[new] = row
      /\ \A r \in 1 .. Len(reviews) : reviews'[r] = reviews[r]
      /\ \A r \in 1 .. Len(reviews') : RowSound(r)' \/ (r \in 1 .. Len(reviews) /\ reviews'[r] = reviews[r])
  <2>1. row.prior # 0 => row.prior \in 1 .. Len(reviews) /\ reviews[row.prior].status = "completed"
      BY <1>2, <1>4, <1>15
  <2> QED BY <1>1, <1>3, <1>13, <1>15, <2>1, RowAdded
<1>8. /\ work' \in Seq(Works) /\ Len(work') = Len(work) /\ work'[j] = x
      /\ \A i \in 1 .. Len(work) : i # j => work'[i] = work[i]
    BY <1>1, <1>14, PutFacts
<1>9. x.unchanged = NoPatch \/ WasReviewed(x.unchanged)'
  <2>1. PICK patch : patch = work[j].unchanged
      OBVIOUS
  <2>2. patch = NoPatch \/ WasReviewed(patch)
      BY <2>1, WorkFacts DEF WorkSound
  <2>3. patch = NoPatch \/ WasReviewed(patch)'
      BY <1>1, <1>7, <2>2, ReviewedStays
  <2> QED BY <1>16, <2>1, <2>3
<1>10. WorkSound(j)'
  <2>1. x.review # 0 /\ x.review <= Len(reviews')
      BY <1>2, <1>3, <1>7, <1>16
  <2> QED BY <1>1, <1>7, <1>8, <1>9, <1>15, <1>16, <2>1 DEF WorkSound, AtWork
<1>11. RereviewTyped'
    BY <1>7, <1>8 DEF Start, RereviewSound, RereviewTyped
<1>12. \A i \in 1 .. Len(work) : Of(i) # 0 => reviews'[Of(i)] = reviews[Of(i)]
    BY <1>7, WorkFacts
<1> QED BY <1>3, <1>7, <1>8, <1>10, <1>11, <1>12, <1>16, JobSteps

-----------------------------------------------------------------------------
(* The prompt and the runner. *)

LEMMA AgentPromptInv ==
    ASSUME RereviewSound, NEW j \in 1 .. Len(work), AgentPrompt(j)
    PROVE  RereviewSound'
<1>1. work[j].at = "started" /\ UNCHANGED <<bot, base, head, reviews, rest>>
    BY DEF AgentPrompt
<1>2. PICK u \in Patches :
        /\ u = IF DedupesBotPatch(j) THEN LastPatch(Of(j), "patch") ELSE NoPatch
        /\ u = NoPatch \/ WasReviewed(u)
    BY LastPatchFacts DEF Patches
<1>3. PICK w \in Works : w = work[j] /\ WorkSound(j)
    BY WorkFacts
<1> DEFINE x == [w EXCEPT !.at = "told", !.unchanged = u]
<1>4. work' = [work EXCEPT ![j] = x]
    BY <1>2, <1>3, WorkFacts DEF AgentPrompt
<1>5. /\ x \in Works /\ x.at = "told" /\ x.review = w.review /\ x.head = w.head /\ x.forge = w.forge
      /\ x.unchanged = u /\ x.ignore = w.ignore
    BY DEF Works, AtWork
<1> HIDE DEF x
<1>6. work'[j] = x
    BY <1>4, <1>5, WorkFacts, PutFacts
<1>7. WorkSound(j)'
    BY <1>1, <1>2, <1>3, <1>5, <1>6 DEF WorkSound, AtWork, WasReviewed
<1>8. rest' \in RereviewBound
    BY <1>1 DEF RereviewSound, RereviewTyped
<1> QED BY <1>1, <1>3, <1>4, <1>5, <1>7, <1>8, JobMoves

\* The runner's verdict: a scope that fits what it looked at, and a skip that
\* says "unchanged" only of a patch that was reviewed.
LEMMA RunnerPack ==
    ASSUME RereviewSound, NEW j \in 1 .. Len(work), NEW fetched \in BOOLEAN, Runner(j, fetched)
    PROVE  \E pack \in Packs :
                /\ work' = [work EXCEPT ![j].at = "ran", ![j].pack = pack]
                /\ pack.patch = PatchID(work[j].head)
                /\ LookedAt(pack.scope, pack.looked, Of(j))
                /\ pack.skip = "unchanged" => WasReviewed(PatchID(work[j].head))
<1> DEFINE h     == work[j].head
           prior == reviews[Of(j)].prior
           delta == IF prior # 0 /\ fetched THEN Changed(reviews[prior].head.tree, h.tree) \ work[j].ignore ELSE {}
           scope == DecideScope(prior # 0, prior # 0 /\ reviews[prior].head.n = h.n, fetched, Cardinality(delta))
           skip  == AgentSkip(j, PatchID(h))
           looked == Diff(h) \cap (IF scope = "full" THEN Path \ work[j].ignore ELSE delta)
           pack  == [patch |-> PatchID(h), skip |-> skip, scope |-> scope, looked |-> looked]
<1>1. work[j].at = "told" /\ work' = [work EXCEPT ![j].at = "ran", ![j].pack = pack]
    BY DEF Runner
<1>2. /\ h \in PullHead /\ Of(j) # 0 /\ WorkSound(j) /\ PatchID(h) \in Patches /\ Diff(h) \subseteq Path
      /\ reviews[Of(j)].head = h /\ reviews[Of(j)].ignore = work[j].ignore
    BY <1>1, WorkFacts, PatchTyped DEF WorkSound, Of
<1>3. scope \in {"full", "incremental"} /\ (scope = "incremental" => prior # 0 /\ fetched)
    BY DEF DecideScope
<1>4. skip \in SkipReasons /\ (skip = "unchanged" => work[j].unchanged # NoPatch /\ PatchID(h) = work[j].unchanged)
    BY DEF AgentSkip, SkipReasons
<1>5. skip = "unchanged" => WasReviewed(PatchID(h))
    BY <1>2, <1>4 DEF WorkSound
<1> HIDE DEF scope, skip
<1>6. LookedAt(scope, looked, Of(j))
  <2>1. CASE scope = "full"
    <3>1. looked = Diff(h) \ work[j].ignore
        BY <1>2, <2>1
    <3> QED BY <1>2, <2>1, <3>1 DEF LookedAt
  <2>2. CASE scope = "incremental"
    <3>1. prior # 0 /\ looked = Diff(h) \cap (Changed(reviews[prior].head.tree, h.tree) \ work[j].ignore)
        BY <1>3, <2>2
    <3> QED BY <1>2, <2>2, <3>1 DEF LookedAt
  <2> QED BY <1>3, <2>1, <2>2
<1>7. looked \subseteq Path
    BY <1>2
<1> HIDE DEF looked
<1>8. pack \in Packs
    BY <1>2, <1>3, <1>4, <1>7 DEF Packs
<1>9. pack.patch = PatchID(h) /\ pack.skip = skip /\ pack.scope = scope /\ pack.looked = looked
    OBVIOUS
<1> HIDE DEF pack
<1> QED BY <1>1, <1>5, <1>6, <1>8, <1>9

LEMMA RunnerInv ==
    ASSUME RereviewSound, NEW j \in 1 .. Len(work), NEW fetched \in BOOLEAN, Runner(j, fetched),
           rest' \in RereviewBound
    PROVE  RereviewSound'
<1>1. work[j].at = "told" /\ UNCHANGED <<bot, base, head, reviews>>
    BY DEF Runner
<1>2. PICK pack \in Packs :
            /\ work' = [work EXCEPT ![j].at = "ran", ![j].pack = pack]
            /\ pack.patch = PatchID(work[j].head)
            /\ LookedAt(pack.scope, pack.looked, Of(j))
            /\ pack.skip = "unchanged" => WasReviewed(PatchID(work[j].head))
    BY RunnerPack
<1>3. PICK w \in Works : w = work[j] /\ WorkSound(j)
    BY WorkFacts
<1> DEFINE x == [w EXCEPT !.at = "ran", !.pack = pack]
<1>4. work' = [work EXCEPT ![j] = x]
    BY <1>2, <1>3, WorkFacts
<1>5. /\ x \in Works /\ x.at = "ran" /\ x.review = w.review /\ x.head = w.head /\ x.forge = w.forge
      /\ x.unchanged = w.unchanged /\ x.ignore = w.ignore /\ x.pack = pack
    BY DEF Works, AtWork
<1> HIDE DEF x
<1>6. work'[j] = x
    BY <1>4, <1>5, WorkFacts, PutFacts
<1>7. WorkSound(j)'
  <2>1. /\ x.pack \in Packs /\ x.pack.patch = PatchID(x.head) /\ LookedAt(x.pack.scope, x.pack.looked, x.review)
        /\ x.pack.skip = "unchanged" => WasReviewed(PatchID(x.head))
      BY <1>2, <1>3, <1>5 DEF Of
  <2> QED BY <1>1, <1>3, <1>5, <1>6, <2>1 DEF WorkSound, AtWork, WasReviewed, LookedAt
<1> QED BY <1>1, <1>3, <1>4, <1>5, <1>7, JobMoves

-----------------------------------------------------------------------------
(* The review's end. *)

\* A job's review moves on: its job was working, so it was not completed and
\* what it looked at, if it was said yet, stays.
LEMMA ReviewMoves ==
    ASSUME RereviewSound, NEW j \in 1 .. Len(work), NEW r, r = Of(j), r # 0,
           NEW x \in Rows, reviews' = [reviews EXCEPT ![r] = x],
           x.head = reviews[r].head, x.ignore = reviews[r].ignore, x.prior = reviews[r].prior,
           x.forge = reviews[r].forge,
           reviews[r].scope # Nothing => x.scope = reviews[r].scope /\ x.patch = reviews[r].patch
                                         /\ x.looked = reviews[r].looked,
           x.status \in {"prepared", "completed"} => x.scope # Nothing,
           x.scope # Nothing => x.patch = PatchID(x.head) /\ LookedAt(x.scope, x.looked, r),
           x.status = "skipped" /\ x.why = "unchanged" => WasReviewed(PatchID(x.head)),
           work' \in Seq(Works), Len(work') = Len(work),
           \A i \in 1 .. Len(work) : i # j => work'[i] = work[i],
           work'[j].review \in {0, r}, UNCHANGED <<bot, base, head>>, rest' \in RereviewBound, WorkSound(j)'
    PROVE  RereviewSound'
<1>1. r \in 1 .. Len(reviews) /\ reviews \in Seq(Rows) /\ WorkSound(j) /\ RowSound(r) /\ r \in Nat
    BY WorkFacts DEF RereviewSound, RowsSound
<1>2. /\ reviews' \in Seq(Rows) /\ Len(reviews') = Len(reviews) /\ reviews'[r] = x
      /\ \A s \in 1 .. Len(reviews) : s # r => reviews'[s] = reviews[s]
    BY <1>1, PutFacts
<1>3. reviews[r].status # "completed"
    BY <1>1 DEF WorkSound, Of
<1>4. RowsKept
    BY <1>1, <1>2, <1>3 DEF RowsKept
<1>5. RowSound(r)'
  <2>1. x.prior \in Nat /\ x.prior < r /\ (x.prior # 0 => x.prior \in 1 .. Len(reviews))
      BY <1>1, PriorFacts
  <2>2. x.prior # 0 => reviews'[x.prior].status = "completed"
      BY <1>1, <1>4, <2>1 DEF RowSound, RowsKept
  <2>3. x.scope # Nothing => LookedAt(x.scope, x.looked, r)'
      BY <1>1, <1>4, LookedAtStays
  <2>4. x.status = "skipped" /\ x.why = "unchanged" => WasReviewed(PatchID(x.head))'
      BY <1>1, <1>2, <1>4, ReviewedStays
  <2>5. x.forge \in {NoPatch, PatchID(x.head)}
      BY <1>1 DEF RowSound
  <2> QED BY <1>2, <2>1, <2>2, <2>3, <2>4, <2>5 DEF RowSound
<1>6. RereviewTyped'
    BY <1>2 DEF RereviewSound, RereviewTyped
<1>7. \A s \in 1 .. Len(reviews') : RowSound(s)' \/ (s \in 1 .. Len(reviews) /\ reviews'[s] = reviews[s])
    BY <1>2, <1>5
<1>8. \A i \in 1 .. Len(work) : i # j /\ Of(i) # 0 => reviews'[Of(i)] = reviews[Of(i)]
  <2> SUFFICES ASSUME NEW i \in 1 .. Len(work), i # j, Of(i) # 0 PROVE reviews'[Of(i)] = reviews[Of(i)]
      OBVIOUS
  <2>1. Of(i) \in 1 .. Len(reviews)
      BY WorkFacts
  <2>2. Of(i) # r
      BY DEF RereviewSound, Apart, Of
  <2> QED BY <1>2, <2>1, <2>2
<1> QED BY <1>4, <1>6, <1>7, <1>8, JobSteps

LEMMA EndReviewInv ==
    ASSUME RereviewSound, NEW j \in 1 .. Len(work), NEW status \in {"completed", "failed"}, EndReview(j, status),
           Of(j) # 0, status = "completed" => work[j].at = "prepared", rest' \in RereviewBound
    PROVE  RereviewSound'
<1>1. PICK r : r = Of(j)
    OBVIOUS
<1>2. r \in 1 .. Len(reviews) /\ reviews \in Seq(Rows) /\ WorkSound(j) /\ RowSound(r)
    BY <1>1, WorkFacts DEF RereviewSound, RowsSound
<1>3. PICK old \in Rows : old = reviews[r]
    BY <1>2
<1> DEFINE x == [old EXCEPT !.status = status]
<1>4. reviews' = [reviews EXCEPT ![r] = x]
    BY <1>1, <1>2, <1>3 DEF EndReview
<1>5. /\ x \in Rows /\ x.head = old.head /\ x.ignore = old.ignore /\ x.prior = old.prior /\ x.forge = old.forge
      /\ x.scope = old.scope /\ x.patch = old.patch /\ x.looked = old.looked /\ x.status = status
    BY DEF Rows, Statuses
<1> HIDE DEF x
<1>6. status = "completed" => x.scope # Nothing
    BY <1>1, <1>2, <1>3, <1>5 DEF WorkSound, RowSound, Of
<1>7. x.scope # Nothing => x.patch = PatchID(x.head) /\ LookedAt(x.scope, x.looked, r)
    BY <1>2, <1>3, <1>5 DEF RowSound
<1>8. /\ work' \in Seq(Works) /\ Len(work') = Len(work)
      /\ \A i \in 1 .. Len(work) : i # j => work'[i] = work[i]
      /\ work'[j].review = 0 /\ WorkSound(j)'
    BY LeaveFacts DEF EndReview
<1>9. UNCHANGED <<bot, base, head>>
    BY DEF EndReview
<1> QED BY <1>1, <1>3, <1>4, <1>5, <1>6, <1>7, <1>8, <1>9, ReviewMoves

LEMMA AfterRunInv ==
    ASSUME RereviewSound, NEW j \in 1 .. Len(work), AfterRun(j)
    PROVE  RereviewSound'
<1>1. work[j].at = "ran" /\ UNCHANGED <<bot, base, head, rest>> /\ rest' \in RereviewBound
    BY DEF AfterRun, RereviewSound, RereviewTyped
<1>2. PICK r : r = Of(j) /\ r # 0
    BY <1>1, WorkFacts
<1>3. r \in 1 .. Len(reviews) /\ reviews \in Seq(Rows) /\ WorkSound(j) /\ RowSound(r)
    BY <1>2, WorkFacts DEF RereviewSound, RowsSound
<1>4. PICK old \in Rows : old = reviews[r]
    BY <1>3
<1>5. PICK pack \in Packs : pack = work[j].pack
    BY <1>1, <1>3 DEF WorkSound
<1>6. /\ old.status = "running" /\ old.scope = Nothing /\ old.head = work[j].head
      /\ pack.patch = PatchID(old.head) /\ LookedAt(pack.scope, pack.looked, r)
      /\ pack.skip = "unchanged" => WasReviewed(PatchID(old.head))
      /\ old.status # "completed"
    BY <1>1, <1>2, <1>3, <1>4, <1>5 DEF WorkSound, Of
<1>7. /\ pack.patch \in Patches /\ pack.skip \in SkipReasons /\ pack.scope \in {"full", "incremental"}
      /\ pack.looked \in SUBSET Path
    BY DEF Packs
<1>8. \/ Superseded(j) /\ reviews' = [reviews EXCEPT ![r].status = "superseded"] /\ Leave(j)
      \/ /\ reviews' = [reviews EXCEPT ![r].status = "skipped", ![r].why = pack.skip, ![r].patch = pack.patch]
         /\ Leave(j)
      \/ /\ reviews' = [reviews EXCEPT ![r].status = "prepared", ![r].patch = pack.patch, ![r].scope = pack.scope,
                                       ![r].looked = pack.looked]
         /\ Advance(j, "prepared")
    BY <1>2, <1>5 DEF AfterRun
<1>9. ASSUME reviews' = [reviews EXCEPT ![r].status = "superseded"], Leave(j) PROVE RereviewSound'
  <2> DEFINE x == [old EXCEPT !.status = "superseded"]
  <2>1. reviews' = [reviews EXCEPT ![r] = x]
      BY <1>3, <1>4, <1>9
  <2>2. /\ x \in Rows /\ x.head = old.head /\ x.ignore = old.ignore /\ x.prior = old.prior /\ x.forge = old.forge
        /\ x.scope = old.scope /\ x.status = "superseded"
      BY DEF Rows, Statuses
  <2> HIDE DEF x
  <2>3. /\ work' \in Seq(Works) /\ Len(work') = Len(work)
        /\ \A i \in 1 .. Len(work) : i # j => work'[i] = work[i]
        /\ work'[j].review = 0 /\ WorkSound(j)'
      BY <1>9, LeaveFacts
  <2> QED BY <1>1, <1>2, <1>4, <1>6, <2>1, <2>2, <2>3, ReviewMoves
<1>10. ASSUME reviews' = [reviews EXCEPT ![r].status = "skipped", ![r].why = pack.skip, ![r].patch = pack.patch],
              Leave(j)
       PROVE  RereviewSound'
  <2> DEFINE x == [old EXCEPT !.status = "skipped", !.why = pack.skip, !.patch = pack.patch]
  <2>1. reviews' = [reviews EXCEPT ![r] = x]
      BY <1>3, <1>4, <1>10
  <2>2. /\ x \in Rows /\ x.head = old.head /\ x.ignore = old.ignore /\ x.prior = old.prior /\ x.forge = old.forge
        /\ x.scope = old.scope /\ x.status = "skipped" /\ x.why = pack.skip
      BY <1>7 DEF Rows, Statuses
  <2> HIDE DEF x
  <2>3. /\ work' \in Seq(Works) /\ Len(work') = Len(work)
        /\ \A i \in 1 .. Len(work) : i # j => work'[i] = work[i]
        /\ work'[j].review = 0 /\ WorkSound(j)'
      BY <1>10, LeaveFacts
  <2> QED BY <1>1, <1>2, <1>4, <1>6, <2>1, <2>2, <2>3, ReviewMoves
<1>11. ASSUME reviews' = [reviews EXCEPT ![r].status = "prepared", ![r].patch = pack.patch, ![r].scope = pack.scope,
                                        ![r].looked = pack.looked],
              Advance(j, "prepared")
       PROVE  RereviewSound'
  <2> DEFINE x == [old EXCEPT !.status = "prepared", !.patch = pack.patch, !.scope = pack.scope, !.looked = pack.looked]
  <2>1. reviews' = [reviews EXCEPT ![r] = x]
      BY <1>3, <1>4, <1>11
  <2>2. /\ x \in Rows /\ x.head = old.head /\ x.ignore = old.ignore /\ x.prior = old.prior /\ x.forge = old.forge
        /\ x.scope = pack.scope /\ x.patch = pack.patch /\ x.looked = pack.looked /\ x.status = "prepared"
      BY <1>7 DEF Rows, Statuses
  <2> HIDE DEF x
  <2>3. PICK w \in Works : w = work[j]
      BY WorkFacts
  <2> DEFINE y == [w EXCEPT !.at = "prepared"]
  <2>4. work' = [work EXCEPT ![j] = y]
      BY <1>11, <2>3, WorkFacts DEF Advance
  <2>5. /\ y \in Works /\ y.at = "prepared" /\ y.review = w.review /\ y.head = w.head /\ y.forge = w.forge
        /\ y.unchanged = w.unchanged /\ y.ignore = w.ignore
      BY DEF Works, AtWork
  <2> HIDE DEF y
  <2>6. /\ work' \in Seq(Works) /\ Len(work') = Len(work) /\ work'[j] = y
        /\ \A i \in 1 .. Len(work) : i # j => work'[i] = work[i]
      BY <2>4, <2>5, WorkFacts, PutFacts
  <2>7. /\ reviews' \in Seq(Rows) /\ Len(reviews') = Len(reviews) /\ reviews'[r] = x
        /\ \A s \in 1 .. Len(reviews) : s # r => reviews'[s] = reviews[s]
      BY <1>3, <2>1, <2>2, PutFacts
  <2>8. RowsKept
      BY <1>3, <1>4, <1>6, <2>2, <2>7 DEF RowsKept
  <2>9. y.unchanged = NoPatch \/ WasReviewed(y.unchanged)'
    <3>1. y.unchanged = NoPatch \/ WasReviewed(y.unchanged)
        BY <1>3, <2>3, <2>5 DEF WorkSound
    <3> QED BY <1>3, <2>7, <2>8, <3>1, ReviewedStays
  <2>10. WorkSound(j)'
    <3>1. /\ y.review = r /\ y.review # 0 /\ y.review <= Len(reviews')
          /\ x.head = y.head /\ x.ignore = y.ignore /\ y.forge \in {NoPatch, PatchID(y.head)}
        BY <1>2, <1>3, <1>4, <2>2, <2>3, <2>5, <2>7 DEF WorkSound, Of
    <3> QED BY <2>2, <2>5, <2>6, <2>7, <2>9, <3>1 DEF WorkSound, AtWork
  <2>11. x.scope # Nothing
      BY <1>7, <2>2 DEF Nothing
  <2>12. x.patch = PatchID(x.head) /\ LookedAt(x.scope, x.looked, r)
      BY <1>6, <2>2
  <2>13. work'[j].review \in {0, r}
      BY <1>2, <2>3, <2>5, <2>6 DEF Of
  <2> QED BY <1>1, <1>2, <1>4, <1>6, <2>1, <2>2, <2>6, <2>10, <2>11, <2>12, <2>13, ReviewMoves
<1> QED BY <1>8, <1>9, <1>10, <1>11

-----------------------------------------------------------------------------
(* New heads and new jobs. *)

LEMMA JobAdded ==
    ASSUME RereviewSound, NEW h \in PullHead, NEW trigger \in Triggers, work' = Append(work, Job(h, trigger)),
           UNCHANGED reviews, bot' \in BOOLEAN, base' \in Commit, head' \in PullHead, rest' \in RereviewBound
    PROVE  RereviewSound'
<1>1. PICK x \in Works : /\ x = Job(h, trigger)
                        /\ x.at = "queued" /\ x.review = 0 /\ x.forge = NoPatch /\ x.unchanged = NoPatch
    BY JobTyped
<1>2. work \in Seq(Works) /\ Len(work) \in Nat /\ reviews \in Seq(Rows)
    BY DEF RereviewSound, RereviewTyped
<1>3. /\ work' \in Seq(Works) /\ Len(work') = Len(work) + 1 /\ work'[Len(work) + 1] = x
      /\ \A i \in 1 .. Len(work) : work'[i] = work[i]
    BY <1>1, <1>2, AddFacts
<1>4. \A i \in 1 .. Len(work') : i \in 1 .. Len(work) \/ i = Len(work) + 1
    BY <1>2, <1>3
<1>5. RowsKept /\ \A r \in 1 .. Len(reviews) : reviews'[r] = reviews[r]
    BY SameRows
<1>6. RowsSound'
    BY <1>2, <1>5, RowStands DEF RereviewSound, RowsSound
<1>7. WorksSound'
  <2>1. ASSUME NEW i \in 1 .. Len(work) PROVE WorkSound(i)'
      BY <1>2, <1>3, <1>5, WorkStands DEF RereviewSound, WorksSound
  <2>2. ASSUME NEW i, i = Len(work) + 1 PROVE WorkSound(i)'
      BY <1>1, <1>3, <2>2 DEF WorkSound, AtWork
  <2> QED BY <1>4, <2>1, <2>2 DEF WorksSound
<1>8. Apart'
  <2> SUFFICES ASSUME NEW i \in 1 .. Len(work'), NEW k \in 1 .. Len(work'), i # k, work'[i].review # 0
               PROVE  work'[i].review # work'[k].review
      BY DEF Apart
  <2>1. i \in 1 .. Len(work)
      BY <1>1, <1>3, <1>4
  <2>2. CASE k \in 1 .. Len(work)
      BY <1>3, <2>1, <2>2 DEF RereviewSound, Apart
  <2>3. CASE k = Len(work) + 1
      BY <1>1, <1>3, <2>3
  <2> QED BY <1>4, <2>2, <2>3
<1>9. RereviewTyped'
    BY <1>2, <1>3 DEF RereviewTyped
<1> QED BY <1>6, <1>7, <1>8, <1>9 DEF RereviewSound

LEMMA NewHeadInv ==
    ASSUME RereviewSound, NEW tree \in Tree, NEW from \in Commit,
           NewHead([head EXCEPT !.base = from, !.tree = tree]) \/ NewHead([head EXCEPT !.tree = tree]),
           rest' \in RereviewBound
    PROVE  RereviewSound'
<1>1. head \in PullHead /\ bot \in BOOLEAN /\ base \in Commit
    BY DEF RereviewSound, RereviewTyped
<1>2. PICK old \in PullHead : old = head
    BY <1>1
<1>3. PICK new \in PullHead : /\ new \in {[old EXCEPT !.base = from, !.tree = tree], [old EXCEPT !.tree = tree]}
                             /\ NewHead(new)
  <2>1. [old EXCEPT !.base = from, !.tree = tree] \in PullHead /\ [old EXCEPT !.tree = tree] \in PullHead
      BY DEF PullHead
  <2> QED BY <1>2, <2>1
<1>4. head' \in PullHead /\ work' = Append(work, Job(head', "synchronize")) /\ UNCHANGED <<bot, base, reviews>>
  <2>1. head.n + 1 \in Nat
      BY <1>1 DEF PullHead
  <2>2. [new EXCEPT !.n = head.n + 1] \in PullHead
      BY <2>1 DEF PullHead
  <2> QED BY <1>3, <2>2 DEF NewHead
<1>5. PICK h \in PullHead : h = head'
    BY <1>4
<1> QED BY <1>1, <1>4, <1>5, JobAdded DEF Triggers

LEMMA RereviewInitSound == RereviewInit => RereviewSound
<1> SUFFICES ASSUME RereviewInit PROVE RereviewSound
    OBVIOUS
<1>1. base \in Commit /\ bot \in BOOLEAN /\ rest \in RereviewBound
  <2>1. [p \in Path |-> 0] \in Tree
      BY RereviewAssumption DEF Tree
  <2> QED BY <2>1, RereviewAssumption DEF RereviewInit, Commit
<1>2. head \in PullHead
  <2>1. PICK p \in Path, v \in Version \ {0} :
            head = [n |-> 1, tree |-> [base.tree EXCEPT ![p] = v], base |-> base]
      BY DEF RereviewInit
  <2>2. [base.tree EXCEPT ![p] = v] \in Tree
      BY <1>1 DEF Commit, Tree
  <2> QED BY <1>1, <2>1, <2>2 DEF PullHead
<1>3. PICK x \in Works : /\ x = Job(head, "synchronize")
                        /\ x.at = "queued" /\ x.review = 0 /\ x.forge = NoPatch /\ x.unchanged = NoPatch
    BY <1>2, JobTyped DEF Triggers
<1>4. work = <<x>> /\ reviews = <<>>
    BY <1>3 DEF RereviewInit
<1>5. work \in Seq(Works) /\ Len(work) = 1 /\ work[1] = x /\ reviews \in Seq(Rows) /\ Len(reviews) = 0
    BY <1>4
<1>6. RereviewTyped
    BY <1>1, <1>2, <1>5 DEF RereviewTyped
<1>7. Apart /\ RowsSound /\ WorksSound
    BY <1>3, <1>5 DEF Apart, RowsSound, WorksSound, WorkSound, AtWork
<1> QED BY <1>6, <1>7 DEF RereviewSound

-----------------------------------------------------------------------------
(* The theorem. *)

LEMMA RereviewNextSound == RereviewSound /\ [RereviewNext]_rereviewVars => RereviewSound'
<1> SUFFICES ASSUME RereviewSound, [RereviewNext]_rereviewVars PROVE RereviewSound'
    OBVIOUS
<1>1. rest \in RereviewBound /\ head \in PullHead /\ base \in Commit /\ bot \in BOOLEAN
      /\ DOMAIN work = 1 .. Len(work)
    BY DEF RereviewSound, RereviewTyped
<1>2. CASE Push
  <2>1. PICK tree \in Tree : NewHead([head EXCEPT !.tree = tree])
      BY <1>2 DEF Push
  <2>2. rest' \in RereviewBound
      BY <1>1, <1>2, RestTyped DEF Push
  <2> QED BY <1>1, <2>1, <2>2, NewHeadInv
<1>3. CASE Rebase
  <2> DEFINE tree == [p \in Path |-> IF p \in Diff(head) THEN head.tree[p] ELSE base.tree[p]]
  <2>1. NewHead([head EXCEPT !.base = base, !.tree = tree])
      BY <1>3 DEF Rebase
  <2>2. tree \in Tree
      BY <1>1 DEF Tree, Commit, PullHead
  <2>3. rest' \in RereviewBound
      BY <1>1, <1>3, RestTyped DEF Rebase
  <2> HIDE DEF tree
  <2> QED BY <1>1, <2>1, <2>2, <2>3, NewHeadInv
<1>4. CASE BaseCommit
  <2>1. UNCHANGED <<bot, head, work, reviews>> /\ rest' \in RereviewBound
      BY <1>1, <1>4, RestTyped DEF BaseCommit
  <2>2. base' \in Commit
    <3>1. CASE \E p \in Path, v \in Version : base' = [base EXCEPT !.tree[p] = v]
        BY <1>1, <3>1 DEF Commit, Tree
    <3>2. CASE \E d \in Doc : base' = [base EXCEPT !.doc = d]
        BY <1>1, <3>2, RereviewAssumption DEF Commit
    <3> QED BY <1>4, <3>1, <3>2 DEF BaseCommit
  <2> QED BY <2>1, <2>2 DEF RereviewSound, RereviewTyped, Apart, RowsSound, WorksSound, RowSound, WorkSound,
             WasReviewed, LookedAt
<1>5. CASE Rerun
  <2>1. work' = Append(work, Job(head, "manual")) /\ UNCHANGED <<bot, base, head, reviews>> /\ rest' \in RereviewBound
      BY <1>1, <1>5, RestTyped DEF Rerun
  <2> QED BY <1>1, <2>1, JobAdded DEF Triggers
<1>6. ASSUME NEW j \in 1 .. Len(work), Begins(j) \/ BeginsUntold(j) PROVE RereviewSound'
  <2>1. rest' \in RereviewBound
      BY <1>1, <1>6, RestTyped DEF Begins, BeginsUntold
  <2> QED BY <1>6, <2>1, BeginInv DEF Begins, BeginsUntold
<1>7. ASSUME NEW j \in 1 .. Len(work), Start(j) \/ AgentPrompt(j) \/ AfterRun(j) PROVE RereviewSound'
    BY <1>7, StartInv, AgentPromptInv, AfterRunInv
<1>8. ASSUME NEW j \in 1 .. Len(work), Runs(j) \/ RunsUnfetched(j) PROVE RereviewSound'
  <2>1. rest' \in RereviewBound
      BY <1>1, <1>8, RestTyped DEF Runs, RunsUnfetched
  <2> QED BY <1>8, <2>1, RunnerInv DEF Runs, RunsUnfetched
<1>9. ASSUME NEW j \in 1 .. Len(work), Publish(j) \/ Fail(j) PROVE RereviewSound'
  <2>1. rest' \in RereviewBound
      BY <1>1, <1>9, RestTyped DEF Publish, Fail
  <2>2. work[j].at = "prepared" => Of(j) # 0
      BY WorkFacts
  <2> QED BY <1>9, <2>1, <2>2, EndReviewInv DEF Publish, Fail
<1>10. CASE UNCHANGED rereviewVars
    BY <1>10, SMTT(30) DEF rereviewVars, RereviewSound, RereviewTyped, Apart, RowsSound, WorksSound, RowSound, WorkSound,
       WasReviewed, LookedAt, Of
<1> QED BY <1>1, <1>2, <1>3, <1>4, <1>5, <1>6, <1>7, <1>8, <1>9, <1>10 DEF RereviewNext

\* However a pull request is pushed to, rebased and reviewed again, whatever
\* its runners fetched and its jobs failed at: every path a completed review
\* owes a look had one by it or by a review it builds on, and no bot's patch is
\* skipped as unchanged that no review looked at (internal/review/scope.go,
\* internal/worker/incremental.go and review.go).
THEOREM NothingLeftOutUnseen == RereviewSpec => []LeftOutWasSeen
<1>1. RereviewSound => LeftOutWasSeen
  <2> SUFFICES ASSUME RereviewSound PROVE LeftOutWasSeen
      OBVIOUS
  <2>1. reviews \in Seq(Rows) /\ DOMAIN reviews = 1 .. Len(reviews) /\ RowsSound
      BY DEF RereviewSound, RereviewTyped
  <2>2. ReviewedHeadIsCovered
      BY <2>1, SoundRowsCover DEF RowsSound
  <2>3. SkippedPatchWasReviewed
      BY <2>1 DEF RowsSound, RowSound, WasReviewed, SkippedPatchWasReviewed
  <2> QED BY <2>2, <2>3 DEF LeftOutWasSeen
<1> QED BY <1>1, RereviewInitSound, RereviewNextSound, PTL DEF RereviewSpec

LEMMA RereviewTypes == RereviewSound => RereviewTypeOK
<1> SUFFICES ASSUME RereviewSound PROVE RereviewTypeOK
    OBVIOUS
<1>1. work \in Seq(Works) /\ reviews \in Seq(Rows) /\ Len(reviews) \in Nat
      /\ DOMAIN work = 1 .. Len(work) /\ DOMAIN reviews = 1 .. Len(reviews)
    BY DEF RereviewSound, RereviewTyped
<1>2. ASSUME NEW j \in DOMAIN work
      PROVE  /\ work[j].head \in PullHead /\ work[j].trigger \in Triggers
             /\ work[j].at \in {"queued", "begun", "started", "told", "ran", "prepared", "over"}
             /\ work[j].review \in 0 .. Len(reviews)
  <2>1. work[j] \in Works
      BY <1>1
  <2>2. WorkSound(j)
      BY <1>1 DEF RereviewSound, WorksSound
  <2>3. work[j].review \in Nat
      BY <2>1 DEF Works
  <2>4. work[j].review # 0 => work[j].review <= Len(reviews)
      BY <2>2 DEF WorkSound
  <2>5. work[j].review \in 0 .. Len(reviews)
      BY <1>1, <2>3, <2>4
  <2> QED BY <2>1, <2>5 DEF Works, AtWork
<1>3. ASSUME NEW r \in DOMAIN reviews
      PROVE  /\ reviews[r].head \in PullHead /\ reviews[r].prior \in 0 .. r - 1 /\ reviews[r].looked \subseteq Path
             /\ reviews[r].status \in {"running", "prepared", "completed", "superseded", "skipped", "failed"}
  <2>1. reviews[r] \in Rows
      BY <1>1
  <2>2. reviews[r].prior < r /\ r \in Nat
      BY <1>1 DEF RereviewSound, RowsSound, RowSound
  <2>3. reviews[r].prior \in Nat
      BY <2>1 DEF Rows
  <2>4. reviews[r].prior \in 0 .. r - 1
      BY <2>2, <2>3
  <2> QED BY <2>1, <2>4 DEF Rows, Statuses
<1> QED BY <1>2, <1>3 DEF RereviewSound, RereviewTyped, RereviewTypeOK

\* The types of the reviews, the jobs and the heads they are of: among them
\* that a review only builds on an earlier one.
THEOREM RereviewIsTyped == RereviewSpec => []RereviewTypeOK
<1>1. RereviewSound => RereviewTypeOK
    BY RereviewTypes
<1> QED BY <1>1, RereviewInitSound, RereviewNextSound, PTL DEF RereviewSpec

-----------------------------------------------------------------------------
(***************************************************************************)
(* The transcript of a run, for every set of masks, every limit of what is *)
(* recorded and every number of steps, faults and calls sent again.        *)
(*                                                                         *)
(* Of a row only two things matter: it is its call's delta, and what its   *)
(* call had read is what the row before it left, since the lock is held    *)
(* from the read to the insert.  The conversation a reader rebuilds is     *)
(* then right by a descent within the state: the first row it had wrong    *)
(* would follow one it had right.                                          *)
(***************************************************************************)

\* What a message, a state, a call and a row are.
Message  == Nat \X (Mask \cup {"plain"})
Recorded == {s \in [end : Nat, sha : Seq(Message), system : {<<>>} \cup Message, bytes : Nat] : Len(s.sha) = s.end}
Call     == [length : Nat \ {0}, mask : Mask, at : Recording \cup {"asked", "recorded", "over"}, prev : Recorded]
CallRow  == [from : Nat, messages : Seq(Message), truncated : BOOLEAN, system : {<<>>} \cup Message,
             of : Call, state : Recorded]

TranscriptTyped ==
    /\ talk \in [length : Nat \ {0}, waits : 0 .. Len(calls)]
    /\ calls \in Seq(Call) /\ rows \in Seq(CallRow) /\ slack \in TranscriptBound

\* A row is its call's delta against what the row before it left.
RowFollows(i) ==
    /\ rows[i] = Delta(rows[i].of)
    /\ rows[i].of.prev = IF i = 1 THEN Unrecorded ELSE rows[i - 1].state

\* One call at a time has the lock, and nothing was recorded since it read.
LockHeld ==
    /\ \A i, j \in DOMAIN calls : calls[i].at = "locked" /\ calls[j].at = "locked" => i = j
    /\ \A i \in DOMAIN calls : calls[i].at = "locked" => calls[i].prev = StateNow

TranscriptSound == TranscriptTyped /\ LockHeld /\ \A i \in DOMAIN rows : RowFollows(i)

-----------------------------------------------------------------------------
(* The recursion of Rebuilt *)

\* It goes back to earlier rows only, and so has a function that satisfies it.
LEMMA RebuiltFacts ==
    ASSUME rows \in Seq(CallRow)
    PROVE  /\ Rebuilt[0] = [messages |-> <<>>, system |-> <<>>]
           /\ \A i \in 1 .. Len(rows) : Rebuilt[i] =
                [messages |-> SubSeq(Rebuilt[i - 1].messages, 1, rows[i].from) \o rows[i].messages,
                 system   |-> IF rows[i].system = <<>> THEN Rebuilt[i - 1].system ELSE rows[i].system]
<1> DEFINE Then(b, i) == [messages |-> SubSeq(b.messages, 1, rows[i].from) \o rows[i].messages,
                          system   |-> IF rows[i].system = <<>> THEN b.system ELSE rows[i].system]
           Blank == [messages |-> <<>>, system |-> <<>>]
           Back(f, i) == IF i = 0 THEN Blank ELSE Then(f[i - 1], i)
           Fits(f, n) == f = [i \in 0 .. n |-> Back(f, i)]
           Unfit == {n \in 0 .. Len(rows) : ~(\E f : Fits(f, n))}
           all == CHOOSE f : Fits(f, Len(rows))
<1>1. Len(rows) \in Nat
    OBVIOUS
<1>2. \E f : Fits(f, Len(rows))
  <2> SUFFICES ASSUME Unfit # {} PROVE FALSE
    <3> HIDE DEF Fits
    <3> QED BY <1>1
  <2> HIDE DEF Then, Blank
  <2>1. PICK n \in Unfit : \A m \in Unfit : n <= m
    <3>1. Unfit \subseteq Nat
        OBVIOUS
    <3> QED BY <3>1, LeastOf
  <2>2. n # 0
    <3> DEFINE g == [i \in 0 .. 0 |-> Blank]
    <3>1. Fits(g, 0)
        OBVIOUS
    <3> QED BY <2>1, <3>1
  <2>3. n - 1 \in 0 .. Len(rows) /\ n - 1 \notin Unfit /\ n \in 1 .. Len(rows)
    <3> HIDE DEF Fits
    <3> QED BY <1>1, <2>1, <2>2
  <2>4. PICK f : Fits(f, n - 1)
      BY <2>3
  <2> DEFINE g == [i \in 0 .. n |-> Back(f, i)]
  <2>5. ASSUME NEW i \in 0 .. n PROVE Back(f, i) = Back(g, i)
    <3>1. CASE i = 0
        BY <3>1
    <3>2. CASE i # 0
      <4>1. i - 1 \in 0 .. n - 1 /\ i - 1 \in 0 .. n
          BY <2>3, <3>2
      <4>2. f[i - 1] = Back(f, i - 1)
          BY <2>4, <4>1
      <4>3. g[i - 1] = Back(f, i - 1)
        <5> HIDE DEF Back
        <5> QED BY <4>1
      <4> QED BY <3>2, <4>2, <4>3
    <3> QED BY <3>1, <3>2
  <2>6. Fits(g, n)
    <3> HIDE DEF Back
    <3> QED BY <2>5
  <2> QED BY <2>1, <2>6
<1>3. Fits(all, Len(rows))
    BY <1>2
<1>4. Rebuilt = all
    BY DEF Rebuilt
<1>5. ASSUME NEW i \in 0 .. Len(rows) PROVE Rebuilt[i] = Back(Rebuilt, i)
  <2> HIDE DEF Back, all
  <2> QED BY <1>3, <1>4
<1> HIDE DEF all
<1>6. Rebuilt[0] = Blank
  <2> HIDE DEF Then, Blank
  <2>1. 0 \in 0 .. Len(rows)
      BY <1>1
  <2> QED BY <1>5, <2>1
<1>7. ASSUME NEW i \in 1 .. Len(rows) PROVE Rebuilt[i] = Then(Rebuilt[i - 1], i)
  <2> HIDE DEF Then
  <2>1. i \in 0 .. Len(rows) /\ i # 0
      BY <1>1
  <2> QED BY <1>5, <2>1
<1> QED BY <1>6, <1>7

-----------------------------------------------------------------------------
(* What a row is *)

LEMMA RequestFacts ==
    ASSUME NEW c \in Call
    PROVE  /\ Request(c) \in Seq(Message) /\ Len(Request(c)) = c.length /\ c.length \in Nat \ {0}
           /\ Masked(0, c.mask) \in Message /\ Masked(0, c.mask) # <<>>
<1>1. c.length \in Nat \ {0} /\ c.mask \in Mask
    BY DEF Call
<1>2. \A n \in Nat : Masked(n, c.mask) \in Message
    BY <1>1 DEF Masked, Message
<1>3. Request(c) \in Seq(Message) /\ Len(Request(c)) = c.length
    BY <1>1, <1>2 DEF Request
<1>4. Masked(0, c.mask) # <<>>
    BY DEF Masked
<1> QED BY <1>1, <1>2, <1>3, <1>4

\* The messages of a row complete those recorded to its call's request,
\* whether they extend them or are all of it.
LEMMA DeltaFacts ==
    ASSUME NEW c \in Call
    PROVE  LET d == Delta(c) IN
           /\ d \in CallRow /\ d.of = c /\ d.from \in 0 .. d.state.end
           /\ d.state.sha = Request(c) /\ d.state.system = Masked(0, c.mask)
           /\ d.truncated = (c.prev.bytes > RunCap)
           /\ d.truncated => d.messages = <<>> /\ d.state.bytes = c.prev.bytes
           /\ ~d.truncated => /\ SubSeq(c.prev.sha, 1, d.from) \o d.messages = Request(c)
                              /\ d.system = IF Masked(0, c.mask) = c.prev.system THEN <<>> ELSE Masked(0, c.mask)
<1> DEFINE req == Request(c)
           prev == c.prev
           from == IF Extends(prev, req) THEN prev.end ELSE 0
           system == Masked(0, c.mask)
           full == prev.bytes > RunCap
           new == IF full THEN <<>> ELSE SubSeq(req, from + 1, Len(req))
<1>1. req \in Seq(Message) /\ Len(req) \in Nat /\ system \in Message
    BY RequestFacts
<1>2. prev \in Recorded /\ prev.end \in Nat /\ prev.sha \in Seq(Message) /\ Len(prev.sha) = prev.end
      /\ prev.bytes \in Nat /\ prev.system \in {<<>>} \cup Message
    BY DEF Call, Recorded
<1>3. Delta(c) = [from |-> from, messages |-> new, truncated |-> full,
                  system |-> IF full \/ system = prev.system THEN <<>> ELSE system, of |-> c,
                  state |-> [end |-> Len(req), sha |-> req, system |-> system, bytes |-> prev.bytes + Len(new)]]
    BY DEF Delta
<1> HIDE DEF req, system
<1>4. from \in 0 .. Len(req) /\ SubSeq(prev.sha, 1, from) = SubSeq(req, 1, from)
  <2>1. CASE Extends(prev, req)
    <3>1. from = prev.end /\ prev.end <= Len(req) /\ SubSeq(req, 1, prev.end) = prev.sha
        BY <2>1 DEF Extends
    <3>2. SubSeq(prev.sha, 1, prev.end) = prev.sha
        BY <1>2, SubSeqFull
    <3> QED BY <1>1, <1>2, <3>1, <3>2
  <2>2. CASE ~Extends(prev, req)
    <3>1. from = 0
        BY <2>2
    <3>2. SubSeq(prev.sha, 1, 0) = <<>> /\ SubSeq(req, 1, 0) = <<>>
        BY SubSeqEmpty
    <3> QED BY <1>1, <3>1, <3>2
  <2> QED BY <2>1, <2>2
<1> HIDE DEF from
<1>5. SubSeq(req, 1, from) \o SubSeq(req, from + 1, Len(req)) = req /\ SubSeq(req, from + 1, Len(req)) \in Seq(Message)
  <2>1. 1 \in 1 .. Len(req) + 1 /\ from \in 1 - 1 .. Len(req) /\ Len(req) \in from .. Len(req)
      BY <1>1, <1>4
  <2>2. SubSeq(req, 1, from) \o SubSeq(req, from + 1, Len(req)) = SubSeq(req, 1, Len(req))
      BY <1>1, <2>1, ConcatAdjacentSubSeq
  <2>3. SubSeq(req, 1, Len(req)) = req
      BY <1>1, SubSeqFull
  <2>4. \A k \in from + 1 .. Len(req) : req[k] \in Message
      BY <1>1, <1>4
  <2>5. SubSeq(req, from + 1, Len(req)) \in Seq(Message)
      BY <1>1, <1>4, <2>4, SubSeqProperties
  <2> QED BY <2>2, <2>3, <2>5
<1>6. new \in Seq(Message) /\ (full => new = <<>>) /\ (~full => new = SubSeq(req, from + 1, Len(req)))
      /\ (full => Len(new) = 0) /\ full \in BOOLEAN /\ Len(new) \in Nat
    BY <1>5, <1>2, SMTT(30)
<1> HIDE DEF new, full
<1>7. [end |-> Len(req), sha |-> req, system |-> system, bytes |-> prev.bytes + Len(new)] \in Recorded
    BY <1>1, <1>2, <1>6 DEF Recorded
<1>8. Delta(c) \in CallRow
  <2>1. from \in Nat
      BY <1>1, <1>4
  <2> QED BY <1>1, <1>3, <1>6, <1>7, <2>1 DEF CallRow
<1>9. full => prev.bytes + Len(new) = prev.bytes
    BY <1>2, <1>6
<1>10. full = (prev.bytes > RunCap) /\ req = Request(c) /\ system = Masked(0, c.mask)
    BY DEF full, req, system
<1>11. Delta(c).of = c /\ Delta(c).from = from /\ Delta(c).messages = new /\ Delta(c).truncated = full
       /\ Delta(c).system = (IF full \/ system = prev.system THEN <<>> ELSE system)
    BY <1>3
<1>12. Delta(c).state.end = Len(req) /\ Delta(c).state.sha = req /\ Delta(c).state.system = system
       /\ Delta(c).state.bytes = prev.bytes + Len(new)
    BY <1>3
<1>13. ~full => SubSeq(prev.sha, 1, from) \o new = req
    BY <1>4, <1>5, <1>6
<1> HIDE DEF prev
<1>14. prev = c.prev
    BY DEF prev
<1> QED BY <1>4, <1>6, <1>8, <1>9, <1>10, <1>11, <1>12, <1>13, <1>14

-----------------------------------------------------------------------------
(* What the rows say together *)

\* After a row that recorded too much no row has any: the first that had
\* some would follow one that had none, and left as much recorded.
LEMMA TruncatedFromOn ==
    ASSUME TranscriptSound, TranscriptAssumption, NEW i \in 1 .. Len(rows), rows[i].truncated, NEW j \in i .. Len(rows)
    PROVE  rows[j].truncated
<1> DEFINE Untold == {k \in i .. Len(rows) : ~rows[k].truncated}
<1>1. Len(rows) \in Nat /\ Untold \subseteq Nat /\ RunCap \in Nat /\ DOMAIN rows = 1 .. Len(rows)
    BY DEF TranscriptSound, TranscriptTyped, TranscriptAssumption
<1> SUFFICES ASSUME Untold # {} PROVE FALSE
    BY <1>1
<1>2. PICK k \in Untold : \A m \in Untold : k <= m
    BY <1>1, LeastOf
<1>3. k # i /\ k - 1 \in i .. Len(rows) /\ k \in 1 .. Len(rows) /\ k - 1 \in 1 .. Len(rows) /\ k # 1
    BY <1>1, <1>2
<1>4. k - 1 \notin Untold
    BY <1>1, <1>2, <1>3
<1>5. rows[k - 1].truncated /\ ~rows[k].truncated
    BY <1>2, <1>3, <1>4
<1> HIDE DEF Untold
<1>6. rows[k] \in CallRow /\ rows[k - 1] \in CallRow /\ rows[k].of \in Call /\ rows[k - 1].of \in Call
  <2>1. rows[k] \in CallRow /\ rows[k - 1] \in CallRow
      BY <1>3 DEF TranscriptSound, TranscriptTyped
  <2> QED BY <2>1 DEF CallRow
<1>7. rows[k] = Delta(rows[k].of) /\ rows[k - 1] = Delta(rows[k - 1].of) /\ rows[k].of.prev = rows[k - 1].state
    BY <1>1, <1>3 DEF TranscriptSound, RowFollows
<1>8. rows[k].of.prev.bytes = rows[k - 1].of.prev.bytes /\ rows[k - 1].of.prev.bytes > RunCap
    BY <1>5, <1>6, <1>7, DeltaFacts, SMTT(30)
<1> QED BY <1>5, <1>6, <1>7, <1>8, DeltaFacts

\* The first row that its reader had wrong would follow one it had right.
LEMMA SoundRowsRebuild == TranscriptSound /\ TranscriptAssumption => TranscriptRebuilds
<1> SUFFICES ASSUME TranscriptSound, TranscriptAssumption PROVE TranscriptRebuilds
    OBVIOUS
<1> DEFINE Whole(i) == [messages |-> Request(rows[i].of), system |-> Masked(0, rows[i].of.mask)]
           Wrong == {i \in 1 .. Len(rows) : ~rows[i].truncated /\ Rebuilt[i] # Whole(i)}
<1>1. rows \in Seq(CallRow) /\ Len(rows) \in Nat /\ Wrong \subseteq Nat /\ DOMAIN rows = 1 .. Len(rows)
    BY DEF TranscriptSound, TranscriptTyped
<1>2. ASSUME NEW i \in 1 .. Len(rows)
      PROVE  rows[i] \in CallRow /\ rows[i].of \in Call /\ rows[i] = Delta(rows[i].of)
             /\ rows[i].of.prev = IF i = 1 THEN Unrecorded ELSE rows[i - 1].state
  <2>1. rows[i] \in CallRow
      BY <1>1
  <2>2. RowFollows(i)
      BY <1>1 DEF TranscriptSound
  <2> QED BY <2>1, <2>2 DEF CallRow, RowFollows
<1>3. Wrong = {}
  <2> SUFFICES ASSUME Wrong # {} PROVE FALSE
      OBVIOUS
  <2>1. PICK i \in Wrong : \A m \in Wrong : i <= m
      BY <1>1, LeastOf
  <2>2. i \in 1 .. Len(rows) /\ ~rows[i].truncated /\ Rebuilt[i] # Whole(i)
      BY <2>1
  <2> DEFINE c == rows[i].of
  <2>3. c \in Call /\ rows[i] = Delta(c) /\ c.prev = IF i = 1 THEN Unrecorded ELSE rows[i - 1].state
      BY <1>2, <2>2
  <2>4. Rebuilt[i] = [messages |-> SubSeq(Rebuilt[i - 1].messages, 1, rows[i].from) \o rows[i].messages,
                      system   |-> IF rows[i].system = <<>> THEN Rebuilt[i - 1].system ELSE rows[i].system]
      BY <1>1, <2>2, RebuiltFacts
  <2>5. Rebuilt[i - 1] = [messages |-> c.prev.sha, system |-> c.prev.system]
    <3>1. CASE i = 1
      <4>1. Rebuilt[0] = [messages |-> <<>>, system |-> <<>>] /\ i - 1 = 0
          BY <1>1, <3>1, RebuiltFacts
      <4>2. c.prev.sha = <<>> /\ c.prev.system = <<>>
          BY <2>3, <3>1 DEF Unrecorded
      <4> QED BY <4>1, <4>2
    <3>2. CASE i # 1
      <4>1. i - 1 \in 1 .. Len(rows) /\ i \in i - 1 .. Len(rows) /\ ~(i <= i - 1)
          BY <1>1, <2>2, <3>2
      <4>2. ~rows[i - 1].truncated
          BY <2>2, <4>1, TruncatedFromOn
      <4>3. i - 1 \notin Wrong
          BY <2>1, <4>1
      <4>4. Rebuilt[i - 1] = Whole(i - 1)
          BY <4>1, <4>2, <4>3
      <4>5. rows[i - 1].of \in Call /\ rows[i - 1] = Delta(rows[i - 1].of)
          BY <1>2, <4>1
      <4>6. rows[i - 1].state.sha = Request(rows[i - 1].of) /\ rows[i - 1].state.system = Masked(0, rows[i - 1].of.mask)
          BY <4>5, DeltaFacts
      <4> QED BY <2>3, <3>2, <4>4, <4>6
    <3> QED BY <3>1, <3>2
  <2>6. /\ SubSeq(c.prev.sha, 1, rows[i].from) \o rows[i].messages = Request(c)
        /\ rows[i].system = IF Masked(0, c.mask) = c.prev.system THEN <<>> ELSE Masked(0, c.mask)
      BY <2>2, <2>3, DeltaFacts
  <2>7. Masked(0, c.mask) # <<>>
      BY <2>3, RequestFacts
  <2>8. Rebuilt[i - 1].messages = c.prev.sha /\ Rebuilt[i - 1].system = c.prev.system
      BY <2>5
  <2>9. SubSeq(Rebuilt[i - 1].messages, 1, rows[i].from) \o rows[i].messages = Request(c)
      BY <2>6, <2>8
  <2>10. (IF rows[i].system = <<>> THEN Rebuilt[i - 1].system ELSE rows[i].system) = Masked(0, c.mask)
      BY <2>6, <2>7, <2>8
  <2>11. Rebuilt[i] = Whole(i)
      BY <2>4, <2>9, <2>10
  <2> QED BY <2>2, <2>11
<1>4. ASSUME NEW i \in 1 .. Len(rows), rows[i].truncated
      PROVE  rows[i].messages = <<>> /\ \A j \in i .. Len(rows) : rows[j].truncated
    BY <1>2, <1>4, DeltaFacts, TruncatedFromOn
<1>5. ASSUME NEW i \in 1 .. Len(rows), ~rows[i].truncated PROVE Rebuilt[i] = Whole(i)
    BY <1>3, <1>5
<1> HIDE DEF Wrong
<1> QED BY <1>1, <1>4, <1>5 DEF TranscriptRebuilds

-----------------------------------------------------------------------------
(* The invariant *)

LEMMA TranscriptInitSound == TranscriptInit /\ TranscriptAssumption => TranscriptSound
<1> SUFFICES ASSUME TranscriptInit, TranscriptAssumption PROVE TranscriptSound
    OBVIOUS
<1>1. calls = <<>> /\ rows = <<>> /\ talk = [length |-> 1, waits |-> 0] /\ slack \in TranscriptBound
    BY DEF TranscriptInit, TranscriptAssumption
<1>2. Len(calls) = 0 /\ DOMAIN calls = {} /\ DOMAIN rows = {}
    BY <1>1
<1> QED BY <1>1, <1>2 DEF TranscriptSound, TranscriptTyped, LockHeld

\* The state a call reads.
LEMMA StateTyped == TranscriptTyped => StateNow \in Recorded
<1> SUFFICES ASSUME TranscriptTyped PROVE StateNow \in Recorded
    OBVIOUS
<1>1. CASE rows = <<>>
    BY <1>1 DEF StateNow, Unrecorded, Recorded
<1>2. CASE rows # <<>>
  <2>1. rows[Len(rows)] \in CallRow
      BY <1>2 DEF TranscriptTyped
  <2> QED BY <1>2, <2>1 DEF StateNow, CallRow
<1> QED BY <1>1, <1>2

LEMMA SlackTyped == TranscriptTyped /\ (slack' = slack \/ \E w \in {"steps", "faults", "retries"} : Slack(w))
                        => slack' \in TranscriptBound
    BY SMTT(30) DEF TranscriptTyped, Slack, TranscriptBound

\* A new call has no lock.
LEMMA AskInv ==
    ASSUME TranscriptSound, Ask, slack' \in TranscriptBound
    PROVE  TranscriptSound'
<1>1. PICK m \in Mask : calls' = Append(calls, [length |-> talk.length, mask |-> m, at |-> "asked", prev |-> Unrecorded])
    BY DEF Ask
<1> DEFINE c == [length |-> talk.length, mask |-> m, at |-> "asked", prev |-> Unrecorded]
<1>2. calls \in Seq(Call) /\ Len(calls) \in Nat /\ c \in Call /\ c.at = "asked"
    BY DEF TranscriptSound, TranscriptTyped, Call, Unrecorded, Recorded
<1> HIDE DEF c
<1>3. /\ calls' \in Seq(Call) /\ Len(calls') = Len(calls) + 1
      /\ \A i \in DOMAIN calls' : (i \in DOMAIN calls /\ calls'[i] = calls[i]) \/ calls'[i].at = "asked"
    BY <1>1, <1>2 DEF c
<1>4. rows' = rows /\ talk' = [talk EXCEPT !.waits = Len(calls) + 1]
    BY DEF Ask
<1>5. talk' \in [length : Nat \ {0}, waits : 0 .. Len(calls')]
    BY <1>2, <1>3, <1>4 DEF TranscriptSound, TranscriptTyped
<1>6. LockHeld'
    BY <1>3, <1>4 DEF TranscriptSound, LockHeld, StateNow
<1> QED BY <1>3, <1>4, <1>5, <1>6 DEF TranscriptSound, TranscriptTyped, RowFollows

\* A call moves and no row is added.
LEMMA MoveInv ==
    ASSUME TranscriptSound, NEW i \in DOMAIN calls, NEW c \in Call, calls' = [calls EXCEPT ![i] = c],
           c.at # "locked" \/ (c.prev = StateNow /\ \A j \in DOMAIN calls : calls[j].at # "locked"),
           rows' = rows, talk' \in [length : Nat \ {0}, waits : 0 .. Len(calls)], slack' \in TranscriptBound
    PROVE  TranscriptSound'
<1>1. calls \in Seq(Call) /\ calls' \in Seq(Call) /\ Len(calls') = Len(calls) /\ DOMAIN calls' = DOMAIN calls
    BY DEF TranscriptSound, TranscriptTyped
<1>2. \A j \in DOMAIN calls : calls'[j] = IF j = i THEN c ELSE calls[j]
    BY <1>1
<1>3. LockHeld'
    BY <1>1, <1>2 DEF TranscriptSound, LockHeld, StateNow
<1> QED BY <1>1, <1>3 DEF TranscriptSound, TranscriptTyped, RowFollows

\* A row is added, by the one call that had the lock.
LEMMA InsertInv ==
    ASSUME TranscriptSound, NEW i \in DOMAIN calls, InsertModelCall(i)
    PROVE  TranscriptSound'
<1> DEFINE c == calls[i]
           n == Len(rows)
<1>1. calls \in Seq(Call) /\ c \in Call /\ rows \in Seq(CallRow) /\ n \in Nat /\ DOMAIN rows = 1 .. n
    BY DEF TranscriptSound, TranscriptTyped
<1>2. rows' = Append(rows, Delta(c)) /\ calls' = [calls EXCEPT ![i].at = "recorded"] /\ c.at = "locked"
      /\ talk' = talk /\ slack' = slack
    BY DEF InsertModelCall, CallAt
<1>3. c.prev = StateNow
    BY <1>2 DEF TranscriptSound, LockHeld
<1>4. Delta(c) \in CallRow /\ Delta(c).of = c
    BY <1>1, DeltaFacts
<1>5. rows' \in Seq(CallRow) /\ Len(rows') = n + 1 /\ rows'[n + 1] = Delta(c)
      /\ DOMAIN rows' = 1 .. n + 1 /\ \A k \in 1 .. n : rows'[k] = rows[k]
    BY <1>1, <1>2, <1>4
<1>6. [c EXCEPT !.at = "recorded"] \in Call
    BY <1>1 DEF Call
<1>7. calls' \in Seq(Call) /\ Len(calls') = Len(calls) /\ DOMAIN calls' = DOMAIN calls
      /\ \A j \in DOMAIN calls : calls'[j] = IF j = i THEN [c EXCEPT !.at = "recorded"] ELSE calls[j]
    BY <1>1, <1>2, <1>6
<1>8. LockHeld'
  <2>1. \A j \in DOMAIN calls : j # i => calls[j].at # "locked"
      BY <1>2 DEF TranscriptSound, LockHeld
  <2>2. [c EXCEPT !.at = "recorded"].at = "recorded"
      BY <1>1 DEF Call
  <2>3. \A j \in DOMAIN calls' : calls'[j].at # "locked"
      BY <1>7, <2>1, <2>2
  <2> QED BY <2>3 DEF LockHeld
<1>9. ASSUME NEW k \in DOMAIN rows' PROVE RowFollows(k)'
  <2>1. CASE k = n + 1
    <3>1. rows'[k] = Delta(c) /\ rows'[k].of = c
        BY <1>4, <1>5, <2>1
    <3>2. StateNow = IF k = 1 THEN Unrecorded ELSE rows'[k - 1].state
      <4>1. CASE n = 0
          BY <1>1, <2>1, <4>1 DEF StateNow
      <4>2. CASE n # 0
        <5>1. rows # <<>> /\ k # 1 /\ k - 1 = n /\ n \in 1 .. n
            BY <1>1, <2>1, <4>2
        <5> QED BY <1>5, <5>1 DEF StateNow
      <4> QED BY <4>1, <4>2
    <3> QED BY <1>3, <3>1, <3>2 DEF RowFollows
  <2>2. CASE k # n + 1
    <3>1. k \in 1 .. n /\ (k # 1 => k - 1 \in 1 .. n)
        BY <1>1, <1>5, <2>2
    <3>2. RowFollows(k)
        BY <1>1, <3>1 DEF TranscriptSound
    <3> QED BY <1>5, <3>1, <3>2 DEF RowFollows
  <2> QED BY <2>1, <2>2
<1> QED BY <1>2, <1>5, <1>7, <1>8, <1>9 DEF TranscriptSound, TranscriptTyped

LEMMA TranscriptNextSound == TranscriptSound /\ [TranscriptNext]_transcriptVars => TranscriptSound'
<1> SUFFICES ASSUME TranscriptSound, [TranscriptNext]_transcriptVars PROVE TranscriptSound'
    OBVIOUS
<1>1. TranscriptTyped /\ calls \in Seq(Call) /\ talk \in [length : Nat \ {0}, waits : 0 .. Len(calls)]
      /\ slack \in TranscriptBound
    BY DEF TranscriptSound, TranscriptTyped
<1>2. ASSUME NEW w \in {"steps", "faults", "retries"}, Slack(w) PROVE slack' \in TranscriptBound
    BY <1>1, <1>2, SlackTyped
<1>3. CASE SendStep
    BY <1>2, <1>3, AskInv DEF SendStep
<1>4. CASE SendAgain
    BY <1>2, <1>4, AskInv DEF SendAgain
<1>5. ASSUME NEW i \in DOMAIN calls, NEW place \in {"record", "recorded", "over"}
      PROVE  /\ [calls[i] EXCEPT !.at = place] \in Call
             /\ [calls[i] EXCEPT !.at = place].at # "locked"
             /\ [calls EXCEPT ![i].at = place] = [calls EXCEPT ![i] = [calls[i] EXCEPT !.at = place]]
  <2>1. calls[i] \in Call
      BY <1>1
  <2> QED BY <2>1 DEF Call, Recording
<1>6. ASSUME NEW i \in DOMAIN calls, StartRecord(i) PROVE TranscriptSound'
    BY <1>1, <1>5, <1>6, MoveInv DEF StartRecord, CallAt
<1>7. ASSUME NEW i \in DOMAIN calls, AgentState(i) PROVE TranscriptSound'
  <2> DEFINE c == [calls[i] EXCEPT !.at = "locked", !.prev = StateNow]
  <2>1. calls[i] \in Call /\ StateNow \in Recorded
      BY <1>1, StateTyped
  <2>2. c \in Call /\ c.prev = StateNow
      BY <2>1 DEF Call, Recording
  <2>3. calls' = [calls EXCEPT ![i] = c]
      BY <1>1, <1>7 DEF AgentState
  <2>4. rows' = rows /\ talk' = talk /\ slack' = slack /\ \A j \in DOMAIN calls : calls[j].at # "locked"
      BY <1>7 DEF AgentState
  <2> HIDE DEF c
  <2> QED BY <1>1, <2>2, <2>3, <2>4, MoveInv
<1>8. ASSUME NEW i \in DOMAIN calls, InsertModelCall(i) PROVE TranscriptSound'
    BY <1>8, InsertInv
<1>9. ASSUME NEW i \in DOMAIN calls, RecordFails(i) PROVE TranscriptSound'
  <2>1. slack' \in TranscriptBound
      BY <1>2, <1>9 DEF RecordFails
  <2> QED BY <1>1, <1>5, <1>9, <2>1, MoveInv DEF RecordFails, CallAt
<1>10. ASSUME NEW i \in DOMAIN calls, Reply(i) PROVE TranscriptSound'
  <2>1. talk' \in [length : Nat \ {0}, waits : 0 .. Len(calls)]
      BY <1>1, <1>10 DEF Reply
  <2> QED BY <1>1, <1>5, <1>10, <2>1, MoveInv DEF Reply, CallAt
<1>11. ASSUME NEW i \in DOMAIN calls, ReplicaDies(i) PROVE TranscriptSound'
  <2>1. slack' \in TranscriptBound
      BY <1>2, <1>11 DEF ReplicaDies
  <2> QED BY <1>1, <1>5, <1>11, <2>1, MoveInv DEF ReplicaDies, CallAt
<1>12. CASE UNCHANGED transcriptVars
    BY <1>12 DEF transcriptVars, TranscriptSound, TranscriptTyped, LockHeld, StateNow, RowFollows
<1> QED BY <1>3, <1>4, <1>6, <1>7, <1>8, <1>9, <1>10, <1>11, <1>12 DEF TranscriptNext

\* Whatever rows are lost, recorded late or of a call sent again, by replicas
\* that mask differently, a run's transcript reads as each call was sent, as
\* its replica masked it (internal/transcript, Rebuild; store/transcripts.go).
THEOREM TranscriptsReadBack == TranscriptSpec => []TranscriptRebuilds
<1>1. TranscriptInit => TranscriptSound
    BY TranscriptAssumption, TranscriptInitSound
<1>2. TranscriptSound => TranscriptRebuilds
    BY TranscriptAssumption, SoundRowsRebuild
<1> QED BY <1>1, <1>2, TranscriptNextSound, PTL DEF TranscriptSpec

LEMMA TranscriptTypes == TranscriptSound => TranscriptTypeOK
<1> SUFFICES ASSUME TranscriptSound PROVE TranscriptTypeOK
    OBVIOUS
<1>1. TranscriptTyped
    BY DEF TranscriptSound
<1>2. ASSUME NEW i \in DOMAIN rows PROVE rows[i].from \in 0 .. rows[i].state.end /\ rows[i].truncated \in BOOLEAN
  <2>1. rows[i] \in CallRow /\ rows[i] = Delta(rows[i].of)
      BY <1>1 DEF TranscriptSound, TranscriptTyped, RowFollows
  <2>2. rows[i].of \in Call /\ rows[i].truncated \in BOOLEAN
      BY <2>1 DEF CallRow
  <2> QED BY <2>1, <2>2, DeltaFacts
<1>3. ASSUME NEW i \in DOMAIN calls PROVE calls[i].at \in Recording \cup {"asked", "recorded", "over"} /\ calls[i].mask \in Mask
  <2>1. calls[i] \in Call
      BY <1>1 DEF TranscriptTyped
  <2> QED BY <2>1 DEF Call
<1> QED BY <1>1, <1>2, <1>3 DEF TranscriptTyped, TranscriptTypeOK

\* The types of the conversation, its calls and its rows: among them that a
\* row never starts past its end.
THEOREM TranscriptIsTyped == TranscriptSpec => []TranscriptTypeOK
<1>1. TranscriptInit => TranscriptSound
    BY TranscriptAssumption, TranscriptInitSound
<1>2. TranscriptSound => TranscriptTypeOK
    BY TranscriptTypes
<1> QED BY <1>1, <1>2, TranscriptNextSound, PTL DEF TranscriptSpec

-----------------------------------------------------------------------------
(***************************************************************************)
(* What an agent submits, for any findings, diffs, settings and rules.     *)
(*                                                                         *)
(* Nothing is claimed of more than one review, and a published one stays   *)
(* what it is, so all of it is about what Submit computes: of what Parse   *)
(* keeps and what it drops, each finding has its place in what was         *)
(* submitted, and the places are apart.                                    *)
(***************************************************************************)
Ranks == Elements(Severities)
Kept == {f \in Report : f.severity \in Ranks}

LEMMA SeveritiesAre == DOMAIN Severities = 1 .. 3 /\ Ranks = {"blocking", "important", "nit"}
<1>1. /\ Severities[1] = "blocking" /\ Severities[2] = "important" /\ Severities[3] = "nit"
      /\ DOMAIN Severities = 1 .. 3 /\ 1 .. 3 = {1, 2, 3}
    BY DEF Severities
<1> QED BY <1>1 DEF Ranks, Elements

LEMMA RankTyped == \A s, t \in Ranks : RankOf(s) \in 1 .. 3 /\ (RankOf(s) = RankOf(t) => s = t)
<1>1. ASSUME NEW s \in Ranks PROVE RankOf(s) \in 1 .. 3 /\ Severities[RankOf(s)] = s
    BY SeveritiesAre DEF RankOf, Ranks, Elements
<1>2. ASSUME NEW s \in Ranks, NEW t \in Ranks, RankOf(s) = RankOf(t) PROVE s = t
    BY <1>1, <1>2
<1> QED BY <1>1, <1>2

LEMMA MembersIn == ASSUME NEW T, NEW s \in Seq(T) PROVE Elements(s) \subseteq T
BY DEF Elements

LEMMA CountedUp == ASSUME NEW n \in Nat PROVE IsFiniteSet(1 .. n) /\ Cardinality(1 .. n) = n
BY FS_Interval

\* A rule is cited once, and is one of those given.
LEMMA Cited ==
    ASSUME NEW cited \in Seq(STRING)
    PROVE  /\ CitedRules(cited) \in Seq(STRING) /\ Elements(CitedRules(cited)) \subseteq RuleGiven
           /\ Cardinality(Elements(CitedRules(cited))) = Len(CitedRules(cited))
<1> DEFINE places == {i \in DOMAIN cited : cited[i] \in RuleGiven /\ \A j \in 1 .. i - 1 : cited[j] # cited[i]}
           out == CitedRules(cited)
<1>1. out = Picked(cited, places) /\ places \in SUBSET (DOMAIN cited)
    BY DEF CitedRules
<1>2. out \in Seq(STRING) /\ Elements(out) = {cited[p] : p \in places}
    BY <1>1, PickedMembers
<1>3. ASSUME NEW j \in DOMAIN out, NEW k \in DOMAIN out, j < k PROVE out[j] # out[k]
  <2>1. PICK p \in places, q \in places : p < q /\ out[j] = cited[p] /\ out[k] = cited[q]
    <3>1. \A i, l \in DOMAIN Picked(cited, places) : i < l =>
              \E p, q \in places : p < q /\ Picked(cited, places)[i] = cited[p] /\ Picked(cited, places)[l] = cited[q]
        BY <1>1, PickedFacts, ZenonT(30)
    <3> HIDE DEF places, out
    <3> QED BY <1>1, <1>3, <3>1
  <2>2. p \in 1 .. q - 1
      BY <2>1
  <2> QED BY <2>1, <2>2
<1> HIDE DEF out
<1>4. DOMAIN out = 1 .. Len(out) /\ Len(out) \in Nat
    BY <1>2
<1>5. [k \in 1 .. Len(out) |-> out[k]] \in Bijection(1 .. Len(out), Elements(out))
  <2> DEFINE f == [k \in 1 .. Len(out) |-> out[k]]
  <2>1. f \in Surjection(1 .. Len(out), Elements(out))
      BY <1>4 DEF Surjection, Elements
  <2>2. \A j, k \in 1 .. Len(out) : out[j] = out[k] => j = k
      BY <1>3, <1>4
  <2>3. f \in Injection(1 .. Len(out), Elements(out))
      BY <1>4, <2>1, <2>2 DEF Injection, IsInjective, Surjection
  <2> QED BY <2>1, <2>3 DEF Bijection
<1>6. IsFiniteSet(1 .. Len(out)) /\ Cardinality(1 .. Len(out)) = Len(out)
    BY <1>4, CountedUp
<1>7. ExistsBijection(1 .. Len(out), Elements(out))
    BY <1>5 DEF ExistsBijection
<1> QED BY <1>2, <1>6, <1>7, FS_Bijection DEF out

-----------------------------------------------------------------------------
(* Parse *)

\* A finding that is kept: its severity ranks, and its line is shown.
LEMMA KeptHow ==
    ASSUME NEW f \in Report, DropReason(f) = "kept"
    PROVE  f.severity \in Ranks /\ f.line > 0 /\ Anchored(f.path, f.line)
<1>1. f.line \in Int
    BY DEF Report
<1>2. f.severity \in Ranks /\ ~(f.line <= 0) /\ Anchored(f.path, f.line)
    BY DEF DropReason, Ranks
<1>3. \A n \in Int : ~(n <= 0) => n > 0
    OBVIOUS
<1> QED BY <1>1, <1>2, <1>3

LEMMA DropsAre == \A f : DropReason(f) \in Reasons \cup {"kept"}
BY DEF DropReason, Reasons

LEMMA Recoded ==
    \A f \in Report : \A c \in {"none", "replace", "insert"} :
        /\ [f EXCEPT !.end = 0] \in Report /\ [f EXCEPT !.end = 0, !.code = c] \in Report
<1>1. \A f \in Report : [f EXCEPT !.end = 0] \in Report
    BY DEF Report
<1>2. \A f \in Report : \A c \in {"none", "replace", "insert"} : [f EXCEPT !.code = c] \in Report
    BY DEF Report
<1>3. \A f \in Report : \A c \in {"none", "replace", "insert"} :
          [f EXCEPT !.end = 0, !.code = c] = [[f EXCEPT !.end = 0] EXCEPT !.code = c]
    OBVIOUS
<1> QED BY <1>1, <1>2, <1>3

\* The same finding, but for its range and its replacement.
SameBut(g, f) ==
    /\ g \in Report /\ g.path = f.path /\ g.line = f.line /\ g.severity = f.severity
    /\ g.rules = f.rules /\ g.title = f.title

LEMMA EndCleared ==
    ASSUME NEW f \in Report
    PROVE  /\ SameBut([f EXCEPT !.end = 0], f)
           /\ [f EXCEPT !.end = 0].end = 0 /\ [f EXCEPT !.end = 0].code = f.code
<1>1. [f EXCEPT !.end = 0] \in Report
    BY Recoded
<1> QED BY <1>1 DEF SameBut, Report

LEMMA BothCleared ==
    ASSUME NEW f \in Report, NEW c \in {"none", "replace", "insert"}
    PROVE  LET g == [f EXCEPT !.end = 0, !.code = c]
           IN  SameBut(g, f) /\ g.end = 0 /\ g.code = c
<1>1. [f EXCEPT !.end = 0, !.code = c] \in Report
    BY Recoded
<1> QED BY <1>1 DEF SameBut, Report

\* Of what was replaced or cleared, every line is shown.
LEMMA CleanShown ==
    ASSUME NEW f \in Report, DropReason(f) = "kept"
    PROVE  /\ Clean(f) \in Kept /\ Clean(f).rules = f.rules /\ Fingerprint(Clean(f)) = Fingerprint(f)
           /\ Clean(f).code # "insert"
           /\ \A l \in {Clean(f).line} \cup Clean(f).line .. Clean(f).end : <<Clean(f).path, l>> \in diff
<1> DEFINE g == InsertedAt(f)
           h == Ranged(g)
           r == Clean(f)
<1>1. f.severity \in Ranks /\ f.line > 0 /\ <<f.path, f.line>> \in diff /\ f.line \in Int
    BY KeptHow DEF Anchored, Report
<1>2. SameBut(g, f) /\ g.code # "insert"
  <2>1. CASE f.code = "insert"
    <3>1. g = [f EXCEPT !.end = 0, !.code = "replace"]
        BY <2>1 DEF InsertedAt
    <3>2. SameBut([f EXCEPT !.end = 0, !.code = "replace"], f) /\ [f EXCEPT !.end = 0, !.code = "replace"].code = "replace"
        BY BothCleared
    <3> QED BY <3>1, <3>2
  <2>2. CASE f.code # "insert"
      BY <2>2 DEF InsertedAt, SameBut
  <2> QED BY <2>1, <2>2
<1> HIDE DEF g
<1>3. SameBut(h, f) /\ h.code # "insert"
  <2>1. CASE g.end <= g.line
    <3>1. h = [g EXCEPT !.end = 0]
        BY <2>1 DEF Ranged
    <3>2. SameBut([g EXCEPT !.end = 0], g) /\ [g EXCEPT !.end = 0].code = g.code
        BY <1>2, EndCleared DEF SameBut
    <3> QED BY <1>2, <3>1, <3>2 DEF SameBut
  <2>2. CASE ~(g.end <= g.line)
      BY <1>2, <2>2 DEF Ranged
  <2> QED BY <2>1, <2>2
<1> HIDE DEF h
<1>4. r = RangeShown(h)
    BY DEF Clean, g, h
<1>5. SameBut(r, f) /\ r.code # "insert" /\ \A l \in {r.line} \cup r.line .. r.end : <<r.path, l>> \in diff
  <2>1. CASE \E l \in h.line + 1 .. h.end : ~Anchored(h.path, l)
    <3>1. r = [h EXCEPT !.end = 0, !.code = "none"]
        BY <1>4, <2>1 DEF RangeShown
    <3>2. /\ SameBut([h EXCEPT !.end = 0, !.code = "none"], h)
          /\ [h EXCEPT !.end = 0, !.code = "none"].end = 0
          /\ [h EXCEPT !.end = 0, !.code = "none"].code = "none"
        BY <1>3, BothCleared DEF SameBut
    <3>3. SameBut(r, f) /\ r.end = 0 /\ r.code = "none"
        BY <1>3, <3>1, <3>2 DEF SameBut
    <3>4. r.line = f.line /\ r.path = f.path
        BY <3>3 DEF SameBut
    <3> HIDE DEF r
    <3>5. {r.line} \cup r.line .. r.end = {f.line}
        BY <1>1, <3>3, <3>4
    <3> QED BY <1>1, <3>3, <3>4, <3>5
  <2>2. CASE \A l \in h.line + 1 .. h.end : Anchored(h.path, l)
    <3>1. r = h
        BY <1>4, <2>2 DEF RangeShown
    <3>2. h.line = f.line /\ h.path = f.path /\ h.end \in Int
        BY <1>3 DEF SameBut, Report
    <3>3. \A m, n \in Int : {m} \cup m .. n = {m} \cup (m + 1 .. n)
        OBVIOUS
    <3>4. {h.line} \cup h.line .. h.end = {h.line} \cup (h.line + 1 .. h.end)
        BY <1>1, <3>2, <3>3
    <3> QED BY <1>1, <1>3, <2>2, <3>1, <3>2, <3>4 DEF Anchored
  <2> QED BY <2>1, <2>2
<1> HIDE DEF r
<1>6. r \in Kept /\ r.rules = f.rules /\ Fingerprint(r) = Fingerprint(f)
    BY <1>1, <1>5 DEF SameBut, Kept, Fingerprint
<1> QED BY <1>5, <1>6 DEF r

\* The order is one of places: of two findings one comes before the other.
LEMMA StablyOrders == ASSUME NEW s \in Seq(Kept) PROVE StrictOrder(DOMAIN s, Stably(s))
<1> DEFINE rank(i) == RankOf(s[i].severity)
<1>1. ASSUME NEW i \in DOMAIN s
      PROVE  /\ rank(i) \in 1 .. 3 /\ s[i].path \in Nat /\ s[i].line \in Int /\ i \in Nat /\ s[i].severity \in Ranks
  <2>1. s[i] \in Kept /\ i \in Nat
      OBVIOUS
  <2> QED BY <2>1, RankTyped DEF Kept, Report
<1>2. \A i, j \in DOMAIN s : <<i, j>> \in Stably(s) <=>
          Before(s[i], s[j]) \/ (i < j /\ ~Before(s[j], s[i]))
    BY DEF Stably
<1>3. \A i, j \in DOMAIN s : Before(s[i], s[j]) <=>
          \/ rank(i) < rank(j)
          \/ rank(i) = rank(j) /\ (s[i].path < s[j].path \/ (s[i].path = s[j].path /\ s[i].line < s[j].line))
  <2> SUFFICES ASSUME NEW i \in DOMAIN s, NEW j \in DOMAIN s
               PROVE  s[i].severity = s[j].severity <=> rank(i) = rank(j)
      BY DEF Before
  <2> QED BY <1>1, RankTyped
<1> DEFINE path(i) == s[i].path
           line(i) == s[i].line
           then(i, j) == \/ rank(i) < rank(j)
                         \/ /\ rank(i) = rank(j)
                            /\ \/ path(i) < path(j)
                               \/ path(i) = path(j) /\ (line(i) < line(j) \/ (line(i) = line(j) /\ i < j))
<1>4. \A i, j \in DOMAIN s : <<i, j>> \in Stably(s) <=> then(i, j)
  <2> SUFFICES ASSUME NEW i \in DOMAIN s, NEW j \in DOMAIN s
               PROVE  <<i, j>> \in Stably(s) <=> then(i, j)
      OBVIOUS
  <2>1. /\ rank(i) \in Int /\ rank(j) \in Int /\ path(i) \in Int /\ path(j) \in Int /\ line(i) \in Int /\ line(j) \in Int
        /\ i \in Int /\ j \in Int
      BY <1>1
  <2>2. <<i, j>> \in Stably(s) <=>
          Before(s[i], s[j]) \/ (i < j /\ ~Before(s[j], s[i]))
      BY <1>2
  <2>3. /\ Before(s[i], s[j]) <=>
              \/ rank(i) < rank(j)
              \/ rank(i) = rank(j) /\ (path(i) < path(j) \/ (path(i) = path(j) /\ line(i) < line(j)))
        /\ Before(s[j], s[i]) <=>
              \/ rank(j) < rank(i)
              \/ rank(j) = rank(i) /\ (path(j) < path(i) \/ (path(j) = path(i) /\ line(j) < line(i)))
      BY <1>3
  <2> HIDE DEF rank, path, line
  <2> QED BY <2>1, <2>2, <2>3
<1>5. \A i \in DOMAIN s : rank(i) \in Int /\ path(i) \in Int /\ line(i) \in Int /\ i \in Int
    BY <1>1
<1> HIDE DEF rank, path, line
<1>6. ASSUME NEW i \in DOMAIN s PROVE ~then(i, i)
    BY <1>5
<1>7. ASSUME NEW i \in DOMAIN s, NEW j \in DOMAIN s PROVE i = j \/ then(i, j) \/ then(j, i)
    BY <1>5
<1>8. ASSUME NEW i \in DOMAIN s, NEW j \in DOMAIN s, NEW k \in DOMAIN s, then(i, j), then(j, k) PROVE then(i, k)
    BY <1>5, <1>8
<1> HIDE DEF then
<1> QED BY <1>4, <1>6, <1>7, <1>8 DEF StrictOrder

\* What Parse keeps: each of it is a submitted finding that nothing drops,
\* cleaned, and each of these is there; the most severe come first.
LEMMA ParseFacts ==
    ASSUME NEW submitted \in Seq(Report)
    PROVE  /\ Parse(submitted) \in Seq(Kept)
           /\ Len(Parse(submitted)) = Cardinality({i \in DOMAIN submitted : DropReason(submitted[i]) = "kept"})
           /\ \A f \in Elements(Parse(submitted)) : \E i \in DOMAIN submitted :
                  DropReason(submitted[i]) = "kept" /\ f = Clean(submitted[i])
           /\ \A i, j \in DOMAIN Parse(submitted) : i < j =>
                  RankOf(Parse(submitted)[i].severity) <= RankOf(Parse(submitted)[j].severity)
<1> DEFINE places == {i \in DOMAIN submitted : DropReason(submitted[i]) \in {"kept"}}
           chosen == Picked(submitted, places)
           c == Cleaned(chosen)
           out == Arranged(c, Stably(c))
<1>1. /\ chosen \in Seq(Report) /\ Elements(chosen) = {submitted[p] : p \in places} /\ Len(chosen) = Cardinality(places)
    BY PickedMembers
<1>2. ASSUME NEW i \in DOMAIN chosen PROVE \E p \in places : chosen[i] = submitted[p]
    BY <1>1 DEF Elements
<1> HIDE DEF chosen, places
<1>3. c \in Seq(Kept) /\ Len(c) = Len(chosen) /\ DOMAIN c = DOMAIN chosen
  <2>1. \A i \in DOMAIN chosen : Clean(chosen[i]) \in Kept
    <3> SUFFICES ASSUME NEW i \in DOMAIN chosen PROVE Clean(chosen[i]) \in Kept
        OBVIOUS
    <3>1. PICK p \in places : chosen[i] = submitted[p]
        BY <1>2
    <3> QED BY <3>1, CleanShown DEF places
  <2> QED BY <1>1, <2>1 DEF Cleaned
<1>4. \A i \in DOMAIN c : c[i] = Clean(chosen[i])
    BY <1>3 DEF Cleaned
<1> HIDE DEF c
<1>5. /\ out \in Seq(Kept) /\ Len(out) = Len(c) /\ DOMAIN out = DOMAIN c
      /\ Rearranges(out, c) /\ InTurn(out, c, Stably(c))
  <2>1. StrictOrder(DOMAIN c, Stably(c))
      BY <1>3, StablyOrders
  <2>2. out \in Seq(Kept) /\ Len(out) = Len(c) /\ Rearranges(out, c) /\ InTurn(out, c, Stably(c))
      BY <1>3, <2>1, ArrangedFacts
  <2>3. DOMAIN out = DOMAIN c
      BY <1>3, <2>2
  <2> HIDE DEF out
  <2> QED BY <2>2, <2>3
<1>6. out = Parse(submitted)
    BY DEF Parse, Sorted, WithReason, c, chosen, places
<1> HIDE DEF out
<1>7. ASSUME NEW f \in Elements(out)
      PROVE  \E i \in DOMAIN submitted : DropReason(submitted[i]) = "kept" /\ f = Clean(submitted[i])
  <2>1. PICK k \in DOMAIN out : f = out[k]
      BY DEF Elements
  <2>2. PICK p \in DOMAIN c : out[k] = c[p]
      BY <1>5, <2>1 DEF Rearranges
  <2>3. PICK q \in places : chosen[p] = submitted[q]
      BY <1>2, <1>3
  <2> QED BY <1>4, <2>1, <2>2, <2>3 DEF places
<1>8. ASSUME NEW i \in DOMAIN out, NEW j \in DOMAIN out, i < j
      PROVE  RankOf(out[i].severity) <= RankOf(out[j].severity)
  <2>1. PICK p \in DOMAIN c, q \in DOMAIN c : <<p, q>> \in Stably(c) /\ out[i] = c[p] /\ out[j] = c[q]
    <3>1. i \in DOMAIN c /\ j \in DOMAIN c
        BY <1>5
    <3> QED BY <1>5, <1>8, <3>1 DEF InTurn
  <2>2. Before(c[p], c[q]) \/ ~Before(c[q], c[p])
      BY <2>1 DEF Stably
  <2>3. RankOf(c[p].severity) \in 1 .. 3 /\ RankOf(c[q].severity) \in 1 .. 3
      BY <1>3, RankTyped DEF Kept
  <2> QED BY <2>1, <2>2, <2>3 DEF Before
<1>9. Len(out) = Cardinality({i \in DOMAIN submitted : DropReason(submitted[i]) = "kept"})
    BY <1>1, <1>3, <1>5 DEF places
<1> QED BY <1>5, <1>6, <1>7, <1>8, <1>9

-----------------------------------------------------------------------------
(* Submit *)

Bounded(r) == Elements(r) \subseteq RuleGiven /\ Cardinality(Elements(r)) = Len(r)
Severest(s) == \A i, j \in DOMAIN s : i < j => RankOf(s[i].severity) <= RankOf(s[j].severity)

LEMMA Submitted ==
    ASSUME NEW n \in Nat, NEW said \in [1 .. n -> Reported], NEW submitted,
           submitted = [i \in 1 .. n |-> [said[i] EXCEPT !.rules = CitedRules(@)]]
    PROVE  submitted \in Seq(Report) /\ Len(submitted) = n /\ \A i \in 1 .. n : Bounded(submitted[i].rules)
<1>1. ASSUME NEW i \in 1 .. n PROVE submitted[i] \in Report /\ Bounded(submitted[i].rules)
  <2>1. said[i] \in Report
      BY AnswersAssumption
  <2>2. said[i].rules \in Seq(STRING)
      BY <2>1 DEF Report
  <2>3. CitedRules(said[i].rules) \in Seq(STRING) /\ Bounded(CitedRules(said[i].rules))
      BY <2>2, Cited DEF Bounded
  <2>4. submitted[i] = [said[i] EXCEPT !.rules = CitedRules(said[i].rules)]
      OBVIOUS
  <2>5. \A f \in Report, r \in Seq(STRING) : [f EXCEPT !.rules = r] \in Report /\ [f EXCEPT !.rules = r].rules = r
      BY DEF Report
  <2> QED BY <2>1, <2>3, <2>4, <2>5
<1>2. submitted \in [1 .. n -> Report]
  <2>1. DOMAIN submitted = 1 .. n /\ submitted = [i \in 1 .. n |-> submitted[i]]
      OBVIOUS
  <2> QED BY <1>1, <2>1
<1>3. \A t \in [1 .. n -> Report] : t \in Seq(Report) /\ Len(t) = n
    OBVIOUS
<1> QED BY <1>1, <1>2, <1>3

\* What is kept, what is listed and what is counted is all that was submitted.
LEMMA AllCounted ==
    ASSUME NEW s \in Seq(Report)
    PROVE  /\ Len(s) = Len(Parse(s)) + Len(Unanchored(s)) + Len(Counted(s))
           /\ Len(Parse(s)) \in Nat /\ Len(Unanchored(s)) \in Nat /\ Len(Counted(s)) \in Nat
<1> DEFINE n == Len(s)
           k == {i \in DOMAIN s : DropReason(s[i]) = "kept"}
           u == {i \in DOMAIN s : DropReason(s[i]) \in {"unanchored"}}
           c == {i \in DOMAIN s : DropReason(s[i]) \in Reasons \ {"unanchored"}}
<1>1. n \in Nat /\ DOMAIN s = 1 .. n
    OBVIOUS
<1>2. Len(Parse(s)) = Cardinality(k)
    BY ParseFacts
<1>3. Len(Unanchored(s)) = Cardinality(u)
    BY PickedMembers DEF Unanchored, WithReason
<1>4. Len(Counted(s)) = Cardinality(c)
    BY PickedMembers DEF Counted, WithReason
<1>5. k \cup u \cup c = 1 .. n
  <2>1. \A i \in DOMAIN s : DropReason(s[i]) \in Reasons \cup {"kept"}
      BY DropsAre
  <2> QED BY <1>1, <2>1
<1>6. k \cap u = {} /\ (k \cup u) \cap c = {}
    BY DEF Reasons
<1> HIDE DEF k, u, c
<1>7. k \in SUBSET (1 .. n) /\ u \in SUBSET (1 .. n) /\ c \in SUBSET (1 .. n)
    BY <1>5
<1>8. /\ Cardinality(k \cup u) = Cardinality(k) + Cardinality(u)
      /\ Cardinality(k) \in Nat /\ Cardinality(u) \in Nat
    BY <1>1, <1>6, <1>7, PickedApart
<1>9. /\ Cardinality(k \cup u \cup c) = Cardinality(k \cup u) + Cardinality(c)
      /\ Cardinality(c) \in Nat
  <2>1. k \cup u \in SUBSET (1 .. n)
      BY <1>7
  <2> QED BY <1>1, <1>6, <1>7, <2>1, PickedApart
<1>10. Cardinality(1 .. n) = n
    BY <1>1, CountedUp
<1> QED BY <1>1, <1>2, <1>3, <1>4, <1>5, <1>8, <1>9, <1>10

\* What is left of findings is in their order.
LEMMA WaivedOut ==
    ASSUME NEW s \in Seq(Kept), NEW gone
    PROVE  /\ DropWaived(s, gone) \in Seq(Kept)
           /\ \A f \in Elements(DropWaived(s, gone)) : f \in Elements(s) /\ Fingerprint(f) \notin gone
           /\ \A f \in Elements(s) : Fingerprint(f) \notin gone => f \in Elements(DropWaived(s, gone))
           /\ Severest(s) => Severest(DropWaived(s, gone))
<1> DEFINE places == {i \in DOMAIN s : Fingerprint(s[i]) \notin gone}
           t == Picked(s, places)
<1>1. t = DropWaived(s, gone) /\ places \in SUBSET (DOMAIN s)
    BY DEF DropWaived
<1>2. t \in Seq(Kept) /\ Elements(t) = {s[p] : p \in places}
    BY PickedMembers
<1>3. ASSUME Severest(s), NEW j \in DOMAIN t, NEW k \in DOMAIN t, j < k
      PROVE  RankOf(t[j].severity) <= RankOf(t[k].severity)
  <2>1. \A i, l \in DOMAIN Picked(s, places) : i < l =>
            \E p, q \in places : p < q /\ Picked(s, places)[i] = s[p] /\ Picked(s, places)[l] = s[q]
      BY <1>1, PickedFacts
  <2>2. PICK p \in places, q \in places : p < q /\ t[j] = s[p] /\ t[k] = s[q]
    <3> HIDE DEF places
    <3> QED BY <1>3, <2>1
  <2> QED BY <1>3, <2>2 DEF Severest
<1> QED BY <1>1, <1>2, <1>3 DEF Severest, Elements

\* What is said of a published review.
Accounted(r) ==
    LET kept == Elements(r.kept)
    IN /\ Len(r.submitted) = Len(r.kept) + r.waivedAgain + Len(r.unanchored) + r.counted
       /\ \A f \in kept :
            /\ \A l \in {f.line} \cup f.line .. f.end : <<f.path, l>> \in r.shown
            /\ f.code # "insert" /\ Elements(f.rules) \subseteq RuleGiven
            /\ Cardinality(Elements(f.rules)) = Len(f.rules)
            /\ Fingerprint(f) \notin r.waived
       /\ \A i, j \in DOMAIN r.kept :
            i < j => RankOf(r.kept[i].severity) <= RankOf(r.kept[j].severity)
       /\ \A f \in r.resolved : Fingerprint(f) \notin r.waived \cup Fingerprints(r.parsed)

LEMMA AccountedIs == AnswersAccountedFor <=> (review.stage = "published" => Accounted(review))
BY DEF AnswersAccountedFor, Accounted

LEMMA SubmitSound ==
    ASSUME Submit, NEW done \in Seq(Kept), review.prior = DropWaived(done, review.waived)
    PROVE  review'.stage = "published" /\ Accounted(review') /\ latest' \in Seq(Kept)
<1>0. PICK n \in 0 .. MaxReported, builds \in BOOLEAN : \E said \in [1 .. n -> Reported] :
          LET submitted == [i \in 1 .. n |-> [said[i] EXCEPT !.rules = CitedRules(@)]]
              parsed == Parse(submitted)
              kept == DropWaived(parsed, review.waived)
          IN /\ review' = [stage |-> "published", waived |-> review.waived,
                           submitted |-> submitted, parsed |-> parsed, kept |-> kept,
                           waivedAgain |-> Len(parsed) - Len(kept),
                           unanchored |-> Unanchored(submitted), counted |-> Len(Counted(submitted)),
                           resolved |-> IF builds THEN ResolvedOf(review.prior, kept) ELSE {},
                           approved |-> ApprovableOf(kept), shown |-> diff]
             /\ latest' = kept
    BY DEF Submit
<1>1. PICK said \in [1 .. n -> Reported] :
          LET submitted == [i \in 1 .. n |-> [said[i] EXCEPT !.rules = CitedRules(@)]]
              parsed == Parse(submitted)
              kept == DropWaived(parsed, review.waived)
          IN /\ review' = [stage |-> "published", waived |-> review.waived,
                           submitted |-> submitted, parsed |-> parsed, kept |-> kept,
                           waivedAgain |-> Len(parsed) - Len(kept),
                           unanchored |-> Unanchored(submitted), counted |-> Len(Counted(submitted)),
                           resolved |-> IF builds THEN ResolvedOf(review.prior, kept) ELSE {},
                           approved |-> ApprovableOf(kept), shown |-> diff]
             /\ latest' = kept
    BY <1>0
<1> DEFINE submitted == [i \in 1 .. n |-> [said[i] EXCEPT !.rules = CitedRules(@)]]
           parsed == Parse(submitted)
           kept == DropWaived(parsed, review.waived)
           resolved == IF builds THEN ResolvedOf(review.prior, kept) ELSE {}
<1>2. n \in Nat
    BY AnswersAssumption
<1>3. submitted \in Seq(Report) /\ Len(submitted) = n /\ \A i \in 1 .. n : Bounded(submitted[i].rules)
    BY <1>2, Submitted
<1>4. review' = [stage |-> "published", waived |-> review.waived,
                 submitted |-> submitted, parsed |-> parsed, kept |-> kept,
                 waivedAgain |-> Len(parsed) - Len(kept),
                 unanchored |-> Unanchored(submitted), counted |-> Len(Counted(submitted)),
                 resolved |-> resolved,
                 approved |-> ApprovableOf(kept), shown |-> diff] /\ latest' = kept
    BY <1>1
<1> HIDE DEF submitted
<1>5. /\ parsed \in Seq(Kept) /\ Severest(parsed)
      /\ \A f \in Elements(parsed) : \E i \in DOMAIN submitted :
             DropReason(submitted[i]) = "kept" /\ f = Clean(submitted[i])
    BY <1>3, ParseFacts DEF Severest
<1>6. /\ n = Len(parsed) + Len(Unanchored(submitted)) + Len(Counted(submitted))
      /\ Len(parsed) \in Nat /\ Len(Unanchored(submitted)) \in Nat /\ Len(Counted(submitted)) \in Nat
    BY <1>3, AllCounted
<1>7. ASSUME NEW f \in Elements(parsed)
      PROVE  /\ \A l \in {f.line} \cup f.line .. f.end : <<f.path, l>> \in diff
             /\ f.code # "insert" /\ Bounded(f.rules)
  <2>1. PICK i \in DOMAIN submitted : DropReason(submitted[i]) = "kept" /\ f = Clean(submitted[i])
      BY <1>5
  <2>2. submitted[i] \in Report /\ Bounded(submitted[i].rules)
      BY <1>3
  <2> QED BY <2>1, <2>2, CleanShown
<1> HIDE DEF parsed
<1>8. /\ kept \in Seq(Kept) /\ Severest(kept) /\ Len(kept) \in Nat
      /\ \A f \in Elements(kept) : f \in Elements(parsed) /\ Fingerprint(f) \notin review.waived
    BY <1>5, WaivedOut
<1>9. \A f \in resolved : Fingerprint(f) \notin review.waived \cup Fingerprints(parsed)
  <2>1. \A f \in resolved : f \in Elements(review.prior) /\ Fingerprint(f) \notin Fingerprints(kept)
      BY DEF ResolvedOf
  <2>2. \A f \in Elements(review.prior) : Fingerprint(f) \notin review.waived
      BY WaivedOut
  <2>3. \A g \in Elements(parsed) : Fingerprint(g) \in review.waived \/ g \in Elements(kept)
      BY <1>5, WaivedOut DEF kept
  <2> HIDE DEF kept, resolved
  <2>4. Fingerprints(parsed) \subseteq review.waived \cup Fingerprints(kept)
      BY <2>3 DEF Fingerprints
  <2> QED BY <2>1, <2>2, <2>4
<1> HIDE DEF kept, resolved
<1>10. /\ review'.stage = "published" /\ review'.waived = review.waived
      /\ review'.submitted = submitted /\ review'.parsed = parsed /\ review'.kept = kept
      /\ review'.waivedAgain = Len(parsed) - Len(kept) /\ review'.unanchored = Unanchored(submitted)
      /\ review'.counted = Len(Counted(submitted)) /\ review'.resolved = resolved
      /\ review'.shown = diff
    BY <1>4
<1>11. Len(submitted) = Len(kept) + (Len(parsed) - Len(kept)) + Len(Unanchored(submitted)) + Len(Counted(submitted))
    BY <1>3, <1>6, <1>8
<1>12. \A f \in Elements(kept) :
           /\ \A l \in {f.line} \cup f.line .. f.end : <<f.path, l>> \in diff
           /\ f.code # "insert" /\ Elements(f.rules) \subseteq RuleGiven
           /\ Cardinality(Elements(f.rules)) = Len(f.rules)
           /\ Fingerprint(f) \notin review.waived
    BY <1>7, <1>8 DEF Bounded
<1>13. \A i, j \in DOMAIN kept : i < j => RankOf(kept[i].severity) <= RankOf(kept[j].severity)
    BY <1>8 DEF Severest
<1>14. Accounted(review')
    BY <1>10, <1>11, <1>12, <1>13, <1>9 DEF Accounted
<1> QED BY <1>4, <1>8, <1>10, <1>14

AnswersSound ==
    /\ diff \in Diffs /\ options \in Options /\ ahead \in AnswerBound
    /\ review.stage \in {"none", "asked", "published"} /\ latest \in Seq(Kept)
    /\ review.stage = "asked" => \E done \in Seq(Kept) : review.prior = DropWaived(done, review.waived)
    /\ review.stage = "published" => Accounted(review)

LEMMA AnswersSoundTyped == AnswersSound => AnswersTypeOK /\ AnswersAccountedFor
<1> SUFFICES ASSUME AnswersSound PROVE AnswersTypeOK
    BY AccountedIs DEF AnswersSound
<1>1. \A f \in Elements(latest) : f.severity \in Ranks
    BY MembersIn DEF AnswersSound, Kept
<1> QED BY <1>1 DEF AnswersSound, AnswersTypeOK, Ranks

LEMMA AnswersSoundInitially == AnswersInit => AnswersSound
<1> SUFFICES ASSUME AnswersInit PROVE AnswersSound
    OBVIOUS
<1>1. ahead \in AnswerBound
    BY AnswersAssumption DEF AnswersInit
<1>2. review.stage = "none"
    BY DEF AnswersInit, NoReviewYet
<1> QED BY <1>1, <1>2 DEF AnswersInit, AnswersSound

LEMMA AheadTyped == ASSUME ahead \in AnswerBound, NEW what \in {"reviews", "pushes", "dismissals"}, AheadOf(what)
                    PROVE  ahead' \in AnswerBound
BY DEF AheadOf, AnswerBound

LEMMA AnswersSoundKept == AnswersSound /\ [AnswersNext]_answerVars => AnswersSound'
<1> SUFFICES ASSUME AnswersSound, [AnswersNext]_answerVars PROVE AnswersSound'
    OBVIOUS
<1> USE DEF AnswersSound
<1>1. CASE AskReview
  <2>1. ahead' \in AnswerBound
      BY <1>1, AheadTyped DEF AskReview
  <2>2. review'.stage = "asked" /\ review'.prior = DropWaived(latest, review'.waived)
      BY <1>1 DEF AskReview
  <2> QED BY <1>1, <2>1, <2>2 DEF AskReview
<1>2. CASE Submit
  <2>1. review'.stage = "published" /\ Accounted(review') /\ latest' \in Seq(Kept)
      BY <1>2, SubmitSound DEF Submit
  <2>2. UNCHANGED <<diff, options, waived, ahead>>
      BY <1>2 DEF Submit
  <2> QED BY <2>1, <2>2
<1>3. CASE PushHead
  <2>1. ahead' \in AnswerBound
      BY <1>3, AheadTyped DEF PushHead
  <2>2. review' = review \/ review'.stage = "none"
      BY <1>3 DEF PushHead, NoReviewYet
  <2>3. diff' \in Diffs /\ UNCHANGED <<options, latest, waived>>
      BY <1>3 DEF PushHead
  <2> QED BY <2>1, <2>2, <2>3
<1>4. CASE Dismiss
  <2>1. ahead' \in AnswerBound
      BY <1>4, AheadTyped DEF Dismiss
  <2>2. UNCHANGED <<diff, options, review, latest>>
      BY <1>4 DEF Dismiss
  <2> QED BY <2>1, <2>2
<1>5. CASE UNCHANGED answerVars
    BY <1>5 DEF answerVars
<1> QED BY <1>1, <1>2, <1>3, <1>4, <1>5 DEF AnswersNext

\* Every finding an agent submits is kept on lines the diff shows, listed or
\* counted, once; what is kept cites rules that were given, the most severe
\* first; and what is told as resolved was neither dismissed when the review
\* began nor reported again on lines the diff shows (review/findings.go, Parse;
\* worker/publish.go, worker/incremental.go).
THEOREM AnswersAccounted == AnswersSpec => []AnswersAccountedFor
<1>1. AnswersSound => AnswersAccountedFor
    BY AnswersSoundTyped
<1> QED BY <1>1, AnswersSoundInitially, AnswersSoundKept, PTL DEF AnswersSpec

\* The types of the diff, the settings and what is left to happen: and that
\* what a review leaves to the next has severities that rank.
THEOREM AnswersIsTyped == AnswersSpec => []AnswersTypeOK
<1>1. AnswersSound => AnswersTypeOK
    BY AnswersSoundTyped
<1> QED BY <1>1, AnswersSoundInitially, AnswersSoundKept, PTL DEF AnswersSpec

-----------------------------------------------------------------------------
(***************************************************************************)
(* The modules together, as MCReviews adds them up: each keeps its         *)
(* invariant when the step is its own, and its variables when it is not.   *)
(***************************************************************************)
ReviewsSound == PublishSound /\ RereviewSound /\ TranscriptSound /\ AnswersSound

LEMMA ReviewsInit == Init => ReviewsSound
<1>1. TranscriptInit => TranscriptSound
    BY TranscriptAssumption, TranscriptInitSound
<1> QED BY <1>1, SoundStart, RereviewInitSound, AnswersSoundInitially DEF Init, ReviewsSound

LEMMA ReviewsNext ==
    ReviewsSound /\ [Next]_<<publishVars, rereviewVars, transcriptVars, answerVars, part>> => ReviewsSound'
<1>1. [Next]_<<publishVars, rereviewVars, transcriptVars, answerVars, part>> =>
        /\ [PublishNext]_publishVars /\ [RereviewNext]_rereviewVars
        /\ [TranscriptNext]_transcriptVars /\ [AnswersNext]_answerVars
    BY DEF Next
<1> QED BY <1>1, SoundKept, RereviewNextSound, TranscriptNextSound, AnswersSoundKept DEF ReviewsSound

\* Every variable of MCReviews keeps its type, whichever module a behaviour is
\* of: what a review, a row or a transcript refers to is there.
THEOREM ReviewsIsTyped == Spec => []TypeOK
<1>1. ReviewsSound => TypeOK
    BY PublishTypes, RereviewTypes, TranscriptTypes, AnswersSoundTyped DEF ReviewsSound, TypeOK
<1> QED BY <1>1, ReviewsInit, ReviewsNext, PTL DEF Spec
=============================================================================
