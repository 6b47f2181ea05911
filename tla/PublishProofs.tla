---- MODULE PublishProofs ----
(***************************************************************************)
(* What reviews leave on a pull request, for every set of findings, every  *)
(* number of reviews and of them at once, and whatever people do, fails or *)
(* is lost.                                                                *)
(*                                                                         *)
(* Four facts are kept apart, each over the types of the state.  A comment *)
(* a review remembers is one that carries the finding's marker             *)
(* (SpotsSound).  A finding dismissed before a review started is on none   *)
(* of its lists (DismissalsSound).  A blocking summary stands beside an    *)
(* approval only while some blocking review has its approvals to come      *)
(* (ApprovalSound).  And a review that is about to create a comment knows  *)
(* there is none, unless another created one meanwhile (StickySound,       *)
(* ThreadSound).                                                           *)
(***************************************************************************)
EXTENDS Publish, FiniteSetTheorems, WellFoundedInduction, TLAPS

Thread == [of : Finding, by : Nat, open : BOOLEAN, joined : BOOLEAN]
Change == [thread : Nat, resolved : BOOLEAN, writer : BOOLEAN]
Past   == [n : Nat, found : SUBSET Finding, on : [Finding -> SUBSET Nat]]
Held   == [pc : Reviewing \cup {"idle"}, n : Nat, prior : Past, gone : SUBSET Finding,
           found : SUBSET Finding, on : [Finding -> SUBSET Nat], inline : Seq(Finding),
           blind : BOOLEAN, complete : BOOLEAN, comment : Nat]

\* Types, without what relates one variable to another.
PublishTyped ==
    /\ commented \in Nat /\ stickies \subseteq Nat
    /\ threads \in Seq(Thread)
    /\ summary \in Verdicts \cup {"none", "incomplete"} /\ approved \in BOOLEAN
    /\ stored \in Nat /\ last \in Past /\ known \subseteq Finding
    /\ dismissed \in [Finding -> Nat] /\ changes \subseteq Change
    /\ rv \in [Publisher -> Held]
    /\ started \in Nat /\ left \in Bound
    /\ raced \subseteq {"sticky", "approval"} \cup Finding

\* The numbers and threads that are named exist.
NumbersSound ==
    /\ stickies \subseteq 1..commented /\ stored <= commented
    /\ last.n <= started
    /\ \A f \in Finding : dismissed[f] <= started + 1
    /\ \A c \in changes : c.thread \in DOMAIN threads
    /\ \A p \in Publisher : rv[p].n <= started /\ rv[p].comment <= commented

\* Where the inline comments of a finding may be.
Spot(f) == {Unread} \cup ThreadsOf(f)

SpotsSound == \A f \in Finding :
    /\ last.on[f] \subseteq Spot(f)
    /\ \A p \in Publisher : rv[p].on[f] \subseteq Spot(f) /\ rv[p].prior.on[f] \subseteq Spot(f)

\* A finding dismissed when a review started, the review knows of or has left out.
DismissalsSound ==
    /\ DismissedStaysOut
    /\ \A p \in Publisher, f \in Finding :
        \/ dismissed[f] = 0 \/ rv[p].n < dismissed[f]
        \/ IF At(p, "ready") THEN f \in rv[p].gone ELSE f \notin rv[p].found

\* A blocking review with its approvals to come, or nothing to withdraw.
Deciding(p) == rv[p].pc \in {"inline", "approve"}

ApprovalSound ==
    summary = "blocking" =>
        \/ "approval" \in raced
        \/ \E p \in Publisher : Deciding(p) /\ ~Approvable(p)
        \/ ~approved /\ \A p \in Publisher : ~Deciding(p)

\* A review that creates the sticky comment has seen that there is none.
StickySound ==
    "sticky" \notin raced =>
        /\ \A i, j \in stickies : i = j
        /\ \A p \in Publisher : At(p, "create") => stickies = {}

\* A review that is to post a finding has seen that it has no thread, unless
\* it could not look.
Unseen(p, f) == rv[p].pc \in Looked /\ f \in Posting(p) /\ ~rv[p].blind

ThreadSound(f) ==
    f \notin raced =>
        /\ \A i, j \in ThreadsOf(f) : threads[i].by = threads[j].by
        /\ \A p \in Publisher : Unseen(p, f) => ThreadsOf(f) = {}

PublishSound ==
    /\ PublishTyped /\ NumbersSound /\ SpotsSound /\ DismissalsSound
    /\ ApprovalSound /\ StickySound /\ \A f \in Finding : ThreadSound(f)

-----------------------------------------------------------------------------
(* What the operators choose. *)

\* A set of numbers that is not empty has its least.
LEMMA OldestIsOne ==
    ASSUME NEW S, S \subseteq Nat, S # {} PROVE Oldest(S) \in S /\ \A j \in S : Oldest(S) <= j
<1>1. IsWellFoundedOn(OpToRel(<, Nat), Nat) BY NatLessThanWellFounded
<1>2. PICK x \in S : \A y \in S : ~(<<y, x>> \in OpToRel(<, Nat)) BY <1>1, WFMin
<1>3. \A y \in S : ~(y < x) BY <1>2 DEF OpToRel
<1>4. x \in S /\ \A j \in S : x <= j BY <1>3
<1>5. QED BY <1>4 DEF Oldest

\* And, when it is bounded, its greatest.
LEMMA NewestIsOne ==
    ASSUME NEW n \in Nat, NEW S, S \subseteq 0..n, S # {} PROVE Newest(S) \in S
<1> DEFINE T == {k \in Nat : n - k \in S}
<1>1. PICK s \in S : TRUE OBVIOUS
<1>2. n - s \in T BY <1>1
<1>3. T \subseteq Nat /\ T # {} BY <1>2
<1> HIDE DEF T
<1>4. Oldest(T) \in T /\ \A k \in T : Oldest(T) <= k BY <1>3, OldestIsOne
<1> DEFINE top == n - Oldest(T)
<1>5. top \in S BY <1>4 DEF T
<1>6. ASSUME NEW j \in S PROVE j <= top
  <2>1. n - j \in T BY <1>6 DEF T
  <2>2. Oldest(T) <= n - j /\ Oldest(T) \in Nat BY <2>1, <1>4, <1>3
  <2>3. QED BY <2>2
<1>7. QED BY <1>5, <1>6 DEF Newest

\* What may be posted for a set of findings is of them.
LEMMA ListingsAreOf ==
    ASSUME NEW S, S \subseteq Finding, NEW inline \in Listings(S)
    PROVE  inline \in Seq(Finding) /\ \A i \in DOMAIN inline : inline[i] \in S
<1>1. PICK n \in 0..left.alike * Cardinality(S) : inline \in [1..n -> S] BY DEF Listings
<1>2. n \in Nat BY <1>1
<1>3. DOMAIN inline = 1..n /\ \A i \in 1..n : inline[i] \in S BY <1>1
<1>4. inline \in [1..n -> Finding] BY <1>1
<1>5. QED BY <1>2, <1>3, <1>4

\* Posting adds a review's threads after those there are.
LEMMA PostedAppends ==
    ASSUME PublishTyped, NEW p \in Publisher
    PROVE  /\ Posted(p) \in Seq(Thread)
           /\ Len(Posted(p)) = Len(threads) + Len(rv[p].inline)
           /\ \A i \in 1..Len(threads) : Posted(p)[i] = threads[i]
           /\ \A i \in 1..Len(rv[p].inline) :
                 Posted(p)[Len(threads) + i].of = rv[p].inline[i] /\ Posted(p)[Len(threads) + i].by = rv[p].n
<1> DEFINE n == Len(rv[p].inline)
           new == [i \in DOMAIN rv[p].inline |->
                     [of |-> rv[p].inline[i], by |-> rv[p].n, open |-> TRUE, joined |-> FALSE]]
<1>1. threads \in Seq(Thread) /\ rv[p].inline \in Seq(Finding) /\ rv[p].n \in Nat BY DEF PublishTyped, Held
<1>2. n \in Nat /\ DOMAIN rv[p].inline = 1..n /\ \A i \in 1..n : rv[p].inline[i] \in Finding BY <1>1
<1> HIDE DEF n
<1>3. new \in [1..n -> Thread] BY <1>1, <1>2 DEF Thread
<1>4. \A i \in 1..n : new[i].of = rv[p].inline[i] /\ new[i].by = rv[p].n BY <1>2
<1>5. Posted(p) = threads \o new BY DEF Posted
<1> HIDE DEF new
<1>6. new \in Seq(Thread) /\ Len(new) = n BY <1>2, <1>3
<1>7. threads \o new \in Seq(Thread) /\ Len(threads \o new) = Len(threads) + n BY <1>1, <1>6
<1>8. \A i \in 1..Len(threads) : (threads \o new)[i] = threads[i] BY <1>1, <1>6
<1>9. \A i \in 1..n : (threads \o new)[Len(threads) + i] = new[i] BY <1>1, <1>2, <1>6
<1>10. QED BY <1>4, <1>5, <1>7, <1>8, <1>9 DEF n

\* So the threads of a finding are those it had, whose they were, and the
\* review's own.
LEMMA PostedOwners ==
    ASSUME PublishTyped, NEW p \in Publisher, threads' = Posted(p)
    PROVE  /\ threads' \in Seq(Thread) /\ DOMAIN threads \subseteq DOMAIN threads'
           /\ \A i \in DOMAIN threads : threads'[i] = threads[i]
           /\ \A f \in Finding :
                 /\ ThreadsOf(f)' = ThreadsOf(f) \cup Number(p, f)
                 /\ \A i \in Number(p, f) : threads'[i].by = rv[p].n
                 /\ f \notin Posting(p) => Number(p, f) = {}
<1> DEFINE n == Len(rv[p].inline)
           len == Len(threads)
<1>1. threads \in Seq(Thread) /\ rv[p].inline \in Seq(Finding) BY DEF PublishTyped, Held
<1>2. /\ threads' \in Seq(Thread) /\ Len(threads') = len + n
      /\ \A i \in 1..len : threads'[i] = threads[i]
      /\ \A i \in 1..n : threads'[len + i].of = rv[p].inline[i] /\ threads'[len + i].by = rv[p].n
  BY PostedAppends
<1>3. /\ len \in Nat /\ DOMAIN threads = 1..len
      /\ n \in Nat /\ DOMAIN rv[p].inline = 1..n
  BY <1>1
<1>4. \A f : Number(p, f) = {len + i : i \in {k \in 1..n : rv[p].inline[k] = f}}
  BY <1>3 DEF Number, ListedAt
<1> HIDE DEF n, len
<1>5. DOMAIN threads' = 1..(len + n) BY <1>2
<1>6. \A i \in DOMAIN threads' : i \in DOMAIN threads \/ \E k \in 1..n : i = len + k
  <2>1. TAKE i \in DOMAIN threads'
  <2>2. CASE i <= len BY <2>2, <1>3, <1>5
  <2>3. CASE i > len
    <3>1. i - len \in 1..n /\ i = len + (i - len) BY <2>3, <1>3, <1>5
    <3>2. QED BY <3>1
  <2>4. QED BY <2>2, <2>3, <1>3, <1>5
<1>7. DOMAIN threads \subseteq DOMAIN threads' BY <1>3, <1>5
<1>8. \A k \in 1..n : len + k \in DOMAIN threads' BY <1>3, <1>5
<1>9. ASSUME NEW f \in Finding
      PROVE  /\ ThreadsOf(f)' = ThreadsOf(f) \cup Number(p, f)
             /\ \A i \in Number(p, f) : threads'[i].by = rv[p].n
             /\ f \notin Posting(p) => Number(p, f) = {}
  <2>1. ThreadsOf(f)' = ThreadsOf(f) \cup {len + k : k \in {k \in 1..n : rv[p].inline[k] = f}}
    <3>1. ASSUME NEW i \in ThreadsOf(f)'
          PROVE  i \in ThreadsOf(f) \cup {len + k : k \in {k \in 1..n : rv[p].inline[k] = f}}
      <4>1. i \in DOMAIN threads' /\ threads'[i].of = f BY <3>1 DEF ThreadsOf
      <4>2. CASE i \in DOMAIN threads BY <1>2, <1>3, <4>1, <4>2 DEF ThreadsOf
      <4>3. CASE \E k \in 1..n : i = len + k BY <1>2, <4>1, <4>3
      <4>4. QED BY <1>6, <4>1, <4>2, <4>3
    <3>2. ThreadsOf(f) \subseteq ThreadsOf(f)' BY <1>2, <1>3, <1>7 DEF ThreadsOf
    <3>3. \A k \in 1..n : rv[p].inline[k] = f => len + k \in ThreadsOf(f)' BY <1>2, <1>8 DEF ThreadsOf
    <3>4. QED BY <3>1, <3>2, <3>3
  <2>2. \A i \in Number(p, f) : threads'[i].by = rv[p].n BY <1>2, <1>4
  <2>3. f \notin Posting(p) => {k \in 1..n : rv[p].inline[k] = f} = {} BY <1>3 DEF Posting
  <2>4. f \notin Posting(p) => Number(p, f) = {} BY <2>3, <1>4
  <2>5. QED BY <2>1, <2>2, <2>4, <1>4
<1>10. \A i \in DOMAIN threads : threads'[i] = threads[i] BY <1>2, <1>3
<1>11. QED BY <1>2, <1>7, <1>9, <1>10

\* Threads that keep their findings and their reviews, whatever else changes of them.
KeepOwners ==
    /\ threads' \in Seq(Thread) /\ Len(threads') = Len(threads)
    /\ \A i \in DOMAIN threads : threads'[i].of = threads[i].of /\ threads'[i].by = threads[i].by

LEMMA OwnersKept ==
    ASSUME threads \in Seq(Thread), KeepOwners
    PROVE  DOMAIN threads' = DOMAIN threads /\ \A f \in Finding : ThreadsOf(f)' = ThreadsOf(f)
<1>1. DOMAIN threads = 1..Len(threads) /\ DOMAIN threads' = 1..Len(threads') BY DEF KeepOwners
<1>2. QED BY <1>1 DEF KeepOwners, ThreadsOf

LEMMA ThreadsSame ==
    ASSUME threads \in Seq(Thread), UNCHANGED threads PROVE KeepOwners
BY DEF KeepOwners

LEMMA ClosedKeeps ==
    ASSUME threads \in Seq(Thread), NEW S, threads' = Closed(S) PROVE KeepOwners
<1>1. \A i \in DOMAIN threads : threads[i] \in Thread OBVIOUS
<1>2. \A w \in Thread : [w EXCEPT !.open = FALSE] \in Thread /\ [w EXCEPT !.open = FALSE].of = w.of
                                                         /\ [w EXCEPT !.open = FALSE].by = w.by
  BY DEF Thread
<1>3. \A i \in DOMAIN threads :
        threads'[i] \in Thread /\ threads'[i].of = threads[i].of /\ threads'[i].by = threads[i].by
  BY <1>1, <1>2 DEF Closed
<1>4. DOMAIN threads = 1..Len(threads) /\ Len(threads) \in Nat OBVIOUS
<1>5. threads' \in [1..Len(threads) -> Thread] BY <1>3, <1>4 DEF Closed
<1>6. threads' \in Seq(Thread) /\ Len(threads') = Len(threads) BY <1>4, <1>5
<1>7. QED BY <1>3, <1>6 DEF KeepOwners

\* A person changes one thread.
LEMMA ChangedKeeps ==
    ASSUME threads \in Seq(Thread), NEW i \in DOMAIN threads, NEW w \in Thread,
           w.of = threads[i].of, w.by = threads[i].by, threads' = [threads EXCEPT ![i] = w]
    PROVE  KeepOwners
BY DEF KeepOwners

\* What a step does to the threads: it posts a review's, or keeps whose they are.
LEMMA ThreadsAfter ==
    ASSUME PublishTyped, PublishNext
    PROVE  \/ KeepOwners
           \/ \E p \in Publisher : CreateReview(p) /\ threads' = Posted(p)
<1>1. threads \in Seq(Thread) BY DEF PublishTyped
<1>2. UNCHANGED threads => KeepOwners BY <1>1, ThreadsSame
<1>3. \A i \in DOMAIN threads : threads[i] \in Thread BY <1>1
<1>4. ASSUME NEW p \in Publisher, Publishing(p), ~UNCHANGED threads
      PROVE  ResolveThreads(p) \/ CreateReview(p)
  BY <1>4 DEF Publishing, StartReview, Answered, Incomplete, EditSticky, CreateSticky, Approve, Persist,
     Record, ReviewFails, forgeVars
<1>5. ASSUME NEW p \in Publisher, ResolveThreads(p) PROVE KeepOwners
  BY <1>1, <1>5, ClosedKeeps DEF ResolveThreads
<1>6. ASSUME NEW p \in Publisher, CreateReview(p) PROVE UNCHANGED threads \/ threads' = Posted(p)
  BY <1>6 DEF CreateReview
<1>7. ASSUME NEW i \in DOMAIN threads, JoinThread(i) PROVE KeepOwners
  <2>1. /\ [threads[i] EXCEPT !.joined = TRUE] \in Thread
        /\ [threads[i] EXCEPT !.joined = TRUE].of = threads[i].of
        /\ [threads[i] EXCEPT !.joined = TRUE].by = threads[i].by
    BY <1>3 DEF Thread
  <2>2. threads' = [threads EXCEPT ![i] = [threads[i] EXCEPT !.joined = TRUE]]
    BY <1>7 DEF JoinThread
  <2>3. QED BY <1>1, <2>1, <2>2, ChangedKeeps
<1>8. ASSUME NEW i \in DOMAIN threads, NEW writer \in BOOLEAN, ToggleThread(i, writer) PROVE KeepOwners
  <2>1. /\ [threads[i] EXCEPT !.open = ~threads[i].open] \in Thread
        /\ [threads[i] EXCEPT !.open = ~threads[i].open].of = threads[i].of
        /\ [threads[i] EXCEPT !.open = ~threads[i].open].by = threads[i].by
    BY <1>3 DEF Thread
  <2>2. threads' = [threads EXCEPT ![i] = [threads[i] EXCEPT !.open = ~threads[i].open]]
    BY <1>8 DEF ToggleThread
  <2>3. QED BY <1>1, <2>1, <2>2, ChangedKeeps
<1>9. ASSUME NEW i \in DOMAIN threads, MentionDismisses(i) PROVE KeepOwners
  <2>1. PICK failed \in 0..1 :
          threads' = [threads EXCEPT ![i].joined = TRUE, ![i].open = @ /\ ~(threads[i].of \in known /\ failed = 0)]
    BY <1>9 DEF MentionDismisses
  <2> DEFINE b == threads[i].open /\ ~(threads[i].of \in known /\ failed = 0)
             w == [[threads[i] EXCEPT !.joined = TRUE] EXCEPT !.open = b]
  <2>2. threads' = [threads EXCEPT ![i] = w] BY <1>1, <1>3, <2>1 DEF Thread
  <2>3. b \in BOOLEAN OBVIOUS
  <2> HIDE DEF b
  <2>4. w \in Thread /\ w.of = threads[i].of /\ w.by = threads[i].by BY <1>3, <2>3 DEF Thread
  <2> HIDE DEF w
  <2>5. QED BY <1>1, <2>2, <2>4, ChangedKeeps
<1>10. DeleteSticky => UNCHANGED threads BY DEF DeleteSticky
<1>11. ASSUME NEW c \in changes, ApplyChange(c) \/ LoseChange(c) PROVE UNCHANGED threads
  BY <1>11 DEF ApplyChange, LoseChange, forgeVars
<1>12. People => KeepOwners BY <1>2, <1>7, <1>8, <1>9, <1>10 DEF People
<1>13. QED BY <1>2, <1>4, <1>5, <1>6, <1>11, <1>12 DEF PublishNext

LEMMA ThreadsGrow ==
    ASSUME PublishTyped, PublishNext
    PROVE  /\ threads' \in Seq(Thread) /\ DOMAIN threads \subseteq DOMAIN threads'
           /\ \A f \in Finding : ThreadsOf(f) \subseteq ThreadsOf(f)'
<1>1. threads \in Seq(Thread) BY DEF PublishTyped
<1>2. CASE KeepOwners BY <1>1, <1>2, OwnersKept DEF KeepOwners
<1>3. CASE \E p \in Publisher : CreateReview(p) /\ threads' = Posted(p)
  <2>1. PICK p \in Publisher : threads' = Posted(p) BY <1>3
  <2>2. QED BY <2>1, PostedOwners
<1>4. QED BY <1>2, <1>3, ThreadsAfter

-----------------------------------------------------------------------------
(* Types. *)

LEMMA RestingHeld == NoReview \in Past /\ Resting \in Held
BY DEF NoReview, Past, Resting, Held, Nowhere

LEMMA HeldElsewhere ==
    ASSUME NEW w \in Held, NEW at \in Reviewing \cup {"idle"} PROVE [w EXCEPT !.pc = at] \in Held
BY DEF Held

\* Where the inline comments are taken to be is a set of numbers, whatever a
\* review knows of them.
LEMMA OnTyped ==
    ASSUME PublishTyped, NEW found, NEW on \in [Finding -> SUBSET Nat]
    PROVE  MarkOnForge(found, on) \in [Finding -> SUBSET Nat]
<1>1. ASSUME NEW f \in Finding, ThreadsOf(f) # {} PROVE {Newest(ThreadsOf(f))} \subseteq Nat
  <2>1. ThreadsOf(f) \subseteq 0..Len(threads) /\ Len(threads) \in Nat
    BY DEF ThreadsOf, PublishTyped
  <2> HIDE DEF ThreadsOf
  <2>2. Newest(ThreadsOf(f)) \in ThreadsOf(f) BY <1>1, <2>1, NewestIsOne
  <2>3. QED BY <2>1, <2>2
<1> HIDE DEF ThreadsOf, Newest
<1>2. QED BY <1>1 DEF MarkOnForge

\* Of the places a record names, one is taken.
LEMMA RecordedIs ==
    ASSUME PublishTyped, NEW found, NEW prior \in Past, NEW f \in Finding, prior.on[f] \subseteq Spot(f)
    PROVE  AlreadyInline(found, prior)[f] \subseteq prior.on[f]
<1>1. prior.on[f] \subseteq 0..Len(threads) /\ Len(threads) \in Nat
  BY DEF Spot, ThreadsOf, Unread, PublishTyped
<1>2. prior.on[f] # {} => Newest(prior.on[f]) \in prior.on[f] BY <1>1, NewestIsOne
<1> HIDE DEF Newest
<1>3. QED BY <1>2 DEF AlreadyInline, Nowhere

LEMMA RecordedTyped ==
    ASSUME PublishTyped, SpotsSound, NEW found, NEW p \in Publisher
    PROVE  AlreadyInline(found, rv[p].prior) \in [Finding -> SUBSET Nat]
<1>1. rv[p].prior \in Past BY DEF PublishTyped, Held
<1>2. ASSUME NEW f \in Finding PROVE AlreadyInline(found, rv[p].prior)[f] \subseteq Nat
  <2>1. rv[p].prior.on[f] \subseteq Spot(f) /\ rv[p].prior.on[f] \subseteq Nat BY <1>1 DEF SpotsSound, Past
  <2>2. QED BY <1>1, <2>1, RecordedIs
<1>3. \A f \in Finding : AlreadyInline(found, rv[p].prior)[f] \in SUBSET Nat BY <1>2
<1>4. AlreadyInline(found, rv[p].prior) =
        [f \in Finding |-> AlreadyInline(found, rv[p].prior)[f]]
  BY DEF AlreadyInline
<1> HIDE DEF AlreadyInline
<1>5. QED BY <1>3, <1>4

LEMMA StickyTyped == ASSUME PublishTyped PROVE Sticky \in Nat
<1>1. stickies \subseteq Nat /\ stored \in Nat BY DEF PublishTyped
<1>2. stickies # {} => Oldest(stickies) \in stickies BY <1>1, OldestIsOne
<1>3. QED BY <1>1, <1>2 DEF Sticky

LEMMA NumberTyped ==
    ASSUME PublishTyped, NEW p \in Publisher, NEW f PROVE Number(p, f) \subseteq Nat
<1>1. Len(threads) \in Nat /\ DOMAIN rv[p].inline = 1..Len(rv[p].inline) BY DEF PublishTyped, Held
<1>2. QED BY <1>1 DEF Number, ListedAt

LEMMA LeftOutTyped ==
    ASSUME NEW r \in Past, NEW gone \in SUBSET Finding PROVE WithDismissals(r, gone) \in Past
<1> DEFINE on == [f \in Finding |-> IF f \in gone THEN Nowhere ELSE r.on[f]]
<1>1. on \in [Finding -> SUBSET Nat] BY DEF Past, Nowhere
<1>2. WithDismissals(r, gone) = [r EXCEPT !.found = r.found \ gone, !.on = on] BY DEF WithDismissals, Past
<1> HIDE DEF on
<1>3. QED BY <1>1, <1>2 DEF Past

LEMMA StartedHeld ==
    ASSUME NEW n \in Nat, NEW gone \in SUBSET Finding, NEW prior \in Past
    PROVE  [Resting EXCEPT !.pc = "ready", !.n = n, !.gone = gone, !.prior = prior] \in Held
<1>1. NoReview.on \in [Finding -> SUBSET Nat] BY DEF NoReview, Nowhere
<1>2. <<>> \in Seq(Finding) OBVIOUS
<1>3. QED BY <1>1, <1>2 DEF Resting, Held, Reviewing

LEMMA ReviewTyped ==
    ASSUME PublishTyped, SpotsSound, NEW p \in Publisher, Publishing(p) PROVE rv' \in [Publisher -> Held]
<1>1. rv \in [Publisher -> Held] /\ rv[p] \in Held BY DEF PublishTyped
<1>2. last \in Past /\ started \in Nat /\ commented \in Nat BY DEF PublishTyped
<1>3. ASSUME NEW at \in Reviewing \cup {"idle"}, Goto(p, at) PROVE rv' \in [Publisher -> Held]
  <2>1. rv' = [rv EXCEPT ![p] = [rv[p] EXCEPT !.pc = at]] BY <1>3 DEF Goto
  <2>2. QED BY <1>1, <2>1, HeldElsewhere
<1>4. ASSUME NEW id \in Nat, Edited(p, id) PROVE rv' \in [Publisher -> Held]
  <2> DEFINE at == IF rv[p].complete THEN "inline" ELSE "persist"
  <2>1. rv' = [rv EXCEPT ![p].comment = id, ![p].pc = at] BY <1>4 DEF Edited
  <2>2. at \in Reviewing BY DEF Reviewing, Looked
  <2> HIDE DEF at
  <2>3. [[rv[p] EXCEPT !.comment = id] EXCEPT !.pc = at] \in Held BY <1>1, <2>2 DEF Held
  <2>4. rv' = [rv EXCEPT ![p] = [[rv[p] EXCEPT !.comment = id] EXCEPT !.pc = at]] BY <1>1, <2>1 DEF Held
  <2>5. QED BY <1>1, <2>3, <2>4
<1>5. ASSUME rv' = [rv EXCEPT ![p] = Resting] PROVE rv' \in [Publisher -> Held]
  BY <1>1, <1>5, RestingHeld
<1>6. CASE StartReview(p)
  <2> DEFINE known0 == WithDismissals(last, Dismissed)
  <2>1. Dismissed \in SUBSET Finding BY DEF Dismissed
  <2>2. known0 \in Past BY <1>2, <2>1, LeftOutTyped
  <2>3. rv' = [rv EXCEPT ![p] = [Resting EXCEPT !.pc = "ready", !.n = started + 1, !.gone = Dismissed, !.prior = known0]]
    BY <1>6 DEF StartReview
  <2>4. started + 1 \in Nat BY <1>2
  <2> HIDE DEF known0
  <2>5. [Resting EXCEPT !.pc = "ready", !.n = started + 1, !.gone = Dismissed, !.prior = known0] \in Held
    BY <2>1, <2>2, <2>4, StartedHeld
  <2>6. QED BY <1>1, <2>3, <2>5
<1>7. CASE Answered(p)
  <2>1. PICK submitted \in SUBSET Finding, builds \in {b \in BOOLEAN : b => rv[p].prior.n > 0}, read \in BOOLEAN :
          LET found    == DropDismissed(submitted, rv[p].gone)
              recorded == AlreadyInline(found, rv[p].prior)
              on       == IF read THEN MarkOnForge(found, recorded) ELSE recorded
          IN  /\ IF read THEN UNCHANGED left ELSE found # {} /\ PublishFault
              /\ \E inline \in Listings(ToPost(found, on)) :
                  rv' = [rv EXCEPT ![p].pc = IF builds THEN "resolve" ELSE "sticky",
                         ![p].found = found, ![p].blind = ~read, ![p].gone = {},
                         ![p].prior = IF builds THEN @ ELSE NoReview,
                         ![p].on = on, ![p].inline = inline]
    BY <1>7 DEF Answered
  <2> DEFINE found == DropDismissed(submitted, rv[p].gone)
             was == AlreadyInline(found, rv[p].prior)
             on == IF read THEN MarkOnForge(found, was) ELSE was
             at == IF builds THEN "resolve" ELSE "sticky"
             prior == IF builds THEN rv[p].prior ELSE NoReview
             blind == ~read
  <2>2. PICK inline \in Listings(ToPost(found, on)) :
          rv' = [rv EXCEPT ![p].pc = at, ![p].found = found, ![p].blind = blind, ![p].gone = {},
                           ![p].prior = prior, ![p].on = on, ![p].inline = inline]
    BY <2>1
  <2>3. found \in SUBSET Finding BY DEF DropDismissed
  <2>4. inline \in Seq(Finding)
    <3>1. ToPost(found, on) \subseteq Finding BY <2>3 DEF ToPost
    <3> HIDE DEF found, on
    <3>2. QED BY <2>2, <3>1, ListingsAreOf
  <2>5. was \in [Finding -> SUBSET Nat] BY RecordedTyped
  <2>6. on \in [Finding -> SUBSET Nat]
    <3> HIDE DEF was, found
    <3>1. QED BY <2>5, OnTyped
  <2>7. at \in Reviewing /\ prior \in Past /\ blind \in BOOLEAN
    BY <1>1, RestingHeld DEF Reviewing, Looked, Held
  <2> HIDE DEF found, was, on, at, prior, blind
  <2> DEFINE w == [rv[p] EXCEPT !.pc = at, !.found = found, !.blind = blind, !.gone = {}, !.prior = prior,
                                !.on = on, !.inline = inline]
  <2>8. w \in Held BY <1>1, <2>3, <2>4, <2>6, <2>7 DEF Held
  <2>9. rv' = [rv EXCEPT ![p] = w] BY <1>1, <2>2 DEF Held
  <2> HIDE DEF w
  <2>10. QED BY <1>1, <2>8, <2>9
<1>8. CASE Incomplete(p)
  <2>1. rv' = [rv EXCEPT ![p] = [Resting EXCEPT !.pc = "sticky", !.n = rv[p].n, !.complete = FALSE]]
    BY <1>8 DEF Incomplete
  <2>2. [Resting EXCEPT !.pc = "sticky", !.n = rv[p].n, !.complete = FALSE] \in Held
    BY <1>1, RestingHeld DEF Held, Resting, Reviewing, Looked
  <2>3. QED BY <1>1, <2>1, <2>2
<1>9. CASE ResolveThreads(p)
  <2>1. rv' = [rv EXCEPT ![p].pc = "sticky", ![p].prior = NoReview] BY <1>9 DEF ResolveThreads
  <2>2. [rv[p] EXCEPT !.pc = "sticky", !.prior = NoReview] \in Held
    BY <1>1, RestingHeld DEF Held, Reviewing, Looked
  <2>3. rv' = [rv EXCEPT ![p] = [rv[p] EXCEPT !.pc = "sticky", !.prior = NoReview]] BY <1>1, <2>1 DEF Held
  <2>4. QED BY <1>1, <2>2, <2>3
<1>10. CASE EditSticky(p)
  BY <1>3, <1>4, <1>10, StickyTyped DEF EditSticky, Reviewing, Looked
<1>11. CASE CreateSticky(p)
  BY <1>2, <1>4, <1>5, <1>11 DEF CreateSticky
<1>12. CASE CreateReview(p)
  <2>1. PICK outcome :
          rv' = [rv EXCEPT ![p].pc = "approve", ![p].inline = <<>>,
                    ![p].on = [f \in Finding |->
                        CASE f \in Posting(p) /\ outcome = "read" -> Number(p, f)
                          [] f \in Posting(p) /\ outcome = "unread" -> {Unread}
                          [] OTHER -> rv[p].on[f]]]
    BY <1>1, <1>12 DEF CreateReview, Held
  <2> DEFINE on == [f \in Finding |-> CASE f \in Posting(p) /\ outcome = "read" -> Number(p, f)
                          [] f \in Posting(p) /\ outcome = "unread" -> {Unread}
                          [] OTHER -> rv[p].on[f]]
  <2>2. \A f \in Finding : Number(p, f) \subseteq Nat BY NumberTyped
  <2>3. \A f \in Finding : rv[p].on[f] \subseteq Nat BY <1>1 DEF Held
  <2>4. \A f \in Finding : on[f] \subseteq Nat
    <3> HIDE DEF Number, Posting
    <3>1. QED BY <2>2, <2>3 DEF Unread
  <2>5. on \in [Finding -> SUBSET Nat] BY <2>4
  <2>6. rv' = [rv EXCEPT ![p].pc = "approve", ![p].inline = <<>>, ![p].on = on] BY <2>1
  <2> HIDE DEF on
  <2>7. [rv[p] EXCEPT !.pc = "approve", !.inline = <<>>, !.on = on] \in Held
    <3>1. <<>> \in Seq(Finding) OBVIOUS
    <3>2. QED BY <1>1, <2>5, <3>1 DEF Held, Reviewing
  <2>8. rv' = [rv EXCEPT ![p] = [rv[p] EXCEPT !.pc = "approve", !.inline = <<>>, !.on = on]]
    BY <1>1, <2>6 DEF Held
  <2>9. QED BY <1>1, <2>7, <2>8
<1>13. CASE Approve(p)
  <2>1. Goto(p, "persist") BY <1>13 DEF Approve
  <2>2. QED BY <1>3, <2>1 DEF Reviewing
<1>14. CASE Persist(p)
  <2>1. rv' = [rv EXCEPT ![p] = Resting] \/ Goto(p, "record") BY <1>14 DEF Persist, Goto
  <2>2. QED BY <1>3, <1>5, <2>1 DEF Reviewing
<1>15. CASE Record(p) BY <1>5, <1>15 DEF Record
<1>16. CASE ReviewFails(p) BY <1>5, <1>16 DEF ReviewFails
<1>17. QED
  BY <1>6, <1>7, <1>8, <1>9, <1>10, <1>11, <1>12, <1>13, <1>14, <1>15, <1>16 DEF Publishing

LEMMA TypedStart == PublishInit => PublishTyped
<1> SUFFICES ASSUME PublishInit PROVE PublishTyped
  OBVIOUS
<1>1. rv \in [Publisher -> Held] /\ last \in Past BY RestingHeld DEF PublishInit
<1>2. left \in Bound BY PublishAssumption DEF PublishInit
<1>3. threads \in Seq(Thread) BY DEF PublishInit
<1>4. /\ commented \in Nat /\ stickies \subseteq Nat /\ stored \in Nat /\ started \in Nat
      /\ known \subseteq Finding /\ changes \subseteq Change /\ raced \subseteq {"sticky", "approval"} \cup Finding
      /\ dismissed \in [Finding -> Nat] /\ summary \in Verdicts \cup {"none", "incomplete"}
  BY DEF PublishInit
<1>5. approved \in BOOLEAN BY DEF PublishInit
<1>6. QED BY <1>1, <1>2, <1>3, <1>4, <1>5 DEF PublishTyped

LEMMA FaultTyped == ASSUME left \in Bound, PublishFault PROVE left' \in Bound
<1> DEFINE faults == left.faults - 1
<1>1. faults \in Nat BY DEF PublishFault, Bound
<1>2. left' = [left EXCEPT !.faults = faults] BY DEF PublishFault
<1> HIDE DEF faults
<1>3. QED BY <1>1, <1>2 DEF Bound

LEMMA GestureTyped == ASSUME left \in Bound, Gesture PROVE left' \in Bound
<1> DEFINE gestures == left.gestures - 1
<1>1. gestures \in Nat BY DEF Gesture, Bound
<1>2. left' = [left EXCEPT !.gestures = gestures] BY DEF Gesture
<1> HIDE DEF gestures
<1>3. QED BY <1>1, <1>2 DEF Bound

LEMMA TypedKept == PublishTyped /\ SpotsSound /\ [PublishNext]_publishVars => PublishTyped'
<1> SUFFICES ASSUME PublishTyped, SpotsSound, [PublishNext]_publishVars PROVE PublishTyped'
  OBVIOUS
<1> USE DEF PublishTyped
<1>1. CASE UNCHANGED publishVars BY <1>1 DEF publishVars, forgeVars, rowVars
<1>2. CASE PublishNext
  <2>1. threads' \in Seq(Thread) BY <1>2, ThreadsGrow
  <2>2. left.reviews \in Nat /\ left.atOnce \in Nat /\ left.gestures \in Nat /\ left.faults \in Nat /\ left.alike \in Nat /\ left.nits \in BOOLEAN
    BY DEF Bound
  <2>3. PublishFault => left' \in Bound BY FaultTyped
  <2>4. Gesture => left' \in Bound BY GestureTyped
  <2>5. ASSUME NEW f \in Finding, NEW n \in Nat PROVE [dismissed EXCEPT ![f] = n] \in [Finding -> Nat]
    OBVIOUS
  <2>6. ASSUME NEW p \in Publisher
        PROVE  /\ Posting(p) \subseteq Finding /\ Says(p) \in Verdicts \cup {"none", "incomplete"}
               /\ Approvable(p) \in BOOLEAN
    <3>1. rv[p].inline \in Seq(Finding) BY DEF Held
    <3>2. QED BY <3>1 DEF Posting, Says, Verdicts, Approvable
  <2>7. ASSUME NEW p \in Publisher, Publishing(p)
        PROVE  commented' \in Nat /\ stickies' \subseteq Nat /\ stored' \in Nat
               /\ last' \in Past /\ known' \subseteq Finding
    <3>1. rv[p] \in Held OBVIOUS
    <3>2. CASE CreateSticky(p) BY <3>2 DEF CreateSticky, rowVars
    <3>3. CASE Persist(p) BY <3>1, <3>3 DEF Persist, forgeVars, Held
    <3>4. CASE Record(p)
      <4>1. [n |-> rv[p].n, found |-> rv[p].found, on |-> rv[p].on] \in Past /\ rv[p].found \subseteq Finding
        BY <3>1 DEF Held, Past
      <4>2. last' = last \/ last' = [n |-> rv[p].n, found |-> rv[p].found, on |-> rv[p].on] BY <3>4 DEF Record
      <4>3. QED BY <3>4, <4>1, <4>2 DEF Record, forgeVars
    <3>5. CASE UNCHANGED <<commented, stickies, stored, last, known>> BY <3>5
    <3>6. QED
      BY <2>7, <3>2, <3>3, <3>4, <3>5 DEF Publishing, StartReview, Answered, Incomplete, ResolveThreads,
         EditSticky, CreateReview, Approve, ReviewFails, forgeVars, rowVars
  <2>8. ASSUME NEW p \in Publisher, Publishing(p)
        PROVE  dismissed' \in [Finding -> Nat] /\ changes' \subseteq Change /\ started' \in Nat
    <3>1. UNCHANGED dismissed
      BY <2>8 DEF Publishing, StartReview, Answered, Incomplete, ResolveThreads,
         EditSticky, CreateSticky, CreateReview, Approve, Persist, Record, ReviewFails, rowVars
    <3>2. UNCHANGED changes
      BY <2>8 DEF Publishing, StartReview, Answered, Incomplete, ResolveThreads,
         EditSticky, CreateSticky, CreateReview, Approve, Persist, Record, ReviewFails, rowVars
    <3>3. started' = started \/ started' = started + 1
      BY <2>8 DEF Publishing, StartReview, Answered, Incomplete, ResolveThreads,
         EditSticky, CreateSticky, CreateReview, Approve, Persist, Record, ReviewFails
    <3>4. QED BY <3>1, <3>2, <3>3
  <2>9. ASSUME NEW p \in Publisher, Publishing(p)
        PROVE  raced' \subseteq {"sticky", "approval"} \cup Finding
    BY <2>6, <2>9 DEF Publishing, StartReview, Answered, Incomplete, ResolveThreads,
       EditSticky, CreateSticky, CreateReview, Approve, Persist, Record, ReviewFails, Raced
  <2>10. ASSUME NEW p \in Publisher, Publishing(p)
         PROVE  summary' \in Verdicts \cup {"none", "incomplete"}
    BY <2>6, <2>10 DEF Publishing, StartReview, Answered, Incomplete, ResolveThreads, Edited,
       EditSticky, CreateSticky, CreateReview, Approve, Persist, Record, ReviewFails, forgeVars
  <2>11. ASSUME NEW p \in Publisher, Publishing(p) PROVE approved' \in BOOLEAN
    <3>1. CASE Approve(p)
      <4>1. approved' = Approvable(p) \/ approved' = approved BY <3>1 DEF Approve, ApprovalAfter
      <4>2. QED BY <2>6, <4>1
    <3>2. CASE UNCHANGED approved BY <3>2
    <3>3. QED
      BY <2>11, <3>1, <3>2 DEF Publishing, StartReview, Answered, Incomplete, ResolveThreads, Edited,
         EditSticky, CreateSticky, CreateReview, Persist, Record, ReviewFails, forgeVars
  <2>12. ASSUME NEW p \in Publisher, Publishing(p) PROVE left' \in Bound
    <3>1. CASE StartReview(p)
      <4>1. left' = [left EXCEPT !.reviews = @ - 1] /\ left.reviews > 0 BY <3>1 DEF StartReview
      <4>2. QED BY <2>2, <4>1, SMTT(30) DEF Bound
    <3>2. CASE UNCHANGED left BY <3>2
    <3>3. CASE PublishFault BY <2>3, <3>3
    <3>4. Answered(p) => UNCHANGED left \/ PublishFault BY DEF Answered
    <3>5. ResolveThreads(p) => UNCHANGED left \/ PublishFault BY DEF ResolveThreads
    <3>6. CreateReview(p) => UNCHANGED left \/ PublishFault BY DEF CreateReview
    <3>7. CreateSticky(p) => UNCHANGED left \/ PublishFault BY DEF CreateSticky
    <3>8. Approve(p) \/ ReviewFails(p) => UNCHANGED left \/ PublishFault BY DEF Approve, ReviewFails
    <3>9. Incomplete(p) \/ EditSticky(p) \/ Persist(p) \/ Record(p) => UNCHANGED left
      BY DEF Incomplete, EditSticky, Persist, Record
    <3>10. QED BY <2>12, <3>1, <3>2, <3>3, <3>4, <3>5, <3>6, <3>7, <3>8, <3>9 DEF Publishing
  <2>13. CASE \E p \in Publisher : Publishing(p)
    BY <2>1, <2>7, <2>8, <2>9, <2>10, <2>11, <2>12, <2>13, ReviewTyped
  <2>14. CASE DeleteSticky
    BY <2>1, <2>4, <2>14 DEF DeleteSticky, rowVars
  <2>15. ASSUME NEW i \in DOMAIN threads, JoinThread(i) PROVE PublishTyped'
    BY <2>1, <2>4, <2>15 DEF JoinThread, rowVars
  <2>16. ASSUME NEW i \in DOMAIN threads, NEW writer \in BOOLEAN, ToggleThread(i, writer) PROVE PublishTyped'
    <3>1. i \in Nat /\ threads[i] \in Thread OBVIOUS
    <3> DEFINE was == ~~threads[i].open
    <3>2. was \in BOOLEAN OBVIOUS
    <3>3. changes' = changes \/ changes' = changes \cup {[thread |-> i, resolved |-> was, writer |-> writer]}
      BY <2>16 DEF ToggleThread
    <3> HIDE DEF was
    <3>4. changes' \subseteq Change BY <3>1, <3>2, <3>3 DEF Change
    <3>5. QED BY <2>1, <2>4, <2>16, <3>4 DEF ToggleThread
  <2>17. ASSUME NEW f \in Finding, RecordDismissal(f) \/ DeleteDismissal(f) \/ UNCHANGED dismissed
         PROVE  dismissed' \in [Finding -> Nat]
    BY <2>5, <2>17 DEF RecordDismissal, DeleteDismissal
  <2>18. ASSUME NEW i \in DOMAIN threads, MentionDismisses(i) PROVE PublishTyped'
    <3>1. threads[i].of \in Finding
      <4>1. threads[i] \in Thread OBVIOUS
      <4>2. QED BY <4>1 DEF Thread
    <3>2. dismissed' \in [Finding -> Nat] BY <2>17, <2>18, <3>1 DEF MentionDismisses
    <3>3. PICK failed \in 0..1 : failed <= left.faults /\ left' = [left EXCEPT !.gestures = @ - 1, !.faults = @ - failed]
      BY <2>18 DEF MentionDismisses
    <3>4. left.gestures > 0 BY <2>18 DEF MentionDismisses
    <3> DEFINE gestures == left.gestures - 1
               faults == left.faults - failed
    <3>5. gestures \in Nat /\ faults \in Nat BY <2>2, <3>3, <3>4
    <3>6. left' = [left EXCEPT !.gestures = gestures, !.faults = faults] BY <3>3 DEF Bound
    <3> HIDE DEF gestures, faults
    <3>7. left' \in Bound BY <3>5, <3>6 DEF Bound
    <3>8. QED BY <2>1, <2>18, <3>2, <3>7 DEF MentionDismisses
  <2>19. ASSUME NEW c \in changes, ApplyChange(c) PROVE PublishTyped'
    <3>1. CASE UNCHANGED dismissed BY <2>1, <2>19, <3>1 DEF ApplyChange, forgeVars
    <3>2. CASE ~UNCHANGED dismissed
      <4>1. RecordDismissal(threads[c.thread].of) \/ DeleteDismissal(threads[c.thread].of)
        BY <2>19, <3>2 DEF ApplyChange
      <4>2. dismissed' \in [Finding -> Nat] BY <4>1 DEF RecordDismissal, DeleteDismissal
      <4>3. QED BY <2>1, <2>19, <4>2 DEF ApplyChange, forgeVars
    <3>3. QED BY <3>1, <3>2
  <2>20. ASSUME NEW c \in changes, LoseChange(c) PROVE PublishTyped'
    BY <2>1, <2>3, <2>20 DEF LoseChange, forgeVars
  <2>21. QED BY <1>2, <2>13, <2>14, <2>15, <2>16, <2>18, <2>19, <2>20 DEF PublishNext, People
<1>3. QED BY <1>1, <1>2

-----------------------------------------------------------------------------
(* What a step does to the review that takes it. *)

\* A review changes nothing of another.
LEMMA OneAtATime ==
    ASSUME PublishTyped, NEW p \in Publisher, Publishing(p)
    PROVE  \A q \in Publisher \ {p} : rv'[q] = rv[q]
<1>1. rv \in [Publisher -> Held] BY DEF PublishTyped
<1>2. StartReview(p) \/ Incomplete(p) \/ Record(p) \/ ReviewFails(p) => \E w : rv' = [rv EXCEPT ![p] = w]
  BY DEF StartReview, Incomplete, Record, ReviewFails
<1>3. Answered(p) => \A q \in Publisher \ {p} : rv'[q] = rv[q] BY <1>1 DEF Answered
<1>4. ResolveThreads(p) => \A q \in Publisher \ {p} : rv'[q] = rv[q] BY <1>1 DEF ResolveThreads
<1>5. EditSticky(p) => \A q \in Publisher \ {p} : rv'[q] = rv[q] BY <1>1 DEF EditSticky, Edited, Goto
<1>6. CreateSticky(p) => \A q \in Publisher \ {p} : rv'[q] = rv[q] BY <1>1 DEF CreateSticky, Edited
<1>7. CreateReview(p) => \A q \in Publisher \ {p} : rv'[q] = rv[q] BY <1>1 DEF CreateReview
<1>8. Approve(p) => \A q \in Publisher \ {p} : rv'[q] = rv[q] BY <1>1 DEF Approve, Goto
<1>9. Persist(p) => \A q \in Publisher \ {p} : rv'[q] = rv[q] BY <1>1 DEF Persist
<1>10. QED BY <1>1, <1>2, <1>3, <1>4, <1>5, <1>6, <1>7, <1>8, <1>9 DEF Publishing

\* What a review found, and where, is as it was.
Keeps(p) ==
    /\ rv'[p].n = rv[p].n /\ rv'[p].gone = rv[p].gone /\ rv'[p].found = rv[p].found
    /\ rv'[p].on = rv[p].on /\ rv'[p].blind = rv[p].blind /\ rv'[p].prior = rv[p].prior
    /\ rv'[p].complete = rv[p].complete /\ rv'[p].inline = rv[p].inline

LEMMA RestingIs ==
    /\ Resting.pc = "idle" /\ Resting.n = 0 /\ Resting.found = {} /\ Resting.gone = {} /\ Resting.comment = 0
    /\ Resting.inline = <<>>
    /\ \A f \in Finding : Resting.on[f] = Nowhere /\ Resting.prior.on[f] = Nowhere
    /\ \A f \in Finding : NoReview.on[f] = Nowhere
BY DEF Resting, NoReview

LEMMA StartGives ==
    ASSUME PublishTyped, NEW p \in Publisher, StartReview(p)
    PROVE  /\ At(p, "idle") /\ rv'[p].pc = "ready" /\ rv'[p].n = started + 1 /\ rv'[p].gone = Dismissed
           /\ rv'[p].found = {} /\ rv'[p].inline = <<>> /\ rv'[p].comment = 0 /\ rv'[p].prior = WithDismissals(last, Dismissed)
           /\ \A f \in Finding : rv'[p].on[f] = Nowhere
BY DEF PublishTyped, StartReview, Resting, NoReview

LEMMA AnsweredGives ==
    ASSUME PublishTyped, NEW p \in Publisher, Answered(p)
    PROVE  /\ At(p, "ready") /\ rv'[p].pc \in {"resolve", "sticky"}
           /\ rv'[p].n = rv[p].n /\ rv'[p].comment = rv[p].comment
           /\ rv'[p].found \subseteq Finding \ rv[p].gone
           /\ rv'[p].prior \in {rv[p].prior, NoReview}
           /\ \A f \in Posting(p)' : f \in rv'[p].found /\ rv'[p].on[f] = Nowhere
           /\ \/ rv'[p].on = MarkOnForge(rv'[p].found, AlreadyInline(rv'[p].found, rv[p].prior))
              \/ rv'[p].blind /\ rv'[p].on = AlreadyInline(rv'[p].found, rv[p].prior)
<1>1. rv \in [Publisher -> Held] /\ rv[p] \in Held BY DEF PublishTyped
<1>2. PICK submitted \in SUBSET Finding, builds \in {b \in BOOLEAN : b => rv[p].prior.n > 0}, read \in BOOLEAN :
          LET found    == DropDismissed(submitted, rv[p].gone)
              recorded == AlreadyInline(found, rv[p].prior)
              on       == IF read THEN MarkOnForge(found, recorded) ELSE recorded
          IN  /\ IF read THEN UNCHANGED left ELSE found # {} /\ PublishFault
              /\ \E inline \in Listings(ToPost(found, on)) :
                  rv' = [rv EXCEPT ![p].pc = IF builds THEN "resolve" ELSE "sticky",
                         ![p].found = found, ![p].blind = ~read, ![p].gone = {},
                         ![p].prior = IF builds THEN @ ELSE NoReview,
                         ![p].on = on, ![p].inline = inline]
    BY DEF Answered
<1> DEFINE found == DropDismissed(submitted, rv[p].gone)
           was == AlreadyInline(found, rv[p].prior)
           on == IF read THEN MarkOnForge(found, was) ELSE was
           at == IF builds THEN "resolve" ELSE "sticky"
           prior == IF builds THEN rv[p].prior ELSE NoReview
           blind == ~read
<1>3. PICK inline \in Listings(ToPost(found, on)) :
        rv' = [rv EXCEPT ![p].pc = at, ![p].found = found, ![p].blind = blind, ![p].gone = {},
                         ![p].prior = prior, ![p].on = on, ![p].inline = inline]
  BY <1>2
<1>4. at \in {"resolve", "sticky"} /\ prior \in {rv[p].prior, NoReview} /\ found \subseteq Finding \ rv[p].gone
  BY DEF DropDismissed
<1>5. on = MarkOnForge(found, was) \/ (blind /\ on = was) OBVIOUS
<1> HIDE DEF found, was, on, at, prior, blind
<1>6. /\ rv'[p].pc = at /\ rv'[p].found = found /\ rv'[p].blind = blind /\ rv'[p].prior = prior /\ rv'[p].on = on
      /\ rv'[p].n = rv[p].n /\ rv'[p].comment = rv[p].comment /\ rv'[p].inline = inline
  BY <1>1, <1>3 DEF Held
<1>7. was = AlreadyInline(rv'[p].found, rv[p].prior) BY <1>6 DEF was
<1>8. At(p, "ready") BY DEF Answered
<1>9. \A f \in Posting(p)' : f \in found /\ on[f] = Nowhere
  <2>1. ToPost(found, on) \subseteq Finding /\ \A f \in ToPost(found, on) : f \in found /\ on[f] = Nowhere
    BY <1>4 DEF ToPost
  <2>2. \A i \in DOMAIN inline : inline[i] \in ToPost(found, on) BY <1>3, <2>1, ListingsAreOf
  <2>3. QED BY <1>6, <2>1, <2>2 DEF Posting
<1>10. QED BY <1>4, <1>5, <1>6, <1>7, <1>8, <1>9

LEMMA IncompleteGives ==
    ASSUME PublishTyped, NEW p \in Publisher, Incomplete(p)
    PROVE  /\ At(p, "ready") /\ rv'[p].pc = "sticky" /\ rv'[p].n = rv[p].n /\ rv'[p].found = {}
           /\ rv'[p].comment = 0 /\ rv'[p].inline = <<>>
           /\ \A f \in Finding : rv'[p].on[f] = Nowhere /\ rv'[p].prior.on[f] = Nowhere
BY DEF PublishTyped, Incomplete, Resting, NoReview

LEMMA ResolveGives ==
    ASSUME PublishTyped, NEW p \in Publisher, ResolveThreads(p)
    PROVE  /\ At(p, "resolve") /\ rv'[p].pc = "sticky" /\ rv'[p].n = rv[p].n /\ rv'[p].found = rv[p].found
           /\ rv'[p].gone = rv[p].gone /\ rv'[p].on = rv[p].on /\ rv'[p].blind = rv[p].blind
           /\ rv'[p].inline = rv[p].inline /\ rv'[p].comment = rv[p].comment /\ rv'[p].prior = NoReview
BY DEF PublishTyped, Held, ResolveThreads

LEMMA GotoGives ==
    ASSUME PublishTyped, NEW p \in Publisher, NEW at, Goto(p, at)
    PROVE  Keeps(p) /\ rv'[p].pc = at /\ rv'[p].comment = rv[p].comment
BY DEF PublishTyped, Held, Goto, Keeps

LEMMA EditedGives ==
    ASSUME PublishTyped, NEW p \in Publisher, NEW id, Edited(p, id)
    PROVE  /\ Keeps(p) /\ rv'[p].comment = id /\ summary' = Says(p)
           /\ rv'[p].pc = IF rv[p].complete THEN "inline" ELSE "persist"
BY DEF PublishTyped, Held, Edited, Keeps

\* The inline review posted, or not, and its numbers read back, or not.
LEMMA CreateReviewGives ==
    ASSUME PublishTyped, NEW p \in Publisher, CreateReview(p)
    PROVE  /\ At(p, "inline") /\ rv'[p].pc = "approve" /\ rv'[p].n = rv[p].n /\ rv'[p].found = rv[p].found
           /\ rv'[p].gone = rv[p].gone /\ rv'[p].comment = rv[p].comment /\ rv'[p].prior = rv[p].prior
           /\ rv'[p].inline = <<>>
           /\ \A f \in Finding :
                \/ rv'[p].on[f] = rv[p].on[f] \/ rv'[p].on[f] = {Unread}
                \/ rv'[p].on[f] = Number(p, f) /\ threads' = Posted(p)
<1>1. rv \in [Publisher -> Held] /\ rv[p] \in Held BY DEF PublishTyped
<1> DEFINE on(o) == [f \in Finding |-> CASE f \in Posting(p) /\ o = "read" -> Number(p, f)
                           [] f \in Posting(p) /\ o = "unread" -> {Unread}
                           [] OTHER -> rv[p].on[f]]
<1>2. PICK outcome :
        /\ threads' = IF outcome = "refused" THEN threads ELSE Posted(p)
        /\ rv' = [rv EXCEPT ![p].pc = "approve", ![p].inline = <<>>, ![p].on = on(outcome)]
  BY <1>1 DEF CreateReview, Held
<1>3. rv' = [rv EXCEPT ![p].pc = "approve", ![p].inline = <<>>, ![p].on = on(outcome)] BY <1>2
<1>4. \A f \in Finding :
        \/ on(outcome)[f] = rv[p].on[f] \/ on(outcome)[f] = {Unread}
        \/ outcome = "read" /\ on(outcome)[f] = Number(p, f)
  <2> HIDE DEF Posting, Number
  <2>1. QED OBVIOUS
<1>5. outcome = "read" => threads' = Posted(p) BY <1>2
<1> HIDE DEF on
<1>6. /\ rv'[p].pc = "approve" /\ rv'[p].on = on(outcome) /\ rv'[p].n = rv[p].n /\ rv'[p].found = rv[p].found
      /\ rv'[p].gone = rv[p].gone /\ rv'[p].comment = rv[p].comment /\ rv'[p].prior = rv[p].prior
      /\ rv'[p].inline = <<>>
  BY <1>1, <1>3 DEF Held
<1>7. At(p, "inline") BY DEF CreateReview
<1>8. QED BY <1>4, <1>5, <1>6, <1>7

LEMMA RestGives ==
    ASSUME PublishTyped, NEW p \in Publisher, rv' = [rv EXCEPT ![p] = Resting] PROVE rv'[p] = Resting
BY DEF PublishTyped

\* The last steps leave nothing of the review, or all.
LEMMA PersistGives ==
    ASSUME PublishTyped, NEW p \in Publisher, Persist(p)
    PROVE  \/ rv'[p] = Resting
           \/ Keeps(p) /\ rv'[p].pc = "record" /\ rv'[p].comment = rv[p].comment
BY DEF PublishTyped, Held, Persist, Keeps

\* What people and the thread jobs leave alone.
Outside == People \/ \E c \in changes : ApplyChange(c) \/ LoseChange(c)

LEMMA OutsideLeaves ==
    ASSUME PublishTyped, Outside
    PROVE  /\ UNCHANGED <<rv, last, started, approved, summary, raced, stored, commented>>
           /\ stickies' \subseteq stickies
           /\ UNCHANGED dismissed \/ \E f \in Finding : RecordDismissal(f) \/ DeleteDismissal(f)
<1>1. \A i \in DOMAIN threads : threads[i].of \in Finding
  <2>1. \A i \in DOMAIN threads : threads[i] \in Thread BY DEF PublishTyped
  <2>2. QED BY <2>1 DEF Thread
<1>2. DeleteSticky => UNCHANGED <<rv, last, started, approved, summary, raced, stored, commented, dismissed>>
                      /\ stickies' \subseteq stickies
  BY DEF DeleteSticky, rowVars
<1>3. ASSUME NEW i \in DOMAIN threads, JoinThread(i)
      PROVE  UNCHANGED <<rv, last, started, approved, summary, raced, stored, commented, dismissed, stickies>>
  BY <1>3 DEF JoinThread, rowVars
<1>4. ASSUME NEW i \in DOMAIN threads, NEW writer \in BOOLEAN, ToggleThread(i, writer)
      PROVE  UNCHANGED <<rv, last, started, approved, summary, raced, stored, commented, dismissed, stickies>>
  BY <1>4 DEF ToggleThread
<1>5. ASSUME NEW i \in DOMAIN threads, MentionDismisses(i)
      PROVE  /\ UNCHANGED <<rv, last, started, approved, summary, raced, stored, commented, stickies>>
             /\ UNCHANGED dismissed \/ \E f \in Finding : RecordDismissal(f)
  BY <1>1, <1>5 DEF MentionDismisses
<1>6. People => /\ UNCHANGED <<rv, last, started, approved, summary, raced, stored, commented>>
                /\ stickies' \subseteq stickies
                /\ UNCHANGED dismissed \/ \E f \in Finding : RecordDismissal(f)
  BY <1>2, <1>3, <1>4, <1>5 DEF People
<1>7. ASSUME NEW c \in changes, ApplyChange(c)
      PROVE  /\ UNCHANGED <<rv, last, started, approved, summary, raced, stored, commented, stickies>>
             /\ UNCHANGED dismissed \/ RecordDismissal(threads[c.thread].of) \/ DeleteDismissal(threads[c.thread].of)
  BY <1>7 DEF ApplyChange, forgeVars
<1>8. ASSUME NEW c \in changes, LoseChange(c)
      PROVE  UNCHANGED <<rv, last, started, approved, summary, raced, stored, commented, stickies, dismissed>>
  BY <1>8 DEF LoseChange, forgeVars
<1>9. ASSUME NEW f, RecordDismissal(f) \/ DeleteDismissal(f), f \notin Finding PROVE UNCHANGED dismissed
  BY <1>9 DEF RecordDismissal, DeleteDismissal, PublishTyped
<1>10. QED BY <1>6, <1>7, <1>8, <1>9 DEF Outside

LEMMA StepsAre == PublishNext => (\E p \in Publisher : Publishing(p)) \/ Outside
BY DEF PublishNext, Outside

\* Reviews record no dismissal, and only a start counts.
LEMMA ReviewLeaves ==
    ASSUME NEW p \in Publisher, Publishing(p)
    PROVE  /\ UNCHANGED <<dismissed, changes>>
           /\ started' = IF StartReview(p) THEN started + 1 ELSE started
           /\ ~Persist(p) => UNCHANGED stored
           /\ ~Record(p) => UNCHANGED last
           /\ ~CreateSticky(p) => UNCHANGED <<commented, stickies>>
<1>1. CASE StartReview(p) BY <1>1 DEF StartReview, forgeVars, rowVars
<1>2. CASE ~StartReview(p)
  <2>1. UNCHANGED <<dismissed, changes>>
    BY <1>2 DEF Publishing, Answered, Incomplete, ResolveThreads, EditSticky, CreateSticky, CreateReview, Approve,
       Persist, Record, ReviewFails, rowVars
  <2>2. UNCHANGED started
    BY <1>2 DEF Publishing, Answered, Incomplete, ResolveThreads, EditSticky, CreateSticky, CreateReview, Approve,
       Persist, Record, ReviewFails
  <2>3. ~Persist(p) => UNCHANGED stored
    BY <1>2 DEF Publishing, Answered, Incomplete, ResolveThreads, EditSticky, CreateSticky, CreateReview, Approve,
       Record, ReviewFails, rowVars
  <2>4. ~Record(p) => UNCHANGED last
    BY <1>2 DEF Publishing, Answered, Incomplete, ResolveThreads, EditSticky, CreateSticky, CreateReview, Approve,
       Persist, ReviewFails, rowVars
  <2>5. ~CreateSticky(p) => UNCHANGED <<commented, stickies>>
    BY <1>2 DEF Publishing, Answered, Incomplete, ResolveThreads, EditSticky, CreateReview, Approve,
       Persist, Record, ReviewFails, forgeVars
  <2>6. QED BY <1>2, <2>1, <2>2, <2>3, <2>4, <2>5
<1>3. QED BY <1>1, <1>2

\* What a step does to a review's number and comment.
LEMMA NumbersAfter ==
    ASSUME PublishTyped, NumbersSound, NEW p \in Publisher, Publishing(p)
    PROVE  rv'[p].n <= started' /\ rv'[p].comment <= commented'
<1>1. /\ rv[p].n <= started /\ rv[p].comment <= commented /\ started \in Nat /\ commented \in Nat
      /\ rv[p].n \in Nat /\ rv[p].comment \in Nat
  BY DEF PublishTyped, NumbersSound, Held
<1>2. started' = (IF StartReview(p) THEN started + 1 ELSE started) BY ReviewLeaves
<1>3. commented' = IF CreateSticky(p) THEN commented + 1 ELSE commented BY ReviewLeaves DEF CreateSticky
<1>4. rv'[p] = Resting => rv'[p].n = 0 /\ rv'[p].comment = 0 BY RestingIs
<1>5. Keeps(p) => rv'[p].n = rv[p].n BY DEF Keeps
<1>6. CASE StartReview(p) BY <1>1, <1>2, <1>3, <1>6, StartGives
<1>7. CASE Answered(p) BY <1>1, <1>2, <1>3, <1>7, AnsweredGives
<1>8. CASE Incomplete(p) BY <1>1, <1>2, <1>3, <1>8, IncompleteGives
<1>9. CASE ResolveThreads(p) BY <1>1, <1>2, <1>3, <1>9, ResolveGives
<1>10. CASE EditSticky(p)
  <2>1. CASE Goto(p, "create") BY <1>1, <1>2, <1>3, <1>5, <2>1, GotoGives
  <2>2. CASE Sticky # 0 /\ Edited(p, Sticky)
    <3>1. /\ stickies \subseteq Nat /\ stored \in Nat /\ stored <= commented
          /\ \A id \in stickies : id <= commented
      <4>1. stickies \subseteq Nat /\ stored \in Nat BY DEF PublishTyped
      <4>2. stickies \subseteq 1..commented /\ stored <= commented BY DEF NumbersSound
      <4>3. QED BY <1>1, <4>1, <4>2
    <3>2. stickies # {} => Oldest(stickies) \in stickies BY <3>1, OldestIsOne
    <3>3. Sticky <= commented BY <1>1, <2>2, <3>1, <3>2 DEF Sticky
    <3>4. rv'[p].comment = Sticky /\ Keeps(p) BY <2>2, EditedGives
    <3>5. ~StartReview(p) /\ ~CreateSticky(p) BY <1>10 DEF StartReview, CreateSticky, EditSticky, At
    <3>6. rv'[p].n = rv[p].n /\ started' = started /\ commented' = commented
      BY <1>2, <1>3, <1>5, <3>4, <3>5
    <3>7. QED BY <1>1, <3>3, <3>4, <3>6
  <2>3. QED BY <1>10, <2>1, <2>2 DEF EditSticky
<1>11. CASE CreateSticky(p)
  <2>1. CASE Edited(p, commented + 1) BY <1>1, <1>2, <1>3, <1>5, <1>11, <2>1, EditedGives
  <2>2. CASE rv' = [rv EXCEPT ![p] = Resting] BY <1>1, <1>2, <1>3, <1>4, <2>2, RestGives
  <2>3. QED BY <1>11, <2>1, <2>2 DEF CreateSticky
<1>12. CASE CreateReview(p) BY <1>1, <1>2, <1>3, <1>12, CreateReviewGives
<1>13. CASE Approve(p)
  <2>1. Goto(p, "persist") BY <1>13 DEF Approve
  <2>2. QED BY <1>1, <1>2, <1>3, <1>5, <2>1, GotoGives
<1>14. CASE Persist(p) BY <1>1, <1>2, <1>3, <1>4, <1>5, <1>14, PersistGives
<1>15. CASE Record(p) \/ ReviewFails(p)
  <2>1. rv' = [rv EXCEPT ![p] = Resting] BY <1>15 DEF Record, ReviewFails
  <2>2. QED BY <1>1, <1>2, <1>3, <1>4, <2>1, RestGives
<1>16. QED
  BY <1>6, <1>7, <1>8, <1>9, <1>10, <1>11, <1>12, <1>13, <1>14, <1>15 DEF Publishing

LEMMA NumbersKept ==
    ASSUME PublishTyped, SpotsSound, NumbersSound, PublishNext PROVE NumbersSound'
<1>1. DOMAIN threads \subseteq DOMAIN threads' BY ThreadsGrow
<1>2. CASE Outside
  <2>1. \A c \in changes' : c.thread \in DOMAIN threads
    <3>1. ASSUME NEW i \in DOMAIN threads, NEW writer \in BOOLEAN, ToggleThread(i, writer)
          PROVE  \A c \in changes' : c.thread \in DOMAIN threads
      BY <3>1 DEF NumbersSound, ToggleThread
    <3>2. CASE changes' \subseteq changes BY <3>2 DEF NumbersSound
    <3>3. DeleteSticky => changes' = changes BY DEF DeleteSticky, rowVars
    <3>4. \A i \in DOMAIN threads : JoinThread(i) \/ MentionDismisses(i) => changes' = changes
      BY DEF JoinThread, MentionDismisses, rowVars
    <3>5. \A c \in changes : ApplyChange(c) \/ LoseChange(c) => changes' \subseteq changes
      BY DEF ApplyChange, LoseChange
    <3>6. QED BY <1>2, <3>1, <3>2, <3>3, <3>4, <3>5 DEF Outside, People
  <2>2. ASSUME NEW f \in Finding PROVE dismissed'[f] <= started + 1
    BY <1>2, OutsideLeaves DEF RecordDismissal, DeleteDismissal, NumbersSound, PublishTyped
  <2>3. QED BY <1>1, <1>2, <2>1, <2>2, OutsideLeaves DEF NumbersSound
<1>3. ASSUME NEW p \in Publisher, Publishing(p) PROVE NumbersSound'
  <2>1. UNCHANGED <<dismissed, changes>> /\ (started' = started \/ started' = started + 1) /\ started \in Nat
    BY <1>3, ReviewLeaves DEF PublishTyped
  <2>2. stickies' \subseteq 1..commented' /\ commented <= commented' /\ commented \in Nat
    <3>1. commented \in Nat /\ stickies \subseteq 1..commented BY DEF NumbersSound, PublishTyped
    <3>2. CreateSticky(p) => commented' = commented + 1 /\ stickies' = stickies \cup {commented + 1}
      BY DEF CreateSticky
    <3>3. ~CreateSticky(p) => commented' = commented /\ stickies' = stickies BY <1>3, ReviewLeaves
    <3>4. CASE CreateSticky(p)
      <4>1. commented' = commented + 1 /\ stickies' = stickies \cup {commented + 1} BY <3>2, <3>4
      <4>2. \A id \in stickies' : id \in 1..(commented + 1) BY <3>1, <4>1
      <4>3. commented' = commented + 1 BY <4>1
      <4>4. stickies' \subseteq 1..commented' BY <4>2, <4>3
      <4>5. commented <= commented' BY <3>1, <4>3
      <4>6. QED BY <3>1, <4>4, <4>5
    <3>5. CASE ~CreateSticky(p)
      <4>1. commented' = commented /\ stickies' = stickies BY <3>3, <3>5
      <4>2. commented <= commented' BY <3>1, <4>1
      <4>3. QED BY <3>1, <4>1, <4>2
    <3>6. QED BY <3>4, <3>5
  <2>3. stored' <= commented'
    <3>1. CASE Persist(p)
      <4>1. stored' = rv[p].comment /\ commented' = commented BY <3>1 DEF Persist, forgeVars
      <4>2. QED BY <4>1 DEF NumbersSound
    <3>2. CASE ~Persist(p)
      <4>1. stored' = stored BY <1>3, <3>2, ReviewLeaves
      <4>2. stored \in Nat /\ commented' \in Nat /\ stored <= commented
        BY <1>3, TypedKept DEF NumbersSound, PublishTyped, PublishNext
      <4>3. QED BY <2>2, <4>1, <4>2
    <3>3. QED BY <3>1, <3>2
  <2>4. last'.n <= started'
    <3>1. CASE Record(p)
      <4>1. last' = last \/ last'.n = rv[p].n BY <3>1 DEF Record
      <4>2. rv[p].n <= started /\ last.n <= started /\ rv[p].n \in Nat /\ last.n \in Nat
        BY DEF NumbersSound, PublishTyped, Held, Past
      <4>3. QED BY <2>1, <4>1, <4>2
    <3>2. CASE ~Record(p) BY <1>3, <2>1, <3>2, ReviewLeaves DEF NumbersSound, PublishTyped, Past
    <3>3. QED BY <3>1, <3>2
  <2>5. \A f \in Finding : dismissed'[f] <= started' + 1 BY <2>1 DEF NumbersSound, PublishTyped
  <2>6. ASSUME NEW q \in Publisher \ {p} PROVE rv'[q].n <= started' /\ rv'[q].comment <= commented'
    <3>1. rv'[q] = rv[q] /\ rv[q] \in Held BY <1>3, OneAtATime DEF PublishTyped
    <3>2. rv[q].n <= started /\ rv[q].comment <= commented BY DEF NumbersSound
    <3>3. rv[q].n \in Nat /\ rv[q].comment \in Nat /\ started' \in Nat /\ commented' \in Nat
      BY <1>3, <3>1, TypedKept DEF Held, PublishTyped, PublishNext
    <3>4. QED BY <2>1, <2>2, <3>1, <3>2, <3>3
  <2>7. QED BY <1>1, <1>3, <2>1, <2>2, <2>3, <2>4, <2>5, <2>6, NumbersAfter DEF NumbersSound
<1>4. QED BY <1>2, <1>3, StepsAre

-----------------------------------------------------------------------------
(* A remembered comment is of its finding. *)

LEMMA ForgeHasSpot ==
    ASSUME PublishTyped, NEW found, NEW on, NEW f \in Finding, on[f] \subseteq Spot(f)
    PROVE  MarkOnForge(found, on)[f] \subseteq Spot(f)
<1>1. ThreadsOf(f) \subseteq 0..Len(threads) /\ Len(threads) \in Nat BY DEF ThreadsOf, PublishTyped
<1> HIDE DEF ThreadsOf
<1>2. ThreadsOf(f) # {} => Newest(ThreadsOf(f)) \in ThreadsOf(f) BY <1>1, NewestIsOne
<1>3. \/ MarkOnForge(found, on)[f] = on[f]
      \/ ThreadsOf(f) # {} /\ MarkOnForge(found, on)[f] = {Newest(ThreadsOf(f))}
  BY DEF MarkOnForge
<1>4. QED BY <1>2, <1>3 DEF Spot

LEMMA SpotsAfter ==
    ASSUME PublishTyped, SpotsSound, NEW p \in Publisher, Publishing(p), NEW f \in Finding
    PROVE  rv'[p].on[f] \subseteq Spot(f)' /\ rv'[p].prior.on[f] \subseteq Spot(f)'
<1>1. rv[p].on[f] \subseteq Spot(f) /\ rv[p].prior.on[f] \subseteq Spot(f) /\ last.on[f] \subseteq Spot(f)
  BY DEF SpotsSound
<1>2. Nowhere \subseteq Spot(f) /\ {Unread} \subseteq Spot(f)' /\ Nowhere \subseteq Spot(f)' BY DEF Spot, Nowhere
<1>3. PublishNext BY DEF PublishNext
<1>4. Spot(f) \subseteq Spot(f)' BY <1>3, ThreadsGrow DEF Spot
<1>5. rv'[p] = Resting => rv'[p].on[f] = Nowhere /\ rv'[p].prior.on[f] = Nowhere BY RestingIs
<1>6. NoReview.on[f] = Nowhere BY RestingIs
<1>7. Keeps(p) => rv'[p].on = rv[p].on /\ rv'[p].prior = rv[p].prior BY DEF Keeps
<1>8. CASE StartReview(p)
  <2>1. WithDismissals(last, Dismissed).on[f] \in {Nowhere, last.on[f]}
    BY DEF WithDismissals, PublishTyped, Past
  <2>2. QED BY <1>1, <1>2, <1>4, <1>8, <2>1, StartGives
<1>9. CASE Answered(p)
  <2> DEFINE was == AlreadyInline(rv'[p].found, rv[p].prior)
  <2>1. rv[p].prior \in Past BY DEF PublishTyped, Held
  <2>2. was[f] \subseteq Spot(f) BY <1>1, <2>1, RecordedIs
  <2> HIDE DEF was
  <2>3. MarkOnForge(rv'[p].found, was)[f] \subseteq Spot(f) BY <2>2, ForgeHasSpot
  <2>4. rv'[p].prior \in {rv[p].prior, NoReview} /\ rv'[p].on \in {MarkOnForge(rv'[p].found, was), was}
    BY <1>9, AnsweredGives DEF was
  <2>5. QED BY <1>1, <1>2, <1>4, <1>6, <2>2, <2>3, <2>4
<1>10. CASE Incomplete(p) BY <1>2, <1>10, IncompleteGives
<1>11. CASE ResolveThreads(p) BY <1>1, <1>2, <1>4, <1>6, <1>11, ResolveGives
<1>12. CASE Keeps(p) BY <1>1, <1>4, <1>7, <1>12
<1>13. CASE rv'[p] = Resting BY <1>2, <1>5, <1>13
<1>14. EditSticky(p) => Keeps(p) BY GotoGives, EditedGives DEF EditSticky
<1>15. CreateSticky(p) => Keeps(p) \/ rv'[p] = Resting BY RestGives, EditedGives DEF CreateSticky
<1>16. CASE CreateReview(p)
  <2>1. /\ \/ rv'[p].on[f] = rv[p].on[f] \/ rv'[p].on[f] = {Unread}
           \/ rv'[p].on[f] = Number(p, f) /\ threads' = Posted(p)
        /\ rv'[p].prior = rv[p].prior
    BY <1>16, CreateReviewGives
  <2>2. threads' = Posted(p) => Number(p, f) \subseteq ThreadsOf(f)' BY PostedOwners
  <2>3. ThreadsOf(f)' \subseteq Spot(f)' BY DEF Spot
  <2>4. QED BY <1>1, <1>2, <1>4, <2>1, <2>2, <2>3
<1>17. Approve(p) => Keeps(p) BY GotoGives DEF Approve
<1>18. Persist(p) => Keeps(p) \/ rv'[p] = Resting BY PersistGives
<1>19. Record(p) \/ ReviewFails(p) => rv'[p] = Resting BY RestGives DEF Record, ReviewFails
<1>20. QED
  BY <1>8, <1>9, <1>10, <1>11, <1>12, <1>13, <1>14, <1>15, <1>16, <1>17, <1>18, <1>19 DEF Publishing

LEMMA SpotsKept == ASSUME PublishTyped, SpotsSound, PublishNext PROVE SpotsSound'
<1>1. \A f \in Finding : Spot(f) \subseteq Spot(f)' BY ThreadsGrow DEF Spot
<1>2. CASE Outside BY <1>1, <1>2, OutsideLeaves DEF SpotsSound
<1>3. ASSUME NEW p \in Publisher, Publishing(p), NEW f \in Finding
      PROVE  /\ last'.on[f] \subseteq Spot(f)'
             /\ \A q \in Publisher : rv'[q].on[f] \subseteq Spot(f)' /\ rv'[q].prior.on[f] \subseteq Spot(f)'
  <2>1. last' = last \/ last'.on = rv[p].on
    <3>1. Record(p) => last' = last \/ last'.on = rv[p].on BY DEF Record
    <3>2. ~Record(p) => last' = last BY <1>3, ReviewLeaves
    <3>3. QED BY <3>1, <3>2
  <2>2. last.on[f] \subseteq Spot(f)' /\ rv[p].on[f] \subseteq Spot(f)' BY <1>1 DEF SpotsSound
  <2>3. \A q \in Publisher \ {p} : rv'[q].on[f] \subseteq Spot(f)' /\ rv'[q].prior.on[f] \subseteq Spot(f)'
    BY <1>1, <1>3, OneAtATime DEF SpotsSound
  <2>4. rv'[p].on[f] \subseteq Spot(f)' /\ rv'[p].prior.on[f] \subseteq Spot(f)' BY <1>3, SpotsAfter
  <2>5. QED BY <2>1, <2>2, <2>3, <2>4
<1>4. QED BY <1>2, <1>3, StepsAre DEF SpotsSound

-----------------------------------------------------------------------------
(* A dismissed finding stays out. *)

\* What DismissalsSound asks of one review and one finding.
LeavesOut(p, f) ==
    \/ dismissed[f] = 0 \/ rv[p].n < dismissed[f]
    \/ IF At(p, "ready") THEN f \in rv[p].gone ELSE f \notin rv[p].found

\* A dismissal is recorded with a number past every review's.
LEMMA DismissalsOutside ==
    ASSUME PublishTyped, NumbersSound, DismissalsSound, Outside PROVE DismissalsSound'
<1>1. UNCHANGED <<rv, last, started>> BY OutsideLeaves
<1>2. /\ dismissed \in [Finding -> Nat] /\ started \in Nat /\ last.n \in Nat /\ last.n <= started
      /\ \A p \in Publisher : rv[p].n \in Nat /\ rv[p].n <= started
      /\ last.found \subseteq Finding
  BY DEF PublishTyped, NumbersSound, Past, Held
<1>3. \A f \in Finding : dismissed'[f] \in {dismissed[f], started + 1, 0}
  BY <1>2, OutsideLeaves DEF RecordDismissal, DeleteDismissal
<1>4. \A f \in last.found : dismissed'[f] # 0 => last.n < dismissed'[f]
  BY <1>2, <1>3 DEF DismissalsSound, DismissedStaysOut
<1>5. ASSUME NEW p \in Publisher, NEW f \in Finding PROVE LeavesOut(p, f)'
  <2>1. LeavesOut(p, f) BY DEF DismissalsSound, LeavesOut, At
  <2>2. rv[p].n < started + 1 BY <1>2
  <2>3. dismissed'[f] \in {started + 1, 0} => LeavesOut(p, f)' BY <1>1, <2>2 DEF LeavesOut, At
  <2>4. dismissed'[f] = dismissed[f] => LeavesOut(p, f)' BY <1>1, <2>1 DEF LeavesOut, At
  <2>5. QED BY <1>3, <2>3, <2>4
<1>6. QED BY <1>1, <1>4, <1>5 DEF DismissalsSound, DismissedStaysOut, LeavesOut, At

LEMMA LeavesOutAfter ==
    ASSUME PublishTyped, NEW p \in Publisher, Publishing(p), NEW f \in Finding, LeavesOut(p, f)
    PROVE  LeavesOut(p, f)'
<1>1. dismissed' = dismissed BY ReviewLeaves
<1>2. Keeps(p) /\ ~At(p, "ready") /\ rv'[p].pc # "ready" => LeavesOut(p, f)'
  BY <1>1 DEF Keeps, LeavesOut, At
<1>3. rv'[p] = Resting => LeavesOut(p, f)' BY RestingIs DEF LeavesOut, At
<1>4. CASE StartReview(p)
  <2>1. f \in Dismissed \/ dismissed[f] = 0 BY DEF Dismissed
  <2>2. QED BY <1>1, <1>4, <2>1, StartGives DEF LeavesOut, At
<1>5. CASE Answered(p)
  <2>1. At(p, "ready") /\ rv'[p].pc # "ready" /\ rv'[p].n = rv[p].n /\ rv'[p].found \subseteq Finding \ rv[p].gone
    BY <1>5, AnsweredGives
  <2>2. QED BY <1>1, <2>1 DEF LeavesOut, At
<1>6. CASE Incomplete(p) BY <1>6, IncompleteGives DEF LeavesOut, At
<1>7. CASE ResolveThreads(p) BY <1>1, <1>7, ResolveGives DEF LeavesOut, At
<1>8. EditSticky(p) => Keeps(p) /\ ~At(p, "ready") /\ rv'[p].pc # "ready"
  <2>1. EditSticky(p) => ~At(p, "ready") BY DEF EditSticky, At
  <2>2. QED BY <2>1, GotoGives, EditedGives DEF EditSticky
<1>9. CreateSticky(p) => \/ Keeps(p) /\ ~At(p, "ready") /\ rv'[p].pc # "ready"
                         \/ rv'[p] = Resting
  <2>1. CreateSticky(p) => ~At(p, "ready") BY DEF CreateSticky, At
  <2>2. QED BY <2>1, RestGives, EditedGives DEF CreateSticky
<1>10. CASE CreateReview(p) BY <1>1, <1>10, CreateReviewGives DEF LeavesOut, At
<1>11. Approve(p) => Keeps(p) /\ ~At(p, "ready") /\ rv'[p].pc # "ready"
  <2>1. Approve(p) => ~At(p, "ready") /\ Goto(p, "persist") BY DEF Approve, At
  <2>2. QED BY <2>1, GotoGives
<1>12. Persist(p) => \/ Keeps(p) /\ ~At(p, "ready") /\ rv'[p].pc # "ready"
                     \/ rv'[p] = Resting
  <2>1. Persist(p) => ~At(p, "ready") BY DEF Persist, At
  <2>2. QED BY <2>1, PersistGives
<1>13. Record(p) \/ ReviewFails(p) => rv'[p] = Resting BY RestGives DEF Record, ReviewFails
<1>14. QED
  BY <1>2, <1>3, <1>4, <1>5, <1>6, <1>7, <1>8, <1>9, <1>10, <1>11, <1>12, <1>13 DEF Publishing

LEMMA DismissalsKept ==
    ASSUME PublishTyped, NumbersSound, DismissalsSound, PublishNext PROVE DismissalsSound'
<1>1. ASSUME NEW p \in Publisher, Publishing(p) PROVE DismissalsSound'
  <2>1. dismissed' = dismissed BY <1>1, ReviewLeaves
  <2>2. DismissedStaysOut'
    <3>1. CASE last' = last BY <2>1, <3>1 DEF DismissalsSound, DismissedStaysOut
    <3>2. CASE Record(p) /\ last' # last
      <4>1. last' = [n |-> rv[p].n, found |-> rv[p].found, on |-> rv[p].on] BY <3>2 DEF Record
      <4>2. last'.n = rv[p].n /\ last'.found = rv[p].found BY <4>1
      <4>3. At(p, "record") BY <3>2 DEF Record
      <4>4. \A f \in last'.found : dismissed[f] = 0 \/ rv[p].n < dismissed[f]
        BY <4>2, <4>3 DEF DismissalsSound, At, PublishTyped, Held
      <4>5. QED BY <2>1, <4>2, <4>4 DEF DismissedStaysOut
    <3>3. QED BY <1>1, <3>1, <3>2, ReviewLeaves
  <2>3. ASSUME NEW q \in Publisher, NEW f \in Finding PROVE LeavesOut(q, f)'
    <3>1. LeavesOut(q, f) BY DEF DismissalsSound, LeavesOut, At
    <3>2. CASE q = p BY <1>1, <3>1, <3>2, LeavesOutAfter
    <3>3. CASE q # p
      <4>1. rv'[q] = rv[q] BY <1>1, <3>3, OneAtATime
      <4>2. QED BY <2>1, <3>1, <4>1 DEF LeavesOut, At
    <3>4. QED BY <3>2, <3>3
  <2>4. QED BY <2>2, <2>3 DEF DismissalsSound, LeavesOut, At
<1>2. QED BY <1>1, DismissalsOutside, StepsAre

-----------------------------------------------------------------------------
(* An approval is withdrawn. *)

Withholds(p) == Deciding(p) /\ ~Approvable(p)

\* A review that is not at its approvals, before or after, changes nothing
\* of what the approval depends on.
LEMMA ApprovalAside ==
    ASSUME NEW p \in Publisher, ApprovalSound, UNCHANGED <<summary, approved>>, raced \subseteq raced',
           \A q \in Publisher \ {p} : rv'[q] = rv[q], ~Deciding(p), ~Deciding(p)'
    PROVE  ApprovalSound'
<1>1. \A q \in Publisher \ {p} : Deciding(q)' = Deciding(q) /\ Withholds(q)' = Withholds(q)
  BY DEF Deciding, Withholds, Approvable
<1>2. ~Withholds(p) /\ ~Withholds(p)' BY DEF Withholds
<1>3. CASE summary' # "blocking" \/ "approval" \in raced BY <1>3 DEF ApprovalSound
<1>4. CASE \E q \in Publisher : Withholds(q)
  <2>1. PICK q \in Publisher : Withholds(q) BY <1>4
  <2>2. Withholds(q)' BY <1>1, <1>2, <2>1
  <2>3. QED BY <2>2 DEF ApprovalSound, Withholds
<1>5. CASE ~approved /\ \A q \in Publisher : ~Deciding(q)
  <2>1. ~approved' /\ \A q \in Publisher : ~Deciding(q)' BY <1>1, <1>5
  <2>2. QED BY <2>1 DEF ApprovalSound
<1>6. QED BY <1>3, <1>4, <1>5 DEF ApprovalSound, Withholds

\* The summary and the way to the approvals change together.
LEMMA ApprovalEdited ==
    ASSUME PublishTyped, NEW p \in Publisher, NEW id, Edited(p, id) PROVE ApprovalSound'
<1>1. /\ Keeps(p) /\ summary' = Says(p)
      /\ rv'[p].pc = IF rv[p].complete THEN "inline" ELSE "persist"
  BY EditedGives
<1>2. CASE summary' = "blocking"
  <2>1. rv[p].complete /\ ~Approvable(p) BY <1>1, <1>2 DEF Says
  <2>2. rv'[p].pc = "inline" /\ rv'[p].found = rv[p].found BY <1>1, <2>1 DEF Keeps
  <2>3. Deciding(p)' /\ ~Approvable(p)' BY <2>1, <2>2 DEF Deciding, Approvable
  <2>4. QED BY <2>3 DEF ApprovalSound
<1>3. QED BY <1>2 DEF ApprovalSound

LEMMA ApprovalSoundAfter ==
    ASSUME PublishTyped, ApprovalSound, NEW p \in Publisher, Publishing(p) PROVE ApprovalSound'
<1>1. \A q \in Publisher \ {p} : rv'[q] = rv[q] BY OneAtATime
<1>2. CASE StartReview(p)
  <2>1. ~Deciding(p) /\ ~Deciding(p)' BY <1>2, StartGives DEF Deciding, At
  <2>2. UNCHANGED <<summary, approved, raced>> BY <1>2 DEF StartReview, forgeVars
  <2>3. QED BY <1>1, <2>1, <2>2, ApprovalAside
<1>3. CASE Answered(p)
  <2>1. ~Deciding(p) /\ ~Deciding(p)' BY <1>3, AnsweredGives DEF Deciding, At
  <2>2. UNCHANGED <<summary, approved, raced>> BY <1>3 DEF Answered, forgeVars
  <2>3. QED BY <1>1, <2>1, <2>2, ApprovalAside
<1>4. CASE Incomplete(p)
  <2>1. ~Deciding(p) /\ ~Deciding(p)' BY <1>4, IncompleteGives DEF Deciding, At
  <2>2. UNCHANGED <<summary, approved, raced>> BY <1>4 DEF Incomplete, forgeVars
  <2>3. QED BY <1>1, <2>1, <2>2, ApprovalAside
<1>5. CASE ResolveThreads(p)
  <2>1. ~Deciding(p) /\ ~Deciding(p)' BY <1>5, ResolveGives DEF Deciding, At
  <2>2. UNCHANGED <<summary, approved, raced>> BY <1>5 DEF ResolveThreads
  <2>3. QED BY <1>1, <2>1, <2>2, ApprovalAside
<1>6. CASE EditSticky(p)
  <2>1. CASE Goto(p, "create") /\ UNCHANGED summary
    <3>1. At(p, "sticky") /\ UNCHANGED <<summary, approved, raced>> BY <1>6, <2>1 DEF EditSticky
    <3>2. ~Deciding(p) /\ ~Deciding(p)' BY <2>1, <3>1, GotoGives DEF Deciding, At
    <3>3. QED BY <1>1, <3>1, <3>2, ApprovalAside
  <2>2. CASE Edited(p, Sticky) BY <2>2, ApprovalEdited
  <2>3. QED BY <1>6, <2>1, <2>2 DEF EditSticky
<1>7. CASE CreateSticky(p)
  <2>1. CASE Edited(p, commented + 1) BY <2>1, ApprovalEdited
  <2>2. CASE "approval" \in raced' BY <2>2 DEF ApprovalSound
  <2>3. QED BY <1>7, <2>1, <2>2 DEF CreateSticky
<1>8. CASE CreateReview(p)
  <2>1. /\ At(p, "inline") /\ rv'[p].pc = "approve" /\ rv'[p].found = rv[p].found BY <1>8, CreateReviewGives
  <2>2. UNCHANGED <<summary, approved>> /\ raced \subseteq raced' BY <1>8 DEF CreateReview
  <2>3. \A q \in Publisher : rv'[q].found = rv[q].found /\ (Deciding(q)' <=> Deciding(q))
    BY <1>1, <2>1 DEF Deciding, At
  <2>4. \A q \in Publisher : Withholds(q)' <=> Withholds(q) BY <2>3 DEF Withholds, Approvable
  <2>5. Deciding(p) BY <2>1 DEF Deciding, At
  <2>6. CASE summary' # "blocking" \/ "approval" \in raced BY <2>2, <2>6 DEF ApprovalSound
  <2>7. CASE \E q \in Publisher : Withholds(q)
    <3>1. PICK q \in Publisher : Withholds(q)' BY <2>4, <2>7
    <3>2. QED BY <3>1 DEF ApprovalSound, Withholds
  <2>8. QED BY <2>2, <2>5, <2>6, <2>7 DEF ApprovalSound, Withholds
<1>9. CASE Approve(p)
  <2>1. CASE "approval" \in raced' BY <2>1 DEF ApprovalSound
  <2>2. CASE "approval" \notin raced'
    <3>1. Others(p) = {} /\ approved' = Approvable(p) /\ raced' = raced
      BY <1>9, <2>2 DEF Approve, Raced, ApprovalAfter
    <3>2. At(p, "approve") /\ Goto(p, "persist") /\ summary' = summary BY <1>9 DEF Approve
    <3>3. \A q \in Publisher \ {p} : rv[q].pc = "idle" BY <3>1 DEF Others
    <3>4. Deciding(p) /\ \A q \in Publisher \ {p} : ~Withholds(q)
      BY <3>2, <3>3 DEF Deciding, Withholds, At
    <3>5. rv'[p].pc = "persist" BY <3>2, GotoGives
    <3>6. \A q \in Publisher : ~Deciding(q)' BY <1>1, <3>3, <3>5 DEF Deciding
    <3>7. CASE summary' = "blocking"
      <4>1. \E q \in Publisher : Withholds(q) BY <2>2, <3>1, <3>2, <3>4, <3>7 DEF ApprovalSound, Withholds
      <4>2. Withholds(p) BY <3>4, <4>1
      <4>3. ~Approvable(p) BY <4>2 DEF Withholds
      <4>4. ~approved' BY <3>1, <4>3
      <4>5. QED BY <3>6, <4>4 DEF ApprovalSound
    <3>8. QED BY <3>7 DEF ApprovalSound
  <2>3. QED BY <2>1, <2>2
<1>10. CASE Persist(p)
  <2>1. At(p, "persist") /\ UNCHANGED <<summary, approved, raced>> BY <1>10 DEF Persist, forgeVars
  <2>2. ~Deciding(p) /\ ~Deciding(p)' BY <1>10, <2>1, PersistGives, RestingIs DEF Deciding, At
  <2>3. QED BY <1>1, <2>1, <2>2, ApprovalAside
<1>11. CASE Record(p)
  <2>1. At(p, "record") /\ UNCHANGED <<summary, approved, raced>> BY <1>11 DEF Record, forgeVars
  <2>2. rv'[p] = Resting BY <1>11, RestGives DEF Record
  <2>3. ~Deciding(p) /\ ~Deciding(p)' BY <2>1, <2>2, RestingIs DEF Deciding, At
  <2>4. QED BY <1>1, <2>1, <2>3, ApprovalAside
<1>12. CASE ReviewFails(p)
  <2>1. CASE Deciding(p)
    <3>1. "approval" \in raced' BY <1>12, <2>1 DEF ReviewFails, Raced, Deciding
    <3>2. QED BY <3>1 DEF ApprovalSound
  <2>2. CASE ~Deciding(p)
    <3>1. rv'[p] = Resting /\ UNCHANGED <<summary, approved>> /\ raced \subseteq raced'
      BY <1>12, RestGives DEF ReviewFails, Raced, forgeVars
    <3>2. ~Deciding(p)' BY <3>1, RestingIs DEF Deciding
    <3>3. QED BY <1>1, <2>2, <3>1, <3>2, ApprovalAside
  <2>3. QED BY <2>1, <2>2
<1>13. QED
  BY <1>2, <1>3, <1>4, <1>5, <1>6, <1>7, <1>8, <1>9, <1>10, <1>11, <1>12 DEF Publishing

LEMMA ApprovalSoundKept ==
    ASSUME PublishTyped, ApprovalSound, PublishNext PROVE ApprovalSound'
<1>1. CASE Outside
  <2>1. UNCHANGED <<rv, approved, summary, raced>> BY <1>1, OutsideLeaves
  <2>2. QED BY <2>1 DEF ApprovalSound, Deciding, Approvable
<1>2. QED BY <1>1, ApprovalSoundAfter, StepsAre

-----------------------------------------------------------------------------
(* One sticky comment. *)

LEMMA RacedGrows == ASSUME NEW p \in Publisher, Publishing(p) PROVE raced \subseteq raced'
<1>1. StartReview(p) \/ Answered(p) \/ Incomplete(p) \/ ResolveThreads(p) \/ EditSticky(p) \/ Persist(p) \/ Record(p)
      => raced' = raced
  BY DEF StartReview, Answered, Incomplete, ResolveThreads, EditSticky, Persist, Record
<1>2. CreateSticky(p) \/ CreateReview(p) \/ Approve(p) \/ ReviewFails(p) => raced \subseteq raced'
  BY DEF CreateSticky, CreateReview, Approve, ReviewFails, Raced
<1>3. QED BY <1>1, <1>2 DEF Publishing

\* A review on its way to create it found none, and creates the one.
LEMMA StickyAfter ==
    ASSUME PublishTyped, NumbersSound, StickySound, NEW p \in Publisher, Publishing(p), "sticky" \notin raced'
    PROVE  /\ \A i, j \in stickies' : i = j
           /\ \A q \in Publisher : At(q, "create")' => stickies' = {}
<1>1. \A q \in Publisher \ {p} : rv'[q] = rv[q] BY OneAtATime
<1>2. raced \subseteq raced' BY RacedGrows
<1>3. /\ \A i, j \in stickies : i = j
      /\ \A q \in Publisher : At(q, "create") => stickies = {}
  BY <1>2 DEF StickySound
<1>4. CASE CreateSticky(p)
  <2>1. At(p, "create") /\ stickies' = stickies \cup {commented + 1} BY <1>4 DEF CreateSticky
  <2>2. stickies = {} BY <1>3, <2>1
  <2>3. \A q \in Others(p) : ~At(q, "create") BY <1>4 DEF CreateSticky
  <2>4. \A q \in Publisher \ {p} : ~At(q, "create") BY <2>3 DEF Others, At
  <2>5. ~At(p, "create")'
    <3>1. CASE Edited(p, commented + 1) BY <3>1, EditedGives DEF At
    <3>2. CASE rv' = [rv EXCEPT ![p] = Resting] BY <3>2, RestGives, RestingIs DEF At
    <3>3. QED BY <1>4, <3>1, <3>2 DEF CreateSticky
  <2>6. \A q \in Publisher : ~At(q, "create")' BY <1>1, <2>4, <2>5 DEF At
  <2>7. QED BY <2>1, <2>2, <2>6
<1>5. CASE ~CreateSticky(p)
  <2>1. stickies' = stickies BY <1>5, ReviewLeaves
  <2>2. ASSUME At(p, "create")' PROVE stickies = {}
    <3>1. EditSticky(p)
      <4>1. ~(rv'[p] = Resting) BY <2>2, RestingIs DEF At
      <4>2. Record(p) \/ ReviewFails(p) => rv'[p] = Resting BY RestGives DEF Record, ReviewFails
      <4>3. ~StartReview(p) /\ ~Answered(p) /\ ~Incomplete(p) /\ ~ResolveThreads(p) /\ ~CreateReview(p)
        BY <2>2, StartGives, AnsweredGives, IncompleteGives, ResolveGives, CreateReviewGives DEF At
      <4>4. ~Approve(p) BY <2>2, GotoGives DEF Approve, At
      <4>5. ~Persist(p) BY <2>2, <4>1, PersistGives DEF At
      <4>6. QED BY <1>5, <4>1, <4>2, <4>3, <4>4, <4>5 DEF Publishing
    <3>2. Sticky = 0
      <4>1. ~Edited(p, Sticky) BY <2>2, EditedGives DEF At
      <4>2. QED BY <3>1, <4>1 DEF EditSticky
    <3>3. stickies \subseteq Nat /\ 0 \notin stickies BY DEF PublishTyped, NumbersSound
    <3>4. stickies # {} => Oldest(stickies) \in stickies BY <3>3, OldestIsOne
    <3>5. QED BY <3>2, <3>3, <3>4 DEF Sticky
  <2>3. QED BY <1>1, <1>3, <2>1, <2>2 DEF At
<1>6. QED BY <1>4, <1>5

LEMMA StickyKept ==
    ASSUME PublishTyped, NumbersSound, StickySound, PublishNext PROVE StickySound'
<1>1. CASE Outside
  <2>1. UNCHANGED <<rv, raced>> /\ stickies' \subseteq stickies BY <1>1, OutsideLeaves
  <2>2. QED BY <2>1 DEF StickySound, At
<1>2. ASSUME NEW p \in Publisher, Publishing(p) PROVE StickySound'
  BY <1>2, StickyAfter DEF StickySound
<1>3. QED BY <1>1, <1>2, StepsAre

-----------------------------------------------------------------------------
(* The threads of a finding are of one review. *)

\* The forge's listing leaves no finding without the thread it has.
LEMMA SeenOnForge ==
    ASSUME NEW found, NEW on, NEW f \in Finding, f \in found, MarkOnForge(found, on)[f] = Nowhere
    PROVE  ThreadsOf(f) = {}
<1> HIDE DEF ThreadsOf, Newest
<1>1. on[f] = Nowhere /\ ThreadsOf(f) # {} => MarkOnForge(found, on)[f] = {Newest(ThreadsOf(f))}
  BY DEF MarkOnForge
<1>2. on[f] # Nowhere => MarkOnForge(found, on)[f] = on[f] BY DEF MarkOnForge
<1>3. {Newest(ThreadsOf(f))} # Nowhere BY DEF Nowhere
<1>4. QED BY <1>1, <1>2, <1>3

\* A step that posts nothing: a review that has not looked learns nothing,
\* and one that looks sees.
LEMMA UnseenAfter ==
    ASSUME PublishTyped, NEW p \in Publisher, Publishing(p), ~CreateReview(p), NEW f \in Finding,
           Unseen(p, f)'
    PROVE  Unseen(p, f) \/ ThreadsOf(f) = {}
<1>1. Keeps(p) /\ rv[p].pc \in Looked => Unseen(p, f) BY DEF Unseen, Keeps, Posting
<1>2. f \in Posting(p)' BY DEF Unseen
<1>3. rv'[p].pc \in Looked BY DEF Unseen
<1>4. ~(rv'[p] = Resting) BY <1>2, RestingIs DEF Posting
<1>5. ~StartReview(p) BY <1>2, StartGives DEF Posting
<1>6. ~Incomplete(p) BY <1>2, IncompleteGives DEF Posting
<1>7. CASE Answered(p)
  <2>1. ~rv'[p].blind /\ f \in rv'[p].found /\ rv'[p].on[f] = Nowhere
    BY <1>2, <1>7, AnsweredGives DEF Unseen
  <2>2. rv'[p].on = MarkOnForge(rv'[p].found, AlreadyInline(rv'[p].found, rv[p].prior))
    BY <1>7, <2>1, AnsweredGives
  <2>3. QED BY <2>1, <2>2, SeenOnForge
<1>8. CASE ResolveThreads(p) BY <1>8, ResolveGives DEF Unseen, Looked, At, Posting
<1>9. CASE EditSticky(p)
  <2>1. rv[p].pc \in Looked BY <1>9 DEF EditSticky, At, Looked
  <2>2. Keeps(p) BY <1>9, GotoGives, EditedGives DEF EditSticky
  <2>3. QED BY <1>1, <2>1, <2>2
<1>10. CASE CreateSticky(p)
  <2>1. rv[p].pc \in Looked BY <1>10 DEF CreateSticky, At, Looked
  <2>2. Keeps(p) BY <1>4, <1>10, RestGives, EditedGives DEF CreateSticky
  <2>3. QED BY <1>1, <2>1, <2>2
<1>11. ~Approve(p)
  <2>1. Approve(p) => rv'[p].pc = "persist" BY GotoGives DEF Approve
  <2>2. QED BY <1>3, <2>1 DEF Looked
<1>12. ~Persist(p) BY <1>3, <1>4, PersistGives DEF Looked
<1>13. ~Record(p) /\ ~ReviewFails(p) BY <1>4, RestGives DEF Record, ReviewFails
<1>14. QED
  BY <1>5, <1>6, <1>7, <1>8, <1>9, <1>10, <1>11, <1>12, <1>13 DEF Publishing

\* A review that posts a finding is the only one about to, and the first.
LEMMA PostsFirst ==
    ASSUME PublishTyped, NEW p \in Publisher, CreateReview(p), NEW f \in Finding, ThreadSound(f), f \notin raced'
    PROVE  ThreadSound(f)'
<1>1. f \notin raced /\ (f \in Posting(p) =>
        /\ ~(rv[p].blind /\ ThreadsOf(f) # {}) /\ \A q \in Others(p) : rv[q].pc \notin Looked)
  BY DEF CreateReview
<1>2. /\ \A i, j \in ThreadsOf(f) : threads[i].by = threads[j].by
      /\ \A q \in Publisher : Unseen(q, f) => ThreadsOf(f) = {}
  BY <1>1 DEF ThreadSound
<1>3. At(p, "inline") /\ rv'[p].pc = "approve" BY CreateReviewGives
<1>4. ~Unseen(p, f)' BY <1>3 DEF Unseen, Looked
<1>5. \A q \in Publisher \ {p} : Unseen(q, f)' = Unseen(q, f)
  BY OneAtATime DEF Unseen, Posting, Publishing
<1>6. f \in Posting(p) => ThreadsOf(f) = {} /\ \A q \in Publisher \ {p} : ~Unseen(q, f)
  <2>1. SUFFICES ASSUME f \in Posting(p) PROVE ThreadsOf(f) = {} /\ \A q \in Publisher \ {p} : ~Unseen(q, f)
    OBVIOUS
  <2>2. rv[p].pc \in Looked BY <1>3 DEF At, Looked
  <2>3. rv[p].blind => ThreadsOf(f) = {} BY <1>1, <2>1
  <2>4. ~rv[p].blind => ThreadsOf(f) = {} BY <1>2, <2>1, <2>2 DEF Unseen
  <2>5. \A q \in Publisher \ {p} : ~Unseen(q, f)
    BY <1>1, <2>1 DEF Others, Unseen, Looked
  <2>6. QED BY <2>3, <2>4, <2>5
<1>7. threads' = threads \/ threads' = Posted(p) BY DEF CreateReview
<1>8. CASE threads' = threads
  <2>1. ThreadsOf(f)' = ThreadsOf(f) BY <1>8 DEF ThreadsOf
  <2>2. QED BY <1>2, <1>4, <1>5, <1>8, <2>1 DEF ThreadSound
<1>9. CASE threads' = Posted(p) /\ f \notin Posting(p)
  <2>1. ThreadsOf(f)' = ThreadsOf(f) /\ \A i \in DOMAIN threads : threads'[i] = threads[i]
    BY <1>9, PostedOwners
  <2>2. \A i, j \in ThreadsOf(f) : threads'[i].by = threads'[j].by BY <1>2, <2>1 DEF ThreadsOf
  <2>3. QED BY <1>2, <1>4, <1>5, <2>1, <2>2 DEF ThreadSound
<1>10. CASE threads' = Posted(p) /\ f \in Posting(p)
  <2>1. ThreadsOf(f)' = Number(p, f) /\ \A i \in Number(p, f) : threads'[i].by = rv[p].n
    BY <1>6, <1>10, PostedOwners
  <2>2. \A i, j \in ThreadsOf(f)' : threads'[i].by = threads'[j].by BY <2>1
  <2>3. \A q \in Publisher : ~Unseen(q, f)' BY <1>4, <1>5, <1>6, <1>10
  <2>4. QED BY <2>2, <2>3 DEF ThreadSound
<1>11. QED BY <1>7, <1>8, <1>9, <1>10

LEMMA ThreadSoundKept ==
    ASSUME PublishTyped, NEW f \in Finding, ThreadSound(f), PublishNext PROVE ThreadSound(f)'
<1>1. threads \in Seq(Thread) BY DEF PublishTyped
<1>2. CASE Outside
  <2>1. UNCHANGED <<rv, raced>> BY <1>2, OutsideLeaves
  <2>2. KeepOwners \/ \E p \in Publisher : CreateReview(p) BY ThreadsAfter
  <2>3. KeepOwners
    <3>1. ASSUME NEW p \in Publisher, CreateReview(p) PROVE FALSE
      <4>1. rv'[p].pc = "approve" /\ rv[p].pc = "inline" BY <3>1, CreateReviewGives DEF At
      <4>2. QED BY <2>1, <4>1
    <3>2. QED BY <2>2, <3>1
  <2>4. /\ ThreadsOf(f)' = ThreadsOf(f)
        /\ \A i \in ThreadsOf(f) : threads'[i].by = threads[i].by
    BY <1>1, <2>3, OwnersKept DEF KeepOwners, ThreadsOf
  <2>5. QED BY <2>1, <2>4 DEF ThreadSound, Unseen, Posting
<1>3. ASSUME NEW p \in Publisher, Publishing(p), ~CreateReview(p) PROVE ThreadSound(f)'
  <2>1. KeepOwners
    <3>1. CASE ResolveThreads(p) BY <1>1, <3>1, ClosedKeeps DEF ResolveThreads
    <3>2. CASE ~ResolveThreads(p)
      <4>1. threads' = threads
        BY <1>3, <3>2 DEF Publishing, StartReview, Answered, Incomplete, EditSticky, CreateSticky, Approve, Persist,
           Record, ReviewFails, forgeVars
      <4>2. QED BY <1>1, <4>1, ThreadsSame
    <3>3. QED BY <3>1, <3>2
  <2>2. ASSUME f \notin raced'
        PROVE  /\ \A i, j \in ThreadsOf(f) : threads[i].by = threads[j].by
               /\ \A q \in Publisher : Unseen(q, f)' => ThreadsOf(f) = {}
    <3>1. f \notin raced BY <1>3, <2>2, RacedGrows
    <3>2. /\ \A i, j \in ThreadsOf(f) : threads[i].by = threads[j].by
          /\ \A q \in Publisher : Unseen(q, f) => ThreadsOf(f) = {}
      BY <3>1 DEF ThreadSound
    <3>3. \A q \in Publisher \ {p} : Unseen(q, f)' = Unseen(q, f) BY <1>3, OneAtATime DEF Unseen, Posting
    <3>4. Unseen(p, f)' => Unseen(p, f) \/ ThreadsOf(f) = {} BY <1>3, UnseenAfter
    <3>5. QED BY <3>2, <3>3, <3>4
  <2>3. /\ ThreadsOf(f)' = ThreadsOf(f)
        /\ \A i \in ThreadsOf(f) : threads'[i].by = threads[i].by
    BY <1>1, <2>1, OwnersKept DEF KeepOwners, ThreadsOf
  <2>4. QED BY <2>2, <2>3 DEF ThreadSound
<1>4. ASSUME NEW p \in Publisher, CreateReview(p) PROVE ThreadSound(f)'
  <2>1. f \in raced' => ThreadSound(f)' BY DEF ThreadSound
  <2>2. QED BY <1>4, <2>1, PostsFirst
<1>5. QED BY <1>2, <1>3, <1>4, StepsAre

-----------------------------------------------------------------------------
(* The pull request, in every behaviour. *)

LEMMA AtMostOne ==
    ASSUME NEW S, \A i, j \in S : i = j PROVE ~(Cardinality(S) > 1)
<1>1. CASE S = {} BY <1>1, FS_EmptySet
<1>2. CASE S # {}
  <2>1. PICK x : S = {x} BY <1>2
  <2>2. Cardinality(S) = 1 BY <2>1, FS_Singleton
  <2>3. QED BY <2>2
<1>3. QED BY <1>1, <1>2

LEMMA SoundStart == PublishInit => PublishSound
<1> SUFFICES ASSUME PublishInit PROVE PublishSound
  OBVIOUS
<1>1. PublishTyped BY TypedStart
<1>2. \A p \in Publisher : rv[p] = Resting BY DEF PublishInit
<1>3. NumbersSound BY <1>2, RestingIs DEF PublishInit, NumbersSound, NoReview
<1>4. SpotsSound BY <1>2, RestingIs DEF PublishInit, SpotsSound, Spot, Nowhere
<1>5. DismissalsSound BY DEF PublishInit, DismissalsSound, DismissedStaysOut, NoReview
<1>6. ApprovalSound BY DEF PublishInit, ApprovalSound
<1>7. StickySound BY <1>2, RestingIs DEF PublishInit, StickySound, At
<1>8. \A f \in Finding : ThreadSound(f) BY <1>2, RestingIs DEF PublishInit, ThreadSound, ThreadsOf, Unseen, Posting
<1>9. QED BY <1>1, <1>3, <1>4, <1>5, <1>6, <1>7, <1>8 DEF PublishSound

LEMMA SoundKept == PublishSound /\ [PublishNext]_publishVars => PublishSound'
<1> SUFFICES ASSUME PublishSound, [PublishNext]_publishVars PROVE PublishSound'
  OBVIOUS
<1>1. PublishTyped' BY TypedKept DEF PublishSound
<1>2. CASE PublishNext
  <2>1. NumbersSound' /\ SpotsSound' BY <1>2, NumbersKept, SpotsKept DEF PublishSound
  <2>2. DismissalsSound' /\ ApprovalSound' /\ StickySound'
    BY <1>2, DismissalsKept, ApprovalSoundKept, StickyKept DEF PublishSound
  <2>3. \A f \in Finding : ThreadSound(f)' BY <1>2, ThreadSoundKept DEF PublishSound
  <2>4. QED BY <1>1, <2>1, <2>2, <2>3 DEF PublishSound
<1>3. CASE UNCHANGED publishVars
  <2> USE DEF publishVars, forgeVars, rowVars
  <2>1. NumbersSound' BY <1>3 DEF PublishSound, NumbersSound
  <2>2. SpotsSound' BY <1>3 DEF PublishSound, SpotsSound, Spot, ThreadsOf
  <2>3. DismissalsSound' BY <1>3 DEF PublishSound, DismissalsSound, DismissedStaysOut, At
  <2>4. ApprovalSound' BY <1>3 DEF PublishSound, ApprovalSound, Deciding, Approvable
  <2>5. StickySound' BY <1>3 DEF PublishSound, StickySound, At
  <2>6. \A f \in Finding : ThreadSound(f)'
    BY <1>3 DEF PublishSound, ThreadSound, ThreadsOf, Unseen, Posting
  <2>7. QED BY <1>1, <2>1, <2>2, <2>3, <2>4, <2>5, <2>6 DEF PublishSound
<1>4. QED BY <1>2, <1>3

LEMMA SoundAlways == PublishSpec => []PublishSound
BY SoundStart, SoundKept, PTL DEF PublishSpec

LEMMA PublishTypes == PublishSound => PublishTypeOK
<1> SUFFICES ASSUME PublishSound PROVE PublishTypeOK
  OBVIOUS
<1> USE DEF PublishSound
<1>1. threads \in Comments BY DEF PublishTyped, Comments, Thread
<1>2. \A f \in Finding : ThreadsOf(f) \subseteq DOMAIN threads BY DEF ThreadsOf
<1>3. last \in [n : 0..started, found : SUBSET Finding, on : [Finding -> SUBSET Where]]
  <2>1. last \in Past /\ started \in Nat /\ last.n <= started BY DEF PublishTyped, NumbersSound
  <2>2. \A f \in Finding : last.on[f] \subseteq Where BY <1>2 DEF SpotsSound, Spot, Where
  <2>3. last.on \in [Finding -> SUBSET Where] /\ last.n \in 0..started BY <2>1, <2>2 DEF Past
  <2>4. QED BY <2>1, <2>3 DEF Past
<1>4. dismissed \in [Finding -> 0..started + 1]
  <2>1. \A f \in Finding : dismissed[f] \in 0..started + 1 BY DEF PublishTyped, NumbersSound
  <2>2. QED BY <2>1 DEF PublishTyped
<1>5. changes \subseteq [thread : DOMAIN threads, resolved : BOOLEAN, writer : BOOLEAN]
  BY DEF PublishTyped, NumbersSound, Change
<1>6. ASSUME NEW p \in Publisher
      PROVE  /\ rv[p].pc \in Reviewing \cup {"idle"} /\ rv[p].n <= started
             /\ rv[p].inline \in Seq(Finding)
             /\ rv[p].on \in [Finding -> SUBSET Where]
             /\ \A f \in Finding : rv[p].on[f] \subseteq {Unread} \cup ThreadsOf(f)
  <2>1. rv[p] \in Held BY DEF PublishTyped
  <2>2. \A f \in Finding : rv[p].on[f] \subseteq {Unread} \cup ThreadsOf(f) BY DEF SpotsSound, Spot
  <2>3. \A f \in Finding : rv[p].on[f] \subseteq Where BY <1>2, <2>2 DEF Where
  <2>4. rv[p].on \in [Finding -> SUBSET Where] BY <2>1, <2>3 DEF Held
  <2>5. QED BY <2>1, <2>2, <2>4 DEF Held, NumbersSound
<1>7. stickies \subseteq 1..commented /\ stored \in 0..commented BY DEF PublishTyped, NumbersSound
<1>8. QED BY <1>1, <1>3, <1>4, <1>5, <1>6, <1>7 DEF PublishTyped, PublishTypeOK

\* What a review or the database remembers of the forge exists there: a
\* comment's number is of a comment that was created, and the comment of a
\* finding is one of that finding's own threads, never of another's
\* (worker/publish.go, markOnForge and writeBack).
THEOREM PublishIsTyped == PublishSpec => []PublishTypeOK
BY PublishTypes, SoundAlways, PTL

\* However many reviews are lost after they wrote, and whoever deletes a
\* comment, a pull request has two sticky comments, or a finding threads of
\* two reviews, only after two reviews looked before either wrote, or one could
\* not look (worker/publish.go).
THEOREM ForgeShowsOne == PublishSpec => []OneOfEach
<1>1. PublishSound => OneOfEach
  BY AtMostOne DEF PublishSound, StickySound, ThreadSound, OneOfEach, OneSticky, ThreadsOfOneReview
<1>2. QED BY <1>1, SoundAlways, PTL

\* While the sticky comment reports a blocking finding, an approval stands
\* only until that review has got to its approvals, unless the forge refused,
\* the review was lost there, or another was under way (worker/publish.go,
\* worker/incremental.go).
THEOREM ApprovalsAreWithdrawn == PublishSpec => []ApprovalWithdrawn
<1>1. PublishSound => ApprovalWithdrawn
  BY DEF PublishSound, ApprovalSound, ApprovalWithdrawn, Deciding
<1>2. QED BY <1>1, SoundAlways, PTL

\* The last completed review lists a finding a maintainer has dismissed only
\* if the dismissal came after that review started (store/dismissals.go,
\* worker/publish.go).
THEOREM DismissalsAreRespected == PublishSpec => []DismissedStaysOut
<1>1. PublishSound => DismissedStaysOut BY DEF PublishSound, DismissalsSound
<1>2. QED BY <1>1, SoundAlways, PTL
====
