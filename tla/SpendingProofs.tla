--------------------------- MODULE SpendingProofs ---------------------------
(***************************************************************************)
(* Proofs about ModelLease and RunBudget, the slots an account's jobs take *)
(* and the tokens its runs spend.                                          *)
(*                                                                         *)
(* The slots, for any jobs, slots, caps and number of faults: type         *)
(* correctness; that the slots of either model implement a semaphore whose *)
(* permits lapse; and by how much the day's cap may be overshot.  They are *)
(* a semaphore since a process names a slot just while its job is where it *)
(* should have one (HeldOK), and since jobs that have not lost theirs have *)
(* different ones: a slot that is free leaves at most the others to them   *)
(* (SpareSlot).                                                            *)
(***************************************************************************)
EXTENDS MCSpending, Integers, FiniteSetTheorems, WellFoundedInduction, TLAPS

\* A row of model_leases, and every variable's type.
Row == [owner: Job, live: BOOLEAN] \cup {Free}
Rows ==
    /\ lease \in [Key -> [Slot -> Row]]
    /\ held \in [Key -> [Job -> 0..Slots]]
    /\ job \in [Job -> {"queued", "snoozed", "admit", "caps", "working", "leaving", "capped", "ended", "dead"}]
    /\ search \in [Review -> {"idle", "waiting", "embedding", "done"}]
    /\ completed \in Nat /\ lapses \in Nat /\ failures \in Nat
    /\ lapses + failures <= MaxLeaseFaults

\* A process names a slot while its job, or its agent's search, is at a place
\* where it has one.
HeldOK ==
    /\ \A j \in Job : held[KeyOf(j)][j] # 0 <=> job[j] \in {"caps", "working", "leaving"}
    /\ \A j \in Review : held["embed"][j] # 0 <=> search[j] = "embedding"

Inv == Rows /\ HeldOK

\* A step of the slots of model k, as LapsingSemaphore has it.
Spare(k) == Cardinality(Holders(k) \ Lost(k)) < Slots
Permit(k, j) ==
    \/ Spare(k) /\ j \notin Holders(k) /\ Holders(k)' = Holders(k) \cup {j} /\ Lost(k)' = Lost(k)
    \/ j \in Holders(k) /\ Holders(k)' = Holders(k) \ {j} /\ Lost(k)' = Lost(k) \ {j}
    \/ j \in Holders(k) \ Lost(k) /\ Lost(k)' = Lost(k) \cup {j} /\ Holders(k)' = Holders(k)
    \/ Spare(k) /\ j \in Lost(k) /\ Lost(k)' = Lost(k) \ {j} /\ Holders(k)' = Holders(k)
Same(k) == Holders(k)' = Holders(k) /\ Lost(k)' = Lost(k)

-----------------------------------------------------------------------------
\* The invariant is one.

LEMMA KeyType == \A j \in Job : KeyOf(j) \in Key /\ (j \in Review => KeyOf(j) = "review")
BY JobsAssumption DEF Key, KeyOf, Job

LEMMA InitInv == LeaseInit => Inv
<1> SUFFICES ASSUME LeaseInit PROVE Inv
    OBVIOUS
<1>1. Rows
    BY SlotsAssumption, LeaseBoundAssumption DEF LeaseInit, Rows, Row, Key, Slot
<1>2. HeldOK
    BY KeyType, JobsAssumption DEF LeaseInit, HeldOK, Key, Job
<1> QED BY <1>1, <1>2 DEF Inv

\* What taking a slot, and giving it back, does to the rows and to the slots
\* that processes name.
LEMMA TakeRows ==
    ASSUME Rows, NEW k \in Key, NEW j \in Job, TakeLease(k, j)
    PROVE  /\ lease' \in [Key -> [Slot -> Row]]
           /\ held' \in [Key -> [Job -> 0..Slots]]
           /\ held'[k][j] # 0
           /\ \A l \in Key, i \in Job : <<l, i>> # <<k, j>> => held'[l][i] = held[l][i]
<1>1. PICK n \in Takable(k, j) : /\ lease' = [lease EXCEPT ![k][n] = [owner |-> j, live |-> TRUE]]
                                 /\ held' = [held EXCEPT ![k][j] = n]
    BY DEF TakeLease
<1>2. n \in Slot /\ n # 0 /\ n \in 0..Slots
    BY SlotsAssumption DEF Takable, SlotsFor, IndexSlots, Slot
<1>3. lease' \in [Key -> [Slot -> Row]]
  <2>1. [owner |-> j, live |-> TRUE] \in Row
      BY DEF Row
  <2> QED BY <1>1, <1>2, <2>1 DEF Rows
<1>4. held' \in [Key -> [Job -> 0..Slots]]
    BY <1>1, <1>2 DEF Rows
<1> QED BY <1>1, <1>2, <1>3, <1>4 DEF Rows

LEMMA ReleaseRows ==
    ASSUME Rows, NEW k \in Key, NEW j \in Job, Release(k, j)
    PROVE  /\ lease' \in [Key -> [Slot -> Row]]
           /\ held' \in [Key -> [Job -> 0..Slots]]
           /\ held'[k][j] = 0
           /\ \A l \in Key, i \in Job : <<l, i>> # <<k, j>> => held'[l][i] = held[l][i]
           /\ lapses \in Nat /\ failures' \in Nat
           /\ lapses + failures' <= MaxLeaseFaults
<1>1. held' = [held EXCEPT ![k][j] = 0]
    BY DEF Release
<1>2. lease' = lease \/ lease' = [lease EXCEPT ![k][held[k][j]] = Free]
    BY DEF Release, Freed
<1>3. lease' \in [Key -> [Slot -> Row]]
  <2>1. Free \in Row
      BY DEF Row
  <2>2. CASE lease' = lease
      BY <2>2 DEF Rows
  <2>3. CASE lease' = [lease EXCEPT ![k][held[k][j]] = Free]
      BY <2>1, <2>3 DEF Rows
  <2> QED BY <1>2, <2>2, <2>3
<1>4. held' \in [Key -> [Job -> 0..Slots]]
    BY <1>1, SlotsAssumption DEF Rows
<1>5. failures' \in Nat /\ lapses + failures' <= MaxLeaseFaults
    BY LeaseBoundAssumption DEF Release, Rows
<1> QED BY <1>1, <1>3, <1>4, <1>5 DEF Rows

\* Steps that take no slot and give none back.
LEMMA IdleStep ==
    ASSUME Inv, held' = held, lease' \in [Key -> [Slot -> Row]],
           job' \in [Job -> {"queued", "snoozed", "admit", "caps", "working", "leaving", "capped", "ended", "dead"}],
           search' \in [Review -> {"idle", "waiting", "embedding", "done"}],
           completed' \in Nat, lapses' \in Nat, failures' \in Nat, lapses' + failures' <= MaxLeaseFaults,
           \A j \in Job : job'[j] \in {"caps", "working", "leaving"} <=> job[j] \in {"caps", "working", "leaving"},
           \A j \in Review : search'[j] = "embedding" <=> search[j] = "embedding"
    PROVE  Inv'
BY DEF Inv, Rows, HeldOK

\* Steps that change the slot job j itself has, and steps that change its
\* search's.
LEMMA OwnSlotStep ==
    ASSUME HeldOK, NEW j \in Job,
           \A l \in Key, i \in Job : <<l, i>> # <<KeyOf(j), j>> => held'[l][i] = held[l][i],
           held'[KeyOf(j)][j] # 0 <=> job'[j] \in {"caps", "working", "leaving"},
           \A i \in Job \ {j} : job'[i] = job[i],
           \A i \in Review : search'[i] = "embedding" <=> search[i] = "embedding"
    PROVE  HeldOK'
<1>1. ASSUME NEW i \in Job PROVE held'[KeyOf(i)][i] # 0 <=> job'[i] \in {"caps", "working", "leaving"}
  <2>1. CASE i = j
      BY <2>1
  <2>2. CASE i # j
    <3>1. held'[KeyOf(i)][i] = held[KeyOf(i)][i]
        BY <2>2, KeyType
    <3> QED BY <2>2, <3>1 DEF HeldOK
  <2> QED BY <2>1, <2>2
<1>2. ASSUME NEW i \in Review PROVE held'["embed"][i] # 0 <=> search'[i] = "embedding"
  <2>1. <<"embed", i>> # <<KeyOf(j), j>> /\ i \in Job /\ "embed" \in Key
      BY KeyType DEF Job, Key
  <2>2. held'["embed"][i] = held["embed"][i]
      BY <2>1
  <2> QED BY <2>2 DEF HeldOK
<1> QED BY <1>1, <1>2 DEF HeldOK

LEMMA SearchSlotStep ==
    ASSUME HeldOK, NEW j \in Review,
           \A l \in Key, i \in Job : <<l, i>> # <<"embed", j>> => held'[l][i] = held[l][i],
           held'["embed"][j] # 0 <=> search'[j] = "embedding",
           \A i \in Review \ {j} : search'[i] = search[i],
           job' = job
    PROVE  HeldOK'
<1>1. ASSUME NEW i \in Job PROVE held'[KeyOf(i)][i] # 0 <=> job'[i] \in {"caps", "working", "leaving"}
  <2>1. <<KeyOf(i), i>> # <<"embed", j>> /\ KeyOf(i) \in Key
      BY KeyType
  <2>2. held'[KeyOf(i)][i] = held[KeyOf(i)][i]
      BY <2>1
  <2> QED BY <2>2 DEF HeldOK
<1>2. ASSUME NEW i \in Review PROVE held'["embed"][i] # 0 <=> search'[i] = "embedding"
  <2>1. CASE i = j
      BY <2>1
  <2>2. CASE i # j
    <3>1. held'["embed"][i] = held["embed"][i]
        BY <2>2 DEF Job, Key
    <3> QED BY <2>2, <3>1 DEF HeldOK
  <2> QED BY <2>1, <2>2
<1> QED BY <1>1, <1>2 DEF HeldOK

LEMMA ReviewIsJob == \A j \in Review : j \in Job /\ KeyOf(j) = "review" /\ {"review", "embed"} = Key
BY KeyType DEF Job, Key

\* Each action keeps the invariant.
LEMMA AdmitInv == ASSUME Inv, NEW j \in Review, Admit(j) PROVE Inv'
<1>1. CASE Goes(j, "admit", "caps") /\ TakeLease("review", j)
  <2>1. Rows'
      BY <1>1, ReviewIsJob, TakeRows DEF Inv, Admit, Goes, Rows
  <2>2. held'["review"][j] # 0 /\ job'[j] = "caps"
      BY <1>1, ReviewIsJob, TakeRows DEF Inv, Rows, Goes
  <2>3. HeldOK'
      BY <1>1, <2>2, ReviewIsJob, TakeRows, OwnSlotStep DEF Inv, Rows, Admit, Goes
  <2> QED BY <2>1, <2>3 DEF Inv
<1>2. CASE Goes(j, "admit", "snoozed") /\ UNCHANGED <<lease, held>>
    BY <1>2, ReviewIsJob, IdleStep DEF Admit, Goes, Inv, Rows
<1> QED BY <1>1, <1>2 DEF Admit

LEMMA CapsInv == ASSUME Inv, NEW j \in Review, Caps(j) PROVE Inv'
<1>1. CASE Goes(j, "caps", "working") /\ UNCHANGED <<lease, held, failures>>
    BY <1>1, ReviewIsJob, IdleStep DEF Caps, Goes, Inv, Rows
<1>2. CASE Goes(j, "caps", "capped") /\ Release("review", j)
  <2>1. Rows'
      BY <1>2, ReviewIsJob, ReleaseRows DEF Inv, Caps, Goes, Rows
  <2>2. held'["review"][j] = 0 /\ job'[j] = "capped"
      BY <1>2, ReviewIsJob, ReleaseRows DEF Inv, Rows, Goes
  <2>3. HeldOK'
      BY <1>2, <2>2, ReviewIsJob, ReleaseRows, OwnSlotStep DEF Inv, Rows, Caps, Goes
  <2> QED BY <2>1, <2>3 DEF Inv
<1> QED BY <1>1, <1>2 DEF Caps

LEMMA SearchStartsInv == ASSUME Inv, NEW j \in Review, SearchStarts(j) PROVE Inv'
<1>1. Rows'
    BY ReviewIsJob, TakeRows DEF Inv, SearchStarts, Rows
<1>2. held'["embed"][j] # 0 /\ search'[j] = "embedding"
    BY ReviewIsJob, TakeRows DEF Inv, Rows, SearchStarts
<1>3. HeldOK'
    BY <1>2, ReviewIsJob, TakeRows, SearchSlotStep, SMTT(30) DEF Inv, Rows, SearchStarts
<1> QED BY <1>1, <1>3 DEF Inv

LEMMA SearchEndsInv == ASSUME Inv, NEW j \in Review, SearchEnds(j) PROVE Inv'
<1>1. Rows'
    BY ReviewIsJob, ReleaseRows DEF Inv, SearchEnds, Rows
<1>2. held'["embed"][j] = 0 /\ search'[j] = "done"
    BY ReviewIsJob, ReleaseRows DEF Inv, Rows, SearchEnds
<1>3. HeldOK'
    BY <1>2, ReviewIsJob, ReleaseRows, SearchSlotStep DEF Inv, Rows, SearchEnds
<1> QED BY <1>1, <1>3 DEF Inv

LEMMA AcquireInv == ASSUME Inv, NEW j \in FollowUp \cup Index, Acquire(j) PROVE Inv'
<1>1. j \in Job /\ KeyOf(j) \in Key
    BY KeyType DEF Job
<1>2. Rows'
    BY <1>1, TakeRows DEF Inv, Acquire, Goes, Rows
<1>3. held'[KeyOf(j)][j] # 0 /\ job'[j] = "working"
    BY <1>1, TakeRows DEF Inv, Rows, Acquire, Goes
<1>4. HeldOK'
    BY <1>1, <1>3, TakeRows, OwnSlotStep DEF Inv, Rows, Acquire, Goes
<1> QED BY <1>2, <1>4 DEF Inv

LEMMA LeaveInv == ASSUME Inv, NEW j \in Job, Leave(j) PROVE Inv'
<1>1. KeyOf(j) \in Key
    BY KeyType
<1>2. Rows'
    BY <1>1, ReleaseRows DEF Inv, Leave, Goes, Rows
<1>3. held'[KeyOf(j)][j] = 0 /\ job'[j] = "ended"
    BY <1>1, ReleaseRows DEF Inv, Rows, Leave, Goes
<1>4. HeldOK'
    BY <1>1, <1>3, ReleaseRows, OwnSlotStep DEF Inv, Rows, Leave, Goes
<1> QED BY <1>2, <1>4 DEF Inv

LEMMA DieInv == ASSUME Inv, NEW j \in Job, Die(j) PROVE Inv'
<1>1. KeyOf(j) \in Key
    BY KeyType
<1>2. /\ held' = [held EXCEPT ![KeyOf(j)][j] = 0]
      /\ job' = [job EXCEPT ![j] = "dead"]
      /\ failures' = failures + 1 /\ lapses + failures < MaxLeaseFaults
      /\ UNCHANGED <<lease, completed, lapses>>
    BY DEF Die, Goes
<1>3. \/ search' = search
      \/ j \in Review /\ search[j] = "waiting" /\ search' = [search EXCEPT ![j] = "done"]
    BY DEF Die
<1>4. held' \in [Key -> [Job -> 0..Slots]]
    BY <1>1, <1>2, SlotsAssumption DEF Inv, Rows
<1>5. search' \in [Review -> {"idle", "waiting", "embedding", "done"}]
    BY <1>3 DEF Inv, Rows
<1>6. Rows'
    BY <1>2, <1>4, <1>5, LeaseBoundAssumption DEF Inv, Rows
<1>7. \A i \in Review : search'[i] = "embedding" <=> search[i] = "embedding"
    BY <1>3 DEF Inv, Rows
<1>8. HeldOK'
    BY <1>1, <1>2, <1>7, OwnSlotStep DEF Inv, Rows
<1> QED BY <1>6, <1>8 DEF Inv

LEMMA WorksInv == ASSUME Inv, NEW j \in Job, Works(j) PROVE Inv'
<1>1. CASE j \in Review /\ Begin(j)
    BY <1>1, IdleStep DEF Begin, Goes, Inv, Rows
<1>2. CASE j \in Review /\ Wake(j)
    BY <1>2, IdleStep DEF Wake, Goes, Inv, Rows
<1>3. CASE j \in Review /\ ReviewEnds(j)
  <2>1. /\ UNCHANGED <<lease, held, lapses, failures>> /\ job' = [job EXCEPT ![j] = "leaving"] /\ job[j] = "working"
        /\ completed' \in Nat
        /\ \/ search' = search
           \/ search[j] = "waiting" /\ search' = [search EXCEPT ![j] = "done"]
      BY <1>3 DEF ReviewEnds, Goes, Inv, Rows
  <2>2. /\ search' \in [Review -> {"idle", "waiting", "embedding", "done"}]
        /\ \A i \in Review : search'[i] = "embedding" <=> search[i] = "embedding"
      BY <1>3, <2>1 DEF Inv, Rows
  <2>3. \A i \in Job : job'[i] \in {"caps", "working", "leaving"} <=> job[i] \in {"caps", "working", "leaving"}
      BY <2>1 DEF Inv, Rows
  <2> QED BY <2>1, <2>2, <2>3, IdleStep DEF Inv, Rows
<1>4. CASE CallEnds(j)
    BY <1>4, IdleStep DEF CallEnds, Goes, Inv, Rows
<1>5. CASE Rescued(j)
    BY <1>5, IdleStep DEF Rescued, Goes, Inv, Rows
<1> QED BY <1>1, <1>2, <1>3, <1>4, <1>5, CapsInv, LeaveInv DEF Works

\* A row that expires or is renewed keeps its type.
LEMMA LiveRow ==
    ASSUME Rows, NEW k \in Key, NEW n \in Slot, NEW b \in BOOLEAN,
           lease[k][n] \in [owner: Job, live: BOOLEAN],
           lease' = [lease EXCEPT ![k][n].live = b]
    PROVE  lease' \in [Key -> [Slot -> Row]]
<1>1. [lease[k][n] EXCEPT !.live = b] \in Row
    BY DEF Row
<1>2. lease' = [lease EXCEPT ![k][n] = [lease[k][n] EXCEPT !.live = b]]
    BY DEF Rows
<1> QED BY <1>1, <1>2 DEF Rows

LEMMA HeldSlot == ASSUME Rows, NEW k \in Key, NEW j \in Job, held[k][j] # 0 PROVE held[k][j] \in Slot
BY SlotsAssumption DEF Rows, Slot

LEMMA LapseInv == ASSUME Inv, NEW k \in Key, NEW j \in Job, Lapse(k, j) PROVE Inv'
<1>1. held[k][j] \in Slot
    BY HeldSlot DEF Lapse, Inv
<1>2. lease' \in [Key -> [Slot -> Row]]
  <2>1. lease[k][held[k][j]] \in [owner: Job, live: BOOLEAN]
      BY DEF Lapse
  <2> QED BY <1>1, <2>1, LiveRow DEF Lapse, Inv
<1>3. lapses' \in Nat /\ lapses' + failures' <= MaxLeaseFaults
    BY LeaseBoundAssumption DEF Lapse, Inv, Rows
<1> QED BY <1>2, <1>3, IdleStep DEF Lapse, Inv, Rows

LEMMA RenewInv == ASSUME Inv, NEW k \in Key, NEW j \in Job, Renew(k, j) PROVE Inv'
<1>1. held[k][j] \in Slot
    BY HeldSlot DEF Renew, Inv
<1>2. lease' \in [Key -> [Slot -> Row]]
  <2>1. lease[k][held[k][j]] \in [owner: Job, live: BOOLEAN]
      BY DEF Renew
  <2> QED BY <1>1, <2>1, LiveRow DEF Renew, Inv
<1> QED BY <1>2, IdleStep DEF Renew, Inv, Rows

LEMMA ExpireInv == ASSUME Inv, NEW k \in Key, NEW n \in Slot, Expire(k, n) PROVE Inv'
<1>1. lease[k][n] \in [owner: Job, live: BOOLEAN]
    BY DEF Expire, Inv, Rows, Row, Free
<1>2. lease' \in [Key -> [Slot -> Row]]
    BY <1>1, LiveRow DEF Expire, Inv
<1> QED BY <1>2, IdleStep DEF Expire, Inv, Rows

LEMMA NextInv == Inv /\ [LeaseNext]_leaseVars => Inv'
<1> SUFFICES ASSUME Inv, [LeaseNext]_leaseVars PROVE Inv'
    OBVIOUS
<1>1. ASSUME NEW j \in Review, Admit(j) \/ Search(j) \/ SearchStarts(j) \/ SearchEnds(j) PROVE Inv'
  <2>1. CASE Search(j)
      BY <2>1, IdleStep DEF Search, Inv, Rows
  <2> QED BY <1>1, <2>1, AdmitInv, SearchStartsInv, SearchEndsInv
<1>2. ASSUME NEW j \in FollowUp \cup Index, Acquire(j) PROVE Inv'
    BY <1>2, AcquireInv
<1>3. ASSUME NEW j \in Job, Works(j) \/ Die(j) PROVE Inv'
    BY <1>3, WorksInv, DieInv
<1>4. ASSUME NEW k \in Key, NEW j \in Job, Lapse(k, j) \/ Renew(k, j) PROVE Inv'
    BY <1>4, LapseInv, RenewInv
<1>5. ASSUME NEW k \in Key, NEW n \in Slot, Expire(k, n) PROVE Inv'
    BY <1>5, ExpireInv
<1>6. CASE UNCHANGED leaseVars
    BY <1>6, IdleStep DEF leaseVars, Inv, Rows
<1> QED BY <1>1, <1>2, <1>3, <1>4, <1>5, <1>6 DEF LeaseNext

THEOREM LeaseInvariant == LeaseSpec => []Inv
BY InitInv, NextInv, PTL DEF LeaseSpec

\* Every variable of the slots, the jobs and the counts keeps its type.
THEOREM LeaseTyped == LeaseSpec => []LeaseTypeOK
<1>1. Inv => LeaseTypeOK
    BY DEF Inv, Rows, Row, LeaseTypeOK
<1> QED BY <1>1, LeaseInvariant, PTL

-----------------------------------------------------------------------------
\* The slots of a model are a semaphore.

\* A job that has not lost its slot is the holder of its row: a row that is
\* not live leaves at most the others to such jobs.
LEMMA SpareSlot ==
    ASSUME Rows, NEW k \in Key, NEW n \in Slot, ~lease[k][n].live
    PROVE  Spare(k)
<1> DEFINE H == Holders(k) \ Lost(k)
           f == [j \in H |-> held[k][j]]
<1>1. ASSUME NEW j \in H PROVE held[k][j] \in Slot \ {n} /\ lease[k][held[k][j]].owner = j
  <2>1. held[k][j] \in Slot
      BY HeldSlot DEF Holders
  <2>2. lease[k][held[k][j]] = [owner |-> j, live |-> TRUE]
      BY DEF Holders, Lost
  <2> QED BY <2>1, <2>2
<1>2. f \in Injection(H, Slot \ {n})
    BY <1>1 DEF Injection, IsInjective
<1>3. IsFiniteSet(Slot) /\ Cardinality(Slot) = Slots
    BY FS_Interval, SlotsAssumption DEF Slot
<1>4. IsFiniteSet(Slot \ {n}) /\ Cardinality(Slot \ {n}) = Slots - 1
    BY <1>3, FS_RemoveElement
<1>5. IsFiniteSet(H) /\ Cardinality(H) <= Cardinality(Slot \ {n})
    BY <1>2, <1>4, FS_Injection
<1>6. Cardinality(H) \in Nat
    BY <1>5, FS_CardinalityType
<1> QED BY <1>4, <1>5, <1>6, SlotsAssumption DEF Spare

\* The model whose slots a step leaves alone sees none.
LEMMA SameSlots ==
    ASSUME NEW k \in Key, lease'[k] = lease[k], held'[k] = held[k]
    PROVE  Same(k)
BY DEF Same, Holders, Lost

\* Taking a slot acquires a permit; a holder whose row was taken over had
\* lost its own.
LEMMA TakePermit ==
    ASSUME Rows, NEW k \in Key, NEW j \in Job, TakeLease(k, j), held[k][j] = 0
    PROVE  Permit(k, j) /\ Lost(k)' \subseteq Lost(k) /\ \A l \in Key \ {k} : Same(l)
<1>1. PICK n \in Takable(k, j) : /\ lease' = [lease EXCEPT ![k][n] = [owner |-> j, live |-> TRUE]]
                                 /\ held' = [held EXCEPT ![k][j] = n]
    BY DEF TakeLease
<1>2. n \in Slot /\ n # 0 /\ ~lease[k][n].live
    BY SlotsAssumption DEF Takable, SlotsFor, IndexSlots, Slot
<1>3. Spare(k)
    BY <1>2, SpareSlot
<1>4. ASSUME NEW i \in Job PROVE i \in Holders(k)' <=> i \in Holders(k) \cup {j}
    BY <1>1, <1>2 DEF Rows, Holders
<1>5. ASSUME NEW i \in Job PROVE i \in Lost(k)' <=> i \in Lost(k)
  <2>1. CASE i = j
    <3>1. lease'[k][held'[k][j]] = [owner |-> j, live |-> TRUE]
        BY <1>1, <1>2 DEF Rows
    <3> QED BY <2>1, <3>1 DEF Lost, Holders
  <2>2. CASE i # j /\ held[k][i] = n
    <3>1. held'[k][i] = n /\ lease'[k][n] = [owner |-> j, live |-> TRUE]
        BY <1>1, <1>2, <2>2 DEF Rows
    <3>2. lease[k][n] # [owner |-> i, live |-> TRUE] /\ lease'[k][n] # [owner |-> i, live |-> TRUE]
        BY <1>2, <2>2, <3>1
    <3> QED BY <1>2, <2>2, <3>1, <3>2 DEF Lost, Holders
  <2>3. CASE i # j /\ held[k][i] # n
    <3>1. held'[k][i] = held[k][i]
        BY <1>1, <2>3 DEF Rows
    <3>2. held[k][i] # 0 => lease'[k][held[k][i]] = lease[k][held[k][i]]
        BY <1>1, <1>2, <2>3, HeldSlot DEF Rows
    <3> QED BY <3>1, <3>2 DEF Lost, Holders
  <2> QED BY <2>1, <2>2, <2>3
<1>6. Holders(k)' = Holders(k) \cup {j} /\ Lost(k)' = Lost(k) /\ j \notin Holders(k)
    BY <1>4, <1>5 DEF Holders, Lost
<1>7. \A l \in Key \ {k} : Same(l)
    BY <1>1, SameSlots DEF Rows
<1> QED BY <1>3, <1>6, <1>7 DEF Permit

\* Giving a slot back, or dying with it, releases the permit and costs no
\* other job its own: the row is freed only if it is still the job's.
LEMMA LeaveSlot ==
    ASSUME Rows, NEW k \in Key, NEW j \in Job, held[k][j] # 0,
           lease' = lease \/ lease' = Freed(k, j), held' = [held EXCEPT ![k][j] = 0]
    PROVE  Permit(k, j) /\ Lost(k)' \subseteq Lost(k) /\ \A l \in Key \ {k} : Same(l)
<1>1. held[k][j] \in Slot
    BY HeldSlot
<1>2. ASSUME NEW i \in Job PROVE i \in Holders(k)' <=> i \in Holders(k) \ {j}
    BY DEF Rows, Holders
<1>3. ASSUME NEW i \in Job \ {j}, held[k][i] # 0
      PROVE  lease'[k][held[k][i]] = [owner |-> i, live |-> TRUE] <=> lease[k][held[k][i]] = [owner |-> i, live |-> TRUE]
  <2>1. held[k][i] \in Slot
      BY <1>3, HeldSlot
  <2>2. CASE lease' = lease
      BY <2>2
  <2>3. CASE lease[k][held[k][j]].owner = j /\ lease' = [lease EXCEPT ![k][held[k][j]] = Free]
    <3>1. CASE held[k][i] = held[k][j]
      <4>1. lease'[k][held[k][i]] = Free
          BY <1>1, <2>3, <3>1 DEF Rows
      <4>2. Free # [owner |-> i, live |-> TRUE]
        <5>1. Free.live # [owner |-> i, live |-> TRUE].live
            BY DEF Free
        <5> QED BY <5>1
      <4> QED BY <2>3, <3>1, <4>1, <4>2
    <3>2. CASE held[k][i] # held[k][j]
        BY <1>1, <2>1, <2>3, <3>2 DEF Rows
    <3> QED BY <3>1, <3>2
  <2> QED BY <2>2, <2>3 DEF Freed
<1>4. ASSUME NEW i \in Job PROVE i \in Lost(k)' <=> i \in Lost(k) \ {j}
  <2>1. held'[k][j] = 0 /\ (i # j => held'[k][i] = held[k][i])
      BY DEF Rows
  <2> QED BY <1>3, <2>1 DEF Lost, Holders
<1>5. j \in Holders(k) /\ Holders(k)' = Holders(k) \ {j} /\ Lost(k)' = Lost(k) \ {j}
    BY <1>2, <1>4 DEF Holders, Lost
<1>6. ASSUME NEW l \in Key \ {k} PROVE Same(l)
  <2>1. lease'[l] = lease[l] /\ held'[l] = held[l]
      BY DEF Freed, Rows
  <2> QED BY <2>1, SameSlots
<1> QED BY <1>5, <1>6 DEF Permit

\* A row that lapses, is renewed or expires matters to the job that names it
\* and that it names.
LEMMA FlippedRow ==
    ASSUME Rows, NEW k \in Key, NEW n \in Slot, NEW b \in BOOLEAN,
           lease' = [lease EXCEPT ![k][n].live = b], held' = held,
           lease[k][n] \in [owner: Job, live: BOOLEAN]
    PROVE  /\ \A l \in Key : Holders(l)' = Holders(l)
           /\ \A l \in Key \ {k} : Same(l)
           /\ \A i \in Job : ~(held[k][i] = n /\ lease[k][n].owner = i) => (i \in Lost(k)' <=> i \in Lost(k))
           /\ \A i \in Job : held[k][i] = n /\ lease[k][n].owner = i => (i \in Lost(k)' <=> ~b)
           /\ \A i \in Job : held[k][i] = n /\ lease[k][n].owner = i => (i \in Lost(k) <=> ~lease[k][n].live)
<1>1. \A l \in Key : Holders(l)' = Holders(l)
    BY DEF Holders
<1>2. \A l \in Key \ {k} : Same(l)
    BY SameSlots DEF Rows
<1>3. lease'[k][n] = [lease[k][n] EXCEPT !.live = b]
    BY DEF Rows
<1>4. \A m \in Slot \ {n} : lease'[k][m] = lease[k][m]
    BY DEF Rows
<1>5. ASSUME NEW i \in Job, ~(held[k][i] = n /\ lease[k][n].owner = i) PROVE i \in Lost(k)' <=> i \in Lost(k)
  <2>1. CASE held[k][i] = n
    <3>1. lease'[k][n].owner = lease[k][n].owner
        BY <1>3
    <3>2. lease'[k][n] # [owner |-> i, live |-> TRUE] /\ lease[k][n] # [owner |-> i, live |-> TRUE]
        BY <1>5, <2>1, <3>1
    <3> QED BY <2>1, <3>2 DEF Lost, Holders
  <2>2. CASE held[k][i] # n
      BY <1>4, <2>2, HeldSlot DEF Lost, Holders
  <2> QED BY <2>1, <2>2
<1>6. ASSUME NEW i \in Job, held[k][i] = n, lease[k][n].owner = i
      PROVE  (i \in Lost(k)' <=> ~b) /\ (i \in Lost(k) <=> ~lease[k][n].live)
  <2>1. n # 0 /\ i \in Holders(k) /\ i \in Holders(k)'
      BY <1>1, <1>6, SlotsAssumption DEF Slot, Holders
  <2>2. lease[k][n] = [owner |-> i, live |-> lease[k][n].live] /\ lease'[k][n] = [owner |-> i, live |-> b]
      BY <1>3, <1>6
  <2>3. lease[k][n].live \in BOOLEAN
      OBVIOUS
  <2>4. \A c \in BOOLEAN : [owner |-> i, live |-> c] = [owner |-> i, live |-> TRUE] <=> c
    <3> TAKE c \in BOOLEAN
    <3>1. [owner |-> i, live |-> c].live = c /\ [owner |-> i, live |-> TRUE].live = TRUE
        OBVIOUS
    <3>2. CASE c = TRUE
        BY <3>2
    <3>3. CASE c = FALSE
        BY <3>1, <3>3
    <3> QED BY <3>2, <3>3
  <2>5. (lease'[k][n] = [owner |-> i, live |-> TRUE] <=> b) /\ (lease[k][n] = [owner |-> i, live |-> TRUE] <=> lease[k][n].live)
    <3>1. lease'[k][n] = [owner |-> i, live |-> TRUE] <=> b
        BY <2>2, <2>4
    <3>2. lease[k][n] = [owner |-> i, live |-> TRUE] <=> lease[k][n].live
        BY <2>2, <2>3, <2>4
    <3> QED BY <3>1, <3>2
  <2> QED BY <1>6, <2>1, <2>5 DEF Lost, Holders
<1> QED BY <1>1, <1>2, <1>5, <1>6

LEMMA LapsePermit ==
    ASSUME Rows, NEW k \in Key, NEW j \in Job, Lapse(k, j)
    PROVE  Permit(k, j) /\ \A l \in Key \ {k} : Same(l)
<1>1. PICK n \in Slot : n = held[k][j] /\ lease[k][n] = [owner |-> j, live |-> TRUE]
    BY HeldSlot DEF Lapse
<1>2. lease[k][n] \in [owner: Job, live: BOOLEAN] /\ lease[k][n].owner = j
    BY <1>1
<1>3. /\ \A l \in Key : Holders(l)' = Holders(l)
      /\ \A l \in Key \ {k} : Same(l)
      /\ \A i \in Job : ~(held[k][i] = n /\ lease[k][n].owner = i) => (i \in Lost(k)' <=> i \in Lost(k))
      /\ j \in Lost(k)' /\ j \notin Lost(k)
  <2>1. lease' = [lease EXCEPT ![k][n].live = FALSE] /\ held' = held
      BY <1>1 DEF Lapse
  <2>2. lease[k][n].live = TRUE
      BY <1>1
  <2> QED BY <1>1, <1>2, <2>1, <2>2, FlippedRow
<1>4. j \in Holders(k) \ Lost(k) /\ Lost(k)' = Lost(k) \cup {j}
  <2>1. j \in Holders(k)
      BY DEF Lapse, Holders
  <2>2. \A i \in Job : i \in Lost(k)' <=> i \in Lost(k) \cup {j}
      BY <1>2, <1>3
  <2> QED BY <1>3, <2>1, <2>2 DEF Holders, Lost
<1> QED BY <1>3, <1>4 DEF Permit

\* A row that may be renewed is not live, so that a permit is spare.
LEMMA RenewPermit ==
    ASSUME Rows, NEW k \in Key, NEW j \in Job, Renew(k, j)
    PROVE  Permit(k, j) /\ Lost(k)' \subseteq Lost(k) /\ \A l \in Key \ {k} : Same(l)
<1>1. PICK n \in Slot : n = held[k][j] /\ lease[k][n] = [owner |-> j, live |-> FALSE]
    BY HeldSlot DEF Renew
<1>2. lease[k][n] \in [owner: Job, live: BOOLEAN] /\ lease[k][n].owner = j
    BY <1>1
<1>3. /\ \A l \in Key : Holders(l)' = Holders(l)
      /\ \A l \in Key \ {k} : Same(l)
      /\ \A i \in Job : ~(held[k][i] = n /\ lease[k][n].owner = i) => (i \in Lost(k)' <=> i \in Lost(k))
      /\ j \notin Lost(k)' /\ j \in Lost(k)
  <2>1. lease' = [lease EXCEPT ![k][n].live = TRUE] /\ held' = held
      BY <1>1 DEF Renew
  <2>2. lease[k][n].live = FALSE
      BY <1>1
  <2> QED BY <1>1, <1>2, <2>1, <2>2, FlippedRow
<1>4. Lost(k)' = Lost(k) \ {j}
  <2>1. \A i \in Job : i \in Lost(k)' <=> i \in Lost(k) \ {j}
      BY <1>2, <1>3
  <2> QED BY <2>1 DEF Holders, Lost
<1>5. Spare(k)
    BY <1>1, SpareSlot
<1> QED BY <1>3, <1>4, <1>5 DEF Permit

LEMMA ExpireSame ==
    ASSUME Rows, NEW k \in Key, NEW n \in Slot, Expire(k, n)
    PROVE  \A l \in Key : Same(l)
<1>1. lease[k][n] \in [owner: Job, live: BOOLEAN]
    BY DEF Expire, Rows, Row, Free
<1>2. /\ \A l \in Key : Holders(l)' = Holders(l)
      /\ \A l \in Key \ {k} : Same(l)
      /\ \A i \in Job : i \in Lost(k)' <=> i \in Lost(k)
    BY <1>1, FlippedRow DEF Expire
<1>3. Lost(k)' = Lost(k)
    BY <1>2 DEF Holders, Lost
<1> QED BY <1>2, <1>3 DEF Same

\* What a step is to the two semaphores; only a lapse loses a permit.
Permits ==
    /\ \A k \in Key : Same(k) \/ \E j \in Job : Permit(k, j)
    /\ lapses' = lapses => \A k \in Key : Lost(k)' \subseteq Lost(k)

LEMMA IdlePermits == ASSUME lease' = lease, held' = held PROVE Permits
BY SameSlots DEF Permits, Same

LEMMA OnePermit ==
    ASSUME NEW k \in Key, NEW j \in Job, Permit(k, j), \A l \in Key \ {k} : Same(l),
           lapses' # lapses \/ Lost(k)' \subseteq Lost(k)
    PROVE  Permits
<1>1. \A l \in Key : l = k \/ Same(l)
    OBVIOUS
<1>2. ASSUME lapses' = lapses, NEW l \in Key PROVE Lost(l)' \subseteq Lost(l)
    BY <1>1, <1>2 DEF Same
<1> QED BY <1>1, <1>2 DEF Permits

LEMMA TakePermits ==
    ASSUME Rows, NEW k \in Key, NEW j \in Job, TakeLease(k, j), held[k][j] = 0
    PROVE  Permits
BY TakePermit, OnePermit

LEMMA ReleasePermits ==
    ASSUME Rows, NEW k \in Key, NEW j \in Job, Release(k, j), held[k][j] # 0
    PROVE  Permits
<1>1. (lease' = lease \/ lease' = Freed(k, j)) /\ held' = [held EXCEPT ![k][j] = 0]
    BY DEF Release
<1> QED BY <1>1, LeaveSlot, OnePermit

LEMMA ReviewPermits ==
    ASSUME Inv, NEW j \in Review, Admit(j) \/ Search(j) \/ SearchStarts(j) \/ SearchEnds(j)
    PROVE  Permits
<1>1. j \in Job /\ KeyOf(j) = "review" /\ "review" \in Key /\ "embed" \in Key
    BY ReviewIsJob
<1>2. CASE Goes(j, "admit", "caps") /\ TakeLease("review", j)
  <2>1. held["review"][j] = 0
      BY <1>1, <1>2 DEF Goes, Inv, HeldOK
  <2> QED BY <1>1, <1>2, <2>1, TakePermits DEF Inv
<1>3. CASE SearchStarts(j)
  <2>1. held["embed"][j] = 0
      BY <1>1, <1>3 DEF SearchStarts, Inv, HeldOK
  <2> QED BY <1>1, <1>3, <2>1, TakePermits DEF SearchStarts, Inv
<1>4. CASE SearchEnds(j)
  <2>1. held["embed"][j] # 0
      BY <1>4 DEF SearchEnds, Inv, HeldOK
  <2> QED BY <1>1, <1>4, <2>1, ReleasePermits DEF SearchEnds, Inv
<1>5. CASE lease' = lease /\ held' = held
    BY <1>5, IdlePermits
<1> QED BY <1>2, <1>3, <1>4, <1>5 DEF Admit, Search

LEMMA WorkPermits == ASSUME Inv, NEW j \in Job, Works(j) PROVE Permits
<1>1. KeyOf(j) \in Key
    BY KeyType
<1>2. CASE j \in Review /\ Goes(j, "caps", "capped") /\ Release("review", j)
  <2>1. KeyOf(j) = "review" /\ held[KeyOf(j)][j] # 0
      BY <1>2, ReviewIsJob DEF Goes, Inv, HeldOK
  <2> QED BY <1>1, <1>2, <2>1, ReleasePermits DEF Inv
<1>3. CASE Leave(j)
  <2>1. held[KeyOf(j)][j] # 0
      BY <1>3 DEF Leave, Goes, Inv, HeldOK
  <2> QED BY <1>1, <1>3, <2>1, ReleasePermits DEF Leave, Inv
<1>4. CASE lease' = lease /\ held' = held
    BY <1>4, IdlePermits
<1> QED BY <1>2, <1>3, <1>4 DEF Works, Begin, Wake, Caps, ReviewEnds, CallEnds, Rescued

LEMMA DiePermits == ASSUME Inv, NEW j \in Job, Die(j) PROVE Permits
<1>1. KeyOf(j) \in Key /\ held' = [held EXCEPT ![KeyOf(j)][j] = 0] /\ lease' = lease
    BY KeyType DEF Die
<1>2. CASE held[KeyOf(j)][j] = 0
  <2>1. held' = held
      BY <1>1, <1>2 DEF Inv, Rows
  <2> QED BY <1>1, <2>1, IdlePermits
<1>3. CASE held[KeyOf(j)][j] # 0
    BY <1>1, <1>3, LeaveSlot, OnePermit DEF Inv
<1> QED BY <1>2, <1>3

LEMMA StepPermits == Inv /\ [LeaseNext]_leaseVars => Permits
<1> SUFFICES ASSUME Inv, [LeaseNext]_leaseVars PROVE Permits
    OBVIOUS
<1>1. ASSUME NEW j \in Review, Admit(j) \/ Search(j) \/ SearchStarts(j) \/ SearchEnds(j) PROVE Permits
    BY <1>1, ReviewPermits
<1>2. ASSUME NEW j \in FollowUp \cup Index, Acquire(j) PROVE Permits
  <2>1. j \in Job /\ KeyOf(j) \in Key
      BY KeyType DEF Job
  <2>2. held[KeyOf(j)][j] = 0
      BY <1>2, <2>1 DEF Acquire, Goes, Inv, HeldOK
  <2> QED BY <1>2, <2>1, <2>2, TakePermits DEF Acquire, Inv
<1>3. ASSUME NEW j \in Job, Works(j) \/ Die(j) PROVE Permits
    BY <1>3, WorkPermits, DiePermits
<1>4. ASSUME NEW k \in Key, NEW j \in Job, Lapse(k, j) \/ Renew(k, j) PROVE Permits
  <2>1. CASE Lapse(k, j)
    <3>1. lapses' # lapses
        BY <2>1 DEF Lapse, Inv, Rows
    <3> QED BY <2>1, <3>1, LapsePermit, OnePermit DEF Inv
  <2>2. CASE Renew(k, j)
      BY <2>2, RenewPermit, OnePermit DEF Inv
  <2> QED BY <1>4, <2>1, <2>2
<1>5. ASSUME NEW k \in Key, NEW n \in Slot, Expire(k, n) PROVE Permits
    BY <1>5, ExpireSame DEF Permits, Same, Inv
<1>6. CASE UNCHANGED leaseVars
    BY <1>6, IdlePermits DEF leaseVars
<1> QED BY <1>1, <1>2, <1>3, <1>4, <1>5, <1>6 DEF LeaseNext

\* LapsingSemaphore's cardinality is this module's.
LEMMA SameCardinality ==
    \A S : ReviewSlots!Cardinality(S) = Cardinality(S) /\ EmbedSlots!Cardinality(S) = Cardinality(S)
BY Zenon DEF Cardinality, IsFiniteSet, ReviewSlots!Cardinality, ReviewSlots!IsFiniteSet,
             EmbedSlots!Cardinality, EmbedSlots!IsFiniteSet

\* Whatever lapses, dies or fails, the slots of each model are a semaphore
\* whose permits lapse (store/lease.go): each step of a lease is one step, or
\* none, of the permits, and one is taken or regained only while fewer jobs
\* than slots hold theirs.
THEOREM SlotsImplementSemaphore == LeaseSpec => SlotsAreASemaphore
<1>1. LeaseInit => ReviewSlots!Init /\ EmbedSlots!Init
  <2> SUFFICES ASSUME LeaseInit PROVE ReviewSlots!Init /\ EmbedSlots!Init
      OBVIOUS
  <2>1. \A k \in Key, j \in Job : held[k][j] = 0
      BY DEF LeaseInit
  <2> QED BY <2>1 DEF ReviewSlots!Init, EmbedSlots!Init, Holders, Lost, Key
<1>2. Permits => [ReviewSlots!Next]_<<Holders("review"), Lost("review")>>
  <2>1. ASSUME NEW j \in Job, Permit("review", j)
        PROVE  ReviewSlots!Acquire(j) \/ ReviewSlots!Release(j) \/ ReviewSlots!Lapse(j) \/ ReviewSlots!Regain(j)
    <3>1. CASE /\ Spare("review") /\ j \notin Holders("review")
               /\ Holders("review")' = Holders("review") \cup {j} /\ Lost("review")' = Lost("review")
        BY <3>1, SameCardinality DEF Spare, ReviewSlots!Acquire, ReviewSlots!Spare
    <3>2. CASE j \in Holders("review") /\ Holders("review")' = Holders("review") \ {j} /\ Lost("review")' = Lost("review") \ {j}
        BY <3>2 DEF ReviewSlots!Release
    <3>3. CASE /\ j \in Holders("review") \ Lost("review")
               /\ Lost("review")' = Lost("review") \cup {j} /\ Holders("review")' = Holders("review")
        BY <3>3 DEF ReviewSlots!Lapse
    <3>4. CASE /\ Spare("review") /\ j \in Lost("review")
               /\ Lost("review")' = Lost("review") \ {j} /\ Holders("review")' = Holders("review")
        BY <3>4, SameCardinality DEF Spare, ReviewSlots!Regain, ReviewSlots!Spare
    <3> QED BY <2>1, <3>1, <3>2, <3>3, <3>4 DEF Permit
  <2> QED BY <2>1 DEF Permits, Same, Key, ReviewSlots!Next
<1>3. Permits => [EmbedSlots!Next]_<<Holders("embed"), Lost("embed")>>
  <2>1. ASSUME NEW j \in Job, Permit("embed", j)
        PROVE  EmbedSlots!Acquire(j) \/ EmbedSlots!Release(j) \/ EmbedSlots!Lapse(j) \/ EmbedSlots!Regain(j)
    <3>1. CASE /\ Spare("embed") /\ j \notin Holders("embed")
               /\ Holders("embed")' = Holders("embed") \cup {j} /\ Lost("embed")' = Lost("embed")
        BY <3>1, SameCardinality DEF Spare, EmbedSlots!Acquire, EmbedSlots!Spare
    <3>2. CASE j \in Holders("embed") /\ Holders("embed")' = Holders("embed") \ {j} /\ Lost("embed")' = Lost("embed") \ {j}
        BY <3>2 DEF EmbedSlots!Release
    <3>3. CASE /\ j \in Holders("embed") \ Lost("embed")
               /\ Lost("embed")' = Lost("embed") \cup {j} /\ Holders("embed")' = Holders("embed")
        BY <3>3 DEF EmbedSlots!Lapse
    <3>4. CASE /\ Spare("embed") /\ j \in Lost("embed")
               /\ Lost("embed")' = Lost("embed") \ {j} /\ Holders("embed")' = Holders("embed")
        BY <3>4, SameCardinality DEF Spare, EmbedSlots!Regain, EmbedSlots!Spare
    <3> QED BY <2>1, <3>1, <3>2, <3>3, <3>4 DEF Permit
  <2> QED BY <2>1 DEF Permits, Same, Key, EmbedSlots!Next
<1> QED BY <1>1, <1>2, <1>3, StepPermits, LeaseInvariant, PTL
        DEF LeaseSpec, SlotsAreASemaphore, ReviewSlots!Spec, EmbedSlots!Spec

-----------------------------------------------------------------------------
\* The day's cap: a review is admitted under a slot of its own and below the
\* cap, so that those counted and those admitted exceed it by no more than
\* the jobs a model has at work.

Admitted == {j \in Review : job[j] = "working"}

Tallied ==
    /\ Cardinality(Lost("review")) <= lapses
    /\ completed + Cardinality(Admitted) <= ReviewsPerDay - 1 + Slots + lapses

LEMMA FiniteJobs ==
    /\ IsFiniteSet(Job)
    /\ \A k \in Key : IsFiniteSet(Lost(k)) /\ IsFiniteSet(Holders(k) \ Lost(k))
    /\ IsFiniteSet(Admitted)
<1>1. IsFiniteSet(Job)
    BY JobsAssumption, FS_Union DEF Job
<1>2. \A k \in Key : Lost(k) \in SUBSET Job /\ Holders(k) \ Lost(k) \in SUBSET Job
    BY DEF Holders, Lost
<1>3. Admitted \in SUBSET Review
    BY DEF Admitted
<1> QED BY <1>1, <1>2, <1>3, JobsAssumption, FS_Subset

\* The jobs that have their slot are no more than the slots.
LEMMA SlotsBound == ASSUME Rows, NEW k \in Key PROVE Cardinality(Holders(k) \ Lost(k)) <= Slots
<1> DEFINE H == Holders(k) \ Lost(k)
           f == [j \in H |-> held[k][j]]
<1>1. ASSUME NEW j \in H PROVE held[k][j] \in Slot /\ lease[k][held[k][j]].owner = j
  <2>1. held[k][j] \in Slot
      BY HeldSlot DEF Holders
  <2>2. lease[k][held[k][j]] = [owner |-> j, live |-> TRUE]
      BY DEF Holders, Lost
  <2> QED BY <2>1, <2>2
<1>2. f \in Injection(H, Slot)
    BY <1>1 DEF Injection, IsInjective
<1>3. IsFiniteSet(Slot) /\ Cardinality(Slot) = Slots
    BY FS_Interval, SlotsAssumption DEF Slot
<1> QED BY <1>2, <1>3, FS_Injection

\* Those at work are no more than the slots and those that lost theirs.
LEMMA HoldersBound ==
    ASSUME Rows, NEW k \in Key
    PROVE  IsFiniteSet(Holders(k)) /\ Cardinality(Holders(k)) <= Slots + Cardinality(Lost(k))
<1> DEFINE H == Holders(k) \ Lost(k)
           L == Lost(k)
<1>1. IsFiniteSet(H) /\ IsFiniteSet(L) /\ Cardinality(H) <= Slots
    BY FiniteJobs, SlotsBound
<1>2. Cardinality(H) \in Nat /\ Cardinality(L) \in Nat
    BY <1>1, FS_CardinalityType
<1>3. H \cap L = {} /\ Holders(k) = H \cup L
    BY DEF Lost
<1>4. IsFiniteSet(H \cup L) /\ Cardinality(H \cup L) = Cardinality(H) + Cardinality(L)
  <2> HIDE DEF H, L
  <2> QED BY <1>1, <1>2, <1>3, FS_Union, FS_EmptySet
<1> QED BY <1>1, <1>2, <1>3, <1>4, SlotsAssumption

\* A step admits a review below the cap, or counts one of those admitted, or
\* neither.
CountStep ==
    \/ completed' = completed /\ Admitted' \subseteq Admitted
    \/ completed' = completed + 1 /\ \E j \in Admitted : Admitted' = Admitted \ {j}
    \/ /\ completed' = completed /\ completed < ReviewsPerDay /\ lapses' = lapses
       /\ \E j \in Review : job[j] = "caps" /\ Admitted' = Admitted \cup {j}

LEMMA StepCounts == Inv /\ [LeaseNext]_leaseVars => CountStep /\ lapses' \in {lapses, lapses + 1}
<1> SUFFICES ASSUME Inv, [LeaseNext]_leaseVars PROVE CountStep /\ lapses' \in {lapses, lapses + 1}
    OBVIOUS
<1> DEFINE Goal == CountStep /\ lapses' \in {lapses, lapses + 1}
<1>1. ASSUME completed' = completed, lapses' \in {lapses, lapses + 1},
             \A j \in Review : job'[j] = "working" => job[j] = "working"
      PROVE  Goal
    BY <1>1 DEF CountStep, Admitted
<1>2. ASSUME NEW j \in Job, NEW from, NEW to, Goes(j, from, to), to # "working"
      PROVE  \A i \in Review : job'[i] = "working" => job[i] = "working"
    BY <1>2, ReviewIsJob DEF Goes, Inv, Rows
<1>3. ASSUME NEW j \in Review, Admit(j) \/ Search(j) \/ SearchStarts(j) \/ SearchEnds(j) PROVE Goal
  <2>1. j \in Job
      BY ReviewIsJob
  <2>2. \A i \in Review : job'[i] = "working" => job[i] = "working"
      BY <1>2, <1>3, <2>1 DEF Admit, Search, SearchStarts, SearchEnds
  <2> QED BY <1>1, <1>3, <2>2 DEF Admit, Search, SearchStarts, SearchEnds
<1>4. ASSUME NEW j \in FollowUp \cup Index, Acquire(j) PROVE Goal
  <2>1. \A i \in Review : i # j /\ job'[i] = job[i]
      BY <1>4, JobsAssumption, ReviewIsJob DEF Acquire, Goes, Inv, Rows, Job
  <2> QED BY <1>1, <1>4, <2>1 DEF Acquire
<1>5. ASSUME NEW j \in Job, Works(j) \/ Die(j) PROVE Goal
  <2>1. CASE j \in Review /\ ~CapReached /\ Goes(j, "caps", "working") /\ UNCHANGED <<completed, lapses>>
    <3>1. Admitted' = Admitted \cup {j} /\ job[j] = "caps" /\ completed < ReviewsPerDay
        BY <2>1, ReviewIsJob, SlotsAssumption DEF Admitted, Goes, CapReached, Inv, Rows
    <3> QED BY <2>1, <3>1 DEF CountStep
  <2>2. CASE j \in Review /\ ReviewEnds(j) /\ completed' = completed + 1
    <3>1. j \in Admitted /\ Admitted' = Admitted \ {j} /\ lapses' = lapses
        BY <2>2, ReviewIsJob DEF ReviewEnds, Admitted, Goes, Inv, Rows
    <3> QED BY <2>2, <3>1 DEF CountStep
  <2>3. CASE /\ completed' = completed /\ lapses' = lapses
             /\ \E from, to : Goes(j, from, to) /\ to # "working"
      BY <1>1, <1>2, <2>3
  <2>4. CASE Begin(j) \/ Wake(j) \/ CallEnds(j) \/ Leave(j) \/ Rescued(j) \/ Die(j)
      BY <2>3, <2>4 DEF Begin, Wake, CallEnds, Leave, Rescued, Die
  <2>5. CASE j \in Review /\ Caps(j)
      BY <2>1, <2>3, <2>5 DEF Caps
  <2>6. CASE j \in Review /\ ReviewEnds(j)
      BY <2>2, <2>3, <2>6 DEF ReviewEnds
  <2> QED BY <1>5, <2>4, <2>5, <2>6 DEF Works
<1>6. ASSUME NEW k \in Key, NEW j \in Job, Lapse(k, j) \/ Renew(k, j) PROVE Goal
    BY <1>1, <1>6 DEF Lapse, Renew
<1>7. ASSUME NEW k \in Key, NEW n \in Slot, Expire(k, n) PROVE Goal
    BY <1>1, <1>7 DEF Expire
<1>8. CASE UNCHANGED leaseVars
    BY <1>1, <1>8 DEF leaseVars
<1> QED BY <1>3, <1>4, <1>5, <1>6, <1>7, <1>8 DEF LeaseNext

LEMMA InitCounted == LeaseInit => Tallied
<1> SUFFICES ASSUME LeaseInit PROVE Tallied
    OBVIOUS
<1>1. Lost("review") = {} /\ Admitted = {} /\ completed = 0 /\ lapses = 0
    BY ReviewIsJob DEF LeaseInit, Lost, Holders, Admitted, Key
<1> QED BY <1>1, FS_EmptySet, SlotsAssumption DEF Tallied

\* Each lapse loses one permit of a model, and what loses none is no lapse.
LEMMA LostBound ==
    ASSUME Inv, Permits, lapses' \in {lapses, lapses + 1}, Cardinality(Lost("review")) <= lapses
    PROVE  Cardinality(Lost("review")') <= lapses'
<1> DEFINE L == Lost("review")
<1>1. "review" \in Key /\ IsFiniteSet(L) /\ Cardinality(L) \in Nat /\ lapses \in Nat
    BY FiniteJobs, FS_CardinalityType DEF Key, Inv, Rows
<1>2. CASE lapses' = lapses
  <2>1. L' \in SUBSET L
      BY <1>1, <1>2 DEF Permits
  <2>2. IsFiniteSet(L') /\ Cardinality(L') <= Cardinality(L)
      BY <1>1, <2>1, FS_Subset
  <2>3. Cardinality(L') \in Nat
      BY <2>2, FS_CardinalityType
  <2> QED BY <1>1, <1>2, <2>2, <2>3
<1>3. CASE lapses' = lapses + 1
  <2>1. PICK j : L' \in SUBSET (L \cup {j})
    <3>1. L' = L \/ \E i \in Job : L' \subseteq L \cup {i}
        BY <1>1 DEF Permits, Same, Permit
    <3> QED BY <3>1
  <2>2. IsFiniteSet(L \cup {j}) /\ Cardinality(L \cup {j}) <= Cardinality(L) + 1
      BY <1>1, FS_AddElement
  <2>3. IsFiniteSet(L') /\ Cardinality(L') <= Cardinality(L \cup {j})
      BY <2>1, <2>2, FS_Subset
  <2>4. Cardinality(L') \in Nat /\ Cardinality(L \cup {j}) \in Nat
      BY <2>2, <2>3, FS_CardinalityType
  <2> QED BY <1>1, <1>3, <2>2, <2>3, <2>4
<1> QED BY <1>2, <1>3

\* A review that reads the caps is at work with those admitted before it.
LEMMA AdmittedBound ==
    ASSUME Inv, NEW j \in Review, job[j] = "caps", Cardinality(Lost("review")) <= lapses
    PROVE  Cardinality(Admitted \cup {j}) <= Slots + lapses
<1>1. "review" \in Key
    BY DEF Key
<1>2. Admitted \cup {j} \in SUBSET Holders("review")
  <2>1. \A i \in Admitted \cup {j} : i \in Review /\ job[i] \in {"caps", "working", "leaving"}
      BY DEF Admitted
  <2>2. \A i \in Admitted \cup {j} : i \in Job /\ held["review"][i] # 0
      BY <2>1, ReviewIsJob DEF Inv, HeldOK
  <2> QED BY <2>2 DEF Holders
<1>3. IsFiniteSet(Holders("review")) /\ Cardinality(Holders("review")) <= Slots + Cardinality(Lost("review"))
    BY <1>1, HoldersBound DEF Inv
<1>4. IsFiniteSet(Admitted \cup {j}) /\ Cardinality(Admitted \cup {j}) <= Cardinality(Holders("review"))
    BY <1>2, <1>3, FS_Subset
<1>5. /\ Cardinality(Admitted \cup {j}) \in Nat /\ Cardinality(Holders("review")) \in Nat
      /\ Cardinality(Lost("review")) \in Nat
    BY <1>1, <1>3, <1>4, FiniteJobs, FS_CardinalityType
<1> QED BY <1>3, <1>4, <1>5, SlotsAssumption DEF Inv, Rows

LEMMA NextCounted == Inv /\ Tallied /\ [LeaseNext]_leaseVars => Tallied'
<1> SUFFICES ASSUME Inv, Tallied, [LeaseNext]_leaseVars PROVE Tallied'
    OBVIOUS
<1>1. Inv' /\ Permits /\ CountStep /\ lapses' \in {lapses, lapses + 1}
    BY NextInv, StepPermits, StepCounts
<1>2. Cardinality(Lost("review"))' <= lapses'
    BY <1>1, LostBound DEF Tallied
<1>3. IsFiniteSet(Admitted) /\ Cardinality(Admitted) \in Nat /\ completed \in Nat /\ lapses \in Nat
      /\ Slots \in Nat /\ ReviewsPerDay \in Nat \ {0}
    BY FiniteJobs, FS_CardinalityType, SlotsAssumption DEF Inv, Rows
<1>4. completed' + Cardinality(Admitted)' <= ReviewsPerDay - 1 + Slots + lapses'
  <2>1. CASE completed' = completed /\ Admitted' \subseteq Admitted
    <3>1. IsFiniteSet(Admitted') /\ Cardinality(Admitted') <= Cardinality(Admitted)
        BY <1>3, <2>1, FS_Subset
    <3>2. Cardinality(Admitted') \in Nat
        BY <3>1, FS_CardinalityType
    <3> QED BY <1>1, <1>3, <2>1, <3>1, <3>2 DEF Tallied
  <2>2. CASE completed' = completed + 1 /\ \E j \in Admitted : Admitted' = Admitted \ {j}
    <3>1. Cardinality(Admitted') = Cardinality(Admitted) - 1
        BY <1>3, <2>2, FS_RemoveElement
    <3> QED BY <1>1, <1>3, <2>2, <3>1 DEF Tallied
  <2>3. CASE /\ completed' = completed /\ completed < ReviewsPerDay /\ lapses' = lapses
             /\ \E j \in Review : job[j] = "caps" /\ Admitted' = Admitted \cup {j}
    <3>1. PICK j \in Review : job[j] = "caps" /\ Admitted' = Admitted \cup {j}
        BY <2>3
    <3>2. Cardinality(Admitted') <= Slots + lapses
        BY <3>1, AdmittedBound DEF Tallied
    <3>3. Cardinality(Admitted') \in Nat
        BY <1>3, <3>1, FS_AddElement, FS_CardinalityType
    <3> QED BY <1>3, <2>3, <3>2, <3>3
  <2> QED BY <1>1, <2>1, <2>2, <2>3 DEF CountStep
<1> QED BY <1>2, <1>4 DEF Tallied

\* The reviews of a day exceed the account's cap by fewer than the model has
\* slots, and one for each lease that lapsed under a review at work
\* (worker/agentic.go reads the caps under the lease, and counts completed
\* reviews only).
THEOREM CapOvershoot == LeaseSpec => []CapOvershootBounded
<1>1. Inv /\ Tallied => CapOvershootBounded
  <2> SUFFICES ASSUME Inv, Tallied PROVE CapOvershootBounded
      OBVIOUS
  <2>1. Cardinality(Admitted) \in Nat
      BY FiniteJobs, FS_CardinalityType
  <2> QED BY <2>1, SlotsAssumption DEF Tallied, CapOvershootBounded, Inv, Rows
<1> QED BY <1>1, InitCounted, NextCounted, LeaseInvariant, PTL DEF LeaseSpec
-----------------------------------------------------------------------------
(***************************************************************************)
(* The spending, for any runs, connections, budgets, costs and number of   *)
(* steps, resends and faults: type correctness, that the counts of a run   *)
(* agree, and that its budget and the account's month are held.            *)
(*                                                                         *)
(* What is on its way is counted by sets: the calls that are reserved, the *)
(* ones asked for, and the tokens of the answers that are not charged yet, *)
(* each a pair of its call and a number.  So no sum over calls is needed,  *)
(* and a step of a call adds to each set, or takes from it, what is its    *)
(* own (OneCall).                                                          *)
(***************************************************************************)

\* What of a run's calls is reserved, asked for, and answered and not yet
\* charged, the last by the token.
Reserved(calls) == {c \in Conn : calls[c].at \in {"asking", "answered", "failed"}}
Asking(calls)   == {c \in Conn : calls[c].at = "asking"}
Unsettled(calls) ==
    {o \in Conn \X (1 .. MaxCost) : calls[o[1]].at = "answered" /\ o[2] <= calls[o[1]].cost}

\* A run has no call before its token, only an answer costs, and one request
\* at most is listened to.
CallsSound(r) ==
    /\ loop[r] = "queued" => token[r] = None
    /\ token[r] = None =>
        /\ loop[r] \in {"queued", "gone"}
        /\ spent[r] = 0 /\ paid[r] = 0 /\ call[r] = [c \in Conn |-> NoCall]
    /\ \A c \in Conn : /\ call[r][c].at \notin {"answered", "charged"} => call[r][c].cost = 0
                       /\ call[r][c].at = "answered" => call[r][c].cost \in Cost
    /\ \A c, d \in Conn : call[r][c].heard /\ call[r][d].heard => c = d

\* The loop has yet to count what the request it listens to has cost.
LoopSound(r) ==
    /\ used[r] <= paid[r]
    /\ \A c \in Conn : call[r][c].heard => used[r] + call[r][c].cost <= paid[r]

\* What the answers cost is what the gateway counts, but for the calls that
\* are not settled and at most a call's excess for each failure.
Booked(r) == paid[r] + Estimate * Cardinality(Reserved(call[r])) - Cardinality(Unsettled(call[r]))
BookSound(r) ==
    /\ token[r] # "revoked" => spent[r] >= Estimate * Cardinality(Reserved(call[r]))
    /\ token[r] \in {"live", "expired"} =>
        /\ Booked(r) <= spent[r] + Under * faults
        /\ faults = 0 => Booked(r) = spent[r]

\* Whatever the calls asked for will cost is within the bound already.
LimitSound(r) ==
    token[r] # None =>
        paid[r] + MaxCost * Cardinality(Asking(call[r])) < budget[r] + MaxCost + Under * (Width - 1 + faults)

RunSound(r) == CallsSound(r) /\ LoopSound(r) /\ BookSound(r) /\ LimitSound(r)

\* The calls that were admitted, and what they may add to the month.
UnderWay == {o \in Run \X Conn : call[o[1]][o[2]].at \notin {None, "sent"}}
MonthSound == month + MaxCost * Cardinality(UnderWay) < PerMonth + MaxCost * (1 + Width * Cardinality(Run))

SpendSound == SpendTypeOK /\ (\A r \in Run : RunSound(r)) /\ MonthSound

-----------------------------------------------------------------------------
(* The amounts, and how many calls of a run there are of each sort. *)

Calls == [at: {None, "sent", "admitted", "asking", "answered", "failed", "charged"},
          cost: Cost \cup {0}, heard: BOOLEAN, chat: BOOLEAN]

LEMMA LeastNumber == ASSUME NEW S, S \subseteq Nat, S # {} PROVE \E x \in S : \A y \in S : x <= y
<1>1. IsWellFoundedOn(OpToRel(<, Nat), Nat)
    BY NatLessThanWellFounded
<1>2. PICK x \in S : \A y \in S : ~(<<y, x>> \in OpToRel(<, Nat))
    BY <1>1, WFMin
<1>3. \A y \in S : <<y, x>> \notin OpToRel(<, Nat) => x <= y
    BY DEF OpToRel
<1> QED BY <1>2, <1>3

\* A set of a few numbers has a greatest one: of those that have none, no
\* smallest could be.
LEMMA GreatestNumber ==
    ASSUME NEW S, IsFiniteSet(S), S \subseteq Nat, S # {}
    PROVE  \E x \in S : \A y \in S : y <= x
<1> DEFINE Topped(T) == \E x \in T : \A y \in T : y <= x
           Sizes == {n \in Nat : \E T \in SUBSET S : T # {} /\ Cardinality(T) = n /\ ~Topped(T)}
<1> SUFFICES ASSUME ~Topped(S) PROVE FALSE
    OBVIOUS
<1>1. Sizes # {}
  <2>1. Cardinality(S) \in Nat
      BY FS_CardinalityType
  <2> QED BY <2>1
<1>2. PICK n \in Sizes : \A m \in Sizes : n <= m
    BY <1>1, LeastNumber
<1>3. PICK T \in SUBSET S : T # {} /\ Cardinality(T) = n /\ ~Topped(T)
    BY <1>2
<1>4. PICK x \in T : TRUE
    BY <1>3
<1>5. IsFiniteSet(T)
    BY FS_Subset
<1>6. Cardinality(T \ {x}) = n - 1 /\ Cardinality(T \ {x}) \in Nat
  <2>1. IsFiniteSet(T \ {x}) /\ Cardinality(T \ {x}) = Cardinality(T) - 1
      BY <1>4, <1>5, FS_RemoveElement
  <2> QED BY <1>3, <2>1, FS_CardinalityType
<1>7. T \ {x} = {} \/ Topped(T \ {x})
  <2>1. n - 1 \notin Sizes
      BY <1>2
  <2> QED BY <1>6, <2>1
<1>8. CASE T \ {x} = {}
    BY <1>3, <1>4, <1>8
<1>9. CASE Topped(T \ {x})
  <2>1. PICK m \in T \ {x} : \A y \in T \ {x} : y <= m
      BY <1>9
  <2>2. CASE x <= m
      BY <1>3, <2>1, <2>2
  <2>3. CASE ~(x <= m)
    <3>1. \A y \in T : y <= x
        BY <1>4, <2>1, <2>3
    <3> QED BY <1>3, <1>4, <3>1
  <2> QED BY <2>2, <2>3
<1> QED BY <1>7, <1>8, <1>9

LEMMA Amounts ==
    /\ AgentMax \in Nat \ {0} /\ PerMonth \in Nat \ {0} /\ Estimate \in Nat \ {0} /\ MaxSteps \in Nat \ {0}
    /\ MinLeft \in Nat /\ MaxResends \in Nat /\ MaxSpendFaults \in Nat
    /\ MaxCost \in Nat \ {0} /\ (\A x \in Cost : x \in Nat \ {0} /\ x <= MaxCost)
    /\ Under \in Nat /\ MaxCost <= Estimate + Under /\ Under < MaxCost
    /\ Width \in Nat /\ Cardinality(Run) \in Nat
<1>1. \E x \in Cost : \A y \in Cost : y <= x
  <2>1. Cost \subseteq Nat /\ Cost # {} /\ IsFiniteSet(Cost)
      BY TokensAssumption
  <2> QED BY <2>1, GreatestNumber
<1>2. MaxCost \in Cost /\ \A y \in Cost : y <= MaxCost
    BY <1>1 DEF MaxCost
<1>3. Width \in Nat /\ Cardinality(Run) \in Nat
    BY TokensAssumption, FS_CardinalityType DEF Width
<1>4. MaxCost \in Nat \ {0} /\ Estimate \in Nat \ {0} /\ Cost \subseteq Nat \ {0}
    BY <1>2, TokensAssumption
<1>5. Under \in Nat /\ MaxCost <= Estimate + Under /\ Under < MaxCost
    BY <1>4 DEF Under
<1> QED BY <1>2, <1>3, <1>4, <1>5, TokensAssumption

\* One more member, or one less, of a set of calls.
LEMMA ByOne ==
    ASSUME NEW S, NEW T, NEW x, IsFiniteSet(S), T \ {x} = S \ {x}
    PROVE  /\ IsFiniteSet(T)
           /\ Cardinality(T) = Cardinality(S) + (IF x \in T THEN 1 ELSE 0) - (IF x \in S THEN 1 ELSE 0)
<1> DEFINE rest == S \ {x}
<1>1. IsFiniteSet(rest) /\ Cardinality(rest) \in Nat
    BY FS_Subset, FS_CardinalityType
<1>2. x \notin rest
    OBVIOUS
<1>3. IsFiniteSet(rest \cup {x}) /\ Cardinality(rest \cup {x}) = Cardinality(rest) + 1
    BY <1>1, <1>2, FS_AddElement
<1>4. (S = rest /\ x \notin S) \/ (S = rest \cup {x} /\ x \in S)
    OBVIOUS
<1>5. (T = rest /\ x \notin T) \/ (T = rest \cup {x} /\ x \in T)
    OBVIOUS
<1>6. Cardinality(S) = Cardinality(rest) + (IF x \in S THEN 1 ELSE 0)
  <2>1. CASE x \in S
      BY <1>1, <1>3, <1>4, <2>1
  <2>2. CASE x \notin S
    <3>1. S = rest
        BY <2>2
    <3> HIDE DEF rest
    <3> QED BY <1>1, <2>2, <3>1
  <2> QED BY <2>1, <2>2
<1>7. IsFiniteSet(T) /\ Cardinality(T) = Cardinality(rest) + (IF x \in T THEN 1 ELSE 0)
    BY <1>1, <1>3, <1>5
<1> QED BY <1>1, <1>6, <1>7

LEMMA Apart ==
    ASSUME NEW S, NEW T, IsFiniteSet(S), IsFiniteSet(T), S \cap T = {}
    PROVE  IsFiniteSet(S \cup T) /\ Cardinality(S \cup T) = Cardinality(S) + Cardinality(T)
<1>1. Cardinality(S \cap T) = 0
    BY FS_EmptySet
<1>2. Cardinality(S) \in Nat /\ Cardinality(T) \in Nat
    BY FS_CardinalityType
<1>3. /\ IsFiniteSet(S \cup T)
      /\ Cardinality(S \cup T) = Cardinality(S) + Cardinality(T) - Cardinality(S \cap T)
    BY FS_Union
<1> QED BY <1>1, <1>2, <1>3

LEMMA FewCalls ==
    ASSUME NEW calls
    PROVE  /\ IsFiniteSet(Reserved(calls)) /\ Cardinality(Reserved(calls)) \in Nat
           /\ IsFiniteSet(Asking(calls)) /\ Cardinality(Asking(calls)) \in Nat
           /\ IsFiniteSet(Unsettled(calls)) /\ Cardinality(Unsettled(calls)) \in Nat
<1>1. IsFiniteSet(Conn)
    BY TokensAssumption
<1>2. IsFiniteSet(Reserved(calls)) /\ IsFiniteSet(Asking(calls))
  <2>1. Reserved(calls) \subseteq Conn /\ Asking(calls) \subseteq Conn
      BY DEF Reserved, Asking
  <2> QED BY <1>1, <2>1, FS_Subset
<1>3. IsFiniteSet(Unsettled(calls))
  <2>1. IsFiniteSet(1 .. MaxCost)
      BY Amounts, FS_Interval
  <2>2. IsFiniteSet(Conn \X (1 .. MaxCost))
      BY <1>1, <2>1, FS_Product
  <2>3. Unsettled(calls) \subseteq Conn \X (1 .. MaxCost)
      BY DEF Unsettled
  <2> QED BY <2>2, <2>3, FS_Subset
<1> QED BY <1>2, <1>3, FS_CardinalityType

\* The tokens of a pair of a call and a cost.
LEMMA TokensOf ==
    ASSUME NEW c, NEW n \in Nat
    PROVE  IsFiniteSet({c} \X (1 .. n)) /\ Cardinality({c} \X (1 .. n)) = n
<1>1. IsFiniteSet({c}) /\ Cardinality({c}) = 1
    BY FS_Singleton
<1>2. IsFiniteSet(1 .. n) /\ Cardinality(1 .. n) = n
    BY FS_Interval
<1>3. /\ IsFiniteSet({c} \X (1 .. n))
      /\ Cardinality({c} \X (1 .. n)) = Cardinality({c}) * Cardinality(1 .. n)
    BY <1>1, <1>2, FS_Product
<1> QED BY <1>1, <1>2, <1>3

Holds(x) == IF x.at \in {"asking", "answered", "failed"} THEN 1 ELSE 0
Asks(x)  == IF x.at = "asking" THEN 1 ELSE 0
Due(x)   == IF x.at = "answered" THEN x.cost ELSE 0

\* A call that goes on counts as what it is now and no longer as what it was.
LEMMA OneCall ==
    ASSUME NEW f \in [Conn -> Calls], NEW g \in [Conn -> Calls], NEW c \in Conn,
           \A d \in Conn \ {c} : g[d] = f[d]
    PROVE  /\ Cardinality(Reserved(g)) = Cardinality(Reserved(f)) + Holds(g[c]) - Holds(f[c])
           /\ Cardinality(Asking(g)) = Cardinality(Asking(f)) + Asks(g[c]) - Asks(f[c])
           /\ Cardinality(Unsettled(g)) = Cardinality(Unsettled(f)) + Due(g[c]) - Due(f[c])
<1>1. Cardinality(Reserved(g)) = Cardinality(Reserved(f)) + Holds(g[c]) - Holds(f[c])
  <2>1. Reserved(g) \ {c} = Reserved(f) \ {c}
      BY DEF Reserved
  <2>2. IsFiniteSet(Reserved(f))
      BY FewCalls
  <2>3. Cardinality(Reserved(g)) = Cardinality(Reserved(f)) + (IF c \in Reserved(g) THEN 1 ELSE 0) - (IF c \in Reserved(f) THEN 1 ELSE 0)
      BY <2>1, <2>2, ByOne
  <2> QED BY <2>3 DEF Reserved, Holds
<1>2. Cardinality(Asking(g)) = Cardinality(Asking(f)) + Asks(g[c]) - Asks(f[c])
  <2>1. Asking(g) \ {c} = Asking(f) \ {c}
      BY DEF Asking
  <2>2. IsFiniteSet(Asking(f))
      BY FewCalls
  <2>3. Cardinality(Asking(g)) = Cardinality(Asking(f)) + (IF c \in Asking(g) THEN 1 ELSE 0) - (IF c \in Asking(f) THEN 1 ELSE 0)
      BY <2>1, <2>2, ByOne
  <2> QED BY <2>3 DEF Asking, Asks
<1>3. Cardinality(Unsettled(g)) = Cardinality(Unsettled(f)) + Due(g[c]) - Due(f[c])
  <2> DEFINE rest == {o \in Unsettled(f) : o[1] # c}
             Mine(x) == {c} \X (1 .. Due(x))
  <2>1. IsFiniteSet(rest) /\ Cardinality(rest) \in Nat
      BY FewCalls, FS_Subset, FS_CardinalityType
  <2>2. ASSUME NEW h \in [Conn -> Calls], \A d \in Conn \ {c} : h[d] = f[d]
        PROVE  Cardinality(Unsettled(h)) = Cardinality(rest) + Due(h[c])
    <3>1. Due(h[c]) \in 0 .. MaxCost
        BY Amounts DEF Due, Calls
    <3>2. IsFiniteSet(Mine(h[c])) /\ Cardinality(Mine(h[c])) = Due(h[c])
      <4>1. Due(h[c]) \in Nat
          BY <3>1, Amounts
      <4> QED BY <4>1, TokensOf
    <3>3. Unsettled(h) = rest \cup Mine(h[c])
      <4>1. ASSUME NEW o \in Conn \X (1 .. MaxCost) PROVE o \in Unsettled(h) <=> o \in rest \cup Mine(h[c])
        <5>0. o = <<o[1], o[2]>> /\ o[1] \in Conn /\ o[2] \in 1 .. MaxCost
            BY <4>1
        <5>1. CASE o[1] = c
            BY <5>0, <5>1, <3>1, Amounts DEF Unsettled, Due
        <5>2. CASE o[1] # c
            BY <5>0, <5>2, <2>2 DEF Unsettled
        <5> QED BY <5>1, <5>2
      <4>2. Unsettled(h) \subseteq Conn \X (1 .. MaxCost) /\ rest \subseteq Conn \X (1 .. MaxCost)
          BY DEF Unsettled
      <4>3. Mine(h[c]) \subseteq Conn \X (1 .. MaxCost)
          BY <3>1, Amounts
      <4> QED BY <4>1, <4>2, <4>3
    <3>4. rest \cap Mine(h[c]) = {}
        OBVIOUS
    <3>5. Cardinality(rest \cup Mine(h[c])) = Cardinality(rest) + Cardinality(Mine(h[c]))
        BY <2>1, <3>2, <3>4, Apart
    <3> QED BY <3>2, <3>3, <3>5
  <2>3. /\ Cardinality(Unsettled(f)) = Cardinality(rest) + Due(f[c])
        /\ Cardinality(Unsettled(g)) = Cardinality(rest) + Due(g[c])
      BY <2>2
  <2>4. Due(f[c]) \in Nat /\ Due(g[c]) \in Nat
      BY Amounts DEF Due, Calls
  <2> QED BY <2>1, <2>3, <2>4
<1> QED BY <1>1, <1>2, <1>3

\* A call that is neither asked for nor answered leaves the others room.
LEMMA CallsBounded ==
    ASSUME NEW f \in [Conn -> Calls], NEW c \in Conn, c \notin Reserved(f),
           \A d \in Conn : f[d].at = "answered" => f[d].cost \in Cost
    PROVE  \E a \in Nat :
              /\ Cardinality(Unsettled(f)) <= a * (Estimate + Under)
              /\ Cardinality(Asking(f)) + a <= Cardinality(Reserved(f))
              /\ Cardinality(Asking(f)) + a <= Width - 1
<1> DEFINE Had == {d \in Conn : f[d].at = "answered"}
           a   == Cardinality(Had)
<1>1. IsFiniteSet(Conn)
    BY TokensAssumption
<1>2. IsFiniteSet(Had) /\ a \in Nat
    BY <1>1, FS_Subset, FS_CardinalityType
<1>3. Cardinality(Unsettled(f)) <= a * (Estimate + Under)
  <2>1. Estimate + Under \in Nat /\ MaxCost <= Estimate + Under /\ MaxCost \in Nat
      BY Amounts
  <2>2. IsFiniteSet(1 .. Estimate + Under) /\ Cardinality(1 .. Estimate + Under) = Estimate + Under
      BY <2>1, FS_Interval
  <2>3. /\ IsFiniteSet(Had \X (1 .. Estimate + Under))
        /\ Cardinality(Had \X (1 .. Estimate + Under)) = a * (Estimate + Under)
      BY <1>2, <2>2, FS_Product
  <2>4. Unsettled(f) \subseteq Had \X (1 .. Estimate + Under)
      BY <2>1 DEF Unsettled
  <2> QED BY <2>3, <2>4, FS_Subset
<1>4. Cardinality(Asking(f)) + a <= Cardinality(Reserved(f)) /\ Cardinality(Reserved(f)) <= Width - 1
  <2>1. Asking(f) \cap Had = {} /\ Asking(f) \cup Had \subseteq Reserved(f)
      BY DEF Asking, Reserved
  <2>2. IsFiniteSet(Asking(f)) /\ IsFiniteSet(Reserved(f))
      BY FewCalls
  <2>3. Cardinality(Asking(f) \cup Had) = Cardinality(Asking(f)) + a
      BY <1>2, <2>1, <2>2, Apart
  <2>4. Cardinality(Asking(f) \cup Had) <= Cardinality(Reserved(f))
      BY <2>1, <2>2, FS_Subset
  <2>5. Reserved(f) \subseteq Conn \ {c}
      BY DEF Reserved
  <2>6. IsFiniteSet(Conn \ {c}) /\ Cardinality(Conn \ {c}) = Width - 1
      BY <1>1, FS_RemoveElement DEF Width
  <2>7. Cardinality(Reserved(f)) <= Width - 1
      BY <2>5, <2>6, FS_Subset
  <2> QED BY <2>3, <2>4, <2>7
<1>5. Cardinality(Asking(f)) \in Nat /\ Cardinality(Reserved(f)) \in Nat /\ Width \in Nat
    BY FewCalls, Amounts
<1>6. Cardinality(Asking(f)) + a <= Width - 1
    BY <1>2, <1>4, <1>5
<1> QED BY <1>2, <1>3, <1>4, <1>6

\* What is not settled exceeds what is reserved for it by a call's excess each.
LEMMA UnsettledBounded ==
    ASSUME NEW f \in [Conn -> Calls], \A d \in Conn : f[d].at = "answered" => f[d].cost \in Cost
    PROVE  Cardinality(Unsettled(f)) <= Estimate * Cardinality(Reserved(f)) + Under * Width
<1> DEFINE res  == Cardinality(Reserved(f))
           most == Estimate + Under
<1>1. IsFiniteSet(Conn) /\ most \in Nat /\ MaxCost <= most /\ MaxCost \in Nat /\ Estimate \in Nat /\ Under \in Nat
    BY TokensAssumption, Amounts
<1>2. IsFiniteSet(Reserved(f)) /\ res \in Nat
    BY FewCalls
<1>3. IsFiniteSet(1 .. most) /\ Cardinality(1 .. most) = most
    BY <1>1, FS_Interval
<1>4. IsFiniteSet(Reserved(f) \X (1 .. most)) /\ Cardinality(Reserved(f) \X (1 .. most)) = res * most
    BY <1>2, <1>3, FS_Product
<1>5. Unsettled(f) \subseteq Reserved(f) \X (1 .. most)
    BY <1>1 DEF Unsettled, Reserved
<1>6. Cardinality(Unsettled(f)) <= res * most
    BY <1>4, <1>5, FS_Subset
<1>7. res <= Width /\ Width \in Nat
    BY <1>1, FS_Subset, Amounts DEF Reserved, Width
<1>8. Under * res <= Under * Width
  <2>1. Width - res \in Nat /\ Under * (Width - res) \in Nat
      BY <1>1, <1>2, <1>7
  <2>2. Under * Width = Under * res + Under * (Width - res) /\ Under * res \in Int /\ Under * Width \in Int
      BY <1>1, <1>2, <1>7
  <2> QED BY <2>1, <2>2
<1>9. res * most = Estimate * res + Under * res
    BY <1>1, <1>2
<1>10. /\ Estimate * res \in Int /\ Under * res \in Int /\ Under * Width \in Int
       /\ Cardinality(Unsettled(f)) \in Nat
    BY <1>1, <1>2, <1>7, FewCalls
<1> QED BY <1>6, <1>8, <1>9, <1>10

-----------------------------------------------------------------------------
(* A call that goes on. *)

\* The place of the loop and what it keeps.
LoopTyped ==
    /\ loop \in [Run -> {"queued", "ready", "waiting", "tool", "ended", "gone"}]
    /\ step \in [Run -> 0 .. MaxSteps - 1] /\ nudged \in [Run -> BOOLEAN] /\ again \in [Run -> 0 .. MaxResends]
    /\ stop \in [Run -> {None, "submitted", "max_steps", "budget", "no_submit", "truncated", "canceled", "error"}]

\* Of the calls, c of r alone goes on, and becomes what the state says.
OnlyCall(r, c) ==
    /\ call' \in [Run -> [Conn -> Calls]]
    /\ \A q \in Run \ {r} : call'[q] = call[q]
    /\ \A d \in Conn \ {c} : call'[r][d] = call[r][d]

\* Nothing else of the other runs changes but the loops' places.
OnlyRun(r) ==
    \A q \in Run \ {r} :
        /\ used'[q] = used[q] /\ paid'[q] = paid[q] /\ spent'[q] = spent[q] /\ budget'[q] = budget[q]
        /\ token'[q] = token[q] /\ loop'[q] = loop[q]

\* What a run has not touched stays sound, whatever fails and whoever else
\* revokes or expires its token.
LEMMA RunKept ==
    ASSUME SpendTypeOK, NEW r \in Run, RunSound(r), faults' \in Nat, faults' >= faults,
           used'[r] = used[r], paid'[r] = paid[r], spent'[r] = spent[r], budget'[r] = budget[r],
           \A c \in Conn : /\ call'[r][c].at = call[r][c].at /\ call'[r][c].cost = call[r][c].cost
                           /\ call'[r][c].heard => call[r][c].heard,
           token[r] = None => call'[r] = call[r],
           token'[r] = token[r] \/ (token[r] = "live" /\ token'[r] \in {"expired", "revoked"})
                                \/ (token[r] = "expired" /\ token'[r] = "revoked"),
           loop'[r] = "queued" => loop[r] = "queued",
           token[r] = None => loop'[r] \in {"queued", "gone"}
    PROVE  RunSound(r)'
<1>1. /\ used[r] \in Nat /\ paid[r] \in Nat /\ spent[r] \in Nat /\ budget[r] \in Nat
      /\ Cardinality(Reserved(call[r])) \in Nat /\ Cardinality(Unsettled(call[r])) \in Nat
      /\ Cardinality(Asking(call[r])) \in Nat /\ faults \in Nat
    BY FewCalls, Amounts DEF SpendTypeOK
<1>2. Reserved(call[r])' = Reserved(call[r]) /\ Unsettled(call[r])' = Unsettled(call[r]) /\ Asking(call[r])' = Asking(call[r])
  <2>1. Reserved(call[r])' = Reserved(call[r]) /\ Asking(call[r])' = Asking(call[r])
      BY DEF Reserved, Asking
  <2>2. ASSUME NEW o \in Conn \X (1 .. MaxCost)
        PROVE  call'[r][o[1]].at = call[r][o[1]].at /\ call'[r][o[1]].cost = call[r][o[1]].cost
      BY <2>2
  <2>3. Unsettled(call[r])' = Unsettled(call[r])
      BY <2>2 DEF Unsettled
  <2> QED BY <2>1, <2>3
<1>3. CallsSound(r)'
    BY DEF RunSound, CallsSound, None
<1>4. LoopSound(r)'
    BY DEF RunSound, LoopSound
<1>5. Under * faults <= Under * faults' /\ Under * (Width - 1 + faults) <= Under * (Width - 1 + faults')
  <2>1. PICK n \in Nat : faults' = faults + n
    <3>1. PICK later : later = faults'
        OBVIOUS
    <3>2. later \in Nat /\ later >= faults
        BY <3>1
    <3>3. later = faults + (later - faults) /\ later - faults \in Nat
        BY <1>1, <3>2
    <3> QED BY <3>1, <3>3
  <2>2. Under \in Nat /\ Under * n \in Nat /\ Width \in Nat
      BY Amounts
  <2>3. Under * (faults + n) = Under * faults + Under * n
      BY <1>1, <2>2
  <2>4. Under * (Width - 1 + (faults + n)) = Under * (Width - 1 + faults) + Under * n
      BY <1>1, <2>2
  <2>5. Under * faults \in Int /\ Under * (Width - 1 + faults) \in Int
      BY <1>1, <2>2
  <2> QED BY <2>1, <2>2, <2>3, <2>4, <2>5
<1>6. Under * faults \in Int /\ Under * (Width - 1 + faults) \in Int /\ Under * faults' \in Int
      /\ Under * (Width - 1 + faults') \in Int /\ Estimate * Cardinality(Reserved(call[r])) \in Int
      /\ MaxCost * Cardinality(Asking(call[r])) \in Int /\ MaxCost \in Int
    BY <1>1, Amounts
<1>7. BookSound(r)'
    BY <1>1, <1>2, <1>5, <1>6 DEF RunSound, BookSound, Booked
<1>8. LimitSound(r)'
    BY <1>1, <1>2, <1>5, <1>6 DEF RunSound, LimitSound, None
<1> QED BY <1>3, <1>4, <1>7, <1>8 DEF RunSound

\* A step of a call keeps the books: what it adds to the answers' cost, to
\* the reservations and to what is not settled, the token counts.
LEMMA CallBooked ==
    ASSUME SpendTypeOK, NEW r \in Run, NEW c \in Conn, RunSound(r), OnlyCall(r, c),
           paid'[r] \in Nat, spent'[r] \in Nat, token'[r] = token[r], faults' \in {faults, faults + 1},
           LET x == call[r][c]  y == call'[r][c] IN
           /\ token[r] # "revoked" => spent'[r] - spent[r] >= Estimate * Holds(y) - Estimate * Holds(x)
           /\ token[r] \in {"live", "expired"} =>
                LET more == (paid'[r] - paid[r]) + (Estimate * Holds(y) - Estimate * Holds(x)) - (Due(y) - Due(x))
                IN  more = spent'[r] - spent[r] \/ (faults' # faults /\ more <= spent'[r] - spent[r] + Under)
    PROVE  BookSound(r)'
<1> DEFINE x == call[r][c]
           y == call'[r][c]
           res == Cardinality(Reserved(call[r]))
           due == Cardinality(Unsettled(call[r]))
<1>1. call[r] \in [Conn -> Calls] /\ call'[r] \in [Conn -> Calls]
    BY DEF SpendTypeOK, Calls, OnlyCall
<1>2. \A d \in Conn \ {c} : call'[r][d] = call[r][d]
    BY DEF OnlyCall
<1>3. /\ Cardinality(Reserved(call'[r])) = res + Holds(y) - Holds(x)
      /\ Cardinality(Unsettled(call'[r])) = due + Due(y) - Due(x)
    BY <1>1, <1>2, OneCall
<1>4. Reserved(call[r])' = Reserved(call'[r]) /\ Unsettled(call[r])' = Unsettled(call'[r])
    BY DEF Reserved, Unsettled
<1>5. /\ Estimate \in Nat /\ Under \in Nat /\ res \in Nat /\ due \in Nat
      /\ Holds(x) \in {0, 1} /\ Holds(y) \in {0, 1} /\ Due(x) \in Nat /\ Due(y) \in Nat
      /\ paid[r] \in Nat /\ spent[r] \in Nat /\ faults \in Nat
    BY <1>1, Amounts, FewCalls DEF Holds, Due, SpendTypeOK, Calls
<1>6. Estimate * (res + Holds(y) - Holds(x)) = Estimate * res + (Estimate * Holds(y) - Estimate * Holds(x))
    BY <1>5
<1>7. \/ faults' = faults /\ Under * faults' = Under * faults
      \/ faults' = faults + 1 /\ Under * faults' = Under * faults + Under /\ faults' # faults /\ faults' # 0
  <2>1. CASE faults' = faults
      BY <2>1
  <2>2. CASE faults' = faults + 1
    <3>1. Under * (faults + 1) = Under * faults + Under /\ faults + 1 # faults /\ faults + 1 # 0
        BY <1>5
    <3> QED BY <2>2, <3>1
  <2> QED BY <2>1, <2>2
<1> DEFINE eres == Estimate * res
           more == Estimate * Holds(y) - Estimate * Holds(x)
           lost == Under * faults
           lost2 == Under * faults'
<1>8. eres \in Int /\ more \in Int /\ lost \in Int /\ lost2 \in Int
    BY <1>5
<1>9. /\ token[r] # "revoked" => spent[r] >= eres
      /\ token[r] \in {"live", "expired"} =>
            /\ paid[r] + eres - due <= spent[r] + lost
            /\ faults = 0 => paid[r] + eres - due = spent[r]
    BY DEF RunSound, BookSound, Booked
<1>10. /\ Booked(r)' = paid'[r] + (eres + more) - (due + Due(y) - Due(x))
       /\ Estimate * Cardinality(Reserved(call[r])') = eres + more
    BY <1>3, <1>4, <1>6 DEF Booked
<1>11. /\ token[r] # "revoked" => spent'[r] - spent[r] >= more
       /\ token[r] \in {"live", "expired"} =>
            LET rise == (paid'[r] - paid[r]) + more - (Due(y) - Due(x))
            IN  rise = spent'[r] - spent[r] \/ (faults' # faults /\ rise <= spent'[r] - spent[r] + Under)
    OBVIOUS
<1> HIDE DEF x, y, res, due, eres, more, lost, lost2
<1>12. \/ faults' = faults /\ lost2 = lost
       \/ faults' # faults /\ faults' # 0 /\ lost2 = lost + Under
    BY <1>7 DEF lost, lost2
<1>13. token'[r] # "revoked" => spent'[r] >= eres + more
    BY <1>5, <1>8, <1>9, <1>11
<1>14. token'[r] \in {"live", "expired"} =>
            /\ Booked(r)' <= spent'[r] + lost2
            /\ faults' = 0 => Booked(r)' = spent'[r]
  <2>1. PICK p, s, b : p = paid'[r] /\ s = spent'[r] /\ b = Booked(r)'
      OBVIOUS
  <2>2. p \in Nat /\ s \in Nat /\ b = p + (eres + more) - (due + Due(y) - Due(x))
      BY <1>10, <2>1
  <2>3. SUFFICES ASSUME token'[r] \in {"live", "expired"}
                 PROVE  b <= s + lost2 /\ (faults' = 0 => b = s)
      BY <2>1
  <2>4. /\ paid[r] + eres - due <= spent[r] + lost
        /\ faults = 0 => paid[r] + eres - due = spent[r]
      BY <1>9, <2>3
  <2> DEFINE rise == (p - paid[r]) + more - (Due(y) - Due(x))
  <2>5. rise = s - spent[r] \/ (faults' # faults /\ rise <= s - spent[r] + Under)
      BY <1>11, <2>1, <2>3
  <2>6. b = (paid[r] + eres - due) + rise /\ rise \in Int
      BY <1>5, <1>8, <2>2
  <2> HIDE DEF rise
  <2>7. CASE faults' = faults /\ lost2 = lost
      BY <1>5, <1>8, <2>2, <2>4, <2>5, <2>6, <2>7
  <2>8. CASE faults' # faults /\ faults' # 0 /\ lost2 = lost + Under
    <3>1. rise <= s - spent[r] + Under
        BY <1>5, <2>2, <2>5, <2>6
    <3> QED BY <1>5, <1>8, <2>2, <2>4, <2>6, <2>8, <3>1
  <2> QED BY <1>12, <2>7, <2>8
<1> QED BY <1>10, <1>13, <1>14 DEF BookSound, lost2

\* A step that asks for nothing new keeps within the bound.
LEMMA CallLimited ==
    ASSUME SpendTypeOK, NEW r \in Run, NEW c \in Conn, RunSound(r), OnlyCall(r, c),
           paid'[r] \in Nat, token'[r] = token[r], budget'[r] = budget[r], faults' \in {faults, faults + 1},
           paid'[r] + MaxCost * Asks(call'[r][c]) <= paid[r] + MaxCost * Asks(call[r][c])
    PROVE  LimitSound(r)'
<1> DEFINE x == call[r][c]
           y == call'[r][c]
           ask == Cardinality(Asking(call[r]))
<1>1. call[r] \in [Conn -> Calls] /\ call'[r] \in [Conn -> Calls] /\ \A d \in Conn \ {c} : call'[r][d] = call[r][d]
    BY DEF SpendTypeOK, Calls, OnlyCall
<1>2. Cardinality(Asking(call'[r])) = ask + Asks(y) - Asks(x)
    BY <1>1, OneCall
<1>3. Asking(call[r])' = Asking(call'[r])
    BY DEF Asking
<1>4. /\ MaxCost \in Nat /\ Under \in Nat /\ ask \in Nat /\ Width \in Nat
      /\ Asks(x) \in {0, 1} /\ Asks(y) \in {0, 1} /\ paid[r] \in Nat /\ faults \in Nat /\ budget[r] \in Nat
    BY Amounts, FewCalls DEF Asks, SpendTypeOK
<1>5. MaxCost * (ask + Asks(y) - Asks(x)) = MaxCost * ask + (MaxCost * Asks(y) - MaxCost * Asks(x))
    BY <1>4
<1>6. Under * (Width - 1 + faults) <= Under * (Width - 1 + faults')
  <2>1. Under * (Width - 1 + (faults + 1)) = Under * (Width - 1 + faults) + Under
      BY <1>4
  <2>2. Under * (Width - 1 + faults) <= Under * (Width - 1 + (faults + 1))
      BY <1>4, <2>1
  <2>3. Under * (Width - 1 + faults) \in Int
      BY <1>4
  <2>4. CASE faults' = faults
      BY <2>3, <2>4
  <2>5. CASE faults' = faults + 1
      BY <2>2, <2>5
  <2> QED BY <2>4, <2>5
<1>7. /\ Under * (Width - 1 + faults) \in Int /\ Under * (Width - 1 + faults') \in Int
      /\ MaxCost * ask \in Int /\ MaxCost * Asks(x) \in Int /\ MaxCost * Asks(y) \in Int
    BY <1>4
<1>8. token[r] # None => paid[r] + MaxCost * ask < budget[r] + MaxCost + Under * (Width - 1 + faults)
    BY DEF RunSound, LimitSound
<1>9. token[r] # None => paid'[r] + (MaxCost * ask + (MaxCost * Asks(y) - MaxCost * Asks(x)))
                            < budget[r] + MaxCost + Under * (Width - 1 + faults')
  <2> DEFINE room  == Under * (Width - 1 + faults)
             later == Under * (Width - 1 + faults')
             asked == MaxCost * ask
             gone  == MaxCost * Asks(x)
             new   == MaxCost * Asks(y)
  <2>1. room <= later /\ room \in Int /\ later \in Int /\ asked \in Int /\ gone \in Int /\ new \in Int
      BY <1>6, <1>7
  <2>2. token[r] # None => paid[r] + asked < budget[r] + MaxCost + room
      BY <1>8
  <2>3. paid'[r] + new <= paid[r] + gone /\ paid'[r] \in Nat
      OBVIOUS
  <2> HIDE DEF room, later, asked, gone, new
  <2>4. token[r] # None => paid'[r] + (asked + (new - gone)) < budget[r] + MaxCost + later
      BY <1>4, <2>1, <2>2, <2>3
  <2> QED BY <2>4 DEF later, asked, gone, new
<1> QED BY <1>2, <1>3, <1>5, <1>9 DEF LimitSound, None

\* What a step makes of a call is within its sort, nobody else is listened to,
\* and the loop has not counted more than was paid.
LEMMA CallHeld ==
    ASSUME SpendTypeOK, NEW r \in Run, NEW c \in Conn, RunSound(r), OnlyCall(r, c),
           token[r] # None, token'[r] = token[r], loop'[r] # "queued",
           paid'[r] \in Nat, used'[r] \in Nat, paid'[r] >= paid[r],
           used'[r] <= paid'[r], used'[r] = used[r] \/ call[r][c].heard,
           LET y == call'[r][c] IN
           /\ y.at \notin {"answered", "charged"} => y.cost = 0
           /\ y.at = "answered" => y.cost \in Cost
           /\ y.heard => call[r][c].heard \/ \A d \in Conn : ~call[r][d].heard
           /\ y.heard => used'[r] + y.cost <= paid'[r]
    PROVE  CallsSound(r)' /\ LoopSound(r)'
<1>1. call[r] \in [Conn -> Calls] /\ call'[r] \in [Conn -> Calls] /\ \A d \in Conn \ {c} : call'[r][d] = call[r][d]
    BY DEF SpendTypeOK, Calls, OnlyCall
<1>2. \A d, e \in Conn : call'[r][d].heard /\ call'[r][e].heard => d = e
    BY <1>1 DEF RunSound, CallsSound
<1>3. \A d \in Conn : /\ call'[r][d].at \notin {"answered", "charged"} => call'[r][d].cost = 0
                      /\ call'[r][d].at = "answered" => call'[r][d].cost \in Cost
    BY <1>1 DEF RunSound, CallsSound
<1>4. CallsSound(r)'
    BY <1>2, <1>3 DEF CallsSound, None
<1>5. ASSUME NEW d \in Conn, call'[r][d].heard PROVE used'[r] + call'[r][d].cost <= paid'[r]
  <2>1. CASE d = c
      BY <1>5, <2>1
  <2>2. CASE d # c
    <3>1. call'[r][d] = call[r][d] /\ call[r][d].heard
        BY <1>1, <1>5, <2>2
    <3>2. ~call[r][c].heard
        BY <2>2, <3>1 DEF RunSound, CallsSound
    <3>3. used'[r] = used[r] /\ used[r] + call[r][d].cost <= paid[r]
        BY <3>1, <3>2 DEF RunSound, LoopSound
    <3>4. call[r][d].cost \in Nat /\ paid[r] \in Nat /\ used[r] \in Nat
        BY <1>1, Amounts DEF Calls, SpendTypeOK
    <3> QED BY <3>1, <3>3, <3>4
  <2> QED BY <2>1, <2>2
<1> QED BY <1>4, <1>5 DEF LoopSound

Within(x) == IF x.at \notin {None, "sent"} THEN 1 ELSE 0

LEMMA FewUnderWay ==
    /\ IsFiniteSet(UnderWay) /\ Cardinality(UnderWay) \in Nat
    /\ Cardinality(UnderWay) <= Width * Cardinality(Run)
<1>1. IsFiniteSet(Run) /\ IsFiniteSet(Conn)
    BY TokensAssumption
<1>2. IsFiniteSet(Run \X Conn) /\ Cardinality(Run \X Conn) = Cardinality(Run) * Cardinality(Conn)
    BY <1>1, FS_Product
<1>3. UnderWay \subseteq Run \X Conn
    BY DEF UnderWay
<1>4. IsFiniteSet(UnderWay) /\ Cardinality(UnderWay) <= Cardinality(Run \X Conn) /\ Cardinality(UnderWay) \in Nat
    BY <1>2, <1>3, FS_Subset, FS_CardinalityType
<1>5. Cardinality(Run) * Cardinality(Conn) = Width * Cardinality(Run)
    BY Amounts DEF Width
<1> QED BY <1>2, <1>4, <1>5

\* The month has room for every call there can be while it is not reached, and
\* for what was spent last.
LEMMA MonthOpen ==
    ASSUME month' \in Nat, month' < PerMonth + MaxCost
    PROVE  MonthSound'
<1>1. Cardinality(UnderWay') \in Nat /\ Cardinality(UnderWay') <= Width * Cardinality(Run)
  <2>1. IsFiniteSet(Run) /\ IsFiniteSet(Conn)
      BY TokensAssumption
  <2>2. IsFiniteSet(Run \X Conn) /\ Cardinality(Run \X Conn) = Cardinality(Run) * Cardinality(Conn)
      BY <2>1, FS_Product
  <2>3. UnderWay' \subseteq Run \X Conn
      BY DEF UnderWay
  <2>4. Cardinality(UnderWay') <= Cardinality(Run \X Conn) /\ Cardinality(UnderWay') \in Nat
      BY <2>2, <2>3, FS_Subset, FS_CardinalityType
  <2>5. Cardinality(Run) * Cardinality(Conn) = Width * Cardinality(Run)
      BY Amounts DEF Width
  <2> QED BY <2>2, <2>4, <2>5
<1> DEFINE n == Cardinality(UnderWay')
           most == Width * Cardinality(Run)
<1>2. most \in Nat /\ MaxCost \in Nat /\ PerMonth \in Nat
    BY Amounts
<1>3. MaxCost * n <= MaxCost * most
  <2>1. most - n \in Nat /\ n \in Nat
      BY <1>1, <1>2
  <2>2. MaxCost * (n + (most - n)) = MaxCost * n + MaxCost * (most - n)
      BY <1>2, <2>1
  <2>3. MaxCost * (most - n) \in Nat /\ MaxCost * n \in Nat
      BY <1>2, <2>1
  <2>4. n + (most - n) = most
      BY <1>2, <2>1
  <2> QED BY <2>2, <2>3, <2>4
<1>4. MaxCost * (1 + most) = MaxCost + MaxCost * most /\ MaxCost * most \in Nat /\ MaxCost * n \in Nat
    BY <1>1, <1>2
<1> HIDE DEF n, most
<1>5. month' + MaxCost * n < PerMonth + MaxCost * (1 + most)
    BY <1>2, <1>3, <1>4
<1> QED BY <1>5 DEF MonthSound, n, most, Width

LEMMA MonthKept ==
    ASSUME SpendTypeOK, NEW r \in Run, NEW c \in Conn, MonthSound, OnlyCall(r, c), month' \in Nat,
           month' + MaxCost * Within(call'[r][c]) <= month + MaxCost * Within(call[r][c])
    PROVE  MonthSound'
<1> DEFINE o == <<r, c>>
           n == Cardinality(UnderWay)
           x == call[r][c]
           y == call'[r][c]
<1>1. UnderWay' \ {o} = UnderWay \ {o}
  <2>1. ASSUME NEW p \in Run \X Conn, p # o PROVE call'[p[1]][p[2]] = call[p[1]][p[2]]
    <3>1. p = <<p[1], p[2]>> /\ p[1] \in Run /\ p[2] \in Conn
        OBVIOUS
    <3>2. p[1] # r \/ p[2] # c
        BY <2>1, <3>1
    <3> QED BY <3>1, <3>2 DEF OnlyCall
  <2> QED BY <2>1 DEF UnderWay
<1>2. Cardinality(UnderWay') = n + (IF o \in UnderWay' THEN 1 ELSE 0) - (IF o \in UnderWay THEN 1 ELSE 0)
    BY <1>1, FewUnderWay, ByOne
<1>3. (IF o \in UnderWay' THEN 1 ELSE 0) = Within(y) /\ (IF o \in UnderWay THEN 1 ELSE 0) = Within(x)
    BY DEF UnderWay, Within
<1>4. n \in Nat /\ MaxCost \in Nat /\ month \in Nat /\ Within(x) \in {0, 1} /\ Within(y) \in {0, 1}
    BY FewUnderWay, Amounts DEF Within, SpendTypeOK
<1>5. MaxCost * (n + Within(y) - Within(x)) = MaxCost * n + (MaxCost * Within(y) - MaxCost * Within(x))
    BY <1>4
<1>6. MaxCost * n \in Int /\ MaxCost * Within(y) \in Int /\ MaxCost * Within(x) \in Int
    BY <1>4, SMTT(30)
<1>7. month' + MaxCost * Cardinality(UnderWay') <= month + MaxCost * n
    BY <1>2, <1>3, <1>4, <1>5, <1>6
<1>8. month' + MaxCost * Cardinality(UnderWay') \in Int /\ month + MaxCost * n \in Int
      /\ PerMonth + MaxCost * (1 + Width * Cardinality(Run)) \in Int
    BY <1>2, <1>3, <1>4, Amounts
<1>9. month + MaxCost * n < PerMonth + MaxCost * (1 + Width * Cardinality(Run))
    BY DEF MonthSound
<1> QED BY <1>7, <1>8, <1>9 DEF MonthSound, Width

-----------------------------------------------------------------------------
(* What a step of one call comes to. *)

LEMMA CallStep ==
    ASSUME SpendSound, NEW r \in Run, NEW c \in Conn, SpendTypeOK', OnlyCall(r, c), OnlyRun(r),
           faults' \in {faults, faults + 1}, RunSound(r)', MonthSound'
    PROVE  SpendSound'
<1>1. ASSUME NEW q \in Run, q # r PROVE RunSound(q)'
  <2>1. SpendTypeOK /\ RunSound(q) /\ faults' \in Nat /\ faults' >= faults
      BY Amounts DEF SpendSound, SpendTypeOK
  <2>2. used'[q] = used[q] /\ paid'[q] = paid[q] /\ spent'[q] = spent[q] /\ budget'[q] = budget[q]
        /\ token'[q] = token[q] /\ loop'[q] = loop[q] /\ call'[q] = call[q]
      BY <1>1 DEF OnlyRun, OnlyCall
  <2>3. token[q] = None => loop'[q] \in {"queued", "gone"}
      BY <2>1, <2>2 DEF RunSound, CallsSound
  <2> QED BY <2>1, <2>2, <2>3, RunKept
<1> QED BY <1>1 DEF SpendSound

\* The places a loop may go to from where it is.
LoopMoved(r) ==
    /\ LoopTyped'
    /\ \A q \in Run \ {r} : loop'[q] = loop[q]
    /\ loop'[r] = loop[r] \/ loop'[r] # "queued"

LEMMA EndsMoves ==
    ASSUME SpendTypeOK, NEW r \in Run,
           NEW why \in {"submitted", "max_steps", "budget", "no_submit", "truncated", "error"}, Ends(r, why)
    PROVE  LoopMoved(r)
BY DEF SpendTypeOK, Ends, LoopMoved, LoopTyped

LEMMA GoesOnMoves ==
    ASSUME SpendTypeOK, NEW r \in Run, NEW to \in {"ready", "tool"}, GoesOn(r, to),
           to = "ready" => ~LastStep(r), nudged' \in [Run -> BOOLEAN]
    PROVE  LoopMoved(r)
<1>1. step[r] \in 0 .. MaxSteps - 1 /\ MaxSteps \in Nat \ {0} /\ MaxResends \in Nat
    BY Amounts DEF SpendTypeOK
<1>2. step' \in [Run -> 0 .. MaxSteps - 1]
  <2>1. step[r] # MaxSteps - 1 => step[r] + 1 \in 0 .. MaxSteps - 1
      BY <1>1
  <2>2. step' = [step EXCEPT ![r] = IF to = "ready" THEN step[r] + 1 ELSE step[r]]
      BY DEF GoesOn
  <2>3. to = "ready" => step[r] + 1 \in 0 .. MaxSteps - 1
      BY <2>1 DEF LastStep
  <2> QED BY <1>1, <2>2, <2>3 DEF SpendTypeOK
<1>3. again' \in [Run -> 0 .. MaxResends]
    BY <1>1 DEF SpendTypeOK, GoesOn
<1> QED BY <1>2, <1>3 DEF SpendTypeOK, GoesOn, LoopMoved, LoopTyped

LEMMA StaysMoves ==
    ASSUME SpendTypeOK, NEW r \in Run, UNCHANGED <<loop, stop, step, nudged, again>>
    PROVE  LoopMoved(r)
BY DEF SpendTypeOK, LoopMoved, LoopTyped

LEMMA ToolsMoves ==
    ASSUME SpendTypeOK, NEW r \in Run, ToolsDone(r)
    PROVE  LoopMoved(r)
<1>1. CASE LastStep(r)
  <2>1. Ends(r, "max_steps")
      BY <1>1 DEF ToolsDone
  <2> QED BY <2>1, EndsMoves
<1>2. CASE ~LastStep(r)
  <2>1. GoesOn(r, "ready") /\ nudged' = nudged
      BY <1>2 DEF ToolsDone
  <2>2. nudged' \in [Run -> BOOLEAN]
      BY <2>1 DEF SpendTypeOK
  <2> QED BY <1>2, <2>1, <2>2, GoesOnMoves
<1> QED BY <1>1, <1>2

LEMMA FailedMoves ==
    ASSUME SpendTypeOK, NEW r \in Run, NEW transient, Failed(r, transient)
    PROVE  LoopMoved(r)
<1>1. CASE transient /\ again[r] < MaxResends
  <2>1. again[r] \in 0 .. MaxResends /\ MaxResends \in Nat
      BY Amounts DEF SpendTypeOK
  <2>2. again[r] + 1 \in 0 .. MaxResends
      BY <1>1, <2>1
  <2>3. again' = [again EXCEPT ![r] = again[r] + 1]
      BY <1>1 DEF Failed
  <2>4. again' \in [Run -> 0 .. MaxResends]
      BY <2>2, <2>3 DEF SpendTypeOK
  <2> QED BY <1>1, <2>4 DEF Failed, SpendTypeOK, LoopMoved, LoopTyped
<1>2. CASE ~(transient /\ again[r] < MaxResends)
  <2>1. Ends(r, "error")
      BY <1>2 DEF Failed
  <2> QED BY <2>1, EndsMoves
<1> QED BY <1>1, <1>2

LEMMA HandleMoves ==
    ASSUME SpendTypeOK, NEW r \in Run, NEW outcome \in Outcome, Handle(r, outcome)
    PROVE  LoopMoved(r)
<1>1. \/ Ends(r, "submitted") \/ Ends(r, "truncated") \/ Ends(r, "no_submit") \/ Ends(r, "max_steps")
      \/ GoesOn(r, "tool") /\ UNCHANGED nudged
      \/ ~LastStep(r) /\ GoesOn(r, "ready") /\ nudged' = [nudged EXCEPT ![r] = @ \/ outcome = "text"]
    BY DEF Handle, Outcome
<1>2. CASE Ends(r, "submitted") \/ Ends(r, "truncated") \/ Ends(r, "no_submit") \/ Ends(r, "max_steps")
    BY <1>2, EndsMoves
<1>3. CASE GoesOn(r, "tool") /\ UNCHANGED nudged
  <2>1. nudged' \in [Run -> BOOLEAN]
      BY <1>3 DEF SpendTypeOK
  <2> QED BY <1>3, <2>1, GoesOnMoves
<1>4. CASE ~LastStep(r) /\ GoesOn(r, "ready") /\ nudged' = [nudged EXCEPT ![r] = @ \/ outcome = "text"]
  <2>1. nudged' \in [Run -> BOOLEAN]
      BY <1>4 DEF SpendTypeOK
  <2> QED BY <1>4, <2>1, GoesOnMoves
<1> QED BY <1>1, <1>2, <1>3, <1>4

LEMMA RefusedMoves ==
    ASSUME SpendTypeOK, NEW r \in Run, NEW c \in Conn, NEW why, Refused(r, c, why)
    PROVE  LoopMoved(r) /\ call' = [call EXCEPT ![r][c] = NoCall]
<1>1. CASE ~call[r][c].heard
    BY <1>1, StaysMoves DEF Refused
<1>2. CASE call[r][c].heard /\ ~call[r][c].chat
    BY <1>2, ToolsMoves DEF Refused
<1>3. CASE call[r][c].heard /\ call[r][c].chat /\ why = "budget"
    BY <1>3, EndsMoves DEF Refused
<1>4. CASE call[r][c].heard /\ call[r][c].chat /\ why # "budget"
    BY <1>4, FailedMoves DEF Refused
<1> QED BY <1>1, <1>2, <1>3, <1>4 DEF Refused

-----------------------------------------------------------------------------
(* The gateway's steps. *)

\* A call is of a run that has its token, and only an answer has cost.
LEMMA CallThere ==
    ASSUME SpendSound, NEW r \in Run, NEW c \in Conn, call[r][c].at # None \/ call[r][c].heard
    PROVE  /\ SpendTypeOK /\ RunSound(r) /\ MonthSound
           /\ token[r] # None /\ loop[r] # "queued" /\ call[r][c] \in Calls
           /\ call[r][c].at \notin {"answered", "charged"} => call[r][c].cost = 0
           /\ call[r][c].at = "answered" => call[r][c].cost \in Cost
           /\ used[r] <= paid[r] /\ (call[r][c].heard => used[r] + call[r][c].cost <= paid[r])
           /\ used[r] \in Nat /\ paid[r] \in Nat /\ spent[r] \in Nat /\ month \in Nat /\ faults \in Nat
           /\ call[r][c].cost \in Nat
<1>1. SpendTypeOK /\ RunSound(r) /\ MonthSound
    BY DEF SpendSound
<1>2. call[r] # [d \in Conn |-> NoCall]
    BY DEF NoCall, None
<1>3. call[r][c] \in Calls
    BY <1>1 DEF SpendTypeOK, Calls
<1>4. call[r][c].cost \in Nat
    BY <1>3, Amounts DEF Calls
<1> QED BY <1>1, <1>2, <1>3, <1>4, Amounts DEF RunSound, CallsSound, LoopSound, SpendTypeOK

LEMMA Becoming ==
    ASSUME SpendTypeOK, NEW r \in Run, NEW c \in Conn, NEW x \in Calls, call' = [call EXCEPT ![r][c] = x]
    PROVE  OnlyCall(r, c) /\ call'[r][c] = x
BY DEF SpendTypeOK, OnlyCall, Calls

LEMMA NoCallIsOne == NoCall \in Calls
BY DEF NoCall, Calls, None

LEMMA DropKept ==
    ASSUME SpendSound, NEW r \in Run, NEW c \in Conn, call[r][c].at # None, LoopMoved(r),
           call' = [call EXCEPT ![r][c] = NoCall], UNCHANGED <<month, tokenVars, used, row, paid>>,
           (faults' = faults /\ Holds(call[r][c]) = 0) \/ Fault
    PROVE  SpendSound'
<1> DEFINE x == call[r][c]
<1>1. /\ SpendTypeOK /\ RunSound(r) /\ MonthSound
      /\ token[r] # None /\ loop[r] # "queued" /\ x \in Calls
      /\ x.at \notin {"answered", "charged"} => x.cost = 0
      /\ x.at = "answered" => x.cost \in Cost
      /\ used[r] <= paid[r] /\ used[r] \in Nat /\ paid[r] \in Nat /\ spent[r] \in Nat /\ month \in Nat /\ faults \in Nat
    BY CallThere
<1>2. OnlyCall(r, c) /\ call'[r][c] = NoCall
    BY <1>1, NoCallIsOne, Becoming
<1>3. faults' \in {faults, faults + 1} /\ faults' \in 0 .. MaxSpendFaults
    BY <1>1, Amounts DEF Fault, SpendTypeOK
<1>4. UNCHANGED <<month, token, budget, spent, used, row, paid>>
    BY DEF tokenVars
<1>5. SpendTypeOK'
    BY <1>1, <1>2, <1>3, <1>4 DEF SpendTypeOK, LoopMoved, LoopTyped, OnlyCall, Calls
<1>6. OnlyRun(r)
    BY <1>4 DEF OnlyRun, LoopMoved
<1>7. Holds(NoCall) = 0 /\ Asks(NoCall) = 0 /\ Due(NoCall) = 0 /\ Within(NoCall) = 0 /\ NoCall.at = None
      /\ ~NoCall.heard /\ NoCall.cost = 0
    BY DEF Holds, Asks, Due, Within, NoCall, None
<1>8. CallsSound(r)' /\ LoopSound(r)'
  <2>1. loop'[r] # "queued"
      BY <1>1 DEF LoopMoved
  <2> QED BY <1>1, <1>2, <1>4, <1>7, <2>1, CallHeld DEF None
<1>9. Estimate \in Nat /\ Under \in Nat /\ MaxCost \in Nat /\ Holds(x) \in {0, 1} /\ Asks(x) \in {0, 1}
      /\ Within(x) \in {0, 1} /\ Due(x) \in Nat /\ Due(x) <= Estimate * Holds(x) + Under
      /\ (Holds(x) = 0 => Due(x) = 0)
    BY <1>1, Amounts DEF Holds, Asks, Within, Due
<1>10. BookSound(r)'
  <2>1. Estimate * Holds(NoCall) = 0 /\ Estimate * Holds(x) \in Nat /\ (Holds(x) = 0 => Estimate * Holds(x) = 0)
      BY <1>7, <1>9
  <2>2. spent'[r] - spent[r] = 0 /\ paid'[r] - paid[r] = 0 /\ spent'[r] \in Nat /\ paid'[r] \in Nat /\ token'[r] = token[r]
      BY <1>1, <1>4
  <2>3. spent'[r] - spent[r] >= Estimate * Holds(NoCall) - Estimate * Holds(x)
      BY <2>1, <2>2
  <2> DEFINE more == (paid'[r] - paid[r]) + (Estimate * Holds(NoCall) - Estimate * Holds(x)) - (Due(NoCall) - Due(x))
  <2>4. more = spent'[r] - spent[r] \/ (faults' # faults /\ more <= spent'[r] - spent[r] + Under)
    <3>1. more = Due(x) - Estimate * Holds(x)
        BY <1>7, <1>9, <2>1, <2>2
    <3>2. CASE faults' = faults /\ Holds(x) = 0
        BY <1>9, <2>1, <2>2, <3>1, <3>2
    <3>3. CASE Fault
      <4>1. faults' # faults
          BY <1>1, <3>3 DEF Fault
      <4> QED BY <1>9, <2>1, <2>2, <3>1, <4>1
    <3> QED BY <3>2, <3>3
  <2> QED BY <1>1, <1>2, <1>3, <2>2, <2>3, <2>4, CallBooked
<1>11. LimitSound(r)'
  <2>1. paid'[r] + MaxCost * Asks(NoCall) <= paid[r] + MaxCost * Asks(x)
      BY <1>1, <1>4, <1>7, <1>9
  <2>2. paid'[r] \in Nat /\ token'[r] = token[r] /\ budget'[r] = budget[r]
      BY <1>1, <1>4
  <2> QED BY <1>1, <1>2, <1>3, <2>1, <2>2, CallLimited
<1>12. MonthSound'
  <2>1. month' + MaxCost * Within(NoCall) <= month + MaxCost * Within(x)
      BY <1>1, <1>4, <1>7, <1>9
  <2>2. month' \in Nat
      BY <1>1, <1>4
  <2> QED BY <1>1, <1>2, <2>1, <2>2, MonthKept
<1> QED BY <1>2, <1>3, <1>5, <1>6, <1>8, <1>10, <1>11, <1>12, CallStep DEF RunSound

\* A call that goes on to another place.
LEMMA AtBecomes ==
    ASSUME SpendTypeOK, NEW r \in Run, NEW c \in Conn, NEW from, NEW to \in {"admitted", "asking", "failed", "charged"},
           At(r, c, from, to)
    PROVE  /\ OnlyCall(r, c) /\ call'[r][c].at = to /\ call'[r][c].cost = call[r][c].cost
           /\ call'[r][c].heard = call[r][c].heard /\ call'[r][c] \in Calls /\ call[r][c].at = from
<1> DEFINE x == [call[r][c] EXCEPT !.at = to]
<1>1. call[r][c] \in Calls
    BY DEF SpendTypeOK, Calls
<1>2. x \in Calls /\ x.at = to /\ x.cost = call[r][c].cost /\ x.heard = call[r][c].heard
    BY <1>1 DEF Calls
<1>3. call' = [call EXCEPT ![r][c] = x] /\ call[r][c].at = from
    BY DEF At
<1> HIDE DEF x
<1>4. OnlyCall(r, c) /\ call'[r][c] = x
    BY <1>2, <1>3, Becoming
<1> QED BY <1>2, <1>3, <1>4

LEMMA AuthorizeKept ==
    ASSUME SpendSound, NEW r \in Run, NEW c \in Conn, Authorize(r, c)
    PROVE  SpendSound'
<1>1. call[r][c].at = "sent" /\ call[r][c].at # None /\ SpendTypeOK
    BY DEF Authorize, At, None, SpendSound
<1>2. UNCHANGED <<month, token, budget, spent, paid, faults, used, row>>
    BY DEF Authorize, tokenVars, loopVars
<1>3. CASE ~(token[r] = "live" /\ ~Capped)
  <2>1. PICK why : Refused(r, c, why)
      BY <1>3 DEF Authorize
  <2>2. LoopMoved(r) /\ call' = [call EXCEPT ![r][c] = NoCall]
      BY <1>1, <2>1, RefusedMoves
  <2>3. Holds(call[r][c]) = 0
      BY <1>1 DEF Holds
  <2> QED BY <1>1, <1>2, <2>2, <2>3, DropKept DEF tokenVars
<1>4. CASE token[r] = "live" /\ ~Capped
  <2>0. At(r, c, "sent", "admitted") /\ UNCHANGED <<loop, step, nudged, again, stop>>
      BY <1>4 DEF Authorize, loopVars
  <2> DEFINE x == call[r][c]
             y == call'[r][c]
  <2>1. /\ SpendTypeOK /\ RunSound(r) /\ MonthSound /\ token[r] # None /\ loop[r] # "queued" /\ x.cost = 0
        /\ used[r] <= paid[r] /\ used[r] \in Nat /\ paid[r] \in Nat /\ spent[r] \in Nat /\ month \in Nat /\ faults \in Nat
      BY <1>1, CallThere DEF None
  <2>2. /\ OnlyCall(r, c) /\ y.at = "admitted" /\ y.cost = 0 /\ y.heard = x.heard /\ y \in Calls
      BY <2>0, <2>1, AtBecomes
  <2>3. SpendTypeOK'
      BY <1>2, <2>0, <2>1, <2>2 DEF SpendTypeOK, OnlyCall, Calls
  <2>4. OnlyRun(r)
      BY <1>2, <2>0 DEF OnlyRun
  <2>5. CallsSound(r)' /\ LoopSound(r)'
      BY <1>2, <2>0, <2>1, <2>2, CallHeld
  <2>6. Holds(x) = 0 /\ Holds(y) = 0 /\ Asks(x) = 0 /\ Asks(y) = 0 /\ Due(x) = 0 /\ Due(y) = 0
      BY <1>1, <2>2 DEF Holds, Asks, Due
  <2>7. Estimate \in Nat /\ MaxCost \in Nat /\ PerMonth \in Nat
      BY Amounts
  <2>8. BookSound(r)'
      BY <1>2, <2>1, <2>2, <2>6, <2>7, CallBooked
  <2>9. LimitSound(r)'
      BY <1>2, <2>1, <2>2, <2>6, <2>7, CallLimited
  <2>10. MonthSound'
    <3>1. month' \in Nat /\ month' < PerMonth + MaxCost
        BY <1>2, <1>4, <2>1, Amounts DEF Capped
    <3> QED BY <3>1, MonthOpen
  <2> QED BY <1>2, <2>2, <2>3, <2>4, <2>5, <2>8, <2>9, <2>10, CallStep DEF RunSound
<1> QED BY <1>3, <1>4

LEMMA NoDatabaseKept ==
    ASSUME SpendSound, NEW r \in Run, NEW c \in Conn, NoDatabase(r, c)
    PROVE  SpendSound'
<1>1. call[r][c].at # None /\ SpendTypeOK
    BY DEF NoDatabase, None, SpendSound
<1>2. LoopMoved(r) /\ call' = [call EXCEPT ![r][c] = NoCall]
    BY <1>1, RefusedMoves DEF NoDatabase
<1> QED BY <1>1, <1>2, DropKept DEF NoDatabase

LEMMA GatewayDiesKept ==
    ASSUME SpendSound, NEW r \in Run, NEW c \in Conn, GatewayDies(r, c)
    PROVE  SpendSound'
<1>1. call[r][c].at # None /\ SpendTypeOK
    BY DEF GatewayDies, SpendSound
<1>2. LoopMoved(r)
  <2>1. CASE ~call[r][c].heard
      BY <1>1, <2>1, StaysMoves DEF GatewayDies
  <2>2. CASE call[r][c].heard /\ call[r][c].chat
      BY <1>1, <2>2, FailedMoves DEF GatewayDies
  <2>3. CASE call[r][c].heard /\ ~call[r][c].chat
      BY <1>1, <2>3, ToolsMoves DEF GatewayDies
  <2> QED BY <2>1, <2>2, <2>3
<1> QED BY <1>1, <1>2, DropKept DEF GatewayDies

\* What is left of the budget before a call is reserved bounds what the calls
\* that are asked for may come to with it.
LEMMA RoomToReserve ==
    ASSUME SpendSound, NEW r \in Run, NEW c \in Conn, call[r][c].at = "admitted", Reservable(r)
    PROVE  paid[r] + MaxCost * (Cardinality(Asking(call[r])) + 1) < budget[r] + MaxCost + Under * (Width - 1 + faults)
<1> DEFINE f   == call[r]
           ask == Cardinality(Asking(f))
           res == Cardinality(Reserved(f))
           due == Cardinality(Unsettled(f))
<1>1. SpendTypeOK /\ RunSound(r) /\ f \in [Conn -> Calls] /\ token[r] = "live" /\ spent[r] < budget[r]
    BY DEF SpendSound, SpendTypeOK, Calls, Reservable
<1>2. c \notin Reserved(f)
    BY DEF Reserved
<1>3. \A d \in Conn : f[d].at = "answered" => f[d].cost \in Cost
    BY <1>1 DEF RunSound, CallsSound
<1>4. PICK a \in Nat : due <= a * (Estimate + Under) /\ ask + a <= res /\ ask + a <= Width - 1
    BY <1>1, <1>2, <1>3, CallsBounded
<1>5. paid[r] + Estimate * res - due <= spent[r] + Under * faults
    BY <1>1 DEF RunSound, BookSound, Booked
<1>6. /\ ask \in Nat /\ res \in Nat /\ due \in Nat /\ paid[r] \in Nat /\ spent[r] \in Nat /\ budget[r] \in Nat
      /\ faults \in Nat /\ Estimate \in Nat /\ Under \in Nat /\ MaxCost \in Nat /\ Width \in Nat
      /\ MaxCost <= Estimate + Under
    BY <1>1, Amounts, FewCalls DEF SpendTypeOK
<1> HIDE DEF f, ask, res, due
<1>7. Estimate * (ask + a) <= Estimate * res
  <2>1. res - (ask + a) \in Nat
      BY <1>4, <1>6
  <2>2. Estimate * (res - (ask + a)) \in Nat
      BY <1>6, <2>1
  <2>3. Estimate * res = Estimate * (ask + a) + Estimate * (res - (ask + a))
      BY <1>6
  <2>4. Estimate * (ask + a) \in Int /\ Estimate * res \in Int
      BY <1>6
  <2> QED BY <2>2, <2>3, <2>4
<1>8. Under * (ask + a) <= Under * (Width - 1)
  <2>1. (Width - 1) - (ask + a) \in Nat
      BY <1>4, <1>6
  <2>2. Under * ((Width - 1) - (ask + a)) \in Nat
      BY <1>6, <2>1
  <2>3. Under * (Width - 1) = Under * (ask + a) + Under * ((Width - 1) - (ask + a))
      BY <1>6
  <2>4. Under * (ask + a) \in Int /\ Under * (Width - 1) \in Int
      BY <1>6
  <2> QED BY <2>2, <2>3, <2>4
<1>9. MaxCost * ask <= (Estimate + Under) * ask
  <2>1. (Estimate + Under) - MaxCost \in Nat
      BY <1>6
  <2>2. ((Estimate + Under) - MaxCost) * ask \in Nat
      BY <1>6, <2>1
  <2>3. (Estimate + Under) * ask = MaxCost * ask + ((Estimate + Under) - MaxCost) * ask
      BY <1>6
  <2>4. MaxCost * ask \in Int /\ (Estimate + Under) * ask \in Int
      BY <1>6
  <2> QED BY <2>2, <2>3, <2>4
<1>10. /\ Estimate * (ask + a) = Estimate * ask + Estimate * a
       /\ Under * (ask + a) = Under * ask + Under * a
       /\ a * (Estimate + Under) = Estimate * a + Under * a
       /\ (Estimate + Under) * ask = Estimate * ask + Under * ask
       /\ MaxCost * (ask + 1) = MaxCost * ask + MaxCost
       /\ Under * (Width - 1 + faults) = Under * (Width - 1) + Under * faults
    BY <1>4, <1>6
<1> DEFINE ea == Estimate * ask
           eb == Estimate * a
           ua == Under * ask
           ub == Under * a
           er == Estimate * res
           ma == MaxCost * ask
           uf == Under * faults
           uw == Under * (Width - 1)
<1>11. /\ ea \in Int /\ eb \in Int /\ ua \in Int /\ ub \in Int /\ er \in Int /\ ma \in Int /\ uf \in Int /\ uw \in Int
    BY <1>4, <1>6
<1>12. /\ ea + eb <= er /\ ua + ub <= uw /\ ma <= ea + ua /\ due <= eb + ub
       /\ paid[r] + er - due <= spent[r] + uf /\ spent[r] < budget[r]
    BY <1>1, <1>4, <1>5, <1>7, <1>8, <1>9, <1>10
<1> HIDE DEF ea, eb, ua, ub, er, ma, uf, uw
<1>13. paid[r] + (ma + MaxCost) < budget[r] + MaxCost + (uw + uf)
    BY <1>6, <1>11, <1>12
<1> QED BY <1>10, <1>13 DEF ma, uw, uf, ask, f

LEMMA ReserveKept ==
    ASSUME SpendSound, NEW r \in Run, NEW c \in Conn, Reserve(r, c)
    PROVE  SpendSound'
<1>1. call[r][c].at = "admitted" /\ call[r][c].at # None /\ SpendTypeOK
    BY DEF Reserve, At, None, SpendSound
<1>2. UNCHANGED <<month, token, budget, paid, faults, used, row>>
    BY DEF Reserve, loopVars
<1>3. CASE ~Reservable(r)
  <2>1. Refused(r, c, "budget") /\ UNCHANGED spent
      BY <1>3 DEF Reserve
  <2>2. LoopMoved(r) /\ call' = [call EXCEPT ![r][c] = NoCall]
      BY <1>1, <2>1, RefusedMoves
  <2>3. Holds(call[r][c]) = 0
      BY <1>1 DEF Holds
  <2> QED BY <1>1, <1>2, <2>1, <2>2, <2>3, DropKept DEF tokenVars
<1>4. CASE Reservable(r)
  <2>0. /\ At(r, c, "admitted", "asking") /\ spent' = [spent EXCEPT ![r] = spent[r] + Estimate]
        /\ UNCHANGED <<loop, step, nudged, again, stop>>
      BY <1>4 DEF Reserve, loopVars
  <2> DEFINE x == call[r][c]
             y == call'[r][c]
  <2>1. /\ SpendTypeOK /\ RunSound(r) /\ MonthSound /\ token[r] # None /\ loop[r] # "queued" /\ x.cost = 0
        /\ used[r] <= paid[r] /\ used[r] \in Nat /\ paid[r] \in Nat /\ spent[r] \in Nat /\ month \in Nat /\ faults \in Nat
      BY <1>1, CallThere DEF None
  <2>2. /\ OnlyCall(r, c) /\ y.at = "asking" /\ y.cost = 0 /\ y.heard = x.heard /\ y \in Calls
      BY <2>0, <2>1, AtBecomes
  <2>7. Estimate \in Nat /\ MaxCost \in Nat /\ PerMonth \in Nat
      BY Amounts
  <2>3. spent' \in [Run -> Nat] /\ spent'[r] = spent[r] + Estimate /\ \A q \in Run \ {r} : spent'[q] = spent[q]
      BY <2>0, <2>1, <2>7 DEF SpendTypeOK
  <2>4. SpendTypeOK'
      BY <1>2, <2>0, <2>1, <2>2, <2>3 DEF SpendTypeOK, OnlyCall, Calls
  <2>5. OnlyRun(r)
      BY <1>2, <2>0, <2>3 DEF OnlyRun
  <2>6. CallsSound(r)' /\ LoopSound(r)'
      BY <1>2, <2>0, <2>1, <2>2, CallHeld
  <2>8. Holds(x) = 0 /\ Holds(y) = 1 /\ Asks(x) = 0 /\ Asks(y) = 1 /\ Due(x) = 0 /\ Due(y) = 0
        /\ Within(x) = 1 /\ Within(y) = 1
      BY <1>1, <2>2 DEF Holds, Asks, Due, Within, None
  <2>9. BookSound(r)'
    <3>1. Estimate * Holds(y) = Estimate /\ Estimate * Holds(x) = 0 /\ spent'[r] - spent[r] = Estimate
          /\ paid'[r] - paid[r] = 0 /\ paid'[r] \in Nat /\ spent'[r] \in Nat /\ token'[r] = token[r] /\ faults' = faults
        BY <1>2, <2>1, <2>3, <2>7, <2>8
    <3>2. (paid'[r] - paid[r]) + (Estimate * Holds(y) - Estimate * Holds(x)) - (Due(y) - Due(x)) = spent'[r] - spent[r]
        BY <2>7, <2>8, <3>1
    <3>3. spent'[r] - spent[r] >= Estimate * Holds(y) - Estimate * Holds(x)
        BY <2>7, <3>1
    <3> QED BY <2>1, <2>2, <3>1, <3>2, <3>3, CallBooked
  <2>10. LimitSound(r)'
    <3>1. Cardinality(Asking(call'[r])) = Cardinality(Asking(call[r])) + 1
      <4>1. call[r] \in [Conn -> Calls] /\ call'[r] \in [Conn -> Calls] /\ \A d \in Conn \ {c} : call'[r][d] = call[r][d]
          BY <2>1, <2>2 DEF SpendTypeOK, Calls, OnlyCall
      <4>2. Cardinality(Asking(call'[r])) = Cardinality(Asking(call[r])) + Asks(y) - Asks(x)
          BY <4>1, OneCall
      <4>3. Cardinality(Asking(call[r])) \in Nat
          BY FewCalls
      <4> QED BY <2>8, <4>2, <4>3
    <3>2. paid[r] + MaxCost * (Cardinality(Asking(call[r])) + 1) < budget[r] + MaxCost + Under * (Width - 1 + faults)
        BY <1>1, <1>4, RoomToReserve
    <3>3. paid'[r] = paid[r] /\ budget'[r] = budget[r] /\ faults' = faults /\ Asking(call[r])' = Asking(call'[r])
        BY <1>2 DEF Asking
    <3> QED BY <3>1, <3>2, <3>3 DEF LimitSound
  <2>11. MonthSound'
      BY <1>2, <2>1, <2>2, <2>7, <2>8, MonthKept
  <2> QED BY <1>2, <2>2, <2>4, <2>5, <2>6, <2>9, <2>10, <2>11, CallStep DEF RunSound
<1> QED BY <1>3, <1>4

LEMMA AskKept ==
    ASSUME SpendSound, NEW r \in Run, NEW c \in Conn, Ask(r, c)
    PROVE  SpendSound'
<1>1. call[r][c].at = "asking" /\ call[r][c].at # None
    BY DEF Ask, None
<1>2. UNCHANGED <<month, token, budget, spent, faults, used, row, loop, step, nudged, again, stop>>
    BY DEF Ask, loopVars, tokenVars
<1> DEFINE x == call[r][c]
           y == call'[r][c]
<1>3. /\ SpendTypeOK /\ RunSound(r) /\ MonthSound /\ token[r] # None /\ loop[r] # "queued" /\ x.cost = 0 /\ x \in Calls
      /\ used[r] <= paid[r] /\ used[r] \in Nat /\ paid[r] \in Nat /\ spent[r] \in Nat /\ month \in Nat /\ faults \in Nat
      /\ (x.heard => used[r] + x.cost <= paid[r])
    BY <1>1, CallThere
<1> DEFINE Comes(n) == /\ OnlyCall(r, c) /\ paid' = [paid EXCEPT ![r] = paid[r] + n] /\ y.heard = x.heard /\ y \in Calls
                       /\ y.cost = n /\ ((y.at = "answered" /\ n \in Cost) \/ (y.at = "failed" /\ n = 0))
<1>4. \E n \in Nat : Comes(n)
  <2>1. CASE \E z \in Cost : /\ call' = [call EXCEPT ![r][c].at = "answered", ![r][c].cost = z]
                             /\ paid' = [paid EXCEPT ![r] = @ + z]
    <3>1. PICK z \in Cost : /\ call' = [call EXCEPT ![r][c].at = "answered", ![r][c].cost = z]
                            /\ paid' = [paid EXCEPT ![r] = paid[r] + z]
        BY <2>1
    <3> DEFINE w == [x EXCEPT !.at = "answered", !.cost = z]
    <3>2. w \in Calls /\ w.at = "answered" /\ w.cost = z /\ w.heard = x.heard
        BY <1>3 DEF Calls
    <3>3. call' = [call EXCEPT ![r][c] = w]
        BY <1>3, <3>1 DEF SpendTypeOK
    <3> HIDE DEF w
    <3>4. OnlyCall(r, c) /\ y = w
        BY <1>3, <3>2, <3>3, Becoming
    <3>5. z \in Nat
        BY Amounts
    <3>6. Comes(z)
      <4>1. y.heard = x.heard /\ y \in Calls /\ y.cost = z /\ y.at = "answered" /\ z \in Cost
          BY <3>2, <3>4
      <4>2. OnlyCall(r, c) /\ paid' = [paid EXCEPT ![r] = paid[r] + z]
          BY <3>1, <3>4
      <4> HIDE DEF x, y
      <4> QED BY <4>1, <4>2
    <3> HIDE DEF Comes
    <3> QED BY <3>5, <3>6
  <2>2. CASE At(r, c, "asking", "failed") /\ UNCHANGED paid
    <3>1. OnlyCall(r, c) /\ y.at = "failed" /\ y.cost = 0 /\ y.heard = x.heard /\ y \in Calls
        BY <1>3, <2>2, AtBecomes
    <3>2. paid[r] + 0 = paid[r]
        BY <1>3
    <3>3. paid' = [paid EXCEPT ![r] = paid[r] + 0]
      <4>1. [paid EXCEPT ![r] = paid[r]] = paid
          BY <1>3 DEF SpendTypeOK
      <4> QED BY <2>2, <3>2, <4>1
    <3>4. Comes(0)
        BY <3>1, <3>3
    <3> HIDE DEF Comes
    <3> QED BY <3>4
  <2> QED BY <2>1, <2>2 DEF Ask
<1>5. PICK n \in Nat : Comes(n)
    BY <1>4
<1>6. paid' \in [Run -> Nat] /\ paid'[r] = paid[r] + n /\ \A q \in Run \ {r} : paid'[q] = paid[q]
    BY <1>3, <1>5 DEF SpendTypeOK
<1>7. SpendTypeOK'
    BY <1>2, <1>3, <1>5, <1>6 DEF SpendTypeOK, OnlyCall, Calls
<1>8. OnlyRun(r)
    BY <1>2, <1>6 DEF OnlyRun
<1>9. Estimate \in Nat /\ MaxCost \in Nat /\ n <= MaxCost
    BY <1>5, Amounts
<1>10. CallsSound(r)' /\ LoopSound(r)'
  <2>1. /\ paid'[r] \in Nat /\ used'[r] = used[r] /\ paid'[r] >= paid[r] /\ used'[r] <= paid'[r]
        /\ token'[r] = token[r] /\ loop'[r] # "queued" /\ used'[r] \in Nat
      BY <1>2, <1>3, <1>6
  <2>2. /\ y.at \notin {"answered", "charged"} => y.cost = 0
        /\ y.at = "answered" => y.cost \in Cost
        /\ y.heard => x.heard
        /\ y.heard => used'[r] + y.cost <= paid'[r]
    <3>1. used[r] + n <= paid[r] + n
        BY <1>3
    <3> QED BY <1>2, <1>5, <1>6, <3>1
  <2> QED BY <1>3, <1>5, <2>1, <2>2, CallHeld
<1>11. /\ Holds(x) = 1 /\ Holds(y) = 1 /\ Asks(x) = 1 /\ Asks(y) = 0 /\ Due(x) = 0 /\ Due(y) = n
       /\ Within(x) = 1 /\ Within(y) = 1
    BY <1>1, <1>5 DEF Holds, Asks, Due, Within, None
<1>12. BookSound(r)'
  <2>1. paid'[r] - paid[r] = n /\ spent'[r] - spent[r] = 0 /\ Estimate * 1 - Estimate * 1 = 0
      BY <1>2, <1>3, <1>6, <1>9
  <2>2. (paid'[r] - paid[r]) + (Estimate * Holds(y) - Estimate * Holds(x)) - (Due(y) - Due(x)) = spent'[r] - spent[r]
      BY <1>11, <2>1
  <2>3. spent'[r] - spent[r] >= Estimate * Holds(y) - Estimate * Holds(x)
      BY <1>11, <2>1
  <2>4. paid'[r] \in Nat /\ spent'[r] \in Nat /\ token'[r] = token[r] /\ faults' = faults
      BY <1>2, <1>3, <1>6
  <2> QED BY <1>3, <1>5, <2>2, <2>3, <2>4, CallBooked
<1>13. LimitSound(r)'
  <2>1. paid'[r] + MaxCost * Asks(y) <= paid[r] + MaxCost * Asks(x)
      BY <1>3, <1>6, <1>9, <1>11
  <2>2. paid'[r] \in Nat /\ token'[r] = token[r] /\ budget'[r] = budget[r] /\ faults' = faults
      BY <1>2, <1>3, <1>6
  <2> QED BY <1>3, <1>5, <2>1, <2>2, CallLimited
<1>14. MonthSound'
    BY <1>2, <1>3, <1>5, <1>9, <1>11, MonthKept
<1> QED BY <1>2, <1>5, <1>7, <1>8, <1>10, <1>12, <1>13, <1>14, CallStep DEF RunSound

\* A call answered or failed has its reservation among the run's spend.
LEMMA ReservedIsSpent ==
    ASSUME SpendSound, NEW r \in Run, NEW c \in Conn, c \in Reserved(call[r]), token[r] # "revoked"
    PROVE  spent[r] >= Estimate
<1> DEFINE res == Cardinality(Reserved(call[r]))
<1>1. IsFiniteSet(Reserved(call[r])) /\ res \in Nat
    BY FewCalls
<1>2. res # 0
    BY <1>1, FS_EmptySet
<1>3. Estimate \in Nat /\ spent[r] \in Nat /\ spent[r] >= Estimate * res
    BY Amounts DEF SpendSound, SpendTypeOK, RunSound, BookSound
<1> HIDE DEF res
<1>4. Estimate * res = Estimate + Estimate * (res - 1) /\ Estimate * (res - 1) \in Nat
    BY <1>1, <1>2, <1>3
<1> QED BY <1>3, <1>4

LEMMA ChargeKept ==
    ASSUME SpendSound, NEW r \in Run, NEW c \in Conn, Charge(r, c)
    PROVE  SpendSound'
<1> DEFINE x == call[r][c]
           y == call'[r][c]
<1>1. x.at \in {"answered", "failed"} /\ x.at # None
    BY DEF Charge, None
<1>2. UNCHANGED <<month, token, budget, paid, used, row, loop, step, nudged, again, stop>>
    BY DEF Charge, loopVars
<1>3. /\ SpendTypeOK /\ RunSound(r) /\ MonthSound /\ token[r] # None /\ loop[r] # "queued" /\ x \in Calls
      /\ used[r] <= paid[r] /\ used[r] \in Nat /\ paid[r] \in Nat /\ spent[r] \in Nat /\ month \in Nat /\ faults \in Nat
      /\ (x.heard => used[r] + x.cost <= paid[r]) /\ x.cost \in Nat
      /\ (x.at = "failed" => x.cost = 0) /\ (x.at = "answered" => x.cost \in Cost)
    BY <1>1, CallThere
<1>4. OnlyCall(r, c) /\ y.at = "charged" /\ y.cost = x.cost /\ y.heard = x.heard /\ y \in Calls
  <2>1. At(r, c, x.at, "charged")
      BY DEF Charge, At
  <2> QED BY <1>3, <2>1, AtBecomes
<1>5. Estimate \in Nat /\ MaxCost \in Nat /\ Under \in Nat /\ x.cost <= Estimate + Under
    BY <1>1, <1>3, Amounts
<1>6. faults' \in {faults, faults + 1} /\ faults' \in 0 .. MaxSpendFaults
    BY <1>3, Amounts DEF Charge, Fault, SpendTypeOK
<1>7. /\ spent' \in [Run -> Nat] /\ \A q \in Run \ {r} : spent'[q] = spent[q]
      /\ \/ token[r] = "revoked"
         \/ spent'[r] = spent[r] + x.cost - Estimate
         \/ spent'[r] = spent[r] /\ faults' # faults
  <2>1. CASE spent' = IF token[r] = "revoked" THEN spent ELSE [spent EXCEPT ![r] = Settled(r, c)]
    <3>1. CASE token[r] = "revoked"
        BY <1>3, <2>1, <3>1 DEF SpendTypeOK
    <3>2. CASE token[r] # "revoked"
      <4>1. c \in Reserved(call[r])
          BY <1>1 DEF Reserved
      <4>2. spent[r] >= Estimate
          BY <3>2, <4>1, ReservedIsSpent
      <4>3. spent[r] + x.cost - Estimate \in Nat
          BY <1>3, <1>5, <4>2
      <4>4. spent' = [spent EXCEPT ![r] = spent[r] + x.cost - Estimate]
          BY <2>1, <3>2 DEF Settled
      <4> QED BY <1>3, <4>3, <4>4 DEF SpendTypeOK
    <3> QED BY <3>1, <3>2
  <2>2. CASE Fault /\ UNCHANGED spent
    <3>1. faults' # faults
        BY <1>3, <2>2 DEF Fault
    <3> QED BY <1>3, <2>2, <3>1 DEF SpendTypeOK
  <2> QED BY <2>1, <2>2 DEF Charge
<1>8. SpendTypeOK'
    BY <1>2, <1>3, <1>4, <1>6, <1>7 DEF SpendTypeOK, OnlyCall, Calls
<1>9. OnlyRun(r)
    BY <1>2, <1>7 DEF OnlyRun
<1>10. CallsSound(r)' /\ LoopSound(r)'
  <2>1. y.heard => used'[r] + y.cost <= paid'[r]
      BY <1>2, <1>3, <1>4
  <2>2. y.at \notin {"answered", "charged"} => y.cost = 0
      BY <1>4
  <2>3. y.at = "answered" => y.cost \in Cost
      BY <1>4
  <2>4. paid'[r] = paid[r] /\ used'[r] = used[r] /\ token'[r] = token[r] /\ loop'[r] = loop[r]
      BY <1>2
  <2> QED BY <1>3, <1>4, <2>1, <2>2, <2>3, <2>4, CallHeld
<1>11. /\ Holds(x) = 1 /\ Holds(y) = 0 /\ Asks(x) = 0 /\ Asks(y) = 0 /\ Due(x) = x.cost /\ Due(y) = 0
       /\ Within(x) = 1 /\ Within(y) = 1
    BY <1>1, <1>3, <1>4 DEF Holds, Asks, Due, Within, None
<1>12. BookSound(r)'
  <2>1. paid'[r] - paid[r] = 0 /\ Estimate * Holds(y) - Estimate * Holds(x) = 0 - Estimate /\ Due(y) - Due(x) = 0 - x.cost
      BY <1>2, <1>3, <1>5, <1>11
  <2>2. spent'[r] \in Nat /\ paid'[r] \in Nat /\ token'[r] = token[r]
      BY <1>2, <1>3, <1>7
  <2> DEFINE more == (paid'[r] - paid[r]) + (Estimate * Holds(y) - Estimate * Holds(x)) - (Due(y) - Due(x))
  <2>3. more = x.cost - Estimate
      BY <1>3, <1>5, <2>1
  <2>4. token[r] # "revoked" => spent'[r] - spent[r] >= Estimate * Holds(y) - Estimate * Holds(x)
      BY <1>3, <1>5, <1>7, <2>1
  <2>5. token[r] \in {"live", "expired"} =>
            more = spent'[r] - spent[r] \/ (faults' # faults /\ more <= spent'[r] - spent[r] + Under)
    <3>1. CASE spent'[r] = spent[r] + x.cost - Estimate
        BY <1>3, <1>5, <2>3, <3>1
    <3>2. CASE spent'[r] = spent[r] /\ faults' # faults
        BY <1>3, <1>5, <2>3, <3>2
    <3> QED BY <1>7, <3>1, <3>2
  <2> QED BY <1>3, <1>4, <1>6, <2>2, <2>4, <2>5, CallBooked
<1>13. LimitSound(r)'
  <2>1. paid'[r] + MaxCost * Asks(y) <= paid[r] + MaxCost * Asks(x)
      BY <1>2, <1>3, <1>5, <1>11
  <2>2. paid'[r] \in Nat /\ token'[r] = token[r] /\ budget'[r] = budget[r]
      BY <1>2, <1>3
  <2> QED BY <1>3, <1>4, <1>6, <2>1, <2>2, CallLimited
<1>14. MonthSound'
    BY <1>2, <1>3, <1>4, <1>5, <1>11, MonthKept
<1> QED BY <1>4, <1>6, <1>8, <1>9, <1>10, <1>12, <1>13, <1>14, CallStep DEF RunSound

LEMMA AnswerKept ==
    ASSUME SpendSound, NEW r \in Run, NEW c \in Conn, Answer(r, c)
    PROVE  SpendSound'
<1> DEFINE x == call[r][c]
<1>1. x.at = "charged" /\ x.at # None
    BY DEF Answer, None
<1>2. UNCHANGED <<token, budget, spent, paid, row>>
    BY DEF Answer, tokenVars
<1>3. /\ SpendTypeOK /\ RunSound(r) /\ MonthSound /\ token[r] # None /\ loop[r] # "queued" /\ x \in Calls
      /\ used[r] <= paid[r] /\ used[r] \in Nat /\ paid[r] \in Nat /\ spent[r] \in Nat /\ month \in Nat /\ faults \in Nat
      /\ (x.heard => used[r] + x.cost <= paid[r]) /\ x.cost \in Nat
    BY <1>1, CallThere
<1>4. CASE x.cost = 0
  <2>1. PICK why : Refused(r, c, why) /\ UNCHANGED used
      BY <1>4 DEF Answer
  <2>2. LoopMoved(r) /\ call' = [call EXCEPT ![r][c] = NoCall]
      BY <1>3, <2>1, RefusedMoves
  <2>3. month' = month /\ faults' = faults
      BY <1>3, <1>4 DEF Answer
  <2>4. Holds(x) = 0
      BY <1>1 DEF Holds
  <2> QED BY <1>1, <1>2, <2>1, <2>2, <2>3, <2>4, DropKept DEF tokenVars
<1>5. CASE x.cost # 0
  <2>1. call' = [call EXCEPT ![r][c] = NoCall]
      BY <1>5 DEF Answer
  <2>2. OnlyCall(r, c) /\ call'[r][c] = NoCall
      BY <1>3, <2>1, NoCallIsOne, Becoming
  <2>3. LoopMoved(r) /\ (used' = used \/ (x.heard /\ used' = [used EXCEPT ![r] = used[r] + x.cost]))
    <3>1. CASE ~x.heard
        BY <1>3, <1>5, <3>1, StaysMoves DEF Answer
    <3>2. CASE x.heard /\ ~x.chat
        BY <1>3, <1>5, <3>2, ToolsMoves DEF Answer
    <3>3. CASE x.heard /\ x.chat
      <4>1. PICK o \in Outcome : Handle(r, o)
          BY <1>5, <3>3 DEF Answer
      <4>2. used' = [used EXCEPT ![r] = used[r] + x.cost]
          BY <1>5, <3>3 DEF Answer, Counted
      <4> QED BY <1>3, <3>3, <4>1, <4>2, HandleMoves
    <3> QED BY <3>1, <3>2, <3>3
  <2>4. used' \in [Run -> Nat] /\ \A q \in Run \ {r} : used'[q] = used[q]
    <3>1. used \in [Run -> Nat] /\ used[r] + x.cost \in Nat
        BY <1>3 DEF SpendTypeOK
    <3>2. CASE used' = used
        BY <3>1, <3>2
    <3>3. CASE used' = [used EXCEPT ![r] = used[r] + x.cost]
        BY <3>1, <3>3
    <3> QED BY <2>3, <3>2, <3>3
  <2>5. used'[r] \in Nat /\ used'[r] <= paid[r] /\ (used'[r] = used[r] \/ x.heard)
    <3>1. CASE used' = used
        BY <1>3, <3>1
    <3>2. CASE x.heard /\ used' = [used EXCEPT ![r] = used[r] + x.cost]
      <4>1. used'[r] = used[r] + x.cost
          BY <1>3, <3>2 DEF SpendTypeOK
      <4> QED BY <1>3, <3>2, <4>1
    <3> QED BY <2>3, <3>1, <3>2
  <2>6. month' \in Nat /\ month' <= month + x.cost /\ faults' \in {faults, faults + 1} /\ faults' \in 0 .. MaxSpendFaults
    <3>1. CASE month' = month + x.cost /\ UNCHANGED faults
        BY <1>3, <3>1 DEF SpendTypeOK
    <3>2. CASE Fault /\ UNCHANGED month
      <4>1. faults' = faults + 1 /\ faults < MaxSpendFaults /\ MaxSpendFaults \in Nat
          BY <3>2, Amounts DEF Fault
      <4>2. faults + 1 \in 0 .. MaxSpendFaults
          BY <1>3, <4>1
      <4> QED BY <1>3, <3>2, <4>1, <4>2
    <3> QED BY <3>1, <3>2 DEF Answer
  <2>7. SpendTypeOK'
      BY <1>2, <1>3, <2>2, <2>3, <2>4, <2>6 DEF SpendTypeOK, LoopMoved, LoopTyped, OnlyCall, Calls
  <2>8. OnlyRun(r)
      BY <1>2, <2>3, <2>4 DEF OnlyRun, LoopMoved
  <2>9. /\ Holds(NoCall) = 0 /\ Asks(NoCall) = 0 /\ Due(NoCall) = 0 /\ Within(NoCall) = 0 /\ NoCall.at = None
        /\ ~NoCall.heard /\ NoCall.cost = 0
      BY DEF Holds, Asks, Due, Within, NoCall, None
  <2>10. Holds(x) = 0 /\ Asks(x) = 0 /\ Due(x) = 0 /\ Within(x) = 1
      BY <1>1 DEF Holds, Asks, Due, Within, None
  <2>11. CallsSound(r)' /\ LoopSound(r)'
    <3>1. loop'[r] # "queued"
        BY <1>3, <2>3 DEF LoopMoved
    <3>2. paid'[r] = paid[r] /\ token'[r] = token[r]
        BY <1>2
    <3> QED BY <1>3, <2>2, <2>5, <2>9, <3>1, <3>2, CallHeld DEF None
  <2>12. Estimate \in Nat /\ MaxCost \in Nat /\ Under \in Nat /\ x.cost <= MaxCost
      BY <1>3, Amounts DEF Calls
  <2>13. BookSound(r)'
    <3>1. /\ spent'[r] = spent[r] /\ paid'[r] = paid[r] /\ token'[r] = token[r]
          /\ Estimate * Holds(NoCall) = 0 /\ Estimate * Holds(x) = 0
        BY <1>2, <2>9, <2>10, <2>12
    <3>2. (paid'[r] - paid[r]) + (Estimate * Holds(NoCall) - Estimate * Holds(x)) - (Due(NoCall) - Due(x)) = spent'[r] - spent[r]
        BY <1>3, <2>9, <2>10, <3>1
    <3>3. spent'[r] - spent[r] >= Estimate * Holds(NoCall) - Estimate * Holds(x)
        BY <1>3, <3>1
    <3> QED BY <1>3, <2>2, <2>6, <3>1, <3>2, <3>3, CallBooked
  <2>14. LimitSound(r)'
    <3>1. paid'[r] = paid[r] /\ token'[r] = token[r] /\ budget'[r] = budget[r]
        BY <1>2
    <3>2. paid'[r] + MaxCost * Asks(NoCall) <= paid[r] + MaxCost * Asks(x)
        BY <1>3, <2>9, <2>10, <2>12, <3>1
    <3> QED BY <1>3, <2>2, <2>6, <3>1, <3>2, CallLimited
  <2>15. MonthSound'
    <3>1. PICK m : m = month'
        OBVIOUS
    <3>2. m \in Nat /\ m <= month + x.cost
        BY <2>6, <3>1
    <3>3. m + MaxCost * Within(NoCall) <= month + MaxCost * Within(x)
        BY <1>3, <2>9, <2>10, <2>12, <3>2
    <3>4. month' + MaxCost * Within(call'[r][c]) <= month + MaxCost * Within(call[r][c])
        BY <2>2, <3>1, <3>3
    <3> QED BY <1>3, <2>2, <2>6, <3>4, MonthKept
  <2> QED BY <2>2, <2>6, <2>7, <2>8, <2>11, <2>13, <2>14, <2>15, CallStep DEF RunSound
<1> QED BY <1>4, <1>5

LEMMA LoseKept ==
    ASSUME SpendSound, NEW r \in Run, NEW c \in Conn, Lose(r, c)
    PROVE  SpendSound'
<1> DEFINE x == call[r][c]
           y == call'[r][c]
<1>1. x.heard /\ UNCHANGED <<month, token, budget, spent, used, row, paid>>
    BY DEF Lose, tokenVars
<1>2. /\ SpendTypeOK /\ RunSound(r) /\ MonthSound /\ token[r] # None /\ loop[r] # "queued" /\ x \in Calls
      /\ used[r] <= paid[r] /\ used[r] \in Nat /\ paid[r] \in Nat /\ spent[r] \in Nat /\ month \in Nat /\ faults \in Nat
      /\ (x.at \notin {"answered", "charged"} => x.cost = 0) /\ (x.at = "answered" => x.cost \in Cost)
    BY <1>1, CallThere
<1>3. OnlyCall(r, c) /\ y.at = x.at /\ y.cost = x.cost /\ ~y.heard /\ y \in Calls
  <2> DEFINE w == [x EXCEPT !.heard = FALSE]
  <2>1. w \in Calls /\ w.at = x.at /\ w.cost = x.cost /\ ~w.heard
      BY <1>2 DEF Calls
  <2>2. call' = [call EXCEPT ![r][c] = w]
      BY DEF Lose
  <2> HIDE DEF w
  <2>3. OnlyCall(r, c) /\ y = w
      BY <1>2, <2>1, <2>2, Becoming
  <2> QED BY <2>1, <2>3
<1>4. LoopMoved(r)
  <2>1. CASE x.chat
      BY <1>2, <2>1, FailedMoves DEF Lose
  <2>2. CASE ~x.chat
      BY <1>2, <2>2, ToolsMoves DEF Lose
  <2> QED BY <2>1, <2>2
<1>5. faults' \in {faults, faults + 1} /\ faults' \in 0 .. MaxSpendFaults /\ faults' # faults
    BY <1>2, Amounts DEF Lose, Fault, SpendTypeOK
<1>6. SpendTypeOK'
    BY <1>1, <1>2, <1>3, <1>4, <1>5 DEF SpendTypeOK, LoopMoved, LoopTyped, OnlyCall, Calls
<1>7. OnlyRun(r)
    BY <1>1, <1>4 DEF OnlyRun, LoopMoved
<1>8. Holds(y) = Holds(x) /\ Asks(y) = Asks(x) /\ Due(y) = Due(x) /\ Within(y) = Within(x)
    BY <1>3 DEF Holds, Asks, Due, Within
<1>9. /\ Estimate \in Nat /\ MaxCost \in Nat /\ Under \in Nat /\ Due(x) \in Nat
      /\ Holds(x) \in {0, 1} /\ Asks(x) \in {0, 1} /\ Within(x) \in {0, 1}
    BY <1>2, Amounts DEF Holds, Asks, Due, Within
<1>10. /\ paid'[r] = paid[r] /\ used'[r] = used[r] /\ token'[r] = token[r] /\ budget'[r] = budget[r]
       /\ spent'[r] = spent[r] /\ loop'[r] # "queued"
    BY <1>1, <1>2, <1>4 DEF LoopMoved
<1>11. CallsSound(r)' /\ LoopSound(r)'
    BY <1>2, <1>3, <1>10, CallHeld
<1>12. BookSound(r)'
  <2>1. (paid'[r] - paid[r]) + (Estimate * Holds(y) - Estimate * Holds(x)) - (Due(y) - Due(x)) = spent'[r] - spent[r]
      BY <1>2, <1>8, <1>9, <1>10
  <2>2. spent'[r] - spent[r] >= Estimate * Holds(y) - Estimate * Holds(x)
      BY <1>2, <1>8, <1>9, <1>10
  <2> QED BY <1>2, <1>3, <1>5, <1>10, <2>1, <2>2, CallBooked
<1>13. LimitSound(r)'
  <2>1. paid'[r] + MaxCost * Asks(y) <= paid[r] + MaxCost * Asks(x)
      BY <1>2, <1>8, <1>9, <1>10
  <2> QED BY <1>2, <1>3, <1>5, <1>10, <2>1, CallLimited
<1>14. MonthSound'
    BY <1>1, <1>2, <1>3, <1>8, <1>9, MonthKept
<1> QED BY <1>3, <1>5, <1>6, <1>7, <1>11, <1>12, <1>13, <1>14, CallStep DEF RunSound

-----------------------------------------------------------------------------
(* The loop's and the worker's steps. *)

\* A request of the loop is a call that was not there.
LEMMA SendKept ==
    ASSUME SpendSound, NEW r \in Run, NEW chat \in BOOLEAN, Send(r, chat), loop[r] \in {"ready", "tool"},
           UNCHANGED <<month, tokenVars, used, stop, step, nudged, again, row, paid, faults>>,
           loop' = [loop EXCEPT ![r] = "waiting"] \/ UNCHANGED loop
    PROVE  SpendSound'
<1> DEFINE c    == CHOOSE d \in Conn : call[r][d] = NoCall
           sent == [at |-> "sent", cost |-> 0, heard |-> TRUE, chat |-> chat]
           x    == call[r][c]
<1>1. c \in Conn /\ x = NoCall /\ \A d \in Conn : ~call[r][d].heard
    BY DEF Send
<1>2. call' = [call EXCEPT ![r][c] = sent]
    BY DEF Send
<1>3. sent \in Calls
    BY DEF Calls
<1>4. SpendTypeOK /\ RunSound(r) /\ MonthSound
    BY DEF SpendSound
<1> HIDE DEF c
<1>5. OnlyCall(r, c) /\ call'[r][c] = sent
    BY <1>1, <1>2, <1>3, <1>4, Becoming
<1>6. UNCHANGED <<month, token, budget, spent, used, stop, step, nudged, again, row, paid, faults>>
    BY DEF tokenVars
<1>7. loop' \in [Run -> {"queued", "ready", "waiting", "tool", "ended", "gone"}] /\ loop'[r] # "queued"
      /\ \A q \in Run \ {r} : loop'[q] = loop[q]
    BY <1>4 DEF SpendTypeOK
<1>8. token[r] # None
    BY <1>4 DEF RunSound, CallsSound
<1>9. /\ used[r] \in Nat /\ paid[r] \in Nat /\ spent[r] \in Nat /\ month \in Nat /\ faults \in Nat /\ used[r] <= paid[r]
      /\ Estimate \in Nat /\ MaxCost \in Nat
    BY <1>4, Amounts DEF SpendTypeOK, RunSound, LoopSound
<1>10. SpendTypeOK'
    BY <1>4, <1>5, <1>6, <1>7 DEF SpendTypeOK, OnlyCall, Calls
<1>11. OnlyRun(r)
    BY <1>6, <1>7 DEF OnlyRun
<1>12. /\ Holds(x) = 0 /\ Asks(x) = 0 /\ Due(x) = 0 /\ Within(x) = 0
       /\ Holds(sent) = 0 /\ Asks(sent) = 0 /\ Due(sent) = 0 /\ Within(sent) = 0
    BY <1>1 DEF Holds, Asks, Due, Within, NoCall, None
<1>13. sent.at = "sent" /\ sent.cost = 0 /\ sent.heard
    OBVIOUS
<1> HIDE DEF x, sent
<1>14. /\ paid'[r] = paid[r] /\ used'[r] = used[r] /\ token'[r] = token[r] /\ budget'[r] = budget[r]
       /\ spent'[r] = spent[r]
    BY <1>6
<1>15. CallsSound(r)' /\ LoopSound(r)'
  <2>1. used'[r] + sent.cost <= paid'[r]
      BY <1>9, <1>13, <1>14
  <2> QED BY <1>1, <1>4, <1>5, <1>7, <1>8, <1>9, <1>13, <1>14, <2>1, CallHeld
<1>16. BookSound(r)'
  <2>1. (paid'[r] - paid[r]) + (Estimate * Holds(sent) - Estimate * Holds(x)) - (Due(sent) - Due(x)) = spent'[r] - spent[r]
      BY <1>9, <1>12, <1>14
  <2>2. spent'[r] - spent[r] >= Estimate * Holds(sent) - Estimate * Holds(x)
      BY <1>9, <1>12, <1>14
  <2> QED BY <1>1, <1>4, <1>5, <1>6, <1>9, <1>14, <2>1, <2>2, CallBooked DEF x
<1>17. LimitSound(r)'
  <2>1. paid'[r] + MaxCost * Asks(sent) <= paid[r] + MaxCost * Asks(x)
      BY <1>9, <1>12, <1>14
  <2> QED BY <1>1, <1>4, <1>5, <1>6, <1>9, <1>14, <2>1, CallLimited DEF x
<1>18. MonthSound'
  <2>1. month' + MaxCost * Within(sent) <= month + MaxCost * Within(x)
      BY <1>6, <1>9, <1>12
  <2> QED BY <1>1, <1>4, <1>5, <1>6, <1>9, <2>1, MonthKept DEF x
<1> QED BY <1>1, <1>5, <1>6, <1>10, <1>11, <1>15, <1>16, <1>17, <1>18, CallStep DEF RunSound

\* A step that makes no call, settles none and grants no token.
LEMMA QuietKept ==
    ASSUME SpendSound, SpendTypeOK', faults' \in {faults, faults + 1},
           UNCHANGED <<month, budget, spent, used, paid>>,
           \A q \in Run :
              /\ \A c \in Conn : /\ call'[q][c].at = call[q][c].at /\ call'[q][c].cost = call[q][c].cost
                                 /\ call'[q][c].heard => call[q][c].heard
              /\ token[q] = None => call'[q] = call[q] /\ loop'[q] \in {"queued", "gone"}
              /\ \/ token'[q] = token[q]
                 \/ token[q] = "live" /\ token'[q] \in {"expired", "revoked"}
                 \/ token[q] = "expired" /\ token'[q] = "revoked"
              /\ loop'[q] = "queued" => loop[q] = "queued"
    PROVE  SpendSound'
<1>1. SpendTypeOK /\ (\A q \in Run : RunSound(q)) /\ MonthSound /\ faults' \in Nat /\ faults' >= faults
    BY Amounts DEF SpendSound, SpendTypeOK
<1>2. ASSUME NEW q \in Run PROVE RunSound(q)'
    BY <1>1, RunKept
<1>3. MonthSound'
  <2>1. ASSUME NEW o \in Run \X Conn PROVE call'[o[1]][o[2]].at = call[o[1]][o[2]].at
      BY <2>1
  <2>2. UnderWay' = UnderWay
      BY <2>1 DEF UnderWay
  <2> QED BY <1>1, <2>2 DEF MonthSound, Width
<1> QED BY <1>2, <1>3 DEF SpendSound

LEMMA StepKept ==
    ASSUME SpendSound, NEW r \in Run, Step(r)
    PROVE  SpendSound'
<1>1. SpendTypeOK /\ RunSound(r) /\ loop[r] = "ready" /\ token[r] # None
    BY DEF SpendSound, RunSound, CallsSound, Step
<1>2. UNCHANGED <<month, tokenVars, used, row, paid, faults>>
    BY DEF Step
<1>3. CASE Exhausted(r)
  <2>1. Ends(r, "budget") /\ UNCHANGED call
      BY <1>3 DEF Step
  <2>2. LoopMoved(r)
      BY <1>1, <2>1, EndsMoves
  <2>3. SpendTypeOK'
      BY <1>1, <1>2, <2>1, <2>2 DEF SpendTypeOK, LoopMoved, LoopTyped, tokenVars
  <2>4. \A q \in Run : /\ (loop'[q] = "queued" => loop[q] = "queued")
                       /\ (token[q] = None => loop'[q] \in {"queued", "gone"})
      BY <1>1, <2>2 DEF LoopMoved, SpendSound, RunSound, CallsSound
  <2> QED BY <1>1, <1>2, <2>1, <2>3, <2>4, QuietKept DEF tokenVars
<1>4. CASE ~Exhausted(r)
  <2>1. Send(r, TRUE) /\ loop' = [loop EXCEPT ![r] = "waiting"] /\ UNCHANGED <<stop, step, nudged, again>>
      BY <1>4 DEF Step
  <2> QED BY <1>1, <1>2, <2>1, SendKept
<1> QED BY <1>3, <1>4

LEMMA SearchesKept ==
    ASSUME SpendSound, NEW r \in Run, Searches(r)
    PROVE  SpendSound'
BY SendKept DEF Searches, loopVars

LEMMA WriteRowKept ==
    ASSUME SpendSound, NEW r \in Run, WriteRow(r)
    PROVE  SpendSound'
<1>1. SpendTypeOK /\ faults \in Nat
    BY Amounts DEF SpendSound, SpendTypeOK
<1>2. SpendTypeOK' /\ faults' \in {faults, faults + 1}
  <2>1. faults' \in {faults, faults + 1} /\ faults' \in 0 .. MaxSpendFaults
      BY <1>1, Amounts DEF WriteRow, Fault, SpendTypeOK
  <2>2. row' \in [Run -> {None, "done", "failed"}] /\ loop' = [loop EXCEPT ![r] = "gone"]
      BY <1>1 DEF WriteRow, SpendTypeOK
  <2>3. UNCHANGED <<month, token, budget, spent, call, used, step, nudged, again, stop, paid>>
      BY DEF WriteRow, tokenVars
  <2> QED BY <1>1, <2>1, <2>2, <2>3 DEF SpendTypeOK
<1>3. \A q \in Run : /\ (loop'[q] = "queued" => loop[q] = "queued")
                     /\ (token[q] = None => loop'[q] \in {"queued", "gone"})
    BY <1>1 DEF WriteRow, SpendTypeOK, SpendSound, RunSound, CallsSound
<1> QED BY <1>2, <1>3, QuietKept DEF WriteRow, tokenVars

LEMMA CancelKept ==
    ASSUME SpendSound, NEW r \in Run, Cancel(r)
    PROVE  SpendSound'
<1>1. SpendTypeOK /\ RunSound(r) /\ faults \in Nat /\ token[r] # None
    BY Amounts DEF SpendSound, SpendTypeOK, RunSound, CallsSound, Cancel
<1>2. UNCHANGED <<month, token, budget, spent, used, step, nudged, again, paid>> /\ faults' = faults + 1
      /\ faults' \in 0 .. MaxSpendFaults
    BY <1>1, Amounts DEF Cancel, Fault, tokenVars
<1>3. /\ call' \in [Run -> [Conn -> Calls]] /\ \A q \in Run \ {r} : call'[q] = call[q]
      /\ \A c \in Conn : call'[r][c].at = call[r][c].at /\ call'[r][c].cost = call[r][c].cost /\ ~call'[r][c].heard
  <2> DEFINE cut == [c \in Conn |-> [call[r][c] EXCEPT !.heard = FALSE]]
  <2>1. ASSUME NEW c \in Conn
        PROVE  /\ cut[c] \in Calls /\ cut[c].at = call[r][c].at /\ cut[c].cost = call[r][c].cost /\ ~cut[c].heard
    <3>1. call[r][c] \in Calls
        BY <1>1 DEF SpendTypeOK, Calls
    <3> QED BY <3>1 DEF Calls
  <2>2. cut \in [Conn -> Calls]
      BY <2>1
  <2>3. call' = [call EXCEPT ![r] = cut]
      BY DEF Cancel
  <2> HIDE DEF cut
  <2>4. call'[r] = cut /\ call' \in [Run -> [Conn -> Calls]] /\ \A q \in Run \ {r} : call'[q] = call[q]
      BY <1>1, <2>2, <2>3 DEF SpendTypeOK, Calls
  <2> QED BY <2>1, <2>4
<1>4. /\ loop' = [loop EXCEPT ![r] = "gone"] /\ stop' = [stop EXCEPT ![r] = "canceled"]
      /\ row' = [row EXCEPT ![r] = "failed"]
    BY DEF Cancel
<1>5. SpendTypeOK'
    BY <1>1, <1>2, <1>3, <1>4 DEF SpendTypeOK, Calls, None
<1>6. \A q \in Run : /\ (loop'[q] = "queued" => loop[q] = "queued")
                     /\ (token[q] = None => loop'[q] \in {"queued", "gone"} /\ call'[q] = call[q])
    BY <1>1, <1>3, <1>4 DEF SpendTypeOK, SpendSound, RunSound, CallsSound
<1>7. \A q \in Run : \A c \in Conn : /\ call'[q][c].at = call[q][c].at /\ call'[q][c].cost = call[q][c].cost
                                     /\ call'[q][c].heard => call[q][c].heard
    BY <1>3
<1> QED BY <1>2, <1>5, <1>6, <1>7, QuietKept

LEMMA RevokeKept ==
    ASSUME SpendSound, NEW r \in Run, Revoke(r)
    PROVE  SpendSound'
<1>1. SpendTypeOK /\ faults \in Nat /\ token[r] = "live"
    BY Amounts DEF SpendSound, SpendTypeOK, Revoke
<1>2. SpendTypeOK' /\ faults' \in {faults, faults + 1}
    BY <1>1, Amounts DEF Revoke, Fault, SpendTypeOK, loopVars
<1>3. \A q \in Run : token'[q] = IF q = r \/ token[q] = "expired" THEN "revoked" ELSE token[q]
    BY DEF Revoke
<1>4. \A q \in Run : token[q] = None => loop[q] \in {"queued", "gone"}
    BY DEF SpendSound, RunSound, CallsSound
<1> QED BY <1>1, <1>2, <1>3, <1>4, QuietKept DEF Revoke, loopVars

LEMMA ExpireTokenKept ==
    ASSUME SpendSound, NEW r \in Run, ExpireToken(r)
    PROVE  SpendSound'
<1>1. SpendTypeOK /\ faults \in Nat /\ token[r] = "live"
    BY Amounts DEF SpendSound, SpendTypeOK, ExpireToken
<1>2. SpendTypeOK' /\ faults' \in {faults, faults + 1}
    BY <1>1, Amounts DEF ExpireToken, Fault, SpendTypeOK, loopVars
<1>3. \A q \in Run : token'[q] = token[q] \/ (q = r /\ token'[q] = "expired")
    BY <1>1 DEF ExpireToken, SpendTypeOK
<1>4. \A q \in Run : token[q] = None => loop[q] \in {"queued", "gone"}
    BY DEF SpendSound, RunSound, CallsSound
<1> QED BY <1>1, <1>2, <1>3, <1>4, QuietKept DEF ExpireToken, loopVars

LEMMA OthersSpendKept ==
    ASSUME SpendSound, OthersSpend
    PROVE  SpendSound'
<1>1. SpendTypeOK /\ month \in Nat /\ MaxCost \in Nat /\ PerMonth \in Nat /\ faults \in Nat
    BY Amounts DEF SpendSound, SpendTypeOK
<1>2. /\ UNCHANGED <<token, budget, spent, call, loop, used, step, nudged, again, stop, row, paid, faults>>
      /\ month' = month + MaxCost /\ month < PerMonth
    BY DEF OthersSpend, tokenVars, loopVars
<1>3. month' \in Nat /\ month' < PerMonth + MaxCost
    BY <1>1, <1>2
<1>4. SpendTypeOK'
    BY <1>1, <1>2, <1>3 DEF SpendTypeOK
<1>5. ASSUME NEW q \in Run PROVE RunSound(q)'
  <2>1. RunSound(q) /\ (token[q] = None => loop[q] \in {"queued", "gone"})
      BY DEF SpendSound, RunSound, CallsSound
  <2>2. faults' \in Nat /\ faults' >= faults
      BY <1>1, <1>2
  <2> QED BY <1>1, <1>2, <2>1, <2>2, RunKept
<1> QED BY <1>3, <1>4, <1>5, MonthOpen DEF SpendSound

LEMMA MintKept ==
    ASSUME SpendSound, NEW r \in Run, Mint(r)
    PROVE  SpendSound'
<1>1. SpendTypeOK /\ RunSound(r) /\ MonthSound /\ loop[r] = "queued" /\ faults \in Nat /\ faults' = faults
    BY Amounts DEF SpendSound, SpendTypeOK, Mint
<1>2. token[r] = None /\ spent[r] = 0 /\ paid[r] = 0 /\ call[r] = [c \in Conn |-> NoCall]
    BY <1>1 DEF RunSound, CallsSound
<1>3. UNCHANGED <<month, spent, call, used, step, nudged, again, stop, row, paid, faults>>
    BY DEF Mint
<1>4. CASE PerMonth <= month + MinLeft
  <2>1. loop' = [loop EXCEPT ![r] = "gone"] /\ UNCHANGED <<token, budget>>
      BY <1>4 DEF Mint
  <2>2. SpendTypeOK'
      BY <1>1, <1>3, <2>1 DEF SpendTypeOK
  <2>3. \A q \in Run : /\ (loop'[q] = "queued" => loop[q] = "queued")
                       /\ (token[q] = None => loop'[q] \in {"queued", "gone"})
      BY <1>1, <2>1 DEF SpendTypeOK, SpendSound, RunSound, CallsSound
  <2> QED BY <1>3, <2>1, <2>2, <2>3, QuietKept
<1>5. CASE ~(PerMonth <= month + MinLeft)
  <2>1. /\ loop' = [loop EXCEPT ![r] = "ready"] /\ token' = [token EXCEPT ![r] = "live"]
        /\ budget' = [budget EXCEPT ![r] = Least(AgentMax, PerMonth - month)]
      BY <1>5 DEF Mint
  <2>2. Least(AgentMax, PerMonth - month) \in 1 .. AgentMax
    <3>1. month \in Nat /\ MinLeft \in Nat /\ PerMonth \in Nat /\ AgentMax \in Nat \ {0}
        BY <1>1, Amounts DEF SpendTypeOK
    <3>2. PerMonth - month \in Nat \ {0}
        BY <1>5, <3>1
    <3> QED BY <3>1, <3>2 DEF Least
  <2>3. SpendTypeOK'
      BY <1>1, <1>3, <2>1, <2>2, Amounts DEF SpendTypeOK
  <2>4. ASSUME NEW q \in Run, q # r PROVE RunSound(q)'
    <3>1. RunSound(q) /\ (token[q] = None => loop[q] \in {"queued", "gone"})
        BY DEF SpendSound, RunSound, CallsSound
    <3>2. token'[q] = token[q] /\ budget'[q] = budget[q] /\ loop'[q] = loop[q]
        BY <1>1, <2>1, <2>4 DEF SpendTypeOK
    <3>3. faults' \in Nat /\ faults' >= faults
        BY <1>1
    <3> QED BY <1>1, <1>3, <3>1, <3>2, <3>3, RunKept
  <2>5. RunSound(r)'
    <3>1. token'[r] = "live" /\ loop'[r] = "ready" /\ budget'[r] \in 1 .. AgentMax
        BY <1>1, <2>1, <2>2 DEF SpendTypeOK
    <3>2. \A c \in Conn : call'[r][c] = NoCall
        BY <1>2, <1>3
    <3>3. NoCall.at = None /\ NoCall.cost = 0 /\ ~NoCall.heard
        BY DEF NoCall, None
    <3>4. CallsSound(r)'
        BY <3>1, <3>2, <3>3 DEF CallsSound, None
    <3>5. LoopSound(r)'
        BY <1>1, <1>3, <3>2, <3>3 DEF RunSound, LoopSound
    <3>6. Reserved(call[r])' = {} /\ Unsettled(call[r])' = {} /\ Asking(call[r])' = {}
        BY <3>2, <3>3 DEF Reserved, Unsettled, Asking, None
    <3>7. Cardinality({}) = 0
        BY FS_EmptySet
    <3>8. Estimate \in Nat /\ MaxCost \in Nat /\ Under \in Nat /\ Width \in Nat /\ Under < MaxCost /\ AgentMax \in Nat
        BY Amounts
    <3>9. Estimate * 0 = 0 /\ MaxCost * 0 = 0 /\ Under * faults \in Nat
        BY <1>1, <3>8
    <3>10. BookSound(r)'
      <4>1. Cardinality(Reserved(call[r])') = 0 /\ Cardinality(Unsettled(call[r])') = 0
          BY <3>6, <3>7
      <4>2. paid'[r] = 0 /\ spent'[r] = 0 /\ faults' = faults
          BY <1>2, <1>3
      <4>3. Booked(r)' = 0
          BY <3>9, <4>1, <4>2 DEF Booked
      <4> QED BY <3>9, <4>1, <4>2, <4>3 DEF BookSound
    <3>11. LimitSound(r)'
      <4>1. Under * (Width - 1 + faults) = Under * (Width + faults) - Under /\ Under * (Width + faults) \in Nat
          BY <1>1, <3>8
      <4>2. 0 < budget'[r] + MaxCost + Under * (Width - 1 + faults)
          BY <3>1, <3>8, <4>1
      <4>3. paid'[r] + MaxCost * 0 = 0
          BY <1>2, <1>3, <3>9
      <4> QED BY <1>1, <3>6, <3>7, <4>2, <4>3 DEF LimitSound
    <3> QED BY <3>4, <3>5, <3>10, <3>11 DEF RunSound
  <2>6. MonthSound'
      BY <1>1, <1>3 DEF MonthSound, UnderWay, Width
  <2> QED BY <2>3, <2>4, <2>5, <2>6 DEF SpendSound
<1> QED BY <1>4, <1>5

-----------------------------------------------------------------------------
LEMMA InitSound == SpendInit => SpendSound
<1> SUFFICES ASSUME SpendInit PROVE SpendSound
    OBVIOUS
<1>1. SpendTypeOK
  <2>1. 0 \in 0 .. MaxSteps - 1 /\ 0 \in 0 .. MaxResends /\ 0 \in 0 .. MaxSpendFaults /\ 0 \in 0 .. AgentMax
      BY Amounts
  <2> QED BY <2>1, NoCallIsOne DEF SpendInit, SpendTypeOK, Calls, None
<1>2. Cardinality({}) = 0
    BY FS_EmptySet
<1>3. ASSUME NEW r \in Run PROVE RunSound(r)
  <2>1. token[r] = None /\ spent[r] = 0 /\ paid[r] = 0 /\ used[r] = 0 /\ loop[r] \in {"queued", "gone"} /\ faults = 0
        /\ call[r] = [c \in Conn |-> NoCall]
      BY DEF SpendInit
  <2>2. NoCall.at = None /\ NoCall.cost = 0 /\ ~NoCall.heard
      BY DEF NoCall, None
  <2>3. Reserved(call[r]) = {}
      BY <2>1, <2>2 DEF Reserved, None
  <2>4. Estimate * 0 = 0
      BY Amounts
  <2> QED BY <1>2, <2>1, <2>2, <2>3, <2>4 DEF RunSound, CallsSound, LoopSound, BookSound, LimitSound, None
<1>4. MonthSound
  <2>1. UnderWay = {}
    <3>1. NoCall.at = None
        BY DEF NoCall, None
    <3> QED BY <3>1 DEF UnderWay, SpendInit
  <2>2. MaxCost \in Nat /\ PerMonth \in Nat \ {0} /\ Width \in Nat /\ Cardinality(Run) \in Nat /\ MaxCost * 0 = 0
      BY Amounts
  <2>3. Width * Cardinality(Run) \in Nat
      BY <2>2
  <2>4. MaxCost * (1 + Width * Cardinality(Run)) \in Nat
      BY <2>2, <2>3
  <2> QED BY <1>2, <2>1, <2>2, <2>4 DEF MonthSound, SpendInit
<1> QED BY <1>1, <1>3, <1>4 DEF SpendSound

LEMMA NextSound == SpendSound /\ [SpendNext]_spendVars => SpendSound'
<1> SUFFICES ASSUME SpendSound, [SpendNext]_spendVars PROVE SpendSound'
    OBVIOUS
<1>1. CASE OthersSpend
    BY <1>1, OthersSpendKept
<1>2. ASSUME NEW r \in Run, Mint(r) \/ Revoke(r) \/ ExpireToken(r) \/ Loop(r) \/ Cancel(r) PROVE SpendSound'
    BY <1>2, MintKept, RevokeKept, ExpireTokenKept, StepKept, SearchesKept, WriteRowKept, CancelKept DEF Loop
<1>3. ASSUME NEW r \in Run, NEW c \in Conn, Serve(r, c) \/ NoDatabase(r, c) \/ Lose(r, c) \/ GatewayDies(r, c)
      PROVE  SpendSound'
    BY <1>3, AuthorizeKept, ReserveKept, AskKept, ChargeKept, AnswerKept, NoDatabaseKept, LoseKept, GatewayDiesKept DEF Serve
<1>4. CASE UNCHANGED spendVars
  <2>1. UNCHANGED <<month, token, budget, spent, call, loop, used, step, nudged, again, stop, row, paid, faults>>
      BY <1>4 DEF spendVars
  <2>2. SpendTypeOK' /\ \A q \in Run : token[q] = None => loop[q] \in {"queued", "gone"}
      BY <2>1 DEF SpendSound, SpendTypeOK, RunSound, CallsSound
  <2> QED BY <2>1, <2>2, QuietKept
<1> QED BY <1>1, <1>2, <1>3, <1>4 DEF SpendNext

\* The types of the tokens, the calls and the loops, among them that no
\* refund takes a run's spend below zero (internal/store/gateway.go,
\* ChargeGatewayToken).
THEOREM SpendIsTyped == SpendSpec => []SpendTypeOK
<1>1. SpendSpec => []SpendSound
    BY InitSound, NextSound, PTL DEF SpendSpec
<1>2. SpendSound => SpendTypeOK
    BY DEF SpendSound
<1> QED BY <1>1, <1>2, PTL

\* However calls are lost, sent again, settled late or cut off, and whoever
\* else spends, the counts of a run agree and neither its budget nor the
\* account's month is passed by more than what was on its way
\* (internal/store/gateway.go, internal/gateway, internal/agent/loop.go).
THEOREM SpendingStaysHeld == SpendSpec => []SpendingHeld
<1>1. SpendSpec => []SpendSound
    BY InitSound, NextSound, PTL DEF SpendSpec
<1>2. SpendSound => SpendingHeld
  <2> SUFFICES ASSUME SpendSound PROVE SpendingHeld
      OBVIOUS
  <2>1. SpendTypeOK /\ MonthSound
      BY DEF SpendSound
  <2>2. ASSUME NEW r \in Run, token[r] \in {"live", "expired"}
        PROVE  /\ used[r] <= paid[r]
               /\ paid[r] <= spent[r] + Under * (Width + faults)
               /\ faults = 0 /\ (\A c \in Conn : call[r][c] = NoCall) => spent[r] = paid[r]
    <3> DEFINE f   == call[r]
               had == {d \in Conn : f[d].at = "answered"}
    <3>1. RunSound(r) /\ f \in [Conn -> Calls]
        BY <2>1 DEF SpendSound, SpendTypeOK, Calls
    <3>2. /\ paid[r] + Estimate * Cardinality(Reserved(f)) - Cardinality(Unsettled(f)) <= spent[r] + Under * faults
          /\ faults = 0 => paid[r] + Estimate * Cardinality(Reserved(f)) - Cardinality(Unsettled(f)) = spent[r]
        BY <2>2, <3>1 DEF RunSound, BookSound, Booked
    <3>3. /\ Estimate \in Nat /\ Under \in Nat /\ Width \in Nat /\ faults \in Nat /\ paid[r] \in Nat /\ spent[r] \in Nat
          /\ Cardinality(Reserved(f)) \in Nat /\ Cardinality(Unsettled(f)) \in Nat
        BY <2>1, Amounts, FewCalls DEF SpendTypeOK
    <3>4. Cardinality(Unsettled(f)) <= Estimate * Cardinality(Reserved(f)) + Under * Width
        BY <3>1, UnsettledBounded DEF RunSound, CallsSound
    <3>5. Under * (Width + faults) = Under * Width + Under * faults
        BY <3>3
    <3>6. (\A c \in Conn : f[c] = NoCall) => Reserved(f) = {} /\ Unsettled(f) = {}
        BY DEF Reserved, Unsettled, NoCall, None
    <3>7. Cardinality({}) = 0 /\ Estimate * 0 = 0
        BY <3>3, FS_EmptySet
    <3> DEFINE er == Estimate * Cardinality(Reserved(f))
               un == Cardinality(Unsettled(f))
               uw == Under * Width
               uf == Under * faults
    <3>8. er \in Int /\ un \in Int /\ uw \in Int /\ uf \in Int
        BY <3>3
    <3>9. paid[r] + er - un <= spent[r] + uf /\ un <= er + uw
        BY <3>2, <3>4
    <3>10. paid[r] <= spent[r] + (uw + uf)
      <4> HIDE DEF er, un, uw, uf
      <4> QED BY <3>3, <3>8, <3>9
    <3>11. used[r] <= paid[r]
        BY <3>1 DEF RunSound, LoopSound
    <3>12. faults = 0 /\ (\A c \in Conn : f[c] = NoCall) => spent[r] = paid[r]
      <4> SUFFICES ASSUME faults = 0, \A c \in Conn : f[c] = NoCall PROVE spent[r] = paid[r]
          OBVIOUS
      <4>1. Cardinality(Reserved(f)) = 0 /\ Cardinality(Unsettled(f)) = 0
          BY <3>6, <3>7
      <4>2. paid[r] + Estimate * 0 - 0 = spent[r]
          BY <3>2, <4>1
      <4> QED BY <3>3, <3>7, <4>2
    <3> QED BY <3>5, <3>10, <3>11, <3>12
  <2>3. CountsAgree
      BY <2>2 DEF CountsAgree
  <2>4. ASSUME NEW r \in Run, token[r] # None
        PROVE  paid[r] < budget[r] + MaxCost + Under * (Width - 1 + faults)
    <3>1. paid[r] + MaxCost * Cardinality(Asking(call[r])) < budget[r] + MaxCost + Under * (Width - 1 + faults)
        BY <2>4 DEF SpendSound, RunSound, LimitSound
    <3>2. MaxCost * Cardinality(Asking(call[r])) \in Nat /\ paid[r] \in Nat
          /\ budget[r] + MaxCost + Under * (Width - 1 + faults) \in Int
        BY <2>1, Amounts, FewCalls DEF SpendTypeOK
    <3> QED BY <3>1, <3>2
  <2>5. BudgetHeld
      BY <2>4 DEF BudgetHeld
  <2>6. MonthHeld
    <3>1. Cardinality(UnderWay) \in Nat /\ MaxCost \in Nat /\ month \in Nat /\ Width \in Nat /\ Cardinality(Run) \in Nat
          /\ PerMonth \in Nat
        BY <2>1, Amounts, FewUnderWay DEF SpendTypeOK
    <3>2. MaxCost * Cardinality(UnderWay) \in Nat
        BY <3>1
    <3>3. PerMonth + MaxCost * (1 + Width * Cardinality(Run)) \in Int
        BY <3>1
    <3> QED BY <2>1, <3>1, <3>2, <3>3 DEF MonthHeld, MonthSound
  <2> QED BY <2>3, <2>5, <2>6 DEF SpendingHeld
<1> QED BY <1>1, <1>2, PTL

-----------------------------------------------------------------------------
\* Both modules together, as MCSpending adds them up: a step is of one of
\* them and leaves the other's variables alone.
LEMMA BothSound == Spec => [](Inv /\ SpendSound)
<1>1. Init => Inv /\ SpendSound
    BY InitInv, InitSound DEF Init
<1>2. [Next]_<<leaseVars, spendVars, part>> => [LeaseNext]_leaseVars /\ [SpendNext]_spendVars
    BY DEF Next
<1> QED BY <1>1, <1>2, NextInv, NextSound, PTL DEF Spec

\* Slots and jobs, tokens, calls and loops keep their types: among others that
\* no refund takes what a run has spent below zero (store/gateway.go).
THEOREM SpendingIsTyped == Spec => []TypeOK
<1>1. Inv => LeaseTypeOK
    BY DEF Inv, Rows, Row, LeaseTypeOK
<1>2. SpendSound => SpendTypeOK
    BY DEF SpendSound
<1> QED BY <1>1, <1>2, BothSound, PTL DEF TypeOK
=============================================================================
