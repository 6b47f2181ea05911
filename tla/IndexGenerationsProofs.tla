----------------------- MODULE IndexGenerationsProofs -----------------------
(***************************************************************************)
(* Proofs about IndexGenerations, for any repository tree and history, any *)
(* embedding models, and any number of failures, rebuilds and changes of   *)
(* the model: type correctness; that what a review may search is never of  *)
(* another commit or model than its generation's, and the whole tree while *)
(* the model stays; and that the index follows the pushes while nothing    *)
(* fails.                                                                  *)
(***************************************************************************)
EXTENDS IndexGenerations, WellFoundedInduction, NaturalsInduction, TLAPS

-----------------------------------------------------------------------------
\* Version: the last commit that changed a path is one of the branch.
LEMMA VersionType == ASSUME NEW c \in Commit, NEW p \in Path PROVE Version(c, p) \in 0..c /\ Version(c, p) \in Commit
<1> DEFINE T == {d \in 0..c : d = 0 \/ p \in Changed[d]}
           Ages == {c - d : d \in T}
<1>1. c \in Nat /\ MaxCommit \in Nat /\ c <= MaxCommit
    BY ChangedAssumption DEF Commit
<1>2. 0 \in T /\ Ages \subseteq Nat /\ Ages # {}
    BY <1>1
<1>3. PICK a \in Ages : \A b \in Ages : ~(<<b, a>> \in OpToRel(<, Nat))
  <2>1. IsWellFoundedOn(OpToRel(<, Nat), Nat)
      BY NatLessThanWellFounded
  <2> HIDE DEF Ages
  <2> QED BY <1>2, <2>1, WFMin
<1>4. PICK d \in T : a = c - d
    BY <1>3
<1>5. \A e \in d+1..c : p \notin Changed[e]
  <2> SUFFICES ASSUME NEW e \in d+1..c, p \in Changed[e] PROVE FALSE
      OBVIOUS
  <2>1. e \in T /\ c - e \in Ages /\ c - e < a
      BY <1>1, <1>4
  <2>2. <<c - e, a>> \in OpToRel(<, Nat)
      BY <1>1, <1>2, <2>1 DEF OpToRel
  <2> QED BY <1>3, <2>1, <2>2
<1>6. \E x \in 0..c : (x = 0 \/ p \in Changed[x]) /\ \A e \in x+1..c : p \notin Changed[e]
    BY <1>4, <1>5
<1>7. Version(c, p) \in 0..c
    BY <1>6 DEF Version
<1> QED BY <1>1, <1>7 DEF Commit

-----------------------------------------------------------------------------
\* Types, with what they rest on: a webhook is on its way for a push that was
\* made, and River counts the attempt of a job that runs.

Place == Working \cup {"idle", "returned", "dead"}

GitTyped   == tip \in Commit /\ hooks \in Commit /\ hooks <= tip /\ recent \in BOOLEAN
CfgTyped   == embedding \in Model /\ files \subseteq Model /\ schema \in Model
RunTyped   ==
    /\ active \in Run \cup {None}
    /\ status \in [Run -> {None, "running", "completed", "failed", "superseded"}]
    /\ commit \in [Run -> Commit] /\ model \in [Run -> Model]
    /\ chunks \in [Run -> SUBSET Chunk]
JobTyped   ==
    /\ state \in [Kind -> {None, "queued", "running"}]
    /\ attempt \in [Kind -> 0..MaxAttempts]
    /\ pc \in [Kind -> Place]
    /\ w \in [Kind -> Local]
    /\ \A k \in Kind :
        /\ state[k] = "running" <=> pc[k] # "idle"
        /\ state[k] = "queued" => attempt[k] < MaxAttempts
        /\ state[k] = "running" => attempt[k] >= 1
GhostTyped == missed \in BOOLEAN /\ beside \in BOOLEAN
BoundTyped == faults \in 0..MaxFaults /\ rebuilds \in 0..MaxRebuilds /\ changes \in 0..MaxChanges

Typed == GitTyped /\ CfgTyped /\ RunTyped /\ JobTyped /\ GhostTyped /\ BoundTyped

LEMMA BlankLocal == Blank \in Local
BY ModelAssumption, ChangedAssumption DEF Blank, Local, Commit

LEMMA InitTyped == Init => Typed
<1> SUFFICES ASSUME Init PROVE Typed
    OBVIOUS
<1>1. GitTyped /\ CfgTyped /\ GhostTyped /\ BoundTyped
  <2>1. GitTyped
      BY ChangedAssumption DEF Init, GitTyped, Commit
  <2>2. CfgTyped
      BY ModelAssumption DEF Init, CfgTyped
  <2>3. GhostTyped
      BY DEF Init, GhostTyped
  <2>4. MaxFaults \in Nat /\ MaxRebuilds \in Nat /\ MaxChanges \in Nat
      BY CountAssumption
  <2>5. BoundTyped
      BY <2>4 DEF Init, BoundTyped
  <2> QED BY <2>1, <2>2, <2>3, <2>5
<1>2. RunTyped
    BY ModelAssumption, ChangedAssumption DEF Init, RunTyped, Commit
<1>3. JobTyped
    BY BlankLocal, CountAssumption DEF Init, JobTyped, Place, Working, None
<1> QED BY <1>1, <1>2, <1>3 DEF Typed

\* What a step of a worker does to its job.
LEMMA StepJob ==
    ASSUME JobTyped, NEW k \in Kind, NEW from, NEW to \in Working \cup {"returned"}, NEW local \in Local,
           from # "idle", Step(k, from, to, local)
    PROVE  JobTyped'
BY DEF JobTyped, Step, Frame, Place, Working, Starting, Building, Leaving

LEMMA GoJob ==
    ASSUME JobTyped, NEW k \in Kind, NEW from, NEW to \in Working \cup {"returned"}, from # "idle", Go(k, from, to)
    PROVE  JobTyped'
<1>1. w[k] \in Local
    BY DEF JobTyped
<1> QED BY <1>1, StepJob DEF Go

LEMMA LocalFields ==
    ASSUME NEW l \in Local
    PROVE  /\ l.file \in Model /\ l.seen \in Run \cup {None} /\ l.target \in Commit /\ l.prior \in Run \cup {None}
           /\ l.run \in Run \cup {None} /\ l.incremental \in BOOLEAN /\ l.base \in Commit
           /\ l.left \subseteq Path /\ l.looked \in Commit /\ l.ret \in {"ok", "error", "snooze"}
BY DEF Local

LEMMA ReturnJob ==
    ASSUME JobTyped, NEW k \in Kind, NEW from, from # "idle", NEW r \in {"ok", "error"}, Return(k, from, r)
    PROVE  JobTyped'
<1>1. w[k].looked \in Commit
    BY LocalFields DEF JobTyped
<1>2. [Blank EXCEPT !.looked = w[k].looked, !.ret = r] \in Local
    BY <1>1, BlankLocal DEF Local, Blank
<1> QED BY <1>2, StepJob DEF Return

LEMMA LeaveJob ==
    ASSUME JobTyped, NEW k \in Kind, NEW from, NEW to \in Leaving, from # "idle", NEW r \in {"ok", "error", "snooze"},
           NEW looked \in Commit, Leave(k, from, to, r, looked)
    PROVE  JobTyped'
<1>1. w[k].run \in Run \cup {None}
    BY LocalFields DEF JobTyped
<1>2. [Blank EXCEPT !.run = w[k].run, !.looked = looked, !.ret = r] \in Local
    BY <1>1, BlankLocal DEF Local, Blank
<1> QED BY <1>2, StepJob DEF Leave, Working

\* What each operation of the store does to the runs.
LEMMA TreeTyped ==
    ASSUME NEW c \in Commit, NEW m \in Model, NEW p \in Path
    PROVE  <<p, Version(c, p), m>> \in Chunk
BY VersionType DEF Chunk

LEMMA SwapTyped ==
    ASSUME RunTyped, NEW k \in Kind, w[k] \in Local, w[k].run \in Run, w[k].incremental => w[k].prior \in Run, Swap(k)
    PROVE  RunTyped'
<1>1. w[k].target \in Commit /\ w[k].prior \in Run \cup {None}
    BY LocalFields
<1>2. CASE w[k].incremental
  <2>1. UNCHANGED <<active, model>> /\ status' = [status EXCEPT ![w[k].run] = "completed"] /\ Advance(k, w[k].prior)
      BY <1>2 DEF Swap
  <2>2. status' \in [Run -> {None, "running", "completed", "failed", "superseded"}]
      BY <2>1 DEF RunTyped
  <2>3. chunks' \in [Run -> SUBSET Chunk]
    <3> DEFINE kept == {c \in chunks[w[k].prior] : c[1] \notin Differ(w[k].base, w[k].target)}
    <3>1. kept \cup chunks[w[k].run] \in SUBSET Chunk
        BY <1>2 DEF RunTyped
    <3>2. chunks' = [chunks EXCEPT ![w[k].prior] = kept \cup chunks[w[k].run], ![w[k].run] = {}]
        BY <1>2, <2>1 DEF Advance, RunTyped
    <3> HIDE DEF kept
    <3> QED BY <3>1, <3>2 DEF RunTyped
  <2>4. commit' \in [Run -> Commit]
      BY <1>1, <2>1 DEF Advance, RunTyped
  <2> QED BY <2>1, <2>2, <2>3, <2>4 DEF RunTyped
<1>3. CASE ~w[k].incremental
    BY <1>1, <1>3 DEF Swap, RunTyped
<1> QED BY <1>2, <1>3

LEMMA StartTyped ==
    ASSUME RunTyped, NEW k \in Kind, w[k] \in Local, StartIndexRun(k)
    PROVE  RunTyped' /\ \E r \in Unused : w' = [w EXCEPT ![k] = [w[k] EXCEPT !.run = r]]
<1>1. PICK r \in Unused :
        /\ Step(k, "start", "runner", [w[k] EXCEPT !.run = r])
        /\ status' = Recycled(status, None, r, "running")
        /\ commit' = Recycled(commit, 0, r, w[k].target)
        /\ model' = Recycled(model, FirstModel, r, w[k].file)
        /\ chunks' = [x \in Run |-> IF Stray(x) THEN {} ELSE chunks[x]]
        /\ active' = active
    BY DEF StartIndexRun
<1>2. status' \in [Run -> {None, "running", "completed", "failed", "superseded"}]
    BY <1>1 DEF RunTyped, Recycled
<1>3. commit' \in [Run -> Commit]
    BY <1>1, LocalFields, ChangedAssumption DEF RunTyped, Recycled, Commit
<1>4. model' \in [Run -> Model]
    BY <1>1, LocalFields, ModelAssumption DEF RunTyped, Recycled
<1>5. chunks' \in [Run -> SUBSET Chunk]
    BY <1>1 DEF RunTyped
<1> QED BY <1>1, <1>2, <1>3, <1>4, <1>5 DEF RunTyped, Step

-----------------------------------------------------------------------------
\* The invariant.

\* The chunks of some paths of a commit, and the paths a worker's run covers.
Parts(paths, c, m) == {<<p, Version(c, p), m>> : p \in paths}
Aim(k) == IF w[k].incremental THEN Differ(w[k].base, w[k].target) ELSE Path

\* The table is of the newest file's embedder until that changes.
CfgOK == changes = 0 => schema = embedding

\* The generation that may be searched.
ActiveOK ==
    active # None /\ status[active] = "completed" =>
        /\ chunks[active] \subseteq Tree(commit[active], model[active])
        /\ changes = 0 => chunks[active] = Tree(commit[active], model[active])

\* Workers have runs of their own; one that is being built is nobody's
\* generation yet.
Apart ==
    \A k, i \in Kind :
        /\ k # i /\ w[k].run \in Run => w[i].run # w[k].run
        /\ pc[k] \in Building => w[k].run \notin {w[i].prior, w[i].seen}

\* A worker's run is a row of the commit and the embedder it indexes, and is
\* not active before the swap.
OwnOK(k) ==
    /\ pc[k] \in Building \cup Leaving => w[k].run \in Run
    /\ pc[k] \in Building =>
        w[k].run # active /\ commit[w[k].run] = w[k].target /\ model[w[k].run] = w[k].file

\* The generation an update adds to is still of the commit it was at.
BaseOK(k) ==
    pc[k] \in {"start"} \cup Building /\ w[k].incremental =>
        /\ k = "update" /\ w[k].prior \in Run
        /\ commit[w[k].prior] = w[k].base /\ model[w[k].prior] = w[k].file

\* A run's chunks are of the paths it covers, but for those still to embed.
PartOK(k) ==
    /\ pc[k] = "runner" => chunks[w[k].run] = {}
    /\ pc[k] \in {"embed", "swap"} =>
        /\ w[k].left \subseteq Aim(k)
        /\ chunks[w[k].run] \subseteq Parts(Aim(k) \ w[k].left, w[k].target, w[k].file)
        /\ changes = 0 => chunks[w[k].run] = Parts(Aim(k) \ w[k].left, w[k].target, w[k].file)
    /\ pc[k] = "swap" => w[k].left = {}

WorkerOK(k) == OwnOK(k) /\ BaseOK(k) /\ PartOK(k)

Sound == CfgOK /\ ActiveOK /\ Apart /\ \A k \in Kind : WorkerOK(k)
IInv  == Typed /\ Sound

LEMMA InitSound == Init => Sound
<1> SUFFICES ASSUME Init PROVE Sound
    OBVIOUS
<1>1. CfgOK /\ ActiveOK
    BY DEF Init, CfgOK, ActiveOK
<1>2. \A k \in Kind : pc[k] = "idle" /\ w[k].run = None
    BY DEF Init, Blank
<1>3. Apart
    BY <1>2, RunAssumption DEF Apart, Building
<1>4. \A k \in Kind : WorkerOK(k)
    BY <1>2 DEF WorkerOK, OwnOK, BaseOK, PartOK, Building, Leaving
<1> QED BY <1>1, <1>3, <1>4 DEF Sound

\* A worker whose run and generation a step leaves alone.
LEMMA SameWorker ==
    ASSUME NEW i \in Kind, WorkerOK(i), pc'[i] = pc[i], w'[i] = w[i], changes' = changes,
           pc[i] \in Building =>
                /\ active' # w[i].run /\ commit'[w[i].run] = commit[w[i].run]
                /\ model'[w[i].run] = model[w[i].run] /\ chunks'[w[i].run] = chunks[w[i].run],
           pc[i] \in {"start"} \cup Building /\ w[i].incremental =>
                commit'[w[i].prior] = commit[w[i].prior] /\ model'[w[i].prior] = model[w[i].prior]
    PROVE  WorkerOK(i)'
<1>1. OwnOK(i)' /\ BaseOK(i)'
    BY DEF WorkerOK, OwnOK, BaseOK
<1>2. PartOK(i)'
    BY DEF WorkerOK, PartOK, Aim, Building
<1> QED BY <1>1, <1>2 DEF WorkerOK

\* Steps that change no run and take their worker, if any, to a place where
\* it builds none.
LEMMA AwayStep ==
    ASSUME Sound, NEW k \in Kind, UNCHANGED runVars, changes' = changes, UNCHANGED <<schema, embedding>>,
           \A i \in Kind \ {k} : pc'[i] = pc[i] /\ w'[i] = w[i],
           pc'[k] \notin {"start"} \cup Building,
           pc'[k] \in Leaving => pc[k] \in Building \cup Leaving /\ w'[k].run = w[k].run,
           w'[k].run \in {None, w[k].run}, w'[k].prior \in {None, w[k].prior},
           w'[k].seen \in {None, w[k].seen, active}
    PROVE  Sound'
<1>1. CfgOK' /\ ActiveOK'
    BY DEF Sound, CfgOK, ActiveOK, runVars
<1>2. ASSUME NEW i \in Kind \ {k} PROVE WorkerOK(i)'
    BY <1>2, SameWorker DEF Sound, runVars, WorkerOK, OwnOK
<1>3. WorkerOK(k)'
    BY DEF Sound, WorkerOK, OwnOK, BaseOK, PartOK, Building
<1>4. Apart'
  <2> SUFFICES ASSUME NEW a \in Kind, NEW i \in Kind
               PROVE  /\ a # i /\ w'[a].run \in Run => w'[i].run # w'[a].run
                      /\ pc'[a] \in Building => w'[a].run \notin {w'[i].prior, w'[i].seen}
      BY DEF Apart
  <2>1. a # i /\ w'[a].run \in Run => w'[i].run # w'[a].run
      BY RunAssumption DEF Sound, Apart
  <2>2. ASSUME pc'[a] \in Building PROVE w'[a].run \notin {w'[i].prior, w'[i].seen}
    <3>1. a # k /\ pc[a] \in Building /\ w'[a] = w[a] /\ w[a].run \in Run /\ w[a].run # active
        BY <2>2 DEF Sound, WorkerOK, OwnOK
    <3>2. w'[i].prior \in {None, w[i].prior} /\ w'[i].seen \in {None, w[i].seen, active}
        OBVIOUS
    <3>3. w[a].run \notin {w[i].prior, w[i].seen}
        BY <3>1 DEF Sound, Apart
    <3> QED BY <3>1, <3>2, <3>3, RunAssumption
  <2> QED BY <2>1, <2>2
<1> QED BY <1>1, <1>2, <1>3, <1>4 DEF Sound

-----------------------------------------------------------------------------
\* What queues jobs, and the embedder's change.

LEMMA StillStep ==
    ASSUME Sound, UNCHANGED <<runVars, pc, w, schema, embedding>>, changes' = changes
    PROVE  Sound'
<1>1. CfgOK' /\ ActiveOK' /\ Apart'
    BY DEF Sound, CfgOK, ActiveOK, Apart, runVars
<1>2. ASSUME NEW i \in Kind PROVE WorkerOK(i)'
    BY SameWorker DEF Sound, runVars, WorkerOK, OwnOK
<1> QED BY <1>1, <1>2 DEF Sound

LEMMA FaultTyped == ASSUME BoundTyped, Fault PROVE BoundTyped' /\ changes' = changes
BY CountAssumption DEF BoundTyped, Fault

LEMMA InsertJob == ASSUME JobTyped, NEW k \in Kind, Insert(k) PROVE JobTyped' /\ UNCHANGED <<pc, w>>
BY CountAssumption DEF JobTyped, Insert, None

LEMMA PushInv == ASSUME IInv, Push PROVE IInv'
<1>1. GitTyped'
    BY ChangedAssumption DEF Push, IInv, Typed, GitTyped, Commit
<1>2. Typed'
    BY <1>1 DEF Push, IInv, Typed, CfgTyped, RunTyped, JobTyped, GhostTyped, BoundTyped,
                cfgVars, runVars, jobVars, ghosts, bounds
<1>3. Sound'
    BY StillStep DEF Push, IInv, jobVars, cfgVars, bounds
<1> QED BY <1>2, <1>3 DEF IInv

LEMMA HookInv == ASSUME IInv, HookLost \/ Quiet PROVE IInv'
<1>1. GitTyped' /\ BoundTyped' /\ changes' = changes
  <2>1. BoundTyped /\ GitTyped /\ MaxCommit \in Nat
      BY ChangedAssumption DEF IInv, Typed
  <2>2. CASE HookLost
    <3>1. BoundTyped' /\ changes' = changes
        BY <2>1, <2>2, FaultTyped DEF HookLost
    <3>2. GitTyped'
        BY <2>1, <2>2 DEF HookLost, GitTyped, Commit
    <3> QED BY <3>1, <3>2
  <2>3. CASE Quiet
      BY <2>1, <2>3 DEF Quiet, GitTyped, BoundTyped, bounds
  <2> QED BY <2>2, <2>3
<1>2. UNCHANGED <<cfgVars, runVars, jobVars, ghosts>>
    BY DEF HookLost, Quiet
<1>3. Typed'
    BY <1>1, <1>2 DEF IInv, Typed, CfgTyped, RunTyped, JobTyped, GhostTyped, cfgVars, runVars, jobVars, ghosts
<1>4. Sound'
    BY <1>1, <1>2, StillStep DEF IInv, jobVars, cfgVars
<1> QED BY <1>3, <1>4 DEF IInv

LEMMA QueueInv == ASSUME IInv, Queue \/ Reindex PROVE IInv'
<1>1. JobTyped' /\ UNCHANGED <<pc, w>>
    BY InsertJob DEF Queue, PushHook, PollTip, Onboard, Reindex, IInv, Typed, Kind, jobVars, JobTyped
<1>2. UNCHANGED <<cfgVars, runVars>>
    BY DEF Queue, PushHook, PollTip, Onboard, Reindex
<1>3. GitTyped' /\ GhostTyped'
  <2>1. GitTyped /\ GhostTyped /\ MaxCommit \in Nat
      BY ChangedAssumption DEF IInv, Typed
  <2>2. CASE PushHook
    <3>1. GitTyped'
        BY <2>1, <2>2 DEF PushHook, GitTyped, Commit
    <3>2. missed' = missed /\ beside' \in BOOLEAN
        BY <2>1, <2>2 DEF PushHook, GhostTyped
    <3> QED BY <2>1, <3>1, <3>2 DEF GhostTyped
  <2>3. CASE UNCHANGED <<gitVars, ghosts>>
      BY <2>1, <2>3 DEF GitTyped, GhostTyped, gitVars, ghosts
  <2> QED BY <2>2, <2>3 DEF Queue, PollTip, Onboard, Reindex
<1>4. BoundTyped' /\ changes' = changes
    BY CountAssumption DEF Queue, PushHook, PollTip, Onboard, Reindex, IInv, Typed, BoundTyped, bounds
<1>5. Typed'
    BY <1>1, <1>2, <1>3, <1>4 DEF IInv, Typed, CfgTyped, RunTyped, cfgVars, runVars
<1>6. Sound'
    BY <1>1, <1>2, <1>4, StillStep DEF IInv, cfgVars
<1> QED BY <1>5, <1>6 DEF IInv

LEMMA RolledOutInv == ASSUME IInv, RolledOut PROVE IInv'
<1>1. Typed'
    BY DEF RolledOut, IInv, Typed, GitTyped, CfgTyped, RunTyped, JobTyped, GhostTyped, BoundTyped,
           gitVars, runVars, jobVars, ghosts, bounds
<1>2. Sound'
    BY StillStep DEF RolledOut, IInv, jobVars, bounds
<1> QED BY <1>1, <1>2 DEF IInv

\* From the first change of the embedder on, a generation may be a part.
LEMMA RolloutInv == ASSUME IInv, Rollout PROVE IInv'
<1>1. changes' = changes + 1 /\ changes \in Nat /\ changes' # 0 /\ UNCHANGED <<runVars, jobVars>>
    BY CountAssumption DEF Rollout, IInv, Typed, BoundTyped
<1>2. CfgTyped' /\ BoundTyped'
    BY CountAssumption DEF Rollout, IInv, Typed, CfgTyped, BoundTyped
<1>3. Typed'
    BY <1>2 DEF Rollout, IInv, Typed, GitTyped, RunTyped, JobTyped, GhostTyped, gitVars, runVars, jobVars, ghosts
<1>4. CfgOK' /\ ActiveOK' /\ Apart'
    BY <1>1 DEF IInv, Sound, CfgOK, ActiveOK, Apart, runVars, jobVars
<1>5. ASSUME NEW i \in Kind PROVE WorkerOK(i)'
  <2>1. OwnOK(i)' /\ BaseOK(i)'
      BY <1>1 DEF IInv, Sound, WorkerOK, OwnOK, BaseOK, runVars, jobVars
  <2>2. PartOK(i)'
      BY <1>1 DEF IInv, Sound, WorkerOK, PartOK, Aim, runVars, jobVars
  <2> QED BY <2>1, <2>2 DEF WorkerOK
<1> QED BY <1>3, <1>4, <1>5 DEF IInv, Sound

LEMMA SchemaInv == ASSUME IInv, EnsureIndexSchema PROVE IInv'
<1>1. /\ changes # 0 /\ changes' = changes /\ schema' = embedding' /\ active' = None
      /\ chunks' = [r \in Run |-> {}] /\ UNCHANGED <<commit, model, jobVars>>
    BY DEF EnsureIndexSchema, IInv, Sound, CfgOK, bounds
<1>2. RunTyped' /\ CfgTyped'
    BY DEF EnsureIndexSchema, IInv, Typed, RunTyped, CfgTyped
<1>3. Typed'
    BY <1>2 DEF EnsureIndexSchema, IInv, Typed, GitTyped, JobTyped, GhostTyped, BoundTyped,
                gitVars, jobVars, ghosts, bounds
<1>4. CfgOK' /\ ActiveOK' /\ Apart'
    BY <1>1 DEF IInv, Sound, CfgOK, ActiveOK, Apart, jobVars
<1>5. ASSUME NEW i \in Kind PROVE WorkerOK(i)'
  <2>1. OwnOK(i)' /\ BaseOK(i)'
      BY <1>1, RunAssumption DEF IInv, Sound, WorkerOK, OwnOK, BaseOK, jobVars
  <2>2. PartOK(i)'
      BY <1>1 DEF IInv, Sound, WorkerOK, OwnOK, PartOK, Aim, Building, jobVars
  <2> QED BY <2>1, <2>2 DEF WorkerOK
<1> QED BY <1>3, <1>4, <1>5 DEF IInv, Sound

-----------------------------------------------------------------------------
\* River, deaths and the Rescuer.

LEMMA EndedJob ==
    ASSUME JobTyped, NEW k \in Kind, NEW how \in {"ok", "error", "snooze"}, pc[k] # "idle", Ended(k, how)
    PROVE  JobTyped' /\ pc'[k] = "idle" /\ w'[k] = Blank /\ \A i \in Kind \ {k} : pc'[i] = pc[i] /\ w'[i] = w[i]
<1>1. state[k] = "running" /\ attempt[k] \in 1..MaxAttempts /\ MaxAttempts \in Nat
    BY CountAssumption DEF JobTyped
<1>2. state' \in [Kind -> {None, "queued", "running"}] /\ state'[k] \in {"queued", None}
      /\ (state'[k] = "queued" => how = "snooze" \/ attempt[k] < MaxAttempts)
    BY DEF JobTyped, Ended, None
<1>3. attempt' \in [Kind -> 0..MaxAttempts] /\ attempt'[k] = IF how = "snooze" THEN attempt[k] - 1 ELSE attempt[k]
    BY <1>1 DEF JobTyped, Ended
<1>4. pc' \in [Kind -> Place] /\ w' \in [Kind -> Local] /\ pc'[k] = "idle" /\ w'[k] = Blank
    BY BlankLocal DEF JobTyped, Ended, Place
<1>5. \A i \in Kind \ {k} : state'[i] = state[i] /\ attempt'[i] = attempt[i] /\ pc'[i] = pc[i] /\ w'[i] = w[i]
    BY DEF JobTyped, Ended
<1>6. state'[k] = "queued" => attempt'[k] < MaxAttempts
    BY <1>1, <1>2, <1>3
<1>7. state'[k] # "running"
    BY <1>2 DEF None
<1>8. \A i \in Kind :
        /\ state'[i] = "running" <=> pc'[i] # "idle"
        /\ state'[i] = "queued" => attempt'[i] < MaxAttempts
        /\ state'[i] = "running" => attempt'[i] >= 1
    BY <1>4, <1>5, <1>6, <1>7 DEF JobTyped
<1> QED BY <1>2, <1>3, <1>4, <1>5, <1>8 DEF JobTyped

LEMMA IdleAway ==
    ASSUME Sound, NEW k \in Kind, UNCHANGED <<runVars, cfgVars>>, changes' = changes,
           \A i \in Kind \ {k} : pc'[i] = pc[i] /\ w'[i] = w[i],
           pc'[k] \in {"idle", "dead"}, w'[k] = Blank
    PROVE  Sound'
BY AwayStep DEF Blank, Building, Leaving, cfgVars

LEMMA FetchInv == ASSUME IInv, NEW k \in Kind, Fetch(k) PROVE IInv'
<1>1. JobTyped'
    BY CountAssumption DEF Fetch, IInv, Typed, JobTyped, Place, Working, Starting, None
<1>2. pc'[k] = "open" /\ w' = w /\ (\A i \in Kind \ {k} : pc'[i] = pc[i])
    BY DEF Fetch, IInv, Typed, JobTyped
<1>3. Typed'
    BY <1>1 DEF Fetch, IInv, Typed, GitTyped, CfgTyped, RunTyped, GhostTyped, BoundTyped,
                gitVars, cfgVars, runVars, ghosts, bounds
<1>4. Sound'
    BY <1>2, AwayStep DEF Fetch, IInv, Building, Leaving, cfgVars, bounds
<1> QED BY <1>3, <1>4 DEF IInv

LEMMA FinishInv == ASSUME IInv, NEW k \in Kind, Finish(k) PROVE IInv'
<1>1. w[k].ret \in {"ok", "error", "snooze"}
    BY LocalFields DEF IInv, Typed, JobTyped
<1>2. JobTyped' /\ pc'[k] = "idle" /\ w'[k] = Blank /\ \A i \in Kind \ {k} : pc'[i] = pc[i] /\ w'[i] = w[i]
    BY <1>1, EndedJob DEF Finish, IInv, Typed
<1>3. GhostTyped'
    BY DEF Finish, IInv, Typed, GhostTyped
<1>4. Typed'
    BY <1>2, <1>3 DEF Finish, IInv, Typed, GitTyped, CfgTyped, RunTyped, BoundTyped,
                      gitVars, cfgVars, runVars, bounds
<1>5. Sound'
    BY <1>2, IdleAway DEF Finish, IInv, bounds
<1> QED BY <1>4, <1>5 DEF IInv

LEMMA RescueInv == ASSUME IInv, NEW k \in Kind, Rescue(k) PROVE IInv'
<1>1. JobTyped' /\ pc'[k] = "idle" /\ w'[k] = Blank /\ \A i \in Kind \ {k} : pc'[i] = pc[i] /\ w'[i] = w[i]
    BY EndedJob DEF Rescue, IInv, Typed
<1>2. Typed'
    BY <1>1 DEF Rescue, IInv, Typed, GitTyped, CfgTyped, RunTyped, GhostTyped, BoundTyped,
                gitVars, cfgVars, runVars, ghosts, bounds
<1>3. Sound'
    BY <1>1, IdleAway DEF Rescue, IInv, bounds
<1> QED BY <1>2, <1>3 DEF IInv

LEMMA CrashInv == ASSUME IInv, NEW k \in Kind, Crash(k) PROVE IInv'
<1>1. JobTyped' /\ pc'[k] = "dead" /\ w'[k] = Blank /\ \A i \in Kind \ {k} : pc'[i] = pc[i] /\ w'[i] = w[i]
    BY BlankLocal DEF Crash, IInv, Typed, JobTyped, Place, Working, Starting, Building, Leaving
<1>2. BoundTyped' /\ changes' = changes
    BY FaultTyped DEF Crash, IInv, Typed
<1>3. Typed'
    BY <1>1, <1>2 DEF Crash, IInv, Typed, GitTyped, CfgTyped, RunTyped, GhostTyped, gitVars, cfgVars, runVars, ghosts
<1>4. Sound'
    BY <1>1, <1>2, IdleAway DEF Crash, IInv
<1> QED BY <1>3, <1>4 DEF IInv

-----------------------------------------------------------------------------
\* The steps of Work that change no run.

LEMMA StepEffect ==
    ASSUME JobTyped, NEW k \in Kind, NEW from, NEW to, NEW local, Step(k, from, to, local)
    PROVE  /\ pc[k] = from /\ pc'[k] = to /\ w'[k] = local /\ UNCHANGED <<gitVars, cfgVars>>
           /\ \A i \in Kind \ {k} : pc'[i] = pc[i] /\ w'[i] = w[i]
BY DEF JobTyped, Step, Frame

LEMMA WorkTyped ==
    ASSUME IInv, JobTyped', RunTyped', GhostTyped', BoundTyped', UNCHANGED <<gitVars, cfgVars>>
    PROVE  Typed'
BY DEF IInv, Typed, GitTyped, CfgTyped, gitVars, cfgVars

LEMMA SameTyped ==
    /\ RunTyped /\ UNCHANGED runVars => RunTyped'
    /\ GhostTyped /\ UNCHANGED ghosts => GhostTyped'
    /\ BoundTyped /\ UNCHANGED bounds => BoundTyped' /\ changes' = changes
BY DEF RunTyped, GhostTyped, BoundTyped, runVars, ghosts, bounds

LEMMA OpenInv == ASSUME IInv, NEW k \in Kind, Open(k) PROVE IInv'
<1>1. PICK m \in files : Step(k, "open", "tip", [w[k] EXCEPT !.file = m, !.seen = active])
    BY DEF Open
<1>2. [w[k] EXCEPT !.file = m, !.seen = active] \in Local
    BY ZenonT(30) DEF IInv, Typed, JobTyped, CfgTyped, RunTyped, Local
<1>3. JobTyped'
    BY <1>1, <1>2, StepJob DEF IInv, Typed, Working, Starting
<1>4. RunTyped' /\ BoundTyped' /\ changes' = changes
    BY SameTyped DEF Open, IInv, Typed
<1>5. GhostTyped'
    BY DEF Open, IInv, Typed, GhostTyped
<1>6. w[k] \in Local
    BY DEF IInv, Typed, JobTyped
<1>7. /\ pc'[k] = "tip" /\ w'[k].run = w[k].run /\ w'[k].prior = w[k].prior /\ w'[k].seen = active
      /\ UNCHANGED <<gitVars, cfgVars>> /\ \A i \in Kind \ {k} : pc'[i] = pc[i] /\ w'[i] = w[i]
  <2>1. /\ pc'[k] = "tip" /\ w'[k] = [w[k] EXCEPT !.file = m, !.seen = active]
        /\ UNCHANGED <<gitVars, cfgVars>> /\ \A i \in Kind \ {k} : pc'[i] = pc[i] /\ w'[i] = w[i]
      BY <1>1, StepEffect DEF IInv, Typed
  <2>2. w'[k].run = w[k].run /\ w'[k].prior = w[k].prior /\ w'[k].seen = active
      BY <1>6, <2>1 DEF Local
  <2> QED BY <2>1, <2>2
<1>8. Sound'
    BY <1>4, <1>7, AwayStep DEF Open, IInv, Building, Leaving, cfgVars
<1> QED BY <1>3, <1>4, <1>5, <1>7, <1>8, WorkTyped DEF IInv

LEMMA BranchTipInv == ASSUME IInv, NEW k \in Kind, BranchTip(k) PROVE IInv'
<1>1. Step(k, "tip", "decide", [w[k] EXCEPT !.target = tip, !.looked = tip]) /\ w[k] \in Local
    BY DEF BranchTip, IInv, Typed, JobTyped
<1>2. [w[k] EXCEPT !.target = tip, !.looked = tip] \in Local
    BY <1>1 DEF IInv, Typed, GitTyped, Local
<1>3. JobTyped'
    BY <1>1, <1>2, StepJob DEF IInv, Typed, Working, Starting
<1>4. RunTyped' /\ GhostTyped' /\ BoundTyped' /\ changes' = changes
    BY SameTyped DEF BranchTip, IInv, Typed
<1>5. /\ pc'[k] = "decide" /\ w'[k].run = w[k].run /\ w'[k].prior = w[k].prior /\ w'[k].seen = w[k].seen
      /\ UNCHANGED <<gitVars, cfgVars>> /\ \A i \in Kind \ {k} : pc'[i] = pc[i] /\ w'[i] = w[i]
  <2>1. /\ pc'[k] = "decide" /\ w'[k] = [w[k] EXCEPT !.target = tip, !.looked = tip]
        /\ UNCHANGED <<gitVars, cfgVars>> /\ \A i \in Kind \ {k} : pc'[i] = pc[i] /\ w'[i] = w[i]
      BY <1>1, StepEffect DEF IInv, Typed
  <2>2. w'[k].run = w[k].run /\ w'[k].prior = w[k].prior /\ w'[k].seen = w[k].seen
      BY <1>1, <2>1 DEF Local
  <2> QED BY <2>1, <2>2
<1>6. Sound'
    BY <1>4, <1>5, AwayStep DEF BranchTip, IInv, Building, Leaving, cfgVars
<1> QED BY <1>3, <1>4, <1>5, <1>6, WorkTyped DEF IInv

\* A return before the run, and the ways out after it.
LEMMA ReturnInv ==
    ASSUME IInv, NEW k \in Kind, NEW from, from # "idle", NEW r \in {"ok", "error"}, Return(k, from, r),
           UNCHANGED <<runVars, ghosts>>, BoundTyped', changes' = changes
    PROVE  IInv'
<1>1. JobTyped' /\ RunTyped' /\ GhostTyped'
    BY ReturnJob, SameTyped DEF IInv, Typed
<1>2. /\ pc'[k] = "returned" /\ w'[k] = [Blank EXCEPT !.looked = w[k].looked, !.ret = r]
      /\ UNCHANGED <<gitVars, cfgVars>> /\ \A i \in Kind \ {k} : pc'[i] = pc[i] /\ w'[i] = w[i]
    BY StepEffect DEF Return, IInv, Typed
<1>3. w'[k].run = None /\ w'[k].prior = None /\ w'[k].seen = None
    BY <1>2 DEF Blank
<1>4. Sound'
    BY <1>2, <1>3, AwayStep DEF IInv, Building, Leaving, cfgVars
<1> QED BY <1>1, <1>2, <1>4, WorkTyped DEF IInv

LEMMA LeaveSound ==
    ASSUME IInv, NEW k \in Kind, NEW from \in Building \cup Leaving, NEW to \in Leaving,
           NEW r, NEW looked, Leave(k, from, to, r, looked), UNCHANGED runVars, changes' = changes
    PROVE  Sound'
<1>1. /\ pc[k] = from /\ pc'[k] = to /\ w'[k] = [Blank EXCEPT !.run = w[k].run, !.looked = looked, !.ret = r]
      /\ UNCHANGED <<gitVars, cfgVars>> /\ \A i \in Kind \ {k} : pc'[i] = pc[i] /\ w'[i] = w[i]
    BY StepEffect DEF Leave, IInv, Typed
<1>2. w'[k].run = w[k].run /\ w'[k].prior = None /\ w'[k].seen = None
    BY <1>1 DEF Blank
<1> QED BY <1>1, <1>2, AwayStep DEF IInv, Building, Leaving, cfgVars

LEMMA LeaveInv ==
    ASSUME IInv, NEW k \in Kind, NEW from \in Building \cup Leaving, NEW to \in Leaving,
           NEW r \in {"ok", "error", "snooze"}, NEW looked \in Commit, Leave(k, from, to, r, looked),
           UNCHANGED <<runVars, ghosts>>, BoundTyped', changes' = changes
    PROVE  IInv'
<1>1. JobTyped' /\ RunTyped' /\ GhostTyped'
    BY LeaveJob, SameTyped DEF IInv, Typed, Building, Leaving
<1>2. UNCHANGED <<gitVars, cfgVars>>
    BY DEF Leave, Step, Frame
<1>3. Sound'
    BY LeaveSound
<1> QED BY <1>1, <1>2, <1>3, WorkTyped DEF IInv

LEMMA InsertFailsInv == ASSUME IInv, NEW k \in Kind, InsertFails(k) PROVE IInv'
<1>1. BoundTyped' /\ changes' = changes
    BY SameTyped DEF InsertFails, IInv, Typed
<1> QED BY <1>1, LeaveInv, ChangedAssumption DEF InsertFails, Building, Leaving, Commit

LEMMA RecheckInv == ASSUME IInv, NEW k \in Kind, Recheck(k) PROVE IInv'
<1>1. BoundTyped' /\ changes' = changes
    BY SameTyped DEF Recheck, IInv, Typed
<1>2. tip \in Commit /\ w[k].looked \in Commit
    BY LocalFields DEF IInv, Typed, GitTyped, JobTyped
<1>3. (IF Moved(k) THEN "snooze" ELSE "ok") \in {"ok", "error", "snooze"}
      /\ (IF k = "update" THEN tip ELSE w[k].looked) \in Commit
    BY <1>2
<1> QED BY <1>1, <1>3, LeaveInv DEF Recheck, Building, Leaving

\* A worker whose other variables keep their run apart, as the rest of the
\* workers' do.
LEMMA ApartStep ==
    ASSUME Sound, NEW k \in Kind, \A i \in Kind \ {k} : pc'[i] = pc[i] /\ w'[i] = w[i],
           w'[k].run \in {None, w[k].run}, w'[k].prior \in {None, w[k].prior, w[k].seen},
           w'[k].seen \in {None, w[k].seen},
           pc'[k] \in Building => pc[k] \in Building /\ w'[k].run = w[k].run
    PROVE  Apart'
<1> SUFFICES ASSUME NEW a \in Kind, NEW i \in Kind
             PROVE  /\ a # i /\ w'[a].run \in Run => w'[i].run # w'[a].run
                    /\ pc'[a] \in Building => w'[a].run \notin {w'[i].prior, w'[i].seen}
    BY DEF Apart
<1>1. a # i /\ w'[a].run \in Run => w'[i].run # w'[a].run
    BY RunAssumption DEF Sound, Apart
<1>2. ASSUME pc'[a] \in Building PROVE w'[a].run \notin {w'[i].prior, w'[i].seen}
  <2>1. pc[a] \in Building /\ w[a].run \in Run /\ w'[a].run = w[a].run
      BY <1>2 DEF Sound, WorkerOK, OwnOK
  <2>2. w[a].run \notin {w[i].prior, w[i].seen}
      BY <2>1 DEF Sound, Apart
  <2>3. w'[i].prior \in {None, w[i].prior, w[i].seen} /\ w'[i].seen \in {None, w[i].seen}
      OBVIOUS
  <2> QED BY <2>1, <2>2, <2>3, RunAssumption
<1> QED BY <1>1, <1>2

LEMMA DecideInv == ASSUME IInv, NEW k \in Kind, Decide(k) PROVE IInv'
<1> DEFINE prior == IF w[k].seen # None /\ status[w[k].seen] = "completed" THEN w[k].seen ELSE None
           fits == Fits(k, prior)
           local == [w[k] EXCEPT !.seen = None, !.prior = prior, !.incremental = fits,
                                 !.base = IF fits THEN commit[prior] ELSE 0]
<1>1. UNCHANGED <<runVars, ghosts, bounds>> /\ w[k] \in Local /\ BoundTyped' /\ changes' = changes
    BY SameTyped DEF Decide, IInv, Typed, JobTyped
<1>2. CASE Return(k, "decide", "ok")
    BY <1>1, <1>2, ReturnInv
<1>3. CASE Step(k, "decide", "start", local)
  <2>1. prior \in Run \cup {None} /\ prior \in {None, w[k].seen}
      BY <1>1, LocalFields
  <2>2. fits \in BOOLEAN /\ (fits => k = "update" /\ prior \in Run /\ model[prior] = w[k].file)
      BY <2>1 DEF Fits
  <2>3. (IF fits THEN commit[prior] ELSE 0) \in Commit
      BY <2>2, ChangedAssumption DEF IInv, Typed, RunTyped, Commit
  <2>4. local \in Local /\ local.run = w[k].run /\ local.prior = prior /\ local.seen = None
        /\ local.incremental = fits /\ local.file = w[k].file /\ local.base = IF fits THEN commit[prior] ELSE 0
    <3> HIDE DEF prior, fits
    <3> QED BY <1>1, <2>1, <2>2, <2>3 DEF Local
  <2> HIDE DEF local
  <2>5. JobTyped' /\ RunTyped' /\ GhostTyped'
      BY <1>1, <1>3, <2>4, StepJob, SameTyped DEF IInv, Typed, Working, Starting
  <2>6. /\ pc'[k] = "start" /\ w'[k] = local /\ UNCHANGED <<gitVars, cfgVars>>
        /\ \A i \in Kind \ {k} : pc'[i] = pc[i] /\ w'[i] = w[i]
      BY <1>3, StepEffect DEF IInv, Typed
  <2>7. CfgOK' /\ ActiveOK'
      BY <1>1, <2>6 DEF IInv, Sound, CfgOK, ActiveOK, runVars, cfgVars
  <2>8. Apart'
      BY <2>1, <2>4, <2>6, ApartStep DEF IInv, Building
  <2>9. WorkerOK(k)'
    <3>1. OwnOK(k)' /\ PartOK(k)'
        BY <2>6 DEF OwnOK, PartOK, Building, Leaving
    <3>2. BaseOK(k)'
        BY <1>1, <2>2, <2>4, <2>6 DEF BaseOK, runVars
    <3> QED BY <3>1, <3>2 DEF WorkerOK
  <2>10. ASSUME NEW i \in Kind \ {k} PROVE WorkerOK(i)'
      BY <1>1, <2>6, <2>10, SameWorker DEF IInv, Sound, WorkerOK, OwnOK, runVars
  <2> QED BY <1>1, <2>5, <2>6, <2>7, <2>8, <2>9, <2>10, WorkTyped DEF IInv, Sound
<1> QED BY <1>2, <1>3 DEF Decide

LEMMA RunIndexInv == ASSUME IInv, NEW k \in Kind, RunIndex(k) PROVE IInv'
<1>1. PICK inc \in {w[k].incremental, FALSE} :
        LET paths == IF inc THEN Differ(w[k].base, w[k].target) ELSE Path
        IN Step(k, "runner", IF paths = {} THEN "swap" ELSE "embed",
                [w[k] EXCEPT !.incremental = inc, !.left = paths])
    BY DEF RunIndex
<1> DEFINE paths == IF inc THEN Differ(w[k].base, w[k].target) ELSE Path
           local == [w[k] EXCEPT !.incremental = inc, !.left = paths]
           to == IF paths = {} THEN "swap" ELSE "embed"
<1>2. UNCHANGED <<runVars, ghosts, bounds>> /\ w[k] \in Local /\ BoundTyped' /\ changes' = changes
    BY SameTyped DEF RunIndex, IInv, Typed, JobTyped
<1>3. paths \subseteq Path /\ inc \in BOOLEAN
    BY <1>2, LocalFields DEF Differ
<1>4. /\ local \in Local /\ local.run = w[k].run /\ local.prior = w[k].prior /\ local.seen = w[k].seen
      /\ local.incremental = inc /\ local.left = paths /\ local.file = w[k].file
      /\ local.base = w[k].base /\ local.target = w[k].target
  <2> HIDE DEF paths
  <2> QED BY <1>2, <1>3 DEF Local
<1>5. Step(k, "runner", to, local) /\ to \in {"embed", "swap"} /\ (to = "swap" => paths = {})
    BY <1>1
<1> HIDE DEF local, to
<1>6. JobTyped' /\ RunTyped' /\ GhostTyped'
    BY <1>2, <1>4, <1>5, StepJob, SameTyped DEF IInv, Typed, Working, Building
<1>7. /\ pc[k] = "runner" /\ pc'[k] = to /\ w'[k] = local /\ UNCHANGED <<gitVars, cfgVars>>
      /\ \A i \in Kind \ {k} : pc'[i] = pc[i] /\ w'[i] = w[i]
    BY <1>5, StepEffect DEF IInv, Typed
<1>8. CfgOK' /\ ActiveOK'
    BY <1>2, <1>7 DEF IInv, Sound, CfgOK, ActiveOK, runVars, cfgVars
<1>9. Apart'
    BY <1>4, <1>7, ApartStep DEF IInv, Building
<1>10. WorkerOK(k)'
  <2>1. OwnOK(k)' /\ BaseOK(k)'
    <3>1. UNCHANGED <<active, commit, model>> /\ pc[k] \in Building /\ OwnOK(k) /\ BaseOK(k)
        BY <1>2, <1>7 DEF IInv, Sound, WorkerOK, Building, runVars
    <3>2. OwnOK(k)'
        BY <1>4, <1>7, <3>1 DEF OwnOK
    <3>3. w'[k].incremental => w[k].incremental
        BY <1>4, <1>7
    <3>4. BaseOK(k)'
        BY <1>4, <1>7, <3>1, <3>3 DEF BaseOK
    <3> QED BY <3>2, <3>4
  <2>2. Aim(k)' = paths
      BY <1>4, <1>7 DEF Aim
  <2>3. chunks'[w'[k].run] = {} /\ w'[k].left = paths
      BY <1>2, <1>4, <1>7 DEF IInv, Sound, WorkerOK, PartOK, runVars
  <2>4. Parts(Aim(k)' \ w'[k].left, w'[k].target, w'[k].file) = {}
      BY <2>2, <2>3 DEF Parts
  <2>5. PartOK(k)'
      BY <1>5, <1>7, <2>2, <2>3, <2>4 DEF PartOK
  <2> QED BY <2>1, <2>5 DEF WorkerOK
<1>11. ASSUME NEW i \in Kind \ {k} PROVE WorkerOK(i)'
    BY <1>2, <1>7, <1>11, SameWorker DEF IInv, Sound, WorkerOK, OwnOK, runVars
<1> QED BY <1>2, <1>6, <1>7, <1>8, <1>9, <1>10, <1>11, WorkTyped DEF IInv, Sound

-----------------------------------------------------------------------------
\* The steps of Work that change runs.

LEMMA StartInv == ASSUME IInv, NEW k \in Kind, StartIndexRun(k) PROVE IInv'
<1>1. PICK r \in Unused :
        /\ Step(k, "start", "runner", [w[k] EXCEPT !.run = r])
        /\ status' = Recycled(status, None, r, "running")
        /\ commit' = Recycled(commit, 0, r, w[k].target)
        /\ model' = Recycled(model, FirstModel, r, w[k].file)
        /\ chunks' = [x \in Run |-> IF Stray(x) THEN {} ELSE chunks[x]]
        /\ active' = active /\ UNCHANGED <<ghosts, bounds>>
    BY DEF StartIndexRun
<1> DEFINE local == [w[k] EXCEPT !.run = r]
<1>2. w[k] \in Local /\ r \in Run /\ r # active /\ \A i \in Kind : r \notin {w[i].run, w[i].prior, w[i].seen}
    BY <1>1 DEF Unused, IInv, Typed, JobTyped
<1>3. local \in Local /\ local.run = r /\ local.prior = w[k].prior /\ local.seen = w[k].seen
      /\ local.incremental = w[k].incremental /\ local.file = w[k].file
      /\ local.base = w[k].base /\ local.target = w[k].target
    BY <1>2 DEF Local
<1> HIDE DEF local
<1>4. JobTyped' /\ RunTyped' /\ GhostTyped' /\ BoundTyped' /\ changes' = changes
    BY <1>1, <1>2, <1>3, StepJob, StartTyped, SameTyped DEF IInv, Typed, Working, Building, local
<1>5. /\ pc[k] = "start" /\ pc'[k] = "runner" /\ w'[k] = local /\ UNCHANGED <<gitVars, cfgVars>>
      /\ \A i \in Kind \ {k} : pc'[i] = pc[i] /\ w'[i] = w[i]
    BY <1>1, StepEffect DEF IInv, Typed, local
<1>6. ASSUME NEW x \in Run, x \notin Unused
      PROVE  status'[x] = status[x] /\ commit'[x] = commit[x] /\ model'[x] = model[x]
    BY <1>1, <1>6 DEF Recycled
<1>7. ASSUME NEW x \in Run, x = active \/ \E i \in Kind : x = w[i].run PROVE x \notin Unused /\ chunks'[x] = chunks[x]
    BY <1>1, <1>7 DEF Unused, Stray
<1>8. commit'[r] = w[k].target /\ model'[r] = w[k].file /\ chunks'[r] = {}
    BY <1>1, <1>2 DEF Recycled, Stray
<1>9. CfgOK'
    BY <1>4, <1>5 DEF IInv, Sound, CfgOK, cfgVars
<1>10. ActiveOK'
  <2>1. CASE active = None
      BY <1>1, <2>1 DEF ActiveOK
  <2>2. CASE active # None
    <3>1. active \in Run
        BY <2>2 DEF IInv, Typed, RunTyped
    <3>2. status'[active] = status[active] /\ commit'[active] = commit[active] /\ model'[active] = model[active]
          /\ chunks'[active] = chunks[active]
        BY <1>6, <1>7, <3>1
    <3> QED BY <1>1, <1>4, <3>2 DEF IInv, Sound, ActiveOK
  <2> QED BY <2>1, <2>2
<1>11. Apart'
  <2> SUFFICES ASSUME NEW a \in Kind, NEW i \in Kind
               PROVE  /\ a # i /\ w'[a].run \in Run => w'[i].run # w'[a].run
                      /\ pc'[a] \in Building => w'[a].run \notin {w'[i].prior, w'[i].seen}
      BY DEF Apart
  <2>1. w'[i].prior = w[i].prior /\ w'[i].seen = w[i].seen
      BY <1>3, <1>5
  <2>2. CASE a = k
      BY <1>2, <1>3, <1>5, <2>1, <2>2
  <2>3. CASE a # k
      BY <1>2, <1>3, <1>5, <2>1, <2>3 DEF IInv, Sound, Apart
  <2> QED BY <2>2, <2>3
<1>12. WorkerOK(k)'
  <2>1. OwnOK(k)'
      BY <1>1, <1>2, <1>3, <1>5, <1>8 DEF OwnOK
  <2>2. BaseOK(k)'
    <3> SUFFICES ASSUME w[k].incremental PROVE BaseOK(k)'
        BY <1>3, <1>5 DEF BaseOK
    <3>1. k = "update" /\ w[k].prior \in Run /\ commit[w[k].prior] = w[k].base /\ model[w[k].prior] = w[k].file
        BY <1>5 DEF IInv, Sound, WorkerOK, BaseOK
    <3>2. w[k].prior \notin Unused
        BY DEF Unused
    <3> QED BY <1>3, <1>5, <1>6, <3>1, <3>2 DEF BaseOK
  <2>3. PartOK(k)'
      BY <1>3, <1>5, <1>8 DEF PartOK
  <2> QED BY <2>1, <2>2, <2>3 DEF WorkerOK
<1>13. ASSUME NEW i \in Kind \ {k} PROVE WorkerOK(i)'
  <2>1. WorkerOK(i)
      BY DEF IInv, Sound
  <2>2. pc[i] \in Building =>
            /\ active' # w[i].run /\ commit'[w[i].run] = commit[w[i].run]
            /\ model'[w[i].run] = model[w[i].run] /\ chunks'[w[i].run] = chunks[w[i].run]
      BY <1>1, <1>6, <1>7, <2>1 DEF WorkerOK, OwnOK
  <2>3. pc[i] \in {"start"} \cup Building /\ w[i].incremental =>
            commit'[w[i].prior] = commit[w[i].prior] /\ model'[w[i].prior] = model[w[i].prior]
    <3>1. w[i].prior \notin Unused
        BY DEF Unused
    <3> QED BY <1>6, <2>1, <3>1 DEF WorkerOK, BaseOK
  <2> QED BY <1>4, <1>5, <2>1, <2>2, <2>3, SameWorker
<1> QED BY <1>4, <1>5, <1>9, <1>10, <1>11, <1>12, <1>13, WorkTyped DEF IInv, Sound

\* A step that changes the chunks of the run its worker builds, or a row that
\* is no worker's and not active, is seen by nobody else.
LEMMA ActiveStep ==
    ASSUME IInv, active' = active, changes' = changes,
           active \in Run => /\ chunks'[active] = chunks[active] /\ commit'[active] = commit[active]
                             /\ model'[active] = model[active]
                             /\ (status'[active] = "completed" => status[active] = "completed")
    PROVE  ActiveOK'
<1>1. active # None => active \in Run
    BY DEF IInv, Typed, RunTyped
<1> QED BY <1>1 DEF IInv, Sound, ActiveOK

LEMMA EmbedInv == ASSUME IInv, NEW k \in Kind, Embed(k) PROVE IInv'
<1>1. PICK p \in w[k].left :
        /\ Step(k, "embed", IF w[k].left = {p} THEN "swap" ELSE "embed", [w[k] EXCEPT !.left = @ \ {p}])
        /\ chunks' = [chunks EXCEPT ![w[k].run] = @ \cup {<<p, Version(w[k].target, p), w[k].file>>}]
        /\ UNCHANGED <<active, status, commit, model, ghosts, bounds>>
    BY DEF Embed
<1> DEFINE local == [w[k] EXCEPT !.left = @ \ {p}]
           to == IF w[k].left = {p} THEN "swap" ELSE "embed"
           new == <<p, Version(w[k].target, p), w[k].file>>
<1>2. w[k] \in Local
    BY DEF IInv, Typed, JobTyped
<1>3. local \in Local /\ local.run = w[k].run /\ local.prior = w[k].prior /\ local.seen = w[k].seen
      /\ local.incremental = w[k].incremental /\ local.file = w[k].file
      /\ local.base = w[k].base /\ local.target = w[k].target /\ local.left = w[k].left \ {p}
    BY <1>2 DEF Local
<1>4. Step(k, "embed", to, local) /\ to \in {"embed", "swap"} /\ (to = "swap" => w[k].left = {p})
    BY <1>1
<1> HIDE DEF local, to
<1>5. /\ pc[k] = "embed" /\ pc'[k] = to /\ w'[k] = local /\ UNCHANGED <<gitVars, cfgVars>>
      /\ \A i \in Kind \ {k} : pc'[i] = pc[i] /\ w'[i] = w[i]
    BY <1>4, StepEffect DEF IInv, Typed
<1>6. w[k].run \in Run /\ w[k].run # active /\ w[k].left \subseteq Aim(k) /\ OwnOK(k) /\ BaseOK(k)
    BY <1>5 DEF IInv, Sound, WorkerOK, OwnOK, PartOK, Building
<1>7. new \in Chunk
    BY <1>2, LocalFields, TreeTyped
<1>8. RunTyped'
    BY <1>1, <1>6, <1>7 DEF IInv, Typed, RunTyped
<1>9. JobTyped' /\ GhostTyped' /\ BoundTyped' /\ changes' = changes
    BY <1>1, <1>3, <1>4, StepJob, SameTyped DEF IInv, Typed, Working, Building
<1>10. chunks'[w[k].run] = chunks[w[k].run] \cup {new} /\ \A x \in Run \ {w[k].run} : chunks'[x] = chunks[x]
    BY <1>1, <1>6 DEF IInv, Typed, RunTyped
<1>11. CfgOK' /\ ActiveOK'
    BY <1>1, <1>5, <1>6, <1>9, <1>10, ActiveStep DEF IInv, Sound, CfgOK, cfgVars
<1>12. Apart'
    BY <1>3, <1>5, ApartStep DEF IInv, Building
<1>13. WorkerOK(k)'
  <2>1. OwnOK(k)' /\ BaseOK(k)'
      BY <1>1, <1>3, <1>4, <1>5, <1>6 DEF OwnOK, BaseOK, Building, Leaving
  <2>2. Aim(k)' = Aim(k)
      BY <1>3, <1>5 DEF Aim
  <2>3. Parts(Aim(k) \ (w[k].left \ {p}), w[k].target, w[k].file)
            = Parts(Aim(k) \ w[k].left, w[k].target, w[k].file) \cup {new}
      BY <1>6 DEF Parts
  <2>4. /\ chunks[w[k].run] \subseteq Parts(Aim(k) \ w[k].left, w[k].target, w[k].file)
        /\ changes = 0 => chunks[w[k].run] = Parts(Aim(k) \ w[k].left, w[k].target, w[k].file)
      BY <1>5 DEF IInv, Sound, WorkerOK, PartOK
  <2>5. w'[k].left \subseteq Aim(k)' /\ (pc'[k] = "swap" => w'[k].left = {})
      BY <1>3, <1>4, <1>5, <1>6, <2>2
  <2>6. PartOK(k)'
      BY <1>3, <1>4, <1>5, <1>9, <1>10, <2>2, <2>3, <2>4, <2>5 DEF PartOK
  <2> QED BY <2>1, <2>6 DEF WorkerOK
<1>14. ASSUME NEW i \in Kind \ {k} PROVE WorkerOK(i)'
  <2>1. WorkerOK(i) /\ (w[i].run \in Run => w[i].run # w[k].run)
      BY <1>6 DEF IInv, Sound, Apart
  <2>2. pc[i] \in Building => w[i].run \in Run /\ w[i].run # active /\ chunks'[w[i].run] = chunks[w[i].run]
      BY <1>10, <2>1 DEF WorkerOK, OwnOK
  <2> QED BY <1>1, <1>5, <1>9, <2>1, <2>2, SameWorker
<1> QED BY <1>5, <1>8, <1>9, <1>11, <1>12, <1>13, <1>14, WorkTyped DEF IInv, Sound

\* FailRun, and Clear of a run that is not active.
LEMMA FailRunInv == ASSUME IInv, NEW k \in Kind, FailRun(k) PROVE IInv'
<1>1. Go(k, "failing", "clearing") /\ status' = [status EXCEPT ![w[k].run] = "failed"]
      /\ UNCHANGED <<active, commit, model, chunks, ghosts, bounds>>
    BY DEF FailRun
<1>2. /\ pc[k] = "failing" /\ pc'[k] = "clearing" /\ w'[k] = w[k] /\ UNCHANGED <<gitVars, cfgVars>>
      /\ \A i \in Kind \ {k} : pc'[i] = pc[i] /\ w'[i] = w[i]
    BY <1>1, StepEffect DEF Go, IInv, Typed
<1>3. JobTyped' /\ GhostTyped' /\ BoundTyped' /\ changes' = changes
    BY <1>1, GoJob, SameTyped DEF IInv, Typed, Working, Leaving
<1>4. RunTyped'
    BY <1>1 DEF IInv, Typed, RunTyped
<1>5. CfgOK' /\ ActiveOK'
    BY <1>1, <1>2, <1>3, ActiveStep DEF IInv, Sound, CfgOK, cfgVars, Typed, RunTyped
<1>6. Apart'
    BY <1>2, ApartStep DEF IInv, Building
<1>7. WorkerOK(k)'
    BY <1>2 DEF IInv, Sound, WorkerOK, OwnOK, BaseOK, PartOK, Building, Leaving
<1>8. ASSUME NEW i \in Kind \ {k} PROVE WorkerOK(i)'
    BY <1>1, <1>2, <1>3, SameWorker DEF IInv, Sound, WorkerOK, OwnOK
<1> QED BY <1>2, <1>3, <1>4, <1>5, <1>6, <1>7, <1>8, WorkTyped DEF IInv, Sound

LEMMA ClearInv == ASSUME IInv, NEW k \in Kind, Clear(k) PROVE IInv'
<1>1. Go(k, "clearing", "returned") /\ chunks' = ClearStaging(k)
      /\ UNCHANGED <<active, status, commit, model, ghosts, bounds>>
    BY DEF Clear
<1>2. /\ pc[k] = "clearing" /\ pc'[k] = "returned" /\ w'[k] = w[k] /\ UNCHANGED <<gitVars, cfgVars>>
      /\ \A i \in Kind \ {k} : pc'[i] = pc[i] /\ w'[i] = w[i]
    BY <1>1, StepEffect DEF Go, IInv, Typed
<1>3. JobTyped' /\ GhostTyped' /\ BoundTyped' /\ changes' = changes
    BY <1>1, GoJob, SameTyped DEF IInv, Typed
<1>4. RunTyped'
    BY <1>1 DEF IInv, Typed, RunTyped, ClearStaging
<1>5. w[k].run \in Run /\ chunks'[active] = chunks[active] /\ \A x \in Run \ {w[k].run} : chunks'[x] = chunks[x]
    BY <1>1, <1>2 DEF ClearStaging, IInv, Typed, RunTyped, Sound, WorkerOK, OwnOK, Leaving
<1>6. CfgOK' /\ ActiveOK'
    BY <1>1, <1>2, <1>3, <1>5, ActiveStep DEF IInv, Sound, CfgOK, cfgVars
<1>7. Apart'
    BY <1>2, ApartStep DEF IInv, Building
<1>8. WorkerOK(k)'
    BY <1>2 DEF WorkerOK, OwnOK, BaseOK, PartOK, Building, Leaving
<1>9. ASSUME NEW i \in Kind \ {k} PROVE WorkerOK(i)'
  <2>1. WorkerOK(i) /\ (w[i].run \in Run => w[i].run # w[k].run)
      BY <1>5 DEF IInv, Sound, Apart
  <2>2. pc[i] \in Building => w[i].run \in Run /\ w[i].run # active /\ chunks'[w[i].run] = chunks[w[i].run]
      BY <1>5, <2>1 DEF WorkerOK, OwnOK
  <2> QED BY <1>1, <1>2, <1>3, <2>1, <2>2, SameWorker
<1> QED BY <1>2, <1>3, <1>4, <1>6, <1>7, <1>8, <1>9, WorkTyped DEF IInv, Sound

-----------------------------------------------------------------------------
\* The swap, whether or not its answer arrives.

\* A tree with the chunks of the paths that differ replaced is the other tree.
Advanced(old, new, b, t) == {c \in old : c[1] \notin Differ(b, t)} \cup new

LEMMA AdvancedTree ==
    ASSUME NEW b \in Commit, NEW t \in Commit, NEW m \in Model, NEW old, NEW new,
           old \subseteq Tree(b, m), new \subseteq Parts(Differ(b, t), t, m)
    PROVE  /\ Advanced(old, new, b, t) \subseteq Tree(t, m)
           /\ old = Tree(b, m) /\ new = Parts(Differ(b, t), t, m) => Advanced(old, new, b, t) = Tree(t, m)
<1> DEFINE kept == {c \in old : c[1] \notin Differ(b, t)}
<1>1. ASSUME NEW c \in kept PROVE c \in Tree(t, m)
  <2>1. PICK p \in Path : c = <<p, Version(b, p), m>>
      BY DEF Tree
  <2>2. p \notin Differ(b, t)
      BY <2>1
  <2>3. Version(b, p) = Version(t, p)
      BY <2>2 DEF Differ
  <2> QED BY <2>1, <2>3 DEF Tree
<1>2. Parts(Differ(b, t), t, m) \subseteq Tree(t, m)
    BY DEF Parts, Tree, Differ
<1>3. ASSUME old = Tree(b, m), new = Parts(Differ(b, t), t, m), NEW c \in Tree(t, m) PROVE c \in kept \cup new
  <2>1. PICK p \in Path : c = <<p, Version(t, p), m>>
      BY DEF Tree
  <2>2. CASE p \in Differ(b, t)
      BY <1>3, <2>1, <2>2 DEF Parts
  <2>3. CASE p \notin Differ(b, t)
    <3>1. c = <<p, Version(b, p), m>>
        BY <2>1, <2>3 DEF Differ
    <3> QED BY <1>3, <2>3, <3>1 DEF Tree
  <2> QED BY <2>2, <2>3
<1> QED BY <1>1, <1>2, <1>3 DEF Advanced

LEMMA SwapSound ==
    ASSUME IInv, NEW k \in Kind, pc[k] = "swap", Swap(k), changes' = changes, UNCHANGED <<gitVars, cfgVars>>,
           \A i \in Kind \ {k} : pc'[i] = pc[i] /\ w'[i] = w[i],
           pc'[k] \in Leaving, w'[k].run = w[k].run,
           w'[k].prior \in {None, w[k].prior}, w'[k].seen \in {None, w[k].seen}
    PROVE  RunTyped' /\ Sound'
<1> DEFINE r == w[k].run
           prior == w[k].prior
<1>1. /\ r \in Run /\ r # active /\ commit[r] = w[k].target /\ model[r] = w[k].file
      /\ \A i \in Kind : r \notin {w[i].prior, w[i].seen}
      /\ chunks[r] \subseteq Parts(Aim(k), w[k].target, w[k].file)
      /\ changes = 0 => chunks[r] = Parts(Aim(k), w[k].target, w[k].file)
  <2>1. w[k].left = {} /\ Aim(k) \ w[k].left = Aim(k)
      BY DEF IInv, Sound, WorkerOK, PartOK
  <2> QED BY <2>1 DEF IInv, Sound, WorkerOK, OwnOK, PartOK, Apart, Building
<1>2. w[k].incremental => /\ k = "update" /\ prior \in Run
                          /\ commit[prior] = w[k].base /\ model[prior] = w[k].file
    BY DEF IInv, Sound, WorkerOK, BaseOK, Building
<1>3. w[k] \in Local /\ w[k].base \in Commit /\ w[k].target \in Commit /\ w[k].file \in Model
      /\ prior \in Run \cup {None}
    BY LocalFields DEF IInv, Typed, JobTyped
<1>4. RunTyped'
    BY <1>1, <1>2, <1>3, SwapTyped DEF IInv, Typed
<1>5. w[k].incremental =>
        /\ active' = active /\ model' = model /\ status' = [status EXCEPT ![r] = "completed"]
        /\ commit' = [commit EXCEPT ![prior] = w[k].target]
        /\ chunks' = [chunks EXCEPT ![prior] = {c \in chunks[prior] : c[1] \notin Differ(w[k].base, w[k].target)}
                                                \cup chunks[r],
                                    ![r] = {}]
  <2> SUFFICES ASSUME w[k].incremental
               PROVE /\ active' = active /\ model' = model /\ status' = [status EXCEPT ![r] = "completed"]
                     /\ commit' = [commit EXCEPT ![prior] = w[k].target]
                     /\ chunks' = [chunks EXCEPT ![prior] = {c \in chunks[prior] : c[1] \notin Differ(w[k].base, w[k].target)}
                                                            \cup chunks[r],
                                                 ![r] = {}]
      OBVIOUS
  <2>1. Advance(k, prior) /\ active' = active /\ model' = model /\ status' = [status EXCEPT ![r] = "completed"]
      BY DEF Swap
  <2> QED BY <1>2, <2>1 DEF Advance, IInv, Typed, RunTyped
<1>6. ~w[k].incremental =>
        /\ active' = r /\ commit' = commit /\ model' = model
        /\ \A x \in Run \ {prior} : chunks'[x] = chunks[x]
    BY DEF Swap, IInv, Typed, RunTyped
<1>7. ActiveOK'
  <2>1. CASE w[k].incremental /\ active = prior
    <3>1. active \in Run /\ active # r /\ status'[active] = status[active] /\ commit'[active] = w[k].target
          /\ model'[active] = w[k].file
          /\ chunks'[active] = {c \in chunks[active] : c[1] \notin Differ(w[k].base, w[k].target)} \cup chunks[r]
        BY <1>1, <1>2, <1>5, <2>1 DEF IInv, Typed, RunTyped
    <3>2. Aim(k) = Differ(w[k].base, w[k].target)
        BY <2>1 DEF Aim
    <3> SUFFICES ASSUME active' # None, status'[active'] = "completed"
                 PROVE  /\ chunks'[active'] \subseteq Tree(commit'[active'], model'[active'])
                        /\ changes' = 0 => chunks'[active'] = Tree(commit'[active'], model'[active'])
        BY DEF ActiveOK
    <3>3. /\ chunks[active] \subseteq Tree(w[k].base, w[k].file)
          /\ changes = 0 => chunks[active] = Tree(w[k].base, w[k].file)
        BY <1>2, <1>5, <2>1, <3>1 DEF IInv, Sound, ActiveOK
    <3>4. active' = active
        BY <1>5, <2>1
    <3>5. chunks[r] \subseteq Parts(Differ(w[k].base, w[k].target), w[k].target, w[k].file)
          /\ (changes = 0 => chunks[r] = Parts(Differ(w[k].base, w[k].target), w[k].target, w[k].file))
        BY <1>1, <3>2
    <3> DEFINE old == chunks[active]
               new == chunks[r]
               D == Differ(w[k].base, w[k].target)
    <3>6. /\ Advanced(old, new, w[k].base, w[k].target) \subseteq Tree(w[k].target, w[k].file)
          /\ old = Tree(w[k].base, w[k].file) /\ new = Parts(D, w[k].target, w[k].file) =>
                Advanced(old, new, w[k].base, w[k].target) = Tree(w[k].target, w[k].file)
      <4>1. old \subseteq Tree(w[k].base, w[k].file) /\ new \subseteq Parts(D, w[k].target, w[k].file)
          BY <3>3, <3>5
      <4> HIDE DEF old, new, r, prior
      <4> QED BY <1>3, <4>1, AdvancedTree
    <3>7. chunks'[active'] = Advanced(old, new, w[k].base, w[k].target)
          /\ Tree(commit'[active'], model'[active']) = Tree(w[k].target, w[k].file)
        BY <3>1, <3>4 DEF Advanced
    <3>8. changes = 0 => old = Tree(w[k].base, w[k].file) /\ new = Parts(D, w[k].target, w[k].file)
        BY <3>3, <3>5
    <3> HIDE DEF old, new, D, r, prior
    <3> QED BY <3>6, <3>7, <3>8
  <2>2. CASE w[k].incremental /\ active # prior
    <3>1. active' = active
        BY <1>5, <2>2
    <3>2. active \in Run => /\ chunks'[active] = chunks[active] /\ commit'[active] = commit[active]
                            /\ model'[active] = model[active] /\ status'[active] = status[active]
        BY <1>1, <1>5, <2>2 DEF IInv, Typed, RunTyped
    <3> QED BY <3>1, <3>2, ActiveStep
  <2>3. CASE ~w[k].incremental
    <3>1. active' = r /\ commit'[r] = w[k].target /\ model'[r] = w[k].file /\ chunks'[r] = chunks[r]
        BY <1>1, <1>6, <2>3
    <3>2. Parts(Aim(k), w[k].target, w[k].file) = Tree(w[k].target, w[k].file)
        BY <2>3 DEF Aim, Parts, Tree
    <3> QED BY <1>1, <3>1, <3>2 DEF ActiveOK
  <2> QED BY <2>1, <2>2, <2>3
<1>8. CfgOK'
    BY DEF IInv, Sound, CfgOK, cfgVars
<1>9. Apart'
    BY ApartStep DEF IInv, Building, Leaving
<1>10. WorkerOK(k)'
    BY <1>1 DEF WorkerOK, OwnOK, BaseOK, PartOK, Building, Leaving
<1>11. ASSUME NEW i \in Kind \ {k} PROVE WorkerOK(i)'
  <2>1. WorkerOK(i)
      BY DEF IInv, Sound
  <2>2. pc[i] \in Building => w[i].run \in Run /\ w[i].run # active /\ w[i].run # r /\ w[i].run # prior
      BY <1>1, <2>1 DEF IInv, Sound, Apart, WorkerOK, OwnOK
  <2>3. model' = model /\ active' \in {active, r}
      BY <1>5, <1>6
  <2>4. pc[i] \in Building => commit'[w[i].run] = commit[w[i].run] /\ chunks'[w[i].run] = chunks[w[i].run]
    <3>1. CASE w[k].incremental
        BY <1>1, <1>2, <1>5, <2>2, <3>1 DEF IInv, Typed, RunTyped
    <3>2. CASE ~w[k].incremental
        BY <1>6, <2>2, <3>2
    <3> QED BY <3>1, <3>2
  <2>5. pc[i] \in {"start"} \cup Building /\ w[i].incremental => commit' = commit
    <3>1. CASE w[k].incremental
        BY <1>2, <2>1, <3>1 DEF WorkerOK, BaseOK
    <3>2. CASE ~w[k].incremental
        BY <1>6, <3>2
    <3> QED BY <3>1, <3>2
  <2> QED BY <2>1, <2>2, <2>3, <2>4, <2>5, SameWorker
<1> QED BY <1>4, <1>7, <1>8, <1>9, <1>10, <1>11 DEF Sound

LEMMA SwapInInv == ASSUME IInv, NEW k \in Kind, SwapIn(k) PROVE IInv'
<1>1. Go(k, "swap", "recheck") /\ Swap(k) /\ UNCHANGED <<ghosts, bounds>>
    BY DEF SwapIn
<1>2. /\ pc[k] = "swap" /\ pc'[k] = "recheck" /\ w'[k] = w[k] /\ UNCHANGED <<gitVars, cfgVars>>
      /\ \A i \in Kind \ {k} : pc'[i] = pc[i] /\ w'[i] = w[i]
    BY <1>1, StepEffect DEF Go, IInv, Typed
<1>3. JobTyped' /\ GhostTyped' /\ BoundTyped' /\ changes' = changes
    BY <1>1, GoJob, SameTyped DEF IInv, Typed, Working, Leaving
<1>4. RunTyped' /\ Sound'
    BY <1>1, <1>2, <1>3, SwapSound DEF Leaving
<1> QED BY <1>2, <1>3, <1>4, WorkTyped DEF IInv

LEMMA FailsInv == ASSUME IInv, NEW k \in Kind, Fails(k) PROVE IInv'
<1>1. BoundTyped' /\ changes' = changes /\ UNCHANGED ghosts
    BY FaultTyped, SameTyped DEF Fails, IInv, Typed
<1>2. 0 \in Commit /\ w[k].looked \in Commit
    BY LocalFields, ChangedAssumption DEF IInv, Typed, JobTyped, Commit
<1>3. ASSUME NEW from \in Starting, Return(k, from, "error"), UNCHANGED runVars PROVE IInv'
    BY <1>1, <1>3, ReturnInv DEF Starting
<1>4. ASSUME NEW from \in Building \cup Leaving, NEW to \in Leaving, NEW r \in {"ok", "error"}, NEW looked \in Commit,
             Leave(k, from, to, r, looked), UNCHANGED runVars
      PROVE  IInv'
    BY <1>1, <1>4, LeaveInv
<1>5. ASSUME Leave(k, "swap", "failing", "error", 0), Swap(k) PROVE IInv'
  <2>1. /\ pc[k] = "swap" /\ pc'[k] = "failing" /\ w'[k] = [Blank EXCEPT !.run = w[k].run, !.looked = 0, !.ret = "error"]
        /\ UNCHANGED <<gitVars, cfgVars>> /\ \A i \in Kind \ {k} : pc'[i] = pc[i] /\ w'[i] = w[i]
      BY <1>5, StepEffect DEF Leave, IInv, Typed
  <2>2. w'[k].run = w[k].run /\ w'[k].prior = None /\ w'[k].seen = None
      BY <2>1 DEF Blank
  <2>3. RunTyped' /\ Sound'
      BY <1>1, <1>5, <2>1, <2>2, SwapSound DEF Leaving
  <2>4. JobTyped' /\ GhostTyped'
      BY <1>1, <1>2, <1>5, LeaveJob, SameTyped DEF IInv, Typed, Leaving
  <2> QED BY <1>1, <2>1, <2>3, <2>4, WorkTyped DEF IInv
<1>6. ASSUME Go(k, "clearing", "returned"), UNCHANGED runVars PROVE IInv'
  <2>1. /\ pc[k] = "clearing" /\ pc'[k] = "returned" /\ w'[k] = w[k] /\ UNCHANGED <<gitVars, cfgVars>>
        /\ \A i \in Kind \ {k} : pc'[i] = pc[i] /\ w'[i] = w[i]
      BY <1>6, StepEffect DEF Go, IInv, Typed
  <2>2. JobTyped' /\ GhostTyped' /\ RunTyped'
      BY <1>1, <1>6, GoJob, SameTyped DEF IInv, Typed
  <2>3. Sound'
      BY <1>1, <1>6, <2>1, AwayStep DEF IInv, Building, Leaving, cfgVars
  <2> QED BY <1>1, <2>1, <2>2, <2>3, WorkTyped DEF IInv
<1> QED BY <1>2, <1>3, <1>4, <1>5, <1>6 DEF Fails, Building, Leaving

LEMMA NextInv == IInv /\ [Next]_vars => IInv'
<1> SUFFICES ASSUME IInv, [Next]_vars PROVE IInv'
    OBVIOUS
<1>1. ASSUME NEW k \in Kind, Work(k) PROVE IInv'
    BY <1>1, OpenInv, BranchTipInv, DecideInv, StartInv, RunIndexInv, EmbedInv, InsertFailsInv, SwapInInv,
       RecheckInv, FailRunInv, ClearInv, FailsInv DEF Work
<1>2. ASSUME NEW k \in Kind, River(k) \/ Crash(k) PROVE IInv'
    BY <1>2, FetchInv, FinishInv, RescueInv, CrashInv DEF River
<1>3. CASE Push \/ HookLost \/ Quiet \/ Reindex \/ Rollout \/ RolledOut \/ EnsureIndexSchema \/ Queue
    BY <1>3, PushInv, HookInv, QueueInv, RolloutInv, RolledOutInv, SchemaInv
<1>4. CASE UNCHANGED vars
  <2>1. Typed'
      BY <1>4 DEF vars, IInv, Typed, GitTyped, CfgTyped, RunTyped, JobTyped, GhostTyped, BoundTyped,
                  gitVars, cfgVars, runVars, jobVars, ghosts, bounds
  <2>2. Sound'
      BY <1>4, StillStep DEF vars, IInv, jobVars, cfgVars, bounds
  <2> QED BY <2>1, <2>2 DEF IInv
<1> QED BY <1>1, <1>2, <1>3, <1>4 DEF Next

-----------------------------------------------------------------------------
\* The types and Sound hold of every state: how the runs that are built, the
\* generation an update adds to and the active one relate.
THEOREM IndexInvariant == Spec => []IInv
<1>1. Init => IInv
    BY InitTyped, InitSound DEF IInv
<1> QED BY <1>1, NextInv, PTL DEF Spec

\* Every variable of the index keeps its type; among others a job's attempt
\* stays within its bounds, snoozes that give one back included.
THEOREM IndexTyped == Spec => []TypeOK
<1>1. IInv => TypeOK
    BY DEF IInv, Typed, GitTyped, CfgTyped, RunTyped, JobTyped, GhostTyped, BoundTyped, TypeOK, Place
<1> QED BY <1>1, IndexInvariant, PTL

\* What a review may search is of the commit and the embedder its generation
\* says, and all of that commit's tree while the embedder stays, whatever
\* updates, rebuilds, retries and sweeps ran beside and whatever failed
\* (worker/index.go, store/indexgen.go).
THEOREM SearchedCurrent == Spec => []SearchedIsCurrent
<1>1. IInv => SearchedIsCurrent
    BY DEF IInv, Sound, ActiveOK, SearchedIsCurrent, Searchable
<1> QED BY <1>1, IndexInvariant, PTL

-----------------------------------------------------------------------------
\* What keeps the index at the tip while nothing fails and the embedder stays.

Calm == faults = 0 /\ changes = 0

\* Nothing is of another embedder, no attempt fails, and what is active was
\* swapped in whole.
CalmOK ==
    /\ embedding = FirstModel /\ files = {FirstModel}
    /\ \A r \in Run : model[r] = FirstModel
    /\ active # None => status[active] = "completed"
    /\ \A k \in Kind : w[k].file = FirstModel /\ pc[k] \notin {"failing", "dead"} /\ w[k].ret # "error"

\* An update and a rebuild that have both begun ran beside one another.
Begun(k)  == pc[k] \notin {"idle", "open"}
BesideOK == (\A k \in Kind : Begun(k)) => beside

\* The places of a worker that has read the tip and not swapped.
Aiming == {"decide", "start"} \cup Building

\* A rebuild indexes the tip, unless a webhook or an update is still to come.
FullOK ==
    ~beside /\ pc["full"] \in Aiming =>
        w["full"].target = tip \/ hooks > 0 \/ state["update"] # None

\* Where an update that runs beside no rebuild stands: it builds on the active
\* generation, has it at the tip it read, and returns with it at the tip it
\* looked at last.
Stands(at, l) ==
    /\ at \in {"tip", "decide"} => l.seen = active
    /\ at = "decide" => l.looked = l.target
    /\ at \in {"start"} \cup Building => l.prior = active
    /\ at = "recheck" => active # None /\ commit[active] = l.target
    /\ at \in {"clearing", "returned"} /\ l.ret = "ok" => active # None /\ commit[active] = l.looked
UpdateOK == ~beside => Stands(pc["update"], w["update"])

\* With no webhook and no update to come, the index is at the tip.
TipOK ==
    ~beside /\ ~missed /\ active # None /\ hooks = 0 /\ state["update"] = None => commit[active] = tip

Caught   == CalmOK /\ BesideOK /\ FullOK /\ UpdateOK /\ TipOK
CaughtUp == Calm => Caught

LEMMA InitCaught == Init => CaughtUp
<1> SUFFICES ASSUME Init PROVE Caught
    BY DEF CaughtUp
<1>1. CalmOK
    BY DEF Init, CalmOK, Blank
<1>2. \A k \in Kind : pc[k] = "idle"
    BY DEF Init
<1>3. "update" \in Kind /\ "full" \in Kind
    BY DEF Kind
<1>4. BesideOK /\ FullOK /\ UpdateOK
    BY <1>2, <1>3 DEF BesideOK, Begun, FullOK, UpdateOK, Stands, Aiming, Building
<1>5. TipOK
    BY DEF Init, TipOK
<1> QED BY <1>1, <1>4, <1>5 DEF Caught

\* The steps that need a failure or another embedder.
LEMMA Unlucky ==
    ASSUME IInv, Calm, Caught
    PROVE  /\ Fault \/ Rollout => ~Calm'
           /\ ~RolledOut /\ ~EnsureIndexSchema
           /\ \A k \in Kind : ~Draining(k) /\ ~InsertFails(k) /\ ~FailRun(k) /\ ~Rescue(k)
<1>1. Fault \/ Rollout => ~Calm'
    BY DEF Fault, Rollout, Calm
<1>2. ~RolledOut /\ ~EnsureIndexSchema
    BY DEF RolledOut, EnsureIndexSchema, Calm, Caught, CalmOK, IInv, Sound, CfgOK
<1>3. ASSUME NEW k \in Kind PROVE ~Draining(k) /\ ~InsertFails(k) /\ ~FailRun(k) /\ ~Rescue(k)
  <2>1. schema = FirstModel /\ embedding = FirstModel /\ w[k].file = FirstModel /\ pc[k] \notin {"failing", "dead"}
      BY DEF Calm, Caught, CalmOK, IInv, Sound, CfgOK
  <2> QED BY <2>1 DEF Draining, InsertFails, FailRun, Go, Step, Rescue
<1> QED BY <1>1, <1>2, <1>3

\* What a push, its webhook and the queue change: the places of the workers
\* and the runs stay, and so does what keeps the index behind.
LEMMA QueueCaught ==
    ASSUME Caught, UNCHANGED <<cfgVars, runVars, pc, w, missed>>, beside => beside',
           hooks \in Nat, hooks' \in Nat, tip' # tip => hooks' > 0,
           ~beside' /\ state'["update"] = None =>
                /\ state["update"] = None
                /\ hooks > 0 /\ hooks' = 0 => active = None /\ pc["full"] \notin Aiming
    PROVE  Caught'
<1>1. CalmOK'
    BY DEF Caught, CalmOK, cfgVars, runVars
<1>2. BesideOK'
    BY DEF Caught, BesideOK, Begun
<1>3. UpdateOK'
    BY DEF Caught, UpdateOK, Stands, runVars
<1>4. FullOK'
    BY DEF Caught, FullOK
<1>5. TipOK'
    BY DEF Caught, TipOK, runVars
<1> QED BY <1>1, <1>2, <1>3, <1>4, <1>5 DEF Caught

\* A step of the worker of k that leaves the active generation alone.
LEMMA OnwardCaught ==
    ASSUME IInv, Caught, NEW k \in Kind, NEW from, NEW to, NEW local, Step(k, from, to, local),
           Begun(k), to \notin {"idle", "open", "failing", "dead"},
           local.file = FirstModel, local.ret # "error", UNCHANGED ghosts,
           active' = active, \A r \in Run : model'[r] = FirstModel,
           active # None => status'[active] = status[active] /\ commit'[active] = commit[active],
           to \in Aiming => local.target = tip \/ (from \in Aiming /\ local.target = w[k].target),
           k = "update" /\ ~beside => Stands(to, local)
    PROVE  Caught'
<1>1. /\ pc[k] = from /\ pc'[k] = to /\ w'[k] = local /\ UNCHANGED <<gitVars, cfgVars, state>>
      /\ \A i \in Kind \ {k} : pc'[i] = pc[i] /\ w'[i] = w[i]
  <2>1. JobTyped /\ state' = state
      BY DEF IInv, Typed, Step, Frame
  <2> QED BY <2>1, StepEffect
<1>2. beside' = beside /\ missed' = missed
    BY DEF ghosts
<1>3. "update" \in Kind /\ "full" \in Kind
    BY DEF Kind
<1>4. CalmOK'
    BY <1>1 DEF Caught, CalmOK, cfgVars
<1>5. BesideOK'
    BY <1>1, <1>2 DEF Caught, BesideOK, Begun
<1>6. FullOK'
    BY <1>1, <1>2, <1>3 DEF Caught, FullOK, gitVars
<1>7. UpdateOK'
  <2> SUFFICES ASSUME ~beside PROVE Stands(pc["update"], w["update"])'
      BY <1>2 DEF UpdateOK
  <2>1. Stands(pc'["update"], w'["update"])
    <3>1. CASE k = "update"
        BY <1>1, <3>1
    <3>2. CASE k # "update"
        BY <1>1, <1>3, <3>2 DEF Caught, UpdateOK
    <3> QED BY <3>1, <3>2
  <2> QED BY <2>1 DEF Stands
<1>8. TipOK'
    BY <1>1, <1>2 DEF Caught, TipOK, gitVars
<1> QED BY <1>4, <1>5, <1>6, <1>7, <1>8 DEF Caught

\* A queued job's state is not the absence of one.
LEMMA HooksCaught == ASSUME IInv, Calm, Caught, Push \/ PushHook \/ Quiet \/ Reindex \/ PollTip \/ Onboard PROVE Caught'
<1>1. UNCHANGED <<cfgVars, runVars, pc, w, missed>>
    BY DEF Push, PushHook, Quiet, Reindex, PollTip, Onboard, Insert, jobVars, ghosts
<1>2. hooks \in Nat /\ hooks' \in Nat
    BY NextInv, ChangedAssumption DEF IInv, Typed, GitTyped, Commit, Next, Queue, vars
<1>3. "update" \in Kind /\ "full" \in Kind /\ state \in [Kind -> {None, "queued", "running"}]
      /\ \A k \in Kind : state[k] = "running" <=> pc[k] # "idle"
    BY DEF Kind, IInv, Typed, JobTyped
<1>4. CASE Push
    BY <1>1, <1>2, <1>4, QueueCaught DEF Push, jobVars, ghosts
<1>5. CASE PushHook
  <2>1. beside' = (beside \/ (active = None /\ state["full"] # None)) /\ tip' = tip /\ hooks > 0
      BY <1>5 DEF PushHook
  <2>2. CASE active # None /\ Insert("update")
      BY <1>1, <1>2, <1>3, <2>1, <2>2, QueueCaught DEF Insert, None
  <2>3. CASE (active = None \/ state["update"] # None) /\ UNCHANGED jobVars
    <3>1. state' = state
        BY <2>3 DEF jobVars
    <3>2. ~beside' /\ active = None => pc["full"] \notin Aiming
        BY <1>3, <2>1 DEF Aiming, Building, None
    <3> QED BY <1>1, <1>2, <2>1, <2>3, <3>1, <3>2, QueueCaught
  <2> QED BY <1>5, <2>2, <2>3 DEF PushHook
<1>6. CASE Quiet \/ Reindex \/ PollTip \/ Onboard
  <2>1. tip' = tip /\ hooks' = hooks /\ beside' = beside
      BY <1>6 DEF Quiet, Reindex, PollTip, Onboard, gitVars, ghosts
  <2>2. state'["update"] = None => state["update"] = None
      BY <1>3, <1>6 DEF Quiet, Reindex, PollTip, Onboard, Insert, jobVars, None
  <2> QED BY <1>1, <1>2, <2>1, <2>2, QueueCaught
<1> QED BY <1>4, <1>5, <1>6

-----------------------------------------------------------------------------
\* The worker's steps.

LEMMA OpenCaught == ASSUME IInv, Caught, NEW k \in Kind, Open(k) PROVE Caught'
<1>1. PICK m \in files : Step(k, "open", "tip", [w[k] EXCEPT !.file = m, !.seen = active])
    BY DEF Open
<1>2. /\ w[k] \in Local /\ "update" \in Kind /\ "full" \in Kind /\ m = FirstModel
      /\ \A i \in Kind : state[i] = "running" <=> pc[i] # "idle"
    BY DEF IInv, Typed, JobTyped, Kind, Caught, CalmOK
<1>3. /\ pc[k] = "open" /\ pc'[k] = "tip" /\ w'[k] = [w[k] EXCEPT !.file = m, !.seen = active]
      /\ UNCHANGED <<gitVars, cfgVars, state>> /\ \A i \in Kind \ {k} : pc'[i] = pc[i] /\ w'[i] = w[i]
  <2>1. JobTyped /\ state' = state
      BY <1>1 DEF IInv, Typed, Step, Frame
  <2> QED BY <1>1, <2>1, StepEffect
<1>4. w'[k].file = FirstModel /\ w'[k].seen = active /\ w'[k].ret = w[k].ret /\ UNCHANGED <<runVars, bounds>>
    BY <1>2, <1>3 DEF Local, Open
<1>5. CalmOK'
    BY <1>3, <1>4 DEF Caught, CalmOK, cfgVars, runVars
<1>6. CASE k = "update"
  <2>1. beside' = (state["full"] = "running")
      BY <1>6 DEF Open
  <2>2. pc'["full"] = pc["full"] /\ (~beside' => pc["full"] = "idle")
      BY <1>2, <1>3, <1>6, <2>1
  <2>3. BesideOK'
      BY <1>2, <2>2 DEF BesideOK, Begun
  <2>4. FullOK'
      BY <2>2 DEF FullOK, Aiming, Building
  <2>5. UpdateOK'
      BY <1>3, <1>4, <1>6 DEF UpdateOK, Stands, Building, runVars
  <2>6. TipOK'
      BY <1>2, <1>3, <1>6 DEF TipOK, None
  <2> QED BY <1>5, <2>3, <2>4, <2>5, <2>6 DEF Caught
<1>7. CASE k = "full"
  <2>1. beside' = (beside \/ state["update"] = "running") /\ missed' = missed
      BY <1>7 DEF Open
  <2>2. pc'["update"] = pc["update"] /\ w'["update"] = w["update"] /\ (~beside' => pc["update"] = "idle")
      BY <1>2, <1>3, <1>7, <2>1
  <2>3. BesideOK'
      BY <1>2, <2>2 DEF BesideOK, Begun
  <2>4. FullOK'
      BY <1>3, <1>7 DEF FullOK, Aiming, Building
  <2>5. UpdateOK'
      BY <2>2 DEF UpdateOK, Stands, Building
  <2>6. TipOK'
      BY <1>3, <1>4, <2>1 DEF Caught, TipOK, gitVars, runVars
  <2> QED BY <1>5, <2>3, <2>4, <2>5, <2>6 DEF Caught
<1> QED BY <1>6, <1>7 DEF Kind

LEMMA CalmWorker ==
    ASSUME IInv, Caught, NEW k \in Kind
    PROVE  /\ w[k] \in Local /\ w[k].file = FirstModel /\ w[k].ret # "error" /\ FirstModel \in Model
           /\ \A r \in Run : model[r] = FirstModel
           /\ k = "update" /\ ~beside => Stands(pc[k], w[k])
           /\ active # None => active \in Run /\ status[active] = "completed"
BY ModelAssumption DEF IInv, Typed, JobTyped, RunTyped, Caught, CalmOK, UpdateOK

LEMMA TipCaught == ASSUME IInv, Caught, NEW k \in Kind, BranchTip(k) PROVE Caught'
<1> DEFINE local == [w[k] EXCEPT !.target = tip, !.looked = tip]
<1>1. Step(k, "tip", "decide", local) /\ UNCHANGED <<runVars, ghosts>> /\ pc[k] = "tip"
    BY DEF BranchTip, Step
<1>2. local.target = tip /\ local.looked = tip /\ local.file = FirstModel /\ local.ret # "error"
      /\ local.seen = w[k].seen
    BY CalmWorker DEF Local
<1>3. k = "update" /\ ~beside => Stands("decide", local)
    BY <1>1, <1>2, CalmWorker DEF Stands, Building
<1> HIDE DEF local
<1> QED BY <1>1, <1>2, <1>3, CalmWorker, OnwardCaught DEF Begun, runVars

LEMMA DecideCaught == ASSUME IInv, Caught, NEW k \in Kind, Decide(k) PROVE Caught'
<1> DEFINE prior == IF w[k].seen # None /\ status[w[k].seen] = "completed" THEN w[k].seen ELSE None
           fits  == Fits(k, prior)
           over  == [Blank EXCEPT !.looked = w[k].looked, !.ret = "ok"]
           local == [w[k] EXCEPT !.seen = None, !.prior = prior, !.incremental = fits,
                                 !.base = IF fits THEN commit[prior] ELSE 0]
<1>1. UNCHANGED <<runVars, ghosts>>
    BY DEF Decide
<1>2. pc[k] = "decide"
    BY DEF Decide, Return, Step
<1>3. k = "update" /\ ~beside => w[k].seen = active /\ w[k].looked = w[k].target /\ prior = active
    BY <1>2, CalmWorker DEF Stands
<1>4. CASE fits /\ commit[prior] = w[k].target /\ Return(k, "decide", "ok")
  <2>1. Step(k, "decide", "returned", over)
      BY <1>4 DEF Return
  <2>2. over.file = FirstModel /\ over.ret = "ok" /\ over.looked = w[k].looked
      BY DEF Blank
  <2>3. k = "update" /\ ~beside => Stands("returned", over)
      BY <1>3, <1>4, <2>2 DEF Stands, Fits, Building
  <2> HIDE DEF over
  <2> QED BY <1>1, <1>2, <2>1, <2>2, <2>3, CalmWorker, OnwardCaught DEF Begun, runVars, Aiming, Building
<1>5. CASE Step(k, "decide", "start", local)
  <2>1. local.file = FirstModel /\ local.ret # "error" /\ local.target = w[k].target /\ local.prior = prior
      BY CalmWorker DEF Local
  <2>2. k = "update" /\ ~beside => Stands("start", local)
      BY <1>3, <2>1 DEF Stands, Building
  <2> HIDE DEF local
  <2> QED BY <1>1, <1>2, <1>5, <2>1, <2>2, CalmWorker, OnwardCaught DEF Begun, runVars, Aiming
<1> QED BY <1>4, <1>5 DEF Decide

LEMMA StartCaught == ASSUME IInv, Caught, NEW k \in Kind, StartIndexRun(k) PROVE Caught'
<1>1. PICK r \in Unused :
        /\ Step(k, "start", "runner", [w[k] EXCEPT !.run = r])
        /\ status' = Recycled(status, None, r, "running")
        /\ commit' = Recycled(commit, 0, r, w[k].target)
        /\ model' = Recycled(model, FirstModel, r, w[k].file)
        /\ active' = active /\ UNCHANGED ghosts
    BY DEF StartIndexRun
<1> DEFINE local == [w[k] EXCEPT !.run = r]
<1>2. local.file = FirstModel /\ local.ret # "error" /\ local.target = w[k].target /\ local.prior = w[k].prior
    BY CalmWorker DEF Local
<1>3. active # None => status'[active] = status[active] /\ commit'[active] = commit[active]
    BY <1>1, CalmWorker DEF Recycled, Unused
<1>4. \A x \in Run : model'[x] = FirstModel
    BY <1>1, CalmWorker DEF Recycled
<1>5. pc[k] = "start" /\ (k = "update" /\ ~beside => Stands("runner", local))
    BY <1>1, <1>2, CalmWorker DEF Step, Stands, Building
<1>6. Step(k, "start", "runner", local)
    BY <1>1
<1> HIDE DEF local
<1> QED BY <1>1, <1>2, <1>3, <1>4, <1>5, <1>6, OnwardCaught DEF Begun, Aiming

LEMMA RunIndexCaught == ASSUME IInv, Caught, NEW k \in Kind, RunIndex(k) PROVE Caught'
<1>1. PICK inc \in {w[k].incremental, FALSE}, to \in {"embed", "swap"}, left \in SUBSET Path :
        Step(k, "runner", to, [w[k] EXCEPT !.incremental = inc, !.left = left])
    BY DEF RunIndex, Differ
<1> DEFINE local == [w[k] EXCEPT !.incremental = inc, !.left = left]
<1>2. local.file = FirstModel /\ local.ret # "error" /\ local.target = w[k].target /\ local.prior = w[k].prior
    BY CalmWorker DEF Local
<1>3. pc[k] = "runner" /\ (k = "update" /\ ~beside => Stands(to, local))
    BY <1>1, <1>2, CalmWorker DEF Step, Stands, Building
<1>4. Step(k, "runner", to, local) /\ UNCHANGED <<runVars, ghosts>>
    BY <1>1 DEF RunIndex
<1> HIDE DEF local
<1> QED BY <1>2, <1>3, <1>4, CalmWorker, OnwardCaught DEF Begun, Aiming, Building, runVars

LEMMA EmbedCaught == ASSUME IInv, Caught, NEW k \in Kind, Embed(k) PROVE Caught'
<1>1. PICK p \in w[k].left, to \in {"embed", "swap"} : Step(k, "embed", to, [w[k] EXCEPT !.left = @ \ {p}])
    BY DEF Embed
<1> DEFINE local == [w[k] EXCEPT !.left = @ \ {p}]
<1>2. local.file = FirstModel /\ local.ret # "error" /\ local.target = w[k].target /\ local.prior = w[k].prior
    BY CalmWorker DEF Local
<1>3. pc[k] = "embed" /\ (k = "update" /\ ~beside => Stands(to, local))
    BY <1>1, <1>2, CalmWorker DEF Step, Stands, Building
<1>4. Step(k, "embed", to, local) /\ UNCHANGED <<active, status, commit, model, ghosts>>
    BY <1>1 DEF Embed
<1> HIDE DEF local
<1> QED BY <1>2, <1>3, <1>4, CalmWorker, OnwardCaught DEF Begun, Aiming, Building

LEMMA RecheckCaught == ASSUME IInv, Caught, NEW k \in Kind, Recheck(k) PROVE Caught'
<1> DEFINE ret    == IF Moved(k) THEN "snooze" ELSE "ok"
           looked == IF k = "update" THEN tip ELSE w[k].looked
           local  == [Blank EXCEPT !.run = w[k].run, !.looked = looked, !.ret = ret]
<1>1. Step(k, "recheck", "clearing", local) /\ pc[k] = "recheck" /\ UNCHANGED <<runVars, ghosts>>
    BY DEF Recheck, Leave, Step
<1>2. local.file = FirstModel /\ local.ret = ret /\ ret # "error" /\ local.looked = looked
    BY DEF Blank
<1>3. k = "update" /\ ~beside => Stands("clearing", local)
    BY <1>1, <1>2, CalmWorker DEF Stands, Moved, Building
<1> HIDE DEF local, ret
<1> QED BY <1>1, <1>2, <1>3, CalmWorker, OnwardCaught DEF Begun, Aiming, Building, runVars

LEMMA ClearCaught == ASSUME IInv, Caught, NEW k \in Kind, Clear(k) PROVE Caught'
<1>1. Step(k, "clearing", "returned", w[k]) /\ pc[k] = "clearing"
      /\ UNCHANGED <<active, status, commit, model, ghosts>>
    BY DEF Clear, Go, Step
<1>2. k = "update" /\ ~beside => Stands("returned", w[k])
    BY <1>1, CalmWorker DEF Stands, Building
<1> QED BY <1>1, <1>2, CalmWorker, OnwardCaught DEF Begun, Aiming, Building

LEMMA SwapCaught == ASSUME IInv, Caught, NEW k \in Kind, SwapIn(k) PROVE Caught'
<1> DEFINE r == w[k].run
           prior == w[k].prior
<1>1. /\ pc[k] = "swap" /\ pc'[k] = "recheck" /\ w'[k] = w[k] /\ UNCHANGED <<gitVars, cfgVars, state>>
      /\ \A i \in Kind \ {k} : pc'[i] = pc[i] /\ w'[i] = w[i]
  <2>1. Step(k, "swap", "recheck", w[k]) /\ JobTyped
      BY DEF SwapIn, Go, IInv, Typed
  <2>2. state' = state
      BY <2>1 DEF Step, Frame
  <2> QED BY <2>1, <2>2, StepEffect
<1>2. "update" \in Kind /\ "full" \in Kind /\ beside' = beside /\ missed' = missed
    BY DEF Kind, SwapIn, ghosts
<1>3. /\ r \in Run /\ r # prior /\ commit[r] = w[k].target
      /\ w[k].incremental => k = "update" /\ prior \in Run
    BY <1>1 DEF IInv, Sound, WorkerOK, OwnOK, BaseOK, Apart, Building
<1>4. status \in [Run -> {None, "running", "completed", "failed", "superseded"}] /\ commit \in [Run -> Commit]
    BY DEF IInv, Typed, RunTyped
<1>5. w[k].incremental => /\ active' = active /\ status' = [status EXCEPT ![r] = "completed"]
                          /\ commit' = [commit EXCEPT ![prior] = w[k].target]
    BY DEF SwapIn, Swap, Advance
<1>6. ~w[k].incremental => active' = r /\ status'[r] = "completed" /\ commit' = commit
    BY <1>3, <1>4 DEF SwapIn, Swap
<1>7. CalmOK'
  <2>1. model' = model
      BY DEF SwapIn, Swap
  <2>2. active' # None => status'[active'] = "completed"
    <3>1. CASE w[k].incremental
        BY <1>3, <1>4, <1>5, <3>1, CalmWorker
    <3>2. CASE ~w[k].incremental
        BY <1>6, <3>2
    <3> QED BY <3>1, <3>2
  <2> QED BY <1>1, <2>1, <2>2 DEF Caught, CalmOK, cfgVars
<1>8. BesideOK'
    BY <1>1, <1>2 DEF Caught, BesideOK, Begun
<1>9. FullOK'
    BY <1>1, <1>2 DEF Caught, FullOK, gitVars, Aiming, Building
<1>10. CASE k = "update"
  <2>1. ~beside => Stands("recheck", w[k])'
    <3> SUFFICES ASSUME ~beside PROVE active' # None /\ commit'[active'] = w[k].target
        BY <1>1 DEF Stands, Building
    <3>1. prior = active
        BY <1>1, <1>10, CalmWorker DEF Stands, Building
    <3>2. CASE w[k].incremental
        BY <1>3, <1>4, <1>5, <3>1, <3>2, RunAssumption
    <3>3. CASE ~w[k].incremental
        BY <1>3, <1>6, <3>3, RunAssumption
    <3> QED BY <3>2, <3>3
  <2>2. UpdateOK'
      BY <1>1, <1>2, <1>10, <2>1 DEF UpdateOK
  <2>3. TipOK'
      BY <1>1, <1>10 DEF TipOK, IInv, Typed, JobTyped, None
  <2> QED BY <1>7, <1>8, <1>9, <2>2, <2>3 DEF Caught
<1>11. CASE k = "full"
  <2>1. ~beside => pc["update"] \in {"idle", "open"}
      BY <1>1, <1>2, <1>11 DEF Caught, BesideOK, Begun, Kind
  <2>2. UpdateOK'
      BY <1>1, <1>2, <1>11, <2>1 DEF UpdateOK, Stands, Building
  <2>3. commit'[active'] = w[k].target
      BY <1>3, <1>6, <1>11
  <2>4. TipOK'
      BY <1>1, <1>2, <1>11, <2>3, ChangedAssumption
         DEF Caught, FullOK, TipOK, Aiming, Building, gitVars
  <2> QED BY <1>7, <1>8, <1>9, <2>2, <2>4 DEF Caught
<1> QED BY <1>10, <1>11 DEF Kind

LEMMA FetchCaught == ASSUME IInv, Caught, NEW k \in Kind, Fetch(k) PROVE Caught'
<1>1. /\ pc[k] = "idle" /\ pc'[k] = "open" /\ w' = w /\ \A i \in Kind \ {k} : pc'[i] = pc[i]
      /\ UNCHANGED <<gitVars, cfgVars, runVars, ghosts>>
    BY DEF Fetch, IInv, Typed, JobTyped, None
<1>2. "update" \in Kind /\ "full" \in Kind /\ state["update"] \in {None, "queued", "running"}
      /\ (state'["update"] = None <=> state["update"] = None)
    BY DEF Fetch, Kind, IInv, Typed, JobTyped, None
<1>3. CalmOK' /\ BesideOK'
  <2>1. CalmOK'
      BY <1>1 DEF Caught, CalmOK, cfgVars, runVars
  <2>2. BesideOK'
      BY <1>1 DEF Caught, BesideOK, Begun, ghosts
  <2> QED BY <2>1, <2>2
<1>4. FullOK'
    BY <1>1, <1>2 DEF Caught, FullOK, Aiming, Building, gitVars, ghosts
<1>5. UpdateOK'
    BY <1>1, <1>2 DEF Caught, UpdateOK, Stands, Building, runVars, ghosts
<1>6. TipOK'
    BY <1>1, <1>2 DEF Caught, TipOK, gitVars, runVars, ghosts
<1> QED BY <1>3, <1>4, <1>5, <1>6 DEF Caught

\* The end of an update that looked: what it returned with is the tip, or the
\* push it did not look at is missed, or it is queued again.
LEMMA FinishCaught == ASSUME IInv, Caught, NEW k \in Kind, Finish(k) PROVE Caught'
<1>1. /\ pc[k] = "returned" /\ pc'[k] = "idle" /\ w'[k] = Blank /\ UNCHANGED <<gitVars, cfgVars, runVars, beside>>
      /\ \A i \in Kind \ {k} : pc'[i] = pc[i] /\ w'[i] = w[i] /\ state'[i] = state[i]
      /\ state'[k] = IF w[k].ret = "snooze" THEN "queued" ELSE None
      /\ missed' = (missed \/ (k = "update" /\ w[k].ret = "ok" /\ w[k].looked # tip))
    BY CalmWorker DEF Finish, Ended, IInv, Typed, JobTyped
<1>2. "update" \in Kind /\ "full" \in Kind /\ w[k].ret \in {"ok", "snooze"}
    BY CalmWorker, LocalFields DEF Kind
<1>3. CalmOK'
    BY <1>1 DEF Caught, CalmOK, Blank, cfgVars, runVars
<1>4. BesideOK'
    BY <1>1 DEF Caught, BesideOK, Begun
<1>5. UpdateOK'
    BY <1>1, <1>2 DEF Caught, UpdateOK, Stands, Building, runVars
<1>6. CASE k = "update"
  <2>1. ~beside => pc["full"] \in {"idle", "open"}
      BY <1>1, <1>2, <1>6 DEF Caught, BesideOK, Begun, Kind
  <2>2. FullOK'
      BY <1>1, <1>2, <1>6, <2>1 DEF FullOK, Aiming, Building
  <2>3. ~beside /\ w[k].ret = "ok" => active # None /\ commit[active] = w[k].looked
      BY <1>1, <1>6, CalmWorker DEF Stands
  <2>4. TipOK'
      BY <1>1, <1>2, <1>6, <2>3 DEF TipOK, gitVars, runVars, None
  <2> QED BY <1>3, <1>4, <1>5, <2>2, <2>4 DEF Caught
<1>7. CASE k = "full"
  <2>1. FullOK'
      BY <1>1, <1>7 DEF FullOK, Aiming, Building
  <2>2. TipOK'
      BY <1>1, <1>2, <1>7 DEF Caught, TipOK, gitVars, runVars
  <2> QED BY <1>3, <1>4, <1>5, <2>1, <2>2 DEF Caught
<1> QED BY <1>6, <1>7 DEF Kind

\* Failures and changes of the embedder only add up.
LEMMA CalmBefore == ASSUME IInv, [Next]_vars, Calm' PROVE Calm
<1>1. faults \in Nat /\ changes \in Nat
    BY CountAssumption DEF IInv, Typed, BoundTyped
<1>2. \/ UNCHANGED <<faults, changes>>
      \/ faults' = faults + 1
      \/ changes' = changes + 1
  <2>1. CASE Push \/ HookLost \/ Quiet \/ Reindex \/ Rollout \/ RolledOut \/ EnsureIndexSchema \/ Queue \/ UNCHANGED vars
      BY <2>1 DEF Push, HookLost, Quiet, Reindex, Rollout, RolledOut, EnsureIndexSchema, Queue, PushHook, PollTip,
                  Onboard, Fault, vars, bounds
  <2>2. ASSUME NEW k \in Kind, Work(k) PROVE UNCHANGED <<faults, changes>> \/ faults' = faults + 1
      BY <2>2 DEF Work, Open, BranchTip, Decide, StartIndexRun, RunIndex, Embed, InsertFails, SwapIn, Recheck,
                  FailRun, Clear, Fails, Fault, bounds
  <2>3. ASSUME NEW k \in Kind, River(k) \/ Crash(k) PROVE UNCHANGED <<faults, changes>> \/ faults' = faults + 1
      BY <2>3 DEF River, Fetch, Finish, Rescue, Crash, Fault, bounds
  <2> QED BY <2>1, <2>2, <2>3 DEF Next
<1> QED BY <1>1, <1>2 DEF Calm

LEMMA NextCaught == IInv /\ CaughtUp /\ [Next]_vars => CaughtUp'
<1> SUFFICES ASSUME IInv, CaughtUp, [Next]_vars, Calm' PROVE Caught'
    BY DEF CaughtUp
<1>1. Calm /\ Caught
    BY CalmBefore DEF CaughtUp
<1>2. CASE Push \/ HookLost \/ Quiet \/ Reindex \/ Rollout \/ RolledOut \/ EnsureIndexSchema \/ Queue
    BY <1>1, <1>2, HooksCaught, Unlucky DEF HookLost, Queue
<1>3. ASSUME NEW k \in Kind, Work(k) PROVE Caught'
  <2>1. ~InsertFails(k) /\ ~FailRun(k) /\ ~Fails(k)
      BY <1>1, Unlucky DEF Fails
  <2> QED BY <1>1, <1>3, <2>1, OpenCaught, TipCaught, DecideCaught, StartCaught, RunIndexCaught, EmbedCaught,
             SwapCaught, RecheckCaught, ClearCaught DEF Work
<1>4. ASSUME NEW k \in Kind, River(k) \/ Crash(k) PROVE Caught'
    BY <1>1, <1>4, FetchCaught, FinishCaught, Unlucky DEF River, Crash
<1>5. CASE UNCHANGED vars
  <2>1. CalmOK' /\ BesideOK'
    <3>1. CalmOK'
        BY <1>1, <1>5 DEF vars, Caught, CalmOK, cfgVars, runVars, jobVars
    <3>2. BesideOK'
        BY <1>1, <1>5 DEF vars, Caught, BesideOK, Begun, jobVars, ghosts
    <3> QED BY <3>1, <3>2
  <2>2. FullOK'
      BY <1>1, <1>5 DEF vars, Caught, FullOK, gitVars, jobVars, ghosts
  <2>3. UpdateOK'
      BY <1>1, <1>5 DEF vars, Caught, UpdateOK, Stands, runVars, jobVars, ghosts
  <2>4. TipOK'
      BY <1>1, <1>5 DEF vars, Caught, TipOK, gitVars, runVars, jobVars, ghosts
  <2> QED BY <2>1, <2>2, <2>3, <2>4 DEF Caught
<1> QED BY <1>2, <1>3, <1>4, <1>5 DEF Next

\* While nothing fails and the embedder stays, an index with nothing queued or
\* on its way is at the tip and may be searched, but for a push that came
\* between a job's last look at the branch and its end, or a rebuild that ran
\* beside an update (worker/index.go: the job looks again at what moved while
\* it worked, and the webhook of a later push finds it ended and queues
\* another).
THEOREM IndexFollowsPushes == Spec => []PushesAreIndexed
<1>1. Init => CaughtUp
    BY InitCaught
<1>2. IInv /\ CaughtUp => PushesAreIndexed
  <2> SUFFICES ASSUME IInv, CaughtUp, hooks = 0, \A k \in Kind : state[k] = None, faults = 0, changes = 0,
                      active # None, ~missed, ~beside
               PROVE  Searchable /\ commit[active] = tip
      BY DEF PushesAreIndexed
  <2>1. Caught
      BY DEF CaughtUp, Calm
  <2>2. active \in Run /\ "update" \in Kind
      BY DEF IInv, Typed, RunTyped, Kind
  <2>3. Searchable
      BY <2>1, <2>2 DEF Caught, CalmOK, Searchable
  <2> QED BY <2>1, <2>2, <2>3 DEF Caught, TipOK
<1> QED BY <1>1, <1>2, IndexInvariant, NextCaught, PTL DEF Spec
=============================================================================
