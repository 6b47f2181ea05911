-------------------------- MODULE IndexGenerations --------------------------
(***************************************************************************)
(* The embedding index of one repository: the index jobs that build it     *)
(* (internal/worker/index.go), the index_runs and index_chunks they write  *)
(* (internal/store/indexgen.go), and what queues them: a push's webhook,   *)
(* the poll of the default branch's tip, the onboarding of a repository    *)
(* with no index, and a forced rebuild from the dashboard.                 *)
(*                                                                         *)
(* A job is unique per repository and per Full while it is live, so two    *)
(* may work at a time: an update and a forced rebuild.  Each step is one   *)
(* transaction or one forge call.  A chunk is <<path, the commit that last *)
(* changed the path, the embedding model>>, so what a generation holds can *)
(* be compared with the tree of the commit it says it covers.              *)
(***************************************************************************)
EXTENDS Naturals, FiniteSets

CONSTANTS
    Path,        \* the paths of the repository's tree
    Model,       \* the embedding models the configuration may name
    FirstModel,  \* the one it names first
    Run,         \* ids of index_runs rows in use at a time
    MaxCommit,   \* the default branch's commits are 0..MaxCommit
    Changed,     \* the paths each commit changed
    MaxAttempts, \* jobs.indexAttempts
    MaxFaults,   \* how many calls, replicas or webhooks may fail,
    MaxRebuilds, \* how many rebuilds the dashboard forces,
    MaxChanges,  \* how often the embedding model is changed,
    MaxInAll     \* and how many of these there are in all

ASSUME ModelAssumption   == FirstModel \in Model
ASSUME ChangedAssumption == MaxCommit \in Nat /\ Changed \in [1..MaxCommit -> SUBSET Path]
ASSUME CountAssumption   ==
    MaxAttempts \in Nat \ {0} /\ {MaxFaults, MaxRebuilds, MaxChanges, MaxInAll} \subseteq Nat

VARIABLES
    tip,       \* the commit of the default branch on the forge
    hooks,     \* push webhooks on their way
    recent,    \* whether a webhook was delivered within the poll's lookback
    embedding, \* the model the newest configuration file names
    files,     \* the models named by the files of the replicas that run
    schema,    \* the model index_chunks was created for (index_schema)
    active,    \* repositories.active_index_run_id
    status,    \* index_runs.status, None for an id not in use
    commit,    \* index_runs.commit_sha
    model,     \* index_runs.embed_model
    chunks,    \* the run's index_chunks
    state,     \* whether the job of a kind is queued or running
    attempt,   \* its attempt
    pc,        \* where the worker of it stands in Index.Work
    w,         \* what that worker holds in its variables
    missed,    \* whether an update ended after a push it never looked at
    beside,    \* whether a rebuild ran beside the last update, or instead of it
    faults, rebuilds, changes  \* how many there were

gitVars == <<tip, hooks, recent>>
cfgVars == <<embedding, files, schema>>
runVars == <<active, status, commit, model, chunks>>
jobVars == <<state, attempt, pc, w>>
ghosts  == <<missed, beside>>
bounds  == <<faults, rebuilds, changes>>
vars    == <<gitVars, cfgVars, runVars, jobVars, ghosts, bounds>>

-----------------------------------------------------------------------------
Kind   == {"update", "full"}
Commit == 0..MaxCommit
None   == "none"
Chunk  == Path \X Commit \X Model

\* An id is not the absence of one.
ASSUME RunAssumption == None \notin Run

\* What a worker holds: file's embedding model and the active run's id as
\* Work read them first, the tip it indexes, the generation it builds on,
\* its own run, the mode and base, the paths still to embed, the tip it
\* looked at last, and what Work will return.
Local == [file: Model, seen: Run \cup {None}, target: Commit, prior: Run \cup {None},
          run: Run \cup {None}, incremental: BOOLEAN, base: Commit, left: SUBSET Path,
          looked: Commit, ret: {"ok", "error", "snooze"}]
Blank == [file |-> FirstModel, seen |-> None, target |-> 0, prior |-> None, run |-> None,
          incremental |-> FALSE, base |-> 0, left |-> {}, looked |-> 0, ret |-> "ok"]

Starting == {"open", "tip", "decide", "start"}
Building == {"runner", "embed", "swap"}
Leaving  == {"recheck", "failing", "clearing"}
Working  == Starting \cup Building \cup Leaving

TypeOK ==
    /\ tip \in Commit /\ hooks \in Commit /\ recent \in BOOLEAN
    /\ embedding \in Model /\ files \subseteq Model /\ schema \in Model
    /\ active \in Run \cup {None}
    /\ status \in [Run -> {None, "running", "completed", "failed", "superseded"}]
    /\ commit \in [Run -> Commit] /\ model \in [Run -> Model]
    /\ chunks \in [Run -> SUBSET Chunk]
    /\ state \in [Kind -> {None, "queued", "running"}]
    /\ attempt \in [Kind -> 0..MaxAttempts]
    /\ pc \in [Kind -> Working \cup {"idle", "returned", "dead"}]
    /\ w \in [Kind -> Local]
    /\ missed \in BOOLEAN /\ beside \in BOOLEAN
    /\ faults \in 0..MaxFaults /\ rebuilds \in 0..MaxRebuilds /\ changes \in 0..MaxChanges

\* The commit that last changed path p, as of commit c.
Version(c, p) ==
    CHOOSE d \in 0..c : (d = 0 \/ p \in Changed[d]) /\ \A e \in d+1..c : p \notin Changed[e]

\* The chunks of the tree at commit c, and the paths that differ between
\* two commits.
Tree(c, m)     == {<<p, Version(c, p), m>> : p \in Path}
Differ(b, c)   == {p \in Path : Version(b, p) # Version(c, p)}

Init ==
    /\ tip = 0 /\ hooks = 0 /\ recent = TRUE
    /\ embedding = FirstModel /\ files = {FirstModel} /\ schema = FirstModel
    /\ active = None
    /\ status = [r \in Run |-> None]
    /\ commit = [r \in Run |-> 0]
    /\ model = [r \in Run |-> FirstModel]
    /\ chunks = [r \in Run |-> {}]
    /\ state = [k \in Kind |-> None]
    /\ attempt = [k \in Kind |-> 0]
    /\ pc = [k \in Kind |-> "idle"]
    /\ w = [k \in Kind |-> Blank]
    /\ missed = FALSE /\ beside = FALSE
    /\ faults = 0 /\ rebuilds = 0 /\ changes = 0

Room  == faults + rebuilds + changes < MaxInAll
Fault == Room /\ faults < MaxFaults /\ faults' = faults + 1 /\ UNCHANGED <<rebuilds, changes>>

-----------------------------------------------------------------------------
(* What queues an index job.                                               *)

\* River inserts the job unless one of its kind is live.
Insert(k) ==
    /\ state[k] = None
    /\ state' = [state EXCEPT ![k] = "queued"]
    /\ attempt' = [attempt EXCEPT ![k] = 0]
    /\ UNCHANGED <<pc, w>>

\* A push moves the branch; its webhook is on the way.
Push ==
    /\ tip < MaxCommit
    /\ tip' = tip + 1 /\ hooks' = hooks + 1
    /\ UNCHANGED <<recent, cfgVars, runVars, jobVars, ghosts, bounds>>

\* Service.push: a repository with no index waits for its onboarding, which
\* a rebuild may stand in for.
PushHook ==
    /\ hooks > 0 /\ hooks' = hooks - 1 /\ recent' = TRUE
    /\ \/ active # None /\ Insert("update")
       \/ (active = None \/ state["update"] # None) /\ UNCHANGED jobVars
    /\ beside' = (beside \/ (active = None /\ state["full"] # None))
    /\ UNCHANGED <<tip, cfgVars, runVars, missed, bounds>>

HookLost ==
    /\ hooks > 0 /\ hooks' = hooks - 1 /\ Fault
    /\ UNCHANGED <<tip, recent, cfgVars, runVars, jobVars, ghosts>>

\* Nothing was delivered for the poll's lookback.
Quiet ==
    /\ recent /\ hooks = 0 /\ recent' = FALSE
    /\ UNCHANGED <<tip, hooks, cfgVars, runVars, jobVars, ghosts, bounds>>

\* Poller.pollTip, of a repository that has an index.
PollTip ==
    /\ ~recent /\ active # None
    /\ tip # commit[active]
    /\ Insert("update")
    /\ UNCHANGED <<gitVars, cfgVars, runVars, ghosts, bounds>>

\* Onboarder.Offer, of a repository with no index and no live index job.
Onboard ==
    /\ active = None /\ \A k \in Kind : state[k] = None
    /\ Insert("update")
    /\ UNCHANGED <<gitVars, cfgVars, runVars, ghosts, bounds>>

\* jobs.EnqueueReindex.
Reindex ==
    /\ Room /\ rebuilds < MaxRebuilds /\ rebuilds' = rebuilds + 1
    /\ Insert("full")
    /\ UNCHANGED <<gitVars, cfgVars, runVars, ghosts, faults, changes>>

-----------------------------------------------------------------------------
(* The embedding model is changed.  A replica reads its file once, at its  *)
(* start: a rolling update runs replicas of both files side by side, until *)
(* the last of the old ones has drained.                                   *)

Rollout ==
    /\ Room /\ changes < MaxChanges /\ changes' = changes + 1
    /\ files = {embedding}
    /\ \E m \in Model \ files : embedding' = m /\ files' = files \cup {m}
    /\ UNCHANGED <<gitVars, schema, runVars, jobVars, ghosts, faults, rebuilds>>

Draining(k) == pc[k] \in Starting \cup Building /\ pc[k] # "open" /\ w[k].file # embedding

RolledOut ==
    /\ files # {embedding} /\ \A k \in Kind : ~Draining(k)
    /\ files' = {embedding}
    /\ UNCHANGED <<gitVars, embedding, schema, runVars, jobVars, ghosts, bounds>>

\* A replica of the new file is elected: EnsureIndexSchema drops every
\* generation with the table.
EnsureIndexSchema ==
    /\ schema # embedding /\ schema' = embedding
    /\ active' = None
    /\ status' = [r \in Run |-> IF status[r] \in {"running", "completed"} THEN "superseded" ELSE status[r]]
    /\ chunks' = [r \in Run |-> {}]
    /\ UNCHANGED <<gitVars, embedding, files, commit, model, jobVars, ghosts, bounds>>

-----------------------------------------------------------------------------
(* Index.Work, of the job of kind k.                                       *)

Frame == UNCHANGED <<gitVars, cfgVars, state, attempt>>

\* A step of Work that goes on at pc "to" with what the worker holds now.
Step(k, from, to, local) ==
    /\ pc[k] = from
    /\ pc' = [pc EXCEPT ![k] = to]
    /\ w' = [w EXCEPT ![k] = local]
    /\ Frame

\* The same without a change to what it holds, a return before the run is
\* started, and the way out after it, which knows the run only.
Go(k, from, to) == Step(k, from, to, w[k])
Return(k, from, r) == Step(k, from, "returned", [Blank EXCEPT !.looked = w[k].looked, !.ret = r])
Leave(k, from, to, r, looked) ==
    Step(k, from, to, [Blank EXCEPT !.run = w[k].run, !.looked = looked, !.ret = r])

\* The configuration and the repository's row, its active run among it.  An
\* update that begins now looks at the branch itself: what was missed
\* before is not any more.
Open(k) ==
    /\ \E m \in files : Step(k, "open", "tip", [w[k] EXCEPT !.file = m, !.seen = active])
    /\ IF k = "update"
       THEN missed' = FALSE /\ beside' = (state["full"] = "running")
       ELSE beside' = (beside \/ state["update"] = "running") /\ UNCHANGED missed
    /\ UNCHANGED <<runVars, bounds>>

BranchTip(k) ==
    /\ Step(k, "tip", "decide", [w[k] EXCEPT !.target = tip, !.looked = tip])
    /\ UNCHANGED <<runVars, ghosts, bounds>>

\* Whether the job adds to the generation prior instead of building its own.
Fits(k, prior) == k = "update" /\ prior # None /\ model[prior] = w[k].file

\* activeGeneration, then the mode: a run that is not completed is no
\* generation to build on, and an update of one at the tip has nothing to do.
Decide(k) ==
    LET prior == IF w[k].seen # None /\ status[w[k].seen] = "completed" THEN w[k].seen ELSE None
        fits  == Fits(k, prior)
    IN /\ IF fits /\ commit[prior] = w[k].target
          THEN Return(k, "decide", "ok")
          ELSE Step(k, "decide", "start",
                    [w[k] EXCEPT !.seen = None, !.prior = prior, !.incremental = fits,
                                 !.base = IF fits THEN commit[prior] ELSE 0])
       /\ UNCHANGED <<runVars, ghosts, bounds>>

\* Ids nothing refers to: their rows are never read again.
Unused == {r \in Run \ {active} : \A k \in Kind : r \notin {w[k].run, w[k].prior, w[k].seen}}

\* The runs whose chunks StartIndexRun sweeps: not the active one, and older
\* than a job may work (StrayAfter exceeds MaxJobTimeout).
Stray(r) == r # active /\ \A k \in Kind : w[k].run # r

\* Column f of the new row r, and of those out of use.
Recycled(f, blank, r, x) ==
    [y \in Run |-> IF y = r THEN x ELSE IF y \in Unused THEN blank ELSE f[y]]

StartIndexRun(k) ==
    \E r \in Unused :
        /\ r = CHOOSE x \in Unused : TRUE
        /\ Step(k, "start", "runner", [w[k] EXCEPT !.run = r])
        /\ status' = Recycled(status, None, r, "running")
        /\ commit' = Recycled(commit, 0, r, w[k].target)
        /\ model' = Recycled(model, FirstModel, r, w[k].file)
        /\ chunks' = [x \in Run |-> IF Stray(x) THEN {} ELSE chunks[x]]
        /\ UNCHANGED <<active, ghosts, bounds>>

\* The runner stages the tree's chunks, or those of the paths that differ
\* from the base's; a base it cannot fetch has it fall back to a full build.
RunIndex(k) ==
    /\ \E inc \in {w[k].incremental, FALSE} :
        LET paths == IF inc THEN Differ(w[k].base, w[k].target) ELSE Path
        IN Step(k, "runner", IF paths = {} THEN "swap" ELSE "embed",
                [w[k] EXCEPT !.incremental = inc, !.left = paths])
    /\ UNCHANGED <<runVars, ghosts, bounds>>

\* embed: a batch is embedded and inserted under the run.
Embed(k) ==
    /\ \E p \in w[k].left :
        /\ p = CHOOSE q \in w[k].left : TRUE
        /\ Step(k, "embed", IF w[k].left = {p} THEN "swap" ELSE "embed",
                [w[k] EXCEPT !.left = @ \ {p}])
        /\ chunks' = [chunks EXCEPT ![w[k].run] =
                        @ \cup {<<p, Version(w[k].target, p), w[k].file>>}]
    /\ UNCHANGED <<active, status, commit, model, ghosts, bounds>>

\* The table was created anew for vectors of other dimensions.
InsertFails(k) ==
    /\ Leave(k, "embed", "failing", "error", 0) /\ schema # w[k].file
    /\ UNCHANGED <<runVars, ghosts, bounds>>

\* MUTANT of Advance: the changed paths' old chunks are kept.
AdvanceKeeping(k, r) ==
    /\ chunks' = [chunks EXCEPT ![r] = @ \cup chunks[w[k].run], ![w[k].run] = {}]
    /\ commit' = [commit EXCEPT ![r] = w[k].target]

\* AdvanceGeneration of the generation r the step was built on.
Advance(k, r) ==
    /\ chunks' = [chunks EXCEPT
                    ![r] = {c \in @ : c[1] \notin Differ(w[k].base, w[k].target)} \cup chunks[w[k].run],
                    ![w[k].run] = {}]
    /\ commit' = [commit EXCEPT ![r] = w[k].target]

\* embed's last transaction: the step's chunks go into the generation, or
\* the run becomes the generation, and the run is completed.
Swap(k) ==
    LET prior == w[k].prior
        ended == [status EXCEPT ![w[k].run] = "completed"]
    IN IF w[k].incremental
       THEN Advance(k, prior) /\ status' = ended /\ UNCHANGED <<active, model>>
       ELSE /\ active' = w[k].run
            /\ status' = IF prior = None THEN ended ELSE [ended EXCEPT ![prior] = "superseded"]
            /\ chunks' = IF prior = None THEN chunks ELSE [chunks EXCEPT ![prior] = {}]
            /\ UNCHANGED <<commit, model>>

SwapIn(k) ==
    /\ Go(k, "swap", "recheck") /\ Swap(k)
    /\ UNCHANGED <<ghosts, bounds>>

\* MUTANT of Moved: the branch is looked at again only after a full build.
MovedAfterFull(k) == k = "update" /\ ~w[k].incremental /\ tip # w[k].target

\* The branch moved while an update ran; a rebuild does not look.
Moved(k) == k = "update" /\ tip # w[k].target

Recheck(k) ==
    /\ Leave(k, "recheck", "clearing", IF Moved(k) THEN "snooze" ELSE "ok",
             IF k = "update" THEN tip ELSE w[k].looked)
    /\ UNCHANGED <<runVars, ghosts, bounds>>

\* The run is ended as failed, whatever else became of it.
FailRun(k) ==
    /\ Go(k, "failing", "clearing")
    /\ status' = [status EXCEPT ![w[k].run] = "failed"]
    /\ UNCHANGED <<active, commit, model, chunks, ghosts, bounds>>

\* ClearIndexStaging, deferred: the run's chunks go unless it is active.
ClearStaging(k) == IF w[k].run = active THEN chunks ELSE [chunks EXCEPT ![w[k].run] = {}]

Clear(k) ==
    /\ Go(k, "clearing", "returned")
    /\ chunks' = ClearStaging(k)
    /\ UNCHANGED <<active, status, commit, model, ghosts, bounds>>

\* One call of Work fails, its context's end included: before the run is
\* started Work only returns; a run whose record failed is not ended; the
\* swap may have been committed for all that; a tip not read again is taken
\* for unmoved.  A replica that drains cuts its jobs when it must stop.
Fails(k) ==
    /\ Fault \/ (Draining(k) /\ UNCHANGED bounds)
    /\ \/ /\ \E from \in Starting : Return(k, from, "error")
          /\ UNCHANGED runVars
       \/ /\ \E from \in {"runner", "embed", "swap"} : Leave(k, from, "failing", "error", 0)
          /\ UNCHANGED runVars
       \/ /\ \E from \in {"runner", "failing"} : Leave(k, from, "clearing", "error", 0)
          /\ UNCHANGED runVars
       \/ Leave(k, "swap", "failing", "error", 0) /\ Swap(k)
       \/ /\ Leave(k, "recheck", "clearing", "ok", w[k].looked)
          /\ UNCHANGED runVars
       \/ Go(k, "clearing", "returned") /\ UNCHANGED runVars
    /\ UNCHANGED ghosts

-----------------------------------------------------------------------------
(* River, a replica's death, and the leader's Rescuer.                     *)

Fetch(k) ==
    /\ state[k] = "queued"
    /\ state' = [state EXCEPT ![k] = "running"]
    /\ attempt' = [attempt EXCEPT ![k] = @ + 1]
    /\ pc' = [pc EXCEPT ![k] = "open"]
    /\ UNCHANGED <<gitVars, cfgVars, runVars, w, ghosts, bounds>>

\* MUTANTS of Ended: a job that snoozed pays for it with an attempt; a job
\* that failed is not tried again.
EndedCounting(k, how) ==
    /\ state' = [state EXCEPT ![k] =
                    IF how = "snooze" \/ (how = "error" /\ attempt[k] < MaxAttempts)
                    THEN "queued" ELSE None]
    /\ pc' = [pc EXCEPT ![k] = "idle"]
    /\ w' = [w EXCEPT ![k] = Blank]
    /\ UNCHANGED attempt
EndedForGood(k, how) ==
    /\ state' = [state EXCEPT ![k] = IF how = "snooze" THEN "queued" ELSE None]
    /\ attempt' = IF how = "snooze" THEN [attempt EXCEPT ![k] = @ - 1] ELSE attempt
    /\ pc' = [pc EXCEPT ![k] = "idle"]
    /\ w' = [w EXCEPT ![k] = Blank]

\* Where a job goes whose attempt ended: a snooze gives its number back.
Ended(k, how) ==
    /\ state' = [state EXCEPT ![k] =
                    IF how = "snooze" \/ (how = "error" /\ attempt[k] < MaxAttempts)
                    THEN "queued" ELSE None]
    /\ attempt' = IF how = "snooze" THEN [attempt EXCEPT ![k] = @ - 1] ELSE attempt
    /\ pc' = [pc EXCEPT ![k] = "idle"]
    /\ w' = [w EXCEPT ![k] = Blank]

Finish(k) ==
    /\ pc[k] = "returned" /\ Ended(k, w[k].ret)
    /\ missed' = (missed \/ (k = "update" /\ w[k].ret = "ok" /\ w[k].looked # tip))
    /\ UNCHANGED <<gitVars, cfgVars, runVars, beside, bounds>>

Crash(k) ==
    /\ Fault /\ pc[k] \in Working \cup {"returned"}
    /\ pc' = [pc EXCEPT ![k] = "dead"] /\ w' = [w EXCEPT ![k] = Blank]
    /\ UNCHANGED <<gitVars, cfgVars, runVars, state, attempt, ghosts>>

Rescue(k) ==
    /\ pc[k] = "dead" /\ Ended(k, "error")
    /\ UNCHANGED <<gitVars, cfgVars, runVars, ghosts, bounds>>

-----------------------------------------------------------------------------
Work(k) ==
    \/ Open(k) \/ BranchTip(k) \/ Decide(k) \/ StartIndexRun(k) \/ RunIndex(k)
    \/ Embed(k) \/ InsertFails(k) \/ SwapIn(k) \/ Recheck(k) \/ FailRun(k) \/ Clear(k) \/ Fails(k)
River(k) == Fetch(k) \/ Finish(k) \/ Rescue(k)
Queue == PushHook \/ PollTip \/ Onboard

Next ==
    \/ Push \/ HookLost \/ Quiet \/ Reindex \/ Rollout \/ RolledOut \/ EnsureIndexSchema \/ Queue
    \/ \E k \in Kind : Work(k) \/ River(k) \/ Crash(k)

\* Workers run on, River fetches and settles, a webhook is delivered or
\* lost, and the leader polls, onboards, rescues and applies the
\* configuration.  That the webhooks ever pause is the forge's, and is what
\* the poll of the tips waits for.
Fairness ==
    /\ WF_vars(PushHook) /\ WF_vars(PollTip) /\ WF_vars(Onboard)
    /\ WF_vars(Quiet) /\ WF_vars(RolledOut) /\ WF_vars(EnsureIndexSchema)
    /\ \A k \in Kind : WF_vars(Work(k)) /\ WF_vars(River(k))

Spec == Init /\ [][Next]_vars
LiveSpec == Spec /\ Fairness

-----------------------------------------------------------------------------
(* Properties.                                                             *)

\* A generation a review may search: active, completed, of the embedder its
\* replica's file names (ActiveGenerationFor).
Searchable == active # None /\ status[active] = "completed" /\ model[active] \in files

\* What a review may be shown is never of another commit or embedder than
\* its generation's, and while the embedder stays it is the whole tree of
\* that commit: whatever update, rebuild, retry or sweep ran beside, and
\* whatever was cut or failed.
SearchedIsCurrent ==
    Searchable =>
        /\ chunks[active] \subseteq Tree(commit[active], model[active])
        /\ changes = 0 => chunks[active] = Tree(commit[active], model[active])

\* "a push while the repository's job is running is absorbed by it, and the
\* worker indexes the tip again when it finds the branch moved": with
\* nothing queued or on its way and nothing failed, the index is behind the
\* tip only by a push that came between a job's last look and its end, or
\* because a rebuild ran beside it.
PushesAreIndexed ==
    /\ hooks = 0 /\ \A k \in Kind : state[k] = None
    /\ faults = 0 /\ changes = 0 /\ active # None
    /\ ~missed /\ ~beside
    => Searchable /\ commit[active] = tip

\* Once pushes and failures cease, the index reaches the tip and stays
\* there: what a job or a webhook missed, the poll of the tips makes up for.
\* A job's attempts must outnumber the failures: a swap that was committed
\* in the last of them, its answer lost, leaves an active run marked failed.
IndexCatchesUp == <>[](changes > 0 \/ (Searchable /\ commit[active] = tip))

\* "so a review never sees a half-built index" (embed), of a change of the
\* embedder too.
NeverHalfBuilt == Searchable => chunks[active] = Tree(commit[active], model[active])
=============================================================================
