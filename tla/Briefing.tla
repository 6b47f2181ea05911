------------------------------ MODULE Briefing ------------------------------
(***************************************************************************)
(* What a review is given (internal/repoconfig, worker/repoconfig.go,      *)
(* runner/repoconfig.go, runner/agentic.go, review/prompt.go): the admin's *)
(* settings with the .kritika.yaml of the merge base over them, the files  *)
(* they name and the agent files of the merge base, the rules that apply   *)
(* to the change, and a prompt that fits its budget.  Maintainers commit   *)
(* to the base branch and the author pushes and rebases while the review   *)
(* is being prepared; a follow-up reads the merge base again.              *)
(*                                                                         *)
(* A file is its name and how much text it holds.  What a budget counts is *)
(* that text, and a unit for each header or note.  A key .kritika.yaml may *)
(* leave out is {} or {v}.                                                 *)
(***************************************************************************)
EXTENDS Integers, SequencesExt, FiniteSetsExt, Orders

CONSTANTS
    AdminSettings,  \* the settings the admin's layers may come to
    Documents,      \* what .kritika.yaml may hold at a commit
    Trees,          \* what a commit's other files may hold
    Changes,        \* what a pull request may change
    Deep,           \* the changed paths under the directory lib
    Room,           \* the budgets, a record
    NoFile,         \* the file of a rule written as text, and no template
    BriefingBounds

\* Commits to the base branch, pushes and rebases of the pull request, other
\* settings deployed.
BriefingBound == [commits : Nat, pushes : Nat, deploys : Nat]

ASSUME BriefingAssumption ==
    /\ DOMAIN Room = {"file", "total", "rules", "ruleFiles", "instructions", "prompt", "note"}
    /\ \A r \in DOMAIN Room : Room[r] \in Nat
    /\ BriefingBounds \subseteq BriefingBound
    /\ \A op \in AdminSettings :
        /\ DOMAIN op = {"enabled", "filter", "ignore", "fix", "feedback", "template", "agentFiles", "context",
                        "rules", "model", "providers", "dropped"}
        /\ op.enabled \in BOOLEAN /\ op.fix \in BOOLEAN /\ op.feedback \in {"detailed", "standard", "minimal"}
    /\ \A S \in {AdminSettings, Documents} : \A s \in S :
        /\ s.rules \in Seq(Elements(s.rules)) /\ \A r \in Elements(s.rules) : r.size \in Nat
        /\ s.context \in Seq(Elements(s.context))
    /\ \A d \in Documents : d.size \in Nat /\ d.fix \in {{}, {TRUE}, {FALSE}}
    /\ \A t \in Trees : t \in [DOMAIN t -> Nat]
    /\ \A c \in Changes :
        /\ c.diff \in Seq(Elements(c.diff)) /\ c.delta \in Seq(Elements(c.delta))
        /\ \A f \in Elements(c.diff) \cup Elements(c.delta) : f.size \in Nat
        /\ c.prior \in Seq(Nat) /\ c.dismissed \in Seq(Nat) /\ c.context \in Seq(Nat)
        /\ c.issues \in Seq(Nat) /\ c.body \in Nat

VARIABLES
    tip,     \* the base branch's last commit
    pull,    \* the pull request: its head, merge base and change
    admin,   \* the admin's settings
    brief,   \* the review
    reply,   \* what a follow-up was given
    calm     \* what may still happen
briefingVars == <<tip, pull, admin, brief, reply, calm>>

Levels == {"detailed", "standard", "minimal"}
Stages == {"none", "begun", "skipped", "told"}
NoBrief == [stage |-> "none"]
Override(v, o) == IF o = {} THEN v ELSE CHOOSE w \in o : TRUE

\* What the first n of a list of sizes come to, and all of them.
Sums(sizes) == LET upTo[n \in 0 .. Len(sizes)] == IF n = 0 THEN 0 ELSE upTo[n - 1] + sizes[n] IN upTo
Sum(sizes) == Sums(sizes)[Len(sizes)]

BriefingTypeOK ==
    /\ tip.doc \in Documents /\ tip.tree \in Trees
    /\ pull.base.doc \in Documents /\ pull.change \in Changes /\ pull.n \in Nat
    /\ admin \in AdminSettings /\ brief.stage \in Stages
    /\ calm \in BriefingBound

BriefingInit ==
    /\ tip \in [doc : Documents, tree : Trees]
    /\ \E c \in Changes : pull = [n |-> 1, base |-> tip, change |-> c]
    /\ admin \in AdminSettings
    /\ brief = NoBrief /\ reply = NoBrief
    /\ calm \in BriefingBounds

-----------------------------------------------------------------------------
(* .kritika.yaml *)

Repeats(s) == \E i, j \in DOMAIN s : i # j /\ s[i].id = s[j].id

\* CheckRules: each rule has an id of its own, and text or the path of a file
CheckRules(rules) ==
    /\ ~Repeats(rules)
    /\ \A r \in Elements(rules) : r.file # "../outside" /\ r.when # "broken"

\* Parse; a filter must compile, and evaluate on a sample pull request
Parses(doc) ==
    /\ doc.kind = "text"
    /\ "[" \notin doc.ignore
    /\ CheckRules(doc.rules)
    /\ "../outside" \notin doc.template
    /\ doc.filter # "broken"

\* choose: a model of a provider the account may use; op's stands for another
Choose(want, stands, op) == IF want \subseteq op.providers THEN Override(stands, want) ELSE stands

\* The file's rules come after the admin's, but those whose id one of them has.
Unclaimed(admins, own) == {i \in DOMAIN own : \A o \in Elements(admins) : o.id # own[i].id}
PrependRules(admins, own) == Picked(own, Unclaimed(admins, own)) \o admins
AddRules(admins, own) == admins \o Picked(own, Unclaimed(admins, own))

\* Its references likewise, each path once.
AddReferences(admins, own) ==
    admins \o Picked(own, {i \in DOMAIN own : /\ \A c \in Elements(admins) : c.path # own[i].path
                                               /\ \A j \in 1 .. i - 1 : own[j].path # own[i].path})

\* Merge, and effective: a file that does not parse is ignored as a whole
Merge(doc, op) ==
    IF ~Parses(doc)
    THEN [op EXCEPT !.dropped = IF doc.kind = "text" THEN {"file"} ELSE {}]
    ELSE [op EXCEPT
            !.enabled = @ /\ FALSE \notin doc.enabled,
            !.filter = doc.filter,
            !.ignore = @ \cup doc.ignore,
            !.fix = @ \/ TRUE \in doc.fix,
            !.feedback = IF doc.feedback \subseteq Levels THEN Override(@, doc.feedback) ELSE @,
            !.template = Override(@, doc.template),
            !.agentFiles = Override(@, doc.agentFiles),
            !.context = AddReferences(@, doc.context),
            !.rules = AddRules(@, doc.rules),
            !.model = Choose(doc.model, @, op),
            !.dropped =
                (IF op.fix /\ FALSE \in doc.fix THEN {"fix"} ELSE {})
                \cup (IF doc.feedback \subseteq Levels THEN {} ELSE {"feedback"})
                \cup (IF doc.model \subseteq op.providers THEN {} ELSE {"model"})
                \cup {r.id : r \in {s \in Elements(doc.rules) : \E o \in Elements(op.rules) : o.id = s.id}}]

\* AllIgnored, of no paths is false
Ignores(ignore, changed) == changed # {} /\ changed \subseteq ignore

\* Merged.Check: a filter that fails to evaluate skips
CheckMerged(m, changed) ==
    IF ~m.enabled THEN "disabled"
    ELSE IF m.filter \in {"false", "fails"} THEN "filtered"
    ELSE IF Ignores(m.ignore, changed) THEN "only_skipped_paths"
    ELSE "none"

-----------------------------------------------------------------------------
(* The files of the merge base *)

\* Review.Referenced, and repoFiles: the rules' files, the template, then
\* .kritika.yaml itself where there is one.
RuleFiles(rules) == [i \in DOMAIN rules |-> rules[i].file]
Referenced(m) == Append(RuleFiles(m.rules), m.template)
RepoFiles(m, doc) == Referenced(m) \o (IF doc.kind = "text" THEN <<".kritika.yaml">> ELSE <<>>)

HasFile(commit, f) == IF f = ".kritika.yaml" THEN commit.doc.kind # "absent" ELSE f \in DOMAIN commit.tree
SizeAt(commit, f)  == IF f = ".kritika.yaml" THEN commit.doc.size ELSE commit.tree[f]
NoFiles == [files |-> [f \in {} |-> 0], notes |-> {}, total |-> 0]

\* A file that was read, kept unless it is too large or there are too many.
WithFile(files, f, size) == [g \in DOMAIN files \cup {f} |-> IF g = f THEN size ELSE files[g]]
Keep(got, f, size) ==
    IF size > Room.file \/ got.total + size > Room.total
    THEN [got EXCEPT !.notes = @ \cup {f}]
    ELSE [got EXCEPT !.files = WithFile(@, f, size), !.total = @ + size]

\* Collect: each file by its name, and what it comes to with n of them
Read(commit, got, f) ==
    IF f = NoFile \/ f \in DOMAIN got.files THEN got
    ELSE IF ~HasFile(commit, f) THEN [got EXCEPT !.notes = @ \cup {f}]
    ELSE Keep(got, f, SizeAt(commit, f))
Collected(commit, names) ==
    LET got[n \in 0 .. Len(names)] == IF n = 0 THEN NoFiles ELSE Read(commit, got[n - 1], names[n]) IN got
Collect(commit, names) == Collected(commit, names)[Len(names)]

\* agentDirs: the root and, when a path under it changed, lib; and the files
\* each may give agents, of which it is the first that there is
Top == <<"AGENTS.md", "CLAUDE.md">>
Lib == <<"lib/AGENTS.md", "lib/CLAUDE.md">>
InLib(changed) == changed \cap Deep # {}
FirstOf(dir, have) ==
    IF dir[1] \in have THEN <<dir[1]>> ELSE IF dir[2] \in have THEN <<dir[2]>> ELSE <<>>

\* ReadAgentFiles: CLAUDE.md only where there is no AGENTS.md
ReadDir(tree, got, dir) ==
    LET found == FirstOf(dir, DOMAIN got.files \cup DOMAIN tree)
    IN IF found = <<>> \/ found[1] \in DOMAIN got.files THEN got ELSE Keep(got, found[1], tree[found[1]])
ReadAgentFiles(tree, got, changed) ==
    IF InLib(changed) THEN ReadDir(tree, ReadDir(tree, got, Top), Lib) ELSE ReadDir(tree, got, Top)

\* AgentFiles: which of the files kept are the change's instructions
AgentFilesOf(files, changed) ==
    FirstOf(Top, DOMAIN files) \o (IF InLib(changed) THEN FirstOf(Lib, DOMAIN files) ELSE <<>>)

\* repoFiles of the runner: the files of m named, and the agent files
ReadFiles(commit, m, changed) ==
    LET named == Collect(commit, RepoFiles(m, commit.doc))
    IN IF m.agentFiles THEN ReadAgentFiles(commit.tree, named, changed) ELSE named

\* Instructions: the files' text as far as there is room, the last one cut;
\* each is its file and how much of it is given
Instruct(files, given, f) ==
    LET size == Min({files[f], given.left})
    IN IF files[f] = 0 \/ given.left = 0 THEN given
       ELSE [out |-> Append(given.out, <<f, size>>), left |-> given.left - size, cut |-> given.cut \/ size < files[f]]
Instructed(files, names) ==
    LET given[n \in 0 .. Len(names)] ==
            IF n = 0 THEN [out |-> <<>>, left |-> Room.instructions, cut |-> FALSE]
            ELSE Instruct(files, given[n - 1], names[n])
    IN given
Instructions(files, names) == Instructed(files, names)[Len(names)]

-----------------------------------------------------------------------------
(* Rules and references *)

AppliesTo(paths, changed) == paths = {} \/ paths \cap changed # {}

\* RulesFor: a rule without whenExpr, or whose whenExpr is true
Holds(r) == r.when = "true"

TextOf(r, files) ==
    IF r.file = NoFile THEN r.size ELSE IF r.file \in DOMAIN files THEN files[r.file] ELSE 0

\* ActiveRules: those given, and how many applied that did not fit, each
\* against the room of its kind
AddRule(files, changed, given, r) ==
    LET size == TextOf(r, files)
        kind == IF r.file = NoFile THEN "rules" ELSE "ruleFiles"
    IN IF ~Holds(r) \/ ~AppliesTo(r.paths, changed) \/ (r.file # NoFile /\ size = 0) THEN given
       ELSE IF size > given[kind] THEN [given EXCEPT !.left = @ + 1]
       ELSE [given EXCEPT !.out = Append(@, r), ![kind] = @ - size]
Activated(rules, files, changed) ==
    LET given[n \in 0 .. Len(rules)] ==
            IF n = 0 THEN [out |-> <<>>, left |-> 0, rules |-> Room.rules, ruleFiles |-> Room.ruleFiles]
            ELSE AddRule(files, changed, given[n - 1], rules[n])
    IN given
ActiveRules(rules, files, changed) == Activated(rules, files, changed)[Len(rules)]

ActiveContext(context, changed) == Picked(context, {i \in DOMAIN context : AppliesTo(context[i].paths, changed)})

-----------------------------------------------------------------------------
(* The prompt *)

\* Items given whole, in order, while they fit: how many do.
Fitting(sizes, room) == Max({0} \cup {n \in DOMAIN sizes : Sums(sizes)[n] <= room})
\* A section of the first n of such items under its header
NoSection == [shown |-> 0, size |-> 0]
Taking(sizes, n) == [shown |-> n, size |-> 1 + Sums(sizes)[n]]
\* What of the items is given after at: nothing without room for the header
SectionUncounted(sizes, at, budget) ==
    IF sizes = <<>> \/ at + 1 > budget THEN NoSection ELSE Taking(sizes, Fitting(sizes, budget - at))
Section(sizes, at, budget) ==
    IF sizes = <<>> \/ at + 1 > budget THEN NoSection ELSE Taking(sizes, Fitting(sizes, budget - at - 1))

SizesOf(items) == [i \in DOMAIN items |-> items[i].size]

\* FitDiff: whole files, those that do not fit left out
AddFile(given, f, room) ==
    IF given.size + f.size > room THEN given ELSE [out |-> Append(given.out, f), size |-> given.size + f.size]
Fitted(diff, room) ==
    LET given[n \in 0 .. Len(diff)] ==
            IF n = 0 THEN [out |-> <<>>, size |-> 0] ELSE AddFile(given[n - 1], diff[n], room)
    IN given
FitDiff(diff, room) == IF Sum(SizesOf(diff)) <= room THEN diff ELSE Fitted(diff, room)[Len(diff)].out

\* writeDescription, writeIssues: cut at a share, saying so
CutAt(size, share) == IF size > share THEN share + 1 ELSE size
Described(change, budget) ==
    LET share == budget \div 4
        each == share \div Max({1, Len(change.issues)})
    IN Len(change.diff) + CutAt(change.body, share)
       + Sum([i \in DOMAIN change.issues |-> CutAt(change.issues[i], each)])

\* priorSection, and the note of what it leaves out where there is room
Noted(section, room) == IF section.size + 1 <= room THEN [section EXCEPT !.size = @ + 1] ELSE section
PriorSection(prior, room) ==
    IF prior = <<>> \/ 1 > room THEN NoSection
    ELSE IF 1 + Sum(prior) <= room THEN Taking(prior, Len(prior))
    ELSE Noted(Taking(prior, Fitting(prior, room - 1 - 1)), room)

\* the delta as far as it is given, or a note that it is not
FitDelta(delta, room) == IF 1 + Sum(SizesOf(delta)) <= room THEN delta ELSE FitDiff(delta, room - 1 - 1)
DeltaSection(delta, given, room) ==
    [shown |-> Len(given),
     size |-> IF given # <<>> THEN 1 + Sum(SizesOf(given)) + (IF given # delta THEN 1 ELSE 0)
              ELSE IF 1 <= room THEN 1 ELSE 0]

\* Build's cmp.Or: nothing left is taken for no budget set
OrDefault(budget) == IF budget = 0 THEN Room.prompt ELSE budget
\* SystemPrompt: what is left of the budget for the user's message
UserBudget(rules, files, instructions) ==
    OrDefault(Room.prompt - Sum([i \in DOMAIN rules |-> TextOf(rules[i], files)])
                          - Sum([i \in DOMAIN instructions |-> instructions[i][2]]))

\* The message so far, and a part it is given next
Opening(described) ==
    [described |-> described, diff |-> <<>>, omitted |-> 0, prior |-> 0, delta |-> 0, dismissed |-> 0,
     references |-> 0, context |-> 0, left |-> 0, size |-> described]
Extend(msg, part, section) == [msg EXCEPT ![part] = section.shown, !.size = @ + section.size]

WithDiff(msg, diff, given) ==
    [msg EXCEPT !.diff = given, !.omitted = Len(diff) - Len(given),
                !.size = @ + Sum(SizesOf(given)) + Len(diff) - Len(given)]
AddDiff(msg, diff, budget) == WithDiff(msg, diff, FitDiff(diff, budget - msg.size - Room.note))

\* incrementalSections: the prior findings first, leaving room for the note of
\* a delta left out, then the delta
AddDelta(msg, delta, budget) ==
    Extend(msg, "delta", DeltaSection(delta, FitDelta(delta, budget - msg.size), budget - msg.size))
Incremental(msg, change, budget) ==
    AddDelta(Extend(msg, "prior", PriorSection(change.prior, budget - msg.size - 1)), change.delta, budget)

AddSection(msg, part, sizes, budget) == Extend(msg, part, Section(sizes, msg.size, budget))

WithContext(msg, chunks, n) ==
    [msg EXCEPT !.context = n, !.left = Len(chunks) - n,
                !.size = IF n = 0 THEN @ ELSE @ + 1 + Sums(chunks)[n]]
AddContext(msg, chunks, budget) == WithContext(msg, chunks, Fitting(chunks, budget - msg.size - 1))

\* Build: the change's list and description, the diff, what a re-review adds,
\* the dismissed findings, the references, and the context for what is left
Build(change, references, budget) ==
    LET opened == AddDiff(Opening(Described(change, budget)), change.diff, budget)
        rereview == IF change.incremental THEN Incremental(opened, change, budget) ELSE opened
        dismissed == AddSection(rereview, "dismissed", change.dismissed, budget)
        named == AddSection(dismissed, "references", [i \in references |-> 1], budget)
    IN AddContext(named, change.context, budget)

-----------------------------------------------------------------------------
(* Commits, pushes, and the review *)

Spare(what) == calm[what] > 0 /\ calm' = [calm EXCEPT ![what] = @ - 1]

CommitBase ==
    /\ Spare("commits")
    /\ \/ \E d \in Documents : tip' = [tip EXCEPT !.doc = d]
       \/ \E t \in Trees : tip' = [tip EXCEPT !.tree = t]
    /\ tip' # tip
    /\ UNCHANGED <<pull, admin, brief, reply>>

\* A review being prepared for another head is superseded.
NewPull(p) ==
    /\ p # pull
    /\ pull' = [p EXCEPT !.n = @ + 1]
    /\ brief' = IF brief.stage = "begun" THEN NoBrief ELSE brief
    /\ UNCHANGED <<tip, admin, reply>>
PushChange == Spare("pushes") /\ \E c \in Changes : NewPull([pull EXCEPT !.change = c])
RebaseChange == Spare("pushes") /\ NewPull([pull EXCEPT !.base = tip])

DeploySettings ==
    /\ Spare("deploys")
    /\ admin' \in AdminSettings \ {admin}
    /\ UNCHANGED <<tip, pull, brief, reply>>

Paths(change) == {f.path : f \in Elements(change.diff)}
HugeNote(doc) == IF doc.kind = "huge" THEN {".kritika.yaml"} ELSE {}

\* begin: readRepoConfig at the merge base, effective, skipByRepo
BeginBrief ==
    /\ brief.stage = "none" \/ (brief.stage \in {"skipped", "told"} /\ brief.n # pull.n)
    /\ LET m == Merge(pull.base.doc, admin)
           why == CheckMerged(m, {})
       IN brief' = [stage |-> IF why = "none" THEN "begun" ELSE "skipped", why |-> why, n |-> pull.n,
                    admin |-> admin, settings |-> m, commit |-> pull.base, change |-> pull.change,
                    notes |-> m.dropped \cup HugeNote(pull.base.doc)]
    /\ UNCHANGED <<tip, pull, admin, reply, calm>>

Note(what, when) == IF when THEN {what} ELSE {}

\* newPromptInputs, of the files that were read
InputsOf(m, got, active, agents, changed) ==
    LET given == Instructions(got.files, agents)
    IN [files |-> got.files, rules |-> active.out, instructions |-> given.out,
        references |-> ActiveContext(m.context, changed),
        notes |-> got.notes \cup Note("rules", active.left > 0) \cup Note("instructions", given.cut)]
InputsGathered(m, got, changed) ==
    InputsOf(m, got, ActiveRules(m.rules, got.files, changed),
             IF m.agentFiles THEN AgentFilesOf(got.files, changed) ELSE <<>>, changed)

\* What settings m give a change, of the files of commit
Inputs(m, commit, changed) == InputsGathered(m, ReadFiles(commit, m, changed), changed)

Told(in, message) ==
    [stage |-> "told", why |-> "none", n |-> brief.n, admin |-> brief.admin, settings |-> brief.settings,
     commit |-> brief.commit, change |-> brief.change, message |-> message, inputs |-> in,
     notes |-> brief.notes \cup in.notes \cup Note("diff", message.omitted > 0) \cup Note("context", message.left > 0)]
\* newAgentPrompt
Prompted(change, in) == Told(in, Build(change, DOMAIN in.references, UserBudget(in.rules, in.files, in.instructions)))

\* The runner, at the merge base the job began with, whatever was pushed since
RunBrief ==
    /\ brief.stage = "begun"
    /\ LET changed == Paths(brief.change)
       IN brief' = IF Ignores(brief.settings.ignore, changed)
                   THEN [brief EXCEPT !.stage = "skipped", !.why = "only_skipped_paths"]
                   ELSE Prompted(brief.change, Inputs(brief.settings, brief.commit, changed))
    /\ UNCHANGED <<tip, pull, admin, reply, calm>>

\* A follow-up reads .kritika.yaml and the rules' files at the merge base of
\* now, over the files the review's runner read.
FollowUpBrief ==
    /\ brief.stage = "told"
    /\ LET m == Merge(pull.base.doc, admin)
           changed == Paths(brief.change)
           files == Collect(pull.base, RuleFiles(m.rules)).files @@ brief.inputs.files
       IN reply' = IF ~m.enabled THEN [NoBrief EXCEPT !.stage = "skipped"]
                   ELSE [stage |-> "told", admin |-> admin, settings |-> m, n |-> pull.n,
                         rules |-> ActiveRules(m.rules, files, changed).out]
    /\ UNCHANGED <<tip, pull, admin, brief, calm>>

BriefingNext ==
    \/ CommitBase \/ PushChange \/ RebaseChange \/ DeploySettings
    \/ BeginBrief \/ RunBrief \/ FollowUpBrief
BriefingSpec == BriefingInit /\ [][BriefingNext]_briefingVars

-----------------------------------------------------------------------------
(* Properties *)

SwitchesBounded(m, op) ==
    /\ m.enabled => op.enabled
    /\ op.fix => m.fix
    /\ op.ignore \subseteq m.ignore
    /\ m.model \in {op.model} \cup op.providers
    /\ m.feedback \in Levels
Bounded(m, op) ==
    SwitchesBounded(m, op) /\ IsPrefix(op.rules, m.rules) /\ IsPrefix(op.context, m.context)

\* Whatever .kritika.yaml says, the repository's settings stay in the admin's
\* bounds: nothing is enabled, unignored or waived, no provider is used that
\* the account may not, and the admin's rules come first.  So what the file
\* adds never crowds out a rule of the admin's: though texts and files share
\* their budgets, a review is given first just those of the admin's rules it
\* would be given by the admin's settings alone, and then only the file's.
AdminsBoundsStand ==
    /\ \A b \in {brief, reply} : b.stage = "told" => Bounded(b.settings, b.admin)
    /\ brief.stage = "told" =>
        LET given == brief.inputs.rules
            alone == Inputs(brief.admin, brief.commit, Paths(brief.change)).rules
        IN /\ IsPrefix(alone, given)
           /\ \A i \in Len(alone) + 1 .. Len(given) : given[i] \notin Elements(brief.admin.rules)

\* The text of the instructions given fills its room, and no one of them was
\* cut: what comes after it is left out, and truncated is not set.
JustFilled(in) == Sum([i \in DOMAIN in.instructions |-> in.instructions[i][2]]) = Room.instructions

\* What a review is not given is said: a file of the diff, a rule that applies,
\* a file the settings name, an agent file, or a value of .kritika.yaml is
\* given whole, or a note of the summary says it was not; but of agent files
\* after some that just fill their room.  And the message is never over its
\* budget, which is the whole prompt's when the system prompt leaves exactly
\* nothing, but for the description and the names of the files it leaves out.
NothingLeftOutUnsaid ==
    brief.stage = "told" =>
        LET in == brief.inputs
            m == brief.settings
            msg == brief.message
            doc == brief.commit.doc
        IN /\ Elements(msg.diff) # Elements(brief.change.diff) => "diff" \in brief.notes
           /\ \A r \in Elements(m.rules) : Holds(r) /\ AppliesTo(r.paths, Paths(brief.change)) =>
                \/ r \in Elements(in.rules) \/ "rules" \in brief.notes
                \/ r.file # NoFile /\ (r.file \in brief.notes \/ in.files[r.file] = 0)
           /\ Elements(Referenced(m)) \subseteq DOMAIN in.files \cup brief.notes \cup {NoFile}
           /\ m.agentFiles => \A f \in Elements(AgentFilesOf(brief.commit.tree, Paths(brief.change))) :
                \/ f \in brief.notes \/ "instructions" \in brief.notes \/ brief.commit.tree[f] = 0 \/ JustFilled(in)
                \/ <<f, brief.commit.tree[f]>> \in Elements(in.instructions)
           /\ msg.context < Len(brief.change.context) => "context" \in brief.notes
           /\ doc.kind = "text" =>
                \/ "file" \in brief.notes
                \/ /\ m.model \in doc.model \/ doc.model = {} \/ "model" \in brief.notes
                   /\ \A r \in Elements(doc.rules) : r \in Elements(m.rules) \/ r.id \in brief.notes
                   /\ m.fix \in doc.fix \/ doc.fix = {} \/ "fix" \in brief.notes
           /\ \/ msg.size <= UserBudget(in.rules, in.files, in.instructions)
              \/ /\ msg.size = msg.described + Sum(SizesOf(msg.diff)) + msg.omitted
                 /\ msg.diff = <<>> \/ msg.omitted > Room.note
=============================================================================
