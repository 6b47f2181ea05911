---- MODULE MCOperate ----
(***************************************************************************)
(* Operating kritika, for TLC: signing in to its dashboard (SignIn),       *)
(* paging through its lists (Listing), writing its configuration (Config), *)
(* what a review is then given (Briefing), and rolling it out (Rollout).   *)
(* They share no state, so each behaviour is of one of them, the part.     *)
(***************************************************************************)
EXTENDS SignIn, Listing, Config, Rollout, Briefing

CONSTANTS ann, acme, globex, issuer, forge

VARIABLE part

\* One person, whom the role mapping gives nothing, everything or an account,
\* and who belongs to another; files that differ in one thing each.
Unplaced    == [admin |-> FALSE, all |-> FALSE, accounts |-> {}]
MCMapped    == [plain  |-> [p \in {ann} |-> Unplaced],
                admins |-> [p \in {ann} |-> [Unplaced EXCEPT !.admin = TRUE]],
                some   |-> [p \in {ann} |-> [Unplaced EXCEPT !.accounts = {globex}]]]
MCBelongs   == [p \in {ann} |-> {acme}]
Members     == [type |-> "oidc", origin |-> issuer, mapping |-> "plain", members |-> TRUE,
                serves |-> {acme}, password |-> "none"]
Closed      == [Members EXCEPT !.members = FALSE, !.password = "old"]
Admins      == [Members EXCEPT !.mapping = "admins", !.password = "new"]
OnTheForge   == [Members EXCEPT !.type = "github", !.origin = forge, !.members = FALSE, !.mapping = "some",
                               !.serves = {acme, globex}]
MCAuthFiles == {Members, Closed, Admins, OnTheForge}

\* Two sign-ins across a rollout, or with a failed call and a session's end.
NoLogins  == [logins |-> 0, faults |-> 0, restarts |-> 0, expiries |-> 0]
Restarted == [NoLogins EXCEPT !.logins = 2, !.restarts = 1]
Hampered  == [NoLogins EXCEPT !.logins = 2, !.faults = 1, !.expiries = 1]
MCSignInBounds == {NoLogins, Restarted, Hampered}

\* Three rows, in pages of one: rows that move while more is asked for, and
\* a query that changes with answers under way.
MCFilters == [repos |-> {"inUse", "forks"}, pulls |-> {"open", "all"}, findings |-> {"open", "dismissed"}]
Unread    == [changes |-> 0, refetches |-> 0, more |-> 0, queries |-> 0, faults |-> 0]
Scrolled  == [Unread EXCEPT !.changes = 2, !.refetches = 1, !.more = 2]
Searched  == [Unread EXCEPT !.changes = 1, !.refetches = 1, !.more = 2, !.queries = 1, !.faults = 1]
MCListingBounds == {Unread, Scrolled, Searched}

\* What an admin may edit, and how often before the file is refused.
Unedited  == [keys |-> {}, edits |-> 0]
MCConfigBounds == {Unedited, [keys |-> {"apps", "providers", "model"}, edits |-> 3],
                             [keys |-> {"enabled", "settle", "limits", "apps"}, edits |-> 2],
                             [keys |-> {"rules", "ignore", "settle"}, edits |-> 2]}

\* Two rollouts over an outage of the database, or one over a pod's death.
Unchanging == [rollouts |-> 0, outages |-> 0, deaths |-> 0]
MCRolloutBounds == {Unchanging, [rollouts |-> 2, outages |-> 1, deaths |-> 0],
                                [rollouts |-> 1, outages |-> 1, deaths |-> 1]}

\* An admin who asks for little, and one who asks for a fix, ignores a path
\* and has a rule of each kind; a .kritika.yaml that asks for more, that
\* collides with both, that does not parse, or is too large.
Lax    == [enabled |-> TRUE, filter |-> "none", ignore |-> {}, fix |-> FALSE, feedback |-> "standard",
           template |-> NoFile, agentFiles |-> TRUE, context |-> <<>>, rules |-> <<>>, model |-> "house",
           providers |-> {"house"}, dropped |-> {}]
Aide(id, file, size, paths, when) == [id |-> id, file |-> file, size |-> size, paths |-> paths, when |-> when]
Strict == [Lax EXCEPT !.ignore = {"x"}, !.fix = TRUE, !.agentFiles = FALSE,
                      !.context = << [path |-> "docs.md", paths |-> {"lib/y"}] >>,
                      !.rules = << Aide("a", NoFile, 2, {}, "true"), Aide("b", "rules.md", 0, {"x"}, "true") >>,
                      !.providers = {"house", "own"}]
MCAdminSettings == {Lax, Strict, [Lax EXCEPT !.enabled = FALSE]}

Plain == [kind |-> "absent", size |-> 1, enabled |-> {}, filter |-> "none", ignore |-> {}, fix |-> {}, feedback |-> {},
            template |-> {}, agentFiles |-> {}, context |-> <<>>, rules |-> <<>>, model |-> {}]
Asking  == [Plain EXCEPT !.kind = "text", !.fix = {FALSE}, !.agentFiles = {TRUE}, !.model = {"own"},
                           !.template = {"more.md"}, !.context = << [path |-> "docs.md", paths |-> {}] >>,
                           !.rules = << Aide("a", NoFile, 1, {}, "true"), Aide("c", "more.md", 0, {}, "true"), Aide("d", NoFile, 2, {}, "true") >>]
Hiding  == [Plain EXCEPT !.kind = "text", !.enabled = {TRUE}, !.ignore = {"x", "lib/y"}, !.feedback = {"loud"}, !.filter = "fails"]
MCDocuments == {Plain, [Plain EXCEPT !.kind = "huge", !.size = 5], Asking, Hiding, [Hiding EXCEPT !.filter = "none", !.feedback = {"minimal"}],
                [Asking EXCEPT !.rules = @ \o << Aide("c", NoFile, 1, {}, "broken") >>], [Plain EXCEPT !.kind = "text", !.enabled = {FALSE}]}

MCTrees == {<<>>, ("rules.md" :> 2) @@ ("more.md" :> 3) @@ ("CLAUDE.md" :> 1) @@ ("lib/CLAUDE.md" :> 4),
                  ("rules.md" :> 3) @@ ("more.md" :> 2) @@ ("AGENTS.md" :> 5) @@ ("CLAUDE.md" :> 1) @@ ("lib/AGENTS.md" :> 0) @@ ("lib/CLAUDE.md" :> 2),
                  ("AGENTS.md" :> 4) @@ ("lib/AGENTS.md" :> 2)}

On(path, size) == [path |-> path, size |-> size]
Slight == [diff |-> << On("x", 2) >>, body |-> 1, issues |-> <<>>, incremental |-> FALSE, delta |-> <<>>, prior |-> <<>>,
          dismissed |-> <<>>, context |-> <<2, 3>>]
MCChanges == {Slight, [Slight EXCEPT !.diff = << On("x", 8), On("lib/y", 1) >>, !.body = 6, !.issues = <<3, 1>>],
              [Slight EXCEPT !.diff = << On("lib/y", 3) >>, !.incremental = TRUE, !.delta = << On("lib/y", 2) >>, !.prior = <<2, 2>>,
                            !.dismissed = <<1, 2>>]}
MCRoom == [file |-> 4, total |-> 8, rules |-> 4, ruleFiles |-> 5, instructions |-> 4, prompt |-> 24, note |-> 1]
Unbriefed  == [commits |-> 0, pushes |-> 0, deploys |-> 0]
MCBriefingBounds == {Unbriefed, [commits |-> 1, pushes |-> 1, deploys |-> 1]}

\* The files, the list and the settings while another part is looked at.
SameFile  == \A s \in Server : auth[s] = Members
FirstList == list.view = "repos" /\ list.filter = "inUse"
Unasking  == admin = Lax /\ tip.doc = Plain /\ tip.tree = <<>> /\ pull.change = Slight

Init ==
    /\ part \in {"signIn", "listing", "config", "rollout", "briefing"}
    /\ SignInInit   /\ (part = "signIn")   = (hitches # NoLogins)  /\ (part = "signIn" \/ SameFile)
    /\ ListingInit  /\ (part = "listing")  = (room # Unread)       /\ (part = "listing" \/ FirstList)
    /\ ConfigInit   /\ (part = "config")   = (edit # Unedited)
    /\ RolloutInit  /\ (part = "rollout")  = (luck # Unchanging)
    /\ BriefingInit /\ (part = "briefing") = (calm # Unbriefed)    /\ (part = "briefing" \/ Unasking)

Next ==
    \/ part = "signIn"   /\ SignInNext   /\ UNCHANGED <<listingVars, configVars, rolloutVars, briefingVars, part>>
    \/ part = "listing"  /\ ListingNext  /\ UNCHANGED <<signInVars, configVars, rolloutVars, briefingVars, part>>
    \/ part = "config"   /\ ConfigNext   /\ UNCHANGED <<signInVars, listingVars, rolloutVars, briefingVars, part>>
    \/ part = "rollout"  /\ RolloutNext  /\ UNCHANGED <<signInVars, listingVars, configVars, briefingVars, part>>
    \/ part = "briefing" /\ BriefingNext /\ UNCHANGED <<signInVars, listingVars, configVars, rolloutVars, part>>

Spec == Init /\ [][Next]_<<signInVars, listingVars, configVars, rolloutVars, briefingVars, part>>

TypeOK == SignInTypeOK /\ ListingTypeOK /\ ConfigTypeOK /\ RolloutTypeOK /\ BriefingTypeOK

\* The scopes of the file, the environment, the apps and the providers, each
\* checked and walked by code of its own, agree on what runs; and what
\* .kritika.yaml then says of a repository stays in the admin's bounds.
\* (Where another part is looked at these stay the first ones.)
SettingsHold ==
    /\ part = "config" => ModelsResolve /\ SourcesAgree /\ EntriesStand
    /\ part = "briefing" => AdminsBoundsStand
====
