------------------------------- MODULE Config -------------------------------
(***************************************************************************)
(* The configuration (internal/configfile): the file and the environment   *)
(* that overlays it, what Parse refuses, and the settings a repository of  *)
(* an account gets from the layers an admin wrote.  Admins edit one entry  *)
(* at a time, in an order of their own, and deploy: replicas start with    *)
(* what is written then, or refuse it, and the running ones stay.          *)
(*                                                                         *)
(* A key that a scope may leave out is Unset or {v}, as the code has nil   *)
(* or a pointer.  "settle" stands for the settings a narrower scope        *)
(* replaces, "model" for models.review and models.fallback, a vendor for   *)
(* a model of the provider of that name.                                   *)
(***************************************************************************)
EXTENDS Integers, Sequences, Orders

CONSTANTS Owner,         \* the forge accounts the file may speak of
          Vendor,        \* the names of model providers
          App,           \* the names of the file's apps, and the environment's
          Blank,         \* the empty model reference: no model
          ConfigBounds

\* The keys that are edited, and how often.
ConfigBound == [keys : SUBSET STRING, edits : Nat]

ASSUME ConfigAssumption ==
    Blank \notin Vendor /\ Owner # {} /\ Vendor # {} /\ ConfigBounds \subseteq ConfigBound

VARIABLES doc,       \* the file as written
          env,       \* the environment that overlays it
          running,   \* <<doc, env>> of the replicas that run
          edit       \* the keys still edited, and how many edits are left
configVars == <<doc, env, running, edit>>

Unset == {}
Overlay(v, o) == IF o = Unset THEN v ELSE CHOOSE w \in o : TRUE

Silent == [enabled |-> Unset, model |-> Unset, settle |-> Unset,
           ignore |-> Unset, rules |-> Unset]
Key == DOMAIN Silent
Value == [enabled |-> BOOLEAN, model |-> Vendor \cup {Blank}, settle |-> -1 .. 1,
          ignore |-> SUBSET {"generated"}, rules |-> {<<>>, <<1>>, <<2, 1>>, <<1, 1>>}]
Ids(l) == {id \in 1 .. 2 : \E r \in l.rules : \E i \in DOMAIN r : r[i] = id}

\* the file: an app is absent or lists accounts, and an owner has an accounts
\* entry (its limits and providers), an owner/* and an owner/name entry
Doc0(owner, vendor) ==
    [apps |-> [a \in App |-> IF a = CHOOSE b \in App : TRUE THEN {{owner}} ELSE Unset],
     providers |-> {vendor},
     defaults |-> [Silent EXCEPT !.model = {vendor}],
     entries |-> [o \in Owner |-> [concurrency |-> Unset, providers |-> {}]],
     pattern |-> [o \in Owner |-> Silent],
     repository |-> [o \in Owner |-> Silent]]
Env0 == [app |-> Unset, provider |-> Unset, model |-> Unset, settle |-> Unset, missing |-> {}]

ConfigInit ==
    /\ doc = Doc0(CHOOSE o \in Owner : TRUE, CHOOSE v \in Vendor : TRUE)
    /\ env = Env0
    /\ running = <<doc, env>>
    /\ edit \in ConfigBounds

-----------------------------------------------------------------------------
(***************************************************************************)
(* Parse: the environment over the file, then what is refused.             *)
(***************************************************************************)
\* overlayConnectionEnv: the environment's app replaces the file's of its name
\* whole, or joins them
OverlaidApps(d, e) ==
    [a \in App |-> IF \E c \in e.app : c.name = a
                   THEN {c.accounts : c \in e.app} ELSE d.apps[a]]
OverlaidProviders(d, e) == d.providers \cup e.provider
OverlaidDefaults(d, e) ==
    [d.defaults EXCEPT !.model = IF e.model = Unset THEN @ ELSE e.model,
                       !.settle = IF e.settle = Unset THEN @ ELSE e.settle]
\* the keys of the defaults the environment set
EnvKeys(e) == {k \in {"model", "settle"} : e[k] # Unset}

\* accountsOf: the owners with an entry, each with its entries gathered
Gathered(d) ==
    {o \in Owner : \/ d.entries[o] # [concurrency |-> Unset, providers |-> {}]
                   \/ d.pattern[o] # Silent
                   \/ d.repository[o] # Silent}

\* the configuration Parse makes of file d under environment e
File(d, e) ==
    [d EXCEPT !.apps = OverlaidApps(d, e),
              !.providers = OverlaidProviders(d, e),
              !.defaults = OverlaidDefaults(d, e)]

Serves(f, a, o) == \E s \in f.apps[a] : o \in s
\* File.Accounts
ServedAccounts(f) == {o \in Owner : \E a \in App : Serves(f, a, o)}

\* File.Provider: the account's own, else the instance's
ProviderOfAnyone(f, t, name) ==
    name \in f.providers \cup UNION {f.entries[o].providers : o \in Owner}
ProviderFound(f, t, name) ==
    name \in f.providers \cup UNION {f.entries[o].providers : o \in t}

\* secrets.read: a provider's key names a variable that must be set
SecretsRead(f, e) ==
    (f.providers \cup UNION {f.entries[o].providers : o \in Owner}) \cap e.missing = {}

\* validateConnections: accounts listed, each served by one app alone
ValidConnections(f) ==
    /\ \A a \in App : {} \notin f.apps[a]
    /\ \A o \in Owner : \A a, b \in App : Serves(f, a, o) /\ Serves(f, b, o) => a = b

\* checkModels and the rest of validateOverrides, for one scope of account t
CheckModels(f, t, o) == \A ref \in o.model \ {Blank} : ProviderFound(f, t, ref)
ValidOverrides(f, t, o) ==
    /\ CheckModels(f, t, o)
    /\ \A n \in o.settle : n >= 0
    /\ \A r \in o.rules : \A i, j \in DOMAIN r : r[i] = r[j] => i = j
CheckLimits(limits) == \A n \in limits.concurrency : n > 0

ValidAccount(f, o) ==
    /\ CheckLimits(f.entries[o])
    /\ f.entries[o].providers \cap f.providers = {}
    /\ ValidOverrides(f, {o}, f.pattern[o])
    /\ f.repository[o].enabled = Unset
    /\ ValidOverrides(f, {o}, f.repository[o])

ValidServedAccounts(f) ==
    /\ ValidOverrides(f, {}, f.defaults)
    /\ \A o \in Gathered(f) \cap ServedAccounts(f) : ValidAccount(f, o)
\* every entry is judged, whether an app serves its account or not
ValidAccounts(f) ==
    /\ ValidOverrides(f, {}, f.defaults)
    /\ \A o \in Gathered(f) : ValidAccount(f, o)

Accepted(d, e) ==
    LET f == File(d, e)
    IN SecretsRead(f, e) /\ ValidConnections(f) /\ ValidAccounts(f)

-----------------------------------------------------------------------------
(***************************************************************************)
(* What a repository gets: its layers, broadest first, where an owner's    *)
(* repository either has its entry (listed) or is another of the account.  *)
(***************************************************************************)
\* WithRules: a rule of an id already there takes its place, the rest follow.
\* A rule is its id and the scope that wrote it; those of one scope have ids
\* apart (ValidOverrides), or are the same.
Has(rules, id) == \E i \in DOMAIN rules : rules[i][1] = id
RuleOf(rules, id) == rules[CHOOSE i \in DOMAIN rules : rules[i][1] = id]
Replaced(r, more) == IF Has(more, r[1]) THEN RuleOf(more, r[1]) ELSE r
New(rules, more) ==
    {i \in DOMAIN more : ~Has(rules, more[i][1]) /\ \A j \in 1 .. i - 1 : more[j][1] # more[i][1]}
WithRules(rules, more) ==
    [i \in DOMAIN rules |-> Replaced(rules[i], more)] \o Picked(more, New(rules, more))

Builtin == [enabled |-> TRUE, model |-> Blank, settle |-> 0, ignore |-> {}, rules |-> <<>>]

\* Settings.apply: one scope's overrides over s
ApplyScope(s, layer) ==
    LET o == layer[2]
    IN [enabled |-> Overlay(s.enabled, o.enabled),
        model |-> Overlay(s.model, o.model),
        settle |-> Overlay(s.settle, o.settle),
        ignore |-> s.ignore \cup UNION o.ignore,
        rules |-> WithRules(s.rules, [i \in DOMAIN Overlay(<<>>, o.rules) |->
                                        <<Overlay(<<>>, o.rules)[i], layer[1]>>])]

\* Settings: the defaults, the account's, and the repository's if it has an entry
SettingsOf(f, o, listed) ==
    LET account == ApplyScope(ApplyScope(Builtin, <<"defaults", f.defaults>>), <<"account", f.pattern[o]>>)
    IN IF listed THEN ApplyScope(account, <<"repository", f.repository[o]>>) ELSE account

\* SpecValue: whether a scope writes a key
Writes(l, k) == l[k] # Unset

\* Sources: the narrowest scope that writes a key (an account's two entries are
\* one), the built-in default, or the environment where it set the default
NarrowestScope(f, o, listed, k) ==
    LET Over(out, scope, l) == IF Writes(l, k) THEN scope ELSE out
        account == Over(Over("default", "defaults", f.defaults), "account", f.pattern[o])
    IN IF listed THEN Over(account, "account", f.repository[o]) ELSE account
EnvSourceFirst(f, e, o, listed, k) ==
    IF k \in EnvKeys(e) THEN "env" ELSE NarrowestScope(f, o, listed, k)
SourceOf(f, e, o, listed, k) ==
    LET s == NarrowestScope(f, o, listed, k)
    IN IF s = "defaults" /\ k \in EnvKeys(e) THEN "env" ELSE s

\* RuleScopes: by id, the scope that writes each rule the repository runs
RuleScopes(f, o, listed) ==
    LET own == IF listed THEN Ids(f.repository[o]) ELSE {}
        account == Ids(f.pattern[o])
    IN [id \in Ids(f.defaults) \cup account \cup own |->
          IF id \in own THEN "repository" ELSE IF id \in account THEN "account" ELSE "defaults"]

-----------------------------------------------------------------------------
(***************************************************************************)
(* Admins edit; a deployment starts replicas with what is written.         *)
(***************************************************************************)
EditsLeft(k) ==
    /\ k \in edit.keys /\ edit.edits > 0
    /\ edit' = [edit EXCEPT !.edits = @ - 1]

WriteOverrides ==
    /\ \E k \in Key : EditsLeft(k) /\ \E v \in {Unset} \cup {{w} : w \in Value[k]} :
          \/ doc' = [doc EXCEPT !.defaults[k] = v]
          \/ \E o \in Owner : \/ doc' = [doc EXCEPT !.pattern[o][k] = v]
                              \/ doc' = [doc EXCEPT !.repository[o][k] = v]
    /\ UNCHANGED <<env, running>>

WriteApps ==
    /\ EditsLeft("apps")
    /\ \E a \in App, os \in SUBSET Owner :
          \/ \E s \in {Unset, {os}} : doc' = [doc EXCEPT !.apps[a] = s] /\ UNCHANGED env
          \/ \E c \in {Unset, {[name |-> a, accounts |-> os]}} :
                env' = [env EXCEPT !.app = c] /\ UNCHANGED doc
    /\ UNCHANGED running

\* declare a provider, or remove it; set its key's variable, or unset it
WriteProviders ==
    /\ EditsLeft("providers")
    /\ \E v \in Vendor, s \in {{}, {1}} :
          LET with(set) == IF s = {} THEN set \ {v} ELSE set \cup {v}
          IN \/ doc' = [doc EXCEPT !.providers = with(@)] /\ UNCHANGED env
             \/ /\ \E o \in Owner : doc' = [doc EXCEPT !.entries[o].providers = with(@)]
                /\ UNCHANGED env
             \/ /\ \E p \in {Unset, {v}} : env' = [env EXCEPT !.provider = p]
                /\ UNCHANGED doc
             \/ env' = [env EXCEPT !.missing = with(@)] /\ UNCHANGED doc
    /\ UNCHANGED running

WriteLimits ==
    /\ EditsLeft("limits")
    /\ \E o \in Owner, n \in {Unset, {0}, {1}} :
          doc' = [doc EXCEPT !.entries[o].concurrency = n]
    /\ UNCHANGED <<env, running>>

WriteEnv ==
    /\ \E k \in {"model", "settle"} :
          EditsLeft(k) /\ \E v \in {Unset} \cup {{w} : w \in Value[k]} :
             env' = [env EXCEPT ![k] = v]
    /\ UNCHANGED <<doc, running>>

\* what is written starts new replicas, or is refused and the old ones stay
Deploy ==
    /\ Accepted(doc, env)
    /\ running' = <<doc, env>>
    /\ UNCHANGED <<doc, env, edit>>

ConfigNext == WriteOverrides \/ WriteApps \/ WriteProviders \/ WriteLimits \/ WriteEnv \/ Deploy
ConfigSpec == ConfigInit /\ [][ConfigNext]_configVars

-----------------------------------------------------------------------------
ConfigTypeOK ==
    /\ doc.apps \in [App -> {Unset} \cup {{s} : s \in SUBSET Owner}]
    /\ doc.providers \subseteq Vendor
    /\ DOMAIN doc.defaults = Key /\ DOMAIN doc.pattern = Owner
    /\ env.missing \subseteq Vendor
    /\ edit \in ConfigBound

Running == File(running[1], running[2])

\* However an admin layered what runs, the model of every repository of every
\* served account is none or one of a provider that account may use: the instance's or
\* its own, never another account's, and never one that was removed.  It rests on
\* checks of single scopes (validateOverrides), each made with the providers of
\* one account, while Settings lays the scopes over each other.
ModelsResolve ==
    \A o \in ServedAccounts(Running), listed \in BOOLEAN :
        SettingsOf(Running, o, listed).model
            \in {Blank} \cup Running.providers \cup Running.entries[o].providers

\* What Sources tells an admin of a setting is where Settings took it: the two
\* walk the scopes apart, and the environment is one of them.
KeysAgree ==
    \A o \in ServedAccounts(Running), listed \in BOOLEAN :
        LET s == SettingsOf(Running, o, listed)
            from(k) == SourceOf(Running, running[2], o, listed, k)
        IN \A k \in {"enabled", "model", "settle"} :
              \/ from(k) = "default" /\ s[k] = Builtin[k]
              \/ from(k) = "env" /\ s[k] \in running[2][k]
              \/ from(k) = "defaults" /\ s[k] \in running[1].defaults[k]
              \/ /\ from(k) = "account"
                 /\ s[k] \in Running.pattern[o][k]
                            \cup (IF listed THEN Running.repository[o][k] ELSE {})

\* And what RuleScopes tells of a rule, likewise.
SourcesAgree ==
    /\ KeysAgree
    /\ \A o \in ServedAccounts(Running), listed \in BOOLEAN :
        LET s == SettingsOf(Running, o, listed)
            scopes == RuleScopes(Running, o, listed)
        IN {s.rules[i] : i \in DOMAIN s.rules} = {<<id, scopes[id]>> : id \in DOMAIN scopes}

\* An entry is judged when it is written, not when an app first serves its
\* account: nothing that runs can be refused later for an entry no one touched,
\* only because an app lists other accounts.
EntriesStand ==
    /\ doc = [running[1] EXCEPT !.apps = doc.apps]
    /\ env = [running[2] EXCEPT !.app = env.app]
    /\ ValidConnections(File(doc, env))
    => Accepted(doc, env)
=============================================================================
