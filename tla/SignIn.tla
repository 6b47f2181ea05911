---- MODULE SignIn ----
(***************************************************************************)
(* Signing in to the dashboard (internal/auth, store/auth.go): a browser   *)
(* leaves for the provider and comes back to any replica, which consumes   *)
(* the login's state, decides a grant from its own configuration file,     *)
(* finds or makes the person's user and starts a session.  Replicas may    *)
(* have different files while a rollout lasts, and a session is honoured   *)
(* by a replica whose file would have decided as the one that granted it.  *)
(***************************************************************************)
EXTENDS Integers, FiniteSets, Sequences

CONSTANTS Server, Browser,
          Tab,          \* requests that complete a sign-in
          Person, Admin, \* who signs in; Admin is the local admin, none of them
          Account,
          Origin,       \* where a sign-in points
          AuthFiles,    \* the auth sections replicas are started with
          Mapped,       \* what a role mapping yields for each person
          Belongs,      \* the forge accounts each person belongs to
          MaxLoginStates,
          SignInBounds

\* A sign-in, its role mapping and default, the accounts that are served, and
\* the local admin's password.
AuthFile == [type : {"none", "oidc", "github"}, origin : Origin, mapping : DOMAIN Mapped,
             members : BOOLEAN, serves : SUBSET Account, password : {"none", "old", "new"}]
Grant    == [admin : BOOLEAN, all : BOOLEAN, accounts : SUBSET Account]

\* Logins begun, calls that fail, replicas restarted, things that expire.
SignInBound == [logins : Nat, faults : Nat, restarts : Nat, expiries : Nat]

ASSUME SignInAssumption ==
    /\ AuthFiles \subseteq AuthFile /\ Mapped \in [DOMAIN Mapped -> [Person -> Grant]]
    /\ Belongs \in [Person -> SUBSET Account] /\ Admin \notin Person /\ SignInBounds \subseteq SignInBound

VARIABLES
    auth,       \* each replica's file
    states,     \* login_states: which login, and the browser it is bound to
    begun,      \* logins begun so far
    asked,      \* at the provider: who each login's browser says they are
    loginCookie, sessionCookie, \* each browser's
    sessions,   \* what each session's row says, and whose it is
    identities, \* the user of each identity
    people,     \* users
    request,    \* each request's place, and what it has read and decided
    issued,     \* history: which login each session came of, and in what browser
    hitches     \* what may still go wrong

signInVars == <<auth, states, begun, asked, loginCookie, sessionCookie, sessions, identities, people, request,
                issued, hitches>>

None    == 0
NoOne   == "no one"
NoGrant == [admin |-> FALSE, all |-> FALSE, accounts |-> {}]
Away    == [at |-> "none"]

-----------------------------------------------------------------------------
(* What a file decides *)

\* The mapping's word, and on a forge the served accounts the person belongs
\* to; NoGrant is a refusal.
Decide(f, p) ==
    LET said     == Mapped[f.mapping][p]
        accounts == said.accounts \cup (IF f.type = "github" THEN f.serves \cap Belongs[p] ELSE {})
    IN IF said.admin THEN [NoGrant EXCEPT !.admin = TRUE]
       ELSE IF said.all \/ (accounts = {} /\ f.type = "oidc" /\ f.members) THEN [NoGrant EXCEPT !.all = TRUE]
       ELSE [NoGrant EXCEPT !.accounts = accounts]

\* A key that leaves out what a person gets whom the mapping does not place.
LooseKey(f, type) ==
    IF type = "local" THEN <<type, f.password>> ELSE <<type, f.mapping>>

\* What decides the grants of sign-ins of a type.
GrantKey(f, type) ==
    IF type = "local" THEN <<type, f.password>> ELSE <<type, f.mapping, f.members>>

Configured(f, type) == IF type = "local" THEN f.password # "none" ELSE f.type = type /\ type # "none"
PointsAt(f, type)   == IF type = "local" THEN "local" ELSE f.origin

Honoured(f, s) ==
    /\ Configured(f, s.type)
    /\ PointsAt(f, s.type) = s.origin /\ GrantKey(f, s.type) = s.key

\* The accounts a grant lets read under a file.
CanRead(f, g) == IF g.admin \/ g.all THEN f.serves ELSE f.serves \cap g.accounts

-----------------------------------------------------------------------------
Identity == (Origin \X Person) \cup {<<"local", Admin>>}

SignInTypeOK ==
    /\ auth \in [Server -> AuthFiles]
    /\ \A s \in states : s.login \in 1..begun /\ s.browser \in Browser
    /\ begun \in Nat /\ asked \in [1..begun -> Person \cup {Admin, NoOne}]
    /\ loginCookie \in [Browser -> 0..begun] /\ sessionCookie \in [Browser -> 0..Cardinality(issued)]
    /\ \A x \in sessions : x.user \in people /\ x.grant \in Grant /\ x.number \in 1..Cardinality(issued)
    /\ identities \in [Identity -> people \cup {None}] /\ people \subseteq Nat \ {None}
    /\ \A t \in Tab : request[t].at \in {"none", "decide", "end", "look", "make", "commit", "start"}
    /\ hitches \in SignInBound

SignInInit ==
    /\ auth \in [Server -> AuthFiles]
    /\ states = {} /\ begun = 0 /\ asked = <<>>
    /\ loginCookie = [b \in Browser |-> 0] /\ sessionCookie = [b \in Browser |-> 0]
    /\ sessions = {} /\ identities = [i \in Identity |-> None] /\ people = {}
    /\ request = [t \in Tab |-> Away] /\ issued = {} /\ hitches \in SignInBounds

Hitch(what) == hitches[what] > 0 /\ hitches' = [hitches EXCEPT ![what] = @ - 1]
Step(t, r)  == request' = [request EXCEPT ![t] = r]

\* The answer to a callback clears the login cookie, whatever it says; the one to
\* the local admin's form does not.
Answer(t) ==
    /\ Step(t, Away)
    /\ loginCookie' = [loginCookie EXCEPT ![request[t].browser] = IF request[t].type = "local" THEN @ ELSE 0]

-----------------------------------------------------------------------------
(* Logging in *)

\* One more state, unless there are too many; the browser's cookie is bound
\* to it, and no longer to an earlier login.
Login(s, b) ==
    /\ auth[s].type # "none" /\ Hitch("logins") /\ Cardinality(states) < MaxLoginStates
    /\ begun' = begun + 1 /\ asked' = Append(asked, NoOne)
    /\ states' = states \cup {[login |-> begun + 1, browser |-> b]}
    /\ loginCookie' = [loginCookie EXCEPT ![b] = begun + 1]
    /\ UNCHANGED <<auth, sessionCookie, sessions, identities, people, request, issued>>

\* Someone signs in at the provider, which sends the browser back.
Authenticate(n, p) ==
    /\ asked[n] = NoOne
    /\ asked' = [asked EXCEPT ![n] = p]
    /\ UNCHANGED <<auth, states, begun, loginCookie, sessionCookie, sessions, identities, people, request, issued, hitches>>

\* A sign-in that goes on: which login it completes, whose, under which file,
\* and the session its browser has.
Coming(s, b, n, p, type) ==
    [at |-> "decide", server |-> s, browser |-> b, login |-> n, who |-> p, type |-> type,
     file |-> auth[s], old |-> sessionCookie[b], grant |-> NoGrant, user |-> None]

\* The state is left for the browser's next try.
ReadLoginState(t, s, b, n) ==
    /\ request[t].at = "none" /\ loginCookie[b] # 0 /\ asked[n] # NoOne /\ auth[s].type # "none"
    /\ [login |-> n, browser |-> b] \in states
    /\ Step(t, Coming(s, b, n, asked[n], auth[s].type))
    /\ UNCHANGED <<auth, states, begun, asked, loginCookie, sessionCookie, sessions, identities, people, issued, hitches>>

\* The state is looked up and deleted in one transaction, when the browser's
\* cookie is the one it is bound to.
ConsumeLoginState(t, s, b, n) ==
    /\ request[t].at = "none" /\ loginCookie[b] = n /\ asked[n] # NoOne
    /\ LET mine == [login |-> n, browser |-> b] IN mine \in states /\ states' = states \ {mine}
    /\ IF auth[s].type = "none" THEN UNCHANGED request /\ loginCookie' = [loginCookie EXCEPT ![b] = 0]
       ELSE Step(t, Coming(s, b, n, asked[n], auth[s].type)) /\ UNCHANGED loginCookie
    /\ UNCHANGED <<auth, begun, asked, sessionCookie, sessions, identities, people, issued, hitches>>

\* A callback whose state is gone, or bound to another cookie, clears it too.
RefuseCallback(b, n) ==
    /\ loginCookie[b] # 0 /\ asked[n] # NoOne
    /\ loginCookie[b] # n \/ [login |-> n, browser |-> b] \notin states
    /\ loginCookie' = [loginCookie EXCEPT ![b] = 0]
    /\ UNCHANGED <<auth, states, begun, asked, sessionCookie, sessions, identities, people, request, issued, hitches>>

\* The local admin's password is right.
LocalSignIn(t, s, b) ==
    /\ request[t].at = "none" /\ auth[s].password # "none" /\ Hitch("logins")
    /\ Step(t, [Coming(s, b, begun + 1, Admin, "local") EXCEPT !.at = "end", !.grant.admin = TRUE])
    /\ begun' = begun + 1 /\ asked' = Append(asked, Admin)
    /\ UNCHANGED <<auth, states, loginCookie, sessionCookie, sessions, identities, people, issued>>

\* The provider says who came, and the file read above what they may do.
DecideGrant(t) ==
    /\ request[t].at = "decide"
    /\ LET g == Decide(request[t].file, request[t].who) IN
       \/ g # NoGrant /\ Step(t, [request[t] EXCEPT !.at = "end", !.grant = g]) /\ UNCHANGED <<loginCookie, hitches>>
       \/ g = NoGrant /\ Answer(t) /\ UNCHANGED hitches
       \/ Answer(t) /\ Hitch("faults")
    /\ UNCHANGED <<auth, states, begun, asked, sessionCookie, sessions, identities, people, issued>>

-----------------------------------------------------------------------------
(* Starting a session *)

\* A call that fails ends the sign-in.
CallFails(t) ==
    /\ request[t].at \in {"end", "look", "make", "commit", "start"} /\ Hitch("faults")
    /\ Answer(t)
    /\ UNCHANGED <<auth, states, begun, asked, sessionCookie, sessions, identities, people, issued>>

DeleteSession(t) ==
    /\ request[t].at = "end"
    /\ sessions' = {x \in sessions : x.number # request[t].old}
    /\ Step(t, [request[t] EXCEPT !.at = "look"])
    /\ UNCHANGED <<auth, states, begun, asked, loginCookie, sessionCookie, identities, people, issued, hitches>>

IdentityOf(t) == <<PointsAt(request[t].file, request[t].type), request[t].who>>

\* A new user's number is nobody's, nor one another transaction took.
Taken == people \cup {request[t].user : t \in {u \in Tab : request[u].at # "none"}}

\* The transaction finds the identity, or makes a user for it ...
LookUpIdentity(t) ==
    /\ request[t].at = "look"
    /\ LET known == identities[IdentityOf(t)] IN
       IF known # None THEN Step(t, [request[t] EXCEPT !.at = "start", !.user = known])
       ELSE \E u \in 1..(Cardinality(Taken) + 1) \ Taken : 
               /\ \A v \in 1..(u - 1) : v \in Taken
               /\ Step(t, [request[t] EXCEPT !.at = "make", !.user = u])
    /\ UNCHANGED <<auth, states, begun, asked, loginCookie, sessionCookie, sessions, identities, people, issued, hitches>>

\* The loser of two first sign-ins keeps the user it made.
InsertAnyway(t) ==
    /\ request[t].at = "make"
    /\ \A u \in Tab \ {t} : request[u].at = "commit" => IdentityOf(u) # IdentityOf(t)
    /\ LET known == identities[IdentityOf(t)] IN
       IF known = None THEN Step(t, [request[t] EXCEPT !.at = "commit"]) /\ UNCHANGED people
       ELSE Step(t, [request[t] EXCEPT !.at = "start"]) /\ people' = people \cup {request[t].user}
    /\ UNCHANGED <<auth, states, begun, asked, loginCookie, sessionCookie, sessions, identities, issued, hitches>>

\* The loser goes on with the user it drops.
InsertForNobody(t) ==
    /\ request[t].at = "make"
    /\ \A u \in Tab \ {t} : request[u].at = "commit" => IdentityOf(u) # IdentityOf(t)
    /\ Step(t, [request[t] EXCEPT !.at = IF identities[IdentityOf(t)] = None THEN "commit" ELSE "start"])
    /\ UNCHANGED <<auth, states, begun, asked, loginCookie, sessionCookie, sessions, identities, people, issued, hitches>>

\* ... and inserts it, unless another sign-in has: it waits for one that has
\* not committed, and then takes the winner's user and drops its own.
InsertIdentity(t) ==
    /\ request[t].at = "make"
    /\ \A u \in Tab \ {t} : request[u].at = "commit" => IdentityOf(u) # IdentityOf(t)
    /\ LET known == identities[IdentityOf(t)] IN
       IF known = None THEN Step(t, [request[t] EXCEPT !.at = "commit"])
       ELSE Step(t, [request[t] EXCEPT !.at = "start", !.user = known])
    /\ UNCHANGED <<auth, states, begun, asked, loginCookie, sessionCookie, sessions, identities, people, issued, hitches>>

CommitIdentity(t) ==
    /\ request[t].at = "commit"
    /\ identities' = [identities EXCEPT ![IdentityOf(t)] = request[t].user]
    /\ people' = people \cup {request[t].user}
    /\ Step(t, [request[t] EXCEPT !.at = "start"])
    /\ UNCHANGED <<auth, states, begun, asked, loginCookie, sessionCookie, sessions, issued, hitches>>

\* The session, with the key of the file that decided its grant, and then its
\* cookie; the browser may never get the answer.
CreateSession(t) ==
    /\ request[t].at = "start"
    /\ LET r == request[t]
           number == Cardinality(issued) + 1
       IN /\ sessions' = sessions \cup {[number |-> number, user |-> r.user, who |-> r.who, type |-> r.type,
                            origin |-> PointsAt(r.file, r.type), key |-> GrantKey(r.file, r.type), grant |-> r.grant]}
          /\ issued' = issued \cup {[number |-> number, login |-> r.login, browser |-> r.browser]}
          /\ Answer(t)
          /\ \/ sessionCookie' = [sessionCookie EXCEPT ![r.browser] = number] /\ UNCHANGED hitches
             \/ UNCHANGED sessionCookie /\ Hitch("faults")
    /\ UNCHANGED <<auth, states, begun, asked, identities, people>>

Logout(b) ==
    /\ sessionCookie[b] # 0
    /\ sessions' = {x \in sessions : x.number # sessionCookie[b]}
    /\ sessionCookie' = [sessionCookie EXCEPT ![b] = 0]
    /\ UNCHANGED <<auth, states, begun, asked, loginCookie, identities, people, request, issued, hitches>>

\* States and sessions that have expired are refused, and swept.
Expire ==
    /\ Hitch("expiries")
    /\ \/ \E x \in states : states' = states \ {x} /\ UNCHANGED sessions
       \/ \E x \in sessions : sessions' = sessions \ {x} /\ UNCHANGED states
    /\ UNCHANGED <<auth, begun, asked, loginCookie, sessionCookie, identities, people, request, issued>>

\* A rollout, or its being taken back: requests under way are lost.
RestartServer(s) ==
    /\ Hitch("restarts")
    /\ \E f \in AuthFiles \ {auth[s]} : auth' = [auth EXCEPT ![s] = f]
    /\ request' = [t \in Tab |-> IF request[t].at # "none" /\ request[t].server = s THEN Away ELSE request[t]]
    /\ UNCHANGED <<states, begun, asked, loginCookie, sessionCookie, sessions, identities, people, issued>>

-----------------------------------------------------------------------------
SignInNext ==
    \/ \E s \in Server, b \in Browser : Login(s, b)
    \/ \E n \in 1..begun, p \in Person : Authenticate(n, p)
    \/ \E n \in 1..begun, b \in Browser : RefuseCallback(b, n)
    \/ \E t \in Tab, s \in Server, b \in Browser :
          LocalSignIn(t, s, b) \/ \E n \in 1..begun : ConsumeLoginState(t, s, b, n)
    \/ \E t \in Tab :
          \/ DecideGrant(t) \/ CallFails(t) \/ DeleteSession(t) \/ LookUpIdentity(t)
          \/ InsertIdentity(t) \/ CommitIdentity(t) \/ CreateSession(t)
    \/ \E b \in Browser : Logout(b)
    \/ Expire \/ \E s \in Server : RestartServer(s)

SignInSpec == SignInInit /\ [][SignInNext]_signInVars

-----------------------------------------------------------------------------
(* Properties *)

\* "Editing a mapping, or rotating the password, ends the sessions it
\* granted" (membership.go): a replica that honours a session, whichever
\* replica's file it was granted under, lets it read and change no more than
\* its own file would grant the same person.
GrantsFollowTheFile ==
    \A s \in Server, x \in sessions :
        Honoured(auth[s], x) =>
            LET now == IF x.who = Admin THEN [NoGrant EXCEPT !.admin = TRUE] ELSE Decide(auth[s], x.who)
            IN (x.grant.admin => now.admin) /\ CanRead(auth[s], x.grant) \subseteq CanRead(auth[s], now)

\* A person has one user for each identity however many first sign-ins run at
\* once and fail, a user belongs to someone, and every session can be looked
\* up by its user's identity (store/auth.go's join).
OneUserPerIdentity ==
    /\ \A i, j \in Identity : i # j /\ identities[i] # None => identities[i] # identities[j]
    /\ people = {identities[i] : i \in Identity} \ {None}
    /\ \A x \in sessions : identities[<<x.origin, x.who>>] = x.user

\* A login's state completes "at most one sign-in" (store/auth.go), and in
\* the browser that began it, though its callback may come twice or elsewhere.
StatesCompleteOnce ==
    \A x, y \in issued : x.login = y.login => x = y

\* One user for an identity, and one session for a sign-in.
SignInsAreSingle == OneUserPerIdentity /\ StatesCompleteOnce
====
