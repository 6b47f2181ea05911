--------------------------- MODULE OperateProofs ---------------------------
(***************************************************************************)
(* Proofs about operating kritika: SignIn, Rollout, Config, Briefing and   *)
(* Listing, each for every value of its constants, and about MCOperate,    *)
(* which adds them up.                                                     *)
(***************************************************************************)
EXTENDS MCOperate, OrdersProofs, FiniteSetTheorems, TLAPS

-----------------------------------------------------------------------------
(***************************************************************************)
(* Signing in, for every set of replicas, browsers and concurrent          *)
(* requests, every configuration file and role mapping, and every number   *)
(* of logins, failures, restarts and expiries.                             *)
(*                                                                         *)
(* Three facts are kept apart.  A login is in one place: a state, a        *)
(* request or an issued session (LoginsApart).  A user is in one place: an *)
(* identity has it, or the transaction that is making it (UsersApart).     *)
(* And what a request or a session was granted is what some file decides,  *)
(* the one its key was taken of (GrantsSound); that a file with the same   *)
(* key decides no less for the accounts it serves is a fact about Decide   *)
(* alone (SameKeySameWord).                                                *)
(***************************************************************************)
Under(t)  == request[t].at # "none"
Making(t) == request[t].at \in {"make", "commit"}

\* What a file lets a person do who signs in by a type.
Granted(f, type, p) == IF type = "local" THEN [NoGrant EXCEPT !.admin = TRUE] ELSE Decide(f, p)

SignInType == {"oidc", "github", "local"}

Requested == [at : {"decide", "end", "look", "make", "commit", "start"}, server : Server, browser : Browser,
              login : Nat, who : Person \cup {Admin}, type : SignInType, file : AuthFiles,
              old : Nat, grant : Grant, user : Nat]

\* Types, of what the proofs use.
SignTyped ==
    /\ auth \in [Server -> AuthFiles]
    /\ begun \in Nat /\ asked \in Seq(Person \cup {Admin, NoOne}) /\ Len(asked) = begun
    /\ sessionCookie \in [Browser -> Nat]
    /\ states \subseteq [login : Nat, browser : Browser]
    /\ identities \in [Identity -> Nat] /\ people \subseteq Nat
    /\ request \in [Tab -> {Away} \cup Requested]

\* A login is a state, or under way in one request, or issued, once.
LoginsApart ==
    /\ \A s \in states : s.login \in 1..begun /\ asked[s.login] \in Person \cup {NoOne}
    /\ \A s, q \in states : s.login = q.login => s = q
    /\ \A t \in Tab : Under(t) =>
        /\ request[t].login \in 1..begun
        /\ \A s \in states : s.login # request[t].login
        /\ \A u \in Tab \ {t} : Under(u) => request[u].login # request[t].login
        /\ \A x \in issued : x.login # request[t].login
    /\ \A x \in issued : x.login \in 1..begun /\ \A s \in states : s.login # x.login
    /\ StatesCompleteOnce

\* A user that is being made is nobody's and one transaction's; one
\* transaction at a time makes one for an identity.
UsersApart ==
    /\ \A t \in Tab : Making(t) =>
        /\ request[t].user \notin people \cup {None}
        /\ \A u \in Tab \ {t} : Making(u) => request[u].user # request[t].user
    /\ \A t \in Tab : request[t].at = "commit" =>
        /\ identities[IdentityOf(t)] = None
        /\ \A u \in Tab \ {t} : request[u].at = "commit" => IdentityOf(u) # IdentityOf(t)
    /\ \A t \in Tab : request[t].at = "start" => request[t].user # None /\ identities[IdentityOf(t)] = request[t].user
    /\ \A x \in sessions : x.user # None
    /\ OneUserPerIdentity

\* Who signs in, and what they are granted, agree with a file.
Agreed(f, type, p) ==
    /\ f \in AuthFiles /\ Configured(f, type) /\ type \in SignInType
    /\ p \in Person \cup {Admin} /\ (type = "local" <=> p = Admin)

GrantsSound ==
    /\ \A t \in Tab : Under(t) =>
        /\ Agreed(request[t].file, request[t].type, request[t].who)
        /\ request[t].at = "decide" => request[t].type # "local"
        /\ request[t].at # "decide" => request[t].grant = Granted(request[t].file, request[t].type, request[t].who)
    /\ \A x \in sessions : \E f \in AuthFiles :
        /\ Agreed(f, x.type, x.who)
        /\ x.origin = PointsAt(f, x.type) /\ x.key = GrantKey(f, x.type) /\ x.grant = Granted(f, x.type, x.who)

SignInSound == SignTyped /\ IsFiniteSet(issued) /\ LoginsApart /\ UsersApart /\ GrantsSound

\* A request's way to its session, and what ends one.
Going(t) ==
    \/ DecideGrant(t) \/ CallFails(t) \/ DeleteSession(t) \/ LookUpIdentity(t)
    \/ InsertIdentity(t) \/ CommitIdentity(t)

-----------------------------------------------------------------------------
(* What a file decides. *)

\* A decision is a grant.
LEMMA DecideTyped ==
    ASSUME NEW f \in AuthFiles, NEW p \in Person PROVE Decide(f, p) \in Grant
<1>1. f.mapping \in DOMAIN Mapped /\ f.serves \in SUBSET Account
  BY SignInAssumption DEF AuthFile
<1>2. Mapped[f.mapping][p] \in Grant BY <1>1, SignInAssumption
<1>3. Belongs[p] \in SUBSET Account BY SignInAssumption
<1>4. Mapped[f.mapping][p].accounts \in SUBSET Account BY <1>2 DEF Grant
<1>5. NoGrant \in Grant BY DEF NoGrant, Grant
<1>6. [NoGrant EXCEPT !.admin = TRUE] \in Grant /\ [NoGrant EXCEPT !.all = TRUE] \in Grant
  BY DEF NoGrant, Grant
<1> DEFINE accounts == Mapped[f.mapping][p].accounts \cup (IF f.type = "github" THEN f.serves \cap Belongs[p] ELSE {})
<1>7. accounts \in SUBSET Account BY <1>1, <1>3, <1>4
<1>8. [NoGrant EXCEPT !.accounts = accounts] \in Grant
  <2> HIDE DEF accounts
  <2>1. QED BY <1>7 DEF NoGrant, Grant
<1>9. QED BY <1>6, <1>8 DEF Decide

\* Two files of one type, origin and key decide alike for the accounts that
\* the second serves: what the first adds of its own is not read there.
LEMMA SameKeySameWord ==
    ASSUME NEW f \in AuthFiles, NEW later \in AuthFiles, NEW type \in {"oidc", "github"}, NEW p \in Person,
           Configured(f, type), Configured(later, type), GrantKey(f, type) = GrantKey(later, type)
    PROVE  /\ Decide(f, p).admin => Decide(later, p).admin
           /\ CanRead(later, Decide(f, p)) \subseteq CanRead(later, Decide(later, p))
<1> DEFINE said == Mapped[f.mapping][p]
           was  == said.accounts \cup (IF f.type = "github" THEN f.serves \cap Belongs[p] ELSE {})
           is   == said.accounts \cup (IF later.type = "github" THEN later.serves \cap Belongs[p] ELSE {})
<1>1. f.type = type /\ later.type = type BY DEF Configured
<1>2. f.mapping = later.mapping /\ f.members = later.members BY DEF GrantKey
<1>3. Decide(f, p) =
        IF said.admin THEN [NoGrant EXCEPT !.admin = TRUE]
        ELSE IF said.all \/ (was = {} /\ type = "oidc" /\ f.members) THEN [NoGrant EXCEPT !.all = TRUE]
        ELSE [NoGrant EXCEPT !.accounts = was]
  BY <1>1 DEF Decide
<1>4. Decide(later, p) =
        IF said.admin THEN [NoGrant EXCEPT !.admin = TRUE]
        ELSE IF said.all \/ (is = {} /\ type = "oidc" /\ f.members) THEN [NoGrant EXCEPT !.all = TRUE]
        ELSE [NoGrant EXCEPT !.accounts = is]
  BY <1>1, <1>2 DEF Decide
<1>5. type = "oidc" => was = is BY <1>1
<1>6. later.serves \cap was \subseteq later.serves \cap is BY <1>1
<1> HIDE DEF said, was, is
<1>7. CASE said.admin BY <1>3, <1>4, <1>7 DEF NoGrant, CanRead
<1>8. CASE ~said.admin /\ (said.all \/ (was = {} /\ type = "oidc" /\ f.members))
  <2>1. Decide(f, p) = [NoGrant EXCEPT !.all = TRUE] BY <1>3, <1>8
  <2>2. Decide(later, p) = [NoGrant EXCEPT !.all = TRUE] BY <1>4, <1>5, <1>8
  <2>3. QED BY <2>1, <2>2
<1>9. CASE ~said.admin /\ ~(said.all \/ (was = {} /\ type = "oidc" /\ f.members))
  <2>1. Decide(f, p) = [NoGrant EXCEPT !.accounts = was] BY <1>3, <1>9
  <2>2. Decide(later, p) = [NoGrant EXCEPT !.accounts = is] BY <1>4, <1>5, <1>9
  <2>3. Decide(f, p).admin = FALSE /\ CanRead(later, Decide(f, p)) = later.serves \cap was
    BY <2>1 DEF NoGrant, CanRead
  <2>4. CanRead(later, Decide(later, p)) = later.serves \cap is BY <2>2 DEF NoGrant, CanRead
  <2>5. QED BY <1>6, <2>3, <2>4
<1>10. QED BY <1>7, <1>8, <1>9

-----------------------------------------------------------------------------
(* One request's steps. *)

\* A step of one request leaves the others where they are.
LEMMA StepAlone ==
    ASSUME SignTyped, NEW t \in Tab, NEW r, Step(t, r)
    PROVE  request'[t] = r /\ (\A u \in Tab \ {t} : request'[u] = request[u])
           /\ (r \in {Away} \cup Requested => request' \in [Tab -> {Away} \cup Requested])
BY DEF SignTyped, Step

\* What a request that goes on still is.
SameSignIn(t) ==
    /\ Under(t) /\ request'[t] \in Requested
    /\ request'[t].login = request[t].login /\ request'[t].file = request[t].file
    /\ request'[t].type = request[t].type /\ request'[t].who = request[t].who
    /\ request'[t].at # "decide"
    /\ request'[t].grant = IF request[t].at = "decide" THEN Decide(request[t].file, request[t].who)
                           ELSE request[t].grant

\* A request under way is a record of one.
LEMMA UnderWay == ASSUME SignTyped, NEW t \in Tab, Under(t) PROVE request[t] \in Requested
BY DEF SignTyped, Under, Away

\* A request that takes a step ends, or goes on as the same sign-in, with
\* what its file decides once it has been asked.
LEMMA GoingOn ==
    ASSUME SignTyped, NEW t \in Tab, Going(t), Under(t) => Agreed(request[t].file, request[t].type, request[t].who),
           request[t].at = "decide" => request[t].type # "local"
    PROVE  /\ \A u \in Tab \ {t} : request'[u] = request[u]
           /\ request'[t] = Away \/ SameSignIn(t)
<1>1. Under(t)
  BY DEF Going, DecideGrant, CallFails, DeleteSession, LookUpIdentity, InsertIdentity, CommitIdentity, Under
<1>2. request[t] \in Requested BY <1>1, UnderWay
<1>3. Agreed(request[t].file, request[t].type, request[t].who) BY <1>1
<1>4. CASE Answer(t) BY <1>4, StepAlone DEF Answer
<1>5. CASE DecideGrant(t) /\ ~Answer(t)
  <2> DEFINE g == Decide(request[t].file, request[t].who)
             r == [request[t] EXCEPT !.at = "end", !.grant = g]
  <2>1. request[t].at = "decide" /\ Step(t, r) BY <1>5 DEF DecideGrant
  <2>2. request[t].who \in Person /\ request[t].file \in AuthFiles BY <1>3, <2>1 DEF Agreed
  <2>3. g \in Grant BY <2>2, DecideTyped
  <2>4. request'[t] = r /\ (\A u \in Tab \ {t} : request'[u] = request[u]) BY <2>1, StepAlone
  <2> HIDE DEF g
  <2>5. r \in Requested BY <1>2, <2>3 DEF Requested
  <2>6. r.login = request[t].login /\ r.file = request[t].file /\ r.type = request[t].type /\ r.who = request[t].who
        /\ r.at = "end" /\ r.grant = g
    BY <1>2 DEF Requested
  <2> HIDE DEF r
  <2>7. SameSignIn(t) BY <1>1, <2>1, <2>4, <2>5, <2>6 DEF SameSignIn, g
  <2>8. QED BY <2>4, <2>7
<1>6. CASE (DeleteSession(t) \/ LookUpIdentity(t) \/ InsertIdentity(t) \/ CommitIdentity(t)) /\ ~Answer(t)
  <2>1. PICK at \in {"look", "make", "commit", "start"}, u \in Nat : Step(t, [request[t] EXCEPT !.at = at, !.user = u])
    <3>1. request[t].user \in Nat BY <1>2 DEF Requested
    <3>2. \A at : [request[t] EXCEPT !.at = at] = [request[t] EXCEPT !.at = at, !.user = request[t].user]
      BY <1>2 DEF Requested
    <3>3. CASE DeleteSession(t)
      <4>1. Step(t, [request[t] EXCEPT !.at = "look"]) BY <3>3 DEF DeleteSession
      <4>2. QED BY <3>1, <3>2, <4>1
    <3>4. CASE CommitIdentity(t)
      <4>1. Step(t, [request[t] EXCEPT !.at = "start"]) BY <3>4 DEF CommitIdentity
      <4>2. QED BY <3>1, <3>2, <4>1
    <3>5. IdentityOf(t) \in Identity
      BY <1>2, <1>3, SignInAssumption DEF IdentityOf, Identity, PointsAt, Agreed, AuthFile
    <3>6. identities[IdentityOf(t)] \in Nat BY <3>5 DEF SignTyped
    <3>7. CASE LookUpIdentity(t)
      <4>1. CASE identities[IdentityOf(t)] # None
        <5>1. Step(t, [request[t] EXCEPT !.at = "start", !.user = identities[IdentityOf(t)]])
          BY <3>7, <4>1 DEF LookUpIdentity
        <5>2. QED BY <3>6, <5>1
      <4>2. CASE identities[IdentityOf(t)] = None
        <5>1. PICK u \in 1..(Cardinality(Taken) + 1) \ Taken : Step(t, [request[t] EXCEPT !.at = "make", !.user = u])
          BY <3>7, <4>2 DEF LookUpIdentity
        <5>2. u \in Nat BY <5>1
        <5>3. QED BY <5>1, <5>2
      <4>3. QED BY <4>1, <4>2
    <3>8. CASE InsertIdentity(t)
      <4>1. CASE identities[IdentityOf(t)] = None
        <5>1. Step(t, [request[t] EXCEPT !.at = "commit"]) BY <3>8, <4>1 DEF InsertIdentity
        <5>2. QED BY <3>1, <3>2, <5>1
      <4>2. CASE identities[IdentityOf(t)] # None
        <5>1. Step(t, [request[t] EXCEPT !.at = "start", !.user = identities[IdentityOf(t)]])
          BY <3>8, <4>2 DEF InsertIdentity
        <5>2. QED BY <3>6, <5>1
      <4>3. QED BY <4>1, <4>2
    <3>9. QED BY <1>6, <3>3, <3>4, <3>7, <3>8
  <2>2. request[t].at # "decide"
    BY <1>6 DEF DeleteSession, LookUpIdentity, InsertIdentity, CommitIdentity
  <2> DEFINE r == [request[t] EXCEPT !.at = at, !.user = u]
  <2>3. request'[t] = r /\ (\A v \in Tab \ {t} : request'[v] = request[v]) BY <2>1, StepAlone
  <2>4. r \in Requested BY <1>2 DEF Requested
  <2>5. r.login = request[t].login /\ r.file = request[t].file /\ r.type = request[t].type /\ r.who = request[t].who
        /\ r.at = at /\ r.grant = request[t].grant
    BY <1>2 DEF Requested
  <2> HIDE DEF r
  <2>6. SameSignIn(t) BY <1>1, <2>2, <2>3, <2>4, <2>5 DEF SameSignIn
  <2>7. QED BY <2>3, <2>6
<1>7. QED BY <1>4, <1>5, <1>6 DEF Going, CallFails

-----------------------------------------------------------------------------
(* Logins. *)

\* A step that begins, completes and issues nothing keeps them apart.
LEMMA LoginsStay ==
    ASSUME LoginsApart, states' \subseteq states, issued' = issued, begun' = begun, asked' = asked,
           \A t \in Tab : request'[t].at # "none" => Under(t) /\ request'[t].login = request[t].login
    PROVE  LoginsApart'
BY DEF LoginsApart, StatesCompleteOnce, Under

\* A request's own steps begin and complete nothing.
LEMMA GoingLogins ==
    ASSUME SignTyped, LoginsApart, GrantsSound, NEW t \in Tab, Going(t) PROVE LoginsApart'
<1>1. states' = states /\ issued' = issued /\ begun' = begun /\ asked' = asked
  BY Zenon DEF Going, DecideGrant, CallFails, DeleteSession, LookUpIdentity, InsertIdentity, CommitIdentity
<1>2. (\A u \in Tab \ {t} : request'[u] = request[u]) /\ (request'[t] = Away \/ SameSignIn(t))
  <2>1. /\ Under(t) => Agreed(request[t].file, request[t].type, request[t].who)
        /\ request[t].at = "decide" => request[t].type # "local"
    BY DEF GrantsSound, Under
  <2>2. QED BY <2>1, GoingOn
<1>3. \A u \in Tab : request'[u].at # "none" => Under(u) /\ request'[u].login = request[u].login
  BY <1>2 DEF Under, SameSignIn, Away
<1>4. QED BY <1>1, <1>3, LoginsStay

\* A login that begins is none that was.
LEMMA LoginLogins ==
    ASSUME SignTyped, LoginsApart, NEW s \in Server, NEW b \in Browser, Login(s, b) PROVE LoginsApart'
<1> DEFINE new == [login |-> begun + 1, browser |-> b]
<1>1. /\ begun' = begun + 1 /\ states' = states \cup {new} /\ request' = request /\ issued' = issued
      /\ asked' = Append(asked, NoOne)
  BY DEF Login
<1>2. begun \in Nat /\ asked \in Seq(Person \cup {Admin, NoOne}) /\ Len(asked) = begun BY DEF SignTyped
<1>3. asked'[begun + 1] = NoOne /\ \A n \in 1..begun : asked'[n] = asked[n] BY <1>1, <1>2
<1>4. new.login = begun + 1 OBVIOUS
<1> HIDE DEF new
<1>5. QED BY <1>1, <1>2, <1>3, <1>4 DEF LoginsApart, StatesCompleteOnce, Under

\* Who signs in at the provider is a person.
LEMMA AuthenticateLogins ==
    ASSUME SignTyped, LoginsApart, NEW n \in 1..begun, NEW p \in Person, Authenticate(n, p) PROVE LoginsApart'
BY DEF SignTyped, Authenticate, LoginsApart, StatesCompleteOnce, Under

\* A sign-in that comes has its login's state, deleted, or a new login.
LEMMA ComingLogins ==
    ASSUME SignTyped, LoginsApart, NEW t \in Tab, NEW s \in Server, NEW b \in Browser,
           LocalSignIn(t, s, b) \/ \E n \in 1..begun : ConsumeLoginState(t, s, b, n)
    PROVE  LoginsApart'
<1>1. CASE LocalSignIn(t, s, b)
  <2> DEFINE r == [Coming(s, b, begun + 1, Admin, "local") EXCEPT !.at = "end", !.grant.admin = TRUE]
  <2>1. /\ begun' = begun + 1 /\ states' = states /\ issued' = issued /\ asked' = Append(asked, Admin) /\ Step(t, r)
    BY <1>1 DEF LocalSignIn
  <2>2. request'[t] = r /\ \A u \in Tab \ {t} : request'[u] = request[u] BY <2>1, StepAlone
  <2>3. begun \in Nat /\ asked \in Seq(Person \cup {Admin, NoOne}) /\ Len(asked) = begun BY DEF SignTyped
  <2>4. \A n \in 1..begun : asked'[n] = asked[n] BY <2>1, <2>3
  <2>5. r.login = begun + 1 BY DEF Coming
  <2> HIDE DEF r
  <2>6. QED BY <2>1, <2>2, <2>3, <2>4, <2>5 DEF LoginsApart, StatesCompleteOnce, Under
<1>2. ASSUME NEW n \in 1..begun, ConsumeLoginState(t, s, b, n) PROVE LoginsApart'
  <2> DEFINE mine == [login |-> n, browser |-> b]
             r == Coming(s, b, n, asked[n], auth[s].type)
  <2>1. /\ begun' = begun /\ asked' = asked /\ issued' = issued /\ mine \in states /\ states' = states \ {mine}
        /\ request' = request \/ Step(t, r)
    BY <1>2 DEF ConsumeLoginState
  <2>2. mine.login = n /\ r.login = n BY DEF Coming
  <2> HIDE DEF mine, r
  <2>3. \A q \in states' : q.login # n BY <2>1, <2>2 DEF LoginsApart
  <2>4. CASE request' = request BY <2>1, <2>4, LoginsStay DEF Under
  <2>5. CASE Step(t, r)
    <3>1. request'[t] = r /\ \A u \in Tab \ {t} : request'[u] = request[u] BY <2>5, StepAlone
    <3>2. QED BY <2>1, <2>2, <2>3, <3>1 DEF LoginsApart, StatesCompleteOnce, Under
  <2>6. QED BY <2>1, <2>4, <2>5
<1>3. QED BY <1>1, <1>2

\* The session that is issued has its request's login, which goes away.
LEMMA SessionLogins ==
    ASSUME SignTyped, LoginsApart, NEW t \in Tab, CreateSession(t) PROVE LoginsApart'
<1> DEFINE x == [number |-> Cardinality(issued) + 1, login |-> request[t].login, browser |-> request[t].browser]
<1>1. /\ issued' = issued \cup {x} /\ Step(t, Away) /\ states' = states /\ begun' = begun /\ asked' = asked
  BY DEF CreateSession, Answer
<1>2. request'[t] = Away /\ \A u \in Tab \ {t} : request'[u] = request[u] BY <1>1, StepAlone
<1>3. x.login = request[t].login /\ Under(t) BY DEF CreateSession, Under
<1>4. request'[t].at = "none" BY <1>2 DEF Away
<1> HIDE DEF x
<1>5. QED BY <1>1, <1>2, <1>3, <1>4 DEF LoginsApart, StatesCompleteOnce, Under

\* Ending a session, expiry and a restart begin and complete nothing.
LEMMA EndingLogins ==
    ASSUME SignTyped, LoginsApart,
           (\E b \in Browser : Logout(b)) \/ Expire \/ (\E s \in Server : RestartServer(s))
    PROVE  LoginsApart'
<1>1. CASE \E b \in Browser : Logout(b) BY <1>1, LoginsStay DEF Logout, Under
<1>2. CASE Expire BY <1>2, LoginsStay DEF Expire, Under
<1>3. CASE \E s \in Server : RestartServer(s) BY <1>3, LoginsStay DEF RestartServer, Under, Away
<1>4. QED BY <1>1, <1>2, <1>3

-----------------------------------------------------------------------------
(* Types. *)

\* A sign-in that comes is a request.
LEMMA ComingTyped ==
    ASSUME SignTyped, NEW s \in Server, NEW b \in Browser, NEW n \in Nat, NEW p \in Person \cup {Admin},
           NEW type \in SignInType
    PROVE  Coming(s, b, n, p, type) \in Requested
<1>1. auth[s] \in AuthFiles /\ sessionCookie[b] \in Nat BY DEF SignTyped
<1>2. NoGrant \in Grant BY DEF NoGrant, Grant
<1>3. None \in Nat BY DEF None
<1>4. QED BY <1>1, <1>2, <1>3 DEF Coming, Requested

\* A sign-in that comes back from the provider is by a person and the type of
\* its replica's file.
LEMMA ConsumedRequest ==
    ASSUME SignTyped, LoginsApart, NEW t \in Tab, NEW s \in Server, NEW b \in Browser, NEW n \in 1..begun,
           ConsumeLoginState(t, s, b, n), request' # request
    PROVE  /\ Step(t, Coming(s, b, n, asked[n], auth[s].type))
           /\ asked[n] \in Person /\ auth[s].type \in {"oidc", "github"} /\ auth[s] \in AuthFiles
<1>1. Step(t, Coming(s, b, n, asked[n], auth[s].type)) /\ auth[s].type # "none"
  BY DEF ConsumeLoginState
<1>2. auth[s] \in AuthFiles BY DEF SignTyped
<1>3. auth[s].type \in {"oidc", "github"} BY <1>1, <1>2, SignInAssumption DEF AuthFile
<1>4. [login |-> n, browser |-> b] \in states /\ asked[n] # NoOne BY DEF ConsumeLoginState
<1>5. asked[n] \in Person BY <1>4 DEF LoginsApart
<1>6. QED BY <1>1, <1>2, <1>3, <1>5

\* The local admin's is by the admin, with everything granted.
LEMMA LocalRequest ==
    ASSUME SignTyped, NEW t \in Tab, NEW s \in Server, NEW b \in Browser, LocalSignIn(t, s, b)
    PROVE  /\ request'[t] \in Requested /\ request'[t].at = "end" /\ request'[t].file = auth[s]
           /\ request'[t].type = "local" /\ request'[t].who = Admin
           /\ request'[t].grant = [NoGrant EXCEPT !.admin = TRUE]
           /\ \A u \in Tab \ {t} : request'[u] = request[u]
<1> DEFINE c == Coming(s, b, begun + 1, Admin, "local")
           r == [c EXCEPT !.at = "end", !.grant = [NoGrant EXCEPT !.admin = TRUE]]
<1>1. begun + 1 \in Nat BY DEF SignTyped
<1>2. c \in Requested BY <1>1, ComingTyped DEF SignInType
<1>3. c.grant = NoGrant /\ c.file = auth[s] /\ c.type = "local" /\ c.who = Admin BY DEF Coming
<1>4. [c EXCEPT !.at = "end", !.grant.admin = TRUE] = r BY <1>2, <1>3 DEF Requested
<1>5. Step(t, r) BY <1>4 DEF LocalSignIn
<1>6. request'[t] = r /\ \A u \in Tab \ {t} : request'[u] = request[u] BY <1>5, StepAlone
<1>7. [NoGrant EXCEPT !.admin = TRUE] \in Grant BY DEF NoGrant, Grant
<1> HIDE DEF c
<1>8. r \in Requested BY <1>2, <1>7 DEF Requested
<1>9. r.at = "end" /\ r.file = auth[s] /\ r.type = "local" /\ r.who = Admin /\ r.grant = [NoGrant EXCEPT !.admin = TRUE]
  BY <1>2, <1>3 DEF Requested
<1> HIDE DEF r
<1>10. QED BY <1>6, <1>8, <1>9

-----------------------------------------------------------------------------
(* Grants. *)

\* A step that starts no session, and lets requests go on, keeps what they
\* were granted.
LEMMA GrantsStay ==
    ASSUME GrantsSound, sessions' \subseteq sessions,
           \A t \in Tab : request'[t] = request[t] \/ request'[t].at = "none" \/ SameSignIn(t)
    PROVE  GrantsSound'
<1>1. ASSUME NEW t \in Tab, request'[t].at # "none"
      PROVE  /\ Agreed(request'[t].file, request'[t].type, request'[t].who)
             /\ request'[t].at = "decide" => request'[t].type # "local"
             /\ request'[t].at # "decide" =>
                request'[t].grant = Granted(request'[t].file, request'[t].type, request'[t].who)
  <2>1. CASE request'[t] = request[t] BY <1>1, <2>1 DEF GrantsSound, Under
  <2>2. CASE SameSignIn(t) BY <2>2 DEF GrantsSound, SameSignIn, Granted
  <2>3. QED BY <1>1, <2>1, <2>2
<1>2. QED BY <1>1 DEF GrantsSound, Under, Agreed

\* A request is granted what its file decides, and keeps it.
LEMMA GoingGrants ==
    ASSUME SignTyped, GrantsSound, NEW t \in Tab, Going(t) PROVE GrantsSound'
<1>1. /\ Under(t) => Agreed(request[t].file, request[t].type, request[t].who)
      /\ request[t].at = "decide" => request[t].type # "local"
  BY DEF GrantsSound, Under
<1>2. (\A u \in Tab \ {t} : request'[u] = request[u]) /\ (request'[t] = Away \/ SameSignIn(t))
  BY <1>1, GoingOn
<1>3. sessions' \subseteq sessions
  BY DEF Going, DecideGrant, CallFails, DeleteSession, LookUpIdentity, InsertIdentity, CommitIdentity
<1>4. Away.at = "none" BY DEF Away
<1>5. QED BY <1>2, <1>3, <1>4, GrantsStay

\* A request comes with the file its replica has, and nothing granted but
\* to the local admin.
LEMMA ComingGrants ==
    ASSUME SignTyped, LoginsApart, GrantsSound, NEW t \in Tab, NEW s \in Server, NEW b \in Browser,
           LocalSignIn(t, s, b) \/ \E n \in 1..begun : ConsumeLoginState(t, s, b, n)
    PROVE  GrantsSound'
<1>1. sessions' = sessions BY DEF LocalSignIn, ConsumeLoginState
<1>2. CASE request' = request BY <1>1, <1>2, GrantsStay
<1>3. ASSUME \A u \in Tab \ {t} : request'[u] = request[u],
             Agreed(request'[t].file, request'[t].type, request'[t].who),
             request'[t].at = "decide" => request'[t].type # "local",
             request'[t].at # "decide" =>
                request'[t].grant = Granted(request'[t].file, request'[t].type, request'[t].who)
      PROVE  GrantsSound'
  <2>1. ASSUME NEW u \in Tab, request'[u].at # "none"
        PROVE  /\ Agreed(request'[u].file, request'[u].type, request'[u].who)
               /\ request'[u].at = "decide" => request'[u].type # "local"
               /\ request'[u].at # "decide" =>
                    request'[u].grant = Granted(request'[u].file, request'[u].type, request'[u].who)
    <3>1. CASE u = t BY <1>3, <3>1
    <3>2. CASE u # t BY <1>3, <2>1, <3>2 DEF GrantsSound, Under
    <3>3. QED BY <3>1, <3>2
  <2>2. QED BY <1>1, <2>1 DEF GrantsSound, Under
<1>4. CASE LocalSignIn(t, s, b)
  <2>1. auth[s] \in AuthFiles /\ auth[s].password # "none" BY <1>4 DEF SignTyped, LocalSignIn
  <2>2. QED BY <1>3, <1>4, <2>1, LocalRequest DEF Agreed, Configured, SignInType, Granted
<1>5. CASE request' # request /\ \E n \in 1..begun : ConsumeLoginState(t, s, b, n)
  <2>1. PICK n \in 1..begun : ConsumeLoginState(t, s, b, n) BY <1>5
  <2>2. /\ Step(t, Coming(s, b, n, asked[n], auth[s].type))
        /\ asked[n] \in Person /\ auth[s].type \in {"oidc", "github"} /\ auth[s] \in AuthFiles
    BY <1>5, <2>1, ConsumedRequest
  <2>3. request'[t] = Coming(s, b, n, asked[n], auth[s].type) /\ \A u \in Tab \ {t} : request'[u] = request[u]
    BY <2>2, StepAlone
  <2>4. /\ request'[t].file = auth[s] /\ request'[t].type = auth[s].type /\ request'[t].who = asked[n]
        /\ request'[t].at = "decide"
    BY <2>3 DEF Coming
  <2>5. QED BY <1>3, <2>2, <2>3, <2>4, SignInAssumption DEF Agreed, Configured, SignInType
<1>6. QED BY <1>2, <1>4, <1>5

\* The session says what its request was granted, and the key of its file.
LEMMA SessionGrants ==
    ASSUME SignTyped, GrantsSound, NEW t \in Tab, CreateSession(t) PROVE GrantsSound'
<1> DEFINE r == request[t]
           x == [number |-> Cardinality(issued) + 1, user |-> r.user, who |-> r.who, type |-> r.type,
                 origin |-> PointsAt(r.file, r.type), key |-> GrantKey(r.file, r.type), grant |-> r.grant]
<1>1. sessions' = sessions \cup {x} /\ Step(t, Away) /\ r.at = "start" BY DEF CreateSession, Answer
<1>2. request'[t] = Away /\ \A u \in Tab \ {t} : request'[u] = request[u] BY <1>1, StepAlone
<1>3. Agreed(r.file, r.type, r.who) /\ r.grant = Granted(r.file, r.type, r.who)
  BY <1>1 DEF GrantsSound, Under
<1>4. \E f \in AuthFiles : /\ Agreed(f, x.type, x.who) /\ x.origin = PointsAt(f, x.type)
                           /\ x.key = GrantKey(f, x.type) /\ x.grant = Granted(f, x.type, x.who)
  <2>1. x.type = r.type /\ x.who = r.who /\ x.origin = PointsAt(r.file, r.type) /\ x.key = GrantKey(r.file, r.type)
        /\ x.grant = r.grant
    OBVIOUS
  <2> HIDE DEF x, r
  <2>2. r.file \in AuthFiles BY <1>3 DEF Agreed
  <2>3. QED BY <1>3, <2>1, <2>2
<1>5. request'[t].at = "none" BY <1>2 DEF Away
<1> HIDE DEF x
<1>6. QED BY <1>1, <1>2, <1>4, <1>5 DEF GrantsSound, Under

\* The rest leave grants alone, a restart too: the files they came of stay
\* what they were.
LEMMA OtherGrants ==
    ASSUME SignTyped, GrantsSound,
           \/ \E s \in Server, b \in Browser : Login(s, b)
           \/ \E n \in 1..begun, p \in Person : Authenticate(n, p)
           \/ \E b \in Browser : Logout(b)
           \/ Expire \/ \E s \in Server : RestartServer(s)
    PROVE  GrantsSound'
<1>1. sessions' \subseteq sessions BY DEF Login, Authenticate, Logout, Expire, RestartServer
<1>2. \A t \in Tab : request'[t] = request[t] \/ request'[t].at = "none"
  BY DEF Login, Authenticate, Logout, Expire, RestartServer, Away
<1>3. QED BY <1>1, <1>2, GrantsStay

-----------------------------------------------------------------------------
(* Users. *)

\* A step that makes no user, and lets no request come near one, keeps them.
LEMMA UsersStay ==
    ASSUME UsersApart, identities' = identities, people' = people, sessions' \subseteq sessions,
           \A t \in Tab : request'[t] = request[t] \/ request'[t].at \notin {"make", "commit", "start"}
    PROVE  UsersApart'
BY DEF UsersApart, OneUserPerIdentity, Making, IdentityOf

\* A request's identity is one, and stays it.
LEMMA IdentityStays ==
    ASSUME SignTyped, GrantsSound, NEW t \in Tab, Under(t)
    PROVE  IdentityOf(t) \in Identity /\ (SameSignIn(t) => IdentityOf(t)' = IdentityOf(t))
<1>1. request[t] \in Requested /\ Agreed(request[t].file, request[t].type, request[t].who)
  BY UnderWay DEF GrantsSound
<1>2. IdentityOf(t) \in Identity
  BY <1>1, SignInAssumption DEF IdentityOf, Identity, PointsAt, Agreed, AuthFile
<1>3. SameSignIn(t) => IdentityOf(t)' = IdentityOf(t) BY DEF SameSignIn, IdentityOf
<1>4. QED BY <1>2, <1>3

\* A request's next place and user, whatever else it is.
LEMMA NextPlace ==
    ASSUME SignTyped, GrantsSound, NEW t \in Tab, Going(t), Under(t), NEW at, NEW u,
           at # "none",
           Step(t, [request[t] EXCEPT !.at = at, !.user = u])
    PROVE  /\ request'[t].at = at /\ request'[t].user = u /\ IdentityOf(t)' = IdentityOf(t)
           /\ \A q \in Tab \ {t} : request'[q] = request[q] /\ IdentityOf(q)' = IdentityOf(q)
<1>1. request[t] \in Requested BY UnderWay
<1> DEFINE r == [request[t] EXCEPT !.at = at, !.user = u]
<1>2. request'[t] = r /\ \A q \in Tab \ {t} : request'[q] = request[q] BY StepAlone
<1>3. r.at = at /\ r.user = u /\ r.file = request[t].file /\ r.type = request[t].type /\ r.who = request[t].who
  BY <1>1 DEF Requested
<1> HIDE DEF r
<1>4. QED BY <1>2, <1>3 DEF IdentityOf

\* The same of a step that leaves the user alone.
LEMMA NextPlaceOnly ==
    ASSUME SignTyped, GrantsSound, NEW t \in Tab, Going(t), Under(t), NEW at, at # "none",
           Step(t, [request[t] EXCEPT !.at = at])
    PROVE  /\ request'[t].at = at /\ request'[t].user = request[t].user /\ IdentityOf(t)' = IdentityOf(t)
           /\ \A q \in Tab \ {t} : request'[q] = request[q] /\ IdentityOf(q)' = IdentityOf(q)
<1>1. request[t] \in Requested BY UnderWay
<1>2. [request[t] EXCEPT !.at = at] = [request[t] EXCEPT !.at = at, !.user = request[t].user]
  BY <1>1 DEF Requested
<1>3. QED BY <1>2, NextPlace

\* The transaction that finds an identity has its user; one that does not
\* makes a user that is nobody's.
LEMMA LookUpUsers ==
    ASSUME SignTyped, GrantsSound, UsersApart, NEW t \in Tab, LookUpIdentity(t) PROVE UsersApart'
<1>1. UNCHANGED <<identities, people, sessions>> /\ Going(t) /\ Under(t)
  BY DEF LookUpIdentity, Going, Under
<1>2. CASE identities[IdentityOf(t)] # None
  <2>1. Step(t, [request[t] EXCEPT !.at = "start", !.user = identities[IdentityOf(t)]])
    BY <1>2 DEF LookUpIdentity
  <2>2. /\ request'[t].at = "start" /\ request'[t].user = identities[IdentityOf(t)] /\ IdentityOf(t)' = IdentityOf(t)
        /\ \A q \in Tab \ {t} : request'[q] = request[q] /\ IdentityOf(q)' = IdentityOf(q)
    BY <1>1, <2>1, NextPlace
  <2>3. QED BY <1>1, <1>2, <2>2 DEF UsersApart, OneUserPerIdentity, Making
<1>3. CASE identities[IdentityOf(t)] = None
  <2>1. PICK u \in 1..(Cardinality(Taken) + 1) \ Taken : Step(t, [request[t] EXCEPT !.at = "make", !.user = u])
    BY <1>3 DEF LookUpIdentity
  <2>2. /\ request'[t].at = "make" /\ request'[t].user = u
        /\ \A q \in Tab \ {t} : request'[q] = request[q] /\ IdentityOf(q)' = IdentityOf(q)
    BY <1>1, <2>1, NextPlace
  <2>3. u # None BY <2>1 DEF None
  <2>4. u \notin people BY <2>1 DEF Taken
  <2>5. \A q \in Tab : Making(q) => request[q].user # u BY <2>1 DEF Taken, Making
  <2>6. QED BY <1>1, <2>2, <2>3, <2>4, <2>5 DEF UsersApart, OneUserPerIdentity, Making
<1>4. QED BY <1>2, <1>3

\* The first of two inserts goes on alone; the second takes its user.
LEMMA InsertUsers ==
    ASSUME SignTyped, GrantsSound, UsersApart, NEW t \in Tab, InsertIdentity(t) PROVE UsersApart'
<1>1. UNCHANGED <<identities, people, sessions>> /\ Going(t) /\ Under(t) /\ request[t].at = "make"
  BY DEF InsertIdentity, Going, Under
<1>2. \A q \in Tab \ {t} : request[q].at = "commit" => IdentityOf(q) # IdentityOf(t) BY DEF InsertIdentity
<1>3. CASE identities[IdentityOf(t)] = None
  <2>1. Step(t, [request[t] EXCEPT !.at = "commit"]) BY <1>3 DEF InsertIdentity
  <2>2. /\ request'[t].at = "commit" /\ request'[t].user = request[t].user /\ IdentityOf(t)' = IdentityOf(t)
        /\ \A q \in Tab \ {t} : request'[q] = request[q] /\ IdentityOf(q)' = IdentityOf(q)
    BY <1>1, <2>1, NextPlaceOnly
  <2>3. QED BY <1>1, <1>2, <1>3, <2>2 DEF UsersApart, OneUserPerIdentity, Making
<1>4. CASE identities[IdentityOf(t)] # None
  <2>1. Step(t, [request[t] EXCEPT !.at = "start", !.user = identities[IdentityOf(t)]])
    BY <1>4 DEF InsertIdentity
  <2>2. /\ request'[t].at = "start" /\ request'[t].user = identities[IdentityOf(t)] /\ IdentityOf(t)' = IdentityOf(t)
        /\ \A q \in Tab \ {t} : request'[q] = request[q] /\ IdentityOf(q)' = IdentityOf(q)
    BY <1>1, <2>1, NextPlace
  <2>3. QED BY <1>1, <1>4, <2>2 DEF UsersApart, OneUserPerIdentity, Making
<1>5. QED BY <1>3, <1>4

\* The identity has the user that was made for it, and nobody else has.
LEMMA CommitUsers ==
    ASSUME SignTyped, GrantsSound, UsersApart, NEW t \in Tab, CommitIdentity(t) PROVE UsersApart'
<1> DEFINE i == IdentityOf(t)
           u == request[t].user
<1>1. UNCHANGED sessions /\ Going(t) /\ Under(t) /\ request[t].at = "commit"
  BY DEF CommitIdentity, Going, Under
<1>2. identities' = [identities EXCEPT ![i] = u] /\ people' = people \cup {u}
      /\ Step(t, [request[t] EXCEPT !.at = "start"])
  BY DEF CommitIdentity
<1>3. /\ request'[t].at = "start" /\ request'[t].user = u /\ IdentityOf(t)' = i
      /\ \A q \in Tab \ {t} : request'[q] = request[q] /\ IdentityOf(q)' = IdentityOf(q)
  BY <1>1, <1>2, NextPlaceOnly
<1>4. i \in Identity /\ identities \in [Identity -> Nat] BY <1>1, IdentityStays DEF SignTyped
<1>5. u \notin people /\ u # None /\ identities[i] = None /\ \A q \in Tab \ {t} : Making(q) => request[q].user # u
  BY <1>1 DEF UsersApart, Making
<1>6. \A q \in Tab \ {t} : request[q].at = "commit" => IdentityOf(q) # i BY <1>1 DEF UsersApart
<1>7. \A q \in Tab \ {t} : request[q].at \in {"commit", "start"} => IdentityOf(q) \in Identity
  BY IdentityStays DEF Under
<1> HIDE DEF i, u
<1>8. identities'[i] = u /\ (\A j \in Identity \ {i} : identities'[j] = identities[j]) BY <1>2, <1>4
<1>9. ASSUME NEW q \in Tab, Making(q)'
      PROVE  /\ request'[q].user \notin people' \cup {None}
             /\ \A p \in Tab \ {q} : Making(p)' => request'[p].user # request'[q].user
  BY <1>2, <1>3, <1>5, <1>9 DEF UsersApart, Making
<1>10. ASSUME NEW q \in Tab, request'[q].at = "commit"
       PROVE  /\ identities'[IdentityOf(q)'] = None
              /\ \A p \in Tab \ {q} : request'[p].at = "commit" => IdentityOf(p)' # IdentityOf(q)'
  <2>1. q # t /\ request[q].at = "commit" BY <1>3, <1>10
  <2>2. identities[IdentityOf(q)] = None /\ IdentityOf(q) # i BY <1>6, <2>1 DEF UsersApart
  <2>3. QED BY <1>3, <1>7, <1>8, <2>1, <2>2 DEF UsersApart
<1>11. ASSUME NEW q \in Tab, request'[q].at = "start"
       PROVE  request'[q].user # None /\ identities'[IdentityOf(q)'] = request'[q].user
  <2>1. CASE q = t BY <1>3, <1>5, <1>8, <2>1
  <2>2. CASE q # t
    <3>1. request[q].at = "start" /\ request'[q].user = request[q].user /\ IdentityOf(q)' = IdentityOf(q)
      BY <1>3, <1>11, <2>2
    <3>2. request[q].user # None /\ identities[IdentityOf(q)] = request[q].user BY <3>1 DEF UsersApart
    <3>3. QED BY <1>5, <1>7, <1>8, <2>2, <3>1, <3>2
  <2>3. QED BY <2>1, <2>2
<1>12. \A j, k \in Identity : j # k /\ identities'[j] # None => identities'[j] # identities'[k]
  <2>1. \A j \in Identity : identities[j] # None => identities[j] \in people
    BY DEF UsersApart, OneUserPerIdentity
  <2>2. QED BY <1>5, <1>8, <2>1 DEF UsersApart, OneUserPerIdentity
<1>13. people' = {identities'[j] : j \in Identity} \ {None}
  <2>1. people = {identities[j] : j \in Identity} \ {None} BY DEF UsersApart, OneUserPerIdentity
  <2>2. QED BY <1>2, <1>4, <1>5, <1>8, <2>1
<1>14. \A x \in sessions : x.user # None /\ identities'[<<x.origin, x.who>>] = x.user
  <2>1. ASSUME NEW x \in sessions PROVE x.user # None /\ identities'[<<x.origin, x.who>>] = x.user
    <3>1. x.user # None /\ identities[<<x.origin, x.who>>] = x.user BY DEF UsersApart, OneUserPerIdentity
    <3>2. <<x.origin, x.who>> \in Identity
      <4>1. PICK f \in AuthFiles : Agreed(f, x.type, x.who) /\ x.origin = PointsAt(f, x.type) BY DEF GrantsSound
      <4>2. QED BY <4>1, SignInAssumption DEF Agreed, PointsAt, Identity, AuthFile
    <3>3. QED BY <1>5, <1>8, <3>1, <3>2
  <2>2. QED BY <2>1
<1>15. QED BY <1>1, <1>9, <1>10, <1>11, <1>12, <1>13, <1>14 DEF UsersApart, OneUserPerIdentity

\* The other steps of a request make no user.
LEMMA GoingUsers ==
    ASSUME SignTyped, GrantsSound, UsersApart, NEW t \in Tab, Going(t) PROVE UsersApart'
<1>1. CASE DecideGrant(t) \/ CallFails(t) \/ DeleteSession(t)
  <2>1. identities' = identities /\ people' = people /\ sessions' \subseteq sessions
    BY <1>1 DEF DecideGrant, CallFails, DeleteSession
  <2>2. Under(t) BY <1>1 DEF DecideGrant, CallFails, DeleteSession, Under
  <2>3. request[t] \in Requested BY <2>2, UnderWay
  <2>4. CASE Answer(t)
    <3>1. request'[t] = Away /\ \A q \in Tab \ {t} : request'[q] = request[q] BY <2>4, StepAlone DEF Answer
    <3>2. request'[t].at = "none" BY <3>1 DEF Away
    <3>3. QED BY <2>1, <3>1, <3>2, UsersStay
  <2>5. CASE DecideGrant(t) /\ ~Answer(t)
    <3> DEFINE g == Decide(request[t].file, request[t].who)
    <3>1. Step(t, [request[t] EXCEPT !.at = "end", !.grant = g]) BY <2>5 DEF DecideGrant
    <3> HIDE DEF g
    <3>2. [request[t] EXCEPT !.at = "end", !.grant = g].at = "end" BY <2>3 DEF Requested
    <3>3. request'[t].at = "end" /\ \A q \in Tab \ {t} : request'[q] = request[q] BY <3>1, <3>2, StepAlone
    <3>4. QED BY <2>1, <3>3, UsersStay
  <2>6. CASE DeleteSession(t)
    <3>1. Step(t, [request[t] EXCEPT !.at = "look"]) /\ Going(t) BY <2>6 DEF DeleteSession
    <3>2. request'[t].at = "look" /\ \A q \in Tab \ {t} : request'[q] = request[q]
      BY <2>2, <3>1, NextPlaceOnly
    <3>3. QED BY <2>1, <3>2, UsersStay
  <2>7. QED BY <1>1, <2>4, <2>5, <2>6 DEF CallFails
<1>2. QED BY <1>1, LookUpUsers, InsertUsers, CommitUsers DEF Going

\* A sign-in that comes is not near its user yet.
LEMMA ComingUsers ==
    ASSUME SignTyped, LoginsApart, UsersApart, NEW t \in Tab, NEW s \in Server, NEW b \in Browser,
           LocalSignIn(t, s, b) \/ \E n \in 1..begun : ConsumeLoginState(t, s, b, n)
    PROVE  UsersApart'
<1>1. identities' = identities /\ people' = people /\ sessions' \subseteq sessions
  BY DEF LocalSignIn, ConsumeLoginState
<1>2. CASE request' = request BY <1>1, <1>2, UsersStay
<1>3. CASE LocalSignIn(t, s, b) BY <1>1, <1>3, LocalRequest, UsersStay
<1>4. CASE request' # request /\ \E n \in 1..begun : ConsumeLoginState(t, s, b, n)
  <2>1. PICK n \in 1..begun : ConsumeLoginState(t, s, b, n) BY <1>4
  <2>2. Step(t, Coming(s, b, n, asked[n], auth[s].type)) BY <1>4, <2>1, ConsumedRequest
  <2>3. request'[t] = Coming(s, b, n, asked[n], auth[s].type) /\ \A u \in Tab \ {t} : request'[u] = request[u]
    BY <2>2, StepAlone
  <2>4. request'[t].at = "decide" BY <2>3 DEF Coming
  <2>5. QED BY <1>1, <2>3, <2>4, UsersStay
<1>5. QED BY <1>2, <1>3, <1>4

\* The session is of its request's identity and user.
LEMMA SessionUsers ==
    ASSUME SignTyped, UsersApart, NEW t \in Tab, CreateSession(t) PROVE UsersApart'
<1> DEFINE r == request[t]
           x == [number |-> Cardinality(issued) + 1, user |-> r.user, who |-> r.who, type |-> r.type,
                 origin |-> PointsAt(r.file, r.type), key |-> GrantKey(r.file, r.type), grant |-> r.grant]
<1>1. /\ sessions' = sessions \cup {x} /\ Step(t, Away) /\ r.at = "start"
      /\ identities' = identities /\ people' = people
  BY DEF CreateSession, Answer
<1>2. request'[t] = Away /\ \A u \in Tab \ {t} : request'[u] = request[u] BY <1>1, StepAlone
<1>3. request'[t].at = "none" BY <1>2 DEF Away
<1>4. x.user # None /\ identities[<<x.origin, x.who>>] = x.user BY <1>1 DEF UsersApart, IdentityOf
<1> HIDE DEF x
<1>5. QED BY <1>1, <1>2, <1>3, <1>4 DEF UsersApart, OneUserPerIdentity, Making, IdentityOf

\* The rest leave users alone.
LEMMA OtherUsers ==
    ASSUME SignTyped, UsersApart,
           \/ \E s \in Server, b \in Browser : Login(s, b)
           \/ \E n \in 1..begun, p \in Person : Authenticate(n, p)
           \/ \E b \in Browser : Logout(b)
           \/ Expire \/ \E s \in Server : RestartServer(s)
    PROVE  UsersApart'
<1>1. identities' = identities /\ people' = people /\ sessions' \subseteq sessions
  BY DEF Login, Authenticate, Logout, Expire, RestartServer
<1>2. \A t \in Tab : request'[t] = request[t] \/ request'[t].at = "none"
  BY DEF Login, Authenticate, Logout, Expire, RestartServer, Away
<1>3. QED BY <1>1, <1>2, UsersStay

-----------------------------------------------------------------------------
(* Types, step by step. *)

\* Everything is in its type at first.
LEMMA SignTypedInit == SignInInit => SignTyped
BY DEF SignInInit, SignTyped, None

\* A request's steps keep types.
LEMMA GoingTyped ==
    ASSUME SignTyped, GrantsSound, NEW t \in Tab, Going(t) PROVE SignTyped'
<1>1. UNCHANGED <<auth, begun, asked, sessionCookie, states>>
  BY DEF Going, DecideGrant, CallFails, DeleteSession, LookUpIdentity, InsertIdentity, CommitIdentity
<1>2. request' \in [Tab -> {Away} \cup Requested]
  <2>1. /\ Under(t) => Agreed(request[t].file, request[t].type, request[t].who)
        /\ request[t].at = "decide" => request[t].type # "local"
    BY DEF GrantsSound, Under
  <2>2. (\A u \in Tab \ {t} : request'[u] = request[u]) /\ (request'[t] = Away \/ SameSignIn(t))
    BY <2>1, GoingOn
  <2>3. \E r : request' = [request EXCEPT ![t] = r]
    BY DEF Going, DecideGrant, CallFails, DeleteSession, LookUpIdentity, InsertIdentity, CommitIdentity, Step, Answer
  <2>4. QED BY <2>2, <2>3 DEF SignTyped, SameSignIn
<1>3. identities' \in [Identity -> Nat] /\ people' \subseteq Nat
  <2>1. CASE CommitIdentity(t)
    <3>1. Under(t) BY <2>1 DEF CommitIdentity, Under
    <3>2. request[t].user \in Nat /\ IdentityOf(t) \in Identity BY <3>1, UnderWay, IdentityStays DEF Requested
    <3>3. QED BY <2>1, <3>2 DEF CommitIdentity, SignTyped
  <2>2. CASE ~CommitIdentity(t)
    <3>1. identities' = identities /\ people' = people
      BY <2>2 DEF Going, DecideGrant, CallFails, DeleteSession, LookUpIdentity, InsertIdentity
    <3>2. QED BY <3>1 DEF SignTyped
  <2>3. QED BY <2>1, <2>2
<1>4. QED BY <1>1, <1>2, <1>3 DEF SignTyped

\* So does one that comes.
LEMMA ComingTypes ==
    ASSUME SignTyped, LoginsApart, NEW t \in Tab, NEW s \in Server, NEW b \in Browser,
           LocalSignIn(t, s, b) \/ \E n \in 1..begun : ConsumeLoginState(t, s, b, n)
    PROVE  SignTyped'
<1>1. UNCHANGED <<auth, sessionCookie, identities, people>> /\ states' \subseteq states
  BY DEF LocalSignIn, ConsumeLoginState
<1>2. begun' \in Nat /\ asked' \in Seq(Person \cup {Admin, NoOne}) /\ Len(asked') = begun'
  <2>1. \/ begun' = begun /\ asked' = asked
        \/ begun' = begun + 1 /\ asked' = Append(asked, Admin)
    BY DEF LocalSignIn, ConsumeLoginState
  <2>2. CASE begun' = begun /\ asked' = asked BY <2>2 DEF SignTyped
  <2>3. CASE begun' = begun + 1 /\ asked' = Append(asked, Admin)
    <3> DEFINE S == Person \cup {Admin, NoOne}
    <3>1. asked \in Seq(S) /\ Admin \in S /\ begun \in Nat /\ Len(asked) = begun BY DEF SignTyped
    <3> HIDE DEF S
    <3>2. Append(asked, Admin) \in Seq(S) /\ Len(Append(asked, Admin)) = begun + 1 BY <3>1
    <3>3. QED BY <2>3, <3>1, <3>2 DEF S
  <2>4. QED BY <2>1, <2>2, <2>3
<1>3. request' \in [Tab -> {Away} \cup Requested]
  <2>1. CASE request' = request BY <2>1 DEF SignTyped
  <2>2. CASE LocalSignIn(t, s, b)
    <3>1. request'[t] \in Requested /\ \A u \in Tab \ {t} : request'[u] = request[u] BY <2>2, LocalRequest
    <3>2. \E r : request' = [request EXCEPT ![t] = r] BY <2>2 DEF LocalSignIn, Step
    <3>3. QED BY <3>1, <3>2 DEF SignTyped
  <2>3. CASE request' # request /\ \E n \in 1..begun : ConsumeLoginState(t, s, b, n)
    <3>1. PICK n \in 1..begun : ConsumeLoginState(t, s, b, n) BY <2>3
    <3>2. /\ Step(t, Coming(s, b, n, asked[n], auth[s].type))
          /\ asked[n] \in Person /\ auth[s].type \in SignInType
      BY <2>3, <3>1, ConsumedRequest DEF SignInType
    <3>3. n \in Nat BY DEF SignTyped
    <3>4. Coming(s, b, n, asked[n], auth[s].type) \in Requested BY <3>2, <3>3, ComingTyped
    <3>5. QED BY <3>2, <3>4, StepAlone
  <2>4. QED BY <2>1, <2>2, <2>3
<1>4. QED BY <1>1, <1>2, <1>3 DEF SignTyped

\* So does the session it starts.
LEMMA SessionTyped ==
    ASSUME SignTyped, NEW t \in Tab, CreateSession(t), IsFiniteSet(issued) PROVE SignTyped'
<1>1. UNCHANGED <<auth, states, begun, asked, identities, people>> /\ Step(t, Away)
  BY DEF CreateSession, Answer
<1>2. request' \in [Tab -> {Away} \cup Requested] BY <1>1, StepAlone
<1>3. sessionCookie' \in [Browser -> Nat]
  <2>1. Cardinality(issued) \in Nat BY FS_CardinalityType
  <2>2. QED BY <2>1 DEF CreateSession, SignTyped
<1>4. QED BY <1>1, <1>2, <1>3 DEF SignTyped

\* So does the rest.
LEMMA OtherTyped ==
    ASSUME SignTyped,
           \/ \E s \in Server, b \in Browser : Login(s, b)
           \/ \E n \in 1..begun, p \in Person : Authenticate(n, p)
           \/ \E b \in Browser : Logout(b)
           \/ Expire \/ \E s \in Server : RestartServer(s)
    PROVE  SignTyped'
<1>1. ASSUME NEW s \in Server, NEW b \in Browser, Login(s, b) PROVE SignTyped'
  BY <1>1 DEF Login, SignTyped
<1>2. ASSUME NEW n \in 1..begun, NEW p \in Person, Authenticate(n, p) PROVE SignTyped'
  BY <1>2 DEF Authenticate, SignTyped
<1>3. ASSUME NEW b \in Browser, Logout(b) PROVE SignTyped'
  BY <1>3 DEF Logout, SignTyped
<1>4. CASE Expire BY <1>4 DEF Expire, SignTyped
<1>5. ASSUME NEW s \in Server, RestartServer(s) PROVE SignTyped'
  BY <1>5 DEF RestartServer, SignTyped
<1>6. QED BY <1>1, <1>2, <1>3, <1>4, <1>5

-----------------------------------------------------------------------------
(* Theorems. *)

\* The invariant holds at first, and every step keeps it.
LEMMA SignInInitSound == SignInInit => SignInSound
<1> SUFFICES ASSUME SignInInit PROVE SignInSound OBVIOUS
<1>1. \A t \in Tab : request[t].at = "none" BY DEF SignInInit, Away
<1>2. LoginsApart BY <1>1 DEF SignInInit, LoginsApart, StatesCompleteOnce, Under
<1>3. UsersApart BY <1>1 DEF SignInInit, UsersApart, OneUserPerIdentity, Making
<1>4. GrantsSound BY <1>1 DEF SignInInit, GrantsSound, Under
<1>5. IsFiniteSet(issued) BY FS_EmptySet DEF SignInInit
<1>6. QED BY <1>2, <1>3, <1>4, <1>5, SignTypedInit DEF SignInSound

LEMMA SignInNextSound == SignInSound /\ [SignInNext]_signInVars => SignInSound'
<1>1. ASSUME SignInSound, NEW t \in Tab, Going(t) PROVE SignInSound'
  <2>1. issued' = issued
    BY <1>1 DEF Going, DecideGrant, CallFails, DeleteSession, LookUpIdentity, InsertIdentity, CommitIdentity
  <2>2. QED BY <1>1, <2>1, GoingTyped, GoingLogins, GoingUsers, GoingGrants DEF SignInSound
<1>2. ASSUME SignInSound, NEW t \in Tab, NEW s \in Server, NEW b \in Browser,
             LocalSignIn(t, s, b) \/ \E n \in 1..begun : ConsumeLoginState(t, s, b, n)
      PROVE  SignInSound'
  <2>1. issued' = issued BY <1>2 DEF LocalSignIn, ConsumeLoginState
  <2>2. QED BY <1>2, <2>1, ComingTypes, ComingLogins, ComingUsers, ComingGrants DEF SignInSound
<1>3. ASSUME SignInSound, NEW t \in Tab, CreateSession(t) PROVE SignInSound'
  <2>1. IsFiniteSet(issued') BY <1>3, FS_AddElement DEF SignInSound, CreateSession
  <2>2. QED BY <1>3, <2>1, SessionTyped, SessionLogins, SessionUsers, SessionGrants DEF SignInSound
<1>4. ASSUME SignInSound,
             \/ \E s \in Server, b \in Browser : Login(s, b)
             \/ \E n \in 1..begun, p \in Person : Authenticate(n, p)
             \/ \E b \in Browser : Logout(b)
             \/ Expire \/ \E s \in Server : RestartServer(s)
      PROVE  SignInSound'
  <2>1. issued' = issued BY <1>4 DEF Login, Authenticate, Logout, Expire, RestartServer
  <2>2. LoginsApart' BY <1>4, LoginLogins, AuthenticateLogins, EndingLogins DEF SignInSound
  <2>3. QED BY <1>4, <2>1, <2>2, OtherTyped, OtherUsers, OtherGrants DEF SignInSound
<1>5. ASSUME SignInSound,
             UNCHANGED <<auth, states, begun, asked, sessionCookie, sessions, identities, people, request, issued>>
      PROVE  SignInSound'
  BY <1>5 DEF SignInSound, SignTyped, LoginsApart, StatesCompleteOnce, UsersApart, OneUserPerIdentity,
    GrantsSound, Under, Making, IdentityOf
<1>6. QED BY <1>1, <1>2, <1>3, <1>4, <1>5 DEF SignInNext, Going, RefuseCallback, signInVars

LEMMA SignInInvariant == SignInSpec => []SignInSound
BY SignInInitSound, SignInNextSound, PTL DEF SignInSpec

\* A person has one user for an identity, and a login starts one session,
\* however many sign-ins run at once, on whichever replicas, and fail.
THEOREM OneUserOneSession == SignInSpec => []SignInsAreSingle
<1>1. SignInSound => SignInsAreSingle BY DEF SignInSound, LoginsApart, UsersApart, SignInsAreSingle
<1>2. QED BY <1>1, SignInInvariant, PTL

\* A replica lets a session do no more than its own file grants the person,
\* whichever file the session was granted under.
THEOREM NoGrantOutlivesItsFile == SignInSpec => []GrantsFollowTheFile
<1>1. SignInSound => GrantsFollowTheFile
  <2> SUFFICES ASSUME SignInSound, NEW s \in Server, NEW x \in sessions, Honoured(auth[s], x)
               PROVE LET later == IF x.who = Admin THEN [NoGrant EXCEPT !.admin = TRUE] ELSE Decide(auth[s], x.who)
                     IN (x.grant.admin => later.admin) /\ CanRead(auth[s], x.grant) \subseteq CanRead(auth[s], later)
    BY DEF GrantsFollowTheFile
  <2>1. PICK f \in AuthFiles : /\ Agreed(f, x.type, x.who) /\ x.key = GrantKey(f, x.type)
                               /\ x.grant = Granted(f, x.type, x.who)
    BY DEF SignInSound, GrantsSound
  <2>2. auth[s] \in AuthFiles BY DEF SignInSound, SignTyped
  <2>3. CASE x.type = "local"
    <3>1. x.who = Admin /\ x.grant = [NoGrant EXCEPT !.admin = TRUE] BY <2>1, <2>3 DEF Agreed, Granted
    <3>2. QED BY <3>1 DEF NoGrant
  <2>4. CASE x.type # "local"
    <3>1. x.who # Admin /\ x.who \in Person /\ x.type \in {"oidc", "github"} /\ x.grant = Decide(f, x.who)
      BY <2>1, <2>4 DEF Agreed, Granted, SignInType
    <3>2. Configured(f, x.type) /\ Configured(auth[s], x.type) /\ GrantKey(f, x.type) = GrantKey(auth[s], x.type)
      BY <2>1 DEF Agreed, Honoured
    <3>3. QED BY <2>2, <3>1, <3>2, SameKeySameWord
  <2>5. QED BY <2>3, <2>4
<1>2. QED BY <1>1, SignInInvariant, PTL

-----------------------------------------------------------------------------
(* What is counted: cookies, sessions and users. *)

Counted ==
    /\ loginCookie \in [Browser -> 0..begun]
    /\ sessionCookie \in [Browser -> 0..Cardinality(issued)]
    /\ \A x \in sessions : x.user \in people /\ x.grant \in Grant /\ x.number \in 1..Cardinality(issued)
    /\ identities \in [Identity -> people \cup {None}] /\ None \notin people
    /\ hitches \in SignInBound

LEMMA HitchTyped == ASSUME hitches \in SignInBound, NEW what, Hitch(what) PROVE hitches' \in SignInBound
BY DEF Hitch, SignInBound

\* The answer's browser has a cookie that may be cleared.
LEMMA AnswerCounted ==
    ASSUME SignTyped, Counted, NEW t \in Tab, Under(t), Answer(t)
    PROVE  loginCookie' \in [Browser -> 0..begun]
<1>1. request[t].browser \in Browser BY UnderWay DEF Requested
<1>2. loginCookie[request[t].browser] \in 0..begun /\ 0 \in 0..begun BY <1>1 DEF Counted, SignTyped
<1>3. QED BY <1>1, <1>2 DEF Answer, Counted

LEMMA GoingCounted ==
    ASSUME SignInSound, Counted, NEW t \in Tab, Going(t) PROVE Counted'
<1>1. /\ UNCHANGED <<begun, sessionCookie, issued>> /\ Under(t)
      /\ SignTyped /\ UsersApart /\ GrantsSound
  BY DEF Going, DecideGrant, CallFails, DeleteSession, LookUpIdentity, InsertIdentity, CommitIdentity, Under, SignInSound
<1>2. loginCookie' \in [Browser -> 0..begun] /\ hitches' \in SignInBound
  <2>1. /\ Answer(t) \/ UNCHANGED loginCookie
        /\ UNCHANGED hitches \/ Hitch("faults")
    BY DEF Going, DecideGrant, CallFails, DeleteSession, LookUpIdentity, InsertIdentity, CommitIdentity
  <2>2. QED BY <1>1, <2>1, AnswerCounted, HitchTyped DEF Counted
<1>3. CASE CommitIdentity(t)
  <2>1. IdentityOf(t) \in Identity /\ request[t].user \in Nat /\ request[t].user \notin people \cup {None}
    BY <1>1, <1>3, UnderWay, IdentityStays DEF CommitIdentity, UsersApart, Making, Requested
  <2>2. identities' \in [Identity -> people' \cup {None}]
    <3>1. identities \in [Identity -> people' \cup {None}] BY <1>3 DEF CommitIdentity, Counted
    <3>2. QED BY <1>3, <2>1, <3>1 DEF CommitIdentity
  <2>3. people \subseteq people' /\ None \notin people' /\ sessions' = sessions
    BY <1>3, <2>1 DEF CommitIdentity, Counted
  <2>4. QED BY <1>1, <1>2, <2>2, <2>3 DEF Counted
<1>4. CASE ~CommitIdentity(t)
  <2>1. UNCHANGED <<identities, people>> /\ sessions' \subseteq sessions
    BY <1>4 DEF Going, DecideGrant, CallFails, DeleteSession, LookUpIdentity, InsertIdentity
  <2>2. QED BY <1>1, <1>2, <2>1 DEF Counted
<1>5. QED BY <1>3, <1>4

\* A session's number is the next: no issued one has its login.
LEMMA SessionCounted ==
    ASSUME SignInSound, Counted, NEW t \in Tab, CreateSession(t) PROVE Counted'
<1> DEFINE r == request[t]
           number == Cardinality(issued) + 1
           new == [number |-> number, login |-> r.login, browser |-> r.browser]
           session == [number |-> number, user |-> r.user, who |-> r.who, type |-> r.type,
                       origin |-> PointsAt(r.file, r.type), key |-> GrantKey(r.file, r.type), grant |-> r.grant]
<1>1. /\ SignTyped /\ LoginsApart /\ UsersApart /\ GrantsSound /\ IsFiniteSet(issued) /\ Under(t) /\ r.at = "start"
      /\ UNCHANGED <<begun, identities, people>> /\ Answer(t)
  BY DEF SignInSound, CreateSession, Under
<1>2. r \in Requested BY <1>1, UnderWay
<1>3. Cardinality(issued) \in Nat /\ Cardinality(issued') = number
  <2>1. new \notin issued BY <1>1 DEF LoginsApart
  <2>2. issued' = issued \cup {new} BY DEF CreateSession
  <2>3. QED BY <1>1, <2>1, <2>2, FS_AddElement, FS_CardinalityType
<1>4. r.user \in people
  <2>1. IdentityOf(t) \in Identity BY <1>1, IdentityStays
  <2>2. QED BY <1>1, <2>1 DEF UsersApart, Counted
<1>5. sessionCookie' \in [Browser -> 0..Cardinality(issued')] /\ hitches' \in SignInBound
  <2>1. sessionCookie \in [Browser -> 0..number] /\ number \in 0..number BY <1>3 DEF Counted
  <2>2. \/ sessionCookie' = [sessionCookie EXCEPT ![r.browser] = number] /\ UNCHANGED hitches
        \/ UNCHANGED sessionCookie /\ Hitch("faults")
    BY DEF CreateSession
  <2>3. QED BY <1>3, <2>1, <2>2, HitchTyped DEF Counted
<1>6. ASSUME NEW x \in sessions'
      PROVE  x.user \in people /\ x.grant \in Grant /\ x.number \in 1..Cardinality(issued')
  <2>1. x \in sessions \/ x = session BY <1>6 DEF CreateSession
  <2>2. session.user = r.user /\ session.grant = r.grant /\ session.number = number OBVIOUS
  <2>3. QED BY <1>2, <1>3, <1>4, <2>1, <2>2 DEF Counted, Requested
<1>7. QED BY <1>1, <1>5, <1>6, AnswerCounted DEF Counted

LEMMA CountedInit == SignInInit => Counted
<1> SUFFICES ASSUME SignInInit PROVE Counted OBVIOUS
<1>1. Cardinality(issued) = 0 BY FS_EmptySet DEF SignInInit
<1>2. QED BY <1>1, SignInAssumption DEF SignInInit, Counted

LEMMA CountedNext == SignInSound /\ Counted /\ [SignInNext]_signInVars => Counted'
<1> SUFFICES ASSUME SignInSound, Counted, [SignInNext]_signInVars PROVE Counted' OBVIOUS
<1>1. SignTyped BY DEF SignInSound
<1>2. ASSUME NEW s \in Server, NEW b \in Browser, Login(s, b) PROVE Counted'
  <2>1. loginCookie \in [Browser -> 0..begun'] /\ begun + 1 \in 0..begun'
    BY <1>1, <1>2 DEF Login, Counted, SignTyped
  <2>2. QED BY <1>2, <2>1, HitchTyped DEF Login, Counted
<1>3. ASSUME NEW n \in 1..begun, NEW p \in Person, Authenticate(n, p) PROVE Counted'
  BY <1>3 DEF Authenticate, Counted
<1>4. ASSUME NEW t \in Tab, NEW s \in Server, NEW b \in Browser, LocalSignIn(t, s, b) PROVE Counted'
  <2>1. loginCookie \in [Browser -> 0..begun'] BY <1>1, <1>4 DEF LocalSignIn, Counted, SignTyped
  <2>2. QED BY <1>4, <2>1, HitchTyped DEF LocalSignIn, Counted
<1>5. ASSUME NEW t \in Tab, NEW s \in Server, NEW b \in Browser, NEW n \in 1..begun, ConsumeLoginState(t, s, b, n)
      PROVE  Counted'
  <2>1. 0 \in 0..begun BY <1>1 DEF SignTyped
  <2>2. QED BY <1>5, <2>1 DEF ConsumeLoginState, Counted
<1>11. ASSUME NEW b \in Browser, NEW n \in 1..begun, RefuseCallback(b, n) PROVE Counted'
  <2>1. 0 \in 0..begun BY <1>1 DEF SignTyped
  <2>2. QED BY <1>11, <2>1 DEF RefuseCallback, Counted
<1>6. ASSUME NEW b \in Browser, Logout(b) PROVE Counted'
  <2>1. Cardinality(issued) \in Nat /\ issued' = issued
    BY <1>6, FS_CardinalityType DEF SignInSound, Logout
  <2>2. QED BY <1>6, <2>1 DEF Logout, Counted
<1>7. CASE Expire BY <1>7, HitchTyped DEF Expire, Counted
<1>8. ASSUME NEW s \in Server, RestartServer(s) PROVE Counted' BY <1>8, HitchTyped DEF RestartServer, Counted
<1>9. CASE UNCHANGED signInVars BY <1>9 DEF signInVars, Counted
<1>10. QED BY <1>2, <1>3, <1>4, <1>5, <1>6, <1>7, <1>8, <1>9, <1>11, GoingCounted, SessionCounted DEF SignInNext, Going

LEMMA SignInTypes == SignInSound /\ Counted => SignInTypeOK
<1> SUFFICES ASSUME SignInSound, Counted PROVE SignInTypeOK OBVIOUS
<1>1. asked \in [1..begun -> Person \cup {Admin, NoOne}] BY DEF SignInSound, SignTyped
<1>2. \A t \in Tab : request[t].at \in {"none", "decide", "end", "look", "make", "commit", "start"}
  BY DEF SignInSound, SignTyped, Requested, Away
<1>3. \A s \in states : s.login \in 1..begun /\ s.browser \in Browser
  BY DEF SignInSound, SignTyped, LoginsApart
<1>4. QED BY <1>1, <1>2, <1>3 DEF SignInTypeOK, SignInSound, SignTyped, Counted

\* Cookies, states, sessions, users and requests keep their types: among
\* others a session's user is one there is, and its number one that was issued.
THEOREM SignInIsTyped == SignInSpec => []SignInTypeOK
BY SignInInitSound, SignInNextSound, CountedInit, CountedNext, SignInTypes, PTL DEF SignInSpec

-----------------------------------------------------------------------------
(***************************************************************************)
(* A rollout loses nothing, for every set of pods, every number of         *)
(* replicas, rollouts and outages, and all durations that the assumption   *)
(* relates.                                                                *)
(*                                                                         *)
(* What comes in: a pod that is routed to serves the webhooks, because one *)
(* that was told to stop is routed to for less long than its listeners     *)
(* linger (RoutedServe), and once a pod was ready there is a ready one at  *)
(* every moment, since none is terminated before another is (SomeReady).   *)
(* What is under way: how long a pod has been stopping is at most what a   *)
(* model step may still take there, and every bound at which a process     *)
(* ends is beyond that (StepInTime); of a cut job it is the drain and what *)
(* the job has had since, which is the headroom when its pod goes          *)
(* (JobInTime).                                                            *)
(***************************************************************************)
Pods == [phase : {"absent", "booting", "opening", "starting", "serving"},
         version : Nat, loads : BOOLEAN, public : {"closed", "starting", "service"},
         queue : {"waiting", "working", "stopped"}, stopped : OnTime .. Grace]

RolloutTyped ==
    /\ RolloutTypeOK
    /\ wanted \in [version : Nat, loads : BOOLEAN]
    /\ database \in [up : BOOLEAN, schema : BOOLEAN]
    /\ job \in [at : Pod \cup {NoPod}, cut : Nat \cup {OnTime}]
    /\ step \in [at : Pod \cup {NoPod}, age : 0 .. StepMost]
    /\ \A p \in Pod : pods[p].phase = "absent" => pods[p].queue = "stopped" /\ pods[p].public = "closed"

\* A pod that is open serves the webhooks until it closes, past its linger;
\* one that is routed to serves, and is not told to stop for longer than the lag.
Open(p) ==
    pods[p].phase \in {"starting", "serving"} =>
        pods[p].public = "service" \/ pods[p].stopped >= Linger
RoutedServe ==
    \A p \in routed : pods[p].phase = "serving" /\ pods[p].stopped <= RouteLag

\* From the first ready pod on there is one at every moment, and one routed to.
SomeReady == past.served => ReadyPods # {} /\ routed # {}

\* A pod has not been stopping for longer than its step's age, or its job's cut,
\* accounts for; and a job without its pod was cut and had the headroom.
StepInTime ==
    step.at # NoPod => pods[step.at].phase # "absent" /\ pods[step.at].stopped < Linger + step.age
JobTimed(pod) ==
    IF pod.phase = "absent" THEN job.cut # OnTime /\ job.cut >= Headroom
    ELSE /\ job.cut = OnTime => pod.stopped <= QueueDrain
         /\ job.cut # OnTime => pod.stopped = QueueDrain + job.cut
JobInTime ==
    /\ job.at = NoPod => job.cut = OnTime
    /\ job.at # NoPod => JobTimed(pods[job.at])

RolloutSound ==
    ~past.died => /\ \A p \in Pod : Open(p)
                  /\ RoutedServe /\ SomeReady /\ StepInTime /\ JobInTime

RolloutIInv == RolloutTyped /\ RolloutSound

-----------------------------------------------------------------------------
\* What becomes of a pod.

Field == {"phase", "version", "loads", "public", "queue", "stopped"}
Merged(r, c) == [k \in DOMAIN r |-> IF k \in DOMAIN c THEN c[k] ELSE r[k]]

LEMMA BecomesPod ==
    ASSUME RolloutTyped, NEW p \in Pod, NEW c, Becomes(p, c), Merged(pods[p], c) \in Pods
    PROVE  /\ pods' \in [Pod -> Pods] /\ pods'[p] = Merged(pods[p], c)
           /\ \A q \in Pod \ {p} : pods'[q] = pods[q]
BY DEF RolloutTyped, RolloutTypeOK, Becomes, Merged, Pods

LEMMA PodsTyped == RolloutTyped => pods \in [Pod -> Pods]
BY DEF RolloutTyped, RolloutTypeOK, Pods

LEMMA Durations ==
    /\ RouteLag \in Nat /\ Linger \in Nat /\ StepDrain \in Nat /\ StepMost \in Nat /\ QueueDrain \in Nat
    /\ Headroom \in Nat /\ Grace \in Nat
    /\ RouteLag < Linger /\ Headroom > 0 /\ StepMost <= StepDrain
    /\ Grace >= QueueDrain + Headroom /\ Grace >= Linger + StepDrain
BY RolloutAssumption

LEMMA AbsentPod == Absent \in Pods
BY Durations DEF Absent, Pods, OnTime

\* A step that changes pod p, and no traffic.
LEMMA PodTyped ==
    ASSUME RolloutTyped, NEW p \in Pod, NEW c, Becomes(p, c), NEW n \in Pods, Merged(pods[p], c) = n,
           n.phase = "absent" => n.queue = "stopped" /\ n.public = "closed",
           UNCHANGED <<routed, wanted, database, job, step, past>>
    PROVE  RolloutTyped'
<1>1. pods' \in [Pod -> Pods] /\ pods'[p] = n /\ \A q \in Pod \ {p} : pods'[q] = pods[q]
    BY BecomesPod
<1>2. \A q \in Pod : pods'[q].phase = "absent" => pods'[q].queue = "stopped" /\ pods'[q].public = "closed"
    BY <1>1 DEF RolloutTyped
<1>3. RolloutTypeOK'
    BY <1>1 DEF RolloutTyped, RolloutTypeOK, Pods
<1> QED BY <1>2, <1>3 DEF RolloutTyped

LEMMA PodSound ==
    ASSUME RolloutIInv, NEW p \in Pod, NEW n \in Pods, pods'[p] = n, \A q \in Pod \ {p} : pods'[q] = pods[q],
           UNCHANGED <<routed, job, step, past>>,
           ~past.died =>
             /\ n.phase \in {"starting", "serving"} => n.public = "service" \/ n.stopped >= Linger
             /\ p \in routed => n.phase = "serving" /\ n.stopped <= RouteLag
             /\ p \in ReadyPods => (n.phase = "serving" /\ n.stopped = OnTime) \/ ReadyPods \ {p} # {}
             /\ step.at = p => n.phase # "absent" /\ n.stopped < Linger + step.age
             /\ job.at = p => JobTimed(n)
    PROVE  RolloutSound'
<1> SUFFICES ASSUME ~past.died PROVE /\ \A q \in Pod : Open(q)'
                                     /\ RoutedServe' /\ SomeReady' /\ StepInTime' /\ JobInTime'
    BY DEF RolloutSound
<1>1. /\ \A q \in Pod : Open(q)
      /\ RoutedServe /\ SomeReady /\ StepInTime /\ JobInTime
    BY DEF RolloutIInv, RolloutSound
<1>2. routed \subseteq Pod /\ job.at \in Pod \cup {NoPod} /\ step.at \in Pod \cup {NoPod}
    BY DEF RolloutIInv, RolloutTyped, RolloutTypeOK
<1>3. \A q \in Pod : Open(q)'
    BY <1>1 DEF Open
<1>4. RoutedServe'
    BY <1>1, <1>2 DEF RoutedServe
<1>5. ReadyPods # {} => ReadyPods' # {}
  <2> SUFFICES ASSUME NEW q \in ReadyPods PROVE ReadyPods' # {}
      OBVIOUS
  <2>1. \A x \in ReadyPods \ {p} : x \in ReadyPods'
      BY DEF ReadyPods, LivePods, Live, Ready, Stopping
  <2>2. n.phase = "serving" /\ n.stopped = OnTime => p \in ReadyPods'
      BY DEF ReadyPods, LivePods, Live, Ready, Stopping
  <2> QED BY <2>1, <2>2
<1>6. SomeReady'
    BY <1>1, <1>5 DEF SomeReady
<1>7. StepInTime'
    BY <1>1, <1>2, PodAssumption DEF StepInTime
<1>8. JobInTime'
    BY <1>1, <1>2, PodAssumption DEF JobInTime, JobTimed
<1> QED BY <1>3, <1>4, <1>6, <1>7, <1>8

\* Pods stay as they are.
LEMMA SamePods ==
    ASSUME RolloutSound, UNCHANGED <<pods, past>>,
           routed' = routed \/ (~past.died => RoutedServe' /\ SomeReady'), UNCHANGED job \/ (~past.died => JobInTime'),
           UNCHANGED step \/ (~past.died => StepInTime')
    PROVE  RolloutSound'
BY DEF RolloutSound, Open, RoutedServe, SomeReady, StepInTime, JobInTime, JobTimed, ReadyPods, LivePods, Live, Ready, Stopping

LEMMA InitSound == RolloutInit => RolloutIInv
<1> SUFFICES ASSUME RolloutInit PROVE RolloutIInv
    OBVIOUS
<1>1. RolloutTyped
  <2>1. pods \in [Pod -> Pods]
      BY AbsentPod DEF RolloutInit
  <2>2. RolloutTypeOK
      BY <2>1 DEF RolloutInit, RolloutTypeOK, Pods
  <2>3. \A p \in Pod : pods[p].phase = "absent" => pods[p].queue = "stopped" /\ pods[p].public = "closed"
      BY DEF RolloutInit, Absent
  <2> QED BY <2>2, <2>3, Durations DEF RolloutInit, RolloutTyped, OnTime
<1>2. RolloutSound
    BY DEF RolloutInit, RolloutSound, Open, RoutedServe, SomeReady, StepInTime, JobInTime, Absent
<1> QED BY <1>1, <1>2 DEF RolloutIInv

-----------------------------------------------------------------------------
\* Kubernetes.

LEMMA CreateInv == ASSUME RolloutIInv, NEW p \in Pod, Create(p) PROVE RolloutIInv'
<1> DEFINE n == [Absent EXCEPT !.phase = "booting", !.version = wanted.version, !.loads = wanted.loads]
<1>1. pods[p] \in Pods /\ RolloutTyped /\ n \in Pods /\ n.phase = "booting" /\ n.stopped = OnTime
    BY PodsTyped, AbsentPod DEF RolloutIInv, RolloutTyped, Absent, Pods
<1>2. Merged(pods[p], n) = n
    BY <1>1 DEF Merged, Pods, Absent
<1>3. Becomes(p, n) /\ pods[p].phase = "absent" /\ p \notin routed \cup {job.at, step.at} /\ UNCHANGED <<routed, wanted, database, job, step, past>>
    BY DEF Create, World, Traffic
<1> HIDE DEF n
<1>4. RolloutTyped' /\ pods'[p] = n /\ \A q \in Pod \ {p} : pods'[q] = pods[q]
    BY <1>1, <1>2, <1>3, PodTyped, BecomesPod
<1>5. p \notin ReadyPods
    BY <1>3 DEF ReadyPods, Ready
<1> QED BY <1>1, <1>3, <1>4, <1>5, PodSound DEF RolloutIInv

LEMMA TerminateInv == ASSUME RolloutIInv, NEW p \in Pod, Terminate(p) PROVE RolloutIInv'
<1> DEFINE n == Merged(pods[p], [stopped |-> 0])
<1>1. pods[p] \in Pods /\ RolloutTyped
    BY PodsTyped DEF RolloutIInv
<1>2. n \in Pods /\ n.phase = pods[p].phase /\ n.public = pods[p].public /\ n.queue = pods[p].queue /\ n.stopped = 0
    BY <1>1, Durations DEF Merged, Pods, OnTime
<1>3. /\ Becomes(p, [stopped |-> 0]) /\ pods[p].phase # "absent" /\ pods[p].stopped = OnTime
      /\ UNCHANGED <<routed, wanted, database, job, step, past>>
    BY DEF Terminate, World, Traffic, Live, Stopping
<1>4. RolloutTyped' /\ pods'[p] = n /\ \A q \in Pod \ {p} : pods'[q] = pods[q]
  <2> HIDE DEF n
  <2> QED BY <1>1, <1>2, <1>3, PodTyped, BecomesPod DEF RolloutTyped, n
<1>5. p \in ReadyPods => ReadyPods \ {p} # {}
  <2>1. Ready(p) => Cardinality(ReadyPods \ {p}) >= Replicas
      BY DEF Terminate
  <2> QED BY <2>1, RolloutAssumption, FS_EmptySet DEF ReadyPods
<1>6. ~past.died =>
             /\ n.phase \in {"starting", "serving"} => n.public = "service" \/ n.stopped >= Linger
             /\ p \in routed => n.phase = "serving" /\ n.stopped <= RouteLag
             /\ step.at = p => n.stopped < Linger + step.age
             /\ job.at = p => JobTimed(n)
  <2> SUFFICES ASSUME ~past.died PROVE
             /\ n.phase \in {"starting", "serving"} => n.public = "service" \/ n.stopped >= Linger
             /\ p \in routed => n.phase = "serving" /\ n.stopped <= RouteLag
             /\ step.at = p => n.stopped < Linger + step.age
             /\ job.at = p => JobTimed(n)
      OBVIOUS
  <2>1. Open(p) /\ RoutedServe /\ StepInTime /\ JobInTime /\ step.age \in Nat /\ job.cut \in Nat \cup {OnTime}
      BY DEF RolloutIInv, RolloutSound, RolloutTyped
  <2>2. n.phase \in {"starting", "serving"} => n.public = "service"
      BY <1>2, <1>3, <2>1, Durations DEF Open, OnTime
  <2>3. p \in routed => n.phase = "serving" /\ n.stopped <= RouteLag
      BY <1>2, <2>1, Durations DEF RoutedServe
  <2>4. n.stopped < Linger + step.age
      BY <1>2, <2>1, Durations
  <2>5. job.at = p => JobTimed(n)
      BY <1>2, <1>3, <2>1, Durations, PodAssumption DEF JobInTime, JobTimed, OnTime
  <2> QED BY <2>2, <2>3, <2>4, <2>5
<1> HIDE DEF n
<1> QED BY <1>2, <1>3, <1>4, <1>5, <1>6, PodSound DEF RolloutIInv

LEMMA RouteInv == ASSUME RolloutIInv, Route PROVE RolloutIInv'
<1>1. /\ routed' = ReadyPods /\ past' = [past EXCEPT !.served = @ \/ ReadyPods # {}]
      /\ UNCHANGED <<pods, job, step, wanted, database>>
    BY DEF Route, World
<1>2. past \in [served : BOOLEAN, died : BOOLEAN]
    BY DEF RolloutIInv, RolloutTyped, RolloutTypeOK
<1>3. past'.died = past.died /\ (past'.served <=> past.served \/ ReadyPods # {}) /\ past' \in [served : BOOLEAN, died : BOOLEAN]
    BY <1>1, <1>2
<1>4. ReadyPods' = ReadyPods /\ ReadyPods \subseteq Pod
    BY <1>1 DEF ReadyPods, LivePods, Live, Ready, Stopping
<1>5. RolloutTyped'
    BY <1>1, <1>3, <1>4 DEF RolloutIInv, RolloutTyped, RolloutTypeOK
<1>6. RoutedServe'
  <2> SUFFICES ASSUME NEW p \in ReadyPods PROVE pods[p].phase = "serving" /\ pods[p].stopped <= RouteLag
      BY <1>1 DEF RoutedServe
  <2> QED BY Durations DEF ReadyPods, LivePods, Live, Ready, Stopping, OnTime
<1>7. ASSUME ~past.died PROVE SomeReady'
    BY <1>1, <1>3, <1>4, <1>7 DEF RolloutIInv, RolloutSound, SomeReady
<1>8. RolloutSound'
    BY <1>1, <1>3, <1>6, <1>7 DEF RolloutIInv, RolloutSound, Open, StepInTime, JobInTime, JobTimed
<1> QED BY <1>5, <1>8 DEF RolloutIInv

\* A pod that leaves answers no step, has given its job the headroom, is routed to
\* no more, and is not ready.
LEMMA GoneInv ==
    ASSUME RolloutIInv, NEW p \in Pod, Becomes(p, Absent), UNCHANGED <<routed, wanted, database, job, step, past>>,
           ~past.died => pods[p].stopped > RouteLag \/ p \notin routed,
           Stopping(p), ~past.died => step.at # p /\ (job.at = p => job.cut # OnTime /\ job.cut >= Headroom)
    PROVE  RolloutIInv'
<1>1. pods[p] \in Pods /\ RolloutTyped /\ Absent \in Pods
    BY PodsTyped, AbsentPod DEF RolloutIInv
<1>2. Merged(pods[p], Absent) = Absent
    BY <1>1 DEF Merged, Pods, Absent
<1>3. RolloutTyped' /\ pods'[p] = Absent /\ \A q \in Pod \ {p} : pods'[q] = pods[q]
    BY <1>1, <1>2, PodTyped, BecomesPod DEF Absent
<1>4. p \notin ReadyPods /\ (~past.died => p \notin routed)
    BY <1>1, Durations DEF ReadyPods, LivePods, Live, RolloutIInv, RolloutSound, RoutedServe, Pods, OnTime
<1> QED BY <1>1, <1>3, <1>4, PodSound DEF RolloutIInv, Absent, JobTimed

LEMMA KillInv == ASSUME RolloutIInv, NEW p \in Pod, Kill(p) PROVE RolloutIInv'
<1>1. /\ pods[p].stopped = Grace /\ Becomes(p, Absent) /\ UNCHANGED <<routed, wanted, database, job, step, past>>
    BY DEF Kill, World, Traffic
<1>2. Stopping(p) /\ pods[p].stopped > RouteLag
    BY <1>1, Durations DEF Stopping, OnTime
<1>3. ASSUME ~past.died PROVE step.at # p /\ (job.at = p => job.cut # OnTime /\ job.cut >= Headroom)
  <2>1. StepInTime /\ JobInTime /\ step.age \in 0 .. StepMost /\ job.cut \in Nat \cup {OnTime}
      BY <1>3 DEF RolloutIInv, RolloutSound, RolloutTyped
  <2>2. step.at # p
      BY <1>1, <2>1, Durations, PodAssumption DEF StepInTime, OnTime
  <2>3. job.at = p => job.cut # OnTime /\ job.cut >= Headroom
      BY <1>1, <2>1, Durations, PodAssumption DEF JobInTime, JobTimed, OnTime
  <2> QED BY <2>2, <2>3
<1> QED BY <1>1, <1>2, <1>3, GoneInv

LEMMA ExitInv == ASSUME RolloutIInv, NEW p \in Pod, Exit(p) PROVE RolloutIInv'
<1>1. /\ Stopping(p) /\ (pods[p].public = "closed" \/ pods[p].phase = "opening")
      /\ StepsDrained(p) /\ QueuesStopped(p)
      /\ Becomes(p, Absent) /\ UNCHANGED <<routed, wanted, database, job, step, past>>
    BY DEF Exit, World, Traffic
<1>2. ASSUME ~past.died PROVE step.at # p /\ (job.at = p => job.cut # OnTime /\ job.cut >= Headroom)
  <2>1. StepInTime /\ JobInTime /\ step.age \in 0 .. StepMost /\ job.cut \in Nat \cup {OnTime}
      BY <1>2 DEF RolloutIInv, RolloutSound, RolloutTyped
  <2>2. pods[p].stopped \in OnTime .. Grace
      BY PodsTyped DEF RolloutIInv, Pods
  <2>3. step.at # p
      BY <1>1, <2>1, <2>2, Durations, PodAssumption DEF StepInTime, StepsDrained, OnTime
  <2>4. job.at = p => job.cut # OnTime /\ job.cut >= Headroom
      BY <1>1, <2>1, <2>2, Durations, PodAssumption DEF JobInTime, JobTimed, QueuesStopped, OnTime
  <2> QED BY <2>3, <2>4
<1>3. ASSUME ~past.died PROVE pods[p].stopped > RouteLag \/ p \notin routed
  <2>1. Open(p) /\ RoutedServe
      BY <1>3 DEF RolloutIInv, RolloutSound
  <2>2. pods[p].stopped \in OnTime .. Grace
      BY PodsTyped DEF RolloutIInv, Pods
  <2> QED BY <1>1, <2>1, <2>2, Durations DEF Open, RoutedServe, OnTime
<1> QED BY <1>1, <1>2, <1>3, GoneInv

LEMMA DiedSound == past'.died => RolloutSound'
BY DEF RolloutSound

\* A node that is lost, and a process that ends by itself.
LEMMA DieInv == ASSUME RolloutIInv, NEW p \in Pod, Die(p) \/ GiveUp(p) PROVE RolloutIInv'
<1>1. past \in [served : BOOLEAN, died : BOOLEAN] /\ past' = [past EXCEPT !.died = TRUE] /\ pods[p] \in Pods
    BY PodsTyped DEF Die, GiveUp, Dies, RolloutIInv, RolloutTyped, RolloutTypeOK
<1>2. past' \in [served : BOOLEAN, died : BOOLEAN] /\ past'.died
    BY <1>1
<1> DEFINE c == [phase |-> "booting", public |-> "closed", queue |-> "stopped"]
<1>3. UNCHANGED <<routed, wanted, database, job, step>> /\ (Becomes(p, Absent) \/ Becomes(p, c))
    BY DEF Die, GiveUp
<1>4. Merged(pods[p], Absent) \in Pods
  <2>1. Merged(pods[p], Absent) = Absent
      BY <1>1 DEF Merged, Pods, Absent
  <2> QED BY <2>1, AbsentPod
<1>5. Merged(pods[p], c) \in Pods
    BY <1>1 DEF Merged, Pods
<1>6. pods' \in [Pod -> Pods] /\ pods'[p].queue = "stopped" /\ pods'[p].public = "closed" /\ \A q \in Pod \ {p} : pods'[q] = pods[q]
  <2>1. /\ Merged(pods[p], Absent).queue = "stopped" /\ Merged(pods[p], c).queue = "stopped"
        /\ Merged(pods[p], Absent).public = "closed" /\ Merged(pods[p], c).public = "closed"
      BY <1>1 DEF Merged, Pods, Absent
  <2> QED BY <1>3, <1>4, <1>5, <2>1, BecomesPod DEF RolloutIInv
<1>7. RolloutTyped'
  <2>1. RolloutTypeOK'
      BY <1>2, <1>3, <1>6 DEF RolloutIInv, RolloutTyped, RolloutTypeOK, Pods
  <2> QED BY <1>3, <1>6, <2>1 DEF RolloutIInv, RolloutTyped
<1> QED BY <1>2, <1>7, DiedSound DEF RolloutIInv

LEMMA WorldInv == ASSUME RolloutIInv, RollOut \/ Outage \/ Migrate PROVE RolloutIInv'
<1>1. UNCHANGED <<pods, routed, job, step, past>>
    BY DEF RollOut, Outage, Migrate, Traffic
<1>2. wanted' \in [version : Nat, loads : BOOLEAN] /\ database' \in [up : BOOLEAN, schema : BOOLEAN]
  <2>1. wanted \in [version : Nat, loads : BOOLEAN] /\ database \in [up : BOOLEAN, schema : BOOLEAN]
      BY DEF RolloutIInv, RolloutTyped
  <2>2. CASE RollOut
    <3>1. PICK loads \in BOOLEAN : wanted' = [version |-> wanted.version + 1, loads |-> loads]
        BY <2>2 DEF RollOut
    <3> QED BY <2>1, <2>2, <3>1 DEF RollOut
  <2>3. CASE Outage
      BY <2>1, <2>3 DEF Outage
  <2>4. CASE Migrate
      BY <2>1, <2>4 DEF Migrate, World
  <2> QED BY <2>2, <2>3, <2>4
<1>3. RolloutTyped'
    BY <1>1, <1>2 DEF RolloutIInv, RolloutTyped, RolloutTypeOK
<1>4. RolloutSound'
    BY <1>1, SamePods DEF RolloutIInv
<1> QED BY <1>3, <1>4 DEF RolloutIInv

-----------------------------------------------------------------------------
\* A process: its start, and its listeners' end.

\* A step that leaves a pod's stop alone and no ready pod unready.
LEMMA OnwardInv ==
    ASSUME RolloutIInv, NEW p \in Pod, NEW c, Becomes(p, c), UNCHANGED <<routed, wanted, database, job, step, past>>,
           NEW n \in Pods, Merged(pods[p], c) = n, n.stopped = pods[p].stopped,
           n.phase # "absent", pods[p].phase # "absent",
           pods[p].phase = "serving" => n.phase = "serving",
           n.phase \in {"starting", "serving"} =>
               \/ n.public = "service" \/ n.stopped >= Linger
               \/ n.public = pods[p].public /\ pods[p].phase \in {"starting", "serving"}
    PROVE  RolloutIInv'
<1>1. RolloutTyped' /\ pods'[p] = n /\ \A q \in Pod \ {p} : pods'[q] = pods[q]
    BY PodTyped, BecomesPod DEF RolloutIInv
<1>2. p \in ReadyPods => n.phase = "serving" /\ n.stopped = OnTime
    BY DEF ReadyPods, LivePods, Live, Ready, Stopping
<1>3. ASSUME ~past.died
      PROVE  /\ n.phase \in {"starting", "serving"} => n.public = "service" \/ n.stopped >= Linger
             /\ p \in routed => n.phase = "serving" /\ n.stopped <= RouteLag
             /\ step.at = p => n.phase # "absent" /\ n.stopped < Linger + step.age
             /\ job.at = p => JobTimed(n)
  <2>1. Open(p) /\ RoutedServe /\ StepInTime /\ JobInTime
      BY <1>3 DEF RolloutIInv, RolloutSound
  <2>2. pods[p].phase # "absent" => (job.at = p => JobTimed(n))
      BY <2>1, PodAssumption DEF JobInTime, JobTimed
  <2> QED BY <2>1, <2>2, PodAssumption DEF Open, RoutedServe, StepInTime
<1> QED BY <1>1, <1>2, <1>3, PodSound DEF RolloutIInv

LEMMA BootInv == ASSUME RolloutIInv, NEW p \in Pod, Boot(p) PROVE RolloutIInv'
<1> DEFINE c == [phase |-> "opening", public |-> "starting"]
           n == Merged(pods[p], c)
<1>1. Becomes(p, c) /\ pods[p].phase = "booting" /\ pods[p] \in Pods /\ UNCHANGED <<routed, wanted, database, job, step, past>>
    BY PodsTyped DEF Boot, Steps, World, Traffic, RolloutIInv
<1>2. n \in Pods /\ n.phase = "opening" /\ n.stopped = pods[p].stopped
    BY <1>1 DEF Merged, Pods
<1> HIDE DEF n, c
<1> QED BY <1>1, <1>2, OnwardInv DEF n

LEMMA StartPublicInv == ASSUME RolloutIInv, NEW p \in Pod, StartPublic(p) PROVE RolloutIInv'
<1> DEFINE c == [phase |-> "starting", public |-> "service"]
           n == Merged(pods[p], c)
<1>1. Becomes(p, c) /\ pods[p].phase = "opening" /\ pods[p] \in Pods /\ UNCHANGED <<routed, wanted, database, job, step, past>>
    BY PodsTyped DEF StartPublic, Steps, World, Traffic, RolloutIInv
<1>2. n \in Pods /\ n.phase = "starting" /\ n.public = "service" /\ n.stopped = pods[p].stopped
    BY <1>1 DEF Merged, Pods
<1> HIDE DEF n, c
<1> QED BY <1>1, <1>2, OnwardInv DEF n

LEMMA StartWorkerInv == ASSUME RolloutIInv, NEW p \in Pod, StartWorker(p) PROVE RolloutIInv'
<1> DEFINE c == [phase |-> "serving", queue |-> "waiting"]
           n == Merged(pods[p], c)
<1>1. Becomes(p, c) /\ pods[p].phase = "starting" /\ pods[p] \in Pods /\ UNCHANGED <<routed, wanted, database, job, step, past>>
    BY PodsTyped DEF StartWorker, Steps, World, Traffic, RolloutIInv
<1>2. n \in Pods /\ n.phase = "serving" /\ n.public = pods[p].public /\ n.stopped = pods[p].stopped
    BY <1>1 DEF Merged, Pods
<1> HIDE DEF n, c
<1> QED BY <1>1, <1>2, OnwardInv DEF n

\* A queue waits in a process that has started its worker.
LEMMA StartQueueInv == ASSUME RolloutIInv, NEW p \in Pod, StartQueue(p) PROVE RolloutIInv'
<1>1. PICK to \in {"working", "stopped"} : Becomes(p, [queue |-> to])
    BY DEF StartQueue
<1> DEFINE c == [queue |-> to]
           n == Merged(pods[p], c)
<1>2. Becomes(p, c) /\ pods[p].queue = "waiting" /\ pods[p] \in Pods /\ UNCHANGED <<routed, wanted, database, job, step, past>>
    BY <1>1, PodsTyped DEF StartQueue, World, Traffic, RolloutIInv
<1>3. n \in Pods /\ n.phase = pods[p].phase /\ n.public = pods[p].public /\ n.stopped = pods[p].stopped
    BY <1>2 DEF Merged, Pods
<1>4. pods[p].phase # "absent"
    BY <1>2 DEF RolloutIInv, RolloutTyped
<1> HIDE DEF n, c
<1> QED BY <1>2, <1>3, <1>4, OnwardInv DEF n

LEMMA ClosePublicInv == ASSUME RolloutIInv, NEW p \in Pod, ClosePublic(p) PROVE RolloutIInv'
<1> DEFINE c == [public |-> "closed"]
           n == Merged(pods[p], c)
<1>1. Becomes(p, c) /\ pods[p].stopped >= Linger /\ pods[p].public # "closed" /\ pods[p] \in Pods
      /\ UNCHANGED <<routed, wanted, database, job, step, past>>
    BY PodsTyped DEF ClosePublic, World, Traffic, RolloutIInv
<1>2. n \in Pods /\ n.phase = pods[p].phase /\ n.stopped = pods[p].stopped
    BY <1>1 DEF Merged, Pods
<1>3. pods[p].phase # "absent"
    BY <1>1 DEF RolloutIInv, RolloutTyped
<1> HIDE DEF n, c
<1> QED BY <1>1, <1>2, <1>3, OnwardInv DEF n

-----------------------------------------------------------------------------
\* What a pod works.

LEMMA WorkInv ==
    ASSUME RolloutIInv, UNCHANGED <<pods, routed, past, wanted, database>>,
           job' \in [at : Pod \cup {NoPod}, cut : Nat \cup {OnTime}],
           step' \in [at : Pod \cup {NoPod}, age : 0 .. StepMost],
           UNCHANGED job \/ (~past.died => JobInTime'), UNCHANGED step \/ (~past.died => StepInTime')
    PROVE  RolloutIInv'
<1>1. RolloutTyped'
    BY DEF RolloutIInv, RolloutTyped, RolloutTypeOK
<1>2. RolloutSound'
    BY SamePods DEF RolloutIInv
<1> QED BY <1>1, <1>2 DEF RolloutIInv

LEMMA JobStepsInv == ASSUME RolloutIInv, (\E p \in Pod : TakeJob(p) \/ CutJob(p)) \/ LeaveJob \/ RescueJob PROVE RolloutIInv'
<1>1. UNCHANGED <<pods, routed, past, wanted, database, step>> /\ step \in [at : Pod \cup {NoPod}, age : 0 .. StepMost]
    BY DEF TakeJob, CutJob, LeaveJob, RescueJob, Elsewhere, World, RolloutIInv, RolloutTyped
<1>2. CASE LeaveJob \/ RescueJob
  <2>1. job' = [at |-> NoPod, cut |-> OnTime]
      BY <1>2 DEF LeaveJob, RescueJob
  <2>2. JobInTime' /\ job' \in [at : Pod \cup {NoPod}, cut : Nat \cup {OnTime}]
      BY <2>1, Durations DEF JobInTime, OnTime
  <2> QED BY <1>1, <2>2, WorkInv
<1>3. ASSUME NEW p \in Pod, TakeJob(p) PROVE RolloutIInv'
  <2>1. job' = [at |-> p, cut |-> OnTime] /\ pods[p].queue = "working" /\ pods[p].stopped = OnTime
      BY <1>3 DEF TakeJob, Stopping
  <2>2. pods[p].phase # "absent"
      BY <2>1 DEF RolloutIInv, RolloutTyped
  <2>3. JobInTime' /\ job' \in [at : Pod \cup {NoPod}, cut : Nat \cup {OnTime}]
      BY <1>1, <2>1, <2>2, Durations, PodAssumption DEF JobInTime, JobTimed, OnTime
  <2> QED BY <1>1, <2>3, WorkInv
<1>4. ASSUME NEW p \in Pod, CutJob(p) PROVE RolloutIInv'
  <2>1. job = [at |-> p, cut |-> OnTime] /\ pods[p].stopped >= QueueDrain /\ job' = [at |-> p, cut |-> 0]
        /\ pods[p].stopped \in OnTime .. Grace
      BY <1>4, PodsTyped DEF CutJob, RolloutIInv, Pods
  <2>2. ASSUME ~past.died PROVE JobInTime'
    <3>1. pods[p].phase # "absent" /\ pods[p].stopped = QueueDrain
        BY <2>1, <2>2, Durations, PodAssumption DEF RolloutIInv, RolloutSound, JobInTime, JobTimed, OnTime
    <3> QED BY <1>1, <2>1, <3>1, Durations, PodAssumption DEF JobInTime, JobTimed, OnTime
  <2>3. job' \in [at : Pod \cup {NoPod}, cut : Nat \cup {OnTime}]
      BY <2>1, Durations DEF OnTime
  <2> QED BY <1>1, <2>2, <2>3, WorkInv
<1> QED BY <1>2, <1>3, <1>4

LEMMA StepStepsInv == ASSUME RolloutIInv, (\E p \in Pod : BeginStep(p)) \/ EndStep PROVE RolloutIInv'
<1>1. UNCHANGED <<pods, routed, past, wanted, database, job>> /\ job \in [at : Pod \cup {NoPod}, cut : Nat \cup {OnTime}]
    BY DEF BeginStep, EndStep, Elsewhere, World, RolloutIInv, RolloutTyped
<1>2. CASE EndStep
  <2>1. step' = [at |-> NoPod, age |-> 0]
      BY <1>2 DEF EndStep
  <2>2. StepInTime' /\ step' \in [at : Pod \cup {NoPod}, age : 0 .. StepMost]
      BY <2>1, Durations DEF StepInTime
  <2> QED BY <1>1, <2>2, WorkInv
<1>3. ASSUME NEW p \in Pod, BeginStep(p) PROVE RolloutIInv'
  <2>1. step' = [at |-> p, age |-> 0] /\ pods[p].phase = "serving" /\ pods[p].stopped < Linger
        /\ pods[p].stopped \in OnTime .. Grace
      BY <1>3, PodsTyped DEF BeginStep, RolloutIInv, Pods
  <2>2. StepInTime' /\ step' \in [at : Pod \cup {NoPod}, age : 0 .. StepMost]
      BY <1>1, <2>1, Durations, PodAssumption DEF StepInTime, OnTime
  <2> QED BY <1>1, <2>2, WorkInv
<1> QED BY <1>2, <1>3

-----------------------------------------------------------------------------
\* Time passes, for the pods that stop, and for what has a bound.
LEMMA TickInv == ASSUME RolloutIInv, RolloutTick PROVE RolloutIInv'
<1>1. UNCHANGED <<routed, past, wanted, database>>
    BY DEF RolloutTick, World
<1>2. pods \in [Pod -> Pods] /\ job \in [at : Pod \cup {NoPod}, cut : Nat \cup {OnTime}]
      /\ step \in [at : Pod \cup {NoPod}, age : 0 .. StepMost] /\ routed \subseteq Pod
    BY PodsTyped DEF RolloutIInv, RolloutTyped, RolloutTypeOK
<1>3. ASSUME NEW p \in Pod
      PROVE  /\ pods'[p] \in Pods /\ pods'[p].phase = pods[p].phase /\ pods'[p].public = pods[p].public
             /\ pods'[p].queue = pods[p].queue
             /\ pods'[p].stopped = IF Stopping(p) THEN pods[p].stopped + 1 ELSE OnTime
             /\ pods[p].stopped \in OnTime .. Grace
             /\ Stopping(p) => pods[p].stopped >= 0
  <2>1. pods[p] \in Pods /\ pods[p].stopped \in OnTime .. Grace
      BY <1>2 DEF Pods
  <2>2. CASE Stopping(p)
    <3>1. pods[p].stopped < Grace /\ pods'[p] = [pods[p] EXCEPT !.stopped = @ + 1]
        BY <2>2 DEF RolloutTick
    <3>2. pods[p].stopped + 1 \in OnTime .. Grace /\ pods[p].stopped >= 0
        BY <2>1, <2>2, <3>1, Durations DEF OnTime, Stopping
    <3> QED BY <2>1, <2>2, <3>1, <3>2 DEF Pods
  <2>3. CASE ~Stopping(p)
    <3>1. pods'[p] = pods[p]
        BY <2>3 DEF RolloutTick
    <3> QED BY <2>1, <2>3, <3>1 DEF Stopping
  <2> QED BY <2>2, <2>3
<1>4. /\ job'.at = job.at /\ job'.cut = (IF job.cut # OnTime /\ Stopping(job.at) THEN job.cut + 1 ELSE job.cut)
      /\ job' \in [at : Pod \cup {NoPod}, cut : Nat \cup {OnTime}]
  <2>1. job' = [job EXCEPT !.cut = IF @ # OnTime /\ Stopping(job.at) THEN @ + 1 ELSE @]
      BY DEF RolloutTick
  <2>2. (IF job.cut # OnTime /\ Stopping(job.at) THEN job.cut + 1 ELSE job.cut) \in Nat \cup {OnTime}
      BY <1>2 DEF OnTime
  <2> QED BY <1>2, <2>1, <2>2
<1>5. /\ step'.at = step.at /\ step'.age = (IF step.at = NoPod THEN step.age ELSE step.age + 1)
      /\ step' \in [at : Pod \cup {NoPod}, age : 0 .. StepMost]
  <2>1. step' = [step EXCEPT !.age = IF step.at = NoPod THEN @ ELSE @ + 1] /\ (step.at # NoPod => step.age < StepMost)
      BY DEF RolloutTick
  <2>2. (IF step.at = NoPod THEN step.age ELSE step.age + 1) \in 0 .. StepMost
      BY <1>2, <2>1, Durations
  <2> QED BY <1>2, <2>1, <2>2
<1>6. pods' \in [Pod -> Pods]
    BY <1>3 DEF RolloutTick
<1>7. RolloutTyped'
  <2>1. RolloutTypeOK'
      BY <1>1, <1>4, <1>5, <1>6 DEF RolloutIInv, RolloutTyped, RolloutTypeOK, Pods
  <2> QED BY <1>1, <1>3, <1>4, <1>5, <2>1 DEF RolloutIInv, RolloutTyped
<1>8. ASSUME ~past.died
      PROVE  (\A p \in Pod : Open(p)') /\ RoutedServe' /\ SomeReady' /\ StepInTime' /\ JobInTime'
  <2>1. (\A p \in Pod : Open(p)) /\ RoutedServe /\ SomeReady /\ StepInTime /\ JobInTime
      BY <1>8 DEF RolloutIInv, RolloutSound
  <2>2. ASSUME NEW p \in Pod PROVE Open(p)'
      BY <1>3, <2>1, Durations DEF Open, OnTime, Stopping
  <2>3. RoutedServe'
    <3> SUFFICES ASSUME NEW p \in routed PROVE pods'[p].phase = "serving" /\ pods'[p].stopped <= RouteLag
        BY <1>1 DEF RoutedServe
    <3>1. p \in Pod /\ pods[p].phase = "serving" /\ pods[p].stopped <= RouteLag
        BY <1>2, <2>1 DEF RoutedServe
    <3>2. Stopping(p) => pods[p].stopped # RouteLag
        BY <3>1 DEF RolloutTick
    <3> QED BY <1>3, <3>1, <3>2, Durations DEF OnTime
  <2>4. SomeReady'
    <3>1. ReadyPods' = ReadyPods
        BY <1>3, Durations DEF ReadyPods, LivePods, Live, Ready, Stopping, OnTime
    <3> QED BY <1>1, <2>1, <3>1 DEF SomeReady
  <2>5. StepInTime'
    <3> SUFFICES ASSUME step.at # NoPod PROVE pods'[step.at].phase # "absent" /\ pods'[step.at].stopped < Linger + step'.age
        BY <1>5 DEF StepInTime
    <3>1. step.at \in Pod /\ pods[step.at].phase # "absent" /\ pods[step.at].stopped < Linger + step.age
          /\ step'.age = step.age + 1 /\ step.age \in Nat
        BY <1>2, <1>5, <2>1 DEF StepInTime
    <3> QED BY <1>3, <3>1, Durations DEF OnTime
  <2>6. JobInTime'
    <3>1. CASE job.at = NoPod
        BY <1>4, <2>1, <3>1 DEF JobInTime
    <3>2. CASE job.at # NoPod
      <4>1. job.at \in Pod /\ job.cut \in Nat \cup {OnTime} /\ JobTimed(pods[job.at])
          BY <1>2, <2>1, <3>2 DEF JobInTime
      <4>2. job.cut = OnTime /\ Stopping(job.at) => pods[job.at].stopped < QueueDrain
        <5>1. job = [at |-> job.at, cut |-> job.cut]
            BY <1>2
        <5> QED BY <4>1, <5>1 DEF RolloutTick
      <4>3. pods'[job.at].phase = pods[job.at].phase
            /\ pods'[job.at].stopped = (IF Stopping(job.at) THEN pods[job.at].stopped + 1 ELSE OnTime)
            /\ pods[job.at].stopped \in OnTime .. Grace
          BY <1>3, <4>1
      <4>4. JobTimed(pods[job.at])'
        <5>1. CASE pods[job.at].phase = "absent"
            BY <1>4, <4>1, <4>3, <5>1, Durations DEF JobTimed, OnTime
        <5>2. CASE pods[job.at].phase # "absent" /\ job.cut = OnTime
            BY <1>4, <4>1, <4>2, <4>3, <5>2, Durations DEF JobTimed, OnTime
        <5>3. CASE pods[job.at].phase # "absent" /\ job.cut # OnTime
            BY <1>4, <4>1, <4>3, <5>3, Durations DEF JobTimed, OnTime, Stopping
        <5> QED BY <5>1, <5>2, <5>3
      <4> QED BY <1>4, <3>2, <4>4 DEF JobInTime
    <3> QED BY <3>1, <3>2
  <2> QED BY <2>2, <2>3, <2>4, <2>5, <2>6
<1>9. RolloutSound'
    BY <1>1, <1>8 DEF RolloutSound
<1> QED BY <1>7, <1>9 DEF RolloutIInv

LEMMA RolloutNextInv == RolloutIInv /\ [RolloutNext]_rolloutVars => RolloutIInv'
<1> SUFFICES ASSUME RolloutIInv, [RolloutNext]_rolloutVars PROVE RolloutIInv'
    OBVIOUS
<1>1. ASSUME NEW p \in Pod, Process(p) PROVE RolloutIInv'
    BY <1>1, BootInv, StartPublicInv, StartWorkerInv, StartQueueInv, DieInv, JobStepsInv, StepStepsInv,
       ClosePublicInv, ExitInv DEF Process
<1>2. ASSUME NEW p \in Pod, Kubernetes(p) PROVE RolloutIInv'
    BY <1>2, CreateInv, TerminateInv, KillInv, DieInv DEF Kubernetes
<1>3. CASE RollOut \/ Route \/ Outage \/ Migrate \/ LeaveJob \/ RescueJob \/ EndStep \/ RolloutTick
    BY <1>3, WorldInv, RouteInv, JobStepsInv, StepStepsInv, TickInv
<1>4. CASE UNCHANGED rolloutVars
  <2>1. RolloutTyped'
      BY <1>4 DEF rolloutVars, RolloutIInv, RolloutTyped, RolloutTypeOK
  <2>2. RolloutSound'
      BY <1>4, SamePods DEF rolloutVars, RolloutIInv
  <2> QED BY <2>1, <2>2 DEF RolloutIInv
<1> QED BY <1>1, <1>2, <1>3, <1>4 DEF RolloutNext

\* Through any number of rollouts and outages of the database, until a pod
\* dies: whatever the Service routes to serves the webhooks and there is
\* always something it routes to, no process ends before the model step at its
\* gateway is answered, and none before the job it works is handed back, unless
\* the job had the whole drain and then the whole headroom, however long its own
\* wrapping up takes (cmd/kritika/main.go, internal/server: the listeners linger,
\* then drain, the queues soft-stop, and the grace period is longer than both).
THEOREM NothingIsLost == RolloutSpec => []RolloutLosesNothing
<1>1. RolloutIInv => RolloutLosesNothing
  <2> SUFFICES ASSUME RolloutIInv, ~past.died PROVE RolloutLosesNothing
      BY DEF RolloutLosesNothing, DeliveriesHeld, NothingCutShort
  <2>1. (\A p \in Pod : Open(p)) /\ RoutedServe /\ SomeReady /\ StepInTime /\ JobInTime /\ routed \subseteq Pod
      BY DEF RolloutIInv, RolloutSound, RolloutTyped, RolloutTypeOK
  <2>2. ASSUME NEW p \in routed PROVE pods[p].public = "service"
    <3>1. p \in Pod /\ pods[p].phase = "serving" /\ pods[p].stopped <= RouteLag /\ pods[p].stopped \in OnTime .. Grace
        BY <2>1, PodsTyped DEF RoutedServe, RolloutIInv, Pods
    <3> QED BY <2>1, <3>1, Durations DEF Open, OnTime
  <2>3. DeliveriesHeld
      BY <2>1, <2>2 DEF DeliveriesHeld, SomeReady
  <2>4. NothingCutShort
      BY <2>1, PodAssumption DEF NothingCutShort, StepInTime, JobInTime, JobTimed
  <2> QED BY <2>3, <2>4 DEF RolloutLosesNothing
<1> QED BY <1>1, InitSound, RolloutNextInv, PTL DEF RolloutSpec

-----------------------------------------------------------------------------
(***************************************************************************)
(* The configuration, for any accounts, providers, apps and edits.  That   *)
(* what runs was accepted is all that is carried from state to state; the  *)
(* rest is about the checks of single scopes and the walks over them.      *)
(***************************************************************************)
\* A scope's overrides, and what is written where.
WrittenRules == {<<>>, <<1>>, <<2, 1>>, <<1, 1>>}
RuleLists == {Unset} \cup {{r} : r \in WrittenRules}
Scopes == [enabled : SUBSET BOOLEAN, model : SUBSET (Vendor \cup {Blank}), settle : SUBSET (-1 .. 1),
           ignore : SUBSET SUBSET {"generated"}, rules : RuleLists]
Docs == [apps : [App -> {Unset} \cup {{s} : s \in SUBSET Owner}], providers : SUBSET Vendor, defaults : Scopes,
         entries : [Owner -> [concurrency : SUBSET Int, providers : SUBSET Vendor]],
         pattern : [Owner -> Scopes], repository : [Owner -> Scopes]]
Envs == [app : SUBSET [name : App, accounts : SUBSET Owner], provider : SUBSET Vendor,
         model : SUBSET (Vendor \cup {Blank}), settle : SUBSET (-1 .. 1), missing : SUBSET Vendor]

\* What runs was accepted.
ConfigSound ==
    /\ doc \in Docs /\ env \in Envs /\ running \in Docs \X Envs
    /\ edit \in ConfigBound
    /\ Accepted(running[1], running[2])

LEMMA KeysNamed == Key = {"enabled", "model", "settle", "ignore", "rules"}
BY DEF Key, Silent

LEMMA SilentScopes == Silent \in Scopes
BY DEF Silent, Scopes, RuleLists, WrittenRules, Unset

\* Writing one key of a scope keeps it a scope.
LEMMA ScopeWritten ==
    ASSUME NEW l \in Scopes, NEW k \in Key, NEW v \in {Unset} \cup {{w} : w \in Value[k]}
    PROVE  [l EXCEPT ![k] = v] \in Scopes
<1>1. CASE k = "enabled"
    BY <1>1 DEF Scopes, Value, Unset
<1>2. CASE k = "model"
    BY <1>2 DEF Scopes, Value, Unset
<1>3. CASE k = "settle"
    BY <1>3 DEF Scopes, Value, Unset
<1>4. CASE k = "ignore"
    BY <1>4 DEF Scopes, Value, Unset
<1>5. CASE k = "rules"
    BY <1>5 DEF Scopes, RuleLists, WrittenRules, Value, Unset
<1> QED BY <1>1, <1>2, <1>3, <1>4, <1>5, KeysNamed

\* Writing a part of an account's entry keeps it an entry.
LEMMA EntryWritten ==
    ASSUME doc \in Docs, NEW o \in Owner
    PROVE  /\ \A p \in SUBSET Vendor : [doc EXCEPT !.entries[o].providers = p] \in Docs
           /\ \A n \in SUBSET Int : [doc EXCEPT !.entries[o].concurrency = n] \in Docs
<1> DEFINE Entries == [concurrency : SUBSET Int, providers : SUBSET Vendor]
<1>1. ASSUME NEW e \in Entries PROVE [doc EXCEPT !.entries[o] = e] \in Docs
  <2>1. [doc.entries EXCEPT ![o] = e] \in [Owner -> Entries]
      BY DEF Docs
  <2>2. [doc EXCEPT !.entries[o] = e] = [doc EXCEPT !.entries = [doc.entries EXCEPT ![o] = e]]
      OBVIOUS
  <2> QED BY <2>1, <2>2 DEF Docs
<1>2. ASSUME NEW p \in SUBSET Vendor PROVE [doc EXCEPT !.entries[o].providers = p] \in Docs
  <2>1. [doc.entries[o] EXCEPT !.providers = p] \in Entries
      BY DEF Docs
  <2>2. [doc EXCEPT !.entries[o].providers = p] = [doc EXCEPT !.entries[o] = [doc.entries[o] EXCEPT !.providers = p]]
      OBVIOUS
  <2> QED BY <1>1, <2>1, <2>2
<1>3. ASSUME NEW n \in SUBSET Int PROVE [doc EXCEPT !.entries[o].concurrency = n] \in Docs
  <2>1. [doc.entries[o] EXCEPT !.concurrency = n] \in Entries
      BY DEF Docs
  <2>2. [doc EXCEPT !.entries[o].concurrency = n] = [doc EXCEPT !.entries[o] = [doc.entries[o] EXCEPT !.concurrency = n]]
      OBVIOUS
  <2> QED BY <1>1, <2>1, <2>2
<1> QED BY <1>2, <1>3

LEMMA ConfigInitSound == ConfigInit => ConfigSound
<1> SUFFICES ASSUME ConfigInit PROVE ConfigSound
    OBVIOUS
<1> DEFINE owner  == CHOOSE o \in Owner : TRUE
           vendor == CHOOSE v \in Vendor : TRUE
           d      == Doc0(owner, vendor)
           f      == File(d, Env0)
<1>1. owner \in Owner /\ vendor \in Vendor
    BY ConfigAssumption
<1>2. doc = d /\ env = Env0 /\ running = <<d, Env0>>
    BY DEF ConfigInit
<1> HIDE DEF owner, vendor
<1>3. [Silent EXCEPT !.model = {vendor}] \in Scopes
    BY <1>1, SilentScopes DEF Scopes
<1>4. d \in Docs
    BY <1>1, <1>3, SilentScopes DEF Doc0, Docs, Unset
<1>5. Env0 \in Envs
    BY DEF Env0, Envs, Unset
<1>6. /\ f.apps = d.apps /\ f.providers = {vendor} /\ f.entries = d.entries /\ f.pattern = d.pattern
      /\ f.repository = d.repository /\ f.defaults = [Silent EXCEPT !.model = {vendor}]
  <2>1. OverlaidApps(d, Env0) = d.apps
      BY DEF OverlaidApps, Env0, Unset, Doc0
  <2>2. OverlaidProviders(d, Env0) = {vendor}
      BY DEF OverlaidProviders, Env0, Unset, Doc0
  <2>3. OverlaidDefaults(d, Env0) = d.defaults
      BY DEF OverlaidDefaults, Env0, Unset, Doc0, Silent
  <2> QED BY <2>1, <2>2, <2>3 DEF File, Doc0
<1>7. SecretsRead(f, Env0)
    BY DEF SecretsRead, Env0
<1>8. ValidConnections(f)
  <2> DEFINE first == CHOOSE b \in App : TRUE
  <2>1. ASSUME NEW a \in App PROVE f.apps[a] = IF a = first THEN {{owner}} ELSE {}
      BY <1>6, <2>1 DEF Doc0, Unset
  <2> HIDE DEF first, d, f
  <2>2. ASSUME NEW a \in App PROVE {} \notin f.apps[a]
      BY <2>1, <2>2
  <2>3. ASSUME NEW o \in Owner, NEW a \in App, NEW b \in App, Serves(f, a, o), Serves(f, b, o) PROVE a = b
      BY <2>1, <2>3 DEF Serves
  <2> QED BY <2>2, <2>3 DEF ValidConnections
<1>9. Gathered(f) = {}
    BY <1>6 DEF Gathered, Doc0
<1>10. ValidOverrides(f, {}, f.defaults)
    BY <1>6 DEF ValidOverrides, CheckModels, ProviderFound, Silent, Unset
<1>11. Accepted(d, Env0)
    BY <1>7, <1>8, <1>9, <1>10 DEF Accepted, ValidAccounts
<1>12. edit \in ConfigBound
    BY ConfigAssumption DEF ConfigInit
<1> QED BY <1>2, <1>4, <1>5, <1>11, <1>12 DEF ConfigSound

\* An edit or a deployment.
LEMMA ConfigNextSound == ConfigSound /\ [ConfigNext]_configVars => ConfigSound'
<1> SUFFICES ASSUME ConfigSound, [ConfigNext]_configVars PROVE ConfigSound'
    OBVIOUS
<1> USE DEF ConfigSound
<1>1. ASSUME NEW k, EditsLeft(k) PROVE edit' \in ConfigBound
    BY <1>1 DEF EditsLeft, ConfigBound
<1>2. CASE WriteOverrides
  <2>1. PICK k \in Key : EditsLeft(k) /\ \E v \in {Unset} \cup {{w} : w \in Value[k]} :
                            \/ doc' = [doc EXCEPT !.defaults[k] = v]
                            \/ \E o \in Owner : \/ doc' = [doc EXCEPT !.pattern[o][k] = v]
                                                \/ doc' = [doc EXCEPT !.repository[o][k] = v]
      BY <1>2 DEF WriteOverrides
  <2>2. PICK v \in {Unset} \cup {{w} : w \in Value[k]} :
            \/ doc' = [doc EXCEPT !.defaults[k] = v]
            \/ \E o \in Owner : \/ doc' = [doc EXCEPT !.pattern[o][k] = v]
                                \/ doc' = [doc EXCEPT !.repository[o][k] = v]
      BY <2>1
  <2>3. CASE doc' = [doc EXCEPT !.defaults[k] = v]
    <3>1. [doc.defaults EXCEPT ![k] = v] \in Scopes
        BY ScopeWritten DEF Docs
    <3>2. doc' = [doc EXCEPT !.defaults = [doc.defaults EXCEPT ![k] = v]]
        BY <2>3
    <3> QED BY <1>1, <1>2, <2>1, <3>1, <3>2 DEF WriteOverrides, Docs
  <2>4. ASSUME NEW o \in Owner, doc' = [doc EXCEPT !.pattern[o][k] = v] PROVE ConfigSound'
    <3>1. [doc.pattern[o] EXCEPT ![k] = v] \in Scopes
        BY ScopeWritten DEF Docs
    <3>2. doc' = [doc EXCEPT !.pattern = [doc.pattern EXCEPT ![o] = [doc.pattern[o] EXCEPT ![k] = v]]]
        BY <2>4
    <3> QED BY <1>1, <1>2, <2>1, <3>1, <3>2 DEF WriteOverrides, Docs
  <2>5. ASSUME NEW o \in Owner, doc' = [doc EXCEPT !.repository[o][k] = v] PROVE ConfigSound'
    <3>1. [doc.repository[o] EXCEPT ![k] = v] \in Scopes
        BY ScopeWritten DEF Docs
    <3>2. doc' = [doc EXCEPT !.repository = [doc.repository EXCEPT ![o] = [doc.repository[o] EXCEPT ![k] = v]]]
        BY <2>5
    <3> QED BY <1>1, <1>2, <2>1, <3>1, <3>2 DEF WriteOverrides, Docs
  <2> QED BY <2>2, <2>3, <2>4, <2>5
<1>3. CASE WriteApps
  <2>1. PICK a \in App, os \in SUBSET Owner :
          \/ \E s \in {Unset, {os}} : doc' = [doc EXCEPT !.apps[a] = s] /\ UNCHANGED env
          \/ \E c \in {Unset, {[name |-> a, accounts |-> os]}} :
                env' = [env EXCEPT !.app = c] /\ UNCHANGED doc
      BY <1>3 DEF WriteApps
  <2>2. doc' \in Docs
    <3>1. ASSUME NEW s \in {Unset, {os}}, doc' = [doc EXCEPT !.apps[a] = s] PROVE doc' \in Docs
      <4>1. [doc.apps EXCEPT ![a] = s] \in [App -> {Unset} \cup {{t} : t \in SUBSET Owner}]
          BY DEF Docs
      <4>2. doc' = [doc EXCEPT !.apps = [doc.apps EXCEPT ![a] = s]]
          BY <3>1
      <4> QED BY <4>1, <4>2 DEF Docs
    <3> QED BY <2>1, <3>1
  <2>3. env' \in Envs
      BY <2>1 DEF Envs, Unset
  <2> QED BY <1>1, <1>3, <2>2, <2>3 DEF WriteApps
<1>4. CASE WriteProviders
  <2>1. PICK v \in Vendor, s \in {{}, {1}} :
          LET with(set) == IF s = {} THEN set \ {v} ELSE set \cup {v}
          IN \/ doc' = [doc EXCEPT !.providers = with(@)] /\ UNCHANGED env
             \/ /\ \E o \in Owner : doc' = [doc EXCEPT !.entries[o].providers = with(@)]
                /\ UNCHANGED env
             \/ /\ \E p \in {Unset, {v}} : env' = [env EXCEPT !.provider = p]
                /\ UNCHANGED doc
             \/ env' = [env EXCEPT !.missing = with(@)] /\ UNCHANGED doc
      BY <1>4 DEF WriteProviders
  <2>2. doc' \in Docs
    <3>1. ASSUME NEW p \in SUBSET Vendor, doc' = [doc EXCEPT !.providers = p] PROVE doc' \in Docs
        BY <3>1 DEF Docs
    <3>2. ASSUME NEW o \in Owner, NEW p \in SUBSET Vendor, doc' = [doc EXCEPT !.entries[o].providers = p]
          PROVE  doc' \in Docs
        BY <3>2, EntryWritten
    <3>3. \A p \in SUBSET Vendor : p \ {v} \in SUBSET Vendor /\ p \cup {v} \in SUBSET Vendor
        OBVIOUS
    <3>4. /\ doc.providers \in SUBSET Vendor
          /\ \A o \in Owner : doc.entries[o].providers \in SUBSET Vendor /\ doc.entries[o] \in [concurrency : SUBSET Int, providers : SUBSET Vendor]
        BY DEF Docs
    <3>5. \/ UNCHANGED doc
          \/ \E p \in SUBSET Vendor : doc' = [doc EXCEPT !.providers = p]
          \/ \E o \in Owner, p \in SUBSET Vendor : doc' = [doc EXCEPT !.entries[o].providers = p]
      <4>1. CASE doc' = [doc EXCEPT !.providers = IF s = {} THEN @ \ {v} ELSE @ \cup {v}]
          BY <3>3, <3>4, <4>1
      <4>2. ASSUME NEW o \in Owner,
                   doc' = [doc EXCEPT !.entries[o].providers = IF s = {} THEN @ \ {v} ELSE @ \cup {v}]
            PROVE  \E p \in SUBSET Vendor : doc' = [doc EXCEPT !.entries[o].providers = p]
          BY <3>3, <3>4, <4>2
      <4> QED BY <2>1, <4>1, <4>2
    <3> QED BY <3>1, <3>2, <3>5
  <2>3. env' \in Envs
      BY <2>1 DEF Envs, Unset
  <2> QED BY <1>1, <1>4, <2>2, <2>3 DEF WriteProviders
<1>5. CASE WriteLimits
  <2>1. doc' \in Docs
    <3>1. PICK o \in Owner, n \in {Unset, {0}, {1}} : doc' = [doc EXCEPT !.entries[o].concurrency = n]
        BY <1>5 DEF WriteLimits
    <3> QED BY <3>1, EntryWritten DEF Unset
  <2> QED BY <1>1, <1>5, <2>1 DEF WriteLimits
<1>6. CASE WriteEnv
  <2>1. PICK k \in {"model", "settle"} :
            EditsLeft(k) /\ \E v \in {Unset} \cup {{w} : w \in Value[k]} : env' = [env EXCEPT ![k] = v]
      BY <1>6 DEF WriteEnv
  <2>2. env' \in Envs
    <3>1. CASE k = "model"
        BY <2>1, <3>1 DEF Envs, Value, Unset
    <3>2. CASE k = "settle"
        BY <2>1, <3>2 DEF Envs, Value, Unset
    <3> QED BY <3>1, <3>2
  <2> QED BY <1>1, <1>6, <2>1, <2>2 DEF WriteEnv
<1>7. CASE Deploy
  <2>1. Accepted(running[1], running[2])'
      BY <1>7 DEF Deploy
  <2> QED BY <1>7, <2>1 DEF Deploy
<1>8. CASE UNCHANGED configVars
    BY <1>8 DEF configVars, Accepted, File
<1> QED BY <1>2, <1>3, <1>4, <1>5, <1>6, <1>7, <1>8 DEF ConfigNext

-----------------------------------------------------------------------------
\* What an accepted file says of the model of a scope that a repository gets.

LEMMA ScopeApplied ==
    ASSUME NEW s, NEW l, NEW scope
    PROVE  /\ ApplyScope(s, <<scope, l>>).model = Overlay(s.model, l.model)
           /\ ApplyScope(s, <<scope, l>>).enabled = Overlay(s.enabled, l.enabled)
           /\ ApplyScope(s, <<scope, l>>).settle = Overlay(s.settle, l.settle)
BY DEF ApplyScope

LEMMA Overlaid ==
    ASSUME NEW v, NEW o
    PROVE  (o = Unset => Overlay(v, o) = v) /\ (o # Unset => Overlay(v, o) \in o)
BY DEF Overlay, Unset

\* However an admin layered what runs, a repository's model is of a provider
\* its account may use (configfile/resolve.go, Settings; load.go,
\* validateOverrides).
LEMMA SoundResolves == ConfigSound => ModelsResolve
<1> SUFFICES ASSUME ConfigSound, NEW o \in ServedAccounts(Running), NEW listed \in BOOLEAN
             PROVE  SettingsOf(Running, o, listed).model
                        \in {Blank} \cup Running.providers \cup Running.entries[o].providers
    BY DEF ModelsResolve
<1> DEFINE f == Running
           may == {Blank} \cup f.providers \cup f.entries[o].providers
<1>1. o \in Owner /\ ValidAccounts(f)
    BY DEF ConfigSound, Accepted, Running, ServedAccounts
<1>2. \A ref \in f.defaults.model : ref \in may
    BY <1>1 DEF ValidAccounts, ValidOverrides, CheckModels, ProviderFound
<1>3. \A ref \in f.pattern[o].model \cup f.repository[o].model : ref \in may
  <2>1. CASE o \in Gathered(f)
    <3>1. ValidOverrides(f, {o}, f.pattern[o]) /\ ValidOverrides(f, {o}, f.repository[o])
        BY <1>1, <2>1 DEF ValidAccounts, ValidAccount
    <3> QED BY <3>1 DEF ValidOverrides, CheckModels, ProviderFound
  <2>2. CASE o \notin Gathered(f)
      BY <1>1, <2>2 DEF Gathered, Silent, Unset
  <2> QED BY <2>1, <2>2
<1> DEFINE account == ApplyScope(ApplyScope(Builtin, <<"defaults", f.defaults>>), <<"account", f.pattern[o]>>)
<1>4. account.model = Overlay(Overlay(Blank, f.defaults.model), f.pattern[o].model)
    BY ScopeApplied DEF Builtin
<1>5. account.model \in may
    BY <1>2, <1>3, <1>4, Overlaid
<1>6. SettingsOf(f, o, listed).model = IF listed THEN Overlay(account.model, f.repository[o].model) ELSE account.model
    BY ScopeApplied DEF SettingsOf
<1> QED BY <1>3, <1>5, <1>6, Overlaid

\* What Sources tells of a setting is where Settings took it, environment and
\* all (configfile/policy.go, resolve.go).
LEMMA SoundSources == ConfigSound => KeysAgree
<1> SUFFICES ASSUME ConfigSound, NEW o \in ServedAccounts(Running), NEW listed \in BOOLEAN,
                    NEW k \in {"enabled", "model", "settle"}
             PROVE  LET s == SettingsOf(Running, o, listed)
                        from == SourceOf(Running, running[2], o, listed, k)
                    IN \/ from = "default" /\ s[k] = Builtin[k]
                       \/ from = "env" /\ s[k] \in running[2][k]
                       \/ from = "defaults" /\ s[k] \in running[1].defaults[k]
                       \/ /\ from = "account"
                          /\ s[k] \in Running.pattern[o][k] \cup (IF listed THEN Running.repository[o][k] ELSE {})
    BY DEF KeysAgree
<1> DEFINE f == Running
           account == ApplyScope(ApplyScope(Builtin, <<"defaults", f.defaults>>), <<"account", f.pattern[o]>>)
           told == NarrowestScope(f, o, listed, k)
           s == SettingsOf(f, o, listed)
<1>1. account[k] = Overlay(Overlay(Builtin[k], f.defaults[k]), f.pattern[o][k])
    BY ScopeApplied DEF Builtin
<1>2. s[k] = IF listed THEN Overlay(account[k], f.repository[o][k]) ELSE account[k]
    BY ScopeApplied DEF SettingsOf
<1>3. \/ told = "default" /\ s[k] = Builtin[k]
      \/ told = "defaults" /\ f.defaults[k] # Unset /\ s[k] \in f.defaults[k]
      \/ told = "account" /\ s[k] \in f.pattern[o][k] \cup (IF listed THEN f.repository[o][k] ELSE {})
  <2> HIDE DEF account, s, f
  <2> QED BY <1>1, <1>2, Overlaid DEF NarrowestScope, Writes
<1>4. f.defaults[k] = IF k \in EnvKeys(running[2]) THEN running[2][k] ELSE running[1].defaults[k]
    BY DEF ConfigSound, Running, File, OverlaidDefaults, EnvKeys, Docs, Envs, Scopes
<1> QED BY <1>3, <1>4 DEF SourceOf

-----------------------------------------------------------------------------
\* The rules a repository runs: each scope's replace those of their ids.
Rules == (1 .. 2) \X {"defaults", "account", "repository"}

\* A scope's rules, each with the scope that wrote it.
Tagged(l, scope) == [i \in DOMAIN Overlay(<<>>, l.rules) |-> <<Overlay(<<>>, l.rules)[i], scope>>]

LEMMA ScopeRules ==
    ASSUME NEW l, l.rules \in RuleLists, NEW scope \in {"defaults", "account", "repository"}
    PROVE  Tagged(l, scope) \in Seq(Rules) /\ Elements(Tagged(l, scope)) = {<<id, scope>> : id \in Ids(l)}
<1> DEFINE r == Overlay(<<>>, l.rules)
           t == Tagged(l, scope)
<1>1. r \in Seq(1 .. 2) /\ Ids(l) = {id \in 1 .. 2 : \E i \in DOMAIN r : r[i] = id}
  <2>1. CASE l.rules = {}
    <3>1. r = <<>> /\ Ids(l) = {}
        BY <2>1 DEF Overlay, Unset, Ids
    <3>2. <<>> \in Seq(1 .. 2) /\ DOMAIN <<>> = {}
        OBVIOUS
    <3> QED BY <3>1, <3>2
  <2>2. ASSUME NEW w \in WrittenRules, l.rules = {w}
        PROVE  r \in Seq(1 .. 2) /\ Ids(l) = {id \in 1 .. 2 : \E i \in DOMAIN r : r[i] = id}
    <3>1. r = w
        BY <2>2 DEF Overlay, Unset
    <3>2. w \in Seq(1 .. 2)
      <4>1. <<>> \in Seq(1 .. 2) /\ <<1>> \in Seq(1 .. 2) /\ <<2, 1>> \in Seq(1 .. 2) /\ <<1, 1>> \in Seq(1 .. 2)
          OBVIOUS
      <4> QED BY <4>1 DEF WrittenRules
    <3>3. Ids(l) = {id \in 1 .. 2 : \E i \in DOMAIN w : w[i] = id}
        BY <2>2 DEF Ids
    <3> QED BY <3>1, <3>2, <3>3
  <2> QED BY <2>1, <2>2 DEF RuleLists, Unset
<1>2. t = [i \in DOMAIN r |-> <<r[i], scope>>]
    BY DEF Tagged
<1> HIDE DEF r, t
<1>3. DOMAIN r = 1 .. Len(r) /\ Len(r) \in Nat /\ \A i \in DOMAIN r : r[i] \in 1 .. 2
    BY <1>1
<1>4. t \in Seq(Rules)
    BY <1>2, <1>3 DEF Rules
<1>5. Elements(t) = {<<id, scope>> : id \in Ids(l)}
    BY <1>1, <1>2, <1>3 DEF Elements
<1> QED BY <1>4, <1>5 DEF t

LEMMA RulesLaid ==
    ASSUME NEW rules \in Seq(Rules), NEW more \in Seq(Rules), NEW scope, \A i \in DOMAIN more : more[i][2] = scope
    PROVE  /\ WithRules(rules, more) \in Seq(Rules)
           /\ Elements(WithRules(rules, more)) = {r \in Elements(rules) : ~Has(more, r[1])} \cup Elements(more)
<1> DEFINE kept == [i \in DOMAIN rules |-> Replaced(rules[i], more)]
           new == Picked(more, New(rules, more))
<1>1. \A r \in Rules : r = <<r[1], r[2]>>
    BY DEF Rules
<1>2. ASSUME NEW id, Has(more, id) PROVE RuleOf(more, id) \in Elements(more) /\ RuleOf(more, id) = <<id, scope>>
  <2> DEFINE i == CHOOSE k \in DOMAIN more : more[k][1] = id
  <2>1. i \in DOMAIN more /\ more[i][1] = id
      BY <1>2 DEF Has
  <2>2. RuleOf(more, id) = more[i]
      BY DEF RuleOf
  <2> HIDE DEF i
  <2>3. more[i] \in Rules
      BY <2>1
  <2> QED BY <1>1, <2>1, <2>2, <2>3 DEF Elements
<1>3. ASSUME NEW i \in DOMAIN rules
      PROVE  /\ Replaced(rules[i], more) \in Rules
             /\ Replaced(rules[i], more) \in {r \in Elements(rules) : ~Has(more, r[1])} \cup Elements(more)
  <2>1. rules[i] \in Rules /\ rules[i] \in Elements(rules)
      BY DEF Elements
  <2>2. Elements(more) \subseteq Rules
      BY DEF Elements
  <2> QED BY <1>2, <2>1, <2>2 DEF Replaced
<1>4. kept \in Seq(Rules) /\ Elements(kept) \subseteq {r \in Elements(rules) : ~Has(more, r[1])} \cup Elements(more)
    BY <1>3 DEF Elements
<1>5. {r \in Elements(rules) : ~Has(more, r[1])} \subseteq Elements(kept)
  <2> SUFFICES ASSUME NEW i \in DOMAIN rules, ~Has(more, rules[i][1]) PROVE rules[i] \in Elements(kept)
      BY DEF Elements
  <2>1. kept[i] = rules[i]
      BY DEF Replaced
  <2> QED BY <2>1 DEF Elements
<1>6. New(rules, more) \in SUBSET (DOMAIN more)
    BY DEF New
<1>7. new \in Seq(Rules) /\ Elements(new) = {more[i] : i \in New(rules, more)}
    BY <1>6, PickedMembers
<1>8. Elements(more) \subseteq Elements(kept) \cup Elements(new)
  <2> SUFFICES ASSUME NEW i \in DOMAIN more PROVE more[i] \in Elements(kept) \cup Elements(new)
      BY DEF Elements
  <2> DEFINE id == more[i][1]
  <2>1. more[i] = <<id, scope>> /\ Has(more, id)
    <3>1. more[i] \in Rules
        OBVIOUS
    <3> QED BY <1>1, <3>1 DEF Has
  <2>2. CASE Has(rules, id)
    <3>1. PICK k \in DOMAIN rules : rules[k][1] = id
        BY <2>2 DEF Has
    <3>2. kept[k] = <<id, scope>>
        BY <1>2, <2>1, <3>1 DEF Replaced
    <3> QED BY <2>1, <3>1, <3>2 DEF Elements
  <2>3. CASE ~Has(rules, id)
    <3> DEFINE S == {k \in DOMAIN more : more[k][1] = id}
    <3>1. S \subseteq Nat /\ i \in S
        OBVIOUS
    <3>2. PICK k \in S : \A l \in S : k <= l
        BY <3>1, LeastOf
    <3>3. k \in New(rules, more)
      <4>1. ASSUME NEW j \in 1 .. k - 1 PROVE more[j][1] # id
        <5>1. j \in DOMAIN more /\ j < k /\ k \in Nat
            BY <3>2
        <5> QED BY <3>2, <5>1
      <4> QED BY <2>3, <3>2, <4>1 DEF New
    <3>4. more[k] = more[i]
      <4>1. more[k] \in Rules /\ more[k][1] = id
          BY <3>2
      <4>2. more[k][2] = scope
          BY <3>2
      <4> QED BY <1>1, <2>1, <4>1, <4>2
    <3> QED BY <1>7, <3>3, <3>4
  <2> QED BY <2>2, <2>3
<1>9. Elements(new) \subseteq Elements(more)
    BY <1>6, <1>7 DEF Elements
<1>10. WithRules(rules, more) = kept \o new
    BY DEF WithRules
<1> HIDE DEF kept, new
<1>11. WithRules(rules, more) \in Seq(Rules) /\ Elements(WithRules(rules, more)) = Elements(kept) \cup Elements(new)
    BY <1>4, <1>7, <1>10, JoinedMembers
<1> QED BY <1>4, <1>5, <1>8, <1>9, <1>11

LEMMA RulesApplied ==
    ASSUME NEW s, s.rules \in Seq(Rules), NEW l, l.rules \in RuleLists,
           NEW scope \in {"defaults", "account", "repository"}
    PROVE  LET rules == ApplyScope(s, <<scope, l>>).rules
           IN /\ rules \in Seq(Rules)
              /\ Elements(rules) = {r \in Elements(s.rules) : r[1] \notin Ids(l)} \cup {<<id, scope>> : id \in Ids(l)}
<1> DEFINE more == Tagged(l, scope)
           rules == ApplyScope(s, <<scope, l>>).rules
<1>1. rules = WithRules(s.rules, more)
    BY DEF ApplyScope, Tagged
<1>2. more \in Seq(Rules) /\ Elements(more) = {<<id, scope>> : id \in Ids(l)}
    BY ScopeRules
<1> HIDE DEF more, rules
<1>3. ASSUME NEW i \in DOMAIN more PROVE \E id \in Ids(l) : more[i] = <<id, scope>>
    BY <1>2 DEF Elements
<1>4. \A i \in DOMAIN more : more[i][2] = scope
    BY <1>3
<1>5. \A id : Has(more, id) <=> id \in Ids(l)
  <2>1. ASSUME NEW id \in Ids(l) PROVE Has(more, id)
    <3>1. PICK i \in DOMAIN more : more[i] = <<id, scope>>
        BY <1>2 DEF Elements
    <3> QED BY <3>1 DEF Has
  <2> QED BY <1>3, <2>1 DEF Has
<1>6. /\ rules \in Seq(Rules)
      /\ Elements(rules) = {r \in Elements(s.rules) : ~Has(more, r[1])} \cup Elements(more)
    BY <1>1, <1>2, <1>4, RulesLaid
<1> QED BY <1>2, <1>5, <1>6 DEF rules

\* What RuleScopes tells of a rule is where Settings took it
\* (configfile/policy.go, rules.go).
LEMMA SoundRules == ConfigSound => SourcesAgree
<1> SUFFICES ASSUME ConfigSound, NEW o \in ServedAccounts(Running), NEW listed \in BOOLEAN
             PROVE  LET s == SettingsOf(Running, o, listed)
                        scopes == RuleScopes(Running, o, listed)
                    IN {s.rules[i] : i \in DOMAIN s.rules} = {<<id, scopes[id]>> : id \in DOMAIN scopes}
    BY SoundSources DEF SourcesAgree
<1> DEFINE f == Running
           D == f.defaults
           A == f.pattern[o]
           R == f.repository[o]
           one == ApplyScope(Builtin, <<"defaults", D>>)
           two == ApplyScope(one, <<"account", A>>)
           three == ApplyScope(two, <<"repository", R>>)
           s == SettingsOf(f, o, listed)
           scopes == RuleScopes(f, o, listed)
<1>1. D.rules \in RuleLists /\ A.rules \in RuleLists /\ R.rules \in RuleLists
  <2>1. o \in Owner /\ running[1] \in Docs
      BY DEF ConfigSound, ServedAccounts
  <2>2. D.rules = running[1].defaults.rules /\ f.pattern = running[1].pattern /\ f.repository = running[1].repository
      BY <2>1 DEF Running, File, OverlaidDefaults, Docs, Scopes
  <2> QED BY <2>1, <2>2 DEF Docs, Scopes
<1>2. s = IF listed THEN three ELSE two
    BY DEF SettingsOf
<1>3. DOMAIN scopes = Ids(D) \cup Ids(A) \cup (IF listed THEN Ids(R) ELSE {})
      /\ \A id \in DOMAIN scopes :
            scopes[id] = IF listed /\ id \in Ids(R) THEN "repository" ELSE IF id \in Ids(A) THEN "account" ELSE "defaults"
    BY DEF RuleScopes
<1> HIDE DEF s, scopes, D, A, R
<1>4. Builtin.rules \in Seq(Rules) /\ Elements(Builtin.rules) = {}
    BY DEF Builtin, Elements
<1>5. one.rules \in Seq(Rules) /\ Elements(one.rules) = {<<id, "defaults">> : id \in Ids(D)}
  <2>1. /\ one.rules \in Seq(Rules)
        /\ Elements(one.rules) = {r \in Elements(Builtin.rules) : r[1] \notin Ids(D)} \cup {<<id, "defaults">> : id \in Ids(D)}
      BY <1>1, <1>4, RulesApplied
  <2> QED BY <1>4, <2>1
<1> HIDE DEF one
<1>6. /\ two.rules \in Seq(Rules)
      /\ Elements(two.rules) = {r \in Elements(one.rules) : r[1] \notin Ids(A)} \cup {<<id, "account">> : id \in Ids(A)}
    BY <1>1, <1>5, RulesApplied
<1> HIDE DEF two
<1>7. /\ three.rules \in Seq(Rules)
      /\ Elements(three.rules) = {r \in Elements(two.rules) : r[1] \notin Ids(R)} \cup {<<id, "repository">> : id \in Ids(R)}
    BY <1>1, <1>6, RulesApplied
<1> HIDE DEF three
<1>8. Elements(two.rules) = {<<id, IF id \in Ids(A) THEN "account" ELSE "defaults">> : id \in Ids(D) \cup Ids(A)}
    BY <1>5, <1>6
<1>9. Elements(three.rules) = {<<id, IF id \in Ids(R) THEN "repository" ELSE IF id \in Ids(A) THEN "account" ELSE "defaults">> :
                                  id \in Ids(D) \cup Ids(A) \cup Ids(R)}
    BY <1>7, <1>8
<1>10. Elements(s.rules) = {<<id, scopes[id]>> : id \in DOMAIN scopes}
  <2>1. CASE listed
      BY <1>2, <1>3, <1>9, <2>1
  <2>2. CASE ~listed
      BY <1>2, <1>3, <1>8, <2>2
  <2> QED BY <2>1, <2>2
<1> QED BY <1>10 DEF Elements, s, scopes

\* What is accepted stays acceptable when apps list other accounts: no entry is
\* judged by who serves it (configfile/load.go).
LEMMA SoundEntries == ConfigSound => EntriesStand
<1> SUFFICES ASSUME ConfigSound, doc = [running[1] EXCEPT !.apps = doc.apps],
                    env = [running[2] EXCEPT !.app = env.app], ValidConnections(File(doc, env))
             PROVE  Accepted(doc, env)
    BY DEF EntriesStand
<1> DEFINE f == File(running[1], running[2])
           g == File(doc, env)
<1>1. /\ doc.providers = running[1].providers /\ doc.defaults = running[1].defaults
      /\ doc.entries = running[1].entries /\ doc.pattern = running[1].pattern
      /\ doc.repository = running[1].repository
    BY DEF ConfigSound, Docs
<1>2. /\ env.provider = running[2].provider /\ env.model = running[2].model
      /\ env.settle = running[2].settle /\ env.missing = running[2].missing
    BY DEF ConfigSound, Envs
<1>3. /\ g.providers = f.providers /\ g.defaults = f.defaults /\ g.entries = f.entries
      /\ g.pattern = f.pattern /\ g.repository = f.repository
    BY <1>1, <1>2 DEF ConfigSound, Docs, File, OverlaidProviders, OverlaidDefaults
<1> HIDE DEF f, g
<1>4. Gathered(g) = Gathered(f)
    BY <1>3 DEF Gathered
<1>5. \A t, l : ValidOverrides(f, t, l) => ValidOverrides(g, t, l)
    BY <1>3 DEF ValidOverrides, CheckModels, ProviderFound
<1>6. \A o \in Owner : ValidAccount(f, o) => ValidAccount(g, o)
    BY <1>3, <1>5 DEF ValidAccount
<1>7. SecretsRead(f, running[2]) /\ ValidAccounts(f)
    BY DEF ConfigSound, Accepted, f
<1>8. SecretsRead(g, env)
    BY <1>2, <1>3, <1>7 DEF SecretsRead
<1>9. ValidAccounts(g)
    BY <1>3, <1>4, <1>5, <1>6, <1>7 DEF ValidAccounts, Gathered
<1> QED BY <1>8, <1>9 DEF Accepted, g

\* However an admin layered what runs, the model of a repository is none or of
\* a provider its account may use (configfile/resolve.go, load.go).
THEOREM ModelsStayResolved == ConfigSpec => []ModelsResolve
BY ConfigInitSound, ConfigNextSound, SoundResolves, PTL DEF ConfigSpec

\* The dashboard's word on where a setting comes from is where it was taken,
\* the environment included (configfile/resolve.go, Sources).
THEOREM SourcesTellTheTruth == ConfigSpec => []KeysAgree
BY ConfigInitSound, ConfigNextSound, SoundSources, PTL DEF ConfigSpec

\* So is its word on where a rule comes from: the scopes as RuleScopes walks
\* them are those that WithRules laid over each other (configfile/rules.go).
THEOREM RulesTellTheTruth == ConfigSpec => []SourcesAgree
BY ConfigInitSound, ConfigNextSound, SoundRules, PTL DEF ConfigSpec

\* Nothing that runs is refused later for an entry no one touched
\* (configfile/load.go).
THEOREM EntriesKeepStanding == ConfigSpec => []EntriesStand
BY ConfigInitSound, ConfigNextSound, SoundEntries, PTL DEF ConfigSpec

LEMMA ConfigTypes == ConfigSound => ConfigTypeOK
BY KeysNamed DEF ConfigSound, ConfigTypeOK, Docs, Envs, Scopes

-----------------------------------------------------------------------------
(***************************************************************************)
(* What a review is given, for any settings, documents, trees and changes. *)
(*                                                                         *)
(* The budgets are walks: over the names of files, the rules, the agent    *)
(* files, the files of a diff.  Of each walk there is what a step does     *)
(* (KeepFacts, AddRuleFacts, InstructFacts, AddFileFacts), that the walk   *)
(* takes these steps (CollectedFacts, ActivatedFacts, InstructedFacts,     *)
(* FittedFacts), and, counting up, what it comes to.  That a file of       *)
(* .kritika.yaml crowds out no rule of the admin's is about two walks: the *)
(* names of the admin's rules come first, and a file they are refused is   *)
(* refused ever after, so both read the same of them (ReadAlike); and what *)
(* is given of them is settled before the others come (ActiveAlone).       *)
(***************************************************************************)
\* What the first items of a list come to is a function, one item more at each
\* step.
LEMMA SumsFacts ==
    ASSUME NEW s \in Seq(Int)
    PROVE  /\ Sums(s) \in [0 .. Len(s) -> Int] /\ Sums(s)[0] = 0
           /\ \A i \in 1 .. Len(s) : Sums(s)[i] = Sums(s)[i - 1] + s[i]
<1> DEFINE n == Len(s)
           walk == [i \in 1 .. n |-> [t \in Int |-> t + s[i]]]
           Back(f, i) == IF i = 0 THEN 0 ELSE f[i - 1] + s[i]
           Fits(f) == f = [i \in 0 .. n |-> Back(f, i)]
<1>1. n \in Nat /\ \A i \in 1 .. n : s[i] \in Int
    OBVIOUS
<1>2. walk \in [1 .. n -> [Int -> Int]]
    BY <1>1
<1>3. \A i \in 1 .. n, t \in Int : walk[i][t] = t + s[i]
    OBVIOUS
<1> HIDE DEF walk
<1>4. PICK g \in [0 .. n -> Int] : Stepped(g, n, 0, walk)
  <2> HIDE DEF n
  <2>1. \E g \in [0 .. n -> Int] : Stepped(g, n, 0, walk)
    <3>1. 0 \in Int /\ n \in Nat
        BY <1>1
    <3> QED BY <1>2, <3>1, Walked, Zenon
  <2> QED BY <2>1
<1>5. \A i \in 0 .. n : g[i] = Back(g, i)
  <2>1. ASSUME NEW i \in 0 .. n, i # 0 PROVE i \in 1 .. n /\ i - 1 \in 0 .. n
      BY <1>1, <2>1
  <2> QED BY <1>3, <1>4, <2>1 DEF Stepped
<1>6. Fits(g)
  <2> HIDE DEF Back
  <2> QED BY <1>5
<1>7. Sums(s) = CHOOSE f : Fits(f)
    BY DEF Sums
<1>8. Fits(Sums(s))
  <2> HIDE DEF Fits
  <2> QED BY <1>6, <1>7
<1>9. Sums(s)[0] = 0 /\ \A i \in 1 .. n : Sums(s)[i] = Sums(s)[i - 1] + s[i]
    BY <1>1, <1>8
<1>10. \A i \in 0 .. n : Sums(s)[i] \in Int
  <2> DEFINE G == {i \in 0 .. n : Sums(s)[i] \in Int}
  <2>1. 0 \in G
      BY <1>1, <1>9
  <2>2. \A i \in 1 .. n : i - 1 \in G => i \in G
      BY <1>1, <1>9
  <2>3. \A i \in 0 .. n : i \in G
    <3> HIDE DEF G, n
    <3> QED BY <1>1, <2>1, <2>2, Counting
  <2> QED BY <2>3
<1> QED BY <1>8, <1>9, <1>10

(***************************************************************************)
(* The files of a commit.                                                  *)
(***************************************************************************)
\* What n names of N may have come to.
Got(N) == [files : UNION {[S -> Nat] : S \in SUBSET N}, notes : SUBSET N, total : Nat]
Sized(commit) == commit.doc.size \in Nat /\ commit.tree \in [DOMAIN commit.tree -> Nat]

\* Keeping a file, or noting it, leaves a record of files, notes and a total.
LEMMA KeepTyped ==
    ASSUME NEW N, NEW got \in Got(N), NEW f \in N, NEW size \in Nat
    PROVE  Keep(got, f, size) \in Got(N)
<1> DEFINE S == DOMAIN got.files \cup {f}
           more == WithFile(got.files, f, size)
<1>1. got.files \in [DOMAIN got.files -> Nat] /\ DOMAIN got.files \in SUBSET N /\ got.total \in Nat /\ got.notes \in SUBSET N
      /\ DOMAIN got = {"files", "notes", "total"}
    BY DEF Got
<1>2. more \in [S -> Nat] /\ S \in SUBSET N
    BY <1>1 DEF WithFile
<1>3. got.total + size \in Nat
    BY <1>1
<1> HIDE DEF S, more
<1>5. [got EXCEPT !.notes = @ \cup {f}] \in Got(N)
    BY DEF Got
<1>6. [got EXCEPT !.files = WithFile(@, f, size), !.total = @ + size] \in Got(N)
  <2>1. got \in [files : UNION {[R -> Nat] : R \in SUBSET N}, notes : SUBSET N, total : Nat]
      BY DEF Got
  <2>2. more \in UNION {[R -> Nat] : R \in SUBSET N}
      BY <1>2
  <2> QED BY <1>3, <2>1, <2>2 DEF more, Got
<1> QED BY <1>5, <1>6 DEF Keep

\* So does reading one.
LEMMA ReadTyped ==
    ASSUME NEW N, NEW commit, Sized(commit), NEW got \in Got(N), NEW f \in N
    PROVE  Read(commit, got, f) \in Got(N)
<1>1. HasFile(commit, f) => SizeAt(commit, f) \in Nat
    BY DEF Sized, HasFile, SizeAt
<1>2. [got EXCEPT !.notes = @ \cup {f}] \in Got(N)
    BY DEF Got
<1> QED BY <1>1, <1>2, KeepTyped DEF Read

\* What Collect comes to after each of the names.
LEMMA CollectedFacts ==
    ASSUME NEW N, NEW commit, Sized(commit), NEW names \in Seq(N)
    PROVE  /\ \A i \in 0 .. Len(names) : Collected(commit, names)[i] \in Got(N)
           /\ Collected(commit, names)[0] = NoFiles
           /\ \A i \in 1 .. Len(names) :
                  Collected(commit, names)[i] = Read(commit, Collected(commit, names)[i - 1], names[i])
<1> DEFINE n == Len(names)
           T == Got(N)
           c == Collected(commit, names)
           walk == [i \in 1 .. n |-> [t \in T |-> Read(commit, t, names[i])]]
           Back(f, i) == IF i = 0 THEN NoFiles ELSE Read(commit, f[i - 1], names[i])
           Fits(f) == f = [i \in 0 .. n |-> Back(f, i)]
<1>1. n \in Nat /\ \A i \in 1 .. n : names[i] \in N
    OBVIOUS
<1>2. NoFiles \in T
  <2>1. [f \in {} |-> 0] \in [{} -> Nat] /\ {} \in SUBSET N
      OBVIOUS
  <2> QED BY <2>1 DEF NoFiles, Got
<1>3. \A i \in 1 .. n, t \in T : Read(commit, t, names[i]) \in T
    BY <1>1, ReadTyped
<1> HIDE DEF T
<1>4. walk \in [1 .. n -> [T -> T]] /\ \A i \in 1 .. n, t \in T : walk[i][t] = Read(commit, t, names[i])
    BY <1>3
<1> HIDE DEF walk
<1>5. PICK g \in [0 .. n -> T] : Stepped(g, n, NoFiles, walk)
  <2> HIDE DEF n
  <2> QED BY <1>1, <1>2, <1>4, Walked, Zenon
<1>6. \A i \in 0 .. n : g[i] = Back(g, i)
  <2>1. ASSUME NEW i \in 0 .. n, i # 0 PROVE i \in 1 .. n /\ i - 1 \in 0 .. n
      BY <1>1, <2>1
  <2> QED BY <1>4, <1>5, <2>1 DEF Stepped
<1>7. Fits(g)
  <2> HIDE DEF Back
  <2> QED BY <1>6
<1>8. c = CHOOSE f : Fits(f)
    BY DEF Collected
<1>9. Fits(c)
  <2> HIDE DEF Fits, c
  <2> QED BY <1>7, <1>8
<1> HIDE DEF c
<1>10. c[0] = NoFiles /\ \A i \in 1 .. n : c[i] = Read(commit, c[i - 1], names[i])
    BY <1>1, <1>9
<1>11. \A i \in 0 .. n : c[i] \in T
  <2> DEFINE G == {i \in 0 .. n : c[i] \in T}
  <2>1. 0 \in G
      BY <1>1, <1>2, <1>10
  <2>2. \A i \in 1 .. n : i - 1 \in G => i \in G
      BY <1>1, <1>3, <1>10
  <2>3. \A i \in 0 .. n : i \in G
    <3> HIDE DEF G, n
    <3> QED BY <1>1, <2>1, <2>2, Counting
  <2> QED BY <2>3
<1> QED BY <1>10, <1>11 DEF T, c

\* A file that is not kept, and will not be.
Refused(commit, got, f) ==
    ~HasFile(commit, f) \/ SizeAt(commit, f) > Room.file \/ got.total + SizeAt(commit, f) > Room.total
Kept(commit, got) == \A f \in DOMAIN got.files : HasFile(commit, f) /\ got.files[f] = SizeAt(commit, f)
\* b comes after a.
Later(commit, a, b) ==
    /\ DOMAIN a.files \subseteq DOMAIN b.files /\ a.notes \subseteq b.notes /\ a.total <= b.total
    /\ \A f \in DOMAIN b.files \ DOMAIN a.files : ~Refused(commit, a, f)

\* Later is transitive: a file refused stays so, as the total only grows.
LEMMA LaterOn ==
    ASSUME NEW N, NEW commit, Sized(commit), NEW a \in Got(N), NEW b \in Got(N), NEW c \in Got(N),
           Later(commit, a, b), Later(commit, b, c)
    PROVE  Later(commit, a, c)
<1>1. a.total \in Nat /\ b.total \in Nat /\ c.total \in Nat /\ Room.total \in Nat
    BY BriefingAssumption DEF Got
<1>2. ASSUME NEW f, ~Refused(commit, b, f) PROVE ~Refused(commit, a, f)
  <2>1. SizeAt(commit, f) \in Nat
      BY <1>2 DEF Refused, Sized, HasFile, SizeAt
  <2> QED BY <1>1, <1>2, <2>1 DEF Refused, Later
<1>3. a.total <= c.total
    BY <1>1 DEF Later
<1> QED BY <1>2, <1>3 DEF Later

\* A file there is is kept as it is, or noted and refused from then on.
LEMMA KeepFacts ==
    ASSUME NEW N, NEW commit, Sized(commit), NEW got \in Got(N), Kept(commit, got), NEW f, HasFile(commit, f), f \notin DOMAIN got.files
    PROVE  LET to == Keep(got, f, SizeAt(commit, f))
           IN /\ Later(commit, got, to) /\ Kept(commit, to)
              /\ f \in DOMAIN to.files \/ (f \in to.notes /\ Refused(commit, to, f))
<1> DEFINE size == SizeAt(commit, f)
           more == WithFile(got.files, f, size)
           to == Keep(got, f, size)
<1>1. size \in Nat /\ got.total \in Nat /\ Room.total \in Nat /\ Room.file \in Nat
    BY BriefingAssumption DEF Sized, HasFile, SizeAt, Got
<1>2. DOMAIN got = {"files", "notes", "total"}
    BY DEF Got
<1>3. CASE size > Room.file \/ got.total + size > Room.total
  <2>1. to.files = got.files /\ to.notes = got.notes \cup {f} /\ to.total = got.total
      BY <1>2, <1>3 DEF Keep
  <2> HIDE DEF to
  <2> QED BY <1>1, <1>3, <2>1 DEF Later, Kept, Refused, to
<1>4. CASE ~(size > Room.file \/ got.total + size > Room.total)
  <2>1. to.files = more /\ to.notes = got.notes /\ to.total = got.total + size
      BY <1>2, <1>4 DEF Keep
  <2>2. DOMAIN more = DOMAIN got.files \cup {f} /\ more[f] = size /\ \A g \in DOMAIN got.files : more[g] = got.files[g]
      BY DEF WithFile
  <2>3. ~Refused(commit, got, f)
      BY <1>4 DEF Refused
  <2>4. got.total <= got.total + size
      BY <1>1
  <2> HIDE DEF to, more
  <2>5. Kept(commit, to)
      BY <2>1, <2>2 DEF Kept
  <2>6. Later(commit, got, to)
      BY <2>1, <2>2, <2>3, <2>4 DEF Later
  <2> QED BY <2>1, <2>2, <2>5, <2>6 DEF to
<1> QED BY <1>3, <1>4

\* A file that is named is read, or noted and refused from then on.
LEMMA ReadFacts ==
    ASSUME NEW N, NEW commit, Sized(commit), NEW got \in Got(N), Kept(commit, got), NEW f
    PROVE  LET to == Read(commit, got, f)
           IN /\ Later(commit, got, to) /\ Kept(commit, to)
              /\ f = NoFile \/ f \in DOMAIN to.files \/ (f \in to.notes /\ Refused(commit, to, f))
<1> DEFINE to == Read(commit, got, f)
<1>0. got.total \in Nat
    BY DEF Got
<1>1. CASE f = NoFile \/ f \in DOMAIN got.files
    BY <1>0, <1>1 DEF Read, Later
<1>2. CASE ~(f = NoFile \/ f \in DOMAIN got.files) /\ ~HasFile(commit, f)
  <2>1. to.files = got.files /\ to.notes = got.notes \cup {f} /\ to.total = got.total
    <3>1. DOMAIN got = {"files", "notes", "total"}
        BY DEF Got
    <3> QED BY <1>2, <3>1 DEF Read
  <2> HIDE DEF to
  <2>2. Later(commit, got, to) /\ Kept(commit, to) /\ f \in to.notes /\ Refused(commit, to, f)
      BY <1>0, <1>2, <2>1 DEF Later, Kept, Refused
  <2> QED BY <2>2 DEF to
<1>3. CASE ~(f = NoFile \/ f \in DOMAIN got.files) /\ HasFile(commit, f)
  <2>1. to = Keep(got, f, SizeAt(commit, f))
      BY <1>3 DEF Read
  <2> QED BY <1>3, <2>1, KeepFacts
<1> QED BY <1>1, <1>2, <1>3

(***************************************************************************)
(* The rules that apply.                                                   *)
(***************************************************************************)
Active(R) == [out : Seq(R), left : Nat, rules : Int, ruleFiles : Int]
NoneActive == [out |-> <<>>, left |-> 0, rules |-> Room.rules, ruleFiles |-> Room.ruleFiles]
Texts(R, files) == \A r \in R : TextOf(r, files) \in Nat
Passed(r, files, changed) ==
    ~Holds(r) \/ ~AppliesTo(r.paths, changed) \/ (r.file # NoFile /\ TextOf(r, files) = 0)

Adds(given, r, files, changed, to) ==
    /\ given.left <= to.left
    /\ \/ to.out = given.out /\ (Passed(r, files, changed) \/ to.left > 0)
       \/ to.out = Append(given.out, r)

\* A rule is given at the end, or passed, or counted as left out.
LEMMA AddRuleFacts ==
    ASSUME NEW R, NEW files, Texts(R, files), NEW changed, NEW given \in Active(R), NEW r \in R
    PROVE  /\ AddRule(files, changed, given, r) \in Active(R)
           /\ Adds(given, r, files, changed, AddRule(files, changed, given, r))
<1> DEFINE size == TextOf(r, files)
           kind == IF r.file = NoFile THEN "rules" ELSE "ruleFiles"
           to == AddRule(files, changed, given, r)
<1>1. size \in Nat /\ kind \in {"rules", "ruleFiles"}
    BY DEF Texts
<1>2. /\ given.out \in Seq(R) /\ given.left \in Nat /\ given.rules \in Int /\ given.ruleFiles \in Int
      /\ DOMAIN given = {"out", "left", "rules", "ruleFiles"}
    BY DEF Active
<1> HIDE DEF size, kind
<1>3. given[kind] \in Int
    BY <1>1, <1>2
<1>4. CASE Passed(r, files, changed)
    BY <1>2, <1>4 DEF AddRule, Passed, Adds
<1>5. CASE ~Passed(r, files, changed) /\ size > given[kind]
  <2>1. to = [given EXCEPT !.left = @ + 1]
      BY <1>5 DEF AddRule, Passed, size, kind
  <2>2. to \in Active(R) /\ to.out = given.out /\ to.left = given.left + 1
      BY <1>2, <2>1 DEF Active
  <2> HIDE DEF to
  <2> QED BY <1>2, <1>5, <2>2 DEF to, Adds
<1>6. CASE ~Passed(r, files, changed) /\ ~(size > given[kind])
  <2>1. to = [given EXCEPT !.out = Append(@, r), ![kind] = @ - size]
      BY <1>6 DEF AddRule, Passed, size, kind
  <2>2. Append(given.out, r) \in Seq(R) /\ given[kind] - size \in Int
      BY <1>1, <1>2, <1>3
  <2>3. to \in Active(R) /\ to.out = Append(given.out, r) /\ to.left = given.left
    <3>1. CASE kind = "rules"
      <4>1. to = [given EXCEPT !.out = Append(@, r), !.rules = @ - size]
          BY <2>1, <3>1
      <4> QED BY <1>2, <2>2, <3>1, <4>1 DEF Active
    <3>2. CASE kind = "ruleFiles"
      <4>1. to = [given EXCEPT !.out = Append(@, r), !.ruleFiles = @ - size]
          BY <2>1, <3>2
      <4> QED BY <1>2, <2>2, <3>2, <4>1 DEF Active
    <3> QED BY <1>1, <3>1, <3>2
  <2> HIDE DEF to
  <2> QED BY <1>2, <2>3 DEF to, Adds
<1> QED BY <1>4, <1>5, <1>6

\* What ActiveRules comes to after each of the rules.
LEMMA ActivatedFacts ==
    ASSUME NEW R, NEW files, Texts(R, files), NEW changed, NEW rules \in Seq(R)
    PROVE  /\ \A i \in 0 .. Len(rules) : Activated(rules, files, changed)[i] \in Active(R)
           /\ Activated(rules, files, changed)[0] = NoneActive
           /\ \A i \in 1 .. Len(rules) :
                  Activated(rules, files, changed)[i]
                      = AddRule(files, changed, Activated(rules, files, changed)[i - 1], rules[i])
<1> DEFINE n == Len(rules)
           T == Active(R)
           c == Activated(rules, files, changed)
           walk == [i \in 1 .. n |-> [t \in T |-> AddRule(files, changed, t, rules[i])]]
           Back(f, i) == IF i = 0 THEN NoneActive ELSE AddRule(files, changed, f[i - 1], rules[i])
           Fits(f) == f = [i \in 0 .. n |-> Back(f, i)]
<1>1. n \in Nat /\ \A i \in 1 .. n : rules[i] \in R
    OBVIOUS
<1>2. NoneActive \in T
    BY BriefingAssumption DEF NoneActive, Active
<1>3. \A i \in 1 .. n, t \in T : AddRule(files, changed, t, rules[i]) \in T
    BY <1>1, AddRuleFacts
<1> HIDE DEF T
<1>4. walk \in [1 .. n -> [T -> T]] /\ \A i \in 1 .. n, t \in T : walk[i][t] = AddRule(files, changed, t, rules[i])
    BY <1>3
<1> HIDE DEF walk
<1>5. PICK g \in [0 .. n -> T] : Stepped(g, n, NoneActive, walk)
  <2> HIDE DEF n
  <2> QED BY <1>1, <1>2, <1>4, Walked, Zenon
<1>6. \A i \in 0 .. n : g[i] = Back(g, i)
  <2>1. ASSUME NEW i \in 0 .. n, i # 0 PROVE i \in 1 .. n /\ i - 1 \in 0 .. n
      BY <1>1, <2>1
  <2> QED BY <1>4, <1>5, <2>1 DEF Stepped
<1>7. Fits(g)
  <2> HIDE DEF Back
  <2> QED BY <1>6
<1>8. c = CHOOSE f : Fits(f)
    BY DEF Activated, NoneActive
<1>9. Fits(c)
  <2> HIDE DEF Fits, c
  <2> QED BY <1>7, <1>8
<1> HIDE DEF c
<1>10. c[0] = NoneActive /\ \A i \in 1 .. n : c[i] = AddRule(files, changed, c[i - 1], rules[i])
    BY <1>1, <1>9
<1>11. \A i \in 0 .. n : c[i] \in T
  <2> DEFINE G == {i \in 0 .. n : c[i] \in T}
  <2>1. 0 \in G
      BY <1>1, <1>2, <1>10
  <2>2. \A i \in 1 .. n : i - 1 \in G => i \in G
      BY <1>1, <1>3, <1>10
  <2>3. \A i \in 0 .. n : i \in G
    <3> HIDE DEF G, n
    <3> QED BY <1>1, <2>1, <2>2, Counting
  <2> QED BY <2>3
<1> QED BY <1>10, <1>11 DEF T, c

\* A rule that applies is given, counted or has no text.
LEMMA ActiveRulesSaid ==
    ASSUME NEW R, NEW files, Texts(R, files), NEW changed, NEW rules \in Seq(R)
    PROVE  LET active == ActiveRules(rules, files, changed)
           IN /\ active \in Active(R)
              /\ \A r \in Elements(rules) : r \in Elements(active.out) \/ active.left > 0 \/ Passed(r, files, changed)
<1> DEFINE n == Len(rules)
           c == Activated(rules, files, changed)
           Said(i) == \A j \in 1 .. i : rules[j] \in Elements(c[i].out) \/ c[i].left > 0 \/ Passed(rules[j], files, changed)
           G == {i \in 0 .. n : Said(i)}
<1>1. n \in Nat /\ \A i \in 1 .. n : rules[i] \in R
    OBVIOUS
<1>2. /\ \A i \in 0 .. n : c[i] \in Active(R)
      /\ \A i \in 1 .. n : c[i] = AddRule(files, changed, c[i - 1], rules[i])
    BY ActivatedFacts
<1> HIDE DEF c
<1>3. 0 \in G
    BY <1>1
<1>4. ASSUME NEW i \in 1 .. n, i - 1 \in G PROVE i \in G
  <2>1. c[i - 1] \in Active(R) /\ c[i] \in Active(R) /\ i - 1 \in 0 .. n /\ i \in 0 .. n
      BY <1>1, <1>2
  <2>2. Adds(c[i - 1], rules[i], files, changed, c[i])
      BY <1>1, <1>2, <2>1, AddRuleFacts
  <2>3. c[i - 1].left \in Nat /\ c[i].left \in Nat /\ c[i - 1].out \in Seq(R)
      BY <2>1 DEF Active
  <2>4. Elements(c[i - 1].out) \subseteq Elements(c[i].out)
        /\ (rules[i] \in Elements(c[i].out) \/ c[i].left > 0 \/ Passed(rules[i], files, changed))
    <3>1. ASSUME NEW r \in R PROVE Elements(Append(c[i - 1].out, r)) = Elements(c[i - 1].out) \cup {r}
        BY <2>3, AppendedMembers
    <3> QED BY <1>1, <2>2, <3>1 DEF Adds
  <2>5. ASSUME NEW j \in 1 .. i PROVE rules[j] \in Elements(c[i].out) \/ c[i].left > 0 \/ Passed(rules[j], files, changed)
    <3>1. j = i \/ j \in 1 .. i - 1
        BY <1>1
    <3>2. c[i - 1].left > 0 => c[i].left > 0
        BY <2>2, <2>3 DEF Adds
    <3>3. Said(i - 1)
        BY <1>4
    <3> QED BY <2>4, <3>1, <3>2, <3>3
  <2> QED BY <2>1, <2>5
<1>5. Said(n)
  <2>1. \A i \in 0 .. n : i \in G
    <3> HIDE DEF G, n
    <3> QED BY <1>1, <1>3, <1>4, Counting
  <2> QED BY <1>1, <2>1
<1>6. \A r \in Elements(rules) : r \in Elements(c[n].out) \/ c[n].left > 0 \/ Passed(r, files, changed)
    BY <1>5 DEF Elements
<1>7. ActiveRules(rules, files, changed) = c[n] /\ n \in 0 .. n
    BY <1>1 DEF ActiveRules, c
<1> QED BY <1>2, <1>6, <1>7

\* An item more adds its size.
LEMMA SumExtended ==
    ASSUME NEW s \in Seq(Int), NEW t \in Seq(Int), Len(t) = Len(s) + 1, \A i \in 1 .. Len(s) : t[i] = s[i]
    PROVE  Sum(t) = Sum(s) + t[Len(t)]
<1> DEFINE n == Len(s)
           G == {i \in 0 .. n : Sums(t)[i] = Sums(s)[i]}
<1>0. n \in Nat
    OBVIOUS
<1>1. n \in Nat /\ Len(t) = n + 1 /\ \A i \in 1 .. n : t[i] = s[i]
    OBVIOUS
<1>2. Sums(s)[0] = 0 /\ \A i \in 1 .. n : Sums(s)[i] = Sums(s)[i - 1] + s[i]
    BY SumsFacts
<1>3. Sums(t)[0] = 0 /\ \A i \in 1 .. n + 1 : Sums(t)[i] = Sums(t)[i - 1] + t[i]
    BY <1>1, SumsFacts
<1> HIDE DEF n
<1>4. 0 \in G
    BY <1>1, <1>2, <1>3
<1>5. ASSUME NEW i \in 1 .. n, i - 1 \in G PROVE i \in G
    BY <1>1, <1>2, <1>3, <1>5
<1>6. \A i \in 0 .. n : i \in G
  <2> HIDE DEF G
  <2> QED BY <1>1, <1>4, <1>5, Counting
<1>7. Sums(t)[n] = Sums(s)[n]
    BY <1>1, <1>6
<1>8. Sums(t)[n + 1] = Sums(t)[n] + t[n + 1]
  <2>1. ASSUME NEW k \in 1 .. n + 1, k - 1 = n PROVE Sums(t)[k] = Sums(t)[n] + t[k]
      BY <1>3, <2>1
  <2>2. n + 1 \in 1 .. n + 1 /\ (n + 1) - 1 = n
      BY <1>0
  <2> QED BY <2>1, <2>2
<1> QED BY <1>1, <1>7, <1>8 DEF Sum, n

\* Sums of integers are integers.
LEMMA SumTyped == ASSUME NEW s \in Seq(Int) PROVE Sum(s) \in Int /\ \A i \in 0 .. Len(s) : Sums(s)[i] \in Int
<1>1. Sums(s) \in [0 .. Len(s) -> Int] /\ Len(s) \in 0 .. Len(s)
    BY SumsFacts
<1> QED BY <1>1 DEF Sum

\* No items come to 0.
LEMMA SumOfNone == Sum(<<>>) = 0
<1>1. <<>> \in Seq(Int) /\ Len(<<>>) = 0
    OBVIOUS
<1> QED BY <1>1, SumsFacts DEF Sum

\* The smaller of two numbers.
LEMMA SmallerOf == ASSUME NEW a \in Int, NEW b \in Int
                   PROVE  Min({a, b}) = IF a <= b THEN a ELSE b
<1> DEFINE m == IF a <= b THEN a ELSE b
<1>1. m \in {a, b} /\ \A y \in {a, b} : m <= y
    OBVIOUS
<1>2. \A x \in {a, b} : (\A y \in {a, b} : x <= y) => x = m
    OBVIOUS
<1> HIDE DEF m
<1>3. Min({a, b}) = m
    BY <1>1, <1>2 DEF Min
<1> QED BY <1>3 DEF m

(***************************************************************************)
(* The instructions.                                                       *)
(***************************************************************************)
Instructing(S) == [out : Seq(S \X Nat), left : Nat, cut : BOOLEAN]
NoneGiven == [out |-> <<>>, left |-> Room.instructions, cut |-> FALSE]
Amounts(out) == [i \in DOMAIN out |-> out[i][2]]
Instructs(files, given, f, to) ==
    /\ given.cut => to.cut
    /\ \/ to = given /\ (files[f] = 0 \/ given.left = 0)
       \/ \E size \in Nat : /\ to.out = Append(given.out, <<f, size>>) /\ to.left = given.left - size
                            /\ to.cut \/ size = files[f]

\* A file of instructions is given whole, or cut and said so, or there is no
\* room.
LEMMA InstructFacts ==
    ASSUME NEW S, NEW files \in [S -> Nat], NEW given \in Instructing(S), NEW f \in S
    PROVE  Instruct(files, given, f) \in Instructing(S) /\ Instructs(files, given, f, Instruct(files, given, f))
<1> DEFINE size == Min({files[f], given.left})
           to == [out |-> Append(given.out, <<f, size>>), left |-> given.left - size, cut |-> given.cut \/ size < files[f]]
<1>1. given.out \in Seq(S \X Nat) /\ given.left \in Nat /\ given.cut \in BOOLEAN /\ files[f] \in Nat
    BY DEF Instructing
<1>2. size = IF files[f] <= given.left THEN files[f] ELSE given.left
    BY <1>1, SmallerOf
<1> HIDE DEF size
<1>3. size \in Nat /\ given.left - size \in Nat /\ size <= files[f]
    BY <1>1, <1>2
<1>4. to \in Instructing(S)
  <2>1. <<f, size>> \in S \X Nat
      BY <1>3
  <2>2. Append(given.out, <<f, size>>) \in Seq(S \X Nat)
      BY <1>1, <2>1
  <2> QED BY <1>3, <2>2 DEF Instructing
<1>5. to.cut \/ size = files[f]
  <2>1. size < files[f] \/ size = files[f]
      BY <1>1, <1>3
  <2>2. to.cut = (given.cut \/ size < files[f])
      OBVIOUS
  <2> QED BY <2>1, <2>2
<1>6. Instructs(files, given, f, to)
    BY <1>3, <1>5 DEF Instructs
<1>7. Instruct(files, given, f) = IF files[f] = 0 \/ given.left = 0 THEN given ELSE to
    BY DEF Instruct, size
<1> HIDE DEF to
<1>8. files[f] = 0 \/ given.left = 0 => Instructs(files, given, f, given)
    BY DEF Instructs
<1> QED BY <1>4, <1>6, <1>7, <1>8

\* What Instructions comes to after each of the files.
LEMMA InstructedFacts ==
    ASSUME NEW S, NEW files \in [S -> Nat], NEW names \in Seq(S)
    PROVE  /\ \A i \in 0 .. Len(names) : Instructed(files, names)[i] \in Instructing(S)
           /\ Instructed(files, names)[0] = NoneGiven
           /\ \A i \in 1 .. Len(names) : Instructed(files, names)[i] = Instruct(files, Instructed(files, names)[i - 1], names[i])
<1> DEFINE n == Len(names)
           T == Instructing(S)
           c == Instructed(files, names)
           walk == [i \in 1 .. n |-> [t \in T |-> Instruct(files, t, names[i])]]
           Back(f, i) == IF i = 0 THEN NoneGiven ELSE Instruct(files, f[i - 1], names[i])
           Fits(f) == f = [i \in 0 .. n |-> Back(f, i)]
<1>1. n \in Nat /\ \A i \in 1 .. n : names[i] \in S
    OBVIOUS
<1>2. NoneGiven \in T
    BY BriefingAssumption DEF NoneGiven, Instructing
<1>3. \A i \in 1 .. n, t \in T : Instruct(files, t, names[i]) \in T
    BY <1>1, InstructFacts
<1> HIDE DEF T
<1>4. walk \in [1 .. n -> [T -> T]] /\ \A i \in 1 .. n, t \in T : walk[i][t] = Instruct(files, t, names[i])
    BY <1>3
<1> HIDE DEF walk
<1>5. PICK g \in [0 .. n -> T] : Stepped(g, n, NoneGiven, walk)
  <2> HIDE DEF n
  <2> QED BY <1>1, <1>2, <1>4, Walked, Zenon
<1>6. \A i \in 0 .. n : g[i] = Back(g, i)
  <2>1. ASSUME NEW i \in 0 .. n, i # 0 PROVE i \in 1 .. n /\ i - 1 \in 0 .. n
      BY <1>1, <2>1
  <2> QED BY <1>4, <1>5, <2>1 DEF Stepped
<1>7. Fits(g)
  <2> HIDE DEF Back
  <2> QED BY <1>6
<1>8. c = CHOOSE f : Fits(f)
    BY DEF Instructed, NoneGiven
<1>9. Fits(c)
  <2> HIDE DEF Fits, c
  <2> QED BY <1>7, <1>8
<1> HIDE DEF c
<1>10. c[0] = NoneGiven /\ \A i \in 1 .. n : c[i] = Instruct(files, c[i - 1], names[i])
    BY <1>1, <1>9
<1>11. \A i \in 0 .. n : c[i] \in T
  <2> DEFINE G == {i \in 0 .. n : c[i] \in T}
  <2>1. 0 \in G
      BY <1>1, <1>2, <1>10
  <2>2. \A i \in 1 .. n : i - 1 \in G => i \in G
      BY <1>1, <1>3, <1>10
  <2>3. \A i \in 0 .. n : i \in G
    <3> HIDE DEF G, n
    <3> QED BY <1>1, <2>1, <2>2, Counting
  <2> QED BY <2>3
<1> QED BY <1>10, <1>11 DEF T, c

\* An amount more adds to what was given.
LEMMA AmountsAdd ==
    ASSUME NEW P, \A p \in P : p[2] \in Nat, NEW out \in Seq(P)
    PROVE  /\ Amounts(out) \in Seq(Int)
           /\ \A p \in P : Sum(Amounts(Append(out, p))) = Sum(Amounts(out)) + p[2]
<1>1. \A o \in Seq(P) : Amounts(o) \in Seq(Int) /\ Len(Amounts(o)) = Len(o) /\ \A i \in 1 .. Len(o) : Amounts(o)[i] = o[i][2]
  <2>1. ASSUME NEW o \in Seq(P)
        PROVE  Len(o) \in Nat /\ DOMAIN o = 1 .. Len(o) /\ \A i \in 1 .. Len(o) : o[i] \in P /\ o[i][2] \in Int
      OBVIOUS
  <2> QED BY <2>1 DEF Amounts
<1>2. ASSUME NEW p \in P PROVE Sum(Amounts(Append(out, p))) = Sum(Amounts(out)) + p[2]
  <2>1. /\ Append(out, p) \in Seq(P) /\ Len(Append(out, p)) = Len(out) + 1 /\ Len(out) \in Nat
        /\ Append(out, p)[Len(out) + 1] = p /\ \A i \in 1 .. Len(out) : Append(out, p)[i] = out[i]
      OBVIOUS
  <2>2. /\ Amounts(Append(out, p)) \in Seq(Int) /\ Len(Amounts(Append(out, p))) = Len(out) + 1
        /\ \A i \in 1 .. Len(out) + 1 : Amounts(Append(out, p))[i] = Append(out, p)[i][2]
      BY <1>1, <2>1
  <2>3. Amounts(out) \in Seq(Int) /\ Len(Amounts(out)) = Len(out) /\ \A i \in 1 .. Len(out) : Amounts(out)[i] = out[i][2]
      BY <1>1
  <2> HIDE DEF Amounts
  <2>4. Len(out) + 1 \in 1 .. Len(out) + 1 /\ \A i \in 1 .. Len(out) : i \in 1 .. Len(out) + 1
      BY <2>1
  <2>5. \A i \in 1 .. Len(out) : Amounts(Append(out, p))[i] = Amounts(out)[i]
      BY <2>1, <2>2, <2>3, <2>4
  <2>6. Sum(Amounts(Append(out, p))) = Sum(Amounts(out)) + Amounts(Append(out, p))[Len(Amounts(Append(out, p)))]
      BY <2>2, <2>3, <2>5, SumExtended
  <2> QED BY <2>1, <2>2, <2>4, <2>6
<1> QED BY <1>1, <1>2

\* Each file of instructions is given whole, unless one was cut or the room is
\* full.
LEMMA InstructionsSaid ==
    ASSUME NEW S, NEW files \in [S -> Nat], NEW names \in Seq(S)
    PROVE  LET given == Instructions(files, names)
           IN /\ given \in Instructing(S)
              /\ given.cut \/ Sum(Amounts(given.out)) = Room.instructions
                 \/ \A f \in Elements(names) : files[f] = 0 \/ <<f, files[f]>> \in Elements(given.out)
<1> DEFINE n == Len(names)
           c == Instructed(files, names)
           Whole(i, f) == files[f] = 0 \/ <<f, files[f]>> \in Elements(c[i].out)
           Said(i) == /\ Sum(Amounts(c[i].out)) + c[i].left = Room.instructions
                      /\ c[i].cut \/ c[i].left = 0 \/ \A j \in 1 .. i : Whole(i, names[j])
           G == {i \in 0 .. n : Said(i)}
<1>0. Room.instructions \in Nat
    BY BriefingAssumption
<1>1. n \in Nat /\ \A i \in 1 .. n : names[i] \in S
    OBVIOUS
<1>2. /\ \A i \in 0 .. n : c[i] \in Instructing(S)
      /\ c[0] = NoneGiven
      /\ \A i \in 1 .. n : c[i] = Instruct(files, c[i - 1], names[i])
    BY InstructedFacts
<1> HIDE DEF c
<1>3. 0 \in G
  <2>1. Amounts(<<>>) = <<>>
      BY DEF Amounts
  <2> QED BY <1>0, <1>1, <1>2, <2>1, SumOfNone DEF NoneGiven
<1>4. ASSUME NEW i \in 1 .. n, i - 1 \in G PROVE i \in G
  <2>1. c[i - 1] \in Instructing(S) /\ c[i] \in Instructing(S) /\ i - 1 \in 0 .. n /\ i \in 0 .. n
      BY <1>1, <1>2
  <2>2. Instructs(files, c[i - 1], names[i], c[i])
      BY <1>1, <1>2, <2>1, InstructFacts
  <2>3. c[i - 1].left \in Nat /\ c[i].left \in Nat /\ c[i - 1].out \in Seq(S \X Nat)
      BY <2>1 DEF Instructing
  <2>4. Said(i - 1)
      BY <1>4
  <2>5. \A j \in 1 .. i : j = i \/ j \in 1 .. i - 1
      BY <1>1
  <2>6. CASE c[i] = c[i - 1] /\ (files[names[i]] = 0 \/ c[i - 1].left = 0)
    <3>1. \A j \in 1 .. i : j \in 1 .. i - 1 \/ files[names[j]] = 0 \/ c[i].left = 0
        BY <2>5, <2>6
    <3> QED BY <2>1, <2>4, <2>6, <3>1
  <2>7. ASSUME NEW size \in Nat, c[i].out = Append(c[i - 1].out, <<names[i], size>>), c[i].left = c[i - 1].left - size,
               c[i].cut \/ size = files[names[i]], c[i - 1].cut => c[i].cut
        PROVE  Said(i)
    <3> DEFINE P == S \X Nat
               p == <<names[i], size>>
    <3>0. p \in P /\ p[2] = size /\ \A q \in P : q[2] \in Nat
        BY <1>1
    <3>1. /\ Elements(c[i].out) = Elements(c[i - 1].out) \cup {p}
          /\ Sum(Amounts(c[i - 1].out)) \in Int /\ Sum(Amounts(c[i].out)) = Sum(Amounts(c[i - 1].out)) + size
      <4>1. c[i - 1].out \in Seq(P) /\ c[i].out = Append(c[i - 1].out, p)
          BY <2>3, <2>7
      <4> HIDE DEF P, p
      <4>2. /\ Amounts(c[i - 1].out) \in Seq(Int)
            /\ Sum(Amounts(Append(c[i - 1].out, p))) = Sum(Amounts(c[i - 1].out)) + p[2]
          BY <3>0, <4>1, AmountsAdd
      <4>3. Sum(Amounts(c[i - 1].out)) \in Int
          BY <4>2, SumTyped
      <4>4. Elements(Append(c[i - 1].out, p)) = Elements(c[i - 1].out) \cup {p}
          BY <3>0, <4>1, AppendedMembers
      <4> QED BY <3>0, <4>1, <4>2, <4>3, <4>4
    <3>2. Elements(c[i].out) = Elements(c[i - 1].out) \cup {<<names[i], size>>}
        BY <3>1
    <3>3. Sum(Amounts(c[i].out)) + c[i].left = Room.instructions
      <4>1. Sum(Amounts(c[i - 1].out)) + c[i - 1].left = Room.instructions
          BY <2>4
      <4> DEFINE x == Sum(Amounts(c[i - 1].out))
                 y == Sum(Amounts(c[i].out))
                 u == c[i - 1].left
                 v == c[i].left
      <4>2. x \in Int /\ y = x + size /\ u \in Nat /\ v = u - size /\ x + u = Room.instructions
          BY <2>3, <2>7, <3>1, <4>1
      <4> HIDE DEF x, y, u, v
      <4>3. y + v = Room.instructions
          BY <1>0, <4>2
      <4> QED BY <4>3 DEF y, v
    <3>4. c[i - 1].left = 0 => c[i].left = 0
        BY <2>3, <2>7
    <3>5. c[i].cut \/ c[i].left = 0 \/ \A j \in 1 .. i - 1 : Whole(i, names[j])
        BY <2>4, <2>7, <3>2, <3>4
    <3>6. c[i].cut \/ Whole(i, names[i])
        BY <2>7, <3>2
    <3> QED BY <2>5, <3>3, <3>5, <3>6
  <2> HIDE DEF Said
  <2> QED BY <2>1, <2>2, <2>6, <2>7 DEF Instructs
<1>5. Said(n)
  <2>1. \A i \in 0 .. n : i \in G
    <3> HIDE DEF G, n
    <3> QED BY <1>1, <1>3, <1>4, Counting
  <2> QED BY <1>1, <2>1
<1>6. c[n] \in Instructing(S) /\ Instructions(files, names) = c[n]
    BY <1>1, <1>2 DEF Instructions, c
<1>7. c[n].cut \/ c[n].left = 0 \/ \A f \in Elements(names) : Whole(n, f)
  <2>1. \A f \in Elements(names) : \E j \in 1 .. n : f = names[j]
      BY DEF Elements
  <2> HIDE DEF Whole
  <2> QED BY <1>5, <2>1
<1>8. c[n].left = 0 => Sum(Amounts(c[n].out)) = Room.instructions
  <2>1. c[n].out \in Seq(S \X Nat)
      BY <1>6 DEF Instructing
  <2>2. Amounts(c[n].out) \in Seq(Int)
    <3> DEFINE P == S \X Nat
    <3>1. c[n].out \in Seq(P) /\ \A q \in P : q[2] \in Nat
        BY <2>1
    <3> HIDE DEF P
    <3> QED BY <3>1, AmountsAdd
  <2>3. Sum(Amounts(c[n].out)) \in Int
      BY <2>2, SumTyped
  <2> QED BY <1>5, <2>3
<1> QED BY <1>6, <1>7, <1>8

(***************************************************************************)
(* What fits.                                                              *)
(***************************************************************************)
SizedAll(D) == \A f \in D : f.size \in Nat
Fit(D) == [out : Seq(D), size : Int]
NothingFit == [out |-> <<>>, size |-> 0]

\* A file more adds its size.
LEMMA SizesAdd ==
    ASSUME NEW D, SizedAll(D), NEW out \in Seq(D)
    PROVE  /\ SizesOf(out) \in Seq(Int)
           /\ \A p \in D : Sum(SizesOf(Append(out, p))) = Sum(SizesOf(out)) + p.size
<1>1. \A o \in Seq(D) : SizesOf(o) \in Seq(Int) /\ Len(SizesOf(o)) = Len(o) /\ \A i \in 1 .. Len(o) : SizesOf(o)[i] = o[i].size
  <2>1. ASSUME NEW o \in Seq(D)
        PROVE  Len(o) \in Nat /\ DOMAIN o = 1 .. Len(o) /\ \A i \in 1 .. Len(o) : o[i] \in D /\ o[i].size \in Int
      BY DEF SizedAll
  <2> QED BY <2>1 DEF SizesOf
<1>2. ASSUME NEW p \in D PROVE Sum(SizesOf(Append(out, p))) = Sum(SizesOf(out)) + p.size
  <2>1. /\ Append(out, p) \in Seq(D) /\ Len(Append(out, p)) = Len(out) + 1 /\ Len(out) \in Nat
        /\ Append(out, p)[Len(out) + 1] = p /\ \A i \in 1 .. Len(out) : Append(out, p)[i] = out[i]
      OBVIOUS
  <2>2. /\ SizesOf(Append(out, p)) \in Seq(Int) /\ Len(SizesOf(Append(out, p))) = Len(out) + 1
        /\ \A i \in 1 .. Len(out) + 1 : SizesOf(Append(out, p))[i] = Append(out, p)[i].size
      BY <1>1, <2>1
  <2>3. SizesOf(out) \in Seq(Int) /\ Len(SizesOf(out)) = Len(out) /\ \A i \in 1 .. Len(out) : SizesOf(out)[i] = out[i].size
      BY <1>1
  <2>4. Len(out) + 1 \in 1 .. Len(out) + 1 /\ \A i \in 1 .. Len(out) : i \in 1 .. Len(out) + 1
      BY <2>1
  <2>5. \A i \in 1 .. Len(out) : SizesOf(Append(out, p))[i] = SizesOf(out)[i]
      BY <2>1, <2>2, <2>3, <2>4
  <2>6. Sum(SizesOf(Append(out, p))) = Sum(SizesOf(out)) + SizesOf(Append(out, p))[Len(SizesOf(Append(out, p)))]
      BY <2>2, <2>3, <2>5, SumExtended
  <2> QED BY <2>1, <2>2, <2>4, <2>6
<1> QED BY <1>1, <1>2

\* It is given, or with f after it where there is room.
FitsNext(given, f, space, to) ==
    to = given \/ (to.out = Append(given.out, f) /\ to.size = given.size + f.size /\ to.size <= space)

\* A file of a diff is added where it fits.
LEMMA AddFileFacts ==
    ASSUME NEW D, SizedAll(D), NEW space \in Int, NEW given \in Fit(D), NEW f \in D
    PROVE  AddFile(given, f, space) \in Fit(D) /\ FitsNext(given, f, space, AddFile(given, f, space))
<1>1. given.out \in Seq(D) /\ given.size \in Int /\ f.size \in Nat
    BY DEF Fit, SizedAll
<1>2. Append(given.out, f) \in Seq(D) /\ given.size + f.size \in Int
    BY <1>1
<1> QED BY <1>1, <1>2 DEF AddFile, Fit, FitsNext

\* What FitDiff comes to after each of the files.
LEMMA FittedFacts ==
    ASSUME NEW D, SizedAll(D), NEW space \in Int, NEW diff \in Seq(D)
    PROVE  /\ \A i \in 0 .. Len(diff) : Fitted(diff, space)[i] \in Fit(D)
           /\ Fitted(diff, space)[0] = NothingFit
           /\ \A i \in 1 .. Len(diff) : Fitted(diff, space)[i] = AddFile(Fitted(diff, space)[i - 1], diff[i], space)
<1> DEFINE n == Len(diff)
           T == Fit(D)
           c == Fitted(diff, space)
           walk == [i \in 1 .. n |-> [t \in T |-> AddFile(t, diff[i], space)]]
           Back(f, i) == IF i = 0 THEN NothingFit ELSE AddFile(f[i - 1], diff[i], space)
           Solves(f) == f = [i \in 0 .. n |-> Back(f, i)]
<1>1. n \in Nat /\ \A i \in 1 .. n : diff[i] \in D
    OBVIOUS
<1>2. NothingFit \in T
    BY DEF NothingFit, Fit
<1>3. \A i \in 1 .. n, t \in T : AddFile(t, diff[i], space) \in T
    BY <1>1, AddFileFacts
<1> HIDE DEF T
<1>4. walk \in [1 .. n -> [T -> T]] /\ \A i \in 1 .. n, t \in T : walk[i][t] = AddFile(t, diff[i], space)
    BY <1>3
<1> HIDE DEF walk
<1>5. PICK g \in [0 .. n -> T] : Stepped(g, n, NothingFit, walk)
  <2> HIDE DEF n
  <2> QED BY <1>1, <1>2, <1>4, Walked, Zenon
<1>6. \A i \in 0 .. n : g[i] = Back(g, i)
  <2>1. ASSUME NEW i \in 0 .. n, i # 0 PROVE i \in 1 .. n /\ i - 1 \in 0 .. n
      BY <1>1, <2>1
  <2> QED BY <1>4, <1>5, <2>1 DEF Stepped
<1>7. Solves(g)
  <2> HIDE DEF Back
  <2> QED BY <1>6
<1>8. c = CHOOSE f : Solves(f)
    BY DEF Fitted, NothingFit
<1>9. Solves(c)
  <2> HIDE DEF Solves, c
  <2> QED BY <1>7, <1>8
<1> HIDE DEF c
<1>10. c[0] = NothingFit /\ \A i \in 1 .. n : c[i] = AddFile(c[i - 1], diff[i], space)
    BY <1>1, <1>9
<1>11. \A i \in 0 .. n : c[i] \in T
  <2> DEFINE G == {i \in 0 .. n : c[i] \in T}
  <2>1. 0 \in G
      BY <1>1, <1>2, <1>10
  <2>2. \A i \in 1 .. n : i - 1 \in G => i \in G
      BY <1>1, <1>3, <1>10
  <2>3. \A i \in 0 .. n : i \in G
    <3> HIDE DEF G, n
    <3> QED BY <1>1, <2>1, <2>2, Counting
  <2> QED BY <2>3
<1> QED BY <1>10, <1>11 DEF T, c

\* What is given of a diff is all of it or less, and has its room.
LEMMA FitDiffFacts ==
    ASSUME NEW D, SizedAll(D), NEW space \in Int, NEW diff \in Seq(D)
    PROVE  /\ FitDiff(diff, space) \in Seq(D) /\ Len(FitDiff(diff, space)) <= Len(diff)
           /\ Len(FitDiff(diff, space)) = Len(diff) => Elements(FitDiff(diff, space)) = Elements(diff)
           /\ Sum(SizesOf(FitDiff(diff, space))) \in Int
           /\ FitDiff(diff, space) # <<>> => Sum(SizesOf(FitDiff(diff, space))) <= space
<1> DEFINE n == Len(diff)
           c == Fitted(diff, space)
           As(i) == /\ c[i].size = Sum(SizesOf(c[i].out)) /\ (c[i].out = <<>> \/ c[i].size <= space)
                    /\ Len(c[i].out) <= i
                    /\ Len(c[i].out) = i => \A j \in 1 .. i : c[i].out[j] = diff[j]
           G == {i \in 0 .. n : As(i)}
<1>1. n \in Nat /\ DOMAIN diff = 1 .. n /\ \A i \in 1 .. n : diff[i] \in D
    OBVIOUS
<1>2. \A g \in Seq(D) : Sum(SizesOf(g)) \in Int
    BY SizesAdd, SumTyped
<1>3. /\ \A i \in 0 .. n : c[i] \in Fit(D)
      /\ c[0] = NothingFit
      /\ \A i \in 1 .. n : c[i] = AddFile(c[i - 1], diff[i], space)
    BY FittedFacts
<1> HIDE DEF c
<1>4. 0 \in G
  <2>1. SizesOf(<<>>) = <<>> /\ Len(<<>>) = 0
      BY DEF SizesOf
  <2> QED BY <1>1, <1>3, <2>1, SumOfNone DEF NothingFit
<1>5. ASSUME NEW i \in 1 .. n, i - 1 \in G PROVE i \in G
  <2>1. c[i - 1] \in Fit(D) /\ c[i] \in Fit(D) /\ i - 1 \in 0 .. n /\ i \in 0 .. n
      BY <1>1, <1>3
  <2>2. FitsNext(c[i - 1], diff[i], space, c[i])
      BY <1>1, <1>3, <2>1, AddFileFacts
  <2>3. c[i - 1].out \in Seq(D) /\ c[i].out \in Seq(D) /\ c[i - 1].size \in Int /\ c[i].size \in Int
      BY <2>1 DEF Fit
  <2>4. As(i - 1)
      BY <1>5
  <2>5. Len(c[i - 1].out) \in Nat
      BY <2>3
  <2>6. CASE c[i] = c[i - 1]
    <3>1. Len(c[i].out) <= i - 1
        BY <2>4, <2>6
    <3>2. Len(c[i].out) <= i /\ Len(c[i].out) # i
        BY <1>1, <2>5, <2>6, <3>1
    <3> QED BY <2>1, <2>4, <2>6, <3>2
  <2>7. CASE c[i].out = Append(c[i - 1].out, diff[i]) /\ c[i].size = c[i - 1].size + diff[i].size /\ c[i].size <= space
    <3>1. /\ Len(c[i].out) = Len(c[i - 1].out) + 1 /\ c[i].out[Len(c[i - 1].out) + 1] = diff[i]
          /\ \A j \in 1 .. Len(c[i - 1].out) : c[i].out[j] = c[i - 1].out[j]
        BY <1>1, <2>3, <2>7
    <3>2. c[i].size = Sum(SizesOf(c[i].out))
        BY <1>1, <2>3, <2>4, <2>7, SizesAdd
    <3>3. Len(c[i].out) <= i
        BY <1>1, <2>4, <2>5, <3>1
    <3>4. ASSUME Len(c[i].out) = i, NEW j \in 1 .. i PROVE c[i].out[j] = diff[j]
      <4>1. Len(c[i - 1].out) = i - 1
          BY <1>1, <2>5, <3>1, <3>4
      <4>2. CASE j = i
          BY <1>1, <3>1, <4>1, <4>2
      <4>3. CASE j # i
        <5>1. j \in 1 .. i - 1
            BY <1>1, <4>3
        <5> QED BY <2>4, <3>1, <4>1, <5>1
      <4> QED BY <4>2, <4>3
    <3> HIDE DEF G
    <3>5. As(i)
        BY <2>7, <3>2, <3>3, <3>4
    <3> QED BY <2>1, <3>5 DEF G
  <2> QED BY <2>2, <2>6, <2>7 DEF FitsNext
<1>6. As(n)
  <2>1. \A i \in 0 .. n : i \in G
    <3> HIDE DEF G, n
    <3> QED BY <1>1, <1>4, <1>5, Counting
  <2> QED BY <1>1, <2>1
<1>7. CASE Sum(SizesOf(diff)) <= space
  <2>1. FitDiff(diff, space) = diff
      BY <1>7 DEF FitDiff
  <2> QED BY <1>1, <1>2, <1>7, <2>1
<1>8. CASE ~(Sum(SizesOf(diff)) <= space)
  <2>1. FitDiff(diff, space) = c[n].out
      BY <1>8 DEF FitDiff, c
  <2>2. c[n].out \in Seq(D) /\ c[n].size \in Int
      BY <1>1, <1>3 DEF Fit
  <2>3. ASSUME Len(c[n].out) = n PROVE Elements(c[n].out) = Elements(diff)
    <3>1. DOMAIN c[n].out = 1 .. n /\ \A j \in 1 .. n : c[n].out[j] = diff[j]
        BY <1>6, <2>2, <2>3
    <3> QED BY <1>1, <3>1 DEF Elements
  <2> QED BY <1>6, <2>1, <2>2, <2>3
<1> QED BY <1>7, <1>8

\* As many items as Fitting says do fit.
LEMMA FittingFacts ==
    ASSUME NEW sizes \in Seq(Int), NEW space \in Int
    PROVE  /\ Fitting(sizes, space) \in 0 .. Len(sizes)
           /\ Fitting(sizes, space) = 0 \/ Sums(sizes)[Fitting(sizes, space)] <= space
<1> DEFINE S == {0} \cup {n \in DOMAIN sizes : Sums(sizes)[n] <= space}
<1>1. Len(sizes) \in Nat /\ S \subseteq 0 .. Len(sizes) /\ S # {}
    OBVIOUS
<1>2. \E x \in S : \A y \in S : y <= x
  <2> HIDE DEF S
  <2> QED BY <1>1, GreatestOf
<1>3. Max(S) \in S
  <2> HIDE DEF S
  <2>1. Max(S) = CHOOSE x \in S : \A y \in S : y <= x
    <3>1. \A x, y \in S : x >= y <=> y <= x
        BY <1>1
    <3> QED BY <3>1 DEF Max
  <2> QED BY <1>2, <2>1
<1>4. Fitting(sizes, space) = Max(S)
    BY DEF Fitting
<1> QED BY <1>1, <1>3, <1>4

\* A section is left out or has its room.
Roomy(size, space) == size \in Int /\ (size = 0 \/ size <= space)

\* What a section of n items comes to.
LEMMA TakingTyped ==
    ASSUME NEW sizes \in Seq(Int), NEW n \in 0 .. Len(sizes)
    PROVE  /\ DOMAIN Taking(sizes, n) = {"shown", "size"}
           /\ Sums(sizes)[n] \in Int /\ Taking(sizes, n).size = 1 + Sums(sizes)[n] /\ Sums(sizes)[0] = 0
BY SumsFacts DEF Taking

\* A section has its room.
LEMMA SectionFits ==
    ASSUME NEW sizes \in Seq(Int), NEW at \in Int, NEW budget \in Int
    PROVE  Roomy(Section(sizes, at, budget).size, budget - at)
<1>1. CASE sizes = <<>> \/ at + 1 > budget
    BY <1>1 DEF Section, NoSection, Roomy
<1>2. CASE ~(sizes = <<>> \/ at + 1 > budget)
  <2>1. PICK n \in 0 .. Len(sizes) : n = Fitting(sizes, budget - at - 1) /\ (n = 0 \/ Sums(sizes)[n] <= budget - at - 1)
    <3>1. budget - at - 1 \in Int
        OBVIOUS
    <3> QED BY <3>1, FittingFacts
  <2>2. Section(sizes, at, budget) = Taking(sizes, n)
      BY <1>2, <2>1 DEF Section
  <2>3. Sums(sizes)[n] \in Int /\ Taking(sizes, n).size = 1 + Sums(sizes)[n] /\ Sums(sizes)[0] = 0
      BY <2>1, TakingTyped
  <2> QED BY <1>2, <2>1, <2>2, <2>3 DEF Roomy
<1> QED BY <1>1, <1>2

\* So does that of the prior findings, its note with it.
LEMMA PriorFits ==
    ASSUME NEW prior \in Seq(Int), NEW space \in Int
    PROVE  Roomy(PriorSection(prior, space).size, space)
<1>0. Len(prior) \in Nat /\ Len(prior) \in 0 .. Len(prior) /\ space - 1 - 1 \in Int /\ Sum(prior) = Sums(prior)[Len(prior)]
    BY DEF Sum
<1>1. CASE prior = <<>> \/ 1 > space
    BY <1>1 DEF PriorSection, NoSection, Roomy
<1>2. CASE ~(prior = <<>> \/ 1 > space) /\ 1 + Sum(prior) <= space
  <2>1. PriorSection(prior, space) = Taking(prior, Len(prior))
      BY <1>2 DEF PriorSection
  <2>2. Sum(prior) \in Int /\ Taking(prior, Len(prior)).size = 1 + Sum(prior)
      BY <1>0, TakingTyped
  <2> QED BY <1>2, <2>1, <2>2 DEF Roomy
<1>3. CASE ~(prior = <<>> \/ 1 > space) /\ ~(1 + Sum(prior) <= space)
  <2>1. PICK n \in 0 .. Len(prior) : n = Fitting(prior, space - 1 - 1) /\ (n = 0 \/ Sums(prior)[n] <= space - 1 - 1)
      BY <1>0, FittingFacts
  <2> DEFINE s == Taking(prior, n)
  <2>2. PriorSection(prior, space) = Noted(s, space)
      BY <1>3, <2>1 DEF PriorSection
  <2>3. Sums(prior)[n] \in Int /\ s.size = 1 + Sums(prior)[n] /\ Sums(prior)[0] = 0 /\ DOMAIN s = {"shown", "size"}
      BY <2>1, TakingTyped
  <2>4. s.size \in Int /\ s.size <= space
      BY <1>3, <2>1, <2>3
  <2> HIDE DEF s
  <2>5. Noted(s, space).size = s.size \/ (Noted(s, space).size = s.size + 1 /\ s.size + 1 <= space)
      BY <2>3 DEF Noted
  <2> QED BY <2>2, <2>4, <2>5 DEF Roomy
<1> QED BY <1>1, <1>2, <1>3

\* So does that of the delta.
LEMMA DeltaFits ==
    ASSUME NEW D, SizedAll(D), NEW delta \in Seq(D), NEW space \in Int
    PROVE  Roomy(DeltaSection(delta, FitDelta(delta, space), space).size, space)
<1> DEFINE g == FitDelta(delta, space)
           sum == Sum(SizesOf(g))
<1>1. Sum(SizesOf(delta)) \in Int /\ space - 1 - 1 \in Int
    BY SizesAdd, SumTyped
<1>2. sum \in Int /\ (g = <<>> \/ (g = delta /\ 1 + sum <= space) \/ sum <= space - 1 - 1)
  <2>1. CASE 1 + Sum(SizesOf(delta)) <= space
    <3>1. g = delta
        BY <2>1 DEF FitDelta
    <3> HIDE DEF g
    <3> QED BY <1>1, <2>1, <3>1
  <2>2. CASE ~(1 + Sum(SizesOf(delta)) <= space)
    <3>1. g = FitDiff(delta, space - 1 - 1)
        BY <2>2 DEF FitDelta
    <3> HIDE DEF g
    <3> QED BY <1>1, <3>1, FitDiffFacts
  <2> QED BY <2>1, <2>2
<1>3. DeltaSection(delta, g, space).size = IF g # <<>> THEN 1 + sum + (IF g # delta THEN 1 ELSE 0) ELSE IF 1 <= space THEN 1 ELSE 0
    BY DEF DeltaSection
<1> HIDE DEF g, sum
<1>4. Roomy(DeltaSection(delta, g, space).size, space)
    BY <1>2, <1>3 DEF Roomy
<1> QED BY <1>4 DEF g

(***************************************************************************)
(* The message.                                                            *)
(***************************************************************************)
Parts == {"described", "diff", "omitted", "prior", "delta", "dismissed", "references", "context", "left", "size"}

\* What follows the diff has its room.
Continues(msg, opened, budget) ==
    /\ DOMAIN msg = Parts /\ msg.size \in Int
    /\ msg.described = opened.described /\ msg.diff = opened.diff /\ msg.omitted = opened.omitted
    /\ msg.size <= budget \/ msg.size = opened.size

\* A section that has its room keeps the message in its budget.
LEMMA ExtendContinues ==
    ASSUME NEW budget \in Int, NEW opened, NEW msg, Continues(msg, opened, budget),
           NEW what \in {"prior", "delta", "dismissed", "references"}, NEW section, Roomy(section.size, budget - msg.size)
    PROVE  Continues(Extend(msg, what, section), opened, budget)
<1> DEFINE to == Extend(msg, what, section)
<1>1. /\ DOMAIN to = Parts /\ to.size = msg.size + section.size
      /\ to.described = msg.described /\ to.diff = msg.diff /\ to.omitted = msg.omitted
    BY DEF Extend, Continues, Parts
<1> HIDE DEF to
<1>2. to.size \in Int /\ (to.size = msg.size \/ to.size <= budget)
    BY <1>1 DEF Continues, Roomy
<1> QED BY <1>1, <1>2 DEF Continues, to

\* The message with the diff in it is in the budget, but for what it says first.
Opens(opened, diff, budget) ==
    /\ Continues(opened, opened, budget)
    /\ opened.size = opened.described + Sum(SizesOf(opened.diff)) + opened.omitted
    /\ opened.diff = <<>> \/ opened.omitted > Room.note \/ opened.size <= budget
    /\ opened.omitted > 0 \/ Elements(opened.diff) = Elements(diff)

\* The diff, as much as is given, with what is said before it.
LEMMA DiffOpens ==
    ASSUME NEW D, SizedAll(D), NEW diff \in Seq(D), NEW budget \in Int, NEW described \in Int
    PROVE  Opens(AddDiff(Opening(described), diff, budget), diff, budget)
<1> DEFINE msg == Opening(described)
           space == budget - msg.size - Room.note
           given == FitDiff(diff, space)
           opened == WithDiff(msg, diff, given)
<1>1. DOMAIN msg = Parts /\ msg.size = described /\ msg.described = described
    BY DEF Opening, Parts
<1>2. AddDiff(msg, diff, budget) = opened /\ Room.note \in Nat
    BY BriefingAssumption DEF AddDiff
<1>3. space \in Int /\ space = budget - described - Room.note
    BY <1>1, <1>2
<1> HIDE DEF msg, space
<1>4. /\ given \in Seq(D) /\ Len(given) <= Len(diff) /\ Len(given) \in Nat /\ Len(diff) \in Nat
      /\ Len(given) = Len(diff) => Elements(given) = Elements(diff)
      /\ Sum(SizesOf(given)) \in Int /\ (given = <<>> \/ Sum(SizesOf(given)) <= space)
    BY <1>3, FitDiffFacts
<1> HIDE DEF given
<1>5. /\ DOMAIN opened = Parts /\ opened.described = described /\ opened.diff = given /\ opened.omitted = Len(diff) - Len(given)
      /\ opened.size = described + Sum(SizesOf(given)) + Len(diff) - Len(given)
    BY <1>1 DEF WithDiff, Parts
<1> HIDE DEF opened
<1>6. opened.size = opened.described + Sum(SizesOf(opened.diff)) + opened.omitted /\ opened.size \in Int
    BY <1>4, <1>5
<1>7. opened.omitted > 0 \/ Elements(opened.diff) = Elements(diff)
    BY <1>4, <1>5
<1>8. opened.diff = <<>> \/ opened.omitted > Room.note \/ opened.size <= budget
    BY <1>2, <1>3, <1>4, <1>5
<1>9. Continues(opened, opened, budget)
    BY <1>5, <1>6 DEF Continues
<1> QED BY <1>2, <1>6, <1>7, <1>8, <1>9 DEF msg, Opens

\* A change, as it may be.
ChangeSized(change) ==
    /\ \E D : SizedAll(D) /\ change.diff \in Seq(D) /\ change.delta \in Seq(D)
    /\ change.prior \in Seq(Int) /\ change.dismissed \in Seq(Int) /\ change.context \in Seq(Int)

\* Context is given as far as there is room, and the rest counted.
LEMMA ContextContinues ==
    ASSUME NEW budget \in Int, NEW opened, NEW msg, Continues(msg, opened, budget), NEW chunks \in Seq(Int)
    PROVE  /\ Continues(AddContext(msg, chunks, budget), opened, budget)
           /\ AddContext(msg, chunks, budget).context < Len(chunks) => AddContext(msg, chunks, budget).left > 0
<1>1. msg.size \in Int /\ budget - msg.size - 1 \in Int /\ DOMAIN msg = Parts
    BY DEF Continues
<1>2. PICK n \in 0 .. Len(chunks) : n = Fitting(chunks, budget - msg.size - 1)
                                    /\ (n = 0 \/ Sums(chunks)[n] <= budget - msg.size - 1)
    BY <1>1, FittingFacts
<1> DEFINE to == WithContext(msg, chunks, n)
<1>3. AddContext(msg, chunks, budget) = to
    BY <1>2 DEF AddContext
<1>4. Sums(chunks)[n] \in Int /\ Len(chunks) \in Nat
    BY TakingTyped
<1>5. /\ DOMAIN to = Parts /\ to.size = (IF n = 0 THEN msg.size ELSE msg.size + 1 + Sums(chunks)[n])
      /\ to.described = msg.described /\ to.diff = msg.diff /\ to.omitted = msg.omitted
      /\ to.context = n /\ to.left = Len(chunks) - n
    BY <1>1 DEF WithContext, Parts
<1> HIDE DEF to
<1>6. to.size \in Int /\ (to.size = msg.size \/ to.size <= budget)
    BY <1>1, <1>2, <1>4, <1>5
<1>7. to.context < Len(chunks) => to.left > 0
    BY <1>4, <1>5
<1>8. Continues(to, opened, budget)
    BY <1>5, <1>6 DEF Continues
<1> QED BY <1>3, <1>7, <1>8

\* The message is in its budget, or is only what it opens with.
LEMMA BuildFacts ==
    ASSUME NEW change, ChangeSized(change), NEW k \in Nat, NEW budget \in Int, Described(change, budget) \in Int
    PROVE  LET msg == Build(change, 1 .. k, budget)
           IN /\ \/ msg.size <= budget
                 \/ /\ msg.size = msg.described + Sum(SizesOf(msg.diff)) + msg.omitted
                    /\ msg.diff = <<>> \/ msg.omitted > Room.note
              /\ msg.omitted > 0 \/ Elements(msg.diff) = Elements(change.diff)
              /\ msg.context < Len(change.context) => msg.left > 0
<1> DEFINE opened == AddDiff(Opening(Described(change, budget)), change.diff, budget)
           rereview == IF change.incremental THEN Incremental(opened, change, budget) ELSE opened
           dismissed == AddSection(rereview, "dismissed", change.dismissed, budget)
           named == AddSection(dismissed, "references", [i \in 1 .. k |-> 1], budget)
           msg == AddContext(named, change.context, budget)
<1>1. PICK D : SizedAll(D) /\ change.diff \in Seq(D) /\ change.delta \in Seq(D)
    BY DEF ChangeSized
<1>2. Opens(opened, change.diff, budget)
    BY <1>1, DiffOpens
<1> HIDE DEF opened
<1>3. Continues(rereview, opened, budget)
  <2>1. opened.size \in Int /\ budget - opened.size - 1 \in Int
      BY <1>2 DEF Continues, Opens
  <2> DEFINE prior == Extend(opened, "prior", PriorSection(change.prior, budget - opened.size - 1))
  <2>2. Roomy(PriorSection(change.prior, budget - opened.size - 1).size, budget - opened.size)
    <3>1. Roomy(PriorSection(change.prior, budget - opened.size - 1).size, budget - opened.size - 1)
        BY <2>1, PriorFits DEF ChangeSized
    <3> QED BY <2>1, <3>1 DEF Roomy
  <2>3. Continues(prior, opened, budget)
      BY <1>2, <2>2, ExtendContinues DEF Opens
  <2> HIDE DEF prior
  <2>4. prior.size \in Int /\ budget - prior.size \in Int
      BY <2>3 DEF Continues
  <2>5. Continues(AddDelta(prior, change.delta, budget), opened, budget)
    <3>1. Roomy(DeltaSection(change.delta, FitDelta(change.delta, budget - prior.size), budget - prior.size).size, budget - prior.size)
        BY <1>1, <2>4, DeltaFits
    <3> QED BY <2>3, <3>1, ExtendContinues DEF AddDelta
  <2> QED BY <1>2, <2>5 DEF Incremental, prior, Opens
<1> HIDE DEF rereview
<1>4. ASSUME NEW m, Continues(m, opened, budget), NEW what \in {"dismissed", "references"}, NEW sizes \in Seq(Int)
      PROVE  Continues(AddSection(m, what, sizes, budget), opened, budget)
  <2>1. m.size \in Int
      BY <1>4 DEF Continues
  <2>2. Roomy(Section(sizes, m.size, budget).size, budget - m.size)
      BY <2>1, SectionFits
  <2> QED BY <1>4, <2>2, ExtendContinues DEF AddSection
<1>5. Continues(dismissed, opened, budget)
    BY <1>3, <1>4 DEF ChangeSized
<1> HIDE DEF dismissed
<1>6. Continues(named, opened, budget)
  <2>1. [i \in 1 .. k |-> 1] \in Seq(Int)
      OBVIOUS
  <2> QED BY <1>4, <1>5, <2>1
<1> HIDE DEF named
<1>7. Continues(msg, opened, budget) /\ (msg.context < Len(change.context) => msg.left > 0)
    BY <1>6, ContextContinues DEF ChangeSized
<1>8. Build(change, 1 .. k, budget) = msg
    BY DEF Build, msg, named, dismissed, rereview, opened
<1> HIDE DEF msg
<1> QED BY <1>2, <1>7, <1>8 DEF Continues, Opens

(***************************************************************************)
(* The settings.                                                           *)
(***************************************************************************)
\* A list with another after it.
LEMMA PrefixJoined ==
    ASSUME NEW a, a \in Seq(Elements(a)), NEW b, b \in Seq(Elements(b))
    PROVE  /\ Len(a \o b) = Len(a) + Len(b) /\ Len(a) \in Nat /\ Len(b) \in Nat
           /\ \A i \in 1 .. Len(a) : (a \o b)[i] = a[i]
           /\ \A i \in 1 .. Len(b) : (a \o b)[Len(a) + i] = b[i]
           /\ IsPrefix(a, a \o b)
<1> DEFINE c == a \o b
           T == Elements(a) \cup Elements(b)
<1>1. /\ Len(c) = Len(a) + Len(b) /\ Len(a) \in Nat /\ Len(b) \in Nat
      /\ \A i \in 1 .. Len(a) : c[i] = a[i]
      /\ \A i \in 1 .. Len(b) : c[Len(a) + i] = b[i]
    OBVIOUS
<1> HIDE DEF c
<1>2. SubSeq(a, 1, Len(a)) = SubSeq(c, 1, Len(a))
  <2>1. SubSeq(a, 1, Len(a)) = [i \in 1 .. Len(a) |-> a[i]] /\ SubSeq(c, 1, Len(a)) = [i \in 1 .. Len(a) |-> c[i]]
      BY <1>1 DEF SubSeq
  <2> QED BY <1>1, <2>1
<1>3. IsPrefix(a, c)
    BY <1>1, <1>2 DEF IsPrefix
<1> QED BY <1>1, <1>3 DEF c

\* c is a, and then some of b.
AddedTo(a, b, c) == \E more \in Seq(Elements(b)) : c = a \o more

Settled(op, d, m) ==
    /\ \E own \in Seq(Elements(d.rules)) : /\ m.rules = op.rules \o own
                                           /\ \A r \in Elements(own) : r \notin Elements(op.rules)
    /\ AddedTo(op.context, d.context, m.context)
    /\ Parses(d) => \A r \in Elements(d.rules) : r \in Elements(m.rules) \/ r.id \in m.dropped

AsSeqs(s) == s.rules \in Seq(Elements(s.rules)) /\ s.context \in Seq(Elements(s.context))
          /\ \A r \in Elements(s.rules) : r.size \in Nat
SettingKeys == {"enabled", "filter", "ignore", "fix", "feedback", "template", "agentFiles", "context",
         "rules", "model", "providers", "dropped"}

\* The admin's rules and references come first, and a rule is only left out for
\* one of the same id.
LEMMA SettledFacts ==
    ASSUME NEW op, DOMAIN op = SettingKeys, AsSeqs(op), NEW d, AsSeqs(d)
    PROVE  Settled(op, d, Merge(d, op))
<1> DEFINE m == Merge(d, op)
<1>1. CASE ~Parses(d)
  <2>1. m.rules = op.rules /\ m.context = op.context
      BY <1>1 DEF Merge, SettingKeys
  <2>2. op.rules \o <<>> = op.rules /\ op.context \o <<>> = op.context
      BY JoinedNone DEF AsSeqs
  <2>3. <<>> \in Seq(Elements(d.rules)) /\ <<>> \in Seq(Elements(d.context)) /\ Elements(<<>>) = {}
      BY DEF Elements
  <2> QED BY <1>1, <2>1, <2>2, <2>3 DEF Settled, AddedTo
<1>2. CASE Parses(d)
  <2> DEFINE places == Unclaimed(op.rules, d.rules)
             own == Picked(d.rules, places)
             fresh == {i \in DOMAIN d.context : /\ \A c \in Elements(op.context) : c.path # d.context[i].path
                                                 /\ \A j \in 1 .. i - 1 : d.context[j].path # d.context[i].path}
  <2>1. /\ m.rules = AddRules(op.rules, d.rules) /\ m.context = AddReferences(op.context, d.context)
        /\ {r.id : r \in {s \in Elements(d.rules) : \E o \in Elements(op.rules) : o.id = s.id}} \subseteq m.dropped
      BY <1>2 DEF Merge, SettingKeys
  <2> HIDE DEF m
  <2>2. m.rules = op.rules \o own /\ m.context = op.context \o Picked(d.context, fresh)
      BY <2>1 DEF AddRules, AddReferences
  <2>3. places \in SUBSET DOMAIN d.rules /\ fresh \in SUBSET DOMAIN d.context
      BY DEF Unclaimed
  <2> HIDE DEF fresh, places
  <2>4. own \in Seq(Elements(d.rules)) /\ Elements(own) = {d.rules[p] : p \in places}
      BY <2>3, PickedMembers DEF AsSeqs
  <2>5. Picked(d.context, fresh) \in Seq(Elements(d.context))
      BY <2>3, PickedMembers DEF AsSeqs
  <2>6. \A r \in Elements(own) : r \notin Elements(op.rules)
      BY <2>4 DEF places, Unclaimed
  <2>7. ASSUME NEW r \in Elements(d.rules) PROVE r \in Elements(m.rules) \/ r.id \in m.dropped
    <3>1. PICK p \in DOMAIN d.rules : r = d.rules[p]
        BY DEF Elements
    <3>2. CASE p \in places
      <4>1. r \in Elements(own)
          BY <2>4, <3>1, <3>2
      <4>2. Elements(op.rules \o own) = Elements(op.rules) \cup Elements(own)
        <5> DEFINE T == Elements(op.rules) \cup Elements(d.rules)
        <5>1. op.rules \in Seq(T) /\ own \in Seq(T)
            BY <2>4 DEF AsSeqs
        <5> HIDE DEF T, own
        <5> QED BY <5>1, JoinedMembers
      <4> QED BY <2>2, <4>1, <4>2
    <3>3. CASE p \notin places
        BY <2>1, <3>1, <3>3 DEF places, Unclaimed
    <3> QED BY <3>2, <3>3
  <2> HIDE DEF own
  <2>8. AddedTo(op.context, d.context, m.context)
      BY <2>2, <2>5 DEF AddedTo
  <2> QED BY <2>2, <2>4, <2>6, <2>7, <2>8 DEF Settled, m
<1> QED BY <1>1, <1>2

\* The file's fix and model, or a note.
LEMMA ValuesNoted ==
    ASSUME NEW op, DOMAIN op = SettingKeys, op.fix \in BOOLEAN, NEW d, d.kind = "text"
    PROVE  LET m == Merge(d, op)
           IN  \/ "file" \in m.dropped
               \/ /\ Parses(d)
                  /\ m.model \in d.model \/ d.model = {} \/ "model" \in m.dropped
                  /\ m.fix \in d.fix \/ d.fix = {} \/ d.fix \notin {{TRUE}, {FALSE}} \/ "fix" \in m.dropped
<1> DEFINE m == Merge(d, op)
<1>1. CASE ~Parses(d)
    BY <1>1 DEF Merge, SettingKeys
<1>2. CASE Parses(d)
  <2>1. /\ m.model = Choose(d.model, op.model, op) /\ m.fix = (op.fix \/ TRUE \in d.fix)
        /\ (IF op.fix /\ FALSE \in d.fix THEN {"fix"} ELSE {}) \subseteq m.dropped
        /\ (IF d.model \subseteq op.providers THEN {} ELSE {"model"}) \subseteq m.dropped
      BY <1>2 DEF Merge, SettingKeys
  <2> HIDE DEF m
  <2>2. m.model \in d.model \/ d.model = {} \/ "model" \in m.dropped
      BY <2>1 DEF Choose, Override
  <2>3. m.fix \in d.fix \/ d.fix = {} \/ d.fix \notin {{TRUE}, {FALSE}} \/ "fix" \in m.dropped
    <3>1. CASE d.fix = {TRUE}
        BY <2>1, <3>1
    <3>2. CASE d.fix = {FALSE}
      <4>1. op.fix => "fix" \in m.dropped
          BY <2>1, <3>2
      <4>2. ~op.fix => m.fix = FALSE
          BY <2>1, <3>2
      <4> QED BY <3>2, <4>1, <4>2
    <3> QED BY <3>1, <3>2
  <2> QED BY <1>2, <2>2, <2>3 DEF m
<1> QED BY <1>1, <1>2

\* The larger of two numbers.
LEMMA LargerOf == ASSUME NEW a \in Int, NEW b \in Int
                  PROVE  Max({a, b}) = IF a >= b THEN a ELSE b
<1> DEFINE m == IF a >= b THEN a ELSE b
<1>1. m \in {a, b} /\ \A y \in {a, b} : m >= y
    OBVIOUS
<1>2. \A x \in {a, b} : (\A y \in {a, b} : x >= y) => x = m
    OBVIOUS
<1> HIDE DEF m
<1>3. Max({a, b}) = m
    BY <1>1, <1>2 DEF Max
<1> QED BY <1>3 DEF m

\* The description is of some size.
LEMMA DescribedTyped ==
    ASSUME NEW change, change.diff \in Seq(Elements(change.diff)), change.issues \in Seq(Nat), change.body \in Nat, NEW budget \in Int
    PROVE  Described(change, budget) \in Int
<1> DEFINE share == budget \div 4
           most == Max({1, Len(change.issues)})
           each == share \div most
           cut == [i \in DOMAIN change.issues |-> CutAt(change.issues[i], each)]
<1>1. share \in Int /\ Len(change.issues) \in Nat
    OBVIOUS
<1>2. most \in Int /\ most > 0
  <2>1. most = IF 1 >= Len(change.issues) THEN 1 ELSE Len(change.issues)
      BY <1>1, LargerOf
  <2> HIDE DEF most
  <2> QED BY <1>1, <2>1
<1> HIDE DEF share, most
<1>3. each \in Int
    BY <1>1, <1>2
<1> HIDE DEF each
<1>4. \A size, s \in Int : CutAt(size, s) \in Int
    BY DEF CutAt
<1>5. cut \in Seq(Int)
  <2>1. DOMAIN change.issues = 1 .. Len(change.issues) /\ \A i \in DOMAIN change.issues : change.issues[i] \in Int
      OBVIOUS
  <2>2. \A i \in 1 .. Len(change.issues) : CutAt(change.issues[i], each) \in Int
      BY <1>3, <1>4, <2>1
  <2> QED BY <1>1, <2>1, <2>2
<1>6. Described(change, budget) = Len(change.diff) + CutAt(change.body, share) + Sum(cut)
    BY DEF Described, share, each, most, cut
<1> HIDE DEF cut
<1>7. Sum(cut) \in Int /\ CutAt(change.body, share) \in Int /\ Len(change.diff) \in Int
  <2>1. change.body \in Int /\ Len(change.diff) \in Int
      OBVIOUS
  <2> QED BY <1>1, <1>4, <1>5, <2>1, SumTyped
<1> QED BY <1>6, <1>7

\* What is left for the user's message is a number.
LEMMA UserBudgetTyped ==
    ASSUME NEW R, NEW files, Texts(R, files), NEW rules \in Seq(R), NEW S, NEW out \in Seq(S \X Nat)
    PROVE  UserBudget(rules, files, out) \in Int
<1> DEFINE texts == [i \in DOMAIN rules |-> TextOf(rules[i], files)]
           P == S \X Nat
<1>1. texts \in Seq(Int)
  <2>1. Len(rules) \in Nat /\ DOMAIN rules = 1 .. Len(rules) /\ \A i \in DOMAIN rules : rules[i] \in R
      OBVIOUS
  <2>2. \A i \in DOMAIN rules : TextOf(rules[i], files) \in Int
      BY <2>1 DEF Texts
  <2> QED BY <2>1, <2>2
<1>2. Amounts(out) \in Seq(Int)
  <2>1. out \in Seq(P) /\ \A q \in P : q[2] \in Nat
      OBVIOUS
  <2> HIDE DEF P
  <2> QED BY <2>1, AmountsAdd
<1>3. UserBudget(rules, files, out) = OrDefault(Room.prompt - Sum(texts) - Sum(Amounts(out))) /\ Room.prompt \in Nat
    BY BriefingAssumption DEF UserBudget, Amounts
<1> HIDE DEF texts
<1>4. Sum(texts) \in Int /\ Sum(Amounts(out)) \in Int
    BY <1>1, <1>2, SumTyped
<1> QED BY <1>3, <1>4 DEF OrDefault

(***************************************************************************)
(* The files read.                                                         *)
(***************************************************************************)
\* A file was read, or was kept out with a note.
Reached(commit, got, f) == f \in DOMAIN got.files \/ (f \in got.notes /\ Refused(commit, got, f))
Met(commit, got, f) == f = NoFile \/ Reached(commit, got, f)
WellRead(N, commit, got) == got \in Got(N) /\ Kept(commit, got)

\* What was read comes after itself.
LEMMA LaterSame == ASSUME NEW N, NEW commit, NEW got \in Got(N) PROVE Later(commit, got, got)
<1>1. got.total \in Nat
    BY DEF Got
<1> QED BY <1>1 DEF Later

\* A file that was read or refused is so later.
LEMMA ReachedLater ==
    ASSUME NEW N, NEW commit, Sized(commit), NEW a \in Got(N), NEW b \in Got(N), Later(commit, a, b), NEW f, Reached(commit, a, f)
    PROVE  Reached(commit, b, f)
<1>1. a.total \in Nat /\ b.total \in Nat /\ a.total <= b.total /\ Room.total \in Nat
    BY BriefingAssumption DEF Got, Later
<1>2. CASE f \in DOMAIN a.files
    BY <1>2 DEF Reached, Later
<1>3. CASE f \in a.notes /\ Refused(commit, a, f)
  <2>1. HasFile(commit, f) => SizeAt(commit, f) \in Nat
      BY DEF Sized, HasFile, SizeAt
  <2>2. Refused(commit, b, f)
      BY <1>1, <1>3, <2>1 DEF Refused
  <2> QED BY <1>3, <2>2 DEF Reached, Later
<1> QED BY <1>2, <1>3 DEF Reached

\* What a walk over names reads.
LEMMA CollectedSaid ==
    ASSUME NEW N, NEW commit, Sized(commit), NEW names \in Seq(N)
    PROVE  LET got == Collected(commit, names)
               n == Len(names)
           IN /\ \A i \in 0 .. n : WellRead(N, commit, got[i])
              /\ \A i \in 0 .. n : Later(commit, got[i], got[n])
              /\ \A i \in 1 .. n : Met(commit, got[i], names[i])
<1> DEFINE n == Len(names)
           c == Collected(commit, names)
           G == {i \in 0 .. n : Kept(commit, c[i])}
           L == {i \in 0 .. n : \A j \in 0 .. i : Later(commit, c[j], c[i])}
<1>1. n \in Nat /\ \A i \in 1 .. n : names[i] \in N
    OBVIOUS
<1>2. /\ \A i \in 0 .. n : c[i] \in Got(N)
      /\ c[0] = NoFiles
      /\ \A i \in 1 .. n : c[i] = Read(commit, c[i - 1], names[i])
    BY CollectedFacts
<1> HIDE DEF c, n
<1>3. \A i \in 0 .. n : i \in G
  <2>1. 0 \in G
      BY <1>1, <1>2 DEF NoFiles, Kept
  <2>2. ASSUME NEW i \in 1 .. n, i - 1 \in G PROVE i \in G
    <3>1. c[i - 1] \in Got(N) /\ Kept(commit, c[i - 1]) /\ i \in 0 .. n
        BY <1>1, <1>2, <2>2
    <3> QED BY <1>2, <3>1, ReadFacts
  <2> HIDE DEF G
  <2> QED BY <1>1, <2>1, <2>2, Counting
<1>4. ASSUME NEW i \in 1 .. n PROVE Later(commit, c[i - 1], c[i]) /\ Met(commit, c[i], names[i])
  <2>1. c[i - 1] \in Got(N) /\ Kept(commit, c[i - 1])
    <3>1. i - 1 \in 0 .. n
        BY <1>1
    <3> QED BY <1>2, <1>3, <3>1
  <2> QED BY <1>2, <2>1, ReadFacts DEF Met, Reached
<1>5. \A i \in 0 .. n : i \in L
  <2>1. 0 \in L
    <3>1. Later(commit, c[0], c[0])
        BY <1>1, <1>2, LaterSame
    <3> QED BY <1>1, <3>1
  <2>2. ASSUME NEW i \in 1 .. n, i - 1 \in L PROVE i \in L
    <3>1. i \in 0 .. n /\ i - 1 \in 0 .. n
        BY <1>1
    <3>2. ASSUME NEW j \in 0 .. i PROVE Later(commit, c[j], c[i])
      <4>1. CASE j = i
          BY <1>2, <3>1, <4>1, LaterSame
      <4>2. CASE j # i
        <5>1. j \in 0 .. i - 1 /\ j \in 0 .. n
            BY <1>1, <4>2
        <5>2. Later(commit, c[j], c[i - 1]) /\ Later(commit, c[i - 1], c[i])
            BY <1>4, <2>2, <5>1
        <5>3. c[j] \in Got(N) /\ c[i - 1] \in Got(N) /\ c[i] \in Got(N)
            BY <1>2, <3>1, <5>1
        <5> QED BY <5>2, <5>3, LaterOn
      <4> QED BY <4>1, <4>2
    <3> QED BY <3>1, <3>2
  <2> HIDE DEF L
  <2> QED BY <1>1, <2>1, <2>2, Counting
<1>6. \A i \in 0 .. n : Later(commit, c[i], c[n])
    BY <1>1, <1>5
<1> QED BY <1>2, <1>3, <1>4, <1>6 DEF WellRead, c, n

\* A directory's agent file: of got, the one that is read.
Dirs == {Top, Lib}

\* Of a directory, AGENTS.md comes before CLAUDE.md.
LEMMA FirstThere ==
    ASSUME NEW dir \in Dirs, NEW have
    PROVE  /\ FirstOf(dir, have) = <<>> => dir[1] \notin have /\ dir[2] \notin have
           /\ FirstOf(dir, have) # <<>> =>
                /\ FirstOf(dir, have) \in {<<dir[1]>>, <<dir[2]>>} /\ FirstOf(dir, have)[1] \in have
                /\ FirstOf(dir, have)[1] = dir[2] => dir[1] \notin have
           /\ dir[1] # dir[2] /\ dir[1] # ".kritika.yaml" /\ dir[2] # ".kritika.yaml"
BY DEF FirstOf, Dirs, Top, Lib

\* A directory's agent file is read or noted.
LEMMA ReadDirSaid ==
    ASSUME NEW N, NEW commit, Sized(commit), NEW got, WellRead(N, commit, got), NEW dir \in Dirs,
           dir[1] \in N, dir[2] \in N
    PROVE  /\ WellRead(N, commit, ReadDir(commit.tree, got, dir))
           /\ Later(commit, got, ReadDir(commit.tree, got, dir))
           /\ \A f \in Elements(FirstOf(dir, DOMAIN commit.tree)) : Reached(commit, ReadDir(commit.tree, got, dir), f)
<1> DEFINE have == DOMAIN got.files \cup DOMAIN commit.tree
           found == FirstOf(dir, have)
           to == ReadDir(commit.tree, got, dir)
<1>0. got \in Got(N) /\ Kept(commit, got) /\ dir[1] # dir[2] /\ dir[1] # ".kritika.yaml" /\ dir[2] # ".kritika.yaml"
    BY FirstThere DEF WellRead
<1>1. \A f \in {dir[1], dir[2]} : /\ f \in have <=> f \in DOMAIN commit.tree
                                  /\ HasFile(commit, f) <=> f \in DOMAIN commit.tree
                                  /\ SizeAt(commit, f) = commit.tree[f]
    BY <1>0 DEF Kept, HasFile, SizeAt
<1>2. found = FirstOf(dir, DOMAIN commit.tree)
    BY <1>1 DEF FirstOf
<1>3. to = IF found = <<>> \/ found[1] \in DOMAIN got.files THEN got ELSE Keep(got, found[1], commit.tree[found[1]])
    BY DEF ReadDir
<1> HIDE DEF found, to
<1>4. CASE found = <<>>
    BY <1>0, <1>2, <1>3, <1>4, LaterSame DEF WellRead, Elements, to
<1>5. CASE found # <<>>
  <2>1. PICK f \in {dir[1], dir[2]} : found = <<f>> /\ f \in DOMAIN commit.tree
      BY <1>2, <1>5, FirstThere
  <2>2. f \in N /\ HasFile(commit, f) /\ SizeAt(commit, f) = commit.tree[f] /\ commit.tree[f] \in Nat
      BY <1>1, <2>1 DEF Sized
  <2>3. Elements(found) = {f} /\ found[1] = f
      BY <2>1 DEF Elements
  <2>4. CASE f \in DOMAIN got.files
      BY <1>0, <1>2, <1>3, <1>5, <2>3, <2>4, LaterSame DEF WellRead, Reached, to
  <2>5. CASE f \notin DOMAIN got.files
    <3>1. to = Keep(got, f, SizeAt(commit, f))
        BY <1>3, <1>5, <2>2, <2>3, <2>5
    <3>2. to \in Got(N)
        BY <1>0, <2>2, <3>1, KeepTyped
    <3>3. Later(commit, got, to) /\ Kept(commit, to) /\ Reached(commit, to, f)
        BY <1>0, <2>2, <2>5, <3>1, KeepFacts DEF Reached
    <3> QED BY <1>2, <2>3, <3>2, <3>3 DEF WellRead, to
  <2> QED BY <2>4, <2>5
<1> QED BY <1>4, <1>5

\* What the settings name is among the names.
AllNamed(m, yaml) == \A f \in Elements(Referenced(m)) : \E i \in 1 .. Len(RepoFiles(m, yaml)) : f = RepoFiles(m, yaml)[i]

\* The names a review reads: its rules' files, then the template.
LEMMA NamesOf ==
    ASSUME NEW m, NEW R, m.rules \in Seq(R), NEW yaml
    PROVE  /\ RepoFiles(m, yaml) \in Seq({r.file : r \in R} \cup {m.template, ".kritika.yaml"})
           /\ Len(m.rules) \in Nat /\ Len(m.rules) + 1 <= Len(RepoFiles(m, yaml)) /\ Len(RepoFiles(m, yaml)) \in Nat
           /\ \A i \in 1 .. Len(m.rules) : RepoFiles(m, yaml)[i] = m.rules[i].file
           /\ Elements(Referenced(m)) = {m.rules[i].file : i \in 1 .. Len(m.rules)} \cup {m.template}
           /\ AllNamed(m, yaml)
<1> DEFINE n == Len(m.rules)
           T == {r.file : r \in R} \cup {m.template, ".kritika.yaml"}
           a == RuleFiles(m.rules)
           b == Referenced(m)
           c == IF yaml.kind = "text" THEN <<".kritika.yaml">> ELSE <<>>
<1>1. n \in Nat /\ DOMAIN m.rules = 1 .. n /\ \A i \in 1 .. n : m.rules[i] \in R
  <2>1. PICK s \in Seq(R) : s = m.rules
      OBVIOUS
  <2>2. Len(s) \in Nat /\ DOMAIN s = 1 .. Len(s) /\ \A i \in 1 .. Len(s) : s[i] \in R
      OBVIOUS
  <2> QED BY <2>1, <2>2
<1>2. a \in Seq(T) /\ Len(a) = n /\ \A i \in 1 .. n : a[i] = m.rules[i].file
  <2>1. \A i \in 1 .. n : m.rules[i].file \in T
      BY <1>1
  <2> HIDE DEF T
  <2> QED BY <1>1, <2>1 DEF RuleFiles
<1>3. m.template \in T /\ c \in Seq(T) /\ Len(c) \in Nat
  <2>1. m.template \in T /\ ".kritika.yaml" \in T
      OBVIOUS
  <2> HIDE DEF T
  <2>2. <<".kritika.yaml">> \in Seq(T) /\ <<>> \in Seq(T) /\ Len(<<".kritika.yaml">>) \in Nat /\ Len(<<>>) \in Nat
      BY <2>1
  <2> QED BY <2>1, <2>2
<1>4. b = Append(a, m.template) /\ RepoFiles(m, yaml) = b \o c
    BY DEF Referenced, RepoFiles
<1> HIDE DEF T, a, c, n
<1>5. b \in Seq(T) /\ Len(b) = n + 1 /\ b[n + 1] = m.template /\ \A i \in 1 .. n : b[i] = m.rules[i].file
    BY <1>1, <1>2, <1>3, <1>4
<1> HIDE DEF b
<1>6. b \o c \in Seq(T) /\ Len(b \o c) = n + 1 + Len(c) /\ \A i \in 1 .. n + 1 : (b \o c)[i] = b[i]
  <2>1. /\ b \o c \in Seq(T) /\ Len(b \o c) = Len(b) + Len(c)
        /\ \A i \in 1 .. Len(b) : (b \o c)[i] = b[i]
      BY <1>3, <1>5
  <2>2. Len(b) = n + 1
      BY <1>5
  <2> QED BY <2>1, <2>2
<1>7. \A i \in 1 .. n : i \in 1 .. n + 1
    BY <1>1
<1>8. n + 1 \in 1 .. n + 1 /\ \A i \in 1 .. n + 1 : i \in 1 .. n \/ i = n + 1
    BY <1>1
<1>9. DOMAIN b = 1 .. n + 1
    BY <1>1, <1>5
<1>10. Elements(b) = {m.rules[i].file : i \in 1 .. n} \cup {m.template}
    BY <1>5, <1>7, <1>8, <1>9 DEF Elements
<1>11. \A i \in 1 .. n + 1 : i \in 1 .. Len(b \o c)
    BY <1>1, <1>3, <1>6
<1>12. \A f \in Elements(b) : \E i \in 1 .. Len(b \o c) : f = (b \o c)[i]
    BY <1>6, <1>9, <1>11 DEF Elements
<1>13. n + 1 <= Len(b \o c) /\ Len(b \o c) \in Nat
    BY <1>1, <1>3, <1>6
<1>14. \A i \in 1 .. n : (b \o c)[i] = m.rules[i].file
    BY <1>5, <1>6, <1>7
<1>15. /\ RepoFiles(m, yaml) \in Seq(T)
       /\ n \in Nat /\ n + 1 <= Len(RepoFiles(m, yaml)) /\ Len(RepoFiles(m, yaml)) \in Nat
       /\ \A i \in 1 .. n : RepoFiles(m, yaml)[i] = m.rules[i].file
    BY <1>1, <1>4, <1>6, <1>13, <1>14
<1>16. \A f \in Elements(b) : \E i \in 1 .. Len(RepoFiles(m, yaml)) : f = RepoFiles(m, yaml)[i]
    BY <1>4, <1>12
<1>17. AllNamed(m, yaml)
    BY <1>16 DEF AllNamed, b
<1> QED BY <1>10, <1>15, <1>17 DEF T, n, b

\* The instructions are the agent files of the directories.
LEMMA AgentsOf ==
    ASSUME NEW files, NEW changed
    PROVE  /\ AgentFilesOf(files, changed) \in Seq({Top[1], Top[2], Lib[1], Lib[2]})
           /\ \A f \in Elements(AgentFilesOf(files, changed)) :
                  \/ f \in Elements(FirstOf(Top, DOMAIN files))
                  \/ InLib(changed) /\ f \in Elements(FirstOf(Lib, DOMAIN files))
           /\ Elements(FirstOf(Top, DOMAIN files)) \subseteq Elements(AgentFilesOf(files, changed))
           /\ InLib(changed) => Elements(FirstOf(Lib, DOMAIN files)) \subseteq Elements(AgentFilesOf(files, changed))
<1> DEFINE T == {Top[1], Top[2], Lib[1], Lib[2]}
           a == FirstOf(Top, DOMAIN files)
           b == IF InLib(changed) THEN FirstOf(Lib, DOMAIN files) ELSE <<>>
<1>1. Top[1] \in T /\ Top[2] \in T /\ Lib[1] \in T /\ Lib[2] \in T
    OBVIOUS
<1>2. a \in Seq(T) /\ b \in Seq(T)
  <2> HIDE DEF T
  <2>1. <<>> \in Seq(T) /\ \A f \in T : <<f>> \in Seq(T)
      OBVIOUS
  <2> QED BY <1>1, <2>1 DEF FirstOf
<1>3. AgentFilesOf(files, changed) = a \o b
    BY DEF AgentFilesOf
<1>4. ~InLib(changed) => Elements(b) = {}
    BY DEF Elements
<1> HIDE DEF T, a
<1>5. a \o b \in Seq(T) /\ Elements(a \o b) = Elements(a) \cup Elements(b)
  <2> HIDE DEF b
  <2> QED BY <1>2, JoinedMembers
<1> QED BY <1>3, <1>4, <1>5 DEF T, a

Named(m) == {r.file : r \in Elements(m.rules)} \cup {m.template, ".kritika.yaml", Top[1], Top[2], Lib[1], Lib[2]}

\* Each file the settings name and each agent file is read or noted.
LEMMA ReadFilesSaid ==
    ASSUME NEW commit, Sized(commit), NEW m, m.rules \in Seq(Elements(m.rules)), NEW changed
    PROVE  /\ WellRead(Named(m), commit, ReadFiles(commit, m, changed))
           /\ \A i \in 0 .. Len(RepoFiles(m, commit.doc)) :
                  /\ WellRead(Named(m), commit, Collected(commit, RepoFiles(m, commit.doc))[i])
                  /\ Later(commit, Collected(commit, RepoFiles(m, commit.doc))[i], ReadFiles(commit, m, changed))
           /\ \A i \in 1 .. Len(RepoFiles(m, commit.doc)) :
                  Met(commit, Collected(commit, RepoFiles(m, commit.doc))[i], RepoFiles(m, commit.doc)[i])
           /\ \A f \in Elements(Referenced(m)) : Met(commit, ReadFiles(commit, m, changed), f)
           /\ m.agentFiles => \A f \in Elements(AgentFilesOf(commit.tree, changed)) :
                  Reached(commit, ReadFiles(commit, m, changed), f)
<1> DEFINE N == Named(m)
           names == RepoFiles(m, commit.doc)
           n == Len(names)
           c == Collected(commit, names)
           got == ReadFiles(commit, m, changed)
           above == ReadDir(commit.tree, c[n], Top)
           agents == ReadAgentFiles(commit.tree, c[n], changed)
<1>1. names \in Seq(N) /\ n \in Nat
  <2> DEFINE T == {r.file : r \in Elements(m.rules)} \cup {m.template, ".kritika.yaml"}
  <2>1. names \in Seq(T)
      BY NamesOf
  <2>2. T \subseteq N
      BY DEF Named
  <2> HIDE DEF T, N, names
  <2> QED BY <2>1, <2>2
<1>15. AllNamed(m, commit.doc)
  <2>1. m.rules \in Seq(Elements(m.rules))
      OBVIOUS
  <2> HIDE DEF names, n
  <2> QED BY <2>1, NamesOf
<1>2. /\ \A i \in 0 .. n : WellRead(N, commit, c[i])
      /\ \A i \in 0 .. n : Later(commit, c[i], c[n])
      /\ \A i \in 1 .. n : Met(commit, c[i], names[i])
  <2> HIDE DEF N, names
  <2> QED BY <1>1, CollectedSaid
<1>3. Top \in Dirs /\ Lib \in Dirs /\ Top[1] \in N /\ Top[2] \in N /\ Lib[1] \in N /\ Lib[2] \in N
    BY DEF Named, Dirs
<1>4. got = IF m.agentFiles THEN agents ELSE c[n]
    BY DEF ReadFiles, Collect
<1>5. agents = IF InLib(changed) THEN ReadDir(commit.tree, above, Lib) ELSE above
    BY DEF ReadAgentFiles
<1> HIDE DEF N, names, n, c, got, agents
<1>6. WellRead(N, commit, c[n]) /\ n \in 0 .. n
    BY <1>1, <1>2
<1>7. /\ WellRead(N, commit, above) /\ Later(commit, c[n], above)
      /\ \A f \in Elements(FirstOf(Top, DOMAIN commit.tree)) : Reached(commit, above, f)
    BY <1>3, <1>6, ReadDirSaid
<1> HIDE DEF above
<1> DEFINE below == ReadDir(commit.tree, above, Lib)
<1>8. /\ WellRead(N, commit, below) /\ Later(commit, above, below)
      /\ \A f \in Elements(FirstOf(Lib, DOMAIN commit.tree)) : Reached(commit, below, f)
    BY <1>3, <1>7, ReadDirSaid
<1> HIDE DEF below
<1>9. WellRead(N, commit, got) /\ Later(commit, c[n], got)
  <2>1. Later(commit, c[n], below)
      BY <1>6, <1>7, <1>8, LaterOn DEF WellRead
  <2>2. Later(commit, c[n], c[n])
      BY <1>6, LaterSame DEF WellRead
  <2> QED BY <1>4, <1>5, <1>6, <1>7, <1>8, <2>1, <2>2 DEF below
<1>10. \A i \in 0 .. n : Later(commit, c[i], got)
    BY <1>2, <1>6, <1>9, LaterOn DEF WellRead
<1>11. ASSUME NEW f \in Elements(Referenced(m)) PROVE Met(commit, got, f)
  <2>1. PICK i \in 1 .. n : f = names[i]
      BY <1>15 DEF AllNamed, n, names
  <2>2. i \in 0 .. n
      BY <1>1
  <2> QED BY <1>2, <1>9, <1>10, <2>1, <2>2, ReachedLater DEF WellRead, Met
<1>12. ASSUME m.agentFiles, NEW f \in Elements(AgentFilesOf(commit.tree, changed)) PROVE Reached(commit, got, f)
  <2>1. f \in Elements(FirstOf(Top, DOMAIN commit.tree)) \/ (InLib(changed) /\ f \in Elements(FirstOf(Lib, DOMAIN commit.tree)))
      BY <1>12, AgentsOf
  <2>2. CASE InLib(changed)
    <3>1. above \in Got(N) /\ below \in Got(N)
        BY <1>7, <1>8 DEF WellRead
    <3>2. got = below
        BY <1>4, <1>5, <1>12, <2>2 DEF below
    <3> QED BY <1>7, <1>8, <2>1, <3>1, <3>2, ReachedLater
  <2>3. CASE ~InLib(changed)
      BY <1>4, <1>5, <1>7, <1>12, <2>1, <2>3
  <2> QED BY <2>2, <2>3
<1> QED BY <1>2, <1>9, <1>10, <1>11, <1>12 DEF N, names, n, c, got

\* The rules of an admin read the same, whatever other files are named.
LEMMA ReadAlike ==
    ASSUME NEW commit, Sized(commit), NEW m, m.rules \in Seq(Elements(m.rules)),
           NEW op, op.rules \in Seq(Elements(op.rules)), NEW own, own \in Seq(Elements(own)), m.rules = op.rules \o own,
           NEW changed, NEW r \in Elements(op.rules)
    PROVE  TextOf(r, ReadFiles(commit, m, changed).files) = TextOf(r, ReadFiles(commit, op, changed).files)
<1> DEFINE k == Len(op.rules)
           a == RepoFiles(op, commit.doc)
           b == RepoFiles(m, commit.doc)
           c == Collected(commit, a)
           d == Collected(commit, b)
           G == {i \in 0 .. k : c[i] = d[i]}
           some == ReadFiles(commit, op, changed)
           more == ReadFiles(commit, m, changed)
<1>1. /\ k \in Nat /\ k <= Len(a) /\ Len(a) \in Nat /\ \A i \in 1 .. k : a[i] = op.rules[i].file
      /\ DOMAIN op.rules = 1 .. k
  <2>1. Len(op.rules) + 1 <= Len(a) /\ Len(a) \in Nat /\ Len(op.rules) \in Nat
      BY NamesOf
  <2>2. \A i \in 1 .. k : a[i] = op.rules[i].file
      BY NamesOf
  <2>3. DOMAIN op.rules = 1 .. k
      OBVIOUS
  <2> HIDE DEF a
  <2> QED BY <2>1, <2>2, <2>3
<1>2. /\ k <= Len(b) /\ Len(b) \in Nat /\ \A i \in 1 .. k : b[i] = op.rules[i].file
  <2>1. Len(m.rules) = k + Len(own) /\ Len(own) \in Nat /\ \A i \in 1 .. k : m.rules[i] = op.rules[i]
      BY PrefixJoined
  <2>2. Len(m.rules) + 1 <= Len(b) /\ Len(b) \in Nat
      BY NamesOf
  <2>3. \A i \in 1 .. Len(m.rules) : b[i] = m.rules[i].file
      BY NamesOf
  <2> HIDE DEF a, b, k
  <2>4. \A i \in 1 .. k : i \in 1 .. Len(m.rules)
      BY <1>1, <2>1
  <2> QED BY <1>1, <2>1, <2>2, <2>3, <2>4
<1>3. a \in Seq(Named(op)) /\ b \in Seq(Named(m))
  <2>1. a \in Seq({q.file : q \in Elements(op.rules)} \cup {op.template, ".kritika.yaml"})
      BY NamesOf
  <2>2. b \in Seq({q.file : q \in Elements(m.rules)} \cup {m.template, ".kritika.yaml"})
      BY NamesOf
  <2>3. ASSUME NEW S, NEW T, S \subseteq T PROVE Seq(S) \subseteq Seq(T)
      BY <2>3
  <2>4. {q.file : q \in Elements(op.rules)} \cup {op.template, ".kritika.yaml"} \subseteq Named(op)
        /\ {q.file : q \in Elements(m.rules)} \cup {m.template, ".kritika.yaml"} \subseteq Named(m)
      BY DEF Named
  <2> HIDE DEF a, b
  <2> QED BY <2>1, <2>2, <2>3, <2>4
<1>4. /\ c[0] = NoFiles /\ d[0] = NoFiles
      /\ \A i \in 1 .. Len(a) : c[i] = Read(commit, c[i - 1], a[i])
      /\ \A i \in 1 .. Len(b) : d[i] = Read(commit, d[i - 1], b[i])
  <2> HIDE DEF a, b
  <2> QED BY <1>3, CollectedFacts
<1>5. /\ WellRead(Named(op), commit, some) /\ WellRead(Named(m), commit, more)
      /\ \A i \in 0 .. Len(a) : WellRead(Named(op), commit, c[i]) /\ Later(commit, c[i], some)
      /\ \A i \in 0 .. Len(b) : Later(commit, d[i], more)
      /\ \A i \in 1 .. Len(a) : Met(commit, c[i], a[i])
    BY ReadFilesSaid
<1> HIDE DEF a, b, c, d, k, some, more
<1>6. \A i \in 0 .. k : i \in G
  <2>1. 0 \in G
      BY <1>1, <1>4
  <2>2. ASSUME NEW i \in 1 .. k, i - 1 \in G PROVE i \in G
    <3>1. i \in 1 .. Len(a) /\ i \in 1 .. Len(b) /\ i \in 0 .. k
        BY <1>1, <1>2
    <3> QED BY <1>1, <1>2, <1>4, <2>2, <3>1
  <2> HIDE DEF G
  <2> QED BY <1>1, <2>1, <2>2, Counting
<1>7. PICK i \in 1 .. k : r = op.rules[i]
    BY <1>1 DEF Elements
<1>8. i \in 0 .. k /\ i \in 1 .. Len(a) /\ i \in 0 .. Len(a) /\ i \in 0 .. Len(b)
    BY <1>1, <1>2
<1> DEFINE f == r.file
<1>9. /\ Met(commit, c[i], f) /\ WellRead(Named(op), commit, c[i])
      /\ Later(commit, c[i], some) /\ Later(commit, c[i], more)
    BY <1>1, <1>5, <1>6, <1>7, <1>8
<1> HIDE DEF f
<1>10. CASE f = NoFile
    BY <1>10 DEF TextOf, f
<1>11. CASE f # NoFile /\ f \in DOMAIN c[i].files
  <2>1. f \in DOMAIN some.files /\ f \in DOMAIN more.files
      BY <1>9, <1>11 DEF Later
  <2>2. some.files[f] = SizeAt(commit, f) /\ more.files[f] = SizeAt(commit, f)
      BY <1>5, <2>1 DEF WellRead, Kept
  <2> QED BY <1>11, <2>1, <2>2 DEF TextOf, f, some, more
<1>12. CASE f # NoFile /\ f \notin DOMAIN c[i].files
  <2>1. Refused(commit, c[i], f)
      BY <1>9, <1>12 DEF Met, Reached
  <2>2. f \notin DOMAIN some.files /\ f \notin DOMAIN more.files
      BY <1>9, <1>12, <2>1 DEF Later
  <2> QED BY <1>12, <2>2 DEF TextOf, f, some, more
<1> QED BY <1>10, <1>11, <1>12

\* What is given of the admin's rules and more is what is given of them, and
\* then of the more.
LEMMA ActiveAlone ==
    ASSUME NEW R, NEW files, Texts(R, files), NEW others, Texts(R, others), NEW changed,
           NEW a, a \in Seq(Elements(a)), Elements(a) \subseteq R, NEW b, b \in Seq(Elements(b)), Elements(b) \subseteq R,
           \A r \in Elements(a) : TextOf(r, files) = TextOf(r, others)
    PROVE  LET alone == ActiveRules(a, others, changed).out
               given == ActiveRules(a \o b, files, changed).out
           IN  IsPrefix(alone, given) /\ \A i \in Len(alone) + 1 .. Len(given) : given[i] \in Elements(b)
<1> DEFINE k == Len(a)
           n == Len(a \o b)
           c == Activated(a, others, changed)
           d == Activated(a \o b, files, changed)
           alone == c[k].out
           AdminsIn(i) == /\ Len(alone) <= Len(d[i].out)
                          /\ \A j \in 1 .. Len(alone) : d[i].out[j] = alone[j]
                          /\ \A j \in Len(alone) + 1 .. Len(d[i].out) : d[i].out[j] \in Elements(b)
           G == {i \in 0 .. n : i <= k => c[i] = d[i]}
           H == {i \in 0 .. n : i >= k => AdminsIn(i)}
<1>1. /\ k \in Nat /\ n \in Nat /\ n = k + Len(b) /\ Len(b) \in Nat
      /\ \A i \in 1 .. k : (a \o b)[i] = a[i]
      /\ \A i \in 1 .. Len(b) : (a \o b)[k + i] = b[i]
      /\ DOMAIN a = 1 .. k /\ DOMAIN b = 1 .. Len(b)
    BY PrefixJoined
<1>2. a \in Seq(R) /\ b \in Seq(R) /\ a \o b \in Seq(R)
    OBVIOUS
<1>3. /\ \A i \in 0 .. k : c[i] \in Active(R)
      /\ c[0] = NoneActive
      /\ \A i \in 1 .. k : c[i] = AddRule(others, changed, c[i - 1], a[i])
    BY <1>2, ActivatedFacts
<1>4. /\ \A i \in 0 .. n : d[i] \in Active(R)
      /\ d[0] = NoneActive
      /\ \A i \in 1 .. n : d[i] = AddRule(files, changed, d[i - 1], (a \o b)[i])
  <2>1. ASSUME NEW s \in Seq(R)
        PROVE  /\ \A i \in 0 .. Len(s) : Activated(s, files, changed)[i] \in Active(R)
               /\ Activated(s, files, changed)[0] = NoneActive
               /\ \A i \in 1 .. Len(s) :
                      Activated(s, files, changed)[i] = AddRule(files, changed, Activated(s, files, changed)[i - 1], s[i])
      BY ActivatedFacts
  <2> QED BY <1>2, <2>1
<1> HIDE DEF c, d, k, n
<1>5. ASSUME NEW given, NEW r \in Elements(a) PROVE AddRule(files, changed, given, r) = AddRule(others, changed, given, r)
  <2>1. TextOf(r, files) = TextOf(r, others)
      OBVIOUS
  <2> QED BY <2>1 DEF AddRule
<1>6. \A i \in 0 .. n : i \in G
  <2>1. 0 \in G
      BY <1>1, <1>3, <1>4
  <2>2. ASSUME NEW i \in 1 .. n, i - 1 \in G PROVE i \in G
    <3>1. CASE i <= k
      <4>1. i \in 1 .. k /\ i - 1 <= k /\ i \in 0 .. n
          BY <1>1, <3>1
      <4>2. a[i] \in Elements(a) /\ (a \o b)[i] = a[i]
          BY <1>1, <4>1 DEF Elements
      <4>3. c[i - 1] = d[i - 1]
          BY <2>2, <4>1
      <4>4. c[i] = AddRule(others, changed, c[i - 1], a[i]) /\ d[i] = AddRule(files, changed, d[i - 1], (a \o b)[i])
          BY <1>3, <1>4, <4>1
      <4>5. c[i] = d[i]
          BY <1>5, <4>2, <4>3, <4>4
      <4> QED BY <4>1, <4>5
    <3>2. CASE ~(i <= k)
        BY <1>1, <3>2
    <3> QED BY <3>1, <3>2
  <2> HIDE DEF G
  <2> QED BY <1>1, <2>1, <2>2, Counting
<1>7. c[k] = d[k] /\ k \in 0 .. n /\ n \in 0 .. n
    BY <1>1, <1>6
<1>8. alone \in Seq(R) /\ Len(alone) \in Nat
  <2>1. c[k] \in Active(R)
      BY <1>1, <1>3
  <2> QED BY <2>1 DEF Active
<1>9. AdminsIn(k)
    BY <1>7, <1>8
<1>10. \A i \in 0 .. n : i \in H
  <2> HIDE DEF AdminsIn
  <2>1. 0 \in H
      BY <1>1, <1>9
  <2>2. ASSUME NEW i \in 1 .. n, i - 1 \in H PROVE i \in H
    <3>0. i \in 0 .. n /\ i - 1 \in 0 .. n
        BY <1>1
    <3>1. CASE i > k
      <4>1. AdminsIn(i - 1) /\ i - k \in 1 .. Len(b) /\ k + (i - k) = i
          BY <1>1, <2>2, <3>1
      <4>2. PICK r \in Elements(b) : r = (a \o b)[i]
        <5>1. \A j \in 1 .. Len(b) : (a \o b)[k + j] \in Elements(b)
            BY <1>1 DEF Elements
        <5> QED BY <4>1, <5>1
      <4>3. d[i - 1] \in Active(R) /\ r \in R /\ d[i] = AddRule(files, changed, d[i - 1], r)
          BY <1>4, <3>0, <4>2
      <4>4. d[i].out = d[i - 1].out \/ d[i].out = Append(d[i - 1].out, r)
        <5>1. Adds(d[i - 1], r, files, changed, d[i])
            BY <4>3, AddRuleFacts
        <5> QED BY <5>1 DEF Adds
      <4>5. d[i - 1].out \in Seq(R)
          BY <4>3 DEF Active
      <4>6. ASSUME NEW o \in Seq(R), o = d[i - 1].out, d[i].out = Append(o, r) PROVE AdminsIn(i)
        <5>1. /\ Len(d[i].out) = Len(o) + 1 /\ Len(o) \in Nat /\ d[i].out[Len(o) + 1] = r
              /\ \A j \in 1 .. Len(o) : d[i].out[j] = o[j]
            BY <4>3, <4>6
        <5>2. /\ Len(alone) <= Len(o) /\ \A j \in 1 .. Len(alone) : o[j] = alone[j]
              /\ \A j \in Len(alone) + 1 .. Len(o) : o[j] \in Elements(b)
            BY <4>1, <4>6 DEF AdminsIn
        <5>3. \A j \in 1 .. Len(alone) : j \in 1 .. Len(o)
            BY <1>8, <5>1, <5>2
        <5>4. \A j \in Len(alone) + 1 .. Len(o) + 1 : j = Len(o) + 1 \/ (j \in Len(alone) + 1 .. Len(o) /\ j \in 1 .. Len(o))
            BY <1>8, <5>1, <5>2
        <5>5. Len(alone) <= Len(d[i].out)
            BY <1>8, <5>1, <5>2
        <5> HIDE DEF alone
        <5> QED BY <4>2, <5>1, <5>2, <5>3, <5>4, <5>5 DEF AdminsIn
      <4>7. d[i].out = d[i - 1].out => AdminsIn(i)
          BY <4>1 DEF AdminsIn
      <4> QED BY <3>0, <4>4, <4>5, <4>6, <4>7
    <3>2. CASE i = k
        BY <1>9, <3>0, <3>2
    <3>3. CASE i < k
        BY <1>1, <3>0, <3>3
    <3> QED BY <1>1, <3>1, <3>2, <3>3
  <2> HIDE DEF H
  <2> QED BY <1>1, <2>1, <2>2, Counting
<1>11. AdminsIn(n)
    BY <1>1, <1>7, <1>10
<1>12. d[n].out \in Seq(R)
    BY <1>4, <1>7 DEF Active
<1>13. IsPrefix(alone, d[n].out)
  <2> DEFINE o == d[n].out
  <2>1. Len(alone) <= Len(o) /\ \A j \in 1 .. Len(alone) : o[j] = alone[j]
      BY <1>11
  <2> HIDE DEF o, alone
  <2>2. SubSeq(alone, 1, Len(alone)) = [j \in 1 .. Len(alone) |-> alone[j]] /\ SubSeq(o, 1, Len(alone)) = [j \in 1 .. Len(alone) |-> o[j]]
      BY <1>8 DEF SubSeq
  <2> QED BY <2>1, <2>2 DEF IsPrefix, o
<1>14. ActiveRules(a, others, changed).out = alone /\ ActiveRules(a \o b, files, changed).out = d[n].out
    BY DEF ActiveRules, c, d, k, n
<1> QED BY <1>11, <1>13, <1>14

Commits == [doc : Documents, tree : Trees]

\* Of a commit.
LEMMA CommitSized == ASSUME NEW commit \in Commits PROVE Sized(commit) /\ commit.doc \in Documents
BY BriefingAssumption DEF Commits, Sized

\* Of the admin's settings.
LEMMA SettingsTyped ==
    ASSUME NEW op \in AdminSettings
    PROVE  DOMAIN op = SettingKeys /\ AsSeqs(op) /\ op.enabled \in BOOLEAN /\ op.fix \in BOOLEAN /\ op.feedback \in Levels
BY BriefingAssumption DEF SettingKeys, AsSeqs, Levels

\* Of .kritika.yaml.
LEMMA DocumentTyped == ASSUME NEW d \in Documents PROVE AsSeqs(d) /\ d.fix \in {{}, {TRUE}, {FALSE}}
BY BriefingAssumption DEF AsSeqs

\* The settings of a review are the admin's, and more.
LEMMA MergedTyped ==
    ASSUME NEW op \in AdminSettings, NEW d \in Documents
    PROVE  /\ Settled(op, d, Merge(d, op)) /\ AsSeqs(Merge(d, op))
           /\ IsPrefix(op.rules, Merge(d, op).rules) /\ IsPrefix(op.context, Merge(d, op).context)
<1> DEFINE m == Merge(d, op)
<1>1. AsSeqs(op) /\ AsSeqs(d) /\ Settled(op, d, m)
    BY SettingsTyped, DocumentTyped, SettledFacts
<1> HIDE DEF m
<1>2. ASSUME NEW a, a \in Seq(Elements(a)), NEW b, NEW T, b \in Seq(T)
      PROVE  /\ IsPrefix(a, a \o b) /\ a \o b \in Seq(Elements(a \o b))
             /\ Elements(a \o b) = Elements(a) \cup Elements(b)
  <2>1. b \in Seq(Elements(b))
      BY <1>2 DEF Elements
  <2> DEFINE S == Elements(a) \cup Elements(b)
  <2>2. a \in Seq(S) /\ b \in Seq(S)
      BY <1>2, <2>1
  <2> HIDE DEF S
  <2>3. a \o b \in Seq(S) /\ Elements(a \o b) = Elements(a) \cup Elements(b)
      BY <2>2, JoinedMembers
  <2>4. IsPrefix(a, a \o b)
      BY <1>2, <2>1, PrefixJoined
  <2> QED BY <2>3, <2>4 DEF S
<1>3. PICK own \in Seq(Elements(d.rules)) : m.rules = op.rules \o own
    BY <1>1 DEF Settled
<1>4. PICK more \in Seq(Elements(d.context)) : m.context = op.context \o more
    BY <1>1 DEF Settled, AddedTo
<1>5. op.rules \in Seq(Elements(op.rules)) /\ op.context \in Seq(Elements(op.context))
    BY <1>1 DEF AsSeqs
<1>6. /\ IsPrefix(op.rules, m.rules) /\ m.rules \in Seq(Elements(m.rules))
      /\ Elements(m.rules) = Elements(op.rules) \cup Elements(own)
    BY <1>2, <1>3, <1>5
<1>7. IsPrefix(op.context, m.context) /\ m.context \in Seq(Elements(m.context))
    BY <1>2, <1>4, <1>5
<1>8. Elements(own) \subseteq Elements(d.rules)
  <2>1. DOMAIN own = 1 .. Len(own) /\ \A i \in 1 .. Len(own) : own[i] \in Elements(d.rules)
      OBVIOUS
  <2> QED BY <2>1 DEF Elements
<1>9. \A r \in Elements(m.rules) : r.size \in Nat
    BY <1>1, <1>6, <1>8 DEF AsSeqs
<1> QED BY <1>1, <1>6, <1>7, <1>9 DEF AsSeqs, m

\* Each rule has a text of some size.
LEMMA TextsTyped ==
    ASSUME NEW m, AsSeqs(m), NEW N, NEW commit, NEW got, WellRead(N, commit, got)
    PROVE  /\ Texts(Elements(m.rules), got.files) /\ got.files \in [DOMAIN got.files -> Nat]
<1>1. got.files \in [DOMAIN got.files -> Nat]
    BY DEF WellRead, Got
<1> QED BY <1>1 DEF Texts, TextOf, AsSeqs

\* No rule of the admin's is crowded out.
LEMMA AdminsFirst ==
    ASSUME NEW op \in AdminSettings, NEW commit \in Commits, NEW changed
    PROVE  LET given == Inputs(Merge(commit.doc, op), commit, changed).rules
               alone == Inputs(op, commit, changed).rules
           IN  IsPrefix(alone, given) /\ \A i \in Len(alone) + 1 .. Len(given) : given[i] \notin Elements(op.rules)
<1> DEFINE m == Merge(commit.doc, op)
           some == ReadFiles(commit, op, changed)
           more == ReadFiles(commit, m, changed)
           R == Elements(m.rules)
<1>1. Sized(commit) /\ commit.doc \in Documents
    BY CommitSized
<1>2. AsSeqs(op) /\ AsSeqs(m) /\ Settled(op, commit.doc, m)
    BY <1>1, SettingsTyped, MergedTyped
<1> HIDE DEF m
<1>3. PICK own \in Seq(Elements(commit.doc.rules)) : m.rules = op.rules \o own /\ \A r \in Elements(own) : r \notin Elements(op.rules)
    BY <1>2 DEF Settled
<1>4. own \in Seq(Elements(own)) /\ op.rules \in Seq(Elements(op.rules)) /\ m.rules \in Seq(Elements(m.rules))
    BY <1>2 DEF AsSeqs, Elements
<1>5. Elements(op.rules) \subseteq R /\ Elements(own) \subseteq R
  <2> DEFINE S == Elements(op.rules) \cup Elements(own)
  <2>1. op.rules \in Seq(S) /\ own \in Seq(S)
      BY <1>4
  <2> HIDE DEF S
  <2> QED BY <1>3, <2>1, JoinedMembers
<1>6. WellRead(Named(op), commit, some) /\ WellRead(Named(m), commit, more)
    BY <1>1, <1>4, ReadFilesSaid
<1>7. Texts(R, more.files) /\ Texts(R, some.files)
    BY <1>2, <1>6, TextsTyped
<1>8. \A r \in Elements(op.rules) : TextOf(r, more.files) = TextOf(r, some.files)
  <2> DEFINE A == Elements(op.rules)
             M == Elements(m.rules)
             O == Elements(own)
  <2>1. op.rules \in Seq(A) /\ m.rules \in Seq(M) /\ own \in Seq(O)
      BY <1>4
  <2>2. Sized(commit) /\ m.rules = op.rules \o own
      BY <1>1, <1>3
  <2> QED BY <2>1, <2>2, ReadAlike
<1>9. Inputs(m, commit, changed).rules = ActiveRules(op.rules \o own, more.files, changed).out
      /\ Inputs(op, commit, changed).rules = ActiveRules(op.rules, some.files, changed).out
  <2>1. ASSUME NEW n PROVE Inputs(n, commit, changed).rules = ActiveRules(n.rules, ReadFiles(commit, n, changed).files, changed).out
      BY DEF Inputs, InputsGathered, InputsOf
  <2>2. /\ Inputs(m, commit, changed).rules = ActiveRules(m.rules, more.files, changed).out
        /\ Inputs(op, commit, changed).rules = ActiveRules(op.rules, some.files, changed).out
      BY <2>1
  <2> HIDE DEF some, more
  <2> QED BY <1>3, <2>2
<1> HIDE DEF R, some, more
<1> DEFINE alone == ActiveRules(op.rules, some.files, changed).out
           given == ActiveRules(op.rules \o own, more.files, changed).out
<1>10. IsPrefix(alone, given) /\ \A i \in Len(alone) + 1 .. Len(given) : given[i] \in Elements(own)
    BY <1>4, <1>5, <1>7, <1>8, ActiveAlone
<1> HIDE DEF alone, given
<1>11. \A i \in Len(alone) + 1 .. Len(given) : given[i] \notin Elements(op.rules)
    BY <1>3, <1>10
<1> QED BY <1>9, <1>10, <1>11 DEF alone, given, m

\* The agent file of a directory is among those kept of it, if it was kept.
LEMMA AgentsKept ==
    ASSUME NEW N, NEW commit, NEW got, WellRead(N, commit, got), NEW changed
    PROVE  /\ AgentFilesOf(got.files, changed) \in Seq(DOMAIN got.files)
           /\ \A f \in Elements(AgentFilesOf(commit.tree, changed)) :
                  /\ f \in DOMAIN got.files => f \in Elements(AgentFilesOf(got.files, changed))
                  /\ f \in DOMAIN got.files => f \in DOMAIN commit.tree /\ got.files[f] = commit.tree[f]
<1> DEFINE a == AgentFilesOf(got.files, changed)
<1>1. \A dir \in Dirs : \A f \in {dir[1], dir[2]} :
          f \in DOMAIN got.files => f \in DOMAIN commit.tree /\ got.files[f] = commit.tree[f]
  <2>1. \A dir \in Dirs : dir[1] # ".kritika.yaml" /\ dir[2] # ".kritika.yaml"
      BY FirstThere
  <2> QED BY <2>1 DEF WellRead, Kept, HasFile, SizeAt
<1>2. Top \in Dirs /\ Lib \in Dirs
    BY DEF Dirs
<1>3. \A dir \in Dirs : \A have : \A f \in Elements(FirstOf(dir, have)) :
          f \in {dir[1], dir[2]} /\ f \in have /\ (f = dir[2] => dir[1] \notin have)
  <2> SUFFICES ASSUME NEW dir \in Dirs, NEW have, NEW f \in Elements(FirstOf(dir, have))
               PROVE  f \in {dir[1], dir[2]} /\ f \in have /\ (f = dir[2] => dir[1] \notin have)
      OBVIOUS
  <2>1. dir[1] # dir[2]
      BY FirstThere
  <2>2. \A x : Elements(<<x>>) = {x}
      BY DEF Elements
  <2>3. Elements(<<>>) = {}
      BY DEF Elements
  <2> QED BY <2>1, <2>2, <2>3 DEF FirstOf
<1>4. ASSUME NEW dir \in Dirs, NEW f \in Elements(FirstOf(dir, DOMAIN commit.tree)), f \in DOMAIN got.files
      PROVE  /\ f \in Elements(FirstOf(dir, DOMAIN got.files))
             /\ f \in DOMAIN commit.tree /\ got.files[f] = commit.tree[f]
  <2>1. f \in {dir[1], dir[2]} /\ (f = dir[2] => dir[1] \notin DOMAIN got.files)
      BY <1>1, <1>3
  <2>2. \A x : Elements(<<x>>) = {x}
      BY DEF Elements
  <2>3. f \in Elements(FirstOf(dir, DOMAIN got.files))
      BY <1>4, <2>1, <2>2 DEF FirstOf
  <2> QED BY <1>1, <1>4, <2>1, <2>3
<1>5. a \in Seq(DOMAIN got.files)
  <2>1. a \in Seq({Top[1], Top[2], Lib[1], Lib[2]})
      BY AgentsOf
  <2>2. \A f \in Elements(a) : f \in DOMAIN got.files
      BY <1>2, <1>3, AgentsOf
  <2> HIDE DEF a
  <2>3. ASSUME NEW T, a \in Seq(T), NEW S, \A f \in Elements(a) : f \in S PROVE a \in Seq(S)
      BY <2>3 DEF Elements
  <2> QED BY <2>1, <2>2, <2>3
<1>6. ASSUME NEW f \in Elements(AgentFilesOf(commit.tree, changed)), f \in DOMAIN got.files
      PROVE  f \in Elements(a) /\ f \in DOMAIN commit.tree /\ got.files[f] = commit.tree[f]
  <2>1. f \in Elements(FirstOf(Top, DOMAIN commit.tree)) \/ (InLib(changed) /\ f \in Elements(FirstOf(Lib, DOMAIN commit.tree)))
      BY AgentsOf
  <2>2. /\ Elements(FirstOf(Top, DOMAIN got.files)) \subseteq Elements(a)
        /\ InLib(changed) => Elements(FirstOf(Lib, DOMAIN got.files)) \subseteq Elements(a)
      BY AgentsOf
  <2> HIDE DEF a
  <2> QED BY <1>2, <1>4, <1>6, <2>1, <2>2
<1> QED BY <1>5, <1>6

\* What the settings name, the rules that apply and the agent files are given
\* or noted, and the prompt is in its budget.
InputsSaid(m, commit, changed, in) ==
    /\ \A r \in Elements(m.rules) : Holds(r) /\ AppliesTo(r.paths, changed) =>
         \/ r \in Elements(in.rules) \/ "rules" \in in.notes
         \/ r.file # NoFile /\ (r.file \in in.notes \/ in.files[r.file] = 0)
    /\ Elements(Referenced(m)) \subseteq DOMAIN in.files \cup in.notes \cup {NoFile}
    /\ m.agentFiles => \A f \in Elements(AgentFilesOf(commit.tree, changed)) :
         \/ f \in in.notes \/ "instructions" \in in.notes \/ commit.tree[f] = 0 \/ JustFilled(in)
         \/ <<f, commit.tree[f]>> \in Elements(in.instructions)

\* All of it is given or noted, whatever the settings and the commit.
LEMMA InputsAreSaid ==
    ASSUME NEW m, AsSeqs(m), NEW commit \in Commits, NEW changed
    PROVE  InputsSaid(m, commit, changed, Inputs(m, commit, changed))
<1> DEFINE got == ReadFiles(commit, m, changed)
           active == ActiveRules(m.rules, got.files, changed)
           agents == IF m.agentFiles THEN AgentFilesOf(got.files, changed) ELSE <<>>
           told == Instructions(got.files, agents)
           in == Inputs(m, commit, changed)
           R == Elements(m.rules)
<1>1. Sized(commit) /\ m.rules \in Seq(R)
    BY CommitSized DEF AsSeqs
<1>2. /\ in.files = got.files /\ in.rules = active.out /\ in.instructions = told.out
      /\ got.notes \subseteq in.notes
      /\ active.left > 0 => "rules" \in in.notes
      /\ told.cut => "instructions" \in in.notes
    BY DEF Inputs, InputsGathered, InputsOf, Note
<1>3. /\ WellRead(Named(m), commit, got)
      /\ \A f \in Elements(Referenced(m)) : Met(commit, got, f)
      /\ m.agentFiles => \A f \in Elements(AgentFilesOf(commit.tree, changed)) : Reached(commit, got, f)
    BY <1>1, ReadFilesSaid
<1>4. Texts(R, got.files) /\ got.files \in [DOMAIN got.files -> Nat]
    BY <1>3, TextsTyped
<1> HIDE DEF got, in
<1>5. \A r \in R : r \in Elements(active.out) \/ active.left > 0 \/ Passed(r, got.files, changed)
    BY <1>1, <1>4, ActiveRulesSaid
<1> HIDE DEF active, R
<1>6. Elements(Referenced(m)) \subseteq DOMAIN in.files \cup in.notes \cup {NoFile}
    BY <1>2, <1>3 DEF Met, Reached
<1>7. ASSUME NEW r \in R, Holds(r), AppliesTo(r.paths, changed)
      PROVE  \/ r \in Elements(in.rules) \/ "rules" \in in.notes
             \/ r.file # NoFile /\ (r.file \in in.notes \/ in.files[r.file] = 0)
  <2>1. CASE ~Passed(r, got.files, changed)
      BY <1>2, <1>5, <2>1
  <2>2. CASE Passed(r, got.files, changed)
    <3>1. r.file # NoFile /\ TextOf(r, got.files) = 0
        BY <1>7, <2>2 DEF Passed
    <3>2. r.file \in Elements(Referenced(m))
      <4>1. Elements(Referenced(m)) = {m.rules[i].file : i \in 1 .. Len(m.rules)} \cup {m.template}
          BY <1>1, NamesOf
      <4>2. PICK i \in 1 .. Len(m.rules) : r = m.rules[i]
          BY <1>1 DEF R, Elements
      <4> QED BY <4>1, <4>2
    <3>3. r.file \in DOMAIN got.files => got.files[r.file] = 0
        BY <3>1 DEF TextOf
    <3> QED BY <1>2, <1>6, <3>1, <3>2, <3>3
  <2> QED BY <2>1, <2>2
<1>8. ASSUME m.agentFiles, NEW f \in Elements(AgentFilesOf(commit.tree, changed))
      PROVE  \/ f \in in.notes \/ "instructions" \in in.notes \/ commit.tree[f] = 0 \/ JustFilled(in)
             \/ <<f, commit.tree[f]>> \in Elements(in.instructions)
  <2>1. CASE f \notin DOMAIN got.files
      BY <1>2, <1>3, <1>8, <2>1 DEF Reached
  <2>2. CASE f \in DOMAIN got.files
    <3>1. /\ AgentFilesOf(got.files, changed) \in Seq(DOMAIN got.files)
          /\ f \in Elements(AgentFilesOf(got.files, changed)) /\ got.files[f] = commit.tree[f]
        BY <1>3, <2>2, AgentsKept
    <3>2. agents \in Seq(DOMAIN got.files) /\ f \in Elements(agents)
        BY <1>8, <3>1
    <3> HIDE DEF agents
    <3>3. told.cut \/ Sum(Amounts(told.out)) = Room.instructions
          \/ \A g \in Elements(agents) : got.files[g] = 0 \/ <<g, got.files[g]>> \in Elements(told.out)
        BY <1>4, <3>2, InstructionsSaid
    <3> HIDE DEF told
    <3>4. Sum(Amounts(told.out)) = Room.instructions => JustFilled(in)
        BY <1>2 DEF JustFilled, Amounts
    <3> QED BY <1>2, <3>1, <3>2, <3>3, <3>4
  <2> QED BY <2>1, <2>2
<1> QED BY <1>6, <1>7, <1>8 DEF InputsSaid, in, R

\* The budget and the references are what Build takes.
LEMMA InputsTyped ==
    ASSUME NEW m, AsSeqs(m), NEW commit \in Commits, NEW changed
    PROVE  LET in == Inputs(m, commit, changed)
           IN  /\ UserBudget(in.rules, in.files, in.instructions) \in Int
               /\ \E k \in Nat : DOMAIN in.references = 1 .. k
<1> DEFINE got == ReadFiles(commit, m, changed)
           active == ActiveRules(m.rules, got.files, changed)
           agents == IF m.agentFiles THEN AgentFilesOf(got.files, changed) ELSE <<>>
           told == Instructions(got.files, agents)
           in == Inputs(m, commit, changed)
           R == Elements(m.rules)
<1>1. Sized(commit) /\ m.rules \in Seq(R) /\ m.context \in Seq(Elements(m.context))
    BY CommitSized DEF AsSeqs
<1>2. /\ in.files = got.files /\ in.rules = active.out /\ in.instructions = told.out
      /\ in.references = ActiveContext(m.context, changed)
    BY DEF Inputs, InputsGathered, InputsOf
<1>3. WellRead(Named(m), commit, got)
    BY <1>1, ReadFilesSaid
<1>4. Texts(R, got.files) /\ got.files \in [DOMAIN got.files -> Nat]
    BY <1>3, TextsTyped
<1> HIDE DEF got, in
<1>5. agents \in Seq(DOMAIN got.files)
  <2>1. AgentFilesOf(got.files, changed) \in Seq(DOMAIN got.files)
      BY <1>3, AgentsKept
  <2> DEFINE S == DOMAIN got.files
             a == AgentFilesOf(got.files, changed)
  <2> HIDE DEF S, a
  <2>2. a \in Seq(S) /\ <<>> \in Seq(S)
      BY <2>1 DEF S, a
  <2>3. agents = a \/ agents = <<>>
      BY DEF a
  <2> HIDE DEF agents
  <2> QED BY <2>2, <2>3 DEF S
<1> HIDE DEF agents
<1>6. active \in Active(R)
    BY <1>1, <1>4, ActiveRulesSaid
<1>7. told \in Instructing(DOMAIN got.files)
    BY <1>4, <1>5, InstructionsSaid
<1> HIDE DEF active, told, R
<1>8. active.out \in Seq(R) /\ told.out \in Seq((DOMAIN got.files) \X Nat)
    BY <1>6, <1>7 DEF Active, Instructing
<1>9. UserBudget(active.out, got.files, told.out) \in Int
    BY <1>4, <1>8, UserBudgetTyped
<1>10. \E k \in Nat : DOMAIN ActiveContext(m.context, changed) = 1 .. k
  <2> DEFINE places == {i \in DOMAIN m.context : AppliesTo(m.context[i].paths, changed)}
             T == Elements(m.context)
  <2>1. places \in SUBSET DOMAIN m.context /\ ActiveContext(m.context, changed) = Picked(m.context, places)
      BY DEF ActiveContext
  <2> HIDE DEF places, T
  <2>2. Picked(m.context, places) \in Seq(T)
      BY <1>1, <2>1, PickedFacts DEF T
  <2>3. ASSUME NEW s \in Seq(T) PROVE DOMAIN s = 1 .. Len(s) /\ Len(s) \in Nat
      OBVIOUS
  <2> QED BY <2>1, <2>2, <2>3
<1> QED BY <1>2, <1>9, <1>10 DEF in

\* So is a change.
LEMMA ChangeTyped ==
    ASSUME NEW change \in Changes
    PROVE  /\ ChangeSized(change) /\ change.diff \in Seq(Elements(change.diff))
           /\ change.issues \in Seq(Nat) /\ change.body \in Nat
<1>1. /\ change.diff \in Seq(Elements(change.diff)) /\ change.delta \in Seq(Elements(change.delta))
      /\ \A f \in Elements(change.diff) \cup Elements(change.delta) : f.size \in Nat
      /\ change.prior \in Seq(Nat) /\ change.dismissed \in Seq(Nat) /\ change.context \in Seq(Nat)
      /\ change.issues \in Seq(Nat) /\ change.body \in Nat
    BY BriefingAssumption
<1> DEFINE D == Elements(change.diff) \cup Elements(change.delta)
<1>2. SizedAll(D) /\ change.diff \in Seq(D) /\ change.delta \in Seq(D)
    BY <1>1 DEF SizedAll
<1> HIDE DEF D
<1>3. \A s \in Seq(Nat) : s \in Seq(Int)
    OBVIOUS
<1> QED BY <1>1, <1>2, <1>3 DEF ChangeSized

\* What .kritika.yaml makes of the admin's settings stays in their bounds.
LEMMA MergeBounded ==
    ASSUME NEW op \in AdminSettings, NEW file \in Documents
    PROVE  Bounded(Merge(file, op), op)
<1>1. DOMAIN op = SettingKeys /\ op.enabled \in BOOLEAN /\ op.fix \in BOOLEAN /\ op.feedback \in Levels
    BY SettingsTyped
<1>2. CASE ~Parses(file)
  <2>1. SwitchesBounded(Merge(file, op), op)
      BY <1>1, <1>2 DEF Merge, SwitchesBounded, SettingKeys
  <2> QED BY <2>1, MergedTyped DEF Bounded
<1>3. CASE Parses(file)
  <2> DEFINE m == Merge(file, op)
  <2>1. /\ m.enabled = (op.enabled /\ FALSE \notin file.enabled)
        /\ m.ignore = op.ignore \cup file.ignore
        /\ m.fix = (op.fix \/ TRUE \in file.fix)
        /\ m.feedback = IF file.feedback \subseteq Levels THEN Override(op.feedback, file.feedback) ELSE op.feedback
        /\ m.model = Choose(file.model, op.model, op)
      BY <1>1, <1>3 DEF Merge, SettingKeys
  <2>2. m.feedback \in Levels
      BY <1>1, <2>1 DEF Override
  <2>3. m.model \in {op.model} \cup op.providers
      BY <2>1 DEF Choose, Override
  <2>4. IsPrefix(op.rules, m.rules) /\ IsPrefix(op.context, m.context)
      BY MergedTyped
  <2> QED BY <2>1, <2>2, <2>3, <2>4 DEF SwitchesBounded, Bounded
<1> QED BY <1>2, <1>3

\* A review that has begun holds what came of the admin's settings of then and
\* the merge base of then; one that was told, what these give its change.
MessageHeld(b) ==
    /\ b.inputs = Inputs(b.settings, b.commit, Paths(b.change))
    /\ b.message = Build(b.change, DOMAIN b.inputs.references,
                         UserBudget(b.inputs.rules, b.inputs.files, b.inputs.instructions))
    /\ b.inputs.notes \subseteq b.notes
    /\ b.message.omitted > 0 => "diff" \in b.notes
    /\ b.message.left > 0 => "context" \in b.notes
Held(b) ==
    /\ {"stage", "settings", "admin", "commit", "change", "notes"} \subseteq DOMAIN b /\ b.stage \in Stages
    /\ b.admin \in AdminSettings /\ b.commit \in Commits /\ b.change \in Changes
    /\ b.settings = Merge(b.commit.doc, b.admin) /\ b.settings.dropped \subseteq b.notes
    /\ b.stage = "told" => MessageHeld(b)

BriefingSound ==
    /\ tip \in Commits /\ pull \in [n : Nat, base : Commits, change : Changes]
    /\ admin \in AdminSettings /\ calm \in BriefingBound
    /\ brief = NoBrief \/ Held(brief)
    /\ reply.stage = "told" => Bounded(reply.settings, reply.admin)

\* It holds when nothing has begun,
LEMMA BriefingInitSound == BriefingInit => BriefingSound
BY BriefingAssumption DEF BriefingInit, BriefingSound, Commits, NoBrief

\* What may still happen counts down,
LEMMA SpareTyped == ASSUME calm \in BriefingBound, NEW what, Spare(what) PROVE calm' \in BriefingBound
BY DEF Spare, BriefingBound

\* and each step keeps it.
LEMMA BriefingNextSound == BriefingSound /\ [BriefingNext]_briefingVars => BriefingSound'
<1> SUFFICES ASSUME BriefingSound, [BriefingNext]_briefingVars PROVE BriefingSound'
    OBVIOUS
<1>0. UNCHANGED brief => (brief = NoBrief \/ Held(brief))'
    BY DEF BriefingSound, Held, MessageHeld
<1>1. CASE CommitBase
    BY <1>0, <1>1, SpareTyped DEF CommitBase, BriefingSound, Commits
<1>2. ASSUME NEW p \in [n : Nat, base : Commits, change : Changes], NewPull(p), Spare("pushes") PROVE BriefingSound'
  <2>1. (brief = NoBrief \/ Held(brief))'
      BY <1>0, <1>2 DEF NewPull
  <2> QED BY <1>2, <2>1, SpareTyped DEF NewPull, BriefingSound
<1>3. CASE PushChange \/ RebaseChange
    BY <1>2, <1>3 DEF PushChange, RebaseChange, BriefingSound
<1>4. CASE DeploySettings
    BY <1>0, <1>4, SpareTyped DEF DeploySettings, BriefingSound
<1>5. CASE BeginBrief
  <2>1. Held(brief)'
    <3> DEFINE m   == Merge(pull.base.doc, admin)
               why == CheckMerged(m, {})
    <3>1. admin \in AdminSettings /\ pull.base \in Commits /\ pull.change \in Changes
        BY DEF BriefingSound
    <3> HIDE DEF m, why
    <3>2. /\ brief'.settings = m /\ brief'.admin = admin /\ brief'.stage \in Stages /\ brief'.stage # "told"
          /\ brief'.commit = pull.base /\ brief'.change = pull.change /\ m.dropped \subseteq brief'.notes
          /\ {"stage", "settings", "admin", "commit", "change", "notes"} \subseteq DOMAIN brief'
        BY <1>5 DEF BeginBrief, m, why, Stages
    <3> QED BY <3>1, <3>2 DEF Held, m
  <2> QED BY <1>5, <2>1 DEF BeginBrief, BriefingSound
<1>6. CASE RunBrief
  <2>1. Held(brief) /\ brief.stage = "begun"
      BY <1>6 DEF RunBrief, BriefingSound, NoBrief
  <2>2. ASSUME NEW in, in = Inputs(brief.settings, brief.commit, Paths(brief.change)),
               NEW message, message = Build(brief.change, DOMAIN in.references, UserBudget(in.rules, in.files, in.instructions))
        PROVE  Held(Told(in, message))
    <3> DEFINE b == Told(in, message)
    <3>1. /\ b.stage = "told" /\ b.admin = brief.admin /\ b.settings = brief.settings /\ b.commit = brief.commit
          /\ b.change = brief.change /\ b.message = message /\ b.inputs = in
          /\ b.notes = brief.notes \cup in.notes \cup Note("diff", message.omitted > 0) \cup Note("context", message.left > 0)
          /\ {"stage", "settings", "admin", "commit", "change", "notes"} \subseteq DOMAIN b
        BY DEF Told
    <3> HIDE DEF b
    <3>2. MessageHeld(b)
      <4>1. (message.omitted > 0 => "diff" \in b.notes) /\ (message.left > 0 => "context" \in b.notes) /\ in.notes \subseteq b.notes
          BY <3>1 DEF Note
      <4> QED BY <2>2, <3>1, <4>1 DEF MessageHeld
    <3>3. b.settings.dropped \subseteq b.notes
        BY <2>1, <3>1 DEF Held
    <3> QED BY <2>1, <3>1, <3>2, <3>3 DEF Held, Stages, b
  <2>3. \/ brief' = [brief EXCEPT !.stage = "skipped", !.why = "only_skipped_paths"]
        \/ brief' = Prompted(brief.change, Inputs(brief.settings, brief.commit, Paths(brief.change)))
      BY <1>6 DEF RunBrief
  <2>4. Held([brief EXCEPT !.stage = "skipped", !.why = "only_skipped_paths"])
      BY <2>1 DEF Held, Stages
  <2>5. Held(Prompted(brief.change, Inputs(brief.settings, brief.commit, Paths(brief.change))))
      BY <2>2 DEF Prompted
  <2>6. Held(brief')
      BY <2>3, <2>4, <2>5
  <2>7. Held(brief)'
      BY <2>6 DEF Held, MessageHeld
  <2> QED BY <1>6, <2>7 DEF RunBrief, BriefingSound
<1>7. CASE FollowUpBrief
  <2> DEFINE m == Merge(pull.base.doc, admin)
  <2>1. Bounded(m, admin)
      BY MergeBounded, CommitSized DEF BriefingSound
  <2> HIDE DEF m
  <2>2. reply'.stage = "told" => reply'.settings = m /\ reply'.admin = admin
      BY <1>7 DEF FollowUpBrief, m, NoBrief
  <2>3. UNCHANGED <<tip, pull, admin, brief, calm>>
      BY <1>7 DEF FollowUpBrief
  <2> QED BY <1>0, <2>1, <2>2, <2>3 DEF BriefingSound
<1>8. CASE UNCHANGED briefingVars
    BY <1>0, <1>8 DEF briefingVars, BriefingSound
<1> QED BY <1>1, <1>3, <1>4, <1>5, <1>6, <1>7, <1>8 DEF BriefingNext

\* It keeps the admin's bounds.
LEMMA SoundBounds == BriefingSound => AdminsBoundsStand
<1> SUFFICES ASSUME BriefingSound PROVE AdminsBoundsStand
    OBVIOUS
<1>1. brief.stage = "told" => Held(brief)
    BY DEF BriefingSound, NoBrief
<1>2. brief.stage = "told" => Bounded(brief.settings, brief.admin)
    BY <1>1, MergeBounded, CommitSized DEF Held
<1>3. ASSUME brief.stage = "told"
      PROVE  LET given == brief.inputs.rules
                 alone == Inputs(brief.admin, brief.commit, Paths(brief.change)).rules
             IN  IsPrefix(alone, given) /\ \A i \in Len(alone) + 1 .. Len(given) : given[i] \notin Elements(brief.admin.rules)
  <2> DEFINE op == brief.admin
             commit == brief.commit
             changed == Paths(brief.change)
  <2>1. op \in AdminSettings /\ commit \in Commits /\ brief.inputs = Inputs(Merge(commit.doc, op), commit, changed)
      BY <1>1, <1>3 DEF Held, MessageHeld
  <2> HIDE DEF op, commit, changed
  <2>2. LET given == Inputs(Merge(commit.doc, op), commit, changed).rules
            alone == Inputs(op, commit, changed).rules
        IN  IsPrefix(alone, given) /\ \A i \in Len(alone) + 1 .. Len(given) : given[i] \notin Elements(op.rules)
      BY <2>1, AdminsFirst
  <2> QED BY <2>1, <2>2 DEF op, commit, changed
<1> QED BY <1>2, <1>3 DEF BriefingSound, AdminsBoundsStand

\* It says that what was left out was said.
LEMMA SoundSaid == BriefingSound => NothingLeftOutUnsaid
<1> SUFFICES ASSUME BriefingSound, brief.stage = "told" PROVE NothingLeftOutUnsaid
    BY DEF NothingLeftOutUnsaid
<1> DEFINE in == brief.inputs
           m == brief.settings
           msg == brief.message
           commit == brief.commit
           change == brief.change
           yaml == commit.doc
           op == brief.admin
           notes == brief.notes
           budget == UserBudget(in.rules, in.files, in.instructions)
<1>1. Held(brief)
    BY DEF BriefingSound, NoBrief
<1>2. /\ op \in AdminSettings /\ commit \in Commits /\ change \in Changes
      /\ m = Merge(yaml, op) /\ m.dropped \subseteq notes
    BY <1>1 DEF Held
<1>3. /\ in = Inputs(m, commit, Paths(change)) /\ msg = Build(change, DOMAIN in.references, budget)
      /\ in.notes \subseteq notes
      /\ (msg.omitted > 0 => "diff" \in notes) /\ (msg.left > 0 => "context" \in notes)
    BY <1>1 DEF Held, MessageHeld
<1> HIDE DEF in, m, msg, commit, change, op, notes, budget
<1>4. yaml \in Documents
    BY <1>2, CommitSized
<1>5. AsSeqs(m) /\ Settled(op, yaml, m)
    BY <1>2, <1>4, MergedTyped
<1>6. InputsSaid(m, commit, Paths(change), in)
    BY <1>2, <1>3, <1>5, InputsAreSaid
<1>7. budget \in Int /\ \E k \in Nat : DOMAIN in.references = 1 .. k
    BY <1>2, <1>3, <1>5, InputsTyped DEF budget
<1>8. Described(change, budget) \in Int /\ ChangeSized(change)
    BY <1>2, <1>7, ChangeTyped, DescribedTyped
<1>9. /\ \/ msg.size <= budget
         \/ /\ msg.size = msg.described + Sum(SizesOf(msg.diff)) + msg.omitted
            /\ msg.diff = <<>> \/ msg.omitted > Room.note
      /\ msg.omitted > 0 \/ Elements(msg.diff) = Elements(change.diff)
      /\ msg.context < Len(change.context) => msg.left > 0
    BY <1>3, <1>7, <1>8, BuildFacts
<1>10. yaml.kind = "text" =>
          \/ "file" \in notes
          \/ /\ m.model \in yaml.model \/ yaml.model = {} \/ "model" \in notes
             /\ \A r \in Elements(yaml.rules) : r \in Elements(m.rules) \/ r.id \in notes
             /\ m.fix \in yaml.fix \/ yaml.fix = {} \/ "fix" \in notes
  <2> SUFFICES ASSUME yaml.kind = "text", "file" \notin notes
               PROVE  /\ m.model \in yaml.model \/ yaml.model = {} \/ "model" \in notes
                      /\ \A r \in Elements(yaml.rules) : r \in Elements(m.rules) \/ r.id \in notes
                      /\ m.fix \in yaml.fix \/ yaml.fix = {} \/ "fix" \in notes
      OBVIOUS
  <2>1. DOMAIN op = SettingKeys /\ op.fix \in BOOLEAN /\ yaml.fix \in {{}, {TRUE}, {FALSE}}
      BY <1>2, <1>4, SettingsTyped, DocumentTyped
  <2>2. /\ Parses(yaml)
        /\ m.model \in yaml.model \/ yaml.model = {} \/ "model" \in m.dropped
        /\ m.fix \in yaml.fix \/ yaml.fix = {} \/ yaml.fix \notin {{TRUE}, {FALSE}} \/ "fix" \in m.dropped
      BY <1>2, <2>1, ValuesNoted
  <2>3. \A r \in Elements(yaml.rules) : r \in Elements(m.rules) \/ r.id \in notes
      BY <1>2, <1>5, <2>2 DEF Settled
  <2>4. m.fix \in yaml.fix \/ yaml.fix = {} \/ "fix" \in notes
      BY <1>2, <2>1, <2>2
  <2> QED BY <1>2, <2>2, <2>3, <2>4
<1>11. \A r \in Elements(m.rules) : Holds(r) /\ AppliesTo(r.paths, Paths(change)) =>
          \/ r \in Elements(in.rules) \/ "rules" \in notes
          \/ r.file # NoFile /\ (r.file \in notes \/ in.files[r.file] = 0)
    BY <1>3, <1>6 DEF InputsSaid
<1>12. Elements(Referenced(m)) \subseteq DOMAIN in.files \cup notes \cup {NoFile}
    BY <1>3, <1>6 DEF InputsSaid
<1>13. m.agentFiles => \A f \in Elements(AgentFilesOf(commit.tree, Paths(change))) :
          \/ f \in notes \/ "instructions" \in notes \/ commit.tree[f] = 0 \/ JustFilled(in)
          \/ <<f, commit.tree[f]>> \in Elements(in.instructions)
    BY <1>3, <1>6 DEF InputsSaid
<1>14. Elements(msg.diff) # Elements(change.diff) => "diff" \in notes
    BY <1>3, <1>9
<1>15. msg.context < Len(change.context) => "context" \in notes
    BY <1>3, <1>9
<1> QED BY <1>9, <1>10, <1>11, <1>12, <1>13, <1>14, <1>15 DEF NothingLeftOutUnsaid, in, m, msg, commit, change, op, notes, budget

\* Whatever .kritika.yaml says at whatever merge base, a review and a
\* follow-up begin with settings in the bounds of the admin's at that moment:
\* nothing is enabled, unignored or waived, and no provider is used that the
\* account may not (repoconfig/merge.go).
THEOREM SwitchesStayBounded ==
    BriefingSpec => [](\A b \in {brief, reply} : b.stage = "told" => SwitchesBounded(b.settings, b.admin))
<1>1. AdminsBoundsStand => \A b \in {brief, reply} : b.stage = "told" => SwitchesBounded(b.settings, b.admin)
    BY DEF AdminsBoundsStand, Bounded
<1> QED BY <1>1, BriefingInitSound, BriefingNextSound, SoundBounds, PTL DEF BriefingSpec

\* And the admin's rules come first, in the settings and in what is given:
\* what .kritika.yaml adds, the files it names included, takes no room from
\* them (repoconfig/merge.go, Collect and ActiveRules of repoconfig.go).
THEOREM AdminsRulesComeFirst == BriefingSpec => []AdminsBoundsStand
BY BriefingInitSound, BriefingNextSound, SoundBounds, PTL DEF BriefingSpec

\* What a review is not given, of whatever is too much for whatever budgets,
\* is said in its summary, and its prompt is never over its budget but for
\* what the message opens with (runner/agentic.go, review/prompt.go).
THEOREM WhatIsLeftOutIsSaid == BriefingSpec => []NothingLeftOutUnsaid
BY BriefingInitSound, BriefingNextSound, SoundSaid, PTL DEF BriefingSpec

\* It has the types.
LEMMA BriefingTypes == BriefingSound => BriefingTypeOK
BY DEF BriefingSound, BriefingTypeOK, Commits, Held, NoBrief, Stages

-----------------------------------------------------------------------------
(***************************************************************************)
(* Lists, for any rows, filters and size of a page.                        *)
(*                                                                         *)
(* A page speaks of the moment it was read, and rows move after; so each   *)
(* page of the list's own query is said to show only rows that are there   *)
(* or moved (Honest), and to have all up to its cursor (Reaches), which a  *)
(* change of a row preserves.  What the pages shown leave out is then      *)
(* after the last one's cursor (Covered), which a further page moves on.   *)
(***************************************************************************)
Row == (Nat \cup (Nat \X Nat)) \X Int \X Int
Place == {<<>>} \cup (Int \X Int)
Shown == Rows(list.view, list.filter)

Tables ==
    /\ now \in Nat \ {0} /\ pulls \in [Pulls -> [open : BOOLEAN, at : 1 .. now]]
    /\ \A v \in reports : v.at \in 1 .. now /\ v.found \subseteq Problems

\* No two have one key, nor one place in the order.
KeysApart(rows) == \A i, j \in DOMAIN rows : i # j => rows[i][1] # rows[j][1]
RowsApart(rows) ==
    /\ rows \subseteq Row /\ IsFiniteSet(rows)
    /\ \A r, s \in rows : r = s \/ (r[1] # s[1] /\ (r[2] # s[2] \/ r[3] # s[3]))

LEMMA RepoRowsApart == \A kind : RowsApart(RepoRows(kind))
<1> SUFFICES ASSUME NEW kind PROVE RowsApart(RepoRows(kind))
    OBVIOUS
<1> DEFINE S == {x \in Repos : RepoKind(x) = kind}
<1>1. S \subseteq Nat /\ IsFiniteSet(S)
    BY ListingAssumption, FS_Subset
<1> HIDE DEF S
<1>2. RepoRows(kind) = {<<r, r, 0>> : r \in S}
    BY DEF RepoRows, S
<1>3. IsFiniteSet(RepoRows(kind))
  <2> DEFINE row == [r \in S |-> <<r, r, 0>>]
  <2>1. row \in [S -> RepoRows(kind)] /\ \A t \in RepoRows(kind) : \E x \in S : row[x] = t
      BY <1>2
  <2> HIDE DEF row
  <2> QED BY <1>1, <2>1, ImageFinite
<1> QED BY <1>1, <1>2, <1>3 DEF RowsApart, Row

LEMMA PullRowsApart == ASSUME Tables, NEW state PROVE RowsApart(PullRows(state))
<1> DEFINE S == {x \in Pulls : state = "all" \/ pulls[x].open = (state = "open")}
<1>1. S \subseteq Nat /\ IsFiniteSet(S) /\ S \subseteq Pulls
    BY ListingAssumption, FS_Subset
<1>2. \A p \in S : -pulls[p].at \in Int /\ -p \in Int
    BY <1>1 DEF Tables
<1> HIDE DEF S
<1>3. PullRows(state) = {<<p, -pulls[p].at, -p>> : p \in S}
    BY DEF PullRows, S
<1>4. IsFiniteSet(PullRows(state))
  <2> DEFINE row == [p \in S |-> <<p, -pulls[p].at, -p>>]
  <2>1. row \in [S -> PullRows(state)] /\ \A t \in PullRows(state) : \E x \in S : row[x] = t
      BY <1>3
  <2> HIDE DEF row
  <2> QED BY <1>1, <2>1, ImageFinite
<1>5. \A p, q \in S : -p = -q => p = q
    BY <1>1
<1>6. \A r \in PullRows(state) : r \in Row
    BY <1>1, <1>2, <1>3 DEF Row
<1>7. \A r, s \in PullRows(state) : r = s \/ (r[1] # s[1] /\ (r[2] # s[2] \/ r[3] # s[3]))
    BY <1>3, <1>5
<1> QED BY <1>4, <1>6, <1>7 DEF RowsApart

\* The latest review that reported a finding is one of the reviews.
LEMMA LatestOne ==
    ASSUME Tables, NEW f, \E v \in reports : f \in v.found
    PROVE  Latest(f) \in reports /\ Latest(f).at \in 1 .. now
<1> DEFINE ages == {now - v.at : v \in {w \in reports : f \in w.found}}
<1>1. ages \subseteq Nat /\ ages # {}
    BY DEF Tables
<1>2. PICK x \in ages : \A y \in ages : x <= y
    BY <1>1, LeastOf
<1>3. PICK v \in reports : f \in v.found /\ x = now - v.at
    BY <1>2
<1>4. ASSUME NEW w \in reports, f \in w.found PROVE w.at <= v.at
  <2>1. now - w.at \in ages /\ v.at \in 1 .. now /\ w.at \in 1 .. now /\ now \in Nat
      BY <1>4 DEF Tables
  <2>2. now - v.at <= now - w.at
      BY <1>2, <1>3, <2>1
  <2> HIDE DEF ages
  <2> QED BY <2>1, <2>2
<1>5. Latest(f) \in reports
    BY <1>3, <1>4 DEF Latest
<1> QED BY <1>5 DEF Tables

LEMMA FindingRowsApart == ASSUME Tables, NEW status PROVE RowsApart(FindingRows(status))
<1> DEFINE S == {x \in Problems : (\E v \in reports : x \in v.found) /\ FindingStatus(x) = status}
           at(f) == Latest(f).at
<1>1. S \subseteq Nat /\ IsFiniteSet(S)
    BY ListingAssumption, FS_Subset
<1>2. \A f \in S : at(f) \in Nat /\ -at(f) \in Int /\ -f \in Int
    BY <1>1, LatestOne DEF Tables
<1> HIDE DEF S
<1>3. FindingRows(status) = {<< <<at(f), f>>, -at(f), -f>> : f \in S}
    BY DEF FindingRows, FindingId, S
<1> HIDE DEF at
<1>4. IsFiniteSet(FindingRows(status))
  <2> DEFINE row == [f \in S |-> << <<at(f), f>>, -at(f), -f>>]
  <2>1. row \in [S -> FindingRows(status)] /\ \A t \in FindingRows(status) : \E x \in S : row[x] = t
      BY <1>3
  <2> HIDE DEF row
  <2> QED BY <1>1, <2>1, ImageFinite
<1>5. \A p, q \in S : -p = -q => p = q
    BY <1>1
<1>6. \A r \in FindingRows(status) : r \in Row
    BY <1>1, <1>2, <1>3 DEF Row
<1>7. \A r, s \in FindingRows(status) : r = s \/ (r[1] # s[1] /\ (r[2] # s[2] \/ r[3] # s[3]))
    BY <1>3, <1>5
<1> QED BY <1>3, <1>4, <1>6, <1>7 DEF RowsApart

LEMMA AllRowsApart == ASSUME Tables, NEW view, NEW filter PROVE RowsApart(Rows(view, filter))
<1>1. CASE view = "repos"
    BY <1>1, RepoRowsApart DEF Rows
<1>2. CASE view = "pulls"
    BY <1>2, PullRowsApart DEF Rows
<1>3. CASE view # "repos" /\ view # "pulls"
    BY <1>3, FindingRowsApart DEF Rows
<1> QED BY <1>1, <1>2, <1>3

\* A page has the rows after its cursor, or those up to where the next begins.
PageOf(page, rows, cursor) ==
    /\ page.items \in Seq(Row) /\ KeysApart(page.items) /\ page.next \in Place
    /\ Elements(page.items) \subseteq rows
    /\ \A r \in rows : After(r, cursor) => r \in Elements(page.items) \/ (page.next # <<>> /\ After(r, page.next))

LEMMA PageRead ==
    ASSUME Tables, NEW view, NEW filter, NEW cursor
    PROVE  PageOf(ReadPage(view, filter, cursor), Rows(view, filter), cursor)
<1> DEFINE rows == {r \in Rows(view, filter) : After(r, cursor)}
           before == {p \in rows \X rows : Earlier(p[1], p[2])}
           sorted == InOrder(rows, before)
           n == Cardinality(rows)
           page == ReadPage(view, filter, cursor)
<1>1. RowsApart(rows)
    BY AllRowsApart, FS_Subset DEF RowsApart
<1>2. \A r, s \in rows : <<r, s>> \in before <=> Earlier(r, s)
    OBVIOUS
<1>3. page = IF Len(sorted) <= PageSize THEN [items |-> sorted, next |-> <<>>]
             ELSE [items |-> SubSeq(sorted, 1, PageSize), next |-> <<sorted[PageSize][2], sorted[PageSize][3]>>]
    BY DEF ReadPage
<1>4. rows \subseteq Rows(view, filter) /\ \A r \in Rows(view, filter) : After(r, cursor) => r \in rows
    OBVIOUS
<1> HIDE DEF rows, before, page
<1>5. \A r \in rows : r[2] \in Int /\ r[3] \in Int /\ r \in Row
    BY <1>1 DEF RowsApart, Row
<1>6. StrictOrder(rows, before)
  <2>1. \A r \in rows : ~Earlier(r, r)
      BY <1>5 DEF Earlier
  <2>2. \A r, s \in rows : r = s \/ Earlier(r, s) \/ Earlier(s, r)
      BY <1>1, <1>5 DEF Earlier, RowsApart
  <2>3. \A r, s, t \in rows : Earlier(r, s) /\ Earlier(s, t) => Earlier(r, t)
      BY <1>5 DEF Earlier
  <2> QED BY <1>2, <2>1, <2>2, <2>3 DEF StrictOrder
<1>7. /\ n \in Nat /\ sorted \in [1 .. n -> rows]
      /\ \A r \in rows : \E k \in 1 .. n : sorted[k] = r
      /\ \A j, k \in 1 .. n : j < k <=> <<sorted[j], sorted[k]>> \in before
    BY <1>1, <1>6, Listed DEF RowsApart
<1> HIDE DEF n, sorted
<1>8. /\ DOMAIN sorted = 1 .. n /\ Len(sorted) = n /\ sorted \in Seq(Row)
      /\ \A k \in 1 .. n : sorted[k] \in rows
    BY <1>5, <1>7
<1>9. \A j, k \in 1 .. n : j < k => Earlier(sorted[j], sorted[k])
    BY <1>2, <1>7
<1>10. \A j, k \in 1 .. n : j # k => sorted[j][1] # sorted[k][1]
  <2> SUFFICES ASSUME NEW j \in 1 .. n, NEW k \in 1 .. n, j # k PROVE sorted[j][1] # sorted[k][1]
      OBVIOUS
  <2>1. sorted[j] # sorted[k]
    <3>1. j < k \/ k < j
        BY <1>7
    <3>2. ~Earlier(sorted[j], sorted[j]) /\ ~Earlier(sorted[k], sorted[k])
        BY <1>5, <1>8 DEF Earlier
    <3> QED BY <1>9, <3>1, <3>2
  <2> QED BY <1>1, <1>8, <2>1 DEF RowsApart
<1>11. CASE n <= PageSize
  <2>1. page.items = sorted /\ page.next = <<>>
      BY <1>3, <1>8, <1>11
  <2>2. Elements(sorted) = rows
      BY <1>7, <1>8 DEF Elements
  <2> QED BY <1>4, <1>8, <1>10, <2>1, <2>2 DEF PageOf, KeysApart, Place, page
<1>12. CASE ~(n <= PageSize)
  <2> DEFINE last == sorted[PageSize]
  <2>1. PageSize \in 1 .. n
      BY <1>7, <1>12, ListingAssumption
  <2>2. page.items = SubSeq(sorted, 1, PageSize) /\ page.next = <<last[2], last[3]>>
      BY <1>3, <1>8, <1>12
  <2>3. /\ page.items \in Seq(Row) /\ DOMAIN page.items = 1 .. PageSize
        /\ \A k \in 1 .. PageSize : k \in 1 .. n /\ page.items[k] = sorted[k]
    <3>1. PageSize \in Nat
        BY ListingAssumption
    <3> QED BY <1>8, <2>1, <2>2, <3>1
  <2>4. last \in rows /\ page.next \in Int \X Int
      BY <1>5, <1>8, <2>1, <2>2
  <2>5. ASSUME NEW r \in rows PROVE r \in Elements(page.items) \/ After(r, page.next)
    <3>1. PICK k \in 1 .. n : sorted[k] = r
        BY <1>7
    <3>2. CASE k <= PageSize
        BY <2>3, <3>1, <3>2 DEF Elements
    <3>3. CASE PageSize < k
      <4>1. Earlier(last, r)
          BY <1>9, <2>1, <3>1, <3>3
      <4>2. last[2] \in Int /\ last[3] \in Int /\ r[2] \in Int /\ r[3] \in Int
          BY <1>5, <2>4
      <4>3. After(r, <<last[2], last[3]>>)
          BY <4>1, <4>2 DEF Earlier, After
      <4> QED BY <2>2, <4>3
    <3> QED BY <2>1, <3>1, <3>2, <3>3
  <2>6. Elements(page.items) \subseteq rows /\ KeysApart(page.items)
      BY <1>8, <1>10, <2>3 DEF Elements, KeysApart
  <2>7. page.next # <<>>
      BY <2>2
  <2> HIDE DEF last
  <2> QED BY <1>4, <2>3, <2>4, <2>5, <2>6, <2>7 DEF PageOf, Place, page
<1> QED BY <1>11, <1>12 DEF page

\* What a page of the list's query says still, whatever has moved.
Stands(page, cursor) ==
    /\ page.items \in Seq(Row) /\ KeysApart(page.items) /\ page.next \in Place
    /\ \A r \in Elements(page.items) : r[1] \in seen.moved \/ r \in Shown
    /\ \A r \in Shown : After(r, cursor) =>
          \/ r[1] \in seen.moved \/ r \in Elements(page.items)
          \/ page.next # <<>> /\ After(r, page.next)

\* The list shows what is before c.
Covered(c) ==
    /\ c \in Place
    /\ \A r \in Shown : \/ r[1] \in seen.moved \cup seen.slid
                        \/ r \in Elements(list.first.items) \cup Elements(list.extra)
                        \/ c # <<>> /\ After(r, c)

\* One further page of the query at most is under way, after what is shown.
Follows(q) ==
    /\ list.more /\ \A p \in replies : p.kind = "more" /\ p.gen = list.gen => p = q
    /\ ~seen.astray => list.first.gen = list.gen /\ Covered(q.cursor)

Answered(q) ==
    /\ q.kind \in {"first", "more"} /\ q.read \in BOOLEAN
    /\ DOMAIN q = {"kind", "seq", "gen", "filter", "cursor", "page", "read"}
    /\ q.seq \in 0 .. list.seq /\ q.gen \in 0 .. list.gen /\ q.page.gen \in 0 .. list.gen
    /\ q.gen = list.gen => q.filter = list.filter
    /\ q.kind = "first" => q.cursor = <<>> /\ (q.seq = list.seq => q.gen = list.gen)
    /\ q.read => q.page.gen = q.gen /\ (q.gen = list.gen => Stands(q.page, q.cursor))
    /\ q.kind = "more" /\ q.gen = list.gen => Follows(q)

ListSound ==
    /\ DOMAIN list = {"view", "filter", "gen", "seq", "first", "extra", "after", "more"}
    /\ list.view \in DOMAIN Filters /\ list.filter \in Filters[list.view]
    /\ list.gen \in Nat /\ list.seq \in Nat /\ list.first.gen \in 0 .. list.gen /\ list.more \in BOOLEAN
    /\ DOMAIN seen = {"moved", "slid", "astray"} /\ seen.astray \in BOOLEAN

PagesSound ==
    /\ list.extra \in Seq(Row) /\ KeysApart(list.extra)
    /\ \A r \in Elements(list.extra) : r[1] \in seen.moved \/ r \in Shown
    /\ (list.after = {} /\ list.extra = <<>>) \/ \E c \in Place : list.after = {c}
    /\ list.first.gen = list.gen => Stands(list.first, <<>>)
    /\ ~seen.astray => \/ list.first.gen = list.gen /\ \A c \in list.after : Covered(c)
                       \/ list.first.gen # list.gen /\ list.after = {} /\ ~list.more

ListingIInv == Tables /\ ListSound /\ PagesSound /\ (\A q \in replies : Answered(q)) /\ room \in ListingBound

LEMMA RoomTaken == ASSUME room \in ListingBound, NEW what, Take(what) PROVE room' \in ListingBound
BY DEF Take, ListingBound

LEMMA ListingIInit == ListingInit => ListingIInv
<1> SUFFICES ASSUME ListingInit PROVE ListingIInv
    OBVIOUS
<1>1. PICK view \in DOMAIN Filters, f \in UNION {Filters[w] : w \in DOMAIN Filters} :
          /\ f \in Filters[view]
          /\ list = [view |-> view, filter |-> f, gen |-> 1, seq |-> 0, first |-> NoPage, extra |-> <<>>,
                     after |-> {}, more |-> FALSE]
    BY DEF ListingInit
<1>2. /\ DOMAIN list = {"view", "filter", "gen", "seq", "first", "extra", "after", "more"}
      /\ list.view \in DOMAIN Filters /\ list.filter \in Filters[list.view]
      /\ list.gen = 1 /\ list.seq = 0 /\ list.first.gen = 0 /\ list.more = FALSE
      /\ list.extra = <<>> /\ list.after = {}
    BY <1>1 DEF NoPage
<1>3. pulls \in [Pulls -> [open : BOOLEAN, at : 1 .. now]] /\ now = 1
  <2>1. now = 1 /\ 1 \in 1 .. now /\ pulls = [p \in Pulls |-> [open |-> TRUE, at |-> 1]]
      BY DEF ListingInit
  <2> QED BY <2>1
<1>4. \A v \in reports : v.at \in 1 .. now /\ v.found \subseteq Problems
    BY <1>3 DEF ListingInit
<1>5. DOMAIN seen = {"moved", "slid", "astray"} /\ seen.astray = FALSE
    BY DEF ListingInit
<1>6. <<>> \in Seq(Row) /\ KeysApart(<<>>) /\ Elements(<<>>) = {}
    BY DEF KeysApart, Elements
<1>7. Tables
    BY <1>3, <1>4 DEF Tables
<1>8. ListSound
  <2>1. list.gen \in Nat /\ list.seq \in Nat /\ list.first.gen \in 0 .. list.gen
      BY <1>2
  <2> QED BY <1>2, <1>5, <2>1 DEF ListSound
<1>9. PagesSound
    BY <1>2, <1>6 DEF PagesSound
<1> QED BY <1>7, <1>8, <1>9, ListingAssumption DEF ListingInit, ListingIInv

\* A row that has not moved is where it was.
LEMMA MovesKeep ==
    ASSUME ListingIInv, Tables', room' \in ListingBound, UNCHANGED <<list, replies>>, Moves
    PROVE  ListingIInv'
<1>1. /\ DOMAIN seen' = {"moved", "slid", "astray"} /\ seen'.astray = seen.astray /\ seen'.slid = seen.slid
      /\ seen.moved \subseteq seen'.moved
      /\ \A r \in (Shown \ Shown') \cup (Shown' \ Shown) : r[1] \in seen'.moved
    BY DEF Moves, Shown, ListingIInv, ListSound
<1>2. ASSUME NEW page, NEW cursor, Stands(page, cursor) PROVE Stands(page, cursor)'
  <2> HIDE DEF Shown
  <2> QED BY <1>1, <1>2 DEF Stands
<1>3. ASSUME NEW c, Covered(c) PROVE Covered(c)'
  <2> HIDE DEF Shown
  <2> QED BY <1>1, <1>3 DEF Covered
<1>4. ListSound'
    BY <1>1 DEF ListingIInv, ListSound
<1>5. PagesSound'
  <2>1. \A r \in Elements(list.extra) : r[1] \in seen'.moved \/ r \in Shown'
      BY <1>1 DEF ListingIInv, PagesSound
  <2> QED BY <1>1, <1>2, <1>3, <2>1 DEF ListingIInv, PagesSound
<1>6. ASSUME NEW q \in replies' PROVE Answered(q)'
  <2>1. q \in replies /\ Answered(q)
      BY DEF ListingIInv
  <2>2. Follows(q) => Follows(q)'
      BY <1>1, <1>3 DEF Follows
  <2> QED BY <1>2, <2>1, <2>2 DEF Answered
<1> QED BY <1>4, <1>5, <1>6 DEF ListingIInv

LEMMA ShownStays ==
    ASSUME UNCHANGED <<repos, pulls, reports, waived>>, list'.view = list.view, list'.filter = list.filter
    PROVE  Shown' = Shown
BY DEF Shown, Rows, RepoRows, RepoKind, PullRows, FindingRows, FindingId, FindingStatus, Latest, Addressed

\* Two pages of the list's query that name one row by its key show one row,
\* unless it moved.
LEMMA OneRow ==
    ASSUME Tables, NEW a, NEW b,
           \A r \in Elements(a) : r[1] \in seen.moved \/ r \in Shown, NEW r \in Elements(a), r[1] \notin seen.moved,
           b \in Shown, r[1] = b[1]
    PROVE  r = b
<1>1. RowsApart(Shown)
    BY AllRowsApart DEF Shown
<1> QED BY <1>1 DEF RowsApart

LEMMA LoadFirstKeeps == ASSUME ListingIInv, LoadFirst PROVE ListingIInv'
<1>1. /\ DOMAIN list' = DOMAIN list /\ list'.seq = list.seq + 1
      /\ \A x \in {"view", "filter", "gen", "first", "extra", "after", "more"} : list'[x] = list[x]
    BY DEF LoadFirst, ListingIInv, ListSound
<1>2. PICK new : /\ new = [kind |-> "first", seq |-> list.seq + 1, gen |-> list.gen, filter |-> list.filter,
                           cursor |-> <<>>, page |-> NoPage, read |-> FALSE]
                 /\ replies' = replies \cup {new}
    BY <1>1 DEF LoadFirst, PageRequest
<1>3. Shown' = Shown /\ seen' = seen /\ Tables'
    BY <1>1, ShownStays DEF LoadFirst, ListingIInv, Tables
<1>4. room' \in ListingBound
    BY RoomTaken DEF LoadFirst, ListingIInv
<1> HIDE DEF Shown
<1>5. ListSound'
    BY <1>1, <1>3 DEF ListingIInv, ListSound
<1>6. PagesSound'
    BY <1>1, <1>3 DEF ListingIInv, PagesSound, Stands, Covered
<1>7. Answered(new)'
    BY <1>1, <1>2 DEF ListingIInv, ListSound, Answered, NoPage
<1>8. new.kind = "first"
    BY <1>2
<1>9. ASSUME NEW q \in replies PROVE Answered(q)'
  <2>1. Answered(q) /\ list.seq \in Nat
      BY DEF ListingIInv, ListSound
  <2>2. Follows(q) => Follows(q)'
      BY <1>1, <1>2, <1>3, <1>8 DEF Follows, Covered
  <2>3. q.seq \in 0 .. list'.seq /\ q.seq # list'.seq
      BY <1>1, <2>1 DEF Answered
  <2> QED BY <1>1, <1>3, <2>1, <2>2, <2>3 DEF Answered, Stands
<1> QED BY <1>2, <1>3, <1>4, <1>5, <1>6, <1>7, <1>9 DEF ListingIInv

LEMMA ChangeQueryKeeps == ASSUME ListingIInv, NEW f \in Filters[list.view], ChangeQuery(f) PROVE ListingIInv'
<1>1. /\ DOMAIN list' = DOMAIN list /\ list'.seq = list.seq + 1 /\ list'.gen = list.gen + 1
      /\ list'.filter = f /\ list'.extra = <<>> /\ list'.after = {} /\ list'.more = FALSE
      /\ list'.view = list.view /\ list'.first = list.first
    BY DEF ChangeQuery, ListingIInv, ListSound
<1>2. PICK new : /\ new = [kind |-> "first", seq |-> list.seq + 1, gen |-> list.gen + 1, filter |-> f,
                           cursor |-> <<>>, page |-> NoPage, read |-> FALSE]
                 /\ replies' = replies \cup {new}
    BY <1>1 DEF ChangeQuery, PageRequest
<1>3. Tables' /\ seen' = [moved |-> {}, slid |-> {}, astray |-> FALSE]
    BY DEF ChangeQuery, ListingIInv, Tables
<1>4. room' \in ListingBound
    BY RoomTaken DEF ChangeQuery, ListingIInv
<1>5. list.gen \in Nat /\ list.seq \in Nat /\ list.first.gen \in 0 .. list.gen
    BY DEF ListingIInv, ListSound
<1>6. ListSound'
  <2>1. list'.gen \in Nat /\ list'.seq \in Nat /\ list'.first.gen \in 0 .. list'.gen
      BY <1>1, <1>5
  <2> QED BY <1>1, <1>3, <2>1 DEF ListingIInv, ListSound
<1>7. list'.first.gen # list'.gen
    BY <1>1, <1>5
<1>8. <<>> \in Seq(Row) /\ KeysApart(<<>>) /\ Elements(<<>>) = {}
    BY DEF KeysApart, Elements
<1>9. PagesSound'
    BY <1>1, <1>3, <1>7, <1>8 DEF PagesSound
<1>10. Answered(new)'
    BY <1>1, <1>2, <1>5 DEF Answered, NoPage
<1>11. ASSUME NEW q \in replies PROVE Answered(q)'
  <2>1. Answered(q)
      BY DEF ListingIInv
  <2>2. q.seq \in 0 .. list'.seq /\ q.seq # list'.seq /\ q.gen \in 0 .. list'.gen /\ q.gen # list'.gen
        /\ q.page.gen \in 0 .. list'.gen
      BY <1>1, <1>5, <2>1 DEF Answered
  <2> QED BY <2>1, <2>2 DEF Answered
<1> QED BY <1>2, <1>3, <1>4, <1>6, <1>9, <1>10, <1>11 DEF ListingIInv

LEMMA MoreKeeps == ASSUME ListingIInv, More PROVE ListingIInv'
<1>1. /\ DOMAIN list' = DOMAIN list /\ list'.more = TRUE
      /\ \A x \in {"view", "filter", "gen", "seq", "first", "extra", "after"} : list'[x] = list[x]
    BY DEF More, ListingIInv, ListSound
<1>2. PICK new : /\ new = [kind |-> "more", seq |-> list.seq, gen |-> list.gen, filter |-> list.filter,
                           cursor |-> Cursor, page |-> NoPage, read |-> FALSE]
                 /\ replies' = replies \cup {new}
    BY <1>1 DEF More, PageRequest
<1>3. Shown' = Shown /\ Tables'
    BY <1>1, ShownStays DEF More, ListingIInv, Tables
<1>4. /\ DOMAIN seen' = {"moved", "slid", "astray"} /\ seen'.moved = seen.moved /\ seen'.slid = seen.slid
      /\ seen'.astray = (seen.astray \/ list.first.gen # list.gen)
    BY DEF More, ListingIInv, ListSound
<1>5. room' \in ListingBound
    BY RoomTaken DEF More, ListingIInv
<1> HIDE DEF Shown
<1>6. ListSound'
    BY <1>1, <1>4 DEF ListingIInv, ListSound
<1>7. ASSUME NEW page, NEW c PROVE Stands(page, c)' <=> Stands(page, c)
    BY <1>3, <1>4 DEF Stands
<1>8. ASSUME NEW c PROVE Covered(c)' <=> Covered(c)
    BY <1>1, <1>3, <1>4 DEF Covered
<1>9. PagesSound'
    BY <1>1, <1>3, <1>4, <1>7, <1>8 DEF ListingIInv, PagesSound
<1>10. ~seen'.astray => list.first.gen = list.gen /\ Covered(Cursor)
  <2> SUFFICES ASSUME ~seen'.astray PROVE list.first.gen = list.gen /\ Covered(Cursor)
      OBVIOUS
  <2>1. ~seen.astray /\ list.first.gen = list.gen /\ PagesSound
      BY <1>4 DEF ListingIInv
  <2>2. CASE list.after = {}
    <3>1. Cursor = list.first.next /\ Stands(list.first, <<>>) /\ \A r : After(r, <<>>)
        BY <2>1, <2>2 DEF Cursor, PagesSound, After
    <3> QED BY <2>1, <3>1 DEF Stands, Covered
  <2>3. CASE list.after # {}
    <3>1. Cursor \in list.after
        BY <2>3 DEF Cursor
    <3> QED BY <2>1, <3>1 DEF PagesSound
  <2> QED BY <2>2, <2>3
<1>11. \A p \in replies : ~(p.kind = "more" /\ p.gen = list.gen)
    BY DEF More, ListingIInv, Answered, Follows
<1>12. Follows(new)'
  <2>1. new.cursor = Cursor
      BY <1>2
  <2>2. replies' = replies \cup {new}
      BY <1>2
  <2> QED BY <1>1, <2>2, <1>8, <1>10, <1>11, <2>1 DEF Follows
<1>13. Answered(new)'
    BY <1>1, <1>2, <1>12 DEF ListingIInv, ListSound, Answered, NoPage
<1>14. ASSUME NEW q \in replies PROVE Answered(q)'
  <2>1. Answered(q) /\ ~(q.kind = "more" /\ q.gen = list.gen)
      BY <1>11 DEF ListingIInv
  <2> QED BY <1>1, <1>7, <2>1 DEF Answered
<1> QED BY <1>2, <1>3, <1>5, <1>6, <1>9, <1>13, <1>14 DEF ListingIInv

LEMMA ServeKeeps == ASSUME ListingIInv, NEW q \in replies, Serve(q) PROVE ListingIInv'
<1>0. PICK page, new : \E p : /\ p = ReadPage(list.view, q.filter, q.cursor)
                              /\ page = [items |-> p.items, next |-> p.next, gen |-> q.gen]
                              /\ new = [q EXCEPT !.read = TRUE, !.page = page]
                              /\ replies' = (replies \ {q}) \cup {new}
    BY DEF Serve
<1>1. replies' = (replies \ {q}) \cup {new}
    BY <1>0
<1>2. PICK p : p = ReadPage(list.view, q.filter, q.cursor) /\ page = [items |-> p.items, next |-> p.next, gen |-> q.gen]
    BY <1>0
<1>3. PageOf(p, Rows(list.view, q.filter), q.cursor) /\ page.items = p.items /\ page.next = p.next /\ page.gen = q.gen
    BY <1>2, PageRead DEF ListingIInv
<1>4. Shown' = Shown /\ Tables' /\ list' = list /\ seen' = seen /\ room' = room
    BY ShownStays DEF Serve, ListingIInv, Tables
<1>5. Answered(q)
    BY DEF ListingIInv
<1>6. /\ DOMAIN new = DOMAIN q /\ new.read = TRUE /\ new.page = page
      /\ \A x \in {"kind", "seq", "gen", "filter", "cursor"} : new[x] = q[x]
    BY <1>0, <1>5 DEF Answered
<1>7. q.gen = list.gen => Stands(page, q.cursor)
  <2> SUFFICES ASSUME q.gen = list.gen PROVE Stands(page, q.cursor)
      OBVIOUS
  <2>1. PageOf(p, Shown, q.cursor)
      BY <1>3, <1>5 DEF Answered, Shown
  <2> HIDE DEF Shown
  <2> QED BY <1>3, <2>1 DEF PageOf, Stands
<1> HIDE DEF Shown
<1>8. ListSound' /\ PagesSound'
    BY <1>4 DEF ListingIInv, ListSound, PagesSound, Stands, Covered
<1>9. ASSUME NEW c PROVE Covered(c)' <=> Covered(c)
    BY <1>4 DEF Covered
<1>10. ASSUME NEW x \in replies', x # new PROVE Answered(x)'
  <2>1. x \in replies /\ x # q /\ Answered(x)
      BY <1>1, <1>10 DEF ListingIInv
  <2>2. Follows(x) => Follows(x)'
      BY <1>1, <1>4, <1>6, <1>9, <2>1 DEF Follows
  <2> QED BY <1>4, <2>1, <2>2 DEF Answered, Stands
<1>11. Follows(q) => Follows(new)'
  <2>1. new.cursor = q.cursor
      BY <1>6
  <2> QED BY <1>1, <1>4, <1>9, <2>1 DEF Follows
<1>12. Answered(new)'
  <2>1. Stands(page, q.cursor) => Stands(page, q.cursor)'
      BY <1>4 DEF Stands
  <2>2. /\ new.kind = q.kind /\ new.seq = q.seq /\ new.gen = q.gen /\ new.filter = q.filter /\ new.cursor = q.cursor
        /\ new.read = TRUE /\ new.page = page /\ new.page.gen = q.gen /\ DOMAIN new = DOMAIN q
      BY <1>3, <1>6
  <2> QED BY <1>4, <1>5, <1>7, <1>11, <2>1, <2>2 DEF Answered
<1> QED BY <1>4, <1>8, <1>10, <1>12 DEF ListingIInv

\* What a request that is done leaves to the others.
LEMMA OthersStay ==
    ASSUME ListingIInv, NEW q \in replies, replies' = replies \ {q}, Shown' = Shown, seen'.moved = seen.moved,
           UNCHANGED <<list.gen, list.seq, list.filter>>,
           \A p \in replies' : Follows(p) => Follows(p)' \/ (q.kind = "more" /\ q.gen = list.gen)
    PROVE  \A p \in replies' : Answered(p)'
<1> SUFFICES ASSUME NEW p \in replies' PROVE Answered(p)'
    OBVIOUS
<1>1. p \in replies /\ p # q /\ Answered(p) /\ Answered(q)
    BY DEF ListingIInv
<1> HIDE DEF Shown
<1>2. p.kind = "more" /\ p.gen = list.gen => ~(q.kind = "more" /\ q.gen = list.gen)
    BY <1>1 DEF Answered, Follows
<1>3. p.kind = "more" /\ p.gen = list.gen => Follows(p)'
    BY <1>1, <1>2 DEF Answered
<1>4. ASSUME NEW c PROVE Stands(p.page, c) => Stands(p.page, c)'
    BY DEF Stands
<1> QED BY <1>1, <1>3, <1>4 DEF Answered

LEMMA FirstLandsKeeps == ASSUME ListingIInv, NEW q \in replies, FirstLands(q) PROVE ListingIInv'
<1>1. /\ Tables' /\ replies' = replies \ {q} /\ room' = room /\ Answered(q) /\ q.kind = "first" /\ q.read
      /\ DOMAIN list = {"view", "filter", "gen", "seq", "first", "extra", "after", "more"}
      /\ DOMAIN seen = {"moved", "slid", "astray"}
    BY DEF FirstLands, ListingIInv, ListSound, Tables
<1>2. /\ DOMAIN list' = DOMAIN list
      /\ \A x \in {"view", "filter", "gen", "seq", "extra", "after", "more"} : list'[x] = list[x]
      /\ DOMAIN seen' = DOMAIN seen /\ seen'.moved = seen.moved /\ seen'.astray = seen.astray
      /\ seen.slid \subseteq seen'.slid
    BY <1>1 DEF FirstLands
<1>3. Shown' = Shown
    BY <1>2, ShownStays DEF FirstLands
<1> HIDE DEF Shown
<1>4. ASSUME NEW page, NEW c PROVE Stands(page, c)' <=> Stands(page, c)
    BY <1>2, <1>3 DEF Stands
<1>5. CASE q.seq # list.seq
  <2>1. list' = list /\ seen' = seen
      BY <1>5 DEF FirstLands
  <2>2. ASSUME NEW c PROVE Covered(c)' <=> Covered(c)
      BY <1>3, <2>1 DEF Covered
  <2>3. \A p \in replies' : Follows(p) => Follows(p)'
      BY <1>1, <2>1, <2>2 DEF Follows
  <2>4. \A p \in replies' : Answered(p)'
      BY <1>1, <1>3, <2>1, <2>3, OthersStay
  <2>5. ListSound' /\ PagesSound'
      BY <1>3, <1>4, <2>1, <2>2 DEF ListingIInv, ListSound, PagesSound
  <2> QED BY <1>1, <2>4, <2>5 DEF ListingIInv
<1>6. CASE q.seq = list.seq
  <2>1. list'.first = q.page
      BY <1>1, <1>6 DEF FirstLands
  <2>2. q.gen = list.gen /\ q.cursor = <<>> /\ q.page.gen = list.gen /\ Stands(q.page, <<>>)
      BY <1>1, <1>6 DEF Answered
  <2>3. ListSound'
    <3>1. list.gen \in 0 .. list.gen
        BY DEF ListingIInv, ListSound
    <3> QED BY <1>1, <1>2, <2>1, <2>2, <3>1 DEF ListingIInv, ListSound
  <2>4. ASSUME NEW c, Covered(c), list.first.gen = list.gen, list.after # {} \/ list.more PROVE Covered(c)'
    <3>1. seen'.slid = seen.slid \cup (Keys(list.first.items) \ Keys(q.page.items))
        BY <1>1, <1>6, <2>2, <2>4 DEF FirstLands
    <3>2. ASSUME NEW r \in Shown, r \in Elements(list.first.items), r[1] \notin seen.moved \cup seen'.slid
          PROVE  r \in Elements(q.page.items)
      <4>1. r[1] \in Keys(q.page.items)
          BY <3>1, <3>2 DEF Keys, Elements
      <4>2. PICK s \in Elements(q.page.items) : s[1] = r[1]
          BY <4>1 DEF Keys, Elements
      <4>3. s = r
        <5>1. \A x \in Elements(q.page.items) : x[1] \in seen.moved \/ x \in Shown
            BY <2>2 DEF Stands
        <5> QED BY <3>2, <4>2, <5>1, OneRow DEF ListingIInv
      <4> QED BY <4>2, <4>3
    <3> QED BY <1>2, <1>3, <2>1, <2>4, <3>1, <3>2 DEF Covered
  <2>5. PagesSound'
    <3>1. ~seen.astray => list'.first.gen = list'.gen /\ \A c \in list.after : Covered(c)'
        BY <1>2, <2>1, <2>2, <2>4 DEF ListingIInv, PagesSound
    <3>2. Stands(list.first, <<>>)'
      <4>1. Stands(q.page, <<>>)'
          BY <1>4, <2>2
      <4> QED BY <2>1, <4>1 DEF Stands
    <3> QED BY <1>2, <1>3, <3>1, <3>2 DEF ListingIInv, PagesSound
  <2>6. \A p \in replies' : Follows(p) => Follows(p)'
      BY <1>1, <1>2, <2>1, <2>2, <2>4 DEF Follows
  <2>7. \A p \in replies' : Answered(p)'
      BY <1>1, <1>2, <1>3, <2>6, OthersStay
  <2> QED BY <1>1, <2>3, <2>5, <2>7 DEF ListingIInv
<1> QED BY <1>5, <1>6

\* The rows of a sequence whose keys are not among others.
LEMMA WithoutRows ==
    ASSUME NEW rows \in Seq(Row), NEW keys, KeysApart(rows)
    PROVE  /\ Without(rows, keys) \in Seq(Row) /\ KeysApart(Without(rows, keys))
           /\ Elements(Without(rows, keys)) = {r \in Elements(rows) : r[1] \notin keys}
<1> DEFINE places == {i \in DOMAIN rows : rows[i][1] \notin keys}
<1>1. /\ Picked(rows, places) \in Seq(Row) /\ Elements(Picked(rows, places)) = {rows[p] : p \in places}
    BY PickedMembers
<1>2. DOMAIN rows = 1 .. Len(rows) /\ Len(rows) \in Nat /\ places \in SUBSET (1 .. Len(rows))
    OBVIOUS
<1>3. Without(rows, keys) = Picked(rows, places)
    BY DEF Without
<1>4. {rows[p] : p \in places} = {r \in Elements(rows) : r[1] \notin keys}
    BY DEF Elements
<1> HIDE DEF places
<1>5. ASSUME NEW j \in DOMAIN Picked(rows, places), NEW k \in DOMAIN Picked(rows, places), j # k
      PROVE  Picked(rows, places)[j][1] # Picked(rows, places)[k][1]
  <2> DEFINE a == Ascending(places)
             n == Cardinality(places)
  <2>1. n \in Nat /\ a \in [1 .. n -> places] /\ \A x, y \in 1 .. n : x < y <=> a[x] < a[y]
      BY <1>2, Ascends
  <2>2. DOMAIN Picked(rows, places) = 1 .. n /\ Picked(rows, places)[j] = rows[a[j]] /\ Picked(rows, places)[k] = rows[a[k]]
      BY <1>5 DEF Picked
  <2> HIDE DEF a, n
  <2>3. a[j] # a[k] /\ a[j] \in DOMAIN rows /\ a[k] \in DOMAIN rows
    <3>1. j \in 1 .. n /\ k \in 1 .. n
        BY <2>2
    <3>2. a[j] \in 1 .. Len(rows) /\ a[k] \in 1 .. Len(rows)
        BY <1>2, <2>1, <3>1
    <3>3. j < k \/ k < j
        BY <1>5, <2>1, <3>1
    <3>4. a[j] < a[k] \/ a[k] < a[j]
        BY <2>1, <3>1, <3>3
    <3> QED BY <1>2, <3>2, <3>4
  <2> QED BY <2>2, <2>3 DEF KeysApart
<1> QED BY <1>1, <1>3, <1>4, <1>5 DEF KeysApart

LEMMA JoinedApart ==
    ASSUME NEW a \in Seq(Row), NEW b \in Seq(Row), KeysApart(a), KeysApart(b),
           \A r \in Elements(a), s \in Elements(b) : r[1] # s[1]
    PROVE  KeysApart(a \o b)
<1> DEFINE n == Len(a)
           m == Len(b)
           ab == a \o b
<1>1. n \in Nat /\ m \in Nat /\ DOMAIN a = 1 .. n /\ DOMAIN b = 1 .. m /\ DOMAIN ab = 1 .. n + m
    OBVIOUS
<1>2. \A i \in 1 .. n : ab[i] = a[i]
    OBVIOUS
<1>3. \A i \in 1 .. n + m : ~(i <= n) => ab[i] = b[i - n] /\ i - n \in 1 .. m
    OBVIOUS
<1> HIDE DEF n, m, ab
<1> SUFFICES ASSUME NEW i \in 1 .. n + m, NEW j \in 1 .. n + m, i # j PROVE ab[i][1] # ab[j][1]
    BY <1>1 DEF KeysApart, ab
<1>4. CASE i <= n /\ j <= n
  <2>1. i \in 1 .. n /\ j \in 1 .. n
      BY <1>1, <1>4
  <2> QED BY <1>1, <1>2, <2>1 DEF KeysApart
<1>5. CASE ~(i <= n) /\ ~(j <= n)
  <2>1. i - n \in 1 .. m /\ j - n \in 1 .. m /\ i - n # j - n /\ ab[i] = b[i - n] /\ ab[j] = b[j - n]
      BY <1>1, <1>3, <1>5
  <2> QED BY <1>1, <2>1 DEF KeysApart
<1>6. CASE i <= n /\ ~(j <= n)
  <2>1. i \in 1 .. n /\ j - n \in 1 .. m
      BY <1>1, <1>3, <1>6
  <2>2. ab[i] \in Elements(a) /\ ab[j] \in Elements(b)
      BY <1>1, <1>2, <1>3, <1>6, <2>1 DEF Elements
  <2> QED BY <2>2
<1>7. CASE ~(i <= n) /\ j <= n
  <2>1. j \in 1 .. n /\ i - n \in 1 .. m
      BY <1>1, <1>3, <1>7
  <2>2. ab[j] \in Elements(a) /\ ab[i] \in Elements(b)
      BY <1>1, <1>2, <1>3, <1>7, <2>1 DEF Elements
  <2> QED BY <2>2
<1> QED BY <1>4, <1>5, <1>6, <1>7

LEMMA MoreLandsKeeps == ASSUME ListingIInv, NEW q \in replies, MoreLands(q) PROVE ListingIInv'
<1>1. /\ Tables' /\ replies' = replies \ {q} /\ room' = room /\ seen' = seen /\ Answered(q) /\ q.kind = "more" /\ q.read
      /\ DOMAIN list = {"view", "filter", "gen", "seq", "first", "extra", "after", "more"}
    BY DEF MoreLands, ListingIInv, ListSound, Tables
<1>2. CASE q.gen # list.gen
  <2>1. list' = list
      BY <1>2 DEF MoreLands
  <2>2. Shown' = Shown
      BY <2>1, ShownStays DEF MoreLands
  <2> HIDE DEF Shown
  <2>3. ASSUME NEW c PROVE Covered(c)' <=> Covered(c)
      BY <1>1, <2>1, <2>2 DEF Covered
  <2>4. \A p \in replies' : Follows(p) => Follows(p)'
      BY <1>1, <2>1, <2>3 DEF Follows
  <2>5. \A p \in replies' : Answered(p)'
      BY <1>1, <2>1, <2>2, <2>4, OthersStay
  <2>6. ListSound' /\ PagesSound'
      BY <1>1, <2>1, <2>2, <2>3 DEF ListingIInv, ListSound, PagesSound, Stands
  <2> QED BY <1>1, <2>5, <2>6 DEF ListingIInv
<1>3. CASE q.gen = list.gen
  <2> DEFINE rest == Without(q.page.items, Keys(list.extra))
  <2>1. /\ DOMAIN list' = DOMAIN list /\ list'.more = FALSE /\ list'.after = {q.page.next} /\ list'.extra = list.extra \o rest
        /\ \A x \in {"view", "filter", "gen", "seq", "first"} : list'[x] = list[x]
      BY <1>1, <1>3 DEF MoreLands, Appended
  <2>2. Shown' = Shown
      BY <2>1, ShownStays DEF MoreLands
  <2> HIDE DEF Shown
  <2>3. Follows(q) /\ Stands(q.page, q.cursor)
      BY <1>1, <1>3 DEF Answered
  <2>4. /\ rest \in Seq(Row) /\ KeysApart(rest)
        /\ Elements(rest) = {r \in Elements(q.page.items) : r[1] \notin Keys(list.extra)}
      BY <2>3, WithoutRows DEF Stands
  <2> HIDE DEF rest
  <2>5. list.extra \in Seq(Row) /\ KeysApart(list.extra) /\ \A r \in Elements(list.extra) : r[1] \in seen.moved \/ r \in Shown
      BY DEF ListingIInv, PagesSound
  <2>6. list'.extra \in Seq(Row) /\ Elements(list'.extra) = Elements(list.extra) \cup Elements(rest)
      BY <2>1, <2>4, <2>5, JoinedMembers
  <2>7. KeysApart(list'.extra)
    <3>1. \A r \in Elements(list.extra), s \in Elements(rest) : r[1] # s[1]
        BY <2>4 DEF Keys, Elements
    <3> QED BY <2>1, <2>4, <2>5, <3>1, JoinedApart
  <2>8. \A r \in Elements(list'.extra) : r[1] \in seen.moved \/ r \in Shown
      BY <2>3, <2>4, <2>5, <2>6 DEF Stands
  <2>9. ASSUME Covered(q.cursor) PROVE Covered(q.page.next)'
    <3>1. ASSUME NEW r \in Shown, r \in Elements(q.page.items), r[1] \notin seen.moved PROVE r \in Elements(list'.extra)
      <4>1. CASE r[1] \in Keys(list.extra)
        <5>1. PICK s \in Elements(list.extra) : s[1] = r[1]
            BY <4>1 DEF Keys, Elements
        <5>2. s = r
            BY <2>5, <3>1, <5>1, OneRow DEF ListingIInv
        <5> QED BY <2>6, <5>1, <5>2
      <4>2. CASE r[1] \notin Keys(list.extra)
          BY <2>4, <2>6, <3>1, <4>2
      <4> QED BY <4>1, <4>2
    <3>2. ASSUME NEW r \in Shown
          PROVE  \/ r[1] \in seen.moved \cup seen.slid
                 \/ r \in Elements(list.first.items) \cup Elements(list'.extra)
                 \/ q.page.next # <<>> /\ After(r, q.page.next)
      <4>1. CASE q.cursor # <<>> /\ After(r, q.cursor)
          BY <2>3, <3>1, <4>1 DEF Stands
      <4>2. CASE ~(q.cursor # <<>> /\ After(r, q.cursor))
          BY <2>6, <2>9, <4>2 DEF Covered
      <4> QED BY <4>1, <4>2
    <3>3. q.page.next \in Place
        BY <2>3 DEF Stands
    <3> QED BY <1>1, <2>1, <2>2, <3>2, <3>3 DEF Covered
  <2>10. PagesSound'
    <3>1. ~seen.astray => list.first.gen = list.gen /\ Covered(q.page.next)'
        BY <2>3, <2>9 DEF Follows
    <3>2. q.page.next \in Place
        BY <2>3 DEF Stands
    <3>3. list.first.gen = list.gen => Stands(list.first, <<>>)'
        BY <1>1, <2>1, <2>2 DEF ListingIInv, PagesSound, Stands
    <3> QED BY <1>1, <2>1, <2>2, <2>6, <2>7, <2>8, <3>1, <3>2, <3>3 DEF PagesSound
  <2>11. ListSound'
      BY <1>1, <2>1 DEF ListingIInv, ListSound
  <2>12. \A p \in replies' : Answered(p)'
      BY <1>1, <1>3, <2>1, <2>2, OthersStay
  <2> QED BY <1>1, <2>10, <2>11, <2>12 DEF ListingIInv
<1> QED BY <1>2, <1>3

LEMMA RequestFailsKeeps == ASSUME ListingIInv, NEW q \in replies, RequestFails(q) PROVE ListingIInv'
<1>1. /\ Tables' /\ replies' = replies \ {q} /\ seen' = seen /\ Answered(q)
      /\ DOMAIN list = {"view", "filter", "gen", "seq", "first", "extra", "after", "more"}
    BY DEF RequestFails, ListingIInv, ListSound, Tables
<1>2. room' \in ListingBound
    BY RoomTaken DEF RequestFails, ListingIInv
<1>3. /\ DOMAIN list' = DOMAIN list /\ list'.more \in {FALSE, list.more}
      /\ \A x \in {"view", "filter", "gen", "seq", "first", "extra", "after"} : list'[x] = list[x]
      /\ list'.more = list.more \/ (q.kind = "more" /\ q.gen = list.gen)
    BY <1>1 DEF RequestFails
<1>4. Shown' = Shown
    BY <1>3, ShownStays DEF RequestFails
<1> HIDE DEF Shown
<1>5. ASSUME NEW c PROVE Covered(c)' <=> Covered(c)
    BY <1>1, <1>3, <1>4 DEF Covered
<1>6. \A p \in replies' : Follows(p) => Follows(p)' \/ (q.kind = "more" /\ q.gen = list.gen)
    BY <1>1, <1>3, <1>5 DEF Follows
<1>7. \A p \in replies' : Answered(p)'
    BY <1>1, <1>3, <1>4, <1>6, OthersStay
<1>8. ListSound'
    BY <1>1, <1>3 DEF ListingIInv, ListSound
<1>9. PagesSound'
    BY <1>1, <1>3, <1>4, <1>5 DEF ListingIInv, PagesSound, Stands
<1> QED BY <1>1, <1>2, <1>7, <1>8, <1>9 DEF ListingIInv

LEMMA ListingINext == ListingIInv /\ [ListingNext]_listingVars => ListingIInv'
<1> SUFFICES ASSUME ListingIInv, [ListingNext]_listingVars PROVE ListingIInv'
    OBVIOUS
<1>1. ASSUME NEW r \in Repos, RepoChanges(r) PROVE ListingIInv'
  <2>1. Tables'
      BY <1>1 DEF RepoChanges, ListingIInv, Tables
  <2> QED BY <1>1, <2>1, RoomTaken, MovesKeep DEF RepoChanges, ListingIInv
<1>2. ASSUME NEW p \in Pulls, PullChanges(p) PROVE ListingIInv'
  <2>1. now' \in Nat \ {0} /\ now <= now'
      BY <1>2 DEF PullChanges, ListingIInv, Tables
  <2>2. pulls' \in [Pulls -> [open : BOOLEAN, at : 1 .. now']]
    <3>1. pulls \in [Pulls -> [open : BOOLEAN, at : 1 .. now']] /\ now' \in 1 .. now'
        BY <2>1 DEF ListingIInv, Tables
    <3> QED BY <1>2, <3>1 DEF PullChanges
  <2>3. \A v \in reports : v.at \in 1 .. now' /\ v.found \subseteq Problems
      BY <2>1 DEF ListingIInv, Tables
  <2>4. Tables'
      BY <1>2, <2>1, <2>2, <2>3 DEF PullChanges, Tables
  <2> QED BY <1>2, <2>4, RoomTaken, MovesKeep DEF PullChanges, ListingIInv
<1>3. CASE ReviewCompletes
  <2>1. now' \in Nat \ {0} /\ now <= now' /\ pulls' \in [Pulls -> [open : BOOLEAN, at : 1 .. now']]
      BY <1>3 DEF ReviewCompletes, ListingIInv, Tables
  <2>2. Tables'
      BY <1>3, <2>1 DEF ReviewCompletes, ListingIInv, Tables
  <2> QED BY <1>3, <2>2, RoomTaken, MovesKeep DEF ReviewCompletes, ListingIInv
<1>4. ASSUME NEW f \in Problems, Waive(f) PROVE ListingIInv'
  <2>1. Tables'
      BY <1>4 DEF Waive, ListingIInv, Tables
  <2> QED BY <1>4, <2>1, RoomTaken, MovesKeep DEF Waive, ListingIInv
<1>5. CASE LoadFirst
    BY <1>5, LoadFirstKeeps
<1>6. CASE More
    BY <1>6, MoreKeeps
<1>7. ASSUME NEW f \in Filters[list.view], ChangeQuery(f) PROVE ListingIInv'
    BY <1>7, ChangeQueryKeeps
<1>8. ASSUME NEW q \in replies, Serve(q) PROVE ListingIInv'
    BY <1>8, ServeKeeps
<1>9. ASSUME NEW q \in replies, FirstLands(q) PROVE ListingIInv'
    BY <1>9, FirstLandsKeeps
<1>10. ASSUME NEW q \in replies, MoreLands(q) PROVE ListingIInv'
    BY <1>10, MoreLandsKeeps
<1>11. ASSUME NEW q \in replies, RequestFails(q) PROVE ListingIInv'
    BY <1>11, RequestFailsKeeps
<1>12. CASE UNCHANGED listingVars
  <2>1. Shown' = Shown
      BY <1>12, ShownStays DEF listingVars
  <2> HIDE DEF Shown
  <2> QED BY <1>12, <2>1 DEF listingVars, ListingIInv, Tables, ListSound, PagesSound, Stands, Covered, Answered, Follows
<1> QED BY <1>1, <1>2, <1>3, <1>4, <1>5, <1>6, <1>7, <1>8, <1>9, <1>10, <1>11, <1>12 DEF ListingNext
\* As many keys as rows.
LEMMA KeysCounted == ASSUME NEW rows \in Seq(Row), KeysApart(rows) PROVE Cardinality(Keys(rows)) = Len(rows)
<1> DEFINE n == Len(rows)
           key == [i \in 1 .. n |-> rows[i][1]]
<1>1. n \in Nat /\ DOMAIN rows = 1 .. n
    OBVIOUS
<1>2. Keys(rows) = {rows[i][1] : i \in 1 .. n}
    BY <1>1 DEF Keys
<1>3. key \in [1 .. n -> Keys(rows)] /\ (\A i, j \in 1 .. n : i # j => key[i] # key[j])
      /\ \A k \in Keys(rows) : \E i \in 1 .. n : key[i] = k
    BY <1>1, <1>2 DEF KeysApart
<1> HIDE DEF key, n
<1>4. key \in Surjection(1 .. n, Keys(rows))
    BY <1>3 DEF Surjection
<1>5. key \in Injection(1 .. n, Keys(rows))
    BY <1>3 DEF Injection, IsInjective
<1>6. ExistsBijection(1 .. n, Keys(rows))
    BY <1>4, <1>5 DEF ExistsBijection, Bijection
<1>7. IsFiniteSet(1 .. n) /\ Cardinality(1 .. n) = n
    BY <1>1, FS_Interval
<1> QED BY <1>6, <1>7, FS_Bijection DEF n

LEMMA ListingIPages == ListingIInv => PagesLeaveNothingOut
<1> SUFFICES ASSUME ListingIInv, list.first.gen = list.gen, ~seen.astray
             PROVE  /\ \A r \in Shown : \/ r[1] \in seen.moved \cup seen.slid \/ r \in Elements(Items)
                                        \/ (Cursor # <<>> /\ After(r, Cursor))
                    /\ \A r \in Elements(Items) : r[1] \in seen.moved \/ r \in Shown
                    /\ Cardinality(Keys(Items)) = Len(Items)
    BY DEF PagesLeaveNothingOut, Shown
<1> DEFINE first == list.first.items
           rest == Without(list.extra, Keys(list.first.items))
<1> HIDE DEF Shown
<1>1. /\ Stands(list.first, <<>>) /\ list.extra \in Seq(Row) /\ KeysApart(list.extra)
      /\ \A r \in Elements(list.extra) : r[1] \in seen.moved \/ r \in Shown
      /\ \A c \in list.after : Covered(c)
    BY DEF ListingIInv, PagesSound
<1>2. first \in Seq(Row) /\ KeysApart(first) /\ \A r \in Elements(first) : r[1] \in seen.moved \/ r \in Shown
    BY <1>1 DEF Stands
<1>3. /\ rest \in Seq(Row) /\ KeysApart(rest)
      /\ Elements(rest) = {r \in Elements(list.extra) : r[1] \notin Keys(list.first.items)}
    BY <1>1, WithoutRows
<1>4. Items = first \o rest
    BY DEF Items
<1> HIDE DEF first, rest
<1>5. Items \in Seq(Row) /\ Elements(Items) = Elements(first) \cup Elements(rest)
    BY <1>2, <1>3, <1>4, JoinedMembers
<1>6. KeysApart(Items)
  <2>1. \A r \in Elements(first), s \in Elements(rest) : r[1] # s[1]
      BY <1>3 DEF Keys, Elements, first
  <2> QED BY <1>2, <1>3, <1>4, <2>1, JoinedApart
<1>7. Cardinality(Keys(Items)) = Len(Items)
    BY <1>5, <1>6, KeysCounted
<1>8. \A r \in Elements(Items) : r[1] \in seen.moved \/ r \in Shown
    BY <1>1, <1>2, <1>3, <1>5
<1>9. ASSUME NEW r \in Shown
      PROVE  \/ r[1] \in seen.moved \cup seen.slid \/ r \in Elements(Items)
             \/ (Cursor # <<>> /\ After(r, Cursor))
  <2>1. CASE list.after = {}
    <3>1. Cursor = list.first.next /\ After(r, <<>>)
        BY <2>1 DEF Cursor, After
    <3> QED BY <1>1, <1>5, <3>1 DEF Stands, first
  <2>2. CASE list.after # {}
    <3>1. Covered(Cursor)
        BY <1>1, <2>2 DEF Cursor
    <3>2. ASSUME r \in Elements(list.extra), r[1] \notin seen.moved PROVE r \in Elements(Items)
      <4>1. CASE r[1] \in Keys(list.first.items)
        <5>1. PICK s \in Elements(first) : s[1] = r[1]
            BY <4>1 DEF Keys, Elements, first
        <5>2. s = r
            BY <1>2, <3>2, <5>1, OneRow DEF ListingIInv
        <5> QED BY <1>5, <5>1, <5>2
      <4>2. CASE r[1] \notin Keys(list.first.items)
          BY <1>3, <1>5, <3>2, <4>2
      <4> QED BY <4>1, <4>2
    <3> QED BY <1>5, <3>1, <3>2 DEF Covered, first
  <2> QED BY <2>1, <2>2
<1> QED BY <1>7, <1>8, <1>9

\* However rows move between the pages, and in whatever order the answers
\* come, the dashboard's list leaves no row out that stayed where it was,
\* shows none of another query, and none twice (resource.svelte.ts and the
\* queries of store/web_reads*.go).
THEOREM ListsLeaveNothingOut == ListingSpec => []PagesLeaveNothingOut
BY ListingIInit, ListingINext, ListingIPages, PTL DEF ListingSpec

LEMMA ListingTypes == ListingIInv => ListingTypeOK
BY DEF ListingIInv, Tables, ListSound, Answered, ListingTypeOK

-----------------------------------------------------------------------------
(***************************************************************************)
(* The modules together, as MCOperate adds them up: each keeps its         *)
(* invariant when the step is its own, and its variables when it is not.   *)
(***************************************************************************)
OperateSound == SignInSound /\ Counted /\ ListingIInv /\ ConfigSound /\ RolloutIInv /\ BriefingSound

LEMMA OperateInit == Init => OperateSound
BY SignInInitSound, CountedInit, ListingIInit, ConfigInitSound, InitSound, BriefingInitSound
DEF Init, OperateSound

LEMMA OperateNext ==
    OperateSound /\ [Next]_<<signInVars, listingVars, configVars, rolloutVars, briefingVars, part>> => OperateSound'
<1>1. [Next]_<<signInVars, listingVars, configVars, rolloutVars, briefingVars, part>> =>
        /\ [SignInNext]_signInVars /\ [ListingNext]_listingVars /\ [ConfigNext]_configVars
        /\ [RolloutNext]_rolloutVars /\ [BriefingNext]_briefingVars
    BY DEF Next
<1> QED BY <1>1, SignInNextSound, CountedNext, ListingINext, ConfigNextSound, RolloutNextInv, BriefingNextSound
        DEF OperateSound

\* Every variable of MCOperate keeps its type, whichever module a behaviour is
\* of: what a cookie, a page, a file or a pod speaks of is there.
THEOREM OperateIsTyped == Spec => []TypeOK
<1>1. OperateSound => TypeOK
  <2>1. RolloutIInv => RolloutTypeOK
      BY DEF RolloutIInv, RolloutTyped
  <2> QED BY <2>1, SignInTypes, ListingTypes, ConfigTypes, BriefingTypes DEF OperateSound, TypeOK
<1> QED BY <1>1, OperateInit, OperateNext, PTL DEF Spec

\* What runs is what the scopes of the file, the environment, the apps and the
\* providers are said to come to, and what .kritika.yaml makes of it for a
\* repository stays in its bounds (configfile/resolve.go, repoconfig/merge.go).
THEOREM OperateKeepsSettings == Spec => []SettingsHold
<1>1. OperateSound => SettingsHold
    BY SoundResolves, SoundRules, SoundEntries, SoundBounds DEF OperateSound, SettingsHold
<1> QED BY <1>1, OperateInit, OperateNext, PTL DEF Spec
=============================================================================
