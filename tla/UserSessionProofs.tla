------------------------- MODULE UserSessionProofs -------------------------
(***************************************************************************)
(* Proofs about UserSession, for any groups, roles, requests, modes and    *)
(* number of changes.                                                      *)
(***************************************************************************)
EXTENDS UserSession, TLAPS

-----------------------------------------------------------------------------
(* Types.                                                                  *)

\* A slot without a request is a plausible one.
LEMMA IdleType == Idle \in Served /\ Plausible(Idle)
  BY DEF Idle, Served, Session, Clients, Plausible

\* At the start nothing is kept of anyone.
LEMMA InitSessions == Init => SessionsInv
<1> SUFFICES ASSUME Init PROVE SessionsInv
  OBVIOUS
<1>1. mode \in Modes /\ member \in SUBSET Groups /\ changes \in 0..MaxChanges
  BY UserSessionConstants DEF Init
<1>2. granted \in Grants /\ copy \in Grants /\ aged \in BOOLEAN
  BY DEF Init, Grants
<1>3. /\ login \in Sessions /\ challenge \in Sessions
      /\ cookie \in [Clients -> Sessions] /\ cache \in [BOOLEAN -> Sessions]
  BY DEF Init, Sessions
<1>4. request \in [Requests -> Served] /\ \A q \in Requests : Plausible(request[q])
  BY IdleType DEF Init
<1> QED
  BY <1>1, <1>2, <1>3, <1>4 DEF SessionsInv, TypeOK

\* The step of one request to a plausible record.
LEMMA RequestStep ==
  ASSUME SessionsInv, NEW q \in Requests, NEW r \in Served, Plausible(r),
         Step(q, r), mode' = mode
  PROVE  /\ request' \in [Requests -> Served]
         /\ \A x \in Requests : Plausible(request[x])'
         /\ request'[q] = r /\ \A x \in Requests : x # q => request'[x] = request[x]
  BY DEF SessionsInv, TypeOK, Step, Plausible

\* What a request finds in Redis is of the right type, and it was not fetched
\* anywhere else.
LEMMA LoadCacheType ==
  ASSUME SessionsInv, NEW r \in Served, r.pc \in {"idle", "cache"}, ~r.cached,
         r.client = "web" => r.console,
         r.client = "cli" /\ r.console => mode.cliLists,
         mode.login \/ r.client = "cli" => r.hadCookie
  PROVE  LET n == LoadCache(r) IN
         /\ n \in Served /\ Plausible(n) /\ n.pc = "roles" /\ n.client = r.client
         /\ \/ n.who = r.who /\ ~n.cached
            \/ n.cached /\ cache[n.console] # None /\ n.who = cache[n.console]
<1>1. cache[r.console] \in Sessions
  BY DEF SessionsInv, TypeOK, Served
<1>2. CASE ~r.refresh /\ cache[r.console] # None
  <2>1. cache[r.console] \in Session
    BY <1>1, <1>2 DEF Sessions
  <2>2. LoadCache(r) = [r EXCEPT !.pc = "roles", !.who = cache[r.console], !.cached = TRUE]
    BY <1>2 DEF LoadCache
  <2> QED
    BY <1>2, <2>1, <2>2 DEF Served, Plausible
<1>3. CASE ~(~r.refresh /\ cache[r.console] # None)
  <2>1. LoadCache(r) = [r EXCEPT !.pc = "roles", !.refresh = FALSE]
    BY <1>3 DEF LoadCache
  <2> QED
    BY <2>1 DEF Served, Plausible
<1> QED
  BY <1>2, <1>3

-----------------------------------------------------------------------------
(* Which store feeds which.                                                *)

\* The groups that requests of a client hold, and those that requests have which
\* will put them in the cache.
Whos(client) == {request[q].who : q \in Of(client)}
FreshWhos(console) ==
    {request[q].who : q \in {x \in Requests : Unauthorized(request[x])
                                              /\ request[x].console = console}}

\* Where the groups of a request come from that was r and now is n.
Comes(r, n) ==
    \/ n = Idle
    \/ /\ r # Idle /\ n.client = r.client /\ n.who = r.who
       /\ Unauthorized(n) => Unauthorized(r)
    \/ n.client = "web" /\ n.who = member
    \/ cookie[n.client] # None /\ n.who = cookie[n.client]
    \/ n.cached /\ cache[n.console] # None /\ n.who = cache[n.console]

\* In every step each store keeps or loses what it holds, or takes it over from
\* the stores that feed it.
Flows ==
    /\ login' \in {login, None, member}
    /\ \/ cookie'["web"] \in {cookie["web"], None, login}
       \/ ~OneWay /\ cookie'["web"] \in Whos("web")
    /\ cookie'["cli"] \in {cookie["cli"], None, challenge}
    /\ \A b \in BOOLEAN : cache'[b] \in {cache[b], None} \cup FreshWhos(b)
    /\ challenge' \in {challenge, None} \cup Whos("web")
    /\ \A q \in Requests : Comes(request[q], request'[q])

\* In every step the roles of a request stay or are worked out from its groups
\* and the mapping.
RolesFlow ==
    /\ (copy' = copy /\ aged' \in {aged, TRUE}) \/ copy' = CurrentCopy
    /\ \A q \in Requests : LET r == request[q]
                               n == request'[q]
                           IN  n.pc \in {"serve", "factor"} =>
          \/ r.pc \in {"serve", "factor"} /\ n.console = r.console /\ n.eligible = r.eligible
          \/ /\ r # Idle /\ n.console = r.console
             /\ n.eligible = Eligible(r.who, CurrentCopy, r.console)

\* A step keeps the invariant and moves groups and roles only these ways.
GoodStep == SessionsInv' /\ mode' = mode /\ Flows /\ RolesFlow

\* A request that is left alone.
LEMMA ComesFromItself ==
  ASSUME NEW r
  PROVE  Comes(r, r)
  BY DEF Comes

\* The groups that requests hold are sets of groups.
LEMMA WhosAreSessions ==
  ASSUME SessionsInv, NEW client, NEW console
  PROVE  Whos(client) \subseteq Sessions /\ FreshWhos(console) \subseteq Sessions
  BY DEF SessionsInv, TypeOK, Whos, FreshWhos, Of, Served, Sessions

\* A step of the world, of time, of a login or of a poll.
LEMMA WorldStep ==
  ASSUME SessionsInv, mode' = mode, member' \in SUBSET Groups, granted' \in Grants,
         changes' \in 0..MaxChanges, copy' = copy, aged' \in {aged, TRUE},
         login' \in {login, None, member}, challenge' \in {challenge, None},
         cookie' \in [Clients -> Sessions], cache' \in [BOOLEAN -> Sessions],
         cookie'["web"] \in {cookie["web"], None, login},
         cookie'["cli"] \in {cookie["cli"], None, challenge},
         \A b \in BOOLEAN : cache'[b] \in {cache[b], None},
         request' = request
  PROVE  GoodStep
<1>1. TypeOK'
  BY DEF SessionsInv, TypeOK, Sessions, Session
<1>2. \A q \in Requests : Plausible(request[q])'
  BY DEF SessionsInv, Plausible
<1>3. Flows
  BY ComesFromItself DEF Flows
<1>4. RolesFlow
  BY DEF RolesFlow
<1> QED
  BY <1>1, <1>2, <1>3, <1>4 DEF GoodStep, SessionsInv

\* A step of one request that leaves the cookies, Redis and the mapping alone.
LEMMA ServeStep ==
  ASSUME SessionsInv, NEW q \in Requests, NEW r \in Served, Plausible(r), Step(q, r),
         Comes(request[q], r),
         UNCHANGED <<worldVars, copyVars, login, cookie, cache>>,
         challenge' \in {challenge, None} \cup Whos("web"),
         r.pc \in {"serve", "factor"} =>
            /\ request[q].pc \in {"serve", "factor"}
            /\ r.console = request[q].console /\ r.eligible = request[q].eligible
  PROVE  GoodStep
<1>1. /\ UNCHANGED <<mode, member, granted, changes, copy, aged, login, cookie, cache>>
  BY DEF worldVars, copyVars
<1>2. /\ request' \in [Requests -> Served]
      /\ \A x \in Requests : Plausible(request[x])'
      /\ request'[q] = r /\ \A x \in Requests : x # q => request'[x] = request[x]
  BY <1>1, RequestStep
<1>3. challenge' \in Sessions
  BY WhosAreSessions DEF SessionsInv, TypeOK, Sessions
<1>4. TypeOK'
  BY <1>1, <1>2, <1>3 DEF SessionsInv, TypeOK
<1>5. \A x \in Requests : Comes(request[x], request'[x])
  BY <1>2, ComesFromItself
<1>6. Flows
  BY <1>1, <1>5 DEF Flows
<1>7. RolesFlow
  BY <1>1, <1>2 DEF RolesFlow
<1> QED
  BY <1>1, <1>2, <1>4, <1>6, <1>7 DEF GoodStep, SessionsInv

\* authorization_flow: the cache and the cookie are renewed from the request, a
\* cookie only where that is configured.
LEMMA AuthorizeStep ==
  ASSUME SessionsInv, NEW q \in Requests, Authorize(q)
  PROVE  GoodStep
<1> DEFINE r == request[q]
           n == [r EXCEPT !.pc = "serve", !.cached = FALSE, !.hadCookie = FALSE,
                          !.eligible = Eligible(r.who, copy', r.console)]
<1>1. /\ r.pc = "roles" /\ copy' = CurrentCopy /\ aged' = FALSE /\ Step(q, n)
      /\ cache' = IF Keeps(r) THEN [cache EXCEPT ![r.console] = r.who] ELSE cache
      /\ cookie' = IF SetsCookie(r) THEN [cookie EXCEPT ![r.client] = r.who] ELSE cookie
      /\ UNCHANGED <<mode, member, granted, changes, login, challenge>>
  BY DEF Authorize, worldVars
<1>2. r \in Served /\ r # Idle /\ Plausible(r)
  BY <1>1 DEF SessionsInv, TypeOK, Idle
<1>3. /\ n \in Served /\ n.pc = "serve" /\ n.client = r.client /\ n.who = r.who
      /\ n.console = r.console /\ n.eligible = Eligible(r.who, CurrentCopy, r.console)
  BY <1>1, <1>2 DEF Served, Eligible
<1>4. Plausible(n)
  BY <1>2, <1>3 DEF Plausible
<1>5. /\ request' \in [Requests -> Served]
      /\ \A x \in Requests : Plausible(request[x])'
      /\ request'[q] = n /\ \A x \in Requests : x # q => request'[x] = request[x]
  BY <1>1, <1>3, <1>4, RequestStep
<1>6. r.who \in Sessions /\ r.console \in BOOLEAN /\ r.client \in Clients
  BY <1>2 DEF Served, Sessions
<1>7. /\ cache' \in [BOOLEAN -> Sessions]
      /\ \A b \in BOOLEAN : cache'[b] \in {cache[b], None} \cup FreshWhos(b)
  <2>1. cache \in [BOOLEAN -> Sessions]
    BY DEF SessionsInv, TypeOK
  <2>2. Keeps(r) => r.who \in FreshWhos(r.console)
    BY <1>1 DEF Keeps, FreshWhos, Unauthorized
  <2> QED
    BY <1>1, <1>6, <2>1, <2>2
<1>8. /\ cookie' \in [Clients -> Sessions] /\ cookie'["cli"] = cookie["cli"]
      /\ cookie'["web"] = cookie["web"] \/ (~OneWay /\ cookie'["web"] \in Whos("web"))
  <2>1. cookie \in [Clients -> Sessions]
    BY DEF SessionsInv, TypeOK
  <2>2. SetsCookie(r) => r.client = "web" /\ ~OneWay
    BY <1>1, <1>2, <1>6 DEF SetsCookie, Plausible, OneWay, Clients
  <2>3. r.client = "web" => r.who \in Whos("web")
    BY <1>2 DEF Whos, Of
  <2> QED
    BY <1>1, <1>6, <2>1, <2>2, <2>3 DEF Clients
<1>9. copy' \in Grants
  BY <1>1 DEF SessionsInv, TypeOK, CurrentCopy
<1>10. TypeOK'
  BY <1>1, <1>5, <1>7, <1>8, <1>9 DEF SessionsInv, TypeOK
<1> HIDE DEF n
<1>11. \A x \in Requests : Comes(request[x], request'[x])
  <2>1. Comes(r, n)
    BY <1>2, <1>3 DEF Comes, Unauthorized
  <2> QED
    BY <1>5, <2>1, ComesFromItself
<1>12. Flows
  BY <1>1, <1>7, <1>8, <1>11 DEF Flows
<1>13. RolesFlow
  BY <1>1, <1>2, <1>3, <1>5 DEF RolesFlow
<1> QED
  BY <1>1, <1>5, <1>10, <1>12, <1>13 DEF GoodStep, SessionsInv

\* A request begins.
LEMMA BeginStep ==
  ASSUME SessionsInv, NEW q \in Requests, NEW client \in Clients,
         NEW console \in BOOLEAN, NEW refresh \in BOOLEAN,
         BeginWithCookie(q, client, console, refresh) \/ BeginWithClaims(q, refresh)
  PROVE  GoodStep
<1>1. Idle \in Served /\ Idle.cached = FALSE
  BY IdleType DEF Idle
<1>2. cookie[client] \in Sessions /\ member \in Session
  BY DEF SessionsInv, TypeOK, Session
<1>3. CASE BeginWithCookie(q, client, console, refresh)
  <2> DEFINE r == [Idle EXCEPT !.client = client, !.console = console,
                               !.refresh = refresh, !.hadCookie = TRUE,
                               !.who = cookie[client]]
             n == LoadCache(r)
  <2>1. /\ cookie[client] # None /\ Step(q, n)
        /\ client = "web" => console
        /\ client = "cli" /\ console => mode.cliLists
        /\ UNCHANGED <<worldVars, copyVars, login, cookie, cache, challenge>>
    BY <1>3 DEF BeginWithCookie
  <2>2. cookie[client] \in Session
    BY <1>2, <2>1 DEF Sessions
  <2>3. /\ r \in Served /\ r.pc = "idle" /\ ~r.cached /\ r.client = client
        /\ r.console = console /\ r.hadCookie /\ r.who = cookie[client]
    BY <1>1, <2>2 DEF Served, Idle
  <2> HIDE DEF r
  <2>4. /\ n \in Served /\ Plausible(n) /\ n.pc = "roles" /\ n.client = client
        /\ \/ n.who = r.who /\ ~n.cached
           \/ n.cached /\ cache[n.console] # None /\ n.who = cache[n.console]
    BY <2>1, <2>3, LoadCacheType
  <2> HIDE DEF n
  <2>5. Comes(request[q], n)
    BY <2>1, <2>3, <2>4 DEF Comes
  <2> QED
    BY <2>1, <2>4, <2>5, ServeStep
<1>4. CASE BeginWithClaims(q, refresh)
  <2> DEFINE n == [Idle EXCEPT !.pc = "cache", !.refresh = refresh, !.who = member]
  <2>1. /\ ~mode.login /\ Step(q, n)
        /\ UNCHANGED <<worldVars, copyVars, login, cookie, cache, challenge>>
    BY <1>4 DEF BeginWithClaims
  <2>2. /\ n \in Served /\ n.pc = "cache" /\ n.client = "web" /\ n.console
        /\ n.who = member /\ ~n.cached
    BY <1>1, <1>2 DEF Served, Idle
  <2> HIDE DEF n
  <2>3. Plausible(n) /\ Comes(request[q], n)
    BY <2>1, <2>2 DEF Plausible, Comes
  <2> QED
    BY <2>1, <2>2, <2>3, ServeStep
<1> QED
  BY <1>3, <1>4

\* The keys of the load balancer have been fetched.
LEMMA CheckClaimsStep ==
  ASSUME SessionsInv, NEW q \in Requests, CheckClaims(q)
  PROVE  GoodStep
<1> DEFINE r == request[q]
           n == LoadCache(r)
<1>1. /\ r.pc = "cache" /\ Step(q, n)
      /\ UNCHANGED <<worldVars, copyVars, login, cookie, cache, challenge>>
  BY DEF CheckClaims
<1>2. r \in Served /\ Plausible(r) /\ r # Idle /\ r.client = "web"
  BY <1>1 DEF SessionsInv, TypeOK, Idle, Plausible
<1>3. /\ n \in Served /\ Plausible(n) /\ n.pc = "roles" /\ n.client = r.client
      /\ \/ n.who = r.who /\ ~n.cached
         \/ n.cached /\ cache[n.console] # None /\ n.who = cache[n.console]
  BY <1>1, <1>2, LoadCacheType DEF Plausible
<1> HIDE DEF n
<1>4. Comes(r, n)
  BY <1>1, <1>2, <1>3 DEF Comes, Unauthorized, Plausible
<1> QED
  BY <1>1, <1>3, <1>4, ServeStep

\* What the request was for is answered, refused, or waits for a second factor.
LEMMA AnswerStep ==
  ASSUME SessionsInv, NEW q \in Requests, Ends(q) \/ RequestCredentials(q)
  PROVE  GoodStep
<1> DEFINE r == request[q]
           w == [r EXCEPT !.pc = "factor"]
<1>1. Idle \in Served /\ Plausible(Idle) /\ Comes(r, Idle) /\ Idle.pc = "idle"
  BY IdleType DEF Comes, Idle
<1>2. CASE AnswerChallenge(q)
  <2>1. r.pc = "serve" /\ r.client = "web" /\ challenge' = r.who /\ Step(q, Idle)
    BY <1>2 DEF AnswerChallenge
  <2>2. challenge' \in Whos("web")
    BY <2>1 DEF Whos, Of, Idle
  <2> QED
    BY <1>1, <1>2, <2>2, ServeStep DEF AnswerChallenge
<1>3. CASE Answer(q) \/ CredentialsRefused(q)
           \/ \E role \in Roles : GetCredentials(q, role) \/ ConsoleLogin(q, role)
  <2>1. /\ Step(q, Idle)
        /\ UNCHANGED <<worldVars, copyVars, login, cookie, cache, challenge>>
    BY <1>3 DEF Answer, CredentialsRefused, GetCredentials, ConsoleLogin
  <2> QED
    BY <1>1, <2>1, ServeStep
<1>4. CASE RequestCredentials(q)
  <2>1. /\ r.pc = "serve" /\ r.client = "cli" /\ Step(q, w)
        /\ UNCHANGED <<worldVars, copyVars, login, cookie, cache, challenge>>
    BY <1>4 DEF RequestCredentials, Goto
  <2>2. r \in Served /\ Plausible(r) /\ r # Idle
    BY <2>1 DEF SessionsInv, TypeOK, Idle
  <2>3. /\ w \in Served /\ w.pc = "factor" /\ w.client = r.client /\ w.who = r.who
        /\ w.console = r.console /\ w.eligible = r.eligible
    BY <2>2 DEF Served
  <2> HIDE DEF w
  <2>4. Plausible(w) /\ Comes(r, w)
    BY <2>1, <2>2, <2>3 DEF Plausible, Comes, Unauthorized
  <2> QED
    BY <2>1, <2>3, <2>4, ServeStep
<1> QED
  BY <1>2, <1>3, <1>4 DEF Ends

\* Every step is a good one.
LEMMA NextStep == SessionsInv /\ [Next]_vars => GoodStep
<1> SUFFICES ASSUME SessionsInv, [Next]_vars PROVE GoodStep
  OBVIOUS
<1> USE DEF worldVars, copyVars
<1>1. /\ mode \in Modes /\ member \in SUBSET Groups /\ granted \in Grants
      /\ changes \in 0..MaxChanges /\ login \in Sessions /\ challenge \in Sessions
      /\ cookie \in [Clients -> Sessions] /\ cache \in [BOOLEAN -> Sessions]
      /\ None \in Sessions /\ Clients = {"web", "cli"}
  BY DEF SessionsInv, TypeOK, Sessions, Clients
<1>2. MaxChanges \in Nat
  BY UserSessionConstants
<1>3. CASE \E g \in Groups : MembershipChanges(g)
  BY <1>1, <1>2, <1>3, WorldStep DEF MembershipChanges
<1>4. CASE \E s \in Grants : GrantsChange(s)
  BY <1>1, <1>2, <1>4, WorldStep DEF GrantsChange
<1>5. CASE \E c \in Clients : CookieExpires(c)
  BY <1>1, <1>5, WorldStep DEF CookieExpires
<1>6. CASE \E b \in BOOLEAN : CacheExpires(b)
  BY <1>1, <1>6, WorldStep DEF CacheExpires
<1>7. CASE CopyAges \/ ChallengeExpires \/ LoginStarts
  BY <1>1, <1>7, WorldStep DEF CopyAges, ChallengeExpires, LoginStarts
<1>8. CASE LoginEnds \/ LogOut \/ PollChallenge
  BY <1>1, <1>8, WorldStep
  DEF LoginEnds, ExchangeCode, ConsumeAssertion, LoggedIn, LoginFails, LogOut, PollChallenge
<1>9. ASSUME NEW q \in Requests,
             \/ \E c \in Clients, console, refresh \in BOOLEAN :
                   BeginWithCookie(q, c, console, refresh)
             \/ \E refresh \in BOOLEAN : BeginWithClaims(q, refresh)
             \/ Goes(q) \/ RequestCredentials(q) \/ Ends(q)
      PROVE  GoodStep
  <2>1. "web" \in Clients /\ TRUE \in BOOLEAN
    BY <1>1
  <2> QED
    BY <1>9, <2>1, BeginStep, CheckClaimsStep, AuthorizeStep, AnswerStep DEF Goes
<1>10. CASE UNCHANGED vars
  BY <1>1, <1>10, WorldStep DEF vars
<1> QED
  BY <1>3, <1>4, <1>5, <1>6, <1>7, <1>8, <1>9, <1>10 DEF Next

\* What requests hold, in any mode: their types, and where each may stand.
THEOREM SessionsCorrect == Spec => []SessionsInv
<1>1. Init => SessionsInv
  BY InitSessions
<1>2. SessionsInv /\ [Next]_vars => SessionsInv'
  BY NextStep DEF GoodStep
<1> QED
  BY <1>1, <1>2, PTL DEF Spec

\* The stores and the requests in flight keep their types.
THEOREM TypeCorrect == Spec => []TypeOK
<1>1. SessionsInv => TypeOK
  BY DEF SessionsInv
<1> QED
  BY <1>1, SessionsCorrect, PTL

-----------------------------------------------------------------------------
(* What is right stays right.                                              *)

\* Once every store is right, no step makes one wrong but a change of memberships.
LEMMA GroupsStayRight ==
  ASSUME SessionsInv, SessionsInv', Flows, GroupsAgree, member' = member
  PROVE  GroupsAgree'
<1>1. \A client : Whos(client) \subseteq {member}
  BY DEF GroupsAgree, Whos, Of
<1>2. \A console : FreshWhos(console) \subseteq {member}
  BY DEF GroupsAgree, FreshWhos, Unauthorized, Idle
<1>3. cookie["web"] \in {None, member} /\ cookie["cli"] \in {None, member}
  BY DEF GroupsAgree, Clients
<1>4. login' \in {None, member} /\ challenge' \in {None, member}
  BY <1>1 DEF Flows, GroupsAgree
<1>5. \A c \in Clients : cookie'[c] \in {None, member}
  BY <1>1, <1>3 DEF Flows, GroupsAgree, Clients
<1>6. \A b \in BOOLEAN : cache'[b] \in {None, member}
  BY <1>2 DEF Flows, GroupsAgree
<1>7. ASSUME NEW q \in Requests, request'[q] # Idle
      PROVE  request'[q].who = member
  <2>1. Comes(request[q], request'[q])
    BY DEF Flows
  <2>2. request'[q].client \in Clients /\ request'[q].console \in BOOLEAN
    BY DEF SessionsInv, TypeOK, Served
  <2> QED
    BY <1>7, <2>1, <2>2 DEF GroupsAgree, Comes
<1> QED
  BY <1>4, <1>5, <1>6, <1>7 DEF GroupsAgree

\* Nor do roles come out wrong that are worked out from the right groups.
LEMMA RolesStayRight ==
  ASSUME SessionsInv, RolesFlow, GroupsAgree, RolesAgree,
         member' = member, granted' = granted
  PROVE  RolesAgree'
<1>1. CurrentCopy = granted
  BY DEF RolesAgree
<1>2. CurrentCopy' = granted
  <2>1. copy' = granted \/ (copy' = copy /\ aged' \in {aged, TRUE})
    BY <1>1 DEF RolesFlow
  <2>2. aged \/ copy \in {granted, {}}
    BY <1>1 DEF CurrentCopy
  <2>3. aged' \/ copy' \in {granted, {}}
    BY <2>1, <2>2 DEF SessionsInv, TypeOK
  <2> QED
    BY <2>3 DEF CurrentCopy
<1>3. ASSUME NEW q \in Requests, request'[q].pc \in {"serve", "factor"}
      PROVE  request'[q].eligible = Eligible(member, granted, request'[q].console)
  BY <1>1, <1>3 DEF RolesFlow, GroupsAgree, RolesAgree
<1> QED
  BY <1>2, <1>3 DEF RolesAgree, Eligible

\* Who is given credentials or a console URL asked for an eligible role.
LEMMA OnlyEligibleRoles ==
  ASSUME SessionsInv, RolesAgree, NEW q \in Requests, NEW role \in Roles
  PROVE  /\ GetCredentials(q, role) => role \in Eligible(member, granted, FALSE)
         /\ ConsoleLogin(q, role) => role \in Eligible(member, granted, TRUE)
<1>1. AsksFor(request[q], role) => role \in request[q].eligible
  BY DEF AsksFor, Matching
<1>2. request[q].console \in BOOLEAN /\ Plausible(request[q])
  BY DEF SessionsInv, TypeOK, Served
<1>3. Eligible(member, granted, TRUE) \subseteq Eligible(member, granted, FALSE)
  BY DEF Eligible
<1>4. CASE GetCredentials(q, role)
  <2>1. request[q].pc = "factor" /\ AsksFor(request[q], role)
    BY <1>4 DEF GetCredentials
  <2>2. role \in Eligible(member, granted, request[q].console)
    BY <1>1, <2>1 DEF RolesAgree
  <2>3. role \in Eligible(member, granted, FALSE)
    BY <1>2, <1>3, <2>2
  <2> QED
    BY <2>1, <2>3 DEF ConsoleLogin
<1>5. CASE ConsoleLogin(q, role)
  <2>1. /\ request[q].pc = "serve" /\ request[q].client = "web"
        /\ AsksFor(request[q], role)
    BY <1>5 DEF ConsoleLogin
  <2>2. role \in Eligible(member, granted, request[q].console)
    BY <1>1, <2>1 DEF RolesAgree
  <2>3. role \in Eligible(member, granted, TRUE)
    BY <1>2, <2>1, <2>2 DEF Plausible
  <2> QED
    BY <2>1, <2>3 DEF GetCredentials
<1> QED
  BY <1>4, <1>5

\* In every mode: from a moment on at which what is kept of groups and roles is
\* right, and memberships and grants stay as they are, it remains so, and only
\* granted roles are given out.
THEOREM OnceRightStaysRight ==
  Spec /\ <>(GroupsAgree /\ RolesAgree /\ [][UNCHANGED <<member, granted>>]_vars)
    => MembershipsCatchUp /\ OnlyGrantedRoles
<1> DEFINE Agree == GroupsAgree /\ RolesAgree
           Gives == \A q \in Requests, role \in Roles :
                      /\ GetCredentials(q, role) => role \in Eligible(member, granted, FALSE)
                      /\ ConsoleLogin(q, role) => role \in Eligible(member, granted, TRUE)
<1>1. SessionsInv /\ Agree /\ [Next]_vars /\ [UNCHANGED <<member, granted>>]_vars => Agree'
  <2> SUFFICES ASSUME SessionsInv, Agree, [Next]_vars, [UNCHANGED <<member, granted>>]_vars
               PROVE  Agree'
    OBVIOUS
  <2>1. GoodStep /\ member' = member /\ granted' = granted
    BY NextStep DEF vars
  <2> QED
    BY <2>1, GroupsStayRight, RolesStayRight DEF GoodStep
<1>2. SessionsInv /\ Agree => [Gives]_vars
  BY OnlyEligibleRoles
<1> QED
  BY <1>1, <1>2, SessionsCorrect, PTL DEF Spec, MembershipsCatchUp, OnlyGrantedRoles

-----------------------------------------------------------------------------
(* The order in which the stores come right.                               *)

\* Where no store feeds one that feeds it, a store stays right once those before
\* it are.
LEMMA OrderStaysRight ==
  ASSUME SessionsInv, GoodStep, OneWay, member' = member, NEW n \in 1..10, RightTo(n)
  PROVE  RightTo(n)'
<1>1. \A q \in Requests :
        /\ request[q].client \in Clients /\ request[q].console \in BOOLEAN
        /\ request[q].client = "web" <=> request[q].console
        /\ Unauthorized(request[q]) => request[q] # Idle
  BY DEF SessionsInv, TypeOK, Served, Plausible, OneWay, Unauthorized, Idle, Clients
<1>2. \A q \in Requests :
        /\ request'[q].client \in Clients
        /\ request'[q].console \in BOOLEAN
        /\ request'[q].client = "web" <=> request'[q].console
        /\ Comes(request[q], request'[q])
  BY DEF GoodStep, SessionsInv, TypeOK, Served, Plausible, OneWay, Flows, Clients
<1>3. RequestsRight("web") => Whos("web") \subseteq {member}
  BY DEF RequestsRight, Whos
<1>4. FreshRight("web") => FreshWhos(TRUE) \subseteq {member}
  BY <1>1 DEF FreshRight, FreshWhos, Of
<1>5. FreshRight("cli") => FreshWhos(FALSE) \subseteq {member}
  BY <1>1 DEF FreshRight, FreshWhos, Of, Clients
<1>6. ASSUME NEW c \in Clients, CookieRight(c), FreshRight(c)
      PROVE  FreshRight(c)'
  <2> SUFFICES ASSUME NEW q \in Requests, request'[q] # Idle, request'[q].client = c,
                      Unauthorized(request'[q])
               PROVE  request'[q].who = member
    BY DEF FreshRight, Of, Unauthorized
  <2>1. Comes(request[q], request'[q])
    BY <1>2
  <2>2. request[q] # Idle /\ request[q].client = c /\ Unauthorized(request[q])
          => request[q].who = member
    BY <1>6 DEF FreshRight, Of
  <2> QED
    BY <1>6, <2>1, <2>2 DEF Comes, CookieRight, Unauthorized
<1>7. ASSUME NEW c \in Clients, NEW b, CookieRight(c), CacheRight(b), RequestsRight(c),
             \A q \in Requests : request'[q].client = c => request'[q].console = b
      PROVE  RequestsRight(c)'
  <2> SUFFICES ASSUME NEW q \in Requests, request'[q] # Idle, request'[q].client = c
               PROVE  request'[q].who = member
    BY DEF RequestsRight, Of
  <2>1. Comes(request[q], request'[q])
    BY <1>2
  <2>2. request[q] # Idle /\ request[q].client = c => request[q].who = member
    BY <1>7 DEF RequestsRight, Of
  <2>3. request'[q].console = b
    BY <1>7
  <2> QED
    BY <1>7, <2>1, <2>2, <2>3 DEF Comes, CookieRight, CacheRight
<1>8. /\ n >= 1 => LoginRight'
      /\ n >= 2 => CookieRight("web")'
      /\ n >= 3 => FreshRight("web")'
  <2>1. n >= 1 => LoginRight'
    BY DEF RightTo, GoodStep, Flows, LoginRight
  <2>2. n >= 2 => CookieRight("web")'
    BY DEF RightTo, GoodStep, Flows, LoginRight, CookieRight
  <2>3. n >= 3 => FreshRight("web")'
    BY <1>6 DEF RightTo, Clients
  <2> QED
    BY <2>1, <2>2, <2>3
<1>9. ASSUME NEW b \in BOOLEAN, CacheRight(b), FreshWhos(b) \subseteq {member}
      PROVE  CacheRight(b)'
  BY <1>9 DEF GoodStep, Flows, CacheRight
<1>10. ASSUME n >= 4 PROVE CacheRight(TRUE)'
  <2>0. n >= 3 /\ n >= 4
    BY <1>10
  <2>1. CacheRight(TRUE) /\ FreshRight("web")
    BY <2>0, Zenon DEF RightTo
  <2> QED
    BY <1>4, <1>9, <2>1, Zenon
<1>11. ASSUME n >= 5 PROVE RequestsRight("web")'
  <2>0. n >= 2 /\ n >= 4 /\ n >= 5
    BY <1>11
  <2>1. CookieRight("web") /\ CacheRight(TRUE) /\ RequestsRight("web")
    BY <2>0, Zenon DEF RightTo
  <2>2. \A q \in Requests : request'[q].client = "web" => request'[q].console = TRUE
    BY <1>2
  <2>3. "web" \in Clients
    BY DEF Clients
  <2> QED
    BY <1>7, <2>1, <2>2, <2>3, Zenon
<1>12. n >= 6 => ChallengeRight'
  BY <1>3 DEF RightTo, GoodStep, Flows, ChallengeRight
<1>13. n >= 7 => CookieRight("cli")'
  BY DEF RightTo, GoodStep, Flows, CookieRight, ChallengeRight
<1>14. n >= 8 => FreshRight("cli")'
  BY <1>6 DEF RightTo, Clients
<1>15. ASSUME n >= 9 PROVE CacheRight(FALSE)'
  <2>0. n >= 8 /\ n >= 9
    BY <1>15
  <2>1. CacheRight(FALSE) /\ FreshRight("cli")
    BY <2>0, Zenon DEF RightTo
  <2> QED
    BY <1>5, <1>9, <2>1, Zenon
<1>16. ASSUME n >= 10 PROVE RequestsRight("cli")'
  <2>0. n >= 7 /\ n >= 9 /\ n >= 10
    BY <1>16
  <2>1. CookieRight("cli") /\ CacheRight(FALSE) /\ RequestsRight("cli")
    BY <2>0, Zenon DEF RightTo
  <2>2. \A q \in Requests : request'[q].client = "cli" => request'[q].console = FALSE
    BY <1>2
  <2>3. "cli" \in Clients
    BY DEF Clients
  <2> QED
    BY <1>7, <2>1, <2>2, <2>3, Zenon
<1> QED
  BY <1>8, <1>10, <1>11, <1>12, <1>13, <1>14, <1>15, <1>16 DEF RightTo

\* The last of the stores in order is the last of all.
LEMMA AllInOrder ==
  ASSUME SessionsInv, RightTo(10)
  PROVE  GroupsAgree
<1>1. /\ LoginRight /\ ChallengeRight /\ CookieRight("web") /\ CookieRight("cli")
      /\ RequestsRight("web") /\ RequestsRight("cli")
  BY DEF RightTo
<1>2. CacheRight(TRUE) /\ CacheRight(FALSE)
  <2>1. 10 >= 4 /\ 10 >= 9
    OBVIOUS
  <2> QED
    BY <2>1, Zenon DEF RightTo
<1>3. \A b \in BOOLEAN : CacheRight(b)
  <2>1. \A b \in BOOLEAN : b = TRUE \/ b = FALSE
    OBVIOUS
  <2> QED
    BY <1>2, <2>1, Zenon
<1>4. \A q \in Requests : request[q].client \in Clients
  BY DEF SessionsInv, TypeOK, Served
<1> QED
  BY <1>1, <1>3, <1>4
  DEF GroupsAgree, LoginRight, ChallengeRight, CookieRight, CacheRight, RequestsRight,
      Of, Clients

\* Where no store feeds one that feeds it, memberships that stay as they are reach
\* one store after the other, and whatever is asked for meanwhile, a store does
\* not go wrong again once it and those before it are right; with the last, all is.
THEOREM StoresComeRightInOrder ==
  ASSUME NEW n \in 1..10
  PROVE  Spec /\ <>(OneWay /\ RightTo(n) /\ [][UNCHANGED member]_vars)
           => <>[](RightTo(n) /\ (n = 10 => GroupsAgree))
<1> DEFINE Right == OneWay /\ RightTo(n)
<1>1. SessionsInv /\ Right /\ [Next]_vars /\ [UNCHANGED member]_vars => Right'
  <2> SUFFICES ASSUME SessionsInv, Right, [Next]_vars, [UNCHANGED member]_vars
               PROVE  Right'
    OBVIOUS
  <2>1. GoodStep /\ member' = member
    BY NextStep DEF vars
  <2>2. OneWay'
    BY <2>1 DEF GoodStep, OneWay
  <2> QED
    BY <2>1, <2>2, OrderStaysRight
<1>2. SessionsInv /\ Right => RightTo(n) /\ (n = 10 => GroupsAgree)
  BY AllInOrder
<1> QED
  BY <1>1, <1>2, SessionsCorrect, PTL DEF Spec
=============================================================================
