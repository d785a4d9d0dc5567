---------------------------- MODULE UserSession ----------------------------
(***************************************************************************)
(* From the groups of a user to credentials of a role.                     *)
(*                                                                         *)
(* A request is authenticated by a cookie that holds the user's groups as  *)
(* they were when it was made, or by headers of the load balancer          *)
(* (BaseHandler.authorization_flow, BaseMtlsHandler.prepare).  What it     *)
(* finds is kept in Redis for a minute for the user's next requests, apart *)
(* for those that want the roles of the console only and for those that    *)
(* want all of them.  The groups and the authorization mapping give the    *)
(* eligible roles, of which credentials or a console URL may be asked.     *)
(* A browser gets its cookie from a login (OIDC, SAML, password); the      *)
(* command line gets one when a request of the browser answers its         *)
(* challenge (ChallengeAuth says how).                                     *)
(*                                                                         *)
(* There is one user, with one browser and one command line.  Tokens and   *)
(* signatures are valid.  Of AuthorizationMapping it has the outcome: a    *)
(* stored mapping that changes, and a copy of it that ages.                *)
(***************************************************************************)
EXTENDS Integers, FiniteSets

CONSTANTS
    Groups, Roles,
    Requests,   \* slots for requests that are served at the same time
    Modes,      \* the configurations looked at
    MaxChanges, \* bound on the changes of memberships and grants
    None

\* login: users log in at ConsoleMe, not at the load balancer in front of it.
\* setCookie: auth.set_auth_cookie.  cliLists: the command line lists the
\* roles without all=true, that is, with console_only as the browser does.
ASSUME UserSessionConstants ==
    /\ Modes \subseteq [login : BOOLEAN, setCookie : BOOLEAN, cliLists : BOOLEAN]
    /\ MaxChanges \in Nat

Clients == {"web", "cli"}
Grants  == SUBSET (Groups \X Roles \X BOOLEAN)  \* TRUE: only for the cli

\* What a cookie, Redis or a challenge holds of the user.
Session == SUBSET Groups

VARIABLES
    mode,
    member,     \* the user's groups, says the identity provider
    granted,    \* the stored authorization mapping
    changes,
    copy, aged, \* the web process's copy of it, and is it a minute old
    login,      \* the login under way: what the identity provider has said
    cookie,     \* [Clients -> Session \cup {None}]
    cache,      \* [BOOLEAN -> Session \cup {None}]: USER-{user}-CONSOLE-{console_only}
    challenge,  \* the groups an answered challenge waits with
    request

worldVars == <<mode, member, granted, changes>>
copyVars  == <<copy, aged>>
vars == <<mode, member, granted, changes, copy, aged, login, cookie, cache,
          challenge, request>>

Wants   == {"page", "challenge", "credentials", "console"}
Idle    == [pc |-> "idle", client |-> "web", console |-> TRUE, refresh |-> FALSE,
            hadCookie |-> FALSE, cached |-> FALSE,
            who |-> {}, eligible |-> {}]

Init ==
    /\ mode \in Modes
    /\ member = Groups
    /\ granted = (Groups \X Roles \X {FALSE})
    /\ changes = 0
    /\ copy = {} /\ aged = TRUE
    /\ login = None
    /\ cookie = [c \in Clients |-> None]
    /\ cache = [b \in BOOLEAN |-> None]
    /\ challenge = None
    /\ request = [q \in Requests |-> Idle]

-----------------------------------------------------------------------------
(***************************************************************************)
(* The world, and time.                                                    *)
(***************************************************************************)
MembershipChanges(g) ==
    /\ changes < MaxChanges /\ changes' = changes + 1
    /\ member' = IF g \in member THEN member \ {g} ELSE member \cup {g}
    /\ UNCHANGED <<mode, granted, copyVars, login, cookie, cache, challenge, request>>

GrantsChange(s) ==
    /\ changes < MaxChanges /\ changes' = changes + 1
    /\ s # granted /\ granted' = s
    /\ UNCHANGED <<mode, member, copyVars, login, cookie, cache, challenge, request>>

CookieExpires(c) ==
    /\ cookie[c] # None /\ cookie' = [cookie EXCEPT ![c] = None]
    /\ UNCHANGED <<worldVars, copyVars, login, cache, challenge, request>>

CacheExpires(b) ==
    /\ cache[b] # None /\ cache' = [cache EXCEPT ![b] = None]
    /\ UNCHANGED <<worldVars, copyVars, login, cookie, challenge, request>>

CopyAges ==
    /\ ~aged /\ aged' = TRUE
    /\ UNCHANGED <<worldVars, copy, login, cookie, cache, challenge, request>>

ChallengeExpires ==
    /\ challenge # None /\ challenge' = None
    /\ UNCHANGED <<worldVars, copyVars, login, cookie, cache, request>>

-----------------------------------------------------------------------------
(***************************************************************************)
(* Logging in and out.  A browser without cookie is sent to the identity   *)
(* provider, and comes back with a code or an assertion; the cookie holds  *)
(* the groups the provider gave then.                                      *)
(***************************************************************************)
LoginStarts ==
    /\ mode.login /\ cookie["web"] = None /\ login = None
    /\ login' = member
    /\ UNCHANGED <<worldVars, copyVars, cookie, cache, challenge, request>>

LoggedIn ==
    /\ login # None /\ login' = None
    /\ cookie' = [cookie EXCEPT !["web"] = login]
    /\ UNCHANGED <<worldVars, copyVars, cache, challenge, request>>

\* authenticate_user_by_oidc, when the browser comes back with a code
ExchangeCode     == LoggedIn
\* SamlHandler, to which the browser posts the provider's assertion
ConsumeAssertion == LoggedIn

LoginFails ==
    /\ login # None /\ login' = None
    /\ UNCHANGED <<worldVars, copyVars, cookie, cache, challenge, request>>
LoginEnds == ExchangeCode \/ ConsumeAssertion \/ LoginFails

LogOut ==
    /\ mode.setCookie /\ cookie["web"] # None
    /\ cookie' = [cookie EXCEPT !["web"] = None]
    /\ UNCHANGED <<worldVars, copyVars, login, cache, challenge, request>>

\* The command line polls, and gets a cookie of whom the challenge names.
PollChallenge ==
    /\ challenge # None /\ challenge' = None
    /\ cookie' = [cookie EXCEPT !["cli"] = challenge]
    /\ UNCHANGED <<worldVars, copyVars, login, cache, request>>

-----------------------------------------------------------------------------
(***************************************************************************)
(* authorization_flow.  A request begins when its user is known; one that  *)
(* is sent to log in, or refused, changes nothing.  With a cookie, Redis   *)
(* is asked at once; the keys to check the load balancer's headers with    *)
(* are fetched first.                                                      *)
(***************************************************************************)
Step(q, r)  == request' = [request EXCEPT ![q] = r]
Goto(q, pc) == Step(q, [request[q] EXCEPT !.pc = pc])

LoadCache(r) ==
    IF ~r.refresh /\ cache[r.console] # None
    THEN [r EXCEPT !.pc = "roles", !.who = cache[r.console], !.cached = TRUE]
    ELSE [r EXCEPT !.pc = "roles", !.refresh = FALSE]

BeginWithCookie(q, client, console, refresh) ==
    /\ request[q] = Idle /\ cookie[client] # None
    /\ client = "web" => console
    /\ client = "cli" /\ console => mode.cliLists
    /\ Step(q, LoadCache([Idle EXCEPT !.client = client, !.console = console,
                          !.refresh = refresh, !.hadCookie = TRUE, !.who = cookie[client]]))
    /\ UNCHANGED <<worldVars, copyVars, login, cookie, cache, challenge>>

BeginWithClaims(q, refresh) ==
    /\ ~mode.login
    /\ request[q] = Idle /\ cookie["web"] = None
    /\ Step(q, [Idle EXCEPT !.pc = "cache", !.refresh = refresh, !.who = member])
    /\ UNCHANGED <<worldVars, copyVars, login, cookie, cache, challenge>>

CheckClaims(q) ==
    /\ request[q].pc = "cache" /\ Step(q, LoadCache(request[q]))
    /\ UNCHANGED <<worldVars, copyVars, login, cookie, cache, challenge>>

\* determine_users_authorized_roles
Eligible(groups, mapping, console) ==
    {r \in Roles : \E g \in groups, cliOnly \in BOOLEAN :
                     /\ <<g, r, cliOnly>> \in mapping
                     /\ cliOnly => ~console}

\* Mutant: the copy of the mapping is never read again.
CurrentCopyOld == IF copy = {} THEN granted ELSE copy
CurrentCopy    == IF aged \/ copy = {} THEN granted ELSE copy

\* The groups are kept unless they were just read there, and only if there
\* are any; a browser that came without cookie gets one.
\* Mutant: what was read from the cache is stored there again.
KeepsAlways(r) == r.who # {}
Keeps(r) == r.who # {} /\ ~r.cached

SetsCookie(r) == mode.setCookie /\ ~r.hadCookie

Authorize(q) ==
    LET r == request[q] IN
    /\ r.pc = "roles"
    /\ copy' = CurrentCopy /\ aged' = FALSE
    /\ Step(q, [r EXCEPT !.pc = "serve", !.cached = FALSE, !.hadCookie = FALSE,
                         !.eligible = Eligible(r.who, copy', r.console)])
    /\ cache' = IF Keeps(r) THEN [cache EXCEPT ![r.console] = r.who] ELSE cache
    /\ cookie' = IF SetsCookie(r)
                 THEN [cookie EXCEPT ![r.client] = r.who] ELSE cookie
    /\ UNCHANGED <<worldVars, login, challenge>>

-----------------------------------------------------------------------------
(***************************************************************************)
(* What the request is for.  A page needs no more; the answer to a         *)
(* challenge gives the command line the groups of this request; credentials*)
(* need one eligible role to match the query, a certificate or a cookie    *)
(* that is not too old, and without restriction to the usual addresses a   *)
(* second factor, which the user is asked for and may take long to give.   *)
(***************************************************************************)
\* filter_eligible_roles: an exact match is the only one.
Matching(query, exact, eligible) ==
    IF exact \in eligible THEN {exact} ELSE query \cap eligible
AsksFor(r, role) ==
    \E query \in SUBSET Roles, exact \in Roles \cup {None} :
        Matching(query, exact, r.eligible) = {role}

Answer(q) ==
    /\ request[q].pc = "serve" /\ Step(q, Idle)
    /\ UNCHANGED <<worldVars, copyVars, login, cookie, cache, challenge>>

AnswerChallenge(q) ==
    /\ request[q].pc = "serve" /\ request[q].client = "web" /\ challenge = None
    /\ challenge' = request[q].who
    /\ Step(q, Idle)
    /\ UNCHANGED <<worldVars, copyVars, login, cookie, cache>>

RequestCredentials(q) ==
    /\ request[q].pc = "serve" /\ request[q].client = "cli"
    /\ \E role \in Roles : AsksFor(request[q], role)
    /\ Goto(q, "factor")
    /\ UNCHANGED <<worldVars, copyVars, login, cookie, cache, challenge>>

\* The second factor is refused, the certificate too old, or AWS refuses.
CredentialsRefused(q) ==
    /\ request[q].pc = "factor" /\ Step(q, Idle)
    /\ UNCHANGED <<worldVars, copyVars, login, cookie, cache, challenge>>

GetCredentials(q, role) ==
    /\ request[q].pc = "factor" /\ AsksFor(request[q], role)
    /\ Step(q, Idle)
    /\ UNCHANGED <<worldVars, copyVars, login, cookie, cache, challenge>>

\* RoleConsoleLoginHandler and generate_url, for the browser
ConsoleLogin(q, role) ==
    /\ request[q].pc = "serve" /\ request[q].client = "web"
    /\ AsksFor(request[q], role)
    /\ Step(q, Idle)
    /\ UNCHANGED <<worldVars, copyVars, login, cookie, cache, challenge>>

-----------------------------------------------------------------------------
Ends(q) ==
    \/ Answer(q) \/ AnswerChallenge(q) \/ CredentialsRefused(q)
    \/ \E role \in Roles : GetCredentials(q, role) \/ ConsoleLogin(q, role)
Goes(q) == CheckClaims(q) \/ Authorize(q)

Next ==
    \/ \E g \in Groups : MembershipChanges(g)
    \/ \E s \in Grants : GrantsChange(s)
    \/ \E c \in Clients : CookieExpires(c)
    \/ \E b \in BOOLEAN : CacheExpires(b)
    \/ CopyAges \/ ChallengeExpires
    \/ LoginStarts \/ LoginEnds \/ LogOut \/ PollChallenge
    \/ \E q \in Requests :
         \/ \E c \in Clients, console, refresh \in BOOLEAN :
              BeginWithCookie(q, c, console, refresh)
         \/ \E refresh \in BOOLEAN : BeginWithClaims(q, refresh)
         \/ Goes(q) \/ RequestCredentials(q) \/ Ends(q)

Spec == Init /\ [][Next]_vars

(***************************************************************************)
(* Nobody need ask for anything; but what has begun ends, and what expires *)
(* does expire.                                                            *)
(***************************************************************************)
FairSpec ==
    /\ Spec
    /\ \A c \in Clients : WF_vars(CookieExpires(c))
    /\ \A b \in BOOLEAN : WF_vars(CacheExpires(b))
    /\ WF_vars(CopyAges) /\ WF_vars(ChallengeExpires) /\ WF_vars(LoginEnds)
    /\ \A q \in Requests : WF_vars(Goes(q)) /\ WF_vars(Ends(q))

-----------------------------------------------------------------------------
Sessions == Session \cup {None}
Served == [pc : {"idle", "cache", "roles", "serve", "factor"},
           client : Clients, console : BOOLEAN, refresh : BOOLEAN,
           hadCookie : BOOLEAN, cached : BOOLEAN,
           who : Session, eligible : SUBSET Roles]

TypeOK ==
    /\ mode \in Modes /\ member \in SUBSET Groups
    /\ granted \in Grants /\ changes \in 0..MaxChanges
    /\ copy \in Grants /\ aged \in BOOLEAN
    /\ login \in Sessions /\ challenge \in Sessions
    /\ cookie \in [Clients -> Sessions] /\ cache \in [BOOLEAN -> Sessions]
    /\ request \in [Requests -> Served]

\* What is kept of the groups, in cookies, in Redis and in requests, is right.
GroupsAgree ==
    /\ login # None => login = member
    /\ challenge # None => challenge = member
    /\ \A c \in Clients : cookie[c] # None => cookie[c] = member
    /\ \A b \in BOOLEAN : cache[b] # None => cache[b] = member
    /\ \A q \in Requests : request[q] # Idle => request[q].who = member

\* The copy of the mapping is right or about to be read again, and the roles
\* that requests have worked out are right.
RolesAgree ==
    /\ CurrentCopy = granted
    /\ \A q \in Requests : LET r == request[q] IN
          r.pc \in {"serve", "factor"} => r.eligible = Eligible(member, granted, r.console)

\* Groups are passed on from store to store, and each gives them a lifetime
\* of its own: the cookie of a login, the cache of the browser's requests, a
\* challenge, the cookie of the command line, its cache.  That is where it
\* ends, for no store feeds one that feeds it: once memberships no longer
\* change, all of them are right, whoever goes on asking for whatever, and so
\* are the roles worked out from them once grants no longer change.
MembershipsCatchUp == <>[](GroupsAgree /\ RolesAgree)

\* Once memberships and grants no longer change, credentials and console
\* URLs are given only for roles that are granted, and URLs only for those
\* that are not for the command line alone, though the eligible roles were
\* worked out before the user was asked for a second factor.
OnlyGrantedRoles ==
    <>[][\A q \in Requests, role \in Roles :
           /\ GetCredentials(q, role) => role \in Eligible(member, granted, FALSE)
           /\ ConsoleLogin(q, role) => role \in Eligible(member, granted, TRUE)]_vars

-----------------------------------------------------------------------------
(***************************************************************************)
(* What holds of requests, and the order in which the stores come right.   *)
(***************************************************************************)
\* A browser's requests are for the console; those of the command line only if
\* it lists roles that way.  Only a browser comes without cookie, and only where
\* users do not log in here.
Plausible(r) ==
    /\ r.client = "web" => r.console
    /\ r.client = "cli" /\ r.console => mode.cliLists
    /\ r.pc = "idle" => r = Idle
    /\ r.pc = "cache" => r.client = "web" /\ ~r.cached
    /\ r.pc = "factor" => r.client = "cli"
    /\ r.pc \in {"cache", "roles"} /\ (mode.login \/ r.client = "cli") => r.hadCookie

SessionsInv == TypeOK /\ \A q \in Requests : Plausible(request[q])

\* A cookie is never made of the cache, nor is the browser's cache shared with
\* the command line: the modes in which no store feeds one that feeds it.
OneWay == (mode.setCookie => mode.login) /\ ~mode.cliLists

Of(client)      == {q \in Requests : request[q] # Idle /\ request[q].client = client}
Unauthorized(r) == r.pc \in {"cache", "roles"} /\ ~r.cached

LoginRight          == login # None => login = member
CookieRight(client) == cookie[client] # None => cookie[client] = member
CacheRight(console) == cache[console] # None => cache[console] = member
ChallengeRight      == challenge # None => challenge = member
FreshRight(client) ==
    \A q \in Of(client) : Unauthorized(request[q]) => request[q].who = member
RequestsRight(client) == \A q \in Of(client) : request[q].who = member

\* The first n stores, each fed only by those before it, hold the user's groups.
RightTo(n) ==
    /\ n >= 1  => LoginRight
    /\ n >= 2  => CookieRight("web")
    /\ n >= 3  => FreshRight("web")
    /\ n >= 4  => CacheRight(TRUE)
    /\ n >= 5  => RequestsRight("web")
    /\ n >= 6  => ChallengeRight
    /\ n >= 7  => CookieRight("cli")
    /\ n >= 8  => FreshRight("cli")
    /\ n >= 9  => CacheRight(FALSE)
    /\ n >= 10 => RequestsRight("cli")
=============================================================================
