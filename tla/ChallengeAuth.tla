--------------------------- MODULE ChallengeAuth ---------------------------
(***************************************************************************)
(* Challenge URL authentication of command line clients.                   *)
(*                                                                         *)
(*   GET  challenge_generator/{user}    ChallengeGeneratorHandler.get      *)
(*   GET  challenge_validator/{token}   ChallengeValidatorHandler.get      *)
(*   POST challenge_validator/{token}   ChallengeValidatorHandler.post     *)
(*   GET  challenge_poller/{token}      ChallengePollerHandler.get         *)
(*                                                                         *)
(* A client asks for a token in the name of a user.  The user opens the    *)
(* page of the token in a browser and approves it; the client, which polls *)
(* all along, is then answered with a signed JWT.                          *)
(*                                                                         *)
(* Tokens are fields of one Redis hash, each a whole JSON entry.  A        *)
(* deployment runs any number of web processes, one per replica, and each  *)
(* handler reaches Redis with single hget, hgetall, hset and hdel calls:   *)
(* each of these is a step, and the steps of handlers in different         *)
(* processes interleave.  Within a process the calls block, and a handler  *)
(* is only left between its steps where a poll signs the JWT.              *)
(***************************************************************************)
EXTENDS Integers, FiniteSets

CONSTANTS
    Tokens,     \* the random tokens there will be
    Users,
    Ips,        \* addresses of clients and browsers
    Sessions,   \* handler calls that may be in flight together
    MatchIp,    \* challenge_url.request_ip_must_match_challenge_creation_ip
    Faults,     \* write: an hset finds no Redis;  crash: a handler dies
    MaxCalls    \* bound on the calls made by browsers

ASSUME ChallengeConstants ==
    /\ Tokens # {} /\ Users # {} /\ Ips # {}
    /\ MatchIp \in BOOLEAN
    /\ Faults \subseteq {"write", "crash"}
    /\ MaxCalls \in Nat

\* The JSON of a token, "absent" when the hash has no such field.  A nonce is
\* the number of the call that made it up, 0 when there is none.
Entry == [status  : {"absent", "pending", "success"},
          user    : Users,
          ip      : Ips,
          visited : BOOLEAN,
          nonce   : Nat]

Pending(u, ip) == [status |-> "pending", user |-> u, ip |-> ip,
                   visited |-> FALSE, nonce |-> 0]

Absent == [Pending(CHOOSE u \in Users : TRUE, CHOOSE ip \in Ips : TRUE)
             EXCEPT !.status = "absent"]

\* The next Redis call of a handler.
Points == {"idle", "purge", "read", "write", "drop"}

Call == [pc     : Points,
         cmd    : {"view", "approve", "poll"},
         token  : Tokens,
         user   : Users,            \* who is logged in at the browser
         ip     : Ips,              \* where the call comes from
         nonce  : Nat,              \* the nonce posted or made up
         doomed : SUBSET Tokens,    \* expired tokens it is to delete
         copy   : Entry]            \* the entry as it was read

NoCall == [pc     |-> "idle",
           cmd    |-> "poll",
           token  |-> CHOOSE t \in Tokens : TRUE,
           user   |-> CHOOSE u \in Users : TRUE,
           ip     |-> CHOOSE ip \in Ips : TRUE,
           nonce  |-> 0,
           doomed |-> {},
           copy   |-> Absent]

VARIABLES
    entry,      \* the Redis hash TOKEN_CHALLENGES_TEMP
    late,       \* the tokens whose ttl has passed
    asked,      \* what each token was generated for, a set of at most one Pending
    shown,      \* the nonces put on pages with an approve button
    approvals,  \* the <<user, address>> told that they have authenticated
    answers,    \* how many polls were answered with a JWT
    call,       \* the handler calls in flight
    calls       \* how many calls browsers have made

vars == <<entry, late, asked, shown, approvals, answers, call, calls>>

Init ==
    /\ entry = [t \in Tokens |-> Absent]
    /\ late = {}
    /\ asked = [t \in Tokens |-> {}]
    /\ shown = [t \in Tokens |-> {}]
    /\ approvals = [t \in Tokens |-> {}]
    /\ answers = [t \in Tokens |-> 0]
    /\ call = [s \in Sessions |-> NoCall]
    /\ calls = 0

-----------------------------------------------------------------------------
Present(t) == entry[t].status # "absent"

Continue(s, n) == call' = [call EXCEPT ![s] = n]
EndCall(s)     == Continue(s, NoCall)

UnchangedBrowsers == UNCHANGED <<asked, shown, approvals>>
UnchangedClients  == UNCHANGED <<answers, calls>>

\* A whole entry is written.  ConsoleMeRedis.hset swallows the loss of
\* the connection, and the call is answered all the same.
WriteBack(t, e) ==
    \/ entry' = [entry EXCEPT ![t] = e]
    \/ "write" \in Faults /\ UNCHANGED entry

\* ChallengeGeneratorHandler.get, for a token nobody has: one hset.
Generate(t, u, ip) ==
    /\ asked[t] = {}
    /\ asked' = [asked EXCEPT ![t] = {Pending(u, ip)}]
    /\ WriteBack(t, Pending(u, ip))
    /\ UNCHANGED <<late, shown, approvals, answers, call, calls>>

\* The page of token t is opened, or its approve button pressed with nonce n:
\* the handler has read the whole hash and picked the expired tokens.
Start(s, command, t, u, ip, n) ==
    /\ call[s].pc = "idle"
    /\ asked[t] # {}
    /\ \E other \in Tokens : Present(other)
    /\ calls < MaxCalls /\ calls' = calls + 1
    /\ LET doomed == {d \in late : Present(d)}
       IN  Continue(s, [NoCall EXCEPT !.pc = IF doomed = {} THEN "read" ELSE "purge",
                                      !.cmd = command, !.token = t, !.user = u,
                                      !.ip = ip, !.nonce = n, !.doomed = doomed])
    /\ UNCHANGED <<entry, late, answers>> /\ UnchangedBrowsers

View(s, t, u, ip) == Start(s, "view", t, u, ip, calls + 1)

\* A browser posts a nonce some page has shown it, or none.
Approve(s, t, u, ip) ==
    \/ Start(s, "approve", t, u, ip, 0)
    \/ \E x \in Tokens : \E n \in shown[x] : Start(s, "approve", t, u, ip, n)

\* delete_expired_challenges
Purge(s) ==
    /\ call[s].pc = "purge"
    /\ entry' = [t \in Tokens |-> IF t \in call[s].doomed THEN Absent ELSE entry[t]]
    /\ Continue(s, [call[s] EXCEPT !.pc = "read"])
    /\ UNCHANGED late /\ UnchangedBrowsers /\ UnchangedClients

\* Mutant: the page is shown however often it was seen.
AcceptsAgain(me, e) ==
    /\ me.cmd = "approve" => e.visited /\ me.nonce = e.nonce
    /\ MatchIp => me.ip = e.ip

\* What get and post ask of the user's own challenge.  An entry that was never
\* visited has no nonce and post raises.
Accepts(me, e) ==
    /\ IF me.cmd = "view" THEN ~e.visited ELSE e.visited /\ me.nonce = e.nonce
    /\ MatchIp => me.ip = e.ip

\* Mutant: any user may look at a challenge.
RetrieveOfAnyone(s) ==
    LET me == call[s]
        e  == entry[me.token]
    IN  /\ me.pc = "read"
        /\ IF Present(me.token) /\ me.token \notin late /\ Accepts(me, e)
           THEN Continue(s, [me EXCEPT !.pc = "write", !.copy = e])
           ELSE EndCall(s)
        /\ UNCHANGED <<entry, late>> /\ UnchangedBrowsers /\ UnchangedClients

\* retrieve_user_challenge, which looks at the ttl and at the user, and the
\* checks after it.
Retrieve(s) ==
    LET me == call[s]
        e  == entry[me.token]
    IN  /\ me.pc = "read"
        /\ IF /\ Present(me.token) /\ me.token \notin late
              /\ me.user = e.user
              /\ Accepts(me, e)
           THEN Continue(s, [me EXCEPT !.pc = "write", !.copy = e])
           ELSE EndCall(s)
        /\ UNCHANGED <<entry, late>> /\ UnchangedBrowsers /\ UnchangedClients

WriteView(s) ==
    LET me == call[s]
        t  == me.token
    IN  /\ me.pc = "write" /\ me.cmd = "view"
        /\ WriteBack(t, [me.copy EXCEPT !.visited = TRUE, !.nonce = me.nonce])
        /\ shown' = [shown EXCEPT ![t] = @ \cup {me.nonce}]
        /\ EndCall(s)
        /\ UNCHANGED <<late, asked, approvals>> /\ UnchangedClients

\* Mutant: the status is not set.
WriteApprovalForgets(s) ==
    LET me == call[s]
        t  == me.token
    IN  /\ me.pc = "write" /\ me.cmd = "approve"
        /\ WriteBack(t, [me.copy EXCEPT !.user = me.user])
        /\ approvals' = [approvals EXCEPT ![t] = @ \cup {<<me.user, me.ip>>}]
        /\ EndCall(s)
        /\ UNCHANGED <<late, asked, shown>> /\ UnchangedClients

WriteApproval(s) ==
    LET me == call[s]
        t  == me.token
    IN  /\ me.pc = "write" /\ me.cmd = "approve"
        /\ WriteBack(t, [me.copy EXCEPT !.status = "success", !.user = me.user])
        /\ approvals' = [approvals EXCEPT ![t] = @ \cup {<<me.user, me.ip>>}]
        /\ EndCall(s)
        /\ UNCHANGED <<late, asked, shown>> /\ UnchangedClients

\* Mutant: a poll from any address is served.
PollFromAnywhere(s, t, ip) ==
    /\ call[s].pc = "idle"
    /\ Present(t)
    /\ t \in late \/ entry[t].status = "success"
    /\ Continue(s, [NoCall EXCEPT !.pc = "drop", !.token = t, !.ip = ip,
                                  !.copy = entry[t],
                                  !.doomed = {t} \cap late])
    /\ UNCHANGED <<entry, late>> /\ UnchangedBrowsers /\ UnchangedClients

\* ChallengePollerHandler.get up to its hget.  An expired entry is to be
\* deleted, a successful one to be answered and deleted; any other poll ends
\* without having changed anything.
Poll(s, t, ip) ==
    /\ call[s].pc = "idle"
    /\ Present(t)
    /\ t \in late \/ (ip = entry[t].ip /\ entry[t].status = "success")
    /\ Continue(s, [NoCall EXCEPT !.pc = "drop", !.token = t, !.ip = ip,
                                  !.copy = entry[t],
                                  !.doomed = {t} \cap late])
    /\ UNCHANGED <<entry, late>> /\ UnchangedBrowsers /\ UnchangedClients

\* Mutant: the token is not deleted.
DropKeeps(s) ==
    LET me == call[s]
    IN  /\ me.pc = "drop"
        /\ answers' = [answers EXCEPT ![me.token] = IF me.doomed = {} THEN @ + 1 ELSE @]
        /\ EndCall(s)
        /\ UNCHANGED <<entry, late, calls>> /\ UnchangedBrowsers

\* The JWT has been signed, in another thread, and the entry is deleted.  The
\* answer leaves when the handler returns after that: a delete that raises takes
\* it with it.
Drop(s) ==
    LET me == call[s]
    IN  /\ me.pc = "drop"
        /\ entry' = [entry EXCEPT ![me.token] = Absent]
        /\ answers' = [answers EXCEPT ![me.token] = IF me.doomed = {} THEN @ + 1 ELSE @]
        /\ EndCall(s)
        /\ UNCHANGED <<late, calls>> /\ UnchangedBrowsers

\* Two minutes after its generation a token expires.
Expires(t) ==
    /\ asked[t] # {} /\ t \notin late
    /\ late' = late \cup {t}
    /\ UNCHANGED <<entry, call>> /\ UnchangedBrowsers /\ UnchangedClients

\* The process dies, or its Redis call fails and the handler gives up.
Dies(s) ==
    /\ "crash" \in Faults
    /\ call[s].pc # "idle"
    /\ EndCall(s)
    /\ UNCHANGED <<entry, late>> /\ UnchangedBrowsers /\ UnchangedClients

Progress(s) == Purge(s) \/ Retrieve(s) \/ WriteView(s) \/ WriteApproval(s) \/ Drop(s)

Polls(t) == \E s \in Sessions, ip \in Ips : Poll(s, t, ip)

Browse(s) ==
    \E t \in Tokens, u \in Users, ip \in Ips : View(s, t, u, ip) \/ Approve(s, t, u, ip)

Next ==
    \/ \E t \in Tokens, u \in Users, ip \in Ips : Generate(t, u, ip)
    \/ \E s \in Sessions : Browse(s) \/ Progress(s) \/ Dies(s)
    \/ \E t \in Tokens : Polls(t) \/ Expires(t)

Spec == Init /\ [][Next]_vars

\* The processes serve their calls, and a client polls for its token every few
\* seconds until it is answered.
FairSpec ==
    /\ Spec
    /\ \A s \in Sessions : WF_vars(Progress(s))
    /\ \A t \in Tokens : WF_vars(Polls(t))
-----------------------------------------------------------------------------
(* Properties.                                                             *)

\* Every variable keeps the shape the handlers give it.
TypeOK ==
    /\ entry \in [Tokens -> Entry]
    /\ late \subseteq Tokens
    /\ asked \in [Tokens -> SUBSET Entry]
    /\ shown \in [Tokens -> SUBSET Nat]
    /\ approvals \in [Tokens -> SUBSET (Users \X Ips)]
    /\ answers \in [Tokens -> Nat]
    /\ call \in [Sessions -> Call]
    /\ calls \in Nat

\* What holds of every copy e of the entry of token t: it is in the name and
\* from the address of the client that asked, its nonce was put on a page, and
\* it is a success only after its user approved.
Faithful(t, e) ==
    e.status # "absent" =>
        /\ \E a \in asked[t] : e.user = a.user /\ e.ip = a.ip
        /\ e.visited => e.nonce \in shown[t]
        /\ e.status = "success" => \E ip \in Ips : <<e.user, ip>> \in approvals[t]

\* What a handler has checked when it stands before its last Redis call.
Checked(me) ==
    /\ me.pc = "write" =>
          /\ me.copy.status # "absent"
          /\ me.user = me.copy.user
          /\ MatchIp => me.ip = me.copy.ip
          /\ me.cmd = "approve" => me.copy.visited /\ me.copy.nonce = me.nonce
    /\ me.pc = "drop" /\ me.doomed = {} =>
          me.copy.status = "success" /\ me.ip = me.copy.ip

\* Approvals come from the user, and where it matters from the address, that
\* the token was asked for, by way of a page with its nonce.
Approved(t) ==
    \A a \in approvals[t] :
        /\ \E q \in asked[t] : a[1] = q.user /\ (MatchIp => a[2] = q.ip)
        /\ shown[t] # {}

\* The inductive invariant.
ChallengeInv ==
    /\ TypeOK
    /\ \A t \in Tokens :
          /\ asked[t] = {} \/ \E u \in Users, ip \in Ips : asked[t] = {Pending(u, ip)}
          /\ Faithful(t, entry[t])
          /\ Approved(t)
          /\ answers[t] > 0 => approvals[t] # {}
    /\ \A s \in Sessions : Faithful(call[s].token, call[s].copy) /\ Checked(call[s])

\* No interleaving, crash or expiry lets a client be answered with a JWT for a
\* token that was not first approved on a page of ConsoleMe by the user it was
\* asked for.
AnswersAreApproved ==
    \A t \in Tokens : answers[t] > 0 =>
        /\ shown[t] # {}
        /\ \E a \in approvals[t], q \in asked[t] :
              a[1] = q.user /\ (MatchIp => a[2] = q.ip)

\* A JWT is given out only by a poll from the address that asked for the token,
\* for the user it named.
AnswersGoToTheAsker ==
    [][\A t \in Tokens : answers'[t] # answers[t] =>
          \E s \in Sessions, a \in asked[t] :
              /\ call[s].pc = "drop" /\ call[s].token = t
              /\ call[s].ip = a.ip /\ call[s].copy.user = a.user]_vars

\* A token is answered with a JWT at most once.
AnsweredOnce == \A t \in Tokens : answers[t] <= 1

\* A token that was answered is gone for good: no late write brings it back.
AnsweredStaysGone == \A t \in Tokens : answers[t] > 0 => ~Present(t)

\* The approve button of every page that was shown works until the token expires
\* or was approved.
ShownPageWorks ==
    \A t \in Tokens : t \notin late /\ approvals[t] = {} =>
        \A n \in shown[t] : Present(t) /\ entry[t].visited /\ entry[t].nonce = n

\* Handler calls do not overlap.
OneCallAtATime == \A s, x \in Sessions : s = x

\* What is added to ChallengeInv then: a handler that is about to write or to
\* delete holds what Redis holds, and what was answered is gone.
AnswersInv ==
    /\ \A t \in Tokens : answers[t] > 0 => answers[t] = 1 /\ ~Present(t)
    /\ \A s \in Sessions : call[s].pc \in {"write", "drop"} =>
          Present(call[s].token) /\ entry[call[s].token] = call[s].copy

\* And where no write is lost: a page is shown of an entry nobody has visited,
\* and only expired or approved entries are deleted.
PagesInv ==
    /\ ShownPageWorks
    /\ \A t \in Tokens : shown[t] # {} => asked[t] # {}
    /\ \A s \in Sessions :
          /\ call[s].doomed \subseteq late
          /\ call[s].pc = "write" /\ call[s].cmd = "view" => ~call[s].copy.visited
          /\ call[s].pc = "drop" => call[s].doomed \subseteq {call[s].token}

\* Once the user has been told that they have authenticated, the polling client
\* is answered, unless the token expires first.
ApprovalReachesClient ==
    \A t \in Tokens : approvals[t] # {} ~> (answers[t] > 0 \/ t \in late)
=============================================================================
