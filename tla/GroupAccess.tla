---------------------------- MODULE GroupAccess ----------------------------
(***************************************************************************)
(* Users, their requests for groups, and the members of Google groups.     *)
(*                                                                         *)
(* A user is an item of the users table that holds the ids of the user's   *)
(* requests; a request is an item of its own (lib/dynamo.py).  Items are   *)
(* read, changed in memory and put back whole, with no condition, by any   *)
(* number of web and worker processes.  Members are added and removed with *)
(* Google's directory API, and an audit entry is written after each change *)
(* (lib/google.py).  Users are registered and managed by                   *)
(* handlers/v2/user.py.                                                    *)
(*                                                                         *)
(* Every call to DynamoDB or Google is a step.  Timestamps, signatures,    *)
(* justifications and comments are left out.  Whether a check of who may   *)
(* modify a group, of a domain, a background check or a password refuses   *)
(* an operation is a choice, made before the operation has done anything.  *)
(***************************************************************************)
EXTENDS Integers, FiniteSets

CONSTANTS
    Calls,          \* each makes one call of the operations below
    Users,          \* whose requests, memberships and passwords change
    Actors,         \* who make the calls, perhaps for themselves
    Groups, Passwords,
    GroupLists,     \* what administrators set a user's groups to
    Gated,          \* groups with prevent_bulk_add
    Ids,            \* uuids of requests
    Statuses,       \* POSSIBLE_STATUSES, as far as decisions use them
    MaxBusy,        \* bound on the calls in flight
    MaxRefusals,    \* bound on the calls DynamoDB or Google refuses
    None

ASSUME GroupAccessConstants ==
    /\ "pending" \in Statuses
    /\ Gated \subseteq Groups /\ \A gs \in GroupLists : gs \subseteq Groups
    /\ MaxBusy \in Nat /\ MaxRefusals \in Nat

People == Users \cup Actors

VARIABLES
    users,      \* [People -> item or None]
    requests,   \* [Ids -> request or None]
    members,    \* [Groups -> SUBSET Users], Google's
    log,        \* audit entries, each named by the call that wrote it
    job,        \* what each call does
    refusals

store == <<users, requests, members>>
vars  == <<users, requests, members, log, job, refusals>>

\* create_user's item.
NewUser(pw, gs) == [password |-> pw, groups |-> gs, requests |-> {}]

\* of, copy: affected_user, its name and item.  todo, found: the ids to
\* resolve, the requests resolved.  id: of the new request.  did: what Google
\* was made to do.
\* Of the history, alone: no other call has changed anything since this one
\* began; refused: one of its calls was.
Idle == [kind |-> "none", pc |-> "idle", actor |-> None, user |-> None,
         group |-> None, status |-> "pending", password |-> None,
         groups |-> {}, of |-> None, copy |-> None, todo |-> {},
         found |-> {}, id |-> None, did |-> "nothing", alone |-> TRUE,
         refused |-> FALSE]

Replies == {"ok", "added", "requested", "raised"}
Busy(j) == j.pc \notin Replies \cup {"idle"}

\* What is kept of a call that is over.
Over(j) == [Idle EXCEPT !.pc = j.pc, !.did = j.did, !.refused = j.refused,
                        !.user = j.user, !.group = j.group]

Items    == [password : Passwords \cup {None}, groups : SUBSET Groups,
             requests : SUBSET Ids]
Listed(us, u) == IF us[u] = None THEN {} ELSE us[u].requests
Requests == [username : Users, group : Groups, status : Statuses]

ASSUME NoneIsNoItem == None \notin Items \cup Requests \cup Ids

\* The tables as earlier calls leave them: a user lists the user's requests,
\* unless the user was deleted since.
Init ==
    /\ requests \in [Ids -> Requests \cup {None}]
    /\ \E i \in Ids : requests[i] = None
    /\ \E there \in SUBSET People, pw \in Passwords :
         users = [u \in People |->
                    IF u \notin there THEN None
                    ELSE [NewUser(pw, {}) EXCEPT !.requests =
                            {i \in Ids : requests[i] # None
                                         /\ requests[i].username = u}]]
    /\ \E us \in {{}, Users} : members = [g \in Groups |-> us]
    /\ log = {} /\ refusals = 0
    /\ job = [c \in Calls |-> Idle]

-----------------------------------------------------------------------------
(***************************************************************************)
(* A step of a call: what it makes of the tables, what the call does next. *)
(***************************************************************************)
Step(c, j, us, rs, ms) ==
    /\ users' = us /\ requests' = rs /\ members' = ms
    /\ job' = [x \in Calls |->
                 IF x = c THEN (IF Busy(j) THEN j ELSE Over(j))
                 ELSE IF Busy(job[x]) /\ <<us, rs, ms>> # store
                 THEN [job[x] EXCEPT !.alone = FALSE]
                 ELSE job[x]]
    /\ UNCHANGED refusals
Reads(c, j) == Step(c, j, users, requests, members) /\ UNCHANGED log

Goto(j, pc) == [j EXCEPT !.pc = pc]

Begin(c, j) ==
    /\ job[c] = Idle /\ Cardinality({x \in Calls : Busy(job[x])}) < MaxBusy
    /\ Reads(c, j)

-----------------------------------------------------------------------------
(***************************************************************************)
(* Requests for groups                                                     *)
(***************************************************************************)
\* The requests are looked up one id at a time, and the operation goes on
\* with those found.
Known(j, u, item) ==
    [j EXCEPT !.of = u, !.copy = item, !.todo = item.requests,
              !.pc = IF item.requests = {} THEN "decide" ELSE "resolve"]

\* UserDynamoHandler(actor) reads the actor's item, or makes one, and takes
\* it for the affected user's; another user's item is read when needed.
Affected(j, u, item) ==
    IF u = j.user THEN Known(j, u, item) ELSE Goto(j, "affected")

\* get_or_create_user, for the actor and for the affected user.
GetOrCreateUser(c) ==
    LET j == job[c]
        u == IF j.pc = "handler" THEN j.actor ELSE j.user IN
    /\ j.pc \in {"handler", "affected"}
    /\ Reads(c, IF users[u] = None THEN [j EXCEPT !.pc = "create", !.of = u]
                ELSE Affected(j, u, users[u]))

CreateMissingUser(c) ==
    LET j == job[c]
        item == NewUser(None, {}) IN
    /\ j.pc = "create"
    /\ Step(c, Affected(j, j.of, item), [users EXCEPT ![j.of] = item],
            requests, members)
    /\ UNCHANGED log

\* resolve_request_ids raises NoMatchingRequest for an id without a request.
Resolve(c) ==
    /\ job[c].pc = "resolve"
    /\ \E i \in job[c].todo :
         LET j == [job[c] EXCEPT !.todo = @ \ {i},
                     !.found = @ \cup {[id |-> i, item |-> requests[i]]}] IN
         Reads(c, IF requests[i] = None THEN Goto(job[c], "raised")
                  ELSE IF j.todo = {} THEN Goto(j, "decide") ELSE j)

StartAddRequest(c, actor, u, g) ==
    Begin(c, [Idle EXCEPT !.kind = "add request", !.pc = "handler",
                          !.actor = actor, !.user = u, !.group = g])

\* Mutant: requests of any other status are looked for.
PendingNot(j) ==
    {r \in j.found : r.item.group = j.group /\ r.item.status # "pending"}
Pending(j) ==
    {r \in j.found : r.item.group = j.group /\ r.item.status = "pending"}

PutRequest(c) ==
    LET j == job[c]
        new == [username |-> j.user, group |-> j.group, status |-> "pending"] IN
    /\ j.pc = "decide" /\ j.kind \in {"add request", "add member"}
    /\ IF Pending(j) # {} THEN Reads(c, Goto(j, "raised"))
       ELSE \E i \in {x \in Ids : requests[x] = None} :
              /\ Step(c, [j EXCEPT !.pc = "put user", !.id = i],
                      users, [requests EXCEPT ![i] = new], members)
              /\ UNCHANGED log

\* Mutant: what the copy lists is forgotten.
WithIdOnly(item, i) == [item EXCEPT !.requests = {i}]
WithId(item, i) == [item EXCEPT !.requests = @ \cup {i}]

\* The whole item goes back, as it was when it was read.
PutUser(c) ==
    LET j == job[c] IN
    /\ j.pc = "put user"
    /\ Step(c, Goto(j, IF j.kind = "add member" THEN "requested" ELSE "ok"),
            [users EXCEPT ![j.of] = WithId(j.copy, j.id)], requests, members)
    /\ UNCHANGED log

\* Every request of the user for the group is given the status.
StartChange(c, actor, u, g, status) ==
    Begin(c, [Idle EXCEPT !.kind = "change", !.pc = "handler", !.actor = actor,
                          !.user = u, !.group = g, !.status = status])

ChooseRequests(c) ==
    LET j == job[c]
        chosen == {r \in j.found : r.item.group = j.group} IN
    /\ j.pc = "decide" /\ j.kind = "change"
    /\ Reads(c, IF chosen = {} THEN Goto(j, "raised")
                ELSE [j EXCEPT !.pc = "put status", !.found = chosen])

StartChangeById(c, i, status) ==
    Begin(c, [Idle EXCEPT !.kind = "change by id", !.pc = "resolve",
                          !.todo = {i}, !.status = status])

ChooseById(c) ==
    /\ job[c].pc = "decide" /\ job[c].kind = "change by id"
    /\ Reads(c, Goto(job[c], "put status"))

Rest(found, r) == found \ {r}

\* What is written back is the request as it was resolved.
PutStatus(c) ==
    LET j == job[c] IN
    /\ j.pc = "put status"
    /\ \E r \in j.found :
         LET rest == Rest(j.found, r) IN
         /\ Step(c, [j EXCEPT !.found = rest,
                              !.pc = IF rest = {} THEN "ok" ELSE @],
                 users, [requests EXCEPT ![r.id] = [r.item EXCEPT !.status = j.status]],
                 members)
         /\ UNCHANGED log

-----------------------------------------------------------------------------
(***************************************************************************)
(* Members of Google groups                                                *)
(***************************************************************************)
\* api_add_user_to_group_or_raise
StartAddMember(c, actor, u, g) ==
    Begin(c, [Idle EXCEPT !.kind = "add member", !.actor = actor, !.user = u,
                          !.group = g, !.pc = "list"])

\* add_user_to_group_task
StartAddMemberTask(c, u, g) ==
    Begin(c, [Idle EXCEPT !.kind = "add member task", !.user = u, !.group = g,
                          !.pc = "list"])

\* What the callers of add_user_to_group make of its exceptions: of one from
\* Google, of a member who is there already, of bulk adds prevented.
OnHttpError(j)     == Goto(j, IF j.kind = "add member" THEN "added" ELSE "raised")
OnAlreadyMember(j) == Goto(j, IF j.kind = "add member" THEN "added" ELSE "raised")
OnBulkAdd(j)       == Goto(j, IF j.kind = "add member" THEN "handler" ELSE "raised")

\* Mutant: the test of the members is the wrong way round.
CheckNewMemberNot(j) ==
    IF j.user \notin members[j.group] THEN OnAlreadyMember(j)
    ELSE IF j.group \in Gated THEN OnBulkAdd(j)
    ELSE Goto(j, "insert")
CheckNewMember(j) ==
    IF j.user \in members[j.group] THEN OnAlreadyMember(j)
    ELSE IF j.group \in Gated THEN OnBulkAdd(j)
    ELSE Goto(j, "insert")

ListMembers(c) ==
    LET j == job[c] IN
    /\ j.pc = "list"
    /\ Reads(c, IF j.kind # "remove member" THEN CheckNewMember(j)
                ELSE IF j.user \in members[j.group] THEN Goto(j, "delete")
                ELSE Goto(j, "raised"))

\* Mutant: no entry is written.
AfterInsertQuiet(j) ==
    [j EXCEPT !.pc = IF j.kind = "add member" THEN "added" ELSE "ok", !.did = "Added"]
AfterInsert(j) == [j EXCEPT !.pc = "log", !.did = "Added"]

\* Google refuses to insert a member twice.
InsertMember(c) ==
    LET j == job[c] IN
    /\ j.pc = "insert"
    /\ IF j.user \in members[j.group] THEN Reads(c, OnHttpError(j))
       ELSE /\ Step(c, AfterInsert(j), users, requests,
                    [members EXCEPT ![j.group] = @ \cup {j.user}])
            /\ UNCHANGED log

\* remove_user_from_group_task
StartRemoveMember(c, u, g) ==
    Begin(c, [Idle EXCEPT !.kind = "remove member", !.user = u, !.group = g,
                          !.pc = "list"])

DeleteMember(c) ==
    LET j == job[c] IN
    /\ j.pc = "delete"
    /\ IF j.user \notin members[j.group] THEN Reads(c, Goto(j, "raised"))
       ELSE /\ Step(c, [j EXCEPT !.pc = "log", !.did = "Removed"], users, requests,
                    [members EXCEPT ![j.group] = @ \ {j.user}])
            /\ UNCHANGED log

Entry(c) == [call |-> c, group |-> job[c].group, user |-> job[c].user,
             action |-> job[c].did]

\* create_group_log_entry
WriteLog(c) ==
    LET j == job[c] IN
    /\ j.pc = "log"
    /\ log' = log \cup {Entry(c)}
    /\ Step(c, Goto(j, IF j.kind = "add member" THEN "added" ELSE "ok"),
            users, requests, members)

-----------------------------------------------------------------------------
(***************************************************************************)
(* Registration and management of users                                    *)
(***************************************************************************)
StartRegister(c, u, pw) ==
    Begin(c, [Idle EXCEPT !.kind = "register", !.pc = "look up", !.user = u,
                          !.password = pw])

MayRegister(u) == users[u] = None

StartManage(c, kind, u, pw, gs) ==
    Begin(c, [Idle EXCEPT !.kind = kind, !.user = u, !.password = pw, !.groups = gs,
                          !.pc = IF kind = "update" THEN "look up" ELSE "put"])

LookUp(c) ==
    LET j == job[c] IN
    /\ j.pc = "look up"
    /\ Reads(c, CASE j.kind = "register" /\ ~MayRegister(j.user) -> Goto(j, "raised")
                  [] j.kind = "update" /\ users[j.user] = None   -> Goto(j, "raised")
                  [] OTHER -> [j EXCEPT !.copy = users[j.user], !.pc = "put"])

\* update_user changes what it is given, and keeps the rest of its copy.
Updated(j) ==
    [j.copy EXCEPT !.password = IF j.password = None THEN @ ELSE j.password,
                   !.groups = IF j.groups = {} THEN @ ELSE j.groups]

WriteUser(c) ==
    LET j == job[c]
        item == CASE j.kind = "update" -> Updated(j)
                  [] j.kind = "delete" -> None
                  [] OTHER             -> NewUser(j.password, j.groups) IN
    /\ j.pc = "put"
    /\ Step(c, Goto(j, "ok"), [users EXCEPT ![j.user] = item], requests, members)
    /\ UNCHANGED log

-----------------------------------------------------------------------------
\* can_modify_members, the form of the address and restricted groups are
\* looked at before the members are listed, the background check and the
\* domain afterwards, and neither has changed anything.
MemberBarred(j)  == j.pc \in {"list", "insert"}
GroupBarred(j)   == j.kind = "remove member" /\ j.pc \in {"list", "delete"}
WeakPassword(j)  == j.pc = "put" /\ j.password # None

CheckFails(c) ==
    /\ MemberBarred(job[c]) \/ GroupBarred(job[c]) \/ WeakPassword(job[c])
    /\ Reads(c, Goto(job[c], "raised"))

\* What Google refuses comes as an HttpError, which only "add member" takes
\* for something else; the exception ends every other call.
\* Mutant: that the request was not put is logged, and not raised.
AfterRefusalGoesOn(j) ==
    CASE j.pc \in {"list", "insert"} -> OnHttpError(j)
      [] j.pc = "decide" /\ j.kind = "add request" ->
           [j EXCEPT !.pc = "put user", !.id = CHOOSE i \in Ids : requests[i] = None]
      [] OTHER -> Goto(j, "raised")
AfterRefusal(j) ==
    IF j.pc \in {"list", "insert"} THEN OnHttpError(j) ELSE Goto(j, "raised")

\* A call to DynamoDB or Google is refused.
Refused(c) ==
    /\ Busy(job[c]) /\ refusals < MaxRefusals
    /\ refusals' = refusals + 1
    /\ job' = [job EXCEPT ![c] = AfterRefusal([job[c] EXCEPT !.refused = TRUE])]
    /\ UNCHANGED <<users, requests, members, log>>

Begins(c) ==
    \/ \E actor \in Actors, u \in Users, g \in Groups :
         \/ StartAddRequest(c, actor, u, g)
         \/ \E s \in Statuses : StartChange(c, actor, u, g, s)
         \/ StartAddMember(c, actor, u, g)
    \/ \E u \in Users, g \in Groups :
         \/ StartAddMemberTask(c, u, g)
         \/ StartRemoveMember(c, u, g)
    \/ \E i \in Ids, s \in Statuses : StartChangeById(c, i, s)
    \/ \E u \in Users, pw \in Passwords : StartRegister(c, u, pw)
    \/ \E u \in Users, pw \in Passwords, gs \in GroupLists :
         StartManage(c, "create", u, pw, gs)
    \/ \E u \in Users, pw \in Passwords \cup {None}, gs \in GroupLists :
         StartManage(c, "update", u, pw, gs)
    \/ \E u \in Users : StartManage(c, "delete", u, None, {})

Continues(c) ==
    \/ GetOrCreateUser(c) \/ CreateMissingUser(c) \/ Resolve(c)
    \/ PutRequest(c) \/ PutUser(c)
    \/ ChooseRequests(c) \/ ChooseById(c) \/ PutStatus(c)
    \/ ListMembers(c) \/ InsertMember(c) \/ DeleteMember(c) \/ WriteLog(c)
    \/ LookUp(c) \/ WriteUser(c)

Next ==
    \E c \in Calls : Begins(c) \/ Continues(c) \/ CheckFails(c) \/ Refused(c)

Spec == Init /\ [][Next]_vars

-----------------------------------------------------------------------------
(***************************************************************************)
(* Properties                                                              *)
(***************************************************************************)
Kinds == {"none", "add request", "change", "change by id", "add member",
          "add member task", "remove member", "register", "create", "update", "delete"}
Pcs   == {"idle", "handler", "affected", "create", "resolve", "decide", "put user",
          "put status", "list", "insert", "delete", "log", "look up", "put"} \cup Replies
Deeds == {"nothing", "Added", "Removed"}

Jobs ==
    [kind : Kinds, pc : Pcs,
     actor : Actors \cup {None}, user : Users \cup {None},
     group : Groups \cup {None}, status : Statuses,
     password : Passwords \cup {None}, groups : SUBSET Groups,
     of : People \cup {None}, copy : Items \cup {None}, todo : SUBSET Ids,
     found : SUBSET [id : Ids, item : Requests], id : Ids \cup {None},
     did : Deeds, alone : BOOLEAN, refused : BOOLEAN]

\* Every item is one that the code writes, every entry one that it logs.
TypeOK ==
    /\ users \in [People -> Items \cup {None}]
    /\ requests \in [Ids -> Requests \cup {None}]
    /\ members \in [Groups -> SUBSET Users]
    /\ log \subseteq [call : Calls, group : Groups, user : Users,
                      action : {"Added", "Removed"}]
    /\ refusals \in 0 .. MaxRefusals /\ job \in [Calls -> Jobs]

\* A user's list names only requests that exist and are the user's own: one
\* that does not exist makes every later look at the list raise
\* NoMatchingRequest (resolve_request_ids).  A refused call between the two
\* puts, and other calls in flight, leave no such list.
ListedRequestsExist ==
    \A u \in People : \A i \in Listed(users, u) :
        requests[i] # None /\ requests[i].username = u

\* A call that nothing disturbs makes no second request for a group while the
\* user's list has a pending one (add_request's PendingRequestAlreadyExists).
\* Two submissions together do.
NoSecondRequest ==
    [][\A c \in Calls : job[c].alone =>
         \A i \in Ids : job'[c].id = i /\ job[c].id # i =>
            ~\E k \in Listed(users, job[c].user) :
                /\ requests[k].group = job[c].group
                /\ requests[k].status = "pending"]_vars

\* Of a user whose item is there, a call that nothing disturbs loses neither
\* requests nor, unless it updates them, the password and groups; only an
\* administrator replaces or deletes a user (add_request_id_to_user,
\* update_user, the registration's look at the user).  The whole item is put
\* each time, so calls in flight together do lose these.
AloneNothingIsLost ==
    [][\A c \in Calls, u \in People :
         LET before == users[u]
             after == users'[u] IN
         /\ job[c].pc # job'[c].pc /\ Busy(job[c]) /\ job[c].alone
         /\ job[c].kind \notin {"create", "delete"}
         /\ before # None /\ before # after
         => /\ after # None
            /\ before.requests \subseteq after.requests
            /\ job[c].kind # "update" =>
                 after.password = before.password /\ after.groups = before.groups]_vars

\* When nothing disturbs it and no call is refused, the reply "ADDED" means
\* that the user is a member and "REQUESTED" that a pending request of the
\* user's list asks for it (api_add_user_to_group_or_raise), and a change of
\* status that replies well has reached every request of the user for the
\* group (change_request_status).
RepliesAreTrue ==
    [][\A c \in Calls :
         LET j == job[c] IN
         Busy(j) /\ j.alone =>
            /\ ~job'[c].refused /\ job'[c].pc = "added" => j.user \in members'[j.group]
            /\ ~job'[c].refused /\ job'[c].pc = "requested" =>
                 \E i \in Listed(users', j.user) :
                    /\ requests'[i].group = j.group
                    /\ requests'[i].status = "pending"
            /\ j.kind = "change" /\ job'[c].pc = "ok" =>
                 \A i \in Listed(users', j.user) :
                    requests'[i].group = j.group => requests'[i].status = j.status]_vars

\* Every audit entry is about a change that was made, and every change of a
\* call that is over has one, unless a call was refused (add_user_to_group,
\* remove_user_from_group, create_group_log_entry).
AuditLogIsTrue ==
    /\ \A e \in log : e = Entry(e.call)
    /\ \A c \in Calls : job[c].did # "nothing" /\ ~Busy(job[c]) /\ ~job[c].refused =>
         Entry(c) \in log

-----------------------------------------------------------------------------
(***************************************************************************)
(* What holds of every call in flight; the properties above follow.        *)
(***************************************************************************)
\* The kinds of calls that look at a user's requests, at the members of a
\* group, at the user alone.
Asking   == {"add request", "change", "add member"}
Grouping == {"add member", "add member task", "remove member"}
Managing == {"register", "create", "update", "delete"}

\* A call has what its next step needs.
Ready(j) ==
    /\ j.kind \in Asking \cup Grouping => j.user \in Users /\ j.group \in Groups
    /\ j.kind \in Managing => j.user \in Users
    /\ j.kind \in Asking => j.actor \in Actors
    /\ j.pc \in {"handler", "affected", "create"} =>
         j.kind \in Asking /\ j.copy = None /\ j.found = {}
    /\ j.pc = "create" => j.of \in {j.actor, j.user}
    /\ j.pc \in {"resolve", "decide", "put user", "put status"} =>
         j.kind \in Asking \cup {"change by id"}
    /\ j.pc \in {"resolve", "decide", "put user"} /\ j.kind \in Asking =>
         j.of = j.user /\ j.copy \in Items
    /\ j.pc = "decide" => j.todo = {}
    /\ j.pc = "put user" => j.kind \in {"add request", "add member"} /\ j.id \in Ids
    /\ j.pc \in {"list", "insert", "delete", "log"} =>
         j.kind \in Grouping /\ j.copy = None /\ j.found = {}
    /\ j.pc = "delete" => j.kind = "remove member"
    /\ j.pc = "insert" => j.kind # "remove member"
    /\ j.pc = "log" => j.did # "nothing"
    /\ j.pc \in {"look up", "put"} => j.kind \in Managing
    /\ j.pc = "put" /\ j.kind = "update" => j.copy \in Items
    /\ j.did # "nothing" => j.pc \in {"log"} \cup Replies

\* The request exists, and is the user's.
IsOf(rs, i, u) == rs[i] # None /\ rs[i].username = u

\* The requests that a call holds are still there: none is ever removed, or
\* becomes another user's.
Holds(j, rs) ==
    /\ \A r \in j.found : IsOf(rs, r.id, r.item.username)
    /\ j.copy # None => \A i \in j.copy.requests : IsOf(rs, i, j.user)
    /\ j.pc = "put user" => IsOf(rs, j.id, j.user)

\* What a call that nothing disturbs knows of the tables is still so.
Knows(j, us, rs, ms) ==
    /\ j.pc = "create" => us[j.of] = None
    /\ j.kind \in Asking /\ j.pc \in {"resolve", "decide", "put user"} =>
         us[j.user] = j.copy
    /\ j.kind \in Asking /\ j.pc \in {"resolve", "decide"} =>
         \A i \in j.copy.requests :
            i \in j.todo \/ [id |-> i, item |-> rs[i]] \in j.found
    /\ j.pc = "put user" => rs[j.id].group = j.group /\ rs[j.id].status = "pending"
    /\ j.kind = "change" /\ j.pc = "put status" =>
         \A i \in Listed(us, j.user) :
            \/ rs[i].group = j.group => rs[i].status = j.status
            \/ \E r \in j.found : r.id = i
    /\ j.kind = "add member" /\ j.pc = "log" => j.user \in ms[j.group]
    /\ j.kind = "update" /\ j.pc = "put" => us[j.user] = j.copy
    /\ j.kind = "register" /\ j.pc = "put" => us[j.user] = None

JobsInv ==
    \A c \in Calls :
        /\ Ready(job[c]) /\ Holds(job[c], requests)
        /\ Busy(job[c]) /\ job[c].alone => Knows(job[c], users, requests, members)
=============================================================================
