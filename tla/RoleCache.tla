----------------------------- MODULE RoleCache -----------------------------
(***************************************************************************)
(* The cache of IAM roles.                                                 *)
(*                                                                         *)
(*   Aws.fetch_iam_role                     web requests, refresh_iam_role *)
(*   cache_iam_resources_across_accounts    every 45 minutes, each region  *)
(*   cache_iam_resources_for_account        its subtasks                   *)
(*   clear_old_redis_iam_cache              every 6 hours                  *)
(*   detect_role_changes_and_update_cache   every minute, each region      *)
(*                                                                         *)
(* What AWS says of a role is kept in a DynamoDB table all regions share   *)
(* and, per region, in a Redis hash.  One region is active: it lists the   *)
(* accounts; the others copy the table into their Redis.  A role change    *)
(* sends an event to a queue of each region, whose consumer has the role   *)
(* refreshed.  The module follows one region, active or not; of the others *)
(* it has what they write to the table.                                    *)
(*                                                                         *)
(* A worker is a Celery worker process, or a web process fetching a role.  *)
(* Each read or write of AWS, DynamoDB, Redis or SQS is a step.            *)
(***************************************************************************)
EXTENDS Integers, FiniteSets

CONSTANTS
    Roles,
    Values,     \* what AWS may say of a role that exists
    AwsAtFirst, \* [Roles -> Values \cup {None}]
    Accounts,
    AccountOf,  \* [Roles -> Accounts]
    Allowed,    \* the roles config's roles.allowed_* lets ConsoleMe sync
    Workers,
    Duty,       \* [Workers -> SUBSET Jobs]: what each worker takes up
    Ttl,        \* 36 hours, in ticks of the clock
    Grace,      \* the hour during which an entry is served past its ttl
    Stale,      \* the six hours after which the cleaner removes it
    MaxTime,    \* bound on the clock
    MaxChanges, \* bound on the changes of roles in AWS
    None, Junk  \* no value; a message that is not an event

Jobs == {"page", "refresh", "account", "across", "clear", "consume"}

ASSUME RoleCacheConstants ==
    /\ AwsAtFirst \in [Roles -> Values \cup {None}]
    /\ AccountOf \in [Roles -> Accounts]
    /\ Allowed \subseteq Roles
    /\ Duty \in [Workers -> SUBSET Jobs]
    /\ {Ttl, Grace, Stale, MaxTime, MaxChanges} \subseteq Nat
    /\ None \notin Values /\ Junk \notin Roles

Entry   == [val : Values \cup {None}, ttl : Nat]
NoEntry == [val |-> None, ttl |-> 0]
Fresh(v, t) == [val |-> v, ttl |-> t + Ttl]

Kinds  == {"none", "fetch", "account", "across", "clear", "consume"}
Points == {"idle",
           "redis", "dynamo", "aws", "put", "set",        \* fetch_iam_role
           "list", "item", "hset",                        \* an account
           "join", "copy", "read", "expire", "store",     \* all accounts
           "scan", "drop",                                \* the cleaner
           "receive", "delete"}                           \* the consumer

Task == [kind  : Kinds,
         pc    : Points,
         role  : Roles,
         acct  : Accounts,
         entry : Entry,                          \* what it will write
         snap  : [Roles -> Entry],               \* what it has listed
         todo  : SUBSET Roles,
         batch : [Roles \cup {Junk} -> Nat],     \* messages it has received
         seen  : SUBSET Roles,                   \* roles_to_update
         late  : BOOLEAN]                        \* it began before this tick

NoMessages == [m \in Roles \cup {Junk} |-> 0]
NoListing  == [r \in Roles |-> NoEntry]

NoTask == [kind |-> "none", pc |-> "idle", role |-> CHOOSE r \in Roles : TRUE,
           acct |-> CHOOSE a \in Accounts : TRUE,
           entry |-> NoEntry, snap |-> NoListing, todo |-> {},
           batch |-> NoMessages, seen |-> {}, late |-> FALSE]

VARIABLES
    aws,        \* what AWS says of each role, None when there is none
    temp,       \* the roles with a temporary inline policy that has expired
    changes,    \* how often AWS has changed
    dynamo,     \* the table consoleme_iamroles_global
    redis,      \* the hash IAM_ROLE_CACHE
    active,     \* is the region config's celery.active_region
    sqs,        \* the messages that may be received
    hidden,     \* messages received and neither deleted nor back
    refreshes,  \* roles with a refresh_iam_role task in the queue
    subtasks,   \* accounts with a task in the queue
    task,       \* what each worker is doing
    now         \* the clock

awsVars   == <<aws, temp, changes, active>>
queueVars == <<sqs, hidden>>
vars == <<aws, temp, changes, dynamo, redis, active, sqs, hidden,
          refreshes, subtasks, task, now>>

Init ==
    /\ aws = AwsAtFirst
    /\ temp = Roles
    /\ changes = 0
    /\ dynamo = NoListing
    /\ redis = NoListing
    /\ active \in BOOLEAN
    /\ sqs = [NoMessages EXCEPT ![Junk] = 1]
    /\ hidden = NoMessages
    /\ refreshes = {}
    /\ subtasks = {}
    /\ task = [w \in Workers |-> NoTask]
    /\ now = 0

-----------------------------------------------------------------------------
At(w, kind, pc) == task[w].kind = kind /\ task[w].pc = pc
Begin(w, job, t) ==
    job \in Duty[w] /\ task[w] = NoTask /\ task' = [task EXCEPT ![w] = t]
Step(w, t)  == task' = [task EXCEPT ![w] = t]
Goto(w, pc) == Step(w, [task[w] EXCEPT !.pc = pc])
Done(w)     == Step(w, NoTask)

Plus(m, n)  == [x \in DOMAIN m |-> m[x] + n[x]]
Present(e)  == e.val # None
SetRole(r, e) == redis' = [redis EXCEPT ![r] = e]

(***************************************************************************)
(* The world: roles change in AWS, and every region's queue gets the       *)
(* event; time passes; DynamoDB drops items whose ttl has passed; the      *)
(* messages a consumer did not delete become visible again.  No task lasts *)
(* longer than an hour (soft_time_limit), so none sees two ticks.          *)
(***************************************************************************)
AwsChanges(r, v) ==
    /\ changes < MaxChanges /\ changes' = changes + 1
    /\ now = 0
    /\ v # aws[r] /\ aws' = [aws EXCEPT ![r] = v]
    /\ sqs' = [sqs EXCEPT ![r] = @ + 1]
    /\ UNCHANGED <<temp, active, dynamo, redis, hidden, refreshes, subtasks, task, now>>

Tick ==
    /\ now < MaxTime /\ now' = now + 1
    /\ \A w \in Workers : ~task[w].late
    /\ task' = [w \in Workers |-> IF task[w] = NoTask THEN NoTask
                                  ELSE [task[w] EXCEPT !.late = TRUE]]
    /\ UNCHANGED <<awsVars, dynamo, redis, queueVars, refreshes, subtasks>>

DynamoExpires(r) ==
    /\ Present(dynamo[r]) /\ dynamo[r].ttl < now
    /\ dynamo' = [dynamo EXCEPT ![r] = NoEntry]
    /\ UNCHANGED <<awsVars, redis, queueVars, refreshes, subtasks, task, now>>

Reappear ==
    /\ hidden # NoMessages
    /\ sqs' = Plus(sqs, hidden)
    /\ hidden' = NoMessages
    /\ UNCHANGED <<awsVars, dynamo, redis, refreshes, subtasks, task, now>>

\* Another region refreshes a role, or lists it.
OtherRegionPuts(r) ==
    /\ aws[r] # None
    /\ dynamo' = [dynamo EXCEPT ![r] = Fresh(aws[r], now)]
    /\ UNCHANGED <<awsVars, redis, queueVars, refreshes, subtasks, task, now>>

(***************************************************************************)
(* fetch_iam_role                                                          *)
(***************************************************************************)
Fetching(r, pc) == [NoTask EXCEPT !.kind = "fetch", !.pc = pc, !.role = r]

\* A page asks for a role, with or without force_refresh.
StartFetch(w, r, force) ==
    /\ Begin(w, "page", Fetching(r, IF force THEN "aws" ELSE "redis"))
    /\ UNCHANGED <<awsVars, dynamo, redis, queueVars, refreshes, subtasks, now>>

\* refresh_iam_role: force_refresh
StartRefresh(w, r) ==
    /\ r \in refreshes /\ refreshes' = refreshes \ {r}
    /\ Begin(w, "refresh", Fetching(r, "aws"))
    /\ UNCHANGED <<awsVars, dynamo, redis, queueVars, subtasks, now>>

Served(e) == Present(e) /\ e.ttl > now - Grace

FetchRedis(w) ==
    /\ At(w, "fetch", "redis")
    /\ IF Served(redis[task[w].role]) THEN Done(w) ELSE Goto(w, "dynamo")
    /\ UNCHANGED <<awsVars, dynamo, redis, queueVars, refreshes, subtasks, now>>

\* An item of the table is used however old it is.
FetchDynamo(w) ==
    /\ At(w, "fetch", "dynamo")
    /\ LET item == dynamo[task[w].role]
       IN  IF Present(item) THEN Step(w, [task[w] EXCEPT !.pc = "set", !.entry = item])
           ELSE Goto(w, "aws")
    /\ UNCHANGED <<awsVars, dynamo, redis, queueVars, refreshes, subtasks, now>>

\* get_role, its policies and its tags are asked for together.
AwsAnswer(r) == aws[r]

\* A role that does not exist is not removed from the caches.
FetchAws(w) ==
    /\ At(w, "fetch", "aws")
    /\ LET v == AwsAnswer(task[w].role)
       IN  IF v = None THEN Done(w)
           ELSE Step(w, [task[w] EXCEPT !.pc = "put", !.entry = Fresh(v, now)])
    /\ UNCHANGED <<awsVars, dynamo, redis, queueVars, refreshes, subtasks, now>>

FetchPut(w) ==
    /\ At(w, "fetch", "put")
    /\ dynamo' = [dynamo EXCEPT ![task[w].role] = task[w].entry]
    /\ Goto(w, "set")
    /\ UNCHANGED <<awsVars, redis, queueVars, refreshes, subtasks, now>>

FetchSet(w) ==
    /\ At(w, "fetch", "set")
    /\ SetRole(task[w].role, task[w].entry)
    /\ Done(w)
    /\ UNCHANGED <<awsVars, dynamo, queueVars, refreshes, subtasks, now>>

Fetch(w) ==
    \/ FetchRedis(w) \/ FetchDynamo(w) \/ FetchAws(w) \/ FetchPut(w) \/ FetchSet(w)

(***************************************************************************)
(* cache_iam_resources_for_account, in the active region: the roles of the *)
(* account are then written one by one, DynamoDB first.  A role    *)
(* with an expired temporary policy loses it, and the task fails: the call *)
(* that reads the role again lacks an argument.  Celery retries the task.  *)
(***************************************************************************)
StartAccount(w, a) ==
    /\ active /\ a \in subtasks
    /\ subtasks' = subtasks \ {a}
    /\ Begin(w, "account", [NoTask EXCEPT !.kind = "account", !.pc = "list", !.acct = a])
    /\ UNCHANGED <<awsVars, dynamo, redis, queueVars, refreshes, now>>

Syncable(a) == {r \in Allowed : AccountOf[r] = a /\ aws[r] # None}

AccountList(w) ==
    /\ At(w, "account", "list")
    /\ LET todo == Syncable(task[w].acct)
       IN  IF todo = {} THEN Done(w)
           ELSE Step(w, [task[w] EXCEPT
                           !.pc = "item", !.todo = todo,
                           !.snap = [r \in Roles |-> IF r \in todo THEN Fresh(aws[r], now)
                                                     ELSE NoEntry]])
    /\ UNCHANGED <<awsVars, dynamo, redis, queueVars, refreshes, subtasks, now>>

AccountRole(w, r) ==
    /\ At(w, "account", "item") /\ r \in task[w].todo \ temp
    /\ dynamo' = [dynamo EXCEPT ![r] = task[w].snap[r]]
    /\ Step(w, [task[w] EXCEPT !.pc = "hset", !.role = r, !.todo = @ \ {r}])
    /\ UNCHANGED <<awsVars, redis, queueVars, refreshes, subtasks, now>>

\* Mutant: the task fails before the policy is deleted.
RemoveNoPolicies(w, r) ==
    /\ At(w, "account", "item") /\ r \in task[w].todo \cap temp
    /\ subtasks' = subtasks \cup {task[w].acct}
    /\ Done(w)
    /\ UNCHANGED <<awsVars, dynamo, redis, queueVars, refreshes, now>>

RemoveTempPolicies(w, r) ==
    /\ At(w, "account", "item") /\ r \in task[w].todo \cap temp
    /\ temp' = temp \ {r}
    /\ subtasks' = subtasks \cup {task[w].acct}
    /\ Done(w)
    /\ UNCHANGED <<aws, changes, active, dynamo, redis, queueVars, refreshes, now>>

\* Mutant: only the table is written.
AccountHsetSkipped(w) ==
    /\ At(w, "account", "hset")
    /\ IF task[w].todo = {} THEN Done(w) ELSE Goto(w, "item")
    /\ UNCHANGED <<awsVars, dynamo, redis, queueVars, refreshes, subtasks, now>>

AccountHset(w) ==
    /\ At(w, "account", "hset")
    /\ SetRole(task[w].role, task[w].snap[task[w].role])
    /\ IF task[w].todo = {} THEN Done(w) ELSE Goto(w, "item")
    /\ UNCHANGED <<awsVars, dynamo, queueVars, refreshes, subtasks, now>>

Account(w) ==
    \/ AccountList(w) \/ AccountHset(w)
    \/ \E r \in Roles : AccountRole(w, r) \/ RemoveTempPolicies(w, r)

(***************************************************************************)
(* cache_iam_resources_across_accounts                                     *)
(***************************************************************************)
\* is_task_already_running: a run that finds another one active does nothing.
\* (AuthorizationMapping takes this check apart.)
AlreadyRunning(kind) == \E x \in Workers : task[x].kind = kind

\* In the active region the accounts' tasks are queued; in the others the
\* table is scanned.
StartAcross(w) ==
    /\ ~AlreadyRunning("across")
    /\ IF active
       THEN /\ Begin(w, "across", [NoTask EXCEPT !.kind = "across", !.pc = "join"])
            /\ subtasks' = Accounts
       ELSE /\ Begin(w, "across", [NoTask EXCEPT !.kind = "across", !.pc = "copy",
                                     !.snap = dynamo,
                                     !.todo = {r \in Roles : Present(dynamo[r])}])
            /\ UNCHANGED subtasks
    /\ UNCHANGED <<awsVars, dynamo, redis, queueVars, refreshes, now>>

AcrossJoin(w) ==
    /\ At(w, "across", "join")
    /\ subtasks = {}
    /\ \A x \in Workers : task[x].kind # "account"
    /\ Goto(w, "read")
    /\ UNCHANGED <<awsVars, dynamo, redis, queueVars, refreshes, subtasks, now>>

\* Mutant: the same role is copied again.
AcrossCopyForEver(w) ==
    /\ At(w, "across", "copy")
    /\ \/ task[w].todo = {} /\ Goto(w, "read") /\ UNCHANGED redis
       \/ \E r \in task[w].todo : SetRole(r, task[w].snap[r]) /\ UNCHANGED task
    /\ UNCHANGED <<awsVars, dynamo, queueVars, refreshes, subtasks, now>>

AcrossCopy(w) ==
    /\ At(w, "across", "copy")
    /\ \/ /\ task[w].todo = {}
          /\ Goto(w, "read")
          /\ UNCHANGED redis
       \/ \E r \in task[w].todo :
            /\ SetRole(r, task[w].snap[r])
            /\ Step(w, [task[w] EXCEPT !.todo = @ \ {r}])
    /\ UNCHANGED <<awsVars, dynamo, queueVars, refreshes, subtasks, now>>

Expired(e) == Present(e) /\ e.ttl < now

\* Mutant: expired entries stay in what is written back.
AcrossReadKeeps(w) ==
    /\ At(w, "across", "read")
    /\ LET old == {r \in Roles : Expired(redis[r])}
       IN  Step(w, [task[w] EXCEPT !.pc = IF old = {} THEN "store" ELSE "expire",
                                   !.todo = old, !.snap = redis])
    /\ UNCHANGED <<awsVars, dynamo, redis, queueVars, refreshes, subtasks, now>>

\* hgetall of the region's hash
AcrossRead(w) ==
    /\ At(w, "across", "read")
    /\ LET all == redis
           old == {r \in Roles : Expired(all[r])}
       IN  Step(w, [task[w] EXCEPT
                      !.pc = IF old = {} THEN "store" ELSE "expire",
                      !.todo = old,
                      !.snap = [r \in Roles |-> IF r \in old THEN NoEntry ELSE all[r]]])
    /\ UNCHANGED <<awsVars, dynamo, redis, queueVars, refreshes, subtasks, now>>

Without(hash, gone) == [r \in Roles |-> IF r \in gone THEN NoEntry ELSE hash[r]]

AcrossExpire(w) ==
    /\ At(w, "across", "expire")
    /\ redis' = Without(redis, task[w].todo)
    /\ Step(w, [task[w] EXCEPT !.pc = "store", !.todo = {}])
    /\ UNCHANGED <<awsVars, dynamo, queueVars, refreshes, subtasks, now>>

\* What was read is written back into the same hash, field by field.
AcrossStore(w) ==
    /\ At(w, "across", "store")
    /\ redis' = [r \in Roles |-> IF Present(task[w].snap[r]) THEN task[w].snap[r]
                                 ELSE redis[r]]
    /\ Done(w)
    /\ UNCHANGED <<awsVars, dynamo, queueVars, refreshes, subtasks, now>>

Across(w) ==
    \/ AcrossJoin(w) \/ AcrossCopy(w) \/ AcrossRead(w)
    \/ AcrossExpire(w) \/ AcrossStore(w)

(***************************************************************************)
(* clear_old_redis_iam_cache                                               *)
(***************************************************************************)
StartClear(w) ==
    /\ active
    /\ Begin(w, "clear", [NoTask EXCEPT !.kind = "clear", !.pc = "scan"])
    /\ UNCHANGED <<awsVars, dynamo, redis, queueVars, refreshes, subtasks, now>>

ClearScan(w) ==
    /\ At(w, "clear", "scan")
    /\ LET old == {r \in Roles : /\ Present(redis[r])
                                 /\ redis[r].ttl <= now - Stale}
       IN  IF old = {} THEN Done(w)
           ELSE Step(w, [task[w] EXCEPT !.pc = "drop", !.todo = old])
    /\ UNCHANGED <<awsVars, dynamo, redis, queueVars, refreshes, subtasks, now>>

ClearDrop(w) ==
    /\ At(w, "clear", "drop")
    /\ redis' = Without(redis, task[w].todo)
    /\ Done(w)
    /\ UNCHANGED <<awsVars, dynamo, queueVars, refreshes, subtasks, now>>

Clear(w) == ClearScan(w) \/ ClearDrop(w)

(***************************************************************************)
(* detect_role_changes_and_update_cache                                    *)
(***************************************************************************)
StartConsume(w) ==
    /\ Begin(w, "consume", [NoTask EXCEPT !.kind = "consume", !.pc = "receive"])
    /\ UNCHANGED <<awsVars, dynamo, redis, queueVars, refreshes, subtasks, now>>

\* Messages are received, and a refresh sent for each role this run of the
\* consumer had not seen.
Receive(w) ==
    /\ At(w, "consume", "receive") /\ sqs # NoMessages
    /\ LET roles == {r \in Roles : sqs[r] > 0}
       IN  /\ refreshes' = refreshes \cup (roles \ task[w].seen)
           /\ Step(w, [task[w] EXCEPT !.pc = "delete", !.seen = @ \cup roles,
                                      !.batch = sqs])
    /\ sqs' = NoMessages
    /\ UNCHANGED <<awsVars, dynamo, redis, hidden, subtasks, now>>

ReceiveNothing(w) ==
    /\ At(w, "consume", "receive") /\ sqs = NoMessages
    /\ Done(w)
    /\ UNCHANGED <<awsVars, dynamo, redis, queueVars, refreshes, subtasks, now>>

\* Junk is left in the queue.  With nothing else to delete the call fails,
\* and the task with it.
Delete(w) ==
    /\ At(w, "consume", "delete")
    /\ hidden' = [hidden EXCEPT ![Junk] = @ + task[w].batch[Junk]]
    /\ IF \E r \in Roles : task[w].batch[r] > 0
       THEN Step(w, [task[w] EXCEPT !.pc = "receive", !.batch = NoMessages])
       ELSE Done(w)
    /\ UNCHANGED <<awsVars, dynamo, redis, sqs, refreshes, subtasks, now>>

Consume(w) == Receive(w) \/ ReceiveNothing(w) \/ Delete(w)

-----------------------------------------------------------------------------
\* A worker that takes up work, and one that goes on with it.
Start(w) ==
    \/ \E r \in Roles : StartRefresh(w, r) \/ \E force \in BOOLEAN : StartFetch(w, r, force)
    \/ \E a \in Accounts : StartAccount(w, a)
    \/ StartAcross(w) \/ StartClear(w) \/ StartConsume(w)

Work(w) == Fetch(w) \/ Account(w) \/ Across(w) \/ Clear(w) \/ Consume(w)

World ==
    \/ \E r \in Roles : \E v \in Values \cup {None} : AwsChanges(r, v)
    \/ \E r \in Roles : DynamoExpires(r)
    \/ \E r \in Roles : OtherRegionPuts(r)
    \/ Reappear
    \/ Tick

Next == World \/ \E w \in Workers : Start(w) \/ Work(w)

Spec == Init /\ [][Next]_vars

(***************************************************************************)
(* A worker goes on with its task; beat schedules the periodic tasks for   *)
(* ever, and workers are free often enough to run what is queued.          *)
(***************************************************************************)
Fairness ==
    /\ \A w \in Workers : WF_vars(Work(w))
    /\ SF_vars(\E w \in Workers : StartAcross(w))
    /\ SF_vars(\E w \in Workers : StartConsume(w))
    /\ \A r \in Roles : SF_vars(\E w \in Workers : StartRefresh(w, r))
    /\ \A a \in Accounts : SF_vars(\E w \in Workers : StartAccount(w, a))
    /\ \A r \in Roles : WF_vars(~active /\ OtherRegionPuts(r))
    /\ \A r \in Roles : WF_vars(DynamoExpires(r))
    /\ WF_vars(Reappear) /\ WF_vars(Tick)

FairSpec == Spec /\ Fairness

-----------------------------------------------------------------------------
TypeOK ==
    /\ aws \in [Roles -> Values \cup {None}]
    /\ temp \subseteq Roles
    /\ changes \in 0..MaxChanges
    /\ dynamo \in [Roles -> Entry]
    /\ redis \in [Roles -> Entry]
    /\ active \in BOOLEAN
    /\ sqs \in [Roles \cup {Junk} -> Nat]
    /\ hidden \in [Roles \cup {Junk} -> Nat]
    /\ refreshes \subseteq Roles
    /\ subtasks \subseteq Accounts
    /\ task \in [Workers -> Task]
    /\ now \in 0..MaxTime

(***************************************************************************)
(* Properties                                                              *)
(***************************************************************************)
\* However refreshes, listings, page views and the other regions' writes
\* overlap, once AWS is left alone the hash ends up with what AWS says of
\* every role that is synced.
CacheCatchesUp ==
    \A r \in Allowed : <>[](aws[r] # None => redis[r].val = aws[r])

\* A role deleted in AWS does not stay in the hash, though neither the
\* consumer nor a forced refresh removes it and page views copy the old
\* item of the table back.
DeletedRoleLeaves ==
    \A r \in Roles : <>[](aws[r] = None => ~Present(redis[r]))

\* An expired temporary policy goes, though the task that removes it fails.
TempPoliciesGo ==
    \A r \in Allowed : active => <>(r \notin temp \/ aws[r] = None)

\* The listing waits for subtasks that need other workers: it ends.
ListingEnds ==
    \A w \in Workers : (task[w].kind = "across") ~> (task[w].kind # "across")
=============================================================================
