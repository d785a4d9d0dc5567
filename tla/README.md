# ConsoleMe in TLA+

ConsoleMe is a web service (Tornado) and a set of background tasks (Celery) that
let people obtain AWS credentials, ask for changes to IAM policies, and let
administrators apply them. Its state lives in DynamoDB tables, Redis hashes and
S3 objects that several web processes and Celery workers read and write without
locks. This directory models that state, the handlers and tasks that change it,
and the ways their steps can interleave and fail.

## Inventory

| Component | State | Operations | What is hard | What makes it correct |
|---|---|---|---|---|
| Policy requests (`lib/v2/requests.py`, `handlers/v2/requests.py`) | an item of `policy_requests` per request: status, reviewer, comments, and per change its status and policy document | POST creates, with admin and probe approval; PUT runs one of eight commands; GET refreshes and may write back | every handler reads the item once, awaits AWS, and puts its copy back whole: no version, no condition. Writes that fail are swallowed; AWS and the record can part | the record says what AWS was changed for; a closed request changed nothing; applied changes are history; changes are made once, by entitled calls |
| Group access requests (`lib/dynamo.py`, `lib/requests.py`) | `consoleme_requests_global` items, a list of ids in each user item, a 120 s list cache | `add_request`, `change_request_status`, `change_request_status_by_id` | check then act, two puts per submission | one pending request per user and group; the user item lists exactly the requests |
| Challenge URL login (`handlers/v2/challenge.py`) | a Redis hash of tokens: ttl, ip, user, status, visited, nonce | generate, view, approve, poll | each Redis call is a step of its own; entries are written back whole; expiry | a token is redeemed once, after an approval by its user, from its address, before it expires |
| Result cache (`lib/cache.py`) | a Redis value, its time in another hash, an S3 object | store, retrieve with `max_age` and S3 fallback | three writes per store, readers that write | data is never served older than `max_age`; newer data is not replaced by older |
| Redis wrapper (`lib/redis.py`) | Redis and an S3 copy per key | `set`, `hset`, `hmset`, `hget`, `redis_hsetex`, `redis_hgetex` | copies are changed by read-modify-write in threads | the copy holds what was written |
| IAM role cache (`plugins/aws/aws.py`, `celery_tasks.py`) | an entry per role in Redis, DynamoDB and S3, with a ttl | `fetch_iam_role`, caching per account and across accounts, `clear_old_redis_iam_cache` | refreshes race; entries expire; deleted roles | an entry is refreshed after a change; an expired one is not served |
| Celery tasks (`celery_tasks.py`) | active tasks | `is_task_already_running`, fan-out to accounts, retries | check then act | one run at a time, no refresh missed |
| Credential authorization mapping | the mapping and the reverse mapping in Redis and S3 | regenerate both | two stores, one derived from the other | the two agree; a role change reaches both |
| Event bridge consumers (`lib/event_bridge/`) | an SQS queue, the set of roles of a run, the denies table | receive, decode, act, delete | messages are redelivered; deletion and effect are two steps | no event is lost, counts are right |
| Configuration (`config/config.py`) | the process's dictionary, Redis, a DynamoDB row | reload threads, update handler | threads replace the dictionary | a stored dynamic configuration takes effect and stays |
| Web sessions and credentials (`handlers/base.py`, `handlers/v1/credentials.py`) | the groups of a user in cookies, two Redis entries, challenges | authenticate, authorize, give credentials, log in and out | each store is filled from another, each with its own lifetime | a membership taken away is gone from all in the end |
| Users and groups (`lib/dynamo.py`, `lib/google.py`, `handlers/v2/user.py`) | users and audit items, members at Google | register, manage, add and remove members | whole items put back; a directory and a log | the log says what was done; nothing is lost |
| AWS resource caches (`celery_tasks.py`, `lib/aws_config/`, `lib/account_indexers/`) | a Redis hash per kind and region, S3 objects | fan-out, list, join, combine, copy, sweep | regions that refuse, subtasks that fail, pages that restore | the policies table shows what exists |
| Notifications (`lib/v2/notifications.py`, `lib/cloudtrail.py`) | DynamoDB table, Redis/S3 copy | create, mark read, cache | stale copies | what a user marked stays marked |
| Roles (`handlers/v2/roles.py`, `lib/aws.py`) | AWS only | create, clone, delete | best-effort sequences | the report lists what was done |

Components without protocols of their own (identity providers, read-only pages,
mail and Slack, the user interface, the deployment code) are listed with their reasons under "components" in
`PROJECT.json`. Every behaviour that is hard to test is listed there under
"hazards", at its line.

## Modules

| Module | Models |
|---|---|
| `RequestLifecycle` | what a policy request promises: the life of its status and of its changes, each decision one atomic step |
| `PolicyRequest` | one policy request and every handler call on it, one action per step between two awaits |
| `PolicyRequestProofs` | theorems about it, for every value of the constants |
| `ChallengeAuth` | challenge URL login: tokens in Redis, browsers, polling clients, one action per Redis call |
| `ChallengeAuthProofs` | theorems about it, for every value of the constants |
| `RoleCache` | IAM roles in AWS, DynamoDB and Redis: page views, refreshes, the listing of accounts, the sweep, the queue of role changes |
| `AuthorizationMapping` | the Celery task that makes the mapping and its reverse, its guard, and the web process that reads them |
| `AuthorizationMappingProofs` | theorems about it, for every value of the constants |
| `UserSession` | from the groups of a user, through cookies, caches and challenges, to credentials |
| `UserSessionProofs` | theorems about it, for every value of the constants |
| `PrincipalLifecycle` | creating, cloning, updating and deleting roles, deleting users, one action per AWS call |
| `PrincipalLifecycleProofs` | theorems about it, for every value of the constants |
| `GroupAccess` | users, their requests for groups, members of Google groups and the audit log, one action per call to DynamoDB or Google |
| `GroupAccessProofs` | theorems about it, for every value of the constants |
| `ResourceCache` | the tasks that list queues, topics, buckets, managed policies, AWS Config resources, SCPs and organizations, in an active and a passive region |
| `ResourceCacheProofs` | theorems about it, for every value of the constants |
| `DenialNotices` | CloudTrail denials from the queue to the notifications a user sees and marks |
| `DenialNoticesProofs` | theorems about it, for every value of the constants |
| `MC...` | instances of each for TLC |

`PolicyRequest` is shown to implement `RequestLifecycle` by a refinement mapping,
for calls that do not overlap and writes that do not fail.
The other modules meet at one store each and have of their neighbour what it
leaves there: `AuthorizationMapping` has of `RoleCache` that tags change,
`UserSession` has of `AuthorizationMapping` a stored mapping that changes and a
copy that ages, and of `ChallengeAuth` an answered challenge.

### PolicyRequest

*State.* `stored` is the item (`ExtendedRequestModel`), `aged` whether its
`last_updated` is more than a day old. `call[s]` is a handler call in flight:
`pc` says which access to DynamoDB or AWS it makes next, `copy` is its
`extended_request`, `failed` is `response.errors > 0`. `sent` and `uses` stand
for AWS: which documents it accepted per change and how often it was changed.

*Actions.* A PUT command is one action from the read of the item to its first
await (`AddComment` ... `ApproveRequest`: authorization, the guard on closed
requests, the branch of `parse_and_apply_policy_request_modification`). Then come
the AWS call (`AwsAccepts`, `AwsRefuses`, `AwsDoesHalf`, `AwsReplyLost`), the
forced refresh of the role (`RefreshRole`), the write by
`_update_dynamo_with_change` (`WriteChange`), the re-evaluation by
`maybe_approve_reject_request` (`MaybeApproveReject`), and the answer (`Reply`).
POST is `CreateRequest`, `CreateWrite`, then `ApplyNext` and the same apply steps
per change, then `ApplyDone` and `CreateFinalWrite`. GET is `ViewRequest`,
`Populate` and `ViewWrite`, once or twice. `AwsReadFails` is an exception nobody
below the web framework catches, `ProcessDies` a crash at any await.

*Abstractions.* A guard that raises before anything changed is an action that is
not enabled. The change types are grouped by how they are applied (`Kinds`); the
`inline` kind stands for `assume_role_policy` too. Documents are a small set of
values. Comments are the numbers of the calls that added them. The `old_policy`
fields, which no decision reads except whether the view must write, are left out;
what a view reads from AWS is any value. The item is addressed by one id, and no
two calls create it.

*Bounds.* `MaxCalls` bounds the handler calls of a behaviour; nothing else is
unbounded. Two changes of different kinds are needed for a request that is half
applied, and are enough for every branch of the re-evaluation: some applied, some
outstanding, all cancelled. Two documents tell an overwritten one from its
original. One administrator and one other user cover every authorization. Four
calls in sequence reach create, apply, cancel, move back and view; three calls of
which two overlap reach every pair of racing handlers after a creation.

*Fairness.* `FairSpec` assumes that a call in flight goes on (`WF` of `Progress`
per session): the event loop resumes a coroutine whose await has completed, and
every AWS and DynamoDB client has a timeout. It assumes nothing of AWS, which may
refuse every call, and nothing of clients.

### ChallengeAuth

*State.* `entry` is the Redis hash, `late` the tokens whose ttl has passed.
`call[s]` is a handler call in flight with the entry it read (`copy`). Three
variables are books kept for the properties, of what has left the service:
`shown` (nonces on pages with an approve button), `approvals` (who was told that
they have authenticated) and `answers` (polls answered with a JWT); `asked`
records what each token was generated for.

*Actions.* `Generate` is the generator's one `hset`. A page view (`View`) and a
press of the button (`Approve`) begin alike (`Start`: `hgetall`, expired tokens
picked), delete what had expired (`Purge`), read and check the entry (`Retrieve`,
with `Accepts` for the checks of `get` and `post`), and write it back whole
(`WriteView`, `WriteApproval`). A poll is `Poll`, its `hget` and checks, and `Drop`,
which deletes the entry and answers. `Expires` is the clock, `Dies` a crash or a
Redis call that ends the handler.

*What interleaves.* Within one web process the Redis calls block, so a view or an
approval runs through without a break; only a poll is left in the middle, where
`generate_jwt_token` awaits a thread. A deployment runs several replicas
(`replicaCount` of the Helm chart), and there every Redis call is a step of its
own. (`HTTPServer.start()` with no argument runs the server in the process
itself, whatever the comment beside it says.)

*Abstractions.* A nonce is the number of the call that made it. Groups travel with
the user. Polls and calls that end without changing anything are not actions. A
token is generated once; a new attempt is another token. The optional S3 backup
of the Redis wrapper, which is off by default, is left to a module of its own.

*Bounds.* `MaxCalls` bounds the calls of browsers; polls are bounded by the tokens.
In `ch_serial` two tokens and two users cover a nonce of one page posted for
another token and a token opened by the wrong user; four calls are a view and an
approval of each. In `ch_concurrent` one token is enough, since no step but
`Purge` relates tokens; four calls are two racing views and two racing approvals.

*Fairness.* `FairSpec` assumes that handlers in flight go on, and that the client of
a token keeps polling, as `ChallengePollerHandler` expects of it. It assumes
nothing of the user.

### RoleCache

*State.* `aws` is what AWS says of each role, `dynamo` the table all regions
share, `redis` the hash of the region that is followed (`active` or not), each
entry with its ttl; `queue` the messages of the region's queue; `temp` the roles
with an expired temporary policy; `now` the clock. `task[w]` is what a worker
does, with what it has read.

*Actions.* A fetch is `StartFetch` (a page view) or `StartRefresh` (the task sent
by the consumer), `FetchRedis`, `FetchDynamo`, `FetchAws`, `FetchPut`, `FetchSet`.
The listing of all accounts is `StartAcross` with the guard against a second run,
one `StartAccount` ... `AccountHset` per account, `AcrossJoin`, in other regions
`AcrossCopy`, then `AcrossRead`, `AcrossExpire`, `AcrossStore`. The sweep of old
entries is `ClearScan` and `ClearDrop`; the consumer of role changes is `Receive`,
`Delete`, `ReceiveNothing`, with undecodable messages (`Junk`) and redelivery.

*Abstractions.* Groups, users and managed policies of an account, temporary hashes
and S3 copies are left out, as is who owns a role. Other regions are one action
that puts AWS's answer in the table.

*Bounds and fairness.* A day and a half is one tick (`Ttl`), and so are the grace
of an hour and the six hours of the sweep, since only their order matters. One
role, two values, one change, two workers: the worker that lists and the one that
does everything else race in every order. Beat, SQS and the clock go on, and so
does a task begun.

### AuthorizationMapping

*State.* `redis` and `s3` hold the mapping and the reverse mapping, `task[w]` what
a Celery worker does, `queue` the runs waiting, `copy` and `fresh` what the web
process remembers, `reader[r]` its coroutines. A mapping is identified by what it
was made of: the versions of the roles' tags and of the configuration.

*Actions.* A run is `StartRun`, `AskRun` (the guard: no other run is active),
`ReadTags`, `ReadConfig`, then four writes: Redis and S3 of the mapping, Redis and
S3 of the reverse, which is made of the mapping in hand. `Abort` ends it anywhere.
A reader takes Redis or falls back to S3 and then puts what it found back
(`RetrieveFromRedis`, `CacheToRedis`).

*Abstractions.* The reply of `inspect active` is complete: it is in fact a
broadcast with a timeout, and a worker that answers late is not seen. Only the
active region is followed, which alone writes S3.

*Bounds and fairness.* One change of the tags and one of the configuration, one
loss of Redis, one run cut off, two workers and a reader: each pair of them
overlaps. Beat goes on, runs and readers go on.

### UserSession

*State.* `member` is what the identity provider says of the user's groups,
`granted` the stored mapping, `copy` a web process's copy of it; `cookie` the
cookie of the browser and of the command line, `cache` the two Redis entries of
the user (`USER-...-CONSOLE-True` and `-False`), `challenge` an answered
challenge, `request` the requests being served.

*Actions.* `BeginWithCookie` and `BeginWithClaims` (ALB), `CheckClaims`,
`Authorize` (groups from the cache, the cookie or the claims; eligible roles;
renewal of cache and cookie), then what was asked for: `AnswerChallenge`,
`GetCredentials` with the second factor before it, `ConsoleLogin`. Login, log-out
and the poll of a challenge move cookies.

*Abstractions.* Tokens and signatures are valid, one user, no application
certificates. The modes checked are the documented ones: login at ConsoleMe with
the cookie, and authentication at the load balancer without it.

*Bounds and fairness.* One group and one role, two changes (taken away and given
back), two requests at a time. What has begun ends and what expires expires;
nobody need ask for anything.

### PrincipalLifecycle

*State.* `parts` of each principal, `profile` of each role, `job[q]` the operation
of a request with what it listed, what is left, and whether its report holds an
error. *Actions.* One per AWS call, `Refused` for a call AWS refuses, with the
three ways the code takes it: recorded and gone on, recorded and quiet, or ended.

*Abstractions.* Trust policy, description and tags are given to the call that
creates the role. An action that lists takes what is there at that moment, so
every other request may act between listing and use.

*Bounds.* Two requests, two roles, a user, two managed policies, an inline policy
and a key: a clone of a role that another request deletes, updates or recreates.

### GroupAccess

*State.* `users` and `requests` are tables of whole items, `members` Google's
groups, `log` the audit entries, `job[c]` a call with its copy of the user item.
*Actions.* A submission is `StartAddRequest`, `GetOrCreateUser`, `CreateMissingUser`,
`Resolve`, `PutRequest`, `PutUser`; decisions are `ChooseRequests` or `ChooseById`
and a `PutStatus` per request; members are `CheckNewMember`, `ListMembers`,
`InsertMember` or `DeleteMember`, `WriteLog`; users `StartRegister`, `StartManage`,
`LookUp`, `WriteUser`. `Refused` is a call that fails, with what the code makes of it.

*Abstractions.* Who may do what is a choice made before the call has done anything.
Login, its failure counter, the 120-second list of requests, signatures and
timestamps are left out.

*Bounds.* Two calls, in any order and overlapping, from every consistent state of
the tables with three request ids (one of them unused), two groups, one refusal.

### ResourceCache

*State.* `aws`, `members` (the accounts of the organization); per site `known`
(its list of accounts), `hash` (its Redis) and `run`, `sub`, `listing` of its
task; in S3 `combined` (all accounts) and `file` (per account); `reader` is a page
that restores what it found missing. `PoliciesTable` is the table users see.

*Actions.* `FanOut` starts the subtasks, which list in one call or region by
region (`Answered`: regions that refuse are skipped) or fail; `Joined`,
`JoinFails`, `JoinTimesOut`; `StoreCombined`, for AWS Config `SweepAndStoreCombined`;
a passive site copies (`CopyCombined`). SCPs and the organization structure are
listed by the task or by a page (`ListOrganizations`, `ListingRefused`,
`StoreListing`, `ListForPage`, `GetAllScps`, `GetOrgStructure`).

*Abstractions.* One kind of resource per behaviour, chosen in `Init`: kinds meet
only in the table, their union. An `hset` goes with the listing before it, a
`put_object` with the `hgetall` before it; the refresh of the account mapping and
the passive copy are one step each. Celery's retries of a subtask are its eventual
success or failure, and a new run waits for left-over subtasks. A ttl is reached
only by a resource that is gone, since a standing one is stored again each hour.
The SCPs' `max_age` of a day is left out, since they are stored every hour; each
organization's listing is one step.

*Bounds and fairness.* Two accounts, two regions in one of them, one change in AWS,
one request that AWS refuses. Beat, workers and readers go on; `Expire` comes.

### DenialNotices

*State.* `msg` where each message is and `kind` what it reports; `table` the count
of each denial; `run[c]` the consumers with their snapshot of the table; `notes`
the notification table, `cache` the Redis hash by user or group; `pc`, `seen`,
`job` of the hourly task, the caching task and the calls of users.

*Actions.* A consumer is `CollectorStart`, `CollectorDelete`, `CollectorWrite`,
`CollectorReceive`, `CollectorEnd`, with the limit of messages and the task it then
sends; `Return` is a visibility timeout. The hourly task is `ErrorsStart`,
`ErrorsProcess`, `ErrorsPut`, `ErrorsStore`; the caching task `CacherStart`,
`CacheScan`, `CacheExpire`, `CacheStore`; a PUT is `CallStart`, then per named
notification `CallFetch` and `CallPut`, then the same caching steps and
`CallReply`. Failures end each of them.

*Abstractions.* Parallel scans and batch writes are one step, a first receive goes
with the scan. Tallies of errors, the contents of notifications, the limit of five
on a page, the S3 copy, and the 20-second copy in each process are left out. A
notification lapses only when no denial of it is in the table.

*Bounds and fairness.* The initial states are scenes (`MCScenes`): two overlapping
consumers with every pair of messages, or a consumer with a user's call on
notifications of one or two owners, and one mishap among redelivery, expiry and
failure. Tasks go on and the schedule comes again. `StandingDenialsAreShown` has
the premise that the tasks come to rest again and again, and says so.

## Runs

| Run | Instance | Shows |
|---|---|---|
| `pr_serial` | one call at a time, only AWS refuses, four calls | with no overlap the record and AWS agree (`RecordMatchesAws`), a reply leaves nothing to settle, what AWS was changed for gets recorded, and the request implements `RequestLifecycle` |
| `pr_faulty` | one call at a time, all faults, kinds `managed_policy` and `foreign_tag` | a reply without errors means the item is stored (`CleanReplyMeansStored`), the record of an applied change survives crashes and failed writes |
| `pr_concurrent` | two calls interleaved, writes fail, replies are lost | the properties that hold of every copy under any interleaving |
| `ch_serial` | two tokens, one handler call at a time | a token is answered once, an answered token stays gone, the button of a page that was shown works, and an approval reaches its client |
| `ch_concurrent` | one token, two calls interleaved at every Redis call, lost writes, crashes | who may be answered with a JWT, under any interleaving |
| `rc_sync` | one role, both kinds of region | the hash catches up with AWS, a deleted role leaves it, temporary policies go, the listing ends |
| `am_refresh` | two workers, one reader | refreshes do not overlap, the two mappings agree, both and the web process's copies catch up |
| `us_sessions` | one group, two requests | what is kept of memberships, and the roles worked out from them, is right in the end, and credentials are for granted roles |
| `pl_lifecycle` | two requests on two roles and a user | no unreported orphan, a clean clone is complete, a deletion left alone succeeds |
| `ga_calls` | two calls, every consistent table | the list of a user names requests that exist, the log is true, no second pending request when calls do not overlap, nothing is lost by a call on its own, replies are true |
| `rs_tables` | each kind, two sites | what is published is complete, standing resources stay in the table, the tables catch up |
| `dn_notices` | the scenes above | counts are backed by messages, no denial is lost, settings survive, the reply agrees with the table, standing denials are shown |

`pr_serial` uses kinds that AWS changes in one call. A tag rename takes two calls
and can be half done (`AwsDoesHalf`), so `RecordMatchesAws` would not hold of it:
the change stays `not_applied` while AWS has both keys. `pr_faulty` covers it.
Deadlock is checked in `rs_tables` and `dn_notices`; elsewhere a behaviour ends when
the bounded calls are used up.

Every property has a mutated definition next to the one it replaces (the operators
commented "Mutant", or named for the bug) that makes the run find it violated: a
dropped guard, a forgotten write, a swallowed error.

## Theorems

### Any interleaving

`PolicyRequestProofs` proves, for any changes, kinds, documents, users, sessions,
faults and number of calls allowed by `ConstantsOK`:

* `TypeCorrect`: `Spec => []TypeOK`;
* `CopiesCorrect`: `Spec => []CopiesInv`, the inductive invariant;
* `AppliedDocumentsAreReal`: a change shown as applied, in the item or in the
  memory of any call, carries a document AWS accepted for it;
* `ClosedItemsAreClean`: no copy is rejected or cancelled with a change applied;
* `AwsChangesAreEntitled`: AWS is changed only by a call that read the request
  open and is an administrator's or approved by a probe.

*The argument.* The handlers are full of lost updates, so nothing that relates the
item to other calls survives. What survives is what a single copy says about
itself, because the item is read and written whole: each step takes a good copy
to a good copy, and AWS forgets nothing (`sent` only grows). `Good` says that the
documents of applied changes were sent and that a closed request has no applied
change. It is not inductive alone: `MaybeApproveReject` could cancel the request
of a submission and go on applying it, and an apply could start from a closed
copy. `Entitled` adds what a call standing before AWS knows: its copy is open,
its command applies changes, its user may; and a submission has no cancelled
change, so it is never settled as cancelled. `StepKeepsCopies` and
`ReceiveKeepsCopies` reduce each action to its own copy.

`ChallengeAuthProofs` proves, for any tokens, users, addresses, calls in flight
and faults allowed by `ChallengeConstants`:

* `ChallengeCorrect`: `Spec => []ChallengeInv`, the inductive invariant;
* `ChallengeTypeCorrect`: `Spec => []TypeOK`;
* `AnswersFollowApproval`: an answered token was approved on a page of it, by the
  user it was asked for, from the client's address where that is asked for;
* `AnswersReachTheAsker`: a JWT goes to the address that asked, for the user named.

*The argument.* Entries are overwritten by stale copies, so the current entry
cannot be trusted to be the latest; but no handler makes anything up. `Faithful`
says of every copy of an entry, in Redis or in a handler, that its user and
address are those of the client that asked, that its nonce was put on a page, and
that it is a success only if its user approved. What it refers to (`asked`,
`shown`, `approvals`) only grows, so a stale copy is as faithful as a fresh one
(`FaithfulStays`). `Checked` carries the checks from the read to the write: the
approval is written with the user and address that were compared. `StepKeepsInv`
reduces each action to what it writes.

`AuthorizationMappingProofs` proves, for any numbers of workers, readers, changes,
losses and aborts:

* `MappingTypeCorrect`: `Spec => []TypeOK`;
* `RunsAreAlone`: `Spec => []OneAtATime`;
* `MappingCorrect`: `Spec => []MappingInv`, the inductive invariant;
* `MappingsAgree`: `Spec => []ReverseAgrees`.

*The argument.* A run goes past the guard only when every other worker is idle, so a
run past it is alone (`StepOneAtATime`); of two that start together none or one goes
on. `ReverseAgrees` is not inductive: it says nothing of a run between the writes of
the mapping and of the reverse. `StoredStays` says that an undisturbed run finds
what it has stored, `RunsAreWhole` that since the last disturbance every run is
undisturbed, and `Apart` that only the run between the two writes sets them apart.
Disturbances (a run cut off, Redis losing its data, a reader putting back what it
read) clear `whole` for all and set `torn`, which only a complete run on its own
clears. `StepMapping` goes through the actions of a run one by one, since each
moves one of the four stores; the theorem rests on the complete reply of the guard.

### Without overlap

Several properties are lost when handler calls race (see the disagreements below), and
hold when they do not. `OneCallAtATime` says that there is one slot for calls; it is
the hypothesis of the following theorems, which hold for any number of calls after
one another, and each of which says which failures it survives.

`PolicyRequestProofs`:

* `SerialCorrect`: `Spec => [](CopiesInv /\ SerialInv)`, the inductive invariant;
* `CleanRepliesAreStored`, `AppliedRecordsStay`: whatever fails;
* `RepliesLeaveNothingToSettle`: as long as no write to DynamoDB fails;
* `LifecycleImplemented`: `Spec => FollowsLifecycle`, the refinement of
  `RequestLifecycle`, as long as no write fails;
* `RecordsMatchAws`: when nothing fails but what AWS refuses, and no change takes two
  AWS calls (`NothingFails`).

*The argument.* The item is what the call in flight has written; what must be known is
how its copy differs from the item, at each await. There are three layers. `Holds`
survives every failure: the copy keeps the record of applied changes, and a command
that has seen no error holds what is stored or has yet to write it. `Lives` needs
writes not to fail: before its write the copy is one step of the lifecycle away from
the item (`Written`: one change decided, or the request disposed of or reopened), and
the same everywhere else; in the loop over a submission the changes left are
untouched. `Mirrors` needs that nothing fails: the copy says of each change whether
AWS was changed for it. `Sound` puts them together. `GoodStep` is the same question
for every action: the item moves only as the lifecycle allows (`Moves`) and the call
stays sound; `MovesAreLifecycleSteps` maps such a move to the action of
`RequestLifecycle` that takes it, or to a stutter.

`ChallengeAuthProofs`: `AnswersCorrect` (the invariant), `AnsweredOnceAlone` and
`AnsweredStaysGoneAlone`, whatever is lost and whoever dies, and `ShownPagesWork`, as
long as no write to Redis is lost. `AnswersInv` says that the copy of an entry in a
handler is the entry in Redis until the handler writes, so none can put back an
answered token; `PagesInv` that the nonce last put on a page is the one stored.

### Groups, roles, resources, denials

`GroupAccessProofs` proves, for any users, groups, ids and calls in flight:

* `Invariant`: `Spec => []Inv`, and from it `TypeCorrect`, `ListedRequestsExistAlways`,
  `AuditLogIsTrueAlways`, under any interleaving and refusal;
* `NoSecondRequestEver`, `AloneNothingIsLostEver`, `RepliesAreTrueAlways`: of calls
  that no other has disturbed, in a system where others do overlap.

*The argument.* Requests are never deleted, and an id is added to a list only after
its request was put: a stale user item may lose ids but names no missing one
(`Holds`). Which entries the log has follows from where each call stands. For the rest
`Knows` says what a call knows of the tables as long as it is `alone`: the item it will
put back is the stored one, the member it will report was inserted. Each step either
is the call's own or takes `alone` from it.

`PrincipalLifecycleProofs` proves, for any roles, users, policies, requests and
refusals: `Invariant`, `TypeCorrect`, `OrphansAreReportedAlways`,
`CleanCloneIsCompleteAlways`, `RoleDeleteSucceedsAlways`. *The argument.* For an empty
profile there is always someone who answers: the call that will fill or delete it, or
one that has an error to report (`Answers`); a refusal in between is recorded before
the call goes on. What a clone has put or still has to put covers what its source had
throughout (`Copies`); a deletion that nothing overlaps has stripped the role of what
the earlier stages list (`Deletes`). It assumes that role and user names differ.

`ResourceCacheProofs` proves, for any accounts, regions, changes and refusals:
`Invariant`, `TypeCorrect`, `PublishedIsCompleteAlways`, `StandingResourcesStayAlways`.
*The argument.* While nothing is taken out of AWS (`calm`) every cache holds only what
stands, live (`StandingInv`), so the sweep of expired entries finds none of it. A
subtask that is done has stored its account (`ListedInv`), so what is joined is
complete. That no copy goes backwards needs an order of the stores (`CopiesInv`): what
the active site holds contains what it published, and that what the passive site has.

`DenialNoticesProofs` proves, for any messages, denials, people, consumers and calls:
`TypeCorrect`, `NoticesGoToTheConcerned` (only the owner of a role and the users of
its sessions are told, whoever puts, renews or caches), `CountsAreBackedAlways`,
`NoDenialIsLostAlways`, `SettingsSurviveAlways`, `ReplyAgreesAlways`. *The argument.*
`CountsInv`: no snapshot and no item exceeds what was received, which only grows, so a
run that overwrites newer counts makes none up. `LossInv`: a run about to delete has
counted. `SettingsInv`: a copy in hand has the settings of the table, or those with
the toggle of the call, but for the notifications set meanwhile (`since`). `AloneInv`
follows a call through put, scan and cache while no other process writes.

### From memberships to credentials

The properties of `UserSession` are about what happens in the end. `UserSessionProofs`
proves what they rest on, for any groups, roles, requests, modes and changes:

* `SessionsCorrect`: `Spec => []SessionsInv`, and `TypeCorrect`;
* `OnceRightStaysRight`: in every mode, from a moment on at which what is kept of
  groups and roles is right and neither changes, it stays right, and only granted
  roles are given out. `us_sessions` shows that the moment comes;
* `StoresComeRightInOrder`: where no store feeds one that feeds it (`OneWay`), the ten
  stores of a membership are ordered, and one that is right with those before it
  stays so, whatever is asked for: each has to expire only once.

*The argument.* `Flows` says of every step which store is filled from which, and
`NextStep` proves it of each action; both theorems follow from it alone. `RightTo(n)` is
the order: login, the browser's cookie, requests not served from the cache, the
browser's cache, its requests, the challenge, and the same of the command line. A mode
that is not `OneWay` (load balancer with cookie, or `cliLists`) has a cycle.

### Only model-checked

* Liveness (`AppliedGetsRecorded`, `ApprovalReachesClient`, `MappingsCatchUp`,
  `CachesCatchUp`, `MembershipsCatchUp`, `OnlyGrantedRoles`, `StandingDenialsAreShown`
  and all properties of `RoleCache`): fairness and `ENABLED` are out of the prover's
  reach. Every safety property that a run checks is also a theorem.
* `RoleCache` has no theorems: it states no safety property, because its stores
  disagree at any time and agree only in the end.

## Disagreements between the code and what it says

Met while modelling, each shown by TLC or plain in the source. The properties above
are stated for the code as it is: where one of these stands in the way, the property
or the instance excludes it, and says so.

Policy requests:
* `reject_request` says "Request cannot be rejected because at least one change has
  been applied already" and decides on the copy it read at the start: with an apply
  in flight the request ends rejected with AWS changed. (`lib/v2/requests.py:2726`)
* A page view writes the request it read before its awaits; applied changes go back
  to `not_applied`, though `populate_cross_account_resource_policy_for_change` means
  to keep "historical records". (`handlers/v2/requests.py:654`, `lib/v2/requests.py:1479`)
* The forced refresh of a role raises between the AWS call and the write of the
  applied status: the change can be made again. (`lib/v2/requests.py:2629`, against 905)
* "Successfully moved request back to pending" is undone at once by the
  re-evaluation when all changes are cancelled. (`lib/v2/requests.py:2747`)
* The errors of all but the last change of an approved submission are overwritten.
  (`handlers/v2/requests.py:421`, against 214)
* The branch that is to refuse `admin_auto_approve` to others tests a one-element
  tuple and is never taken; `apply_change` still keeps AWS unchanged.

Challenges: two polls can both be answered (`handlers/v2/challenge.py:325`), an
approval can be undone by a page load that read before it (`challenge.py:162`),
a lost connection in `ConsoleMeRedis.hset` is reported as success.

Roles and resources:
* An entry is served for 37 hours where the comment says "less than an hour old".
  (`default_plugins/plugins/aws/aws.py:334`)
* Where AWS Config finds nothing, the S3 object of the account is not written
  (`celery_tasks.py:1723`): in a passive region that subtask fails, the parent ends
  before it drops expired entries, and the last resources of an account stay.
* "always going to be caching the results from the previous task" (`celery_tasks.py:1817`),
  while by default the task waits for its subtasks.
* Readers of bucket names use `redis.s3_bucket_key` (`celery_tasks.py:631`,
  `handlers/v1/policies.py:111`), writers `redis.s3_buckets_key`; for topics a key with
  a trailing space is read (`handlers/v1/policies.py:125`). The defaults agree.
* `cache_policies_table_details` counts `all_iam_roles` also when `skip_iam_roles` left
  it unbound; `cache_org_structure` finds `role_to_assume` and does not pass it;
  `simulate_iam_principal_action` reads under one key and writes under another.
* Fields of accounts that left the organization are never removed.

Sessions: with ALB authentication and `auth.set_auth_cookie` together, the cookie and
the headers feed each other, so that groups outlive a change; the CLI's `get_roles`
without `all=true` fills the cache entry the browser loads; the default `iat` and
`nbf` of `generate_jwt_token` are computed at import (`lib/jwt.py:21`).

Principals: `delete_iam_user` detaches policies with the user object in place of its
name (`lib/aws.py:759`), so a user with managed policies cannot be deleted; a clone
replies 500 although the role was created; its trust policy has no default although
the docstring names one (`lib/aws.py:1074`, 1101); a deletion retried after a failed
deletion of the profile leaves an orphan profile; `update_role` returns inside the
loop after the first event; a deletion by name strips a role recreated meanwhile.

Groups and users: any `HttpError` of Google is answered with "ADDED"
(`lib/google.py:533`); members are read from the first page only; `@retry` on `async`
functions never retries; whole-item puts that overlap lose request ids, bring a
deleted user back or an old password; `update_user` cannot clear groups;
`change_request_status` decides every request of the user for the group, and can
make two pending; a failed log write leaves a member without an entry.

Denials and notifications: `hidden_for_all` hides nothing (`lib/notifications/models.py:85`);
a notification stays up to 48 hours, not 24; a denial without a generated policy ends
the run for all (`lib/cloudtrail.py:107`); the `errors` of a PUT are never returned;
messages that cannot be read or are a day old are never deleted; messages are deleted
before the table is written, so a crash between loses their denials; overlapping runs
lose counts; a retried toggle flips back; a batch received at the limit is dropped and
comes back; two denials of an owner's new notification in one run lose all but the
last session's user until the next; the hash written by the hourly run hides other
notifications of its users until `cache_notifications` has run.

## Plan

Done: `PolicyRequest`, `ChallengeAuth`, `RoleCache`, `AuthorizationMapping`,
`UserSession`, `PrincipalLifecycle`, `GroupAccess`, `ResourceCache`, `DenialNotices`,
and a theorem for every safety property.
Next, in this order:

1. `PolicyRequest` when calls overlap: which pairs of commands keep the record of an
   applied change, as a theorem about `Commands` in place of `OneCallAtATime`.
2. What the other liveness properties rest on, as in `UserSessionProofs`: a mapping, or
   a cached role, that agrees with its source stays so while the source does.
3. Modules: `DynamicConfig` (reload threads), `RedisBackup` (the S3 copy of a hash and
   what restoring from it does to `ChallengeAuth`), the cached list of requests.

## Not modelled

* Configuration reload, the Redis wrapper's S3 backup (off by default), the cached
  list of policy requests: see the plan.
* Change generation (`lib/change_request.py`): a pure function of templates.
* Templated resources (Git checkouts and pull requests), identity providers and
  cryptography, mail and Slack, metrics, read-only pages: I/O without protocols.
* The web user interface and the deployment code.
