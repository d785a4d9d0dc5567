----------------------- MODULE AuthorizationMapping -----------------------
(***************************************************************************)
(* Which user or group may have credentials of which role.                 *)
(*                                                                         *)
(* The Celery task cache_credential_authorization_mapping makes a mapping  *)
(* of the tags of the cached roles and of the group mapping of the dynamic *)
(* configuration, and from it the reverse mapping, and stores each in      *)
(* Redis and then in S3 (lib/cache.py).  It runs every five minutes and    *)
(* after role changes, and gives up when another run is active.  A web     *)
(* process keeps each mapping for a minute (CredentialAuthorizationMapping *)
(* is a singleton that its coroutines share); it reads Redis and falls     *)
(* back to S3, and then writes what it found there back to Redis.          *)
(*                                                                         *)
(* A mapping is abstracted to what it was made of: how often the tags and  *)
(* the configuration had changed when the run read them.  The region is    *)
(* the active one, which is the one that writes to S3.                     *)
(***************************************************************************)
EXTENDS Integers

CONSTANTS
    Workers,    \* Celery worker processes
    Readers,    \* coroutines of one web process
    Asked,      \* the kinds of mapping they ask for
    MaxChanges, \* bound on the changes of the tags, and of the configuration
    MaxLosses,  \* bound on how often Redis loses its data
    MaxAborts,  \* bound on the runs that raise or lose their worker
    None        \* no mapping

ASSUME AuthorizationMappingConstants ==
    /\ Asked \subseteq {"map", "rev"}
    /\ {MaxChanges, MaxLosses, MaxAborts} \subseteq Nat

Mappings == [tags : 0..MaxChanges, conf : 0..MaxChanges]
Stored   == Mappings \cup {None}
Kinds    == {"map", "rev"}   \* the mapping, the reverse mapping

ASSUME NoneIsNoMapping == None \notin Mappings

VARIABLES
    tags,   \* how often the tags in the cache of roles have changed
    conf,   \* how often dynamic_config.group_mapping has changed
    redis,  \* [Kinds -> Stored]: CREDENTIAL_ and REVERSE_AUTHORIZATION_MAPPING_V1
    s3,     \* [Kinds -> Stored]: their copies in S3
    queue,  \* the tasks waiting for a worker
    task,   \* what each worker is doing
    copy,   \* [Kinds -> Stored]: what the web process remembers
    fresh,  \* the kinds of which it does so since less than a minute
    reader, \* what each coroutine is doing
    losses, aborts,
    torn    \* history: since a run was cut short, Redis lost its data or a
            \* reader put data back, no run has begun and ended undisturbed

sourceVars == <<tags, conf>>
taskVars   == <<queue, task, aborts>>
webVars    == <<copy, fresh, reader>>
vars == <<tags, conf, redis, s3, queue, task, copy, fresh, reader,
          losses, aborts, torn>>

Points == {"idle", "ask", "tags", "conf",
           "redis map", "s3 map", "redis rev", "s3 rev"}
NoRun   == [pc |-> "idle", tags |-> 0, conf |-> 0, whole |-> FALSE]
Resting == [kind |-> "map", got |-> None]
Current == [tags |-> tags, conf |-> conf]
\* (whole is history too: nothing has disturbed the run)
Disturbed == [w \in Workers |-> [task[w] EXCEPT !.whole = FALSE]]
MadeOf(t) == [tags |-> t.tags, conf |-> t.conf]

Init ==
    /\ tags = 0 /\ conf = 0
    /\ redis = [k \in Kinds |-> None]
    /\ s3 = [k \in Kinds |-> None]
    /\ queue = 0
    /\ task = [w \in Workers |-> NoRun]
    /\ copy = [k \in Kinds |-> None]
    /\ fresh = {}
    /\ reader = [r \in Readers |-> Resting]
    /\ losses = 0 /\ aborts = 0 /\ torn = FALSE

-----------------------------------------------------------------------------
(***************************************************************************)
(* The world.  A change of the tags comes with a role change, after which  *)
(* trigger_credential_mapping_refresh_from_role_changes asks for a run.    *)
(***************************************************************************)
TagsChange ==
    /\ tags < MaxChanges /\ tags' = tags + 1
    /\ queue' = queue + 1
    /\ UNCHANGED <<conf, redis, s3, task, aborts, webVars, losses, torn>>

ConfigChanges ==
    /\ conf < MaxChanges /\ conf' = conf + 1
    /\ UNCHANGED <<tags, redis, s3, taskVars, webVars, losses, torn>>

RedisLosesData ==
    /\ losses < MaxLosses /\ losses' = losses + 1
    /\ redis' = [k \in Kinds |-> None]
    /\ torn' = TRUE /\ task' = Disturbed
    /\ UNCHANGED <<sourceVars, s3, queue, aborts, webVars>>

\* The schedule adds a run every five minutes: long after the last one was
\* taken up and asked whether another is active, unless the queue is late.
Beat ==
    /\ queue = 0 /\ \A w \in Workers : task[w].pc # "ask"
    /\ queue' = 1
    /\ UNCHANGED <<sourceVars, redis, s3, task, aborts, webVars, losses, torn>>

-----------------------------------------------------------------------------
(***************************************************************************)
(* cache_credential_authorization_mapping.  A task is active, for those    *)
(* who ask, from before its first line to after its last.                  *)
(***************************************************************************)
Active(w)  == task[w].pc # "idle"
Working(w) == task[w].pc \notin {"idle", "ask"}

Goto(w, pc) == task' = [task EXCEPT ![w].pc = pc]

StartRun(w) ==
    /\ ~Active(w) /\ queue > 0
    /\ queue' = queue - 1
    /\ Goto(w, "ask")
    /\ UNCHANGED <<sourceVars, redis, s3, aborts, webVars, losses, torn>>

\* Mutant: a task that has not passed the guard yet does not count.
AlreadyRunningLate(w) == \E v \in Workers \ {w} : task[v].pc \in {"redis map", "s3 map"}
AlreadyRunning(w) == \E v \in Workers \ {w} : Active(v)

AskRun(w) ==
    /\ task[w].pc = "ask"
    /\ IF AlreadyRunning(w) THEN Goto(w, "idle") ELSE Goto(w, "tags")
    /\ UNCHANGED <<sourceVars, redis, s3, queue, aborts, webVars, losses, torn>>

ReadTags(w) ==
    /\ task[w].pc = "tags"
    /\ task' = [task EXCEPT ![w].pc = "conf", ![w].tags = tags, ![w].whole = TRUE]
    /\ UNCHANGED <<sourceVars, redis, s3, queue, aborts, webVars, losses, torn>>

\* Mutant: the configuration in memory is not loaded again.
ReadConfigOnce(w) ==
    /\ task[w].pc = "conf"
    /\ task' = [task EXCEPT ![w].pc = "redis map", ![w].conf = 0]
    /\ UNCHANGED <<sourceVars, redis, s3, queue, aborts, webVars, losses, torn>>
ReadConfig(w) ==
    /\ task[w].pc = "conf"
    /\ task' = [task EXCEPT ![w].pc = "redis map", ![w].conf = conf]
    /\ UNCHANGED <<sourceVars, redis, s3, queue, aborts, webVars, losses, torn>>

StoreRedis(w, k, from, to) ==
    /\ task[w].pc = from /\ Goto(w, to)
    /\ redis' = [redis EXCEPT ![k] = MadeOf(task[w])]
    /\ UNCHANGED <<sourceVars, s3, queue, aborts, webVars, losses, torn>>

StoreMap(w)   == StoreRedis(w, "map", "redis map", "s3 map")
StoreMapS3(w) ==
    /\ task[w].pc = "s3 map" /\ Goto(w, "redis rev")
    /\ s3' = [s3 EXCEPT !["map"] = MadeOf(task[w])]
    /\ UNCHANGED <<sourceVars, redis, queue, aborts, webVars, losses, torn>>

\* Mutant: the reverse mapping is made of the tags as they are now.
StoreReverseAnew(w) ==
    /\ task[w].pc = "redis rev" /\ Goto(w, "s3 rev")
    /\ redis' = [redis EXCEPT !["rev"] = [MadeOf(task[w]) EXCEPT !.tags = tags]]
    /\ UNCHANGED <<sourceVars, s3, queue, aborts, webVars, losses, torn>>
StoreReverse(w) == StoreRedis(w, "rev", "redis rev", "s3 rev")

StoreReverseS3(w) ==
    /\ task[w].pc = "s3 rev" /\ task' = [task EXCEPT ![w] = NoRun]
    /\ s3' = [s3 EXCEPT !["rev"] = MadeOf(task[w])]
    /\ torn' = (torn /\ ~task[w].whole)
    /\ UNCHANGED <<sourceVars, redis, queue, aborts, webVars, losses>>

\* The run raises, or its worker dies before it acknowledges the task: the
\* task is retried, or handed to another worker.
Abort(w) ==
    /\ Working(w) /\ aborts < MaxAborts
    /\ aborts' = aborts + 1
    /\ task' = [task EXCEPT ![w] = NoRun]
    /\ queue' = queue + 1
    /\ torn' = TRUE
    /\ UNCHANGED <<sourceVars, redis, s3, webVars, losses>>

-----------------------------------------------------------------------------
(***************************************************************************)
(* The web process: retrieve_credential_authorization_mapping, its twin of *)
(* the reverse mapping, and retrieve_json_data_from_redis_or_s3.  Reading  *)
(* Redis blocks the process; the body of the S3 object is awaited.  When   *)
(* neither has the mapping, the answer is an empty one and nothing changes.*)
(***************************************************************************)
Remember(k, m) == copy' = [copy EXCEPT ![k] = m] /\ fresh' = fresh \cup {k}
Outdated(k)    == copy[k] = None \/ k \notin fresh

RetrieveFromRedis(k) ==
    /\ Outdated(k) /\ redis[k] # None
    /\ Remember(k, redis[k])
    /\ UNCHANGED <<sourceVars, redis, s3, taskVars, reader, losses, torn>>

RetrieveFromS3(r, k) ==
    /\ reader[r] = Resting
    /\ Outdated(k) /\ redis[k] = None /\ s3[k] # None
    /\ reader' = [reader EXCEPT ![r] = [kind |-> k, got |-> s3[k]]]
    /\ UNCHANGED <<sourceVars, redis, s3, taskVars, copy, fresh, losses, torn>>

CacheToRedis(r) ==
    /\ reader[r] # Resting
    /\ redis' = [redis EXCEPT ![reader[r].kind] = reader[r].got]
    /\ Remember(reader[r].kind, reader[r].got)
    /\ reader' = [reader EXCEPT ![r] = Resting]
    /\ torn' = TRUE /\ task' = Disturbed
    /\ UNCHANGED <<sourceVars, s3, queue, aborts, losses>>

MinutePasses(k) ==
    /\ k \in fresh /\ fresh' = fresh \ {k}
    /\ UNCHANGED <<sourceVars, redis, s3, taskVars, copy, reader, losses, torn>>

-----------------------------------------------------------------------------
RunSteps(w) ==
    \/ StartRun(w) \/ AskRun(w) \/ ReadTags(w) \/ ReadConfig(w)
    \/ StoreMap(w) \/ StoreMapS3(w) \/ StoreReverse(w) \/ StoreReverseS3(w)
ReaderSteps(r) == CacheToRedis(r) \/ \E k \in Asked : RetrieveFromS3(r, k)

Next ==
    \/ TagsChange \/ ConfigChanges \/ RedisLosesData \/ Beat
    \/ \E w \in Workers : RunSteps(w) \/ Abort(w)
    \/ \E r \in Readers : ReaderSteps(r)
    \/ \E k \in Asked : RetrieveFromRedis(k) \/ MinutePasses(k)

Spec == Init /\ [][Next]_vars

(***************************************************************************)
(* The schedule goes on, workers take up tasks and carry them out, minutes *)
(* pass, and a coroutine that reads S3 gets its answer.  Nobody has to ask *)
(* for a mapping.                                                          *)
(***************************************************************************)
FairSpec ==
    /\ Spec
    /\ WF_vars(Beat)
    /\ \A w \in Workers : WF_vars(RunSteps(w))
    /\ \A r \in Readers : WF_vars(CacheToRedis(r))
    /\ \A k \in Asked : WF_vars(MinutePasses(k))

-----------------------------------------------------------------------------
TypeOK ==
    /\ tags \in 0..MaxChanges /\ conf \in 0..MaxChanges
    /\ redis \in [Kinds -> Stored] /\ s3 \in [Kinds -> Stored]
    /\ queue \in Nat
    /\ task \in [Workers -> [pc : Points, tags : 0..MaxChanges,
                            conf : 0..MaxChanges, whole : BOOLEAN]]
    /\ copy \in [Kinds -> Stored] /\ fresh \in SUBSET Kinds
    /\ reader \in [Readers -> [kind : Kinds, got : Stored]]
    /\ losses \in 0..MaxLosses /\ aborts \in 0..MaxAborts /\ torn \in BOOLEAN

\* The guard of the task asks which tasks are active and then goes on, which
\* is not one step: still, of two runs that start together at most one goes
\* on, so that refreshes never run in parallel (celery_tasks.py:2056-2058).
OneAtATime ==
    \A v, w \in Workers : Working(v) /\ Working(w) => v = w

\* The mapping that is enforced and the reverse mapping that auditors read
\* are four writes apart.  When no run is under way they are made of the
\* same tags and configuration, in Redis and in S3, unless a run was cut
\* short or a reader of S3 still writes to Redis.
ReverseAgrees ==
    ~torn /\ (\A w \in Workers : ~Working(w)) =>
        redis["rev"] = redis["map"] /\ s3["rev"] = s3["map"]

\* What makes it so, and inductive.  A run that nothing has disturbed finds
\* what it has stored still there (StoredStays); and since the last run that
\* nothing disturbed, runs have begun and gone on undisturbed (RunsAreWhole)
\* and only the run between the writes of the two leaves them apart (Apart).
Past(w, points) == task[w].pc \in points

StoredStays(w) ==
    task[w].whole =>
        /\ Past(w, {"s3 map", "redis rev", "s3 rev"}) => redis["map"] = MadeOf(task[w])
        /\ Past(w, {"redis rev", "s3 rev"}) => s3["map"] = MadeOf(task[w])
        /\ Past(w, {"s3 rev"}) => redis["rev"] = MadeOf(task[w])

RunsAreWhole(w) ==
    ~torn /\ Past(w, {"conf", "redis map", "s3 map", "redis rev", "s3 rev"}) => task[w].whole

Apart ==
    ~torn =>
        /\ (\A w \in Workers : ~Past(w, {"s3 map", "redis rev"})) => redis["rev"] = redis["map"]
        /\ (\A w \in Workers : ~Past(w, {"redis rev", "s3 rev"})) => s3["rev"] = s3["map"]

MappingInv ==
    /\ TypeOK /\ OneAtATime /\ Apart
    /\ \A w \in Workers : StoredStays(w) /\ RunsAreWhole(w)

\* Once tags and configuration no longer change, both mappings are made of
\* them, and what the web process answers from its memory is so too, though a
\* triggered run may have been skipped in favour of one that had read the
\* tags already, runs raise, and readers put old data back.
MappingsCatchUp ==
    <>[](\A k \in Kinds :
            /\ redis[k] = Current /\ s3[k] = Current
            /\ Outdated(k) \/ copy[k] = Current)
=============================================================================
