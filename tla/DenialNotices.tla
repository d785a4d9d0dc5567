---------------------------- MODULE DenialNotices ----------------------------
(***************************************************************************)
(* Access denials reported by CloudTrail and the notifications made from   *)
(* them: runs of cache_cloudtrail_denies, which move messages from an SQS  *)
(* queue to the denial table, cache_cloudtrail_errors_by_arn, which makes  *)
(* a notification of each denial, cache_notifications, which copies the    *)
(* notifications to a Redis hash with one field per user or group, and the *)
(* PUT calls by which users mark notifications read or hidden.             *)
(*                                                                         *)
(* Every table is written by putting whole items read earlier; nothing     *)
(* orders the tasks and calls but the check that keeps a second            *)
(* cache_cloudtrail_errors_by_arn from starting.                           *)
(***************************************************************************)
EXTENDS Naturals, FiniteSets, Sequences, FiniteSetsExt

CONSTANTS Collectors,   \* runs of cache_cloudtrail_denies that may overlap
          Messages,     \* messages of the queue
          Denials,      \* kinds of denial, as request_id tells them apart
          Drafted,      \* those with an error code a policy is generated for
          NoteOf,       \* the predictable_id each gives
          Owner,        \* the owner of its principal, or None
          Session,      \* the user its session is named after, or None
          Calls,        \* PUT calls
          Users,
          GroupsOf,     \* the groups of each user, a sequence
          Toggles,      \* the settings the calls toggle
          Errors,       \* the run of cache_cloudtrail_errors_by_arn
          Cacher,       \* the run of cache_notifications
          Scenes,       \* what the messages report, the runs and calls that take part, the
                        \* notifications a call names, and a bound on the mishaps: messages
                        \* that come back, items that expire and steps that fail
          None,
          Limit,        \* max_num_messages_to_process
          Batch         \* bound on the messages received together

AllToggles == {"read", "hidden"} \X {"own", "all"}

ASSUME DenialsAssumption == Drafted \subseteq Denials /\ Toggles \subseteq AllToggles
ASSUME BoundsAssumption ==
    Limit \in Nat \ {0} /\ Batch \in Nat \ {0} /\ IsFiniteSet(Messages)

Notes == {NoteOf[d] : d \in Denials}
Keys  == Users \cup UNION {{GroupsOf[u][i] : i \in DOMAIN GroupsOf[u]} : u \in Users}
Procs == Calls \cup {Errors, Cacher}

\* The two tasks are neither calls nor each other.
ASSUME ProcsAssumption == Errors # Cacher /\ Errors \notin Calls /\ Cacher \notin Calls
ASSUME ScenesAssumption ==
    Scenes \subseteq [reports : [Messages -> Denials \cup {"skipped", "broken"}],
                     cast : SUBSET (Collectors \cup Calls),
                     named : SUBSET Notes, mishaps : Nat]
\* Those concerned are users and groups that can be looked up.
ASSUME PeopleAssumption ==
    /\ Owner \in [Denials -> Keys \cup {None}] /\ Session \in [Denials -> Users \cup {None}]
    /\ GroupsOf \in [Users -> Seq(Keys)] /\ None \notin Keys

VARIABLES cast,       \* the runs of cache_cloudtrail_denies and the calls that take part
          kind,       \* what each message reports: a denial, or something skipped or broken
          msg,        \* where each message is
          table,      \* the count of each denial in the denial table, 0 without an item
          run,        \* the runs of cache_cloudtrail_denies
          notes,      \* the notification table
          cache,      \* ALL_NOTIFICATIONS: by user or group, the notifications copied
          pc, seen,   \* of the tasks and calls: the next step, the notifications read
          job,        \* of the calls: the user, the setting, the notifications left and toggled
          cacheDue,   \* cache_notifications has been sent to the workers
          mishaps,    \* the mishaps that may still happen
          delivered,  \* how often each denial has been received
          calm,       \* no item of the denial table has expired, no run has failed
          since,      \* notifications whose settings changed since the process read them
          alone       \* calls which nothing else that writes notifications has overlapped

queueVars == <<cast, kind, msg, table, run, delivered, calm>>
noteVars  == <<notes, cache, pc, seen, job, cacheDue, since, alone>>
vars      == <<queueVars, noteVars, mishaps>>

(***************************************************************************)
(* A notification: who it is for, its settings, and whether its expiration *)
(* is still ahead.  A setting is <<"read" or "hidden", a user or "all">>;  *)
(* the message and the policy it offers are left out.                      *)
(***************************************************************************)
Settings == {"read", "hidden"} \X (Users \cup {"all"})
Row      == [to : SUBSET Keys, marks : SUBSET Settings, current : BOOLEAN]
ASSUME NoneAssumption == None \notin Row
Rows     == [Notes -> Row \cup {None}]
Nothing  == [n \in Notes |-> None]

Idle == [pc |-> "idle", snap |-> [d \in Denials |-> 0], got |-> {}, num |-> 0]

RunType == [pc : {"idle", "receive", "delete", "write"}, snap : [Denials -> Nat],
            got : SUBSET Messages, num : 0 .. Limit]

QueueTypes ==
    /\ cast \subseteq Collectors \cup Calls
    /\ kind \in [Messages -> Denials \cup {"skipped", "broken"}]
    /\ msg \in [Messages -> {"unsent", "visible", "received", "gone"}]
    /\ table \in [Denials -> Nat] /\ delivered \in [Denials -> Nat]
    /\ run \in [Collectors -> RunType]
    /\ calm \in BOOLEAN /\ mishaps \in Nat

NoticeTypes ==
    /\ notes \in Rows /\ cache \in [Keys -> Rows]
    /\ pc \in [Procs -> {"idle", "fetch", "errors", "put", "scan", "expire", "hash", "reply", "done", "failed"}]
    /\ pc[Errors] \in {"idle", "errors", "put", "hash"}
    /\ pc[Cacher] \in {"idle", "scan", "expire", "hash"}
    /\ seen \in [Procs -> Rows] /\ cacheDue \in BOOLEAN
    /\ job \in [Calls -> [user : Users, toggle : Toggles, todo : SUBSET Notes, toggled : SUBSET Notes]]
    /\ since \in [Procs -> SUBSET Notes] /\ alone \subseteq Calls

TypeOK == QueueTypes /\ NoticeTypes

Init ==
    /\ \E s \in Scenes :
         /\ cast = s.cast /\ kind = s.reports /\ mishaps = s.mishaps
         /\ job \in [Calls -> [user : Users, toggle : Toggles, todo : {s.named}, toggled : {{}}]]
    /\ msg = [m \in Messages |-> "unsent"]
    /\ table = [d \in Denials |-> 0]
    /\ run = [c \in Collectors |-> Idle]
    /\ notes = Nothing /\ cache = [k \in Keys |-> Nothing]
    /\ pc = [p \in Procs |-> "idle"]
    /\ seen = [p \in Procs |-> Nothing]
    /\ cacheDue = FALSE
    /\ delivered = [d \in Denials |-> 0] /\ calm = TRUE
    /\ since = [p \in Procs |-> {}] /\ alone = {}

-----------------------------------------------------------------------------
(***************************************************************************)
(* The queue: CloudTrail sends; a message received and not deleted becomes *)
(* visible again when its visibility timeout ends, even during the run.    *)
(***************************************************************************)
Send(m) ==
    /\ msg[m] = "unsent"
    /\ msg' = [msg EXCEPT ![m] = "visible"]
    /\ UNCHANGED <<cast, kind, table, run, delivered, calm, noteVars, mishaps>>

Return(m) ==
    /\ msg[m] = "received" /\ mishaps > 0
    /\ msg' = [msg EXCEPT ![m] = "visible"]
    /\ mishaps' = mishaps - 1
    /\ UNCHANGED <<cast, kind, table, run, delivered, calm, noteVars>>

\* DynamoDB drops the item of a denial that has not come again for a day.
ItemExpires(d) ==
    /\ table[d] # 0 /\ mishaps > 0
    /\ table' = [table EXCEPT ![d] = 0]
    /\ calm' = FALSE
    /\ mishaps' = mishaps - 1
    /\ UNCHANGED <<cast, kind, msg, run, delivered, noteVars>>

(***************************************************************************)
(* detect_cloudtrail_denies_and_update_cache reads the whole table, then   *)
(* receives, counts in memory, deletes the messages and puts back every    *)
(* denial it knows of, batch after batch.  The first batch is received in  *)
(* the step that reads the table: a run that receives none does nothing.   *)
(***************************************************************************)
Reported(d, S) == {m \in S : kind[m] = d}

\* Messages older than a day, or without the fields of a denial, are passed over.
Handled(S) == {m \in S : kind[m] # "skipped"}

\* The messages a request may be answered with.
Receivable == {S \in SUBSET {m \in Messages : msg[m] = "visible"} : Cardinality(S) <= Batch}

Process(c, S, snap, num) ==
    /\ msg' = [m \in Messages |-> IF m \in S THEN "received" ELSE msg[m]]
    /\ run' = [run EXCEPT ![c] =
         [pc   |-> IF Handled(S) = {} THEN "write" ELSE "delete",
          snap |-> [d \in Denials |-> snap[d] + Cardinality(Reported(d, S))],
          got  |-> Handled(S),
          num  |-> Min({Limit, num + Cardinality({m \in S : kind[m] \in Denials})})]]
    /\ delivered' = [d \in Denials |-> delivered[d] + Cardinality(Reported(d, S))]

CollectorStart(c) ==
    /\ run[c].pc = "idle" /\ c \in cast
    /\ \E S \in Receivable \ {{}} : Process(c, S, table, 0)
    /\ UNCHANGED <<cast, kind, table, calm, noteVars, mishaps>>

CollectorReceive(c) ==
    /\ run[c].pc = "receive" /\ run[c].num < Limit
    /\ \E S \in Receivable \ {{}} : Process(c, S, run[c].snap, run[c].num)
    /\ UNCHANGED <<cast, kind, table, calm, noteVars, mishaps>>

\* Nothing received, or enough has been: the last batch is left to come back.
CollectorEnd(c) ==
    /\ run[c].pc = "receive"
    /\ \E S \in Receivable :
         /\ S = {} \/ run[c].num >= Limit
         /\ msg' = [m \in Messages |-> IF m \in S THEN "received" ELSE msg[m]]
    /\ run' = [run EXCEPT ![c] = Idle]
    /\ UNCHANGED <<cast, kind, table, delivered, calm, noteVars, mishaps>>

CollectorDelete(c) ==
    /\ run[c].pc = "delete"
    /\ msg' = [m \in Messages |-> IF m \in run[c].got THEN "gone" ELSE msg[m]]
    /\ run' = [run EXCEPT ![c].pc = "write", ![c].got = {}]
    /\ UNCHANGED <<cast, kind, table, delivered, calm, noteVars, mishaps>>

\* Mutant: the counts are added to those of the table.
Added(snap) == [d \in Denials |-> table[d] + snap[d]]
\* Mutant: what other runs have written since is dropped.
Replaced(snap) == snap
\* batch_write_cloudtrail_events puts the denials of the run over those of the table.
Written(snap) == [d \in Denials |-> IF snap[d] = 0 THEN table[d] ELSE snap[d]]

CollectorWrite(c) ==
    /\ run[c].pc = "write"
    /\ table' = Written(run[c].snap)
    /\ run' = [run EXCEPT ![c].pc = "receive"]
    /\ UNCHANGED <<cast, kind, msg, delivered, calm, noteVars, mishaps>>

\* Amazon refuses a request of the run; Celery starts the task again.
CollectorFails(c) ==
    /\ run[c].pc # "idle" /\ mishaps > 0
    /\ run' = [run EXCEPT ![c] = Idle]
    /\ mishaps' = mishaps - 1
    /\ calm' = FALSE
    /\ UNCHANGED <<cast, kind, msg, table, delivered, noteVars>>

-----------------------------------------------------------------------------
(***************************************************************************)
(* Starting, reading and writing of the processes that write               *)
(* notifications.  Settings changed by another process since this one read *)
(* them are noted in since; a call remains alone as long as no other       *)
(* process has a step to take.                                             *)
(***************************************************************************)
Busy(p) == pc[p] \notin {"idle", "done", "failed"}

Start(p) ==
    alone' = IF \E q \in Procs \ {p} : Busy(q) THEN {}
             ELSE IF p \in Calls THEN {p} ELSE {}

Changed(old, new) ==
    {n \in Notes : old[n] # None /\ new[n] # None /\ old[n].marks # new[n].marks}

\* p has read the notifications R.
Reads(p, R) == since' = [since EXCEPT ![p] = @ \ R]

\* p puts whole items.
Put(p, items) ==
    /\ notes' = [n \in Notes |-> IF items[n] = None THEN notes[n] ELSE items[n]]
    /\ since' = [q \in Procs |->
                   IF q = p THEN {}
                   ELSE IF pc[q] \in {"errors", "put", "expire"} THEN since[q] \cup Changed(notes, notes')
                   ELSE since[q]]

\* store_json_results_in_redis_and_s3 replaces the fields it is given.
Fields(rows) ==
    [k \in Keys |-> [n \in Notes |-> IF rows[n] # None /\ k \in rows[n].to THEN rows[n] ELSE None]]
Store(rows) ==
    cache' = [k \in Keys |-> IF Fields(rows)[k] = Nothing THEN cache[k] ELSE Fields(rows)[k]]

Aged(rows, n) == [rows EXCEPT ![n] = IF @ = None THEN None ELSE [@ EXCEPT !.current = FALSE]]

\* A notification lapses a day after the last run that found a denial of its own.
Lapse(n) ==
    /\ \A d \in Denials : NoteOf[d] = n => table[d] = 0
    /\ notes[n] # None /\ notes[n].current
    /\ notes' = Aged(notes, n)
    /\ cache' = [k \in Keys |-> Aged(cache[k], n)]
    /\ seen' = [p \in Procs |-> IF pc[p] \in {"put", "hash"} /\ p = Errors THEN seen[p] ELSE Aged(seen[p], n)]
    /\ UNCHANGED <<queueVars, pc, job, cacheDue, since, alone, mishaps>>

-----------------------------------------------------------------------------
(***************************************************************************)
(* process_cloudtrail_errors reads the notifications, then the denials.    *)
(***************************************************************************)
ErrorsStart ==
    /\ pc[Errors] = "idle"
    /\ pc' = [pc EXCEPT ![Errors] = "errors"]
    /\ seen' = [seen EXCEPT ![Errors] = notes]
    /\ Reads(Errors, Notes) /\ Start(Errors)
    /\ UNCHANGED <<queueVars, notes, cache, job, cacheDue, mishaps>>

Standing(n) == {d \in Denials : NoteOf[d] = n /\ table[d] # 0}

(***************************************************************************)
(* What the run makes of the denials of one notification.  One that exists *)
(* keeps its settings and gains the users of the sessions.  A new one with *)
(* an owner is made anew for each denial, so that the users of all but the *)
(* denial that comes last wait for the next run.                           *)
(***************************************************************************)
Sessions(D) == {Session[d] : d \in D} \ {None}

\* Mutant: the settings of the notification are reset.
Reset(old, D) == [to |-> old.to \cup Sessions(D), marks |-> {}, current |-> TRUE]
\* Mutant: the expiration is not renewed.
Extended(old, D) == [to |-> old.to \cup Sessions(D), marks |-> old.marks, current |-> old.current]
Renewed(old, D) == [to |-> old.to \cup Sessions(D), marks |-> old.marks, current |-> TRUE]

Made(old, D, last) ==
    IF D = {} THEN None
    ELSE IF old # None THEN Renewed(old, D)
    ELSE IF Owner[last] # None
         THEN [to |-> {Owner[last]} \cup Sessions({last}), marks |-> {}, current |-> TRUE]
    ELSE IF Sessions(D) = {} THEN None
    ELSE [to |-> Sessions(D), marks |-> {}, current |-> TRUE]

\* Denials whose error code is not one a policy is generated for.
WithoutPolicy == {d \in Denials \ Drafted : table[d] # 0}

ErrorsProcess ==
    /\ pc[Errors] = "errors"
    /\ IF WithoutPolicy # {}
       THEN \* generated_policy is missing: the run fails
            /\ pc' = [pc EXCEPT ![Errors] = "idle"]
            /\ seen' = [seen EXCEPT ![Errors] = Nothing]
            /\ Reads(Errors, Notes)
       ELSE \E last \in [Notes -> Denials] :
            /\ \A n \in Notes : NoteOf[last[n]] = n /\ (Standing(n) # {} => last[n] \in Standing(n))
            /\ LET made == [n \in Notes |-> Made(seen[Errors][n], Standing(n), last[n])]
               IN  /\ seen' = [seen EXCEPT ![Errors] = made]
                   /\ pc' = [pc EXCEPT ![Errors] = IF made = Nothing THEN "idle" ELSE "put"]
                   /\ IF made = Nothing THEN Reads(Errors, Notes) ELSE UNCHANGED since
    /\ UNCHANGED <<queueVars, notes, cache, job, cacheDue, alone, mishaps>>

ErrorsPut ==
    /\ pc[Errors] = "put"
    /\ Put(Errors, seen[Errors])
    /\ pc' = [pc EXCEPT ![Errors] = "hash"]
    /\ UNCHANGED <<queueVars, cache, seen, job, cacheDue, alone, mishaps>>

ErrorsStore ==
    /\ pc[Errors] = "hash"
    /\ Store(seen[Errors])
    /\ cacheDue' = TRUE
    /\ pc' = [pc EXCEPT ![Errors] = "idle"]
    /\ seen' = [seen EXCEPT ![Errors] = Nothing]
    /\ UNCHANGED <<queueVars, notes, job, since, alone, mishaps>>

\* A request fails; of the items put and the fields stored some may remain.
ErrorsFails ==
    /\ Busy(Errors) /\ mishaps > 0
    /\ pc' = [pc EXCEPT ![Errors] = "idle"]
    /\ seen' = [seen EXCEPT ![Errors] = Nothing]
    /\ \/ /\ pc[Errors] = "put"
          /\ \E S \in SUBSET Notes :
                Put(Errors, [n \in Notes |-> IF n \in S THEN seen[Errors][n] ELSE None])
          /\ UNCHANGED cache
       \/ /\ pc[Errors] = "hash" /\ Store(seen[Errors]) /\ UNCHANGED <<notes, since>>
       \/ /\ pc[Errors] # "put" /\ Reads(Errors, Notes) /\ UNCHANGED <<notes, cache>>
    /\ mishaps' = mishaps - 1
    /\ UNCHANGED <<queueVars, job, cacheDue, alone>>

-----------------------------------------------------------------------------
(***************************************************************************)
(* cache_notifications_to_redis_s3, run by the task and by every PUT call: *)
(* reads all notifications, puts back those whose expiration has passed,   *)
(* and stores the fields.                                                  *)
(***************************************************************************)
CacherStart ==
    /\ pc[Cacher] = "idle" /\ cacheDue
    /\ cacheDue' = FALSE
    /\ pc' = [pc EXCEPT ![Cacher] = "scan"]
    /\ Start(Cacher)
    /\ UNCHANGED <<queueVars, notes, cache, seen, job, since, mishaps>>

Lapsed(rows) ==
    [n \in Notes |-> IF rows[n] = None THEN None ELSE IF rows[n].current THEN None ELSE rows[n]]

CacheScan(p) ==
    /\ pc[p] = "scan"
    /\ seen' = [seen EXCEPT ![p] = notes]
    /\ Reads(p, Notes)
    /\ pc' = [pc EXCEPT ![p] = IF Lapsed(notes) = Nothing THEN "hash" ELSE "expire"]
    /\ UNCHANGED <<queueVars, notes, cache, job, cacheDue, alone, mishaps>>

CacheExpire(p) ==
    /\ pc[p] = "expire"
    /\ Put(p, Lapsed(seen[p]))
    /\ pc' = [pc EXCEPT ![p] = "hash"]
    /\ UNCHANGED <<queueVars, cache, seen, job, cacheDue, alone, mishaps>>

CacheStore(p) ==
    /\ pc[p] = "hash" /\ p # Errors
    /\ Store(seen[p])
    /\ seen' = [seen EXCEPT ![p] = Nothing]
    /\ pc' = [pc EXCEPT ![p] = IF p = Cacher THEN "idle" ELSE IF job[p].todo = {} THEN "reply" ELSE "fetch"]
    /\ UNCHANGED <<queueVars, notes, job, cacheDue, since, alone, mishaps>>

\* The task fails and Celery starts it again.
CacherFails ==
    /\ Busy(Cacher) /\ mishaps > 0
    /\ pc' = [pc EXCEPT ![Cacher] = "scan"]
    /\ seen' = [seen EXCEPT ![Cacher] = Nothing]
    /\ Reads(Cacher, Notes)
    /\ mishaps' = mishaps - 1
    /\ UNCHANGED <<queueVars, notes, cache, job, cacheDue, alone>>

-----------------------------------------------------------------------------
(***************************************************************************)
(* NotificationsHandler.put, for each notification named in the call:      *)
(* fetch it, check that it is for the user, toggle, put it back, and bring *)
(* the cache up to date.                                                   *)
(***************************************************************************)
KeysOf(u) == <<u>> \o GroupsOf[u]
InGroup(u, to) == \E i \in DOMAIN KeysOf(u) : KeysOf(u)[i] \in to

Mark(c) == <<job[c].toggle[1], IF job[c].toggle[2] = "own" THEN job[c].user ELSE "all">>
Toggled(marks, m) == (marks \ {m}) \cup ({m} \ marks)

Ends(c) ==
    /\ job' = [job EXCEPT ![c].todo = {}, ![c].toggled = {}]
    /\ alone' = alone \ {c}

CallStart(c) ==
    /\ pc[c] = "idle" /\ c \in cast
    /\ pc' = [pc EXCEPT ![c] = "fetch"]
    /\ Start(c)
    /\ UNCHANGED <<queueVars, notes, cache, seen, job, cacheDue, since, mishaps>>

CallFetch(c) ==
    /\ pc[c] = "fetch"
    /\ \E n \in job[c].todo :
         /\ IF notes[n] # None /\ InGroup(job[c].user, notes[n].to)
            THEN /\ job' = [job EXCEPT ![c].todo = @ \ {n}, ![c].toggled = @ \cup {n}]
                 /\ pc' = [pc EXCEPT ![c] = "put"]
                 /\ seen' = [seen EXCEPT ![c] =
                       [Nothing EXCEPT ![n] = [notes[n] EXCEPT !.marks = Toggled(@, Mark(c))]]]
                 /\ Reads(c, {n})
            ELSE \* an error is noted, and never returned
                 /\ job' = [job EXCEPT ![c].todo = @ \ {n}]
                 /\ pc' = [pc EXCEPT ![c] = IF job[c].todo = {n} THEN "reply" ELSE "fetch"]
                 /\ UNCHANGED <<seen, since>>
    /\ UNCHANGED <<queueVars, notes, cache, cacheDue, alone, mishaps>>

CallPut(c) ==
    /\ pc[c] = "put" /\ c \in Calls
    /\ Put(c, seen[c])
    /\ pc' = [pc EXCEPT ![c] = "scan"]
    /\ UNCHANGED <<queueVars, cache, seen, job, cacheDue, alone, mishaps>>

CallFails(c) ==
    /\ Busy(c) /\ c \in Calls /\ mishaps > 0
    /\ pc' = [pc EXCEPT ![c] = "failed"]
    /\ seen' = [seen EXCEPT ![c] = Nothing]
    /\ Reads(c, Notes)
    /\ Ends(c)
    /\ mishaps' = mishaps - 1
    /\ UNCHANGED <<queueVars, notes, cache, cacheDue>>

(***************************************************************************)
(* get_notifications_for_user: of the copies under the user's own name and *)
(* then under the groups, the first that is not hidden for the user        *)
(* stands for the notification, and is left out if it has expired.         *)
(***************************************************************************)
\* Mutant: what is hidden for the user is not passed over.
AllCopies(u, n) == {i \in DOMAIN KeysOf(u) : cache[KeysOf(u)[i]][n] # None}
Copies(u, n) ==
    {i \in DOMAIN KeysOf(u) : LET r == cache[KeysOf(u)[i]][n]
                             IN  r # None /\ <<"hidden", u>> \notin r.marks}
Copy(u, n) == cache[KeysOf(u)[Min(Copies(u, n))]][n]

Shown(u) == {n \in Notes : Copies(u, n) # {} /\ Copy(u, n).current}
Unread(u) == {n \in Shown(u) : Copy(u, n).marks \cap {<<"read", u>>, <<"read", "all">>} = {}}

CallReply(c) ==
    /\ pc[c] = "reply"
    /\ pc' = [pc EXCEPT ![c] = "done"]
    /\ Ends(c)
    /\ UNCHANGED <<queueVars, notes, cache, seen, cacheDue, since, mishaps>>

-----------------------------------------------------------------------------
Collect(c) ==
    \/ CollectorStart(c) \/ CollectorReceive(c) \/ CollectorEnd(c)
    \/ CollectorDelete(c) \/ CollectorWrite(c)

Notify == ErrorsStart \/ ErrorsProcess \/ ErrorsPut \/ ErrorsStore

CacheRun(p) == CacheScan(p) \/ CacheExpire(p) \/ CacheStore(p)

Call(c) == CallStart(c) \/ CallFetch(c) \/ CallPut(c) \/ CallReply(c)

Next ==
    \/ \E m \in Messages : Send(m) \/ Return(m)
    \/ \E d \in Denials : ItemExpires(d)
    \/ \E n \in Notes : Lapse(n)
    \/ \E c \in Collectors : Collect(c) \/ CollectorFails(c)
    \/ Notify \/ ErrorsFails
    \/ CacherStart \/ CacherFails
    \/ \E p \in Calls \cup {Cacher} : CacheRun(p)
    \/ \E c \in Calls : Call(c) \/ CallFails(c)

Spec == Init /\ [][Next]_vars

(***************************************************************************)
(* Celery Beat starts cache_cloudtrail_errors_by_arn every hour; the       *)
(* workers run what they were sent, and calls run to their end.            *)
(***************************************************************************)
Fairness ==
    /\ WF_vars(Notify)
    /\ WF_vars(CacherStart \/ CacheRun(Cacher))
    /\ \A c \in Calls : WF_vars(Busy(c) /\ (Call(c) \/ CacheRun(c)))
    /\ \A c \in Collectors : WF_vars(run[c].pc # "idle" /\ Collect(c))

FairSpec == Spec /\ Fairness

-----------------------------------------------------------------------------
(***************************************************************************)
(* The count of a denial never exceeds the number of times it was          *)
(* received: runs that overlap, put back what they read at their start and *)
(* receive a message again may lose counts but make none up.               *)
(***************************************************************************)
CountsAreBacked == \A d \in Denials : table[d] <= delivered[d]

(***************************************************************************)
(* Unless a run has failed or the item has expired, a denial whose message *)
(* is gone from the queue is in the table or about to be written by a run: *)
(* messages are deleted before the table is written, and whole items are   *)
(* put by runs that began before.                                          *)
(***************************************************************************)
NoDenialIsLost ==
    calm => \A m \in Messages :
        msg[m] = "gone" /\ kind[m] \in Denials =>
            \/ table[kind[m]] # 0
            \/ \E c \in Collectors : run[c].pc = "write" /\ run[c].snap[kind[m]] # 0

(***************************************************************************)
(* A setting a user made is only undone by a toggle of the same setting,   *)
(* or by a process that read the notification before: the run that renews  *)
(* notifications keeps the settings it read, and so does the task that     *)
(* marks them expired.                                                     *)
(***************************************************************************)
SettingsSurvive ==
    [][\A p \in Procs, n \in Notes :
         pc'[p] # pc[p] /\ notes[n] # None /\ n \notin since[p] =>
            /\ notes'[n] # None
            /\ notes'[n].marks =
                  IF p \in Calls /\ pc[p] = "put" /\ pc'[p] = "scan" /\ seen[p][n] # None
                  THEN Toggled(notes[n].marks, Mark(p))
                  ELSE notes[n].marks]_vars

(***************************************************************************)
(* A call during which no task and no other call wrote notifications       *)
(* returns a page that agrees with the table on every notification it      *)
(* toggled: shown unless hidden for the user or expired, unread unless     *)
(* read by the user or marked read for all.  Copies left under the name of *)
(* someone who is no longer a recipient are the exception.                 *)
(***************************************************************************)
Lingers(u, n) ==
    \E i \in DOMAIN KeysOf(u) :
        cache[KeysOf(u)[i]][n] # None /\ KeysOf(u)[i] \notin notes[n].to

ReplyAgreesWithTable ==
    [][\A c \in alone : pc[c] = "reply" /\ pc'[c] = "done" =>
         LET u == job[c].user
         IN  \A n \in job[c].toggled : ~Lingers(u, n) =>
               /\ n \in Shown(u) <=> notes[n].current /\ <<"hidden", u>> \notin notes[n].marks
               /\ n \in Unread(u) <=>
                    /\ n \in Shown(u)
                    /\ notes[n].marks \cap {<<"read", u>>, <<"read", "all">>} = {}]_vars

(***************************************************************************)
(* A denial that stands in the table, with no denial beside it that no     *)
(* policy is generated for, is at last copied to the field of everyone it  *)
(* concerns, as current: notifications made twice in one run, renewals     *)
(* overwritten by a task that read the expired item, failed runs and       *)
(* fields replaced by a partial copy all heal.  The hourly runs and the    *)
(* cache_notifications each sends, which has ten minutes, must come to     *)
(* rest again and again: else each may undo what the other does, for ever. *)
(***************************************************************************)
AtRest == pc[Errors] = "idle" /\ pc[Cacher] = "idle" /\ ~cacheDue

Concerned(d) == {Owner[d], Session[d]} \ {None}

StandingDenialsAreShown ==
    \A d \in Denials :
        []<>AtRest /\ <>[](table[d] # 0 /\ WithoutPolicy = {})
            => <>[](\A k \in Concerned(d) :
                       /\ cache[k][NoteOf[d]] # None
                       /\ cache[k][NoteOf[d]].current)

-----------------------------------------------------------------------------
(***************************************************************************)
(* Nobody is told of a denial but the owner of the role and the user of    *)
(* the session, whatever is put, renewed or cached from an earlier read,   *)
(* and the field of a user or group holds only what is for it.             *)
(***************************************************************************)
Recipients(n) ==
    (UNION {{Owner[d], Session[d]} : d \in {x \in Denials : NoteOf[x] = n}}) \ {None}
Addressed(rows) ==
    \A n \in Notes : rows[n] # None => rows[n].to # {} /\ rows[n].to \subseteq Recipients(n)

OnlyTheConcernedAreTold ==
    /\ Addressed(notes)
    /\ \A p \in Procs : Addressed(seen[p])
    /\ \A k \in Keys : /\ Addressed(cache[k])
                       /\ \A n \in Notes : cache[k][n] # None => k \in cache[k][n].to

(***************************************************************************)
(* Inductive invariants.                                                   *)
(***************************************************************************)
\* Neither the table nor what a run has read and counted exceeds what has
\* been received.
CountsInv ==
    \A d \in Denials :
        table[d] <= delivered[d] /\ \A c \in Collectors : run[c].snap[d] <= delivered[d]

\* A run about to delete messages has counted the denials they report.
LossInv ==
    /\ NoDenialIsLost
    /\ \A c \in Collectors : run[c].pc = "delete" =>
          \A m \in run[c].got : kind[m] \in Denials => run[c].snap[kind[m]] # 0

\* A notification is made by cache_cloudtrail_errors_by_arn only: the others
\* hold copies of what is in the table, and so does this task until it makes
\* new ones.  A copy has the settings of the table, or those with the toggle
\* of the call, unless they have changed since.
CopiesExist ==
    /\ \A p \in Procs \ {Errors}, n \in Notes : seen[p][n] # None => notes[n] # None
    /\ pc[Errors] = "errors" =>
          \A n \in Notes : seen[Errors][n] # None <=> notes[n] # None

CopiesAgree(p) ==
    pc[p] \in {"errors", "put", "expire"} =>
        \A n \in Notes \ since[p] :
            seen[p][n] # None /\ notes[n] # None =>
                seen[p][n].marks = IF p \in Calls /\ pc[p] = "put"
                                   THEN Toggled(notes[n].marks, Mark(p))
                                   ELSE notes[n].marks

SettingsInv == CopiesExist /\ \A p \in Procs : CopiesAgree(p)

\* While a call is alone, only the passing of time changes what it has read,
\* and once it has stored them the fields hold what the table holds.
AloneAgrees(c) ==
    /\ Busy(c) /\ \A q \in Procs \ {c} : ~Busy(q)
    /\ \A n \in job[c].toggled : notes[n] # None /\ InGroup(job[c].user, notes[n].to)
    /\ pc[c] = "put" =>
          \A n \in Notes : seen[c][n] # None => notes[n] # None /\ seen[c][n].to = notes[n].to
    /\ pc[c] \in {"expire", "hash"} => seen[c] = notes
    /\ pc[c] \in {"fetch", "reply"} =>
          \A n \in job[c].toggled : \A k \in notes[n].to : cache[k][n] = notes[n]

AloneInv ==
    /\ \A c \in Calls : pc[c] = "idle" => job[c].toggled = {}
    /\ \A c \in alone : AloneAgrees(c)
=============================================================================
