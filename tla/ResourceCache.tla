---------------------------- MODULE ResourceCache ----------------------------
(***************************************************************************)
(* The caches of AWS resources behind the policies table: the Celery tasks *)
(* that list SQS queues, SNS topics, S3 buckets, managed policies and AWS  *)
(* Config resources in every account, and those that list the service      *)
(* control policies and the accounts of every organization; the Redis      *)
(* values and the S3 objects they fill, and the copy a passive region makes*)
(* of them.  The policies table of a site is rewritten from its hash every *)
(* half hour: it is the operator PoliciesTable.                            *)
(*                                                                         *)
(* One kind of resource is followed, chosen in the initial state: the      *)
(* caches of different kinds meet only in the table, which is their union. *)
(* A resource is a pair <<account, AWS region>>; for the two kinds that    *)
(* come from AWS Organizations it is a pair <<organization, policy or      *)
(* account>>.  A site is a region ConsoleMe runs in; each has its own      *)
(* Redis, all share the S3 bucket.                                         *)
(***************************************************************************)
EXTENDS Naturals, FiniteSets

CONSTANTS Places,        \* the resources there can be: pairs <<account, region>>
          Kinds,         \* the kinds of resource followed
          Active,        \* the site of celery.active_region
          Passive,       \* another site
          None,
          MaxChanges,    \* bound on the changes made to AWS
          MaxRefusals    \* bound on the requests to AWS that fail

ASSUME BoundsAssumption == MaxChanges \in Nat /\ MaxRefusals \in Nat
ASSUME SitesAssumption == Active # Passive
ASSUME PlacesAssumption == \A p \in Places : p = <<p[1], p[2]>>

VARIABLES kind,      \* the kind of resource followed
          aws,       \* the resources that exist
          members,   \* the accounts of the organization
          known,     \* ALL_AWS_ACCOUNTS in each site's Redis
          hash,      \* the resource hash in each site's Redis: by account, the entries held
          combined,  \* the S3 object with the hash of all accounts, None before it is written
          file,      \* the S3 object of each account with its AWS Config resources
          run,       \* the run of the collecting task at each site
          sub,       \* the subtasks of that run, by account
          listing,   \* what that run has listed of the organizations, not yet stored
          reader,    \* a page that found Redis empty and is about to store what it got
          changes, refusals,
          calm       \* nothing has happened that may take a standing resource out of a cache

vars == <<kind, aws, members, known, hash, combined, file, run, sub,
          listing, reader, changes, refusals, calm>>

Sites    == {Active, Passive}
Accounts == {p[1] : p \in Places}
Regions  == {p[2] : p \in Places}

Regional  == {"AWS::SQS::Queue", "AWS::SNS::Topic"}     \* listed region by region
Fanned    == Regional \cup {"AWS::S3::Bucket"}          \* combined in S3 for the passive sites
Managed   == "managed_policy"
FromAwsConfig == "AWS::Config"
OfOrganizations == {"SCP", "organization_structure"}     \* listed in AWS Organizations by every site

(***************************************************************************)
(* An entry is a region and, for AWS Config, whether its ttl of 36 hours   *)
(* has passed.  The hash of AWS Config has one field per resource; the     *)
(* others have one per account, absent until the account is listed.  What  *)
(* comes from AWS Organizations is one value; an account stands there for  *)
(* an organization, and a region for a policy or an account of it.         *)
(***************************************************************************)
Entries == Regions \X {"live", "expired"}

ASSUME NoneAssumption == \A es \in SUBSET Entries : es # None

\* What AWS lists in an account.
Listed(a) == {<<p[2], "live">> : p \in {q \in aws : q[1] = a}}
Held(f) == IF f = None THEN {} ELSE f

\* The rows of the policies table a hash gives, and the table of a site.
Rows(h) == {p \in Places : \E e \in Held(h[p[1]]) : e[1] = p[2]}
PoliciesTable(s) == Rows(hash[s])

Blank == [a \in Accounts |-> None]
IsEmpty(h) == \A a \in Accounts : IF kind = FromAwsConfig THEN Held(h[a]) = {} ELSE h[a] = None

(***************************************************************************)
(* store_json_results_in_redis_and_s3 of a hash is hmset: it replaces the  *)
(* fields it is given and removes none.  A field is one account, or one    *)
(* resource of AWS Config.  A listing of the organizations has all fields, *)
(* and replaces the value.                                                 *)
(***************************************************************************)
\* Mutant: the whole hash is replaced.
HmsetAll(old, new) == [a \in Accounts |-> new[a]]
Hmset(old, new) ==
    [a \in Accounts |->
        IF new[a] = None THEN old[a]
        ELSE IF kind = FromAwsConfig
             THEN {e \in Held(old[a]) : \A n \in new[a] : n[1] # e[1]} \cup new[a]
             ELSE new[a]]

TypeOK ==
    /\ kind \in Kinds
    /\ aws \subseteq Places /\ members \subseteq Accounts
    /\ known \in [Sites -> SUBSET Accounts]
    /\ hash \in [Sites -> [Accounts -> (SUBSET Entries) \cup {None}]]
    /\ combined \in [Accounts -> (SUBSET Entries) \cup {None}] \cup {None}
    /\ file \in [Accounts -> (SUBSET Entries) \cup {None}]
    /\ run \in [Sites -> {"idle", "list", "join"}]
    /\ listing \in [Sites -> [Accounts -> SUBSET Entries] \cup {None}]
    /\ sub \in [Sites -> [Accounts -> {"none", "queued", "failed"}]]
    /\ reader \in [site : Sites, snap : [Accounts -> (SUBSET Entries) \cup {None}],
                   own : BOOLEAN] \cup {None}
    /\ changes \in 0 .. MaxChanges /\ refusals \in 0 .. MaxRefusals /\ calm \in BOOLEAN

(***************************************************************************)
(* A deployment whose Redis is empty; the S3 bucket is empty too, or holds *)
(* what an earlier deployment wrote.                                       *)
(***************************************************************************)
Init ==
    /\ kind \in Kinds
    /\ aws \in SUBSET Places
    /\ members = Accounts
    /\ known = [s \in Sites |-> members]
    /\ hash = [s \in Sites |-> Blank]
    /\ \/ combined = None /\ file = Blank
       \/ /\ combined = IF kind = Managed THEN None ELSE [a \in Accounts |-> Listed(a)]
          /\ file = [a \in Accounts |->
                       IF kind = FromAwsConfig /\ Listed(a) # {} THEN Listed(a) ELSE None]
    /\ run = [s \in Sites |-> "idle"]
    /\ sub = [s \in Sites |-> [a \in Accounts |-> "none"]]
    /\ listing = [s \in Sites |-> None] /\ reader = None
    /\ changes = 0 /\ refusals = 0 /\ calm = TRUE

(***************************************************************************)
(* cache_cloud_account_mapping reads the organization and stores its       *)
(* accounts, closed ones as such; the tasks take the active ones.          *)
(***************************************************************************)
AccountsOfOrganization == members
ActiveAccounts(s) == known[s]

CacheCloudAccounts(s) ==
    /\ known[s] # AccountsOfOrganization
    /\ known' = [known EXCEPT ![s] = AccountsOfOrganization]
    /\ UNCHANGED <<kind, aws, members, hash, combined, file, run, sub, listing, reader,
                   changes, refusals, calm>>

(***************************************************************************)
(* Beat starts the task of a kind at each site every 45 or 60 minutes.     *)
(***************************************************************************)
FanOut(s, pc) ==
    /\ run[s] = "idle"
    /\ \A a \in Accounts : sub[s][a] # "queued"
    /\ run' = [run EXCEPT ![s] = pc]
    /\ sub' = [sub EXCEPT ![s] = [a \in Accounts |->
                  IF a \in ActiveAccounts(s) THEN "queued" ELSE "none"]]
    /\ UNCHANGED <<kind, aws, members, known, hash, combined, file, listing, reader,
                   changes, refusals, calm>>

\* A passive site stores the combined object in its own Redis, and fails when there is none.
CopyCombined(s) ==
    /\ combined # None
    /\ hash' = [hash EXCEPT ![s] = Hmset(@, combined)]
    /\ hash' # hash
    /\ UNCHANGED <<kind, aws, members, known, combined, file, run, sub, listing, reader,
                   changes, refusals, calm>>

\* Only the active site lists AWS.
ListOrCopy(s) == IF s = Active THEN FanOut(s, "join") ELSE CopyCombined(s)

CacheQueuesAcrossAccounts(s)  == kind = "AWS::SQS::Queue" /\ ListOrCopy(s)
CacheTopicsAcrossAccounts(s)  == kind = "AWS::SNS::Topic" /\ ListOrCopy(s)
CacheBucketsAcrossAccounts(s) == kind = "AWS::S3::Bucket" /\ ListOrCopy(s)
\* Every site lists the managed policies, and does not wait for the subtasks.
CachePoliciesAcrossAccounts(s) == kind = Managed /\ FanOut(s, "idle")
\* Every site runs the subtasks of AWS Config.
CacheConfigAcrossAccounts(s) == kind = FromAwsConfig /\ FanOut(s, "join")

(***************************************************************************)
(* A subtask lists one account.                                            *)
(***************************************************************************)
Got(s, a, entries) ==
    /\ sub[s][a] = "queued"
    /\ sub' = [sub EXCEPT ![s][a] = "none"]
    /\ hash' = [hash EXCEPT ![s] = Hmset(@, [Blank EXCEPT ![a] = entries])]
    /\ UNCHANGED <<kind, aws, members, known, combined, run, listing, reader, changes>>

\* The queues or topics of the regions that answered.
Answered(a, refused) == {e \in Listed(a) : e[1] \notin refused}

\* An error in a region is logged, and the regions left make the list.
ByRegion(s, a) ==
    \E refused \in SUBSET {p[2] : p \in {q \in Places : q[1] = a}} :
        /\ refused # {} => refusals < MaxRefusals
        /\ Got(s, a, Answered(a, refused)) /\ UNCHANGED file
        /\ refusals' = IF refused = {} THEN refusals ELSE refusals + 1
        /\ calm' = (calm /\ refused = {})

InOneCall(s, a) == Got(s, a, Listed(a)) /\ UNCHANGED <<file, refusals, calm>>

CacheQueuesForAccount(s, a)   == kind = "AWS::SQS::Queue" /\ ByRegion(s, a)
CacheTopicsForAccount(s, a)   == kind = "AWS::SNS::Topic" /\ ByRegion(s, a)
CacheBucketsForAccount(s, a)  == kind = "AWS::S3::Bucket" /\ InOneCall(s, a)
CachePoliciesForAccount(s, a) == kind = Managed /\ InOneCall(s, a)
(***************************************************************************)
(* The active site queries AWS Config and stores what it gets, unless that *)
(* is nothing, in Redis and in the account's S3 object; the others copy    *)
(* that object to their Redis.                                             *)
(***************************************************************************)
CacheConfigForAccount(s, a) ==
    /\ kind = FromAwsConfig
    /\ IF s = Active
       THEN /\ Got(s, a, Listed(a))
            /\ file' = IF Listed(a) = {} THEN file ELSE [file EXCEPT ![a] = Listed(a)]
       ELSE file[a] # None /\ Got(s, a, file[a]) /\ UNCHANGED file
    /\ UNCHANGED <<refusals, calm>>

\* Every exception is retried, five times at most; a missing object fails every time.
SubtaskFails(s, a) ==
    /\ sub[s][a] = "queued"
    /\ sub' = [sub EXCEPT ![s][a] = "failed"]
    /\ IF kind = FromAwsConfig /\ s = Passive /\ file[a] = None THEN UNCHANGED refusals
       ELSE refusals < MaxRefusals /\ refusals' = refusals + 1
    /\ UNCHANGED <<kind, aws, members, known, hash, combined, file, run, listing,
                   reader, changes, calm>>

(***************************************************************************)
(* The parent waits for its subtasks.  A failed one makes results.join     *)
(* raise, and the parent fails; otherwise it drops the expired entries (of *)
(* AWS Config) from Redis, and the active site stores the whole hash in S3.*)
(***************************************************************************)
\* Mutant: the failure of a subtask is not raised (propagate = False).
NeverFailed(s) == FALSE
SomeFailed(s) == \E a \in Accounts : sub[s][a] = "failed"

\* Mutant: expired entries leave the dictionary read from Redis only.
SweepNothing(h) == h
Unexpired(h) == [a \in Accounts |-> IF h[a] = None THEN None ELSE {e \in h[a] : e[2] = "live"}]

Joined(s) ==
    /\ run[s] = "join"
    /\ \A a \in Accounts : sub[s][a] # "queued"
    /\ run' = [run EXCEPT ![s] = "idle"]
    /\ UNCHANGED <<kind, aws, members, known, file, sub, listing, reader, changes,
                   refusals, calm>>

JoinFails(s) == Joined(s) /\ SomeFailed(s) /\ UNCHANGED <<hash, combined>>

StoreCombined(s) ==
    /\ Joined(s) /\ ~SomeFailed(s)
    /\ kind \in Fanned
    /\ combined' = hash[s]
    /\ UNCHANGED hash

SweepAndStoreCombined(s) ==
    /\ Joined(s) /\ ~SomeFailed(s)
    /\ kind = FromAwsConfig
    /\ hash' = [hash EXCEPT ![s] = Unexpired(@)]
    /\ combined' = IF s = Active /\ ~IsEmpty(hash[s]) THEN hash'[s] ELSE combined

\* The soft time limit ends the parent; its subtasks go on.
JoinTimesOut(s) ==
    /\ refusals < MaxRefusals
    /\ refusals' = refusals + 1
    /\ run[s] = "join"
    /\ \E a \in Accounts : sub[s][a] = "queued"
    /\ run' = [run EXCEPT ![s] = "idle"]
    /\ UNCHANGED <<kind, aws, members, known, hash, combined, file, sub, listing, reader,
                   changes, calm>>

(***************************************************************************)
(* A run of the organization caches lists every organization that is       *)
(* configured, page by page; when a call is refused it raises and stores   *)
(* nothing.  What it has listed replaces the value in Redis, and the       *)
(* active site writes it to S3.                                            *)
(***************************************************************************)
AllListed == [a \in Accounts |-> Listed(a)]

ListOrganizations(s) ==
    /\ run[s] = "idle"
    /\ run' = [run EXCEPT ![s] = "list"]
    /\ listing' = [listing EXCEPT ![s] = AllListed]
    /\ UNCHANGED <<kind, aws, members, known, hash, combined, file, sub, reader, changes,
                   refusals, calm>>

EndListing(s) ==
    /\ run[s] = "list"
    /\ run' = [run EXCEPT ![s] = "idle"]
    /\ listing' = [listing EXCEPT ![s] = None]
    /\ UNCHANGED <<kind, aws, members, known, file, sub, reader, changes, calm>>

ListingRefused(s) ==
    /\ EndListing(s)
    /\ refusals < MaxRefusals /\ refusals' = refusals + 1
    /\ UNCHANGED <<hash, combined>>

StoreListing(s) ==
    /\ EndListing(s)
    /\ hash' = [hash EXCEPT ![s] = Hmset(@, listing[s])]
    /\ combined' = IF s = Active THEN listing[s] ELSE combined
    /\ UNCHANGED refusals

CacheAllScps(s)      == kind = "SCP" /\ (ListOrganizations(s) \/ StoreListing(s))
CacheOrgStructure(s) == kind = "organization_structure" /\ (ListOrganizations(s) \/ StoreListing(s))

(***************************************************************************)
(* A page that finds neither Redis nor S3 filled lists the organizations   *)
(* itself, beside any run of the task, and stores them as the task does.   *)
(***************************************************************************)
ListForPage(s) ==
    /\ IsEmpty(hash[s]) /\ combined = None /\ reader = None
    /\ reader' = [site |-> s, snap |-> AllListed, own |-> TRUE]
    /\ UNCHANGED <<kind, aws, members, known, hash, combined, file, run, sub, listing,
                   changes, refusals, calm>>

GetAllScps(s)      == kind = "SCP" /\ ListForPage(s)
GetOrgStructure(s) == kind = "organization_structure" /\ ListForPage(s)

(***************************************************************************)
(* Pages read Redis; when it has nothing they read S3 and then store what  *)
(* they read in Redis (retrieve_json_data_from_redis_or_s3).               *)
(***************************************************************************)
ReadResources(s) ==
    /\ kind # Managed /\ IsEmpty(hash[s])
    /\ reader = None /\ combined # None
    /\ reader' = [site |-> s, snap |-> combined, own |-> FALSE]
    /\ UNCHANGED <<kind, aws, members, known, hash, combined, file, run, sub, listing,
                   changes, refusals, calm>>

StoreWhatWasRead ==
    /\ reader # None
    /\ hash' = [hash EXCEPT ![reader.site] = Hmset(@, reader.snap)]
    /\ reader' = None
    /\ calm' = FALSE
    /\ combined' = IF reader.own /\ reader.site = Active THEN reader.snap ELSE combined
    /\ UNCHANGED <<kind, aws, members, known, file, run, sub, listing, changes, refusals>>

(***************************************************************************)
(* AWS changes on its own.  An entry reaches its ttl only when its         *)
(* resource has been gone for 36 hours: the task runs every hour.          *)
(***************************************************************************)
AwsChanges ==
    /\ changes < MaxChanges
    /\ changes' = changes + 1
    /\ \/ \E p \in Places \ aws : aws' = aws \cup {p} /\ UNCHANGED <<members, calm>>
       \/ \E p \in aws : aws' = aws \ {p} /\ calm' = FALSE /\ UNCHANGED members
       \/ \E a \in members : /\ kind \notin OfOrganizations
                             /\ members' = members \ {a} /\ UNCHANGED <<aws, calm>>
    /\ UNCHANGED <<kind, known, hash, combined, file, run, sub, listing, reader,
                   refusals>>

Aged(h, p) == [h EXCEPT ![p[1]] = IF @ = None THEN None ELSE
                   {IF e[1] = p[2] THEN <<e[1], "expired">> ELSE e : e \in @}]

Expire(p) ==
    /\ kind = FromAwsConfig
    /\ p \notin aws
    /\ hash' = [s \in Sites |-> Aged(hash[s], p)]
    /\ file' = Aged(file, p)
    /\ combined' = IF combined = None THEN None ELSE Aged(combined, p)
    /\ <<hash, file, combined>>' # <<hash, file, combined>>
    /\ UNCHANGED <<kind, aws, members, known, run, sub, listing, reader, changes,
                   refusals, calm>>

Across(s) ==
    \/ CacheQueuesAcrossAccounts(s) \/ CacheTopicsAcrossAccounts(s)
    \/ CacheBucketsAcrossAccounts(s) \/ CachePoliciesAcrossAccounts(s)
    \/ CacheConfigAcrossAccounts(s)
    \/ CacheAllScps(s) \/ CacheOrgStructure(s)
    \/ JoinFails(s) \/ StoreCombined(s) \/ SweepAndStoreCombined(s)

ForAccount(s, a) ==
    \/ CacheQueuesForAccount(s, a) \/ CacheTopicsForAccount(s, a)
    \/ CacheBucketsForAccount(s, a) \/ CachePoliciesForAccount(s, a)
    \/ CacheConfigForAccount(s, a)
    \/ SubtaskFails(s, a)

Collect(s) == Across(s) \/ \E a \in Accounts : ForAccount(s, a)

Next ==
    \/ \E s \in Sites : \/ Collect(s) \/ JoinTimesOut(s) \/ ListingRefused(s)
                        \/ CacheCloudAccounts(s) \/ ReadResources(s)
                        \/ GetAllScps(s) \/ GetOrgStructure(s)
    \/ StoreWhatWasRead
    \/ AwsChanges
    \/ \E p \in Places : Expire(p)

Spec == Init /\ [][Next]_vars

(***************************************************************************)
(* Beat starts every task again and again, the workers run what is queued, *)
(* a page that has read stores, and time passes.                           *)
(***************************************************************************)
Fairness ==
    /\ \A s \in Sites : WF_vars(Collect(s)) /\ WF_vars(CacheCloudAccounts(s))
    /\ WF_vars(StoreWhatWasRead)
    /\ WF_vars(\E p \in Places : Expire(p))

FairSpec == Spec /\ Fairness

(***************************************************************************)
(* Whenever the active site stores the object the other sites copy, every  *)
(* account it knows is in it: the object is never written from a run one   *)
(* of whose subtasks failed or has not ended, however many succeeded.      *)
(***************************************************************************)
PublishedIsComplete ==
    [][combined' # combined /\ kind \in Fanned =>
        \A a \in ActiveAccounts(Active) : combined'[a] # None]_vars

(***************************************************************************)
(* A resource that stays where it is stays in the table of each site: while*)
(* nothing was deleted in AWS, no region refused to answer and no page     *)
(* restored a hash from S3, runs that fail, time out or find less than     *)
(* others never take a resource out of a cache.                            *)
(***************************************************************************)
StandingResourcesStay ==
    [][calm /\ calm' => \A s \in Sites : PoliciesTable(s) \cap aws \subseteq PoliciesTable(s)']_vars

(***************************************************************************)
(* Once AWS stops changing and answers, the table of each site comes to    *)
(* hold, for the accounts of the organization, the resources that exist:   *)
(* new ones arrive, deleted ones go, through partial lists, failed runs and*)
(* pages that restore old copies.  In a passive site AWS Config resources  *)
(* are left out when they need not go: the S3 object of an account is not  *)
(* written when AWS Config finds nothing in it, so a passive site keeps    *)
(* copying the last resources of an account; and while some account has no *)
(* such object its subtask fails, so that the parent fails before it drops *)
(* the expired entries of any account.                                     *)
(***************************************************************************)
Settled(s, a) ==
    \/ {p \in PoliciesTable(s) : p[1] = a} = {p \in aws : p[1] = a}
    \/ /\ s = Passive /\ kind = FromAwsConfig
       /\ Listed(a) = {} \/ \E b \in members : file[b] = None
       /\ {p \in aws : p[1] = a} \subseteq PoliciesTable(s)

CachesCatchUp == <>[](\A s \in Sites : \A a \in members : Settled(s, a))

(***************************************************************************)
(* Why the two safety properties hold.  What a cache holds exists and is   *)
(* live, as long as nothing has been deleted.                              *)
(***************************************************************************)
Stands(h) == \A a \in Accounts : Held(h[a]) \subseteq Listed(a)

StandingInv ==
    calm => /\ \A s \in Sites : Stands(hash[s])
            /\ Stands(file) /\ (combined # None => Stands(combined))
            /\ \A s \in Sites : run[s] = "list" => Stands(listing[s])

\* Only the active site lists what is combined for the others, and each run
\* of the organizations has its listing.
RunsInv ==
    /\ \A s \in Sites : members \subseteq known[s]
    /\ kind \in Fanned => run[Passive] = "idle" /\ \A a \in Accounts : sub[Passive][a] = "none"
    /\ \A s \in Sites : run[s] = "list" =>
         kind \in OfOrganizations /\ listing[s] \in [Accounts -> SUBSET Entries]
    /\ reader # None /\ reader.own => kind \in OfOrganizations

\* An account that a run has listed is in the hash.
ListedInv ==
    kind \in Fanned /\ run[Active] = "join" =>
        \A a \in ActiveAccounts(Active) : sub[Active][a] = "none" => hash[Active][a] # None

\* What is copied next holds all that the copies hold.
CopiesInv ==
    /\ calm /\ kind \in Fanned =>
         \A a \in Accounts :
            /\ hash[Active][a] # None =>
                 /\ Held(hash[Passive][a]) \subseteq hash[Active][a]
                 /\ combined # None => Held(combined[a]) \subseteq hash[Active][a]
            /\ combined # None /\ combined[a] # None =>
                 Held(hash[Passive][a]) \subseteq combined[a]
    /\ calm => \A s \in Sites : run[s] = "list" =>
         \A a \in Accounts : Held(hash[s][a]) \subseteq listing[s][a]
=============================================================================
