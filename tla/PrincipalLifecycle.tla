------------------------- MODULE PrincipalLifecycle -------------------------
(***************************************************************************)
(* Creating, cloning, updating and deleting IAM roles, and deleting IAM    *)
(* users, in one account.  AWS offers no transaction: each of these is a   *)
(* series of calls, of which any may be refused, and between which other   *)
(* requests act on the same role (lib/aws.py, lib/role_updater/handler.py, *)
(* handlers/v2/roles.py, handlers/v2/aws_iam_users.py).                    *)
(*                                                                         *)
(* A principal is the set of its parts: attached managed policies, inline  *)
(* policies, and the access keys of a user.  A role may have an instance   *)
(* profile, which has the role's name and exists apart from it.  The trust *)
(* policy, the description and the tags are given to the call that creates *)
(* a role and are left out.  RoleCache says what becomes of the copies     *)
(* that a creation or deletion refreshes when it is over.                  *)
(***************************************************************************)
EXTENDS Integers, FiniteSets

CONSTANTS
    Requests,               \* each asks for one operation
    Roles, Users,           \* names
    Managed, Inline, Keys,  \* the parts principals are made of
    MaxRefusals,            \* bound on the calls AWS refuses
    MaxEvent,               \* bound on the changes one update asks for
    None

ASSUME PrincipalLifecycleConstants == MaxRefusals \in Nat /\ MaxEvent \in Nat
ASSUME NamesAssumption == Roles \cap Users = {}

Parts      == Managed \cup Inline \cup Keys
Principals == Roles \cup Users

ASSUME NoneAssumption == None \notin Principals /\ \A ps \in SUBSET Parts : ps # None

VARIABLES
    parts,      \* [Principals -> (SUBSET Parts) \cup {None}], None: no such principal
    profile,    \* [Roles -> {"none", "empty", "attached"}]: the instance profile
    job,        \* what is done for each request
    refusals

vars == <<parts, profile, job, refusals>>

\* options: what a creation makes or a clone copies besides the role.
\* errors: does action_results hold an error?  todo: what is left of a list,
\* and then what follows it; hand: the policy just fetched.
\* Of the history, had: the parts the source of a clone has had since it
\* began; put: the parts given to the new role; alone: no other request has
\* changed anything, nor AWS refused a call, since this one began.
Idle == [kind |-> "none", pc |-> "idle", on |-> None, source |-> None,
         options |-> {}, todo |-> {}, then |-> "", hand |-> None,
         errors |-> FALSE, had |-> {}, put |-> {}, alone |-> TRUE]

Replies == {"clean", "errors", "failed"}
Busy(j) == j.pc \notin Replies \cup {"idle"}

Held(p, ps) == IF p = None \/ p \notin DOMAIN ps THEN {}
               ELSE IF ps[p] = None THEN {} ELSE ps[p]

\* One role exists, with an instance profile or without.
Init ==
    /\ \E of \in {Parts, Inline \cup Keys} :
         parts = [p \in Principals |->
                    IF p \in Users THEN of
                    ELSE IF p = CHOOSE r \in Roles : TRUE
                    THEN Managed \cup Inline ELSE None]
    /\ profile \in {f \in [Roles -> {"none", "attached"}] :
                      \A r \in Roles : f[r] = "attached" => parts[r] # None}
    /\ job = [q \in Requests |-> Idle]
    /\ refusals = 0

-----------------------------------------------------------------------------
(***************************************************************************)
(* A call: what it makes of AWS, and what the request does next.           *)
(***************************************************************************)
Call(q, j, ps, pr) ==
    /\ parts' = ps /\ profile' = pr
    /\ job' = [x \in Requests |->
                 IF x = q THEN [j EXCEPT !.had = @ \cap Held(j.source, ps)]
                 ELSE IF Busy(job[x]) /\ <<ps, pr>> # <<parts, profile>>
                 THEN [job[x] EXCEPT !.alone = FALSE,
                                     !.had = @ \cap Held(job[x].source, ps)]
                 ELSE job[x]]
    /\ UNCHANGED refusals
Reads(q, j) == Call(q, j, parts, profile)

Goto(j, pc) == [j EXCEPT !.pc = pc]
Reply(j)    == Goto(j, IF j.errors THEN "errors" ELSE "clean")
Failed(j)   == Goto(j, "failed")     \* the exception reaches the handler

\* After the instance profile, a clone looks the new role up to give it more.
AfterProfile(j) == IF j.kind = "create" THEN Reply(j) ELSE Goto(j, "find")

\* Calls whose errors are noted and passed over; the others raise.
\* Mutant: an error of copying a policy is not noted.
AfterErrorQuiet(j) ==
    CASE j.pc = "create"             -> Reply([j EXCEPT !.errors = TRUE])
      [] j.pc \in {"profile", "add"} -> AfterProfile([j EXCEPT !.errors = TRUE])
      [] j.pc = "put"                -> Goto(j, "copy")
      [] OTHER                       -> Failed(j)
AfterError(j) ==
    LET noted == [j EXCEPT !.errors = TRUE] IN
    CASE j.pc = "create"             -> Reply(noted)
      [] j.pc \in {"profile", "add"} -> AfterProfile(noted)
      [] j.pc = "put"                -> Goto(noted, "copy")
      [] OTHER                       -> Failed(j)

\* AWS refuses: throttled, unreachable, not allowed.
Refused(q) ==
    /\ Busy(job[q]) /\ refusals < MaxRefusals
    /\ refusals' = refusals + 1
    /\ job' = [job EXCEPT ![q] = [AfterError(job[q]) EXCEPT !.alone = FALSE]]
    /\ UNCHANGED <<parts, profile>>

-----------------------------------------------------------------------------
(***************************************************************************)
(* create_iam_role and clone_iam_role                                      *)
(***************************************************************************)
StartCreate(q, r, options) ==
    /\ job[q] = Idle /\ options \subseteq {"profile"}
    /\ Reads(q, [Idle EXCEPT !.kind = "create", !.pc = "create", !.on = r,
                             !.options = options])

\* The source must be there; what it has is looked at later.
StartClone(q, r, source, options) ==
    /\ job[q] = Idle /\ options \subseteq {"inline", "managed"}
    /\ parts[source] # None
    /\ Reads(q, [Idle EXCEPT !.kind = "clone", !.pc = "create", !.on = r,
                             !.source = source, !.options = options,
                             !.had = Held(source, parts)])

Create(q, next) ==
    LET j == job[q] IN
    /\ j.pc = "create"
    /\ IF parts[j.on] # None THEN Reads(q, AfterError(j))
       ELSE Call(q, Goto(j, next), [parts EXCEPT ![j.on] = {}], profile)
CreateRole(q) ==
    /\ job[q].kind = "create"
    /\ Create(q, IF "profile" \in job[q].options THEN "profile" ELSE "clean")
CreateClone(q) == job[q].kind = "clone" /\ Create(q, "profiles")

\* Has the source of the clone an instance profile?
FindProfile(q) ==
    LET j == job[q] IN
    /\ j.kind = "clone" /\ j.pc = "profiles"
    /\ Reads(q, IF parts[j.source] = None THEN Failed(j)
                ELSE IF profile[j.source] = "attached" THEN Goto(j, "profile")
                ELSE AfterProfile(j))

CreateProfile(q) ==
    LET j == job[q] IN
    /\ j.pc = "profile"
    /\ IF profile[j.on] # "none" THEN Reads(q, AfterError(j))
       ELSE Call(q, Goto(j, "add"), parts, [profile EXCEPT ![j.on] = "empty"])

AddToProfile(q) ==
    LET j == job[q] IN
    /\ j.pc = "add"
    /\ IF parts[j.on] = None \/ profile[j.on] # "empty" THEN Reads(q, AfterError(j))
       ELSE Call(q, AfterProfile(j), parts, [profile EXCEPT ![j.on] = "attached"])

FindClone(q) ==
    LET j == job[q] IN
    /\ j.pc = "find"
    /\ Reads(q, IF parts[j.on] = None THEN Failed(j) ELSE Goto(j, "inline"))

\* The inline policies of the source are listed and copied, and then the
\* managed ones.
List(q, these, option, then) ==
    LET j == job[q] IN
    /\ j.kind = "clone" /\ j.pc = option
    /\ Reads(q, IF option \notin j.options
                THEN IF then = "end" THEN Reply(j) ELSE Goto(j, then)
                ELSE IF parts[j.source] = None THEN Failed(j)
                ELSE [j EXCEPT !.pc = "copy", !.then = then,
                               !.todo = these \cap parts[j.source]])
ListInline(q)  == List(q, Inline, "inline", "managed")
ListManaged(q) == List(q, Managed, "managed", "end")

\* The document of an inline policy deleted meanwhile cannot be fetched.
Load(q) ==
    LET j == job[q] IN
    /\ j.pc = "copy"
    /\ IF j.todo = {}
       THEN Reads(q, IF j.then = "end" THEN Reply(j) ELSE Goto(j, j.then))
       ELSE \E p \in j.todo :
              Reads(q, IF p \in Inline /\ p \notin Held(j.source, parts)
                       THEN Failed(j)
                       ELSE [j EXCEPT !.pc = "put", !.hand = p, !.todo = @ \ {p}])

Put(q) ==
    LET j == job[q] IN
    /\ j.pc = "put"
    /\ IF parts[j.on] = None THEN Reads(q, AfterError(j))
       ELSE Call(q, [j EXCEPT !.pc = "copy", !.put = @ \cup {j.hand}],
                 [parts EXCEPT ![j.on] = @ \cup {j.hand}], profile)

-----------------------------------------------------------------------------
(***************************************************************************)
(* update_role: the first entry of the event, policies in the order inline *)
(* then managed.  The first call that AWS refuses ends it.                 *)
(***************************************************************************)
Changes == [action : {"attach", "detach"}, part : Inline \cup Managed]

StartUpdate(q, r, changes) ==
    /\ job[q] = Idle /\ Cardinality(changes) \in 1..MaxEvent
    /\ Reads(q, [Idle EXCEPT !.kind = "update", !.pc = "update", !.on = r,
                             !.todo = changes])

Update(q) ==
    LET j == job[q]
        InlineLeft == {c \in j.todo : c.part \in Inline}
        left       == IF InlineLeft # {} THEN InlineLeft ELSE j.todo IN
    /\ j.pc = "update"
    /\ \E c \in left :
         LET missing == \/ parts[j.on] = None
                        \/ c.action = "detach" /\ c.part \notin Held(j.on, parts)
             rest    == [j EXCEPT !.todo = @ \ {c}] IN
         IF missing THEN Reads(q, Failed(j))
         ELSE Call(q, IF rest.todo = {} THEN Reply(rest) ELSE rest,
                   [parts EXCEPT ![j.on] = IF c.action = "attach" THEN @ \cup {c.part}
                                           ELSE @ \ {c.part}], profile)

-----------------------------------------------------------------------------
(***************************************************************************)
(* delete_iam_role and delete_iam_user: take the principal apart, and then *)
(* delete what is left, which AWS does only when nothing is.               *)
(***************************************************************************)
StartDelete(q, p) ==
    /\ job[q] = Idle /\ parts[p] # None
    /\ Reads(q, [Idle EXCEPT !.kind = "delete", !.on = p,
                             !.pc = IF p \in Users THEN "detaching" ELSE "profiles"])

LeaveProfile(q) ==
    LET j == job[q] IN
    /\ j.kind = "delete" /\ j.pc = "profiles"
    /\ IF parts[j.on] = None THEN Reads(q, Failed(j))
       ELSE IF profile[j.on] = "attached"
       THEN Call(q, Goto(j, "deleteProfile"), parts, [profile EXCEPT ![j.on] = "empty"])
       ELSE Reads(q, Goto(j, "detaching"))

\* Mutant: the instance profile is only left.
DeleteProfileNot(q) ==
    /\ job[q].pc = "deleteProfile" /\ Reads(q, Goto(job[q], "detaching"))
DeleteProfile(q) ==
    LET j == job[q] IN
    /\ j.pc = "deleteProfile"
    /\ IF profile[j.on] # "empty" THEN Reads(q, Failed(j))
       ELSE Call(q, Goto(j, "detaching"), parts, [profile EXCEPT ![j.on] = "none"])

\* Mutant: inline policies are left for AWS to delete with the role.
NextPartsFew(p, pc) ==
    IF p \in Users /\ pc # "keys" THEN "keys" ELSE "delete"
NextParts(p, pc) ==
    CASE pc = "detaching" -> "removing"
      [] pc = "removing"  -> IF p \in Users THEN "keys" ELSE "delete"
      [] pc = "keys"      -> "delete"
PartsOf(pc) == CASE pc = "detaching" -> Managed
                 [] pc = "removing"  -> Inline
                 [] pc = "keys"      -> Keys

\* Each kind of parts is listed, and then taken away one by one.
ListParts(q) ==
    LET j == job[q] IN
    /\ j.kind = "delete" /\ j.pc \in {"detaching", "removing", "keys"}
    /\ Reads(q, IF parts[j.on] = None THEN Failed(j)
                ELSE [j EXCEPT !.pc = "take", !.then = NextParts(j.on, j.pc),
                               !.todo = PartsOf(j.pc) \cap parts[j.on]])

\* Policies of a user are detached from "UserName=iam_user", which is no
\* name: the call is never made.
Take(q) ==
    LET j == job[q] IN
    /\ j.pc = "take"
    /\ IF j.todo = {} THEN Reads(q, Goto(j, j.then))
       ELSE \E p \in j.todo :
              IF p \notin Held(j.on, parts) \/ (p \in Managed /\ j.on \in Users)
              THEN Reads(q, Failed(j))
              ELSE Call(q, [j EXCEPT !.todo = @ \ {p}],
                        [parts EXCEPT ![j.on] = @ \ {p}], profile)

Delete(q) ==
    LET j == job[q]
        inUse == j.on \in Roles /\ profile[j.on] = "attached" IN
    /\ j.pc = "delete"
    /\ IF parts[j.on] # {} \/ inUse THEN Reads(q, Failed(j))
       ELSE Call(q, Reply(j), [parts EXCEPT ![j.on] = None], profile)

-----------------------------------------------------------------------------
Starts(q) ==
    \/ \E r \in Roles, options \in SUBSET {"profile"} : StartCreate(q, r, options)
    \/ \E r, source \in Roles, options \in SUBSET {"inline", "managed"} :
         StartClone(q, r, source, options)
    \/ \E r \in Roles, changes \in SUBSET Changes : StartUpdate(q, r, changes)
    \/ \E p \in Principals : StartDelete(q, p)
Goes(q) ==
    \/ CreateRole(q) \/ CreateClone(q) \/ FindProfile(q) \/ CreateProfile(q)
    \/ AddToProfile(q) \/ FindClone(q) \/ ListInline(q) \/ ListManaged(q) \/ Load(q) \/ Put(q)
    \/ Update(q)
    \/ LeaveProfile(q) \/ DeleteProfile(q) \/ ListParts(q) \/ Take(q) \/ Delete(q)

Next == \E q \in Requests : Starts(q) \/ Goes(q) \/ Refused(q)
Spec == Init /\ [][Next]_vars

-----------------------------------------------------------------------------
Kinds == {"none", "create", "clone", "update", "delete"}
Pcs == Replies \cup
         {"idle", "create", "profiles", "profile", "add", "find", "inline", "managed",
          "copy", "put", "update", "deleteProfile", "detaching", "removing", "keys",
          "take", "delete"}
Thens == {"", "managed", "end", "removing", "keys", "delete"}

Jobs == [kind : Kinds, pc : Pcs, on : Principals \cup {None}, source : Roles \cup {None},
         options : SUBSET {"profile", "inline", "managed"},
         todo : SUBSET (Parts \cup Changes), then : Thens, hand : Parts \cup {None},
         errors : BOOLEAN, had : SUBSET Parts, put : SUBSET Parts, alone : BOOLEAN]

TypeOK ==
    /\ parts \in [Principals -> (SUBSET Parts) \cup {None}]
    /\ profile \in [Roles -> {"none", "empty", "attached"}]
    /\ refusals \in 0..MaxRefusals
    /\ job \in [Requests -> Jobs]

\* An instance profile that has lost its role, or never got it, and that
\* nobody is working on is the trace of an operation whose reply said that
\* something went wrong: operations that cross each other may fail, but
\* none leaves an orphan behind and replies that all is well.
OrphansAreReported ==
    (\A q \in Requests : ~Busy(job[q])) =>
        \A r \in Roles :
           (profile[r] # "none" /\ (parts[r] = None \/ profile[r] = "empty")) =>
               \E q \in Requests : job[q].on = r /\ job[q].pc \in {"errors", "failed"}

\* A clone that replies without errors has given the new role every policy
\* it was to copy that the source had all the time, whoever changed either
\* role meanwhile.
CleanCloneIsComplete ==
    \A q \in Requests :
       (job[q].kind = "clone" /\ job[q].pc = "clean") =>
           /\ "inline" \in job[q].options => job[q].had \cap Inline \subseteq job[q].put
           /\ "managed" \in job[q].options => job[q].had \cap Managed \subseteq job[q].put

\* The deletion of a role succeeds unless AWS refuses a call or another
\* request interferes; whatever the role is made of.
DeleteSucceeds(p) ==
    \A q \in Requests :
       (job[q].kind = "delete" /\ job[q].on = p /\ job[q].alone) => job[q].pc # "failed"
RoleDeleteSucceeds == \A r \in Roles : DeleteSucceeds(r)

-----------------------------------------------------------------------------
(***************************************************************************)
(* Why these hold.  A role has no access keys, and is there while it is in *)
(* an instance profile.                                                    *)
(***************************************************************************)
RolesFit(ps, pr) ==
    \A r \in Roles : /\ ps[r] # None => ps[r] \subseteq Managed \cup Inline
                     /\ pr[r] = "attached" => ps[r] # None
RolesInv == RolesFit(parts, profile)

\* Who empties a profile will fill or delete it, or has to report an error.
Answers(j, r) ==
    /\ j.on = r
    /\ \/ j.pc \in {"add", "deleteProfile", "errors", "failed"}
       \/ j.errors /\ Busy(j)
OrphansInv == \A r \in Roles : profile[r] = "empty" => \E q \in Requests : Answers(job[q], r)

\* The stages of each kind of job, and what it works on.
Ready(j) ==
    /\ j.pc = "idle" <=> j.kind = "none"
    /\ j.kind \in {"create", "clone", "update"} => j.on \in Roles
    /\ j.kind = "delete" => j.on \in Principals
    /\ j.kind = "clone" => j.source \in Roles
    /\ j.pc \in {"create", "profile", "add"} => j.kind \in {"create", "clone"}
    /\ j.pc \in {"find", "inline", "managed", "copy", "put"} => j.kind = "clone"
    /\ j.pc = "update" => j.kind = "update" /\ j.todo \subseteq Changes
    /\ j.pc = "profiles" => j.kind \in {"clone", "delete"}
    /\ j.pc \in {"deleteProfile", "detaching", "removing", "keys", "take", "delete"} =>
         j.kind = "delete"
    /\ j.kind = "delete" /\ j.pc \in {"profiles", "deleteProfile"} => j.on \in Roles
    /\ j.pc \in {"copy", "put"} => /\ j.todo \subseteq Managed \cup Inline
                                   /\ j.then \in {"managed", "end"}
    /\ j.pc = "put" => j.hand \in Managed \cup Inline
    /\ j.pc = "take" => j.then \in {"removing", "keys", "delete"}
    /\ j.pc \in {"create", "clean"} => ~j.errors

\* What a clone still has to copy, it has listed.
Coming(j) == j.todo \cup (IF j.pc = "put" THEN {j.hand} ELSE {})
Copying(j, these) == j.pc \in {"copy", "put"} /\ j.then = these
Copies(j) ==
    j.kind = "clone" /\ ~j.errors =>
      /\ Copying(j, "managed") => j.had \cap Inline \subseteq j.put \cup Coming(j)
      /\ Copying(j, "end")     => j.had \cap Managed \subseteq j.put \cup Coming(j)
      /\ "inline" \in j.options /\ (Copying(j, "end") \/ j.pc \in {"managed", "clean"}) =>
           j.had \cap Inline \subseteq j.put
      /\ "managed" \in j.options /\ j.pc = "clean" => j.had \cap Managed \subseteq j.put

\* How far a deletion that nobody disturbs has come.
Deletes(j, ps, pr) ==
    j.kind = "delete" /\ j.on \in Roles /\ j.alone =>
      /\ j.pc # "failed"
      /\ Busy(j) => ps[j.on] # None
      /\ j.pc = "deleteProfile" => pr[j.on] = "empty"
      /\ j.pc \in {"detaching", "removing", "take", "delete"} => pr[j.on] # "attached"
      /\ j.pc = "take" => j.then \in {"removing", "delete"}
      /\ j.pc # "keys"
      /\ j.pc = "take" /\ j.then = "removing" => j.todo = Managed \cap ps[j.on]
      /\ j.pc = "take" /\ j.then = "delete"   => j.todo = Inline \cap ps[j.on]
      /\ j.pc \in {"removing", "delete"} \/ (j.pc = "take" /\ j.then = "delete") =>
           Managed \cap ps[j.on] = {}
      /\ j.pc = "delete" => Inline \cap ps[j.on] = {}

JobsInv ==
    \A q \in Requests :
       /\ Ready(job[q]) /\ Copies(job[q]) /\ Deletes(job[q], parts, profile)
       /\ Busy(job[q]) => job[q].had \subseteq Held(job[q].source, parts)

=============================================================================
