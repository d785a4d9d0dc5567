--------------------------- MODULE PolicyRequest ---------------------------
(***************************************************************************)
(* One ConsoleMe policy request: the item kept in the policy_requests      *)
(* DynamoDB table, and the web handlers that read it, act on AWS and write *)
(* it back.                                                                *)
(*                                                                         *)
(*   POST /api/v2/requests            RequestHandler.post                  *)
(*   PUT  /api/v2/requests/{id}       RequestDetailHandler.put, and under  *)
(*                    it parse_and_apply_policy_request_modification       *)
(*   GET  /api/v2/requests/{id}       RequestDetailHandler.get, which may  *)
(*                    write the request back after refreshing it           *)
(*                                                                         *)
(* A handler call is a session.  It reads the whole item once, works on    *)
(* its own copy, awaits AWS, and puts the whole copy back: there is no     *)
(* version attribute, no condition on the write and no lock, so the steps  *)
(* of several sessions interleave freely between those points.  A guard    *)
(* that raises an exception before anything is changed is a call that      *)
(* does nothing, and is modelled as the action not being enabled.          *)
(*                                                                         *)
(* AWS is represented by what it accepted: sent[c] is the set of policy    *)
(* documents it took for change c and uses[c] counts the calls that        *)
(* changed its state on behalf of c.                                       *)
(***************************************************************************)
EXTENDS Integers, FiniteSets

CONSTANTS
    Changes,    \* the changes of the request (ChangeModel.id)
    Kind,       \* the change_type of each, up to how it is applied
    Docs,       \* policy documents a change may carry
    Users,      \* authenticated users
    Admins,     \* users for whom can_admin_policies holds
    Sessions,   \* handler calls that may be in flight together
    Commands,   \* which handlers and commands are called
    Faults,     \* what may fail besides AWS refusing a call
    MaxCalls    \* bound on the number of handler calls

\* inline:         inline_policy, assume_role_policy
\* attachment:     managed_policy, permissions_boundary
\* tag:            resource_tag of a role or user
\* foreign_tag:    resource_tag of a managed policy or of a non-IAM resource
\* managed_policy: managed_policy_resource
\* resource:       resource_policy, sts_resource_policy
Kinds == {"inline", "attachment", "tag", "foreign_tag", "managed_policy", "resource"}

\* The change types whose policy document update_change and apply_change may
\* replace.
Editable == {"inline", "resource", "managed_policy"}

\* The change types that go through apply_changes_to_role and are followed by
\* a forced refresh of the role.
OnPrincipal == {"inline", "attachment", "tag"}

\* A tag rename takes two AWS calls, tag and untag.
TwoCalls == {"tag", "foreign_tag"}

PutCommands == {"add_comment", "update_change", "apply_change", "cancel_change",
                "cancel_request", "reject_request", "move_back_to_pending",
                "approve_request"}
AllCommands == PutCommands \cup {"create", "view"}

\* write: a put to DynamoDB raises;  read: a read of the principal from AWS
\* raises;  reply: AWS did what it was asked but the call raised (a timeout, or
\* a later call of the same try block);  crash: the web process dies.
AllFaults == {"write", "read", "reply", "crash"}

ASSUME ConstantsOK ==
    /\ Kind \in [Changes -> Kinds]
    /\ Changes # {} /\ Docs # {} /\ Users # {}
    /\ Admins \subseteq Users
    /\ Commands \subseteq AllCommands
    /\ Faults \subseteq AllFaults
    /\ MaxCalls \in Nat

ChangeStatus  == {"not_applied", "applied", "cancelled"}
RequestStatus == {"pending", "cancelled", "approved", "rejected"}
Closed        == {"cancelled", "rejected"}

\* ExtendedRequestModel, up to what the handlers decide on.  status "absent"
\* stands for the item not existing yet.  supp is ChangeModel.supported, whose
\* third value is None; auto is autogenerated; a comment is the number of the
\* call that added it.
Request == [status    : RequestStatus \cup {"absent"},
            chg       : [Changes -> ChangeStatus],
            doc       : [Changes -> Docs],
            auto      : [Changes -> BOOLEAN],
            supp      : [Changes -> {"yes", "no", "unset"}],
            requester : Users,
            reviewer  : Users \cup {"nobody", "probe"},
            comments  : SUBSET Nat]

NoRequest == [status    |-> "absent",
              chg       |-> [c \in Changes |-> "not_applied"],
              doc       |-> [c \in Changes |-> CHOOSE d \in Docs : TRUE],
              auto      |-> [c \in Changes |-> FALSE],
              supp      |-> [c \in Changes |-> "unset"],
              requester |-> CHOOSE u \in Users : TRUE,
              reviewer  |-> "nobody",
              comments  |-> {}]

\* Where a session is: the next access to DynamoDB or AWS it will make.
Points == {"idle", "create", "next", "final", "aws", "refresh", "write",
           "settle", "view", "viewwrite", "reply"}

Call == [pc     : Points,
         cmd    : AllCommands,
         user   : Users,
         target : Changes,          \* the change being worked on
         copy   : Request,          \* extended_request in the handler's memory
         failed : BOOLEAN,          \* response.errors > 0
         todo   : SUBSET Changes,   \* creation: changes still to be applied
         probe  : BOOLEAN,          \* approval_probe_approved
         again  : BOOLEAN]          \* view: a second write is to follow

NoCall == [pc     |-> "idle",
           cmd    |-> "view",
           user   |-> CHOOSE u \in Users : TRUE,
           target |-> CHOOSE c \in Changes : TRUE,
           copy   |-> NoRequest,
           failed |-> FALSE,
           todo   |-> {},
           probe  |-> FALSE,
           again  |-> FALSE]

VARIABLES
    stored,     \* the item in the policy_requests table
    aged,       \* its last_updated is more than a day ago
    call,       \* the handler calls in flight
    calls,      \* how many calls have been made
    sent,       \* AWS: the documents accepted for each change
    uses        \* AWS: the number of calls that changed its state

vars == <<stored, aged, call, calls, sent, uses>>

Init ==
    /\ stored = NoRequest
    /\ aged = FALSE
    /\ call = [s \in Sessions |-> NoCall]
    /\ calls = 0
    /\ sent = [c \in Changes |-> {}]
    /\ uses = [c \in Changes |-> 0]

-----------------------------------------------------------------------------
(* Helpers.                                                                *)

SomeChange == CHOOSE c \in Changes : TRUE

HasApplied(r) == \E c \in Changes : r.chg[c] = "applied"

\* The changes maybe_approve_reject_request counts as pending.
Outstanding(r) ==
    {c \in Changes : /\ r.chg[c] = "not_applied"
                     /\ ~(Kind[c] = "resource" /\ r.supp[c] = "no")
                     /\ ~r.auto[c]}

BecomesApproved(r) == HasApplied(r) /\ Outstanding(r) = {}

BecomesCancelled(r) ==
    /\ ~HasApplied(r) /\ Outstanding(r) = {}
    /\ \E c \in Changes : r.chg[c] = "cancelled"

Settles(r) == BecomesApproved(r) \/ BecomesCancelled(r)

Settled(r, u) ==
    [r EXCEPT !.status = IF BecomesApproved(r) THEN "approved" ELSE "cancelled",
              !.reviewer = u]

\* Session s goes on as the call n.
Continue(s, n) == call' = [call EXCEPT ![s] = n]

\* An exception that no handler below the web framework catches, or the end of
\* the call.
EndCall(s) == Continue(s, NoCall)

\* write_policy_request_v2: a put of the whole item, stamped with the time.
Save(r) == stored' = r /\ aged' = FALSE

UnchangedItem == UNCHANGED <<stored, aged>>
UnchangedAws  == UNCHANGED <<sent, uses>>

\* A handler starts: it has read the item and stands at point p with copy r.
Receive(s, u, command, c, r, p, fails) ==
    /\ call[s].pc = "idle"
    /\ command \in Commands
    /\ calls < MaxCalls
    /\ calls' = calls + 1
    /\ Continue(s, [NoCall EXCEPT !.pc = p, !.cmd = command, !.user = u,
                                  !.target = c, !.copy = r, !.failed = fails])
    /\ UnchangedItem
    /\ UnchangedAws

-----------------------------------------------------------------------------
(* PUT: one action per command, from the read of the item to the first     *)
(* await that leaves the process.                                          *)

Exists == stored.status # "absent"

\* Mutant: closed requests accept every command.
StillOpenAlways == Exists

StillOpen == Exists /\ stored.status \notin Closed

AddComment(s, u) ==
    /\ Exists
    /\ Receive(s, u, "add_comment", SomeChange,
               [stored EXCEPT !.comments = @ \cup {calls + 1}], "write", FALSE)

\* can_update_cancel_requests_v2
MayUpdate(u) == u = stored.requester \/ u \in Admins

\* Mutant: the status of the change is not looked at.
UpdateAnyChange(s, u, c, d) ==
    /\ StillOpen /\ MayUpdate(u)
    /\ Kind[c] \in Editable
    /\ Receive(s, u, "update_change", c, [stored EXCEPT !.doc[c] = d], "write", FALSE)

UpdateChange(s, u, c, d) ==
    /\ StillOpen /\ MayUpdate(u)
    /\ Kind[c] \in Editable
    /\ stored.chg[c] = "not_applied"
    /\ Receive(s, u, "update_change", c,
               [stored EXCEPT !.doc[c] = d,
                              !.auto[c] = @ /\ Kind[c] # "resource"],
               "write", FALSE)

ApplyChange(s, u, c, d) ==
    /\ StillOpen /\ u \in Admins
    /\ stored.chg[c] = "not_applied"
    /\ Kind[c] \in Editable \/ d = stored.doc[c]
    /\ Receive(s, u, "apply_change", c, [stored EXCEPT !.doc[c] = d], "aws", FALSE)

CancelChange(s, u, c) ==
    /\ StillOpen
    /\ stored.chg[c] = "not_applied"
    /\ Receive(s, u, "cancel_change", c,
               [stored EXCEPT !.chg[c] = "cancelled"], "write", FALSE)

\* Mutant: applied changes do not keep a request from being closed.
CloseAnyRequest(s, u, command, outcome) ==
    /\ stored.status = "pending"
    /\ Receive(s, u, command, SomeChange,
               [stored EXCEPT !.status = outcome, !.reviewer = u], "write", FALSE)

\* cancel_request and reject_request: a request with an applied change is not
\* closed, only re-evaluated.
CloseRequest(s, u, command, outcome) ==
    /\ stored.status = "pending"
    /\ \/ /\ HasApplied(stored)
          /\ Receive(s, u, command, SomeChange, stored, "settle", TRUE)
       \/ /\ ~HasApplied(stored)
          /\ Receive(s, u, command, SomeChange,
                     [stored EXCEPT !.status = outcome, !.reviewer = u],
                     "write", FALSE)

CancelRequest(s, u) ==
    MayUpdate(u) /\ CloseRequest(s, u, "cancel_request", "cancelled")

RejectRequest(s, u) ==
    u \in Admins /\ CloseRequest(s, u, "reject_request", "rejected")

\* can_move_back_to_pending_v2: an admin, within a day of the last update.
MoveBackToPending(s, u) ==
    /\ stored.status \in Closed /\ u \in Admins /\ ~aged
    /\ Receive(s, u, "move_back_to_pending", SomeChange,
               [stored EXCEPT !.status = "pending"], "write", FALSE)

ApproveRequest(s, u) ==
    /\ stored.status = "pending" /\ u \in Admins
    /\ Receive(s, u, "approve_request", SomeChange,
               [stored EXCEPT !.status = "approved", !.reviewer = u],
               "write", FALSE)

-----------------------------------------------------------------------------
(* Applying a change: the AWS call, the forced refresh of the role, and    *)
(* the write of the result.                                                *)

\* apply_resource_policy_change gives up when change.supported is not True.
Applicable(r, c) == Kind[c] # "resource" \/ r.supp[c] = "yes"

\* Mutant: a change off the principal is not written when it succeeds.
AfterAwsForgets(me, r) ==
    IF Kind[me.target] \in OnPrincipal THEN "refresh" ELSE "settle"

\* Where the call goes once the apply_* function has returned with copy r.
AfterAws(me, r) ==
    IF Kind[me.target] \in OnPrincipal THEN "refresh"
    ELSE IF r.chg[me.target] = "applied" THEN "write" ELSE "settle"

AwsUsed(c) == uses' = [uses EXCEPT ![c] = @ + 1]

AwsAccepts(s) ==
    LET me == call[s]
        c  == me.target
        r  == [me.copy EXCEPT !.chg[c] = "applied"]
    IN  /\ me.pc = "aws"
        /\ Applicable(me.copy, c)
        /\ sent' = [sent EXCEPT ![c] = @ \cup {me.copy.doc[c]}]
        /\ AwsUsed(c)
        /\ Continue(s, [me EXCEPT !.pc = AfterAws(me, r), !.copy = r])
        /\ UnchangedItem /\ UNCHANGED calls

AwsRefuses(s) ==
    LET me == call[s]
    IN  /\ me.pc = "aws"
        /\ Continue(s, [me EXCEPT !.pc = AfterAws(me, me.copy), !.failed = TRUE])
        /\ UnchangedItem /\ UnchangedAws /\ UNCHANGED calls

\* A tag is renamed by tagging with the new key and untagging the old one; the
\* second call fails.
AwsDoesHalf(s) ==
    LET me == call[s]
    IN  /\ me.pc = "aws"
        /\ Kind[me.target] \in TwoCalls
        /\ AwsUsed(me.target)
        /\ Continue(s, [me EXCEPT !.pc = AfterAws(me, me.copy), !.failed = TRUE])
        /\ UnchangedItem /\ UNCHANGED <<sent, calls>>

\* AWS accepted the change but the try block raised.
AwsReplyLost(s) ==
    LET me == call[s]
        c  == me.target
    IN  /\ "reply" \in Faults
        /\ me.pc = "aws"
        /\ Applicable(me.copy, c)
        /\ sent' = [sent EXCEPT ![c] = @ \cup {me.copy.doc[c]}]
        /\ AwsUsed(c)
        /\ Continue(s, [me EXCEPT !.pc = AfterAws(me, me.copy), !.failed = TRUE])
        /\ UnchangedItem /\ UNCHANGED calls

\* Mutant: a change to the principal is not written when it succeeds.
RefreshRoleForgets(s) ==
    /\ call[s].pc = "refresh"
    /\ Continue(s, [call[s] EXCEPT !.pc = "settle"])
    /\ UnchangedItem /\ UnchangedAws /\ UNCHANGED calls

\* aws.fetch_iam_role(force_refresh=True), after apply_changes_to_role and
\* after approve_request has been written.
RefreshRole(s) ==
    LET me == call[s]
    IN  /\ me.pc = "refresh"
        /\ Continue(s, [me EXCEPT !.pc =
               IF me.cmd # "approve_request" /\ me.copy.chg[me.target] = "applied"
               THEN "write" ELSE "settle"])
        /\ UnchangedItem /\ UnchangedAws /\ UNCHANGED calls

\* populate_old_policies, populate_old_managed_policies, fetch_iam_role or the
\* assumption of the role used for the change raises, and nothing between it
\* and the web framework catches it.  apply_resource_policy_change does all of
\* this inside its try block;  of the foreign tags, those of managed policies
\* do not.
ReadPoints == {"aws", "refresh", "view"}

AwsReadFails(s) ==
    /\ "read" \in Faults
    /\ call[s].pc \in ReadPoints
    /\ call[s].pc = "aws" => Kind[call[s].target] # "resource"
    /\ EndCall(s)
    /\ UnchangedItem /\ UnchangedAws /\ UNCHANGED calls

\* Mutant: a failed write is swallowed and not counted.
WriteFailsSilently(s, p) ==
    /\ "write" \in Faults
    /\ UnchangedItem
    /\ Continue(s, [call[s] EXCEPT !.pc = p])

\* _update_dynamo_with_change: a failed write is counted and swallowed.
WriteFails(s, p) ==
    /\ "write" \in Faults
    /\ UnchangedItem
    /\ Continue(s, [call[s] EXCEPT !.pc = p, !.failed = TRUE])

\* Mutant: cancel_change returns without re-evaluating the request.
WriteChangeReturns(s) ==
    LET me    == call[s]
        after == IF me.cmd = "cancel_change" THEN "reply" ELSE "settle"
    IN  /\ me.pc = "write"
        /\ Save(me.copy) /\ Continue(s, [me EXCEPT !.pc = after])
        /\ UnchangedAws /\ UNCHANGED calls

WriteChange(s) ==
    LET me    == call[s]
        after == IF me.cmd = "approve_request" THEN "refresh" ELSE "settle"
    IN  /\ me.pc = "write"
        /\ \/ Save(me.copy) /\ Continue(s, [me EXCEPT !.pc = after])
           \/ WriteFails(s, after)
        /\ UnchangedAws /\ UNCHANGED calls

\* maybe_approve_reject_request, the last thing every command does.
MaybeApproveReject(s) ==
    LET me    == call[s]
        r     == Settled(me.copy, me.user)
        after == IF me.cmd = "create" THEN "next" ELSE "reply"
    IN  /\ me.pc = "settle"
        /\ \/ /\ ~Settles(me.copy)
              /\ Continue(s, [me EXCEPT !.pc = after])
              /\ UnchangedItem
           \/ /\ Settles(me.copy)
              /\ Save(r)
              /\ Continue(s, [me EXCEPT !.pc = after, !.copy = r])
           \/ /\ Settles(me.copy)
              /\ "write" \in Faults
              /\ Continue(s, [me EXCEPT !.pc = after, !.copy = r, !.failed = TRUE])
              /\ UnchangedItem
        /\ UnchangedAws /\ UNCHANGED calls

Reply(s) ==
    /\ call[s].pc = "reply"
    /\ EndCall(s)
    /\ UnchangedItem /\ UnchangedAws /\ UNCHANGED calls

-----------------------------------------------------------------------------
(* POST: creation, with the two ways of being approved on submission.      *)

\* is_request_eligible_for_auto_approval
Eligible(r) ==
    \A c \in Changes : Kind[c] = "inline" \/ (Kind[c] = "resource" /\ r.auto[c])

\* generate_request_from_change_model_array: a submitted resource policy has
\* supported set, a generated one has not.
NewRequests(u) ==
    {r \in [status    : {"pending"},
            chg       : {NoRequest.chg},
            doc       : {NoRequest.doc},
            auto      : [Changes -> BOOLEAN],
            supp      : [Changes -> {"yes", "no", "unset"}],
            requester : {u},
            reviewer  : {"nobody"},
            comments  : {{}}] :
        \A c \in Changes :
            /\ r.auto[c] => Kind[c] = "resource"
            /\ r.supp[c] = "unset" <=> (Kind[c] # "resource" \/ r.auto[c])}

\* plain: left to a reviewer;  admin: admin_auto_approve was asked for, and the
\* test of can_admin_policies is a non-empty tuple, so it never refuses;
\* probe: the approval probes accepted an eligible request.
Submitted(r, mode) ==
    CASE mode = "plain" -> r
      [] mode = "admin" -> [r EXCEPT !.status = "approved", !.reviewer = r.requester]
      [] mode = "probe" -> [r EXCEPT !.status = "approved", !.reviewer = "probe"]

\* The request id is fresh: no other call creates this request.
CreateRequest(s, u, r, mode) ==
    /\ stored.status = "absent"
    /\ \A t \in Sessions : call[t].cmd # "create"
    /\ mode = "probe" => Eligible(r)
    /\ call[s].pc = "idle"
    /\ "create" \in Commands
    /\ calls < MaxCalls
    /\ calls' = calls + 1
    /\ Continue(s, [NoCall EXCEPT !.pc = "create", !.cmd = "create", !.user = u,
                                  !.copy = Submitted(r, mode),
                                  !.todo = {c \in Changes : ~r.auto[c]},
                                  !.probe = (mode = "probe")])
    /\ UnchangedItem
    /\ UnchangedAws

\* The request is stored, approved or not, before any of it is applied.
CreateWrite(s) ==
    LET me == call[s]
    IN  /\ me.pc = "create"
        /\ \/ /\ Save(me.copy)
              /\ Continue(s, [me EXCEPT !.pc =
                     IF me.copy.status = "approved" THEN "next" ELSE "reply"])
           \/ /\ "write" \in Faults
              /\ EndCall(s)
              /\ UnchangedItem
        /\ UnchangedAws /\ UNCHANGED calls

\* Mutant: applying on submission asks for no authorization.
ApplyNextUnchecked(s) ==
    LET me == call[s]
    IN  /\ me.pc = "next"
        /\ \E c \in me.todo :
              Continue(s, [me EXCEPT !.pc = "aws", !.target = c,
                                     !.todo = @ \ {c}, !.failed = FALSE])
        /\ UnchangedItem /\ UnchangedAws /\ UNCHANGED calls

\* One turn of the loop over the changes.  The position of a change in the
\* list means nothing, so any of the remaining ones may come next.  The error
\* count of the response is the one of the change handled last.
ApplyNext(s) ==
    LET me == call[s]
    IN  /\ me.pc = "next"
        /\ \E c \in me.todo :
              IF me.probe \/ me.user \in Admins
              THEN Continue(s, [me EXCEPT !.pc = "aws", !.target = c,
                                          !.todo = @ \ {c}, !.failed = FALSE])
              ELSE EndCall(s)
        /\ UnchangedItem /\ UnchangedAws /\ UNCHANGED calls

ApplyDone(s) ==
    LET me == call[s]
    IN  /\ me.pc = "next" /\ me.todo = {}
        /\ Continue(s, [me EXCEPT !.pc = "final"])
        /\ UnchangedItem /\ UnchangedAws /\ UNCHANGED calls

CreateFinalWrite(s) ==
    LET me == call[s]
    IN  /\ me.pc = "final"
        /\ \/ /\ Save(me.copy)
              /\ Continue(s, [me EXCEPT !.pc = "reply"])
           \/ /\ "write" \in Faults
              /\ EndCall(s)
              /\ UnchangedItem
        /\ UnchangedAws /\ UNCHANGED calls

-----------------------------------------------------------------------------
(* GET: the page view refreshes what it shows and may write it back.       *)

ViewRequest(s, u) ==
    /\ Exists
    /\ Receive(s, u, "view", SomeChange, stored, "view", FALSE)

\* The resource policy changes populate_cross_account_resource_policies looks
\* at, and the managed policy changes populate_old_managed_policies does.
Refreshable(r, kind) == {c \in Changes : Kind[c] = kind /\ r.chg[c] # "applied"}

\* AWS is read outside of this model: supported, and whether the resource has
\* another policy than the old_policy on record, are any values.  Only then is
\* an autogenerated document generated again.
Populate(s) ==
    LET me == call[s]
        rs == Refreshable(me.copy, "resource")
        ms == Refreshable(me.copy, "managed_policy")
    IN  /\ me.pc = "view"
        /\ \E supp \in [rs -> {"yes", "no"}], docs \in [rs -> Docs],
              changed \in SUBSET rs, managed \in SUBSET ms :
              LET r == [me.copy EXCEPT
                         !.supp = [c \in Changes |->
                                     IF c \in rs THEN supp[c] ELSE @[c]],
                         !.doc  = [c \in Changes |->
                                     IF c \in changed /\ me.copy.auto[c]
                                     THEN docs[c] ELSE @[c]]]
                  p == IF changed \cup managed = {} THEN "reply" ELSE "viewwrite"
              IN  Continue(s, [me EXCEPT !.pc = p, !.copy = r,
                                         !.again = changed # {} /\ managed # {}])
        /\ UnchangedItem /\ UnchangedAws /\ UNCHANGED calls

\* Both refreshes write the whole request when they changed something.
ViewWrite(s) ==
    LET me == call[s]
    IN  /\ me.pc = "viewwrite"
        /\ \/ /\ Save(me.copy)
              /\ Continue(s, [me EXCEPT !.pc = IF me.again THEN @ ELSE "reply",
                                        !.again = FALSE])
           \/ /\ "write" \in Faults
              /\ EndCall(s)
              /\ UnchangedItem
        /\ UnchangedAws /\ UNCHANGED calls

-----------------------------------------------------------------------------
(* The environment.                                                        *)

\* The process dies at an await.  A notification that raises after a write ends
\* the call the same way.
ProcessDies(s) ==
    /\ "crash" \in Faults
    /\ call[s].pc # "idle"
    /\ EndCall(s)
    /\ UnchangedItem /\ UnchangedAws /\ UNCHANGED calls

DayPasses ==
    /\ Exists /\ ~aged
    /\ aged' = TRUE
    /\ UNCHANGED <<stored, call, calls, sent, uses>>

\* A new call by some client.
Incoming(s) ==
    \E u \in Users :
        \/ AddComment(s, u)
        \/ \E c \in Changes, d \in Docs : UpdateChange(s, u, c, d)
        \/ \E c \in Changes, d \in Docs : ApplyChange(s, u, c, d)
        \/ \E c \in Changes : CancelChange(s, u, c)
        \/ CancelRequest(s, u)
        \/ RejectRequest(s, u)
        \/ MoveBackToPending(s, u)
        \/ ApproveRequest(s, u)
        \/ ViewRequest(s, u)
        \/ \E r \in NewRequests(u), mode \in {"plain", "admin", "probe"} :
              CreateRequest(s, u, r, mode)

\* A call in flight goes on.
Progress(s) ==
    \/ AwsAccepts(s) \/ AwsRefuses(s) \/ AwsDoesHalf(s) \/ AwsReplyLost(s)
    \/ RefreshRole(s) \/ AwsReadFails(s)
    \/ WriteChange(s) \/ MaybeApproveReject(s) \/ Reply(s)
    \/ CreateWrite(s) \/ ApplyNext(s) \/ ApplyDone(s) \/ CreateFinalWrite(s)
    \/ Populate(s) \/ ViewWrite(s)

Next ==
    \/ \E s \in Sessions : Incoming(s) \/ Progress(s) \/ ProcessDies(s)
    \/ DayPasses

Spec == Init /\ [][Next]_vars

\* The event loop resumes every coroutine whose await has completed.
FairSpec == Spec /\ \A s \in Sessions : WF_vars(Progress(s))
-----------------------------------------------------------------------------
(* Properties.                                                             *)

\* Every variable keeps the shape the handlers give it: the item is a request,
\* a call stands at one of its await points and works on a request.
TypeOK ==
    /\ stored \in Request
    /\ aged \in BOOLEAN
    /\ call \in [Sessions -> Call]
    /\ calls \in Nat
    /\ sent \in [Changes -> SUBSET Docs]
    /\ uses \in [Changes -> Nat]

\* What holds of every copy of the request: DocsIn(r, S), the documents of its
\* applied changes are among S, and ClosedClean(r), it is not closed with an
\* applied change.
DocsIn(r, S)   == \A c \in Changes : r.chg[c] = "applied" => r.doc[c] \in S[c]
ClosedClean(r) == r.status \in Closed => ~HasApplied(r)
Good(r, S)     == DocsIn(r, S) /\ ClosedClean(r)

\* What holds of a call, and makes the two inductive: it applies a change only
\* of a request it read as open and when entitled to, and a submission cancels
\* nothing.
Entitled(me) ==
    /\ me.pc = "aws" =>
          /\ me.copy.status \notin Closed
          /\ me.cmd \in {"apply_change", "create"}
          /\ me.user \in Admins \/ me.probe
    /\ me.pc \in {"create", "next"} => me.cmd = "create"
    /\ me.cmd = "create" =>
          /\ me.copy.status \notin Closed
          /\ \A c \in Changes : me.copy.chg[c] # "cancelled"

\* The inductive invariant: every copy of the request, stored or in the memory
\* of a call, is good by itself, because it is only ever read and written whole.
CopiesInv ==
    /\ TypeOK
    /\ Good(stored, sent)
    /\ \A s \in Sessions : Good(call[s].copy, sent) /\ Entitled(call[s])

\* The copies of the request there are: the item and one per call.
Copies == {stored} \cup {call[s].copy : s \in Sessions}

\* Whatever the interleaving and whatever fails, a change shown as applied
\* carries a document that AWS accepted for it: page views and updates, which
\* replace documents, never touch the document of an applied change.
AppliedDocumentWasSent ==
    \A r \in Copies, c \in Changes :
        r.chg[c] = "applied" => r.doc[c] \in sent[c]

\* No interleaving and no failure leaves an item that says both "rejected" or
\* "cancelled" and "this change is applied".
ClosedItemShowsNothingApplied ==
    \A r \in Copies : r.status \in Closed => ~HasApplied(r)

\* AWS is changed only by a call that read the request while it was open, made
\* by an administrator or approved by a probe on submission.
AwsChangedOnlyByEntitledCalls ==
    [][\A c \in Changes : uses'[c] # uses[c] =>
          \E s \in Sessions :
              /\ call[s].target = c
              /\ call[s].cmd \in {"apply_change", "create"}
              /\ call[s].copy.status \notin Closed
              /\ call[s].user \in Admins \/ call[s].probe]_vars

NoCallInFlight == \A s \in Sessions : call[s].pc = "idle"

\* At rest the item and AWS agree: a change is recorded as applied exactly when
\* AWS was changed for it.
RecordMatchesAws ==
    NoCallInFlight =>
        \A c \in Changes : stored.chg[c] = "applied" <=> uses[c] > 0

\* The record of an applied change, its status and its document, is history:
\* no later write alters it.
AppliedRecordsKept ==
    [][\A c \in Changes : stored.chg[c] = "applied" =>
          stored'.chg[c] = "applied" /\ stored'.doc[c] = stored.doc[c]]_vars

\* A command that reports no error has left in DynamoDB exactly the request it
\* worked on, even when some of its writes failed.
CleanReplyMeansStored ==
    \A s \in Sessions :
        call[s].pc = "reply" /\ call[s].cmd \in PutCommands /\ ~call[s].failed
            => stored = call[s].copy

\* When a command replies, the item is not left pending with nothing to do.
ReplyLeavesNothingToSettle ==
    \A s \in Sessions :
        call[s].pc = "reply" /\ call[s].cmd \in PutCommands
            => ~(stored.status = "pending" /\ Settles(stored))

\* What AWS was changed for ends up recorded as applied.
AppliedGetsRecorded ==
    \A c \in Changes : (uses[c] > 0) ~> (stored.chg[c] = "applied")

\* Used by one call at a time, with no write failing, the request lives the life
\* RequestLifecycle promises: a change is dealt with once, a closed request has
\* had nothing applied, and the status changes only along its five kinds of step.
Lifecycle == INSTANCE RequestLifecycle WITH status <- stored.status, chg <- stored.chg
FollowsLifecycle == Lifecycle!Spec

-----------------------------------------------------------------------------
(* Handler calls that do not overlap: how the copy of the one call in      *)
(* flight differs from the item.                                           *)

OneCallAtATime == \A s, t \in Sessions : s = t

\* No change is recorded as applied before there is a request.
AbsentIsFresh == stored.status = "absent" => stored.chg = NoRequest.chg

InFlight(me) == me.pc # "idle"

\* Copy r has the applied changes of item st as they are recorded.
Keeps(st, r) ==
    \A c \in Changes : st.chg[c] = "applied" =>
        r.chg[c] = "applied" /\ r.doc[c] = st.doc[c]

\* Whatever fails: the copy keeps the record of applied changes, and a command
\* that has seen no error holds what is stored or is still to write it.
Holds(me, st) ==
    /\ me.copy.status # "absent" /\ Keeps(st, me.copy)
    /\ me.pc \in {"create", "next", "final"} => me.cmd = "create"
    /\ me.pc \in {"view", "viewwrite"} => me.cmd = "view"
    /\ me.cmd \in PutCommands /\ ~me.failed =>
          /\ me.pc \in {"settle", "reply"} => st = me.copy
          /\ me.pc = "refresh" =>
                \/ st = me.copy
                \/ me.cmd # "approve_request" /\ me.copy.chg[me.target] = "applied"

\* The kinds of step of RequestLifecycle, as the difference that a write makes.
SameLife(st, r) == st.status = r.status /\ st.chg = r.chg

Decided(st, r, c, outcome) ==
    /\ st.status = r.status /\ st.status \in {"pending", "approved"}
    /\ st.chg[c] = "not_applied" /\ r.chg = [st.chg EXCEPT ![c] = outcome]

Disposed(st, r) ==
    /\ st.status = "pending" /\ st.chg = r.chg
    /\ r.status = "approved" \/ (~HasApplied(st) /\ r.status \in Closed)

Reopened(st, r) ==
    st.status \in Closed /\ r.status = "pending" /\ st.chg = r.chg

Written(st, r) ==
    \/ SameLife(st, r) \/ Disposed(st, r) \/ Reopened(st, r)
    \/ \E c \in Changes, outcome \in {"applied", "cancelled"} : Decided(st, r, c, outcome)

\* Where no write fails: a command is one step of the life away from the item
\* when it stands before its write, and agrees with it everywhere else.
Lives(me, st) ==
    /\ me.pc \in {"view", "viewwrite", "next", "aws", "settle", "final", "reply"} =>
          SameLife(st, me.copy)
    /\ me.pc = "create" =>
          /\ st.status = "absent" /\ st.chg = me.copy.chg
          /\ me.copy.status \in {"pending", "approved"}
    /\ me.pc = "aws" => me.copy.chg[me.target] = "not_applied"
    /\ me.pc = "refresh" =>
          \/ SameLife(st, me.copy)
          \/ me.cmd # "approve_request" /\ Decided(st, me.copy, me.target, "applied")
    /\ me.pc = "write" => Written(st, me.copy)
    /\ me.cmd = "create" =>
          /\ \A c \in me.todo : me.copy.chg[c] = "not_applied"
          /\ me.pc \in {"aws", "refresh", "write", "settle"} => me.target \notin me.todo
    /\ me.cmd \in PutCommands =>
          /\ me.pc \in {"aws", "refresh", "settle"} =>
                st.auto = me.copy.auto /\ st.supp = me.copy.supp
          /\ me.pc = "reply" => ~(st.status = "pending" /\ Settles(st))

\* Where nothing fails and no change takes two AWS calls: the copy says of each
\* change whether AWS was changed for it, and so does the item between calls.
NothingFails == Faults = {} /\ \A c \in Changes : Kind[c] \notin TwoCalls

Mirrors(r, us) == \A c \in Changes : r.chg[c] = "applied" <=> us[c] > 0

Sound(me, st, us) ==
    /\ InFlight(me) => Holds(me, st)
    /\ InFlight(me) /\ "write" \notin Faults => Lives(me, st)
    /\ NothingFails => Mirrors(IF InFlight(me) THEN me.copy ELSE st, us)

\* What is added to CopiesInv when calls do not overlap.
SerialInv ==
    /\ AbsentIsFresh
    /\ NothingFails => RecordMatchesAws
    /\ \A s \in Sessions : Sound(call[s], stored, uses)

=============================================================================
