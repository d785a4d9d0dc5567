------------------------ MODULE PolicyRequestProofs ------------------------
(***************************************************************************)
(* Proofs about PolicyRequest, for any changes, users, sessions, faults    *)
(* and number of calls.                                                    *)
(***************************************************************************)
EXTENDS PolicyRequest, TLAPS

-----------------------------------------------------------------------------
(* Types of the values the handlers build.                                 *)

\* The placeholder for an item that does not exist is a request.
LEMMA NoRequestType == NoRequest \in Request
<1>1. (CHOOSE d \in Docs : TRUE) \in Docs
  BY ConstantsOK
<1>2. (CHOOSE u \in Users : TRUE) \in Users
  BY ConstantsOK
<1> QED
  BY <1>1, <1>2 DEF NoRequest, Request, ChangeStatus

\* The placeholder for a session without a call is a call.
LEMMA NoCallType == NoCall \in Call
<1>1. (CHOOSE u \in Users : TRUE) \in Users
  BY ConstantsOK
<1>2. (CHOOSE c \in Changes : TRUE) \in Changes
  BY ConstantsOK
<1> QED
  BY <1>1, <1>2, NoRequestType DEF NoCall, Call, Points, AllCommands, PutCommands

\* Any change may stand for the target of a command that has none.
LEMMA SomeChangeType == SomeChange \in Changes
  BY ConstantsOK DEF SomeChange

\* maybe_approve_reject_request turns a request into a request.
LEMMA SettledType ==
  ASSUME NEW r \in Request, NEW u \in Users
  PROVE  Settled(r, u) \in Request
  BY DEF Settled, Request, RequestStatus

\* A step of one session that hands a call and an item of the right type on
\* keeps the type of the state.
LEMMA StepKeepsType ==
  ASSUME TypeOK, NEW s \in Sessions, NEW n \in Call, Continue(s, n),
         stored' \in Request, aged' \in BOOLEAN, calls' \in Nat,
         sent' \in [Changes -> SUBSET Docs], uses' \in [Changes -> Nat]
  PROVE  TypeOK'
  BY DEF TypeOK, Continue

\* A call that starts with a request of the right type keeps the type of the
\* state.
LEMMA ReceiveKeepsType ==
  ASSUME TypeOK, NEW s \in Sessions, NEW u \in Users, NEW cmd \in AllCommands,
         NEW c \in Changes, NEW r \in Request, NEW p \in Points, NEW f \in BOOLEAN,
         Receive(s, u, cmd, c, r, p, f)
  PROVE  TypeOK'
<1> DEFINE n == [NoCall EXCEPT !.pc = p, !.cmd = cmd, !.user = u,
                               !.target = c, !.copy = r, !.failed = f]
<1>1. n \in Call
  BY NoCallType DEF Call
<1>2. Continue(s, n)
  BY DEF Receive
<1> QED
  BY <1>1, <1>2, StepKeepsType DEF Receive, UnchangedItem, UnchangedAws, TypeOK

-----------------------------------------------------------------------------
(* Type correctness.                                                       *)

\* At the start the state has its type: no item, no call, nothing done in AWS.
LEMMA InitType == Init => TypeOK
<1> SUFFICES ASSUME Init PROVE TypeOK
  OBVIOUS
<1>1. stored \in Request
  BY NoRequestType DEF Init
<1>2. call \in [Sessions -> Call]
  BY NoCallType DEF Init
<1>3. calls \in Nat /\ aged \in BOOLEAN
  BY DEF Init
<1>4. sent \in [Changes -> SUBSET Docs] /\ uses \in [Changes -> Nat]
  BY DEF Init
<1> QED
  BY <1>1, <1>2, <1>3, <1>4 DEF TypeOK

\* A call that starts.
LEMMA IncomingType ==
  ASSUME TypeOK, NEW s \in Sessions, Incoming(s)
  PROVE  TypeOK'
<1>1. PICK u \in Users :
        \/ AddComment(s, u)
        \/ \E c \in Changes, d \in Docs : UpdateChange(s, u, c, d)
        \/ \E c \in Changes, d \in Docs : ApplyChange(s, u, c, d)
        \/ \E c \in Changes : CancelChange(s, u, c)
        \/ CancelRequest(s, u)
        \/ RejectRequest(s, u)
        \/ MoveBackToPending(s, u)
        \/ ApproveRequest(s, u)
        \/ ViewRequest(s, u)
        \/ \E r \in NewRequests(u), mode \in {"plain", "admin", "probe"} :
              CreateRequest(s, u, r, mode)
  BY DEF Incoming
<1> USE DEF AllCommands, PutCommands, Points
<1>2. stored \in Request /\ calls \in Nat /\ SomeChange \in Changes
  BY SomeChangeType DEF TypeOK
<1>3. CASE AddComment(s, u)
  <2>1. [stored EXCEPT !.comments = @ \cup {calls + 1}] \in Request
    BY <1>2 DEF Request
  <2> QED
    BY <1>2, <1>3, <2>1, ReceiveKeepsType DEF AddComment
<1>4. CASE \E c \in Changes, d \in Docs : UpdateChange(s, u, c, d)
  <2>1. PICK c \in Changes, d \in Docs : UpdateChange(s, u, c, d)
    BY <1>4
  <2>2. [stored EXCEPT !.doc[c] = d, !.auto[c] = @ /\ Kind[c] # "resource"] \in Request
    BY <1>2 DEF Request
  <2> QED
    BY <2>1, <2>2, ReceiveKeepsType DEF UpdateChange
<1>5. CASE \E c \in Changes, d \in Docs : ApplyChange(s, u, c, d)
  <2>1. PICK c \in Changes, d \in Docs : ApplyChange(s, u, c, d)
    BY <1>5
  <2>2. [stored EXCEPT !.doc[c] = d] \in Request
    BY <1>2 DEF Request
  <2> QED
    BY <2>1, <2>2, ReceiveKeepsType DEF ApplyChange
<1>6. CASE \E c \in Changes : CancelChange(s, u, c)
  <2>1. PICK c \in Changes : CancelChange(s, u, c)
    BY <1>6
  <2>2. [stored EXCEPT !.chg[c] = "cancelled"] \in Request
    BY <1>2 DEF Request, ChangeStatus
  <2> QED
    BY <2>1, <2>2, ReceiveKeepsType DEF CancelChange
<1>7. ASSUME NEW cmd \in AllCommands, NEW outcome \in Closed,
             CloseRequest(s, u, cmd, outcome)
      PROVE  TypeOK'
  <2>1. [stored EXCEPT !.status = outcome, !.reviewer = u] \in Request
    BY <1>2 DEF Request, RequestStatus, Closed
  <2> QED
    BY <1>2, <1>7, <2>1, ReceiveKeepsType DEF CloseRequest
<1>8. CASE CancelRequest(s, u)
  BY <1>7, <1>8 DEF CancelRequest, Closed
<1>9. CASE RejectRequest(s, u)
  BY <1>7, <1>9 DEF RejectRequest, Closed
<1>10. CASE MoveBackToPending(s, u)
  <2>1. [stored EXCEPT !.status = "pending"] \in Request
    BY <1>2 DEF Request, RequestStatus
  <2> QED
    BY <1>2, <1>10, <2>1, ReceiveKeepsType DEF MoveBackToPending
<1>11. CASE ApproveRequest(s, u)
  <2>1. [stored EXCEPT !.status = "approved", !.reviewer = u] \in Request
    BY <1>2 DEF Request, RequestStatus
  <2> QED
    BY <1>2, <1>11, <2>1, ReceiveKeepsType DEF ApproveRequest
<1>12. CASE ViewRequest(s, u)
  BY <1>2, <1>12, ReceiveKeepsType DEF ViewRequest
<1>13. CASE \E r \in NewRequests(u), mode \in {"plain", "admin", "probe"} :
              CreateRequest(s, u, r, mode)
  <2>1. PICK r \in NewRequests(u), mode \in {"plain", "admin", "probe"} :
              CreateRequest(s, u, r, mode)
    BY <1>13
  <2>2. r \in Request /\ r.requester = u
    BY NoRequestType DEF NewRequests, Request, RequestStatus
  <2>3. Submitted(r, mode) \in Request
    BY <2>2 DEF Submitted, Request, RequestStatus
  <2> DEFINE n == [NoCall EXCEPT !.pc = "create", !.cmd = "create", !.user = u,
                                 !.copy = Submitted(r, mode),
                                 !.todo = {c \in Changes : ~r.auto[c]},
                                 !.probe = (mode = "probe")]
  <2>4. n \in Call
    BY <2>3, NoCallType DEF Call
  <2>5. Continue(s, n) /\ calls' = calls + 1 /\ UnchangedItem /\ UnchangedAws
    BY <2>1 DEF CreateRequest
  <2> QED
    BY <1>2, <2>4, <2>5, StepKeepsType DEF TypeOK, UnchangedItem, UnchangedAws
<1> QED
  BY <1>1, <1>3, <1>4, <1>5, <1>6, <1>8, <1>9, <1>10, <1>11, <1>12, <1>13

\* A call that goes on, fails or dies.
LEMMA ProgressType ==
  ASSUME TypeOK, NEW s \in Sessions, Progress(s) \/ ProcessDies(s)
  PROVE  TypeOK'
<1> DEFINE me == call[s]
<1>1. /\ me \in Call /\ me.copy \in Request /\ me.user \in Users
      /\ me.target \in Changes
  BY DEF TypeOK, Call
<1>2. [me.copy EXCEPT !.chg[me.target] = "applied"] \in Request
  BY <1>1 DEF Request, ChangeStatus
<1>3. \A r : AfterAws(me, r) \in Points
  BY DEF AfterAws, Points
<1>4. Settled(me.copy, me.user) \in Request
  BY <1>1, SettledType
<1>5. NoCall \in Call
  BY NoCallType
<1>6. /\ stored \in Request /\ aged \in BOOLEAN /\ calls \in Nat
      /\ sent \in [Changes -> SUBSET Docs] /\ uses \in [Changes -> Nat]
  BY DEF TypeOK
<1>7. me.copy.doc[me.target] \in Docs
  BY <1>1 DEF Request
<1> USE DEF UnchangedItem, UnchangedAws, Save, EndCall
<1>8. CASE AwsAccepts(s)
  <2> DEFINE r == [me.copy EXCEPT !.chg[me.target] = "applied"]
             n == [me EXCEPT !.pc = AfterAws(me, r), !.copy = r]
  <2>1. n \in Call
    BY <1>1, <1>2, <1>3 DEF Call
  <2>2. Continue(s, n) /\ UNCHANGED <<stored, aged, calls>>
    BY <1>8 DEF AwsAccepts
  <2>3. sent' \in [Changes -> SUBSET Docs] /\ uses' \in [Changes -> Nat]
    BY <1>1, <1>6, <1>7, <1>8 DEF AwsAccepts, AwsUsed
  <2> QED
    BY <1>6, <2>1, <2>2, <2>3, StepKeepsType
<1>9. CASE AwsRefuses(s)
  <2> DEFINE n == [me EXCEPT !.pc = AfterAws(me, me.copy), !.failed = TRUE]
  <2>1. n \in Call
    BY <1>1, <1>3 DEF Call
  <2> QED
    BY <1>6, <1>9, <2>1, StepKeepsType DEF AwsRefuses
<1>10. CASE AwsDoesHalf(s)
  <2> DEFINE n == [me EXCEPT !.pc = AfterAws(me, me.copy), !.failed = TRUE]
  <2>1. n \in Call
    BY <1>1, <1>3 DEF Call
  <2>2. uses' \in [Changes -> Nat]
    BY <1>1, <1>6, <1>10 DEF AwsDoesHalf, AwsUsed
  <2> QED
    BY <1>6, <1>10, <2>1, <2>2, StepKeepsType DEF AwsDoesHalf
<1>11. CASE AwsReplyLost(s)
  <2> DEFINE n == [me EXCEPT !.pc = AfterAws(me, me.copy), !.failed = TRUE]
  <2>1. n \in Call
    BY <1>1, <1>3 DEF Call
  <2>2. Continue(s, n) /\ UNCHANGED <<stored, aged, calls>>
    BY <1>11 DEF AwsReplyLost
  <2>3. sent' \in [Changes -> SUBSET Docs] /\ uses' \in [Changes -> Nat]
    BY <1>1, <1>6, <1>7, <1>11 DEF AwsReplyLost, AwsUsed
  <2> QED
    BY <1>6, <2>1, <2>2, <2>3, StepKeepsType
<1>12. CASE RefreshRole(s)
  <2> DEFINE n == [me EXCEPT !.pc =
               IF me.cmd # "approve_request" /\ me.copy.chg[me.target] = "applied"
               THEN "write" ELSE "settle"]
  <2>1. n \in Call
    BY <1>1 DEF Call, Points
  <2> QED
    BY <1>6, <1>12, <2>1, StepKeepsType DEF RefreshRole
<1>13. CASE AwsReadFails(s)
  BY <1>5, <1>6, <1>13, StepKeepsType DEF AwsReadFails
<1>14. CASE WriteChange(s)
  <2> DEFINE p == IF me.cmd = "approve_request" THEN "refresh" ELSE "settle"
  <2>1. [me EXCEPT !.pc = p] \in Call /\ [me EXCEPT !.pc = p, !.failed = TRUE] \in Call
    BY <1>1 DEF Call, Points
  <2> QED
    BY <1>1, <1>6, <1>14, <2>1, StepKeepsType DEF WriteChange, WriteFails
<1>15. CASE MaybeApproveReject(s)
  <2> DEFINE p == IF me.cmd = "create" THEN "next" ELSE "reply"
             r == Settled(me.copy, me.user)
  <2>1. /\ [me EXCEPT !.pc = p] \in Call
        /\ [me EXCEPT !.pc = p, !.copy = r] \in Call
        /\ [me EXCEPT !.pc = p, !.copy = r, !.failed = TRUE] \in Call
    BY <1>1, <1>4 DEF Call, Points
  <2> QED
    BY <1>4, <1>6, <1>15, <2>1, StepKeepsType DEF MaybeApproveReject
<1>16. CASE Reply(s)
  BY <1>5, <1>6, <1>16, StepKeepsType DEF Reply
<1>17. CASE CreateWrite(s)
  <2>1. [me EXCEPT !.pc = IF me.copy.status = "approved" THEN "next" ELSE "reply"] \in Call
    BY <1>1 DEF Call, Points
  <2> QED
    BY <1>1, <1>5, <1>6, <1>17, <2>1, StepKeepsType DEF CreateWrite
<1>18. CASE ApplyNext(s)
  <2>1. PICK c \in me.todo :
              IF me.probe \/ me.user \in Admins
              THEN Continue(s, [me EXCEPT !.pc = "aws", !.target = c,
                                          !.todo = @ \ {c}, !.failed = FALSE])
              ELSE EndCall(s)
    BY <1>18 DEF ApplyNext
  <2>2. [me EXCEPT !.pc = "aws", !.target = c, !.todo = @ \ {c}, !.failed = FALSE] \in Call
    BY <1>1 DEF Call, Points
  <2> QED
    BY <1>5, <1>6, <1>18, <2>1, <2>2, StepKeepsType DEF ApplyNext
<1>19. CASE ApplyDone(s)
  <2>1. [me EXCEPT !.pc = "final"] \in Call
    BY <1>1 DEF Call, Points
  <2> QED
    BY <1>6, <1>19, <2>1, StepKeepsType DEF ApplyDone
<1>20. CASE CreateFinalWrite(s)
  <2>1. [me EXCEPT !.pc = "reply"] \in Call
    BY <1>1 DEF Call, Points
  <2> QED
    BY <1>1, <1>5, <1>6, <1>20, <2>1, StepKeepsType DEF CreateFinalWrite
<1>21. CASE Populate(s)
  <2> DEFINE rs == Refreshable(me.copy, "resource")
             ms == Refreshable(me.copy, "managed_policy")
  <2>1. PICK supp \in [rs -> {"yes", "no"}], docs \in [rs -> Docs],
             changed \in SUBSET rs, managed \in SUBSET ms :
      LET r == [me.copy EXCEPT
                 !.supp = [c \in Changes |->
                             IF c \in rs THEN supp[c] ELSE @[c]],
                 !.doc  = [c \in Changes |->
                             IF c \in changed /\ me.copy.auto[c]
                             THEN docs[c] ELSE @[c]]]
          p == IF changed \cup managed = {} THEN "reply" ELSE "viewwrite"
      IN  Continue(s, [me EXCEPT !.pc = p, !.copy = r,
                                 !.again = changed # {} /\ managed # {}])
    BY <1>21 DEF Populate
  <2> DEFINE r == [me.copy EXCEPT
                 !.supp = [c \in Changes |->
                             IF c \in rs THEN supp[c] ELSE @[c]],
                 !.doc  = [c \in Changes |->
                             IF c \in changed /\ me.copy.auto[c]
                             THEN docs[c] ELSE @[c]]]
             p == IF changed \cup managed = {} THEN "reply" ELSE "viewwrite"
             n == [me EXCEPT !.pc = p, !.copy = r,
                             !.again = changed # {} /\ managed # {}]
  <2>2. r \in Request
    BY <1>1, <2>1 DEF Request, Refreshable
  <2>3. n \in Call
    BY <1>1, <2>2 DEF Call, Points
  <2>4. Continue(s, n)
    BY <2>1
  <2> QED
    BY <1>6, <1>21, <2>3, <2>4, StepKeepsType DEF Populate
<1>22. CASE ViewWrite(s)
  <2> DEFINE n == [me EXCEPT !.pc = IF me.again THEN @ ELSE "reply", !.again = FALSE]
  <2>1. n \in Call
    BY <1>1 DEF Call, Points
  <2> QED
    BY <1>1, <1>5, <1>6, <1>22, <2>1, StepKeepsType DEF ViewWrite
<1>23. CASE ProcessDies(s)
  BY <1>5, <1>6, <1>23, StepKeepsType DEF ProcessDies
<1> QED
  BY <1>8, <1>9, <1>10, <1>11, <1>12, <1>13, <1>14, <1>15, <1>16, <1>17, <1>18,
     <1>19, <1>20, <1>21, <1>22, <1>23 DEF Progress

\* Every step of the system keeps the type of the state.
LEMMA NextType == TypeOK /\ [Next]_vars => TypeOK'
<1> SUFFICES ASSUME TypeOK, [Next]_vars PROVE TypeOK'
  OBVIOUS
<1>1. CASE \E s \in Sessions : Incoming(s) \/ Progress(s) \/ ProcessDies(s)
  BY <1>1, IncomingType, ProgressType
<1>2. CASE DayPasses
  BY <1>2 DEF DayPasses, TypeOK
<1>3. CASE UNCHANGED vars
  BY <1>3 DEF vars, TypeOK
<1> QED
  BY <1>1, <1>2, <1>3 DEF Next

\* The item, the calls in flight and the effects on AWS keep the shape the
\* handlers give them, in every interleaving and whatever fails.
THEOREM TypeCorrect == Spec => []TypeOK
<1>1. Init => TypeOK
  BY InitType
<1>2. TypeOK /\ [Next]_vars => TypeOK'
  BY NextType
<1> QED
  BY <1>1, <1>2, PTL DEF Spec

-----------------------------------------------------------------------------
(* Every copy of the request is good by itself.                            *)

\* A request nothing was applied of is good, whatever AWS was sent.
LEMMA FreshIsGood ==
  ASSUME NEW r \in Request, NEW S, ~HasApplied(r)
  PROVE  Good(r, S)
  BY DEF Good, DocsIn, ClosedClean, HasApplied

\* There is nothing to check of a session without a call.
LEMMA NoCallGood ==
  ASSUME NEW S
  PROVE  Good(NoCall.copy, S) /\ Entitled(NoCall)
<1>1. NoCall.copy = NoRequest /\ NoCall.pc = "idle" /\ NoCall.cmd = "view"
  BY DEF NoCall
<1>2. ~HasApplied(NoRequest)
  BY DEF HasApplied, NoRequest
<1> QED
  BY <1>1, <1>2, NoRequestType, FreshIsGood DEF Entitled

\* A request stays good when AWS accepts more.
LEMMA GoodGrows ==
  ASSUME NEW r, NEW S, NEW T, Good(r, S), \A c \in Changes : S[c] \subseteq T[c]
  PROVE  Good(r, T)
  BY DEF Good, DocsIn

\* maybe_approve_reject_request keeps a request good, and does not close the
\* request of a submission, none of whose changes is cancelled.
LEMMA SettledGood ==
  ASSUME NEW r \in Request, NEW u \in Users, NEW S, Good(r, S), Settles(r)
  PROVE  /\ Good(Settled(r, u), S)
         /\ (\A c \in Changes : r.chg[c] # "cancelled")
               => /\ Settled(r, u).status = "approved"
                  /\ Settled(r, u).chg = r.chg
<1>1. Settled(r, u).chg = r.chg /\ Settled(r, u).doc = r.doc
  BY DEF Settled, Request
<1>2. Settled(r, u).status = IF BecomesApproved(r) THEN "approved" ELSE "cancelled"
  BY DEF Settled, Request
<1> QED
  BY <1>1, <1>2 DEF Good, DocsIn, ClosedClean, Closed, HasApplied, Settles,
                    BecomesApproved, BecomesCancelled

\* A step of one session keeps the invariant when the item and the call it
\* leaves behind are good and AWS has forgotten nothing.
LEMMA StepKeepsCopies ==
  ASSUME CopiesInv, TypeOK', NEW s \in Sessions, NEW n, Continue(s, n),
         \A c \in Changes : sent[c] \subseteq sent'[c],
         Good(stored', sent'), Good(n.copy, sent'), Entitled(n)
  PROVE  CopiesInv'
<1>1. \A t \in Sessions : Good(call[t].copy, sent')
  BY GoodGrows DEF CopiesInv
<1>2. \A t \in Sessions : call'[t] = IF t = s THEN n ELSE call[t]
  BY DEF Continue, CopiesInv, TypeOK
<1>3. \A t \in Sessions : Good(call'[t].copy, sent') /\ Entitled(call'[t])
  BY <1>1, <1>2 DEF CopiesInv
<1> QED
  BY <1>3 DEF CopiesInv, Good, DocsIn, ClosedClean, HasApplied, Entitled, Closed

\* A call keeps the invariant when it starts with a good request, and with an
\* open one if it goes on to apply a change.
LEMMA ReceiveKeepsCopies ==
  ASSUME CopiesInv, TypeOK', NEW s \in Sessions, NEW u \in Users,
         NEW cmd \in AllCommands, NEW c \in Changes, NEW r \in Request,
         NEW p \in Points, NEW f \in BOOLEAN, Receive(s, u, cmd, c, r, p, f),
         cmd # "create", p \notin {"create", "next"}, Good(r, sent),
         p = "aws" => r.status \notin Closed /\ cmd = "apply_change" /\ u \in Admins
  PROVE  CopiesInv'
<1> DEFINE n == [NoCall EXCEPT !.pc = p, !.cmd = cmd, !.user = u,
                               !.target = c, !.copy = r, !.failed = f]
<1>1. n.pc = p /\ n.cmd = cmd /\ n.copy = r /\ n.user = u
  BY DEF NoCall
<1>2. Continue(s, n) /\ stored' = stored /\ sent' = sent
  BY DEF Receive, UnchangedItem, UnchangedAws
<1>3. Good(stored', sent') /\ Good(n.copy, sent') /\ Entitled(n)
  BY <1>1, <1>2 DEF CopiesInv, Entitled
<1> QED
  BY <1>2, <1>3, StepKeepsCopies

\* At the start every copy is the empty request.
LEMMA InitCopies == Init => CopiesInv
<1> SUFFICES ASSUME Init PROVE CopiesInv
  OBVIOUS
<1>1. TypeOK
  BY InitType
<1>2. ~HasApplied(NoRequest)
  BY DEF HasApplied, NoRequest
<1>3. Good(stored, sent)
  BY <1>2, NoRequestType, FreshIsGood DEF Init
<1>4. \A s \in Sessions : Good(call[s].copy, sent) /\ Entitled(call[s])
  BY NoCallGood DEF Init
<1> QED
  BY <1>1, <1>3, <1>4 DEF CopiesInv

\* A call that starts.
LEMMA IncomingCopies ==
  ASSUME CopiesInv, TypeOK', NEW s \in Sessions, Incoming(s)
  PROVE  CopiesInv'
<1>1. PICK u \in Users :
        \/ AddComment(s, u)
        \/ \E c \in Changes, d \in Docs : UpdateChange(s, u, c, d)
        \/ \E c \in Changes, d \in Docs : ApplyChange(s, u, c, d)
        \/ \E c \in Changes : CancelChange(s, u, c)
        \/ CancelRequest(s, u)
        \/ RejectRequest(s, u)
        \/ MoveBackToPending(s, u)
        \/ ApproveRequest(s, u)
        \/ ViewRequest(s, u)
        \/ \E r \in NewRequests(u), mode \in {"plain", "admin", "probe"} :
              CreateRequest(s, u, r, mode)
  BY DEF Incoming
<1> USE DEF AllCommands, PutCommands, Points
<1>2. stored \in Request /\ calls \in Nat /\ SomeChange \in Changes /\ Good(stored, sent)
  BY SomeChangeType DEF CopiesInv, TypeOK
\* A request is good when it differs from the item in nothing its goodness
\* depends on.
<1>3. ASSUME NEW r \in Request, r.chg = stored.chg, r.status \in Closed => ~HasApplied(r),
             \A c \in Changes : stored.chg[c] = "applied" => r.doc[c] = stored.doc[c]
      PROVE  Good(r, sent)
  BY <1>2, <1>3 DEF Good, DocsIn, ClosedClean
<1>4. CASE AddComment(s, u)
  <2> DEFINE r == [stored EXCEPT !.comments = @ \cup {calls + 1}]
  <2>1. r \in Request /\ r.status = stored.status /\ r.chg = stored.chg /\ r.doc = stored.doc
    BY <1>2 DEF Request
  <2>2. Good(r, sent)
    BY <1>2, <2>1 DEF Good, DocsIn, ClosedClean, HasApplied
  <2> QED
    BY <1>2, <1>4, <2>1, <2>2, ReceiveKeepsCopies DEF AddComment
<1>5. CASE \E c \in Changes, d \in Docs : UpdateChange(s, u, c, d)
  <2>1. PICK c \in Changes, d \in Docs : UpdateChange(s, u, c, d)
    BY <1>5
  <2> DEFINE r == [stored EXCEPT !.doc[c] = d, !.auto[c] = @ /\ Kind[c] # "resource"]
  <2>2. /\ r \in Request /\ r.status = stored.status /\ r.chg = stored.chg
        /\ \A x \in Changes : x # c => r.doc[x] = stored.doc[x]
    BY <1>2 DEF Request
  <2>3. stored.chg[c] = "not_applied" /\ stored.status \notin Closed
    BY <2>1 DEF UpdateChange, StillOpen
  <2>4. Good(r, sent)
    BY <1>3, <2>2, <2>3
  <2> QED
    BY <2>1, <2>2, <2>4, ReceiveKeepsCopies DEF UpdateChange
<1>6. CASE \E c \in Changes, d \in Docs : ApplyChange(s, u, c, d)
  <2>1. PICK c \in Changes, d \in Docs : ApplyChange(s, u, c, d)
    BY <1>6
  <2> DEFINE r == [stored EXCEPT !.doc[c] = d]
  <2>2. /\ r \in Request /\ r.status = stored.status /\ r.chg = stored.chg
        /\ \A x \in Changes : x # c => r.doc[x] = stored.doc[x]
    BY <1>2 DEF Request
  <2>3. stored.chg[c] = "not_applied" /\ stored.status \notin Closed
    BY <2>1 DEF ApplyChange, StillOpen
  <2>4. Good(r, sent)
    BY <1>3, <2>2, <2>3
  <2> QED
    BY <2>1, <2>2, <2>3, <2>4, ReceiveKeepsCopies DEF ApplyChange
<1>7. CASE \E c \in Changes : CancelChange(s, u, c)
  <2>1. PICK c \in Changes : CancelChange(s, u, c)
    BY <1>7
  <2> DEFINE r == [stored EXCEPT !.chg[c] = "cancelled"]
  <2>2. /\ r \in Request /\ r.status = stored.status /\ r.doc = stored.doc
        /\ \A x \in Changes : r.chg[x] = "applied" => stored.chg[x] = "applied"
    BY <1>2 DEF Request, ChangeStatus
  <2>3. Good(r, sent)
    BY <1>2, <2>2 DEF Good, DocsIn, ClosedClean, HasApplied
  <2> QED
    BY <2>1, <2>2, <2>3, ReceiveKeepsCopies DEF CancelChange
<1>8. ASSUME NEW cmd \in AllCommands, cmd # "create", NEW outcome \in Closed,
             CloseRequest(s, u, cmd, outcome)
      PROVE  CopiesInv'
  <2> DEFINE r == [stored EXCEPT !.status = outcome, !.reviewer = u]
  <2>1. r \in Request /\ r.chg = stored.chg /\ r.doc = stored.doc
    BY <1>2 DEF Request, RequestStatus, Closed
  <2>2. CASE HasApplied(stored) /\ Receive(s, u, cmd, SomeChange, stored, "settle", TRUE)
    BY <1>2, <1>8, <2>2, ReceiveKeepsCopies
  <2>3. CASE ~HasApplied(stored) /\ Receive(s, u, cmd, SomeChange, r, "write", FALSE)
    <3>1. Good(r, sent)
      BY <2>1, <2>3, FreshIsGood DEF HasApplied
    <3> QED
      BY <1>2, <1>8, <2>1, <2>3, <3>1, ReceiveKeepsCopies
  <2> QED
    BY <1>8, <2>2, <2>3 DEF CloseRequest
<1>9. CASE CancelRequest(s, u)
  BY <1>8, <1>9 DEF CancelRequest, Closed
<1>10. CASE RejectRequest(s, u)
  BY <1>8, <1>10 DEF RejectRequest, Closed
<1>11. CASE MoveBackToPending(s, u)
  <2> DEFINE r == [stored EXCEPT !.status = "pending"]
  <2>1. r \in Request /\ r.chg = stored.chg /\ r.doc = stored.doc /\ r.status \notin Closed
    BY <1>2 DEF Request, RequestStatus, Closed
  <2>2. Good(r, sent)
    BY <1>3, <2>1
  <2> QED
    BY <1>2, <1>11, <2>1, <2>2, ReceiveKeepsCopies DEF MoveBackToPending
<1>12. CASE ApproveRequest(s, u)
  <2> DEFINE r == [stored EXCEPT !.status = "approved", !.reviewer = u]
  <2>1. r \in Request /\ r.chg = stored.chg /\ r.doc = stored.doc /\ r.status \notin Closed
    BY <1>2 DEF Request, RequestStatus, Closed
  <2>2. Good(r, sent)
    BY <1>3, <2>1
  <2> QED
    BY <1>2, <1>12, <2>1, <2>2, ReceiveKeepsCopies DEF ApproveRequest
<1>13. CASE ViewRequest(s, u)
  BY <1>2, <1>13, ReceiveKeepsCopies DEF ViewRequest
<1>14. CASE \E r \in NewRequests(u), mode \in {"plain", "admin", "probe"} :
              CreateRequest(s, u, r, mode)
  <2>1. PICK r \in NewRequests(u), mode \in {"plain", "admin", "probe"} :
              CreateRequest(s, u, r, mode)
    BY <1>14
  <2>2. r \in Request /\ r.status = "pending" /\ r.chg = NoRequest.chg
    BY NoRequestType DEF NewRequests, Request, RequestStatus
  <2>3. \A c \in Changes : r.chg[c] = "not_applied"
    BY <2>2 DEF NoRequest
  <2> DEFINE q == Submitted(r, mode)
             n == [NoCall EXCEPT !.pc = "create", !.cmd = "create", !.user = u,
                                 !.copy = q,
                                 !.todo = {c \in Changes : ~r.auto[c]},
                                 !.probe = (mode = "probe")]
  <2>4. q \in Request /\ q.chg = r.chg /\ q.status \in {"pending", "approved"}
    BY <2>2 DEF Submitted, Request, RequestStatus
  <2>5. n.pc = "create" /\ n.copy = q
    BY DEF NoCall
  <2>6. Entitled(n) /\ Good(n.copy, sent)
    BY <2>3, <2>4, <2>5, FreshIsGood DEF Entitled, Closed, HasApplied
  <2>7. Continue(s, n) /\ stored' = stored /\ sent' = sent
    BY <2>1 DEF CreateRequest, UnchangedItem, UnchangedAws
  <2> HIDE DEF n
  <2> QED
    BY <1>2, <2>6, <2>7, StepKeepsCopies
<1> QED
  BY <1>1, <1>4, <1>5, <1>6, <1>7, <1>9, <1>10, <1>11, <1>12, <1>13, <1>14

\* A call that goes on, fails or dies.
LEMMA ProgressCopies ==
  ASSUME CopiesInv, TypeOK', NEW s \in Sessions, Progress(s) \/ ProcessDies(s)
  PROVE  CopiesInv'
<1> DEFINE me == call[s]
<1>1. /\ me \in Call /\ me.copy \in Request /\ me.user \in Users
      /\ me.target \in Changes /\ stored \in Request
  BY DEF CopiesInv, TypeOK, Call
<1>2. Good(stored, sent) /\ Good(me.copy, sent) /\ Entitled(me)
  BY DEF CopiesInv
<1>3. Good(NoCall.copy, sent') /\ Entitled(NoCall)
  BY NoCallGood
<1> USE DEF UnchangedItem, UnchangedAws, Save, EndCall
\* A step that stands elsewhere with the same copy, and writes at most that.
<1>4. ASSUME NEW n, Continue(s, n), n.copy = me.copy, n.cmd = me.cmd,
             n.pc \notin {"aws", "create"}, n.pc = "next" => me.cmd = "create",
             stored' \in {stored, me.copy}, \A c \in Changes : sent[c] \subseteq sent'[c]
      PROVE  CopiesInv'
  <2>1. Good(stored, sent') /\ Good(me.copy, sent')
    BY <1>2, <1>4, GoodGrows
  <2>2. Entitled(n)
    BY <1>2, <1>4 DEF Entitled
  <2> QED
    BY <1>4, <2>1, <2>2, StepKeepsCopies
\* A call that ends without a trace.
<1>5. ASSUME EndCall(s), stored' = stored, sent' = sent PROVE CopiesInv'
  BY <1>2, <1>3, <1>5, StepKeepsCopies
<1>6. \A r : AfterAws(me, r) \notin {"aws", "create", "next"}
  BY DEF AfterAws
<1>7. ASSUME sent' = [sent EXCEPT ![me.target] = @ \cup {me.copy.doc[me.target]}]
      PROVE  /\ \A c \in Changes : sent[c] \subseteq sent'[c]
             /\ me.copy.doc[me.target] \in sent'[me.target]
  BY <1>1, <1>7 DEF CopiesInv, TypeOK
<1>8. CASE AwsAccepts(s)
  <2> DEFINE r == [me.copy EXCEPT !.chg[me.target] = "applied"]
             n == [me EXCEPT !.pc = AfterAws(me, r), !.copy = r]
  <2>1. /\ me.pc = "aws" /\ Continue(s, n) /\ stored' = stored
        /\ sent' = [sent EXCEPT ![me.target] = @ \cup {me.copy.doc[me.target]}]
    BY <1>8 DEF AwsAccepts
  <2>2. /\ r.doc = me.copy.doc /\ r.status = me.copy.status
        /\ r.chg[me.target] = "applied"
        /\ \A c \in Changes : c # me.target => r.chg[c] = me.copy.chg[c]
    BY <1>1 DEF Request
  <2>3. n.copy = r /\ n.cmd = me.cmd /\ n.pc \notin {"aws", "create", "next"}
    BY <1>1, <1>6 DEF Call
  <2>4. me.copy.status \notin Closed
    BY <1>2, <2>1 DEF Entitled
  <2>5. Good(me.copy, sent') /\ Good(stored', sent')
    BY <1>2, <1>7, <2>1, GoodGrows
  <2>6. Good(r, sent')
    BY <1>7, <2>1, <2>2, <2>4, <2>5 DEF Good, DocsIn, ClosedClean
  <2>7. Entitled(n)
    BY <1>1, <1>2, <2>2, <2>3, <2>4 DEF Entitled
  <2> HIDE DEF n, r
  <2> QED
    BY <1>7, <2>1, <2>3, <2>5, <2>6, <2>7, StepKeepsCopies
<1>9. CASE AwsRefuses(s)
  <2> DEFINE n == [me EXCEPT !.pc = AfterAws(me, me.copy), !.failed = TRUE]
  <2>1. n.copy = me.copy /\ n.cmd = me.cmd /\ n.pc \notin {"aws", "create", "next"}
    BY <1>1, <1>6 DEF Call
  <2> QED
    BY <1>4, <1>9, <2>1 DEF AwsRefuses
<1>10. CASE AwsDoesHalf(s)
  <2> DEFINE n == [me EXCEPT !.pc = AfterAws(me, me.copy), !.failed = TRUE]
  <2>1. n.copy = me.copy /\ n.cmd = me.cmd /\ n.pc \notin {"aws", "create", "next"}
    BY <1>1, <1>6 DEF Call
  <2> QED
    BY <1>4, <1>10, <2>1 DEF AwsDoesHalf
<1>11. CASE AwsReplyLost(s)
  <2> DEFINE n == [me EXCEPT !.pc = AfterAws(me, me.copy), !.failed = TRUE]
  <2>1. n.copy = me.copy /\ n.cmd = me.cmd /\ n.pc \notin {"aws", "create", "next"}
    BY <1>1, <1>6 DEF Call
  <2> QED
    BY <1>4, <1>7, <1>11, <2>1 DEF AwsReplyLost
<1>12. CASE RefreshRole(s)
  <2> DEFINE n == [me EXCEPT !.pc =
               IF me.cmd # "approve_request" /\ me.copy.chg[me.target] = "applied"
               THEN "write" ELSE "settle"]
  <2>1. n.copy = me.copy /\ n.cmd = me.cmd /\ n.pc \notin {"aws", "create", "next"}
    BY <1>1 DEF Call
  <2> QED
    BY <1>4, <1>12, <2>1 DEF RefreshRole
<1>13. CASE AwsReadFails(s)
  BY <1>5, <1>13 DEF AwsReadFails
<1>14. CASE WriteChange(s)
  <2> DEFINE p == IF me.cmd = "approve_request" THEN "refresh" ELSE "settle"
             n == [me EXCEPT !.pc = p]
             m == [me EXCEPT !.pc = p, !.failed = TRUE]
  <2>1. /\ n.copy = me.copy /\ n.cmd = me.cmd /\ n.pc \notin {"aws", "create", "next"}
        /\ m.copy = me.copy /\ m.cmd = me.cmd /\ m.pc \notin {"aws", "create", "next"}
    BY <1>1 DEF Call
  <2>2. \/ Continue(s, n) /\ stored' = me.copy
        \/ Continue(s, m) /\ stored' = stored
    BY <1>14 DEF WriteChange, WriteFails
  <2>3. sent' = sent
    BY <1>14 DEF WriteChange
  <2> HIDE DEF n, m
  <2> QED
    BY <1>4, <2>1, <2>2, <2>3
<1>15. CASE MaybeApproveReject(s)
  <2> DEFINE p == IF me.cmd = "create" THEN "next" ELSE "reply"
             r == Settled(me.copy, me.user)
             n == [me EXCEPT !.pc = p]
             m == [me EXCEPT !.pc = p, !.copy = r]
             f == [me EXCEPT !.pc = p, !.copy = r, !.failed = TRUE]
  <2>1. /\ n.copy = me.copy /\ n.cmd = me.cmd /\ n.pc = p
        /\ m.copy = r /\ m.cmd = me.cmd /\ m.pc = p
        /\ f.copy = r /\ f.cmd = me.cmd /\ f.pc = p
    BY <1>1 DEF Call
  <2>0. p \notin {"aws", "create"} /\ (p = "next" => me.cmd = "create")
    OBVIOUS
  <2>2. /\ sent' = sent
        /\ \/ Continue(s, n) /\ stored' = stored
           \/ Settles(me.copy) /\ Continue(s, m) /\ stored' = r
           \/ Settles(me.copy) /\ Continue(s, f) /\ stored' = stored
    BY <1>15 DEF MaybeApproveReject
  <2>3. ASSUME Settles(me.copy)
        PROVE  Good(r, sent) /\ (me.cmd = "create" =>
                  r.status = "approved" /\ r.chg = me.copy.chg)
    BY <1>1, <1>2, <2>3, SettledGood DEF Entitled
  <2>4. Settles(me.copy) => Entitled(m) /\ Entitled(f)
    BY <1>2, <2>1, <2>0, <2>3 DEF Entitled, Closed
  <2> HIDE DEF n, m, f, r, p
  <2>5. CASE Continue(s, n) /\ stored' = stored
    BY <1>4, <2>1, <2>0, <2>2, <2>5
  <2>6. CASE Settles(me.copy) /\ Continue(s, m) /\ stored' = r
    BY <2>1, <2>2, <2>3, <2>4, <2>6, StepKeepsCopies
  <2>7. CASE Settles(me.copy) /\ Continue(s, f) /\ stored' = stored
    BY <1>2, <2>1, <2>2, <2>3, <2>4, <2>7, StepKeepsCopies
  <2> QED
    BY <2>2, <2>5, <2>6, <2>7
<1>16. CASE Reply(s)
  BY <1>5, <1>16 DEF Reply
<1>17. CASE CreateWrite(s)
  <2> DEFINE n == [me EXCEPT !.pc =
                     IF me.copy.status = "approved" THEN "next" ELSE "reply"]
  <2>1. n.copy = me.copy /\ n.cmd = me.cmd /\ n.pc \in {"next", "reply"}
    BY <1>1 DEF Call
  <2>2. me.cmd = "create"
    BY <1>2, <1>17 DEF CreateWrite, Entitled
  <2> QED
    BY <1>4, <1>5, <1>17, <2>1, <2>2 DEF CreateWrite
<1>18. CASE ApplyNext(s)
  <2>1. PICK c \in me.todo :
              IF me.probe \/ me.user \in Admins
              THEN Continue(s, [me EXCEPT !.pc = "aws", !.target = c,
                                          !.todo = @ \ {c}, !.failed = FALSE])
              ELSE EndCall(s)
    BY <1>18 DEF ApplyNext
  <2> DEFINE n == [me EXCEPT !.pc = "aws", !.target = c,
                             !.todo = @ \ {c}, !.failed = FALSE]
  <2>2. /\ n.copy = me.copy /\ n.cmd = me.cmd /\ n.pc = "aws"
        /\ n.user = me.user /\ n.probe = me.probe
    BY <1>1 DEF Call
  <2>3. stored' = stored /\ sent' = sent
    BY <1>18 DEF ApplyNext
  <2>4. me.cmd = "create"
    BY <1>2, <1>18 DEF ApplyNext, Entitled
  <2>5. CASE (me.probe \/ me.user \in Admins) /\ Continue(s, n)
    <3>1. Entitled(n)
      BY <1>2, <2>2, <2>4, <2>5 DEF Entitled
    <3> QED
      BY <1>2, <2>2, <2>3, <2>5, <3>1, StepKeepsCopies
  <2>6. CASE EndCall(s)
    BY <1>5, <2>3, <2>6
  <2> QED
    BY <2>1, <2>5, <2>6
<1>19. CASE ApplyDone(s)
  <2> DEFINE n == [me EXCEPT !.pc = "final"]
  <2>1. n.copy = me.copy /\ n.cmd = me.cmd /\ n.pc \notin {"aws", "create", "next"}
    BY <1>1 DEF Call
  <2> QED
    BY <1>4, <1>19, <2>1 DEF ApplyDone
<1>20. CASE CreateFinalWrite(s)
  <2> DEFINE n == [me EXCEPT !.pc = "reply"]
  <2>1. n.copy = me.copy /\ n.cmd = me.cmd /\ n.pc \notin {"aws", "create", "next"}
    BY <1>1 DEF Call
  <2> QED
    BY <1>4, <1>5, <1>20, <2>1 DEF CreateFinalWrite
<1>21. CASE Populate(s)
  <2> DEFINE rs == Refreshable(me.copy, "resource")
             ms == Refreshable(me.copy, "managed_policy")
  <2>1. PICK supp \in [rs -> {"yes", "no"}], docs \in [rs -> Docs],
             changed \in SUBSET rs, managed \in SUBSET ms :
      LET r == [me.copy EXCEPT
                 !.supp = [c \in Changes |->
                             IF c \in rs THEN supp[c] ELSE @[c]],
                 !.doc  = [c \in Changes |->
                             IF c \in changed /\ me.copy.auto[c]
                             THEN docs[c] ELSE @[c]]]
          p == IF changed \cup managed = {} THEN "reply" ELSE "viewwrite"
      IN  Continue(s, [me EXCEPT !.pc = p, !.copy = r,
                                 !.again = changed # {} /\ managed # {}])
    BY <1>21 DEF Populate
  <2> DEFINE r == [me.copy EXCEPT
                 !.supp = [c \in Changes |->
                             IF c \in rs THEN supp[c] ELSE @[c]],
                 !.doc  = [c \in Changes |->
                             IF c \in changed /\ me.copy.auto[c]
                             THEN docs[c] ELSE @[c]]]
             p == IF changed \cup managed = {} THEN "reply" ELSE "viewwrite"
             n == [me EXCEPT !.pc = p, !.copy = r,
                             !.again = changed # {} /\ managed # {}]
  <2>2. /\ r.chg = me.copy.chg /\ r.status = me.copy.status
        /\ \A c \in Changes : me.copy.chg[c] = "applied" => r.doc[c] = me.copy.doc[c]
    BY <1>1, <2>1 DEF Request, Refreshable
  <2>3. n.copy = r /\ n.cmd = me.cmd /\ n.pc \notin {"aws", "create", "next"}
    BY <1>1 DEF Call
  <2>4. Continue(s, n) /\ stored' = stored /\ sent' = sent
    BY <1>21, <2>1 DEF Populate
  <2> HIDE DEF n, r
  <2>5. Good(r, sent)
    BY <1>2, <2>2 DEF Good, DocsIn, ClosedClean, HasApplied
  <2>6. Entitled(n)
    BY <1>2, <2>2, <2>3 DEF Entitled
  <2> QED
    BY <1>2, <2>3, <2>4, <2>5, <2>6, StepKeepsCopies
<1>22. CASE ViewWrite(s)
  <2> DEFINE n == [me EXCEPT !.pc = IF me.again THEN @ ELSE "reply", !.again = FALSE]
  <2>1. me.pc = "viewwrite" => n.copy = me.copy /\ n.cmd = me.cmd /\ n.pc \notin {"aws", "create", "next"}
    BY <1>1 DEF Call
  <2> QED
    BY <1>4, <1>5, <1>22, <2>1 DEF ViewWrite
<1>23. CASE ProcessDies(s)
  BY <1>5, <1>23 DEF ProcessDies
<1> QED
  BY <1>8, <1>9, <1>10, <1>11, <1>12, <1>13, <1>14, <1>15, <1>16, <1>17, <1>18,
     <1>19, <1>20, <1>21, <1>22, <1>23 DEF Progress

\* Every step of the system keeps every copy good.
LEMMA NextCopies == CopiesInv /\ [Next]_vars => CopiesInv'
<1> SUFFICES ASSUME CopiesInv, [Next]_vars PROVE CopiesInv'
  OBVIOUS
<1>1. TypeOK'
  BY NextType DEF CopiesInv
<1>2. CASE \E s \in Sessions : Incoming(s) \/ Progress(s) \/ ProcessDies(s)
  BY <1>1, <1>2, IncomingCopies, ProgressCopies
<1>3. CASE DayPasses \/ UNCHANGED vars
  <2>1. stored' = stored /\ call' = call /\ sent' = sent
    BY <1>3 DEF DayPasses, vars
  <2> QED
    BY <1>1, <2>1 DEF CopiesInv, Good, DocsIn, ClosedClean, HasApplied, Entitled
<1> QED
  BY <1>2, <1>3 DEF Next

\* The inductive invariant holds of every reachable state.
THEOREM CopiesCorrect == Spec => []CopiesInv
<1>1. Init => CopiesInv
  BY InitCopies
<1>2. CopiesInv /\ [Next]_vars => CopiesInv'
  BY NextCopies
<1> QED
  BY <1>1, <1>2, PTL DEF Spec

\* However the handlers interleave and whatever fails, a change is never shown
\* as applied with a document AWS was not given for it.
THEOREM AppliedDocumentsAreReal == Spec => []AppliedDocumentWasSent
<1>1. CopiesInv => AppliedDocumentWasSent
  BY DEF CopiesInv, AppliedDocumentWasSent, Copies, Good, DocsIn
<1> QED
  BY <1>1, CopiesCorrect, PTL

\* However the handlers interleave and whatever fails, no copy of the request
\* is rejected or cancelled with a change shown as applied.
THEOREM ClosedItemsAreClean == Spec => []ClosedItemShowsNothingApplied
<1>1. CopiesInv => ClosedItemShowsNothingApplied
  BY DEF CopiesInv, ClosedItemShowsNothingApplied, Copies, Good, ClosedClean
<1> QED
  BY <1>1, CopiesCorrect, PTL

\* AWS changes only in a step of a call at its AWS access.
LEMMA OnlyAwsStepsUse ==
  ASSUME TypeOK, [Next]_vars, NEW c \in Changes, uses'[c] # uses[c]
  PROVE  \E s \in Sessions : call[s].pc = "aws" /\ call[s].target = c
<1>1. uses' # uses
  OBVIOUS
<1>2. ASSUME NEW s \in Sessions, Incoming(s) PROVE uses' = uses
  <2>1. ASSUME NEW u, NEW cmd, NEW x, NEW r, NEW p, NEW f, Receive(s, u, cmd, x, r, p, f)
        PROVE  uses' = uses
    BY <2>1 DEF Receive, UnchangedAws
  <2> QED
    BY <1>2, <2>1
    DEF Incoming, AddComment, UpdateChange, ApplyChange, CancelChange, CloseRequest,
        CancelRequest, RejectRequest, MoveBackToPending, ApproveRequest, ViewRequest,
        CreateRequest, UnchangedAws
<1>3. ASSUME NEW s \in Sessions,
             \/ AwsRefuses(s) \/ RefreshRole(s) \/ AwsReadFails(s) \/ WriteChange(s)
             \/ MaybeApproveReject(s) \/ Reply(s) \/ CreateWrite(s) \/ ApplyNext(s)
             \/ ApplyDone(s) \/ CreateFinalWrite(s) \/ Populate(s) \/ ViewWrite(s)
             \/ ProcessDies(s)
      PROVE  uses' = uses
  <2>1. UnchangedAws
    BY <1>3 DEF AwsRefuses, RefreshRole, AwsReadFails, WriteChange, MaybeApproveReject,
       Reply, CreateWrite, ApplyNext, ApplyDone, CreateFinalWrite, ViewWrite,
       Populate, ProcessDies
  <2> QED
    BY <2>1 DEF UnchangedAws
<1>4. PICK s \in Sessions : AwsAccepts(s) \/ AwsDoesHalf(s) \/ AwsReplyLost(s)
  <2>1. PICK s \in Sessions : Incoming(s) \/ Progress(s) \/ ProcessDies(s)
    BY <1>1 DEF Next, vars, DayPasses
  <2> QED
    BY <1>1, <1>2, <1>3, <2>1 DEF Progress
<1>5. call[s].pc = "aws" /\ uses' = [uses EXCEPT ![call[s].target] = @ + 1]
  BY <1>4 DEF AwsAccepts, AwsDoesHalf, AwsReplyLost, AwsUsed
<1>6. call[s].target = c
  BY <1>5 DEF TypeOK
<1> QED
  BY <1>5, <1>6

\* However the handlers interleave and whatever fails, AWS is changed only by a
\* call that read the request open, of an administrator or approved by a probe.
THEOREM AwsChangesAreEntitled == Spec => AwsChangedOnlyByEntitledCalls
<1>1. CopiesInv /\ [Next]_vars =>
        [\A c \in Changes : uses'[c] # uses[c] =>
           \E s \in Sessions :
              /\ call[s].target = c
              /\ call[s].cmd \in {"apply_change", "create"}
              /\ call[s].copy.status \notin Closed
              /\ call[s].user \in Admins \/ call[s].probe]_vars
  <2> SUFFICES ASSUME CopiesInv, [Next]_vars, NEW c \in Changes, uses'[c] # uses[c]
               PROVE  \E s \in Sessions :
                        /\ call[s].target = c
                        /\ call[s].cmd \in {"apply_change", "create"}
                        /\ call[s].copy.status \notin Closed
                        /\ call[s].user \in Admins \/ call[s].probe
    OBVIOUS
  <2>1. PICK s \in Sessions : call[s].pc = "aws" /\ call[s].target = c
    BY OnlyAwsStepsUse DEF CopiesInv
  <2> QED
    BY <2>1 DEF CopiesInv, Entitled
<1> QED
  BY <1>1, CopiesCorrect, PTL DEF Spec, AwsChangedOnlyByEntitledCalls

-----------------------------------------------------------------------------
(* Calls that do not overlap.                                              *)

\* What a write may make of the item, in terms of RequestLifecycle.
Moves(st, r) ==
    \/ Written(st, r)
    \/ st.status = "absent" /\ r.status \in {"pending", "approved"} /\ r.chg = st.chg
    \/ /\ st.status # "absent" /\ r.chg = st.chg
       /\ \/ HasApplied(st) /\ r.status = "approved"
          \/ /\ ~HasApplied(st) /\ r.status = "cancelled"
             /\ \E c \in Changes : st.chg[c] = "cancelled"

\* A step of session s leaves a sound call and an item of the right kind.
GoodStep(s) ==
    /\ AbsentIsFresh' /\ Keeps(stored, stored')
    /\ "write" \notin Faults => Moves(stored, stored')
    /\ \E n : Continue(s, n) /\ Sound(n, stored', uses')

\* A step that leaves the item alone.
LEMMA QuietStep ==
  ASSUME SerialInv, NEW s \in Sessions, NEW n, Continue(s, n), stored' = stored,
         Sound(n, stored, uses')
  PROVE  GoodStep(s)
<1>1. AbsentIsFresh' /\ Keeps(stored, stored') /\ Moves(stored, stored')
  BY DEF SerialInv, AbsentIsFresh, Keeps, Moves, Written, SameLife
<1> QED
  BY <1>1 DEF GoodStep

\* A call ends and leaves the item alone.
LEMMA EndStep ==
  ASSUME SerialInv, NEW s \in Sessions, EndCall(s), stored' = stored, uses' = uses,
         NothingFails => Mirrors(stored, uses)
  PROVE  GoodStep(s)
<1>1. ~InFlight(NoCall)
  BY DEF InFlight, NoCall
<1>2. Sound(NoCall, stored, uses)
  BY <1>1 DEF Sound
<1> QED
  BY <1>2, QuietStep DEF EndCall

\* A copy with the same changes says the same of AWS.
LEMMA SameMirror ==
  ASSUME NEW r, NEW q, NEW us, r.chg = q.chg
  PROVE  Mirrors(r, us) <=> Mirrors(q, us)
  BY DEF Mirrors

\* A copy goes on to keep what was applied when its changes and documents stay.
LEMMA SameKeeps ==
  ASSUME NEW st, NEW r, NEW q, Keeps(st, r), q.chg = r.chg, q.doc = r.doc
  PROVE  Keeps(st, q)
  BY DEF Keeps

\* Where nothing fails, none of the faults happens.
LEMMA NoFaults ==
  ASSUME NothingFails
  PROVE  /\ "write" \notin Faults /\ "read" \notin Faults
         /\ "reply" \notin Faults /\ "crash" \notin Faults
  BY DEF NothingFails

\* What is known of a call in flight.
LEMMA CallFacts ==
  ASSUME CopiesInv, SerialInv, NEW s \in Sessions, InFlight(call[s])
  PROVE  /\ call[s] \in Call /\ call[s].copy \in Request /\ call[s].user \in Users
         /\ call[s].target \in Changes /\ stored \in Request
         /\ Entitled(call[s]) /\ Holds(call[s], stored)
         /\ "write" \notin Faults => Lives(call[s], stored)
         /\ NothingFails => Mirrors(call[s].copy, uses)
<1>1. call[s] \in Call /\ stored \in Request /\ Entitled(call[s])
  BY DEF CopiesInv, TypeOK
<1>2. Sound(call[s], stored, uses)
  BY DEF SerialInv
<1> QED
  BY <1>1, <1>2 DEF Sound, Call

\* AWS accepts the change: the copy now differs from the item by a decision.
LEMMA AcceptsStep ==
  ASSUME CopiesInv, SerialInv, NEW s \in Sessions, AwsAccepts(s)
  PROVE  GoodStep(s)
<1> DEFINE me == call[s]
           r  == [me.copy EXCEPT !.chg[me.target] = "applied"]
           n  == [me EXCEPT !.pc = AfterAws(me, r), !.copy = r]
<1>1. me.pc = "aws" /\ InFlight(me)
  BY DEF AwsAccepts, InFlight
<1>2. /\ me \in Call /\ me.copy \in Request /\ me.target \in Changes /\ stored \in Request
      /\ Entitled(me) /\ Holds(me, stored)
      /\ "write" \notin Faults => Lives(me, stored)
      /\ NothingFails => Mirrors(me.copy, uses)
  BY <1>1, CallFacts
<1>3. /\ r.chg = [me.copy.chg EXCEPT ![me.target] = "applied"]
      /\ r.chg[me.target] = "applied" /\ r.status = me.copy.status
      /\ r.doc = me.copy.doc /\ r.auto = me.copy.auto /\ r.supp = me.copy.supp
  BY <1>2 DEF Request
<1>4. AfterAws(me, r) \in {"refresh", "write"}
  BY <1>3 DEF AfterAws
<1>5. /\ n.pc \in {"refresh", "write"} /\ n.copy = r
      /\ n.cmd = me.cmd /\ n.target = me.target /\ n.todo = me.todo
  BY <1>2, <1>4 DEF Call
<1>6. /\ Continue(s, n) /\ stored' = stored
      /\ uses' = [uses EXCEPT ![me.target] = @ + 1]
  BY DEF AwsAccepts, AwsUsed, UnchangedItem
<1>7. me.cmd \in {"apply_change", "create"} /\ me.copy.status \notin Closed
  BY <1>1, <1>2 DEF Entitled
<1>8. \A c \in Changes : c # me.target => r.chg[c] = me.copy.chg[c]
  BY <1>2, <1>3 DEF Request
<1> HIDE DEF n, r
<1>9. Holds(n, stored)
  <2>1. Keeps(stored, r)
    BY <1>2, <1>3, <1>8 DEF Holds, Keeps
  <2> QED
    BY <1>2, <1>3, <1>5, <1>7, <2>1 DEF Holds
<1>10. ASSUME "write" \notin Faults PROVE Lives(n, stored)
  <2>1. SameLife(stored, me.copy) /\ me.copy.chg[me.target] = "not_applied"
    BY <1>1, <1>2, <1>10 DEF Lives
  <2>2. me.copy.status \in {"pending", "approved"}
    BY <1>2, <1>7 DEF Holds, Request, RequestStatus, Closed
  <2>3. Decided(stored, r, me.target, "applied")
    BY <1>3, <2>1, <2>2 DEF SameLife, Decided
  <2>4. Written(stored, r)
    BY <1>2, <2>3 DEF Written
  <2>5. me.cmd = "create" =>
           /\ me.target \notin me.todo
           /\ \A c \in me.todo : c \in Changes /\ me.copy.chg[c] = "not_applied"
    BY <1>1, <1>2, <1>10 DEF Lives, Call
  <2>6. me.cmd \in PutCommands => stored.auto = r.auto /\ stored.supp = r.supp
    BY <1>1, <1>2, <1>3, <1>10 DEF Lives
  <2> QED
    BY <1>5, <1>7, <1>8, <2>3, <2>4, <2>5, <2>6 DEF Lives
<1>11. ASSUME NothingFails PROVE Mirrors(r, uses')
  <2>1. uses \in [Changes -> Nat] /\ Mirrors(me.copy, uses)
    BY <1>2, <1>11 DEF CopiesInv, TypeOK
  <2>2. /\ uses'[me.target] = uses[me.target] + 1
        /\ \A c \in Changes : c # me.target => uses'[c] = uses[c]
    BY <1>2, <1>6, <2>1
  <2>3. uses'[me.target] > 0
    BY <1>2, <2>1, <2>2
  <2> QED
    BY <1>3, <1>8, <2>1, <2>2, <2>3 DEF Mirrors
<1>12. Sound(n, stored, uses')
  BY <1>5, <1>9, <1>10, <1>11 DEF Sound, InFlight
<1> QED
  BY <1>6, <1>12, QuietStep

\* AWS refuses the change, or nobody learns that it did not: the copy stays.
LEMMA RefusesStep ==
  ASSUME CopiesInv, SerialInv, NEW s \in Sessions,
         AwsRefuses(s) \/ AwsDoesHalf(s) \/ AwsReplyLost(s)
  PROVE  GoodStep(s)
<1> DEFINE me == call[s]
           n  == [me EXCEPT !.pc = AfterAws(me, me.copy), !.failed = TRUE]
<1>1. me.pc = "aws" /\ InFlight(me)
  BY DEF AwsRefuses, AwsDoesHalf, AwsReplyLost, InFlight
<1>2. /\ me \in Call /\ me.copy \in Request /\ me.target \in Changes /\ stored \in Request
      /\ Entitled(me) /\ Holds(me, stored)
      /\ "write" \notin Faults => Lives(me, stored)
      /\ NothingFails => Mirrors(me.copy, uses)
  BY <1>1, CallFacts
<1>3. AfterAws(me, me.copy) \in {"refresh", "write", "settle"}
  BY DEF AfterAws
<1>4. /\ n.pc \in {"refresh", "write", "settle"} /\ n.copy = me.copy
      /\ n.cmd = me.cmd /\ n.target = me.target /\ n.todo = me.todo
  BY <1>2, <1>3 DEF Call
<1>5. n.failed
  BY <1>2 DEF Call
<1>6. Continue(s, n) /\ stored' = stored
  BY DEF AwsRefuses, AwsDoesHalf, AwsReplyLost, UnchangedItem
<1>7. NothingFails => uses' = uses
  BY <1>2, NoFaults DEF AwsRefuses, AwsDoesHalf, AwsReplyLost, UnchangedAws, NothingFails
<1> HIDE DEF n
<1>8. Holds(n, stored)
  BY <1>2, <1>4, <1>5 DEF Holds
<1>9. "write" \notin Faults => Lives(n, stored)
  BY <1>1, <1>2, <1>4 DEF Lives, Written
<1>10. Sound(n, stored, uses')
  BY <1>2, <1>4, <1>7, <1>8, <1>9 DEF Sound, InFlight
<1> QED
  BY <1>6, <1>10, QuietStep

\* The role has been fetched again.
LEMMA RefreshStep ==
  ASSUME CopiesInv, SerialInv, NEW s \in Sessions, RefreshRole(s)
  PROVE  GoodStep(s)
<1> DEFINE me == call[s]
           p  == IF me.cmd # "approve_request" /\ me.copy.chg[me.target] = "applied"
                 THEN "write" ELSE "settle"
           n  == [me EXCEPT !.pc = p]
<1>1. me.pc = "refresh" /\ InFlight(me)
  BY DEF RefreshRole, InFlight
<1>2. /\ me \in Call /\ me.copy \in Request /\ me.target \in Changes /\ stored \in Request
      /\ Holds(me, stored)
      /\ "write" \notin Faults => Lives(me, stored)
      /\ NothingFails => Mirrors(me.copy, uses)
  BY <1>1, CallFacts
<1>3. /\ n.pc = p /\ n.copy = me.copy
      /\ n.cmd = me.cmd /\ n.target = me.target /\ n.todo = me.todo
  BY <1>2 DEF Call
<1>4. n.failed = me.failed
  BY <1>2 DEF Call
<1>5. Continue(s, n) /\ stored' = stored /\ uses' = uses
  BY DEF RefreshRole, UnchangedItem, UnchangedAws
<1>6. /\ p \in {"write", "settle"}
      /\ p = "settle" => me.cmd = "approve_request" \/ me.copy.chg[me.target] # "applied"
  OBVIOUS
<1> HIDE DEF n, p
<1>7. Holds(n, stored)
  BY <1>1, <1>2, <1>3, <1>4, <1>6 DEF Holds
<1>8. ASSUME "write" \notin Faults PROVE Lives(n, stored)
  <2>1. \/ SameLife(stored, me.copy)
        \/ me.cmd # "approve_request" /\ Decided(stored, me.copy, me.target, "applied")
    BY <1>1, <1>2, <1>8 DEF Lives
  <2>2. Written(stored, me.copy)
    BY <1>2, <2>1 DEF Written
  <2>3. p = "settle" => SameLife(stored, me.copy)
    BY <1>2, <1>6, <2>1 DEF Decided, Request
  <2> QED
    BY <1>1, <1>2, <1>3, <1>6, <1>8, <2>2, <2>3 DEF Lives
<1>9. Sound(n, stored, uses')
  BY <1>2, <1>3, <1>5, <1>6, <1>7, <1>8 DEF Sound, InFlight
<1> QED
  BY <1>5, <1>9, QuietStep

\* A step that writes r.
LEMMA SaveStep ==
  ASSUME NEW s \in Sessions, NEW n, Continue(s, n), NEW r, stored' = r,
         r.status # "absent", Keeps(stored, r),
         "write" \notin Faults => Moves(stored, r),
         Sound(n, r, uses')
  PROVE  GoodStep(s)
  BY DEF GoodStep, AbsentIsFresh

\* _update_dynamo_with_change, done or failed.
LEMMA WriteStep ==
  ASSUME CopiesInv, SerialInv, NEW s \in Sessions, WriteChange(s)
  PROVE  GoodStep(s)
<1> DEFINE me == call[s]
           p  == IF me.cmd = "approve_request" THEN "refresh" ELSE "settle"
           n  == [me EXCEPT !.pc = p]
           f  == [me EXCEPT !.pc = p, !.failed = TRUE]
<1>1. me.pc = "write" /\ InFlight(me)
  BY DEF WriteChange, InFlight
<1>2. /\ me \in Call /\ me.copy \in Request /\ me.target \in Changes /\ stored \in Request
      /\ Holds(me, stored)
      /\ "write" \notin Faults => Lives(me, stored)
      /\ NothingFails => Mirrors(me.copy, uses)
  BY <1>1, CallFacts
<1>3. /\ n.pc = p /\ n.copy = me.copy
      /\ n.cmd = me.cmd /\ n.target = me.target /\ n.todo = me.todo
      /\ f.pc = p /\ f.copy = me.copy /\ f.cmd = me.cmd
  BY <1>2 DEF Call
<1>4. f.failed
  BY <1>2 DEF Call
<1>5. /\ uses' = uses
      /\ \/ Continue(s, n) /\ stored' = me.copy
         \/ "write" \in Faults /\ Continue(s, f) /\ stored' = stored
  BY DEF WriteChange, WriteFails, Save, UnchangedItem, UnchangedAws
<1>6. /\ p \in {"refresh", "settle"}
      /\ p = "refresh" => me.cmd = "approve_request"
  OBVIOUS
<1> HIDE DEF n, f, p
<1>7. CASE Continue(s, n) /\ stored' = me.copy
  <2>1. Keeps(me.copy, me.copy) /\ SameLife(me.copy, me.copy)
    BY DEF Keeps, SameLife
  <2>2. Holds(n, me.copy)
    BY <1>2, <1>3, <1>6, <2>1 DEF Holds
  <2>3. "write" \notin Faults => Lives(n, me.copy)
    BY <1>1, <1>2, <1>3, <1>6, <2>1 DEF Lives
  <2>4. Sound(n, me.copy, uses')
    BY <1>2, <1>3, <1>5, <1>6, <2>2, <2>3 DEF Sound, InFlight
  <2>5. me.copy.status # "absent" /\ Keeps(stored, me.copy)
    BY <1>2 DEF Holds
  <2>6. "write" \notin Faults => Moves(stored, me.copy)
    BY <1>1, <1>2 DEF Lives, Moves
  <2> QED
    BY <1>7, <2>4, <2>5, <2>6, SaveStep
<1>8. CASE "write" \in Faults /\ Continue(s, f) /\ stored' = stored
  <2>1. Holds(f, stored)
    BY <1>2, <1>3, <1>4, <1>6 DEF Holds
  <2>2. Sound(f, stored, uses')
    BY <1>2, <1>3, <1>5, <1>6, <1>8, <2>1, NoFaults DEF Sound, InFlight
  <2> QED
    BY <1>8, <2>2, QuietStep
<1> QED
  BY <1>5, <1>7, <1>8

\* What maybe_approve_reject_request makes of a request that agrees with the
\* item is the conclusion of RequestLifecycle.
LEMMA SettledMoves ==
  ASSUME NEW st, NEW r \in Request, NEW u \in Users, Settles(r)
  PROVE  /\ Settled(r, u).chg = r.chg /\ Settled(r, u).doc = r.doc
         /\ Settled(r, u).status \in {"approved", "cancelled"}
         /\ SameLife(st, r) /\ r.status # "absent" => Moves(st, Settled(r, u))
<1>1. Settled(r, u).chg = r.chg /\ Settled(r, u).doc = r.doc
  BY DEF Settled, Request
<1>2. Settled(r, u).status = IF BecomesApproved(r) THEN "approved" ELSE "cancelled"
  BY DEF Settled, Request
<1>3. ASSUME SameLife(st, r), r.status # "absent" PROVE Moves(st, Settled(r, u))
  BY <1>1, <1>2, <1>3
  DEF SameLife, Moves, HasApplied, Settles, BecomesApproved, BecomesCancelled
<1> QED
  BY <1>1, <1>2, <1>3

\* The request is re-evaluated, and written if that settles it.
LEMMA SettleStep ==
  ASSUME CopiesInv, SerialInv, NEW s \in Sessions, MaybeApproveReject(s)
  PROVE  GoodStep(s)
<1> DEFINE me == call[s]
           p  == IF me.cmd = "create" THEN "next" ELSE "reply"
           r  == Settled(me.copy, me.user)
           n  == [me EXCEPT !.pc = p]
           m  == [me EXCEPT !.pc = p, !.copy = r]
           f  == [me EXCEPT !.pc = p, !.copy = r, !.failed = TRUE]
<1>1. me.pc = "settle" /\ InFlight(me)
  BY DEF MaybeApproveReject, InFlight
<1>2. /\ me \in Call /\ me.copy \in Request /\ me.user \in Users /\ stored \in Request
      /\ Holds(me, stored)
      /\ "write" \notin Faults => Lives(me, stored)
      /\ NothingFails => Mirrors(me.copy, uses)
  BY <1>1, CallFacts
<1>3. /\ n.pc = p /\ n.copy = me.copy /\ n.cmd = me.cmd /\ n.todo = me.todo
      /\ m.pc = p /\ m.copy = r /\ m.cmd = me.cmd /\ m.todo = me.todo
      /\ f.pc = p /\ f.copy = r /\ f.cmd = me.cmd
  BY <1>2 DEF Call
<1>4. f.failed /\ n.failed = me.failed
  BY <1>2 DEF Call
<1>5. /\ uses' = uses
      /\ \/ ~Settles(me.copy) /\ Continue(s, n) /\ stored' = stored
         \/ Settles(me.copy) /\ Continue(s, m) /\ stored' = r
         \/ Settles(me.copy) /\ "write" \in Faults /\ Continue(s, f) /\ stored' = stored
  BY DEF MaybeApproveReject, Save, UnchangedItem, UnchangedAws
<1>6. /\ p \in {"next", "reply"} /\ (p = "next" <=> me.cmd = "create")
      /\ "create" \notin PutCommands
  BY DEF PutCommands
<1>7. ASSUME Settles(me.copy)
      PROVE  /\ r.chg = me.copy.chg /\ r.doc = me.copy.doc
             /\ r.status \in {"approved", "cancelled"}
             /\ SameLife(stored, me.copy) => Moves(stored, r)
  BY <1>2, <1>7, SettledMoves DEF Holds
<1> HIDE DEF n, m, f, r, p
<1>8. CASE ~Settles(me.copy) /\ Continue(s, n) /\ stored' = stored
  <2>1. Holds(n, stored)
    BY <1>1, <1>2, <1>3, <1>4, <1>6 DEF Holds
  <2>2. ASSUME "write" \notin Faults PROVE Lives(n, stored)
    <3>1. SameLife(stored, me.copy)
      BY <1>1, <1>2, <2>2 DEF Lives
    <3>2. me.cmd \in PutCommands => ~Settles(stored)
      BY <1>1, <1>2, <1>8, <2>2, <3>1
      DEF Lives, SameLife, Settles, BecomesApproved, BecomesCancelled, HasApplied, Outstanding
    <3> QED
      BY <1>1, <1>2, <1>3, <1>6, <2>2, <3>1, <3>2 DEF Lives
  <2>3. Sound(n, stored, uses')
    BY <1>2, <1>3, <1>5, <1>6, <2>1, <2>2 DEF Sound, InFlight
  <2> QED
    BY <1>8, <2>3, QuietStep
<1>9. CASE Settles(me.copy) /\ Continue(s, m) /\ stored' = r
  <2>1. Keeps(stored, r) /\ Keeps(r, r) /\ SameLife(r, r) /\ r.status # "absent"
    BY <1>2, <1>7, <1>9, SameKeeps DEF Holds, Keeps, SameLife
  <2>2. Holds(m, r)
    BY <1>2, <1>3, <1>6, <2>1 DEF Holds
  <2>3. ASSUME "write" \notin Faults PROVE Lives(m, r) /\ Moves(stored, r)
    <3>1. SameLife(stored, me.copy)
      BY <1>1, <1>2, <2>3 DEF Lives
    <3>2. r.status # "pending"
      BY <1>7, <1>9
    <3> QED
      BY <1>1, <1>2, <1>3, <1>6, <1>7, <1>9, <2>1, <2>3, <3>1, <3>2 DEF Lives
  <2>4. NothingFails => Mirrors(r, uses')
    BY <1>2, <1>5, <1>7, <1>9, SameMirror
  <2>5. Sound(m, r, uses')
    BY <1>3, <1>6, <2>2, <2>3, <2>4 DEF Sound, InFlight
  <2> QED
    BY <1>9, <2>1, <2>3, <2>5, SaveStep
<1>10. CASE Settles(me.copy) /\ "write" \in Faults /\ Continue(s, f) /\ stored' = stored
  <2>1. Keeps(stored, r) /\ r.status # "absent"
    BY <1>2, <1>7, <1>10, SameKeeps DEF Holds
  <2>2. Holds(f, stored)
    BY <1>2, <1>3, <1>4, <1>6, <2>1 DEF Holds
  <2>3. Sound(f, stored, uses')
    BY <1>3, <1>6, <1>10, <2>2, NoFaults DEF Sound, InFlight
  <2> QED
    BY <1>10, <2>3, QuietStep
<1> QED
  BY <1>5, <1>8, <1>9, <1>10

\* An item with the same changes as a sound copy is in agreement with AWS.
LEMMA SameLifeMirror ==
  ASSUME NEW st, NEW r, NEW us, SameLife(st, r), Mirrors(r, us)
  PROVE  Mirrors(st, us)
  BY DEF SameLife, Mirrors

\* The call ends: by its reply, at an exception or with its process.
LEMMA EndsStep ==
  ASSUME CopiesInv, SerialInv, NEW s \in Sessions,
         Reply(s) \/ AwsReadFails(s) \/ ProcessDies(s)
  PROVE  GoodStep(s)
<1>1. EndCall(s) /\ stored' = stored /\ uses' = uses
  BY DEF Reply, AwsReadFails, ProcessDies, UnchangedItem, UnchangedAws
<1>2. InFlight(call[s])
  BY DEF Reply, AwsReadFails, ReadPoints, ProcessDies, InFlight
<1>3. ASSUME NothingFails PROVE Mirrors(stored, uses)
  <2>1. call[s].pc = "reply"
    BY <1>3, NoFaults DEF Reply, AwsReadFails, ProcessDies
  <2>2. Lives(call[s], stored) /\ Mirrors(call[s].copy, uses)
    BY <1>2, <1>3, CallFacts, NoFaults
  <2> QED
    BY <2>1, <2>2, SameLifeMirror DEF Lives
<1> QED
  BY <1>1, <1>3, EndStep

\* A call stands elsewhere with the same copy, having written it or nothing.
LEMMA SameCopyStep ==
  ASSUME CopiesInv, SerialInv, NEW s \in Sessions, InFlight(call[s]),
         SameLife(stored, call[s].copy) \/ "write" \in Faults,
         NEW n, Continue(s, n), InFlight(n),
         n.copy = call[s].copy, n.cmd = call[s].cmd, n.cmd \notin PutCommands,
         stored' \in {stored, call[s].copy}, uses' = uses,
         n.pc \in {"create", "next", "final"} => n.cmd = "create",
         n.pc \in {"view", "viewwrite"} => n.cmd = "view",
         n.pc \notin {"create", "refresh", "write"},
         "write" \notin Faults =>
            /\ n.pc = "aws" => n.copy.chg[n.target] = "not_applied"
            /\ n.cmd = "create" =>
                  /\ \A c \in n.todo : n.copy.chg[c] = "not_applied"
                  /\ n.pc \in {"aws", "settle"} => n.target \notin n.todo
  PROVE  GoodStep(s)
<1> DEFINE r == call[s].copy
<1>1. /\ Holds(call[s], stored) /\ r.status # "absent" /\ Keeps(stored, r)
      /\ NothingFails => Mirrors(r, uses)
  BY CallFacts DEF Holds
<1>2. Keeps(r, r) /\ SameLife(r, r)
  BY DEF Keeps, SameLife
<1>3. Keeps(stored', r) /\ ("write" \notin Faults => SameLife(stored', r))
  BY <1>1, <1>2
<1>4. Holds(n, stored')
  BY <1>1, <1>3 DEF Holds
<1>5. "write" \notin Faults => Lives(n, stored')
  BY <1>3 DEF Lives
<1>6. Sound(n, stored', uses')
  BY <1>1, <1>4, <1>5 DEF Sound
<1>7. "write" \notin Faults => Moves(stored, r)
  BY DEF Moves, Written
<1>8. CASE stored' = stored
  BY <1>6, <1>8, QuietStep
<1>9. CASE stored' = r
  BY <1>1, <1>6, <1>7, <1>9, SaveStep
<1> QED
  BY <1>8, <1>9

\* A submission is stored for the first time.
LEMMA CreateWriteStep ==
  ASSUME CopiesInv, SerialInv, NEW s \in Sessions, CreateWrite(s)
  PROVE  GoodStep(s)
<1> DEFINE me == call[s]
           n  == [me EXCEPT !.pc = IF me.copy.status = "approved" THEN "next" ELSE "reply"]
<1>1. me.pc = "create" /\ InFlight(me)
  BY DEF CreateWrite, InFlight
<1>2. /\ me \in Call /\ Holds(me, stored)
      /\ "write" \notin Faults => Lives(me, stored)
      /\ NothingFails => Mirrors(me.copy, uses)
  BY <1>1, CallFacts
<1>3. /\ n.pc \in {"next", "reply"} /\ n.copy = me.copy /\ n.cmd = me.cmd
      /\ n.todo = me.todo
  BY <1>2 DEF Call
<1>4. me.cmd = "create" /\ "create" \notin PutCommands
  BY <1>1, <1>2 DEF Holds, PutCommands
<1>5. /\ uses' = uses
      /\ \/ Continue(s, n) /\ stored' = me.copy
         \/ "write" \in Faults /\ EndCall(s) /\ stored' = stored
  BY DEF CreateWrite, Save, UnchangedItem, UnchangedAws
<1> HIDE DEF n
<1>6. CASE Continue(s, n) /\ stored' = me.copy
  <2>1. Keeps(me.copy, me.copy) /\ SameLife(me.copy, me.copy)
    BY DEF Keeps, SameLife
  <2>2. Holds(n, me.copy)
    BY <1>2, <1>3, <1>4, <2>1 DEF Holds
  <2>3. "write" \notin Faults => Lives(n, me.copy)
    BY <1>2, <1>3, <1>4, <2>1 DEF Lives
  <2>4. Sound(n, me.copy, uses')
    BY <1>2, <1>3, <1>5, <2>2, <2>3 DEF Sound, InFlight
  <2>5. me.copy.status # "absent" /\ Keeps(stored, me.copy)
    BY <1>2 DEF Holds
  <2>6. "write" \notin Faults => Moves(stored, me.copy)
    BY <1>1, <1>2 DEF Lives, Moves
  <2> QED
    BY <1>6, <2>4, <2>5, <2>6, SaveStep
<1>7. CASE "write" \in Faults /\ EndCall(s) /\ stored' = stored
  BY <1>5, <1>7, EndStep, NoFaults
<1> QED
  BY <1>5, <1>6, <1>7

\* The loop over the changes of a submission.
LEMMA LoopStep ==
  ASSUME CopiesInv, SerialInv, NEW s \in Sessions,
         ApplyNext(s) \/ ApplyDone(s) \/ CreateFinalWrite(s)
  PROVE  GoodStep(s)
<1> DEFINE me == call[s]
<1>1. me.pc \in {"next", "final"} /\ InFlight(me)
  BY DEF ApplyNext, ApplyDone, CreateFinalWrite, InFlight
<1>2. /\ me \in Call /\ Holds(me, stored)
      /\ "write" \notin Faults => Lives(me, stored)
      /\ NothingFails => Mirrors(me.copy, uses)
  BY <1>1, CallFacts
<1>3. me.cmd = "create" /\ "create" \notin PutCommands
  BY <1>1, <1>2 DEF Holds, PutCommands
<1>4. SameLife(stored, me.copy) \/ "write" \in Faults
  BY <1>1, <1>2 DEF Lives
<1>5. "write" \notin Faults => \A c \in me.todo : me.copy.chg[c] = "not_applied"
  BY <1>2, <1>3 DEF Lives
<1>6. ASSUME EndCall(s), stored' = stored, uses' = uses PROVE GoodStep(s)
  BY <1>2, <1>4, <1>6, SameLifeMirror, NoFaults, EndStep
<1>7. CASE ApplyNext(s)
  <2>1. PICK c \in me.todo :
              IF me.probe \/ me.user \in Admins
              THEN Continue(s, [me EXCEPT !.pc = "aws", !.target = c,
                                          !.todo = @ \ {c}, !.failed = FALSE])
              ELSE EndCall(s)
    BY <1>7 DEF ApplyNext
  <2> DEFINE n == [me EXCEPT !.pc = "aws", !.target = c,
                             !.todo = @ \ {c}, !.failed = FALSE]
  <2>2. /\ n.pc = "aws" /\ n.copy = me.copy /\ n.cmd = me.cmd
        /\ n.target = c /\ n.todo = me.todo \ {c}
    BY <1>2 DEF Call
  <2>3. stored' = stored /\ uses' = uses
    BY <1>7 DEF ApplyNext, UnchangedItem, UnchangedAws
  <2>4. Continue(s, n) \/ EndCall(s)
    BY <2>1
  <2> HIDE DEF n
  <2>5. CASE Continue(s, n)
    BY <1>1, <1>3, <1>4, <1>5, <2>2, <2>3, <2>5, SameCopyStep DEF InFlight
  <2> QED
    BY <1>6, <2>3, <2>4, <2>5
<1>8. CASE ApplyDone(s)
  <2> DEFINE n == [me EXCEPT !.pc = "final"]
  <2>1. n.pc = "final" /\ n.copy = me.copy /\ n.cmd = me.cmd /\ n.todo = me.todo
    BY <1>2 DEF Call
  <2>2. Continue(s, n) /\ stored' = stored /\ uses' = uses
    BY <1>8 DEF ApplyDone, UnchangedItem, UnchangedAws
  <2> HIDE DEF n
  <2> QED
    BY <1>1, <1>3, <1>4, <1>5, <2>1, <2>2, SameCopyStep DEF InFlight
<1>9. CASE CreateFinalWrite(s)
  <2> DEFINE n == [me EXCEPT !.pc = "reply"]
  <2>1. n.pc = "reply" /\ n.copy = me.copy /\ n.cmd = me.cmd /\ n.todo = me.todo
    BY <1>2 DEF Call
  <2>2. /\ uses' = uses
        /\ \/ Continue(s, n) /\ stored' = me.copy
           \/ EndCall(s) /\ stored' = stored
    BY <1>9 DEF CreateFinalWrite, Save, UnchangedItem, UnchangedAws
  <2> HIDE DEF n
  <2>3. CASE Continue(s, n) /\ stored' = me.copy
    BY <1>1, <1>3, <1>4, <1>5, <2>1, <2>2, <2>3, SameCopyStep DEF InFlight
  <2> QED
    BY <1>6, <2>2, <2>3
<1> QED
  BY <1>7, <1>8, <1>9

\* A page view refreshes its copy, of which applied changes keep their document,
\* and writes it.
LEMMA ViewStep ==
  ASSUME CopiesInv, SerialInv, NEW s \in Sessions, Populate(s) \/ ViewWrite(s)
  PROVE  GoodStep(s)
<1> DEFINE me == call[s]
<1>1. me.pc \in {"view", "viewwrite"} /\ InFlight(me)
  BY DEF Populate, ViewWrite, InFlight
<1>2. /\ me \in Call /\ me.copy \in Request /\ Holds(me, stored)
      /\ "write" \notin Faults => Lives(me, stored)
      /\ NothingFails => Mirrors(me.copy, uses)
  BY <1>1, CallFacts
<1>3. me.cmd = "view" /\ "view" \notin PutCommands
  BY <1>1, <1>2 DEF Holds, PutCommands
<1>4. SameLife(stored, me.copy) \/ "write" \in Faults
  BY <1>1, <1>2 DEF Lives
<1>5. CASE Populate(s)
  <2> DEFINE rs == Refreshable(me.copy, "resource")
             ms == Refreshable(me.copy, "managed_policy")
  <2>1. PICK supp \in [rs -> {"yes", "no"}], docs \in [rs -> Docs],
             changed \in SUBSET rs, managed \in SUBSET ms :
      LET r == [me.copy EXCEPT
                 !.supp = [c \in Changes |->
                             IF c \in rs THEN supp[c] ELSE @[c]],
                 !.doc  = [c \in Changes |->
                             IF c \in changed /\ me.copy.auto[c]
                             THEN docs[c] ELSE @[c]]]
          p == IF changed \cup managed = {} THEN "reply" ELSE "viewwrite"
      IN  Continue(s, [me EXCEPT !.pc = p, !.copy = r,
                                 !.again = changed # {} /\ managed # {}])
    BY <1>5 DEF Populate
  <2> DEFINE r == [me.copy EXCEPT
                 !.supp = [c \in Changes |->
                             IF c \in rs THEN supp[c] ELSE @[c]],
                 !.doc  = [c \in Changes |->
                             IF c \in changed /\ me.copy.auto[c]
                             THEN docs[c] ELSE @[c]]]
             p == IF changed \cup managed = {} THEN "reply" ELSE "viewwrite"
             n == [me EXCEPT !.pc = p, !.copy = r,
                             !.again = changed # {} /\ managed # {}]
  <2>2. /\ r.chg = me.copy.chg /\ r.status = me.copy.status
        /\ \A c \in Changes : me.copy.chg[c] = "applied" => r.doc[c] = me.copy.doc[c]
    BY <1>2, <2>1 DEF Request, Refreshable
  <2>3. n.pc \in {"reply", "viewwrite"} /\ n.copy = r /\ n.cmd = me.cmd
    BY <1>2 DEF Call
  <2>4. Continue(s, n) /\ stored' = stored /\ uses' = uses
    BY <1>5, <2>1 DEF Populate, UnchangedItem, UnchangedAws
  <2> HIDE DEF n, r
  <2>5. Keeps(stored, r) /\ r.status # "absent"
    BY <1>2, <2>2 DEF Holds, Keeps
  <2>6. Holds(n, stored)
    BY <1>3, <2>3, <2>5 DEF Holds
  <2>7. "write" \notin Faults => Lives(n, stored)
    BY <1>3, <1>4, <2>2, <2>3 DEF Lives, SameLife
  <2>8. NothingFails => Mirrors(r, uses')
    BY <1>2, <2>2, <2>4, SameMirror
  <2>9. Sound(n, stored, uses')
    BY <2>3, <2>6, <2>7, <2>8 DEF Sound, InFlight
  <2> QED
    BY <2>4, <2>9, QuietStep
<1>6. CASE ViewWrite(s)
  <2> DEFINE n == [me EXCEPT !.pc = IF me.again THEN @ ELSE "reply", !.again = FALSE]
  <2>1. n.pc \in {"viewwrite", "reply"} /\ n.copy = me.copy /\ n.cmd = me.cmd
    BY <1>2, <1>6 DEF Call, ViewWrite
  <2>2. /\ uses' = uses
        /\ \/ Continue(s, n) /\ stored' = me.copy
           \/ EndCall(s) /\ stored' = stored
    BY <1>6 DEF ViewWrite, Save, UnchangedItem, UnchangedAws
  <2> HIDE DEF n
  <2>3. CASE Continue(s, n) /\ stored' = me.copy
    BY <1>1, <1>3, <1>4, <2>1, <2>2, <2>3, SameCopyStep DEF InFlight
  <2>4. CASE EndCall(s) /\ stored' = stored
    BY <1>2, <1>4, <2>2, <2>4, SameLifeMirror, NoFaults, EndStep
  <2> QED
    BY <2>2, <2>3, <2>4
<1> QED
  BY <1>5, <1>6

\* A command or a page view starts with a copy that is at most one step of the
\* request's life ahead of the item.
LEMMA ReceiveStep ==
  ASSUME CopiesInv, SerialInv, NEW s \in Sessions, NEW u \in Users,
         NEW cmd \in PutCommands \cup {"view"}, NEW c \in Changes, NEW r \in Request,
         NEW p \in {"view", "aws", "write", "settle"}, NEW f \in BOOLEAN,
         Receive(s, u, cmd, c, r, p, f),
         r.status # "absent", Keeps(stored, r),
         \A x \in Changes : r.chg[x] = "applied" => stored.chg[x] = "applied",
         p = "view" <=> cmd = "view",
         p = "settle" => f,
         p = "write" => Written(stored, r),
         p # "write" => SameLife(stored, r),
         p = "aws" => r.chg[c] = "not_applied",
         p \in {"aws", "settle"} => stored.auto = r.auto /\ stored.supp = r.supp
  PROVE  GoodStep(s)
<1> DEFINE n == [NoCall EXCEPT !.pc = p, !.cmd = cmd, !.user = u,
                               !.target = c, !.copy = r, !.failed = f]
<1>1. call[s].pc = "idle" /\ Continue(s, n) /\ stored' = stored /\ uses' = uses
  BY DEF Receive, UnchangedItem, UnchangedAws
<1>2. n.pc = p /\ n.cmd = cmd /\ n.target = c /\ n.copy = r /\ n.failed = f
  BY DEF NoCall
<1>3. cmd # "create"
  BY DEF PutCommands
<1> HIDE DEF n
<1>4. Holds(n, stored)
  BY <1>2, <1>3 DEF Holds
<1>5. Lives(n, stored)
  BY <1>2, <1>3 DEF Lives, PutCommands
<1>6. NothingFails => Mirrors(stored, uses)
  BY <1>1 DEF SerialInv, Sound, InFlight
<1>7. NothingFails => Mirrors(r, uses)
  BY <1>6 DEF Mirrors, Keeps
<1>8. Sound(n, stored, uses')
  BY <1>1, <1>2, <1>4, <1>5, <1>7 DEF Sound, InFlight
<1> QED
  BY <1>1, <1>8, QuietStep

\* A request is submitted.
LEMMA CreateStep ==
  ASSUME CopiesInv, SerialInv, NEW s \in Sessions, NEW u \in Users,
         NEW r \in NewRequests(u), NEW mode \in {"plain", "admin", "probe"},
         CreateRequest(s, u, r, mode)
  PROVE  GoodStep(s)
<1> DEFINE q == Submitted(r, mode)
           n == [NoCall EXCEPT !.pc = "create", !.cmd = "create", !.user = u,
                               !.copy = q,
                               !.todo = {c \in Changes : ~r.auto[c]},
                               !.probe = (mode = "probe")]
<1>1. /\ call[s].pc = "idle" /\ stored.status = "absent"
      /\ Continue(s, n) /\ stored' = stored /\ uses' = uses
  BY DEF CreateRequest, UnchangedItem, UnchangedAws
<1>2. r \in Request /\ r.status = "pending" /\ r.chg = NoRequest.chg
  BY NoRequestType DEF NewRequests, Request, RequestStatus
<1>3. q.chg = NoRequest.chg /\ q.status \in {"pending", "approved"}
  BY <1>2 DEF Submitted, Request, RequestStatus
<1>4. /\ n.pc = "create" /\ n.cmd = "create" /\ n.copy = q
      /\ n.todo = {c \in Changes : ~r.auto[c]}
  BY DEF NoCall
<1>5. stored.chg = NoRequest.chg /\ \A c \in Changes : NoRequest.chg[c] = "not_applied"
  BY <1>1 DEF SerialInv, AbsentIsFresh, NoRequest
<1> HIDE DEF n, q
<1>6. Holds(n, stored)
  BY <1>3, <1>4, <1>5 DEF Holds, Keeps, PutCommands
<1>7. Lives(n, stored)
  BY <1>1, <1>3, <1>4, <1>5 DEF Lives, PutCommands
<1>8. NothingFails => Mirrors(stored, uses)
  BY <1>1 DEF SerialInv, Sound, InFlight
<1>9. NothingFails => Mirrors(q, uses)
  BY <1>3, <1>5, <1>8, SameMirror
<1>10. Sound(n, stored, uses')
  BY <1>1, <1>4, <1>6, <1>7, <1>9 DEF Sound, InFlight
<1> QED
  BY <1>1, <1>10, QuietStep

\* A call starts.
LEMMA IncomingStep ==
  ASSUME CopiesInv, SerialInv, NEW s \in Sessions, Incoming(s)
  PROVE  GoodStep(s)
<1>1. PICK u \in Users :
        \/ AddComment(s, u)
        \/ \E c \in Changes, d \in Docs : UpdateChange(s, u, c, d)
        \/ \E c \in Changes, d \in Docs : ApplyChange(s, u, c, d)
        \/ \E c \in Changes : CancelChange(s, u, c)
        \/ CancelRequest(s, u)
        \/ RejectRequest(s, u)
        \/ MoveBackToPending(s, u)
        \/ ApproveRequest(s, u)
        \/ ViewRequest(s, u)
        \/ \E r \in NewRequests(u), mode \in {"plain", "admin", "probe"} :
              CreateRequest(s, u, r, mode)
  BY DEF Incoming
<1>2. stored \in Request /\ calls \in Nat /\ SomeChange \in Changes
  BY SomeChangeType DEF CopiesInv, TypeOK
<1>3. Keeps(stored, stored) /\ SameLife(stored, stored)
  BY DEF Keeps, SameLife
<1>4. CASE AddComment(s, u)
  <2> DEFINE r == [stored EXCEPT !.comments = @ \cup {calls + 1}]
  <2>1. r \in Request /\ r.status = stored.status /\ r.chg = stored.chg /\ r.doc = stored.doc
    BY <1>2 DEF Request
  <2>2. Keeps(stored, r) /\ Written(stored, r)
    BY <2>1 DEF Keeps, Written, SameLife
  <2>3. stored.status # "absent" /\ Receive(s, u, "add_comment", SomeChange, r, "write", FALSE)
    BY <1>4 DEF AddComment, Exists
  <2>4. "add_comment" \in PutCommands
    BY DEF PutCommands
  <2> HIDE DEF r
  <2> QED
    BY <1>2, <2>1, <2>2, <2>3, <2>4, ReceiveStep
<1>5. CASE \E c \in Changes, d \in Docs : UpdateChange(s, u, c, d)
  <2>1. PICK c \in Changes, d \in Docs : UpdateChange(s, u, c, d)
    BY <1>5
  <2> DEFINE r == [stored EXCEPT !.doc[c] = d, !.auto[c] = @ /\ Kind[c] # "resource"]
  <2>2. /\ r \in Request /\ r.status = stored.status /\ r.chg = stored.chg
        /\ \A x \in Changes : x # c => r.doc[x] = stored.doc[x]
    BY <1>2 DEF Request
  <2>3. /\ stored.chg[c] = "not_applied" /\ stored.status # "absent"
        /\ Receive(s, u, "update_change", c, r, "write", FALSE)
    BY <2>1 DEF UpdateChange, StillOpen, Exists
  <2>4. Keeps(stored, r) /\ Written(stored, r)
    BY <2>2, <2>3 DEF Keeps, Written, SameLife
  <2>5. "update_change" \in PutCommands
    BY DEF PutCommands
  <2> HIDE DEF r
  <2> QED
    BY <2>2, <2>3, <2>4, <2>5, ReceiveStep
<1>6. CASE \E c \in Changes, d \in Docs : ApplyChange(s, u, c, d)
  <2>1. PICK c \in Changes, d \in Docs : ApplyChange(s, u, c, d)
    BY <1>6
  <2> DEFINE r == [stored EXCEPT !.doc[c] = d]
  <2>2. /\ r \in Request /\ r.status = stored.status /\ r.chg = stored.chg
        /\ r.auto = stored.auto /\ r.supp = stored.supp
        /\ \A x \in Changes : x # c => r.doc[x] = stored.doc[x]
    BY <1>2 DEF Request
  <2>3. /\ stored.chg[c] = "not_applied" /\ stored.status # "absent"
        /\ Receive(s, u, "apply_change", c, r, "aws", FALSE)
    BY <2>1 DEF ApplyChange, StillOpen, Exists
  <2>4. Keeps(stored, r) /\ SameLife(stored, r)
    BY <2>2, <2>3 DEF Keeps, SameLife
  <2>5. "apply_change" \in PutCommands
    BY DEF PutCommands
  <2> HIDE DEF r
  <2> QED
    BY <2>2, <2>3, <2>4, <2>5, ReceiveStep
<1>7. CASE \E c \in Changes : CancelChange(s, u, c)
  <2>1. PICK c \in Changes : CancelChange(s, u, c)
    BY <1>7
  <2> DEFINE r == [stored EXCEPT !.chg[c] = "cancelled"]
  <2>2. /\ r \in Request /\ r.status = stored.status /\ r.doc = stored.doc
        /\ r.chg = [stored.chg EXCEPT ![c] = "cancelled"]
        /\ \A x \in Changes : x # c => r.chg[x] = stored.chg[x]
        /\ r.chg[c] = "cancelled"
    BY <1>2 DEF Request, ChangeStatus
  <2>3. /\ stored.chg[c] = "not_applied" /\ stored.status \in {"pending", "approved"}
        /\ Receive(s, u, "cancel_change", c, r, "write", FALSE)
    BY <1>2, <2>1 DEF CancelChange, StillOpen, Exists, Closed, Request, RequestStatus
  <2>4. Decided(stored, r, c, "cancelled")
    BY <2>2, <2>3 DEF Decided
  <2>5. Keeps(stored, r) /\ Written(stored, r)
    BY <2>2, <2>3, <2>4 DEF Keeps, Written
  <2>6. "cancel_change" \in PutCommands
    BY DEF PutCommands
  <2> HIDE DEF r
  <2> QED
    BY <2>2, <2>3, <2>5, <2>6, ReceiveStep
<1>8. ASSUME NEW cmd \in PutCommands, NEW outcome \in Closed,
             CloseRequest(s, u, cmd, outcome)
      PROVE  GoodStep(s)
  <2> DEFINE r == [stored EXCEPT !.status = outcome, !.reviewer = u]
  <2>1. r \in Request /\ r.chg = stored.chg /\ r.doc = stored.doc /\ r.status = outcome
    BY <1>2 DEF Request, RequestStatus, Closed
  <2>2. /\ stored.status = "pending" /\ r.status # "absent" /\ cmd # "view"
        /\ Keeps(stored, r)
    BY <1>8, <2>1 DEF CloseRequest, Closed, Keeps, PutCommands
  <2>3. CASE HasApplied(stored) /\ Receive(s, u, cmd, SomeChange, stored, "settle", TRUE)
    BY <1>2, <1>3, <2>2, <2>3, ReceiveStep
  <2>4. CASE ~HasApplied(stored) /\ Receive(s, u, cmd, SomeChange, r, "write", FALSE)
    <3>1. Written(stored, r)
      BY <2>1, <2>2, <2>4 DEF Written, Disposed
    <3> HIDE DEF r
    <3> QED
      BY <1>2, <2>1, <2>2, <2>4, <3>1, ReceiveStep
  <2> QED
    BY <1>8, <2>3, <2>4 DEF CloseRequest
<1>9. CASE CancelRequest(s, u)
  BY <1>8, <1>9 DEF CancelRequest, Closed, PutCommands
<1>10. CASE RejectRequest(s, u)
  BY <1>8, <1>10 DEF RejectRequest, Closed, PutCommands
<1>11. CASE MoveBackToPending(s, u)
  <2> DEFINE r == [stored EXCEPT !.status = "pending"]
  <2>1. r \in Request /\ r.chg = stored.chg /\ r.doc = stored.doc /\ r.status = "pending"
    BY <1>2 DEF Request, RequestStatus
  <2>2. /\ stored.status \in Closed
        /\ Receive(s, u, "move_back_to_pending", SomeChange, r, "write", FALSE)
    BY <1>11 DEF MoveBackToPending
  <2>3. Keeps(stored, r) /\ Written(stored, r)
    BY <2>1, <2>2 DEF Keeps, Written, Reopened
  <2>4. "move_back_to_pending" \in PutCommands
    BY DEF PutCommands
  <2> HIDE DEF r
  <2> QED
    BY <1>2, <2>1, <2>2, <2>3, <2>4, ReceiveStep
<1>12. CASE ApproveRequest(s, u)
  <2> DEFINE r == [stored EXCEPT !.status = "approved", !.reviewer = u]
  <2>1. r \in Request /\ r.chg = stored.chg /\ r.doc = stored.doc /\ r.status = "approved"
    BY <1>2 DEF Request, RequestStatus
  <2>2. /\ stored.status = "pending"
        /\ Receive(s, u, "approve_request", SomeChange, r, "write", FALSE)
    BY <1>12 DEF ApproveRequest
  <2>3. Keeps(stored, r) /\ Written(stored, r)
    BY <2>1, <2>2 DEF Keeps, Written, Disposed
  <2>4. "approve_request" \in PutCommands
    BY DEF PutCommands
  <2> HIDE DEF r
  <2> QED
    BY <1>2, <2>1, <2>2, <2>3, <2>4, ReceiveStep
<1>13. CASE ViewRequest(s, u)
  BY <1>2, <1>3, <1>13, ReceiveStep DEF ViewRequest, Exists
<1>14. CASE \E r \in NewRequests(u), mode \in {"plain", "admin", "probe"} :
              CreateRequest(s, u, r, mode)
  BY <1>14, CreateStep
<1> QED
  BY <1>1, <1>4, <1>5, <1>6, <1>7, <1>9, <1>10, <1>11, <1>12, <1>13, <1>14

\* At the start there is no request, no call, and AWS was not changed.
LEMMA InitSerial == Init => SerialInv
<1> SUFFICES ASSUME Init PROVE SerialInv
  OBVIOUS
<1>1. stored = NoRequest /\ \A c \in Changes : uses[c] = 0
  BY DEF Init
<1>2. \A s \in Sessions : call[s] = NoCall
  BY DEF Init
<1>3. \A c \in Changes : NoRequest.chg[c] # "applied"
  BY DEF NoRequest
<1>4. Mirrors(stored, uses)
  BY <1>1, <1>3 DEF Mirrors
<1>5. ~InFlight(NoCall)
  BY DEF InFlight, NoCall
<1> QED
  BY <1>1, <1>2, <1>4, <1>5 DEF SerialInv, AbsentIsFresh, RecordMatchesAws, Sound, Mirrors

\* Every step of a call is a good one.
LEMMA CallStep ==
  ASSUME CopiesInv, SerialInv, NEW s \in Sessions,
         Incoming(s) \/ Progress(s) \/ ProcessDies(s)
  PROVE  GoodStep(s)
<1>1. CASE Incoming(s)
  BY <1>1, IncomingStep
<1>2. CASE Progress(s)
  BY <1>2, AcceptsStep, RefusesStep, RefreshStep, WriteStep, SettleStep, EndsStep,
     CreateWriteStep, LoopStep, ViewStep DEF Progress
<1>3. CASE ProcessDies(s)
  BY <1>3, EndsStep
<1> QED
  BY <1>1, <1>2, <1>3

\* A good step of the only session keeps the invariant.
LEMMA GoodStepKeepsSerial ==
  ASSUME OneCallAtATime, CopiesInv, SerialInv, NEW s \in Sessions, GoodStep(s)
  PROVE  SerialInv'
<1>1. PICK n : Continue(s, n) /\ Sound(n, stored', uses')
  BY DEF GoodStep
<1>2. \A t \in Sessions : call'[t] = n
  BY <1>1 DEF CopiesInv, TypeOK, Continue, OneCallAtATime
<1>3. ASSUME NothingFails PROVE RecordMatchesAws'
  BY <1>1, <1>2, <1>3 DEF RecordMatchesAws, NoCallInFlight, Sound, InFlight, Mirrors
<1>4. AbsentIsFresh'
  BY DEF GoodStep
<1>5. \A t \in Sessions : Sound(call[t], stored, uses)'
  BY <1>1, <1>2 DEF Sound, InFlight, Holds, Lives, Mirrors
<1> QED
  BY <1>3, <1>4, <1>5 DEF SerialInv, NothingFails

\* Every step keeps the invariant, records of applied changes and, where writes
\* do not fail, the life of the request.
LEMMA NextSerial ==
  ASSUME OneCallAtATime, CopiesInv, SerialInv, [Next]_vars
  PROVE  /\ SerialInv' /\ Keeps(stored, stored')
         /\ "write" \notin Faults => Moves(stored, stored')
<1>1. CASE \E s \in Sessions : Incoming(s) \/ Progress(s) \/ ProcessDies(s)
  <2>1. PICK s \in Sessions : GoodStep(s)
    BY <1>1, CallStep
  <2>2. SerialInv'
    BY <2>1, GoodStepKeepsSerial
  <2> QED
    BY <2>1, <2>2 DEF GoodStep
<1>2. CASE DayPasses \/ UNCHANGED vars
  <2>1. stored' = stored /\ call' = call /\ uses' = uses
    BY <1>2 DEF DayPasses, vars
  <2>2. Keeps(stored, stored') /\ Moves(stored, stored')
    BY <2>1 DEF Keeps, Moves, Written, SameLife
  <2>3. SerialInv'
    BY <2>1 DEF SerialInv, AbsentIsFresh, RecordMatchesAws, NoCallInFlight, Sound,
                InFlight, Holds, Lives, Mirrors
  <2> QED
    BY <2>2, <2>3
<1> QED
  BY <1>1, <1>2 DEF Next

\* Between them the two invariants describe every copy of the request, and how
\* the one of the call in flight differs from the item.
THEOREM SerialCorrect ==
  ASSUME OneCallAtATime
  PROVE  Spec => [](CopiesInv /\ SerialInv)
<1>1. Init => CopiesInv /\ SerialInv
  BY InitCopies, InitSerial
<1>2. CopiesInv /\ SerialInv /\ [Next]_vars => (CopiesInv /\ SerialInv)'
  BY NextCopies, NextSerial
<1> QED
  BY <1>1, <1>2, PTL DEF Spec

\* A command made on its own that replies without an error has left in DynamoDB
\* exactly the request it worked on, whatever failed on the way.
THEOREM CleanRepliesAreStored ==
  ASSUME OneCallAtATime
  PROVE  Spec => []CleanReplyMeansStored
<1>1. CopiesInv /\ SerialInv => CleanReplyMeansStored
  BY DEF SerialInv, CleanReplyMeansStored, Sound, InFlight, Holds
<1> QED
  BY <1>1, SerialCorrect, PTL

\* The record of an applied change, its status and its document, is never
\* altered by calls made one after the other, whatever fails in them.
THEOREM AppliedRecordsStay ==
  ASSUME OneCallAtATime
  PROVE  Spec => AppliedRecordsKept
<1>1. CopiesInv /\ SerialInv /\ [Next]_vars =>
        [\A c \in Changes : stored.chg[c] = "applied" =>
            stored'.chg[c] = "applied" /\ stored'.doc[c] = stored.doc[c]]_vars
  BY NextSerial DEF Keeps
<1> QED
  BY <1>1, SerialCorrect, PTL DEF Spec, AppliedRecordsKept

\* Unless writes fail, a command made on its own leaves no item pending of which
\* every change is dealt with.
THEOREM RepliesLeaveNothingToSettle ==
  ASSUME OneCallAtATime, "write" \notin Faults
  PROVE  Spec => []ReplyLeavesNothingToSettle
<1>1. CopiesInv /\ SerialInv => ReplyLeavesNothingToSettle
  BY DEF SerialInv, ReplyLeavesNothingToSettle, Sound, InFlight, Lives
<1> QED
  BY <1>1, SerialCorrect, PTL

\* Where nothing fails and no change takes two AWS calls, the item records as
\* applied, between calls, exactly the changes AWS was changed for.
THEOREM RecordsMatchAws ==
  ASSUME OneCallAtATime, NothingFails
  PROVE  Spec => []RecordMatchesAws
<1>1. CopiesInv /\ SerialInv => RecordMatchesAws
  BY DEF SerialInv
<1> QED
  BY <1>1, SerialCorrect, PTL

-----------------------------------------------------------------------------
(* The refinement of RequestLifecycle.                                     *)

\* What a write may make of the item is a step of the lifecycle.
LEMMA MovesAreLifecycleSteps ==
  Moves(stored, stored') => [Lifecycle!Next]_(Lifecycle!lifecycleVars)
<1> SUFFICES ASSUME Moves(stored, stored')
             PROVE  Lifecycle!Next \/ (stored'.status = stored.status /\ stored'.chg = stored.chg)
  BY DEF Lifecycle!lifecycleVars
<1> USE DEF Lifecycle!Next, HasApplied, Closed
<1>1. CASE SameLife(stored, stored')
  BY <1>1 DEF SameLife
<1>2. CASE Disposed(stored, stored')
  <2>1. Lifecycle!Dispose
    BY <1>2 DEF Disposed, Lifecycle!Dispose, Lifecycle!NothingApplied
  <2> QED
    BY <2>1
<1>3. CASE Reopened(stored, stored')
  <2>1. Lifecycle!Reopen
    BY <1>3 DEF Reopened, Lifecycle!Reopen, Lifecycle!Closed
  <2> QED
    BY <2>1
<1>4. CASE \E c \in Changes, outcome \in {"applied", "cancelled"} :
             Decided(stored, stored', c, outcome)
  <2>1. PICK c \in Changes, outcome \in {"applied", "cancelled"} :
             Decided(stored, stored', c, outcome)
    BY <1>4
  <2>2. Lifecycle!Decide(c)
    BY <2>1 DEF Decided, Lifecycle!Decide, Lifecycle!Open
  <2> QED
    BY <2>2
<1>5. CASE /\ stored.status = "absent" /\ stored'.status \in {"pending", "approved"}
           /\ stored'.chg = stored.chg
  <2>1. Lifecycle!Submit
    BY <1>5 DEF Lifecycle!Submit
  <2> QED
    BY <2>1
<1>6. CASE /\ stored.status # "absent" /\ stored'.chg = stored.chg
           /\ \/ HasApplied(stored) /\ stored'.status = "approved"
              \/ /\ ~HasApplied(stored) /\ stored'.status = "cancelled"
                 /\ \E c \in Changes : stored.chg[c] = "cancelled"
  <2>1. Lifecycle!Conclude
    BY <1>6 DEF Lifecycle!Conclude, Lifecycle!NothingApplied
  <2> QED
    BY <2>1
<1> QED
  BY <1>1, <1>2, <1>3, <1>4, <1>5, <1>6 DEF Moves, Written

\* Used by one call at a time, and as long as no write to DynamoDB is lost, the
\* handlers implement the life that RequestLifecycle promises.
THEOREM LifecycleImplemented ==
  ASSUME OneCallAtATime, "write" \notin Faults
  PROVE  Spec => FollowsLifecycle
<1>1. Init => Lifecycle!Init
  BY DEF Init, NoRequest, Lifecycle!Init
<1>2. CopiesInv /\ SerialInv /\ [Next]_vars => [Lifecycle!Next]_(Lifecycle!lifecycleVars)
  BY NextSerial, MovesAreLifecycleSteps
<1> QED
  BY <1>1, <1>2, SerialCorrect, PTL DEF Spec, FollowsLifecycle, Lifecycle!Spec
=============================================================================
