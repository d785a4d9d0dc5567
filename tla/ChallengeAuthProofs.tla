------------------------ MODULE ChallengeAuthProofs ------------------------
(***************************************************************************)
(* Proofs about ChallengeAuth, for any tokens, users, addresses, calls in  *)
(* flight and faults.                                                      *)
(***************************************************************************)
EXTENDS ChallengeAuth, TLAPS

-----------------------------------------------------------------------------
(* Types of the values the handlers build.                                 *)

\* A generated entry is an entry, with a nonce no page has.
LEMMA PendingType ==
  ASSUME NEW u \in Users, NEW ip \in Ips
  PROVE  Pending(u, ip) \in Entry
  BY DEF Pending, Entry

\* The placeholder for a token the hash does not have is an entry.
LEMMA AbsentType == Absent \in Entry /\ Absent.status = "absent"
<1>1. (CHOOSE u \in Users : TRUE) \in Users /\ (CHOOSE ip \in Ips : TRUE) \in Ips
  BY ChallengeConstants
<1> QED
  BY <1>1 DEF Absent, Pending, Entry

\* The placeholder for a session without a call is a call.
LEMMA NoCallType == NoCall \in Call
<1>1. (CHOOSE t \in Tokens : TRUE) \in Tokens
  BY ChallengeConstants
<1>2. (CHOOSE u \in Users : TRUE) \in Users /\ (CHOOSE ip \in Ips : TRUE) \in Ips
  BY ChallengeConstants
<1> QED
  BY <1>1, <1>2, AbsentType DEF NoCall, Call, Points

\* A session without a call has nothing to be right about.
LEMMA NoCallIsGood == Checked(NoCall) /\ (Faithful(NoCall.token, NoCall.copy))'
<1>1. NoCall.pc = "idle" /\ NoCall.copy.status = "absent"
  BY AbsentType DEF NoCall
<1> QED
  BY <1>1 DEF Checked, Faithful

-----------------------------------------------------------------------------
(* The inductive invariant.                                                *)

\* At the start no token exists and no call is in flight.
LEMMA InitInv == Init => ChallengeInv
<1> SUFFICES ASSUME Init PROVE ChallengeInv
  OBVIOUS
<1>1. TypeOK
  BY AbsentType, NoCallType DEF Init, TypeOK
<1>2. ASSUME NEW t \in Tokens
      PROVE  /\ asked[t] = {}
             /\ Faithful(t, entry[t])
             /\ Approved(t)
             /\ ~(answers[t] > 0)
  BY AbsentType DEF Init, Faithful, Approved
<1>3. ASSUME NEW s \in Sessions
      PROVE  Faithful(call[s].token, call[s].copy) /\ Checked(call[s])
  <2>1. call[s] = NoCall
    BY DEF Init
  <2> QED
    BY <2>1, AbsentType DEF NoCall, Faithful, Checked
<1> QED
  BY <1>1, <1>2, <1>3 DEF ChallengeInv

\* A faithful copy stays faithful while nothing is forgotten about its token.
LEMMA FaithfulStays ==
  ASSUME NEW t \in Tokens, NEW e, Faithful(t, e),
         asked[t] \subseteq asked'[t],
         shown[t] \subseteq shown'[t],
         approvals[t] \subseteq approvals'[t]
  PROVE  Faithful(t, e)'
  BY DEF Faithful

\* A step of one session that forgets nothing and makes sure of what it changes
\* preserves the invariant.
LEMMA StepKeepsInv ==
  ASSUME ChallengeInv, NEW s \in Sessions, NEW n \in Call, Continue(s, n),
         asked' = asked, late' \subseteq Tokens, calls' \in Nat,
         entry' \in [Tokens -> Entry],
         shown' \in [Tokens -> SUBSET Nat],
         approvals' \in [Tokens -> SUBSET (Users \X Ips)],
         answers' \in [Tokens -> Nat],
         \A t \in Tokens : shown[t] \subseteq shown'[t],
         \A t \in Tokens : approvals[t] \subseteq approvals'[t],
         \A t \in Tokens : entry'[t] = entry[t] \/ (Faithful(t, entry[t]))',
         \A t \in Tokens : approvals'[t] = approvals[t] \/ Approved(t)',
         \A t \in Tokens : answers'[t] > 0 => approvals'[t] # {},
         Checked(n), Faithful(n.token, n.copy)'
  PROVE  ChallengeInv'
<1>1. TypeOK'
  BY DEF ChallengeInv, TypeOK, Continue
<1>2. ASSUME NEW t \in Tokens PROVE Faithful(t, entry[t])'
  <2>1. CASE entry'[t] = entry[t]
    <3>1. Faithful(t, entry[t])
      BY DEF ChallengeInv
    <3> QED
      BY <2>1, <3>1 DEF Faithful
  <2> QED
    BY <2>1
<1>3. ASSUME NEW t \in Tokens PROVE Approved(t)'
  <2>1. CASE approvals'[t] = approvals[t]
    <3>1. Approved(t)
      BY DEF ChallengeInv
    <3> QED
      BY <2>1, <3>1 DEF Approved
  <2> QED
    BY <2>1
<1>4. ASSUME NEW x \in Sessions
      PROVE  (Faithful(call[x].token, call[x].copy) /\ Checked(call[x]))'
  <2>1. CASE x = s
    <3>1. call'[x] = n
      BY <2>1 DEF Continue, ChallengeInv, TypeOK
    <3> QED
      BY <3>1 DEF Faithful, Checked
  <2>2. CASE x # s
    <3>1. call'[x] = call[x]
      BY <2>2 DEF Continue, ChallengeInv, TypeOK
    <3>2. Faithful(call[x].token, call[x].copy) /\ Checked(call[x])
      BY DEF ChallengeInv
    <3>3. call[x].token \in Tokens
      BY DEF ChallengeInv, TypeOK, Call
    <3> QED
      BY <3>1, <3>2, <3>3 DEF Faithful, Checked
  <2> QED
    BY <2>1, <2>2
<1>5. \A t \in Tokens : (asked[t] = {} \/ \E u \in Users, ip \in Ips : asked[t] = {Pending(u, ip)})'
  BY DEF ChallengeInv, Pending
<1> QED
  BY <1>1, <1>2, <1>3, <1>4, <1>5 DEF ChallengeInv

\* A new token, with or without its entry.
LEMMA GenerateInv ==
  ASSUME ChallengeInv, NEW t \in Tokens, NEW u \in Users, NEW ip \in Ips,
         Generate(t, u, ip)
  PROVE  ChallengeInv'
<1> DEFINE new == Pending(u, ip)
<1>1. new \in Entry /\ new.status = "pending" /\ new.user = u /\ new.ip = ip /\ ~new.visited
  BY PendingType DEF Pending
<1>2. /\ asked[t] = {} /\ asked' = [asked EXCEPT ![t] = {new}]
      /\ entry' = [entry EXCEPT ![t] = new] \/ entry' = entry
      /\ UNCHANGED <<late, shown, approvals, answers, call, calls>>
  BY DEF Generate, WriteBack
<1> HIDE DEF new
<1>3. TypeOK'
  BY <1>1, <1>2 DEF ChallengeInv, TypeOK
<1>4. \A x \in Tokens : asked[x] \subseteq asked'[x]
  BY <1>2 DEF ChallengeInv, TypeOK
<1>5. ASSUME NEW x \in Tokens
      PROVE  (asked[x] = {} \/ \E v \in Users, i \in Ips : asked[x] = {Pending(v, i)})'
  <2>1. CASE x = t
    BY <1>2, <2>1 DEF ChallengeInv, TypeOK, new, Pending
  <2>2. CASE x # t
    BY <1>2, <2>2 DEF ChallengeInv, TypeOK, Pending
  <2> QED
    BY <2>1, <2>2
<1>6. ASSUME NEW x \in Tokens PROVE Faithful(x, entry[x])'
  <2>1. CASE entry'[x] = entry[x]
    <3>1. Faithful(x, entry[x])
      BY DEF ChallengeInv
    <3>2. Faithful(x, entry[x])' \/ entry[x].status # "absent"
      BY <2>1 DEF Faithful
    <3> QED
      BY <1>2, <1>4, <2>1, <3>1 DEF Faithful
  <2>2. CASE x = t /\ entry'[x] = new
    <3>1. new \in asked'[t]
      BY <1>2 DEF ChallengeInv, TypeOK
    <3> QED
      BY <1>1, <2>2, <3>1 DEF Faithful
  <2> QED
    BY <1>2, <2>1, <2>2 DEF ChallengeInv, TypeOK
<1>7. ASSUME NEW x \in Tokens PROVE Approved(x)'
  BY <1>2, <1>4 DEF ChallengeInv, Approved
<1>8. ASSUME NEW s \in Sessions
      PROVE  (Faithful(call[s].token, call[s].copy) /\ Checked(call[s]))'
  <2>1. Faithful(call[s].token, call[s].copy) /\ Checked(call[s])
    BY DEF ChallengeInv
  <2>2. call[s].token \in Tokens
    BY DEF ChallengeInv, TypeOK, Call
  <2> QED
    BY <1>2, <1>4, <2>1, <2>2 DEF Faithful, Checked
<1>9. \A x \in Tokens : answers'[x] > 0 => approvals'[x] # {}
  BY <1>2 DEF ChallengeInv
<1> QED
  BY <1>3, <1>5, <1>6, <1>7, <1>8, <1>9 DEF ChallengeInv

\* A call of a browser begins: nothing is copied yet.
LEMMA StartInv ==
  ASSUME ChallengeInv, NEW s \in Sessions, NEW command \in {"view", "approve"},
         NEW t \in Tokens, NEW u \in Users, NEW ip \in Ips, NEW nonce \in Nat,
         Start(s, command, t, u, ip, nonce)
  PROVE  ChallengeInv'
<1> DEFINE doomed == {d \in late : Present(d)}
           new == [NoCall EXCEPT !.pc = IF doomed = {} THEN "read" ELSE "purge",
                                 !.cmd = command, !.token = t, !.user = u,
                                 !.ip = ip, !.nonce = nonce, !.doomed = doomed]
<1>1. doomed \subseteq Tokens
  BY DEF ChallengeInv, TypeOK
<1>2. new \in Call /\ new.pc \in {"read", "purge"} /\ new.copy = NoCall.copy
  BY <1>1, NoCallType DEF Call, Points
<1>3. Continue(s, new)
  BY DEF Start
<1> HIDE DEF new
<1>4. PICK n \in Call : Continue(s, n) /\ n.pc \in {"read", "purge"} /\ n.copy = NoCall.copy
  BY <1>2, <1>3
<1>5. Checked(n)
  BY <1>4 DEF Checked
<1>6. Faithful(n.token, n.copy)'
  BY <1>4, AbsentType DEF Faithful, NoCall
<1>7. calls' \in Nat
  BY DEF Start, ChallengeInv, TypeOK
<1> QED
  BY <1>4, <1>5, <1>6, <1>7, StepKeepsInv
  DEF Start, UnchangedBrowsers, ChallengeInv, TypeOK

\* Expired tokens are deleted.
LEMMA PurgeInv ==
  ASSUME ChallengeInv, NEW s \in Sessions, Purge(s)
  PROVE  ChallengeInv'
<1> DEFINE new == [call[s] EXCEPT !.pc = "read"]
<1>1. call[s] \in Call
  BY DEF ChallengeInv, TypeOK
<1>2. new \in Call /\ new.pc = "read" /\ new.token = call[s].token /\ new.copy = call[s].copy
  BY <1>1 DEF Call, Points
<1>3. Continue(s, new)
  BY DEF Purge
<1> HIDE DEF new
<1>4. PICK n \in Call : /\ Continue(s, n) /\ n.pc = "read"
                        /\ n.token = call[s].token /\ n.copy = call[s].copy
  BY <1>2, <1>3
<1>5. Checked(n)
  BY <1>4 DEF Checked
<1>6. Faithful(n.token, n.copy)'
  BY <1>4 DEF ChallengeInv, Faithful, Purge, UnchangedBrowsers
<1>7. entry' \in [Tokens -> Entry]
  BY AbsentType DEF Purge, ChallengeInv, TypeOK
<1>8. \A t \in Tokens : entry'[t] = entry[t] \/ Faithful(t, entry[t])'
  BY AbsentType DEF Purge, Faithful
<1> QED
  BY <1>4, <1>5, <1>6, <1>7, <1>8, StepKeepsInv
  DEF Purge, UnchangedBrowsers, UnchangedClients, ChallengeInv, TypeOK

\* A call ends and leaves all else as it is.
LEMMA EndInv ==
  ASSUME ChallengeInv, NEW s \in Sessions, EndCall(s),
         UNCHANGED <<entry, late>>, UnchangedBrowsers, UnchangedClients
  PROVE  ChallengeInv'
  BY NoCallType, NoCallIsGood, StepKeepsInv
  DEF EndCall, UnchangedBrowsers, UnchangedClients, ChallengeInv, TypeOK

\* The entry is read and looked at.
LEMMA RetrieveInv ==
  ASSUME ChallengeInv, NEW s \in Sessions, Retrieve(s)
  PROVE  ChallengeInv'
<1> DEFINE t == call[s].token
           new == [call[s] EXCEPT !.pc = "write", !.copy = entry[t]]
<1>1. call[s] \in Call /\ t \in Tokens /\ entry[t] \in Entry
  BY DEF ChallengeInv, TypeOK, Call
<1>2. CASE EndCall(s)
  BY <1>2, EndInv DEF Retrieve
<1>3. CASE /\ Present(t) /\ call[s].user = entry[t].user
           /\ Accepts(call[s], entry[t]) /\ Continue(s, new)
  <2>1. /\ new \in Call /\ new.pc = "write" /\ new.copy = entry[t]
        /\ new.token = t /\ new.user = call[s].user /\ new.ip = call[s].ip
        /\ new.cmd = call[s].cmd /\ new.nonce = call[s].nonce
    BY <1>1 DEF Call, Points
  <2> HIDE DEF new
  <2>2. PICK n \in Call : Continue(s, n) /\ n = new
    BY <1>3, <2>1
  <2>3. Checked(n)
    BY <1>1, <1>3, <2>1, <2>2 DEF Checked, Accepts, Present, Call
  <2>4. Faithful(n.token, n.copy)'
    <3>1. n.token = t /\ n.copy = entry[t]
      BY <2>1, <2>2
    <3>2. Faithful(t, entry[t])
      BY <1>1 DEF ChallengeInv
    <3>3. Faithful(n.token, n.copy)
      BY <3>1, <3>2
    <3> QED
      BY <3>3 DEF Faithful, Retrieve, UnchangedBrowsers
  <2> QED
    BY <2>2, <2>3, <2>4, StepKeepsInv
    DEF Retrieve, UnchangedBrowsers, UnchangedClients, ChallengeInv, TypeOK
<1> QED
  BY <1>2, <1>3 DEF Retrieve

\* The page is marked as visited and shown with its nonce.
LEMMA WriteViewInv ==
  ASSUME ChallengeInv, NEW s \in Sessions, WriteView(s)
  PROVE  ChallengeInv'
<1> DEFINE me == call[s]
           e  == [me.copy EXCEPT !.visited = TRUE, !.nonce = me.nonce]
<1>1. me \in Call /\ me.token \in Tokens /\ me.copy \in Entry /\ me.nonce \in Nat
  BY DEF ChallengeInv, TypeOK, Call
<1>2. e \in Entry /\ e.user = me.copy.user /\ e.ip = me.copy.ip
      /\ e.status = me.copy.status /\ e.nonce = me.nonce
  BY <1>1 DEF Entry
<1>3. Faithful(me.token, me.copy)
  BY DEF ChallengeInv
<1>4. PICK t \in Tokens, n \in Nat, x \in Entry : t = me.token /\ n = me.nonce /\ x = e
  BY <1>1, <1>2
<1>5. /\ entry' = [entry EXCEPT ![t] = x] \/ entry' = entry
      /\ shown' = [shown EXCEPT ![t] = @ \cup {n}]
      /\ UNCHANGED <<late, asked, approvals, answers, calls>>
  BY <1>4 DEF WriteView, WriteBack, UnchangedClients
<1>6. /\ x.status # "absent" => \E a \in asked[t] : x.user = a.user /\ x.ip = a.ip
      /\ x.status = "success" => \E ip \in Ips : <<x.user, ip>> \in approvals[t]
      /\ x.nonce = n
  BY <1>2, <1>3, <1>4 DEF Faithful
<1> HIDE DEF me, e
<1>7. Faithful(t, x)'
  BY <1>5, <1>6 DEF Faithful, ChallengeInv, TypeOK
<1>8. entry' \in [Tokens -> Entry] /\ shown' \in [Tokens -> SUBSET Nat]
  BY <1>5 DEF ChallengeInv, TypeOK
<1>9. \A y \in Tokens : shown[y] \subseteq shown'[y]
  BY <1>5 DEF ChallengeInv, TypeOK
<1>10. ASSUME NEW y \in Tokens PROVE entry'[y] = entry[y] \/ Faithful(y, entry[y])'
  <2>1. CASE y = t /\ entry' = [entry EXCEPT ![t] = x]
    <3>1. entry'[y] = x
      BY <2>1 DEF ChallengeInv, TypeOK
    <3> QED
      BY <1>7, <2>1, <3>1 DEF Faithful
  <2> QED
    BY <1>5, <2>1 DEF ChallengeInv, TypeOK
<1>11. Continue(s, NoCall)
  BY DEF WriteView, EndCall
<1> QED
  BY <1>5, <1>8, <1>9, <1>10, <1>11, NoCallType, NoCallIsGood, StepKeepsInv
  DEF ChallengeInv, TypeOK

\* The approval is written, by the user the token was asked for.
LEMMA WriteApprovalInv ==
  ASSUME ChallengeInv, NEW s \in Sessions, WriteApproval(s)
  PROVE  ChallengeInv'
<1> DEFINE me == call[s]
           e  == [me.copy EXCEPT !.status = "success", !.user = me.user]
<1>1. me \in Call /\ me.token \in Tokens /\ me.copy \in Entry
      /\ me.user \in Users /\ me.ip \in Ips
  BY DEF ChallengeInv, TypeOK, Call
<1>2. e \in Entry /\ e.user = me.user /\ e.ip = me.copy.ip
      /\ e.status = "success" /\ e.nonce = me.copy.nonce /\ e.visited = me.copy.visited
  BY <1>1 DEF Entry
<1>3. Faithful(me.token, me.copy) /\ Checked(me)
  BY DEF ChallengeInv
<1>4. /\ me.copy.status # "absent" /\ me.user = me.copy.user
      /\ MatchIp => me.ip = me.copy.ip
      /\ me.copy.visited
  BY <1>3 DEF Checked, WriteApproval
<1>5. PICK t \in Tokens, u \in Users, ip \in Ips, x \in Entry :
        t = me.token /\ u = me.user /\ ip = me.ip /\ x = e
  BY <1>1, <1>2
<1>6. /\ entry' = [entry EXCEPT ![t] = x] \/ entry' = entry
      /\ approvals' = [approvals EXCEPT ![t] = @ \cup {<<u, ip>>}]
      /\ UNCHANGED <<late, asked, shown, answers, calls>>
  BY <1>5 DEF WriteApproval, WriteBack, UnchangedClients
<1>7. /\ \E a \in asked[t] : u = a.user /\ x.ip = a.ip /\ (MatchIp => ip = a.ip)
      /\ x.user = u /\ x.nonce \in shown[t]
  BY <1>2, <1>3, <1>4, <1>5 DEF Faithful
<1> HIDE DEF me, e
<1>8. entry' \in [Tokens -> Entry] /\ approvals' \in [Tokens -> SUBSET (Users \X Ips)]
  BY <1>6 DEF ChallengeInv, TypeOK
<1>9. /\ approvals'[t] = approvals[t] \cup {<<u, ip>>}
      /\ \A y \in Tokens : y # t => approvals'[y] = approvals[y]
  BY <1>6 DEF ChallengeInv, TypeOK
<1>10. Faithful(t, x)'
  BY <1>6, <1>7, <1>9 DEF Faithful
<1>11. ASSUME NEW y \in Tokens PROVE entry'[y] = entry[y] \/ Faithful(y, entry[y])'
  <2>1. CASE y = t /\ entry' = [entry EXCEPT ![t] = x]
    <3>1. entry'[y] = x
      BY <2>1 DEF ChallengeInv, TypeOK
    <3> QED
      BY <1>10, <2>1, <3>1 DEF Faithful
  <2> QED
    BY <1>6, <2>1 DEF ChallengeInv, TypeOK
<1>12. Approved(t)'
  <2>1. Approved(t)
    BY DEF ChallengeInv
  <2>2. ASSUME NEW a \in approvals'[t]
        PROVE  /\ \E q \in asked[t] : a[1] = q.user /\ (MatchIp => a[2] = q.ip)
               /\ shown[t] # {}
    BY <1>7, <1>9, <2>1, <2>2 DEF Approved
  <2> QED
    BY <1>6, <2>2 DEF Approved
<1>13. \A y \in Tokens : approvals'[y] = approvals[y] \/ Approved(y)'
  <2> SUFFICES ASSUME NEW y \in Tokens, approvals'[y] # approvals[y] PROVE Approved(y)'
    OBVIOUS
  <2>1. y = t
    BY <1>9
  <2> QED
    BY <1>12, <2>1 DEF Approved
<1>14. \A y \in Tokens : approvals[y] \subseteq approvals'[y]
  BY <1>9
<1>15. \A y \in Tokens : answers'[y] > 0 => approvals'[y] # {}
  BY <1>6, <1>14 DEF ChallengeInv
<1>16. Continue(s, NoCall)
  BY DEF WriteApproval, EndCall
<1> QED
  BY <1>6, <1>8, <1>11, <1>13, <1>14, <1>15, <1>16, NoCallType, NoCallIsGood, StepKeepsInv
  DEF ChallengeInv, TypeOK

\* A poll has read an expired or a successful entry.
LEMMA PollInv ==
  ASSUME ChallengeInv, NEW s \in Sessions, NEW t \in Tokens, NEW ip \in Ips,
         Poll(s, t, ip)
  PROVE  ChallengeInv'
<1> DEFINE new == [NoCall EXCEPT !.pc = "drop", !.token = t, !.ip = ip,
                                 !.copy = entry[t],
                                 !.doomed = {t} \cap late]
<1>1. entry[t] \in Entry
  BY DEF ChallengeInv, TypeOK
<1>2. /\ new \in Call /\ new.pc = "drop" /\ new.token = t /\ new.ip = ip
      /\ new.copy = entry[t] /\ new.doomed = {t} \cap late
  BY <1>1, NoCallType DEF Call, Points
<1>3. Continue(s, new)
  BY DEF Poll
<1> HIDE DEF new
<1>4. PICK n \in Call : Continue(s, n) /\ n = new
  BY <1>2, <1>3
<1>5. Checked(n)
  BY <1>2, <1>4 DEF Checked, Poll
<1>6. Faithful(n.token, n.copy)'
  <2>1. n.token = t /\ n.copy = entry[t]
    BY <1>2, <1>4
  <2>2. Faithful(t, entry[t])
    BY DEF ChallengeInv
  <2>3. Faithful(n.token, n.copy)
    BY <2>1, <2>2
  <2> QED
    BY <2>3 DEF Faithful, Poll, UnchangedBrowsers
<1> QED
  BY <1>4, <1>5, <1>6, StepKeepsInv
  DEF Poll, UnchangedBrowsers, UnchangedClients, ChallengeInv, TypeOK

\* A handler that is about to answer a poll holds a success of the token, from
\* the address and in the name of the client that asked, and the user approved.
LEMMA AnswerIsDue ==
  ASSUME ChallengeInv, NEW s \in Sessions, call[s].pc = "drop", call[s].doomed = {}
  PROVE  /\ \E a \in asked[call[s].token] :
               call[s].ip = a.ip /\ call[s].copy.user = a.user
         /\ approvals[call[s].token] # {}
<1>1. Faithful(call[s].token, call[s].copy) /\ Checked(call[s])
  BY DEF ChallengeInv
<1>2. call[s].copy.status = "success" /\ call[s].ip = call[s].copy.ip
  BY <1>1 DEF Checked
<1> QED
  BY <1>1, <1>2 DEF Faithful

\* The entry is deleted and a poll that found a success is answered.
LEMMA DropInv ==
  ASSUME ChallengeInv, NEW s \in Sessions, Drop(s)
  PROVE  ChallengeInv'
<1>1. PICK t \in Tokens : t = call[s].token
  BY DEF ChallengeInv, TypeOK, Call
<1>2. /\ entry' = [entry EXCEPT ![t] = Absent]
      /\ answers' = [answers EXCEPT ![t] = IF call[s].doomed = {} THEN @ + 1 ELSE @]
      /\ UNCHANGED <<late, calls, asked, shown, approvals>>
  BY <1>1 DEF Drop, UnchangedBrowsers
<1>3. entry' \in [Tokens -> Entry] /\ answers' \in [Tokens -> Nat]
  BY <1>2, AbsentType DEF ChallengeInv, TypeOK
<1>4. \A y \in Tokens : entry'[y] = entry[y] \/ Faithful(y, entry[y])'
  BY <1>2, AbsentType DEF ChallengeInv, TypeOK, Faithful
<1>5. ASSUME NEW y \in Tokens, answers'[y] > 0 PROVE approvals'[y] # {}
  <2>1. CASE answers'[y] = answers[y]
    BY <1>2, <1>5, <2>1 DEF ChallengeInv
  <2>2. CASE y = t /\ call[s].doomed = {}
    BY <1>1, <1>2, <2>2, AnswerIsDue DEF Drop
  <2> QED
    BY <1>2, <2>1, <2>2 DEF ChallengeInv, TypeOK
<1>6. Continue(s, NoCall)
  BY DEF Drop, EndCall
<1> QED
  BY <1>2, <1>3, <1>4, <1>5, <1>6, NoCallType, NoCallIsGood, StepKeepsInv
  DEF ChallengeInv, TypeOK

\* Steps that leave the entries and the calls alone.
LEMMA ExpiresInv ==
  ASSUME ChallengeInv, late' \subseteq Tokens,
         UNCHANGED <<entry, call>>, UnchangedBrowsers, UnchangedClients
  PROVE  ChallengeInv'
<1>1. UNCHANGED <<entry, call, asked, shown, approvals, answers, calls>>
  BY DEF UnchangedBrowsers, UnchangedClients
<1>2. TypeOK'
  BY <1>1 DEF ChallengeInv, TypeOK
<1>3. ASSUME NEW t \in Tokens
      PROVE  /\ (asked[t] = {} \/ \E u \in Users, ip \in Ips : asked[t] = {Pending(u, ip)})'
             /\ Faithful(t, entry[t])' /\ Approved(t)'
             /\ (answers[t] > 0 => approvals[t] # {})'
  BY <1>1 DEF ChallengeInv, Faithful, Approved, Pending
<1>4. ASSUME NEW s \in Sessions
      PROVE  (Faithful(call[s].token, call[s].copy) /\ Checked(call[s]))'
  <2>1. Faithful(call[s].token, call[s].copy) /\ Checked(call[s])
    BY DEF ChallengeInv
  <2> QED
    BY <1>1, <2>1 DEF Faithful, Checked
<1> QED
  BY <1>2, <1>3, <1>4 DEF ChallengeInv

-----------------------------------------------------------------------------
(* Theorems.                                                               *)

\* Every step preserves the inductive invariant.
LEMMA NextInv == ChallengeInv /\ [Next]_vars => ChallengeInv'
<1> SUFFICES ASSUME ChallengeInv, [Next]_vars PROVE ChallengeInv'
  OBVIOUS
<1>1. CASE \E t \in Tokens, u \in Users, ip \in Ips : Generate(t, u, ip)
  BY <1>1, GenerateInv
<1>2. ASSUME NEW s \in Sessions, Browse(s) PROVE ChallengeInv'
  <2>1. PICK t \in Tokens, u \in Users, ip \in Ips :
          View(s, t, u, ip) \/ Approve(s, t, u, ip)
    BY <1>2 DEF Browse
  <2>2. CASE View(s, t, u, ip)
    <3>1. calls + 1 \in Nat
      BY DEF ChallengeInv, TypeOK
    <3> QED
      BY <2>2, <3>1, StartInv DEF View
  <2>3. CASE Approve(s, t, u, ip)
    <3>1. CASE Start(s, "approve", t, u, ip, 0)
      BY <3>1, StartInv
    <3>2. ASSUME NEW x \in Tokens, NEW n \in shown[x], Start(s, "approve", t, u, ip, n)
          PROVE  ChallengeInv'
      <4>1. n \in Nat
        BY DEF ChallengeInv, TypeOK
      <4> QED
        BY <3>2, <4>1, StartInv
    <3> QED
      BY <2>3, <3>1, <3>2 DEF Approve
  <2> QED
    BY <2>1, <2>2, <2>3
<1>3. ASSUME NEW s \in Sessions, Progress(s) PROVE ChallengeInv'
  BY <1>3, PurgeInv, RetrieveInv, WriteViewInv, WriteApprovalInv, DropInv DEF Progress
<1>4. ASSUME NEW s \in Sessions, Dies(s) PROVE ChallengeInv'
  BY <1>4, EndInv DEF Dies
<1>5. ASSUME NEW t \in Tokens, Polls(t) PROVE ChallengeInv'
  BY <1>5, PollInv DEF Polls
<1>6. ASSUME NEW t \in Tokens, Expires(t) PROVE ChallengeInv'
  <2>1. late' \subseteq Tokens
    BY <1>6 DEF Expires, ChallengeInv, TypeOK
  <2> QED
    BY <1>6, <2>1, ExpiresInv DEF Expires
<1>7. CASE UNCHANGED vars
  <2>1. late' \subseteq Tokens
    BY <1>7 DEF vars, ChallengeInv, TypeOK
  <2> QED
    BY <1>7, <2>1, ExpiresInv DEF vars, UnchangedBrowsers, UnchangedClients
<1> QED
  BY <1>1, <1>2, <1>3, <1>4, <1>5, <1>6, <1>7 DEF Next

\* However the handlers interleave, whatever is lost and whenever tokens expire,
\* every copy of an entry is faithful to what was asked, shown and approved.
THEOREM ChallengeCorrect == Spec => []ChallengeInv
  BY InitInv, NextInv, PTL DEF Spec

\* The hash, the calls in flight and the books kept of them keep their types.
THEOREM ChallengeTypeCorrect == Spec => []TypeOK
<1>1. ChallengeInv => TypeOK
  BY DEF ChallengeInv
<1> QED
  BY <1>1, ChallengeCorrect, PTL

\* A token answered with a JWT was approved on a page of it, by the user it was
\* asked for.
THEOREM AnswersFollowApproval == Spec => []AnswersAreApproved
<1>1. ChallengeInv => AnswersAreApproved
  <2> SUFFICES ASSUME ChallengeInv, NEW t \in Tokens, answers[t] > 0
               PROVE  /\ shown[t] # {}
                      /\ \E a \in approvals[t], q \in asked[t] :
                            a[1] = q.user /\ (MatchIp => a[2] = q.ip)
    BY DEF AnswersAreApproved
  <2>1. PICK a \in approvals[t] : TRUE
    BY DEF ChallengeInv
  <2>2. Approved(t)
    BY DEF ChallengeInv
  <2> QED
    BY <2>1, <2>2 DEF Approved
<1> QED
  BY <1>1, ChallengeCorrect, PTL

\* Only the last step of a poll counts an answer.
LEMMA OnlyDropAnswers ==
  ASSUME ChallengeInv, [Next]_vars, NEW t \in Tokens, answers'[t] # answers[t]
  PROVE  \E s \in Sessions : /\ call[s].pc = "drop" /\ call[s].doomed = {}
                             /\ call[s].token = t
<1>1. answers' # answers
  OBVIOUS
<1>2. PICK s \in Sessions : Drop(s)
  <2>1. ASSUME NEW s \in Sessions, Browse(s) PROVE answers' = answers
    BY <2>1 DEF Browse, View, Approve, Start
  <2>2. ASSUME NEW s \in Sessions,
               Purge(s) \/ Retrieve(s) \/ WriteView(s) \/ WriteApproval(s) \/ Dies(s)
        PROVE  answers' = answers
    BY <2>2 DEF Purge, Retrieve, WriteView, WriteApproval, Dies, UnchangedClients
  <2>3. ASSUME NEW x \in Tokens,
               Polls(x) \/ Expires(x) \/ \E u \in Users, ip \in Ips : Generate(x, u, ip)
        PROVE  answers' = answers
    BY <2>3 DEF Polls, Poll, Expires, Generate, UnchangedClients
  <2> QED
    BY <1>1, <2>1, <2>2, <2>3 DEF Next, Progress, vars
<1> QED
  BY <1>2 DEF Drop, ChallengeInv, TypeOK

\* A JWT goes to the address that asked for the token, for the user it named.
THEOREM AnswersReachTheAsker == Spec => AnswersGoToTheAsker
<1>1. ChallengeInv /\ [Next]_vars =>
        [\A t \in Tokens : answers'[t] # answers[t] =>
           \E s \in Sessions, a \in asked[t] :
              /\ call[s].pc = "drop" /\ call[s].token = t
              /\ call[s].ip = a.ip /\ call[s].copy.user = a.user]_vars
  BY OnlyDropAnswers, AnswerIsDue
<1> QED
  BY <1>1, ChallengeCorrect, PTL DEF Spec, AnswersGoToTheAsker

-----------------------------------------------------------------------------
(* Calls that do not overlap.                                              *)

\* A call goes on or ends, brings no entry back and answers nobody.
LEMMA AnswersStep ==
  ASSUME OneCallAtATime, ChallengeInv, AnswersInv,
         NEW s \in Sessions, NEW n, Continue(s, n),
         answers' = answers,
         \A t \in Tokens : Present(t)' => Present(t),
         n.pc \in {"write", "drop"} => Present(n.token)' /\ entry'[n.token] = n.copy
  PROVE  AnswersInv'
<1>1. \A t \in Tokens : answers'[t] > 0 => answers'[t] = 1 /\ ~Present(t)'
  BY DEF AnswersInv
<1>2. ASSUME NEW x \in Sessions, (call[x].pc \in {"write", "drop"})'
      PROVE  (Present(call[x].token) /\ entry[call[x].token] = call[x].copy)'
  <2>1. x = s
    BY DEF OneCallAtATime
  <2>2. call'[x] = n
    BY <2>1 DEF Continue, ChallengeInv, TypeOK
  <2> QED
    BY <1>2, <2>2 DEF Present
<1> QED
  BY <1>1, <1>2 DEF AnswersInv

\* A token is generated that no call can know of yet.
LEMMA GenerateAnswers ==
  ASSUME ChallengeInv, AnswersInv, NEW t \in Tokens, NEW u \in Users, NEW ip \in Ips,
         Generate(t, u, ip)
  PROVE  AnswersInv'
<1>1. /\ asked[t] = {} /\ UNCHANGED <<answers, call>>
      /\ entry' = [entry EXCEPT ![t] = Pending(u, ip)] \/ entry' = entry
  BY DEF Generate, WriteBack
<1>2. ~Present(t) /\ ~(answers[t] > 0)
  BY <1>1 DEF ChallengeInv, Faithful, Present, Approved
<1>3. \A x \in Tokens : x # t => entry'[x] = entry[x]
  BY <1>1 DEF ChallengeInv, TypeOK
<1>4. ASSUME NEW x \in Tokens, answers'[x] > 0
      PROVE  answers'[x] = 1 /\ ~Present(x)'
  <2>1. x # t
    BY <1>1, <1>2, <1>4
  <2> QED
    BY <1>1, <1>3, <1>4, <2>1 DEF AnswersInv, Present
<1>5. ASSUME NEW s \in Sessions, (call[s].pc \in {"write", "drop"})'
      PROVE  (Present(call[s].token) /\ entry[call[s].token] = call[s].copy)'
  <2>1. /\ Present(call[s].token) /\ entry[call[s].token] = call[s].copy
        /\ call'[s] = call[s]
    BY <1>1, <1>5 DEF AnswersInv
  <2>2. call[s].token \in Tokens
    BY DEF ChallengeInv, TypeOK, Call
  <2> QED
    BY <1>2, <1>3, <2>1, <2>2 DEF Present
<1> QED
  BY <1>4, <1>5 DEF AnswersInv

\* The steps of a call that answer nobody.
LEMMA ProgressAnswers ==
  ASSUME OneCallAtATime, ChallengeInv, AnswersInv, NEW s \in Sessions,
         Purge(s) \/ Retrieve(s) \/ WriteView(s) \/ WriteApproval(s) \/ Dies(s)
  PROVE  AnswersInv'
<1>1. call[s] \in Call /\ call[s].token \in Tokens /\ entry[call[s].token] \in Entry
  BY DEF ChallengeInv, TypeOK, Call
<1>2. NoCall.pc = "idle"
  BY DEF NoCall
<1>3. CASE Purge(s)
  <2>1. PICK n : n = [call[s] EXCEPT !.pc = "read"]
    OBVIOUS
  <2>2. Continue(s, n) /\ n.pc = "read" /\ answers' = answers
    BY <1>1, <1>3, <2>1 DEF Purge, UnchangedClients, Call
  <2>3. \A t \in Tokens : Present(t)' => Present(t)
    BY <1>3, AbsentType DEF Purge, Present
  <2> QED
    BY <2>2, <2>3, AnswersStep
<1>4. CASE Retrieve(s)
  <2>1. answers' = answers /\ entry' = entry
    BY <1>4 DEF Retrieve, UnchangedClients
  <2>2. CASE EndCall(s)
    BY <1>2, <2>1, <2>2, AnswersStep DEF EndCall, Present
  <2>3. ASSUME ~EndCall(s) PROVE AnswersInv'
    <3>1. PICK n : n = [call[s] EXCEPT !.pc = "write", !.copy = entry[call[s].token]]
      OBVIOUS
    <3>2. Continue(s, n) /\ Present(call[s].token)
      BY <1>4, <2>3, <3>1 DEF Retrieve
    <3>3. n.token = call[s].token /\ n.copy = entry[call[s].token]
      BY <1>1, <3>1 DEF Call
    <3> QED
      BY <2>1, <3>2, <3>3, AnswersStep DEF Present
  <2> QED
    BY <2>2, <2>3
<1>5. CASE WriteView(s) \/ WriteApproval(s)
  <2>1. PICK t \in Tokens :
          /\ t = call[s].token /\ Present(t)
          /\ (\E e : entry' = [entry EXCEPT ![t] = e]) \/ entry' = entry
    BY <1>1, <1>5 DEF WriteView, WriteApproval, WriteBack, AnswersInv
  <2>2. answers' = answers /\ Continue(s, NoCall)
    BY <1>5 DEF WriteView, WriteApproval, UnchangedClients, EndCall
  <2>3. \A x \in Tokens : Present(x)' => Present(x)
    BY <2>1 DEF Present, ChallengeInv, TypeOK
  <2> QED
    BY <1>2, <2>2, <2>3, AnswersStep
<1>6. CASE Dies(s)
  BY <1>2, <1>6, AnswersStep DEF Dies, EndCall, UnchangedClients, Present
<1> QED
  BY <1>3, <1>4, <1>5, <1>6

\* The answer goes out with the deletion of an entry that was there, so it is
\* the first.
LEMMA DropAnswers ==
  ASSUME OneCallAtATime, ChallengeInv, AnswersInv, NEW s \in Sessions, Drop(s)
  PROVE  AnswersInv'
<1>1. PICK t \in Tokens : t = call[s].token
  BY DEF ChallengeInv, TypeOK, Call
<1>2. /\ entry' = [entry EXCEPT ![t] = Absent]
      /\ answers' = [answers EXCEPT ![t] = IF call[s].doomed = {} THEN @ + 1 ELSE @]
      /\ call' = [call EXCEPT ![s] = NoCall]
  BY <1>1 DEF Drop, EndCall, Continue
<1>3. Present(t) /\ ~(answers[t] > 0)
  BY <1>1 DEF Drop, AnswersInv
<1>4. answers[t] = 0
  BY <1>3 DEF ChallengeInv, TypeOK
<1>5. answers'[t] \in {0, 1} /\ ~Present(t)'
  BY <1>2, <1>4, AbsentType DEF ChallengeInv, TypeOK, Present
<1>6. \A x \in Tokens : x # t => answers'[x] = answers[x] /\ entry'[x] = entry[x]
  BY <1>2 DEF ChallengeInv, TypeOK
<1>7. \A x \in Tokens : answers'[x] > 0 => answers'[x] = 1 /\ ~Present(x)'
  BY <1>5, <1>6 DEF AnswersInv, Present
<1>8. \A x \in Sessions : call'[x].pc = "idle"
  BY <1>2 DEF OneCallAtATime, ChallengeInv, TypeOK, NoCall
<1> QED
  BY <1>7, <1>8 DEF AnswersInv

\* A browser's call begins, or a client's poll has read an entry.
LEMMA BeginAnswers ==
  ASSUME OneCallAtATime, ChallengeInv, AnswersInv, NEW s \in Sessions,
         NEW t \in Tokens, NEW ip \in Ips,
         \/ \E command, u, nonce : Start(s, command, t, u, ip, nonce)
         \/ Poll(s, t, ip)
  PROVE  AnswersInv'
<1>1. CASE Poll(s, t, ip)
  <2>1. PICK n : n = [NoCall EXCEPT !.pc = "drop", !.token = t, !.ip = ip,
                                    !.copy = entry[t], !.doomed = {t} \cap late]
    OBVIOUS
  <2>2. n.token = t /\ n.copy = entry[t]
    BY <2>1 DEF NoCall
  <2>3. Continue(s, n) /\ Present(t) /\ answers' = answers /\ entry' = entry
    BY <1>1, <2>1 DEF Poll, UnchangedClients
  <2> QED
    BY <2>2, <2>3, AnswersStep DEF Present
<1>2. ASSUME NEW command, NEW u, NEW nonce, Start(s, command, t, u, ip, nonce)
      PROVE  AnswersInv'
  <2>1. PICK n : /\ Continue(s, n) /\ n.pc \in {"read", "purge"}
                 /\ answers' = answers /\ entry' = entry
    BY <1>2 DEF Start, NoCall
  <2> QED
    BY <2>1, AnswersStep DEF Present
<1> QED
  BY <1>1, <1>2

\* Every step of calls that do not overlap preserves it.
LEMMA NextAnswers ==
  ASSUME OneCallAtATime, ChallengeInv, AnswersInv, [Next]_vars
  PROVE  AnswersInv'
<1>1. ASSUME NEW t \in Tokens, NEW u \in Users, NEW ip \in Ips, Generate(t, u, ip)
      PROVE  AnswersInv'
  BY <1>1, GenerateAnswers
<1>2. ASSUME NEW s \in Sessions, Browse(s) PROVE AnswersInv'
  BY <1>2, BeginAnswers DEF Browse, View, Approve
<1>3. ASSUME NEW s \in Sessions, Progress(s) \/ Dies(s) PROVE AnswersInv'
  BY <1>3, ProgressAnswers, DropAnswers DEF Progress
<1>4. ASSUME NEW t \in Tokens, Polls(t) PROVE AnswersInv'
  BY <1>4, BeginAnswers DEF Polls
<1>5. ASSUME UNCHANGED <<entry, answers, call>> PROVE AnswersInv'
  BY <1>5 DEF AnswersInv, Present
<1> QED
  BY <1>1, <1>2, <1>3, <1>4, <1>5 DEF Next, Expires, UnchangedClients, vars

\* At the start nothing was answered and no call is in flight.
LEMMA InitAnswers == Init => AnswersInv
  BY DEF Init, AnswersInv, NoCall

\* When handler calls do not overlap, what a handler is about to write or delete
\* is what Redis holds, and an answered token is gone; whatever is lost, whoever
\* dies and whenever tokens expire.
THEOREM AnswersCorrect ==
  ASSUME OneCallAtATime
  PROVE  Spec => [](ChallengeInv /\ AnswersInv)
<1>1. ChallengeInv /\ AnswersInv /\ [Next]_vars => (ChallengeInv /\ AnswersInv)'
  BY NextInv, NextAnswers
<1>2. Init => ChallengeInv /\ AnswersInv
  BY InitInv, InitAnswers
<1> QED
  BY <1>1, <1>2, PTL DEF Spec

\* A token is answered with a JWT once at most, when calls do not overlap.
THEOREM AnsweredOnceAlone ==
  ASSUME OneCallAtATime
  PROVE  Spec => []AnsweredOnce
<1>1. ChallengeInv /\ AnswersInv => AnsweredOnce
  BY DEF ChallengeInv, TypeOK, AnswersInv, AnsweredOnce
<1> QED
  BY <1>1, AnswersCorrect, PTL

\* The entry of an answered token does not come back, when calls do not overlap.
THEOREM AnsweredStaysGoneAlone ==
  ASSUME OneCallAtATime
  PROVE  Spec => []AnsweredStaysGone
<1>1. AnswersInv => AnsweredStaysGone
  BY DEF AnswersInv, AnsweredStaysGone
<1> QED
  BY <1>1, AnswersCorrect, PTL

-----------------------------------------------------------------------------
(* Pages, when calls do not overlap and no write is lost.                  *)

\* A call goes on or ends, and leaves the pages and the entries alone.
LEMMA PagesStep ==
  ASSUME ChallengeInv, PagesInv, NEW s \in Sessions, NEW n, Continue(s, n),
         late' = late, asked' = asked,
         \A t \in Tokens :
            /\ shown'[t] # {} => asked[t] # {}
            /\ t \notin late /\ approvals'[t] = {} =>
                 \A k \in shown'[t] :
                    Present(t)' /\ entry'[t].visited /\ entry'[t].nonce = k,
         n.doomed \subseteq late,
         n.pc = "write" /\ n.cmd = "view" => ~n.copy.visited,
         n.pc = "drop" => n.doomed \subseteq {n.token}
  PROVE  PagesInv'
<1>1. ShownPageWorks' /\ \A t \in Tokens : shown'[t] # {} => asked'[t] # {}
  BY DEF ShownPageWorks
<1>2. ASSUME NEW x \in Sessions
      PROVE  (/\ call[x].doomed \subseteq late
              /\ call[x].pc = "write" /\ call[x].cmd = "view" => ~call[x].copy.visited
              /\ call[x].pc = "drop" => call[x].doomed \subseteq {call[x].token})'
  <2>1. CASE x = s
    <3>1. call'[x] = n
      BY <2>1 DEF Continue, ChallengeInv, TypeOK
    <3> QED
      BY <3>1
  <2>2. CASE x # s
    <3>1. call'[x] = call[x]
      BY <2>2 DEF Continue, ChallengeInv, TypeOK
    <3> QED
      BY <3>1 DEF PagesInv
  <2> QED
    BY <2>1, <2>2
<1> QED
  BY <1>1, <1>2 DEF PagesInv

\* The same for a step that changes neither entries nor pages.
LEMMA PagesKeep ==
  ASSUME ChallengeInv, PagesInv, NEW s \in Sessions, NEW n, Continue(s, n),
         UNCHANGED <<entry, late, asked, shown, approvals>>,
         n.doomed \subseteq late,
         n.pc = "write" /\ n.cmd = "view" => ~n.copy.visited,
         n.pc = "drop" => n.doomed \subseteq {n.token}
  PROVE  PagesInv'
<1>1. \A t \in Tokens :
         /\ shown'[t] # {} => asked[t] # {}
         /\ t \notin late /\ approvals'[t] = {} =>
              \A k \in shown'[t] : Present(t)' /\ entry'[t].visited /\ entry'[t].nonce = k
  BY DEF PagesInv, ShownPageWorks, Present
<1> QED
  BY <1>1, PagesStep

\* A token without a page is generated.
LEMMA GeneratePages ==
  ASSUME ChallengeInv, PagesInv, NEW t \in Tokens, NEW u \in Users, NEW ip \in Ips,
         Generate(t, u, ip)
  PROVE  PagesInv'
<1>1. /\ asked[t] = {} /\ UNCHANGED <<late, shown, approvals, call>>
      /\ asked' = [asked EXCEPT ![t] = {Pending(u, ip)}]
      /\ entry' = [entry EXCEPT ![t] = Pending(u, ip)] \/ entry' = entry
  BY DEF Generate, WriteBack
<1>2. shown[t] = {}
  BY <1>1 DEF PagesInv
<1>3. \A x \in Tokens : x # t => entry'[x] = entry[x] /\ asked'[x] = asked[x]
  BY <1>1 DEF ChallengeInv, TypeOK
<1>4. ShownPageWorks'
  BY <1>1, <1>2, <1>3 DEF PagesInv, ShownPageWorks, Present
<1>5. \A x \in Tokens : shown'[x] # {} => asked'[x] # {}
  BY <1>1, <1>2, <1>3 DEF PagesInv
<1> QED
  BY <1>1, <1>4, <1>5 DEF PagesInv

\* A call begins, and will delete what has expired.
LEMMA BeginPages ==
  ASSUME ChallengeInv, PagesInv, NEW s \in Sessions, NEW t \in Tokens, NEW ip \in Ips,
         \/ \E command, u, nonce : Start(s, command, t, u, ip, nonce)
         \/ Poll(s, t, ip)
  PROVE  PagesInv'
<1>1. CASE Poll(s, t, ip)
  <2>1. PICK n : n = [NoCall EXCEPT !.pc = "drop", !.token = t, !.ip = ip,
                                    !.copy = entry[t], !.doomed = {t} \cap late]
    OBVIOUS
  <2>2. n.pc = "drop" /\ n.token = t /\ n.doomed = {t} \cap late
    BY <2>1 DEF NoCall
  <2>3. Continue(s, n) /\ UNCHANGED <<entry, late, asked, shown, approvals>>
    BY <1>1, <2>1 DEF Poll, UnchangedBrowsers
  <2> QED
    BY <2>2, <2>3, PagesKeep
<1>2. ASSUME NEW command, NEW u, NEW nonce, Start(s, command, t, u, ip, nonce)
      PROVE  PagesInv'
  <2>1. PICK n : /\ Continue(s, n) /\ n.pc \in {"read", "purge"}
                 /\ n.doomed = {d \in late : Present(d)}
                 /\ UNCHANGED <<entry, late, asked, shown, approvals>>
    BY <1>2 DEF Start, NoCall, UnchangedBrowsers
  <2> QED
    BY <2>1, PagesKeep
<1> QED
  BY <1>1, <1>2

\* Only expired entries are purged.
LEMMA PurgePages ==
  ASSUME ChallengeInv, PagesInv, NEW s \in Sessions, Purge(s)
  PROVE  PagesInv'
<1>1. PICK n : n = [call[s] EXCEPT !.pc = "read"]
  OBVIOUS
<1>2. call[s] \in Call
  BY DEF ChallengeInv, TypeOK
<1>3. n.pc = "read" /\ n.doomed = call[s].doomed
  BY <1>1, <1>2 DEF Call
<1>4. /\ Continue(s, n) /\ UNCHANGED <<late, asked, shown, approvals>>
      /\ \A t \in Tokens : t \notin call[s].doomed => entry'[t] = entry[t]
  BY <1>1 DEF Purge, UnchangedBrowsers
<1>5. call[s].doomed \subseteq late
  BY DEF PagesInv
<1>6. \A t \in Tokens :
         /\ shown'[t] # {} => asked[t] # {}
         /\ t \notin late /\ approvals'[t] = {} =>
              \A k \in shown'[t] : Present(t)' /\ entry'[t].visited /\ entry'[t].nonce = k
  BY <1>4, <1>5 DEF PagesInv, ShownPageWorks, Present
<1> QED
  BY <1>3, <1>4, <1>5, <1>6, PagesStep

\* A page is about to be shown of an entry nobody has visited.
LEMMA RetrievePages ==
  ASSUME ChallengeInv, PagesInv, NEW s \in Sessions, Retrieve(s)
  PROVE  PagesInv'
<1>1. UNCHANGED <<entry, late, asked, shown, approvals>> /\ call[s] \in Call
  BY DEF Retrieve, UnchangedBrowsers, ChallengeInv, TypeOK
<1>2. CASE EndCall(s)
  BY <1>1, <1>2, PagesKeep DEF EndCall, NoCall
<1>3. ASSUME ~EndCall(s) PROVE PagesInv'
  <2>1. PICK n : n = [call[s] EXCEPT !.pc = "write", !.copy = entry[call[s].token]]
    OBVIOUS
  <2>2. Continue(s, n) /\ Accepts(call[s], entry[call[s].token])
    BY <1>3, <2>1 DEF Retrieve
  <2>3. /\ n.pc = "write" /\ n.copy = entry[call[s].token]
        /\ n.cmd = call[s].cmd /\ n.doomed = call[s].doomed
    BY <1>1, <2>1 DEF Call
  <2>4. n.cmd = "view" => ~n.copy.visited
    BY <2>2, <2>3 DEF Accepts
  <2>5. n.doomed \subseteq late
    BY <2>3 DEF PagesInv
  <2> QED
    BY <1>1, <2>2, <2>3, <2>4, <2>5, PagesKeep
<1> QED
  BY <1>2, <1>3

\* The page that is shown is the first of its token, and its nonce is stored.
LEMMA WriteViewPages ==
  ASSUME ChallengeInv, AnswersInv, PagesInv, "write" \notin Faults,
         NEW s \in Sessions, WriteView(s)
  PROVE  PagesInv'
<1> DEFINE me == call[s]
           e  == [me.copy EXCEPT !.visited = TRUE, !.nonce = me.nonce]
<1>1. me \in Call /\ me.token \in Tokens /\ me.copy \in Entry /\ me.nonce \in Nat
  BY DEF ChallengeInv, TypeOK, Call
<1>2. e \in Entry /\ e.visited /\ e.nonce = me.nonce /\ e.status = me.copy.status
  BY <1>1 DEF Entry
<1>3. /\ Present(me.token) /\ entry[me.token] = me.copy /\ ~me.copy.visited
  BY DEF WriteView, AnswersInv, PagesInv
<1>4. PICK t \in Tokens, n \in Nat, x \in Entry : t = me.token /\ n = me.nonce /\ x = e
  BY <1>1, <1>2
<1>5. /\ entry' = [entry EXCEPT ![t] = x]
      /\ shown' = [shown EXCEPT ![t] = @ \cup {n}]
      /\ UNCHANGED <<late, asked, approvals>> /\ Continue(s, NoCall)
  BY <1>4 DEF WriteView, WriteBack, EndCall
<1>6. /\ Present(t) /\ ~entry[t].visited
      /\ x.visited /\ x.nonce = n /\ x.status # "absent"
  BY <1>2, <1>3, <1>4 DEF Present
<1> HIDE DEF me, e
<1>7. t \notin late /\ approvals[t] = {} => shown[t] = {}
  BY <1>6 DEF PagesInv, ShownPageWorks
<1>8. asked[t] # {}
  BY <1>6 DEF ChallengeInv, Faithful, Present
<1>9. entry'[t] = x /\ shown'[t] = shown[t] \cup {n}
  BY <1>5 DEF ChallengeInv, TypeOK
<1>10. \A y \in Tokens : y # t => entry'[y] = entry[y] /\ shown'[y] = shown[y]
  BY <1>5 DEF ChallengeInv, TypeOK
<1>11. ASSUME NEW y \in Tokens
       PROVE  /\ shown'[y] # {} => asked[y] # {}
              /\ y \notin late /\ approvals'[y] = {} =>
                   \A k \in shown'[y] : Present(y)' /\ entry'[y].visited /\ entry'[y].nonce = k
  <2>1. CASE y = t
    <3>1. Present(y)' /\ entry'[y].visited /\ entry'[y].nonce = n
      BY <1>6, <1>9, <2>1 DEF Present
    <3> QED
      BY <1>5, <1>7, <1>8, <1>9, <2>1, <3>1
  <2>2. CASE y # t
    BY <1>5, <1>10, <2>2 DEF PagesInv, ShownPageWorks, Present
  <2> QED
    BY <2>1, <2>2
<1>12. NoCall.doomed = {} /\ NoCall.pc = "idle"
  BY DEF NoCall
<1> QED
  BY <1>5, <1>11, <1>12, PagesStep

\* An approval and an answer are about their own token only.
LEMMA ApprovalPages ==
  ASSUME ChallengeInv, PagesInv, NEW s \in Sessions, WriteApproval(s) \/ Drop(s)
  PROVE  PagesInv'
<1>1. PICK t \in Tokens : t = call[s].token
  BY DEF ChallengeInv, TypeOK, Call
<1>2. UNCHANGED <<late, asked, shown>> /\ Continue(s, NoCall)
  BY DEF WriteApproval, Drop, UnchangedBrowsers, EndCall
<1>3. \A y \in Tokens : y # t => entry'[y] = entry[y] /\ approvals'[y] = approvals[y]
  <2>1. CASE WriteApproval(s)
    BY <1>1, <2>1 DEF WriteApproval, WriteBack, ChallengeInv, TypeOK
  <2>2. CASE Drop(s)
    BY <1>1, <2>2 DEF Drop, UnchangedBrowsers, ChallengeInv, TypeOK
  <2> QED
    BY <2>1, <2>2
<1>4. approvals'[t] # {} \/ t \in late
  <2>1. CASE WriteApproval(s)
    <3>1. approvals' = [approvals EXCEPT ![t] = @ \cup {<<call[s].user, call[s].ip>>}]
      BY <1>1, <2>1 DEF WriteApproval
    <3>2. approvals \in [Tokens -> SUBSET (Users \X Ips)]
      BY DEF ChallengeInv, TypeOK
    <3> QED
      BY <3>1, <3>2
  <2>2. CASE Drop(s) /\ call[s].doomed = {}
    BY <1>1, <2>2, AnswerIsDue DEF Drop, UnchangedBrowsers
  <2>3. CASE Drop(s) /\ call[s].doomed # {}
    BY <1>1, <2>3 DEF Drop, PagesInv
  <2> QED
    BY <2>1, <2>2, <2>3
<1>5. \A y \in Tokens :
         /\ shown'[y] # {} => asked[y] # {}
         /\ y \notin late /\ approvals'[y] = {} =>
              \A k \in shown'[y] : Present(y)' /\ entry'[y].visited /\ entry'[y].nonce = k
  BY <1>2, <1>3, <1>4 DEF PagesInv, ShownPageWorks, Present
<1>6. NoCall.doomed = {} /\ NoCall.pc = "idle"
  BY DEF NoCall
<1> QED
  BY <1>2, <1>5, <1>6, PagesStep

\* Every step preserves it.
LEMMA NextPages ==
  ASSUME ChallengeInv, AnswersInv, PagesInv, "write" \notin Faults, [Next]_vars
  PROVE  PagesInv'
<1>1. ASSUME NEW t \in Tokens, NEW u \in Users, NEW ip \in Ips, Generate(t, u, ip)
      PROVE  PagesInv'
  BY <1>1, GeneratePages
<1>2. ASSUME NEW s \in Sessions, Browse(s) PROVE PagesInv'
  BY <1>2, BeginPages DEF Browse, View, Approve
<1>3. ASSUME NEW s \in Sessions, Progress(s) PROVE PagesInv'
  BY <1>3, PurgePages, RetrievePages, WriteViewPages, ApprovalPages DEF Progress
<1>4. ASSUME NEW s \in Sessions, Dies(s) PROVE PagesInv'
  BY <1>4, PagesKeep DEF Dies, EndCall, NoCall, UnchangedBrowsers
<1>5. ASSUME NEW t \in Tokens, Polls(t) PROVE PagesInv'
  BY <1>5, BeginPages DEF Polls
<1>6. ASSUME late \subseteq late', UNCHANGED <<entry, call, asked, shown, approvals>>
      PROVE  PagesInv'
  BY <1>6 DEF PagesInv, ShownPageWorks, Present
<1>7. ASSUME NEW t \in Tokens, Expires(t) PROVE PagesInv'
  BY <1>6, <1>7 DEF Expires, UnchangedBrowsers
<1>8. CASE UNCHANGED vars
  BY <1>6, <1>8 DEF vars
<1> QED
  BY <1>1, <1>2, <1>3, <1>4, <1>5, <1>7, <1>8 DEF Next

\* The button of every page that was shown works until its token expires or was
\* approved, when handler calls do not overlap and no write to Redis is lost.
THEOREM ShownPagesWork ==
  ASSUME OneCallAtATime, "write" \notin Faults
  PROVE  Spec => []ShownPageWorks
<1>1. Init => PagesInv
  BY DEF Init, PagesInv, ShownPageWorks, NoCall
<1>2. ChallengeInv /\ AnswersInv /\ PagesInv /\ [Next]_vars => PagesInv'
  BY NextPages
<1>3. PagesInv => ShownPageWorks
  BY DEF PagesInv
<1> QED
  BY <1>1, <1>2, <1>3, AnswersCorrect, PTL DEF Spec

=============================================================================
