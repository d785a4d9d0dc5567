------------------------- MODULE GroupAccessProofs -------------------------
(***************************************************************************)
(* Proofs about GroupAccess, for any number of calls in flight, of users,  *)
(* requests and groups.                                                    *)
(***************************************************************************)
EXTENDS GroupAccess, TLAPS

Inv == TypeOK /\ ListedRequestsExist /\ JobsInv /\ AuditLogIsTrue

-----------------------------------------------------------------------------
(* Records of calls.                                                       *)

\* The fields of a call.
LEMMA JobFields ==
  ASSUME NEW j \in Jobs
  PROVE  /\ j.pc \in Pcs
         /\ j.kind \in {"none", "change by id"} \cup Asking \cup Grouping \cup Managing
         /\ j.actor \in Actors \cup {None} /\ j.user \in Users \cup {None}
         /\ j.group \in Groups \cup {None} /\ j.status \in Statuses
         /\ j.password \in Passwords \cup {None} /\ j.groups \in SUBSET Groups
         /\ j.of \in People \cup {None} /\ j.copy \in Items \cup {None}
         /\ j.todo \in SUBSET Ids
         /\ j.found \in SUBSET [id : Ids, item : Requests]
         /\ j.id \in Ids \cup {None} /\ j.did \in Deeds
         /\ j.alone \in BOOLEAN /\ j.refused \in BOOLEAN
<1>1. j.kind \in {"none", "change by id"} \cup Asking \cup Grouping \cup Managing
  BY DEF Jobs, Kinds, Asking, Grouping, Managing
<1> QED
  BY <1>1 DEF Jobs

\* A call at rest, and what is kept of one that is over.
LEMMA IdleFits == Idle \in Jobs /\ Ready(Idle) /\ ~Busy(Idle)
  BY GroupAccessConstants DEF Idle, Jobs, Kinds, Pcs, Deeds, Replies, Ready, Busy, Asking, Grouping, Managing

\* A field that is given a value of its type.
LEMMA SetFields ==
  ASSUME NEW j \in Jobs
  PROVE  /\ \A v \in Kinds : [j EXCEPT !.kind = v] \in Jobs
         /\ \A v \in Pcs : [j EXCEPT !.pc = v] \in Jobs
         /\ \A v \in Actors \cup {None} : [j EXCEPT !.actor = v] \in Jobs
         /\ \A v \in Users \cup {None} : [j EXCEPT !.user = v] \in Jobs
         /\ \A v \in Groups \cup {None} : [j EXCEPT !.group = v] \in Jobs
         /\ \A v \in Statuses : [j EXCEPT !.status = v] \in Jobs
         /\ \A v \in Passwords \cup {None} : [j EXCEPT !.password = v] \in Jobs
         /\ \A v \in SUBSET Groups : [j EXCEPT !.groups = v] \in Jobs
         /\ \A v \in People \cup {None} : [j EXCEPT !.of = v] \in Jobs
         /\ \A v \in Items \cup {None} : [j EXCEPT !.copy = v] \in Jobs
         /\ \A v \in SUBSET Ids : [j EXCEPT !.todo = v] \in Jobs
         /\ \A v \in SUBSET [id : Ids, item : Requests] : [j EXCEPT !.found = v] \in Jobs
         /\ \A v \in Ids \cup {None} : [j EXCEPT !.id = v] \in Jobs
         /\ \A v \in Deeds : [j EXCEPT !.did = v] \in Jobs
         /\ \A v \in BOOLEAN : [j EXCEPT !.refused = v] \in Jobs
<1>1. ASSUME NEW v \in Kinds
      PROVE  [j EXCEPT !.kind = v] \in Jobs
  BY <1>1 DEF Jobs
<1>2. ASSUME NEW v \in Pcs
      PROVE  [j EXCEPT !.pc = v] \in Jobs
  BY <1>2 DEF Jobs
<1>3. ASSUME NEW v \in Actors \cup {None}
      PROVE  [j EXCEPT !.actor = v] \in Jobs
  BY <1>3 DEF Jobs
<1>4. ASSUME NEW v \in Users \cup {None}
      PROVE  [j EXCEPT !.user = v] \in Jobs
  BY <1>4 DEF Jobs
<1>5. ASSUME NEW v \in Groups \cup {None}
      PROVE  [j EXCEPT !.group = v] \in Jobs
  BY <1>5 DEF Jobs
<1>6. ASSUME NEW v \in Statuses
      PROVE  [j EXCEPT !.status = v] \in Jobs
  BY <1>6 DEF Jobs
<1>7. ASSUME NEW v \in Passwords \cup {None}
      PROVE  [j EXCEPT !.password = v] \in Jobs
  BY <1>7 DEF Jobs
<1>8. ASSUME NEW v \in SUBSET Groups
      PROVE  [j EXCEPT !.groups = v] \in Jobs
  BY <1>8 DEF Jobs
<1>9. ASSUME NEW v \in People \cup {None}
      PROVE  [j EXCEPT !.of = v] \in Jobs
  BY <1>9 DEF Jobs
<1>10. ASSUME NEW v \in Items \cup {None}
      PROVE  [j EXCEPT !.copy = v] \in Jobs
  BY <1>10 DEF Jobs
<1>11. ASSUME NEW v \in SUBSET Ids
      PROVE  [j EXCEPT !.todo = v] \in Jobs
  BY <1>11 DEF Jobs
<1>12. ASSUME NEW v \in SUBSET [id : Ids, item : Requests]
      PROVE  [j EXCEPT !.found = v] \in Jobs
  BY <1>12 DEF Jobs
<1>13. ASSUME NEW v \in Ids \cup {None}
      PROVE  [j EXCEPT !.id = v] \in Jobs
  BY <1>13 DEF Jobs
<1>14. ASSUME NEW v \in Deeds
      PROVE  [j EXCEPT !.did = v] \in Jobs
  BY <1>14 DEF Jobs
<1>15. ASSUME NEW v \in BOOLEAN
      PROVE  [j EXCEPT !.refused = v] \in Jobs
  BY <1>15 DEF Jobs
<1> QED
  BY <1>1, <1>2, <1>3, <1>4, <1>5, <1>6, <1>7, <1>8,
     <1>9, <1>10, <1>11, <1>12, <1>13, <1>14, <1>15

LEMMA OverFits ==
  ASSUME NEW j \in Jobs, Ready(j), ~Busy(j)
  PROVE  /\ Over(j) \in Jobs /\ Ready(Over(j)) /\ ~Busy(Over(j))
         /\ Over(j).pc = j.pc /\ Over(j).did = j.did /\ Over(j).refused = j.refused
         /\ Over(j).user = j.user /\ Over(j).group = j.group
         /\ Over(j).found = {} /\ Over(j).copy = None /\ Over(j).id = None
<1>1. j.pc \in {"idle"} \cup Replies
  BY JobFields DEF Busy, Pcs
<1>2. j.user \in Users \cup {None} /\ j.group \in Groups \cup {None}
      /\ j.did \in Deeds /\ j.refused \in BOOLEAN
  BY JobFields
<1> DEFINE k == Over(j)
<1>3. /\ k.pc = j.pc /\ k.did = j.did /\ k.refused = j.refused /\ k.user = j.user
      /\ k.group = j.group /\ k.found = {} /\ k.copy = None /\ k.id = None
      /\ k.kind = "none"
  BY DEF Over, Idle
<1>4. k \in Jobs
  <2> DEFINE k1 == [Idle EXCEPT !.pc = j.pc]
             k2 == [k1 EXCEPT !.did = j.did]
             k3 == [k2 EXCEPT !.refused = j.refused]
             k4 == [k3 EXCEPT !.user = j.user]
  <2> HIDE DEF k1, k2, k3, k4
  <2>1. k1 \in Jobs
    BY <1>1, IdleFits, SetFields DEF k1, Pcs
  <2>2. k2 \in Jobs
    BY <1>2, <2>1, SetFields, Zenon DEF k2
  <2>3. k3 \in Jobs
    BY <1>2, <2>2, SetFields, Zenon DEF k3
  <2>4. k4 \in Jobs
    BY <1>2, <2>3, SetFields DEF k4
  <2>5. [k4 EXCEPT !.group = j.group] \in Jobs
    BY <1>2, <2>4, SetFields
  <2> QED
    BY <2>5, Zenon DEF Over, k1, k2, k3, k4
<1> HIDE DEF k
<1>5. Ready(k) /\ ~Busy(k)
  BY <1>1, <1>3 DEF Ready, Busy, Replies, Asking, Grouping, Managing
<1> QED
  BY <1>3, <1>4, <1>5 DEF k

\* A call that is not alone any more has otherwise what it had.
LEMMA DisturbedFits ==
  ASSUME NEW j \in Jobs, NEW rs
  PROVE  LET k == [j EXCEPT !.alone = FALSE] IN
         /\ k \in Jobs /\ (Busy(k) <=> Busy(j)) /\ ~k.alone
         /\ (Ready(j) => Ready(k)) /\ (Holds(j, rs) => Holds(k, rs))
         /\ k.pc = j.pc /\ k.did = j.did /\ k.refused = j.refused
         /\ k.user = j.user /\ k.group = j.group
<1> DEFINE k == [j EXCEPT !.alone = FALSE]
<1>1. k \in Jobs
  BY DEF Jobs
<1>2. /\ k.pc = j.pc /\ k.did = j.did /\ k.refused = j.refused /\ k.kind = j.kind
      /\ k.user = j.user /\ k.group = j.group /\ k.actor = j.actor /\ k.of = j.of
      /\ k.copy = j.copy /\ k.todo = j.todo /\ k.found = j.found /\ k.id = j.id
      /\ ~k.alone
  BY DEF Jobs
<1> HIDE DEF k
<1>3. Ready(j) => Ready(k)
  BY <1>2 DEF Ready
<1>4. Holds(j, rs) => Holds(k, rs)
  BY <1>2 DEF Holds
<1> QED
  BY <1>1, <1>2, <1>3, <1>4 DEF Busy, k

\* Writing one of the requests found leaves the id the call works on alone.
LEMMA RowKeepsId ==
  ASSUME NEW j \in Jobs, NEW f, NEW p
  PROVE  [j EXCEPT !.found = f, !.pc = p].id = j.id
BY DEF Jobs

\* The same, of a call whose record is known by an equality.
LEMMA DisturbedTells ==
  ASSUME NEW j \in Jobs, NEW k, k = [j EXCEPT !.alone = FALSE]
  PROVE  /\ k.did = j.did /\ k.refused = j.refused
         /\ k.user = j.user /\ k.group = j.group
         /\ Busy(k) <=> Busy(j)
BY DisturbedFits, Zenon

-----------------------------------------------------------------------------
(* A step of a call.                                                       *)

\* What a step does to the call that takes it and to the others.
LEMMA StepEffect ==
  ASSUME TypeOK, NEW c \in Calls, NEW j \in Jobs, Ready(j), NEW us, NEW rs, NEW ms,
         Step(c, j, us, rs, ms)
  PROVE  /\ job' \in [Calls -> Jobs]
         /\ job'[c] = IF Busy(j) THEN j ELSE Over(j)
         /\ \A x \in Calls \ {c} :
              \/ job'[x] = job[x]
              \/ job'[x] = [job[x] EXCEPT !.alone = FALSE]
         /\ \A x \in Calls \ {c} :
              Busy(job'[x]) /\ job'[x].alone =>
                 job'[x] = job[x] /\ us = users /\ rs = requests /\ ms = members
         /\ users' = us /\ requests' = rs /\ members' = ms
<1>1. job' = [x \in Calls |->
                 IF x = c THEN (IF Busy(j) THEN j ELSE Over(j))
                 ELSE IF Busy(job[x]) /\ <<us, rs, ms>> # store
                 THEN [job[x] EXCEPT !.alone = FALSE]
                 ELSE job[x]]
  BY DEF Step
<1>2. \A x \in Calls : job[x] \in Jobs
  BY DEF TypeOK
<1>3. (IF Busy(j) THEN j ELSE Over(j)) \in Jobs
  BY OverFits
<1>4. \A x \in Calls : [job[x] EXCEPT !.alone = FALSE] \in Jobs
                       /\ ~[job[x] EXCEPT !.alone = FALSE].alone
  BY <1>2, DisturbedFits
<1>5. \A x \in Calls \ {c} :
         job'[x] = IF Busy(job[x]) /\ <<us, rs, ms>> # store
                   THEN [job[x] EXCEPT !.alone = FALSE] ELSE job[x]
  BY <1>1
<1>6. job' \in [Calls -> Jobs] /\ job'[c] = IF Busy(j) THEN j ELSE Over(j)
  BY <1>1, <1>2, <1>3, <1>4
<1>7. ASSUME NEW x \in Calls \ {c}, Busy(job'[x]), job'[x].alone
      PROVE  job'[x] = job[x] /\ us = users /\ rs = requests /\ ms = members
  BY <1>4, <1>5, <1>7 DEF store
<1> QED
  BY <1>5, <1>6, <1>7 DEF Step

\* What holds of a call's copies stays so, since no request is removed.
LEMMA HoldsKept ==
  ASSUME NEW j \in Jobs, NEW rs, Ready(j), Holds(j, requests),
         \A i \in Ids : requests[i] # None => IsOf(rs, i, requests[i].username)
  PROVE  Holds(j, rs)
<1>1. \A i \in Ids : \A u : IsOf(requests, i, u) => IsOf(rs, i, u)
  BY DEF IsOf
<1>2. /\ \A r \in j.found : r.id \in Ids
      /\ j.copy # None => \A i \in j.copy.requests : i \in Ids
      /\ j.pc = "put user" => j.id \in Ids
  BY JobFields DEF Items, Ready
<1> QED
  BY <1>1, <1>2 DEF Holds

\* What a step has to make of the tables and of the call that takes it.
Allows(j, us, rs, ms) ==
    /\ j \in Jobs /\ Ready(j) /\ Holds(j, rs)
    /\ Busy(j) /\ j.alone => Knows(j, us, rs, ms)
    /\ us \in [People -> Items \cup {None}]
    /\ rs \in [Ids -> Requests \cup {None}]
    /\ ms \in [Groups -> SUBSET Users]
    /\ \A i \in Ids : requests[i] # None => IsOf(rs, i, requests[i].username)
    /\ \A u \in People : \A i \in Listed(us, u) : IsOf(rs, i, u)

\* Such a step keeps what holds of the tables and of all calls.
LEMMA StepKeeps ==
  ASSUME Inv, NEW c \in Calls, NEW j, NEW us, NEW rs, NEW ms,
         Allows(j, us, rs, ms), Step(c, j, us, rs, ms),
         log' \subseteq [call : Calls, group : Groups, user : Users,
                        action : {"Added", "Removed"}]
  PROVE  TypeOK' /\ ListedRequestsExist' /\ JobsInv'
<1>0. TypeOK /\ j \in Jobs /\ Ready(j)
  BY DEF Inv, Allows
<1>1. /\ job' \in [Calls -> Jobs]
      /\ job'[c] = IF Busy(j) THEN j ELSE Over(j)
      /\ \A x \in Calls \ {c} : \/ job'[x] = job[x]
                                \/ job'[x] = [job[x] EXCEPT !.alone = FALSE]
      /\ \A x \in Calls \ {c} :
           Busy(job'[x]) /\ job'[x].alone =>
              job'[x] = job[x] /\ us = users /\ rs = requests /\ ms = members
      /\ users' = us /\ requests' = rs /\ members' = ms
  BY <1>0, StepEffect
<1>2. TypeOK'
  BY <1>0, <1>1 DEF Allows, Step, TypeOK
<1>3. ListedRequestsExist'
  BY <1>1 DEF Allows, ListedRequestsExist, Listed, IsOf
<1>4. ASSUME NEW x \in Calls
      PROVE  /\ Ready(job'[x]) /\ Holds(job'[x], rs)
             /\ Busy(job'[x]) /\ job'[x].alone => Knows(job'[x], us, rs, ms)
  <2>1. CASE x = c
    <3>1. CASE Busy(j)
      BY <1>1, <2>1, <3>1 DEF Allows
    <3>2. CASE ~Busy(j)
      <4>1. /\ job'[x] = Over(j) /\ Ready(Over(j)) /\ ~Busy(Over(j))
            /\ Over(j).pc = j.pc /\ Over(j).found = {} /\ Over(j).copy = None
        BY <1>0, <1>1, <2>1, <3>2, OverFits
      <4>2. j.pc # "put user"
        BY <3>2 DEF Busy, Replies
      <4> QED
        BY <4>1, <4>2 DEF Holds
    <3> QED
      BY <3>1, <3>2
  <2>2. CASE x # c
    <3>1. job[x] \in Jobs /\ Ready(job[x]) /\ Holds(job[x], requests)
          /\ (Busy(job[x]) /\ job[x].alone => Knows(job[x], users, requests, members))
      BY DEF Inv, TypeOK, JobsInv
    <3>2. Holds(job[x], rs)
      BY <3>1, HoldsKept DEF Allows
    <3>3. Ready(job'[x]) /\ Holds(job'[x], rs)
      BY <1>1, <2>2, <3>1, <3>2, DisturbedFits
    <3> QED
      BY <1>1, <2>2, <3>1, <3>3
  <2> QED
    BY <2>1, <2>2
<1>5. JobsInv'
  BY <1>1, <1>4 DEF JobsInv
<1> QED
  BY <1>2, <1>3, <1>5

\* A step that is not logged and, unless it still will be, has nothing to log.
LEMMA StepKeepsLog ==
  ASSUME Inv, NEW c \in Calls, NEW j, NEW us, NEW rs, NEW ms,
         Allows(j, us, rs, ms), Step(c, j, us, rs, ms), log' = log,
         job[c].did = "nothing", j.did # "nothing" => j.pc = "log"
  PROVE  Inv'
<1>0. TypeOK /\ j \in Jobs /\ Ready(j)
  BY DEF Inv, Allows
<1>1. /\ job'[c] = IF Busy(j) THEN j ELSE Over(j)
      /\ \A x \in Calls \ {c} : \/ job'[x] = job[x]
                                \/ job'[x] = [job[x] EXCEPT !.alone = FALSE]
  BY <1>0, StepEffect
<1>2. ASSUME NEW x \in Calls, x # c
      PROVE  /\ job'[x].did = job[x].did /\ job'[x].refused = job[x].refused
             /\ job'[x].user = job[x].user /\ job'[x].group = job[x].group
             /\ Busy(job'[x]) <=> Busy(job[x])
  <2>1. job[x] \in Jobs
    BY <1>0 DEF TypeOK
  <2>2. CASE job'[x] = job[x]
    BY <2>2, Zenon
  <2>3. CASE job'[x] = [job[x] EXCEPT !.alone = FALSE]
    BY <2>1, <2>3, DisturbedTells, Zenon
  <2> QED
    BY <1>1, <1>2, <2>2, <2>3
<1>3. TypeOK' /\ ListedRequestsExist' /\ JobsInv'
  <2>1. log' \subseteq [call : Calls, group : Groups, user : Users,
                       action : {"Added", "Removed"}]
    BY <1>0 DEF TypeOK
  <2> QED
    BY <2>1, StepKeeps
<1>4. ASSUME NEW e \in log
      PROVE  e = [call |-> e.call, group |-> job'[e.call].group,
                  user |-> job'[e.call].user, action |-> job'[e.call].did]
  <2>1. /\ e = [call |-> e.call, group |-> job[e.call].group,
                user |-> job[e.call].user, action |-> job[e.call].did]
        /\ e.call \in Calls /\ e.action \in {"Added", "Removed"}
    BY <1>0 DEF Inv, AuditLogIsTrue, Entry, TypeOK
  <2>2. e.action = job[e.call].did
    BY <2>1
  <2>3. e.call # c
    BY <2>1, <2>2
  <2> QED
    BY <1>2, <2>1, <2>3
<1>5. ASSUME NEW x \in Calls, job'[x].did # "nothing", ~Busy(job'[x]), ~job'[x].refused
      PROVE  [call |-> x, group |-> job'[x].group, user |-> job'[x].user,
              action |-> job'[x].did] \in log
  <2>1. x # c
    <3>1. SUFFICES ASSUME x = c PROVE FALSE
      OBVIOUS
    <3>2. CASE Busy(j)
      BY <1>1, <1>5, <3>1, <3>2
    <3>3. CASE ~Busy(j)
      <4>1. job'[x] = Over(j) /\ Over(j).did = j.did /\ j.pc # "log"
        BY <1>0, <1>1, <3>1, <3>3, OverFits DEF Busy, Replies
      <4> QED
        BY <1>5, <4>1
    <3> QED
      BY <3>2, <3>3
  <2>2. Entry(x) \in log
    BY <1>2, <1>5, <2>1 DEF Inv, AuditLogIsTrue
  <2> QED
    BY <1>2, <2>1, <2>2 DEF Entry
<1>6. AuditLogIsTrue'
  BY <1>4, <1>5 DEF AuditLogIsTrue, Entry
<1> QED
  BY <1>3, <1>6 DEF Inv

\* A step that reads the tables and changes none.
LEMMA ReadsKeep ==
  ASSUME Inv, NEW c \in Calls, NEW j \in Jobs, Ready(j), Reads(c, j),
         Holds(j, requests), Busy(j) /\ j.alone => Knows(j, users, requests, members),
         job[c].did = "nothing", j.did # "nothing" => j.pc = "log"
  PROVE  Inv'
<1>1. Allows(j, users, requests, members)
  BY DEF Allows, Inv, TypeOK, ListedRequestsExist, IsOf
<1>2. Step(c, j, users, requests, members) /\ log' = log
  BY DEF Reads
<1> QED
  BY <1>1, <1>2, StepKeepsLog

\* A call that goes on to another step.
LEMMA GotoFits ==
  ASSUME NEW j \in Jobs, NEW p \in Pcs
  PROVE  LET k == Goto(j, p) IN
         /\ k \in Jobs /\ k.pc = p
         /\ k.kind = j.kind /\ k.actor = j.actor /\ k.user = j.user
         /\ k.group = j.group /\ k.of = j.of /\ k.copy = j.copy /\ k.id = j.id
         /\ k.todo = j.todo /\ k.found = j.found /\ k.did = j.did
         /\ k.status = j.status /\ k.password = j.password /\ k.groups = j.groups
         /\ k.alone = j.alone /\ k.refused = j.refused
<1>1. Goto(j, p) \in Jobs
  BY SetFields DEF Goto
<1> QED
  BY <1>1 DEF Goto, Jobs

\* What is known of a call that takes a step from the given one.
LEMMA OfCall ==
  ASSUME Inv, NEW c \in Calls
  PROVE  /\ job[c] \in Jobs /\ Ready(job[c]) /\ Holds(job[c], requests)
         /\ Busy(job[c]) /\ job[c].alone => Knows(job[c], users, requests, members)
         /\ job[c].pc # "log" /\ job[c].pc \notin Replies => job[c].did = "nothing"
<1>1. job[c] \in Jobs /\ Ready(job[c]) /\ Holds(job[c], requests)
      /\ (Busy(job[c]) /\ job[c].alone => Knows(job[c], users, requests, members))
  BY DEF Inv, TypeOK, JobsInv
<1> QED
  BY <1>1 DEF Ready

\* A call that replies.
LEMMA ReplyFits ==
  ASSUME NEW j \in Jobs, NEW p \in Replies, Ready(j), NEW rs, Holds(j, rs)
  PROVE  LET k == Goto(j, p) IN
         /\ k \in Jobs /\ Ready(k) /\ Holds(k, rs) /\ ~Busy(k)
         /\ k.pc = p /\ k.did = j.did /\ k.user = j.user /\ k.group = j.group
<1>1. p \in Pcs
  BY DEF Pcs
<1> DEFINE k == Goto(j, p)
<1>3. /\ k \in Jobs /\ k.pc = p
      /\ k.kind = j.kind /\ k.actor = j.actor /\ k.user = j.user
      /\ k.group = j.group /\ k.of = j.of /\ k.copy = j.copy
      /\ k.id = j.id /\ k.found = j.found /\ k.did = j.did
  BY <1>1, GotoFits
<1> HIDE DEF k
<1>4. Ready(k)
  BY <1>3 DEF Ready, Replies
<1>5. Holds(k, rs)
  BY <1>3 DEF Holds, Replies
<1>6. ~Busy(k)
  BY <1>3 DEF Busy
<1> QED
  BY <1>3, <1>4, <1>5, <1>6 DEF k

\* A call that replies and has changed nothing in a group.
LEMMA ReplyKeeps ==
  ASSUME Inv, NEW c \in Calls, NEW p \in Replies, Reads(c, Goto(job[c], p)),
         job[c].did = "nothing"
  PROVE  Inv'
<1>2. job[c] \in Jobs /\ Ready(job[c]) /\ Holds(job[c], requests)
  BY OfCall
<1> DEFINE k == Goto(job[c], p)
<1>3. k \in Jobs /\ Ready(k) /\ Holds(k, requests) /\ ~Busy(k) /\ k.did = job[c].did
      /\ k.pc = p
  BY <1>2, ReplyFits
<1> HIDE DEF k
<1>4. Reads(c, k)
  BY DEF k
<1> QED
  BY <1>3, <1>4, ReadsKeep

-----------------------------------------------------------------------------
(* Calls that begin.                                                       *)

LEMMA BeginKeeps ==
  ASSUME Inv, NEW c \in Calls, NEW j \in Jobs, Ready(j), Begin(c, j),
         j.found = {}, j.copy = None, j.did = "nothing",
         \/ j.pc \in {"handler", "list", "look up"}
         \/ j.pc = "resolve" /\ j.kind = "change by id"
         \/ j.pc = "put" /\ j.kind \in {"create", "delete"}
  PROVE  Inv'
<1>1. Holds(j, requests) /\ Knows(j, users, requests, members)
  BY DEF Holds, Knows, Asking
<1>2. job[c] = Idle /\ Reads(c, j)
  BY DEF Begin
<1>3. Idle.did = "nothing"
  BY DEF Idle
<1> QED
  BY <1>1, <1>2, <1>3, ReadsKeep

LEMMA StartAddRequestKeeps ==
  ASSUME Inv, NEW c \in Calls, NEW actor \in Actors, NEW u \in Users, NEW g \in Groups,
         StartAddRequest(c, actor, u, g)
  PROVE  Inv'
<1> DEFINE j == [Idle EXCEPT !.kind = "add request", !.pc = "handler", !.actor = actor,
                             !.user = u, !.group = g]
<1>1. "add request" \in Kinds /\ "handler" \in Pcs
  BY DEF Kinds, Pcs
<1>2. j \in Jobs
  BY <1>1, IdleFits DEF Jobs
<1>3. /\ j.kind = "add request" /\ j.pc = "handler" /\ j.actor = actor
      /\ j.user = u /\ j.group = g /\ j.found = {} /\ j.copy = None
      /\ j.did = "nothing"
  BY DEF Idle
<1>4. Begin(c, j)
  BY DEF StartAddRequest
<1> HIDE DEF j
<1>5. Ready(j)
  BY <1>3 DEF Ready, Asking, Grouping, Managing
<1> QED
  BY <1>2, <1>3, <1>4, <1>5, BeginKeeps

LEMMA StartChangeKeeps ==
  ASSUME Inv, NEW c \in Calls, NEW actor \in Actors, NEW u \in Users, NEW g \in Groups, NEW status \in Statuses,
         StartChange(c, actor, u, g, status)
  PROVE  Inv'
<1> DEFINE j == [Idle EXCEPT !.kind = "change", !.pc = "handler", !.actor = actor,
                             !.user = u, !.group = g, !.status = status]
<1>1. "change" \in Kinds /\ "handler" \in Pcs
  BY DEF Kinds, Pcs
<1>2. j \in Jobs
  BY <1>1, IdleFits DEF Jobs
<1>3. /\ j.kind = "change" /\ j.pc = "handler" /\ j.actor = actor /\ j.user = u
      /\ j.group = g /\ j.status = status /\ j.found = {} /\ j.copy = None
      /\ j.did = "nothing"
  BY DEF Idle
<1>4. Begin(c, j)
  BY DEF StartChange
<1> HIDE DEF j
<1>5. Ready(j)
  BY <1>3 DEF Ready, Asking, Grouping, Managing
<1> QED
  BY <1>2, <1>3, <1>4, <1>5, BeginKeeps

LEMMA StartChangeByIdKeeps ==
  ASSUME Inv, NEW c \in Calls, NEW i \in Ids, NEW status \in Statuses,
         StartChangeById(c, i, status)
  PROVE  Inv'
<1> DEFINE j == [Idle EXCEPT !.kind = "change by id", !.pc = "resolve",
                             !.todo = {i}, !.status = status]
<1>1. "change by id" \in Kinds /\ "resolve" \in Pcs
  BY DEF Kinds, Pcs
<1>2. j \in Jobs
  BY <1>1, IdleFits DEF Jobs
<1>3. /\ j.kind = "change by id" /\ j.pc = "resolve" /\ j.todo = {i}
      /\ j.status = status /\ j.found = {} /\ j.copy = None /\ j.did = "nothing"
  BY DEF Idle
<1>4. Begin(c, j)
  BY DEF StartChangeById
<1> HIDE DEF j
<1>5. Ready(j)
  BY <1>3 DEF Ready, Asking, Grouping, Managing
<1> QED
  BY <1>2, <1>3, <1>4, <1>5, BeginKeeps

LEMMA StartAddMemberKeeps ==
  ASSUME Inv, NEW c \in Calls, NEW actor \in Actors, NEW u \in Users, NEW g \in Groups,
         StartAddMember(c, actor, u, g)
  PROVE  Inv'
<1> DEFINE j == [Idle EXCEPT !.kind = "add member", !.actor = actor, !.user = u,
                             !.group = g, !.pc = "list"]
<1>1. "add member" \in Kinds /\ "list" \in Pcs
  BY DEF Kinds, Pcs
<1>2. j \in Jobs
  BY <1>1, IdleFits DEF Jobs
<1>3. /\ j.kind = "add member" /\ j.actor = actor /\ j.user = u /\ j.group = g
      /\ j.pc = "list" /\ j.found = {} /\ j.copy = None /\ j.did = "nothing"
  BY DEF Idle
<1>4. Begin(c, j)
  BY DEF StartAddMember
<1> HIDE DEF j
<1>5. Ready(j)
  BY <1>3 DEF Ready, Asking, Grouping, Managing
<1> QED
  BY <1>2, <1>3, <1>4, <1>5, BeginKeeps

LEMMA StartAddMemberTaskKeeps ==
  ASSUME Inv, NEW c \in Calls, NEW u \in Users, NEW g \in Groups,
         StartAddMemberTask(c, u, g)
  PROVE  Inv'
<1> DEFINE j == [Idle EXCEPT !.kind = "add member task", !.user = u,
                             !.group = g, !.pc = "list"]
<1>1. "add member task" \in Kinds /\ "list" \in Pcs
  BY DEF Kinds, Pcs
<1>2. j \in Jobs
  BY <1>1, IdleFits DEF Jobs
<1>3. /\ j.kind = "add member task" /\ j.user = u /\ j.group = g
      /\ j.pc = "list" /\ j.found = {} /\ j.copy = None /\ j.did = "nothing"
  BY DEF Idle
<1>4. Begin(c, j)
  BY DEF StartAddMemberTask
<1> HIDE DEF j
<1>5. Ready(j)
  BY <1>3 DEF Ready, Asking, Grouping, Managing
<1> QED
  BY <1>2, <1>3, <1>4, <1>5, BeginKeeps

LEMMA StartRemoveMemberKeeps ==
  ASSUME Inv, NEW c \in Calls, NEW u \in Users, NEW g \in Groups,
         StartRemoveMember(c, u, g)
  PROVE  Inv'
<1> DEFINE j == [Idle EXCEPT !.kind = "remove member", !.user = u,
                             !.group = g, !.pc = "list"]
<1>1. "remove member" \in Kinds /\ "list" \in Pcs
  BY DEF Kinds, Pcs
<1>2. j \in Jobs
  BY <1>1, IdleFits DEF Jobs
<1>3. /\ j.kind = "remove member" /\ j.user = u /\ j.group = g /\ j.pc = "list"
      /\ j.found = {} /\ j.copy = None /\ j.did = "nothing"
  BY DEF Idle
<1>4. Begin(c, j)
  BY DEF StartRemoveMember
<1> HIDE DEF j
<1>5. Ready(j)
  BY <1>3 DEF Ready, Asking, Grouping, Managing
<1> QED
  BY <1>2, <1>3, <1>4, <1>5, BeginKeeps

LEMMA StartRegisterKeeps ==
  ASSUME Inv, NEW c \in Calls, NEW u \in Users, NEW pw \in Passwords,
         StartRegister(c, u, pw)
  PROVE  Inv'
<1> DEFINE j == [Idle EXCEPT !.kind = "register", !.pc = "look up",
                             !.user = u, !.password = pw]
<1>1. "register" \in Kinds /\ "look up" \in Pcs
  BY DEF Kinds, Pcs
<1>2. j \in Jobs
  BY <1>1, IdleFits DEF Jobs
<1>3. /\ j.kind = "register" /\ j.pc = "look up" /\ j.user = u
      /\ j.password = pw /\ j.found = {} /\ j.copy = None /\ j.did = "nothing"
  BY DEF Idle
<1>4. Begin(c, j)
  BY DEF StartRegister
<1> HIDE DEF j
<1>5. Ready(j)
  BY <1>3 DEF Ready, Asking, Grouping, Managing
<1> QED
  BY <1>2, <1>3, <1>4, <1>5, BeginKeeps

LEMMA StartManageKeeps ==
  ASSUME Inv, NEW c \in Calls, NEW kind \in {"create", "update", "delete"},
         NEW u \in Users, NEW pw \in Passwords \cup {None}, NEW gs \in SUBSET Groups,
         StartManage(c, kind, u, pw, gs)
  PROVE  Inv'
<1> DEFINE pc == IF kind = "update" THEN "look up" ELSE "put"
           j  == [Idle EXCEPT !.kind = kind, !.user = u, !.password = pw, !.groups = gs,
                              !.pc = pc]
<1>1. kind \in Kinds /\ pc \in Pcs
  BY DEF Kinds, Pcs
<1> HIDE DEF pc
<1>2. j \in Jobs
  <2> DEFINE k1 == [Idle EXCEPT !.kind = kind]
             k2 == [k1 EXCEPT !.user = u]
             k3 == [k2 EXCEPT !.password = pw]
             k4 == [k3 EXCEPT !.groups = gs]
  <2> HIDE DEF k1, k2, k3, k4
  <2>1. k1 \in Jobs
    BY <1>1, IdleFits, SetFields DEF k1
  <2>2. k2 \in Jobs
    BY <2>1, SetFields DEF k2
  <2>3. k3 \in Jobs
    BY <2>2, SetFields DEF k3
  <2>4. k4 \in Jobs
    BY <2>3, SetFields DEF k4
  <2>5. [k4 EXCEPT !.pc = pc] \in Jobs
    BY <1>1, <2>4, SetFields
  <2> QED
    BY <2>5, Zenon DEF k1, k2, k3, k4
<1>3. /\ j.kind = kind /\ j.pc = pc /\ j.user = u /\ j.found = {} /\ j.copy = None
      /\ j.did = "nothing"
  BY DEF Idle
<1>4. Begin(c, j)
  BY DEF StartManage, pc
<1> HIDE DEF j
<1>5. Ready(j)
  BY <1>3 DEF Ready, Asking, Grouping, Managing, pc
<1>6. \/ j.pc \in {"handler", "list", "look up"}
      \/ j.pc = "put" /\ j.kind \in {"create", "delete"}
  <2>1. CASE kind = "update"
    BY <1>3, <2>1 DEF pc
  <2>2. CASE kind # "update"
    BY <1>3, <2>2 DEF pc
  <2> QED
    BY <2>1, <2>2
<1> QED
  BY <1>2, <1>3, <1>4, <1>5, <1>6, BeginKeeps

-----------------------------------------------------------------------------
(* Requests for groups.                                                    *)

\* What a call that asks knows once the item of its user is before it: the
\* requests of the list are all to be resolved.
LEMMA AffectedFits ==
  ASSUME Inv, NEW j \in Jobs, Ready(j), j.kind \in Asking, j.did = "nothing",
         j.found = {}, j.copy = None, NEW u \in {j.actor, j.user}, NEW item \in Items,
         NEW us, us[u] = item,
         \A i \in item.requests : IsOf(requests, i, u)
  PROVE  LET k == Affected(j, u, item) IN
         /\ k \in Jobs /\ Ready(k) /\ Holds(k, requests) /\ Busy(k) /\ k.did = "nothing"
         /\ k.alone = j.alone /\ Knows(k, us, requests, members)
<1>1. j.user \in Users /\ j.actor \in Actors /\ u \in People
  BY DEF Ready, People
<1>2. CASE u # j.user
  <2> DEFINE k == Goto(j, "affected")
  <2>1. "affected" \in Pcs /\ "affected" \notin Replies \cup {"idle"}
    BY DEF Pcs, Replies
  <2>2. /\ k \in Jobs /\ k.pc = "affected" /\ k.kind = j.kind /\ k.user = j.user
        /\ k.group = j.group /\ k.actor = j.actor /\ k.found = {} /\ k.copy = None
        /\ k.did = "nothing" /\ k.alone = j.alone
    BY <2>1, GotoFits
  <2> HIDE DEF k
  <2>3. Ready(k) /\ Holds(k, requests) /\ Busy(k)
    BY <2>1, <2>2 DEF Ready, Holds, Busy
  <2>4. Knows(k, us, requests, members)
    BY <2>2 DEF Knows
  <2>5. Affected(j, u, item) = k
    BY <1>2 DEF Affected, k
  <2> QED
    BY <2>2, <2>3, <2>4, <2>5
<1>3. CASE u = j.user
  <2> DEFINE pc == IF item.requests = {} THEN "decide" ELSE "resolve"
             k1 == [j EXCEPT !.of = u]
             k2 == [k1 EXCEPT !.copy = item]
             k3 == [k2 EXCEPT !.todo = item.requests]
             k  == [j EXCEPT !.of = u, !.copy = item, !.todo = item.requests, !.pc = pc]
  <2>1. pc \in Pcs /\ pc \notin Replies \cup {"idle"} /\ pc \in {"decide", "resolve"}
    BY DEF Pcs, Replies
  <2> HIDE DEF pc
  <2>2. k \in Jobs
    <3> HIDE DEF k1, k2, k3
    <3>1. k1 \in Jobs
      BY <1>1, SetFields DEF k1
    <3>2. k2 \in Jobs
      BY <3>1, SetFields DEF k2
    <3>3. k3 \in Jobs
      <4>1. item.requests \in SUBSET Ids
        BY DEF Items
      <4> QED
        BY <3>2, <4>1, SetFields DEF k3
    <3>4. [k3 EXCEPT !.pc = pc] \in Jobs
      BY <2>1, <3>3, SetFields
    <3> QED
      BY <3>4, Zenon DEF k, k1, k2, k3
  <2>3. /\ k.pc = pc /\ k.kind = j.kind /\ k.user = j.user /\ k.group = j.group
        /\ k.actor = j.actor /\ k.of = u /\ k.copy = item /\ k.todo = item.requests
        /\ k.found = {} /\ k.did = "nothing" /\ k.alone = j.alone
    BY DEF Jobs
  <2> HIDE DEF k
  <2>4. pc = "decide" => item.requests = {}
    BY DEF pc
  <2>5. Ready(k) /\ Busy(k)
    BY <1>3, <2>1, <2>3, <2>4 DEF Ready, Busy, Asking, Grouping, Managing
  <2>6. Holds(k, requests)
    BY <1>3, <2>1, <2>3 DEF Holds
  <2>7. Knows(k, us, requests, members)
    BY <1>3, <2>1, <2>3 DEF Knows
  <2>8. Affected(j, u, item) = k
    BY <1>3 DEF Affected, Known, k, pc
  <2> QED
    BY <2>2, <2>3, <2>5, <2>6, <2>7, <2>8
<1> QED
  BY <1>2, <1>3

\* A user whose item is not there is created next, another's item is used.
LEMMA GetOrCreateUserKeeps ==
  ASSUME Inv, NEW c \in Calls, GetOrCreateUser(c)
  PROVE  Inv'
<1> DEFINE j == job[c]
           u == IF j.pc = "handler" THEN j.actor ELSE j.user
<1>1. /\ j \in Jobs /\ Ready(j) /\ Holds(j, requests) /\ j.did = "nothing"
      /\ j.pc \in {"handler", "affected"} /\ j.kind \in Asking
  BY OfCall DEF GetOrCreateUser, Ready, Replies
<1>2. u \in {j.actor, j.user} /\ u \in People
  BY <1>1 DEF Ready, People
<1>3. Reads(c, IF users[u] = None THEN [j EXCEPT !.pc = "create", !.of = u]
               ELSE Affected(j, u, users[u]))
  BY DEF GetOrCreateUser
<1> HIDE DEF u
<1>4. CASE users[u] = None
  <2> DEFINE k1 == [j EXCEPT !.pc = "create"]
             k  == [j EXCEPT !.pc = "create", !.of = u]
  <2>1. "create" \in Pcs
    BY DEF Pcs
  <2>2. k1 \in Jobs
    BY <1>1, <2>1, SetFields
  <2>3. k \in Jobs
    <3> HIDE DEF k1
    <3>1. [k1 EXCEPT !.of = u] \in Jobs
      BY <1>2, <2>2, SetFields
    <3> QED
      BY <3>1, Zenon DEF k, k1
  <2>4. /\ k.pc = "create" /\ k.kind = j.kind /\ k.user = j.user /\ k.group = j.group
        /\ k.actor = j.actor /\ k.of = u /\ k.copy = j.copy /\ k.found = j.found
        /\ k.did = "nothing"
    BY <1>1 DEF Jobs
  <2>5. Reads(c, k)
    BY <1>3, <1>4
  <2> HIDE DEF k
  <2>6. Ready(k)
    BY <1>1, <1>2, <2>4 DEF Ready
  <2>7. Holds(k, requests)
    BY <1>1, <2>4 DEF Holds
  <2>8. Knows(k, users, requests, members)
    BY <1>4, <2>4 DEF Knows
  <2> QED
    BY <1>1, <2>3, <2>4, <2>5, <2>6, <2>7, <2>8, ReadsKeep
<1>5. CASE users[u] # None
  <2>1. users[u] \in Items
    BY <1>2, <1>5 DEF Inv, TypeOK
  <2>2. \A i \in users[u].requests : IsOf(requests, i, u)
    BY <1>2, <1>5 DEF Inv, ListedRequestsExist, Listed, IsOf
  <2>3. j.found = {} /\ j.copy = None
    BY <1>1 DEF Ready
  <2> DEFINE k == Affected(j, u, users[u])
  <2>4. /\ k \in Jobs /\ Ready(k) /\ Holds(k, requests) /\ k.did = "nothing"
        /\ Knows(k, users, requests, members)
    BY <1>1, <1>2, <2>1, <2>2, <2>3, AffectedFits
  <2> QED
    BY <1>1, <1>3, <1>5, <2>4, ReadsKeep
<1> QED
  BY <1>4, <1>5

\* The item of a missing user is put, with no requests.
LEMMA CreateMissingUserKeeps ==
  ASSUME Inv, NEW c \in Calls, CreateMissingUser(c)
  PROVE  Inv'
<1> DEFINE j    == job[c]
           u    == j.of
           item == NewUser(None, {})
           us   == [users EXCEPT ![u] = item]
           k    == Affected(j, u, item)
<1>1. /\ j \in Jobs /\ Ready(j) /\ Holds(j, requests) /\ j.did = "nothing"
      /\ j.pc = "create" /\ j.kind \in Asking /\ j.copy = None /\ j.found = {}
      /\ u \in {j.actor, j.user} /\ u \in People
  BY OfCall DEF CreateMissingUser, Ready, Replies, People
<1>2. item \in Items /\ item.requests = {}
  BY DEF NewUser, Items
<1>3. Step(c, k, us, requests, members) /\ log' = log
  BY DEF CreateMissingUser
<1> HIDE DEF item
<1>4. us \in [People -> Items \cup {None}] /\ us[u] = item
  BY <1>1, <1>2 DEF Inv, TypeOK
<1>5. \A x \in People : \A i \in Listed(us, x) : IsOf(requests, i, x)
  <2> SUFFICES ASSUME NEW x \in People, NEW i \in Listed(us, x)
               PROVE  IsOf(requests, i, x)
    OBVIOUS
  <2>1. CASE x = u
    BY <1>2, <1>4, <2>1 DEF Listed
  <2>2. CASE x # u
    <3>1. us[x] = users[x]
      BY <1>1, <2>2 DEF Inv, TypeOK
    <3> QED
      BY <3>1 DEF Listed, Inv, ListedRequestsExist, IsOf
  <2> QED
    BY <2>1, <2>2
<1> HIDE DEF us
<1>6. /\ k \in Jobs /\ Ready(k) /\ Holds(k, requests) /\ k.did = "nothing"
      /\ Knows(k, us, requests, members)
  BY <1>1, <1>2, <1>4, AffectedFits
<1> HIDE DEF k
<1>7. Allows(k, us, requests, members)
  BY <1>4, <1>5, <1>6 DEF Allows, Inv, TypeOK, IsOf
<1> QED
  BY <1>1, <1>3, <1>6, <1>7, StepKeepsLog

\* One more of the requests is found, or the call raises.
LEMMA ResolveKeeps ==
  ASSUME Inv, NEW c \in Calls, Resolve(c)
  PROVE  Inv'
<1> DEFINE j == job[c]
<1>1. /\ j \in Jobs /\ Ready(j) /\ Holds(j, requests) /\ j.did = "nothing"
      /\ j.pc = "resolve"
      /\ j.alone => Knows(j, users, requests, members)
  BY OfCall DEF Resolve, Replies, Busy
<1>2. PICK i \in j.todo :
        Reads(c, IF requests[i] = None THEN Goto(j, "raised")
                 ELSE IF [j EXCEPT !.todo = @ \ {i},
                            !.found = @ \cup {[id |-> i, item |-> requests[i]]}].todo = {}
                 THEN Goto([j EXCEPT !.todo = @ \ {i},
                              !.found = @ \cup {[id |-> i, item |-> requests[i]]}], "decide")
                 ELSE [j EXCEPT !.todo = @ \ {i},
                         !.found = @ \cup {[id |-> i, item |-> requests[i]]}])
  BY DEF Resolve
<1> DEFINE f  == [id |-> i, item |-> requests[i]]
           k1 == [j EXCEPT !.todo = j.todo \ {i}]
           j2 == [j EXCEPT !.todo = @ \ {i}, !.found = @ \cup {f}]
           pc == IF j2.todo = {} THEN "decide" ELSE "resolve"
           k  == Goto(j2, pc)
<1>3. CASE requests[i] = None
  BY <1>1, <1>2, <1>3, ReplyKeeps DEF Replies
<1>4. CASE requests[i] # None
  <2>1. i \in Ids /\ requests[i] \in Requests
    BY <1>1, <1>4, JobFields DEF Inv, TypeOK
  <2>2. f \in [id : Ids, item : Requests] /\ f.id = i /\ f.item = requests[i]
    BY <2>1
  <2> HIDE DEF f
  <2>3. j2 \in Jobs
    <3>1. k1 \in Jobs
      BY <1>1, SetFields, JobFields
    <3>2. j.found \cup {f} \in SUBSET [id : Ids, item : Requests]
      BY <1>1, <2>2, JobFields
    <3>3. [k1 EXCEPT !.found = j.found \cup {f}] \in Jobs
      <4> HIDE DEF k1
      <4> QED
        BY <3>1, <3>2, SetFields
    <3> QED
      BY <3>3, Zenon
  <2>4. /\ j2.pc = "resolve" /\ j2.kind = j.kind /\ j2.user = j.user
        /\ j2.group = j.group /\ j2.actor = j.actor /\ j2.of = j.of /\ j2.copy = j.copy
        /\ j2.todo = j.todo \ {i} /\ j2.found = j.found \cup {f}
        /\ j2.did = j.did /\ j2.alone = j.alone
    BY <1>1 DEF Jobs
  <2>5. Reads(c, IF j2.todo = {} THEN Goto(j2, "decide") ELSE j2)
    BY <1>2, <1>4 DEF f
  <2> HIDE DEF j2
  <2>6. Reads(c, k)
    <3>1. CASE j2.todo = {}
      BY <2>5, <3>1
    <3>2. CASE j2.todo # {}
      <4>1. Goto(j2, "resolve") = j2
        BY <2>3, <2>4 DEF Goto, Jobs
      <4> QED
        BY <2>5, <3>2, <4>1
    <3> QED
      BY <3>1, <3>2
  <2>7. /\ pc \in Pcs /\ pc \notin Replies \cup {"idle"} /\ pc \in {"decide", "resolve"}
        /\ (pc = "decide" => j2.todo = {})
    BY DEF Pcs, Replies
  <2> HIDE DEF pc
  <2>8. /\ k \in Jobs /\ k.pc = pc /\ k.kind = j.kind /\ k.user = j.user
        /\ k.group = j.group /\ k.actor = j.actor /\ k.of = j.of /\ k.copy = j.copy
        /\ k.todo = j.todo \ {i} /\ k.found = j.found \cup {f} /\ k.did = j.did
        /\ k.alone = j.alone
    BY <2>3, <2>4, <2>7, GotoFits
  <2>9. pc = "decide" => k.todo = {}
    BY <2>4, <2>7, <2>8
  <2> HIDE DEF k
  <2>10. Ready(k)
    BY <1>1, <2>7, <2>8, <2>9 DEF Ready, Asking, Grouping, Managing
  <2>11. Holds(k, requests)
    <3>1. \A r \in k.found : r \in j.found \/ r = f
      BY <2>8
    <3> QED
      BY <1>1, <1>4, <2>2, <2>7, <2>8, <3>1 DEF Holds, IsOf
  <2>12. k.alone => Knows(k, users, requests, members)
    BY <1>1, <2>7, <2>8 DEF Knows, f
  <2> QED
    BY <1>1, <2>6, <2>7, <2>8, <2>10, <2>11, <2>12, ReadsKeep
<1> QED
  BY <1>3, <1>4

\* A new request is put, of the user whose item the call has, or it raises.
LEMMA PutRequestKeeps ==
  ASSUME Inv, NEW c \in Calls, PutRequest(c)
  PROVE  Inv'
<1> DEFINE j   == job[c]
           new == [username |-> j.user, group |-> j.group, status |-> "pending"]
<1>1. /\ j \in Jobs /\ Ready(j) /\ Holds(j, requests) /\ j.did = "nothing"
      /\ j.pc = "decide" /\ j.kind \in {"add request", "add member"}
      /\ j.alone => Knows(j, users, requests, members)
  BY OfCall DEF PutRequest, Replies, Busy
<1>2. new \in Requests /\ new.username = j.user /\ new.group = j.group
      /\ new.status = "pending" /\ new # None
  <2>1. j.user \in Users /\ j.group \in Groups /\ "pending" \in Statuses
    BY <1>1, GroupAccessConstants DEF Ready, Asking
  <2>2. new \in Requests
    BY <2>1 DEF Requests
  <2> QED
    BY <2>2, NoneIsNoItem
<1>3. CASE Pending(j) # {}
  BY <1>1, <1>3, ReplyKeeps DEF PutRequest, Replies
<1>4. CASE Pending(j) = {}
  <2>1. PICK i \in {x \in Ids : requests[x] = None} :
          /\ Step(c, [j EXCEPT !.pc = "put user", !.id = i],
                  users, [requests EXCEPT ![i] = new], members)
          /\ log' = log
    BY <1>4 DEF PutRequest
  <2> DEFINE k1 == [j EXCEPT !.pc = "put user"]
             k  == [j EXCEPT !.pc = "put user", !.id = i]
             rs == [requests EXCEPT ![i] = new]
  <2>2. k \in Jobs
    <3>1. "put user" \in Pcs
      BY DEF Pcs
    <3>2. k1 \in Jobs
      BY <1>1, <3>1, SetFields
    <3>3. [k1 EXCEPT !.id = i] \in Jobs
      <4> HIDE DEF k1
      <4> QED
        BY <3>2, SetFields
    <3> QED
      BY <3>3, Zenon
  <2>3. /\ k.pc = "put user" /\ k.kind = j.kind /\ k.user = j.user
        /\ k.group = j.group /\ k.actor = j.actor /\ k.of = j.of /\ k.copy = j.copy
        /\ k.found = j.found /\ k.id = i /\ k.did = j.did /\ k.alone = j.alone
    BY <1>1 DEF Jobs
  <2> HIDE DEF k, new
  <2>4. /\ rs \in [Ids -> Requests \cup {None}] /\ rs[i] = new
        /\ \A x \in Ids : requests[x] # None => rs[x] = requests[x]
    BY <1>2 DEF Inv, TypeOK
  <2>5. \A x \in Ids : requests[x] # None => IsOf(rs, x, requests[x].username)
    BY <2>4 DEF IsOf
  <2> HIDE DEF rs
  <2>6. Ready(k)
    BY <1>1, <2>3 DEF Ready, Asking, Grouping, Managing
  <2>7. Holds(k, rs)
    <3>1. Holds(j, rs)
      BY <1>1, <2>5, HoldsKept
    <3> QED
      BY <1>2, <2>3, <2>4, <3>1 DEF Holds, IsOf
  <2>8. k.alone => Knows(k, users, rs, members)
    BY <1>1, <1>2, <2>3, <2>4 DEF Knows, Asking
  <2>9. \A u \in People : \A x \in Listed(users, u) : IsOf(rs, x, u)
    <3> SUFFICES ASSUME NEW u \in People, NEW x \in Listed(users, u)
                 PROVE  IsOf(rs, x, u)
      OBVIOUS
    <3>1. x \in Ids /\ requests[x] # None /\ requests[x].username = u
      BY DEF Inv, TypeOK, ListedRequestsExist, Listed, Items
    <3> QED
      BY <2>5, <3>1
  <2>10. Allows(k, users, rs, members)
    BY <2>2, <2>4, <2>5, <2>6, <2>7, <2>8, <2>9 DEF Allows, Inv, TypeOK
  <2> QED
    BY <1>1, <2>1, <2>3, <2>10, StepKeepsLog DEF k, rs
<1> QED
  BY <1>3, <1>4

\* The item goes back with the new request listed.
LEMMA PutUserKeeps ==
  ASSUME Inv, NEW c \in Calls, PutUser(c)
  PROVE  Inv'
<1> DEFINE j    == job[c]
           p    == IF j.kind = "add member" THEN "requested" ELSE "ok"
           item == WithId(j.copy, j.id)
           us   == [users EXCEPT ![j.of] = item]
           k    == Goto(j, p)
<1>1. /\ j \in Jobs /\ Ready(j) /\ Holds(j, requests) /\ j.did = "nothing"
      /\ j.pc = "put user" /\ j.of = j.user /\ j.copy \in Items /\ j.id \in Ids
      /\ j.user \in Users
  BY OfCall DEF PutUser, Replies, Ready
<1>2. p \in Replies
  BY DEF Replies
<1> HIDE DEF p
<1>3. Step(c, k, us, requests, members) /\ log' = log
  BY DEF PutUser, p
<1>4. item \in Items /\ item.requests = j.copy.requests \cup {j.id}
  BY <1>1 DEF WithId, Items
<1> HIDE DEF item
<1>5. k \in Jobs /\ Ready(k) /\ Holds(k, requests) /\ ~Busy(k) /\ k.did = "nothing"
  BY <1>1, <1>2, ReplyFits
<1> HIDE DEF k
<1>6. us \in [People -> Items \cup {None}] /\ us[j.user] = item
      /\ \A x \in People \ {j.user} : us[x] = users[x]
  BY <1>1, <1>4 DEF Inv, TypeOK, People
<1> HIDE DEF us
<1>7. \A x \in People : \A i \in Listed(us, x) : IsOf(requests, i, x)
  <2> SUFFICES ASSUME NEW x \in People, NEW i \in Listed(us, x)
               PROVE  IsOf(requests, i, x)
    OBVIOUS
  <2>1. CASE x = j.user
    <3>1. i \in j.copy.requests \/ i = j.id
      BY <1>4, <1>6, <2>1 DEF Listed
    <3>2. j.copy # None
      BY <1>1, NoneIsNoItem
    <3> QED
      BY <1>1, <2>1, <3>1, <3>2 DEF Holds
  <2>2. CASE x # j.user
    BY <1>6, <2>2 DEF Listed, Inv, ListedRequestsExist, IsOf
  <2> QED
    BY <2>1, <2>2
<1>8. Allows(k, us, requests, members)
  BY <1>5, <1>6, <1>7 DEF Allows, Inv, TypeOK, IsOf
<1> QED
  BY <1>1, <1>3, <1>5, <1>8, StepKeepsLog

\* The requests for the group are chosen among those found.
LEMMA ChooseRequestsKeeps ==
  ASSUME Inv, NEW c \in Calls, ChooseRequests(c)
  PROVE  Inv'
<1> DEFINE j      == job[c]
           chosen == {r \in j.found : r.item.group = j.group}
<1>1. /\ j \in Jobs /\ Ready(j) /\ Holds(j, requests) /\ j.did = "nothing"
      /\ j.pc = "decide" /\ j.kind = "change" /\ j.todo = {} /\ j.copy \in Items
      /\ j.alone => Knows(j, users, requests, members)
  BY OfCall DEF ChooseRequests, Replies, Busy, Ready, Asking
<1>2. CASE chosen = {}
  BY <1>1, <1>2, ReplyKeeps DEF ChooseRequests, Replies
<1>3. CASE chosen # {}
  <2> DEFINE k1 == [j EXCEPT !.pc = "put status"]
             k  == [j EXCEPT !.pc = "put status", !.found = chosen]
  <2>1. Reads(c, k)
    BY <1>3 DEF ChooseRequests
  <2>2. chosen \subseteq j.found /\ chosen \in SUBSET [id : Ids, item : Requests]
    BY <1>1, JobFields
  <2>3. k \in Jobs
    <3>1. "put status" \in Pcs
      BY DEF Pcs
    <3>2. k1 \in Jobs
      BY <1>1, <3>1, SetFields
    <3>3. [k1 EXCEPT !.found = chosen] \in Jobs
      <4> HIDE DEF k1, chosen
      <4> QED
        BY <2>2, <3>2, SetFields
    <3> QED
      BY <3>3, Zenon
  <2>4. /\ k.pc = "put status" /\ k.kind = "change" /\ k.user = j.user
        /\ k.group = j.group /\ k.actor = j.actor /\ k.copy = j.copy
        /\ k.found = chosen /\ k.did = "nothing" /\ k.alone = j.alone
    BY <1>1 DEF Jobs
  <2> HIDE DEF k
  <2>5. Ready(k)
    BY <1>1, <2>4 DEF Ready, Asking, Grouping, Managing
  <2>6. Holds(k, requests)
    BY <1>1, <2>2, <2>4 DEF Holds
  <2>7. k.alone => Knows(k, users, requests, members)
    <3>1. SUFFICES ASSUME k.alone, NEW i \in Listed(users, j.user), requests[i].group = j.group
                   PROVE  \E r \in chosen : r.id = i
      BY <2>4 DEF Knows
    <3>2. users[j.user] = j.copy /\ j.copy # None
          /\ \A x \in j.copy.requests : [id |-> x, item |-> requests[x]] \in j.found
      BY <1>1, <2>4, <3>1, NoneIsNoItem DEF Knows, Asking
    <3>3. [id |-> i, item |-> requests[i]] \in j.found
      BY <3>1, <3>2 DEF Listed
    <3>4. [id |-> i, item |-> requests[i]] \in chosen
      BY <3>1, <3>3
    <3> QED
      BY <3>4
  <2> QED
    BY <1>1, <2>1, <2>3, <2>4, <2>5, <2>6, <2>7, ReadsKeep
<1> QED
  BY <1>2, <1>3

LEMMA ChooseByIdKeeps ==
  ASSUME Inv, NEW c \in Calls, ChooseById(c)
  PROVE  Inv'
<1> DEFINE j == job[c]
           k == Goto(j, "put status")
<1>1. /\ j \in Jobs /\ Ready(j) /\ Holds(j, requests) /\ j.did = "nothing"
      /\ j.pc = "decide" /\ j.kind = "change by id"
  BY OfCall DEF ChooseById, Replies
<1>2. "put status" \in Pcs
  BY DEF Pcs
<1>3. /\ k \in Jobs /\ k.pc = "put status" /\ k.kind = "change by id" /\ k.user = j.user
      /\ k.copy = j.copy /\ k.found = j.found /\ k.did = "nothing"
  BY <1>1, <1>2, GotoFits
<1>4. Reads(c, k)
  BY DEF ChooseById
<1> HIDE DEF k
<1>5. Ready(k) /\ Knows(k, users, requests, members)
  BY <1>3 DEF Ready, Knows, Asking, Grouping, Managing
<1>6. Holds(k, requests)
  BY <1>1, <1>3 DEF Holds
<1> QED
  BY <1>1, <1>3, <1>4, <1>5, <1>6, ReadsKeep

\* A request is put back as it was resolved, but for its status.
LEMMA PutStatusKeeps ==
  ASSUME Inv, NEW c \in Calls, PutStatus(c)
  PROVE  Inv'
<1> DEFINE j == job[c]
<1>1. /\ j \in Jobs /\ Ready(j) /\ Holds(j, requests) /\ j.did = "nothing"
      /\ j.pc = "put status" /\ j.kind \in Asking \cup {"change by id"}
      /\ j.status \in Statuses
      /\ j.alone => Knows(j, users, requests, members)
  BY OfCall, JobFields DEF PutStatus, Replies, Busy, Ready
<1>2. PICK r \in j.found :
        /\ Step(c, [j EXCEPT !.found = Rest(j.found, r),
                             !.pc = IF Rest(j.found, r) = {} THEN "ok" ELSE @],
                users, [requests EXCEPT ![r.id] = [r.item EXCEPT !.status = j.status]],
                members)
        /\ log' = log
  BY DEF PutStatus
<1> DEFINE rest == j.found \ {r}
           pc   == IF rest = {} THEN "ok" ELSE "put status"
           new  == [r.item EXCEPT !.status = j.status]
           rs   == [requests EXCEPT ![r.id] = new]
           k1   == [j EXCEPT !.found = rest]
           k    == [j EXCEPT !.found = rest, !.pc = pc]
<1>3. Step(c, k, users, rs, members)
  BY <1>1, <1>2 DEF Rest
<1>4. r.id \in Ids /\ r.item \in Requests /\ IsOf(requests, r.id, r.item.username)
  BY <1>1, JobFields DEF Holds
<1>5. /\ new \in Requests /\ new.username = r.item.username /\ new.status = j.status
      /\ new # None
  <2>1. new \in Requests /\ new.username = r.item.username /\ new.status = j.status
    BY <1>1, <1>4 DEF Requests
  <2> QED
    BY <2>1, NoneIsNoItem
<1> HIDE DEF new
<1>6. /\ rs \in [Ids -> Requests \cup {None}] /\ rs[r.id] = new
      /\ \A x \in Ids : x # r.id => rs[x] = requests[x]
  BY <1>4, <1>5 DEF Inv, TypeOK
<1>7. \A x \in Ids : requests[x] # None => IsOf(rs, x, requests[x].username)
  BY <1>4, <1>5, <1>6 DEF IsOf
<1> HIDE DEF rs
<1>8. k \in Jobs
  <2>1. pc \in Pcs
    BY DEF Pcs, Replies
  <2>2. k1 \in Jobs
    BY <1>1, SetFields, JobFields
  <2>3. [k1 EXCEPT !.pc = pc] \in Jobs
    <3> HIDE DEF k1, pc
    <3> QED
      BY <2>1, <2>2, SetFields
  <2> QED
    BY <2>3, Zenon
<1>9. /\ k.pc = pc /\ k.kind = j.kind /\ k.user = j.user /\ k.group = j.group
      /\ k.actor = j.actor /\ k.copy = j.copy /\ k.found = rest /\ k.did = "nothing"
      /\ k.status = j.status /\ k.alone = j.alone
  BY <1>1 DEF Jobs
<1> HIDE DEF k
<1>10. Ready(k)
  BY <1>1, <1>9 DEF Ready, Asking, Grouping, Managing
<1>11. Holds(k, rs)
  <2>1. Holds(j, rs)
    BY <1>1, <1>7, HoldsKept
  <2> QED
    BY <1>9, <2>1 DEF Holds
<1>12. Busy(k) /\ k.alone => Knows(k, users, rs, members)
  <2>1. SUFFICES ASSUME k.alone, k.kind = "change", NEW i \in Listed(users, j.user)
                 PROVE  \/ rs[i].group = j.group => rs[i].status = j.status
                        \/ \E f \in rest : f.id = i
    BY <1>9 DEF Knows
  <2>2. \/ requests[i].group = j.group => requests[i].status = j.status
        \/ \E f \in j.found : f.id = i
    BY <1>1, <1>9, <2>1 DEF Knows
  <2>3. j.user \in People /\ i \in Ids
    BY <1>1, <1>9, <2>1 DEF Ready, Asking, People, Listed, Inv, TypeOK, Items
  <2>4. CASE i = r.id
    BY <1>5, <1>6, <2>4
  <2>5. CASE i # r.id
    BY <1>6, <2>2, <2>3, <2>5
  <2> QED
    BY <2>4, <2>5
<1>13. \A u \in People : \A x \in Listed(users, u) : IsOf(rs, x, u)
  <2> SUFFICES ASSUME NEW u \in People, NEW x \in Listed(users, u)
               PROVE  IsOf(rs, x, u)
    OBVIOUS
  <2>1. x \in Ids /\ requests[x] # None /\ requests[x].username = u
    BY DEF Inv, TypeOK, ListedRequestsExist, Listed, Items
  <2> QED
    BY <1>7, <2>1
<1>14. Allows(k, users, rs, members)
  BY <1>6, <1>7, <1>8, <1>10, <1>11, <1>12, <1>13 DEF Allows, Inv, TypeOK
<1> QED
  BY <1>1, <1>2, <1>3, <1>9, <1>14, StepKeepsLog

-----------------------------------------------------------------------------
(* Members of groups.                                                      *)

\* A call that goes on to change the members, or asks for the group instead.
LEMMA GoOnKeeps ==
  ASSUME Inv, NEW c \in Calls, NEW p, Reads(c, Goto(job[c], p)),
         job[c].pc = "list",
         \/ p = "handler" /\ job[c].kind = "add member"
         \/ p = "insert" /\ job[c].kind # "remove member"
         \/ p = "delete" /\ job[c].kind = "remove member"
  PROVE  Inv'
<1> DEFINE j == job[c]
           k == Goto(j, p)
<1>1. /\ j \in Jobs /\ Ready(j) /\ j.did = "nothing" /\ j.kind \in Grouping
      /\ j.copy = None /\ j.found = {}
  BY OfCall DEF Replies, Ready
<1>2. p \in Pcs
  BY DEF Pcs
<1>3. /\ k \in Jobs /\ k.pc = p /\ k.kind = j.kind /\ k.user = j.user
      /\ k.group = j.group /\ k.actor = j.actor /\ k.copy = None /\ k.found = {}
      /\ k.did = "nothing"
  BY <1>1, <1>2, GotoFits
<1>4. Reads(c, k)
  OBVIOUS
<1> HIDE DEF k
<1>5. Ready(k)
  BY <1>1, <1>3 DEF Ready, Asking, Grouping, Managing
<1>6. Holds(k, requests) /\ Knows(k, users, requests, members)
  BY <1>3 DEF Holds, Knows
<1> QED
  BY <1>1, <1>3, <1>4, <1>5, <1>6, ReadsKeep

LEMMA ListMembersKeeps ==
  ASSUME Inv, NEW c \in Calls, ListMembers(c)
  PROVE  Inv'
<1> DEFINE j == job[c]
<1>1. j.did = "nothing" /\ j.pc = "list"
  BY OfCall DEF ListMembers, Replies
<1>2. \E p \in {"added", "raised", "handler", "insert", "delete"} :
         /\ Reads(c, Goto(j, p))
         /\ p = "handler" => j.kind = "add member"
         /\ p = "insert" => j.kind # "remove member"
         /\ p = "delete" => j.kind = "remove member"
  BY DEF ListMembers, CheckNewMember, OnAlreadyMember, OnBulkAdd
<1>3. PICK p \in {"added", "raised", "handler", "insert", "delete"} :
         /\ Reads(c, Goto(j, p))
         /\ p = "handler" => j.kind = "add member"
         /\ p = "insert" => j.kind # "remove member"
         /\ p = "delete" => j.kind = "remove member"
  BY <1>2
<1>4. CASE p \in Replies
  BY <1>1, <1>3, <1>4, ReplyKeeps
<1>5. CASE p \notin Replies
  BY <1>1, <1>3, <1>5, GoOnKeeps DEF Replies
<1> QED
  BY <1>4, <1>5

\* A member that is added or removed, which the log is told next.
LEMMA ChangeKeeps ==
  ASSUME Inv, NEW c \in Calls, NEW did \in {"Added", "Removed"},
         NEW ms \in [Groups -> SUBSET Users], job[c].pc \in {"insert", "delete"},
         job[c].pc = "insert" => job[c].user \in ms[job[c].group],
         Step(c, [job[c] EXCEPT !.pc = "log", !.did = did], users, requests, ms),
         log' = log
  PROVE  Inv'
<1> DEFINE j  == job[c]
           k1 == [j EXCEPT !.pc = "log"]
           k  == [j EXCEPT !.pc = "log", !.did = did]
<1>1. /\ j \in Jobs /\ Ready(j) /\ j.did = "nothing" /\ j.kind \in Grouping
      /\ j.copy = None /\ j.found = {} /\ (j.pc = "delete" => j.kind = "remove member")
  BY OfCall DEF Replies, Ready
<1>2. "log" \in Pcs /\ did \in Deeds
  BY DEF Pcs, Deeds
<1>3. k \in Jobs
  <2>1. k1 \in Jobs
    BY <1>1, <1>2, SetFields
  <2>2. [k1 EXCEPT !.did = did] \in Jobs
    <3> HIDE DEF k1
    <3> QED
      BY <1>2, <2>1, SetFields
  <2> QED
    BY <2>2, Zenon
<1>4. /\ k.pc = "log" /\ k.kind = j.kind /\ k.user = j.user /\ k.group = j.group
      /\ k.actor = j.actor /\ k.copy = None /\ k.found = {} /\ k.did = did
  BY <1>1 DEF Jobs
<1>5. Step(c, k, users, requests, ms)
  OBVIOUS
<1> HIDE DEF k
<1>6. Ready(k)
  BY <1>1, <1>4 DEF Ready, Asking, Grouping, Managing
<1>7. Holds(k, requests) /\ Knows(k, users, requests, ms)
  BY <1>1, <1>4 DEF Holds, Knows
<1>8. Allows(k, users, requests, ms)
  BY <1>3, <1>6, <1>7 DEF Allows, Inv, TypeOK, ListedRequestsExist, IsOf
<1> QED
  BY <1>1, <1>4, <1>5, <1>8, StepKeepsLog

LEMMA InsertMemberKeeps ==
  ASSUME Inv, NEW c \in Calls, InsertMember(c)
  PROVE  Inv'
<1> DEFINE j  == job[c]
           ms == [members EXCEPT ![j.group] = @ \cup {j.user}]
<1>1. /\ j.did = "nothing" /\ j.pc = "insert" /\ j.user \in Users /\ j.group \in Groups
  BY OfCall DEF InsertMember, Replies, Ready
<1>2. CASE j.user \in members[j.group]
  <2>1. PICK p \in {"added", "raised"} : Reads(c, Goto(j, p))
    BY <1>2 DEF InsertMember, OnHttpError
  <2> QED
    BY <1>1, <2>1, ReplyKeeps DEF Replies
<1>3. CASE j.user \notin members[j.group]
  <2>1. Step(c, [j EXCEPT !.pc = "log", !.did = "Added"], users, requests, ms)
        /\ log' = log
    BY <1>3 DEF InsertMember, AfterInsert
  <2>2. ms \in [Groups -> SUBSET Users] /\ j.user \in ms[j.group]
    BY <1>1 DEF Inv, TypeOK
  <2> QED
    BY <1>1, <2>1, <2>2, ChangeKeeps
<1> QED
  BY <1>2, <1>3

LEMMA DeleteMemberKeeps ==
  ASSUME Inv, NEW c \in Calls, DeleteMember(c)
  PROVE  Inv'
<1> DEFINE j  == job[c]
           ms == [members EXCEPT ![j.group] = @ \ {j.user}]
<1>1. /\ j.did = "nothing" /\ j.pc = "delete" /\ j.user \in Users /\ j.group \in Groups
  BY OfCall DEF DeleteMember, Replies, Ready
<1>2. CASE j.user \notin members[j.group]
  BY <1>1, <1>2, ReplyKeeps DEF DeleteMember, Replies
<1>3. CASE j.user \in members[j.group]
  <2>1. Step(c, [j EXCEPT !.pc = "log", !.did = "Removed"], users, requests, ms)
        /\ log' = log
    BY <1>3 DEF DeleteMember
  <2>2. ms \in [Groups -> SUBSET Users]
    BY <1>1 DEF Inv, TypeOK
  <2> QED
    BY <1>1, <2>1, <2>2, ChangeKeeps
<1> QED
  BY <1>2, <1>3

\* The entry is of this call, which keeps what the entry says.
LEMMA WriteLogKeeps ==
  ASSUME Inv, NEW c \in Calls, WriteLog(c)
  PROVE  Inv'
<1> DEFINE j == job[c]
           p == IF j.kind = "add member" THEN "added" ELSE "ok"
           k == Goto(j, p)
<1>1. /\ j \in Jobs /\ Ready(j) /\ Holds(j, requests) /\ j.pc = "log"
      /\ j.user \in Users /\ j.group \in Groups /\ j.did \in {"Added", "Removed"}
  BY OfCall, JobFields DEF WriteLog, Ready, Deeds
<1>2. p \in Replies
  BY DEF Replies
<1>3. Step(c, k, users, requests, members) /\ log' = log \cup {Entry(c)}
  BY DEF WriteLog
<1> HIDE DEF p
<1>4. /\ k \in Jobs /\ Ready(k) /\ Holds(k, requests) /\ ~Busy(k) /\ k.pc = p
      /\ k.did = j.did /\ k.user = j.user /\ k.group = j.group
  BY <1>1, <1>2, ReplyFits
<1> HIDE DEF k
<1>5. Entry(c) = [call |-> c, group |-> j.group, user |-> j.user, action |-> j.did]
  BY DEF Entry
<1>6. log' \subseteq [call : Calls, group : Groups, user : Users,
                     action : {"Added", "Removed"}]
  BY <1>1, <1>3, <1>5 DEF Inv, TypeOK
<1>7. Allows(k, users, requests, members)
  BY <1>4 DEF Allows, Inv, TypeOK, ListedRequestsExist, IsOf
<1>8. TypeOK' /\ ListedRequestsExist' /\ JobsInv'
  BY <1>3, <1>6, <1>7, StepKeeps
<1>9. /\ job'[c] = Over(k) /\ Over(k).did = j.did /\ Over(k).user = j.user
      /\ Over(k).group = j.group
      /\ \A x \in Calls \ {c} : \/ job'[x] = job[x]
                                \/ job'[x] = [job[x] EXCEPT !.alone = FALSE]
  BY <1>3, <1>4, StepEffect, OverFits DEF Inv
<1>10. ASSUME NEW x \in Calls
       PROVE  /\ job'[x].user = job[x].user /\ job'[x].group = job[x].group
              /\ job'[x].did = job[x].did
              /\ x # c => /\ Busy(job'[x]) <=> Busy(job[x])
                          /\ job'[x].refused = job[x].refused
  <2>1. job[x] \in Jobs
    BY DEF Inv, TypeOK
  <2>2. CASE x = c
    BY <1>9, <2>2
  <2>3. CASE job'[x] = job[x]
    BY <2>3, Zenon
  <2>4. CASE job'[x] = [job[x] EXCEPT !.alone = FALSE]
    BY <2>1, <2>4, DisturbedTells, Zenon
  <2> QED
    BY <1>9, <2>2, <2>3, <2>4
<1>11. \A x \in Calls : [call |-> x, group |-> job'[x].group, user |-> job'[x].user,
                         action |-> job'[x].did] = Entry(x)
  BY <1>10 DEF Entry
<1>12. \A e \in log' : e.call \in Calls /\ e = Entry(e.call)
  BY <1>3, <1>5 DEF Inv, AuditLogIsTrue, TypeOK
<1>13. ASSUME NEW x \in Calls, job'[x].did # "nothing", ~Busy(job'[x]), ~job'[x].refused
       PROVE  Entry(x) \in log'
  <2>1. CASE x = c
    BY <1>3, <2>1
  <2>2. CASE x # c
    <3>1. ~job[x].refused
      BY <1>10, <1>13, <2>2, Zenon
    <3>2. job[x].did # "nothing" /\ ~Busy(job[x])
      BY <1>10, <1>13, <2>2
    <3> QED
      BY <1>3, <3>1, <3>2 DEF Inv, AuditLogIsTrue
  <2> QED
    BY <2>1, <2>2
<1>14. AuditLogIsTrue'
  BY <1>11, <1>12, <1>13 DEF AuditLogIsTrue, Entry
<1> QED
  BY <1>8, <1>14 DEF Inv

-----------------------------------------------------------------------------
(* Users, and calls that fail.                                             *)

LEMMA LookUpKeeps ==
  ASSUME Inv, NEW c \in Calls, LookUp(c)
  PROVE  Inv'
<1> DEFINE j == job[c]
<1>1. /\ j \in Jobs /\ Ready(j) /\ Holds(j, requests) /\ j.did = "nothing"
      /\ j.pc = "look up" /\ j.kind \in Managing /\ j.user \in Users
  BY OfCall DEF LookUp, Replies, Ready
<1>2. CASE \/ j.kind = "register" /\ ~MayRegister(j.user)
           \/ j.kind = "update" /\ users[j.user] = None
  <2>1. Reads(c, Goto(j, "raised"))
    BY <1>2 DEF LookUp
  <2> QED
    BY <1>1, <2>1, ReplyKeeps DEF Replies
<1>3. CASE ~ \/ j.kind = "register" /\ ~MayRegister(j.user)
             \/ j.kind = "update" /\ users[j.user] = None
  <2> DEFINE k1 == [j EXCEPT !.copy = users[j.user]]
             k  == [j EXCEPT !.copy = users[j.user], !.pc = "put"]
  <2>1. Reads(c, k)
    BY <1>3 DEF LookUp
  <2>2. users[j.user] \in Items \cup {None} /\ j.user \in People /\ "put" \in Pcs
    BY <1>1 DEF Inv, TypeOK, People, Pcs
  <2>3. k \in Jobs
    <3>1. k1 \in Jobs
      BY <1>1, <2>2, SetFields
    <3>2. [k1 EXCEPT !.pc = "put"] \in Jobs
      <4> HIDE DEF k1
      <4> QED
        BY <2>2, <3>1, SetFields
    <3> QED
      BY <3>2, Zenon
  <2>4. /\ k.pc = "put" /\ k.kind = j.kind /\ k.user = j.user /\ k.group = j.group
        /\ k.copy = users[j.user] /\ k.found = j.found /\ k.did = "nothing"
    BY <1>1 DEF Jobs
  <2> HIDE DEF k
  <2>5. Ready(k)
    BY <1>1, <1>3, <2>2, <2>4 DEF Ready, Asking, Grouping, Managing
  <2>6. Holds(k, requests)
    BY <1>1, <2>2, <2>4 DEF Holds, Inv, ListedRequestsExist, Listed, IsOf
  <2>7. Knows(k, users, requests, members)
    BY <1>1, <1>3, <2>4 DEF Knows, MayRegister
  <2> QED
    BY <1>1, <2>1, <2>3, <2>4, <2>5, <2>6, <2>7, ReadsKeep
<1> QED
  BY <1>2, <1>3

LEMMA WriteUserKeeps ==
  ASSUME Inv, NEW c \in Calls, WriteUser(c)
  PROVE  Inv'
<1> DEFINE j    == job[c]
           item == CASE j.kind = "update" -> Updated(j)
                     [] j.kind = "delete" -> None
                     [] OTHER             -> NewUser(j.password, j.groups)
           us   == [users EXCEPT ![j.user] = item]
           k    == Goto(j, "ok")
<1>1. /\ j \in Jobs /\ Ready(j) /\ Holds(j, requests) /\ j.did = "nothing"
      /\ j.pc = "put" /\ j.kind \in Managing /\ j.user \in Users
      /\ (j.kind = "update" => j.copy \in Items /\ j.copy # None)
      /\ j.password \in Passwords \cup {None} /\ j.groups \in SUBSET Groups
  BY OfCall, JobFields, NoneIsNoItem DEF WriteUser, Replies, Ready
<1>2. Step(c, k, us, requests, members) /\ log' = log
  BY DEF WriteUser
<1>3. \/ item = None
      \/ item \in Items /\ \A i \in item.requests : IsOf(requests, i, j.user)
  <2>1. CASE j.kind = "update"
    <3>1. Updated(j) \in Items /\ Updated(j).requests = j.copy.requests
      BY <1>1, <2>1 DEF Updated, Items
    <3> QED
      BY <1>1, <2>1, <3>1 DEF Holds
  <2>2. CASE j.kind = "delete"
    BY <2>2
  <2>3. CASE j.kind \notin {"update", "delete"}
    <3>1. NewUser(j.password, j.groups) \in Items
          /\ NewUser(j.password, j.groups).requests = {}
      BY <1>1 DEF NewUser, Items
    <3> QED
      BY <2>3, <3>1
  <2> QED
    BY <2>1, <2>2, <2>3
<1> HIDE DEF item
<1>4. k \in Jobs /\ Ready(k) /\ Holds(k, requests) /\ ~Busy(k) /\ k.did = "nothing"
  BY <1>1, ReplyFits DEF Replies
<1> HIDE DEF k
<1>5. us \in [People -> Items \cup {None}] /\ us[j.user] = item
      /\ \A x \in People \ {j.user} : us[x] = users[x]
  BY <1>1, <1>3 DEF Inv, TypeOK, People
<1> HIDE DEF us
<1>6. \A x \in People : \A i \in Listed(us, x) : IsOf(requests, i, x)
  <2> SUFFICES ASSUME NEW x \in People, NEW i \in Listed(us, x)
               PROVE  IsOf(requests, i, x)
    OBVIOUS
  <2>1. CASE x = j.user
    BY <1>3, <1>5, <2>1 DEF Listed
  <2>2. CASE x # j.user
    BY <1>5, <2>2 DEF Listed, Inv, ListedRequestsExist, IsOf
  <2> QED
    BY <2>1, <2>2
<1>7. Allows(k, us, requests, members)
  BY <1>4, <1>5, <1>6 DEF Allows, Inv, TypeOK, IsOf
<1> QED
  BY <1>1, <1>2, <1>4, <1>7, StepKeepsLog

LEMMA CheckFailsKeeps ==
  ASSUME Inv, NEW c \in Calls, CheckFails(c)
  PROVE  Inv'
<1>1. job[c].did = "nothing" /\ Reads(c, Goto(job[c], "raised"))
  BY OfCall DEF CheckFails, MemberBarred, GroupBarred, WeakPassword, Replies
<1> QED
  BY <1>1, ReplyKeeps DEF Replies

\* A call that is refused ends, or takes it for a member who is there already.
LEMMA RefusedKeeps ==
  ASSUME Inv, NEW c \in Calls, Refused(c)
  PROVE  Inv'
<1> DEFINE j  == job[c]
           k1 == [j EXCEPT !.refused = TRUE]
           k  == AfterRefusal(k1)
<1>1. j \in Jobs /\ Ready(j) /\ Holds(j, requests)
  BY OfCall
<1>2. k1 \in Jobs
  BY <1>1, SetFields
<1>3. /\ k1.pc = j.pc /\ k1.kind = j.kind /\ k1.user = j.user /\ k1.group = j.group
      /\ k1.actor = j.actor /\ k1.of = j.of /\ k1.copy = j.copy /\ k1.todo = j.todo
      /\ k1.found = j.found /\ k1.id = j.id /\ k1.did = j.did /\ k1.refused
  BY <1>1 DEF Jobs
<1> HIDE DEF k1
<1>4. Ready(k1) /\ Holds(k1, requests)
  BY <1>1, <1>3 DEF Ready, Holds
<1>5. PICK p \in {"added", "raised"} : k = Goto(k1, p)
  BY DEF AfterRefusal, OnHttpError
<1>6. /\ k \in Jobs /\ Ready(k) /\ Holds(k, requests) /\ ~Busy(k)
      /\ k.did = j.did /\ k.user = j.user /\ k.group = j.group
  BY <1>2, <1>3, <1>4, <1>5, ReplyFits DEF Replies
<1>7. k.refused
  BY <1>3, <1>5 DEF Goto
<1>8. /\ job' = [job EXCEPT ![c] = k] /\ refusals' = refusals + 1 /\ refusals < MaxRefusals
      /\ UNCHANGED <<users, requests, members, log>>
  BY DEF Refused, k1
<1> HIDE DEF k
<1>9. job'[c] = k /\ \A x \in Calls \ {c} : job'[x] = job[x]
  BY <1>8 DEF Inv, TypeOK
<1>10. TypeOK'
  BY <1>6, <1>8, GroupAccessConstants DEF Inv, TypeOK
<1>11. ListedRequestsExist'
  BY <1>8 DEF Inv, ListedRequestsExist, Listed
<1>12. JobsInv'
  BY <1>6, <1>8, <1>9 DEF Inv, JobsInv
<1>13. AuditLogIsTrue'
  <2>1. \A x \in Calls : [call |-> x, group |-> job'[x].group, user |-> job'[x].user,
                          action |-> job'[x].did] = Entry(x)
    BY <1>6, <1>9 DEF Entry
  <2>2. \A e \in log : e.call \in Calls /\ e = Entry(e.call)
    BY DEF Inv, AuditLogIsTrue, TypeOK
  <2>3. ASSUME NEW x \in Calls, job'[x].did # "nothing", ~Busy(job'[x]), ~job'[x].refused
        PROVE  Entry(x) \in log
    <3>1. x # c
      BY <1>7, <1>9, <2>3
    <3> QED
      BY <1>9, <2>3, <3>1 DEF Inv, AuditLogIsTrue
  <2>4. \A e \in log : e = [call |-> e.call, group |-> job'[e.call].group,
                           user |-> job'[e.call].user, action |-> job'[e.call].did]
    BY <2>1, <2>2
  <2>5. \A x \in Calls : job'[x].did # "nothing" /\ ~Busy(job'[x]) /\ ~job'[x].refused =>
           [call |-> x, group |-> job'[x].group, user |-> job'[x].user,
            action |-> job'[x].did] \in log
    BY <2>1, <2>3
  <2> QED
    BY <1>8, <2>4, <2>5 DEF AuditLogIsTrue, Entry
<1> QED
  BY <1>10, <1>11, <1>12, <1>13 DEF Inv

-----------------------------------------------------------------------------
(* What holds of every state.                                              *)

LEMMA InitInv == Init => Inv
<1> SUFFICES ASSUME Init PROVE Inv
  OBVIOUS
<1>1. requests \in [Ids -> Requests \cup {None}] /\ log = {} /\ refusals = 0
      /\ job = [c \in Calls |-> Idle]
  BY DEF Init
<1>2. PICK there \in SUBSET People, pw \in Passwords :
        users = [u \in People |->
                   IF u \notin there THEN None
                   ELSE [NewUser(pw, {}) EXCEPT !.requests =
                           {i \in Ids : requests[i] # None
                                        /\ requests[i].username = u}]]
  BY DEF Init
<1> DEFINE ids(u)  == {i \in Ids : requests[i] # None /\ requests[i].username = u}
           item(u) == [NewUser(pw, {}) EXCEPT !.requests = ids(u)]
<1>3. \A u \in People : item(u) \in Items /\ item(u).requests = ids(u)
  BY DEF NewUser, Items
<1>4. \A u \in People : users[u] = IF u \notin there THEN None ELSE item(u)
  BY <1>2
<1>5. users \in [People -> Items \cup {None}]
  BY <1>2, <1>3
<1> HIDE DEF item
<1>6. ListedRequestsExist
  BY <1>3, <1>4 DEF ListedRequestsExist, Listed
<1>7. members \in [Groups -> SUBSET Users]
  BY DEF Init
<1>8. TypeOK
  BY <1>1, <1>5, <1>7, IdleFits, GroupAccessConstants DEF TypeOK
<1>9. Idle.found = {} /\ Idle.copy = None /\ Idle.pc = "idle" /\ Idle.did = "nothing"
  BY DEF Idle
<1>10. JobsInv
  BY <1>1, <1>9, IdleFits DEF JobsInv, Holds
<1>11. AuditLogIsTrue
  BY <1>1, <1>9 DEF AuditLogIsTrue
<1> QED
  BY <1>6, <1>8, <1>10, <1>11 DEF Inv

LEMMA BeginsKeeps ==
  ASSUME Inv, NEW c \in Calls, Begins(c)
  PROVE  Inv'
<1>1. \A gs \in GroupLists : gs \in SUBSET Groups
  BY GroupAccessConstants
<1>2. ASSUME NEW actor \in Actors, NEW u \in Users, NEW g \in Groups,
             \/ StartAddRequest(c, actor, u, g)
             \/ \E s \in Statuses : StartChange(c, actor, u, g, s)
             \/ StartAddMember(c, actor, u, g)
      PROVE  Inv'
  BY <1>2, StartAddRequestKeeps, StartChangeKeeps, StartAddMemberKeeps
<1>3. ASSUME NEW u \in Users, NEW g \in Groups,
             StartAddMemberTask(c, u, g) \/ StartRemoveMember(c, u, g)
      PROVE  Inv'
  BY <1>3, StartAddMemberTaskKeeps, StartRemoveMemberKeeps
<1>4. ASSUME NEW kind \in {"create", "update", "delete"}, NEW u \in Users,
             NEW pw \in Passwords \cup {None}, NEW gs \in GroupLists \cup {{}},
             StartManage(c, kind, u, pw, gs)
      PROVE  Inv'
  BY <1>1, <1>4, StartManageKeeps
<1> QED
  BY <1>2, <1>3, <1>4, StartChangeByIdKeeps, StartRegisterKeeps DEF Begins

LEMMA NextKeeps == Inv /\ [Next]_vars => Inv'
<1> SUFFICES ASSUME Inv, [Next]_vars PROVE Inv'
  OBVIOUS
<1>1. CASE UNCHANGED vars
  BY <1>1 DEF vars, Inv, TypeOK, ListedRequestsExist, Listed, JobsInv, AuditLogIsTrue,
              Entry
<1>2. ASSUME NEW c \in Calls, Begins(c) \/ Continues(c) \/ CheckFails(c) \/ Refused(c)
      PROVE  Inv'
  <2>1. CASE Continues(c)
    BY <2>1, GetOrCreateUserKeeps, CreateMissingUserKeeps, ResolveKeeps, PutRequestKeeps,
       PutUserKeeps, ChooseRequestsKeeps, ChooseByIdKeeps, PutStatusKeeps,
       ListMembersKeeps, InsertMemberKeeps, DeleteMemberKeeps, WriteLogKeeps,
       LookUpKeeps, WriteUserKeeps DEF Continues
  <2> QED
    BY <1>2, <2>1, BeginsKeeps, CheckFailsKeeps, RefusedKeeps
<1> QED
  BY <1>1, <1>2 DEF Next

\* In every state all of this holds.
THEOREM Invariant == Spec => []Inv
<1> QED
  BY InitInv, NextKeeps, PTL DEF Spec

\* Items, entries and calls are as the code makes them.
THEOREM TypeCorrect == Spec => []TypeOK
<1>1. Inv => TypeOK
  BY DEF Inv
<1> QED
  BY <1>1, Invariant, PTL

\* A user's list names only requests that exist and are the user's, whatever
\* calls are in flight and whichever of them are refused (add_request,
\* add_request_id_to_user, update_user): no list makes resolve_request_ids raise.
THEOREM ListedRequestsExistAlways == Spec => []ListedRequestsExist
<1>1. Inv => ListedRequestsExist
  BY DEF Inv
<1> QED
  BY <1>1, Invariant, PTL

\* The audit log has an entry for each change in a Google group that a call
\* which was not refused has made, and no other (create_group_log_entry).
THEOREM AuditLogIsTrueAlways == Spec => []AuditLogIsTrue
<1>1. Inv => AuditLogIsTrue
  BY DEF Inv
<1> QED
  BY <1>1, Invariant, PTL

-----------------------------------------------------------------------------
(* What a step may do.                                                     *)

\* What a step of one call makes of that call and of the others.
LEMMA StepOwn ==
  ASSUME Inv, NEW c \in Calls, NEW j, NEW us, NEW rs, NEW ms, Step(c, j, us, rs, ms)
  PROVE  /\ job'[c] = IF Busy(j) THEN j ELSE Over(j)
         /\ job'[c].id \in {j.id, None} /\ job'[c].pc = j.pc
         /\ users' = us /\ requests' = rs /\ members' = ms
         /\ \A x \in Calls \ {c} : job'[x].pc = job[x].pc /\ job'[x].id = job[x].id
<1>1. job' = [x \in Calls |->
                 IF x = c THEN (IF Busy(j) THEN j ELSE Over(j))
                 ELSE IF Busy(job[x]) /\ <<us, rs, ms>> # store
                 THEN [job[x] EXCEPT !.alone = FALSE]
                 ELSE job[x]]
  BY DEF Step
<1>2. job'[c] = IF Busy(j) THEN j ELSE Over(j)
  BY <1>1
<1>3. Over(j).id = None /\ Over(j).pc = j.pc
  BY DEF Over, Idle
<1>4. ASSUME NEW x \in Calls \ {c}
      PROVE  job'[x].pc = job[x].pc /\ job'[x].id = job[x].id
  <2>1. job[x] \in Jobs
    BY DEF Inv, TypeOK
  <2>2. [job[x] EXCEPT !.alone = FALSE].pc = job[x].pc
        /\ [job[x] EXCEPT !.alone = FALSE].id = job[x].id
    BY <2>1 DEF Jobs
  <2>3. job'[x] = job[x] \/ job'[x] = [job[x] EXCEPT !.alone = FALSE]
    BY <1>1
  <2> QED
    BY <2>2, <2>3
<1> QED
  BY <1>2, <1>3, <1>4 DEF Step

\* A step that puts no item, makes no request and gives no good reply.
Quiet(c) == /\ users' = users /\ job'[c].id \in {job[c].id, None}
            /\ job'[c].pc \notin {"added", "requested", "ok"}
            /\ \A x \in Calls \ {c} : job'[x].pc = job[x].pc /\ job'[x].id = job[x].id

LEMMA QuietReads ==
  ASSUME Inv, NEW c \in Calls, NEW j, Reads(c, j), j.id \in {job[c].id, None},
         j.pc \notin {"added", "requested", "ok"}
  PROVE  Quiet(c)
<1>1. Step(c, j, users, requests, members)
  BY DEF Reads
<1> QED
  BY <1>1, StepOwn DEF Quiet

LEMMA QuietGoto ==
  ASSUME Inv, NEW c \in Calls, NEW p \in Pcs \ {"added", "requested", "ok"},
         Reads(c, Goto(job[c], p))
  PROVE  Quiet(c)
<1>1. job[c] \in Jobs
  BY OfCall
<1>2. Goto(job[c], p).pc = p /\ Goto(job[c], p).id = job[c].id
  BY <1>1, GotoFits
<1> QED
  BY <1>2, QuietReads

LEMMA QuietBegins ==
  ASSUME Inv, NEW c \in Calls, Begins(c)
  PROVE  Quiet(c)
<1>1. \A gs \in GroupLists : gs \in SUBSET Groups
  BY GroupAccessConstants
<1> DEFINE Fresh(j) == j.id = None /\ j.pc \in {"handler", "list", "resolve", "look up", "put"}
<1>2. ASSUME NEW j, Begin(c, j), Fresh(j)
      PROVE  Quiet(c)
  BY <1>2, QuietReads DEF Begin
<1>3. ASSUME NEW actor \in Actors, NEW u \in Users, NEW g \in Groups,
             StartAddRequest(c, actor, u, g)
      PROVE  Quiet(c)
  <2>1. Fresh([Idle EXCEPT !.kind = "add request", !.pc = "handler",
                          !.actor = actor, !.user = u, !.group = g])
    BY DEF Idle
  <2> QED
    BY <1>2, <1>3, <2>1 DEF StartAddRequest
<1>4. ASSUME NEW actor \in Actors, NEW u \in Users, NEW g \in Groups,
             NEW status \in Statuses, StartChange(c, actor, u, g, status)
      PROVE  Quiet(c)
  <2>1. Fresh([Idle EXCEPT !.kind = "change", !.pc = "handler", !.actor = actor,
                          !.user = u, !.group = g, !.status = status])
    BY DEF Idle
  <2> QED
    BY <1>2, <1>4, <2>1 DEF StartChange
<1>5. ASSUME NEW actor \in Actors, NEW u \in Users, NEW g \in Groups,
             StartAddMember(c, actor, u, g)
      PROVE  Quiet(c)
  <2>1. Fresh([Idle EXCEPT !.kind = "add member", !.actor = actor, !.user = u,
                          !.group = g, !.pc = "list"])
    BY DEF Idle
  <2> QED
    BY <1>2, <1>5, <2>1 DEF StartAddMember
<1>6. ASSUME NEW u \in Users, NEW g \in Groups, NEW kind,
             Begin(c, [Idle EXCEPT !.kind = kind, !.user = u, !.group = g, !.pc = "list"])
      PROVE  Quiet(c)
  <2>1. Fresh([Idle EXCEPT !.kind = kind, !.user = u, !.group = g, !.pc = "list"])
    BY DEF Idle
  <2> QED
    BY <1>2, <1>6, <2>1
<1>7. ASSUME NEW i \in Ids, NEW status \in Statuses, StartChangeById(c, i, status)
      PROVE  Quiet(c)
  <2>1. Fresh([Idle EXCEPT !.kind = "change by id", !.pc = "resolve",
                          !.todo = {i}, !.status = status])
    BY DEF Idle
  <2> QED
    BY <1>2, <1>7, <2>1 DEF StartChangeById
<1>8. ASSUME NEW u \in Users, NEW pw \in Passwords, StartRegister(c, u, pw)
      PROVE  Quiet(c)
  <2>1. Fresh([Idle EXCEPT !.kind = "register", !.pc = "look up", !.user = u,
                          !.password = pw])
    BY DEF Idle
  <2> QED
    BY <1>2, <1>8, <2>1 DEF StartRegister
<1>9. ASSUME NEW kind, NEW u, NEW pw, NEW gs, StartManage(c, kind, u, pw, gs)
      PROVE  Quiet(c)
  <2>1. Fresh([Idle EXCEPT !.kind = kind, !.user = u, !.password = pw, !.groups = gs,
                          !.pc = IF kind = "update" THEN "look up" ELSE "put"])
    BY DEF Idle
  <2> QED
    BY <1>2, <1>9, <2>1 DEF StartManage
<1> QED
  BY <1>3, <1>4, <1>5, <1>6, <1>7, <1>8, <1>9
     DEF Begins, StartAddMemberTask, StartRemoveMember

LEMMA QuietContinues ==
  ASSUME Inv, NEW c \in Calls,
         \/ GetOrCreateUser(c) \/ Resolve(c) \/ ChooseRequests(c) \/ ChooseById(c)
         \/ DeleteMember(c) \/ LookUp(c) \/ CheckFails(c)
  PROVE  Quiet(c)
<1> DEFINE j == job[c]
<1>0. j \in Jobs
  BY OfCall
<1>p. {"raised", "affected", "decide", "put status", "insert", "delete", "handler"}
        \subseteq Pcs \ {"added", "requested", "ok"}
  BY DEF Pcs, Replies
<1>1. CASE GetOrCreateUser(c)
  <2> DEFINE u == IF j.pc = "handler" THEN j.actor ELSE j.user
  <2>1. Reads(c, IF users[u] = None THEN [j EXCEPT !.pc = "create", !.of = u]
                 ELSE Affected(j, u, users[u]))
    BY <1>1 DEF GetOrCreateUser
  <2> HIDE DEF u
  <2>2. CASE users[u] = None
    <3>1. /\ [j EXCEPT !.pc = "create", !.of = u].id = j.id
          /\ [j EXCEPT !.pc = "create", !.of = u].pc = "create"
      BY <1>0 DEF Jobs
    <3> QED
      BY <2>1, <2>2, <3>1, QuietReads
  <2>3. CASE users[u] # None /\ u # j.user
    BY <1>p, <2>1, <2>3, QuietGoto DEF Affected
  <2>4. CASE users[u] # None /\ u = j.user
    <3> DEFINE k == Known(j, u, users[u])
    <3>1. Reads(c, k)
      BY <2>1, <2>4 DEF Affected
    <3>2. k.id = j.id /\ k.pc \in {"decide", "resolve"}
      BY <1>0 DEF Known, Jobs
    <3> QED
      BY <3>1, <3>2, QuietReads
  <2> QED
    BY <2>2, <2>3, <2>4
<1>2. CASE Resolve(c)
  <2> DEFINE j2(i) == [j EXCEPT !.todo = @ \ {i},
                         !.found = @ \cup {[id |-> i, item |-> requests[i]]}]
  <2>1. PICK i \in j.todo :
          Reads(c, IF requests[i] = None THEN Goto(j, "raised")
                   ELSE IF j2(i).todo = {} THEN Goto(j2(i), "decide") ELSE j2(i))
    BY <1>2 DEF Resolve
  <2>2. j2(i).id = j.id /\ j2(i).pc = j.pc /\ j.pc = "resolve"
    BY <1>0, <1>2 DEF Jobs, Resolve
  <2>3. Goto(j2(i), "decide").id = j.id /\ Goto(j2(i), "decide").pc = "decide"
    BY <1>0 DEF Goto, Jobs
  <2> HIDE DEF j2
  <2>4. CASE requests[i] = None
    BY <1>p, <2>1, <2>4, QuietGoto
  <2>5. CASE requests[i] # None
    BY <2>1, <2>2, <2>3, <2>5, QuietReads
  <2> QED
    BY <2>4, <2>5
<1>3. CASE ChooseRequests(c)
  <2> DEFINE chosen == {r \in j.found : r.item.group = j.group}
             k == [j EXCEPT !.pc = "put status", !.found = chosen]
  <2>1. Reads(c, IF chosen = {} THEN Goto(j, "raised") ELSE k)
    BY <1>3 DEF ChooseRequests
  <2>2. k.id = j.id /\ k.pc = "put status"
    BY <1>0 DEF Jobs
  <2> HIDE DEF chosen, k
  <2>3. CASE chosen = {}
    BY <1>p, <2>1, <2>3, QuietGoto
  <2>4. CASE chosen # {}
    BY <2>1, <2>2, <2>4, QuietReads
  <2> QED
    BY <2>3, <2>4
<1>4. CASE ChooseById(c)
  BY <1>p, <1>4, QuietGoto DEF ChooseById
<1>5. CASE DeleteMember(c)
  <2> DEFINE k  == [j EXCEPT !.pc = "log", !.did = "Removed"]
             ms == [members EXCEPT ![j.group] = @ \ {j.user}]
  <2>1. CASE j.user \notin members[j.group]
    BY <1>p, <1>5, <2>1, QuietGoto DEF DeleteMember
  <2>2. CASE j.user \in members[j.group]
    <3>1. Step(c, k, users, requests, ms)
      BY <1>5, <2>2 DEF DeleteMember
    <3>2. k.id = j.id /\ k.pc = "log"
      BY <1>0 DEF Jobs
    <3> QED
      BY <3>1, <3>2, StepOwn DEF Quiet
  <2> QED
    BY <2>1, <2>2
<1>6. CASE LookUp(c)
  <2> DEFINE k == [j EXCEPT !.copy = users[j.user], !.pc = "put"]
  <2>1. Reads(c, Goto(j, "raised")) \/ Reads(c, k)
    BY <1>6 DEF LookUp
  <2>2. k.id = j.id /\ k.pc = "put"
    BY <1>0 DEF Jobs
  <2> HIDE DEF k
  <2> QED
    BY <1>p, <2>1, <2>2, QuietGoto, QuietReads
<1>7. CASE CheckFails(c)
  BY <1>p, <1>7, QuietGoto DEF CheckFails
<1> QED
  BY <1>1, <1>2, <1>3, <1>4, <1>5, <1>6, <1>7

\* A call that replies keeps no id.
LEMMA StepGoto ==
  ASSUME Inv, NEW c \in Calls, NEW p \in Pcs, NEW us, NEW rs, NEW ms,
         Step(c, Goto(job[c], p), us, rs, ms)
  PROVE  /\ job'[c].id \in {job[c].id, None} /\ job'[c].pc = p
         /\ users' = us /\ requests' = rs /\ members' = ms
         /\ \A x \in Calls \ {c} : job'[x].pc = job[x].pc /\ job'[x].id = job[x].id
<1>1. job[c] \in Jobs
  BY OfCall
<1>2. Goto(job[c], p).pc = p /\ Goto(job[c], p).id = job[c].id
  BY <1>1, GotoFits
<1> QED
  BY <1>2, StepOwn

\* A call that has written one of the requests it found keeps its id.
LEMMA StepOnRow ==
  ASSUME Inv, NEW c \in Calls, NEW f, NEW p, NEW us, NEW rs, NEW ms,
         Step(c, [job[c] EXCEPT !.found = f, !.pc = p], us, rs, ms)
  PROVE  /\ job'[c].id \in {job[c].id, None}
         /\ \A x \in Calls \ {c} : job'[x].pc = job[x].pc /\ job'[x].id = job[x].id
<1> DEFINE k == [job[c] EXCEPT !.found = f, !.pc = p]
<1>1. k.id = job[c].id
  BY OfCall, RowKeepsId
<1>2. Step(c, k, us, rs, ms)
  OBVIOUS
<1> HIDE DEF k
<1> QED
  BY <1>1, <1>2, StepOwn

\* The id of a call's new request is given by PutRequest alone.
LEMMA IdKept ==
  ASSUME Inv, NEW c \in Calls, Continues(c) \/ Refused(c), ~PutRequest(c)
  PROVE  /\ job'[c].id \in {job[c].id, None}
         /\ \A x \in Calls \ {c} : job'[x].pc = job[x].pc /\ job'[x].id = job[x].id
<1> DEFINE j == job[c]
           Same == /\ job'[c].id \in {job[c].id, None}
                   /\ \A x \in Calls \ {c} : job'[x].pc = job[x].pc /\ job'[x].id = job[x].id
<1>0. j \in Jobs
  BY OfCall
<1>p. {"added", "raised", "handler", "insert", "delete", "requested", "ok"} \subseteq Pcs
  BY DEF Pcs, Replies
<1>1. CASE CreateMissingUser(c)
  <2> DEFINE item == NewUser(None, {})
             k    == Affected(j, j.of, item)
             us   == [users EXCEPT ![j.of] = item]
  <2>1. Step(c, k, us, requests, members)
    BY <1>1 DEF CreateMissingUser
  <2>2. k.id = j.id
    BY <1>0 DEF Affected, Known, Goto, Jobs
  <2> QED
    BY <2>1, <2>2, StepOwn
<1>2. CASE PutUser(c)
  <2> DEFINE p  == IF j.kind = "add member" THEN "requested" ELSE "ok"
             us == [users EXCEPT ![j.of] = WithId(j.copy, j.id)]
  <2>1. Step(c, Goto(j, p), us, requests, members)
    BY <1>2 DEF PutUser
  <2> QED
    BY <1>p, <2>1, StepGoto
<1>3. CASE PutStatus(c)
  <2>1. PICK r \in j.found :
          Step(c, [j EXCEPT !.found = Rest(j.found, r),
                           !.pc = IF Rest(j.found, r) = {} THEN "ok" ELSE @],
               users, [requests EXCEPT ![r.id] = [r.item EXCEPT !.status = j.status]],
               members)
    BY <1>3 DEF PutStatus
  <2> QED
    BY <2>1, StepOnRow
<1>4. CASE ListMembers(c)
  <2>1. PICK p \in {"added", "raised", "handler", "insert", "delete"} :
          Reads(c, Goto(j, p))
    BY <1>4 DEF ListMembers, CheckNewMember, OnAlreadyMember, OnBulkAdd
  <2> QED
    BY <1>p, <2>1, StepGoto DEF Reads
<1>5. CASE InsertMember(c)
  <2>1. CASE j.user \in members[j.group]
    <3>1. PICK p \in {"added", "raised"} : Reads(c, Goto(j, p))
      BY <1>5, <2>1 DEF InsertMember, OnHttpError
    <3> QED
      BY <1>p, <3>1, StepGoto DEF Reads
  <2>2. CASE j.user \notin members[j.group]
    <3> DEFINE k  == AfterInsert(j)
               ms == [members EXCEPT ![j.group] = @ \cup {j.user}]
    <3>1. Step(c, k, users, requests, ms)
      BY <1>5, <2>2 DEF InsertMember
    <3>2. k.id = j.id
      BY <1>0 DEF AfterInsert, Jobs
    <3> QED
      BY <3>1, <3>2, StepOwn
  <2> QED
    BY <2>1, <2>2
<1>6. CASE WriteLog(c)
  <2> DEFINE p == IF j.kind = "add member" THEN "added" ELSE "ok"
  <2>1. Step(c, Goto(j, p), users, requests, members)
    BY <1>6 DEF WriteLog
  <2> QED
    BY <1>p, <2>1, StepGoto
<1>7. CASE WriteUser(c)
  <2>1. \E us : Step(c, Goto(j, "ok"), us, requests, members)
    BY <1>7 DEF WriteUser
  <2> QED
    BY <1>p, <2>1, StepGoto
<1>8. CASE Refused(c)
  <2> DEFINE k1 == [j EXCEPT !.refused = TRUE]
             k  == AfterRefusal(k1)
  <2>1. k1.id = j.id
    BY <1>0 DEF Jobs
  <2>2. k1 \in Jobs
    BY <1>0, SetFields
  <2>3. job' = [job EXCEPT ![c] = k]
    BY <1>8 DEF Refused
  <2> HIDE DEF k1
  <2>4. PICK p \in {"added", "raised"} : k = Goto(k1, p)
    BY DEF AfterRefusal, OnHttpError
  <2>5. k.id = j.id
    <3>1. p \in Pcs
      BY <1>p
    <3>2. Goto(k1, p).id = k1.id
      BY <2>2, <3>1, GotoFits
    <3> QED
      BY <2>1, <2>4, <3>2
  <2> HIDE DEF k
  <2>6. job'[c] = k /\ \A x \in Calls \ {c} : job'[x] = job[x]
    BY <2>3 DEF Inv, TypeOK
  <2> QED
    BY <2>5, <2>6
<1>9. CASE \/ GetOrCreateUser(c) \/ Resolve(c) \/ ChooseRequests(c) \/ ChooseById(c)
           \/ DeleteMember(c) \/ LookUp(c)
  BY <1>9, QuietContinues DEF Quiet
<1> HIDE DEF Same
<1> QED
  BY <1>1, <1>2, <1>3, <1>4, <1>5, <1>6, <1>7, <1>8, <1>9 DEF Continues, Same

\* A request is put when the list has none that is pending for the group.
LEMMA PutRequestIsTheOnly ==
  ASSUME Inv, NEW c \in Calls, PutRequest(c), job[c].alone,
         NEW i \in Ids, job'[c].id = i, job[c].id # i
  PROVE  /\ ~\E k \in Listed(users, job[c].user) :
                /\ requests[k].group = job[c].group
                /\ requests[k].status = "pending"
<1> DEFINE j == job[c]
<1>1. /\ j \in Jobs /\ j.todo = {} /\ j.kind \in Asking /\ j.pc = "decide"
      /\ j.copy \in Items /\ j.copy # None
      /\ Knows(j, users, requests, members)
  BY OfCall, NoneIsNoItem DEF PutRequest, Busy, Replies, Ready, Asking
<1>2. Pending(j) = {}
  <2>1. SUFFICES ASSUME Pending(j) # {} PROVE FALSE
    OBVIOUS
  <2>2. Reads(c, Goto(j, "raised"))
    BY <2>1 DEF PutRequest
  <2>3. Quiet(c)
    BY <2>2, QuietGoto DEF Pcs, Replies
  <2>4. job'[c].id \in {j.id, None} /\ i # None
    BY <2>3, NoneIsNoItem DEF Quiet
  <2> QED
    BY <2>4
<1>3. ASSUME NEW k \in Listed(users, j.user), requests[k].group = j.group,
             requests[k].status = "pending"
      PROVE  FALSE
  <2>1. k \in j.copy.requests
    BY <1>1, <1>3 DEF Knows, Listed
  <2>2. [id |-> k, item |-> requests[k]] \in j.found
    BY <1>1, <2>1 DEF Knows
  <2>3. [id |-> k, item |-> requests[k]] \in Pending(j)
    BY <1>3, <2>2 DEF Pending
  <2> QED
    BY <1>2, <2>3
<1> QED
  BY <1>3

\* A call that nothing disturbs makes no second request for a group while the
\* user's list has a pending one (add_request), and the others that are in
\* flight at the same step make none either.
THEOREM NoSecondRequestEver == Spec => NoSecondRequest
<1>1. ASSUME Inv, [Next]_vars, NEW x \in Calls, job[x].alone, NEW i \in Ids,
             job'[x].id = i, job[x].id # i
      PROVE  ~\E k \in Listed(users, job[x].user) :
                /\ requests[k].group = job[x].group
                /\ requests[k].status = "pending"
  <2>1. i # None
    BY NoneIsNoItem
  <2>2. ~UNCHANGED vars
    BY <1>1 DEF vars
  <2>3. PICK c \in Calls : Begins(c) \/ Continues(c) \/ CheckFails(c) \/ Refused(c)
    BY <1>1, <2>2 DEF Next
  <2>4. CASE PutRequest(c) /\ x = c
    BY <1>1, <2>4, PutRequestIsTheOnly
  <2>5. CASE PutRequest(c) /\ x # c
    <3>1. \E j, rs : Step(c, j, users, rs, members)
      BY <2>5 DEF PutRequest, Reads
    <3> QED
      BY <1>1, <2>5, <3>1, StepOwn
  <2>6. CASE ~PutRequest(c)
    <3>1. job'[x].id \in {job[x].id, None}
      BY <1>1, <2>3, <2>6, IdKept, QuietBegins, QuietContinues DEF Quiet
    <3> QED
      BY <1>1, <2>1, <3>1
  <2> QED
    BY <2>4, <2>5, <2>6
<1>2. Inv /\ [Next]_vars =>
        [\A c \in Calls : job[c].alone =>
           \A i \in Ids : job'[c].id = i /\ job[c].id # i =>
              ~\E k \in Listed(users, job[c].user) :
                  /\ requests[k].group = job[c].group
                  /\ requests[k].status = "pending"]_vars
  BY <1>1
<1> QED
  BY <1>2, Invariant, PTL DEF Spec, NoSecondRequest

-----------------------------------------------------------------------------
(* What a call that nothing disturbs keeps, and what its replies mean.     *)

\* A refused call only ends: nothing is put.
LEMMA RefusedPc ==
  ASSUME Inv, NEW c \in Calls, Refused(c)
  PROVE  /\ users' = users /\ job'[c].pc \in {"added", "raised"} /\ job'[c].refused
         /\ \A x \in Calls \ {c} : job'[x] = job[x]
<1> DEFINE k1 == [job[c] EXCEPT !.refused = TRUE]
           k  == AfterRefusal(k1)
<1>1. job' = [job EXCEPT ![c] = k] /\ users' = users
  BY DEF Refused
<1>2. k1.refused
  BY OfCall DEF Jobs
<1> HIDE DEF k1
<1>3. PICK p \in {"added", "raised"} : k = Goto(k1, p)
  BY DEF AfterRefusal, OnHttpError
<1>4. k.refused
  BY <1>2, <1>3 DEF Goto
<1>5. k1 \in Jobs /\ p \in Pcs
  BY OfCall, SetFields DEF k1, Pcs, Replies
<1>6. k.pc = p
  BY <1>3, <1>5, GotoFits
<1> HIDE DEF k
<1> QED
  BY <1>1, <1>4, <1>6 DEF Inv, TypeOK

\* Only three steps put a user's item.
LEMMA Putters ==
  ASSUME Inv, NEW c \in Calls, users' # users,
         Begins(c) \/ Continues(c) \/ CheckFails(c) \/ Refused(c)
  PROVE  CreateMissingUser(c) \/ PutUser(c) \/ WriteUser(c)
<1>1. ~Quiet(c) /\ ~Refused(c)
  BY RefusedPc DEF Quiet
<1>2. PutRequest(c) \/ PutStatus(c) \/ ListMembers(c) \/ InsertMember(c) \/ WriteLog(c)
        => users' = users
  BY DEF PutRequest, PutStatus, ListMembers, InsertMember, WriteLog, Reads, Step
<1> QED
  BY <1>1, <1>2, QuietBegins, QuietContinues DEF Continues

\* What one of them makes of an item that is there.
LEMMA PuttersKeep ==
  ASSUME Inv, NEW c \in Calls, job[c].alone, job[c].kind \notin {"create", "delete"},
         NEW u \in People, users[u] # None, users'[u] # users[u],
         CreateMissingUser(c) \/ PutUser(c) \/ WriteUser(c)
  PROVE  /\ users'[u] # None /\ users[u].requests \subseteq users'[u].requests
         /\ job[c].kind # "update" =>
              /\ users'[u].password = users[u].password
              /\ users'[u].groups = users[u].groups
<1> DEFINE j == job[c]
<1>1. j \in Jobs /\ Ready(j) /\ (Busy(j) => Knows(j, users, requests, members))
  BY OfCall
<1>2. CASE CreateMissingUser(c)
  <2>1. j.pc = "create" /\ Busy(j) /\ users' = [users EXCEPT ![j.of] = NewUser(None, {})]
    BY <1>2 DEF CreateMissingUser, Step, Busy, Replies
  <2>2. users[j.of] = None
    BY <1>1, <2>1 DEF Knows
  <2> QED
    BY <2>1, <2>2 DEF Inv, TypeOK
<1>3. CASE PutUser(c)
  <2>1. /\ j.pc = "put user" /\ Busy(j)
        /\ users' = [users EXCEPT ![j.of] = WithId(j.copy, j.id)]
    BY <1>3 DEF PutUser, Step, Busy, Replies
  <2>2. j.kind \in Asking /\ j.of = j.user /\ j.copy \in Items /\ j.id \in Ids
    BY <1>1, <2>1 DEF Ready, Asking
  <2>3. users[j.of] = j.copy
    BY <1>1, <2>1, <2>2 DEF Knows
  <2>4. u = j.of /\ users'[u] = WithId(j.copy, j.id)
    BY <2>1 DEF Inv, TypeOK
  <2>5. WithId(j.copy, j.id) \in Items
    BY <2>2 DEF WithId, Items
  <2>6. /\ WithId(j.copy, j.id).requests = j.copy.requests \cup {j.id}
        /\ WithId(j.copy, j.id).password = j.copy.password
        /\ WithId(j.copy, j.id).groups = j.copy.groups
    BY <2>2 DEF WithId, Items
  <2> QED
    BY <2>3, <2>4, <2>5, <2>6, NoneIsNoItem
<1>4. CASE WriteUser(c)
  <2>1. /\ j.pc = "put" /\ Busy(j) /\ j.kind \in {"register", "update"}
        /\ (j.kind = "update" => users' = [users EXCEPT ![j.user] = Updated(j)])
        /\ \E item : users' = [users EXCEPT ![j.user] = item]
    BY <1>1, <1>4 DEF WriteUser, Step, Busy, Replies, Ready, Managing
  <2>2. u = j.user
    BY <2>1 DEF Inv, TypeOK
  <2>3. j.kind = "update" /\ users[u] = j.copy /\ j.copy \in Items
    BY <1>1, <2>1, <2>2 DEF Knows, Ready
  <2>4. users'[u] = Updated(j)
    BY <2>1, <2>2, <2>3 DEF Inv, TypeOK
  <2>5. Updated(j) \in Items /\ Updated(j).requests = j.copy.requests
    BY <1>1, <2>3, JobFields DEF Updated, Items
  <2> QED
    BY <2>3, <2>4, <2>5, NoneIsNoItem
<1> QED
  BY <1>2, <1>3, <1>4

\* A call that nothing disturbs loses no request of a user's list, and changes
\* the password and groups only if that is what it is for (add_request_id_to_user,
\* update_user, get_or_create_user, the registration).
THEOREM AloneNothingIsLostEver == Spec => AloneNothingIsLost
<1>1. ASSUME Inv, [Next]_vars, NEW x \in Calls, NEW u \in People,
             job[x].pc # job'[x].pc, Busy(job[x]), job[x].alone,
             job[x].kind \notin {"create", "delete"}, users[u] # None, users[u] # users'[u]
      PROVE  /\ users'[u] # None /\ users[u].requests \subseteq users'[u].requests
             /\ job[x].kind # "update" =>
                  /\ users'[u].password = users[u].password
                  /\ users'[u].groups = users[u].groups
  <2>1. PICK c \in Calls : Begins(c) \/ Continues(c) \/ CheckFails(c) \/ Refused(c)
    BY <1>1 DEF Next, vars
  <2>2. CreateMissingUser(c) \/ PutUser(c) \/ WriteUser(c)
    BY <1>1, <2>1, Putters
  <2>3. \E j, us, rs, ms : Step(c, j, us, rs, ms)
    BY <2>2 DEF CreateMissingUser, PutUser, WriteUser
  <2>4. x = c
    BY <1>1, <2>3, StepOwn
  <2> QED
    BY <1>1, <2>2, <2>4, PuttersKeep
<1>2. Inv /\ [Next]_vars =>
        [\A c \in Calls, u \in People :
           LET before == users[u]
               after == users'[u] IN
           /\ job[c].pc # job'[c].pc /\ Busy(job[c]) /\ job[c].alone
           /\ job[c].kind \notin {"create", "delete"}
           /\ before # None /\ before # after
           => /\ after # None
              /\ before.requests \subseteq after.requests
              /\ job[c].kind # "update" =>
                   after.password = before.password /\ after.groups = before.groups]_vars
  BY <1>1
<1> QED
  BY <1>2, Invariant, PTL DEF Spec, AloneNothingIsLost

\* Of the steps that reply well, each has made true what it says.
LEMMA RepliesOfStep ==
  ASSUME Inv, NEW c \in Calls, Busy(job[c]), job[c].alone,
         Begins(c) \/ Continues(c) \/ CheckFails(c) \/ Refused(c)
  PROVE  /\ ~job'[c].refused /\ job'[c].pc = "added" =>
               job[c].user \in members'[job[c].group]
         /\ job'[c].pc = "requested" =>
               \E i \in Listed(users', job[c].user) :
                  requests'[i].group = job[c].group /\ requests'[i].status = "pending"
         /\ job[c].kind = "change" /\ job'[c].pc = "ok" =>
               \A i \in Listed(users', job[c].user) :
                  requests'[i].group = job[c].group => requests'[i].status = job[c].status
<1> DEFINE j == job[c]
<1>1. j \in Jobs /\ Ready(j) /\ Holds(j, requests) /\ Knows(j, users, requests, members)
  BY OfCall
<1>p. {"added", "raised", "handler", "insert", "delete", "requested", "ok"} \subseteq Pcs
  BY DEF Pcs, Replies
<1>2. CASE Quiet(c)
  BY <1>2 DEF Quiet
<1>3. CASE Refused(c)
  BY <1>3, RefusedPc
<1>4. CASE CreateMissingUser(c) \/ PutRequest(c)
  <2>1. \E k, us, rs : Step(c, k, us, rs, members)
                       /\ k.pc \in {"affected", "decide", "resolve", "raised", "put user"}
    <3>1. CASE CreateMissingUser(c)
      <4> DEFINE k == Affected(j, j.of, NewUser(None, {}))
      <4>1. k.pc \in {"affected", "decide", "resolve"}
        BY <1>1 DEF Affected, Known, Goto, Jobs
      <4> HIDE DEF k
      <4> QED
        BY <3>1, <4>1 DEF CreateMissingUser, k
    <3>2. CASE PutRequest(c) /\ Pending(j) # {}
      <4>1. Goto(j, "raised").pc = "raised"
        BY <1>1 DEF Goto, Jobs
      <4> QED
        BY <3>2, <4>1 DEF PutRequest, Reads
    <3>3. CASE PutRequest(c) /\ Pending(j) = {}
      <4>1. \A i : [j EXCEPT !.pc = "put user", !.id = i].pc = "put user"
        BY <1>1 DEF Jobs
      <4> QED
        BY <3>3, <4>1 DEF PutRequest
    <3> QED
      BY <1>4, <3>1, <3>2, <3>3
  <2> QED
    BY <2>1, StepOwn
<1>5. CASE PutUser(c)
  <2> DEFINE p  == IF j.kind = "add member" THEN "requested" ELSE "ok"
             us == [users EXCEPT ![j.of] = WithId(j.copy, j.id)]
  <2>1. /\ j.pc = "put user" /\ j.kind \in {"add request", "add member"} /\ j.of = j.user
        /\ j.copy \in Items /\ j.id \in Ids /\ j.user \in People
    BY <1>1, <1>5 DEF PutUser, Ready, Asking, People
  <2>2. Step(c, Goto(j, p), us, requests, members)
    BY <1>5 DEF PutUser
  <2>3. p \in Pcs /\ p \in {"requested", "ok"}
    BY <1>p
  <2> HIDE DEF p
  <2>4. job'[c].pc = p /\ users' = us /\ requests' = requests
    BY <2>2, <2>3, StepGoto
  <2>5. us[j.user] = WithId(j.copy, j.id)
    BY <2>1 DEF Inv, TypeOK
  <2>6. WithId(j.copy, j.id) \in Items /\ j.id \in WithId(j.copy, j.id).requests
    BY <2>1 DEF WithId, Items
  <2> HIDE DEF us
  <2>7. j.id \in Listed(users', j.user)
    BY <2>4, <2>5, <2>6, NoneIsNoItem DEF Listed
  <2>8. requests[j.id].group = j.group /\ requests[j.id].status = "pending"
    BY <1>1, <2>1 DEF Knows
  <2> QED
    BY <2>1, <2>3, <2>4, <2>7, <2>8
<1>6. CASE PutStatus(c)
  <2>1. PICK r \in j.found :
          Step(c, [j EXCEPT !.found = Rest(j.found, r),
                           !.pc = IF Rest(j.found, r) = {} THEN "ok" ELSE @],
               users, [requests EXCEPT ![r.id] = [r.item EXCEPT !.status = j.status]],
               members)
    BY <1>6 DEF PutStatus
  <2> DEFINE k  == [j EXCEPT !.found = Rest(j.found, r),
                            !.pc = IF Rest(j.found, r) = {} THEN "ok" ELSE @]
             new == [r.item EXCEPT !.status = j.status]
             rs  == [requests EXCEPT ![r.id] = new]
  <2>2. j.pc = "put status"
    BY <1>6 DEF PutStatus
  <2>3. k.pc = IF Rest(j.found, r) = {} THEN "ok" ELSE "put status"
    BY <1>1, <2>2 DEF Jobs
  <2>s. Step(c, k, users, rs, members)
    BY <2>1
  <2> HIDE DEF k, rs, new
  <2>4. job'[c].pc = k.pc /\ users' = users /\ requests' = rs
    BY <2>s, StepOwn
  <2>5. r.id \in Ids /\ r.item \in Requests
    BY <1>1, JobFields
  <2>6. new.status = j.status
    BY <2>5 DEF Requests, new
  <2>7. rs[r.id] = new /\ \A x \in Ids : x # r.id => rs[x] = requests[x]
    BY <2>5 DEF Inv, TypeOK, rs
  <2>8. ASSUME j.kind = "change", job'[c].pc = "ok", NEW i \in Listed(users, j.user)
        PROVE  rs[i].group = j.group => rs[i].status = j.status
    <3>1. j.found = {r}
      BY <2>3, <2>4, <2>8 DEF Rest
    <3>2. \/ requests[i].group = j.group => requests[i].status = j.status
          \/ i = r.id
      BY <1>1, <2>2, <2>8, <3>1 DEF Knows
    <3>3. i \in Ids
      BY <1>1, <2>8 DEF Ready, Asking, People, Listed, Inv, TypeOK, Items
    <3> QED
      BY <2>6, <2>7, <3>2, <3>3
  <2>9. job'[c].pc \in {"ok", "put status"}
    BY <2>3, <2>4
  <2> QED
    BY <2>4, <2>8, <2>9
<1>7. CASE ListMembers(c)
  <2>1. PICK p \in {"added", "raised", "handler", "insert", "delete"} :
          Reads(c, Goto(j, p)) /\ (p = "added" => j.user \in members[j.group])
    BY <1>7 DEF ListMembers, CheckNewMember, OnAlreadyMember, OnBulkAdd
  <2>2. p \in Pcs
    BY <1>p
  <2>3. job'[c].pc = p /\ members' = members
    BY <2>1, <2>2, StepGoto DEF Reads
  <2> QED
    BY <2>1, <2>3
<1>8. CASE InsertMember(c)
  <2>1. CASE j.user \in members[j.group]
    <3>1. PICK p \in {"added", "raised"} : Reads(c, Goto(j, p))
      BY <1>8, <2>1 DEF InsertMember, OnHttpError
    <3>2. p \in Pcs
      BY <1>p
    <3>3. job'[c].pc = p /\ members' = members
      BY <3>1, <3>2, StepGoto DEF Reads
    <3> QED
      BY <2>1, <3>1, <3>3
  <2>2. CASE j.user \notin members[j.group]
    <3> DEFINE k  == AfterInsert(j)
               ms == [members EXCEPT ![j.group] = @ \cup {j.user}]
    <3>1. Step(c, k, users, requests, ms)
      BY <1>8, <2>2 DEF InsertMember
    <3>2. k.pc = "log"
      BY <1>1 DEF AfterInsert, Jobs
    <3>3. job'[c].pc = "log"
      BY <3>1, <3>2, StepOwn
    <3> QED
      BY <3>3
  <2> QED
    BY <2>1, <2>2
<1>9. CASE WriteLog(c)
  <2> DEFINE p == IF j.kind = "add member" THEN "added" ELSE "ok"
  <2>1. Step(c, Goto(j, p), users, requests, members) /\ j.pc = "log"
    BY <1>9 DEF WriteLog
  <2>2. p \in Pcs
    BY <1>p
  <2>3. job'[c].pc = p /\ members' = members
    BY <2>1, <2>2, StepGoto
  <2>4. j.kind # "change"
    BY <1>1, <2>1 DEF Ready, Grouping
  <2>5. j.kind = "add member" => j.user \in members[j.group]
    BY <1>1, <2>1 DEF Knows
  <2> QED
    BY <2>3, <2>4, <2>5
<1>10. CASE WriteUser(c)
  <2>1. j.pc = "put" /\ \E us : Step(c, Goto(j, "ok"), us, requests, members)
    BY <1>10 DEF WriteUser
  <2>2. "ok" \in Pcs
    BY <1>p
  <2>3. job'[c].pc = "ok"
    BY <2>1, <2>2, StepGoto
  <2>4. j.kind # "change"
    BY <1>1, <2>1 DEF Ready, Managing
  <2> QED
    BY <2>3, <2>4
<1> HIDE DEF j
<1> QED
  BY <1>2, <1>3, <1>4, <1>5, <1>6, <1>7, <1>8, <1>9, <1>10, QuietBegins, QuietContinues
     DEF Continues, j

\* A reply that nothing disturbed is true: who is told to be added is a member,
\* who is told to have asked has a pending request, and a change of status has
\* reached every request of the user for the group (api_add_user_to_group_or_raise,
\* change_request_status).
THEOREM RepliesAreTrueAlways == Spec => RepliesAreTrue
<1>1. ASSUME Inv, [Next]_vars, NEW x \in Calls, Busy(job[x]), job[x].alone
      PROVE  /\ ~job'[x].refused /\ job'[x].pc = "added" =>
                   job[x].user \in members'[job[x].group]
             /\ job'[x].pc = "requested" =>
                   \E i \in Listed(users', job[x].user) :
                      requests'[i].group = job[x].group /\ requests'[i].status = "pending"
             /\ job[x].kind = "change" /\ job'[x].pc = "ok" =>
                   \A i \in Listed(users', job[x].user) :
                      requests'[i].group = job[x].group => requests'[i].status = job[x].status
  <2>1. job[x].pc \notin {"added", "requested", "ok"}
    BY <1>1 DEF Busy, Replies
  <2>2. CASE UNCHANGED vars
    BY <2>1, <2>2 DEF vars
  <2>3. ASSUME NEW c \in Calls, x # c,
               Begins(c) \/ Continues(c) \/ CheckFails(c) \/ Refused(c)
        PROVE  job'[x].pc = job[x].pc
    <3>1. CASE PutRequest(c)
      <4>1. \E j, rs : Step(c, j, users, rs, members)
        BY <3>1 DEF PutRequest, Reads
      <4> QED
        BY <1>1, <2>3, <4>1, StepOwn
    <3>2. CASE ~PutRequest(c)
      BY <1>1, <2>3, <3>2, IdKept, QuietBegins, QuietContinues DEF Quiet
    <3> QED
      BY <3>1, <3>2
  <2>4. CASE Next
    <3>1. PICK c \in Calls : Begins(c) \/ Continues(c) \/ CheckFails(c) \/ Refused(c)
      BY <2>4 DEF Next
    <3>2. CASE x = c
      BY <1>1, <3>1, <3>2, RepliesOfStep
    <3>3. CASE x # c
      BY <2>1, <2>3, <3>1, <3>3
    <3> QED
      BY <3>2, <3>3
  <2> QED
    BY <1>1, <2>2, <2>4
<1>2. Inv /\ [Next]_vars =>
        [\A c \in Calls :
           LET j == job[c] IN
           Busy(j) /\ j.alone =>
              /\ ~job'[c].refused /\ job'[c].pc = "added" => j.user \in members'[j.group]
              /\ ~job'[c].refused /\ job'[c].pc = "requested" =>
                   \E i \in Listed(users', j.user) :
                      /\ requests'[i].group = j.group
                      /\ requests'[i].status = "pending"
              /\ j.kind = "change" /\ job'[c].pc = "ok" =>
                   \A i \in Listed(users', j.user) :
                      requests'[i].group = j.group => requests'[i].status = j.status]_vars
  BY <1>1
<1> QED
  BY <1>2, Invariant, PTL DEF Spec, RepliesAreTrue
=============================================================================
