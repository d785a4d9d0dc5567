---------------------- MODULE PrincipalLifecycleProofs ----------------------
(***************************************************************************)
(* Proofs about PrincipalLifecycle, for any number of requests, of roles   *)
(* and users, and of the policies and keys they are made of.               *)
(***************************************************************************)
EXTENDS PrincipalLifecycle, TLAPS

Inv == TypeOK /\ RolesInv /\ OrphansInv /\ JobsInv

\* What the principals and the instance profiles are.
AllParts    == [Principals -> (SUBSET Parts) \cup {None}]
AllProfiles == [Roles -> {"none", "empty", "attached"}]

-----------------------------------------------------------------------------
(* Records of jobs.                                                        *)

\* The fields of a job.
LEMMA JobFields ==
  ASSUME NEW j \in Jobs
  PROVE  /\ j.kind \in Kinds /\ j.pc \in Pcs
         /\ j.on \in Principals \cup {None} /\ j.source \in Roles \cup {None}
         /\ j.todo \in SUBSET (Parts \cup Changes) /\ j.then \in Thens
         /\ j.hand \in Parts \cup {None} /\ j.errors \in BOOLEAN
         /\ j.had \in SUBSET Parts /\ j.put \in SUBSET Parts /\ j.alone \in BOOLEAN
BY DEF Jobs

\* A job that has not begun.
LEMMA IdleFits == Idle \in Jobs /\ Ready(Idle) /\ ~Busy(Idle) /\ Idle.pc = "idle"
BY DEF Idle, Jobs, Kinds, Pcs, Thens, Replies, Ready, Busy

\* A field that is given a value of its type.
LEMMA SetFields ==
  ASSUME NEW j \in Jobs
  PROVE  /\ \A v \in Kinds : [j EXCEPT !.kind = v] \in Jobs
         /\ \A v \in Pcs : [j EXCEPT !.pc = v] \in Jobs
         /\ \A v \in Principals \cup {None} : [j EXCEPT !.on = v] \in Jobs
         /\ \A v \in Roles \cup {None} : [j EXCEPT !.source = v] \in Jobs
         /\ \A v \in SUBSET {"profile", "inline", "managed"} :
              [j EXCEPT !.options = v] \in Jobs
         /\ \A v \in SUBSET (Parts \cup Changes) : [j EXCEPT !.todo = v] \in Jobs
         /\ \A v \in Thens : [j EXCEPT !.then = v] \in Jobs
         /\ \A v \in Parts \cup {None} : [j EXCEPT !.hand = v] \in Jobs
         /\ \A v \in BOOLEAN : [j EXCEPT !.errors = v] \in Jobs
         /\ \A v \in SUBSET Parts : [j EXCEPT !.had = v] \in Jobs
         /\ \A v \in SUBSET Parts : [j EXCEPT !.put = v] \in Jobs
         /\ \A v \in BOOLEAN : [j EXCEPT !.alone = v] \in Jobs
<1>1. \A v \in Kinds : [j EXCEPT !.kind = v] \in Jobs
  BY DEF Jobs
<1>2. \A v \in Pcs : [j EXCEPT !.pc = v] \in Jobs
  BY DEF Jobs
<1>3. \A v \in Principals \cup {None} : [j EXCEPT !.on = v] \in Jobs
  BY DEF Jobs
<1>4. \A v \in Roles \cup {None} : [j EXCEPT !.source = v] \in Jobs
  BY DEF Jobs
<1>5. \A v \in SUBSET {"profile", "inline", "managed"} : [j EXCEPT !.options = v] \in Jobs
  BY DEF Jobs
<1>6. \A v \in SUBSET (Parts \cup Changes) : [j EXCEPT !.todo = v] \in Jobs
  BY DEF Jobs
<1>7. \A v \in Thens : [j EXCEPT !.then = v] \in Jobs
  BY DEF Jobs
<1>8. \A v \in Parts \cup {None} : [j EXCEPT !.hand = v] \in Jobs
  BY DEF Jobs
<1>9. \A v \in BOOLEAN : [j EXCEPT !.errors = v] \in Jobs
  BY DEF Jobs
<1>10. \A v \in SUBSET Parts : [j EXCEPT !.had = v] \in Jobs
  BY DEF Jobs
<1>11. \A v \in SUBSET Parts : [j EXCEPT !.put = v] \in Jobs
  BY DEF Jobs
<1>12. \A v \in BOOLEAN : [j EXCEPT !.alone = v] \in Jobs
  BY DEF Jobs
<1> QED
  BY <1>1, <1>2, <1>3, <1>4, <1>5, <1>6, <1>7, <1>8, <1>9, <1>10, <1>11, <1>12

\* The fields that two jobs share, apart from the stage.
Alike(k, j) ==
    /\ k.kind = j.kind /\ k.on = j.on /\ k.source = j.source /\ k.options = j.options
    /\ k.had = j.had /\ k.alone = j.alone

\* A job that goes to another stage.
LEMMA GotoFits ==
  ASSUME NEW j \in Jobs, NEW pc \in Pcs
  PROVE  /\ Goto(j, pc) \in Jobs /\ Goto(j, pc).pc = pc /\ Alike(Goto(j, pc), j)
         /\ Goto(j, pc).todo = j.todo /\ Goto(j, pc).then = j.then
         /\ Goto(j, pc).hand = j.hand /\ Goto(j, pc).errors = j.errors
         /\ Goto(j, pc).put = j.put
<1>1. Goto(j, pc) \in Jobs
  BY SetFields DEF Goto
<1> QED
  BY <1>1 DEF Goto, Jobs, Alike

\* A job that notes an error.
LEMMA NotedFits ==
  ASSUME NEW j \in Jobs
  PROVE  LET k == [j EXCEPT !.errors = TRUE] IN
         /\ k \in Jobs /\ Alike(k, j) /\ k.errors
         /\ k.pc = j.pc /\ k.todo = j.todo /\ k.then = j.then /\ k.hand = j.hand
         /\ k.put = j.put
<1> DEFINE k == [j EXCEPT !.errors = TRUE]
<1>1. k \in Jobs
  BY SetFields
<1>2. /\ k.kind = j.kind /\ k.on = j.on /\ k.source = j.source /\ k.options = j.options
      /\ k.had = j.had /\ k.errors /\ k.pc = j.pc /\ k.todo = j.todo /\ k.then = j.then
      /\ k.hand = j.hand /\ k.put = j.put
  BY DEF Jobs
<1>3. k.alone = j.alone
  BY Zenon DEF Jobs
<1> QED
  BY <1>1, <1>2, <1>3 DEF Alike

\* A job that has listed what it copies, or takes away.
Listing(j, pc, then, todo) == [j EXCEPT !.pc = pc, !.then = then, !.todo = todo]

LEMMA ListingFits ==
  ASSUME NEW j \in Jobs, NEW pc \in Pcs, NEW then \in Thens, NEW todo \in SUBSET Parts
  PROVE  LET k == Listing(j, pc, then, todo) IN
         /\ k \in Jobs /\ Alike(k, j) /\ k.pc = pc /\ k.then = then /\ k.todo = todo
         /\ k.put = j.put /\ k.errors = j.errors
<1> DEFINE k1 == [j EXCEPT !.pc = pc]
           k2 == [k1 EXCEPT !.then = then]
           k  == [k2 EXCEPT !.todo = todo]
<1>1. k1 \in Jobs
  BY SetFields
<1>2. k1.pc = pc /\ k1.put = j.put /\ k1.errors = j.errors /\ Alike(k1, j)
  BY GotoFits DEF Goto
<1>3. Listing(j, pc, then, todo) = k
  BY DEF Listing
<1> HIDE DEF k1
<1>4. k2 \in Jobs
  BY <1>1, SetFields
<1>5. /\ k2.pc = k1.pc /\ k2.then = then /\ k2.put = k1.put /\ k2.kind = k1.kind
      /\ k2.on = k1.on /\ k2.source = k1.source /\ k2.options = k1.options
      /\ k2.had = k1.had
  BY <1>1 DEF Jobs
<1>6. k2.errors = k1.errors /\ k2.alone = k1.alone
  BY <1>1, Zenon DEF Jobs
<1> HIDE DEF k2
<1>7. k \in Jobs
  BY <1>4, SetFields
<1>8. /\ k.pc = k2.pc /\ k.then = k2.then /\ k.put = k2.put /\ k.kind = k2.kind
      /\ k.on = k2.on /\ k.source = k2.source /\ k.options = k2.options
      /\ k.had = k2.had /\ k.todo = todo
  BY <1>4 DEF Jobs
<1>9. k.errors = k2.errors /\ k.alone = k2.alone
  BY <1>4, Zenon DEF Jobs
<1> HIDE DEF k
<1>10. /\ k \in Jobs /\ Alike(k, j) /\ k.pc = pc /\ k.then = then /\ k.todo = todo
       /\ k.put = j.put /\ k.errors = j.errors
  BY <1>2, <1>5, <1>6, <1>7, <1>8, <1>9 DEF Alike
<1> QED
  BY <1>3, <1>10

\* A job of whose list one entry is done.
LEMMA RestFits ==
  ASSUME NEW j \in Jobs, NEW todo \in SUBSET (Parts \cup Changes)
  PROVE  LET k == [j EXCEPT !.todo = todo] IN
         /\ k \in Jobs /\ Alike(k, j) /\ k.pc = j.pc /\ k.then = j.then /\ k.todo = todo
         /\ k.put = j.put /\ k.errors = j.errors
<1> DEFINE k == [j EXCEPT !.todo = todo]
<1>1. k \in Jobs
  BY SetFields
<1>2. /\ k.kind = j.kind /\ k.on = j.on /\ k.source = j.source /\ k.options = j.options
      /\ k.had = j.had /\ k.pc = j.pc /\ k.then = j.then /\ k.todo = todo /\ k.put = j.put
  BY DEF Jobs
<1>3. k.errors = j.errors /\ k.alone = j.alone
  BY Zenon DEF Jobs
<1> HIDE DEF k
<1>4. /\ k \in Jobs /\ Alike(k, j) /\ k.pc = j.pc /\ k.then = j.then /\ k.todo = todo
      /\ k.put = j.put /\ k.errors = j.errors
  BY <1>1, <1>2, <1>3 DEF Alike
<1> QED
  BY <1>4 DEF k

\* A clone that has fetched a policy, and one that has given it to the new role.
LEMMA HandFits ==
  ASSUME NEW j \in Jobs, NEW p \in Parts
  PROVE  LET k == [j EXCEPT !.pc = "put", !.hand = p, !.todo = @ \ {p}] IN
         /\ k \in Jobs /\ Alike(k, j) /\ k.pc = "put" /\ k.then = j.then
         /\ k.todo = j.todo \ {p} /\ k.hand = p /\ k.put = j.put /\ k.errors = j.errors
<1> DEFINE k1 == [j EXCEPT !.pc = "put"]
           k2 == [k1 EXCEPT !.hand = p]
           k  == [k2 EXCEPT !.todo = j.todo \ {p}]
<1>1. /\ k1 \in Jobs /\ k1.pc = "put" /\ Alike(k1, j) /\ k1.then = j.then
      /\ k1.put = j.put /\ k1.errors = j.errors
  <2>1. "put" \in Pcs
    BY DEF Pcs
  <2> QED
    BY <2>1, GotoFits DEF Goto
<1>2. [j EXCEPT !.pc = "put", !.hand = p, !.todo = @ \ {p}] = k
  BY DEF Jobs
<1> HIDE DEF k1
<1>3. k2 \in Jobs
  BY <1>1, SetFields
<1>4. /\ k2.pc = k1.pc /\ k2.then = k1.then /\ k2.put = k1.put /\ k2.kind = k1.kind
      /\ k2.on = k1.on /\ k2.source = k1.source /\ k2.options = k1.options
      /\ k2.had = k1.had /\ k2.hand = p
  BY <1>1 DEF Jobs
<1>5. k2.errors = k1.errors /\ k2.alone = k1.alone
  BY <1>1, Zenon DEF Jobs
<1> HIDE DEF k2
<1>6. j.todo \ {p} \in SUBSET (Parts \cup Changes)
  BY JobFields
<1>7. /\ k \in Jobs /\ Alike(k, k2) /\ k.pc = k2.pc /\ k.then = k2.then
      /\ k.todo = j.todo \ {p} /\ k.put = k2.put /\ k.errors = k2.errors
  BY <1>3, <1>6, RestFits
<1>8. k.hand = k2.hand
  BY <1>3 DEF Jobs
<1> HIDE DEF k
<1>9. /\ k \in Jobs /\ Alike(k, j) /\ k.pc = "put" /\ k.then = j.then
      /\ k.todo = j.todo \ {p} /\ k.hand = p /\ k.put = j.put /\ k.errors = j.errors
  BY <1>1, <1>4, <1>5, <1>7, <1>8 DEF Alike
<1> QED
  BY <1>2, <1>9

LEMMA PutFits ==
  ASSUME NEW j \in Jobs, j.hand \in Parts
  PROVE  LET k == [j EXCEPT !.pc = "copy", !.put = @ \cup {j.hand}] IN
         /\ k \in Jobs /\ Alike(k, j) /\ k.pc = "copy" /\ k.then = j.then
         /\ k.todo = j.todo /\ k.put = j.put \cup {j.hand} /\ k.errors = j.errors
<1> DEFINE k1  == [j EXCEPT !.pc = "copy"]
           put == j.put \cup {j.hand}
           k   == [k1 EXCEPT !.put = put]
<1>1. /\ k1 \in Jobs /\ k1.pc = "copy" /\ Alike(k1, j) /\ k1.then = j.then
      /\ k1.todo = j.todo /\ k1.errors = j.errors
  <2>1. "copy" \in Pcs
    BY DEF Pcs
  <2> QED
    BY <2>1, GotoFits DEF Goto
<1>2. [j EXCEPT !.pc = "copy", !.put = @ \cup {j.hand}] = k
  BY DEF Jobs
<1>3. put \in SUBSET Parts
  BY JobFields
<1> HIDE DEF k1, put
<1>4. k \in Jobs
  BY <1>1, <1>3, SetFields
<1>5. /\ k.pc = k1.pc /\ k.then = k1.then /\ k.put = put /\ k.kind = k1.kind
      /\ k.on = k1.on /\ k.source = k1.source /\ k.options = k1.options
      /\ k.had = k1.had /\ k.todo = k1.todo
  BY <1>1 DEF Jobs
<1>6. k.errors = k1.errors /\ k.alone = k1.alone
  BY <1>1, Zenon DEF Jobs
<1> HIDE DEF k
<1>7. /\ k \in Jobs /\ Alike(k, j) /\ k.pc = "copy" /\ k.then = j.then
      /\ k.todo = j.todo /\ k.put = put /\ k.errors = j.errors
  BY <1>1, <1>4, <1>5, <1>6 DEF Alike
<1> QED
  BY <1>2, <1>7 DEF put

\* A reply, and a failure.
LEMMA RepliesFit ==
  ASSUME NEW j \in Jobs, Ready(j), Busy(j)
  PROVE  /\ Failed(j) \in Jobs /\ Ready(Failed(j)) /\ Alike(Failed(j), j)
         /\ Failed(j).pc = "failed" /\ Copies(Failed(j))
         /\ Reply(j) \in Jobs /\ Ready(Reply(j)) /\ Alike(Reply(j), j)
         /\ Reply(j).pc = IF j.errors THEN "errors" ELSE "clean"
         /\ Reply(j).put = j.put /\ Reply(j).errors = j.errors
         /\ ~Busy(Failed(j)) /\ ~Busy(Reply(j))
<1>1. "failed" \in Pcs /\ "errors" \in Pcs /\ "clean" \in Pcs
  BY DEF Pcs, Replies
<1>2. j.kind # "none" /\ j.pc # "idle"
  BY DEF Ready, Busy
<1> DEFINE f == Failed(j)
           r == Reply(j)
<1>3. /\ f \in Jobs /\ f.pc = "failed" /\ Alike(f, j) /\ f.put = j.put
      /\ f.errors = j.errors
  BY <1>1, GotoFits DEF Failed
<1>4. /\ r \in Jobs /\ r.pc = (IF j.errors THEN "errors" ELSE "clean") /\ Alike(r, j)
      /\ r.put = j.put
  BY <1>1, GotoFits DEF Reply
<1>5. r.errors = j.errors
  BY <1>1, GotoFits, Zenon DEF Reply
<1> HIDE DEF f, r
<1>6. Ready(f) /\ ~Busy(f) /\ Copies(f)
  BY <1>2, <1>3 DEF Ready, Busy, Replies, Alike, Copies, Copying
<1>7. Ready(r) /\ ~Busy(r)
  BY <1>2, <1>4, <1>5 DEF Ready, Busy, Replies, Alike
<1> QED
  BY <1>3, <1>4, <1>5, <1>6, <1>7 DEF f, r

\* Who answers for a profile answers for it after an error.
LEMMA ErrorsFit ==
  ASSUME NEW j \in Jobs, Ready(j), Copies(j), Busy(j)
  PROVE  LET k == AfterError(j) IN
         /\ k \in Jobs /\ Ready(k) /\ Copies(k) /\ Alike(k, j)
         /\ \A r \in Roles : Answers(j, r) => Answers(k, r)
         /\ k.pc \in {"failed", "errors", "find", "copy"}
         /\ j.pc \in {"create", "profile", "add"} => \A r \in Roles : k.on = r => Answers(k, r)
<1> DEFINE noted == [j EXCEPT !.errors = TRUE]
<1>1. /\ noted \in Jobs /\ Alike(noted, j) /\ noted.errors
      /\ noted.pc = j.pc /\ noted.todo = j.todo /\ noted.then = j.then
      /\ noted.hand = j.hand /\ noted.put = j.put
  BY NotedFits
<1> HIDE DEF noted
<1>2. j.kind # "none" /\ j.pc # "idle" /\ j.pc \notin Replies
  BY DEF Ready, Busy
<1>3. (j.pc # "create" => Ready(noted)) /\ Busy(noted) /\ Copies(noted)
  BY <1>1, <1>2 DEF Ready, Busy, Copies, Alike, Replies
<1>4. "find" \in Pcs /\ "copy" \in Pcs
  BY DEF Pcs
<1>5. AfterError(j) = CASE j.pc = "create"             -> Reply(noted)
                        [] j.pc \in {"profile", "add"} -> AfterProfile(noted)
                        [] j.pc = "put"                -> Goto(noted, "copy")
                        [] OTHER                       -> Failed(j)
  BY DEF AfterError, noted
<1>6. /\ Reply(noted) \in Jobs /\ Ready(Reply(noted)) /\ Copies(Reply(noted))
      /\ Alike(Reply(noted), j) /\ Reply(noted).pc = "errors"
  <2> DEFINE k == Reply(noted)
  <2>1. k = Goto(noted, "errors") /\ "errors" \in Pcs
    BY <1>1 DEF Reply, Pcs, Replies
  <2>2. k \in Jobs /\ Alike(k, noted) /\ k.pc = "errors" /\ k.errors
    BY <1>1, <2>1, GotoFits
  <2> HIDE DEF k
  <2>3. Alike(k, j)
    BY <1>1, <2>2 DEF Alike
  <2>4. Ready(k) /\ Copies(k)
    BY <1>2, <2>2, <2>3 DEF Ready, Alike, Copies
  <2> QED
    BY <2>2, <2>3, <2>4 DEF k
<1>7. CASE j.pc = "create"
  <2>1. AfterError(j) = Reply(noted)
    BY <1>5, <1>7
  <2> QED
    BY <1>6, <1>7, <2>1 DEF Answers, Alike
<1>8. CASE j.pc \in {"profile", "add"}
  <2>1. AfterError(j) = AfterProfile(noted)
    BY <1>5, <1>8
  <2>2. CASE noted.kind = "create"
    <3>1. AfterError(j) = Reply(noted)
      BY <2>1, <2>2 DEF AfterProfile
    <3> QED
      BY <1>6, <3>1 DEF Answers, Alike
  <2>3. CASE noted.kind # "create"
    <3> DEFINE k == Goto(noted, "find")
    <3>1. AfterError(j) = k
      BY <2>1, <2>3 DEF AfterProfile
    <3>2. k \in Jobs /\ Alike(k, noted) /\ k.pc = "find" /\ k.errors
      BY <1>1, <1>4, GotoFits
    <3> HIDE DEF k
    <3>3. k.kind = "clone" /\ Alike(k, j)
      BY <1>1, <1>8, <2>3, <3>2 DEF Ready, Alike
    <3>4. Ready(k) /\ Copies(k) /\ Busy(k)
      BY <1>1, <1>3, <3>2, <3>3 DEF Ready, Copies, Busy, Alike, Replies
    <3> QED
      BY <3>1, <3>2, <3>3, <3>4 DEF Answers, Alike
  <2> QED
    BY <2>2, <2>3
<1>9. CASE j.pc = "put"
  <2> DEFINE k == Goto(noted, "copy")
  <2>1. AfterError(j) = k
    BY <1>5, <1>9
  <2>2. k \in Jobs /\ Alike(k, noted) /\ k.pc = "copy" /\ k.errors
        /\ k.todo = noted.todo /\ k.then = noted.then
    BY <1>1, <1>4, GotoFits
  <2> HIDE DEF k
  <2>3. Alike(k, j)
    BY <1>1, <2>2 DEF Alike
  <2>4. Ready(k) /\ Copies(k) /\ Busy(k)
    BY <1>1, <1>3, <1>9, <2>2 DEF Ready, Copies, Busy, Alike, Replies
  <2> QED
    BY <1>9, <2>1, <2>2, <2>3, <2>4 DEF Answers, Alike
<1>10. CASE j.pc \notin {"create", "profile", "add", "put"}
  <2>1. AfterError(j) = Failed(j)
    BY <1>5, <1>10
  <2> QED
    BY <1>10, <2>1, RepliesFit DEF Answers, Alike
<1> QED
  BY <1>7, <1>8, <1>9, <1>10

-----------------------------------------------------------------------------
(* A step of a job.                                                        *)

\* A job of whose source some parts may be gone, and that may not be alone
\* any more.
Disturbed(j, ps) == [j EXCEPT !.alone = FALSE, !.had = @ \cap Held(j.source, ps)]
Kept(j, ps) == [j EXCEPT !.had = @ \cap Held(j.source, ps)]

LEMMA DisturbedFits ==
  ASSUME NEW j \in Jobs, NEW ps, NEW pr, Ready(j), Copies(j),
         NEW k, k = Disturbed(j, ps) \/ (k = Kept(j, ps) /\ Deletes(j, ps, pr))
  PROVE  /\ k \in Jobs /\ Ready(k) /\ Copies(k) /\ Deletes(k, ps, pr)
         /\ k.had \subseteq Held(k.source, ps)
         /\ k.on = j.on /\ k.pc = j.pc
         /\ \A r \in Roles : Answers(j, r) <=> Answers(k, r)
<1> DEFINE had == j.had \cap Held(j.source, ps)
           k1  == [j EXCEPT !.alone = FALSE]
<1>1. had \in SUBSET Parts /\ had \subseteq j.had
  BY JobFields
<1>2. k1 \in Jobs /\ FALSE \in BOOLEAN
  BY SetFields
<1>3. Kept(j, ps) = [j EXCEPT !.had = had] /\ Disturbed(j, ps) = [k1 EXCEPT !.had = had]
  BY DEF Kept, Disturbed, Jobs
<1> HIDE DEF had
<1>4. k \in Jobs
  <2> HIDE DEF k1
  <2> QED
    BY <1>1, <1>2, <1>3, SetFields
<1>5. /\ k.kind = j.kind /\ k.on = j.on /\ k.source = j.source /\ k.options = j.options
      /\ k.had = had /\ k.pc = j.pc /\ k.todo = j.todo /\ k.then = j.then
      /\ k.hand = j.hand /\ k.put = j.put
  <2>1. /\ k1.kind = j.kind /\ k1.on = j.on /\ k1.source = j.source /\ k1.options = j.options
        /\ k1.pc = j.pc /\ k1.todo = j.todo /\ k1.then = j.then
        /\ k1.hand = j.hand /\ k1.put = j.put
    BY DEF Jobs
  <2> HIDE DEF k1
  <2>2. CASE k = [j EXCEPT !.had = had]
    BY <2>2 DEF Jobs
  <2>3. CASE k = [k1 EXCEPT !.had = had]
    BY <1>2, <2>1, <2>3 DEF Jobs
  <2> QED
    BY <1>3, <2>2, <2>3
<1>6. k.errors = j.errors
  <2>1. k1.errors = j.errors
    BY Zenon DEF Jobs
  <2> HIDE DEF k1
  <2>2. CASE k = [j EXCEPT !.had = had]
    BY <2>2, Zenon DEF Jobs
  <2>3. CASE k = [k1 EXCEPT !.had = had]
    BY <1>2, <2>1, <2>3, Zenon DEF Jobs
  <2> QED
    BY <1>3, <2>2, <2>3
<1>7. ~k.alone \/ (k.alone = j.alone /\ Deletes(j, ps, pr))
  <2>1. CASE k = Disturbed(j, ps)
    <3>1. k.alone = FALSE
      BY <2>1 DEF Disturbed, Jobs
    <3> QED
      BY <3>1
  <2>2. CASE k = Kept(j, ps) /\ Deletes(j, ps, pr)
    <3>1. k.alone = j.alone
      BY <2>2, Zenon DEF Kept, Jobs
    <3> QED
      BY <2>2, <3>1
  <2> QED
    BY <2>1, <2>2
<1>8. Ready(k)
  BY <1>5, <1>6 DEF Ready
<1>9. Coming(k) = Coming(j) /\ \A these : Copying(k, these) <=> Copying(j, these)
  BY <1>5 DEF Coming, Copying
<1>10. Copies(k)
  BY <1>1, <1>5, <1>6, <1>9 DEF Copies
<1>11. Deletes(k, ps, pr)
  BY <1>5, <1>7 DEF Deletes, Busy
<1>12. k.had \subseteq Held(k.source, ps)
  BY <1>5 DEF had
<1>13. \A r \in Roles : Answers(j, r) <=> Answers(k, r)
  BY <1>5, <1>6 DEF Answers, Busy
<1> QED
  BY <1>4, <1>5, <1>8, <1>10, <1>11, <1>12, <1>13

\* What a step of a request makes of AWS and of its job.
Allows(q, j, ps, pr) ==
    /\ j \in Jobs /\ Ready(j) /\ Copies(j) /\ Deletes(j, ps, pr)
    /\ ps \in AllParts /\ pr \in AllProfiles /\ RolesFit(ps, pr)
    /\ \A r \in Roles : pr[r] = "empty" =>
          Answers(j, r) \/ (profile[r] = "empty" /\ ~Answers(job[q], r))

\* Such a step keeps what holds of the principals and of all jobs.
LEMMA StepKeeps ==
  ASSUME Inv, NEW q \in Requests, NEW j, NEW ps, NEW pr,
         Allows(q, j, ps, pr), Call(q, j, ps, pr)
  PROVE  Inv'
<1>1. /\ parts' = ps /\ profile' = pr /\ refusals' = refusals
      /\ job' = [x \in Requests |->
                   IF x = q THEN Kept(j, ps)
                   ELSE IF Busy(job[x]) /\ <<ps, pr>> # <<parts, profile>>
                   THEN Disturbed(job[x], ps)
                   ELSE job[x]]
  BY DEF Call, Kept, Disturbed
<1>2. /\ job'[q] = Kept(j, ps)
      /\ \A x \in Requests \ {q} :
           \/ job'[x] = Disturbed(job[x], ps)
           \/ job'[x] = job[x] /\ (~Busy(job[x]) \/ (ps = parts /\ pr = profile))
  BY <1>1
<1>3. /\ \A x \in Requests : /\ job[x] \in Jobs /\ Ready(job[x]) /\ Copies(job[x])
                             /\ Deletes(job[x], parts, profile)
                             /\ Busy(job[x]) => job[x].had \subseteq Held(job[x].source, parts)
      /\ j \in Jobs /\ Ready(j) /\ Copies(j) /\ Deletes(j, ps, pr)
  BY DEF Inv, TypeOK, JobsInv, Allows
<1>4. ASSUME NEW x \in Requests
      PROVE  /\ job'[x] \in Jobs /\ Ready(job'[x]) /\ Copies(job'[x])
             /\ Deletes(job'[x], ps, pr)
             /\ Busy(job'[x]) => job'[x].had \subseteq Held(job'[x].source, ps)
             /\ x # q => \A r \in Roles : Answers(job[x], r) <=> Answers(job'[x], r)
             /\ x = q => \A r \in Roles : Answers(j, r) <=> Answers(job'[x], r)
  <2>1. CASE x = q
    BY <1>2, <1>3, <2>1, DisturbedFits
  <2>2. CASE x # q /\ job'[x] = Disturbed(job[x], ps)
    BY <1>3, <2>2, DisturbedFits
  <2>3. CASE x # q /\ job'[x] = job[x] /\ (~Busy(job[x]) \/ (ps = parts /\ pr = profile))
    <3>1. Deletes(job[x], ps, pr)
      <4>1. CASE ~Busy(job[x])
        BY <1>3, <4>1 DEF Deletes, Busy, Replies
      <4>2. CASE ps = parts /\ pr = profile
        BY <1>3, <4>2
      <4> QED
        BY <2>3, <4>1, <4>2
    <3> QED
      BY <1>3, <2>3, <3>1
  <2> QED
    BY <1>2, <2>1, <2>2, <2>3
<1>5. TypeOK'
  BY <1>1, <1>4 DEF Inv, TypeOK, Allows, AllParts, AllProfiles
<1>6. RolesInv'
  BY <1>1 DEF RolesInv, Allows
<1>7. OrphansInv'
  <2> SUFFICES ASSUME NEW r \in Roles, pr[r] = "empty"
               PROVE  \E x \in Requests : Answers(job'[x], r)
    BY <1>1 DEF OrphansInv, Answers, Busy
  <2>1. CASE Answers(j, r)
    BY <1>4, <2>1
  <2>2. CASE profile[r] = "empty" /\ ~Answers(job[q], r)
    <3>1. PICK x \in Requests : Answers(job[x], r)
      BY <2>2 DEF Inv, OrphansInv
    <3> QED
      BY <1>4, <2>2, <3>1
  <2> QED
    BY <2>1, <2>2 DEF Allows
<1>8. JobsInv'
  BY <1>1, <1>4 DEF JobsInv
<1> QED
  BY <1>5, <1>6, <1>7, <1>8 DEF Inv

\* A step that changes nothing of AWS.
LEMMA ReadKeeps ==
  ASSUME Inv, NEW q \in Requests, NEW j \in Jobs, Reads(q, j),
         Ready(j), Copies(j), Deletes(j, parts, profile),
         \A r \in Roles : Answers(job[q], r) => Answers(j, r)
  PROVE  Inv'
<1>1. Allows(q, j, parts, profile)
  BY DEF Allows, Inv, TypeOK, RolesInv, AllParts, AllProfiles
<1> QED
  BY <1>1, StepKeeps DEF Reads

\* What holds of a job.
LEMMA JobFits ==
  ASSUME Inv, NEW q \in Requests
  PROVE  /\ job[q] \in Jobs /\ Ready(job[q]) /\ Copies(job[q])
         /\ Deletes(job[q], parts, profile)
         /\ Busy(job[q]) => job[q].had \subseteq Held(job[q].source, parts)
         /\ parts \in AllParts /\ profile \in AllProfiles
BY DEF Inv, TypeOK, JobsInv, AllParts, AllProfiles

\* Noting an error, or failing, where nothing was answered.
LEMMA ErrorKeeps ==
  ASSUME Inv, NEW q \in Requests, Busy(job[q]), Reads(q, AfterError(job[q])),
         job[q].kind # "delete"
  PROVE  Inv'
<1> DEFINE j == job[q]
           k == AfterError(j)
<1>1. /\ k \in Jobs /\ Ready(k) /\ Copies(k) /\ Alike(k, j)
      /\ \A r \in Roles : Answers(j, r) => Answers(k, r)
  BY JobFits, ErrorsFit
<1> HIDE DEF k
<1>2. Deletes(k, parts, profile)
  BY <1>1 DEF Deletes, Alike
<1>3. Reads(q, k)
  BY DEF k
<1> QED
  BY <1>1, <1>2, <1>3, ReadKeeps

\* A failure of a job that is no undisturbed deletion.
LEMMA FailureKeeps ==
  ASSUME Inv, NEW q \in Requests, Busy(job[q]), Reads(q, Failed(job[q])),
         \/ job[q].kind # "delete" \/ job[q].on \notin Roles \/ ~job[q].alone
  PROVE  Inv'
<1> DEFINE j == job[q]
           k == Failed(j)
<1>1. /\ k \in Jobs /\ Ready(k) /\ Copies(k) /\ Alike(k, j) /\ k.pc = "failed"
  BY JobFits, RepliesFit
<1> HIDE DEF k
<1>2. Deletes(k, parts, profile)
  BY <1>1 DEF Deletes, Alike
<1>3. Reads(q, k) /\ \A r \in Roles : Answers(j, r) => Answers(k, r)
  BY <1>1 DEF k, Answers, Alike
<1> QED
  BY <1>1, <1>2, <1>3, ReadKeeps

\* AWS refuses a call.
LEMMA RefusedKeeps ==
  ASSUME Inv, NEW q \in Requests, Refused(q)
  PROVE  Inv'
<1> DEFINE j == job[q]
           k == AfterError(j)
           m == [k EXCEPT !.alone = FALSE]
<1>1. Busy(j) /\ job' = [job EXCEPT ![q] = m] /\ parts' = parts /\ profile' = profile
  BY DEF Refused
<1>2. refusals' \in 0..MaxRefusals
  BY PrincipalLifecycleConstants DEF Refused, Inv, TypeOK
<1>3. /\ k \in Jobs /\ Ready(k) /\ Copies(k) /\ Alike(k, j)
      /\ \A r \in Roles : Answers(j, r) => Answers(k, r)
  BY <1>1, JobFits, ErrorsFit
<1> HIDE DEF k
<1>4. m \in Jobs
  BY <1>3, SetFields
<1>5. /\ m.kind = k.kind /\ m.on = k.on /\ m.source = k.source /\ m.options = k.options
      /\ m.had = k.had /\ m.pc = k.pc /\ m.todo = k.todo /\ m.then = k.then
      /\ m.hand = k.hand /\ m.put = k.put /\ m.alone = FALSE
  BY <1>3 DEF Jobs
<1>6. m.errors = k.errors
  BY <1>3, Zenon DEF Jobs
<1> HIDE DEF m
<1>7. Coming(m) = Coming(k) /\ \A these : Copying(m, these) <=> Copying(k, these)
  BY <1>5 DEF Coming, Copying
<1>8. /\ Ready(m) /\ Copies(m) /\ Deletes(m, parts, profile)
      /\ \A r \in Roles : Answers(j, r) => Answers(m, r)
  <2>1. Ready(m)
    BY <1>3, <1>5, <1>6 DEF Ready
  <2>2. Copies(m)
    BY <1>3, <1>5, <1>6, <1>7 DEF Copies
  <2>3. \A r \in Roles : Answers(j, r) => Answers(m, r)
    BY <1>3, <1>5, <1>6 DEF Answers, Busy
  <2> QED
    BY <1>5, <2>1, <2>2, <2>3 DEF Deletes
<1>9. m.had \subseteq Held(m.source, parts)
  BY <1>1, <1>3, <1>5, JobFits DEF Alike
<1>10. job' \in [Requests -> Jobs] /\ job'[q] = m /\ \A x \in Requests : x # q => job'[x] = job[x]
  BY <1>1, <1>4 DEF Inv, TypeOK
<1>11. TypeOK'
  BY <1>1, <1>2, <1>10 DEF Inv, TypeOK
<1>12. RolesInv'
  BY <1>1 DEF Inv, RolesInv
<1>13. OrphansInv'
  <2> SUFFICES ASSUME NEW r \in Roles, profile[r] = "empty"
               PROVE  \E x \in Requests : Answers(job'[x], r)
    BY <1>1 DEF OrphansInv, Answers, Busy
  <2>1. PICK x \in Requests : Answers(job[x], r)
    BY DEF Inv, OrphansInv
  <2> QED
    BY <1>8, <1>10, <2>1
<1>14. JobsInv'
  BY <1>1, <1>8, <1>9, <1>10 DEF Inv, JobsInv
<1> QED
  BY <1>11, <1>12, <1>13, <1>14 DEF Inv

-----------------------------------------------------------------------------
(* The operations begin.                                                   *)

\* The first step of an operation.
LEMMA StartKeeps ==
  ASSUME Inv, NEW q \in Requests, job[q] = Idle, NEW k \in Jobs, Reads(q, k),
         Ready(k), Deletes(k, parts, profile),
         k.pc \in {"create", "update", "detaching", "profiles"}
  PROVE  Inv'
<1>1. Copies(k)
  BY DEF Copies, Copying
<1>2. \A r \in Roles : ~Answers(job[q], r)
  BY IdleFits DEF Answers
<1> QED
  BY <1>1, <1>2, ReadKeeps

LEMMA StartsKeep ==
  ASSUME Inv, NEW q \in Requests, Starts(q)
  PROVE  Inv'
<1>1. ASSUME NEW r \in Roles, NEW options \in SUBSET {"profile"}, StartCreate(q, r, options)
      PROVE  Inv'
  <2> DEFINE k == [Idle EXCEPT !.kind = "create", !.pc = "create", !.on = r,
                               !.options = options]
  <2>1. job[q] = Idle /\ Reads(q, k)
    BY <1>1 DEF StartCreate
  <2>2. k \in Jobs
    BY DEF Idle, Jobs, Kinds, Pcs, Thens, Principals
  <2>3. k.kind = "create" /\ k.pc = "create" /\ k.on = r /\ ~k.errors
    BY DEF Idle
  <2> HIDE DEF k
  <2>4. Ready(k) /\ Deletes(k, parts, profile)
    BY <2>3 DEF Ready, Deletes
  <2> QED
    BY <2>1, <2>2, <2>3, <2>4, StartKeeps
<1>2. ASSUME NEW r \in Roles, NEW source \in Roles,
             NEW options \in SUBSET {"inline", "managed"}, StartClone(q, r, source, options)
      PROVE  Inv'
  <2> DEFINE k == [Idle EXCEPT !.kind = "clone", !.pc = "create", !.on = r,
                               !.source = source, !.options = options,
                               !.had = Held(source, parts)]
  <2>1. job[q] = Idle /\ Reads(q, k)
    BY <1>2 DEF StartClone
  <2>2. Held(source, parts) \in SUBSET Parts
    BY DEF Held, Inv, TypeOK
  <2>3. k \in Jobs
    BY <2>2 DEF Idle, Jobs, Kinds, Pcs, Thens, Principals
  <2>4. k.kind = "clone" /\ k.pc = "create" /\ k.on = r /\ k.source = source /\ ~k.errors
    BY DEF Idle
  <2> HIDE DEF k
  <2>5. Ready(k) /\ Deletes(k, parts, profile)
    BY <2>4 DEF Ready, Deletes
  <2> QED
    BY <2>1, <2>3, <2>4, <2>5, StartKeeps
<1>3. ASSUME NEW r \in Roles, NEW changes \in SUBSET Changes, StartUpdate(q, r, changes)
      PROVE  Inv'
  <2> DEFINE k == [Idle EXCEPT !.kind = "update", !.pc = "update", !.on = r,
                               !.todo = changes]
  <2>1. job[q] = Idle /\ Reads(q, k)
    BY <1>3 DEF StartUpdate
  <2>2. k \in Jobs
    BY DEF Idle, Jobs, Kinds, Pcs, Thens, Principals
  <2>3. k.kind = "update" /\ k.pc = "update" /\ k.on = r /\ k.todo = changes
    BY DEF Idle
  <2> HIDE DEF k
  <2>4. Ready(k) /\ Deletes(k, parts, profile)
    BY <2>3 DEF Ready, Deletes
  <2> QED
    BY <2>1, <2>2, <2>3, <2>4, StartKeeps
<1>4. ASSUME NEW p \in Principals, StartDelete(q, p)
      PROVE  Inv'
  <2> DEFINE pc == IF p \in Users THEN "detaching" ELSE "profiles"
             k  == [Idle EXCEPT !.kind = "delete", !.on = p, !.pc = pc]
  <2>1. job[q] = Idle /\ parts[p] # None /\ Reads(q, k)
    BY <1>4 DEF StartDelete
  <2>2. pc \in Pcs
    BY DEF Pcs
  <2>3. k \in Jobs
    BY <2>2 DEF Idle, Jobs, Kinds, Thens
  <2>4. k.kind = "delete" /\ k.pc = pc /\ k.on = p
    BY DEF Idle
  <2>5. p \in Roles => pc = "profiles"
    BY NamesAssumption
  <2>6. p \notin Roles => pc = "detaching"
    BY DEF Principals
  <2> HIDE DEF k, pc
  <2>7. Ready(k)
    BY <2>4, <2>5, <2>6 DEF Ready
  <2>8. Deletes(k, parts, profile)
    BY <2>1, <2>4, <2>5 DEF Deletes
  <2> QED
    BY <2>1, <2>3, <2>4, <2>5, <2>6, <2>7, <2>8, StartKeeps
<1> QED
  BY <1>1, <1>2, <1>3, <1>4 DEF Starts

-----------------------------------------------------------------------------
(* Creating and cloning.                                                   *)

\* A job that only goes on to another stage.
LEMMA GoOnKeeps ==
  ASSUME Inv, NEW q \in Requests, Busy(job[q]), NEW pc \in Pcs \ (Replies \cup {"idle"}),
         Reads(q, Goto(job[q], pc)),
         LET k == Goto(job[q], pc) IN
           Ready(k) /\ Copies(k) /\ Deletes(k, parts, profile),
         job[q].pc \notin {"add", "deleteProfile"}
  PROVE  Inv'
<1> DEFINE j == job[q]
           k == Goto(j, pc)
<1>1. k \in Jobs /\ k.pc = pc /\ Alike(k, j) /\ k.errors = j.errors
  BY JobFits, GotoFits
<1>2. Busy(k)
  BY <1>1 DEF Busy
<1>3. \A r \in Roles : Answers(j, r) => Answers(k, r)
  BY <1>1, <1>2 DEF Answers, Alike, Busy, Replies
<1> QED
  BY <1>1, <1>3, ReadKeeps

LEMMA CreateKeeps ==
  ASSUME Inv, NEW q \in Requests, CreateRole(q) \/ CreateClone(q)
  PROVE  Inv'
<1> DEFINE j == job[q]
<1>1. PICK next : /\ Create(q, next)
                  /\ \/ j.kind = "create" /\ next \in {"profile", "clean"}
                     \/ j.kind = "clone" /\ next = "profiles"
  BY DEF CreateRole, CreateClone
<1>2. j.pc = "create" /\ Busy(j) /\ j \in Jobs /\ Ready(j) /\ ~j.errors /\ j.on \in Roles
  BY <1>1, JobFits DEF Create, Busy, Replies, Ready
<1>3. CASE parts[j.on] # None
  BY <1>1, <1>2, <1>3, ErrorKeeps DEF Create
<1>4. CASE parts[j.on] = None
  <2> DEFINE k  == Goto(j, next)
             ps == [parts EXCEPT ![j.on] = {}]
  <2>1. Call(q, k, ps, profile)
    BY <1>1, <1>4 DEF Create
  <2>2. next \in Pcs
    BY <1>1 DEF Pcs, Replies
  <2>3. k \in Jobs /\ k.pc = next /\ Alike(k, j) /\ k.errors = j.errors
    BY <1>2, <2>2, GotoFits
  <2> HIDE DEF k
  <2>4. Ready(k)
    BY <1>1, <1>2, <2>3 DEF Ready, Alike
  <2>5. Copies(k) /\ Deletes(k, ps, profile)
    BY <1>1, <1>2, <2>3 DEF Copies, Copying, Deletes, Alike
  <2>6. ps \in AllParts /\ RolesFit(ps, profile)
    BY <1>2, JobFits, NoneAssumption DEF AllParts, RolesFit, RolesInv, Inv, Principals
  <2>7. \A r \in Roles : ~Answers(j, r)
    BY <1>2 DEF Answers
  <2>8. Allows(q, k, ps, profile)
    BY <2>3, <2>4, <2>5, <2>6, <2>7, JobFits DEF Allows
  <2> QED
    BY <2>1, <2>8, StepKeeps
<1> QED
  BY <1>3, <1>4

LEMMA FindProfileKeeps ==
  ASSUME Inv, NEW q \in Requests, FindProfile(q)
  PROVE  Inv'
<1> DEFINE j == job[q]
<1>1. j.kind = "clone" /\ j.pc = "profiles" /\ Busy(j)
  BY DEF FindProfile, Busy, Replies
<1>2. \/ Reads(q, Failed(j)) \/ Reads(q, Goto(j, "profile")) \/ Reads(q, Goto(j, "find"))
  BY <1>1 DEF FindProfile, AfterProfile
<1>3. ASSUME NEW pc \in {"profile", "find"}, Reads(q, Goto(j, pc))
      PROVE  Inv'
  <2> DEFINE k == Goto(j, pc)
  <2>1. pc \in Pcs \ (Replies \cup {"idle"})
    BY DEF Pcs, Replies
  <2>2. k \in Jobs /\ k.pc = pc /\ Alike(k, j) /\ k.errors = j.errors
    BY <2>1, JobFits, GotoFits
  <2>3. Ready(j)
    BY JobFits
  <2> HIDE DEF k
  <2>4. Ready(k) /\ Copies(k) /\ Deletes(k, parts, profile)
    BY <1>1, <2>2, <2>3 DEF Ready, Copies, Copying, Deletes, Alike
  <2> QED
    BY <1>1, <1>3, <2>1, <2>4, GoOnKeeps DEF k
<1> QED
  BY <1>1, <1>2, <1>3, FailureKeeps

LEMMA CreateProfileKeeps ==
  ASSUME Inv, NEW q \in Requests, CreateProfile(q)
  PROVE  Inv'
<1> DEFINE j == job[q]
<1>1. j.pc = "profile" /\ Busy(j) /\ Ready(j) /\ j \in Jobs
  BY JobFits DEF CreateProfile, Busy, Replies
<1>2. j.kind \in {"create", "clone"} /\ j.on \in Roles
  BY <1>1 DEF Ready
<1>3. CASE profile[j.on] # "none"
  BY <1>1, <1>2, <1>3, ErrorKeeps DEF CreateProfile
<1>4. CASE profile[j.on] = "none"
  <2> DEFINE k  == Goto(j, "add")
             pr == [profile EXCEPT ![j.on] = "empty"]
  <2>1. Call(q, k, parts, pr)
    BY <1>4 DEF CreateProfile
  <2>2. k \in Jobs /\ k.pc = "add" /\ Alike(k, j)
    BY <1>1, GotoFits DEF Pcs
  <2> HIDE DEF k
  <2>3. Ready(k) /\ Copies(k) /\ Deletes(k, parts, pr)
    BY <1>1, <1>2, <2>2 DEF Ready, Copies, Copying, Deletes, Alike
  <2>4. pr \in AllProfiles /\ RolesFit(parts, pr)
    BY JobFits DEF AllProfiles, RolesFit, RolesInv, Inv
  <2>5. \A r \in Roles : pr[r] = "empty" => r = j.on \/ profile[r] = "empty"
    BY JobFits DEF AllProfiles
  <2>6. Answers(k, j.on) /\ \A r \in Roles : r # j.on => ~Answers(j, r)
    BY <2>2 DEF Answers, Alike
  <2>7. Allows(q, k, parts, pr)
    BY <2>2, <2>3, <2>4, <2>5, <2>6, JobFits DEF Allows
  <2> QED
    BY <2>1, <2>7, StepKeeps
<1> QED
  BY <1>3, <1>4

LEMMA AddToProfileKeeps ==
  ASSUME Inv, NEW q \in Requests, AddToProfile(q)
  PROVE  Inv'
<1> DEFINE j == job[q]
<1>1. j.pc = "add" /\ Busy(j) /\ Ready(j) /\ j \in Jobs
  BY JobFits DEF AddToProfile, Busy, Replies
<1>2. j.kind \in {"create", "clone"} /\ j.on \in Roles
  BY <1>1 DEF Ready
<1>3. CASE parts[j.on] = None \/ profile[j.on] # "empty"
  BY <1>1, <1>2, <1>3, ErrorKeeps DEF AddToProfile
<1>4. CASE ~(parts[j.on] = None \/ profile[j.on] # "empty")
  <2> DEFINE k  == AfterProfile(j)
             pr == [profile EXCEPT ![j.on] = "attached"]
  <2>1. Call(q, k, parts, pr)
    BY <1>4 DEF AddToProfile
  <2>2. k \in Jobs /\ Alike(k, j) /\ Ready(k) /\ Copies(k)
    <3>1. CASE j.kind = "create"
      <4>1. k = Reply(j)
        BY <3>1 DEF AfterProfile
      <4>2. k \in Jobs /\ Alike(k, j) /\ Ready(k)
        BY <1>1, <4>1, RepliesFit
      <4> QED
        BY <3>1, <4>2 DEF Copies, Alike
    <3>2. CASE j.kind # "create"
      <4>1. k = Goto(j, "find")
        BY <3>2 DEF AfterProfile
      <4>2. k \in Jobs /\ Alike(k, j) /\ k.pc = "find"
        BY <1>1, <4>1, GotoFits DEF Pcs
      <4> HIDE DEF k
      <4> QED
        BY <1>1, <1>2, <3>2, <4>2 DEF Ready, Copies, Copying, Alike
    <3> QED
      BY <3>1, <3>2
  <2> HIDE DEF k
  <2>3. Deletes(k, parts, pr)
    BY <1>2, <2>2 DEF Deletes, Alike
  <2>4. pr \in AllProfiles /\ RolesFit(parts, pr)
    BY <1>4, JobFits DEF AllProfiles, RolesFit, RolesInv, Inv
  <2>5. \A r \in Roles : pr[r] = "empty" => r # j.on /\ profile[r] = "empty"
    BY JobFits DEF AllProfiles
  <2>6. \A r \in Roles : r # j.on => ~Answers(j, r)
    BY DEF Answers
  <2>7. Allows(q, k, parts, pr)
    BY <2>2, <2>3, <2>4, <2>5, <2>6, JobFits DEF Allows
  <2> QED
    BY <2>1, <2>7, StepKeeps
<1> QED
  BY <1>3, <1>4

LEMMA FindCloneKeeps ==
  ASSUME Inv, NEW q \in Requests, FindClone(q)
  PROVE  Inv'
<1> DEFINE j == job[q]
           k == Goto(j, "inline")
<1>1. j.pc = "find" /\ Busy(j) /\ Ready(j) /\ j \in Jobs
  BY JobFits DEF FindClone, Busy, Replies
<1>2. j.kind = "clone"
  BY <1>1 DEF Ready
<1>3. "inline" \in Pcs \ (Replies \cup {"idle"})
  BY DEF Pcs, Replies
<1>4. k \in Jobs /\ k.pc = "inline" /\ Alike(k, j)
  BY <1>1, <1>3, GotoFits
<1>5. Reads(q, Failed(j)) \/ Reads(q, k)
  BY DEF FindClone
<1> HIDE DEF k
<1>6. Ready(k) /\ Copies(k) /\ Deletes(k, parts, profile)
  BY <1>1, <1>2, <1>4 DEF Ready, Copies, Copying, Deletes, Alike
<1>7. CASE Reads(q, k)
  BY <1>1, <1>3, <1>6, <1>7, GoOnKeeps DEF k
<1> QED
  BY <1>1, <1>2, <1>5, <1>7, FailureKeeps

LEMMA ListKeeps ==
  ASSUME Inv, NEW q \in Requests, ListInline(q) \/ ListManaged(q)
  PROVE  Inv'
<1> DEFINE j == job[q]
<1>1. PICK these, option, then :
        /\ List(q, these, option, then)
        /\ \/ these = Inline /\ option = "inline" /\ then = "managed"
           \/ these = Managed /\ option = "managed" /\ then = "end"
  BY DEF ListInline, ListManaged
<1>2. /\ j.kind = "clone" /\ j.pc = option /\ Busy(j) /\ j \in Jobs /\ Ready(j) /\ Copies(j)
      /\ j.source \in Roles
  BY <1>1, JobFits DEF List, Busy, Replies, Ready
<1>3. CASE option \notin j.options /\ then = "end"
  <2> DEFINE k == Reply(j)
  <2>1. Reads(q, k)
    BY <1>1, <1>3 DEF List
  <2>2. /\ k \in Jobs /\ Ready(k) /\ Alike(k, j) /\ k.put = j.put /\ k.errors = j.errors
        /\ k.pc = IF j.errors THEN "errors" ELSE "clean"
    BY <1>2, RepliesFit
  <2> HIDE DEF k
  <2>3. Copies(k) /\ Deletes(k, parts, profile)
    BY <1>1, <1>2, <1>3, <2>2 DEF Copies, Copying, Deletes, Alike
  <2>4. \A r \in Roles : Answers(j, r) => Answers(k, r)
    BY <1>1, <1>2, <2>2 DEF Answers, Alike, Busy
  <2> QED
    BY <2>1, <2>2, <2>3, <2>4, ReadKeeps
<1>4. CASE option \notin j.options /\ then # "end"
  <2> DEFINE k == Goto(j, "managed")
  <2>1. Reads(q, k)
    BY <1>1, <1>4 DEF List
  <2>2. "managed" \in Pcs \ (Replies \cup {"idle"})
    BY DEF Pcs, Replies
  <2>3. k \in Jobs /\ Alike(k, j) /\ k.pc = "managed" /\ k.put = j.put
    BY <1>2, <2>2, GotoFits
  <2> HIDE DEF k
  <2>4. Ready(k) /\ Copies(k) /\ Deletes(k, parts, profile)
    BY <1>1, <1>2, <1>4, <2>3 DEF Ready, Copies, Copying, Deletes, Alike
  <2> QED
    BY <1>1, <1>2, <2>1, <2>2, <2>4, GoOnKeeps DEF k
<1>5. CASE option \in j.options /\ parts[j.source] = None
  BY <1>1, <1>2, <1>5, FailureKeeps DEF List
<1>6. CASE option \in j.options /\ parts[j.source] # None
  <2> DEFINE listed == these \cap parts[j.source]
             k == Listing(j, "copy", then, listed)
  <2>1. Reads(q, k)
    BY <1>1, <1>6 DEF List, Listing
  <2>2. listed \in SUBSET Parts /\ listed \subseteq Managed \cup Inline
    BY <1>1 DEF Parts
  <2>3. /\ k \in Jobs /\ Alike(k, j) /\ k.pc = "copy" /\ k.then = then /\ k.todo = listed
        /\ k.put = j.put /\ k.errors = j.errors
    <3>1. "copy" \in Pcs /\ then \in Thens
      BY <1>1 DEF Pcs, Thens
    <3> HIDE DEF listed
    <3> QED
      BY <1>2, <2>2, <3>1, ListingFits
  <2>4. j.had \subseteq parts[j.source]
    <3>1. j.source # None /\ j.source \in DOMAIN parts
      BY <1>2, JobFits, NoneAssumption DEF AllParts, Principals
    <3>2. Held(j.source, parts) = parts[j.source]
      BY <1>6, <3>1 DEF Held
    <3> QED
      BY <1>2, <3>2, JobFits
  <2>5. j.had \cap these \subseteq listed
    BY <2>4
  <2> HIDE DEF k, listed
  <2>6. Ready(k)
    BY <1>1, <1>2, <2>2, <2>3 DEF Ready, Alike
  <2>7. Copies(k) /\ Deletes(k, parts, profile)
    BY <1>1, <1>2, <2>3, <2>5 DEF Copies, Copying, Coming, Deletes, Alike
  <2>8. \A r \in Roles : Answers(j, r) => Answers(k, r)
    BY <1>1, <1>2, <2>3 DEF Answers, Alike, Busy, Replies
  <2> QED
    BY <2>1, <2>3, <2>6, <2>7, <2>8, ReadKeeps
<1> QED
  BY <1>3, <1>4, <1>5, <1>6

LEMMA LoadKeeps ==
  ASSUME Inv, NEW q \in Requests, Load(q)
  PROVE  Inv'
<1> DEFINE j == job[q]
<1>1. j.pc = "copy" /\ Busy(j) /\ Ready(j) /\ j \in Jobs /\ Copies(j)
  BY JobFits DEF Load, Busy, Replies
<1>2. /\ j.kind = "clone" /\ j.todo \subseteq Managed \cup Inline
      /\ j.then \in {"managed", "end"}
  BY <1>1 DEF Ready
<1>3. CASE j.todo = {} /\ j.then = "end"
  <2> DEFINE k == Reply(j)
  <2>1. Reads(q, k)
    BY <1>3 DEF Load
  <2>2. /\ k \in Jobs /\ Ready(k) /\ Alike(k, j) /\ k.put = j.put /\ k.errors = j.errors
        /\ k.pc = IF j.errors THEN "errors" ELSE "clean"
    BY <1>1, RepliesFit
  <2> HIDE DEF k
  <2>3. Copies(k) /\ Deletes(k, parts, profile)
    BY <1>1, <1>2, <1>3, <2>2 DEF Copies, Copying, Coming, Deletes, Alike
  <2>4. \A r \in Roles : Answers(j, r) => Answers(k, r)
    BY <1>1, <2>2 DEF Answers, Alike, Busy
  <2> QED
    BY <2>1, <2>2, <2>3, <2>4, ReadKeeps
<1>4. CASE j.todo = {} /\ j.then = "managed"
  <2> DEFINE k == Goto(j, "managed")
  <2>1. Reads(q, k)
    BY <1>4 DEF Load
  <2>2. "managed" \in Pcs \ (Replies \cup {"idle"})
    BY DEF Pcs, Replies
  <2>3. k \in Jobs /\ Alike(k, j) /\ k.pc = "managed" /\ k.put = j.put /\ k.errors = j.errors
    BY <1>1, <2>2, GotoFits
  <2> HIDE DEF k
  <2>4. Ready(k) /\ Copies(k) /\ Deletes(k, parts, profile)
    BY <1>1, <1>2, <1>4, <2>3 DEF Ready, Copies, Copying, Coming, Deletes, Alike
  <2> QED
    BY <1>1, <2>1, <2>2, <2>4, GoOnKeeps DEF k
<1>5. CASE j.todo # {}
  <2>1. PICK p \in j.todo :
           \/ Reads(q, Failed(j))
           \/ Reads(q, [j EXCEPT !.pc = "put", !.hand = p, !.todo = @ \ {p}])
    BY <1>5 DEF Load
  <2> DEFINE k == [j EXCEPT !.pc = "put", !.hand = p, !.todo = @ \ {p}]
  <2>2. p \in Parts /\ p \in Managed \cup Inline
    BY <1>2 DEF Parts
  <2>3. /\ k \in Jobs /\ Alike(k, j) /\ k.pc = "put" /\ k.then = j.then
        /\ k.todo = j.todo \ {p} /\ k.hand = p /\ k.put = j.put /\ k.errors = j.errors
    BY <1>1, <2>2, HandFits
  <2> HIDE DEF k
  <2>4. Ready(k)
    BY <1>1, <1>2, <2>2, <2>3 DEF Ready, Alike
  <2>5. Coming(k) = Coming(j)
    BY <1>1, <2>3 DEF Coming
  <2>6. Copies(k) /\ Deletes(k, parts, profile)
    BY <1>1, <1>2, <2>3, <2>5 DEF Copies, Copying, Deletes, Alike
  <2>7. \A r \in Roles : Answers(j, r) => Answers(k, r)
    BY <1>1, <2>3 DEF Answers, Alike, Busy, Replies
  <2>8. CASE Reads(q, k)
    BY <2>3, <2>4, <2>6, <2>7, <2>8, ReadKeeps
  <2> QED
    BY <1>1, <1>2, <2>1, <2>8, FailureKeeps DEF k
<1> QED
  BY <1>2, <1>3, <1>4, <1>5

LEMMA PutKeeps ==
  ASSUME Inv, NEW q \in Requests, Put(q)
  PROVE  Inv'
<1> DEFINE j == job[q]
<1>1. j.pc = "put" /\ Busy(j) /\ Ready(j) /\ j \in Jobs /\ Copies(j)
  BY JobFits DEF Put, Busy, Replies
<1>2. /\ j.kind = "clone" /\ j.on \in Roles /\ j.hand \in Managed \cup Inline
      /\ j.hand \in Parts
  BY <1>1 DEF Ready, Parts
<1>3. CASE parts[j.on] = None
  BY <1>1, <1>2, <1>3, ErrorKeeps DEF Put
<1>4. CASE parts[j.on] # None
  <2> DEFINE k   == [j EXCEPT !.pc = "copy", !.put = @ \cup {j.hand}]
             new == parts[j.on] \cup {j.hand}
             ps  == [parts EXCEPT ![j.on] = new]
  <2>1. Call(q, k, ps, profile)
    BY <1>4 DEF Put
  <2>2. /\ k \in Jobs /\ Alike(k, j) /\ k.pc = "copy" /\ k.then = j.then
        /\ k.todo = j.todo /\ k.put = j.put \cup {j.hand} /\ k.errors = j.errors
    BY <1>1, <1>2, PutFits
  <2> HIDE DEF k
  <2>3. Ready(k)
    BY <1>1, <2>2 DEF Ready, Alike
  <2>4. k.put \cup Coming(k) = j.put \cup Coming(j) /\ j.put \subseteq k.put
    BY <1>1, <2>2 DEF Coming
  <2>5. Copies(k) /\ Deletes(k, ps, profile)
    BY <1>1, <1>2, <2>2, <2>4 DEF Copies, Copying, Deletes, Alike
  <2>6. new \in SUBSET Parts /\ new \subseteq Managed \cup Inline /\ new # None
    <3>1. parts[j.on] \subseteq Managed \cup Inline /\ parts[j.on] \in SUBSET Parts
      BY <1>2, <1>4, JobFits DEF Inv, RolesInv, RolesFit, AllParts, Principals
    <3>2. new \in SUBSET Parts
      BY <1>2, <3>1
    <3> QED
      BY <1>2, <3>1, <3>2, NoneAssumption
  <2> HIDE DEF new
  <2>7. ps \in AllParts /\ RolesFit(ps, profile)
    BY <1>2, <2>6, JobFits DEF AllParts, RolesFit, RolesInv, Inv, Principals
  <2>8. \A r \in Roles : profile[r] = "empty" => (Answers(j, r) => Answers(k, r))
    BY <1>1, <2>2 DEF Answers, Alike, Busy, Replies
  <2>9. Allows(q, k, ps, profile)
    BY <2>2, <2>3, <2>5, <2>7, <2>8, JobFits DEF Allows
  <2> QED
    BY <2>1, <2>9, StepKeeps DEF new
<1> QED
  BY <1>3, <1>4

-----------------------------------------------------------------------------
(* Updating.                                                               *)

LEMMA UpdateKeeps ==
  ASSUME Inv, NEW q \in Requests, Update(q)
  PROVE  Inv'
<1> DEFINE j == job[q]
           rest(c) == [j EXCEPT !.todo = @ \ {c}]
           new(c)  == IF c.action = "attach" THEN parts[j.on] \cup {c.part}
                      ELSE parts[j.on] \ {c.part}
<1>1. j.pc = "update" /\ Busy(j) /\ Ready(j) /\ j \in Jobs
  BY JobFits DEF Update, Busy, Replies
<1>2. j.kind = "update" /\ j.on \in Roles /\ j.todo \subseteq Changes
  BY <1>1 DEF Ready
<1>3. PICK c \in j.todo :
        \/ Reads(q, Failed(j))
        \/ /\ parts[j.on] # None
           /\ Call(q, IF rest(c).todo = {} THEN Reply(rest(c)) ELSE rest(c),
                   [parts EXCEPT ![j.on] = new(c)], profile)
  BY DEF Update
<1> DEFINE m  == rest(c)
           k  == IF m.todo = {} THEN Reply(m) ELSE m
           ps == [parts EXCEPT ![j.on] = new(c)]
<1>4. /\ m \in Jobs /\ Alike(m, j) /\ m.pc = j.pc /\ m.errors = j.errors
      /\ m.todo = j.todo \ {c}
  <2>1. j.todo \ {c} \in SUBSET (Parts \cup Changes)
    BY <1>2
  <2>2. m = [j EXCEPT !.todo = j.todo \ {c}]
    BY DEF Jobs
  <2> HIDE DEF m
  <2> QED
    BY <1>1, <2>1, <2>2, RestFits
<1>5. CASE parts[j.on] # None /\ Call(q, k, ps, profile)
  <2> HIDE DEF m
  <2>1. Ready(m) /\ Busy(m)
    BY <1>1, <1>2, <1>4 DEF Ready, Alike, Busy
  <2>2. k \in Jobs /\ Ready(k) /\ Alike(k, j)
    BY <1>4, <2>1, RepliesFit DEF Alike
  <2>3. \A r \in Roles : Answers(j, r) => Answers(k, r)
    <3>1. m.todo = {} => Reply(m).pc = (IF m.errors THEN "errors" ELSE "clean")
      BY <1>4, <2>1, RepliesFit
    <3> QED
      BY <1>1, <1>4, <2>1, <2>2, <3>1 DEF Answers, Alike
  <2> HIDE DEF k
  <2>4. Copies(k) /\ Deletes(k, ps, profile)
    BY <1>2, <2>2 DEF Copies, Deletes, Alike
  <2>5. new(c) \in SUBSET Parts /\ new(c) \subseteq Managed \cup Inline /\ new(c) # None
    <3>1. parts[j.on] \subseteq Managed \cup Inline
      BY <1>2, <1>5 DEF Inv, RolesInv, RolesFit
    <3>2. c.part \in Managed \cup Inline
      BY <1>2 DEF Changes
    <3>3. new(c) \subseteq Managed \cup Inline
      BY <3>1, <3>2
    <3> HIDE DEF new
    <3>4. new(c) \in SUBSET Parts
      BY <3>3 DEF Parts
    <3> QED
      BY <3>3, <3>4, NoneAssumption
  <2> HIDE DEF new
  <2>6. ps \in AllParts /\ RolesFit(ps, profile)
    BY <1>2, <2>5, JobFits DEF AllParts, RolesFit, RolesInv, Inv, Principals
  <2>7. Allows(q, k, ps, profile)
    BY <2>2, <2>3, <2>4, <2>6, JobFits DEF Allows
  <2> QED
    BY <1>5, <2>7, StepKeeps
<1> QED
  BY <1>1, <1>2, <1>3, <1>5, FailureKeeps

-----------------------------------------------------------------------------
(* Deleting.                                                               *)

\* A deletion that is disturbed, or refused, may fail; another does not.
LEMMA DeleteFailureKeeps ==
  ASSUME Inv, NEW q \in Requests, Busy(job[q]), Reads(q, Failed(job[q])),
         job[q].on \in Roles /\ job[q].alone => FALSE
  PROVE  Inv'
BY FailureKeeps

LEMMA LeaveProfileKeeps ==
  ASSUME Inv, NEW q \in Requests, LeaveProfile(q)
  PROVE  Inv'
<1> DEFINE j == job[q]
<1>1. /\ j.kind = "delete" /\ j.pc = "profiles" /\ Busy(j) /\ Ready(j) /\ j \in Jobs
      /\ Deletes(j, parts, profile)
  BY JobFits DEF LeaveProfile, Busy, Replies
<1>2. j.on \in Roles
  BY <1>1 DEF Ready
<1>3. CASE parts[j.on] = None
  <2>1. ~j.alone
    BY <1>1, <1>2, <1>3 DEF Deletes
  <2> QED
    BY <1>1, <1>3, <2>1, DeleteFailureKeeps DEF LeaveProfile
<1>4. CASE parts[j.on] # None /\ profile[j.on] = "attached"
  <2> DEFINE k  == Goto(j, "deleteProfile")
             pr == [profile EXCEPT ![j.on] = "empty"]
  <2>1. Call(q, k, parts, pr)
    BY <1>4 DEF LeaveProfile
  <2>2. k \in Jobs /\ k.pc = "deleteProfile" /\ Alike(k, j)
    BY <1>1, GotoFits DEF Pcs
  <2> HIDE DEF k
  <2>3. pr \in AllProfiles /\ RolesFit(parts, pr) /\ pr[j.on] = "empty"
    BY <1>2, JobFits DEF AllProfiles, RolesFit, RolesInv, Inv
  <2>4. \A r \in Roles : pr[r] = "empty" => r = j.on \/ profile[r] = "empty"
    BY JobFits DEF AllProfiles
  <2> HIDE DEF pr
  <2>5. Ready(k) /\ Copies(k) /\ Deletes(k, parts, pr)
    BY <1>1, <1>2, <1>4, <2>2, <2>3 DEF Ready, Copies, Deletes, Alike
  <2>6. Answers(k, j.on) /\ \A r \in Roles : r # j.on => ~Answers(j, r)
    BY <2>2 DEF Answers, Alike
  <2>7. Allows(q, k, parts, pr)
    BY <2>2, <2>3, <2>4, <2>5, <2>6, JobFits DEF Allows
  <2> QED
    BY <2>1, <2>7, StepKeeps DEF pr
<1>5. CASE parts[j.on] # None /\ profile[j.on] # "attached"
  <2> DEFINE k == Goto(j, "detaching")
  <2>1. Reads(q, k)
    BY <1>5 DEF LeaveProfile
  <2>2. "detaching" \in Pcs \ (Replies \cup {"idle"})
    BY DEF Pcs, Replies
  <2>3. k \in Jobs /\ k.pc = "detaching" /\ Alike(k, j)
    BY <1>1, <2>2, GotoFits
  <2> HIDE DEF k
  <2>4. Ready(k) /\ Copies(k) /\ Deletes(k, parts, profile)
    BY <1>1, <1>2, <1>5, <2>3 DEF Ready, Copies, Deletes, Alike
  <2> QED
    BY <1>1, <2>1, <2>2, <2>4, GoOnKeeps DEF k
<1> QED
  BY <1>3, <1>4, <1>5

LEMMA DeleteProfileKeeps ==
  ASSUME Inv, NEW q \in Requests, DeleteProfile(q)
  PROVE  Inv'
<1> DEFINE j == job[q]
<1>1. /\ j.pc = "deleteProfile" /\ Busy(j) /\ Ready(j) /\ j \in Jobs
      /\ Deletes(j, parts, profile)
  BY JobFits DEF DeleteProfile, Busy, Replies
<1>2. j.kind = "delete" /\ j.on \in Roles
  BY <1>1 DEF Ready
<1>3. CASE profile[j.on] # "empty"
  <2>1. ~j.alone
    BY <1>1, <1>2, <1>3 DEF Deletes
  <2> QED
    BY <1>1, <1>3, <2>1, DeleteFailureKeeps DEF DeleteProfile
<1>4. CASE profile[j.on] = "empty"
  <2> DEFINE k  == Goto(j, "detaching")
             pr == [profile EXCEPT ![j.on] = "none"]
  <2>1. Call(q, k, parts, pr)
    BY <1>4 DEF DeleteProfile
  <2>2. k \in Jobs /\ k.pc = "detaching" /\ Alike(k, j)
    BY <1>1, GotoFits DEF Pcs
  <2> HIDE DEF k
  <2>3. pr \in AllProfiles /\ RolesFit(parts, pr) /\ pr[j.on] = "none"
    BY <1>2, JobFits DEF AllProfiles, RolesFit, RolesInv, Inv
  <2>4. \A r \in Roles : pr[r] = "empty" => r # j.on /\ profile[r] = "empty"
    BY JobFits DEF AllProfiles
  <2> HIDE DEF pr
  <2>5. Ready(k) /\ Copies(k) /\ Deletes(k, parts, pr)
    BY <1>1, <1>2, <2>2, <2>3 DEF Ready, Copies, Deletes, Alike, Busy
  <2>6. \A r \in Roles : r # j.on => ~Answers(j, r)
    BY <2>2 DEF Answers, Alike
  <2>7. Allows(q, k, parts, pr)
    BY <2>2, <2>3, <2>4, <2>5, <2>6, JobFits DEF Allows
  <2> QED
    BY <2>1, <2>7, StepKeeps DEF pr
<1> QED
  BY <1>3, <1>4

LEMMA ListPartsKeeps ==
  ASSUME Inv, NEW q \in Requests, ListParts(q)
  PROVE  Inv'
<1> DEFINE j == job[q]
<1>1. /\ j.kind = "delete" /\ j.pc \in {"detaching", "removing", "keys"}
      /\ Busy(j) /\ Ready(j) /\ j \in Jobs /\ Deletes(j, parts, profile)
  BY JobFits DEF ListParts, Busy, Replies
<1>2. j.on \in Principals
  BY <1>1 DEF Ready
<1>3. CASE parts[j.on] = None
  <2>1. ~(j.on \in Roles /\ j.alone)
    BY <1>1, <1>3 DEF Deletes
  <2> QED
    BY <1>1, <1>3, <2>1, DeleteFailureKeeps DEF ListParts
<1>4. CASE parts[j.on] # None
  <2> DEFINE then   == NextParts(j.on, j.pc)
             listed == PartsOf(j.pc) \cap parts[j.on]
             k == Listing(j, "take", then, listed)
  <2>1. Reads(q, k)
    BY <1>4 DEF ListParts, Listing
  <2>2. /\ j.pc = "detaching" => then = "removing" /\ listed = Managed \cap parts[j.on]
        /\ j.pc = "removing" => /\ listed = Inline \cap parts[j.on]
                                /\ then = IF j.on \in Users THEN "keys" ELSE "delete"
        /\ j.pc = "keys" => then = "delete" /\ listed = Keys \cap parts[j.on]
    BY DEF NextParts, PartsOf
  <2>3. listed \in SUBSET Parts /\ then \in {"removing", "keys", "delete"}
    BY <1>1, <2>2 DEF Parts
  <2> HIDE DEF listed, then
  <2>4. /\ k \in Jobs /\ Alike(k, j) /\ k.pc = "take" /\ k.then = then /\ k.todo = listed
        /\ k.errors = j.errors
    <3>1. "take" \in Pcs /\ then \in Thens
      BY <2>3 DEF Pcs, Thens
    <3> QED
      BY <1>1, <2>3, <3>1, ListingFits
  <2> HIDE DEF k
  <2>5. Ready(k) /\ Copies(k)
    BY <1>1, <2>3, <2>4 DEF Ready, Copies, Alike
  <2>6. Deletes(k, parts, profile)
    <3> SUFFICES ASSUME j.on \in Roles, j.alone
                 PROVE  Deletes(k, parts, profile)
      BY <2>4 DEF Deletes, Alike
    <3>1. j.on \notin Users /\ j.pc # "keys"
      BY <1>1, NamesAssumption DEF Deletes
    <3> QED
      BY <1>1, <1>4, <2>2, <2>4, <3>1 DEF Deletes, Alike
  <2>7. \A r \in Roles : Answers(j, r) => Answers(k, r)
    BY <1>1, <2>4 DEF Answers, Alike, Busy, Replies
  <2> QED
    BY <2>1, <2>4, <2>5, <2>6, <2>7, ReadKeeps
<1> QED
  BY <1>3, <1>4

LEMMA TakeKeeps ==
  ASSUME Inv, NEW q \in Requests, Take(q)
  PROVE  Inv'
<1> DEFINE j == job[q]
<1>1. /\ j.pc = "take" /\ Busy(j) /\ Ready(j) /\ j \in Jobs /\ Deletes(j, parts, profile)
  BY JobFits DEF Take, Busy, Replies
<1>2. /\ j.kind = "delete" /\ j.on \in Principals
      /\ j.then \in {"removing", "keys", "delete"}
  BY <1>1 DEF Ready
<1>3. CASE j.todo = {}
  <2> DEFINE k == Goto(j, j.then)
  <2>1. Reads(q, k)
    BY <1>3 DEF Take
  <2>2. j.then \in Pcs \ (Replies \cup {"idle"})
    BY <1>2 DEF Pcs, Replies
  <2>3. k \in Jobs /\ k.pc = j.then /\ Alike(k, j)
    BY <1>1, <2>2, GotoFits
  <2> HIDE DEF k
  <2>4. Ready(k) /\ Copies(k)
    BY <1>1, <1>2, <2>3 DEF Ready, Copies, Alike
  <2>5. Deletes(k, parts, profile)
    BY <1>1, <1>2, <1>3, <2>3 DEF Deletes, Alike
  <2> QED
    BY <1>1, <2>1, <2>2, <2>4, <2>5, GoOnKeeps DEF k
<1>4. CASE j.todo # {}
  <2>1. PICK p \in j.todo :
          IF p \notin Held(j.on, parts) \/ (p \in Managed /\ j.on \in Users)
          THEN Reads(q, Failed(j))
          ELSE Call(q, [j EXCEPT !.todo = @ \ {p}],
                    [parts EXCEPT ![j.on] = @ \ {p}], profile)
    BY <1>4 DEF Take
  <2>2. CASE p \notin Held(j.on, parts) \/ (p \in Managed /\ j.on \in Users)
    <3>1. ~(j.on \in Roles /\ j.alone)
      <4> SUFFICES ASSUME j.on \in Roles, j.alone PROVE FALSE
        OBVIOUS
      <4>1. j.on \notin Users /\ parts[j.on] # None /\ j.on # None
        BY <1>1, <1>2, NamesAssumption, NoneAssumption DEF Deletes
      <4>2. Held(j.on, parts) = parts[j.on]
        BY <1>2, <4>1, JobFits DEF Held, AllParts
      <4>3. p \in parts[j.on]
        BY <1>1, <1>2 DEF Deletes
      <4> QED
        BY <2>2, <4>1, <4>2, <4>3
    <3> QED
      BY <1>1, <2>1, <2>2, <3>1, DeleteFailureKeeps
  <2>3. CASE ~(p \notin Held(j.on, parts) \/ (p \in Managed /\ j.on \in Users))
    <3> DEFINE k   == [j EXCEPT !.todo = @ \ {p}]
               new == parts[j.on] \ {p}
               ps  == [parts EXCEPT ![j.on] = new]
    <3>1. Call(q, k, ps, profile)
      BY <2>1, <2>3
    <3>2. /\ k \in Jobs /\ Alike(k, j) /\ k.pc = j.pc /\ k.then = j.then
          /\ k.todo = j.todo \ {p} /\ k.errors = j.errors
      <4>1. j.todo \ {p} \in SUBSET (Parts \cup Changes)
        BY <1>1, JobFields
      <4>2. k = [j EXCEPT !.todo = j.todo \ {p}]
        BY <1>1 DEF Jobs
      <4> HIDE DEF k
      <4> QED
        BY <1>1, <4>1, <4>2, RestFits
    <3> HIDE DEF k
    <3>3. parts[j.on] # None
      BY <2>3 DEF Held
    <3>4. new \in SUBSET Parts /\ new \subseteq parts[j.on] /\ new # None
      <4>1. parts[j.on] \in SUBSET Parts
        BY <1>2, <3>3, JobFits DEF AllParts
      <4>2. new \in SUBSET Parts
        BY <4>1
      <4> QED
        BY <4>2, NoneAssumption
    <3>5. Managed \cap new = (Managed \cap parts[j.on]) \ {p}
          /\ Inline \cap new = (Inline \cap parts[j.on]) \ {p}
      OBVIOUS
    <3> HIDE DEF new
    <3>6. ps \in AllParts /\ ps[j.on] = new /\ \A r \in Principals : r # j.on => ps[r] = parts[r]
      BY <1>2, <3>4, JobFits DEF AllParts
    <3>7. RolesFit(ps, profile)
      BY <3>3, <3>4, <3>6 DEF RolesFit, RolesInv, Inv, Principals
    <3> HIDE DEF ps
    <3>8. Ready(k) /\ Copies(k)
      BY <1>1, <1>2, <3>2 DEF Ready, Copies, Alike
    <3>9. Deletes(k, ps, profile)
      BY <1>1, <1>2, <3>2, <3>4, <3>5, <3>6 DEF Deletes, Alike
    <3>10. \A r \in Roles : Answers(j, r) => Answers(k, r)
      BY <3>2 DEF Answers, Alike, Busy
    <3>11. Allows(q, k, ps, profile)
      BY <3>2, <3>6, <3>7, <3>8, <3>9, <3>10, JobFits DEF Allows
    <3> QED
      BY <3>1, <3>11, StepKeeps DEF ps, new
  <2> QED
    BY <2>2, <2>3
<1> QED
  BY <1>3, <1>4

LEMMA DeleteKeeps ==
  ASSUME Inv, NEW q \in Requests, Delete(q)
  PROVE  Inv'
<1> DEFINE j == job[q]
           inUse == j.on \in Roles /\ profile[j.on] = "attached"
<1>1. /\ j.pc = "delete" /\ Busy(j) /\ Ready(j) /\ j \in Jobs /\ Deletes(j, parts, profile)
  BY JobFits DEF Delete, Busy, Replies
<1>2. j.kind = "delete" /\ j.on \in Principals
  BY <1>1 DEF Ready
<1>3. CASE parts[j.on] # {} \/ inUse
  <2>1. ~(j.on \in Roles /\ j.alone)
    <3> SUFFICES ASSUME j.on \in Roles, j.alone PROVE FALSE
      OBVIOUS
    <3>1. /\ ~inUse /\ parts[j.on] # None
          /\ Managed \cap parts[j.on] = {} /\ Inline \cap parts[j.on] = {}
      BY <1>1, <1>2 DEF Deletes
    <3>2. parts[j.on] \subseteq Managed \cup Inline
      BY <3>1 DEF Inv, RolesInv, RolesFit
    <3> QED
      BY <1>3, <3>1, <3>2
  <2> QED
    BY <1>1, <1>3, <2>1, DeleteFailureKeeps DEF Delete
<1>4. CASE ~(parts[j.on] # {} \/ inUse)
  <2> DEFINE k  == Reply(j)
             ps == [parts EXCEPT ![j.on] = None]
  <2>1. Call(q, k, ps, profile)
    BY <1>4 DEF Delete
  <2>2. /\ k \in Jobs /\ Ready(k) /\ Alike(k, j) /\ k.errors = j.errors
        /\ k.pc = IF j.errors THEN "errors" ELSE "clean"
    BY <1>1, RepliesFit
  <2> HIDE DEF k
  <2>3. ps \in AllParts /\ RolesFit(ps, profile)
    BY <1>2, <1>4, JobFits DEF AllParts, RolesFit, RolesInv, Inv, Principals
  <2> HIDE DEF ps
  <2>4. Copies(k) /\ Deletes(k, ps, profile)
    BY <1>2, <2>2 DEF Copies, Deletes, Alike, Busy, Replies
  <2>5. \A r \in Roles : Answers(j, r) => Answers(k, r)
    BY <1>1, <2>2 DEF Answers, Alike, Busy
  <2>6. Allows(q, k, ps, profile)
    BY <2>2, <2>3, <2>4, <2>5, JobFits DEF Allows
  <2> QED
    BY <2>1, <2>6, StepKeeps DEF ps
<1> QED
  BY <1>3, <1>4

-----------------------------------------------------------------------------
(* Every step, and the theorems.                                           *)

LEMMA InitInv == Init => Inv
<1> SUFFICES ASSUME Init PROVE Inv
  OBVIOUS
<1>1. PICK of \in {Parts, Inline \cup Keys} :
         parts = [p \in Principals |->
                    IF p \in Users THEN of
                    ELSE IF p = CHOOSE r \in Roles : TRUE
                    THEN Managed \cup Inline ELSE None]
  BY DEF Init
<1>2. of \in SUBSET Parts /\ Managed \cup Inline \in SUBSET Parts
  BY DEF Parts
<1>3. \A r \in Roles : r \notin Users
  BY NamesAssumption
<1>4. parts \in AllParts /\ \A r \in Roles : parts[r] # None => parts[r] = Managed \cup Inline
  BY <1>1, <1>2, <1>3 DEF AllParts, Principals
<1>5. /\ profile \in [Roles -> {"none", "attached"}]
      /\ \A r \in Roles : profile[r] = "attached" => parts[r] # None
      /\ job = [q \in Requests |-> Idle] /\ refusals = 0
  BY DEF Init
<1>6. TypeOK
  BY <1>4, <1>5, IdleFits, PrincipalLifecycleConstants DEF TypeOK, AllParts
<1>7. RolesInv /\ OrphansInv
  BY <1>4, <1>5 DEF RolesInv, RolesFit, OrphansInv
<1>8. Copies(Idle) /\ Deletes(Idle, parts, profile)
  BY DEF Copies, Deletes, Idle
<1>9. JobsInv
  BY <1>5, <1>8, IdleFits DEF JobsInv
<1> QED
  BY <1>6, <1>7, <1>9 DEF Inv

LEMMA NextKeeps ==
  ASSUME Inv, [Next]_vars
  PROVE  Inv'
<1>1. ASSUME NEW q \in Requests, Goes(q)
      PROVE  Inv'
  BY <1>1, CreateKeeps, FindProfileKeeps, CreateProfileKeeps, AddToProfileKeeps,
     FindCloneKeeps, ListKeeps, LoadKeeps, PutKeeps, UpdateKeeps, LeaveProfileKeeps,
     DeleteProfileKeeps, ListPartsKeeps, TakeKeeps, DeleteKeeps DEF Goes
<1>2. CASE UNCHANGED vars
  BY <1>2 DEF vars, Inv, TypeOK, RolesInv, OrphansInv, JobsInv, Answers, Busy
<1> QED
  BY <1>1, <1>2, StartsKeep, RefusedKeeps DEF Next

\* The invariant: what roles are made of, who answers for an empty instance
\* profile, and how far each creation, clone, update and deletion has come.
THEOREM Invariant == Spec => []Inv
<1>1. Inv /\ [Next]_vars => Inv'
  BY NextKeeps
<1> QED
  BY <1>1, InitInv, PTL DEF Spec

\* Principals, instance profiles and jobs are what their types say.
THEOREM TypeCorrect == Spec => []TypeOK
<1>1. Inv => TypeOK
  BY DEF Inv
<1> QED
  BY <1>1, Invariant, PTL

\* Creations, clones and deletions, in any number and in any order, leave no
\* instance profile without its role behind that none of their replies reports.
THEOREM OrphansAreReportedAlways == Spec => []OrphansAreReported
<1>1. Inv => OrphansAreReported
  <2> SUFFICES ASSUME Inv, \A q \in Requests : ~Busy(job[q]), NEW r \in Roles,
                      profile[r] # "none", parts[r] = None \/ profile[r] = "empty"
               PROVE  \E q \in Requests : job[q].on = r /\ job[q].pc \in {"errors", "failed"}
    BY DEF OrphansAreReported
  <2>1. profile[r] = "empty"
    BY DEF Inv, TypeOK, RolesInv, RolesFit
  <2>2. PICK q \in Requests : Answers(job[q], r)
    BY <2>1 DEF Inv, OrphansInv
  <2>3. job[q].pc \notin {"add", "deleteProfile"}
    BY DEF Busy, Replies
  <2> QED
    BY <2>2, <2>3 DEF Answers
<1> QED
  BY <1>1, Invariant, PTL

\* A clone that clone_iam_role reports without an error has every policy the
\* source had from the beginning to the end.
THEOREM CleanCloneIsCompleteAlways == Spec => []CleanCloneIsComplete
<1>1. Inv => CleanCloneIsComplete
  BY DEF Inv, JobsInv, Ready, Copies, CleanCloneIsComplete
<1> QED
  BY <1>1, Invariant, PTL

\* delete_iam_role does not fail by itself, whatever the role is made of.
THEOREM RoleDeleteSucceedsAlways == Spec => []RoleDeleteSucceeds
<1>1. Inv => RoleDeleteSucceeds
  BY DEF Inv, JobsInv, Deletes, RoleDeleteSucceeds, DeleteSucceeds
<1> QED
  BY <1>1, Invariant, PTL
=============================================================================
