------------------------ MODULE DenialNoticesProofs ------------------------
(***************************************************************************)
(* Proofs about DenialNotices, for any number of messages, denials, runs   *)
(* and calls that overlap, and any batch and limit.                        *)
(***************************************************************************)
EXTENDS DenialNotices, FiniteSetTheorems, WellFoundedInduction, TLAPS

-----------------------------------------------------------------------------
(* The queue and the counts.                                               *)

\* A batch reports each denial a number of times, at least once if one of its
\* messages is of that denial.
LEMMA ReportedIsCounted ==
  ASSUME NEW S \in SUBSET Messages, NEW d
  PROVE  /\ Cardinality(Reported(d, S)) \in Nat
         /\ \A m \in S : kind[m] = d => Cardinality(Reported(d, S)) # 0
<1>1. Reported(d, S) \in SUBSET Messages
  BY DEF Reported
<1>2. IsFiniteSet(Reported(d, S))
  BY <1>1, FS_Subset, BoundsAssumption
<1>3. \A m \in S : kind[m] = d => Reported(d, S) # {}
  BY DEF Reported
<1> QED
  BY <1>2, <1>3, FS_CardinalityType, FS_EmptySet

\* The messages processed, at most the limit.
LEMMA MinIsBounded ==
  ASSUME NEW n \in Nat
  PROVE  Min({Limit, n}) \in 0 .. Limit
<1>1. Limit \in Nat
  BY BoundsAssumption
<1>2. \E x \in {Limit, n} : \A y \in {Limit, n} : x =< y
  BY <1>1
<1>3. /\ Min({Limit, n}) \in {Limit, n}
      /\ \A y \in {Limit, n} : Min({Limit, n}) =< y
  BY <1>2 DEF Min
<1> QED
  BY <1>1, <1>3

\* Receiving a batch moves its messages, adds its denials to what the run has
\* counted and to what has been delivered, and leaves the messages to delete.
LEMMA ProcessEffect ==
  ASSUME QueueTypes, NEW c \in Collectors, NEW S \in Receivable,
         NEW snap \in [Denials -> Nat], NEW num \in 0 .. Limit,
         Process(c, S, snap, num)
  PROVE  /\ S \in SUBSET Messages /\ \A m \in S : msg[m] = "visible"
         /\ msg' \in [Messages -> {"unsent", "visible", "received", "gone"}]
         /\ \A m \in Messages : msg'[m] = "gone" => msg[m] = "gone"
         /\ run' \in [Collectors -> RunType]
         /\ \A x \in Collectors \ {c} : run'[x] = run[x]
         /\ run'[c].pc \in {"write", "delete"} /\ run'[c].got \subseteq S
         /\ delivered' \in [Denials -> Nat]
         /\ \A d \in Denials :
              /\ run'[c].snap[d] = snap[d] + Cardinality(Reported(d, S))
              /\ delivered'[d] = delivered[d] + Cardinality(Reported(d, S))
<1>1. S \in SUBSET Messages /\ \A m \in S : msg[m] = "visible"
  BY DEF Receivable
<1>2. \A d \in Denials : Cardinality(Reported(d, S)) \in Nat
  BY <1>1, ReportedIsCounted
<1> DEFINE new == [d \in Denials |-> snap[d] + Cardinality(Reported(d, S))]
           made == {m \in S : kind[m] \in Denials}
<1>3. new \in [Denials -> Nat]
  BY <1>2
<1>4. delivered' \in [Denials -> Nat]
  BY <1>2 DEF Process, QueueTypes
<1>5. Min({Limit, num + Cardinality(made)}) \in 0 .. Limit
  <2>1. made \in SUBSET Messages
    BY <1>1
  <2>2. Cardinality(made) \in Nat
    BY <2>1, FS_Subset, FS_CardinalityType, BoundsAssumption
  <2>3. num + Cardinality(made) \in Nat
    BY <2>2, BoundsAssumption
  <2> QED
    BY <2>3, MinIsBounded
<1>6. Handled(S) \subseteq S
  BY DEF Handled
<1> DEFINE to == [pc   |-> IF Handled(S) = {} THEN "write" ELSE "delete",
                  snap |-> new, got |-> Handled(S),
                  num  |-> Min({Limit, num + Cardinality(made)})]
<1>7. to \in RunType
  BY <1>1, <1>3, <1>5, <1>6 DEF RunType
<1>8. run' = [run EXCEPT ![c] = to]
  BY DEF Process
<1> HIDE DEF to
<1>9. /\ run' \in [Collectors -> RunType]
      /\ run'[c] = to /\ \A x \in Collectors \ {c} : run'[x] = run[x]
  BY <1>7, <1>8 DEF QueueTypes, RunType
<1>10. /\ to.pc \in {"write", "delete"} /\ to.got \subseteq S
       /\ \A d \in Denials : to.snap[d] = snap[d] + Cardinality(Reported(d, S))
  BY <1>6 DEF to
<1> QED
  BY <1>1, <1>4, <1>9, <1>10 DEF Process, QueueTypes

\* No run is one that has counted nothing.
LEMMA IdleType == Idle \in RunType
BY BoundsAssumption DEF Idle, RunType

\* A denial a run knows replaces the count of the table, the others stay.
LEMMA WrittenType ==
  ASSUME QueueTypes, NEW snap \in [Denials -> Nat]
  PROVE  Written(snap) \in [Denials -> Nat]
BY DEF QueueTypes, Written

-----------------------------------------------------------------------------
(* Types.                                                                  *)

\* What a scene gives is well typed.
LEMMA InitTypes == Init => TypeOK
<1> SUFFICES ASSUME Init PROVE TypeOK
  OBVIOUS
<1>1. PICK s \in Scenes :
        /\ cast = s.cast /\ kind = s.reports /\ mishaps = s.mishaps
        /\ job \in [Calls -> [user : Users, toggle : Toggles, todo : {s.named}, toggled : {{}}]]
  BY DEF Init
<1>2. /\ s.reports \in [Messages -> Denials \cup {"skipped", "broken"}]
      /\ s.cast \subseteq Collectors \cup Calls /\ s.named \subseteq Notes /\ s.mishaps \in Nat
  BY ScenesAssumption
<1>3. QueueTypes
  <2>1. run \in [Collectors -> RunType]
    BY IdleType DEF Init
  <2> QED
    BY <1>1, <1>2, <2>1 DEF Init, QueueTypes, RunType
<1>4. job \in [Calls -> [user : Users, toggle : Toggles, todo : SUBSET Notes, toggled : SUBSET Notes]]
  BY <1>1, <1>2
<1>5. Nothing \in Rows
  BY DEF Nothing, Rows
<1> QED
  BY <1>3, <1>4, <1>5 DEF Init, TypeOK, NoticeTypes, Procs

\* Every step of the queue and of the runs keeps the types of theirs.
LEMMA QueueStepTypes ==
  ASSUME TypeOK, Next
  PROVE  QueueTypes'
<1> USE DEF QueueTypes
<1>0. QueueTypes
  BY DEF TypeOK
<1>t. ASSUME UNCHANGED queueVars, mishaps' \in Nat
      PROVE  QueueTypes'
  BY <1>0, <1>t DEF queueVars
<1>1. ASSUME NEW m \in Messages, Send(m) \/ Return(m)
      PROVE  QueueTypes'
  BY <1>0, <1>1 DEF Send, Return
<1>2. ASSUME NEW d \in Denials, ItemExpires(d)
      PROVE  QueueTypes'
  <2>1. calm' \in BOOLEAN
    BY <1>2, Zenon DEF ItemExpires
  <2>2. mishaps' \in Nat /\ table' \in [Denials -> Nat]
    BY <1>0, <1>2 DEF ItemExpires
  <2> QED
    BY <1>0, <1>2, <2>1, <2>2 DEF ItemExpires
<1>3. ASSUME NEW c \in Collectors, Collect(c) \/ CollectorFails(c)
      PROVE  QueueTypes'
  <2>1. run[c] \in RunType
    BY <1>0
  <2>2. ASSUME NEW S \in Receivable, NEW snap \in [Denials -> Nat], NEW num \in 0 .. Limit,
               Process(c, S, snap, num), UNCHANGED <<cast, kind, table, calm, mishaps>>
        PROVE  QueueTypes'
    BY <1>0, <2>2, ProcessEffect DEF RunType
  <2>3. CASE CollectorStart(c)
    <3>1. table \in [Denials -> Nat] /\ 0 \in 0 .. Limit
      BY <1>0, BoundsAssumption
    <3> QED
      BY <2>2, <2>3, <3>1 DEF CollectorStart
  <2>4. CASE CollectorReceive(c)
    BY <2>1, <2>2, <2>4 DEF CollectorReceive, RunType
  <2>5. CASE CollectorEnd(c)
    <3>1. run' \in [Collectors -> RunType]
      BY <1>0, <2>5, IdleType DEF CollectorEnd
    <3> QED
      BY <1>0, <2>5, <3>1 DEF CollectorEnd, RunType
  <2>6. CASE CollectorDelete(c)
    <3>1. run' \in [Collectors -> RunType]
      BY <1>0, <2>1, <2>6 DEF CollectorDelete, RunType
    <3> QED
      BY <1>0, <2>6, <3>1 DEF CollectorDelete, RunType
  <2>7. CASE CollectorWrite(c)
    <3>1. run' \in [Collectors -> RunType]
      BY <1>0, <2>1, <2>7 DEF CollectorWrite, RunType
    <3>2. Written(run[c].snap) \in [Denials -> Nat]
      BY <1>0, <2>1, WrittenType DEF RunType
    <3> QED
      BY <1>0, <2>7, <3>1, <3>2 DEF CollectorWrite, RunType
  <2>8. CASE CollectorFails(c)
    <3>1. run' \in [Collectors -> RunType]
      BY <1>0, <2>8, IdleType DEF CollectorFails
    <3>2. calm' \in BOOLEAN
      BY <2>8, Zenon DEF CollectorFails
    <3>3. mishaps' \in Nat
      BY <1>0, <2>8 DEF CollectorFails
    <3> QED
      BY <1>0, <2>8, <3>1, <3>2, <3>3 DEF CollectorFails
  <2> QED
    BY <1>3, <2>3, <2>4, <2>5, <2>6, <2>7, <2>8 DEF Collect
<1>4. CASE Notify \/ ErrorsFails
  BY <1>0, <1>t, <1>4
     DEF Notify, ErrorsStart, ErrorsProcess, ErrorsPut, ErrorsStore, ErrorsFails
<1>5. CASE CacherStart \/ CacherFails \/ \E n \in Notes : Lapse(n)
  BY <1>0, <1>t, <1>5 DEF CacherStart, CacherFails, Lapse
<1>6. CASE \E p \in Calls \cup {Cacher} : CacheRun(p)
  BY <1>0, <1>t, <1>6 DEF CacheRun, CacheScan, CacheExpire, CacheStore
<1>7. CASE \E c \in Calls : Call(c) \/ CallFails(c)
  BY <1>0, <1>t, <1>7 DEF Call, CallStart, CallFetch, CallPut, CallReply, CallFails
<1> QED
  BY <1>1, <1>2, <1>3, <1>4, <1>5, <1>6, <1>7 DEF Next

-----------------------------------------------------------------------------
(* Notifications: their types, and whom they are for.                      *)

\* What is put for a notification: one for those it concerns, or nothing.
Proper(n) == {r \in Row : r.to # {} /\ r.to \subseteq Recipients(n)} \cup {None}
ProperRows == {rows \in Rows : \A n \in Notes : rows[n] \in Proper(n)}

Told ==
  /\ notes \in ProperRows
  /\ seen \in [Procs -> ProperRows]
  /\ cache \in [Keys -> ProperRows]
  /\ \A k \in Keys, n \in Notes : cache[k][n] # None => k \in cache[k][n].to

\* That is what the property says.
LEMMA ToldIsAddressed == Told => OnlyTheConcernedAreTold
<1>1. \A rows \in ProperRows : Addressed(rows)
  BY DEF ProperRows, Proper, Addressed
<1> QED
  BY <1>1 DEF Told, OnlyTheConcernedAreTold

\* Nothing is for nobody.
LEMMA NothingIsProper == Nothing \in ProperRows
BY DEF Nothing, Rows, ProperRows, Proper

\* A notification is for those its denials concern.
LEMMA SessionsAreRecipients ==
  ASSUME NEW n \in Notes, NEW D \in SUBSET {d \in Denials : NoteOf[d] = n}
  PROVE  /\ Sessions(D) \subseteq Keys /\ Sessions(D) \subseteq Recipients(n)
         /\ \A d \in D : Owner[d] # None => Owner[d] \in Keys /\ Owner[d] \in Recipients(n)
<1>1. Users \subseteq Keys
  BY DEF Keys
<1>2. \A d \in D : Session[d] \in Users \cup {None} /\ Owner[d] \in Keys \cup {None}
  BY PeopleAssumption
<1>3. \A d \in D : \A x \in {Owner[d], Session[d]} : x # None => x \in Recipients(n)
  <2> TAKE d \in D
  <2>1. d \in {x \in Denials : NoteOf[x] = n}
    OBVIOUS
  <2>2. {Owner[d], Session[d]} \in {{Owner[x], Session[x]} : x \in {y \in Denials : NoteOf[y] = n}}
    BY <2>1
  <2> QED
    BY <2>2 DEF Recipients
<1> QED
  BY <1>1, <1>2, <1>3 DEF Sessions

\* So is what is made of them, which keeps the settings of what was there.
LEMMA MadeIsProper ==
  ASSUME NEW n \in Notes, NEW old \in Proper(n),
         NEW D \in SUBSET {d \in Denials : NoteOf[d] = n},
         NEW last, D # {} => last \in D
  PROVE  /\ Made(old, D, last) \in Proper(n)
         /\ Made(old, D, last) # None /\ old # None => Made(old, D, last).marks = old.marks
<1>1. CASE D = {}
  BY <1>1 DEF Made, Proper
<1>2. CASE D # {} /\ old # None
  <2>1. old \in Row /\ old.to # {} /\ old.to \subseteq Recipients(n)
    BY <1>2 DEF Proper
  <2>2. Renewed(old, D) \in Row
    BY <2>1, SessionsAreRecipients DEF Row, Renewed
  <2>3. Renewed(old, D).to # {} /\ Renewed(old, D).to \subseteq Recipients(n)
    BY <2>1, SessionsAreRecipients DEF Renewed
  <2>4. Made(old, D, last) = Renewed(old, D) /\ Renewed(old, D).marks = old.marks
    BY <1>2 DEF Made, Renewed
  <2> QED
    BY <2>2, <2>3, <2>4 DEF Proper
<1>3. CASE D # {} /\ old = None /\ Owner[last] # None
  <2> DEFINE new == [to |-> {Owner[last]} \cup Sessions({last}), marks |-> {}, current |-> TRUE]
  <2>1. {last} \in SUBSET {d \in Denials : NoteOf[d] = n} /\ last \in D
    BY <1>3
  <2>2. /\ Sessions({last}) \subseteq Keys /\ Sessions({last}) \subseteq Recipients(n)
        /\ Owner[last] \in Keys /\ Owner[last] \in Recipients(n)
    BY <1>3, <2>1, SessionsAreRecipients
  <2>3. new \in Row
    BY <2>2 DEF Row
  <2>4. new.to # {} /\ new.to \subseteq Recipients(n)
    BY <2>2
  <2>5. Made(old, D, last) = new
    BY <1>3 DEF Made
  <2> QED
    BY <1>3, <2>3, <2>4, <2>5 DEF Proper
<1>4. CASE D # {} /\ old = None /\ Owner[last] = None
  <2> DEFINE new == [to |-> Sessions(D), marks |-> {}, current |-> TRUE]
  <2>1. Made(old, D, last) = IF Sessions(D) = {} THEN None ELSE new
    BY <1>4 DEF Made
  <2>2. new \in Row /\ new.to \subseteq Recipients(n)
    BY SessionsAreRecipients DEF Row
  <2> QED
    BY <1>4, <2>1, <2>2 DEF Proper
<1> QED
  BY <1>1, <1>2, <1>3, <1>4

\* A notification that lapses is for the same people and has the same settings.
LEMMA AgedIsProper ==
  ASSUME NEW rows \in ProperRows, NEW n \in Notes
  PROVE  /\ Aged(rows, n) \in ProperRows
         /\ \A x \in Notes :
              /\ Aged(rows, n)[x] = None <=> rows[x] = None
              /\ rows[x] # None => /\ Aged(rows, n)[x].to = rows[x].to
                                  /\ Aged(rows, n)[x].marks = rows[x].marks
<1> DEFINE old == rows[n]
           new == IF old = None THEN None ELSE [old EXCEPT !.current = FALSE]
<1>1. rows \in Rows /\ \A x \in Notes : rows[x] \in Proper(x)
  BY DEF ProperRows
<1>2. /\ new \in Row \cup {None}
      /\ old # None => new \in Row /\ new.to = old.to /\ new.marks = old.marks
  BY <1>1 DEF Proper, Row
<1>3. Aged(rows, n) = [rows EXCEPT ![n] = new]
  BY DEF Aged
<1> HIDE DEF new
<1>4. Aged(rows, n) \in Rows
  BY <1>1, <1>2, <1>3 DEF Rows
<1>5. Aged(rows, n)[n] = new /\ \A x \in Notes \ {n} : Aged(rows, n)[x] = rows[x]
  BY <1>1, <1>3 DEF Rows
<1>6. old = None => new = None
  BY DEF new
<1>7. new \in Proper(n)
  BY <1>1, <1>2, <1>6 DEF Proper
<1> QED
  BY <1>1, <1>2, <1>4, <1>5, <1>6, <1>7, NoneAssumption DEF ProperRows

\* Those put back as expired are copies of what was read.
LEMMA LapsedIsProper ==
  ASSUME NEW rows \in ProperRows
  PROVE  /\ Lapsed(rows) \in ProperRows
         /\ \A n \in Notes : Lapsed(rows)[n] \in {None, rows[n]}
BY DEF ProperRows, Rows, Lapsed, Proper

\* Items put replace those of the table; what others have read is outdated
\* where the settings change.
LEMMA PutEffect ==
  ASSUME NoticeTypes, notes \in ProperRows, NEW p \in Procs, NEW items \in ProperRows,
         Put(p, items)
  PROVE  /\ notes' \in ProperRows /\ since' \in [Procs -> SUBSET Notes]
         /\ \A n \in Notes : notes'[n] = IF items[n] = None THEN notes[n] ELSE items[n]
         /\ since'[p] = {}
         /\ \A q \in Procs \ {p} : pc[q] \in {"errors", "put", "expire"} =>
              since'[q] = since[q] \cup Changed(notes, notes')
<1>1. \A n \in Notes : notes'[n] = IF items[n] = None THEN notes[n] ELSE items[n]
  BY DEF Put
<1>2. notes' \in Rows
  BY DEF Put, Rows, ProperRows
<1>3. notes' \in ProperRows
  BY <1>1, <1>2 DEF ProperRows
<1>4. Changed(notes, notes') \in SUBSET Notes
  BY DEF Changed
<1>5. since' \in [Procs -> SUBSET Notes]
  BY <1>4 DEF Put, NoticeTypes
<1> QED
  BY <1>1, <1>3, <1>5 DEF Put

\* Each field of the cache is kept, or holds what is for its user or group.
LEMMA StoreEffect ==
  ASSUME cache \in [Keys -> ProperRows], NEW rows \in ProperRows, Store(rows),
         \A k \in Keys, n \in Notes : cache[k][n] # None => k \in cache[k][n].to
  PROVE  /\ cache' \in [Keys -> ProperRows]
         /\ \A k \in Keys, n \in Notes : cache'[k][n] # None => k \in cache'[k][n].to
<1>1. \A k \in Keys : Fields(rows)[k] \in ProperRows
  BY DEF Fields, ProperRows, Rows, Proper
<1>2. \A k \in Keys, n \in Notes : Fields(rows)[k][n] # None => k \in Fields(rows)[k][n].to
  BY DEF Fields
<1>3. \A k \in Keys : cache'[k] \in {cache[k], Fields(rows)[k]}
  BY DEF Store
<1>4. cache' \in [Keys -> ProperRows]
  BY <1>1 DEF Store
<1> QED
  BY <1>2, <1>3, <1>4

\* A process has read again, or started.
LEMMA ReadsType ==
  ASSUME NoticeTypes, NEW p, NEW R, Reads(p, R)
  PROVE  since' \in [Procs -> SUBSET Notes]
<1>1. \A q \in Procs : since[q] \ R \in SUBSET Notes
  BY DEF NoticeTypes
<1> QED
  BY <1>1 DEF Reads, NoticeTypes

\* No call but the one that starts is left alone.
LEMMA StartType ==
  ASSUME NEW p, Start(p)
  PROVE  alone' \in SUBSET Calls
BY DEF Start

\* At the start there is no notification.
LEMMA InitTold == Init => Told
<1> SUFFICES ASSUME Init PROVE Told
  OBVIOUS
<1>1. \A k \in Keys, n \in Notes : cache[k][n] = None
  BY DEF Init, Nothing
<1> QED
  BY <1>1, NothingIsProper DEF Init, Told

\* Every step keeps the types of the notifications, and whom they are for.
LEMMA NoticeStep == NoticeTypes /\ Told /\ [Next]_vars => NoticeTypes' /\ Told'
<1> SUFFICES ASSUME NoticeTypes, Told, [Next]_vars PROVE NoticeTypes' /\ Told'
  OBVIOUS
<1> DEFINE ToPc   == pc' \in [Procs -> {"idle", "fetch", "errors", "put", "scan", "expire", "hash", "reply", "done", "failed"}]
                     /\ pc'[Errors] \in {"idle", "errors", "put", "hash"}
                     /\ pc'[Cacher] \in {"idle", "scan", "expire", "hash"}
           ToSeen == seen' \in [Procs -> ProperRows]
<1>0. \A rows \in ProperRows : rows \in Rows
  BY DEF ProperRows
<1>1. Errors \in Procs /\ Cacher \in Procs /\ Calls \subseteq Procs
  BY DEF Procs
<1>2. CASE UNCHANGED noteVars
  BY <1>2 DEF noteVars, NoticeTypes, Told
<1>3. ASSUME NEW n \in Notes, Lapse(n)
      PROVE  NoticeTypes' /\ Told'
  <2>1. notes' \in ProperRows /\ ToSeen
    BY <1>3, AgedIsProper DEF Lapse, Told
  <2>2. \A k \in Keys : cache'[k] = Aged(cache[k], n)
    BY <1>3 DEF Lapse
  <2>3. cache' \in [Keys -> ProperRows]
    BY <1>3, <2>2, AgedIsProper DEF Lapse, Told
  <2>4. \A k \in Keys, x \in Notes : cache'[k][x] # None => k \in cache'[k][x].to
    BY <2>2, AgedIsProper DEF Told
  <2> QED
    BY <1>0, <1>3, <2>1, <2>3, <2>4 DEF Lapse, NoticeTypes, Told
<1>4. CASE ErrorsStart
  <2>1. since' \in [Procs -> SUBSET Notes]
    BY <1>4, ReadsType DEF ErrorsStart
  <2>2. alone' \in SUBSET Calls
    BY <1>4, StartType DEF ErrorsStart
  <2>3. ToPc
    BY <1>1, <1>4, ProcsAssumption DEF ErrorsStart, NoticeTypes
  <2>4. ToSeen
    BY <1>4 DEF ErrorsStart, Told
  <2> QED
    BY <1>0, <1>4, <2>1, <2>2, <2>3, <2>4 DEF ErrorsStart, NoticeTypes, Told
<1>5. CASE ErrorsProcess
  <2>1. CASE WithoutPolicy # {}
    <3>1. since' \in [Procs -> SUBSET Notes]
      BY <1>5, <2>1, ReadsType DEF ErrorsProcess
    <3>2. ToPc
      BY <1>1, <1>5, <2>1, ProcsAssumption DEF ErrorsProcess, NoticeTypes
    <3>3. ToSeen
      BY <1>5, <2>1, NothingIsProper DEF ErrorsProcess, Told
    <3> QED
      BY <1>0, <1>5, <3>1, <3>2, <3>3 DEF ErrorsProcess, NoticeTypes, Told
  <2>2. CASE WithoutPolicy = {}
    <3>1. PICK last \in [Notes -> Denials] :
            /\ \A n \in Notes : NoteOf[last[n]] = n /\ (Standing(n) # {} => last[n] \in Standing(n))
            /\ LET made == [n \in Notes |-> Made(seen[Errors][n], Standing(n), last[n])]
               IN  /\ seen' = [seen EXCEPT ![Errors] = made]
                   /\ pc' = [pc EXCEPT ![Errors] = IF made = Nothing THEN "idle" ELSE "put"]
                   /\ IF made = Nothing THEN Reads(Errors, Notes) ELSE UNCHANGED since
      BY <1>5, <2>2 DEF ErrorsProcess
    <3> DEFINE made == [n \in Notes |-> Made(seen[Errors][n], Standing(n), last[n])]
    <3>2. \A n \in Notes : made[n] \in Proper(n)
      <4> TAKE n \in Notes
      <4>1. seen[Errors][n] \in Proper(n)
        BY <1>1 DEF Told, ProperRows
      <4>2. Standing(n) \in SUBSET {d \in Denials : NoteOf[d] = n}
        BY DEF Standing
      <4> QED
        BY <3>1, <4>1, <4>2, MadeIsProper
    <3>3. made \in ProperRows
      <4>1. \A n \in Notes : made[n] \in Row \cup {None}
        BY <3>2 DEF Proper
      <4> HIDE DEF made
      <4>2. made \in Rows
        BY <4>1 DEF Rows, made
      <4> QED
        BY <3>2, <4>2 DEF ProperRows
    <3> HIDE DEF made
    <3>4. /\ seen' = [seen EXCEPT ![Errors] = made]
          /\ pc' = [pc EXCEPT ![Errors] = IF made = Nothing THEN "idle" ELSE "put"]
          /\ IF made = Nothing THEN Reads(Errors, Notes) ELSE UNCHANGED since
      BY <3>1 DEF made
    <3>5. since' \in [Procs -> SUBSET Notes]
      BY <3>4, ReadsType DEF NoticeTypes
    <3>6. ToPc
      BY <1>1, <3>4, ProcsAssumption DEF NoticeTypes
    <3>7. ToSeen
      BY <3>3, <3>4 DEF Told
    <3> QED
      BY <1>0, <1>5, <3>5, <3>6, <3>7 DEF ErrorsProcess, NoticeTypes, Told
  <2> QED
    BY <2>1, <2>2
<1>6. CASE ErrorsPut
  <2>1. notes' \in ProperRows /\ since' \in [Procs -> SUBSET Notes]
    BY <1>1, <1>6, PutEffect DEF ErrorsPut, Told
  <2>2. ToPc
    BY <1>1, <1>6, ProcsAssumption DEF ErrorsPut, NoticeTypes
  <2> QED
    BY <1>0, <1>6, <2>1, <2>2 DEF ErrorsPut, NoticeTypes, Told
<1>7. CASE ErrorsStore
  <2>1. /\ cache' \in [Keys -> ProperRows]
        /\ \A k \in Keys, n \in Notes : cache'[k][n] # None => k \in cache'[k][n].to
    BY <1>1, <1>7, StoreEffect DEF ErrorsStore, Told
  <2>2. ToPc
    BY <1>1, <1>7, ProcsAssumption DEF ErrorsStore, NoticeTypes
  <2>3. ToSeen
    BY <1>7, NothingIsProper DEF ErrorsStore, Told
  <2> QED
    BY <1>0, <1>7, <2>1, <2>2, <2>3 DEF ErrorsStore, NoticeTypes, Told
<1>8. CASE ErrorsFails
  <2>1. ToPc
    BY <1>1, <1>8, ProcsAssumption DEF ErrorsFails, NoticeTypes
  <2>2. ToSeen
    BY <1>8, NothingIsProper DEF ErrorsFails, Told
  <2>3. CASE \E S \in SUBSET Notes :
                Put(Errors, [n \in Notes |-> IF n \in S THEN seen[Errors][n] ELSE None])
             /\ UNCHANGED cache
    <3>1. PICK S \in SUBSET Notes :
                Put(Errors, [n \in Notes |-> IF n \in S THEN seen[Errors][n] ELSE None])
             /\ UNCHANGED cache
      BY <2>3
    <3> DEFINE items == [n \in Notes |-> IF n \in S THEN seen[Errors][n] ELSE None]
    <3>2. items \in ProperRows
      BY <1>1 DEF Told, ProperRows, Rows, Proper
    <3> HIDE DEF items
    <3>3. notes' \in ProperRows /\ since' \in [Procs -> SUBSET Notes]
      BY <1>1, <3>1, <3>2, PutEffect DEF Told, items
    <3> QED
      BY <1>0, <1>8, <2>1, <2>2, <3>1, <3>3 DEF ErrorsFails, NoticeTypes, Told
  <2>4. CASE Store(seen[Errors]) /\ UNCHANGED <<notes, since>>
    <3>1. /\ cache' \in [Keys -> ProperRows]
          /\ \A k \in Keys, n \in Notes : cache'[k][n] # None => k \in cache'[k][n].to
      BY <1>1, <2>4, StoreEffect DEF Told
    <3> QED
      BY <1>0, <1>8, <2>1, <2>2, <2>4, <3>1 DEF ErrorsFails, NoticeTypes, Told
  <2>5. CASE Reads(Errors, Notes) /\ UNCHANGED <<notes, cache>>
    <3>1. since' \in [Procs -> SUBSET Notes]
      BY <2>5, ReadsType
    <3> QED
      BY <1>0, <1>8, <2>1, <2>2, <2>5, <3>1 DEF ErrorsFails, NoticeTypes, Told
  <2> QED
    BY <1>8, <2>3, <2>4, <2>5 DEF ErrorsFails
<1>9. CASE CacherStart
  <2>1. alone' \in SUBSET Calls
    BY <1>9, StartType DEF CacherStart
  <2>2. ToPc
    BY <1>1, <1>9, ProcsAssumption DEF CacherStart, NoticeTypes
  <2> QED
    BY <1>0, <1>9, <2>1, <2>2 DEF CacherStart, NoticeTypes, Told
<1>10. CASE CacherFails
  <2>1. since' \in [Procs -> SUBSET Notes]
    BY <1>10, ReadsType DEF CacherFails
  <2>2. ToPc
    BY <1>1, <1>10, ProcsAssumption DEF CacherFails, NoticeTypes
  <2>3. ToSeen
    BY <1>10, NothingIsProper DEF CacherFails, Told
  <2> QED
    BY <1>0, <1>10, <2>1, <2>2, <2>3 DEF CacherFails, NoticeTypes, Told
<1>11. ASSUME NEW p \in Calls \cup {Cacher}, CacheRun(p)
       PROVE  NoticeTypes' /\ Told'
  <2>1. p \in Procs /\ p # Errors
    BY <1>1, ProcsAssumption
  <2>2. CASE CacheScan(p)
    <3>1. since' \in [Procs -> SUBSET Notes]
      BY <2>2, ReadsType DEF CacheScan
    <3>2. ToPc
      BY <2>1, <2>2 DEF CacheScan, NoticeTypes
    <3>3. ToSeen
      BY <2>2 DEF CacheScan, Told
    <3> QED
      BY <1>0, <2>2, <3>1, <3>2, <3>3 DEF CacheScan, NoticeTypes, Told
  <2>3. CASE CacheExpire(p)
    <3>1. Lapsed(seen[p]) \in ProperRows
      BY <2>1, LapsedIsProper DEF Told
    <3>2. notes' \in ProperRows /\ since' \in [Procs -> SUBSET Notes]
      BY <2>1, <2>3, <3>1, PutEffect DEF CacheExpire, Told
    <3>3. ToPc
      BY <2>1, <2>3 DEF CacheExpire, NoticeTypes
    <3> QED
      BY <1>0, <2>3, <3>2, <3>3 DEF CacheExpire, NoticeTypes, Told
  <2>4. CASE CacheStore(p)
    <3>1. /\ cache' \in [Keys -> ProperRows]
          /\ \A k \in Keys, n \in Notes : cache'[k][n] # None => k \in cache'[k][n].to
      BY <2>1, <2>4, StoreEffect DEF CacheStore, Told
    <3>2. ToPc
      BY <2>1, <2>4, ProcsAssumption DEF CacheStore, NoticeTypes
    <3>3. ToSeen
      BY <2>4, NothingIsProper DEF CacheStore, Told
    <3> QED
      BY <1>0, <2>4, <3>1, <3>2, <3>3 DEF CacheStore, NoticeTypes, Told
  <2> QED
    BY <1>11, <2>2, <2>3, <2>4 DEF CacheRun
<1>12. ASSUME NEW c \in Calls, Call(c) \/ CallFails(c)
       PROVE  NoticeTypes' /\ Told'
  <2> DEFINE Jobs == [user : Users, toggle : Toggles, todo : SUBSET Notes, toggled : SUBSET Notes]
  <2>0. c \in Procs /\ c # Errors /\ c # Cacher /\ job[c] \in Jobs
    BY <1>1, ProcsAssumption DEF NoticeTypes
  <2>1. CASE CallStart(c)
    <3>1. alone' \in SUBSET Calls
      BY <2>1, StartType DEF CallStart
    <3>2. ToPc
      BY <2>0, <2>1 DEF CallStart, NoticeTypes
    <3> QED
      BY <1>0, <2>1, <3>1, <3>2 DEF CallStart, NoticeTypes, Told
  <2>2. CASE CallFetch(c)
    <3>1. PICK n \in job[c].todo :
           IF notes[n] # None /\ InGroup(job[c].user, notes[n].to)
            THEN /\ job' = [job EXCEPT ![c].todo = @ \ {n}, ![c].toggled = @ \cup {n}]
                 /\ pc' = [pc EXCEPT ![c] = "put"]
                 /\ seen' = [seen EXCEPT ![c] =
                       [Nothing EXCEPT ![n] = [notes[n] EXCEPT !.marks = Toggled(@, Mark(c))]]]
                 /\ Reads(c, {n})
            ELSE /\ job' = [job EXCEPT ![c].todo = @ \ {n}]
                 /\ pc' = [pc EXCEPT ![c] = IF job[c].todo = {n} THEN "reply" ELSE "fetch"]
                 /\ UNCHANGED <<seen, since>>
      BY <2>2 DEF CallFetch
    <3>2. n \in Notes
      BY <2>0, <3>1
    <3>3. ToPc
      <4>1. \E to \in {"put", "reply", "fetch"} : pc' = [pc EXCEPT ![c] = to]
        BY <3>1, Zenon
      <4> QED
        BY <2>0, <4>1 DEF NoticeTypes
    <3>4. job' \in [Calls -> Jobs]
      <4>1. job[c].todo \ {n} \in SUBSET Notes /\ job[c].toggled \cup {n} \in SUBSET Notes
        BY <2>0, <3>2
      <4>2. [job[c] EXCEPT !.todo = @ \ {n}] \in Jobs
        BY <2>0, <4>1
      <4>3. [job[c] EXCEPT !.todo = @ \ {n}, !.toggled = @ \cup {n}] \in Jobs
        BY <2>0, <4>1
      <4>4. \/ job' = [job EXCEPT ![c] = [job[c] EXCEPT !.todo = @ \ {n}]]
            \/ job' = [job EXCEPT ![c] = [job[c] EXCEPT !.todo = @ \ {n}, !.toggled = @ \cup {n}]]
        BY <3>1, Zenon
      <4>5. job \in [Calls -> Jobs]
        BY DEF NoticeTypes
      <4> HIDE DEF Jobs
      <4> QED
        BY <4>2, <4>3, <4>4, <4>5
    <3>5. since' \in [Procs -> SUBSET Notes]
      BY <3>1, ReadsType DEF NoticeTypes
    <3>6. ToSeen
      <4>1. CASE notes[n] # None /\ InGroup(job[c].user, notes[n].to)
        <5> DEFINE new == [notes[n] EXCEPT !.marks = Toggled(@, Mark(c))]
        <5>1. Mark(c) \in Settings
          BY <2>0, DenialsAssumption DEF Mark, Settings, AllToggles
        <5>2. notes[n] \in Proper(n) /\ notes[n] \in Row
          BY <3>2, <4>1 DEF Told, ProperRows, Proper
        <5>3. Toggled(notes[n].marks, Mark(c)) \subseteq Settings
          BY <5>1, <5>2 DEF Row, Toggled
        <5>4. new \in Row /\ new.to = notes[n].to
          BY <5>2, <5>3 DEF Row
        <5>5. new \in Proper(n)
          BY <4>1, <5>2, <5>4 DEF Proper
        <5> HIDE DEF new
        <5>6. [Nothing EXCEPT ![n] = new] \in ProperRows
          BY <3>2, <5>4, <5>5, NothingIsProper DEF ProperRows, Rows
        <5>7. seen' = [seen EXCEPT ![c] = [Nothing EXCEPT ![n] = new]]
          BY <3>1, <4>1 DEF new
        <5> QED
          BY <5>6, <5>7 DEF Told
      <4> QED
        BY <3>1, <4>1 DEF Told
    <3> QED
      BY <1>0, <2>2, <3>3, <3>4, <3>5, <3>6 DEF CallFetch, NoticeTypes, Told
  <2>3. CASE CallPut(c)
    <3>1. notes' \in ProperRows /\ since' \in [Procs -> SUBSET Notes]
      BY <2>0, <2>3, PutEffect DEF CallPut, Told
    <3>2. ToPc
      BY <2>0, <2>3 DEF CallPut, NoticeTypes
    <3> QED
      BY <1>0, <2>3, <3>1, <3>2 DEF CallPut, NoticeTypes, Told
  <2>4. ASSUME Ends(c) PROVE alone' \subseteq Calls /\ job' \in [Calls -> Jobs]
    BY <2>0, <2>4 DEF Ends, NoticeTypes
  <2>5. CASE CallReply(c)
    <3>1. ToPc
      BY <2>0, <2>5 DEF CallReply, NoticeTypes
    <3> QED
      BY <1>0, <2>4, <2>5, <3>1 DEF CallReply, NoticeTypes, Told
  <2>6. CASE CallFails(c)
    <3>1. ToPc
      BY <2>0, <2>6 DEF CallFails, NoticeTypes
    <3>2. since' \in [Procs -> SUBSET Notes]
      BY <2>6, ReadsType DEF CallFails
    <3>3. ToSeen
      BY <2>6, NothingIsProper DEF CallFails, Told
    <3> QED
      BY <1>0, <2>4, <2>6, <3>1, <3>2, <3>3 DEF CallFails, NoticeTypes, Told
  <2> QED
    BY <1>12, <2>1, <2>2, <2>3, <2>5, <2>6 DEF Call
<1>13. ASSUME NEW m \in Messages, Send(m) \/ Return(m)
       PROVE  UNCHANGED noteVars
  BY <1>13 DEF Send, Return
<1>14. ASSUME NEW d \in Denials, ItemExpires(d)
       PROVE  UNCHANGED noteVars
  BY <1>14 DEF ItemExpires
<1>15. ASSUME NEW c \in Collectors, Collect(c) \/ CollectorFails(c)
       PROVE  UNCHANGED noteVars
  BY <1>15 DEF Collect, CollectorStart, CollectorReceive, CollectorEnd, CollectorDelete,
               CollectorWrite, CollectorFails
<1>16. UNCHANGED vars => UNCHANGED noteVars
  BY DEF vars
<1> QED
  BY <1>2, <1>3, <1>4, <1>5, <1>6, <1>7, <1>8, <1>9, <1>10, <1>11, <1>12, <1>13, <1>14,
     <1>15, <1>16 DEF Next, Notify

\* Types, over all behaviours.
THEOREM TypeCorrect == Spec => []TypeOK
<1>1. Init => TypeOK /\ Told
  BY InitTypes, InitTold
<1>2. TypeOK /\ Told /\ [Next]_vars => (TypeOK /\ Told)'
  <2>1. TypeOK /\ UNCHANGED vars => QueueTypes'
    BY DEF TypeOK, QueueTypes, vars, queueVars
  <2> QED
    BY <2>1, QueueStepTypes, NoticeStep DEF TypeOK
<1> QED
  BY <1>1, <1>2, PTL DEF Spec

\* Whatever is put, renewed or cached, and by whom, only the owner of a role
\* and the users of its sessions are told of its denials.
THEOREM NoticesGoToTheConcerned == Spec => []OnlyTheConcernedAreTold
<1>1. NoticeTypes /\ Told /\ [Next]_vars => (NoticeTypes /\ Told)'
  BY NoticeStep
<1>2. Init => NoticeTypes /\ Told
  BY InitTypes, InitTold DEF TypeOK
<1> QED
  BY <1>1, <1>2, ToldIsAddressed, PTL DEF Spec

-----------------------------------------------------------------------------
(* The counts, and the denials that messages report.                       *)

\* The steps of the notifications leave the queue and the runs alone.
LEMMA QueueStays ==
  ASSUME Next
  PROVE  \/ UNCHANGED queueVars
         \/ \E m \in Messages : Send(m) \/ Return(m)
         \/ \E d \in Denials : ItemExpires(d)
         \/ \E c \in Collectors : Collect(c) \/ CollectorFails(c)
<1>1. CASE Notify \/ ErrorsFails
  BY <1>1 DEF Notify, ErrorsStart, ErrorsProcess, ErrorsPut, ErrorsStore, ErrorsFails
<1>2. CASE CacherStart \/ CacherFails \/ \E n \in Notes : Lapse(n)
  BY <1>2 DEF CacherStart, CacherFails, Lapse
<1>3. CASE \E p \in Calls \cup {Cacher} : CacheRun(p)
  BY <1>3 DEF CacheRun, CacheScan, CacheExpire, CacheStore
<1>4. CASE \E c \in Calls : Call(c) \/ CallFails(c)
  BY <1>4 DEF Call, CallStart, CallFetch, CallPut, CallReply, CallFails
<1> QED
  BY <1>1, <1>2, <1>3, <1>4 DEF Next

\* A batch is counted and delivered alike.
LEMMA ProcessCounts ==
  ASSUME QueueTypes, CountsInv, NEW c \in Collectors, NEW S \in Receivable,
         NEW snap \in [Denials -> Nat], NEW num \in 0 .. Limit,
         Process(c, S, snap, num), UNCHANGED table,
         \A d \in Denials : snap[d] <= delivered[d]
  PROVE  CountsInv'
<1> SUFFICES ASSUME NEW d \in Denials
             PROVE  /\ table'[d] <= delivered'[d]
                    /\ \A x \in Collectors : run'[x].snap[d] <= delivered'[d]
  BY DEF CountsInv
<1>1. /\ \A x \in Collectors \ {c} : run'[x] = run[x]
      /\ run'[c].snap[d] = snap[d] + Cardinality(Reported(d, S))
      /\ delivered'[d] = delivered[d] + Cardinality(Reported(d, S))
      /\ S \in SUBSET Messages
  BY ProcessEffect
<1>2. Cardinality(Reported(d, S)) \in Nat
  BY <1>1, ReportedIsCounted
<1>3. /\ table[d] \in Nat /\ delivered[d] \in Nat /\ snap[d] \in Nat
      /\ \A x \in Collectors : run[x].snap[d] \in Nat
  BY DEF QueueTypes, RunType
<1>4. table[d] <= delivered[d] /\ \A x \in Collectors : run[x].snap[d] <= delivered[d]
  BY DEF CountsInv
<1>5. snap[d] <= delivered[d]
  OBVIOUS
<1>6. run'[c].snap[d] <= delivered'[d]
  BY <1>1, <1>2, <1>3, <1>5
<1>7. ASSUME NEW x \in Collectors \ {c} PROVE run'[x].snap[d] <= delivered'[d]
  BY <1>1, <1>2, <1>3, <1>4
<1>8. table'[d] <= delivered'[d]
  BY <1>1, <1>2, <1>3, <1>4
<1> QED
  BY <1>6, <1>7, <1>8

\* No step makes a count exceed what has been received.
LEMMA CountsStep == TypeOK /\ CountsInv /\ [Next]_vars => CountsInv'
<1> SUFFICES ASSUME TypeOK, CountsInv, [Next]_vars PROVE CountsInv'
  OBVIOUS
<1>0. QueueTypes
  BY DEF TypeOK
<1>1. /\ \A d \in Denials : table[d] \in Nat /\ delivered[d] \in Nat
      /\ \A c \in Collectors : run[c] \in RunType /\ run[c].snap \in [Denials -> Nat]
  BY <1>0 DEF QueueTypes, RunType
<1>2. CASE UNCHANGED queueVars
  BY <1>2 DEF queueVars, CountsInv
<1>3. ASSUME NEW m \in Messages, Send(m) \/ Return(m)
      PROVE  CountsInv'
  BY <1>3 DEF Send, Return, CountsInv
<1>4. ASSUME NEW d \in Denials, ItemExpires(d)
      PROVE  CountsInv'
  BY <1>0, <1>1, <1>4 DEF ItemExpires, CountsInv, QueueTypes
<1>5. ASSUME NEW c \in Collectors, Collect(c) \/ CollectorFails(c)
      PROVE  CountsInv'
  <2>1. CASE CollectorStart(c)
    <3>1. table \in [Denials -> Nat] /\ 0 \in 0 .. Limit
      BY <1>0, BoundsAssumption DEF QueueTypes
    <3>2. \A d \in Denials : table[d] <= delivered[d]
      BY DEF CountsInv
    <3> QED
      BY <1>0, <2>1, <3>1, <3>2, ProcessCounts DEF CollectorStart
  <2>2. CASE CollectorReceive(c)
    <3>1. run[c].num \in 0 .. Limit
      BY <1>1 DEF RunType
    <3>2. \A d \in Denials : run[c].snap[d] <= delivered[d]
      BY DEF CountsInv
    <3> QED
      BY <1>0, <1>1, <2>2, <3>1, <3>2, ProcessCounts DEF CollectorReceive
  <2>3. ASSUME run' = [run EXCEPT ![c] = Idle], UNCHANGED <<table, delivered>>
        PROVE  CountsInv'
    <3>1. \A d \in Denials : Idle.snap[d] <= delivered[d]
      BY <1>1 DEF Idle
    <3> QED
      BY <1>0, <2>3, <3>1 DEF CountsInv, QueueTypes
  <2>4. CASE CollectorDelete(c)
    <3>1. \A x \in Collectors : run'[x].snap = run[x].snap
      BY <1>0, <2>4 DEF CollectorDelete, QueueTypes, RunType
    <3> QED
      BY <2>4, <3>1 DEF CollectorDelete, CountsInv
  <2>5. CASE CollectorWrite(c)
    <3>1. \A x \in Collectors : run'[x].snap = run[x].snap
      BY <1>0, <2>5 DEF CollectorWrite, QueueTypes, RunType
    <3>2. \A d \in Denials : table'[d] \in {table[d], run[c].snap[d]}
      BY <2>5 DEF CollectorWrite, Written
    <3> QED
      BY <2>5, <3>1, <3>2 DEF CollectorWrite, CountsInv
  <2> QED
    BY <1>5, <2>1, <2>2, <2>3, <2>4, <2>5 DEF Collect, CollectorEnd, CollectorFails
<1>6. UNCHANGED vars => UNCHANGED queueVars
  BY DEF vars
<1> QED
  BY <1>2, <1>3, <1>4, <1>5, <1>6, QueueStays

\* Runs that overlap, read an old table or receive a message again lose counts
\* but make none up: no count exceeds the times the denial was received.
THEOREM CountsAreBackedAlways == Spec => []CountsAreBacked
<1>1. Init => CountsInv
  BY DEF Init, CountsInv, Idle
<1>2. TypeOK /\ CountsInv /\ [Next]_vars => CountsInv'
  BY CountsStep
<1>3. CountsInv => CountsAreBacked
  BY DEF CountsInv, CountsAreBacked
<1> QED
  BY <1>1, <1>2, <1>3, TypeCorrect, PTL DEF Spec

\* A batch is counted before its messages are deleted.
LEMMA ProcessKeeps ==
  ASSUME QueueTypes, LossInv, NEW c \in Collectors, NEW S \in Receivable,
         NEW snap \in [Denials -> Nat], NEW num \in 0 .. Limit,
         run[c].pc # "write",
         Process(c, S, snap, num), UNCHANGED <<kind, table, calm>>
  PROVE  LossInv'
<1>1. /\ S \in SUBSET Messages /\ \A m \in Messages : msg'[m] = "gone" => msg[m] = "gone"
      /\ \A x \in Collectors \ {c} : run'[x] = run[x]
      /\ run'[c].got \subseteq S
      /\ \A d \in Denials : run'[c].snap[d] = snap[d] + Cardinality(Reported(d, S))
  BY ProcessEffect
<1>2. ASSUME NEW m \in S, kind[m] \in Denials PROVE run'[c].snap[kind[m]] # 0
  <2>1. /\ Cardinality(Reported(kind[m], S)) \in Nat
        /\ Cardinality(Reported(kind[m], S)) # 0
    BY <1>1, ReportedIsCounted
  <2>2. snap[kind[m]] \in Nat
    BY <1>2
  <2>3. run'[c].snap[kind[m]] = snap[kind[m]] + Cardinality(Reported(kind[m], S))
    BY <1>1, <1>2
  <2> QED
    BY <2>1, <2>2, <2>3
<1>3. NoDenialIsLost'
  BY <1>1 DEF LossInv, NoDenialIsLost
<1> QED
  BY <1>1, <1>2, <1>3 DEF LossInv

\* No step loses a denial, but those that end the calm.
LEMMA LossStep == TypeOK /\ LossInv /\ [Next]_vars => LossInv'
<1> SUFFICES ASSUME TypeOK, LossInv, [Next]_vars PROVE LossInv'
  OBVIOUS
<1>0. QueueTypes
  BY DEF TypeOK
<1>1. \A c \in Collectors : run[c] \in RunType
  BY <1>0 DEF QueueTypes
<1>2. CASE UNCHANGED queueVars
  BY <1>2 DEF queueVars, LossInv, NoDenialIsLost
<1>3. ASSUME NEW m \in Messages, Send(m) \/ Return(m)
      PROVE  LossInv'
  <2>1. \A x \in Messages : msg'[x] = "gone" => msg[x] = "gone"
    BY <1>0, <1>3 DEF Send, Return, QueueTypes
  <2> QED
    BY <1>3, <2>1 DEF Send, Return, LossInv, NoDenialIsLost
<1>4. ASSUME NEW d \in Denials, ItemExpires(d)
      PROVE  LossInv'
  BY <1>4 DEF ItemExpires, LossInv, NoDenialIsLost
<1>5. ASSUME NEW c \in Collectors, Collect(c) \/ CollectorFails(c)
      PROVE  LossInv'
  <2>1. CASE CollectorStart(c)
    <3>1. table \in [Denials -> Nat] /\ 0 \in 0 .. Limit
      BY <1>0, BoundsAssumption DEF QueueTypes
    <3> QED
      BY <1>0, <2>1, <3>1, ProcessKeeps DEF CollectorStart
  <2>2. CASE CollectorReceive(c)
    <3>1. run[c].num \in 0 .. Limit /\ run[c].snap \in [Denials -> Nat]
      BY <1>1 DEF RunType
    <3> QED
      BY <1>0, <2>2, <3>1, ProcessKeeps DEF CollectorReceive
  <2>3. CASE CollectorEnd(c)
    <3>1. \A m \in Messages : msg'[m] = "gone" => msg[m] = "gone"
      BY <2>3 DEF CollectorEnd
    <3>2. /\ run'[c].pc = "idle" /\ \A x \in Collectors \ {c} : run'[x] = run[x]
          /\ run[c].pc = "receive"
      BY <1>0, <2>3 DEF CollectorEnd, QueueTypes, Idle
    <3> QED
      BY <2>3, <3>1, <3>2 DEF CollectorEnd, LossInv, NoDenialIsLost
  <2>4. CASE CollectorDelete(c)
    <3>1. /\ run[c].pc = "delete" /\ run'[c].pc = "write" /\ run'[c].snap = run[c].snap
          /\ \A x \in Collectors \ {c} : run'[x] = run[x]
      BY <1>0, <1>1, <2>4 DEF CollectorDelete, QueueTypes, RunType
    <3>2. \A m \in Messages : msg'[m] = "gone" => m \in run[c].got \/ msg[m] = "gone"
      BY <2>4 DEF CollectorDelete
    <3>3. calm' = calm /\ kind' = kind /\ table' = table
      BY <2>4 DEF CollectorDelete
    <3>4. ASSUME calm, NEW m \in Messages, msg'[m] = "gone", kind[m] \in Denials
          PROVE  \/ table'[kind[m]] # 0
                 \/ \E x \in Collectors : run'[x].pc = "write" /\ run'[x].snap[kind[m]] # 0
      <4>1. CASE m \in run[c].got
        BY <3>1, <3>4, <4>1 DEF LossInv
      <4>2. CASE msg[m] = "gone"
        <5>1. \/ table[kind[m]] # 0
              \/ \E x \in Collectors : run[x].pc = "write" /\ run[x].snap[kind[m]] # 0
          BY <3>4, <4>2 DEF LossInv, NoDenialIsLost
        <5> QED
          BY <3>1, <3>3, <5>1
      <4> QED
        BY <3>2, <3>4, <4>1, <4>2
    <3>5. NoDenialIsLost'
      BY <3>3, <3>4 DEF NoDenialIsLost
    <3> QED
      BY <3>1, <3>3, <3>5 DEF LossInv
  <2>5. CASE CollectorWrite(c)
    <3>1. /\ run[c].pc = "write" /\ run'[c].pc = "receive"
          /\ \A x \in Collectors \ {c} : run'[x] = run[x]
      BY <1>0, <1>1, <2>5 DEF CollectorWrite, QueueTypes, RunType
    <3>2. \A d \in Denials : run[c].snap[d] # 0 \/ table[d] # 0 => table'[d] # 0
      BY <2>5 DEF CollectorWrite, Written
    <3> QED
      BY <2>5, <3>1, <3>2 DEF CollectorWrite, LossInv, NoDenialIsLost
  <2>6. CASE CollectorFails(c)
    <3>1. run'[c].pc = "idle" /\ \A x \in Collectors \ {c} : run'[x] = run[x]
      BY <1>0, <2>6 DEF CollectorFails, QueueTypes, Idle
    <3> QED
      BY <2>6, <3>1 DEF CollectorFails, LossInv, NoDenialIsLost
  <2> QED
    BY <1>5, <2>1, <2>2, <2>3, <2>4, <2>5, <2>6 DEF Collect
<1>6. UNCHANGED vars => UNCHANGED queueVars
  BY DEF vars
<1> QED
  BY <1>2, <1>3, <1>4, <1>5, <1>6, QueueStays

\* Unless a run has failed or an item has expired, a denial whose message is
\* gone is in the table or about to be written.
THEOREM NoDenialIsLostAlways == Spec => []NoDenialIsLost
<1>1. Init => LossInv
  BY DEF Init, LossInv, NoDenialIsLost, Idle
<1>2. TypeOK /\ LossInv /\ [Next]_vars => LossInv'
  BY LossStep
<1>3. LossInv => NoDenialIsLost
  BY DEF LossInv
<1> QED
  BY <1>1, <1>2, <1>3, TypeCorrect, PTL DEF Spec

-----------------------------------------------------------------------------
(* The settings.                                                           *)

\* A call keeps its user and the setting it toggles.
SameMarks == \A c \in Calls : job'[c].user = job[c].user /\ job'[c].toggle = job[c].toggle

\* A process puts items, and the others do nothing: what they hold is outdated
\* where it no longer agrees.
LEMMA PutStep ==
  ASSUME NoticeTypes, SettingsInv, NEW p \in Procs, NEW items,
         \A n \in Notes : notes'[n] = IF items[n] = None THEN notes[n] ELSE items[n],
         p # Errors => \A n \in Notes : items[n] # None => notes[n] # None,
         \A q \in Procs \ {p} :
            /\ pc'[q] = pc[q] /\ seen'[q] = seen[q]
            /\ pc[q] \in {"errors", "put", "expire"} =>
                 since'[q] = since[q] \cup Changed(notes, notes'),
         SameMarks, CopiesAgree(p)',
         p # Errors => \A n \in Notes : seen'[p][n] # None => notes'[n] # None,
         p = Errors /\ pc'[Errors] = "errors" =>
            \A n \in Notes : seen'[Errors][n] # None <=> notes'[n] # None
  PROVE  SettingsInv'
<1>1. ASSUME NEW q \in Procs \ {p}
      PROVE  CopiesAgree(q)'
  <2> SUFFICES ASSUME pc[q] \in {"errors", "put", "expire"}, NEW n \in Notes, n \notin since'[q],
                      seen[q][n] # None, notes'[n] # None
               PROVE  seen[q][n].marks = IF q \in Calls /\ pc[q] = "put"
                                         THEN Toggled(notes'[n].marks, Mark(q))
                                         ELSE notes'[n].marks
    BY <1>1 DEF CopiesAgree, Mark, SameMarks
  <2>1. n \notin since[q] /\ n \notin Changed(notes, notes')
    BY <1>1
  <2>2. notes[n] # None
    <3>1. CASE q # Errors
      BY <3>1, <1>1 DEF SettingsInv, CopiesExist
    <3>2. CASE q = Errors
      BY <3>2, <1>1
    <3> QED
      BY <3>1, <3>2
  <2>3. notes'[n].marks = notes[n].marks
    BY <2>1, <2>2 DEF Changed
  <2> QED
    BY <1>1, <2>1, <2>2, <2>3 DEF SettingsInv, CopiesAgree
<1>2. \A n \in Notes : notes[n] # None => notes'[n] # None
  OBVIOUS
<1>3. \A q \in Procs \ {Errors}, n \in Notes : seen'[q][n] # None => notes'[n] # None
  BY <1>2 DEF SettingsInv, CopiesExist
<1>4. ASSUME pc'[Errors] = "errors"
      PROVE  \A n \in Notes : seen'[Errors][n] # None <=> notes'[n] # None
  <2>1. CASE p # Errors
    <3>1. Errors \in Procs \ {p}
      BY <2>1 DEF Procs
    <3>2. pc[Errors] = "errors" /\ seen'[Errors] = seen[Errors]
      BY <1>4, <3>1
    <3>3. \A n \in Notes : notes'[n] # None <=> notes[n] # None
      BY <2>1
    <3> QED
      BY <3>2, <3>3 DEF SettingsInv, CopiesExist
  <2> QED
    BY <1>4, <2>1
<1> QED
  BY <1>1, <1>3, <1>4 DEF SettingsInv, CopiesExist

\* A process does anything else, and the others nothing.
LEMMA ReadStep ==
  ASSUME NoticeTypes, SettingsInv, NEW p \in Procs, notes' = notes,
         \A q \in Procs \ {p} :
            pc'[q] = pc[q] /\ seen'[q] = seen[q] /\ since'[q] = since[q],
         SameMarks, CopiesAgree(p)',
         p # Errors => \A n \in Notes : seen'[p][n] # None => notes[n] # None,
         p = Errors /\ pc'[Errors] = "errors" =>
            \A n \in Notes : seen'[Errors][n] # None <=> notes[n] # None
  PROVE  SettingsInv'
<1>1. Changed(notes, notes') = {}
  BY DEF Changed
<1>2. \A n \in Notes : Nothing[n] = None
  BY DEF Nothing
<1> QED
  BY <1>1, <1>2, PutStep

\* Reading again takes what was read out of what is outdated.
LEMMA ReadsEffect ==
  ASSUME NoticeTypes, NEW p \in Procs, NEW R, Reads(p, R)
  PROVE  since'[p] = since[p] \ R /\ \A q \in Procs \ {p} : since'[q] = since[q]
BY DEF NoticeTypes, Reads

\* What a process reads agrees with the table.
LEMMA SettingsStep == NoticeTypes /\ Told /\ SettingsInv /\ [Next]_vars => SettingsInv'
<1> SUFFICES ASSUME NoticeTypes, Told, SettingsInv, [Next]_vars PROVE SettingsInv'
  OBVIOUS
<1> DEFINE Resting(p) == pc'[p] \notin {"errors", "put", "expire"}
<1>0. ASSUME NEW p, Resting(p) PROVE CopiesAgree(p)'
  BY <1>0 DEF CopiesAgree
<1>1. Errors \in Procs /\ Cacher \in Procs /\ Calls \subseteq Procs
  BY DEF Procs
<1>n. \A n \in Notes : Nothing[n] = None
  BY DEF Nothing
<1>j. UNCHANGED job => SameMarks
  BY DEF SameMarks
<1>2. CASE UNCHANGED noteVars
  BY <1>2 DEF noteVars, SettingsInv, CopiesExist, CopiesAgree, Mark
<1>3. ASSUME NEW n \in Notes, Lapse(n)
      PROVE  SettingsInv'
  <2>1. \A x \in Notes :
          /\ notes'[x] = None <=> notes[x] = None
          /\ notes[x] # None => notes'[x].marks = notes[x].marks
    BY <1>3, AgedIsProper DEF Lapse, Told
  <2>2. \A q \in Procs, x \in Notes :
          /\ seen'[q][x] = None <=> seen[q][x] = None
          /\ seen[q][x] # None => seen'[q][x].marks = seen[q][x].marks
    <3> TAKE q \in Procs
    <3>1. seen'[q] \in {seen[q], Aged(seen[q], n)}
      BY <1>3 DEF Lapse
    <3>2. seen[q] \in ProperRows
      BY DEF Told
    <3> QED
      BY <3>1, <3>2, AgedIsProper
  <2>3. pc' = pc /\ since' = since /\ job' = job
    BY <1>3 DEF Lapse
  <2>4. CopiesExist'
    BY <1>1, <2>1, <2>2, <2>3 DEF SettingsInv, CopiesExist
  <2>5. ASSUME NEW q \in Procs PROVE CopiesAgree(q)'
    BY <2>1, <2>2, <2>3 DEF SettingsInv, CopiesAgree, Mark
  <2> QED
    BY <2>4, <2>5 DEF SettingsInv
<1>4. CASE ErrorsStart
  <2>1. /\ seen'[Errors] = notes /\ notes' = notes
        /\ \A q \in Procs \ {Errors} : pc'[q] = pc[q] /\ seen'[q] = seen[q] /\ since'[q] = since[q]
    BY <1>1, <1>4, ReadsEffect DEF ErrorsStart, NoticeTypes
  <2>2. CopiesAgree(Errors)'
    BY <2>1, ProcsAssumption DEF CopiesAgree
  <2> QED
    BY <1>1, <1>4, <1>j, <2>1, <2>2, ReadStep DEF ErrorsStart
<1>5. CASE ErrorsProcess
  <2>1. CASE WithoutPolicy # {}
    <3>1. /\ seen'[Errors] = Nothing /\ notes' = notes /\ pc'[Errors] = "idle"
          /\ \A q \in Procs \ {Errors} : pc'[q] = pc[q] /\ seen'[q] = seen[q] /\ since'[q] = since[q]
      BY <1>1, <1>5, <2>1, ReadsEffect DEF ErrorsProcess, NoticeTypes
    <3> QED
      BY <1>0, <1>1, <1>5, <1>j, <3>1, ReadStep DEF ErrorsProcess
  <2>2. CASE WithoutPolicy = {}
    <3>1. PICK last \in [Notes -> Denials] :
            /\ \A n \in Notes : NoteOf[last[n]] = n /\ (Standing(n) # {} => last[n] \in Standing(n))
            /\ LET made == [n \in Notes |-> Made(seen[Errors][n], Standing(n), last[n])]
               IN  /\ seen' = [seen EXCEPT ![Errors] = made]
                   /\ pc' = [pc EXCEPT ![Errors] = IF made = Nothing THEN "idle" ELSE "put"]
                   /\ IF made = Nothing THEN Reads(Errors, Notes) ELSE UNCHANGED since
      BY <1>5, <2>2 DEF ErrorsProcess
    <3> DEFINE made == [n \in Notes |-> Made(seen[Errors][n], Standing(n), last[n])]
    <3>2. ASSUME NEW n \in Notes, seen[Errors][n] # None, made[n] # None
          PROVE  made[n].marks = seen[Errors][n].marks
      <4>1. seen[Errors][n] \in Proper(n)
        BY <1>1 DEF Told, ProperRows
      <4>2. Standing(n) \in SUBSET {d \in Denials : NoteOf[d] = n}
        BY DEF Standing
      <4> QED
        BY <3>1, <3>2, <4>1, <4>2, MadeIsProper
    <3> HIDE DEF made
    <3>3. /\ seen' = [seen EXCEPT ![Errors] = made]
          /\ pc' = [pc EXCEPT ![Errors] = IF made = Nothing THEN "idle" ELSE "put"]
          /\ IF made = Nothing THEN Reads(Errors, Notes) ELSE UNCHANGED since
      BY <3>1 DEF made
    <3>4. /\ seen'[Errors] = made /\ notes' = notes /\ pc[Errors] = "errors"
          /\ pc'[Errors] = IF made = Nothing THEN "idle" ELSE "put"
          /\ \A q \in Procs \ {Errors} : pc'[q] = pc[q] /\ seen'[q] = seen[q]
      BY <1>1, <1>5, <3>3 DEF ErrorsProcess, NoticeTypes
    <3>5. /\ pc'[Errors] = "put" => since'[Errors] = since[Errors]
          /\ \A q \in Procs \ {Errors} : since'[q] = since[q]
      BY <1>1, <3>3, <3>4, ReadsEffect
    <3>6. CopiesAgree(Errors)'
      <4> SUFFICES ASSUME pc'[Errors] = "put", NEW n \in Notes, n \notin since[Errors],
                          made[n] # None, notes[n] # None
                   PROVE  made[n].marks = notes[n].marks
        BY <3>4, <3>5, ProcsAssumption DEF CopiesAgree
      <4>1. seen[Errors][n] # None
        BY <3>4 DEF SettingsInv, CopiesExist
      <4>2. seen[Errors][n].marks = notes[n].marks
        BY <1>1, <3>4, <4>1, ProcsAssumption DEF SettingsInv, CopiesAgree
      <4> QED
        BY <3>2, <4>1, <4>2
    <3> QED
      BY <1>1, <1>5, <1>j, <3>4, <3>5, <3>6, ReadStep DEF ErrorsProcess
  <2> QED
    BY <2>1, <2>2
<1>6. CASE ErrorsPut
  <2>1. /\ \A n \in Notes : notes'[n] = IF seen[Errors][n] = None THEN notes[n] ELSE seen[Errors][n]
        /\ \A q \in Procs \ {Errors} : pc[q] \in {"errors", "put", "expire"} =>
              since'[q] = since[q] \cup Changed(notes, notes')
    BY <1>1, <1>6, PutEffect DEF ErrorsPut, Told
  <2>2. /\ pc'[Errors] = "hash"
        /\ \A q \in Procs \ {Errors} : pc'[q] = pc[q] /\ seen'[q] = seen[q]
    BY <1>1, <1>6 DEF ErrorsPut, NoticeTypes
  <2> QED
    BY <1>0, <1>1, <1>6, <1>j, <2>1, <2>2, PutStep DEF ErrorsPut
<1>7. CASE ErrorsStore
  <2>1. /\ pc'[Errors] = "idle" /\ notes' = notes
        /\ \A q \in Procs \ {Errors} : pc'[q] = pc[q] /\ seen'[q] = seen[q] /\ since'[q] = since[q]
    BY <1>1, <1>7 DEF ErrorsStore, NoticeTypes
  <2> QED
    BY <1>0, <1>1, <1>7, <1>j, <2>1, ReadStep DEF ErrorsStore
<1>8. CASE ErrorsFails
  <2>1. /\ pc'[Errors] = "idle"
        /\ \A q \in Procs \ {Errors} : pc'[q] = pc[q] /\ seen'[q] = seen[q]
    BY <1>1, <1>8 DEF ErrorsFails, NoticeTypes
  <2>2. SameMarks
    BY <1>8, <1>j DEF ErrorsFails
  <2>3. CASE \E S \in SUBSET Notes :
                Put(Errors, [n \in Notes |-> IF n \in S THEN seen[Errors][n] ELSE None])
    <3>1. PICK S \in SUBSET Notes :
                Put(Errors, [n \in Notes |-> IF n \in S THEN seen[Errors][n] ELSE None])
      BY <2>3
    <3> DEFINE items == [n \in Notes |-> IF n \in S THEN seen[Errors][n] ELSE None]
    <3>2. items \in ProperRows
      BY <1>1 DEF Told, ProperRows, Rows, Proper
    <3> HIDE DEF items
    <3>3. /\ \A n \in Notes : notes'[n] = IF items[n] = None THEN notes[n] ELSE items[n]
          /\ \A q \in Procs \ {Errors} : pc[q] \in {"errors", "put", "expire"} =>
                since'[q] = since[q] \cup Changed(notes, notes')
      BY <1>1, <3>1, <3>2, PutEffect DEF Told, items
    <3> QED
      BY <1>0, <1>1, <2>1, <2>2, <3>3, PutStep
  <2>4. CASE UNCHANGED <<notes, since>>
    BY <1>0, <1>1, <2>1, <2>2, <2>4, ReadStep
  <2>5. CASE Reads(Errors, Notes) /\ UNCHANGED notes
    <3>1. \A q \in Procs \ {Errors} : since'[q] = since[q]
      BY <1>1, <2>5, ReadsEffect
    <3> QED
      BY <1>0, <1>1, <2>1, <2>2, <2>5, <3>1, ReadStep
  <2> QED
    BY <1>8, <2>3, <2>4, <2>5 DEF ErrorsFails
<1>9. CASE CacherStart
  <2>1. /\ pc'[Cacher] = "scan" /\ notes' = notes /\ seen' = seen
        /\ \A q \in Procs \ {Cacher} : pc'[q] = pc[q] /\ since'[q] = since[q]
    BY <1>1, <1>9 DEF CacherStart, NoticeTypes
  <2>2. \A n \in Notes : seen[Cacher][n] # None => notes[n] # None
    BY <1>1, ProcsAssumption DEF SettingsInv, CopiesExist
  <2> QED
    BY <1>0, <1>1, <1>9, <1>j, <2>1, <2>2, ProcsAssumption, ReadStep DEF CacherStart
<1>10. CASE CacherFails
  <2>1. /\ pc'[Cacher] = "scan" /\ notes' = notes /\ seen'[Cacher] = Nothing
        /\ \A q \in Procs \ {Cacher} : pc'[q] = pc[q] /\ seen'[q] = seen[q] /\ since'[q] = since[q]
    BY <1>1, <1>10, ReadsEffect DEF CacherFails, NoticeTypes
  <2> QED
    BY <1>0, <1>1, <1>10, <1>j, <1>n, <2>1, ProcsAssumption, ReadStep DEF CacherFails
<1>11. ASSUME NEW p \in Calls \cup {Cacher}, CacheRun(p)
       PROVE  SettingsInv'
  <2>0. p \in Procs /\ p # Errors
    BY <1>1, ProcsAssumption
  <2>1. SameMarks
    BY <1>11, <1>j DEF CacheRun, CacheScan, CacheExpire, CacheStore
  <2>2. CASE CacheScan(p)
    <3>0. \A q \in Procs \ {p} : since'[q] = since[q]
      BY <2>0, <2>2, ReadsEffect DEF CacheScan
    <3>1. /\ seen'[p] = notes /\ notes' = notes /\ pc'[p] \in {"hash", "expire"}
          /\ \A q \in Procs \ {p} : pc'[q] = pc[q] /\ seen'[q] = seen[q] /\ since'[q] = since[q]
      BY <2>0, <2>2, <3>0 DEF CacheScan, NoticeTypes
    <3>2. CopiesAgree(p)'
      BY <3>1 DEF CopiesAgree
    <3> QED
      BY <2>0, <2>1, <3>1, <3>2, ReadStep
  <2>3. CASE CacheExpire(p)
    <3>1. seen[p] \in ProperRows /\ Lapsed(seen[p]) \in ProperRows
      BY <2>0, LapsedIsProper DEF Told
    <3>2. /\ \A n \in Notes : notes'[n] = IF Lapsed(seen[p])[n] = None THEN notes[n] ELSE Lapsed(seen[p])[n]
          /\ \A q \in Procs \ {p} : pc[q] \in {"errors", "put", "expire"} =>
                since'[q] = since[q] \cup Changed(notes, notes')
      BY <2>0, <2>3, <3>1, PutEffect DEF CacheExpire, Told
    <3>3. \A n \in Notes : Lapsed(seen[p])[n] # None => seen[p][n] # None
      BY <3>1, LapsedIsProper
    <3>4. \A n \in Notes : seen[p][n] # None => notes[n] # None
      BY <2>0 DEF SettingsInv, CopiesExist
    <3>5. pc'[p] = "hash" /\ seen' = seen /\ \A q \in Procs \ {p} : pc'[q] = pc[q]
      BY <2>0, <2>3 DEF CacheExpire, NoticeTypes
    <3> QED
      BY <1>0, <2>0, <2>1, <3>2, <3>3, <3>4, <3>5, PutStep
  <2>4. CASE CacheStore(p)
    <3>1. /\ pc'[p] \in {"idle", "reply", "fetch"} /\ notes' = notes /\ seen'[p] = Nothing
          /\ \A q \in Procs \ {p} : pc'[q] = pc[q] /\ seen'[q] = seen[q] /\ since'[q] = since[q]
      BY <2>0, <2>4 DEF CacheStore, NoticeTypes
    <3> QED
      BY <1>0, <1>n, <2>0, <2>1, <3>1, ReadStep
  <2> QED
    BY <1>11, <2>2, <2>3, <2>4 DEF CacheRun
<1>12. ASSUME NEW c \in Calls, Call(c) \/ CallFails(c)
       PROVE  SettingsInv'
  <2>0. c \in Procs /\ c # Errors /\ c # Cacher
    BY <1>1, ProcsAssumption
  <2>1. \A n \in Notes : seen[c][n] # None => notes[n] # None
    BY <2>0 DEF SettingsInv, CopiesExist
  <2>2. CASE CallStart(c)
    <3>1. /\ pc'[c] = "fetch" /\ notes' = notes /\ seen' = seen
          /\ \A q \in Procs \ {c} : pc'[q] = pc[q] /\ since'[q] = since[q]
      BY <2>0, <2>2 DEF CallStart, NoticeTypes
    <3> QED
      BY <1>0, <1>j, <2>0, <2>1, <2>2, <3>1, ReadStep DEF CallStart
  <2>3. CASE CallFetch(c)
    <3>1. PICK n \in job[c].todo :
           IF notes[n] # None /\ InGroup(job[c].user, notes[n].to)
            THEN /\ job' = [job EXCEPT ![c].todo = @ \ {n}, ![c].toggled = @ \cup {n}]
                 /\ pc' = [pc EXCEPT ![c] = "put"]
                 /\ seen' = [seen EXCEPT ![c] =
                       [Nothing EXCEPT ![n] = [notes[n] EXCEPT !.marks = Toggled(@, Mark(c))]]]
                 /\ Reads(c, {n})
            ELSE /\ job' = [job EXCEPT ![c].todo = @ \ {n}]
                 /\ pc' = [pc EXCEPT ![c] = IF job[c].todo = {n} THEN "reply" ELSE "fetch"]
                 /\ UNCHANGED <<seen, since>>
      BY <2>3 DEF CallFetch
    <3>2. notes' = notes
      BY <2>3 DEF CallFetch
    <3>3. CASE notes[n] # None /\ InGroup(job[c].user, notes[n].to)
      <4> DEFINE new == [notes[n] EXCEPT !.marks = Toggled(@, Mark(c))]
      <4>1. /\ job' = [job EXCEPT ![c].todo = @ \ {n}, ![c].toggled = @ \cup {n}]
            /\ pc' = [pc EXCEPT ![c] = "put"]
            /\ seen' = [seen EXCEPT ![c] = [Nothing EXCEPT ![n] = new]]
            /\ Reads(c, {n})
        BY <3>1, <3>3
      <4>2. n \in Notes
        BY <3>1 DEF NoticeTypes
      <4>3. notes[n] \in Row
        BY <3>3, <4>2 DEF NoticeTypes, Rows
      <4>4. new.marks = Toggled(notes[n].marks, Mark(c))
        BY <4>3 DEF Row
      <4> HIDE DEF new
      <4>5. SameMarks
        BY <4>1 DEF SameMarks, NoticeTypes
      <4>6. /\ pc'[c] = "put" /\ seen'[c] = [Nothing EXCEPT ![n] = new]
            /\ \A q \in Procs \ {c} : pc'[q] = pc[q] /\ seen'[q] = seen[q] /\ since'[q] = since[q]
        BY <2>0, <4>1, ReadsEffect DEF NoticeTypes
      <4>7. seen'[c][n] = new /\ \A x \in Notes \ {n} : seen'[c][x] = None
        BY <4>2, <4>6 DEF Nothing
      <4>8. CopiesAgree(c)'
        BY <3>2, <4>4, <4>5, <4>6, <4>7 DEF CopiesAgree, SameMarks, Mark
      <4> QED
        BY <2>0, <3>2, <3>3, <4>5, <4>6, <4>7, <4>8, ReadStep
    <3>4. CASE ~(notes[n] # None /\ InGroup(job[c].user, notes[n].to))
      <4>1. /\ job' = [job EXCEPT ![c].todo = @ \ {n}]
            /\ pc' = [pc EXCEPT ![c] = IF job[c].todo = {n} THEN "reply" ELSE "fetch"]
            /\ UNCHANGED <<seen, since>>
        BY <3>1, <3>4
      <4>2. SameMarks
        BY <4>1 DEF SameMarks, NoticeTypes
      <4>3. pc'[c] \in {"reply", "fetch"} /\ \A q \in Procs \ {c} : pc'[q] = pc[q]
        BY <2>0, <4>1 DEF NoticeTypes
      <4> QED
        BY <1>0, <2>0, <2>1, <3>2, <4>1, <4>2, <4>3, ReadStep
    <3> QED
      BY <3>3, <3>4
  <2>4. CASE CallPut(c)
    <3>1. seen[c] \in ProperRows
      BY <2>0 DEF Told
    <3>2. /\ \A n \in Notes : notes'[n] = IF seen[c][n] = None THEN notes[n] ELSE seen[c][n]
          /\ \A q \in Procs \ {c} : pc[q] \in {"errors", "put", "expire"} =>
                since'[q] = since[q] \cup Changed(notes, notes')
      BY <2>0, <2>4, <3>1, PutEffect DEF CallPut, Told
    <3>3. pc'[c] = "scan" /\ seen' = seen /\ \A q \in Procs \ {c} : pc'[q] = pc[q]
      BY <2>0, <2>4 DEF CallPut, NoticeTypes
    <3> QED
      BY <1>0, <1>j, <2>0, <2>1, <2>4, <3>2, <3>3, PutStep DEF CallPut
  <2>5. Ends(c) => SameMarks
    BY DEF Ends, SameMarks, NoticeTypes
  <2>6. CASE CallReply(c)
    <3>1. /\ pc'[c] = "done" /\ notes' = notes /\ seen' = seen
          /\ \A q \in Procs \ {c} : pc'[q] = pc[q] /\ since'[q] = since[q]
      BY <2>0, <2>6 DEF CallReply, NoticeTypes
    <3> QED
      BY <1>0, <2>0, <2>1, <2>5, <2>6, <3>1, ReadStep DEF CallReply
  <2>7. CASE CallFails(c)
    <3>1. /\ pc'[c] = "failed" /\ notes' = notes /\ seen'[c] = Nothing
          /\ \A q \in Procs \ {c} : pc'[q] = pc[q] /\ seen'[q] = seen[q] /\ since'[q] = since[q]
      BY <2>0, <2>7, ReadsEffect DEF CallFails, NoticeTypes
    <3> QED
      BY <1>0, <1>n, <2>0, <2>5, <2>7, <3>1, ReadStep DEF CallFails
  <2> QED
    BY <1>12, <2>2, <2>3, <2>4, <2>6, <2>7 DEF Call
<1>13. ASSUME NEW m \in Messages, Send(m) \/ Return(m)
       PROVE  UNCHANGED noteVars
  BY <1>13 DEF Send, Return
<1>14. ASSUME NEW d \in Denials, ItemExpires(d)
       PROVE  UNCHANGED noteVars
  BY <1>14 DEF ItemExpires
<1>15. ASSUME NEW c \in Collectors, Collect(c) \/ CollectorFails(c)
       PROVE  UNCHANGED noteVars
  BY <1>15 DEF Collect, CollectorStart, CollectorReceive, CollectorEnd, CollectorDelete,
               CollectorWrite, CollectorFails
<1>16. UNCHANGED vars => UNCHANGED noteVars
  BY DEF vars
<1> QED
  BY <1>2, <1>3, <1>4, <1>5, <1>6, <1>7, <1>8, <1>9, <1>10, <1>11, <1>12, <1>13, <1>14,
     <1>15, <1>16 DEF Next, Notify

\* What a step does to the settings, from what the invariant says of the copies.
LEMMA SettingsKept ==
  ASSUME NoticeTypes, Told, SettingsInv, [Next]_vars,
         NEW p \in Procs, NEW n \in Notes, pc'[p] # pc[p], notes[n] # None, n \notin since[p]
  PROVE  /\ notes'[n] # None
         /\ notes'[n].marks =
               IF p \in Calls /\ pc[p] = "put" /\ pc'[p] = "scan" /\ seen[p][n] # None
               THEN Toggled(notes[n].marks, Mark(p))
               ELSE notes[n].marks
<1> DEFINE Goal == /\ notes'[n] # None
                   /\ notes'[n].marks =
                         IF p \in Calls /\ pc[p] = "put" /\ pc'[p] = "scan" /\ seen[p][n] # None
                         THEN Toggled(notes[n].marks, Mark(p))
                         ELSE notes[n].marks
<1>0. Errors \in Procs /\ Cacher \in Procs /\ Calls \subseteq Procs
  BY DEF Procs
<1>1. ASSUME notes' = notes, ~(p \in Calls /\ pc[p] = "put" /\ pc'[p] = "scan")
      PROVE  Goal
  BY <1>1
<1>2. ASSUME notes'[n] \in {notes[n], seen[p][n]}, notes'[n] # None,
             pc[p] \in {"errors", "put", "expire"},
             p \in Calls /\ pc[p] = "put" => pc'[p] = "scan" /\ (seen[p][n] # None => notes'[n] = seen[p][n])
      PROVE  Goal
  <2>1. seen[p][n] # None => seen[p][n].marks = IF p \in Calls /\ pc[p] = "put"
                                               THEN Toggled(notes[n].marks, Mark(p))
                                               ELSE notes[n].marks
    BY <1>2 DEF SettingsInv, CopiesAgree
  <2>2. CASE seen[p][n] = None
    BY <1>2, <2>2
  <2>3. CASE seen[p][n] # None /\ p \in Calls /\ pc[p] = "put"
    BY <1>2, <2>1, <2>3
  <2>4. CASE seen[p][n] # None /\ ~(p \in Calls /\ pc[p] = "put")
    BY <1>2, <2>1, <2>4
  <2> QED
    BY <2>2, <2>3, <2>4
<1>3. ASSUME NEW q \in Procs, pc' = pc \/ \E to : pc' = [pc EXCEPT ![q] = to]
      PROVE  p = q
  BY <1>3 DEF NoticeTypes
<1>4. CASE UNCHANGED pc
  BY <1>4
<1>5. CASE ErrorsStart \/ ErrorsProcess \/ ErrorsStore
  <2>1. p = Errors /\ notes' = notes
    <3>1. CASE ErrorsProcess
      BY <1>0, <1>3, <3>1 DEF ErrorsProcess
    <3> QED
      BY <1>0, <1>3, <1>5, <3>1 DEF ErrorsStart, ErrorsStore
  <2> QED
    BY <1>1, <2>1, ProcsAssumption
<1>6. CASE ErrorsPut
  <2>1. p = Errors /\ pc[p] = "put"
    BY <1>0, <1>3, <1>6 DEF ErrorsPut
  <2>2. notes'[n] = IF seen[p][n] = None THEN notes[n] ELSE seen[p][n]
    BY <1>0, <1>6, <2>1, PutEffect DEF ErrorsPut, Told
  <2> QED
    BY <1>2, <2>1, <2>2, ProcsAssumption
<1>7. CASE ErrorsFails
  <2>1. p = Errors
    BY <1>0, <1>3, <1>7 DEF ErrorsFails
  <2>2. CASE pc[Errors] = "put"
    <3>1. PICK S \in SUBSET Notes :
                Put(Errors, [x \in Notes |-> IF x \in S THEN seen[Errors][x] ELSE None])
      BY <1>7, <2>2 DEF ErrorsFails
    <3>2. notes'[n] \in {notes[n], seen[p][n]} /\ notes'[n] # None
      BY <2>1, <3>1 DEF Put
    <3> QED
      BY <1>2, <2>1, <2>2, <3>2, ProcsAssumption
  <2>3. CASE pc[Errors] # "put"
    BY <1>1, <1>7, <2>1, <2>3, ProcsAssumption DEF ErrorsFails
  <2> QED
    BY <2>2, <2>3
<1>8. CASE CacherStart \/ CacherFails
  <2>1. p = Cacher /\ notes' = notes
    BY <1>0, <1>3, <1>8 DEF CacherStart, CacherFails
  <2> QED
    BY <1>1, <2>1, ProcsAssumption
<1>9. ASSUME NEW q \in Calls \cup {Cacher}, CacheRun(q)
      PROVE  Goal
  <2>1. CASE CacheScan(q)
    <3>1. p = q /\ notes' = notes /\ pc[p] = "scan"
      BY <1>0, <1>3, <2>1 DEF CacheScan
    <3> QED
      BY <1>1, <3>1
  <2>2. CASE CacheExpire(q)
    <3>1. p = q /\ pc[p] = "expire"
      BY <1>0, <1>3, <2>2 DEF CacheExpire
    <3>2. notes'[n] \in {notes[n], seen[p][n]} /\ notes'[n] # None
      BY <2>2, <3>1 DEF CacheExpire, Put, Lapsed
    <3> QED
      BY <1>2, <3>1, <3>2
  <2>3. CASE CacheStore(q)
    <3>1. p = q /\ notes' = notes /\ pc[p] = "hash"
      BY <1>0, <1>3, <2>3 DEF CacheStore
    <3> QED
      BY <1>1, <3>1
  <2> QED
    BY <1>9, <2>1, <2>2, <2>3 DEF CacheRun
<1>10. ASSUME NEW c \in Calls, Call(c) \/ CallFails(c)
       PROVE  Goal
  <2>1. CASE CallStart(c) \/ CallFetch(c) \/ CallReply(c)
    <3>1. p = c /\ notes' = notes /\ pc[p] # "put"
      <4>1. CASE CallFetch(c)
        BY <1>0, <1>3, <4>1 DEF CallFetch
      <4> QED
        BY <1>0, <1>3, <2>1, <4>1 DEF CallStart, CallReply
    <3> QED
      BY <1>1, <3>1
  <2>2. CASE CallFails(c)
    <3>1. p = c /\ notes' = notes /\ pc'[p] = "failed"
      BY <1>0, <1>3, <2>2 DEF CallFails, NoticeTypes
    <3> QED
      BY <1>1, <3>1
  <2>3. CASE CallPut(c)
    <3>1. p = c /\ pc[p] = "put" /\ pc'[p] = "scan"
      BY <1>0, <1>3, <2>3 DEF CallPut, NoticeTypes
    <3>2. notes'[n] = IF seen[p][n] = None THEN notes[n] ELSE seen[p][n]
      BY <2>3, <3>1 DEF CallPut, Put
    <3> QED
      BY <1>2, <3>1, <3>2
  <2> QED
    BY <1>10, <2>1, <2>2, <2>3 DEF Call
<1>11. CASE (\E n1 \in Notes : Lapse(n1)) \/ UNCHANGED noteVars
  BY <1>4, <1>11 DEF Lapse, noteVars
<1>12. ASSUME NEW m \in Messages, Send(m) \/ Return(m)
       PROVE  UNCHANGED noteVars
  BY <1>12 DEF Send, Return
<1>13. ASSUME NEW d \in Denials, ItemExpires(d)
       PROVE  UNCHANGED noteVars
  BY <1>13 DEF ItemExpires
<1>14. ASSUME NEW c \in Collectors, Collect(c) \/ CollectorFails(c)
       PROVE  UNCHANGED noteVars
  BY <1>14 DEF Collect, CollectorStart, CollectorReceive, CollectorEnd, CollectorDelete,
               CollectorWrite, CollectorFails
<1>15. UNCHANGED vars => UNCHANGED noteVars
  BY DEF vars
<1> QED
  BY <1>5, <1>6, <1>7, <1>8, <1>9, <1>10, <1>11, <1>12, <1>13, <1>14, <1>15 DEF Next, Notify

\* A setting is only undone by a toggle of the same setting, or by a process
\* that read the notification before it was made.
THEOREM SettingsSurviveAlways == Spec => SettingsSurvive
<1>1. Init => SettingsInv
  <2> SUFFICES ASSUME Init PROVE SettingsInv
    OBVIOUS
  <2>1. \A p \in Procs, n \in Notes : pc[p] = "idle" /\ seen[p][n] = None
    BY DEF Init, Nothing
  <2> QED
    BY <2>1 DEF SettingsInv, CopiesExist, CopiesAgree, Procs
<1>2. Init => NoticeTypes /\ Told
  BY InitTypes, InitTold DEF TypeOK
<1>3. NoticeTypes /\ Told /\ SettingsInv /\ [Next]_vars => (NoticeTypes /\ Told /\ SettingsInv)'
  BY NoticeStep, SettingsStep
<1>4. NoticeTypes /\ Told /\ SettingsInv /\ [Next]_vars =>
        [\A p \in Procs, n \in Notes :
           pc'[p] # pc[p] /\ notes[n] # None /\ n \notin since[p] =>
              /\ notes'[n] # None
              /\ notes'[n].marks =
                    IF p \in Calls /\ pc[p] = "put" /\ pc'[p] = "scan" /\ seen[p][n] # None
                    THEN Toggled(notes[n].marks, Mark(p))
                    ELSE notes[n].marks]_vars
  BY SettingsKept
<1> QED
  BY <1>1, <1>2, <1>3, <1>4, PTL DEF Spec, SettingsSurvive

-----------------------------------------------------------------------------
(* Calls that nothing overlaps.                                            *)

\* Every set of positions has a first.
LEMMA MinIsMember ==
  ASSUME NEW I \in SUBSET Nat, I # {}
  PROVE  Min(I) \in I
<1> DEFINE R == OpToRel(<, Nat)
<1>1. IsWellFoundedOn(R, Nat)
  BY NatLessThanWellFounded
<1>2. \A x, y \in Nat : x < y => <<x, y>> \in R
  BY DEF OpToRel
<1> HIDE DEF R
<1>3. \E x \in I : \A y \in I : ~(<<y, x>> \in R)
  BY <1>1, WFMin
<1>4. \E x \in I : \A y \in I : x =< y
  <2>1. PICK x \in I : \A y \in I : ~(<<y, x>> \in R)
    BY <1>3
  <2>2. ASSUME NEW y \in I PROVE x =< y
    <3>1. ~(y < x)
      BY <1>2, <2>1
    <3> QED
      BY <3>1
  <2> QED
    BY <2>2
<1> QED
  BY <1>4 DEF Min

\* What is to be shown for one notification: the first of the copies is the
\* notification itself, when none lingers.
LEMMA CopyIsNotification ==
  ASSUME NoticeTypes, NEW u \in Users, NEW n \in Notes, notes[n] # None, ~Lingers(u, n),
         InGroup(u, notes[n].to), \A k \in notes[n].to : cache[k][n] = notes[n]
  PROVE  /\ n \in Shown(u) <=> notes[n].current /\ <<"hidden", u>> \notin notes[n].marks
         /\ n \in Unread(u) <=>
              n \in Shown(u) /\ notes[n].marks \cap {<<"read", u>>, <<"read", "all">>} = {}
<1> DEFINE D == DOMAIN KeysOf(u)
<1>1. D \in SUBSET Nat
  <2>1. u \in Keys /\ GroupsOf[u] \in Seq(Keys)
    BY PeopleAssumption DEF Keys
  <2>2. KeysOf(u) \in Seq(Keys)
    BY <2>1 DEF KeysOf
  <2> QED
    BY <2>2
<1> HIDE DEF D
<1>2. \A i \in D : /\ KeysOf(u)[i] \notin notes[n].to => cache[KeysOf(u)[i]][n] = None
                   /\ KeysOf(u)[i] \in notes[n].to => cache[KeysOf(u)[i]][n] = notes[n]
  BY DEF Lingers, D
<1>3. PICK i \in D : KeysOf(u)[i] \in notes[n].to
  BY DEF InGroup, D
<1>4. Copies(u, n) \subseteq D
  BY DEF Copies, D
<1>5. Copies(u, n) # {} <=> <<"hidden", u>> \notin notes[n].marks
  BY <1>2, <1>3 DEF Copies, D
<1>6. Copies(u, n) # {} => Copy(u, n) = notes[n]
  <2> SUFFICES ASSUME Copies(u, n) # {} PROVE Copy(u, n) = notes[n]
    OBVIOUS
  <2>1. Min(Copies(u, n)) \in Copies(u, n)
    BY <1>1, <1>4, MinIsMember
  <2>2. cache[KeysOf(u)[Min(Copies(u, n))]][n] # None
    BY <2>1 DEF Copies
  <2> QED
    BY <1>2, <1>4, <2>1, <2>2 DEF Copy
<1>7. n \in Shown(u) <=> Copies(u, n) # {} /\ Copy(u, n).current
  BY DEF Shown
<1>8. n \in Unread(u) <=>
        n \in Shown(u) /\ Copy(u, n).marks \cap {<<"read", u>>, <<"read", "all">>} = {}
  BY DEF Unread
<1>9. n \in Shown(u) <=> notes[n].current /\ <<"hidden", u>> \notin notes[n].marks
  <2>1. CASE Copies(u, n) = {}
    BY <1>5, <1>7, <2>1
  <2>2. CASE Copies(u, n) # {}
    BY <1>5, <1>6, <1>7, <2>2
  <2> QED
    BY <2>1, <2>2
<1> QED
  BY <1>6, <1>7, <1>8, <1>9

\* A process that has nothing to do starts, and no call is alone with it; one
\* that is under way is the call that is alone.
LEMMA AloneActs ==
  ASSUME NoticeTypes, AloneInv, NEW c \in alone, NEW p \in Procs
  PROVE  /\ c \in Calls /\ c \in Procs
         /\ Busy(p) => p = c
         /\ p # c /\ Start(p) => c \notin alone'
<1>1. c \in Calls /\ c \in Procs
  BY DEF NoticeTypes, Procs
<1>2. Busy(c) /\ \A q \in Procs \ {c} : ~Busy(q)
  BY DEF AloneInv, AloneAgrees
<1> QED
  BY <1>1, <1>2 DEF Start

\* What lapses in one table lapses in a copy of it.
LEMMA AgedAgrees ==
  ASSUME NEW rows \in Rows, NEW copy \in Rows, NEW n \in Notes, NEW x \in Notes,
         rows[x] = copy[x]
  PROVE  Aged(rows, n)[x] = Aged(copy, n)[x]
BY DEF Aged, Rows

\* A call that has not started has toggled nothing.
LEMMA FreshStep ==
  ASSUME NoticeTypes, AloneInv, [Next]_vars, NEW c \in Calls, pc'[c] = "idle"
  PROVE  job'[c].toggled = {}
<1>0. c \in Procs /\ c # Errors /\ c # Cacher /\ Errors \in Procs /\ Cacher \in Procs
  BY ProcsAssumption DEF Procs
<1>1. pc[c] = "idle" => job[c].toggled = {}
  BY DEF AloneInv
<1>2. CASE Notify \/ ErrorsFails
  <2>1. pc'[c] = pc[c] /\ job' = job
    <3>1. CASE ErrorsProcess
      BY <1>0, <3>1 DEF ErrorsProcess, NoticeTypes
    <3>2. CASE ErrorsFails
      BY <1>0, <3>2 DEF ErrorsFails, NoticeTypes
    <3> QED
      BY <1>0, <1>2, <3>1, <3>2 DEF Notify, ErrorsStart, ErrorsPut, ErrorsStore, NoticeTypes
  <2> QED
    BY <1>1, <2>1
<1>3. CASE CacherStart \/ CacherFails \/ \E n \in Notes : Lapse(n)
  <2>1. pc'[c] = pc[c] /\ job' = job
    BY <1>0, <1>3 DEF CacherStart, CacherFails, Lapse, NoticeTypes
  <2> QED
    BY <1>1, <2>1
<1>4. ASSUME NEW p \in Calls \cup {Cacher}, CacheRun(p)
      PROVE  job'[c].toggled = {}
  <2>1. job' = job /\ (pc'[c] = pc[c] \/ pc'[c] # "idle")
    <3>1. p \in Procs
      BY DEF Procs
    <3> QED
      BY <1>0, <1>4, <3>1 DEF CacheRun, CacheScan, CacheExpire, CacheStore, NoticeTypes
  <2> QED
    BY <1>1, <2>1
<1>5. ASSUME NEW p \in Calls, Call(p) \/ CallFails(p)
      PROVE  job'[c].toggled = {}
  <2>0. p \in Procs
    BY DEF Procs
  <2>1. CASE CallFetch(p)
    <3>1. PICK n \in job[p].todo :
             /\ \/ pc' = [pc EXCEPT ![p] = "put"]
                \/ pc' = [pc EXCEPT ![p] = "reply"]
                \/ pc' = [pc EXCEPT ![p] = "fetch"]
             /\ \/ job' = [job EXCEPT ![p].todo = @ \ {n}, ![p].toggled = @ \cup {n}]
                \/ job' = [job EXCEPT ![p].todo = @ \ {n}]
      BY <2>1, Zenon DEF CallFetch
    <3>2. p # c /\ pc'[c] = pc[c] /\ job'[c] = job[c]
      BY <1>0, <2>0, <3>1 DEF NoticeTypes
    <3> QED
      BY <1>1, <3>2
  <2>2. CASE CallReply(p) \/ CallFails(p)
    <3>1. p # c /\ pc'[c] = pc[c] /\ job'[c] = job[c]
      BY <1>0, <2>0, <2>2 DEF CallReply, CallFails, Ends, NoticeTypes
    <3> QED
      BY <1>1, <3>1
  <2>3. CASE CallStart(p) \/ CallPut(p)
    <3>1. p # c /\ pc'[c] = pc[c] /\ job'[c] = job[c]
      BY <1>0, <2>0, <2>3 DEF CallStart, CallPut, NoticeTypes
    <3> QED
      BY <1>1, <3>1
  <2> QED
    BY <1>5, <2>1, <2>2, <2>3 DEF Call
<1>6. CASE UNCHANGED noteVars
  BY <1>1, <1>6 DEF noteVars
<1>7. ASSUME NEW m \in Messages, Send(m) \/ Return(m)
       PROVE  UNCHANGED noteVars
  BY <1>7 DEF Send, Return
<1>8. ASSUME NEW d \in Denials, ItemExpires(d)
       PROVE  UNCHANGED noteVars
  BY <1>8 DEF ItemExpires
<1>9. ASSUME NEW q \in Collectors, Collect(q) \/ CollectorFails(q)
       PROVE  UNCHANGED noteVars
  BY <1>9 DEF Collect, CollectorStart, CollectorReceive, CollectorEnd, CollectorDelete,
              CollectorWrite, CollectorFails
<1>10. UNCHANGED vars => UNCHANGED noteVars
  BY DEF vars
<1> QED
  BY <1>2, <1>3, <1>4, <1>5, <1>6, <1>7, <1>8, <1>9, <1>10 DEF Next

\* What remains true of a call that is alone while it takes a step: the others
\* rest.
LEMMA OthersRest ==
  ASSUME NoticeTypes, AloneInv, NEW c \in alone, NEW to, pc' = [pc EXCEPT ![c] = to],
         to \notin {"idle", "done", "failed"}
  PROVE  Busy(c)' /\ \A q \in Procs \ {c} : ~Busy(q)'
<1>1. c \in Procs
  BY DEF NoticeTypes, Procs
<1> QED
  BY <1>1 DEF AloneInv, AloneAgrees, Busy, NoticeTypes

\* Every step keeps what is said of the calls that are alone.
LEMMA AloneStep == NoticeTypes /\ Told /\ AloneInv /\ [Next]_vars => AloneInv'
<1> SUFFICES ASSUME NoticeTypes, Told, AloneInv, [Next]_vars, NEW c \in alone'
             PROVE  AloneAgrees(c)'
  BY FreshStep DEF AloneInv
<1>0. Errors \in Procs /\ Cacher \in Procs /\ Calls \subseteq Procs
  BY DEF Procs
<1>c. ASSUME c \in alone
      PROVE  c \in Calls /\ c \in Procs /\ c # Errors /\ c # Cacher /\ AloneAgrees(c)
  BY <1>c, ProcsAssumption DEF AloneInv, NoticeTypes, Procs
<1>1. CASE UNCHANGED noteVars
  <2>1. c \in alone /\ pc' = pc /\ job' = job /\ notes' = notes /\ seen' = seen /\ cache' = cache
    BY <1>1 DEF noteVars
  <2>2. AloneAgrees(c)
    BY <1>c, <2>1
  <2>3. Busy(c)' /\ \A q \in Procs \ {c} : ~Busy(q)'
    BY <2>1, <2>2 DEF AloneAgrees, Busy
  <2>4. \A n \in job'[c].toggled : notes'[n] # None /\ InGroup(job'[c].user, notes'[n].to)
    BY <2>1, <2>2 DEF AloneAgrees
  <2>5. pc'[c] = "put" =>
           \A n \in Notes : seen'[c][n] # None
                            => notes'[n] # None /\ seen'[c][n].to = notes'[n].to
    BY <2>1, <2>2 DEF AloneAgrees
  <2>6. /\ pc'[c] \in {"expire", "hash"} => seen'[c] = notes'
        /\ pc'[c] \in {"fetch", "reply"} =>
             \A n \in job'[c].toggled : \A k \in notes'[n].to : cache'[k][n] = notes'[n]
    BY <2>1, <2>2 DEF AloneAgrees
  <2> QED
    BY <2>3, <2>4, <2>5, <2>6 DEF AloneAgrees
<1>2. ASSUME NEW n \in Notes, Lapse(n)
      PROVE  AloneAgrees(c)'
  <2>1. c \in alone /\ pc' = pc /\ job' = job
    BY <1>2 DEF Lapse
  <2>2. notes \in ProperRows /\ notes \in Rows /\ notes' = Aged(notes, n)
    BY <1>2 DEF Lapse, Told, ProperRows
  <2>3. seen[c] \in ProperRows /\ seen'[c] = Aged(seen[c], n)
    BY <1>2, <1>c, <2>1 DEF Lapse, Told
  <2>4. \A x \in Notes : notes[x] # None => notes'[x] # None /\ notes'[x].to = notes[x].to
    BY <2>2, AgedIsProper
  <2>5. Busy(c)' /\ \A q \in Procs \ {c} : ~Busy(q)'
    BY <1>c, <2>1 DEF AloneAgrees, Busy
  <2>6. \A x \in job[c].toggled : x \in Notes /\ notes'[x] # None /\ InGroup(job[c].user, notes'[x].to)
    BY <1>c, <2>1, <2>4 DEF AloneAgrees, NoticeTypes, InGroup
  <2>7. pc[c] = "put" =>
          \A x \in Notes : seen'[c][x] # None => notes'[x] # None /\ seen'[c][x].to = notes'[x].to
    BY <1>c, <2>1, <2>3, <2>4, AgedIsProper DEF AloneAgrees
  <2>8. pc[c] \in {"expire", "hash"} => seen'[c] = notes'
    BY <1>c, <2>1, <2>2, <2>3 DEF AloneAgrees
  <2>9. ASSUME pc[c] \in {"fetch", "reply"}, NEW x \in job[c].toggled, NEW k \in notes'[x].to
        PROVE  cache'[k][x] = notes'[x]
    <3>1. x \in Notes /\ notes[x] # None /\ notes'[x].to = notes[x].to
      BY <1>c, <2>1, <2>4, <2>6 DEF AloneAgrees
    <3>2. cache[k][x] = notes[x]
      BY <1>c, <2>1, <2>9, <3>1 DEF AloneAgrees
    <3>3. k \in Keys
      BY <2>9, <3>1 DEF NoticeTypes, Rows, Row
    <3>4. cache[k] \in Rows /\ cache'[k] = Aged(cache[k], n)
      BY <1>2, <3>3 DEF Lapse, NoticeTypes
    <3> QED
      BY <2>2, <3>1, <3>2, <3>4, AgedAgrees
  <2> QED
    BY <2>1, <2>5, <2>6, <2>7, <2>8, <2>9 DEF AloneAgrees, InGroup
<1>3. CASE ErrorsStart \/ CacherStart
  BY <1>3, ProcsAssumption DEF ErrorsStart, CacherStart, Start
<1>4. CASE ErrorsProcess \/ ErrorsPut \/ ErrorsStore \/ ErrorsFails
  <2>1. c \in alone /\ Busy(Errors)
    BY <1>4 DEF ErrorsProcess, ErrorsPut, ErrorsStore, ErrorsFails, Busy
  <2> QED
    BY <1>0, <1>c, <2>1, AloneActs
<1>5. CASE CacherFails
  <2>1. c \in alone /\ Busy(Cacher)
    BY <1>5 DEF CacherFails
  <2> QED
    BY <1>0, <1>c, <2>1, AloneActs
<1>6. ASSUME NEW p \in Calls \cup {Cacher}, CacheRun(p)
      PROVE  AloneAgrees(c)'
  <2>1. p \in Procs /\ c \in alone /\ job' = job /\ Busy(p)
    BY <1>0, <1>6 DEF CacheRun, CacheScan, CacheExpire, CacheStore, Busy
  <2>2. p = c
    BY <2>1, AloneActs
  <2>3. CASE CacheScan(c)
    <3>1. /\ notes' = notes /\ seen'[c] = notes
          /\ \E to \in {"hash", "expire"} : pc' = [pc EXCEPT ![c] = to]
      BY <1>c, <2>1, <2>3 DEF CacheScan, NoticeTypes
    <3>2. pc'[c] \in {"hash", "expire"}
      BY <1>c, <2>1, <3>1 DEF NoticeTypes
    <3>3. Busy(c)' /\ \A q \in Procs \ {c} : ~Busy(q)'
      BY <2>1, <3>1, OthersRest
    <3> QED
      BY <1>c, <2>1, <3>1, <3>2, <3>3 DEF AloneAgrees, InGroup
  <2>4. CASE CacheExpire(c)
    <3>1. pc[c] = "expire" /\ seen' = seen /\ seen[c] = notes /\ pc' = [pc EXCEPT ![c] = "hash"]
      BY <1>c, <2>1, <2>4 DEF CacheExpire, AloneAgrees
    <3>2. notes' = notes
      <4>1. notes \in [Notes -> Row \cup {None}]
        BY DEF NoticeTypes, Rows
      <4>2. notes' = [n \in Notes |-> IF Lapsed(notes)[n] = None THEN notes[n] ELSE Lapsed(notes)[n]]
        BY <2>4, <3>1 DEF CacheExpire, Put
      <4>3. \A n \in Notes : Lapsed(notes)[n] \in {None, notes[n]}
        BY DEF Lapsed
      <4> QED
        BY <4>1, <4>2, <4>3
    <3>3. pc'[c] = "hash"
      BY <1>c, <2>1, <3>1 DEF NoticeTypes
    <3>4. Busy(c)' /\ \A q \in Procs \ {c} : ~Busy(q)'
      BY <2>1, <3>1, OthersRest
    <3> QED
      BY <1>c, <2>1, <3>1, <3>2, <3>3, <3>4 DEF AloneAgrees, InGroup
  <2>5. CASE CacheStore(c)
    <3>1. pc[c] = "hash" /\ seen[c] = notes /\ notes' = notes /\ Store(notes)
      BY <1>c, <2>1, <2>5 DEF CacheStore, AloneAgrees
    <3>2. \E to \in {"reply", "fetch"} : pc' = [pc EXCEPT ![c] = to]
      BY <1>c, <2>1, <2>5 DEF CacheStore
    <3>3. pc'[c] \in {"reply", "fetch"}
      BY <1>c, <2>1, <3>2 DEF NoticeTypes
    <3>4. Busy(c)' /\ \A q \in Procs \ {c} : ~Busy(q)'
      BY <2>1, <3>2, OthersRest
    <3>5. ASSUME NEW n \in job[c].toggled, NEW k \in notes[n].to
          PROVE  cache'[k][n] = notes[n]
      <4>1. n \in Notes /\ notes[n] # None
        BY <1>c, <2>1 DEF AloneAgrees, NoticeTypes
      <4>2. k \in Keys
        BY <4>1 DEF NoticeTypes, Rows, Row
      <4>3. Fields(notes)[k][n] = notes[n]
        BY <3>5, <4>1, <4>2 DEF Fields
      <4>4. Fields(notes)[k] # Nothing
        BY <4>1, <4>3 DEF Nothing
      <4> QED
        BY <3>1, <4>2, <4>3, <4>4 DEF Store
    <3> QED
      BY <1>c, <2>1, <3>1, <3>3, <3>4, <3>5 DEF AloneAgrees, InGroup
  <2> QED
    BY <1>6, <2>2, <2>3, <2>4, <2>5 DEF CacheRun
<1>7. ASSUME NEW p \in Calls, CallStart(p)
      PROVE  AloneAgrees(c)'
  <2>1. c = p /\ \A q \in Procs \ {c} : ~Busy(q)
    BY <1>7 DEF CallStart, Start
  <2>2. /\ pc'[c] = "fetch" /\ job' = job /\ job[c].toggled = {}
        /\ \A q \in Procs \ {c} : pc'[q] = pc[q]
    BY <1>0, <1>7, <2>1 DEF CallStart, NoticeTypes, AloneInv
  <2> QED
    BY <2>1, <2>2 DEF AloneAgrees, Busy
<1>8. ASSUME NEW p \in Calls, CallFetch(p) \/ CallPut(p)
      PROVE  AloneAgrees(c)'
  <2>1. c \in alone /\ Busy(p)
    BY <1>8 DEF CallFetch, CallPut, Busy
  <2>2. p = c
    BY <1>0, <2>1, AloneActs
  <2>3. CASE CallPut(c)
    <3>1. pc[c] = "put" /\ job' = job /\ pc' = [pc EXCEPT ![c] = "scan"]
      BY <2>3 DEF CallPut
    <3>2. pc'[c] = "scan"
      BY <1>c, <2>1, <3>1 DEF NoticeTypes
    <3>3. Busy(c)' /\ \A q \in Procs \ {c} : ~Busy(q)'
      BY <2>1, <3>1, OthersRest
    <3>4. \A n \in Notes : notes'[n] = IF seen[c][n] = None THEN notes[n] ELSE seen[c][n]
      BY <2>3 DEF CallPut, Put
    <3>5. \A n \in Notes : notes[n] # None => notes'[n] # None /\ notes'[n].to = notes[n].to
      BY <1>c, <2>1, <3>1, <3>4 DEF AloneAgrees
    <3>6. \A n \in job[c].toggled : n \in Notes /\ notes[n] # None /\ InGroup(job[c].user, notes[n].to)
      BY <1>c, <2>1 DEF AloneAgrees, NoticeTypes
    <3> QED
      BY <3>1, <3>2, <3>3, <3>5, <3>6 DEF AloneAgrees, InGroup
  <2>4. CASE CallFetch(c)
    <3>0. notes' = notes /\ cache' = cache /\ pc[c] = "fetch"
      BY <2>4 DEF CallFetch
    <3>1. PICK n \in job[c].todo :
           IF notes[n] # None /\ InGroup(job[c].user, notes[n].to)
            THEN /\ job' = [job EXCEPT ![c].todo = @ \ {n}, ![c].toggled = @ \cup {n}]
                 /\ pc' = [pc EXCEPT ![c] = "put"]
                 /\ seen' = [seen EXCEPT ![c] =
                       [Nothing EXCEPT ![n] = [notes[n] EXCEPT !.marks = Toggled(@, Mark(c))]]]
                 /\ Reads(c, {n})
            ELSE /\ job' = [job EXCEPT ![c].todo = @ \ {n}]
                 /\ pc' = [pc EXCEPT ![c] = IF job[c].todo = {n} THEN "reply" ELSE "fetch"]
                 /\ UNCHANGED <<seen, since>>
      BY <2>4 DEF CallFetch
    <3>2. n \in Notes
      BY <1>c, <2>1, <3>1 DEF NoticeTypes
    <3>3. CASE notes[n] # None /\ InGroup(job[c].user, notes[n].to)
      <4> DEFINE new == [notes[n] EXCEPT !.marks = Toggled(@, Mark(c))]
      <4>1. /\ job' = [job EXCEPT ![c].todo = @ \ {n}, ![c].toggled = @ \cup {n}]
            /\ pc' = [pc EXCEPT ![c] = "put"]
            /\ seen' = [seen EXCEPT ![c] = [Nothing EXCEPT ![n] = new]]
        BY <3>1, <3>3
      <4>2. notes[n] \in Row
        BY <3>2, <3>3 DEF NoticeTypes, Rows
      <4>3. new.to = notes[n].to
        BY <4>2 DEF Row
      <4> HIDE DEF new
      <4>4. Busy(c)' /\ \A q \in Procs \ {c} : ~Busy(q)'
        BY <2>1, <4>1, OthersRest
      <4>5. /\ pc'[c] = "put" /\ seen'[c] = [Nothing EXCEPT ![n] = new]
            /\ job'[c].user = job[c].user /\ job'[c].toggled = job[c].toggled \cup {n}
        BY <1>c, <2>1, <4>1 DEF NoticeTypes
      <4>6. seen'[c][n] = new /\ \A x \in Notes \ {n} : seen'[c][x] = None
        BY <3>2, <4>5 DEF Nothing
      <4>7. \A x \in job[c].toggled \cup {n} : notes[x] # None /\ InGroup(job[c].user, notes[x].to)
        BY <1>c, <2>1, <3>3 DEF AloneAgrees
      <4> QED
        BY <3>0, <3>3, <4>3, <4>4, <4>5, <4>6, <4>7 DEF AloneAgrees, InGroup
    <3>4. CASE ~(notes[n] # None /\ InGroup(job[c].user, notes[n].to))
      <4>1. /\ job' = [job EXCEPT ![c].todo = @ \ {n}]
            /\ \E to \in {"reply", "fetch"} : pc' = [pc EXCEPT ![c] = to]
        BY <3>1, <3>4
      <4>2. Busy(c)' /\ \A q \in Procs \ {c} : ~Busy(q)'
        BY <2>1, <4>1, OthersRest
      <4>3. pc'[c] \in {"reply", "fetch"} /\ job'[c].user = job[c].user /\ job'[c].toggled = job[c].toggled
        BY <1>c, <2>1, <4>1 DEF NoticeTypes
      <4> QED
        BY <1>c, <2>1, <3>0, <4>2, <4>3 DEF AloneAgrees, InGroup
    <3> QED
      BY <3>3, <3>4
  <2> QED
    BY <1>8, <2>2, <2>3, <2>4
<1>9. ASSUME NEW p \in Calls, CallReply(p) \/ CallFails(p)
      PROVE  FALSE
  <2>1. c \in alone /\ c # p /\ Busy(p)
    BY <1>9 DEF CallReply, CallFails, Ends, Busy
  <2> QED
    BY <1>0, <2>1, AloneActs
<1>10. ASSUME NEW m \in Messages, Send(m) \/ Return(m)
       PROVE  UNCHANGED noteVars
  BY <1>10 DEF Send, Return
<1>11. ASSUME NEW d \in Denials, ItemExpires(d)
       PROVE  UNCHANGED noteVars
  BY <1>11 DEF ItemExpires
<1>12. ASSUME NEW q \in Collectors, Collect(q) \/ CollectorFails(q)
       PROVE  UNCHANGED noteVars
  BY <1>12 DEF Collect, CollectorStart, CollectorReceive, CollectorEnd, CollectorDelete,
               CollectorWrite, CollectorFails
<1>13. UNCHANGED vars => UNCHANGED noteVars
  BY DEF vars
<1> QED
  BY <1>1, <1>2, <1>3, <1>4, <1>5, <1>6, <1>7, <1>8, <1>9, <1>10, <1>11, <1>12, <1>13
     DEF Next, Notify, Call

\* A call during which nothing else wrote notifications returns a page that
\* agrees with the table on what it toggled.
THEOREM ReplyAgreesAlways == Spec => ReplyAgreesWithTable
<1>1. Init => NoticeTypes /\ Told /\ AloneInv
  <2>1. Init => AloneInv
    BY DEF Init, AloneInv
  <2> QED
    BY <2>1, InitTypes, InitTold DEF TypeOK
<1>2. NoticeTypes /\ Told /\ AloneInv /\ [Next]_vars => (NoticeTypes /\ Told /\ AloneInv)'
  BY NoticeStep, AloneStep
<1>3. NoticeTypes /\ AloneInv =>
        \A c \in alone : pc[c] = "reply" /\ pc'[c] = "done" =>
          LET u == job[c].user
          IN  \A n \in job[c].toggled : ~Lingers(u, n) =>
                /\ n \in Shown(u) <=> notes[n].current /\ <<"hidden", u>> \notin notes[n].marks
                /\ n \in Unread(u) <=>
                     /\ n \in Shown(u)
                     /\ notes[n].marks \cap {<<"read", u>>, <<"read", "all">>} = {}
  <2> SUFFICES ASSUME NoticeTypes, AloneInv, NEW c \in alone, pc[c] = "reply",
                      NEW n \in job[c].toggled, ~Lingers(job[c].user, n)
               PROVE  LET u == job[c].user
                      IN /\ n \in Shown(u) <=> notes[n].current /\ <<"hidden", u>> \notin notes[n].marks
                         /\ n \in Unread(u) <=>
                              /\ n \in Shown(u)
                              /\ notes[n].marks \cap {<<"read", u>>, <<"read", "all">>} = {}
    OBVIOUS
  <2>1. AloneAgrees(c) /\ c \in Calls
    BY DEF AloneInv, NoticeTypes
  <2>2. n \in Notes /\ job[c].user \in Users
    BY <2>1 DEF NoticeTypes
  <2>3. /\ notes[n] # None /\ InGroup(job[c].user, notes[n].to)
        /\ \A k \in notes[n].to : cache[k][n] = notes[n]
    BY <2>1 DEF AloneAgrees
  <2> QED
    BY <2>2, <2>3, CopyIsNotification
<1> QED
  BY <1>1, <1>2, <1>3, PTL DEF Spec, ReplyAgreesWithTable
=============================================================================
