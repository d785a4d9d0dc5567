--------------------- MODULE AuthorizationMappingProofs ---------------------
(***************************************************************************)
(* Proofs about AuthorizationMapping, for any number of workers, of        *)
(* coroutines, of changes, losses and aborted runs.                        *)
(***************************************************************************)
EXTENDS AuthorizationMapping, TLAPS

-----------------------------------------------------------------------------
(* Types.                                                                  *)

Run == [pc : Points, tags : 0..MaxChanges, conf : 0..MaxChanges, whole : BOOLEAN]

\* The values that stand for no run and no reader have their types, and what a
\* run has read is a mapping.
LEMMA ValueTypes ==
  /\ NoRun \in Run
  /\ Resting \in [kind : Kinds, got : Stored]
  /\ \A t \in Run : MadeOf(t) \in Stored
<1>1. MaxChanges \in Nat /\ 0 \in 0..MaxChanges
  BY AuthorizationMappingConstants
<1>2. NoRun \in Run
  BY <1>1 DEF NoRun, Run, Points
<1>3. Resting \in [kind : Kinds, got : Stored]
  BY DEF Resting, Kinds, Stored
<1>4. \A t \in Run : MadeOf(t) \in Stored
  BY DEF Run, MadeOf, Stored, Mappings
<1> QED
  BY <1>2, <1>3, <1>4

\* A run that moves on, or that something has disturbed, is still a run.
LEMMA RunTypes ==
  ASSUME TypeOK
  PROVE  /\ \A w \in Workers : task[w] \in Run
         /\ Disturbed \in [Workers -> Run]
         /\ \A w \in Workers, pc \in Points : Goto(w, pc) => task' \in [Workers -> Run]
BY DEF TypeOK, Run, Disturbed, Goto

\* The initial state is well typed.
LEMMA InitType == Init => TypeOK
<1> SUFFICES ASSUME Init PROVE TypeOK
  OBVIOUS
<1>1. 0 \in 0..MaxChanges /\ 0 \in 0..MaxLosses /\ 0 \in 0..MaxAborts
  BY AuthorizationMappingConstants
<1>2. task \in [Workers -> Run]
  BY ValueTypes DEF Init
<1> QED
  BY <1>1, <1>2, ValueTypes DEF Init, TypeOK, Stored, Run

\* Every step keeps the types.
LEMMA StepType == TypeOK /\ [Next]_vars => TypeOK'
<1> SUFFICES ASSUME TypeOK, [Next]_vars PROVE TypeOK'
  OBVIOUS
<1> USE DEF TypeOK, sourceVars, taskVars, webVars
<1>1. CASE TagsChange
  BY <1>1, AuthorizationMappingConstants DEF TagsChange
<1>2. CASE ConfigChanges
  BY <1>2, AuthorizationMappingConstants DEF ConfigChanges
<1>3. CASE RedisLosesData
  <2>1. losses' \in 0..MaxLosses
    BY <1>3, AuthorizationMappingConstants DEF RedisLosesData
  <2>2. task' \in [Workers -> Run]
    BY <1>3, RunTypes DEF RedisLosesData
  <2> QED
    BY <1>3, <2>1, <2>2 DEF RedisLosesData, Stored, Run
<1>4. CASE Beat
  BY <1>4 DEF Beat
<1>5. ASSUME NEW w \in Workers, RunSteps(w)
      PROVE  TypeOK'
  <2> DEFINE ToRun == task' \in [Workers -> Run]
  <2>1. CASE StartRun(w)
    <3>1. ToRun
      BY <2>1, RunTypes DEF StartRun, Points
    <3> QED
      BY <2>1, <3>1 DEF StartRun, Run
  <2>2. CASE AskRun(w)
    <3>1. ToRun
      BY <2>2, RunTypes DEF AskRun, Points
    <3> QED
      BY <2>2, <3>1 DEF AskRun, Run
  <2>3. CASE ReadTags(w)
    <3>1. [task[w] EXCEPT !.pc = "conf", !.tags = tags, !.whole = TRUE] \in Run
      BY RunTypes DEF Run, Points
    <3>2. ToRun
      BY <2>3, <3>1, RunTypes DEF ReadTags, Run
    <3> QED
      BY <2>3, <3>2 DEF ReadTags, Run
  <2>4. CASE ReadConfig(w)
    <3>1. [task[w] EXCEPT !.pc = "redis map", !.conf = conf] \in Run
      BY RunTypes DEF Run, Points
    <3>2. ToRun
      BY <2>4, <3>1, RunTypes DEF ReadConfig, Run
    <3> QED
      BY <2>4, <3>2 DEF ReadConfig, Run
  <2>5. CASE StoreMap(w) \/ StoreReverse(w)
    <3>1. ToRun
      BY <2>5, RunTypes DEF StoreMap, StoreReverse, StoreRedis, Points
    <3>2. MadeOf(task[w]) \in Stored
      BY RunTypes, ValueTypes
    <3>3. redis' \in [Kinds -> Stored]
      BY <2>5, <3>2 DEF StoreMap, StoreReverse, StoreRedis
    <3> QED
      BY <2>5, <3>1, <3>3 DEF StoreMap, StoreReverse, StoreRedis, Run
  <2>6. CASE StoreMapS3(w)
    <3>1. ToRun
      BY <2>6, RunTypes DEF StoreMapS3, Points
    <3>2. MadeOf(task[w]) \in Stored
      BY RunTypes, ValueTypes
    <3>3. s3' \in [Kinds -> Stored]
      BY <2>6, <3>2 DEF StoreMapS3
    <3> QED
      BY <2>6, <3>1, <3>3 DEF StoreMapS3, Run
  <2>7. CASE StoreReverseS3(w)
    <3>1. ToRun
      BY <2>7, RunTypes, ValueTypes DEF StoreReverseS3, Run
    <3>2. MadeOf(task[w]) \in Stored
      BY RunTypes, ValueTypes
    <3>3. s3' \in [Kinds -> Stored] /\ torn' \in BOOLEAN
      BY <2>7, <3>2 DEF StoreReverseS3
    <3> QED
      BY <2>7, <3>1, <3>3 DEF StoreReverseS3, Run
  <2> QED
    BY <1>5, <2>1, <2>2, <2>3, <2>4, <2>5, <2>6, <2>7 DEF RunSteps
<1>6. ASSUME NEW w \in Workers, Abort(w)
      PROVE  TypeOK'
  <2>1. aborts' \in 0..MaxAborts
    BY <1>6, AuthorizationMappingConstants DEF Abort
  <2>2. task' \in [Workers -> Run]
    BY <1>6, ValueTypes DEF Abort, Run
  <2> QED
    BY <1>6, <2>1, <2>2 DEF Abort, Run
<1>7. ASSUME NEW r \in Readers, ReaderSteps(r)
      PROVE  TypeOK'
  <2>1. CASE CacheToRedis(r)
    <3>1. task' \in [Workers -> Run]
      BY <2>1, RunTypes DEF CacheToRedis
    <3>2. reader' \in [Readers -> [kind : Kinds, got : Stored]]
      BY <2>1, ValueTypes DEF CacheToRedis
    <3>3. reader[r].kind \in Kinds /\ reader[r].got \in Stored
      OBVIOUS
    <3>4. redis' \in [Kinds -> Stored] /\ copy' \in [Kinds -> Stored] /\ fresh' \in SUBSET Kinds
      BY <2>1, <3>3 DEF CacheToRedis, Remember
    <3> QED
      BY <2>1, <3>1, <3>2, <3>4 DEF CacheToRedis, Run
  <2>2. ASSUME NEW k \in Asked, RetrieveFromS3(r, k)
        PROVE  TypeOK'
    <3>1. k \in Kinds
      BY AuthorizationMappingConstants DEF Kinds
    <3>2. reader' \in [Readers -> [kind : Kinds, got : Stored]]
      BY <2>2, <3>1 DEF RetrieveFromS3
    <3> QED
      BY <2>2, <3>2 DEF RetrieveFromS3
  <2> QED
    BY <1>7, <2>1, <2>2 DEF ReaderSteps
<1>8. ASSUME NEW k \in Asked, RetrieveFromRedis(k) \/ MinutePasses(k)
      PROVE  TypeOK'
  <2>1. k \in Kinds
    BY AuthorizationMappingConstants DEF Kinds
  <2> QED
    BY <1>8, <2>1 DEF RetrieveFromRedis, MinutePasses, Remember
<1>9. CASE UNCHANGED vars
  BY <1>9 DEF vars
<1> QED
  BY <1>1, <1>2, <1>3, <1>4, <1>5, <1>6, <1>7, <1>8, <1>9 DEF Next

\* Every variable keeps the shape the task and the web process give it.
THEOREM MappingTypeCorrect == Spec => []TypeOK
<1>1. TypeOK /\ [Next]_vars => TypeOK'
  BY StepType
<1> QED
  BY InitType, <1>1, PTL DEF Spec

-----------------------------------------------------------------------------
(* One run at a time.                                                      *)

\* No step puts a second run to work: the one that passes the guard has found
\* every other worker idle, those that stand before the guard included.
LEMMA StepOneAtATime == TypeOK /\ OneAtATime /\ [Next]_vars => OneAtATime'
<1> SUFFICES ASSUME TypeOK, OneAtATime, [Next]_vars,
                    NEW v \in Workers, NEW u \in Workers,
                    Working(v)', Working(u)', v # u
             PROVE  FALSE
  BY DEF OneAtATime
<1>1. ~(Working(v) /\ Working(u))
  BY DEF OneAtATime
<1>2. UNCHANGED task => Working(v) /\ Working(u)
  BY DEF Working
<1>3. task' = Disturbed => Working(v) /\ Working(u)
  BY DEF Working, Disturbed, TypeOK
<1>4. ASSUME NEW w \in Workers, RunSteps(w)
      PROVE  FALSE
  <2>1. CASE StartRun(w)
    BY <1>1, <2>1 DEF StartRun, Goto, Working, TypeOK
  <2>2. CASE AskRun(w)
    BY <1>1, <2>2 DEF AskRun, AlreadyRunning, Active, Goto, Working, TypeOK
  <2>3. CASE ReadTags(w) \/ ReadConfig(w)
    BY <1>1, <2>3 DEF ReadTags, ReadConfig, Working, TypeOK
  <2>4. CASE StoreMap(w) \/ StoreMapS3(w) \/ StoreReverse(w)
    BY <1>1, <2>4 DEF StoreMap, StoreMapS3, StoreReverse, StoreRedis, Goto, Working, TypeOK
  <2>5. CASE StoreReverseS3(w)
    BY <1>1, <2>5 DEF StoreReverseS3, NoRun, Working, TypeOK
  <2> QED
    BY <1>4, <2>1, <2>2, <2>3, <2>4, <2>5 DEF RunSteps
<1>5. ASSUME NEW w \in Workers, Abort(w)
      PROVE  FALSE
  BY <1>1, <1>5 DEF Abort, NoRun, Working, TypeOK
<1>6. CASE TagsChange \/ ConfigChanges \/ Beat \/ UNCHANGED vars
  BY <1>1, <1>2, <1>6 DEF TagsChange, ConfigChanges, Beat, taskVars, vars
<1>7. CASE RedisLosesData
  BY <1>1, <1>3, <1>7 DEF RedisLosesData
<1>8. ASSUME NEW r \in Readers, ReaderSteps(r)
      PROVE  FALSE
  BY <1>1, <1>2, <1>3, <1>8 DEF ReaderSteps, CacheToRedis, RetrieveFromS3, taskVars
<1>9. ASSUME NEW k \in Asked, RetrieveFromRedis(k) \/ MinutePasses(k)
      PROVE  FALSE
  BY <1>1, <1>2, <1>9 DEF RetrieveFromRedis, MinutePasses, taskVars
<1> QED
  BY <1>4, <1>5, <1>6, <1>7, <1>8, <1>9 DEF Next

\* However many workers take up runs at once, whatever raises or dies, two runs
\* never make mappings at the same time, although asking which tasks are active
\* and going on are two steps.
THEOREM RunsAreAlone == Spec => []OneAtATime
<1>1. Init => OneAtATime
  BY DEF Init, OneAtATime, Working, NoRun
<1>2. TypeOK /\ OneAtATime /\ [Next]_vars => OneAtATime'
  BY StepOneAtATime
<1> QED
  BY <1>1, <1>2, MappingTypeCorrect, PTL DEF Spec

-----------------------------------------------------------------------------
(* The two mappings agree.                                                 *)

Order == Apart /\ \A w \in Workers : StoredStays(w) /\ RunsAreWhole(w)

\* What disturbs everything: no run is whole any more, and nothing is claimed.
LEMMA DisturbedOrder ==
  ASSUME TypeOK, task' = Disturbed, torn'
  PROVE  Order'
<1>1. \A w \in Workers : task'[w].whole = FALSE
  BY DEF TypeOK, Disturbed
<1> QED
  BY <1>1 DEF Order, Apart, StoredStays, RunsAreWhole

\* What the runs do not see.
LEMMA UnseenOrder ==
  ASSUME Order, UNCHANGED <<redis, s3, task, torn>>
  PROVE  Order'
BY DEF Order, Apart, StoredStays, RunsAreWhole, Past, MadeOf

\* Each step of a run.
LEMMA RunOrder ==
  ASSUME TypeOK, OneAtATime, Order, NEW w \in Workers, RunSteps(w)
  PROVE  Order'
<1>0. task \in [Workers -> Run]
  BY DEF TypeOK, Run
<1>1. CASE StartRun(w)
  BY <1>0, <1>1 DEF StartRun, Active, Goto, Order, Apart, StoredStays, RunsAreWhole, Past, MadeOf, Run
<1>2. CASE AskRun(w)
  <2>1. PICK pc \in {"idle", "tags"} : task' = [task EXCEPT ![w].pc = pc]
    BY <1>2 DEF AskRun, Goto
  <2>2. task[w].pc = "ask" /\ UNCHANGED <<redis, s3, torn>>
    BY <1>2 DEF AskRun
  <2>3. task'[w].pc = pc /\ \A v \in Workers : v # w => task'[v] = task[v]
    BY <1>0, <2>1 DEF Run
  <2>4. Apart'
    BY <2>2, <2>3 DEF Order, Apart, Past
  <2>5. StoredStays(w)' /\ RunsAreWhole(w)'
    BY <2>3 DEF StoredStays, RunsAreWhole, Past
  <2>6. ASSUME NEW v \in Workers, v # w
        PROVE  StoredStays(v)' /\ RunsAreWhole(v)'
    BY <2>2, <2>3, <2>6 DEF Order, StoredStays, RunsAreWhole, Past, MadeOf
  <2> QED
    BY <2>4, <2>5, <2>6 DEF Order
<1>3. CASE ReadTags(w)
  BY <1>0, <1>3 DEF ReadTags, Order, Apart, StoredStays, RunsAreWhole, Past, MadeOf, Run
<1>4. CASE ReadConfig(w)
  BY <1>0, <1>4 DEF ReadConfig, Order, Apart, StoredStays, RunsAreWhole, Past, MadeOf, Run
<1>5. \A v \in Workers : v # w /\ Working(w) => ~Working(v)
  BY DEF OneAtATime
<1>6. redis \in [Kinds -> Stored] /\ s3 \in [Kinds -> Stored]
  BY DEF TypeOK
<1>7. CASE StoreMap(w)
  BY <1>0, <1>5, <1>6, <1>7
     DEF StoreMap, StoreRedis, Goto, Working, Kinds,
         Order, Apart, StoredStays, RunsAreWhole, Past, MadeOf, Run
<1>8. CASE StoreMapS3(w)
  BY <1>0, <1>5, <1>6, <1>8
     DEF StoreMapS3, Goto, Working, Kinds,
         Order, Apart, StoredStays, RunsAreWhole, Past, MadeOf, Run
<1>9. CASE StoreReverse(w)
  BY <1>0, <1>5, <1>6, <1>9
     DEF StoreReverse, StoreRedis, Goto, Working, Kinds,
         Order, Apart, StoredStays, RunsAreWhole, Past, MadeOf, Run
<1>10. CASE StoreReverseS3(w)
  <2> DEFINE m == MadeOf(task[w])
  <2>1. task'[w].pc = "idle" /\ ~task'[w].whole
    BY <1>0, <1>10 DEF StoreReverseS3, NoRun
  <2>2. \A v \in Workers : v # w => task'[v] = task[v] /\ task[v].pc \in {"idle", "ask"}
    BY <1>0, <1>5, <1>10 DEF StoreReverseS3, Working
  <2>3. redis' = redis /\ s3'["rev"] = m /\ s3'["map"] = s3["map"]
    BY <1>6, <1>10 DEF StoreReverseS3, Kinds
  <2>4. task[w].whole => redis["map"] = m /\ redis["rev"] = m /\ s3["map"] = m
    BY <1>10 DEF StoreReverseS3, Order, StoredStays, Past
  <2>5. ~torn' => task[w].whole
    BY <1>10 DEF StoreReverseS3, Order, RunsAreWhole, Past
  <2>6. \A v \in Workers : task'[v].pc \in {"idle", "ask"}
    BY <2>1, <2>2
  <2>7. Apart'
    BY <2>3, <2>4, <2>5 DEF Apart
  <2> QED
    BY <2>6, <2>7 DEF Order, StoredStays, RunsAreWhole, Past
<1> QED
  BY <1>1, <1>2, <1>3, <1>4, <1>7, <1>8, <1>9, <1>10 DEF RunSteps

\* Every step keeps the invariant.
LEMMA StepMapping == MappingInv /\ [Next]_vars => MappingInv'
<1> SUFFICES ASSUME MappingInv, [Next]_vars PROVE Order'
  BY StepType, StepOneAtATime DEF MappingInv, Order
<1>1. TypeOK /\ OneAtATime /\ Order
  BY DEF MappingInv, Order
<1>2. CASE TagsChange \/ ConfigChanges \/ Beat \/ UNCHANGED vars
  BY <1>1, <1>2, UnseenOrder DEF TagsChange, ConfigChanges, Beat, taskVars, vars
<1>3. CASE RedisLosesData
  BY <1>1, <1>3, DisturbedOrder DEF RedisLosesData
<1>4. ASSUME NEW w \in Workers, RunSteps(w)
      PROVE  Order'
  BY <1>1, <1>4, RunOrder
<1>5. ASSUME NEW w \in Workers, Abort(w)
      PROVE  Order'
  <2>1. torn' /\ UNCHANGED <<redis, s3>>
    BY <1>5 DEF Abort
  <2>2. \A v \in Workers : task'[v] = IF v = w THEN NoRun ELSE task[v]
    BY <1>1, <1>5 DEF Abort, TypeOK
  <2>3. task'[w].pc = "idle"
    BY <2>2 DEF NoRun
  <2>4. Apart' /\ \A v \in Workers : RunsAreWhole(v)'
    BY <2>1 DEF Apart, RunsAreWhole
  <2>5. StoredStays(w)'
    BY <2>3 DEF StoredStays, Past
  <2>6. ASSUME NEW v \in Workers, v # w
        PROVE  StoredStays(v)'
    <3>1. StoredStays(v) /\ task'[v] = task[v]
      BY <1>1, <2>2, <2>6 DEF Order
    <3> QED
      BY <2>1, <3>1 DEF StoredStays, Past, MadeOf
  <2> QED
    BY <2>4, <2>5, <2>6 DEF Order
<1>6. ASSUME NEW r \in Readers, ReaderSteps(r)
      PROVE  Order'
  <2>1. CASE CacheToRedis(r)
    BY <1>1, <2>1, DisturbedOrder DEF CacheToRedis
  <2>2. ASSUME NEW k \in Asked, RetrieveFromS3(r, k)
        PROVE  Order'
    BY <1>1, <2>2, UnseenOrder DEF RetrieveFromS3, taskVars
  <2> QED
    BY <1>6, <2>1, <2>2 DEF ReaderSteps
<1>7. ASSUME NEW k \in Asked, RetrieveFromRedis(k) \/ MinutePasses(k)
      PROVE  Order'
  BY <1>1, <1>7, UnseenOrder DEF RetrieveFromRedis, MinutePasses, taskVars
<1> QED
  BY <1>2, <1>3, <1>4, <1>5, <1>6, <1>7 DEF Next

\* At the start nothing is stored, so nothing disagrees.
LEMMA InitMapping == Init => MappingInv
<1> SUFFICES ASSUME Init PROVE MappingInv
  OBVIOUS
<1>1. TypeOK
  BY InitType
<1>2. \A w \in Workers : task[w] = NoRun
  BY DEF Init
<1>3. redis["rev"] = redis["map"] /\ s3["rev"] = s3["map"]
  BY DEF Init, Kinds
<1>4. NoRun.pc = "idle"
  BY DEF NoRun
<1>5. \A w \in Workers : task[w].pc = "idle"
  BY <1>2, <1>4
<1> QED
  BY <1>1, <1>3, <1>5
     DEF MappingInv, OneAtATime, Working, Apart, StoredStays, RunsAreWhole, Past

\* The inductive invariant holds of every behaviour.
THEOREM MappingCorrect == Spec => []MappingInv
<1>1. MappingInv /\ [Next]_vars => MappingInv'
  BY StepMapping
<1> QED
  BY InitMapping, <1>1, PTL DEF Spec

\* Whenever no run is under way and the last disturbance was followed by a run
\* that nothing disturbed, the reverse mapping that is shown is that of the
\* mapping that is enforced, in Redis and in S3.
THEOREM MappingsAgree == Spec => []ReverseAgrees
<1>1. MappingInv => ReverseAgrees
  BY DEF MappingInv, Apart, ReverseAgrees, Past, Working
<1> QED
  BY MappingCorrect, <1>1, PTL
=============================================================================
