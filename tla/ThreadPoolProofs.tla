-------------------------- MODULE ThreadPoolProofs --------------------------
(***************************************************************************)
(* Theorems about ThreadPool, for any number of threads and jobs.          *)
(***************************************************************************)
EXTENDS ThreadPool, FiniteSetTheorems, TLAPS

(* The threads m_atomic counts. *)
Counted == {t \in Thread : pc[t] \in {"run", "end"}}

(* A thread holds a job exactly between get() and the end of the job.      *)
HoldsJob ==
  \A t \in Thread : job[t] # NoJob <=> pc[t] \in {"begin", "run"}

TypeInv ==
  /\ TypeOK
  /\ HoldsJob
  /\ atomic = Cardinality(Counted)

(***************************************************************************)
(* Types.  That m_atomic never goes below zero needs its meaning: it is    *)
(* the number of threads between the two updates.                          *)
(***************************************************************************)
LEMMA CountedFinite == IsFiniteSet(Counted) /\ Cardinality(Counted) \in Nat
  BY ThreadAssumption, FS_Subset, FS_CardinalityType DEF Counted

LEMMA TypeInit == Init => TypeInv
<1> SUFFICES ASSUME Init PROVE TypeInv
  OBVIOUS
<1>1. TypeOK
  <2>1. /\ pc \in [Thread \cup {Owner} -> OwnerLabel \cup ThreadLabel]
        /\ pc[Owner] \in OwnerLabel
        /\ \A t \in Thread : pc[t] \in ThreadLabel
    BY ThreadAssumption DEF Init, OwnerLabel, ThreadLabel
  <2>2. submitted \in 0 .. NJob /\ tasks \in Seq(Job) /\ atomic \in Nat
    BY JobAssumption DEF Init
  <2> QED
    BY <2>1, <2>2 DEF Init, TypeOK
<1>2. HoldsJob
  BY ThreadAssumption DEF Init, HoldsJob
<1>3. Counted = {}
  BY ThreadAssumption DEF Init, Counted
<1> QED
  BY <1>1, <1>2, <1>3, FS_EmptySet DEF Init, TypeInv

LEMMA TypeOwner == TypeInv /\ OwnerStep => TypeInv'
<1> SUFFICES ASSUME TypeInv, OwnerStep PROVE TypeInv'
  OBVIOUS
<1> USE JobAssumption, ThreadAssumption DEF TypeInv, OwnerLabel, ThreadLabel
<1>1. /\ UNCHANGED <<atomic, job>>
      /\ \A t \in Thread : pc'[t] = pc[t]
  BY DEF OwnerStep, Exec, CallWait, WaitForAllDone, Stop, Join, Goto, TypeOK
<1>2. TypeOK'
  <2>1. CASE Exec
    BY <2>1 DEF TypeOK, Exec, NotifyOne, Job
  <2>2. CASE CallWait \/ WaitForAllDone \/ Stop \/ Join
    BY <2>2 DEF TypeOK, CallWait, WaitForAllDone, Stop, Join, Goto, AtPredicate
  <2> QED
    BY <2>1, <2>2 DEF OwnerStep
<1>3. HoldsJob' /\ Counted' = Counted
  BY <1>1 DEF HoldsJob, Counted
<1> QED
  BY <1>1, <1>2, <1>3

LEMMA TypeThread ==
  ASSUME TypeInv, NEW t \in Thread, ThreadStep(t)
  PROVE  TypeInv'
<1> USE JobAssumption, ThreadAssumption DEF TypeInv, OwnerLabel, ThreadLabel
<1>1. /\ pc' \in [Thread \cup {Owner} -> OwnerLabel \cup ThreadLabel] /\ pc'[Owner] = pc[Owner]
      /\ \A u \in Thread \ {t} : pc'[u] = pc[u] /\ job'[u] = job[u]
  BY DEF ThreadStep, Loop, Get, Begin, Run, End, Report, Goto, TypeOK
<1>2. CASE Begin(t)
  <2>1. t \notin Counted /\ Counted' = Counted \cup {t}
    BY <1>1, <1>2 DEF Begin, Goto, Counted, TypeOK
  <2>2. atomic' = Cardinality(Counted')
    BY <1>2, <2>1, CountedFinite, FS_AddElement DEF Begin
  <2>3. TypeOK' /\ HoldsJob'
    BY <1>2 DEF Begin, Goto, TypeOK, HoldsJob
  <2> QED
    BY <2>2, <2>3
<1>3. CASE End(t)
  <2>1. t \in Counted /\ Counted' = Counted \ {t}
    BY <1>1, <1>3 DEF End, Goto, Counted, TypeOK
  <2>2. atomic' = Cardinality(Counted')
    BY <1>3, <2>1, CountedFinite, FS_RemoveElement DEF End
  <2>4. atomic' \in Nat
    BY <2>1, <2>2, CountedFinite, FS_RemoveElement, FS_CardinalityType
  <2>3. HoldsJob' /\ TypeOK'
    BY <1>3, <2>4 DEF End, Goto, TypeOK, HoldsJob
  <2> QED
    BY <2>2, <2>3
<1>4. CASE Loop(t) \/ Get(t) \/ Run(t) \/ Report(t)
  <2>1. Counted' = Counted /\ atomic' = atomic
    BY <1>1, <1>4 DEF Loop, Get, Run, Report, AtPredicate, Goto, Counted, TypeOK
  <2>2. TypeOK' /\ HoldsJob'
    <3>1. CASE Get(t)
      <4>1. CASE tasks # <<>> /\ ~terminate
        <5>1. Head(tasks) \in Job /\ Tail(tasks) \in Seq(Job)
          BY <4>1 DEF TypeOK
        <5>2. Head(tasks) # NoJob
          BY <5>1
        <5>3. /\ pc' = [pc EXCEPT ![t] = "begin"]
              /\ job' = [job EXCEPT ![t] = Head(tasks)] /\ tasks' = Tail(tasks)
              /\ UNCHANGED <<terminate, atomic, asleep, submitted, ran, late>>
          BY <3>1, <4>1 DEF Get, Goto
        <5>4. TypeOK'
          BY <5>1, <5>3 DEF TypeOK
        <5>5. HoldsJob'
          BY <5>2, <5>3 DEF TypeOK, HoldsJob
        <5> QED
          BY <5>4, <5>5
      <4>2. CASE ~(tasks # <<>> /\ ~terminate)
        BY <3>1, <4>2 DEF Get, AtPredicate, Goto, TypeOK, HoldsJob
      <4> QED
        BY <4>1, <4>2
    <3>2. CASE Run(t)
      BY <3>2 DEF Run, Goto, TypeOK, HoldsJob
    <3>3. CASE Loop(t) \/ Report(t)
      BY <3>3 DEF Loop, Report, Goto, TypeOK, HoldsJob
    <3> QED
      BY <1>4, <3>1, <3>2, <3>3
  <2> QED
    BY <2>1, <2>2
<1> QED
  BY <1>2, <1>3, <1>4 DEF ThreadStep

LEMMA TypeStep == TypeInv /\ [Next]_vars => TypeInv'
<1> SUFFICES ASSUME TypeInv, [Next]_vars PROVE TypeInv'
  OBVIOUS
<1>1. CASE OwnerStep
  BY <1>1, TypeOwner
<1>2. ASSUME NEW t \in Thread, ThreadStep(t) PROVE TypeInv'
  BY <1>2, TypeThread
<1>3. CASE UNCHANGED vars
  BY <1>3 DEF vars, TypeInv, TypeOK, HoldsJob, Counted
<1> QED
  BY <1>1, <1>2, <1>3 DEF Next

LEMMA TypesHold == Spec => []TypeInv
  BY TypeInit, TypeStep, PTL DEF Spec

(* The pool's fields keep their types; m_atomic, which is decremented      *)
(* outside the mutex, is never negative.                                   *)
THEOREM PoolTypes == Spec => []TypeOK
  BY TypesHold, PTL DEF TypeInv

-----------------------------------------------------------------------------
(***************************************************************************)
(* No job is lost.  A thread takes no job after m_bTerminate, so that      *)
(* stop() leaves none behind needs waitForAllDone(): from its return on    *)
(* the queue is empty.                                                     *)
(***************************************************************************)
Elems(s) == {s[i] : i \in DOMAIN s}

LEMMA ElemsAppend ==
  ASSUME NEW s \in Seq(Job), NEW j \in Job
  PROVE  Elems(Append(s, j)) = Elems(s) \cup {j}
<1>1. /\ DOMAIN Append(s, j) = DOMAIN s \cup {Len(s) + 1}
      /\ Append(s, j)[Len(s) + 1] = j
      /\ \A i \in DOMAIN s : Append(s, j)[i] = s[i]
  OBVIOUS
<1> QED
  BY <1>1 DEF Elems

LEMMA ElemsTail ==
  ASSUME NEW s \in Seq(Job), s # <<>>
  PROVE  Elems(s) = Elems(Tail(s)) \cup {Head(s)}
<1>1. /\ Head(s) = s[1] /\ 1 \in DOMAIN s
      /\ \A i \in DOMAIN Tail(s) : i + 1 \in DOMAIN s /\ Tail(s)[i] = s[i + 1]
      /\ \A i \in DOMAIN s \ {1} : i - 1 \in DOMAIN Tail(s) /\ s[i] = Tail(s)[i - 1]
  OBVIOUS
<1>2. ASSUME NEW x \in Elems(s) PROVE x \in Elems(Tail(s)) \cup {Head(s)}
  <2>1. PICK i \in DOMAIN s : x = s[i]
    BY <1>2 DEF Elems
  <2>2. CASE i = 1
    BY <1>1, <2>1, <2>2
  <2>3. CASE i # 1
    <3>1. i - 1 \in DOMAIN Tail(s) /\ x = Tail(s)[i - 1]
      BY <1>1, <2>1, <2>3
    <3> QED
      BY <3>1 DEF Elems
  <2> QED
    BY <2>2, <2>3
<1>3. ASSUME NEW x \in Elems(Tail(s)) PROVE x \in Elems(s)
  <2>1. PICK i \in DOMAIN Tail(s) : x = Tail(s)[i]
    BY <1>3 DEF Elems
  <2> QED
    BY <1>1, <2>1 DEF Elems
<1>4. Head(s) \in Elems(s)
  BY <1>1 DEF Elems
<1> QED
  BY <1>2, <1>3, <1>4

Taken == {job[t] : t \in Thread} \ {NoJob}

Accounted == Elems(tasks) \cup Taken \cup ran \cup late = 1 .. submitted

OwnerProgress ==
  /\ pc[Owner] # "submits" => submitted = NJob
  /\ pc[Owner] \in {"returned", "joins", "stopped"} => tasks = <<>>
  /\ pc[Owner] = "stopped" => \A t \in Thread : pc[t] = "exit"

JobInv == Accounted /\ OwnerProgress

LEMMA JobInit == Init => JobInv
<1> SUFFICES ASSUME Init PROVE JobInv
  OBVIOUS
<1>1. tasks = <<>> /\ ran = {} /\ late = {} /\ submitted = 0
  BY DEF Init
<1>2. Elems(tasks) = {}
  BY <1>1 DEF Elems
<1>3. Taken = {}
  BY DEF Init, Taken
<1>4. 1 .. 0 = {}
  OBVIOUS
<1>5. Accounted
  BY <1>1, <1>2, <1>3, <1>4 DEF Accounted
<1>6. pc[Owner] = "submits"
  BY DEF Init
<1>7. OwnerProgress
  BY <1>6 DEF OwnerProgress
<1> QED
  BY <1>5, <1>7 DEF JobInv

LEMMA JobOwner == TypeInv /\ JobInv /\ OwnerStep => JobInv'
<1> SUFFICES ASSUME TypeInv, JobInv, OwnerStep PROVE JobInv'
  OBVIOUS
<1> USE JobAssumption, ThreadAssumption DEF TypeInv, JobInv, OwnerLabel
<1>1. CASE Exec
  <2>1. submitted + 1 \in Job /\ submitted' = submitted + 1
    BY <1>1 DEF Exec, TypeOK, Job
  <2>2. Elems(tasks') = Elems(tasks) \cup {submitted + 1}
    BY <1>1, <2>1, ElemsAppend DEF Exec, TypeOK
  <2>3. Taken' = Taken /\ ran' = ran /\ late' = late
    BY <1>1 DEF Exec, Taken
  <2>4. 1 .. (submitted + 1) = (1 .. submitted) \cup {submitted + 1}
    BY DEF TypeOK
  <2>5. Accounted'
    BY <2>1, <2>2, <2>3, <2>4 DEF Accounted
  <2> QED
    BY <1>1, <2>5 DEF Exec, OwnerProgress
<1>2. CASE CallWait \/ WaitForAllDone \/ Stop \/ Join
  <2>1. UNCHANGED <<tasks, job, submitted, ran, late>>
    BY <1>2 DEF CallWait, WaitForAllDone, Stop, Join
  <2>2. Accounted'
    BY <2>1 DEF Accounted, Taken, Elems
  <2>3. OwnerProgress'
    BY <1>2, <2>1 DEF CallWait, WaitForAllDone, Stop, Join, Goto, AtPredicate,
                      OwnerProgress, TypeOK
  <2> QED
    BY <2>2, <2>3
<1> QED
  BY <1>1, <1>2 DEF OwnerStep

LEMMA JobThread ==
  ASSUME TypeInv, JobInv, NEW t \in Thread, ThreadStep(t)
  PROVE  JobInv'
<1> USE JobAssumption, ThreadAssumption DEF TypeInv, JobInv, OwnerLabel, ThreadLabel
<1>1. UNCHANGED <<submitted>> /\ pc'[Owner] = pc[Owner] /\ pc[t] # "exit"
      /\ (tasks = <<>> => tasks' = <<>>)
  BY DEF ThreadStep, Loop, Get, Begin, Run, End, Report, AtPredicate, Goto, TypeOK
<1>2. OwnerProgress'
  BY <1>1 DEF OwnerProgress
<1>3. CASE Get(t) /\ tasks' # tasks
  <2>1. /\ tasks # <<>> /\ tasks' = Tail(tasks)
        /\ job' = [job EXCEPT ![t] = Head(tasks)]
        /\ UNCHANGED <<ran, late>>
    BY <1>3 DEF Get
  <2>2. Head(tasks) \in Job /\ Head(tasks) # NoJob
    BY <2>1 DEF TypeOK
  <2>3. job[t] = NoJob
    BY <1>3 DEF Get, AtPredicate, HoldsJob
  <2>4. Taken' = Taken \cup {Head(tasks)}
    BY <2>1, <2>2, <2>3 DEF Taken, TypeOK
  <2>5. Elems(tasks) = Elems(tasks') \cup {Head(tasks)}
    BY <2>1, ElemsTail DEF TypeOK
  <2> QED
    BY <1>1, <1>2, <2>1, <2>4, <2>5 DEF Accounted
<1>4. CASE Run(t)
  <2>1. /\ job' = [job EXCEPT ![t] = NoJob] /\ tasks' = tasks
        /\ ran' \cup late' = ran \cup late \cup {job[t]}
        /\ job[t] # NoJob
    BY <1>4 DEF Run, HoldsJob
  <2>2. Taken' \cup {job[t]} = Taken
    BY <2>1 DEF Taken, TypeOK
  <2>3. Taken' \cup ran' \cup late' = Taken \cup ran \cup late
    BY <2>1, <2>2
  <2> QED
    BY <1>1, <1>2, <2>1, <2>3 DEF Accounted, Elems
<1>5. CASE UNCHANGED <<tasks, job, ran, late>>
  BY <1>1, <1>2, <1>5 DEF Accounted, Taken, Elems
<1>6. \/ Get(t) /\ tasks' # tasks
      \/ Run(t)
      \/ UNCHANGED <<tasks, job, ran, late>>
  <2>1. CASE Get(t) /\ tasks' = tasks
    <3>1. ASSUME tasks # <<>> PROVE Tail(tasks) # tasks
      BY <3>1 DEF TypeOK
    <3> QED
      BY <2>1, <3>1 DEF Get
  <2> QED
    BY <2>1 DEF ThreadStep, Loop, Begin, End, Report
<1> QED
  BY <1>3, <1>4, <1>5, <1>6

LEMMA JobStep == TypeInv /\ JobInv /\ [Next]_vars => JobInv'
<1> SUFFICES ASSUME TypeInv, JobInv, [Next]_vars PROVE JobInv'
  OBVIOUS
<1>1. CASE OwnerStep
  BY <1>1, JobOwner
<1>2. ASSUME NEW t \in Thread, ThreadStep(t) PROVE JobInv'
  BY <1>2, JobThread
<1>3. CASE UNCHANGED vars
  BY <1>3 DEF vars, JobInv, Accounted, OwnerProgress, Elems, Taken
<1> QED
  BY <1>1, <1>2, <1>3 DEF Next

LEMMA JobsHold == Spec => []JobInv
  BY TypesHold, JobInit, JobStep, PTL DEF Spec

LEMMA StoppedSettled == TypeInv /\ JobInv => StoppedMeansSettled
<1> SUFFICES ASSUME TypeInv, JobInv, pc[Owner] = "stopped"
             PROVE  ran \cup late = Job
  BY DEF StoppedMeansSettled
<1>1. submitted = NJob /\ tasks = <<>> /\ \A t \in Thread : pc[t] = "exit"
  BY DEF JobInv, OwnerProgress
<1>2. Taken = {}
  BY <1>1 DEF TypeInv, HoldsJob, Taken
<1>3. Elems(tasks) = {}
  BY <1>1 DEF Elems
<1> QED
  BY <1>1, <1>2, <1>3 DEF JobInv, Accounted, Job

(* Once stop() has returned every job that exec() got was settled, for any *)
(* number of threads and jobs: an inventory that ends has looked at every  *)
(* disc it queued.                                                         *)
THEOREM NoJobLost == Spec => []StoppedMeansSettled
  BY TypesHold, JobsHold, StoppedSettled, PTL

-----------------------------------------------------------------------------
(***************************************************************************)
(* The refinement: exec() submits a fresh job, get() starts the first one, *)
(* and only the end of the job settles it.                                 *)
(***************************************************************************)
LEMMA MapsInit == Init => Jobs!Init
  BY DEF Init, Jobs!Init

LEMMA MapsStep == TypeInv /\ JobInv /\ [Next]_vars => [Jobs!Next]_(Jobs!jobvars)
<1> SUFFICES ASSUME TypeInv, JobInv, [Next]_vars
             PROVE  Jobs!Next \/ UNCHANGED Jobs!jobvars
  OBVIOUS
<1> USE JobAssumption, ThreadAssumption
<1>1. CASE Exec
  <2>1. submitted + 1 \in Job
    BY <1>1 DEF Exec, TypeInv, TypeOK, Job
  <2>2. submitted + 1 \notin 1 .. submitted
    BY DEF TypeInv, TypeOK
  <2>3. ~Jobs!Known(submitted + 1)
    BY <2>1, <2>2 DEF Jobs!Known, JobInv, Accounted, Elems, Taken
  <2>4. Jobs!Submit(submitted + 1)
    BY <1>1, <2>3 DEF Jobs!Submit, Exec
  <2> QED
    BY <2>1, <2>4 DEF Jobs!Next
<1>2. CASE CallWait \/ WaitForAllDone \/ Stop \/ Join
  BY <1>2 DEF CallWait, WaitForAllDone, Stop, Join, Jobs!jobvars
<1>3. ASSUME NEW t \in Thread, ThreadStep(t)
      PROVE  Jobs!Next \/ UNCHANGED Jobs!jobvars
  <2>1. CASE Get(t)
    <3>1. job[t] = NoJob
      BY <2>1 DEF Get, AtPredicate, TypeInv, HoldsJob
    <3>2. CASE tasks # <<>> /\ ~terminate
      BY <1>3, <2>1, <3>1, <3>2 DEF Get, Jobs!Start, Jobs!Next
    <3>3. CASE ~(tasks # <<>> /\ ~terminate)
      BY <2>1, <3>3 DEF Get, Jobs!jobvars
    <3> QED
      BY <3>2, <3>3
  <2>2. CASE Run(t)
    <3>1. job[t] # NoJob
      BY <2>2 DEF Run, TypeInv, HoldsJob
    <3>2. Jobs!Settle(t)
      BY <2>2, <3>1 DEF Run, Jobs!Settle
    <3> QED
      BY <1>3, <3>2 DEF Jobs!Next
  <2>3. CASE Loop(t) \/ Begin(t) \/ End(t) \/ Report(t)
    BY <2>3 DEF Loop, Begin, End, Report, Jobs!jobvars
  <2> QED
    BY <1>3, <2>1, <2>2, <2>3 DEF ThreadStep
<1>4. CASE UNCHANGED vars
  BY <1>4 DEF vars, Jobs!jobvars
<1> QED
  BY <1>1, <1>2, <1>3, <1>4 DEF Next, OwnerStep

(* The pool is a queue of jobs: each is run by one thread, once, and jobs  *)
(* start in the order of exec().                                           *)
THEOREM PoolIsJobQueue == Spec => ImplementsJobQueue
<1>1. Init => Jobs!Init
  BY MapsInit
<1> QED
  BY <1>1, MapsStep, TypesHold, JobsHold, PTL DEF Spec, ImplementsJobQueue, Jobs!Spec
=============================================================================
