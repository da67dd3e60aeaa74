----------------------------- MODULE ThreadPool -----------------------------
(***************************************************************************)
(* CRCThreadPool (depends/threadpool), used the way MachineServer::        *)
(* inventory uses it: the owner hands out jobs with exec(), calls          *)
(* waitForAllDone() and then stop().                                       *)
(*                                                                         *)
(* One condition variable serves the threads that wait for a job and the   *)
(* owner that waits for the queue to drain.  asleep is its wait set: a     *)
(* thread that notify took out of it still has to get the mutex before it  *)
(* looks at its predicate again.  What happens under the mutex is one      *)
(* step; isTerminate() and the updates of m_atomic are not under it.       *)
(***************************************************************************)
EXTENDS Naturals, Sequences, FiniteSets

CONSTANTS
  Thread,    \* m_pThreads
  Owner,     \* the thread that owns the pool
  NJob,      \* number of jobs it hands out
  Expiring,  \* jobs with an expire time
  NoJob

Job == 1 .. NJob

ASSUME JobAssumption ==
  NJob \in Nat /\ NoJob \notin Job /\ Expiring \subseteq Job
ASSUME ThreadAssumption == Owner \notin Thread /\ IsFiniteSet(Thread)

VARIABLES
  tasks,      \* m_tasks
  terminate,  \* m_bTerminate
  atomic,     \* m_atomic
  asleep,     \* threads waiting on m_condition
  pc,         \* Thread \cup {Owner} -> where it is
  job,        \* Thread -> the job it took
  submitted,  \* number of jobs handed to exec()
  ran, late   \* jobs that were executed, jobs that had expired

vars == <<tasks, terminate, atomic, asleep, pc, job, submitted, ran, late>>

Goto(t, p) == pc' = [pc EXCEPT ![t] = p]

NotifyOne ==
  \/ asleep = {} /\ asleep' = asleep
  \/ \E t \in asleep : asleep' = asleep \ {t}

(* A thread reads its predicate when it comes to wait() and when it was    *)
(* taken out of the wait set.                                              *)
AtPredicate(t) ==
  pc[t] \in (IF t = Owner THEN {"waits"} ELSE {"get"}) /\ t \notin asleep

Init ==
  /\ tasks = <<>> /\ terminate = FALSE /\ atomic = 0 /\ asleep = {}
  /\ pc = [t \in Thread \cup {Owner} |-> IF t = Owner THEN "submits" ELSE "loop"]
  /\ job = [t \in Thread |-> NoJob]
  /\ submitted = 0 /\ ran = {} /\ late = {}

(* exec() *)
Exec ==
  /\ pc[Owner] = "submits" /\ submitted < NJob
  /\ submitted' = submitted + 1
  /\ tasks' = Append(tasks, submitted + 1)
  /\ NotifyOne
  /\ UNCHANGED <<terminate, atomic, pc, job, ran, late>>

(* Mutant: the owner does not wait before it stops the pool. *)
CallStop ==
  /\ pc[Owner] = "submits" /\ submitted = NJob
  /\ Goto(Owner, "returned")
  /\ UNCHANGED <<tasks, terminate, atomic, asleep, job, submitted, ran, late>>

CallWait ==
  /\ pc[Owner] = "submits" /\ submitted = NJob
  /\ Goto(Owner, "waits")
  /\ UNCHANGED <<tasks, terminate, atomic, asleep, job, submitted, ran, late>>

(* waitForAllDone() waits for the queue, not for the threads. *)
WaitForAllDone ==
  /\ AtPredicate(Owner)
  /\ IF tasks = <<>>
     THEN Goto(Owner, "returned") /\ UNCHANGED asleep
     ELSE asleep' = asleep \cup {Owner} /\ UNCHANGED pc
  /\ UNCHANGED <<tasks, terminate, atomic, job, submitted, ran, late>>

(* stop() *)
Stop ==
  /\ pc[Owner] = "returned"
  /\ terminate' = TRUE
  /\ asleep' = {}
  /\ Goto(Owner, "joins")
  /\ UNCHANGED <<tasks, atomic, job, submitted, ran, late>>

Join ==
  /\ pc[Owner] = "joins" /\ \A t \in Thread : pc[t] = "exit"
  /\ Goto(Owner, "stopped")
  /\ UNCHANGED <<tasks, terminate, atomic, asleep, job, submitted, ran, late>>

(* run() *)
Loop(t) ==
  /\ pc[t] = "loop"
  /\ Goto(t, IF terminate THEN "exit" ELSE "get")
  /\ UNCHANGED <<tasks, terminate, atomic, asleep, job, submitted, ran, late>>

(* Mutant: the job stays in the queue while it is taken. *)
GetKept(t) ==
  /\ AtPredicate(t)
  /\ \/ /\ terminate
        /\ Goto(t, "loop") /\ UNCHANGED <<asleep, job>>
     \/ /\ ~terminate /\ tasks = <<>>
        /\ asleep' = asleep \cup {t} /\ UNCHANGED <<pc, job>>
     \/ /\ ~terminate /\ tasks # <<>>
        /\ job' = [job EXCEPT ![t] = Head(tasks)]
        /\ Goto(t, "begin") /\ UNCHANGED asleep
  /\ UNCHANGED <<tasks, terminate, atomic, submitted, ran, late>>

(* get(): the thread sleeps while there is neither a job nor an end; at    *)
(* the end it takes no job, even if there are some.                        *)
Get(t) ==
  /\ AtPredicate(t)
  /\ \/ /\ terminate
        /\ Goto(t, "loop") /\ UNCHANGED <<tasks, asleep, job>>
     \/ /\ ~terminate /\ tasks = <<>>
        /\ asleep' = asleep \cup {t} /\ UNCHANGED <<tasks, pc, job>>
     \/ /\ ~terminate /\ tasks # <<>>
        /\ job' = [job EXCEPT ![t] = Head(tasks)]
        /\ tasks' = Tail(tasks)
        /\ Goto(t, "begin") /\ UNCHANGED asleep
  /\ UNCHANGED <<terminate, atomic, submitted, ran, late>>

(* Mutant: the job is not counted. *)
BeginUncounted(t) ==
  /\ pc[t] = "begin"
  /\ Goto(t, "run")
  /\ UNCHANGED <<tasks, terminate, atomic, asleep, job, submitted, ran, late>>

Begin(t) ==
  /\ pc[t] = "begin"
  /\ atomic' = atomic + 1
  /\ Goto(t, "run")
  /\ UNCHANGED <<tasks, terminate, asleep, job, submitted, ran, late>>

(* The job runs, or turns out to have expired. *)
Run(t) ==
  /\ pc[t] = "run"
  /\ \/ ran' = ran \cup {job[t]} /\ UNCHANGED late
     \/ job[t] \in Expiring /\ late' = late \cup {job[t]} /\ UNCHANGED ran
  /\ job' = [job EXCEPT ![t] = NoJob]
  /\ Goto(t, "end")
  /\ UNCHANGED <<tasks, terminate, atomic, asleep, submitted>>

End(t) ==
  /\ pc[t] = "end"
  /\ atomic' = atomic - 1
  /\ Goto(t, "report")
  /\ UNCHANGED <<tasks, terminate, asleep, job, submitted, ran, late>>

(* Mutant: one waiter is told, which may be a thread and not the owner. *)
ReportOne(t) ==
  /\ pc[t] = "report"
  /\ IF atomic = 0 /\ tasks = <<>> THEN NotifyOne ELSE UNCHANGED asleep
  /\ Goto(t, "loop")
  /\ UNCHANGED <<tasks, terminate, atomic, job, submitted, ran, late>>

Report(t) ==
  /\ pc[t] = "report"
  /\ asleep' = IF atomic = 0 /\ tasks = <<>> THEN {} ELSE asleep
  /\ Goto(t, "loop")
  /\ UNCHANGED <<tasks, terminate, atomic, job, submitted, ran, late>>

OwnerStep == Exec \/ CallWait \/ WaitForAllDone \/ Stop \/ Join
ThreadStep(t) ==
  Loop(t) \/ Get(t) \/ Begin(t) \/ Run(t) \/ End(t) \/ Report(t)

Next == OwnerStep \/ \E t \in Thread : ThreadStep(t)

Spec == Init /\ [][Next]_vars

(* The owner and the threads are scheduled, and jobs end. *)
FairSpec == Spec /\ WF_vars(OwnerStep) /\ \A t \in Thread : WF_vars(ThreadStep(t))

-----------------------------------------------------------------------------
OwnerLabel  == {"submits", "waits", "returned", "joins", "stopped"}
ThreadLabel == {"loop", "get", "begin", "run", "end", "report", "exit"}

(* Every field holds a value of its C++ type, every pc a label. *)
TypeOK ==
  /\ tasks \in Seq(Job)
  /\ terminate \in BOOLEAN
  /\ atomic \in Nat
  /\ asleep \subseteq Thread \cup {Owner}
  /\ pc \in [Thread \cup {Owner} -> OwnerLabel \cup ThreadLabel]
  /\ pc[Owner] \in OwnerLabel
  /\ \A t \in Thread : pc[t] \in ThreadLabel
  /\ job \in [Thread -> Job \cup {NoJob}]
  /\ submitted \in 0 .. NJob
  /\ ran \subseteq Job /\ late \subseteq Job

(* When stop() returns every job was settled, although a thread takes no   *)
(* job after m_bTerminate and waitForAllDone() returned while some still   *)
(* ran: the queue is empty when it returns, and stop() joins.              *)
StoppedMeansSettled == pc[Owner] = "stopped" => ran \cup late = Job

(* The owner is never left asleep, and every job is settled before stop()  *)
(* returns, which it does.                                                 *)
StopReturns == <>(pc[Owner] = "stopped")

(* The pool is a queue of jobs. *)
Jobs == INSTANCE JobQueue WITH
  waiting <- tasks, running <- job, settled <- ran \cup late
ImplementsJobQueue == Jobs!Spec
=============================================================================
