------------------------------ MODULE JobQueue ------------------------------
(***************************************************************************)
(* What CRCThreadPool promises its users: jobs start in the order in which *)
(* exec() got them, each is run by one thread, once, and a thread that     *)
(* started a job settles it before it starts another.                      *)
(***************************************************************************)
EXTENDS Naturals, Sequences

CONSTANTS Job, Thread, NoJob

VARIABLES
  waiting,   \* jobs that no thread has started, in order
  running,   \* Thread -> the job it runs
  settled    \* jobs that were run, or found to be too late

jobvars == <<waiting, running, settled>>

Init ==
  /\ waiting = <<>>
  /\ running = [t \in Thread |-> NoJob]
  /\ settled = {}

Known(j) ==
  \/ \E i \in DOMAIN waiting : waiting[i] = j
  \/ \E t \in Thread : running[t] = j
  \/ j \in settled

Submit(j) ==
  /\ ~Known(j)
  /\ waiting' = Append(waiting, j)
  /\ UNCHANGED <<running, settled>>

Start(t) ==
  /\ waiting # <<>> /\ running[t] = NoJob
  /\ running' = [running EXCEPT ![t] = Head(waiting)]
  /\ waiting' = Tail(waiting)
  /\ UNCHANGED settled

Settle(t) ==
  /\ running[t] # NoJob
  /\ settled' = settled \cup {running[t]}
  /\ running' = [running EXCEPT ![t] = NoJob]
  /\ UNCHANGED waiting

Next == \/ \E j \in Job : Submit(j)
        \/ \E t \in Thread : Start(t) \/ Settle(t)

Spec == Init /\ [][Next]_jobvars
=============================================================================
