------------------------------- MODULE Wheel -------------------------------
(***************************************************************************)
(* The timers of CRCTimeWheelScheduler: wheels from the greatest scale to  *)
(* the least, each with a current slot, and one thread that turns the      *)
(* least wheel by a slot in every step.  A wheel that comes round turns    *)
(* the next greater one by a slot and takes that slot's timers over.       *)
(*                                                                         *)
(* Only distances in time matter: left says how far a timer is from its    *)
(* m_when_ms, below 0 when it is late.  The order of the timers in a slot  *)
(* is left out.                                                            *)
(***************************************************************************)
EXTENDS Integers

CONSTANTS
  NLevel,    \* number of wheels, 1 is the greatest
  Scales,    \* Level -> slots of the wheel
  Unit,      \* Level -> time of one slot, m_scale_unit_ms
  Step,      \* m_timer_step_ms
  Timer,     \* timers, as many as are created
  Delay,     \* distances at which they are set
  Interval,  \* intervals of repeated ones
  Lag,       \* bound on how long the thread oversleeps, and on a run of tasks
  None

Level == 1 .. NLevel

ASSUME LevelAssumption == NLevel \in Nat \ {0}
ASSUME UnitAssumption ==
  Scales \in [Level -> Nat \ {0}] /\ Unit \in [Level -> Nat \ {0}]
ASSUME TimeAssumption ==
  /\ Step \in Nat \ {0} /\ Lag \in Nat
  /\ Delay \subseteq Int /\ Interval \subseteq Nat
ASSUME NoneAssumption == None \notin Level \X Nat

VARIABLES
  index,   \* Level -> m_current_index
  slot,    \* Timer -> the wheel and slot it is in
  left,    \* Timer -> m_when_ms less the time it is now
  set,     \* Timer -> what left was when it was last put on the wheels
  every,   \* Timer -> m_interval_ms, 0 for a timer that is not repeated
  made,    \* timers created so far
  due,     \* timers of the slot whose tasks are being run
  cancel,  \* m_cancel_timer_ids
  asked,   \* timers CancelTimer() was called for
  pc,      \* where the thread is; it holds m_mutex but in sleep
  at,      \* the wheel whose slot is to be taken over
  since,   \* time since it fell asleep or woke up
  stop     \* m_stop

wheels == <<index, slot, left, set, every, made, due>>
vars   == <<wheels, cancel, asked, pc, at, since, stop>>

Init ==
  /\ index = [m \in Level |-> 0]
  /\ slot = [t \in Timer |-> None]
  /\ left = [t \in Timer |-> 0] /\ set = [t \in Timer |-> 0]
  /\ every = [t \in Timer |-> 0]
  /\ made = {} /\ due = {} /\ cancel = {} /\ asked = {}
  /\ pc = "sleep" /\ at = NLevel /\ since = 0 /\ stop = FALSE

Pending(t) == slot[t] # None \/ t \in due
Unlocked   == pc \in {"sleep", "ended"}

-----------------------------------------------------------------------------
(* GetCurrentTime() of a wheel and those below it. *)
CurrentTime[m \in 1 .. NLevel + 1] ==
  IF m > NLevel THEN 0 ELSE index[m] * Unit[m] + CurrentTime[m + 1]

(* Mutant: the time the less wheels have behind them is taken off. *)
DiffLess(m, time) == time - CurrentTime[m + 1]

Diff(m, time) == time + CurrentTime[m + 1]

(* AddTimer() of wheel m: the slot of the first wheel whose unit is not    *)
(* too large, or else the current slot of the least.                       *)
AddTimer(m, time) ==
  LET fits == {k \in m .. NLevel : Diff(k, time) >= Unit[k]}
      k    == CHOOSE k \in fits : \A j \in fits : k <= j
  IN IF fits = {} THEN <<NLevel, index[NLevel]>>
     ELSE <<k, (index[k] + Diff(k, time) \div Unit[k]) % Scales[k]>>

(* CreateTimerAt, CreateTimerAfter, CreateTimerEvery *)
CreateTimer(t, d, i) ==
  /\ Unlocked /\ t \notin made
  /\ made' = made \cup {t}
  /\ left' = [left EXCEPT ![t] = d] /\ set' = [set EXCEPT ![t] = d]
  /\ every' = [every EXCEPT ![t] = i]
  /\ slot' = [slot EXCEPT ![t] = AddTimer(1, d)]
  /\ UNCHANGED <<index, due, cancel, asked, pc, at, since, stop>>

CancelTimer(t) ==
  /\ Unlocked /\ t \in made
  /\ cancel' = cancel \cup {t} /\ asked' = asked \cup {t}
  /\ UNCHANGED <<wheels, pc, at, since, stop>>

Stop ==
  /\ Unlocked /\ stop' = TRUE
  /\ UNCHANGED <<wheels, cancel, asked, pc, at, since>>

-----------------------------------------------------------------------------
(* Run(): the thread.                                                      *)

(* Increase() turns a wheel when all that are less come round.             *)
Turns(m) == \A k \in m + 1 .. NLevel : index[k] + 1 >= Scales[k]

Increase ==
  /\ pc = "sleep" /\ since >= Step /\ ~stop
  /\ index' = [m \in Level |->
                 IF Turns(m) THEN (index[m] + 1) % Scales[m] ELSE index[m]]
  /\ \E m \in Level : Turns(m) /\ ~(m > 1 /\ Turns(m - 1)) /\ at' = m
  /\ pc' = "increase" /\ since' = 0
  /\ UNCHANGED <<slot, left, set, every, made, due, cancel, asked, stop>>

InSlot(m) == {t \in Timer : slot[t] = <<m, index[m]>>}

(* Mutant: the timers of the slot stay there for another turn. *)
TakeOverLater ==
  /\ pc = "increase" /\ at < NLevel
  /\ at' = at + 1
  /\ UNCHANGED <<wheels, cancel, asked, pc, since, stop>>

(* The greatest wheel that turned first: its current slot goes into the    *)
(* next wheel, which has turned already.                                   *)
TakeOver ==
  /\ pc = "increase" /\ at < NLevel
  /\ slot' = [t \in Timer |->
                IF t \in InSlot(at) THEN AddTimer(at + 1, left[t]) ELSE slot[t]]
  /\ at' = at + 1
  /\ UNCHANGED <<index, left, set, every, made, due, cancel, asked, pc, since, stop>>

(* Mutant: the slot is not cleared. *)
GetCurrentSlot ==
  /\ pc = "increase" /\ at = NLevel
  /\ due' = InSlot(NLevel)
  /\ pc' = "run"
  /\ UNCHANGED <<index, slot, left, set, every, made, cancel, asked, at, since, stop>>

GetAndClearCurrentSlot ==
  /\ pc = "increase" /\ at = NLevel
  /\ due' = InSlot(NLevel)
  /\ slot' = [t \in Timer |-> IF t \in due' THEN None ELSE slot[t]]
  /\ pc' = "run"
  /\ UNCHANGED <<index, left, set, every, made, cancel, asked, at, since, stop>>

(* UpdateWhenTime(), and back into the greatest wheel.                     *)
Again(t) ==
  /\ left' = [left EXCEPT ![t] = @ + every[t]]
  /\ set'  = [set EXCEPT ![t] = left[t] + every[t]]
  /\ slot' = [slot EXCEPT ![t] = AddTimer(1, left[t] + every[t])]

(* The timer is deleted. *)
Forget(t) ==
  /\ left' = [left EXCEPT ![t] = 0] /\ set' = [set EXCEPT ![t] = 0]
  /\ UNCHANGED slot

(* Mutant: a repeated timer is put back although it was cancelled. *)
RunTaskAnyway(t) ==
  /\ pc = "run" /\ t \in due
  /\ due' = due \ {t} /\ cancel' = cancel \ {t}
  /\ IF every[t] > 0
     THEN Again(t)
     ELSE Forget(t)
  /\ UNCHANGED <<index, every, made, asked, pc, at, since, stop>>

(* Each timer of the slot in turn. *)
RunTask(t) ==
  /\ pc = "run" /\ t \in due
  /\ due' = due \ {t} /\ cancel' = cancel \ {t}
  /\ IF t \notin cancel /\ every[t] > 0
     THEN Again(t)
     ELSE Forget(t)
  /\ UNCHANGED <<index, every, made, asked, pc, at, since, stop>>

Sleep ==
  /\ pc = "run" /\ due = {}
  /\ pc' = "sleep" /\ since' = 0
  /\ UNCHANGED <<wheels, cancel, asked, at, stop>>

End ==
  /\ pc = "sleep" /\ since >= Step /\ stop
  /\ pc' = "ended"
  /\ UNCHANGED <<wheels, cancel, asked, at, since, stop>>

(* Time passes. *)
Advance ==
  /\ \/ pc = "sleep" /\ since < Step + Lag
     \/ pc = "run" /\ since < Lag
  /\ since' = since + 1
  /\ left' = [t \in Timer |-> IF Pending(t) THEN left[t] - 1 ELSE left[t]]
  /\ UNCHANGED <<index, slot, set, every, made, due, cancel, asked, pc, at, stop>>

Run ==
  \/ Increase \/ TakeOver \/ GetAndClearCurrentSlot \/ Sleep \/ End
  \/ \E t \in Timer : RunTask(t)

Next ==
  \/ Run \/ Advance \/ Stop
  \/ \E t \in Timer : \/ CancelTimer(t)
                      \/ \E d \in Delay, i \in Interval : CreateTimer(t, d, i)

Spec == Init /\ [][Next]_vars
-----------------------------------------------------------------------------
(* Every index points into its wheel, and a timer is in one place: in a    *)
(* slot there is, or among those that are run.                             *)
TypeOK ==
  /\ index \in [Level -> Nat] /\ \A m \in Level : index[m] < Scales[m]
  /\ \A t \in Timer : slot[t] = None \/ \E m \in Level :
                         \E n \in 0 .. Scales[m] - 1 : slot[t] = <<m, n>>
  /\ left \in [Timer -> Int] /\ set \in [Timer -> Int] /\ every \in [Timer -> Nat]
  /\ made \subseteq Timer /\ cancel \subseteq asked /\ asked \subseteq made
  /\ due \subseteq made /\ \A t \in due : slot[t] = None
  /\ pc \in {"sleep", "increase", "run", "ended"}
  /\ at \in Level /\ since \in 0 .. Step + Lag /\ stop \in BOOLEAN

Runs(t) == t \in due \ due' /\ t \notin cancel

(* No task runs after CancelTimer() returned: a cancelled timer loses its  *)
(* id in the set only with its place on the wheels.                        *)
CancelledNeverRuns == [][\A t \in Timer : Runs(t) => t \notin asked]_vars

Taken(t) == t \in due' \ due

(* A timer set for less than a turn of the greatest wheel is not taken two *)
(* steps early; except that one with a whole unit of a greater wheel left, *)
(* and up to a step, when that wheel turns, goes all the way round the     *)
(* next wheel and is taken at once.                                        *)
NotEarly ==
  [][\A t \in Timer : Taken(t) =>
       \/ left[t] < 2 * Step
       \/ \E m \in 1 .. NLevel - 1 : left[t] \in Unit[m] .. Unit[m] + Step - 1]_vars

(* However late the thread is in every step, a timer waits for no more     *)
(* steps than fit into the time it was set for; or, when that is less than *)
(* one, for a turn of the least wheel.                                     *)
Steps(d) == IF d < Step THEN Scales[NLevel] ELSE d \div Step + 1
NotLate ==
  \A t \in Timer : Pending(t) =>
    set[t] - left[t] <= Steps(set[t]) * (Step + 2 * Lag) + Lag
=============================================================================
