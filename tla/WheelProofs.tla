---------------------------- MODULE WheelProofs ----------------------------
(***************************************************************************)
(* A timer that was cancelled never runs, whatever the wheels, the steps   *)
(* and the interleaving of CreateTimer, CancelTimer and the thread.  The   *)
(* invariant: the id of a cancelled timer stays in m_cancel_timer_ids as   *)
(* long as the timer is in a slot or among those being run.                *)
(*                                                                         *)
(* And every timer is in a slot there is.  That AddTimer finds one depends *)
(* on the current time of the wheels, a sum along them: the library has    *)
(* induction over an operator, so what a sum needs is taken from a least   *)
(* number, which every set of numbers has.                                 *)
(*                                                                         *)
(* And no timer waits for more steps than fit into its time.  The          *)
(* invariant: the steps a timer waited and those until the slot it is in,  *)
(* with those until the slots it will be moved to, are no more than that.  *)
(*                                                                         *)
(* And none is taken two steps early that was set within a turn of the     *)
(* greatest wheel.  The invariant: it is in a slot that its wheel reaches  *)
(* less than a slot and a step before its time.                            *)
(***************************************************************************)
EXTENDS Wheel, WellFoundedInduction, TLAPS

WheelsOK ==
  /\ index \in [Level -> Nat]
  /\ at \in Level
  /\ DOMAIN slot = Timer

Apart ==
  /\ \A t \in due : t \in made \cap Timer /\ slot[t] = None
  /\ \A t \in Timer : slot[t] # None => t \in made

Noted == \A t \in Timer : t \in asked /\ Pending(t) => t \in cancel

IInv ==
  /\ WheelsOK
  /\ asked \subseteq made
  /\ Apart
  /\ Noted

(* A slot is never taken for no slot. *)
LEMMA SlotIsSome ==
  ASSUME WheelsOK, NEW m \in Level
  PROVE  <<m, index[m]>> # None
BY NoneAssumption DEF WheelsOK

(* The greatest and the least wheel are wheels. *)
LEMMA LastLevel == NLevel \in Level /\ 1 \in Level
BY LevelAssumption DEF Level

(* At first there are no timers. *)
LEMMA InitIInv == Init => IInv
BY LastLevel DEF Init, IInv, WheelsOK, Apart, Noted, Pending

(* The wheels and slots stay what they are. *)
LEMMA WheelsStep ==
  ASSUME WheelsOK, [Next]_vars
  PROVE  WheelsOK'
<1>1. index' \in [Level -> Nat]
  <2>1. CASE Increase
    <3>1. \A m \in Level : (index[m] + 1) % Scales[m] \in Nat
      BY UnitAssumption DEF WheelsOK
    <3>. QED  BY <2>1, <3>1 DEF Increase, WheelsOK
  <2>2. CASE index' = index
    BY <2>2 DEF WheelsOK
  <2>. QED
    BY <2>1, <2>2
       DEF Next, Run, TakeOver, GetAndClearCurrentSlot, RunTask, Sleep, End,
           Advance, Stop, CancelTimer, CreateTimer, vars, wheels
<1>2. at' \in Level
  <2>1. CASE TakeOver
    BY <2>1, LevelAssumption DEF TakeOver, WheelsOK, Level
  <2>2. CASE Increase
    BY <2>2 DEF Increase
  <2>3. CASE at' = at
    BY <2>3 DEF WheelsOK
  <2>. QED
    BY <2>1, <2>2, <2>3
       DEF Next, Run, GetAndClearCurrentSlot, RunTask, Sleep, End,
           Advance, Stop, CancelTimer, CreateTimer, vars, wheels
<1>3. DOMAIN slot' = Timer
  <2>1. CASE slot' = slot
    BY <2>1 DEF WheelsOK
  <2>2. ASSUME NEW t \in Timer, NEW p, slot' = [slot EXCEPT ![t] = p]
        PROVE  DOMAIN slot' = Timer
    BY <2>2 DEF WheelsOK
  <2>3. ASSUME NEW t \in Timer, RunTask(t)
        PROVE  DOMAIN slot' = Timer
    BY <2>1, <2>2, <2>3 DEF RunTask, Again, Forget
  <2>4. ASSUME NEW t \in Timer, NEW d \in Delay, NEW i \in Interval,
               CreateTimer(t, d, i)
        PROVE  DOMAIN slot' = Timer
    BY <2>2, <2>4 DEF CreateTimer
  <2>5. CASE TakeOver \/ GetAndClearCurrentSlot
    BY <2>5 DEF TakeOver, GetAndClearCurrentSlot
  <2>. QED
    BY <2>1, <2>3, <2>4, <2>5
       DEF Next, Run, Increase, Sleep, End, Advance, Stop, CancelTimer, vars, wheels
<1>. QED
  BY <1>1, <1>2, <1>3 DEF WheelsOK

(* Only a timer that was created is cancelled. *)
LEMMA AskedStep ==
  ASSUME asked \subseteq made, [Next]_vars
  PROVE  asked' \subseteq made'
BY DEF Next, Run, Increase, TakeOver, GetAndClearCurrentSlot, RunTask, Sleep, End,
       Advance, Stop, CancelTimer, CreateTimer, vars, wheels

(* A timer is in a slot or among those being run, never in both. *)
LEMMA ApartStep ==
  ASSUME WheelsOK, Apart, [Next]_vars
  PROVE  Apart'
<1>1. ASSUME NEW t \in Timer, NEW d \in Delay, NEW i \in Interval, CreateTimer(t, d, i)
      PROVE  Apart'
  <2>1. \A u \in Timer : u # t => slot'[u] = slot[u]
    BY <1>1 DEF CreateTimer, WheelsOK
  <2>. QED  BY <1>1, <2>1 DEF CreateTimer, Apart
<1>2. CASE TakeOver
  <2>1. \A t \in InSlot(at) : slot[t] # None
    BY SlotIsSome DEF InSlot, WheelsOK
  <2>. QED  BY <1>2, <2>1 DEF TakeOver, Apart
<1>3. CASE GetAndClearCurrentSlot
  <2>1. \A t \in InSlot(NLevel) : t \in Timer /\ slot[t] # None
    BY SlotIsSome, LastLevel DEF InSlot
  <2>. QED  BY <1>3, <2>1 DEF GetAndClearCurrentSlot, Apart
<1>4. ASSUME NEW t \in Timer, RunTask(t)
      PROVE  Apart'
  <2>1. \A u \in Timer : u # t => slot'[u] = slot[u]
    BY <1>4 DEF RunTask, Again, Forget, WheelsOK
  <2>. QED  BY <1>4, <2>1 DEF RunTask, Apart
<1>5. CASE UNCHANGED <<slot, made, due>>
  BY <1>5 DEF Apart
<1>. QED
  BY <1>1, <1>2, <1>3, <1>4, <1>5
     DEF Next, Run, Increase, Sleep, End, Advance, Stop, CancelTimer, vars, wheels

(* An action that only takes timers off, or moves them from slot to slot. *)
LEMMA MoveKeepsNoted ==
  ASSUME Noted, asked' = asked, cancel' = cancel,
         \A t \in Timer : Pending(t)' => Pending(t)
  PROVE  Noted'
BY DEF Noted

(* The id of a cancelled timer leaves the set with the timer. *)
LEMMA NotedStep ==
  ASSUME IInv, [Next]_vars
  PROVE  Noted'
<1>. USE DEF IInv
<1>1. ASSUME NEW t \in Timer, NEW d \in Delay, NEW i \in Interval, CreateTimer(t, d, i)
      PROVE  Noted'
  <2>1. t \notin asked
    BY <1>1 DEF CreateTimer
  <2>2. \A u \in Timer : u # t /\ Pending(u)' => Pending(u)
    BY <1>1 DEF CreateTimer, Pending, WheelsOK
  <2>. QED  BY <1>1, <2>1, <2>2 DEF CreateTimer, Noted
<1>2. ASSUME NEW t \in Timer, CancelTimer(t)
      PROVE  Noted'
  BY <1>2 DEF CancelTimer, Noted, Pending, wheels
<1>3. CASE TakeOver
  <2>1. \A t \in InSlot(at) : slot[t] # None
    BY SlotIsSome DEF InSlot, WheelsOK
  <2>2. \A t \in Timer : Pending(t)' => Pending(t)
    BY <1>3, <2>1 DEF TakeOver, Pending
  <2>. QED  BY <1>3, <2>2, MoveKeepsNoted DEF TakeOver
<1>4. CASE GetAndClearCurrentSlot
  <2>1. \A t \in InSlot(NLevel) : slot[t] # None
    BY SlotIsSome, LastLevel DEF InSlot
  <2>2. \A t \in Timer : Pending(t)' => Pending(t)
    BY <1>4, <2>1 DEF GetAndClearCurrentSlot, Pending
  <2>. QED  BY <1>4, <2>2, MoveKeepsNoted DEF GetAndClearCurrentSlot
<1>5. ASSUME NEW t \in Timer, RunTask(t)
      PROVE  Noted'
  <2>1. \A u \in Timer : u # t /\ Pending(u)' => Pending(u)
    BY <1>5 DEF RunTask, Again, Forget, Pending, WheelsOK
  <2>2. t \in asked => t \in cancel
    BY <1>5 DEF RunTask, Noted, Pending
  <2>3. CASE t \in cancel
    <3>1. ~Pending(t)'
      BY <1>5, <2>3 DEF RunTask, Apart, Forget, Pending
    <3>. QED  BY <1>5, <2>1, <3>1 DEF RunTask, Noted
  <2>4. CASE t \notin cancel
    BY <1>5, <2>1, <2>2, <2>4 DEF RunTask, Noted
  <2>. QED  BY <2>3, <2>4
<1>6. CASE Increase \/ Sleep \/ End \/ Advance \/ Stop \/ UNCHANGED vars
  BY <1>6, MoveKeepsNoted
     DEF Increase, Sleep, End, Advance, Stop, vars, wheels, Pending
<1>. QED
  BY <1>1, <1>2, <1>3, <1>4, <1>5, <1>6 DEF Next, Run

(* All of them together. *)
LEMMA NextIInv ==
  ASSUME IInv, [Next]_vars
  PROVE  IInv'
BY WheelsStep, AskedStep, ApartStep, NotedStep DEF IInv

(* What is run was not cancelled. *)
LEMMA StepCancelled ==
  ASSUME IInv, [Next]_vars
  PROVE  \A t \in Timer : Runs(t) => t \notin asked
BY DEF IInv, Noted, Runs, Pending

(* No task runs after CancelTimer() returned for it. *)
THEOREM CancelledTimersNeverRun == Spec => CancelledNeverRuns
<1>1. Spec => []IInv
  <2>1. IInv /\ [Next]_vars => IInv'
    BY NextIInv
  <2>. QED  BY InitIInv, <2>1, PTL DEF Spec
<1>2. IInv /\ [Next]_vars => [\A t \in Timer : Runs(t) => t \notin asked]_vars
  BY StepCancelled
<1>. QED
  BY <1>1, <1>2, PTL DEF Spec, CancelledNeverRuns

-----------------------------------------------------------------------------
(***************************************************************************)
(* Timers are in slots there are.                                          *)
(***************************************************************************)
Less == {ss \in Nat \X Nat : ss[1] < ss[2]}

(* A set of numbers has a least one. *)
LEMMA LeastNumber ==
  ASSUME NEW T \in SUBSET Nat, T # {}
  PROVE  \E x \in T : \A y \in T : x <= y
<1>1. IsWellFoundedOn(Less, Nat)
  BY NatLessThanWellFounded DEF OpToRel, Less
<1>2. PICK x \in T : \A y \in T : <<y, x>> \notin Less
  BY <1>1, WFMin, Zenon
<1>3. \A y \in T : ~(y < x)
  BY <1>2 DEF Less
<1>. QED  BY <1>3

(* The times of the wheels from the least to the n-th from the end. *)
Sums(n, f) ==
  /\ f \in [NLevel + 1 - n .. NLevel + 1 -> Nat]
  /\ \A m \in NLevel + 1 - n .. NLevel + 1 :
       f[m] = IF m > NLevel THEN 0 ELSE index[m] * Unit[m] + f[m + 1]

(* Times of wheels are numbers. *)
LEMMA Product == ASSUME NEW a \in Nat, NEW b \in Nat PROVE a * b \in Nat
OBVIOUS

(* What is below a wheel determines what is below the next greater one. *)
LEMMA SumsGrow ==
  ASSUME WheelsOK, NEW n \in Nat, n < NLevel, NEW f, Sums(n, f)
  PROVE  \E g : Sums(n + 1, g)
<1>1. PICK l : /\ l \in Level /\ l \in Nat /\ l <= NLevel /\ NLevel \in Nat
               /\ NLevel + 1 - n = l + 1 /\ NLevel + 1 - (n + 1) = l
  <2>1. PICK l : l = NLevel - n
    OBVIOUS
  <2>2. /\ l \in Level /\ l \in Nat /\ l <= NLevel /\ NLevel \in Nat
        /\ NLevel + 1 - n = l + 1 /\ NLevel + 1 - (n + 1) = l
    BY <2>1, LevelAssumption DEF Level
  <2>. QED  BY <2>2
<1>2. index[l] * Unit[l] \in Nat
  BY <1>1, UnitAssumption, Product DEF WheelsOK
<1>3. PICK c : c = index[l] * Unit[l] + f[l + 1] /\ c \in Nat
  <2>1. f[l + 1] \in Nat
    BY <1>1 DEF Sums
  <2>. QED  BY <1>2, <2>1
<1>4. PICK g : g = [m \in l .. NLevel + 1 |-> IF m = l THEN c ELSE f[m]]
  OBVIOUS
<1>5. \A m \in l .. NLevel + 1 : m = l \/ m \in l + 1 .. NLevel + 1
  BY <1>1
<1>6. g \in [l .. NLevel + 1 -> Nat]
  BY <1>1, <1>3, <1>4, <1>5 DEF Sums
<1>7. g[l] = c /\ \A m \in l + 1 .. NLevel + 1 : g[m] = f[m]
  <2>1. l \in l .. NLevel + 1 /\ l \notin l + 1 .. NLevel + 1
    BY <1>1
  <2>2. \A m \in l + 1 .. NLevel + 1 : m \in l .. NLevel + 1
    BY <1>1
  <2>. QED  BY <1>4, <2>1, <2>2
<1>8. ASSUME NEW m \in l .. NLevel + 1
      PROVE  g[m] = IF m > NLevel THEN 0 ELSE index[m] * Unit[m] + g[m + 1]
  <2>1. CASE m = l
    BY <1>1, <1>3, <1>7, <2>1
  <2>2. CASE m \in l + 1 .. NLevel + 1
    <3>1. f[m] = IF m > NLevel THEN 0 ELSE index[m] * Unit[m] + f[m + 1]
      BY <1>1, <2>2 DEF Sums
    <3>2. m <= NLevel => m + 1 \in l + 1 .. NLevel + 1
      BY <1>1, <2>2
    <3>. QED  BY <1>1, <1>7, <2>2, <3>1, <3>2
  <2>. QED  BY <1>5, <2>1, <2>2
<1>. QED  BY <1>1, <1>6, <1>8 DEF Sums

(* The current time of every wheel is a number, and what it was defined as. *)
LEMMA CurrentTimes ==
  ASSUME WheelsOK
  PROVE  /\ CurrentTime \in [1 .. NLevel + 1 -> Nat]
         /\ \A m \in 1 .. NLevel + 1 :
              CurrentTime[m] = IF m > NLevel THEN 0 ELSE index[m] * Unit[m] + CurrentTime[m + 1]
<1>1. NLevel \in Nat
  BY LevelAssumption
<1>2. PICK T : T = {n \in Nat : n <= NLevel /\ ~ \E f : Sums(n, f)}
  OBVIOUS
<1>3. T = {}
  <2>. SUFFICES ASSUME T # {} PROVE FALSE
    OBVIOUS
  <2>1. PICK x \in T : \A y \in T : x <= y
    BY <1>2, LeastNumber
  <2>2. CASE x = 0
    <3>1. PICK g : g = [m \in NLevel + 1 .. NLevel + 1 |-> 0]
      OBVIOUS
    <3>2. NLevel + 1 - 0 = NLevel + 1 /\ \A m \in NLevel + 1 .. NLevel + 1 : m > NLevel
      BY <1>1
    <3>3. Sums(0, g)
      BY <3>1, <3>2 DEF Sums
    <3>. QED  BY <1>2, <2>1, <2>2, <3>3
  <2>3. CASE x # 0
    <3>1. PICK y : y = x - 1 /\ y \in Nat /\ y < NLevel /\ ~(x <= y) /\ y + 1 = x /\ y <= NLevel
      BY <1>1, <1>2, <2>1, <2>3
    <3>2. y \notin T
      BY <2>1, <3>1
    <3>3. \E f : Sums(y, f)
      BY <1>2, <3>1, <3>2
    <3>4. \E g : Sums(x, g)
      BY <3>1, <3>3, SumsGrow
    <3>. QED  BY <1>2, <2>1, <3>4
  <2>. QED  BY <2>2, <2>3
<1>4. PICK f : Sums(NLevel, f)
  BY <1>1, <1>2, <1>3
<1>5. /\ f \in [1 .. NLevel + 1 -> Nat]
      /\ \A m \in 1 .. NLevel + 1 :
           f[m] = IF m > NLevel THEN 0 ELSE index[m] * Unit[m] + f[m + 1]
  <2>1. NLevel + 1 - NLevel = 1
    BY <1>1
  <2>. QED  BY <1>4, <2>1 DEF Sums
<1>6. f = [m \in 1 .. NLevel + 1 |-> IF m > NLevel THEN 0 ELSE index[m] * Unit[m] + f[m + 1]]
  BY <1>5
<1>7. CurrentTime = [m \in 1 .. NLevel + 1 |->
                       IF m > NLevel THEN 0 ELSE index[m] * Unit[m] + CurrentTime[m + 1]]
  BY <1>6 DEF CurrentTime
<1>8. \A m \in 1 .. NLevel + 1 :
        CurrentTime[m] = IF m > NLevel THEN 0 ELSE index[m] * Unit[m] + CurrentTime[m + 1]
  BY <1>7
<1>9. PICK U : U = {n \in Nat : n <= NLevel /\ CurrentTime[NLevel + 1 - n] \notin Nat}
  OBVIOUS
<1>10. U = {}
  <2>. SUFFICES ASSUME U # {} PROVE FALSE
    OBVIOUS
  <2>1. PICK x \in U : \A y \in U : x <= y
    BY <1>9, LeastNumber
  <2>2. PICK m : m = NLevel + 1 - x /\ m \in 1 .. NLevel + 1 /\ CurrentTime[m] \notin Nat
    BY <1>1, <1>9
  <2>3. m <= NLevel
    BY <1>1, <1>8, <2>2
  <2>4. PICK y : y = x - 1 /\ y \in Nat /\ y <= NLevel /\ ~(x <= y) /\ NLevel + 1 - y = m + 1
    BY <1>1, <1>9, <2>2, <2>3
  <2>5. CurrentTime[m + 1] \in Nat
    BY <1>9, <2>1, <2>4
  <2>6. index[m] * Unit[m] \in Nat
    BY <1>1, <2>2, <2>3, UnitAssumption, Product DEF WheelsOK, Level
  <2>. QED  BY <1>8, <2>2, <2>3, <2>5, <2>6
<1>11. ASSUME NEW m \in 1 .. NLevel + 1
       PROVE  CurrentTime[m] \in Nat
  <2>1. PICK n : n = NLevel + 1 - m /\ n \in Nat /\ n <= NLevel /\ NLevel + 1 - n = m
    BY <1>1
  <2>. QED  BY <1>9, <1>10, <2>1
<1>. QED  BY <1>7, <1>8, <1>11

(* Every wheel points at a slot of its own. *)
Pointing == \A m \in Level : index[m] < Scales[m]
InWheels(p) == \E m \in Level : \E n \in 0 .. Scales[m] - 1 : p = <<m, n>>

(* A slot modulo the scale is a slot of the wheel. *)
LEMMA InWheel ==
  ASSUME NEW k \in Level, NEW x \in Int
  PROVE  InWheels(<<k, x % Scales[k]>>)
<1>1. PICK s : s = Scales[k] /\ s \in Nat /\ s > 0
  BY UnitAssumption
<1>2. x % s \in 0 .. s - 1
  BY <1>1
<1>. QED  BY <1>1, <1>2 DEF InWheels

(* AddTimer finds a slot, of the greatest wheel that is not too coarse. *)
LEMMA AddTimerFinds ==
  ASSUME WheelsOK, Pointing, NEW l \in Level, NEW time \in Int
  PROVE  InWheels(AddTimer(l, time))
<1>1. NLevel \in Nat /\ l \in 1 .. NLevel
  BY LevelAssumption DEF Level
<1>2. PICK fits : fits = {k \in l .. NLevel : Diff(k, time) >= Unit[k]}
  OBVIOUS
<1>3. CASE fits = {}
  <2>1. AddTimer(l, time) = <<NLevel, index[NLevel]>>
    BY <1>2, <1>3 DEF AddTimer
  <2>2. index[NLevel] \in 0 .. Scales[NLevel] - 1 /\ NLevel \in Level
    BY LastLevel, UnitAssumption DEF WheelsOK, Pointing
  <2>. QED  BY <2>1, <2>2 DEF InWheels
<1>4. CASE fits # {}
  <2>1. fits \in SUBSET Nat
    BY <1>1, <1>2
  <2>2. \E k \in fits : \A j \in fits : k <= j
    BY <1>4, <2>1, LeastNumber
  <2>3. PICK k : k = CHOOSE j \in fits : \A i \in fits : j <= i
    OBVIOUS
  <2>4. k \in fits
    BY <2>2, <2>3
  <2>5. k \in Level /\ k \in l .. NLevel
    BY <1>1, <1>2, <2>4 DEF Level
  <2>6. AddTimer(l, time) = <<k, (index[k] + Diff(k, time) \div Unit[k]) % Scales[k]>>
    BY <1>2, <1>4, <2>3 DEF AddTimer
  <2>7. PICK x : x = index[k] + Diff(k, time) \div Unit[k] /\ x \in Int
    <3>1. CurrentTime[k + 1] \in Nat
      BY <1>1, <2>5, CurrentTimes
    <3>2. PICK d : d = Diff(k, time) /\ d \in Int
      BY <3>1 DEF Diff
    <3>3. PICK u : u = Unit[k] /\ u \in Nat /\ u > 0
      BY <2>5, UnitAssumption
    <3>4. d \div u \in Int
      BY <3>2, <3>3
    <3>. QED  BY <2>5, <3>2, <3>3, <3>4 DEF WheelsOK
  <2>. QED  BY <2>5, <2>6, <2>7, InWheel
<1>. QED  BY <1>3, <1>4

(* The wheels turn within their slots. *)
LEMMA PointingStep ==
  ASSUME WheelsOK, Pointing, [Next]_vars
  PROVE  Pointing'
<1>1. CASE Increase
  <2>. SUFFICES ASSUME NEW m \in Level PROVE index'[m] < Scales[m]
    BY DEF Pointing
  <2>1. PICK s, i : s = Scales[m] /\ s \in Nat /\ s > 0 /\ i = index[m] /\ i \in Nat /\ i < s
    BY UnitAssumption DEF WheelsOK, Pointing
  <2>2. (i + 1) % s < s
    BY <2>1
  <2>. QED  BY <1>1, <2>1, <2>2 DEF Increase
<1>2. CASE index' = index
  BY <1>2 DEF Pointing
<1>. QED
  BY <1>1, <1>2
     DEF Next, Run, TakeOver, GetAndClearCurrentSlot, RunTask, Sleep, End,
         Advance, Stop, CancelTimer, CreateTimer, vars, wheels

Slots == \A t \in Timer : slot[t] = None \/ InWheels(slot[t])
Clocks == left \in [Timer -> Int] /\ set \in [Timer -> Int] /\ every \in [Timer -> Nat]

(* Timers are put into slots there are. *)
LEMMA SlotsStep ==
  ASSUME WheelsOK, Pointing, Slots, Clocks, [Next]_vars
  PROVE  Slots'
<1>1. ASSUME NEW t \in Timer, NEW p, slot' = [slot EXCEPT ![t] = p], InWheels(p)
      PROVE  Slots'
  <2>1. \A u \in Timer : slot'[u] = slot[u] \/ slot'[u] = p
    BY <1>1 DEF WheelsOK
  <2>. QED  BY <1>1, <2>1 DEF Slots, InWheels
<1>2. ASSUME NEW t \in Timer, NEW d \in Delay, NEW i \in Interval, CreateTimer(t, d, i)
      PROVE  Slots'
  <2>1. d \in Int
    BY TimeAssumption
  <2>2. InWheels(AddTimer(1, d))
    BY <2>1, LastLevel, AddTimerFinds
  <2>. QED  BY <1>1, <1>2, <2>2 DEF CreateTimer
<1>3. CASE TakeOver
  <2>1. at + 1 \in Level
    BY <1>3, LevelAssumption DEF TakeOver, WheelsOK, Level
  <2>2. \A t \in Timer : InWheels(AddTimer(at + 1, left[t]))
    BY <2>1, AddTimerFinds DEF Clocks
  <2>3. \A t \in Timer : slot'[t] = slot[t] \/ slot'[t] = AddTimer(at + 1, left[t])
    BY <1>3 DEF TakeOver
  <2>. QED  BY <2>2, <2>3 DEF Slots, InWheels
<1>4. CASE GetAndClearCurrentSlot
  <2>1. \A t \in Timer : slot'[t] = slot[t] \/ slot'[t] = None
    BY <1>4 DEF GetAndClearCurrentSlot
  <2>. QED  BY <2>1 DEF Slots, InWheels
<1>5. ASSUME NEW t \in Timer, RunTask(t)
      PROVE  Slots'
  <2>1. left[t] + every[t] \in Int
    BY DEF Clocks
  <2>2. InWheels(AddTimer(1, left[t] + every[t]))
    BY <2>1, LastLevel, AddTimerFinds
  <2>3. slot' = slot \/ slot' = [slot EXCEPT ![t] = AddTimer(1, left[t] + every[t])]
    BY <1>5 DEF RunTask, Again, Forget
  <2>4. CASE slot' = slot
    BY <2>4 DEF Slots, InWheels
  <2>. QED  BY <1>1, <2>2, <2>3, <2>4
<1>6. CASE UNCHANGED slot
  BY <1>6 DEF Slots, InWheels
<1>. QED
  BY <1>2, <1>3, <1>4, <1>5, <1>6
     DEF Next, Run, Increase, Sleep, End, Advance, Stop, CancelTimer, vars, wheels

(* Times stay whole numbers. *)
LEMMA ClocksStep ==
  ASSUME Clocks, [Next]_vars
  PROVE  Clocks'
<1>1. ASSUME NEW t \in Timer, NEW d \in Delay, NEW i \in Interval, CreateTimer(t, d, i)
      PROVE  Clocks'
  BY <1>1, TimeAssumption DEF CreateTimer, Clocks
<1>2. ASSUME NEW t \in Timer, RunTask(t)
      PROVE  Clocks'
  BY <1>2 DEF RunTask, Again, Forget, Clocks
<1>3. CASE Advance
  BY <1>3 DEF Advance, Clocks
<1>4. CASE UNCHANGED <<left, set, every>>
  BY <1>4 DEF Clocks
<1>. QED
  BY <1>1, <1>2, <1>3, <1>4
     DEF Next, Run, Increase, TakeOver, GetAndClearCurrentSlot, Sleep, End, Stop,
         CancelTimer, vars, wheels

(* What CancelTimer notes, and where the thread is. *)
Notes ==
  /\ made \subseteq Timer /\ cancel \subseteq asked
  /\ pc \in {"sleep", "increase", "run", "ended"}
  /\ since \in 0 .. Step + Lag /\ stop \in BOOLEAN

(* Only timers that were created are cancelled. *)
LEMMA NotesStep ==
  ASSUME Notes, [Next]_vars
  PROVE  Notes'
<1>1. since' \in 0 .. Step + Lag
  <2>1. since' = since \/ since' = 0 \/ (since' = since + 1 /\ since < Step + Lag)
    BY TimeAssumption
       DEF Notes, Next, Run, Increase, TakeOver, GetAndClearCurrentSlot, RunTask, Sleep, End,
           Advance, Stop, CancelTimer, CreateTimer, vars, wheels
  <2>. QED  BY <2>1, TimeAssumption DEF Notes
<1>2. pc' \in {"sleep", "increase", "run", "ended"} /\ stop' \in BOOLEAN
  BY DEF Notes, Next, Run, Increase, TakeOver, GetAndClearCurrentSlot, RunTask, Sleep, End,
         Advance, Stop, CancelTimer, CreateTimer, vars, wheels
<1>3. made' \subseteq Timer
  BY DEF Notes, Next, Run, Increase, TakeOver, GetAndClearCurrentSlot, RunTask, Sleep, End,
         Advance, Stop, CancelTimer, CreateTimer, vars, wheels
<1>4. cancel' \subseteq asked'
  <2>1. \/ UNCHANGED <<cancel, asked>>
        \/ asked' = asked /\ \E t : cancel' = cancel \ {t}
        \/ \E t : cancel' = cancel \cup {t} /\ asked' = asked \cup {t}
    BY DEF Next, Run, Increase, TakeOver, GetAndClearCurrentSlot, RunTask, Sleep, End,
           Advance, Stop, CancelTimer, CreateTimer, vars, wheels
  <2>. QED  BY <2>1 DEF Notes
<1>. QED  BY <1>1, <1>2, <1>3, <1>4 DEF Notes

(* All wheels start at slot 0, without timers. *)
LEMMA InitTypes == Init => Pointing /\ Slots /\ Clocks /\ Notes
<1>. SUFFICES ASSUME Init PROVE Pointing /\ Slots /\ Clocks /\ Notes
  OBVIOUS
<1>1. Pointing
  BY UnitAssumption DEF Init, Pointing
<1>2. Slots /\ Clocks
  BY DEF Init, Slots, Clocks
<1>3. Notes
  <2>1. 0 \in 0 .. Step + Lag
    BY TimeAssumption
  <2>. QED  BY <2>1 DEF Init, Notes
<1>. QED  BY <1>1, <1>2, <1>3

(* The wheels never turn past their scale and no timer is put into a slot  *)
(* that is not there, so every timer is found again, for any number of     *)
(* wheels of any scale and units, and any delays and intervals.            *)
THEOREM WheelTypes == Spec => []TypeOK
<1>. DEFINE Inv == IInv /\ Pointing /\ Slots /\ Clocks /\ Notes
<1>1. Init => Inv
  BY InitIInv, InitTypes
<1>2. Inv /\ [Next]_vars => Inv'
  BY NextIInv, PointingStep, SlotsStep, ClocksStep, NotesStep DEF IInv
<1>3. Inv => TypeOK
  BY DEF IInv, WheelsOK, Apart, Pointing, Slots, InWheels, Clocks, Notes, TypeOK
<1>. HIDE DEF Inv
<1>. QED  BY <1>1, <1>2, <1>3, PTL DEF Spec
-----------------------------------------------------------------------------
(***************************************************************************)
(* How long a timer waits.                                                 *)
(***************************************************************************)

(* Wheels as time_wheel/test.cpp sets them up: a slot of the least one is  *)
(* a step, and a slot of every other a turn of the next.                   *)
Uniform ==
  /\ Unit[NLevel] = Step
  /\ \A m \in 1 .. NLevel - 1 : Unit[m] = Scales[m + 1] * Unit[m + 1]

(* Products with a number more, and with a greater number. *)
LEMMA TimesNext ==
  ASSUME NEW a \in Int, NEW b \in Int
  PROVE  (a + 1) * b = a * b + b /\ (a - 1) * b = a * b - b
OBVIOUS

LEMMA TimesLess ==
  ASSUME NEW a \in Int, NEW b \in Int, NEW c \in Nat, a <= b
  PROVE  a * c <= b * c
OBVIOUS

(* The quotient is what fits. *)
LEMMA DivTimes ==
  ASSUME NEW a \in Nat, NEW b \in Nat \ {0}
  PROVE  /\ a \div b \in Nat /\ (a \div b) * b <= a
         /\ a < (a \div b + 1) * b /\ (a >= b => a \div b >= 1)
         /\ a = (a \div b) * b + (a % b) /\ a % b \in 0 .. b - 1
OBVIOUS

(* How many slots a wheel of s slots has to turn from slot i to slot n. *)
Ahead(i, s, n) == IF n > i THEN n - i ELSE n + s - i

(* A slot q turns ahead, modulo the scale, is reached in q turns or fewer. *)
LEMMA AheadModulo ==
  ASSUME NEW s \in Nat \ {0}, NEW i \in 0 .. s - 1, NEW q \in Nat, q >= 1
  PROVE  /\ (i + q) % s \in 0 .. s - 1
         /\ Ahead(i, s, (i + q) % s) <= q
<1>1. (i + q) % s \in 0 .. s - 1
  OBVIOUS
<1>2. PICK n : n = (i + q) % s /\ n \in 0 .. s - 1
  BY <1>1
<1>3. PICK j \in Nat : i + q = j * s + n
  <2>1. PICK x : x = i + q /\ x \in Nat
    OBVIOUS
  <2>2. x \div s \in Nat /\ x = (x \div s) * s + (x % s)
    BY <2>1, DivTimes
  <2>. QED  BY <1>2, <2>1, <2>2
<1>4. CASE j = 0
  BY <1>2, <1>3, <1>4 DEF Ahead
<1>5. CASE j # 0
  <2>1. j * s >= s
    BY <1>5
  <2>. QED  BY <1>2, <1>3, <2>1 DEF Ahead
<1>. QED  BY <1>1, <1>2, <1>4, <1>5

(* What holds of the least wheel, and of a wheel when it holds of the next *)
(* less one, holds of all.                                                 *)
LEMMA Upwards ==
  ASSUME NEW S, NLevel \in S, \A m \in 1 .. NLevel - 1 : m + 1 \in S => m \in S
  PROVE  \A m \in Level : m \in S
<1>1. NLevel \in Nat /\ NLevel >= 1
  BY LevelAssumption
<1>2. PICK T : T = {n \in Nat : n < NLevel /\ NLevel - n \notin S}
  OBVIOUS
<1>3. T = {}
  <2>. SUFFICES ASSUME T # {} PROVE FALSE
    OBVIOUS
  <2>1. PICK x \in T : \A y \in T : x <= y
    BY <1>2, LeastNumber
  <2>2. x # 0
    BY <1>1, <1>2, <2>1
  <2>3. PICK y : /\ y = x - 1 /\ y \in Nat /\ y < NLevel /\ ~(x <= y)
                 /\ NLevel - y = (NLevel - x) + 1 /\ NLevel - x \in 1 .. NLevel - 1
    BY <1>1, <1>2, <2>1, <2>2
  <2>4. NLevel - y \in S
    BY <1>2, <2>1, <2>3
  <2>. QED  BY <1>2, <2>1, <2>3, <2>4
<1>. SUFFICES ASSUME NEW m \in Level PROVE m \in S
  OBVIOUS
<1>4. PICK n : n = NLevel - m /\ n \in Nat /\ n < NLevel /\ NLevel - n = m
  BY <1>1 DEF Level
<1>. QED  BY <1>2, <1>3, <1>4

(* The current times, now and after a step. *)
Times ==
  /\ CurrentTime \in [1 .. NLevel + 1 -> Nat]
  /\ \A m \in 1 .. NLevel + 1 :
       CurrentTime[m] = IF m > NLevel THEN 0 ELSE index[m] * Unit[m] + CurrentTime[m + 1]

LEMMA TimesNow == WheelsOK => Times
BY CurrentTimes DEF Times

LEMMA TimesThen == (WheelsOK => Times)'
BY TimesNow, PTL

(* The wheels below one are never a whole slot of it, and a step less when *)
(* they are all about to come round.                                       *)
LEMMA BelowOneSlot ==
  ASSUME WheelsOK, Pointing, Uniform
  PROVE  \A m \in Level :
           /\ CurrentTime[m + 1] \in Nat /\ CurrentTime[m + 1] <= Unit[m] - Step
           /\ Turns(m) => CurrentTime[m + 1] = Unit[m] - Step
<1>1. PICK S : S = {m \in Level :
                      /\ CurrentTime[m + 1] \in Nat /\ CurrentTime[m + 1] <= Unit[m] - Step
                      /\ Turns(m) => CurrentTime[m + 1] = Unit[m] - Step}
  OBVIOUS
<1>2. NLevel \in Nat /\ NLevel >= 1
  BY LevelAssumption
<1>3. NLevel \in S
  <2>1. CurrentTime[NLevel + 1] = 0
    BY <1>2, TimesNow DEF Times
  <2>. QED  BY <1>1, <2>1, LastLevel, TimeAssumption DEF Uniform
<1>4. ASSUME NEW m \in 1 .. NLevel - 1, m + 1 \in S
      PROVE  m \in S
  <2>1. PICK k : k = m + 1 /\ k \in Level /\ k \in Nat /\ m \in Level /\ k <= NLevel
    BY <1>2 DEF Level
  <2>2. PICK i, u, s, c : /\ i = index[k] /\ u = Unit[k] /\ s = Scales[k] /\ c = CurrentTime[k + 1]
                          /\ i \in Nat /\ u \in Nat /\ s \in Nat /\ i <= s - 1 /\ c \in Nat
                          /\ c <= u - Step
    BY <1>1, <1>4, <2>1, UnitAssumption DEF WheelsOK, Pointing
  <2>3. CurrentTime[k] = i * u + c
    BY <1>2, <2>1, <2>2, TimesNow DEF Times, Level
  <2>4. Unit[m] = s * u
    BY <2>1, <2>2 DEF Uniform
  <2>5. (s - 1) * u = s * u - u /\ i * u <= (s - 1) * u /\ i * u \in Nat /\ s * u \in Nat
    BY <2>2, TimesNext, TimesLess, Product
  <2>6. CurrentTime[k] \in Nat /\ CurrentTime[k] <= Unit[m] - Step
    BY <2>2, <2>3, <2>4, <2>5, TimeAssumption
  <2>7. ASSUME Turns(m)
        PROVE  CurrentTime[k] = Unit[m] - Step
    <3>1. Turns(k)
      BY <1>2, <2>1, <2>7 DEF Turns
    <3>2. i = s - 1
      <4>1. k \in m + 1 .. NLevel
        BY <1>2, <2>1
      <4>2. i + 1 >= s
        BY <2>2, <2>7, <4>1 DEF Turns
      <4>. QED  BY <2>2, <4>2
    <3>3. c = u - Step
      BY <1>1, <1>4, <2>1, <2>2, <3>1
    <3>. QED  BY <2>2, <2>3, <2>4, <2>5, <3>2, <3>3, TimeAssumption
  <2>. QED  BY <1>1, <2>1, <2>6, <2>7
<1>5. \A m \in Level : m \in S
  BY <1>3, <1>4, Upwards
<1>. QED  BY <1>1, <1>5

(* The time of the wheels below one moves on by a step, or they come round. *)
LEMMA BelowTurns ==
  ASSUME WheelsOK, Pointing, Uniform, Increase
  PROVE  \A m \in Level :
           CurrentTime'[m + 1] = IF Turns(m) THEN 0 ELSE CurrentTime[m + 1] + Step
<1>1. PICK S : S = {m \in Level :
                      CurrentTime'[m + 1] = IF Turns(m) THEN 0 ELSE CurrentTime[m + 1] + Step}
  OBVIOUS
<1>2. NLevel \in Nat /\ NLevel >= 1
  BY LevelAssumption
<1>3. Times /\ Times'
  <2>1. WheelsOK'
    BY WheelsStep DEF Next, Run
  <2>. QED  BY <2>1, TimesNow, TimesThen
<1>4. NLevel \in S
  <2>1. CurrentTime'[NLevel + 1] = 0
    BY <1>3, <1>2 DEF Times
  <2>2. Turns(NLevel)
    BY <1>2 DEF Turns
  <2>. QED  BY <1>1, <2>1, <2>2, LastLevel
<1>5. ASSUME NEW m \in 1 .. NLevel - 1, m + 1 \in S
      PROVE  m \in S
  <2>1. PICK k : k = m + 1 /\ k \in Level /\ k \in Nat /\ m \in Level /\ k <= NLevel
    BY <1>2 DEF Level
  <2>2. PICK i, u, s, c : /\ i = index[k] /\ u = Unit[k] /\ s = Scales[k] /\ c = CurrentTime[k + 1]
                          /\ i \in Nat /\ u \in Nat /\ s \in Nat /\ i <= s - 1 /\ c \in Nat
                          /\ s > 0
    BY <2>1, UnitAssumption, BelowOneSlot DEF WheelsOK, Pointing
  <2>3. CurrentTime[k] = i * u + c /\ CurrentTime'[k] = index'[k] * u + CurrentTime'[k + 1]
    BY <1>3, <1>2, <2>1, <2>2 DEF Times, Level
  <2>4. index'[k] = IF Turns(k) THEN (i + 1) % s ELSE i
    BY <2>1, <2>2 DEF Increase
  <2>5. CurrentTime'[k + 1] = IF Turns(k) THEN 0 ELSE c + Step
    BY <1>5, <1>1, <2>1, <2>2
  <2>6. Turns(m) <=> Turns(k) /\ i + 1 >= s
    <3>1. \A j : j \in m + 1 .. NLevel <=> j = k \/ j \in k + 1 .. NLevel
      BY <1>2, <2>1
    <3>. QED  BY <2>2, <3>1 DEF Turns
  <2>7. CASE Turns(m)
    <3>1. i + 1 = s
      BY <2>2, <2>6, <2>7
    <3>2. (i + 1) % s = 0
      BY <2>2, <3>1
    <3>. QED  BY <1>1, <2>1, <2>2, <2>3, <2>4, <2>5, <2>6, <2>7, <3>2
  <2>8. CASE ~Turns(m) /\ Turns(k)
    <3>1. i + 1 < s
      BY <2>2, <2>6, <2>8
    <3>2. (i + 1) % s = i + 1
      BY <2>2, <3>1
    <3>3. c = u - Step
      BY <2>1, <2>2, <2>8, BelowOneSlot
    <3>4. (i + 1) * u = i * u + u
      BY <2>2, TimesNext
    <3>5. i * u \in Nat
      BY <2>2, Product
    <3>. QED  BY <1>1, <2>1, <2>2, <2>3, <2>4, <2>5, <2>8, <3>2, <3>3, <3>4, <3>5, TimeAssumption
  <2>9. CASE ~Turns(k)
    <3>1. ~Turns(m)
      BY <2>6, <2>9
    <3>2. i * u \in Nat
      BY <2>2, Product
    <3>. QED  BY <1>1, <2>1, <2>2, <2>3, <2>4, <2>5, <2>9, <3>1, <3>2, TimeAssumption
  <2>. QED  BY <2>7, <2>8, <2>9
<1>6. \A m \in Level : m \in S
  BY <1>4, <1>5, Upwards
<1>. QED  BY <1>6, <1>1

(* A timer in the slot a wheel points at is about to be taken off, once    *)
(* that wheel has turned and the slot was not taken over yet.              *)
Here(m, n) == n = index[m] /\ pc = "increase" /\ m >= at

(* The time until wheel m has turned to slot n, if every step takes a step. *)
Wait(m, n) ==
  IF Here(m, n) THEN 0
  ELSE Ahead(index[m], Scales[m], n) * Unit[m] - CurrentTime[m + 1]

(* Whoever waits, waits for a step at least. *)
LEMMA WaitIsSteps ==
  ASSUME WheelsOK, Pointing, Uniform, NEW m \in Level, NEW n \in 0 .. Scales[m] - 1
  PROVE  Wait(m, n) \in Nat /\ (~Here(m, n) => Wait(m, n) >= Step)
<1>1. PICK i, u, s, c : /\ i = index[m] /\ u = Unit[m] /\ s = Scales[m] /\ c = CurrentTime[m + 1]
                        /\ i \in Nat /\ u \in Nat /\ s \in Nat /\ i <= s - 1 /\ c \in Nat
                        /\ c <= u - Step
  BY UnitAssumption, BelowOneSlot DEF WheelsOK, Pointing
<1>2. PICK a : a = Ahead(i, s, n) /\ a \in Nat /\ a >= 1
  BY <1>1 DEF Ahead
<1>3. 1 * u <= a * u /\ a * u \in Nat /\ 1 * u = u
  BY <1>1, <1>2, TimesLess, Product
<1>. QED  BY <1>1, <1>2, <1>3, TimeAssumption DEF Wait

(* A wheel that turns by a slot is a slot nearer to every slot but the one *)
(* it is at.                                                               *)
LEMMA AheadNext ==
  ASSUME NEW s \in Nat, NEW i \in 0 .. s - 1, NEW n \in 0 .. s - 1,
         NEW j, j = (IF i = s - 1 THEN 0 ELSE i + 1), n # j
  PROVE  Ahead(j, s, n) = Ahead(i, s, n) - 1
<1>1. CASE i = s - 1
  BY <1>1 DEF Ahead
<1>2. CASE i # s - 1
  BY <1>2 DEF Ahead
<1>. QED  BY <1>1, <1>2

(* Every wait gets shorter by a step when the wheels turn. *)
LEMMA WaitTurns ==
  ASSUME WheelsOK, Pointing, Uniform, Increase,
         NEW m \in Level, NEW n \in 0 .. Scales[m] - 1
  PROVE  Wait(m, n)' = Wait(m, n) - Step
<1>1. PICK i, u, s, c : /\ i = index[m] /\ u = Unit[m] /\ s = Scales[m] /\ c = CurrentTime[m + 1]
                        /\ i \in Nat /\ u \in Nat /\ s \in Nat /\ i <= s - 1 /\ c \in Nat
                        /\ (Turns(m) => c = u - Step)
  BY UnitAssumption, BelowOneSlot DEF WheelsOK, Pointing
<1>2. PICK a : a = Ahead(i, s, n) /\ a \in Nat /\ a >= 1
  BY <1>1 DEF Ahead
<1>3. Wait(m, n) = a * u - c
  BY <1>1, <1>2 DEF Wait, Here, Increase
<1>4. pc' = "increase" /\ (m >= at' <=> Turns(m))
  <2>1. PICK k \in Level : Turns(k) /\ ~(k > 1 /\ Turns(k - 1)) /\ at' = k
    BY DEF Increase
  <2>2. m >= k => Turns(m)
    BY <2>1, LevelAssumption DEF Turns, Level
  <2>3. Turns(m) /\ m < k => k > 1 /\ Turns(k - 1)
    BY <2>1, LevelAssumption DEF Turns, Level
  <2>4. m \in Int /\ k \in Int
    BY DEF Level
  <2>. QED  BY <2>1, <2>2, <2>3, <2>4 DEF Increase
<1>5. index'[m] = (IF Turns(m) THEN (i + 1) % s ELSE i)
  BY <1>1 DEF Increase
<1>6. CurrentTime'[m + 1] = (IF Turns(m) THEN 0 ELSE c + Step)
  BY <1>1, BelowTurns
<1>7. a * u \in Nat /\ (a - 1) * u = a * u - u /\ 1 * u = u
  BY <1>1, <1>2, TimesNext, Product
<1>8. CASE ~Turns(m)
  <2>1. ~Here(m, n)'
    BY <1>4, <1>8 DEF Here
  <2>2. Wait(m, n)' = a * u - (c + Step)
    BY <1>1, <1>2, <1>5, <1>6, <1>8, <2>1 DEF Wait
  <2>. QED  BY <1>1, <1>3, <1>7, <2>2, TimeAssumption
<1>9. CASE Turns(m)
  <2>1. Here(m, n)' <=> n = (i + 1) % s
    BY <1>4, <1>5, <1>9 DEF Here
  <2>2. PICK j : j = (i + 1) % s /\ j = IF i = s - 1 THEN 0 ELSE i + 1
    BY <1>1
  <2>3. CASE n = j
    <3>1. a = 1
      BY <1>1, <1>2, <2>2, <2>3 DEF Ahead
    <3>2. Wait(m, n)' = 0
      BY <2>1, <2>2, <2>3 DEF Wait
    <3>. QED  BY <1>1, <1>3, <1>7, <1>9, <3>1, <3>2, TimeAssumption
  <2>4. CASE n # j
    <3>1. Ahead(j, s, n) = a - 1
      BY <1>1, <1>2, <2>2, <2>4, AheadNext
    <3>2. Wait(m, n)' = (a - 1) * u - 0
      BY <1>1, <1>5, <1>6, <1>9, <2>1, <2>2, <2>4, <3>1 DEF Wait
    <3>. QED  BY <1>1, <1>3, <1>7, <1>9, <3>2, TimeAssumption
  <2>. QED  BY <2>3, <2>4
<1>. QED  BY <1>8, <1>9

(* Waits do not depend on anything but the indices and the thread. *)
LEMMA WaitStays ==
  ASSUME WheelsOK, WheelsOK', index' = index,
         NEW m \in Level, NEW n, Here(m, n)' <=> Here(m, n)
  PROVE  Wait(m, n)' = Wait(m, n)
<1>1. Times /\ Times'
  BY TimesNow, TimesThen
<1>2. NLevel \in Nat /\ NLevel >= 1
  BY LevelAssumption
<1>3. PICK S : S = {k \in Level : CurrentTime'[k + 1] = CurrentTime[k + 1]}
  OBVIOUS
<1>4. NLevel \in S
  BY <1>1, <1>2, <1>3, LastLevel DEF Times
<1>5. ASSUME NEW k \in 1 .. NLevel - 1, k + 1 \in S
      PROVE  k \in S
  <2>1. k \in Level /\ k + 1 \in 1 .. NLevel + 1 /\ ~(k + 1 > NLevel)
    BY <1>2 DEF Level
  <2>2. CurrentTime'[k + 1 + 1] = CurrentTime[k + 1 + 1]
    BY <1>3, <1>5
  <2>3. /\ CurrentTime[k + 1] = index[k + 1] * Unit[k + 1] + CurrentTime[k + 1 + 1]
        /\ CurrentTime'[k + 1] = index'[k + 1] * Unit[k + 1] + CurrentTime'[k + 1 + 1]
    BY <1>1, <2>1 DEF Times
  <2>. QED  BY <1>3, <2>1, <2>2, <2>3
<1>6. m \in S
  BY <1>4, <1>5, Upwards
<1>. QED  BY <1>3, <1>6 DEF Wait

(* A timer set for a step or more waits no longer than that; one set for   *)
(* less is put where the least wheel points.                               *)
LEMMA AddTimerWaits ==
  ASSUME WheelsOK, Pointing, Uniform, NEW l \in Level, NEW time \in Int,
         NEW k \in Level, NEW n, AddTimer(l, time) = <<k, n>>
  PROVE  /\ k >= l
         /\ \/ /\ time >= Step
               /\ Ahead(index[k], Scales[k], n) * Unit[k] - CurrentTime[k + 1] <= time
            \/ time < Step /\ k = NLevel /\ n = index[NLevel]
<1>1. NLevel \in Nat /\ NLevel \in l .. NLevel /\ NLevel \in Level /\ l \in 1 .. NLevel
  BY LevelAssumption DEF Level
<1>2. PICK fits : fits = {j \in l .. NLevel : Diff(j, time) >= Unit[j]}
  OBVIOUS
<1>3. CASE fits = {}
  <2>1. AddTimer(l, time) = <<NLevel, index[NLevel]>>
    BY <1>2, <1>3 DEF AddTimer
  <2>2. CurrentTime[NLevel + 1] = 0
    BY <1>1, TimesNow DEF Times
  <2>3. ~(Diff(NLevel, time) >= Unit[NLevel])
    BY <1>1, <1>2, <1>3
  <2>4. time < Step
    BY <2>2, <2>3, TimeAssumption DEF Diff, Uniform
  <2>. QED  BY <1>1, <2>1, <2>4
<1>4. CASE fits # {}
  <2>1. fits \in SUBSET Nat
    BY <1>1, <1>2
  <2>2. \E j \in fits : \A i \in fits : j <= i
    BY <1>4, <2>1, LeastNumber
  <2>3. PICK j : j = CHOOSE x \in fits : \A y \in fits : x <= y
    OBVIOUS
  <2>4. j \in fits
    BY <2>2, <2>3
  <2>5. AddTimer(l, time) = <<j, (index[j] + Diff(j, time) \div Unit[j]) % Scales[j]>>
    BY <1>2, <1>4, <2>3 DEF AddTimer
  <2>6. k = j /\ n = (index[k] + Diff(k, time) \div Unit[k]) % Scales[k]
    BY <2>5
  <2>7. PICK i, u, s, c : /\ i = index[k] /\ u = Unit[k] /\ s = Scales[k] /\ c = CurrentTime[k + 1]
                          /\ i \in Nat /\ u \in Nat \ {0} /\ s \in Nat \ {0} /\ i \in 0 .. s - 1
                          /\ c \in Nat /\ c <= u - Step
    BY UnitAssumption, BelowOneSlot DEF WheelsOK, Pointing
  <2>8. PICK d : d = Diff(k, time) /\ d = time + c /\ d >= u /\ d \in Nat
    BY <1>2, <2>4, <2>6, <2>7 DEF Diff
  <2>9. PICK q : q = d \div u /\ q \in Nat /\ q >= 1 /\ q * u <= d
    BY <2>7, <2>8, DivTimes
  <2>10. n = (i + q) % s
    BY <2>6, <2>7, <2>8, <2>9
  <2>11. PICK a : a = Ahead(i, s, n) /\ a <= q /\ a \in Int
    <3>1. (i + q) % s \in 0 .. s - 1 /\ Ahead(i, s, (i + q) % s) <= q
      BY <2>7, <2>9, AheadModulo
    <3>. QED  BY <2>7, <2>10, <3>1 DEF Ahead
  <2>12. a * u <= q * u /\ a * u \in Int /\ q * u \in Int
    BY <2>7, <2>9, <2>11, TimesLess
  <2>13. k >= l
    BY <1>1, <1>2, <2>4, <2>6
  <2>. QED  BY <2>7, <2>8, <2>9, <2>11, <2>12, <2>13, TimeAssumption
<1>. QED  BY <1>3, <1>4

(* t has been on the wheels for s steps: the first may have been under way *)
(* when it was set, every one takes a step and at most a lag more asleep   *)
(* and a lag awake.                                                        *)
Waited(t, s) ==
  /\ left[t] <= set[t]
  /\ s > 0 => left[t] + (s - 1) * Step + (IF pc = "sleep" THEN since ELSE 0) <= set[t]
  /\ set[t] - left[t] <= s * (Step + 2 * Lag) + since
                         + (IF pc \in {"run", "increase"} THEN 0 ELSE Lag)

(* What it waits altogether; w is what is left of that. *)
Total(d) == IF d < Step THEN Scales[NLevel] * Step ELSE d + Step
InTime(t, w) == \E s \in Nat : w + s * Step <= Total(set[t]) /\ Waited(t, s)

SlotInTime(t) ==
  \A m \in Level : \A n \in 0 .. Scales[m] - 1 : slot[t] = <<m, n>> =>
    (set[t] < Step => m = NLevel) /\ InTime(t, Wait(m, n))
DueInTime(t) == t \in due => InTime(t, 0)

Rounds ==
  /\ pc = "run" => since <= Lag
  /\ pc = "increase" => since = 0
  /\ due # {} => pc = "run"

(* The thread is as late as it was assumed to be. *)
LEMMA RoundsStep ==
  ASSUME Notes, Rounds, [Next]_vars
  PROVE  Rounds'
<1>1. CASE Advance
  BY <1>1, TimeAssumption DEF Advance, Rounds, Notes
<1>2. CASE Increase \/ TakeOver \/ Sleep \/ End \/ Stop \/ UNCHANGED vars
  BY <1>2 DEF Increase, TakeOver, Sleep, End, Stop, Rounds, vars, wheels
<1>3. CASE GetAndClearCurrentSlot
  BY <1>3, TimeAssumption DEF GetAndClearCurrentSlot, Rounds
<1>4. ASSUME NEW t \in Timer, RunTask(t)
      PROVE  Rounds'
  BY <1>4 DEF RunTask, Rounds
<1>5. ASSUME NEW t \in Timer, CancelTimer(t) \/ \E d \in Delay, i \in Interval : CreateTimer(t, d, i)
      PROVE  Rounds'
  BY <1>5 DEF CancelTimer, CreateTimer, Rounds, wheels
<1>. QED  BY <1>1, <1>2, <1>3, <1>4, <1>5 DEF Next, Run

(* While no wheel turns, a timer's time and the clock go together. *)
LEMMA StaysInTime ==
  ASSUME Clocks, Notes, Rounds, NEW t \in Timer, NEW w \in Int, InTime(t, w),
         set'[t] = set[t],
         \/ left'[t] = left[t] /\ pc' = pc /\ since' = since
         \/ left'[t] = left[t] /\ (Sleep \/ End \/ GetAndClearCurrentSlot)
         \/ Advance /\ Pending(t)
  PROVE  InTime(t, w)'
<1>1. PICK s \in Nat : w + s * Step <= Total(set[t]) /\ Waited(t, s)
  BY DEF InTime
<1>2. PICK l, d, c, x, y : /\ l = left[t] /\ d = set[t] /\ c = since
                           /\ x = (s - 1) * Step /\ y = s * (Step + 2 * Lag)
                           /\ l \in Int /\ d \in Int /\ c \in Nat /\ x \in Int /\ y \in Int
                           /\ Step \in Nat /\ Lag \in Nat
  BY TimeAssumption DEF Clocks, Notes
<1>3. /\ l <= d
      /\ s > 0 => l + x + (IF pc = "sleep" THEN c ELSE 0) <= d
      /\ d - l <= y + c + (IF pc \in {"run", "increase"} THEN 0 ELSE Lag)
  BY <1>1, <1>2 DEF Waited
<1>4. PICK k, e : k = left'[t] /\ e = since'
  OBVIOUS
<1>5. /\ k <= d
      /\ s > 0 => k + x + (IF pc' = "sleep" THEN e ELSE 0) <= d
      /\ d - k <= y + e + (IF pc' \in {"run", "increase"} THEN 0 ELSE Lag)
  <2>1. CASE left'[t] = left[t] /\ pc' = pc /\ since' = since
    BY <1>2, <1>3, <1>4, <2>1
  <2>2. CASE left'[t] = left[t] /\ Sleep
    BY <1>2, <1>3, <1>4, <2>2 DEF Sleep, Rounds
  <2>3. CASE left'[t] = left[t] /\ End
    BY <1>2, <1>3, <1>4, <2>3 DEF End
  <2>4. CASE left'[t] = left[t] /\ GetAndClearCurrentSlot
    BY <1>2, <1>3, <1>4, <2>4 DEF GetAndClearCurrentSlot
  <2>5. CASE Advance /\ Pending(t)
    <3>1. k = l - 1 /\ e = c + 1 /\ pc' = pc
      BY <1>2, <1>4, <2>5 DEF Advance
    <3>. QED  BY <1>2, <1>3, <3>1
  <2>. QED  BY <2>1, <2>2, <2>3, <2>4, <2>5
<1>6. Waited(t, s)'
  BY <1>2, <1>4, <1>5 DEF Waited
<1>. QED  BY <1>1, <1>6 DEF InTime, Total

(* When the wheels turn, the wait is a step less and one more is behind. *)
LEMMA TurnsInTime ==
  ASSUME Clocks, Notes, Increase, NEW t \in Timer, NEW w \in Int, InTime(t, w)
  PROVE  InTime(t, w - Step)'
<1>1. PICK s \in Nat : w + s * Step <= Total(set[t]) /\ Waited(t, s)
  BY DEF InTime
<1>2. PICK l, d, c, x, y, z : /\ l = left[t] /\ d = set[t] /\ c = since
                              /\ x = (s - 1) * Step /\ y = s * (Step + 2 * Lag) /\ z = s * Step
                              /\ l \in Int /\ d \in Int /\ c \in Nat
                              /\ x \in Int /\ y \in Int /\ z \in Nat
                              /\ Step \in Nat /\ Lag \in Nat
  BY TimeAssumption, Product DEF Clocks, Notes
<1>3. /\ x = z - Step /\ (s + 1) * Step = z + Step
      /\ (s + 1) * (Step + 2 * Lag) = y + Step + 2 * Lag
      /\ s + 1 \in Nat /\ s + 1 > 0 /\ s + 1 - 1 = s /\ (s = 0 => z = 0)
  BY <1>2, TimesNext
<1>4. c >= Step /\ c <= Step + Lag /\ pc = "sleep" /\ pc' = "increase" /\ since' = 0
  BY <1>2, TimeAssumption DEF Increase, Notes
<1>5. left' = left /\ set' = set
  BY DEF Increase
<1>6. /\ l <= d /\ (s > 0 => l + x + c <= d) /\ d - l <= y + c + Lag
  BY <1>1, <1>2, <1>4 DEF Waited
<1>7. l <= d /\ l + z <= d /\ d - l <= y + Step + 2 * Lag
  <2>1. /\ l \in Int /\ d \in Int /\ c \in Nat /\ x \in Int /\ y \in Int /\ z \in Nat
        /\ Step \in Nat /\ Lag \in Nat /\ x = z - Step /\ (s = 0 => z = 0) /\ s \in Nat
    BY <1>2, <1>3
  <2>2. CASE s = 0
    BY <1>4, <1>6, <2>1, <2>2
  <2>3. CASE s > 0
    BY <1>4, <1>6, <2>1, <2>3
  <2>. QED  BY <2>1, <2>2, <2>3
<1>8. Waited(t, s + 1)'
  BY <1>2, <1>3, <1>4, <1>5, <1>7 DEF Waited
<1>9. w - Step + (s + 1) * Step = w + s * Step
  BY <1>2, <1>3
<1>. QED  BY <1>1, <1>3, <1>5, <1>8, <1>9 DEF InTime, Total

(* A timer that is put on the wheels, from outside or again. *)
LEMMA PutInTime ==
  ASSUME WheelsOK, WheelsOK', Pointing, Uniform, Notes', NEW t \in Timer, NEW e \in Int,
         index' = index, pc # "increase", pc' = pc,
         slot'[t] = AddTimer(1, e), set'[t] = e, left'[t] = e
  PROVE  SlotInTime(t)'
<1>. SUFFICES ASSUME NEW m \in Level, NEW n \in 0 .. Scales[m] - 1, slot'[t] = <<m, n>>
              PROVE  (e < Step => m = NLevel) /\ InTime(t, Wait(m, n))'
  BY DEF SlotInTime
<1>1. ~Here(m, n) /\ ~Here(m, n)' /\ Wait(m, n)' = Wait(m, n)
  BY WaitStays DEF Here
<1>2. \/ e >= Step /\ Wait(m, n) <= e
      \/ e < Step /\ m = NLevel /\ n = index[NLevel]
  <2>1. AddTimer(1, e) = <<m, n>> /\ 1 \in Level
    BY LastLevel
  <2>2. \/ /\ e >= Step
           /\ Ahead(index[m], Scales[m], n) * Unit[m] - CurrentTime[m + 1] <= e
        \/ e < Step /\ m = NLevel /\ n = index[NLevel]
    BY <2>1, AddTimerWaits
  <2>. QED  BY <1>1, <2>2 DEF Wait
<1>3. Wait(m, n) \in Nat
  BY WaitIsSteps
<1>4. Wait(m, n) <= Total(e)
  <2>1. CASE e >= Step /\ Wait(m, n) <= e
    BY <1>3, <2>1, TimeAssumption DEF Total
  <2>2. CASE e < Step /\ m = NLevel /\ n = index[NLevel]
    <3>1. CurrentTime[NLevel + 1] = 0
      BY TimesNow, LevelAssumption DEF Times
    <3>2. PICK i, s : i = index[NLevel] /\ s = Scales[NLevel] /\ i \in Nat /\ s \in Nat
      BY LastLevel, UnitAssumption DEF WheelsOK
    <3>3. Ahead(i, s, i) = s
      BY <3>2 DEF Ahead
    <3>4. s * Step \in Nat
      BY <3>2, TimeAssumption, Product
    <3>5. Wait(m, n) = s * Step - 0
      BY <1>1, <2>2, <3>1, <3>2, <3>3 DEF Wait, Uniform
    <3>. QED  BY <2>2, <3>2, <3>4, <3>5 DEF Total
  <2>. QED  BY <1>2, <2>1, <2>2
<1>5. 0 * Step = 0 /\ 0 * (Step + 2 * Lag) = 0
  BY TimeAssumption
<1>6. Waited(t, 0)'
  <2>1. since' \in Nat /\ Lag \in Nat
    BY TimeAssumption DEF Notes
  <2>2. PICK c, k : c = since' /\ k = 0 * (Step + 2 * Lag) /\ c \in Nat /\ k = 0
    BY <1>5, <2>1
  <2>3. e - e <= k + c + (IF pc' \in {"run", "increase"} THEN 0 ELSE Lag)
    BY <2>1, <2>2
  <2>. QED  BY <2>2, <2>3 DEF Waited
<1>7. Wait(m, n)' + 0 * Step <= Total(set'[t])
  BY <1>1, <1>3, <1>4, <1>5
<1>8. InTime(t, Wait(m, n))'
  BY <1>6, <1>7 DEF InTime, Total
<1>. QED  BY <1>2, <1>8, TimeAssumption

(* What a step leaves where it is. *)
LEMMA StaysInSlot ==
  ASSUME WheelsOK, WheelsOK', Pointing, Uniform, Clocks, Notes, Rounds, NEW t \in Timer,
         SlotInTime(t), index' = index, set'[t] = set[t], slot'[t] = slot[t],
         \A m \in Level : slot[t] = <<m, index[m]>> => (Here(m, index[m])' <=> Here(m, index[m])),
         \/ left'[t] = left[t] /\ pc' = pc /\ since' = since
         \/ left'[t] = left[t] /\ (Sleep \/ End \/ GetAndClearCurrentSlot)
         \/ Advance /\ Pending(t)
  PROVE  SlotInTime(t)'
<1>. SUFFICES ASSUME NEW m \in Level, NEW n \in 0 .. Scales[m] - 1, slot'[t] = <<m, n>>
              PROVE  (set'[t] < Step => m = NLevel) /\ InTime(t, Wait(m, n))'
  BY DEF SlotInTime
<1>1. (set[t] < Step => m = NLevel) /\ InTime(t, Wait(m, n))
  BY DEF SlotInTime
<1>2. Here(m, n)' <=> Here(m, n)
  BY DEF Here
<1>3. PICK w : w = Wait(m, n) /\ w = Wait(m, n)' /\ w \in Int
  BY <1>2, WaitStays, WaitIsSteps
<1>4. InTime(t, w)
  BY <1>1, <1>3
<1>5. InTime(t, w)'
  BY <1>3, <1>4, StaysInTime
<1>6. InTime(t, Wait(m, n))'
  BY <1>3, <1>5
<1>. QED  BY <1>1, <1>6

(* The slot of a wheel that turned, taken over by the next. *)
LEMMA TakeOverInTime ==
  ASSUME WheelsOK, WheelsOK', Pointing, Uniform, Clocks, Notes, Rounds, NEW t \in Timer,
         SlotInTime(t), TakeOver
  PROVE  SlotInTime(t)'
<1>1. /\ at < NLevel /\ at' = at + 1 /\ at + 1 \in Level /\ at \in Level /\ at \in Int
      /\ pc = "increase" /\ pc' = pc /\ since' = since /\ left' = left /\ set' = set
      /\ index' = index
  BY LevelAssumption DEF TakeOver, WheelsOK, Level
<1>2. CASE t \notin InSlot(at)
  <2>1. slot'[t] = slot[t]
    BY <1>2 DEF TakeOver
  <2>2. ASSUME NEW m \in Level, slot[t] = <<m, index[m]>>
        PROVE  Here(m, index[m])' <=> Here(m, index[m])
    <3>1. m # at /\ m \in Int
      BY <1>2, <2>2 DEF InSlot, Level
    <3>. QED  BY <1>1, <3>1 DEF Here
  <2>. QED  BY <1>1, <2>1, <2>2, StaysInSlot
<1>3. CASE t \in InSlot(at)
  <2>1. slot[t] = <<at, index[at]>> /\ slot'[t] = AddTimer(at + 1, left[t])
    BY <1>3 DEF InSlot, TakeOver
  <2>2. PICK k, i : k = at /\ i = index[at] /\ k \in Level /\ i \in 0 .. Scales[k] - 1
    BY <1>1, UnitAssumption DEF WheelsOK, Pointing
  <2>3. Here(k, i) /\ k # NLevel
    BY <1>1, <2>2 DEF Here
  <2>4. set[t] >= Step /\ InTime(t, 0)
    <3>1. (set[t] < Step => k = NLevel) /\ InTime(t, Wait(k, i))
      BY <2>1, <2>2 DEF SlotInTime
    <3>2. set[t] \in Int
      BY DEF Clocks
    <3>. QED  BY <2>3, <3>1, <3>2, TimeAssumption DEF Wait
  <2>5. PICK s \in Nat : 0 + s * Step <= set[t] + Step /\ Waited(t, s)
    <3>1. set[t] \in Int
      BY DEF Clocks
    <3>. QED  BY <2>4, <3>1, TimeAssumption DEF InTime, Total
  <2>6. Waited(t, s)'
    BY <1>1, <2>5 DEF Waited
  <2>. SUFFICES ASSUME NEW m \in Level, NEW n \in 0 .. Scales[m] - 1, slot'[t] = <<m, n>>
                PROVE  (set'[t] < Step => m = NLevel) /\ InTime(t, Wait(m, n))'
    BY DEF SlotInTime
  <2>7. /\ m >= at + 1
        /\ \/ /\ left[t] >= Step
              /\ Ahead(index[m], Scales[m], n) * Unit[m] - CurrentTime[m + 1] <= left[t]
           \/ left[t] < Step /\ m = NLevel /\ n = index[NLevel]
    <3>1. AddTimer(at + 1, left[t]) = <<m, n>> /\ left[t] \in Int
      BY <2>1 DEF Clocks
    <3>2. PICK a, l : a = at + 1 /\ l = left[t] /\ a \in Level /\ l \in Int
      BY <1>1, <3>1
    <3>3. AddTimer(a, l) = <<m, n>>
      BY <3>1, <3>2
    <3>4. /\ m >= a
          /\ \/ /\ l >= Step
                /\ Ahead(index[m], Scales[m], n) * Unit[m] - CurrentTime[m + 1] <= l
             \/ l < Step /\ m = NLevel /\ n = index[NLevel]
      BY <3>2, <3>3, AddTimerWaits
    <3>. QED  BY <3>2, <3>4
  <2>8. Here(m, n)' <=> Here(m, n)
    <3>1. m \in Int
      BY DEF Level
    <3>. QED  BY <1>1, <2>7, <3>1 DEF Here
  <2>9. PICK w : w = Wait(m, n) /\ w = Wait(m, n)' /\ w \in Nat
    <3>1. Wait(m, n)' = Wait(m, n)
      BY <1>1, <2>8, WaitStays
    <3>2. Wait(m, n) \in Nat
      BY WaitIsSteps
    <3>. QED  BY <3>1, <3>2
  <2>10. w = 0 \/ w <= left[t]
    <3>1. m = NLevel /\ n = index[NLevel] => Here(m, n)
      BY <1>1, LevelAssumption DEF Here
    <3>. QED  BY <2>7, <2>9, <3>1 DEF Wait
  <2>11. w + s * Step <= set[t] + Step
    <3>1. CASE w = 0
      BY <2>5, <3>1
    <3>2. CASE w <= left[t]
      <4>1. PICK l, d, x, z : /\ l = left[t] /\ d = set[t] /\ x = (s - 1) * Step /\ z = s * Step
                              /\ l \in Int /\ d \in Int /\ z \in Nat /\ x = z - Step
                              /\ (s = 0 => z = 0) /\ Step \in Nat
        BY TimeAssumption, TimesNext, Product DEF Clocks
      <4>2. l <= d /\ (s > 0 => l + x <= d)
        BY <1>1, <2>5, <4>1 DEF Waited
      <4>. QED  BY <2>9, <3>2, <4>1, <4>2
    <3>. QED  BY <2>10, <3>1, <3>2
  <2>12. InTime(t, w)'
    BY <1>1, <2>4, <2>6, <2>11, TimeAssumption DEF InTime, Total, Clocks
  <2>13. set'[t] >= Step /\ set'[t] \in Int /\ Step \in Int
    BY <1>1, <2>4, TimeAssumption DEF Clocks
  <2>. QED  BY <2>9, <2>12, <2>13
<1>. QED  BY <1>2, <1>3

(* The slot of the least wheel, whose timers are run. *)
LEMMA DueInTimeStep ==
  ASSUME WheelsOK, WheelsOK', Pointing, Uniform, Clocks, Notes, Rounds, NEW t \in Timer,
         SlotInTime(t), DueInTime(t), GetAndClearCurrentSlot
  PROVE  SlotInTime(t)' /\ DueInTime(t)'
<1>1. /\ at = NLevel /\ at' = at /\ pc = "increase" /\ pc' = "run" /\ since' = since
      /\ left' = left /\ set' = set /\ index' = index
  BY DEF GetAndClearCurrentSlot
<1>2. CASE t \notin InSlot(NLevel)
  <2>1. slot'[t] = slot[t] /\ t \notin due'
    BY <1>2 DEF GetAndClearCurrentSlot
  <2>2. ASSUME NEW m \in Level, slot[t] = <<m, index[m]>>
        PROVE  Here(m, index[m])' <=> Here(m, index[m])
    <3>1. m # NLevel /\ m <= NLevel /\ m \in Int /\ NLevel \in Int
      BY <1>2, <2>2, LevelAssumption DEF InSlot, Level
    <3>. QED  BY <1>1, <3>1 DEF Here
  <2>3. SlotInTime(t)'
    BY <1>1, <2>1, <2>2, StaysInSlot
  <2>. QED  BY <2>1, <2>3 DEF DueInTime
<1>3. CASE t \in InSlot(NLevel)
  <2>1. slot[t] = <<NLevel, index[NLevel]>> /\ slot'[t] = None
    BY <1>3 DEF InSlot, GetAndClearCurrentSlot
  <2>2. SlotInTime(t)'
    <3>1. \A m \in Level : \A n \in 0 .. Scales[m] - 1 : <<m, n>> # None
      BY NoneAssumption, UnitAssumption
    <3>. QED  BY <2>1, <3>1 DEF SlotInTime
  <2>3. PICK k, i : k = NLevel /\ i = index[NLevel] /\ k \in Level /\ i \in 0 .. Scales[k] - 1
    BY LastLevel, UnitAssumption DEF WheelsOK, Pointing
  <2>4. InTime(t, 0)
    <3>1. Here(k, i)
      BY <1>1, <2>3, LevelAssumption DEF Here
    <3>2. InTime(t, Wait(k, i))
      BY <2>1, <2>3 DEF SlotInTime
    <3>. QED  BY <3>1, <3>2 DEF Wait
  <2>5. InTime(t, 0)'
    BY <1>1, <2>4, StaysInTime
  <2>. QED  BY <2>2, <2>5 DEF DueInTime
<1>. QED  BY <1>2, <1>3

(* The wheels turn. *)
LEMMA IncreaseInTime ==
  ASSUME WheelsOK, Pointing, Uniform, Clocks, Notes, Rounds, NEW t \in Timer,
         SlotInTime(t), Increase
  PROVE  SlotInTime(t)' /\ DueInTime(t)'
<1>1. SlotInTime(t)'
  <2>. SUFFICES ASSUME NEW m \in Level, NEW n \in 0 .. Scales[m] - 1, slot'[t] = <<m, n>>
                PROVE  (set'[t] < Step => m = NLevel) /\ InTime(t, Wait(m, n))'
    BY DEF SlotInTime
  <2>1. (set[t] < Step => m = NLevel) /\ InTime(t, Wait(m, n)) /\ set' = set
    BY DEF SlotInTime, Increase
  <2>2. PICK w : w = Wait(m, n) /\ w \in Int
    BY WaitIsSteps
  <2>3. InTime(t, w)
    BY <2>1, <2>2
  <2>4. InTime(t, w - Step)'
    BY <2>2, <2>3, TurnsInTime
  <2>5. Wait(m, n)' = w - Step
    BY <2>2, WaitTurns
  <2>6. InTime(t, Wait(m, n))'
    BY <2>4, <2>5
  <2>. QED  BY <2>1, <2>6
<1>2. due' = {}
  BY DEF Increase, Rounds
<1>. QED  BY <1>1, <1>2 DEF DueInTime

TimerInTime(t) == SlotInTime(t) /\ DueInTime(t)

(* A step that leaves this timer and the thread alone. *)
LEMMA ApartInTime ==
  ASSUME WheelsOK, WheelsOK', Pointing, Uniform, Clocks, Notes, Rounds, NEW t \in Timer,
         TimerInTime(t), UNCHANGED <<index, pc, since, at>>,
         left'[t] = left[t], set'[t] = set[t], slot'[t] = slot[t], t \in due' => t \in due
  PROVE  TimerInTime(t)'
<1>1. SlotInTime(t)'
  BY StaysInSlot DEF TimerInTime, Here
<1>2. DueInTime(t)'
  BY StaysInTime DEF TimerInTime, DueInTime
<1>. QED  BY <1>1, <1>2 DEF TimerInTime

(* Sleeping, waking up and the clock. *)
LEMMA ClockInTime ==
  ASSUME WheelsOK, WheelsOK', Pointing, Uniform, Apart, Clocks, Notes, Rounds, NEW t \in Timer,
         TimerInTime(t), Sleep \/ End \/ Advance
  PROVE  TimerInTime(t)'
<1>1. /\ UNCHANGED <<index, slot, set, due, at>>
      /\ pc # "increase" /\ pc' # "increase"
  BY DEF Sleep, End, Advance, wheels
<1>2. \A m \in Level : Here(m, index[m])' <=> Here(m, index[m])
  BY <1>1 DEF Here
<1>3. CASE Pending(t)
  <2>1. (left'[t] = left[t] /\ (Sleep \/ End)) \/ (Advance /\ Pending(t))
    BY <1>3 DEF Sleep, End, wheels
  <2>2. SlotInTime(t)'
    BY <1>1, <1>2, <2>1, StaysInSlot DEF TimerInTime
  <2>3. DueInTime(t)'
    BY <1>1, <2>1, StaysInTime DEF TimerInTime, DueInTime
  <2>. QED  BY <2>2, <2>3 DEF TimerInTime
<1>4. CASE ~Pending(t)
  <2>1. slot'[t] = None /\ t \notin due'
    BY <1>1, <1>4 DEF Pending
  <2>2. \A m \in Level : \A n \in 0 .. Scales[m] - 1 : <<m, n>> # None
    BY NoneAssumption, UnitAssumption
  <2>. QED  BY <2>1, <2>2 DEF TimerInTime, SlotInTime, DueInTime
<1>. QED  BY <1>3, <1>4

(* Each step leaves every timer in time. *)
LEMMA InTimeStep ==
  ASSUME IInv, Pointing, Uniform, Clocks, Notes, Rounds, NEW t \in Timer,
         TimerInTime(t), [Next]_vars
  PROVE  TimerInTime(t)'
<1>1. WheelsOK /\ WheelsOK' /\ Apart /\ Notes'
  BY WheelsStep, NotesStep DEF IInv
<1>2. CASE Increase
  BY <1>1, <1>2, IncreaseInTime DEF TimerInTime
<1>3. CASE TakeOver
  <2>1. due' = {}
    BY <1>3 DEF TakeOver, Rounds
  <2>. QED  BY <1>1, <1>3, <2>1, TakeOverInTime DEF TimerInTime, DueInTime
<1>4. CASE GetAndClearCurrentSlot
  BY <1>1, <1>4, DueInTimeStep DEF TimerInTime
<1>5. CASE Sleep \/ End \/ Advance
  BY <1>1, <1>5, ClockInTime
<1>6. ASSUME NEW u \in Timer, RunTask(u)
      PROVE  TimerInTime(t)'
  <2>1. UNCHANGED <<index, pc, since, at>> /\ pc = "run" /\ due' = due \ {u} /\ u \in due
    BY <1>6 DEF RunTask
  <2>2. CASE t # u
    <3>1. left'[t] = left[t] /\ set'[t] = set[t] /\ slot'[t] = slot[t]
      BY <1>1, <1>6, <2>2 DEF RunTask, Again, Forget, WheelsOK, Clocks
    <3>. QED  BY <1>1, <2>1, <3>1, ApartInTime
  <2>3. CASE t = u /\ u \notin cancel /\ every[u] > 0
    <3>1. PICK e : e = left[t] + every[t] /\ e \in Int
      BY DEF Clocks
    <3>2. slot'[t] = AddTimer(1, e) /\ set'[t] = e /\ left'[t] = e
      BY <1>1, <1>6, <2>3, <3>1 DEF RunTask, Again, WheelsOK, Clocks
    <3>3. SlotInTime(t)'
      BY <1>1, <2>1, <3>1, <3>2, PutInTime
    <3>. QED  BY <2>1, <2>3, <3>3 DEF TimerInTime, DueInTime
  <2>4. CASE t = u /\ ~(u \notin cancel /\ every[u] > 0)
    <3>1. slot'[t] = None
      BY <1>1, <1>6, <2>1, <2>4 DEF RunTask, Forget, Apart
    <3>2. \A m \in Level : \A n \in 0 .. Scales[m] - 1 : <<m, n>> # None
      BY NoneAssumption, UnitAssumption
    <3>. QED  BY <2>1, <2>4, <3>1, <3>2 DEF TimerInTime, SlotInTime, DueInTime
  <2>. QED  BY <2>2, <2>3, <2>4
<1>7. ASSUME NEW u \in Timer, NEW d \in Delay, NEW i \in Interval, CreateTimer(u, d, i)
      PROVE  TimerInTime(t)'
  <2>1. UNCHANGED <<index, pc, since, at, due>> /\ pc # "increase" /\ u \notin made
    BY <1>7 DEF CreateTimer, Unlocked
  <2>2. CASE t # u
    <3>1. left'[t] = left[t] /\ set'[t] = set[t] /\ slot'[t] = slot[t]
      BY <1>1, <1>7, <2>2 DEF CreateTimer, WheelsOK, Clocks
    <3>. QED  BY <1>1, <2>1, <3>1, ApartInTime
  <2>3. CASE t = u
    <3>1. slot'[t] = AddTimer(1, d) /\ set'[t] = d /\ left'[t] = d /\ d \in Int
      BY <1>1, <1>7, <2>3, TimeAssumption DEF CreateTimer, WheelsOK, Clocks
    <3>2. SlotInTime(t)'
      BY <1>1, <2>1, <3>1, PutInTime
    <3>3. t \notin due'
      BY <1>1, <2>1, <2>3 DEF Apart
    <3>. QED  BY <3>2, <3>3 DEF TimerInTime, DueInTime
  <2>. QED  BY <2>2, <2>3
<1>8. CASE Stop \/ UNCHANGED vars \/ \E u \in Timer : CancelTimer(u)
  BY <1>1, <1>8, ApartInTime DEF Stop, CancelTimer, vars, wheels
<1>. QED
  BY <1>2, <1>3, <1>4, <1>5, <1>6, <1>7, <1>8 DEF Next, Run

(* What fits into the time a timer was set for. *)
LEMMA StepsFit ==
  ASSUME NEW d \in Int, NEW s \in Nat, s * Step <= Total(d)
  PROVE  Steps(d) \in Nat /\ s <= Steps(d)
<1>1. PICK p : p = Step /\ p \in Nat \ {0}
  BY TimeAssumption
<1>2. CASE d < Step
  <2>1. PICK k : k = Scales[NLevel] /\ k \in Nat
    BY LastLevel, UnitAssumption
  <2>2. s * p <= k * p
    BY <1>1, <1>2, <2>1 DEF Total
  <2>3. s <= k
    <3>. SUFFICES ASSUME k + 1 <= s PROVE FALSE
      BY <2>1
    <3>1. (k + 1) * p <= s * p /\ (k + 1) * p = k * p + p
      BY <1>1, <2>1, TimesLess, TimesNext
    <3>. QED  BY <1>1, <2>1, <2>2, <3>1
  <2>. QED  BY <1>2, <2>1, <2>3 DEF Steps
<1>3. CASE ~(d < Step)
  <2>1. d \in Nat /\ s * p <= d + p
    BY <1>1, <1>3 DEF Total
  <2>2. PICK q : q = d \div p /\ q \in Nat /\ d < (q + 1) * p
    BY <1>1, <2>1, DivTimes
  <2>3. s <= q + 1
    <3>. SUFFICES ASSUME q + 1 + 1 <= s PROVE FALSE
      BY <2>2
    <3>1. (q + 1 + 1) * p <= s * p /\ (q + 1 + 1) * p = (q + 1) * p + p
      BY <1>1, <2>2, TimesLess, TimesNext
    <3>. QED  BY <1>1, <2>1, <2>2, <3>1
  <2>. QED  BY <1>1, <1>3, <2>2, <2>3 DEF Steps
<1>. QED  BY <1>2, <1>3

(* Who waits in time is not late. *)
LEMMA InTimeNotLate ==
  ASSUME IInv, Pointing, Uniform, Slots, Clocks, Notes, Rounds, NEW t \in Timer,
         TimerInTime(t), Pending(t)
  PROVE  set[t] - left[t] <= Steps(set[t]) * (Step + 2 * Lag) + Lag
<1>1. WheelsOK
  BY DEF IInv
<1>2. PICK d, l, c, x : /\ d = set[t] /\ l = left[t] /\ c = since /\ x = Step + 2 * Lag
                        /\ d \in Int /\ l \in Int /\ c \in Nat /\ c <= Step + Lag /\ x \in Nat
                        /\ Step \in Nat /\ Lag \in Nat /\ Step > 0
  BY TimeAssumption DEF Clocks, Notes
<1>3. PICK w \in Nat : InTime(t, w) /\ (w >= Step \/ pc \in {"run", "increase"})
  <2>1. CASE t \in due
    BY <2>1 DEF TimerInTime, DueInTime, Rounds
  <2>2. CASE slot[t] # None
    <3>1. PICK m \in Level : \E n \in 0 .. Scales[m] - 1 : slot[t] = <<m, n>>
      BY <2>2 DEF Slots, InWheels
    <3>2. PICK n \in 0 .. Scales[m] - 1 : slot[t] = <<m, n>>
      BY <3>1
    <3>3. InTime(t, Wait(m, n))
      BY <3>2 DEF TimerInTime, SlotInTime
    <3>4. Wait(m, n) \in Nat /\ (Wait(m, n) >= Step \/ pc = "increase")
      BY <1>1, WaitIsSteps DEF Here
    <3>. QED  BY <3>3, <3>4
  <2>. QED  BY <2>1, <2>2 DEF Pending
<1>4. PICK s \in Nat : w + s * Step <= Total(d) /\ Waited(t, s)
  BY <1>2, <1>3 DEF InTime
<1>5. s * Step \in Nat /\ (s + 1) * Step = s * Step + Step /\ (s + 1) * x = s * x + x
  BY <1>2, TimesNext, Product
<1>6. Total(d) \in Int
  <2>1. Scales[NLevel] * Step \in Nat
    BY <1>2, LastLevel, UnitAssumption, Product
  <2>. QED  BY <1>2, <2>1 DEF Total
<1>7. CASE pc \in {"run", "increase"}
  <2>1. c <= Lag
    BY <1>2, <1>7 DEF Rounds
  <2>2. d - l <= s * x + c
    <3>1. d - l <= s * x + c + 0
      BY <1>2, <1>4, <1>7 DEF Waited
    <3>. QED  BY <1>2, <3>1
  <2>3. s * Step <= Total(d)
    BY <1>4, <1>5, <1>6
  <2>4. PICK k : k = Steps(d) /\ k \in Nat /\ s <= k
    BY <1>2, <2>3, StepsFit
  <2>5. s * x <= k * x /\ s * x \in Nat /\ k * x \in Nat
    BY <1>2, <2>4, TimesLess, Product
  <2>6. d - l <= k * x + Lag
    BY <1>2, <2>1, <2>2, <2>5
  <2>. QED  BY <1>2, <2>4, <2>6
<1>8. CASE pc \notin {"run", "increase"}
  <2>1. d - l <= s * x + c + Lag
    BY <1>2, <1>4, <1>8 DEF Waited
  <2>2. (s + 1) * Step <= Total(d)
    BY <1>2, <1>3, <1>4, <1>5, <1>6, <1>8
  <2>3. PICK k : k = Steps(d) /\ k \in Nat /\ s + 1 <= k
    BY <1>2, <2>2, StepsFit
  <2>4. (s + 1) * x <= k * x /\ s * x \in Nat /\ k * x \in Nat
    BY <1>2, <2>3, TimesLess, Product
  <2>5. d - l <= k * x + Lag
    BY <1>2, <1>5, <2>1, <2>4
  <2>. QED  BY <1>2, <2>3, <2>5
<1>. QED  BY <1>7, <1>8

(* At first nobody waits. *)
LEMMA InitInTime == Init => Rounds /\ \A t \in Timer : TimerInTime(t)
<1>1. \A m \in Level : \A n \in 0 .. Scales[m] - 1 : <<m, n>> # None
  BY NoneAssumption, UnitAssumption
<1>. QED
  BY <1>1 DEF Init, Rounds, TimerInTime, SlotInTime, DueInTime

(* However late the thread wakes up and however long the tasks take, a     *)
(* timer is taken after the steps that fit into the time it was set for,   *)
(* and after a turn of the least wheel if that is less than a step; for    *)
(* any number of wheels whose units go with their scales, and any delays   *)
(* and intervals, those of the past and beyond the greatest wheel too.     *)
THEOREM TimersNotLate ==
  ASSUME Uniform
  PROVE  Spec => []NotLate
<1>. DEFINE I == /\ IInv /\ Pointing /\ Slots /\ Clocks /\ Notes
                 /\ Rounds /\ \A t \in Timer : TimerInTime(t)
<1>1. Init => I
  BY InitIInv, InitTypes, InitInTime
<1>2. I /\ [Next]_vars => I'
  <2>. SUFFICES ASSUME I, [Next]_vars PROVE I'
    OBVIOUS
  <2>1. WheelsOK
    BY DEF IInv
  <2>2. IInv' /\ Pointing' /\ Slots' /\ Clocks' /\ Notes' /\ Rounds'
    BY <2>1, NextIInv, PointingStep, SlotsStep, ClocksStep, NotesStep, RoundsStep
  <2>3. \A t \in Timer : TimerInTime(t)'
    BY InTimeStep
  <2>. QED  BY <2>2, <2>3
<1>3. I => NotLate
  BY InTimeNotLate DEF NotLate
<1>. HIDE DEF I
<1>. QED  BY <1>1, <1>2, <1>3, PTL DEF Spec
-----------------------------------------------------------------------------
(***************************************************************************)
(* How early a timer is taken.                                             *)
(***************************************************************************)

(* A timer is set for a turn of the greatest wheel at most, and set again  *)
(* for at most a slot less: it may be that early when it is run.           *)
WithinTurn ==
  /\ \A d \in Delay : d <= Scales[1] * Unit[1]
  /\ \A i \in Interval : i <= (Scales[1] - 1) * Unit[1]

(* A slot q turns ahead is reached in q turns, within a turn of the wheel. *)
LEMMA AheadExact ==
  ASSUME NEW s \in Nat \ {0}, NEW i \in 0 .. s - 1, NEW q \in 1 .. s
  PROVE  Ahead(i, s, (i + q) % s) = q
<1>1. CASE i + q < s
  <2>1. (i + q) % s = i + q
    BY <1>1
  <2>. QED  BY <1>1, <2>1 DEF Ahead
<1>2. CASE i + q >= s
  <2>1. (i + q) % s = i + q - s
    <3>1. PICK r : r = i + q - s /\ r \in 0 .. s - 1 /\ i + q = r + s
      BY <1>2
    <3>2. (r + s) % s = r
      BY <3>1
    <3>. QED  BY <3>1, <3>2
  <2>. QED  BY <1>2, <2>1 DEF Ahead
<1>. QED  BY <1>1, <1>2

(* There is one quotient and one remainder. *)
LEMMA DivUnique ==
  ASSUME NEW a \in Nat, NEW b \in Nat \ {0}, NEW p \in Nat, p * b <= a, a < p * b + b
  PROVE  a \div b = p
<1>1. PICK q : q = a \div b /\ q \in Nat /\ q * b <= a /\ a < (q + 1) * b
  BY DivTimes
<1>2. PICK x, y : x = p * b /\ y = q * b /\ x \in Nat /\ y \in Nat
  BY <1>1, Product
<1>3. (q + 1) * b = y + b /\ (p + 1) * b = x + b
  BY <1>1, <1>2, TimesNext
<1>4. ~(q + 1 <= p)
  <2>. SUFFICES ASSUME q + 1 <= p PROVE FALSE
    OBVIOUS
  <2>1. (q + 1) * b <= p * b
    BY <1>1, TimesLess
  <2>. QED  BY <1>1, <1>2, <1>3, <2>1
<1>5. ~(p + 1 <= q)
  <2>. SUFFICES ASSUME p + 1 <= q PROVE FALSE
    OBVIOUS
  <2>1. (p + 1) * b <= q * b
    BY <1>1, TimesLess
  <2>. QED  BY <1>1, <1>2, <1>3, <2>1
<1>. QED  BY <1>1, <1>4, <1>5

LEMMA ModMultiple ==
  ASSUME NEW p \in Nat, NEW b \in Nat \ {0}
  PROVE  (p * b) % b = 0
<1>1. PICK a : a = p * b /\ a \in Nat
  BY Product
<1>2. a \div b = p
  BY <1>1, DivUnique
<1>3. a = (a \div b) * b + (a % b) /\ a % b \in 0 .. b - 1
  BY <1>1, DivTimes
<1>. QED  BY <1>1, <1>2, <1>3

(* No slot is longer than one of the greatest wheel, or shorter than a step. *)
LEMMA UnitsFall ==
  ASSUME Uniform
  PROVE  \A m \in Level : Unit[m] <= Unit[1] /\ Step <= Unit[m]
<1>1. NLevel \in Nat /\ NLevel >= 1
  BY LevelAssumption
<1>2. ASSUME NEW m \in 1 .. NLevel - 1
      PROVE  Unit[m + 1] <= Unit[m] /\ m + 1 \in Level /\ m \in Level /\ Unit[m] \in Nat /\ Unit[m + 1] \in Nat
  <2>1. m + 1 \in Level /\ m \in Level
    BY <1>1 DEF Level
  <2>2. PICK s, u : s = Scales[m + 1] /\ u = Unit[m + 1] /\ s \in Nat /\ s >= 1 /\ u \in Nat
    BY <2>1, UnitAssumption
  <2>3. 1 * u <= s * u /\ 1 * u = u
    BY <2>2, TimesLess
  <2>. QED  BY <2>1, <2>2, <2>3, UnitAssumption DEF Uniform
<1>3. PICK T : T = {m \in Level : ~(Unit[m] <= Unit[1])}
  OBVIOUS
<1>4. T = {}
  <2>. SUFFICES ASSUME T # {} PROVE FALSE
    OBVIOUS
  <2>1. T \in SUBSET Nat
    BY <1>3 DEF Level
  <2>2. PICK x \in T : \A y \in T : x <= y
    BY <2>1, LeastNumber
  <2>3. x # 1
    BY <1>3, <2>2, LastLevel, UnitAssumption
  <2>4. PICK y : y = x - 1 /\ y \in 1 .. NLevel - 1 /\ y + 1 = x /\ ~(x <= y)
    BY <1>1, <1>3, <2>2, <2>3 DEF Level
  <2>5. y \in Level /\ y \notin T
    BY <1>2, <2>2, <2>4
  <2>6. Unit[y] <= Unit[1] /\ Unit[x] <= Unit[y]
    BY <1>2, <1>3, <2>4, <2>5
  <2>7. Unit[1] \in Nat /\ Unit[x] \in Nat /\ Unit[y] \in Nat
    BY <1>2, <2>4, LastLevel, UnitAssumption
  <2>. QED  BY <1>3, <2>2, <2>6, <2>7
<1>5. PICK S : S = {m \in Level : Step <= Unit[m]}
  OBVIOUS
<1>6. NLevel \in S
  BY <1>5, LastLevel, TimeAssumption DEF Uniform
<1>7. ASSUME NEW m \in 1 .. NLevel - 1, m + 1 \in S
      PROVE  m \in S
  BY <1>2, <1>5, <1>7, TimeAssumption
<1>8. \A m \in 1 .. NLevel - 1 : m + 1 \in S => m \in S
  BY <1>7
<1>9. \A m \in Level : m \in S
  BY <1>6, <1>8, Upwards, Zenon
<1>. QED  BY <1>3, <1>4, <1>5, <1>9

(* A timer within a turn of the wheel it is added to is put less than a    *)
(* slot before its time, and into a less wheel only if it is nearer than a *)
(* slot of the next greater one.                                           *)
LEMMA AddTimerExact ==
  ASSUME WheelsOK, Pointing, Uniform, NEW l \in Level, NEW time \in Int,
         NEW k \in Level, NEW n, AddTimer(l, time) = <<k, n>>,
         time + CurrentTime[l + 1] < Scales[l] * Unit[l] + Unit[l]
  PROVE  \/ time < Step /\ k = NLevel /\ n = index[NLevel]
         \/ /\ k >= l /\ (k > l => time + CurrentTime[k] < Unit[k - 1])
            /\ time - (Ahead(index[k], Scales[k], n) * Unit[k] - CurrentTime[k + 1]) < Unit[k]
<1>1. NLevel \in Nat /\ NLevel \in l .. NLevel /\ NLevel \in Level /\ l \in 1 .. NLevel
  BY LevelAssumption DEF Level
<1>2. PICK fits : fits = {j \in l .. NLevel : Diff(j, time) >= Unit[j]}
  OBVIOUS
<1>3. CASE fits = {}
  <2>1. AddTimer(l, time) = <<NLevel, index[NLevel]>>
    BY <1>2, <1>3 DEF AddTimer
  <2>2. CurrentTime[NLevel + 1] = 0
    BY <1>1, TimesNow DEF Times
  <2>3. ~(Diff(NLevel, time) >= Unit[NLevel])
    BY <1>1, <1>2, <1>3
  <2>4. time < Step
    BY <2>2, <2>3, TimeAssumption DEF Diff, Uniform
  <2>. QED  BY <1>1, <2>1, <2>4
<1>4. CASE fits # {}
  <2>1. fits \in SUBSET Nat
    BY <1>1, <1>2
  <2>2. \E j \in fits : \A i \in fits : j <= i
    BY <1>4, <2>1, LeastNumber
  <2>3. PICK j : j = CHOOSE x \in fits : \A y \in fits : x <= y
    OBVIOUS
  <2>4. j \in fits /\ \A y \in fits : j <= y
    BY <2>2, <2>3
  <2>5. AddTimer(l, time) = <<j, (index[j] + Diff(j, time) \div Unit[j]) % Scales[j]>>
    BY <1>2, <1>4, <2>3 DEF AddTimer
  <2>6. k = j /\ n = (index[k] + Diff(k, time) \div Unit[k]) % Scales[k] /\ k \in l .. NLevel
    BY <1>2, <2>4, <2>5
  <2>7. PICK i, u, s, c : /\ i = index[k] /\ u = Unit[k] /\ s = Scales[k] /\ c = CurrentTime[k + 1]
                          /\ i \in Nat /\ u \in Nat \ {0} /\ s \in Nat \ {0} /\ i \in 0 .. s - 1
                          /\ c \in Nat
    BY UnitAssumption, BelowOneSlot DEF WheelsOK, Pointing
  <2>8. PICK d : d = Diff(k, time) /\ d = time + c /\ d >= u /\ d \in Nat
    BY <1>2, <2>4, <2>6, <2>7 DEF Diff
  <2>9. k > l => time + CurrentTime[k] < Unit[k - 1]
    <3>. SUFFICES ASSUME k > l PROVE time + CurrentTime[k] < Unit[k - 1]
      OBVIOUS
    <3>1. PICK p : p = k - 1 /\ p \in l .. NLevel /\ p + 1 = k /\ ~(k <= p) /\ p \in Level
      BY <1>1, <2>6 DEF Level
    <3>2. ~(Diff(p, time) >= Unit[p])
      BY <1>2, <2>4, <2>6, <3>1
    <3>3. Unit[p] \in Nat /\ CurrentTime[k] \in Nat
      BY <3>1, UnitAssumption, BelowOneSlot
    <3>. QED  BY <3>1, <3>2, <3>3 DEF Diff
  <2>10. d < s * u + u
    <3>1. CASE k = l
      BY <2>7, <2>8, <3>1
    <3>2. CASE k > l
      <4>1. PICK p : p = k - 1 /\ p \in 1 .. NLevel - 1 /\ p + 1 = k
        BY <1>1, <2>6, <3>2 DEF Level
      <4>2. Unit[p] = s * u
        BY <2>7, <4>1 DEF Uniform
      <4>3. CurrentTime[k] = i * u + c
        <5>1. k \in 1 .. NLevel + 1 /\ ~(k > NLevel)
          BY <1>1 DEF Level
        <5>. QED  BY <2>7, <5>1, TimesNow DEF Times
      <4>4. i * u \in Nat /\ s * u \in Nat
        BY <2>7, Product
      <4>5. time + CurrentTime[k] < Unit[p]
        BY <2>9, <3>2, <4>1
      <4>. QED  BY <2>7, <2>8, <4>2, <4>3, <4>4, <4>5
    <3>3. k \in Int /\ l \in Int /\ k >= l
      BY <1>1, <2>6
    <3>. QED  BY <3>1, <3>2, <3>3
  <2>11. PICK q : q = d \div u /\ q \in Nat /\ q >= 1 /\ q * u <= d /\ d < (q + 1) * u
    BY <2>7, <2>8, DivTimes
  <2>12. q \in 1 .. s
    <3>. SUFFICES ASSUME s + 1 <= q PROVE FALSE
      BY <2>7, <2>11
    <3>1. (s + 1) * u <= q * u /\ (s + 1) * u = s * u + u
      BY <2>7, <2>11, TimesLess, TimesNext
    <3>2. s * u \in Nat /\ q * u \in Nat
      BY <2>7, <2>11, Product
    <3>. QED  BY <2>7, <2>8, <2>10, <2>11, <3>1, <3>2
  <2>13. Ahead(i, s, n) = q
    <3>1. n = (i + q) % s
      BY <2>6, <2>7, <2>8, <2>11
    <3>. QED  BY <2>7, <2>12, <3>1, AheadExact
  <2>14. (q + 1) * u = q * u + u /\ q * u \in Nat
    BY <2>7, <2>11, TimesNext, Product
  <2>. QED  BY <2>6, <2>7, <2>8, <2>9, <2>11, <2>13, <2>14, <1>1
<1>. QED  BY <1>3, <1>4

(* A whole number of turns goes into the current slot. *)
LEMMA AddTimerWhole ==
  ASSUME WheelsOK, Uniform, NEW l \in Level, NEW time \in Int, NEW y \in Nat, y >= 1,
         index[l] = 0, CurrentTime[l + 1] = 0,
         y * (Scales[l] * Unit[l]) <= time, time < y * (Scales[l] * Unit[l]) + Step
  PROVE  AddTimer(l, time) = <<l, 0>>
<1>1. NLevel \in Nat /\ l \in 1 .. NLevel /\ l \in l .. NLevel
  BY LevelAssumption DEF Level
<1>2. PICK s, u : s = Scales[l] /\ u = Unit[l] /\ s \in Nat \ {0} /\ u \in Nat \ {0} /\ Step <= u
  BY UnitAssumption, UnitsFall
<1>3. PICK p : p = y * s /\ p \in Nat /\ p >= 1 /\ y * (s * u) = p * u
  <2>1. 1 * s <= y * s /\ 1 * s = s /\ y * s \in Nat
    BY <1>2, TimesLess, Product
  <2>2. y * (s * u) = (y * s) * u
    BY <1>2
  <2>. QED  BY <1>2, <2>1, <2>2
<1>4. time \in Nat /\ p * u <= time /\ time < p * u + u /\ time >= u
  <2>1. 1 * u <= p * u /\ 1 * u = u /\ p * u \in Nat
    BY <1>2, <1>3, TimesLess, Product
  <2>. QED  BY <1>2, <1>3, <2>1, TimeAssumption
<1>5. time \div u = p
  BY <1>2, <1>3, <1>4, DivUnique
<1>6. (0 + p) % s = 0
  <2>1. (y * s) % s = 0
    BY <1>2, ModMultiple
  <2>. QED  BY <1>3, <2>1
<1>7. Diff(l, time) = time
  BY DEF Diff
<1>8. PICK fits : fits = {k \in l .. NLevel : Diff(k, time) >= Unit[k]}
  OBVIOUS
<1>9. fits # {} /\ l \in fits /\ \A j \in fits : l <= j
  BY <1>1, <1>2, <1>4, <1>7, <1>8
<1>10. PICK k : k = CHOOSE j \in fits : \A i \in fits : j <= i
  OBVIOUS
<1>11. k = l
  <2>1. k \in fits /\ \A j \in fits : k <= j
    BY <1>9, <1>10
  <2>2. k \in l .. NLevel /\ k <= l
    BY <1>8, <1>9, <2>1
  <2>. QED  BY <1>1, <2>2
<1>12. AddTimer(l, time) = <<k, (index[k] + Diff(k, time) \div Unit[k]) % Scales[k]>>
  <2>1. fits # {}
    BY <1>9
  <2>. QED  BY <1>8, <1>10, <2>1, Zenon DEF AddTimer
<1>. QED  BY <1>2, <1>5, <1>6, <1>7, <1>11, <1>12

(* The wheels below the one that is taken over stand at 0. *)
Zeros == pc = "increase" => \A k \in at + 1 .. NLevel : index[k] = 0

LEMMA BelowIsZero ==
  ASSUME WheelsOK, Zeros, pc = "increase", NEW m \in Level, m >= at
  PROVE  CurrentTime[m + 1] = 0
<1>1. PICK S : S = {k \in Level : k >= at => CurrentTime[k + 1] = 0}
  OBVIOUS
<1>2. NLevel \in Nat /\ NLevel >= 1 /\ at \in 1 .. NLevel
  BY LevelAssumption DEF WheelsOK, Level
<1>3. NLevel \in S
  BY <1>1, <1>2, LastLevel, TimesNow DEF Times
<1>4. ASSUME NEW k \in 1 .. NLevel - 1, k + 1 \in S
      PROVE  k \in S
  <2>1. k \in Level /\ k + 1 \in Level /\ k + 1 \in 1 .. NLevel + 1 /\ ~(k + 1 > NLevel)
    BY <1>2 DEF Level
  <2>2. CASE k >= at
    <3>1. k + 1 \in at + 1 .. NLevel /\ k + 1 >= at
      BY <1>2, <2>2
    <3>2. index[k + 1] = 0 /\ CurrentTime[k + 1 + 1] = 0
      BY <1>1, <1>4, <3>1 DEF Zeros
    <3>3. CurrentTime[k + 1] = index[k + 1] * Unit[k + 1] + CurrentTime[k + 1 + 1]
      BY <2>1, TimesNow DEF Times
    <3>4. Unit[k + 1] \in Nat
      BY <2>1, UnitAssumption
    <3>5. CurrentTime[k + 1] = 0
      BY <3>2, <3>3, <3>4
    <3>. QED  BY <1>1, <2>1, <3>5
  <2>. QED  BY <1>1, <2>1, <2>2
<1>5. \A k \in 1 .. NLevel - 1 : k + 1 \in S => k \in S
  BY <1>4
<1>6. \A k \in Level : k \in S
  BY <1>3, <1>5, Upwards, Zenon
<1>. QED  BY <1>1, <1>6

(* They came round, which is why it turned. *)
LEMMA ZerosStep ==
  ASSUME WheelsOK, Pointing, Zeros, [Next]_vars
  PROVE  Zeros'
<1>1. CASE Increase
  <2>1. PICK m \in Level : Turns(m) /\ at' = m
    BY <1>1 DEF Increase
  <2>. SUFFICES ASSUME NEW k \in m + 1 .. NLevel PROVE index'[k] = 0
    BY <2>1 DEF Zeros
  <2>2. k \in Level /\ m \in Nat /\ k \in Nat /\ NLevel \in Nat
    BY LevelAssumption DEF Level
  <2>3. Turns(k) /\ index[k] + 1 >= Scales[k]
    BY <2>1, <2>2 DEF Turns
  <2>4. PICK i, s : i = index[k] /\ s = Scales[k] /\ i \in Nat /\ s \in Nat \ {0} /\ i + 1 = s
    BY <2>2, <2>3, UnitAssumption DEF WheelsOK, Pointing
  <2>5. (i + 1) % s = 0
    BY <2>4
  <2>. QED  BY <1>1, <2>2, <2>3, <2>4, <2>5 DEF Increase
<1>2. CASE TakeOver
  <2>1. at \in Int /\ at' = at + 1 /\ index' = index /\ pc = "increase"
    BY <1>2 DEF TakeOver, WheelsOK, Level
  <2>2. \A k \in at + 1 + 1 .. NLevel : k \in at + 1 .. NLevel
    BY <2>1, LevelAssumption
  <2>. QED  BY <2>1, <2>2 DEF Zeros
<1>3. CASE UNCHANGED <<index, pc, at>> \/ pc' # "increase"
  BY <1>3 DEF Zeros
<1>. QED
  BY <1>1, <1>2, <1>3
     DEF Next, Run, GetAndClearCurrentSlot, RunTask, Sleep, End,
         Advance, Stop, CancelTimer, CreateTimer, vars, wheels

Small == \A t \in Timer : every[t] <= (Scales[1] - 1) * Unit[1]

LEMMA SmallInit == ASSUME Init PROVE Small
<1>1. Scales[1] - 1 \in Nat /\ Unit[1] \in Nat
  BY LastLevel, UnitAssumption
<1>2. (Scales[1] - 1) * Unit[1] \in Nat
  BY <1>1, Product
<1>. QED  BY <1>2 DEF Init, Small

LEMMA SmallStep ==
  ASSUME WithinTurn, Clocks, Small, [Next]_vars
  PROVE  Small'
<1>1. ASSUME NEW t \in Timer, NEW d \in Delay, NEW i \in Interval, CreateTimer(t, d, i)
      PROVE  Small'
  <2>1. \A u \in Timer : every'[u] = every[u] \/ every'[u] = i
    BY <1>1 DEF CreateTimer, Clocks
  <2>. QED  BY <2>1 DEF Small, WithinTurn
<1>2. CASE UNCHANGED every
  BY <1>2 DEF Small
<1>. QED
  BY <1>1, <1>2
     DEF Next, Run, Increase, TakeOver, GetAndClearCurrentSlot, RunTask, Sleep, End,
         Advance, Stop, CancelTimer, vars, wheels

(* What the thread has slept already of the step it sleeps. *)
Slept == IF pc # "sleep" THEN 0 ELSE IF since < Step THEN since ELSE Step

(* t has a whole slot of wheel j left, and less than a step: its Diff() is *)
(* a whole number of turns of every wheel below.                           *)
Whole(t, m) ==
  \E j \in 1 .. m - 1 :
    /\ left[t] \in Unit[j] .. Unit[j] + Step - 1
    /\ \E x \in Nat : Unit[j] = x * Unit[m]

(* A timer is put into a slot less than a slot of that wheel and a step    *)
(* before its time, and stays so far from it; but for the whole ones.      *)
InNoHurry(t, m, n) ==
  \/ left[t] - Wait(m, n) + Slept < Unit[m] + Step
  \/ Here(m, n) /\ Whole(t, m)

SlotNotEarly(t) ==
  \A m \in Level : \A n \in 0 .. Scales[m] - 1 : slot[t] = <<m, n>> => InNoHurry(t, m, n)
DueNotEarly(t) == t \in due => left[t] < Unit[1] + Step

LEMMA SleptTypes ==
  ASSUME Notes
  PROVE  Slept \in Nat /\ Slept <= Step
BY TimeAssumption DEF Notes, Slept

(* A timer that is put on the wheels, from outside or again. *)
LEMMA PutNotEarly ==
  ASSUME WheelsOK, WheelsOK', Pointing, Uniform, Notes', NEW t \in Timer, NEW e \in Int,
         e < Scales[1] * Unit[1] + Step,
         index' = index, pc # "increase", pc' = pc,
         slot'[t] = AddTimer(1, e), left'[t] = e
  PROVE  SlotNotEarly(t)'
<1>. SUFFICES ASSUME NEW m \in Level, NEW n \in 0 .. Scales[m] - 1, slot'[t] = <<m, n>>
              PROVE  InNoHurry(t, m, n)'
  BY DEF SlotNotEarly
<1>1. ~Here(m, n) /\ ~Here(m, n)' /\ Wait(m, n)' = Wait(m, n)
  BY WaitStays DEF Here
<1>2. e + CurrentTime[1 + 1] < Scales[1] * Unit[1] + Unit[1]
  <2>1. CurrentTime[1 + 1] \in Nat /\ CurrentTime[1 + 1] <= Unit[1] - Step
    BY LastLevel, BelowOneSlot
  <2>2. Unit[1] \in Nat /\ Scales[1] * Unit[1] \in Nat
    BY LastLevel, UnitAssumption, Product
  <2>. QED  BY <2>1, <2>2, TimeAssumption
<1>3. \/ e < Step
      \/ e - Wait(m, n) < Unit[m]
  <2>1. AddTimer(1, e) = <<m, n>> /\ 1 \in Level
    BY LastLevel
  <2>2. \/ e < Step
        \/ e - (Ahead(index[m], Scales[m], n) * Unit[m] - CurrentTime[m + 1]) < Unit[m]
    BY <1>2, <2>1, AddTimerExact
  <2>. QED  BY <1>1, <2>2 DEF Wait
<1>4. PICK w, u, z : /\ w = Wait(m, n) /\ w \in Nat /\ u = Unit[m] /\ u \in Nat /\ u >= Step
                     /\ z = Slept' /\ z \in Nat /\ z <= Step
  <2>1. Slept' \in Nat /\ Slept' <= Step
    <3>1. (Notes => Slept \in Nat /\ Slept <= Step)'
      BY SleptTypes, PTL
    <3>. QED  BY <3>1
  <2>. QED  BY <2>1, WaitIsSteps, UnitsFall, UnitAssumption
<1>5. e - w + z < u + Step
  BY <1>3, <1>4, TimeAssumption
<1>. QED  BY <1>1, <1>4, <1>5 DEF InNoHurry

(* What a step leaves where it is. *)
LEMMA StaysNotEarly ==
  ASSUME WheelsOK, WheelsOK', Pointing, Uniform, Clocks, Notes, Rounds, NEW t \in Timer,
         SlotNotEarly(t), index' = index, slot'[t] = slot[t],
         \A m \in Level : slot[t] = <<m, index[m]>> => (Here(m, index[m])' <=> Here(m, index[m])),
         \/ left'[t] = left[t] /\ pc' = pc /\ since' = since
         \/ left'[t] = left[t] /\ (Sleep \/ End \/ GetAndClearCurrentSlot)
         \/ Advance /\ Pending(t)
  PROVE  SlotNotEarly(t)'
<1>. SUFFICES ASSUME NEW m \in Level, NEW n \in 0 .. Scales[m] - 1, slot'[t] = <<m, n>>
              PROVE  InNoHurry(t, m, n)'
  BY DEF SlotNotEarly
<1>1. InNoHurry(t, m, n)
  BY DEF SlotNotEarly
<1>2. Here(m, n)' <=> Here(m, n)
  BY DEF Here
<1>3. PICK w : w = Wait(m, n) /\ w = Wait(m, n)' /\ w \in Int
  BY <1>2, WaitStays, WaitIsSteps
<1>4. PICK l, k, z, y, u : /\ l = left[t] /\ k = left'[t] /\ z = Slept /\ y = Slept' /\ u = Unit[m]
                           /\ l \in Int /\ z \in Nat /\ u \in Nat
  BY SleptTypes, UnitAssumption DEF Clocks
<1>5. (k = l /\ y \in Int /\ y <= z) \/ (k = l - 1 /\ y \in Int /\ y <= z + 1)
  <2>1. CASE left'[t] = left[t] /\ pc' = pc /\ since' = since
    BY <1>4, <2>1 DEF Slept
  <2>2. CASE left'[t] = left[t] /\ Sleep
    BY <1>4, <2>2, TimeAssumption DEF Sleep, Slept
  <2>3. CASE left'[t] = left[t] /\ End
    BY <1>4, <2>3 DEF End, Slept
  <2>4. CASE left'[t] = left[t] /\ GetAndClearCurrentSlot
    BY <1>4, <2>4 DEF GetAndClearCurrentSlot, Slept
  <2>5. CASE Advance /\ Pending(t)
    <3>1. k = l - 1 /\ since' = since + 1 /\ pc' = pc /\ since \in Nat
      BY <1>4, <2>5 DEF Advance, Notes
    <3>. QED  BY <1>4, <3>1, TimeAssumption DEF Slept
  <2>. QED  BY <2>1, <2>2, <2>3, <2>4, <2>5
<1>6. CASE l - w + z < u + Step
  <2>1. k - w + y < u + Step
    BY <1>3, <1>4, <1>5, <1>6, TimeAssumption
  <2>. QED  BY <1>3, <1>4, <2>1 DEF InNoHurry
<1>7. CASE Here(m, n) /\ Whole(t, m)
  <2>1. left'[t] = left[t]
    BY <1>7 DEF Here, Advance
  <2>. QED  BY <1>2, <1>7, <2>1 DEF InNoHurry, Whole
<1>. QED  BY <1>1, <1>3, <1>4, <1>6, <1>7 DEF InNoHurry

(* The wheels turn: a step was slept, and the wait is a step less. *)
LEMMA IncreaseNotEarly ==
  ASSUME WheelsOK, Pointing, Uniform, Clocks, Notes, NEW t \in Timer,
         SlotNotEarly(t), Increase
  PROVE  SlotNotEarly(t)'
<1>. SUFFICES ASSUME NEW m \in Level, NEW n \in 0 .. Scales[m] - 1, slot'[t] = <<m, n>>
              PROVE  InNoHurry(t, m, n)'
  BY DEF SlotNotEarly
<1>1. slot[t] = <<m, n>> /\ ~Here(m, n) /\ left' = left /\ Slept = Step /\ Slept' = 0
  BY TimeAssumption DEF Increase, Here, Slept, Notes
<1>2. left[t] - Wait(m, n) + Step < Unit[m] + Step
  BY <1>1 DEF SlotNotEarly, InNoHurry
<1>3. PICK l, w, u : /\ l = left[t] /\ w = Wait(m, n) /\ u = Unit[m]
                     /\ l \in Int /\ w \in Int /\ u \in Nat
  BY WaitIsSteps, UnitAssumption DEF Clocks
<1>4. Wait(m, n)' = w - Step
  BY <1>3, WaitTurns
<1>5. l - (w - Step) + 0 < u + Step
  BY <1>2, <1>3, TimeAssumption
<1>. QED  BY <1>1, <1>3, <1>4, <1>5 DEF InNoHurry

(* A timer of the slot that is taken over finds its way into the next      *)
(* wheels: less than a slot from its time; or, with a whole slot left, into *)
(* the slot that is taken over next.                                       *)
LEMMA TakenOverNotEarly ==
  ASSUME WheelsOK, WheelsOK', Pointing, Uniform, Clocks, Notes, Zeros, NEW t \in Timer,
         TakeOver, slot[t] = <<at, index[at]>>, SlotNotEarly(t),
         slot'[t] = AddTimer(at + 1, left[t])
  PROVE  SlotNotEarly(t)'
<1>1. PICK k, l, e : /\ k = at /\ l = k + 1 /\ e = left[t] /\ e \in Int
                     /\ k \in Level /\ l \in Level /\ k \in Nat /\ k < NLevel /\ NLevel \in Nat
  BY LevelAssumption DEF TakeOver, WheelsOK, Level, Clocks
<1>2. pc = "increase" /\ pc' = "increase" /\ at' = l /\ index' = index /\ left' = left
      /\ Slept = 0 /\ Slept' = 0
  BY <1>1 DEF TakeOver, Slept
<1>3. PICK i, v, s, u : /\ i = index[k] /\ i \in 0 .. Scales[k] - 1 /\ v = Unit[k] /\ v \in Nat
                        /\ s = Scales[l] /\ s \in Nat /\ s >= 1
                        /\ u = Unit[l] /\ u \in Nat /\ u >= 1 /\ Step <= u /\ v = s * u
  <2>1. index[k] \in 0 .. Scales[k] - 1 /\ Unit[k] \in Nat /\ Scales[l] \in Nat /\ Scales[l] >= 1
        /\ Unit[l] \in Nat /\ Unit[l] >= 1
    BY <1>1, UnitAssumption DEF WheelsOK, Pointing
  <2>2. Step <= Unit[l]
    BY <1>1, UnitsFall
  <2>3. k \in 1 .. NLevel - 1
    BY <1>1 DEF Level
  <2>4. Unit[k] = Scales[l] * Unit[l]
    BY <1>1, <2>3 DEF Uniform
  <2>. QED  BY <2>1, <2>2, <2>4
<1>4. index[l] = 0 /\ CurrentTime[l + 1] = 0
  BY <1>1, <1>2, BelowIsZero DEF Zeros
<1>5. Here(k, i)
  BY <1>1, <1>2, <1>3 DEF Here
<1>6. e < v + Step \/ Whole(t, k)
  <2>1. InNoHurry(t, k, i)
    BY <1>1, <1>3 DEF SlotNotEarly
  <2>. QED  BY <1>1, <1>2, <1>3, <1>5, <2>1 DEF InNoHurry, Wait
<1>7. AddTimer(l, e) = slot'[t]
  BY <1>1
<1>8. ASSUME NEW m \in Level, NEW n \in 0 .. Scales[m] - 1, slot'[t] = <<m, n>>, e < v + Step
      PROVE  InNoHurry(t, m, n)'
  <2>1. AddTimer(l, e) = <<m, n>>
    BY <1>7, <1>8
  <2>2. e + CurrentTime[l + 1] < Scales[l] * Unit[l] + Unit[l]
    <3>1. s * u \in Nat
      BY <1>3, Product
    <3>. QED  BY <1>1, <1>3, <1>4, <1>8, <3>1, TimeAssumption
  <2>3. \/ e < Step /\ m = NLevel /\ n = index[NLevel]
        \/ /\ m >= l /\ (m > l => e + CurrentTime[m] < Unit[m - 1])
           /\ e - (Ahead(index[m], Scales[m], n) * Unit[m] - CurrentTime[m + 1]) < Unit[m]
    BY <1>1, <2>1, <2>2, AddTimerExact
  <2>4. PICK w, x : /\ w = Wait(m, n) /\ w = Wait(m, n)' /\ w \in Nat /\ x = Unit[m] /\ x \in Nat
                    /\ x >= Step
    <3>1. m \in Int /\ m >= l
      BY <1>1, <2>3 DEF Level
    <3>2. Here(m, n)' <=> Here(m, n)
      BY <1>1, <1>2, <3>1 DEF Here
    <3>. QED  BY <1>2, <3>2, WaitStays, WaitIsSteps, UnitsFall, UnitAssumption
  <2>5. CASE e < Step
    <3>1. e - w + 0 < x + Step
      BY <1>1, <2>4, <2>5, TimeAssumption
    <3>. QED  BY <1>1, <1>2, <2>4, <3>1 DEF InNoHurry
  <2>6. CASE ~(e < Step) /\ n # index[m]
    <3>1. w = Ahead(index[m], Scales[m], n) * Unit[m] - CurrentTime[m + 1]
      BY <2>4, <2>6 DEF Wait, Here
    <3>2. e - w < x
      BY <2>3, <2>4, <2>6, <3>1
    <3>3. e - w + 0 < x + Step
      BY <1>1, <2>4, <3>2, TimeAssumption
    <3>. QED  BY <1>1, <1>2, <2>4, <3>3 DEF InNoHurry
  <2>7. CASE ~(e < Step) /\ n = index[m]
    <3>1. m >= l /\ (m > l => e + CurrentTime[m] < Unit[m - 1]) /\ m \in Nat
      BY <2>3, <2>7 DEF Level
    <3>2. CurrentTime[m] = 0 /\ index[m] = 0 /\ CurrentTime[m + 1] = 0
      <4>1. m \in k + 1 .. NLevel /\ m >= k
        BY <1>1, <3>1 DEF Level
      <4>2. index[m] = 0 /\ CurrentTime[m + 1] = 0
        BY <1>1, <1>2, <4>1, BelowIsZero DEF Zeros
      <4>3. PICK p : p = m - 1 /\ p \in Level /\ p >= k /\ p + 1 = m
        BY <1>1, <4>1 DEF Level
      <4>4. CurrentTime[p + 1] = 0
        BY <1>1, <1>2, <4>3, BelowIsZero
      <4>. QED  BY <4>2, <4>3, <4>4
    <3>3. PICK r : r = Scales[m] /\ r \in Nat /\ r >= 1
      BY UnitAssumption
    <3>4. r * x <= e
      <4>1. Ahead(index[m], Scales[m], n) * Unit[m] - CurrentTime[m + 1] <= e
        BY <1>1, <2>1, <2>7, AddTimerWaits
      <4>2. Ahead(0, r, 0) = r
        BY <3>3 DEF Ahead
      <4>3. r * x \in Nat
        BY <2>4, <3>3, Product
      <4>. QED  BY <2>4, <2>7, <3>2, <3>3, <4>1, <4>2, <4>3
    <3>5. m = l
      <4>. SUFFICES ASSUME m > l PROVE FALSE
        BY <1>1, <3>1
      <4>1. PICK p : p = m - 1 /\ p \in 1 .. NLevel - 1 /\ p + 1 = m
        BY <1>1, <3>1 DEF Level
      <4>2. Unit[p] = r * x
        BY <2>4, <3>3, <4>1 DEF Uniform
      <4>3. e < r * x /\ r * x \in Nat
        BY <1>1, <2>4, <3>1, <3>2, <3>3, <4>1, <4>2, Product
      <4>. QED  BY <1>1, <3>4, <4>3
    <3>6. Here(m, n)'
      BY <1>1, <1>2, <2>7, <3>5 DEF Here
    <3>7. Whole(t, m)'
      <4>1. e \in Unit[k] .. Unit[k] + Step - 1
        BY <1>1, <1>3, <1>8, <2>4, <3>3, <3>4, <3>5, TimeAssumption
      <4>2. k \in 1 .. m - 1
        BY <1>1, <3>5 DEF Level
      <4>3. Unit[k] = s * Unit[m] /\ s \in Nat
        BY <1>3, <3>5
      <4>. QED  BY <1>1, <1>2, <4>1, <4>2, <4>3 DEF Whole
    <3>. QED  BY <3>6, <3>7 DEF InNoHurry
  <2>. QED  BY <2>5, <2>6, <2>7
<1>9. ASSUME NEW m \in Level, NEW n \in 0 .. Scales[m] - 1, slot'[t] = <<m, n>>, Whole(t, k)
      PROVE  InNoHurry(t, m, n)'
  <2>1. PICK j \in 1 .. k - 1 : e \in Unit[j] .. Unit[j] + Step - 1 /\ \E x \in Nat : Unit[j] = x * Unit[k]
    BY <1>1, <1>9 DEF Whole
  <2>2. PICK x \in Nat : Unit[j] = x * v
    BY <1>3, <2>1
  <2>3. j \in Level /\ Unit[j] \in Nat /\ Unit[j] >= 1
    BY <1>1, UnitAssumption DEF Level
  <2>4. x >= 1
    BY <1>3, <2>2, <2>3
  <2>5. AddTimer(l, e) = <<l, 0>>
    <3>1. x * (Scales[l] * Unit[l]) = Unit[j]
      BY <1>3, <2>2
    <3>2. x * (Scales[l] * Unit[l]) <= e /\ e < x * (Scales[l] * Unit[l]) + Step
      BY <1>1, <2>1, <2>3, <3>1, TimeAssumption
    <3>. QED  BY <1>1, <1>4, <2>4, <3>2, AddTimerWhole
  <2>6. m = l /\ n = 0
    BY <1>7, <1>9, <2>5
  <2>7. Here(m, n)'
    BY <1>1, <1>2, <1>4, <2>6 DEF Here
  <2>8. Whole(t, m)'
    <3>1. Unit[j] = (x * s) * u /\ x * s \in Nat
      BY <1>3, <2>2, Product
    <3>2. j \in 1 .. m - 1
      BY <1>1, <2>6
    <3>. QED  BY <1>1, <1>2, <1>3, <2>1, <2>6, <3>1, <3>2 DEF Whole
  <2>. QED  BY <2>7, <2>8 DEF InNoHurry
<1>. QED  BY <1>6, <1>8, <1>9 DEF SlotNotEarly

LEMMA TakeOverNotEarly ==
  ASSUME WheelsOK, WheelsOK', Pointing, Uniform, Clocks, Notes, Rounds, Zeros, NEW t \in Timer,
         SlotNotEarly(t), TakeOver
  PROVE  SlotNotEarly(t)'
<1>1. CASE t \notin InSlot(at)
  <2>1. slot'[t] = slot[t] /\ left' = left /\ pc' = pc /\ since' = since /\ index' = index
    BY <1>1 DEF TakeOver
  <2>2. ASSUME NEW m \in Level, slot[t] = <<m, index[m]>>
        PROVE  Here(m, index[m])' <=> Here(m, index[m])
    <3>1. m # at /\ m \in Int /\ at \in Int /\ at' = at + 1
      BY <1>1, <2>2 DEF InSlot, Level, WheelsOK, TakeOver
    <3>. QED  BY <2>1, <3>1 DEF Here
  <2>. QED  BY <2>1, <2>2, StaysNotEarly
<1>2. CASE t \in InSlot(at)
  BY <1>2, TakenOverNotEarly DEF TakeOver, InSlot
<1>. QED  BY <1>1, <1>2

(* A timer in the current slot of the least wheel. *)
LEMMA TakenNotEarly ==
  ASSUME WheelsOK, Pointing, Uniform, Clocks, Notes, NEW t \in Timer,
         SlotNotEarly(t), GetAndClearCurrentSlot, t \in InSlot(NLevel)
  PROVE  /\ \/ left[t] < 2 * Step
            \/ \E m \in 1 .. NLevel - 1 : left[t] \in Unit[m] .. Unit[m] + Step - 1
         /\ left[t] < Unit[1] + Step
<1>1. PICK k, i : k = NLevel /\ i = index[NLevel] /\ k \in Level /\ i \in 0 .. Scales[k] - 1
  BY LastLevel, UnitAssumption DEF WheelsOK, Pointing
<1>2. Here(k, i) /\ Slept = 0
  BY <1>1, LevelAssumption DEF Here, Slept, GetAndClearCurrentSlot
<1>3. InNoHurry(t, k, i)
  BY <1>1 DEF SlotNotEarly, InSlot
<1>4. left[t] < Unit[k] + Step \/ Whole(t, k)
  <2>1. left[t] \in Int
    BY DEF Clocks
  <2>. QED  BY <1>2, <1>3, <2>1 DEF InNoHurry, Wait
<1>5. left[t] \in Int /\ Unit[1] \in Nat /\ Unit[k] = Step /\ Step <= Unit[1] /\ Step \in Nat
  BY <1>1, LastLevel, UnitAssumption, UnitsFall, TimeAssumption DEF Clocks, Uniform
<1>6. CASE left[t] < Unit[k] + Step
  BY <1>5, <1>6
<1>7. CASE Whole(t, k)
  <2>1. PICK j \in 1 .. NLevel - 1 : left[t] \in Unit[j] .. Unit[j] + Step - 1
    BY <1>1, <1>7 DEF Whole
  <2>2. j \in Level /\ Unit[j] <= Unit[1] /\ Unit[j] \in Nat
    <3>1. j \in Level
      BY LevelAssumption DEF Level
    <3>. QED  BY <3>1, UnitsFall, UnitAssumption
  <2>. QED  BY <1>5, <2>1, <2>2
<1>. QED  BY <1>4, <1>6, <1>7

LEMMA ClearNotEarly ==
  ASSUME WheelsOK, WheelsOK', Pointing, Uniform, Clocks, Notes, Rounds, NEW t \in Timer,
         SlotNotEarly(t), DueNotEarly(t), GetAndClearCurrentSlot
  PROVE  SlotNotEarly(t)' /\ DueNotEarly(t)'
<1>1. /\ at = NLevel /\ at' = at /\ pc = "increase" /\ pc' = "run"
      /\ left' = left /\ index' = index /\ due' = InSlot(NLevel)
  BY DEF GetAndClearCurrentSlot
<1>2. DueNotEarly(t)'
  BY <1>1, TakenNotEarly DEF DueNotEarly
<1>3. CASE t \notin InSlot(NLevel)
  <2>1. slot'[t] = slot[t]
    BY <1>3 DEF GetAndClearCurrentSlot
  <2>2. ASSUME NEW m \in Level, slot[t] = <<m, index[m]>>
        PROVE  Here(m, index[m])' <=> Here(m, index[m])
    <3>1. m # NLevel /\ m <= NLevel /\ m \in Int /\ NLevel \in Int
      BY <1>3, <2>2, LevelAssumption DEF InSlot, Level
    <3>. QED  BY <1>1, <3>1 DEF Here
  <2>3. SlotNotEarly(t)'
    BY <1>1, <2>1, <2>2, StaysNotEarly
  <2>. QED  BY <1>2, <2>3
<1>4. CASE t \in InSlot(NLevel)
  <2>1. slot'[t] = None
    BY <1>4 DEF GetAndClearCurrentSlot
  <2>2. \A m \in Level : \A n \in 0 .. Scales[m] - 1 : <<m, n>> # None
    BY NoneAssumption, UnitAssumption
  <2>. QED  BY <1>2, <2>1, <2>2 DEF SlotNotEarly
<1>. QED  BY <1>3, <1>4

TimerNotEarly(t) == SlotNotEarly(t) /\ DueNotEarly(t)

(* A step that leaves this timer and the thread alone. *)
LEMMA ApartNotEarly ==
  ASSUME WheelsOK, WheelsOK', Pointing, Uniform, Clocks, Notes, Rounds, NEW t \in Timer,
         TimerNotEarly(t), UNCHANGED <<index, pc, since, at>>,
         left'[t] = left[t], slot'[t] = slot[t], t \in due' => t \in due
  PROVE  TimerNotEarly(t)'
<1>1. SlotNotEarly(t)'
  BY StaysNotEarly DEF TimerNotEarly, Here
<1>2. DueNotEarly(t)'
  BY DEF TimerNotEarly, DueNotEarly
<1>. QED  BY <1>1, <1>2 DEF TimerNotEarly

(* Nobody is early who is not on the wheels. *)
LEMMA GoneNotEarly ==
  ASSUME NEW t \in Timer, slot'[t] = None, t \notin due'
  PROVE  TimerNotEarly(t)'
<1>1. \A m \in Level : \A n \in 0 .. Scales[m] - 1 : <<m, n>> # None
  BY NoneAssumption, UnitAssumption
<1>. QED  BY <1>1 DEF TimerNotEarly, SlotNotEarly, DueNotEarly

(* Sleeping, waking up and the clock. *)
LEMMA ClockNotEarly ==
  ASSUME WheelsOK, WheelsOK', Pointing, Uniform, Clocks, Notes, Rounds, NEW t \in Timer,
         TimerNotEarly(t), Sleep \/ End \/ Advance
  PROVE  TimerNotEarly(t)'
<1>1. /\ UNCHANGED <<index, slot, due, at>>
      /\ pc # "increase" /\ pc' # "increase"
  BY DEF Sleep, End, Advance, wheels
<1>2. \A m \in Level : Here(m, index[m])' <=> Here(m, index[m])
  BY <1>1 DEF Here
<1>3. CASE Pending(t)
  <2>1. (left'[t] = left[t] /\ (Sleep \/ End)) \/ (Advance /\ Pending(t))
    BY <1>3 DEF Sleep, End, wheels
  <2>2. SlotNotEarly(t)'
    BY <1>1, <1>2, <2>1, StaysNotEarly DEF TimerNotEarly
  <2>3. left'[t] = left[t] \/ left'[t] = left[t] - 1
    BY <2>1 DEF Advance
  <2>4. left[t] \in Int /\ Unit[1] + Step \in Int
    BY LastLevel, UnitAssumption, TimeAssumption DEF Clocks
  <2>5. DueNotEarly(t)'
    BY <1>1, <2>3, <2>4 DEF TimerNotEarly, DueNotEarly
  <2>. QED  BY <2>2, <2>5 DEF TimerNotEarly
<1>4. CASE ~Pending(t)
  <2>1. slot'[t] = None /\ t \notin due'
    BY <1>1, <1>4 DEF Pending
  <2>. QED  BY <2>1, GoneNotEarly
<1>. QED  BY <1>3, <1>4

(* No step makes a timer early. *)
LEMMA NotEarlyStep ==
  ASSUME IInv, Pointing, Uniform, WithinTurn, Clocks, Notes, Rounds, Zeros, Small,
         NEW t \in Timer, TimerNotEarly(t), [Next]_vars
  PROVE  TimerNotEarly(t)'
<1>1. WheelsOK /\ WheelsOK' /\ Apart /\ Notes'
  BY WheelsStep, NotesStep DEF IInv
<1>2. CASE Increase
  <2>1. SlotNotEarly(t)'
    BY <1>1, <1>2, IncreaseNotEarly DEF TimerNotEarly
  <2>2. due' = {}
    BY <1>2 DEF Increase, Rounds
  <2>. QED  BY <2>1, <2>2 DEF TimerNotEarly, DueNotEarly
<1>3. CASE TakeOver
  <2>1. SlotNotEarly(t)'
    BY <1>1, <1>3, TakeOverNotEarly DEF TimerNotEarly
  <2>2. due' = {}
    BY <1>3 DEF TakeOver, Rounds
  <2>. QED  BY <2>1, <2>2 DEF TimerNotEarly, DueNotEarly
<1>4. CASE GetAndClearCurrentSlot
  BY <1>1, <1>4, ClearNotEarly DEF TimerNotEarly
<1>5. CASE Sleep \/ End \/ Advance
  BY <1>1, <1>5, ClockNotEarly
<1>6. PICK a, b, c : /\ a = Unit[1] /\ b = Scales[1] * a /\ c = (Scales[1] - 1) * a
                     /\ a \in Nat /\ b \in Nat /\ c = b - a
  <2>1. PICK s, u : s = Scales[1] /\ u = Unit[1] /\ s \in Nat /\ u \in Nat
    BY LastLevel, UnitAssumption
  <2>2. s * u \in Nat /\ (s - 1) * u = s * u - u
    BY <2>1, TimesNext, Product
  <2>. QED  BY <2>1, <2>2
<1>7. ASSUME NEW u \in Timer, RunTask(u)
      PROVE  TimerNotEarly(t)'
  <2>1. UNCHANGED <<index, pc, since, at>> /\ pc = "run" /\ due' = due \ {u} /\ u \in due
    BY <1>7 DEF RunTask
  <2>2. CASE t # u
    <3>1. left'[t] = left[t] /\ slot'[t] = slot[t]
      BY <1>1, <1>7, <2>2 DEF RunTask, Again, Forget, WheelsOK, Clocks
    <3>. QED  BY <1>1, <2>1, <3>1, ApartNotEarly
  <2>3. CASE t = u /\ u \notin cancel /\ every[u] > 0
    <3>1. PICK e : e = left[t] + every[t] /\ e \in Int
      BY DEF Clocks
    <3>2. slot'[t] = AddTimer(1, e) /\ left'[t] = e
      BY <1>1, <1>7, <2>3, <3>1 DEF RunTask, Again, WheelsOK, Clocks
    <3>3. e < Scales[1] * Unit[1] + Step
      <4>1. left[t] < a + Step /\ every[t] <= c
        BY <1>6, <2>1, <2>3 DEF TimerNotEarly, DueNotEarly, Small
      <4>2. left[t] \in Int /\ every[t] \in Int /\ Step \in Int
        BY TimeAssumption DEF Clocks
      <4>. QED  BY <1>6, <3>1, <4>1, <4>2
    <3>4. SlotNotEarly(t)'
      BY <1>1, <2>1, <3>1, <3>2, <3>3, PutNotEarly
    <3>. QED  BY <2>1, <2>3, <3>4 DEF TimerNotEarly, DueNotEarly
  <2>4. CASE t = u /\ ~(u \notin cancel /\ every[u] > 0)
    <3>1. slot'[t] = None /\ t \notin due'
      BY <1>1, <1>7, <2>1, <2>4 DEF RunTask, Forget, Apart
    <3>. QED  BY <3>1, GoneNotEarly
  <2>. QED  BY <2>2, <2>3, <2>4
<1>8. ASSUME NEW u \in Timer, NEW d \in Delay, NEW i \in Interval, CreateTimer(u, d, i)
      PROVE  TimerNotEarly(t)'
  <2>1. UNCHANGED <<index, pc, since, at, due>> /\ pc # "increase" /\ u \notin made
    BY <1>8 DEF CreateTimer, Unlocked
  <2>2. CASE t # u
    <3>1. left'[t] = left[t] /\ slot'[t] = slot[t]
      BY <1>1, <1>8, <2>2 DEF CreateTimer, WheelsOK, Clocks
    <3>. QED  BY <1>1, <2>1, <3>1, ApartNotEarly
  <2>3. CASE t = u
    <3>1. slot'[t] = AddTimer(1, d) /\ left'[t] = d /\ d \in Int
      BY <1>1, <1>8, <2>3, TimeAssumption DEF CreateTimer, WheelsOK, Clocks
    <3>2. d < Scales[1] * Unit[1] + Step
      BY <1>6, <3>1, TimeAssumption DEF WithinTurn
    <3>3. SlotNotEarly(t)'
      BY <1>1, <2>1, <3>1, <3>2, PutNotEarly
    <3>4. t \notin due'
      BY <1>1, <2>1, <2>3 DEF Apart
    <3>. QED  BY <3>3, <3>4 DEF TimerNotEarly, DueNotEarly
  <2>. QED  BY <2>2, <2>3
<1>9. CASE Stop \/ UNCHANGED vars \/ \E u \in Timer : CancelTimer(u)
  BY <1>1, <1>9, ApartNotEarly DEF Stop, CancelTimer, vars, wheels
<1>. QED
  BY <1>2, <1>3, <1>4, <1>5, <1>7, <1>8, <1>9 DEF Next, Run

(* The timers that are taken are those of the least wheel's slot. *)
LEMMA TakenInSlot ==
  ASSUME [Next]_vars, NEW t \in Timer, Taken(t)
  PROVE  GetAndClearCurrentSlot /\ t \in InSlot(NLevel)
<1>1. GetAndClearCurrentSlot
  BY DEF Taken, Next, Run, Increase, TakeOver, RunTask, Sleep, End,
         Advance, Stop, CancelTimer, CreateTimer, vars, wheels
<1>. QED  BY <1>1 DEF Taken, GetAndClearCurrentSlot

(* A timer set for no more than a turn of the greatest wheel, and set      *)
(* again for no more than a turn less a slot, is never taken two steps     *)
(* early but for the whole slots of a greater wheel, for any number of     *)
(* wheels whose units go with their scales, and however late the thread is. *)
THEOREM TimersNotEarly ==
  ASSUME Uniform, WithinTurn
  PROVE  Spec => NotEarly
<1>. DEFINE I == /\ IInv /\ Pointing /\ Clocks /\ Notes
                 /\ Rounds /\ Zeros /\ Small /\ \A t \in Timer : TimerNotEarly(t)
<1>. DEFINE A == \A t \in Timer : Taken(t) =>
                   \/ left[t] < 2 * Step
                   \/ \E m \in 1 .. NLevel - 1 : left[t] \in Unit[m] .. Unit[m] + Step - 1
<1>1. Init => I
  <2>. SUFFICES ASSUME Init PROVE I
    OBVIOUS
  <2>1. IInv /\ Pointing /\ Clocks /\ Notes /\ Rounds /\ Small
    BY InitIInv, InitTypes, InitInTime, SmallInit
  <2>2. Zeros
    BY DEF Init, Zeros
  <2>3. \A m \in Level : \A n \in 0 .. Scales[m] - 1 : <<m, n>> # None
    BY NoneAssumption, UnitAssumption
  <2>4. \A t \in Timer : TimerNotEarly(t)
    BY <2>3 DEF Init, TimerNotEarly, SlotNotEarly, DueNotEarly
  <2>. QED  BY <2>1, <2>2, <2>4
<1>2. I /\ [Next]_vars => I'
  <2>. SUFFICES ASSUME I, [Next]_vars PROVE I'
    OBVIOUS
  <2>1. WheelsOK
    BY DEF IInv
  <2>2. IInv' /\ Pointing' /\ Clocks' /\ Notes' /\ Rounds' /\ Zeros' /\ Small'
    BY <2>1, NextIInv, PointingStep, ClocksStep, NotesStep, RoundsStep, ZerosStep, SmallStep
  <2>3. \A t \in Timer : TimerNotEarly(t)'
    BY NotEarlyStep
  <2>. QED  BY <2>2, <2>3
<1>3. I /\ [Next]_vars => [A]_vars
  <2>. SUFFICES ASSUME I, [Next]_vars PROVE A
    OBVIOUS
  <2>1. WheelsOK
    BY DEF IInv
  <2>. QED  BY <2>1, TakenInSlot, TakenNotEarly DEF TimerNotEarly
<1>4. NotEarly <=> [][A]_vars
  BY DEF NotEarly
<1>. HIDE DEF I, A
<1>. QED  BY <1>1, <1>2, <1>3, <1>4, PTL DEF Spec
=============================================================================
