--------------------------- MODULE MachineProofs ----------------------------
(***************************************************************************)
(* Theorems about Machine, for any number of threads, requests, drives,    *)
(* discs and tasks.                                                        *)
(***************************************************************************)
EXTENDS Machine, FiniteSetTheorems, TLAPS

(***************************************************************************)
(* Types.  TypeOK is not inductive: the fields it leaves open (what a task *)
(* is for, the sets of m_storage, the jobs of the pool, the commands under *)
(* way) need types too; a thread that carries a disc or has its tray under *)
(* way must be at a real drive; and the answer to GMAP must carry a map.   *)
(***************************************************************************)
Job    == Known \cup {"update", "read", "idle"}
Label  == {"idle", "start", "answer", "return", "hide", "inventory", "place",
           "move", "close", "placed"}
Held   == Disc \cup {None}
Record == [job : Job, pc : Label, req : Request \cup {None},
           id : TaskId \cup {0}, drive : 0 .. (NDrive + 1), disc : Held]
JobType == [job : Known \cup {"update"}, req : Request \cup {None}]
Table  == [have : SUBSET Drive, busy : SUBSET Drive, media : [Drive -> Held],
           exist : SUBSET Held, picked : SUBSET Held, checked : SUBSET Held,
           blank : SUBSET Held, mailed : Held]
TaskType == [cmd : CommandType, sent : BOOLEAN, freed : BOOLEAN]
Filed  == {f \in Frames : f.code = "map" => f.map \in MapType}
Sayings == {"refused", "data", "success", "error", "timeout", "lost param"}

(* Where the drive of a thread is a drive, and not a loop's counter. *)
AtDrive == {"hide", "move", "close", "placed"}

ThreadTypes ==
  /\ th \in [Thread -> Record]
  /\ \A t \in Thread : th[t].pc \in AtDrive => th[t].drive \in Drive
  /\ lock \in Thread \cup {None}

(* An idle thread is well typed. *)
LEMMA IdleRecord == Idle \in Record /\ Idle.pc = "idle"
  BY NumbersAssumption DEF Idle, Record, Job, Label, Held

(* exist holds discs: None gets into it only by the undefined write of an  *)
(* import nothing was exported for, or of a HIDE of an empty drive.        *)
TableTypes ==
  /\ table \in Table
  /\ ~undef => table.exist \subseteq Disc
  /\ todo \in [Worker -> SUBSET Disc]

TaskTypes ==
  /\ queue \in Seq(TaskId) /\ next \in 0 .. MaxTask
  /\ task \in [TaskId -> TaskType]
  /\ DOMAIN results \subseteq TaskId /\ \A i \in DOMAIN results : results[i] \in Filed
  /\ pool \in Seq(JobType)

DeviceTypes ==
  /\ link \in {"off", "on", "auth"}
  /\ toDev \in Seq([id : TaskId, cmd : CommandType])
  /\ toSvr \in Seq(Filed)
  /\ at \in [Disc -> 0 .. Printer]

ClientTypes ==
  /\ reply \in [Request -> Seq(Sayings)]
  /\ phase \in {"INIT", "RUN", "INVENTORY", "RETURNDISC", "EXCEPTION"}
  /\ alarm \in BOOLEAN /\ undef \in BOOLEAN

Types == ThreadTypes /\ TableTypes /\ TaskTypes /\ DeviceTypes /\ ClientTypes

(* A thread that becomes a typed record keeps the threads typed. *)
LEMMA Becomes ==
  ASSUME ThreadTypes, NEW t \in Thread, NEW r \in Record,
         r.pc \in AtDrive => r.drive \in Drive,
         th' = [th EXCEPT ![t] = r], lock' \in Thread \cup {None}
  PROVE  ThreadTypes'
BY DEF ThreadTypes

(* A thread that queues a command waits, at its drive, with the new id. *)
LEMMA CallBecomes ==
  ASSUME TaskTypes, NEW rec \in Record, NEW t, NEW c, NEW p \in Label, Call(t, c, rec, p)
  PROVE  \E r \in Record : r.pc = p /\ r.drive = rec.drive /\ th' = [th EXCEPT ![t] = r]
<1>1. next + 1 \in TaskId
  BY NumbersAssumption DEF Call, TaskTypes, TaskId
<1>2. PICK r : r = [rec EXCEPT !.id = next + 1, !.pc = p]
  OBVIOUS
<1>. QED  BY <1>1, <1>2 DEF Record, Call, Become

(* A thread that queues a HIDE waits at that drive. *)
LEMMA HideBecomes ==
  ASSUME TaskTypes, ThreadTypes, TableTypes, NEW t \in Thread, NEW d \in Drive, Hide(t, d)
  PROVE  \E r \in Record : r.pc = "hide" /\ r.drive = d /\ th' = [th EXCEPT ![t] = r]
<1>1. th[t] \in Record /\ table.media[d] \in Held /\ d \in 0 .. (NDrive + 1)
  BY NumbersAssumption DEF ThreadTypes, TableTypes, Table, Drive
<1>2. PICK r : r = [th[t] EXCEPT !.drive = d, !.disc = table.media[d]]
  OBVIOUS
<1>3. r \in Record /\ r.drive = d
  BY <1>1, <1>2 DEF Record
<1>4. Call(t, Cmd("HIDE", d, None), r, "hide") /\ "hide" \in Label
  BY <1>2 DEF Hide, Label
<1>. QED  BY <1>3, <1>4, CallBecomes

(* After a HIDE a thread is idle or looks for its next drive, at most one  *)
(* behind the last.                                                        *)
LEMMA AfterHideTypes ==
  ASSUME ThreadTypes, NEW t \in Thread, th[t].pc \in AtDrive, NEW worked \in BOOLEAN
  PROVE  AfterHide(t, worked) \in Record /\ AfterHide(t, worked).pc \notin AtDrive
<1>1. PICK v : v = IF worked THEN th[t].drive + 1 ELSE NDrive + 1
  OBVIOUS
<1>2. v \in 0 .. (NDrive + 1) /\ th[t] \in Record
  BY <1>1, NumbersAssumption DEF ThreadTypes, Drive
<1>3. PICK r : r = [th[t] EXCEPT !.pc = "return", !.drive = v]
  OBVIOUS
<1>4. r \in Record /\ r.pc = "return"
  BY <1>2, <1>3 DEF Record, Label
<1>5. AfterHide(t, worked) \in {Idle, r}
  BY <1>1, <1>3 DEF AfterHide
<1>. QED  BY <1>4, <1>5, IdleRecord DEF AtDrive

(* The actions of the workers keep the threads typed. *)
LEMMA WorkThreads ==
  ASSUME Types, NEW w \in Worker, Work(w)
  PROVE  ThreadTypes'
<1>1. /\ w \in Thread /\ th[w] \in Record /\ lock \in Thread \cup {None}
      /\ Idle \in Record /\ Idle.pc \notin AtDrive
      /\ ThreadTypes /\ TableTypes /\ TaskTypes
  BY IdleRecord DEF Thread, Types, ThreadTypes, AtDrive
<1>2. CASE Take(w)
  <2>1. PICK j \in JobType : j = Head(pool)
    BY <1>1, <1>2 DEF Take, TaskTypes
  <2>2. j.job \in Job /\ j.req \in Request \cup {None}
    BY <2>1 DEF JobType, Job
  <2>3. PICK r : r = [Idle EXCEPT !.job = j.job, !.req = j.req, !.pc = "start"]
    OBVIOUS
  <2>4. r \in Record /\ r.pc = "start"
    BY <1>1, <2>2, <2>3 DEF Record, Label
  <2>5. th' = [th EXCEPT ![w] = r] /\ lock' = lock
    BY <1>2, <2>1, <2>3 DEF Take, Become
  <2>. QED  BY <1>1, <2>4, <2>5, Becomes DEF AtDrive
<1>3. CASE \/ QueryStation(w) \/ LostParam(w) \/ FinishCall(w) \/ FinishReturn(w)
           \/ FinishInventory(w) \/ RefuseMove(w) \/ FinishMove(w)
  <2>1. th' = [th EXCEPT ![w] = Idle] /\ lock' = lock
    BY <1>3 DEF QueryStation, LostParam, FinishCall, FinishReturn, FinishInventory,
                RefuseMove, FinishMove, Become
  <2>. QED  BY <1>1, <2>1, Becomes
<1>4. CASE StartCall(w)
  <2>1. PICK d \in Held : Call(w, Command(th[w].job, d), [th[w] EXCEPT !.disc = d], "answer")
    BY <1>4 DEF StartCall, Held
  <2>2. [th[w] EXCEPT !.disc = d] \in Record
    BY <1>1 DEF Record
  <2>3. PICK r \in Record : r.pc = "answer" /\ th' = [th EXCEPT ![w] = r]
    BY <1>1, <2>1, <2>2, CallBecomes DEF Label
  <2>4. lock' = lock
    BY <1>4 DEF StartCall
  <2>. QED  BY <1>1, <2>3, <2>4, Becomes DEF AtDrive
<1>5. CASE FinishUpdate(w) \/ StartReturn(w)
  <2>1. PICK r : r = [th[w] EXCEPT !.pc = "return", !.drive = 1]
    OBVIOUS
  <2>2. 1 \in 0 .. (NDrive + 1)
    BY NumbersAssumption
  <2>3. r \in Record /\ r.pc = "return"
    BY <1>1, <2>1, <2>2 DEF Record, Label
  <2>4. lock' = lock /\ (th' = [th EXCEPT ![w] = r] \/ th' = [th EXCEPT ![w] = Idle])
    BY <1>5, <2>1 DEF FinishUpdate, StartReturn, Become
  <2>. QED  BY <1>1, <2>3, <2>4, Becomes DEF AtDrive
<1>6. CASE ReturnNext(w)
  <2>1. PICK d \in Drive : Hide(w, d)
    BY <1>1, <1>6 DEF ReturnNext, TableTypes, Table
  <2>2. PICK r \in Record : r.pc = "hide" /\ r.drive = d /\ th' = [th EXCEPT ![w] = r]
    BY <1>1, <2>1, HideBecomes
  <2>3. lock' = lock
    BY <1>6 DEF ReturnNext
  <2>. QED  BY <1>1, <2>2, <2>3, Becomes
<1>7. CASE StartInventory(w)
  <2>1. PICK r : r = [th[w] EXCEPT !.pc = "inventory"]
    OBVIOUS
  <2>2. r \in Record /\ r.pc = "inventory"
    BY <1>1, <2>1 DEF Record, Label
  <2>3. th' = [th EXCEPT ![w] = r] /\ lock' = lock
    BY <1>7, <2>1 DEF StartInventory, Become
  <2>. QED  BY <1>1, <2>2, <2>3, Becomes DEF AtDrive
<1>8. CASE ReserveDisc(w)
  <2>1. PICK d \in Held : Become(w, [th[w] EXCEPT !.pc = "place", !.disc = d])
    BY <1>1, <1>8 DEF ReserveDisc, TableTypes, Table
  <2>2. PICK r : r = [th[w] EXCEPT !.pc = "place", !.disc = d]
    OBVIOUS
  <2>3. r \in Record /\ r.pc = "place"
    BY <1>1, <2>2 DEF Record, Label
  <2>4. th' = [th EXCEPT ![w] = r] /\ lock' = lock
    BY <1>8, <2>1, <2>2 DEF ReserveDisc, Become
  <2>. QED  BY <1>1, <2>3, <2>4, Becomes DEF AtDrive
<1>9. ASSUME NEW k \in Reader, TakeDisc(w, k)
      PROVE  ThreadTypes'
  <2>1. PICK d \in Held : Become(<<w, k>>, [Idle EXCEPT !.job = "read", !.pc = "place",
                                                       !.disc = d])
    BY <1>1, <1>9 DEF TakeDisc, TableTypes, Held
  <2>2. PICK r : r = [Idle EXCEPT !.job = "read", !.pc = "place", !.disc = d]
    OBVIOUS
  <2>3. r \in Record /\ r.pc = "place"
    BY <1>1, <2>2 DEF Record, Label, Job
  <2>4. th' = [th EXCEPT ![<<w, k>>] = r] /\ lock' = lock /\ <<w, k>> \in Thread
    BY <1>9, <2>1, <2>2 DEF TakeDisc, Become, Thread, Helper
  <2>. QED  BY <1>1, <2>3, <2>4, Becomes DEF AtDrive
<1>. QED
  BY <1>2, <1>3, <1>4, <1>5, <1>6, <1>7, <1>8, <1>9 DEF Work

(* The steps around the drives keep the threads typed. *)
LEMMA StepThreads ==
  ASSUME Types, NEW t \in Thread, Step(t) \/ HideLost(t) \/ PlaceLost(t)
  PROVE  ThreadTypes'
<1>1. /\ th[t] \in Record /\ lock \in Thread \cup {None}
      /\ Idle \in Record /\ Idle.pc \notin AtDrive
      /\ ThreadTypes /\ TableTypes /\ TaskTypes
      /\ th[t].pc \in AtDrive => th[t].drive \in Drive
  BY IdleRecord DEF Types, ThreadTypes, AtDrive
<1>2. CASE HideDone(t) \/ HideLost(t)
  <2>1. PICK worked \in BOOLEAN : th' = [th EXCEPT ![t] = AfterHide(t, worked)]
    BY <1>2 DEF HideDone, HideLost, Become
  <2>2. th[t].pc \in AtDrive /\ lock' = lock
    BY <1>2 DEF HideDone, HideLost, Answered, GivesUp, AtDrive
  <2>3. AfterHide(t, worked) \in Record /\ AfterHide(t, worked).pc \notin AtDrive
    BY <1>1, <2>2, AfterHideTypes
  <2>. QED  BY <1>1, <2>1, <2>2, <2>3, Becomes
<1>3. CASE Place(t)
  <2>1. PICK d \in Drive : Call(t, Cmd("CMOV", d, th[t].disc), [th[t] EXCEPT !.drive = d], "move")
    BY <1>3 DEF Place, FreeDrive
  <2>2. d \in 0 .. (NDrive + 1)
    BY NumbersAssumption DEF Drive
  <2>3. PICK r : r = [th[t] EXCEPT !.drive = d]
    OBVIOUS
  <2>4. r \in Record /\ r.drive = d
    BY <1>1, <2>2, <2>3 DEF Record
  <2>7. Call(t, Cmd("CMOV", d, th[t].disc), r, "move") /\ "move" \in Label
    BY <2>1, <2>3 DEF Label
  <2>5. PICK s \in Record : s.pc = "move" /\ s.drive = d /\ th' = [th EXCEPT ![t] = s]
    BY <1>1, <2>4, <2>7, CallBecomes
  <2>6. lock' = t
    BY <1>3 DEF Place
  <2>. QED  BY <1>1, <2>5, <2>6, Becomes
<1>4. CASE MoveDone(t)
  <2>1. Call(t, Cmd("CDIN", th[t].drive, None), th[t], "close") /\ lock' = lock
        /\ th[t].pc = "move"
    BY <1>4 DEF MoveDone, Answered
  <2>2. PICK r \in Record : r.pc = "close" /\ r.drive = th[t].drive /\ th' = [th EXCEPT ![t] = r]
    BY <1>1, <2>1, CallBecomes DEF Label
  <2>. QED  BY <1>1, <2>1, <2>2, Becomes DEF AtDrive
<1>5. CASE MoveShut(t) \/ MoveFailed(t) \/ CloseDone(t) \/ PlaceLost(t)
  <2>1. PICK r : r = [th[t] EXCEPT !.pc = "placed"]
    OBVIOUS
  <2>2. r \in Record /\ r.pc = "placed" /\ r.drive = th[t].drive
    BY <1>1, <2>1 DEF Record, Label
  <2>3. /\ lock' = None /\ th[t].pc \in {"move", "close"}
        /\ th' = [th EXCEPT ![t] = r] \/ th' = [th EXCEPT ![t] = Idle]
    BY <1>5, <2>1 DEF MoveShut, MoveFailed, CloseDone, PlaceLost, Answered, GivesUp, Become
  <2>. QED  BY <1>1, <2>2, <2>3, Becomes DEF AtDrive
<1>6. CASE ReadDone(t)
  <2>1. Hide(t, th[t].drive) /\ lock' = lock /\ th[t].drive \in Drive
    BY <1>1, <1>6 DEF ReadDone, AtDrive
  <2>2. PICK r \in Record : r.pc = "hide" /\ r.drive = th[t].drive /\ th' = [th EXCEPT ![t] = r]
    BY <1>1, <2>1, HideBecomes
  <2>. QED  BY <1>1, <2>1, <2>2, Becomes
<1>. QED
  BY <1>2, <1>3, <1>4, <1>5, <1>6 DEF Step

(* What the jobs write into m_storage is typed. *)
LEMMA TableOps ==
  ASSUME table \in Table
  PROVE  /\ \A d \in Held : Exported(d) \in Table /\ Exported(d).exist \subseteq table.exist
         /\ Imported \in Table /\ Imported.exist = table.exist \cup {table.mailed}
         /\ ImportedTray \in Table /\ ImportedTray.exist \subseteq table.exist
         /\ \A m \in MapType : Updated(m) \in Table /\ Updated(m).exist \subseteq Disc
         /\ \A r \in Drive : Emptied(r) \in Table /\ Emptied(r).exist = table.exist
BY DEF Table, Exported, Imported, ImportedTray, Updated, Emptied, MapType, Held

(* An import adds the exported disc to exist; without one this is the      *)
(* undefined write.                                                        *)
LEMMA FinishCallTable ==
  ASSUME TableTypes, ThreadTypes, ~undef, NEW w \in Worker, FinishCall(w)
  PROVE  TableTypes'
<1>1. /\ table \in Table /\ table.exist \subseteq Disc /\ todo' = todo
      /\ todo \in [Worker -> SUBSET Disc] /\ th[w].disc \in Held /\ table.mailed \in Held
  BY DEF TableTypes, ThreadTypes, Record, Thread, FinishCall, Table
<1>2. \/ table' = table
      \/ table' = Exported(th[w].disc)
      \/ table' \in {Imported, ImportedTray} /\ (undef' = (table.mailed = None))
  BY DEF FinishCall
<1>3. CASE table' = table
  BY <1>1, <1>3 DEF TableTypes
<1>4. CASE table' = Exported(th[w].disc)
  BY <1>1, <1>4, TableOps DEF TableTypes
<1>5. CASE table' \in {Imported, ImportedTray} /\ (undef' = (table.mailed = None))
  BY <1>1, <1>5, TableOps DEF TableTypes, Held
<1>. QED  BY <1>2, <1>3, <1>4, <1>5

(* The actions of the workers keep m_storage typed. *)
LEMMA WorkTable ==
  ASSUME Types, ~undef, NEW w \in Worker, Work(w)
  PROVE  TableTypes'
<1>1. /\ table \in Table /\ table.exist \subseteq Disc
      /\ todo \in [Worker -> SUBSET Disc] /\ TableTypes /\ TaskTypes /\ ThreadTypes
  BY DEF Types, TableTypes
<1>2. CASE UNCHANGED <<table, todo>>
  BY <1>1, <1>2 DEF TableTypes
<1>3. CASE FinishCall(w)
  BY <1>1, <1>3, FinishCallTable
<1>4. CASE FinishUpdate(w)
  <2>1. \/ table' = table
        \/ Answer(w).code = "map" /\ table' = Updated(Answer(w).map)
    BY <1>4 DEF FinishUpdate
  <2>2. Answer(w) \in Filed /\ todo' = todo
    BY <1>1, <1>4 DEF FinishUpdate, Answered, Answer, TaskTypes
  <2>3. Answer(w).code = "map" => Answer(w).map \in MapType
    BY <2>2 DEF Filed
  <2>. QED  BY <1>1, <2>1, <2>2, <2>3, TableOps DEF TableTypes
<1>5. CASE StartInventory(w)
  <2>1. Unread \subseteq Disc
    BY <1>1 DEF Unread
  <2>. QED  BY <1>1, <1>5, <2>1 DEF StartInventory, TableTypes
<1>6. ASSUME NEW k \in Reader, TakeDisc(w, k)
      PROVE  TableTypes'
  <2>1. PICK d \in Disc : /\ todo' = [todo EXCEPT ![w] = @ \ {d}]
                          /\ table' = [table EXCEPT !.picked = @ \cup {d}]
    BY <1>1, <1>6 DEF TakeDisc
  <2>. QED  BY <1>1, <2>1 DEF TableTypes, Table, Held
<1>7. CASE ReserveDisc(w)
  <2>1. PICK d : table' = [table EXCEPT !.blank = @ \ {d}]
    BY <1>7 DEF ReserveDisc
  <2>2. todo' = todo
    BY <1>7 DEF ReserveDisc
  <2>. QED  BY <1>1, <2>1, <2>2 DEF TableTypes, Table
<1>. QED
  BY <1>2, <1>3, <1>4, <1>5, <1>6, <1>7
     DEF Work, Take, QueryStation, StartCall, LostParam, StartReturn, ReturnNext,
         FinishReturn, FinishInventory, RefuseMove, FinishMove

(* The steps around the drives keep m_storage typed. *)
LEMMA StepTable ==
  ASSUME Types, ~undef, NEW t \in Thread, Step(t) \/ HideLost(t) \/ PlaceLost(t)
  PROVE  TableTypes'
<1>1. /\ table \in Table /\ table.exist \subseteq Disc
      /\ todo \in [Worker -> SUBSET Disc] /\ TableTypes
      /\ th[t] \in Record /\ (th[t].pc \in AtDrive => th[t].drive \in Drive)
  BY DEF Types, TableTypes, ThreadTypes
<1>2. CASE UNCHANGED <<table, todo>>
  BY <1>1, <1>2 DEF TableTypes
<1>3. CASE HideDone(t)
  <2>1. th[t].drive \in Drive /\ th[t].disc \in Held /\ todo' = todo
    BY <1>1, <1>3 DEF HideDone, Answered, AtDrive, Record
  <2>2. \/ table' = table
        \/ table' = Emptied(th[t].drive)
        \/ /\ table' = [Emptied(th[t].drive) EXCEPT !.exist = @ \cup {th[t].disc}]
           /\ undef' = (Answer(t).code = "ok" /\ th[t].disc = None) /\ Answer(t).code = "ok"
    BY <1>3 DEF HideDone
  <2>3. PICK e \in Table : e = Emptied(th[t].drive) /\ e.exist = table.exist
    BY <1>1, <2>1, TableOps
  <2>4. CASE table' = table
    BY <1>2, <2>1, <2>4
  <2>5. CASE table' = e
    BY <1>1, <2>1, <2>3, <2>5 DEF TableTypes
  <2>6. CASE /\ table' = [e EXCEPT !.exist = @ \cup {th[t].disc}]
             /\ ~undef' => th[t].disc # None
    BY <1>1, <2>1, <2>3, <2>6 DEF TableTypes, Table, Held
  <2>. QED  BY <2>2, <2>3, <2>4, <2>5, <2>6
<1>4. CASE MoveDone(t) \/ MoveShut(t)
  <2>1. th[t].drive \in Drive /\ th[t].disc \in Held /\ todo' = todo
    BY <1>1, <1>4 DEF MoveDone, MoveShut, Answered, AtDrive, Record
  <2>2. table' = [table EXCEPT !.have = @ \cup {th[t].drive},
                               !.busy = @ \cup {th[t].drive},
                               !.media[th[t].drive] = th[t].disc]
    BY <1>4 DEF MoveDone, MoveShut, Filled
  <2>. QED  BY <1>1, <2>1, <2>2 DEF TableTypes, Table
<1>. QED
  BY <1>2, <1>3, <1>4
     DEF Step, HideLost, PlaceLost, Place, MoveFailed, CloseDone, ReadDone

(* A new task gets the next id. *)
LEMMA CallTasks ==
  ASSUME TaskTypes, NEW t, NEW c \in CommandType, NEW rec, NEW p, Call(t, c, rec, p)
  PROVE  /\ queue' \in Seq(TaskId) /\ next' \in 0 .. MaxTask
         /\ task' \in [TaskId -> TaskType]
<1>1. next + 1 \in TaskId /\ next + 1 \in 0 .. MaxTask
  BY NumbersAssumption DEF Call, TaskTypes, TaskId
<1>2. [cmd |-> c, sent |-> FALSE, freed |-> FALSE] \in TaskType
  BY DEF TaskType
<1>. QED  BY <1>1, <1>2 DEF Call, TaskTypes

(* The commands of the one-command jobs are typed. *)
LEMMA CommandIsTyped ==
  ASSUME NEW job \in OneCall, NEW d \in IF job \in NamesDisc THEN Disc ELSE {None}
  PROVE  Command(job, d) \in CommandType
<1>1. d \in Disc \cup {None}
  OBVIOUS
<1>. QED  BY <1>1, NumbersAssumption DEF Command, Cmd, CommandType, OneCall, NamesDisc, Op

(* wait_for only takes an answer away. *)
LEMMA Consumed ==
  ASSUME TaskTypes, NEW t, Consume(t)
  PROVE  DOMAIN results' \subseteq TaskId /\ \A i \in DOMAIN results' : results'[i] \in Filed
BY DEF TaskTypes, Consume

(* The actions of the workers keep the queue and the answers typed. *)
LEMMA WorkTasks ==
  ASSUME Types, NEW w \in Worker, Work(w)
  PROVE  TaskTypes'
<1>1. TaskTypes /\ TableTypes /\ w \in Thread
  BY DEF Types, Thread
<1>2. CASE UNCHANGED <<queue, task, next, results, pool>>
  BY <1>1, <1>2 DEF TaskTypes
<1>3. CASE Take(w)
  <2>1. pool' = Tail(pool) /\ pool # <<>> /\ UNCHANGED <<queue, task, next, results>>
    BY <1>3 DEF Take
  <2>. QED  BY <1>1, <2>1 DEF TaskTypes
<1>4. CASE StartCall(w)
  <2>1. PICK d \in IF th[w].job \in NamesDisc THEN Disc ELSE {None} :
          Call(w, Command(th[w].job, d), [th[w] EXCEPT !.disc = d], "answer")
    BY <1>4 DEF StartCall
  <2>2. th[w].job \in OneCall /\ UNCHANGED <<results, pool>>
    BY <1>4 DEF StartCall
  <2>3. Command(th[w].job, d) \in CommandType
    BY <2>1, <2>2, CommandIsTyped
  <2>. QED  BY <1>1, <2>1, <2>2, <2>3, CallTasks DEF TaskTypes
<1>5. CASE ReturnNext(w)
  <2>1. PICK r \in Drive : Hide(w, r)
    BY <1>1, <1>5 DEF ReturnNext, TableTypes, Table
  <2>2. Cmd("HIDE", r, None) \in CommandType /\ UNCHANGED <<results, pool>>
    BY <1>5 DEF ReturnNext, Cmd, CommandType, Op
  <2>. QED  BY <1>1, <2>1, <2>2, CallTasks DEF TaskTypes, Hide
<1>6. CASE FinishCall(w) \/ FinishUpdate(w)
  <2>1. Consume(w) /\ UNCHANGED <<queue, task, next, pool>>
    BY <1>6 DEF FinishCall, FinishUpdate
  <2>. QED  BY <1>1, <2>1, Consumed DEF TaskTypes
<1>. QED
  BY <1>2, <1>3, <1>4, <1>5, <1>6
     DEF Work, QueryStation, LostParam, StartReturn, FinishReturn, StartInventory,
         FinishInventory, RefuseMove, ReserveDisc, FinishMove, TakeDisc

(* Deleting a task keeps the tasks typed. *)
LEMMA FreedTasks ==
  ASSUME TaskTypes, NEW t, NEW p, NEW del \in BOOLEAN, GivesUp(t, p, del)
  PROVE  task' \in [TaskId -> TaskType]
BY DEF TaskTypes, GivesUp, TaskType

(* The steps around the drives keep the queue and the answers typed. *)
LEMMA StepTasks ==
  ASSUME Types, NEW t \in Thread, Step(t) \/ HideLost(t) \/ PlaceLost(t)
  PROVE  TaskTypes'
<1>1. TaskTypes /\ th[t] \in Record /\ (th[t].pc \in AtDrive => th[t].drive \in Drive)
  BY DEF Types, ThreadTypes
<1>2. CASE HideDone(t) \/ MoveShut(t) \/ MoveFailed(t) \/ CloseDone(t)
  <2>1. Consume(t) /\ UNCHANGED <<queue, task, next, pool>>
    BY <1>2 DEF HideDone, MoveShut, MoveFailed, CloseDone
  <2>. QED  BY <1>1, <2>1, Consumed DEF TaskTypes
<1>3. CASE HideLost(t) \/ PlaceLost(t)
  <2>1. PICK p : GivesUp(t, p, TRUE)
    BY <1>3 DEF HideLost, PlaceLost
  <2>2. UNCHANGED <<queue, next, results, pool>>
    BY <1>3 DEF HideLost, PlaceLost
  <2>. QED  BY <1>1, <2>1, <2>2, FreedTasks DEF TaskTypes
<1>4. CASE Place(t)
  <2>1. PICK d \in Drive : Call(t, Cmd("CMOV", d, th[t].disc), [th[t] EXCEPT !.drive = d], "move")
    BY <1>4 DEF Place, FreeDrive
  <2>2. Cmd("CMOV", d, th[t].disc) \in CommandType /\ UNCHANGED <<results, pool>>
    BY <1>1, <1>4 DEF Place, Cmd, CommandType, Op, Record, Held
  <2>. QED  BY <1>1, <2>1, <2>2, CallTasks DEF TaskTypes
<1>5. CASE MoveDone(t)
  <2>1. /\ Call(t, Cmd("CDIN", th[t].drive, None), th[t], "close") /\ Consume(t)
        /\ pool' = pool /\ th[t].pc = "move"
    BY <1>5 DEF MoveDone, Answered
  <2>2. Cmd("CDIN", th[t].drive, None) \in CommandType
    BY <1>1, <2>1 DEF Cmd, CommandType, Op, AtDrive
  <2>. QED  BY <1>1, <2>1, <2>2, CallTasks, Consumed DEF TaskTypes
<1>6. CASE ReadDone(t)
  <2>1. /\ Call(t, Cmd("HIDE", th[t].drive, None),
                [th[t] EXCEPT !.drive = th[t].drive, !.disc = table.media[th[t].drive]], "hide")
        /\ UNCHANGED <<results, pool>> /\ th[t].pc = "placed"
    BY <1>6 DEF ReadDone, Hide
  <2>2. Cmd("HIDE", th[t].drive, None) \in CommandType
    BY <1>1, <2>1 DEF Cmd, CommandType, Op, AtDrive
  <2>. QED  BY <1>1, <2>1, <2>2, CallTasks DEF TaskTypes
<1>. QED
  BY <1>2, <1>3, <1>4, <1>5, <1>6 DEF Step

(* A reply is one of the sayings. *)
LEMMA SaysTyped ==
  ASSUME ClientTypes, NEW r, NEW what \in Sayings
  PROVE  Say(r, what) \in [Request -> Seq(Sayings)]
<1>1. CASE r \in Request
  <2>1. Append(reply[r], what) \in Seq(Sayings)
    BY <1>1 DEF ClientTypes
  <2>. QED  BY <1>1, <2>1 DEF ClientTypes, Say
<1>2. CASE r \notin Request
  BY <1>2 DEF ClientTypes, Say
<1>. QED  BY <1>1, <1>2

(* The workers reply with sayings and leave the wire alone. *)
LEMMA WorkClient ==
  ASSUME Types, NEW w \in Worker, Work(w)
  PROVE  ClientTypes' /\ DeviceTypes'
<1>1. ClientTypes /\ DeviceTypes
  BY DEF Types
<1>2. DeviceTypes' /\ alarm' = alarm
  BY <1>1 DEF Work, Take, QueryStation, StartCall, LostParam, FinishCall, FinishUpdate,
       StartReturn, ReturnNext, FinishReturn, StartInventory, FinishInventory, RefuseMove,
       ReserveDisc, FinishMove, TakeDisc, device, DeviceTypes
<1>3. reply' = reply \/ \E what \in Sayings : reply' = Say(th[w].req, what)
  BY DEF Work, Take, QueryStation, StartCall, LostParam, FinishCall, FinishUpdate,
       StartReturn, ReturnNext, FinishReturn, StartInventory, FinishInventory, RefuseMove,
       ReserveDisc, FinishMove, TakeDisc, client, Says, Sayings
<1>4. phase' \in {phase, "RUN"}
  BY DEF Work, Take, QueryStation, StartCall, LostParam, FinishCall, FinishUpdate,
       StartReturn, ReturnNext, FinishReturn, StartInventory, FinishInventory, RefuseMove,
       ReserveDisc, FinishMove, TakeDisc
<1>5. undef' \in BOOLEAN
  <2>1. CASE FinishCall(w)
    BY <1>1, <2>1 DEF FinishCall, ClientTypes
  <2>2. CASE undef' = undef
    BY <1>1, <2>2 DEF ClientTypes
  <2>. QED
    BY <2>1, <2>2 DEF Work, Take, QueryStation, StartCall, LostParam, FinishUpdate,
       StartReturn, ReturnNext, FinishReturn, StartInventory, FinishInventory, RefuseMove,
       ReserveDisc, FinishMove, TakeDisc
<1>. QED  BY <1>1, <1>2, <1>3, <1>4, <1>5, SaysTyped DEF ClientTypes

(* The steps around the drives reply nothing. *)
LEMMA StepClient ==
  ASSUME Types, NEW t \in Thread, Step(t) \/ HideLost(t) \/ PlaceLost(t)
  PROVE  ClientTypes' /\ DeviceTypes'
<1>1. ClientTypes /\ DeviceTypes
  BY DEF Types
<1>2. UNCHANGED <<link, toDev, toSvr, at, reply, phase, alarm>>
  BY DEF Step, HideDone, Place, MoveDone, MoveShut, MoveFailed, CloseDone, ReadDone,
         HideLost, PlaceLost, device, client
<1>3. undef' \in BOOLEAN
  <2>1. CASE HideDone(t)
    BY <2>1 DEF HideDone
  <2>2. CASE undef' = undef
    BY <1>1, <2>2 DEF ClientTypes
  <2>. QED
    BY <2>1, <2>2 DEF Step, Place, MoveDone, MoveShut, MoveFailed, CloseDone, ReadDone,
         HideLost, PlaceLost
<1>. QED  BY <1>1, <1>2, <1>3 DEF ClientTypes, DeviceTypes

(* A one-command job that gives up. *)
LEMMA LoseTypes ==
  ASSUME Types, ~undef, NEW w \in Worker, LoseCall(w)
  PROVE  Types'
<1>1. /\ ThreadTypes /\ TableTypes /\ TaskTypes /\ DeviceTypes /\ ClientTypes
      /\ w \in Thread /\ table.exist \subseteq Disc
  BY DEF Types, Thread, TableTypes
<1>2. PICK del \in BOOLEAN : GivesUp(w, "answer", del)
  BY DEF LoseCall
<1>3. TaskTypes'
  <2>1. UNCHANGED <<queue, next, results, pool>>
    BY DEF LoseCall
  <2>. QED  BY <1>1, <1>2, <2>1, FreedTasks DEF TaskTypes
<1>4. ThreadTypes'
  <2>1. th' = [th EXCEPT ![w] = Idle] /\ lock' = lock /\ lock \in Thread \cup {None}
    BY <1>1 DEF LoseCall, Become, ThreadTypes
  <2>. QED  BY <1>1, <2>1, Becomes, IdleRecord DEF AtDrive
<1>5. TableTypes' /\ DeviceTypes'
  BY <1>1 DEF LoseCall, TableTypes, DeviceTypes
<1>6. ClientTypes'
  <2>1. /\ undef' = (th[w].job \in {"mailbox in", "mailbox out", "mailbox import disc"})
        /\ UNCHANGED <<phase, alarm>>
        /\ reply' = reply \/ reply' = Say(th[w].req, "timeout")
    BY DEF LoseCall
  <2>2. undef' \in BOOLEAN
    <3>1. PICK S : S = {"mailbox in", "mailbox out", "mailbox import disc"}
      OBVIOUS
    <3>2. undef' = (th[w].job \in S)
      BY <2>1, <3>1
    <3>. QED  BY <3>2
  <2>. QED  BY <1>1, <2>1, <2>2, SaysTyped DEF ClientTypes, Sayings
<1>. QED  BY <1>3, <1>4, <1>5, <1>6 DEF Types

(* A request that arrives. *)
LEMMA AskTypes ==
  ASSUME Types, NEW r \in Request, NEW c \in Asked, Ask(r, c)
  PROVE  Types'
<1>1. UNCHANGED <<queue, task, next, results, th, lock, table, todo, link, toDev, toSvr,
                  at, alarm, undef>>
  BY DEF Ask, device
<1>2. pool' \in Seq(JobType)
  <2>1. CASE c \in Known
    <3>1. PICK j \in JobType : j = [job |-> c, req |-> r]
      BY <2>1 DEF JobType
    <3>2. pool' \in {pool, Append(pool, j)}
      BY <3>1 DEF Ask
    <3>. QED  BY <3>2 DEF Types, TaskTypes
  <2>2. CASE c \notin Known
    <3>1. pool' = pool
      BY <2>2 DEF Ask
    <3>. QED  BY <3>1 DEF Types, TaskTypes
  <2>. QED  BY <2>1, <2>2
<1>3. reply' = reply \/ reply' = Say(r, "refused")
  BY DEF Ask
<1>4. phase' \in {phase, "INVENTORY", "RETURNDISC"}
  BY DEF Ask
<1>5. ClientTypes'
  BY <1>1, <1>3, <1>4, SaysTyped DEF Types, ClientTypes, Sayings
<1>. QED
  BY <1>1, <1>2, <1>5 DEF Types, ThreadTypes, TableTypes, TaskTypes, DeviceTypes

(* MachineLoop receives: only the front of the queue gets an answer. *)
LEMMA ReceiveTypes ==
  ASSUME Types, ~undef, NEW n \in 1 .. Len(toSvr), Receive(n)
  PROVE  Types'
<1> DEFINE first == toSvr[1]
           a == IF n > 1 /\ first.code = "map"
                THEN [first EXCEPT !.code = "other"] ELSE first
<1>1. UNCHANGED <<task, next, th, lock, table, todo, reply, link, toDev, at>>
  BY DEF Receive, client
<1>2. toSvr \in Seq(Filed) /\ first \in Filed
  BY DEF Types, DeviceTypes
<1>3. toSvr' \in Seq(Filed)
  <2>1. toSvr' = SubSeq(toSvr, n + 1, Len(toSvr))
    BY DEF Receive
  <2>. QED  BY <1>2, <2>1
<1>4. a \in Filed
  BY <1>2 DEF Filed, Frames
<1>5. pool' \in Seq(JobType)
  <2>1. PICK j : j = [job |-> "update", req |-> None]
    OBVIOUS
  <2>2. j \in JobType
    BY <2>1 DEF JobType
  <2>3. pool' = pool \/ pool' = Append(pool, j)
    BY <2>1 DEF Receive
  <2>4. pool \in Seq(JobType)
    BY DEF Types, TaskTypes
  <2>. QED  BY <2>2, <2>3, <2>4
<1>6. UNCHANGED <<queue, results, undef>> \/ (queue # <<>> /\ Process(a))
  BY DEF Receive, Process
<1> HIDE DEF a
<1>7. TaskTypes' /\ undef' \in BOOLEAN
  <2>1. CASE UNCHANGED <<queue, results, undef>>
    BY <1>1, <1>5, <2>1 DEF Types, TaskTypes, ClientTypes
  <2>2. CASE queue # <<>> /\ Process(a)
    <3>0. queue \in Seq(TaskId) /\ queue # <<>>
      BY <2>2 DEF Types, TaskTypes
    <3>1. queue' = Tail(queue) /\ Head(queue) \in TaskId /\ queue' \in Seq(TaskId)
      BY <2>2, <3>0 DEF Process
    <3>2. /\ results' = [i \in DOMAIN results \cup {Head(queue)} |->
                           IF i = Head(queue) THEN a ELSE results[i]]
          /\ undef' = task[Head(queue)].freed
      BY <2>2 DEF Process
    <3>3. undef' \in BOOLEAN
      BY <3>1, <3>2 DEF Types, TaskTypes, TaskType
    <3>. QED  BY <1>1, <1>4, <1>5, <3>1, <3>2, <3>3 DEF Types, TaskTypes
  <2>. QED  BY <1>6, <2>1, <2>2
<1>8. phase' \in {phase, "EXCEPTION", "INVENTORY"} /\ alarm' \in {alarm, TRUE, FALSE}
  BY DEF Receive
<1>9. TableTypes' /\ ThreadTypes'
  BY <1>1 DEF Types, TableTypes, ThreadTypes
<1>. QED
  BY <1>1, <1>3, <1>7, <1>8, <1>9 DEF Types, DeviceTypes, ClientTypes

(* MachineLoop sends the front of the queue. *)
LEMMA SendTypes ==
  ASSUME Types, ~undef, Send
  PROVE  Types'
<1>1. PICK f \in TaskId : f = Head(queue) /\ task[f] \in TaskType
  BY DEF Send, Types, TaskTypes
<1>2. UNCHANGED <<phase, queue, next, results, pool, th, lock, table, todo, reply, link,
                  toSvr, at, alarm>>
  BY DEF Send, client
<1>3. undef' \in BOOLEAN
  BY DEF Send, Types, ClientTypes
<1>4. task' \in [TaskId -> TaskType] /\ toDev' \in Seq([id : TaskId, cmd : CommandType])
  <2>1. CASE UNCHANGED <<task, toDev>>
    BY <2>1 DEF Types, TaskTypes, DeviceTypes
  <2>2. CASE /\ task' = [task EXCEPT ![f].sent = TRUE]
             /\ toDev' = Append(toDev, [id |-> f, cmd |-> task[f].cmd])
    <3>1. [id |-> f, cmd |-> task[f].cmd] \in [id : TaskId, cmd : CommandType]
      BY <1>1 DEF TaskType
    <3>2. [task[f] EXCEPT !.sent = TRUE] \in TaskType
      BY <1>1 DEF TaskType
    <3>3. toDev' \in Seq([id : TaskId, cmd : CommandType])
      BY <2>2, <3>1 DEF Types, DeviceTypes
    <3>. QED  BY <2>2, <3>2, <3>3 DEF Types, TaskTypes
  <2>. QED  BY <1>1, <2>1, <2>2 DEF Send
<1>. QED
  BY <1>2, <1>3, <1>4
     DEF Types, ThreadTypes, TableTypes, TaskTypes, DeviceTypes, ClientTypes

(* The at91's view of the machine is a map. *)
LEMMA SnapshotType == Snapshot \in MapType
<1>1. ASSUME NEW place, \E d \in Disc : at[d] = place
      PROVE  (CHOOSE d \in Disc : at[d] = place) \in Disc
  BY <1>1
<1>. QED  BY <1>1 DEF Snapshot, MapType

(* The head of a typed sequence is typed. *)
LEMMA HeadTyped ==
  ASSUME NEW S, NEW q \in Seq(S), q # <<>>
  PROVE  Head(q) \in S /\ Tail(q) \in Seq(S)
OBVIOUS

(* The at91 executes a command. *)
LEMMA ExecuteTypes ==
  ASSUME Types, ~undef, Execute
  PROVE  Types'
<1>1. PICK m \in [id : TaskId, cmd : CommandType] : m = Head(toDev)
  <2>1. toDev # <<>> /\ toDev \in Seq([id : TaskId, cmd : CommandType])
    BY DEF Execute, Types, DeviceTypes
  <2>2. Head(toDev) \in [id : TaskId, cmd : CommandType]
    BY <2>1, HeadTyped
  <2>. QED  BY <2>2
<1>2. UNCHANGED <<server, client, link, alarm, undef>>
  BY DEF Execute
<1>3. toDev' \in Seq([id : TaskId, cmd : CommandType])
  BY DEF Execute, Types, DeviceTypes
<1>4. toSvr' \in Seq(Filed)
  <2>1. ASSUME NEW code, code \in {"ok", "fail", "none", "occupied"}
        PROVE  Frame(m.id, code, None) \in Filed
    BY <2>1 DEF Frame, Filed, Frames
  <2>2. Frame(m.id, "map", Snapshot) \in Filed
    BY SnapshotType DEF Frame, Filed, Frames
  <2>3. \/ toSvr' = Append(toSvr, Frame(m.id, "map", Snapshot))
        \/ \E code \in {"ok", "fail", "none", "occupied"} :
             toSvr' = Append(toSvr, Frame(m.id, code, None))
    BY <1>1, CodeAssumption DEF Execute
  <2>4. PICK f \in Filed : toSvr' = Append(toSvr, f)
    BY <2>1, <2>2, <2>3
  <2>. QED  BY <2>4 DEF Types, DeviceTypes
<1>5. at' \in [Disc -> 0 .. Printer]
  <2>1. Target(m.cmd) \in 0 .. Printer
    BY NumbersAssumption DEF Target, CommandType, Printer, Mailbox, Slot, Drive
  <2>2. at' = at \/ at' = [d \in Disc |-> IF d \in Subject(m.cmd) THEN Target(m.cmd) ELSE at[d]]
    BY <1>1 DEF Execute
  <2>. QED  BY <2>1, <2>2 DEF Types, DeviceTypes
<1>. QED
  BY <1>2, <1>3, <1>4, <1>5
     DEF Types, ThreadTypes, TableTypes, TaskTypes, DeviceTypes, ClientTypes, server, client

(* The link comes up or breaks, or the at91 says something unasked. *)
LEMMA LinkTypes ==
  ASSUME Types, Connect \/ Authenticate \/ Drop \/ (\E e \in Event : Happen(e))
                \/ UNCHANGED vars
  PROVE  Types'
<1>1. UNCHANGED <<server, client, at, alarm, undef>>
  BY DEF Connect, Authenticate, Drop, Happen, vars, device
<1>2. DeviceTypes'
  <2>1. ASSUME NEW e \in Event, Happen(e)
        PROVE  DeviceTypes'
    <3>1. Frame(0, e, None) \in Frames /\ Frame(0, e, None).code # "map"
      BY EventAssumption DEF Frame, Frames, Exception
    <3>2. Frame(0, e, None) \in Filed
      BY <3>1 DEF Filed
    <3>3. PICK f \in Filed : toSvr' = Append(toSvr, f)
      BY <2>1, <3>2 DEF Happen
    <3>. QED  BY <1>1, <2>1, <3>3 DEF Happen, Types, DeviceTypes
  <2>2. CASE Connect \/ Authenticate \/ Drop \/ UNCHANGED vars
    <3>1. /\ toDev' = toDev \/ toDev' = <<>>
          /\ toSvr' = toSvr \/ toSvr' = <<>>
          /\ link' = link \/ link' \in {"off", "on", "auth"}
      BY <2>2 DEF Connect, Authenticate, Drop, vars, device
    <3>2. toDev' \in Seq([id : TaskId, cmd : CommandType])
      <4>1. ASSUME NEW S, toDev \in Seq(S) PROVE toDev' \in Seq(S)
        <5>1. <<>> \in Seq(S)
          OBVIOUS
        <5>. QED  BY <3>1, <4>1, <5>1, Zenon
      <4>. QED  BY <4>1, Zenon DEF Types, DeviceTypes
    <3>3. toSvr' \in Seq(Filed)
      <4>1. ASSUME NEW S, toSvr \in Seq(S) PROVE toSvr' \in Seq(S)
        <5>1. <<>> \in Seq(S)
          OBVIOUS
        <5>. QED  BY <3>1, <4>1, <5>1, Zenon
      <4>. QED  BY <4>1, Zenon DEF Types, DeviceTypes
    <3>4. link' \in {"off", "on", "auth"} /\ at' \in [Disc -> 0 .. Printer]
      BY <1>1, <3>1, Zenon DEF Types, DeviceTypes
    <3>. QED  BY <3>2, <3>3, <3>4, Zenon DEF DeviceTypes
  <2>. QED  BY <2>1, <2>2
<1>. QED
  BY <1>1, <1>2
     DEF Types, ThreadTypes, TableTypes, TaskTypes, ClientTypes, server, client

(* The service starts typed. *)
LEMMA InitTypes == Init => Types
<1>. SUFFICES ASSUME Init PROVE Types
  OBVIOUS
<1>1. ThreadTypes
  BY IdleRecord DEF Init, ThreadTypes, AtDrive
<1>2. TableTypes
  BY StartAssumption DEF Init, TableTypes, Table, Held
<1>3. TaskTypes
  <2>1. Cmd("GMAP", 0, None) \in CommandType
    BY DEF Cmd, CommandType, Op
  <2>2. [cmd |-> Cmd("GMAP", 0, None), sent |-> FALSE, freed |-> FALSE] \in TaskType
    BY <2>1 DEF TaskType
  <2>3. [job |-> "update", req |-> None] \in JobType
    BY DEF JobType
  <2>4. pool \in Seq(JobType)
    BY <2>3 DEF Init
  <2>5. DOMAIN results = {} /\ queue \in Seq(TaskId) /\ next \in 0 .. MaxTask
    BY NumbersAssumption DEF Init
  <2>. QED  BY <2>2, <2>4, <2>5 DEF Init, TaskTypes
<1>4. DeviceTypes
  <2>1. Loaded \cup {Slot} \subseteq 0 .. Printer
    BY StartAssumption, NumbersAssumption DEF Printer, Slot, Drive
  <2>. QED  BY <2>1 DEF Init, DeviceTypes
<1>5. ClientTypes
  <2>1. reply \in [Request -> Seq(Sayings)]
    BY DEF Init
  <2>. QED  BY <2>1 DEF Init, ClientTypes
<1>. QED  BY <1>1, <1>2, <1>3, <1>4, <1>5 DEF Types

(* Every step keeps the types. *)
LEMMA NextTypes == Types /\ [Next]_vars => Types'
<1>. SUFFICES ASSUME Types, [Next]_vars PROVE Types'
  OBVIOUS
<1>1. ASSUME ~undef, NEW w \in Worker, Work(w)
      PROVE  Types'
  BY <1>1, WorkThreads, WorkTable, WorkTasks, WorkClient DEF Types
<1>2. ASSUME ~undef, NEW t \in Thread, Step(t) \/ HideLost(t) \/ PlaceLost(t)
      PROVE  Types'
  BY <1>2, StepThreads, StepTable, StepTasks, StepClient DEF Types
<1>3. ASSUME ~undef, NEW w \in Worker, LoseCall(w)
      PROVE  Types'
  BY <1>3, LoseTypes
<1>4. ASSUME NEW r \in Request, NEW c \in Asked, Ask(r, c)
      PROVE  Types'
  BY <1>4, AskTypes
<1>5. ASSUME ~undef, Send \/ Execute \/ \E n \in 1 .. Len(toSvr) : Receive(n)
      PROVE  Types'
  BY <1>5, SendTypes, ExecuteTypes, ReceiveTypes
<1>. QED
  BY <1>1, <1>2, <1>3, <1>4, <1>5, LinkTypes DEF Next, GiveUp, Loop

(* Every field holds a value of its C++ type, whatever fails: ids name     *)
(* tasks that were made, drives are drives, and the discs in m_storage are *)
(* discs.  TypeOK of the runs, for any number of threads, drives and discs *)
(* and for every event, timeout and disconnection.                         *)
THEOREM TypeCorrect == Spec => []TypeOK
<1>1. Types => TypeOK
  <2>. SUFFICES ASSUME Types PROVE TypeOK
    OBVIOUS
  <2>1. /\ \A t \in Thread : /\ th[t].id \in TaskId \cup {0}
                             /\ th[t].drive \in 0 .. (NDrive + 1)
                             /\ th[t].disc \in Disc \cup {None}
        /\ lock \in Thread \cup {None}
    BY DEF Types, ThreadTypes, Record, Held
  <2>2. /\ table.have \cup table.busy \subseteq Drive
        /\ table.media \in [Drive -> Disc \cup {None}]
        /\ todo \in [Worker -> SUBSET Disc]
    BY DEF Types, TableTypes, Table, Held
  <2>3. /\ queue \in Seq(TaskId) /\ next \in 0 .. MaxTask
        /\ task \in [TaskId -> [cmd : CommandType, sent : BOOLEAN, freed : BOOLEAN]]
        /\ DOMAIN results \subseteq TaskId
        /\ \A i \in DOMAIN results : results[i] \in Frames
    BY DEF Types, TaskTypes, TaskType, Filed
  <2>4. toSvr \in Seq(Frames) /\ link \in {"off", "on", "auth"} /\ at \in [Disc -> 0 .. Printer]
    <3>1. toSvr \in Seq(Filed) /\ Filed \subseteq Frames
      BY DEF Types, DeviceTypes, Filed
    <3>2. toSvr \in Seq(Frames)
      BY <3>1
    <3>. QED  BY <3>2 DEF Types, DeviceTypes
  <2>5. /\ reply \in [Request -> Seq({"refused", "data", "success", "error", "timeout",
                                      "lost param"})]
        /\ phase \in {"INIT", "RUN", "INVENTORY", "RETURNDISC", "EXCEPTION"}
        /\ {alarm, undef} \subseteq BOOLEAN
    BY DEF Types, ClientTypes, Sayings
  <2>. QED  BY <2>1, <2>2, <2>3, <2>4, <2>5, Zenon DEF TypeOK
<1>. QED  BY <1>1, InitTypes, NextTypes, PTL DEF Spec

(***************************************************************************)
(* m_action_mtx.                                                           *)
(***************************************************************************)
Carries == {"move", "close"}

(* A thread's record has these fields and no others. *)
WellFormed(r) ==
  \E job, pc, req, id, drive, disc :
    r = [job |-> job, pc |-> pc, req |-> req, id |-> id, drive |-> drive,
         disc |-> disc]

(* Whoever carries a disc holds the lock. *)
LockInv ==
  /\ th = [t \in Thread |-> th[t]]
  /\ \A t \in Thread : WellFormed(th[t])
  /\ \A t \in Thread : th[t].pc \in Carries => lock = t

(* A thread that does not come to carry leaves the invariant alone. *)
LEMMA OtherStep ==
  ASSUME LockInv, NEW t \in Thread, NEW r, WellFormed(r), r.pc \notin Carries,
         th' = [th EXCEPT ![t] = r], lock' = lock
  PROVE  LockInv'
  BY DEF LockInv

(* The holder of the lock may carry, or let go of the lock. *)
LEMMA HolderStep ==
  ASSUME LockInv, NEW t \in Thread, NEW r, WellFormed(r),
         lock \in {None, t}, th' = [th EXCEPT ![t] = r],
         lock' = t \/ r.pc \notin Carries
  PROVE  LockInv'
<1>1. \A u \in Thread : u # t => th[u].pc \notin Carries
  BY NoneAssumption DEF LockInv
<1> QED
  BY <1>1 DEF LockInv

(* Setting fields of a thread's record keeps its shape. *)
LEMMA IdleShape == WellFormed(Idle) /\ Idle.pc = "idle"
  BY DEF WellFormed, Idle

LEMMA SetPc ==
  ASSUME NEW r, WellFormed(r), NEW a
  PROVE  /\ WellFormed([r EXCEPT !.pc = a])
         /\ [r EXCEPT !.pc = a].pc = a
<1>1. PICK j, p, q, i, v, d : r =
      [job |-> j, pc |-> p, req |-> q, id |-> i,
       drive |-> v, disc |-> d]
  BY DEF WellFormed
<1>2. PICK s : s = [r EXCEPT !.pc = a]
  OBVIOUS
<1>3. s =
      [job |-> j, pc |-> a, req |-> q, id |-> i,
       drive |-> v, disc |-> d]
  BY <1>1, <1>2
<1>4. WellFormed(s)
  BY <1>3 DEF WellFormed
<1> QED
  BY <1>1, <1>2, <1>3, <1>4

LEMMA SetDisc ==
  ASSUME NEW r, WellFormed(r), NEW a
  PROVE  /\ WellFormed([r EXCEPT !.disc = a])
         /\ [r EXCEPT !.disc = a].pc = r.pc
<1>1. PICK j, p, q, i, v, d : r =
      [job |-> j, pc |-> p, req |-> q, id |-> i,
       drive |-> v, disc |-> d]
  BY DEF WellFormed
<1>2. PICK s : s = [r EXCEPT !.disc = a]
  OBVIOUS
<1>3. s =
      [job |-> j, pc |-> p, req |-> q, id |-> i,
       drive |-> v, disc |-> a]
  BY <1>1, <1>2
<1>4. WellFormed(s)
  BY <1>3 DEF WellFormed
<1> QED
  BY <1>1, <1>2, <1>3, <1>4

LEMMA SetDrive ==
  ASSUME NEW r, WellFormed(r), NEW a
  PROVE  /\ WellFormed([r EXCEPT !.drive = a])
         /\ [r EXCEPT !.drive = a].pc = r.pc
<1>1. PICK j, p, q, i, v, d : r =
      [job |-> j, pc |-> p, req |-> q, id |-> i,
       drive |-> v, disc |-> d]
  BY DEF WellFormed
<1>2. PICK s : s = [r EXCEPT !.drive = a]
  OBVIOUS
<1>3. s =
      [job |-> j, pc |-> p, req |-> q, id |-> i,
       drive |-> a, disc |-> d]
  BY <1>1, <1>2
<1>4. WellFormed(s)
  BY <1>3 DEF WellFormed
<1> QED
  BY <1>1, <1>2, <1>3, <1>4

LEMMA SetIdPc ==
  ASSUME NEW r, WellFormed(r), NEW a, NEW b
  PROVE  /\ WellFormed([r EXCEPT !.id = a, !.pc = b])
         /\ [r EXCEPT !.id = a, !.pc = b].pc = b
<1>1. PICK j, p, q, i, v, d : r =
      [job |-> j, pc |-> p, req |-> q, id |-> i,
       drive |-> v, disc |-> d]
  BY DEF WellFormed
<1>2. PICK s : s = [r EXCEPT !.id = a, !.pc = b]
  OBVIOUS
<1>3. s =
      [job |-> j, pc |-> b, req |-> q, id |-> a,
       drive |-> v, disc |-> d]
  BY <1>1, <1>2
<1>4. WellFormed(s)
  BY <1>3 DEF WellFormed
<1> QED
  BY <1>1, <1>2, <1>3, <1>4

LEMMA SetPcDrive ==
  ASSUME NEW r, WellFormed(r), NEW a, NEW b
  PROVE  /\ WellFormed([r EXCEPT !.pc = a, !.drive = b])
         /\ [r EXCEPT !.pc = a, !.drive = b].pc = a
<1>1. PICK j, p, q, i, v, d : r =
      [job |-> j, pc |-> p, req |-> q, id |-> i,
       drive |-> v, disc |-> d]
  BY DEF WellFormed
<1>2. PICK s : s = [r EXCEPT !.pc = a, !.drive = b]
  OBVIOUS
<1>3. s =
      [job |-> j, pc |-> a, req |-> q, id |-> i,
       drive |-> b, disc |-> d]
  BY <1>1, <1>2
<1>4. WellFormed(s)
  BY <1>3 DEF WellFormed
<1> QED
  BY <1>1, <1>2, <1>3, <1>4

LEMMA SetPcDisc ==
  ASSUME NEW r, WellFormed(r), NEW a, NEW b
  PROVE  /\ WellFormed([r EXCEPT !.pc = a, !.disc = b])
         /\ [r EXCEPT !.pc = a, !.disc = b].pc = a
<1>1. PICK j, p, q, i, v, d : r =
      [job |-> j, pc |-> p, req |-> q, id |-> i,
       drive |-> v, disc |-> d]
  BY DEF WellFormed
<1>2. PICK s : s = [r EXCEPT !.pc = a, !.disc = b]
  OBVIOUS
<1>3. s =
      [job |-> j, pc |-> a, req |-> q, id |-> i,
       drive |-> v, disc |-> b]
  BY <1>1, <1>2
<1>4. WellFormed(s)
  BY <1>3 DEF WellFormed
<1> QED
  BY <1>1, <1>2, <1>3, <1>4

LEMMA SetDriveDisc ==
  ASSUME NEW r, WellFormed(r), NEW a, NEW b
  PROVE  /\ WellFormed([r EXCEPT !.drive = a, !.disc = b])
         /\ [r EXCEPT !.drive = a, !.disc = b].pc = r.pc
<1>1. PICK j, p, q, i, v, d : r =
      [job |-> j, pc |-> p, req |-> q, id |-> i,
       drive |-> v, disc |-> d]
  BY DEF WellFormed
<1>2. PICK s : s = [r EXCEPT !.drive = a, !.disc = b]
  OBVIOUS
<1>3. s =
      [job |-> j, pc |-> p, req |-> q, id |-> i,
       drive |-> a, disc |-> b]
  BY <1>1, <1>2
<1>4. WellFormed(s)
  BY <1>3 DEF WellFormed
<1> QED
  BY <1>1, <1>2, <1>3, <1>4

LEMMA TakenShape ==
  ASSUME NEW a, NEW b
  PROVE  LET s == [Idle EXCEPT !.job = a, !.req = b, !.pc = "start"]
         IN  WellFormed(s) /\ s.pc = "start"
<1>1. PICK s : s = [Idle EXCEPT !.job = a, !.req = b, !.pc = "start"]
  OBVIOUS
<1>2. s = [job |-> a, pc |-> "start", req |-> b, id |-> 0, drive |-> 0, disc |-> None]
  BY <1>1 DEF Idle
<1>3. WellFormed(s)
  BY <1>2 DEF WellFormed
<1> QED
  BY <1>1, <1>2, <1>3

LEMMA ReaderShape ==
  ASSUME NEW a
  PROVE  LET s == [Idle EXCEPT !.job = "read", !.pc = "place", !.disc = a]
         IN  WellFormed(s) /\ s.pc = "place"
<1>1. PICK s : s = [Idle EXCEPT !.job = "read", !.pc = "place", !.disc = a]
  OBVIOUS
<1>2. s = [job |-> "read", pc |-> "place", req |-> None, id |-> 0, drive |-> 0,
           disc |-> a]
  BY <1>1 DEF Idle
<1>3. WellFormed(s)
  BY <1>2 DEF WellFormed
<1> QED
  BY <1>1, <1>2, <1>3

(* A thread that pushes a task waits at the label it was given. *)
LEMMA CallSets ==
  ASSUME NEW t, NEW c, NEW rec, WellFormed(rec), NEW p, Call(t, c, rec, p)
  PROVE  \E r : WellFormed(r) /\ r.pc = p /\ th' = [th EXCEPT ![t] = r]
<1> DEFINE s == [rec EXCEPT !.id = next + 1, !.pc = p]
<1>1. WellFormed(s) /\ s.pc = p
  BY SetIdPc
<1>2. th' = [th EXCEPT ![t] = s]
  BY DEF Call, Become
<1> QED
  BY <1>1, <1>2

LEMMA HideSets ==
  ASSUME LockInv, NEW t \in Thread, NEW d, Hide(t, d)
  PROVE  \E r : WellFormed(r) /\ r.pc = "hide" /\ th' = [th EXCEPT ![t] = r]
<1> DEFINE s == [th[t] EXCEPT !.drive = d, !.disc = table.media[d]]
<1>1. WellFormed(s)
  BY SetDriveDisc DEF LockInv
<1>2. Call(t, Cmd("HIDE", d, None), s, "hide")
  BY DEF Hide
<1> QED
  BY <1>1, <1>2, CallSets

LEMMA AfterHideShape ==
  ASSUME LockInv, NEW t \in Thread, NEW worked
  PROVE  WellFormed(AfterHide(t, worked)) /\ AfterHide(t, worked).pc \notin Carries
<1>1. CASE th[t].job = "read"
  BY <1>1, IdleShape DEF AfterHide, Carries
<1>2. CASE th[t].job # "read"
  <2>0. PICK v : v = IF worked THEN th[t].drive + 1 ELSE NDrive + 1
    OBVIOUS
  <2> DEFINE s == [th[t] EXCEPT !.pc = "return", !.drive = v]
  <2>1. WellFormed(th[t])
    BY DEF LockInv
  <2>2. WellFormed(s) /\ s.pc = "return"
    BY <2>1, SetPcDrive
  <2>3. AfterHide(t, worked) = s
    BY <1>2, <2>0 DEF AfterHide
  <2> QED
    BY <2>2, <2>3 DEF Carries
<1> QED
  BY <1>1, <1>2

(* The jobs of a worker, but for those that carry. *)
LEMMA WorkKeepsLock ==
  ASSUME LockInv, NEW w \in Worker, Work(w)
  PROVE  LockInv'
<1>a. WellFormed(th[w])
  BY DEF LockInv, Thread
<1>0. w \in Thread /\ WellFormed(Idle) /\ Idle.pc = "idle"
  BY IdleShape DEF Thread
<1>1. CASE Take(w)
  <2> DEFINE s == [Idle EXCEPT !.job = Head(pool).job, !.req = Head(pool).req,
                               !.pc = "start"]
  <2>1. WellFormed(s) /\ s.pc = "start"
    BY TakenShape
  <2>2. th' = [th EXCEPT ![w] = s] /\ lock' = lock
    BY <1>1 DEF Take, Become
  <2> QED
    BY <1>0, <2>1, <2>2, OtherStep DEF Carries
<1>2. CASE \/ QueryStation(w)
           \/ LostParam(w)
           \/ FinishCall(w)
           \/ FinishReturn(w)
           \/ FinishInventory(w)
           \/ RefuseMove(w)
           \/ FinishMove(w)
  <2>1. th' = [th EXCEPT ![w] = Idle] /\ lock' = lock
    BY <1>2 DEF QueryStation, LostParam, FinishCall, FinishReturn, FinishInventory,
                RefuseMove, FinishMove, Become
  <2> QED
    BY <1>0, <2>1, OtherStep DEF Carries
<1>3. CASE StartCall(w)
  <2>1. PICK d : Call(w, Command(th[w].job, d), [th[w] EXCEPT !.disc = d], "answer")
    BY <1>3 DEF StartCall
  <2>2. WellFormed([th[w] EXCEPT !.disc = d])
    BY <1>a, SetDisc
  <2>3. PICK r : WellFormed(r) /\ r.pc = "answer" /\ th' = [th EXCEPT ![w] = r]
    BY <2>1, <2>2, CallSets
  <2>4. lock' = lock
    BY <1>3 DEF StartCall
  <2> QED
    BY <1>0, <2>3, <2>4, OtherStep DEF Carries
<1>4. CASE FinishUpdate(w) \/ StartReturn(w)
  <2> DEFINE s == [th[w] EXCEPT !.pc = "return", !.drive = 1]
  <2>1. WellFormed(s) /\ s.pc = "return"
    BY <1>a, SetPcDrive
  <2>2. lock' = lock /\ (th' = [th EXCEPT ![w] = s] \/ th' = [th EXCEPT ![w] = Idle])
    BY <1>4 DEF FinishUpdate, StartReturn, Become
  <2> QED
    BY <1>0, <2>1, <2>2, OtherStep DEF Carries
<1>5. CASE ReturnNext(w)
  <2>1. PICK d : Hide(w, d)
    BY <1>5 DEF ReturnNext
  <2>2. PICK r : WellFormed(r) /\ r.pc = "hide" /\ th' = [th EXCEPT ![w] = r]
    BY <1>0, <2>1, HideSets
  <2>3. lock' = lock
    BY <1>5 DEF ReturnNext
  <2> QED
    BY <1>0, <2>2, <2>3, OtherStep DEF Carries
<1>6. CASE StartInventory(w)
  <2> DEFINE r1 == [th[w] EXCEPT !.pc = "inventory"]
  <2>1. WellFormed(r1) /\ r1.pc = "inventory"
    BY <1>a, SetPc
  <2>2. th' = [th EXCEPT ![w] = r1] /\ lock' = lock
    BY <1>6 DEF StartInventory, Become
  <2> QED
    BY <1>0, <2>1, <2>2, OtherStep DEF Carries
<1>7. CASE ReserveDisc(w)
  <2>1. PICK d : Become(w, [th[w] EXCEPT !.pc = "place", !.disc = d])
    BY <1>7 DEF ReserveDisc
  <2> DEFINE s == [th[w] EXCEPT !.pc = "place", !.disc = d]
  <2>2. WellFormed(s) /\ s.pc = "place"
    BY <1>a, SetPcDisc
  <2>3. th' = [th EXCEPT ![w] = s] /\ lock' = lock
    BY <1>7, <2>1 DEF ReserveDisc, Become
  <2> QED
    BY <1>0, <2>2, <2>3, OtherStep DEF Carries
<1>8. ASSUME NEW k \in Reader, TakeDisc(w, k) PROVE LockInv'
  <2>1. PICK d : Become(<<w, k>>, [Idle EXCEPT !.job = "read", !.pc = "place",
                                               !.disc = d])
    BY <1>8 DEF TakeDisc
  <2> DEFINE s == [Idle EXCEPT !.job = "read", !.pc = "place", !.disc = d]
  <2>2. WellFormed(s) /\ s.pc = "place"
    BY ReaderShape
  <2>3. th' = [th EXCEPT ![<<w, k>>] = s] /\ lock' = lock
    BY <1>8, <2>1 DEF TakeDisc, Become
  <2>4. <<w, k>> \in Thread
    BY DEF Thread, Helper
  <2> QED
    BY <2>2, <2>3, <2>4, OtherStep DEF Carries
<1> QED
  BY <1>1, <1>2, <1>3, <1>4, <1>5, <1>6, <1>7, <1>8 DEF Work

(* The steps of whoever moves a disc. *)
LEMMA StepKeepsLock ==
  ASSUME LockInv, NEW t \in Thread, Step(t)
  PROVE  LockInv'
<1> USE DEF Carries
<1>0. WellFormed(th[t]) /\ (th[t].pc \in Carries => lock = t)
      /\ WellFormed(Idle) /\ Idle.pc = "idle"
  BY IdleShape DEF LockInv
<1>1. CASE HideDone(t)
  <2>1. th' = [th EXCEPT ![t] = AfterHide(t, Answer(t).code = "ok")] /\ lock' = lock
    BY <1>1 DEF HideDone, Become
  <2> QED
    BY <2>1, AfterHideShape, OtherStep
<1>2. CASE Place(t)
  <2>1. PICK d : Call(t, Cmd("CMOV", d, th[t].disc), [th[t] EXCEPT !.drive = d], "move")
    BY <1>2 DEF Place
  <2>2. WellFormed([th[t] EXCEPT !.drive = d])
    BY <1>0, SetDrive
  <2>3. PICK r : WellFormed(r) /\ r.pc = "move" /\ th' = [th EXCEPT ![t] = r]
    BY <2>1, <2>2, CallSets
  <2>4. lock = None /\ lock' = t
    BY <1>2 DEF Place
  <2> QED
    BY <2>3, <2>4, HolderStep
<1>3. CASE MoveDone(t)
  <2>1. Call(t, Cmd("CDIN", th[t].drive, None), th[t], "close")
    BY <1>3 DEF MoveDone
  <2>2. PICK r : WellFormed(r) /\ r.pc = "close" /\ th' = [th EXCEPT ![t] = r]
    BY <1>0, <2>1, CallSets
  <2>3. lock = t /\ lock' = t
    BY <1>0, <1>3 DEF MoveDone, Answered
  <2> QED
    BY <2>2, <2>3, HolderStep
<1>4. CASE MoveShut(t) \/ MoveFailed(t) \/ CloseDone(t)
  <2> DEFINE s == [th[t] EXCEPT !.pc = "placed"]
  <2>1. WellFormed(s) /\ s.pc = "placed"
    BY <1>0, SetPc
  <2>2. lock = t /\ (th' = [th EXCEPT ![t] = s] \/ th' = [th EXCEPT ![t] = Idle])
    BY <1>0, <1>4 DEF MoveShut, MoveFailed, CloseDone, Answered, Become
  <2> QED
    BY <1>0, <2>1, <2>2, HolderStep
<1>5. CASE ReadDone(t)
  <2>1. Hide(t, th[t].drive) /\ lock' = lock
    BY <1>5 DEF ReadDone
  <2>2. PICK r : WellFormed(r) /\ r.pc = "hide" /\ th' = [th EXCEPT ![t] = r]
    BY <2>1, HideSets
  <2> QED
    BY <2>1, <2>2, OtherStep
<1> QED
  BY <1>1, <1>2, <1>3, <1>4, <1>5 DEF Step

LEMMA GiveUpKeepsLock ==
  ASSUME LockInv, GiveUp
  PROVE  LockInv'
<1> USE DEF Carries
<1>1. ASSUME NEW w \in Worker, LoseCall(w) PROVE LockInv'
  <2>1. w \in Thread /\ th' = [th EXCEPT ![w] = Idle] /\ lock' = lock
    BY <1>1 DEF LoseCall, Become, Thread
  <2> QED
    BY <2>1, IdleShape, OtherStep
<1>2. ASSUME NEW t \in Thread, HideLost(t) PROVE LockInv'
  <2>1. th' = [th EXCEPT ![t] = AfterHide(t, FALSE)] /\ lock' = lock
    BY <1>2 DEF HideLost, Become
  <2> QED
    BY <2>1, AfterHideShape, OtherStep
<1>3. ASSUME NEW t \in Thread, PlaceLost(t) PROVE LockInv'
  <2> DEFINE s == [th[t] EXCEPT !.pc = "placed"]
  <2>1. WellFormed(s) /\ s.pc = "placed"
    BY SetPc DEF LockInv
  <2>2. lock = t /\ th' = [th EXCEPT ![t] = s]
    BY <1>3 DEF PlaceLost, GivesUp, LockInv, Become
  <2> QED
    BY <2>1, <2>2, HolderStep
<1> QED
  BY <1>1, <1>2, <1>3 DEF GiveUp

LEMMA LockInit == Init => LockInv
<1> SUFFICES ASSUME Init PROVE LockInv
  OBVIOUS
<1>1. th = [t \in Thread |-> Idle]
  BY DEF Init
<1> QED
  BY <1>1, IdleShape DEF LockInv, Carries

LEMMA LockStep == LockInv /\ [Next]_vars => LockInv'
<1> SUFFICES ASSUME LockInv, [Next]_vars PROVE LockInv'
  OBVIOUS
<1>1. ASSUME NEW w \in Worker, Work(w) PROVE LockInv'
  BY <1>1, WorkKeepsLock
<1>2. ASSUME NEW t \in Thread, Step(t) PROVE LockInv'
  BY <1>2, StepKeepsLock
<1>3. CASE GiveUp
  BY <1>3, GiveUpKeepsLock
<1>4. CASE \/ \E r \in Request : \E c \in Asked : Ask(r, c)
           \/ Loop
           \/ Authenticate
           \/ Drop
           \/ Execute
           \/ \E e \in Event : Happen(e)
           \/ UNCHANGED vars
  <2>1. UNCHANGED <<th, lock>>
    BY <1>4 DEF Ask, Loop, Send, Connect, Receive, Authenticate, Drop, Execute,
                Happen, vars, server
  <2> QED
    BY <2>1 DEF LockInv
<1> QED
  BY <1>1, <1>2, <1>3, <1>4 DEF Next

-----------------------------------------------------------------------------
(***************************************************************************)
(* The answers of the at91.                                                *)
(***************************************************************************)
TaskShape(r) ==
  \E c, s, f : r = [cmd |-> c, sent |-> s, freed |-> f]

(* Only the front of the queue has been sent; ids grow towards the back.   *)
QueueInv ==
  /\ queue \in Seq(TaskId) /\ next \in 0 .. MaxTask
  /\ task = [i \in TaskId |-> task[i]]
  /\ \A i \in TaskId : TaskShape(task[i])
  /\ \A i \in 1 .. Len(queue) : queue[i] <= next
  /\ \A i, j \in 1 .. Len(queue) : i < j => queue[i] < queue[j]
  /\ \A i \in 2 .. Len(queue) : ~task[queue[i]].sent
  /\ \A i \in TaskId : next < i => ~task[i].sent

FrontSent == queue # <<>> /\ task[Head(queue)].sent

(* What is under way belongs to the front: the command or its answer. *)
WireInv ==
  /\ toSvr \in Seq(Frames)
  /\ \A i \in 1 .. Len(toSvr) :
       IF toSvr[i].id = 0 THEN toSvr[i].code \in Exception
       ELSE /\ FrontSent /\ toSvr[i].id = Head(queue)
            /\ toSvr[i].code \notin Exception \cup {"DOORCLOSE"}
            /\ toDev = <<>>
  /\ \A i, j \in 1 .. Len(toSvr) :
       toSvr[i].id # 0 /\ toSvr[j].id # 0 => i = j
  /\ \/ toDev = <<>>
     \/ FrontSent /\ \E c : toDev = <<[id |-> Head(queue), cmd |-> c]>>

AnswerInv == QueueInv /\ WireInv /\ AnswersMatch

LEMMA SetTask ==
  ASSUME NEW r, TaskShape(r), NEW a
  PROVE  /\ TaskShape([r EXCEPT !.freed = a]) /\ [r EXCEPT !.freed = a].sent = r.sent
         /\ TaskShape([r EXCEPT !.sent = a]) /\ [r EXCEPT !.sent = a].sent = a
<1>1. PICK c, s, f : r = [cmd |-> c, sent |-> s, freed |-> f]
  BY DEF TaskShape
<1>2. [r EXCEPT !.freed = a] = [cmd |-> c, sent |-> s, freed |-> a]
  BY <1>1
<1>3. [r EXCEPT !.sent = a] = [cmd |-> c, sent |-> a, freed |-> f]
  BY <1>1
<1>4. TaskShape([cmd |-> c, sent |-> s, freed |-> a])
  BY DEF TaskShape
<1>5. TaskShape([cmd |-> c, sent |-> a, freed |-> f])
  BY DEF TaskShape
<1> QED
  BY <1>1, <1>2, <1>3, <1>4, <1>5

(* The front stays what it is: steps that leave the wire alone. *)
SameFront == FrontSent => FrontSent' /\ Head(queue') = Head(queue)

LEMMA WireKept ==
  ASSUME WireInv, SameFront, UNCHANGED <<toDev, toSvr>>
  PROVE  WireInv'
<1>1. ASSUME NEW i \in 1 .. Len(toSvr), toSvr[i].id # 0
      PROVE  /\ FrontSent' /\ toSvr[i].id = Head(queue')
             /\ toSvr[i].code \notin Exception \cup {"DOORCLOSE"}
             /\ toDev = <<>>
  BY <1>1 DEF WireInv, SameFront
<1>2. toDev = <<>> \/ (FrontSent' /\ \E c : toDev = <<[id |-> Head(queue'), cmd |-> c]>>)
  BY DEF WireInv, SameFront
<1> QED
  BY <1>1, <1>2 DEF WireInv

(* A task is pushed behind the others. *)
LEMMA CallQueue ==
  ASSUME QueueInv, NEW t, NEW c, NEW rec, NEW p, Call(t, c, rec, p)
  PROVE  QueueInv' /\ SameFront
<1> USE NumbersAssumption DEF TaskId
<1> DEFINE n == next + 1
<1>1. /\ n \in TaskId /\ next \in Nat /\ MaxTask \in Nat /\ next' = n
      /\ queue \in Seq(TaskId) /\ queue' = Append(queue, n)
  BY DEF QueueInv, Call
<1>2. task' = [task EXCEPT ![n] = [cmd |-> c, sent |-> FALSE, freed |-> FALSE]]
  BY DEF Call
<1>3. TaskShape([cmd |-> c, sent |-> FALSE, freed |-> FALSE])
  BY DEF TaskShape
<1>4. /\ Len(queue') = Len(queue) + 1 /\ queue'[Len(queue) + 1] = n
      /\ \A i \in 1 .. Len(queue) : queue'[i] = queue[i]
      /\ queue' \in Seq(TaskId)
  BY <1>1
<1>5. \A i \in TaskId : IF i = n THEN TaskShape(task'[i]) /\ ~task'[i].sent
                        ELSE task'[i] = task[i]
  BY <1>2, <1>3 DEF QueueInv
<1>6. task' = [i \in TaskId |-> task'[i]]
  BY <1>2 DEF QueueInv
<1> HIDE DEF n
<1>7. \A i \in 1 .. Len(queue) : queue[i] \in TaskId /\ queue[i] # n
  BY <1>1 DEF QueueInv, n
<1>8. \A i \in 1 .. Len(queue') : queue'[i] <= next'
  BY <1>1, <1>4 DEF QueueInv, n
<1>9. \A i, j \in 1 .. Len(queue') : i < j => queue'[i] < queue'[j]
  BY <1>1, <1>4 DEF QueueInv, n
<1>10. ASSUME NEW i \in 2 .. Len(queue') PROVE ~task'[queue'[i]].sent
  <2>1. CASE i = Len(queue) + 1
    BY <1>1, <1>4, <1>5, <2>1
  <2>2. CASE i \in 2 .. Len(queue)
    <3>1. queue'[i] = queue[i] /\ queue[i] \in TaskId /\ queue[i] # n
      BY <1>1, <1>4, <1>7, <2>2
    <3>2. ~task[queue[i]].sent
      BY <2>2 DEF QueueInv
    <3> QED
      BY <1>5, <3>1, <3>2
  <2>3. Len(queue) \in Nat
    BY <1>1
  <2> QED
    BY <1>4, <2>1, <2>2, <2>3
<1>11. \A i \in TaskId : next' < i => ~task'[i].sent
  BY <1>1, <1>5 DEF QueueInv, n
<1>12. \A i \in TaskId : TaskShape(task'[i])
  BY <1>5 DEF QueueInv
<1>13. QueueInv'
  <2>1. next' \in 0 .. MaxTask
    BY <1>1
  <2> QED
    BY <1>4, <1>6, <1>8, <1>9, <1>10, <1>11, <1>12, <2>1, Zenon DEF QueueInv
<1>14. SameFront
  <2>1. SUFFICES ASSUME FrontSent PROVE FrontSent' /\ Head(queue') = Head(queue)
    BY DEF SameFront
  <2>0. queue # <<>> /\ Len(queue) # 0 /\ Len(queue) \in Nat
    BY <1>1, <2>1 DEF FrontSent
  <2>2. 1 \in 1 .. Len(queue) /\ Head(queue) = queue[1]
    BY <1>1, <2>0
  <2>3. queue' # <<>> /\ Head(queue') = queue'[1]
    BY <1>1, <1>4, <2>0
  <2> QED
    BY <1>4, <1>5, <1>7, <2>1, <2>2, <2>3 DEF FrontSent
<1> QED
  BY <1>13, <1>14

(* An object is deleted, wherever its key still is. *)
LEMMA FreeQueue ==
  ASSUME QueueInv, NEW x, NEW d, task' = [task EXCEPT ![x].freed = d],
         UNCHANGED <<queue, next>>
  PROVE  QueueInv' /\ SameFront
<1>1. \A i \in TaskId : task'[i] = task[i] \/ task'[i] = [task[i] EXCEPT !.freed = d]
  BY DEF QueueInv
<1>2. ASSUME NEW i \in TaskId
      PROVE  TaskShape(task'[i]) /\ task'[i].sent = task[i].sent
  <2>1. TaskShape(task[i])
    BY DEF QueueInv
  <2>2. TaskShape([task[i] EXCEPT !.freed = d]) /\ [task[i] EXCEPT !.freed = d].sent = task[i].sent
    BY <2>1, SetTask
  <2> QED
    BY <1>1, <2>1, <2>2
<1>3. task' = [i \in TaskId |-> task'[i]]
  BY DEF QueueInv
<1>4. \A i \in 1 .. Len(queue) : queue[i] \in TaskId
  BY DEF QueueInv
<1>5. QueueInv'
  <2>1. \A i \in 2 .. Len(queue) : ~task'[queue[i]].sent
    <3> SUFFICES ASSUME NEW i \in 2 .. Len(queue) PROVE ~task'[queue[i]].sent
      OBVIOUS
    <3>1. Len(queue) \in Nat /\ i \in 1 .. Len(queue)
      BY DEF QueueInv
    <3>2. queue[i] \in TaskId /\ ~task[queue[i]].sent
      BY <1>4, <3>1 DEF QueueInv
    <3> QED
      BY <1>2, <3>2
  <2>2. \A i \in TaskId : next < i => ~task'[i].sent
    BY <1>2 DEF QueueInv
  <2> QED
    BY <1>2, <1>3, <2>1, <2>2, Zenon DEF QueueInv
<1>6. SameFront
  BY <1>2, <1>4 DEF SameFront, FrontSent, QueueInv
<1> QED
  BY <1>5, <1>6

(* The loop sends the front, once. *)
LEMMA SendKeeps == ASSUME AnswerInv, Send PROVE AnswerInv'
<1> DEFINE f == Head(queue)
<1>1. UNCHANGED <<queue, next, results, toSvr>> /\ queue # <<>>
  BY DEF Send
<1>2. CASE UNCHANGED <<task, toDev>>
  BY <1>1, <1>2, WireKept DEF AnswerInv, QueueInv, AnswersMatch, SameFront, FrontSent
<1>3. CASE /\ ~task[f].sent
           /\ task' = [task EXCEPT ![f].sent = TRUE]
           /\ toDev' = Append(toDev, [id |-> f, cmd |-> task[f].cmd])
  <2>0. f \in TaskId /\ f = queue[1] /\ Len(queue) \in Nat /\ 1 \in 1 .. Len(queue)
    BY <1>1 DEF AnswerInv, QueueInv
  <2>1. TaskShape(task[f])
    BY <2>0 DEF AnswerInv, QueueInv
  <2>2. TaskShape([task[f] EXCEPT !.sent = TRUE]) /\ [task[f] EXCEPT !.sent = TRUE].sent
    BY <2>1, SetTask
  <2>3. \A i \in TaskId : task'[i] = IF i = f THEN [task[f] EXCEPT !.sent = TRUE]
                                     ELSE task[i]
    BY <1>3 DEF AnswerInv, QueueInv
  <2>4. \A i \in TaskId : TaskShape(task'[i])
    BY <2>2, <2>3 DEF AnswerInv, QueueInv
  <2>5. task' = [i \in TaskId |-> task'[i]]
    BY <1>3 DEF AnswerInv, QueueInv
  <2>6. ASSUME NEW i \in 2 .. Len(queue) PROVE ~task'[queue[i]].sent
    <3>1. i \in 1 .. Len(queue) /\ 1 < i
      BY <2>0
    <3>2. queue[i] \in TaskId /\ queue[1] < queue[i] /\ ~task[queue[i]].sent
      BY <2>0, <3>1 DEF AnswerInv, QueueInv
    <3>3. queue[i] # f
      BY <2>0, <3>2 DEF TaskId
    <3> QED
      BY <2>3, <3>2, <3>3
  <2>7. ASSUME NEW i \in TaskId, next < i PROVE ~task'[i].sent
    <3>1. f <= next /\ next \in Nat
      BY <2>0, NumbersAssumption DEF AnswerInv, QueueInv
    <3>2. i # f
      BY <2>0, <2>7, <3>1 DEF TaskId
    <3> QED
      BY <2>3, <2>7, <3>2 DEF AnswerInv, QueueInv
  <2>8. QueueInv'
    BY <1>1, <2>4, <2>5, <2>6, <2>7, Zenon DEF AnswerInv, QueueInv
  <2>9. FrontSent'
    BY <1>1, <2>0, <2>2, <2>3 DEF FrontSent
  <2>10. ~FrontSent
    BY <1>3 DEF FrontSent
  <2>11. toDev = <<>> /\ \A i \in 1 .. Len(toSvr) : toSvr[i].id = 0
    BY <2>10 DEF AnswerInv, WireInv
  <2>12. toDev' = <<[id |-> Head(queue'), cmd |-> task[f].cmd]>>
    BY <1>1, <1>3, <2>11
  <2>13. \E c : toDev' = <<[id |-> Head(queue'), cmd |-> c]>>
    BY <2>12
  <2>14. WireInv'
    BY <1>1, <2>9, <2>11, <2>13 DEF AnswerInv, WireInv
  <2> QED
    BY <1>1, <2>8, <2>14 DEF AnswerInv, AnswersMatch
<1> QED
  BY <1>2, <1>3 DEF Send

LEMMA Appended ==
  ASSUME NEW S, NEW q \in Seq(S), NEW x \in S
  PROVE  /\ Append(q, x) \in Seq(S) /\ Len(Append(q, x)) = Len(q) + 1
         /\ Append(q, x)[Len(q) + 1] = x
         /\ \A i \in 1 .. Len(q) : Append(q, x)[i] = q[i]
  OBVIOUS

(* The at91 answers the command of the front. *)
LEMMA ExecuteKeeps == ASSUME AnswerInv, Execute PROVE AnswerInv'
<1>1. UNCHANGED <<queue, task, next, results>> /\ toDev # <<>> /\ toDev' = Tail(toDev)
  BY DEF Execute, server
<1>2. PICK c : FrontSent /\ toDev = <<[id |-> Head(queue), cmd |-> c]>>
  BY <1>1 DEF AnswerInv, WireInv
<1>3. toDev' = <<>> /\ Head(toDev).id = Head(queue)
  BY <1>1, <1>2
<1>4. Head(queue) \in TaskId /\ Head(queue) # 0
  <2>1. queue \in Seq(TaskId) /\ queue # <<>>
    BY <1>2 DEF AnswerInv, QueueInv, FrontSent
  <2>2. Head(queue) \in TaskId
    BY <2>1
  <2> QED
    BY <2>2, NumbersAssumption DEF TaskId
<1>5. \A i \in 1 .. Len(toSvr) : toSvr[i].id = 0
  BY <1>2 DEF AnswerInv, WireInv
<1>6. PICK a : /\ toSvr' = Append(toSvr, a) /\ a \in Frames
               /\ a.id = Head(queue) /\ a.code \notin Exception \cup {"DOORCLOSE"}
  <2>1. ASSUME NEW code, code \in {"ok", "fail", "none", "occupied"}
        PROVE  /\ Frame(Head(queue), code, None) \in Frames
               /\ Frame(Head(queue), code, None).id = Head(queue)
               /\ Frame(Head(queue), code, None).code \notin Exception \cup {"DOORCLOSE"}
    BY <1>4, <2>1 DEF Frame, Frames, Exception
  <2>2. /\ Frame(Head(queue), "map", Snapshot) \in Frames
        /\ Frame(Head(queue), "map", Snapshot).id = Head(queue)
        /\ Frame(Head(queue), "map", Snapshot).code \notin Exception \cup {"DOORCLOSE"}
    BY <1>4, SnapshotType DEF Frame, Frames, Exception
  <2>3. \/ toSvr' = Append(toSvr, Frame(Head(queue), "map", Snapshot))
        \/ \E code \in {"ok", "fail", "none", "occupied"} :
             toSvr' = Append(toSvr, Frame(Head(queue), code, None))
    BY <1>3, CodeAssumption DEF Execute
  <2> QED
    BY <2>1, <2>2, <2>3
<1>7. /\ toSvr' \in Seq(Frames) /\ Len(toSvr') = Len(toSvr) + 1
      /\ toSvr'[Len(toSvr) + 1] = a /\ Len(toSvr) \in Nat
      /\ \A i \in 1 .. Len(toSvr) : toSvr'[i].id = 0 /\ toSvr'[i] = toSvr[i]
  BY <1>5, <1>6, Appended DEF AnswerInv, WireInv
<1>8. FrontSent'
  BY <1>1, <1>2 DEF FrontSent
<1>9. ASSUME NEW i \in 1 .. Len(toSvr')
      PROVE  IF toSvr'[i].id = 0 THEN toSvr'[i].code \in Exception
             ELSE /\ FrontSent' /\ toSvr'[i].id = Head(queue')
                  /\ toSvr'[i].code \notin Exception \cup {"DOORCLOSE"}
                  /\ toDev' = <<>>
  <2>1. CASE i = Len(toSvr) + 1
    BY <1>1, <1>3, <1>4, <1>6, <1>7, <1>8, <2>1
  <2>2. CASE i \in 1 .. Len(toSvr)
    BY <1>5, <1>7, <2>2 DEF AnswerInv, WireInv
  <2> QED
    BY <1>7, <2>1, <2>2
<1>10. \A i, j \in 1 .. Len(toSvr') : toSvr'[i].id # 0 /\ toSvr'[j].id # 0 => i = j
  BY <1>7
<1>11. WireInv'
  BY <1>3, <1>7, <1>9, <1>10 DEF WireInv
<1>12. QueueInv' /\ AnswersMatch'
  BY <1>1 DEF AnswerInv, QueueInv, AnswersMatch
<1> QED
  BY <1>11, <1>12 DEF AnswerInv

(* A report of the at91 belongs to no command. *)
LEMMA HappenKeeps ==
  ASSUME "DOORCLOSE" \notin Event, AnswerInv, NEW e \in Event, Happen(e)
  PROVE  AnswerInv'
<1>1. UNCHANGED <<queue, task, next, results, toDev>>
  BY DEF Happen, server
<1>2. PICK a : /\ toSvr' = Append(toSvr, a) /\ a \in Frames /\ a.id = 0
               /\ a.code \in Exception
  <2>1. toSvr' = Append(toSvr, Frame(0, e, None))
    BY DEF Happen
  <2>2. e \in Exception
    BY EventAssumption
  <2>3. Frame(0, e, None) \in Frames
    BY DEF Frame, Frames
  <2> QED
    BY <2>1, <2>2, <2>3 DEF Frame
<1>3. /\ toSvr' \in Seq(Frames) /\ Len(toSvr') = Len(toSvr) + 1
      /\ toSvr'[Len(toSvr) + 1] = a /\ Len(toSvr) \in Nat
      /\ \A i \in 1 .. Len(toSvr) : toSvr'[i] = toSvr[i]
  BY <1>2, Appended DEF AnswerInv, WireInv
<1>4. FrontSent' = FrontSent
  BY <1>1 DEF FrontSent
<1>5. ASSUME NEW i \in 1 .. Len(toSvr')
      PROVE  IF toSvr'[i].id = 0 THEN toSvr'[i].code \in Exception
             ELSE /\ FrontSent' /\ toSvr'[i].id = Head(queue')
                  /\ toSvr'[i].code \notin Exception \cup {"DOORCLOSE"}
                  /\ toDev' = <<>>
  <2>1. CASE i = Len(toSvr) + 1
    BY <1>2, <1>3, <2>1
  <2>2. CASE i \in 1 .. Len(toSvr)
    BY <1>1, <1>3, <1>4, <2>2 DEF AnswerInv, WireInv
  <2> QED
    BY <1>3, <2>1, <2>2
<1>6. \A i, j \in 1 .. Len(toSvr') : toSvr'[i].id # 0 /\ toSvr'[j].id # 0 => i = j
  BY <1>2, <1>3 DEF AnswerInv, WireInv
<1>7. toDev' = <<>> \/ (FrontSent' /\ \E c : toDev' = <<[id |-> Head(queue'), cmd |-> c]>>)
  BY <1>1, <1>4 DEF AnswerInv, WireInv
<1>8. WireInv'
  BY <1>3, <1>5, <1>6, <1>7 DEF WireInv
<1>9. QueueInv' /\ AnswersMatch'
  BY <1>1 DEF AnswerInv, QueueInv, AnswersMatch
<1> QED
  BY <1>8, <1>9 DEF AnswerInv

LEMMA Behind ==
  ASSUME NEW S, NEW q \in Seq(S), NEW n \in 1 .. Len(q)
  PROVE  LET rest == SubSeq(q, n + 1, Len(q))
         IN  /\ rest \in Seq(S) /\ Len(rest) = Len(q) - n
             /\ \A i \in 1 .. Len(rest) : rest[i] = q[i + n] /\ i + n \in 1 .. Len(q)
  OBVIOUS

LEMMA InFront ==
  ASSUME NEW S, NEW q \in Seq(S), q # <<>>
  PROVE  /\ Tail(q) \in Seq(S) /\ Len(Tail(q)) = Len(q) - 1
         /\ \A i \in 1 .. Len(Tail(q)) : Tail(q)[i] = q[i + 1] /\ i + 1 \in 2 .. Len(q)
         /\ Head(q) = q[1] /\ Head(q) \in S /\ Len(q) \in Nat /\ Len(q) # 0
  OBVIOUS

(* The loop reads what arrived: without DOORCLOSE it takes nothing for an  *)
(* answer that is none.                                                    *)
LEMMA ReceiveKeeps ==
  ASSUME "DOORCLOSE" \notin Event, AnswerInv, NEW n \in 1 .. Len(toSvr), Receive(n)
  PROVE  AnswerInv'
<1> DEFINE first == toSvr[1]
           a == IF n > 1 /\ first.code = "map"
                THEN [first EXCEPT !.code = "other"] ELSE first
<1>1. UNCHANGED <<task, next, toDev>> /\ toSvr' = SubSeq(toSvr, n + 1, Len(toSvr))
  BY DEF Receive
<1>2. /\ toSvr \in Seq(Frames) /\ Len(toSvr) \in Nat /\ 1 \in 1 .. Len(toSvr)
      /\ first \in Frames
  BY DEF AnswerInv, WireInv
<1>3. /\ toSvr' \in Seq(Frames)
      /\ \A i \in 1 .. Len(toSvr') : /\ toSvr'[i] = toSvr[i + n]
                                     /\ i + n \in 1 .. Len(toSvr) /\ i + n # 1
  <2>1. /\ toSvr' \in Seq(Frames)
        /\ \A i \in 1 .. Len(toSvr') : toSvr'[i] = toSvr[i + n]
                                       /\ i + n \in 1 .. Len(toSvr)
    BY <1>1, <1>2, Behind
  <2>2. \A i \in 1 .. Len(toSvr') : i + n # 1
    OBVIOUS
  <2> QED
    BY <2>1, <2>2
<1>4. CASE UNCHANGED <<queue, results>>
  <2>1. FrontSent' = FrontSent
    BY <1>1, <1>4 DEF FrontSent
  <2>2. ASSUME NEW i \in 1 .. Len(toSvr')
        PROVE  IF toSvr'[i].id = 0 THEN toSvr'[i].code \in Exception
               ELSE /\ FrontSent' /\ toSvr'[i].id = Head(queue')
                    /\ toSvr'[i].code \notin Exception \cup {"DOORCLOSE"}
                    /\ toDev' = <<>>
    BY <1>1, <1>3, <1>4, <2>1 DEF AnswerInv, WireInv
  <2>3. ASSUME NEW i \in 1 .. Len(toSvr'), NEW j \in 1 .. Len(toSvr'),
               toSvr'[i].id # 0, toSvr'[j].id # 0
        PROVE  i = j
    <3>1. /\ i + n \in 1 .. Len(toSvr) /\ toSvr[i + n].id # 0
          /\ j + n \in 1 .. Len(toSvr) /\ toSvr[j + n].id # 0
      BY <1>3, <2>3
    <3>2. i + n = j + n
      BY <3>1 DEF AnswerInv, WireInv
    <3> QED
      BY <3>2
  <2>4. toDev' = <<>> \/ (FrontSent' /\ \E c : toDev' = <<[id |-> Head(queue'), cmd |-> c]>>)
    BY <1>1, <1>4, <2>1 DEF AnswerInv, WireInv
  <2>5. WireInv'
    BY <1>3, <2>2, <2>3, <2>4 DEF WireInv
  <2> QED
    BY <1>1, <1>4, <2>5 DEF AnswerInv, QueueInv, AnswersMatch
<1>5. CASE Seen(n) \cap Exception = {} /\ Process(a)
  <2>1. first.id # 0
    <3>1. first.code \in Seen(n)
      BY DEF Seen
    <3> QED
      BY <1>2, <1>5, <3>1 DEF AnswerInv, WireInv
  <2>2. FrontSent /\ first.id = Head(queue) /\ toDev = <<>> /\ queue # <<>>
    BY <1>2, <2>1 DEF AnswerInv, WireInv, FrontSent
  <2>3. a.id = first.id
    BY <1>2 DEF Frames
  <2>4. queue \in Seq(TaskId)
    BY DEF AnswerInv, QueueInv
  <2>5. queue' = Tail(queue)
    BY <1>5, <2>2 DEF Process
  <2>6. results' = [i \in DOMAIN results \cup {Head(queue)} |->
                      IF i = Head(queue) THEN a ELSE results[i]]
    BY <1>5, <2>2 DEF Process
  <2> HIDE DEF a, first
  <2>7. AnswersMatch'
    BY <2>2, <2>3, <2>6 DEF AnswerInv, AnswersMatch
  <2>8. /\ queue' \in Seq(TaskId) /\ Len(queue') = Len(queue) - 1
        /\ \A i \in 1 .. Len(queue') : queue'[i] = queue[i + 1] /\ i + 1 \in 2 .. Len(queue)
        /\ Len(queue) \in Nat
    BY <2>2, <2>4, <2>5, InFront
  <2>9. ASSUME NEW i \in 1 .. Len(queue') PROVE queue'[i] <= next'
    <3>1. i + 1 \in 1 .. Len(queue) /\ queue'[i] = queue[i + 1]
      BY <2>8
    <3> QED
      BY <1>1, <3>1 DEF AnswerInv, QueueInv
  <2>10. ASSUME NEW i \in 1 .. Len(queue'), NEW j \in 1 .. Len(queue'), i < j
         PROVE  queue'[i] < queue'[j]
    <3>1. i + 1 \in 1 .. Len(queue) /\ j + 1 \in 1 .. Len(queue) /\ i + 1 < j + 1
      BY <2>8, <2>10
    <3> QED
      BY <2>8, <3>1 DEF AnswerInv, QueueInv
  <2>11. ASSUME NEW i \in 1 .. Len(queue') PROVE ~task'[queue'[i]].sent
    BY <1>1, <2>8 DEF AnswerInv, QueueInv
  <2>12. \A i \in 2 .. Len(queue') : ~task'[queue'[i]].sent
    BY <2>8, <2>11
  <2>13. QueueInv'
    BY <1>1, <2>8, <2>9, <2>10, <2>12 DEF AnswerInv, QueueInv
  <2>14. ASSUME NEW i \in 1 .. Len(toSvr')
         PROVE  toSvr'[i].id = 0 /\ toSvr'[i].code \in Exception
    <3>1. toSvr[i + n].id = 0
      BY <1>2, <1>3, <2>1 DEF AnswerInv, WireInv, first
    <3> QED
      BY <1>3, <3>1 DEF AnswerInv, WireInv
  <2>15. WireInv'
    BY <1>1, <1>3, <2>2, <2>14 DEF WireInv
  <2> QED
    BY <2>7, <2>13, <2>15 DEF AnswerInv
<1>6. \/ UNCHANGED <<queue, results>>
      \/ Seen(n) \cap Exception = {} /\ Process(a)
  BY DEF Receive
<1> QED
  BY <1>4, <1>5, <1>6

(* Steps that touch neither the queue nor the wire; an answer may leave    *)
(* m_result_map.                                                           *)
LEMMA AwayKeeps ==
  ASSUME AnswerInv, UNCHANGED <<queue, task, next, toDev, toSvr>>,
         results' = results \/ \E t : Consume(t)
  PROVE  AnswerInv'
<1>1. QueueInv'
  BY DEF AnswerInv, QueueInv
<1>2. WireInv'
  BY WireKept DEF AnswerInv, SameFront, FrontSent
<1>3. AnswersMatch'
  BY DEF AnswerInv, AnswersMatch, Consume
<1> QED
  BY <1>1, <1>2, <1>3 DEF AnswerInv

LEMMA CallKeeps ==
  ASSUME AnswerInv, UNCHANGED <<toDev, toSvr>>,
         results' = results \/ \E t : Consume(t),
         NEW t, NEW c, NEW rec, NEW p, Call(t, c, rec, p)
  PROVE  AnswerInv'
<1>1. QueueInv' /\ SameFront
  BY CallQueue DEF AnswerInv
<1>2. WireInv'
  BY <1>1, WireKept DEF AnswerInv
<1>3. AnswersMatch'
  BY DEF AnswerInv, AnswersMatch, Consume
<1> QED
  BY <1>1, <1>2, <1>3 DEF AnswerInv

LEMMA GivesUpKeeps ==
  ASSUME AnswerInv, UNCHANGED <<queue, next, results, toDev, toSvr>>,
         NEW t, NEW p, NEW del, GivesUp(t, p, del)
  PROVE  AnswerInv'
<1>1. QueueInv' /\ SameFront
  BY FreeQueue DEF AnswerInv, GivesUp
<1>2. WireInv'
  BY <1>1, WireKept DEF AnswerInv
<1> QED
  BY <1>1, <1>2 DEF AnswerInv, AnswersMatch

LEMMA WorkKeeps == ASSUME AnswerInv, NEW w \in Worker, Work(w) PROVE AnswerInv'
<1>1. CASE \/ Take(w)
           \/ QueryStation(w)
           \/ LostParam(w)
           \/ StartReturn(w)
           \/ FinishReturn(w)
           \/ StartInventory(w)
           \/ FinishInventory(w)
           \/ RefuseMove(w)
           \/ ReserveDisc(w)
           \/ FinishMove(w)
           \/ \E k \in Reader : TakeDisc(w, k)
  <2>1. UNCHANGED <<queue, task, next, results, toDev, toSvr>>
    BY <1>1 DEF Take, QueryStation, LostParam, StartReturn, FinishReturn,
                StartInventory, FinishInventory, RefuseMove, ReserveDisc, FinishMove,
                TakeDisc, device
  <2> QED
    BY <2>1, AwayKeeps
<1>2. CASE FinishCall(w) \/ FinishUpdate(w)
  <2>1. UNCHANGED <<queue, task, next, toDev, toSvr>> /\ Consume(w)
    BY <1>2 DEF FinishCall, FinishUpdate, device
  <2> QED
    BY <2>1, AwayKeeps
<1>3. CASE StartCall(w)
  <2>1. PICK d : Call(w, Command(th[w].job, d), [th[w] EXCEPT !.disc = d], "answer")
    BY <1>3 DEF StartCall
  <2>2. UNCHANGED <<results, toDev, toSvr>>
    BY <1>3 DEF StartCall, device
  <2> QED
    BY <2>1, <2>2, CallKeeps
<1>4. CASE ReturnNext(w)
  <2>1. PICK d : Hide(w, d)
    BY <1>4 DEF ReturnNext
  <2>2. UNCHANGED <<results, toDev, toSvr>>
    BY <1>4 DEF ReturnNext, device
  <2> QED
    BY <2>1, <2>2, CallKeeps DEF Hide
<1> QED
  BY <1>1, <1>2, <1>3, <1>4 DEF Work

LEMMA StepKeeps == ASSUME AnswerInv, NEW t \in Thread, Step(t) PROVE AnswerInv'
<1>1. CASE HideDone(t) \/ MoveShut(t) \/ MoveFailed(t) \/ CloseDone(t)
  <2>1. UNCHANGED <<queue, task, next, toDev, toSvr>> /\ Consume(t)
    BY <1>1 DEF HideDone, MoveShut, MoveFailed, CloseDone, device
  <2> QED
    BY <2>1, AwayKeeps
<1>2. CASE Place(t)
  <2>1. PICK d : Call(t, Cmd("CMOV", d, th[t].disc), [th[t] EXCEPT !.drive = d], "move")
    BY <1>2 DEF Place
  <2>2. UNCHANGED <<results, toDev, toSvr>>
    BY <1>2 DEF Place, device
  <2> QED
    BY <2>1, <2>2, CallKeeps
<1>3. CASE MoveDone(t)
  <2>1. UNCHANGED <<toDev, toSvr>> /\ Consume(t)
        /\ Call(t, Cmd("CDIN", th[t].drive, None), th[t], "close")
    BY <1>3 DEF MoveDone, device
  <2> QED
    BY <2>1, CallKeeps
<1>4. CASE ReadDone(t)
  <2>1. UNCHANGED <<results, toDev, toSvr>> /\ Hide(t, th[t].drive)
    BY <1>4 DEF ReadDone, device
  <2> QED
    BY <2>1, CallKeeps DEF Hide
<1> QED
  BY <1>1, <1>2, <1>3, <1>4 DEF Step

LEMMA GiveUpKeeps == ASSUME AnswerInv, GiveUp PROVE AnswerInv'
<1>1. ASSUME NEW w \in Worker, LoseCall(w) PROVE AnswerInv'
  <2>1. UNCHANGED <<queue, next, results, toDev, toSvr>>
        /\ \E del : GivesUp(w, "answer", del)
    BY <1>1 DEF LoseCall
  <2> QED
    BY <2>1, GivesUpKeeps
<1>2. ASSUME NEW t \in Thread, HideLost(t) \/ PlaceLost(t) PROVE AnswerInv'
  <2>1. UNCHANGED <<queue, next, results, toDev, toSvr>>
        /\ \E p : GivesUp(t, p, TRUE)
    BY <1>2 DEF HideLost, PlaceLost
  <2> QED
    BY <2>1, GivesUpKeeps
<1> QED
  BY <1>1, <1>2 DEF GiveUp

LEMMA AnswerInit == Init => AnswerInv
<1> SUFFICES ASSUME Init PROVE AnswerInv
  OBVIOUS
<1>1. /\ queue = <<>> /\ next = 0 /\ results = <<>> /\ toDev = <<>> /\ toSvr = <<>>
      /\ task = [i \in TaskId |-> [cmd |-> Cmd("GMAP", 0, None), sent |-> FALSE,
                                  freed |-> FALSE]]
  BY DEF Init
<1>2. \A i \in TaskId : TaskShape(task[i]) /\ ~task[i].sent
  BY <1>1 DEF TaskShape
<1>3. QueueInv
  <2>1. queue \in Seq(TaskId) /\ Len(queue) = 0 /\ next \in 0 .. MaxTask
    BY <1>1, NumbersAssumption
  <2>2. task = [i \in TaskId |-> task[i]]
    BY <1>1
  <2> QED
    BY <1>2, <2>1, <2>2 DEF QueueInv
<1>4. WireInv
  BY <1>1 DEF WireInv
<1>5. AnswersMatch
  BY <1>1 DEF AnswersMatch
<1> QED
  BY <1>3, <1>4, <1>5 DEF AnswerInv

LEMMA AnswerStep ==
  ASSUME "DOORCLOSE" \notin Event
  PROVE  AnswerInv /\ [Next]_vars => AnswerInv'
<1> SUFFICES ASSUME AnswerInv, [Next]_vars PROVE AnswerInv'
  OBVIOUS
<1>1. ASSUME NEW w \in Worker, Work(w) PROVE AnswerInv'
  BY <1>1, WorkKeeps
<1>2. ASSUME NEW t \in Thread, Step(t) PROVE AnswerInv'
  BY <1>2, StepKeeps
<1>3. CASE GiveUp
  BY <1>3, GiveUpKeeps
<1>4. CASE \/ \E r \in Request : \E c \in Asked : Ask(r, c)
           \/ Connect
           \/ Authenticate
           \/ UNCHANGED vars
  <2>1. UNCHANGED <<queue, task, next, results, toDev, toSvr>>
    BY <1>4 DEF Ask, Connect, Authenticate, vars, server, device
  <2> QED
    BY <2>1, AwayKeeps
<1>5. CASE Send
  BY <1>5, SendKeeps
<1>6. ASSUME NEW n \in 1 .. Len(toSvr), Receive(n) PROVE AnswerInv'
  BY <1>6, ReceiveKeeps
<1>7. CASE Drop
  <2>1. UNCHANGED <<queue, task, next, results>> /\ toDev' = <<>> /\ toSvr' = <<>>
    BY <1>7 DEF Drop, server
  <2>2. QueueInv' /\ AnswersMatch'
    BY <2>1 DEF AnswerInv, QueueInv, AnswersMatch
  <2>3. WireInv'
    BY <2>1 DEF WireInv
  <2> QED
    BY <2>2, <2>3 DEF AnswerInv
<1>8. CASE Execute
  BY <1>8, ExecuteKeeps
<1>9. ASSUME NEW e \in Event, Happen(e) PROVE AnswerInv'
  BY <1>9, HappenKeeps
<1> QED
  BY <1>1, <1>2, <1>3, <1>4, <1>5, <1>6, <1>7, <1>8, <1>9 DEF Next, Loop

(* wait_for never hands a caller the answer to another task, unless the    *)
(* at91 reports a closing door: the message of the door is taken for an    *)
(* answer (the run machine_door_close).  The answers carry no id, so the   *)
(* argument is that only the front of m_task_queue is ever under way, once.*)
THEOREM AnswersInOrder ==
  ASSUME "DOORCLOSE" \notin Event
  PROVE  Spec => []AnswersMatch
<1>1. AnswerInv => AnswersMatch
  BY DEF AnswerInv
<1> QED
  BY <1>1, AnswerInit, AnswerStep, PTL DEF Spec

(* The at91 has at most one command of the server: m_task_queue's front is *)
(* sent once, and its successor after its answer.                          *)
THEOREM OneAtATime ==
  ASSUME "DOORCLOSE" \notin Event
  PROVE  Spec => []OneCommand
<1>1. ASSUME AnswerInv PROVE OneCommand
  <2> DEFINE A == {i \in DOMAIN toSvr : toSvr[i].id # 0}
  <2>1. DOMAIN toSvr = 1 .. Len(toSvr)
    BY <1>1 DEF AnswerInv, WireInv
  <2>2. CASE A = {}
    <3>1. Cardinality(A) = 0
      BY <2>2, FS_EmptySet
    <3>2. Len(toDev) = 0 \/ Len(toDev) = 1
      BY <1>1 DEF AnswerInv, WireInv
    <3>3. PICK k, l : k = Len(toDev) /\ l = Cardinality(A)
      OBVIOUS
    <3>4. l = 0 /\ (k = 0 \/ k = 1)
      BY <3>1, <3>2, <3>3
    <3>5. k + l <= 1
      BY <3>4
    <3> HIDE DEF A
    <3>6. Len(toDev) + Cardinality(A) <= 1
      BY <3>3, <3>5
    <3> QED
      BY <3>6 DEF OneCommand, A
  <2>3. CASE A # {}
    <3>1. PICK i \in A : A = {i}
      BY <1>1, <2>1, <2>3 DEF AnswerInv, WireInv
    <3>2. Cardinality(A) = 1
      BY <3>1, FS_Singleton
    <3>3. toDev = <<>>
      BY <1>1, <2>1, <3>1 DEF AnswerInv, WireInv
    <3>4. Len(toDev) = 0
      BY <3>3
    <3> HIDE DEF A
    <3>5. Len(toDev) + Cardinality(A) <= 1
      BY <3>2, <3>4
    <3> QED
      BY <3>5 DEF OneCommand, A
  <2> QED
    BY <2>2, <2>3
<1> QED
  BY <1>1, AnswerInit, AnswerStep, PTL DEF Spec
=============================================================================
