------------------------------ MODULE Machine -------------------------------
(***************************************************************************)
(* MachineServer (service/src/machine/svr_machine.cpp): the service that   *)
(* drives the disc library.  Three kinds of threads share its state:       *)
(*   - the csCtrl thread, which accepts requests (cs_machine_action);      *)
(*   - the workers of m_thread_pool, and the readers an inventory starts,  *)
(*     which queue commands and block in wait_for for the answer;          *)
(*   - MachineLoop, which sends the front of m_task_queue to the at91 and  *)
(*     hands what the at91 says to the front of the queue.                 *)
(* The at91 (the machine's controller) is external: it executes commands   *)
(* one at a time and says when a door opens or closes.                     *)
(*                                                                         *)
(* A dangling pointer, a null reference or a write outside m_storage is    *)
(* undefined behaviour: it sets undef and nothing happens afterwards.      *)
(***************************************************************************)
EXTENDS Integers, Sequences, FiniteSets

CONSTANTS
  Worker,     \* threads of m_thread_pool (4)
  Reader,     \* threads of an inventory's own pool (3)
  Request,    \* requests of the controller
  Asked,      \* the cmdsub values requests carry
  NDrive,     \* plugged recorders, numbered from 1
  NDisc,      \* discs of the magazine, by address from 1
  Garbage,    \* discs whose attributes may be set in the memory of m_storage,
              \* which nothing initialises
  Loaded,     \* drives that may hold a disc when the service starts
  None,       \* no disc, no thread, no request
  Event,      \* what the at91 says unasked
  Code,       \* how commands may end: "ok", and "fail" when it breaks down
  MaxTask, MaxEvent, MaxTimeout, MaxDrop   \* bounds

Drive   == 1 .. NDrive
Slot    == 0             \* the other places of a disc
Mailbox == NDrive + 1
Printer == NDrive + 2
Disc    == 1 .. NDisc
Helper == Worker \X Reader
Thread == Worker \cup Helper
TaskId == 1 .. MaxTask

Exception == {"DOOROPENREQUEST", "DOOROPEN", "MAGPLUGOUT", "MAGPLUGIN"}

(* The values of cmdsub that do_action knows *)
Known == {"mailbox in", "mailbox out", "inventory", "query station",
          "return disc", "mailbox export disc", "mailbox import disc",
          "printer export disc", "printer import disc", "move disc to cdrom"}

ASSUME NumbersAssumption ==
  {NDrive, NDisc, MaxTask, MaxEvent, MaxTimeout, MaxDrop} \subseteq Nat
ASSUME NoneAssumption ==
  None \notin Disc /\ None \notin Thread /\ None \notin Request \cup Asked \cup Known
ASSUME ThreadAssumption == Worker \cap Helper = {}
ASSUME EventAssumption == Event \subseteq Exception \cup {"DOORCLOSE"}
ASSUME CodeAssumption  == "ok" \in Code /\ Code \subseteq {"ok", "fail"}
ASSUME StartAssumption == Garbage \subseteq Disc /\ Loaded \subseteq Drive

VARIABLES
  phase,    \* m_current_state
  link,     \* to the at91: "off", "on" (connected), "auth" (authenticated)
  queue,    \* m_task_queue: the ids (fromId) of the tasks
  task,     \* TaskId -> the command, whether it is "sent" and the object freed
  next,     \* m_atomic: the ids handed out
  results,  \* m_result_map: ids that have an answer -> answer
  pool,     \* m_tasks of m_thread_pool
  th,       \* Thread -> what it is doing
  lock,     \* holder of m_action_mtx
  table,    \* m_storage
  todo,     \* Worker -> discs its inventory still has to hand to a reader
  asked,    \* Request -> cmdsub once the request arrived
  reply,    \* Request -> the answers it got
  toDev,    \* commands on their way to the at91, with the id of their task
  toSvr,    \* frames on their way back
  at,       \* Disc -> where the disc is
  alarm,    \* history: an exception was received and no DOORCLOSE since
  undef,    \* undefined behaviour happened
  spent     \* events, timeouts and disconnections used up

server == <<phase, queue, task, next, results, pool, th, lock, table, todo>>
device == <<link, toDev, toSvr, at, alarm, spent>>
client == <<asked, reply>>
vars   == <<server, device, client, undef>>

-----------------------------------------------------------------------------
Idle == [job |-> "idle", pc |-> "idle", req |-> None, id |-> 0,
         drive |-> 0, disc |-> None]

(* The at91's view of the machine, the payload of its answer to GMAP *)
Snapshot ==
  [held   |-> [r \in Drive |-> IF \E d \in Disc : at[d] = r
                               THEN CHOOSE d \in Disc : at[d] = r ELSE None],
   exist  |-> {d \in Disc : at[d] = Slot},
   mailed |-> IF \E d \in Disc : at[d] = Mailbox
              THEN CHOOSE d \in Disc : at[d] = Mailbox ELSE None]

Cmd(op, drive, disc) == [op |-> op, drive |-> drive, disc |-> disc]

Say(r, what) == [reply EXCEPT ![r] = Append(@, what)]

Become(t, record) == th' = [th EXCEPT ![t] = record]

(* Make a task for command c and push it; the thread then waits at label p *)
(* for the answer.  rec holds what the thread keeps meanwhile.             *)
Call(t, c, rec, p) ==
  /\ next < MaxTask
  /\ next' = next + 1
  /\ task' = [task EXCEPT ![next + 1] = [cmd |-> c, sent |-> FALSE,
                                         freed |-> FALSE]]
  /\ queue' = Append(queue, next + 1)
  /\ Become(t, [rec EXCEPT !.id = next + 1, !.pc = p])

Init ==
  /\ phase = "INIT" /\ link = "off"
  /\ queue = <<>> /\ next = 0 /\ results = <<>>
  /\ task = [i \in TaskId |-> [cmd |-> Cmd("GMAP", 0, None), sent |-> FALSE,
                               freed |-> FALSE]]
  /\ pool = << [job |-> "update", req |-> None] >>   \* MachineServer::Init
  /\ th = [t \in Thread |-> Idle]
  /\ lock = None
  /\ \E b \in SUBSET Garbage : \E c \in SUBSET Garbage :
       table = [have |-> {}, busy |-> {}, media |-> [r \in Drive |-> None],
                exist |-> {}, picked |-> {}, checked |-> c, blank |-> b,
                mailed |-> None]
  /\ todo = [w \in Worker |-> {}]
  /\ asked = [r \in Request |-> None]
  /\ reply = [r \in Request |-> <<>>]
  /\ toDev = <<>> /\ toSvr = <<>>
  /\ at \in [Disc -> Loaded \cup {Slot}]
  /\ \A d, e \in Disc : d # e => at[d] = Slot \/ at[d] # at[e]
  /\ alarm = FALSE /\ undef = FALSE
  /\ spent = [event |-> 0, timeout |-> 0, drop |-> 0]

-----------------------------------------------------------------------------
(* cs_machine_action and do_action(NORMAL), on the csCtrl thread.          *)
(* Mutant: the busy phases do not turn requests away. *)
AcceptsBusy == link # "off" /\ phase # "INIT"

Accepts == link # "off" /\ phase \in {"RUN", "EXCEPTION"}

(* Mutant: a refused request is executed all the same. *)
AskNoReturn(r, c) ==
  /\ asked[r] = None
  /\ asked' = [asked EXCEPT ![r] = c]
  /\ reply' = IF ~Accepts \/ c = "" THEN Say(r, "refused") ELSE reply
  /\ pool' = IF c \in Known THEN Append(pool, [job |-> c, req |-> r]) ELSE pool
  /\ UNCHANGED <<phase, queue, task, next, results, th, lock, table, todo,
                 device, undef>>

Ask(r, c) ==
  /\ asked[r] = None
  /\ asked' = [asked EXCEPT ![r] = c]
  /\ reply' = IF ~Accepts \/ c = "" THEN Say(r, "refused") ELSE reply
  /\ IF Accepts /\ c \in Known
     THEN pool' = Append(pool, [job |-> c, req |-> r]) ELSE UNCHANGED pool
  /\ phase' = IF ~Accepts THEN phase
              ELSE CASE c = "inventory"   -> "INVENTORY"
                     [] c = "return disc" -> "RETURNDISC"
                     [] OTHER             -> phase
  /\ UNCHANGED <<queue, task, next, results, th, lock, table, todo, device,
                 undef>>

(* CRCThreadPool::run: an idle worker takes the first job. *)
Take(w) ==
  /\ th[w] = Idle
  /\ pool # <<>>
  /\ Become(w, [Idle EXCEPT !.job = Head(pool).job, !.req = Head(pool).req,
                            !.pc = "start"])
  /\ pool' = Tail(pool)
  /\ UNCHANGED <<phase, queue, task, next, results, lock, table, todo, device,
                 client, undef>>

(* query_station answers from m_storage. *)
QueryStation(w) ==
  /\ th[w].job = "query station" /\ th[w].pc = "start"
  /\ reply' = Say(th[w].req, "data")
  /\ Become(w, Idle)
  /\ UNCHANGED <<phase, queue, task, next, results, pool, lock, table, todo,
                 asked, device, undef>>

(* The jobs that send one command: update_storage_info, mailbox_in,        *)
(* mailbox_out and the manual export and import jobs.  None of them takes  *)
(* m_action_mtx, not even the printer import, which carries its disc by    *)
(* move_disc2eqpt() as move_disc2cdrom does.                               *)
Command(job, d) ==
  CASE job = "update"              -> Cmd("GMAP", 0, None)
    [] job = "mailbox in"          -> Cmd("MLIN", 0, None)
    [] job = "mailbox out"         -> Cmd("MLOU", 0, None)
    [] job = "mailbox export disc" -> Cmd("EXPO", 0, d)
    [] job = "mailbox import disc" -> Cmd("IMPO", 0, None)
    [] job = "printer export disc" -> Cmd("PROU", 0, None)
    [] job = "printer import disc" -> Cmd("PRIN", 0, d)

NamesDisc == {"mailbox export disc", "printer import disc"}
OneCall   == {"update", "mailbox in", "mailbox out", "mailbox import disc",
              "printer export disc"} \cup NamesDisc

StartCall(w) ==
  /\ th[w].pc = "start" /\ th[w].job \in OneCall
  /\ \E d \in IF th[w].job \in NamesDisc THEN Disc ELSE {None} :
       Call(w, Command(th[w].job, d), [th[w] EXCEPT !.disc = d], "answer")
  /\ UNCHANGED <<phase, results, pool, lock, table, todo, device, client, undef>>

(* The request lacks its cdaddr parameter. *)
LostParam(w) ==
  /\ th[w].pc = "start" /\ th[w].job \in NamesDisc
  /\ reply' = Say(th[w].req, "lost param")
  /\ Become(w, Idle)
  /\ UNCHANGED <<phase, queue, task, next, results, pool, lock, table, todo,
                 asked, device, undef>>

-----------------------------------------------------------------------------
(* wait_for ends with the answer a, which leaves m_result_map. *)
Answered(t, p) == th[t].pc = p /\ th[t].id \in DOMAIN results
Answer(t)      == results[th[t].id]
Consume(t)     == results' = [i \in DOMAIN results \ {th[t].id} |-> results[i]]

(* wait_for gives up after its 60 seconds; del says whether the caller     *)
(* then deletes the task, which may still be in the queue.                 *)
GivesUp(t, p, del) ==
  /\ th[t].pc = p /\ th[t].id \notin DOMAIN results
  /\ spent.timeout < MaxTimeout
  /\ spent' = [spent EXCEPT !.timeout = @ + 1]
  /\ task' = [task EXCEPT ![th[t].id].freed = del]

(* Mutant: the client gets the at91's code as it is. *)
SaysCode(job, a) == IF job = "printer export disc" THEN a.code ELSE "data"

(* What an answered one-command job says and notes in m_storage.  The exit *)
(* of the printer has its success test the wrong way round.  An import     *)
(* writes the attributes of the disc the table says was exported: without  *)
(* one the write is outside media_attr.                                    *)
Says(job, a) ==
  CASE job = "printer export disc" -> IF a.code # "ok" THEN "success" ELSE "data"
    [] job \in {"mailbox import disc", "printer import disc"} ->
         IF a.code = "ok" THEN "success" ELSE "data"
    [] OTHER -> "data"

Exported(d)  == [table EXCEPT !.exist = @ \ {d}, !.picked = @ \cup {d},
                              !.checked = @ \ {d}, !.blank = @ \ {d},
                              !.mailed = d]
Imported     == [table EXCEPT !.exist = @ \cup {table.mailed},
                              !.checked = @ \ {table.mailed}, !.mailed = None]
ImportedTray == [table EXCEPT !.exist = @ \ {table.mailed},
                              !.checked = @ \cup {table.mailed},
                              !.picked = @ \ {table.mailed}, !.mailed = None]

FinishCall(w) ==
  LET job == th[w].job
      a   == Answer(w)
  IN /\ Answered(w, "answer") /\ job # "update"
     /\ Consume(w)
     /\ reply' = Say(th[w].req, Says(job, a))
     /\ CASE job = "mailbox export disc" /\ a.code = "ok" ->
               table' = Exported(th[w].disc) /\ UNCHANGED undef
          [] job = "mailbox import disc" /\ a.code = "ok" ->
               /\ table' \in {Imported, ImportedTray}
               /\ undef' = (table.mailed = None)
          [] OTHER -> UNCHANGED <<table, undef>>
     /\ Become(w, Idle)
     /\ UNCHANGED <<phase, queue, task, next, pool, lock, todo, asked, device>>

(* mailbox_in, mailbox_out and mailbox_import answer through the result    *)
(* they did not get; mailbox_export says nothing.                          *)
LoseCall(w) ==
  LET job == th[w].job
  IN /\ GivesUp(w, "answer", job \notin {"update", "mailbox export disc"})
     /\ undef' = (job \in {"mailbox in", "mailbox out", "mailbox import disc"})
     /\ reply' = IF job \in {"printer export disc", "printer import disc"}
                 THEN Say(th[w].req, "timeout") ELSE reply
     /\ Become(w, Idle)
     /\ UNCHANGED <<phase, queue, next, results, pool, lock, table, todo, asked,
                    link, toDev, toSvr, at, alarm>>

(* Mutant: the addresses of the discs in the drives are not taken over. *)
UpdatedNoMedia(s) ==
  [table EXCEPT !.have = {r \in Drive : s.held[r] # None},
                !.busy = {r \in Drive : s.held[r] # None},
                !.exist = s.exist, !.picked = {}, !.mailed = s.mailed]

(* update_storage_info takes over the at91's view, and goes on to return   *)
(* the discs.  An answer of another length is not a MidasBox.              *)
Updated(s) ==
  [table EXCEPT !.have = {r \in Drive : s.held[r] # None},
                !.busy = {r \in Drive : s.held[r] # None},
                !.media = s.held, !.exist = s.exist, !.picked = {},
                !.mailed = s.mailed]

FinishUpdate(w) ==
  LET a == Answer(w)
  IN /\ Answered(w, "answer") /\ th[w].job = "update"
     /\ Consume(w)
     /\ IF a.code = "map"
        THEN /\ table' = Updated(a.map)
             /\ phase' = "RUN"
             /\ Become(w, [th[w] EXCEPT !.pc = "return", !.drive = 1])
        ELSE /\ Become(w, Idle)
             /\ UNCHANGED <<table, phase>>
     /\ UNCHANGED <<queue, task, next, pool, lock, todo, device, client, undef>>

-----------------------------------------------------------------------------
(* cdrom_return_disc(): one drive after the other, as long as it works.    *)
StartReturn(w) ==
  /\ th[w].job = "return disc" /\ th[w].pc = "start"
  /\ Become(w, [th[w] EXCEPT !.pc = "return", !.drive = 1])
  /\ UNCHANGED <<phase, queue, task, next, results, pool, lock, table, todo,
                 device, client, undef>>

Hide(t, r) ==
  Call(t, Cmd("HIDE", r, None),
       [th[t] EXCEPT !.drive = r, !.disc = table.media[r]], "hide")

ReturnNext(w) ==
  /\ th[w].pc = "return"
  /\ \E r \in table.have :
       /\ r >= th[w].drive
       /\ \A q \in table.have : q >= th[w].drive => r <= q
       /\ Hide(w, r)
  /\ UNCHANGED <<phase, results, pool, lock, table, todo, device, client, undef>>

FinishReturn(w) ==
  /\ th[w].pc = "return"
  /\ \A r \in table.have : r < th[w].drive
  /\ IF th[w].job = "return disc"
     THEN phase' = "RUN" /\ reply' = Say(th[w].req, "data")
     ELSE UNCHANGED <<phase, reply>>
  /\ Become(w, Idle)
  /\ UNCHANGED <<queue, task, next, results, pool, lock, table, todo, asked,
                 device, undef>>

(* The thread goes on after a HIDE that worked or did not: a reader is     *)
(* done, the loop over the drives continues or breaks.                     *)
AfterHide(t, worked) ==
  IF th[t].job = "read" THEN Idle
  ELSE [th[t] EXCEPT !.pc = "return",
                     !.drive = IF worked THEN @ + 1 ELSE NDrive + 1]

(* Mutant: the drive keeps the address of its disc. *)
EmptiedKept(r) == [table EXCEPT !.have = @ \ {r}, !.busy = @ \ {r}]

Emptied(r) == [table EXCEPT !.have = @ \ {r}, !.busy = @ \ {r},
                            !.media[r] = None]

(* The disc goes back under the address the drive had when HIDE was made;  *)
(* an empty drive has none, and media_attr is written out of bounds.       *)
HideDone(t) ==
  LET a == Answer(t)
      r == th[t].drive
      d == th[t].disc
  IN /\ Answered(t, "hide")
     /\ Consume(t)
     /\ table' = CASE a.code = "ok"   -> [Emptied(r) EXCEPT !.exist = @ \cup {d}]
                   [] a.code = "none" -> Emptied(r)
                   [] OTHER           -> table
     /\ undef' = (a.code = "ok" /\ d = None)
     /\ Become(t, AfterHide(t, a.code = "ok"))
     /\ UNCHANGED <<phase, queue, task, next, pool, lock, todo, device, client>>

HideLost(t) ==
  /\ GivesUp(t, "hide", TRUE)
  /\ Become(t, AfterHide(t, FALSE))
  /\ UNCHANGED <<phase, queue, next, results, pool, lock, table, todo, client,
                 link, toDev, toSvr, at, alarm, undef>>

-----------------------------------------------------------------------------
(* inventory.  The loop over a magazine starts at index 1 of media_attr,   *)
(* so it never looks at the disc with address 1.                           *)
Unread == {d \in table.exist : d # 1 /\ d \notin table.checked \cup table.picked}

StartInventory(w) ==
  /\ th[w].job = "inventory" /\ th[w].pc = "start"
  /\ todo' = [todo EXCEPT ![w] = Unread]
  /\ Become(w, [th[w] EXCEPT !.pc = "inventory"])
  /\ UNCHANGED <<phase, queue, task, next, results, pool, lock, table, device,
                 client, undef>>

(* waitForAllDone, and the join in stop() *)
FinishInventory(w) ==
  /\ th[w].pc = "inventory"
  /\ todo[w] = {} /\ \A k \in Reader : th[<<w, k>>] = Idle
  /\ reply' = Say(th[w].req, "data")
  /\ phase' = "RUN"
  /\ Become(w, Idle)
  /\ UNCHANGED <<queue, task, next, results, pool, lock, table, todo, asked,
                 device, undef>>

(* A reader of this inventory starts get_discinfo for the next disc. *)
TakeDisc(w, k) ==
  LET t == <<w, k>>
  IN /\ th[t] = Idle
     /\ \E d \in todo[w] :
          /\ \A e \in todo[w] : d <= e
          /\ todo' = [todo EXCEPT ![w] = @ \ {d}]
          /\ table' = [table EXCEPT !.picked = @ \cup {d}]
          /\ Become(t, [Idle EXCEPT !.job = "read", !.pc = "place", !.disc = d])
     /\ UNCHANGED <<phase, queue, task, next, results, pool, lock, device,
                    client, undef>>

(* move_auto_disc2cdrom: the image is not there or not an image, or there  *)
(* is no suitable disc, or get_blank_disc reserves one.                    *)
RefuseMove(w) ==
  /\ th[w].job = "move disc to cdrom" /\ th[w].pc = "start"
  /\ reply' = Say(th[w].req, "error")
  /\ phase' = "RUN"
  /\ Become(w, Idle)
  /\ UNCHANGED <<queue, task, next, results, pool, lock, table, todo, asked,
                 device, undef>>

(* Mutant: get_blank_disc without isSet. *)
ReserveUnset(w) ==
  /\ th[w].job = "move disc to cdrom" /\ th[w].pc = "start"
  /\ \E d \in table.exist \cap table.blank :
       Become(w, [th[w] EXCEPT !.pc = "place", !.disc = d])
  /\ UNCHANGED <<phase, queue, task, next, results, pool, lock, table, todo,
                 device, client, undef>>

ReserveDisc(w) ==
  /\ th[w].job = "move disc to cdrom" /\ th[w].pc = "start"
  /\ \E d \in table.exist \cap table.blank :
       /\ table' = [table EXCEPT !.blank = @ \ {d}]
       /\ Become(w, [th[w] EXCEPT !.pc = "place", !.disc = d])
  /\ UNCHANGED <<phase, queue, task, next, results, pool, lock, todo, device,
                 client, undef>>

(* move_disc2cdrom, holding m_action_mtx: to the first free drive whose    *)
(* tray check_cdrom_status finds open or empty, which may be any of them.  *)
(* While there is none the thread lets go of the lock, sleeps and tries    *)
(* again.                                                                  *)
FreeDrive ==
  {r \in Drive : r \notin table.busy \cup table.have /\ table.media[r] = None}

(* Mutant: without m_action_mtx. *)
PlaceUnlocked(t) ==
  /\ th[t].pc = "place"
  /\ \E r \in FreeDrive :
       Call(t, Cmd("CMOV", r, th[t].disc), [th[t] EXCEPT !.drive = r], "move")
  /\ UNCHANGED <<phase, results, pool, lock, table, todo, device, client, undef>>

Place(t) ==
  /\ th[t].pc = "place" /\ lock = None
  /\ \E r \in FreeDrive :
       Call(t, Cmd("CMOV", r, th[t].disc), [th[t] EXCEPT !.drive = r], "move")
  /\ lock' = t
  /\ UNCHANGED <<phase, results, pool, table, todo, device, client, undef>>

Filled(t) == [table EXCEPT !.have = @ \cup {th[t].drive},
                           !.busy = @ \cup {th[t].drive},
                           !.media[th[t].drive] = th[t].disc]

(* The disc arrived and the tray is open: it is closed, still under the    *)
(* lock.                                                                   *)
MoveDone(t) ==
  /\ Answered(t, "move") /\ Answer(t).code = "ok"
  /\ Consume(t)
  /\ table' = Filled(t)
  /\ Call(t, Cmd("CDIN", th[t].drive, None), th[t], "close")
  /\ UNCHANGED <<phase, pool, lock, todo, device, client, undef>>

(* The disc arrived and the tray is closed. *)
MoveShut(t) ==
  /\ Answered(t, "move") /\ Answer(t).code = "ok"
  /\ Consume(t)
  /\ table' = Filled(t)
  /\ lock' = None
  /\ Become(t, [th[t] EXCEPT !.pc = "placed"])
  /\ UNCHANGED <<phase, queue, task, next, pool, todo, device, client, undef>>

(* No disc at the address: NODISC.  Any other failure returns the drive as *)
(* if the disc were in it.                                                 *)
MoveFailed(t) ==
  /\ Answered(t, "move") /\ Answer(t).code # "ok"
  /\ Consume(t)
  /\ lock' = None
  /\ Become(t, IF Answer(t).code = "none" /\ th[t].job = "read" THEN Idle
               ELSE [th[t] EXCEPT !.pc = "placed"])
  /\ UNCHANGED <<phase, queue, task, next, pool, table, todo, device, client,
                 undef>>

CloseDone(t) ==
  /\ Answered(t, "close")
  /\ Consume(t)
  /\ lock' = None
  /\ Become(t, [th[t] EXCEPT !.pc = "placed"])
  /\ UNCHANGED <<phase, queue, task, next, pool, table, todo, device, client,
                 undef>>

PlaceLost(t) ==
  /\ \E p \in {"move", "close"} : GivesUp(t, p, TRUE)
  /\ lock' = None
  /\ Become(t, [th[t] EXCEPT !.pc = "placed"])
  /\ UNCHANGED <<phase, queue, next, results, pool, table, todo, client, link,
                 toDev, toSvr, at, alarm, undef>>

(* A reader returns the disc after reading it; the other job ends here. *)
ReadDone(t) ==
  /\ th[t].pc = "placed" /\ th[t].job = "read"
  /\ Hide(t, th[t].drive)
  /\ UNCHANGED <<phase, results, pool, lock, table, todo, device, client, undef>>

FinishMove(w) ==
  /\ th[w].pc = "placed" /\ th[w].job = "move disc to cdrom"
  /\ reply' = Say(th[w].req, "success")
  /\ phase' = "RUN"
  /\ Become(w, Idle)
  /\ UNCHANGED <<queue, task, next, results, pool, lock, table, todo, asked,
                 device, undef>>

-----------------------------------------------------------------------------
(* Mutant: the front is sent again while its answer is awaited. *)
SendAgain ==
  /\ link = "auth" /\ phase # "EXCEPTION" /\ queue # <<>>
  /\ ~task[Head(queue)].freed
  /\ Len(toDev) < 2
  /\ toDev' = Append(toDev, [id |-> Head(queue), cmd |-> task[Head(queue)].cmd])
  /\ UNCHANGED <<server, client, link, toSvr, at, alarm, spent, undef>>

(* Mutant: every task is sent as soon as it is queued. *)
SendAll ==
  /\ link = "auth" /\ phase # "EXCEPTION"
  /\ \E i \in DOMAIN queue :
       /\ ~task[queue[i]].sent
       /\ task' = [task EXCEPT ![queue[i]].sent = TRUE]
       /\ toDev' = Append(toDev, [id |-> queue[i], cmd |-> task[queue[i]].cmd])
  /\ UNCHANGED <<phase, queue, next, results, pool, th, lock, table, todo,
                 client, link, toSvr, at, alarm, spent, undef>>

(* Mutant: the loop sends nothing before the service runs. *)
SendRunning ==
  LET f == Head(queue)
  IN /\ link = "auth" /\ phase \notin {"INIT", "EXCEPTION"} /\ queue # <<>>
     /\ IF task[f].freed
        THEN undef' = TRUE /\ UNCHANGED <<task, toDev>>
        ELSE /\ ~task[f].sent
             /\ task' = [task EXCEPT ![f].sent = TRUE]
             /\ toDev' = Append(toDev, [id |-> f, cmd |-> task[f].cmd])
             /\ UNCHANGED undef
     /\ UNCHANGED <<phase, queue, next, results, pool, th, lock, table, todo,
                    client, link, toSvr, at, alarm, spent>>

(* MachineLoop.  It sends the front of the queue once, whatever became of  *)
(* it, unless the phase is EXCEPTION.                                      *)
Send ==
  LET f == Head(queue)
  IN /\ link = "auth" /\ phase # "EXCEPTION" /\ queue # <<>>
     /\ IF task[f].freed
        THEN undef' = TRUE /\ UNCHANGED <<task, toDev>>
        ELSE /\ ~task[f].sent
             /\ task' = [task EXCEPT ![f].sent = TRUE]
             /\ toDev' = Append(toDev, [id |-> f, cmd |-> task[f].cmd])
             /\ UNCHANGED undef
     /\ UNCHANGED <<phase, queue, next, results, pool, th, lock, table, todo,
                    client, link, toSvr, at, alarm, spent>>

(* Mutant: the answer to a command that failed is not filed. *)
ProcessGood(a) ==
  IF queue = <<>>
  THEN UNCHANGED <<queue, results, undef>>
  ELSE /\ queue' = Tail(queue)
       /\ results' = IF a.code \in {"ok", "map"}
                     THEN [i \in DOMAIN results \cup {Head(queue)} |->
                             IF i = Head(queue) THEN a ELSE results[i]]
                     ELSE results
       /\ undef' = task[Head(queue)].freed

(* OnProcess4Equipment: a is the answer to the front of the queue. *)
Process(a) ==
  IF queue = <<>>
  THEN UNCHANGED <<queue, results, undef>>
  ELSE /\ queue' = Tail(queue)
       /\ results' = [i \in DOMAIN results \cup {Head(queue)} |->
                        IF i = Head(queue) THEN a ELSE results[i]]
       /\ undef' = task[Head(queue)].freed

(* The text protocol has no frames: all that arrived before the loop reads *)
(* is one message, of which strncmp sees the beginning and strstr what     *)
(* comes before the NULs of a MidasBox.  A MidasBox with anything behind   *)
(* it has the wrong length.                                                *)
Seen(n) == {toSvr[i].code : i \in {j \in 1 .. n : \A k \in 1 .. (j - 1) :
                                                    toSvr[k].code # "map"}}

Receive(n) ==
  LET got    == Seen(n)
      first  == toSvr[1]
      a      == IF n > 1 /\ first.code = "map"
                THEN [first EXCEPT !.code = "other"] ELSE first
  IN /\ link = "auth" /\ n \in 1 .. Len(toSvr)
     /\ toSvr' = SubSeq(toSvr, n + 1, Len(toSvr))
     /\ IF got \cap Exception # {}
        THEN /\ phase' = "EXCEPTION" /\ alarm' = TRUE
             /\ UNCHANGED <<pool, queue, results, undef>>
        ELSE /\ IF "DOORCLOSE" \in got
                THEN /\ phase' = "INVENTORY" /\ alarm' = FALSE
                     /\ pool' = Append(pool, [job |-> "update", req |-> None])
                ELSE UNCHANGED <<phase, alarm, pool>>
             /\ Process(a)
     /\ UNCHANGED <<task, next, th, lock, table, todo, client, link, toDev, at,
                    spent>>

Connect ==
  /\ link = "off" /\ link' = "on"
  /\ UNCHANGED <<server, client, toDev, toSvr, at, alarm, spent, undef>>

Authenticate ==
  /\ link = "on" /\ link' = "auth"
  /\ UNCHANGED <<server, client, toDev, toSvr, at, alarm, spent, undef>>

(* The connection breaks; what was under way is lost. *)
Drop ==
  /\ link # "off" /\ link' = "off"
  /\ spent.drop < MaxDrop
  /\ spent' = [spent EXCEPT !.drop = @ + 1]
  /\ toDev' = <<>> /\ toSvr' = <<>>
  /\ UNCHANGED <<server, client, at, alarm, undef>>

-----------------------------------------------------------------------------
(* The at91 executes a command and answers.  to is where the command takes *)
(* its disc, None if it cannot.                                            *)
Frame(id, code, map) == [id |-> id, code |-> code, map |-> map]

Subject(c) ==
  CASE c.op \in {"CMOV", "PRIN", "EXPO"} -> {d \in Disc : d = c.disc /\ at[d] = Slot}
    [] c.op = "HIDE" -> {d \in Disc : at[d] = c.drive}
    [] c.op = "IMPO" -> {d \in Disc : at[d] = Mailbox}
    [] c.op = "PROU" -> {d \in Disc : at[d] = Printer}
    [] OTHER         -> {}

Target(c) ==
  CASE c.op = "CMOV" -> c.drive
    [] c.op = "PRIN" -> Printer
    [] c.op = "EXPO" -> Mailbox
    [] OTHER         -> Slot

Execute ==
  LET id == Head(toDev).id
      c  == Head(toDev).cmd
      Answers(code) == toSvr' = Append(toSvr, Frame(id, code, None))
  IN /\ toDev # <<>>
     /\ toDev' = Tail(toDev)
     /\ \/ /\ c.op = "GMAP"
           /\ toSvr' = Append(toSvr, Frame(id, "map", Snapshot))
           /\ UNCHANGED at
        \/ /\ c.op \in {"CDIN", "MLIN", "MLOU"}
           /\ \E code \in Code : Answers(code)
           /\ UNCHANGED at
        \/ /\ c.op \in {"CMOV", "HIDE", "PRIN", "EXPO", "IMPO", "PROU"}
           /\ IF Subject(c) = {} THEN Answers("none") /\ UNCHANGED at
              ELSE IF Target(c) # Slot /\ \E d \in Disc : at[d] = Target(c)
              THEN Answers("occupied") /\ UNCHANGED at
              ELSE \E code \in Code :
                     /\ Answers(code)
                     /\ at' = IF code = "ok"
                              THEN [d \in Disc |-> IF d \in Subject(c)
                                                   THEN Target(c) ELSE at[d]]
                              ELSE at
     /\ UNCHANGED <<server, client, link, alarm, spent, undef>>

(* Somebody opens or closes a door, or plugs a magazine. *)
Happen(e) ==
  /\ link = "auth" /\ spent.event < MaxEvent
  /\ spent' = [spent EXCEPT !.event = @ + 1]
  /\ toSvr' = Append(toSvr, Frame(0, e, None))
  /\ UNCHANGED <<server, client, link, toDev, at, alarm, undef>>

Work(w) ==
  \/ Take(w) \/ QueryStation(w) \/ StartCall(w) \/ LostParam(w) \/ FinishCall(w)
  \/ FinishUpdate(w) \/ StartReturn(w) \/ ReturnNext(w)
  \/ FinishReturn(w) \/ StartInventory(w) \/ FinishInventory(w)
  \/ RefuseMove(w) \/ ReserveDisc(w) \/ FinishMove(w)
  \/ \E k \in Reader : TakeDisc(w, k)

Step(t) ==
  \/ HideDone(t) \/ Place(t) \/ MoveDone(t) \/ MoveShut(t) \/ MoveFailed(t)
  \/ CloseDone(t) \/ ReadDone(t)

GiveUp == \/ \E w \in Worker : LoseCall(w)
          \/ \E t \in Thread : HideLost(t) \/ PlaceLost(t)

Loop == \/ Send \/ Connect
        \/ \E n \in 1 .. Len(toSvr) : Receive(n)

Next ==
  /\ ~undef
  /\ \/ \E r \in Request : \E c \in Asked : Ask(r, c)
     \/ \E w \in Worker : Work(w)
     \/ \E t \in Thread : Step(t)
     \/ GiveUp \/ Loop \/ Authenticate \/ Drop \/ Execute
     \/ \E e \in Event : Happen(e)

Spec == Init /\ [][Next]_vars

(* Threads, the loop and the at91 keep running; the connection comes up.   *)
Fair ==
  /\ \A w \in Worker : WF_vars(~undef /\ (Work(w) \/ Step(w)))
  /\ \A t \in Helper : WF_vars(~undef /\ Step(t))
  /\ WF_vars(~undef /\ (Loop \/ Authenticate))
  /\ WF_vars(~undef /\ Execute)

FairSpec == Spec /\ Fair

-----------------------------------------------------------------------------
Op == {"GMAP", "MLIN", "MLOU", "EXPO", "IMPO", "PROU", "PRIN", "HIDE", "CMOV",
       "CDIN"}
CommandType == [op : Op, drive : Drive \cup {0}, disc : Disc \cup {None}]
MapType  == [held : [Drive -> Disc \cup {None}], exist : SUBSET Disc,
             mailed : Disc \cup {None}]
Frames == [id : TaskId \cup {0},
             code : {"ok", "fail", "none", "occupied", "map", "other"} \cup Event,
             map : MapType \cup {None}]

(* Every field holds a value of its C++ type, and ids are ids of tasks. *)
TypeOK ==
  /\ phase \in {"INIT", "RUN", "INVENTORY", "RETURNDISC", "EXCEPTION"}
  /\ link \in {"off", "on", "auth"}
  /\ queue \in Seq(TaskId)
  /\ task \in [TaskId -> [cmd : CommandType, sent : BOOLEAN, freed : BOOLEAN]]
  /\ next \in 0 .. MaxTask
  /\ DOMAIN results \subseteq TaskId
  /\ \A i \in DOMAIN results : results[i] \in Frames
  /\ \A t \in Thread : /\ th[t].id \in TaskId \cup {0}
                       /\ th[t].drive \in 0 .. (NDrive + 1)
                       /\ th[t].disc \in Disc \cup {None}
  /\ lock \in Thread \cup {None}
  /\ table.have \cup table.busy \subseteq Drive
  /\ table.media \in [Drive -> Disc \cup {None}]
  /\ todo \in [Worker -> SUBSET Disc]
  /\ reply \in [Request -> Seq({"refused", "data", "success", "error", "timeout",
                                "lost param"})]
  /\ toSvr \in Seq(Frames)
  /\ at \in [Disc -> 0 .. Printer]
  /\ {alarm, undef} \subseteq BOOLEAN

(* The answer filed under a task's key is what the at91 said to that task. *)
(* Answers carry no id: they are matched by order alone, through timeouts, *)
(* lost connections and answers that arrive late.                          *)
AnswersMatch == \A i \in DOMAIN results : results[i].id = i

(* The at91 never has two commands of the server at once. *)
OneCommand ==
  Len(toDev) + Cardinality({i \in DOMAIN toSvr : toSvr[i].id # 0}) <= 1

(* No request is answered twice, whatever times out meanwhile. *)
RepliedOnce == \A r \in Request : Len(reply[r]) <= 1

(* While no command concerns a drive, m_storage and the machine agree on   *)
(* what is in it.                                                          *)
Concerned(r) ==
  \E t \in Thread : th[t].drive = r /\ th[t].pc \in {"move", "hide"}
LedgerAgrees ==
  phase \notin {"INIT"} =>
    \A r \in Drive : ~Concerned(r) =>
      table.media[r] = (IF \E d \in Disc : at[d] = r
                        THEN CHOOSE d \in Disc : at[d] = r ELSE None)

(* get_blank_disc never gives one disc to two jobs. *)
ReservedOnce ==
  \A t, u \in Worker :
    /\ th[t].job = "move disc to cdrom" /\ th[u].job = "move disc to cdrom"
    /\ th[t].disc # None /\ th[t].disc = th[u].disc
    => t = u

(* The drive that move_disc2cdrom found free is still free while the disc  *)
(* is carried to it, and nobody else's goes there: finding and filling it  *)
(* are one step under m_action_mtx.  A door that opens before the first    *)
(* update ends lets requests in while m_storage was never filled, and the  *)
(* update takes the drive after it was chosen.                             *)
StillFree ==
  spent.event = 0 =>
    \A t \in Thread : th[t].pc = "move" =>
      /\ th[t].drive \in FreeDrive
      /\ \A u \in Thread :
           th[u].pc \in {"move", "close"} /\ th[u].drive = th[t].drive => u = t

(* No dangling, null or wild pointer is used. *)
NothingUndefined == ~undef

(* Nothing is sent to the at91 while a door is open. *)
OpenDoorPauses == [][toDev' # toDev /\ Len(toDev') > Len(toDev) => ~alarm]_vars

(* The phase INVENTORY turns a second inventory away, so two readers never *)
(* fetch the same disc, whatever fails or times out.  It holds while no    *)
(* door is reported and no disc is moved: both change the phase under the  *)
(* inventory, and a second one is accepted.                                *)
Undisturbed == spent.event = 0 /\ \A r \in Request : asked[r] # "move disc to cdrom"
ReadOnce ==
  Undisturbed =>
    \A t, u \in Helper :
      /\ {th[t].pc, th[u].pc} \subseteq {"place", "move", "close", "placed"}
      /\ th[t].disc = th[u].disc
      => t = u

(* The front was sent, and its command or its answer was lost with the     *)
(* link: it blocks the queue for ever.                                     *)
Stranded ==
  queue # <<>> /\ task[Head(queue)].sent /\ toDev = <<>> /\ toSvr = <<>>

(* A request that was taken is answered, unless a command was lost with    *)
(* its link.  For instances in which nothing times out: a job that gives   *)
(* up may not answer at all.                                               *)
EveryRequestAnswered ==
  \A r \in Request : asked[r] \in Known ~> reply[r] # <<>> \/ Stranded

(* The service leaves INIT: the GMAP that Init queued before there was a   *)
(* link is sent, answered and worked off, whatever the controller asks     *)
(* meanwhile and however the link broke before it was sent.  It is never   *)
(* repeated: lost behind a broken link it leaves the service in INIT for   *)
(* ever.  For instances in which nothing times out, as for one given up.   *)
InitEnds == phase = "INIT" ~> phase # "INIT" \/ Stranded

(* A task at the front of the queue is answered once the link is up, also  *)
(* after the connection broke.                                             *)
FrontAnswered ==
  \A i \in TaskId :
    (queue # <<>> /\ Head(queue) = i) ~> (i \notin {queue[j] : j \in DOMAIN queue})
=============================================================================
