------------------------------- MODULE Engine -------------------------------
(***************************************************************************)
(* The threads of a CRCEasyEpollServer and the life of its connections:    *)
(* CRCThread and CRCSemaphore, the acceptor, the CRCWorkEpollServers, and  *)
(* Close(), which the main thread calls at the command exit.  What the     *)
(* messages of a connection do is in Gate.                                 *)
(*                                                                         *)
(* Thread 0 is the acceptor, thread w worker w.  The CRCTaskServer of a    *)
(* worker is left out: it has a CRCThread of its own and never a task.     *)
(* The mutex of a CRCThread is held across a step only by Close(), while   *)
(* it waits for the semaphore.                                             *)
(***************************************************************************)
EXTENDS Integers, FiniteSets

CONSTANTS
  NWorker,    \* nThread
  NConn,      \* bound on connections that arrive
  MaxClient,  \* _nMaxClient
  MaxFail,    \* bound on failures of epoll_wait
  None

Worker == 1 .. NWorker
Thread == 0 .. NWorker
Conn == 1 .. NConn  \* in the order they arrive

ASSUME NumberAssumption ==
  NWorker \in Nat \ {0} /\ NConn \in Nat /\ MaxClient \in Nat /\ MaxFail \in Nat
ASSUME NoneAssumption == None \notin Conn /\ None \notin Worker \X Conn

VARIABLES
  pc,       \* Thread -> where it is
  isRun,    \* Thread -> _isRun
  wait,     \* Thread -> _sem._wait
  wakeup,   \* Thread -> _sem._wakeup
  closing,  \* the thread Close() is at
  main,     \* where the main thread is in Close()
  freed,    \* workers whose object is deleted
  failed,   \* threads that ended by themselves
  scan,     \* the acceptor's new connection, its best worker and the next one
  accepts,  \* _clientAccept
  fresh,    \* Worker -> _clientsBuff
  clients,  \* Worker -> _clients
  held,     \* Worker -> what a handler got from find_client: whose, which
  leaving,  \* Worker -> the connection it is deleting
  dropped,  \* connections deleted by OnClientLeave, or refused
  cleared   \* connections deleted by ClearClients

threads == <<pc, isRun, wait, wakeup, failed>>
owner   == <<closing, main, freed>>
conns   == <<scan, accepts, fresh, clients, held, leaving, dropped, cleared>>
vars    == <<threads, owner, conns>>

NoScan == [conn |-> None, best |-> 1, at |-> 1]

(* The server after Start(). *)
Init ==
  /\ pc = [t \in Thread |-> "check"] /\ isRun = [t \in Thread |-> TRUE]
  /\ wait = [t \in Thread |-> 0] /\ wakeup = [t \in Thread |-> 0]
  /\ closing = 0 /\ main = "serves" /\ freed = {} /\ failed = {}
  /\ scan = NoScan /\ accepts = 0
  /\ fresh = [w \in Worker |-> {}] /\ clients = [w \in Worker |-> {}]
  /\ held = [w \in Worker |-> None] /\ leaving = [w \in Worker |-> None]
  /\ dropped = {} /\ cleared = {}

Goto(t, p) == pc' = [pc EXCEPT ![t] = p]

-----------------------------------------------------------------------------
(* CRCThread.                                                              *)

(* while (isRun()): a thread that is told to end leaves its loop there,    *)
(* and only a worker has an onDestory.                                     *)
Check(t) ==
  /\ pc[t] = "check"
  /\ Goto(t, IF ~isRun[t] THEN (IF t \in Worker THEN "destroy" ELSE "wakeup")
             ELSE IF t = 0 THEN "accept" ELSE "join")
  /\ UNCHANGED <<isRun, wait, wakeup, failed, owner, conns>>

(* epoll_wait failed.  Exit() looks at _isRun before it takes the mutex.   *)
Fail(t) ==
  /\ \/ t = 0 /\ pc[t] = "accept"
     \/ t \in Worker /\ pc[t] = "serve"
  /\ Cardinality(failed) < MaxFail
  /\ failed' = failed \cup {t}
  /\ Goto(t, IF isRun[t] THEN "exit" ELSE IF t = 0 THEN "wakeup" ELSE "destroy")
  /\ UNCHANGED <<isRun, wait, wakeup, owner, conns>>

Locked(t) == main = "waits" /\ closing = t

Exit(t) ==
  /\ pc[t] = "exit" /\ ~Locked(t)
  /\ isRun' = [isRun EXCEPT ![t] = FALSE]
  /\ Goto(t, IF t = 0 THEN "wakeup" ELSE "destroy")
  /\ UNCHANGED <<wait, wakeup, failed, owner, conns>>

(* Mutant: the connections that were not taken over yet are forgotten. *)
ClearJoined(w) ==
  /\ pc[w] = "destroy"
  /\ cleared' = cleared \cup clients[w]
  /\ clients' = [clients EXCEPT ![w] = {}]
  /\ Goto(w, "wakeup")
  /\ UNCHANGED <<isRun, wait, wakeup, failed, owner, scan, accepts, fresh, held,
                 leaving, dropped>>

(* onDestory: ClearClients(), which tells nobody that they left. *)
ClearClients(w) ==
  /\ pc[w] = "destroy"
  /\ cleared' = cleared \cup clients[w] \cup fresh[w]
  /\ clients' = [clients EXCEPT ![w] = {}]
  /\ fresh' = [fresh EXCEPT ![w] = {}]
  /\ Goto(w, "wakeup")
  /\ UNCHANGED <<isRun, wait, wakeup, failed, owner, scan, accepts, held, leaving,
                 dropped>>

(* Mutant: who waits is woken only when two wait. *)
WakeupLess(t) ==
  /\ pc[t] = "wakeup"
  /\ wait' = [wait EXCEPT ![t] = @ + 1]
  /\ wakeup' = [wakeup EXCEPT ![t] = IF wait[t] + 1 < 0 THEN @ + 1 ELSE @]
  /\ Goto(t, "store")
  /\ UNCHANGED <<isRun, failed, owner, conns>>

(* OnWork(): _sem.wakeup(), and only then _isRun = false. *)
Wakeup(t) ==
  /\ pc[t] = "wakeup"
  /\ wait' = [wait EXCEPT ![t] = @ + 1]
  /\ wakeup' = [wakeup EXCEPT ![t] = IF wait[t] + 1 <= 0 THEN @ + 1 ELSE @]
  /\ Goto(t, "store")
  /\ UNCHANGED <<isRun, failed, owner, conns>>

Store(t) ==
  /\ pc[t] = "store"
  /\ isRun' = [isRun EXCEPT ![t] = FALSE]
  /\ Goto(t, "ended")
  /\ UNCHANGED <<wait, wakeup, failed, owner, conns>>

-----------------------------------------------------------------------------
(* The acceptor.                                                           *)
Arrived == {scan.conn} \cup dropped \cup cleared
           \cup UNION {fresh[w] \cup clients[w] \cup {leaving[w]} : w \in Worker}

(* Mutant: one more than _nMaxClient. *)
HasPlaceMore == accepts <= MaxClient

HasPlace == accepts < MaxClient

(* AcceptClient(): a connection too many is closed at once. *)
Accept(c) ==
  /\ pc[0] = "accept" /\ c \notin Arrived /\ 1 .. (c - 1) \subseteq Arrived
  /\ IF HasPlace
     THEN /\ accepts' = accepts + 1
          /\ scan' = [conn |-> c, best |-> 1, at |-> 1]
          /\ Goto(0, "choose") /\ UNCHANGED dropped
     ELSE /\ dropped' = dropped \cup {c}
          /\ Goto(0, "check") /\ UNCHANGED <<accepts, scan>>
  /\ UNCHANGED <<isRun, wait, wakeup, failed, owner, fresh, clients, held, leaving,
                 cleared>>

NothingToAccept ==
  /\ pc[0] = "accept" /\ Goto(0, "check")
  /\ UNCHANGED <<isRun, wait, wakeup, failed, owner, conns>>

(* AddClientToCRCWorkServer(): the counts are read one worker after the    *)
(* other, without the workers' mutex; a connection that is being taken     *)
(* over counts twice.                                                      *)
Count(w) == Cardinality(clients[w]) + Cardinality(fresh[w])

Choose ==
  /\ pc[0] = "choose" /\ scan.at \in Worker
  /\ scan' = [scan EXCEPT !.best = IF Count(@) > Count(scan.at) THEN scan.at ELSE @,
                          !.at = @ + 1]
  /\ UNCHANGED <<threads, owner, accepts, fresh, clients, held, leaving, dropped,
                 cleared>>

(* addClient() *)
AddClient ==
  /\ pc[0] = "choose" /\ scan.at \notin Worker
  /\ pc[scan.best] # "clear"
  /\ fresh' = [fresh EXCEPT ![scan.best] = @ \cup {scan.conn}]
  /\ scan' = NoScan
  /\ Goto(0, "check")
  /\ UNCHANGED <<isRun, wait, wakeup, failed, owner, accepts, clients, held, leaving,
                 dropped, cleared>>

-----------------------------------------------------------------------------
(* A worker.                                                               *)

(* Mutant: a worker without connections does not look for new ones. *)
JoinBusy(w) ==
  /\ pc[w] = "join"
  /\ IF clients[w] = {}
     THEN Goto(w, "check") /\ UNCHANGED clients
     ELSE clients' = [clients EXCEPT ![w] = @ \cup fresh[w]] /\ Goto(w, "clear")
  /\ UNCHANGED <<isRun, wait, wakeup, failed, owner, scan, accepts, fresh, held,
                 leaving, dropped, cleared>>

(* New connections are taken over under the worker's mutex. *)
Join(w) ==
  /\ pc[w] = "join"
  /\ IF fresh[w] = {}
     THEN Goto(w, IF clients[w] = {} THEN "check" ELSE "serve") /\ UNCHANGED clients
     ELSE clients' = [clients EXCEPT ![w] = @ \cup fresh[w]] /\ Goto(w, "clear")
  /\ UNCHANGED <<isRun, wait, wakeup, failed, owner, scan, accepts, fresh, held,
                 leaving, dropped, cleared>>

Joined(w) ==
  /\ pc[w] = "clear"
  /\ fresh' = [fresh EXCEPT ![w] = {}]
  /\ Goto(w, "serve")
  /\ UNCHANGED <<isRun, wait, wakeup, failed, owner, scan, accepts, clients, held,
                 leaving, dropped, cleared>>

(* CheckTime(): no heart beat came from connection c.  OnNetLeave() counts *)
(* it off, then it is deleted, and erased from _clients last.              *)
Expire(w, c) ==
  /\ pc[w] = "serve" /\ c \in clients[w]
  /\ leaving' = [leaving EXCEPT ![w] = c]
  /\ accepts' = accepts - 1
  /\ Goto(w, "expired")
  /\ UNCHANGED <<isRun, wait, wakeup, failed, owner, scan, fresh, clients, held,
                 dropped, cleared>>

(* Mutant: a deleted connection stays in _clients. *)
EraseNothing(w) ==
  /\ pc[w] = "erase"
  /\ leaving' = [leaving EXCEPT ![w] = None]
  /\ Goto(w, "serve")
  /\ UNCHANGED <<isRun, wait, wakeup, failed, owner, scan, accepts, fresh, clients,
                 held, dropped, cleared>>

Erase(w) ==
  /\ pc[w] = "erase"
  /\ clients' = [clients EXCEPT ![w] = @ \ {leaving[w]}]
  /\ leaving' = [leaving EXCEPT ![w] = None]
  /\ Goto(w, "serve")
  /\ UNCHANGED <<isRun, wait, wakeup, failed, owner, scan, accepts, fresh, held,
                 dropped, cleared>>

(* epoll_wait returned. *)
Polled(w) ==
  /\ pc[w] = "serve" /\ Goto(w, "events")
  /\ UNCHANGED <<isRun, wait, wakeup, failed, owner, conns>>

(* Mutant: a worker removes a connection of whatever worker. *)
RemoveAny(w, c) ==
  /\ pc[w] = "events" /\ \E v \in Worker : c \in clients[v]
  /\ clients' = [v \in Worker |-> clients[v] \ {c}]
  /\ leaving' = [leaving EXCEPT ![w] = c]
  /\ Goto(w, "removed")
  /\ UNCHANGED <<isRun, wait, wakeup, failed, owner, scan, accepts, fresh, held,
                 dropped, cleared>>

(* rmClient(): the peer closed, or a send failed.  The connection is       *)
(* erased from _clients first, then counted off and deleted.               *)
Remove(w, c) ==
  /\ pc[w] = "events" /\ c \in clients[w]
  /\ clients' = [clients EXCEPT ![w] = @ \ {c}]
  /\ leaving' = [leaving EXCEPT ![w] = c]
  /\ Goto(w, "removed")
  /\ UNCHANGED <<isRun, wait, wakeup, failed, owner, scan, accepts, fresh, held,
                 dropped, cleared>>

(* Mutant: OnNetLeave counts twice. *)
LeaveTwice(w) ==
  /\ pc[w] = "removed"
  /\ accepts' = accepts - 2
  /\ Goto(w, "delete")
  /\ UNCHANGED <<isRun, wait, wakeup, failed, owner, scan, fresh, clients, held,
                 leaving, dropped, cleared>>

Leave(w) ==
  /\ pc[w] = "removed"
  /\ accepts' = accepts - 1
  /\ Goto(w, "delete")
  /\ UNCHANGED <<isRun, wait, wakeup, failed, owner, scan, fresh, clients, held,
                 leaving, dropped, cleared>>

(* OnClientLeave() deletes what OnNetLeave() counted off. *)
Delete(w) ==
  /\ dropped' = dropped \cup {leaving[w]}
  /\ \/ /\ pc[w] = "expired" /\ Goto(w, "erase") /\ UNCHANGED leaving
     \/ /\ pc[w] = "delete" /\ Goto(w, "events")
        /\ leaving' = [leaving EXCEPT ![w] = None]
  /\ UNCHANGED <<isRun, wait, wakeup, failed, owner, scan, accepts, fresh, clients,
                 held, cleared>>

(* SendDataReal() blocks in send() until the peer has read.  A worker's    *)
(* round has one send here, the last of its events.                        *)
Send(w) ==
  /\ pc[w] = "events" /\ clients[w] # {} /\ Goto(w, "send")
  /\ UNCHANGED <<isRun, wait, wakeup, failed, owner, conns>>

Sent(w) ==
  /\ pc[w] = "send" /\ Goto(w, "handle")
  /\ UNCHANGED <<isRun, wait, wakeup, failed, owner, conns>>

NothingToSend(w) ==
  /\ pc[w] = "events" /\ Goto(w, "handle")
  /\ UNCHANGED <<isRun, wait, wakeup, failed, owner, conns>>

(* A handler gets a connection from find_client, of whatever worker, and   *)
(* writes to it.  The messages of one round of the loop count as one.      *)
Find(w, v, c) ==
  /\ pc[w] = "handle" /\ c \in clients[v]
  /\ held' = [held EXCEPT ![w] = <<v, c>>]
  /\ Goto(w, "write")
  /\ UNCHANGED <<isRun, wait, wakeup, failed, owner, scan, accepts, fresh, clients,
                 leaving, dropped, cleared>>

Write(w) ==
  /\ pc[w] = "write"
  /\ held' = [held EXCEPT ![w] = None]
  /\ Goto(w, "check")
  /\ UNCHANGED <<isRun, wait, wakeup, failed, owner, scan, accepts, fresh, clients,
                 leaving, dropped, cleared>>

Served(w) ==
  /\ pc[w] = "handle" /\ Goto(w, "check")
  /\ UNCHANGED <<isRun, wait, wakeup, failed, owner, conns>>

-----------------------------------------------------------------------------
(* Close(), in the main thread: the acceptor, then one worker after the    *)
(* other, whose object is deleted when its thread ended.                   *)
BeginClose ==
  /\ main = "serves" /\ main' = "closes" /\ closing' = 0
  /\ UNCHANGED <<threads, freed, conns>>

Proceed ==
  /\ freed' = freed \cup ({closing} \cap Worker)
  /\ IF closing = NWorker
     THEN main' = "closed" /\ UNCHANGED closing
     ELSE main' = "closes" /\ closing' = closing + 1

(* Mutant: the thread is told to end and not waited for. *)
CloseAtOnce ==
  /\ main = "closes"
  /\ isRun' = [isRun EXCEPT ![closing] = FALSE]
  /\ Proceed
  /\ UNCHANGED <<pc, wait, wakeup, failed, conns>>

(* CRCThread::Close(): it takes the mutex and waits only if _isRun. *)
Close ==
  /\ main = "closes"
  /\ IF isRun[closing]
     THEN /\ isRun' = [isRun EXCEPT ![closing] = FALSE]
          /\ wait' = [wait EXCEPT ![closing] = @ - 1]
          /\ IF wait[closing] - 1 < 0
             THEN main' = "waits" /\ UNCHANGED <<closing, freed>>
             ELSE Proceed
     ELSE Proceed /\ UNCHANGED <<isRun, wait>>
  /\ UNCHANGED <<pc, wakeup, failed, conns>>

Woken ==
  /\ main = "waits" /\ wakeup[closing] > 0
  /\ wakeup' = [wakeup EXCEPT ![closing] = @ - 1]
  /\ Proceed
  /\ UNCHANGED <<pc, isRun, wait, failed, conns>>

Acceptor == NothingToAccept \/ Choose \/ AddClient \/ \E c \in Conn : Accept(c)
Round(w) ==
  \/ Join(w) \/ Joined(w) \/ Polled(w) \/ NothingToSend(w) \/ Write(w) \/ Served(w)
  \/ \E c \in Conn, v \in Worker : Find(w, v, c)
ClientLeave(w) ==
  \/ Leave(w) \/ Delete(w) \/ Erase(w)
  \/ \E c \in Conn : Expire(w, c) \/ Remove(w, c)
Work(w) == Round(w) \/ ClientLeave(w) \/ ClearClients(w)
Step(t) ==
  \/ Check(t) \/ Exit(t) \/ Wakeup(t) \/ Store(t)
  \/ t = 0 /\ Acceptor
  \/ t \in Worker /\ Work(t)
Shut == Close \/ Woken

Next ==
  \/ \E t \in Thread : Step(t) \/ Fail(t)
  \/ \E w \in Worker : Send(w) \/ Sent(w)
  \/ BeginClose \/ Shut

Spec == Init /\ [][Next]_vars

(* Every thread is scheduled, but only a peer that reads lets a send() end; *)
(* when the server is closed is up to the operator.                         *)
FairSpec == Spec /\ WF_vars(Shut) /\ \A t \in Thread : WF_vars(Step(t))
-----------------------------------------------------------------------------
Label == {"check", "accept", "choose", "join", "clear", "serve", "expired", "erase",
          "events", "removed", "delete", "send", "handle", "write", "exit",
          "destroy", "wakeup", "store", "ended"}

(* Every field holds a value of its C++ type. *)
TypeOK ==
  /\ pc \in [Thread -> Label] /\ isRun \in [Thread -> BOOLEAN]
  /\ wait \in [Thread -> -1 .. 1] /\ wakeup \in [Thread -> 0 .. 1]
  /\ closing \in Thread /\ main \in {"serves", "closes", "waits", "closed"}
  /\ freed \subseteq Worker /\ failed \subseteq Thread
  /\ scan \in [conn : Conn \cup {None}, best : Worker, at : 1 .. (NWorker + 1)]
  /\ accepts \in Nat
  /\ fresh \in [Worker -> SUBSET Conn] /\ clients \in [Worker -> SUBSET Conn]
  /\ held \in [Worker -> (Worker \X Conn) \cup {None}]
  /\ leaving \in [Worker -> Conn \cup {None}]
  /\ dropped \subseteq Conn /\ cleared \subseteq Conn

(* A worker is deleted only when its thread has nothing left to do but to  *)
(* store _isRun: Close() waited for ClearClients().  A thread that ended   *)
(* by itself is not waited for.                                            *)
DeletedIsDone == \A w \in freed : pc[w] \in {"store", "ended"} \/ w \in failed

(* When Close() returns every connection that was ever accepted is         *)
(* deleted, also those no worker had taken over yet; except what was given *)
(* to a worker that had ended by itself.                                   *)
NothingLeft ==
  main = "closed" =>
    \A w \in Worker : w \notin failed =>
      scan.conn = None /\ fresh[w] \cup clients[w] = {}

(* _clientAccept counts the connections there are, and those of workers    *)
(* that ended.  A worker counts a connection off before it deletes it:     *)
(* while it does, the acceptor may already have taken one in its place.    *)
(* So there are never more than _nMaxClient and one for every worker.      *)
At(ps) == {leaving[w] : w \in {v \in Worker : pc[v] \in ps}}
There == ({scan.conn} \ {None}) \cup UNION {fresh[w] \cup clients[w] : w \in Worker}
Alive == (There \cup At({"removed", "delete"})) \ At({"erase"})
CountedOff == At({"expired", "delete"})
CountHolds ==
  /\ accepts = Cardinality(Alive \ CountedOff) + Cardinality(cleared)
  /\ Cardinality(Alive) <= MaxClient + Cardinality(CountedOff)

(* A connection is with one worker, and deleted once, by that worker or by *)
(* none.  A deleted connection is in no map, but for the moment between    *)
(* the two in CheckTime().                                                 *)
OneHome ==
  /\ \A v, w \in Worker :
       v # w => (fresh[v] \cup clients[v]) \cap (fresh[w] \cup clients[w]) = {}
  /\ There \cap (dropped \cup cleared) = At({"erase"}) /\ dropped \cap cleared = {}
  /\ At({"removed", "delete"}) \cap (There \cup dropped \cup cleared) = {}

(* What a handler holds of its own worker's connections is not deleted     *)
(* under it; of other workers' it may be, as find_client takes no lock.    *)
OwnAlive ==
  \A w \in Worker : \A c \in Conn : held[w] = <<w, c>> => c \in clients[w] \ dropped

(* As long as no peer holds up a worker's send() for ever, Close()         *)
(* returns, unless it waits for a thread that came into Exit() first and   *)
(* wants the mutex Close() holds.                                          *)
NoneHeldUp == \A w \in Worker : []<>(pc[w] # "send")
StuckInExit == \E t \in Thread : Locked(t) /\ pc[t] = "exit"
CloseReturns == NoneHeldUp => (main = "closes" ~> (main = "closed" \/ StuckInExit))

(* A connection handed to a worker is taken over or deleted, unless a peer *)
(* holds up that worker's send() for ever, or the worker had ended by      *)
(* itself: AddClientToCRCWorkServer still takes it for the one with the    *)
(* fewest connections.                                                     *)
TakenOver ==
  \A w \in Worker : []<>(pc[w] # "send") => []<>(fresh[w] = {} \/ w \in failed)
=============================================================================
