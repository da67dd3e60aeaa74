---------------------------- MODULE EngineProofs ----------------------------
(***************************************************************************)
(* The safety of the server's threads and connections, for any number of   *)
(* workers and connections: the semaphores of Close(), the one home every  *)
(* connection has, and the count of connections.                           *)
(***************************************************************************)
EXTENDS Engine, FiniteSetTheorems, TLAPS

Types ==
  /\ pc \in [Thread -> Label] /\ isRun \in [Thread -> BOOLEAN]
  /\ wait \in [Thread -> Int] /\ wakeup \in [Thread -> Int]
  /\ closing \in Thread /\ main \in {"serves", "closes", "waits", "closed"}
  /\ freed \subseteq Worker /\ failed \subseteq Thread
  /\ scan \in [conn : Conn \cup {None}, best : Worker, at : 1 .. (NWorker + 1)]
  /\ accepts \in Int
  /\ fresh \in [Worker -> SUBSET Conn] /\ clients \in [Worker -> SUBSET Conn]
  /\ held \in [Worker -> (Worker \X Conn) \cup {None}]
  /\ leaving \in [Worker -> Conn \cup {None}]
  /\ dropped \subseteq Conn /\ cleared \subseteq Conn

LEMMA Threads ==
  /\ NWorker \in Nat \ {0} /\ 0 \in Thread /\ 1 \in Worker
  /\ Worker \subseteq Thread /\ 0 \notin Worker
  /\ \A t \in Thread : t # 0 => t \in Worker
  /\ Worker \subseteq Int /\ Thread \subseteq Int
BY NumberAssumption DEF Thread, Worker

LEMMA Conns == IsFiniteSet(Conn) /\ None \notin Conn /\ None \notin Worker \X Conn
BY NumberAssumption, NoneAssumption, FS_Interval DEF Conn

LEMMA InitTypes == Init => Types
<1>. SUFFICES ASSUME Init PROVE Types
  OBVIOUS
<1>1. scan \in [conn : Conn \cup {None}, best : Worker, at : 1 .. (NWorker + 1)]
  BY Threads DEF Init, NoScan
<1>. QED  BY <1>1, Threads DEF Init, Types, Label

LEMMA GotoTypes ==
  ASSUME Types, NEW t \in Thread, NEW p \in Label, Goto(t, p)
  PROVE  /\ pc' \in [Thread -> Label] /\ pc'[t] = p
         /\ \A u \in Thread : u # t => pc'[u] = pc[u]
BY DEF Goto, Types

(* The steps of a thread that change nothing but where it is.              *)
Passes(w) == Polled(w) \/ Send(w) \/ Sent(w) \/ NothingToSend(w) \/ Served(w)

LEMMA MoveTypes ==
  ASSUME Types, NEW t \in Thread,
         Check(t) \/ (t = 0 /\ NothingToAccept) \/ (t \in Worker /\ Passes(t))
  PROVE  Types'
<1>1. \E p \in Label : Goto(t, p) /\ UNCHANGED <<isRun, wait, wakeup, failed, owner, conns>>
  BY DEF Check, NothingToAccept, Passes, Polled, Send, Sent, NothingToSend, Served,
         Label
<1>. QED  BY <1>1, GotoTypes DEF Types, owner, conns

LEMMA ThreadTypes ==
  ASSUME Types, NEW t \in Thread, Fail(t) \/ Exit(t) \/ Wakeup(t) \/ Store(t)
  PROVE  Types'
<1>1. PICK p \in Label : Goto(t, p)
  BY DEF Fail, Exit, Wakeup, Store, Label
<1>2. isRun' \in [Thread -> BOOLEAN]
  BY DEF Fail, Exit, Wakeup, Store, Types
<1>3. wait' \in [Thread -> Int]
  BY DEF Fail, Exit, Wakeup, Store, Types
<1>4. wakeup' \in [Thread -> Int]
  BY DEF Fail, Exit, Wakeup, Store, Types
<1>5. failed' \subseteq Thread
  BY DEF Fail, Exit, Wakeup, Store, Types
<1>6. UNCHANGED <<owner, conns>>
  BY DEF Fail, Exit, Wakeup, Store
<1>. QED
  BY <1>1, <1>2, <1>3, <1>4, <1>5, <1>6, GotoTypes DEF Types, owner, conns

LEMMA AcceptTypes ==
  ASSUME Types, NEW c \in Conn, Accept(c)
  PROVE  Types'
<1>1. PICK p \in Label : Goto(0, p)
  BY DEF Accept, Label
<1>2. scan' \in [conn : Conn \cup {None}, best : Worker, at : 1 .. (NWorker + 1)]
  BY Threads DEF Accept, Types
<1>3. accepts' \in Int /\ dropped' \subseteq Conn
  BY DEF Accept, Types
<1>. QED
  BY <1>1, <1>2, <1>3, GotoTypes, Threads DEF Accept, Types, owner

LEMMA ChooseTypes ==
  ASSUME Types, Choose
  PROVE  /\ Types'
         /\ scan'.conn = scan.conn
<1>. DEFINE b == IF Count(scan.best) > Count(scan.at) THEN scan.at ELSE scan.best
<1>1. scan.best \in Worker /\ scan.at \in Worker /\ scan.conn \in Conn \cup {None}
  BY DEF Choose, Types
<1>2. scan' = [scan EXCEPT !.best = b, !.at = @ + 1]
  BY DEF Choose
<1>3. b \in Worker /\ scan.at + 1 \in 1 .. (NWorker + 1)
  BY <1>1, Threads DEF Worker
<1>. HIDE DEF b
<1>4. scan' \in [conn : Conn \cup {None}, best : Worker, at : 1 .. (NWorker + 1)]
      /\ scan'.conn = scan.conn
  BY <1>1, <1>2, <1>3 DEF Types
<1>. QED  BY <1>4 DEF Choose, Types, threads, owner

LEMMA AddClientTypes ==
  ASSUME Types, AddClient, scan.conn # None
  PROVE  Types'
<1>1. scan.best \in Worker /\ scan.conn \in Conn
  BY DEF Types
<1>2. fresh' \in [Worker -> SUBSET Conn]
  BY <1>1 DEF AddClient, Types
<1>3. scan' \in [conn : Conn \cup {None}, best : Worker, at : 1 .. (NWorker + 1)]
  BY Threads DEF AddClient, NoScan
<1>4. PICK p \in Label : Goto(0, p)
  BY DEF AddClient, Label
<1>. QED
  BY <1>2, <1>3, <1>4, GotoTypes, Threads DEF AddClient, Types, owner

LEMMA WorkTypes ==
  ASSUME Types, NEW w \in Worker,
         \/ ClearClients(w) \/ Join(w) \/ Joined(w) \/ Write(w)
         \/ \E c \in Conn, v \in Worker : Find(w, v, c)
  PROVE  Types'
<1>1. \E p \in Label : Goto(w, p)
  BY DEF ClearClients, Join, Joined, Write, Find, Label
<1>2. clients' \in [Worker -> SUBSET Conn]
  BY DEF ClearClients, Join, Joined, Write, Find, Types
<1>3. fresh' \in [Worker -> SUBSET Conn]
  BY DEF ClearClients, Join, Joined, Write, Find, Types
<1>4. held' \in [Worker -> (Worker \X Conn) \cup {None}]
  BY DEF ClearClients, Join, Joined, Write, Find, Types
<1>5. cleared' \subseteq Conn
  BY DEF ClearClients, Join, Joined, Write, Find, Types
<1>6. UNCHANGED <<isRun, wait, wakeup, failed, owner, scan, accepts, leaving, dropped>>
  BY DEF ClearClients, Join, Joined, Write, Find
<1>. QED
  BY <1>1, <1>2, <1>3, <1>4, <1>5, <1>6, GotoTypes, Threads DEF Types, owner

(* The stages in which a connection leaves. *)
Leaves == {"expired", "erase", "removed", "delete"}

LEMMA LeaveTypes ==
  ASSUME Types, NEW w \in Worker, ClientLeave(w),
         pc[w] \in Leaves => leaving[w] # None
  PROVE  /\ Types'
         /\ \E p \in Leaves \cup {"serve", "events"} : Goto(w, p)
         /\ UNCHANGED <<isRun, wait, wakeup, failed, owner, scan, fresh, held, cleared>>
<1>. USE DEF ClientLeave, Expire, Erase, Remove, Leave, Delete
<1>1. \E p \in Leaves \cup {"serve", "events"} : Goto(w, p)
  BY DEF Leaves
<1>2. UNCHANGED <<isRun, wait, wakeup, failed, owner, scan, fresh, held, cleared>>
  OBVIOUS
<1>3. clients' \in [Worker -> SUBSET Conn]
  BY DEF Types
<1>4. leaving' \in [Worker -> Conn \cup {None}]
  BY DEF Types
<1>5. accepts' \in Int
  BY DEF Types
<1>6. dropped' \subseteq Conn
  BY DEF Types, Leaves
<1>7. \E p \in Label : Goto(w, p)
  BY <1>1 DEF Leaves, Label
<1>8. pc' \in [Thread -> Label]
  BY <1>7, GotoTypes, Threads
<1>9. Types'
  BY <1>2, <1>3, <1>4, <1>5, <1>6, <1>8 DEF Types, owner
<1>. QED  BY <1>1, <1>2, <1>9

LEMMA ProceedTypes ==
  ASSUME Types, Proceed
  PROVE  /\ freed' = freed \cup ({closing} \cap Worker)
         /\ closing' \in Thread /\ main' \in {"closes", "closed"}
         /\ \/ closing = NWorker /\ main' = "closed" /\ closing' = closing
            \/ closing # NWorker /\ main' = "closes" /\ closing' = closing + 1
BY Threads DEF Proceed, Types, Thread

LEMMA OwnerTypes ==
  ASSUME Types, BeginClose \/ Close \/ Woken
  PROVE  Types'
<1>1. CASE BeginClose
  BY <1>1, Threads DEF BeginClose, Types, threads, conns
<1>2. CASE Close
  <2>1. isRun' \in [Thread -> BOOLEAN]
    BY <1>2 DEF Close, Types
  <2>2. wait' \in [Thread -> Int]
    BY <1>2 DEF Close, Types
  <2>3. /\ closing' \in Thread /\ main' \in {"serves", "closes", "waits", "closed"}
        /\ freed' \subseteq Worker
    BY <1>2, ProceedTypes DEF Close, Types
  <2>. QED  BY <1>2, <2>1, <2>2, <2>3 DEF Close, Types, conns
<1>3. CASE Woken
  <2>1. wakeup' \in [Thread -> Int]
    BY <1>3 DEF Woken, Types
  <2>2. /\ closing' \in Thread /\ main' \in {"serves", "closes", "waits", "closed"}
        /\ freed' \subseteq Worker
    BY <1>3, ProceedTypes DEF Woken, Types
  <2>. QED  BY <1>3, <2>1, <2>2 DEF Woken, Types, conns
<1>. QED  BY <1>1, <1>2, <1>3

(* The acceptor has a connection in its hand only while it chooses, and a  *)
(* worker only while the connection leaves.                                *)
Seek ==
  /\ scan.conn # None <=> pc[0] = "choose"
  /\ \A w \in Worker : leaving[w] # None <=> pc[w] \in Leaves

(* Steps that move a thread and touch neither semaphores nor Close().      *)
Moves(t, p) ==
  /\ t \in Thread /\ p \in Label \ {"store", "ended", "exit"}
  /\ pc[t] \notin {"store", "ended", "exit"}
  /\ Goto(t, p)
  /\ UNCHANGED <<isRun, wait, wakeup, failed, owner>>

LEMMA MovesOf ==
  ASSUME Types, NEW t \in Thread
  PROVE  /\ Check(t) => \E p \in Label : Moves(t, p) /\ p # "choose" /\ UNCHANGED conns
         /\ t = 0 /\ NothingToAccept =>
              Moves(t, "check") /\ pc[t] # "choose" /\ UNCHANGED conns
         /\ t = 0 /\ AddClient => Moves(t, "check")
         /\ \A c \in Conn : t = 0 /\ Accept(c) => \E p \in Label : Moves(t, p)
         /\ \A w \in Worker : t = w =>
              /\ ClearClients(w) => Moves(t, "wakeup")
              /\ Join(w) => \E p \in Label : Moves(t, p)
              /\ Joined(w) => Moves(t, "serve")
              /\ \A v \in Worker, c \in Conn : Find(w, v, c) => Moves(t, "write")
              /\ Write(w) => Moves(t, "check")
              /\ ClientLeave(w) => \E p \in Label : Moves(t, p)
              /\ Passes(w) => \E p \in Label : Moves(t, p) /\ UNCHANGED conns
<1>. USE Threads DEF Moves, Label
<1>1. Check(t) => \E p \in Label : Moves(t, p) /\ p # "choose" /\ UNCHANGED conns
  BY DEF Check
<1>2. t = 0 /\ NothingToAccept => Moves(t, "check") /\ pc[t] # "choose" /\ UNCHANGED conns
  BY DEF NothingToAccept
<1>3. t = 0 /\ AddClient => Moves(t, "check")
  BY DEF AddClient
<1>4. \A c \in Conn : t = 0 /\ Accept(c) => \E p \in Label : Moves(t, p)
  BY DEF Accept
<1>5. ASSUME NEW w \in Worker, t = w
      PROVE  /\ ClearClients(w) => Moves(t, "wakeup")
             /\ Join(w) => \E p \in Label : Moves(t, p)
             /\ Joined(w) => Moves(t, "serve")
             /\ \A v \in Worker, c \in Conn : Find(w, v, c) => Moves(t, "write")
             /\ Write(w) => Moves(t, "check")
             /\ ClientLeave(w) => \E p \in Label : Moves(t, p)
             /\ Passes(w) => \E p \in Label : Moves(t, p) /\ UNCHANGED conns
  <2>1. /\ ClearClients(w) => Moves(t, "wakeup")
        /\ Join(w) => \E p \in Label : Moves(t, p)
        /\ Joined(w) => Moves(t, "serve")
        /\ \A v \in Worker, c \in Conn : Find(w, v, c) => Moves(t, "write")
        /\ Write(w) => Moves(t, "check")
    BY <1>5 DEF ClearClients, Join, Joined, Find, Write
  <2>2. ClientLeave(w) => \E p \in Label : Moves(t, p)
    BY <1>5 DEF ClientLeave, Expire, Erase, Remove, Leave, Delete
  <2>3. Passes(w) => \E p \in Label : Moves(t, p) /\ UNCHANGED conns
    BY <1>5 DEF Passes, Polled, Send, Sent, NothingToSend, Served
  <2>. QED  BY <2>1, <2>2, <2>3
<1>. QED  BY <1>1, <1>2, <1>3, <1>4, <1>5

(* Next, sorted for the proofs: by who moves and what he may change.       *)
AcceptorStep == Choose \/ AddClient \/ \E c \in Conn : Accept(c)
HomeStep(w) ==
  \/ ClearClients(w) \/ Join(w) \/ Joined(w) \/ Write(w) \/ ClientLeave(w)
  \/ \E c \in Conn, v \in Worker : Find(w, v, c)
ThreadStep(t) == Fail(t) \/ Exit(t) \/ Wakeup(t) \/ Store(t)
MoveStep(t) ==
  Check(t) \/ (t = 0 /\ NothingToAccept) \/ (t \in Worker /\ Passes(t))

LEMMA Steps ==
  ASSUME [Next]_vars
  PROVE  \/ \E t \in Thread : ThreadStep(t) \/ MoveStep(t)
         \/ AcceptorStep
         \/ \E w \in Worker : HomeStep(w)
         \/ BeginClose \/ Close \/ Woken
         \/ UNCHANGED vars
BY Threads DEF Next, Step, Acceptor, Work, Round, Shut, AcceptorStep, HomeStep,
               ThreadStep, MoveStep, Passes

LEMMA MoveSeek ==
  ASSUME Types, Seek, NEW t \in Thread, ThreadStep(t) \/ MoveStep(t)
  PROVE  Seek'
<1>1. PICK p \in Label : Goto(t, p) /\ p \notin {"choose"} \cup Leaves /\ UNCHANGED conns
  <2>1. CASE ThreadStep(t)
    BY <2>1 DEF ThreadStep, Fail, Exit, Wakeup, Store, Label, Leaves
  <2>2. CASE MoveStep(t)
    BY <2>2 DEF MoveStep, Check, NothingToAccept, Passes, Polled, Send, Sent,
                NothingToSend, Served, Label, Leaves
  <2>. QED  BY <2>1, <2>2
<1>2. pc[t] \notin {"choose"} \cup Leaves
  <2>1. CASE ThreadStep(t)
    BY <2>1, Threads DEF ThreadStep, Fail, Exit, Wakeup, Store, Leaves
  <2>2. CASE MoveStep(t)
    BY <2>2, Threads DEF MoveStep, Check, NothingToAccept, Passes, Polled, Send, Sent,
                         NothingToSend, Served, Leaves
  <2>. QED  BY <2>1, <2>2
<1>3. \A u \in Thread : (pc'[u] = "choose") = (pc[u] = "choose")
  BY <1>1, <1>2, GotoTypes
<1>4. \A u \in Thread : (pc'[u] \in Leaves) = (pc[u] \in Leaves)
  BY <1>1, <1>2, GotoTypes
<1>5. (scan.conn # None) = (pc[0] = "choose")
  BY DEF Seek
<1>6. \A w \in Worker : (leaving[w] # None) = (pc[w] \in Leaves)
  BY DEF Seek
<1>7. scan' = scan /\ leaving' = leaving
  BY <1>1 DEF conns
<1>8. (scan'.conn # None) = (pc'[0] = "choose")
  BY <1>3, <1>5, <1>7, Threads
<1>9. \A w \in Worker : (leaving'[w] # None) = (pc'[w] \in Leaves)
  BY <1>4, <1>6, <1>7, Threads
<1>. QED  BY <1>8, <1>9 DEF Seek

LEMMA AcceptSeek ==
  ASSUME Types, Seek, AcceptorStep
  PROVE  Seek'
<1>1. UNCHANGED leaving /\ (pc' = pc \/ \E p \in Label : Goto(0, p))
  BY DEF AcceptorStep, Choose, AddClient, Accept, threads, Label
<1>2. \A w \in Worker : pc'[w] = pc[w]
  BY <1>1, GotoTypes, Threads
<1>3. CASE Choose
  BY <1>1, <1>2, <1>3, ChooseTypes DEF Choose, Seek, threads
<1>4. CASE AddClient
  <2>1. pc'[0] = "check" /\ scan'.conn = None
    BY <1>4, GotoTypes, Threads DEF AddClient, NoScan, Label
  <2>. QED  BY <1>1, <1>2, <2>1 DEF Seek
<1>5. ASSUME NEW c \in Conn, Accept(c)
      PROVE  Seek'
  <2>1. c # None
    BY Conns
  <2>2. CASE HasPlace
    <3>1. pc'[0] = "choose" /\ scan'.conn = c
      BY <1>5, <2>2, GotoTypes, Threads DEF Accept, Label
    <3>. QED  BY <1>1, <1>2, <2>1, <3>1 DEF Seek
  <2>3. CASE ~HasPlace
    <3>1. pc'[0] = "check" /\ scan' = scan /\ pc[0] = "accept"
      BY <1>5, <2>3, GotoTypes, Threads DEF Accept, Label
    <3>. QED  BY <1>1, <1>2, <3>1 DEF Seek
  <2>. QED  BY <2>2, <2>3
<1>. QED  BY <1>3, <1>4, <1>5 DEF AcceptorStep

LEMMA HomeSeek ==
  ASSUME Types, Seek, NEW w \in Worker, HomeStep(w)
  PROVE  Seek'
<1>1. scan' = scan
  BY DEF HomeStep, ClearClients, Join, Joined, Write, Find,
         ClientLeave, Expire, Erase, Remove, Leave, Delete
<1>2. PICK p \in Label : Goto(w, p)
  BY Threads, MovesOf DEF HomeStep, Moves, Label
<1>3. pc'[w] = p /\ \A u \in Thread : u # w => pc'[u] = pc[u]
  BY <1>2, GotoTypes, Threads
<1>4. \A v \in Worker : v # w => leaving'[v] = leaving[v]
  BY DEF HomeStep, ClearClients, Join, Joined, Write, Find,
         ClientLeave, Expire, Erase, Remove, Leave, Delete, Types
<1>5. leaving'[w] # None <=> p \in Leaves
  <2>1. CASE ClientLeave(w)
    <3>1. (pc[w] \in Leaves <=> leaving[w] # None) /\ leaving \in [Worker -> Conn \cup {None}]
      BY DEF Seek, Types
    <3>2. ASSUME NEW c \in Conn, Expire(w, c) \/ Remove(w, c)
          PROVE  leaving'[w] # None /\ p \in Leaves
      BY <1>2, <1>3, <3>1, <3>2, GotoTypes, Threads, Conns
         DEF Expire, Remove, Leaves, Label
    <3>3. CASE Leave(w)
      BY <1>3, <3>1, <3>3, GotoTypes, Threads DEF Leave, Leaves, Label
    <3>4. CASE Delete(w)
      BY <1>3, <3>1, <3>4, GotoTypes, Threads DEF Delete, Leaves, Label
    <3>5. CASE Erase(w)
      BY <1>3, <3>1, <3>5, GotoTypes, Threads DEF Erase, Leaves, Label
    <3>. QED  BY <2>1, <3>2, <3>3, <3>4, <3>5 DEF ClientLeave
  <2>2. CASE ~ClientLeave(w)
    <3>1. PICK q \in Label : Goto(w, q) /\ q \notin Leaves
      BY <2>2 DEF HomeStep, ClearClients, Join, Joined, Write, Find, Leaves, Label
    <3>2. p = q
      BY <1>3, <3>1, GotoTypes, Threads
    <3>3. UNCHANGED leaving /\ pc[w] \notin Leaves
      BY <2>2 DEF HomeStep, ClearClients, Join, Joined, Write, Find, Leaves
    <3>. QED  BY <3>1, <3>2, <3>3 DEF Seek
  <2>. QED  BY <2>1, <2>2
<1>6. \A v \in Worker : leaving'[v] # None <=> pc'[v] \in Leaves
  BY <1>3, <1>4, <1>5, Threads DEF Seek
<1>7. pc'[0] = pc[0]
  BY <1>3, Threads
<1>. QED  BY <1>1, <1>6, <1>7 DEF Seek

LEMMA SeekStep ==
  ASSUME Types, Seek, [Next]_vars
  PROVE  Seek'
<1>1. CASE BeginClose \/ Close \/ Woken \/ UNCHANGED vars
  BY <1>1 DEF BeginClose, Close, Woken, vars, threads, conns, Seek
<1>. QED  BY <1>1, MoveSeek, AcceptSeek, HomeSeek, Steps

LEMMA InitSeek == Init => Seek
BY Threads DEF Init, Seek, NoScan, Leaves

LEMMA NextTypes ==
  ASSUME Types, Seek, [Next]_vars
  PROVE  Types'
<1>1. ASSUME NEW t \in Thread, ThreadStep(t) \/ MoveStep(t)
      PROVE  Types'
  BY <1>1, ThreadTypes, MoveTypes DEF ThreadStep, MoveStep
<1>2. CASE AcceptorStep
  <2>1. AddClient => scan.conn # None
    BY DEF AddClient, Seek
  <2>. QED  BY <1>2, <2>1, AcceptTypes, ChooseTypes, AddClientTypes DEF AcceptorStep
<1>3. ASSUME NEW w \in Worker, HomeStep(w)
      PROVE  Types'
  <2>1. pc[w] \in Leaves => leaving[w] # None
    BY DEF Seek
  <2>. QED  BY <1>3, <2>1, WorkTypes, LeaveTypes DEF HomeStep
<1>4. CASE UNCHANGED vars
  BY <1>4 DEF vars, threads, owner, conns, Types
<1>. QED  BY <1>1, <1>2, <1>3, <1>4, OwnerTypes, Steps

-----------------------------------------------------------------------------
(* Close() and the threads.  A thread is open while Close() did not come   *)
(* to it; SE is where it has woken Close().                                *)
SE == {"store", "ended"}
Open(t) == t > closing \/ (t = closing /\ main \in {"serves", "closes"})

SemAt(t) ==
  /\ pc[t] \in SE => wait[t] \in {0, 1} /\ wakeup[t] \in {0, 1}
  /\ pc[t] \notin SE => wait[t] \in {-1, 0} /\ wakeup[t] = 0
  /\ Open(t) => wait[t] = (IF pc[t] \in SE THEN 1 ELSE 0)
  /\ Open(t) /\ ~isRun[t] => pc[t] = "ended" \/ t \in failed
  /\ pc[t] = "exit" => t \in failed
  /\ t \in freed => pc[t] \in SE \/ t \in failed

Sem ==
  /\ \A t \in Thread : SemAt(t)
  /\ \A w \in Worker :
       w \in freed <=> w < closing \/ (w = closing /\ main = "closed")
  /\ main = "serves" => closing = 0

LEMMA InitSem == Init => Sem
<1>. SUFFICES ASSUME Init PROVE Sem
  OBVIOUS
<1>1. \A t \in Thread : SemAt(t)
  BY DEF Init, SemAt, SE
<1>2. \A w \in Worker : ~(w < closing) /\ main # "closed" /\ w \notin freed
  BY DEF Init, Worker
<1>. QED  BY <1>1, <1>2 DEF Init, Sem

(* A step of thread t, that leaves Close() where it is.                    *)
LEMMA SemLocal ==
  ASSUME Sem, NEW t \in Thread, UNCHANGED owner, SemAt(t)',
         \A u \in Thread : u # t =>
           /\ pc'[u] = pc[u] /\ isRun'[u] = isRun[u]
           /\ wait'[u] = wait[u] /\ wakeup'[u] = wakeup[u],
         failed \subseteq failed'
  PROVE  Sem'
<1>1. \A u \in Thread : u # t => SemAt(u)'
  BY DEF Sem, SemAt, Open, owner
<1>2. \A u \in Thread : SemAt(u)'
  BY <1>1
<1>. QED  BY <1>2 DEF Sem, owner

LEMMA SemMoves ==
  ASSUME Types, Sem, NEW t \in Thread, NEW p \in Label, Moves(t, p)
  PROVE  Sem'
<1>1. pc'[t] = p /\ \A u \in Thread : u # t => pc'[u] = pc[u]
  BY GotoTypes DEF Moves
<1>2. SemAt(t)
  BY DEF Sem
<1>3. UNCHANGED <<isRun, wait, wakeup, failed, owner>>
      /\ p \notin {"store", "ended", "exit"} /\ pc[t] \notin {"store", "ended", "exit"}
  BY DEF Moves
<1>4. SemAt(t)'
  BY <1>1, <1>2, <1>3 DEF SemAt, SE, Open, owner
<1>. QED  BY <1>1, <1>3, <1>4, SemLocal

LEMMA SemThread ==
  ASSUME Types, Sem, NEW t \in Thread, ThreadStep(t)
  PROVE  Sem'
<1>1. SemAt(t)
  BY DEF Sem
<1>2. /\ wait[t] \in Int /\ wakeup[t] \in Int /\ isRun[t] \in BOOLEAN
      /\ closing \in Int /\ t \in Int
  BY Threads DEF Types
<1>3. PICK p \in Label : Goto(t, p)
  BY DEF ThreadStep, Fail, Exit, Wakeup, Store, Label
<1>4. /\ pc'[t] = p /\ \A u \in Thread : u # t => pc'[u] = pc[u]
  BY <1>3, GotoTypes
<1>5. UNCHANGED owner /\ failed \subseteq failed' /\ (Open(t)' <=> Open(t))
  BY DEF ThreadStep, Fail, Exit, Wakeup, Store, owner, Open
<1>6. \A u \in Thread : u # t =>
        /\ isRun'[u] = isRun[u] /\ wait'[u] = wait[u] /\ wakeup'[u] = wakeup[u]
  BY DEF ThreadStep, Fail, Exit, Wakeup, Store, Types
<1>7. SemAt(t)'
  <2>1. CASE Fail(t)
    <3>1. /\ p \in {"exit", "wakeup", "destroy"} /\ pc[t] \in {"accept", "serve"}
          /\ t \in failed'
      BY <1>3, <1>4, <2>1, GotoTypes DEF Fail, Label
    <3>. QED  BY <1>1, <1>4, <1>5, <2>1, <3>1 DEF Fail, SemAt, SE, owner
  <2>2. CASE Exit(t)
    <3>1. p \in {"wakeup", "destroy"} /\ pc[t] = "exit" /\ t \in failed'
      BY <1>1, <1>3, <1>4, <2>2, GotoTypes DEF Exit, SemAt, Label
    <3>. QED  BY <1>1, <1>4, <1>5, <2>2, <3>1 DEF Exit, SemAt, SE, owner
  <2>3. CASE Wakeup(t)
    <3>1. pc[t] = "wakeup" /\ p = "store"
      BY <1>3, <1>4, <2>3, GotoTypes DEF Wakeup, Label
    <3>2. wait[t] \in {-1, 0} /\ wakeup[t] = 0 /\ (Open(t) => wait[t] = 0)
      BY <1>1, <3>1 DEF SemAt, SE
    <3>3. wait'[t] = wait[t] + 1 /\ wakeup'[t] \in {0, 1}
      BY <1>2, <2>3, <3>2 DEF Wakeup, Types
    <3>4. UNCHANGED <<isRun, failed, freed>>
      BY <2>3 DEF Wakeup, owner
    <3>. QED  BY <1>1, <1>2, <1>4, <1>5, <3>1, <3>2, <3>3, <3>4 DEF SemAt, SE
  <2>4. CASE Store(t)
    <3>1. pc[t] = "store" /\ p = "ended"
      BY <1>3, <1>4, <2>4, GotoTypes DEF Store, Label
    <3>2. UNCHANGED <<wait, wakeup, failed, freed>>
      BY <2>4 DEF Store, owner
    <3>. QED  BY <1>1, <1>4, <1>5, <3>1, <3>2 DEF SemAt, SE
  <2>. QED  BY <2>1, <2>2, <2>3, <2>4 DEF ThreadStep
<1>. QED  BY <1>4, <1>5, <1>6, <1>7, SemLocal

(* Close() goes on from a thread that has ended, or nearly so.             *)
LEMMA SemProceed ==
  ASSUME Types, Sem, Proceed, main \in {"closes", "waits"},
         pc[closing] \in SE \/ closing \in failed,
         UNCHANGED <<pc, failed>>,
         \A t \in Thread : t # closing =>
           isRun'[t] = isRun[t] /\ wait'[t] = wait[t] /\ wakeup'[t] = wakeup[t],
         pc[closing] \in SE => wait'[closing] \in {0, 1} /\ wakeup'[closing] \in {0, 1},
         pc[closing] \notin SE => wait'[closing] \in {-1, 0} /\ wakeup'[closing] = 0
  PROVE  Sem'
<1>1. PICK c \in Thread : c = closing
  BY DEF Types
<1>2. c \in Int /\ NWorker \in Int /\ \A t \in Thread : t \in Int /\ t <= NWorker
  BY Threads DEF Thread
<1>3. /\ freed' = freed \cup ({c} \cap Worker)
      /\ \/ c = NWorker /\ main' = "closed" /\ closing' = c
         \/ c # NWorker /\ main' = "closes" /\ closing' = c + 1
  BY <1>1, ProceedTypes
<1>4. \A t \in Thread : Open(t)' => t # c /\ Open(t)
  BY <1>1, <1>2, <1>3 DEF Open
<1>5. SemAt(c)'
  <2>1. SemAt(c) /\ ~Open(c)'
    BY <1>4 DEF Sem
  <2>. QED  BY <1>1, <2>1 DEF SemAt
<1>6. ASSUME NEW t \in Thread, t # c
      PROVE  SemAt(t)'
  <2>1. SemAt(t) /\ (t \in freed' => t \in freed) /\ (Open(t)' => Open(t))
    BY <1>3, <1>4, <1>6 DEF Sem
  <2>. QED  BY <1>1, <1>6, <2>1 DEF SemAt
<1>7. \A w \in Worker :
        w \in freed' <=> w < closing' \/ (w = closing' /\ main' = "closed")
  <2>. SUFFICES ASSUME NEW w \in Worker
                PROVE  w \in freed' <=> w < closing' \/ (w = closing' /\ main' = "closed")
    OBVIOUS
  <2>1. w \in freed <=> w < c
    BY <1>1 DEF Sem
  <2>2. w \in Int /\ w <= NWorker
    BY <1>2, Threads
  <2>. QED  BY <1>2, <1>3, <2>1, <2>2
<1>8. \A t \in Thread : SemAt(t)'
  BY <1>5, <1>6
<1>9. main' # "serves"
  BY <1>3
<1>. QED  BY <1>7, <1>8, <1>9 DEF Sem

LEMMA SemOwner ==
  ASSUME Types, Sem, BeginClose \/ Close \/ Woken
  PROVE  Sem'
<1>1. closing \in Thread /\ closing \in Int /\ SemAt(closing)
  BY Threads DEF Types, Sem
<1>2. CASE BeginClose
  <2>1. closing = 0 /\ closing' = 0 /\ main = "serves" /\ main' = "closes"
    BY <1>2 DEF BeginClose, Sem
  <2>2. \A t \in Thread : SemAt(t)'
    BY <1>2, <2>1 DEF BeginClose, threads, Sem, SemAt, Open
  <2>3. \A w \in Worker :
          w \in freed' <=> w < closing' \/ (w = closing' /\ main' = "closed")
    BY <1>2, <2>1 DEF BeginClose, Sem
  <2>. QED  BY <2>1, <2>2, <2>3 DEF Sem
<1>3. CASE Close
  <2>1. Open(closing) /\ main = "closes"
    BY <1>3 DEF Close, Open
  <2>2. UNCHANGED <<pc, wakeup, failed>>
    BY <1>3 DEF Close
  <2>3. CASE ~isRun[closing]
    <3>1. Proceed /\ UNCHANGED <<isRun, wait>>
      BY <1>3, <2>3 DEF Close
    <3>2. pc[closing] \in SE \/ closing \in failed
      BY <1>1, <2>1, <2>3 DEF SemAt, SE
    <3>. QED  BY <1>1, <2>1, <2>2, <3>1, <3>2, SemProceed DEF SemAt
  <2>4. CASE isRun[closing]
    <3>1. /\ wait[closing] \in Int /\ wait'[closing] = wait[closing] - 1
          /\ \A t \in Thread : t # closing => isRun'[t] = isRun[t] /\ wait'[t] = wait[t]
      BY <1>1, <1>3, <2>4 DEF Close, Types
    <3>2. wait[closing] = (IF pc[closing] \in SE THEN 1 ELSE 0)
      BY <1>1, <2>1 DEF SemAt
    <3>3. CASE pc[closing] \in SE
      <4>1. wait'[closing] = 0 /\ ~(wait[closing] - 1 < 0)
        BY <3>1, <3>2, <3>3
      <4>2. Proceed
        BY <1>3, <2>4, <4>1 DEF Close
      <4>. QED  BY <1>1, <2>1, <2>2, <3>1, <3>3, <4>1, <4>2, SemProceed DEF SemAt
    <3>4. CASE pc[closing] \notin SE
      <4>1. wait'[closing] = -1 /\ wait[closing] - 1 < 0
        BY <3>1, <3>2, <3>4
      <4>2. main' = "waits" /\ UNCHANGED <<closing, freed>>
        BY <1>3, <2>4, <4>1 DEF Close
      <4>3. PICK c \in Thread : c = closing /\ c \in Int
        BY <1>1
      <4>4. SemAt(c)'
        <5>1. ~Open(c)'
          BY <4>2, <4>3 DEF Open
        <5>2. c \notin freed
          BY <2>1, <4>3 DEF Sem, Types
        <5>. QED  BY <1>1, <2>2, <3>4, <4>1, <4>2, <4>3, <5>1, <5>2 DEF SemAt
      <4>5. ASSUME NEW t \in Thread, t # c
            PROVE  SemAt(t)'
        <5>1. SemAt(t) /\ (Open(t)' => Open(t))
          BY <4>2, <4>3, <4>5 DEF Sem, Open
        <5>. QED  BY <2>2, <3>1, <4>2, <4>3, <4>5, <5>1 DEF SemAt
      <4>6. \A t \in Thread : SemAt(t)'
        BY <4>4, <4>5
      <4>7. \A w \in Worker :
              w \in freed' <=> w < closing' \/ (w = closing' /\ main' = "closed")
        BY <2>1, <4>2 DEF Sem
      <4>8. main' # "serves"
        BY <4>2
      <4>. QED  BY <4>6, <4>7, <4>8 DEF Sem
    <3>. QED  BY <3>3, <3>4
  <2>. QED  BY <2>3, <2>4
<1>4. CASE Woken
  <2>1. main = "waits" /\ wakeup[closing] > 0 /\ Proceed /\ UNCHANGED <<pc, isRun, wait, failed>>
    BY <1>4 DEF Woken
  <2>2. pc[closing] \in SE /\ wakeup[closing] = 1 /\ wait[closing] \in {0, 1}
    BY <1>1, <2>1 DEF SemAt
  <2>3. wakeup'[closing] = 0 /\ \A t \in Thread : t # closing => wakeup'[t] = wakeup[t]
    BY <1>1, <1>4, <2>2 DEF Woken, Types
  <2>. QED  BY <2>1, <2>2, <2>3, SemProceed
<1>. QED  BY <1>2, <1>3, <1>4

LEMMA SemStep ==
  ASSUME Types, Sem, [Next]_vars
  PROVE  Sem'
<1>1. ASSUME NEW t \in Thread, MoveStep(t)
      PROVE  Sem'
  <2>1. \E p \in Label : Moves(t, p)
    BY <1>1, MovesOf DEF MoveStep, Moves
  <2>. QED  BY <2>1, SemMoves
<1>2. CASE AcceptorStep
  <2>1. CASE Choose
    BY <2>1 DEF Choose, threads, owner, Sem, SemAt, Open
  <2>2. CASE \E p \in Label : Moves(0, p)
    BY <2>2, SemMoves, Threads
  <2>3. AddClient \/ (\E c \in Conn : Accept(c)) => \E p \in Label : Moves(0, p)
    <3>1. 0 \in Thread /\ "check" \in Label
      BY Threads DEF Label
    <3>. QED  BY <3>1, MovesOf
  <2>. QED  BY <1>2, <2>1, <2>2, <2>3 DEF AcceptorStep
<1>3. ASSUME NEW w \in Worker, HomeStep(w)
      PROVE  Sem'
  <2>1. CASE \E p \in Label : Moves(w, p)
    BY <2>1, SemMoves, Threads
  <2>2. w \in Thread
    BY Threads
  <2>. QED  BY <1>3, <2>1, <2>2, MovesOf DEF HomeStep, Moves
<1>4. CASE UNCHANGED vars
  BY <1>4 DEF vars, threads, owner, Sem, SemAt, Open
<1>. QED  BY <1>1, <1>2, <1>3, <1>4, SemThread, SemOwner, Steps

(* A worker is deleted only when its thread has ended or is about to, or   *)
(* has ended by itself; for any number of workers.                         *)
THEOREM DeletedWorkersAreDone == Spec => []DeletedIsDone
<1>1. Types /\ Seek /\ Sem /\ [Next]_vars => (Types /\ Seek /\ Sem)'
  BY NextTypes, SeekStep, SemStep
<1>2. Init => Seek
  BY InitSeek
<1>3. Types /\ Sem => DeletedIsDone
  BY Threads DEF Sem, SemAt, SE, Types, DeletedIsDone
<1>. QED
  BY InitTypes, InitSem, <1>1, <1>2, <1>3, PTL DEF Spec

-----------------------------------------------------------------------------
(* Where a connection is: with the acceptor, a worker's own, or deleted.   *)
Home(w) == fresh[w] \cup clients[w]
Own(w)  == Home(w) \cup ({leaving[w]} \ {None})
Gone(w) == {c \in Own(w) : c = leaving[w] /\ pc[w] = "erase"}

FreshAt(w) ==
  /\ pc[w] # "clear" => fresh[w] \cap clients[w] = {}
  /\ pc[w] = "clear" => fresh[w] \subseteq clients[w]
LeaveAt(w) ==
  /\ pc[w] \in {"expired", "erase"} => leaving[w] \in clients[w]
  /\ pc[w] \in {"removed", "delete"} => leaving[w] \notin Home(w)

Homes ==
  /\ \A v, w \in Worker : v # w => Own(v) \cap Own(w) = {}
  /\ \A w \in Worker : Own(w) \cap cleared = {} /\ Own(w) \cap dropped = Gone(w)
  /\ \A w \in Worker : scan.conn \notin Own(w)
  /\ scan.conn \notin dropped \cup cleared
  /\ dropped \cap cleared = {}
  /\ \A w \in Worker : FreshAt(w) /\ LeaveAt(w)

LEMMA InitHomes == Init => Homes
<1>. SUFFICES ASSUME Init PROVE Homes
  OBVIOUS
<1>1. \A w \in Worker : Own(w) = {}
  BY DEF Init, Own, Home
<1>2. \A w \in Worker : pc[w] = "check"
  BY Threads DEF Init
<1>3. \A w \in Worker : FreshAt(w) /\ LeaveAt(w)
  BY <1>2 DEF Init, FreshAt, LeaveAt
<1>. QED  BY <1>1, <1>3 DEF Init, Homes, Gone, NoScan

LEMMA NoneIsNowhere ==
  ASSUME Types
  PROVE  None \notin dropped \cup cleared /\ \A w \in Worker : None \notin Own(w)
BY Conns DEF Types, Home, Own

(* What a worker's own step may do.                                        *)
LEMMA LocalHomes ==
  ASSUME Homes, NEW w \in Worker,
         \A v \in Worker : v # w => /\ pc'[v] = pc[v] /\ leaving'[v] = leaving[v]
                                   /\ fresh'[v] = fresh[v] /\ clients'[v] = clients[v],
         scan' = scan, Own(w)' \subseteq Own(w),
         dropped \subseteq dropped', dropped' \subseteq dropped \cup Own(w),
         cleared \subseteq cleared', cleared' \subseteq cleared \cup Own(w),
         Own(w)' \cap cleared' = {}, Own(w)' \cap dropped' = Gone(w)',
         dropped' \cap cleared' = {}, FreshAt(w)', LeaveAt(w)'
  PROVE  /\ Homes'
         /\ \A v \in Worker : v # w => Own(v)' = Own(v)
<1>1. \A v \in Worker : v # w => Home(v)' = Home(v) /\ Own(v)' = Own(v)
  BY DEF Home, Own
<1>2. \A v \in Worker : v # w => Gone(v)' = Gone(v)
  BY <1>1 DEF Gone
<1>3. \A v \in Worker : v # w => FreshAt(v)' /\ LeaveAt(v)'
  BY <1>1 DEF Homes, FreshAt, LeaveAt
<1>4. \A u, v \in Worker : u # v => Own(u)' \cap Own(v)' = {}
  BY <1>1 DEF Homes
<1>5. ASSUME NEW v \in Worker, v # w
      PROVE  Own(v)' \cap cleared' = {} /\ Own(v)' \cap dropped' = Gone(v)'
  <2>1. Own(v) \cap Own(w) = {} /\ Own(v) \cap cleared = {} /\ Own(v) \cap dropped = Gone(v)
    BY <1>5 DEF Homes
  <2>2. Own(v)' = Own(v) /\ Gone(v)' = Gone(v)
    BY <1>1, <1>2, <1>5
  <2>. QED  BY <2>1, <2>2
<1>6. \A v \in Worker : Own(v)' \cap cleared' = {} /\ Own(v)' \cap dropped' = Gone(v)'
  BY <1>5
<1>7. \A v \in Worker : scan'.conn \notin Own(v)'
  BY <1>1 DEF Homes
<1>8. scan'.conn \notin dropped' \cup cleared'
  BY DEF Homes
<1>9. \A v \in Worker : FreshAt(v)' /\ LeaveAt(v)'
  BY <1>3
<1>. QED  BY <1>1, <1>4, <1>6, <1>7, <1>8, <1>9 DEF Homes

(* What the worker knows of its own connections. *)
LEMMA OwnFacts ==
  ASSUME Types, Seek, Homes, NEW w \in Worker
  PROVE  /\ Own(w) \cap cleared = {} /\ Own(w) \cap dropped = Gone(w)
         /\ dropped \cap cleared = {} /\ FreshAt(w) /\ LeaveAt(w)
         /\ clients[w] \subseteq Own(w) /\ fresh[w] \subseteq Own(w) /\ None \notin Own(w)
         /\ leaving[w] # None => leaving[w] \in Own(w)
         /\ (leaving[w] # None) = (pc[w] \in Leaves)
BY NoneIsNowhere DEF Homes, Own, Home, Seek

(* The two stages of taking over new connections. *)
LEMMA JoinHomes ==
  ASSUME Types, Seek, Homes, NEW w \in Worker, Join(w) \/ Joined(w)
  PROVE  /\ \A v \in Worker : Own(v)' = Own(v)
         /\ leaving[w] = None /\ leaving'[w] = None
         /\ Homes'
<1>1. PICK p \in Label : Goto(w, p) /\ p \notin Leaves
  BY DEF Join, Joined, Label, Leaves
<1>2. pc'[w] = p /\ \A v \in Worker : v # w => pc'[v] = pc[v]
  BY <1>1, GotoTypes, Threads
<1>3. UNCHANGED <<scan, leaving, dropped, cleared>> /\ pc[w] \notin Leaves
  BY DEF Join, Joined, Leaves
<1>4. \A v \in Worker : v # w => clients'[v] = clients[v] /\ fresh'[v] = fresh[v]
  BY DEF Join, Joined, Types
<1>5. Home(w)' = Home(w) /\ FreshAt(w)'
  <2>1. CASE Join(w)
    <3>1. fresh'[w] = fresh[w] /\ pc[w] = "join"
      BY <2>1 DEF Join
    <3>2. CASE fresh[w] = {}
      <4>1. clients'[w] = clients[w] /\ pc'[w] # "clear"
        BY <1>2, <2>1, <3>2, GotoTypes, Threads DEF Join, Label
      <4>. QED  BY <3>1, <3>2, <4>1 DEF FreshAt, Home
    <3>3. CASE fresh[w] # {}
      <4>1. clients'[w] = clients[w] \cup fresh[w] /\ pc'[w] = "clear"
        BY <1>2, <2>1, <3>3, GotoTypes, Threads DEF Join, Label, Types
      <4>. QED  BY <3>1, <4>1 DEF FreshAt, Home
    <3>. QED  BY <3>2, <3>3
  <2>2. CASE Joined(w)
    <3>1. fresh'[w] = {} /\ clients'[w] = clients[w] /\ fresh[w] \subseteq clients[w]
      BY <2>2 DEF Joined, Types, Homes, FreshAt
    <3>2. pc'[w] # "clear"
      BY <1>2, <2>2, GotoTypes, Threads DEF Joined, Label
    <3>. QED  BY <3>1, <3>2 DEF FreshAt, Home
  <2>. QED  BY <2>1, <2>2
<1>6. Own(w)' = Own(w)
  BY <1>3, <1>5 DEF Own
<1>7. LeaveAt(w)' /\ Gone(w) = {} /\ Gone(w)' = {}
  BY <1>1, <1>2, <1>3 DEF LeaveAt, Leaves, Gone
<1>8. Homes' /\ \A v \in Worker : v # w => Own(v)' = Own(v)
  BY <1>2, <1>3, <1>4, <1>5, <1>6, <1>7, LocalHomes, OwnFacts
<1>. QED  BY <1>3, <1>6, <1>8, OwnFacts

LEMMA ClearHomes ==
  ASSUME Types, Seek, Homes, NEW w \in Worker, ClearClients(w)
  PROVE  /\ Own(w)' = {} /\ Home(w)' = {} /\ cleared' = cleared \cup Own(w)
         /\ \A v \in Worker : v # w => Own(v)' = Own(v)
         /\ leaving[w] = None
         /\ Homes'
<1>1. /\ clients'[w] = {} /\ fresh'[w] = {}
      /\ \A v \in Worker : v # w => clients'[v] = clients[v] /\ fresh'[v] = fresh[v]
      /\ cleared' = cleared \cup Home(w) /\ UNCHANGED <<scan, leaving, dropped>>
      /\ pc[w] = "destroy"
  BY DEF ClearClients, Types, Home
<1>2. pc'[w] = "wakeup" /\ \A v \in Worker : v # w => pc'[v] = pc[v]
  BY GotoTypes, Threads DEF ClearClients, Label
<1>3. leaving[w] = None /\ leaving'[w] = None /\ Gone(w) = {} /\ Gone(w)' = {}
  BY <1>1, <1>2, OwnFacts DEF Leaves, Gone
<1>4. Own(w) = Home(w) /\ Home(w)' = {} /\ Own(w)' = {}
  BY <1>1, <1>3 DEF Own, Home
<1>5. FreshAt(w)' /\ LeaveAt(w)'
  BY <1>1, <1>2 DEF FreshAt, LeaveAt
<1>6. dropped' \cap cleared' = {}
  BY <1>1, <1>3, <1>4, OwnFacts
<1>7. Homes' /\ \A v \in Worker : v # w => Own(v)' = Own(v)
  BY <1>1, <1>2, <1>3, <1>4, <1>5, <1>6, LocalHomes
<1>. QED  BY <1>1, <1>3, <1>4, <1>7

(* A connection leaves.  OnNetLeave() counts it off: it is no longer       *)
(* counted while the worker deletes it.                                    *)
Counts(w) == {c \in Own(w) : c = leaving[w] => pc[w] = "removed"}
LeaveFrame(w, p) ==
  /\ pc'[w] = p /\ \A v \in Worker : v # w => pc'[v] = pc[v]
  /\ UNCHANGED <<scan, fresh, cleared>>
  /\ \A v \in Worker : v # w => clients'[v] = clients[v] /\ leaving'[v] = leaving[v]

LEMMA LeaveFrames ==
  ASSUME Types, NEW w \in Worker
  PROVE  /\ \A c \in Conn : Expire(w, c) => LeaveFrame(w, "expired")
         /\ \A c \in Conn : Remove(w, c) => LeaveFrame(w, "removed")
         /\ Leave(w) => LeaveFrame(w, "delete")
         /\ Erase(w) => LeaveFrame(w, "serve")
         /\ Delete(w) /\ pc[w] = "expired" => LeaveFrame(w, "erase")
         /\ Delete(w) /\ pc[w] = "delete" => LeaveFrame(w, "events")
<1>. USE GotoTypes, Threads DEF LeaveFrame, Label
<1>1. \A c \in Conn : Expire(w, c) => LeaveFrame(w, "expired")
  BY DEF Expire, Types
<1>2. \A c \in Conn : Remove(w, c) => LeaveFrame(w, "removed")
  BY DEF Remove, Types
<1>3. Leave(w) => LeaveFrame(w, "delete")
  BY DEF Leave
<1>4. Erase(w) => LeaveFrame(w, "serve")
  BY DEF Erase, Types
<1>5. Delete(w) /\ pc[w] = "expired" => LeaveFrame(w, "erase")
  BY DEF Delete, Types
<1>6. Delete(w) /\ pc[w] = "delete" => LeaveFrame(w, "events")
  BY DEF Delete, Types
<1>. QED  BY <1>1, <1>2, <1>3, <1>4, <1>5, <1>6

LEMMA ExpireHomes ==
  ASSUME Types, Seek, Homes, NEW w \in Worker, NEW c \in Conn, Expire(w, c)
  PROVE  /\ \A v \in Worker : v # w => Own(v)' = Own(v)
         /\ c \in Counts(w) /\ Counts(w)' = Counts(w) \ {c} /\ Homes'
<1>1. LeaveFrame(w, "expired") /\ pc[w] = "serve"
  BY LeaveFrames DEF Expire
<1>2. c # None /\ c \in clients[w] /\ leaving'[w] = c /\ clients' = clients
      /\ dropped' = dropped
  BY Conns DEF Expire, Types
<1>3. leaving[w] = None /\ Gone(w) = {}
  BY <1>1, OwnFacts DEF Leaves, Gone
<1>4. Own(w)' = Own(w) /\ Gone(w)' = {} /\ Home(w)' = Home(w)
  BY <1>1, <1>2, <1>3 DEF Own, Home, Gone, LeaveFrame
<1>5. FreshAt(w)' /\ LeaveAt(w)'
  BY <1>1, <1>2, OwnFacts DEF FreshAt, LeaveAt, LeaveFrame
<1>6. Homes' /\ \A v \in Worker : v # w => Own(v)' = Own(v)
  BY <1>1, <1>2, <1>3, <1>4, <1>5, OwnFacts, LocalHomes DEF LeaveFrame
<1>7. c \in Own(w) /\ None \notin Own(w)
  BY <1>2, OwnFacts
<1>8. Counts(w) = Own(w) /\ Counts(w)' = Own(w) \ {c}
  BY <1>1, <1>2, <1>3, <1>4, <1>7 DEF Counts, LeaveFrame
<1>. QED  BY <1>6, <1>7, <1>8

LEMMA RemoveHomes ==
  ASSUME Types, Seek, Homes, NEW w \in Worker, NEW c \in Conn, Remove(w, c)
  PROVE  /\ \A v \in Worker : v # w => Own(v)' = Own(v)
         /\ Counts(w)' = Counts(w) /\ Homes'
<1>1. LeaveFrame(w, "removed") /\ pc[w] = "events"
  BY LeaveFrames DEF Remove
<1>2. /\ c # None /\ c \in clients[w] /\ leaving'[w] = c /\ dropped' = dropped
      /\ clients'[w] = clients[w] \ {c} /\ fresh'[w] = fresh[w]
  BY Conns DEF Remove, Types
<1>3. leaving[w] = None /\ Gone(w) = {}
  BY <1>1, OwnFacts DEF Leaves, Gone
<1>4. Own(w)' = Own(w) /\ Gone(w)' = {}
  BY <1>1, <1>2, <1>3 DEF Own, Home, Gone, LeaveFrame
<1>5. c \notin fresh[w]
  BY <1>1, <1>2, OwnFacts DEF FreshAt
<1>6. FreshAt(w)' /\ LeaveAt(w)'
  BY <1>1, <1>2, <1>5, OwnFacts DEF FreshAt, LeaveAt, LeaveFrame, Home
<1>7. Homes' /\ \A v \in Worker : v # w => Own(v)' = Own(v)
  BY <1>1, <1>2, <1>3, <1>4, <1>6, OwnFacts, LocalHomes DEF LeaveFrame
<1>8. None \notin Own(w)
  BY OwnFacts
<1>9. Counts(w) = Own(w) /\ Counts(w)' = Own(w)
  BY <1>1, <1>3, <1>4, <1>8 DEF Counts, LeaveFrame
<1>. QED  BY <1>7, <1>9

LEMMA LeaveHomes ==
  ASSUME Types, Seek, Homes, NEW w \in Worker, Leave(w)
  PROVE  /\ \A v \in Worker : v # w => Own(v)' = Own(v)
         /\ \E c \in Conn : c \in Counts(w) /\ Counts(w)' = Counts(w) \ {c}
         /\ Homes'
<1>1. LeaveFrame(w, "delete") /\ pc[w] = "removed"
  BY LeaveFrames DEF Leave
<1>2. PICK c \in Conn : c = leaving[w]
  BY <1>1, OwnFacts DEF Leaves, Types
<1>3. leaving' = leaving /\ dropped' = dropped /\ clients' = clients
  BY DEF Leave
<1>4. Own(w)' = Own(w) /\ Gone(w)' = {} /\ Gone(w) = {} /\ Home(w)' = Home(w)
  BY <1>1, <1>3 DEF Own, Home, Gone, LeaveFrame
<1>5. FreshAt(w)' /\ LeaveAt(w)'
  BY <1>1, <1>3, <1>4, OwnFacts DEF FreshAt, LeaveAt, LeaveFrame
<1>6. Homes' /\ \A v \in Worker : v # w => Own(v)' = Own(v)
  BY <1>1, <1>3, <1>4, <1>5, OwnFacts, LocalHomes DEF LeaveFrame
<1>7. c \in Own(w)
  BY <1>2, Conns, OwnFacts
<1>8. Counts(w) = Own(w) /\ Counts(w)' = Own(w) \ {c}
  BY <1>1, <1>2, <1>3, <1>4 DEF Counts, LeaveFrame
<1>. QED  BY <1>6, <1>7, <1>8

LEMMA EraseHomes ==
  ASSUME Types, Seek, Homes, NEW w \in Worker, Erase(w)
  PROVE  /\ \A v \in Worker : v # w => Own(v)' = Own(v)
         /\ Counts(w)' = Counts(w) /\ Homes'
<1>1. LeaveFrame(w, "serve") /\ pc[w] = "erase"
  BY LeaveFrames DEF Erase
<1>2. PICK c \in Conn : c = leaving[w]
  BY <1>1, OwnFacts DEF Leaves, Types
<1>3. /\ leaving'[w] = None /\ dropped' = dropped /\ fresh'[w] = fresh[w]
      /\ clients'[w] = clients[w] \ {c} /\ c \in clients[w] /\ c # None
  BY <1>1, <1>2, Conns, OwnFacts DEF Erase, Types, LeaveAt
<1>4. c \notin fresh[w]
  BY <1>1, <1>3, OwnFacts DEF FreshAt
<1>5. Own(w)' = Own(w) \ {c} /\ c \in Own(w) /\ Gone(w)' = {} /\ Gone(w) = {c}
  BY <1>1, <1>2, <1>3, <1>4 DEF Own, Home, Gone, LeaveFrame
<1>6. FreshAt(w)' /\ LeaveAt(w)'
  BY <1>1, <1>3, OwnFacts DEF FreshAt, LeaveAt, LeaveFrame
<1>7. Own(w)' \cap dropped' = {} /\ Own(w)' \cap cleared' = {}
  BY <1>1, <1>3, <1>5, OwnFacts DEF LeaveFrame
<1>8. Homes' /\ \A v \in Worker : v # w => Own(v)' = Own(v)
  BY <1>1, <1>3, <1>5, <1>6, <1>7, OwnFacts, LocalHomes DEF LeaveFrame
<1>9. None \notin Own(w)
  BY OwnFacts
<1>10. Counts(w) = Own(w) \ {c} /\ Counts(w)' = Own(w) \ {c}
  BY <1>1, <1>2, <1>3, <1>5, <1>9 DEF Counts, LeaveFrame
<1>. QED  BY <1>8, <1>10

LEMMA DeleteHomes ==
  ASSUME Types, Seek, Homes, NEW w \in Worker, Delete(w)
  PROVE  /\ \A v \in Worker : v # w => Own(v)' = Own(v)
         /\ Counts(w)' = Counts(w) /\ Homes'
<1>1. PICK c \in Conn : c = leaving[w] /\ c # None
  BY Conns, OwnFacts DEF Delete, Leaves, Types
<1>2. c \in Own(w) /\ dropped' = dropped \cup {c} /\ clients' = clients
  BY <1>1, OwnFacts DEF Delete
<1>3. None \notin Own(w) /\ Own(w) \cap cleared = {} /\ Own(w) \cap dropped = Gone(w)
      /\ dropped \cap cleared = {}
  BY OwnFacts
<1>4. CASE pc[w] = "expired"
  <2>1. LeaveFrame(w, "erase") /\ leaving' = leaving
    BY <1>4, LeaveFrames DEF Delete
  <2>2. Own(w)' = Own(w) /\ Gone(w)' = {c} /\ Gone(w) = {} /\ Home(w)' = Home(w)
    BY <1>1, <1>2, <1>4, <2>1 DEF Own, Home, Gone, LeaveFrame
  <2>3. FreshAt(w)' /\ LeaveAt(w)'
    BY <1>2, <1>4, <2>1, OwnFacts DEF FreshAt, LeaveAt, LeaveFrame
  <2>4. Own(w)' \cap dropped' = Gone(w)' /\ Own(w)' \cap cleared' = {}
        /\ dropped' \cap cleared' = {}
    BY <1>2, <1>3, <2>1, <2>2 DEF LeaveFrame
  <2>5. Homes' /\ \A v \in Worker : v # w => Own(v)' = Own(v)
    BY <1>2, <2>1, <2>2, <2>3, <2>4, LocalHomes DEF LeaveFrame
  <2>6. Counts(w) = Own(w) \ {c} /\ Counts(w)' = Own(w) \ {c}
    BY <1>1, <1>4, <2>1, <2>2 DEF Counts, LeaveFrame
  <2>. QED  BY <2>5, <2>6
<1>5. CASE pc[w] = "delete"
  <2>1. LeaveFrame(w, "events") /\ leaving'[w] = None
    BY <1>5, LeaveFrames DEF Delete, Types
  <2>2. c \notin Home(w) /\ Home(w)' = Home(w)
    BY <1>1, <1>2, <1>5, <2>1, OwnFacts DEF LeaveAt, Home, LeaveFrame
  <2>3. Own(w)' = Own(w) \ {c} /\ Gone(w)' = {} /\ Gone(w) = {}
    BY <1>1, <1>3, <1>5, <2>1, <2>2 DEF Own, Gone, LeaveFrame
  <2>4. FreshAt(w)' /\ LeaveAt(w)'
    BY <1>2, <1>5, <2>1, OwnFacts DEF FreshAt, LeaveAt, LeaveFrame
  <2>5. Own(w)' \cap dropped' = {} /\ Own(w)' \cap cleared' = {}
        /\ dropped' \cap cleared' = {}
    BY <1>2, <1>3, <2>1, <2>3 DEF LeaveFrame
  <2>6. Homes' /\ \A v \in Worker : v # w => Own(v)' = Own(v)
    BY <1>2, <2>1, <2>3, <2>4, <2>5, LocalHomes DEF LeaveFrame
  <2>7. Counts(w) = Own(w) \ {c} /\ Counts(w)' = Own(w) \ {c}
    BY <1>1, <1>3, <1>5, <2>1, <2>3 DEF Counts, LeaveFrame
  <2>. QED  BY <2>6, <2>7
<1>. QED  BY <1>4, <1>5 DEF Delete

LEMMA AddHomes ==
  ASSUME Types, Seek, Homes, AddClient
  PROVE  /\ \E w \in Worker :
              /\ Own(w)' = Own(w) \cup {scan.conn}
              /\ \A v \in Worker : v # w => Own(v)' = Own(v)
         /\ \A v \in Worker : pc'[v] = pc[v] /\ leaving'[v] = leaving[v]
         /\ \A v \in Worker : leaving[v] # scan.conn
         /\ scan.conn # None /\ scan'.conn = None
         /\ Homes'
<1>1. PICK w \in Worker, c \in Conn \cup {None} : w = scan.best /\ c = scan.conn
  BY DEF Types
<1>2. /\ fresh'[w] = fresh[w] \cup {c} /\ clients' = clients /\ leaving' = leaving
      /\ \A v \in Worker : v # w => fresh'[v] = fresh[v]
      /\ UNCHANGED <<dropped, cleared>> /\ scan'.conn = None /\ pc[w] # "clear"
  BY <1>1 DEF AddClient, Types, NoScan
<1>3. \A v \in Worker : pc'[v] = pc[v]
  BY GotoTypes, Threads DEF AddClient, Label
<1>4. c # None
  BY <1>1 DEF AddClient, Seek
<1>5. Own(w)' = Own(w) \cup {c} /\ \A v \in Worker : v # w => Own(v)' = Own(v)
  BY <1>2 DEF Home, Own
<1>6. c \notin dropped \cup cleared /\ \A v \in Worker : c \notin Own(v)
  BY <1>1 DEF Homes
<1>7. \A v \in Worker : leaving[v] # c
  BY <1>4, <1>6 DEF Own
<1>8. None \notin dropped \cup cleared /\ \A v \in Worker : None \notin Own(v)
  BY NoneIsNowhere
<1>9. \A v \in Worker : FreshAt(v)'
  <2>1. SUFFICES ASSUME NEW v \in Worker PROVE FreshAt(v)'
    OBVIOUS
  <2>2. FreshAt(v) /\ c \notin clients[v]
    BY <1>6 DEF Homes, Own, Home
  <2>. QED  BY <1>2, <1>3, <2>2 DEF FreshAt
<1>10. \A v \in Worker : LeaveAt(v)'
  <2>1. SUFFICES ASSUME NEW v \in Worker PROVE LeaveAt(v)'
    OBVIOUS
  <2>2. LeaveAt(v) /\ leaving[v] # c
    BY <1>7 DEF Homes
  <2>. QED  BY <1>2, <1>3, <2>2 DEF LeaveAt, Home
<1>11. \A v \in Worker : Gone(v)' = Gone(v)
  <2>1. SUFFICES ASSUME NEW v \in Worker PROVE Gone(v)' = Gone(v)
    OBVIOUS
  <2>. QED  BY <1>2, <1>3, <1>5, <1>7 DEF Gone
<1>12. \A u, v \in Worker : u # v => Own(u)' \cap Own(v)' = {}
  <2>1. SUFFICES ASSUME NEW u \in Worker, NEW v \in Worker, u # v
                 PROVE  Own(u)' \cap Own(v)' = {}
    OBVIOUS
  <2>2. Own(u) \cap Own(v) = {} /\ c \notin Own(u) /\ c \notin Own(v)
    BY <1>6, <2>1 DEF Homes
  <2>3. /\ u # w => Own(u)' = Own(u)
        /\ v # w => Own(v)' = Own(v)
        /\ Own(u)' \subseteq Own(u) \cup {c} /\ Own(v)' \subseteq Own(v) \cup {c}
    BY <1>5
  <2>. QED  BY <2>1, <2>2, <2>3
<1>13. \A v \in Worker : Own(v)' \cap cleared' = {} /\ Own(v)' \cap dropped' = Gone(v)'
  <2>1. SUFFICES ASSUME NEW v \in Worker
                 PROVE  Own(v)' \cap cleared' = {} /\ Own(v)' \cap dropped' = Gone(v)'
    OBVIOUS
  <2>2. Own(v) \cap cleared = {} /\ Own(v) \cap dropped = Gone(v)
    BY DEF Homes
  <2>3. Own(v)' = Own(v) \/ Own(v)' = Own(v) \cup {c}
    BY <1>5
  <2>. QED  BY <1>2, <1>6, <1>11, <2>2, <2>3
<1>14. \A v \in Worker : None \notin Own(v)'
  BY <1>4, <1>5, <1>8
<1>15. scan'.conn \notin dropped' \cup cleared' /\ dropped' \cap cleared' = {}
  BY <1>2, <1>8 DEF Homes
<1>16. Homes'
  BY <1>2, <1>9, <1>10, <1>12, <1>13, <1>14, <1>15 DEF Homes
<1>. QED  BY <1>1, <1>2, <1>3, <1>4, <1>5, <1>7, <1>16

LEMMA AcceptHomes ==
  ASSUME Types, Homes, NEW c \in Conn, Accept(c)
  PROVE  /\ \A v \in Worker : Own(v)' = Own(v) /\ c \notin Own(v)
         /\ \A v \in Worker : pc'[v] = pc[v] /\ leaving'[v] = leaving[v]
         /\ c # scan.conn /\ c \notin dropped \cup cleared
         /\ Homes'
<1>1. /\ c # scan.conn /\ c \notin dropped \cup cleared
      /\ \A v \in Worker : c \notin Own(v)
  BY DEF Accept, Arrived, Home, Own
<1>2. UNCHANGED <<fresh, clients, leaving, cleared>> /\ \A v \in Worker : pc'[v] = pc[v]
  BY GotoTypes, Threads DEF Accept, Label
<1>3. \A v \in Worker : Own(v)' = Own(v) /\ Home(v)' = Home(v)
  BY <1>2 DEF Home, Own
<1>4. \/ scan'.conn = c /\ dropped' = dropped
      \/ scan' = scan /\ dropped' = dropped \cup {c}
  BY DEF Accept
<1>5. \A v \in Worker : Gone(v)' = Gone(v) /\ FreshAt(v)' /\ LeaveAt(v)'
  BY <1>2, <1>3 DEF Homes, Gone, FreshAt, LeaveAt
<1>6. \A v \in Worker : Own(v)' \cap cleared' = {} /\ Own(v)' \cap dropped' = Gone(v)'
  BY <1>1, <1>2, <1>3, <1>4, <1>5 DEF Homes
<1>7. \A v \in Worker : scan'.conn \notin Own(v)'
  BY <1>1, <1>3, <1>4 DEF Homes
<1>8. scan'.conn \notin dropped' \cup cleared' /\ dropped' \cap cleared' = {}
  BY <1>1, <1>2, <1>4 DEF Homes
<1>9. \A u, v \in Worker : u # v => Own(u)' \cap Own(v)' = {}
  BY <1>3 DEF Homes
<1>10. Homes'
  BY <1>5, <1>6, <1>7, <1>8, <1>9 DEF Homes
<1>. QED  BY <1>1, <1>2, <1>3, <1>10

(* Steps that leave the connections where they are. *)
Stays(w) == w \notin Leaves \cup {"clear"}

LEMMA SameHomes ==
  ASSUME Homes, UNCHANGED <<fresh, clients, leaving, dropped, cleared>>,
         scan'.conn = scan.conn,
         \A w \in Worker : pc'[w] = pc[w] \/ (Stays(pc[w]) /\ Stays(pc'[w]))
  PROVE  /\ Homes' /\ \A w \in Worker : Own(w)' = Own(w)
         /\ \A w \in Worker : Counts(w)' = Counts(w)
<1>1. \A w \in Worker : Own(w)' = Own(w) /\ Home(w)' = Home(w)
  BY DEF Home, Own
<1>2. ASSUME NEW w \in Worker
      PROVE  Gone(w)' = Gone(w) /\ FreshAt(w)' /\ LeaveAt(w)'
  <2>1. FreshAt(w) /\ LeaveAt(w)
    BY DEF Homes
  <2>2. CASE pc'[w] = pc[w]
    BY <1>1, <2>1, <2>2 DEF Gone, FreshAt, LeaveAt
  <2>3. CASE Stays(pc[w]) /\ Stays(pc'[w])
    BY <1>1, <2>1, <2>3 DEF Gone, FreshAt, LeaveAt, Stays, Leaves
  <2>. QED  BY <2>2, <2>3
<1>3. \A u, v \in Worker : u # v => Own(u)' \cap Own(v)' = {}
  BY <1>1 DEF Homes
<1>4. \A w \in Worker : Own(w)' \cap cleared' = {} /\ Own(w)' \cap dropped' = Gone(w)'
  BY <1>1, <1>2 DEF Homes
<1>5. Homes'
  BY <1>1, <1>2, <1>3, <1>4 DEF Homes
<1>6. ASSUME NEW w \in Worker
      PROVE  Counts(w)' = Counts(w)
  <2>1. pc'[w] = "removed" <=> pc[w] = "removed"
    BY DEF Stays, Leaves
  <2>. QED  BY <1>1, <2>1 DEF Counts
<1>. QED  BY <1>1, <1>5, <1>6

LEMMA OtherSteps ==
  ASSUME Types, [Next]_vars
  PROVE  \/ /\ UNCHANGED <<fresh, clients, leaving, dropped, cleared, accepts>>
            /\ scan'.conn = scan.conn
            /\ \A w \in Worker : pc'[w] = pc[w] \/ (Stays(pc[w]) /\ Stays(pc'[w]))
         \/ \E c \in Conn : Accept(c)
         \/ AddClient
         \/ \E w \in Worker : ClearClients(w) \/ Join(w) \/ Joined(w) \/ ClientLeave(w)
<1>1. ASSUME NEW t \in Thread, ThreadStep(t) \/ MoveStep(t)
      PROVE  /\ UNCHANGED <<fresh, clients, leaving, dropped, cleared, accepts, scan>>
             /\ \A w \in Worker : pc'[w] = pc[w] \/ (Stays(pc[w]) /\ Stays(pc'[w]))
  <2>1. CASE ThreadStep(t)
    <3>1. PICK p \in Label : Goto(t, p) /\ Stays(p) /\ Stays(pc[t])
      BY <2>1 DEF ThreadStep, Fail, Exit, Wakeup, Store, Label, Stays, Leaves
    <3>2. UNCHANGED conns
      BY <2>1 DEF ThreadStep, Fail, Exit, Wakeup, Store
    <3>. QED  BY <3>1, <3>2, GotoTypes, Threads DEF conns
  <2>2. CASE MoveStep(t)
    <3>1. PICK p \in Label : Goto(t, p) /\ Stays(p) /\ Stays(pc[t])
      BY <2>2 DEF MoveStep, Check, NothingToAccept, Passes, Polled, Send, Sent,
                  NothingToSend, Served, Label, Stays, Leaves
    <3>2. UNCHANGED conns
      BY <2>2 DEF MoveStep, Check, NothingToAccept, Passes, Polled, Send, Sent,
                  NothingToSend, Served
    <3>. QED  BY <3>1, <3>2, GotoTypes, Threads DEF conns
  <2>. QED  BY <1>1, <2>1, <2>2
<1>2. CASE Choose
  BY <1>2, ChooseTypes DEF Choose, threads
<1>3. ASSUME NEW w \in Worker, Write(w) \/ \E v \in Worker, c \in Conn : Find(w, v, c)
      PROVE  /\ UNCHANGED <<fresh, clients, leaving, dropped, cleared, accepts, scan>>
             /\ \A v \in Worker : pc'[v] = pc[v] \/ (Stays(pc[v]) /\ Stays(pc'[v]))
  <2>1. PICK p \in Label : Goto(w, p) /\ Stays(p) /\ Stays(pc[w])
    BY <1>3 DEF Write, Find, Label, Stays, Leaves
  <2>. QED  BY <1>3, <2>1, GotoTypes, Threads DEF Write, Find
<1>4. CASE BeginClose \/ Close \/ Woken \/ UNCHANGED vars
  BY <1>4 DEF BeginClose, Close, Woken, vars, threads, conns
<1>. QED
  BY <1>1, <1>2, <1>3, <1>4, Steps DEF AcceptorStep, HomeStep

LEMMA HomesStep ==
  ASSUME Types, Seek, Homes, [Next]_vars
  PROVE  Homes'
<1>1. ASSUME NEW w \in Worker, ClientLeave(w)
      PROVE  Homes'
  BY <1>1, ExpireHomes, RemoveHomes, LeaveHomes, EraseHomes, DeleteHomes
     DEF ClientLeave
<1>. QED
  BY <1>1, OtherSteps, SameHomes, AcceptHomes, AddHomes, ClearHomes, JoinHomes

LEMMA AtStage ==
  \A ps, c : c \in At(ps) <=> \E w \in Worker : c = leaving[w] /\ pc[w] \in ps
BY DEF At

(* A connection is with one worker and deleted once; for any number of     *)
(* workers and connections.                                                *)
THEOREM ConnectionsHaveOneHome == Spec => []OneHome
<1>1. Types /\ Seek /\ Homes /\ [Next]_vars => (Types /\ Seek /\ Homes)'
  BY NextTypes, SeekStep, HomesStep
<1>2. Init => Seek
  BY InitSeek
<1>3. Types /\ Seek /\ Homes => OneHome
  <2>. SUFFICES ASSUME Types, Seek, Homes PROVE OneHome
    OBVIOUS
  <2>1. \A c : c \in There => c = scan.conn \/ \E w \in Worker : c \in Home(w)
    <3>1. SUFFICES ASSUME NEW c, c \in There
                   PROVE  c = scan.conn \/ \E w \in Worker : c \in Home(w)
      OBVIOUS
    <3>2. c \in UNION {fresh[w] \cup clients[w] : w \in Worker} \/ c = scan.conn
      BY <3>1, Zenon DEF There
    <3>. QED  BY <3>2, Zenon DEF Home
  <2>2. There \cap (dropped \cup cleared) \subseteq At({"erase"})
    <3>1. SUFFICES ASSUME NEW c, c \in There, c \in dropped \cup cleared
                   PROVE  c \in At({"erase"})
      OBVIOUS
    <3>2. PICK w \in Worker : c \in Home(w)
      BY <2>1, <3>1 DEF Homes
    <3>3. c \in Gone(w)
      BY <3>1, <3>2 DEF Homes, Own
    <3>. QED  BY <3>3, AtStage DEF Gone
  <2>3. At({"erase"}) \subseteq There \cap (dropped \cup cleared)
    <3>1. SUFFICES ASSUME NEW c, c \in At({"erase"})
                   PROVE  c \in There \cap (dropped \cup cleared)
      OBVIOUS
    <3>2. PICK w \in Worker : c = leaving[w] /\ pc[w] = "erase"
      BY <3>1, AtStage
    <3>3. c \in clients[w] /\ c \in Gone(w)
      BY <3>2, OwnFacts DEF LeaveAt, Gone
    <3>4. c \in dropped /\ c \in There
      BY <3>3 DEF Homes, There
    <3>. QED  BY <3>4
  <2>4. At({"removed", "delete"}) \cap (There \cup dropped \cup cleared) = {}
    <3>1. SUFFICES ASSUME NEW c, c \in At({"removed", "delete"})
                   PROVE  c \notin There /\ c \notin dropped /\ c \notin cleared
      OBVIOUS
    <3>2. PICK w \in Worker : c = leaving[w] /\ pc[w] \in {"removed", "delete"}
      BY <3>1, AtStage
    <3>3. c \in Own(w) /\ c \notin Home(w) /\ Gone(w) = {}
      BY <3>2, OwnFacts DEF LeaveAt, Leaves, Gone
    <3>4. c \notin dropped /\ c \notin cleared /\ c # scan.conn
      BY <3>3 DEF Homes
    <3>5. \A v \in Worker : c \notin Home(v)
      BY <3>3 DEF Homes, Own
    <3>. QED  BY <2>1, <3>4, <3>5
  <2>5. \A v, w \in Worker :
          v # w => (fresh[v] \cup clients[v]) \cap (fresh[w] \cup clients[w]) = {}
    BY DEF Homes, Own, Home
  <2>6. dropped \cap cleared = {}
    BY DEF Homes
  <2>. QED  BY <2>2, <2>3, <2>4, <2>5, <2>6 DEF OneHome
<1>. QED
  BY InitTypes, InitHomes, <1>1, <1>2, <1>3, PTL DEF Spec
-----------------------------------------------------------------------------
(* A handler that holds a connection is about to write.                    *)
HeldAt(w) ==
  held[w] # None =>
    pc[w] = "write" /\ \A c \in Conn : held[w] = <<w, c>> => c \in clients[w]
Held == \A w \in Worker : HeldAt(w)

(* What another thread does leaves a handler what it holds. *)
LEMMA HeldLocal ==
  ASSUME Held, NEW t \in Thread, UNCHANGED held,
         \A w \in Worker : w # t => pc'[w] = pc[w] /\ clients'[w] = clients[w],
         t \in Worker => HeldAt(t)'
  PROVE  Held'
<1>1. \A w \in Worker : w # t => HeldAt(w)'
  BY DEF Held, HeldAt
<1>. QED  BY <1>1 DEF Held

LEMMA HomeHeld ==
  ASSUME Types, Held, NEW w \in Worker, HomeStep(w)
  PROVE  Held'
<1>1. HeldAt(w)
  BY DEF Held
<1>2. ASSUME NEW p \in Label, Goto(w, p), pc[w] # "write", UNCHANGED held,
             \A v \in Worker : v # w => clients'[v] = clients[v]
      PROVE  Held'
  <2>1. held[w] = None
    BY <1>1, <1>2 DEF HeldAt
  <2>2. HeldAt(w)'
    BY <1>2, <2>1 DEF HeldAt
  <2>. QED  BY <1>2, <2>2, GotoTypes, HeldLocal, Threads
<1>3. CASE ClearClients(w)
  <2>1. Goto(w, "wakeup") /\ "wakeup" \in Label /\ pc[w] # "write" /\ UNCHANGED held
        /\ \A v \in Worker : v # w => clients'[v] = clients[v]
    BY <1>3 DEF ClearClients, Types, Label
  <2>. QED  BY <1>2, <2>1
<1>4. CASE Join(w) \/ Joined(w)
  <2>1. PICK p \in Label : Goto(w, p)
    BY <1>4 DEF Join, Joined, Label
  <2>2. pc[w] # "write" /\ UNCHANGED held
        /\ \A v \in Worker : v # w => clients'[v] = clients[v]
    BY <1>4 DEF Join, Joined, Types
  <2>. QED  BY <1>2, <2>1, <2>2
<1>5. CASE ClientLeave(w)
  <2>1. PICK p \in Label : Goto(w, p)
    BY <1>5, MovesOf, Threads DEF Moves
  <2>2. pc[w] # "write" /\ UNCHANGED held
        /\ \A v \in Worker : v # w => clients'[v] = clients[v]
    BY <1>5 DEF ClientLeave, Expire, Remove, Leave, Delete, Erase, Types
  <2>. QED  BY <1>2, <2>1, <2>2
<1>6. CASE Write(w)
  <2>1. held'[w] = None /\ \A v \in Worker : v # w => held'[v] = held[v]
    BY <1>6 DEF Write, Types
  <2>2. UNCHANGED clients /\ \A v \in Worker : v # w => pc'[v] = pc[v]
    BY <1>6, GotoTypes, Threads DEF Write, Label
  <2>3. \A v \in Worker : HeldAt(v)'
    BY <2>1, <2>2 DEF Held, HeldAt
  <2>. QED  BY <2>3 DEF Held
<1>7. ASSUME NEW v \in Worker, NEW c \in Conn, Find(w, v, c)
      PROVE  Held'
  <2>1. held'[w] = <<v, c>> /\ \A u \in Worker : u # w => held'[u] = held[u]
    BY <1>7 DEF Find, Types
  <2>2. /\ UNCHANGED clients /\ pc'[w] = "write" /\ c \in clients[v]
        /\ \A u \in Worker : u # w => pc'[u] = pc[u]
    BY <1>7, GotoTypes, Threads DEF Find, Label
  <2>3. HeldAt(w)'
    BY <2>1, <2>2 DEF HeldAt
  <2>4. \A u \in Worker : u # w => HeldAt(u)'
    BY <2>1, <2>2 DEF Held, HeldAt
  <2>. QED  BY <2>3, <2>4 DEF Held
<1>. QED  BY <1>3, <1>4, <1>5, <1>6, <1>7 DEF HomeStep

LEMMA HeldStep ==
  ASSUME Types, Held, [Next]_vars
  PROVE  Held'
<1>1. ASSUME NEW t \in Thread, ThreadStep(t) \/ MoveStep(t)
      PROVE  Held'
  <2>1. PICK p \in Label : Goto(t, p) /\ pc[t] # "write" /\ UNCHANGED <<held, clients>>
    <3>1. CASE ThreadStep(t)
      BY <3>1, Threads DEF ThreadStep, Fail, Exit, Wakeup, Store, Label, conns
    <3>2. CASE MoveStep(t)
      BY <3>2, Threads DEF MoveStep, Check, NothingToAccept, Passes, Polled, Send, Sent,
                           NothingToSend, Served, Label, conns
    <3>. QED  BY <1>1, <3>1, <3>2
  <2>2. t \in Worker => HeldAt(t)'
    BY <2>1 DEF Held, HeldAt
  <2>. QED  BY <2>1, <2>2, GotoTypes, HeldLocal, Threads
<1>2. CASE AcceptorStep
  <2>1. UNCHANGED <<held, clients>> /\ (pc' = pc \/ \E p \in Label : Goto(0, p))
    BY <1>2 DEF AcceptorStep, Choose, AddClient, Accept, threads, Label
  <2>2. \A w \in Worker : pc'[w] = pc[w]
    BY <2>1, GotoTypes, Threads
  <2>. QED  BY <2>1, <2>2 DEF Held, HeldAt
<1>3. CASE BeginClose \/ Close \/ Woken \/ UNCHANGED vars
  BY <1>3 DEF BeginClose, Close, Woken, vars, threads, conns, Held, HeldAt
<1>. QED  BY <1>1, <1>2, <1>3, HomeHeld, Steps

(* What a handler holds of its own worker's connections is not deleted     *)
(* before it has written; for any number of workers and connections.       *)
THEOREM OwnConnectionsStay == Spec => []OwnAlive
<1>1. /\ Types /\ Seek /\ Homes /\ Held /\ [Next]_vars
      => (Types /\ Seek /\ Homes /\ Held)'
  BY NextTypes, SeekStep, HomesStep, HeldStep
<1>2. Init => Seek /\ Held
  BY InitSeek DEF Init, Held, HeldAt
<1>3. Homes /\ Held => OwnAlive
  <2>. SUFFICES ASSUME Homes, Held, NEW w \in Worker, NEW c \in Conn, held[w] = <<w, c>>
                PROVE  c \in clients[w] /\ c \notin dropped
    BY DEF OwnAlive
  <2>1. pc[w] = "write" /\ c \in clients[w]
    BY Conns DEF Held, HeldAt
  <2>2. c \in Own(w) /\ Gone(w) = {}
    BY <2>1 DEF Own, Home, Gone
  <2>. QED  BY <2>1, <2>2 DEF Homes
<1>. QED
  BY InitTypes, InitHomes, <1>1, <1>2, <1>3, PTL DEF Spec

-----------------------------------------------------------------------------
(* The end: an acceptor that failed or was closed accepts nothing more,    *)
(* and a worker that Close() ended has no connections.                     *)
Over == {"exit", "wakeup", "store", "ended"}
Down == {"destroy", "wakeup", "store", "ended"}

EndAt(w) ==
  w \notin failed =>
    /\ pc[w] \in Down => ~Open(w)
    /\ pc[w] \in Down \ {"destroy"} => Home(w) = {}

Ends ==
  /\ main = "closed" => closing = NWorker
  /\ closing > 0 \/ 0 \in failed => pc[0] \in Over
  /\ \A w \in Worker : EndAt(w)

LEMMA Passed ==
  ASSUME Types, Sem, Close \/ Woken, Proceed
  PROVE  pc[closing] \in SE \/ closing \in failed
<1>1. PICK c \in Thread : c = closing
  BY DEF Types
<1>2. SemAt(c) /\ wait[c] \in Int /\ wakeup[c] \in Int
  BY DEF Sem, Types
<1>3. main' # "waits" /\ main \in {"closes", "waits"}
  BY ProceedTypes DEF Close, Woken
<1>4. CASE Close
  <2>1. Open(c)
    BY <1>1, <1>4 DEF Close, Open
  <2>2. CASE isRun[c]
    <3>1. ~(wait[c] - 1 < 0)
      BY <1>1, <1>3, <1>4, <2>2 DEF Close
    <3>. QED  BY <1>1, <1>2, <2>1, <3>1 DEF SemAt
  <2>. QED  BY <1>1, <1>2, <2>1, <2>2 DEF SemAt, SE
<1>5. CASE Woken
  BY <1>1, <1>2, <1>5 DEF Woken, SemAt
<1>. QED  BY <1>4, <1>5

LEMMA OwnerEnds ==
  ASSUME Types, Sem, Ends, BeginClose \/ Close \/ Woken
  PROVE  Ends'
<1>1. PICK c \in Thread : c = closing
  BY DEF Types
<1>2. UNCHANGED <<pc, failed, fresh, clients>>
  BY DEF BeginClose, Close, Woken, threads, conns
<1>3. c \in Int /\ NWorker \in Int /\ \A w \in Worker : w \in Int
  BY Threads DEF Thread
<1>4. CASE closing' = c /\ main' \in {"closes", "waits"} /\ (main' = "closes" => main = "serves")
  <2>1. \A w \in Worker : Open(w)' => Open(w)
    BY <1>1, <1>4 DEF Open
  <2>2. \A w \in Worker : EndAt(w)'
    BY <1>2, <2>1 DEF Ends, EndAt, Home
  <2>. QED  BY <1>1, <1>2, <1>4, <2>2 DEF Ends
<1>5. CASE (Close \/ Woken) /\ Proceed
  <2>1. \/ c = NWorker /\ main' = "closed" /\ closing' = c
        \/ c # NWorker /\ main' = "closes" /\ closing' = c + 1
    BY <1>1, <1>5, ProceedTypes
  <2>2. \A w \in Worker : Open(w)' => Open(w)
    BY <1>1, <1>3, <1>5, <2>1 DEF Open
  <2>3. \A w \in Worker : EndAt(w)'
    BY <1>2, <2>2 DEF Ends, EndAt, Home
  <2>4. closing > 0 \/ c = 0
    BY <1>1 DEF Thread
  <2>5. c = 0 => pc[0] \in Over
    BY <1>1, <1>5, Passed DEF SE, Over, Ends
  <2>6. pc[0] \in Over
    BY <2>4, <2>5 DEF Ends
  <2>7. main' = "closed" => closing' = NWorker
    BY <2>1
  <2>. QED  BY <1>2, <2>3, <2>6, <2>7 DEF Ends
<1>6. BeginClose => closing' = c /\ main' = "closes" /\ main = "serves"
  BY <1>1 DEF BeginClose, Sem
<1>7. Close => Proceed \/ (closing' = c /\ main' = "waits")
  BY <1>1 DEF Close
<1>8. Woken => Proceed
  BY DEF Woken
<1>. QED  BY <1>4, <1>5, <1>6, <1>7, <1>8

LEMMA ThreadEnds ==
  ASSUME Types, Sem, Ends, NEW t \in Thread, ThreadStep(t) \/ MoveStep(t)
  PROVE  Ends'
<1>1. PICK p \in Label : Goto(t, p) /\ UNCHANGED <<owner, conns>> /\ failed \subseteq failed'
  BY DEF ThreadStep, MoveStep, Fail, Exit, Wakeup, Store, Check,
         NothingToAccept, Passes, Polled, Send, Sent, NothingToSend, Served, Label
<1>2. pc'[t] = p /\ \A u \in Thread : u # t => pc'[u] = pc[u]
  BY <1>1, GotoTypes
<1>3. \A u \in Thread : u # t => (u \in failed' <=> u \in failed)
  BY DEF ThreadStep, MoveStep, Fail, Exit, Wakeup, Store, Check,
         NothingToAccept, Passes, Polled, Send, Sent, NothingToSend, Served
<1>4. \A w \in Worker : (Open(w)' <=> Open(w)) /\ Home(w)' = Home(w)
  BY <1>1 DEF Open, Home, owner, conns
<1>5. \A w \in Worker : w # t => EndAt(w)'
  BY <1>2, <1>3, <1>4, Threads DEF Ends, EndAt
<1>6. ASSUME t \in Worker
      PROVE  EndAt(t)'
  <2>1. SUFFICES ASSUME t \notin failed'
                 PROVE  /\ p \in Down => ~Open(t)
                        /\ p \in Down \ {"destroy"} => Home(t) = {}
    BY <1>2, <1>4, <1>6 DEF EndAt
  <2>2. ~Fail(t) /\ ~Exit(t) /\ t \notin failed
    BY <1>1, <2>1 DEF Fail, Exit, Sem, SemAt
  <2>3. p \in Down \ {"destroy"} => pc[t] \in Down \ {"destroy"}
    BY <1>1, <1>2, <1>6, <2>2, Threads
       DEF ThreadStep, MoveStep, Wakeup, Store, Check, NothingToAccept, Passes, Polled,
           Send, Sent, NothingToSend, Served,
           Down, Goto, Types
  <2>4. p = "destroy" => ~isRun[t] /\ pc[t] = "check"
    BY <1>1, <1>2, <1>6, <2>2, Threads
       DEF ThreadStep, MoveStep, Wakeup, Store, Check, NothingToAccept, Passes, Polled,
           Send, Sent, NothingToSend, Served,
           Goto, Types
  <2>5. ~isRun[t] /\ pc[t] = "check" => ~Open(t)
    BY <2>2 DEF Sem, SemAt
  <2>6. EndAt(t)
    BY <1>6 DEF Ends
  <2>. QED  BY <2>2, <2>3, <2>4, <2>5, <2>6 DEF EndAt, Down
<1>7. t = 0 => (closing > 0 \/ 0 \in failed' => pc'[0] \in Over)
  <2>1. SUFFICES ASSUME t = 0, closing > 0 \/ 0 \in failed'
                 PROVE  p \in Over
    BY <1>2
  <2>2. Fail(0) => p \in Over
    BY <1>1, <1>2, <2>1, Threads DEF Fail, Goto, Types, Over
  <2>3. ~Fail(0) => pc[0] \in Over
    <3>1. ~Fail(0) => failed' = failed
      BY <2>1, Threads DEF ThreadStep, MoveStep, Exit, Wakeup, Store, Check,
                           NothingToAccept
    <3>. QED  BY <2>1, <3>1 DEF Ends
  <2>4. ~Fail(0) /\ pc[0] \in Over => p \in Over
    BY <1>1, <1>2, <2>1, Threads
       DEF ThreadStep, MoveStep, Exit, Wakeup, Store, Check, NothingToAccept,
           Goto, Types, Over
  <2>. QED  BY <2>2, <2>3, <2>4
<1>8. t # 0 => (closing > 0 \/ 0 \in failed' => pc'[0] \in Over)
  BY <1>2, <1>3, Threads DEF Ends
<1>9. UNCHANGED <<main, closing>>
  BY <1>1 DEF owner
<1>. QED  BY <1>5, <1>6, <1>7, <1>8, <1>9 DEF Ends

LEMMA AcceptorEnds ==
  ASSUME Types, Seek, Homes, Ends, AcceptorStep
  PROVE  Ends'
<1>1. UNCHANGED <<owner, failed, clients>> /\ pc[0] \in {"accept", "choose"}
  BY DEF AcceptorStep, Choose, AddClient, Accept, threads, owner
<1>2. pc' = pc \/ \E p \in Label : Goto(0, p)
  BY DEF AcceptorStep, Choose, AddClient, Accept, threads, Label
<1>3. \A w \in Worker : pc'[w] = pc[w]
  BY <1>2, GotoTypes, Threads
<1>4. ~(closing > 0) /\ 0 \notin failed /\ closing \in Thread
  BY <1>1 DEF Ends, Over, Types
<1>5. \A w \in Worker : Open(w)
  BY <1>4, Threads DEF Open, Ends, Thread, Worker
<1>6. \A w \in Worker : EndAt(w)'
  BY <1>1, <1>3, <1>5 DEF EndAt, Ends, Open, owner, Down
<1>. QED  BY <1>1, <1>4, <1>6 DEF Ends, owner

LEMMA HomeEnds ==
  ASSUME Types, Seek, Homes, Ends, NEW w \in Worker, HomeStep(w)
  PROVE  Ends'
<1>. USE DEF ClientLeave, Expire, Erase, Remove, Leave, Delete
<1>1. UNCHANGED <<owner, failed>>
  BY DEF HomeStep, ClearClients, Join, Joined, Write, Find
<1>2. \E p \in Label : Goto(w, p)
  BY DEF HomeStep, ClearClients, Join, Joined, Write, Find, Label
<1>3. \A u \in Thread : u # w => pc'[u] = pc[u]
  BY <1>2, GotoTypes, Threads
<1>4. \A v \in Worker : v # w => clients'[v] = clients[v] /\ fresh'[v] = fresh[v]
  BY DEF HomeStep, ClearClients, Join, Joined, Write, Find, Types
<1>5. \A v \in Worker : v # w => EndAt(v)'
  BY <1>1, <1>3, <1>4, Threads DEF Ends, EndAt, Open, Home, owner
<1>6. EndAt(w)'
  <2>1. CASE ClearClients(w)
    <3>1. pc[w] = "destroy" /\ EndAt(w) /\ Home(w)' = {}
      BY <2>1, ClearHomes DEF ClearClients, Ends
    <3>. QED  BY <1>1, <3>1 DEF EndAt, Open, Down, owner
  <2>2. CASE ~ClearClients(w)
    <3>1. pc'[w] \notin Down
      <4>1. ASSUME NEW p \in {"check", "serve", "clear", "write", "events"} \cup Leaves,
                   Goto(w, p)
            PROVE  pc'[w] \notin Down
        BY <4>1, GotoTypes, Threads DEF Label, Down, Leaves
      <4>. QED  BY <2>2, <4>1 DEF HomeStep, Join, Joined, Write, Find, Leaves
    <3>. QED  BY <3>1 DEF EndAt
  <2>. QED  BY <2>1, <2>2
<1>7. pc'[0] = pc[0]
  BY <1>3, Threads
<1>. QED  BY <1>1, <1>5, <1>6, <1>7 DEF Ends, owner

LEMMA EndsStep ==
  ASSUME Types, Seek, Sem, Homes, Ends, [Next]_vars
  PROVE  Ends'
<1>1. CASE UNCHANGED vars
  BY <1>1 DEF vars, threads, owner, conns, Ends, EndAt, Open, Home
<1>. QED  BY <1>1, OwnerEnds, ThreadEnds, AcceptorEnds, HomeEnds, Steps

(* When Close() returns nothing is left of the connections, for any number *)
(* of workers.                                                             *)
THEOREM ClosedServerHasNothingLeft == Spec => []NothingLeft
<1>1. /\ Types /\ Seek /\ Sem /\ Homes /\ Ends /\ [Next]_vars
      => (Types /\ Seek /\ Sem /\ Homes /\ Ends)'
  BY NextTypes, SeekStep, SemStep, HomesStep, EndsStep
<1>2. Init => Seek /\ Ends
  <2>1. Init => Ends
    <3>1. SUFFICES ASSUME Init PROVE Ends
      OBVIOUS
    <3>2. \A w \in Worker : EndAt(w)
      BY <3>1, Threads DEF Init, EndAt, Down
    <3>. QED  BY <3>1, <3>2 DEF Init, Ends
  <2>. QED  BY <2>1, InitSeek
<1>3. Types /\ Seek /\ Sem /\ Ends => NothingLeft
  <2>. SUFFICES ASSUME Types, Seek, Sem, Ends, main = "closed",
                       NEW w \in Worker, w \notin failed
                PROVE  scan.conn = None /\ fresh[w] \cup clients[w] = {}
    BY DEF NothingLeft
  <2>1. closing = NWorker /\ w <= NWorker /\ w > 0 /\ w \in Int /\ NWorker \in Int
    BY Threads DEF Ends, Worker
  <2>2. w \in freed
    BY <2>1 DEF Sem
  <2>3. pc[w] \in SE
    BY <2>2, Threads DEF Sem, SemAt
  <2>4. Home(w) = {}
    BY <2>3 DEF Ends, EndAt, SE, Down
  <2>5. pc[0] # "choose"
    BY <2>1 DEF Ends, Over
  <2>. QED  BY <2>4, <2>5 DEF Home, Seek
<1>. QED
  BY InitTypes, InitSem, InitHomes, <1>1, <1>2, <1>3, PTL DEF Spec
-----------------------------------------------------------------------------
(* _clientAccept.                                                          *)
Kept == {c \in Conn :
           \/ c = scan.conn
           \/ c \in cleared
           \/ \E w \in Worker : c \in Counts(w)}
Counted == accepts = Cardinality(Kept) /\ accepts <= MaxClient

LEMMA FiniteKept ==
  /\ IsFiniteSet(Kept) /\ Cardinality(Kept) \in Nat
  /\ \A S : S \subseteq Conn => IsFiniteSet(S) /\ Cardinality(S) \in Nat
<1>1. \A S : S \subseteq Conn => IsFiniteSet(S) /\ Cardinality(S) \in Nat
  BY Conns, FS_Subset, FS_CardinalityType
<1>2. Kept \subseteq Conn
  BY DEF Kept
<1>. QED  BY <1>1, <1>2

LEMMA InitCounted == Init => Seek /\ Counted
<1>. SUFFICES ASSUME Init PROVE Seek /\ Counted
  OBVIOUS
<1>1. \A w \in Worker : Counts(w) = {}
  BY DEF Init, Counts, Own, Home
<1>2. Kept = {}
  BY <1>1, Conns DEF Init, Kept, NoScan
<1>. QED  BY <1>2, InitSeek, FS_EmptySet, NumberAssumption DEF Init, Counted

(* One connection less is counted. *)
LEMMA CountedOffOne ==
  ASSUME Types, Homes, Counted, NEW w \in Worker, NEW c \in Conn, c \in Counts(w),
         Counts(w)' = Counts(w) \ {c},
         \A v \in Worker : v # w => Counts(v)' = Counts(v),
         UNCHANGED <<scan, cleared>>, accepts' = accepts - 1
  PROVE  Counted'
<1>1. c \in Own(w)
  BY DEF Counts
<1>2. c # scan.conn /\ c \notin cleared /\ \A v \in Worker : v # w => c \notin Counts(v)
  BY <1>1 DEF Homes, Counts
<1>3. c \in Kept
  BY DEF Kept
<1>4. Kept' = Kept \ {c}
  BY <1>2 DEF Kept
<1>5. Cardinality(Kept \ {c}) = Cardinality(Kept) - 1
  BY <1>3, FiniteKept, FS_RemoveElement
<1>. QED  BY <1>4, <1>5, FiniteKept, NumberAssumption DEF Counted

LEMMA SameCounted ==
  ASSUME Counted, UNCHANGED accepts, Kept' = Kept
  PROVE  Counted'
BY DEF Counted

LEMMA OthersCount ==
  ASSUME NEW w \in Worker, pc'[w] = pc[w], Own(w)' = Own(w), leaving'[w] = leaving[w]
  PROVE  Counts(w)' = Counts(w)
BY DEF Counts

LEMMA LeaveCounted ==
  ASSUME Types, Seek, Homes, Counted, NEW w \in Worker, ClientLeave(w)
  PROVE  Counted'
<1>1. UNCHANGED <<scan, cleared>>
  BY DEF ClientLeave, Expire, Remove, Leave, Delete, Erase
<1>2. \A v \in Worker : v # w => pc'[v] = pc[v] /\ leaving'[v] = leaving[v]
  BY LeaveFrames DEF ClientLeave, LeaveFrame, Delete
<1>3. ASSUME \A v \in Worker : v # w => Own(v)' = Own(v)
      PROVE  \A v \in Worker : v # w => Counts(v)' = Counts(v)
  BY <1>2, <1>3, OthersCount
<1>4. ASSUME NEW c \in Conn, Expire(w, c)
      PROVE  Counted'
  <2>1. accepts' = accepts - 1
    BY <1>4 DEF Expire
  <2>. QED  BY <1>1, <1>3, <1>4, <2>1, ExpireHomes, CountedOffOne
<1>5. CASE Leave(w)
  <2>1. PICK c \in Conn : c \in Counts(w) /\ Counts(w)' = Counts(w) \ {c}
    BY <1>5, LeaveHomes
  <2>2. accepts' = accepts - 1
    BY <1>5 DEF Leave
  <2>3. \A v \in Worker : v # w => Own(v)' = Own(v)
    BY <1>5, LeaveHomes
  <2>. QED  BY <1>1, <1>3, <2>1, <2>2, <2>3, CountedOffOne
<1>6. ASSUME \A v \in Worker : v # w => Own(v)' = Own(v), Counts(w)' = Counts(w),
             UNCHANGED accepts
      PROVE  Counted'
  <2>1. \A v \in Worker : Counts(v)' = Counts(v)
    BY <1>3, <1>6
  <2>2. Kept' = Kept
    BY <1>1, <2>1 DEF Kept
  <2>. QED  BY <1>6, <2>2, SameCounted
<1>7. ASSUME NEW c \in Conn, Remove(w, c)
      PROVE  Counted'
  <2>1. UNCHANGED accepts
    BY <1>7 DEF Remove
  <2>. QED  BY <1>6, <1>7, <2>1, RemoveHomes
<1>8. CASE Delete(w) \/ Erase(w)
  <2>1. UNCHANGED accepts
    BY <1>8 DEF Delete, Erase
  <2>. QED  BY <1>6, <1>8, <2>1, DeleteHomes, EraseHomes
<1>. QED  BY <1>4, <1>5, <1>7, <1>8 DEF ClientLeave

LEMMA CountedStep ==
  ASSUME Types, Seek, Homes, Counted, [Next]_vars
  PROVE  Counted'
<1>1. /\ IsFiniteSet(Kept) /\ Cardinality(Kept) \in Nat /\ MaxClient \in Nat
      /\ accepts = Cardinality(Kept) /\ accepts <= MaxClient
  BY FiniteKept, NumberAssumption DEF Counted
<1>2. ASSUME UNCHANGED <<fresh, clients, leaving, dropped, cleared, accepts>>,
             scan'.conn = scan.conn,
             \A w \in Worker : pc'[w] = pc[w] \/ (Stays(pc[w]) /\ Stays(pc'[w]))
      PROVE  Counted'
  <2>1. \A w \in Worker : Counts(w)' = Counts(w)
    BY <1>2, SameHomes
  <2>2. Kept' = Kept
    BY <1>2, <2>1 DEF Kept
  <2>. QED  BY <1>2, <2>2, SameCounted
<1>3. ASSUME NEW c \in Conn, Accept(c)
      PROVE  Counted'
  <2>1. /\ \A v \in Worker : Own(v)' = Own(v) /\ c \notin Own(v)
        /\ \A v \in Worker : pc'[v] = pc[v] /\ leaving'[v] = leaving[v]
        /\ c # scan.conn /\ c \notin cleared /\ cleared' = cleared
    BY <1>3, AcceptHomes DEF Accept
  <2>2. \A v \in Worker : Counts(v)' = Counts(v) /\ c \notin Counts(v)
    BY <2>1, OthersCount DEF Counts
  <2>3. CASE HasPlace
    <3>1. accepts' = accepts + 1 /\ scan'.conn = c /\ accepts < MaxClient
      BY <1>3, <2>3 DEF Accept, HasPlace
    <3>2. scan.conn = None
      BY <1>3 DEF Accept, Seek
    <3>3. c \notin Kept
      BY <2>1, <2>2 DEF Kept
    <3>4. Kept' = Kept \cup {c}
      BY <2>1, <2>2, <3>1, <3>2, Conns DEF Kept
    <3>5. Cardinality(Kept \cup {c}) = Cardinality(Kept) + 1
      BY <1>1, <3>3, FS_AddElement
    <3>. QED  BY <1>1, <3>1, <3>4, <3>5 DEF Counted
  <2>4. CASE ~HasPlace
    <3>1. UNCHANGED <<accepts, scan>>
      BY <1>3, <2>4 DEF Accept
    <3>2. Kept' = Kept
      BY <2>1, <2>2, <3>1 DEF Kept
    <3>. QED  BY <3>1, <3>2, SameCounted
  <2>. QED  BY <2>3, <2>4
<1>4. CASE AddClient
  <2>1. PICK d \in Conn \cup {None} : d = scan.conn
    BY DEF Types
  <2>2. PICK w \in Worker : /\ Own(w)' = Own(w) \cup {d}
                            /\ \A v \in Worker : v # w => Own(v)' = Own(v)
    BY <1>4, <2>1, AddHomes
  <2>3. /\ d # None /\ scan'.conn = None
        /\ \A v \in Worker : pc'[v] = pc[v] /\ leaving'[v] = leaving[v] /\ leaving[v] # d
    BY <1>4, <2>1, AddHomes
  <2>4. UNCHANGED <<accepts, cleared>>
    BY <1>4 DEF AddClient
  <2>5. \A v \in Worker : v # w => Counts(v)' = Counts(v)
    BY <2>2, <2>3, OthersCount
  <2>6. Counts(w)' = Counts(w) \cup {d}
    BY <2>2, <2>3 DEF Counts
  <2>7. Kept' = Kept
    BY <2>1, <2>3, <2>4, <2>5, <2>6, Conns DEF Kept
  <2>. QED  BY <2>4, <2>7, SameCounted
<1>5. ASSUME NEW w \in Worker, ClearClients(w)
      PROVE  Counted'
  <2>1. /\ Own(w)' = {} /\ cleared' = cleared \cup Own(w) /\ leaving[w] = None
        /\ \A v \in Worker : v # w => Own(v)' = Own(v)
    BY <1>5, ClearHomes
  <2>2. UNCHANGED <<accepts, scan, leaving>> /\ \A v \in Worker : v # w => pc'[v] = pc[v]
    BY <1>5, GotoTypes, Threads DEF ClearClients, Label
  <2>3. \A v \in Worker : v # w => Counts(v)' = Counts(v)
    BY <2>1, <2>2, OthersCount
  <2>4. Counts(w)' = {} /\ Counts(w) = Own(w)
    BY <2>1, OwnFacts DEF Counts
  <2>5. Kept' = Kept
    BY <2>1, <2>2, <2>3, <2>4 DEF Kept
  <2>. QED  BY <2>2, <2>5, SameCounted
<1>6. ASSUME NEW w \in Worker, Join(w) \/ Joined(w)
      PROVE  Counted'
  <2>1. /\ \A v \in Worker : Own(v)' = Own(v)
        /\ leaving[w] = None /\ leaving'[w] = None
    BY <1>6, JoinHomes
  <2>2. UNCHANGED <<accepts, scan, cleared, leaving>>
    BY <1>6 DEF Join, Joined
  <2>3. PICK p \in Label : Goto(w, p)
    BY <1>6 DEF Join, Joined, Label
  <2>4. \A v \in Worker : v # w => pc'[v] = pc[v]
    BY <2>3, GotoTypes, Threads
  <2>5. \A v \in Worker : v # w => Counts(v)' = Counts(v)
    BY <2>1, <2>2, <2>4, OthersCount
  <2>6. Counts(w) = Own(w) /\ Counts(w)' = Own(w)
    BY <2>1, OwnFacts DEF Counts
  <2>7. \A v \in Worker : Counts(v)' = Counts(v)
    BY <2>5, <2>6
  <2>8. Kept' = Kept
    BY <2>2, <2>7 DEF Kept
  <2>. QED  BY <2>2, <2>8, SameCounted
<1>. QED  BY <1>2, <1>3, <1>4, <1>5, <1>6, LeaveCounted, OtherSteps

(* The connections that are not deleted, and those counted off. *)
LEMMA AliveSets ==
  ASSUME Types, Seek, Homes
  PROVE  /\ Alive \subseteq Conn /\ CountedOff \subseteq Alive
         /\ cleared \cap Alive = {} /\ Kept = (Alive \ CountedOff) \cup cleared
<1>1. \A c : c \in There <=> (c = scan.conn /\ c # None) \/ \E w \in Worker : c \in Home(w)
  BY DEF There, Home
<1>2. \A w \in Worker : leaving[w] # None <=> pc[w] \in Leaves
  BY DEF Seek
<1>3. \A w \in Worker : LeaveAt(w) /\ None \notin Own(w)
  BY NoneIsNowhere DEF Homes
<1>4. \A c : c \in Alive <=>
         /\ \/ c = scan.conn /\ c # None
            \/ \E w \in Worker : c \in Home(w)
            \/ \E w \in Worker : c = leaving[w] /\ pc[w] \in {"removed", "delete"}
         /\ ~ \E w \in Worker : c = leaving[w] /\ pc[w] = "erase"
  BY <1>1, AtStage DEF Alive
<1>5. ASSUME NEW w \in Worker, NEW c
      PROVE  c \in Own(w) <=> c \in Home(w) \/ (c = leaving[w] /\ pc[w] \in {"removed", "delete"})
  BY <1>2, <1>3 DEF Own, Home, LeaveAt, Leaves
<1>6. \A u, v \in Worker : u # v => Own(u) \cap Own(v) = {}
  BY DEF Homes
<1>7. \A w \in Worker : scan.conn \notin Own(w) /\ Own(w) \cap cleared = {}
  BY DEF Homes
<1>8. \A w \in Worker : pc[w] \in Leaves => leaving[w] \in Own(w)
  BY <1>2 DEF Own
<1>9. \A c : c \in Alive <=>
         \/ c = scan.conn /\ c # None
         \/ \E w \in Worker : c \in Own(w) /\ ~(c = leaving[w] /\ pc[w] = "erase")
  <2>1. SUFFICES ASSUME NEW c
                 PROVE  c \in Alive <=>
                          \/ c = scan.conn /\ c # None
                          \/ \E w \in Worker :
                               c \in Own(w) /\ ~(c = leaving[w] /\ pc[w] = "erase")
    OBVIOUS
  <2>2. CASE c = scan.conn
    <3>1. ~ \E w \in Worker : c = leaving[w] /\ pc[w] = "erase"
      BY <1>7, <1>8, <2>2 DEF Leaves
    <3>. QED  BY <1>4, <1>5, <1>7, <2>2, <3>1
  <2>3. CASE c # scan.conn
    <3>1. ASSUME NEW w \in Worker, c \in Own(w)
          PROVE  (\E v \in Worker : c = leaving[v] /\ pc[v] = "erase")
                   <=> (c = leaving[w] /\ pc[w] = "erase")
      BY <1>6, <1>8, <3>1 DEF Leaves
    <3>2. c \in Alive <=> /\ \E w \in Worker : c \in Own(w)
                          /\ ~ \E w \in Worker : c = leaving[w] /\ pc[w] = "erase"
      BY <1>4, <1>5, <2>3
    <3>. QED  BY <2>3, <3>1, <3>2
  <2>. QED  BY <2>2, <2>3
<1>10. \A c : c \in CountedOff <=>
         \E w \in Worker : c = leaving[w] /\ pc[w] \in {"expired", "delete"}
  BY AtStage DEF CountedOff
<1>11. Alive \subseteq Conn
  BY <1>9 DEF Types, Own, Home
<1>12. CountedOff \subseteq Alive
  BY <1>8, <1>9, <1>10 DEF Leaves
<1>13. cleared \cap Alive = {}
  BY <1>7, <1>9 DEF Homes
<1>14. ASSUME NEW c \in Conn
       PROVE  c \in Kept <=> c \in cleared \/ (c \in Alive /\ c \notin CountedOff)
  <2>1. c # None
    BY Conns
  <2>2. CASE c = scan.conn
    <3>1. c \notin CountedOff
      BY <1>7, <1>8, <1>10, <2>2 DEF Leaves
    <3>. QED  BY <1>9, <2>1, <2>2, <3>1 DEF Kept
  <2>3. CASE c # scan.conn
    <3>1. ASSUME NEW w \in Worker, c \in Own(w)
          PROVE  /\ c \in Alive <=> ~(c = leaving[w] /\ pc[w] = "erase")
                 /\ c \in CountedOff <=> c = leaving[w] /\ pc[w] \in {"expired", "delete"}
      <4>1. \A v \in Worker : c \in Own(v) => v = w
        BY <1>6, <3>1
      <4>2. \A v \in Worker : c = leaving[v] /\ pc[v] \in Leaves => v = w
        BY <1>8, <4>1
      <4>. QED  BY <1>9, <1>10, <2>3, <3>1, <4>1, <4>2 DEF Leaves
    <3>2. ASSUME NEW w \in Worker, c \in Own(w)
          PROVE  c \in Counts(w) <=> c \in Alive /\ c \notin CountedOff
      <4>1. c = leaving[w] => pc[w] \in Leaves
        BY <1>2, <2>1
      <4>. QED  BY <3>1, <3>2, <4>1 DEF Counts, Leaves
    <3>3. c \in Alive => \E w \in Worker : c \in Own(w)
      BY <1>9, <2>3
    <3>4. c \in Kept <=> c \in cleared \/ \E w \in Worker : c \in Counts(w)
      BY <2>3 DEF Kept
    <3>5. \A w \in Worker : c \in Counts(w) => c \in Own(w)
      BY DEF Counts
    <3>. QED  BY <3>2, <3>3, <3>4, <3>5
  <2>. QED  BY <2>2, <2>3
<1>15. Kept = (Alive \ CountedOff) \cup cleared
  BY <1>11, <1>14 DEF Kept, Types
<1>. QED  BY <1>11, <1>12, <1>13, <1>15

(* _clientAccept counts the connections that are not counted off, and      *)
(* there are never more than _nMaxClient and one for every worker that is  *)
(* deleting one; for any number of workers and connections.                *)
THEOREM ConnectionsAreCounted == Spec => []CountHolds
<1>1. /\ Types /\ Seek /\ Homes /\ Counted /\ [Next]_vars
      => (Types /\ Seek /\ Homes /\ Counted)'
  BY NextTypes, SeekStep, HomesStep, CountedStep
<1>2. Types /\ Seek /\ Homes /\ Counted => CountHolds
  <2>. SUFFICES ASSUME Types, Seek, Homes, Counted PROVE CountHolds
    OBVIOUS
  <2>. DEFINE A == Alive \ CountedOff
  <2>1. /\ Alive \subseteq Conn /\ CountedOff \subseteq Alive /\ cleared \subseteq Conn
        /\ cleared \cap Alive = {} /\ Kept = A \cup cleared
    BY AliveSets DEF Types
  <2>2. A \subseteq Conn /\ CountedOff \subseteq Conn
    BY <2>1
  <2>3. /\ IsFiniteSet(A) /\ IsFiniteSet(CountedOff) /\ IsFiniteSet(cleared)
        /\ Cardinality(A) \in Nat /\ Cardinality(CountedOff) \in Nat
        /\ Cardinality(cleared) \in Nat
    BY <2>1, <2>2, FiniteKept
  <2>4. Alive = A \cup CountedOff /\ A \cap CountedOff = {} /\ A \cap cleared = {}
    BY <2>1
  <2>. HIDE DEF A
  <2>5. Cardinality(A \cup cleared) = Cardinality(A) + Cardinality(cleared)
    <3>1. Cardinality(A \cup cleared)
            = Cardinality(A) + Cardinality(cleared) - Cardinality(A \cap cleared)
      BY <2>3, FS_Union
    <3>2. Cardinality(A \cap cleared) = 0
      BY <2>4, FS_EmptySet
    <3>. QED  BY <2>3, <3>1, <3>2
  <2>6. Cardinality(A \cup CountedOff) = Cardinality(A) + Cardinality(CountedOff)
    <3>1. Cardinality(A \cup CountedOff)
            = Cardinality(A) + Cardinality(CountedOff) - Cardinality(A \cap CountedOff)
      BY <2>3, FS_Union
    <3>2. Cardinality(A \cap CountedOff) = 0
      BY <2>4, FS_EmptySet
    <3>. QED  BY <2>3, <3>1, <3>2
  <2>7. accepts = Cardinality(A) + Cardinality(cleared) /\ accepts <= MaxClient
    BY <2>1, <2>5 DEF Counted
  <2>8. Cardinality(Alive) <= MaxClient + Cardinality(CountedOff)
    BY <2>3, <2>4, <2>6, <2>7, NumberAssumption
  <2>. QED  BY <2>7, <2>8 DEF CountHolds, A
<1>. QED
  BY InitTypes, InitHomes, InitCounted, <1>1, <1>2, PTL DEF Spec

(* Type correctness, with the bounds of the semaphores and the sign of     *)
(* _clientAccept.                                                          *)
THEOREM TypeCorrect == Spec => []TypeOK
<1>1. /\ Types /\ Seek /\ Sem /\ Homes /\ Counted /\ [Next]_vars
      => (Types /\ Seek /\ Sem /\ Homes /\ Counted)'
  BY NextTypes, SeekStep, SemStep, HomesStep, CountedStep
<1>2. Types /\ Sem /\ Counted => TypeOK
  <2>. SUFFICES ASSUME Types, Sem, Counted PROVE TypeOK
    OBVIOUS
  <2>1. \A t \in Thread : wait[t] \in -1 .. 1 /\ wakeup[t] \in 0 .. 1
    BY DEF Sem, SemAt
  <2>2. wait \in [Thread -> -1 .. 1] /\ wakeup \in [Thread -> 0 .. 1]
    BY <2>1 DEF Types
  <2>3. accepts \in Nat
    BY FiniteKept DEF Counted
  <2>. QED  BY <2>2, <2>3 DEF Types, TypeOK
<1>. QED
  BY InitTypes, InitSem, InitHomes, InitCounted, <1>1, <1>2, PTL DEF Spec
=============================================================================
