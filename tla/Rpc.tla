-------------------------------- MODULE Rpc ---------------------------------
(***************************************************************************)
(* Requests from process to process through the gate: CRCNetClientC on     *)
(* both sides of Gate.  A Service registers an api when its connection     *)
(* opens and answers requests from its pool, in any order; a client is a   *)
(* service to others (as NlController is) whose pool threads send requests *)
(* with a callback.  Every process has a network thread, "net", which      *)
(* connects, receives, looks for timeouts and sends heart beats.           *)
(*                                                                         *)
(* request() and the callback's entry in m_map_request_call are steps of   *)
(* their own: m_msgId and the map have no lock, and pool threads use them  *)
(* while the network thread does.  The map's own data race is left out: an *)
(* access to it is atomic.  inq[c] holds what the peer wrote to c.  The    *)
(* websocket handshake is part of Connect: what a pool thread writes       *)
(* before it is over counts as a frame like any other.                     *)
(***************************************************************************)
EXTENDS Gate

CONSTANTS
  Process,
  Service,    \* the processes that answer requests
  JobThread,  \* pool threads of a client
  NetThread,  \* the thread that calls run()
  Timeout,    \* the outcome of a request that timed out
  Progress,   \* the outcome of an answer that is not the last one
  Api,        \* the cmd the services register
  OwnApi,     \* the cmd a client registers
  Null,       \* _pWSClient before the first connect()
  Dangling,   \* _pWSClient after Close()
  Quiet,      \* processes that may write nothing for five seconds
  MaxMsg,     \* calls and heart beats of a process
  MaxDrop,    \* connections that break
  MaxProgress \* answers that are not the last one, and breaks before them

ASSUME ProcessAssumption ==
  /\ Service \subseteq Process /\ Quiet \subseteq Process
  /\ NetThread \notin JobThread
  /\ {Null, Dangling} \cap Conn = {}
  /\ Progress \notin Data \cup {Timeout}
ASSUME ApiAssumption   == {Api, OwnApi} \subseteq Cmd
ASSUME BoundAssumption == {MaxMsg, MaxDrop, MaxProgress} \cup MsgId \subseteq Nat

Client == Process \ Service
Caller == (Process \X {NetThread}) \cup (Client \X JobThread)

VARIABLES
  link,     \* Process -> its connection, Null or Dangling
  opened,   \* processes whose onopen was called for the connection they have
  msgId,    \* m_msgId
  calls,    \* m_map_request_call: msgId -> the request whose callback is there
  th,       \* Caller -> where it is in request()
  jobs,     \* Service -> requests its pool has not answered
  heard,    \* history: Process -> request -> what its callback was given
  noted,    \* history: Process -> requests whose callback was noted, but
            \* those over which another one was noted
  drops,    \* connections that broke
  progress, \* answers that were not the last one
  undef     \* a freed connection was written to

hist    == <<heard, noted>>
bounds  == <<drops, progress>>
rpc     == <<link, opened, msgId, calls, th, jobs, hist, bounds, undef>>
sysvars == <<vars, rpc>>

Resting == [step |-> "rests", kind |-> "call", id |-> 0]

(* What a process registers in onopen, and what it asks a service for. *)
Registers(p, id) ==
  [type |-> "reg", group |-> IF p \in Service THEN "0001" ELSE DefaultGroup,
   cc |-> FALSE, keyok |-> TRUE, hasApis |-> TRUE,
   apis |-> {IF p \in Service THEN Api ELSE OwnApi}, msgId |-> id]
Beat(id) == [type |-> "heart", cc |-> FALSE, msgId |-> id]
Asks(p, id) ==
  [type |-> "req", cmd |-> Api, group |-> "0001", cid |-> NoCid, cc |-> FALSE,
   proxy |-> FALSE, msgId |-> id, data |-> <<p, id>>]
Frame(p, kind, id) ==
  CASE kind = "reg"   -> Registers(p, id)
    [] kind = "heart" -> Beat(id)
    [] kind = "call"  -> Asks(p, id)

(* CRCNetClientC::response of the request r *)
Answer(r, state) == [type |-> "resp", cid |-> r.cid, msgId |-> r.msgId,
                     state |-> state, data |-> r.data]

SysInit ==
  /\ Init
  /\ link = [p \in Process |-> Null] /\ opened = {}
  /\ msgId = [p \in Process |-> 0]
  /\ calls = [p \in Process |-> <<>>]
  /\ th = [t \in Caller |-> Resting]
  /\ jobs = [s \in Service |-> {}]
  /\ heard = [p \in Process |-> [i \in MsgId |-> <<>>]]
  /\ noted = [p \in Process |-> {}]
  /\ drops = 0 /\ progress = 0 /\ undef = FALSE

-----------------------------------------------------------------------------
(* writeText on the connection of p.  A dangling pointer is undefined; a   *)
(* frame for a connection that the gate has closed is lost.                *)
Reaches(p) == link[p] \in Live
Full(p)    == Reaches(p) /\ Len(inq[link[p]]) >= RecvCap
WriteText(p, m) ==
  /\ inq' = IF Reaches(p) /\ ~Full(p)
            THEN [inq EXCEPT ![link[p]] = Append(@, m)] ELSE inq
  /\ undef' = (link[p] = Dangling)

(* request(): it takes the next number, *)
Number(p, t, kind) ==
  /\ th[<<p, t>>] = Resting
  /\ msgId' = [msgId EXCEPT ![p] = @ + 1]
  /\ th' = [th EXCEPT ![<<p, t>>] = [step |-> "sends", kind |-> kind,
                                     id |-> msgId[p] + 1]]
  /\ UNCHANGED <<vars, link, calls, jobs, hist, bounds, undef>>

(* onopen: the api is registered for the new connection. *)
OnOpen(p) ==
  /\ link[p] \in Conn /\ p \notin opened
  /\ opened' = opened \cup {p}
  /\ Number(p, NetThread, "reg")

(* run() sends a heart beat after five quiet seconds. *)
Heartbeat(p) ==
  /\ p \in opened \cap Quiet /\ msgId[p] < MaxMsg
  /\ Number(p, NetThread, "heart")
  /\ UNCHANGED opened

(* A pool thread asks a service.  Its job came over the connection, after  *)
(* the gate's answer to onopen's registration.                             *)
Registered(p) ==
  \E i \in MsgId : \E k \in DOMAIN heard[p][i] : heard[p][i][k] = NoData
Ask(p, t) ==
  /\ Registered(p) /\ msgId[p] < MaxMsg
  /\ Number(p, t, "call")
  /\ UNCHANGED opened

(* writes the message, *)
Send(p, t) ==
  LET r == th[<<p, t>>]
  IN /\ r.step = "sends"
     /\ WriteText(p, Frame(p, r.kind, r.id))
     /\ th' = [th EXCEPT ![<<p, t>>] =
                 IF Full(p) \/ r.kind = "heart" THEN Resting
                 ELSE [r EXCEPT !.step = "records"]]
     /\ UNCHANGED <<links, table, outq, link, opened, msgId, calls, jobs, hist,
                    bounds>>

(* and notes the callback under m_msgId as it is then.  One that is there  *)
(* already is gone.                                                        *)
Record(p, t) ==
  LET r    == th[<<p, t>>]
      n    == msgId[p]
      Over == {calls[p][k] : k \in DOMAIN calls[p] \cap {n}}
  IN /\ r.step = "records"
     /\ calls' = [calls EXCEPT ![p] = [k \in DOMAIN @ \cup {n} |->
                                        IF k = n THEN r.id ELSE @[k]]]
     /\ noted' = [noted EXCEPT ![p] = (@ \ Over) \cup {r.id}]
     /\ th' = [th EXCEPT ![<<p, t>>] = Resting]
     /\ UNCHANGED <<vars, link, opened, msgId, jobs, heard, bounds, undef>>

-----------------------------------------------------------------------------
(* run() on the network thread. *)
AtRun(p) == th[<<p, NetThread>>] = Resting

(* connect(): a fresh object, and the lowest descriptor that is free.      *)
Connect(p) ==
  /\ AtRun(p) /\ link[p] \notin Conn /\ used # Conn
  /\ LET c    == CHOOSE c \in Conn : c \notin used
         free == Fd \ {fdOf[d] : d \in Live}
     IN /\ \E f \in free : (\A g \in free : f <= g) /\ Join(c, f)
        /\ link' = [link EXCEPT ![p] = c]
  /\ UNCHANGED <<opened, msgId, calls, th, jobs, hist, bounds, undef>>

(* The callbacks in the entries S are called with the outcome o.           *)
Tell(p, S, o) ==
  heard' = [heard EXCEPT ![p] = [i \in MsgId |->
              IF \E n \in S : calls[p][n] = i THEN Append(@[i], o) ELSE @[i]]]

(* Mutant: an entry that timed out is kept. *)
SettleKept(p, S, o) ==
  /\ Tell(p, S, o)
  /\ calls' = IF o = Timeout THEN calls
              ELSE [calls EXCEPT ![p] = [n \in DOMAIN @ \ S |-> @[n]]]

(* For the last time: they are erased.                                     *)
Settle(p, S, o) ==
  /\ Tell(p, S, o)
  /\ calls' = [calls EXCEPT ![p] = [n \in DOMAIN @ \ S |-> @[n]]]


(* check_timeout(): any entries may be old enough.  It is not called while *)
(* there is no connection.                                                 *)
CheckTimeout(p) ==
  /\ AtRun(p) /\ link[p] \in Conn
  /\ \E S \in (SUBSET DOMAIN calls[p]) \ {{}} : Settle(p, S, Timeout)
  /\ UNCHANGED <<vars, link, opened, msgId, th, jobs, noted, bounds, undef>>

(* onmessage: an answer goes to the callback noted under its msgId, if     *)
(* there is one, which stays noted while the state is PROCESSING; a        *)
(* request goes to the pool of a service.                                  *)
OnMessage(p) ==
  LET c == link[p]
      m == Head(outq[c])
      mine == m.type = "resp" /\ m.msgId \in DOMAIN calls[p]
  IN /\ AtRun(p) /\ c \in Conn /\ outq[c] # <<>>
     /\ outq' = [outq EXCEPT ![c] = Tail(@)]
     /\ \/ ~mine /\ UNCHANGED <<calls, heard>>
        \/ mine /\ m.state = "processing" /\ Tell(p, {m.msgId}, Progress)
             /\ UNCHANGED calls
        \/ mine /\ m.state # "processing" /\ Settle(p, {m.msgId}, m.data)
     /\ jobs' = IF m.type = "req" /\ p \in Service
                THEN [jobs EXCEPT ![p] = @ \cup {m}] ELSE jobs
     /\ UNCHANGED <<links, table, inq, link, opened, msgId, th, noted, bounds,
                    undef>>

(* Mutant: the next connection is taken for open. *)
CloseOpened(p) ==
  /\ AtRun(p)
  /\ link' = [link EXCEPT ![p] = Dangling]
  /\ outq' = [outq EXCEPT ![link[p]] = <<>>]
  /\ UNCHANGED <<links, table, inq, opened, msgId, calls, th, jobs, hist,
                 progress, undef>>

(* Close(), after everything that arrived was read or without.  The        *)
(* entries of m_map_request_call stay.                                     *)
Close(p) ==
  /\ AtRun(p)
  /\ link' = [link EXCEPT ![p] = Dangling]
  /\ opened' = opened \ {p}
  /\ outq' = [outq EXCEPT ![link[p]] = <<>>]
  /\ UNCHANGED <<links, table, inq, msgId, calls, th, jobs, hist, progress,
                 undef>>

Notice(p) == /\ link[p] \in Conn \ Live /\ outq[link[p]] = <<>>
             /\ Close(p) /\ UNCHANGED drops
Break(p)  == /\ link[p] \in Live /\ drops < MaxDrop
             /\ Close(p) /\ drops' = drops + 1

(* A job of the service's pool ends with response(). *)
JobDone(s, r) ==
  /\ r \in jobs[s]
  /\ jobs' = [jobs EXCEPT ![s] = @ \ {r}]
  /\ WriteText(s, Answer(r, "ok"))
  /\ UNCHANGED <<links, table, outq, link, opened, msgId, calls, th, hist, bounds>>

(* It may have answered before that it goes on.                            *)
JobGoesOn(s, r) ==
  /\ r \in jobs[s]
  /\ progress + drops < MaxProgress /\ progress' = progress + 1
  /\ WriteText(s, Answer(r, "processing"))
  /\ UNCHANGED <<links, table, outq, link, opened, msgId, calls, th, jobs, hist,
                 drops>>

(* The gate finds that the peer closed, or gives up a peer that did not.   *)
Held(c) == \E p \in Process : link[p] = c
GateCloses(c) ==
  /\ ~Held(c) /\ UNCHANGED rpc
  /\ Leave(c) /\ outq'[c] = <<>>
GateDrops(c) ==
  /\ Held(c) /\ Leave(c)
  /\ drops < MaxDrop /\ drops' = drops + 1
  /\ UNCHANGED <<link, opened, msgId, calls, th, jobs, hist, progress, undef>>

GateHandles(c) == UNCHANGED rpc /\ Handle(c)

Runs(p) ==
  Connect(p) \/ OnOpen(p) \/ CheckTimeout(p) \/ OnMessage(p) \/ Notice(p)
Calls(p, t)  == Send(p, t) \/ Record(p, t)
Answers(s)   == \E r \in jobs[s] : JobDone(s, r)
GateRuns(c)  == GateHandles(c) \/ GateCloses(c)

SysNext ==
  /\ ~undef
  /\ \/ \E p \in Process : Runs(p) \/ Heartbeat(p) \/ Break(p)
     \/ \E p \in Client, t \in JobThread : Ask(p, t)
     \/ \E x \in Caller : Calls(x[1], x[2])
     \/ \E s \in Service : Answers(s) \/ \E r \in jobs[s] : JobGoesOn(s, r)
     \/ \E c \in Conn : GateRuns(c) \/ GateDrops(c)

SysSpec == SysInit /\ [][SysNext]_sysvars

(* Threads keep running, and jobs end; connections need not break, nor     *)
(* anybody ask for anything.  The gate is one thread.                      *)
SysFair ==
  /\ \A p \in Process : WF_sysvars(~undef /\ (Runs(p) \/ Calls(p, NetThread)))
  /\ \A p \in Client, t \in JobThread : WF_sysvars(~undef /\ Calls(p, t))
  /\ \A s \in Service : WF_sysvars(~undef /\ Answers(s))
  /\ WF_sysvars(~undef /\ \E c \in Conn : GateRuns(c))

SysFairSpec == SysSpec /\ SysFair

-----------------------------------------------------------------------------
Last(p, i) == heard[p][i][Len(heard[p][i])]

(* A callback hears nothing after an answer that is the last one or the    *)
(* timeout, although answers come after the timeout, entries outlive their *)
(* connection and are noted under the number of another request.           *)
OneOutcome ==
  \A p \in Process : \A i \in MsgId : \A k \in DOMAIN heard[p][i] :
    k < Len(heard[p][i]) => heard[p][i][k] = Progress


(* Once connections stop breaking every service is again connected and     *)
(* registered under its present connection.                                *)
ServiceComesBack ==
  <>[](undef \/ \A s \in Service :
         /\ link[s] \in Live
         /\ link[s] \in ServiceSet(<<"0001", Api>>))

(* A callback is given the answer to its own request.                      *)
AnswersMine ==
  \A p \in Process : \A i \in MsgId : \A k \in DOMAIN heard[p][i] :
    heard[p][i][k] \in {<<p, i>>, NoData, Timeout, Progress}
=============================================================================
