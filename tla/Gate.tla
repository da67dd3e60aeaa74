-------------------------------- MODULE Gate --------------------------------
(***************************************************************************)
(* The routing core of the gate: CRCNetServer (frame dispatch), its        *)
(* CRCNetTransfer (who serves which "group:cmd") and the GateServer        *)
(* handlers bound to it.  GenController is the same code under another     *)
(* name.                                                                   *)
(*                                                                         *)
(* A connection object (CRCNetClientS* ) is a member of Conn and is used   *)
(* for one socket; its clientId() is the descriptor of that socket, and    *)
(* the kernel reuses descriptors.  One worker thread runs all handlers     *)
(* (nThread defaults to 1), so a handler is one atomic action.             *)
(*                                                                         *)
(* inq[c] holds the complete frames received from c, outq[c] the frames    *)
(* written to the send buffer of c and not yet read by the peer.           *)
(***************************************************************************)
EXTENDS Integers, Sequences, FiniteSets

CONSTANTS
  Conn,         \* connection objects
  Fd,           \* socket descriptors, naturals
  NoFd,         \* the descriptor of an object that no worker holds
  Group,        \* service groups
  DefaultGroup, \* "0000"
  NoGroup,      \* the empty group, also the missing "group:" of a bare key
  Cmd,          \* api names
  ExitCmd,      \* "ss_msg_client_exit"
  LinkMask,     \* 100000
  MsgId,        \* request numbers
  Data,         \* payloads
  NoData,       \* the payload of a message the gate makes itself
  Input,        \* the messages peers send
  RecvCap,      \* frames a receive buffer holds
  SendCap       \* frames a send buffer holds

ASSUME FdAssumption ==
  /\ Fd \subseteq 1 .. (LinkMask - 1)
  /\ NoFd \notin Fd
ASSUME GroupAssumption == DefaultGroup \in Group /\ NoGroup \notin Group
ASSUME CmdAssumption   == ExitCmd \in Cmd
ASSUME NumAssumption   == LinkMask \in Nat \ {0} /\ {RecvCap, SendCap} \subseteq Nat \ {0}
ASSUME DataAssumption  == NoData \in Data

NoCid == 0    \* the JSON has no clientId

(* ClientId::set_link_id and get_link_id *)
SetLinkId(link, id) == link * LinkMask + id
GetLinkId(id)       == IF id >= LinkMask THEN id \div LinkMask ELSE id

ClientId == Nat

(* STATE_CODE_* of crc_client_id.hpp *)
State == {"ok", "error", "timeout", "undefine", "busy", "off", "processing"}

(* "group:cmd"; a cmd that no group prefixes is the key of NoGroup *)
Key        == (Group \cup {NoGroup}) \X Cmd
BareKey(x) == <<NoGroup, x>>

(* The JSON messages by what their fields tell the gate.  "reg" and        *)
(* "heart" are requests whose cmd is ss_reg_api and cs_msg_heart.          *)
ReqMsg   == [type : {"req"}, cmd : Cmd, group : Group \cup {NoGroup},
             cid : ClientId, cc : BOOLEAN, proxy : BOOLEAN,
             msgId : MsgId, data : Data]
RegMsg   == [type : {"reg"}, group : Group \cup {NoGroup}, cc : BOOLEAN,
             keyok : BOOLEAN, hasApis : BOOLEAN, apis : SUBSET Cmd,
             msgId : MsgId]
HeartMsg == [type : {"heart"}, cc : BOOLEAN, msgId : MsgId]
RespMsg  == [type : {"resp"}, cid : ClientId, msgId : MsgId,
             state : State, data : Data]
PushMsg  == [type : {"push"}, cid : ClientId, clients : SUBSET ClientId,
             data : Data]
PushSMsg == [type : {"pushs"}, clients : SUBSET ClientId, data : Data]
CastMsg  == [type : {"bcast"}, cmd : Cmd, data : Data]

Msg == ReqMsg \cup RegMsg \cup HeartMsg \cup RespMsg \cup PushMsg
         \cup PushSMsg \cup CastMsg

ASSUME InputAssumption == Input \subseteq Msg

VARIABLES
  used,       \* connection objects that were ever created
  fdOf,       \* Conn -> descriptor while a worker holds the object
  ssLink,     \* objects with is_ss_link(): registered services
  ccLink,     \* objects with is_cc_link()
  listeners,  \* Key -> vector of objects, in registration order
  defined,    \* keys that have an entry in m_msg_listeners
  index,      \* Key -> Listeners::index
  turns,      \* history: requests each listener got in the current round
  inq, outq

vars  == <<used, fdOf, ssLink, ccLink, listeners, defined, index, turns,
           inq, outq>>
table == <<listeners, defined, index, turns>>
links == <<used, fdOf, ssLink, ccLink>>

Live == {c \in Conn : fdOf[c] # NoFd}

(* CRCEasyTcpServer::find_client: the object whose socket is f, if any *)
FindClient(f) == {c \in Live : fdOf[c] = f}

ServiceSet(k) == {listeners[k][i] : i \in DOMAIN listeners[k]}

-----------------------------------------------------------------------------
(* writeText: the whole frame enters the send buffer or nothing does. *)
HasRoom(q)  == Len(q) < SendCap
Write(q, m) == IF HasRoom(q) THEN Append(q, m) ELSE q

(* Mutant: the response does not say which request it is for. *)
ResponseNoId(m, state) ==
  [type |-> "resp", cid |-> NoCid, state |-> state, data |-> NoData]

(* CRCNetClientS::response *)
Response(m, state) ==
  [type |-> "resp", cid |-> NoCid, msgId |-> m.msgId, state |-> state,
   data |-> NoData]
Respond(q, c, m, state) == [q EXCEPT ![c] = Write(@, Response(m, state))]

(* Mutant: the last element is erased, not the one that was found. *)
EraseLast(s, c) ==
  IF \E i \in DOMAIN s : s[i] = c THEN SubSeq(s, 1, Len(s) - 1) ELSE s

(* vector::erase of the element that find() found *)
Erase(s, c) ==
  IF \E i \in DOMAIN s : s[i] = c
  THEN LET at == CHOOSE i \in DOMAIN s : s[i] = c
       IN  [j \in 1 .. (Len(s) - 1) |-> IF j < at THEN s[j] ELSE s[j + 1]]
  ELSE s

(* Mutant: an object is added again. *)
IncludeAgain(s, c) == Append(s, c)

(* Listeners::add keeps an object that is already there *)
Include(s, c) == IF \E i \in DOMAIN s : s[i] = c THEN s ELSE Append(s, c)

(* Mutant: the last listener of several is never chosen. *)
GetPosShort(k) ==
  IF index[k] + 1 >= Len(listeners[k]) THEN 1 ELSE index[k] + 1

(* Listeners::get: position of the listener it returns, and index after it *)
GetPos(k) ==
  IF Len(listeners[k]) = 1 \/ index[k] >= Len(listeners[k])
  THEN 1 ELSE index[k] + 1
GetIndex(k) == IF Len(listeners[k]) = 1 THEN index[k] ELSE GetPos(k)

(* The history counts turns since the vector last changed, less the rounds *)
(* that every listener has completed.                                      *)
NoTurns == [c \in Conn |-> 0]
Restart(new, k) == IF new[k] = listeners[k] THEN turns[k] ELSE NoTurns
Turn(k, s) ==
  LET t == [turns[k] EXCEPT ![s] = @ + 1]
  IN IF \A d \in ServiceSet(k) : t[d] > 0
     THEN [d \in Conn |-> IF d \in ServiceSet(k) THEN t[d] - 1 ELSE 0]
     ELSE t

-----------------------------------------------------------------------------
Init ==
  /\ used = {} /\ fdOf = [c \in Conn |-> NoFd]
  /\ ssLink = {} /\ ccLink = {}
  /\ listeners = [k \in Key |-> <<>>]
  /\ defined = {}
  /\ index = [k \in Key |-> 0]
  /\ turns = [k \in Key |-> NoTurns]
  /\ inq = [c \in Conn |-> <<>>]
  /\ outq = [c \in Conn |-> <<>>]

(* accept, the worker's join and the websocket handshake: c enters         *)
(* clientState_run with a descriptor no open socket has.                   *)
Join(c, f) ==
  /\ c \notin used
  /\ f \in Fd /\ \A d \in Live : fdOf[d] # f
  /\ used' = used \cup {c}
  /\ fdOf' = [fdOf EXCEPT ![c] = f]
  /\ UNCHANGED <<ssLink, ccLink, table, inq, outq>>

(* The worker takes the first frame of c; a frame of a closed client is    *)
(* never looked at again.                                                  *)
Front(c) == Head(inq[c])
Takes(c, types) ==
  /\ c \in Live
  /\ inq[c] # <<>>
  /\ Front(c).type \in types
  /\ inq' = [inq EXCEPT ![c] = Tail(@)]

(* A request with is_cc marks its link before any handler runs. *)
MarkCc(c, m) == IF m.cc THEN ccLink \cup {c} ELSE ccLink

(* GateServer::ss_reg_api.  The link becomes a service link before its     *)
(* apis are looked at.                                                     *)
RegApi(c) ==
  LET m    == Front(c)
      gpid == IF m.group = NoGroup THEN DefaultGroup ELSE m.group
      new  == {gpid} \X m.apis
      added == [k \in Key |-> IF k \in new THEN Include(listeners[k], c)
                                           ELSE listeners[k]]
  IN /\ Takes(c, {"reg"})
     /\ ccLink' = MarkCc(c, m)
     /\ IF m.keyok THEN ssLink' = ssLink \cup {c} ELSE ssLink' = ssLink
     /\ IF m.keyok /\ m.hasApis
        THEN /\ listeners' = added
             /\ defined' = defined \cup new
             /\ turns' = [k \in Key |-> Restart(added, k)]
             /\ outq' = Respond(outq, c, m, "ok")
        ELSE /\ UNCHANGED <<listeners, defined, turns>>
             /\ outq' = Respond(outq, c, m, "error")
     /\ UNCHANGED <<used, fdOf, index>>

(* GateServer::cs_msg_heart does nothing: heartbeats are not answered. *)
Heart(c) ==
  /\ Takes(c, {"heart"})
  /\ ccLink' = MarkCc(c, Front(c))
  /\ UNCHANGED <<used, fdOf, ssLink, table, outq>>

(* CRCNetTransfer::on_net_msg_do and GateServer::on_other_msg: hand m to   *)
(* the next listener of k, or answer c with the reason it was not.         *)
Transfer(c, k, m) ==
  IF k \notin defined
  THEN outq' = Respond(outq, c, m, "undefine") /\ UNCHANGED <<index, turns>>
  ELSE IF listeners[k] = <<>>
  THEN outq' = Respond(outq, c, m, "off") /\ UNCHANGED <<index, turns>>
  ELSE LET s == listeners[k][GetPos(k)]
       IN /\ index' = [index EXCEPT ![k] = GetIndex(k)]
          /\ turns' = [turns EXCEPT ![k] = Turn(k, s)]
          /\ outq' = IF HasRoom(outq[s])
                     THEN [outq EXCEPT ![s] = Append(@, m)]
                     ELSE Respond(outq, c, m, "busy")

(* MSG_TYPE_REQ for a cmd the gate does not serve itself.  A link that is  *)
(* neither cc nor ss reaches only the controllers of the default group,    *)
(* and only by naming the proxy: otherwise the request is dropped.         *)
Request(c) ==
  LET m    == Front(c)
      id   == IF m.cid = NoCid THEN fdOf[c] ELSE SetLinkId(fdOf[c], m.cid)
      fwd  == [m EXCEPT !.cid = id]
      open == c \in MarkCc(c, m) \cup ssLink
  IN /\ Takes(c, {"req"})
     /\ ccLink' = MarkCc(c, m)
     /\ IF open \/ m.proxy
        THEN Transfer(c, <<IF open THEN m.group ELSE DefaultGroup, m.cmd>>, fwd)
        ELSE UNCHANGED <<index, turns, outq>>
     /\ UNCHANGED <<used, fdOf, ssLink, listeners, defined>>

(* MSG_TYPE_RESP and MSG_TYPE_PUSH: the text goes verbatim to the object   *)
(* that holds the descriptor now.  No socket has the descriptor NoCid.     *)
Reply(c) ==
  LET m == Front(c)
  IN /\ Takes(c, {"resp", "push"})
     /\ outq' = IF c \in ssLink
                THEN [d \in Conn |-> IF d \in FindClient(GetLinkId(m.cid))
                                     THEN Write(outq[d], m) ELSE outq[d]]
                ELSE outq
     /\ UNCHANGED <<links, table>>

(* MSG_TYPE_PUSH_S: one message per link, with the ids that are behind it. *)
PushMany(c) ==
  LET m        == Front(c)
      Behind(d) == {id \in m.clients : d \in FindClient(GetLinkId(id))}
      Part(d)   == [type |-> "push", cid |-> NoCid, clients |-> Behind(d),
                    data |-> m.data]
  IN /\ Takes(c, {"pushs"})
     /\ outq' = IF c \in ssLink
                THEN [d \in Conn |-> IF Behind(d) # {}
                                     THEN Write(outq[d], Part(d)) ELSE outq[d]]
                ELSE outq
     /\ UNCHANGED <<links, table>>

(* CRCNetTransfer::on_broadcast_do: every listener of the bare cmd. *)
ToListeners(q, x, m) ==
  [d \in Conn |-> IF d \in ServiceSet(BareKey(x)) THEN Write(q[d], m) ELSE q[d]]

Broadcast(c) ==
  LET m == Front(c)
  IN /\ Takes(c, {"bcast"})
     /\ outq' = IF c \in ssLink THEN ToListeners(outq, m.cmd, m) ELSE outq
     /\ UNCHANGED <<links, table>>

(* OnNetLeave and on_client_leave, then the socket is closed: what the     *)
(* kernel already took of the send buffer may still reach the peer.  No    *)
(* link is ever logged in (userId is never set), so only the client exit   *)
(* is announced.                                                           *)
Leave(c) ==
  LET gone == [k \in Key |-> IF c \in ssLink THEN Erase(listeners[k], c)
                                             ELSE listeners[k]]
      note == [type |-> "bcast", cmd |-> ExitCmd, data |-> NoData]
  IN /\ c \in Live
     /\ fdOf' = [fdOf EXCEPT ![c] = NoFd]
     /\ listeners' = gone
     /\ turns' = [k \in Key |-> Restart(gone, k)]
     /\ inq' = [inq EXCEPT ![c] = <<>>]
     /\ \E n \in 0 .. Len(outq[c]) :
          outq' = [d \in Conn |->
                     IF d = c THEN SubSeq(outq[c], 1, n)
                     ELSE IF \E i \in DOMAIN gone[BareKey(ExitCmd)] :
                               gone[BareKey(ExitCmd)][i] = d
                     THEN Write(outq[d], note) ELSE outq[d]]
     /\ UNCHANGED <<used, ssLink, ccLink, defined, index>>

Handle(c) ==
  \/ RegApi(c) \/ Heart(c) \/ Request(c) \/ Reply(c) \/ PushMany(c)
  \/ Broadcast(c)

(* The peers: any message of Input, at any time. *)
PeerSend(c, m) ==
  /\ c \in Live
  /\ Len(inq[c]) < RecvCap
  /\ inq' = [inq EXCEPT ![c] = Append(@, m)]
  /\ UNCHANGED <<links, table, outq>>

PeerRecv(c) ==
  /\ outq[c] # <<>>
  /\ outq' = [outq EXCEPT ![c] = Tail(@)]
  /\ UNCHANGED <<links, table, inq>>

Next ==
  \E c \in Conn :
    \/ \E f \in Fd : Join(c, f)
    \/ Handle(c)
    \/ Leave(c)
    \/ \E m \in Input : PeerSend(c, m)
    \/ PeerRecv(c)

Spec == Init /\ [][Next]_vars

-----------------------------------------------------------------------------
(* Every field holds a value of its C++ type. *)
TypeOK ==
  /\ used \subseteq Conn /\ ssLink \subseteq Conn /\ ccLink \subseteq Conn
  /\ fdOf \in [Conn -> Fd \cup {NoFd}]
  /\ listeners \in [Key -> Seq(Conn)]
  /\ defined \subseteq Key
  /\ index \in [Key -> Nat]
  /\ turns \in [Key -> [Conn -> Nat]]
  /\ inq \in [Conn -> Seq(Msg)]
  /\ outq \in [Conn -> Seq(Msg)]

(* The vectors of m_msg_listeners hold raw pointers.  None of them is ever *)
(* to an object that left: on_client_leave unregisters exactly the links   *)
(* that is_ss_link() marks, and ss_reg_api marks before it registers.      *)
ListenersLive ==
  \A k \in Key : \A i \in DOMAIN listeners[k] :
    listeners[k][i] \in Live \cap ssLink

(* A service that registers an api again (its onopen runs after every      *)
(* reconnect) is in the vector once, or get() would favour it and one      *)
(* erase() would leave a pointer behind.                                   *)
ListenersUnique ==
  \A k \in Key : \A i, j \in DOMAIN listeners[k] :
    listeners[k][i] = listeners[k][j] => i = j

(* index is not corrected when a listener leaves and get() leaves it alone *)
(* while there is one listener, yet get() stays fair: from the last change *)
(* of a vector on, no listener gets two requests more than another.        *)
RoundRobin ==
  \A k \in Key : \A c, d \in ServiceSet(k) : turns[k][c] <= turns[k][d] + 1
=============================================================================
