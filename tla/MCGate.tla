------------------------------- MODULE MCGate -------------------------------
(***************************************************************************)
(* Gate on a small instance: three connections on two descriptors, so that *)
(* a descriptor is used again after its socket is closed.  A peer sends    *)
(* only while no frame waits at the gate; a request may find MaxOut send   *)
(* buffers full, so that BUSY is reached, and the other messages none.     *)
(* Connections are interchangeable.                                        *)
(***************************************************************************)
EXTENDS Gate, TLC

CONSTANTS d0, MaxOut

MCCmd == {"ss_msg_client_exit", "x"}

Reg(g, ok, apis) ==
  [type |-> "reg", group |-> g, cc |-> FALSE, keyok |-> ok,
   hasApis |-> apis # {}, apis |-> apis, msgId |-> 1]
Req(g, cid, cc, proxy) ==
  [type |-> "req", cmd |-> "x", group |-> g, cid |-> cid, cc |-> cc,
   proxy |-> proxy, msgId |-> 1, data |-> d0]

AllInput ==
  {Reg("g1", TRUE, MCCmd), Reg("", TRUE, {"x"}), Reg("g1", FALSE, {"x"}),
   Reg("g1", TRUE, {}),
   Req("g1", NoCid, TRUE, FALSE), Req("g1", NoCid, FALSE, TRUE),
   Req("g1", 7, TRUE, FALSE),
   [type |-> "heart", cc |-> FALSE, msgId |-> 1],
   [type |-> "resp", cid |-> 3, msgId |-> 1, state |-> "ok", data |-> d0],
   [type |-> "push", cid |-> SetLinkId(4, 7), clients |-> {}, data |-> d0],
   [type |-> "pushs", clients |-> {3, SetLinkId(4, 7)}, data |-> d0],
   [type |-> "bcast", cmd |-> "x", data |-> d0]}

Symmetry == Permutations(Conn)

Quiet(m) ==
  /\ \A c \in Conn : inq[c] = <<>>
  /\ Cardinality({c \in Conn : outq[c] # <<>>})
       <= IF m.type = "req" THEN MaxOut ELSE 0

MCNext ==
  \E c \in Conn :
    \/ \E f \in Fd : Join(c, f)
    \/ Handle(c)
    \/ Leave(c)
    \/ \E m \in Input : Quiet(m) /\ PeerSend(c, m)
    \/ PeerRecv(c)

MCSpec == Init /\ [][MCNext]_vars
=============================================================================
