------------------------------ MODULE MCStream ------------------------------
(***************************************************************************)
(* A connection with lengths scaled down: both send buffers are larger     *)
(* than what EPOLLOUT announces (Low), as the 10 MB of a controller, a     *)
(* login or a mkiso service and the gate's 131072 bytes are, so that       *)
(* either end can be held up in send().  The gate can write frames that    *)
(* are too long for the client, and both can run out of room.              *)
(***************************************************************************)
EXTENDS Stream

At(c, s) == [e \in End |-> IF e = Client THEN c ELSE s]
MCSendSize == At(3, 4)
MCRecvSize == At(2, 3)
MCHeader   == At(2, 1)
MCGreeting == At(1, 1)
MCMaxFrame == At(3, 2)
=============================================================================
