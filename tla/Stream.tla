------------------------------- MODULE Stream -------------------------------
(***************************************************************************)
(* One websocket connection: a client's CRCEasyWebSocketClient and the     *)
(* CRCNetClientS a worker of the gate made for it, each with the two       *)
(* CRCBuffers of CRCClient.  Nothing here looks at the bytes: a stream is  *)
(* four positions, counted from its beginning, so that the send buffer     *)
(* holds flushed..pushed, the kernel read..flushed and the receive buffer  *)
(* of the other end popped..read.  frames says what was pushed where.      *)
(*                                                                         *)
(* The sockets block: send() returns when the kernel has taken everything, *)
(* and the thread does nothing else meanwhile.  Each end is one thread.    *)
(***************************************************************************)
EXTENDS Naturals, Sequences

CONSTANTS
  Client, Server,
  SendSize, RecvSize,  \* End -> size of the buffers
  Wire,      \* what the kernel holds in one direction
  Low,       \* the room from which epoll reports EPOLLOUT
  Header,    \* End -> length of a frame header: the client's has a mask
  Greeting,  \* End -> length of the GET and of the 101
  Length,    \* lengths of payloads
  MaxFrame,  \* End -> bound on what it pushes
  Stray      \* whether the gate may write before the handshake

End == {Client, Server}
Peer(e) == IF e = Client THEN Server ELSE Client

ASSUME EndAssumption == Client # Server
ASSUME SizeAssumption ==
  /\ SendSize \in [End -> Nat] /\ RecvSize \in [End -> Nat]
  /\ Header \in [End -> Nat \ {0}] /\ Greeting \in [End -> Nat \ {0}]
  /\ MaxFrame \in [End -> Nat] /\ Length \subseteq Nat
  /\ Wire \in Nat \ {0} /\ Low \in 1 .. Wire
  /\ Greeting[Client] <= SendSize[Client] /\ Stray \in BOOLEAN
  /\ \A e \in End : Header[Peer(e)] <= RecvSize[e]

VARIABLES
  state,    \* End -> _clientState, "gone" once the object is deleted
  pushed,   \* End -> end of its send buffer
  flushed,  \* End -> what its kernel took
  read,     \* End -> what it read of the other's stream
  popped,   \* End -> what it removed of that from its receive buffer
  frames,   \* End -> the frames it pushed: where they begin, how long their
            \*        headers say they are
  got,      \* End -> numbers of the frames it handled, 0 for noise
  busy      \* End -> whether it is in send()

vars == <<state, pushed, flushed, read, popped, frames, got, busy>>

Queued(e) == pushed[e] - flushed[e]          \* _sendBuff.dataLen()
Room(e)   == SendSize[e] - Queued(e)
Bytes(e)  == read[e] - popped[e]             \* _recvBuff.dataLen()
InWire(e) == flushed[e] - read[Peer(e)]
Alive(e)  == state[e] # "gone"

(* What connect() leaves: a connection and the GET in the send buffer.     *)
Hello(e) == [kind |-> "hello", start |-> 0, size |-> Greeting[e]]
Init ==
  /\ state = [e \in End |-> "join"]
  /\ frames = [e \in End |-> IF e = Client THEN <<Hello(e)>> ELSE <<>>]
  /\ pushed = [e \in End |-> IF e = Client THEN Greeting[e] ELSE 0]
  /\ flushed = [e \in End |-> 0] /\ read = [e \in End |-> 0]
  /\ popped = [e \in End |-> 0]
  /\ got = [e \in End |-> <<>>] /\ busy = [e \in End |-> FALSE]

-----------------------------------------------------------------------------
(* Sending.                                                                *)
Push(e, kind, size, bytes) ==
  /\ frames' = [frames EXCEPT ![e] =
                  Append(@, [kind |-> kind, start |-> pushed[e], size |-> size])]
  /\ pushed' = [pushed EXCEPT ![e] = @ + bytes]

MayWrite(e) ==
  /\ Alive(e) /\ ~busy[e] /\ Len(frames[e]) < MaxFrame[e]
  /\ e = Server => state[e] = "run" \/ (state[e] = "join" /\ Stray)

(* Mutant: the space is not checked. *)
WriteTextOver(e, n) ==
  /\ MayWrite(e)
  /\ Push(e, "text", Header[e] + n, Header[e] + n)
  /\ UNCHANGED <<state, flushed, read, popped, got, busy>>

(* writeText() pushes the header, then the payload: a payload that does    *)
(* not fit leaves its header alone in the buffer.                          *)
WriteText(e, n) ==
  /\ MayWrite(e) /\ Header[e] <= Room(e)
  /\ IF Header[e] + n <= Room(e)
     THEN Push(e, "text", Header[e] + n, Header[e] + n)
     ELSE Push(e, "alone", Header[e] + n, Header[e])
  /\ UNCHANGED <<state, flushed, read, popped, got, busy>>

(* needWrite() and EPOLLOUT: SendDataReal() enters send().                 *)
Flush(e) ==
  /\ Alive(e) /\ ~busy[e] /\ Queued(e) > 0
  /\ e = Server => state[e] # "close"
  /\ Wire - InWire(e) >= Low
  /\ busy' = [busy EXCEPT ![e] = TRUE]
  /\ UNCHANGED <<state, pushed, flushed, read, popped, frames, got>>

(* The kernel takes n bytes; send() returns when it took all, or before    *)
(* that when a signal interrupts it.                                       *)
Hand(e, n) ==
  /\ Alive(e) /\ busy[e] /\ n \in 1 .. Queued(e) /\ n <= Wire - InWire(e)
  /\ flushed' = [flushed EXCEPT ![e] = @ + n]
  /\ \/ busy' = [busy EXCEPT ![e] = n < Queued(e)]
     \/ n < Queued(e) /\ busy' = [busy EXCEPT ![e] = FALSE]
  /\ UNCHANGED <<state, pushed, read, popped, frames, got>>

-----------------------------------------------------------------------------
(* Receiving.                                                              *)
AtFrame(e) ==
  {k \in DOMAIN frames[Peer(e)] : frames[Peer(e)][k].start = popped[e]}
Front(e) == frames[Peer(e)][CHOOSE k \in AtFrame(e) : TRUE]

(* Mutant: the header is not counted. *)
TooLongPayload(e) ==
  /\ state[e] = "run" /\ AtFrame(e) # {}
  /\ Bytes(e) >= Header[Peer(e)]
  /\ Front(e).size - Header[Peer(e)] > RecvSize[e]

TooLong(e) ==
  /\ state[e] = "run" /\ AtFrame(e) # {}
  /\ Bytes(e) >= Header[Peer(e)] /\ Front(e).size > RecvSize[e]

(* Mutant: a message is complete only when something follows it. *)
HasMsgMore(e) ==
  /\ AtFrame(e) # {} /\ Bytes(e) > Front(e).size
  /\ \/ state[e] = "join" /\ Front(e).kind = "hello"
     \/ state[e] = "run" /\ ~TooLong(e)

(* hasMsg().  Before the handshake only a GET or an HTTP answer will do.   *)
HasMsg(e) ==
  /\ AtFrame(e) # {} /\ Bytes(e) >= Front(e).size
  /\ \/ state[e] = "join" /\ Front(e).kind = "hello"
     \/ state[e] = "run" /\ ~TooLong(e)

(* What is in front is no header that was pushed as one. *)
Noise(e) == state[e] = "run" /\ AtFrame(e) = {} /\ Bytes(e) > 0

(* A loop handles all messages before it turns to the socket again, and    *)
(* CheckTime comes before DoNetEvents.  A full buffer is not read into.    *)
Read(e, n) ==
  /\ Alive(e) /\ ~busy[e] /\ ~HasMsg(e) /\ ~TooLong(e)
  /\ e = Server => state[e] # "close"
  /\ n \in 1 .. InWire(Peer(e)) /\ n <= RecvSize[e] - Bytes(e)
  /\ read' = [read EXCEPT ![e] = @ + n]
  /\ UNCHANGED <<state, pushed, flushed, popped, frames, got, busy>>

Handle(e, k, n) ==
  /\ got' = [got EXCEPT ![e] = Append(@, k)]
  /\ popped' = [popped EXCEPT ![e] = @ + n]
  /\ UNCHANGED <<flushed, read, busy>>

(* OnNetMsg in clientState_join: the gate answers the GET, if there is     *)
(* room, and both ends run.                                                *)
Handshake(e) ==
  /\ Alive(e) /\ ~busy[e] /\ HasMsg(e) /\ state[e] = "join"
  /\ state' = [state EXCEPT ![e] = "run"]
  /\ IF e = Server /\ Greeting[e] <= Room(e)
     THEN Push(e, "hello", Greeting[e], Greeting[e])
     ELSE UNCHANGED <<frames, pushed>>
  /\ Handle(e, CHOOSE k \in AtFrame(e) : TRUE, Front(e).size)

(* Mutant: pop removes the payload and leaves a byte of the header. *)
DecodeShort(e) ==
  /\ Alive(e) /\ ~busy[e] /\ HasMsg(e) /\ state[e] = "run"
  /\ Handle(e, IF Front(e).kind = "alone" THEN 0 ELSE CHOOSE k \in AtFrame(e) : TRUE,
            Front(e).size - 1)
  /\ UNCHANGED <<state, pushed, frames>>

(* OnNetMsg in clientState_run.  Behind a header that is alone the length  *)
(* it announces is taken from what follows.                                *)
Decode(e) ==
  /\ Alive(e) /\ ~busy[e] /\ HasMsg(e) /\ state[e] = "run"
  /\ Handle(e, IF Front(e).kind = "alone" THEN 0 ELSE CHOOSE k \in AtFrame(e) : TRUE,
            Front(e).size)
  /\ UNCHANGED <<state, pushed, frames>>

(* Any byte is taken for a header: it may announce something that is there *)
(* or what is not accepted; a client deletes its object when it reads the  *)
(* opcode CLOSE.                                                           *)
DecodeNoise(e) ==
  /\ Alive(e) /\ ~busy[e] /\ Noise(e)
  /\ \/ \E n \in 1 .. Bytes(e) : Handle(e, 0, n) /\ UNCHANGED state
     \/ /\ \E s \in {"close"} \cup (IF e = Client THEN {"gone"} ELSE {}) :
             state' = [state EXCEPT ![e] = s]
        /\ UNCHANGED <<got, popped, flushed, read, busy>>
  /\ UNCHANGED <<pushed, frames>>

(* onClose(): the gate's CheckTime drops the connection, the client stays. *)
Refuse(e) ==
  /\ Alive(e) /\ ~busy[e] /\ TooLong(e)
  /\ state' = [state EXCEPT ![e] = "close"]
  /\ UNCHANGED <<pushed, flushed, read, popped, frames, got, busy>>

-----------------------------------------------------------------------------
(* The end of a connection.                                                *)
Leave(e) ==
  /\ state' = [state EXCEPT ![e] = "gone"]
  /\ UNCHANGED <<pushed, flushed, read, popped, frames, got, busy>>

(* CheckTime: the connection is closing or was silent for too long.        *)
CheckTime == Alive(Server) /\ ~busy[Server] /\ ~HasMsg(Server) /\ Leave(Server)

(* The program of the client ends. *)
Quit == Alive(Client) /\ ~busy[Client] /\ Leave(Client)

(* Mutant: only a failing send() ends the connection. *)
LoseSend(e) ==
  /\ Alive(e) /\ ~Alive(Peer(e)) /\ ~HasMsg(e) /\ ~TooLong(e)
  /\ Queued(e) > 0
  /\ Leave(e)

(* send() or recv() fails after the other end closed.  recv() is not       *)
(* called while the buffer is full.                                        *)
Lose(e) ==
  /\ Alive(e) /\ ~Alive(Peer(e))
  /\ busy[e] \/ (~HasMsg(e) /\ ~TooLong(e))
  /\ Queued(e) > 0 \/ Bytes(e) < RecvSize[e]
  /\ Leave(e)

DoMsg(e)   == Handshake(e) \/ Decode(e) \/ Refuse(e)
Receive(e) == \E n \in 1 .. InWire(Peer(e)) : Read(e, n)
Kernel(e)  == \E n \in 1 .. Queued(e) : Hand(e, n)

Next ==
  \/ \E e \in End : \/ \E n \in Length : WriteText(e, n)
                    \/ Flush(e) \/ Receive(e) \/ DoMsg(e) \/ DecodeNoise(e)
                    \/ Kernel(e) \/ Lose(e)
  \/ CheckTime \/ Quit

Spec == Init /\ [][Next]_vars

(* The loops and the kernel keep running: what can be sent, read or        *)
(* handled is, a closing connection is dropped, a broken one is noticed.   *)
FairSpec ==
  /\ Spec
  /\ \A e \in End :
       /\ WF_vars(Flush(e)) /\ WF_vars(Kernel(e)) /\ WF_vars(Lose(e))
       /\ WF_vars(DoMsg(e)) /\ WF_vars(Receive(e))
  /\ WF_vars(state[Server] = "close" /\ CheckTime)
-----------------------------------------------------------------------------
Frame == [kind : {"hello", "text", "alone"}, start : Nat, size : Nat]

(* The positions are in order and every buffer within its size.            *)
TypeOK ==
  /\ state \in [End -> {"join", "run", "close", "gone"}]
  /\ {pushed, flushed, read, popped} \subseteq [End -> Nat]
  /\ frames \in [End -> Seq(Frame)]
  /\ got \in [End -> Seq(Nat)]
  /\ busy \in [End -> BOOLEAN]
  /\ \A e \in End :
       /\ popped[e] <= read[e] /\ Bytes(e) <= RecvSize[e]
       /\ read[Peer(e)] <= flushed[e] /\ InWire(e) <= Wire
       /\ flushed[e] <= pushed[e] /\ Queued(e) <= SendSize[e]

Whole(e, k) == \A i \in 1 .. k : i \in DOMAIN frames[e] => frames[e][i].kind # "alone"

(* As long as no header was left alone before them, frames are handled one *)
(* by one, each once and in the order they were written, however the       *)
(* kernel and the buffers cut them.                                        *)
InOrder ==
  \A e \in End : \A i \in DOMAIN got[e] : Whole(Peer(e), i) => got[e][i] = i

(* A receive buffer that is full holds a message, as it is not read into   *)
(* and nothing could complete one: frames that would not fit were refused. *)
FullHoldsMessage ==
  \A e \in End :
    /\ state[e] = "run" /\ Bytes(e) = RecvSize[e]
    /\ Whole(Peer(e), Len(frames[Peer(e)]))
    => HasMsg(e) \/ TooLong(e)

(* An end hears the other as long as that one writes nothing before its    *)
(* greeting, no header alone and no frame that is too long.                *)
Hears(e) ==
  \A k \in DOMAIN frames[Peer(e)] :
    LET f == frames[Peer(e)][k]
    IN /\ f.kind # "alone" /\ f.size <= RecvSize[e]
       /\ (f.kind = "hello") = (k = 1)

(* Both wait in send() for the other to read, with nothing left to end it. *)
HeldUp == \A e \in End : busy[e] /\ InWire(e) = Wire

(* While both hear each other every frame is handled, unless the           *)
(* connection ends or both ends hold each other up in send(): nothing else *)
(* makes a send wait for ever, and no part of a frame stays behind in a    *)
(* buffer.                                                                 *)
Talking == \A e \in End : Alive(e) /\ Hears(e)
Delivered ==
  \A e \in End : []<>(Len(got[Peer(e)]) >= Len(frames[e]) \/ ~Talking \/ HeldUp)

(* A client learns that the gate dropped it, so that it can connect again. *)
(* One that does not hear the gate may read nothing any more, as its full  *)
(* receive buffer is not read into: only a send() that fails tells it.     *)
LearnsOfEnd == ~Alive(Server) ~> (~Alive(Client) \/ ~Hears(Client))
=============================================================================
