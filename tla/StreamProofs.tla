---------------------------- MODULE StreamProofs ----------------------------
(***************************************************************************)
(* The safety of a connection, for all sizes of buffers, frames and        *)
(* kernel: positions stay in order and buffers within their size, frames   *)
(* are handled once and in order, a full receive buffer holds a message,   *)
(* and an end with a small send buffer is never held up.                   *)
(***************************************************************************)
EXTENDS Stream, SequenceTheorems, TLAPS

LEMMA PeerPeer ==
  ASSUME NEW e \in End
  PROVE  /\ Peer(e) \in End /\ Peer(Peer(e)) = e /\ Peer(e) # e
         /\ End = {e, Peer(e)}
BY EndAssumption DEF End, Peer

(* TypeOK in parts. *)
Types ==
  /\ state \in [End -> {"join", "run", "close", "gone"}]
  /\ pushed \in [End -> Nat] /\ flushed \in [End -> Nat]
  /\ read \in [End -> Nat] /\ popped \in [End -> Nat]
  /\ frames \in [End -> Seq(Frame)]
  /\ got \in [End -> Seq(Nat)]
  /\ busy \in [End -> BOOLEAN]

Positions ==
  \A e \in End :
    /\ popped[e] <= read[e] /\ read[e] - popped[e] <= RecvSize[e]
    /\ read[Peer(e)] <= flushed[e] /\ flushed[e] - read[Peer(e)] <= Wire
    /\ flushed[e] <= pushed[e] /\ pushed[e] - flushed[e] <= SendSize[e]

LEMMA TypesPositions == TypeOK <=> Types /\ Positions
BY DEF TypeOK, Types, Positions, Bytes, InWire, Queued

LEMMA InitTypes == Init => Types /\ Positions
<1>. SUFFICES ASSUME Init PROVE Types /\ Positions
  OBVIOUS
<1>1. \A e \in End : Hello(e) \in Frame
  BY SizeAssumption DEF Hello, Frame
<1>2. frames \in [End -> Seq(Frame)]
  BY <1>1 DEF Init
<1>3. Client \in End
  BY DEF End
<1>4. pushed \in [End -> Nat]
  BY SizeAssumption, <1>3 DEF Init
<1>5. Types
  BY <1>2, <1>4 DEF Init, Types
<1>6. Positions
  <2>. SUFFICES ASSUME NEW e \in End
                PROVE  pushed[e] <= SendSize[e]
    BY <1>4, PeerPeer, SizeAssumption DEF Init, Positions
  <2>1. SendSize[e] >= 0
    BY SizeAssumption
  <2>. QED  BY <2>1, SizeAssumption, <1>3 DEF Init
<1>. QED  BY <1>5, <1>6

(* What an end pushes. *)
LEMMA PushTypes ==
  ASSUME Types, NEW e \in End, NEW kind \in {"hello", "text", "alone"},
         NEW size \in Nat, NEW bytes \in Nat, Push(e, kind, size, bytes)
  PROVE  /\ frames' \in [End -> Seq(Frame)]
         /\ pushed' \in [End -> Nat]
         /\ pushed'[e] = pushed[e] + bytes
         /\ \A f \in End : f # e => pushed'[f] = pushed[f]
         /\ frames'[e] = Append(frames[e],
                                [kind |-> kind, start |-> pushed[e], size |-> size])
         /\ \A f \in End : f # e => frames'[f] = frames[f]
<1>1. [kind |-> kind, start |-> pushed[e], size |-> size] \in Frame
  BY DEF Types, Frame
<1>. QED  BY <1>1 DEF Push, Types

LEMMA PushRoom ==
  ASSUME Types, Positions, NEW e \in End, NEW kind \in {"hello", "text", "alone"},
         NEW size \in Nat, NEW bytes \in Nat, Push(e, kind, size, bytes),
         bytes <= Room(e)
  PROVE  \A f \in End :
           pushed'[f] - flushed[f] <= SendSize[f] /\ flushed[f] <= pushed'[f]
<1>1. pushed'[e] = pushed[e] + bytes /\ \A f \in End : f # e => pushed'[f] = pushed[f]
  BY PushTypes
<1>. SUFFICES ASSUME NEW f \in End
              PROVE  pushed'[f] - flushed[f] <= SendSize[f] /\ flushed[f] <= pushed'[f]
  OBVIOUS
<1>2. pushed[f] \in Nat /\ flushed[f] \in Nat /\ SendSize[f] \in Nat
  BY SizeAssumption DEF Types
<1>3. flushed[f] <= pushed[f] /\ pushed[f] - flushed[f] <= SendSize[f]
  BY DEF Positions
<1>4. CASE f = e
  BY <1>1, <1>2, <1>3, <1>4 DEF Room, Queued
<1>5. CASE f # e
  BY <1>1, <1>3, <1>5
<1>. QED  BY <1>4, <1>5

LEMMA FrontIsFrame ==
  ASSUME Types, NEW e \in End, AtFrame(e) # {}
  PROVE  /\ (CHOOSE k \in AtFrame(e) : TRUE) \in AtFrame(e)
         /\ Front(e) \in Frame /\ Front(e).size \in Nat
<1>1. PICK k \in AtFrame(e) : k = CHOOSE j \in AtFrame(e) : TRUE
  OBVIOUS
<1>2. k \in DOMAIN frames[Peer(e)]
  BY DEF AtFrame
<1>3. frames[Peer(e)] \in Seq(Frame)
  BY PeerPeer DEF Types
<1>4. frames[Peer(e)][k] \in Frame
  BY <1>2, <1>3
<1>5. Front(e) \in Frame
  BY <1>1, <1>4 DEF Front
<1>. QED  BY <1>1, <1>5 DEF Frame
(* Every step, sorted by what it does to the positions. *)
LEMMA WriteTypes ==
  ASSUME Types, Positions, NEW e \in End, NEW n \in Length, WriteText(e, n)
  PROVE  Types' /\ Positions'
<1>1. n \in Nat /\ Header[e] \in Nat /\ SendSize[e] \in Nat
  BY SizeAssumption
<1>2. PICK kind \in {"hello", "text", "alone"}, size \in Nat, bytes \in Nat :
        Push(e, kind, size, bytes) /\ bytes <= Room(e)
  <2>1. Header[e] + n \in Nat
    BY <1>1
  <2>. QED  BY <1>1, <2>1 DEF WriteText
<1>3. Types'
  BY <1>2, PushTypes DEF WriteText, Types
<1>4. \A f \in End : pushed'[f] - flushed[f] <= SendSize[f] /\ flushed[f] <= pushed'[f]
  BY <1>2, PushRoom
<1>5. Positions'
  BY <1>4 DEF WriteText, Positions
<1>. QED  BY <1>3, <1>5

LEMMA FlushTypes ==
  ASSUME Types, Positions, NEW e \in End, Flush(e)
  PROVE  Types' /\ Positions'
<1>1. busy' \in [End -> BOOLEAN]
  BY DEF Flush, Types
<1>. QED  BY <1>1 DEF Flush, Types, Positions

LEMMA HandTypes ==
  ASSUME Types, Positions, NEW e \in End, NEW n, Hand(e, n)
  PROVE  Types' /\ Positions'
<1>1. n \in Nat /\ n <= pushed[e] - flushed[e]
      /\ n <= Wire - (flushed[e] - read[Peer(e)])
  BY DEF Hand, Queued, InWire, Types
<1>2. /\ flushed' \in [End -> Nat] /\ flushed'[e] = flushed[e] + n
      /\ \A f \in End : f # e => flushed'[f] = flushed[f]
  BY <1>1 DEF Hand, Types
<1>3. busy' \in [End -> BOOLEAN]
  <2>1. PICK b \in BOOLEAN : busy' = [busy EXCEPT ![e] = b]
    <3>1. (n < Queued(e)) \in BOOLEAN
      OBVIOUS
    <3>. QED  BY <3>1, Zenon DEF Hand
  <2>. QED  BY <2>1 DEF Types
<1>4. Types'
  BY <1>2, <1>3 DEF Hand, Types
<1>5. ASSUME NEW f \in End
      PROVE  /\ read[Peer(f)] <= flushed'[f] /\ flushed'[f] - read[Peer(f)] <= Wire
             /\ flushed'[f] <= pushed[f] /\ pushed[f] - flushed'[f] <= SendSize[f]
  <2>1. Peer(f) \in End
    BY PeerPeer
  <2>2. read[Peer(f)] \in Nat /\ flushed[f] \in Nat /\ pushed[f] \in Nat
        /\ SendSize[f] \in Nat /\ Wire \in Nat
    BY <2>1, SizeAssumption DEF Types
  <2>. QED  BY <1>1, <1>2, <2>2 DEF Positions
<1>6. Positions'
  BY <1>5 DEF Hand, Positions
<1>. QED  BY <1>4, <1>6

LEMMA ReadTypes ==
  ASSUME Types, Positions, NEW e \in End, NEW n, Read(e, n)
  PROVE  Types' /\ Positions'
<1>1. n \in Nat /\ n <= flushed[Peer(e)] - read[e]
      /\ n <= RecvSize[e] - (read[e] - popped[e])
  BY PeerPeer DEF Read, InWire, Bytes, Types
<1>2. /\ read' \in [End -> Nat] /\ read'[e] = read[e] + n
      /\ \A f \in End : f # e => read'[f] = read[f]
  BY <1>1 DEF Read, Types
<1>4. Types'
  BY <1>2 DEF Read, Types
<1>5. ASSUME NEW f \in End
      PROVE  popped[f] <= read'[f] /\ read'[f] - popped[f] <= RecvSize[f]
  <2>2. read[f] \in Nat /\ popped[f] \in Nat /\ RecvSize[f] \in Nat
    BY SizeAssumption DEF Types
  <2>. QED  BY <1>1, <1>2, <2>2 DEF Positions
<1>6. ASSUME NEW f \in End
      PROVE  /\ read'[Peer(f)] <= flushed[f] /\ flushed[f] - read'[Peer(f)] <= Wire
  <2>1. Peer(f) \in End /\ Peer(Peer(f)) = f
    BY PeerPeer
  <2>2. read[Peer(f)] \in Nat /\ flushed[f] \in Nat /\ Wire \in Nat
    BY <2>1, SizeAssumption DEF Types
  <2>3. CASE Peer(f) = e
    BY <1>1, <1>2, <2>1, <2>2, <2>3 DEF Positions
  <2>4. CASE Peer(f) # e
    BY <1>2, <2>1, <2>2, <2>4 DEF Positions
  <2>. QED  BY <2>3, <2>4
<1>7. Positions'
  BY <1>5, <1>6 DEF Read, Positions
<1>. QED  BY <1>4, <1>7

(* A frame is removed that is there. *)
LEMMA HandleTypes ==
  ASSUME Types, Positions, NEW e \in End, NEW k \in Nat, NEW n \in Nat,
         n <= Bytes(e), Handle(e, k, n)
  PROVE  /\ got' \in [End -> Seq(Nat)]
         /\ popped' \in [End -> Nat] /\ popped'[e] = popped[e] + n
         /\ \A f \in End : f # e => popped'[f] = popped[f]
         /\ got'[e] = Append(got[e], k)
         /\ \A f \in End : f # e => got'[f] = got[f]
         /\ \A f \in End : popped'[f] <= read[f] /\ read[f] - popped'[f] <= RecvSize[f]
<1>1. /\ popped' \in [End -> Nat] /\ popped'[e] = popped[e] + n
      /\ \A f \in End : f # e => popped'[f] = popped[f]
  BY DEF Handle, Types
<1>2. /\ got' \in [End -> Seq(Nat)] /\ got'[e] = Append(got[e], k)
      /\ \A f \in End : f # e => got'[f] = got[f]
  BY DEF Handle, Types
<1>3. ASSUME NEW f \in End
      PROVE  popped'[f] <= read[f] /\ read[f] - popped'[f] <= RecvSize[f]
  <2>1. read[f] \in Nat /\ popped[f] \in Nat /\ RecvSize[f] \in Nat
    BY SizeAssumption DEF Types
  <2>. QED  BY <1>1, <2>1 DEF Positions, Bytes
<1>. QED  BY <1>1, <1>2, <1>3

(* hasMsg(): the frame in front is in the buffer. *)
LEMMA MsgIsThere ==
  ASSUME Types, NEW e \in End, HasMsg(e)
  PROVE  /\ Front(e).size \in Nat /\ Front(e).size <= Bytes(e)
         /\ (CHOOSE k \in AtFrame(e) : TRUE) \in Nat
         /\ AtFrame(e) # {}
<1>1. Front(e).size \in Nat /\ (CHOOSE k \in AtFrame(e) : TRUE) \in AtFrame(e)
  BY FrontIsFrame DEF HasMsg
<1>2. frames[Peer(e)] \in Seq(Frame)
  BY PeerPeer DEF Types
<1>3. AtFrame(e) \subseteq Nat
  BY <1>2 DEF AtFrame
<1>4. Bytes(e) \in Int
  BY DEF Bytes, Types
<1>. QED  BY <1>1, <1>3, <1>4 DEF HasMsg

LEMMA HandshakeTypes ==
  ASSUME Types, Positions, NEW e \in End, Handshake(e)
  PROVE  Types' /\ Positions'
<1>1. PICK k \in Nat, n \in Nat : n <= Bytes(e) /\ Handle(e, k, n)
  BY MsgIsThere DEF Handshake
<1>2. state' \in [End -> {"join", "run", "close", "gone"}]
  BY DEF Handshake, Types
<1>3. CASE e = Server /\ Greeting[e] <= Room(e)
  <2>1. Greeting[e] \in Nat
    BY SizeAssumption
  <2>2. Push(e, "hello", Greeting[e], Greeting[e])
    BY <1>3 DEF Handshake
  <2>3. \A f \in End : pushed'[f] - flushed[f] <= SendSize[f] /\ flushed[f] <= pushed'[f]
    BY <1>3, <2>1, <2>2, PushRoom
  <2>4. Types'
    BY <1>1, <1>2, <2>1, <2>2, PushTypes, HandleTypes DEF Types, Handle
  <2>5. Positions'
    BY <1>1, <2>3, HandleTypes DEF Positions, Handle
  <2>. QED  BY <2>4, <2>5
<1>4. CASE ~(e = Server /\ Greeting[e] <= Room(e))
  <2>1. UNCHANGED <<frames, pushed>>
    BY <1>4 DEF Handshake
  <2>2. Types'
    BY <1>1, <1>2, <2>1, HandleTypes DEF Types, Handle
  <2>3. Positions'
    BY <1>1, <2>1, HandleTypes DEF Positions, Handle
  <2>. QED  BY <2>2, <2>3
<1>. QED  BY <1>3, <1>4

LEMMA DecodeTypes ==
  ASSUME Types, Positions, NEW e \in End, Decode(e)
  PROVE  Types' /\ Positions'
<1>1. PICK k \in Nat, n \in Nat : n <= Bytes(e) /\ Handle(e, k, n)
  BY MsgIsThere DEF Decode
<1>2. Types'
  BY <1>1, HandleTypes DEF Decode, Types, Handle
<1>3. Positions'
  BY <1>1, HandleTypes DEF Decode, Positions, Handle
<1>. QED  BY <1>2, <1>3

LEMMA NoiseTypes ==
  ASSUME Types, Positions, NEW e \in End, DecodeNoise(e)
  PROVE  Types' /\ Positions'
<1>1. CASE \E n \in 1 .. Bytes(e) : Handle(e, 0, n) /\ UNCHANGED state
  <2>1. Bytes(e) \in Int
    BY DEF Bytes, Types
  <2>2. PICK n \in Nat : n <= Bytes(e) /\ Handle(e, 0, n)
    BY <1>1, <2>1
  <2>3. Types'
    BY <1>1, <2>2, HandleTypes DEF DecodeNoise, Types, Handle
  <2>4. Positions'
    BY <2>2, HandleTypes DEF DecodeNoise, Positions, Handle
  <2>. QED  BY <2>3, <2>4
<1>2. CASE /\ \E s \in {"close"} \cup (IF e = Client THEN {"gone"} ELSE {}) :
                state' = [state EXCEPT ![e] = s]
           /\ UNCHANGED <<got, popped, flushed, read, busy>>
  <2>1. state' \in [End -> {"join", "run", "close", "gone"}]
    BY <1>2 DEF Types
  <2>. QED  BY <1>2, <2>1 DEF DecodeNoise, Types, Positions
<1>. QED  BY <1>1, <1>2 DEF DecodeNoise

(* Only the state of an end changes. *)
LEMMA StateTypes ==
  ASSUME Types, Positions, NEW e \in End, NEW s \in {"close", "gone"},
         state' = [state EXCEPT ![e] = s],
         UNCHANGED <<pushed, flushed, read, popped, frames, got, busy>>
  PROVE  Types' /\ Positions'
<1>1. state' \in [End -> {"join", "run", "close", "gone"}]
  BY DEF Types
<1>. QED  BY <1>1 DEF Types, Positions

LEMMA ClosesState ==
  ASSUME NEW e \in End, Refuse(e) \/ Lose(e) \/ CheckTime \/ Quit
  PROVE  \E f \in End, s \in {"close", "gone"} :
           /\ state' = [state EXCEPT ![f] = s]
           /\ UNCHANGED <<pushed, flushed, read, popped, frames, got, busy>>
BY DEF Refuse, Lose, CheckTime, Quit, Leave, End

LEMMA NextTypes ==
  ASSUME Types, Positions, [Next]_vars
  PROVE  Types' /\ Positions'
<1>1. ASSUME NEW e \in End,
             \/ \E n \in Length : WriteText(e, n)
             \/ Flush(e) \/ Receive(e) \/ Handshake(e) \/ Decode(e)
             \/ DecodeNoise(e) \/ Kernel(e)
      PROVE  Types' /\ Positions'
  BY <1>1, WriteTypes, FlushTypes, ReadTypes, HandshakeTypes, DecodeTypes,
     NoiseTypes, HandTypes DEF Receive, Kernel
<1>2. ASSUME NEW e \in End, Refuse(e) \/ Lose(e) \/ CheckTime \/ Quit
      PROVE  Types' /\ Positions'
  BY <1>2, ClosesState, StateTypes
<1>3. CASE UNCHANGED vars
  BY <1>3 DEF vars, Types, Positions
<1>4. Client \in End
  BY DEF End
<1>. QED
  BY <1>1, <1>2, <1>3, <1>4 DEF Next, DoMsg

(* The positions are in order and every buffer is within its size. *)
THEOREM TypeCorrect == Spec => []TypeOK
<1>1. Types /\ Positions /\ [Next]_vars => (Types /\ Positions)'
  BY NextTypes
<1>2. Types /\ Positions => TypeOK
  BY TypesPositions
<1>. QED
  BY InitTypes, <1>1, <1>2, PTL DEF Spec

-----------------------------------------------------------------------------
(* An end whose send buffer is small is never held up: it enters send()    *)
(* only when all of it fits, and pushes nothing while it is in there.      *)
Fits ==
  \A e \in End :
    busy[e] /\ SendSize[e] <= Low =>
      /\ flushed[e] < pushed[e]
      /\ pushed[e] - flushed[e] <= Wire - (flushed[e] - read[Peer(e)])

LEMMA NextFits ==
  ASSUME Types, Positions, Fits, [Next]_vars
  PROVE  Fits'
<1>. USE SizeAssumption
<1>1. ASSUME NEW e \in End, NEW n \in Length, WriteText(e, n)
      PROVE  Fits'
  BY <1>1 DEF WriteText, MayWrite, Push, Fits, Types
<1>2. ASSUME NEW e \in End, Flush(e)
      PROVE  Fits'
  <2>1. /\ pushed[e] \in Nat /\ flushed[e] \in Nat /\ SendSize[e] \in Nat
        /\ read[Peer(e)] \in Nat
    BY PeerPeer DEF Types
  <2>2. SendSize[e] <= Low =>
          /\ flushed[e] < pushed[e]
          /\ pushed[e] - flushed[e] <= Wire - (flushed[e] - read[Peer(e)])
    BY <1>2, <2>1 DEF Flush, Queued, InWire, Positions
  <2>3. \A f \in End : f # e => busy'[f] = busy[f]
    BY <1>2 DEF Flush, Types
  <2>. QED  BY <1>2, <2>2, <2>3 DEF Flush, Fits
<1>3. ASSUME NEW e \in End, NEW n \in 1 .. Queued(e), Hand(e, n)
      PROVE  Fits'
  <2>1. /\ pushed[e] \in Nat /\ flushed[e] \in Nat /\ n \in Nat
        /\ read[Peer(e)] \in Nat
    BY PeerPeer DEF Queued, Types
  <2>2. flushed'[e] = flushed[e] + n /\ \A f \in End : f # e => flushed'[f] = flushed[f]
    BY <1>3, <2>1 DEF Hand, Types
  <2>3. busy'[e] => n < pushed[e] - flushed[e]
    <3>1. CASE busy' = [busy EXCEPT ![e] = n < Queued(e)]
      <4>1. busy'[e] = (n < Queued(e))
        BY <3>1, Zenon DEF Types
      <4>. QED  BY <4>1 DEF Queued
    <3>2. CASE busy' = [busy EXCEPT ![e] = FALSE]
      BY <3>2 DEF Types
    <3>. QED  BY <1>3, <3>1, <3>2 DEF Hand
  <2>4. \A f \in End : f # e => busy'[f] = busy[f]
    BY <1>3 DEF Hand, Types
  <2>5. busy[e] /\ SendSize[e] <= Low =>
          pushed[e] - flushed[e] <= Wire - (flushed[e] - read[Peer(e)])
    BY DEF Fits
  <2>6. busy'[e] /\ SendSize[e] <= Low =>
          /\ flushed'[e] < pushed[e]
          /\ pushed[e] - flushed'[e] <= Wire - (flushed'[e] - read[Peer(e)])
    BY <1>3, <2>1, <2>2, <2>3, <2>5 DEF Hand
  <2>7. \A f \in End : busy'[f] /\ SendSize[f] <= Low =>
          /\ flushed'[f] < pushed[f]
          /\ pushed[f] - flushed'[f] <= Wire - (flushed'[f] - read[Peer(f)])
    BY <2>2, <2>4, <2>6 DEF Fits
  <2>. QED  BY <1>3, <2>7 DEF Hand, Fits
<1>4. ASSUME NEW e \in End, NEW n \in 1 .. InWire(Peer(e)), Read(e, n)
      PROVE  Fits'
  <2>1. n \in Nat
    BY PeerPeer DEF InWire, Types
  <2>2. read'[e] = read[e] + n /\ \A f \in End : f # e => read'[f] = read[f]
    BY <1>4 DEF Read, Types
  <2>3. ASSUME NEW p \in End
        PROVE  read'[p] >= read[p] /\ read[p] \in Nat /\ read'[p] \in Nat
    <3>1. read[p] \in Nat
      BY DEF Types
    <3>2. CASE p = e
      BY <2>1, <2>2, <3>1, <3>2
    <3>3. CASE p # e
      <4>1. read'[p] = read[p]
        BY <2>2, <3>3
      <4>. QED  BY <3>1, <4>1
    <3>. QED  BY <3>2, <3>3
  <2>4. ASSUME NEW f \in End, busy[f], SendSize[f] <= Low
        PROVE  /\ flushed[f] < pushed[f]
               /\ pushed[f] - flushed[f] <= Wire - (flushed[f] - read'[Peer(f)])
    <3>1. PICK p \in End : p = Peer(f)
      BY PeerPeer
    <3>2. pushed[f] \in Nat /\ flushed[f] \in Nat /\ read'[p] >= read[p]
          /\ read[p] \in Nat /\ read'[p] \in Nat
      BY <2>3 DEF Types
    <3>3. flushed[f] < pushed[f]
          /\ pushed[f] - flushed[f] <= Wire - (flushed[f] - read[p])
      BY <2>4, <3>1 DEF Fits
    <3>. QED  BY <3>1, <3>2, <3>3
  <2>. QED  BY <1>4, <2>4 DEF Read, Fits
<1>5. ASSUME NEW e \in End, Handshake(e)
      PROVE  Fits'
  BY <1>5 DEF Handshake, Handle, Push, Fits, Types
<1>6. ASSUME NEW e \in End, Decode(e) \/ DecodeNoise(e)
      PROVE  Fits'
  BY <1>6 DEF Decode, DecodeNoise, Handle, Fits
<1>7. ASSUME NEW e \in End, Refuse(e) \/ Lose(e) \/ CheckTime \/ Quit
      PROVE  Fits'
  BY <1>7, ClosesState DEF Fits
<1>8. CASE UNCHANGED vars
  BY <1>8 DEF vars, Fits
<1>9. Client \in End
  BY DEF End
<1>. QED
  BY <1>1, <1>2, <1>3, <1>4, <1>5, <1>6, <1>7, <1>8, <1>9
     DEF Next, DoMsg, Receive, Kernel

(* An end whose send buffer is not larger than the room EPOLLOUT announces *)
(* is never held up in send(): of two ends that both send, one that has    *)
(* such a buffer goes on to read.                                          *)
Blocked(e) == Alive(e) /\ busy[e] /\ InWire(e) = Wire
SmallNeverHeldUp == \A e \in End : SendSize[e] <= Low => ~Blocked(e)

(* SmallNeverHeldUp, for buffers of every size. *)
THEOREM SmallBuffersNeverHeldUp == Spec => []SmallNeverHeldUp
<1>1. Init => Fits
  BY DEF Init, Fits
<1>2. Types /\ Positions /\ Fits /\ [Next]_vars => (Types /\ Positions /\ Fits)'
  BY NextTypes, NextFits
<1>3. Types /\ Fits => SmallNeverHeldUp
  <2>. SUFFICES ASSUME Types, Fits, NEW e \in End, SendSize[e] <= Low, busy[e]
                PROVE  flushed[e] - read[Peer(e)] # Wire
    BY DEF SmallNeverHeldUp, Blocked, InWire
  <2>1. Wire \in Nat /\ read[Peer(e)] \in Nat
    BY SizeAssumption, PeerPeer DEF Types
  <2>. QED  BY <2>1 DEF Fits, Types
<1>. QED
  BY InitTypes, <1>1, <1>2, <1>3, PTL DEF Spec

-----------------------------------------------------------------------------
(* Where frames lie.  After is the position behind frame k: where the next *)
(* one begins, or will begin.                                              *)
After(e, k) == IF k < Len(frames[e]) THEN frames[e][k + 1].start ELSE pushed[e]

Layout(e) ==
  /\ After(e, 0) = 0
  /\ \A k \in DOMAIN frames[e] :
       /\ frames[e][k].start < After(e, k)
       /\ frames[e][k].start < pushed[e]
       /\ frames[e][k].kind # "alone" =>
            After(e, k) = frames[e][k].start + frames[e][k].size
       /\ \A j \in DOMAIN frames[e] : j < k => frames[e][j].start < frames[e][k].start

(* What an end removed: the frames up to the last it handled, as long as   *)
(* they were whole.                                                        *)
Follows(e) ==
  Whole(Peer(e), Len(got[e])) =>
    /\ Len(got[e]) <= Len(frames[Peer(e)])
    /\ popped[e] = After(Peer(e), Len(got[e]))

Ordered(e) ==
  \A i \in DOMAIN got[e] : Whole(Peer(e), i) => got[e][i] = i

LEMMA FrameTypes ==
  ASSUME Types, NEW e \in End
  PROVE  /\ Len(frames[e]) \in Nat /\ DOMAIN frames[e] = 1 .. Len(frames[e])
         /\ \A k \in DOMAIN frames[e] :
              /\ frames[e][k] \in Frame
              /\ frames[e][k].start \in Nat /\ frames[e][k].size \in Nat
<1>1. frames[e] \in Seq(Frame)
  BY DEF Types
<1>2. \A k \in DOMAIN frames[e] : frames[e][k] \in Frame
  BY <1>1
<1>. QED  BY <1>1, <1>2 DEF Frame

LEMMA PushLayout ==
  ASSUME Types, NEW e \in End, NEW kind \in {"hello", "text", "alone"},
         NEW size \in Nat, NEW bytes \in Nat \ {0}, Push(e, kind, size, bytes),
         kind # "alone" => bytes = size, Layout(e)
  PROVE  /\ Layout(e)'
         /\ \A k \in 0 .. Len(frames[e]) : After(e, k)' = After(e, k)
         /\ Len(frames[e]) <= Len(frames'[e])
         /\ \A k \in Nat : Whole(e, k)' => Whole(e, k)
<1>. DEFINE new == [kind |-> kind, start |-> pushed[e], size |-> size]
<1>1. PICK len \in Nat : len = Len(frames[e]) /\ DOMAIN frames[e] = 1 .. len
  BY FrameTypes
<1>2. /\ frames'[e] = Append(frames[e], new)
      /\ pushed'[e] = pushed[e] + bytes /\ pushed[e] \in Nat
  BY PushTypes DEF Types
<1>3. new.start = pushed[e] /\ new.size = size /\ new.kind = kind
  OBVIOUS
<1>4. /\ DOMAIN frames'[e] = 1 .. len + 1 /\ Len(frames'[e]) = len + 1
      /\ \A k \in 1 .. len : frames'[e][k] = frames[e][k]
      /\ frames'[e][len + 1] = new
  BY <1>1, <1>2 DEF Types
<1>. HIDE DEF new
<1>5. \A k \in 0 .. len : After(e, k)' = After(e, k)
  <2>. SUFFICES ASSUME NEW k \in 0 .. len
                PROVE  After(e, k)' = After(e, k)
    OBVIOUS
  <2>1. CASE k < len
    BY <1>1, <1>4, <2>1 DEF After
  <2>2. CASE k = len
    BY <1>1, <1>3, <1>4, <2>2 DEF After
  <2>. QED  BY <1>1, <2>1, <2>2
<1>6. After(e, len + 1)' = pushed[e] + bytes
  BY <1>1, <1>2, <1>4 DEF After
<1>7. \A k \in 1 .. len : frames[e][k].start \in Nat
  BY <1>1, FrameTypes
<1>8. \A k \in 1 .. len :
        /\ frames[e][k].start < After(e, k)
        /\ frames[e][k].start < pushed[e]
        /\ frames[e][k].kind # "alone" =>
             After(e, k) = frames[e][k].start + frames[e][k].size
        /\ \A j \in 1 .. len : j < k => frames[e][j].start < frames[e][k].start
  BY <1>1 DEF Layout
<1>9. ASSUME NEW k \in 1 .. len + 1
      PROVE  /\ frames'[e][k].start < After(e, k)'
             /\ frames'[e][k].start < pushed'[e]
             /\ frames'[e][k].kind # "alone" =>
                  After(e, k)' = frames'[e][k].start + frames'[e][k].size
             /\ \A j \in 1 .. len + 1 :
                  j < k => frames'[e][j].start < frames'[e][k].start
  <2>1. CASE k = len + 1
    <3>1. \A j \in 1 .. len + 1 : j < k => j \in 1 .. len
      BY <1>1, <2>1
    <3>. QED  BY <1>2, <1>3, <1>4, <1>6, <1>8, <2>1, <3>1
  <2>2. CASE k \in 1 .. len
    <3>1. \A j \in 1 .. len + 1 : j < k => j \in 1 .. len
      BY <1>1, <2>2
    <3>2. k \in 0 .. len
      BY <2>2
    <3>3. After(e, k)' = After(e, k)
      BY <1>5, <3>2
    <3>4. frames'[e][k] = frames[e][k] /\ \A j \in 1 .. len : frames'[e][j] = frames[e][j]
      BY <1>4, <2>2
    <3>5. pushed[e] < pushed'[e]
      BY <1>2
    <3>6. frames[e][k].start < pushed[e] /\ frames[e][k].start \in Nat
      BY <1>7, <1>8, <2>2
    <3>7. frames'[e][k].start < pushed'[e]
      BY <1>2, <3>4, <3>5, <3>6
    <3>8. \A j \in 1 .. len + 1 :
            j < k => frames'[e][j].start < frames'[e][k].start
      BY <1>8, <2>2, <3>1, <3>4
    <3>. QED  BY <1>8, <2>2, <3>3, <3>4, <3>7, <3>8
  <2>. QED  BY <1>1, <2>1, <2>2
<1>10. After(e, 0)' = 0
  BY <1>1, <1>5 DEF Layout
<1>11. Layout(e)'
  BY <1>4, <1>9, <1>10 DEF Layout
<1>12. \A k \in Nat : Whole(e, k)' => Whole(e, k)
  BY <1>1, <1>4 DEF Whole
<1>. QED  BY <1>1, <1>4, <1>5, <1>11, <1>12

(* The frame in front is the one after the last that was handled. *)
LEMMA NextInFront ==
  ASSUME Types, NEW e \in End, Layout(Peer(e)), Follows(e),
         Whole(Peer(e), Len(got[e]))
  PROVE  /\ Len(got[e]) \in Nat
         /\ AtFrame(e) \subseteq {Len(got[e]) + 1}
         /\ Len(got[e]) < Len(frames[Peer(e)]) => AtFrame(e) = {Len(got[e]) + 1}
         /\ AtFrame(e) = {} => popped[e] = pushed[Peer(e)]
<1>1. PICK p \in End : p = Peer(e)
  BY PeerPeer
<1>2. PICK g \in Nat : g = Len(got[e])
  BY DEF Types
<1>3. PICK len \in Nat : len = Len(frames[p]) /\ DOMAIN frames[p] = 1 .. len
  BY FrameTypes
<1>4. g <= len /\ popped[e] = After(p, g)
  BY <1>1, <1>2, <1>3 DEF Follows
<1>5. \A k \in 1 .. len : frames[p][k].start \in Nat /\ frames[p][k].start < pushed[p]
  BY <1>1, <1>3, FrameTypes DEF Layout
<1>6. \A j, k \in 1 .. len : j < k => frames[p][j].start < frames[p][k].start
  BY <1>1, <1>3 DEF Layout
<1>7. AtFrame(e) = {k \in 1 .. len : frames[p][k].start = popped[e]}
  BY <1>1, <1>3 DEF AtFrame
<1>8. CASE g < len
  <2>1. popped[e] = frames[p][g + 1].start /\ g + 1 \in 1 .. len
    BY <1>3, <1>4, <1>8 DEF After
  <2>2. \A k \in 1 .. len : frames[p][k].start = popped[e] => k = g + 1
    <3>. SUFFICES ASSUME NEW k \in 1 .. len, frames[p][k].start = popped[e], k # g + 1
                  PROVE  FALSE
      OBVIOUS
    <3>1. k < g + 1 \/ g + 1 < k
      OBVIOUS
    <3>. QED  BY <1>5, <1>6, <2>1, <3>1
  <2>. QED  BY <1>1, <1>2, <1>3, <1>7, <1>8, <2>1, <2>2
<1>9. CASE g = len
  <2>1. popped[e] = pushed[p]
    BY <1>3, <1>4, <1>9 DEF After
  <2>2. AtFrame(e) = {}
    BY <1>5, <1>7, <2>1 DEF Types
  <2>. QED  BY <1>1, <1>2, <1>3, <1>9, <2>1, <2>2
<1>. QED  BY <1>4, <1>8, <1>9

Number(e) == IF Front(e).kind = "alone" THEN 0 ELSE CHOOSE k \in AtFrame(e) : TRUE

(* A message is handled: it is the next one, or frames were not whole.     *)
LEMMA HandleOrder ==
  ASSUME Types, Positions, NEW e \in End, HasMsg(e), Layout(Peer(e)),
         Follows(e), Ordered(e), Handle(e, Number(e), Front(e).size),
         frames'[Peer(e)] = frames[Peer(e)], pushed'[Peer(e)] = pushed[Peer(e)]
  PROVE  Follows(e)' /\ Ordered(e)'
<1>1. PICK p \in End : p = Peer(e)
  BY PeerPeer
<1>2. PICK g \in Nat : g = Len(got[e])
  BY DEF Types
<1>3. PICK n \in Nat : n = Front(e).size /\ n <= Bytes(e)
  BY MsgIsThere
<1>4. PICK number \in Nat : number = Number(e)
  BY MsgIsThere DEF Number
<1>5. Handle(e, number, n)
  BY <1>3, <1>4
<1>6. /\ got'[e] = Append(got[e], number) /\ popped'[e] = popped[e] + n
      /\ got[e] \in Seq(Nat)
  BY <1>3, <1>5, HandleTypes DEF Types
<1>7. /\ Len(got'[e]) = g + 1 /\ DOMAIN got'[e] = 1 .. g + 1 /\ DOMAIN got[e] = 1 .. g
      /\ got'[e][g + 1] = number /\ \A i \in 1 .. g : got'[e][i] = got[e][i]
  BY <1>2, <1>6
<1>8. \A k : Whole(p, k)' <=> Whole(p, k)
  BY <1>1 DEF Whole
<1>9. \A k : After(p, k)' = After(p, k)
  BY <1>1 DEF After
<1>10. CASE Whole(p, g)
  <2>1. AtFrame(e) = {g + 1}
    BY <1>1, <1>2, <1>10, NextInFront DEF HasMsg
  <2>2. (CHOOSE k \in AtFrame(e) : TRUE) = g + 1
    BY <2>1
  <2>3. /\ g + 1 \in DOMAIN frames[p] /\ frames[p][g + 1].start = popped[e]
        /\ Front(e) = frames[p][g + 1]
    <3>1. g + 1 \in AtFrame(e)
      BY <2>1
    <3>. QED  BY <1>1, <2>2, <3>1 DEF AtFrame, Front
  <2>4. CASE frames[p][g + 1].kind # "alone"
    <3>1. number = g + 1
      BY <1>4, <2>2, <2>3, <2>4 DEF Number
    <3>2. Ordered(e)'
      BY <1>1, <1>7, <1>8, <3>1 DEF Ordered
    <3>3. After(p, g + 1) = popped[e] + n
      BY <1>1, <1>3, <2>3, <2>4 DEF Layout
    <3>4. g + 1 <= Len(frames'[p])
      BY <1>1, <2>3, FrameTypes
    <3>5. Follows(e)'
      BY <1>1, <1>6, <1>7, <1>9, <3>3, <3>4 DEF Follows
    <3>. QED  BY <3>2, <3>5
  <2>5. CASE frames[p][g + 1].kind = "alone"
    <3>1. ~Whole(p, g + 1)
      BY <2>3, <2>5 DEF Whole
    <3>. QED  BY <1>1, <1>7, <1>8, <3>1 DEF Follows, Ordered
  <2>. QED  BY <2>4, <2>5
<1>11. CASE ~Whole(p, g)
  <2>1. ~Whole(p, g + 1)
    BY <1>11 DEF Whole
  <2>. QED  BY <1>1, <1>7, <1>8, <2>1 DEF Follows, Ordered
<1>. QED  BY <1>10, <1>11

(* Noise comes only behind a header that was alone.                        *)
LEMMA NoNoise ==
  ASSUME Types, Positions, NEW e \in End, Noise(e), Layout(Peer(e)), Follows(e)
  PROVE  ~Whole(Peer(e), Len(got[e]))
<1>. SUFFICES ASSUME Whole(Peer(e), Len(got[e]))
              PROVE  FALSE
  OBVIOUS
<1>1. PICK p \in End : p = Peer(e) /\ Peer(p) = e
  BY PeerPeer
<1>2. popped[e] = pushed[p]
  BY <1>1, NextInFront DEF Noise
<1>3. read[e] <= flushed[p] /\ flushed[p] <= pushed[p]
  BY <1>1 DEF Positions
<1>. QED  BY <1>2, <1>3 DEF Noise, Bytes, Types

LEMMA NoiseOrder ==
  ASSUME Types, Positions, NEW e \in End, NEW n \in 1 .. Bytes(e), Noise(e),
         Layout(Peer(e)), Follows(e), Ordered(e), Handle(e, 0, n),
         frames'[Peer(e)] = frames[Peer(e)]
  PROVE  Follows(e)' /\ Ordered(e)'
<1>1. ~Whole(Peer(e), Len(got[e]))
  BY NoNoise
<1>2. PICK p \in End : p = Peer(e)
  BY PeerPeer
<1>3. PICK g \in Nat : g = Len(got[e])
  BY DEF Types
<1>4. got'[e] = Append(got[e], 0) /\ got[e] \in Seq(Nat)
  BY DEF Handle, Types
<1>5. /\ Len(got'[e]) = g + 1 /\ DOMAIN got'[e] = 1 .. g + 1 /\ DOMAIN got[e] = 1 .. g
      /\ \A i \in 1 .. g : got'[e][i] = got[e][i]
  BY <1>3, <1>4
<1>6. \A k : Whole(p, k)' <=> Whole(p, k)
  BY <1>2 DEF Whole
<1>7. ~Whole(p, g + 1)
  BY <1>1, <1>2, <1>3 DEF Whole
<1>. QED  BY <1>2, <1>5, <1>6, <1>7 DEF Follows, Ordered

(* The other end pushed a frame. *)
LEMMA PushOrder ==
  ASSUME Types, NEW e \in End, NEW kind \in {"hello", "text", "alone"},
         NEW size \in Nat, NEW bytes \in Nat \ {0},
         Push(Peer(e), kind, size, bytes), kind # "alone" => bytes = size,
         Layout(Peer(e)), Follows(e), Ordered(e),
         got'[e] = got[e], popped'[e] = popped[e]
  PROVE  Follows(e)' /\ Ordered(e)'
<1>1. PICK p \in End : p = Peer(e)
  BY PeerPeer
<1>2. PICK g \in Nat : g = Len(got[e])
  BY DEF Types
<1>3. /\ \A k \in 0 .. Len(frames[p]) : After(p, k)' = After(p, k)
      /\ Len(frames[p]) <= Len(frames'[p])
      /\ \A k \in Nat : Whole(p, k)' => Whole(p, k)
  BY <1>1, PushLayout
<1>4. Ordered(e)'
  <2>1. got[e] \in Seq(Nat)
    BY DEF Types
  <2>2. DOMAIN got[e] = 1 .. Len(got[e]) /\ Len(got[e]) \in Nat
    BY <2>1
  <2>3. DOMAIN got[e] \subseteq Nat
    BY <2>2
  <2>. QED  BY <1>1, <1>3, <2>3 DEF Ordered
<1>5. Follows(e)'
  <2>. SUFFICES ASSUME Whole(p, g)'
                PROVE  g <= Len(frames'[p]) /\ popped[e] = After(p, g)'
    BY <1>1, <1>2 DEF Follows
  <2>1. g <= Len(frames[p]) /\ popped[e] = After(p, g)
    BY <1>1, <1>2, <1>3 DEF Follows
  <2>2. Len(frames[p]) \in Nat /\ Len(frames'[p]) \in Nat
    BY <1>1, PushTypes, FrameTypes
  <2>. QED  BY <1>3, <2>1, <2>2
<1>. QED  BY <1>4, <1>5

LEMMA SameLayout ==
  ASSUME NEW e \in End, Layout(e), frames'[e] = frames[e], pushed'[e] = pushed[e]
  PROVE  Layout(e)'
<1>1. \A k : After(e, k)' = After(e, k)
  BY DEF After
<1>. QED  BY <1>1 DEF Layout

LEMMA SameOrder ==
  ASSUME NEW e \in End, Follows(e), Ordered(e),
         got'[e] = got[e], popped'[e] = popped[e],
         frames'[Peer(e)] = frames[Peer(e)], pushed'[Peer(e)] = pushed[Peer(e)]
  PROVE  Follows(e)' /\ Ordered(e)'
<1>1. PICK p : p = Peer(e)
  OBVIOUS
<1>2. \A k : After(p, k)' = After(p, k) /\ (Whole(p, k)' <=> Whole(p, k))
  BY <1>1 DEF After, Whole
<1>. QED  BY <1>1, <1>2 DEF Follows, Ordered

Order == \A e \in End : Layout(e) /\ Follows(e) /\ Ordered(e)

LEMMA InitOrder == Init => Order
<1>. SUFFICES ASSUME Init, NEW e \in End
              PROVE  Layout(e) /\ Follows(e) /\ Ordered(e)
  BY DEF Order
<1>1. Greeting[Client] \in Nat \ {0} /\ Client \in End
  BY SizeAssumption DEF End
<1>2. Len(got[e]) = 0 /\ DOMAIN got[e] = {} /\ popped[e] = 0
  BY DEF Init
<1>3. ASSUME NEW f \in End
      PROVE  Layout(f)
  <2>1. CASE f = Client
    <3>1. Len(frames[f]) = 1 /\ DOMAIN frames[f] = {1} /\ frames[f][1] = Hello(f)
      BY <2>1 DEF Init
    <3>2. Hello(f).start = 0 /\ Hello(f).size = Greeting[f]
      BY DEF Hello
    <3>3. pushed[f] = Greeting[f]
      BY <2>1 DEF Init
    <3>4. After(f, 0) = 0 /\ After(f, 1) = Greeting[f]
      BY <3>1, <3>2, <3>3 DEF After
    <3>. QED  BY <1>1, <2>1, <3>1, <3>2, <3>3, <3>4 DEF Layout
  <2>2. CASE f # Client
    <3>1. frames[f] = <<>> /\ pushed[f] = 0
      BY <2>2 DEF Init
    <3>2. Len(frames[f]) = 0 /\ DOMAIN frames[f] = {}
      BY <3>1
    <3>3. After(f, 0) = 0
      BY <3>1, <3>2 DEF After
    <3>. QED  BY <3>2, <3>3 DEF Layout
  <2>. QED  BY <2>1, <2>2
<1>4. Follows(e)
  <2>1. PICK p \in End : p = Peer(e)
    BY PeerPeer
  <2>2. After(p, 0) = 0 /\ Len(frames[p]) \in Nat
    BY <1>3, InitTypes, FrameTypes DEF Layout
  <2>. QED  BY <1>2, <2>1, <2>2 DEF Follows
<1>. QED  BY <1>2, <1>3, <1>4 DEF Ordered

(* The step of an end that pushes, and perhaps handles, a frame. *)
LEMMA PushNext ==
  ASSUME Types, Order, NEW e \in End, NEW kind \in {"hello", "text", "alone"},
         NEW size \in Nat, NEW bytes \in Nat \ {0}, Push(e, kind, size, bytes),
         kind # "alone" => bytes = size,
         got'[Peer(e)] = got[Peer(e)], popped'[Peer(e)] = popped[Peer(e)],
         Follows(e)' /\ Ordered(e)'
  PROVE  Order'
<1>1. PICK p \in End : p = Peer(e) /\ Peer(p) = e /\ p # e /\ End = {e, p}
  BY PeerPeer
<1>2. Layout(e) /\ Layout(p) /\ Follows(p) /\ Ordered(p)
  BY <1>1 DEF Order
<1>3. Layout(e)'
  BY <1>2, PushLayout
<1>4. frames'[p] = frames[p] /\ pushed'[p] = pushed[p]
  BY <1>1, PushTypes
<1>5. Layout(p)'
  BY <1>2, <1>4, SameLayout
<1>6. Follows(p)' /\ Ordered(p)'
  BY <1>1, <1>2, PushOrder
<1>7. \A f \in End : (Layout(f) /\ Follows(f) /\ Ordered(f))'
  BY <1>1, <1>3, <1>5, <1>6
<1>. QED  BY <1>7 DEF Order

(* The step of an end that handles a frame and pushes none. *)
LEMMA HandleNext ==
  ASSUME Order, NEW e \in End, UNCHANGED <<frames, pushed>>,
         got'[Peer(e)] = got[Peer(e)], popped'[Peer(e)] = popped[Peer(e)],
         Follows(e)' /\ Ordered(e)'
  PROVE  Order'
<1>1. PICK p \in End : p = Peer(e) /\ End = {e, p}
  BY PeerPeer
<1>2. Layout(e) /\ Layout(p) /\ Follows(p) /\ Ordered(p)
  BY <1>1 DEF Order
<1>3. Layout(e)' /\ Layout(p)'
  BY <1>2, SameLayout
<1>4. Follows(p)' /\ Ordered(p)'
  BY <1>1, <1>2, SameOrder
<1>5. \A f \in End : (Layout(f) /\ Follows(f) /\ Ordered(f))'
  BY <1>1, <1>3, <1>4
<1>. QED  BY <1>5 DEF Order

LEMMA NextOrder ==
  ASSUME Types, Positions, Order, [Next]_vars
  PROVE  Order'
<1>1. ASSUME NEW e \in End, NEW n \in Length, WriteText(e, n)
      PROVE  Order'
  <2>1. PICK bytes \in Nat \ {0}, size \in Nat, kind \in {"hello", "text", "alone"} :
          Push(e, kind, size, bytes) /\ (kind # "alone" => bytes = size)
    <3>1. Header[e] \in Nat \ {0} /\ Header[e] + n \in Nat \ {0}
      BY SizeAssumption
    <3>. QED  BY <1>1, <3>1 DEF WriteText
  <2>2. \A f \in End : got'[f] = got[f] /\ popped'[f] = popped[f]
    BY <1>1 DEF WriteText
  <2>3. PICK p \in End : p = Peer(e) /\ p # e
    BY PeerPeer
  <2>4. frames'[p] = frames[p] /\ pushed'[p] = pushed[p]
    BY <2>1, <2>3, PushTypes
  <2>5. Follows(e)' /\ Ordered(e)'
    BY <2>2, <2>3, <2>4, SameOrder DEF Order
  <2>. QED  BY <2>1, <2>2, <2>3, <2>5, PushNext
<1>2. ASSUME NEW e \in End, Handshake(e)
      PROVE  Order'
  <2>1. Front(e).kind = "hello" /\ HasMsg(e)
    BY <1>2 DEF Handshake, HasMsg
  <2>2. Handle(e, Number(e), Front(e).size)
    BY <1>2, <2>1 DEF Handshake, Number
  <2>3. PICK p \in End : p = Peer(e) /\ p # e
    BY PeerPeer
  <2>4. got'[p] = got[p] /\ popped'[p] = popped[p]
    BY <2>2, <2>3 DEF Handle, Types
  <2>5. Layout(p) /\ Follows(e) /\ Ordered(e)
    BY DEF Order
  <2>6. CASE e = Server /\ Greeting[e] <= Room(e)
    <3>1. Push(e, "hello", Greeting[e], Greeting[e]) /\ Greeting[e] \in Nat \ {0}
      BY <1>2, <2>6, SizeAssumption DEF Handshake
    <3>2. frames'[p] = frames[p] /\ pushed'[p] = pushed[p]
      BY <2>3, <3>1, PushTypes
    <3>3. Follows(e)' /\ Ordered(e)'
      BY <2>1, <2>2, <2>3, <2>5, <3>2, HandleOrder
    <3>. QED  BY <2>3, <2>4, <3>1, <3>3, PushNext
  <2>7. CASE ~(e = Server /\ Greeting[e] <= Room(e))
    <3>1. UNCHANGED <<frames, pushed>>
      BY <1>2, <2>7 DEF Handshake
    <3>2. Follows(e)' /\ Ordered(e)'
      BY <2>1, <2>2, <2>3, <2>5, <3>1, HandleOrder
    <3>. QED  BY <2>3, <2>4, <3>1, <3>2, HandleNext
  <2>. QED  BY <2>6, <2>7
<1>3. ASSUME NEW e \in End, Decode(e)
      PROVE  Order'
  <2>1. HasMsg(e) /\ Handle(e, Number(e), Front(e).size) /\ UNCHANGED <<frames, pushed>>
    BY <1>3 DEF Decode, Number
  <2>2. PICK p \in End : p = Peer(e) /\ p # e
    BY PeerPeer
  <2>3. got'[p] = got[p] /\ popped'[p] = popped[p]
    BY <2>1, <2>2 DEF Handle, Types
  <2>4. Follows(e)' /\ Ordered(e)'
    BY <2>1, <2>2, HandleOrder DEF Order
  <2>. QED  BY <2>1, <2>2, <2>3, <2>4, HandleNext
<1>4. ASSUME NEW e \in End, NEW n \in 1 .. Bytes(e), DecodeNoise(e), Handle(e, 0, n)
      PROVE  Order'
  <2>1. Noise(e) /\ UNCHANGED <<frames, pushed>>
    BY <1>4 DEF DecodeNoise
  <2>2. PICK p \in End : p = Peer(e) /\ p # e
    BY PeerPeer
  <2>3. got'[p] = got[p] /\ popped'[p] = popped[p]
    BY <1>4, <2>2 DEF Handle, Types
  <2>4. Follows(e)' /\ Ordered(e)'
    BY <1>4, <2>1, <2>2, NoiseOrder DEF Order
  <2>. QED  BY <2>1, <2>2, <2>3, <2>4, HandleNext
<1>5. CASE UNCHANGED <<frames, pushed, got, popped>>
  <2>1. \A e \in End : (Layout(e) /\ Follows(e) /\ Ordered(e))'
    BY <1>5, SameLayout, SameOrder DEF Order
  <2>. QED  BY <2>1 DEF Order
<1>6. ASSUME NEW e \in End, DecodeNoise(e)
      PROVE  Order'
  BY <1>4, <1>5, <1>6 DEF DecodeNoise
<1>7. ASSUME NEW e \in End,
             \/ Flush(e) \/ Receive(e) \/ Kernel(e) \/ Refuse(e) \/ Lose(e)
             \/ CheckTime \/ Quit
      PROVE  UNCHANGED <<frames, pushed, got, popped>>
  BY <1>7 DEF Flush, Receive, Read, Kernel, Hand, Refuse, Lose, CheckTime, Quit, Leave
<1>8. Client \in End
  BY DEF End
<1>9. UNCHANGED vars => UNCHANGED <<frames, pushed, got, popped>>
  BY DEF vars
<1>. QED
  BY <1>1, <1>2, <1>3, <1>5, <1>6, <1>7, <1>8, <1>9 DEF Next, DoMsg

LEMMA OrderAlways == Spec => [](Types /\ Positions /\ Order)
<1>1. Types /\ Positions /\ Order /\ [Next]_vars => (Types /\ Positions /\ Order)'
  BY NextTypes, NextOrder
<1>. QED
  BY InitTypes, InitOrder, <1>1, PTL DEF Spec

(* InOrder, for buffers and frames of every size. *)
THEOREM FramesInOrder == Spec => []InOrder
<1>1. Order => InOrder
  BY DEF Order, Ordered, InOrder
<1>. QED
  BY OrderAlways, <1>1, PTL

(* FullHoldsMessage, for buffers and frames of every size. *)
THEOREM FullBuffersHoldMessages == Spec => []FullHoldsMessage
<1>1. Types /\ Positions /\ Order => FullHoldsMessage
  <2>. SUFFICES ASSUME Types, Positions, Order, NEW e \in End, state[e] = "run",
                       Bytes(e) = RecvSize[e],
                       Whole(Peer(e), Len(frames[Peer(e)])),
                       ~TooLong(e)
                PROVE  HasMsg(e)
    BY DEF FullHoldsMessage
  <2>1. PICK p \in End : p = Peer(e) /\ Peer(p) = e
    BY PeerPeer
  <2>2. Layout(p) /\ Follows(e)
    BY <2>1 DEF Order
  <2>3. Header[p] \in Nat \ {0} /\ RecvSize[e] \in Nat /\ Header[p] <= RecvSize[e]
    BY <2>1, SizeAssumption
  <2>4. Whole(p, Len(got[e]))
    BY <2>1, FrameTypes DEF Whole
  <2>5. AtFrame(e) # {}
    <3>. SUFFICES ASSUME AtFrame(e) = {} PROVE FALSE
      OBVIOUS
    <3>1. popped[e] = pushed[p]
      BY <2>1, <2>2, <2>4, NextInFront
    <3>2. read[e] <= flushed[p] /\ flushed[p] <= pushed[p]
      BY <2>1 DEF Positions
    <3>3. pushed[p] \in Nat /\ flushed[p] \in Nat /\ read[e] \in Nat
      BY DEF Types
    <3>4. read[e] - popped[e] = RecvSize[e] /\ RecvSize[e] > 0
      BY <2>3 DEF Bytes
    <3>. QED  BY <3>1, <3>2, <3>3, <3>4
  <2>6. Front(e).size \in Nat
    BY <2>5, FrontIsFrame
  <2>7. Front(e).size <= RecvSize[e]
    BY <2>1, <2>3, <2>5, <2>6 DEF TooLong
  <2>. QED  BY <2>5, <2>7 DEF HasMsg
<1>. QED
  BY OrderAlways, <1>1, PTL
=============================================================================
