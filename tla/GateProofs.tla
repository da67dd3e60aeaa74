------------------------------ MODULE GateProofs ------------------------------
(***************************************************************************)
(* Theorems about the gate, for any number of connections, descriptors,    *)
(* groups and apis.                                                        *)
(***************************************************************************)
EXTENDS Gate, SequenceTheorems, TLAPS

Injective(s) == \A i, j \in DOMAIN s : s[i] = s[j] => i = j

(* Erasing an object from a vector without repetitions leaves the others,  *)
(* each still once, and not the object.                                    *)
LEMMA EraseSeq ==
  ASSUME NEW S, NEW s \in Seq(S), NEW c, Injective(s)
  PROVE  /\ Erase(s, c) \in Seq(S)
         /\ Injective(Erase(s, c))
         /\ \A i \in DOMAIN Erase(s, c) :
              /\ Erase(s, c)[i] # c
              /\ \E j \in DOMAIN s : Erase(s, c)[i] = s[j]
<1>1. CASE ~ \E i \in DOMAIN s : s[i] = c
  BY <1>1 DEF Erase
<1>2. CASE \E i \in DOMAIN s : s[i] = c
  <2> DEFINE at == CHOOSE i \in DOMAIN s : s[i] = c
             t  == [j \in 1 .. (Len(s) - 1) |-> IF j < at THEN s[j] ELSE s[j + 1]]
  <2>1. /\ at \in DOMAIN s
        /\ s[at] = c
    BY <1>2
  <2>2. /\ Len(s) \in Nat
        /\ DOMAIN s = 1 .. Len(s)
        /\ \A i \in 1 .. Len(s) : s[i] \in S
    BY LenProperties, ElementOfSeq
  <2> HIDE DEF at
  <2>3. Len(s) - 1 \in Nat
    BY <2>1, <2>2
  <2>4. t \in [1 .. (Len(s) - 1) -> S]
    BY <2>1, <2>2
  <2>5. t \in Seq(S)
    BY <2>3, <2>4, SeqDef
  <2>6. DOMAIN t = 1 .. (Len(s) - 1)
    OBVIOUS
  <2>7. \A i \in DOMAIN t : t[i] # c /\ \E j \in DOMAIN s : t[i] = s[j]
    BY <2>1, <2>2, <2>6 DEF Injective
  <2>8. Injective(t)
    BY <2>1, <2>2, <2>6 DEF Injective
  <2>9. Erase(s, c) = t
    BY <1>2 DEF Erase, at
  <2> QED
    BY <2>5, <2>7, <2>8, <2>9
<1> QED
  BY <1>1, <1>2

(* Including an object keeps a vector free of repetitions. *)
LEMMA IncludeSeq ==
  ASSUME NEW S, NEW s \in Seq(S), NEW c \in S, Injective(s)
  PROVE  /\ Include(s, c) \in Seq(S)
         /\ Injective(Include(s, c))
         /\ \A i \in DOMAIN Include(s, c) :
              Include(s, c)[i] = c \/ \E j \in DOMAIN s : Include(s, c)[i] = s[j]
<1>1. CASE \E i \in DOMAIN s : s[i] = c
  BY <1>1 DEF Include
<1>2. CASE ~ \E i \in DOMAIN s : s[i] = c
  <2>1. /\ Len(s) \in Nat
        /\ DOMAIN s = 1 .. Len(s)
        /\ Append(s, c) \in Seq(S)
        /\ DOMAIN Append(s, c) = 1 .. (Len(s) + 1)
        /\ \A i \in 1 .. Len(s) : Append(s, c)[i] = s[i]
        /\ Append(s, c)[Len(s) + 1] = c
    BY LenProperties, AppendProperties
  <2>2. Injective(Append(s, c))
    BY <1>2, <2>1 DEF Injective
  <2> QED
    BY <1>2, <2>1, <2>2 DEF Include
<1> QED
  BY <1>1, <1>2

-----------------------------------------------------------------------------
(***************************************************************************)
(* The listener table.  TableInv is inductive: ListenersLive needs         *)
(* ListenersUnique, since one erase() must remove every pointer to the     *)
(* object that leaves.                                                     *)
(***************************************************************************)
TableType ==
  /\ ssLink \subseteq Conn
  /\ fdOf \in [Conn -> Fd \cup {NoFd}]
  /\ listeners \in [Key -> Seq(Conn)]

TableInv ==
  /\ TableType
  /\ ListenersLive
  /\ ListenersUnique

LEMMA TableInit == Init => TableInv
  BY FdAssumption DEF Init, TableInv, TableType, ListenersLive, ListenersUnique,
     Live, Key

(* A step that leaves the table, the sockets and the service links alone.  *)
LEMMA TableSame ==
  ASSUME TableInv, UNCHANGED <<fdOf, ssLink, listeners>>
  PROVE  TableInv'
<1>1. TableType'
  BY DEF TableInv, TableType
<1>2. ListenersLive'
  BY DEF TableInv, ListenersLive, Live
<1>3. ListenersUnique'
  BY DEF TableInv, ListenersUnique
<1> QED
  BY <1>1, <1>2, <1>3 DEF TableInv

LEMMA TableJoin ==
  ASSUME TableInv, NEW c \in Conn, NEW f \in Fd, Join(c, f),
         \A k \in Key : \A i \in DOMAIN listeners[k] : listeners[k][i] \in Conn
  PROVE  TableInv'
<1> USE DEF TableInv, TableType, Live
<1>1. fdOf' = [fdOf EXCEPT ![c] = f] /\ UNCHANGED <<ssLink, listeners>>
  BY DEF Join, table
<1>2. TableType'
  BY <1>1
<1>3. ListenersLive'
  BY <1>1, FdAssumption DEF ListenersLive
<1>5. ListenersUnique'
  BY <1>1 DEF ListenersUnique
<1> QED
  BY <1>2, <1>3, <1>5

LEMMA TableReg ==
  ASSUME TableInv, NEW c \in Conn, RegApi(c)
  PROVE  TableInv'
<1> DEFINE m     == Front(c)
           gpid  == IF m.group = NoGroup THEN DefaultGroup ELSE m.group
           new   == {gpid} \X m.apis
           added == [k \in Key |-> IF k \in new THEN Include(listeners[k], c)
                                                ELSE listeners[k]]
<1>1. /\ c \in Live
      /\ UNCHANGED fdOf
      /\ \/ ssLink' = ssLink \cup {c} /\ listeners' = added
         \/ ssLink' = ssLink \cup {c} /\ listeners' = listeners
         \/ ssLink' = ssLink /\ listeners' = listeners
  BY DEF RegApi, Takes
<1>2. CASE listeners' = listeners
  <2>1. TableType'
    BY <1>1, <1>2 DEF TableInv, TableType, Live
  <2>2. ListenersLive'
    BY <1>1, <1>2 DEF TableInv, ListenersLive, Live
  <2>3. ListenersUnique'
    BY <1>2 DEF TableInv, ListenersUnique
  <2> QED
    BY <2>1, <2>2, <2>3 DEF TableInv
<1>3. CASE ssLink' = ssLink \cup {c} /\ listeners' = added
  <2>1. ASSUME NEW k \in Key
        PROVE  /\ added[k] \in Seq(Conn)
               /\ Injective(added[k])
               /\ \A i \in DOMAIN added[k] :
                    added[k][i] = c \/ \E j \in DOMAIN listeners[k] :
                                         added[k][i] = listeners[k][j]
    <3>1. listeners[k] \in Seq(Conn) /\ Injective(listeners[k])
      BY DEF TableInv, TableType, ListenersUnique, Injective
    <3>2. added[k] = IF k \in new THEN Include(listeners[k], c) ELSE listeners[k]
      BY <2>1
    <3> HIDE DEF new, added
    <3> QED
      BY <3>1, <3>2, IncludeSeq
  <2> HIDE DEF added
  <2>3. added \in [Key -> Seq(Conn)]
    BY <2>1 DEF added
  <2>4. TableType'
    BY <1>1, <1>3, <2>3 DEF TableInv, TableType
  <2>5. ListenersLive'
    BY <1>1, <1>3, <2>1 DEF TableInv, ListenersLive, Live
  <2>6. ListenersUnique'
    BY <1>3, <2>1 DEF ListenersUnique, Injective
  <2> QED
    BY <2>4, <2>5, <2>6 DEF TableInv
<1> QED
  BY <1>1, <1>2, <1>3

LEMMA TableLeave ==
  ASSUME TableInv, NEW c \in Conn, Leave(c)
  PROVE  TableInv'
<1> DEFINE gone == [k \in Key |-> IF c \in ssLink THEN Erase(listeners[k], c)
                                                ELSE listeners[k]]
<1>1. /\ c \in Live
      /\ fdOf' = [fdOf EXCEPT ![c] = NoFd]
      /\ listeners' = gone
      /\ UNCHANGED ssLink
  BY DEF Leave
<1>2. ASSUME NEW k \in Key
      PROVE  /\ gone[k] \in Seq(Conn)
             /\ Injective(gone[k])
             /\ \A i \in DOMAIN gone[k] :
                  /\ gone[k][i] # c
                  /\ \E j \in DOMAIN listeners[k] : gone[k][i] = listeners[k][j]
  <2>1. listeners[k] \in Seq(Conn) /\ Injective(listeners[k])
    BY DEF TableInv, TableType, ListenersUnique, Injective
  <2>2. gone[k] = IF c \in ssLink THEN Erase(listeners[k], c) ELSE listeners[k]
    BY <1>2
  <2> HIDE DEF gone
  <2>3. CASE c \in ssLink
    BY <2>1, <2>2, <2>3, EraseSeq
  <2>4. CASE c \notin ssLink
    BY <2>1, <2>2, <2>4 DEF TableInv, ListenersLive
  <2> QED
    BY <2>3, <2>4
<1>3. gone \in [Key -> Seq(Conn)]
  BY <1>2
<1> HIDE DEF gone
<1>4. TableType'
  BY <1>1, <1>3 DEF TableInv, TableType
<1>5. ListenersLive'
  <2> SUFFICES ASSUME NEW k \in Key, NEW i \in DOMAIN gone[k]
               PROVE  gone[k][i] \in Conn /\ fdOf'[gone[k][i]] # NoFd
                      /\ gone[k][i] \in ssLink
    BY <1>1 DEF ListenersLive, Live
  <2> QED
    BY <1>1, <1>2 DEF TableInv, TableType, ListenersLive, Live
<1>6. ListenersUnique'
  BY <1>1, <1>2 DEF ListenersUnique, Injective
<1> QED
  BY <1>4, <1>5, <1>6 DEF TableInv

LEMMA TableStep == TableInv /\ [Next]_vars => TableInv'
<1> SUFFICES ASSUME TableInv, [Next]_vars
             PROVE  TableInv'
  OBVIOUS
<1>1. ASSUME NEW c \in Conn, NEW f \in Fd, Join(c, f)
      PROVE  TableInv'
  <2>1. \A k \in Key : \A i \in DOMAIN listeners[k] : listeners[k][i] \in Conn
    BY DEF TableInv, ListenersLive, Live
  <2> QED
    BY <1>1, <2>1, TableJoin
<1>2. ASSUME NEW c \in Conn, Handle(c)
      PROVE  TableInv'
  <2>1. CASE RegApi(c)
    BY <2>1, TableReg
  <2>2. CASE Heart(c) \/ Request(c) \/ Reply(c) \/ PushMany(c) \/ Broadcast(c)
    BY <2>2, TableSame DEF Heart, Request, Reply, PushMany, Broadcast, table, links
  <2> QED
    BY <1>2, <2>1, <2>2 DEF Handle
<1>3. ASSUME NEW c \in Conn, Leave(c)
      PROVE  TableInv'
  BY <1>3, TableLeave
<1>4. ASSUME NEW c \in Conn, PeerRecv(c) \/ \E m \in Input : PeerSend(c, m)
      PROVE  TableInv'
  BY <1>4, TableSame DEF PeerRecv, PeerSend, table, links
<1>5. CASE UNCHANGED vars
  BY <1>5, TableSame DEF vars
<1> QED
  BY <1>1, <1>2, <1>3, <1>4, <1>5 DEF Next

THEOREM TableSafe == Spec => []TableInv
  BY TableInit, TableStep, PTL DEF Spec

(* No request is ever written to an object that was deleted: whatever      *)
(* services register, fail and reconnect, and in any order.                *)
THEOREM NoDanglingListener == Spec => []ListenersLive
  BY TableSafe, PTL DEF TableInv

(* A service is in the vector of an api at most once. *)
THEOREM NoDoubleListener == Spec => []ListenersUnique
  BY TableSafe, PTL DEF TableInv

-----------------------------------------------------------------------------
(***************************************************************************)
(* Round robin.  In the order of the vector the listeners that had their   *)
(* turn in the current round are a cyclic window that ends before the next *)
(* position: from b up to p, or around the end of the vector.              *)
(***************************************************************************)
Window(t, n, p, b) ==
  \A j \in 1 .. n :
    t[j] = IF \/ b <= p /\ b <= j /\ j < p
              \/ p < b /\ (b <= j \/ j < p)
           THEN 1 ELSE 0

Succ(p, n) == IF p = n THEN 1 ELSE p + 1

(* Serving position p grows the window by p, or completes the round. *)
LEMMA WindowStep ==
  ASSUME NEW n \in Nat \ {0}, NEW p \in 1 .. n, NEW b \in 1 .. n,
         NEW t \in [1 .. n -> Nat], Window(t, n, p, b),
         NEW u \in [1 .. n -> Nat],
         \A j \in 1 .. n : u[j] = IF j = p THEN t[j] + 1 ELSE t[j]
  PROVE  /\ (\A j \in 1 .. n : u[j] > 0) => \A j \in 1 .. n : u[j] = 1
         /\ (\E j \in 1 .. n : u[j] = 0) => Window(u, n, Succ(p, n), b)
<1>1. \A j \in 1 .. n : t[j] \in {0, 1}
  BY DEF Window
<1>2. t[p] = 0
  BY DEF Window
<1>3. ASSUME \E j \in 1 .. n : u[j] = 0
      PROVE  Window(u, n, Succ(p, n), b)
  <2>1. CASE b <= p /\ p < n
    BY <2>1, <1>2 DEF Window, Succ
  <2>2. CASE b <= p /\ p = n
    BY <2>2, <1>2, <1>3 DEF Window, Succ
  <2>3. CASE p < b
    BY <2>3, <1>2, <1>3 DEF Window, Succ
  <2> QED
    BY <2>1, <2>2, <2>3
<1> QED
  BY <1>1, <1>2, <1>3

(* The turns of key k in the order of its vector. *)
View(k) == [j \in 1 .. Len(listeners[k]) |-> turns[k][listeners[k][j]]]

Fair(k) ==
  listeners[k] # <<>> =>
    \E b \in 1 .. Len(listeners[k]) :
      Window(View(k), Len(listeners[k]), GetPos(k), b)

TurnType == index \in [Key -> Nat] /\ turns \in [Key -> [Conn -> Nat]]

RoundInv == TurnType /\ \A k \in Key : Fair(k)

LEMMA PosInRange ==
  ASSUME TableInv, TurnType, NEW k \in Key, listeners[k] # <<>>
  PROVE  /\ Len(listeners[k]) \in Nat \ {0}
         /\ GetPos(k) \in 1 .. Len(listeners[k])
<1>1. listeners[k] \in Seq(Conn) /\ index[k] \in Nat
  BY DEF TableInv, TableType, TurnType
<1>2. Len(listeners[k]) \in Nat \ {0}
  BY <1>1, EmptySeq
<1> QED
  BY <1>1, <1>2 DEF GetPos

(* get() moves index to the next position. *)
LEMMA NextPos ==
  ASSUME TableInv, TurnType, NEW k \in Key, listeners[k] # <<>>,
         listeners' = listeners, index'[k] = GetIndex(k)
  PROVE  GetPos(k)' = Succ(GetPos(k), Len(listeners[k]))
<1>1. /\ Len(listeners[k]) \in Nat \ {0}
      /\ GetPos(k) \in 1 .. Len(listeners[k])
  BY PosInRange
<1>2. CASE Len(listeners[k]) = 1
  BY <1>1, <1>2 DEF GetPos, Succ
<1>3. CASE Len(listeners[k]) # 1
  <2>1. index'[k] = GetPos(k)
    BY <1>3 DEF GetIndex
  <2>2. GetPos(k)' = IF GetPos(k) >= Len(listeners[k]) THEN 1 ELSE GetPos(k) + 1
    BY <1>3, <2>1 DEF GetPos
  <2> QED
    BY <1>1, <2>2 DEF Succ
<1> QED
  BY <1>2, <1>3

LEMMA TurnFair ==
  ASSUME TableInv, TurnType, NEW k \in Key, Fair(k), listeners[k] # <<>>,
         listeners' = listeners,
         index' = [index EXCEPT ![k] = GetIndex(k)],
         turns' = [turns EXCEPT ![k] = Turn(k, listeners[k][GetPos(k)])]
  PROVE  TurnType' /\ Fair(k)'
<1> DEFINE n == Len(listeners[k])
           p == GetPos(k)
           s == listeners[k][p]
           t == [turns[k] EXCEPT ![s] = @ + 1]
           u == [j \in 1 .. n |-> t[listeners[k][j]]]
<1>1. n \in Nat \ {0} /\ p \in 1 .. n
  BY PosInRange
<1>2. \A j \in 1 .. n : listeners[k][j] \in Conn
  BY ElementOfSeq DEF TableInv, TableType
<1>3. turns[k] \in [Conn -> Nat] /\ t \in [Conn -> Nat] /\ s \in Conn
  BY <1>1, <1>2 DEF TurnType
<1>4. View(k) \in [1 .. n -> Nat] /\ u \in [1 .. n -> Nat]
  BY <1>2, <1>3 DEF View
<1>5. \A j \in 1 .. n : u[j] = IF j = p THEN View(k)[j] + 1 ELSE View(k)[j]
  <2>1. DOMAIN listeners[k] = 1 .. n
    BY LenProperties DEF TableInv, TableType
  <2>2. \A j \in 1 .. n : listeners[k][j] = s => j = p
    BY <1>1, <2>1 DEF TableInv, ListenersUnique
  <2> QED
    BY <1>1, <1>2, <1>3, <2>2 DEF View
<1>6. PICK b \in 1 .. n : Window(View(k), n, p, b)
  BY DEF Fair
<1>7. /\ (\A j \in 1 .. n : u[j] > 0) => \A j \in 1 .. n : u[j] = 1
      /\ (\E j \in 1 .. n : u[j] = 0) => Window(u, n, Succ(p, n), b)
  <2> HIDE DEF n, p, u
  <2> QED
    BY <1>1, <1>4, <1>5, <1>6, WindowStep
<1>8. ServiceSet(k) = {listeners[k][j] : j \in 1 .. n}
  BY LenProperties DEF TableInv, TableType, ServiceSet
<1>9. /\ turns'[k] = Turn(k, s)
      /\ index'[k] = GetIndex(k)
      /\ GetPos(k)' = Succ(p, n)
  BY NextPos DEF TurnType
<1>10. Succ(p, n) \in 1 .. n
  BY <1>1 DEF Succ
<1>11. CASE \A d \in ServiceSet(k) : t[d] > 0
  <2>1. \A j \in 1 .. n : u[j] = 1
    BY <1>7, <1>8, <1>11
  <2>2. Turn(k, s) = [d \in Conn |-> IF d \in ServiceSet(k) THEN t[d] - 1 ELSE 0]
    BY <1>11 DEF Turn
  <2>3. \A d \in ServiceSet(k) : t[d] = 1
    BY <1>8, <2>1
  <2>4. Turn(k, s) = NoTurns
    BY <2>2, <2>3 DEF NoTurns
  <2>5. TurnType'
    BY <1>9, <2>4 DEF TurnType, NoTurns, GetIndex, GetPos
  <2>6. \A j \in 1 .. n : View(k)'[j] = 0
    BY <1>2, <1>9, <2>4 DEF View, NoTurns
  <2>7. Window(View(k)', n, Succ(p, n), Succ(p, n))
    BY <1>10, <2>6 DEF Window
  <2> QED
    BY <1>9, <1>10, <2>5, <2>7 DEF Fair
<1>12. CASE ~ \A d \in ServiceSet(k) : t[d] > 0
  <2>1. \E j \in 1 .. n : u[j] = 0
    BY <1>4, <1>8, <1>12
  <2>2. Turn(k, s) = t
    BY <1>12 DEF Turn
  <2>3. TurnType'
    BY <1>3, <1>9, <2>2 DEF TurnType, GetIndex, GetPos
  <2>4. View(k)' = u
    BY <1>9, <2>2 DEF View
  <2> QED
    BY <1>7, <1>9, <2>1, <2>3, <2>4 DEF Fair
<1> QED
  BY <1>11, <1>12

(* A key whose vector, index and turns do not change stays fair; a key     *)
(* whose vector changes starts afresh, wherever its index points.          *)
LEMMA KeepFair ==
  ASSUME TableInv', TurnType', NEW k \in Key, Fair(k), index'[k] = index[k],
         turns'[k] = Restart(listeners', k)
  PROVE  Fair(k)'
<1>1. CASE listeners'[k] = listeners[k]
  BY <1>1 DEF Restart, Fair, View, GetPos
<1>2. CASE listeners'[k] # listeners[k]
  <2> SUFFICES ASSUME listeners'[k] # <<>>
               PROVE  /\ GetPos(k)' \in 1 .. Len(listeners'[k])
                      /\ Window(View(k)', Len(listeners'[k]), GetPos(k)', GetPos(k)')
    BY DEF Fair
  <2>1. listeners'[k] \in Seq(Conn) /\ index'[k] \in Nat
    BY DEF TableInv, TableType, TurnType
  <2>2. Len(listeners'[k]) \in Nat \ {0}
    BY <2>1, EmptySeq
  <2>3. GetPos(k)' \in 1 .. Len(listeners'[k])
    BY <2>1, <2>2 DEF GetPos
  <2>4. turns'[k] = NoTurns
    BY <1>2 DEF Restart
  <2>5. \A j \in 1 .. Len(listeners'[k]) : listeners'[k][j] \in Conn
    BY <2>1, ElementOfSeq
  <2>6. \A j \in 1 .. Len(listeners'[k]) : View(k)'[j] = 0
    BY <2>4, <2>5 DEF View, NoTurns
  <2> QED
    BY <2>3, <2>6 DEF Window
<1> QED
  BY <1>1, <1>2

LEMMA RoundInit == Init => RoundInv
<1> SUFFICES ASSUME Init
             PROVE  RoundInv
  OBVIOUS
<1>1. TurnType
  BY DEF Init, TurnType, NoTurns
<1>2. \A k \in Key : listeners[k] = <<>>
  BY DEF Init
<1> QED
  BY <1>1, <1>2 DEF RoundInv, Fair

LEMMA RoundStep == TableInv /\ TableInv' /\ RoundInv /\ [Next]_vars => RoundInv'
<1> SUFFICES ASSUME TableInv, TableInv', RoundInv, [Next]_vars
             PROVE  RoundInv'
  OBVIOUS
<1> USE DEF RoundInv
<1>1. ASSUME index' = index,
             \A k \in Key : turns'[k] = Restart(listeners', k),
             DOMAIN turns' = Key, turns' = [k \in Key |-> turns'[k]]
      PROVE  RoundInv'
  <2>1. \A k \in Key : turns'[k] \in [Conn -> Nat]
    BY <1>1 DEF Restart, NoTurns, TurnType
  <2>2. TurnType'
    BY <1>1, <2>1 DEF TurnType
  <2>3. \A k \in Key : Fair(k)'
    BY <1>1, <2>2, KeepFair
  <2> QED
    BY <2>2, <2>3
<1>2. ASSUME UNCHANGED <<listeners, index, turns>>
      PROVE  RoundInv'
  BY <1>2 DEF Fair, View, GetPos, TurnType
<1>3. ASSUME NEW c \in Conn, RegApi(c) \/ Leave(c)
      PROVE  RoundInv'
  <2>1. CASE UNCHANGED <<listeners, index, turns>>
    BY <2>1, <1>2
  <2>2. CASE turns' = [k \in Key |-> Restart(listeners', k)] /\ index' = index
    BY <2>2, <1>1
  <2> QED
    BY <1>3, <2>1, <2>2 DEF RegApi, Leave
<1>4. ASSUME NEW c \in Conn, Request(c)
      PROVE  RoundInv'
  <2>1. /\ listeners' = listeners
        /\ (\E k, m : Transfer(c, k, m)) \/ UNCHANGED <<index, turns>>
    BY <1>4 DEF Request
  <2>2. CASE UNCHANGED <<index, turns>>
    BY <2>1, <2>2, <1>2
  <2>3. ASSUME NEW k, NEW m, Transfer(c, k, m)
        PROVE  RoundInv'
    <3>1. CASE UNCHANGED <<index, turns>>
      BY <2>1, <3>1, <1>2
    <3>2. CASE /\ listeners[k] # <<>>
               /\ index' = [index EXCEPT ![k] = GetIndex(k)]
               /\ turns' = [turns EXCEPT ![k] = Turn(k, listeners[k][GetPos(k)])]
      <4>1. CASE k \in Key
        <5>1. TurnType' /\ Fair(k)'
          BY <2>1, <3>2, <4>1, TurnFair
        <5>2. ASSUME NEW l \in Key, l # k
              PROVE  Fair(l)'
          <6>1. index'[l] = index[l] /\ turns'[l] = turns[l]
            BY <3>2, <5>2 DEF TurnType
          <6> QED
            BY <2>1, <6>1 DEF Fair, View, GetPos
        <5> QED
          BY <5>1, <5>2
      <4>2. CASE k \notin Key
        <5>1. index' = index
          BY <3>2, <4>2 DEF TurnType
        <5>2. turns' = turns
          BY <3>2, <4>2 DEF TurnType
        <5> QED
          BY <2>1, <5>1, <5>2, <1>2
      <4> QED
        BY <4>1, <4>2
    <3> QED
      BY <2>3, <3>1, <3>2 DEF Transfer
  <2> QED
    BY <2>1, <2>2, <2>3
<1>5. ASSUME NEW c \in Conn,
             \/ Heart(c) \/ Reply(c) \/ PushMany(c) \/ Broadcast(c) \/ PeerRecv(c)
             \/ \E f \in Fd : Join(c, f)
             \/ \E m \in Input : PeerSend(c, m)
      PROVE  RoundInv'
  <2>1. UNCHANGED <<listeners, index, turns>>
    BY <1>5 DEF Heart, Reply, PushMany, Broadcast, PeerRecv, Join, PeerSend, table
  <2> QED
    BY <2>1, <1>2
<1>6. CASE UNCHANGED vars
  BY <1>6, <1>2 DEF vars
<1> QED
  BY <1>3, <1>4, <1>5, <1>6 DEF Next, Handle

(* The gate deals the requests of an api to its services in turn, however  *)
(* many services there are and whichever of them come and go.              *)
THEOREM RoundRobinFair == Spec => []RoundRobin
<1>1. TableInv /\ RoundInv => RoundRobin
  <2> SUFFICES ASSUME TableInv, RoundInv, NEW k \in Key,
                      NEW i \in DOMAIN listeners[k], NEW j \in DOMAIN listeners[k]
               PROVE  turns[k][listeners[k][i]] <= turns[k][listeners[k][j]] + 1
    BY DEF RoundRobin, ServiceSet
  <2>1. listeners[k] \in Seq(Conn)
    BY DEF TableInv, TableType
  <2>2. listeners[k] # <<>> /\ DOMAIN listeners[k] = 1 .. Len(listeners[k])
    BY <2>1, LenProperties, EmptySeq
  <2>3. PICK b \in 1 .. Len(listeners[k]) :
          Window(View(k), Len(listeners[k]), GetPos(k), b)
    BY <2>2 DEF RoundInv, Fair
  <2>4. View(k)[i] \in {0, 1} /\ View(k)[j] \in {0, 1}
    BY <2>2, <2>3 DEF Window
  <2> QED
    BY <2>2, <2>4 DEF View
<1> QED
  BY TableSafe, TableInit, TableStep, RoundInit, RoundStep, <1>1, PTL DEF Spec

-----------------------------------------------------------------------------
(***************************************************************************)
(* Types.  The gate only ever writes messages of the protocol, and takes   *)
(* apart only what the peers' messages let it.                             *)
(***************************************************************************)
LEMMA WriteType ==
  ASSUME NEW q \in Seq(Msg), NEW m \in Msg
  PROVE  Write(q, m) \in Seq(Msg)
  BY AppendProperties DEF Write

LEMMA RespondType ==
  ASSUME NEW q \in [Conn -> Seq(Msg)], NEW c \in Conn, NEW m,
         m.msgId \in MsgId, NEW st \in State
  PROVE  Respond(q, c, m, st) \in [Conn -> Seq(Msg)]
<1>1. Response(m, st) \in Msg
  BY DataAssumption DEF Response, Msg, RespMsg, NoCid, ClientId
<1>2. Write(q[c], Response(m, st)) \in Seq(Msg)
  BY <1>1, WriteType
<1> QED
  BY <1>2 DEF Respond

LEMMA FrontType ==
  ASSUME TypeOK, NEW c \in Conn, NEW T, Takes(c, T)
  PROVE  /\ Front(c) \in Msg
         /\ Front(c).type \in T
         /\ c \in Live
         /\ inq' \in [Conn -> Seq(Msg)]
<1>1. inq[c] \in Seq(Msg) /\ inq[c] # <<>>
  BY DEF TypeOK, Takes
<1>2. Head(inq[c]) \in Msg /\ Tail(inq[c]) \in Seq(Msg)
  BY <1>1, HeadTailProperties
<1> QED
  BY <1>2 DEF TypeOK, Takes, Front

LEMMA TypeInit == Init => TypeOK
<1> SUFFICES ASSUME Init
             PROVE  TypeOK
  OBVIOUS
<1>1. <<>> \in Seq(Conn) /\ <<>> \in Seq(Msg)
  BY EmptySeq
<1> QED
  BY <1>1 DEF Init, TypeOK, NoTurns

LEMMA TypeReg ==
  ASSUME TypeOK, NEW c \in Conn, RegApi(c)
  PROVE  /\ ssLink' \subseteq Conn /\ ccLink' \subseteq Conn
         /\ defined' \subseteq Key
         /\ inq' \in [Conn -> Seq(Msg)] /\ outq' \in [Conn -> Seq(Msg)]
         /\ UNCHANGED <<used, fdOf, index>>
<1> DEFINE m    == Front(c)
           gpid == IF m.group = NoGroup THEN DefaultGroup ELSE m.group
<1>1. Takes(c, {"reg"})
  BY DEF RegApi
<1>2. m \in Msg /\ m.type = "reg" /\ inq' \in [Conn -> Seq(Msg)]
  BY <1>1, FrontType
<1>3. m \in RegMsg
  BY <1>2 DEF Msg, ReqMsg, RegMsg, HeartMsg, RespMsg, PushMsg, PushSMsg, CastMsg
<1>4. m.msgId \in MsgId /\ m.apis \subseteq Cmd /\ gpid \in Group
  BY <1>3, GroupAssumption DEF RegMsg
<1>5. {gpid} \X m.apis \subseteq Key
  BY <1>4 DEF Key
<1>6. outq' = Respond(outq, c, m, "ok") \/ outq' = Respond(outq, c, m, "error")
  BY DEF RegApi
<1>7. outq' \in [Conn -> Seq(Msg)]
  <2>1. outq \in [Conn -> Seq(Msg)]
    BY DEF TypeOK
  <2>2. "ok" \in State /\ "error" \in State
    BY DEF State
  <2> HIDE DEF m
  <2>3. /\ Respond(outq, c, m, "ok") \in [Conn -> Seq(Msg)]
        /\ Respond(outq, c, m, "error") \in [Conn -> Seq(Msg)]
    BY <1>4, <2>1, <2>2, RespondType
  <2> QED
    BY <1>6, <2>3
<1>8. ssLink' \subseteq Conn /\ ccLink' \subseteq Conn
  BY DEF RegApi, MarkCc, TypeOK
<1>9. defined' \subseteq Key
  BY <1>5 DEF RegApi, TypeOK
<1> QED
  BY <1>2, <1>7, <1>8, <1>9 DEF RegApi

LEMMA TypeRequest ==
  ASSUME TypeOK, TableInv, NEW c \in Conn, Request(c)
  PROVE  /\ ccLink' \subseteq Conn
         /\ inq' \in [Conn -> Seq(Msg)] /\ outq' \in [Conn -> Seq(Msg)]
         /\ UNCHANGED <<used, fdOf, ssLink, listeners, defined>>
<1> DEFINE m    == Front(c)
           id   == IF m.cid = NoCid THEN fdOf[c] ELSE SetLinkId(fdOf[c], m.cid)
           fwd  == [m EXCEPT !.cid = id]
           open == c \in MarkCc(c, m) \cup ssLink
           key  == <<IF open THEN m.group ELSE DefaultGroup, m.cmd>>
<1>1. Takes(c, {"req"})
  BY DEF Request
<1>2. m \in Msg /\ m.type = "req" /\ c \in Live /\ inq' \in [Conn -> Seq(Msg)]
  BY <1>1, FrontType
<1>3. m \in ReqMsg
  BY <1>2 DEF Msg, ReqMsg, RegMsg, HeartMsg, RespMsg, PushMsg, PushSMsg, CastMsg
<1>4. m.msgId \in MsgId /\ m.cid \in Nat
  BY <1>3 DEF ReqMsg, ClientId
<1>5. fdOf[c] \in Nat
  <2>1. fdOf[c] \in Fd
    BY <1>2 DEF Live, TypeOK
  <2> QED
    <3>1. LinkMask - 1 \in Int
      BY NumAssumption
    <3>2. fdOf[c] \in 1 .. (LinkMask - 1)
      BY <2>1, FdAssumption
    <3> QED
      BY <3>1, <3>2
<1>6. id \in Nat
  BY <1>4, <1>5, NumAssumption DEF SetLinkId
<1>7. fwd \in Msg
  BY <1>3, <1>6 DEF Msg, ReqMsg, ClientId
<1>8. key \in Key
  BY <1>3, GroupAssumption DEF ReqMsg, Key
<1>9. Transfer(c, key, fwd) \/ UNCHANGED outq
  BY DEF Request
<1>10. fwd.msgId \in MsgId
  BY <1>3 DEF ReqMsg
<1> HIDE DEF fwd, key
<1>11. ASSUME Transfer(c, key, fwd)
       PROVE  outq' \in [Conn -> Seq(Msg)]
  <2>1. CASE \E st \in State : outq' = Respond(outq, c, fwd, st)
    <3>1. PICK st \in State : outq' = Respond(outq, c, fwd, st)
      BY <2>1
    <3>2. outq \in [Conn -> Seq(Msg)]
      BY DEF TypeOK
    <3>3. Respond(outq, c, fwd, st) \in [Conn -> Seq(Msg)]
      BY <1>10, <3>2, RespondType
    <3> QED
      BY <3>1, <3>3
  <2>2. CASE /\ listeners[key] # <<>>
             /\ outq' = [outq EXCEPT ![listeners[key][GetPos(key)]] =
                                        Append(@, fwd)]
    <3>1. listeners[key][GetPos(key)] \in Conn
      BY <1>8, <2>2, PosInRange, ElementOfSeq DEF TypeOK, TurnType
    <3>2. Append(outq[listeners[key][GetPos(key)]], fwd) \in Seq(Msg)
      BY <1>7, <3>1, AppendProperties DEF TypeOK
    <3> QED
      BY <2>2, <3>1, <3>2 DEF TypeOK
  <2> QED
    BY <1>11, <2>1, <2>2 DEF Transfer, State
<1> QED
  BY <1>2, <1>9, <1>11 DEF Request, MarkCc, TypeOK

LEMMA TypeWrites ==
  ASSUME TypeOK, NEW c \in Conn, Heart(c) \/ Reply(c) \/ PushMany(c) \/ Broadcast(c)
  PROVE  /\ ccLink' \subseteq Conn
         /\ inq' \in [Conn -> Seq(Msg)] /\ outq' \in [Conn -> Seq(Msg)]
         /\ UNCHANGED <<used, fdOf, ssLink, table>>
<1> USE DEF TypeOK
<1>1. CASE Heart(c)
  BY <1>1, FrontType DEF Heart, MarkCc
<1>2. CASE Reply(c)
  <2>1. Takes(c, {"resp", "push"})
    BY <1>2 DEF Reply
  <2>2. Front(c) \in Msg /\ inq' \in [Conn -> Seq(Msg)]
    BY <2>1, FrontType
  <2>3. \A d \in Conn : Write(outq[d], Front(c)) \in Seq(Msg)
    BY <2>2, WriteType
  <2> QED
    BY <1>2, <2>2, <2>3 DEF Reply, links, table
<1>3. CASE PushMany(c)
  <2> DEFINE m         == Front(c)
             Behind(d) == {id \in m.clients : d \in FindClient(GetLinkId(id))}
             Part(d)   == [type |-> "push", cid |-> NoCid,
                           clients |-> Behind(d), data |-> m.data]
  <2>1. Takes(c, {"pushs"})
    BY <1>3 DEF PushMany
  <2>2. m \in Msg /\ m.type = "pushs" /\ inq' \in [Conn -> Seq(Msg)]
    BY <2>1, FrontType
  <2>3. m \in PushSMsg
    BY <2>2 DEF Msg, ReqMsg, RegMsg, HeartMsg, RespMsg, PushMsg, PushSMsg, CastMsg
  <2>4. ASSUME NEW d \in Conn
        PROVE  Write(outq[d], Part(d)) \in Seq(Msg)
    <3>1. Behind(d) \in SUBSET ClientId /\ m.data \in Data
      BY <2>3 DEF PushSMsg
    <3> HIDE DEF Behind
    <3>2. Part(d) \in Msg
      BY <3>1 DEF Msg, PushMsg, NoCid, ClientId
    <3> QED
      BY <3>2, WriteType
  <2> HIDE DEF Part
  <2>5. [d \in Conn |-> IF Behind(d) # {} THEN Write(outq[d], Part(d)) ELSE outq[d]]
          \in [Conn -> Seq(Msg)]
    BY <2>4
  <2> QED
    BY <1>3, <2>2, <2>5 DEF PushMany, links, table, Part
<1>4. CASE Broadcast(c)
  <2>1. Takes(c, {"bcast"})
    BY <1>4 DEF Broadcast
  <2>2. Front(c) \in Msg /\ inq' \in [Conn -> Seq(Msg)]
    BY <2>1, FrontType
  <2>3. \A d \in Conn : Write(outq[d], Front(c)) \in Seq(Msg)
    BY <2>2, WriteType
  <2> QED
    BY <1>4, <2>2, <2>3 DEF Broadcast, ToListeners, links, table
<1> QED
  BY <1>1, <1>2, <1>3, <1>4

LEMMA TypeLeave ==
  ASSUME TypeOK, NEW c \in Conn, Leave(c)
  PROVE  /\ inq' \in [Conn -> Seq(Msg)] /\ outq' \in [Conn -> Seq(Msg)]
         /\ fdOf' \in [Conn -> Fd \cup {NoFd}]
         /\ UNCHANGED <<used, ssLink, ccLink, defined, index>>
<1> USE DEF TypeOK
<1> DEFINE gone == [k \in Key |-> IF c \in ssLink THEN Erase(listeners[k], c)
                                                ELSE listeners[k]]
           note == [type |-> "bcast", cmd |-> ExitCmd, data |-> NoData]
<1>1. note \in Msg
  BY DataAssumption, CmdAssumption DEF Msg, CastMsg
<1>2. \A d \in Conn : Write(outq[d], note) \in Seq(Msg)
  BY <1>1, WriteType
<1>3. PICK n \in 0 .. Len(outq[c]) :
        outq' = [d \in Conn |->
                   IF d = c THEN SubSeq(outq[c], 1, n)
                   ELSE IF \E i \in DOMAIN gone[BareKey(ExitCmd)] :
                             gone[BareKey(ExitCmd)][i] = d
                   THEN Write(outq[d], note) ELSE outq[d]]
  BY DEF Leave
<1>4. SubSeq(outq[c], 1, n) \in Seq(Msg)
  <2>1. outq[c] \in Seq(Msg) /\ Len(outq[c]) \in Nat
    BY LenProperties
  <2> QED
    BY <2>1, SubSeqProperties
<1> HIDE DEF gone, note
<1>5. outq' \in [Conn -> Seq(Msg)]
  BY <1>2, <1>3, <1>4
<1>6. inq' \in [Conn -> Seq(Msg)]
  BY EmptySeq DEF Leave
<1> QED
  BY <1>5, <1>6 DEF Leave

LEMMA TypeStep ==
  TypeOK /\ TableInv /\ TableInv' /\ RoundInv' /\ [Next]_vars => TypeOK'
<1> SUFFICES ASSUME TypeOK, TableInv, TableInv', RoundInv', [Next]_vars
             PROVE  TypeOK'
  OBVIOUS
<1>0. /\ ssLink' \subseteq Conn
      /\ fdOf' \in [Conn -> Fd \cup {NoFd}]
      /\ listeners' \in [Key -> Seq(Conn)]
      /\ index' \in [Key -> Nat] /\ turns' \in [Key -> [Conn -> Nat]]
  BY DEF TableInv, TableType, RoundInv, TurnType
<1> DEFINE Rest == /\ used' \subseteq Conn /\ ccLink' \subseteq Conn
                   /\ defined' \subseteq Key
                   /\ inq' \in [Conn -> Seq(Msg)] /\ outq' \in [Conn -> Seq(Msg)]
<1>1. ASSUME NEW c \in Conn, NEW f \in Fd, Join(c, f)
      PROVE  Rest
  BY <1>1 DEF Join, TypeOK, table
<1>2. ASSUME NEW c \in Conn, RegApi(c)
      PROVE  Rest
  BY <1>2, TypeReg DEF TypeOK
<1>3. ASSUME NEW c \in Conn, Request(c)
      PROVE  Rest
  BY <1>3, TypeRequest DEF TypeOK
<1>4. ASSUME NEW c \in Conn, Heart(c) \/ Reply(c) \/ PushMany(c) \/ Broadcast(c)
      PROVE  Rest
  BY <1>4, TypeWrites DEF TypeOK, table
<1>5. ASSUME NEW c \in Conn, Leave(c)
      PROVE  Rest
  BY <1>5, TypeLeave DEF TypeOK
<1>6. ASSUME NEW c \in Conn, NEW m \in Input, PeerSend(c, m)
      PROVE  Rest
  <2>1. Append(inq[c], m) \in Seq(Msg)
    BY InputAssumption, AppendProperties DEF TypeOK
  <2> QED
    BY <1>6, <2>1 DEF PeerSend, TypeOK, links, table
<1>7. ASSUME NEW c \in Conn, PeerRecv(c)
      PROVE  Rest
  <2>1. Tail(outq[c]) \in Seq(Msg)
    BY <1>7, HeadTailProperties DEF PeerRecv, TypeOK
  <2> QED
    BY <1>7, <2>1 DEF PeerRecv, TypeOK, links, table
<1>8. ASSUME UNCHANGED vars
      PROVE  Rest
  BY <1>8 DEF vars, TypeOK
<1> HIDE DEF Rest
<1>9. Rest
  <2>1. CASE Next
    <3>1. PICK c \in Conn :
            \/ \E f \in Fd : Join(c, f)
            \/ Handle(c)
            \/ Leave(c)
            \/ \E m \in Input : PeerSend(c, m)
            \/ PeerRecv(c)
      BY <2>1 DEF Next
    <3>2. CASE Handle(c)
      BY <3>2, <1>2, <1>3, <1>4 DEF Handle
    <3> QED
      BY <3>1, <3>2, <1>1, <1>5, <1>6, <1>7
  <2> QED
    BY <2>1, <1>8 DEF vars
<1> QED
  BY <1>0, <1>9 DEF TypeOK, Rest

(* Every field of the gate keeps its type. *)
THEOREM GateTypes == Spec => []TypeOK
  BY TypeInit, TypeStep, TableSafe, TableInit, TableStep, RoundInit, RoundStep, PTL
     DEF Spec
=============================================================================
