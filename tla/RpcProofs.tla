------------------------------ MODULE RpcProofs ------------------------------
(***************************************************************************)
(* A callback hears nothing after its last outcome: for any number of      *)
(* processes, threads, connections and requests.  What the gate does is not looked    *)
(* at: the theorem holds whatever arrives, in whatever order and how often.*)
(***************************************************************************)
EXTENDS Rpc, TLAPS

Stage == [step : {"rests", "sends", "records"}, kind : {"call", "reg", "heart"},
          id : Nat]

Types ==
  /\ msgId \in [Process -> Nat] /\ th \in [Caller -> Stage]
  /\ DOMAIN calls = Process /\ DOMAIN heard = Process
  /\ \A p \in Process : DOMAIN heard[p] = MsgId
  /\ \A p \in Process, i \in MsgId : \E T : heard[p][i] \in Seq(T)
  /\ \A p \in Process : \A n \in DOMAIN calls[p] : calls[p][n] \in Nat

(* The request i of p goes on, as far as its callback was told. *)
Open(p, i) ==
  i \in MsgId => \A k \in DOMAIN heard[p][i] : heard[p][i][k] = Progress

(* The request i of p is not noted. *)
Unnoted(p, i) == \A n \in DOMAIN calls[p] : calls[p][n] # i

Busy(x) == th[x].step # "rests"

(* The requests under way have numbers of their own, were not noted before *)
(* and are noted once; who is noted has not been told that it ended.       *)
Fresh(x) ==
  Busy(x) =>
    /\ th[x].id <= msgId[x[1]]
    /\ Unnoted(x[1], th[x].id) /\ Open(x[1], th[x].id)
Noted(p) ==
  /\ \A n \in DOMAIN calls[p] : calls[p][n] <= msgId[p] /\ Open(p, calls[p][n])
  /\ \A n, m \in DOMAIN calls[p] : calls[p][n] = calls[p][m] => n = m
Told(p) ==
  /\ \A i \in Nat : i > msgId[p] => Open(p, i)
  /\ \A i \in MsgId : \A k \in DOMAIN heard[p][i] :
       k < Len(heard[p][i]) => heard[p][i][k] = Progress

Once ==
  /\ \A x \in Caller : Fresh(x)
  /\ \A x, y \in Caller :
       x[1] = y[1] /\ Busy(x) /\ Busy(y) /\ th[x].id = th[y].id => x = y
  /\ \A p \in Process : Noted(p) /\ Told(p)

LEMMA Callers ==
  /\ \A x \in Caller : x[1] \in Process /\ x = <<x[1], x[2]>>
  /\ \A p \in Process : <<p, NetThread>> \in Caller
  /\ \A p \in Client, t \in JobThread : <<p, t>> \in Caller
  /\ Client \subseteq Process
BY ProcessAssumption DEF Caller, Client

LEMMA InitOnce == SysInit => Types /\ Once
<1>. SUFFICES ASSUME SysInit PROVE Types /\ Once
  OBVIOUS
<1>1. Types
  BY DEF SysInit, Types, Stage, Resting
<1>2. \A x \in Caller : ~Busy(x)
  BY DEF SysInit, Busy, Resting
<1>3. \A p \in Process : Noted(p)
  BY DEF SysInit, Noted
<1>4. \A p \in Process : Told(p)
  BY DEF SysInit, Told, Open
<1>. QED  BY <1>1, <1>2, <1>3, <1>4 DEF Once, Fresh

(* request() takes a number nobody has.                                    *)
LEMMA NumberOnce ==
  ASSUME Types, Once, NEW p \in Process, NEW t, <<p, t>> \in Caller,
         NEW k \in {"call", "reg", "heart"}, Number(p, t, k)
  PROVE  Types' /\ Once'
<1>1. PICK i \in Nat : i = msgId[p] + 1
  BY DEF Types
<1>2. /\ msgId'[p] = i /\ \A q \in Process : q # p => msgId'[q] = msgId[q]
      /\ msgId' \in [Process -> Nat]
  BY <1>1 DEF Number, Types
<1>3. /\ th'[<<p, t>>] = [step |-> "sends", kind |-> k, id |-> i]
      /\ \A x \in Caller : x # <<p, t>> => th'[x] = th[x]
      /\ th' \in [Caller -> Stage]
  BY <1>1 DEF Number, Types, Stage
<1>4. UNCHANGED <<calls, heard>>
  BY DEF Number, hist
<1>5. Types'
  BY <1>2, <1>3, <1>4 DEF Types
<1>6. \A q \in Process : msgId[q] <= msgId'[q] /\ msgId[q] \in Nat /\ msgId'[q] \in Nat
  BY <1>1, <1>2 DEF Types
<1>7. \A q \in Process : Noted(q)'
  BY <1>4, <1>6 DEF Once, Noted, Open, Types
<1>8. \A q \in Process : Told(q)'
  BY <1>4, <1>6 DEF Once, Told, Open
<1>9. \A n \in DOMAIN calls[p] : calls[p][n] < i
  BY <1>1 DEF Once, Noted, Types
<1>10. Fresh(<<p, t>>)'
  <2>1. Unnoted(p, i) /\ Open(p, i)
    BY <1>1, <1>9 DEF Unnoted, Once, Told, Types
  <2>. QED  BY <1>2, <1>3, <1>4, <2>1 DEF Fresh, Unnoted, Open
<1>11. ASSUME NEW x \in Caller, x # <<p, t>>
       PROVE  Fresh(x)' /\ (Busy(x)' => Busy(x) /\ th'[x] = th[x])
              /\ (Busy(x) /\ x[1] = p => th[x].id < i)
  <2>1. th'[x] = th[x] /\ th[x].id \in Nat /\ x[1] \in Process /\ Fresh(x)
    BY <1>3, <1>11, Callers DEF Types, Stage, Once
  <2>. QED  BY <1>1, <1>2, <1>4, <1>6, <2>1 DEF Fresh, Busy, Unnoted, Open, Types
<1>12. \A x \in Caller : Fresh(x)'
  BY <1>10, <1>11
<1>13. ASSUME NEW x \in Caller, NEW y \in Caller, x[1] = y[1], Busy(x)', Busy(y)',
              th'[x].id = th'[y].id
       PROVE  x = y
  <2>1. CASE x # <<p, t>> /\ y # <<p, t>>
    BY <1>11, <1>13, <2>1 DEF Once
  <2>2. CASE x = <<p, t>> /\ y # <<p, t>>
    <3>1. y[1] = p /\ th[y].id < i /\ th'[y].id = th[y].id
      BY <1>11, <1>13, <2>2
    <3>. QED  BY <1>3, <1>13, <2>2, <3>1
  <2>3. CASE x # <<p, t>> /\ y = <<p, t>>
    <3>1. x[1] = p /\ th[x].id < i /\ th'[x].id = th[x].id
      BY <1>11, <1>13, <2>3
    <3>. QED  BY <1>3, <1>13, <2>3, <3>1
  <2>. QED  BY <2>1, <2>2, <2>3
<1>. QED  BY <1>5, <1>7, <1>8, <1>12, <1>13 DEF Once

(* The request is written; only what the thread does next changes.         *)
LEMMA SendOnce ==
  ASSUME Types, Once, NEW p \in Process, NEW t, <<p, t>> \in Caller, Send(p, t)
  PROVE  Types' /\ Once'
<1>1. UNCHANGED <<msgId, calls, heard>>
  BY DEF Send, hist
<1>2. /\ th' \in [Caller -> Stage]
      /\ \A x \in Caller : (Busy(x)' => Busy(x) /\ th'[x].id = th[x].id)
  <2>1. th[<<p, t>>] \in Stage /\ Resting \in Stage
    BY DEF Types, Stage, Resting
  <2>2. PICK r \in Stage :
          /\ th' = [th EXCEPT ![<<p, t>>] = r]
          /\ r.step # "rests" => r.id = th[<<p, t>>].id
    BY <2>1 DEF Send, Stage, Resting
  <2>3. Busy(<<p, t>>)
    BY DEF Send, Busy
  <2>. QED  BY <2>2, <2>3 DEF Types, Busy
<1>3. Types'
  BY <1>1, <1>2 DEF Types
<1>4. \A x \in Caller : Fresh(x)'
  <2>1. \A q, i : (Open(q, i) => Open(q, i)') /\ (Unnoted(q, i) => Unnoted(q, i)')
    BY <1>1 DEF Open, Unnoted
  <2>2. ASSUME NEW x \in Caller, Busy(x)'
        PROVE  Fresh(x)'
    <3>1. Busy(x) /\ th'[x].id = th[x].id /\ Fresh(x) /\ msgId' = msgId
      BY <1>1, <1>2, <2>2 DEF Once
    <3>2. th[x].id <= msgId[x[1]] /\ Unnoted(x[1], th[x].id)' /\ Open(x[1], th[x].id)'
      BY <2>1, <3>1 DEF Fresh
    <3>. QED  BY <3>1, <3>2 DEF Fresh, Unnoted, Open
  <2>. QED  BY <2>2 DEF Fresh
<1>5. \A q \in Process : Noted(q)' /\ Told(q)'
  BY <1>1 DEF Once, Noted, Told, Open
<1>6. \A x, y \in Caller :
        x[1] = y[1] /\ Busy(x)' /\ Busy(y)' /\ th'[x].id = th'[y].id => x = y
  BY <1>2 DEF Once
<1>. QED  BY <1>3, <1>4, <1>5, <1>6 DEF Once

(* The callback is noted, maybe over that of another request.              *)
LEMMA RecordOnce ==
  ASSUME Types, Once, NEW p \in Process, NEW t, <<p, t>> \in Caller, Record(p, t)
  PROVE  Types' /\ Once'
<1>1. PICK i \in Nat, n \in Nat : i = th[<<p, t>>].id /\ n = msgId[p]
  BY DEF Types, Stage
<1>2. /\ calls'[p] = [k \in DOMAIN calls[p] \cup {n} |-> IF k = n THEN i ELSE calls[p][k]]
      /\ \A q \in Process : q # p => calls'[q] = calls[q]
      /\ DOMAIN calls' = Process
  BY <1>1 DEF Record, Types
<1>3. /\ DOMAIN calls'[p] = DOMAIN calls[p] \cup {n} /\ calls'[p][n] = i
      /\ \A k \in DOMAIN calls[p] : k # n => calls'[p][k] = calls[p][k]
  BY <1>2
<1>4. /\ th' = [th EXCEPT ![<<p, t>>] = Resting] /\ th[<<p, t>>].step = "records"
      /\ UNCHANGED <<msgId, heard>>
  BY DEF Record
<1>5. /\ ~Busy(<<p, t>>)' /\ Busy(<<p, t>>) /\ th' \in [Caller -> Stage]
      /\ \A x \in Caller : x # <<p, t>> => th'[x] = th[x] /\ (Busy(x)' <=> Busy(x))
  BY <1>4 DEF Types, Busy, Resting, Stage
<1>6. Types'
  <2>1. \A q \in Process : \A k \in DOMAIN calls'[q] : calls'[q][k] \in Nat
    BY <1>1, <1>2, <1>3 DEF Types
  <2>. QED  BY <1>2, <1>4, <1>5, <2>1 DEF Types
<1>7. Unnoted(p, i) /\ Open(p, i) /\ i <= n
  BY <1>1, <1>5 DEF Once, Fresh
<1>8. ASSUME NEW x \in Caller, x # <<p, t>>, Busy(x)
      PROVE  Fresh(x)'
  <2>1. th'[x] = th[x] /\ Fresh(x) /\ x[1] \in Process
    BY <1>5, <1>8, Callers DEF Once
  <2>2. x[1] = p => th[x].id # i
    BY <1>1, <1>5, <1>8 DEF Once
  <2>3. Unnoted(x[1], th[x].id)'
    BY <1>2, <1>3, <1>8, <2>1, <2>2 DEF Unnoted, Fresh
  <2>. QED  BY <1>4, <1>8, <2>1, <2>3 DEF Fresh, Open
<1>9. \A x \in Caller : Fresh(x)'
  BY <1>5, <1>8 DEF Fresh
<1>10. ASSUME NEW q \in Process
       PROVE  Noted(q)' /\ Told(q)'
  <2>1. Noted(q) /\ Told(q)
    BY DEF Once
  <2>2. Told(q)'
    BY <1>4, <2>1 DEF Told, Open
  <2>3. CASE q # p
    BY <1>2, <1>4, <2>1, <2>2, <2>3 DEF Noted, Open
  <2>4. CASE q = p
    <3>1. \A k \in DOMAIN calls'[p] : calls'[p][k] <= msgId'[p] /\ Open(p, calls'[p][k])
      BY <1>1, <1>3, <1>4, <1>7, <2>1, <2>4 DEF Noted
    <3>2. \A k, m \in DOMAIN calls'[p] : calls'[p][k] = calls'[p][m] => k = m
      BY <1>3, <1>7, <2>1, <2>4 DEF Noted, Unnoted
    <3>. QED  BY <1>4, <2>2, <2>4, <3>1, <3>2 DEF Noted, Open
  <2>. QED  BY <2>3, <2>4
<1>11. \A x, y \in Caller :
         x[1] = y[1] /\ Busy(x)' /\ Busy(y)' /\ th'[x].id = th'[y].id => x = y
  BY <1>5 DEF Once
<1>. QED  BY <1>6, <1>9, <1>10, <1>11 DEF Once

LEMMA AppendAny ==
  ASSUME NEW T, NEW h \in Seq(T), NEW o
  PROVE  /\ \E U : Append(h, o) \in Seq(U)
         /\ Len(h) \in Nat /\ DOMAIN h = 1 .. Len(h)
         /\ Len(Append(h, o)) = Len(h) + 1 /\ DOMAIN Append(h, o) = 1 .. (Len(h) + 1)
         /\ \A k \in 1 .. Len(h) : Append(h, o)[k] = h[k]
         /\ Append(h, o)[Len(h) + 1] = o
<1>1. h \in Seq(T \cup {o}) /\ o \in T \cup {o}
  OBVIOUS
<1>2. Append(h, o) \in Seq(T \cup {o})
  BY <1>1
<1>. QED  BY <1>1, <1>2

(* Whom a callback's call concerns, and what it leaves alone.              *)
LEMMA TellChanges ==
  ASSUME Types, NEW p \in Process, NEW S \in SUBSET DOMAIN calls[p], NEW o,
         Tell(p, S, o)
  PROVE  /\ DOMAIN heard' = Process /\ \A q \in Process : DOMAIN heard'[q] = MsgId
         /\ \A q \in Process : q # p => heard'[q] = heard[q]
         /\ \A i \in MsgId : (\A n \in S : calls[p][n] # i) => heard'[p][i] = heard[p][i]
         /\ \A i \in MsgId : (\E n \in S : calls[p][n] = i) =>
                                heard'[p][i] = Append(heard[p][i], o)
         /\ \A q \in Process, i \in MsgId : \E T : heard'[q][i] \in Seq(T)
<1>1. /\ heard'[p] = [i \in MsgId |-> IF \E n \in S : calls[p][n] = i
                                      THEN Append(heard[p][i], o) ELSE heard[p][i]]
      /\ \A q \in Process : q # p => heard'[q] = heard[q]
      /\ DOMAIN heard' = Process
  BY DEF Tell, Types
<1>2. /\ DOMAIN heard'[p] = MsgId
      /\ \A i \in MsgId : (\A n \in S : calls[p][n] # i) => heard'[p][i] = heard[p][i]
      /\ \A i \in MsgId : (\E n \in S : calls[p][n] = i) =>
                             heard'[p][i] = Append(heard[p][i], o)
  BY <1>1
<1>3. ASSUME NEW q \in Process, NEW i \in MsgId
      PROVE  \E T : heard'[q][i] \in Seq(T)
  <2>1. PICK T : heard[q][i] \in Seq(T)
    BY DEF Types
  <2>2. \E U : Append(heard[q][i], o) \in Seq(U)
    BY <2>1, AppendAny
  <2>3. CASE q = p /\ \E n \in S : calls[p][n] = i
    <3>1. heard'[q][i] = Append(heard[q][i], o)
      BY <1>2, <2>3
    <3>. QED  BY <2>2, <3>1
  <2>4. CASE ~(q = p /\ \E n \in S : calls[p][n] = i)
    <3>1. heard'[q][i] = heard[q][i]
      BY <1>1, <1>2, <2>4
    <3>. QED  BY <2>1, <3>1
  <2>. QED  BY <2>3, <2>4
<1>. QED  BY <1>1, <1>2, <1>3 DEF Types

(* What goes on may be told so, or how it ended.                           *)
LEMMA TellGoesOn ==
  ASSUME Types, NEW p \in Process, NEW S \in SUBSET DOMAIN calls[p], NEW o,
         Tell(p, S, o), Noted(p), NEW i \in MsgId, \E n \in S : calls[p][n] = i
  PROVE  /\ \A k \in DOMAIN heard'[p][i] :
              k < Len(heard'[p][i]) => heard'[p][i][k] = Progress
         /\ o = Progress => Open(p, i)'
<1>1. Open(p, i)
  BY DEF Noted
<1>2. heard'[p][i] = Append(heard[p][i], o)
  <2>1. PICK n \in S : calls[p][n] = i
    OBVIOUS
  <2>2. /\ heard'[p] = [j \in MsgId |-> IF \E m \in S : calls[p][m] = j
                                        THEN Append(heard[p][j], o) ELSE heard[p][j]]
    BY DEF Tell, Types
  <2>. QED  BY <2>1, <2>2
<1>3. PICK h, T : h = heard[p][i] /\ h \in Seq(T)
  BY DEF Types
<1>4. \A k \in DOMAIN h : h[k] = Progress
  BY <1>1, <1>3 DEF Open
<1>. QED  BY <1>2, <1>3, <1>4, AppendAny DEF Open

(* Who is told how it ended is erased.                                     *)
LEMMA SettleOnce ==
  ASSUME Types, Once, NEW p \in Process, NEW S \in SUBSET DOMAIN calls[p], NEW o,
         Settle(p, S, o), UNCHANGED <<msgId, th>>
  PROVE  Types' /\ Once'
<1>1. /\ calls'[p] = [n \in DOMAIN calls[p] \ S |-> calls[p][n]]
      /\ \A q \in Process : q # p => calls'[q] = calls[q]
      /\ DOMAIN calls' = Process
  BY DEF Settle, Types
<1>2. /\ DOMAIN calls'[p] = DOMAIN calls[p] \ S
      /\ \A n \in DOMAIN calls'[p] : n \in DOMAIN calls[p] /\ n \notin S /\ calls'[p][n] = calls[p][n]
  BY <1>1
<1>3. Tell(p, S, o)
  BY DEF Settle
<1>5. Types'
  <2>1. \A q \in Process : \A n \in DOMAIN calls'[q] : calls'[q][n] \in Nat
    BY <1>1, <1>2 DEF Types
  <2>2. /\ DOMAIN heard' = Process /\ \A q \in Process : DOMAIN heard'[q] = MsgId
        /\ \A q \in Process, i \in MsgId : \E T : heard'[q][i] \in Seq(T)
    BY <1>3, TellChanges
  <2>. QED  BY <1>1, <2>1, <2>2 DEF Types
<1>6. \A i : Open(p, i) /\ (\A n \in S : calls[p][n] # i) => Open(p, i)'
  BY <1>3, TellChanges DEF Open
<1>7. \A q \in Process : \A i : q # p /\ Open(q, i) => Open(q, i)'
  BY <1>3, TellChanges DEF Open
<1>8. ASSUME NEW x \in Caller
      PROVE  Fresh(x)'
  <2>1. Fresh(x) /\ x[1] \in Process
    BY Callers DEF Once
  <2>2. Busy(x) => Unnoted(x[1], th[x].id)' /\ Open(x[1], th[x].id)'
    BY <1>1, <1>2, <1>6, <1>7, <2>1 DEF Fresh, Unnoted
  <2>. QED  BY <2>1, <2>2 DEF Fresh, Busy, Unnoted, Open
<1>9. ASSUME NEW q \in Process
      PROVE  Noted(q)' /\ Told(q)'
  <2>1. Noted(q) /\ Told(q)
    BY DEF Once
  <2>2. CASE q # p
    <3>1. heard'[q] = heard[q] /\ calls'[q] = calls[q]
      BY <1>1, <1>3, <2>2, TellChanges
    <3>. QED  BY <2>1, <3>1 DEF Noted, Told, Open
  <2>3. CASE q = p
    <3>1. \A n \in DOMAIN calls'[p] :
            calls'[p][n] <= msgId[p] /\ Open(p, calls[p][n])'
      BY <1>2, <1>6, <2>1, <2>3 DEF Noted
    <3>2. Noted(p)'
      BY <1>2, <2>1, <2>3, <3>1 DEF Noted, Open
    <3>3. \A i \in Nat : i > msgId[p] => Open(p, i)'
      BY <1>6, <2>1, <2>3 DEF Told, Noted, Types
    <3>4. ASSUME NEW i \in MsgId, NEW k \in DOMAIN heard'[p][i], k < Len(heard'[p][i])
          PROVE  heard'[p][i][k] = Progress
      <4>1. CASE \E n \in S : calls[p][n] = i
        BY <1>3, <2>1, <2>3, <3>4, <4>1, TellGoesOn
      <4>2. CASE \A n \in S : calls[p][n] # i
        <5>1. heard'[p][i] = heard[p][i]
          BY <1>3, <4>2, TellChanges
        <5>. QED  BY <2>1, <2>3, <3>4, <5>1 DEF Told
      <4>. QED  BY <4>1, <4>2
    <3>. QED  BY <2>3, <3>2, <3>3, <3>4 DEF Told, Open
  <2>. QED  BY <2>2, <2>3
<1>10. \A x, y \in Caller :
         x[1] = y[1] /\ Busy(x)' /\ Busy(y)' /\ th'[x].id = th'[y].id => x = y
  BY DEF Once, Busy
<1>. QED  BY <1>5, <1>8, <1>9, <1>10 DEF Once

(* Who is told that it goes on stays noted.                                *)
LEMMA ProgressOnce ==
  ASSUME Types, Once, NEW p \in Process, NEW S \in SUBSET DOMAIN calls[p],
         Tell(p, S, Progress), UNCHANGED <<msgId, th, calls>>
  PROVE  Types' /\ Once'
<1>1. Types'
  BY TellChanges DEF Types
<1>2. Noted(p)
  BY DEF Once
<1>3. ASSUME NEW q \in Process, NEW i, Open(q, i)
      PROVE  Open(q, i)'
  <2>1. CASE i \notin MsgId
    BY <2>1 DEF Open
  <2>2. CASE i \in MsgId /\ q = p /\ \E n \in S : calls[p][n] = i
    BY <1>2, <2>2, TellGoesOn
  <2>3. CASE i \in MsgId /\ ~(q = p /\ \E n \in S : calls[p][n] = i)
    <3>1. \/ q # p
          \/ q = p /\ \A n \in S : calls[p][n] # i
      BY <2>3
    <3>2. CASE q # p
      <4>1. heard'[q] = heard[q]
        BY <3>2, TellChanges
      <4>. QED  BY <1>3, <4>1 DEF Open
    <3>3. CASE q = p /\ \A n \in S : calls[p][n] # i
      <4>1. heard'[p][i] = heard[p][i]
        BY <2>3, <3>3, TellChanges
      <4>. QED  BY <1>3, <3>3, <4>1 DEF Open
    <3>. QED  BY <3>1, <3>2, <3>3
  <2>. QED  BY <2>1, <2>2, <2>3
<1>4. ASSUME NEW x \in Caller
      PROVE  Fresh(x)'
  <2>1. Fresh(x) /\ x[1] \in Process
    BY Callers DEF Once
  <2>2. Busy(x) => Open(x[1], th[x].id)'
    BY <1>3, <2>1 DEF Fresh
  <2>. QED  BY <2>1, <2>2 DEF Fresh, Busy, Unnoted, Open
<1>5. ASSUME NEW q \in Process
      PROVE  Noted(q)' /\ Told(q)'
  <2>1. Noted(q) /\ Told(q)
    BY DEF Once
  <2>2. \A n \in DOMAIN calls[q] : Open(q, calls[q][n])'
    BY <1>3, <2>1 DEF Noted
  <2>3. Noted(q)'
    BY <2>1, <2>2 DEF Noted, Open
  <2>4. \A i \in Nat : i > msgId[q] => Open(q, i)'
    BY <1>3, <2>1 DEF Told
  <2>5. ASSUME NEW i \in MsgId, NEW k \in DOMAIN heard'[q][i], k < Len(heard'[q][i])
        PROVE  heard'[q][i][k] = Progress
    <3>1. CASE q = p /\ \E n \in S : calls[p][n] = i
      BY <1>2, <2>5, <3>1, TellGoesOn
    <3>2. CASE ~(q = p /\ \E n \in S : calls[p][n] = i)
      <4>1. heard'[q][i] = heard[q][i]
        BY <3>2, TellChanges
      <4>. QED  BY <2>1, <2>5, <4>1 DEF Told
    <3>. QED  BY <3>1, <3>2
  <2>. QED  BY <2>3, <2>4, <2>5 DEF Told, Open
<1>6. \A x, y \in Caller :
        x[1] = y[1] /\ Busy(x)' /\ Busy(y)' /\ th'[x].id = th'[y].id => x = y
  BY DEF Once, Busy
<1>. QED  BY <1>1, <1>4, <1>5, <1>6 DEF Once

LEMMA StillOnce ==
  ASSUME Types, Once, UNCHANGED <<msgId, calls, th, heard>>
  PROVE  Types' /\ Once'
<1>1. Types'
  BY DEF Types
<1>2. Once'
  BY DEF Once, Fresh, Busy, Noted, Told, Unnoted, Open
<1>. QED  BY <1>1, <1>2

LEMMA StepOnce ==
  ASSUME Types, Once, [SysNext]_sysvars
  PROVE  Types' /\ Once'
<1>1. ASSUME NEW p \in Process, Connect(p) \/ Notice(p) \/ Break(p)
      PROVE  Types' /\ Once'
  <2>1. UNCHANGED <<msgId, calls, th, heard>>
    BY <1>1 DEF Connect, Notice, Break, Close, hist
  <2>. QED  BY <2>1, StillOnce
<1>2. ASSUME NEW p \in Process, OnOpen(p) \/ Heartbeat(p)
      PROVE  Types' /\ Once'
  BY <1>2, NumberOnce, Callers DEF OnOpen, Heartbeat
<1>3. ASSUME NEW p \in Process, CheckTimeout(p)
      PROVE  Types' /\ Once'
  BY <1>3, SettleOnce DEF CheckTimeout
<1>4. ASSUME NEW p \in Process, OnMessage(p)
      PROVE  Types' /\ Once'
  <2>1. UNCHANGED <<msgId, th>>
    BY <1>4 DEF OnMessage
  <2>2. \/ UNCHANGED <<calls, heard>>
        \/ \E n \in DOMAIN calls[p] : Tell(p, {n}, Progress) /\ UNCHANGED calls
        \/ \E n \in DOMAIN calls[p] : \E o : Settle(p, {n}, o)
    BY <1>4 DEF OnMessage
  <2>. QED  BY <2>1, <2>2, SettleOnce, ProgressOnce, StillOnce
<1>5. ASSUME NEW p \in Client, NEW t \in JobThread, Ask(p, t)
      PROVE  Types' /\ Once'
  BY <1>5, NumberOnce, Callers DEF Ask
<1>6. ASSUME NEW x \in Caller, Calls(x[1], x[2])
      PROVE  Types' /\ Once'
  BY <1>6, SendOnce, RecordOnce, Callers DEF Calls
<1>7. ASSUME NEW s \in Service, Answers(s) \/ \E r \in jobs[s] : JobGoesOn(s, r)
      PROVE  Types' /\ Once'
  <2>1. UNCHANGED <<msgId, calls, th, heard>>
    BY <1>7 DEF Answers, JobDone, JobGoesOn, hist
  <2>. QED  BY <2>1, StillOnce
<1>8. ASSUME NEW c \in Conn, GateRuns(c) \/ GateDrops(c)
      PROVE  Types' /\ Once'
  <2>1. UNCHANGED <<msgId, calls, th, heard>>
    BY <1>8 DEF GateRuns, GateHandles, GateCloses, GateDrops, rpc, hist
  <2>. QED  BY <2>1, StillOnce
<1>9. CASE UNCHANGED sysvars
  BY <1>9, StillOnce DEF sysvars, rpc, hist
<1>. QED
  BY <1>1, <1>2, <1>3, <1>4, <1>5, <1>6, <1>7, <1>8, <1>9 DEF SysNext, Runs

(* A callback hears nothing after an answer that is the last one or the    *)
(* timeout, although answers may come after the timeout and entries are    *)
(* noted under the numbers of others.                                      *)
THEOREM CallbacksHearOnce == SysSpec => []OneOutcome
<1>1. Types /\ Once /\ [SysNext]_sysvars => (Types /\ Once)'
  BY StepOnce
<1>2. Once => OneOutcome
  BY DEF Once, Told, OneOutcome
<1>. QED  BY InitOnce, <1>1, <1>2, PTL DEF SysSpec
=============================================================================
