------------------------- MODULE MachineRequestProofs -------------------------
(***************************************************************************)
(* What becomes of the requests in Machine, for any number of threads,     *)
(* requests, drives and discs:                                             *)
(*   - each waits in the pool, or with one worker, or was answered, and    *)
(*     what a move has reserved is not blank any more;                     *)
(*   - one inventory, return of the discs or update runs at a time, so two *)
(*     readers never fetch the same disc;                                  *)
(*   - nothing undefined happens;                                          *)
(*   - m_storage agrees with the machine on the drives;                    *)
(*   - a drive chosen for a disc stays free until the disc is in it.       *)
(***************************************************************************)
EXTENDS MachineProofs

Fields == {"job", "pc", "req", "id", "drive", "disc"}
MoveJob == "move disc to cdrom"

(* Who has the request r: a place in the pool, or a thread. *)
InPool(i, r) == i \in DOMAIN pool /\ pool[i].req = r
InHand(t, r) == t \in Thread /\ th[t].req = r

RequestInv ==
  /\ pool \in Seq(JobType)
  /\ DOMAIN th = Thread /\ \A t \in Thread : DOMAIN th[t] = Fields
  /\ DOMAIN reply = Request /\ DOMAIN asked = Request
  /\ \A r \in Request :
       /\ Len(reply[r]) <= 1
       /\ asked[r] = None => reply[r] = <<>>
       /\ \A i : InPool(i, r) => reply[r] = <<>> /\ asked[r] # None
       /\ \A t : InHand(t, r) => reply[r] = <<>> /\ asked[r] # None
       /\ \A i, j : InPool(i, r) /\ InPool(j, r) => i = j
       /\ \A t, u : InHand(t, r) /\ InHand(u, r) => t = u
       /\ \A i, t : ~(InPool(i, r) /\ InHand(t, r))

(* What a move has reserved is not blank any more. *)
MoveInv ==
  /\ \A t \in Thread : th[t].job = MoveJob =>
       /\ th[t].pc \in {"start", "place", "move", "close", "placed"}
       /\ th[t].pc = "start" => th[t].disc = None
       /\ th[t].disc \notin table.blank
  /\ \A t, u \in Thread :
       /\ th[t].job = MoveJob /\ th[u].job = MoveJob
       /\ th[t].disc # None /\ th[t].disc = th[u].disc
       => t = u

Places == {"have", "busy", "media", "exist", "picked", "checked", "blank", "mailed"}
TableInv == DOMAIN table = Places /\ table.blank \subseteq Disc

LEMMA OneLonger == ASSUME NEW x PROVE Len(Append(<<>>, x)) = 1
OBVIOUS

LEMMA IdleFields ==
  /\ DOMAIN Idle = Fields /\ Idle.req = None /\ Idle.job = "idle" /\ Idle.disc = None
BY DEF Idle, Fields

(* A thread goes on with the request it has, or drops it. *)
LEMMA GoesOn ==
  ASSUME RequestInv, NEW t \in Thread, NEW rec, DOMAIN rec = Fields,
         rec.req \in {th[t].req, None}, th' = [th EXCEPT ![t] = rec],
         UNCHANGED <<pool, asked, reply>>
  PROVE  RequestInv'
<1>1. DOMAIN th' = Thread /\ \A u \in Thread : DOMAIN th'[u] = Fields
  BY DEF RequestInv
<1>2. \A r \in Request, u \in Thread : th'[u].req = r => th[u].req = r
  BY NoneAssumption DEF RequestInv
<1>3. \A r \in Request : \A u : InHand(u, r)' => InHand(u, r)
  BY <1>2 DEF InHand
<1>4. \A i, r : InPool(i, r)' <=> InPool(i, r)
  BY DEF InPool
<1>. QED  BY <1>1, <1>3, <1>4 DEF RequestInv

(* A thread answers the request it has, and has it no more. *)
LEMMA Replies ==
  ASSUME RequestInv, NEW t \in Thread, NEW what, NEW rec, DOMAIN rec = Fields,
         rec.req = None, th' = [th EXCEPT ![t] = rec],
         reply' = Say(th[t].req, what), UNCHANGED <<pool, asked>>
  PROVE  RequestInv'
<1>1. DOMAIN th' = Thread /\ \A u \in Thread : DOMAIN th'[u] = Fields
  BY DEF RequestInv
<1>2. \A r \in Request : \A u : InHand(u, r)' => InHand(u, r) /\ u # t
  BY NoneAssumption DEF InHand, RequestInv
<1>3. \A i, r : InPool(i, r)' <=> InPool(i, r)
  BY DEF InPool
<1>4. DOMAIN reply' = Request
  BY DEF RequestInv, Say
<1>5. \A r \in Request : r # th[t].req => reply'[r] = reply[r]
  BY DEF RequestInv, Say
<1>6. ASSUME NEW r \in Request, r = th[t].req
      PROVE  /\ Len(reply'[r]) <= 1 /\ asked[r] # None
             /\ \A i : ~InPool(i, r) /\ \A u : ~InHand(u, r)'
  <2>1. InHand(t, r)
    BY <1>6 DEF InHand
  <2>2. reply[r] = <<>> /\ asked[r] # None
    BY <2>1 DEF RequestInv
  <2>3. reply'[r] = Append(<<>>, what)
    BY <1>6, <2>2 DEF RequestInv, Say
  <2>. QED  BY <1>2, <2>1, <2>2, <2>3 DEF RequestInv
<1>7. ASSUME NEW r \in Request
      PROVE  /\ Len(reply'[r]) <= 1
             /\ asked'[r] = None => reply'[r] = <<>>
             /\ \A i : InPool(i, r)' => reply'[r] = <<>> /\ asked'[r] # None
             /\ \A u : InHand(u, r)' => reply'[r] = <<>> /\ asked'[r] # None
             /\ \A i, j : InPool(i, r)' /\ InPool(j, r)' => i = j
             /\ \A u, v : InHand(u, r)' /\ InHand(v, r)' => u = v
             /\ \A i, u : ~(InPool(i, r)' /\ InHand(u, r)')
  <2>1. CASE r = th[t].req
    BY <1>3, <1>6, <2>1
  <2>2. CASE r # th[t].req
    BY <1>2, <1>3, <1>5, <2>2 DEF RequestInv
  <2>. QED  BY <2>1, <2>2
<1>. QED  BY <1>1, <1>4, <1>7 DEF RequestInv

(* A worker takes the first job of the pool. *)
LEMMA Takes ==
  ASSUME RequestInv, NEW w \in Worker, Take(w)
  PROVE  RequestInv'
<1>1. PICK j \in JobType : j = Head(pool) /\ j = pool[1] /\ 1 \in DOMAIN pool
  BY DEF Take, RequestInv
<1>2. /\ Tail(pool) \in Seq(JobType) /\ pool \in Seq(JobType) /\ pool # <<>>
      /\ \A i \in DOMAIN Tail(pool) : i + 1 \in DOMAIN pool /\ i + 1 # 1 /\ i \in Int
                                      /\ Tail(pool)[i] = pool[i + 1]
  BY DEF Take, RequestInv
<1>3. w \in Thread
  BY DEF Thread
<1>4. PICK rec : /\ th' = [th EXCEPT ![w] = rec] /\ DOMAIN rec = Fields /\ rec.req = j.req
                 /\ th[w].req = None
  BY <1>1, IdleFields DEF Take, Become, Idle, Fields
<1>5. pool' = Tail(pool) /\ UNCHANGED <<asked, reply>>
  BY DEF Take, client
<1>6. DOMAIN th' = Thread /\ \A u \in Thread : DOMAIN th'[u] = Fields
  BY <1>4 DEF RequestInv
<1>7. \A r \in Request : \A i : InPool(i, r)' => InPool(i + 1, r) /\ i + 1 # 1 /\ i \in Int
  BY <1>2, <1>5 DEF InPool
<1>8. \A r \in Request : \A u : InHand(u, r)' => IF u = w THEN InPool(1, r) ELSE InHand(u, r)
  BY <1>1, <1>3, <1>4 DEF InHand, InPool, RequestInv
<1>9. ASSUME NEW r \in Request
      PROVE  /\ Len(reply'[r]) <= 1
             /\ asked'[r] = None => reply'[r] = <<>>
             /\ \A i : InPool(i, r)' => reply'[r] = <<>> /\ asked'[r] # None
             /\ \A u : InHand(u, r)' => reply'[r] = <<>> /\ asked'[r] # None
             /\ \A i, k : InPool(i, r)' /\ InPool(k, r)' => i = k
             /\ \A u, v : InHand(u, r)' /\ InHand(v, r)' => u = v
             /\ \A i, u : ~(InPool(i, r)' /\ InHand(u, r)')
  <2>1. \A i, k : InPool(i, r)' /\ InPool(k, r)' => i = k
    <3>1. SUFFICES ASSUME NEW i, NEW k, InPool(i, r)', InPool(k, r)'
                   PROVE  i = k
      OBVIOUS
    <3>2. i + 1 = k + 1 /\ i \in Int /\ k \in Int
      BY <1>7, <3>1 DEF RequestInv
    <3>. QED  BY <3>2
  <2>2. \A u, v : InHand(u, r)' /\ InHand(v, r)' => u = v
    BY <1>8 DEF RequestInv
  <2>3. \A i, u : ~(InPool(i, r)' /\ InHand(u, r)')
    BY <1>7, <1>8 DEF RequestInv
  <2>. QED  BY <1>5, <1>7, <1>8, <2>1, <2>2, <2>3 DEF RequestInv
<1>. QED  BY <1>2, <1>5, <1>6, <1>9 DEF RequestInv

(* A job is pushed: a request that is new, or none. *)
LEMMA Pushes ==
  ASSUME RequestInv, NEW j \in JobType, pool' = Append(pool, j),
         UNCHANGED <<th, reply>>,
         \A r \in Request : asked[r] # None => asked'[r] # None,
         DOMAIN asked' = Request,
         \A r \in Request : j.req = r => asked[r] = None /\ asked'[r] # None
  PROVE  RequestInv'
<1>1. PICK n \in Nat : n = Len(pool) + 1
  BY DEF RequestInv
<1>2. /\ pool' \in Seq(JobType) /\ DOMAIN pool' = DOMAIN pool \cup {n} /\ n \notin DOMAIN pool
      /\ pool'[n] = j /\ \A i \in DOMAIN pool : pool'[i] = pool[i]
  BY <1>1 DEF RequestInv
<1>3. \A r \in Request : \A i : InPool(i, r)' <=> InPool(i, r) \/ (i = n /\ j.req = r)
  BY <1>2 DEF InPool
<1>4. \A r \in Request : \A t : InHand(t, r)' <=> InHand(t, r)
  BY DEF InHand
<1>. QED  BY <1>2, <1>3, <1>4 DEF RequestInv

LEMMA AskKeepsRequests ==
  ASSUME RequestInv, NEW r \in Request, NEW c \in Asked, Ask(r, c)
  PROVE  RequestInv'
<1>1. /\ asked[r] = None /\ asked' = [asked EXCEPT ![r] = c] /\ c # None
      /\ reply[r] = <<>> /\ th' = th /\ DOMAIN asked' = Request
      /\ \A q \in Request : q # r => asked'[q] = asked[q]
      /\ asked'[r] = c
  BY NoneAssumption DEF Ask, RequestInv
<1>2. CASE Accepts /\ c \in Known
  <2>1. [job |-> c, req |-> r] \in JobType
    BY <1>2 DEF JobType
  <2>2. pool' = Append(pool, [job |-> c, req |-> r])
    BY <1>2 DEF Ask
  <2>3. reply' = reply
    BY <1>2 DEF Ask, Known
  <2>. QED  BY <1>1, <2>1, <2>2, <2>3, Pushes
<1>3. CASE ~(Accepts /\ c \in Known)
  <2>1. pool' = pool
    BY <1>3 DEF Ask
  <2>2. \A q : (\A i : ~InPool(i, r)) /\ (\A t : ~InHand(t, r))
    BY <1>1 DEF RequestInv
  <2>3. reply' = reply \/ reply' = Say(r, "refused")
    BY DEF Ask
  <2>4. DOMAIN reply' = Request /\ \A q \in Request : q # r => reply'[q] = reply[q]
    BY <2>3 DEF RequestInv, Say
  <2>5. Len(reply'[r]) <= 1
    <3>1. reply'[r] = <<>> \/ reply'[r] = Append(<<>>, "refused")
      BY <1>1, <2>3 DEF RequestInv, Say
    <3>2. Len(<<>>) = 0 /\ Len(Append(<<>>, "refused")) = 1
      BY OneLonger
    <3>3. CASE reply'[r] = <<>>
      BY <3>2, <3>3
    <3>4. CASE reply'[r] = Append(<<>>, "refused")
      BY ONLY <3>2, <3>4
    <3>. QED  BY <3>1, <3>3, <3>4
  <2>6. \A q : (\A i : InPool(i, q)' <=> InPool(i, q)) /\ (\A t : InHand(t, q)' <=> InHand(t, q))
    BY <1>1, <2>1 DEF InPool, InHand
  <2>7. ASSUME NEW q \in Request
        PROVE  /\ Len(reply'[q]) <= 1
               /\ asked'[q] = None => reply'[q] = <<>>
               /\ \A i : InPool(i, q)' => reply'[q] = <<>> /\ asked'[q] # None
               /\ \A t : InHand(t, q)' => reply'[q] = <<>> /\ asked'[q] # None
               /\ \A i, j : InPool(i, q)' /\ InPool(j, q)' => i = j
               /\ \A t, u : InHand(t, q)' /\ InHand(u, q)' => t = u
               /\ \A i, t : ~(InPool(i, q)' /\ InHand(t, q)')
    <3>1. CASE q = r
      BY <1>1, <2>2, <2>5, <2>6, <3>1
    <3>2. CASE q # r
      BY <1>1, <2>4, <2>6, <3>2 DEF RequestInv
    <3>. QED  BY <3>1, <3>2
  <2>. QED  BY <1>1, <2>1, <2>4, <2>7 DEF RequestInv
<1>. QED  BY <1>2, <1>3

(* Thread t goes on with the request it has or drops it, and answers only  *)
(* a request it drops; a move keeps the disc it has reserved.              *)
Goes(t, rec) ==
  /\ DOMAIN rec = Fields /\ rec.req \in {th[t].req, None}
  /\ rec.job = MoveJob =>
       /\ th[t].job = MoveJob /\ rec.disc = th[t].disc
       /\ rec.pc \in {"place", "move", "close", "placed"}
  /\ th' = [th EXCEPT ![t] = rec]
  /\ TableInv' /\ table'.blank \subseteq table.blank
  /\ UNCHANGED <<pool, asked>>
  /\ reply' = reply \/ (rec.req = None /\ \E what : reply' = Say(th[t].req, what))

Inv == RequestInv /\ MoveInv /\ TableInv

LEMMA WorkGoes ==
  ASSUME Inv, NEW w \in Worker, Work(w)
  PROVE  \/ \E rec : Goes(w, rec)
         \/ \E k \in Reader : \E rec : Goes(<<w, k>>, rec)
         \/ Take(w) \/ ReserveDisc(w)
<1>1. /\ w \in Thread /\ DOMAIN th[w] = Fields /\ TableInv
      /\ th[w].job = MoveJob => th[w].pc \in {"start", "place", "move", "close", "placed"}
  BY DEF Inv, RequestInv, MoveInv, Thread
<1>2. \A rec, a, b : DOMAIN rec = Fields =>
        /\ DOMAIN [rec EXCEPT !.id = a, !.pc = b] = Fields
        /\ [rec EXCEPT !.id = a, !.pc = b].req = rec.req
        /\ [rec EXCEPT !.id = a, !.pc = b].job = rec.job
        /\ [rec EXCEPT !.id = a, !.pc = b].disc = rec.disc
        /\ [rec EXCEPT !.id = a, !.pc = b].pc = b
  BY DEF Fields
<1>3. ASSUME UNCHANGED table
      PROVE  TableInv' /\ table'.blank \subseteq table.blank
  BY <1>1, <1>3 DEF TableInv
<1>4. CASE QueryStation(w) \/ LostParam(w) \/ FinishInventory(w) \/ RefuseMove(w)
           \/ FinishMove(w)
  <2>1. /\ th' = [th EXCEPT ![w] = Idle] /\ UNCHANGED <<table, pool, asked>>
        /\ \E what : reply' = Say(th[w].req, what)
    BY <1>4 DEF QueryStation, LostParam, FinishInventory, RefuseMove, FinishMove, Become
  <2>2. Goes(w, Idle)
    BY <1>3, <2>1, IdleFields DEF Goes, MoveJob
  <2>. QED  BY <2>2
<1>5. CASE FinishCall(w)
  <2>1. /\ th' = [th EXCEPT ![w] = Idle] /\ UNCHANGED <<pool, asked>>
        /\ \E what : reply' = Say(th[w].req, what)
    BY <1>5 DEF FinishCall, Become
  <2>2. table' \in {table, Exported(th[w].disc), Imported, ImportedTray}
    BY <1>5 DEF FinishCall
  <2>3. TableInv' /\ table'.blank \subseteq table.blank
    <3>1. CASE table' = Exported(th[w].disc)
      BY <1>1, <3>1 DEF TableInv, Exported, Places
    <3>2. CASE table' = Imported
      BY <1>1, <3>2 DEF TableInv, Imported, Places
    <3>3. CASE table' = ImportedTray
      BY <1>1, <3>3 DEF TableInv, ImportedTray, Places
    <3>. QED  BY <1>3, <2>2, <3>1, <3>2, <3>3
  <2>4. Goes(w, Idle)
    BY <2>1, <2>3, IdleFields DEF Goes, MoveJob
  <2>. QED  BY <2>4
<1>6. CASE FinishReturn(w)
  <2>1. /\ th' = [th EXCEPT ![w] = Idle] /\ UNCHANGED <<table, pool, asked>>
        /\ reply' = reply \/ \E what : reply' = Say(th[w].req, what)
    BY <1>6 DEF FinishReturn, Become
  <2>2. Goes(w, Idle)
    BY <1>3, <2>1, IdleFields DEF Goes, MoveJob
  <2>. QED  BY <2>2
<1>7. CASE StartCall(w)
  <2>1. PICK d, c : Call(w, c, [th[w] EXCEPT !.disc = d], "answer")
    BY <1>7 DEF StartCall
  <2>2. PICK r : r = [th[w] EXCEPT !.disc = d]
    OBVIOUS
  <2>3. DOMAIN r = Fields /\ r.req = th[w].req /\ r.job = th[w].job
    BY <1>1, <2>2 DEF Fields
  <2>4. PICK s : s = [r EXCEPT !.id = next + 1, !.pc = "answer"] /\ th' = [th EXCEPT ![w] = s]
    BY <2>1, <2>2 DEF Call, Become
  <2>5. th[w].job # MoveJob
    BY <1>7 DEF StartCall, OneCall, NamesDisc, MoveJob
  <2>6. UNCHANGED <<table, pool, asked, reply>>
    BY <1>7 DEF StartCall, client
  <2>7. Goes(w, s)
    BY <1>2, <1>3, <2>3, <2>4, <2>5, <2>6 DEF Goes
  <2>. QED  BY <2>7
<1>8. CASE FinishUpdate(w) \/ StartReturn(w)
  <2>1. PICK s : s = [th[w] EXCEPT !.pc = "return", !.drive = 1]
    OBVIOUS
  <2>2. DOMAIN s = Fields /\ s.req = th[w].req /\ s.job = th[w].job
    BY <1>1, <2>1 DEF Fields
  <2>3. th[w].job # MoveJob /\ UNCHANGED <<pool, asked, reply>>
    BY <1>8 DEF FinishUpdate, StartReturn, MoveJob, client
  <2>4. \/ table' = table
        \/ \E m : table' = Updated(m)
    BY <1>8 DEF FinishUpdate, StartReturn
  <2>5. TableInv' /\ table'.blank \subseteq table.blank
    BY <1>1, <2>4 DEF TableInv, Updated, Places
  <2>6. th' = [th EXCEPT ![w] = s] \/ th' = [th EXCEPT ![w] = Idle]
    BY <1>8, <2>1 DEF FinishUpdate, StartReturn, Become
  <2>7. Goes(w, s) \/ Goes(w, Idle)
    BY <2>2, <2>3, <2>5, <2>6, IdleFields DEF Goes, MoveJob
  <2>. QED  BY <2>7
<1>9. CASE ReturnNext(w)
  <2>1. PICK d : Hide(w, d)
    BY <1>9 DEF ReturnNext
  <2>2. PICK r : r = [th[w] EXCEPT !.drive = d, !.disc = table.media[d]]
    OBVIOUS
  <2>3. DOMAIN r = Fields /\ r.req = th[w].req /\ r.job = th[w].job
    BY <1>1, <2>2 DEF Fields
  <2>4. PICK s : s = [r EXCEPT !.id = next + 1, !.pc = "hide"] /\ th' = [th EXCEPT ![w] = s]
    BY <2>1, <2>2 DEF Hide, Call, Become
  <2>5. th[w].job # MoveJob
    BY <1>1, <1>9 DEF ReturnNext
  <2>6. UNCHANGED <<table, pool, asked, reply>>
    BY <1>9 DEF ReturnNext, client
  <2>7. Goes(w, s)
    BY <1>2, <1>3, <2>3, <2>4, <2>5, <2>6 DEF Goes
  <2>. QED  BY <2>7
<1>10. CASE StartInventory(w)
  <2>1. PICK s : s = [th[w] EXCEPT !.pc = "inventory"]
    OBVIOUS
  <2>2. DOMAIN s = Fields /\ s.req = th[w].req /\ s.job = th[w].job
    BY <1>1, <2>1 DEF Fields
  <2>3. /\ th[w].job # MoveJob /\ UNCHANGED <<table, pool, asked, reply>>
        /\ th' = [th EXCEPT ![w] = s]
    BY <1>10, <2>1 DEF StartInventory, MoveJob, client, Become
  <2>4. Goes(w, s)
    BY <1>3, <2>2, <2>3 DEF Goes
  <2>. QED  BY <2>4
<1>11. ASSUME NEW k \in Reader, TakeDisc(w, k)
       PROVE  \E rec : Goes(<<w, k>>, rec)
  <2>1. PICK d \in todo[w] :
          /\ table' = [table EXCEPT !.picked = @ \cup {d}]
          /\ th' = [th EXCEPT ![<<w, k>>] = [Idle EXCEPT !.job = "read", !.pc = "place",
                                                      !.disc = d]]
    BY <1>11 DEF TakeDisc, Become
  <2>2. PICK s : s = [Idle EXCEPT !.job = "read", !.pc = "place", !.disc = d]
    OBVIOUS
  <2>3. DOMAIN s = Fields /\ s.req = None /\ s.job = "read"
    BY <2>2 DEF Idle, Fields
  <2>4. TableInv' /\ table'.blank \subseteq table.blank
    BY <1>1, <2>1 DEF TableInv, Places
  <2>5. UNCHANGED <<pool, asked, reply>>
    BY <1>11 DEF TakeDisc, client
  <2>6. Goes(<<w, k>>, s)
    BY <2>1, <2>2, <2>3, <2>4, <2>5 DEF Goes, MoveJob
  <2>. QED  BY <2>6
<1>. QED
  BY <1>4, <1>5, <1>6, <1>7, <1>8, <1>9, <1>10, <1>11 DEF Work

LEMMA StepGoes ==
  ASSUME Inv, NEW t \in Thread,
         Step(t) \/ HideLost(t) \/ PlaceLost(t) \/ (t \in Worker /\ LoseCall(t))
  PROVE  \E rec : Goes(t, rec)
<1>1. /\ DOMAIN th[t] = Fields /\ TableInv
      /\ th[t].job = MoveJob => th[t].pc \in {"start", "place", "move", "close", "placed"}
  BY DEF Inv, RequestInv, MoveInv
<1>2. \A rec, a, b : DOMAIN rec = Fields =>
        /\ DOMAIN [rec EXCEPT !.id = a, !.pc = b] = Fields
        /\ [rec EXCEPT !.id = a, !.pc = b].req = rec.req
        /\ [rec EXCEPT !.id = a, !.pc = b].job = rec.job
        /\ [rec EXCEPT !.id = a, !.pc = b].disc = rec.disc
        /\ [rec EXCEPT !.id = a, !.pc = b].pc = b
  BY DEF Fields
<1>3. ASSUME UNCHANGED table
      PROVE  TableInv' /\ table'.blank \subseteq table.blank
  BY <1>1, <1>3 DEF TableInv
<1>4. PICK s : s = [th[t] EXCEPT !.pc = "placed"]
  OBVIOUS
<1>5. /\ DOMAIN s = Fields /\ s.req = th[t].req /\ s.job = th[t].job
      /\ s.disc = th[t].disc /\ s.pc = "placed"
  BY <1>1, <1>4 DEF Fields
<1>6. ASSUME NEW worked
      PROVE  /\ DOMAIN AfterHide(t, worked) = Fields
             /\ AfterHide(t, worked).req \in {th[t].req, None}
             /\ AfterHide(t, worked).job \in {th[t].job, "idle"}
  <2>1. PICK v : v = IF worked THEN th[t].drive + 1 ELSE NDrive + 1
    OBVIOUS
  <2>2. PICK q : q = [th[t] EXCEPT !.pc = "return", !.drive = v]
    OBVIOUS
  <2>3. DOMAIN q = Fields /\ q.req = th[t].req /\ q.job = th[t].job
    BY <1>1, <2>2 DEF Fields
  <2>4. AfterHide(t, worked) = q \/ AfterHide(t, worked) = Idle
    BY <2>1, <2>2 DEF AfterHide
  <2>. QED  BY <2>3, <2>4, IdleFields
<1>7. CASE HideDone(t)
  <2>1. PICK worked : th' = [th EXCEPT ![t] = AfterHide(t, worked)]
    BY <1>7 DEF HideDone, Become
  <2>2. th[t].job # MoveJob /\ UNCHANGED <<pool, asked, reply>>
    BY <1>1, <1>7 DEF HideDone, Answered, client
  <2>3. PICK r, d : table' \in {table, Emptied(r), [Emptied(r) EXCEPT !.exist = @ \cup {d}]}
    BY <1>7 DEF HideDone
  <2>4. PICK e : e = Emptied(r)
    OBVIOUS
  <2>5. DOMAIN e = Places /\ e.blank = table.blank
    BY <1>1, <2>4 DEF Emptied, TableInv, Places
  <2>6. TableInv' /\ table'.blank \subseteq table.blank
    BY <1>1, <2>3, <2>4, <2>5 DEF TableInv, Places
  <2>7. Goes(t, AfterHide(t, worked))
    BY <1>6, <2>1, <2>2, <2>6 DEF Goes, MoveJob
  <2>. QED  BY <2>7
<1>8. CASE HideLost(t)
  <2>1. th' = [th EXCEPT ![t] = AfterHide(t, FALSE)]
    BY <1>8 DEF HideLost, Become
  <2>2. th[t].job # MoveJob /\ UNCHANGED <<pool, asked, reply, table>>
    BY <1>1, <1>8 DEF HideLost, GivesUp, client
  <2>3. Goes(t, AfterHide(t, FALSE))
    BY <1>3, <1>6, <2>1, <2>2 DEF Goes, MoveJob
  <2>. QED  BY <2>3
<1>9. CASE Place(t)
  <2>1. PICK r : Call(t, Cmd("CMOV", r, th[t].disc), [th[t] EXCEPT !.drive = r], "move")
    BY <1>9 DEF Place
  <2>2. PICK q : q = [th[t] EXCEPT !.drive = r]
    OBVIOUS
  <2>3. DOMAIN q = Fields /\ q.req = th[t].req /\ q.job = th[t].job /\ q.disc = th[t].disc
    BY <1>1, <2>2 DEF Fields
  <2>4. PICK u : u = [q EXCEPT !.id = next + 1, !.pc = "move"] /\ th' = [th EXCEPT ![t] = u]
    BY <2>1, <2>2 DEF Call, Become
  <2>5. UNCHANGED <<table, pool, asked, reply>>
    BY <1>9 DEF Place, client
  <2>6. Goes(t, u)
    BY <1>2, <1>3, <2>3, <2>4, <2>5 DEF Goes
  <2>. QED  BY <2>6
<1>10. CASE MoveDone(t)
  <2>1. PICK u : u = [th[t] EXCEPT !.id = next + 1, !.pc = "close"] /\ th' = [th EXCEPT ![t] = u]
    BY <1>10 DEF MoveDone, Call, Become
  <2>2. UNCHANGED <<pool, asked, reply>>
    BY <1>10 DEF MoveDone, client
  <2>3. TableInv' /\ table'.blank \subseteq table.blank
    BY <1>1, <1>10 DEF MoveDone, Filled, TableInv, Places
  <2>4. Goes(t, u)
    BY <1>1, <1>2, <2>1, <2>2, <2>3 DEF Goes
  <2>. QED  BY <2>4
<1>14. CASE MoveShut(t)
  <2>1. th' = [th EXCEPT ![t] = s] /\ UNCHANGED <<pool, asked, reply>>
    BY <1>4, <1>14 DEF MoveShut, Become, client
  <2>2. TableInv' /\ table'.blank \subseteq table.blank
    BY <1>1, <1>14 DEF MoveShut, Filled, TableInv, Places
  <2>3. Goes(t, s)
    BY <1>5, <2>1, <2>2 DEF Goes
  <2>. QED  BY <2>3
<1>11. CASE MoveFailed(t) \/ CloseDone(t) \/ PlaceLost(t)
  <2>1. th' = [th EXCEPT ![t] = s] \/ th' = [th EXCEPT ![t] = Idle]
    BY <1>4, <1>11 DEF MoveFailed, CloseDone, PlaceLost, Become
  <2>2. UNCHANGED <<table, pool, asked, reply>>
    BY <1>11 DEF MoveFailed, CloseDone, PlaceLost, client
  <2>3. Goes(t, s) \/ Goes(t, Idle)
    BY <1>3, <1>5, <2>1, <2>2, IdleFields DEF Goes, MoveJob
  <2>. QED  BY <2>3
<1>12. CASE ReadDone(t)
  <2>1. PICK r : Hide(t, r)
    BY <1>12 DEF ReadDone
  <2>2. PICK q : q = [th[t] EXCEPT !.drive = r, !.disc = table.media[r]]
    OBVIOUS
  <2>3. DOMAIN q = Fields /\ q.req = th[t].req /\ q.job = th[t].job
    BY <1>1, <2>2 DEF Fields
  <2>4. PICK u : u = [q EXCEPT !.id = next + 1, !.pc = "hide"] /\ th' = [th EXCEPT ![t] = u]
    BY <2>1, <2>2 DEF Hide, Call, Become
  <2>5. th[t].job # MoveJob /\ UNCHANGED <<table, pool, asked, reply>>
    BY <1>12 DEF ReadDone, MoveJob, client
  <2>6. Goes(t, u)
    BY <1>2, <1>3, <2>3, <2>4, <2>5 DEF Goes
  <2>. QED  BY <2>6
<1>13. CASE t \in Worker /\ LoseCall(t)
  <2>1. /\ th' = [th EXCEPT ![t] = Idle] /\ UNCHANGED <<table, pool, asked>>
        /\ reply' = reply \/ \E what : reply' = Say(th[t].req, what)
    BY <1>13 DEF LoseCall, Become
  <2>2. Goes(t, Idle)
    BY <1>3, <2>1, IdleFields DEF Goes, MoveJob
  <2>. QED  BY <2>2
<1>. QED
  BY <1>7, <1>8, <1>9, <1>10, <1>11, <1>12, <1>13, <1>14 DEF Step

LEMMA GoesKeeps ==
  ASSUME Inv, NEW t \in Thread, NEW rec, Goes(t, rec)
  PROVE  Inv'
<1>1. RequestInv'
  <2>1. CASE reply' = reply
    BY <2>1, GoesOn DEF Goes, Inv
  <2>2. CASE rec.req = None /\ \E what : reply' = Say(th[t].req, what)
    BY <2>2, Replies DEF Goes, Inv
  <2>. QED  BY <2>1, <2>2 DEF Goes
<1>2. /\ th'[t] = rec /\ \A u \in Thread : u # t => th'[u] = th[u]
  BY DEF Goes, Inv, RequestInv
<1>3. MoveInv'
  <2>1. table'.blank \subseteq table.blank
    BY DEF Goes
  <2>2. rec.job = MoveJob =>
          /\ th[t].job = MoveJob /\ rec.disc = th[t].disc
          /\ rec.pc \in {"place", "move", "close", "placed"}
    BY DEF Goes
  <2>3. \A u \in Thread : th'[u].job = MoveJob =>
          /\ th'[u].pc \in {"start", "place", "move", "close", "placed"}
          /\ th'[u].pc = "start" => th'[u].disc = None
          /\ th'[u].disc \notin table'.blank
    BY <1>2, <2>1, <2>2 DEF Inv, MoveInv
  <2>4. \A u \in Thread : th'[u].job = MoveJob => th[u].job = MoveJob /\ th'[u].disc = th[u].disc
    BY <1>2, <2>2
  <2>5. \A u, v \in Thread :
          /\ th'[u].job = MoveJob /\ th'[v].job = MoveJob
          /\ th'[u].disc # None /\ th'[u].disc = th'[v].disc
          => u = v
    BY <2>4 DEF Inv, MoveInv
  <2>. QED  BY <2>3, <2>5 DEF MoveInv
<1>. QED  BY <1>1, <1>3 DEF Inv, Goes

LEMMA TakeKeeps ==
  ASSUME Inv, NEW w \in Worker, Take(w)
  PROVE  Inv'
<1>1. RequestInv'
  BY Takes DEF Inv
<1>2. PICK j, q : th' = [th EXCEPT ![w] = [Idle EXCEPT !.job = j, !.req = q, !.pc = "start"]]
  BY DEF Take, Become
<1>3. PICK rec : rec = [Idle EXCEPT !.job = j, !.req = q, !.pc = "start"]
  OBVIOUS
<1>4. rec.pc = "start" /\ rec.disc = None
  BY <1>3 DEF Idle
<1>5. th'[w] = rec /\ \A u \in Thread : u # w => th'[u] = th[u]
  BY <1>2, <1>3 DEF Inv, RequestInv, Thread
<1>6. table' = table /\ None \notin table.blank
  BY NoneAssumption DEF Take, Inv, TableInv
<1>7. MoveInv'
  <2>1. \A u \in Thread : th'[u].job = MoveJob =>
          /\ th'[u].pc \in {"start", "place", "move", "close", "placed"}
          /\ th'[u].pc = "start" => th'[u].disc = None
          /\ th'[u].disc \notin table'.blank
    BY <1>4, <1>5, <1>6 DEF Inv, MoveInv
  <2>2. \A u \in Thread : th'[u].disc # None => u # w /\ th'[u] = th[u]
    BY <1>4, <1>5
  <2>3. \A u, v \in Thread :
          /\ th'[u].job = MoveJob /\ th'[v].job = MoveJob
          /\ th'[u].disc # None /\ th'[u].disc = th'[v].disc
          => u = v
    BY <2>2 DEF Inv, MoveInv
  <2>. QED  BY <2>1, <2>3 DEF MoveInv
<1>. QED  BY <1>1, <1>6, <1>7 DEF Inv, TableInv

LEMMA ReserveKeeps ==
  ASSUME Inv, NEW w \in Worker, ReserveDisc(w)
  PROVE  Inv'
<1>1. PICK d \in table.blank : /\ table' = [table EXCEPT !.blank = @ \ {d}]
                               /\ th' = [th EXCEPT ![w] = [th[w] EXCEPT !.pc = "place", !.disc = d]]
  BY DEF ReserveDisc, Become
<1>2. PICK rec : rec = [th[w] EXCEPT !.pc = "place", !.disc = d]
  OBVIOUS
<1>3. w \in Thread /\ DOMAIN th[w] = Fields
  BY DEF Inv, RequestInv, Thread
<1>4. /\ DOMAIN rec = Fields /\ rec.req = th[w].req /\ rec.pc = "place" /\ rec.disc = d
  BY <1>2, <1>3 DEF Fields
<1>5. th' = [th EXCEPT ![w] = rec] /\ UNCHANGED <<pool, asked, reply>>
  BY <1>1, <1>2 DEF ReserveDisc, client
<1>6. RequestInv'
  BY <1>3, <1>4, <1>5, GoesOn DEF Inv
<1>7. /\ TableInv' /\ table'.blank = table.blank \ {d}
  BY <1>1 DEF Inv, TableInv, Places
<1>8. th'[w] = rec /\ \A u \in Thread : u # w => th'[u] = th[u]
  BY <1>3, <1>5 DEF Inv, RequestInv
<1>9. \A u \in Thread : th[u].job = MoveJob => th[u].disc # d
  BY DEF Inv, MoveInv
<1>10. MoveInv'
  <2>1. \A u \in Thread : th'[u].job = MoveJob =>
          /\ th'[u].pc \in {"start", "place", "move", "close", "placed"}
          /\ th'[u].pc = "start" => th'[u].disc = None
          /\ th'[u].disc \notin table'.blank
    BY <1>4, <1>7, <1>8 DEF Inv, MoveInv
  <2>2. \A u, v \in Thread :
          /\ th'[u].job = MoveJob /\ th'[v].job = MoveJob
          /\ th'[u].disc # None /\ th'[u].disc = th'[v].disc
          => u = v
    BY <1>4, <1>8, <1>9 DEF Inv, MoveInv
  <2>. QED  BY <2>1, <2>2 DEF MoveInv
<1>. QED  BY <1>6, <1>7, <1>10 DEF Inv

LEMMA InvInit == Init => Inv
<1>. SUFFICES ASSUME Init PROVE Inv
  OBVIOUS
<1>1. pool \in Seq(JobType) /\ \A r \in Request : \A i : ~InPool(i, r)
  BY NoneAssumption DEF Init, JobType, InPool
<1>2. \A t \in Thread : th[t] = Idle
  BY DEF Init
<1>3. \A r \in Request : \A t : ~InHand(t, r)
  BY <1>2, IdleFields, NoneAssumption DEF InHand
<1>4. RequestInv
  BY <1>1, <1>2, <1>3, IdleFields DEF Init, RequestInv
<1>5. MoveInv
  BY <1>2, IdleFields DEF MoveInv, MoveJob
<1>6. TableInv
  BY StartAssumption DEF Init, TableInv, Places
<1>. QED  BY <1>4, <1>5, <1>6 DEF Inv

LEMMA InvStep ==
  ASSUME Inv, [Next]_vars
  PROVE  Inv'
<1>1. ASSUME NEW w \in Worker, Work(w)
      PROVE  Inv'
  <2>1. w \in Thread /\ \A k \in Reader : <<w, k>> \in Thread
    BY DEF Thread, Helper
  <2>. QED  BY <1>1, <2>1, WorkGoes, GoesKeeps, TakeKeeps, ReserveKeeps
<1>2. ASSUME NEW t \in Thread, Step(t) \/ HideLost(t) \/ PlaceLost(t)
      PROVE  Inv'
  BY <1>2, StepGoes, GoesKeeps
<1>3. ASSUME NEW w \in Worker, LoseCall(w)
      PROVE  Inv'
  <2>1. w \in Thread
    BY DEF Thread
  <2>. QED  BY <1>3, <2>1, StepGoes, GoesKeeps
<1>4. ASSUME UNCHANGED <<th, table>>, RequestInv'
      PROVE  Inv'
  BY <1>4 DEF Inv, MoveInv, TableInv
<1>5. ASSUME NEW r \in Request, NEW c \in Asked, Ask(r, c)
      PROVE  Inv'
  <2>1. UNCHANGED <<th, table>>
    BY <1>5 DEF Ask
  <2>. QED  BY <1>4, <1>5, <2>1, AskKeepsRequests DEF Inv
<1>6. ASSUME UNCHANGED <<th, table, pool, asked, reply>>
      PROVE  Inv'
  <2>1. RequestInv'
    BY <1>6 DEF Inv, RequestInv, InPool, InHand
  <2>. QED  BY <1>4, <1>6, <2>1
<1>7. ASSUME NEW n \in 1 .. Len(toSvr), Receive(n)
      PROVE  Inv'
  <2>1. UNCHANGED <<th, table, asked, reply>>
    BY <1>7 DEF Receive, client
  <2>2. PICK j : j = [job |-> "update", req |-> None]
    OBVIOUS
  <2>3. j \in JobType /\ \A r \in Request : j.req # r
    BY <2>2, NoneAssumption DEF JobType
  <2>4. pool' = pool \/ pool' = Append(pool, j)
    BY <1>7, <2>2 DEF Receive
  <2>5. CASE pool' = Append(pool, j)
    <3>1. DOMAIN asked' = Request
      BY <2>1 DEF Inv, RequestInv
    <3>2. RequestInv'
      BY <2>1, <2>3, <2>5, <3>1, Pushes DEF Inv
    <3>. QED  BY <1>4, <2>1, <3>2
  <2>. QED  BY <1>6, <2>1, <2>4, <2>5
<1>8. CASE \/ Send \/ Connect \/ Authenticate \/ Drop \/ Execute
           \/ (\E e \in Event : Happen(e)) \/ UNCHANGED vars
  <2>1. UNCHANGED <<th, table, pool, asked, reply>>
    BY <1>8 DEF Send, Connect, Authenticate, Drop, Execute, Happen, vars, server, client
  <2>. QED  BY <1>6, <2>1
<1>. QED  BY <1>1, <1>2, <1>3, <1>5, <1>7, <1>8 DEF Next, GiveUp, Loop

(* No request is answered twice, for any number of requests and threads,   *)
(* whatever fails, times out or arrives late: a request is in one place.   *)
THEOREM RequestsAnsweredOnce == Spec => []RepliedOnce
<1>1. Inv => RepliedOnce
  BY DEF Inv, RequestInv, RepliedOnce
<1>. QED  BY <1>1, InvInit, InvStep, PTL DEF Spec

(* No disc is reserved for two jobs, for any number of discs and threads.  *)
THEOREM DiscsReservedOnce == Spec => []ReservedOnce
<1>1. Inv => ReservedOnce
  BY DEF Inv, MoveInv, ReservedOnce, MoveJob, Thread
<1>. QED  BY <1>1, InvInit, InvStep, PTL DEF Spec

(***************************************************************************)
(* One inventory at a time.                                                *)
(*                                                                         *)
(* While no door is reported and no disc moved, three jobs run alone: the  *)
(* update Init queued, an inventory and a return of all discs.  Each has a *)
(* phase of its own, in which every request is turned away, from when it   *)
(* is queued until its worker drops it.                                    *)
(***************************************************************************)
Sole == {"update", "inventory", "return disc"}
PhaseOf(job) == CASE job = "update"      -> "INIT"
                  [] job = "inventory"   -> "INVENTORY"
                  [] job = "return disc" -> "RETURNDISC"

(* A record of a thread that has such a job. *)
RunsAlone(r) == r.job \in Sole /\ (r.job = "update" => r.pc \in {"start", "answer"})

InLine(i) == i \in DOMAIN pool /\ pool[i].job \in Sole
AtWork(w) == w \in Worker /\ RunsAlone(th[w])

(* There is at most one of them, and the phase is its own. *)
PhaseInv ==
  /\ \A i : InLine(i) => phase = PhaseOf(pool[i].job)
  /\ \A w : AtWork(w) => phase = PhaseOf(th[w].job)
  /\ \A i, j : InLine(i) /\ InLine(j) => i = j
  /\ \A v, w : AtWork(v) /\ AtWork(w) => v = w
  /\ \A i, w : ~(InLine(i) /\ AtWork(w))

(* What a worker may be at, without moves. *)
Fits(r) ==
  /\ r.job # MoveJob
  /\ \/ r = Idle
     \/ r.pc = "start"
     \/ r.pc = "answer" /\ r.job \in OneCall
     \/ r.pc \in {"return", "hide"} /\ r.job \in {"update", "return disc"}
     \/ r.pc = "inventory" /\ r.job = "inventory"

WorkerInv ==
  /\ \A i \in DOMAIN pool : pool[i].job # MoveJob
  /\ \A w \in Worker : Fits(th[w])

(* A reader that has taken a disc out of the list and not yet returned it. *)
Fetches(t) == th[t].pc \in {"place", "move", "close", "placed"}

(* Readers work only under their inventory, each on a disc of its own that *)
(* is not in the list any more.                                            *)
ReaderInv ==
  /\ \A w \in Worker : todo[w] # {} => th[w].pc = "inventory"
  /\ \A w \in Worker, k \in Reader : th[<<w, k>>] # Idle =>
       /\ th[<<w, k>>].job = "read" /\ th[w].pc = "inventory"
       /\ Fetches(<<w, k>>) \/ th[<<w, k>>].pc = "hide"
       /\ Fetches(<<w, k>>) => th[<<w, k>>].disc \notin todo[w]
  /\ \A w \in Worker : \A k, l \in Reader :
       Fetches(<<w, k>>) /\ Fetches(<<w, l>>) /\ th[<<w, l>>].disc = th[<<w, k>>].disc => l = k

Quiet == PhaseInv /\ WorkerInv /\ ReaderInv

(* No report of the at91 is on its way. *)
QuietWire == \A i \in DOMAIN toSvr : toSvr[i].code \notin Exception \cup {"DOORCLOSE"}

ReadInv ==
  /\ spent \in [event : Nat, timeout : Nat, drop : Nat]
  /\ DOMAIN asked = Request
  /\ Undisturbed => Quiet /\ QuietWire

(* Readers and workers are different threads. *)
LEMMA HelperIsNoWorker ==
  ASSUME NEW w \in Worker, NEW k \in Reader
  PROVE  <<w, k>> \in Thread /\ <<w, k>> \notin Worker /\ w \in Thread
BY ThreadAssumption DEF Thread, Helper

(* What a worker does between taking a job and dropping it. *)
Turns(w, rec) ==
  /\ th' = [th EXCEPT ![w] = rec] /\ UNCHANGED <<pool, todo>>
  /\ \/ rec = Idle
     \/ rec.job = th[w].job /\ Fits(rec) /\ rec.pc # "inventory"
  /\ th[w].pc = "inventory" =>
       rec = Idle /\ todo[w] = {} /\ \A k \in Reader : th[<<w, k>>] = Idle
  /\ RunsAlone(rec) => RunsAlone(th[w]) /\ phase' = phase
  /\ phase' = phase \/ AtWork(w)

(* It stays at one of its places, and drops the phase with the job. *)
LEMMA TurnsKeeps ==
  ASSUME Types, Quiet, NEW w \in Worker, NEW rec, Turns(w, rec)
  PROVE  Quiet'
<1>1. /\ w \in Thread /\ th'[w] = rec /\ \A u : u # w => th'[u] = th[u]
      /\ pool' = pool /\ todo' = todo /\ Idle.job = "idle" /\ Idle.pc = "idle"
  BY DEF Turns, Types, ThreadTypes, Thread, Idle
<1>2. PhaseInv'
  <2>1. \A v : AtWork(v)' => AtWork(v) /\ th'[v].job = th[v].job
    BY <1>1 DEF AtWork, Turns, RunsAlone, Sole
  <2>2. \A i : InLine(i)' <=> InLine(i)
    BY <1>1 DEF InLine
  <2>3. CASE phase' = phase
    BY <1>1, <2>1, <2>2, <2>3 DEF Quiet, PhaseInv
  <2>4. CASE phase' # phase
    <3>1. AtWork(w) /\ ~AtWork(w)'
      BY <1>1, <2>4 DEF Turns, AtWork
    <3>2. \A v : ~AtWork(v)'
      BY <2>1, <3>1 DEF Quiet, PhaseInv
    <3>3. \A i : ~InLine(i)'
      BY <2>2, <3>1 DEF Quiet, PhaseInv
    <3>. QED  BY <3>2, <3>3 DEF PhaseInv
  <2>. QED  BY <2>3, <2>4
<1>3. WorkerInv'
  <2>1. Fits(rec)
    BY <1>1 DEF Turns, Fits, MoveJob
  <2>. QED  BY <1>1, <2>1 DEF Quiet, WorkerInv, Fits
<1>4. ReaderInv'
  <2>1. \A v \in Worker, k \in Reader : th'[<<v, k>>] = th[<<v, k>>]
    BY <1>1, HelperIsNoWorker
  <2>2. \A v \in Worker : th[v].pc = "inventory" =>
          th'[v].pc = "inventory" \/ (todo[v] = {} /\ \A k \in Reader : th[<<v, k>>] = Idle)
    BY <1>1 DEF Turns
  <2>3. \A v \in Worker, k \in Reader : Fetches(<<v, k>>)' <=> Fetches(<<v, k>>)
    BY <2>1 DEF Fetches
  <2>. QED  BY <1>1, <2>1, <2>2, <2>3 DEF Quiet, ReaderInv
<1>. QED  BY <1>2, <1>3, <1>4 DEF Quiet

(* What a reader does between taking a disc and having returned it. *)
ReaderTurns(t, rec) ==
  /\ th' = [th EXCEPT ![t] = rec] /\ UNCHANGED <<pool, todo, phase>>
  /\ \/ rec = Idle
     \/ /\ rec.job = "read" /\ th[t] # Idle
        /\ \/ rec.pc = "hide"
           \/ /\ rec.pc \in {"place", "move", "close", "placed"}
              /\ Fetches(t) /\ rec.disc = th[t].disc

(* It keeps its disc until it returns it. *)
LEMMA ReaderTurnsKeeps ==
  ASSUME Types, Quiet, NEW w \in Worker, NEW k \in Reader, NEW rec, ReaderTurns(<<w, k>>, rec)
  PROVE  Quiet'
<1>1. /\ th'[<<w, k>>] = rec /\ \A u : u # <<w, k>> => th'[u] = th[u]
      /\ UNCHANGED <<pool, todo, phase>>
  BY HelperIsNoWorker DEF ReaderTurns, Types, ThreadTypes
<1>2. \A v \in Worker : th'[v] = th[v]
  BY <1>1, HelperIsNoWorker
<1>3. PhaseInv' /\ WorkerInv'
  BY <1>1, <1>2 DEF Quiet, PhaseInv, WorkerInv, InLine, AtWork
<1>4. ReaderInv'
  <2>1. \A v \in Worker, l \in Reader : Fetches(<<v, l>>)' =>
          Fetches(<<v, l>>) /\ th'[<<v, l>>].disc = th[<<v, l>>].disc
    <3>1. Fetches(<<w, k>>)' => Fetches(<<w, k>>) /\ rec.disc = th[<<w, k>>].disc
      BY <1>1 DEF Fetches, ReaderTurns, Idle
    <3>. QED  BY <1>1, <3>1 DEF Fetches
  <2>2. ASSUME NEW v \in Worker, NEW l \in Reader, th'[<<v, l>>] # Idle
        PROVE  /\ th'[<<v, l>>].job = "read" /\ th'[v].pc = "inventory"
               /\ Fetches(<<v, l>>)' \/ th'[<<v, l>>].pc = "hide"
               /\ Fetches(<<v, l>>)' => th'[<<v, l>>].disc \notin todo'[v]
    <3>1. PICK t : t = <<v, l>>
      OBVIOUS
    <3>2. /\ th[t] # Idle /\ th'[t].job = "read"
          /\ th'[t].pc \in {"place", "move", "close", "placed", "hide"}
      <4>1. CASE t = <<w, k>>
        BY <1>1, <2>2, <3>1, <4>1 DEF ReaderTurns
      <4>2. CASE t # <<w, k>>
        BY <1>1, <2>2, <3>1, <4>2 DEF Quiet, ReaderInv, Fetches
      <4>. QED  BY <4>1, <4>2
    <3>3. th[v].pc = "inventory" /\ (Fetches(t) => th[t].disc \notin todo[v])
      BY <3>1, <3>2 DEF Quiet, ReaderInv
    <3>4. Fetches(t)' => Fetches(t) /\ th'[t].disc = th[t].disc
      BY <2>1, <3>1
    <3>5. Fetches(t)' \/ th'[t].pc = "hide"
      BY <3>2 DEF Fetches
    <3>. QED  BY <1>1, <1>2, <3>1, <3>2, <3>3, <3>4, <3>5
  <2>4. \A v \in Worker : \A l, m \in Reader :
          Fetches(<<v, l>>)' /\ Fetches(<<v, m>>)' /\ th'[<<v, m>>].disc = th'[<<v, l>>].disc
            => m = l
    BY <2>1 DEF Quiet, ReaderInv
  <2>. QED  BY <1>1, <1>2, <2>2, <2>4 DEF Quiet, ReaderInv
<1>. QED  BY <1>3, <1>4 DEF Quiet

(* Without moves, a worker turns, or takes a job, a disc or an inventory. *)
LEMMA WorkTurns ==
  ASSUME Types, Quiet, NEW w \in Worker, Work(w)
  PROVE  \/ Take(w) \/ StartInventory(w) \/ \E k \in Reader : TakeDisc(w, k)
         \/ \E rec : Turns(w, rec)
<1>1. /\ w \in Thread /\ th[w] \in Record /\ Fits(th[w]) /\ TableTypes
  BY DEF Types, ThreadTypes, Quiet, WorkerInv, Thread
<1>2. Idle.job = "idle" /\ Idle.pc = "idle" /\ Fits(Idle) /\ ~RunsAlone(Idle)
  BY DEF Idle, Fits, MoveJob, RunsAlone, Sole
<1>3. CASE QueryStation(w) \/ LostParam(w) \/ FinishCall(w)
  <2>1. /\ th' = [th EXCEPT ![w] = Idle] /\ UNCHANGED <<pool, todo, phase>>
        /\ th[w].pc # "inventory"
    BY <1>3 DEF QueryStation, LostParam, FinishCall, Become, Answered
  <2>2. Turns(w, Idle)
    BY <1>2, <2>1 DEF Turns
  <2>. QED  BY <2>2
<1>4. CASE FinishReturn(w)
  <2>1. /\ th' = [th EXCEPT ![w] = Idle] /\ UNCHANGED <<pool, todo>>
        /\ th[w].pc = "return"
        /\ phase' = phase \/ th[w].job = "return disc"
    BY <1>4 DEF FinishReturn, Become
  <2>2. Turns(w, Idle)
    BY <1>2, <2>1 DEF Turns, AtWork, RunsAlone, Sole
  <2>. QED  BY <2>2
<1>5. CASE FinishInventory(w)
  <2>1. /\ th' = [th EXCEPT ![w] = Idle] /\ UNCHANGED <<pool, todo>>
        /\ th[w].pc = "inventory" /\ todo[w] = {} /\ \A k \in Reader : th[<<w, k>>] = Idle
    BY <1>5 DEF FinishInventory, Become
  <2>2. AtWork(w)
    BY <1>1, <1>2, <2>1 DEF Fits, AtWork, RunsAlone, Sole
  <2>3. Turns(w, Idle)
    BY <1>2, <2>1, <2>2 DEF Turns
  <2>. QED  BY <2>3
<1>6. CASE RefuseMove(w) \/ FinishMove(w) \/ ReserveDisc(w)
  BY <1>1, <1>6 DEF RefuseMove, FinishMove, ReserveDisc, Fits, MoveJob
<1>7. CASE StartCall(w)
  <2>1. PICK d, c : Call(w, c, [th[w] EXCEPT !.disc = d], "answer")
    BY <1>7 DEF StartCall
  <2>2. PICK r : r = [[th[w] EXCEPT !.disc = d] EXCEPT !.id = next + 1, !.pc = "answer"]
    OBVIOUS
  <2>3. /\ r.pc = "answer" /\ r.job = th[w].job /\ th' = [th EXCEPT ![w] = r]
    BY <1>1, <2>1, <2>2 DEF Record, Call, Become
  <2>4. /\ UNCHANGED <<pool, todo, phase>> /\ th[w].pc = "start" /\ th[w].job \in OneCall
    BY <1>7 DEF StartCall
  <2>5. Turns(w, r)
    BY <1>1, <2>3, <2>4 DEF Turns, Fits, RunsAlone
  <2>. QED  BY <2>5
<1>8. CASE FinishUpdate(w) \/ StartReturn(w)
  <2>1. PICK r : r = [th[w] EXCEPT !.pc = "return", !.drive = 1]
    OBVIOUS
  <2>2. r.pc = "return" /\ r.job = th[w].job
    BY <1>1, <2>1 DEF Record
  <2>3. CASE FinishUpdate(w)
    <3>1. /\ UNCHANGED <<pool, todo>> /\ th[w].pc = "answer" /\ th[w].job = "update"
          /\ th' = [th EXCEPT ![w] = r] \/ th' = [th EXCEPT ![w] = Idle]
      BY <2>1, <2>3 DEF FinishUpdate, Answered, Become
    <3>2. AtWork(w)
      BY <3>1 DEF AtWork, RunsAlone, Sole
    <3>3. Turns(w, r) \/ Turns(w, Idle)
      BY <1>1, <1>2, <2>2, <3>1, <3>2 DEF Turns, Fits, RunsAlone
    <3>. QED  BY <3>3
  <2>4. CASE StartReturn(w)
    <3>1. /\ UNCHANGED <<pool, todo, phase>> /\ th[w].pc = "start" /\ th[w].job = "return disc"
          /\ th' = [th EXCEPT ![w] = r]
      BY <2>1, <2>4 DEF StartReturn, Become
    <3>2. Turns(w, r)
      BY <1>1, <2>2, <3>1 DEF Turns, Fits, RunsAlone, Sole
    <3>. QED  BY <3>2
  <2>. QED  BY <1>8, <2>3, <2>4
<1>9. CASE ReturnNext(w)
  <2>1. PICK d \in Drive : Hide(w, d)
    BY <1>1, <1>9 DEF ReturnNext, TableTypes, Table
  <2>2. PICK r : r = [[th[w] EXCEPT !.drive = d, !.disc = table.media[d]]
                        EXCEPT !.id = next + 1, !.pc = "hide"]
    OBVIOUS
  <2>3. r.pc = "hide" /\ r.job = th[w].job /\ th' = [th EXCEPT ![w] = r]
    BY <1>1, <2>1, <2>2 DEF Record, Hide, Call, Become
  <2>4. UNCHANGED <<pool, todo, phase>> /\ th[w].pc = "return"
    BY <1>9 DEF ReturnNext
  <2>5. Turns(w, r)
    BY <1>1, <1>2, <2>3, <2>4 DEF Turns, Fits, RunsAlone
  <2>. QED  BY <2>5
<1>. QED
  BY <1>3, <1>4, <1>5, <1>6, <1>7, <1>8, <1>9 DEF Work

(* So do the steps around the drives, and the jobs that give up. *)
LEMMA StepTurns ==
  ASSUME Types, Quiet, NEW t \in Thread,
         Step(t) \/ HideLost(t) \/ PlaceLost(t) \/ (t \in Worker /\ LoseCall(t))
  PROVE  \/ t \in Worker /\ \E rec : Turns(t, rec)
         \/ t \in Helper /\ \E rec : ReaderTurns(t, rec)
<1>1. Idle.job = "idle" /\ Idle.pc = "idle" /\ Fits(Idle) /\ ~RunsAlone(Idle)
  BY DEF Idle, Fits, MoveJob, RunsAlone, Sole
<1>2. /\ th[t] \in Record
      /\ t \in Worker => Fits(th[t]) /\ th[t].pc \notin {"place", "move", "close", "placed"}
      /\ t \in Worker \/ t \in Helper
  BY <1>1 DEF Types, ThreadTypes, Quiet, WorkerInv, Thread, Fits
<1>3. t \in Helper /\ th[t] # Idle => th[t].job = "read"
  BY DEF Quiet, ReaderInv, Helper
<1>4. UNCHANGED <<pool, todo, phase>>
  BY DEF Step, HideDone, Place, MoveDone, MoveShut, MoveFailed, CloseDone, ReadDone, HideLost,
         PlaceLost, LoseCall
<1>5. CASE HideDone(t) \/ HideLost(t)
  <2>1. PICK worked \in BOOLEAN : th' = [th EXCEPT ![t] = AfterHide(t, worked)]
    BY <1>5 DEF HideDone, HideLost, Become
  <2>2. th[t].pc = "hide"
    BY <1>5 DEF HideDone, HideLost, Answered, GivesUp
  <2>3. CASE t \in Worker
    <3>1. PICK v : v = IF worked THEN th[t].drive + 1 ELSE NDrive + 1
      OBVIOUS
    <3>2. PICK r : r = [th[t] EXCEPT !.pc = "return", !.drive = v]
      OBVIOUS
    <3>3. r.pc = "return" /\ r.job = th[t].job
      BY <1>1, <1>2, <3>2 DEF Record
    <3>4. th' = [th EXCEPT ![t] = Idle] \/ th' = [th EXCEPT ![t] = r]
      BY <2>1, <3>1, <3>2 DEF AfterHide
    <3>5. Turns(t, Idle) \/ Turns(t, r)
      BY <1>1, <1>2, <1>4, <2>2, <2>3, <3>3, <3>4 DEF Turns, Fits, RunsAlone
    <3>. QED  BY <2>3, <3>5
  <2>4. CASE t \in Helper
    <3>1. th' = [th EXCEPT ![t] = Idle]
      BY <1>1, <1>2, <1>3, <2>1, <2>2, <2>4 DEF AfterHide
    <3>2. ReaderTurns(t, Idle)
      BY <1>4, <3>1 DEF ReaderTurns
    <3>. QED  BY <2>4, <3>2
  <2>. QED  BY <1>1, <1>2, <2>3, <2>4
<1>6. CASE Place(t)
  <2>1. PICK d \in Drive : Call(t, Cmd("CMOV", d, th[t].disc), [th[t] EXCEPT !.drive = d], "move")
    BY <1>6 DEF Place, FreeDrive
  <2>2. PICK r : r = [[th[t] EXCEPT !.drive = d] EXCEPT !.id = next + 1, !.pc = "move"]
    OBVIOUS
  <2>3. /\ r.pc = "move" /\ r.job = th[t].job /\ r.disc = th[t].disc /\ th' = [th EXCEPT ![t] = r]
    BY <1>1, <1>2, <2>1, <2>2 DEF Record, Call, Become
  <2>4. t \in Helper /\ Fetches(t) /\ th[t] # Idle
    BY <1>1, <1>2, <1>6 DEF Place, Fetches
  <2>5. ReaderTurns(t, r)
    BY <1>3, <1>4, <2>3, <2>4 DEF ReaderTurns
  <2>. QED  BY <2>4, <2>5
<1>7. CASE MoveDone(t)
  <2>1. Call(t, Cmd("CDIN", th[t].drive, None), th[t], "close") /\ th[t].pc = "move"
    BY <1>7 DEF MoveDone, Answered
  <2>2. PICK r : r = [th[t] EXCEPT !.id = next + 1, !.pc = "close"]
    OBVIOUS
  <2>3. /\ r.pc = "close" /\ r.job = th[t].job /\ r.disc = th[t].disc /\ th' = [th EXCEPT ![t] = r]
    BY <1>1, <1>2, <2>1, <2>2 DEF Record, Call, Become
  <2>4. t \in Helper /\ Fetches(t) /\ th[t] # Idle
    BY <1>1, <1>2, <2>1 DEF Fetches
  <2>5. ReaderTurns(t, r)
    BY <1>3, <1>4, <2>3, <2>4 DEF ReaderTurns
  <2>. QED  BY <2>4, <2>5
<1>8. CASE MoveShut(t) \/ MoveFailed(t) \/ CloseDone(t) \/ PlaceLost(t)
  <2>1. PICK r : r = [th[t] EXCEPT !.pc = "placed"]
    OBVIOUS
  <2>2. /\ r.pc = "placed" /\ r.job = th[t].job /\ r.disc = th[t].disc
        /\ th' = [th EXCEPT ![t] = r] \/ th' = [th EXCEPT ![t] = Idle]
    BY <1>1, <1>2, <1>8, <2>1 DEF Record, MoveShut, MoveFailed, CloseDone, PlaceLost, Become
  <2>3. t \in Helper /\ Fetches(t) /\ th[t] # Idle
    BY <1>1, <1>2, <1>8 DEF MoveShut, MoveFailed, CloseDone, PlaceLost, Answered, GivesUp, Fetches
  <2>4. ReaderTurns(t, r) \/ ReaderTurns(t, Idle)
    BY <1>3, <1>4, <2>2, <2>3 DEF ReaderTurns
  <2>. QED  BY <2>3, <2>4
<1>9. CASE ReadDone(t)
  <2>1. Hide(t, th[t].drive) /\ th[t].pc = "placed" /\ th[t].job = "read"
    BY <1>9 DEF ReadDone
  <2>2. PICK r : r = [[th[t] EXCEPT !.drive = th[t].drive, !.disc = table.media[th[t].drive]]
                        EXCEPT !.id = next + 1, !.pc = "hide"]
    OBVIOUS
  <2>3. r.pc = "hide" /\ r.job = th[t].job /\ th' = [th EXCEPT ![t] = r]
    BY <1>1, <1>2, <2>1, <2>2 DEF Record, Hide, Call, Become
  <2>4. t \in Helper /\ th[t] # Idle
    BY <1>1, <1>2, <2>1
  <2>5. ReaderTurns(t, r)
    BY <1>4, <2>1, <2>3, <2>4 DEF ReaderTurns
  <2>. QED  BY <2>4, <2>5
<1>10. CASE t \in Worker /\ LoseCall(t)
  <2>1. th' = [th EXCEPT ![t] = Idle] /\ th[t].pc = "answer"
    BY <1>10 DEF LoseCall, Become, GivesUp
  <2>2. Turns(t, Idle)
    BY <1>1, <1>2, <1>4, <2>1 DEF Turns
  <2>. QED  BY <1>10, <2>2
<1>. QED  BY <1>5, <1>6, <1>7, <1>8, <1>9, <1>10 DEF Step

(* The worker has the job that was first in line. *)
LEMMA TakeKeepsQuiet ==
  ASSUME Types, Quiet, NEW w \in Worker, Take(w)
  PROVE  Quiet'
<1>0. Head(pool) = pool[1]
  BY DEF Types, TaskTypes, Take
<1>1. PICK r : r = [Idle EXCEPT !.job = pool[1].job, !.req = pool[1].req, !.pc = "start"]
  OBVIOUS
<1>2. /\ pool \in Seq(JobType) /\ pool # <<>> /\ w \in Thread /\ todo' = todo /\ phase' = phase
      /\ th[w] = Idle /\ th' = [th EXCEPT ![w] = r] /\ pool' = Tail(pool)
  BY <1>0, <1>1 DEF Types, TaskTypes, Take, Become, Thread
<1>3. /\ 1 \in DOMAIN pool /\ \A i \in DOMAIN pool' : i # 0 /\ i + 1 \in DOMAIN pool
                                                    /\ pool'[i] = pool[i + 1]
      /\ \A i \in DOMAIN pool' : i \in Int
  BY <1>2
<1>4. r.job = pool[1].job /\ r.pc = "start" /\ Idle.pc = "idle" /\ Idle.job = "idle"
  BY <1>1 DEF Idle
<1>5. th'[w] = r /\ \A u : u # w => th'[u] = th[u]
  BY <1>2 DEF Types, ThreadTypes
<1>6. PhaseInv'
  <2>1. \A i : InLine(i)' => InLine(i + 1) /\ pool'[i] = pool[i + 1] /\ i \in Int /\ i + 1 # 1
    BY <1>3 DEF InLine
  <2>2. \A v : AtWork(v)' => \/ v = w /\ InLine(1) /\ th'[v].job = pool[1].job
                             \/ v # w /\ AtWork(v) /\ th'[v] = th[v]
    BY <1>3, <1>4, <1>5 DEF AtWork, RunsAlone, InLine
  <2>3. \A i : InLine(i)' => phase' = PhaseOf(pool'[i].job)
    BY <1>2, <2>1 DEF Quiet, PhaseInv
  <2>4. \A v : AtWork(v)' => phase' = PhaseOf(th'[v].job)
    BY <1>2, <2>2 DEF Quiet, PhaseInv
  <2>5. \A i, j : InLine(i)' /\ InLine(j)' => i = j
    <3>. SUFFICES ASSUME NEW i, NEW j, InLine(i)', InLine(j)' PROVE i = j
      OBVIOUS
    <3>1. i + 1 = j + 1 /\ i \in Int /\ j \in Int
      BY <2>1 DEF Quiet, PhaseInv
    <3>. QED  BY <3>1
  <2>6. \A v, u : AtWork(v)' /\ AtWork(u)' => v = u
    BY <2>2 DEF Quiet, PhaseInv
  <2>7. \A i, v : ~(InLine(i)' /\ AtWork(v)')
    <3>. SUFFICES ASSUME NEW i, NEW v, InLine(i)', AtWork(v)' PROVE FALSE
      OBVIOUS
    <3>1. CASE v = w /\ InLine(1)
      BY <2>1, <3>1 DEF Quiet, PhaseInv
    <3>2. CASE AtWork(v)
      BY <2>1, <3>2 DEF Quiet, PhaseInv
    <3>. QED  BY <2>2, <3>1, <3>2
  <2>. QED  BY <2>3, <2>4, <2>5, <2>6, <2>7 DEF PhaseInv
<1>7. WorkerInv'
  <2>1. Fits(r)
    BY <1>3, <1>4 DEF Quiet, WorkerInv, Fits
  <2>2. \A v \in Worker : Fits(th'[v])
    BY <1>5, <2>1 DEF Quiet, WorkerInv
  <2>3. \A i \in DOMAIN pool' : pool'[i].job # MoveJob
    BY <1>3 DEF Quiet, WorkerInv
  <2>. QED  BY <2>2, <2>3 DEF WorkerInv, Fits
<1>8. ReaderInv'
  <2>1. \A v \in Worker, k \in Reader : th'[<<v, k>>] = th[<<v, k>>]
    BY <1>5, HelperIsNoWorker
  <2>2. \A v \in Worker : th[v].pc = "inventory" => th'[v].pc = "inventory"
    BY <1>2, <1>4, <1>5
  <2>3. \A v \in Worker, k \in Reader : Fetches(<<v, k>>)' <=> Fetches(<<v, k>>)
    BY <2>1 DEF Fetches
  <2>. QED  BY <1>2, <2>1, <2>2, <2>3 DEF Quiet, ReaderInv
<1>. QED  BY <1>6, <1>7, <1>8 DEF Quiet

(* An inventory starts with idle readers and the discs it has to read. *)
LEMMA InventoryKeepsQuiet ==
  ASSUME Types, Quiet, NEW w \in Worker, StartInventory(w)
  PROVE  Quiet'
<1>1. PICK r : r = [th[w] EXCEPT !.pc = "inventory"]
  OBVIOUS
<1>2. /\ w \in Thread /\ th[w] \in Record /\ th[w].job = "inventory" /\ th[w].pc = "start"
      /\ th' = [th EXCEPT ![w] = r] /\ todo' = [todo EXCEPT ![w] = Unread]
      /\ UNCHANGED <<pool, phase>>
  BY <1>1 DEF Types, ThreadTypes, Thread, StartInventory, Become
<1>3. r.job = "inventory" /\ r.pc = "inventory"
  BY <1>1, <1>2 DEF Record
<1>4. /\ th'[w] = r /\ \A u : u # w => th'[u] = th[u]
      /\ \A v \in Worker : v # w => todo'[v] = todo[v]
  BY <1>2 DEF Types, ThreadTypes, TableTypes
<1>5. PhaseInv'
  <2>1. \A v : AtWork(v)' => AtWork(v) /\ th'[v].job = th[v].job
    BY <1>2, <1>3, <1>4 DEF AtWork, RunsAlone
  <2>. QED  BY <1>2, <2>1 DEF Quiet, PhaseInv, InLine
<1>6. WorkerInv'
  <2>1. Fits(r)
    BY <1>3 DEF Fits, MoveJob
  <2>2. \A v \in Worker : Fits(th'[v])
    BY <1>4, <2>1 DEF Quiet, WorkerInv
  <2>. QED  BY <1>2, <2>2 DEF Quiet, WorkerInv, Fits
<1>7. ReaderInv'
  <2>1. \A v \in Worker, k \in Reader : th'[<<v, k>>] = th[<<v, k>>]
    BY <1>4, HelperIsNoWorker
  <2>2. \A v \in Worker, k \in Reader : Fetches(<<v, k>>)' <=> Fetches(<<v, k>>)
    BY <2>1 DEF Fetches
  <2>3. \A k \in Reader : th[<<w, k>>] = Idle
    BY <1>2 DEF Quiet, ReaderInv
  <2>. QED  BY <1>2, <1>3, <1>4, <2>1, <2>2, <2>3 DEF Quiet, ReaderInv
<1>. QED  BY <1>5, <1>6, <1>7 DEF Quiet

(* A reader takes a disc out of the inventory's list: no other has it. *)
LEMMA TakeDiscKeepsQuiet ==
  ASSUME Types, Quiet, NEW w \in Worker, NEW k \in Reader, TakeDisc(w, k)
  PROVE  Quiet'
<1>1. PICK d \in todo[w] : /\ todo' = [todo EXCEPT ![w] = @ \ {d}]
                           /\ Become(<<w, k>>, [Idle EXCEPT !.job = "read", !.pc = "place",
                                                            !.disc = d])
  BY DEF TakeDisc
<1>2. PICK r : r = [Idle EXCEPT !.job = "read", !.pc = "place", !.disc = d]
  OBVIOUS
<1>3. /\ r.job = "read" /\ r.pc = "place" /\ r.disc = d
      /\ th' = [th EXCEPT ![<<w, k>>] = r] /\ th[<<w, k>>] = Idle
      /\ UNCHANGED <<pool, phase>>
  BY <1>1, <1>2 DEF Become, Idle, TakeDisc
<1>4. /\ th'[<<w, k>>] = r /\ \A u : u # <<w, k>> => th'[u] = th[u]
      /\ todo'[w] = todo[w] \ {d} /\ \A v \in Worker : v # w => todo'[v] = todo[v]
  BY <1>1, <1>3, HelperIsNoWorker DEF Types, ThreadTypes, TableTypes
<1>5. \A v \in Worker : th'[v] = th[v] /\ todo'[v] \subseteq todo[v]
  BY <1>4, HelperIsNoWorker
<1>6. PhaseInv' /\ WorkerInv'
  BY <1>3, <1>5 DEF Quiet, PhaseInv, WorkerInv, InLine, AtWork
<1>7. th[w].pc = "inventory"
  BY <1>1 DEF Quiet, ReaderInv
<1>8. \A v \in Worker, l \in Reader : <<v, l>> # <<w, k>> =>
        /\ th'[<<v, l>>] = th[<<v, l>>] /\ (Fetches(<<v, l>>)' <=> Fetches(<<v, l>>))
  BY <1>4 DEF Fetches
<1>9. Idle.pc = "idle"
  BY DEF Idle
<1>10. ReaderInv'
  <2>1. \A v \in Worker : todo'[v] # {} => th'[v].pc = "inventory"
    BY <1>5 DEF Quiet, ReaderInv
  <2>2. ASSUME NEW v \in Worker, NEW l \in Reader, th'[<<v, l>>] # Idle
        PROVE  /\ th'[<<v, l>>].job = "read" /\ th'[v].pc = "inventory"
               /\ Fetches(<<v, l>>)' \/ th'[<<v, l>>].pc = "hide"
               /\ Fetches(<<v, l>>)' => th'[<<v, l>>].disc \notin todo'[v]
    <3>1. CASE <<v, l>> = <<w, k>>
      <4>1. v = w /\ l = k
        BY <3>1
      <4>. QED  BY <1>3, <1>4, <1>5, <1>7, <4>1 DEF Fetches
    <3>2. CASE <<v, l>> # <<w, k>>
      BY <1>5, <1>8, <2>2, <3>2 DEF Quiet, ReaderInv
    <3>. QED  BY <3>1, <3>2
  <2>3. ASSUME NEW v \in Worker, NEW l \in Reader, NEW m \in Reader, l # m,
               Fetches(<<v, l>>)', Fetches(<<v, m>>)'
        PROVE  th'[<<v, m>>].disc # th'[<<v, l>>].disc
    <3>1. ASSUME NEW i \in Reader, i # k, Fetches(<<w, i>>)'
          PROVE  th'[<<w, i>>].disc # d
      <4>1. Fetches(<<w, i>>) /\ th'[<<w, i>>] = th[<<w, i>>] /\ th[<<w, i>>] # Idle
        BY <1>8, <1>9, <3>1 DEF Fetches
      <4>. QED  BY <1>1, <4>1 DEF Quiet, ReaderInv
    <3>2. CASE v = w /\ l = k
      BY <1>3, <1>4, <2>3, <3>1, <3>2
    <3>3. CASE v = w /\ m = k
      BY <1>3, <1>4, <2>3, <3>1, <3>3
    <3>4. CASE <<v, l>> # <<w, k>> /\ <<v, m>> # <<w, k>>
      BY <1>8, <2>3, <3>4 DEF Quiet, ReaderInv
    <3>. QED  BY <3>2, <3>3, <3>4
  <2>. QED  BY <2>1, <2>2, <2>3 DEF ReaderInv
<1>. QED  BY <1>6, <1>10 DEF Quiet

(* A second request is turned away while a job alone is to run. *)
LEMMA AskKeepsQuiet ==
  ASSUME Types, Quiet, NEW r \in Request, NEW c \in Asked, Ask(r, c), c # MoveJob
  PROVE  Quiet'
<1>1. UNCHANGED <<th, todo>>
  BY DEF Ask
<1>2. ReaderInv'
  BY <1>1 DEF Quiet, ReaderInv, Fetches
<1>3. CASE UNCHANGED <<pool, phase>>
  BY <1>1, <1>2, <1>3 DEF Quiet, PhaseInv, WorkerInv, InLine, AtWork
<1>4. CASE Accepts /\ c \in Known
  <2>1. (\A i : ~InLine(i)) /\ (\A w : ~AtWork(w))
    BY <1>4 DEF Accepts, Quiet, PhaseInv, PhaseOf, InLine, AtWork, RunsAlone, Sole
  <2>2. PICK j : j = [job |-> c, req |-> r]
    OBVIOUS
  <2>3. pool' = Append(pool, j) /\ j.job = c /\ pool \in Seq(JobType)
    BY <1>4, <2>2 DEF Ask, Types, TaskTypes
  <2>4. \A i \in DOMAIN pool' : \/ i \in DOMAIN pool /\ pool'[i] = pool[i]
                                \/ i = Len(pool) + 1 /\ pool'[i] = j
    BY <2>3
  <2>5. \A i : InLine(i)' => i = Len(pool) + 1 /\ pool'[i] = j /\ c \in Sole
    BY <2>1, <2>3, <2>4 DEF InLine
  <2>6. c \in Sole => phase' = PhaseOf(c)
    BY <1>4 DEF Ask, Sole, PhaseOf, Known
  <2>7. \A w : ~AtWork(w)'
    BY <1>1, <2>1 DEF AtWork
  <2>8. PhaseInv'
    BY <2>3, <2>5, <2>6, <2>7 DEF PhaseInv
  <2>9. WorkerInv'
    BY <1>1, <2>3, <2>4 DEF Quiet, WorkerInv
  <2>. QED  BY <1>2, <2>8, <2>9 DEF Quiet
<1>5. UNCHANGED <<pool, phase>> \/ (Accepts /\ c \in Known)
  BY DEF Ask, Known
<1>. QED  BY <1>3, <1>4, <1>5

(* Without a report of the at91 a message changes neither phase nor pool. *)
LEMMA ReceiveKeepsQuiet ==
  ASSUME Types, QuietWire, NEW n \in 1 .. Len(toSvr), Receive(n)
  PROVE  UNCHANGED <<pool, phase, th, todo>> /\ QuietWire'
<1>1. toSvr \in Seq(Filed) /\ toSvr' = SubSeq(toSvr, n + 1, Len(toSvr))
  BY DEF Types, DeviceTypes, Receive
<1>2. \A code \in Seen(n) : code \notin Exception \cup {"DOORCLOSE"}
  BY <1>1 DEF Seen, QuietWire
<1>3. UNCHANGED <<pool, phase, th, todo>>
  BY <1>2 DEF Receive
<1>4. QuietWire'
  BY <1>1 DEF QuietWire
<1>. QED  BY <1>3, <1>4

(* The service starts with the update in line. *)
LEMMA ReadInit == Init => ReadInv
<1>. SUFFICES ASSUME Init PROVE ReadInv
  OBVIOUS
<1>1. \A t \in Thread : th[t] = Idle /\ th[t].job = "idle" /\ th[t].pc = "idle"
  BY DEF Init, Idle
<1>2. /\ DOMAIN pool = {1} /\ pool[1].job = "update" /\ phase = "INIT"
      /\ \A w \in Worker : w \in Thread /\ todo[w] = {}
  BY DEF Init, Thread
<1>3. PhaseInv
  BY <1>1, <1>2 DEF PhaseInv, InLine, AtWork, RunsAlone, Sole, PhaseOf
<1>4. WorkerInv
  BY <1>1, <1>2 DEF WorkerInv, Fits, MoveJob
<1>5. ReaderInv
  BY <1>1, <1>2, HelperIsNoWorker DEF ReaderInv, Fetches
<1>6. QuietWire /\ spent \in [event : Nat, timeout : Nat, drop : Nat] /\ DOMAIN asked = Request
  BY DEF Init, QuietWire
<1>. QED  BY <1>3, <1>4, <1>5, <1>6 DEF ReadInv, Quiet

(* A step after which nothing was reported and no disc was moved. *)
LEMMA QuietStep ==
  ASSUME Types, Quiet, QuietWire, Undisturbed', [Next]_vars,
         spent \in [event : Nat, timeout : Nat, drop : Nat], DOMAIN asked = Request
  PROVE  Quiet' /\ QuietWire'
<1>1. ASSUME UNCHANGED toSvr
      PROVE  QuietWire'
  BY <1>1 DEF QuietWire
<1>2. ASSUME UNCHANGED <<pool, phase, th, todo>>
      PROVE  Quiet'
  BY <1>2 DEF Quiet, PhaseInv, WorkerInv, ReaderInv, InLine, AtWork, Fetches
<1>3. ASSUME NEW w \in Worker, Work(w)
      PROVE  Quiet' /\ QuietWire'
  <2>1. UNCHANGED toSvr
    BY <1>3 DEF Work, Take, QueryStation, StartCall, LostParam, FinishCall, FinishUpdate,
       StartReturn, ReturnNext, FinishReturn, StartInventory, FinishInventory, RefuseMove,
       ReserveDisc, FinishMove, TakeDisc, device
  <2>. QED
    BY <1>1, <1>3, <2>1, WorkTurns, TurnsKeeps, TakeKeepsQuiet, InventoryKeepsQuiet,
       TakeDiscKeepsQuiet
<1>4. ASSUME NEW t \in Thread,
             Step(t) \/ HideLost(t) \/ PlaceLost(t) \/ (t \in Worker /\ LoseCall(t))
      PROVE  Quiet' /\ QuietWire'
  <2>1. UNCHANGED toSvr
    BY <1>4 DEF Step, HideDone, Place, MoveDone, MoveShut, MoveFailed, CloseDone, ReadDone, HideLost,
         PlaceLost, LoseCall, device
  <2>2. CASE t \in Worker /\ \E rec : Turns(t, rec)
    BY <1>1, <2>1, <2>2, TurnsKeeps
  <2>3. CASE t \in Helper /\ \E rec : ReaderTurns(t, rec)
    <3>1. PICK w \in Worker, k \in Reader : t = <<w, k>>
      BY <2>3 DEF Helper
    <3>. QED  BY <1>1, <2>1, <2>3, <3>1, ReaderTurnsKeeps
  <2>. QED  BY <1>4, <2>2, <2>3, StepTurns
<1>5. ASSUME NEW r \in Request, NEW c \in Asked, Ask(r, c)
      PROVE  Quiet' /\ QuietWire'
  <2>1. asked'[r] = c /\ UNCHANGED toSvr
    BY <1>5 DEF Ask, device
  <2>2. c # MoveJob
    BY <2>1 DEF Undisturbed, MoveJob
  <2>. QED  BY <1>1, <1>5, <2>1, <2>2, AskKeepsQuiet
<1>6. ASSUME NEW n \in 1 .. Len(toSvr), Receive(n)
      PROVE  Quiet' /\ QuietWire'
  BY <1>2, <1>6, ReceiveKeepsQuiet
<1>7. CASE Send \/ Connect \/ Authenticate \/ Drop \/ UNCHANGED vars
  <2>1. UNCHANGED <<pool, phase, th, todo>> /\ (toSvr' = toSvr \/ toSvr' = <<>>)
    BY <1>7 DEF Send, Connect, Authenticate, Drop, vars, server, device
  <2>2. QuietWire'
    BY <2>1 DEF QuietWire
  <2>. QED  BY <1>2, <2>1, <2>2
<1>8. CASE Execute
  <2>1. UNCHANGED <<pool, phase, th, todo>>
    BY <1>8 DEF Execute, server
  <2>2. PICK id, code, map : /\ toSvr' = Append(toSvr, Frame(id, code, map))
                             /\ code \in {"ok", "fail", "none", "occupied", "map"}
    BY <1>8, CodeAssumption DEF Execute
  <2>3. PICK f : f = Frame(id, code, map)
    OBVIOUS
  <2>4. f.code = code /\ toSvr' = Append(toSvr, f) /\ toSvr \in Seq(Filed)
    BY <2>2, <2>3 DEF Frame, Types, DeviceTypes
  <2>5. QuietWire'
    BY <2>2, <2>4 DEF QuietWire, Exception
  <2>. QED  BY <1>2, <2>1, <2>5
<1>9. ASSUME NEW e \in Event, Happen(e)
      PROVE  FALSE
  <2>1. spent'.event = spent.event + 1 /\ spent.event \in Nat
    BY <1>9 DEF Happen
  <2>2. spent'.event = 0
    BY DEF Undisturbed
  <2>. QED  BY <2>1, <2>2
<1>10. \A w \in Worker : w \in Thread
  BY DEF Thread
<1>. QED
  BY <1>3, <1>4, <1>5, <1>6, <1>7, <1>8, <1>9, <1>10 DEF Next, GiveUp, Loop

(* Events, timeouts and disconnections are counted up, one at a time. *)
LEMMA SpentGrows ==
  ASSUME spent \in [event : Nat, timeout : Nat, drop : Nat], [Next]_vars
  PROVE  /\ spent' \in [event : Nat, timeout : Nat, drop : Nat]
         /\ spent'.event \in {spent.event, spent.event + 1}
<1>1. \/ spent' = spent
      \/ spent' = [spent EXCEPT !.event = @ + 1]
      \/ spent' = [spent EXCEPT !.timeout = @ + 1]
      \/ spent' = [spent EXCEPT !.drop = @ + 1]
  BY DEF Next, Ask, Work, Take, QueryStation, StartCall, LostParam, FinishCall, FinishUpdate,
     StartReturn, ReturnNext, FinishReturn, StartInventory, FinishInventory, RefuseMove,
     ReserveDisc, FinishMove, TakeDisc, Step, HideDone, Place, MoveDone, MoveShut, MoveFailed,
     CloseDone, ReadDone, GiveUp, LoseCall, HideLost, PlaceLost, GivesUp, Loop, Send,
     Connect, Receive, Authenticate, Drop, Execute, Happen, vars, device
<1>. QED  BY <1>1

(* The wire stays quiet but when something is reported. *)
LEMMA WireStaysQuiet ==
  ASSUME Types, QuietWire, [Next]_vars, spent.event \in Nat, spent'.event = 0
  PROVE  QuietWire'
<1>1. CASE Execute
  <2>1. PICK id, code, map : /\ toSvr' = Append(toSvr, Frame(id, code, map))
                             /\ code \in {"ok", "fail", "none", "occupied", "map"}
    BY <1>1, CodeAssumption DEF Execute
  <2>2. PICK f : f = Frame(id, code, map)
    OBVIOUS
  <2>3. f.code = code /\ toSvr' = Append(toSvr, f) /\ toSvr \in Seq(Filed)
    BY <2>1, <2>2 DEF Frame, Types, DeviceTypes
  <2>. QED  BY <2>1, <2>3 DEF QuietWire, Exception
<1>2. ASSUME NEW e \in Event, Happen(e)
      PROVE  FALSE
  <2>1. spent'.event = spent.event + 1
    BY <1>2 DEF Happen
  <2>. QED  BY <2>1
<1>3. ASSUME NEW n \in 1 .. Len(toSvr), Receive(n)
      PROVE  QuietWire'
  BY <1>3, ReceiveKeepsQuiet
<1>4. ASSUME toSvr' = toSvr \/ toSvr' = <<>>
      PROVE  QuietWire'
  BY <1>4 DEF QuietWire
<1>. QED
  BY <1>1, <1>2, <1>3, <1>4
     DEF Next, Ask, Work, Take, QueryStation, StartCall, LostParam, FinishCall, FinishUpdate,
     StartReturn, ReturnNext, FinishReturn, StartInventory, FinishInventory, RefuseMove,
     ReserveDisc, FinishMove, TakeDisc, Step, HideDone, Place, MoveDone, MoveShut, MoveFailed,
     CloseDone, ReadDone, GiveUp, LoseCall, HideLost, PlaceLost, Loop, Send,
     Connect, Authenticate, Drop, vars, device

(* Once something was reported or moved the invariant promises nothing. *)
LEMMA ReadStep ==
  ASSUME Types, ReadInv, [Next]_vars
  PROVE  ReadInv'
<1>1. spent' \in [event : Nat, timeout : Nat, drop : Nat] /\ spent'.event \in {spent.event, spent.event + 1}
  BY SpentGrows DEF ReadInv
<1>2. DOMAIN asked' = Request /\ \A r \in Request : asked[r] # None => asked'[r] = asked[r]
  <2>1. \/ asked' = asked
        \/ \E r, c : asked[r] = None /\ asked' = [asked EXCEPT ![r] = c]
    BY DEF Next, Ask, Work, Take, QueryStation, StartCall, LostParam, FinishCall, FinishUpdate,
       StartReturn, ReturnNext, FinishReturn, StartInventory, FinishInventory, RefuseMove,
       ReserveDisc, FinishMove, TakeDisc, Step, HideDone, Place, MoveDone, MoveShut, MoveFailed,
       CloseDone, ReadDone, GiveUp, LoseCall, HideLost, PlaceLost, GivesUp, Loop, Send,
       Connect, Receive, Authenticate, Drop, Execute, Happen, vars, client
  <2>. QED  BY <2>1 DEF ReadInv
<1>3. Undisturbed' => Undisturbed
  <2>1. spent'.event = 0 => spent.event = 0
    BY <1>1 DEF ReadInv
  <2>2. ASSUME NEW r \in Request, asked[r] = MoveJob
        PROVE  asked'[r] = MoveJob
    <3>1. asked[r] # None
      BY <2>2, NoneAssumption DEF MoveJob, Known
    <3>. QED  BY <1>2, <2>2, <3>1
  <2>. QED  BY <2>1, <2>2 DEF Undisturbed, MoveJob
<1>4. Undisturbed' => Quiet' /\ QuietWire'
  BY <1>3, QuietStep DEF ReadInv
<1>. QED  BY <1>1, <1>2, <1>4 DEF ReadInv

(* Two readers never fetch the same disc, for any number of workers,       *)
(* readers, discs and requests, whatever fails, times out or is cut off,   *)
(* while no door is reported and no disc is moved: the phase turns a       *)
(* second inventory away until the first one's readers are all done.       *)
THEOREM NeverReadTwice == Spec => []ReadOnce
<1>1. ReadInv => ReadOnce
  <2>. SUFFICES ASSUME ReadInv, Undisturbed, NEW t \in Helper, NEW u \in Helper,
                       Fetches(t), Fetches(u), th[t].disc = th[u].disc
                PROVE  t = u
    BY DEF ReadOnce, Fetches
  <2>1. PICK w \in Worker, k \in Reader : t = <<w, k>>
    BY DEF Helper
  <2>2. PICK v \in Worker, l \in Reader : u = <<v, l>>
    BY DEF Helper
  <2>3. th[t] # Idle /\ th[u] # Idle
    BY DEF Fetches, Idle
  <2>4. AtWork(w) /\ AtWork(v)
    <3>1. Idle.pc = "idle" /\ Fits(th[w]) /\ Fits(th[v])
      BY DEF Idle, ReadInv, Quiet, WorkerInv
    <3>. QED
      BY <2>1, <2>2, <2>3, <3>1 DEF ReadInv, Quiet, ReaderInv, Fits, AtWork, RunsAlone, Sole
  <2>5. w = v
    BY <2>4 DEF ReadInv, Quiet, PhaseInv
  <2>. QED  BY <2>1, <2>2, <2>5 DEF ReadInv, Quiet, ReaderInv
<1>. QED  BY <1>1, InitTypes, NextTypes, ReadInit, ReadStep, PTL DEF Spec

-----------------------------------------------------------------------------
(***************************************************************************)
(* No undefined behaviour.                                                 *)
(*                                                                         *)
(* A task is deleted while it is used only when wait_for gives up, and the *)
(* table of the drives is wrong only where have and media differ.  So the  *)
(* invariant is about the jobs there are, the tasks, and the two fields.   *)
(***************************************************************************)
(* Jobs are what was asked for, and the update; readers are an inventory's. *)
JobsInv ==
  /\ \A i \in DOMAIN pool : pool[i].job \in Asked \cup {"update"}
  /\ \A t \in Thread : th[t].job \in Asked \cup {"update", "idle", "read"}
  /\ "inventory" \notin Asked =>
       (\A t \in Thread : th[t].job # "read") /\ \A w \in Worker : todo[w] = {}

(* No task is deleted before it is worked off, the drives of have are those *)
(* with a disc, and whoever moves or returns a disc has one.                *)
SoundInv ==
  /\ ~undef
  /\ \A i \in TaskId : ~task[i].freed
  /\ table.have = {r \in Drive : table.media[r] # None}
  /\ \A t \in Thread : th[t].pc \in {"hide", "place", "move"} => th[t].disc \in Disc

(* What a thread's step does to its job. *)
LEMMA JobKept ==
  ASSUME Types, JobsInv, NEW t \in Thread, NEW rec, th' = [th EXCEPT ![t] = rec],
         rec.job \in {th[t].job, "idle"} \/ (rec.job = "read" /\ "inventory" \in Asked),
         UNCHANGED pool, UNCHANGED todo \/ "inventory" \in Asked
  PROVE  JobsInv'
BY DEF JobsInv, Types, ThreadTypes

(* A worker takes a job of the pool and keeps it until it is idle. *)
LEMMA WorkJobs ==
  ASSUME Types, JobsInv, NEW w \in Worker, Work(w)
  PROVE  JobsInv'
<1>1. w \in Thread /\ th[w] \in Record /\ Idle.job = "idle"
  BY DEF Types, ThreadTypes, Thread, Idle
<1>2. CASE Take(w)
  <2>1. PICK r : r = [Idle EXCEPT !.job = Head(pool).job, !.req = Head(pool).req, !.pc = "start"]
    OBVIOUS
  <2>2. th' = [th EXCEPT ![w] = r] /\ pool \in Seq(JobType) /\ pool # <<>>
        /\ pool' = Tail(pool) /\ todo' = todo
    BY <1>2, <2>1 DEF Take, Become, Types, TaskTypes
  <2>3. r.job = pool[1].job
    BY <2>1, <2>2 DEF Idle
  <2>4. 1 \in DOMAIN pool /\ \A i \in DOMAIN pool' : i + 1 \in DOMAIN pool /\ pool'[i] = pool[i + 1]
    BY <2>2
  <2>5. pool[1] \in JobType
    BY <2>2
  <2>6. r.job # "read"
    BY <2>3, <2>5 DEF JobType, Known
  <2>. QED  BY <1>1, <2>2, <2>3, <2>4, <2>6 DEF JobsInv, Types, ThreadTypes
<1>3. CASE \/ QueryStation(w) \/ LostParam(w) \/ FinishCall(w) \/ FinishReturn(w)
           \/ FinishInventory(w) \/ RefuseMove(w) \/ FinishMove(w)
  <2>1. th' = [th EXCEPT ![w] = Idle] /\ UNCHANGED <<pool, todo>>
    BY <1>3 DEF QueryStation, LostParam, FinishCall, FinishReturn, FinishInventory,
                RefuseMove, FinishMove, Become
  <2>. QED  BY <1>1, <2>1, JobKept
<1>4. CASE StartCall(w)
  <2>1. PICK d, c : Call(w, c, [th[w] EXCEPT !.disc = d], "answer")
    BY <1>4 DEF StartCall
  <2>2. PICK r : r = [[th[w] EXCEPT !.disc = d] EXCEPT !.id = next + 1, !.pc = "answer"]
    OBVIOUS
  <2>3. /\ r.job = th[w].job /\ th' = [th EXCEPT ![w] = r] /\ UNCHANGED <<pool, todo>>
    BY <1>1, <1>4, <2>1, <2>2 DEF Record, Call, Become, StartCall
  <2>. QED  BY <1>1, <2>3, JobKept
<1>5. CASE FinishUpdate(w) \/ StartReturn(w)
  <2>1. PICK r : r = [th[w] EXCEPT !.pc = "return", !.drive = 1]
    OBVIOUS
  <2>2. /\ r.job = th[w].job /\ UNCHANGED <<pool, todo>>
        /\ th' = [th EXCEPT ![w] = r] \/ th' = [th EXCEPT ![w] = Idle]
    BY <1>1, <1>5, <2>1 DEF Record, FinishUpdate, StartReturn, Become
  <2>. QED  BY <1>1, <2>2, JobKept
<1>6. CASE ReturnNext(w)
  <2>1. PICK d : Hide(w, d)
    BY <1>6 DEF ReturnNext
  <2>2. PICK r : r = [[th[w] EXCEPT !.drive = d, !.disc = table.media[d]]
                        EXCEPT !.id = next + 1, !.pc = "hide"]
    OBVIOUS
  <2>3. r.job = th[w].job /\ th' = [th EXCEPT ![w] = r] /\ UNCHANGED <<pool, todo>>
    BY <1>1, <1>6, <2>1, <2>2 DEF Record, Hide, Call, Become, ReturnNext
  <2>. QED  BY <1>1, <2>3, JobKept
<1>7. CASE StartInventory(w)
  <2>1. PICK r : r = [th[w] EXCEPT !.pc = "inventory"]
    OBVIOUS
  <2>2. /\ r.job = th[w].job /\ th' = [th EXCEPT ![w] = r] /\ UNCHANGED pool
        /\ th[w].job = "inventory"
    BY <1>1, <1>7, <2>1 DEF Record, StartInventory, Become
  <2>3. "inventory" \in Asked
    BY <1>1, <2>2 DEF JobsInv
  <2>. QED  BY <1>1, <2>2, <2>3, JobKept
<1>8. CASE ReserveDisc(w)
  <2>1. PICK d : Become(w, [th[w] EXCEPT !.pc = "place", !.disc = d])
    BY <1>8 DEF ReserveDisc
  <2>2. PICK r : r = [th[w] EXCEPT !.pc = "place", !.disc = d]
    OBVIOUS
  <2>3. r.job = th[w].job /\ th' = [th EXCEPT ![w] = r] /\ UNCHANGED <<pool, todo>>
    BY <1>1, <1>8, <2>1, <2>2 DEF Record, ReserveDisc, Become
  <2>. QED  BY <1>1, <2>3, JobKept
<1>9. ASSUME NEW k \in Reader, TakeDisc(w, k)
      PROVE  JobsInv'
  <2>1. PICK d \in todo[w] : Become(<<w, k>>, [Idle EXCEPT !.job = "read", !.pc = "place",
                                                           !.disc = d])
    BY <1>9 DEF TakeDisc
  <2>2. PICK r : r = [Idle EXCEPT !.job = "read", !.pc = "place", !.disc = d]
    OBVIOUS
  <2>3. r.job = "read" /\ th' = [th EXCEPT ![<<w, k>>] = r] /\ UNCHANGED pool
    BY <1>9, <2>1, <2>2 DEF TakeDisc, Become, Idle
  <2>4. "inventory" \in Asked /\ <<w, k>> \in Thread
    BY <2>1, HelperIsNoWorker DEF JobsInv
  <2>. QED  BY <2>3, <2>4, JobKept
<1>. QED
  BY <1>2, <1>3, <1>4, <1>5, <1>6, <1>7, <1>8, <1>9 DEF Work

(* So does a thread at a drive. *)
LEMMA StepJobs ==
  ASSUME Types, JobsInv, NEW t \in Thread,
         Step(t) \/ HideLost(t) \/ PlaceLost(t) \/ (t \in Worker /\ LoseCall(t))
  PROVE  JobsInv'
<1>1. th[t] \in Record /\ Idle.job = "idle"
  BY DEF Types, ThreadTypes, Idle
<1>2. UNCHANGED <<pool, todo>>
  BY DEF Step, HideDone, Place, MoveDone, MoveShut, MoveFailed, CloseDone, ReadDone, HideLost,
         PlaceLost, LoseCall
<1>3. CASE HideDone(t) \/ HideLost(t)
  <2>1. PICK worked \in BOOLEAN : th' = [th EXCEPT ![t] = AfterHide(t, worked)]
    BY <1>3 DEF HideDone, HideLost, Become
  <2>2. PICK v : v = IF worked THEN th[t].drive + 1 ELSE NDrive + 1
    OBVIOUS
  <2>3. PICK r : r = [th[t] EXCEPT !.pc = "return", !.drive = v]
    OBVIOUS
  <2>4. r.job = th[t].job /\ (th' = [th EXCEPT ![t] = r] \/ th' = [th EXCEPT ![t] = Idle])
    BY <1>1, <2>1, <2>2, <2>3 DEF Record, AfterHide
  <2>. QED  BY <1>1, <1>2, <2>4, JobKept
<1>4. CASE Place(t)
  <2>1. PICK d : Call(t, Cmd("CMOV", d, th[t].disc), [th[t] EXCEPT !.drive = d], "move")
    BY <1>4 DEF Place, FreeDrive
  <2>2. PICK r : r = [[th[t] EXCEPT !.drive = d] EXCEPT !.id = next + 1, !.pc = "move"]
    OBVIOUS
  <2>3. r.job = th[t].job /\ th' = [th EXCEPT ![t] = r]
    BY <1>1, <2>1, <2>2 DEF Record, Call, Become
  <2>. QED  BY <1>2, <2>3, JobKept
<1>5. CASE MoveDone(t)
  <2>1. PICK r : r = [th[t] EXCEPT !.id = next + 1, !.pc = "close"]
    OBVIOUS
  <2>2. r.job = th[t].job /\ th' = [th EXCEPT ![t] = r]
    BY <1>1, <1>5, <2>1 DEF MoveDone, Record, Call, Become
  <2>. QED  BY <1>2, <2>2, JobKept
<1>6. CASE MoveShut(t) \/ MoveFailed(t) \/ CloseDone(t) \/ PlaceLost(t) \/ (t \in Worker /\ LoseCall(t))
  <2>1. PICK r : r = [th[t] EXCEPT !.pc = "placed"]
    OBVIOUS
  <2>2. /\ r.job = th[t].job
        /\ th' = [th EXCEPT ![t] = r] \/ th' = [th EXCEPT ![t] = Idle]
    BY <1>1, <1>6, <2>1 DEF Record, MoveShut, MoveFailed, CloseDone, PlaceLost, LoseCall, Become
  <2>. QED  BY <1>1, <1>2, <2>2, JobKept
<1>7. CASE ReadDone(t)
  <2>1. PICK r : r = [[th[t] EXCEPT !.drive = th[t].drive, !.disc = table.media[th[t].drive]]
                        EXCEPT !.id = next + 1, !.pc = "hide"]
    OBVIOUS
  <2>2. r.job = th[t].job /\ th' = [th EXCEPT ![t] = r]
    BY <1>1, <1>7, <2>1 DEF Record, ReadDone, Hide, Call, Become
  <2>. QED  BY <1>2, <2>2, JobKept
<1>. QED  BY <1>3, <1>4, <1>5, <1>6, <1>7 DEF Step

(* A job comes from a request that is asked, or is an update. *)
LEMMA JobsStep ==
  ASSUME Types, JobsInv, [Next]_vars
  PROVE  JobsInv'
<1>1. ASSUME NEW r \in Request, NEW c \in Asked, Ask(r, c)
      PROVE  JobsInv'
  <2>1. PICK j : j = [job |-> c, req |-> r]
    OBVIOUS
  <2>2. UNCHANGED <<th, todo>> /\ pool' \in {pool, Append(pool, j)} /\ j.job = c
        /\ pool \in Seq(JobType)
    BY <1>1, <2>1 DEF Ask, Types, TaskTypes
  <2>3. \A i \in DOMAIN pool' : (i \in DOMAIN pool /\ pool'[i] = pool[i]) \/ pool'[i] = j
    BY <2>2
  <2>. QED  BY <2>2, <2>3 DEF JobsInv
<1>2. ASSUME NEW n \in 1 .. Len(toSvr), Receive(n)
      PROVE  JobsInv'
  <2>1. PICK j : j = [job |-> "update", req |-> None]
    OBVIOUS
  <2>2. UNCHANGED <<th, todo>> /\ pool' \in {pool, Append(pool, j)} /\ j.job = "update"
        /\ pool \in Seq(JobType)
    BY <1>2, <2>1 DEF Receive, Types, TaskTypes
  <2>3. \A i \in DOMAIN pool' : (i \in DOMAIN pool /\ pool'[i] = pool[i]) \/ pool'[i] = j
    BY <2>2
  <2>. QED  BY <2>2, <2>3 DEF JobsInv
<1>3. CASE \/ Send \/ Connect \/ Authenticate \/ Drop \/ Execute
           \/ (\E e \in Event : Happen(e)) \/ UNCHANGED vars
  <2>1. UNCHANGED <<th, todo, pool>>
    BY <1>3 DEF Send, Connect, Authenticate, Drop, Execute, Happen, vars, server
  <2>. QED  BY <2>1 DEF JobsInv
<1>4. \A w \in Worker : w \in Thread
  BY DEF Thread
<1>. QED  BY <1>1, <1>2, <1>3, <1>4, WorkJobs, StepJobs DEF Next, GiveUp, Loop

(* The service starts with one update. *)
LEMMA JobsInit == Init => JobsInv
<1>. SUFFICES ASSUME Init PROVE JobsInv
  OBVIOUS
<1>1. DOMAIN pool = {1} /\ pool[1].job = "update" /\ \A t \in Thread : th[t].job = "idle"
  BY DEF Init, Idle
<1>. QED  BY <1>1 DEF Init, JobsInv

(* A thread's step that keeps its disc, or has a disc of m_storage. *)
LEMMA SoundKept ==
  ASSUME Types, SoundInv, NEW t \in Thread, NEW rec, th' = [th EXCEPT ![t] = rec],
         rec.pc \in {"hide", "place", "move"} => rec.disc \in Disc,
         table'.have = {r \in Drive : table'.media[r] # None}, ~undef',
         \A i \in TaskId : ~task'[i].freed
  PROVE  SoundInv'
BY DEF SoundInv, Types, ThreadTypes

(* A new task is not deleted. *)
LEMMA CallSound ==
  ASSUME Types, SoundInv, NEW t, NEW c, NEW rec, NEW p, Call(t, c, rec, p)
  PROVE  \A i \in TaskId : ~task'[i].freed
<1>1. PICK k : k = [cmd |-> c, sent |-> FALSE, freed |-> FALSE]
  OBVIOUS
<1>2. ~k.freed /\ task' = [task EXCEPT ![next + 1] = k] /\ task \in [TaskId -> TaskType]
  BY <1>1 DEF Call, Types, TaskTypes
<1>. QED  BY <1>2 DEF SoundInv

(* A thread that returns the disc of a drive of have has one. *)
LEMMA HideSound ==
  ASSUME Types, SoundInv, NEW t \in Thread, NEW d \in table.have, Hide(t, d),
         UNCHANGED <<table, undef>>
  PROVE  SoundInv'
<1>1. /\ th[t] \in Record /\ d \in Drive /\ table.media[d] \in Disc
  BY DEF Types, ThreadTypes, SoundInv, TableTypes, Table, Held
<1>2. PICK q : q = [th[t] EXCEPT !.drive = d, !.disc = table.media[d]]
  OBVIOUS
<1>3. Call(t, Cmd("HIDE", d, None), q, "hide")
  BY <1>2 DEF Hide
<1>4. PICK r : r = [q EXCEPT !.id = next + 1, !.pc = "hide"]
  OBVIOUS
<1>5. r.disc = table.media[d] /\ th' = [th EXCEPT ![t] = r]
  BY <1>1, <1>2, <1>3, <1>4 DEF Record, Call, Become
<1>6. \A i \in TaskId : ~task'[i].freed
  BY <1>3, CallSound
<1>7. table'.have = {r2 \in Drive : table'.media[r2] # None} /\ ~undef'
  BY DEF SoundInv
<1>. QED  BY <1>1, <1>5, <1>6, <1>7, SoundKept

(* The workers keep what have and media say together.  A disc is returned  *)
(* only from a drive of have.                                              *)
LEMMA WorkSound ==
  ASSUME Types, JobsInv, SoundInv, NEW w \in Worker, Work(w),
         Asked \cap {"inventory", "mailbox import disc"} = {}
  PROVE  SoundInv'
<1>1. /\ w \in Thread /\ th[w] \in Record /\ Idle.pc = "idle" /\ TaskTypes /\ table \in Table
      /\ th[w].job \notin {"inventory", "mailbox import disc"} /\ todo[w] = {}
      /\ table.exist \subseteq Disc
  <2>1. th[w].job \notin {"inventory", "mailbox import disc"} /\ todo[w] = {}
    BY DEF JobsInv, Thread
  <2>2. w \in Thread /\ Idle.pc = "idle" /\ TaskTypes
    BY DEF Types, Thread, Idle
  <2>. QED  BY <2>1, <2>2 DEF Types, ThreadTypes, TableTypes, SoundInv
<1>2. ASSUME UNCHANGED table
      PROVE  table'.have = {r \in Drive : table'.media[r] # None}
  BY <1>2 DEF SoundInv
<1>3. ASSUME UNCHANGED task
      PROVE  \A i \in TaskId : ~task'[i].freed
  BY <1>3 DEF SoundInv
<1>4. CASE Take(w)
  <2>1. PICK r : r = [Idle EXCEPT !.job = Head(pool).job, !.req = Head(pool).req, !.pc = "start"]
    OBVIOUS
  <2>2. r.pc = "start" /\ th' = [th EXCEPT ![w] = r] /\ UNCHANGED <<task, table, undef>>
    BY <1>4, <2>1 DEF Take, Become, Idle
  <2>. QED  BY <1>1, <1>2, <1>3, <2>2, SoundKept DEF SoundInv
<1>5. CASE QueryStation(w) \/ LostParam(w) \/ FinishReturn(w) \/ FinishInventory(w)
           \/ RefuseMove(w) \/ FinishMove(w)
  <2>1. th' = [th EXCEPT ![w] = Idle] /\ UNCHANGED <<task, table, undef>>
    BY <1>5 DEF QueryStation, LostParam, FinishReturn, FinishInventory, RefuseMove,
                FinishMove, Become
  <2>. QED  BY <1>1, <1>2, <1>3, <2>1, SoundKept DEF SoundInv
<1>6. CASE FinishCall(w)
  <2>1. th' = [th EXCEPT ![w] = Idle] /\ UNCHANGED <<task, undef>>
    BY <1>1, <1>6 DEF FinishCall, Become
  <2>2. table' = table \/ table' = Exported(th[w].disc)
    BY <1>1, <1>6 DEF FinishCall
  <2>3. table'.have = table.have /\ table'.media = table.media
    BY <1>1, <2>2 DEF Exported, Table
  <2>4. table'.have = {r \in Drive : table'.media[r] # None} /\ ~undef'
    BY <2>1, <2>3 DEF SoundInv
  <2>. QED  BY <1>1, <1>3, <2>1, <2>4, SoundKept
<1>7. CASE StartCall(w)
  <2>1. PICK d, c : Call(w, c, [th[w] EXCEPT !.disc = d], "answer")
    BY <1>7 DEF StartCall
  <2>2. PICK q : q = [th[w] EXCEPT !.disc = d]
    OBVIOUS
  <2>3. Call(w, c, q, "answer")
    BY <2>1, <2>2
  <2>4. PICK r : r = [q EXCEPT !.id = next + 1, !.pc = "answer"]
    OBVIOUS
  <2>5. r.pc = "answer" /\ th' = [th EXCEPT ![w] = r] /\ UNCHANGED <<table, undef>>
    BY <1>1, <1>7, <2>2, <2>3, <2>4 DEF Record, Call, Become, StartCall
  <2>6. \A i \in TaskId : ~task'[i].freed
    BY <2>3, CallSound
  <2>. QED  BY <1>1, <1>2, <2>5, <2>6, SoundKept DEF SoundInv
<1>8. CASE FinishUpdate(w)
  <2>1. PICK r : r = [th[w] EXCEPT !.pc = "return", !.drive = 1]
    OBVIOUS
  <2>2. /\ r.pc = "return" /\ UNCHANGED <<task, undef>>
        /\ th' = [th EXCEPT ![w] = r] \/ th' = [th EXCEPT ![w] = Idle]
    BY <1>1, <1>8, <2>1 DEF Record, FinishUpdate, Become
  <2>3. \/ table' = table
        \/ table' = Updated(Answer(w).map)
    BY <1>8 DEF FinishUpdate
  <2>4. table'.have = {q \in Drive : table'.media[q] # None}
    <3>1. PICK m : m = Answer(w).map
      OBVIOUS
    <3>2. PICK u : u = Updated(m)
      OBVIOUS
    <3>3. u.media = m.held /\ u.have = {q \in Drive : m.held[q] # None}
      BY <1>1, <3>2 DEF Updated, Table
    <3>. QED  BY <1>2, <2>3, <3>1, <3>2, <3>3
  <2>5. ~undef' /\ \A i \in TaskId : ~task'[i].freed
    BY <1>3, <2>2 DEF SoundInv
  <2>. QED  BY <1>1, <2>2, <2>4, <2>5, SoundKept
<1>9. CASE StartReturn(w)
  <2>1. PICK r : r = [th[w] EXCEPT !.pc = "return", !.drive = 1]
    OBVIOUS
  <2>2. r.pc = "return" /\ UNCHANGED <<task, table, undef>> /\ th' = [th EXCEPT ![w] = r]
    BY <1>1, <1>9, <2>1 DEF Record, StartReturn, Become
  <2>. QED  BY <1>1, <1>2, <1>3, <2>2, SoundKept DEF SoundInv
<1>10. CASE ReturnNext(w)
  <2>1. PICK d \in table.have : Hide(w, d)
    BY <1>10 DEF ReturnNext
  <2>2. UNCHANGED <<table, undef>>
    BY <1>10 DEF ReturnNext
  <2>. QED  BY <1>1, <2>1, <2>2, HideSound
<1>11. CASE StartInventory(w) \/ \E k \in Reader : TakeDisc(w, k)
  BY <1>1, <1>11 DEF StartInventory, TakeDisc
<1>12. CASE ReserveDisc(w)
  <2>1. PICK d \in Disc : /\ Become(w, [th[w] EXCEPT !.pc = "place", !.disc = d])
                          /\ table' = [table EXCEPT !.blank = @ \ {d}]
    BY <1>1, <1>12 DEF ReserveDisc
  <2>2. PICK r : r = [th[w] EXCEPT !.pc = "place", !.disc = d]
    OBVIOUS
  <2>3. r.disc = d /\ th' = [th EXCEPT ![w] = r] /\ UNCHANGED <<task, undef>>
    BY <1>1, <1>12, <2>1, <2>2 DEF Record, ReserveDisc, Become
  <2>4. table'.have = table.have /\ table'.media = table.media
    BY <1>1, <2>1 DEF Table
  <2>5. table'.have = {q \in Drive : table'.media[q] # None} /\ ~undef'
    BY <2>3, <2>4 DEF SoundInv
  <2>. QED  BY <1>1, <1>3, <2>3, <2>5, SoundKept
<1>. QED
  BY <1>4, <1>5, <1>6, <1>7, <1>8, <1>9, <1>10, <1>11, <1>12 DEF Work

(* So do the threads at a drive. *)
LEMMA StepSound ==
  ASSUME Types, JobsInv, SoundInv, NEW t \in Thread, Step(t),
         Asked \cap {"inventory", "mailbox import disc"} = {}
  PROVE  SoundInv'
<1>1. /\ th[t] \in Record /\ Idle.pc = "idle" /\ TaskTypes /\ table \in Table
      /\ th[t].job # "read" /\ (th[t].pc \in AtDrive => th[t].drive \in Drive)
  <2>1. th[t].job # "read" /\ Idle.pc = "idle" /\ TaskTypes
    BY DEF JobsInv, Idle, Types
  <2>. QED  BY <2>1 DEF Types, ThreadTypes, TableTypes
<1>2. ASSUME UNCHANGED table
      PROVE  table'.have = {r \in Drive : table'.media[r] # None}
  BY <1>2 DEF SoundInv
<1>3. ASSUME UNCHANGED task
      PROVE  \A i \in TaskId : ~task'[i].freed
  BY <1>3 DEF SoundInv
<1>4. CASE HideDone(t)
  <2>1. PICK worked \in BOOLEAN : th' = [th EXCEPT ![t] = AfterHide(t, worked)]
    BY <1>4 DEF HideDone, Become
  <2>2. th[t].pc = "hide" /\ th[t].drive \in Drive /\ th[t].disc \in Disc /\ UNCHANGED task
    BY <1>1, <1>4 DEF HideDone, Answered, AtDrive, SoundInv
  <2>3. AfterHide(t, worked).pc \notin AtDrive \cup {"place"}
    <3>1. PICK v : v = IF worked THEN th[t].drive + 1 ELSE NDrive + 1
      OBVIOUS
    <3>2. PICK r : r = [th[t] EXCEPT !.pc = "return", !.drive = v]
      OBVIOUS
    <3>3. r.pc = "return" /\ AfterHide(t, worked) \in {Idle, r}
      BY <1>1, <3>1, <3>2 DEF Record, AfterHide
    <3>. QED  BY <1>1, <3>3 DEF AtDrive
  <2>4. PICK e : e = Emptied(th[t].drive)
    OBVIOUS
  <2>5. e.have = table.have \ {th[t].drive} /\ e.media = [table.media EXCEPT ![th[t].drive] = None]
        /\ e \in Table
    BY <1>1, <2>2, <2>4, TableOps DEF Emptied, Table
  <2>6. \/ table' = table
        \/ table' = e
        \/ table' = [e EXCEPT !.exist = @ \cup {th[t].disc}]
    BY <1>4, <2>4 DEF HideDone
  <2>7. table'.have = {r \in Drive : table'.media[r] # None}
    <3>1. e.have = {r \in Drive : e.media[r] # None}
      BY <1>1, <2>2, <2>5 DEF SoundInv, Table
    <3>2. CASE table' = [e EXCEPT !.exist = @ \cup {th[t].disc}]
      <4>1. table'.have = e.have /\ table'.media = e.media
        BY <2>5, <3>2 DEF Table
      <4>. QED  BY <3>1, <4>1
    <3>. QED  BY <1>2, <2>6, <3>1, <3>2
  <2>8. ~undef'
    BY <1>4, <2>2, NoneAssumption DEF HideDone
  <2>. QED  BY <1>3, <2>1, <2>2, <2>3, <2>7, <2>8, SoundKept DEF AtDrive
<1>5. CASE Place(t)
  <2>1. PICK d : Call(t, Cmd("CMOV", d, th[t].disc), [th[t] EXCEPT !.drive = d], "move")
    BY <1>5 DEF Place, FreeDrive
  <2>2. PICK q : q = [th[t] EXCEPT !.drive = d]
    OBVIOUS
  <2>3. Call(t, Cmd("CMOV", d, th[t].disc), q, "move")
    BY <2>1, <2>2
  <2>4. PICK r : r = [q EXCEPT !.id = next + 1, !.pc = "move"]
    OBVIOUS
  <2>5. /\ r.disc = th[t].disc /\ th' = [th EXCEPT ![t] = r] /\ UNCHANGED <<table, undef>>
        /\ th[t].pc = "place"
    BY <1>1, <1>5, <2>2, <2>3, <2>4 DEF Record, Call, Become, Place
  <2>6. \A i \in TaskId : ~task'[i].freed
    BY <2>3, CallSound
  <2>. QED  BY <1>2, <2>5, <2>6, SoundKept DEF SoundInv
<1>6. CASE MoveDone(t) \/ MoveShut(t)
  <2>1. th[t].pc = "move"
    BY <1>6 DEF MoveDone, MoveShut, Answered
  <2>2. PICK r : r \in {[th[t] EXCEPT !.id = next + 1, !.pc = "close"],
                        [th[t] EXCEPT !.pc = "placed"]} /\ th' = [th EXCEPT ![t] = r]
    BY <1>6 DEF Call, Become, MoveDone, MoveShut
  <2>3. r.pc \in {"close", "placed"} /\ UNCHANGED undef
    BY <1>1, <1>6, <2>2 DEF Record, MoveDone, MoveShut
  <2>4. \A i \in TaskId : ~task'[i].freed
    <3>1. CASE MoveDone(t)
      BY <3>1, CallSound DEF MoveDone
    <3>2. CASE MoveShut(t)
      BY <1>3, <3>2 DEF MoveShut
    <3>. QED  BY <1>6, <3>1, <3>2
  <2>5. th[t].drive \in Drive /\ th[t].disc \in Disc
    BY <1>1, <2>1 DEF AtDrive, SoundInv
  <2>6. /\ table'.have = table.have \cup {th[t].drive}
        /\ table'.media = [table.media EXCEPT ![th[t].drive] = th[t].disc]
    BY <1>1, <1>6 DEF MoveDone, MoveShut, Filled, Table
  <2>7. table'.have = {q \in Drive : table'.media[q] # None}
    <3>1. table.have = {q \in Drive : table.media[q] # None} /\ th[t].disc # None
          /\ table.media \in [Drive -> Held]
      BY <1>1, <2>5, NoneAssumption DEF SoundInv, Table
    <3>. QED  BY <2>5, <2>6, <3>1
  <2>8. ~undef'
    BY <2>3 DEF SoundInv
  <2>. QED  BY <2>2, <2>3, <2>4, <2>7, <2>8, SoundKept
<1>7. CASE MoveFailed(t) \/ CloseDone(t)
  <2>1. PICK r : r = [th[t] EXCEPT !.pc = "placed"]
    OBVIOUS
  <2>2. /\ r.pc = "placed" /\ UNCHANGED <<task, table, undef>>
        /\ th' = [th EXCEPT ![t] = r] \/ th' = [th EXCEPT ![t] = Idle]
    BY <1>1, <1>7, <2>1 DEF Record, MoveFailed, CloseDone, Become
  <2>. QED  BY <1>1, <1>2, <1>3, <2>2, SoundKept DEF SoundInv
<1>8. CASE ReadDone(t)
  BY <1>1, <1>8 DEF ReadDone
<1>. QED  BY <1>4, <1>5, <1>6, <1>7, <1>8 DEF Step

(* Without a timeout to spend none is spent. *)
LEMMA NeverGivesUp ==
  ASSUME MaxTimeout = 0, spent.timeout \in Nat
  PROVE  ~(spent.timeout < MaxTimeout)
OBVIOUS

(* Nothing is given up, so nothing is deleted. *)
LEMMA SoundStep ==
  ASSUME Types, ReadInv, JobsInv, SoundInv, [Next]_vars, MaxTimeout = 0,
         Asked \cap {"inventory", "mailbox import disc"} = {}
  PROVE  SoundInv'
<1>1. ~GiveUp
  <2>1. spent.timeout \in Nat
    BY DEF ReadInv
  <2>2. ~(spent.timeout < MaxTimeout)
    BY <2>1, NeverGivesUp
  <2>. QED  BY <2>2 DEF GiveUp, LoseCall, HideLost, PlaceLost, GivesUp
<1>2. ASSUME UNCHANGED <<th, task, table, undef>>
      PROVE  SoundInv'
  BY <1>2 DEF SoundInv
<1>3. CASE \/ Connect \/ Authenticate \/ Drop \/ Execute \/ UNCHANGED vars
           \/ (\E e \in Event : Happen(e)) \/ (\E r \in Request, c \in Asked : Ask(r, c))
  <2>1. UNCHANGED <<th, task, table, undef>>
    BY <1>3 DEF Connect, Authenticate, Drop, Execute, Happen, Ask, vars, server
  <2>. QED  BY <1>2, <2>1
<1>4. CASE Send
  <2>1. PICK f \in TaskId : f = Head(queue) /\ task[f] \in TaskType
    BY <1>4, HeadTyped DEF Send, Types, TaskTypes
  <2>2. UNCHANGED <<th, table, undef>> /\ task' = [task EXCEPT ![f].sent = TRUE]
    BY <1>4, <2>1 DEF Send, SoundInv
  <2>3. [task[f] EXCEPT !.sent = TRUE].freed = task[f].freed
    BY <2>1 DEF TaskType
  <2>4. \A i \in TaskId : ~task'[i].freed
    BY <2>1, <2>2, <2>3 DEF SoundInv, Types, TaskTypes
  <2>. QED  BY <2>2, <2>4 DEF SoundInv
<1>5. ASSUME NEW n \in 1 .. Len(toSvr), Receive(n)
      PROVE  SoundInv'
  <2>1. UNCHANGED <<th, task, table>>
    BY <1>5 DEF Receive
  <2>2. undef' = undef \/ (queue # <<>> /\ undef' = task[Head(queue)].freed)
    BY <1>5 DEF Receive, Process
  <2>3. queue # <<>> => Head(queue) \in TaskId
    BY HeadTyped DEF Types, TaskTypes
  <2>4. ~undef'
    BY <2>2, <2>3 DEF SoundInv
  <2>. QED  BY <2>1, <2>4 DEF SoundInv
<1>. QED
  BY <1>1, <1>3, <1>4, <1>5, WorkSound, StepSound DEF Next, Loop

(* Nothing is in m_storage at first. *)
LEMMA SoundInit == Init => SoundInv
<1>. SUFFICES ASSUME Init PROVE SoundInv
  OBVIOUS
<1>1. \A t \in Thread : th[t].pc = "idle"
  BY DEF Init, Idle
<1>2. table.have = {r \in Drive : table.media[r] # None}
  BY DEF Init
<1>3. ~undef /\ \A i \in TaskId : ~task[i].freed
  BY DEF Init
<1>. QED  BY <1>1, <1>2, <1>3 DEF SoundInv

(* No freed task, no null reference and no address of no disc is used, for *)
(* any number of threads, requests, drives and discs, whatever fails and   *)
(* however often the connection breaks.  The assumptions leave out the three *)
(* ways to undefined behaviour there are: a wait_for that gives up, an     *)
(* import nothing was exported for, and an inventory, whose readers may    *)
(* both return the disc of one drive.                                      *)
THEOREM NothingIsUndefined ==
  ASSUME MaxTimeout = 0, Asked \cap {"inventory", "mailbox import disc"} = {}
  PROVE  Spec => []NothingUndefined
<1>1. SoundInv => NothingUndefined
  BY DEF SoundInv, NothingUndefined
<1>2. Types /\ ReadInv /\ JobsInv /\ SoundInv /\ [Next]_vars => SoundInv'
  BY SoundStep
<1>3. Types /\ ReadInv /\ JobsInv /\ [Next]_vars => Types' /\ ReadInv' /\ JobsInv'
  BY NextTypes, ReadStep, JobsStep
<1>. QED
  BY <1>1, <1>2, <1>3, InitTypes, ReadInit, JobsInit, SoundInit, PTL DEF Spec

-----------------------------------------------------------------------------
(***************************************************************************)
(* The ledger.                                                             *)
(*                                                                         *)
(* LedgerAgrees says nothing of a drive that a HIDE or a CMOV concerns, so *)
(* it is not inductive.  The invariant says what becomes of such a drive:  *)
(* the entry is right, or the at91 did what some thread waits for, and     *)
(* that thread is told nothing else (BookInv).  For that, a HIDE or a CMOV *)
(* that was not worked off has its thread (DriveInv); a drive that is      *)
(* filled is nobody else's (SpaceInv); the answers are those of older      *)
(* tasks than the queue's (OrderInv), the at91 gets the commands as they   *)
(* were made (CmdInv), and the map that fills the ledger is the one the    *)
(* at91 saw, for nothing moves before it is entered (StartInv).            *)
(***************************************************************************)
(* What the theorem assumes of the constants. *)
Plain ==
  /\ MaxTimeout = 0 /\ Event = {} /\ "inventory" \notin Asked
  /\ "return disc" \notin Asked \/ MoveJob \notin Asked

(* What is in drive r when the discs are where a says. *)
HoldsIn(a, r) == IF \E d \in Disc : a[d] = r THEN CHOOSE d \in Disc : a[d] = r ELSE None

(* Of the frames f under way and the answers s on file, one to task i has  *)
(* the code c.                                                             *)
Told(f, s, i, c) == \/ \E k \in 1 .. Len(f) : f[k].id = i /\ f[k].code = c
                    \/ i \in DOMAIN s /\ s[i].code = c

Live(i) == (\E k \in 1 .. Len(queue) : queue[k] = i) \/ i \in DOMAIN results

(* The at91 worked off task i, and will not do so again. *)
Worked(i) == task[i].sent /\ \A k \in 1 .. Len(toDev) : toDev[k].id # i

(* A thread with the record x waits for its drive to be emptied or filled, *)
(* by the command Order(x); Ends are the answers after which it was, and   *)
(* Puts is what the drive then holds.                                      *)
Handles(x) == x.pc \in {"hide", "move"}
Order(x)   == IF x.pc = "hide" THEN Cmd("HIDE", x.drive, None) ELSE Cmd("CMOV", x.drive, x.disc)
Handling == {"HIDE", "CMOV"}
Ends(c)  == IF c.op = "HIDE" THEN {"ok", "none"} ELSE {"ok"}
Puts(c)  == IF c.op = "HIDE" THEN None ELSE c.disc

(* What a thread may be at, without inventories. *)
Stage(x) ==
  \/ x.pc \in {"idle", "start", "answer"}
  \/ x.pc \in {"return", "hide"} /\ x.job \in {"update", "return disc"}
  \/ x.pc \in {"place", "move", "close", "placed"} /\ x.job = MoveJob

(* The update that fills the ledger is the only one, and until it has      *)
(* done so the phase is INIT.                                              *)
Opens(x) == x.job = "update" /\ x.pc \in {"start", "answer"}
Waiting(i) == i \in DOMAIN pool /\ pool[i].job = "update"
RoleInv ==
  /\ \A t \in Thread : Stage(th[t])
  /\ \A i : Waiting(i) => phase = "INIT"
  /\ \A t \in Thread : Opens(th[t]) => phase = "INIT"
  /\ \A i, j : Waiting(i) /\ Waiting(j) => i = j
  /\ \A t, u \in Thread : th[t].job = "update" /\ th[u].job = "update" => t = u
  /\ \A i : \A t \in Thread : ~(Waiting(i) /\ th[t].job = "update")

(* Before the first update ends nothing but it runs, and nothing moves. *)
StartInv ==
  phase = "INIT" =>
    /\ \A i \in DOMAIN pool : pool[i].job = "update"
    /\ \A t \in Thread : th[t] = Idle \/ Opens(th[t])
    /\ \A i \in TaskId : task[i].cmd.op = "GMAP"
    /\ \A k \in 1 .. Len(toSvr) : toSvr[k].code = "map" =>
         \A r \in Drive : toSvr[k].map.held[r] = HoldsIn(at, r)
    /\ \A i \in DOMAIN results : results[i].code = "map" =>
         \A r \in Drive : results[i].map.held[r] = HoldsIn(at, r)

(* Answered tasks are older than those in the queue. *)
OrderInv ==
  \A j \in DOMAIN results : j <= next /\ \A k \in 1 .. Len(queue) : j < queue[k]

(* What is sent is the command of its task. *)
CmdInv == \A k \in 1 .. Len(toDev) : toDev[k].cmd = task[toDev[k].id].cmd

(* A HIDE or a CMOV that was not worked off has its thread, and once the   *)
(* at91 says that it is done the drive stays as it left it.                *)
DriveInv ==
  /\ \A i \in TaskId : Live(i) /\ task[i].cmd.op \in Handling =>
       \E u \in Thread : Handles(th[u]) /\ th[u].id = i
  /\ \A u \in Thread : Handles(th[u]) =>
       /\ th[u].id \in TaskId /\ th[u].id <= next /\ task[th[u].id].cmd = Order(th[u])
       /\ \A c \in Ends(Order(th[u])) : Told(toSvr, results, th[u].id, c) =>
            HoldsIn(at, th[u].drive) = Puts(Order(th[u]))

(* Discs are moved into drives that m_storage takes for empty, and, where  *)
(* any are moved, only taken from drives that it knows to have one.        *)
SpaceInv ==
  /\ \A u \in Thread : th[u].pc = "hide" /\ MoveJob \in Asked => th[u].drive \in table.have
  /\ \A u \in Thread : th[u].pc = "move" =>
       th[u].drive \notin table.have /\ table.media[th[u].drive] = None

(* Where m_storage and the machine disagree, the drive was emptied or      *)
(* filled, and a thread is going to learn it.                              *)
Learns(u, r) ==
  /\ Handles(th[u]) /\ th[u].drive = r /\ HoldsIn(at, r) = Puts(Order(th[u]))
  /\ Worked(th[u].id)
  /\ \A c : Told(toSvr, results, th[u].id, c) => c \in Ends(Order(th[u]))
Entered(r) == table.media[r] = HoldsIn(at, r) \/ \E u \in Thread : Learns(u, r)
BookInv == phase # "INIT" => \A r \in Drive : Entered(r)

Ledger == OrderInv /\ CmdInv /\ DriveInv /\ SpaceInv /\ BookInv

(* What is known of the threads, the queue and the wire. *)
Calm == Types /\ AnswerInv /\ LockInv /\ QuietWire /\ JobsInv /\ RoleInv /\ StartInv

(* What a drive holds depends on where discs that are in it are, no others. *)
LEMMA SameHolds ==
  ASSUME NEW a, NEW b, NEW r, \A d \in Disc : b[d] = r <=> a[d] = r
  PROVE  HoldsIn(b, r) = HoldsIn(a, r)
BY DEF HoldsIn

(* An empty drive is one that holds None. *)
LEMMA BareHoldsNone ==
  ASSUME NEW a, NEW r
  PROVE  (\A d \in Disc : a[d] # r) <=> HoldsIn(a, r) = None
<1>1. CASE \A d \in Disc : a[d] # r
  BY <1>1 DEF HoldsIn
<1>2. CASE \E d \in Disc : a[d] = r
  <2>1. (CHOOSE d \in Disc : a[d] = r) \in Disc
    BY <1>2
  <2>. QED  BY <1>2, <2>1, NoneAssumption DEF HoldsIn
<1>. QED  BY <1>1, <1>2

(* An answer that is taken away tells no more. *)
LEMMA ToldLess ==
  ASSUME NEW f, NEW s, NEW q, \A j \in DOMAIN q : j \in DOMAIN s /\ q[j] = s[j]
  PROVE  \A i, c : Told(f, q, i, c) => Told(f, s, i, c)
BY DEF Told

(* What a thread orders, by what it waits for. *)
LEMMA Orders ==
  ASSUME NEW x, Handles(x)
  PROVE  /\ Order(x).op \in Handling /\ Order(x).drive = x.drive
         /\ x.pc = "hide" => Order(x).op = "HIDE" /\ Puts(Order(x)) = None
                             /\ Ends(Order(x)) = {"ok", "none"}
         /\ x.pc = "move" => Order(x).op = "CMOV" /\ Puts(Order(x)) = x.disc
                             /\ Ends(Order(x)) = {"ok"}
BY DEF Handles, Order, Handling, Cmd, Puts, Ends

(* Where no thread begins to wait, and who stops has no task left. *)
LEMMA DrivesKept ==
  ASSUME DriveInv, next \in Nat, next' \in Nat, next <= next',
         \A u \in Thread : Handles(th'[u]) => th'[u] = th[u],
         \A i \in TaskId : i <= next => task'[i].cmd = task[i].cmd,
         \A i \in TaskId : Live(i)' /\ task'[i].cmd.op \in Handling =>
           /\ Live(i) /\ i <= next
           /\ \A u \in Thread : Handles(th[u]) /\ th[u].id = i => th'[u] = th[u],
         \A i, c : Told(toSvr', results', i, c) => Told(toSvr, results, i, c),
         UNCHANGED at
  PROVE  DriveInv'
<1>1. ASSUME NEW i \in TaskId, Live(i)', task'[i].cmd.op \in Handling
      PROVE  \E u \in Thread : Handles(th'[u]) /\ th'[u].id = i
  <2>1. Live(i) /\ i <= next
    BY <1>1
  <2>2. PICK u \in Thread : Handles(th[u]) /\ th[u].id = i
    BY <1>1, <2>1 DEF DriveInv
  <2>3. th'[u] = th[u]
    BY <1>1, <2>2
  <2>. QED  BY <2>2, <2>3
<1>2. ASSUME NEW u \in Thread, Handles(th'[u])
      PROVE  /\ th'[u].id \in TaskId /\ th'[u].id <= next' /\ task'[th'[u].id].cmd = Order(th'[u])
             /\ \A c \in Ends(Order(th'[u])) : Told(toSvr', results', th'[u].id, c) =>
                  HoldsIn(at', th'[u].drive) = Puts(Order(th'[u]))
  <2>1. th'[u] = th[u]
    BY <1>2
  <2>2. PICK i, x : i = th[u].id /\ x = th[u]
    OBVIOUS
  <2>3. /\ i \in TaskId /\ i <= next /\ task[i].cmd = Order(x)
        /\ \A c \in Ends(Order(x)) : Told(toSvr, results, i, c) =>
             HoldsIn(at, x.drive) = Puts(Order(x))
    BY <1>2, <2>1, <2>2 DEF DriveInv
  <2>4. i <= next' /\ task'[i].cmd = Order(x)
    BY <2>3 DEF TaskId
  <2>5. \A c \in Ends(Order(x)) : Told(toSvr', results', i, c) =>
          HoldsIn(at', x.drive) = Puts(Order(x))
    BY <2>3
  <2>. QED  BY <2>1, <2>2, <2>3, <2>4, <2>5
<1>. QED  BY <1>1, <1>2 DEF DriveInv

(* The same for an entry that is not written: whoever was going to learn   *)
(* what is in the drive still is.                                          *)
LEMMA EntryKept ==
  ASSUME NEW r, Entered(r), table'.media[r] = table.media[r],
         \A u \in Thread : Learns(u, r) => th'[u] = th[u] /\ Worked(th[u].id)',
         \A i, c : Told(toSvr', results', i, c) => Told(toSvr, results, i, c),
         HoldsIn(at', r) = HoldsIn(at, r)
  PROVE  Entered(r)'
<1>1. CASE table.media[r] = HoldsIn(at, r)
  BY <1>1 DEF Entered
<1>2. ASSUME NEW u \in Thread, Learns(u, r)
      PROVE  Entered(r)'
  <2>1. PICK x : x = th[u] /\ x = th'[u]
    BY <1>2
  <2>2. /\ Handles(x) /\ x.drive = r /\ HoldsIn(at', r) = Puts(Order(x)) /\ Worked(x.id)'
        /\ \A c : Told(toSvr, results, x.id, c) => c \in Ends(Order(x))
    BY <1>2, <2>1 DEF Learns
  <2>3. \A c : Told(toSvr', results', x.id, c) => c \in Ends(Order(x))
    BY <2>2
  <2>4. Learns(u, r)'
    BY <2>1, <2>2, <2>3 DEF Learns
  <2>. QED  BY <2>4 DEF Entered
<1>. QED  BY <1>1, <1>2 DEF Entered

(* Then only the front of the queue is under way, or its answer. *)
LEMMA CalmWire ==
  ASSUME Calm
  PROVE  /\ toSvr = <<>> \/ (Len(toSvr) = 1 /\ queue # <<>> /\ toSvr[1].id = Head(queue))
         /\ toDev = <<>> \/ (/\ Len(toDev) = 1 /\ toSvr = <<>> /\ queue # <<>>
                             /\ toDev[1] = Head(toDev) /\ toDev[1].id = Head(queue))
<1>1. /\ toSvr \in Seq(Filed) /\ WireInv
      /\ \A i \in 1 .. Len(toSvr) : toSvr[i].code \notin Exception \cup {"DOORCLOSE"}
  BY DEF Calm, Types, DeviceTypes, AnswerInv, QuietWire
<1>2. \A i \in 1 .. Len(toSvr) :
        toSvr[i].id # 0 /\ queue # <<>> /\ toSvr[i].id = Head(queue) /\ toDev = <<>>
  BY <1>1 DEF WireInv, FrontSent
<1>3. Len(toSvr) <= 1
  <2>1. Len(toSvr) \in Nat /\ (Len(toSvr) > 1 => 1 \in 1 .. Len(toSvr) /\ 2 \in 1 .. Len(toSvr))
    BY <1>1
  <2>2. ~(Len(toSvr) > 1)
    BY <1>2, <2>1 DEF WireInv, AnswerInv, Calm
  <2>. QED  BY <2>1, <2>2
<1>4. toSvr # <<>> => Len(toSvr) = 1 /\ 1 \in 1 .. Len(toSvr)
  <2>1. PICK S : toSvr \in Seq(S)
    BY <1>1
  <2>2. toSvr # <<>> => Len(toSvr) # 0
    BY <2>1
  <2>3. PICK n : n = Len(toSvr) /\ n \in Nat /\ n <= 1
    BY <1>3, <2>1
  <2>4. n # 0 => n = 1 /\ 1 \in 1 .. n
    BY <2>3
  <2>. QED  BY <2>2, <2>3, <2>4
<1>5. toDev # <<>> => toSvr = <<>>
  BY <1>2, <1>4
<1>6. toDev # <<>> => /\ Len(toDev) = 1 /\ queue # <<>>
                      /\ toDev[1] = Head(toDev) /\ toDev[1].id = Head(queue)
  <2>. SUFFICES ASSUME toDev # <<>>
                PROVE  /\ Len(toDev) = 1 /\ queue # <<>>
                       /\ toDev[1] = Head(toDev) /\ toDev[1].id = Head(queue)
    OBVIOUS
  <2>1. PICK c : toDev = <<[id |-> Head(queue), cmd |-> c]>> /\ queue # <<>>
    BY <1>1 DEF WireInv, FrontSent
  <2>2. PICK x : x = [id |-> Head(queue), cmd |-> c]
    OBVIOUS
  <2>3. toDev = <<x>> /\ x.id = Head(queue)
    BY <2>1, <2>2
  <2>. QED  BY <2>1, <2>3
<1>. QED  BY <1>2, <1>4, <1>5, <1>6

(* The wire is quiet where the at91 reports nothing. *)
LEMMA PlainWire == ASSUME Types, Plain PROVE QuietWire
<1>1. toSvr \in Seq(Frames) /\ \A x \in Frames :
        x.code \in {"ok", "fail", "none", "occupied", "map", "other"}
  <2>1. toSvr \in Seq(Frames)
    BY DEF Types, DeviceTypes, Filed
  <2>. QED  BY <2>1 DEF Frames, Plain
<1>2. \A i \in DOMAIN toSvr : toSvr[i] \in Frames
  BY <1>1
<1>. QED  BY <1>1, <1>2 DEF QuietWire, Exception

(* Live tasks have ids that were given out. *)
LEMMA LiveIds ==
  ASSUME Calm, OrderInv
  PROVE  /\ next \in Nat /\ \A i \in TaskId : Live(i) => i <= next
         /\ \A i, c : Told(toSvr, results, i, c) => i <= next
         /\ \A k \in 1 .. Len(toDev) : toDev[k].id \in TaskId /\ toDev[k].id <= next
<1>1. /\ next \in Nat /\ queue \in Seq(TaskId)
      /\ \A i \in 1 .. Len(queue) : queue[i] <= next
  BY NumbersAssumption DEF Calm, AnswerInv, QueueInv
<1>2. queue # <<>> => Head(queue) <= next /\ Head(queue) \in TaskId
  BY <1>1
<1>3. \A i \in TaskId : Live(i) => i <= next
  BY <1>1 DEF Live, OrderInv
<1>4. \A i, c : Told(toSvr, results, i, c) => i <= next
  BY <1>1, <1>2, CalmWire DEF Told, OrderInv
<1>5. \A k \in 1 .. Len(toDev) : toDev[k].id \in TaskId /\ toDev[k].id <= next
  BY <1>1, <1>2, CalmWire
<1>. QED  BY <1>1, <1>3, <1>4, <1>5

(* A drive that is filled is nobody else's. *)
LEMMA Apart ==
  ASSUME Plain, Calm, SpaceInv, NEW u \in Thread, NEW v \in Thread,
         th[u].pc = "move", Handles(th[v]), th[v].drive = th[u].drive
  PROVE  u = v
<1>1. CASE th[v].pc = "move"
  BY <1>1 DEF Calm, LockInv, Carries
<1>2. CASE th[v].pc = "hide"
  <2>1. th[u].job = MoveJob
    BY DEF Calm, RoleInv, Stage
  <2>2. MoveJob \in Asked
    BY <2>1 DEF Calm, JobsInv, MoveJob
  <2>3. th[v].drive \in table.have /\ th[u].drive \notin table.have
    BY <1>2, <2>2 DEF SpaceInv
  <2>. QED  BY <2>3
<1>. QED  BY <1>1, <1>2 DEF Handles

(* What becomes of the tasks when a thread queues a command. *)
LEMMA Called ==
  ASSUME Calm, OrderInv, CmdInv, NEW t \in Thread, NEW c, NEW rec \in Record, NEW p,
         Call(t, c, rec, p), UNCHANGED <<toDev, toSvr>>,
         \A j \in DOMAIN results' : j \in DOMAIN results /\ results'[j] = results[j]
  PROVE  /\ OrderInv' /\ CmdInv'
         /\ next \in Nat /\ next' = next + 1 /\ next' \in Nat /\ next' \in TaskId
         /\ th'[t].id = next' /\ th'[t].pc = p
         /\ th'[t].drive = rec.drive /\ th'[t].disc = rec.disc
         /\ \A u : u # t => th'[u] = th[u]
         /\ task'[next'].cmd = c /\ \A i : i # next' => task'[i] = task[i]
         /\ \A i : Live(i)' => Live(i) \/ i = next'
         /\ \A i, d : Told(toSvr', results', i, d) => Told(toSvr, results, i, d) /\ i # next'
         /\ \A j \in DOMAIN results : j \notin DOMAIN results' => ~Live(j)'
<1>1. PICK n : n = next + 1 /\ next' = n /\ n \in TaskId /\ n \in Nat /\ next \in Nat
  <2>1. next \in Nat /\ next < MaxTask /\ MaxTask \in Nat
    BY LiveIds, NumbersAssumption DEF Call
  <2>2. next + 1 \in TaskId
    BY <2>1 DEF TaskId
  <2>. QED  BY <2>1, <2>2 DEF Call
<1>2. PICK r : /\ r.id = n /\ r.pc = p /\ r.drive = rec.drive /\ r.disc = rec.disc
               /\ r.job = rec.job /\ th' = [th EXCEPT ![t] = r]
  <2>1. PICK r : r = [rec EXCEPT !.id = next + 1, !.pc = p]
    OBVIOUS
  <2>2. /\ r.id = n /\ r.pc = p /\ r.drive = rec.drive /\ r.disc = rec.disc
        /\ r.job = rec.job /\ th' = [th EXCEPT ![t] = r]
    BY <1>1, <2>1 DEF Record, Call, Become
  <2>. QED  BY <2>2
<1>3. th'[t] = r /\ \A u : u # t => th'[u] = th[u]
  BY <1>2 DEF Calm, Types, ThreadTypes
<1>4. task'[n].cmd = c /\ \A i : i # n => task'[i] = task[i]
  <2>1. PICK k : k = [cmd |-> c, sent |-> FALSE, freed |-> FALSE]
    OBVIOUS
  <2>2. k.cmd = c /\ task' = [task EXCEPT ![n] = k]
    BY <1>1, <2>1 DEF Call
  <2>. QED  BY <1>1, <2>2 DEF Calm, Types, TaskTypes
<1>5. queue \in Seq(TaskId) /\ queue' = Append(queue, n)
  BY <1>1 DEF Call, Calm, Types, TaskTypes
<1>6. \A i : Live(i)' => Live(i) \/ i = n
  BY <1>5 DEF Live
<1>7. /\ \A i, d : Told(toSvr, results, i, d) => i <= next
      /\ \A k \in 1 .. Len(toDev) : toDev[k].id \in TaskId /\ toDev[k].id <= next
      /\ \A i, d : Told(toSvr', results', i, d) => Told(toSvr, results, i, d)
  BY LiveIds, ToldLess
<1>8. ~(n <= next)
  BY <1>1
<1>9. \A j \in DOMAIN results : j <= next /\ j \in Nat
  BY DEF OrderInv, Calm, Types, TaskTypes, TaskId
<1>10. \A k \in 1 .. Len(queue') : queue'[k] = n \/ (k \in 1 .. Len(queue) /\ queue'[k] = queue[k])
  BY <1>5
<1>11. OrderInv'
  <2>1. \A j \in DOMAIN results : j < n /\ j <= n
    BY <1>1, <1>9
  <2>. QED  BY <1>1, <1>10, <2>1 DEF OrderInv
<1>12. CmdInv'
  <2>1. \A k \in 1 .. Len(toDev) : toDev[k].id # n
    BY <1>7, <1>8
  <2>. QED  BY <1>4, <2>1 DEF CmdInv
<1>13. ASSUME NEW j \in DOMAIN results, j \notin DOMAIN results'
       PROVE  ~Live(j)'
  <2>1. \A k \in 1 .. Len(queue) : queue[k] # j
    BY <1>9 DEF OrderInv, Calm, Types, TaskTypes, TaskId
  <2>2. j # n
    BY <1>8, <1>9
  <2>. QED  BY <1>10, <1>13, <2>1, <2>2 DEF Live
<1>14. \A i, d : Told(toSvr', results', i, d) => Told(toSvr, results, i, d) /\ i # n
  BY <1>7, <1>8
<1>. QED  BY <1>1, <1>2, <1>3, <1>4, <1>6, <1>11, <1>12, <1>13, <1>14

(* A thread that queues a command.  If it is a HIDE or a CMOV, nobody was  *)
(* told about its id yet, and the thread is the one that waits for it; a   *)
(* thread that waited for another took its answer.                         *)
LEMMA CallLedger ==
  ASSUME Calm, Ledger, NEW t \in Thread, NEW c \in CommandType, NEW rec \in Record, NEW p,
         Call(t, c, rec, p), UNCHANGED <<toDev, toSvr, at>>,
         p = "hide" => c = Cmd("HIDE", rec.drive, None),
         p = "move" => c = Cmd("CMOV", rec.drive, rec.disc),
         p \notin {"hide", "move"} => c.op \notin Handling,
         \A j \in DOMAIN results' : j \in DOMAIN results /\ results'[j] = results[j],
         Handles(th[t]) => th[t].id \in DOMAIN results /\ th[t].id \notin DOMAIN results'
  PROVE  /\ OrderInv' /\ CmdInv' /\ DriveInv'
         /\ th'[t].pc = p /\ th'[t].drive = rec.drive /\ \A u : u # t => th'[u] = th[u]
         /\ \A r \in Drive :
              Entered(r) /\ ~Learns(t, r) /\ table'.media[r] = table.media[r] => Entered(r)'
<1>0. /\ OrderInv' /\ CmdInv'
      /\ next \in Nat /\ next' = next + 1 /\ next' \in Nat /\ next' \in TaskId
      /\ th'[t].id = next' /\ th'[t].pc = p
      /\ th'[t].drive = rec.drive /\ th'[t].disc = rec.disc
      /\ \A u : u # t => th'[u] = th[u]
      /\ task'[next'].cmd = c /\ \A i : i # next' => task'[i] = task[i]
      /\ \A i : Live(i)' => Live(i) \/ i = next'
      /\ \A i, d : Told(toSvr', results', i, d) => Told(toSvr, results, i, d) /\ i # next'
      /\ \A j \in DOMAIN results : j \notin DOMAIN results' => ~Live(j)'
  <2>1. OrderInv /\ CmdInv
    BY DEF Ledger
  <2>. QED  BY <2>1, Called
<1>1. PICK n, r : /\ n = next + 1 /\ n \in Nat /\ next \in Nat /\ next' = n /\ n \in TaskId
                  /\ r.id = n /\ r.pc = p /\ r.drive = rec.drive /\ r.disc = rec.disc
                  /\ th'[t] = r /\ \A u : u # t => th'[u] = th[u]
                  /\ task'[n].cmd = c /\ \A i : i # n => task'[i] = task[i]
                  /\ \A i : Live(i)' => Live(i) \/ i = n
                  /\ \A i, d : Told(toSvr', results', i, d) => Told(toSvr, results, i, d) /\ i # n
                  /\ \A j \in DOMAIN results : j \notin DOMAIN results' => ~Live(j)'
  <2>1. PICK n, r : n = next' /\ r = th'[t]
    OBVIOUS
  <2>. QED  BY <1>0, <2>1
<1>2. OrderInv' /\ CmdInv'
  BY <1>0
<1>3. Handles(r) => c = Order(r)
  BY <1>1 DEF Handles, Order
<1>4. c.op \in Handling => Handles(r)
  BY <1>1 DEF Handles
<1>5. ~(n <= next)
  BY <1>1
<1>6. ASSUME NEW i \in TaskId, Live(i)', task'[i].cmd.op \in Handling
      PROVE  \E u \in Thread : Handles(th'[u]) /\ th'[u].id = i
  <2>1. CASE i = n
    BY <1>1, <1>4, <1>6, <2>1
  <2>2. CASE i # n
    <3>1. Live(i) /\ task'[i] = task[i]
      BY <1>1, <1>6, <2>2
    <3>2. PICK u \in Thread : Handles(th[u]) /\ th[u].id = i
      BY <1>6, <3>1 DEF Ledger, DriveInv
    <3>3. u # t
      BY <1>1, <1>6, <3>2
    <3>. QED  BY <1>1, <3>2, <3>3
  <2>. QED  BY <2>1, <2>2
<1>7. ASSUME NEW u \in Thread, Handles(th'[u])
      PROVE  /\ th'[u].id \in TaskId /\ th'[u].id <= next' /\ task'[th'[u].id].cmd = Order(th'[u])
             /\ \A d \in Ends(Order(th'[u])) : Told(toSvr', results', th'[u].id, d) =>
                  HoldsIn(at', th'[u].drive) = Puts(Order(th'[u]))
  <2>1. CASE u = t
    <3>1. th'[u] = r /\ Handles(r) /\ n <= next'
      BY <1>1, <1>7, <2>1
    <3>2. \A d : ~Told(toSvr', results', n, d)
      BY <1>1
    <3>. QED  BY <1>1, <1>3, <3>1, <3>2
  <2>2. CASE u # t
    <3>1. PICK i, x : i = th[u].id /\ x = th[u] /\ th'[u] = x
      BY <1>1, <2>2
    <3>2. /\ i \in TaskId /\ i <= next /\ task[i].cmd = Order(x)
          /\ \A d \in Ends(Order(x)) : Told(toSvr, results, i, d) =>
               HoldsIn(at, x.drive) = Puts(Order(x))
      BY <1>7, <3>1 DEF Ledger, DriveInv
    <3>3. i # n /\ i <= next'
      BY <1>1, <3>2 DEF TaskId
    <3>4. \A d \in Ends(Order(x)) : Told(toSvr', results', i, d) =>
            HoldsIn(at', x.drive) = Puts(Order(x))
      BY <1>1, <3>2
    <3>. QED  BY <1>1, <3>1, <3>2, <3>3, <3>4
  <2>. QED  BY <2>1, <2>2
<1>8. DriveInv'
  BY <1>6, <1>7 DEF DriveInv
<1>9. ASSUME NEW q \in Drive, Entered(q), ~Learns(t, q), table'.media[q] = table.media[q]
      PROVE  Entered(q)'
  <2>1. ASSUME NEW u \in Thread, Learns(u, q)
        PROVE  th'[u] = th[u] /\ Worked(th[u].id)'
    <3>1. th'[u] = th[u]
      BY <1>1, <1>9, <2>1
    <3>2. PICK i : i = th[u].id /\ i = th'[u].id
      BY <3>1
    <3>3. i <= next /\ Worked(i)
      BY <2>1, <3>2 DEF Ledger, DriveInv, Learns
    <3>4. task'[i] = task[i]
      BY <1>1, <1>5, <3>3
    <3>5. Worked(i)'
      BY <3>3, <3>4 DEF Worked
    <3>. QED  BY <3>1, <3>2, <3>5 DEF Worked
  <2>2. \A i, d : Told(toSvr', results', i, d) => Told(toSvr, results, i, d)
    BY <1>1
  <2>. QED  BY <1>9, <2>1, <2>2, EntryKept
<1>. QED  BY <1>0, <1>2, <1>8, <1>9

(* Steps after which nothing is said that was not, no drive is begun to be *)
(* handled or done with, and the tasks, what m_storage knows of the drives *)
(* and the discs are what they were.                                       *)
LEMMA AsideLedger ==
  ASSUME Calm, Ledger,
         \A u \in Thread : Handles(th[u]) \/ Handles(th'[u]) => th'[u] = th[u],
         \A j \in DOMAIN results' : j \in DOMAIN results /\ results'[j] = results[j],
         UNCHANGED <<queue, next, task, toDev, toSvr, at>>,
         phase = "INIT" => phase' = "INIT",
         table'.media = table.media, table'.have = table.have
  PROVE  Ledger'
<1>1. \A i, c : Told(toSvr', results', i, c) => Told(toSvr, results, i, c)
  BY ToldLess
<1>2. \A i : Live(i)' => Live(i)
  BY DEF Live
<1>3. OrderInv' /\ CmdInv'
  BY DEF Ledger, OrderInv, CmdInv
<1>4. next \in Nat /\ next' \in Nat /\ next <= next' /\ \A i \in TaskId : Live(i) => i <= next
  BY LiveIds DEF Ledger
<1>5. DriveInv'
  BY <1>1, <1>2, <1>4, DrivesKept DEF Ledger
<1>6. SpaceInv'
  BY DEF Ledger, SpaceInv, Handles
<1>7. ASSUME NEW r \in Drive, Entered(r)
      PROVE  Entered(r)'
  <2>1. \A u \in Thread : Learns(u, r) => th'[u] = th[u] /\ Worked(th[u].id)'
    BY DEF Learns, Worked
  <2>. QED  BY <1>1, <1>7, <2>1, EntryKept
<1>8. BookInv'
  BY <1>7 DEF Ledger, BookInv
<1>. QED  BY <1>3, <1>5, <1>6, <1>8 DEF Ledger

(* A thread takes the answer it waits for at a drive.  If the at91 did     *)
(* what was asked, the entry becomes what is in the drive; if not, it was  *)
(* another thread that was going to write the entry, if one was.           *)
LEMMA AnswerBook ==
  ASSUME Calm, Ledger, NEW t \in Thread, Handles(th[t]), th[t].id \in DOMAIN results,
         NEW r, r = th[t].drive, NEW c, c = results[th[t].id].code,
         NEW x, x = Order(th[t]),
         c \in Ends(x) => table'.media = [table.media EXCEPT ![r] = Puts(x)],
         c \notin Ends(x) => table'.media = table.media,
         \A q \in Drive : Entered(q) /\ ~Learns(t, q) /\ table'.media[q] = table.media[q] => Entered(q)',
         UNCHANGED at
  PROVE  \A q \in Drive : Entered(q) => Entered(q)'
<1>. SUFFICES ASSUME NEW q \in Drive, Entered(q)
              PROVE  Entered(q)'
  OBVIOUS
<1>1. Told(toSvr, results, th[t].id, c)
  BY DEF Told
<1>2. table.media \in [Drive -> Held] /\ r \in Drive
  BY DEF Calm, Types, TableTypes, Table, ThreadTypes, Handles, AtDrive
<1>3. CASE q = r /\ c \in Ends(x)
  <2>1. HoldsIn(at, r) = Puts(x)
    BY <1>1, <1>3 DEF Ledger, DriveInv
  <2>2. table'.media[q] = HoldsIn(at', q)
    BY <1>2, <1>3, <2>1
  <2>. QED  BY <2>2 DEF Entered
<1>4. CASE q # r \/ c \notin Ends(x)
  <2>1. table'.media[q] = table.media[q]
    BY <1>2, <1>4
  <2>2. ~Learns(t, q)
    BY <1>1, <1>4 DEF Learns
  <2>. QED  BY <2>1, <2>2
<1>. QED  BY <1>3, <1>4

(* The same for the rest, when the thread then queues nothing. *)
LEMMA AnswerDrives ==
  ASSUME Calm, Ledger, NEW t \in Thread, th[t].id \in DOMAIN results, Consume(t),
         NEW rec, ~Handles(rec), th' = [th EXCEPT ![t] = rec],
         UNCHANGED <<queue, next, task, toDev, toSvr, at>>
  PROVE  /\ OrderInv' /\ CmdInv' /\ DriveInv'
         /\ \A q \in Drive :
              Entered(q) /\ ~Learns(t, q) /\ table'.media[q] = table.media[q] => Entered(q)'
<1>1. PICK i : i = th[t].id
  OBVIOUS
<1>2. i \in DOMAIN results /\ results' = [j \in DOMAIN results \ {i} |-> results[j]]
  BY <1>1 DEF Consume
<1>3. \A j \in DOMAIN results' : j \in DOMAIN results /\ j # i /\ results'[j] = results[j]
  BY <1>2
<1>4. \A j, d : Told(toSvr', results', j, d) => Told(toSvr, results, j, d)
  BY <1>3, ToldLess
<1>5. th'[t] = rec /\ \A u : u # t => th'[u] = th[u]
  BY DEF Calm, Types, ThreadTypes
<1>6. \A j : Live(j)' => Live(j) /\ j # i
  <2>1. \A k \in 1 .. Len(queue) : queue[k] # i
    BY <1>2 DEF Ledger, OrderInv, Calm, Types, TaskTypes, TaskId
  <2>. QED  BY <1>3, <2>1 DEF Live
<1>7. OrderInv' /\ CmdInv'
  BY <1>3 DEF Ledger, OrderInv, CmdInv
<1>8. next \in Nat /\ next' \in Nat /\ next <= next' /\ \A j \in TaskId : Live(j) => j <= next
  BY LiveIds DEF Ledger
<1>9. \A u \in Thread : Handles(th'[u]) => th'[u] = th[u]
  BY <1>5
<1>10. ASSUME NEW j \in TaskId, Live(j)'
       PROVE  \A u \in Thread : Handles(th[u]) /\ th[u].id = j => th'[u] = th[u]
  BY <1>1, <1>5, <1>6, <1>10
<1>11. DriveInv'
  BY <1>4, <1>6, <1>8, <1>9, <1>10, DrivesKept DEF Ledger
<1>12. ASSUME NEW q \in Drive, Entered(q), ~Learns(t, q), table'.media[q] = table.media[q]
       PROVE  Entered(q)'
  <2>1. \A u \in Thread : Learns(u, q) => th'[u] = th[u] /\ Worked(th[u].id)'
    BY <1>5, <1>12 DEF Learns, Worked
  <2>. QED  BY <1>4, <1>12, <2>1, EntryKept
<1>. QED  BY <1>7, <1>11, <1>12

(* A HIDE is done: "ok" and "none" empty the entry. *)
LEMMA HideDoneLedger ==
  ASSUME Plain, Calm, Ledger, NEW t \in Thread, HideDone(t), phase # "INIT"
  PROVE  Ledger'
<1>1. PICK r, c, x : r = th[t].drive /\ c = results[th[t].id].code /\ x = Order(th[t])
  OBVIOUS
<1>2. /\ th[t].pc = "hide" /\ th[t].id \in DOMAIN results /\ Consume(t)
      /\ UNCHANGED <<phase, queue, next, task, toDev, toSvr, at>>
  BY DEF HideDone, Answered, device
<1>3. Handles(th[t]) /\ Ends(x) = {"ok", "none"} /\ Puts(x) = None
  BY <1>1, <1>2, Orders DEF Handles
<1>4. r \in Drive /\ table \in Table /\ th \in [Thread -> Record]
  BY <1>1, <1>2 DEF Calm, Types, ThreadTypes, TableTypes, AtDrive
<1>5. PICK rec : rec.pc \in {"return", "idle"} /\ th' = [th EXCEPT ![t] = rec]
  <2>1. PICK worked \in BOOLEAN : th' = [th EXCEPT ![t] = AfterHide(t, worked)]
    BY DEF HideDone, Become
  <2>2. PICK v : v = IF worked THEN th[t].drive + 1 ELSE NDrive + 1
    OBVIOUS
  <2>3. PICK q : q = [th[t] EXCEPT !.pc = "return", !.drive = v]
    OBVIOUS
  <2>4. q.pc = "return" /\ Idle.pc = "idle"
        /\ (th' = [th EXCEPT ![t] = q] \/ th' = [th EXCEPT ![t] = Idle])
    BY <1>4, <2>1, <2>2, <2>3 DEF Record, AfterHide, Idle
  <2>. QED  BY <2>4
<1>6. ~Handles(rec) /\ th'[t] = rec /\ \A u : u # t => th'[u] = th[u]
  BY <1>4, <1>5 DEF Handles
<1>7. /\ c \in Ends(x) => /\ table'.media = [table.media EXCEPT ![r] = None]
                          /\ table'.have = table.have \ {r}
      /\ c \notin Ends(x) => table' = table
  <2>1. PICK e : e = Emptied(r)
    OBVIOUS
  <2>2. /\ e.media = [table.media EXCEPT ![r] = None] /\ e.have = table.have \ {r}
        /\ e \in Table
    BY <1>4, <2>1, TableOps DEF Emptied, Table
  <2>3. CASE c = "ok"
    <3>1. table' = [e EXCEPT !.exist = @ \cup {th[t].disc}]
      BY <1>1, <2>1, <2>3 DEF HideDone, Answer
    <3>2. table'.media = e.media /\ table'.have = e.have
      BY <2>2, <3>1 DEF Table
    <3>. QED  BY <1>3, <2>2, <2>3, <3>2
  <2>4. CASE c = "none"
    BY <1>1, <1>3, <2>1, <2>2, <2>4 DEF HideDone, Answer
  <2>5. CASE c \notin {"ok", "none"}
    BY <1>1, <1>3, <2>5 DEF HideDone, Answer
  <2>. QED  BY <2>3, <2>4, <2>5
<1>8. /\ OrderInv' /\ CmdInv' /\ DriveInv'
      /\ \A q \in Drive :
           Entered(q) /\ ~Learns(t, q) /\ table'.media[q] = table.media[q] => Entered(q)'
  BY <1>2, <1>5, <1>6, AnswerDrives
<1>9. \A q \in Drive : Entered(q) => Entered(q)'
  BY <1>1, <1>2, <1>3, <1>7, <1>8, AnswerBook
<1>10. BookInv'
  BY <1>2, <1>9 DEF Ledger, BookInv
<1>11. SpaceInv'
  <2>1. \A u \in Thread : Handles(th'[u]) => u # t /\ th'[u] = th[u]
    BY <1>6
  <2>2. ASSUME NEW u \in Thread, th'[u].pc = "hide", MoveJob \in Asked
        PROVE  th'[u].drive \in table'.have
    <3>1. u # t /\ th'[u] = th[u]
      BY <2>1, <2>2 DEF Handles
    <3>2. /\ th[u].job \in {"update", "return disc"} /\ th[t].job \in {"update", "return disc"}
          /\ "return disc" \notin Asked
      BY <1>2, <2>2, <3>1 DEF Calm, RoleInv, Stage, Plain
    <3>3. th[u].job = "update" /\ th[t].job = "update"
      BY <3>2 DEF Calm, JobsInv
    <3>. QED  BY <3>1, <3>3 DEF Calm, RoleInv
  <2>3. ASSUME NEW u \in Thread, th'[u].pc = "move"
        PROVE  th'[u].drive \notin table'.have /\ table'.media[th'[u].drive] = None
    <3>1. u # t /\ th'[u] = th[u]
      BY <2>1, <2>3 DEF Handles
    <3>2. th[u].drive \notin table.have /\ table.media[th[u].drive] = None
      BY <2>3, <3>1 DEF Ledger, SpaceInv
    <3>3. th[u].drive \in Drive
      BY <2>3, <3>1 DEF Calm, Types, ThreadTypes, AtDrive
    <3>. QED  BY <1>4, <1>7, <3>1, <3>2, <3>3 DEF Table
  <2>. QED  BY <2>2, <2>3 DEF SpaceInv
<1>. QED  BY <1>8, <1>10, <1>11 DEF Ledger

(* A CMOV is done or failed.  Whoever moved a disc was alone in doing so.  *)
LEMMA MoveEndLedger ==
  ASSUME Plain, Calm, Ledger, NEW t \in Thread, phase # "INIT",
         MoveDone(t) \/ MoveShut(t) \/ MoveFailed(t)
  PROVE  Ledger'
<1>1. PICK r, c, x : r = th[t].drive /\ c = results[th[t].id].code /\ x = Order(th[t])
  OBVIOUS
<1>2. /\ th[t].pc = "move" /\ th[t].id \in DOMAIN results /\ Consume(t)
      /\ UNCHANGED <<phase, toDev, toSvr, at>>
  BY DEF MoveDone, MoveShut, MoveFailed, Answered, device
<1>3. Handles(th[t]) /\ Ends(x) = {"ok"} /\ Puts(x) = th[t].disc
  BY <1>1, <1>2, Orders DEF Handles
<1>4. r \in Drive /\ table \in Table /\ th \in [Thread -> Record]
  BY <1>1, <1>2 DEF Calm, Types, ThreadTypes, TableTypes, AtDrive
<1>5. \A u \in Thread : th[u].pc = "move" => u = t
  BY <1>2 DEF Calm, LockInv, Carries
<1>6. /\ th[t].id \notin DOMAIN results'
      /\ \A j \in DOMAIN results' : j \in DOMAIN results /\ results'[j] = results[j]
  BY <1>2 DEF Consume
<1>7. CASE MoveDone(t)
  <2>1. Call(t, Cmd("CDIN", r, None), th[t], "close") /\ c = "ok"
    BY <1>1, <1>7 DEF MoveDone, Answer
  <2>2. PICK y : y = Cmd("CDIN", r, None)
    OBVIOUS
  <2>3. y \in CommandType /\ y.op \notin Handling
    BY <1>4, <2>2 DEF Cmd, CommandType, Op, Handling
  <2>4. Call(t, y, th[t], "close") /\ th[t] \in Record
    BY <1>4, <2>1, <2>2
  <2>5. /\ OrderInv' /\ CmdInv' /\ DriveInv'
        /\ th'[t].pc = "close" /\ \A u : u # t => th'[u] = th[u]
        /\ \A q \in Drive :
             Entered(q) /\ ~Learns(t, q) /\ table'.media[q] = table.media[q] => Entered(q)'
    BY <1>2, <1>6, <2>3, <2>4, CallLedger
  <2>6. /\ table'.media = [table.media EXCEPT ![r] = th[t].disc]
        /\ table'.have = table.have \cup {r}
    BY <1>1, <1>4, <1>7 DEF MoveDone, Filled, Table
  <2>7. BookInv'
    <3>1. /\ c \in Ends(x) => table'.media = [table.media EXCEPT ![r] = Puts(x)]
          /\ c \notin Ends(x) => table'.media = table.media
      BY <1>3, <2>1, <2>6
    <3>2. \A q \in Drive : Entered(q) => Entered(q)'
      BY <1>1, <1>2, <1>3, <2>5, <3>1, AnswerBook
    <3>. QED  BY <1>2, <3>2 DEF Ledger, BookInv
  <2>8. SpaceInv'
    BY <1>5, <2>5, <2>6 DEF Ledger, SpaceInv
  <2>. QED  BY <2>5, <2>7, <2>8 DEF Ledger
<1>8. CASE MoveFailed(t)
  <2>1. c # "ok" /\ UNCHANGED <<queue, next, task, table>>
    BY <1>1, <1>8 DEF MoveFailed, Answer
  <2>2. PICK q : q = [th[t] EXCEPT !.pc = "placed"]
    OBVIOUS
  <2>3. PICK rec : rec \in {Idle, q} /\ th' = [th EXCEPT ![t] = rec]
    BY <1>8, <2>2 DEF MoveFailed, Become
  <2>4. ~Handles(rec)
    BY <1>4, <2>2, <2>3 DEF Idle, Record, Handles
  <2>5. /\ OrderInv' /\ CmdInv' /\ DriveInv'
        /\ \A p \in Drive :
             Entered(p) /\ ~Learns(t, p) /\ table'.media[p] = table.media[p] => Entered(p)'
    BY <1>2, <2>1, <2>3, <2>4, AnswerDrives
  <2>6. BookInv'
    <3>1. \A p \in Drive : Entered(p) => Entered(p)'
      BY <1>1, <1>2, <1>3, <2>1, <2>5, AnswerBook
    <3>. QED  BY <1>2, <3>1 DEF Ledger, BookInv
  <2>7. SpaceInv'
    BY <1>4, <2>1, <2>3, <2>4 DEF Ledger, SpaceInv, Handles
  <2>. QED  BY <2>5, <2>6, <2>7 DEF Ledger
<1>9. CASE MoveShut(t)
  <2>1. c = "ok" /\ UNCHANGED <<queue, next, task>>
    BY <1>1, <1>9 DEF MoveShut, Answer
  <2>2. PICK q : q = [th[t] EXCEPT !.pc = "placed"]
    OBVIOUS
  <2>3. th' = [th EXCEPT ![t] = q]
    BY <1>9, <2>2 DEF MoveShut, Become
  <2>4. ~Handles(q) /\ q.pc = "placed"
    BY <1>4, <2>2 DEF Record, Handles
  <2>5. /\ OrderInv' /\ CmdInv' /\ DriveInv'
        /\ \A p \in Drive :
             Entered(p) /\ ~Learns(t, p) /\ table'.media[p] = table.media[p] => Entered(p)'
    BY <1>2, <2>1, <2>3, <2>4, AnswerDrives
  <2>6. /\ table'.media = [table.media EXCEPT ![r] = th[t].disc]
        /\ table'.have = table.have \cup {r}
    BY <1>1, <1>4, <1>9 DEF MoveShut, Filled, Table
  <2>7. BookInv'
    <3>1. /\ c \in Ends(x) => table'.media = [table.media EXCEPT ![r] = Puts(x)]
          /\ c \notin Ends(x) => table'.media = table.media
      BY <1>3, <2>1, <2>6
    <3>2. \A p \in Drive : Entered(p) => Entered(p)'
      BY <1>1, <1>2, <1>3, <2>5, <3>1, AnswerBook
    <3>. QED  BY <1>2, <3>2 DEF Ledger, BookInv
  <2>8. SpaceInv'
    <3>1. \A u \in Thread : th'[u].pc # "move"
      BY <1>4, <1>5, <2>3, <2>4
    <3>2. \A u \in Thread : th'[u].pc = "hide" => th[u].pc = "hide" /\ th'[u].drive = th[u].drive
      BY <1>4, <2>3, <2>4
    <3>. QED  BY <2>6, <3>1, <3>2 DEF Ledger, SpaceInv
  <2>. QED  BY <2>5, <2>7, <2>8 DEF Ledger
<1>. QED  BY <1>7, <1>8, <1>9

(* The phase INIT is left once and for all. *)
LEMMA InitLeft ==
  ASSUME [Next]_vars, phase # "INIT"
  PROVE  phase' # "INIT"
BY DEF Next, Ask, Work, Take, QueryStation, StartCall, LostParam, FinishCall, FinishUpdate,
       StartReturn, ReturnNext, FinishReturn, StartInventory, FinishInventory, RefuseMove,
       ReserveDisc, FinishMove, TakeDisc, Step, HideDone, Place, MoveDone, MoveShut, MoveFailed,
       CloseDone, ReadDone, GiveUp, LoseCall, HideLost, PlaceLost, Loop, Send,
       Connect, Receive, Authenticate, Drop, Execute, Happen, vars, server

(* A thread goes on with its job or drops it.  The phase INIT is left only *)
(* by the update, which then is no longer opening the ledger.              *)
LEMMA RoleKept ==
  ASSUME Calm, NEW t \in Thread, NEW rec, th' = [th EXCEPT ![t] = rec], UNCHANGED pool,
         Stage(rec), rec.job \in {th[t].job, "idle"}, Opens(rec) => Opens(th[t]) /\ phase' = phase,
         phase' = phase \/ phase # "INIT" \/ Opens(th[t])
  PROVE  RoleInv'
<1>1. th'[t] = rec /\ \A u : u # t => th'[u] = th[u]
  BY DEF Calm, Types, ThreadTypes
<1>2. \A u \in Thread : /\ Stage(th'[u])
                        /\ Opens(th'[u]) => Opens(th[u]) /\ (u = t => phase' = phase)
                        /\ th'[u].job = "update" => th[u].job = "update"
  BY <1>1 DEF Calm, RoleInv
<1>3. \A i : Waiting(i)' <=> Waiting(i)
  BY DEF Waiting
<1>4. CASE phase' = phase
  BY <1>2, <1>3, <1>4 DEF Calm, RoleInv
<1>5. CASE phase' # phase
  <2>1. (\A i : ~Waiting(i)) /\ \A u \in Thread : Opens(th'[u]) => FALSE
    BY <1>2, <1>5 DEF Calm, RoleInv, Opens
  <2>. QED  BY <1>2, <1>3, <2>1 DEF Calm, RoleInv
<1>. QED  BY <1>4, <1>5

(* A worker takes a job from the pool: the update, or any other. *)
LEMMA TakeRole ==
  ASSUME Calm, NEW w \in Worker, Take(w)
  PROVE  RoleInv'
<1>1. w \in Thread /\ th[w] = Idle /\ Idle.job = "idle" /\ pool \in Seq(JobType) /\ pool # <<>>
      /\ pool' = Tail(pool) /\ phase' = phase
  BY DEF Take, Thread, Idle, Calm, Types, TaskTypes
<1>2. PICK r : r = [Idle EXCEPT !.job = Head(pool).job, !.req = Head(pool).req, !.pc = "start"]
  OBVIOUS
<1>3. th' = [th EXCEPT ![w] = r] /\ r.job = pool[1].job /\ r.pc = "start"
  BY <1>1, <1>2 DEF Take, Become, Idle
<1>4. th'[w] = r /\ \A u : u # w => th'[u] = th[u]
  BY <1>1, <1>3 DEF Calm, Types, ThreadTypes
<1>5. 1 \in DOMAIN pool /\ \A i \in DOMAIN pool' : i + 1 \in DOMAIN pool /\ pool'[i] = pool[i + 1]
                                                  /\ i + 1 # 1 /\ i \in Nat
  BY <1>1
<1>6. r.job = "update" <=> Waiting(1)
  BY <1>3, <1>5 DEF Waiting
<1>7. \A i : Waiting(i)' => Waiting(i + 1) /\ i + 1 # 1 /\ i \in Nat
  BY <1>5 DEF Waiting
<1>8. \A i, j : Waiting(i)' /\ Waiting(j)' => i = j
  <2>. SUFFICES ASSUME NEW i, NEW j, Waiting(i)', Waiting(j)' PROVE i = j
    OBVIOUS
  <2>1. i + 1 = j + 1 /\ i \in Nat /\ j \in Nat
    BY <1>7 DEF Calm, RoleInv
  <2>. QED  BY <2>1
<1>9. \A u \in Thread : Stage(th'[u])
  BY <1>3, <1>4 DEF Stage, Calm, RoleInv
<1>10. \A i : Waiting(i)' => phase' = "INIT"
  BY <1>1, <1>7 DEF Calm, RoleInv
<1>11. \A u \in Thread : Opens(th'[u]) => phase' = "INIT"
  BY <1>1, <1>4, <1>6 DEF Calm, RoleInv, Opens
<1>12. \A u, v \in Thread : th'[u].job = "update" /\ th'[v].job = "update" => u = v
  BY <1>4, <1>6 DEF Calm, RoleInv
<1>13. \A i : \A u \in Thread : ~(Waiting(i)' /\ th'[u].job = "update")
  BY <1>4, <1>6, <1>7 DEF Calm, RoleInv
<1>. QED  BY <1>8, <1>9, <1>10, <1>11, <1>12, <1>13 DEF RoleInv

(* Every other step of a thread. *)
LEMMA WorkRole ==
  ASSUME Plain, Calm, NEW w \in Worker, Work(w)
  PROVE  RoleInv'
<1>1. /\ w \in Thread /\ th[w] \in Record /\ Stage(th[w]) /\ Idle.pc = "idle" /\ Idle.job = "idle"
      /\ th[w].job \notin {"inventory", "read"} /\ todo[w] = {} /\ TableTypes
      /\ phase = "INIT" => th[w] = Idle \/ Opens(th[w])
  <2>1. w \in Thread /\ Idle.pc = "idle" /\ Idle.job = "idle"
    BY DEF Thread, Idle
  <2>2. th[w].job \notin {"inventory", "read"} /\ todo[w] = {}
    BY <2>1 DEF Calm, JobsInv, Plain
  <2>. QED  BY <2>1, <2>2 DEF Calm, Types, ThreadTypes, RoleInv, StartInv
<1>2. Stage(Idle) /\ ~Opens(Idle)
  BY <1>1 DEF Stage, Opens
<1>3. CASE \/ QueryStation(w) \/ LostParam(w) \/ FinishCall(w) \/ FinishReturn(w)
           \/ FinishInventory(w) \/ RefuseMove(w) \/ FinishMove(w)
  <2>1. /\ th' = [th EXCEPT ![w] = Idle] /\ UNCHANGED pool /\ th[w].pc # "idle"
    BY <1>1, <1>3 DEF QueryStation, LostParam, FinishCall, FinishReturn, FinishInventory,
                RefuseMove, FinishMove, Become, Answered
  <2>2. phase = "INIT" => Opens(th[w])
    BY <1>1, <2>1
  <2>. QED  BY <1>1, <1>2, <2>1, <2>2, RoleKept
<1>4. CASE StartCall(w)
  <2>1. PICK d, c : Call(w, c, [th[w] EXCEPT !.disc = d], "answer")
    BY <1>4 DEF StartCall
  <2>2. PICK r : r = [[th[w] EXCEPT !.disc = d] EXCEPT !.id = next + 1, !.pc = "answer"]
    OBVIOUS
  <2>3. /\ r.job = th[w].job /\ r.pc = "answer" /\ th' = [th EXCEPT ![w] = r]
        /\ UNCHANGED <<pool, phase>> /\ th[w].pc = "start"
    BY <1>1, <1>4, <2>1, <2>2 DEF Record, Call, Become, StartCall
  <2>4. Stage(r) /\ (Opens(r) => Opens(th[w]))
    BY <2>3 DEF Stage, Opens
  <2>. QED  BY <1>1, <2>3, <2>4, RoleKept
<1>5. CASE FinishUpdate(w)
  <2>1. PICK r : r = [th[w] EXCEPT !.pc = "return", !.drive = 1]
    OBVIOUS
  <2>2. /\ r.job = th[w].job /\ r.pc = "return" /\ UNCHANGED pool
        /\ th' = [th EXCEPT ![w] = r] \/ th' = [th EXCEPT ![w] = Idle]
        /\ Opens(th[w])
    BY <1>1, <1>5, <2>1 DEF Record, FinishUpdate, Become, Answered, Opens
  <2>3. Stage(r) /\ ~Opens(r)
    BY <2>2 DEF Stage, Opens
  <2>4. CASE th' = [th EXCEPT ![w] = r]
    BY <1>1, <2>2, <2>3, <2>4, RoleKept
  <2>5. CASE th' = [th EXCEPT ![w] = Idle]
    BY <1>1, <1>2, <2>2, <2>5, RoleKept
  <2>. QED  BY <2>2, <2>4, <2>5
<1>6. CASE StartReturn(w)
  <2>1. PICK r : r = [th[w] EXCEPT !.pc = "return", !.drive = 1]
    OBVIOUS
  <2>2. /\ r.job = "return disc" /\ r.job = th[w].job /\ r.pc = "return" /\ UNCHANGED <<pool, phase>>
        /\ th' = [th EXCEPT ![w] = r]
    BY <1>1, <1>6, <2>1 DEF Record, StartReturn, Become
  <2>3. Stage(r) /\ ~Opens(r)
    BY <2>2 DEF Stage, Opens
  <2>. QED  BY <1>1, <2>2, <2>3, RoleKept
<1>7. CASE ReturnNext(w)
  <2>1. PICK d : Hide(w, d)
    BY <1>7 DEF ReturnNext
  <2>2. PICK r : r = [[th[w] EXCEPT !.drive = d, !.disc = table.media[d]]
                        EXCEPT !.id = next + 1, !.pc = "hide"]
    OBVIOUS
  <2>3. /\ r.job = th[w].job /\ r.pc = "hide" /\ th' = [th EXCEPT ![w] = r]
        /\ UNCHANGED <<pool, phase>> /\ th[w].pc = "return"
    BY <1>1, <1>7, <2>1, <2>2 DEF Record, Hide, Call, Become, ReturnNext
  <2>4. Stage(r) /\ ~Opens(r)
    BY <1>1, <2>3 DEF Stage, Opens
  <2>. QED  BY <1>1, <2>3, <2>4, RoleKept
<1>8. CASE ReserveDisc(w)
  <2>1. PICK d : Become(w, [th[w] EXCEPT !.pc = "place", !.disc = d])
    BY <1>8 DEF ReserveDisc
  <2>2. PICK r : r = [th[w] EXCEPT !.pc = "place", !.disc = d]
    OBVIOUS
  <2>3. /\ r.job = MoveJob /\ r.job = th[w].job /\ r.pc = "place" /\ th' = [th EXCEPT ![w] = r]
        /\ UNCHANGED <<pool, phase>>
    BY <1>1, <1>8, <2>1, <2>2 DEF Record, ReserveDisc, Become, MoveJob
  <2>4. Stage(r) /\ ~Opens(r)
    BY <2>3 DEF Stage, Opens
  <2>. QED  BY <1>1, <2>3, <2>4, RoleKept
<1>. QED
  BY <1>1, <1>3, <1>4, <1>5, <1>6, <1>7, <1>8, TakeRole DEF Work, StartInventory, TakeDisc

LEMMA StepRole ==
  ASSUME Plain, Calm, NEW t \in Thread, Step(t)
  PROVE  RoleInv'
<1>1. /\ th[t] \in Record /\ Stage(th[t]) /\ Idle.pc = "idle" /\ Idle.job = "idle"
      /\ th[t].job # "read"
  <2>1. th[t].job # "read"
    BY DEF Calm, JobsInv, Plain
  <2>. QED  BY <2>1 DEF Calm, Types, ThreadTypes, RoleInv, Idle
<1>2. UNCHANGED <<pool, phase>>
  BY DEF Step, HideDone, Place, MoveDone, MoveShut, MoveFailed, CloseDone, ReadDone
<1>3. CASE HideDone(t)
  <2>1. PICK worked \in BOOLEAN : th' = [th EXCEPT ![t] = AfterHide(t, worked)]
    BY <1>3 DEF HideDone, Become
  <2>2. PICK v : v = IF worked THEN th[t].drive + 1 ELSE NDrive + 1
    OBVIOUS
  <2>3. PICK r : r = [th[t] EXCEPT !.pc = "return", !.drive = v]
    OBVIOUS
  <2>4. r.job = th[t].job /\ r.pc = "return" /\ th' = [th EXCEPT ![t] = r] /\ th[t].pc = "hide"
    BY <1>1, <1>3, <2>1, <2>2, <2>3 DEF Record, AfterHide, HideDone, Answered
  <2>5. Stage(r) /\ ~Opens(r)
    BY <1>1, <2>4 DEF Stage, Opens
  <2>. QED  BY <1>2, <2>4, <2>5, RoleKept
<1>4. CASE Place(t)
  <2>1. PICK d : Call(t, Cmd("CMOV", d, th[t].disc), [th[t] EXCEPT !.drive = d], "move")
    BY <1>4 DEF Place, FreeDrive
  <2>2. PICK r : r = [[th[t] EXCEPT !.drive = d] EXCEPT !.id = next + 1, !.pc = "move"]
    OBVIOUS
  <2>3. r.job = th[t].job /\ r.pc = "move" /\ th' = [th EXCEPT ![t] = r] /\ th[t].pc = "place"
    BY <1>1, <1>4, <2>1, <2>2 DEF Record, Call, Become, Place
  <2>4. Stage(r) /\ ~Opens(r)
    BY <1>1, <2>3 DEF Stage, Opens
  <2>. QED  BY <1>2, <2>3, <2>4, RoleKept
<1>5. CASE MoveDone(t)
  <2>1. PICK r : r = [th[t] EXCEPT !.id = next + 1, !.pc = "close"]
    OBVIOUS
  <2>2. r.job = th[t].job /\ r.pc = "close" /\ th' = [th EXCEPT ![t] = r] /\ th[t].pc = "move"
    BY <1>1, <1>5, <2>1 DEF MoveDone, Record, Call, Become, Answered
  <2>3. Stage(r) /\ ~Opens(r)
    BY <1>1, <2>2 DEF Stage, Opens
  <2>. QED  BY <1>2, <2>2, <2>3, RoleKept
<1>6. CASE MoveShut(t) \/ MoveFailed(t) \/ CloseDone(t)
  <2>1. PICK r : r = [th[t] EXCEPT !.pc = "placed"]
    OBVIOUS
  <2>2. /\ r.job = th[t].job /\ r.pc = "placed" /\ th' = [th EXCEPT ![t] = r]
        /\ th[t].pc \in {"move", "close"}
    BY <1>1, <1>6, <2>1 DEF Record, MoveShut, MoveFailed, CloseDone, Become, Answered
  <2>3. Stage(r) /\ ~Opens(r)
    BY <1>1, <2>2 DEF Stage, Opens
  <2>. QED  BY <1>2, <2>2, <2>3, RoleKept
<1>. QED  BY <1>1, <1>3, <1>4, <1>5, <1>6 DEF Step, ReadDone

(* While the update opens the ledger no request becomes a job. *)
LEMMA AskRole ==
  ASSUME Calm, NEW r \in Request, NEW c \in Asked, Ask(r, c)
  PROVE  RoleInv'
<1>1. UNCHANGED th /\ (phase = "INIT" => UNCHANGED <<pool, phase>>)
  BY DEF Ask, Accepts
<1>2. CASE UNCHANGED <<pool, phase>>
  BY <1>1, <1>2 DEF Calm, RoleInv, Waiting
<1>3. CASE phase # "INIT"
  <2>1. PICK j : j = [job |-> c, req |-> r]
    OBVIOUS
  <2>2. /\ pool' = pool \/ (pool' = Append(pool, j) /\ j.job # "update")
        /\ pool \in Seq(JobType)
    BY <2>1 DEF Ask, Known, Calm, Types, TaskTypes
  <2>3. \A i \in DOMAIN pool' : (i \in DOMAIN pool /\ pool'[i] = pool[i]) \/ pool'[i].job # "update"
    BY <2>2
  <2>4. \A i : Waiting(i)' => Waiting(i)
    BY <2>3 DEF Waiting
  <2>. QED  BY <1>1, <1>3, <2>4 DEF Calm, RoleInv
<1>. QED  BY <1>1, <1>2, <1>3

(* A worker of the first update goes on. *)
LEMMA UpdateStart ==
  ASSUME Calm, phase = "INIT", NEW w \in Worker, NEW rec, th' = [th EXCEPT ![w] = rec],
         rec = Idle \/ Opens(rec),
         \A i \in DOMAIN pool' : pool'[i].job = "update",
         \A i \in TaskId : task'[i].cmd.op = "GMAP",
         \A j \in DOMAIN results' : j \in DOMAIN results /\ results'[j] = results[j],
         UNCHANGED <<toSvr, at>>
  PROVE  StartInv'
<1>1. w \in Thread /\ th'[w] = rec /\ \A u : u # w => th'[u] = th[u]
  BY DEF Calm, Types, ThreadTypes, Thread
<1>2. \A u \in Thread : th'[u] = Idle \/ Opens(th'[u])
  BY <1>1 DEF Calm, StartInv
<1>3. \A i \in DOMAIN results' : results'[i].code = "map" =>
        \A r \in Drive : results'[i].map.held[r] = HoldsIn(at, r)
  BY DEF Calm, StartInv
<1>. QED  BY <1>2, <1>3 DEF Calm, StartInv

(* A worker, while the first update runs. *)
LEMMA WorkStart ==
  ASSUME Calm, phase = "INIT", NEW w \in Worker, Work(w), Plain
  PROVE  StartInv'
<1>1. /\ w \in Thread /\ th[w] \in Record /\ Idle.pc = "idle" /\ task \in [TaskId -> TaskType]
      /\ th[w] = Idle \/ (th[w].job = "update" /\ th[w].pc \in {"start", "answer"})
      /\ todo[w] = {} /\ \A i \in DOMAIN pool : pool[i].job = "update"
      /\ \A i \in TaskId : task[i].cmd.op = "GMAP"
  <2>1. w \in Thread /\ Idle.pc = "idle" /\ todo[w] = {}
    BY DEF Thread, Idle, Calm, JobsInv, Plain
  <2>. QED  BY <2>1 DEF StartInv, Calm, Types, ThreadTypes, TaskTypes, Opens
<1>2. th[w].pc \in {"idle", "start", "answer"} /\ (th[w].pc # "idle" => th[w].job = "update")
  BY <1>1
<1>3. CASE Take(w)
  <2>1. PICK r : r = [Idle EXCEPT !.job = Head(pool).job, !.req = Head(pool).req, !.pc = "start"]
    OBVIOUS
  <2>2. /\ th' = [th EXCEPT ![w] = r] /\ pool \in Seq(JobType) /\ pool # <<>> /\ pool' = Tail(pool)
        /\ UNCHANGED <<task, results, toSvr, at>>
    BY <1>3, <2>1 DEF Take, Become, Calm, Types, TaskTypes, device
  <2>3. r.job = pool[1].job /\ r.pc = "start"
    BY <2>1, <2>2 DEF Idle
  <2>4. 1 \in DOMAIN pool /\ \A i \in DOMAIN pool' : i + 1 \in DOMAIN pool /\ pool'[i] = pool[i + 1]
    BY <2>2
  <2>5. r.job = "update" /\ \A i \in DOMAIN pool' : pool'[i].job = "update"
    BY <1>1, <2>3, <2>4
  <2>. QED  BY <1>1, <2>2, <2>3, <2>5, UpdateStart DEF Opens
<1>4. CASE StartCall(w)
  <2>1. PICK d : Call(w, Command(th[w].job, d), [th[w] EXCEPT !.disc = d], "answer")
    BY <1>4 DEF StartCall
  <2>2. PICK q : q = [th[w] EXCEPT !.disc = d]
    OBVIOUS
  <2>3. PICK r : r = [q EXCEPT !.id = next + 1, !.pc = "answer"]
    OBVIOUS
  <2>4. /\ th' = [th EXCEPT ![w] = r] /\ r.job = th[w].job /\ r.pc = "answer"
        /\ UNCHANGED <<pool, results, toSvr, at>> /\ th[w].job = "update"
    BY <1>1, <1>2, <1>4, <2>1, <2>2, <2>3 DEF StartCall, Record, Call, Become, device
  <2>5. PICK c : c = Command("update", d)
    OBVIOUS
  <2>9. c = Command(th[w].job, d) /\ c.op = "GMAP"
    BY <2>4, <2>5 DEF Command, Cmd
  <2>6. PICK k : k = [cmd |-> c, sent |-> FALSE, freed |-> FALSE]
    OBVIOUS
  <2>7. k.cmd = c /\ task' = [task EXCEPT ![next + 1] = k]
    BY <2>1, <2>6, <2>9 DEF Call
  <2>8. \A i \in TaskId : task'[i].cmd.op = "GMAP"
    BY <1>1, <2>7, <2>9
  <2>. QED  BY <1>1, <2>4, <2>8, UpdateStart DEF Opens
<1>5. CASE FinishUpdate(w)
  <2>1. CASE phase' = "RUN"
    BY <2>1 DEF StartInv
  <2>2. CASE phase' # "RUN"
    <3>1. th' = [th EXCEPT ![w] = Idle] /\ UNCHANGED <<pool, task, toSvr, at>>
      BY <1>5, <2>2 DEF FinishUpdate, Become, device
    <3>2. \A j \in DOMAIN results' : j \in DOMAIN results /\ results'[j] = results[j]
      BY <1>5 DEF FinishUpdate, Consume
    <3>. QED  BY <1>1, <3>1, <3>2, UpdateStart
  <2>. QED  BY <2>1, <2>2
<1>. QED
  BY <1>1, <1>2, <1>3, <1>4, <1>5
     DEF Work, QueryStation, LostParam, NamesDisc, FinishCall, StartReturn, ReturnNext,
         FinishReturn, StartInventory, FinishInventory, RefuseMove, ReserveDisc, FinishMove,
         TakeDisc, Answered

(* What the workers do keeps the ledger. *)
LEMMA WorkLedger ==
  ASSUME Plain, Calm, Ledger, NEW w \in Worker, Work(w)
  PROVE  Ledger'
<1>1. /\ w \in Thread /\ th[w] \in Record /\ Idle.pc = "idle" /\ table \in Table
      /\ Stage(th[w]) /\ th[w].job \notin {"read", "inventory"} /\ todo[w] = {}
      /\ th \in [Thread -> Record] /\ ~Handles(Idle)
  <2>1. w \in Thread /\ Idle.pc = "idle" /\ ~Handles(Idle)
    BY DEF Thread, Idle, Handles
  <2>2. th[w].job \notin {"read", "inventory"} /\ todo[w] = {}
    BY <2>1 DEF Calm, JobsInv, Plain
  <2>. QED  BY <2>1, <2>2 DEF Calm, Types, ThreadTypes, TableTypes, RoleInv
<1>2. ASSUME NEW rec, th' = [th EXCEPT ![w] = rec], ~Handles(rec), ~Handles(th[w])
      PROVE  \A u \in Thread : Handles(th[u]) \/ Handles(th'[u]) => th'[u] = th[u]
  BY <1>1, <1>2
<1>3. CASE Take(w)
  <2>1. PICK r : r = [Idle EXCEPT !.job = Head(pool).job, !.req = Head(pool).req, !.pc = "start"]
    OBVIOUS
  <2>2. /\ th' = [th EXCEPT ![w] = r] /\ ~Handles(r) /\ ~Handles(th[w])
        /\ UNCHANGED <<queue, next, task, results, toDev, toSvr, at, phase, table>>
    BY <1>1, <1>3, <2>1 DEF Take, Become, Idle, device, Handles
  <2>. QED  BY <1>2, <2>2, AsideLedger
<1>4. CASE QueryStation(w) \/ LostParam(w) \/ FinishReturn(w)
  <2>1. /\ th' = [th EXCEPT ![w] = Idle] /\ ~Handles(th[w])
        /\ UNCHANGED <<queue, next, task, results, toDev, toSvr, at, table>>
    BY <1>4 DEF QueryStation, LostParam, FinishReturn, Become, device, Handles
  <2>2. phase = "INIT" => phase' = "INIT"
    BY <1>1, <1>4 DEF QueryStation, LostParam, FinishReturn, Calm, StartInv, Opens
  <2>. QED  BY <1>1, <1>2, <2>1, <2>2, AsideLedger
<1>5. CASE FinishCall(w)
  <2>1. /\ th' = [th EXCEPT ![w] = Idle] /\ ~Handles(th[w])
        /\ UNCHANGED <<queue, next, task, toDev, toSvr, at, phase>>
    BY <1>5 DEF FinishCall, Become, Answered, device, Handles
  <2>2. \A j \in DOMAIN results' : j \in DOMAIN results /\ results'[j] = results[j]
    BY <1>5 DEF FinishCall, Consume
  <2>3. table'.media = table.media /\ table'.have = table.have
    <3>1. table' \in {table, Exported(th[w].disc), Imported, ImportedTray}
      BY <1>5 DEF FinishCall
    <3>. QED  BY <1>1, <3>1 DEF Exported, Imported, ImportedTray, Table
  <2>. QED  BY <1>1, <1>2, <2>1, <2>2, <2>3, AsideLedger
<1>6. CASE StartReturn(w)
  <2>1. PICK r : r = [th[w] EXCEPT !.pc = "return", !.drive = 1]
    OBVIOUS
  <2>2. /\ th' = [th EXCEPT ![w] = r] /\ ~Handles(r) /\ ~Handles(th[w])
        /\ UNCHANGED <<queue, next, task, results, toDev, toSvr, at, phase, table>>
    BY <1>1, <1>6, <2>1 DEF StartReturn, Become, Record, device, Handles
  <2>. QED  BY <1>2, <2>2, AsideLedger
<1>7. CASE StartCall(w)
  <2>1. PICK d \in IF th[w].job \in NamesDisc THEN Disc ELSE {None} :
          Call(w, Command(th[w].job, d), [th[w] EXCEPT !.disc = d], "answer")
    BY <1>7 DEF StartCall
  <2>2. PICK q : q = [th[w] EXCEPT !.disc = d]
    OBVIOUS
  <2>3. PICK c : c = Command(th[w].job, d)
    OBVIOUS
  <2>4. /\ th[w].job \in OneCall /\ th[w].pc = "start" /\ ~Handles(th[w])
        /\ UNCHANGED <<results, toDev, toSvr, at, phase, table>>
    BY <1>7 DEF StartCall, device, Handles
  <2>5. c \in CommandType
    BY <2>1, <2>3, <2>4, CommandIsTyped
  <2>6. c.op \notin Handling
    BY <2>3, <2>4 DEF Command, Cmd, OneCall, NamesDisc, Handling
  <2>7. d \in Held
    BY <2>1 DEF Held
  <2>8. q \in Record
    BY <1>1, <2>2, <2>7 DEF Record
  <2>9. Call(w, c, q, "answer")
    BY <2>1, <2>2, <2>3
  <2>10. /\ OrderInv' /\ CmdInv' /\ DriveInv'
         /\ th'[w].pc = "answer" /\ \A u : u # w => th'[u] = th[u]
         /\ \A x \in Drive : Entered(x) /\ ~Learns(w, x) => Entered(x)'
    BY <1>1, <2>4, <2>5, <2>6, <2>8, <2>9, CallLedger
  <2>11. BookInv'
    BY <2>4, <2>10 DEF Ledger, BookInv, Learns
  <2>12. SpaceInv'
    BY <2>4, <2>10 DEF Ledger, SpaceInv
  <2>. QED  BY <2>10, <2>11, <2>12 DEF Ledger
<1>8. CASE ReturnNext(w)
  <2>1. PICK d \in table.have : Hide(w, d)
    BY <1>8 DEF ReturnNext
  <2>2. PICK q : q = [th[w] EXCEPT !.drive = d, !.disc = table.media[d]]
    OBVIOUS
  <2>3. PICK c : c = Cmd("HIDE", d, None)
    OBVIOUS
  <2>4. Call(w, c, q, "hide")
    BY <2>1, <2>2, <2>3 DEF Hide
  <2>5. d \in Drive /\ table.media[d] \in Held /\ d \in 0 .. (NDrive + 1)
    BY <1>1, NumbersAssumption DEF Table, Drive
  <2>6. q \in Record /\ q.drive = d
    BY <1>1, <2>2, <2>5 DEF Record
  <2>7. c \in CommandType /\ c = Cmd("HIDE", q.drive, None)
    BY <2>3, <2>5, <2>6 DEF Cmd, CommandType, Op
  <2>8. ~Handles(th[w]) /\ UNCHANGED <<results, toDev, toSvr, at, phase, table>>
    BY <1>8 DEF ReturnNext, device, Handles
  <2>9. /\ OrderInv' /\ CmdInv' /\ DriveInv'
        /\ th'[w].pc = "hide" /\ th'[w].drive = d /\ \A u : u # w => th'[u] = th[u]
        /\ \A x \in Drive : Entered(x) /\ ~Learns(w, x) => Entered(x)'
    BY <1>1, <2>4, <2>6, <2>7, <2>8, CallLedger
  <2>10. BookInv'
    BY <2>8, <2>9 DEF Ledger, BookInv, Learns
  <2>11. SpaceInv'
    BY <2>1, <2>8, <2>9 DEF Ledger, SpaceInv
  <2>. QED  BY <2>9, <2>10, <2>11 DEF Ledger
<1>9. CASE FinishUpdate(w)
  <2>1. phase = "INIT"
    <3>1. Opens(th[w])
      BY <1>9 DEF FinishUpdate, Answered, Opens
    <3>. QED  BY <1>1, <3>1 DEF Calm, RoleInv
  <2>2. /\ \A u \in Thread : ~Handles(th[u])
        /\ \A i \in TaskId : task[i].cmd.op = "GMAP"
        /\ th[w].id \in DOMAIN results /\ UNCHANGED <<queue, next, task, toDev, toSvr, at>>
    BY <1>1, <1>9, <2>1 DEF Calm, StartInv, Opens, Handles, FinishUpdate, Answered, device
  <2>3. \A j \in DOMAIN results' : j \in DOMAIN results /\ results'[j] = results[j]
    BY <1>9 DEF FinishUpdate, Consume
  <2>4. PICK r : r = [th[w] EXCEPT !.pc = "return", !.drive = 1]
    OBVIOUS
  <2>5. /\ ~Handles(r)
        /\ th' = [th EXCEPT ![w] = r] \/ th' = [th EXCEPT ![w] = Idle]
    BY <1>1, <1>9, <2>4 DEF FinishUpdate, Become, Record, Handles
  <2>6. \A u \in Thread : ~Handles(th'[u])
    BY <1>1, <2>2, <2>5
  <2>7. OrderInv' /\ CmdInv' /\ DriveInv' /\ SpaceInv'
    <3>1. OrderInv' /\ CmdInv'
      BY <2>2, <2>3 DEF Ledger, OrderInv, CmdInv
    <3>2. \A i \in TaskId : task'[i].cmd.op \notin Handling
      BY <2>2 DEF Handling
    <3>3. DriveInv'
      BY <2>6, <3>2 DEF DriveInv
    <3>4. SpaceInv'
      BY <2>6 DEF SpaceInv, Handles
    <3>. QED  BY <3>1, <3>3, <3>4
  <2>8. CASE results[th[w].id].code = "map"
    <3>1. PICK m : m = results[th[w].id].map
      OBVIOUS
    <3>2. PICK u : u = Updated(m)
      OBVIOUS
    <3>3. table' = u
      BY <1>9, <2>8, <3>1, <3>2 DEF FinishUpdate, Answer
    <3>4. u.media = m.held
      BY <1>1, <3>2 DEF Updated, Table
    <3>5. \A x \in Drive : m.held[x] = HoldsIn(at, x)
      BY <2>1, <2>2, <2>8, <3>1 DEF Calm, StartInv
    <3>. QED  BY <2>2, <2>7, <3>3, <3>4, <3>5 DEF Ledger, BookInv, Entered
  <2>9. CASE results[th[w].id].code # "map"
    BY <1>9, <2>1, <2>7, <2>9 DEF FinishUpdate, Answer, Ledger, BookInv
  <2>. QED  BY <2>8, <2>9
<1>10. CASE RefuseMove(w) \/ FinishMove(w)
  <2>1. /\ th' = [th EXCEPT ![w] = Idle] /\ ~Handles(th[w]) /\ th[w].job = MoveJob
        /\ th[w].pc \in {"start", "placed"}
        /\ UNCHANGED <<queue, next, task, results, toDev, toSvr, at, table>>
    BY <1>10 DEF RefuseMove, FinishMove, Become, device, Handles, MoveJob
  <2>2. phase # "INIT"
    BY <1>1, <2>1 DEF Calm, StartInv, Opens, MoveJob
  <2>. QED  BY <1>1, <1>2, <2>1, <2>2, AsideLedger
<1>11. CASE ReserveDisc(w)
  <2>1. PICK d : /\ Become(w, [th[w] EXCEPT !.pc = "place", !.disc = d])
                 /\ table' = [table EXCEPT !.blank = @ \ {d}]
    BY <1>11 DEF ReserveDisc
  <2>2. PICK r : r = [th[w] EXCEPT !.pc = "place", !.disc = d]
    OBVIOUS
  <2>3. /\ th' = [th EXCEPT ![w] = r] /\ ~Handles(r) /\ ~Handles(th[w])
        /\ UNCHANGED <<queue, next, task, results, toDev, toSvr, at, phase>>
    BY <1>1, <1>11, <2>1, <2>2 DEF ReserveDisc, Become, Record, device, Handles
  <2>4. table'.media = table.media /\ table'.have = table.have
    BY <1>1, <2>1 DEF Table
  <2>. QED  BY <1>1, <1>2, <2>3, <2>4, AsideLedger
<1>12. th[w].pc # "inventory" /\ \A k \in Reader : ~TakeDisc(w, k)
  BY <1>1 DEF Stage, TakeDisc
<1>. QED
  BY <1>1, <1>3, <1>4, <1>5, <1>6, <1>7, <1>8, <1>9, <1>10, <1>11, <1>12
     DEF Work, StartInventory, FinishInventory

(* Of the other steps of threads all are at a drive: they look for a free  *)
(* one, take an answer, or close the tray.                                 *)
LEMMA StepLedger ==
  ASSUME Plain, Calm, Ledger, NEW t \in Thread, Step(t)
  PROVE  Ledger' /\ StartInv'
<1>1. /\ th[t] \in Record /\ Stage(th[t]) /\ th[t].job # "read" /\ table \in Table
      /\ th \in [Thread -> Record]
  <2>1. th[t].job # "read"
    BY DEF Calm, JobsInv, Plain
  <2>. QED  BY <2>1 DEF Calm, Types, ThreadTypes, TableTypes, RoleInv
<1>2. th[t].pc \in {"hide", "place", "move", "close", "placed"} /\ phase' = phase
  BY DEF Step, HideDone, Place, MoveDone, MoveShut, MoveFailed, CloseDone, ReadDone, Answered
<1>3. phase # "INIT"
  BY <1>2 DEF Calm, StartInv, Opens, Idle
<1>4. StartInv'
  BY <1>2, <1>3 DEF StartInv
<1>5. CASE Place(t)
  <2>1. PICK d \in FreeDrive : Call(t, Cmd("CMOV", d, th[t].disc), [th[t] EXCEPT !.drive = d], "move")
    BY <1>5 DEF Place
  <2>2. d \in Drive /\ d \notin table.have /\ table.media[d] = None /\ d \in 0 .. (NDrive + 1)
    BY NumbersAssumption DEF FreeDrive, Drive
  <2>3. PICK q : q = [th[t] EXCEPT !.drive = d]
    OBVIOUS
  <2>4. PICK c : c = Cmd("CMOV", d, th[t].disc)
    OBVIOUS
  <2>5. q \in Record /\ q.drive = d /\ q.disc = th[t].disc
    BY <1>1, <2>2, <2>3 DEF Record
  <2>6. c \in CommandType /\ c = Cmd("CMOV", q.drive, q.disc)
    BY <1>1, <2>2, <2>4, <2>5 DEF Cmd, CommandType, Op, Record, Held
  <2>7. Call(t, c, q, "move")
    BY <2>1, <2>3, <2>4
  <2>8. ~Handles(th[t]) /\ UNCHANGED <<results, toDev, toSvr, at, phase, table>>
    BY <1>5 DEF Place, device, Handles
  <2>9. /\ OrderInv' /\ CmdInv' /\ DriveInv'
        /\ th'[t].pc = "move" /\ th'[t].drive = d /\ \A u : u # t => th'[u] = th[u]
        /\ \A x \in Drive : Entered(x) /\ ~Learns(t, x) => Entered(x)'
    BY <2>5, <2>6, <2>7, <2>8, CallLedger
  <2>10. BookInv'
    BY <2>8, <2>9 DEF Ledger, BookInv, Learns
  <2>11. SpaceInv'
    BY <2>2, <2>8, <2>9 DEF Ledger, SpaceInv
  <2>. QED  BY <1>4, <2>9, <2>10, <2>11 DEF Ledger
<1>6. CASE CloseDone(t)
  <2>1. PICK r : r = [th[t] EXCEPT !.pc = "placed"]
    OBVIOUS
  <2>2. /\ th' = [th EXCEPT ![t] = r] /\ ~Handles(r) /\ ~Handles(th[t])
        /\ UNCHANGED <<queue, next, task, toDev, toSvr, at, phase, table>>
    BY <1>1, <1>6, <2>1 DEF CloseDone, Become, Answered, Record, device, Handles
  <2>3. \A j \in DOMAIN results' : j \in DOMAIN results /\ results'[j] = results[j]
    BY <1>6 DEF CloseDone, Consume
  <2>4. \A u \in Thread : Handles(th[u]) \/ Handles(th'[u]) => th'[u] = th[u]
    BY <1>1, <2>2
  <2>. QED  BY <1>4, <2>2, <2>3, <2>4, AsideLedger
<1>. QED
  BY <1>1, <1>3, <1>4, <1>5, <1>6, HideDoneLedger, MoveEndLedger DEF Step, ReadDone

(* A request that comes in while the first update runs is turned away. *)
LEMMA AskLedger ==
  ASSUME Calm, Ledger, NEW r \in Request, NEW c \in Asked, Ask(r, c)
  PROVE  Ledger' /\ StartInv' /\ RoleInv'
<1>1. /\ UNCHANGED <<th, queue, next, task, results, toDev, toSvr, at, table>>
      /\ phase = "INIT" => UNCHANGED <<phase, pool>>
  BY DEF Ask, Accepts, device
<1>2. phase # "INIT" => phase' # "INIT"
  BY DEF Ask
<1>3. Ledger'
  BY <1>1, AsideLedger
<1>4. StartInv'
  BY <1>1, <1>2 DEF Calm, StartInv
<1>. QED  BY <1>3, <1>4, AskRole

(* The jobs of the threads and of the pool are what they were. *)
LEMMA RoleSame ==
  ASSUME RoleInv, UNCHANGED <<th, pool, phase>>
  PROVE  RoleInv'
BY DEF RoleInv, Waiting

(* The connection comes up or breaks: what was said is lost, not changed. *)
LEMMA LinkLedger ==
  ASSUME Calm, Ledger, Connect \/ Authenticate \/ Drop \/ UNCHANGED vars
  PROVE  Ledger' /\ StartInv' /\ RoleInv'
<1>1. /\ UNCHANGED <<th, pool, phase, queue, next, results, task, at, table>>
      /\ UNCHANGED <<toDev, toSvr>> \/ (toDev' = <<>> /\ toSvr' = <<>>)
  BY DEF Connect, Authenticate, Drop, vars, server, device
<1>2. RoleInv'
  BY <1>1, RoleSame DEF Calm
<1>3. CASE UNCHANGED <<toDev, toSvr>>
  <2>1. Ledger'
    BY <1>1, <1>3, AsideLedger
  <2>. QED  BY <1>1, <1>2, <1>3, <2>1 DEF Calm, StartInv
<1>4. CASE toDev' = <<>> /\ toSvr' = <<>>
  <2>1. \A i, c : Told(toSvr', results', i, c) => Told(toSvr, results, i, c)
    BY <1>1, <1>4 DEF Told
  <2>2. OrderInv' /\ CmdInv' /\ StartInv' /\ SpaceInv'
    BY <1>1, <1>4 DEF Calm, Ledger, OrderInv, CmdInv, StartInv, SpaceInv
  <2>3. next \in Nat /\ next' \in Nat /\ next <= next' /\ \A i \in TaskId : Live(i) => i <= next
    BY <1>1, LiveIds DEF Ledger
  <2>4. \A i : Live(i)' => Live(i)
    BY <1>1 DEF Live
  <2>5. DriveInv'
    BY <1>1, <2>1, <2>3, <2>4, DrivesKept DEF Ledger
  <2>6. ASSUME NEW r \in Drive, Entered(r)
        PROVE  Entered(r)'
    <3>1. \A u \in Thread : Learns(u, r) => th'[u] = th[u] /\ Worked(th[u].id)'
      BY <1>1, <1>4 DEF Learns, Worked
    <3>. QED  BY <1>1, <2>1, <2>6, <3>1, EntryKept
  <2>7. BookInv'
    BY <1>1, <2>6 DEF Ledger, BookInv
  <2>. QED  BY <1>2, <2>2, <2>5, <2>7 DEF Ledger
<1>. QED  BY <1>1, <1>3, <1>4

(* The front of the queue is sent. *)
LEMMA SendLedger ==
  ASSUME Calm, Ledger, Send
  PROVE  Ledger' /\ StartInv' /\ RoleInv'
<1>1. UNCHANGED <<th, pool, phase, queue, next, results, toSvr, at, table>>
  BY DEF Send
<1>2. PICK f \in TaskId : f = Head(queue) /\ task[f] \in TaskType
  BY HeadTyped DEF Send, Calm, Types, TaskTypes
<1>3. PICK e : e = [id |-> f, cmd |-> task[f].cmd]
  OBVIOUS
<1>4. /\ e.id = f /\ e.cmd = task[f].cmd
      /\ \/ UNCHANGED <<task, toDev>>
         \/ ~task[f].sent /\ task' = [task EXCEPT ![f].sent = TRUE] /\ toDev' = Append(toDev, e)
  BY <1>2, <1>3 DEF Send
<1>5. \A i \in TaskId : task'[i].cmd = task[i].cmd
  <2>1. task' = task \/ task' = [task EXCEPT ![f].sent = TRUE]
    BY <1>4
  <2>2. [task[f] EXCEPT !.sent = TRUE].cmd = task[f].cmd
    BY <1>2 DEF TaskType
  <2>. QED  BY <1>2, <2>1, <2>2 DEF Calm, Types, TaskTypes
<1>6. \A k \in 1 .. Len(toDev') :
        (toDev'[k] = e /\ ~task[f].sent) \/ (k \in 1 .. Len(toDev) /\ toDev'[k] = toDev[k])
  BY <1>4 DEF Calm, Types, DeviceTypes
<1>7. CmdInv'
  <2>1. \A k \in 1 .. Len(toDev) : toDev[k].id \in TaskId
    BY LiveIds DEF Ledger
  <2>. QED  BY <1>2, <1>4, <1>5, <1>6, <2>1 DEF Ledger, CmdInv
<1>8. OrderInv' /\ StartInv' /\ SpaceInv'
  BY <1>1, <1>5 DEF Calm, Ledger, OrderInv, StartInv, SpaceInv
<1>9. next \in Nat /\ next' \in Nat /\ next <= next' /\ \A i \in TaskId : Live(i) => i <= next
  BY <1>1, LiveIds DEF Ledger
<1>10. \A i : Live(i)' => Live(i)
  BY <1>1 DEF Live
<1>11. DriveInv'
  BY <1>1, <1>5, <1>9, <1>10, DrivesKept DEF Ledger
<1>12. \A i \in TaskId : Worked(i) => Worked(i)'
  <2>. SUFFICES ASSUME NEW i \in TaskId, Worked(i) PROVE Worked(i)'
    OBVIOUS
  <2>1. i # f => task'[i] = task[i]
    BY <1>4 DEF Calm, Types, TaskTypes
  <2>2. CASE task[f].sent
    BY <1>4, <2>2 DEF Worked
  <2>3. CASE ~task[f].sent
    <3>1. i # f
      BY <2>3 DEF Worked
    <3>2. \A k \in 1 .. Len(toDev') : toDev'[k].id # i
      BY <1>4, <1>6, <3>1 DEF Worked
    <3>. QED  BY <2>1, <3>1, <3>2 DEF Worked
  <2>. QED  BY <2>2, <2>3
<1>13. ASSUME NEW r \in Drive, Entered(r)
       PROVE  Entered(r)'
  <2>1. \A u \in Thread : Learns(u, r) => th'[u] = th[u] /\ Worked(th[u].id)'
    BY <1>1, <1>12 DEF Ledger, DriveInv, Learns, Worked
  <2>. QED  BY <1>1, <1>13, <2>1, EntryKept
<1>14. BookInv'
  BY <1>1, <1>13 DEF Ledger, BookInv
<1>15. RoleInv'
  BY <1>1, RoleSame DEF Calm
<1>. QED  BY <1>7, <1>8, <1>11, <1>14, <1>15 DEF Ledger

(* The answer under way is filed for its task. *)
LEMMA ReceiveLedger ==
  ASSUME Calm, Ledger, NEW n \in 1 .. Len(toSvr), Receive(n)
  PROVE  Ledger' /\ StartInv' /\ RoleInv'
<1>1. UNCHANGED <<th, pool, phase, next, task, toDev, at, table>>
  <2>1. UNCHANGED <<pool, phase>>
    BY ReceiveKeepsQuiet DEF Calm
  <2>. QED  BY <2>1 DEF Receive
<1>2. Len(toSvr) = 1 /\ n = 1 /\ queue # <<>> /\ toSvr[1].id = Head(queue) /\ toSvr \in Seq(Filed)
  <2>1. toSvr # <<>> /\ toSvr \in Seq(Filed)
    BY DEF Calm, Types, DeviceTypes
  <2>2. Len(toSvr) = 1 /\ queue # <<>> /\ toSvr[1].id = Head(queue)
    BY <2>1, CalmWire
  <2>3. n = 1
    BY <2>2
  <2>. QED  BY <2>1, <2>2, <2>3
<1>3. toSvr' = <<>>
  BY <1>2 DEF Receive
<1>4. PICK h, a : h = Head(queue) /\ a = toSvr[1]
  OBVIOUS
<1>5. /\ queue \in Seq(TaskId) /\ h \in TaskId /\ queue[1] = h /\ 1 \in 1 .. Len(queue)
      /\ h \notin DOMAIN results /\ h <= next
      /\ \A k \in 2 .. Len(queue) : h < queue[k]
  <2>1. queue \in Seq(TaskId) /\ QueueInv
    BY DEF Calm, AnswerInv, QueueInv
  <2>2. h \in TaskId /\ queue[1] = h /\ 1 \in 1 .. Len(queue)
    BY <1>2, <1>4, <2>1
  <2>3. h \notin DOMAIN results
    BY <2>2 DEF Ledger, OrderInv, TaskId
  <2>4. h <= next /\ \A k \in 2 .. Len(queue) : h < queue[k]
    BY <2>2, <2>1 DEF QueueInv
  <2>. QED  BY <2>1, <2>2, <2>3, <2>4
<1>6. /\ queue' = Tail(queue)
      /\ results' = [i \in DOMAIN results \cup {h} |-> IF i = h THEN a ELSE results[i]]
  <2>1. \A code \in Seen(n) : code \notin Exception \cup {"DOORCLOSE"}
    BY <1>2 DEF Seen, Calm, QuietWire
  <2>2. Process(a)
    BY <1>2, <1>4, <2>1 DEF Receive
  <2>. QED  BY <1>2, <1>4, <2>2 DEF Process
<1>7. \A k \in 1 .. Len(queue') : k + 1 \in 2 .. Len(queue) /\ queue'[k] = queue[k + 1]
  BY <1>2, <1>5, <1>6
<1>8. \A i, c : Told(toSvr', results', i, c) => Told(toSvr, results, i, c)
  BY <1>2, <1>3, <1>4, <1>6 DEF Told
<1>9. \A i : Live(i)' => Live(i)
  BY <1>5, <1>6, <1>7 DEF Live
<1>10. OrderInv'
  BY <1>1, <1>5, <1>6, <1>7 DEF Ledger, OrderInv
<1>11. CmdInv' /\ SpaceInv'
  BY <1>1 DEF Ledger, CmdInv, SpaceInv
<1>12. StartInv'
  BY <1>1, <1>2, <1>3, <1>4, <1>6 DEF Calm, StartInv
<1>13. next \in Nat /\ next' \in Nat /\ next <= next' /\ \A i \in TaskId : Live(i) => i <= next
  BY <1>1, LiveIds DEF Ledger
<1>14. DriveInv'
  BY <1>1, <1>8, <1>9, <1>13, DrivesKept DEF Ledger
<1>15. ASSUME NEW r \in Drive, Entered(r)
       PROVE  Entered(r)'
  <2>1. \A u \in Thread : Learns(u, r) => th'[u] = th[u] /\ Worked(th[u].id)'
    BY <1>1 DEF Learns, Worked
  <2>. QED  BY <1>1, <1>8, <1>15, <2>1, EntryKept
<1>16. BookInv'
  BY <1>1, <1>15 DEF Ledger, BookInv
<1>17. RoleInv'
  BY <1>1, RoleSame DEF Calm
<1>. QED  BY <1>10, <1>11, <1>12, <1>14, <1>16, <1>17 DEF Ledger

(* What a command does: of a HIDE and of a CMOV into a bare drive the      *)
(* machine tells the truth, and nothing else touches a drive.              *)
LEMMA Executed ==
  ASSUME Calm, Execute,
         NEW h, h = Head(toDev).id, NEW x, x = Head(toDev).cmd, x \in CommandType,
         x.op \in Handling => x.drive \in Drive,
         x.op = "CMOV" => HoldsIn(at, x.drive) = None
  PROVE  \E f : /\ toSvr' = Append(toSvr, f) /\ f.id = h
                /\ \A r \in Drive : (x.op \in Handling => r # x.drive) =>
                     HoldsIn(at', r) = HoldsIn(at, r)
                /\ x.op \in Handling /\ f.code \in Ends(x) => HoldsIn(at', x.drive) = Puts(x)
                /\ x.op \in Handling /\ f.code \notin Ends(x) => at' = at
                /\ x.op = "HIDE" /\ HoldsIn(at, x.drive) = None => at' = at
                /\ f.code = "map" => at' = at /\ \A r \in Drive : f.map.held[r] = HoldsIn(at, r)
<1>1. \A r \in Drive : r \notin {Slot, Mailbox, Printer}
  BY NumbersAssumption DEF Drive, Slot, Mailbox, Printer
<1>2. at \in [Disc -> 0 .. Printer] /\ toSvr \in Seq(Filed)
  BY DEF Calm, Types, DeviceTypes
<1>3. CASE x.op = "GMAP"
  <2>1. toSvr' = Append(toSvr, Frame(h, "map", Snapshot)) /\ UNCHANGED at
    BY <1>3 DEF Execute
  <2>2. PICK f : f = Frame(h, "map", Snapshot)
    OBVIOUS
  <2>3. f.id = h /\ f.map = Snapshot
    BY <2>2 DEF Frame
  <2>4. \A r \in Drive : f.map.held[r] = HoldsIn(at, r)
    BY <2>3 DEF Snapshot, HoldsIn
  <2>5. x.op \notin Handling /\ x.op # "HIDE"
    BY <1>3 DEF Handling
  <2>. QED  BY <2>1, <2>2, <2>3, <2>4, <2>5
<1>4. CASE x.op \in {"CDIN", "MLIN", "MLOU"}
  <2>1. PICK code \in Code : toSvr' = Append(toSvr, Frame(h, code, None)) /\ UNCHANGED at
    BY <1>4 DEF Execute
  <2>2. PICK f : f = Frame(h, code, None)
    OBVIOUS
  <2>3. f.id = h /\ f.code # "map"
    BY <2>2, CodeAssumption DEF Frame
  <2>5. x.op \notin Handling /\ x.op # "HIDE"
    BY <1>4 DEF Handling
  <2>. QED  BY <2>1, <2>2, <2>3, <2>5
<1>5. CASE x.op \in {"CMOV", "HIDE", "PRIN", "EXPO", "IMPO", "PROU"}
  <2>1. PICK code, f : /\ f = Frame(h, code, None) /\ toSvr' = Append(toSvr, f)
                       /\ \/ code = "none" /\ Subject(x) = {}
                          \/ code = "occupied" /\ Subject(x) # {} /\ Target(x) # Slot
                          \/ code \in {"ok", "fail"} /\ Subject(x) # {}
                       /\ at' = IF code = "ok"
                                THEN [d \in Disc |-> IF d \in Subject(x) THEN Target(x) ELSE at[d]]
                                ELSE at
    <3>1. PICK code : /\ \/ code = "none" /\ Subject(x) = {} /\ at' = at
                         \/ code = "occupied" /\ Subject(x) # {} /\ Target(x) # Slot /\ at' = at
                         \/ /\ code \in Code /\ Subject(x) # {}
                            /\ at' = IF code = "ok"
                                     THEN [d \in Disc |-> IF d \in Subject(x) THEN Target(x) ELSE at[d]]
                                     ELSE at
                      /\ toSvr' = Append(toSvr, Frame(h, code, None))
      BY <1>5 DEF Execute
    <3>. QED  BY <3>1, CodeAssumption
  <2>2. f.id = h /\ f.code = code /\ f.code # "map"
    BY <2>1 DEF Frame
  <2>3. CASE x.op = "HIDE"
    <3>1. Target(x) = Slot /\ Subject(x) = {d \in Disc : at[d] = x.drive} /\ x.drive \in Drive
          /\ x.op \in Handling /\ Ends(x) = {"ok", "none"} /\ Puts(x) = None
      BY <2>3 DEF Target, Subject, Handling, Ends, Puts
    <3>2. \A r \in Drive : r # x.drive => \A d \in Disc : at'[d] = r <=> at[d] = r
      BY <1>1, <1>2, <2>1, <3>1
    <3>3. f.code \in Ends(x) => HoldsIn(at', x.drive) = Puts(x)
      <4>1. code \in {"ok", "none"} => \A d \in Disc : at'[d] # x.drive
        BY <1>1, <1>2, <2>1, <3>1
      <4>. QED  BY <2>2, <3>1, <4>1, BareHoldsNone
    <3>4. f.code \notin Ends(x) => at' = at
      BY <2>1, <2>2, <3>1
    <3>5. HoldsIn(at, x.drive) = None => at' = at
      <4>1. HoldsIn(at, x.drive) = None => Subject(x) = {}
        BY <3>1, BareHoldsNone
      <4>. QED  BY <2>1, <4>1
    <3>6. \A r \in Drive : r # x.drive => HoldsIn(at', r) = HoldsIn(at, r)
      BY <3>2, SameHolds
    <3>. QED  BY <2>1, <2>2, <3>1, <3>3, <3>4, <3>5, <3>6
  <2>4. CASE x.op = "CMOV"
    <3>1. /\ Target(x) = x.drive /\ Subject(x) = {d \in Disc : d = x.disc /\ at[d] = Slot}
          /\ x.drive \in Drive /\ x.op \in Handling /\ Ends(x) = {"ok"} /\ Puts(x) = x.disc
      BY <2>4 DEF Target, Subject, Handling, Ends, Puts
    <3>2. \A d \in Disc : at[d] # x.drive
      BY <2>4, BareHoldsNone
    <3>3. \A r \in Drive : r # x.drive => \A d \in Disc : at'[d] = r <=> at[d] = r
      BY <1>1, <1>2, <2>1, <3>1
    <3>4. f.code \in Ends(x) => HoldsIn(at', x.drive) = Puts(x)
      <4>. SUFFICES ASSUME code = "ok" PROVE HoldsIn(at', x.drive) = x.disc
        BY <2>2, <3>1
      <4>1. x.disc \in Disc /\ Subject(x) = {x.disc}
        BY <2>1, <3>1
      <4>2. \A d \in Disc : at'[d] = x.drive <=> d = x.disc
        BY <1>2, <2>1, <3>1, <3>2, <4>1
      <4>. QED  BY <4>1, <4>2 DEF HoldsIn
    <3>5. f.code \notin Ends(x) => at' = at
      BY <2>1, <2>2, <3>1
    <3>6. \A r \in Drive : r # x.drive => HoldsIn(at', r) = HoldsIn(at, r)
      BY <3>3, SameHolds
    <3>. QED  BY <2>1, <2>2, <2>4, <3>1, <3>4, <3>5, <3>6
  <2>5. CASE x.op \notin Handling
    <3>1. /\ Target(x) \in {Slot, Mailbox, Printer}
          /\ \A d \in Subject(x) : at[d] \in {Slot, Mailbox, Printer}
      BY <1>5, <2>5 DEF Target, Subject, Handling
    <3>2. \A r \in Drive : \A d \in Disc : at'[d] = r <=> at[d] = r
      BY <1>1, <1>2, <2>1, <3>1
    <3>3. \A r \in Drive : HoldsIn(at', r) = HoldsIn(at, r)
      BY <3>2, SameHolds
    <3>4. x.op # "HIDE"
      BY <2>5 DEF Handling
    <3>. QED  BY <2>1, <2>2, <2>5, <3>3, <3>4
  <2>. QED  BY <2>3, <2>4, <2>5 DEF Handling
<1>. QED  BY <1>3, <1>4, <1>5 DEF CommandType, Op

(* The at91 works off the front of the queue.  A HIDE or a CMOV that was   *)
(* done leaves its drive as the thread that waits for it will be told.     *)
LEMMA ExecuteLedger ==
  ASSUME Plain, Calm, Ledger, Execute
  PROVE  Ledger' /\ StartInv' /\ RoleInv'
<1>1. UNCHANGED <<th, pool, phase, queue, next, results, task, table>> /\ toDev # <<>>
      /\ toDev' = Tail(toDev)
  BY DEF Execute, server
<1>2. PICK h, x : h = Head(toDev).id /\ x = Head(toDev).cmd
  OBVIOUS
<1>3. /\ Len(toDev) = 1 /\ toSvr = <<>> /\ queue # <<>> /\ toDev[1] = Head(toDev)
      /\ h = Head(queue) /\ toDev \in Seq([id : TaskId, cmd : CommandType])
  BY <1>1, <1>2, CalmWire DEF Calm, Types, DeviceTypes
<1>4. /\ queue \in Seq(TaskId) /\ h \in TaskId /\ queue[1] = h /\ 1 \in 1 .. Len(queue)
      /\ h \notin DOMAIN results
  <2>1. queue \in Seq(TaskId)
    BY DEF Calm, Types, TaskTypes
  <2>2. h \in TaskId /\ queue[1] = h /\ 1 \in 1 .. Len(queue)
    BY <1>3, <2>1
  <2>3. h \notin DOMAIN results
    BY <2>2 DEF Ledger, OrderInv, TaskId
  <2>. QED  BY <2>1, <2>2, <2>3
<1>5. x = task[h].cmd /\ x \in CommandType /\ ~Worked(h) /\ toDev' = <<>>
  <2>1. Head(toDev) \in [id : TaskId, cmd : CommandType]
    BY <1>1, <1>3, HeadTyped
  <2>2. 1 \in 1 .. Len(toDev) /\ toDev[1] \in [id : TaskId, cmd : CommandType]
    BY <1>3, <2>1
  <2>3. toDev[1].id = h /\ toDev[1].cmd = x
    BY <1>2, <1>3
  <2>4. toDev' = <<>>
    BY <1>1, <1>3
  <2>. QED  BY <1>4, <2>2, <2>3, <2>4 DEF Ledger, CmdInv, Worked
<1>6. \A i : task[i].sent => Worked(i)'
  BY <1>1, <1>5 DEF Worked
<1>7. Worked(h)'
  <2>1. task[h].sent
    BY <1>1, <1>3 DEF Calm, AnswerInv, WireInv, FrontSent
  <2>. QED  BY <1>6, <2>1
<1>8. x.op \in Handling => \E u \in Thread : Handles(th[u]) /\ th[u].id = h /\ Order(th[u]) = x
  <2>1. Live(h)
    BY <1>4 DEF Live
  <2>. QED  BY <1>4, <1>5, <2>1 DEF Ledger, DriveInv
<1>9. \A u \in Thread : Handles(th[u]) => th[u].drive \in Drive /\ Order(th[u]).drive = th[u].drive
                                          /\ Order(th[u]).op \in Handling
  BY Orders DEF Handles, Calm, Types, ThreadTypes, AtDrive
<1>10. x.op \in Handling => x.drive \in Drive
  BY <1>8, <1>9
<1>11. ASSUME x.op = "CMOV"
       PROVE  HoldsIn(at, x.drive) = None
  <2>1. PICK u \in Thread : Handles(th[u]) /\ th[u].id = h /\ Order(th[u]) = x
    BY <1>8, <1>11 DEF Handling
  <2>2. th[u].pc = "move" /\ th[u].drive = x.drive /\ x.drive \in Drive
    BY <1>9, <1>11, <2>1, Orders DEF Handles
  <2>3. phase # "INIT"
    BY <1>4, <1>5, <1>11 DEF Calm, StartInv
  <2>4. table.media[x.drive] = None /\ Entered(x.drive)
    BY <2>2, <2>3 DEF Ledger, SpaceInv, BookInv
  <2>5. ASSUME NEW v \in Thread, Learns(v, x.drive)
        PROVE  FALSE
    <3>1. v = u
      BY <2>2, <2>5, Apart DEF Ledger, Learns
    <3>. QED  BY <1>5, <2>1, <2>5, <3>1 DEF Learns
  <2>. QED  BY <2>4, <2>5 DEF Entered
<1>12. PICK f : /\ toSvr' = Append(toSvr, f) /\ f.id = h
                /\ \A r \in Drive : (x.op \in Handling => r # x.drive) =>
                     HoldsIn(at', r) = HoldsIn(at, r)
                /\ x.op \in Handling /\ f.code \in Ends(x) => HoldsIn(at', x.drive) = Puts(x)
                /\ x.op \in Handling /\ f.code \notin Ends(x) => at' = at
                /\ x.op = "HIDE" /\ HoldsIn(at, x.drive) = None => at' = at
                /\ f.code = "map" => at' = at /\ \A r \in Drive : f.map.held[r] = HoldsIn(at, r)
  BY <1>2, <1>5, <1>10, <1>11, Executed
<1>13. Len(toSvr') = 1 /\ toSvr'[1] = f
  BY <1>3, <1>12
<1>14. \A i, c : Told(toSvr', results', i, c) <=> Told(toSvr, results, i, c) \/ (i = h /\ c = f.code)
  BY <1>1, <1>3, <1>12, <1>13 DEF Told
<1>15. \A c : ~Told(toSvr, results, h, c)
  BY <1>3, <1>4 DEF Told
<1>16. \A i : Live(i)' => Live(i)
  BY <1>1 DEF Live
<1>17. OrderInv' /\ CmdInv' /\ SpaceInv'
  BY <1>1, <1>5 DEF Ledger, OrderInv, CmdInv, SpaceInv
<1>18. StartInv'
  <2>1. ASSUME phase = "INIT"
        PROVE  \A r \in Drive : HoldsIn(at', r) = HoldsIn(at, r)
    <3>1. x.op \notin Handling
      BY <1>4, <1>5, <2>1 DEF Calm, StartInv, Handling
    <3>. QED  BY <1>12, <3>1
  <2>2. f.code = "map" => \A r \in Drive : f.map.held[r] = HoldsIn(at', r)
    BY <1>12
  <2>. QED  BY <1>1, <1>13, <2>1, <2>2 DEF Calm, StartInv
<1>19. ASSUME NEW v \in Thread, Handles(th[v]), th[v].id # h,
              HoldsIn(at, th[v].drive) = Puts(Order(th[v]))
       PROVE  HoldsIn(at', th[v].drive) = HoldsIn(at, th[v].drive)
  <2>1. CASE x.op \in Handling => th[v].drive # x.drive
    BY <1>9, <1>12, <1>19, <2>1
  <2>2. CASE x.op \in Handling /\ th[v].drive = x.drive
    <3>1. PICK u \in Thread : Handles(th[u]) /\ th[u].id = h /\ Order(th[u]) = x
      BY <1>8, <2>2
    <3>2. th[u].drive = th[v].drive /\ u # v
      BY <1>9, <1>19, <2>2, <3>1
    <3>3. th[u].pc # "move" /\ th[v].pc # "move"
      BY <1>19, <3>1, <3>2, Apart DEF Ledger
    <3>4. th[u].pc = "hide" /\ th[v].pc = "hide"
      BY <1>19, <3>1, <3>3 DEF Handles
    <3>5. x.op = "HIDE" /\ HoldsIn(at, x.drive) = None
      BY <1>19, <2>2, <3>1, <3>4, Orders
    <3>. QED  BY <1>12, <3>5
  <2>. QED  BY <2>1, <2>2
<1>20. DriveInv'
  <2>1. ASSUME NEW i \in TaskId, Live(i)', task'[i].cmd.op \in Handling
        PROVE  \E u \in Thread : Handles(th'[u]) /\ th'[u].id = i
    BY <1>1, <1>16, <2>1 DEF Ledger, DriveInv
  <2>2. ASSUME NEW v \in Thread, Handles(th'[v])
        PROVE  /\ th'[v].id \in TaskId /\ th'[v].id <= next' /\ task'[th'[v].id].cmd = Order(th'[v])
               /\ \A c \in Ends(Order(th'[v])) : Told(toSvr', results', th'[v].id, c) =>
                    HoldsIn(at', th'[v].drive) = Puts(Order(th'[v]))
    <3>1. PICK i, y : i = th[v].id /\ y = th[v] /\ y = th'[v] /\ Handles(y)
      BY <1>1, <2>2
    <3>2. /\ i \in TaskId /\ i <= next /\ task[i].cmd = Order(y)
          /\ \A c \in Ends(Order(y)) : Told(toSvr, results, i, c) =>
               HoldsIn(at, y.drive) = Puts(Order(y))
      BY <3>1 DEF Ledger, DriveInv
    <3>3. ASSUME NEW c \in Ends(Order(y)), Told(toSvr', results', i, c)
          PROVE  HoldsIn(at', y.drive) = Puts(Order(y))
      <4>1. CASE i = h
        <5>1. Order(y) = x /\ x.op \in Handling /\ x.drive = y.drive /\ c = f.code
          BY <1>5, <1>9, <1>14, <1>15, <3>1, <3>2, <3>3, <4>1
        <5>. QED  BY <1>12, <3>3, <5>1
      <4>2. CASE i # h
        <5>1. HoldsIn(at, y.drive) = Puts(Order(y))
          BY <1>14, <3>2, <3>3, <4>2
        <5>. QED  BY <1>19, <3>1, <4>2, <5>1
      <4>. QED  BY <4>1, <4>2
    <3>. QED  BY <1>1, <3>1, <3>2, <3>3
  <2>. QED  BY <2>1, <2>2 DEF DriveInv
<1>21. ASSUME NEW r \in Drive, Entered(r)
       PROVE  Entered(r)'
  <2>1. CASE x.op \in Handling /\ r = x.drive /\ f.code \in Ends(x)
    <3>1. PICK u \in Thread : Handles(th[u]) /\ th[u].id = h /\ Order(th[u]) = x
      BY <1>8, <2>1
    <3>2. PICK y : y = th[u] /\ y = th'[u]
      BY <1>1
    <3>3. Handles(y) /\ y.drive = r /\ HoldsIn(at', r) = Puts(Order(y)) /\ y.id = h
      BY <1>9, <1>12, <2>1, <3>1, <3>2
    <3>4. \A c : Told(toSvr', results', h, c) => c \in Ends(Order(y))
      BY <1>14, <1>15, <2>1, <3>1, <3>2
    <3>5. Worked(th[u].id)'
      BY <1>1, <1>7, <3>1 DEF Worked
    <3>6. Learns(u, r)'
      BY <3>2, <3>3, <3>4, <3>5 DEF Learns, Worked
    <3>. QED  BY <3>6 DEF Entered
  <2>2. CASE ~(x.op \in Handling /\ r = x.drive /\ f.code \in Ends(x))
    <3>1. HoldsIn(at', r) = HoldsIn(at, r)
      BY <1>12, <2>2
    <3>2. CASE table.media[r] = HoldsIn(at, r)
      BY <1>1, <3>1, <3>2 DEF Entered
    <3>3. ASSUME NEW u \in Thread, Learns(u, r)
          PROVE  Entered(r)'
      <4>1. PICK y : y = th[u] /\ y = th'[u]
        BY <1>1
      <4>2. /\ Handles(y) /\ y.drive = r /\ HoldsIn(at', r) = Puts(Order(y)) /\ y.id # h
            /\ \A c : Told(toSvr, results, y.id, c) => c \in Ends(Order(y))
            /\ task[y.id].sent
        BY <1>5, <3>1, <3>3, <4>1 DEF Learns, Worked
      <4>3. \A c : Told(toSvr', results', y.id, c) => c \in Ends(Order(y))
        BY <1>14, <4>2
      <4>4. task'[y.id].sent /\ \A k \in 1 .. Len(toDev') : toDev'[k].id # y.id
        BY <1>6, <4>2 DEF Worked
      <4>5. Learns(u, r)'
        BY <4>1, <4>2, <4>3, <4>4 DEF Learns, Worked
      <4>. QED  BY <4>5 DEF Entered
    <3>. QED  BY <1>21, <3>2, <3>3 DEF Entered
  <2>. QED  BY <2>1, <2>2
<1>22. BookInv'
  BY <1>1, <1>21 DEF Ledger, BookInv
<1>23. RoleInv'
  BY <1>1, RoleSame DEF Calm
<1>. QED  BY <1>17, <1>18, <1>20, <1>22, <1>23 DEF Ledger

(* At first nothing is under way, and nothing need agree. *)
LEMMA LedgerInit == Init => RoleInv /\ StartInv /\ Ledger
<1>. SUFFICES ASSUME Init PROVE RoleInv /\ StartInv /\ Ledger
  OBVIOUS
<1>1. \A t \in Thread : th[t] = Idle /\ th[t].pc = "idle" /\ th[t].job = "idle"
  BY DEF Init, Idle
<1>2. /\ queue = <<>> /\ results = <<>> /\ toDev = <<>> /\ toSvr = <<>> /\ phase = "INIT"
      /\ Len(queue) = 0 /\ Len(toDev) = 0 /\ Len(toSvr) = 0 /\ DOMAIN results = {}
  BY DEF Init
<1>3. \A i \in TaskId : task[i].cmd.op = "GMAP"
  BY DEF Init, Cmd
<1>4. DOMAIN pool = {1} /\ pool[1].job = "update"
  BY DEF Init
<1>5. RoleInv
  BY <1>1, <1>2, <1>4 DEF RoleInv, Stage, Opens, Waiting
<1>6. StartInv
  BY <1>1, <1>2, <1>3, <1>4 DEF StartInv
<1>7. OrderInv /\ CmdInv /\ BookInv
  BY <1>2 DEF OrderInv, CmdInv, BookInv
<1>8. DriveInv /\ SpaceInv
  BY <1>1, <1>3 DEF DriveInv, SpaceInv, Handles, Handling
<1>. QED  BY <1>5, <1>6, <1>7, <1>8 DEF Ledger

(* Every step keeps the ledger and what it rests on. *)
LEMMA LedgerStep ==
  ASSUME Plain, Calm, Ledger, [Next]_vars, spent.timeout \in Nat
  PROVE  Ledger' /\ StartInv' /\ RoleInv'
<1>1. ~GiveUp
  <2>1. ~(spent.timeout < MaxTimeout)
    BY NeverGivesUp DEF Plain
  <2>. QED  BY <2>1 DEF GiveUp, LoseCall, HideLost, PlaceLost, GivesUp
<1>2. ASSUME NEW w \in Worker, Work(w)
      PROVE  Ledger' /\ StartInv' /\ RoleInv'
  <2>1. Ledger' /\ RoleInv'
    BY <1>2, WorkLedger, WorkRole
  <2>2. CASE phase = "INIT"
    BY <1>2, <2>1, <2>2, WorkStart
  <2>3. CASE phase # "INIT"
    <3>1. phase' # "INIT"
      BY <2>3, InitLeft
    <3>. QED  BY <2>1, <3>1 DEF StartInv
  <2>. QED  BY <2>2, <2>3
<1>3. ASSUME NEW t \in Thread, Step(t)
      PROVE  Ledger' /\ StartInv' /\ RoleInv'
  BY <1>3, StepLedger, StepRole
<1>4. ~\E e \in Event : Happen(e)
  BY DEF Plain
<1>. QED
  BY <1>1, <1>2, <1>3, <1>4, AskLedger, LinkLedger, SendLedger, ReceiveLedger, ExecuteLedger
     DEF Next, Loop

(* m_storage and the machine agree on every drive no command concerns, for *)
(* any number of threads, requests, drives and discs, whatever fails and   *)
(* however often the connection breaks.  The assumptions leave out what is *)
(* known to break it: a HIDE that is given up and done later, a door that  *)
(* opens before the first update, and, with moves into drives, a second    *)
(* HIDE of a drive, which finds it empty when it was filled meanwhile.     *)
THEOREM LedgerIsTrue ==
  ASSUME MaxTimeout = 0, Event = {}, "inventory" \notin Asked,
         "return disc" \notin Asked \/ "move disc to cdrom" \notin Asked
  PROVE  Spec => []LedgerAgrees
<1>. DEFINE I == /\ Types /\ AnswerInv /\ LockInv /\ ReadInv /\ JobsInv
                 /\ RoleInv /\ StartInv /\ Ledger
<1>1. Plain /\ "DOORCLOSE" \notin Event
  BY DEF Plain, MoveJob
<1>2. Init => I
  BY InitTypes, AnswerInit, LockInit, ReadInit, JobsInit, LedgerInit
<1>3. ASSUME I, [Next]_vars
      PROVE  I'
  <2>1. Types' /\ AnswerInv' /\ LockInv' /\ ReadInv' /\ JobsInv'
    BY <1>1, <1>3, NextTypes, AnswerStep, LockStep, ReadStep, JobsStep
  <2>2. Calm /\ spent.timeout \in Nat
    BY <1>1, <1>3, PlainWire DEF Calm, ReadInv
  <2>3. Ledger' /\ StartInv' /\ RoleInv'
    BY <1>1, <1>3, <2>2, LedgerStep
  <2>. QED  BY <2>1, <2>3
<1>4. I => LedgerAgrees
  <2>. SUFFICES ASSUME BookInv, phase # "INIT", NEW r \in Drive, ~Concerned(r)
                PROVE  table.media[r] = HoldsIn(at, r)
    BY DEF LedgerAgrees, HoldsIn, Ledger
  <2>. QED  BY DEF BookInv, Entered, Learns, Handles, Concerned
<1>. HIDE DEF I
<1>. QED  BY <1>2, <1>3, <1>4, PTL DEF Spec

-----------------------------------------------------------------------------
(***************************************************************************)
(* Drives stay free.                                                       *)
(*                                                                         *)
(* The lock keeps other moves away from the drive a thread has chosen, and *)
(* a HIDE only empties drives.  There remains the update, which enters     *)
(* whatever the at91 saw.  It does so once, and until then no thread looks *)
(* for a drive, for the requests that come in are turned away (LoneInv).   *)
(* A door that opens or closes would end that.                             *)
(***************************************************************************)
LoneInv ==
  /\ \A i, j : Waiting(i) /\ Waiting(j) => i = j
  /\ \A t, u \in Thread : Opens(th[t]) /\ Opens(th[u]) => t = u
  /\ \A i : \A t \in Thread : ~(Waiting(i) /\ Opens(th[t]))
  /\ phase # "INIT" => (\A i : ~Waiting(i)) /\ \A t \in Thread : ~Opens(th[t])
  /\ phase = "INIT" =>
       /\ \A i \in DOMAIN pool : pool[i].job = "update"
       /\ \A t \in Thread : th[t] = Idle \/ Opens(th[t])
       /\ \A w \in Worker : todo[w] = {}

ChosenInv == \A t \in Thread : th[t].pc = "move" => th[t].drive \in FreeDrive

(* Once something was reported the invariant promises nothing. *)
FreeInv ==
  /\ spent \in [event : Nat, timeout : Nat, drop : Nat]
  /\ spent.event = 0 => QuietWire /\ LoneInv /\ ChosenInv

(* A thread goes on with the update or drops it, or with what is none. *)
LEMMA LoneKept ==
  ASSUME Types, LoneInv, NEW t \in Thread, NEW rec, th' = [th EXCEPT ![t] = rec],
         UNCHANGED pool, Opens(rec) => Opens(th[t]),
         \/ phase' = phase /\ (phase = "INIT" => (rec = Idle \/ Opens(rec)) /\ UNCHANGED todo)
         \/ phase' # "INIT" /\ (phase = "INIT" => Opens(th[t])) /\ ~Opens(rec)
  PROVE  LoneInv'
<1>1. th'[t] = rec /\ \A u : u # t => th'[u] = th[u]
  BY DEF Types, ThreadTypes
<1>2. \A u \in Thread : Opens(th'[u]) => Opens(th[u]) /\ (u = t => Opens(rec))
  BY <1>1
<1>3. \A i : Waiting(i)' <=> Waiting(i)
  BY DEF Waiting
<1>4. CASE phase' = phase /\ (phase = "INIT" => (rec = Idle \/ Opens(rec)) /\ UNCHANGED todo)
  BY <1>1, <1>2, <1>3, <1>4 DEF LoneInv
<1>5. CASE phase' # "INIT" /\ (phase = "INIT" => Opens(th[t])) /\ ~Opens(rec)
  <2>1. (\A i : ~Waiting(i)) /\ \A u \in Thread : u # t => ~Opens(th[u])
    BY <1>5 DEF LoneInv
  <2>. QED  BY <1>2, <1>3, <1>5, <2>1 DEF LoneInv
<1>. QED  BY <1>4, <1>5

(* A worker takes the update, or another job when there is none. *)
LEMMA LoneTake ==
  ASSUME Types, LoneInv, NEW w \in Worker, Take(w)
  PROVE  LoneInv' /\ th'[w].pc = "start" /\ \A u : u # w => th'[u] = th[u]
<1>1. /\ w \in Thread /\ pool \in Seq(JobType) /\ pool # <<>> /\ UNCHANGED <<phase, todo>>
      /\ pool' = Tail(pool) /\ ~Opens(th[w])
  BY DEF Take, Types, TaskTypes, Thread, Idle, Opens
<1>2. PICK j : j = Head(pool) /\ j = pool[1] /\ 1 \in DOMAIN pool
  BY <1>1
<1>2a. PICK r : r = [Idle EXCEPT !.job = j.job, !.req = j.req, !.pc = "start"]
  OBVIOUS
<1>3. r.job = j.job /\ r.pc = "start" /\ th' = [th EXCEPT ![w] = r]
  BY <1>2, <1>2a DEF Take, Become, Idle
<1>4. th'[w] = r /\ \A u : u # w => th'[u] = th[u]
  BY <1>1, <1>3 DEF Types, ThreadTypes
<1>5. Opens(r) <=> Waiting(1)
  BY <1>2, <1>3 DEF Opens, Waiting
<1>6. \A i \in DOMAIN pool' : i + 1 \in DOMAIN pool /\ i + 1 # 1 /\ i \in Nat /\ pool'[i] = pool[i + 1]
  BY <1>1
<1>7. \A i : Waiting(i)' => Waiting(i + 1) /\ i + 1 # 1 /\ i \in Nat
  BY <1>6 DEF Waiting
<1>8. \A i, k : Waiting(i)' /\ Waiting(k)' => i = k
  <2>. SUFFICES ASSUME NEW i, NEW k, Waiting(i)', Waiting(k)' PROVE i = k
    OBVIOUS
  <2>1. i + 1 = k + 1 /\ i \in Nat /\ k \in Nat
    BY <1>7 DEF LoneInv
  <2>. QED  BY <2>1
<1>9. \A u, v \in Thread : Opens(th'[u]) /\ Opens(th'[v]) => u = v
  BY <1>4, <1>5 DEF LoneInv
<1>10. \A i : \A u \in Thread : ~(Waiting(i)' /\ Opens(th'[u]))
  BY <1>4, <1>5, <1>7 DEF LoneInv
<1>11. CASE phase = "INIT"
  <2>1. Opens(r)
    BY <1>2, <1>5, <1>11 DEF LoneInv, Waiting
  <2>2. \A i \in DOMAIN pool' : pool'[i].job = "update"
    BY <1>6, <1>11 DEF LoneInv
  <2>. QED  BY <1>1, <1>3, <1>4, <1>8, <1>9, <1>10, <1>11, <2>1, <2>2 DEF LoneInv
<1>12. CASE phase # "INIT"
  BY <1>1, <1>3, <1>4, <1>5, <1>7, <1>8, <1>9, <1>10, <1>12 DEF LoneInv
<1>. QED  BY <1>11, <1>12

(* What a worker does keeps the first update alone, and carries no disc. *)
LEMMA WorkLone ==
  ASSUME Types, LoneInv, NEW w \in Worker, Work(w), phase # "INIT" => phase' # "INIT"
  PROVE  LoneInv' /\ \A u \in Thread : th'[u].pc = "move" => th'[u] = th[u]
<1>1. /\ w \in Thread /\ th[w] \in Record /\ ThreadTypes /\ TaskTypes /\ TableTypes
      /\ Idle.pc = "idle" /\ Idle.job = "idle" /\ ~Opens(Idle)
      /\ phase = "INIT" => (th[w] = Idle \/ Opens(th[w])) /\ todo[w] = {}
  BY DEF Types, ThreadTypes, Thread, Idle, Opens, LoneInv
<1>2. ASSUME NEW t \in Thread, NEW rec, th' = [th EXCEPT ![t] = rec], UNCHANGED pool,
             ~Opens(rec), rec.pc # "move", phase # "INIT"
      PROVE  LoneInv' /\ \A u \in Thread : th'[u].pc = "move" => th'[u] = th[u]
  <2>1. LoneInv'
    BY <1>2, LoneKept
  <2>. QED  BY <1>1, <1>2, <2>1 DEF ThreadTypes
<1>3. CASE Take(w)
  BY <1>3, LoneTake
<1>4. CASE \/ QueryStation(w) \/ LostParam(w) \/ FinishCall(w) \/ FinishReturn(w)
           \/ FinishInventory(w) \/ RefuseMove(w) \/ FinishMove(w)
  <2>1. th' = [th EXCEPT ![w] = Idle] /\ UNCHANGED pool /\ th[w].pc # "idle" /\ ~Opens(th[w])
    BY <1>1, <1>4 DEF QueryStation, LostParam, NamesDisc, FinishCall, FinishReturn,
                FinishInventory, RefuseMove, FinishMove, Become, Answered, Opens
  <2>. QED  BY <1>1, <1>2, <2>1
<1>5. CASE StartCall(w)
  <2>1. PICK d, c : Call(w, c, [th[w] EXCEPT !.disc = d], "answer")
    BY <1>5 DEF StartCall
  <2>2. PICK r : r = [[th[w] EXCEPT !.disc = d] EXCEPT !.id = next + 1, !.pc = "answer"]
    OBVIOUS
  <2>3. /\ r.job = th[w].job /\ r.pc = "answer" /\ th' = [th EXCEPT ![w] = r]
        /\ UNCHANGED <<pool, phase, todo>> /\ th[w].pc = "start"
    BY <1>1, <1>5, <2>1, <2>2 DEF Record, Call, Become, StartCall
  <2>4. (Opens(r) <=> Opens(th[w])) /\ (phase = "INIT" => Opens(th[w]))
    BY <1>1, <2>3 DEF Opens
  <2>5. LoneInv'
    BY <1>1, <2>3, <2>4, LoneKept
  <2>. QED  BY <1>1, <2>3, <2>5 DEF ThreadTypes
<1>6. CASE FinishUpdate(w)
  <2>1. PICK r : r = [th[w] EXCEPT !.pc = "return", !.drive = 1]
    OBVIOUS
  <2>2. /\ r.pc = "return" /\ UNCHANGED <<pool, todo>> /\ Opens(th[w]) /\ ~Opens(r)
        /\ \/ th' = [th EXCEPT ![w] = r] /\ phase' = "RUN"
           \/ th' = [th EXCEPT ![w] = Idle] /\ phase' = phase
    BY <1>1, <1>6, <2>1 DEF Record, FinishUpdate, Become, Answered, Opens
  <2>3. CASE th' = [th EXCEPT ![w] = r] /\ phase' = "RUN"
    <3>1. LoneInv'
      BY <1>1, <2>2, <2>3, LoneKept
    <3>. QED  BY <1>1, <2>2, <2>3, <3>1 DEF ThreadTypes
  <2>4. CASE th' = [th EXCEPT ![w] = Idle] /\ phase' = phase
    <3>1. LoneInv'
      BY <1>1, <2>2, <2>4, LoneKept
    <3>. QED  BY <1>1, <2>4, <3>1 DEF ThreadTypes
  <2>. QED  BY <2>2, <2>3, <2>4
<1>7. CASE StartReturn(w) \/ StartInventory(w) \/ ReserveDisc(w)
  <2>1. PICK r : /\ th' = [th EXCEPT ![w] = r]
                 /\ \/ r = [th[w] EXCEPT !.pc = "return", !.drive = 1]
                    \/ r = [th[w] EXCEPT !.pc = "inventory"]
                    \/ \E d : r = [th[w] EXCEPT !.pc = "place", !.disc = d]
    BY <1>7 DEF StartReturn, StartInventory, ReserveDisc, Become
  <2>2. r.pc \in {"return", "inventory", "place"}
    BY <1>1, <2>1 DEF Record
  <2>3. UNCHANGED pool /\ ~Opens(r) /\ phase # "INIT"
    BY <1>1, <1>7, <2>2 DEF StartReturn, StartInventory, ReserveDisc, Opens
  <2>. QED  BY <1>1, <1>2, <2>1, <2>2, <2>3
<1>8. CASE ReturnNext(w)
  <2>1. PICK d \in Drive : Hide(w, d)
    BY <1>1, <1>8 DEF ReturnNext, TableTypes, Table
  <2>2. PICK r : r.pc = "hide" /\ th' = [th EXCEPT ![w] = r]
    BY <1>1, <2>1, HideBecomes
  <2>3. UNCHANGED pool /\ ~Opens(r) /\ phase # "INIT"
    BY <1>1, <1>8, <2>2 DEF ReturnNext, Opens
  <2>. QED  BY <1>1, <1>2, <2>2, <2>3
<1>9. ASSUME NEW k \in Reader, TakeDisc(w, k)
      PROVE  LoneInv' /\ \A u \in Thread : th'[u].pc = "move" => th'[u] = th[u]
  <2>1. PICK d \in todo[w] :
          th' = [th EXCEPT ![<<w, k>>] = [Idle EXCEPT !.job = "read", !.pc = "place", !.disc = d]]
    BY <1>9 DEF TakeDisc, Become
  <2>2. PICK r : r = [Idle EXCEPT !.job = "read", !.pc = "place", !.disc = d]
    OBVIOUS
  <2>3. r.pc = "place" /\ ~Opens(r) /\ UNCHANGED pool /\ phase # "INIT"
    BY <1>1, <1>9, <2>1, <2>2 DEF Idle, Opens, TakeDisc
  <2>. QED  BY <1>2, <2>1, <2>2, <2>3, HelperIsNoWorker
<1>. QED
  BY <1>3, <1>4, <1>5, <1>6, <1>7, <1>8, <1>9 DEF Work

(* So do the steps at a drive, and the jobs that give up. *)
LEMMA StepLone ==
  ASSUME Types, LoneInv, NEW t \in Thread, phase # "INIT" => phase' # "INIT",
         Step(t) \/ HideLost(t) \/ PlaceLost(t) \/ (t \in Worker /\ LoseCall(t))
  PROVE  LoneInv'
<1>1. /\ th[t] \in Record /\ Idle.pc = "idle" /\ Idle.job = "idle" /\ ~Opens(Idle)
      /\ phase = "INIT" => th[t] = Idle \/ Opens(th[t])
      /\ ThreadTypes /\ TaskTypes /\ TableTypes
  BY DEF Types, ThreadTypes, Idle, Opens, LoneInv
<1>2. UNCHANGED <<pool, phase, todo>>
  BY DEF Step, HideDone, Place, MoveDone, MoveShut, MoveFailed, CloseDone, ReadDone, HideLost,
         PlaceLost, LoseCall
<1>3. ASSUME NEW rec, th' = [th EXCEPT ![t] = rec], rec.pc \notin {"start", "answer"},
             th[t].pc \in {"hide", "place", "move", "close", "placed"}
      PROVE  LoneInv'
  <2>1. ~Opens(rec) /\ phase # "INIT"
    BY <1>1, <1>3 DEF Opens
  <2>. QED  BY <1>2, <1>3, <2>1, LoneKept
<1>4. CASE HideDone(t) \/ HideLost(t)
  <2>1. PICK worked \in BOOLEAN : th' = [th EXCEPT ![t] = AfterHide(t, worked)]
    BY <1>4 DEF HideDone, HideLost, Become
  <2>2. PICK v : v = IF worked THEN th[t].drive + 1 ELSE NDrive + 1
    OBVIOUS
  <2>3. PICK r : r = [th[t] EXCEPT !.pc = "return", !.drive = v]
    OBVIOUS
  <2>4. r.pc = "return" /\ (th' = [th EXCEPT ![t] = r] \/ th' = [th EXCEPT ![t] = Idle])
    BY <1>1, <2>1, <2>2, <2>3 DEF Record, AfterHide
  <2>5. th[t].pc = "hide"
    BY <1>4 DEF HideDone, HideLost, Answered, GivesUp
  <2>. QED  BY <1>1, <1>3, <2>4, <2>5
<1>5. CASE Place(t)
  <2>1. PICK d : Call(t, Cmd("CMOV", d, th[t].disc), [th[t] EXCEPT !.drive = d], "move")
    BY <1>5 DEF Place
  <2>2. PICK r : r = [[th[t] EXCEPT !.drive = d] EXCEPT !.id = next + 1, !.pc = "move"]
    OBVIOUS
  <2>3. r.pc = "move" /\ th' = [th EXCEPT ![t] = r] /\ th[t].pc = "place"
    BY <1>1, <1>5, <2>1, <2>2 DEF Record, Call, Become, Place
  <2>. QED  BY <1>3, <2>3
<1>6. CASE MoveDone(t)
  <2>1. PICK r : r = [th[t] EXCEPT !.id = next + 1, !.pc = "close"]
    OBVIOUS
  <2>2. r.pc = "close" /\ th' = [th EXCEPT ![t] = r] /\ th[t].pc = "move"
    BY <1>1, <1>6, <2>1 DEF MoveDone, Record, Call, Become, Answered
  <2>. QED  BY <1>3, <2>2
<1>7. CASE MoveShut(t) \/ MoveFailed(t) \/ CloseDone(t) \/ PlaceLost(t)
  <2>1. PICK r : r = [th[t] EXCEPT !.pc = "placed"]
    OBVIOUS
  <2>2. /\ r.pc = "placed" /\ th[t].pc \in {"move", "close"}
        /\ th' = [th EXCEPT ![t] = r] \/ th' = [th EXCEPT ![t] = Idle]
    BY <1>1, <1>7, <2>1 DEF Record, MoveShut, MoveFailed, CloseDone, PlaceLost, Become, Answered,
       GivesUp
  <2>. QED  BY <1>1, <1>3, <2>2
<1>8. CASE ReadDone(t)
  <2>1. Hide(t, th[t].drive) /\ th[t].pc = "placed" /\ th[t].drive \in Drive
    BY <1>1, <1>8 DEF ReadDone, ThreadTypes, AtDrive
  <2>2. PICK r : r.pc = "hide" /\ th' = [th EXCEPT ![t] = r]
    BY <1>1, <2>1, HideBecomes
  <2>. QED  BY <1>3, <2>1, <2>2
<1>9. CASE t \in Worker /\ LoseCall(t)
  <2>1. th' = [th EXCEPT ![t] = Idle]
    BY <1>9 DEF LoseCall, Become
  <2>. QED  BY <1>1, <1>2, <2>1, LoneKept
<1>. QED  BY <1>4, <1>5, <1>6, <1>7, <1>8, <1>9 DEF Step

(* Nor does any other step disturb it. *)
LEMMA LoneStep ==
  ASSUME Types, QuietWire, LoneInv, [Next]_vars
  PROVE  LoneInv'
<1>1. phase # "INIT" => phase' # "INIT"
  BY InitLeft
<1>2. ASSUME UNCHANGED <<th, pool, phase, todo>>
      PROVE  LoneInv'
  BY <1>2 DEF LoneInv, Waiting
<1>3. ASSUME NEW r \in Request, NEW c \in Asked, Ask(r, c)
      PROVE  LoneInv'
  <2>1. UNCHANGED <<th, todo>> /\ (phase = "INIT" => UNCHANGED <<pool, phase>>)
    BY <1>3 DEF Ask, Accepts
  <2>2. CASE UNCHANGED <<pool, phase>>
    BY <1>2, <2>1, <2>2
  <2>3. CASE phase # "INIT"
    <3>1. PICK j : j = [job |-> c, req |-> r]
      OBVIOUS
    <3>2. /\ pool' = pool \/ (pool' = Append(pool, j) /\ j.job # "update")
          /\ pool \in Seq(JobType)
      BY <1>3, <3>1 DEF Ask, Known, Types, TaskTypes
    <3>3. \A i \in DOMAIN pool' : (i \in DOMAIN pool /\ pool'[i] = pool[i]) \/ pool'[i].job # "update"
      BY <3>2
    <3>4. \A i : Waiting(i)' => Waiting(i)
      BY <3>3 DEF Waiting
    <3>. QED  BY <1>1, <2>1, <2>3, <3>4 DEF LoneInv
  <2>. QED  BY <2>1, <2>2, <2>3
<1>4. ASSUME NEW n \in 1 .. Len(toSvr), Receive(n)
      PROVE  LoneInv'
  BY <1>2, <1>4, ReceiveKeepsQuiet
<1>5. CASE \/ Send \/ Connect \/ Authenticate \/ Drop \/ Execute \/ UNCHANGED vars
           \/ \E e \in Event : Happen(e)
  BY <1>2, <1>5 DEF Send, Connect, Authenticate, Drop, Execute, Happen, vars, server
<1>6. \A w \in Worker : w \in Thread
  BY DEF Thread
<1>. QED  BY <1>1, <1>3, <1>4, <1>5, <1>6, WorkLone, StepLone DEF Next, GiveUp, Loop

(* The drives that are free stay so, but for those that are filled. *)
LEMMA WorkChosen ==
  ASSUME Types, LoneInv, ChosenInv, NEW w \in Worker, Work(w), phase # "INIT" => phase' # "INIT"
  PROVE  ChosenInv'
<1>1. /\ \A u \in Thread : th'[u].pc = "move" => th'[u] = th[u]
      /\ w \in Thread /\ table \in Table
  BY WorkLone DEF Thread, Types, TableTypes
<1>2. ASSUME table'.have = table.have, table'.busy = table.busy, table'.media = table.media
      PROVE  ChosenInv'
  BY <1>1, <1>2 DEF ChosenInv, FreeDrive
<1>3. CASE FinishCall(w)
  <2>1. table' \in {table, Exported(th[w].disc), Imported, ImportedTray}
    BY <1>3 DEF FinishCall
  <2>2. table'.have = table.have /\ table'.busy = table.busy /\ table'.media = table.media
    BY <1>1, <2>1 DEF Exported, Imported, ImportedTray, Table
  <2>. QED  BY <1>2, <2>2
<1>4. CASE FinishUpdate(w)
  <2>1. Opens(th[w])
    BY <1>4 DEF FinishUpdate, Answered, Opens
  <2>2. \A u \in Thread : th[u].pc # "move"
    BY <1>1, <2>1 DEF LoneInv, Opens, Idle
  <2>. QED  BY <1>1, <2>2 DEF ChosenInv
<1>5. CASE ReserveDisc(w) \/ \E k \in Reader : TakeDisc(w, k)
  <2>1. PICK b, p : table' \in {[table EXCEPT !.blank = b], [table EXCEPT !.picked = p]}
    BY <1>5 DEF ReserveDisc, TakeDisc
  <2>2. table'.have = table.have /\ table'.busy = table.busy /\ table'.media = table.media
    BY <1>1, <2>1 DEF Table
  <2>. QED  BY <1>2, <2>2
<1>6. CASE \/ Take(w) \/ QueryStation(w) \/ StartCall(w) \/ LostParam(w) \/ StartReturn(w)
           \/ ReturnNext(w) \/ FinishReturn(w) \/ StartInventory(w) \/ FinishInventory(w)
           \/ RefuseMove(w) \/ FinishMove(w)
  <2>1. table' = table
    BY <1>6 DEF Take, QueryStation, StartCall, LostParam, StartReturn, ReturnNext, FinishReturn,
       StartInventory, FinishInventory, RefuseMove, FinishMove
  <2>. QED  BY <1>2, <2>1
<1>. QED  BY <1>3, <1>4, <1>5, <1>6 DEF Work

(* Whoever fills a drive holds the lock, so nobody else has chosen one. *)
LEMMA StepChosen ==
  ASSUME Types, LockInv, ChosenInv, NEW t \in Thread,
         Step(t) \/ HideLost(t) \/ PlaceLost(t) \/ (t \in Worker /\ LoseCall(t))
  PROVE  ChosenInv'
<1>1. /\ th[t] \in Record /\ table \in Table /\ Idle.pc = "idle"
      /\ ThreadTypes /\ TaskTypes /\ TableTypes
  BY DEF Types, ThreadTypes, TableTypes, Idle
<1>2. ASSUME NEW rec, th' = [th EXCEPT ![t] = rec], FreeDrive \subseteq FreeDrive',
             rec.pc = "move" => rec.drive \in FreeDrive
      PROVE  ChosenInv'
  <2>1. th'[t] = rec /\ \A u : u # t => th'[u] = th[u]
    BY <1>1, <1>2 DEF ThreadTypes
  <2>. QED  BY <1>2, <2>1 DEF ChosenInv
<1>3. ASSUME table' = table
      PROVE  FreeDrive \subseteq FreeDrive'
  BY <1>3 DEF FreeDrive
<1>4. CASE HideDone(t) \/ HideLost(t)
  <2>1. PICK worked \in BOOLEAN : th' = [th EXCEPT ![t] = AfterHide(t, worked)]
    BY <1>4 DEF HideDone, HideLost, Become
  <2>2. th[t].pc = "hide" /\ th[t].drive \in Drive
    BY <1>1, <1>4 DEF HideDone, HideLost, Answered, GivesUp, ThreadTypes, AtDrive
  <2>3. AfterHide(t, worked).pc # "move"
    BY <1>1, <2>2, AfterHideTypes DEF AtDrive
  <2>4. PICK e : e = Emptied(th[t].drive)
    OBVIOUS
  <2>5. /\ e.have = table.have \ {th[t].drive} /\ e.busy = table.busy \ {th[t].drive}
        /\ e.media = [table.media EXCEPT ![th[t].drive] = None] /\ e \in Table
    BY <1>1, <2>2, <2>4, TableOps DEF Emptied, Table
  <2>6. \/ table' = table
        \/ table' = e
        \/ table' = [e EXCEPT !.exist = @ \cup {th[t].disc}]
    BY <1>4, <2>4 DEF HideDone, HideLost
  <2>7. \/ table' = table
        \/ table'.have = e.have /\ table'.busy = e.busy /\ table'.media = e.media
    BY <2>5, <2>6 DEF Table
  <2>8. table.media \in [Drive -> Held]
    BY <1>1 DEF Table
  <2>9. FreeDrive \subseteq FreeDrive'
    BY <1>3, <2>5, <2>7, <2>8 DEF FreeDrive
  <2>. QED  BY <1>2, <2>1, <2>3, <2>9
<1>5. CASE Place(t)
  <2>1. PICK d \in FreeDrive : Call(t, Cmd("CMOV", d, th[t].disc), [th[t] EXCEPT !.drive = d], "move")
    BY <1>5 DEF Place
  <2>2. PICK r : r = [[th[t] EXCEPT !.drive = d] EXCEPT !.id = next + 1, !.pc = "move"]
    OBVIOUS
  <2>3. r.drive = d /\ th' = [th EXCEPT ![t] = r] /\ table' = table
    BY <1>1, <1>5, <2>1, <2>2 DEF Record, Call, Become, Place
  <2>. QED  BY <1>2, <1>3, <2>1, <2>3
<1>6. CASE MoveDone(t) \/ MoveShut(t)
  <2>1. PICK r : r \in {[th[t] EXCEPT !.id = next + 1, !.pc = "close"],
                        [th[t] EXCEPT !.pc = "placed"]} /\ th' = [th EXCEPT ![t] = r]
    BY <1>6 DEF Call, Become, MoveDone, MoveShut
  <2>2. r.pc # "move"
    BY <1>1, <2>1 DEF Record
  <2>3. th[t].pc = "move"
    BY <1>6 DEF MoveDone, MoveShut, Answered
  <2>4. \A u \in Thread : th[u].pc = "move" => u = t
    BY <2>3 DEF LockInv, Carries
  <2>. QED  BY <1>1, <2>1, <2>2, <2>4 DEF ChosenInv, ThreadTypes
<1>7. CASE MoveFailed(t) \/ CloseDone(t) \/ PlaceLost(t) \/ (t \in Worker /\ LoseCall(t))
  <2>1. PICK r : r = [th[t] EXCEPT !.pc = "placed"]
    OBVIOUS
  <2>2. r.pc = "placed" /\ (th' = [th EXCEPT ![t] = r] \/ th' = [th EXCEPT ![t] = Idle])
    BY <1>1, <1>7, <2>1 DEF Record, MoveFailed, CloseDone, PlaceLost, LoseCall, Become
  <2>3. table' = table
    BY <1>7 DEF MoveFailed, CloseDone, PlaceLost, LoseCall
  <2>. QED  BY <1>1, <1>2, <1>3, <2>2, <2>3
<1>8. CASE ReadDone(t)
  <2>1. Hide(t, th[t].drive) /\ th[t].drive \in Drive /\ table' = table
    BY <1>1, <1>8 DEF ReadDone, ThreadTypes, AtDrive
  <2>2. PICK r : r.pc = "hide" /\ th' = [th EXCEPT ![t] = r]
    BY <1>1, <2>1, HideBecomes
  <2>. QED  BY <1>2, <1>3, <2>1, <2>2
<1>. QED  BY <1>4, <1>5, <1>6, <1>7, <1>8 DEF Step

(* While nothing is reported every step keeps the invariant. *)
LEMMA FreeStep ==
  ASSUME Types, LockInv, FreeInv, [Next]_vars
  PROVE  FreeInv'
<1>1. /\ spent' \in [event : Nat, timeout : Nat, drop : Nat]
      /\ spent'.event \in {spent.event, spent.event + 1}
  BY SpentGrows DEF FreeInv
<1>2. ASSUME spent'.event = 0
      PROVE  QuietWire' /\ LoneInv' /\ ChosenInv'
  <2>1. spent.event \in Nat /\ spent.event = 0
    BY <1>1, <1>2 DEF FreeInv
  <2>2. QuietWire /\ LoneInv /\ ChosenInv
    BY <2>1 DEF FreeInv
  <2>3. QuietWire'
    BY <1>2, <2>1, <2>2, WireStaysQuiet
  <2>4. LoneInv' /\ (phase # "INIT" => phase' # "INIT")
    BY <2>2, LoneStep, InitLeft
  <2>5. ASSUME UNCHANGED <<th, table>>
        PROVE  ChosenInv'
    BY <2>2, <2>5 DEF ChosenInv, FreeDrive
  <2>6. ASSUME \/ Send \/ Connect \/ Authenticate \/ Drop \/ Execute \/ UNCHANGED vars
               \/ (\E e \in Event : Happen(e)) \/ (\E n \in 1 .. Len(toSvr) : Receive(n))
               \/ (\E r \in Request, c \in Asked : Ask(r, c))
        PROVE  ChosenInv'
    BY <2>5, <2>6 DEF Send, Connect, Authenticate, Drop, Execute, Happen, Receive, Ask, vars, server
  <2>7. ASSUME NEW w \in Worker, Work(w)
        PROVE  ChosenInv'
    BY <2>2, <2>4, <2>7, WorkChosen
  <2>8. ASSUME NEW t \in Thread,
               Step(t) \/ HideLost(t) \/ PlaceLost(t) \/ (t \in Worker /\ LoseCall(t))
        PROVE  ChosenInv'
    BY <2>2, <2>8, StepChosen
  <2>9. ChosenInv'
    BY <2>6, <2>7, <2>8 DEF Next, GiveUp, Loop, Thread
  <2>. QED  BY <2>3, <2>4, <2>9
<1>. QED  BY <1>1, <1>2 DEF FreeInv

(* The service starts with the update in line. *)
LEMMA FreeInit == Init => FreeInv
<1>. SUFFICES ASSUME Init PROVE FreeInv
  OBVIOUS
<1>1. \A t \in Thread : th[t] = Idle /\ th[t].pc = "idle" /\ th[t].job = "idle"
  BY DEF Init, Idle
<1>2. DOMAIN pool = {1} /\ pool[1].job = "update" /\ phase = "INIT" /\ \A w \in Worker : todo[w] = {}
  BY DEF Init
<1>3. LoneInv /\ ChosenInv
  BY <1>1, <1>2 DEF LoneInv, ChosenInv, Waiting, Opens
<1>4. QuietWire /\ spent \in [event : Nat, timeout : Nat, drop : Nat]
  BY DEF Init, QuietWire
<1>. QED  BY <1>3, <1>4 DEF FreeInv

(* The drive that move_disc2cdrom found free stays free while the disc is  *)
(* carried to it, and no other disc goes there: for any number of threads, *)
(* requests, drives and discs, whatever fails, times out or is cut off,    *)
(* while no door is reported.                                              *)
THEOREM DrivesStayFree == Spec => []StillFree
<1>1. FreeInv /\ LockInv => StillFree
  <2>. SUFFICES ASSUME FreeInv, LockInv, spent.event = 0, NEW t \in Thread, th[t].pc = "move"
                PROVE  /\ th[t].drive \in FreeDrive
                       /\ \A u \in Thread : th[u].pc \in {"move", "close"} => u = t
    BY DEF StillFree
  <2>. QED  BY DEF FreeInv, ChosenInv, LockInv, Carries
<1>. QED
  BY <1>1, InitTypes, NextTypes, LockInit, LockStep, FreeInit, FreeStep, PTL DEF Spec
=============================================================================
