------------------------- MODULE StockLedgerProofs -------------------------
(***************************************************************************)
(* Proofs about StockLedger, for any number of transactions, documents and  *)
(* bins: the types, the kardex as a running balance of the bin, the cover   *)
(* of what is tested before it is posted and the counts that stand.         *)
(*                                                                         *)
(* Every action of Post and Undo is one of two kinds of step, a movement    *)
(* (Moving) or a look (Looking); what each kind changes is proved once       *)
(* (MoveEffect, LookEffect), and the invariants are proved over the kinds.  *)
(***************************************************************************)
EXTENDS StockLedger, SumTheorems, TLAPS

Working(s) == session[s].op # "idle"

\* A document is posted line by line, so that the receiving line of a transfer
\* finds what the line before took out.
IssuesMade ==
    \A s \in Session : Working(s) /\ session[s].op = "submit" =>
        \A i \in DOMAIN Lines[session[s].doc] :
            /\ i < session[s].line
            /\ Lines[session[s].doc][i].kind = "issue"
            => session[s].moves[Lines[session[s].doc][i].bin] # <<>>

\* The inductive invariant of the types.
StockTypeInv == TypeOK /\ session = [s \in Session |-> session[s]] /\ IssuesMade

NoLanded(movements) == \A i \in DOMAIN movements : movements[i].kind # "landed"

\* What s moved in bin b, of which it holds the row, continues what is committed.
ContinuesBin(s, b) ==
    LET moves == session[s].moves[b]
        work == session[s].work[b]
    IN /\ moves # <<>> => lock[b] = s
       /\ lock[b] = s =>
             /\ work.qty = bin[b].qty + QtyOf(moves, Len(moves))
             /\ NoLanded(moves) => work.value = bin[b].value + ValueOf(moves, Len(moves))
       /\ \A i \in DOMAIN moves : moves[i].after = bin[b].qty + QtyOf(moves, i)

\* The inductive invariant of the kardex.
KardexInv ==
    /\ StockTypeInv
    /\ KardexIsRunningBalance
    /\ \A s \in Session : Working(s) => \A b \in Bin : ContinuesBin(s, b)

\* A movement whose capacity is tested.
Tested(m) == m.kind \in {"receive", "issue"} \/ (m.kind = "count" /\ m.qty < 0)

Covered(m) == Tested(m) => m.after >= 0

AllCovered(movements) == \A i \in DOMAIN movements : Covered(movements[i])

\* Whatever was tested left no less than nothing, committed or not.
CoverInv ==
    /\ KardexInv
    /\ \A b \in Bin \ AllowNegative :
          /\ AllCovered(kardex[b])
          /\ \A s \in Session : Working(s) => AllCovered(session[s].moves[b])

\* A count leaves the quantity of its line.
Counted(m) == m.kind = "count" => m.after = Lines[m.doc][m.line].qty

AllCounted(movements) == \A i \in DOMAIN movements : Counted(movements[i])

\* s has read the bin it counts, and has not written yet.
AtCount(s) ==
    /\ session[s].op = "submit"
    /\ session[s].line \in DOMAIN Lines[session[s].doc]
    /\ CurrentLine(s).kind = "count"
    /\ session[s].seen # Unread

\* A bin with a row keeps it, and who counts it holds the row it has read.
HoldsCounted(s, b) ==
    /\ lock[b] = s => session[s].work[b].row
    /\ AtCount(s) /\ CurrentLine(s).bin = b => lock[b] = s /\ session[s].seen = session[s].work[b]

\* The inductive invariant of the counts.
CountInv ==
    /\ KardexInv
    /\ \A b \in Opened :
          /\ bin[b].row
          /\ AllCounted(kardex[b])
          /\ \A s \in Session : Working(s) => AllCounted(session[s].moves[b]) /\ HoldsCounted(s, b)

-----------------------------------------------------------------------------
(* Sums of movements                                                       *)

\* They are integers.
LEMMA MovedType ==
    ASSUME NEW q \in Seq(Movement), NEW n \in 0 .. Len(q)
    PROVE  QtyOf(q, n) \in Int /\ ValueOf(q, n) \in Int
  <1> DEFINE f == [i \in DOMAIN q |-> q[i].qty]
             g == [i \in DOMAIN q |-> q[i].value]
  <1>1. \A i \in 1 .. n : f[i] \in Int /\ g[i] \in Int
    <2> SUFFICES ASSUME NEW i \in 1 .. n PROVE f[i] \in Int /\ g[i] \in Int
      OBVIOUS
    <2>1. i \in DOMAIN q /\ q[i] \in Movement
      OBVIOUS
    <2> QED
      BY <2>1 DEF Movement
  <1>2. IsFiniteSet(1 .. n)
    BY FirstFinite
  <1> HIDE DEF f, g
  <1>3. SumFunctionOnSet(f, 1 .. n) \in Int /\ SumFunctionOnSet(g, 1 .. n) \in Int
    BY <1>1, <1>2, SumType
  <1> QED
    BY <1>3 DEF QtyOf, ValueOf, f, g

\* Of no movement they are zero.
LEMMA MovedNothing == QtyOf(<<>>, 0) = 0 /\ ValueOf(<<>>, 0) = 0
  <1>1. 1 .. 0 = {}
    OBVIOUS
  <1> QED
    BY <1>1, SumEmpty DEF QtyOf, ValueOf

\* Movements added at the end leave the sums of the first ones as they are, and
\* continue them.
LEMMA MovedJoined ==
    ASSUME NEW p \in Seq(Movement), NEW q \in Seq(Movement)
    PROVE  /\ \A n \in 0 .. Len(p) : /\ QtyOf(p \o q, n) = QtyOf(p, n)
                                     /\ ValueOf(p \o q, n) = ValueOf(p, n)
           /\ \A n \in 0 .. Len(q) :
                 /\ QtyOf(p \o q, Len(p) + n) = QtyOf(p, Len(p)) + QtyOf(q, n)
                 /\ ValueOf(p \o q, Len(p) + n) = ValueOf(p, Len(p)) + ValueOf(q, n)
  <1> DEFINE qty(r) == [i \in DOMAIN r |-> r[i].qty]
             val(r) == [i \in DOMAIN r |-> r[i].value]
  <1>1. /\ \A i \in 1 .. Len(p) : (p \o q)[i] = p[i] /\ p[i] \in Movement
        /\ \A i \in 1 .. Len(q) : (p \o q)[Len(p) + i] = q[i] /\ q[i] \in Movement
        /\ Len(p \o q) = Len(p) + Len(q)
        /\ DOMAIN (p \o q) = 1 .. (Len(p) + Len(q))
        /\ DOMAIN p = 1 .. Len(p) /\ DOMAIN q = 1 .. Len(q)
        /\ Len(p) \in Nat /\ Len(q) \in Nat
    OBVIOUS
  <1>2. /\ \A i \in 1 .. Len(p) : qty(p)[i] \in Int /\ qty(p \o q)[i] = qty(p)[i]
        /\ \A i \in 1 .. Len(p) : val(p)[i] \in Int /\ val(p \o q)[i] = val(p)[i]
    <2> SUFFICES ASSUME NEW i \in 1 .. Len(p)
                 PROVE  /\ qty(p)[i] \in Int /\ qty(p \o q)[i] = qty(p)[i]
                        /\ val(p)[i] \in Int /\ val(p \o q)[i] = val(p)[i]
      OBVIOUS
    <2>1. i \in DOMAIN p /\ i \in DOMAIN (p \o q) /\ (p \o q)[i] = p[i] /\ p[i] \in Movement
      BY <1>1
    <2>2. p[i].qty \in Int /\ p[i].value \in Int
      BY <2>1 DEF Movement
    <2> QED
      BY <2>1, <2>2
  <1>3. /\ \A i \in 1 .. Len(q) : qty(q)[i] \in Int /\ qty(p \o q)[Len(p) + i] = qty(q)[i]
        /\ \A i \in 1 .. Len(q) : val(q)[i] \in Int /\ val(p \o q)[Len(p) + i] = val(q)[i]
    <2> SUFFICES ASSUME NEW i \in 1 .. Len(q)
                 PROVE  /\ qty(q)[i] \in Int /\ qty(p \o q)[Len(p) + i] = qty(q)[i]
                        /\ val(q)[i] \in Int /\ val(p \o q)[Len(p) + i] = val(q)[i]
      OBVIOUS
    <2>1. /\ i \in DOMAIN q /\ Len(p) + i \in DOMAIN (p \o q)
          /\ (p \o q)[Len(p) + i] = q[i] /\ q[i] \in Movement
      BY <1>1
    <2>2. q[i].qty \in Int /\ q[i].value \in Int
      BY <2>1 DEF Movement
    <2> QED
      BY <2>1, <2>2
  <1>4. \A r, n : QtyOf(r, n) = SumFunctionOnSet(qty(r), 1 .. n)
                  /\ ValueOf(r, n) = SumFunctionOnSet(val(r), 1 .. n)
    BY DEF QtyOf, ValueOf
  <1> HIDE DEF qty, val
  <1>5. ASSUME NEW n \in 0 .. Len(p)
        PROVE  QtyOf(p \o q, n) = QtyOf(p, n) /\ ValueOf(p \o q, n) = ValueOf(p, n)
    <2>1. IsFiniteSet(1 .. n)
      BY <1>1, FirstFinite
    <2>2. /\ \A i \in 1 .. n : qty(p)[i] \in Int /\ qty(p)[i] = qty(p \o q)[i]
          /\ \A i \in 1 .. n : val(p)[i] \in Int /\ val(p)[i] = val(p \o q)[i]
      BY <1>1, <1>2
    <2>3. /\ SumFunctionOnSet(qty(p), 1 .. n) = SumFunctionOnSet(qty(p \o q), 1 .. n)
          /\ SumFunctionOnSet(val(p), 1 .. n) = SumFunctionOnSet(val(p \o q), 1 .. n)
      BY <2>1, <2>2, SumSame
    <2> QED
      BY <1>4, <2>3, Zenon
  <1>6. ASSUME NEW n \in 0 .. Len(q)
        PROVE  /\ QtyOf(p \o q, Len(p) + n) = QtyOf(p, Len(p)) + QtyOf(q, n)
               /\ ValueOf(p \o q, Len(p) + n) = ValueOf(p, Len(p)) + ValueOf(q, n)
    <2>1. /\ \A i \in 1 .. n : qty(q)[i] \in Int /\ qty(p \o q)[Len(p) + i] = qty(q)[i]
          /\ \A i \in 1 .. n : val(q)[i] \in Int /\ val(p \o q)[Len(p) + i] = val(q)[i]
          /\ n \in Nat
      BY <1>1, <1>3
    <2>2. Len(p) \in Nat
      BY <1>1
    <2>3. SumFunctionOnSet(qty(p \o q), 1 .. Len(p) + n)
            = SumFunctionOnSet(qty(p), 1 .. Len(p)) + SumFunctionOnSet(qty(q), 1 .. n)
      <3>1. Joins(qty(p \o q), qty(p), Len(p), qty(q), n)
        BY <1>2, <2>1 DEF Joins
      <3> QED
        BY <2>1, <2>2, <3>1, SumJoined
    <2>4. SumFunctionOnSet(val(p \o q), 1 .. Len(p) + n)
            = SumFunctionOnSet(val(p), 1 .. Len(p)) + SumFunctionOnSet(val(q), 1 .. n)
      <3>1. Joins(val(p \o q), val(p), Len(p), val(q), n)
        BY <1>2, <2>1 DEF Joins
      <3> QED
        BY <2>1, <2>2, <3>1, SumJoined
    <2> QED
      BY <1>4, <2>3, <2>4, Zenon
  <1> QED
    BY <1>5, <1>6

\* The same for one movement more.
LEMMA MovedNext ==
    ASSUME NEW q \in Seq(Movement), NEW m \in Movement
    PROVE  /\ \A n \in 0 .. Len(q) : /\ QtyOf(Append(q, m), n) = QtyOf(q, n)
                                     /\ ValueOf(Append(q, m), n) = ValueOf(q, n)
           /\ QtyOf(Append(q, m), Len(q) + 1) = QtyOf(q, Len(q)) + m.qty
           /\ ValueOf(Append(q, m), Len(q) + 1) = ValueOf(q, Len(q)) + m.value
  <1>1. <<m>> \in Seq(Movement) /\ Len(<<m>>) = 1 /\ Append(q, m) = q \o <<m>>
    OBVIOUS
  <1>2. QtyOf(<<m>>, 1) = m.qty /\ ValueOf(<<m>>, 1) = m.value
    <2> DEFINE f == [i \in DOMAIN <<m>> |-> <<m>>[i].qty]
               g == [i \in DOMAIN <<m>> |-> <<m>>[i].value]
    <2>1. f[1] = m.qty /\ g[1] = m.value /\ f[1] \in Int /\ g[1] \in Int
      BY DEF Movement
    <2>2. QtyOf(<<m>>, 1) = SumFunctionOnSet(f, 1 .. 1) /\ ValueOf(<<m>>, 1) = SumFunctionOnSet(g, 1 .. 1)
      BY DEF QtyOf, ValueOf
    <2> HIDE DEF f, g
    <2>3. SumFunctionOnSet(f, {1}) = m.qty /\ SumFunctionOnSet(g, {1}) = m.value
      BY <2>1, SumSingleton
    <2>4. 1 .. 1 = {1}
      OBVIOUS
    <2> QED
      BY <2>2, <2>3, <2>4, Zenon
  <1>3. /\ \A n \in 0 .. Len(q) : /\ QtyOf(q \o <<m>>, n) = QtyOf(q, n)
                                   /\ ValueOf(q \o <<m>>, n) = ValueOf(q, n)
        /\ \A n \in 0 .. 1 :
              /\ QtyOf(q \o <<m>>, Len(q) + n) = QtyOf(q, Len(q)) + QtyOf(<<m>>, n)
              /\ ValueOf(q \o <<m>>, Len(q) + n) = ValueOf(q, Len(q)) + ValueOf(<<m>>, n)
    BY <1>1, MovedJoined, Zenon
  <1>4. 1 \in 0 .. 1
    OBVIOUS
  <1> QED
    BY <1>1, <1>2, <1>3, <1>4, Zenon

-----------------------------------------------------------------------------
(* What a step does                                                        *)

StockWork ==
    [op : {"submit", "cancel"}, doc : Doc, line : Nat, checked : BOOLEAN,
     seen : Row, work : [Bin -> Row], moves : [Bin -> Seq(Movement)]]

StockLine == [kind : LineKind, bin : Bin, qty : Nat, value : Nat]

\* A session at work has the fields of one.
LEMMA WorkTyped ==
    ASSUME TypeOK, NEW s \in Session, Working(s)
    PROVE  session[s] \in StockWork
  BY DEF TypeOK, Working, Idle, StockWork

\* Who holds a row is at work.
LEMMA HolderWorks ==
    ASSUME TypeOK, NEW s \in Session, NEW b \in Bin, lock[b] = s
    PROVE  Working(s)
  BY NoSessionAssumption DEF TypeOK, Working, NoSessionAssumption

\* What a session sees of a bin is a row.
LEMMA ViewTyped ==
    ASSUME TypeOK, NEW s \in Session, NEW b \in Bin
    PROVE  View(s, b) \in Row
  <1>1. CASE lock[b] = s
    BY <1>1, HolderWorks, WorkTyped DEF View, StockWork
  <1>2. CASE lock[b] # s
    BY <1>2 DEF View, TypeOK
  <1> QED
    BY <1>1, <1>2

\* The line a session is at.
LEMMA LineTyped ==
    ASSUME TypeOK, NEW s \in Session, Working(s), session[s].line \in DOMAIN Lines[session[s].doc]
    PROVE  CurrentLine(s) \in StockLine
  <1>1. session[s].doc \in Doc
    BY WorkTyped DEF StockWork
  <1>2. Lines[session[s].doc] \in Seq(StockLine)
    BY <1>1, LinesAssumption DEF LinesAssumption, StockLine
  <1> QED
    BY <1>2 DEF CurrentLine

MovedKinds == {"receive", "issue", "count", "landed", "reversal"}

\* A movement by s in the bin of the line it is at.
Moving(s, b, kind, dq, value, dv) ==
    /\ Working(s)
    /\ session[s].line \in DOMAIN Lines[session[s].doc]
    /\ b = CurrentLine(s).bin
    /\ kind \in MovedKinds /\ dq \in Int /\ value \in Int /\ dv \in Int
    /\ kind # "landed" => value = View(s, b).value
    /\ kind \in {"receive", "issue"} => NotForbidden(b, View(s, b).qty + dq)
    /\ kind = "count" =>
          /\ session[s].op = "submit"
          /\ CurrentLine(s).kind = "count"
          /\ session[s].seen # Unread
          /\ dq = CurrentLine(s).qty - session[s].seen.qty
          /\ dq < 0 => MayTake(s, b, -dq)
    /\ Move(s, b, kind, dq, value, dv)

Made(s, kind, dq, dv, after) ==
    [doc |-> session[s].doc, line |-> session[s].line, kind |-> kind,
     qty |-> dq, value |-> dv, after |-> after]

\* What is where in two sequences of movements joined.
LEMMA ConcatAt ==
    ASSUME NEW p \in Seq(Movement), NEW q \in Seq(Movement)
    PROVE  /\ Len(p) \in Nat /\ Len(q) \in Nat /\ Len(p \o q) = Len(p) + Len(q)
           /\ DOMAIN p = 1 .. Len(p) /\ DOMAIN q = 1 .. Len(q)
           /\ DOMAIN (p \o q) = 1 .. Len(p) + Len(q)
           /\ \A i \in 1 .. Len(p) : (p \o q)[i] = p[i]
           /\ \A i \in 1 .. Len(q) : (p \o q)[Len(p) + i] = q[i]
           /\ \A i \in 1 .. Len(p) : i \in 1 .. Len(p) + Len(q)
           /\ \A i \in 1 .. Len(q) : Len(p) + i \in 1 .. Len(p) + Len(q)
  <1>1. Len(p) \in Nat /\ Len(q) \in Nat
    OBVIOUS
  <1>2. /\ Len(p \o q) = Len(p) + Len(q)
        /\ DOMAIN p = 1 .. Len(p) /\ DOMAIN q = 1 .. Len(q)
        /\ DOMAIN (p \o q) = 1 .. Len(p) + Len(q)
    OBVIOUS
  <1>3. \A i \in 1 .. Len(p) : (p \o q)[i] = p[i]
    OBVIOUS
  <1>4. \A i \in 1 .. Len(q) : (p \o q)[Len(p) + i] = q[i]
    OBVIOUS
  <1>5. /\ \A i \in 1 .. Len(p) : i \in 1 .. Len(p) + Len(q)
        /\ \A i \in 1 .. Len(q) : Len(p) + i \in 1 .. Len(p) + Len(q)
    <2>1. \A m, n \in Nat : /\ \A i \in 1 .. m : i \in 1 .. m + n
                            /\ \A i \in 1 .. n : m + i \in 1 .. m + n
      OBVIOUS
    <2> QED
      BY <1>1, <2>1, Zenon
  <1> QED
    BY <1>1, <1>2, <1>3, <1>4, <1>5, Zenon

\* A sequence that a movement was added to is not empty.
LEMMA AppendNonempty ==
    ASSUME NEW q \in Seq(Movement), NEW m \in Movement
    PROVE  Append(q, m) # <<>>
  <1>1. Len(Append(q, m)) = Len(q) + 1 /\ Len(q) \in Nat
    OBVIOUS
  <1>2. Len(Append(q, m)) # 0
    BY <1>1
  <1>3. Len(<<>>) = 0
    OBVIOUS
  <1> QED
    BY <1>2, <1>3, Zenon

\* What a movement m changes.
MoveDone(s, b, m, value) ==
    /\ Free(s, b) /\ lock' = [lock EXCEPT ![b] = s]
    /\ UNCHANGED <<bin, kardex, status>>
    /\ session' = [t \in Session |-> session'[t]]
    /\ \A t \in Session \ {s} : session'[t] = session[t]
    /\ session'[s] \in StockWork
    /\ session'[s].op = session[s].op /\ session'[s].doc = session[s].doc
    /\ session'[s].line = session[s].line + 1 /\ session'[s].seen = Unread
    /\ \A c \in Bin \ {b} : /\ session'[s].work[c] = session[s].work[c]
                            /\ session'[s].moves[c] = session[s].moves[c]
    /\ session'[s].work[b] = [row |-> TRUE, qty |-> m.after, value |-> value + m.value]
    /\ session'[s].moves[b] = Append(session[s].moves[b], m)

\* It does, and it records the quantity it leaves.
LEMMA MoveEffect ==
    ASSUME StockTypeInv, NEW s \in Session, NEW b \in Bin,
           NEW kind, NEW dq, NEW value, NEW dv, Moving(s, b, kind, dq, value, dv)
    PROVE  LET m == Made(s, kind, dq, dv, View(s, b).qty + dq)
           IN m \in Movement /\ MoveDone(s, b, m, value)
  <1> DEFINE after == View(s, b).qty + dq
             m == Made(s, kind, dq, dv, after)
             r == [row |-> TRUE, qty |-> after, value |-> value + dv]
             new == [session[s] EXCEPT !.work[b] = r, !.moves[b] = Append(@, m),
                                       !.line = @ + 1, !.seen = Unread]
  <1>1. session[s] \in StockWork /\ View(s, b) \in Row
    BY WorkTyped, ViewTyped DEF StockTypeInv, Moving
  <1>2. after \in Int /\ m \in Movement /\ r \in Row
    BY <1>1 DEF Moving, Made, Movement, Row, StockWork, MovedKinds
  <1>3. /\ Free(s, b) /\ lock' = [lock EXCEPT ![b] = s]
        /\ UNCHANGED <<bin, kardex, status>>
        /\ session' = [session EXCEPT ![s] = new]
    <2>1. Move(s, b, kind, dq, value, dv)
      BY DEF Moving
    <2>2. session' = [session EXCEPT ![s] = new]
      BY <2>1, Zenon DEF Move, Made
    <2> QED
      BY <2>1, <2>2 DEF Move
  <1> HIDE DEF m, r, after
  <1>4. Append(session[s].moves[b], m) \in Seq(Movement) /\ Unread \in Row
    BY <1>1, <1>2 DEF StockWork, Unread, Row
  <1>5. /\ new \in StockWork
        /\ new.op = session[s].op /\ new.doc = session[s].doc
        /\ new.line = session[s].line + 1 /\ new.seen = Unread
        /\ \A c \in Bin \ {b} : new.work[c] = session[s].work[c] /\ new.moves[c] = session[s].moves[c]
        /\ new.work[b] = r
        /\ new.moves[b] = Append(session[s].moves[b], m)
    <2>1. /\ DOMAIN session[s] = {"op", "doc", "line", "checked", "seen", "work", "moves"}
          /\ session[s].work \in [Bin -> Row] /\ session[s].moves \in [Bin -> Seq(Movement)]
          /\ session[s].line \in Nat
      BY <1>1 DEF StockWork
    <2>2. /\ new.op = session[s].op /\ new.doc = session[s].doc /\ new.checked = session[s].checked
          /\ new.line = session[s].line + 1 /\ new.seen = Unread
          /\ new.work = [session[s].work EXCEPT ![b] = r]
          /\ new.moves = [session[s].moves EXCEPT ![b] = Append(@, m)]
      BY <2>1
    <2>3. new = [op |-> new.op, doc |-> new.doc, line |-> new.line, checked |-> new.checked,
                 seen |-> new.seen, work |-> new.work, moves |-> new.moves]
      <3>1. DOMAIN new = {"op", "doc", "line", "checked", "seen", "work", "moves"}
        BY <2>1
      <3>2. new = [x \in DOMAIN new |-> new[x]]
        OBVIOUS
      <3> HIDE DEF new
      <3> QED
        BY <3>1, <3>2
    <2> HIDE DEF new
    <2>4. new.work \in [Bin -> Row] /\ new.moves \in [Bin -> Seq(Movement)] /\ new.line \in Nat
      BY <1>2, <1>4, <2>1, <2>2
    <2>5. new \in StockWork
      BY <1>1, <1>4, <2>2, <2>3, <2>4 DEF StockWork
    <2> QED
      BY <2>1, <2>2, <2>5
  <1> HIDE DEF new
  <1>6. /\ session' = [t \in Session |-> session'[t]]
        /\ \A t \in Session \ {s} : session'[t] = session[t]
        /\ session'[s] = new
    BY <1>3 DEF StockTypeInv
  <1>7. r = [row |-> TRUE, qty |-> m.after, value |-> value + m.value]
    BY DEF m, r, after, Made
  <1> QED
    BY <1>2, <1>3, <1>5, <1>6, <1>7 DEF MoveDone, m, after

\* The actions that move are movements.
LEMMA PostMoves ==
    ASSUME StockTypeInv, NEW s \in Session,
           \/ Receive(s) \/ ReceiveTransfer(s) \/ Issue(s) \/ WriteCount(s)
           \/ WriteLanded(s, "submit") \/ WriteLanded(s, "cancel") \/ ReverseMovement(s)
    PROVE  \E b \in Bin : \E kind, dq, value, dv : Moving(s, b, kind, dq, value, dv)
  <1> DEFINE l == CurrentLine(s)
             b == l.bin
             v == View(s, b)
  <1>1. /\ Working(s) /\ session[s].line \in DOMAIN Lines[session[s].doc]
        /\ session[s].op \in {"submit", "cancel"}
    BY DEF Receive, ReceiveTransfer, Issue, WriteCount, WriteLanded, ReverseMovement, At, Working
  <1>2. l \in StockLine /\ session[s] \in StockWork /\ TypeOK
    BY <1>1, LineTyped, WorkTyped DEF StockTypeInv
  <1>3. b \in Bin /\ l.qty \in Nat /\ l.value \in Nat
    BY <1>2 DEF StockLine
  <1>4. v \in Row /\ v.qty \in Int /\ v.value \in Int
    BY <1>2, <1>3, ViewTyped DEF Row
  <1>5. CASE Receive(s)
    <2>1. Moving(s, b, "receive", l.qty, v.value, l.value)
      BY <1>1, <1>3, <1>4, <1>5 DEF Receive, Moving, MovedKinds
    <2> QED
      BY <1>3, <2>1
  <1>6. CASE ReceiveTransfer(s)
    <2> DEFINE i == session[s].line - 1
               c == Lines[session[s].doc][i].bin
               q == session[s].moves[c]
    <2>1. session[s].doc \in Doc /\ session[s].op = "submit" /\ session[s].line \in Nat
      BY <1>2, <1>6 DEF ReceiveTransfer, At, StockWork
    <2>2. Lines[session[s].doc] \in Seq(StockLine)
      BY <2>1, LinesAssumption DEF LinesAssumption, StockLine
    <2>3. Lines[session[s].doc][session[s].line].kind = "transfer"
      BY <1>6 DEF ReceiveTransfer, At, CurrentLine
    <2>4. session[s].line > 1 /\ Lines[session[s].doc][i].kind = "issue"
      BY <1>1, <2>1, <2>3, LinesAssumption DEF LinesAssumption
    <2>5. i \in DOMAIN Lines[session[s].doc] /\ i < session[s].line
      BY <1>1, <2>1, <2>2, <2>4
    <2>6. c \in Bin
      <3>1. Lines[session[s].doc][i] \in StockLine
        BY <2>2, <2>5
      <3> QED
        BY <3>1 DEF StockLine
    <2>7. q # <<>> /\ q \in Seq(Movement)
      BY <1>1, <1>2, <2>1, <2>4, <2>5, <2>6 DEF StockTypeInv, IssuesMade, StockWork
    <2>8. q[Len(q)] \in Movement
      <3> HIDE DEF q
      <3>1. Len(q) \in 1 .. Len(q)
        BY <2>7
      <3> QED
        BY <2>7, <3>1
    <2>9. IssuedCost(s) \in Int
      <3>1. IssuedCost(s) = -q[Len(q)].value
        BY DEF IssuedCost
      <3> HIDE DEF q
      <3> QED
        BY <2>8, <3>1 DEF Movement
    <2>10. Moving(s, b, "receive", l.qty, v.value, IssuedCost(s))
      BY <1>1, <1>3, <1>4, <1>6, <2>9 DEF ReceiveTransfer, Moving, MovedKinds
    <2> QED
      BY <1>3, <2>10
  <1>7. CASE Issue(s)
    <2>1. AverageCost(v, l.qty) \in Int
      BY <1>3, <1>4 DEF AverageCost
    <2>2. Moving(s, b, "issue", -l.qty, v.value, -AverageCost(v, l.qty))
      <3>1. v.qty - l.qty = v.qty + (-l.qty) /\ -l.qty \in Int /\ -AverageCost(v, l.qty) \in Int
        BY <1>3, <1>4, <2>1
      <3> QED
        BY <1>1, <1>3, <1>4, <1>7, <3>1 DEF Issue, Moving, MovedKinds
    <2> QED
      BY <1>3, <2>2
  <1>8. CASE WriteCount(s)
    <2> DEFINE d == Difference(l, session[s].seen)
    <2>1. d.qty = l.qty - session[s].seen.qty /\ d.value \in Int /\ d.qty \in Int
      BY <1>2, <1>3 DEF Difference, StockWork, Row
    <2>2. Moving(s, b, "count", d.qty, v.value, d.value)
      <3>1. /\ session[s].op = "submit" /\ l.kind = "count" /\ session[s].seen # Unread
            /\ d.qty < 0 => MayTake(s, b, -d.qty)
            /\ Move(s, b, "count", d.qty, v.value, d.value)
        BY <1>8 DEF WriteCount, At
      <3> HIDE DEF d
      <3> QED
        BY <1>1, <1>3, <1>4, <2>1, <3>1 DEF Moving, MovedKinds
    <2> QED
      BY <1>3, <2>2
  <1>9. ASSUME NEW operation \in {"submit", "cancel"}, WriteLanded(s, operation)
        PROVE  \E dv : Moving(s, b, "landed", 0, session[s].seen.value, dv)
    <2> DEFINE dv == IF operation = "submit" THEN l.value ELSE -l.value
    <2>1. dv \in Int /\ session[s].seen.value \in Int
      BY <1>2, <1>3 DEF StockWork, Row
    <2>2. Moving(s, b, "landed", 0, session[s].seen.value, dv)
      <3>1. Move(s, b, "landed", 0, session[s].seen.value, dv)
        BY <1>9 DEF WriteLanded
      <3> HIDE DEF dv
      <3> QED
        BY <1>1, <2>1, <3>1 DEF Moving, MovedKinds
    <2> QED
      BY <2>2
  <1>10. CASE ReverseMovement(s)
    <2>1. PICK m \in Movements(session[s].doc, b) : Move(s, b, "reversal", -m.qty, v.value, -m.value)
      BY <1>10 DEF ReverseMovement
    <2>2. kardex[b] \in Seq(Movement)
      BY <1>2, <1>3 DEF TypeOK
    <2>3. m \in Movement
      BY <2>2 DEF Movements, Range
    <2>4. -m.qty \in Int /\ -m.value \in Int
      BY <2>3 DEF Movement
    <2>5. Moving(s, b, "reversal", -m.qty, v.value, -m.value)
      BY <1>1, <1>4, <2>1, <2>4 DEF Moving, MovedKinds
    <2> QED
      BY <1>3, <2>5
  <1> QED
    BY <1>3, <1>5, <1>6, <1>7, <1>8, <1>9, <1>10

\* A step of s that moves nothing.
Looking(s) ==
    \/ ReadCount(s) \/ SkipCount(s) \/ ReadLanded(s, "submit") \/ ReadLanded(s, "cancel")
    \/ CheckCapacity(s) \/ SkipReverse(s)

\* What such a step changes: it may lock a bin and read it, and it goes on to
\* the next line only from a counted one, or when it cancels.
LookDone(s) ==
    /\ UNCHANGED <<bin, kardex, status>>
    /\ session' = [t \in Session |-> session'[t]]
    /\ \A t \in Session \ {s} : session'[t] = session[t]
    /\ session'[s] \in StockWork
    /\ session'[s].op = session[s].op /\ session'[s].doc = session[s].doc
    /\ session'[s].moves = session[s].moves
    /\ \/ session'[s].line = session[s].line
       \/ /\ session'[s].line = session[s].line + 1
          /\ session[s].op = "submit" => CurrentLine(s).kind = "count"
    /\ lock' \in [Bin -> Session \cup {NoSession}]
    /\ \A b \in Bin : lock'[b] = lock[b] \/ (lock'[b] = s /\ lock[b] = NoSession)
    /\ \A b \in Bin : lock'[b] = s =>
          \/ lock[b] = s /\ session'[s].work[b] = session[s].work[b]
          \/ lock[b] # s /\ session'[s].work[b] = bin[b] /\ bin[b].row
    /\ AtCount(s)' =>
          LET b == CurrentLine(s)'.bin
          IN \/ /\ AtCount(s) /\ CurrentLine(s).bin = b
                /\ session'[s].seen = session[s].seen /\ session'[s].work = session[s].work /\ lock' = lock
             \/ session'[s].seen = session'[s].work[b] /\ (View(s, b).row => lock'[b] = s)

\* A field of the session changes, or two.
LEMMA LookEffect ==
    ASSUME StockTypeInv, NEW s \in Session, Looking(s)
    PROVE  Working(s) /\ LookDone(s)
  <1>1. Working(s)
    BY DEF Looking, ReadCount, SkipCount, ReadLanded, CheckCapacity, SkipReverse, At, Working
  <1>2. /\ session[s] \in StockWork
        /\ session = [t \in Session |-> session[t]]
        /\ lock \in [Bin -> Session \cup {NoSession}]
    BY <1>1, WorkTyped DEF StockTypeInv, TypeOK
  <1>3. Unread \in Row
    BY DEF Unread, Row
  <1>4. CASE ReadCount(s)
    <2> DEFINE b == CurrentLine(s).bin
               v == View(s, b)
               new == [session[s] EXCEPT !.seen = v, !.work[b] = v]
    <2>1. session[s].line \in DOMAIN Lines[session[s].doc]
      BY <1>4 DEF ReadCount, At
    <2>2. b \in Bin /\ v \in Row
      <3>1. CurrentLine(s) \in StockLine
        BY <1>1, <2>1, LineTyped DEF StockTypeInv
      <3> QED
        BY <3>1, ViewTyped DEF StockLine, StockTypeInv
    <2>3. session' = [session EXCEPT ![s] = new]
      BY <1>2, <1>4 DEF ReadCount
    <2>4. /\ new.op = session[s].op /\ new.doc = session[s].doc /\ new.line = session[s].line
          /\ new.moves = session[s].moves /\ new.seen = v
          /\ new.work = [session[s].work EXCEPT ![b] = v]
          /\ new \in StockWork
      BY <1>2, <2>2 DEF StockWork
    <2> HIDE DEF new
    <2>5. /\ session' = [t \in Session |-> session'[t]]
          /\ \A t \in Session \ {s} : session'[t] = session[t]
          /\ session'[s] = new
      BY <1>2, <2>3
    <2>6. /\ UNCHANGED <<bin, kardex, status>>
          /\ bin[b].row => Free(s, b)
          /\ lock' = IF v.row THEN [lock EXCEPT ![b] = s] ELSE lock
      BY <1>4 DEF ReadCount
    <2>7. /\ new.work[b] = v
          /\ \A c \in Bin \ {b} : new.work[c] = session[s].work[c]
      BY <1>2, <2>2, <2>4 DEF StockWork
    <2>8. CurrentLine(s)' = CurrentLine(s)
      BY <2>4, <2>5 DEF CurrentLine
    <2>9. lock[b] = s \/ (lock[b] # s /\ v = bin[b])
      BY DEF View
    <2>10. lock' \in [Bin -> Session \cup {NoSession}]
      BY <1>2, <2>2, <2>6
    <2>11. \A c \in Bin : lock'[c] = lock[c] \/ (lock'[c] = s /\ lock[c] = NoSession)
      BY <1>2, <2>2, <2>6, <2>9 DEF Free
    <2>12. \A c \in Bin : lock'[c] = s =>
              \/ lock[c] = s /\ new.work[c] = session[s].work[c]
              \/ lock[c] # s /\ new.work[c] = bin[c] /\ bin[c].row
      BY <1>2, <2>2, <2>6, <2>7, <2>9 DEF View
    <2>13. v.row => lock'[b] = s
      BY <1>2, <2>2, <2>6
    <2> HIDE DEF v, b
    <2> QED
      BY <1>1, <2>4, <2>5, <2>6, <2>7, <2>8, <2>10, <2>11, <2>12, <2>13 DEF LookDone, v, b
  <1>5. CASE SkipCount(s) \/ ReadLanded(s, "submit") \/ ReadLanded(s, "cancel")
             \/ CheckCapacity(s) \/ SkipReverse(s)
    <2>1. /\ UNCHANGED <<bin, kardex, status, lock>>
          /\ session' = [t \in Session |-> session'[t]]
          /\ \A t \in Session \ {s} : session'[t] = session[t]
      BY <1>2, <1>5 DEF SkipCount, ReadLanded, CheckCapacity, SkipReverse
    <2> DEFINE Same == /\ session'[s].op = session[s].op /\ session'[s].doc = session[s].doc
                       /\ session'[s].moves = session[s].moves /\ session'[s].work = session[s].work
                       /\ session'[s] \in StockWork
    <2>2. Same
      <3>1. CASE SkipCount(s)
        <4> DEFINE k == session[s].line + 1
                   new == [session[s] EXCEPT !.line = k, !.seen = Unread]
        <4>1. session'[s] = new /\ k \in Nat
          BY <1>2, <3>1 DEF SkipCount, StockWork
        <4> HIDE DEF k
        <4>2. new \in StockWork /\ new.op = session[s].op /\ new.doc = session[s].doc
              /\ new.moves = session[s].moves /\ new.work = session[s].work
          BY <1>2, <1>3, <4>1 DEF StockWork
        <4> HIDE DEF new
        <4> QED
          BY <4>1, <4>2
      <3>2. ASSUME NEW operation \in {"submit", "cancel"}, ReadLanded(s, operation)
            PROVE  Same
        <4>1. session[s].line \in DOMAIN Lines[session[s].doc]
          BY <3>2 DEF ReadLanded, At
        <4>2. View(s, CurrentLine(s).bin) \in Row
          BY <1>1, <4>1, LineTyped, ViewTyped DEF StockTypeInv, StockLine
        <4> QED
          BY <1>2, <3>2, <4>2 DEF ReadLanded, StockWork
      <3>3. CASE CheckCapacity(s)
        BY <1>2, <3>3 DEF CheckCapacity, StockWork
      <3>4. CASE SkipReverse(s)
        <4> DEFINE k == session[s].line + 1
                   new == [session[s] EXCEPT !.line = k]
        <4>1. session'[s] = new /\ k \in Nat
          BY <1>2, <3>4 DEF SkipReverse, StockWork
        <4> HIDE DEF k
        <4>2. new \in StockWork /\ new.op = session[s].op /\ new.doc = session[s].doc
              /\ new.moves = session[s].moves /\ new.work = session[s].work
          BY <1>2, <4>1 DEF StockWork
        <4> HIDE DEF new
        <4> QED
          BY <4>1, <4>2
      <3> QED
        BY <1>5, <3>1, <3>2, <3>3, <3>4
    <2>3. \/ session'[s].line = session[s].line
          \/ /\ session'[s].line = session[s].line + 1
             /\ session[s].op = "submit" => CurrentLine(s).kind = "count"
      BY <1>2, <1>5 DEF SkipCount, ReadLanded, CheckCapacity, SkipReverse, At, StockWork
    <2>4. ~AtCount(s)'
      <3>1. CASE SkipCount(s)
        BY <1>2, <3>1 DEF SkipCount, AtCount, StockWork
      <3>2. ASSUME NEW operation, ReadLanded(s, operation) PROVE ~AtCount(s)'
        <4>1. session'[s].line = session[s].line
          BY <1>2, <3>2 DEF ReadLanded, StockWork
        <4>2. CurrentLine(s)' = CurrentLine(s)
          BY <2>2, <4>1 DEF CurrentLine
        <4>3. CurrentLine(s).kind = "landed"
          BY <3>2 DEF ReadLanded, At
        <4> QED
          BY <4>2, <4>3 DEF AtCount
      <3>3. CASE CheckCapacity(s) \/ SkipReverse(s)
        BY <2>2, <3>3 DEF CheckCapacity, SkipReverse, At, AtCount
      <3> QED
        BY <1>5, <3>1, <3>2, <3>3
    <2> QED
      BY <1>1, <1>2, <2>1, <2>2, <2>3, <2>4 DEF LookDone
  <1> QED
    BY <1>1, <1>4, <1>5 DEF Looking

\* The end of a transaction.
Ended(s) ==
    /\ session' = [t \in Session |-> session'[t]]
    /\ \A t \in Session \ {s} : session'[t] = session[t]
    /\ session'[s] = Idle
    /\ lock' = Unlocked(s)

\* A commit and a rollback end it.
LEMMA EndEffect ==
    ASSUME StockTypeInv, NEW s \in Session, Commit(s) \/ Rollback(s)
    PROVE  Working(s) /\ Ended(s)
  BY DEF StockTypeInv, Commit, Rollback, Working, Ended

\* Its beginning.
LEMMA BeginEffect ==
    ASSUME StockTypeInv, NEW s \in Session, NEW d \in Doc, NEW operation, NEW from,
           Begin(s, d, operation, from)
    PROVE  /\ ~Working(s)
           /\ UNCHANGED <<bin, lock, kardex, status>>
           /\ session' = [t \in Session |-> session'[t]]
           /\ \A t \in Session \ {s} : session'[t] = session[t]
           /\ session'[s] = Started(d, operation)
  BY DEF StockTypeInv, Begin, Working

\* Every step is one of these.
LEMMA StockSteps ==
    ASSUME StockTypeInv, Next
    PROVE  \E s \in Session :
              \/ \E d \in Doc : \E operation \in {"submit", "cancel"} : \E from : Begin(s, d, operation, from)
              \/ \E b \in Bin : \E kind, dq, value, dv : Moving(s, b, kind, dq, value, dv)
              \/ Looking(s) \/ Commit(s) \/ Rollback(s)
  <1>1. PICK s \in Session :
           \/ \E d \in Doc : Begin(s, d, "submit", "draft") \/ Begin(s, d, "cancel", "submitted")
           \/ Post(s) \/ Undo(s) \/ Commit(s) \/ Rollback(s)
    BY DEF Next
  <1>2. CASE \E d \in Doc : Begin(s, d, "submit", "draft") \/ Begin(s, d, "cancel", "submitted")
    BY <1>2
  <1>3. CASE Post(s) \/ Undo(s)
    <2>1. \/ Looking(s)
          \/ \/ Receive(s) \/ ReceiveTransfer(s) \/ Issue(s) \/ WriteCount(s)
             \/ WriteLanded(s, "submit") \/ WriteLanded(s, "cancel") \/ ReverseMovement(s)
      BY <1>3 DEF Post, Undo, Looking
    <2> QED
      BY <2>1, PostMoves
  <1> QED
    BY <1>1, <1>2, <1>3

-----------------------------------------------------------------------------
(* Types                                                                   *)

\* Before any document the types hold.
LEMMA InitStockTypes == Init => StockTypeInv
  <1> SUFFICES ASSUME Init PROVE StockTypeInv
    OBVIOUS
  <1>1. TypeOK
    <2>1. bin \in [Bin -> Row] /\ kardex \in [Bin -> Seq(Movement)]
      BY DEF Init, Row
    <2>2. /\ status \in [Doc -> {"draft", "submitted", "cancelled"}]
          /\ lock \in [Bin -> Session \cup {NoSession}]
          /\ \A b \in Bin : lock[b] = NoSession
          /\ \A s \in Session : session[s] = Idle
      BY DEF Init
    <2> QED
      BY <2>1, <2>2 DEF TypeOK
  <1>2. session = [s \in Session |-> session[s]] /\ IssuesMade
    BY DEF Init, IssuesMade, Working, Idle
  <1> QED
    BY <1>1, <1>2 DEF StockTypeInv

\* What has changed of a session at work keeps its type.
LEMMA SessionsTyped ==
    ASSUME TypeOK, NEW s \in Session,
           session'[s] = Idle \/ session'[s] \in StockWork,
           \A t \in Session \ {s} : session'[t] = session[t],
           bin' \in [Bin -> Row], kardex' \in [Bin -> Seq(Movement)],
           status' \in [Doc -> {"draft", "submitted", "cancelled"}],
           lock' \in [Bin -> Session \cup {NoSession}],
           \A b \in Bin : lock'[b] = lock[b] \/ lock'[b] = s \/ lock'[b] = NoSession,
           session'[s] = Idle => \A b \in Bin : lock'[b] # s
    PROVE  TypeOK'
  <1>1. \A t \in Session : session'[t] = Idle \/ session'[t] \in StockWork
    <2> TAKE t \in Session
    <2>1. session[t] = Idle \/ session[t] \in StockWork
      BY DEF TypeOK, StockWork
    <2> QED
      BY <2>1
  <1>2. \A b \in Bin : lock'[b] # NoSession => session'[lock'[b]].op # "idle"
    <2> SUFFICES ASSUME NEW b \in Bin, lock'[b] # NoSession PROVE session'[lock'[b]].op # "idle"
      OBVIOUS
    <2>1. CASE lock'[b] = s
      BY <2>1 DEF StockWork
    <2>2. CASE lock'[b] # s
      <3>1. lock'[b] = lock[b] /\ lock[b] \in Session \ {s} /\ lock[b] # NoSession
        BY <2>2
      <3>2. session'[lock[b]] = session[lock[b]]
        BY <3>1
      <3>3. session[lock[b]].op # "idle"
        BY <3>1 DEF TypeOK
      <3> QED
        BY <3>1, <3>2, <3>3
    <2> QED
      BY <2>1, <2>2
  <1> QED
    BY <1>1, <1>2 DEF TypeOK, StockWork

\* Every step keeps the types.
LEMMA NextStockTypes == StockTypeInv /\ [Next]_vars => StockTypeInv'
  <1> SUFFICES ASSUME StockTypeInv, [Next]_vars PROVE StockTypeInv'
    OBVIOUS
  <1>0. /\ TypeOK /\ IssuesMade /\ bin \in [Bin -> Row] /\ kardex \in [Bin -> Seq(Movement)]
        /\ status \in [Doc -> {"draft", "submitted", "cancelled"}]
        /\ lock \in [Bin -> Session \cup {NoSession}]
        /\ NoSession \notin Session
    BY NoSessionAssumption DEF StockTypeInv, TypeOK, NoSessionAssumption
  <1>1. CASE UNCHANGED vars
    BY <1>1 DEF vars, StockTypeInv, TypeOK, IssuesMade, Working
  <1>2. ASSUME NEW s \in Session, NEW d \in Doc, NEW operation \in {"submit", "cancel"}, NEW from,
               Begin(s, d, operation, from)
        PROVE  StockTypeInv'
    <2>1. /\ ~Working(s) /\ UNCHANGED <<bin, lock, kardex, status>>
          /\ session' = [t \in Session |-> session'[t]]
          /\ \A t \in Session \ {s} : session'[t] = session[t]
          /\ session'[s] = Started(d, operation)
      BY <1>2, BeginEffect
    <2>2. Started(d, operation) \in StockWork
      <3>1. Unread \in Row /\ [b \in Bin |-> <<>>] \in [Bin -> Seq(Movement)]
        BY DEF Unread, Row
      <3>2. (operation = "submit" \/ OnlyLanded(d)) \in BOOLEAN
        OBVIOUS
      <3> QED
        BY <1>0, <3>1, <3>2 DEF Started, StockWork
    <2>3. TypeOK'
      <3>1. session'[s] # Idle /\ session'[s] \in StockWork
        BY <2>1, <2>2 DEF StockWork, Idle
      <3>2. /\ bin' \in [Bin -> Row] /\ kardex' \in [Bin -> Seq(Movement)]
            /\ status' \in [Doc -> {"draft", "submitted", "cancelled"}]
            /\ lock' \in [Bin -> Session \cup {NoSession}]
            /\ \A b \in Bin : lock'[b] = lock[b]
        BY <1>0, <2>1
      <3> QED
        BY <1>0, <2>1, <3>1, <3>2, SessionsTyped
    <2>4. IssuesMade'
      <3> SUFFICES ASSUME NEW t \in Session, session'[t].op = "submit",
                          NEW i \in DOMAIN Lines[session'[t].doc], i < session'[t].line,
                          Lines[session'[t].doc][i].kind = "issue"
                   PROVE  session'[t].moves[Lines[session'[t].doc][i].bin] # <<>>
        BY DEF IssuesMade, Working
      <3>1. CASE t = s
        <4>1. i < 1 /\ i \in DOMAIN Lines[d]
          BY <2>1, <3>1 DEF Started
        <4>2. Lines[d] \in Seq(StockLine)
          BY LinesAssumption DEF LinesAssumption, StockLine
        <4> QED
          BY <4>1, <4>2
      <3>2. CASE t # s
        <4>1. session'[t] = session[t]
          BY <2>1, <3>2
        <4> QED
          BY <1>0, <4>1 DEF IssuesMade, Working
      <3> QED
        BY <3>1, <3>2
    <2> QED
      BY <2>1, <2>3, <2>4 DEF StockTypeInv
  <1>3. ASSUME NEW s \in Session, NEW b \in Bin, NEW kind, NEW dq, NEW value, NEW dv,
               Moving(s, b, kind, dq, value, dv)
        PROVE  StockTypeInv'
    <2> DEFINE m == Made(s, kind, dq, dv, View(s, b).qty + dq)
    <2>1. m \in Movement /\ MoveDone(s, b, m, value)
      BY <1>3, MoveEffect
    <2> HIDE DEF m
    <2>2. /\ Free(s, b) /\ lock' = [lock EXCEPT ![b] = s]
          /\ UNCHANGED <<bin, kardex, status>>
          /\ session' = [t \in Session |-> session'[t]]
          /\ \A t \in Session \ {s} : session'[t] = session[t]
          /\ session'[s] \in StockWork
          /\ session'[s].op = session[s].op /\ session'[s].doc = session[s].doc
          /\ session'[s].line = session[s].line + 1
          /\ \A c \in Bin \ {b} : session'[s].moves[c] = session[s].moves[c]
          /\ session'[s].moves[b] = Append(session[s].moves[b], m)
      BY <2>1 DEF MoveDone
    <2>3. /\ lock' \in [Bin -> Session \cup {NoSession}]
          /\ \A c \in Bin : lock'[c] = lock[c] \/ lock'[c] = s
      BY <1>0, <2>2
    <2>4. TypeOK'
      <3>1. session'[s] # Idle
        BY <2>1, <2>2 DEF StockWork, Idle
      <3>2. /\ bin' \in [Bin -> Row] /\ kardex' \in [Bin -> Seq(Movement)]
            /\ status' \in [Doc -> {"draft", "submitted", "cancelled"}]
        BY <1>0, <2>2
      <3> QED
        BY <1>0, <2>1, <2>2, <2>3, <3>1, <3>2, SessionsTyped
    <2>5. IssuesMade'
      <3> SUFFICES ASSUME NEW t \in Session, session'[t].op = "submit",
                          NEW i \in DOMAIN Lines[session'[t].doc], i < session'[t].line,
                          Lines[session'[t].doc][i].kind = "issue"
                   PROVE  session'[t].moves[Lines[session'[t].doc][i].bin] # <<>>
        BY DEF IssuesMade, Working
      <3>1. CASE t = s
        <4>1. /\ Working(s) /\ b = Lines[session[s].doc][session[s].line].bin
              /\ session[s].moves[b] \in Seq(Movement) /\ session[s].line \in Nat
              /\ session[s].doc \in Doc
          <5>1. Working(s) /\ b = CurrentLine(s).bin
            BY <1>3 DEF Moving
          <5>2. session[s] \in StockWork
            BY <1>0, <5>1, WorkTyped
          <5> QED
            BY <5>1, <5>2 DEF StockWork, CurrentLine
        <4>2. session'[s].moves[b] # <<>>
          <5>1. session'[s].moves[b] = Append(session[s].moves[b], m)
            BY <2>1, <2>2
          <5>2. Append(session[s].moves[b], m) # <<>>
            BY <2>1, <4>1, AppendNonempty
          <5> QED
            BY <5>1, <5>2
        <4>3. Lines[session[s].doc] \in Seq(StockLine)
          BY <4>1, LinesAssumption DEF LinesAssumption, StockLine
        <4>4. i \in DOMAIN Lines[session[s].doc] /\ i \in Nat /\ Lines[session[s].doc][i].bin \in Bin
          <5>1. i \in DOMAIN Lines[session[s].doc]
            BY <2>1, <2>2, <3>1
          <5>2. Lines[session[s].doc][i] \in StockLine
            BY <4>3, <5>1
          <5> QED
            BY <4>3, <5>1, <5>2 DEF StockLine
        <4>5. CASE i = session[s].line
          BY <2>1, <2>2, <3>1, <4>1, <4>2, <4>5
        <4>6. CASE i # session[s].line
          <5>1. i < session[s].line
            <6>1. i < session[s].line + 1
              BY <2>1, <2>2, <3>1
            <6> QED
              BY <4>1, <4>4, <4>6, <6>1
          <5>2. session[s].op = "submit" /\ Lines[session[s].doc][i].kind = "issue"
            BY <2>2, <3>1
          <5>3. session[s].moves[Lines[session[s].doc][i].bin] # <<>>
            BY <1>0, <4>1, <4>4, <5>1, <5>2 DEF IssuesMade
          <5>4. CASE Lines[session[s].doc][i].bin = b
            BY <2>1, <2>2, <3>1, <4>2, <5>4
          <5>5. CASE Lines[session[s].doc][i].bin # b
            BY <2>1, <2>2, <3>1, <4>4, <5>3, <5>5
          <5> QED
            BY <5>4, <5>5
        <4> QED
          BY <4>5, <4>6
      <3>2. CASE t # s
        <4>1. session'[t] = session[t]
          BY <2>1, <2>2, <3>2
        <4> QED
          BY <1>0, <4>1 DEF IssuesMade, Working
      <3> QED
        BY <3>1, <3>2
    <2> QED
      BY <2>1, <2>2, <2>4, <2>5 DEF StockTypeInv
  <1>4. ASSUME NEW s \in Session, Looking(s) PROVE StockTypeInv'
    <2>1. Working(s) /\ LookDone(s)
      BY <1>4, LookEffect
    <2>2. TypeOK'
      <3>1. /\ \A b \in Bin : lock'[b] = lock[b] \/ lock'[b] = s
            /\ \A t \in Session \ {s} : session'[t] = session[t]
            /\ session'[s] \in StockWork
            /\ bin' \in [Bin -> Row] /\ kardex' \in [Bin -> Seq(Movement)]
            /\ status' \in [Doc -> {"draft", "submitted", "cancelled"}]
            /\ lock' \in [Bin -> Session \cup {NoSession}]
        BY <1>0, <2>1 DEF LookDone
      <3>2. session'[s] # Idle
        BY <3>1 DEF StockWork, Idle
      <3> QED
        BY <1>0, <3>1, <3>2, SessionsTyped
    <2>3. IssuesMade'
      <3> SUFFICES ASSUME NEW t \in Session, session'[t].op = "submit",
                          NEW i \in DOMAIN Lines[session'[t].doc], i < session'[t].line,
                          Lines[session'[t].doc][i].kind = "issue"
                   PROVE  session'[t].moves[Lines[session'[t].doc][i].bin] # <<>>
        BY DEF IssuesMade, Working
      <3>1. CASE t = s
        <4>1. session[s] \in StockWork
          BY <1>0, <2>1, WorkTyped
        <4>2. /\ session[s].op = "submit" /\ i \in DOMAIN Lines[session[s].doc]
              /\ Lines[session[s].doc][i].kind = "issue" /\ session'[s].moves = session[s].moves
              /\ session'[s].doc = session[s].doc
          BY <2>1, <3>1 DEF LookDone
        <4>3. i \in Nat
          <5>1. Lines[session[s].doc] \in Seq(StockLine)
            BY <4>1, LinesAssumption DEF LinesAssumption, StockLine, StockWork
          <5> QED
            BY <4>2, <5>1
        <4>4. i < session[s].line
          <5>1. CASE session'[s].line = session[s].line
            BY <3>1, <5>1
          <5>2. CASE session'[s].line = session[s].line + 1 /\ CurrentLine(s).kind = "count"
            <6>1. i # session[s].line
              BY <4>2, <5>2 DEF CurrentLine
            <6> QED
              BY <3>1, <4>1, <4>3, <5>2, <6>1 DEF StockWork
          <5> QED
            BY <2>1, <4>2, <5>1, <5>2 DEF LookDone
        <4> QED
          BY <1>0, <2>1, <3>1, <4>2, <4>4 DEF IssuesMade
      <3>2. CASE t # s
        <4>1. session'[t] = session[t]
          BY <2>1, <3>2 DEF LookDone
        <4> QED
          BY <1>0, <4>1 DEF IssuesMade, Working
      <3> QED
        BY <3>1, <3>2
    <2> QED
      BY <2>1, <2>2, <2>3 DEF StockTypeInv, LookDone
  <1>5. ASSUME NEW s \in Session, Commit(s) \/ Rollback(s) PROVE StockTypeInv'
    <2>1. Working(s) /\ Ended(s)
      BY <1>5, EndEffect
    <2>2. session[s] \in StockWork
      BY <1>0, <2>1, WorkTyped
    <2>3. /\ bin' \in [Bin -> Row] /\ kardex' \in [Bin -> Seq(Movement)]
          /\ status' \in [Doc -> {"draft", "submitted", "cancelled"}]
      <3>1. CASE Commit(s)
        <4>1. \A b \in Bin : session[s].work[b] \in Row /\ bin[b] \in Row
          BY <1>0, <2>2 DEF StockWork
        <4>2. \A b \in Bin : kardex[b] \o session[s].moves[b] \in Seq(Movement)
          <5> TAKE b \in Bin
          <5>1. kardex[b] \in Seq(Movement) /\ session[s].moves[b] \in Seq(Movement)
            BY <1>0, <2>2 DEF StockWork
          <5> QED
            BY <5>1
        <4>3. /\ bin' = [b \in Bin |-> IF lock[b] = s THEN session[s].work[b] ELSE bin[b]]
              /\ kardex' = [b \in Bin |-> kardex[b] \o session[s].moves[b]]
              /\ status' = [status EXCEPT ![session[s].doc] =
                               IF session[s].op = "submit" THEN "submitted" ELSE "cancelled"]
          BY <3>1 DEF Commit
        <4> QED
          BY <1>0, <4>1, <4>2, <4>3
      <3>2. CASE Rollback(s)
        BY <1>0, <3>2 DEF Rollback
      <3> QED
        BY <1>5, <3>1, <3>2
    <2>4. /\ lock' \in [Bin -> Session \cup {NoSession}]
          /\ \A b \in Bin : lock'[b] = lock[b] \/ lock'[b] = NoSession
          /\ \A b \in Bin : lock'[b] # s
      BY <1>0, <2>1 DEF Ended, Unlocked
    <2>5. TypeOK'
      BY <1>0, <2>1, <2>3, <2>4, SessionsTyped DEF Ended
    <2>6. IssuesMade'
      <3> SUFFICES ASSUME NEW t \in Session, session'[t].op = "submit",
                          NEW i \in DOMAIN Lines[session'[t].doc], i < session'[t].line,
                          Lines[session'[t].doc][i].kind = "issue"
                   PROVE  session'[t].moves[Lines[session'[t].doc][i].bin] # <<>>
        BY DEF IssuesMade, Working
      <3>1. session'[s].op = "idle"
        BY <2>1 DEF Ended, Idle
      <3>2. session'[t] = session[t]
        BY <2>1, <3>1 DEF Ended
      <3> QED
        BY <1>0, <3>2 DEF IssuesMade, Working
    <2> QED
      BY <2>1, <2>5, <2>6 DEF StockTypeInv, Ended
  <1> QED
    BY <1>1, <1>2, <1>3, <1>4, <1>5, StockSteps

-----------------------------------------------------------------------------
(* The kardex is a running balance                                         *)

\* Who works at a bin and is not disturbed continues it still.
LEMMA ContinuesKept ==
    ASSUME TypeOK, NEW t \in Session, Working(t), NEW b \in Bin, ContinuesBin(t, b),
           session'[t] = session[t], lock'[b] = t <=> lock[b] = t, lock[b] = t => bin'[b] = bin[b]
    PROVE  ContinuesBin(t, b)'
  <1> DEFINE moves == session[t].moves[b]
  <1>1. session'[t].moves[b] = moves /\ session'[t].work[b] = session[t].work[b]
    OBVIOUS
  <1>2. CASE lock[b] = t
    BY <1>1, <1>2 DEF ContinuesBin
  <1>3. CASE lock[b] # t
    <2>1. moves = <<>>
      BY <1>3 DEF ContinuesBin
    <2>2. DOMAIN moves = {}
      BY <2>1
    <2> QED
      BY <1>1, <1>3, <2>1, <2>2 DEF ContinuesBin
  <1> QED
    BY <1>2, <1>3

\* What s sees of a bin continues what is committed.
LEMMA ViewContinues ==
    ASSUME TypeOK, NEW s \in Session, Working(s), NEW b \in Bin, ContinuesBin(s, b)
    PROVE  LET moves == session[s].moves[b]
           IN /\ View(s, b).qty = bin[b].qty + QtyOf(moves, Len(moves))
              /\ NoLanded(moves) => View(s, b).value = bin[b].value + ValueOf(moves, Len(moves))
  <1> DEFINE moves == session[s].moves[b]
  <1>1. CASE lock[b] = s
    BY <1>1 DEF ContinuesBin, View
  <1>2. CASE lock[b] # s
    <2>1. moves = <<>>
      BY <1>2 DEF ContinuesBin
    <2>2. Len(moves) = 0
      BY <2>1
    <2>3. QtyOf(moves, Len(moves)) = 0 /\ ValueOf(moves, Len(moves)) = 0
      BY <2>1, <2>2, MovedNothing, Zenon
    <2>4. View(s, b) = bin[b] /\ bin[b].qty \in Int /\ bin[b].value \in Int
      BY <1>2 DEF View, TypeOK, Row
    <2> HIDE DEF moves
    <2> QED
      BY <2>3, <2>4 DEF moves
  <1> QED
    BY <1>1, <1>2

\* A step that leaves what is committed leaves it a running balance.
LEMMA BalanceKept ==
    ASSUME KardexIsRunningBalance, UNCHANGED <<bin, kardex>>
    PROVE  KardexIsRunningBalance'
  BY DEF KardexIsRunningBalance

\* A movement continues the bin it is in.
LEMMA MoveContinues ==
    ASSUME KardexInv, NEW s \in Session, NEW b \in Bin,
           NEW kind, NEW dq, NEW value, NEW dv, Moving(s, b, kind, dq, value, dv)
    PROVE  ContinuesBin(s, b)'
  <1> DEFINE m == Made(s, kind, dq, dv, View(s, b).qty + dq)
             moves == session[s].moves[b]
             new == session'[s].moves[b]
             n == Len(moves)
  <1>0. StockTypeInv /\ TypeOK /\ Working(s) /\ ContinuesBin(s, b)
    BY DEF KardexInv, StockTypeInv, Moving
  <1>1. m \in Movement /\ MoveDone(s, b, m, value)
    BY <1>0, MoveEffect
  <1>2. /\ m.qty = dq /\ m.value = dv /\ m.kind = kind /\ m.after = View(s, b).qty + dq
        /\ dq \in Int /\ dv \in Int /\ value \in Int
        /\ kind # "landed" => value = View(s, b).value
    BY DEF Made, Moving
  <1>3. /\ bin[b].qty \in Int /\ bin[b].value \in Int
        /\ moves \in Seq(Movement) /\ lock \in [Bin -> Session \cup {NoSession}]
    <2>1. session[s] \in StockWork
      BY <1>0, WorkTyped
    <2> QED
      BY <1>0, <2>1 DEF StockWork, TypeOK, Row
  <1> HIDE DEF m
  <1>4. /\ lock'[b] = s /\ bin' = bin /\ new = Append(moves, m)
        /\ session'[s].work[b].qty = m.after /\ session'[s].work[b].value = value + dv
    BY <1>1, <1>2, <1>3 DEF MoveDone
  <1>5. /\ View(s, b).qty = bin[b].qty + QtyOf(moves, n)
        /\ NoLanded(moves) => View(s, b).value = bin[b].value + ValueOf(moves, n)
    BY <1>0, ViewContinues
  <1>6. /\ \A i \in 0 .. n : QtyOf(new, i) = QtyOf(moves, i)
        /\ QtyOf(new, n + 1) = QtyOf(moves, n) + dq
        /\ ValueOf(new, n + 1) = ValueOf(moves, n) + dv
    BY <1>1, <1>2, <1>3, <1>4, MovedNext, Zenon
  <1>7. n \in Nat /\ QtyOf(moves, n) \in Int /\ ValueOf(moves, n) \in Int
    BY <1>3, MovedType
  <1>8. /\ Len(new) = n + 1 /\ DOMAIN new = 1 .. n + 1 /\ DOMAIN moves = 1 .. n
        /\ new[n + 1] = m /\ \A i \in 1 .. n : new[i] = moves[i]
    BY <1>1, <1>3, <1>4
  <1>9. \A i \in 1 .. n : moves[i].after = bin[b].qty + QtyOf(moves, i)
    BY <1>0, <1>8 DEF ContinuesBin
  <1> HIDE DEF moves, new, n
  <1>10. ASSUME NoLanded(new) PROVE NoLanded(moves) /\ kind # "landed"
    <2>1. \A i \in 1 .. n + 1 : new[i].kind # "landed"
      BY <1>8, <1>10 DEF NoLanded
    <2>2. n + 1 \in 1 .. n + 1 /\ \A i \in 1 .. n : i \in 1 .. n + 1
      BY <1>7
    <2> QED
      BY <1>2, <1>8, <2>1, <2>2 DEF NoLanded
  <1>11. session'[s].work[b].qty = bin[b].qty + QtyOf(new, n + 1)
    BY <1>2, <1>3, <1>4, <1>5, <1>6, <1>7
  <1>12. NoLanded(new) => session'[s].work[b].value = bin[b].value + ValueOf(new, n + 1)
    <2> SUFFICES ASSUME NoLanded(new)
                 PROVE  session'[s].work[b].value = bin[b].value + ValueOf(new, n + 1)
      OBVIOUS
    <2>1. value = bin[b].value + ValueOf(moves, n)
      BY <1>2, <1>5, <1>10
    <2>2. session'[s].work[b].value = value + dv /\ ValueOf(new, n + 1) = ValueOf(moves, n) + dv
      BY <1>4, <1>6
    <2> QED
      BY <1>2, <1>3, <1>7, <2>1, <2>2
  <1>13. \A i \in DOMAIN new : new[i].after = bin[b].qty + QtyOf(new, i)
    <2> TAKE i \in DOMAIN new
    <2>1. CASE i \in 1 .. n
      BY <1>6, <1>7, <1>8, <1>9, <2>1
    <2>2. CASE i = n + 1
      BY <1>2, <1>3, <1>5, <1>6, <1>7, <1>8, <2>2
    <2> QED
      BY <1>7, <1>8, <2>1, <2>2
  <1> QED
    BY <1>4, <1>8, <1>11, <1>12, <1>13 DEF ContinuesBin, new

\* A look leaves the bins of the session as they were, or takes one over.
LEMMA LookContinues ==
    ASSUME KardexInv, NEW s \in Session, Looking(s), NEW b \in Bin
    PROVE  ContinuesBin(s, b)'
  <1> DEFINE moves == session[s].moves[b]
  <1>1. /\ TypeOK /\ Working(s) /\ LookDone(s) /\ ContinuesBin(s, b)
    BY LookEffect DEF KardexInv, StockTypeInv
  <1>2. /\ bin' = bin /\ session'[s].moves[b] = moves
        /\ lock[b] = s => lock'[b] = s
        /\ lock'[b] = s =>
              \/ lock[b] = s /\ session'[s].work[b] = session[s].work[b]
              \/ lock[b] # s /\ session'[s].work[b] = bin[b]
    BY <1>1, NoSessionAssumption DEF LookDone, NoSessionAssumption
  <1>3. CASE lock[b] = s
    BY <1>1, <1>2, <1>3 DEF ContinuesBin
  <1>4. CASE lock[b] # s
    <2>1. moves = <<>> /\ DOMAIN moves = {} /\ Len(moves) = 0
      BY <1>1, <1>4 DEF ContinuesBin
    <2>2. QtyOf(moves, Len(moves)) = 0 /\ ValueOf(moves, Len(moves)) = 0
      BY <2>1, MovedNothing, Zenon
    <2>3. lock'[b] = s => session'[s].work[b] = bin[b]
      BY <1>2, <1>4
    <2>4. bin[b].qty \in Int /\ bin[b].value \in Int
      BY <1>1 DEF TypeOK, Row
    <2> HIDE DEF moves
    <2>5. lock'[b] = s =>
             /\ session'[s].work[b].qty = bin[b].qty + QtyOf(moves, Len(moves))
             /\ session'[s].work[b].value = bin[b].value + ValueOf(moves, Len(moves))
      BY <2>2, <2>3, <2>4
    <2> QED
      BY <1>2, <2>1, <2>5 DEF ContinuesBin
  <1> QED
    BY <1>3, <1>4

\* What s commits continues the kardex.
LEMMA CommitBalance ==
    ASSUME KardexInv, NEW s \in Session, Commit(s)
    PROVE  KardexIsRunningBalance'
  <1> SUFFICES ASSUME NEW b \in Bin
               PROVE  /\ bin'[b].qty = QtyOf(kardex'[b], Len(kardex'[b]))
                      /\ \A i \in DOMAIN kardex'[b] : kardex'[b][i].after = QtyOf(kardex'[b], i)
                      /\ NoLanded(kardex'[b]) => bin'[b].value = ValueOf(kardex'[b], Len(kardex'[b]))
    BY DEF KardexIsRunningBalance, NoLanded
  <1> DEFINE p == kardex[b]
             q == session[s].moves[b]
             m == Len(p)
             n == Len(q)
  <1>1. /\ TypeOK /\ Working(s) /\ ContinuesBin(s, b) /\ session[s] \in StockWork
        /\ KardexIsRunningBalance
    BY EndEffect, WorkTyped DEF KardexInv, StockTypeInv
  <1>2. /\ p \in Seq(Movement) /\ q \in Seq(Movement)
        /\ bin[b].qty \in Int /\ bin[b].value \in Int
    BY <1>1 DEF TypeOK, StockWork, Row
  <1>3. /\ bin'[b] = IF lock[b] = s THEN session[s].work[b] ELSE bin[b]
        /\ kardex'[b] = p \o q
    BY DEF Commit
  <1>4. /\ bin[b].qty = QtyOf(p, m)
        /\ \A i \in DOMAIN p : p[i].after = QtyOf(p, i)
        /\ NoLanded(p) => bin[b].value = ValueOf(p, m)
    BY <1>1 DEF KardexIsRunningBalance, NoLanded
  <1>5. /\ q # <<>> => lock[b] = s
        /\ lock[b] = s =>
              /\ session[s].work[b].qty = bin[b].qty + QtyOf(q, n)
              /\ NoLanded(q) => session[s].work[b].value = bin[b].value + ValueOf(q, n)
        /\ \A i \in DOMAIN q : q[i].after = bin[b].qty + QtyOf(q, i)
    BY <1>1 DEF ContinuesBin
  <1>6. /\ \A i \in 0 .. m : QtyOf(p \o q, i) = QtyOf(p, i)
        /\ \A i \in 0 .. n : /\ QtyOf(p \o q, m + i) = QtyOf(p, m) + QtyOf(q, i)
                             /\ ValueOf(p \o q, m + i) = ValueOf(p, m) + ValueOf(q, i)
    BY <1>2, MovedJoined, Zenon
  <1>7. /\ m \in Nat /\ n \in Nat /\ Len(p \o q) = m + n
        /\ DOMAIN p = 1 .. m /\ DOMAIN q = 1 .. n /\ DOMAIN (p \o q) = 1 .. m + n
        /\ \A i \in 1 .. m : (p \o q)[i] = p[i]
        /\ \A i \in 1 .. n : (p \o q)[m + i] = q[i]
        /\ \A i \in 1 .. m : i \in 1 .. m + n
        /\ \A i \in 1 .. n : m + i \in 1 .. m + n
    BY <1>2, ConcatAt, Zenon
  <1>8. bin'[b].qty = bin[b].qty + QtyOf(q, n)
        /\ (NoLanded(q) => bin'[b].value = bin[b].value + ValueOf(q, n))
    <2>1. CASE lock[b] = s
      BY <1>3, <1>5, <2>1
    <2>2. CASE lock[b] # s
      <3>1. q = <<>> /\ n = 0
        BY <1>5, <2>2
      <3>2. QtyOf(q, n) = 0 /\ ValueOf(q, n) = 0
        BY <3>1, MovedNothing, Zenon
      <3> HIDE DEF q, n
      <3> QED
        BY <1>2, <1>3, <2>2, <3>2
    <2> QED
      BY <2>1, <2>2
  <1>9. NoLanded(p \o q) => NoLanded(p) /\ NoLanded(q)
    <2> SUFFICES ASSUME NoLanded(p \o q) PROVE NoLanded(p) /\ NoLanded(q)
      OBVIOUS
    <2>1. \A i \in 1 .. m + n : (p \o q)[i].kind # "landed"
      BY <1>7, Zenon DEF NoLanded
    <2>2. (\A i \in 1 .. m : p[i].kind # "landed") /\ (\A i \in 1 .. n : q[i].kind # "landed")
      BY <1>7, <2>1, Zenon
    <2> QED
      BY <1>7, <2>2, Zenon DEF NoLanded
  <1> DEFINE k == p \o q
  <1> HIDE DEF p, q, m, n, k
  <1>10. n \in 0 .. n
    BY <1>7
  <1>11. bin'[b].qty = QtyOf(k, m + n)
    BY <1>4, <1>6, <1>8, <1>10 DEF k
  <1>12. NoLanded(k) => bin'[b].value = ValueOf(k, m + n)
    BY <1>4, <1>6, <1>8, <1>9, <1>10 DEF k
  <1>13. \A i \in 1 .. m + n : k[i].after = QtyOf(k, i)
    <2> TAKE i \in 1 .. m + n
    <2>1. CASE i \in 1 .. m
      <3>1. i \in 0 .. m
        BY <1>7, <2>1
      <3> QED
        BY <1>4, <1>6, <1>7, <2>1, <3>1 DEF k
    <2>2. CASE i \notin 1 .. m
      <3> DEFINE j == i - m
      <3>1. j \in 1 .. n /\ j \in 0 .. n /\ i = m + j
        BY <1>7, <2>2
      <3> HIDE DEF j
      <3> QED
        BY <1>4, <1>5, <1>6, <1>7, <3>1 DEF k
    <2> QED
      BY <2>1, <2>2
  <1> QED
    BY <1>3, <1>7, <1>11, <1>12, <1>13 DEF k

\* What s did not write it does not commit, and the others do not see it change.
LEMMA EndKeeps ==
    ASSUME TypeOK, NEW s \in Session, Commit(s) \/ Rollback(s), NEW t \in Session \ {s}, NEW b \in Bin
    PROVE  /\ lock'[b] = t <=> lock[b] = t
           /\ lock[b] = t => bin'[b] = bin[b]
  BY NoSessionAssumption DEF TypeOK, Commit, Rollback, Unlocked, NoSessionAssumption

\* Before any document every bin is empty.
LEMMA InitKardex == Init => KardexInv
  <1> SUFFICES ASSUME Init PROVE KardexInv
    OBVIOUS
  <1>1. KardexIsRunningBalance
    <2> SUFFICES ASSUME NEW b \in Bin
                 PROVE  /\ bin[b].qty = QtyOf(kardex[b], Len(kardex[b]))
                        /\ \A i \in DOMAIN kardex[b] : kardex[b][i].after = QtyOf(kardex[b], i)
                        /\ bin[b].value = ValueOf(kardex[b], Len(kardex[b]))
      BY DEF KardexIsRunningBalance
    <2>1. kardex[b] = <<>> /\ bin[b].qty = 0 /\ bin[b].value = 0
      BY DEF Init
    <2>2. Len(kardex[b]) = 0 /\ DOMAIN kardex[b] = {}
      BY <2>1
    <2>3. QtyOf(kardex[b], Len(kardex[b])) = 0 /\ ValueOf(kardex[b], Len(kardex[b])) = 0
      BY <2>1, <2>2, MovedNothing, Zenon
    <2> QED
      BY <2>1, <2>2, <2>3
  <1>2. \A s \in Session : ~Working(s)
    BY DEF Init, Working, Idle
  <1> QED
    BY <1>1, <1>2, InitStockTypes DEF KardexInv

\* Every step keeps the kardex a running balance.
LEMMA NextKardex == KardexInv /\ [Next]_vars => KardexInv'
  <1> SUFFICES ASSUME KardexInv, [Next]_vars PROVE KardexInv'
    OBVIOUS
  <1>0. /\ StockTypeInv /\ TypeOK /\ KardexIsRunningBalance /\ StockTypeInv'
        /\ NoSession \notin Session
    BY NextStockTypes, NoSessionAssumption DEF KardexInv, StockTypeInv, NoSessionAssumption
  <1>1. \A t \in Session : Working(t) => \A b \in Bin : ContinuesBin(t, b)
    BY DEF KardexInv
  <1>2. CASE UNCHANGED vars
    BY <1>0, <1>1, <1>2 DEF vars, KardexInv, KardexIsRunningBalance, Working, ContinuesBin
  <1>3. ASSUME NEW s \in Session, KardexIsRunningBalance',
               \A t \in Session \ {s} : session'[t] = session[t],
               Working(s)' => \A b \in Bin : ContinuesBin(s, b)',
               \A t \in Session \ {s} : \A b \in Bin :
                   Working(t) => (lock'[b] = t <=> lock[b] = t) /\ (lock[b] = t => bin'[b] = bin[b])
        PROVE  KardexInv'
    <2> SUFFICES ASSUME NEW t \in Session, Working(t)', NEW b \in Bin PROVE ContinuesBin(t, b)'
      BY <1>0, <1>3 DEF KardexInv
    <2>1. CASE t = s
      BY <1>3, <2>1
    <2>2. CASE t # s
      <3>1. session'[t] = session[t]
        BY <1>3, <2>2
      <3>2. Working(t)
        BY <3>1 DEF Working
      <3>3. (lock'[b] = t <=> lock[b] = t) /\ (lock[b] = t => bin'[b] = bin[b])
        BY <1>3, <2>2, <3>2
      <3> QED
        BY <1>0, <1>1, <3>1, <3>2, <3>3, ContinuesKept
    <2> QED
      BY <2>1, <2>2
  <1>4. ASSUME NEW s \in Session, NEW d \in Doc, NEW operation \in {"submit", "cancel"}, NEW from,
               Begin(s, d, operation, from)
        PROVE  KardexInv'
    <2>1. /\ ~Working(s) /\ UNCHANGED <<bin, lock, kardex, status>>
          /\ \A t \in Session \ {s} : session'[t] = session[t]
          /\ session'[s] = Started(d, operation)
      BY <1>0, <1>4, BeginEffect
    <2>2. \A b \in Bin : ContinuesBin(s, b)'
      <3> TAKE b \in Bin
      <3>1. lock'[b] # s
        BY <1>0, <2>1, HolderWorks
      <3>2. session'[s].moves[b] = <<>>
        BY <2>1 DEF Started
      <3> QED
        BY <3>1, <3>2 DEF ContinuesBin
    <2>3. KardexIsRunningBalance'
      BY <1>0, <2>1, BalanceKept
    <2> QED
      BY <1>3, <2>1, <2>2, <2>3
  <1>5. ASSUME NEW s \in Session, NEW b \in Bin, NEW kind, NEW dq, NEW value, NEW dv,
               Moving(s, b, kind, dq, value, dv)
        PROVE  KardexInv'
    <2> DEFINE m == Made(s, kind, dq, dv, View(s, b).qty + dq)
    <2>1. MoveDone(s, b, m, value)
      BY <1>0, <1>5, MoveEffect
    <2> HIDE DEF m
    <2>2. /\ Free(s, b) /\ lock' = [lock EXCEPT ![b] = s] /\ UNCHANGED <<bin, kardex>>
          /\ lock \in [Bin -> Session \cup {NoSession}]
          /\ \A t \in Session \ {s} : session'[t] = session[t]
          /\ \A c \in Bin \ {b} : /\ session'[s].work[c] = session[s].work[c]
                                  /\ session'[s].moves[c] = session[s].moves[c]
      BY <1>0, <2>1 DEF MoveDone, TypeOK
    <2>3. \A c \in Bin : ContinuesBin(s, c)'
      <3> TAKE c \in Bin
      <3>1. CASE c = b
        BY <1>5, <3>1, MoveContinues
      <3>2. CASE c # b
        <4>1. /\ session'[s].work[c] = session[s].work[c] /\ session'[s].moves[c] = session[s].moves[c]
              /\ lock'[c] = lock[c] /\ bin'[c] = bin[c]
          BY <2>2, <3>2
        <4>2. ContinuesBin(s, c)
          BY <1>1, <1>5 DEF Moving
        <4> QED
          BY <4>1, <4>2 DEF ContinuesBin
      <3> QED
        BY <3>1, <3>2
    <2>4. KardexIsRunningBalance'
      BY <1>0, <2>2, BalanceKept
    <2>5. \A t \in Session \ {s} : \A c \in Bin :
             (lock'[c] = t <=> lock[c] = t) /\ (lock[c] = t => bin'[c] = bin[c])
      BY <1>0, <2>2 DEF Free
    <2> QED
      BY <1>3, <2>2, <2>3, <2>4, <2>5
  <1>6. ASSUME NEW s \in Session, Looking(s) PROVE KardexInv'
    <2>1. LookDone(s)
      BY <1>0, <1>6, LookEffect
    <2>2. /\ UNCHANGED <<bin, kardex>>
          /\ \A t \in Session \ {s} : session'[t] = session[t]
          /\ \A b \in Bin : lock'[b] = lock[b] \/ (lock'[b] = s /\ lock[b] = NoSession)
      BY <2>1 DEF LookDone
    <2>3. \A b \in Bin : ContinuesBin(s, b)'
      BY <1>6, LookContinues
    <2>4. KardexIsRunningBalance'
      BY <1>0, <2>2, BalanceKept
    <2>5. \A t \in Session \ {s} : \A b \in Bin :
             (lock'[b] = t <=> lock[b] = t) /\ (lock[b] = t => bin'[b] = bin[b])
      BY <1>0, <2>2
    <2> QED
      BY <1>3, <2>2, <2>3, <2>4, <2>5
  <1>7. ASSUME NEW s \in Session, Commit(s) \/ Rollback(s) PROVE KardexInv'
    <2>1. /\ \A t \in Session \ {s} : session'[t] = session[t]
          /\ ~Working(s)'
      BY <1>0, <1>7, EndEffect DEF Ended, Working, Idle
    <2>2. KardexIsRunningBalance'
      <3>1. CASE Commit(s)
        BY <3>1, CommitBalance
      <3>2. CASE Rollback(s)
        BY <1>0, <3>2, BalanceKept DEF Rollback
      <3> QED
        BY <1>7, <3>1, <3>2
    <2>3. \A t \in Session \ {s} : \A b \in Bin :
             (lock'[b] = t <=> lock[b] = t) /\ (lock[b] = t => bin'[b] = bin[b])
      BY <1>0, <1>7, EndKeeps
    <2> QED
      BY <1>3, <2>1, <2>2, <2>3
  <1> QED
    BY <1>0, <1>2, <1>4, <1>5, <1>6, <1>7, StockSteps

-----------------------------------------------------------------------------
(* What is tested is covered, and what is counted stands                   *)

\* Every movement of two sequences joined is one of either.
LEMMA ConcatFrom ==
    ASSUME NEW p \in Seq(Movement), NEW q \in Seq(Movement), NEW i \in DOMAIN (p \o q)
    PROVE  \/ \E j \in DOMAIN p : (p \o q)[i] = p[j]
           \/ \E j \in DOMAIN q : (p \o q)[i] = q[j]
  <1> DEFINE m == Len(p)
             n == Len(q)
             k == p \o q
             j == i - m
  <1>1. /\ m \in Nat /\ n \in Nat /\ DOMAIN p = 1 .. m /\ DOMAIN q = 1 .. n
        /\ \A x \in 1 .. m : k[x] = p[x]
        /\ \A x \in 1 .. n : k[m + x] = q[x]
    BY ConcatAt, Zenon
  <1>2. i \in 1 .. m + n
    BY ConcatAt, Zenon
  <1> HIDE DEF m, n, k
  <1>3. CASE i \in 1 .. m
    BY <1>1, <1>3 DEF k
  <1>4. CASE i \notin 1 .. m
    <2>1. j \in 1 .. n /\ i = m + j
      BY <1>1, <1>2, <1>4
    <2> HIDE DEF j
    <2> QED
      BY <1>1, <2>1 DEF k
  <1> QED
    BY <1>3, <1>4

\* Every movement of a sequence with one added is one of it, or that.
LEMMA AppendFrom ==
    ASSUME NEW q \in Seq(Movement), NEW m \in Movement, NEW i \in DOMAIN Append(q, m)
    PROVE  Append(q, m)[i] = m \/ \E j \in DOMAIN q : Append(q, m)[i] = q[j]
  <1>1. /\ Len(q) \in Nat /\ DOMAIN q = 1 .. Len(q) /\ i \in 1 .. Len(q) + 1
        /\ Append(q, m)[Len(q) + 1] = m
        /\ \A x \in 1 .. Len(q) : Append(q, m)[x] = q[x]
    OBVIOUS
  <1>2. i \in 1 .. Len(q) \/ i = Len(q) + 1
    BY <1>1
  <1> QED
    BY <1>1, <1>2

\* A movement that is tested leaves no less than nothing.
LEMMA MoveCovered ==
    ASSUME KardexInv, NEW s \in Session, NEW b \in Bin \ AllowNegative,
           NEW kind, NEW dq, NEW value, NEW dv, Moving(s, b, kind, dq, value, dv)
    PROVE  Covered(Made(s, kind, dq, dv, View(s, b).qty + dq))
  <1> DEFINE m == Made(s, kind, dq, dv, View(s, b).qty + dq)
             moves == session[s].moves[b]
  <1>0. TypeOK /\ Working(s) /\ ContinuesBin(s, b) /\ KardexIsRunningBalance
    BY DEF KardexInv, StockTypeInv, Moving
  <1>1. m.kind = kind /\ m.qty = dq /\ m.after = View(s, b).qty + dq
    BY DEF Made
  <1> HIDE DEF m
  <1>2. SUFFICES ASSUME kind \in {"receive", "issue"} \/ (kind = "count" /\ dq < 0)
                 PROVE  View(s, b).qty + dq >= 0
    BY <1>1 DEF Covered, Tested, m
  <1>3. CASE kind \in {"receive", "issue"}
    BY <1>3 DEF Moving, NotForbidden
  <1>4. CASE kind = "count" /\ dq < 0
    <2>1. MayTake(s, b, -dq) /\ dq \in Int
      BY <1>4 DEF Moving
    <2>2. Available(s, b) >= -dq
      BY <2>1 DEF MayTake
    <2>3. bin[b].qty = QtyOf(kardex[b], Len(kardex[b]))
      BY <1>0 DEF KardexIsRunningBalance
    <2>4. View(s, b).qty = bin[b].qty + QtyOf(moves, Len(moves))
      BY <1>0, ViewContinues
    <2>5. Available(s, b) = View(s, b).qty
      BY <2>3, <2>4, Zenon DEF Available
    <2>6. View(s, b).qty \in Int
      BY <1>0, ViewTyped DEF Row
    <2> QED
      BY <2>1, <2>2, <2>5, <2>6
  <1> QED
    BY <1>2, <1>3, <1>4

\* Before any document nothing was moved.
LEMMA InitCover == Init => CoverInv
  <1> SUFFICES ASSUME Init PROVE CoverInv
    OBVIOUS
  <1>1. \A b \in Bin : DOMAIN kardex[b] = {}
    BY DEF Init
  <1>2. \A s \in Session : ~Working(s)
    BY DEF Init, Working, Idle
  <1> QED
    BY <1>1, <1>2, InitKardex DEF CoverInv, AllCovered

\* Every step keeps what is tested covered.
LEMMA NextCover == CoverInv /\ [Next]_vars => CoverInv'
  <1> SUFFICES ASSUME CoverInv, [Next]_vars PROVE CoverInv'
    OBVIOUS
  <1>0. KardexInv /\ KardexInv' /\ StockTypeInv /\ TypeOK
    BY NextKardex DEF CoverInv, KardexInv, StockTypeInv
  <1> SUFFICES ASSUME NEW b \in Bin \ AllowNegative
               PROVE  /\ AllCovered(kardex[b])'
                      /\ \A t \in Session : Working(t)' => AllCovered(session[t].moves[b])'
    BY <1>0 DEF CoverInv
  <1>1. /\ AllCovered(kardex[b])
        /\ \A t \in Session : Working(t) => AllCovered(session[t].moves[b])
    BY DEF CoverInv
  <1>2. CASE UNCHANGED vars
    BY <1>1, <1>2 DEF vars, Working, AllCovered
  <1>3. ASSUME NEW s \in Session, \A t \in Session \ {s} : session'[t] = session[t],
               Working(s)' => AllCovered(session'[s].moves[b])
        PROVE  \A t \in Session : Working(t)' => AllCovered(session[t].moves[b])'
    <2> SUFFICES ASSUME NEW t \in Session, Working(t)' PROVE AllCovered(session'[t].moves[b])
      OBVIOUS
    <2>1. CASE t = s
      BY <1>3, <2>1
    <2>2. CASE t # s
      <3>1. session'[t] = session[t]
        BY <1>3, <2>2
      <3> QED
        BY <1>1, <3>1 DEF Working
    <2> QED
      BY <2>1, <2>2
  <1>4. ASSUME NEW s \in Session, NEW d \in Doc, NEW operation \in {"submit", "cancel"}, NEW from,
               Begin(s, d, operation, from)
        PROVE  /\ AllCovered(kardex[b])'
               /\ \A t \in Session : Working(t)' => AllCovered(session[t].moves[b])'
    <2>1. /\ kardex' = kardex /\ session'[s] = Started(d, operation)
          /\ \A t \in Session \ {s} : session'[t] = session[t]
      BY <1>0, <1>4, BeginEffect
    <2>2. DOMAIN session'[s].moves[b] = {}
      BY <2>1 DEF Started
    <2>3. AllCovered(session'[s].moves[b])
      BY <2>2 DEF AllCovered
    <2> QED
      BY <1>1, <1>3, <2>1, <2>3
  <1>5. ASSUME NEW s \in Session, NEW c \in Bin, NEW kind, NEW dq, NEW value, NEW dv,
               Moving(s, c, kind, dq, value, dv)
        PROVE  /\ AllCovered(kardex[b])'
               /\ \A t \in Session : Working(t)' => AllCovered(session[t].moves[b])'
    <2> DEFINE m == Made(s, kind, dq, dv, View(s, c).qty + dq)
               moves == session[s].moves[b]
    <2>1. m \in Movement /\ MoveDone(s, c, m, value) /\ Working(s)
      BY <1>0, <1>5, MoveEffect DEF Moving
    <2>2. c = b => Covered(m)
      BY <1>0, <1>5, MoveCovered
    <2> HIDE DEF m
    <2>3. moves \in Seq(Movement) /\ AllCovered(moves)
      BY <1>0, <1>1, <2>1, WorkTyped DEF StockWork
    <2>4. AllCovered(session'[s].moves[b])
      <3>1. CASE c = b
        <4>1. session'[s].moves[b] = Append(moves, m)
          BY <2>1, <3>1 DEF MoveDone
        <4> HIDE DEF moves
        <4>2. ASSUME NEW i \in DOMAIN Append(moves, m) PROVE Covered(Append(moves, m)[i])
          <5>1. Append(moves, m)[i] = m \/ \E j \in DOMAIN moves : Append(moves, m)[i] = moves[j]
            BY <2>1, <2>3, AppendFrom
          <5> QED
            BY <2>2, <2>3, <3>1, <5>1, Zenon DEF AllCovered
        <4> QED
          BY <4>1, <4>2, Zenon DEF AllCovered
      <3>2. CASE c # b
        BY <2>1, <2>3, <3>2 DEF MoveDone
      <3> QED
        BY <3>1, <3>2
    <2>5. kardex' = kardex /\ \A t \in Session \ {s} : session'[t] = session[t]
      BY <2>1 DEF MoveDone
    <2> QED
      BY <1>1, <1>3, <2>4, <2>5
  <1>6. ASSUME NEW s \in Session, Looking(s)
        PROVE  /\ AllCovered(kardex[b])'
               /\ \A t \in Session : Working(t)' => AllCovered(session[t].moves[b])'
    <2>1. Working(s) /\ LookDone(s)
      BY <1>0, <1>6, LookEffect
    <2>2. /\ kardex' = kardex /\ session'[s].moves = session[s].moves
          /\ \A t \in Session \ {s} : session'[t] = session[t]
      BY <2>1 DEF LookDone
    <2> QED
      BY <1>1, <1>3, <2>1, <2>2
  <1>7. ASSUME NEW s \in Session, Commit(s) \/ Rollback(s)
        PROVE  /\ AllCovered(kardex[b])'
               /\ \A t \in Session : Working(t)' => AllCovered(session[t].moves[b])'
    <2>1. /\ \A t \in Session \ {s} : session'[t] = session[t]
          /\ ~Working(s)' /\ Working(s)
      BY <1>0, <1>7, EndEffect DEF Ended, Working, Idle
    <2>2. AllCovered(kardex[b])'
      <3>1. CASE Commit(s)
        <4> DEFINE p == kardex[b]
                   q == session[s].moves[b]
        <4>1. p \in Seq(Movement) /\ q \in Seq(Movement)
          BY <1>0, <2>1, WorkTyped DEF TypeOK, StockWork
        <4>2. kardex'[b] = p \o q
          BY <3>1 DEF Commit
        <4>3. AllCovered(p) /\ AllCovered(q)
          BY <1>1, <2>1
        <4> HIDE DEF p, q
        <4>4. ASSUME NEW i \in DOMAIN (p \o q) PROVE Covered((p \o q)[i])
          <5>1. \/ \E j \in DOMAIN p : (p \o q)[i] = p[j]
                \/ \E j \in DOMAIN q : (p \o q)[i] = q[j]
            BY <4>1, ConcatFrom
          <5> QED
            BY <4>3, <5>1, Zenon DEF AllCovered
        <4> QED
          BY <4>2, <4>4, Zenon DEF AllCovered
      <3>2. CASE Rollback(s)
        BY <1>1, <3>2 DEF Rollback
      <3> QED
        BY <1>7, <3>1, <3>2
    <2> QED
      BY <1>3, <2>1, <2>2
  <1> QED
    BY <1>0, <1>2, <1>1, <1>4, <1>5, <1>6, <1>7, StockSteps

\* A count writes the quantity it counted, for it holds the row it has read.
LEMMA MoveCounted ==
    ASSUME KardexInv, NEW s \in Session, NEW b \in Bin, HoldsCounted(s, b),
           NEW kind, NEW dq, NEW value, NEW dv, Moving(s, b, kind, dq, value, dv)
    PROVE  Counted(Made(s, kind, dq, dv, View(s, b).qty + dq))
  <1> DEFINE m == Made(s, kind, dq, dv, View(s, b).qty + dq)
  <1>0. /\ TypeOK /\ Working(s) /\ session[s].line \in DOMAIN Lines[session[s].doc]
        /\ CurrentLine(s).bin = b
    BY DEF KardexInv, StockTypeInv, Moving
  <1>1. /\ m.kind = kind /\ m.doc = session[s].doc /\ m.line = session[s].line
        /\ m.after = View(s, b).qty + dq
    BY DEF Made
  <1>2. Lines[session[s].doc][session[s].line].qty = CurrentLine(s).qty
    BY DEF CurrentLine
  <1> HIDE DEF m
  <1> SUFFICES ASSUME kind = "count" PROVE View(s, b).qty + dq = CurrentLine(s).qty
    BY <1>1, <1>2 DEF Counted, m
  <1>3. AtCount(s) /\ dq = CurrentLine(s).qty - session[s].seen.qty
    BY <1>0 DEF Moving, AtCount
  <1>4. View(s, b) = session[s].seen
    BY <1>0, <1>3 DEF HoldsCounted, View
  <1>5. session[s].seen.qty \in Int /\ CurrentLine(s).qty \in Int
    <2>1. session[s] \in StockWork /\ CurrentLine(s) \in StockLine
      BY <1>0, WorkTyped, LineTyped
    <2> QED
      BY <2>1 DEF StockWork, Row, StockLine
  <1> QED
    BY <1>3, <1>4, <1>5

\* Who is not disturbed holds still what it counts.
LEMMA HoldsKept ==
    ASSUME NEW t \in Session, NEW b \in Bin, HoldsCounted(t, b),
           session'[t] = session[t], lock'[b] = t <=> lock[b] = t
    PROVE  HoldsCounted(t, b)'
  <1>1. AtCount(t)' = AtCount(t) /\ CurrentLine(t)' = CurrentLine(t)
    BY DEF AtCount, CurrentLine
  <1> QED
    BY <1>1 DEF HoldsCounted

\* Before any document a bin that was opened has its row.
LEMMA InitCount == Init => CountInv
  <1> SUFFICES ASSUME Init PROVE CountInv
    OBVIOUS
  <1>1. \A b \in Opened : b \in Bin /\ bin[b].row /\ DOMAIN kardex[b] = {}
    <2> SUFFICES ASSUME NEW b \in Opened PROVE b \in Bin /\ bin[b].row /\ DOMAIN kardex[b] = {}
      OBVIOUS
    <2>1. b \in Bin
      BY OpenedAssumption DEF OpenedAssumption
    <2>2. bin[b] = [row |-> b \in Opened, qty |-> 0, value |-> 0]
      BY <2>1 DEF Init
    <2>3. bin[b].row
      <3>1. ASSUME NEW r, r = [row |-> b \in Opened, qty |-> 0, value |-> 0] PROVE r.row
        BY <3>1, Zenon
      <3> QED
        BY <2>2, <3>1, Zenon
    <2>4. DOMAIN kardex[b] = {}
      <3>1. kardex = [c \in Bin |-> <<>>]
        BY Zenon DEF Init
      <3> QED
        BY <2>1, <3>1
    <2> QED
      BY <2>1, <2>3, <2>4
  <1>2. \A s \in Session : ~Working(s)
    BY DEF Init, Working, Idle
  <1> QED
    BY <1>1, <1>2, InitKardex DEF CountInv, AllCounted

\* Every step keeps what is counted.
LEMMA NextCount == CountInv /\ [Next]_vars => CountInv'
  <1> SUFFICES ASSUME CountInv, [Next]_vars PROVE CountInv'
    OBVIOUS
  <1>0. /\ KardexInv /\ KardexInv' /\ StockTypeInv /\ TypeOK
        /\ NoSession \notin Session /\ Opened \subseteq Bin
    BY NextKardex, NoSessionAssumption, OpenedAssumption
    DEF CountInv, KardexInv, StockTypeInv, NoSessionAssumption, OpenedAssumption
  <1> DEFINE Stands(t, b) == AllCounted(session[t].moves[b]) /\ HoldsCounted(t, b)
  <1> SUFFICES ASSUME NEW b \in Opened
               PROVE  /\ bin'[b].row /\ AllCounted(kardex'[b])
                      /\ \A t \in Session : Working(t)' => Stands(t, b)'
    BY <1>0 DEF CountInv
  <1>1. /\ bin[b].row /\ AllCounted(kardex[b]) /\ b \in Bin
        /\ \A t \in Session : Working(t) => Stands(t, b)
    BY <1>0 DEF CountInv
  <1>2. CASE UNCHANGED vars
    BY <1>1, <1>2 DEF vars, Working, AllCounted, HoldsCounted, AtCount, CurrentLine
  <1>3. ASSUME NEW s \in Session, \A t \in Session \ {s} : session'[t] = session[t],
               \A t \in Session \ {s} : Working(t) => (lock'[b] = t <=> lock[b] = t),
               Working(s)' => Stands(s, b)'
        PROVE  \A t \in Session : Working(t)' => Stands(t, b)'
    <2> SUFFICES ASSUME NEW t \in Session, Working(t)' PROVE Stands(t, b)'
      OBVIOUS
    <2>1. CASE t = s
      BY <1>3, <2>1
    <2>2. CASE t # s
      <3>1. session'[t] = session[t] /\ Working(t)
        BY <1>3, <2>2 DEF Working
      <3>2. AllCounted(session[t].moves[b]) /\ HoldsCounted(t, b)
        BY <1>1, <3>1
      <3>3. lock'[b] = t <=> lock[b] = t
        BY <1>3, <2>2, <3>1
      <3>4. HoldsCounted(t, b)'
        BY <1>1, <3>1, <3>2, <3>3, HoldsKept
      <3> QED
        BY <3>1, <3>2, <3>4
    <2> QED
      BY <2>1, <2>2
  <1> HIDE DEF Stands
  <1>4. ASSUME NEW s \in Session, NEW d \in Doc, NEW operation \in {"submit", "cancel"}, NEW from,
               Begin(s, d, operation, from)
        PROVE  /\ bin'[b].row /\ AllCounted(kardex'[b])
               /\ \A t \in Session : Working(t)' => Stands(t, b)'
    <2>1. /\ ~Working(s) /\ UNCHANGED <<bin, lock, kardex>> /\ session'[s] = Started(d, operation)
          /\ \A t \in Session \ {s} : session'[t] = session[t]
      BY <1>0, <1>4, BeginEffect
    <2>2. DOMAIN session'[s].moves[b] = {} /\ session'[s].seen = Unread
      BY <1>1, <2>1 DEF Started
    <2>3. lock'[b] # s
      BY <1>0, <1>1, <2>1, HolderWorks
    <2>4. Stands(s, b)'
      BY <2>2, <2>3 DEF Stands, AllCounted, HoldsCounted, AtCount
    <2> QED
      BY <1>1, <1>3, <2>1, <2>4
  <1>5. ASSUME NEW s \in Session, NEW c \in Bin, NEW kind, NEW dq, NEW value, NEW dv,
               Moving(s, c, kind, dq, value, dv)
        PROVE  /\ bin'[b].row /\ AllCounted(kardex'[b])
               /\ \A t \in Session : Working(t)' => Stands(t, b)'
    <2> DEFINE m == Made(s, kind, dq, dv, View(s, c).qty + dq)
               moves == session[s].moves[b]
    <2>1. m \in Movement /\ MoveDone(s, c, m, value) /\ Working(s)
      BY <1>0, <1>5, MoveEffect DEF Moving
    <2>2. AllCounted(moves) /\ HoldsCounted(s, b)
      BY <1>1, <2>1 DEF Stands
    <2>3. c = b => Counted(m)
      BY <1>0, <1>5, <2>2, MoveCounted
    <2> HIDE DEF m
    <2>4. moves \in Seq(Movement) /\ lock \in [Bin -> Session \cup {NoSession}]
      BY <1>0, <1>1, <2>1, WorkTyped DEF StockWork, TypeOK
    <2>5. AllCounted(session'[s].moves[b])
      <3>1. CASE c = b
        <4>1. session'[s].moves[b] = Append(moves, m)
          BY <2>1, <3>1 DEF MoveDone
        <4> HIDE DEF moves
        <4>2. ASSUME NEW i \in DOMAIN Append(moves, m) PROVE Counted(Append(moves, m)[i])
          <5>1. Append(moves, m)[i] = m \/ \E j \in DOMAIN moves : Append(moves, m)[i] = moves[j]
            BY <2>1, <2>4, AppendFrom
          <5> QED
            BY <2>2, <2>3, <3>1, <5>1, Zenon DEF AllCounted
        <4> QED
          BY <4>1, <4>2, Zenon DEF AllCounted
      <3>2. CASE c # b
        BY <1>1, <2>1, <2>2, <3>2 DEF MoveDone
      <3> QED
        BY <3>1, <3>2
    <2>6. /\ UNCHANGED <<bin, kardex>> /\ session'[s].seen = Unread
          /\ Free(s, c) /\ lock' = [lock EXCEPT ![c] = s]
          /\ \A t \in Session \ {s} : session'[t] = session[t]
          /\ c = b => session'[s].work[b].row
          /\ c # b => session'[s].work[b] = session[s].work[b]
      BY <1>1, <2>1 DEF MoveDone
    <2>7. HoldsCounted(s, b)'
      <3>1. lock'[b] = s => session'[s].work[b].row
        BY <1>1, <2>2, <2>4, <2>6 DEF HoldsCounted
      <3>2. ~AtCount(s)'
        BY <2>6 DEF AtCount
      <3> QED
        BY <3>1, <3>2 DEF HoldsCounted
    <2>8. \A t \in Session \ {s} : lock'[b] = t <=> lock[b] = t
      BY <1>0, <1>1, <2>4, <2>6 DEF Free
    <2> QED
      BY <1>1, <1>3, <2>5, <2>6, <2>7, <2>8 DEF Stands
  <1>6. ASSUME NEW s \in Session, Looking(s)
        PROVE  /\ bin'[b].row /\ AllCounted(kardex'[b])
               /\ \A t \in Session : Working(t)' => Stands(t, b)'
    <2>1. Working(s) /\ LookDone(s)
      BY <1>0, <1>6, LookEffect
    <2>2. /\ UNCHANGED <<bin, kardex>> /\ session'[s].moves = session[s].moves
          /\ \A t \in Session \ {s} : session'[t] = session[t]
          /\ lock'[b] = lock[b] \/ (lock'[b] = s /\ lock[b] = NoSession)
          /\ lock'[b] = s =>
                \/ lock[b] = s /\ session'[s].work[b] = session[s].work[b]
                \/ lock[b] # s /\ session'[s].work[b] = bin[b] /\ bin[b].row
      BY <1>1, <2>1 DEF LookDone
    <2>3. AllCounted(session[s].moves[b]) /\ HoldsCounted(s, b)
      BY <1>1, <2>1 DEF Stands
    <2>4. lock'[b] = s => session'[s].work[b].row
      BY <2>2, <2>3 DEF HoldsCounted
    <2>5. ASSUME AtCount(s)', CurrentLine(s)'.bin = b
          PROVE  lock'[b] = s /\ session'[s].seen = session'[s].work[b]
      <3>1. CASE /\ AtCount(s) /\ CurrentLine(s).bin = b
                 /\ session'[s].seen = session[s].seen /\ session'[s].work = session[s].work
                 /\ lock' = lock
        BY <2>3, <3>1 DEF HoldsCounted
      <3>2. CASE session'[s].seen = session'[s].work[b] /\ (View(s, b).row => lock'[b] = s)
        BY <1>1, <2>3, <3>2 DEF HoldsCounted, View
      <3> QED
        BY <2>1, <2>5, <3>1, <3>2 DEF LookDone
    <2>6. Stands(s, b)'
      BY <2>2, <2>3, <2>4, <2>5 DEF Stands, HoldsCounted
    <2>7. \A t \in Session \ {s} : lock'[b] = t <=> lock[b] = t
      BY <1>0, <2>2
    <2> QED
      BY <1>1, <1>3, <2>2, <2>6, <2>7
  <1>7. ASSUME NEW s \in Session, Commit(s) \/ Rollback(s)
        PROVE  /\ bin'[b].row /\ AllCounted(kardex'[b])
               /\ \A t \in Session : Working(t)' => Stands(t, b)'
    <2>1. /\ \A t \in Session \ {s} : session'[t] = session[t]
          /\ ~Working(s)' /\ Working(s)
      BY <1>0, <1>7, EndEffect DEF Ended, Working, Idle
    <2>2. \A t \in Session \ {s} : lock'[b] = t <=> lock[b] = t
      BY <1>0, <1>1, <1>7, EndKeeps
    <2>3. AllCounted(session[s].moves[b]) /\ HoldsCounted(s, b)
      BY <1>1, <2>1 DEF Stands
    <2>4. bin'[b].row /\ AllCounted(kardex'[b])
      <3>1. CASE Commit(s)
        <4> DEFINE p == kardex[b]
                   q == session[s].moves[b]
        <4>1. p \in Seq(Movement) /\ q \in Seq(Movement)
          BY <1>0, <1>1, <2>1, WorkTyped DEF TypeOK, StockWork
        <4>2. /\ kardex'[b] = p \o q
              /\ bin'[b] = IF lock[b] = s THEN session[s].work[b] ELSE bin[b]
          BY <1>1, <3>1 DEF Commit
        <4>3. AllCounted(p) /\ AllCounted(q)
          BY <1>1, <2>3
        <4>4. bin'[b].row
          BY <1>1, <2>3, <4>2 DEF HoldsCounted
        <4> HIDE DEF p, q
        <4>5. ASSUME NEW i \in DOMAIN (p \o q) PROVE Counted((p \o q)[i])
          <5>1. \/ \E j \in DOMAIN p : (p \o q)[i] = p[j]
                \/ \E j \in DOMAIN q : (p \o q)[i] = q[j]
            BY <4>1, ConcatFrom
          <5> QED
            BY <4>3, <5>1, Zenon DEF AllCounted
        <4>6. AllCounted(kardex'[b])
          BY <4>2, <4>5, Zenon DEF AllCounted
        <4> QED
          BY <4>4, <4>6
      <3>2. CASE Rollback(s)
        BY <1>1, <3>2 DEF Rollback
      <3> QED
        BY <1>7, <3>1, <3>2
    <2> QED
      BY <1>3, <2>1, <2>2, <2>4
  <1> QED
    BY <1>0, <1>2, <1>1, <1>4, <1>5, <1>6, <1>7, StockSteps

-----------------------------------------------------------------------------
(* The theorems                                                            *)

\* The stock keeps its types, and a lock has a holder at work.
THEOREM StockTypes == Spec => []TypeOK
  <1>1. StockTypeInv => TypeOK
    BY DEF StockTypeInv
  <1> QED
    BY <1>1, InitStockTypes, NextStockTypes, PTL DEF Spec

\* The kardex is a running balance, however the transactions interleave.
THEOREM StockRunningBalance == Spec => []KardexIsRunningBalance
  <1>1. KardexInv => KardexIsRunningBalance
    BY DEF KardexInv
  <1> QED
    BY <1>1, InitKardex, NextKardex, PTL DEF Spec

\* No posting takes more than was left to it.
THEOREM StockIssuesCovered == Spec => []IssuesAreCovered
  <1>1. CoverInv => IssuesAreCovered
    <2> SUFFICES ASSUME CoverInv, NEW b \in Bin \ AllowNegative, NEW i \in DOMAIN kardex[b],
                        Tested(kardex[b][i])
                 PROVE  QtyOf(kardex[b], i) >= 0
      BY DEF IssuesAreCovered, Tested
    <2>1. kardex[b][i].after >= 0
      BY DEF CoverInv, AllCovered, Covered
    <2>2. kardex[b][i].after = QtyOf(kardex[b], i)
      BY DEF CoverInv, KardexInv, KardexIsRunningBalance
    <2> QED
      BY <2>1, <2>2
  <1> QED
    BY <1>1, InitCover, NextCover, PTL DEF Spec

\* A count leaves the counted quantity in a bin that had its row.
THEOREM StockCountStands == Spec => []CountStands
  <1>1. CountInv => CountStands
    BY DEF CountInv, AllCounted, Counted, CountStands
  <1> QED
    BY <1>1, InitCount, NextCount, PTL DEF Spec
=============================================================================
