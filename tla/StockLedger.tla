--------------------------- MODULE StockLedger ---------------------------
(***************************************************************************)
(* Quantity and value of an item in a warehouse (StockBin) and the          *)
(* movements behind them (StockLedgerEntry, StockValuationLayer), posted    *)
(* and cancelled by contabilidad/posting_service.py.                        *)
(*                                                                         *)
(* A bin is written under its row lock, but three readers take its figures  *)
(* without one: the capacity test of a cancellation, the landed cost (whose *)
(* later locking SELECT returns the instance already loaded, unrefreshed)   *)
(* and the count of a bin that has no row yet.  Database: PostgreSQL, READ  *)
(* COMMITTED.  Valuation: moving average, amounts in whole units.  The row  *)
(* lock of the document itself is taken for granted (DocumentPosting).      *)
(***************************************************************************)
EXTENDS Integers, Sequences, Functions

CONSTANTS
    Session,        \* transactions at work
    Doc,            \* stock documents and landed costs
    Bin,            \* an item in a warehouse
    Lines,          \* lines of each document, in the order they are posted
    AllowNegative,  \* bins of the items with allow_negative_stock
    Opened,         \* bins that have a row from the start
    NoSession

ASSUME NoSessionAssumption == NoSession \notin Session

ASSUME OpenedAssumption == Opened \subseteq Bin

\* receive, issue: quantity (and value);  transfer: receives what the line
\* before issued;  count: counted quantity and target value;  landed: value.
LineKind == {"receive", "issue", "transfer", "count", "landed"}

ASSUME LinesAssumption ==
    /\ Lines \in [Doc -> Seq([kind : LineKind, bin : Bin, qty : Nat, value : Nat])]
    /\ \A d \in Doc : \A i, j \in DOMAIN Lines[d] :
           Lines[d][i].bin = Lines[d][j].bin => i = j
    /\ \A d \in Doc : \A i \in DOMAIN Lines[d] :
           Lines[d][i].kind = "transfer" => i > 1 /\ Lines[d][i - 1].kind = "issue"

VARIABLES
    bin,      \* stock_bin as committed
    lock,     \* holder of the row lock of a bin
    kardex,   \* committed movements of a bin, in the order they were made
    status,   \* docstatus of a document
    session   \* what an open transaction works at

vars == <<bin, lock, kardex, status, session>>

Idle == [op |-> "idle"]
Unread == [row |-> FALSE, qty |-> -1, value |-> 0]

OnlyLanded(d) == \A i \in DOMAIN Lines[d] : Lines[d][i].kind = "landed"

\* seen: the bin as a line read it before it writes;  checked: the capacity
\* test of a cancellation is passed;  work, moves: bins and movements of the
\* transaction, not yet committed.
Started(d, operation) ==
    [op |-> operation, doc |-> d, line |-> 1, checked |-> operation = "submit" \/ OnlyLanded(d),
     seen |-> Unread, work |-> bin, moves |-> [b \in Bin |-> <<>>]]

Init ==
    /\ bin = [b \in Bin |-> [row |-> b \in Opened, qty |-> 0, value |-> 0]]
    /\ lock = [b \in Bin |-> NoSession]
    /\ kardex = [b \in Bin |-> <<>>]
    /\ status = [d \in Doc |-> "draft"]
    /\ session = [s \in Session |-> Idle]

-----------------------------------------------------------------------------
(* What a transaction sees and writes                                      *)

\* Mutant: FOR UPDATE is ignored, as by SQLite.
FreeWithoutLocks(s, b) == TRUE

Free(s, b) == lock[b] \in {s, NoSession}

\* Mutant: every bin was loaded when the transaction began and is not refreshed.
ViewOfBegin(s, b) == session[s].work[b]

\* The row as the transaction reads it: its own writes, else what is committed.
View(s, b) == IF lock[b] = s THEN session[s].work[b] ELSE bin[b]

CurrentLine(s) == Lines[session[s].doc][session[s].line]

At(s, operation, kinds) ==
    /\ session[s].op = operation
    /\ session[s].line \in DOMAIN Lines[session[s].doc]
    /\ CurrentLine(s).kind \in kinds

\* _upsert_stock_bin, the layer and the ledger row of the movement: the row is
\* locked and the movement added to it; value is what the instance in the
\* session holds, which is the row's unless the session read it unlocked.
Move(s, b, kind, dq, value, dv) ==
    /\ Free(s, b)
    /\ lock' = [lock EXCEPT ![b] = s]
    /\ LET after == View(s, b).qty + dq
           move == [doc |-> session[s].doc, line |-> session[s].line, kind |-> kind,
                    qty |-> dq, value |-> dv, after |-> after]
           moved == [session[s] EXCEPT
                       !.work[b] = [row |-> TRUE, qty |-> after, value |-> value + dv],
                       !.moves[b] = Append(@, move),
                       !.line = @ + 1,
                       !.seen = Unread]
       IN session' = [session EXCEPT ![s] = moved]
    /\ UNCHANGED <<bin, kardex, status>>

NotForbidden(b, after) == after >= 0 \/ b \in AllowNegative

\* Cost of q units by the average of the bin, rounded to the unit.
AverageCost(view, q) == IF view.qty > 0 THEN (view.value * q) \div view.qty ELSE 0

-----------------------------------------------------------------------------
(* Posting, line by line                                                   *)

\* _lock_document_for_transition: one transaction works at a document.
Begin(s, d, operation, from) ==
    /\ session[s].op = "idle"
    /\ status[d] = from
    /\ \A t \in Session : session[t].op # "idle" => session[t].doc # d
    /\ session' = [session EXCEPT ![s] = Started(d, operation)]
    /\ UNCHANGED <<bin, lock, kardex, status>>

Receive(s) ==
    /\ At(s, "submit", {"receive"})
    /\ LET l == CurrentLine(s)
           v == View(s, l.bin)
       IN /\ NotForbidden(l.bin, v.qty + l.qty)
          /\ Move(s, l.bin, "receive", l.qty, v.value, l.value)

\* What the line before took out of its bin.
IssuedCost(s) ==
    LET issued == session[s].moves[Lines[session[s].doc][session[s].line - 1].bin]
    IN -issued[Len(issued)].value

\* The second movement of a transfer takes the cost of the first.
ReceiveTransfer(s) ==
    /\ At(s, "submit", {"transfer"})
    /\ LET l == CurrentLine(s)
           v == View(s, l.bin)
       IN /\ NotForbidden(l.bin, v.qty + l.qty)
          /\ Move(s, l.bin, "receive", l.qty, v.value, IssuedCost(s))

\* Quantity and value of the first n of a sequence of movements.
QtyOf(movements, n) == SumFunctionOnSet([i \in DOMAIN movements |-> movements[i].qty], 1 .. n)
ValueOf(movements, n) == SumFunctionOnSet([i \in DOMAIN movements |-> movements[i].value], 1 .. n)

\* Quantity of the layers, committed and own (_valuation_queue).
Available(s, b) ==
    QtyOf(kardex[b], Len(kardex[b])) + QtyOf(session[s].moves[b], Len(session[s].moves[b]))

MayTake(s, b, q) == Available(s, b) >= q \/ b \in AllowNegative

\* _consume_stock_valuation_layers locks the bin before it reads the layers.
Issue(s) ==
    /\ At(s, "submit", {"issue"})
    /\ LET l == CurrentLine(s)
           v == View(s, l.bin)
       IN /\ MayTake(s, l.bin, l.qty)
          /\ NotForbidden(l.bin, v.qty - l.qty)
          /\ Move(s, l.bin, "issue", -l.qty, v.value, -AverageCost(v, l.qty))

\* _reconciliation_snapshot locks the row, if there is one, and reads it.
ReadCount(s) ==
    /\ At(s, "submit", {"count"})
    /\ session[s].seen = Unread
    /\ LET b == CurrentLine(s).bin IN
         /\ bin[b].row => Free(s, b)
         /\ lock' = IF View(s, b).row THEN [lock EXCEPT ![b] = s] ELSE lock
         /\ session' = [session EXCEPT ![s].seen = View(s, b), ![s].work[b] = View(s, b)]
    /\ UNCHANGED <<bin, kardex, status>>

\* Mutant: the difference stored with the draft, when the bin was empty.
DifferenceOfDraft(l, seen) == [qty |-> l.qty, value |-> l.value]

Difference(l, seen) == [qty |-> l.qty - seen.qty, value |-> l.value - seen.value]

\* _create_stock_reconciliation_movement: the difference to what was read.
WriteCount(s) ==
    /\ At(s, "submit", {"count"})
    /\ session[s].seen # Unread
    /\ LET l == CurrentLine(s)
           seen == session[s].seen
           d == Difference(l, seen)
       IN /\ d.qty # 0 \/ d.value # 0
          /\ ~(d.qty > 0 /\ d.value < 0)
          /\ ~(seen.qty <= 0 /\ l.qty = 0 /\ d.value # 0)
          /\ d.qty < 0 => MayTake(s, l.bin, -d.qty)
          /\ Move(s, l.bin, "count", d.qty, View(s, l.bin).value, d.value)

\* A counted bin that agrees makes no movement.
SkipCount(s) ==
    /\ At(s, "submit", {"count"})
    /\ session[s].seen # Unread
    /\ LET d == Difference(CurrentLine(s), session[s].seen) IN d.qty = 0 /\ d.value = 0
    /\ session' = [session EXCEPT ![s].line = @ + 1, ![s].seen = Unread]
    /\ UNCHANGED <<bin, lock, kardex, status>>

\* _create_valuation_layer_if_needed and _cancel_landed_cost_valuations keep
\* the instance of an unlocked read.
ReadLanded(s, operation) ==
    /\ At(s, operation, {"landed"})
    /\ session[s].seen = Unread
    /\ LET v == View(s, CurrentLine(s).bin) IN
         /\ v.row
         /\ operation = "submit" => v.qty > 0
         /\ session' = [session EXCEPT ![s].seen = v]
    /\ UNCHANGED <<bin, lock, kardex, status>>

WriteLanded(s, operation) ==
    /\ At(s, operation, {"landed"})
    /\ session[s].seen # Unread
    /\ LET l == CurrentLine(s)
           dv == IF operation = "submit" THEN l.value ELSE -l.value
       IN Move(s, l.bin, "landed", 0, session[s].seen.value, dv)

-----------------------------------------------------------------------------
(* Cancelling                                                              *)

\* Movements of d in bin b, its reversals left out.
Movements(d, b) == {m \in Range(kardex[b]) : m.doc = d /\ m.kind # "reversal"}

\* _validate_stock_reversal_capacity: the bins are read without a lock.
CheckCapacity(s) ==
    /\ session[s].op = "cancel"
    /\ ~session[s].checked
    /\ \A b \in Bin : \A m \in Movements(session[s].doc, b) : NotForbidden(b, bin[b].qty - m.qty)
    /\ session' = [session EXCEPT ![s].checked = TRUE]
    /\ UNCHANGED <<bin, lock, kardex, status>>

\* _create_stock_reversal; the capacity is not tested again under the lock.
ReverseMovement(s) ==
    /\ At(s, "cancel", LineKind \ {"landed"})
    /\ session[s].checked
    /\ LET b == CurrentLine(s).bin IN
         \E m \in Movements(session[s].doc, b) :
             Move(s, b, "reversal", -m.qty, View(s, b).value, -m.value)

\* A line that made no movement has none to reverse.
SkipReverse(s) ==
    /\ At(s, "cancel", {"count"})
    /\ session[s].checked
    /\ Movements(session[s].doc, CurrentLine(s).bin) = {}
    /\ session' = [session EXCEPT ![s].line = @ + 1]
    /\ UNCHANGED <<bin, lock, kardex, status>>

-----------------------------------------------------------------------------
(* The end of a transaction                                                *)

\* Mutant: the connection goes back to the pool with its locks.
StillLocked(s) == lock

Unlocked(s) == [b \in Bin |-> IF lock[b] = s THEN NoSession ELSE lock[b]]

Commit(s) ==
    /\ session[s].op # "idle"
    /\ session[s].line > Len(Lines[session[s].doc])
    /\ \E b \in Bin : session[s].moves[b] # <<>>
    /\ bin' = [b \in Bin |-> IF lock[b] = s THEN session[s].work[b] ELSE bin[b]]
    /\ kardex' = [b \in Bin |-> kardex[b] \o session[s].moves[b]]
    /\ status' = [status EXCEPT ![session[s].doc] =
           IF session[s].op = "submit" THEN "submitted" ELSE "cancelled"]
    /\ lock' = Unlocked(s)
    /\ session' = [session EXCEPT ![s] = Idle]

\* A refusal, an error, the end of the process, or the victim of a deadlock.
Rollback(s) ==
    /\ session[s].op # "idle"
    /\ lock' = Unlocked(s)
    /\ session' = [session EXCEPT ![s] = Idle]
    /\ UNCHANGED <<bin, kardex, status>>

-----------------------------------------------------------------------------
Post(s) ==
    \/ Receive(s) \/ ReceiveTransfer(s) \/ Issue(s)
    \/ ReadCount(s) \/ WriteCount(s) \/ SkipCount(s)
    \/ ReadLanded(s, "submit") \/ WriteLanded(s, "submit")

Undo(s) ==
    \/ CheckCapacity(s) \/ ReverseMovement(s) \/ SkipReverse(s)
    \/ ReadLanded(s, "cancel") \/ WriteLanded(s, "cancel")

Next == \E s \in Session :
    \/ \E d \in Doc : Begin(s, d, "submit", "draft") \/ Begin(s, d, "cancel", "submitted")
    \/ Post(s) \/ Undo(s) \/ Commit(s) \/ Rollback(s)

Spec == Init /\ [][Next]_vars

-----------------------------------------------------------------------------
(* Properties                                                              *)

Movement ==
    [doc : Doc, line : Nat, kind : {"receive", "issue", "count", "landed", "reversal"},
     qty : Int, value : Int, after : Int]

Row == [row : BOOLEAN, qty : Int, value : Int]

\* Committed and working data have their types, and a lock has a holder at work.
TypeOK ==
    /\ bin \in [Bin -> Row]
    /\ kardex \in [Bin -> Seq(Movement)]
    /\ status \in [Doc -> {"draft", "submitted", "cancelled"}]
    /\ lock \in [Bin -> Session \cup {NoSession}]
    /\ \A b \in Bin : lock[b] # NoSession => session[lock[b]].op # "idle"
    /\ \A s \in Session : session[s] = Idle \/
           session[s] \in [op : {"submit", "cancel"}, doc : Doc, line : Nat, checked : BOOLEAN,
                           seen : Row, work : [Bin -> Row], moves : [Bin -> Seq(Movement)]]

\* The kardex is a running balance: every movement records the quantity that
\* the movements before it leave, and the bin holds the quantity they add up
\* to, however the transactions that wrote them interleaved; and their value,
\* until a landed cost, which does not refresh what it read, is posted to it.
KardexIsRunningBalance ==
    \A b \in Bin :
        /\ bin[b].qty = QtyOf(kardex[b], Len(kardex[b]))
        /\ \A i \in DOMAIN kardex[b] : kardex[b][i].after = QtyOf(kardex[b], i)
        /\ (\A i \in DOMAIN kardex[b] : kardex[b][i].kind # "landed")
              => bin[b].value = ValueOf(kardex[b], Len(kardex[b]))

\* No posting takes, from a bin that may not go negative, more than the
\* transactions committed before it left there.  (A count may add to a bin that
\* a cancellation has made negative, and not make up for all of it.)
IssuesAreCovered ==
    \A b \in Bin \ AllowNegative : \A i \in DOMAIN kardex[b] :
        LET m == kardex[b][i]
        IN m.kind \in {"receive", "issue"} \/ (m.kind = "count" /\ m.qty < 0)
              => QtyOf(kardex[b], i) >= 0

\* A count leaves the counted quantity in a bin that had its row, whatever was
\* posted after the draft of the count was written.
CountStands ==
    \A b \in Opened : \A i \in DOMAIN kardex[b] :
        LET m == kardex[b][i] IN m.kind = "count" => m.after = Lines[m.doc][m.line].qty

\* No bin goes negative whose item may not.
NeverNegative == \A b \in Bin \ AllowNegative : bin[b].qty >= 0
=============================================================================
