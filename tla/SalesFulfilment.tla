--------------------------- MODULE SalesFulfilment ---------------------------
(***************************************************************************)
(* From a sales order to its delivery notes and invoices (ventas/routes.py, *)
(* ventas/services.py, document_flow, approval_engine.py): what is ordered, *)
(* delivered and billed, and the stock that is reserved for the orders.     *)
(*                                                                         *)
(* A route loads its document and tests it, and what it depends on, without *)
(* a lock (Open); the services then lock the line of the source or the bin  *)
(* and write until the commit, which is one step.  Only the order is never  *)
(* locked, nor read again.  Database: PostgreSQL, READ COMMITTED.           *)
(*                                                                         *)
(* One item in one warehouse, one line per document, quantities in the base *)
(* unit; drafts are not edited.  What a document posts to the ledgers is in *)
(* DocumentPosting, which says when it may be submitted or cancelled.       *)
(***************************************************************************)
EXTENDS Integers, FiniteSets, Functions

CONSTANTS
    Order, Note, Invoice,  \* sales orders, delivery notes, invoices
    Session,               \* transactions at work
    Ordered,               \* quantity of each order
    Drafted,               \* bound: quantities of the notes and invoices
    Stock,                 \* units in the warehouse at the start
    NoDoc

Target == Note \cup Invoice

ASSUME SalesAssumption ==
    /\ Ordered \in [Order -> Nat \ {0}] /\ Stock \in Nat
    /\ Drafted \subseteq Nat \ {0}
    /\ Order \cap Target = {} /\ Note \cap Invoice = {}
    /\ NoDoc \notin Order \cup Target
    /\ IsFiniteSet(Order) /\ IsFiniteSet(Target)

VARIABLES
    approvals,  \* the engine is enabled for the company, which never changes
    order,      \* sales_order, and the closed_qty of its line
    doc,        \* delivery_note and sales_invoice with the relation to the source
    actual,     \* stock_bin.actual_qty
    reserved,   \* stock_bin.reserved_qty
    session     \* what an open transaction works at

vars == <<approvals, order, doc, actual, reserved, session>>

\* delivers: update_inventory;  note: delivery_note_id of an invoice.
Blank == [source |-> NoDoc, qty |-> 0, docstatus |-> 0, related |-> FALSE,
          pending |-> FALSE, delivers |-> FALSE, note |-> NoDoc]

\* delivered, closing: what the closing of an order has read.
Idle == [op |-> "idle", target |-> NoDoc, delivered |-> 0, closing |-> 0]

Init ==
    /\ approvals \in BOOLEAN
    /\ order = [o \in Order |-> [docstatus |-> 0, closed |-> FALSE, closed_qty |-> 0]]
    /\ doc = [d \in Target |-> Blank]
    /\ actual = Stock
    /\ reserved = 0
    /\ session = [s \in Session |-> Idle]

-----------------------------------------------------------------------------
(* Quantities of the document flow                                         *)

Kind(d) == IF d \in Note THEN Note ELSE Invoice

From(src, docs) == {d \in docs : doc[d].source = src}

Total(docs) == SumFunctionOnSet([d \in docs |-> doc[d].qty], docs)

\* consumed_qty_for_source: related targets that are submitted.
Consumed(docs, src) == Total({d \in From(src, docs) : doc[d].related /\ doc[d].docstatus = 1})

\* The same with the drafts, as close_document_balances reads it.
Claimed(docs, src) == Total({d \in From(src, docs) : doc[d].related /\ doc[d].docstatus # 2})

SourceQty(src) == IF src \in Order THEN Ordered[src] ELSE doc[src].qty

\* A source that _validate_sales_source_link accepts.
Standing(src) ==
    IF src \in Order THEN order[src].docstatus = 1 /\ ~order[src].closed
                     ELSE doc[src].docstatus = 1

\* Mutant: another submission is not waited for, nor counted.
FitsAlone(d) == doc[d].related => doc[d].qty <= SourceQty(doc[d].source)

\* _validate_delivery_quantities_against_so and _validate_sales_invoice_relation,
\* under the lock of the source line: only an active relation is looked at.
Fits(d) ==
    doc[d].related =>
        Consumed(Kind(d), doc[d].source) + doc[d].qty <= SourceQty(doc[d].source)

\* has_active_source_relations
HasActiveTargets(src) == Consumed(Target, src) > 0

\* revert_relations_for_target: the relations to a document and those from it.
Reverted(docs, d) ==
    [t \in Target |-> IF t = d \/ docs[t].source = d
                      THEN [docs[t] EXCEPT !.related = FALSE] ELSE docs[t]]

\* Mutant: a release may exceed what is reserved.
Unfloored(q) == q

NotNegative(q) == IF q > 0 THEN q ELSE 0

-----------------------------------------------------------------------------
(* Drafts, and what the routes test first                                  *)

\* A note or invoice is drafted with a relation to its source.
Create(d, src, q, updatesInventory) ==
    /\ doc[d].source = NoDoc
    /\ src \in IF d \in Note THEN Order ELSE Order \cup Note
    /\ Standing(src)
    /\ q <= SourceQty(src) - Consumed(Kind(d), src)
    /\ d \in Note => ~updatesInventory
    /\ doc' = [doc EXCEPT ![d] =
                 [source |-> src, qty |-> q, docstatus |-> 0, related |-> TRUE, pending |-> FALSE,
                  delivers |-> updatesInventory, note |-> IF src \in Note THEN src ELSE NoDoc]]
    /\ UNCHANGED <<approvals, order, actual, reserved, session>>

MayOpenOrder(op, o) ==
    \/ op = "submit" /\ order[o].docstatus = 0
    \/ op = "cancel" /\ order[o].docstatus = 1 /\ ~HasActiveTargets(o)
    \/ op = "close" /\ Standing(o) /\ HasActiveTargets(o)

MayOpenTarget(op, d) ==
    \/ op = "submit" /\ doc[d].docstatus = 0 /\ doc[d].related /\ Standing(doc[d].source)
    \/ op = "cancel" /\ doc[d].docstatus = 1 /\ ~HasActiveTargets(d)
    \/ op = "reject" /\ doc[d].pending

Open(s, op, d) ==
    /\ session[s] = Idle
    /\ IF d \in Order THEN MayOpenOrder(op, d) ELSE MayOpenTarget(op, d)
    /\ session' = [session EXCEPT ![s] = [Idle EXCEPT !.op = op, !.target = d]]
    /\ UNCHANGED <<approvals, order, doc, actual, reserved>>

At(s, op, docs) == session[s].op = op /\ session[s].target \in docs

Leave(s) == session' = [session EXCEPT ![s] = Idle]

-----------------------------------------------------------------------------
(* Orders                                                                  *)

\* The bin is locked, the order is not: without the engine, whose requests are
\* serialized, its docstatus is overwritten whatever it has become.
SubmitOrder(s) ==
    LET o == session[s].target
    IN /\ At(s, "submit", Order)
       /\ approvals => order[o].docstatus = 0
       /\ actual - reserved >= Ordered[o]
       /\ reserved' = reserved + Ordered[o]
       /\ order' = [order EXCEPT ![o].docstatus = 1]
       /\ Leave(s)
       /\ UNCHANGED <<approvals, doc, actual>>

CancelOrder(s) ==
    LET o == session[s].target
    IN /\ At(s, "cancel", Order)
       /\ approvals => order[o].docstatus = 1
       /\ reserved' = NotNegative(reserved - Ordered[o])
       /\ order' = [order EXCEPT ![o].docstatus = 2]
       /\ doc' = Reverted(doc, o)
       /\ Leave(s)
       /\ UNCHANGED <<approvals, actual>>

\* close_document_balances and the delivered quantity, read without a lock.
\* The balance is closed unless drafts claim all of it.
ReadDelivered(s) ==
    LET o == session[s].target
        delivered == Consumed(Note, o)
    IN /\ At(s, "close", Order)
       /\ session' = [session EXCEPT ![s] =
             [op |-> "release", target |-> o, delivered |-> delivered,
              closing |-> IF Claimed(Note, o) + order[o].closed_qty < Ordered[o]
                          THEN Ordered[o] - delivered ELSE order[o].closed_qty]]
       /\ UNCHANGED <<approvals, order, doc, actual, reserved>>

\* Mutant: the whole ordered quantity is released.
AllOrdered(s) == Ordered[session[s].target]

\* _release_reservation_for_closed_sales_order
Undelivered(s) == NotNegative(Ordered[session[s].target] - session[s].delivered)

CloseOrder(s) ==
    LET o == session[s].target
    IN /\ At(s, "release", Order)
       /\ reserved' = NotNegative(reserved - Undelivered(s))
       /\ order' = [order EXCEPT ![o].closed = TRUE, ![o].closed_qty = session[s].closing]
       /\ Leave(s)
       /\ UNCHANGED <<approvals, doc, actual>>

-----------------------------------------------------------------------------
(* Delivery notes and invoices                                             *)

Submitted(docs, d) == [docs EXCEPT ![d] = [@ EXCEPT !.docstatus = 1, !.pending = FALSE]]

\* The bin in posting_service and _release_reservation_for_delivery_note.
Take(q) ==
    /\ actual >= q
    /\ actual' = actual - q
    /\ reserved' = NotNegative(reserved - q)

Deliver(n) == Take(doc[n].qty) /\ doc' = Submitted(doc, n)

\* _create_delivery_note_from_invoice: a note for the invoice, related to its
\* order if the invoice still is.
DeliverFor(i) ==
    \E n \in Note :
        LET o == doc[i].source
            q == doc[i].qty
        IN /\ doc[n] = Blank
           /\ doc[i].related =>
                 /\ order[o].docstatus = 1
                 /\ Consumed(Note, o) + order[o].closed_qty + q <= Ordered[o]
           /\ Take(q)
           /\ doc' = [Submitted(doc, i) EXCEPT
                        ![n] = [Blank EXCEPT !.source = o, !.qty = q, !.docstatus = 1,
                                             !.related = doc[i].related],
                        ![i].note = n]

Bill(i) ==
    IF doc[i].delivers /\ doc[i].source \in Order
    THEN DeliverFor(i)
    ELSE doc' = Submitted(doc, i) /\ UNCHANGED <<actual, reserved>>

\* The submit routes: submit_document refuses a submitted document, an approved
\* request one that ever was.
MaySubmit(d) == doc[d].docstatus \in IF approvals THEN {0} ELSE {0, 2}

SubmitNote(s) ==
    LET n == session[s].target
    IN /\ At(s, "submit", Note)
       /\ MaySubmit(n)
       /\ Fits(n)
       /\ Deliver(n)
       /\ Leave(s)
       /\ UNCHANGED <<approvals, order>>

SubmitInvoice(s) ==
    LET i == session[s].target
    IN /\ At(s, "submit", Invoice)
       /\ MaySubmit(i)
       /\ Fits(i)
       /\ Bill(i)
       /\ Leave(s)
       /\ UNCHANGED <<approvals, order>>

\* The sender may not approve: the engine keeps a request (handle_submission).
Request(s) ==
    LET d == session[s].target
    IN /\ At(s, "submit", Target)
       /\ approvals
       /\ MaySubmit(d)
       /\ Fits(d)
       /\ doc' = [doc EXCEPT ![d].pending = TRUE]
       /\ Leave(s)
       /\ UNCHANGED <<approvals, order, actual, reserved>>

\* approve, _validate_final_submission and _execute_submit: of an invoice the
\* quantity is tested again, of a delivery note it is not.
Approve(d) ==
    /\ doc[d].pending
    /\ doc[d].docstatus = 0
    /\ IF d \in Note THEN Deliver(d) ELSE Fits(d) /\ Bill(d)
    /\ UNCHANGED <<approvals, order, session>>

\* The end of reject, which read the request without a lock.
Reject(s) ==
    LET d == session[s].target
    IN /\ At(s, "reject", Target)
       /\ doc' = [Reverted(doc, d) EXCEPT ![d].pending = FALSE]
       /\ Leave(s)
       /\ UNCHANGED <<approvals, order, actual, reserved>>

\* cancel_document of a note and _restore_reservation_for_delivery_note.
PutBack(q) == actual' = actual + q /\ reserved' = reserved + q

CancelNote(s) ==
    LET n == session[s].target
    IN /\ At(s, "cancel", Note)
       /\ doc[n].docstatus = 1
       /\ PutBack(doc[n].qty)
       /\ doc' = [Reverted(doc, n) EXCEPT ![n].docstatus = 2]
       /\ Leave(s)
       /\ UNCHANGED <<approvals, order>>

\* _cancel_linked_delivery_note first; the relation of the note stays.
CancelInvoice(s) ==
    LET i == session[s].target
        n == doc[i].note
        cancelled == [Reverted(doc, i) EXCEPT ![i].docstatus = 2]
    IN /\ At(s, "cancel", Invoice)
       /\ doc[i].docstatus = 1
       /\ IF doc[i].delivers /\ n # NoDoc /\ doc[n].docstatus = 1
          THEN PutBack(doc[n].qty) /\ doc' = [cancelled EXCEPT ![n].docstatus = 2]
          ELSE doc' = cancelled /\ UNCHANGED <<actual, reserved>>
       /\ Leave(s)
       /\ UNCHANGED <<approvals, order>>

\* A refusal, an error, the end of the process.
GiveUp(s) ==
    /\ session[s] # Idle
    /\ Leave(s)
    /\ UNCHANGED <<approvals, order, doc, actual, reserved>>

Next ==
    \/ \E d \in Target, src \in Order \cup Note, q \in Drafted, updatesInventory \in BOOLEAN :
           Create(d, src, q, updatesInventory)
    \/ \E d \in Target : Approve(d)
    \/ \E s \in Session :
           \/ \E op \in {"submit", "cancel", "close", "reject"}, d \in Order \cup Target :
                  Open(s, op, d)
           \/ SubmitOrder(s) \/ CancelOrder(s) \/ ReadDelivered(s) \/ CloseOrder(s)
           \/ SubmitNote(s) \/ SubmitInvoice(s) \/ Request(s) \/ Reject(s)
           \/ CancelNote(s) \/ CancelInvoice(s) \/ GiveUp(s)

Spec == Init /\ [][Next]_vars

-----------------------------------------------------------------------------
(* Properties                                                              *)

\* Physical deliveries of an order, related to it or not.
Delivered(o) == Total({n \in From(o, Note) : doc[n].docstatus = 1})

TargetRow ==
    [source : Order \cup Note \cup {NoDoc}, qty : Nat, docstatus : 0 .. 2, related : BOOLEAN,
     pending : BOOLEAN, delivers : BOOLEAN, note : Note \cup {NoDoc}]

\* Every variable has its type, and the warehouse holds what was there at the
\* start less what the submitted notes of the orders delivered.
TypeOK ==
    /\ approvals \in BOOLEAN
    /\ order \in [Order -> [docstatus : 0 .. 2, closed : BOOLEAN, closed_qty : Nat]]
    /\ doc \in [Target -> TargetRow]
    /\ actual \in Nat /\ reserved \in Nat
    /\ actual = Stock - SumFunctionOnSet([o \in Order |-> Delivered(o)], Order)
    /\ session \in [Session ->
           [op : {"idle", "submit", "cancel", "close", "reject", "release"},
            target : Order \cup Target \cup {NoDoc}, delivered : Nat, closing : Nat]]

\* A submitted document whose relation was reverted: its source was cancelled,
\* or it was rejected or cancelled itself, while it was being submitted.
Severed(docs, src) == \E d \in From(src, docs) : doc[d].docstatus = 1 /\ ~doc[d].related

\* Whatever is submitted and cancelled at the same time, nothing is delivered or
\* billed beyond its order or note (ventas/services.py:1619-1664), except by a
\* document whose relation was reverted under it, and by the approval of
\* pending delivery notes, which does not test the quantity.  A source is the
\* direct one: what is billed through the note of an order counts for the note.
WithinSource ==
    /\ \A o \in Order : approvals \/ Severed(Note, o) \/ Delivered(o) <= Ordered[o]
    /\ \A src \in Order \cup Note :
           Consumed(Invoice, src) <= SourceQty(src)

\* What an open order, and all of them, still have to deliver.
Owes(o) == IF Standing(o) THEN NotNegative(Ordered[o] - Delivered(o)) ELSE 0

Owed == SumFunctionOnSet([o \in Order |-> Owes(o)], Order)

\* The order has become something else than what the session tested.
Stale(s) ==
    LET o == session[s].target
    IN /\ o \in Order
       /\ \/ session[s].op = "submit" /\ order[o].docstatus # 0
          \/ session[s].op = "cancel" /\ (~Standing(o) \/ Delivered(o) > 0)
          \/ session[s].op = "release" /\ (~Standing(o) \/ session[s].delivered # Delivered(o))

\* Deliveries of the order change although it is not open, or beyond its quantity.
OutOfOrder(o) ==
    /\ Delivered(o)' # Delivered(o)
    /\ ~Standing(o) \/ Delivered(o) > Ordered[o] \/ Delivered(o)' > Ordered[o]

\* The reservation of the bin is exactly what the open orders still have to
\* deliver, through submissions, partial deliveries, cancellations and closings
\* of any of them (ventas/services.py:413-558).  It is lost only when a step
\* decided on an unlocked order acts on one that has changed, or a delivery
\* goes beyond its order or belongs to one that is not open any more.
ReservationKept ==
    [][reserved = Owed /\ reserved' # Owed' =>
           \/ \E s \in Session : session'[s] # session[s] /\ Stale(s)
           \/ \E o \in Order : OutOfOrder(o)]_vars
=============================================================================
