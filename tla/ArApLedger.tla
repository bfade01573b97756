----------------------------- MODULE ArApLedger -----------------------------
(***************************************************************************)
(* The accounts receivable / payable subledger                             *)
(* (cacao_accounting/contabilidad/arap_ledger_service.py), the payment     *)
(* application services that write to it (document_flow/payment.py,        *)
(* bancos/services.py), and the submit and cancel transitions of invoices  *)
(* and payments (contabilidad/posting_service.py).                         *)
(*                                                                         *)
(* One company, party, currency and book.  An invoice is a sales or a      *)
(* purchase invoice; a payment is a collection from the customer or a      *)
(* payment to the supplier, so an invoice increases the party's balance    *)
(* and a payment settles it.  Each action is one database transaction,     *)
(* which a refusal of the code rolls back: a refusal is a disabled action. *)
(***************************************************************************)
EXTENDS Integers, FiniteSets, FiniteSetsExt, Functions

CONSTANTS
    Invoice,             \* sales_invoice (or purchase_invoice) documents
    Payment,             \* payment_entry documents
    NoDocument,          \* "no reference"
    GrandTotal,          \* grand_total of an invoice, paid_amount of a payment
    ReconciliationMode   \* the company's ArApReconciliationPolicy

Document == Invoice \cup Payment

ASSUME DocumentAssumption ==
    /\ Invoice \cap Payment = {}
    /\ NoDocument \notin Document
    /\ IsFiniteSet(Document)
ASSUME TotalAssumption == GrandTotal \in [Document -> Nat \ {0}]
ASSUME ModeAssumption == ReconciliationMode \in {"strict", "warn", "log"}

VARIABLES
    docstatus,   \* life cycle; "absent" before a payment is first saved
    reference,   \* PaymentReference: allocated_amount of a payment to an invoice
    relation,    \* DocumentRelation from the invoice to the payment
    ledger,      \* the ARAPLedgerEntry rows
    open_item    \* ARAPOpenItem.unallocated_amount

vars == <<docstatus, reference, relation, ledger, open_item>>

Status == {"absent", "draft", "submitted", "cancelled"}

\* One row of the subledger.  A cancellation row repeats the kind, document
\* and reference of the row it reverses (reversal_of) and has the cancelled
\* document as its voucher.
Movement == [document : Document, kind : {"opening", "allocation"},
             reference : Document \cup {NoDocument}, amount : Int,
             voucher : Document, is_reversal : BOOLEAN]

Submitted(d) == docstatus[d] = "submitted"

-----------------------------------------------------------------------------
(* Movements                                                               *)

\* The amount of a document in the party's balance: an invoice is owed, a
\* collection or a supplier payment settles (sign -1).
Signed(d) == IF d \in Payment THEN -GrandTotal[d] ELSE GrandTotal[d]

Opening(d) == [document |-> d, kind |-> "opening", reference |-> NoDocument,
               amount |-> Signed(d), voucher |-> d, is_reversal |-> FALSE]

InvoiceSide(p, i, amount) ==
    [document |-> i, kind |-> "allocation", reference |-> p,
     amount |-> -amount, voucher |-> p, is_reversal |-> FALSE]

PaymentSide(p, i, amount) ==
    [document |-> p, kind |-> "allocation", reference |-> i,
     amount |-> amount, voucher |-> p, is_reversal |-> FALSE]

\* Mutant: the payment keeps its full balance after an application.
ApplicationOneSided(p, i, amount) == {InvoiceSide(p, i, amount)}

\* Mutant: the invoice is charged what was paid instead of being credited.
ApplicationWrongSign(p, i, amount) ==
    {[InvoiceSide(p, i, amount) EXCEPT !.amount = amount], PaymentSide(p, i, amount)}

\* An application credits the invoice and uses up the payment.
Application(p, i, amount) == {InvoiceSide(p, i, amount), PaymentSide(p, i, amount)}

Reversal(m, d) ==
    [document |-> m.document, kind |-> m.kind, reference |-> m.reference,
     amount |-> -m.amount, voucher |-> d, is_reversal |-> TRUE]

Applied(p, i) ==
    \E m \in ledger : /\ m.document = i /\ m.kind = "allocation"
                      /\ m.reference = p /\ ~m.is_reversal

RowsOf(d, rows) == {m \in rows : m.document = d}

\* ARAPLedgerEntry.document_balance.
Balance(d, rows) == SumFunction([m \in RowsOf(d, rows) |-> m.amount])

-----------------------------------------------------------------------------
(* What the services compute from the subledger and the references.        *)

\* References of approved payments that no allocation row represents yet.
Unrepresented(p, i) ==
    Submitted(p) /\ relation[p][i] = "active" /\ ~Applied(p, i)

\* compute_outstanding_amount of a submitted invoice.
Outstanding(i) ==
    LET pending == {p \in Payment : Unrepresented(p, i)}
        balance == Balance(i, ledger) - SumFunction([p \in pending |-> reference[p][i]])
    IN IF balance > 0 THEN balance ELSE 0

\* compute_payment_unallocated_amount of a submitted payment.
Unallocated(p) == IF Balance(p, ledger) < 0 THEN -Balance(p, ledger) ELSE 0

\* _advance_allocated_amount: the references whose relation is active.
AdvanceAllocated(p) ==
    SumFunction([i \in {j \in Invoice : relation[p][j] = "active"} |-> reference[p][i]])

\* The sum of all balances, and what the GL control account holds: the lines
\* of a submitted document; those of a cancelled one are reversed.
SubledgerTotal(rows) == SumFunction([d \in Document |-> Balance(d, rows)])

GLTotal(status) ==
    SumFunction([d \in {x \in Document : status[x] = "submitted"} |-> Signed(d)])

Reconciled(status, rows) == SubledgerTotal(rows) = GLTotal(status)

\* enforce_arap_gl_policy: in strict mode a difference refuses the transition.
ReconciliationGuard ==
    ReconciliationMode = "strict" => Reconciled(docstatus', ledger')

-----------------------------------------------------------------------------
(* The cache of open items                                                 *)

\* Mutant: the remainder of an open item is not floored at zero.
DecreasedUnfloored(value, amount) == value - amount

\* _decrease_open_item_cache.
Decreased(value, amount) == IF amount \in 0 .. value THEN value - amount ELSE 0

\* Mutant: the reversal of an allocation leaves the cache as it is.
RestoredNothing(d, rows) ==
    IF \E m \in rows : m.document = d /\ m.kind = "opening" THEN 0 ELSE open_item[d]

GivenBack(d, rows) ==
    LET Absolute(n) == IF n < 0 THEN -n ELSE n
        allocations == {m \in RowsOf(d, rows) : m.kind = "allocation"}
    IN SumFunction([m \in allocations |-> Absolute(m.amount)])

Capped(d, value) == IF value \in 0 .. GrandTotal[d] THEN value ELSE GrandTotal[d]

\* _reverse_arap_movement on the cache of document d, for all the rows being
\* reversed, openings first: an opening closes the item, an allocation gives
\* its amount back, up to the original amount.
Restored(d, rows) ==
    LET closed == \E m \in rows : m.document = d /\ m.kind = "opening"
    IN Capped(d, (IF closed THEN 0 ELSE open_item[d]) + GivenBack(d, rows))

-----------------------------------------------------------------------------
Init ==
    /\ docstatus = [d \in Document |-> IF d \in Invoice THEN "draft" ELSE "absent"]
    /\ reference = [p \in Payment |-> [i \in Invoice |-> 0]]
    /\ relation = [p \in Payment |-> [i \in Invoice |-> "none"]]
    /\ ledger = {}
    /\ open_item = [d \in Document |-> 0]

\* submit_document of an invoice: post_document_ar_ap.
SubmitInvoice(i) ==
    /\ docstatus[i] = "draft"
    /\ docstatus' = [docstatus EXCEPT ![i] = "submitted"]
    /\ ledger' = ledger \cup {Opening(i)}
    /\ open_item' = [open_item EXCEPT ![i] = GrandTotal[i]]
    /\ ReconciliationGuard
    /\ UNCHANGED <<reference, relation>>

LargestTotal == Max({GrandTotal[d] : d \in Document})

Lines == [Invoice -> 0 .. LargestTotal]

LinesTotal(lines) == SumFunction(lines)

\* Mutant: the references may add up to more than the payment.
CreatePaymentAnyTotal(p) ==
    /\ docstatus[p] = "absent"
    /\ \E lines \in Lines :
         /\ \A i \in Invoice : lines[i] > 0 => Submitted(i) /\ lines[i] <= Outstanding(i)
         /\ reference' = [reference EXCEPT ![p] = lines]
         /\ relation' = [relation EXCEPT ![p] =
                           [i \in Invoice |-> IF lines[i] > 0 THEN "active" ELSE "none"]]
    /\ docstatus' = [docstatus EXCEPT ![p] = "draft"]
    /\ UNCHANGED <<ledger, open_item>>

\* _create_payment_from_request: a draft with its references, each checked
\* against the outstanding amount of its invoice.
CreatePayment(p) ==
    /\ docstatus[p] = "absent"
    /\ \E lines \in Lines :
         /\ \A i \in Invoice : lines[i] > 0 => Submitted(i) /\ lines[i] <= Outstanding(i)
         /\ LinesTotal(lines) <= GrandTotal[p]
         /\ reference' = [reference EXCEPT ![p] = lines]
         /\ relation' = [relation EXCEPT ![p] =
                           [i \in Invoice |-> IF lines[i] > 0 THEN "active" ELSE "none"]]
    /\ docstatus' = [docstatus EXCEPT ![p] = "draft"]
    /\ UNCHANGED <<ledger, open_item>>

\* submit_document of a payment: post_payment_ar_ap with the references the
\* draft carries.  Neither their invoices nor their amounts are checked again.
SubmitPayment(p) ==
    LET targets == {i \in Invoice : reference[p][i] > 0 /\ ~Applied(p, i)}
    IN /\ docstatus[p] = "draft"
       /\ docstatus' = [docstatus EXCEPT ![p] = "submitted"]
       /\ ledger' = ledger \cup {Opening(p)}
                           \cup UNION {Application(p, i, reference[p][i]) : i \in targets}
       /\ open_item' = [d \in Document |->
                          IF d = p THEN Decreased(GrandTotal[p], LinesTotal(reference[p]))
                          ELSE IF d \in targets
                               THEN Decreased(open_item[d], reference[p][d])
                               ELSE open_item[d]]
       /\ ReconciliationGuard
       /\ UNCHANGED <<reference, relation>>

\* What is open of the invoice and of the payment covers the application: the
\* rows of the cache have the last word, whatever the caller has computed.
ItemsCover(p, i, amount) == amount <= open_item[i] /\ amount <= open_item[p]

\* post_payment_application_ar_ap, after the caller's checks.  A payment has
\* at most one reference to an invoice (uq_payment_reference), so the pair has
\* no allocation row yet.
PostApplication(p, i, amount) ==
    /\ reference[p][i] = 0
    /\ ItemsCover(p, i, amount)
    /\ reference' = [reference EXCEPT ![p][i] = amount]
    /\ relation' = [relation EXCEPT ![p][i] = "active"]
    /\ ledger' = ledger \cup Application(p, i, amount)
    /\ open_item' = [open_item EXCEPT ![i] = Decreased(@, amount), ![p] = Decreased(@, amount)]
    /\ UNCHANGED docstatus
    /\ ReconciliationGuard

\* One line of apply_payment_reconciliation.
ApplyPayment(p, i) ==
    /\ Submitted(p) /\ Submitted(i)
    /\ relation[p][i] # "active"
    /\ \E amount \in 1 .. GrandTotal[i] :
         /\ amount <= Outstanding(i)
         /\ amount <= Unallocated(p)
         /\ PostApplication(p, i, amount)

\* apply_advance_to_invoice.
ApplyAdvance(p, i) ==
    /\ Submitted(p) /\ Submitted(i)
    /\ \E amount \in 1 .. GrandTotal[i] :
         /\ amount <= GrandTotal[p] - AdvanceAllocated(p)
         /\ amount <= Outstanding(i)
         /\ PostApplication(p, i, amount)

\* _cancellation_originals: the rows of the document and, for a payment, the
\* allocations that refer to it.
CancellationOriginals(d) ==
    {m \in ledger : ~m.is_reversal /\ (m.document = d \/ (d \in Payment /\ m.reference = d))}

\* cancel_document, the part that is common to both kinds of document.
Cancel(d) ==
    LET originals == CancellationOriginals(d)
    IN /\ Submitted(d)
       /\ docstatus' = [docstatus EXCEPT ![d] = "cancelled"]
       /\ ledger' = ledger \cup {Reversal(m, d) : m \in originals}
       /\ open_item' = [x \in Document |->
                          IF \E m \in originals : m.document = x
                          THEN Restored(x, originals) ELSE open_item[x]]
       /\ ReconciliationGuard
       /\ UNCHANGED reference

Reverted(status) == IF status = "active" THEN "reverted" ELSE status

\* Mutant: the references of approved payments are not a dependency.
CancelInvoiceWithPayments(i) ==
    /\ Cancel(i)
    /\ relation' = [p \in Payment |-> [relation[p] EXCEPT ![i] = Reverted(@)]]

\* An invoice is cancelled when no approved payment refers to it; drafts that
\* do lose their relation, not their reference.
CancelInvoice(i) ==
    /\ \A p \in Payment : Submitted(p) => reference[p][i] = 0
    /\ Cancel(i)
    /\ relation' = [p \in Payment |-> [relation[p] EXCEPT ![i] = Reverted(@)]]

\* A payment takes its applications back (_apply_payment_cancellation_hooks).
CancelPayment(p) ==
    /\ Cancel(p)
    /\ relation' = [relation EXCEPT ![p] = [i \in Invoice |-> Reverted(@[i])]]

Next ==
    \/ \E i \in Invoice : SubmitInvoice(i) \/ CancelInvoice(i)
    \/ \E p \in Payment : CreatePayment(p) \/ SubmitPayment(p) \/ CancelPayment(p)
    \/ \E p \in Payment, i \in Invoice : ApplyPayment(p, i) \/ ApplyAdvance(p, i)

Spec == Init /\ [][Next]_vars

-----------------------------------------------------------------------------
(* Properties                                                              *)

\* Every variable has its type; an open item lies between zero and the total
\* of its document (the table's CHECK constraints).
TypeOK ==
    /\ docstatus \in [Document -> Status]
    /\ \A i \in Invoice : docstatus[i] # "absent"
    /\ reference \in [Payment -> [Invoice -> Nat]]
    /\ relation \in [Payment -> [Invoice -> {"none", "active", "reverted"}]]
    /\ ledger \in SUBSET Movement
    /\ open_item \in [Document -> Nat]
    /\ \A d \in Document : open_item[d] <= GrandTotal[d]

\* An approved payment never settles more than it brought: its applications,
\* from the draft, the reconciliation screen and the advance service together,
\* leave a balance between its total and zero.
PaymentNeverOverspent ==
    \A p \in Payment : Submitted(p) =>
        Balance(p, ledger) <= 0 /\ Balance(p, ledger) >= -GrandTotal[p]

\* The balance of a document can be reconstructed from the references of the
\* approved payments alone: every one of them is in the ledger once, and those
\* of cancelled payments count for nothing (document_balance against
\* payment_reference, tests/test_ar_ap_ledger_model.py:68).
BalanceReconstructible ==
    /\ \A i \in Invoice : Submitted(i) =>
          Balance(i, ledger) = GrandTotal[i]
              - SumFunction([p \in {q \in Payment : Submitted(q)} |-> reference[p][i]])
    /\ \A p \in Payment : Submitted(p) =>
          Balance(p, ledger) = LinesTotal(reference[p]) - GrandTotal[p]

\* The cache never hides an open balance: what the services compute as
\* applicable is always within the cached open items, so the ledger does not
\* refuse (arap_ledger_service.py:828, 906) what they allowed.
CacheCoversBalance ==
    /\ \A i \in Invoice : Submitted(i) => Outstanding(i) <= open_item[i]
    /\ \A p \in Payment : Submitted(p) => Unallocated(p) = open_item[p]

\* Both sides of every application are in the ledger, with opposite amounts,
\* and a payment's cancellation takes back both: an application moves a
\* balance between documents and never changes the party's.
ApplicationsPaired ==
    \A p \in Payment, i \in Invoice, a \in {m.amount : m \in ledger} :
        /\ PaymentSide(p, i, a) \in ledger <=> InvoiceSide(p, i, a) \in ledger
        /\ Reversal(PaymentSide(p, i, a), p) \in ledger
               <=> Reversal(InvoiceSide(p, i, a), p) \in ledger

\* Whatever the policy, one transition only can take the subledger and the
\* control account apart: the cancellation of an invoice to which a cancelled
\* payment was applied.  In strict mode the guard of
\* _validate_arap_gl_transition blocks no other approval, application or
\* cancellation.
ReconciliationKept ==
    [][ Reconciled(docstatus, ledger) =>
          \/ Reconciled(docstatus', ledger')
          \/ \E i \in Invoice, p \in Payment :
                /\ Submitted(i) /\ docstatus'[i] = "cancelled"
                /\ docstatus[p] = "cancelled" /\ Applied(p, i) ]_vars

-----------------------------------------------------------------------------
(* What the repository says and the code does not do.                      *)

\* Cancelling an invoice takes it out of the subledger: its balance is zero
\* (tests/test_o2c_matrix_audit.py, "Una factura anulada sale del subledger").
CancelledInvoiceNetsToZero ==
    [][ \A i \in Invoice : Submitted(i) /\ docstatus'[i] = "cancelled"
            => Balance(i, ledger') = 0 ]_vars
=============================================================================
