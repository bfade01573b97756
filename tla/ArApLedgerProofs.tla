-------------------------- MODULE ArApLedgerProofs --------------------------
(***************************************************************************)
(* Proofs about ArApLedger, for any number of documents: the type          *)
(* invariant, with the bounds of the open item table; the pairing of the   *)
(* two sides of every application; which rows the ledger holds, and what    *)
(* the balances that are computed from them come to; and when the          *)
(* subledger and the control account can part.                             *)
(***************************************************************************)
EXTENDS ArApLedger, SumTheorems, TLAPS

\* What is in the ledger that is not a reversal was written by the approval of
\* a document or by an application, with the payment as its voucher.
RowsFromServices ==
    \A m \in ledger : ~m.is_reversal =>
        \/ m.kind = "opening" /\ m.document = m.voucher
        \/ \E p \in Payment, i \in Invoice, a \in Int : m \in Application(p, i, a)

\* ApplicationsPaired for every amount, in the ledger or not.
SidesTogether ==
    \A p \in Payment, i \in Invoice, a \in Int :
        PaymentSide(p, i, a) \in ledger <=> InvoiceSide(p, i, a) \in ledger

\* The two sides of an application are reversed together.
ReversedTogether ==
    \A p \in Payment, i \in Invoice, a \in Int :
        Reversal(PaymentSide(p, i, a), p) \in ledger
            <=> Reversal(InvoiceSide(p, i, a), p) \in ledger

\* The inductive invariant of the rows of the ledger.
LedgerInv == TypeOK /\ RowsFromServices /\ SidesTogether /\ ReversedTogether

-----------------------------------------------------------------------------
(* Lemmas about the values the actions write.                              *)

\* The openings and the sides of an application are movements.
LEMMA MovementTypes ==
    /\ \A d \in Document : Opening(d) \in Movement
    /\ \A p \in Payment, i \in Invoice, a \in Int :
         InvoiceSide(p, i, a) \in Movement /\ PaymentSide(p, i, a) \in Movement
    /\ \A m \in Movement, d \in Document : Reversal(m, d) \in Movement
<1>1. ASSUME NEW d \in Document PROVE Opening(d) \in Movement
  <2>1. Signed(d) \in Int
      BY TotalAssumption DEF Signed
  <2> QED
      BY <2>1 DEF Movement, Opening
<1>2. ASSUME NEW p \in Payment, NEW i \in Invoice, NEW a \in Int
      PROVE InvoiceSide(p, i, a) \in Movement /\ PaymentSide(p, i, a) \in Movement
    BY DEF Movement, InvoiceSide, PaymentSide, Document
<1>3. ASSUME NEW m \in Movement, NEW d \in Document PROVE Reversal(m, d) \in Movement
    BY DEF Movement, Reversal
<1> QED
    BY <1>1, <1>2, <1>3

\* What is left of an open item is never more than it was, nor negative.
LEMMA DecreasedInRange ==
    \A value \in Nat : \A amount :
        Decreased(value, amount) \in Nat /\ Decreased(value, amount) <= value
BY DEF Decreased

\* An open item that gets allocations back stays within the document's total.
LEMMA RestoredInRange ==
    \A d \in Document : \A rows :
        Restored(d, rows) \in Nat /\ Restored(d, rows) <= GrandTotal[d]
<1> SUFFICES ASSUME NEW d \in Document, NEW rows
             PROVE Restored(d, rows) \in Nat /\ Restored(d, rows) <= GrandTotal[d]
    OBVIOUS
<1>1. GrandTotal[d] \in Nat
    BY TotalAssumption
<1> QED
    BY <1>1 DEF Restored, Capped

\* The two sides of an application are different from every opening and from
\* every other application's.
LEMMA SidesDistinct ==
    ASSUME NEW p \in Payment, NEW i \in Invoice, NEW a \in Int,
           NEW q \in Payment, NEW j \in Invoice, NEW b \in Int
    PROVE  /\ PaymentSide(p, i, a) # InvoiceSide(q, j, b)
           /\ PaymentSide(p, i, a) = PaymentSide(q, j, b) => p = q /\ i = j /\ a = b
           /\ InvoiceSide(p, i, a) = InvoiceSide(q, j, b) => p = q /\ i = j /\ a = b
<1>1. PaymentSide(p, i, a).document = p /\ InvoiceSide(q, j, b).document = j /\ p # j
    BY DocumentAssumption DEF PaymentSide, InvoiceSide
<1>2. PaymentSide(p, i, a) = PaymentSide(q, j, b) =>
          /\ PaymentSide(p, i, a).document = PaymentSide(q, j, b).document
          /\ PaymentSide(p, i, a).reference = PaymentSide(q, j, b).reference
          /\ PaymentSide(p, i, a).amount = PaymentSide(q, j, b).amount
    OBVIOUS
<1>3. InvoiceSide(p, i, a) = InvoiceSide(q, j, b) =>
          /\ InvoiceSide(p, i, a).document = InvoiceSide(q, j, b).document
          /\ InvoiceSide(p, i, a).reference = InvoiceSide(q, j, b).reference
          /\ InvoiceSide(p, i, a).amount = InvoiceSide(q, j, b).amount
    OBVIOUS
<1> QED
    BY <1>1, <1>2, <1>3 DEF PaymentSide, InvoiceSide

-----------------------------------------------------------------------------
(* How the two kinds of step that write to the ledger preserve the parts.   *)

\* An approval or an application adds openings and whole applications.
LEMMA PostingKeepsPairs ==
    ASSUME NEW added,
           LedgerInv,
           ledger' = ledger \cup added,
           \A m \in added :
               /\ ~m.is_reversal
               /\ \/ m.kind = "opening" /\ m.document = m.voucher
                  \/ \E p \in Payment, i \in Invoice, a \in Int : m \in Application(p, i, a),
           \A p \in Payment, i \in Invoice, a \in Int :
               PaymentSide(p, i, a) \in added <=> InvoiceSide(p, i, a) \in added
    PROVE  RowsFromServices' /\ SidesTogether' /\ ReversedTogether'
<1>1. RowsFromServices'
    BY DEF LedgerInv, RowsFromServices
<1>2. SidesTogether'
    BY DEF LedgerInv, SidesTogether
<1>3. ASSUME NEW m, NEW d, m \in Movement PROVE Reversal(m, d) \notin added
    BY <1>3 DEF Reversal, Movement
<1>4. ReversedTogether'
  <2> SUFFICES ASSUME NEW p \in Payment, NEW i \in Invoice, NEW a \in Int
               PROVE Reversal(PaymentSide(p, i, a), p) \in ledger'
                         <=> Reversal(InvoiceSide(p, i, a), p) \in ledger'
      BY DEF ReversedTogether
  <2>1. /\ Reversal(PaymentSide(p, i, a), p) \notin added
        /\ Reversal(InvoiceSide(p, i, a), p) \notin added
      BY <1>3, MovementTypes
  <2> QED
      BY <2>1 DEF LedgerInv, ReversedTogether
<1> QED
    BY <1>1, <1>2, <1>4

\* The openings of some documents and the applications of one payment.
Added(p, targets, amount, opened) ==
    {Opening(d) : d \in opened} \cup UNION {Application(p, i, amount[i]) : i \in targets}

\* They are what PostingKeepsPairs asks.
LEMMA ApplicationsAreWhole ==
    ASSUME NEW p \in Payment, NEW targets \in SUBSET Invoice, NEW amount \in [Invoice -> Int],
           NEW opened \in SUBSET Document
    PROVE  /\ Added(p, targets, amount, opened) \subseteq Movement
           /\ \A m \in Added(p, targets, amount, opened) :
                /\ ~m.is_reversal
                /\ \/ m.kind = "opening" /\ m.document = m.voucher
                   \/ \E q \in Payment, i \in Invoice, a \in Int : m \in Application(q, i, a)
           /\ \A q \in Payment, i \in Invoice, a \in Int :
                PaymentSide(q, i, a) \in Added(p, targets, amount, opened)
                    <=> InvoiceSide(q, i, a) \in Added(p, targets, amount, opened)
<1> DEFINE openings == {Opening(d) : d \in opened}
           sides == UNION {Application(p, i, amount[i]) : i \in targets}
<1>1. \A d \in opened : /\ Opening(d) \in Movement
                        /\ Opening(d).kind = "opening"
                        /\ Opening(d).document = Opening(d).voucher
                        /\ ~Opening(d).is_reversal
    BY MovementTypes DEF Opening
<1>2. \A i \in targets : /\ Application(p, i, amount[i]) \subseteq Movement
                         /\ \A m \in Application(p, i, amount[i]) : ~m.is_reversal
    BY MovementTypes DEF Application, InvoiceSide, PaymentSide
<1>3. ASSUME NEW q \in Payment, NEW i \in Invoice, NEW a \in Int
      PROVE PaymentSide(q, i, a) \notin openings /\ InvoiceSide(q, i, a) \notin openings
    BY <1>1 DEF PaymentSide, InvoiceSide
<1>4. ASSUME NEW q \in Payment, NEW i \in Invoice, NEW a \in Int
      PROVE PaymentSide(q, i, a) \in sides <=> InvoiceSide(q, i, a) \in sides
  <2>1. PaymentSide(q, i, a) \in sides <=> q = p /\ i \in targets /\ a = amount[i]
      BY SidesDistinct DEF Application
  <2>2. InvoiceSide(q, i, a) \in sides <=> q = p /\ i \in targets /\ a = amount[i]
      BY SidesDistinct DEF Application
  <2> QED
      BY <2>1, <2>2
<1>5. Added(p, targets, amount, opened) = openings \cup sides
    BY DEF Added
<1> HIDE DEF openings
<1>6. \A m \in sides : \E i \in targets : m \in Application(p, i, amount[i])
    OBVIOUS
<1>7. \A m \in openings : \E d \in opened : m = Opening(d)
    BY DEF openings
<1> HIDE DEF sides
<1> QED
    BY <1>1, <1>2, <1>3, <1>4, <1>5, <1>6, <1>7

\* The cancellation of a payment reverses both sides of each application; the
\* reversals of an invoice's cancellation carry the invoice as their voucher.
LEMMA CancellationKeepsPairs ==
    ASSUME NEW d \in Document,
           LedgerInv,
           ledger' = ledger \cup {Reversal(m, d) : m \in CancellationOriginals(d)}
    PROVE  ledger' \in SUBSET Movement /\ RowsFromServices' /\ SidesTogether' /\ ReversedTogether'
<1> DEFINE added == {Reversal(m, d) : m \in CancellationOriginals(d)}
<1>0. CancellationOriginals(d) \subseteq ledger /\ ledger \subseteq Movement
    BY DEF CancellationOriginals, LedgerInv, TypeOK
<1>1. ASSUME NEW n \in added PROVE n \in Movement /\ n.is_reversal /\ n.voucher = d
  <2>1. PICK m \in Movement : n = Reversal(m, d)
      BY <1>0
  <2> QED
      BY <2>1, MovementTypes DEF Reversal
<1>2. ledger' \in SUBSET Movement
    BY <1>0, <1>1
<1>3. RowsFromServices'
    BY <1>1 DEF LedgerInv, RowsFromServices
<1>4. SidesTogether'
  <2>1. \A p \in Payment, i \in Invoice, a \in Int :
            PaymentSide(p, i, a) \notin added /\ InvoiceSide(p, i, a) \notin added
      BY <1>1 DEF PaymentSide, InvoiceSide
  <2> QED
      BY <2>1 DEF LedgerInv, SidesTogether
<1>5. ReversedTogether'
  <2> SUFFICES ASSUME NEW p \in Payment, NEW i \in Invoice, NEW a \in Int
               PROVE Reversal(PaymentSide(p, i, a), p) \in ledger'
                         <=> Reversal(InvoiceSide(p, i, a), p) \in ledger'
      BY DEF ReversedTogether
  <2> DEFINE ps == PaymentSide(p, i, a)
             is == InvoiceSide(p, i, a)
  <2>1. ps \in Movement /\ is \in Movement
      BY MovementTypes
  <2>2. CASE d # p
    <3>1. Reversal(ps, p).voucher = p /\ Reversal(is, p).voucher = p
        BY <2>1 DEF Reversal, Movement
    <3>2. Reversal(ps, p) \notin added /\ Reversal(is, p) \notin added
        BY <1>1, <2>2, <3>1
    <3> QED
        BY <3>2 DEF LedgerInv, ReversedTogether
  <2>3. CASE d = p
    <3>1. ps \in CancellationOriginals(d) <=> is \in CancellationOriginals(d)
      <4>1. ps \in ledger <=> is \in ledger
          BY DEF LedgerInv, SidesTogether
      <4>2. ps.document = p /\ is.reference = p /\ ~ps.is_reversal /\ ~is.is_reversal
          BY DEF PaymentSide, InvoiceSide
      <4> QED
          BY <2>3, <4>1, <4>2 DEF CancellationOriginals
    <3>2. ASSUME NEW m \in CancellationOriginals(d), NEW side \in {ps, is},
                 Reversal(m, d) = Reversal(side, p)
          PROVE m = side
      <4>1. m \in Movement /\ side \in Movement /\ ~m.is_reversal /\ ~side.is_reversal
        <5>1. m \in Movement /\ ~m.is_reversal
            BY <1>0 DEF CancellationOriginals
        <5>2. side \in Movement
            BY <2>1
        <5>3. ~ps.is_reversal /\ ~is.is_reversal
            BY DEF PaymentSide, InvoiceSide
        <5> QED
            BY <5>1, <5>2, <5>3
      <4>2. /\ m.document = side.document /\ m.kind = side.kind
            /\ m.reference = side.reference /\ m.amount = side.amount
        <5>1. /\ Reversal(m, d).document = Reversal(side, p).document
              /\ Reversal(m, d).kind = Reversal(side, p).kind
              /\ Reversal(m, d).reference = Reversal(side, p).reference
              /\ Reversal(m, d).amount = Reversal(side, p).amount
            BY <3>2
        <5>2. m.amount \in Int /\ side.amount \in Int
            BY <4>1 DEF Movement
        <5> QED
            BY <5>1, <5>2 DEF Reversal
      <4>3. side.kind = "allocation" /\ side.voucher = p
          BY DEF PaymentSide, InvoiceSide
      <4>4. PICK q \in Payment, j \in Invoice, b \in Int : m \in Application(q, j, b)
          BY <1>0, <4>1, <4>2, <4>3 DEF LedgerInv, RowsFromServices
      <4>5. m.voucher = p
        <5>1. CASE side = ps
          <6>1. m.document = p
              BY <5>1, <4>2 DEF PaymentSide
          <6> QED
              BY <6>1, <4>4, DocumentAssumption DEF Application, PaymentSide, InvoiceSide
        <5>2. CASE side = is
          <6>1. m.reference = p
              BY <5>2, <4>2 DEF InvoiceSide
          <6> QED
              BY <6>1, <4>4, DocumentAssumption DEF Application, PaymentSide, InvoiceSide
        <5> QED
            BY <5>1, <5>2
      <4> QED
          BY <4>1, <4>2, <4>3, <4>5 DEF Movement
    <3>3. Reversal(ps, p) \in added <=> ps \in CancellationOriginals(d)
        BY <2>3, <3>2
    <3>4. Reversal(is, p) \in added <=> is \in CancellationOriginals(d)
        BY <2>3, <3>2
    <3> QED
        BY <3>1, <3>3, <3>4 DEF LedgerInv, ReversedTogether
  <2> QED
      BY <2>2, <2>3
<1> QED
    BY <1>2, <1>3, <1>4, <1>5

-----------------------------------------------------------------------------
(* The inductive invariant.                                                *)

\* No document has a row when the system starts.
LEMMA InitLedger == Init => LedgerInv
BY DocumentAssumption, TotalAssumption
   DEF Init, LedgerInv, TypeOK, Status, Document, RowsFromServices, SidesTogether, ReversedTogether

\* The approval of an invoice writes its opening.
LEMMA SubmitInvoiceKeeps ==
    ASSUME LedgerInv, NEW i \in Invoice, SubmitInvoice(i)
    PROVE  LedgerInv'
<1>1. i \in Document /\ GrandTotal[i] \in Nat
    BY TotalAssumption DEF Document
<1>2. ledger' \in SUBSET Movement
    BY <1>1, MovementTypes DEF SubmitInvoice, LedgerInv, TypeOK
<1>3. RowsFromServices' /\ SidesTogether' /\ ReversedTogether'
  <2>1. \A m \in {Opening(i)} : ~m.is_reversal /\ m.kind = "opening" /\ m.document = m.voucher
      BY DEF Opening
  <2>2. \A p \in Payment, j \in Invoice, a \in Int :
            PaymentSide(p, j, a) \notin {Opening(i)} /\ InvoiceSide(p, j, a) \notin {Opening(i)}
      BY <2>1 DEF PaymentSide, InvoiceSide
  <2>3. ledger' = ledger \cup {Opening(i)}
      BY DEF SubmitInvoice
  <2> QED
      BY <2>1, <2>2, <2>3, PostingKeepsPairs
<1>4. /\ docstatus' \in [Document -> Status] /\ \A j \in Invoice : docstatus'[j] # "absent"
      /\ reference' \in [Payment -> [Invoice -> Nat]]
      /\ relation' \in [Payment -> [Invoice -> {"none", "active", "reverted"}]]
    BY <1>1 DEF SubmitInvoice, LedgerInv, TypeOK, Status, Document
<1>5. open_item' \in [Document -> Nat] /\ \A d \in Document : open_item'[d] <= GrandTotal[d]
    BY <1>1 DEF SubmitInvoice, LedgerInv, TypeOK
<1> QED
    BY <1>2, <1>3, <1>4, <1>5 DEF LedgerInv, TypeOK

\* Drafts write nothing to the ledger.
LEMMA CreatePaymentKeeps ==
    ASSUME LedgerInv, NEW p \in Payment, CreatePayment(p)
    PROVE  LedgerInv'
<1>1. PICK lines \in Lines :
          /\ reference' = [reference EXCEPT ![p] = lines]
          /\ relation' = [relation EXCEPT ![p] =
                            [i \in Invoice |-> IF lines[i] > 0 THEN "active" ELSE "none"]]
    BY DEF CreatePayment
<1>2. lines \in [Invoice -> Nat]
    BY DEF Lines
<1>3. UNCHANGED <<ledger, open_item>> /\ docstatus' = [docstatus EXCEPT ![p] = "draft"]
    BY DEF CreatePayment
<1>4. /\ docstatus' \in [Document -> Status] /\ \A i \in Invoice : docstatus'[i] # "absent"
    BY <1>3 DEF LedgerInv, TypeOK, Status, Document
<1>5. reference' \in [Payment -> [Invoice -> Nat]]
    BY <1>1, <1>2 DEF LedgerInv, TypeOK
<1>6. relation' \in [Payment -> [Invoice -> {"none", "active", "reverted"}]]
    BY <1>1 DEF LedgerInv, TypeOK
<1> QED
    BY <1>3, <1>4, <1>5, <1>6
       DEF LedgerInv, TypeOK, RowsFromServices, SidesTogether, ReversedTogether

\* The approval of a payment writes its opening and its references.
LEMMA SubmitPaymentKeeps ==
    ASSUME LedgerInv, NEW p \in Payment, SubmitPayment(p)
    PROVE  LedgerInv'
<1> DEFINE targets == {i \in Invoice : reference[p][i] > 0 /\ ~Applied(p, i)}
           added == Added(p, targets, reference[p], {p})
<1>1. /\ p \in Document /\ GrandTotal[p] \in Nat /\ reference[p] \in [Invoice -> Nat]
      /\ \A d \in Document : GrandTotal[d] \in Nat
    BY TotalAssumption DEF Document, LedgerInv, TypeOK
<1>2. ledger' = ledger \cup added
    BY DEF SubmitPayment, Added
<1>3. /\ added \subseteq Movement
      /\ \A m \in added :
           /\ ~m.is_reversal
           /\ \/ m.kind = "opening" /\ m.document = m.voucher
              \/ \E q \in Payment, i \in Invoice, a \in Int : m \in Application(q, i, a)
      /\ \A q \in Payment, i \in Invoice, a \in Int :
           PaymentSide(q, i, a) \in added <=> InvoiceSide(q, i, a) \in added
  <2>1. targets \in SUBSET Invoice /\ reference[p] \in [Invoice -> Int] /\ {p} \in SUBSET Document
      BY <1>1
  <2> HIDE DEF targets
  <2> QED
      BY <2>1, ApplicationsAreWhole, Zenon
<1>4. RowsFromServices' /\ SidesTogether' /\ ReversedTogether'
  <2> HIDE DEF added
  <2> QED
      BY <1>2, <1>3, PostingKeepsPairs, Zenon
<1>5. ledger' \in SUBSET Movement
    BY <1>2, <1>3 DEF LedgerInv, TypeOK
<1>6. /\ docstatus' \in [Document -> Status] /\ \A i \in Invoice : docstatus'[i] # "absent"
      /\ UNCHANGED <<reference, relation>>
    BY <1>1 DEF SubmitPayment, LedgerInv, TypeOK, Status
<1>7. open_item' \in [Document -> Nat] /\ \A d \in Document : open_item'[d] <= GrandTotal[d]
  <2> DEFINE Left(d) == IF d = p THEN Decreased(GrandTotal[p], LinesTotal(reference[p]))
                        ELSE IF d \in targets THEN Decreased(open_item[d], reference[p][d])
                        ELSE open_item[d]
  <2>1. open_item' = [d \in Document |-> Left(d)]
      BY DEF SubmitPayment
  <2>2. ASSUME NEW d \in Document PROVE Left(d) \in Nat /\ Left(d) <= GrandTotal[d]
    <3>1. open_item[d] \in Nat /\ open_item[d] <= GrandTotal[d]
        BY DEF LedgerInv, TypeOK
    <3>2. CASE d = p
        BY <1>1, <3>2, DecreasedInRange
    <3>3. CASE d # p /\ d \in targets
      <4>1. Left(d) = Decreased(open_item[d], reference[p][d])
          BY <3>3
      <4> QED
          BY <4>1, <3>1, <1>1, DecreasedInRange
    <3>4. CASE d # p /\ d \notin targets
        BY <3>1, <3>4
    <3> QED
        BY <3>2, <3>3, <3>4
  <2> HIDE DEF Left
  <2> QED
      BY <2>1, <2>2
<1> QED
    BY <1>4, <1>5, <1>6, <1>7 DEF LedgerInv, TypeOK

\* The reconciliation screen and the advance service write one application.
LEMMA PostApplicationKeeps ==
    ASSUME LedgerInv, NEW p \in Payment, NEW i \in Invoice, NEW amount \in Nat,
           PostApplication(p, i, amount)
    PROVE  LedgerInv'
<1>1. p \in Document /\ i \in Document /\ p # i
    BY DocumentAssumption DEF Document
<1>2. ledger' = ledger \cup Application(p, i, amount)
    BY DEF PostApplication
<1>3. /\ Application(p, i, amount) \subseteq Movement
      /\ \A m \in Application(p, i, amount) : ~m.is_reversal
    BY MovementTypes DEF Application, InvoiceSide, PaymentSide
<1>4. ASSUME NEW q \in Payment, NEW j \in Invoice, NEW a \in Int
      PROVE PaymentSide(q, j, a) \in Application(p, i, amount)
                <=> InvoiceSide(q, j, a) \in Application(p, i, amount)
    BY SidesDistinct DEF Application
<1>5. RowsFromServices' /\ SidesTogether' /\ ReversedTogether'
    BY <1>2, <1>3, <1>4, PostingKeepsPairs
<1>6. ledger' \in SUBSET Movement
    BY <1>2, <1>3 DEF LedgerInv, TypeOK
<1>7. /\ reference' \in [Payment -> [Invoice -> Nat]]
      /\ relation' \in [Payment -> [Invoice -> {"none", "active", "reverted"}]]
      /\ UNCHANGED docstatus
    BY DEF PostApplication, LedgerInv, TypeOK
<1>8. open_item' \in [Document -> Nat] /\ \A d \in Document : open_item'[d] <= GrandTotal[d]
  <2>1. open_item' = [open_item EXCEPT ![i] = Decreased(open_item[i], amount),
                                       ![p] = Decreased(open_item[p], amount)]
      BY <1>1 DEF PostApplication, LedgerInv, TypeOK
  <2>2. /\ open_item \in [Document -> Nat] /\ \A d \in Document : open_item[d] <= GrandTotal[d]
        /\ \A d \in Document : GrandTotal[d] \in Nat
      BY TotalAssumption DEF LedgerInv, TypeOK
  <2>3. \A d \in Document : /\ Decreased(open_item[d], amount) \in Nat
                            /\ Decreased(open_item[d], amount) <= GrandTotal[d]
      BY <2>2, DecreasedInRange
  <2> QED
      BY <1>1, <2>1, <2>2, <2>3
<1> QED
    BY <1>5, <1>6, <1>7, <1>8 DEF LedgerInv, TypeOK

\* A cancellation writes the reversals of the document's rows.
LEMMA CancelKeeps ==
    ASSUME LedgerInv, NEW d \in Document, Cancel(d),
           relation' \in [Payment -> [Invoice -> {"none", "active", "reverted"}]]
    PROVE  LedgerInv'
<1> DEFINE originals == CancellationOriginals(d)
<1>1. ledger' = ledger \cup {Reversal(m, d) : m \in CancellationOriginals(d)}
    BY DEF Cancel
<1>2. ledger' \in SUBSET Movement /\ RowsFromServices' /\ SidesTogether' /\ ReversedTogether'
    BY <1>1, CancellationKeepsPairs, Zenon
<1>3. /\ docstatus' \in [Document -> Status] /\ \A i \in Invoice : docstatus'[i] # "absent"
      /\ UNCHANGED reference
    BY DEF Cancel, LedgerInv, TypeOK, Status
<1>4. open_item' \in [Document -> Nat] /\ \A x \in Document : open_item'[x] <= GrandTotal[x]
  <2>1. open_item' = [x \in Document |->
                        IF \E m \in originals : m.document = x
                        THEN Restored(x, originals) ELSE open_item[x]]
      BY DEF Cancel
  <2>2. \A x \in Document : /\ Restored(x, originals) \in Nat
                            /\ Restored(x, originals) <= GrandTotal[x]
      BY RestoredInRange
  <2>3. open_item \in [Document -> Nat] /\ \A x \in Document : open_item[x] <= GrandTotal[x]
      BY DEF LedgerInv, TypeOK
  <2> HIDE DEF originals
  <2> QED
      BY <2>1, <2>2, <2>3
<1> QED
    BY <1>2, <1>3, <1>4 DEF LedgerInv, TypeOK

\* Every step of the system keeps the invariant.
LEMMA NextLedger == LedgerInv /\ [Next]_vars => LedgerInv'
<1> SUFFICES ASSUME LedgerInv, [Next]_vars PROVE LedgerInv'
    OBVIOUS
<1>1. CASE \E i \in Invoice : SubmitInvoice(i)
    BY <1>1, SubmitInvoiceKeeps
<1>2. CASE \E i \in Invoice : CancelInvoice(i)
  <2>1. PICK i \in Invoice : CancelInvoice(i)
      BY <1>2
  <2>2. relation' \in [Payment -> [Invoice -> {"none", "active", "reverted"}]]
      BY <2>1 DEF CancelInvoice, Reverted, LedgerInv, TypeOK
  <2>3. i \in Document /\ Cancel(i)
      BY <2>1 DEF CancelInvoice, Document
  <2> QED
      BY <2>2, <2>3, CancelKeeps
<1>3. CASE \E p \in Payment : CreatePayment(p)
    BY <1>3, CreatePaymentKeeps
<1>4. CASE \E p \in Payment : SubmitPayment(p)
    BY <1>4, SubmitPaymentKeeps
<1>5. CASE \E p \in Payment : CancelPayment(p)
  <2>1. PICK p \in Payment : CancelPayment(p)
      BY <1>5
  <2>2. relation' \in [Payment -> [Invoice -> {"none", "active", "reverted"}]]
      BY <2>1 DEF CancelPayment, Reverted, LedgerInv, TypeOK
  <2>3. p \in Document /\ Cancel(p)
      BY <2>1 DEF CancelPayment, Document
  <2> QED
      BY <2>2, <2>3, CancelKeeps
<1>6. CASE \E p \in Payment, i \in Invoice : ApplyPayment(p, i) \/ ApplyAdvance(p, i)
  <2>1. PICK p \in Payment, i \in Invoice : ApplyPayment(p, i) \/ ApplyAdvance(p, i)
      BY <1>6
  <2>2. GrandTotal[i] \in Nat
      BY TotalAssumption DEF Document
  <2>3. PICK amount \in 1 .. GrandTotal[i] : PostApplication(p, i, amount)
      BY <2>1 DEF ApplyPayment, ApplyAdvance
  <2>4. amount \in Nat
      BY <2>2
  <2> QED
      BY <2>3, <2>4, PostApplicationKeeps
<1>7. CASE UNCHANGED vars
    BY <1>7 DEF vars, LedgerInv, TypeOK, RowsFromServices, SidesTogether, ReversedTogether
<1> QED
    BY <1>1, <1>2, <1>3, <1>4, <1>5, <1>6, <1>7 DEF Next

\* The invariant of the subledger holds in every reachable state.
THEOREM LedgerInvariant == Spec => []LedgerInv
BY InitLedger, NextLedger, PTL DEF Spec

\* Every variable has its type, and an open item stays between zero and the
\* total of its document, the CHECK constraints of ARAPOpenItem.
THEOREM LedgerTypeCorrect == Spec => []TypeOK
<1>1. LedgerInv => TypeOK
    BY DEF LedgerInv
<1> QED
    BY LedgerInvariant, <1>1, PTL

\* Both sides of every application are in the ledger, and both are taken back
\* by the payment's cancellation, whatever the number of documents.
THEOREM LedgerApplicationsPaired == Spec => []ApplicationsPaired
<1>1. LedgerInv => ApplicationsPaired
  <2> SUFFICES ASSUME LedgerInv, NEW p \in Payment, NEW i \in Invoice,
                      NEW a \in {m.amount : m \in ledger}
               PROVE /\ PaymentSide(p, i, a) \in ledger <=> InvoiceSide(p, i, a) \in ledger
                     /\ Reversal(PaymentSide(p, i, a), p) \in ledger
                            <=> Reversal(InvoiceSide(p, i, a), p) \in ledger
      BY DEF ApplicationsPaired
  <2>1. a \in Int
      BY DEF LedgerInv, TypeOK, Movement
  <2> QED
      BY <2>1 DEF LedgerInv, SidesTogether, ReversedTogether
<1> QED
    BY LedgerInvariant, <1>1, PTL

-----------------------------------------------------------------------------
(* Which rows the ledger holds, and what they add up to.                   *)

\* The document has reached the ledger.
Posted(d) == docstatus[d] \in {"submitted", "cancelled"}

\* The document has been taken back.
Cancelled(d) == docstatus[d] = "cancelled"

\* The references that the ledger represents.
Allocated(p, i) == Posted(p) /\ reference[p][i] > 0

\* A document accounts for the row: its opening, or a reference of a payment.
KnownOriginal(m) ==
    \/ \E d \in Document : Posted(d) /\ m = Opening(d)
    \/ \E p \in Payment, i \in Invoice :
          Allocated(p, i) /\ m \in Application(p, i, reference[p][i])

\* A cancelled document accounts for the reversal.
KnownReversal(m) ==
    \E d \in Document :
        Cancelled(d) /\ \E n \in CancellationOriginals(d) : m = Reversal(n, d)

\* The rows are those of the approved and cancelled documents, with the
\* amounts of the references; a cancelled payment took its applications back.
RowsKnown ==
    /\ IsFiniteSet(ledger)
    /\ \A m \in ledger : IF m.is_reversal THEN KnownReversal(m) ELSE KnownOriginal(m)
    /\ \A d \in Document : Posted(d) => Opening(d) \in ledger
    /\ \A p \in Payment, i \in Invoice :
         /\ Allocated(p, i) => Application(p, i, reference[p][i]) \subseteq ledger
         /\ Allocated(p, i) /\ Cancelled(p) =>
                Reversal(InvoiceSide(p, i, reference[p][i]), p) \in ledger
         /\ reference[p][i] > 0 => docstatus[p] # "absent" /\ Posted(i)

\* The rows of the ledger, and the documents they are about.
BooksInv == LedgerInv /\ RowsKnown

-----------------------------------------------------------------------------
(* What the invariant says of the rows of a document.                      *)

\* What distinguishes the rows that the services write.
LEMMA RowShapes ==
    /\ \A d \in Document :
         LET m == Opening(d)
         IN /\ m.document = d /\ m.kind = "opening" /\ m.reference = NoDocument
            /\ m.amount = Signed(d) /\ m.voucher = d /\ m.is_reversal = FALSE
    /\ \A p \in Payment, i \in Invoice, a \in Int :
         LET m == InvoiceSide(p, i, a)
         IN /\ m.document = i /\ m.kind = "allocation" /\ m.reference = p
            /\ m.amount = -a /\ m.voucher = p /\ m.is_reversal = FALSE
    /\ \A p \in Payment, i \in Invoice, a \in Int :
         LET m == PaymentSide(p, i, a)
         IN /\ m.document = p /\ m.kind = "allocation" /\ m.reference = i
            /\ m.amount = a /\ m.voucher = p /\ m.is_reversal = FALSE
    /\ \A n \in Movement, d \in Document :
         LET m == Reversal(n, d)
         IN /\ m.document = n.document /\ m.kind = n.kind /\ m.reference = n.reference
            /\ m.amount = -n.amount /\ m.voucher = d /\ m.is_reversal = TRUE
BY DEF Opening, InvoiceSide, PaymentSide, Reversal

\* The documents are of one kind, and none stands for "no reference".
LEMMA Kinds ==
    /\ \A p \in Payment : p \in Document /\ p \notin Invoice /\ p # NoDocument
    /\ \A i \in Invoice : i \in Document /\ i \notin Payment /\ i # NoDocument
    /\ \A d \in Document : d \in Payment \/ d \in Invoice
    /\ \A d \in Document : GrandTotal[d] \in Nat /\ GrandTotal[d] > 0 /\ Signed(d) \in Int
BY DocumentAssumption, TotalAssumption DEF Document, Signed

\* Sums over documents are over finite sets.
LEMMA FiniteKinds ==
    /\ \A S \in SUBSET Invoice : IsFiniteSet(S)
    /\ \A S \in SUBSET Payment : IsFiniteSet(S)
    /\ \A S \in SUBSET Document : IsFiniteSet(S)
<1>1. \A S \in SUBSET Document : IsFiniteSet(S)
    BY DocumentAssumption, FS_Subset
<1> QED
    BY <1>1 DEF Document

\* An allocation row that is not a reversal names an allocated pair.
LEMMA AppliedAllocated ==
    ASSUME BooksInv, NEW p \in Payment, NEW i \in Invoice
    PROVE  Applied(p, i) <=> Allocated(p, i)
<1>0. reference[p][i] \in Int
    BY DEF BooksInv, LedgerInv, TypeOK
<1>1. ASSUME Allocated(p, i) PROVE Applied(p, i)
  <2>1. InvoiceSide(p, i, reference[p][i]) \in ledger
      BY <1>1 DEF BooksInv, RowsKnown, Application
  <2> QED
      BY <1>0, <2>1, RowShapes DEF Applied
<1>2. ASSUME Applied(p, i) PROVE Allocated(p, i)
  <2>1. PICK m \in ledger : m.document = i /\ m.kind = "allocation"
                            /\ m.reference = p /\ ~m.is_reversal
      BY <1>2 DEF Applied
  <2>2. KnownOriginal(m)
      BY <2>1 DEF BooksInv, RowsKnown
  <2>3. m.kind # "opening"
      BY <2>1
  <2>4. PICK q \in Payment, j \in Invoice :
            Allocated(q, j) /\ m \in Application(q, j, reference[q][j])
      BY <2>2, <2>3, RowShapes DEF KnownOriginal
  <2>5. reference[q][j] \in Int
      BY DEF BooksInv, LedgerInv, TypeOK
  <2>6. m = InvoiceSide(q, j, reference[q][j])
      BY <2>1, <2>4, <2>5, RowShapes, Kinds DEF Application
  <2>7. q = p /\ j = i
      BY <2>1, <2>5, <2>6, RowShapes
  <2> QED
      BY <2>4, <2>7
<1> QED
    BY <1>1, <1>2

\* A draft has no row, and an application that is not there yet has none.
LEMMA OriginalAmounts ==
    ASSUME BooksInv, NEW p \in Payment, NEW i \in Invoice, NEW a \in Int
    PROVE  /\ InvoiceSide(p, i, a) \in ledger => Allocated(p, i) /\ a = reference[p][i]
           /\ PaymentSide(p, i, a) \in ledger => Allocated(p, i) /\ a = reference[p][i]
<1> SUFFICES ASSUME NEW m \in {InvoiceSide(p, i, a), PaymentSide(p, i, a)}, m \in ledger
             PROVE  Allocated(p, i) /\ a = reference[p][i]
    OBVIOUS
<1>1. ~m.is_reversal /\ m.kind = "allocation"
    BY RowShapes
<1>2. KnownOriginal(m)
    BY <1>1 DEF BooksInv, RowsKnown
<1>3. PICK q \in Payment, j \in Invoice :
          Allocated(q, j) /\ m \in Application(q, j, reference[q][j])
    BY <1>1, <1>2, RowShapes DEF KnownOriginal
<1>4. reference[q][j] \in Int
    BY DEF BooksInv, LedgerInv, TypeOK
<1>5. q = p /\ j = i /\ a = reference[q][j]
    BY <1>3, <1>4, SidesDistinct DEF Application
<1> QED
    BY <1>3, <1>5

\* A document with an opening row was submitted.
LEMMA OpeningPosted ==
    ASSUME BooksInv, NEW d \in Document, Opening(d) \in ledger
    PROVE  Posted(d)
<1>1. /\ Opening(d).kind = "opening" /\ Opening(d).document = d
      /\ Opening(d).is_reversal = FALSE
    BY RowShapes
<1>2. KnownOriginal(Opening(d))
    BY <1>1 DEF BooksInv, RowsKnown
<1>3. \A p \in Payment, i \in Invoice : Opening(d) \notin Application(p, i, reference[p][i])
    BY <1>1, RowShapes DEF Application, InvoiceSide, PaymentSide
<1>4. PICK x \in Document : Posted(x) /\ Opening(d) = Opening(x)
    BY <1>2, <1>3 DEF KnownOriginal
<1> QED
    BY <1>1, <1>4, RowShapes

\* The rows of a cancellation have a cancelled voucher.
LEMMA ReversalCancelled ==
    ASSUME BooksInv, NEW n \in Movement, NEW d \in Document, Reversal(n, d) \in ledger
    PROVE  Cancelled(d)
<1>1. Reversal(n, d).is_reversal = TRUE /\ Reversal(n, d).voucher = d
    BY RowShapes
<1>2. KnownReversal(Reversal(n, d))
    BY <1>1 DEF BooksInv, RowsKnown
<1>3. PICK x \in Document :
          Cancelled(x) /\ \E o \in CancellationOriginals(x) : Reversal(n, d) = Reversal(o, x)
    BY <1>2 DEF KnownReversal
<1>4. PICK o \in CancellationOriginals(x) : Reversal(n, d) = Reversal(o, x)
    BY <1>3
<1>5. o \in Movement
    BY DEF CancellationOriginals, BooksInv, LedgerInv, TypeOK
<1>6. Reversal(o, x).voucher = x
    BY <1>5, RowShapes
<1> QED
    BY <1>1, <1>3, <1>4, <1>6

-----------------------------------------------------------------------------
(* How the rows grow.                                                      *)

\* No step forgets a row, takes an approval back or changes a reference that
\* the ledger represents.
Grows ==
    /\ ledger \subseteq ledger'
    /\ \A d \in Document : Posted(d) => Posted(d)'
    /\ \A d \in Document : Cancelled(d) => Cancelled(d)'
    /\ \A p \in Payment, i \in Invoice : Allocated(p, i) => reference'[p][i] = reference[p][i]

\* What accounts for a row goes on accounting for it, as documents only advance.
LEMMA KnownStaysKnown ==
    ASSUME BooksInv, Grows
    PROVE  /\ \A m : KnownOriginal(m) => KnownOriginal(m)'
           /\ \A m : KnownReversal(m) => KnownReversal(m)'
<1>1. \A p \in Payment, i \in Invoice : Allocated(p, i) => Allocated(p, i)'
    BY Kinds DEF Grows, Allocated
<1>2. ASSUME NEW m, KnownOriginal(m) PROVE KnownOriginal(m)'
    BY <1>1, <1>2 DEF KnownOriginal, Grows
<1>3. ASSUME NEW m, KnownReversal(m) PROVE KnownReversal(m)'
  <2>1. \A d \in Document : CancellationOriginals(d) \subseteq CancellationOriginals(d)'
      BY DEF CancellationOriginals, Grows
  <2> QED
      BY <1>3, <2>1 DEF KnownReversal, Grows
<1> QED
    BY <1>2, <1>3

\* A step that adds what the new statuses and references call for, and nothing
\* else, keeps the rows known.
LEMMA AddingKeepsRowsKnown ==
    ASSUME BooksInv, Grows, NEW added, IsFiniteSet(added), ledger' = ledger \cup added,
           \A m \in added : IF m.is_reversal THEN KnownReversal(m)' ELSE KnownOriginal(m)',
           \A d \in Document : Posted(d)' => Posted(d) \/ Opening(d) \in added,
           \A p \in Payment, i \in Invoice :
             /\ Allocated(p, i)' =>
                    Allocated(p, i) \/ Application(p, i, reference'[p][i]) \subseteq added
             /\ Allocated(p, i)' /\ Cancelled(p)' =>
                    \/ Allocated(p, i) /\ Cancelled(p)
                    \/ Reversal(InvoiceSide(p, i, reference'[p][i]), p) \in added
             /\ reference'[p][i] > 0 => docstatus'[p] # "absent" /\ Posted(i)'
    PROVE  RowsKnown'
<1>1. IsFiniteSet(ledger')
    BY FS_Union DEF BooksInv, RowsKnown
<1>2. ASSUME NEW m \in ledger'
      PROVE IF m.is_reversal THEN KnownReversal(m)' ELSE KnownOriginal(m)'
  <2>1. CASE m \in ledger
      BY <2>1, KnownStaysKnown DEF BooksInv, RowsKnown
  <2>2. CASE m \in added
      BY <2>2
  <2> QED
      BY <2>1, <2>2
<1>3. \A d \in Document : Posted(d)' => Opening(d) \in ledger'
    BY DEF BooksInv, RowsKnown
<1>4. ASSUME NEW p \in Payment, NEW i \in Invoice, Allocated(p, i)'
      PROVE Application(p, i, reference'[p][i]) \subseteq ledger'
  <2>1. CASE Allocated(p, i)
      BY <2>1 DEF BooksInv, RowsKnown, Grows
  <2>2. CASE Application(p, i, reference'[p][i]) \subseteq added
      BY <2>2
  <2> QED
      BY <1>4, <2>1, <2>2
<1>5. ASSUME NEW p \in Payment, NEW i \in Invoice, Allocated(p, i)', Cancelled(p)'
      PROVE Reversal(InvoiceSide(p, i, reference'[p][i]), p) \in ledger'
  <2>1. CASE Allocated(p, i) /\ Cancelled(p)
    <3>1. Reversal(InvoiceSide(p, i, reference[p][i]), p) \in ledger
        BY <2>1 DEF BooksInv, RowsKnown
    <3>2. reference'[p][i] = reference[p][i]
        BY <2>1 DEF Grows
    <3> QED
        BY <3>1, <3>2
  <2>2. CASE Reversal(InvoiceSide(p, i, reference'[p][i]), p) \in added
      BY <2>2
  <2> QED
      BY <1>5, <2>1, <2>2
<1> QED
    BY <1>1, <1>2, <1>3, <1>4, <1>5 DEF RowsKnown

\* A step that writes no row and posts nothing keeps them too.
LEMMA QuietKeepsRowsKnown ==
    ASSUME BooksInv, UNCHANGED ledger,
           \A d \in Document : (Posted(d)' <=> Posted(d)) /\ (Cancelled(d)' <=> Cancelled(d)),
           \A p \in Payment, i \in Invoice :
             /\ Posted(p) => reference'[p][i] = reference[p][i]
             /\ reference'[p][i] > 0 => docstatus'[p] # "absent" /\ Posted(i)
    PROVE  RowsKnown'
<1>1. Grows
    BY DEF Grows, Allocated
<1>2. IsFiniteSet({}) /\ ledger' = ledger \cup {}
    BY FS_EmptySet
<1>3. \A p \in Payment, i \in Invoice : Allocated(p, i)' => Allocated(p, i)
    BY Kinds DEF Allocated
<1>4. \A p \in Payment, i \in Invoice :
          /\ Cancelled(p)' => Cancelled(p)
          /\ reference'[p][i] > 0 => docstatus'[p] # "absent" /\ Posted(i)'
    BY Kinds
<1> QED
    BY <1>1, <1>2, <1>3, <1>4, AddingKeepsRowsKnown

\* The empty ledger has no row to account for.
LEMMA InitRows == Init => RowsKnown
<1> SUFFICES ASSUME Init PROVE RowsKnown
    OBVIOUS
<1>1. ledger = {} /\ IsFiniteSet(ledger)
    BY FS_EmptySet DEF Init
<1>2. \A d \in Document : ~Posted(d)
    BY DEF Init, Posted
<1>3. \A p \in Payment, i \in Invoice : reference[p][i] = 0
    BY DEF Init
<1> QED
    BY <1>1, <1>2, <1>3, Kinds DEF RowsKnown, Allocated

-----------------------------------------------------------------------------
(* What each action adds to the ledger.                                    *)

\* Submitting an invoice writes its opening row, which its status accounts for.
LEMMA SubmitInvoiceRows ==
    ASSUME BooksInv, NEW i \in Invoice, SubmitInvoice(i)
    PROVE  Grows /\ RowsKnown'
<1>1. /\ i \in Document /\ docstatus[i] = "draft" /\ docstatus'[i] = "submitted"
      /\ \A d \in Document \ {i} : docstatus'[d] = docstatus[d]
      /\ UNCHANGED reference
      /\ ledger' = ledger \cup {Opening(i)}
    BY Kinds DEF SubmitInvoice, BooksInv, LedgerInv, TypeOK
<1>2. /\ \A d \in Document : (Posted(d)' <=> Posted(d) \/ d = i) /\ (Cancelled(d)' <=> Cancelled(d))
      /\ ~Posted(i)
    BY <1>1 DEF Posted, Cancelled
<1>3. Grows
    BY <1>1, <1>2 DEF Grows
<1>4. IsFiniteSet({Opening(i)})
    BY FS_Singleton
<1>5. \A m \in {Opening(i)} : ~m.is_reversal /\ KnownOriginal(m)'
    BY <1>1, <1>2, RowShapes DEF KnownOriginal
<1>6. \A p \in Payment, j \in Invoice :
        /\ Allocated(p, j)' => Allocated(p, j)
        /\ Cancelled(p)' => Cancelled(p)
        /\ reference'[p][j] > 0 => docstatus'[p] # "absent" /\ Posted(j)'
    BY <1>1, <1>2, Kinds DEF Allocated, BooksInv, RowsKnown
<1>7. \A d \in Document : Posted(d)' => Posted(d) \/ Opening(d) \in {Opening(i)}
    BY <1>2
<1> QED
    BY <1>1, <1>3, <1>4, <1>5, <1>6, <1>7, AddingKeepsRowsKnown

\* A draft payment writes no row.
LEMMA CreatePaymentRows ==
    ASSUME BooksInv, NEW p \in Payment, CreatePayment(p)
    PROVE  Grows /\ RowsKnown'
<1>1. PICK lines \in Lines :
          /\ \A i \in Invoice : lines[i] > 0 => Submitted(i)
          /\ reference' = [reference EXCEPT ![p] = lines]
    BY DEF CreatePayment
<1>2. /\ docstatus[p] = "absent" /\ docstatus'[p] = "draft"
      /\ \A d \in Document \ {p} : docstatus'[d] = docstatus[d]
      /\ UNCHANGED ledger
    BY Kinds DEF CreatePayment, BooksInv, LedgerInv, TypeOK
<1>3. \A d \in Document : (Posted(d)' <=> Posted(d)) /\ (Cancelled(d)' <=> Cancelled(d))
    BY <1>2 DEF Posted, Cancelled
<1>4. /\ reference'[p] = lines
      /\ \A q \in Payment \ {p} : reference'[q] = reference[q]
    BY <1>1 DEF BooksInv, LedgerInv, TypeOK
<1>5. \A q \in Payment, i \in Invoice :
        /\ Posted(q) => reference'[q][i] = reference[q][i]
        /\ reference'[q][i] > 0 => docstatus'[q] # "absent" /\ Posted(i)
  <2> TAKE q \in Payment, i \in Invoice
  <2>1. CASE q = p
      BY <1>1, <1>2, <1>4, <2>1 DEF Posted, Submitted
  <2>2. CASE q # p
      BY <1>2, <1>4, <2>2, Kinds DEF BooksInv, RowsKnown
  <2> QED
      BY <2>1, <2>2
<1>6. Grows
    BY <1>2, <1>3, <1>5 DEF Grows, Allocated
<1> QED
    BY <1>2, <1>3, <1>5, <1>6, QuietKeepsRowsKnown

\* The rows of one payment's applications are finitely many.
LEMMA AddedFinite ==
    ASSUME NEW p \in Payment, NEW targets \in SUBSET Invoice, NEW amount,
           NEW opened \in SUBSET Document
    PROVE  IsFiniteSet(Added(p, targets, amount, opened))
<1> DEFINE invoices == [i \in Invoice |-> InvoiceSide(p, i, amount[i])]
           payments == [i \in Invoice |-> PaymentSide(p, i, amount[i])]
           openings == [d \in Document |-> Opening(d)]
<1>1. /\ IsFiniteSet({invoices[i] : i \in targets})
      /\ IsFiniteSet({payments[i] : i \in targets})
      /\ IsFiniteSet({openings[d] : d \in opened})
  <2>1. IsFiniteSet(targets) /\ IsFiniteSet(opened)
      BY FiniteKinds
  <2> HIDE DEF invoices, payments, openings
  <2>2. IsFiniteSet({invoices[i] : i \in targets})
      BY <2>1, ImageFinite
  <2>3. IsFiniteSet({payments[i] : i \in targets})
      BY <2>1, ImageFinite
  <2>4. IsFiniteSet({openings[d] : d \in opened})
      BY <2>1, ImageFinite
  <2> QED
      BY <2>2, <2>3, <2>4
<1>2. Added(p, targets, amount, opened) =
          {openings[d] : d \in opened} \cup ({invoices[i] : i \in targets} \cup {payments[i] : i \in targets})
  <2>1. {openings[d] : d \in opened} = {Opening(d) : d \in opened}
      OBVIOUS
  <2>2. {invoices[i] : i \in targets} = {InvoiceSide(p, i, amount[i]) : i \in targets}
      OBVIOUS
  <2>3. {payments[i] : i \in targets} = {PaymentSide(p, i, amount[i]) : i \in targets}
      OBVIOUS
  <2>4. UNION {Application(p, i, amount[i]) : i \in targets} =
            {InvoiceSide(p, i, amount[i]) : i \in targets} \cup {PaymentSide(p, i, amount[i]) : i \in targets}
      BY DEF Application
  <2> QED
      BY <2>1, <2>2, <2>3, <2>4 DEF Added
<1> HIDE DEF invoices, payments, openings
<1>3. IsFiniteSet({invoices[i] : i \in targets} \cup {payments[i] : i \in targets})
    BY <1>1, UnionFinite, Zenon
<1>4. IsFiniteSet({openings[d] : d \in opened}
          \cup ({invoices[i] : i \in targets} \cup {payments[i] : i \in targets}))
    BY <1>1, <1>3, UnionFinite, Zenon
<1> QED
    BY <1>2, <1>4, Zenon

\* Nothing of a draft is represented, so its approval writes every reference.
LEMMA DraftTargets ==
    ASSUME BooksInv, NEW p \in Payment, docstatus[p] = "draft"
    PROVE  {i \in Invoice : reference[p][i] > 0 /\ ~Applied(p, i)}
               = {i \in Invoice : reference[p][i] > 0}
BY AppliedAllocated DEF Allocated, Posted

\* Submitting a payment writes the opening row and both sides of every reference.
LEMMA SubmitPaymentRows ==
    ASSUME BooksInv, NEW p \in Payment, SubmitPayment(p)
    PROVE  Grows /\ RowsKnown'
<1> DEFINE targets == {i \in Invoice : reference[p][i] > 0}
           added == Added(p, targets, reference[p], {p})
<1>1. /\ p \in Document /\ docstatus[p] = "draft" /\ docstatus'[p] = "submitted"
      /\ \A d \in Document \ {p} : docstatus'[d] = docstatus[d]
      /\ UNCHANGED reference
    BY Kinds DEF SubmitPayment, BooksInv, LedgerInv, TypeOK
<1>2. ledger' = ledger \cup added
    BY <1>1, DraftTargets DEF SubmitPayment, Added
<1>3. /\ \A d \in Document : (Posted(d)' <=> Posted(d) \/ d = p) /\ (Cancelled(d)' <=> Cancelled(d))
      /\ ~Posted(p)
    BY <1>1 DEF Posted, Cancelled
<1>4. Grows
    BY <1>1, <1>2, <1>3 DEF Grows
<1>5. IsFiniteSet(added)
    BY <1>1, AddedFinite
<1>6. ASSUME NEW m \in added PROVE ~m.is_reversal /\ KnownOriginal(m)'
  <2>1. CASE m = Opening(p)
      BY <1>1, <1>3, <2>1, RowShapes DEF KnownOriginal
  <2>2. CASE m # Opening(p)
    <3>1. PICK i \in targets : m \in Application(p, i, reference[p][i])
        BY <2>2 DEF Added
    <3>2. reference[p][i] \in Int /\ Allocated(p, i)'
        BY <1>1, <1>3, <3>1 DEF Allocated, BooksInv, LedgerInv, TypeOK
    <3>3. ~m.is_reversal
        BY <3>1, <3>2, RowShapes DEF Application
    <3>4. KnownOriginal(m)'
        BY <1>1, <3>1, <3>2 DEF KnownOriginal
    <3> QED
        BY <3>3, <3>4
  <2> QED
      BY <2>1, <2>2
<1>7. \A d \in Document : Posted(d)' => Posted(d) \/ Opening(d) \in added
    BY <1>3 DEF Added
<1>8. \A q \in Payment, i \in Invoice :
        /\ Allocated(q, i)' =>
               Allocated(q, i) \/ Application(q, i, reference'[q][i]) \subseteq added
        /\ Allocated(q, i)' /\ Cancelled(q)' => Allocated(q, i) /\ Cancelled(q)
        /\ reference'[q][i] > 0 => docstatus'[q] # "absent" /\ Posted(i)'
  <2> TAKE q \in Payment, i \in Invoice
  <2>1. ASSUME Allocated(q, i)', ~Allocated(q, i)
        PROVE Application(q, i, reference'[q][i]) \subseteq added /\ ~Cancelled(q)'
    <3>1. q = p /\ i \in targets
        BY <1>1, <1>3, <2>1, Kinds DEF Allocated
    <3> QED
        BY <1>1, <3>1 DEF Added, Cancelled
  <2>2. Cancelled(q)' => Cancelled(q)
      BY <1>3, Kinds
  <2>3. reference'[q][i] > 0 => docstatus'[q] # "absent" /\ Posted(i)'
      BY <1>1, <1>3, Kinds DEF BooksInv, RowsKnown
  <2> QED
      BY <2>1, <2>2, <2>3
<1> HIDE DEF added
<1> QED
    BY <1>2, <1>4, <1>5, <1>6, <1>7, <1>8, AddingKeepsRowsKnown

\* An application after submission writes its two sides and adds to the reference.
LEMMA PostApplicationRows ==
    ASSUME BooksInv, NEW p \in Payment, NEW i \in Invoice, NEW amount \in Nat, amount > 0,
           Submitted(p), Submitted(i), PostApplication(p, i, amount)
    PROVE  Grows /\ RowsKnown'
<1> DEFINE added == Application(p, i, amount)
<1>1. /\ UNCHANGED docstatus /\ ledger' = ledger \cup added
      /\ reference[p][i] = 0 /\ reference'[p][i] = amount
      /\ \A q \in Payment, j \in Invoice : <<q, j>> # <<p, i>> => reference'[q][j] = reference[q][j]
    BY DEF PostApplication, BooksInv, LedgerInv, TypeOK
<1>2. \A d : (Posted(d)' <=> Posted(d)) /\ (Cancelled(d)' <=> Cancelled(d))
    BY <1>1 DEF Posted, Cancelled
<1>3. Posted(p) /\ Posted(i) /\ ~Cancelled(p) /\ docstatus[p] # "absent"
    BY DEF Posted, Submitted, Cancelled
<1>4. Grows
  <2>1. ASSUME NEW q \in Payment, NEW j \in Invoice, Allocated(q, j)
        PROVE reference'[q][j] = reference[q][j]
      BY <1>1, <2>1 DEF Allocated
  <2> QED
      BY <1>1, <1>2, <2>1 DEF Grows
<1>5. IsFiniteSet(added)
  <2>1. added = {InvoiceSide(p, i, amount)} \cup {PaymentSide(p, i, amount)}
      BY DEF Application
  <2>2. IsFiniteSet({InvoiceSide(p, i, amount)}) /\ IsFiniteSet({PaymentSide(p, i, amount)})
      BY FS_Singleton
  <2> HIDE DEF added
  <2> QED
      BY <2>1, <2>2, UnionFinite, Zenon
<1>6. \A m \in added : ~m.is_reversal /\ KnownOriginal(m)'
  <2>1. Allocated(p, i)'
      BY <1>1, <1>2, <1>3 DEF Allocated
  <2>2. \A m \in added : ~m.is_reversal
      BY RowShapes DEF Application
  <2> QED
      BY <1>1, <2>1, <2>2 DEF KnownOriginal
<1>7. \A q \in Payment, j \in Invoice :
        /\ Allocated(q, j)' =>
               Allocated(q, j) \/ Application(q, j, reference'[q][j]) \subseteq added
        /\ Allocated(q, j)' /\ Cancelled(q)' => Allocated(q, j) /\ Cancelled(q)
        /\ reference'[q][j] > 0 => docstatus'[q] # "absent" /\ Posted(j)'
  <2> TAKE q \in Payment, j \in Invoice
  <2>1. CASE q = p /\ j = i
      BY <1>1, <1>2, <1>3, <2>1
  <2>2. CASE ~(q = p /\ j = i)
    <3>1. reference'[q][j] = reference[q][j]
        BY <1>1, <2>2
    <3>2. Allocated(q, j)' <=> Allocated(q, j)
        BY <1>2, <3>1 DEF Allocated
    <3> QED
        BY <1>1, <1>2, <3>1, <3>2 DEF BooksInv, RowsKnown
  <2> QED
      BY <2>1, <2>2
<1>8. \A d \in Document : Posted(d)' => Posted(d)
    BY <1>2
<1> HIDE DEF added
<1> QED
    BY <1>1, <1>4, <1>5, <1>6, <1>7, <1>8, AddingKeepsRowsKnown

\* A cancellation writes the reversal of every row of the document, and nothing
\* else.
LEMMA CancelRows ==
    ASSUME BooksInv, NEW d \in Document, Cancel(d)
    PROVE  Grows /\ RowsKnown'
<1> DEFINE undo == [m \in Movement |-> Reversal(m, d)]
           added == {Reversal(m, d) : m \in CancellationOriginals(d)}
<1>1. /\ docstatus[d] = "submitted" /\ docstatus'[d] = "cancelled"
      /\ \A x \in Document \ {d} : docstatus'[x] = docstatus[x]
      /\ UNCHANGED reference
      /\ ledger' = ledger \cup added
    BY DEF Cancel, Submitted, BooksInv, LedgerInv, TypeOK
<1>2. \A x \in Document : (Posted(x)' <=> Posted(x)) /\ (Cancelled(x)' <=> Cancelled(x) \/ x = d)
    BY <1>1 DEF Posted, Cancelled
<1>3. Grows
    BY <1>1, <1>2 DEF Grows
<1>4. /\ CancellationOriginals(d) \subseteq ledger /\ ledger \subseteq Movement
      /\ IsFiniteSet(ledger)
    BY DEF CancellationOriginals, BooksInv, RowsKnown, LedgerInv, TypeOK
<1>5. IsFiniteSet(added)
  <2>1. IsFiniteSet(CancellationOriginals(d))
      BY <1>4, FS_Subset
  <2>2. added = {undo[m] : m \in CancellationOriginals(d)}
      BY <1>4
  <2> HIDE DEF undo, added
  <2> QED
      BY <2>1, <2>2, ImageFinite
<1>6. \A m \in added : m.is_reversal /\ KnownReversal(m)'
  <2>1. CancellationOriginals(d) \subseteq CancellationOriginals(d)'
      BY <1>1 DEF CancellationOriginals
  <2>2. \A m \in added : m.is_reversal
      BY <1>4, RowShapes
  <2> QED
      BY <1>2, <2>1, <2>2 DEF KnownReversal
<1>7. ASSUME NEW q \in Payment, NEW i \in Invoice
      PROVE /\ Allocated(q, i)' => Allocated(q, i)
            /\ Allocated(q, i)' /\ Cancelled(q)' =>
                   \/ Allocated(q, i) /\ Cancelled(q)
                   \/ Reversal(InvoiceSide(q, i, reference'[q][i]), q) \in added
            /\ reference'[q][i] > 0 => docstatus'[q] # "absent" /\ Posted(i)'
  <2>1. Allocated(q, i)' <=> Allocated(q, i)
      BY <1>1, <1>2, Kinds DEF Allocated
  <2>2. ASSUME Allocated(q, i), q = d
        PROVE Reversal(InvoiceSide(q, i, reference'[q][i]), q) \in added
    <3>1. reference[q][i] \in Int /\ InvoiceSide(q, i, reference[q][i]) \in ledger
        BY <2>2 DEF BooksInv, RowsKnown, LedgerInv, TypeOK, Application
    <3>2. InvoiceSide(q, i, reference[q][i]) \in CancellationOriginals(d)
        BY <2>2, <3>1, RowShapes DEF CancellationOriginals
    <3> QED
        BY <1>1, <2>2, <3>2
  <2>3. Cancelled(q)' => Cancelled(q) \/ q = d
      BY <1>2, Kinds
  <2>4. reference'[q][i] > 0 => docstatus'[q] # "absent" /\ Posted(i)'
      BY <1>1, <1>2, Kinds DEF BooksInv, RowsKnown
  <2> QED
      BY <2>1, <2>2, <2>3, <2>4
<1>8. \A x \in Document : Posted(x)' => Posted(x)
    BY <1>2
<1> HIDE DEF added
<1> QED
    BY <1>1, <1>3, <1>5, <1>6, <1>7, <1>8, AddingKeepsRowsKnown

\* The rows of the ledger are known in every reachable state.
LEMMA NextBooks == BooksInv /\ [Next]_vars => BooksInv'
<1> SUFFICES ASSUME BooksInv, [Next]_vars PROVE RowsKnown'
    BY NextLedger DEF BooksInv
<1>1. CASE \E i \in Invoice : SubmitInvoice(i)
    BY <1>1, SubmitInvoiceRows
<1>2. CASE \E i \in Invoice : CancelInvoice(i)
    BY <1>2, CancelRows, Kinds DEF CancelInvoice
<1>3. CASE \E p \in Payment : CreatePayment(p)
    BY <1>3, CreatePaymentRows
<1>4. CASE \E p \in Payment : SubmitPayment(p)
    BY <1>4, SubmitPaymentRows
<1>5. CASE \E p \in Payment : CancelPayment(p)
    BY <1>5, CancelRows, Kinds DEF CancelPayment
<1>6. CASE \E p \in Payment, i \in Invoice : ApplyPayment(p, i) \/ ApplyAdvance(p, i)
  <2>1. PICK p \in Payment, i \in Invoice : ApplyPayment(p, i) \/ ApplyAdvance(p, i)
      BY <1>6
  <2>2. GrandTotal[i] \in Nat
      BY Kinds
  <2>3. PICK amount \in 1 .. GrandTotal[i] : PostApplication(p, i, amount)
      BY <2>1 DEF ApplyPayment, ApplyAdvance
  <2>4. amount \in Nat /\ amount > 0 /\ Submitted(p) /\ Submitted(i)
      BY <2>1, <2>2 DEF ApplyPayment, ApplyAdvance
  <2> QED
      BY <2>3, <2>4, PostApplicationRows
<1>7. CASE UNCHANGED vars
  <2>1. UNCHANGED <<docstatus, reference, ledger>>
      BY <1>7 DEF vars
  <2> QED
      BY <2>1, QuietKeepsRowsKnown, Kinds DEF Posted, Cancelled, BooksInv, RowsKnown
<1> QED
    BY <1>1, <1>2, <1>3, <1>4, <1>5, <1>6, <1>7 DEF Next

-----------------------------------------------------------------------------
(* Balances                                                                *)

\* The signed amount of every row.
AmountOf == [m \in Movement |-> m.amount]

\* A balance is the sum of the amounts of the document's rows.
LEMMA BalanceIsSum ==
    ASSUME NEW rows \in SUBSET Movement, IsFiniteSet(rows), NEW d
    PROVE  /\ Balance(d, rows) = SumFunctionOnSet(AmountOf, RowsOf(d, rows))
           /\ Balance(d, rows) \in Int
<1> DEFINE S == RowsOf(d, rows)
           f == [m \in S |-> m.amount]
<1>1. S \in SUBSET rows /\ S \subseteq Movement
    BY DEF RowsOf
<1>2. IsFiniteSet(S)
    BY <1>1, FS_Subset
<1>3. \A m \in S : AmountOf[m] \in Int /\ AmountOf[m] = f[m]
    BY <1>1 DEF AmountOf, Movement
<1>4. Balance(d, rows) = SumFunctionOnSet(f, S)
    BY DEF Balance, SumFunction
<1> HIDE DEF S, f
<1>5. SumFunctionOnSet(AmountOf, S) = SumFunctionOnSet(f, S) /\ SumFunctionOnSet(AmountOf, S) \in Int
    BY <1>2, <1>3, SumSame, SumType
<1> QED
    BY <1>4, <1>5 DEF S

\* The ledger is a finite set of rows.
LEMMA LedgerFinite ==
    ASSUME BooksInv
    PROVE  ledger \in SUBSET Movement /\ IsFiniteSet(ledger)
BY DEF BooksInv, RowsKnown, LedgerInv, TypeOK

\* The amounts of the rows that the services build.
LEMMA AmountsOfRows ==
    /\ \A d \in Document : AmountOf[Opening(d)] = Signed(d)
    /\ \A p \in Payment, i \in Invoice, a \in Int :
         AmountOf[InvoiceSide(p, i, a)] = -a /\ AmountOf[PaymentSide(p, i, a)] = a
    /\ \A m \in Movement : AmountOf[m] \in Int
    /\ \A m \in Movement, d \in Document : AmountOf[Reversal(m, d)] = -AmountOf[m]
<1>1. \A m \in Movement : AmountOf[m] = m.amount /\ m.amount \in Int
    BY DEF AmountOf, Movement
<1> QED
    BY <1>1, MovementTypes, RowShapes

\* The references of one payment are integers, and so is their total.
LEMMA LinesTotalType ==
    ASSUME NEW lines \in [Invoice -> Nat]
    PROVE  LinesTotal(lines) = SumFunctionOnSet(lines, Invoice) /\ LinesTotal(lines) \in Nat
<1>1. LinesTotal(lines) = SumFunctionOnSet(lines, Invoice)
    BY DEF LinesTotal, SumFunction
<1> QED
    BY <1>1, FiniteKinds, SumNatural

\* The rows of an approved payment: its opening and its own side of each
\* application.
LEMMA PaymentRows ==
    ASSUME BooksInv, NEW p \in Payment, Submitted(p)
    PROVE  RowsOf(p, ledger) = {Opening(p)} \cup
               {PaymentSide(p, i, reference[p][i]) : i \in {j \in Invoice : reference[p][j] > 0}}
<1> DEFINE sides == {PaymentSide(p, i, reference[p][i]) : i \in {j \in Invoice : reference[p][j] > 0}}
<1>0. /\ \A q \in Payment, i \in Invoice : reference[q][i] \in Int
      /\ Posted(p) /\ ~Cancelled(p)
    BY DEF BooksInv, LedgerInv, TypeOK, Posted, Submitted, Cancelled
<1>1. ASSUME NEW m \in ledger, m.document = p, m.is_reversal PROVE FALSE
  <2>1. PICK d \in Document :
            Cancelled(d) /\ \E n \in CancellationOriginals(d) : m = Reversal(n, d)
      BY <1>1 DEF BooksInv, RowsKnown, KnownReversal
  <2>2. PICK n \in CancellationOriginals(d) : m = Reversal(n, d)
      BY <2>1
  <2>3. n \in ledger /\ n \in Movement /\ ~n.is_reversal
      BY LedgerFinite DEF CancellationOriginals
  <2>4. n.document = p
      BY <1>1, <2>2, <2>3, RowShapes
  <2>5. d # p
      BY <1>0, <2>1
  <2>6. d \in Payment /\ n.reference = d
      BY <2>4, <2>5 DEF CancellationOriginals
  <2>7. KnownOriginal(n)
      BY <2>3 DEF BooksInv, RowsKnown
  <2> QED
      BY <1>0, <2>4, <2>6, <2>7, RowShapes, Kinds DEF KnownOriginal, Application
<1>2. ASSUME NEW m \in ledger, m.document = p, ~m.is_reversal
      PROVE m \in {Opening(p)} \cup sides
  <2>1. KnownOriginal(m)
      BY <1>2 DEF BooksInv, RowsKnown
  <2>2. CASE \E d \in Document : Posted(d) /\ m = Opening(d)
      BY <1>2, <2>2, RowShapes
  <2>3. ASSUME NEW q \in Payment, NEW i \in Invoice, Allocated(q, i),
               m \in Application(q, i, reference[q][i])
        PROVE m \in sides
    <3>1. m = PaymentSide(q, i, reference[q][i]) /\ q = p
        BY <1>0, <1>2, <2>3, RowShapes, Kinds DEF Application
    <3> QED
        BY <2>3, <3>1 DEF Allocated
  <2> QED
      BY <2>1, <2>2, <2>3 DEF KnownOriginal
<1>3. ASSUME NEW m \in {Opening(p)} \cup sides PROVE m \in ledger /\ m.document = p
  <2>1. CASE m = Opening(p)
      BY <1>0, <2>1, RowShapes, Kinds DEF BooksInv, RowsKnown
  <2>2. CASE m \in sides
    <3>1. PICK i \in Invoice : reference[p][i] > 0 /\ m = PaymentSide(p, i, reference[p][i])
        BY <2>2
    <3> QED
        BY <1>0, <3>1, RowShapes DEF BooksInv, RowsKnown, Allocated, Application
  <2> QED
      BY <1>3, <2>1, <2>2
<1> HIDE DEF sides
<1> QED
    BY <1>1, <1>2, <1>3 DEF RowsOf, sides

\* The rows of an approved invoice: its opening, what approved and cancelled
\* payments credited, and what the cancelled ones took back.
LEMMA InvoiceRows ==
    ASSUME BooksInv, NEW i \in Invoice, Submitted(i)
    PROVE  RowsOf(i, ledger) = {Opening(i)}
               \cup {InvoiceSide(p, i, reference[p][i]) : p \in {q \in Payment : Allocated(q, i)}}
               \cup {Reversal(InvoiceSide(p, i, reference[p][i]), p) :
                        p \in {q \in Payment : Allocated(q, i) /\ Cancelled(q)}}
<1> DEFINE credits == {InvoiceSide(p, i, reference[p][i]) : p \in {q \in Payment : Allocated(q, i)}}
           returns == {Reversal(InvoiceSide(p, i, reference[p][i]), p) :
                          p \in {q \in Payment : Allocated(q, i) /\ Cancelled(q)}}
<1>0. /\ \A q \in Payment, j \in Invoice : reference[q][j] \in Int
      /\ Posted(i) /\ ~Cancelled(i)
    BY DEF BooksInv, LedgerInv, TypeOK, Posted, Submitted, Cancelled
<1>1. ASSUME NEW m \in ledger, m.document = i, ~m.is_reversal
      PROVE m \in {Opening(i)} \cup credits
  <2>1. KnownOriginal(m)
      BY <1>1 DEF BooksInv, RowsKnown
  <2>2. CASE \E d \in Document : Posted(d) /\ m = Opening(d)
      BY <1>1, <2>2, RowShapes
  <2>3. ASSUME NEW q \in Payment, NEW j \in Invoice, Allocated(q, j),
               m \in Application(q, j, reference[q][j])
        PROVE m \in credits
    <3>1. m = InvoiceSide(q, j, reference[q][j]) /\ j = i
        BY <1>0, <1>1, <2>3, RowShapes, Kinds DEF Application
    <3> QED
        BY <2>3, <3>1
  <2> QED
      BY <2>1, <2>2, <2>3 DEF KnownOriginal
<1>2. ASSUME NEW m \in ledger, m.document = i, m.is_reversal
      PROVE m \in returns
  <2>1. PICK d \in Document :
            Cancelled(d) /\ \E n \in CancellationOriginals(d) : m = Reversal(n, d)
      BY <1>2 DEF BooksInv, RowsKnown, KnownReversal
  <2>2. PICK n \in CancellationOriginals(d) : m = Reversal(n, d)
      BY <2>1
  <2>3. n \in ledger /\ n \in Movement /\ ~n.is_reversal
      BY LedgerFinite DEF CancellationOriginals
  <2>4. n.document = i
      BY <1>2, <2>2, <2>3, RowShapes
  <2>5. d # i
      BY <1>0, <2>1
  <2>6. d \in Payment /\ n.reference = d
      BY <2>4, <2>5 DEF CancellationOriginals
  <2>7. n \in {Opening(i)} \cup credits
      BY <1>1, <2>3, <2>4
  <2>8. n # Opening(i)
      BY <2>6, RowShapes, Kinds
  <2>9. PICK q \in Payment : Allocated(q, i) /\ n = InvoiceSide(q, i, reference[q][i])
      BY <2>7, <2>8
  <2>10. q = d
      BY <1>0, <2>6, <2>9, RowShapes
  <2> QED
      BY <2>1, <2>2, <2>6, <2>9, <2>10
<1>3. ASSUME NEW m \in {Opening(i)} \cup credits \cup returns PROVE m \in ledger /\ m.document = i
  <2>1. CASE m = Opening(i)
      BY <1>0, <2>1, RowShapes, Kinds DEF BooksInv, RowsKnown
  <2>2. CASE m \in credits
    <3>1. PICK q \in Payment : Allocated(q, i) /\ m = InvoiceSide(q, i, reference[q][i])
        BY <2>2
    <3> QED
        BY <1>0, <3>1, RowShapes DEF BooksInv, RowsKnown, Application
  <2>3. CASE m \in returns
    <3>1. PICK q \in Payment : /\ Allocated(q, i) /\ Cancelled(q)
                               /\ m = Reversal(InvoiceSide(q, i, reference[q][i]), q)
        BY <2>3
    <3>2. InvoiceSide(q, i, reference[q][i]) \in Movement
        BY <1>0, MovementTypes
    <3>3. m.document = i
        BY <1>0, <3>1, <3>2, RowShapes, Kinds
    <3> QED
        BY <3>1, <3>3 DEF BooksInv, RowsKnown
  <2> QED
      BY <1>3, <2>1, <2>2, <2>3
<1> HIDE DEF credits, returns
<1> QED
    BY <1>1, <1>2, <1>3 DEF RowsOf, credits, returns

\* What an approved payment has left is its total less its references.
LEMMA PaymentBalance ==
    ASSUME BooksInv, NEW p \in Payment, Submitted(p)
    PROVE  Balance(p, ledger) = LinesTotal(reference[p]) - GrandTotal[p]
<1> DEFINE T == {j \in Invoice : reference[p][j] > 0}
           at == [i \in Invoice |-> PaymentSide(p, i, reference[p][i])]
           sides == {at[i] : i \in T}
<1>0. reference[p] \in [Invoice -> Nat] /\ \A i \in Invoice : reference[p][i] \in Int
    BY DEF BooksInv, LedgerInv, TypeOK
<1>1. RowsOf(p, ledger) = {Opening(p)} \cup sides
  <2>1. sides = {PaymentSide(p, i, reference[p][i]) : i \in T}
      OBVIOUS
  <2> QED
      BY <2>1, PaymentRows
<1>2. \A i, j \in T : at[i] = at[j] => i = j
    BY <1>0, SidesDistinct
<1>3. \A i \in T : AmountOf[at[i]] \in Int /\ reference[p][i] = AmountOf[at[i]]
    BY <1>0, AmountsOfRows
<1>4. IsFiniteSet(T) /\ T \in SUBSET Invoice
    BY FiniteKinds
<1>5. Opening(p) \notin sides
    BY <1>0, RowShapes, Kinds
<1>6. sides \subseteq Movement /\ Opening(p) \in Movement
    BY <1>0, MovementTypes, Kinds
<1> HIDE DEF at
<1>7. IsFiniteSet(sides) /\ SumFunctionOnSet(AmountOf, sides) = SumFunctionOnSet(reference[p], T)
    BY <1>2, <1>3, <1>4, SumImage
<1>8. SumFunctionOnSet(reference[p], T) = LinesTotal(reference[p])
  <2>1. \A i \in Invoice \ T : reference[p][i] = 0
      BY <1>0
  <2>2. SumFunctionOnSet(reference[p], Invoice) = SumFunctionOnSet(reference[p], T)
      BY <1>0, <1>4, <2>1, FiniteKinds, SumWithoutZeros
  <2> QED
      BY <1>0, <2>2, LinesTotalType
<1> HIDE DEF sides
<1>9. SumFunctionOnSet(AmountOf, {Opening(p)} \cup sides)
          = Signed(p) + SumFunctionOnSet(AmountOf, sides)
  <2> DEFINE all == {Opening(p)} \cup sides
  <2>1. IsFiniteSet(all) /\ \A m \in all : AmountOf[m] \in Int
      BY <1>6, <1>7, FS_AddElement, AmountsOfRows
  <2>2. all \ {Opening(p)} = sides /\ Opening(p) \in all
      BY <1>5
  <2> HIDE DEF all
  <2>3. SumFunctionOnSet(AmountOf, all) = AmountOf[Opening(p)] + SumFunctionOnSet(AmountOf, sides)
      BY <2>1, <2>2, SumRemove
  <2> QED
      BY <2>3, AmountsOfRows, Kinds DEF all
<1>10. Balance(p, ledger) = Signed(p) + LinesTotal(reference[p])
    BY <1>1, <1>7, <1>8, <1>9, BalanceIsSum, LedgerFinite
<1>11. Signed(p) = -GrandTotal[p] /\ LinesTotal(reference[p]) \in Nat /\ GrandTotal[p] \in Nat
    BY <1>0, LinesTotalType, Kinds DEF Signed
<1> QED
    BY <1>10, <1>11

\* What the approved payments refer to of an invoice.
Settled(i) == SumFunction([p \in {q \in Payment : Submitted(q)} |-> reference[p][i]])

CreditTo(i) == [p \in Payment |-> reference[p][i]]

\* What is settled on an invoice is the sum of the references of the payments that
\* count, whichever of the two ways the code selects them.
LEMMA SettledIsSum ==
    ASSUME BooksInv, NEW i \in Invoice
    PROVE  /\ Settled(i) = SumFunctionOnSet(CreditTo(i), {q \in Payment : Submitted(q)})
           /\ Settled(i) = SumFunctionOnSet(CreditTo(i), {q \in Payment : Allocated(q, i) /\ ~Cancelled(q)})
           /\ Settled(i) \in Nat
<1> DEFINE S == {q \in Payment : Submitted(q)}
           L == {q \in Payment : Allocated(q, i) /\ ~Cancelled(q)}
           f == [p \in S |-> reference[p][i]]
<1>0. \A q \in Payment : reference[q][i] \in Nat
    BY DEF BooksInv, LedgerInv, TypeOK
<1>1. IsFiniteSet(S) /\ L \in SUBSET S
    BY FiniteKinds DEF Allocated, Posted, Cancelled, Submitted
<1>2. \A q \in S \ L : CreditTo(i)[q] = 0
    BY <1>0 DEF CreditTo, Allocated, Posted, Cancelled, Submitted
<1>3. \A q \in S : CreditTo(i)[q] \in Nat /\ CreditTo(i)[q] \in Int /\ CreditTo(i)[q] = f[q]
    BY <1>0 DEF CreditTo
<1>4. Settled(i) = SumFunctionOnSet(f, S)
    BY DEF Settled, SumFunction
<1> HIDE DEF f, S, L
<1>5. SumFunctionOnSet(CreditTo(i), S) = SumFunctionOnSet(f, S)
    BY <1>1, <1>3, SumSame
<1>6. SumFunctionOnSet(CreditTo(i), S) \in Nat
    BY <1>1, <1>3, SumNatural
<1>7. SumFunctionOnSet(CreditTo(i), S) = SumFunctionOnSet(CreditTo(i), L)
    BY <1>1, <1>2, <1>3, SumWithoutZeros
<1> QED
    BY <1>4, <1>5, <1>6, <1>7 DEF S, L

\* What is open of an approved invoice is its total less what the approved
\* payments refer to.
LEMMA InvoiceBalance ==
    ASSUME BooksInv, NEW i \in Invoice, Submitted(i)
    PROVE  Balance(i, ledger) = GrandTotal[i] - Settled(i)
<1> DEFINE C == {q \in Payment : Allocated(q, i)}
           K == {q \in Payment : Allocated(q, i) /\ Cancelled(q)}
           L == {q \in Payment : Allocated(q, i) /\ ~Cancelled(q)}
           credit == [p \in Payment |-> InvoiceSide(p, i, reference[p][i])]
           return == [p \in Payment |-> Reversal(InvoiceSide(p, i, reference[p][i]), p)]
           debit == [p \in Payment |-> -reference[p][i]]
           credits == {credit[p] : p \in C}
           returns == {return[p] : p \in K}
           Sum(S) == SumFunctionOnSet(AmountOf, S)
<1>0. \A q \in Payment, j \in Invoice : reference[q][j] \in Int
    BY DEF BooksInv, LedgerInv, TypeOK
<1>1. RowsOf(i, ledger) = {Opening(i)} \cup credits \cup returns
  <2>1. credits = {InvoiceSide(p, i, reference[p][i]) : p \in C}
      OBVIOUS
  <2>2. returns = {Reversal(InvoiceSide(p, i, reference[p][i]), p) : p \in K}
      OBVIOUS
  <2> QED
      BY <2>1, <2>2, InvoiceRows
<1>2. \A p \in Payment : /\ credit[p] \in Movement /\ return[p] \in Movement
                         /\ credit[p].voucher = p /\ return[p].voucher = p
                         /\ ~credit[p].is_reversal /\ return[p].is_reversal
                         /\ credit[p].kind = "allocation"
                         /\ AmountOf[credit[p]] = -reference[p][i]
                         /\ AmountOf[return[p]] = reference[p][i]
  <2> TAKE p \in Payment
  <2>1. reference[p][i] \in Int /\ p \in Document
      BY <1>0, Kinds
  <2>2. PICK m \in Movement : m = InvoiceSide(p, i, reference[p][i])
      BY <2>1, MovementTypes
  <2>3. credit[p] = m /\ return[p] = Reversal(m, p)
      BY <2>2
  <2>4. AmountOf[m] = -reference[p][i] /\ AmountOf[Reversal(m, p)] = reference[p][i]
      BY <2>1, <2>2, AmountsOfRows
  <2> QED
      BY <2>1, <2>2, <2>3, <2>4, RowShapes, MovementTypes
<1>3. Opening(i).kind = "opening" /\ ~Opening(i).is_reversal /\ Opening(i) \in Movement
    BY RowShapes, Kinds, MovementTypes
<1>4. /\ \A p, q \in C : credit[p] = credit[q] => p = q
      /\ \A p, q \in K : return[p] = return[q] => p = q
      /\ \A p \in C : AmountOf[credit[p]] \in Int /\ debit[p] = AmountOf[credit[p]]
      /\ \A p \in K : AmountOf[return[p]] \in Int /\ CreditTo(i)[p] = AmountOf[return[p]]
    BY <1>0, <1>2 DEF CreditTo
<1>5. IsFiniteSet(C) /\ IsFiniteSet(K) /\ IsFiniteSet(L) /\ C = K \cup L /\ K \cap L = {}
      /\ C \in SUBSET Payment
    BY FiniteKinds
<1>6. /\ Opening(i) \notin credits /\ credits \cap returns = {} /\ Opening(i) \notin returns
      /\ credits \subseteq Movement /\ returns \subseteq Movement
    BY <1>2, <1>3
<1>7. \A p \in C : /\ CreditTo(i)[p] \in Int /\ debit[p] = -CreditTo(i)[p] /\ debit[p] \in Int
    BY <1>0 DEF CreditTo
<1> HIDE DEF credit, return, debit
<1>8. /\ IsFiniteSet(credits) /\ Sum(credits) = SumFunctionOnSet(debit, C)
      /\ IsFiniteSet(returns) /\ Sum(returns) = SumFunctionOnSet(CreditTo(i), K)
  <2> HIDE DEF C, K
  <2>1. IsFiniteSet(credits) /\ Sum(credits) = SumFunctionOnSet(debit, C)
      BY <1>4, <1>5, SumImage
  <2>2. IsFiniteSet(returns) /\ Sum(returns) = SumFunctionOnSet(CreditTo(i), K)
      BY <1>4, <1>5, SumImage
  <2> QED
      BY <2>1, <2>2
<1>9. SumFunctionOnSet(debit, C) = -(SumFunctionOnSet(CreditTo(i), K) + SumFunctionOnSet(CreditTo(i), L))
  <2> HIDE DEF C, K, L
  <2>1. SumFunctionOnSet(debit, C) = -SumFunctionOnSet(CreditTo(i), C)
      BY <1>5, <1>7, SumNegated
  <2>2. SumFunctionOnSet(CreditTo(i), K \cup L)
            = SumFunctionOnSet(CreditTo(i), K) + SumFunctionOnSet(CreditTo(i), L)
      BY <1>5, <1>7, SumUnion
  <2> QED
      BY <1>5, <2>1, <2>2
<1>10. Settled(i) = SumFunctionOnSet(CreditTo(i), L) /\ Settled(i) \in Nat
    BY SettledIsSum
<1>11. SumFunctionOnSet(CreditTo(i), K) \in Int
  <2> HIDE DEF C, K, L
  <2> QED
      BY <1>5, <1>7, SumType
<1> HIDE DEF credits, returns, C, K, L
<1>12. Sum({Opening(i)} \cup credits \cup returns) = Signed(i) + (Sum(credits) + Sum(returns))
  <2> DEFINE all == {Opening(i)} \cup credits \cup returns
             rest == credits \cup returns
  <2>1. IsFiniteSet(rest)
      BY <1>8, UnionFinite
  <2>2. IsFiniteSet(all)
    <3>1. all = rest \cup {Opening(i)}
        OBVIOUS
    <3> HIDE DEF all, rest
    <3> QED
        BY <2>1, <3>1, FS_AddElement
  <2>3. \A m \in all : AmountOf[m] \in Int
      BY <1>3, <1>6, AmountsOfRows
  <2>4. all \ {Opening(i)} = rest /\ Opening(i) \in all
      BY <1>6
  <2>5. Sum(rest) = Sum(credits) + Sum(returns)
      BY <1>6, <1>8, <2>3, SumUnion
  <2> HIDE DEF all, rest
  <2>6. Sum(all) = AmountOf[Opening(i)] + Sum(rest)
      BY <2>2, <2>3, <2>4, SumRemove
  <2> QED
      BY <2>5, <2>6, AmountsOfRows, Kinds DEF all
<1>13. Balance(i, ledger) = Signed(i) + (Sum(credits) + Sum(returns))
    BY <1>1, <1>12, BalanceIsSum, LedgerFinite
<1>14. Signed(i) = GrandTotal[i] /\ GrandTotal[i] \in Nat
    BY Kinds DEF Signed
<1> HIDE DEF Sum
<1> QED
    BY <1>8, <1>9, <1>10, <1>11, <1>13, <1>14

-----------------------------------------------------------------------------
(* The cache of open items against the balances.                           *)

\* What is open of a payment is exactly what is left of it; of an invoice, at
\* least what is left of it.
ItemsMatchReferences ==
    /\ \A p \in Payment :
         /\ LinesTotal(reference[p]) <= GrandTotal[p]
         /\ Submitted(p) => open_item[p] = GrandTotal[p] - LinesTotal(reference[p])
    /\ \A i \in Invoice : Submitted(i) => GrandTotal[i] - Settled(i) <= open_item[i]

\* The inductive invariant of the open items.
ItemsInv == BooksInv /\ ItemsMatchReferences

\* Open items, references and settled amounts are naturals.
LEMMA ItemTypes ==
    ASSUME BooksInv
    PROVE  /\ \A d \in Document : open_item[d] \in Nat /\ open_item[d] <= GrandTotal[d]
           /\ \A p \in Payment : /\ reference[p] \in [Invoice -> Nat]
                                 /\ LinesTotal(reference[p]) \in Nat
           /\ \A i \in Invoice : Settled(i) \in Nat
<1>1. \A p \in Payment : reference[p] \in [Invoice -> Nat]
    BY DEF BooksInv, LedgerInv, TypeOK
<1>2. \A d \in Document : open_item[d] \in Nat /\ open_item[d] <= GrandTotal[d]
    BY DEF BooksInv, LedgerInv, TypeOK
<1> QED
    BY <1>1, <1>2, LinesTotalType, SettledIsSum

\* The sums as facts of every state, to use after a step as well.
StateSums ==
    /\ \A p \in Payment : LinesTotal(reference[p]) \in Nat
    /\ \A i \in Invoice :
         /\ Settled(i) \in Nat
         /\ Settled(i) = SumFunctionOnSet(CreditTo(i), {q \in Payment : Submitted(q)})

\* The sums of the current state, as lemmas about finite sums give them.
LEMMA SumsNow == BooksInv => StateSums
BY ItemTypes, SettledIsSum DEF StateSums

\* The same of the next state.
LEMMA SumsNext == BooksInv' => StateSums'
<1>1. (BooksInv => StateSums)'
    BY SumsNow, PTL
<1> QED
    BY <1>1

\* A step that touches no reference of a counted payment leaves what is settled.
LEMMA SettledUnchanged ==
    ASSUME NEW i \in Invoice,
           \A q \in Payment : Submitted(q)' <=> Submitted(q),
           \A q \in Payment : Submitted(q) => reference'[q][i] = reference[q][i]
    PROVE  Settled(i)' = Settled(i)
<1>1. {q \in Payment : Submitted(q)'} = {q \in Payment : Submitted(q)}
    OBVIOUS
<1>2. [p \in {q \in Payment : Submitted(q)'} |-> reference'[p][i]]
          = [p \in {q \in Payment : Submitted(q)} |-> reference[p][i]]
    BY <1>1
<1> QED
    BY <1>2 DEF Settled

\* The approval of a payment settles what it refers to.
LEMMA SettledWithPayment ==
    ASSUME BooksInv, BooksInv', NEW i \in Invoice, NEW p \in Payment, ~Submitted(p),
           \A q \in Payment : Submitted(q)' <=> Submitted(q) \/ q = p,
           UNCHANGED reference
    PROVE  Settled(i)' = Settled(i) + reference[p][i]
<1> DEFINE S == {q \in Payment : Submitted(q)}
           T == {q \in Payment : Submitted(q)'}
<1>1. T = S \cup {p} /\ p \notin S /\ T \in SUBSET Payment
    OBVIOUS
<1>2. Settled(i) = SumFunctionOnSet(CreditTo(i), S)
    BY SettledIsSum
<1>3. Settled(i)' = SumFunctionOnSet(CreditTo(i), T)
  <2>1. Settled(i)' = SumFunctionOnSet(CreditTo(i)', {q \in Payment : Submitted(q)'})
      BY SumsNext DEF StateSums
  <2>2. CreditTo(i)' = CreditTo(i)
      BY DEF CreditTo
  <2> QED
      BY <2>1, <2>2
<1>4. \A q \in Payment : CreditTo(i)[q] \in Int /\ CreditTo(i)[q] = reference[q][i]
    BY DEF CreditTo, BooksInv, LedgerInv, TypeOK
<1>5. IsFiniteSet(T) /\ T \ {p} = S /\ p \in T
    BY <1>1, FiniteKinds
<1> HIDE DEF S, T
<1>6. SumFunctionOnSet(CreditTo(i), T) = CreditTo(i)[p] + SumFunctionOnSet(CreditTo(i), S)
    BY <1>1, <1>4, <1>5, SumRemove
<1>7. Settled(i) \in Nat
    BY ItemTypes
<1> QED
    BY <1>2, <1>3, <1>4, <1>6, <1>7

\* A cancellation takes it back.
LEMMA SettledWithoutPayment ==
    ASSUME BooksInv, BooksInv', NEW i \in Invoice, NEW p \in Payment, Submitted(p),
           \A q \in Payment : Submitted(q)' <=> Submitted(q) /\ q # p,
           UNCHANGED reference
    PROVE  Settled(i)' = Settled(i) - reference[p][i]
<1> DEFINE S == {q \in Payment : Submitted(q)}
           T == {q \in Payment : Submitted(q)'}
<1>1. S = T \cup {p} /\ p \notin T /\ S \in SUBSET Payment
    OBVIOUS
<1>2. Settled(i) = SumFunctionOnSet(CreditTo(i), S)
    BY SettledIsSum
<1>3. Settled(i)' = SumFunctionOnSet(CreditTo(i), T)
  <2>1. Settled(i)' = SumFunctionOnSet(CreditTo(i)', {q \in Payment : Submitted(q)'})
      BY SumsNext DEF StateSums
  <2>2. CreditTo(i)' = CreditTo(i)
      BY DEF CreditTo
  <2> QED
      BY <2>1, <2>2
<1>4. \A q \in Payment : CreditTo(i)[q] \in Int /\ CreditTo(i)[q] = reference[q][i]
    BY DEF CreditTo, BooksInv, LedgerInv, TypeOK
<1>5. IsFiniteSet(S) /\ S \ {p} = T /\ p \in S
    BY <1>1, FiniteKinds
<1> HIDE DEF S, T
<1>6. SumFunctionOnSet(CreditTo(i), S) = CreditTo(i)[p] + SumFunctionOnSet(CreditTo(i), T)
    BY <1>1, <1>4, <1>5, SumRemove
<1>7. Settled(i)' \in Nat
    BY SumsNext DEF StateSums
<1> QED
    BY <1>2, <1>3, <1>4, <1>6, <1>7

\* An application settles its amount, of one invoice and with one payment.
LEMMA ApplicationSums ==
    ASSUME BooksInv, BooksInv', NEW i \in Invoice, NEW p \in Payment, NEW amount \in Nat,
           Submitted(p), UNCHANGED docstatus,
           reference[p][i] = 0, reference' = [reference EXCEPT ![p][i] = amount]
    PROVE  /\ Settled(i)' = Settled(i) + amount
           /\ LinesTotal(reference'[p]) = LinesTotal(reference[p]) + amount
<1>1. /\ reference[p] \in [Invoice -> Nat] /\ reference'[p] \in [Invoice -> Nat]
      /\ reference'[p][i] = amount
      /\ \A j \in Invoice \ {i} : reference'[p][j] = reference[p][j]
      /\ \A q \in Payment \ {p} : reference'[q][i] = reference[q][i]
      /\ \A q \in Payment : reference[q][i] \in Int /\ reference'[q][i] \in Int
    BY DEF BooksInv, LedgerInv, TypeOK
<1>2. LinesTotal(reference'[p]) = LinesTotal(reference[p]) + amount
  <2>1. IsFiniteSet(Invoice)
      BY FiniteKinds
  <2>2. \A j \in Invoice : reference[p][j] \in Int /\ reference'[p][j] \in Int
      BY <1>1
  <2>3. SumFunctionOnSet(reference'[p], Invoice)
            = SumFunctionOnSet(reference[p], Invoice) + (reference'[p][i] - reference[p][i])
      BY <1>1, <2>1, <2>2, SumUpdate
  <2>4. LinesTotal(reference[p]) = SumFunctionOnSet(reference[p], Invoice)
        /\ LinesTotal(reference'[p]) = SumFunctionOnSet(reference'[p], Invoice)
      BY <1>1, LinesTotalType
  <2>5. \A n \in Int : n + (amount - 0) = n + amount
      OBVIOUS
  <2>6. LinesTotal(reference[p]) \in Int
      BY <1>1, LinesTotalType
  <2> QED
      BY <1>1, <2>3, <2>4, <2>5, <2>6
<1>3. Settled(i)' = Settled(i) + amount
  <2> DEFINE S == {q \in Payment : Submitted(q)}
             f == CreditTo(i)
             g == [q \in Payment |-> reference'[q][i]]
  <2>1. IsFiniteSet(S) /\ p \in S /\ S \in SUBSET Payment
      BY FiniteKinds
  <2>2. \A q \in S : f[q] \in Int /\ g[q] \in Int
      BY <1>1 DEF CreditTo
  <2>3. (\A q \in S \ {p} : g[q] = f[q]) /\ g[p] = amount /\ f[p] = 0
      BY <1>1 DEF CreditTo
  <2>4. Settled(i) = SumFunctionOnSet(f, S)
      BY SettledIsSum
  <2>5. Settled(i)' = SumFunctionOnSet(g, S)
    <3>1. Settled(i)' = SumFunctionOnSet(CreditTo(i)', {q \in Payment : Submitted(q)'})
        BY SumsNext DEF StateSums
    <3>2. CreditTo(i)' = g /\ {q \in Payment : Submitted(q)'} = S
        BY DEF CreditTo, Submitted
    <3> QED
        BY <3>1, <3>2
  <2> HIDE DEF S, f, g
  <2>6. SumFunctionOnSet(g, S) = SumFunctionOnSet(f, S) + (g[p] - f[p])
      BY <2>1, <2>2, <2>3, SumUpdate
  <2>7. Settled(i) \in Nat
      BY ItemTypes
  <2> QED
      BY <2>3, <2>4, <2>5, <2>6, <2>7
<1> QED
    BY <1>2, <1>3

\* What the cancellation of an approved payment reverses: its opening and both
\* sides of each of its applications.
LEMMA PaymentOriginals ==
    ASSUME BooksInv, NEW p \in Payment, Submitted(p)
    PROVE  CancellationOriginals(p)
               = Added(p, {i \in Invoice : reference[p][i] > 0}, reference[p], {p})
<1> DEFINE T == {i \in Invoice : reference[p][i] > 0}
           sides == UNION {Application(p, i, reference[p][i]) : i \in T}
<1>0. /\ \A q \in Payment, j \in Invoice : reference[q][j] \in Int
      /\ Posted(p)
    BY DEF BooksInv, LedgerInv, TypeOK, Posted, Submitted
<1>1. Added(p, T, reference[p], {p}) = {Opening(p)} \cup sides
    BY DEF Added
<1>2. ASSUME NEW m \in CancellationOriginals(p) PROVE m \in {Opening(p)} \cup sides
  <2>1. m \in ledger /\ ~m.is_reversal /\ (m.document = p \/ m.reference = p)
      BY DEF CancellationOriginals
  <2>2. KnownOriginal(m)
      BY <2>1 DEF BooksInv, RowsKnown
  <2>3. CASE \E d \in Document : Posted(d) /\ m = Opening(d)
      BY <2>1, <2>3, RowShapes, Kinds
  <2>4. ASSUME NEW q \in Payment, NEW i \in Invoice, Allocated(q, i),
               m \in Application(q, i, reference[q][i])
        PROVE m \in sides
    <3>1. q = p
        BY <1>0, <2>1, <2>4, RowShapes, Kinds DEF Application
    <3> QED
        BY <2>4, <3>1 DEF Allocated
  <2> QED
      BY <2>2, <2>3, <2>4 DEF KnownOriginal
<1>3. ASSUME NEW m \in {Opening(p)} \cup sides PROVE m \in CancellationOriginals(p)
  <2>1. CASE m = Opening(p)
    <3>1. m \in ledger
        BY <1>0, <2>1, Kinds DEF BooksInv, RowsKnown
    <3> QED
        BY <2>1, <3>1, RowShapes, Kinds DEF CancellationOriginals
  <2>2. CASE m \in sides
    <3>1. PICK i \in T : m \in Application(p, i, reference[p][i])
        BY <2>2
    <3>2. m \in ledger
        BY <1>0, <3>1 DEF BooksInv, RowsKnown, Allocated
    <3>3. ~m.is_reversal /\ (m.document = p \/ m.reference = p)
        BY <1>0, <3>1, RowShapes DEF Application
    <3> QED
        BY <3>2, <3>3 DEF CancellationOriginals
  <2> QED
      BY <1>3, <2>1, <2>2
<1> HIDE DEF sides
<1> QED
    BY <1>1, <1>2, <1>3

\* Of the rows it reverses, those of another document: one of each invoice it
\* refers to, and no other payment's.
LEMMA PaymentOriginalsOf ==
    ASSUME BooksInv, NEW p \in Payment, Submitted(p)
    PROVE  /\ \A q \in Payment \ {p} : ~ \E m \in CancellationOriginals(p) : m.document = q
           /\ \A i \in Invoice :
                RowsOf(i, CancellationOriginals(p)) =
                    IF reference[p][i] > 0 THEN {InvoiceSide(p, i, reference[p][i])} ELSE {}
<1> DEFINE T == {i \in Invoice : reference[p][i] > 0}
<1>0. \A i \in Invoice : reference[p][i] \in Int
    BY DEF BooksInv, LedgerInv, TypeOK
<1>1. \A m : m \in CancellationOriginals(p) <=>
          m = Opening(p) \/ \E i \in T : m \in Application(p, i, reference[p][i])
    BY PaymentOriginals DEF Added
<1>2. \A m \in CancellationOriginals(p) : \A d \in Document \ {p} :
          m.document = d => d \in T /\ m = InvoiceSide(p, d, reference[p][d])
    BY <1>0, <1>1, RowShapes, Kinds DEF Application
<1>3. \A i \in T : /\ InvoiceSide(p, i, reference[p][i]) \in CancellationOriginals(p)
                   /\ InvoiceSide(p, i, reference[p][i]).document = i
    BY <1>0, <1>1, RowShapes DEF Application
<1>4. ASSUME NEW i \in Invoice
      PROVE RowsOf(i, CancellationOriginals(p)) =
                IF reference[p][i] > 0 THEN {InvoiceSide(p, i, reference[p][i])} ELSE {}
    BY <1>2, <1>3, Kinds DEF RowsOf
<1> QED
    BY <1>2, <1>4, Kinds

\* The cancellation of a payment gives an invoice back what it had settled, up
\* to the invoice's total.
LEMMA RestoredByPayment ==
    ASSUME BooksInv, NEW p \in Payment, Submitted(p), NEW i \in Invoice, reference[p][i] > 0
    PROVE  Restored(i, CancellationOriginals(p)) = Capped(i, open_item[i] + reference[p][i])
<1> DEFINE rows == CancellationOriginals(p)
           m == InvoiceSide(p, i, reference[p][i])
<1>0. reference[p][i] \in Int /\ open_item[i] \in Nat
    BY ItemTypes, Kinds DEF BooksInv, LedgerInv, TypeOK
<1>1. RowsOf(i, rows) = {m} /\ m.kind = "allocation" /\ m.amount = -reference[p][i]
    BY <1>0, PaymentOriginalsOf, RowShapes
<1>2. ~ \E n \in rows : n.document = i /\ n.kind = "opening"
    BY <1>1 DEF RowsOf
<1>3. GivenBack(i, rows) = reference[p][i]
  <2> DEFINE f == [n \in {m} |-> IF n.amount < 0 THEN -n.amount ELSE n.amount]
  <2>1. {n \in RowsOf(i, rows) : n.kind = "allocation"} = {m}
      BY <1>1
  <2>2. GivenBack(i, rows) = SumFunctionOnSet(f, {m})
      BY <2>1 DEF GivenBack, SumFunction
  <2>3. f[m] = reference[p][i]
      BY <1>0, <1>1
  <2> HIDE DEF f, m
  <2>4. f[m] \in Int
      BY <1>0, <2>3
  <2> QED
      BY <2>2, <2>3, <2>4, SumSingleton
<1> HIDE DEF rows
<1> QED
    BY <1>2, <1>3 DEF Restored, rows

-----------------------------------------------------------------------------
(* The cache stays with the references.                                    *)

\* With no document there is no open item.
LEMMA InitItems == Init => ItemsMatchReferences
<1> SUFFICES ASSUME Init PROVE ItemsMatchReferences
    OBVIOUS
<1>1. \A p \in Payment : /\ reference[p] \in [Invoice -> Nat]
                         /\ \A i \in Invoice : reference[p][i] = 0
    BY DEF Init
<1>2. \A p \in Payment : LinesTotal(reference[p]) = 0
    BY <1>1, FiniteKinds, LinesTotalType, SumZero
<1>3. \A d \in Document : ~Submitted(d)
    BY DEF Init, Submitted
<1> QED
    BY <1>2, <1>3, Kinds DEF ItemsMatchReferences

\* A submitted invoice is open for its grand total.
LEMMA SubmitInvoiceItems ==
    ASSUME ItemsInv, BooksInv', NEW i \in Invoice, SubmitInvoice(i)
    PROVE  ItemsMatchReferences'
<1>1. /\ docstatus[i] = "draft" /\ docstatus'[i] = "submitted"
      /\ \A d \in Document \ {i} : docstatus'[d] = docstatus[d]
      /\ UNCHANGED reference
      /\ open_item'[i] = GrandTotal[i]
      /\ \A d \in Document \ {i} : open_item'[d] = open_item[d]
    BY Kinds DEF SubmitInvoice, ItemsInv, BooksInv, LedgerInv, TypeOK
<1>2. \A p \in Payment : Submitted(p)' <=> Submitted(p)
    BY <1>1, Kinds DEF Submitted
<1>3. \A p \in Payment : /\ LinesTotal(reference'[p]) <= GrandTotal[p]
                         /\ Submitted(p)' => open_item'[p] = GrandTotal[p] - LinesTotal(reference'[p])
    BY <1>1, <1>2, Kinds DEF ItemsInv, ItemsMatchReferences
<1>4. ASSUME NEW j \in Invoice, Submitted(j)'
      PROVE GrandTotal[j] - Settled(j)' <= open_item'[j]
  <2>1. CASE j = i
    <3>1. Settled(i)' \in Nat /\ GrandTotal[i] \in Nat
        BY SumsNext, Kinds DEF StateSums
    <3> QED
        BY <1>1, <2>1, <3>1
  <2>2. CASE j # i
    <3>1. Submitted(j)
        BY <1>1, <1>4, <2>2, Kinds DEF Submitted
    <3>2. Settled(j)' = Settled(j)
        BY <1>1, <1>2, SettledUnchanged
    <3> QED
        BY <1>1, <2>2, <3>1, <3>2, Kinds DEF ItemsInv, ItemsMatchReferences
  <2> QED
      BY <2>1, <2>2
<1> QED
    BY <1>3, <1>4 DEF ItemsMatchReferences

\* A draft payment settles nothing.
LEMMA CreatePaymentItems ==
    ASSUME ItemsInv, BooksInv', NEW p \in Payment, CreatePayment(p)
    PROVE  ItemsMatchReferences'
<1>1. PICK lines \in Lines : LinesTotal(lines) <= GrandTotal[p]
                             /\ reference' = [reference EXCEPT ![p] = lines]
    BY DEF CreatePayment
<1>2. /\ docstatus[p] = "absent" /\ docstatus'[p] = "draft"
      /\ \A d \in Document \ {p} : docstatus'[d] = docstatus[d]
      /\ UNCHANGED open_item
      /\ reference'[p] = lines
      /\ \A q \in Payment \ {p} : reference'[q] = reference[q]
    BY <1>1, Kinds DEF CreatePayment, ItemsInv, BooksInv, LedgerInv, TypeOK
<1>3. \A d \in Document : /\ Submitted(d)' <=> Submitted(d)
                          /\ Submitted(d) => d # p
    BY <1>2 DEF Submitted
<1>4. \A q \in Payment : /\ LinesTotal(reference'[q]) <= GrandTotal[q]
                         /\ Submitted(q)' => open_item'[q] = GrandTotal[q] - LinesTotal(reference'[q])
    BY <1>1, <1>2, <1>3, Kinds DEF ItemsInv, ItemsMatchReferences
<1>5. \A i \in Invoice : Settled(i)' = Settled(i)
    BY <1>2, <1>3, Kinds, SettledUnchanged
<1> QED
    BY <1>2, <1>3, <1>4, <1>5, Kinds DEF ItemsInv, ItemsMatchReferences

\* Submitting a payment lowers each referenced invoice by what the payment now
\* settles on it, and opens what is left of the payment.
LEMMA SubmitPaymentItems ==
    ASSUME ItemsInv, BooksInv', NEW p \in Payment, SubmitPayment(p)
    PROVE  ItemsMatchReferences'
<1> DEFINE T == {i \in Invoice : reference[p][i] > 0}
<1>0. BooksInv
    BY DEF ItemsInv
<1>1. /\ docstatus[p] = "draft" /\ docstatus'[p] = "submitted"
      /\ \A d \in Document \ {p} : docstatus'[d] = docstatus[d]
      /\ UNCHANGED reference
    BY Kinds DEF SubmitPayment, ItemsInv, BooksInv, LedgerInv, TypeOK
<1>2. open_item' = [d \in Document |->
                      IF d = p THEN Decreased(GrandTotal[p], LinesTotal(reference[p]))
                      ELSE IF d \in T THEN Decreased(open_item[d], reference[p][d])
                      ELSE open_item[d]]
    BY <1>0, <1>1, DraftTargets DEF SubmitPayment
<1>3. \A d \in Document : (Submitted(d)' <=> Submitted(d) \/ d = p) /\ ~Submitted(p)
    BY <1>1 DEF Submitted
<1>4. /\ LinesTotal(reference[p]) \in Nat /\ LinesTotal(reference[p]) <= GrandTotal[p]
      /\ GrandTotal[p] \in Nat
    BY <1>0, ItemTypes, Kinds DEF ItemsInv, ItemsMatchReferences
<1>5. open_item'[p] = GrandTotal[p] - LinesTotal(reference'[p])
  <2>1. open_item'[p] = Decreased(GrandTotal[p], LinesTotal(reference[p]))
      BY <1>2, Kinds
  <2>2. LinesTotal(reference[p]) \in 0 .. GrandTotal[p]
      BY <1>4
  <2> QED
      BY <1>1, <2>1, <2>2 DEF Decreased
<1>6. \A q \in Payment : /\ LinesTotal(reference'[q]) <= GrandTotal[q]
                         /\ Submitted(q)' => open_item'[q] = GrandTotal[q] - LinesTotal(reference'[q])
  <2> TAKE q \in Payment
  <2>1. CASE q = p
      BY <1>1, <1>4, <1>5, <2>1
  <2>2. CASE q # p
      BY <1>1, <1>2, <1>3, <2>2, Kinds DEF ItemsInv, ItemsMatchReferences
  <2> QED
      BY <2>1, <2>2
<1>7. ASSUME NEW i \in Invoice, Submitted(i)'
      PROVE GrandTotal[i] - Settled(i)' <= open_item'[i]
  <2>1. Submitted(i) /\ i # p
      BY <1>3, <1>7, Kinds
  <2>2. Settled(i)' = Settled(i) + reference[p][i]
      BY <1>0, <1>1, <1>3, Kinds, SettledWithPayment
  <2>3. GrandTotal[i] - Settled(i) <= open_item[i]
      BY <2>1 DEF ItemsInv, ItemsMatchReferences
  <2>4. /\ Settled(i) \in Nat /\ open_item[i] \in Nat /\ GrandTotal[i] \in Nat
        /\ reference[p][i] \in Nat
      BY <1>0, ItemTypes, Kinds
  <2>5. CASE i \in T
    <3>1. open_item'[i] = Decreased(open_item[i], reference[p][i])
        BY <1>2, <2>1, <2>5, Kinds
    <3> QED
        BY <2>2, <2>3, <2>4, <3>1 DEF Decreased
  <2>6. CASE i \notin T
    <3>1. open_item'[i] = open_item[i] /\ reference[p][i] = 0
        BY <1>2, <2>1, <2>4, <2>6, Kinds
    <3> QED
        BY <2>2, <2>3, <2>4, <3>1
  <2> QED
      BY <2>5, <2>6
<1> QED
    BY <1>6, <1>7 DEF ItemsMatchReferences

\* An application lowers the invoice and the payment by what it adds to the
\* reference, both of which cover it.
LEMMA PostApplicationItems ==
    ASSUME ItemsInv, BooksInv', NEW p \in Payment, NEW i \in Invoice, NEW amount \in Nat,
           Submitted(p), Submitted(i), PostApplication(p, i, amount)
    PROVE  ItemsMatchReferences'
<1>0. BooksInv /\ p \in Document /\ i \in Document /\ p # i
    BY Kinds DEF ItemsInv
<1>1. /\ UNCHANGED docstatus /\ reference[p][i] = 0
      /\ reference' = [reference EXCEPT ![p][i] = amount]
      /\ amount <= open_item[i] /\ amount <= open_item[p]
    BY DEF PostApplication, ItemsCover
<1>2. \A d : Submitted(d)' <=> Submitted(d)
    BY <1>1 DEF Submitted
<1>3. /\ Settled(i)' = Settled(i) + amount
      /\ LinesTotal(reference'[p]) = LinesTotal(reference[p]) + amount
    BY <1>0, <1>1, ApplicationSums
<1>4. /\ open_item'[i] = Decreased(open_item[i], amount)
      /\ open_item'[p] = Decreased(open_item[p], amount)
      /\ \A d \in Document \ {i, p} : open_item'[d] = open_item[d]
    BY <1>0 DEF PostApplication, BooksInv, LedgerInv, TypeOK
<1>5. \A d \in Document : open_item[d] \in Nat /\ GrandTotal[d] \in Nat
    BY <1>0, ItemTypes, Kinds
<1>6. open_item'[i] = open_item[i] - amount /\ open_item'[p] = open_item[p] - amount
  <2>1. amount \in 0 .. open_item[i] /\ amount \in 0 .. open_item[p]
      BY <1>0, <1>1, <1>5
  <2> QED
      BY <1>4, <2>1 DEF Decreased
<1>7. \A q \in Payment \ {p} : reference'[q] = reference[q]
    BY <1>1 DEF ItemsInv, BooksInv, LedgerInv, TypeOK
<1>8. \A q \in Payment : /\ LinesTotal(reference'[q]) <= GrandTotal[q]
                         /\ Submitted(q)' => open_item'[q] = GrandTotal[q] - LinesTotal(reference'[q])
  <2> TAKE q \in Payment
  <2>1. CASE q = p
    <3>1. open_item[p] = GrandTotal[p] - LinesTotal(reference[p]) /\ LinesTotal(reference[p]) \in Nat
        BY <1>0, ItemTypes DEF ItemsInv, ItemsMatchReferences
    <3> QED
        BY <1>0, <1>1, <1>3, <1>5, <1>6, <2>1, <3>1
  <2>2. CASE q # p
      BY <1>2, <1>4, <1>7, <2>2, Kinds DEF ItemsInv, ItemsMatchReferences
  <2> QED
      BY <2>1, <2>2
<1>9. ASSUME NEW j \in Invoice, Submitted(j)'
      PROVE GrandTotal[j] - Settled(j)' <= open_item'[j]
  <2>1. GrandTotal[j] - Settled(j) <= open_item[j] /\ Settled(j) \in Nat
      BY <1>0, <1>2, <1>9, ItemTypes DEF ItemsInv, ItemsMatchReferences
  <2>2. CASE j = i
      BY <1>0, <1>3, <1>5, <1>6, <2>1, <2>2
  <2>3. CASE j # i
    <3>1. \A q \in Payment : reference'[q][j] = reference[q][j]
        BY <1>1, <2>3 DEF ItemsInv, BooksInv, LedgerInv, TypeOK
    <3>2. Settled(j)' = Settled(j)
        BY <1>2, <3>1, SettledUnchanged
    <3> QED
        BY <1>4, <2>1, <2>3, <3>2, Kinds
  <2> QED
      BY <2>2, <2>3
<1> QED
    BY <1>8, <1>9 DEF ItemsMatchReferences

\* Cancelling a payment gives back to every invoice what it had settled.
LEMMA CancelPaymentItems ==
    ASSUME ItemsInv, BooksInv', NEW p \in Payment, CancelPayment(p)
    PROVE  ItemsMatchReferences'
<1> DEFINE originals == CancellationOriginals(p)
<1>0. BooksInv /\ Submitted(p) /\ p \in Document
    BY Kinds DEF ItemsInv, CancelPayment, Cancel
<1>1. /\ docstatus'[p] = "cancelled"
      /\ \A d \in Document \ {p} : docstatus'[d] = docstatus[d]
      /\ UNCHANGED reference
    BY <1>0 DEF CancelPayment, Cancel, BooksInv, LedgerInv, TypeOK
<1>2. open_item' = [d \in Document |-> IF \E m \in originals : m.document = d
                                       THEN Restored(d, originals) ELSE open_item[d]]
    BY DEF CancelPayment, Cancel
<1>3. \A d \in Document : Submitted(d)' <=> Submitted(d) /\ d # p
    BY <1>1 DEF Submitted
<1>4. \A q \in Payment : /\ LinesTotal(reference'[q]) <= GrandTotal[q]
                         /\ Submitted(q)' => open_item'[q] = GrandTotal[q] - LinesTotal(reference'[q])
  <2> TAKE q \in Payment
  <2>1. q # p => open_item'[q] = open_item[q]
      BY <1>0, <1>2, PaymentOriginalsOf, Kinds
  <2> QED
      BY <1>1, <1>3, <2>1, Kinds DEF ItemsInv, ItemsMatchReferences
<1>5. ASSUME NEW i \in Invoice, Submitted(i)'
      PROVE GrandTotal[i] - Settled(i)' <= open_item'[i]
  <2>1. Submitted(i) /\ i \in Document
      BY <1>3, <1>5, Kinds
  <2>2. Settled(i)' = Settled(i) - reference[p][i]
      BY <1>0, <1>1, <1>3, Kinds, SettledWithoutPayment
  <2>3. GrandTotal[i] - Settled(i) <= open_item[i]
      BY <2>1 DEF ItemsInv, ItemsMatchReferences
  <2>4. /\ Settled(i) \in Nat /\ open_item[i] \in Nat /\ GrandTotal[i] \in Nat
        /\ reference[p][i] \in Nat /\ Settled(i)' \in Nat
      BY <1>0, ItemTypes, SumsNext, Kinds DEF StateSums
  <2>5. CASE reference[p][i] > 0
    <3>1. \E m \in originals : m.document = i
        BY <1>0, <2>5, PaymentOriginalsOf DEF RowsOf
    <3>2. open_item'[i] = Capped(i, open_item[i] + reference[p][i])
        BY <1>0, <1>2, <2>1, <2>5, <3>1, RestoredByPayment
    <3> QED
        BY <2>2, <2>3, <2>4, <3>2 DEF Capped
  <2>6. CASE reference[p][i] = 0
    <3>1. ~ \E m \in originals : m.document = i
        BY <1>0, <2>6, PaymentOriginalsOf DEF RowsOf
    <3>2. open_item'[i] = open_item[i]
        BY <1>2, <2>1, <3>1
    <3> QED
        BY <2>2, <2>3, <2>4, <2>6, <3>2
  <2> QED
      BY <2>4, <2>5, <2>6
<1> QED
    BY <1>4, <1>5 DEF ItemsMatchReferences

\* Cancelling an invoice is only possible while no approved payment refers to it.
LEMMA CancelInvoiceItems ==
    ASSUME ItemsInv, BooksInv', NEW i \in Invoice, CancelInvoice(i)
    PROVE  ItemsMatchReferences'
<1> DEFINE originals == CancellationOriginals(i)
<1>0. BooksInv /\ Submitted(i) /\ i \in Document /\ i \notin Payment
    BY Kinds DEF ItemsInv, CancelInvoice, Cancel
<1>1. /\ docstatus'[i] = "cancelled"
      /\ \A d \in Document \ {i} : docstatus'[d] = docstatus[d]
      /\ UNCHANGED reference
    BY <1>0 DEF CancelInvoice, Cancel, BooksInv, LedgerInv, TypeOK
<1>2. open_item' = [d \in Document |-> IF \E m \in originals : m.document = d
                                       THEN Restored(d, originals) ELSE open_item[d]]
    BY DEF CancelInvoice, Cancel
<1>3. \A d \in Document : Submitted(d)' <=> Submitted(d) /\ d # i
    BY <1>1 DEF Submitted
<1>4. \A d \in Document \ {i} : open_item'[d] = open_item[d]
    BY <1>0, <1>2 DEF CancellationOriginals
<1>5. \A q \in Payment : /\ LinesTotal(reference'[q]) <= GrandTotal[q]
                         /\ Submitted(q)' => open_item'[q] = GrandTotal[q] - LinesTotal(reference'[q])
    BY <1>0, <1>1, <1>3, <1>4, Kinds DEF ItemsInv, ItemsMatchReferences
<1>6. \A j \in Invoice : Settled(j)' = Settled(j)
    BY <1>0, <1>1, <1>3, Kinds, SettledUnchanged
<1>7. \A j \in Invoice : Submitted(j)' => GrandTotal[j] - Settled(j)' <= open_item'[j]
    BY <1>3, <1>4, <1>6, Kinds DEF ItemsInv, ItemsMatchReferences
<1> QED
    BY <1>5, <1>7 DEF ItemsMatchReferences

\* The rows and the cache stay what they should be in every step.
LEMMA NextItems == ItemsInv /\ [Next]_vars => ItemsInv'
<1> SUFFICES ASSUME ItemsInv, [Next]_vars PROVE ItemsMatchReferences'
    BY NextBooks DEF ItemsInv
<1>0. BooksInv /\ BooksInv'
    BY NextBooks DEF ItemsInv
<1>1. CASE \E i \in Invoice : SubmitInvoice(i)
    BY <1>0, <1>1, SubmitInvoiceItems
<1>2. CASE \E i \in Invoice : CancelInvoice(i)
    BY <1>0, <1>2, CancelInvoiceItems
<1>3. CASE \E p \in Payment : CreatePayment(p)
    BY <1>0, <1>3, CreatePaymentItems
<1>4. CASE \E p \in Payment : SubmitPayment(p)
    BY <1>0, <1>4, SubmitPaymentItems
<1>5. CASE \E p \in Payment : CancelPayment(p)
    BY <1>0, <1>5, CancelPaymentItems
<1>6. CASE \E p \in Payment, i \in Invoice : ApplyPayment(p, i) \/ ApplyAdvance(p, i)
  <2>1. PICK p \in Payment, i \in Invoice : ApplyPayment(p, i) \/ ApplyAdvance(p, i)
      BY <1>6
  <2>2. GrandTotal[i] \in Nat
      BY Kinds
  <2>3. PICK amount \in 1 .. GrandTotal[i] : PostApplication(p, i, amount)
      BY <2>1 DEF ApplyPayment, ApplyAdvance
  <2>4. amount \in Nat /\ Submitted(p) /\ Submitted(i)
      BY <2>1, <2>2 DEF ApplyPayment, ApplyAdvance
  <2> QED
      BY <1>0, <2>3, <2>4, PostApplicationItems
<1>7. CASE UNCHANGED vars
  <2>1. UNCHANGED <<docstatus, reference, open_item>>
      BY <1>7 DEF vars
  <2>2. \A d : Submitted(d)' <=> Submitted(d)
      BY <2>1 DEF Submitted
  <2>3. \A i \in Invoice : Settled(i)' = Settled(i)
      BY <2>1, <2>2, SettledUnchanged
  <2> QED
      BY <2>1, <2>2, <2>3 DEF ItemsInv, ItemsMatchReferences
<1> QED
    BY <1>1, <1>2, <1>3, <1>4, <1>5, <1>6, <1>7 DEF Next

\* The rows of the ledger are those the statuses and the references call for,
\* and the open items agree with them, in every reachable state.
THEOREM ItemsInvariant == Spec => []ItemsInv
<1>1. Init => ItemsInv
    BY InitLedger, InitRows, InitItems DEF ItemsInv, BooksInv
<1> QED
    BY <1>1, NextItems, PTL DEF Spec

-----------------------------------------------------------------------------
(* The properties that follow.                                             *)

\* The balances of all approved documents follow from the references of the
\* approved payments, whatever was applied, taken back and cancelled before.
THEOREM BalancesReconstructible == Spec => []BalanceReconstructible
<1>1. ItemsInv => BalanceReconstructible
    BY PaymentBalance, InvoiceBalance DEF ItemsInv, BalanceReconstructible, Settled
<1> QED
    BY <1>1, ItemsInvariant, PTL

\* No approved payment settles more than it brought, however the draft, the
\* reconciliation screen and the advance service interleave.
THEOREM PaymentsNeverOverspent == Spec => []PaymentNeverOverspent
<1>1. ItemsInv => PaymentNeverOverspent
  <2> SUFFICES ASSUME ItemsInv, NEW p \in Payment, Submitted(p)
               PROVE Balance(p, ledger) <= 0 /\ Balance(p, ledger) >= -GrandTotal[p]
      BY DEF PaymentNeverOverspent
  <2>1. /\ Balance(p, ledger) = LinesTotal(reference[p]) - GrandTotal[p]
        /\ LinesTotal(reference[p]) <= GrandTotal[p]
        /\ LinesTotal(reference[p]) \in Nat /\ GrandTotal[p] \in Nat
      BY PaymentBalance, ItemTypes, Kinds DEF ItemsInv, ItemsMatchReferences
  <2> QED
      BY <2>1
<1> QED
    BY <1>1, ItemsInvariant, PTL

\* What the services compute as applicable is always within the open items.
THEOREM CacheCovers == Spec => []CacheCoversBalance
<1>1. ItemsInv => CacheCoversBalance
  <2> SUFFICES ASSUME ItemsInv PROVE CacheCoversBalance
      OBVIOUS
  <2>0. BooksInv
      BY DEF ItemsInv
  <2>1. ASSUME NEW i \in Invoice, Submitted(i) PROVE Outstanding(i) <= open_item[i]
    <3> DEFINE pending == {p \in Payment : Unrepresented(p, i)}
               f == [p \in pending |-> reference[p][i]]
    <3>1. IsFiniteSet(pending) /\ \A p \in pending : f[p] \in Nat
        BY <2>0, FiniteKinds DEF BooksInv, LedgerInv, TypeOK
    <3>2. SumFunction(f) \in Nat
      <4>1. SumFunction(f) = SumFunctionOnSet(f, pending)
          BY DEF SumFunction
      <4> HIDE DEF f, pending
      <4> QED
          BY <3>1, <4>1, SumNatural
    <3>3. Outstanding(i) = IF Balance(i, ledger) - SumFunction(f) > 0
                           THEN Balance(i, ledger) - SumFunction(f) ELSE 0
        BY DEF Outstanding
    <3>4. /\ Balance(i, ledger) = GrandTotal[i] - Settled(i)
          /\ GrandTotal[i] - Settled(i) <= open_item[i]
        BY <2>0, <2>1, InvoiceBalance DEF ItemsInv, ItemsMatchReferences
    <3>5. /\ GrandTotal[i] \in Nat /\ Settled(i) \in Nat /\ open_item[i] \in Nat
        BY <2>0, ItemTypes, Kinds
    <3> HIDE DEF f
    <3> QED
        BY <3>2, <3>3, <3>4, <3>5
  <2>2. ASSUME NEW p \in Payment, Submitted(p) PROVE Unallocated(p) = open_item[p]
    <3>1. /\ Balance(p, ledger) = LinesTotal(reference[p]) - GrandTotal[p]
          /\ LinesTotal(reference[p]) <= GrandTotal[p]
          /\ open_item[p] = GrandTotal[p] - LinesTotal(reference[p])
          /\ LinesTotal(reference[p]) \in Nat /\ GrandTotal[p] \in Nat
        BY <2>0, <2>2, PaymentBalance, ItemTypes, Kinds DEF ItemsInv, ItemsMatchReferences
    <3> QED
        BY <3>1 DEF Unallocated
  <2> QED
      BY <2>1, <2>2 DEF CacheCoversBalance
<1> QED
    BY <1>1, ItemsInvariant, PTL

-----------------------------------------------------------------------------
(* The subledger against the control account.                              *)

SignedOf == [d \in Document |-> Signed(d)]

\* The balances of all documents add up to the amounts of all rows.
LEMMA SubledgerIsSum ==
    ASSUME NEW rows \in SUBSET Movement, IsFiniteSet(rows)
    PROVE  /\ SubledgerTotal(rows) = SumFunctionOnSet(AmountOf, rows)
           /\ SubledgerTotal(rows) \in Int
<1> DEFINE at == [m \in Movement |-> m.document]
           group == [d \in Document |-> RowsOf(d, rows)]
           g == [d \in Document |-> Balance(d, rows)]
<1>1. \A m \in rows : at[m] \in Document /\ AmountOf[m] \in Int
    BY AmountsOfRows DEF Movement
<1>2. \A d \in Document : /\ group[d] \subseteq rows
                          /\ \A m \in rows : m \in group[d] <=> at[m] = d
    BY DEF RowsOf
<1>3. \A d \in Document : g[d] = SumFunctionOnSet(AmountOf, group[d])
    BY BalanceIsSum
<1>4. SubledgerTotal(rows) = SumFunctionOnSet(g, Document)
    BY DEF SubledgerTotal, SumFunction
<1>5. IsFiniteSet(Document)
    BY FiniteKinds
<1> HIDE DEF at, g, group
<1>6. SumFunctionOnSet(g, Document) = SumFunctionOnSet(AmountOf, rows)
    BY <1>1, <1>2, <1>5, <1>3, SumByGroup
<1> QED
    BY <1>1, <1>4, <1>6, SumType

\* The control account holds the amounts of the approved documents.
LEMMA ControlIsSum ==
    ASSUME NEW status
    PROVE  LET S == {d \in Document : status[d] = "submitted"}
           IN GLTotal(status) = SumFunctionOnSet(SignedOf, S) /\ GLTotal(status) \in Int
<1> DEFINE S == {d \in Document : status[d] = "submitted"}
           f == [d \in S |-> Signed(d)]
<1>1. GLTotal(status) = SumFunctionOnSet(f, S)
    BY DEF GLTotal, SumFunction
<1>2. \A d \in S : SignedOf[d] \in Int /\ SignedOf[d] = f[d]
    BY Kinds DEF SignedOf
<1>3. IsFiniteSet(S)
    BY FiniteKinds
<1> HIDE DEF S, f
<1>4. SumFunctionOnSet(SignedOf, S) = SumFunctionOnSet(f, S) /\ SumFunctionOnSet(SignedOf, S) \in Int
    BY <1>2, <1>3, SumSame, SumType
<1> QED
    BY <1>1, <1>4 DEF S

\* The sum over one row is its amount.
LEMMA AmountAlone == \A m \in Movement : SumFunctionOnSet(AmountOf, {m}) = AmountOf[m]
<1>1. \A m \in Movement : AmountOf[m] \in Int
    BY AmountsOfRows
<1> QED
    BY <1>1, SumSingleton, Zenon

\* A document that is approved enters the control account.
LEMMA ControlGains ==
    ASSUME NEW d \in Document, NEW before, NEW after, before[d] # "submitted",
           \A x \in Document : after[x] = "submitted" <=> before[x] = "submitted" \/ x = d
    PROVE  GLTotal(after) = GLTotal(before) + Signed(d)
<1> DEFINE S == {x \in Document : before[x] = "submitted"}
           T == {x \in Document : after[x] = "submitted"}
<1>1. T \ {d} = S /\ d \in T /\ IsFiniteSet(T)
    BY FiniteKinds
<1>2. /\ GLTotal(before) = SumFunctionOnSet(SignedOf, S) /\ GLTotal(before) \in Int
      /\ GLTotal(after) = SumFunctionOnSet(SignedOf, T)
    BY ControlIsSum
<1>3. \A x \in T : SignedOf[x] \in Int
    BY Kinds DEF SignedOf
<1>4. SignedOf[d] = Signed(d) /\ Signed(d) \in Int
    BY Kinds DEF SignedOf
<1> HIDE DEF S, T
<1>5. SumFunctionOnSet(SignedOf, T) = SignedOf[d] + SumFunctionOnSet(SignedOf, T \ {d})
    BY <1>1, <1>3, SumRemove
<1>6. GLTotal(after) = Signed(d) + GLTotal(before)
    BY <1>1, <1>2, <1>4, <1>5, Zenon
<1>7. \A m, n \in Int : m + n = n + m
    OBVIOUS
<1> QED
    BY <1>2, <1>4, <1>6, <1>7, Zenon

\* New rows add their amounts to the subledger.
LEMMA SubledgerGains ==
    ASSUME BooksInv, NEW added \in SUBSET Movement, IsFiniteSet(added), added \cap ledger = {},
           ledger' = ledger \cup added
    PROVE  /\ SubledgerTotal(ledger') = SubledgerTotal(ledger) + SumFunctionOnSet(AmountOf, added)
           /\ SumFunctionOnSet(AmountOf, added) \in Int /\ SubledgerTotal(ledger) \in Int
<1>1. ledger \in SUBSET Movement /\ IsFiniteSet(ledger)
    BY LedgerFinite
<1>2. ledger' \in SUBSET Movement /\ IsFiniteSet(ledger')
    BY <1>1, UnionFinite
<1>3. \A m \in ledger \cup added : AmountOf[m] \in Int
    BY <1>1, AmountsOfRows
<1>4. SumFunctionOnSet(AmountOf, ledger \cup added)
          = SumFunctionOnSet(AmountOf, ledger) + SumFunctionOnSet(AmountOf, added)
    BY <1>1, <1>3, SumUnion
<1>5. SumFunctionOnSet(AmountOf, added) \in Int
    BY <1>3, SumType
<1> QED
    BY <1>1, <1>2, <1>4, <1>5, SubledgerIsSum

\* The two sides of applications add up to nothing: the rows of a payment and
\* of its applications amount to the payment.
LEMMA AddedAmounts ==
    ASSUME NEW p \in Payment, NEW T \in SUBSET Invoice, NEW amount \in [Invoice -> Int]
    PROVE  SumFunctionOnSet(AmountOf, Added(p, T, amount, {p})) = Signed(p)
<1> DEFINE invoice == [i \in Invoice |-> InvoiceSide(p, i, amount[i])]
           payment == [i \in Invoice |-> PaymentSide(p, i, amount[i])]
           minus == [i \in Invoice |-> -amount[i]]
           I == {invoice[i] : i \in T}
           P == {payment[i] : i \in T}
           Sum(S) == SumFunctionOnSet(AmountOf, S)
<1>1. IsFiniteSet(T) /\ \A i \in T : amount[i] \in Int /\ minus[i] = -amount[i]
    BY FiniteKinds
<1>2. /\ \A i, j \in T : invoice[i] = invoice[j] => i = j
      /\ \A i, j \in T : payment[i] = payment[j] => i = j
    BY <1>1, SidesDistinct
<1>3. /\ \A i \in T : AmountOf[invoice[i]] \in Int /\ minus[i] = AmountOf[invoice[i]]
      /\ \A i \in T : AmountOf[payment[i]] \in Int /\ amount[i] = AmountOf[payment[i]]
    BY <1>1, AmountsOfRows
<1>4. Added(p, T, amount, {p}) = {Opening(p)} \cup (I \cup P)
  <2>1. I = {InvoiceSide(p, i, amount[i]) : i \in T} /\ P = {PaymentSide(p, i, amount[i]) : i \in T}
      OBVIOUS
  <2>2. UNION {Application(p, i, amount[i]) : i \in T} =
            {InvoiceSide(p, i, amount[i]) : i \in T} \cup {PaymentSide(p, i, amount[i]) : i \in T}
      BY DEF Application
  <2> QED
      BY <2>1, <2>2 DEF Added
<1>5. I \cap P = {} /\ Opening(p) \notin I \cup P
  <2>1. \A i \in T : /\ invoice[i].kind = "allocation" /\ invoice[i].document \in Invoice
                     /\ payment[i].kind = "allocation" /\ payment[i].document = p
      BY <1>1, RowShapes
  <2> HIDE DEF invoice, payment
  <2>2. /\ \A m \in I : m.kind = "allocation" /\ m.document \in Invoice
        /\ \A m \in P : m.kind = "allocation" /\ m.document = p
      BY <2>1
  <2>3. Opening(p).kind = "opening"
      BY RowShapes, Kinds
  <2> HIDE DEF I, P
  <2> QED
      BY <2>2, <2>3, Kinds
<1>6. I \cup P \subseteq Movement /\ Opening(p) \in Movement
  <2>1. \A i \in T : invoice[i] \in Movement /\ payment[i] \in Movement
      BY <1>1, MovementTypes
  <2> HIDE DEF invoice, payment
  <2> QED
      BY <2>1, MovementTypes, Kinds
<1> HIDE DEF invoice, payment, minus
<1>7. IsFiniteSet(I) /\ Sum(I) = SumFunctionOnSet(minus, T)
    BY <1>1, <1>2, <1>3, SumImage
<1>8. IsFiniteSet(P) /\ Sum(P) = SumFunctionOnSet(amount, T)
    BY <1>1, <1>2, <1>3, SumImage
<1>9. SumFunctionOnSet(minus, T) = -SumFunctionOnSet(amount, T) /\ SumFunctionOnSet(amount, T) \in Int
    BY <1>1, SumNegated, SumType
<1> HIDE DEF I, P
<1>10. Sum(I \cup P) = Sum(I) + Sum(P)
  <2>1. \A m \in I \cup P : AmountOf[m] \in Int
      BY <1>6, AmountsOfRows
  <2> QED
      BY <1>5, <1>7, <1>8, <2>1, SumUnion
<1>11. Sum({Opening(p)} \cup (I \cup P)) = Signed(p) + Sum(I \cup P)
  <2> DEFINE rest == I \cup P
             all == {Opening(p)} \cup rest
  <2>1. IsFiniteSet(rest)
      BY <1>7, <1>8, UnionFinite
  <2>2. IsFiniteSet(all)
      BY <2>1, FS_Singleton, UnionFinite
  <2>3. \A m \in all : AmountOf[m] \in Int
      BY <1>6, AmountsOfRows
  <2>4. all \ {Opening(p)} = rest /\ Opening(p) \in all
      BY <1>5
  <2> HIDE DEF all, rest
  <2>5. Sum(all) = AmountOf[Opening(p)] + Sum(rest)
      BY <2>2, <2>3, <2>4, SumRemove
  <2> QED
      BY <2>5, AmountsOfRows, Kinds DEF all, rest
<1>12. Signed(p) \in Int
    BY Kinds
<1> HIDE DEF Sum
<1> QED
    BY <1>4, <1>7, <1>8, <1>9, <1>10, <1>11, <1>12 DEF Sum

\* Submitting an invoice keeps ledger and documents reconciled: one more opening
\* row.
LEMMA SubmitInvoiceReconciled ==
    ASSUME BooksInv, NEW i \in Invoice, SubmitInvoice(i), Reconciled(docstatus, ledger)
    PROVE  Reconciled(docstatus', ledger')
<1>1. /\ i \in Document /\ docstatus[i] = "draft" /\ docstatus'[i] = "submitted"
      /\ \A d \in Document \ {i} : docstatus'[d] = docstatus[d]
      /\ ledger' = ledger \cup {Opening(i)}
    BY Kinds DEF SubmitInvoice, BooksInv, LedgerInv, TypeOK
<1>2. Opening(i) \notin ledger /\ Opening(i) \in Movement
    BY <1>1, OpeningPosted, MovementTypes DEF Posted
<1>3. GLTotal(docstatus') = GLTotal(docstatus) + Signed(i)
    BY <1>1, ControlGains
<1>4. SumFunctionOnSet(AmountOf, {Opening(i)}) = Signed(i)
    BY <1>1, <1>2, AmountsOfRows, AmountAlone
<1>5. SubledgerTotal(ledger') = SubledgerTotal(ledger) + Signed(i)
  <2>1. IsFiniteSet({Opening(i)}) /\ {Opening(i)} \in SUBSET Movement /\ {Opening(i)} \cap ledger = {}
      BY <1>2, FS_Singleton
  <2>2. SubledgerTotal(ledger') = SubledgerTotal(ledger) + SumFunctionOnSet(AmountOf, {Opening(i)})
      BY <1>1, <2>1, SubledgerGains
  <2> QED
      BY <1>4, <2>2
<1> QED
    BY <1>3, <1>5 DEF Reconciled

\* The two sides of each reference cancel out; only the opening row counts.
LEMMA SubmitPaymentReconciled ==
    ASSUME BooksInv, NEW p \in Payment, SubmitPayment(p), Reconciled(docstatus, ledger)
    PROVE  Reconciled(docstatus', ledger')
<1> DEFINE T == {i \in Invoice : reference[p][i] > 0}
           added == Added(p, T, reference[p], {p})
<1>1. /\ p \in Document /\ docstatus[p] = "draft" /\ docstatus'[p] = "submitted"
      /\ \A d \in Document \ {p} : docstatus'[d] = docstatus[d]
      /\ reference[p] \in [Invoice -> Int]
    BY Kinds DEF SubmitPayment, BooksInv, LedgerInv, TypeOK
<1>2. ledger' = ledger \cup added
    BY <1>1, DraftTargets DEF SubmitPayment, Added
<1>3. added \cap ledger = {}
  <2> SUFFICES ASSUME NEW m \in added, m \in ledger PROVE FALSE
      OBVIOUS
  <2>1. m # Opening(p)
      BY <1>1, OpeningPosted DEF Posted
  <2>2. PICK i \in T : m \in Application(p, i, reference[p][i])
      BY <2>1 DEF Added
  <2>3. Allocated(p, i)
      BY <1>1, <2>2, OriginalAmounts DEF Application
  <2> QED
      BY <1>1, <2>3 DEF Allocated, Posted
<1>4. added \in SUBSET Movement /\ IsFiniteSet(added)
  <2>1. T \in SUBSET Invoice /\ {p} \in SUBSET Document
      BY <1>1
  <2> HIDE DEF T
  <2> QED
      BY <1>1, <2>1, ApplicationsAreWhole, AddedFinite
<1>5. SumFunctionOnSet(AmountOf, added) = Signed(p)
    BY <1>1, AddedAmounts
<1> HIDE DEF added
<1>6. SubledgerTotal(ledger') = SubledgerTotal(ledger) + Signed(p)
    BY <1>2, <1>3, <1>4, <1>5, SubledgerGains
<1>7. GLTotal(docstatus') = GLTotal(docstatus) + Signed(p)
    BY <1>1, ControlGains
<1> QED
    BY <1>6, <1>7 DEF Reconciled

\* The two sides of an application cancel out.
LEMMA PostApplicationReconciled ==
    ASSUME BooksInv, NEW p \in Payment, NEW i \in Invoice, NEW amount \in Nat,
           PostApplication(p, i, amount), Reconciled(docstatus, ledger)
    PROVE  Reconciled(docstatus', ledger')
<1> DEFINE m == InvoiceSide(p, i, amount)
           n == PaymentSide(p, i, amount)
<1>1. /\ UNCHANGED docstatus /\ reference[p][i] = 0 /\ ledger' = ledger \cup ({m} \cup {n})
    BY DEF PostApplication, Application
<1>2. m # n /\ m \in Movement /\ n \in Movement /\ AmountOf[m] = -amount /\ AmountOf[n] = amount
    BY SidesDistinct, MovementTypes, AmountsOfRows
<1>3. m \notin ledger /\ n \notin ledger
    BY <1>1, OriginalAmounts DEF Allocated
<1> HIDE DEF m, n
<1>4. IsFiniteSet({m}) /\ IsFiniteSet({n})
    BY FS_Singleton
<1>5. SumFunctionOnSet(AmountOf, {m} \cup {n}) = 0
  <2>1. SumFunctionOnSet(AmountOf, {m}) = -amount /\ SumFunctionOnSet(AmountOf, {n}) = amount
      BY <1>2, AmountAlone
  <2>2. {m} \cap {n} = {} /\ \A x \in {m} \cup {n} : AmountOf[x] \in Int
      BY <1>2
  <2>3. SumFunctionOnSet(AmountOf, {m} \cup {n})
            = SumFunctionOnSet(AmountOf, {m}) + SumFunctionOnSet(AmountOf, {n})
      BY <1>4, <2>2, SumUnion
  <2> QED
      BY <2>1, <2>3
<1>6. SubledgerTotal(ledger') = SubledgerTotal(ledger) + 0 /\ SubledgerTotal(ledger) \in Int
  <2> DEFINE added == {m} \cup {n}
  <2>1. added \in SUBSET Movement /\ added \cap ledger = {} /\ ledger' = ledger \cup added
      BY <1>1, <1>2, <1>3
  <2>2. IsFiniteSet(added)
      BY <1>4, UnionFinite
  <2> HIDE DEF added
  <2>3. SubledgerTotal(ledger') = SubledgerTotal(ledger) + SumFunctionOnSet(AmountOf, added)
        /\ SubledgerTotal(ledger) \in Int
      BY <2>1, <2>2, SubledgerGains
  <2> QED
      BY <1>5, <2>3 DEF added
<1> QED
    BY <1>1, <1>6 DEF Reconciled

\* What a cancellation writes takes back the amounts it reverses.
LEMMA CancellationGains ==
    ASSUME BooksInv, NEW d \in Document, Submitted(d),
           ledger' = ledger \cup {Reversal(m, d) : m \in CancellationOriginals(d)},
           \A m \in CancellationOriginals(d) : m.voucher = d
    PROVE  /\ SubledgerTotal(ledger')
                  = SubledgerTotal(ledger) - SumFunctionOnSet(AmountOf, CancellationOriginals(d))
           /\ SumFunctionOnSet(AmountOf, CancellationOriginals(d)) \in Int
           /\ SubledgerTotal(ledger) \in Int
<1> DEFINE O == CancellationOriginals(d)
           undo == [m \in Movement |-> Reversal(m, d)]
           back == [m \in Movement |-> -AmountOf[m]]
           added == {undo[m] : m \in O}
<1>1. IsFiniteSet(O) /\ O \subseteq Movement /\ \A m \in O : ~m.is_reversal
  <2>1. O \in SUBSET ledger
      BY DEF CancellationOriginals
  <2> QED
      BY <2>1, LedgerFinite, FS_Subset DEF CancellationOriginals
<1>2. \A m, n \in O : undo[m] = undo[n] => m = n
  <2> SUFFICES ASSUME NEW m \in O, NEW n \in O, undo[m] = undo[n] PROVE m = n
      OBVIOUS
  <2>1. Reversal(m, d) = Reversal(n, d)
      BY <1>1
  <2>2. /\ m.document = n.document /\ m.kind = n.kind /\ m.reference = n.reference
        /\ -m.amount = -n.amount
      BY <1>1, <2>1, RowShapes
  <2>3. m.amount \in Int /\ n.amount \in Int /\ m \in Movement /\ n \in Movement
      BY <1>1 DEF Movement
  <2>4. m.amount = n.amount
      BY <2>2, <2>3
  <2>5. m.voucher = n.voucher /\ m.is_reversal = n.is_reversal
      BY <1>1, <2>3 DEF Movement
  <2> QED
      BY <2>2, <2>3, <2>4, <2>5 DEF Movement
<1>3. \A m \in O : /\ AmountOf[undo[m]] \in Int /\ back[m] = AmountOf[undo[m]]
                   /\ AmountOf[m] \in Int /\ back[m] = -AmountOf[m]
  <2> TAKE m \in O
  <2>1. m \in Movement /\ AmountOf[m] \in Int /\ AmountOf[Reversal(m, d)] = -AmountOf[m]
      BY <1>1, AmountsOfRows
  <2> QED
      BY <2>1
<1>4. added = {Reversal(m, d) : m \in O} /\ added \in SUBSET Movement
    BY <1>1, MovementTypes
<1>5. added \cap ledger = {}
    BY <1>1, <1>4, ReversalCancelled DEF Submitted, Cancelled
<1> HIDE DEF O, undo, back
<1>6. IsFiniteSet(added) /\ SumFunctionOnSet(AmountOf, added) = SumFunctionOnSet(back, O)
    BY <1>1, <1>2, <1>3, SumImage
<1>7. SumFunctionOnSet(back, O) = -SumFunctionOnSet(AmountOf, O) /\ SumFunctionOnSet(AmountOf, O) \in Int
    BY <1>1, <1>3, SumNegated, SumType
<1>8. ledger' = ledger \cup added
    BY <1>4 DEF O
<1> HIDE DEF added
<1>9. /\ SubledgerTotal(ledger') = SubledgerTotal(ledger) + SumFunctionOnSet(AmountOf, added)
      /\ SubledgerTotal(ledger) \in Int
    BY <1>4, <1>5, <1>6, <1>8, SubledgerGains
<1> QED
    BY <1>6, <1>7, <1>9 DEF O

\* A cancellation that reverses every row of the document takes all of it away.
LEMMA CancelPaymentReconciled ==
    ASSUME BooksInv, NEW p \in Payment, CancelPayment(p), Reconciled(docstatus, ledger)
    PROVE  Reconciled(docstatus', ledger')
<1> DEFINE T == {i \in Invoice : reference[p][i] > 0}
<1>1. /\ p \in Document /\ Submitted(p) /\ docstatus'[p] = "cancelled"
      /\ \A d \in Document \ {p} : docstatus'[d] = docstatus[d]
      /\ reference[p] \in [Invoice -> Int]
      /\ ledger' = ledger \cup {Reversal(m, p) : m \in CancellationOriginals(p)}
    BY Kinds DEF CancelPayment, Cancel, BooksInv, LedgerInv, TypeOK
<1>2. CancellationOriginals(p) = Added(p, T, reference[p], {p})
    BY <1>1, PaymentOriginals
<1>3. \A m \in CancellationOriginals(p) : m.voucher = p
    BY <1>1, <1>2, RowShapes DEF Added, Application
<1>4. SumFunctionOnSet(AmountOf, CancellationOriginals(p)) = Signed(p)
    BY <1>1, <1>2, AddedAmounts
<1>5. SubledgerTotal(ledger') = SubledgerTotal(ledger) - Signed(p) /\ SubledgerTotal(ledger) \in Int
    BY <1>1, <1>3, <1>4, CancellationGains
<1>6. GLTotal(docstatus) = GLTotal(docstatus') + Signed(p)
    BY <1>1, ControlGains DEF Submitted
<1>7. Signed(p) \in Int /\ GLTotal(docstatus') \in Int
    BY Kinds, ControlIsSum
<1> QED
    BY <1>5, <1>6, <1>7 DEF Reconciled

\* An invoice without an applied payment, cancelled or not, has its opening
\* and nothing else to reverse.
LEMMA CancelInvoiceReconciled ==
    ASSUME BooksInv, NEW i \in Invoice, CancelInvoice(i), Reconciled(docstatus, ledger),
           \A p \in Payment : Cancelled(p) => ~Applied(p, i)
    PROVE  Reconciled(docstatus', ledger')
<1>1. /\ i \in Document /\ i \notin Payment /\ Submitted(i) /\ docstatus'[i] = "cancelled"
      /\ \A d \in Document \ {i} : docstatus'[d] = docstatus[d]
      /\ ledger' = ledger \cup {Reversal(m, i) : m \in CancellationOriginals(i)}
      /\ \A p \in Payment : Submitted(p) => reference[p][i] = 0
    BY Kinds DEF CancelInvoice, Cancel, BooksInv, LedgerInv, TypeOK
<1>2. \A p \in Payment : ~Allocated(p, i)
    BY <1>1, AppliedAllocated DEF Allocated, Posted, Cancelled, Submitted
<1>3. \A m \in CancellationOriginals(i) : m \in RowsOf(i, ledger) /\ ~m.is_reversal
    BY <1>1 DEF CancellationOriginals, RowsOf
<1>4. Opening(i) \in ledger
    BY <1>1 DEF BooksInv, RowsKnown, Posted, Submitted
<1>5. CancellationOriginals(i) = {Opening(i)}
  <2>1. \A m \in CancellationOriginals(i) : m = Opening(i)
      BY <1>1, <1>2, <1>3, InvoiceRows
  <2>2. Opening(i) \in CancellationOriginals(i)
      BY <1>1, <1>4, RowShapes DEF CancellationOriginals
  <2> QED
      BY <2>1, <2>2
<1>6. \A m \in CancellationOriginals(i) : m.voucher = i
    BY <1>1, <1>5, RowShapes
<1>7. SumFunctionOnSet(AmountOf, CancellationOriginals(i)) = Signed(i)
    BY <1>1, <1>5, AmountsOfRows, MovementTypes, AmountAlone
<1>8. SubledgerTotal(ledger') = SubledgerTotal(ledger) - Signed(i) /\ SubledgerTotal(ledger) \in Int
    BY <1>1, <1>6, <1>7, CancellationGains
<1>9. GLTotal(docstatus) = GLTotal(docstatus') + Signed(i)
    BY <1>1, ControlGains DEF Submitted
<1>10. Signed(i) \in Int /\ GLTotal(docstatus') \in Int
    BY <1>1, Kinds, ControlIsSum
<1> QED
    BY <1>8, <1>9, <1>10 DEF Reconciled

\* A draft is in neither account.
LEMMA CreatePaymentReconciled ==
    ASSUME BooksInv, NEW p \in Payment, CreatePayment(p), Reconciled(docstatus, ledger)
    PROVE  Reconciled(docstatus', ledger')
<1>1. /\ docstatus[p] = "absent" /\ docstatus'[p] = "draft" /\ UNCHANGED ledger
      /\ \A d \in Document \ {p} : docstatus'[d] = docstatus[d]
    BY Kinds DEF CreatePayment, BooksInv, LedgerInv, TypeOK
<1>2. {d \in Document : docstatus'[d] = "submitted"} = {d \in Document : docstatus[d] = "submitted"}
    BY <1>1
<1>3. GLTotal(docstatus') = GLTotal(docstatus)
    BY <1>2, ControlIsSum
<1> QED
    BY <1>1, <1>3 DEF Reconciled

\* One transition only can take the subledger and the control account apart.
ReconciledStep ==
    Reconciled(docstatus, ledger) =>
        \/ Reconciled(docstatus', ledger')
        \/ \E i \in Invoice, p \in Payment :
              /\ Submitted(i) /\ docstatus'[i] = "cancelled"
              /\ docstatus[p] = "cancelled" /\ Applied(p, i)

\* Every step keeps a reconciled ledger reconciled.
LEMMA StepReconciled == BooksInv /\ [Next]_vars => ReconciledStep
<1> SUFFICES ASSUME BooksInv, [Next]_vars, Reconciled(docstatus, ledger),
                    ~ \E i \in Invoice, p \in Payment :
                         /\ Submitted(i) /\ docstatus'[i] = "cancelled"
                         /\ docstatus[p] = "cancelled" /\ Applied(p, i)
             PROVE  Reconciled(docstatus', ledger')
    BY DEF ReconciledStep
<1>1. CASE \E i \in Invoice : SubmitInvoice(i)
    BY <1>1, SubmitInvoiceReconciled
<1>2. CASE \E i \in Invoice : CancelInvoice(i)
  <2>1. PICK i \in Invoice : CancelInvoice(i)
      BY <1>2
  <2>2. Submitted(i) /\ docstatus'[i] = "cancelled"
      BY <2>1, Kinds DEF CancelInvoice, Cancel, BooksInv, LedgerInv, TypeOK
  <2>3. \A p \in Payment : Cancelled(p) => ~Applied(p, i)
      BY <2>2 DEF Cancelled
  <2> QED
      BY <2>1, <2>3, CancelInvoiceReconciled
<1>3. CASE \E p \in Payment : CreatePayment(p)
    BY <1>3, CreatePaymentReconciled
<1>4. CASE \E p \in Payment : SubmitPayment(p)
    BY <1>4, SubmitPaymentReconciled
<1>5. CASE \E p \in Payment : CancelPayment(p)
    BY <1>5, CancelPaymentReconciled
<1>6. CASE \E p \in Payment, i \in Invoice : ApplyPayment(p, i) \/ ApplyAdvance(p, i)
  <2>1. PICK p \in Payment, i \in Invoice : ApplyPayment(p, i) \/ ApplyAdvance(p, i)
      BY <1>6
  <2>2. GrandTotal[i] \in Nat
      BY Kinds
  <2>3. PICK amount \in 1 .. GrandTotal[i] : PostApplication(p, i, amount)
      BY <2>1 DEF ApplyPayment, ApplyAdvance
  <2>4. amount \in Nat
      BY <2>2
  <2> QED
      BY <2>3, <2>4, PostApplicationReconciled
<1>7. CASE UNCHANGED vars
    BY <1>7 DEF vars
<1> QED
    BY <1>1, <1>2, <1>3, <1>4, <1>5, <1>6, <1>7 DEF Next

\* Whatever the reconciliation policy, the subledger and the control account
\* part only when an invoice is cancelled to which a cancelled payment had been
\* applied.
THEOREM ReconciliationIsKept == Spec => ReconciliationKept
<1>1. BooksInv /\ [Next]_vars => [ReconciledStep]_vars
    BY StepReconciled
<1>2. ItemsInv => BooksInv
    BY DEF ItemsInv
<1>3. Spec => [][ReconciledStep]_vars
    BY <1>1, <1>2, ItemsInvariant, PTL DEF Spec
<1> QED
    BY <1>3 DEF ReconciliationKept, ReconciledStep
=============================================================================
