-------------------------- MODULE ApprovalFlowProofs --------------------------
(***************************************************************************)
(* Proofs about ApprovalFlow: what is posted was requested and its authors  *)
(* did not approve it, unless an edit raced the request; it is executed once *)
(* and one request is pending, for any number of sessions, users, versions   *)
(* and requests.                                                            *)
(*                                                                         *)
(* The requests enter the invariant as a parameter, because the sender who  *)
(* may approve creates a request and decides it in one step: the step is    *)
(* split into a table with one request more, and a decision on it.          *)
(*                                                                         *)
(* The second half proves SalesFulfilment, the deliveries and invoices that *)
(* the engine approves.                                                     *)
(***************************************************************************)
EXTENDS ApprovalFlow, SumTheorems, FiniteSetTheorems, SequenceTheorems, TLAPS

\* The statuses of a request that counts for its document.
InForce == {"Pending", "Approved"}

\* d is the approval of a request of this kind.
Approved(d, kind, requests) ==
    d \in decision /\ d.action = "approve" /\ requests[d.request].kind = kind

\* Somebody has approved the submission of the document.
SubmissionApproved(requests) == \E d \in decision : Approved(d, "submit", requests)

\* A request froze the header its session had loaded and lines that are as old
\* or younger, and its policy names the users of that header, if it names anybody.
Frozen(r) ==
    /\ r.loaded \in 1 .. Version /\ r.lines \in 1 .. Version /\ r.loaded <= r.lines
    /\ r.preparers # {} => {Creator} \cup edits[r.loaded].modified_by \subseteq r.preparers

\* What was decided: never a request that still waits; by somebody its policy
\* admits; and an approval stands until a rejection overtakes it.
Decided(requests) ==
    \A d \in decision :
        /\ d.request \in DOMAIN requests
        /\ requests[d.request].status # "Pending"
        /\ d.action = "approve" =>
              /\ CanApprove(d.user, requests[d.request].preparers)
              /\ \/ requests[d.request].status = "Approved"
                 \/ \E e \in decision : e.request = d.request /\ e.action = "reject"

\* The two requests of a kind that are looked for exclude each other.
OneOfAKind(requests) ==
    \A j, k \in DOMAIN requests :
        requests[j].kind = requests[k].kind /\ requests[j].status \in InForce
            /\ requests[k].status \in InForce => j = k

\* A cancellation follows an approved submission.
CancelsSubmitted(requests) ==
    docstatus # 0 \/ (\E k \in DOMAIN requests : requests[k].kind = "cancel")
        => SubmissionApproved(requests)

\* What is posted was admitted by its request, and is what the request froze
\* or lines that are younger than the check and were opened before the request.
PostedFrom(requests) ==
    \A p \in posted :
        /\ p.request \in DOMAIN requests
        /\ p.header \in 1 .. Version /\ p.lines \in 1 .. Version
        /\ CanApprove(p.user, requests[p.request].preparers)
        /\ requests[p.request].lines <= p.lines
        /\ edits[p.lines].opened < p.request
        /\ edits[p.header].header = edits[requests[p.request].loaded].header
        /\ \/ edits[p.lines].lines = edits[requests[p.request].lines].lines
           \/ p.lines > p.checked

\* What the request table satisfies between any two transactions.
Well(requests) ==
    /\ requests \in Seq(ApprovalRequest) /\ Len(requests) <= MaxRequests
    /\ \A k \in DOMAIN requests : Frozen(requests[k])
    /\ Decided(requests) /\ OneOfAKind(requests)
    /\ CancelsSubmitted(requests) /\ PostedFrom(requests)

\* An approval finds its request undecided.
ApprovedOnce ==
    \A d, e \in decision :
        d.action = "approve" /\ e.action = "approve" /\ d.request = e.request => d = e

\* What a session loaded was there.
Loaded ==
    \A s \in Session :
        /\ session[s].version <= Version
        /\ session[s].pc = "rejecting" => session[s].target \in DOMAIN request
        /\ session[s].pc = "editing" => session[s].target <= Len(request)
        /\ session[s].docstatus # 0 \/ session[s].pc = "cancelling" => SubmissionApproved(request)

\* An edit that wrote over the version it had loaded left its author's name.
Signed ==
    \A v \in 1 .. Version :
        /\ edits[v].base = v - 1 => edits[v].author \in {Creator} \cup edits[v].modified_by
        /\ edits[v].opened <= Len(request)

\* While a request is pending every edit there is, and every edit that is
\* open, was opened before it.
Waiting ==
    \A k \in Pending :
        /\ \A v \in 1 .. Version : edits[v].opened < k
        /\ \A s \in Session : session[s].pc = "editing" => session[s].target < k

\* An approver between the check and the posting holds a pending request that
\* admits it and froze the header it has loaded and the lines it has read.
Checked ==
    \A s \in Session :
        session[s].pc = "posting" =>
            LET k == session[s].target
            IN /\ k \in DOMAIN request /\ request[k].status = "Pending"
               /\ CanApprove(session[s].user, request[k].preparers)
               /\ session[s].checked \in 1 .. Version
               /\ edits[session[s].version].header = edits[request[k].loaded].header
               /\ edits[session[s].checked].lines = edits[request[k].lines].lines
               /\ \A t \in Session : session[t].pc = "posting" /\ session[t].target = k => t = s

\* The inductive invariant.
ApprovalInv ==
    TypeOK /\ Well(request) /\ ApprovedOnce /\ Loaded /\ Signed /\ Waiting /\ Checked

-----------------------------------------------------------------------------
(* The tables of requests                                                  *)

\* Deciding a request changes its status and nothing else.
LEMMA StatusSet ==
    ASSUME NEW requests \in Seq(ApprovalRequest), NEW k \in DOMAIN requests,
           NEW x \in {"Pending", "Approved", "Rejected"},
           NEW after, after = [requests EXCEPT ![k] = [@ EXCEPT !.status = x]]
    PROVE  /\ after \in Seq(ApprovalRequest)
           /\ Len(after) = Len(requests) /\ DOMAIN after = DOMAIN requests
           /\ \A j \in DOMAIN requests :
                 /\ after[j].kind = requests[j].kind
                 /\ after[j].loaded = requests[j].loaded
                 /\ after[j].lines = requests[j].lines
                 /\ after[j].preparers = requests[j].preparers
                 /\ after[j].status = IF j = k THEN x ELSE requests[j].status
  <1>1. \A j \in DOMAIN requests : requests[j] \in ApprovalRequest
    BY ElementOfSeq, LenProperties
  <1>2. [requests[k] EXCEPT !.status = x] \in ApprovalRequest
    BY <1>1 DEF ApprovalRequest
  <1>3. after \in Seq(ApprovalRequest) /\ Len(after) = Len(requests) /\ DOMAIN after = DOMAIN requests
    BY <1>2
  <1>4. \A j \in DOMAIN requests :
           after[j] = IF j = k THEN [requests[k] EXCEPT !.status = x] ELSE requests[j]
    OBVIOUS
  <1> QED
    BY <1>1, <1>3, <1>4 DEF ApprovalRequest

\* A new request of a kind that has none in force.
LEMMA AppendedWell ==
    ASSUME TypeOK, Well(request), NEW r \in ApprovalRequest,
           r.status = "Pending", Frozen(r), Len(request) < MaxRequests,
           Requests(r.kind, InForce) = {},
           r.kind = "cancel" => SubmissionApproved(request)
    PROVE  Well(Append(request, r))
  <1> DEFINE after == Append(request, r)
             n == Len(request) + 1
  <1>1. /\ after \in Seq(ApprovalRequest) /\ Len(after) = n /\ n \in Nat
        /\ \A j \in 1 .. Len(request) : after[j] = request[j]
        /\ after[n] = r
    BY AppendProperties, LenProperties DEF Well
  <1>2. DOMAIN request = 1 .. Len(request) /\ DOMAIN after = DOMAIN request \cup {n} /\ n \notin DOMAIN request
    BY <1>1, LenProperties DEF Well
  <1>3. \A j \in DOMAIN request : after[j] = request[j]
    BY <1>1, <1>2
  <1>4. Len(after) <= MaxRequests
    BY <1>1, BoundAssumption DEF Well
  <1>5. \A k \in DOMAIN after : Frozen(after[k])
    BY <1>1, <1>2, <1>3 DEF Well
  <1>6. \A d \in decision : d.request \in DOMAIN request
    BY DEF Well, Decided
  <1>7. Decided(after)
    BY <1>2, <1>3, <1>6 DEF Well, Decided
  <1>8. OneOfAKind(after)
    BY <1>1, <1>2, <1>3 DEF Well, OneOfAKind, Requests
  <1>9. \A d \in decision, kind \in {"submit", "cancel"} :
           Approved(d, kind, request) => Approved(d, kind, after)
    BY <1>3, <1>6 DEF Approved
  <1>10. CancelsSubmitted(after)
    BY <1>1, <1>2, <1>3, <1>9 DEF Well, CancelsSubmitted, SubmissionApproved
  <1>11. PostedFrom(after)
    BY <1>2, <1>3 DEF Well, PostedFrom
  <1> HIDE DEF after
  <1>12. Well(after)
    BY <1>1, <1>4, <1>5, <1>7, <1>8, <1>10, <1>11 DEF Well
  <1> QED
    BY <1>12 DEF after

\* The versions of the document have their type.
LEMMA Versions ==
    ASSUME TypeOK
    PROVE  /\ Version \in Nat /\ 1 \in 1 .. Version /\ DOMAIN edits = 1 .. Version
           /\ \A v \in 1 .. Version :
                 /\ edits[v] \in Edit /\ v \in 1 .. MaxVersions
                 /\ edits[v].author \in User /\ edits[v].modified_by \in SUBSET User
                 /\ edits[v].header \in 1 .. MaxVersions /\ edits[v].lines \in 1 .. MaxVersions
                 /\ edits[v].base \in 0 .. MaxVersions /\ edits[v].opened \in 0 .. MaxRequests
  <1>1. Version \in 1 .. MaxVersions /\ edits \in Seq(Edit) /\ MaxVersions \in Nat
    BY BoundAssumption DEF TypeOK
  <1>2. DOMAIN edits = 1 .. Version
    BY <1>1, LenProperties DEF Version
  <1>3. \A v \in 1 .. Version : edits[v] \in Edit
    BY <1>1, <1>2, ElementOfSeq DEF Version
  <1> QED
    BY <1>1, <1>2, <1>3 DEF Edit

\* What a request freezes are the header that was loaded, with its users, and
\* the lines there are.
LEMMA NewRequestFrozen ==
    ASSUME TypeOK, Loaded, NEW s \in Session, NEW kind \in {"submit", "cancel"}
    PROVE  LET r == NewRequest(kind, s)
           IN r \in ApprovalRequest /\ r.status = "Pending" /\ r.kind = kind /\ Frozen(r)
  <1>1. session[s] \in Activity
    BY DEF TypeOK
  <1>2. session[s].user \in User /\ session[s].version \in 1 .. Version
    BY <1>1, Versions, BoundAssumption DEF Activity, Loaded
  <1>3. /\ edits[session[s].version].modified_by \in SUBSET User
        /\ session[s].version \in 1 .. MaxVersions /\ Version \in 1 .. MaxVersions
    BY <1>2, Versions DEF TypeOK
  <1>4. Version \in 1 .. Version /\ session[s].version <= Version
    BY <1>2, Versions
  <1>5. Preparers(s) \in SUBSET User
    BY <1>2, <1>3, UserAssumption DEF Preparers
  <1>6. Preparers(s) # {} => {Creator} \cup edits[session[s].version].modified_by \subseteq Preparers(s)
    BY DEF Preparers
  <1> QED
    BY <1>2, <1>3, <1>4, <1>5, <1>6 DEF NewRequest, ApprovalRequest, Frozen

-----------------------------------------------------------------------------
(* The steps                                                               *)

\* An unsubmitted document without requests satisfies the invariant.
LEMMA InitApproval == Init => ApprovalInv
  <1> SUFFICES ASSUME Init PROVE ApprovalInv
    OBVIOUS
  <1>0. PICK first : first = [author |-> Creator, modified_by |-> {}, header |-> 1, lines |-> 1,
                              base |-> 0, opened |-> 0]
    OBVIOUS
  <1>1. first \in Edit
    BY <1>0, UserAssumption, BoundAssumption DEF Edit
  <1>2. edits \in Seq(Edit) /\ Len(edits) = 1 /\ edits[1] = first
    BY <1>0, <1>1 DEF Init
  <1>3. request \in Seq(ApprovalRequest) /\ Len(request) = 0 /\ DOMAIN request = {}
    BY DEF Init
  <1>4. Idle \in Activity
    BY UserAssumption, BoundAssumption DEF Idle, Activity
  <1>5. TypeOK
    BY <1>2, <1>3, <1>4, BoundAssumption DEF Init, TypeOK, Version
  <1>6. Well(request)
    BY <1>3, BoundAssumption
    DEF Init, Well, Decided, OneOfAKind, CancelsSubmitted, PostedFrom
  <1>7. ApprovedOnce /\ Loaded
    BY <1>2 DEF Init, ApprovedOnce, Loaded, Idle, Version
  <1>8. Signed
    BY <1>0, <1>2, <1>3 DEF Signed, Version
  <1>9. Waiting /\ Checked
    BY <1>3 DEF Init, Waiting, Checked, Pending, Idle
  <1> QED
    BY <1>5, <1>6, <1>7, <1>8, <1>9 DEF ApprovalInv

\* The settings, and sessions that are begun or given up, touch no table.
LEMMA SetFourEyesKeeps == ApprovalInv /\ SetFourEyes => ApprovalInv'
  <1> SUFFICES ASSUME ApprovalInv, SetFourEyes PROVE ApprovalInv'
    OBVIOUS
  <1> USE DEF SetFourEyes, ApprovalInv
  <1>1. TypeOK'
    BY DEF TypeOK, Version
  <1>2. Well(request)'
    BY DEF Well, Frozen, Version, Decided, CanApprove, OneOfAKind, CancelsSubmitted,
           PostedFrom, SubmissionApproved, Approved
  <1>3. ApprovedOnce' /\ Loaded'
    BY DEF ApprovedOnce, Loaded, Version, SubmissionApproved, Approved
  <1>4. Signed' /\ Waiting' /\ Checked'
    BY DEF Signed, Waiting, Checked, Pending, CanApprove, Version
  <1> QED
    BY <1>1, <1>2, <1>3, <1>4

\* Steps that write nothing to the shared tables keep what is said of them.
LEMMA TablesKept ==
    ASSUME ApprovalInv, UNCHANGED <<document, request, decision>>
    PROVE  /\ Well(request)' /\ ApprovedOnce' /\ Signed'
           /\ Version' = Version /\ Pending' = Pending
           /\ SubmissionApproved(request)' <=> SubmissionApproved(request)
  <1>1. Version' = Version /\ Pending' = Pending
    BY DEF document, Version, Pending
  <1>2. SubmissionApproved(request)' <=> SubmissionApproved(request)
    BY DEF SubmissionApproved, Approved
  <1>3. ApprovedOnce' /\ Signed'
    BY <1>1 DEF ApprovalInv, document, ApprovedOnce, Signed
  <1>4. Well(request)'
    BY <1>1, <1>2 DEF ApprovalInv, document, Well, Frozen, Decided, CanApprove, OneOfAKind,
           CancelsSubmitted, PostedFrom
  <1> QED
    BY <1>1, <1>2, <1>3, <1>4

\* Reading the document into a session keeps the invariant.
LEMMA LoadKeeps ==
    ASSUME ApprovalInv, NEW s \in Session, NEW u \in User,
           NEW pc \in {"editing", "submitting", "cancelling", "approving", "rejecting"},
           NEW target \in 0 .. MaxRequests, Load(s, u, pc, target),
           pc = "cancelling" => docstatus = 1,
           pc = "rejecting" => target \in DOMAIN request,
           pc = "editing" => target = Len(request) /\ Pending = {}
    PROVE  ApprovalInv'
  <1> USE DEF ApprovalInv, Load, document
  <1>1. Version \in 1 .. MaxVersions /\ docstatus \in 0 .. 2
    BY DEF TypeOK
  <1>2. [pc |-> pc, user |-> u, docstatus |-> docstatus, version |-> Version, target |-> target,
         checked |-> 0] \in Activity
    BY <1>1, BoundAssumption DEF Activity
  <1>3. TypeOK'
    BY <1>2 DEF TypeOK, Version
  <1>4. docstatus # 0 => SubmissionApproved(request)
    BY DEF Well, CancelsSubmitted
  <1>5. Version \in Nat /\ Len(request) \in Nat
    BY <1>1, BoundAssumption, LenProperties DEF TypeOK
  <1>6. /\ Well(request)' /\ ApprovedOnce' /\ Signed' /\ Version' = Version /\ Pending' = Pending
        /\ SubmissionApproved(request)' <=> SubmissionApproved(request)
    BY TablesKept
  <1>7. Loaded'
    BY <1>4, <1>5, <1>6 DEF Loaded, TypeOK
  <1>8. session \in [Session -> Activity]
    BY DEF TypeOK
  <1>9. \A t \in Session : session'[t].pc = "posting" => t # s /\ session'[t] = session[t]
    BY <1>8
  <1>10. \A t \in Session : session'[t].pc = "editing" /\ t # s => session'[t] = session[t]
    BY <1>8
  <1>11. session'[s].pc = "editing" => Pending = {}
    BY <1>8
  <1>12. Waiting'
    BY <1>6, <1>10, <1>11 DEF Waiting
  <1>13. Checked'
    BY <1>6, <1>9 DEF Checked, CanApprove
  <1> QED
    BY <1>3, <1>6, <1>7, <1>12, <1>13

\* A session that ends leaves the others as they are.
LEMMA DoneLeaves ==
    ASSUME TypeOK, NEW s \in Session, Done(s)
    PROVE  /\ session' \in [Session -> Activity]
           /\ session'[s] = Idle /\ Idle.pc = "idle" /\ Idle.docstatus = 0 /\ Idle.version = 1
           /\ \A t \in Session : t # s => session'[t] = session[t]
  <1>1. Idle \in Activity
    BY UserAssumption, BoundAssumption DEF Idle, Activity
  <1> QED
    BY <1>1 DEF TypeOK, Done, Idle

\* A session that ends without effect keeps the invariant.
LEMMA GiveUpKeeps == ASSUME ApprovalInv, NEW s \in Session, GiveUp(s) PROVE ApprovalInv'
  <1> USE DEF ApprovalInv, GiveUp, document
  <1>1. Version \in 1 .. MaxVersions /\ Version' = Version
    BY DEF TypeOK, Version
  <1>2. /\ session' \in [Session -> Activity]
        /\ session'[s] = Idle /\ Idle.pc = "idle" /\ Idle.docstatus = 0 /\ Idle.version = 1
        /\ \A t \in Session : t # s => session'[t] = session[t]
    BY DoneLeaves
  <1>3. TypeOK'
    BY <1>2 DEF TypeOK, Version
  <1>4. /\ Well(request)' /\ ApprovedOnce' /\ Signed' /\ Pending' = Pending
        /\ SubmissionApproved(request)' <=> SubmissionApproved(request)
    BY TablesKept
  <1>5. Loaded'
    BY <1>1, <1>2, <1>4, BoundAssumption DEF Loaded
  <1>6. Waiting'
    BY <1>1, <1>2, <1>4 DEF Waiting
  <1>7. Checked'
    BY <1>1, <1>2 DEF Checked, CanApprove
  <1> QED
    BY <1>3, <1>4, <1>5, <1>6, <1>7

\* A new version leaves the versions that were requested as they are, and is
\* signed by the user who wrote it unless it was written over another one.
LEMMA WriteEditKeeps == ASSUME ApprovalInv, NEW s \in Session, WriteEdit(s)
                        PROVE ApprovalInv'
  <1> USE DEF ApprovalInv
  <1>1. session[s] \in Activity /\ session[s].user \in User /\ session[s].target \in 0 .. MaxRequests
    BY DEF TypeOK, Activity
  <1>2. /\ Version \in Nat /\ 1 \in 1 .. Version /\ DOMAIN edits = 1 .. Version
        /\ \A v \in 1 .. Version :
              /\ edits[v] \in Edit /\ edits[v].modified_by \in SUBSET User
              /\ edits[v].header \in 1 .. MaxVersions /\ edits[v].lines \in 1 .. MaxVersions
    BY Versions
  <1>3. session[s].version \in 1 .. Version /\ Version + 1 \in 1 .. MaxVersions
    BY <1>1, <1>2, BoundAssumption DEF Loaded, Activity, WriteEdit
  <1>4. PICK header \in 1 .. MaxVersions, lines \in 1 .. MaxVersions :
           edits' = Append(edits,
               [author |-> session[s].user,
                modified_by |-> IF edits[session[s].version].modified_by = {session[s].user}
                                THEN edits[Version].modified_by ELSE {session[s].user},
                header |-> header, lines |-> lines,
                base |-> session[s].version, opened |-> session[s].target])
    BY <1>2, <1>3 DEF WriteEdit
  <1>5. PICK new : new = [author |-> session[s].user,
                modified_by |-> IF edits[session[s].version].modified_by = {session[s].user}
                                THEN edits[Version].modified_by ELSE {session[s].user},
                header |-> header, lines |-> lines,
                base |-> session[s].version, opened |-> session[s].target]
    OBVIOUS
  <1>6. Version \in 1 .. Version /\ edits[Version].modified_by \in SUBSET User
    BY <1>2
  <1>7. new \in Edit
    BY <1>1, <1>3, <1>5, <1>6, BoundAssumption DEF Edit, Activity
  <1>8. /\ edits' \in Seq(Edit) /\ Version' = Version + 1 /\ edits'[Version + 1] = new
        /\ \A v \in 1 .. Version : edits'[v] = edits[v]
    <2>1. edits \in Seq(Edit) /\ edits' = Append(edits, new)
      BY <1>4, <1>5 DEF TypeOK
    <2> QED
      BY <2>1, <1>7, AppendProperties DEF Version
  <1>9. \A v \in 1 .. Version : v \in 1 .. Version'
    BY <1>2, <1>8
  <1>10. /\ session' \in [Session -> Activity]
         /\ session'[s] = Idle /\ Idle.pc = "idle" /\ Idle.docstatus = 0 /\ Idle.version = 1
         /\ \A t \in Session : t # s => session'[t] = session[t]
    BY DoneLeaves DEF WriteEdit
  <1>11. /\ session[s].pc = "editing" /\ posted' = posted /\ request' = request
         /\ decision' = decision /\ docstatus' = docstatus /\ four_eyes' = four_eyes
    BY DEF WriteEdit
  <1>12. TypeOK'
    BY <1>3, <1>8, <1>10, <1>11 DEF TypeOK
  <1>13. \A r \in ApprovalRequest : Frozen(r) => Frozen(r)'
    BY <1>8, <1>9 DEF Frozen
  <1>14. \A k \in DOMAIN request : request[k] \in ApprovalRequest
    BY ElementOfSeq, LenProperties DEF Well
  <1>15. \A k \in DOMAIN request : Frozen(request[k])'
    BY <1>11, <1>13, <1>14 DEF Well
  <1>16. \A k \in DOMAIN request : request[k].loaded \in 1 .. Version /\ request[k].lines \in 1 .. Version
    BY DEF Well, Frozen
  <1>17. PostedFrom(request)'
    BY <1>8, <1>9, <1>11, <1>16 DEF Well, PostedFrom, CanApprove
  <1>18. Decided(request)' /\ OneOfAKind(request)' /\ CancelsSubmitted(request)' /\ ApprovedOnce'
    BY <1>11 DEF Well, Decided, CanApprove, OneOfAKind, CancelsSubmitted,
           SubmissionApproved, Approved, ApprovedOnce
  <1>19. Well(request)'
    BY <1>11, <1>15, <1>17, <1>18 DEF Well
  <1>20. SubmissionApproved(request)' <=> SubmissionApproved(request)
    BY <1>11 DEF SubmissionApproved, Approved
  <1>21. Loaded'
    <2>0. \A t \in Session : session[t].version \in 1 .. MaxVersions /\ session[t].version <= Version
      BY DEF Loaded, TypeOK, Activity
    <2>1. \A t \in Session : session[t].version <= Version' /\ Idle.version <= Version'
      <3> HIDE DEF ApprovalInv
      <3> QED
        BY <2>0, <1>2, <1>8, <1>10, BoundAssumption
    <2> QED
      BY <2>1, <1>10, <1>11, <1>20 DEF Loaded
  <1>22. Signed'
    <2>1. new.base = Version => new.author \in {Creator} \cup new.modified_by
      BY <1>5
    <2>2. new.opened <= Len(request)
      BY <1>5, <1>11 DEF Loaded
    <2>3. (Version + 1) - 1 = Version
      BY <1>2
    <2>4. \A v \in 1 .. Version' : v \in 1 .. Version \/ v = Version + 1
      BY <1>2, <1>8
    <2> QED
      BY <2>1, <2>2, <2>3, <2>4, <1>8, <1>11 DEF Signed
  <1>23. Waiting'
    <2>1. Pending' = Pending
      BY <1>11 DEF Pending
    <2>2. \A k \in Pending : new.opened < k
      BY <1>5, <1>11 DEF Waiting
    <2>3. \A v \in 1 .. Version' : v \in 1 .. Version \/ v = Version + 1
      BY <1>2, <1>8
    <2> QED
      BY <2>1, <2>2, <2>3, <1>8, <1>10 DEF Waiting
  <1>24. Checked'
    <2>1. \A t \in Session : session'[t].pc = "posting" => t # s /\ session'[t] = session[t]
      BY <1>10
    <2>2. \A t \in Session : session[t].version \in 1 .. Version
      BY <1>2, BoundAssumption DEF Loaded, TypeOK, Activity
    <2>3. SUFFICES ASSUME NEW t \in Session, session'[t].pc = "posting"
                   PROVE  LET k == session[t].target
                          IN /\ k \in DOMAIN request /\ request[k].status = "Pending"
                             /\ CanApprove(session[t].user, request[k].preparers)
                             /\ session[t].checked \in 1 .. Version'
                             /\ edits'[session[t].version].header = edits'[request[k].loaded].header
                             /\ edits'[session[t].checked].lines = edits'[request[k].lines].lines
                             /\ \A x \in Session : session'[x].pc = "posting" /\ session'[x].target = k
                                                     => x = t
      BY <2>1, <1>11 DEF Checked, CanApprove
    <2>4. session[t].pc = "posting"
      BY <2>1, <2>3
    <2>5. LET k == session[t].target
          IN /\ k \in DOMAIN request /\ request[k].status = "Pending"
             /\ CanApprove(session[t].user, request[k].preparers)
             /\ session[t].checked \in 1 .. Version
             /\ edits[session[t].version].header = edits[request[k].loaded].header
             /\ edits[session[t].checked].lines = edits[request[k].lines].lines
             /\ \A x \in Session : session[x].pc = "posting" /\ session[x].target = k => x = t
      BY <2>4 DEF Checked
    <2> HIDE DEF ApprovalInv
    <2> QED
      BY <2>1, <2>2, <2>5, <1>8, <1>9, <1>16
  <1> QED
    BY <1>12, <1>18, <1>19, <1>21, <1>22, <1>23, <1>24

\* The table that a decision on request k starts from: the committed one, or
\* the same with k at its end.
Continues(requests, k) ==
    /\ DOMAIN requests = DOMAIN request \cup {k}
    /\ \A j \in DOMAIN request : requests[j] = request[j]

\* The request a session may decide on: it admits the user, nobody else holds
\* it, and its snapshot is of the loaded header and the lines of version checked.
Decidable(s, k, requests, checked) ==
    /\ k \in DOMAIN requests /\ requests[k].status = "Pending"
    /\ CanApprove(session[s].user, requests[k].preparers)
    /\ checked \in 1 .. Version
    /\ edits[session[s].version].header = edits[requests[k].loaded].header
    /\ edits[checked].lines = edits[requests[k].lines].lines
    /\ \A v \in 1 .. Version : edits[v].opened < k
    /\ \A t \in Session : session[t].pc = "posting" /\ session[t].target = k => t = s

\* _finalize_approval, on the request table its caller has built, keeps the
\* invariant: the decision it executes is the first of its kind.
LEMMA FinalizeKeeps ==
    ASSUME ApprovalInv, NEW s \in Session, NEW requests, NEW k, NEW checked,
           Well(requests), Continues(requests, k), Decidable(s, k, requests, checked),
           Finalize(s, k, requests, checked)
    PROVE  ApprovalInv'
  <1> USE DEF ApprovalInv
  <1>0. PICK made, entries :
           /\ made = [request |-> k, user |-> session[s].user, action |-> "approve"]
           /\ entries = [request |-> k, user |-> session[s].user, header |-> session[s].version,
                         checked |-> checked, lines |-> Version]
    OBVIOUS
  <1>1. session[s] \in Activity /\ k \in DOMAIN requests
    BY DEF TypeOK, Decidable
  <1>2. requests \in Seq(ApprovalRequest) /\ Len(requests) <= MaxRequests
    BY DEF Well
  <1>3. /\ request' \in Seq(ApprovalRequest)
        /\ Len(request') = Len(requests) /\ DOMAIN request' = DOMAIN requests
        /\ \A j \in DOMAIN requests :
              /\ request'[j].kind = requests[j].kind
              /\ request'[j].loaded = requests[j].loaded
              /\ request'[j].lines = requests[j].lines
              /\ request'[j].preparers = requests[j].preparers
              /\ request'[j].status = IF j = k THEN "Approved" ELSE requests[j].status
    <2> HIDE DEF ApprovalInv
    <2>1. request' = [requests EXCEPT ![k] = [@ EXCEPT !.status = "Approved"]]
      BY DEF Finalize
    <2>2. requests[k] \in ApprovalRequest
      BY <1>1, <1>2, ElementOfSeq, LenProperties
    <2>3. PICK decided : decided = [requests[k] EXCEPT !.status = "Approved"]
      OBVIOUS
    <2>4. /\ decided \in ApprovalRequest /\ decided.status = "Approved"
          /\ decided.kind = requests[k].kind /\ decided.loaded = requests[k].loaded
          /\ decided.lines = requests[k].lines /\ decided.preparers = requests[k].preparers
      BY <2>2, <2>3 DEF ApprovalRequest
    <2>5. request' = [requests EXCEPT ![k] = decided]
      BY <2>1, <2>3
    <2>6. \A j \in DOMAIN requests : request'[j] = IF j = k THEN decided ELSE requests[j]
      BY <2>5
    <2>7. /\ request' \in Seq(ApprovalRequest)
          /\ Len(request') = Len(requests) /\ DOMAIN request' = DOMAIN requests
      BY <1>1, <1>2, <2>4, <2>5
    <2> QED
      BY <2>4, <2>6, <2>7
  <1>4. /\ decision' = decision \cup {made} /\ edits' = edits /\ Version' = Version
        /\ posted' = IF requests[k].kind # "submit" THEN posted ELSE posted \cup {entries}
        /\ docstatus' \in {1, 2} /\ four_eyes' = four_eyes
    BY <1>0 DEF Finalize, Version
  <1>5. k \in 1 .. MaxRequests /\ made \in Decision
    BY <1>0, <1>1, <1>2, LenProperties, BoundAssumption DEF Activity, Decision
  <1>6. requests[k] \in ApprovalRequest /\ Frozen(requests[k])
    BY <1>1, <1>2, ElementOfSeq, LenProperties DEF Well
  <1>7. \A d \in decision : d.request \in DOMAIN requests /\ d.request # k
    BY DEF Well, Decided, Decidable
  <1>8. /\ session' \in [Session -> Activity]
        /\ session'[s] = Idle /\ Idle.pc = "idle" /\ Idle.docstatus = 0 /\ Idle.version = 1
        /\ \A t \in Session : t # s => session'[t] = session[t]
    BY DoneLeaves DEF Finalize
  <1>9. /\ Version \in Nat /\ Version \in 1 .. Version /\ session[s].version \in 1 .. Version
        /\ \A v \in 1 .. Version : v \in 1 .. MaxVersions
    BY <1>1, Versions, BoundAssumption DEF Loaded, Activity
  <1>10. entries \in Posting
    BY <1>0, <1>1, <1>5, <1>9 DEF Posting, Activity, Decidable
  <1>11. TypeOK'
    <2>1. posted' \in SUBSET Posting
      BY <1>4, <1>10 DEF TypeOK
    <2>2. decision' \in SUBSET Decision /\ \A d \in decision' : d.request \in DOMAIN request'
      BY <1>0, <1>1, <1>3, <1>4, <1>5, <1>7 DEF TypeOK
    <2>3. /\ edits' \in Seq(Edit) /\ Version' \in 1 .. MaxVersions /\ docstatus' \in 0 .. 2
          /\ four_eyes' \in BOOLEAN
      BY <1>4 DEF TypeOK
    <2> QED
      BY <2>1, <2>2, <2>3, <1>2, <1>3, <1>8 DEF TypeOK
  <1>12. \A d \in decision, kind \in {"submit", "cancel"} :
            Approved(d, kind, requests) => Approved(d, kind, request)'
    BY <1>3, <1>4, <1>7 DEF Approved
  <1>13. made \in decision' /\ (requests[k].kind = "submit" => Approved(made, "submit", request)')
    <2>1. made \in decision' /\ made.action = "approve" /\ made.request = k
      BY <1>0, <1>4
    <2>2. request'[made.request].kind = requests[k].kind
      BY <1>1, <1>3, <2>1
    <2> QED
      BY <2>1, <2>2 DEF Approved
  <1>14. \A j \in DOMAIN request' : Frozen(request[j])'
    BY <1>3, <1>4 DEF Well, Frozen
  <1>15. Decided(request)'
    <2>1. CanApprove(session[s].user, requests[k].preparers) /\ made.user = session[s].user
      BY <1>0 DEF Decidable
    <2>2. made.request = k /\ CanApprove(made.user, request[made.request].preparers)'
      BY <1>0, <1>1, <1>3, <2>1 DEF CanApprove
    <2>3. \A d \in decision :
             /\ d.request \in DOMAIN request' /\ request'[d.request].status # "Pending"
             /\ d.action = "approve" =>
                   /\ CanApprove(d.user, request[d.request].preparers)'
                   /\ \/ request'[d.request].status = "Approved"
                      \/ \E e \in decision' : e.request = d.request /\ e.action = "reject"
      BY <1>3, <1>4, <1>7 DEF Well, Decided, CanApprove
    <2> QED
      BY <1>1, <1>3, <1>4, <2>2, <2>3 DEF Decided
  <1>16. OneOfAKind(request)'
    BY <1>1, <1>3 DEF Well, OneOfAKind, InForce, Decidable
  <1>17. SubmissionApproved(request)'
    <2>1. CASE requests[k].kind = "submit"
      BY <2>1, <1>13 DEF SubmissionApproved
    <2>2. CASE requests[k].kind = "cancel"
      BY <2>2, <1>1, <1>4, <1>12 DEF Well, CancelsSubmitted, SubmissionApproved
    <2> QED
      BY <2>1, <2>2, <1>6 DEF ApprovalRequest
  <1>18. PostedFrom(request)'
    <2>1. /\ CanApprove(entries.user, requests[entries.request].preparers)
          /\ entries.request = k /\ entries.header \in 1 .. Version /\ entries.lines = Version
          /\ edits[entries.header].header = edits[requests[k].loaded].header
          /\ requests[k].lines <= entries.lines
          /\ edits[entries.lines].opened < k
      BY <1>0, <1>6, <1>9 DEF Decidable, Frozen
    <2>2. edits[entries.lines].lines = edits[requests[k].lines].lines \/ entries.lines > entries.checked
      <3>1. CASE checked = Version
        BY <3>1, <1>0 DEF Decidable
      <3>2. CASE checked # Version
        BY <3>2, <1>0, <1>9 DEF Decidable
      <3> QED
        BY <3>1, <3>2
    <2>3. \A p \in posted' : p \in posted \/ p = entries
      BY <1>4
    <2>4. \A p \in posted : p.request \in DOMAIN requests
      BY DEF Well, PostedFrom
    <2>5. ASSUME NEW p \in posted'
          PROVE  /\ p.request \in DOMAIN request'
                 /\ p.header \in 1 .. Version' /\ p.lines \in 1 .. Version'
                 /\ CanApprove(p.user, requests[p.request].preparers)
                 /\ request'[p.request].lines <= p.lines
                 /\ edits'[p.lines].opened < p.request
                 /\ edits'[p.header].header = edits'[request'[p.request].loaded].header
                 /\ \/ edits'[p.lines].lines = edits'[request'[p.request].lines].lines
                    \/ p.lines > p.checked
      <3>1. CASE p \in posted
        BY <3>1, <2>4, <1>3, <1>4 DEF Well, PostedFrom
      <3>2. CASE p = entries
        BY <3>2, <2>1, <2>2, <1>1, <1>3, <1>4, <1>9
      <3> QED
        BY <2>3, <3>1, <3>2
    <2>6. \A p \in posted' : CanApprove(p.user, request[p.request].preparers)'
      BY <2>5, <1>3 DEF CanApprove
    <2> QED
      BY <2>5, <2>6 DEF PostedFrom
  <1>19. Well(request)'
    BY <1>2, <1>3, <1>14, <1>15, <1>16, <1>17, <1>18 DEF Well, CancelsSubmitted
  <1>20. ApprovedOnce'
    BY <1>0, <1>4, <1>7 DEF ApprovedOnce
  <1>21. DOMAIN request \subseteq DOMAIN request' /\ Len(request) <= Len(request')
    BY <1>2, <1>3, LenProperties DEF Continues, TypeOK
  <1>22. Loaded'
    <2>1. \A t \in Session : session[t].pc = "editing" => session[t].target <= Len(request')
      BY <1>1, <1>2, <1>3, <1>21, LenProperties DEF Loaded, TypeOK, Activity
    <2> QED
      BY <2>1, <1>4, <1>8, <1>9, <1>17, <1>21 DEF Loaded
  <1>23. Signed'
    <2>1. \A v \in 1 .. Version : edits[v].opened <= Len(request')
      BY <1>2, <1>3, <1>21, Versions, LenProperties DEF Signed, TypeOK
    <2> QED
      BY <2>1, <1>4 DEF Signed
  <1>24. ASSUME NEW j \in DOMAIN request', request'[j].status = "Pending"
         PROVE  j # k /\ j \in Pending
    BY <1>1, <1>3, <1>24 DEF Continues, Pending
  <1>25. Waiting'
    <2>1. Pending' \subseteq Pending
      BY <1>24 DEF Pending
    <2> QED
      BY <2>1, <1>4, <1>8 DEF Waiting
  <1>26. Checked'
    <2>1. ASSUME NEW t \in Session, session'[t].pc = "posting"
          PROVE  /\ session'[t] = session[t] /\ session[t].target # k
                 /\ session[t].target \in DOMAIN request
      BY <2>1, <1>8 DEF Checked, Decidable
    <2>2. \A j \in DOMAIN request : j # k =>
             /\ j \in DOMAIN request' /\ request'[j].status = request[j].status
             /\ request'[j].loaded = request[j].loaded /\ request'[j].lines = request[j].lines
             /\ request'[j].preparers = request[j].preparers
      BY <1>3 DEF Continues
    <2> QED
      BY <2>1, <2>2, <1>4 DEF Checked, CanApprove
  <1> QED
    BY <1>11, <1>19, <1>20, <1>22, <1>23, <1>25, <1>26

\* The end of an approval whose request was checked keeps the invariant.
LEMMA ApproveCheckedKeeps == ASSUME ApprovalInv, NEW s \in Session, ApproveChecked(s)
                             PROVE ApprovalInv'
  <1>1. PICK k, checked : k = session[s].target /\ checked = session[s].checked
    OBVIOUS
  <1>2. Finalize(s, k, request, checked) /\ session[s].pc = "posting"
    BY <1>1 DEF ApproveChecked
  <1>3. k \in DOMAIN request /\ Well(request) /\ Continues(request, k)
    BY <1>1, <1>2 DEF ApprovalInv, Checked, Continues
  <1>4. Decidable(s, k, request, checked)
    BY <1>1, <1>2, <1>3 DEF ApprovalInv, Checked, Waiting, Pending, Decidable
  <1> QED
    BY <1>2, <1>3, <1>4, FinalizeKeeps

\* A pending request that is not held may be decided under the lock of the
\* document, where the lines that are checked are the lines that are posted.
LEMMA PendingDecidable ==
    ASSUME ApprovalInv, NEW s \in Session, NEW k \in DOMAIN request, Pending = {k},
           Unlocked(k), Approvable(s, request[k])
    PROVE  Decidable(s, k, request, Version)
  <1>1. Version \in 1 .. Version
    BY Versions DEF ApprovalInv
  <1>2. request[k].status = "Pending" /\ \A v \in 1 .. Version : edits[v].opened < k
    BY DEF ApprovalInv, Waiting, Pending
  <1> QED
    BY <1>1, <1>2 DEF Unlocked, Approvable, SnapshotMatches, Decidable

\* A sender who decides the request there is keeps the invariant.
LEMMA ApproveOnSubmissionKeeps ==
    ASSUME ApprovalInv, NEW s \in Session, ApproveOnSubmission(s) PROVE ApprovalInv'
  <1>1. PICK k \in DOMAIN request :
           /\ Pending = {k} /\ Unlocked(k) /\ Approvable(s, request[k])
           /\ Finalize(s, k, request, Version)
    BY DEF ApproveOnSubmission
  <1>2. Well(request) /\ Continues(request, k) /\ Decidable(s, k, request, Version)
    BY <1>1, PendingDecidable DEF ApprovalInv, Continues
  <1> QED
    BY <1>1, <1>2, FinalizeKeeps

\* The check of an approver, who holds the request from here on, keeps the
\* invariant.
LEMMA CheckRequestKeeps == ASSUME ApprovalInv, NEW s \in Session, CheckRequest(s)
                           PROVE ApprovalInv'
  <1> USE DEF ApprovalInv
  <1>1. PICK k \in DOMAIN request :
           /\ session[s].pc = "approving" /\ Pending = {k} /\ Unlocked(k)
           /\ Approvable(s, request[k])
           /\ session' = [session EXCEPT ![s] =
                             [@ EXCEPT !.pc = "posting", !.target = k, !.checked = Version]]
           /\ UNCHANGED <<document, request, decision>>
    BY DEF CheckRequest
  <1>2. session[s] \in Activity /\ Version \in 1 .. MaxVersions /\ k \in 0 .. MaxRequests
    BY BoundAssumption, LenProperties DEF TypeOK
  <1>3. PICK now : now = [session[s] EXCEPT !.pc = "posting", !.target = k, !.checked = Version]
    OBVIOUS
  <1>4. /\ now \in Activity /\ now.pc = "posting" /\ now.target = k /\ now.checked = Version
        /\ now.user = session[s].user /\ now.version = session[s].version
        /\ now.docstatus = session[s].docstatus
    <2>1. Version \in 0 .. MaxVersions
      BY <1>2, BoundAssumption
    <2>2. session[s] = [pc |-> session[s].pc, user |-> session[s].user,
                        docstatus |-> session[s].docstatus, version |-> session[s].version,
                        target |-> session[s].target, checked |-> session[s].checked]
      BY <1>2 DEF Activity
    <2>3. now = [pc |-> "posting", user |-> session[s].user,
                 docstatus |-> session[s].docstatus, version |-> session[s].version,
                 target |-> k, checked |-> Version]
      BY <1>3, <2>2
    <2> HIDE DEF ApprovalInv
    <2> QED
      BY <1>2, <2>1, <2>3 DEF Activity
  <1>5. /\ session' \in [Session -> Activity] /\ session'[s] = now
        /\ \A t \in Session : t # s => session'[t] = session[t]
    <2>1. session \in [Session -> Activity] /\ session' = [session EXCEPT ![s] = now]
      BY <1>1, <1>3 DEF TypeOK
    <2> HIDE DEF ApprovalInv
    <2> QED
      BY <2>1, <1>4
  <1>6. /\ Well(request)' /\ ApprovedOnce' /\ Signed' /\ Version' = Version /\ Pending' = Pending
        /\ SubmissionApproved(request)' <=> SubmissionApproved(request)
    BY <1>1, TablesKept
  <1>7. TypeOK'
    BY <1>1, <1>5, <1>6 DEF TypeOK, document
  <1>8. Loaded'
    BY <1>1, <1>4, <1>5, <1>6 DEF Loaded
  <1>9. Waiting'
    BY <1>1, <1>4, <1>5, <1>6 DEF Waiting, document
  <1>10. Decidable(s, k, request, Version)
    BY <1>1, PendingDecidable
  <1>11. edits' = edits /\ request' = request
    BY <1>1 DEF document
  <1>12. Checked'
    <2>1. ASSUME NEW t \in Session, t # s, session'[t].pc = "posting"
          PROVE  session'[t] = session[t] /\ session[t].target # k
      BY <2>1, <1>5, <1>10 DEF Decidable
    <2> QED
      BY <2>1, <1>4, <1>5, <1>6, <1>10, <1>11 DEF Checked, Decidable, CanApprove
  <1> QED
    BY <1>6, <1>7, <1>8, <1>9, <1>12

\* A request that is created, whether it is decided at once or not.
LEMMA NewRequestWell ==
    ASSUME ApprovalInv, NEW s \in Session, NEW kind \in {"submit", "cancel"},
           Requests(kind, InForce) = {}, Len(request) < MaxRequests,
           kind = "cancel" => session[s].pc = "cancelling"
    PROVE  LET r == NewRequest(kind, s)
               n == Len(request) + 1
               after == Append(request, r)
           IN /\ r \in ApprovalRequest /\ r.status = "Pending" /\ Frozen(r)
              /\ Well(after) /\ Continues(after, n) /\ after[n] = r
              /\ n \notin DOMAIN request /\ Len(after) = n /\ n \in Nat
  <1> DEFINE r == NewRequest(kind, s)
             n == Len(request) + 1
             after == Append(request, r)
  <1>1. r \in ApprovalRequest /\ r.status = "Pending" /\ r.kind = kind /\ Frozen(r)
    BY NewRequestFrozen DEF ApprovalInv
  <1>2. kind = "cancel" => SubmissionApproved(request)
    BY DEF ApprovalInv, Loaded
  <1> HIDE DEF r
  <1>3. Well(after)
    BY <1>1, <1>2, AppendedWell DEF ApprovalInv
  <1>4. /\ Continues(after, n) /\ after[n] = r /\ n \notin DOMAIN request
        /\ Len(after) = n /\ n \in Nat
    BY <1>1, AppendProperties, LenProperties DEF ApprovalInv, Well, Continues
  <1> QED
    BY <1>1, <1>3, <1>4 DEF r

\* Every edit, made or open, was opened before a request that is created now.
LEMMA EditsPrecede ==
    ASSUME ApprovalInv
    PROVE  /\ \A v \in 1 .. Version : edits[v].opened < Len(request) + 1
           /\ \A s \in Session : session[s].pc = "editing" => session[s].target < Len(request) + 1
           /\ \A s \in Session : session[s].pc = "posting" => session[s].target # Len(request) + 1
  <1>1. Len(request) \in Nat /\ DOMAIN request = 1 .. Len(request)
    BY LenProperties DEF ApprovalInv, TypeOK
  <1>2. \A v \in 1 .. Version : edits[v].opened \in Nat
    BY Versions, BoundAssumption DEF ApprovalInv
  <1>3. \A s \in Session : session[s].target \in Nat
    BY BoundAssumption DEF ApprovalInv, TypeOK, Activity
  <1> QED
    BY <1>1, <1>2, <1>3 DEF ApprovalInv, Signed, Loaded, Checked

\* Requesting and approving in one transaction, as an approver who submits does,
\* keeps the invariant.
LEMMA RequestAndApproveKeeps ==
    ASSUME ApprovalInv, NEW s \in Session, RequestAndApprove(s) PROVE ApprovalInv'
  <1> DEFINE r == NewRequest("submit", s)
             n == Len(request) + 1
             after == Append(request, r)
  <1>1. /\ Requests("submit", InForce) = {} /\ Len(request) < MaxRequests
        /\ Approvable(s, r) /\ Finalize(s, n, after, Version)
    BY DEF RequestAndApprove, Requests, Pending, InForce
  <1>2. /\ Well(after) /\ Continues(after, n) /\ after[n] = r /\ r.status = "Pending"
    BY <1>1, NewRequestWell
  <1> HIDE DEF r, n, after
  <1>3. n \in DOMAIN after
    BY <1>2 DEF Continues
  <1>4. /\ \A v \in 1 .. Version : edits[v].opened < n
        /\ \A t \in Session : session[t].pc = "posting" => session[t].target # n
    BY EditsPrecede DEF n
  <1>5. Version \in 1 .. Version
    BY Versions DEF ApprovalInv
  <1>6. Decidable(s, n, after, Version)
    BY <1>1, <1>2, <1>3, <1>4, <1>5 DEF Approvable, SnapshotMatches, Decidable
  <1> QED
    BY <1>1, <1>2, <1>6, FinalizeKeeps

\* request_approval and request_cancellation: the table with one request more.
LEMMA RequestKeeps ==
    ASSUME ApprovalInv, NEW s \in Session, NEW kind \in {"submit", "cancel"},
           Requests(kind, InForce) = {}, Len(request) < MaxRequests,
           session[s].pc \in {"submitting", "cancelling"},
           kind = "cancel" => session[s].pc = "cancelling",
           request' = Append(request, NewRequest(kind, s)),
           Done(s), UNCHANGED <<document, decision>>
    PROVE  ApprovalInv'
  <1> DEFINE r == NewRequest(kind, s)
             n == Len(request) + 1
             after == Append(request, r)
  <1>1. /\ r \in ApprovalRequest /\ r.status = "Pending"
        /\ Well(after) /\ Continues(after, n) /\ after[n] = r
        /\ n \notin DOMAIN request /\ Len(after) = n /\ n \in Nat
    BY NewRequestWell
  <1>2. /\ \A v \in 1 .. Version : edits[v].opened < n
        /\ \A t \in Session : session[t].pc = "editing" => session[t].target < n
    BY EditsPrecede
  <1>3. Len(request) \in Nat /\ Len(request) <= n
    BY LenProperties DEF ApprovalInv, TypeOK
  <1> HIDE DEF r, n, after
  <1>4. request' = after
    BY DEF r, after
  <1>5. Version' = Version /\ Version \in 1 .. MaxVersions /\ edits' = edits
    BY DEF ApprovalInv, TypeOK, document, Version
  <1>6. /\ session' \in [Session -> Activity]
        /\ session'[s] = Idle /\ Idle.pc = "idle" /\ Idle.docstatus = 0 /\ Idle.version = 1
        /\ \A t \in Session : t # s => session'[t] = session[t]
    BY DoneLeaves DEF ApprovalInv
  <1>7. Well(request)'
    BY <1>1, <1>4, <1>5
    DEF Well, document, Frozen, Decided, CanApprove, OneOfAKind, CancelsSubmitted, PostedFrom,
        SubmissionApproved, Approved
  <1>8. ApprovedOnce'
    BY DEF ApprovalInv, ApprovedOnce
  <1>9. DOMAIN request \subseteq DOMAIN request'
    BY <1>1, <1>4 DEF Continues
  <1>10. TypeOK'
    BY <1>1, <1>4, <1>5, <1>6, <1>9 DEF ApprovalInv, TypeOK, Well, document
  <1>11. SubmissionApproved(request) => SubmissionApproved(request)'
    BY <1>1, <1>4 DEF ApprovalInv, TypeOK, SubmissionApproved, Approved, Continues
  <1>12. Loaded'
    <2>1. Len(request') = n
      BY <1>1, <1>4
    <2>2. \A t \in Session : session[t].pc = "editing" => session[t].target <= n
      BY <1>1, <1>2, BoundAssumption DEF ApprovalInv, TypeOK, Activity
    <2> QED
      BY <2>1, <2>2, <1>5, <1>6, <1>9, <1>11, BoundAssumption DEF ApprovalInv, Loaded
  <1>13. Signed'
    <2>1. \A v \in 1 .. Version : edits[v].opened <= n
      BY <1>1, <1>2, Versions, BoundAssumption DEF ApprovalInv
    <2> QED
      BY <2>1, <1>1, <1>4, <1>5 DEF ApprovalInv, Signed
  <1>14. Waiting'
    <2>1. \A k \in Pending' : k \in Pending \/ k = n
      BY <1>1, <1>4 DEF Pending, Continues
    <2> QED
      BY <2>1, <1>2, <1>5, <1>6 DEF ApprovalInv, Waiting
  <1>15. Checked'
    <2>1. \A t \in Session : session'[t].pc = "posting" => t # s /\ session'[t] = session[t]
      BY <1>6
    <2>2. \A k \in DOMAIN request : k \in DOMAIN request' /\ request'[k] = request[k]
      BY <1>1, <1>4 DEF Continues
    <2> QED
      BY <2>1, <2>2, <1>5 DEF ApprovalInv, Checked, CanApprove
  <1> QED
    BY <1>7, <1>8, <1>10, <1>12, <1>13, <1>14, <1>15 DEF ApprovalInv

\* A rejection overtakes what it finds: the approval no longer stands.
LEMMA RejectKeeps == ASSUME ApprovalInv, NEW s \in Session, Reject(s) PROVE ApprovalInv'
  <1> USE DEF ApprovalInv
  <1>0. PICK k, made :
           k = session[s].target /\ made = [request |-> k, user |-> session[s].user, action |-> "reject"]
    OBVIOUS
  <1>1. session[s] \in Activity /\ k \in DOMAIN request
    BY <1>0 DEF TypeOK, Loaded, Reject
  <1>2. request \in Seq(ApprovalRequest) /\ Len(request) <= MaxRequests
    BY DEF Well
  <1>3. /\ request' \in Seq(ApprovalRequest)
        /\ Len(request') = Len(request) /\ DOMAIN request' = DOMAIN request
        /\ \A j \in DOMAIN request :
              /\ request'[j].kind = request[j].kind
              /\ request'[j].loaded = request[j].loaded
              /\ request'[j].lines = request[j].lines
              /\ request'[j].preparers = request[j].preparers
              /\ request'[j].status = IF j = k THEN "Rejected" ELSE request[j].status
    BY <1>0, <1>1, <1>2, StatusSet DEF Reject
  <1>4. /\ decision' = decision \cup {made} /\ edits' = edits /\ Version' = Version
        /\ posted' = posted /\ docstatus' = docstatus /\ four_eyes' = four_eyes
        /\ \A t \in Session : session[t].pc = "posting" => session[t].target # k
    BY <1>0 DEF Reject, document, Version, Unlocked
  <1>5. k \in 1 .. MaxRequests /\ made \in Decision
    BY <1>0, <1>1, <1>2, LenProperties, BoundAssumption DEF Activity, Decision
  <1>6. /\ session' \in [Session -> Activity]
        /\ session'[s] = Idle /\ Idle.pc = "idle" /\ Idle.docstatus = 0 /\ Idle.version = 1
        /\ \A t \in Session : t # s => session'[t] = session[t]
    BY DoneLeaves DEF Reject
  <1>7. TypeOK'
    BY <1>0, <1>1, <1>2, <1>3, <1>4, <1>5, <1>6 DEF TypeOK
  <1>8. \A d \in decision : d.request \in DOMAIN request
    BY DEF TypeOK
  <1>9. \A d \in decision, kind \in {"submit", "cancel"} :
           Approved(d, kind, request) => Approved(d, kind, request)'
    BY <1>3, <1>4, <1>8 DEF Approved
  <1>10. \A j \in DOMAIN request' : Frozen(request[j])'
    BY <1>3, <1>4 DEF Well, Frozen
  <1>11. Decided(request)'
    <2>1. made \in decision' /\ made.request = k /\ made.action = "reject"
      BY <1>0, <1>4
    <2>2. \A d \in decision' : d = made \/ d \in decision
      BY <1>4
    <2>3. made.request \in DOMAIN request' /\ request'[made.request].status # "Pending"
      BY <1>1, <1>3, <2>1
    <2>4. ASSUME NEW d \in decision, d.action = "approve"
          PROVE  /\ CanApprove(d.user, request[d.request].preparers)'
                 /\ \/ request'[d.request].status = "Approved"
                    \/ \E e \in decision' : e.request = d.request /\ e.action = "reject"
      BY <1>3, <1>4, <1>8, <2>1, <2>4 DEF Well, Decided, CanApprove
    <2>5. \A d \in decision : d.request \in DOMAIN request' /\ request'[d.request].status # "Pending"
      BY <1>3, <1>8 DEF Well, Decided
    <2> QED
      BY <2>1, <2>2, <2>3, <2>4, <2>5 DEF Decided
  <1>12. OneOfAKind(request)'
    BY <1>3 DEF Well, OneOfAKind, InForce
  <1>13. SubmissionApproved(request) => SubmissionApproved(request)'
    BY <1>4, <1>9 DEF SubmissionApproved
  <1>14. CancelsSubmitted(request)'
    BY <1>3, <1>4, <1>13 DEF Well, CancelsSubmitted
  <1>15. PostedFrom(request)'
    BY <1>3, <1>4 DEF Well, PostedFrom, CanApprove
  <1>16. Well(request)'
    BY <1>2, <1>3, <1>10, <1>11, <1>12, <1>14, <1>15 DEF Well
  <1>17. ApprovedOnce'
    BY <1>0, <1>4 DEF ApprovedOnce
  <1>18. Loaded'
    BY <1>3, <1>4, <1>6, <1>13, BoundAssumption DEF Loaded, TypeOK
  <1>19. Signed'
    BY <1>3, <1>4 DEF Signed
  <1>20. Waiting'
    <2>1. Pending' \subseteq Pending
      BY <1>3 DEF Pending
    <2> QED
      BY <2>1, <1>4, <1>6 DEF Waiting
  <1>21. Checked'
    <2>1. ASSUME NEW t \in Session, session'[t].pc = "posting"
          PROVE  session'[t] = session[t] /\ session[t].target # k
      BY <2>1, <1>4, <1>6
    <2> QED
      BY <2>1, <1>3, <1>4 DEF Checked, CanApprove
  <1> QED
    BY <1>7, <1>16, <1>17, <1>18, <1>19, <1>20, <1>21

\* Every step keeps the invariant.
LEMMA NextApproval == ApprovalInv /\ [Next]_vars => ApprovalInv'
  <1> SUFFICES ASSUME ApprovalInv, [Next]_vars PROVE ApprovalInv'
    OBVIOUS
  <1>1. CASE SetFourEyes
    BY <1>1, SetFourEyesKeeps
  <1>2. ASSUME NEW s \in Session, NEW u \in User,
               OpenEdit(s, u) \/ OpenSubmit(s, u) \/ OpenCancel(s, u)
                   \/ OpenApprove(s, u) \/ OpenReject(s, u)
        PROVE  ApprovalInv'
    <2>1. /\ 0 \in 0 .. MaxRequests /\ DOMAIN request \subseteq 0 .. MaxRequests
          /\ Len(request) \in 0 .. MaxRequests
      BY BoundAssumption, LenProperties DEF ApprovalInv, Well
    <2>2. CASE OpenEdit(s, u)
      BY <2>1, <2>2, LoadKeeps DEF OpenEdit
    <2>3. CASE OpenSubmit(s, u)
      BY <2>1, <2>3, LoadKeeps DEF OpenSubmit
    <2>4. CASE OpenCancel(s, u)
      BY <2>1, <2>4, LoadKeeps DEF OpenCancel
    <2>5. CASE OpenApprove(s, u)
      BY <2>1, <2>5, LoadKeeps DEF OpenApprove
    <2>6. CASE OpenReject(s, u)
      BY <2>1, <2>6, LoadKeeps DEF OpenReject
    <2> QED
      BY <1>2, <2>2, <2>3, <2>4, <2>5, <2>6
  <1>3. ASSUME NEW s \in Session, WriteEdit(s) PROVE ApprovalInv'
    BY <1>3, WriteEditKeeps
  <1>4. ASSUME NEW s \in Session, RequestApproval(s) PROVE ApprovalInv'
    <2>1. Requests("submit", InForce) = {}
      BY <1>4 DEF RequestApproval, InForce
    <2> QED
      BY <1>4, <2>1, RequestKeeps DEF RequestApproval
  <1>5. ASSUME NEW s \in Session, RequestCancellation(s) PROVE ApprovalInv'
    <2>1. Requests("cancel", InForce) = {}
      BY <1>5 DEF RequestCancellation, InForce
    <2> QED
      BY <1>5, <2>1, RequestKeeps DEF RequestCancellation
  <1>6. ASSUME NEW s \in Session,
               CheckRequest(s) \/ ApproveChecked(s) \/ ApproveOnSubmission(s)
        PROVE  ApprovalInv'
    BY <1>6, CheckRequestKeeps, ApproveCheckedKeeps, ApproveOnSubmissionKeeps
  <1>7. ASSUME NEW s \in Session, RequestAndApprove(s) PROVE ApprovalInv'
    BY <1>7, RequestAndApproveKeeps
  <1>8. ASSUME NEW s \in Session, Reject(s) PROVE ApprovalInv'
    BY <1>8, RejectKeeps
  <1>9. ASSUME NEW s \in Session, GiveUp(s) PROVE ApprovalInv'
    BY <1>9, GiveUpKeeps
  <1>10. CASE UNCHANGED vars
    <2>1. TypeOK' /\ Loaded' /\ Waiting' /\ Checked'
      BY <1>10 DEF vars, document, ApprovalInv, TypeOK, Loaded, Version, Waiting, Pending,
         Checked, CanApprove, SubmissionApproved, Approved
    <2> QED
      BY <1>10, <2>1, TablesKept DEF vars, document, ApprovalInv
  <1> QED
    BY <1>1, <1>2, <1>3, <1>4, <1>5, <1>6, <1>7, <1>8, <1>9, <1>10 DEF Next

-----------------------------------------------------------------------------
(* What follows from the invariant                                         *)

\* A set whose elements are all equal has at most one.
LEMMA AtMostOne ==
    ASSUME NEW S, \A x, y \in S : x = y
    PROVE  Cardinality(S) <= 1
  <1>1. CASE S = {}
    BY <1>1, FS_EmptySet
  <1>2. CASE S # {}
    <2>1. PICK x \in S : TRUE
      BY <1>2
    <2>2. S = {x}
      BY <2>1
    <2> QED
      BY <2>2, FS_Singleton
  <1> QED
    BY <1>1, <1>2

\* An approval nothing has overtaken keeps its request in force.
LEMMA ApprovalStands ==
    ASSUME ApprovalInv, ~Overtaken, NEW d \in decision, d.action = "approve"
    PROVE  d.request \in DOMAIN request /\ request[d.request].status = "Approved"
  BY DEF ApprovalInv, Well, Decided, Overtaken

\* The invariant forbids a second execution.
LEMMA ExecutedOnceHolds == ApprovalInv => ExecutedOnce
  <1> SUFFICES ASSUME ApprovalInv, ~Overtaken, NEW kind \in {"submit", "cancel"}
               PROVE  Cardinality(Approvals(kind)) <= 1
    BY DEF ExecutedOnce
  <1>1. ASSUME NEW d \in Approvals(kind), NEW e \in Approvals(kind) PROVE d = e
    <2>1. /\ d \in decision /\ d.action = "approve" /\ request[d.request].kind = kind
          /\ e \in decision /\ e.action = "approve" /\ request[e.request].kind = kind
      BY DEF Approvals
    <2>2. /\ d.request \in DOMAIN request /\ request[d.request].status = "Approved"
          /\ e.request \in DOMAIN request /\ request[e.request].status = "Approved"
      BY <2>1, ApprovalStands
    <2>3. d.request = e.request
      BY <2>1, <2>2 DEF ApprovalInv, Well, OneOfAKind, InForce
    <2> QED
      BY <2>1, <2>3 DEF ApprovalInv, ApprovedOnce
  <1> QED
    BY <1>1, AtMostOne

\* The invariant forbids two pending requests of one kind.
LEMMA OnePendingHolds == ApprovalInv => OnePending
  <1> SUFFICES ASSUME ApprovalInv, ~Overtaken PROVE Cardinality(Pending) <= 1
    BY DEF OnePending
  <1>1. \A j \in DOMAIN request : request[j] \in ApprovalRequest
    BY ElementOfSeq, LenProperties DEF ApprovalInv, Well
  <1>2. ASSUME NEW j \in Pending, NEW k \in Pending, request[k].kind = "cancel"
        PROVE  request[j].kind = "cancel"
    <2>1. PICK d \in decision : d.action = "approve" /\ request[d.request].kind = "submit"
      BY <1>2 DEF ApprovalInv, Well, CancelsSubmitted, SubmissionApproved, Approved,
         Pending
    <2>2. d.request \in DOMAIN request /\ request[d.request].status = "Approved"
      BY <2>1, ApprovalStands
    <2>3. request[j].kind # "submit"
      BY <2>1, <2>2 DEF ApprovalInv, Well, OneOfAKind, InForce, Pending
    <2> QED
      BY <1>1, <2>3 DEF Pending, ApprovalRequest
  <1>3. ASSUME NEW j \in Pending, NEW k \in Pending PROVE j = k
    <2>1. request[j].kind = request[k].kind
      BY <1>1, <1>2 DEF Pending, ApprovalRequest
    <2> QED
      BY <2>1 DEF ApprovalInv, Well, OneOfAKind, InForce, Pending
  <1> QED
    BY <1>3, AtMostOne

-----------------------------------------------------------------------------

\* The inductive invariant of the approval of a document: requests name the
\* users of the header they froze, whoever approved was admitted by the request,
\* no edit is opened while a request is pending, an approver who has checked a
\* request still holds it, and an approved request of a kind excludes another
\* (approve, reject, request_approval and request_cancellation of
\* approval_engine.py).
THEOREM ApprovalInvariant == Spec => []ApprovalInv
  BY InitApproval, NextApproval, PTL DEF Spec

\* The variables keep their types: versions, requests and decisions are of
\* this document and within its tables.
THEOREM ApprovalTypeCorrect == Spec => []TypeOK
  <1>1. ApprovalInv => TypeOK
    BY DEF ApprovalInv
  <1> QED
    BY <1>1, ApprovalInvariant, PTL

\* The invariant says what may be posted on the authority of a request.
LEMMA PostedAsRequestedHolds == ApprovalInv => PostedAsRequested
  BY DEF ApprovalInv, Well, PostedFrom, PostedAsRequested

\* The last user of a version that raced with nothing is a preparer of the
\* request on which it was posted.
LEMMA AuthorNeverApprovesHolds == ApprovalInv => AuthorNeverApproves
  <1> SUFFICES ASSUME ApprovalInv, NEW p \in posted, request[p.request].preparers # {},
                      NEW author \in {Creator} \cup (IF Raced(p) THEN {} ELSE {edits[p.lines].author})
               PROVE  p.user # author /\ Rank[p.user] >= Rank[author]
    BY DEF AuthorNeverApproves
  <1>1. PICK r : r = request[p.request]
    OBVIOUS
  <1>2. /\ p.request \in DOMAIN request /\ p.lines \in 1 .. Version
        /\ CanApprove(p.user, r.preparers) /\ r.lines <= p.lines
        /\ edits[p.lines].opened < p.request
    BY <1>1 DEF ApprovalInv, Well, PostedFrom
  <1>3. Frozen(r)
    BY <1>1, <1>2 DEF ApprovalInv, Well
  <1>4. author \in r.preparers
    <2>1. CASE author = Creator
      BY <2>1, <1>1, <1>3 DEF Frozen
    <2>2. CASE author # Creator
      <3>1. ~Raced(p) /\ author = edits[p.lines].author
        BY <2>2
      <3>2. p.lines = r.loaded
        BY <3>1, <1>1, <1>2, <1>3, Versions DEF ApprovalInv, Raced, Frozen
      <3>3. author \in edits[p.lines].modified_by
        BY <2>2, <3>1, <1>2 DEF ApprovalInv, Raced, Signed
      <3> QED
        BY <3>2, <3>3, <1>1, <1>3 DEF Frozen
    <2> QED
      BY <2>1, <2>2
  <1> QED
    BY <1>2, <1>4 DEF CanApprove

\* Whatever is edited, requested and approved at the same time, what is posted
\* is what its request froze, but for lines that were committed after the
\* approver's check by an edit opened before the request
\* (_assert_approval_snapshot, ensure_document_editable).
THEOREM AlwaysPostedAsRequested == Spec => []PostedAsRequested
  BY PostedAsRequestedHolds, ApprovalInvariant, PTL

\* Under four eyes nobody approves what they created, or lines they wrote by an
\* edit that raced with nothing, and nobody who ranks below those authors does
\* (_independent_policy, build_policy).
THEOREM NoAuthorEverApproves == Spec => []AuthorNeverApproves
  BY AuthorNeverApprovesHolds, ApprovalInvariant, PTL

\* However many senders and approvers there are, a document is submitted once
\* and cancelled once, unless a rejection overtook an approval (approve).
THEOREM AlwaysExecutedOnce == Spec => []ExecutedOnce
  BY ExecutedOnceHolds, ApprovalInvariant, PTL

\* Two requests never wait at once, unless a rejection overtook an approval
\* (_pending_request, which raises on two).
THEOREM AlwaysOnePending == Spec => []OnePending
  BY OnePendingHolds, ApprovalInvariant, PTL

-----------------------------------------------------------------------------
(* What the engine approves: the deliveries and invoices of sales orders.   *)
(* SalesFulfilment is instantiated, its sessions under another name.  For   *)
(* any number of orders, notes, invoices and sessions: the types with the   *)
(* stock that follows the deliveries, the quantities that stay within their *)
(* source, and the reservation.                                             *)
(*                                                                         *)
(* Every action is one of a few kinds of step (SalesSteps): orderly with    *)
(* the rows of documents, orders and sessions (Orderly), and either without *)
(* effect on the delivered notes (Rests) or the delivery (Ships) or the     *)
(* cancellation (Returns) of one note; the same for invoices (Unbilled,     *)
(* Bills).  The quantities are reasoned about over the kinds.               *)

CONSTANTS Order, Note, Invoice, Ordered, Drafted, Stock, NoDoc

VARIABLES approvals, order, doc, actual, reserved, work

Sales == INSTANCE SalesFulfilment WITH session <- work

\* The sums and the finite sets of SalesFulfilment are those of SumTheorems.
LEMMA SameSums ==
    /\ \A f, S : Sales!SumFunctionOnSet(f, S) = SumFunctionOnSet(f, S)
    /\ \A S : Sales!IsFiniteSet(S) <=> IsFiniteSet(S)
  <1>1. \A f, S : Sales!SumFunctionOnSet(f, S) = SumFunctionOnSet(f, S)
    BY Zenon DEF Sales!SumFunctionOnSet, SumFunctionOnSet, Sales!FoldFunctionOnSet,
       FoldFunctionOnSet, Sales!MapThenFoldSet, MapThenFoldSet
  <1>2. \A S : Sales!IsFiniteSet(S) <=> IsFiniteSet(S)
    BY Zenon DEF Sales!IsFiniteSet, IsFiniteSet
  <1> QED
    BY <1>1, <1>2

\* What is assumed of the constants.
LEMMA SalesConstants ==
    ASSUME Sales!SalesAssumption
    PROVE  /\ Ordered \in [Order -> Nat \ {0}] /\ Stock \in Nat
           /\ Drafted \subseteq Nat \ {0}
           /\ Order \cap Sales!Target = {} /\ Note \cap Invoice = {}
           /\ NoDoc \notin Order \cup Sales!Target
           /\ IsFiniteSet(Order) /\ IsFiniteSet(Sales!Target)
  BY SameSums DEF Sales!SalesAssumption

\* A row of sales_order, and what a session may be doing.
OrderRow == [docstatus : 0 .. 2, closed : BOOLEAN, closed_qty : Nat]

SalesActivity ==
    [op : {"idle", "submit", "cancel", "close", "reject", "release"},
     target : Order \cup Sales!Target \cup {NoDoc}, delivered : Nat, closing : Nat]

\* The types of the variables.
SalesTypes ==
    /\ approvals \in BOOLEAN
    /\ order \in [Order -> OrderRow]
    /\ doc \in [Sales!Target -> Sales!TargetRow]
    /\ actual \in Nat /\ reserved \in Nat
    /\ work \in [Session -> SalesActivity]

\* A document without a source was never drafted, a note is for an order, and
\* an order that something was made from, or that is closed, was submitted.
SourcesStand ==
    /\ \A d \in Sales!Target : doc[d].source = NoDoc => doc[d] = Sales!Blank
    /\ \A n \in Note : doc[n].source \in Order \cup {NoDoc}
    /\ \A d \in Sales!Target : doc[d].source \in Order => order[doc[d].source].docstatus # 0
    /\ \A o \in Order : order[o].closed => order[o].docstatus # 0

\* What a session has found of its document and nobody can take back.
SessionsStand ==
    \A s \in Session :
        /\ work[s].op \in {"submit", "cancel", "reject"} /\ work[s].target \in Sales!Target
               => doc[work[s].target].source # NoDoc
        /\ work[s].op \in {"cancel", "close", "release"} /\ work[s].target \in Order
               => order[work[s].target].docstatus # 0

\* Without the engine nothing waits for approval.
NothingPending == ~approvals => \A d \in Sales!Target : ~doc[d].pending

\* What a submitted note took from the warehouse.
Shipped(n) == IF doc[n].docstatus = 1 THEN doc[n].qty ELSE 0

\* The warehouse holds what was there less what the submitted notes took.
StockFollows == actual = Stock - SumFunctionOnSet([n \in Note |-> Shipped(n)], Note)

\* What counts against the source never exceeds it.
ConsumedWithin ==
    /\ approvals \/ \A o \in Order : Sales!Consumed(Note, o) <= Ordered[o]
    /\ \A src \in Order \cup Note : Sales!Consumed(Invoice, src) <= Sales!SourceQty(src)

\* The inductive invariant.
SalesInv ==
    SalesTypes /\ SourcesStand /\ SessionsStand /\ NothingPending /\ StockFollows /\ ConsumedWithin

\* The part that rests on no quantity.
SalesStands == SalesTypes /\ SourcesStand /\ SessionsStand /\ NothingPending

-----------------------------------------------------------------------------
(* What a step may do to a document and to an order                        *)

\* A document stays one that may be, with the source it has.
RowStep(d) ==
    /\ doc'[d] \in Sales!TargetRow
    /\ doc'[d].source = NoDoc => doc'[d] = Sales!Blank
    /\ d \in Note => doc'[d].source \in Order \cup {NoDoc}
    /\ doc'[d].source \in Order => order[doc'[d].source].docstatus # 0
    /\ doc[d].source # NoDoc => doc'[d].source = doc[d].source
    /\ ~approvals => ~doc'[d].pending

DocStep == doc' = [d \in Sales!Target |-> doc'[d]] /\ \A d \in Sales!Target : RowStep(d)

\* An order that was submitted never is a draft again.
OrderStep ==
    /\ order' \in [Order -> OrderRow]
    /\ \A o \in Order : /\ order[o].docstatus # 0 => order'[o].docstatus # 0
                        /\ order'[o].closed => order'[o].docstatus # 0

\* What is submitted of a document stays as it is.
Kept(d) ==
    /\ doc'[d].docstatus = 1 <=> doc[d].docstatus = 1
    /\ doc[d].docstatus = 1 =>
         /\ doc'[d].source = doc[d].source /\ doc'[d].qty = doc[d].qty
         /\ doc'[d].related => doc[d].related

\* A note takes its quantity from the bin, and without approvals only what its
\* order still has.
Ships(n) ==
    LET q == doc'[n].qty
        o == doc'[n].source
    IN /\ doc[n].docstatus # 1 /\ doc'[n].docstatus = 1 /\ o \in Order
       /\ \A m \in Note \ {n} : Kept(m)
       /\ actual >= q /\ actual' = actual - q /\ reserved' = Sales!NotNegative(reserved - q)
       /\ ~approvals /\ doc'[n].related => Sales!Consumed(Note, o) + q <= Ordered[o]
       /\ UNCHANGED order

\* It is put back.
Returns(n) ==
    /\ doc[n].docstatus = 1 /\ doc'[n].docstatus # 1
    /\ \A m \in Note \ {n} : Kept(m)
    /\ actual' = actual + doc[n].qty /\ reserved' = reserved + doc[n].qty
    /\ UNCHANGED order

\* The notes are left alone.
Rests == (\A n \in Note : Kept(n)) /\ UNCHANGED actual

\* An invoice bills what its source still has.
Bills(i) ==
    /\ doc[i].docstatus # 1 /\ doc'[i].docstatus = 1
    /\ doc'[i].source = doc[i].source /\ doc'[i].qty = doc[i].qty
    /\ doc'[i].related => doc[i].related
    /\ doc[i].related => Sales!Consumed(Invoice, doc[i].source) + doc[i].qty <= Sales!SourceQty(doc[i].source)
    /\ \A j \in Invoice \ {i} : Kept(j)

\* The other steps leave the invoices alone or cancel them.
Unbilled == \A i \in Invoice : Kept(i) \/ doc'[i].docstatus # 1

\* What was billed for a note is never more than before.
SourcesGrow == \A n \in Note : doc'[n].qty >= doc[n].qty

\* A session ends, or holds what it found.
SessionStep ==
    /\ work' \in [Session -> SalesActivity]
    /\ \A s \in Session :
         LET op == work'[s].op
             d == work'[s].target
         IN \/ work'[s] = work[s]
            \/ /\ op \in {"submit", "cancel", "reject"} /\ d \in Sales!Target => doc[d].source # NoDoc
               /\ op \in {"cancel", "close", "release"} /\ d \in Order => order[d].docstatus # 0

\* All of that.
Orderly ==
    /\ DocStep /\ OrderStep /\ SessionStep /\ UNCHANGED approvals
    /\ actual' \in Nat /\ reserved' \in Nat

\* What a step does to the notes, the bin and the orders, and to the invoices.
NoteStep ==
    \/ /\ Rests
       /\ \/ UNCHANGED <<order, reserved>>
          \/ \E s \in Session : Sales!SubmitOrder(s) \/ Sales!CancelOrder(s) \/ Sales!CloseOrder(s)
    \/ \E n \in Note : Ships(n) \/ Returns(n)

InvoiceStep == SourcesGrow /\ (Unbilled \/ \E i \in Invoice : Bills(i))

-----------------------------------------------------------------------------
(* Rows                                                                    *)

\* A new draft has every type.
LEMMA BlankRow == Sales!Blank \in Sales!TargetRow
  BY DEF Sales!Blank, Sales!TargetRow

\* A row that keeps its source stays one that may be.
LEMMA RowOfSource ==
    ASSUME SalesStands, NEW d \in Sales!Target, doc'[d] \in Sales!TargetRow, doc[d].source # NoDoc,
           doc'[d].source = doc[d].source, ~approvals => ~doc'[d].pending
    PROVE  RowStep(d)
  BY DEF SalesStands, SourcesStand, RowStep

\* So does a row that is left alone.
LEMMA RowUnchanged ==
    ASSUME SalesStands, NEW d \in Sales!Target, doc'[d] = doc[d]
    PROVE  RowStep(d) /\ Kept(d) /\ doc'[d].qty = doc[d].qty
  BY DEF SalesStands, SalesTypes, SourcesStand, NothingPending, RowStep, Kept

\* The fields that a revertal changes.
LEMMA RevertedFields ==
    ASSUME NEW r \in Sales!TargetRow, NEW x, x = [r EXCEPT !.related = FALSE]
    PROVE  /\ x \in Sales!TargetRow /\ x.source = r.source /\ x.qty = r.qty
           /\ x.docstatus = r.docstatus
           /\ x.related = FALSE /\ x.pending = r.pending
           /\ x.delivers = r.delivers /\ x.note = r.note
           /\ r = Sales!Blank => x = Sales!Blank
  <1>1. /\ x \in Sales!TargetRow /\ x.source = r.source /\ x.qty = r.qty
        /\ x.docstatus = r.docstatus
        /\ x.related = FALSE /\ x.pending = r.pending
        /\ x.delivers = r.delivers /\ x.note = r.note
    BY DEF Sales!TargetRow
  <1>2. ASSUME r = Sales!Blank PROVE x = Sales!Blank
    <2>1. x = [source |-> x.source, qty |-> x.qty, docstatus |-> x.docstatus,
               related |-> x.related, pending |-> x.pending,
               delivers |-> x.delivers, note |-> x.note]
      BY <1>1 DEF Sales!TargetRow
    <2>2. /\ r.source = NoDoc /\ r.qty = 0 /\ r.docstatus = 0
          /\ r.pending = FALSE /\ r.delivers = FALSE /\ r.note = NoDoc
      BY <1>2 DEF Sales!Blank
    <2> QED
      BY <1>1, <2>1, <2>2 DEF Sales!Blank
  <1> QED
    BY <1>1, <1>2

\* A row whose relation is reverted stays one that may be, and what is submitted
\* of it stays.
LEMMA RowReverted ==
    ASSUME SalesStands, NEW d \in Sales!Target, doc'[d] = [doc[d] EXCEPT !.related = FALSE]
    PROVE  RowStep(d) /\ Kept(d) /\ doc'[d].qty = doc[d].qty
  <1>1. doc[d] \in Sales!TargetRow
    BY DEF SalesStands, SalesTypes
  <1>2. /\ doc'[d] \in Sales!TargetRow /\ doc'[d].source = doc[d].source
        /\ doc'[d].qty = doc[d].qty
        /\ doc'[d].docstatus = doc[d].docstatus /\ ~doc'[d].related
        /\ doc'[d].pending = doc[d].pending /\ (doc[d] = Sales!Blank => doc'[d] = Sales!Blank)
    BY <1>1, RevertedFields
  <1>3. RowStep(d)
    BY <1>2 DEF SalesStands, SourcesStand, NothingPending, RowStep
  <1> QED
    BY <1>2, <1>3 DEF Kept

\* A row to which the status and the flags of the request change.
LEMMA StatusFields ==
    ASSUME NEW r \in Sales!TargetRow, NEW st \in 0 .. 2, NEW x,
           x = [r EXCEPT !.docstatus = st]
    PROVE  /\ x \in Sales!TargetRow /\ x.source = r.source /\ x.qty = r.qty /\ x.docstatus = st
           /\ x.related = r.related /\ x.pending = r.pending
           /\ x.delivers = r.delivers /\ x.note = r.note
  BY DEF Sales!TargetRow

\* The same of the request.
LEMMA PendingFields ==
    ASSUME NEW r \in Sales!TargetRow, NEW b \in BOOLEAN, NEW x,
           x = [r EXCEPT !.pending = b]
    PROVE  /\ x \in Sales!TargetRow /\ x.source = r.source /\ x.qty = r.qty
           /\ x.docstatus = r.docstatus
           /\ x.related = r.related /\ x.pending = b
           /\ x.delivers = r.delivers /\ x.note = r.note
  BY DEF Sales!TargetRow

\* The same of a submission.
LEMMA SubmittedFields ==
    ASSUME NEW r \in Sales!TargetRow, NEW x, x = [r EXCEPT !.docstatus = 1, !.pending = FALSE]
    PROVE  /\ x \in Sales!TargetRow /\ x.source = r.source /\ x.qty = r.qty /\ x.docstatus = 1
           /\ x.related = r.related /\ x.pending = FALSE
           /\ x.delivers = r.delivers /\ x.note = r.note
  <1> DEFINE y == [r EXCEPT !.docstatus = 1]
  <1>1. x = [y EXCEPT !.pending = FALSE]
    OBVIOUS
  <1>2. /\ y \in Sales!TargetRow /\ y.source = r.source /\ y.qty = r.qty /\ y.docstatus = 1
        /\ y.related = r.related /\ y.delivers = r.delivers /\ y.note = r.note
    BY StatusFields
  <1> HIDE DEF y
  <1>3. /\ x \in Sales!TargetRow /\ x.source = y.source /\ x.qty = y.qty
        /\ x.docstatus = y.docstatus
        /\ x.related = y.related /\ x.pending = FALSE
        /\ x.delivers = y.delivers /\ x.note = y.note
    BY <1>1, <1>2 DEF Sales!TargetRow
  <1> QED
    BY <1>2, <1>3

\* Another note for an invoice.
LEMMA NoteFields ==
    ASSUME NEW r \in Sales!TargetRow, NEW n \in Note, NEW x, x = [r EXCEPT !.note = n]
    PROVE  /\ x \in Sales!TargetRow /\ x.source = r.source /\ x.qty = r.qty
           /\ x.docstatus = r.docstatus
           /\ x.related = r.related /\ x.pending = r.pending
  BY DEF Sales!TargetRow

-----------------------------------------------------------------------------
(* Quantities                                                              *)

\* What a row counts against the source.
Counted(src, d) ==
    IF doc[d].source = src /\ doc[d].related /\ doc[d].docstatus = 1 THEN doc[d].qty ELSE 0

\* Some of the documents are finitely many, and what they count is a natural.
LEMMA TotalType ==
    ASSUME Sales!SalesAssumption, SalesTypes, NEW docs \in SUBSET Sales!Target
    PROVE  IsFiniteSet(docs) /\ Sales!Total(docs) \in Nat
  <1>1. IsFiniteSet(docs)
    BY SalesConstants, FS_Subset
  <1>2. \A d \in docs : [e \in docs |-> doc[e].qty][d] \in Nat
    BY DEF SalesTypes, Sales!TargetRow
  <1> QED
    BY <1>1, <1>2, SumNatural, SameSums DEF Sales!Total

\* Of fewer documents it is not more.
LEMMA TotalMonotone ==
    ASSUME Sales!SalesAssumption,
           SalesTypes, NEW docs \in SUBSET Sales!Target, NEW some \in SUBSET docs
    PROVE  Sales!Total(some) <= Sales!Total(docs)
  <1> DEFINE of == [d \in docs |-> doc[d].qty]
             least == [d \in docs |-> IF d \in some THEN doc[d].qty ELSE 0]
  <1>1. IsFiniteSet(docs) /\ IsFiniteSet(some) /\ Sales!Total(docs) \in Nat
          /\ Sales!Total(some) \in Nat
    BY TotalType
  <1>2. \A d \in docs : of[d] \in Int /\ least[d] \in Int /\ least[d] <= of[d]
    BY DEF SalesTypes, Sales!TargetRow
  <1>3. \A d \in docs \ some : least[d] = 0
    OBVIOUS
  <1>4. \A d \in some : [e \in some |-> doc[e].qty][d] \in Int
                        /\ [e \in some |-> doc[e].qty][d] = least[d]
    BY DEF SalesTypes, Sales!TargetRow
  <1>5. Sales!Total(docs) = SumFunctionOnSet(of, docs)
    BY SameSums DEF Sales!Total
  <1> HIDE DEF of, least
  <1>6. SumFunctionOnSet(least, docs) <= SumFunctionOnSet(of, docs)
    BY <1>1, <1>2, SumMonotone
  <1>7. SumFunctionOnSet(least, docs) = SumFunctionOnSet(least, some)
    BY <1>1, <1>2, <1>3, SumWithoutZeros
  <1>8. Sales!Total(some) = SumFunctionOnSet(least, some)
    BY <1>1, <1>4, SumSame, SameSums DEF Sales!Total
  <1> QED
    BY <1>5, <1>6, <1>7, <1>8

\* What is consumed is counted row by row.
LEMMA ConsumedIsSum ==
    ASSUME Sales!SalesAssumption, SalesTypes, NEW docs \in SUBSET Sales!Target, NEW src
    PROVE  /\ Sales!Consumed(docs, src) = SumFunctionOnSet([d \in docs |-> Counted(src, d)], docs)
           /\ Sales!Consumed(docs, src) \in Nat
           /\ \A d \in docs : Counted(src, d) \in Nat
  <1> DEFINE counted == [d \in docs |-> Counted(src, d)]
             S == {d \in Sales!From(src, docs) : doc[d].related /\ doc[d].docstatus = 1}
             of == [d \in S |-> doc[d].qty]
  <1>1. S \in SUBSET docs /\ S \in SUBSET Sales!Target
    BY DEF Sales!From
  <1>2. IsFiniteSet(docs) /\ IsFiniteSet(S) /\ Sales!Total(S) \in Nat
    BY <1>1, TotalType
  <1>3. \A d \in docs : Counted(src, d) \in Nat
    BY DEF SalesTypes, Sales!TargetRow, Counted
  <1>4. \A d \in docs \ S : counted[d] = 0
    BY DEF Counted, Sales!From
  <1>5. \A d \in S : of[d] \in Int /\ of[d] = counted[d]
    BY DEF SalesTypes, Sales!TargetRow, Counted, Sales!From
  <1>6. \A d \in docs : counted[d] \in Int
    BY <1>3
  <1>7. Sales!Consumed(docs, src) = SumFunctionOnSet(of, S)
          /\ Sales!Consumed(docs, src) = Sales!Total(S)
    BY SameSums DEF Sales!Consumed, Sales!Total
  <1> HIDE DEF counted, S, of
  <1>8. SumFunctionOnSet(counted, docs) = SumFunctionOnSet(counted, S)
    BY <1>1, <1>2, <1>4, <1>6, SumWithoutZeros
  <1>9. SumFunctionOnSet(of, S) = SumFunctionOnSet(counted, S)
    BY <1>2, <1>5, SumSame
  <1> QED
    BY <1>2, <1>3, <1>7, <1>8, <1>9 DEF counted

-----------------------------------------------------------------------------
(* What the invariant rests on is kept                                     *)

\* Orderly steps keep what rests on no quantity.
LEMMA OrderlyStands ==
    ASSUME SalesStands, Orderly
    PROVE  SalesStands'
  <1>1. SalesTypes'
    <2>1. doc' \in [Sales!Target -> Sales!TargetRow]
      BY DEF Orderly, DocStep, RowStep
    <2> QED
      BY <2>1 DEF SalesStands, SalesTypes, Orderly, OrderStep, SessionStep, OrderRow,
         Sales!TargetRow, SalesActivity
  <1>2. SourcesStand'
    <2>1. \A d \in Sales!Target : doc'[d].source = NoDoc => doc'[d] = Sales!Blank
      BY DEF Orderly, DocStep, RowStep
    <2>2. \A n \in Note : doc'[n].source \in Order \cup {NoDoc}
      BY DEF Orderly, DocStep, RowStep, Sales!Target
    <2>3. \A d \in Sales!Target : doc'[d].source \in Order => order'[doc'[d].source].docstatus # 0
      BY DEF Orderly, DocStep, RowStep, OrderStep
    <2>4. \A o \in Order : order'[o].closed => order'[o].docstatus # 0
      BY DEF Orderly, OrderStep
    <2> QED
      BY <2>1, <2>2, <2>3, <2>4 DEF SourcesStand, Sales!Blank
  <1>3. SessionsStand'
    <2> SUFFICES ASSUME NEW s \in Session
                 PROVE  /\ work'[s].op \in {"submit", "cancel", "reject"}
                           /\ work'[s].target \in Sales!Target
                               => doc'[work'[s].target].source # NoDoc
                        /\ work'[s].op \in {"cancel", "close", "release"}
                           /\ work'[s].target \in Order
                               => order'[work'[s].target].docstatus # 0
      BY DEF SessionsStand, Sales!Target
    <2>1. \A d \in Sales!Target : doc[d].source # NoDoc => doc'[d].source # NoDoc
      BY DEF Orderly, DocStep, RowStep
    <2>2. \A o \in Order : order[o].docstatus # 0 => order'[o].docstatus # 0
      BY DEF Orderly, OrderStep
    <2> QED
      BY <2>1, <2>2 DEF SalesStands, SessionsStand, Orderly, SessionStep
  <1>4. NothingPending'
    BY DEF NothingPending, Orderly, DocStep, RowStep, Sales!Target
  <1> QED
    BY <1>1, <1>2, <1>3, <1>4 DEF SalesStands

\* A session that ends.
LEMMA LeaveStep ==
    ASSUME SalesStands, NEW s \in Session, Sales!Leave(s)
    PROVE  SessionStep
  <1>1. work' = [work EXCEPT ![s] = Sales!Idle] /\ work \in [Session -> SalesActivity]
    BY DEF SalesStands, SalesTypes, Sales!Leave
  <1>2. Sales!Idle \in SalesActivity /\ Sales!Idle.op = "idle"
    BY DEF Sales!Idle, SalesActivity
  <1>3. work' \in [Session -> SalesActivity]
    BY <1>1, <1>2
  <1>4. work'[s].op = "idle" /\ \A t \in Session \ {s} : work'[t] = work[t]
    BY <1>1, <1>2
  <1> QED
    BY <1>3, <1>4 DEF SessionStep

\* Without orders and sessions nothing is done to them.
LEMMA OthersStay ==
    ASSUME SalesStands
    PROVE  /\ UNCHANGED order => OrderStep
           /\ UNCHANGED work => SessionStep
           /\ UNCHANGED doc => /\ DocStep /\ (\A d \in Sales!Target : Kept(d)) /\ SourcesGrow
  <1>1. UNCHANGED order => OrderStep
    BY DEF SalesStands, SalesTypes, SourcesStand, OrderStep
  <1>2. UNCHANGED work => SessionStep
    BY DEF SalesStands, SalesTypes, SessionStep
  <1>3. ASSUME UNCHANGED doc
        PROVE DocStep /\ (\A d \in Sales!Target : Kept(d)) /\ SourcesGrow
    <2>1. \A d \in Sales!Target : RowStep(d) /\ Kept(d) /\ doc'[d].qty = doc[d].qty
      BY <1>3, RowUnchanged
    <2>2. doc' = [d \in Sales!Target |-> doc'[d]]
      BY <1>3 DEF SalesStands, SalesTypes
    <2>3. \A d \in Note : doc[d].qty \in Nat /\ d \in Sales!Target
      BY DEF SalesStands, SalesTypes, Sales!TargetRow, Sales!Target
    <2> QED
      BY <2>1, <2>2, <2>3 DEF DocStep, SourcesGrow
  <1> QED
    BY <1>1, <1>2, <1>3

-----------------------------------------------------------------------------
(* Steps that move no stock                                                *)

\* Nothing is submitted nor cancelled.
LEMMA AllKept ==
    ASSUME SalesStands, \A d \in Sales!Target : Kept(d) /\ doc'[d].qty >= doc[d].qty,
           UNCHANGED <<order, actual, reserved>>
    PROVE  NoteStep /\ InvoiceStep
  BY DEF NoteStep, InvoiceStep, Rests, Unbilled, SourcesGrow, Sales!Target

\* One row changes.
LEMMA OneRow ==
    ASSUME SalesStands, NEW d \in Sales!Target, NEW x, doc' = [doc EXCEPT ![d] = x], RowStep(d)
    PROVE  /\ DocStep /\ doc'[d] = x
           /\ \A e \in Sales!Target \ {d} : doc'[e] = doc[e] /\ Kept(e) /\ doc'[e].qty = doc[e].qty
  <1>1. /\ doc \in [Sales!Target -> Sales!TargetRow] /\ doc'[d] = x
        /\ doc' = [e \in Sales!Target |-> doc'[e]]
        /\ \A e \in Sales!Target \ {d} : doc'[e] = doc[e]
    BY DEF SalesStands, SalesTypes
  <1>2. \A e \in Sales!Target \ {d} : RowStep(e) /\ Kept(e) /\ doc'[e].qty = doc[e].qty
    BY <1>1, RowUnchanged
  <1> QED
    BY <1>1, <1>2 DEF DocStep

\* A draft.
LEMMA CreateStep ==
    ASSUME Sales!SalesAssumption,
           SalesStands, NEW d \in Sales!Target, NEW src \in Order \cup Note,
           NEW q \in Drafted,
           NEW delivers \in BOOLEAN, Sales!Create(d, src, q, delivers)
    PROVE  Orderly /\ NoteStep /\ InvoiceStep
  <1> DEFINE x == [source |-> src, qty |-> q, docstatus |-> 0, related |-> TRUE, pending |-> FALSE,
                   delivers |-> delivers, note |-> IF src \in Note THEN src ELSE NoDoc]
  <1>1. /\ doc[d].source = NoDoc /\ Sales!Standing(src) /\ doc' = [doc EXCEPT ![d] = x]
        /\ (d \in Note => src \in Order) /\ UNCHANGED <<approvals, order, actual, reserved, work>>
    BY DEF Sales!Create
  <1>2. doc[d] = Sales!Blank /\ doc[d].docstatus = 0 /\ doc[d].qty = 0
    <2>1. doc[d] = Sales!Blank
      BY <1>1 DEF SalesStands, SourcesStand
    <2> QED
      BY <2>1 DEF Sales!Blank
  <1>3. x \in Sales!TargetRow
    <2>1. q \in Nat
      BY SalesConstants
    <2> QED
      BY <2>1 DEF Sales!TargetRow
  <1>4. /\ x.source = src /\ x.docstatus = 0 /\ x.pending = FALSE /\ x.qty = q
        /\ q \in Nat /\ src # NoDoc
    BY SalesConstants DEF Sales!Target
  <1>5. src \in Order => order[src].docstatus # 0
    BY <1>1 DEF Sales!Standing
  <1> HIDE DEF x
  <1>6. doc'[d] = x
    BY <1>1 DEF SalesStands, SalesTypes
  <1>7. RowStep(d)
    BY <1>1, <1>3, <1>4, <1>5, <1>6 DEF RowStep
  <1>8. DocStep /\ \A e \in Sales!Target \ {d} : Kept(e) /\ doc'[e].qty = doc[e].qty
    BY <1>1, <1>7, OneRow
  <1>9. Kept(d) /\ doc'[d].qty >= doc[d].qty
    BY <1>2, <1>4, <1>6 DEF Kept
  <1>10. \A e \in Sales!Target : doc[e].qty \in Nat
    BY DEF SalesStands, SalesTypes, Sales!TargetRow
  <1>11. \A e \in Sales!Target : Kept(e) /\ doc'[e].qty >= doc[e].qty
    BY <1>8, <1>9, <1>10
  <1>12. actual \in Nat /\ reserved \in Nat
    BY DEF SalesStands, SalesTypes
  <1> QED
    BY <1>1, <1>8, <1>11, <1>12, OthersStay, AllKept DEF Orderly

\* A session opens its document.
LEMMA OpenStep ==
    ASSUME Sales!SalesAssumption,
           SalesStands, NEW s \in Session, NEW op \in {"submit", "cancel", "close",
           "reject"},
           NEW d \in Order \cup Sales!Target, Sales!Open(s, op, d)
    PROVE  Orderly /\ NoteStep /\ InvoiceStep
  <1> DEFINE x == [Sales!Idle EXCEPT !.op = op, !.target = d]
  <1>1. /\ work' = [work EXCEPT ![s] = x]
        /\ IF d \in Order THEN Sales!MayOpenOrder(op, d) ELSE Sales!MayOpenTarget(op, d)
        /\ UNCHANGED <<approvals, order, doc, actual, reserved>>
    BY DEF Sales!Open
  <1>2. x.op = op /\ x.target = d /\ x \in SalesActivity
    BY DEF Sales!Idle, SalesActivity
  <1> HIDE DEF x
  <1>3. work \in [Session -> SalesActivity] /\ actual \in Nat /\ reserved \in Nat
    BY DEF SalesStands, SalesTypes
  <1>4. d \in Sales!Target => doc[d].source # NoDoc
    <2> SUFFICES ASSUME d \in Sales!Target, doc[d].source = NoDoc PROVE FALSE
      OBVIOUS
    <2>1. doc[d] = Sales!Blank /\ d \notin Order
      BY SalesConstants DEF SalesStands, SourcesStand
    <2>2. ~doc[d].related /\ ~doc[d].pending /\ doc[d].docstatus = 0
      BY <2>1 DEF Sales!Blank
    <2> QED
      BY <1>1, <2>1, <2>2 DEF Sales!MayOpenTarget
  <1>5. d \in Order /\ op \in {"cancel", "close", "release"} => order[d].docstatus # 0
    BY <1>1 DEF Sales!MayOpenOrder, Sales!Standing
  <1>6. SessionStep
    <2>1. work'[s] = x /\ \A t \in Session \ {s} : work'[t] = work[t]
      BY <1>1, <1>3
    <2>2. work' \in [Session -> SalesActivity]
      BY <1>1, <1>2, <1>3
    <2> QED
      BY <1>2, <1>4, <1>5, <2>1, <2>2 DEF SessionStep
  <1>7. \A e \in Sales!Target : Kept(e) /\ doc'[e].qty >= doc[e].qty
    <2>1. \A e \in Sales!Target : doc[e].qty \in Nat
      BY DEF SalesStands, SalesTypes, Sales!TargetRow
    <2> QED
      BY <1>1, <2>1, RowUnchanged
  <1> QED
    BY <1>1, <1>3, <1>6, <1>7, OthersStay, AllKept DEF Orderly

\* The closing reads.
LEMMA ReadStep ==
    ASSUME Sales!SalesAssumption, SalesStands, NEW s \in Session, Sales!ReadDelivered(s)
    PROVE  Orderly /\ NoteStep /\ InvoiceStep
  <1> DEFINE o == work[s].target
             delivered == Sales!Consumed(Note, o)
             closing == IF Sales!Claimed(Note, o) + order[o].closed_qty < Ordered[o]
                        THEN Ordered[o] - delivered ELSE order[o].closed_qty
             x == [op |-> "release", target |-> o, delivered |-> delivered, closing |-> closing]
  <1>1. /\ work[s].op = "close" /\ o \in Order /\ work' = [work EXCEPT ![s] = x]
        /\ UNCHANGED <<approvals, order, doc, actual, reserved>>
    BY DEF Sales!ReadDelivered, Sales!At
  <1>2. SalesTypes /\ order[o].closed_qty \in Nat /\ Ordered[o] \in Nat
    BY <1>1, SalesConstants DEF SalesStands, SalesTypes, OrderRow
  <1>3. delivered \in Nat
    BY <1>2, ConsumedIsSum DEF Sales!Target
  <1>4. Sales!Claimed(Note, o) \in Nat /\ delivered <= Sales!Claimed(Note, o)
    <2> DEFINE all == {d \in Sales!From(o, Note) : doc[d].related /\ doc[d].docstatus # 2}
               some == {d \in Sales!From(o, Note) : doc[d].related /\ doc[d].docstatus = 1}
    <2>1. all \in SUBSET Sales!Target /\ some \in SUBSET all
      BY DEF Sales!From, Sales!Target
    <2>2. Sales!Total(all) \in Nat /\ Sales!Total(some) <= Sales!Total(all)
      BY <1>2, <2>1, TotalType, TotalMonotone
    <2> QED
      BY <2>2 DEF Sales!Claimed, Sales!Consumed
  <1>5. closing \in Nat
    BY <1>2, <1>3, <1>4
  <1>6. x.op = "release" /\ x.target = o /\ x \in SalesActivity
    BY <1>1, <1>3, <1>5 DEF SalesActivity
  <1> HIDE DEF x
  <1>7. work \in [Session -> SalesActivity] /\ actual \in Nat /\ reserved \in Nat
    BY DEF SalesStands, SalesTypes
  <1>8. order[o].docstatus # 0
    BY <1>1 DEF SalesStands, SessionsStand
  <1>9. SessionStep
    <2>1. work'[s] = x /\ \A t \in Session \ {s} : work'[t] = work[t]
      BY <1>1, <1>7
    <2>2. work' \in [Session -> SalesActivity]
      BY <1>1, <1>6, <1>7
    <2> HIDE DEF o
    <2> QED
      BY <1>6, <1>8, <2>1, <2>2 DEF SessionStep
  <1>10. \A e \in Sales!Target : Kept(e) /\ doc'[e].qty >= doc[e].qty
    <2>1. \A e \in Sales!Target : doc[e].qty \in Nat
      BY DEF SalesStands, SalesTypes, Sales!TargetRow
    <2> QED
      BY <1>1, <2>1, RowUnchanged
  <1> QED
    BY <1>1, <1>7, <1>9, <1>10, OthersStay, AllKept DEF Orderly

\* A session is given up.
LEMMA GiveUpStep ==
    ASSUME SalesStands, NEW s \in Session, Sales!GiveUp(s)
    PROVE  Orderly /\ NoteStep /\ InvoiceStep
  <1>1. Sales!Leave(s) /\ UNCHANGED <<approvals, order, doc, actual, reserved>>
    BY DEF Sales!GiveUp
  <1>2. actual \in Nat /\ reserved \in Nat /\ \A e \in Sales!Target : doc[e].qty \in Nat
    BY DEF SalesStands, SalesTypes, Sales!TargetRow
  <1>3. \A e \in Sales!Target : Kept(e) /\ doc'[e].qty >= doc[e].qty
    BY <1>1, <1>2, RowUnchanged
  <1> QED
    BY <1>1, <1>2, <1>3, LeaveStep, OthersStay, AllKept DEF Orderly

\* A stutter.
LEMMA StutterStep ==
    ASSUME SalesStands, UNCHANGED Sales!vars
    PROVE  Orderly /\ NoteStep /\ InvoiceStep
  <1>1. UNCHANGED <<approvals, order, doc, actual, reserved, work>>
    BY DEF Sales!vars
  <1>2. actual \in Nat /\ reserved \in Nat /\ \A e \in Sales!Target : doc[e].qty \in Nat
    BY DEF SalesStands, SalesTypes, Sales!TargetRow
  <1>3. \A e \in Sales!Target : Kept(e) /\ doc'[e].qty >= doc[e].qty
    BY <1>1, <1>2, RowUnchanged
  <1> QED
    BY <1>1, <1>2, <1>3, OthersStay, AllKept DEF Orderly

\* A request is kept.
LEMMA RequestStep ==
    ASSUME SalesStands, NEW s \in Session, Sales!Request(s)
    PROVE  Orderly /\ NoteStep /\ InvoiceStep
  <1> DEFINE d == work[s].target
             x == [doc[d] EXCEPT !.pending = TRUE]
  <1>1. /\ work[s].op = "submit" /\ d \in Sales!Target /\ approvals /\ Sales!Leave(s)
        /\ doc' = [doc EXCEPT ![d] = x]
        /\ UNCHANGED <<approvals, order, actual, reserved>>
    BY DEF Sales!Request, Sales!At
  <1>2. doc[d] \in Sales!TargetRow /\ doc[d].source # NoDoc
    BY <1>1 DEF SalesStands, SalesTypes, SessionsStand
  <1>3. /\ x \in Sales!TargetRow /\ x.source = doc[d].source /\ x.qty = doc[d].qty
        /\ x.docstatus = doc[d].docstatus /\ x.related = doc[d].related
    BY <1>2, PendingFields
  <1>4. doc'[d] = x
    BY <1>1 DEF SalesStands, SalesTypes
  <1> HIDE DEF x
  <1>5. RowStep(d)
    BY <1>1, <1>2, <1>3, <1>4, RowOfSource
  <1>6. DocStep /\ \A e \in Sales!Target \ {d} : Kept(e) /\ doc'[e].qty = doc[e].qty
    BY <1>1, <1>5, OneRow
  <1>7. Kept(d) /\ doc'[d].qty = doc[d].qty
    BY <1>3, <1>4 DEF Kept
  <1>8. actual \in Nat /\ reserved \in Nat /\ \A e \in Sales!Target : doc[e].qty \in Nat
    BY DEF SalesStands, SalesTypes, Sales!TargetRow
  <1>9. \A e \in Sales!Target : Kept(e) /\ doc'[e].qty >= doc[e].qty
    BY <1>6, <1>7, <1>8
  <1> QED
    BY <1>1, <1>6, <1>8, <1>9, LeaveStep, OthersStay, AllKept DEF Orderly

\* The relations of a document are reverted.
LEMMA RevertedRows ==
    ASSUME SalesStands, NEW d, NEW t \in Sales!Target
    PROVE  /\ Sales!Reverted(doc, d)[t] \in Sales!TargetRow
           /\ Sales!Reverted(doc, d)[t] = doc[t] \/ Sales!Reverted(doc, d)[t] = [doc[t] EXCEPT !.related = FALSE]
           /\ Sales!Reverted(doc, d) \in [Sales!Target -> Sales!TargetRow]
  <1>1. \A e \in Sales!Target : doc[e] \in Sales!TargetRow
    BY DEF SalesStands, SalesTypes
  <1>2. \A e \in Sales!Target : [doc[e] EXCEPT !.related = FALSE] \in Sales!TargetRow
    BY <1>1, RevertedFields
  <1> QED
    BY <1>1, <1>2 DEF Sales!Reverted

-----------------------------------------------------------------------------
(* Steps of the orders                                                     *)

\* A reversal of relations leaves what is submitted.
LEMMA RevertedStep ==
    ASSUME SalesStands, NEW d, doc' = Sales!Reverted(doc, d)
    PROVE  DocStep /\ \A e \in Sales!Target : Kept(e) /\ doc'[e].qty >= doc[e].qty
  <1>1. doc' = [e \in Sales!Target |-> doc'[e]]
    BY DEF Sales!Reverted
  <1>2. ASSUME NEW e \in Sales!Target
        PROVE RowStep(e) /\ Kept(e) /\ doc'[e].qty = doc[e].qty
    <2>1. doc'[e] = doc[e] \/ doc'[e] = [doc[e] EXCEPT !.related = FALSE]
      BY RevertedRows
    <2> QED
      BY <2>1, RowUnchanged, RowReverted
  <1>3. \A e \in Sales!Target : doc[e].qty \in Nat
    BY DEF SalesStands, SalesTypes, Sales!TargetRow
  <1> QED
    BY <1>1, <1>2, <1>3 DEF DocStep

\* An order with another status, which is not a draft's, or that is closed.
LEMMA OneOrder ==
    ASSUME SalesStands, NEW o \in Order, NEW x \in OrderRow, order' = [order EXCEPT ![o] = x],
           x.docstatus # 0
    PROVE  OrderStep
  <1>1. order \in [Order -> OrderRow] /\ order'[o] = x /\ order' \in [Order -> OrderRow]
        /\ \A p \in Order \ {o} : order'[p] = order[p]
    BY DEF SalesStands, SalesTypes
  <1> QED
    BY <1>1 DEF OrderStep, SalesStands, SourcesStand

\* The fields of an order that a submission, a cancellation and a closing change.
LEMMA OrderFields ==
    ASSUME NEW r \in OrderRow, NEW st \in 0 .. 2, NEW x, x = [r EXCEPT !.docstatus = st]
    PROVE  x \in OrderRow /\ x.docstatus = st /\ x.closed = r.closed
  BY DEF OrderRow

\* The same of a closing.
LEMMA ClosedFields ==
    ASSUME NEW r \in OrderRow, NEW c \in Nat, NEW x,
           x = [r EXCEPT !.closed = TRUE, !.closed_qty = c]
    PROVE  x \in OrderRow /\ x.docstatus = r.docstatus
  <1> DEFINE y == [r EXCEPT !.closed = TRUE]
  <1>1. y \in OrderRow /\ y.docstatus = r.docstatus
    BY DEF OrderRow
  <1>2. x = [y EXCEPT !.closed_qty = c]
    OBVIOUS
  <1> HIDE DEF y
  <1> QED
    BY <1>1, <1>2 DEF OrderRow

\* What is not below nothing.
LEMMA NotNegativeType == \A q \in Int : Sales!NotNegative(q) \in Nat /\ (q >= 0 => Sales!NotNegative(q) = q)
  BY DEF Sales!NotNegative

\* An order is submitted.
LEMMA SubmitOrderStep ==
    ASSUME Sales!SalesAssumption, SalesStands, NEW s \in Session, Sales!SubmitOrder(s)
    PROVE  Orderly /\ NoteStep /\ InvoiceStep
  <1> DEFINE o == work[s].target
             x == [order[o] EXCEPT !.docstatus = 1]
  <1>1. /\ o \in Order /\ Sales!Leave(s) /\ order' = [order EXCEPT ![o] = x]
        /\ reserved' = reserved + Ordered[o] /\ UNCHANGED <<approvals, doc, actual>>
    BY DEF Sales!SubmitOrder, Sales!At
  <1>2. /\ order[o] \in OrderRow /\ actual \in Nat /\ reserved \in Nat /\ Ordered[o] \in Nat
        /\ \A e \in Sales!Target : doc[e].qty \in Nat
    BY <1>1, SalesConstants DEF SalesStands, SalesTypes, Sales!TargetRow
  <1>3. x \in OrderRow /\ x.docstatus = 1 /\ x.docstatus # 0
    BY <1>2, OrderFields
  <1> HIDE DEF x
  <1>4. OrderStep
    BY <1>1, <1>3, OneOrder
  <1>5. Orderly
    BY <1>1, <1>2, <1>4, LeaveStep, OthersStay DEF Orderly
  <1>6. \A e \in Sales!Target : Kept(e) /\ doc'[e].qty >= doc[e].qty
    BY <1>1, <1>2, RowUnchanged
  <1> QED
    BY <1>1, <1>5, <1>6 DEF NoteStep, Rests, InvoiceStep, SourcesGrow, Unbilled,
       Sales!Target

\* An order is cancelled.
LEMMA CancelOrderStep ==
    ASSUME Sales!SalesAssumption, SalesStands, NEW s \in Session, Sales!CancelOrder(s)
    PROVE  Orderly /\ NoteStep /\ InvoiceStep
  <1> DEFINE o == work[s].target
             x == [order[o] EXCEPT !.docstatus = 2]
  <1>1. /\ o \in Order /\ Sales!Leave(s) /\ order' = [order EXCEPT ![o] = x]
        /\ reserved' = Sales!NotNegative(reserved - Ordered[o])
        /\ doc' = Sales!Reverted(doc, o)
        /\ UNCHANGED <<approvals, actual>>
    BY DEF Sales!CancelOrder, Sales!At
  <1>2. order[o] \in OrderRow /\ actual \in Nat /\ reserved \in Nat /\ Ordered[o] \in Nat
    BY <1>1, SalesConstants DEF SalesStands, SalesTypes
  <1>3. x \in OrderRow /\ x.docstatus = 2 /\ x.docstatus # 0
    BY <1>2, OrderFields
  <1>4. reserved' \in Nat
    BY <1>1, <1>2, NotNegativeType
  <1> HIDE DEF x
  <1>5. OrderStep
    BY <1>1, <1>3, OneOrder
  <1>6. DocStep /\ \A e \in Sales!Target : Kept(e) /\ doc'[e].qty >= doc[e].qty
    BY <1>1, RevertedStep
  <1>7. Orderly
    BY <1>1, <1>2, <1>4, <1>5, <1>6, LeaveStep DEF Orderly
  <1> QED
    BY <1>1, <1>6, <1>7 DEF NoteStep, Rests, InvoiceStep, SourcesGrow, Unbilled,
       Sales!Target

\* An order is closed.
LEMMA CloseOrderStep ==
    ASSUME Sales!SalesAssumption, SalesStands, NEW s \in Session, Sales!CloseOrder(s)
    PROVE  Orderly /\ NoteStep /\ InvoiceStep
  <1> DEFINE o == work[s].target
             x == [order[o] EXCEPT !.closed = TRUE, !.closed_qty = work[s].closing]
  <1>1. /\ work[s].op = "release" /\ o \in Order /\ Sales!Leave(s)
        /\ order' = [order EXCEPT ![o] = x]
        /\ reserved' = Sales!NotNegative(reserved - Sales!Undelivered(s))
        /\ UNCHANGED <<approvals, doc, actual>>
    BY DEF Sales!CloseOrder, Sales!At
  <1>2. /\ order[o] \in OrderRow /\ actual \in Nat /\ reserved \in Nat /\ Ordered[o] \in Nat
        /\ work[s].closing \in Nat /\ work[s].delivered \in Nat
        /\ \A e \in Sales!Target : doc[e].qty \in Nat
    BY <1>1, SalesConstants DEF SalesStands, SalesTypes, Sales!TargetRow, SalesActivity
  <1>3. order[o].docstatus # 0
    BY <1>1 DEF SalesStands, SessionsStand
  <1>4. x \in OrderRow /\ x.docstatus # 0
    <2>1. x = [order[o] EXCEPT !.closed = TRUE, !.closed_qty = work[s].closing]
      OBVIOUS
    <2> HIDE DEF x
    <2>2. x \in OrderRow /\ x.docstatus = order[o].docstatus
      BY <1>2, <2>1, ClosedFields
    <2> QED
      BY <1>3, <2>2
  <1>5. reserved' \in Nat
    BY <1>1, <1>2, NotNegativeType DEF Sales!Undelivered
  <1> HIDE DEF x
  <1>6. OrderStep
    BY <1>1, <1>4, OneOrder
  <1>7. Orderly
    BY <1>1, <1>2, <1>5, <1>6, LeaveStep, OthersStay DEF Orderly
  <1>8. \A e \in Sales!Target : Kept(e) /\ doc'[e].qty >= doc[e].qty
    BY <1>1, <1>2, RowUnchanged
  <1> QED
    BY <1>1, <1>7, <1>8 DEF NoteStep, Rests, InvoiceStep, SourcesGrow, Unbilled,
       Sales!Target

\* A request is rejected.
LEMMA RejectStep ==
    ASSUME SalesStands, NEW s \in Session, Sales!Reject(s)
    PROVE  Orderly /\ NoteStep /\ InvoiceStep
  <1> DEFINE d == work[s].target
             y == Sales!Reverted(doc, d)[d]
             x == [y EXCEPT !.pending = FALSE]
  <1>1. /\ work[s].op = "reject" /\ d \in Sales!Target /\ Sales!Leave(s)
        /\ doc' = [Sales!Reverted(doc, d) EXCEPT ![d].pending = FALSE]
        /\ UNCHANGED <<approvals, order, actual, reserved>>
    BY DEF Sales!Reject, Sales!At
  <1>2. doc[d] \in Sales!TargetRow /\ doc[d].source # NoDoc
    BY <1>1 DEF SalesStands, SalesTypes, SessionsStand
  <1>3. /\ y \in Sales!TargetRow /\ y.source = doc[d].source /\ y.qty = doc[d].qty
        /\ y.docstatus = doc[d].docstatus /\ (y.related => doc[d].related)
    <2>1. y \in Sales!TargetRow /\ (y = doc[d] \/ y = [doc[d] EXCEPT !.related = FALSE])
      BY <1>1, RevertedRows
    <2> HIDE DEF y
    <2> QED
      BY <1>2, <2>1, RevertedFields
  <1>4. /\ doc' = [Sales!Reverted(doc, d) EXCEPT ![d] = x]
        /\ Sales!Reverted(doc, d) \in [Sales!Target -> Sales!TargetRow]
    BY <1>1, RevertedRows
  <1> HIDE DEF y
  <1>5. /\ x \in Sales!TargetRow /\ x.source = doc[d].source /\ x.qty = doc[d].qty
        /\ ~x.pending
        /\ x.docstatus = doc[d].docstatus /\ (x.related => doc[d].related)
    <2>1. /\ x \in Sales!TargetRow /\ x.source = y.source /\ x.qty = y.qty
          /\ x.docstatus = y.docstatus
          /\ x.related = y.related
      BY <1>3, PendingFields
    <2>2. x.pending = FALSE
      BY <1>3 DEF Sales!TargetRow
    <2> HIDE DEF x
    <2> QED
      BY <1>3, <2>1, <2>2
  <1> HIDE DEF x
  <1>6. doc'[d] = x /\ \A e \in Sales!Target \ {d} : doc'[e] = Sales!Reverted(doc, d)[e]
    BY <1>1, <1>4
  <1>7. RowStep(d) /\ Kept(d) /\ doc'[d].qty = doc[d].qty
    BY <1>1, <1>2, <1>5, <1>6, RowOfSource DEF Kept
  <1>8. ASSUME NEW e \in Sales!Target \ {d}
        PROVE RowStep(e) /\ Kept(e) /\ doc'[e].qty = doc[e].qty
    <2>1. doc'[e] = doc[e] \/ doc'[e] = [doc[e] EXCEPT !.related = FALSE]
      BY <1>6, RevertedRows
    <2> QED
      BY <2>1, RowUnchanged, RowReverted
  <1>9. DocStep
    BY <1>4, <1>7, <1>8 DEF DocStep
  <1>10. actual \in Nat /\ reserved \in Nat /\ \A e \in Sales!Target : doc[e].qty \in Nat
    BY DEF SalesStands, SalesTypes, Sales!TargetRow
  <1>11. \A e \in Sales!Target : Kept(e) /\ doc'[e].qty >= doc[e].qty
    BY <1>7, <1>8, <1>10
  <1> QED
    BY <1>1, <1>9, <1>10, <1>11, LeaveStep, OthersStay, AllKept DEF Orderly

-----------------------------------------------------------------------------
(* Deliveries                                                              *)

\* What is taken from the bin.
LEMMA TakeType ==
    ASSUME SalesStands, NEW q \in Nat, Sales!Take(q)
    PROVE  /\ actual >= q /\ actual' = actual - q
           /\ reserved' = Sales!NotNegative(reserved - q)
           /\ actual' \in Nat /\ reserved' \in Nat
  <1>1. actual \in Nat /\ reserved \in Nat
    BY DEF SalesStands, SalesTypes
  <1>2. actual >= q /\ actual' = actual - q /\ reserved' = Sales!NotNegative(reserved - q)
    BY DEF Sales!Take
  <1>3. reserved - q \in Int
    BY <1>1
  <1> QED
    BY <1>1, <1>2, <1>3, NotNegativeType

\* A document that was drafted, and what a submission changes.
LEMMA SubmittedRow ==
    ASSUME SalesStands, NEW d \in Sales!Target
    PROVE  LET x == [doc[d] EXCEPT !.docstatus = 1, !.pending = FALSE]
           IN /\ Sales!Submitted(doc, d) = [doc EXCEPT ![d] = x]
              /\ x \in Sales!TargetRow /\ x.source = doc[d].source /\ x.qty = doc[d].qty
              /\ x.docstatus = 1 /\ x.related = doc[d].related /\ x.pending = FALSE
              /\ x.delivers = doc[d].delivers /\ x.note = doc[d].note
  <1>1. doc[d] \in Sales!TargetRow
    BY DEF SalesStands, SalesTypes
  <1> DEFINE x == [doc[d] EXCEPT !.docstatus = 1, !.pending = FALSE]
  <1>2. Sales!Submitted(doc, d) = [doc EXCEPT ![d] = x]
    BY DEF Sales!Submitted
  <1>3. /\ x \in Sales!TargetRow /\ x.source = doc[d].source /\ x.qty = doc[d].qty
        /\ x.docstatus = 1
        /\ x.related = doc[d].related /\ x.pending = FALSE
        /\ x.delivers = doc[d].delivers /\ x.note = doc[d].note
    BY <1>1, SubmittedFields, Zenon
  <1> QED
    BY <1>2, <1>3, Zenon

\* A note is delivered.
LEMMA DeliverStep ==
    ASSUME Sales!SalesAssumption,
           SalesStands, NEW n \in Note, doc[n].source # NoDoc, doc[n].docstatus # 1,
           approvals \/ Sales!Fits(n), Sales!Deliver(n), UNCHANGED order
    PROVE  DocStep /\ NoteStep /\ InvoiceStep /\ actual' \in Nat /\ reserved' \in Nat
  <1> DEFINE x == [doc[n] EXCEPT !.docstatus = 1, !.pending = FALSE]
  <1>1. n \in Sales!Target /\ n \notin Invoice
    BY SalesConstants DEF Sales!Target
  <1>2. /\ doc' = [doc EXCEPT ![n] = x]
        /\ x \in Sales!TargetRow /\ x.source = doc[n].source /\ x.qty = doc[n].qty
        /\ x.docstatus = 1
        /\ x.related = doc[n].related /\ ~x.pending
    BY <1>1, SubmittedRow DEF Sales!Deliver
  <1> HIDE DEF x
  <1>3. /\ doc[n].qty \in Nat /\ doc[n].source \in Order
        /\ \A e \in Sales!Target : doc[e].qty \in Nat
    BY <1>1 DEF SalesStands, SalesTypes, SourcesStand, Sales!TargetRow
  <1>4. /\ actual >= doc[n].qty /\ actual' = actual - doc[n].qty
        /\ reserved' = Sales!NotNegative(reserved - doc[n].qty)
        /\ actual' \in Nat /\ reserved' \in Nat
    BY <1>3, TakeType DEF Sales!Deliver
  <1>5. doc'[n] = x
    BY <1>1, <1>2 DEF SalesStands, SalesTypes
  <1>6. RowStep(n)
    BY <1>1, <1>2, <1>5, RowOfSource
  <1>7. DocStep /\ \A e \in Sales!Target \ {n} : Kept(e) /\ doc'[e].qty = doc[e].qty
    BY <1>1, <1>2, <1>6, OneRow
  <1>8. ~approvals /\ doc[n].related
           => Sales!Consumed(Note, doc[n].source) + doc[n].qty <= Ordered[doc[n].source]
    BY <1>3 DEF Sales!Fits, Sales!Kind, Sales!SourceQty
  <1>9. Ships(n)
    BY <1>1, <1>2, <1>3, <1>4, <1>5, <1>7, <1>8 DEF Ships, Sales!Target
  <1>10. SourcesGrow /\ Unbilled
    BY <1>1, <1>2, <1>3, <1>5, <1>7 DEF SourcesGrow, Unbilled, Sales!Target
  <1> QED
    BY <1>4, <1>7, <1>9, <1>10 DEF NoteStep, InvoiceStep

\* An invoice without a delivery.
LEMMA BillStep ==
    ASSUME Sales!SalesAssumption,
           SalesStands, NEW i \in Invoice, doc[i].source # NoDoc, doc[i].docstatus # 1,
           Sales!Fits(i), doc' = Sales!Submitted(doc, i), UNCHANGED <<order, actual, reserved>>
    PROVE  DocStep /\ NoteStep /\ InvoiceStep
  <1> DEFINE x == [doc[i] EXCEPT !.docstatus = 1, !.pending = FALSE]
  <1>1. i \in Sales!Target /\ i \notin Note
    BY SalesConstants DEF Sales!Target
  <1>2. /\ doc' = [doc EXCEPT ![i] = x]
        /\ x \in Sales!TargetRow /\ x.source = doc[i].source /\ x.qty = doc[i].qty
        /\ x.docstatus = 1
        /\ x.related = doc[i].related /\ ~x.pending
    BY <1>1, SubmittedRow
  <1> HIDE DEF x
  <1>3. \A e \in Sales!Target : doc[e].qty \in Nat
    BY DEF SalesStands, SalesTypes, Sales!TargetRow
  <1>4. doc'[i] = x
    BY <1>1, <1>2 DEF SalesStands, SalesTypes
  <1>5. RowStep(i)
    BY <1>1, <1>2, <1>4, RowOfSource
  <1>6. DocStep /\ \A e \in Sales!Target \ {i} : Kept(e) /\ doc'[e].qty = doc[e].qty
    BY <1>1, <1>2, <1>5, OneRow
  <1>7. Bills(i)
    <2>1. doc[i].related => Sales!Consumed(Invoice, doc[i].source) + doc[i].qty <= Sales!SourceQty(doc[i].source)
      BY <1>1 DEF Sales!Fits, Sales!Kind
    <2>2. \A j \in Invoice \ {i} : Kept(j)
      BY <1>6 DEF Sales!Target
    <2> QED
      BY <1>2, <1>4, <2>1, <2>2 DEF Bills
  <1>8. SourcesGrow /\ Rests
    BY <1>1, <1>3, <1>6 DEF SourcesGrow, Rests, Sales!Target
  <1> QED
    BY <1>6, <1>7, <1>8 DEF NoteStep, InvoiceStep

\* The note that an invoice makes.
Made(x, o, q, b) ==
    x \in Sales!TargetRow /\ x.source = o /\ x.qty = q /\ x.docstatus = 1 /\ x.related = b /\ ~x.pending

\* Its row.
LEMMA MadeRow ==
    ASSUME NEW o \in Order, NEW q \in Nat, NEW b \in BOOLEAN
    PROVE  [source |-> o, qty |-> q, docstatus |-> 1, related |-> b, pending |-> FALSE,
            delivers |-> FALSE, note |-> NoDoc] \in Sales!TargetRow
  <1>1. b = TRUE \/ b = FALSE
    BY Zenon
  <1>2. [source |-> o, qty |-> q, docstatus |-> 1, related |-> TRUE, pending |-> FALSE,
         delivers |-> FALSE, note |-> NoDoc] \in Sales!TargetRow
    BY DEF Sales!TargetRow
  <1>3. [source |-> o, qty |-> q, docstatus |-> 1, related |-> FALSE, pending |-> FALSE,
         delivers |-> FALSE, note |-> NoDoc] \in Sales!TargetRow
    BY DEF Sales!TargetRow
  <1> QED
    BY <1>1, <1>2, <1>3, Zenon

\* Its fields.
LEMMA MadeFields ==
    ASSUME NEW o \in Order, NEW q \in Nat, NEW b \in BOOLEAN, NEW x,
           x = [source |-> o, qty |-> q, docstatus |-> 1, related |-> b, pending |-> FALSE,
                delivers |-> FALSE, note |-> NoDoc]
    PROVE  Made(x, o, q, b)
  <1>1. x \in Sales!TargetRow
    BY MadeRow, Zenon
  <1>2. x.source = o
    BY Zenon
  <1>3. x.qty = q
    BY Zenon
  <1>4. x.docstatus = 1
    BY Zenon
  <1>5. x.related = b
    BY Zenon
  <1>6. ~x.pending
    BY Zenon
  <1> QED
    BY <1>1, <1>2, <1>3, <1>4, <1>5, <1>6, Zenon DEF Made

\* It is a new one but for these.
LEMMA MadeOfBlank ==
    ASSUME NEW o \in Order, NEW q \in Nat, NEW b \in BOOLEAN, NEW x,
           x = [Sales!Blank EXCEPT !.source = o, !.qty = q, !.docstatus = 1, !.related = b]
    PROVE  Made(x, o, q, b)
  <1>1. x = [source |-> o, qty |-> q, docstatus |-> 1, related |-> b, pending |-> FALSE,
             delivers |-> FALSE, note |-> NoDoc]
    BY DEF Sales!Blank
  <1> QED
    BY <1>1, MadeFields, Zenon

\* An invoice that delivers makes a note.
LEMMA DeliverForStep ==
    ASSUME Sales!SalesAssumption,
           SalesStands, NEW i \in Invoice, doc[i].source \in Order,
           doc[i].docstatus # 1,
           Sales!Fits(i), Sales!DeliverFor(i), UNCHANGED order
    PROVE  DocStep /\ NoteStep /\ InvoiceStep /\ actual' \in Nat /\ reserved' \in Nat
  <1> DEFINE o == doc[i].source
             q == doc[i].qty
             b == doc[i].related
             x == [doc[i] EXCEPT !.docstatus = 1, !.pending = FALSE]
             y == [Sales!Blank EXCEPT !.source = o, !.qty = q, !.docstatus = 1, !.related = b]
  <1>1. PICK n \in Note :
          /\ doc[n] = Sales!Blank
          /\ b => order[o].docstatus = 1 /\ Sales!Consumed(Note, o) + order[o].closed_qty + q <= Ordered[o]
          /\ Sales!Take(q)
          /\ doc' = [Sales!Submitted(doc, i) EXCEPT
                       ![n] = [Sales!Blank EXCEPT !.source = o, !.qty = q, !.docstatus = 1, !.related = b],
                       ![i].note = n]
    BY DEF Sales!DeliverFor
  <1> DEFINE z == [x EXCEPT !.note = n]
  <1>2. i \in Sales!Target /\ n \in Sales!Target /\ i # n /\ i \notin Note /\ n \notin Invoice
    BY SalesConstants DEF Sales!Target
  <1>3. /\ q \in Nat /\ b \in BOOLEAN /\ \A e \in Sales!Target : doc[e].qty \in Nat
        /\ doc \in [Sales!Target -> Sales!TargetRow]
    BY <1>2 DEF SalesStands, SalesTypes, Sales!TargetRow
  <1>4. /\ Sales!Submitted(doc, i) = [doc EXCEPT ![i] = x]
        /\ x \in Sales!TargetRow /\ x.source = o /\ x.qty = q /\ x.docstatus = 1
        /\ x.related = b /\ ~x.pending
    BY <1>2, SubmittedRow
  <1>5. /\ doc' = [Sales!Submitted(doc, i) EXCEPT ![n] = y, ![i].note = n]
        /\ b => order[o].docstatus = 1 /\ Sales!Consumed(Note, o) + order[o].closed_qty + q <= Ordered[o]
    BY <1>1
  <1>6. Made(y, o, q, b)
    <2>1. o \in Order /\ q \in Nat /\ b \in BOOLEAN
      BY <1>3
    <2> HIDE DEF o, q, b
    <2>2. y = [Sales!Blank EXCEPT !.source = o, !.qty = q, !.docstatus = 1, !.related = b]
      OBVIOUS
    <2> HIDE DEF y
    <2> QED
      BY <2>1, <2>2, MadeOfBlank, Zenon
  <1> USE DEF Made
  <1> HIDE DEF x, y
  <1>7. /\ z \in Sales!TargetRow /\ z.source = o /\ z.qty = q /\ z.docstatus = 1
        /\ z.related = b /\ ~z.pending
    BY <1>4, NoteFields
  <1>8. /\ doc'[n] = y /\ doc'[i] = z
        /\ \A e \in Sales!Target \ {i, n} : doc'[e] = doc[e]
        /\ doc' = [e \in Sales!Target |-> doc'[e]]
    <2>1. [doc EXCEPT ![i] = x] \in [Sales!Target -> Sales!TargetRow]
      BY <1>2, <1>3, <1>4
    <2>2. doc' = [[doc EXCEPT ![i] = x] EXCEPT ![n] = y, ![i].note = n]
      BY <1>4, <1>5, Zenon
    <2> QED
      BY <1>2, <1>3, <2>1, <2>2
  <1> HIDE DEF z
  <1>9. /\ actual >= q /\ actual' = actual - q /\ reserved' = Sales!NotNegative(reserved - q)
        /\ actual' \in Nat /\ reserved' \in Nat
    BY <1>1, <1>3, TakeType
  <1>10. order[o].docstatus # 0 /\ o # NoDoc
    BY <1>2, SalesConstants DEF SalesStands, SourcesStand
  <1>11. doc[n].source = NoDoc /\ doc[n].docstatus = 0 /\ doc[n].qty = 0
    BY <1>1 DEF Sales!Blank
  <1>12. RowStep(n)
    BY <1>6, <1>8, <1>10, <1>11 DEF RowStep
  <1>13. RowStep(i)
    BY <1>2, <1>7, <1>8, <1>10, RowOfSource
  <1>14. \A e \in Sales!Target \ {i, n} : RowStep(e) /\ Kept(e) /\ doc'[e].qty = doc[e].qty
    BY <1>8, RowUnchanged
  <1>15. DocStep
    BY <1>8, <1>12, <1>13, <1>14 DEF DocStep
  <1>16. b => Sales!Consumed(Note, o) + q <= Ordered[o]
    <2>1. order[o].closed_qty \in Nat /\ Ordered[o] \in Nat /\ SalesTypes
      BY SalesConstants DEF SalesStands, SalesTypes, OrderRow
    <2>2. Sales!Consumed(Note, o) \in Nat
      BY <2>1, ConsumedIsSum DEF Sales!Target
    <2> QED
      BY <1>3, <1>5, <2>1, <2>2
  <1>17. Ships(n)
    <2>1. \A m \in Note \ {n} : Kept(m)
      BY <1>2, <1>14 DEF Sales!Target
    <2> QED
      BY <1>6, <1>8, <1>9, <1>11, <1>16, <2>1 DEF Ships
  <1>18. Bills(i)
    <2>1. b => Sales!Consumed(Invoice, o) + q <= Sales!SourceQty(o)
      BY <1>2 DEF Sales!Fits, Sales!Kind
    <2>2. \A j \in Invoice \ {i} : Kept(j)
      BY <1>2, <1>14 DEF Sales!Target
    <2> QED
      BY <1>7, <1>8, <2>1, <2>2 DEF Bills
  <1>19. SourcesGrow
    BY <1>2, <1>3, <1>6, <1>8, <1>11, <1>14 DEF SourcesGrow, Sales!Target
  <1> QED
    BY <1>9, <1>15, <1>17, <1>18, <1>19 DEF NoteStep, InvoiceStep

\* An invoice is billed.
LEMMA AnyBillStep ==
    ASSUME Sales!SalesAssumption,
           SalesStands, NEW i \in Invoice, doc[i].source # NoDoc, doc[i].docstatus # 1,
           Sales!Fits(i), Sales!Bill(i), UNCHANGED order
    PROVE  DocStep /\ NoteStep /\ InvoiceStep /\ actual' \in Nat /\ reserved' \in Nat
  <1>1. CASE doc[i].delivers /\ doc[i].source \in Order
    BY <1>1, DeliverForStep DEF Sales!Bill
  <1>2. CASE ~(doc[i].delivers /\ doc[i].source \in Order)
    <2>1. doc' = Sales!Submitted(doc, i) /\ UNCHANGED <<actual, reserved>>
      BY <1>2 DEF Sales!Bill
    <2>2. actual \in Nat /\ reserved \in Nat
      BY DEF SalesStands, SalesTypes
    <2> QED
      BY <2>1, <2>2, BillStep
  <1> QED
    BY <1>1, <1>2

\* A note is submitted.
LEMMA SubmitNoteStep ==
    ASSUME Sales!SalesAssumption, SalesStands, NEW s \in Session, Sales!SubmitNote(s)
    PROVE  Orderly /\ NoteStep /\ InvoiceStep
  <1> DEFINE n == work[s].target
  <1>1. /\ work[s].op = "submit" /\ n \in Note /\ Sales!MaySubmit(n) /\ Sales!Fits(n)
        /\ Sales!Deliver(n) /\ Sales!Leave(s)
        /\ UNCHANGED <<approvals, order>>
    BY DEF Sales!SubmitNote, Sales!At
  <1>2. doc[n].source # NoDoc /\ doc[n].docstatus # 1
    BY <1>1 DEF SalesStands, SessionsStand, Sales!MaySubmit, Sales!Target
  <1>3. DocStep /\ NoteStep /\ InvoiceStep /\ actual' \in Nat /\ reserved' \in Nat
    BY <1>1, <1>2, DeliverStep
  <1> QED
    BY <1>1, <1>3, LeaveStep, OthersStay DEF Orderly

\* An invoice is submitted.
LEMMA SubmitInvoiceStep ==
    ASSUME Sales!SalesAssumption, SalesStands, NEW s \in Session, Sales!SubmitInvoice(s)
    PROVE  Orderly /\ NoteStep /\ InvoiceStep
  <1> DEFINE i == work[s].target
  <1>1. /\ work[s].op = "submit" /\ i \in Invoice /\ Sales!MaySubmit(i) /\ Sales!Fits(i)
        /\ Sales!Bill(i) /\ Sales!Leave(s)
        /\ UNCHANGED <<approvals, order>>
    BY DEF Sales!SubmitInvoice, Sales!At
  <1>2. doc[i].source # NoDoc /\ doc[i].docstatus # 1
    BY <1>1 DEF SalesStands, SessionsStand, Sales!MaySubmit, Sales!Target
  <1>3. DocStep /\ NoteStep /\ InvoiceStep /\ actual' \in Nat /\ reserved' \in Nat
    BY <1>1, <1>2, AnyBillStep
  <1> QED
    BY <1>1, <1>3, LeaveStep, OthersStay DEF Orderly

\* A request is approved.
LEMMA ApproveStep ==
    ASSUME Sales!SalesAssumption, SalesStands, NEW d \in Sales!Target, Sales!Approve(d)
    PROVE  Orderly /\ NoteStep /\ InvoiceStep
  <1>1. doc[d].pending /\ doc[d].docstatus = 0 /\ UNCHANGED <<approvals, order, work>>
    BY DEF Sales!Approve
  <1>2. approvals
    BY <1>1 DEF SalesStands, NothingPending
  <1>3. doc[d].source # NoDoc
    <2> SUFFICES ASSUME doc[d].source = NoDoc PROVE FALSE
      OBVIOUS
    <2>1. doc[d] = Sales!Blank
      BY DEF SalesStands, SourcesStand
    <2> QED
      BY <1>1, <2>1 DEF Sales!Blank
  <1>4. DocStep /\ NoteStep /\ InvoiceStep /\ actual' \in Nat /\ reserved' \in Nat
    <2>1. CASE d \in Note
      BY <1>1, <1>2, <1>3, <2>1, DeliverStep DEF Sales!Approve
    <2>2. CASE d \notin Note
      <3>1. d \in Invoice /\ Sales!Fits(d) /\ Sales!Bill(d)
        BY <2>2 DEF Sales!Approve, Sales!Target
      <3> QED
        BY <1>1, <1>3, <3>1, AnyBillStep
    <2> QED
      BY <2>1, <2>2
  <1> QED
    BY <1>1, <1>4, OthersStay DEF Orderly

-----------------------------------------------------------------------------
(* Cancellations                                                           *)

\* A cancellation leaves the request.
LEMMA CancelledPending ==
    ASSUME NEW r \in Sales!TargetRow
    PROVE  [r EXCEPT !.docstatus = 2].pending = r.pending
  BY DEF Sales!TargetRow

\* The rows when a document is cancelled.
LEMMA CancelledRows ==
    ASSUME SalesStands, NEW d \in Sales!Target
    PROVE  LET C == [Sales!Reverted(doc, d) EXCEPT ![d].docstatus = 2]
           IN /\ C \in [Sales!Target -> Sales!TargetRow]
              /\ C[d].docstatus = 2 /\ C[d].source = doc[d].source /\ C[d].qty = doc[d].qty
              /\ C[d].pending = doc[d].pending
              /\ \A e \in Sales!Target \ {d} :
                    C[e] = doc[e] \/ C[e] = [doc[e] EXCEPT !.related = FALSE]
  <1> DEFINE R == Sales!Reverted(doc, d)
             x == [R[d] EXCEPT !.docstatus = 2]
             C == [R EXCEPT ![d].docstatus = 2]
  <1>1. R \in [Sales!Target -> Sales!TargetRow] /\ (R[d] = doc[d] \/ R[d] = [doc[d] EXCEPT !.related = FALSE])
    BY RevertedRows
  <1>2. doc[d] \in Sales!TargetRow
    BY DEF SalesStands, SalesTypes
  <1>3. /\ R[d] \in Sales!TargetRow /\ R[d].source = doc[d].source /\ R[d].qty = doc[d].qty
        /\ R[d].pending = doc[d].pending
    BY <1>1, <1>2, RevertedFields
  <1>4. \A e \in Sales!Target : R[e] = doc[e] \/ R[e] = [doc[e] EXCEPT !.related = FALSE]
    BY RevertedRows
  <1> HIDE DEF R
  <1>5. /\ x \in Sales!TargetRow /\ x.docstatus = 2 /\ x.source = R[d].source
        /\ x.qty = R[d].qty
        /\ x.pending = R[d].pending
    BY <1>3, StatusFields
  <1>6. C = [R EXCEPT ![d] = x]
    OBVIOUS
  <1> HIDE DEF x
  <1>7. C \in [Sales!Target -> Sales!TargetRow] /\ C[d] = x /\ \A e \in Sales!Target \ {d} : C[e] = R[e]
    BY <1>1, <1>5, <1>6
  <1> HIDE DEF C
  <1>8. /\ C \in [Sales!Target -> Sales!TargetRow]
        /\ C[d].docstatus = 2 /\ C[d].source = doc[d].source /\ C[d].qty = doc[d].qty
        /\ C[d].pending = doc[d].pending
        /\ \A e \in Sales!Target \ {d} : C[e] = doc[e] \/ C[e] = [doc[e] EXCEPT !.related = FALSE]
    BY <1>3, <1>4, <1>5, <1>7
  <1> QED
    BY <1>8 DEF C, R

\* What they say of the step.
LEMMA CancelledStep ==
    ASSUME SalesStands, NEW d \in Sales!Target, doc[d].source # NoDoc
    PROVE  LET C == [Sales!Reverted(doc, d) EXCEPT ![d].docstatus = 2]
           IN /\ C \in [Sales!Target -> Sales!TargetRow]
              /\ C[d].docstatus = 2 /\ C[d].source = doc[d].source /\ C[d].qty = doc[d].qty
              /\ \A e \in Sales!Target \ {d} :
                    doc'[e] = C[e] => RowStep(e) /\ Kept(e) /\ doc'[e].qty = doc[e].qty
              /\ doc'[d] = C[d] => RowStep(d)
  <1> DEFINE C == [Sales!Reverted(doc, d) EXCEPT ![d].docstatus = 2]
  <1>1. /\ C \in [Sales!Target -> Sales!TargetRow]
        /\ C[d].docstatus = 2 /\ C[d].source = doc[d].source /\ C[d].qty = doc[d].qty
        /\ C[d].pending = doc[d].pending
        /\ \A e \in Sales!Target \ {d} : C[e] = doc[e] \/ C[e] = [doc[e] EXCEPT !.related = FALSE]
    BY CancelledRows
  <1> HIDE DEF C
  <1>2. ASSUME NEW e \in Sales!Target \ {d}, doc'[e] = C[e]
        PROVE  RowStep(e) /\ Kept(e) /\ doc'[e].qty = doc[e].qty
    <2>1. doc'[e] = doc[e] \/ doc'[e] = [doc[e] EXCEPT !.related = FALSE]
      BY <1>1, <1>2
    <2> QED
      BY <2>1, RowUnchanged, RowReverted
  <1>3. ASSUME doc'[d] = C[d] PROVE RowStep(d)
    <2>1. doc'[d] \in Sales!TargetRow /\ (~approvals => ~doc'[d].pending)
      BY <1>1, <1>3 DEF SalesStands, NothingPending
    <2> QED
      BY <1>1, <1>3, <2>1, RowOfSource
  <1>4. /\ C \in [Sales!Target -> Sales!TargetRow]
        /\ C[d].docstatus = 2 /\ C[d].source = doc[d].source /\ C[d].qty = doc[d].qty
        /\ \A e \in Sales!Target \ {d} :
              doc'[e] = C[e] => RowStep(e) /\ Kept(e) /\ doc'[e].qty = doc[e].qty
        /\ doc'[d] = C[d] => RowStep(d)
    BY <1>1, <1>2, <1>3
  <1> QED
    BY <1>4, Zenon DEF C

\* A note is cancelled.
LEMMA CancelNoteStep ==
    ASSUME Sales!SalesAssumption, SalesStands, NEW s \in Session, Sales!CancelNote(s)
    PROVE  Orderly /\ NoteStep /\ InvoiceStep
  <1> DEFINE n == work[s].target
             C == [Sales!Reverted(doc, n) EXCEPT ![n].docstatus = 2]
  <1>1. /\ work[s].op = "cancel" /\ n \in Note /\ doc[n].docstatus = 1
        /\ actual' = actual + doc[n].qty /\ reserved' = reserved + doc[n].qty
        /\ doc' = C /\ Sales!Leave(s) /\ UNCHANGED <<approvals, order>>
    BY DEF Sales!CancelNote, Sales!At, Sales!PutBack
  <1>2. n \in Sales!Target /\ n \notin Invoice /\ doc[n].source # NoDoc
    BY <1>1, SalesConstants DEF SalesStands, SessionsStand, Sales!Target
  <1>3. actual \in Nat /\ reserved \in Nat /\ \A e \in Sales!Target : doc[e].qty \in Nat
    BY DEF SalesStands, SalesTypes, Sales!TargetRow
  <1>4. /\ C \in [Sales!Target -> Sales!TargetRow] /\ C[n].docstatus = 2
        /\ C[n].qty = doc[n].qty
        /\ \A e \in Sales!Target \ {n} : doc'[e] = C[e] => RowStep(e) /\ Kept(e) /\ doc'[e].qty = doc[e].qty
        /\ doc'[n] = C[n] => RowStep(n)
    BY <1>2, CancelledStep, Zenon
  <1> HIDE DEF C
  <1>5. /\ \A e \in Sales!Target \ {n} : RowStep(e) /\ Kept(e) /\ doc'[e].qty = doc[e].qty
        /\ RowStep(n) /\ doc'[n].docstatus = 2 /\ doc'[n].qty = doc[n].qty
    BY <1>1, <1>4
  <1>6. DocStep
    <2>1. doc' = [e \in Sales!Target |-> doc'[e]]
      BY <1>1, <1>4
    <2> QED
      BY <1>5, <2>1 DEF DocStep
  <1>7. Returns(n)
    <2>1. \A m \in Note \ {n} : Kept(m)
      BY <1>5 DEF Sales!Target
    <2> QED
      BY <1>1, <1>5, <2>1 DEF Returns
  <1>8. SourcesGrow /\ Unbilled
    BY <1>2, <1>3, <1>5 DEF SourcesGrow, Unbilled, Sales!Target
  <1>9. actual' \in Nat /\ reserved' \in Nat
    BY <1>1, <1>2, <1>3
  <1> QED
    BY <1>1, <1>6, <1>7, <1>8, <1>9, LeaveStep, OthersStay DEF Orderly, NoteStep,
       InvoiceStep

\* An invoice is cancelled, and the note that it made.
LEMMA CancelInvoiceStep ==
    ASSUME Sales!SalesAssumption, SalesStands, NEW s \in Session, Sales!CancelInvoice(s)
    PROVE  Orderly /\ NoteStep /\ InvoiceStep
  <1> DEFINE i == work[s].target
             n == doc[i].note
             C == [Sales!Reverted(doc, i) EXCEPT ![i].docstatus = 2]
             delivered == doc[i].delivers /\ n # NoDoc /\ doc[n].docstatus = 1
  <1>1. /\ work[s].op = "cancel" /\ i \in Invoice /\ doc[i].docstatus = 1
        /\ IF delivered THEN Sales!PutBack(doc[n].qty) /\ doc' = [C EXCEPT ![n].docstatus = 2]
                        ELSE doc' = C /\ UNCHANGED <<actual, reserved>>
        /\ Sales!Leave(s) /\ UNCHANGED <<approvals, order>>
    BY DEF Sales!CancelInvoice, Sales!At
  <1>2. i \in Sales!Target /\ i \notin Note /\ doc[i].source # NoDoc
    BY <1>1, SalesConstants DEF SalesStands, SessionsStand, Sales!Target
  <1>3. actual \in Nat /\ reserved \in Nat /\ \A e \in Sales!Target : doc[e].qty \in Nat
    BY DEF SalesStands, SalesTypes, Sales!TargetRow
  <1>4. /\ C \in [Sales!Target -> Sales!TargetRow] /\ C[i].docstatus = 2
        /\ C[i].qty = doc[i].qty
        /\ C[i].source = doc[i].source
        /\ \A e \in Sales!Target \ {i} : doc'[e] = C[e] => RowStep(e) /\ Kept(e) /\ doc'[e].qty = doc[e].qty
        /\ doc'[i] = C[i] => RowStep(i)
    BY <1>2, CancelledStep, Zenon
  <1>5. \A e \in Sales!Target \ {i} : C[e] = doc[e] \/ C[e] = [doc[e] EXCEPT !.related = FALSE]
    BY <1>2, CancelledRows
  <1> HIDE DEF C
  <1>6. CASE ~delivered
    <2>1. doc' = C /\ UNCHANGED <<actual, reserved>>
      BY <1>1, <1>6
    <2>2. DocStep
      BY <1>4, <2>1 DEF DocStep
    <2>3. Rests /\ Unbilled /\ SourcesGrow
      BY <1>2, <1>3, <1>4, <2>1 DEF Rests, Unbilled, SourcesGrow, Sales!Target
    <2> QED
      BY <1>1, <1>3, <2>1, <2>2, <2>3, LeaveStep, OthersStay DEF Orderly, NoteStep,
         InvoiceStep
  <1>7. CASE delivered
    <2> DEFINE x == [C[n] EXCEPT !.docstatus = 2]
    <2>1. n \in Note /\ n # i /\ n \in Sales!Target /\ doc[n].docstatus = 1
      BY <1>2, <1>7 DEF SalesStands, SalesTypes, Sales!TargetRow, Sales!Target
    <2>2. /\ doc' = [C EXCEPT ![n] = x]
          /\ actual' = actual + doc[n].qty /\ reserved' = reserved + doc[n].qty
      BY <1>1, <1>7 DEF Sales!PutBack
    <2>3. C[n] \in Sales!TargetRow /\ C[n].source = doc[n].source /\ C[n].qty = doc[n].qty
          /\ C[n].pending = doc[n].pending
      <3>1. doc[n] \in Sales!TargetRow
        BY <2>1 DEF SalesStands, SalesTypes
      <3>2. C[n] = doc[n] \/ C[n] = [doc[n] EXCEPT !.related = FALSE]
        BY <1>5, <2>1
      <3> HIDE DEF n
      <3>3. CASE C[n] = doc[n]
        BY <3>1, <3>3
      <3>4. CASE C[n] = [doc[n] EXCEPT !.related = FALSE]
        BY <3>1, <3>4, RevertedFields
      <3> QED
        BY <3>2, <3>3, <3>4
    <2>4. /\ x \in Sales!TargetRow /\ x.docstatus = 2 /\ x.source = doc[n].source
          /\ x.qty = doc[n].qty
          /\ x.pending = doc[n].pending
      <3> HIDE DEF n, i
      <3>1. x.pending = C[n].pending
        BY <2>3, CancelledPending
      <3>2. x \in Sales!TargetRow /\ x.docstatus = 2 /\ x.source = C[n].source
              /\ x.qty = C[n].qty
        BY <2>3, StatusFields
      <3> HIDE DEF x
      <3> QED
        BY <2>3, <3>1, <3>2
    <2> HIDE DEF x
    <2>5. /\ doc'[n] = x /\ \A e \in Sales!Target \ {n} : doc'[e] = C[e]
          /\ doc' = [e \in Sales!Target |-> doc'[e]]
      BY <1>4, <2>1, <2>2
    <2>6. doc[n].source # NoDoc
      <3> SUFFICES ASSUME doc[n].source = NoDoc PROVE FALSE
        OBVIOUS
      <3>1. doc[n] = Sales!Blank
        BY <2>1 DEF SalesStands, SourcesStand
      <3> QED
        BY <2>1, <3>1 DEF Sales!Blank
    <2>7. RowStep(n)
      <3>1. doc'[n] \in Sales!TargetRow /\ (~approvals => ~doc'[n].pending)
        BY <2>1, <2>4, <2>5 DEF SalesStands, NothingPending
      <3> QED
        BY <2>1, <2>4, <2>5, <2>6, <3>1, RowOfSource
    <2>8. /\ RowStep(i) /\ doc'[i].docstatus = 2 /\ doc'[i].qty = doc[i].qty
          /\ \A e \in Sales!Target \ {i, n} : RowStep(e) /\ Kept(e) /\ doc'[e].qty = doc[e].qty
      BY <1>2, <1>4, <2>1, <2>5
    <2>9. DocStep
      BY <2>5, <2>7, <2>8 DEF DocStep
    <2>14. UNCHANGED order
      BY <1>1
    <2>10. Returns(n)
      <3>1. \A m \in Note \ {n} : Kept(m)
        BY <1>2, <2>8 DEF Sales!Target
      <3>2. doc'[n].docstatus # 1
        BY <2>4, <2>5
      <3> HIDE DEF n
      <3> QED
        BY <2>1, <2>2, <2>14, <3>1, <3>2 DEF Returns
    <2>11. SourcesGrow
      BY <1>2, <1>3, <2>4, <2>5, <2>8 DEF SourcesGrow, Sales!Target
    <2>12. Unbilled
      <3>1. n \notin Invoice
        BY <2>1, SalesConstants
      <3> QED
        BY <2>8, <3>1 DEF Unbilled, Sales!Target
    <2>13. actual' \in Nat /\ reserved' \in Nat
      BY <1>3, <2>1, <2>2
    <2> QED
      BY <1>1, <2>1, <2>9, <2>10, <2>11, <2>12, <2>13, LeaveStep,
         OthersStay DEF Orderly, NoteStep, InvoiceStep
  <1> QED
    BY <1>6, <1>7

-----------------------------------------------------------------------------
\* Every step is orderly, and does one of these things to the notes and the
\* invoices.
LEMMA SalesSteps ==
    ASSUME Sales!SalesAssumption, SalesStands, [Sales!Next]_(Sales!vars)
    PROVE  Orderly /\ NoteStep /\ InvoiceStep
  <1>1. CASE UNCHANGED Sales!vars
    BY <1>1, StutterStep
  <1>2. ASSUME NEW d \in Sales!Target, NEW src \in Order \cup Note, NEW q \in Drafted,
               NEW updatesInventory \in BOOLEAN, Sales!Create(d, src, q, updatesInventory)
        PROVE  Orderly /\ NoteStep /\ InvoiceStep
    BY <1>2, CreateStep
  <1>3. ASSUME NEW d \in Sales!Target, Sales!Approve(d)
        PROVE Orderly /\ NoteStep /\ InvoiceStep
    BY <1>3, ApproveStep
  <1>4. ASSUME NEW s \in Session, NEW op \in {"submit", "cancel", "close", "reject"},
               NEW d \in Order \cup Sales!Target, Sales!Open(s, op, d)
        PROVE  Orderly /\ NoteStep /\ InvoiceStep
    BY <1>4, OpenStep
  <1>5. ASSUME NEW s \in Session,
               \/ Sales!SubmitOrder(s) \/ Sales!CancelOrder(s) \/ Sales!ReadDelivered(s)
               \/ Sales!CloseOrder(s)
               \/ Sales!SubmitNote(s) \/ Sales!SubmitInvoice(s) \/ Sales!Request(s)
               \/ Sales!Reject(s)
               \/ Sales!CancelNote(s) \/ Sales!CancelInvoice(s) \/ Sales!GiveUp(s)
        PROVE  Orderly /\ NoteStep /\ InvoiceStep
    BY <1>5, SubmitOrderStep, CancelOrderStep, ReadStep, CloseOrderStep,
       SubmitNoteStep, SubmitInvoiceStep, RequestStep, RejectStep, CancelNoteStep,
       CancelInvoiceStep, GiveUpStep
  <1>6. ASSUME Sales!Next PROVE Orderly /\ NoteStep /\ InvoiceStep
    <2>1. CASE \E d \in Sales!Target, src \in Order \cup Note, q \in Drafted,
                  updatesInventory \in BOOLEAN : Sales!Create(d, src, q, updatesInventory)
      BY <1>2, <2>1
    <2>2. CASE \E d \in Sales!Target : Sales!Approve(d)
      BY <1>3, <2>2
    <2>3. ASSUME NEW s \in Session,
                 \/ \E op \in {"submit", "cancel", "close", "reject"},
                       d \in Order \cup Sales!Target : Sales!Open(s, op, d)
                 \/ Sales!SubmitOrder(s) \/ Sales!CancelOrder(s)
                 \/ Sales!ReadDelivered(s) \/ Sales!CloseOrder(s)
                 \/ Sales!SubmitNote(s) \/ Sales!SubmitInvoice(s)
                 \/ Sales!Request(s) \/ Sales!Reject(s)
                 \/ Sales!CancelNote(s) \/ Sales!CancelInvoice(s) \/ Sales!GiveUp(s)
          PROVE  Orderly /\ NoteStep /\ InvoiceStep
      BY <1>4, <1>5, <2>3
    <2> QED
      BY <1>6, <2>1, <2>2, <2>3, Zenon DEF Sales!Next
  <1> QED
    BY <1>1, <1>6

-----------------------------------------------------------------------------
(* The warehouse                                                           *)

\* What the notes took, before and after a step.
LEMMA ShippedType ==
    ASSUME Sales!SalesAssumption, SalesStands, SalesStands'
    PROVE  /\ IsFiniteSet(Note)
           /\ \A n \in Note : Shipped(n) \in Nat /\ Shipped(n)' \in Nat
           /\ actual \in Nat /\ actual' \in Nat /\ Stock \in Nat
  <1>1. IsFiniteSet(Note)
    BY SalesConstants, FS_Subset DEF Sales!Target
  <1>2. \A n \in Note : n \in Sales!Target
    BY DEF Sales!Target
  <1>3. \A n \in Note : Shipped(n) \in Nat
    BY <1>2 DEF SalesStands, SalesTypes, Sales!TargetRow, Shipped
  <1>4. \A n \in Note : Shipped(n)' \in Nat
    BY <1>2 DEF SalesStands, SalesTypes, Sales!TargetRow, Shipped, Sales!Target
  <1>5. actual \in Nat /\ actual' \in Nat /\ Stock \in Nat
    BY SalesConstants DEF SalesStands, SalesTypes
  <1> QED
    BY <1>1, <1>3, <1>4, <1>5

\* The bin keeps the notes' account.
LEMMA StockKept ==
    ASSUME Sales!SalesAssumption, SalesStands, SalesStands', StockFollows, NoteStep
    PROVE  StockFollows'
  <1> DEFINE f == [n \in Note |-> Shipped(n)]
             g == [n \in Note |-> Shipped(n)']
             before == SumFunctionOnSet(f, Note)
             after == SumFunctionOnSet(g, Note)
  <1>1. /\ IsFiniteSet(Note) /\ actual \in Nat /\ actual' \in Nat /\ Stock \in Nat
        /\ \A n \in Note : f[n] \in Int /\ g[n] \in Int
    BY ShippedType
  <1>2. \A n \in Note : Kept(n) => g[n] = f[n]
    BY DEF Kept, Shipped
  <1>3. actual = Stock - before
    BY DEF StockFollows
  <1>4. actual' = Stock - after => StockFollows'
    BY DEF StockFollows
  <1>5. \A n \in Note : f[n] = Shipped(n) /\ g[n] = Shipped(n)'
    OBVIOUS
  <1> HIDE DEF f, g
  <1>6. before \in Int /\ after \in Int
    BY <1>1, SumType
  <1>7. CASE Rests
    <2>1. after = before
      BY <1>1, <1>2, <1>7, SumSame DEF Rests
    <2> QED
      BY <1>3, <1>4, <1>7, <2>1 DEF Rests
  <1>8. ASSUME NEW n \in Note, Ships(n) \/ Returns(n) PROVE actual' = Stock - after
    <2>1. \A m \in Note \ {n} : g[m] = f[m]
      BY <1>2, <1>8 DEF Ships, Returns
    <2>2. after = before + (g[n] - f[n])
      BY <1>1, <2>1, SumUpdate
    <2>3. actual' = actual - (g[n] - f[n])
      <3>1. CASE Ships(n)
        <4>1. f[n] = 0 /\ g[n] = doc'[n].qty
          BY <1>5, <3>1 DEF Ships, Shipped
        <4> QED
          BY <1>1, <3>1, <4>1 DEF Ships
      <3>2. CASE Returns(n)
        <4>1. f[n] = doc[n].qty /\ g[n] = 0
          BY <1>5, <3>2 DEF Returns, Shipped
        <4> QED
          BY <1>1, <3>2, <4>1 DEF Returns
      <3> QED
        BY <1>8, <3>1, <3>2
    <2> HIDE DEF before, after
    <2> QED
      BY <1>1, <1>3, <1>6, <2>2, <2>3
  <1> QED
    BY <1>4, <1>7, <1>8 DEF NoteStep

-----------------------------------------------------------------------------
(* What counts against a source                                            *)

\* What is consumed of every source is counted row by row.
ConsumedCounted ==
    \A docs \in {Note, Invoice}, src \in Order \cup Note :
        /\ Sales!Consumed(docs, src) = SumFunctionOnSet([d \in docs |-> Counted(src, d)], docs)
        /\ Sales!Consumed(docs, src) \in Nat
        /\ \A d \in docs : Counted(src, d) \in Nat

\* As it is in a state,
LEMMA ConsumedNow ==
    ASSUME Sales!SalesAssumption
    PROVE  SalesTypes => ConsumedCounted
  <1> SUFFICES ASSUME SalesTypes, NEW docs \in {Note, Invoice}, NEW src \in Order \cup Note
               PROVE  /\ Sales!Consumed(docs, src) = SumFunctionOnSet([d \in docs |-> Counted(src, d)], docs)
                      /\ Sales!Consumed(docs, src) \in Nat
                      /\ \A d \in docs : Counted(src, d) \in Nat
    BY DEF ConsumedCounted
  <1>1. docs \in SUBSET Sales!Target
    BY DEF Sales!Target
  <1> QED
    BY <1>1, ConsumedIsSum

\* and in the next.
LEMMA ConsumedNext ==
    ASSUME Sales!SalesAssumption
    PROVE  SalesTypes' => ConsumedCounted'
  <1>1. SalesTypes => ConsumedCounted
    BY ConsumedNow
  <1> QED
    BY <1>1, PTL

\* Of a document that is not submitted by a step nothing more is counted.
LEMMA CountedFalls ==
    ASSUME SalesTypes, NEW d \in Sales!Target, NEW src, Kept(d) \/ doc'[d].docstatus # 1
    PROVE  Counted(src, d)' <= Counted(src, d)
  BY DEF SalesTypes, Sales!TargetRow, Kept, Counted

\* Nothing is submitted but e: what is consumed grows by what it counts.
LEMMA ConsumedGrows ==
    ASSUME Sales!SalesAssumption,
           SalesTypes, SalesTypes', NEW docs \in {Note, Invoice},
           NEW src \in Order \cup Note,
           NEW e \in docs, doc[e].docstatus # 1,
           \A d \in docs \ {e} : Kept(d) \/ doc'[d].docstatus # 1
    PROVE  Sales!Consumed(docs, src)' <= Sales!Consumed(docs, src) + Counted(src, e)'
  <1> DEFINE f == [d \in docs |-> Counted(src, d)]
             g == [d \in docs |-> Counted(src, d)']
             h == [d \in docs |-> IF d = e THEN g[e] ELSE f[d]]
  <1>1. docs \in SUBSET Sales!Target /\ IsFiniteSet(docs)
    BY SalesConstants, FS_Subset DEF Sales!Target
  <1>2. /\ Sales!Consumed(docs, src) = SumFunctionOnSet(f, docs)
        /\ Sales!Consumed(docs, src) \in Nat
        /\ \A d \in docs : Counted(src, d) \in Nat
    BY ConsumedNow DEF ConsumedCounted
  <1>3. /\ Sales!Consumed(docs, src)' = SumFunctionOnSet(g, docs)
        /\ Sales!Consumed(docs, src)' \in Nat
        /\ \A d \in docs : Counted(src, d)' \in Nat
    BY ConsumedNext DEF ConsumedCounted
  <1>4. /\ \A d \in docs : f[d] \in Int /\ g[d] \in Int /\ h[d] \in Int
        /\ g[e] = Counted(src, e)' /\ g[e] \in Nat /\ f[e] = 0 /\ h[e] = g[e]
        /\ \A d \in docs \ {e} : h[d] = f[d]
    <2>1. Counted(src, e) = 0
      BY DEF Counted
    <2> QED
      BY <1>2, <1>3, <2>1
  <1>5. \A d \in docs : g[d] <= h[d]
    <2>1. \A d \in docs \ {e} : Counted(src, d)' <= Counted(src, d)
      BY <1>1, CountedFalls
    <2> QED
      BY <1>3, <1>4, <2>1
  <1> HIDE DEF f, g, h
  <1>6. SumFunctionOnSet(g, docs) <= SumFunctionOnSet(h, docs)
    BY <1>1, <1>4, <1>5, SumMonotone
  <1>7. SumFunctionOnSet(h, docs) = SumFunctionOnSet(f, docs) + (h[e] - f[e])
    BY <1>1, <1>4, SumUpdate
  <1> QED
    BY <1>2, <1>3, <1>4, <1>6, <1>7

\* Nothing is submitted: what is consumed does not grow.
LEMMA ConsumedFalls ==
    ASSUME Sales!SalesAssumption,
           SalesTypes, SalesTypes', NEW docs \in {Note, Invoice},
           NEW src \in Order \cup Note,
           \A d \in docs : Kept(d) \/ doc'[d].docstatus # 1
    PROVE  Sales!Consumed(docs, src)' <= Sales!Consumed(docs, src)
  <1> DEFINE f == [d \in docs |-> Counted(src, d)]
             g == [d \in docs |-> Counted(src, d)']
  <1>1. docs \in SUBSET Sales!Target /\ IsFiniteSet(docs)
    BY SalesConstants, FS_Subset DEF Sales!Target
  <1>2. /\ Sales!Consumed(docs, src) = SumFunctionOnSet(f, docs)
        /\ \A d \in docs : Counted(src, d) \in Nat
    BY ConsumedNow DEF ConsumedCounted
  <1>3. /\ Sales!Consumed(docs, src)' = SumFunctionOnSet(g, docs)
        /\ \A d \in docs : Counted(src, d)' \in Nat
    BY ConsumedNext DEF ConsumedCounted
  <1>4. \A d \in docs : f[d] \in Int /\ g[d] \in Int /\ g[d] <= f[d]
    BY <1>1, <1>2, <1>3, CountedFalls
  <1> HIDE DEF f, g
  <1> QED
    BY <1>1, <1>2, <1>3, <1>4, SumMonotone

\* What counts against a source stays within it.
LEMMA WithinKept ==
    ASSUME Sales!SalesAssumption,
           SalesStands, SalesStands', ConsumedWithin, UNCHANGED approvals, NoteStep,
           InvoiceStep
    PROVE  ConsumedWithin'
  <1>1. SalesTypes /\ SalesTypes'
    BY DEF SalesStands
  <1>2. ASSUME ~approvals, NEW o \in Order PROVE Sales!Consumed(Note, o)' <= Ordered[o]
    <2>1. /\ Sales!Consumed(Note, o) \in Nat /\ Sales!Consumed(Note, o)' \in Nat
          /\ Ordered[o] \in Nat
          /\ Sales!Consumed(Note, o) <= Ordered[o]
      BY <1>1, <1>2, ConsumedNow, ConsumedNext, SalesConstants DEF ConsumedCounted,
         ConsumedWithin
    <2>2. CASE \A n \in Note : Kept(n) \/ doc'[n].docstatus # 1
      BY <1>1, <2>1, <2>2, ConsumedFalls
    <2>3. ASSUME NEW n \in Note, Ships(n) PROVE Sales!Consumed(Note, o)' <= Ordered[o]
      <3>1. Sales!Consumed(Note, o)' <= Sales!Consumed(Note, o) + Counted(o, n)'
        BY <1>1, <2>3, ConsumedGrows DEF Ships
      <3>2. CASE doc'[n].source = o /\ doc'[n].related
        <4>1. Counted(o, n)' = doc'[n].qty
          BY <2>3, <3>2 DEF Counted, Ships
        <4>2. Sales!Consumed(Note, o) + doc'[n].qty <= Ordered[o]
          BY <1>2, <2>3, <3>2 DEF Ships
        <4>3. doc'[n].qty \in Nat
          BY <1>1 DEF SalesTypes, Sales!TargetRow, Sales!Target
        <4> QED
          BY <2>1, <3>1, <4>1, <4>2, <4>3
      <3>3. CASE ~(doc'[n].source = o /\ doc'[n].related)
        <4>1. Counted(o, n)' = 0
          BY <3>3 DEF Counted
        <4> QED
          BY <2>1, <3>1, <4>1
      <3> QED
        BY <3>2, <3>3
    <2> QED
      BY <2>2, <2>3 DEF NoteStep, Rests, Returns
  <1>3. ASSUME NEW src \in Order \cup Note
        PROVE Sales!Consumed(Invoice, src)' <= Sales!SourceQty(src)'
    <2>1. /\ Sales!SourceQty(src) \in Nat /\ Sales!SourceQty(src)' \in Nat
          /\ Sales!SourceQty(src) <= Sales!SourceQty(src)'
      <3>1. CASE src \in Order
        BY <3>1, SalesConstants DEF Sales!SourceQty
      <3>2. CASE src \notin Order
        <4>1. src \in Note /\ src \in Sales!Target
          BY <3>2 DEF Sales!Target
        <4>2. doc[src].qty \in Nat /\ doc'[src].qty \in Nat /\ doc'[src].qty >= doc[src].qty
          BY <1>1, <4>1 DEF SalesTypes, Sales!TargetRow, InvoiceStep, SourcesGrow,
             Sales!Target
        <4> QED
          BY <3>2, <4>2 DEF Sales!SourceQty
      <3> QED
        BY <3>1, <3>2
    <2>2. /\ Sales!Consumed(Invoice, src) \in Nat /\ Sales!Consumed(Invoice, src)' \in Nat
          /\ Sales!Consumed(Invoice, src) <= Sales!SourceQty(src)
      BY <1>1, ConsumedNow, ConsumedNext DEF ConsumedCounted, ConsumedWithin
    <2>3. CASE Unbilled
      BY <1>1, <2>1, <2>2, <2>3, ConsumedFalls DEF Unbilled
    <2>4. ASSUME NEW i \in Invoice, Bills(i)
          PROVE Sales!Consumed(Invoice, src)' <= Sales!SourceQty(src)'
      <3>1. Sales!Consumed(Invoice, src)' <= Sales!Consumed(Invoice, src) + Counted(src, i)'
        BY <1>1, <2>4, ConsumedGrows DEF Bills
      <3>2. CASE doc'[i].source = src /\ doc'[i].related
        <4>1. Counted(src, i)' = doc[i].qty
          BY <2>4, <3>2 DEF Counted, Bills
        <4>2. Sales!Consumed(Invoice, src) + doc[i].qty <= Sales!SourceQty(src)
          BY <2>4, <3>2 DEF Bills
        <4>3. doc[i].qty \in Nat
          BY <1>1 DEF SalesTypes, Sales!TargetRow, Sales!Target
        <4> QED
          BY <2>1, <2>2, <3>1, <4>1, <4>2, <4>3
      <3>3. CASE ~(doc'[i].source = src /\ doc'[i].related)
        <4>1. Counted(src, i)' = 0
          BY <3>3 DEF Counted
        <4> QED
          BY <2>1, <2>2, <3>1, <4>1
      <3> QED
        BY <3>2, <3>3
    <2> QED
      BY <2>3, <2>4 DEF InvoiceStep
  <1> QED
    BY <1>2, <1>3 DEF ConsumedWithin

-----------------------------------------------------------------------------
(* The invariant                                                           *)

\* At the start there is nothing but the stock.
LEMMA InitSales ==
    ASSUME Sales!SalesAssumption, Sales!Init
    PROVE  SalesInv
  <1>1. SalesTypes
    BY SalesConstants, BlankRow DEF Sales!Init, SalesTypes, OrderRow, SalesActivity,
       Sales!Idle
  <1>2. \A d \in Sales!Target : doc[d] = Sales!Blank
    BY DEF Sales!Init
  <1>3. Sales!Blank.source = NoDoc /\ Sales!Blank.docstatus = 0 /\ Sales!Blank.qty = 0
          /\ ~Sales!Blank.pending
    BY DEF Sales!Blank
  <1>4. SourcesStand
    BY <1>2, <1>3, SalesConstants DEF Sales!Init, SourcesStand, Sales!Target
  <1>5. SessionsStand
    BY DEF Sales!Init, SessionsStand, Sales!Idle
  <1>6. NothingPending
    BY <1>2, <1>3 DEF NothingPending
  <1>7. StockFollows
    <2> DEFINE f == [n \in Note |-> Shipped(n)]
    <2>1. IsFiniteSet(Note) /\ \A n \in Note : f[n] = 0
      BY <1>2, <1>3, SalesConstants, FS_Subset DEF Shipped, Sales!Target
    <2> HIDE DEF f
    <2>2. SumFunctionOnSet(f, Note) = 0
      BY <2>1, SumZero
    <2>3. actual = Stock /\ Stock \in Nat
      BY SalesConstants DEF Sales!Init
    <2>4. actual = Stock - SumFunctionOnSet(f, Note)
      BY <2>2, <2>3
    <2> QED
      BY <2>4 DEF StockFollows, f
  <1>8. ConsumedWithin
    <2>1. ASSUME NEW docs \in {Note, Invoice}, NEW src \in Order \cup Note
          PROVE  Sales!Consumed(docs, src) = 0
      <3> DEFINE f == [d \in docs |-> Counted(src, d)]
      <3>1. docs \in SUBSET Sales!Target /\ IsFiniteSet(docs)
        BY SalesConstants, FS_Subset DEF Sales!Target
      <3>2. \A d \in docs : f[d] = 0
        BY <1>2, <1>3, <3>1 DEF Counted
      <3>3. Sales!Consumed(docs, src) = SumFunctionOnSet(f, docs)
        BY <1>1, ConsumedNow DEF ConsumedCounted
      <3> HIDE DEF f
      <3> QED
        BY <3>1, <3>2, <3>3, SumZero
    <2>2. \A o \in Order : Ordered[o] \in Nat
      BY SalesConstants
    <2>3. \A src \in Order \cup Note : Sales!SourceQty(src) \in Nat
      BY <1>1, <2>2 DEF SalesTypes, Sales!TargetRow, Sales!SourceQty, Sales!Target
    <2> QED
      BY <2>1, <2>2, <2>3 DEF ConsumedWithin
  <1> QED
    BY <1>1, <1>4, <1>5, <1>6, <1>7, <1>8 DEF SalesInv

\* Every step keeps it.
LEMMA NextSales ==
    ASSUME Sales!SalesAssumption, SalesInv, [Sales!Next]_(Sales!vars)
    PROVE  SalesInv'
  <1>1. SalesStands /\ StockFollows /\ ConsumedWithin
    BY DEF SalesInv, SalesStands
  <1>2. Orderly /\ NoteStep /\ InvoiceStep
    BY <1>1, SalesSteps
  <1>3. SalesStands'
    BY <1>1, <1>2, OrderlyStands
  <1>4. StockFollows'
    BY <1>1, <1>2, <1>3, StockKept
  <1>5. ConsumedWithin'
    BY <1>1, <1>2, <1>3, WithinKept DEF Orderly
  <1> QED
    BY <1>3, <1>4, <1>5 DEF SalesInv, SalesStands

\* The inductive invariant: the types, what was found and stands, the account of
\* the bin, and what counts against a source.
THEOREM SalesInvariant ==
    ASSUME Sales!SalesAssumption
    PROVE  Sales!Spec => []SalesInv
  <1>1. Sales!Init => SalesInv
    BY InitSales
  <1>2. SalesInv /\ [Sales!Next]_(Sales!vars) => SalesInv'
    BY NextSales
  <1> QED
    BY <1>1, <1>2, PTL DEF Sales!Spec

-----------------------------------------------------------------------------
(* What the orders were delivered                                          *)

\* What a note delivered of an order.
DeliveredBy(o, n) == IF doc[n].source = o THEN Shipped(n) ELSE 0

\* The submitted notes of an order.
NotesOf(o) == {n \in Sales!From(o, Note) : doc[n].docstatus = 1}

\* Deliveries are counted note by note.
DeliveredCounted ==
    \A o \in Order :
        /\ Sales!Delivered(o) = SumFunctionOnSet([n \in Note |-> DeliveredBy(o, n)], Note)
        /\ Sales!Delivered(o) \in Nat
        /\ \A n \in Note : DeliveredBy(o, n) \in Nat

\* In every state,
LEMMA DeliveredNow ==
    ASSUME Sales!SalesAssumption
    PROVE  SalesTypes => DeliveredCounted
  <1> SUFFICES ASSUME SalesTypes, NEW o \in Order
               PROVE  /\ Sales!Delivered(o) = SumFunctionOnSet([n \in Note |-> DeliveredBy(o, n)], Note)
                      /\ Sales!Delivered(o) \in Nat
                      /\ \A n \in Note : DeliveredBy(o, n) \in Nat
    BY DEF DeliveredCounted
  <1> DEFINE by == [n \in Note |-> DeliveredBy(o, n)]
             S == NotesOf(o)
             of == [n \in S |-> doc[n].qty]
  <1>1. S \in SUBSET Note /\ S \in SUBSET Sales!Target /\ Note \in SUBSET Sales!Target
    BY DEF NotesOf, Sales!From, Sales!Target
  <1>2. IsFiniteSet(Note) /\ IsFiniteSet(S) /\ Sales!Total(S) \in Nat
    BY <1>1, TotalType
  <1>3. \A n \in Note : doc[n].qty \in Nat /\ DeliveredBy(o, n) \in Nat
    BY DEF SalesTypes, Sales!TargetRow, DeliveredBy, Shipped, Sales!Target
  <1>4. /\ \A n \in Note : by[n] \in Int
        /\ \A n \in Note \ S : by[n] = 0
        /\ \A n \in S : of[n] \in Int /\ of[n] = by[n]
    BY <1>1, <1>3 DEF DeliveredBy, Shipped, NotesOf, Sales!From
  <1>5. Sales!Delivered(o) = SumFunctionOnSet(of, S) /\ Sales!Delivered(o) = Sales!Total(S)
    BY SameSums DEF Sales!Delivered, Sales!Total, NotesOf
  <1> HIDE DEF by, S, of
  <1>6. SumFunctionOnSet(by, Note) = SumFunctionOnSet(by, S)
    BY <1>1, <1>2, <1>4, SumWithoutZeros
  <1>7. SumFunctionOnSet(of, S) = SumFunctionOnSet(by, S)
    BY <1>2, <1>4, SumSame
  <1> QED
    BY <1>2, <1>3, <1>5, <1>6, <1>7 DEF by

\* and in the next.
LEMMA DeliveredNext ==
    ASSUME Sales!SalesAssumption
    PROVE  SalesTypes' => DeliveredCounted'
  <1>1. SalesTypes => DeliveredCounted
    BY DeliveredNow
  <1> QED
    BY <1>1, PTL

\* Together the orders were delivered what the submitted notes took.
LEMMA DeliveredIsShipped ==
    ASSUME Sales!SalesAssumption, SalesStands
    PROVE  SumFunctionOnSet([o \in Order |-> Sales!Delivered(o)], Order)
             = SumFunctionOnSet([n \in Note |-> Shipped(n)], Note)
  <1> DEFINE S == {n \in Note : doc[n].docstatus = 1}
             of == [n \in Note |-> Shipped(n)]
             at == [n \in S |-> doc[n].source]
             group == [o \in Order |-> NotesOf(o)]
             g == [o \in Order |-> Sales!Delivered(o)]
  <1>1. IsFiniteSet(Note) /\ IsFiniteSet(S) /\ IsFiniteSet(Order) /\ S \in SUBSET Note
    BY SalesConstants, FS_Subset DEF Sales!Target
  <1>2. \A n \in Note : doc[n].qty \in Nat /\ of[n] \in Int
    BY DEF SalesStands, SalesTypes, Sales!TargetRow, Shipped, Sales!Target
  <1>3. \A n \in Note \ S : of[n] = 0
    BY DEF Shipped
  <1>4. \A n \in S : at[n] \in Order
    <2> SUFFICES ASSUME NEW n \in S PROVE doc[n].source \in Order
      OBVIOUS
    <2>1. n \in Note /\ n \in Sales!Target /\ doc[n].docstatus = 1
      BY DEF Sales!Target
    <2>2. doc[n] # Sales!Blank
      BY <2>1 DEF Sales!Blank
    <2> QED
      BY <2>1, <2>2 DEF SalesStands, SourcesStand
  <1>5. \A o \in Order : group[o] \subseteq S /\ \A n \in S : n \in group[o] <=> at[n] = o
    BY DEF NotesOf, Sales!From
  <1>6. \A o \in Order : g[o] = SumFunctionOnSet(of, group[o])
    <2> SUFFICES ASSUME NEW o \in Order
                 PROVE Sales!Delivered(o) = SumFunctionOnSet(of, NotesOf(o))
      OBVIOUS
    <2> DEFINE qty == [n \in NotesOf(o) |-> doc[n].qty]
    <2>1. IsFiniteSet(NotesOf(o))
      BY <1>1, FS_Subset DEF NotesOf, Sales!From
    <2>2. \A n \in NotesOf(o) : qty[n] \in Int /\ qty[n] = of[n]
      BY <1>2 DEF NotesOf, Sales!From, Shipped
    <2>3. Sales!Delivered(o) = SumFunctionOnSet(qty, NotesOf(o))
      BY SameSums DEF Sales!Delivered, Sales!Total, NotesOf
    <2> HIDE DEF qty, of
    <2> QED
      BY <2>1, <2>2, <2>3, SumSame
  <1> HIDE DEF S, of, at, group, g
  <1>7. SumFunctionOnSet(g, Order) = SumFunctionOnSet(of, S)
    <2>1. \A n \in S : of[n] \in Int
      BY <1>1, <1>2
    <2> QED
      BY <1>1, <1>4, <1>5, <1>6, <2>1, SumByGroup
  <1>8. SumFunctionOnSet(of, Note) = SumFunctionOnSet(of, S)
    BY <1>1, <1>2, <1>3, SumWithoutZeros
  <1> QED
    BY <1>7, <1>8 DEF of, g

\* Every variable has its type, and the warehouse holds what was there less what
\* was delivered of the orders: the bin and the documents are written by other
\* statements, and the notes that the invoices make count as well.
THEOREM SalesTypeCorrect ==
    ASSUME Sales!SalesAssumption
    PROVE  Sales!Spec => []Sales!TypeOK
  <1>1. ASSUME SalesInv PROVE Sales!TypeOK
    <2>1. SalesStands /\ StockFollows
      BY <1>1 DEF SalesInv, SalesStands
    <2>2. actual = Stock - SumFunctionOnSet([o \in Order |-> Sales!Delivered(o)], Order)
      BY <2>1, DeliveredIsShipped, Zenon DEF StockFollows
    <2>3. SalesTypes
      BY <1>1 DEF SalesInv
    <2> QED
      BY <2>2, <2>3, SameSums DEF Sales!TypeOK, SalesTypes, OrderRow, SalesActivity
  <1>2. Sales!Spec => []SalesInv
    BY SalesInvariant
  <1> QED
    BY <1>1, <1>2, PTL

\* Nothing is delivered or billed beyond its source, whatever is submitted and
\* cancelled at the same time.
THEOREM AlwaysWithinSource ==
    ASSUME Sales!SalesAssumption
    PROVE  Sales!Spec => []Sales!WithinSource
  <1>1. ASSUME SalesInv PROVE Sales!WithinSource
    <2>1. ConsumedWithin
      BY <1>1 DEF SalesInv
    <2>2. ASSUME NEW o \in Order, ~Sales!Severed(Note, o)
          PROVE Sales!Delivered(o) = Sales!Consumed(Note, o)
      <3>1. \A n \in Sales!From(o, Note) : doc[n].docstatus = 1 <=> doc[n].related /\ doc[n].docstatus = 1
        BY <2>2 DEF Sales!Severed
      <3>2. NotesOf(o) = {n \in Sales!From(o, Note) : doc[n].related /\ doc[n].docstatus = 1}
        BY <3>1 DEF NotesOf
      <3> QED
        BY <3>2 DEF Sales!Delivered, Sales!Consumed, NotesOf
    <2> QED
      BY <2>1, <2>2 DEF Sales!WithinSource, ConsumedWithin
  <1>2. Sales!Spec => []SalesInv
    BY SalesInvariant
  <1> QED
    BY <1>1, <1>2, PTL

-----------------------------------------------------------------------------
(* The reservation                                                         *)

\* What the orders were delivered, before and after a step.
LEMMA DeliveredTypes ==
    ASSUME Sales!SalesAssumption, SalesStands, SalesStands'
    PROVE  \A o \in Order : Sales!Delivered(o) \in Nat /\ Sales!Delivered(o)' \in Nat /\ Ordered[o] \in Nat
  BY DeliveredNow, DeliveredNext, SalesConstants DEF SalesStands, DeliveredCounted

\* The notes that stay deliver what they did.
LEMMA DeliveredSame ==
    ASSUME Sales!SalesAssumption, SalesStands, SalesStands', NEW o \in Order,
           \A n \in Note : Kept(n)
    PROVE  Sales!Delivered(o)' = Sales!Delivered(o)
  <1> DEFINE f == [n \in Note |-> DeliveredBy(o, n)]
             g == [n \in Note |-> DeliveredBy(o, n)']
  <1>1. IsFiniteSet(Note)
    BY ShippedType
  <1>2. /\ Sales!Delivered(o) = SumFunctionOnSet(f, Note)
        /\ Sales!Delivered(o)' = SumFunctionOnSet(g, Note)
        /\ \A n \in Note : f[n] \in Int /\ g[n] \in Int
    BY DeliveredNow, DeliveredNext DEF SalesStands, DeliveredCounted
  <1>3. \A n \in Note : f[n] = g[n]
    BY DEF Kept, DeliveredBy, Shipped
  <1> HIDE DEF f, g
  <1> QED
    BY <1>1, <1>2, <1>3, SumSame

\* One note moves, and with it the deliveries of its order.
LEMMA DeliveredMoves ==
    ASSUME Sales!SalesAssumption,
           SalesStands, SalesStands', NEW n \in Note, \A m \in Note \ {n} : Kept(m),
           NEW o \in Order
    PROVE  Sales!Delivered(o)' = Sales!Delivered(o) + (DeliveredBy(o, n)' - DeliveredBy(o, n))
  <1> DEFINE f == [m \in Note |-> DeliveredBy(o, m)]
             g == [m \in Note |-> DeliveredBy(o, m)']
  <1>1. IsFiniteSet(Note)
    BY ShippedType
  <1>2. /\ Sales!Delivered(o) = SumFunctionOnSet(f, Note)
        /\ Sales!Delivered(o)' = SumFunctionOnSet(g, Note)
        /\ \A m \in Note : f[m] \in Int /\ g[m] \in Int
    BY DeliveredNow, DeliveredNext DEF SalesStands, DeliveredCounted
  <1>3. \A m \in Note \ {n} : g[m] = f[m]
    BY DEF Kept, DeliveredBy, Shipped
  <1>4. f[n] = DeliveredBy(o, n) /\ g[n] = DeliveredBy(o, n)'
    OBVIOUS
  <1> HIDE DEF f, g
  <1>5. SumFunctionOnSet(g, Note) = SumFunctionOnSet(f, Note) + (g[n] - f[n])
    BY <1>1, <1>2, <1>3, SumUpdate
  <1> QED
    BY <1>2, <1>4, <1>5

\* What the orders are owed, before and after a step.
LEMMA OwedTypes ==
    ASSUME Sales!SalesAssumption, SalesStands, SalesStands'
    PROVE  /\ \A o \in Order : Sales!Owes(o) \in Nat /\ Sales!Owes(o)' \in Nat
           /\ Sales!Owed \in Nat /\ Sales!Owed' \in Nat
           /\ IsFiniteSet(Order)
  <1>1. \A o \in Order : Sales!Delivered(o) \in Nat /\ Sales!Delivered(o)' \in Nat /\ Ordered[o] \in Nat
    BY DeliveredTypes
  <1>2. \A o \in Order : Sales!Owes(o) \in Nat /\ Sales!Owes(o)' \in Nat
    BY <1>1, NotNegativeType DEF Sales!Owes
  <1>3. IsFiniteSet(Order)
    BY SalesConstants
  <1>4. \A o \in Order : [p \in Order |-> Sales!Owes(p)][o] \in Nat /\ [p \in Order |-> Sales!Owes(p)'][o] \in Nat
    BY <1>2
  <1> QED
    BY <1>2, <1>3, <1>4, SumNatural, SameSums DEF Sales!Owed

\* One order is owed something else.
LEMMA OwedMoves ==
    ASSUME Sales!SalesAssumption,
           SalesStands, SalesStands', NEW o \in Order,
           \A p \in Order \ {o} : Sales!Owes(p)' = Sales!Owes(p)
    PROVE  Sales!Owed' = Sales!Owed + (Sales!Owes(o)' - Sales!Owes(o))
  <1> DEFINE f == [p \in Order |-> Sales!Owes(p)]
             g == [p \in Order |-> Sales!Owes(p)']
  <1>1. /\ IsFiniteSet(Order)
        /\ Sales!Owed = SumFunctionOnSet(f, Order) /\ Sales!Owed' = SumFunctionOnSet(g, Order)
        /\ \A p \in Order : f[p] \in Int /\ g[p] \in Int
    BY OwedTypes, SameSums DEF Sales!Owed
  <1>2. \A p \in Order \ {o} : g[p] = f[p]
    OBVIOUS
  <1>3. f[o] = Sales!Owes(o) /\ g[o] = Sales!Owes(o)'
    OBVIOUS
  <1> HIDE DEF f, g
  <1>4. SumFunctionOnSet(g, Order) = SumFunctionOnSet(f, Order) + (g[o] - f[o])
    BY <1>1, <1>2, SumUpdate
  <1> QED
    BY <1>1, <1>3, <1>4

\* No order is.
LEMMA OwedSame ==
    ASSUME Sales!SalesAssumption,
           SalesStands, SalesStands', \A o \in Order : Sales!Owes(o)' = Sales!Owes(o)
    PROVE  Sales!Owed' = Sales!Owed
  <1> DEFINE f == [p \in Order |-> Sales!Owes(p)]
             g == [p \in Order |-> Sales!Owes(p)']
  <1>1. /\ IsFiniteSet(Order)
        /\ Sales!Owed = SumFunctionOnSet(f, Order) /\ Sales!Owed' = SumFunctionOnSet(g, Order)
        /\ \A p \in Order : f[p] \in Int /\ f[p] = g[p]
    BY OwedTypes, SameSums DEF Sales!Owed
  <1> HIDE DEF f, g
  <1> QED
    BY <1>1, SumSame

\* Deliveries that do not go beyond their order and belong to an open one.
InOrder == \A o \in Order : ~Sales!OutOfOrder(o)

\* A delivery in order takes from the reservation what the order was owed.
LEMMA ShipsInOrder ==
    ASSUME Sales!SalesAssumption,
           SalesStands, SalesStands', NEW n \in Note, Ships(n), InOrder,
           reserved = Sales!Owed
    PROVE  reserved' = Sales!Owed'
  <1>0. doc'[n].qty \in Nat /\ doc'[n].source \in Order
    BY DEF SalesStands, SalesTypes, Sales!TargetRow, Sales!Target, Ships
  <1> PICK o \in Order, q \in Nat : o = doc'[n].source /\ q = doc'[n].qty
    BY <1>0
  <1>1. /\ doc[n].docstatus # 1 /\ doc'[n].docstatus = 1 /\ UNCHANGED order
        /\ reserved' = Sales!NotNegative(reserved - q)
        /\ \A m \in Note \ {n} : Kept(m)
    BY DEF Ships
  <1>3. /\ DeliveredBy(o, n) = 0 /\ DeliveredBy(o, n)' = q
        /\ \A p \in Order \ {o} : DeliveredBy(p, n) = 0 /\ DeliveredBy(p, n)' = 0
    BY <1>1 DEF DeliveredBy, Shipped
  <1>4. /\ \A p \in Order : Sales!Delivered(p) \in Nat /\ Sales!Delivered(p)' \in Nat /\ Ordered[p] \in Nat
        /\ Sales!Owed \in Nat /\ Sales!Owed' \in Nat /\ \A p \in Order : Sales!Owes(p) \in Nat /\ Sales!Owes(p)' \in Nat
    BY DeliveredTypes, OwedTypes
  <1>5. /\ Sales!Delivered(o)' = Sales!Delivered(o) + (DeliveredBy(o, n)' - DeliveredBy(o, n))
        /\ \A p \in Order \ {o} : Sales!Delivered(p)' = Sales!Delivered(p) + (DeliveredBy(p, n)' - DeliveredBy(p, n))
    BY <1>1, DeliveredMoves
  <1>6. Sales!Delivered(o)' = Sales!Delivered(o) + q /\ \A p \in Order \ {o} : Sales!Delivered(p)' = Sales!Delivered(p)
    BY <1>1, <1>3, <1>4, <1>5
  <1>7. \A p \in Order \ {o} : Sales!Owes(p)' = Sales!Owes(p)
    BY <1>1, <1>6 DEF Sales!Owes, Sales!Standing
  <1>8. Sales!Owes(o)' = Sales!Owes(o) - q
    <2>1. CASE q = 0
      BY <1>1, <1>4, <1>6, <2>1 DEF Sales!Owes, Sales!Standing
    <2>2. CASE q # 0
      <3>1. Sales!Delivered(o)' # Sales!Delivered(o)
        BY <1>1, <1>4, <1>6, <2>2
      <3>2. Sales!Standing(o) /\ Sales!Delivered(o)' <= Ordered[o]
        BY <1>1, <1>4, <3>1 DEF InOrder, Sales!OutOfOrder
      <3>3. Sales!Standing(o)'
        BY <1>1, <3>2 DEF Sales!Standing
      <3>4. Sales!Owes(o) = Ordered[o] - Sales!Delivered(o)
              /\ Sales!Owes(o)' = Ordered[o] - Sales!Delivered(o)'
        BY <1>1, <1>4, <1>6, <3>2, <3>3, NotNegativeType DEF Sales!Owes
      <3> QED
        BY <1>1, <1>4, <1>6, <3>4
    <2> QED
      BY <2>1, <2>2
  <1>9. Sales!Owed' = Sales!Owed + (Sales!Owes(o)' - Sales!Owes(o))
    BY <1>1, <1>7, OwedMoves
  <1>10. Sales!Owed' = reserved - q
    BY <1>1, <1>4, <1>8, <1>9
  <1> QED
    BY <1>1, <1>4, <1>10, NotNegativeType

\* A cancellation in order gives it back.
LEMMA ReturnsInOrder ==
    ASSUME Sales!SalesAssumption,
           SalesStands, SalesStands', NEW n \in Note, Returns(n), InOrder,
           reserved = Sales!Owed
    PROVE  reserved' = Sales!Owed'
  <1>0. doc[n].qty \in Nat /\ doc[n].source \in Order
    <2>1. n \in Sales!Target /\ doc[n].docstatus # Sales!Blank.docstatus
      BY DEF Sales!Blank, Sales!Target, Returns
    <2>2. doc[n].qty \in Nat /\ doc[n].source \in Order \cup {NoDoc}
      BY <2>1 DEF SalesStands, SalesTypes, SourcesStand, Sales!TargetRow
    <2>3. doc[n].source # NoDoc
      BY <2>1 DEF SalesStands, SourcesStand
    <2> QED
      BY <2>2, <2>3
  <1> PICK o \in Order, q \in Nat : o = doc[n].source /\ q = doc[n].qty
    BY <1>0
  <1>1. /\ doc[n].docstatus = 1 /\ doc'[n].docstatus # 1 /\ UNCHANGED order
        /\ reserved' = reserved + q
        /\ \A m \in Note \ {n} : Kept(m)
    BY DEF Returns
  <1>4. /\ DeliveredBy(o, n) = q /\ DeliveredBy(o, n)' = 0
        /\ \A p \in Order \ {o} : DeliveredBy(p, n) = 0 /\ DeliveredBy(p, n)' = 0
    BY <1>1 DEF DeliveredBy, Shipped
  <1>5. /\ \A p \in Order : Sales!Delivered(p) \in Nat /\ Sales!Delivered(p)' \in Nat /\ Ordered[p] \in Nat
        /\ Sales!Owed \in Nat /\ Sales!Owed' \in Nat /\ \A p \in Order : Sales!Owes(p) \in Nat /\ Sales!Owes(p)' \in Nat
    BY DeliveredTypes, OwedTypes
  <1>6. \A p \in Order : Sales!Delivered(p)' = Sales!Delivered(p) + (DeliveredBy(p, n)' - DeliveredBy(p, n))
    BY <1>1, DeliveredMoves
  <1>8. Sales!Delivered(o)' = Sales!Delivered(o) - q /\ \A p \in Order \ {o} : Sales!Delivered(p)' = Sales!Delivered(p)
    BY <1>4, <1>5, <1>6
  <1>9. \A p \in Order \ {o} : Sales!Owes(p)' = Sales!Owes(p)
    BY <1>1, <1>8 DEF Sales!Owes, Sales!Standing
  <1>10. Sales!Owes(o)' = Sales!Owes(o) + q
    <2>1. CASE q = 0
      BY <1>1, <1>5, <1>8, <2>1 DEF Sales!Owes, Sales!Standing
    <2>2. CASE q # 0
      <3>1. Sales!Delivered(o)' # Sales!Delivered(o)
        BY <1>5, <1>8, <2>2
      <3>2. Sales!Standing(o) /\ Sales!Delivered(o) <= Ordered[o]
        BY <1>5, <3>1 DEF InOrder, Sales!OutOfOrder
      <3>3. Sales!Standing(o)'
        BY <1>1, <3>2 DEF Sales!Standing
      <3>4. Sales!Owes(o) = Ordered[o] - Sales!Delivered(o)
              /\ Sales!Owes(o)' = Ordered[o] - Sales!Delivered(o)'
        BY <1>5, <1>8, <3>2, <3>3, NotNegativeType DEF Sales!Owes
      <3> QED
        BY <1>5, <1>8, <3>4
    <2> QED
      BY <2>1, <2>2
  <1>11. Sales!Owed' = Sales!Owed + (Sales!Owes(o)' - Sales!Owes(o))
    BY <1>9, OwedMoves
  <1> QED
    BY <1>1, <1>5, <1>10, <1>11

\* No step acts on what it found of an order that has changed since.
Fresh == \A s \in Session : work'[s] = work[s] \/ ~Sales!Stale(s)

\* One order changes, and no note.
LEMMA OneOrderOwes ==
    ASSUME Sales!SalesAssumption, SalesStands, SalesStands', Rests, NEW o \in Order,
           \A p \in Order \ {o} : order'[p] = order[p]
    PROVE  /\ Sales!Owed' = Sales!Owed + (Sales!Owes(o)' - Sales!Owes(o))
           /\ Sales!Delivered(o)' = Sales!Delivered(o) /\ Sales!Delivered(o) \in Nat
           /\ Ordered[o] \in Nat
           /\ Sales!Owed \in Nat /\ Sales!Owed' \in Nat
  <1>1. \A p \in Order : Sales!Delivered(p)' = Sales!Delivered(p)
    BY DeliveredSame DEF Rests
  <1>2. \A p \in Order \ {o} : Sales!Owes(p)' = Sales!Owes(p)
    BY <1>1 DEF Sales!Owes, Sales!Standing
  <1> QED
    BY <1>1, <1>2, OwedMoves, OwedTypes, DeliveredTypes

\* Nothing was delivered for an order that is not submitted.
LEMMA NothingDelivered ==
    ASSUME Sales!SalesAssumption, SalesStands, NEW o \in Order, order[o].docstatus = 0
    PROVE  Sales!Delivered(o) = 0
  <1> DEFINE f == [n \in Note |-> DeliveredBy(o, n)]
  <1>1. Sales!Delivered(o) = SumFunctionOnSet(f, Note)
    BY DeliveredNow DEF SalesStands, DeliveredCounted
  <1>2. \A n \in Note : f[n] = 0
    BY DEF DeliveredBy, SalesStands, SourcesStand, Sales!Target
  <1>3. IsFiniteSet(Note)
    BY SalesConstants, FS_Subset DEF Sales!Target
  <1> HIDE DEF f
  <1> QED
    BY <1>1, <1>2, <1>3, SumZero

\* A submitted order reserves what it is owed.
LEMMA SubmitOrderReserves ==
    ASSUME Sales!SalesAssumption,
           SalesStands, SalesStands', Rests, NEW s \in Session, Sales!SubmitOrder(s),
           ~Sales!Stale(s),
           reserved = Sales!Owed
    PROVE  reserved' = Sales!Owed'
  <1>0. work[s].target \in Order
    BY DEF Sales!SubmitOrder, Sales!At
  <1> PICK o \in Order : o = work[s].target
    BY <1>0
  <1>1. /\ work[s].op = "submit" /\ reserved' = reserved + Ordered[o]
        /\ order' = [order EXCEPT ![o].docstatus = 1]
    BY DEF Sales!SubmitOrder, Sales!At
  <1>2. order[o] \in OrderRow /\ order \in [Order -> OrderRow]
    BY DEF SalesStands, SalesTypes
  <1>3. order[o].docstatus = 0
    BY <1>1 DEF Sales!Stale
  <1>4. ~order[o].closed
    BY <1>3 DEF SalesStands, SourcesStand
  <1>5. order'[o].docstatus = 1 /\ order'[o].closed = order[o].closed
    BY <1>1, <1>2 DEF OrderRow
  <1>6. \A p \in Order \ {o} : order'[p] = order[p]
    BY <1>1, <1>2
  <1>7. ~Sales!Standing(o) /\ Sales!Standing(o)'
    BY <1>3, <1>4, <1>5 DEF Sales!Standing
  <1>8. Sales!Delivered(o) = 0
    BY <1>3, NothingDelivered
  <1>9. /\ Sales!Owed' = Sales!Owed + (Sales!Owes(o)' - Sales!Owes(o))
        /\ Sales!Delivered(o)' = 0 /\ Ordered[o] \in Nat
        /\ Sales!Owed \in Nat
    BY <1>6, <1>8, OneOrderOwes
  <1>10. Sales!Owes(o) = 0 /\ Sales!Owes(o)' = Ordered[o]
    BY <1>7, <1>9, NotNegativeType DEF Sales!Owes
  <1> QED
    BY <1>1, <1>9, <1>10

\* A cancelled order gives back what it was owed: all of it.
LEMMA CancelOrderReleases ==
    ASSUME Sales!SalesAssumption,
           SalesStands, SalesStands', Rests, NEW s \in Session, Sales!CancelOrder(s),
           ~Sales!Stale(s),
           reserved = Sales!Owed
    PROVE  reserved' = Sales!Owed'
  <1>0. work[s].target \in Order
    BY DEF Sales!CancelOrder, Sales!At
  <1> PICK o \in Order : o = work[s].target
    BY <1>0
  <1>1. /\ work[s].op = "cancel" /\ reserved' = Sales!NotNegative(reserved - Ordered[o])
        /\ order' = [order EXCEPT ![o].docstatus = 2]
    BY DEF Sales!CancelOrder, Sales!At
  <1>2. order[o] \in OrderRow /\ order \in [Order -> OrderRow]
    BY DEF SalesStands, SalesTypes
  <1>3. order'[o].docstatus = 2 /\ \A p \in Order \ {o} : order'[p] = order[p]
    BY <1>1, <1>2 DEF OrderRow
  <1>4. /\ Sales!Owed' = Sales!Owed + (Sales!Owes(o)' - Sales!Owes(o))
        /\ Sales!Delivered(o)' = Sales!Delivered(o) /\ Sales!Delivered(o) \in Nat
        /\ Ordered[o] \in Nat
        /\ Sales!Owed \in Nat /\ Sales!Owed' \in Nat
    BY <1>3, OneOrderOwes
  <1>5. Sales!Standing(o) /\ Sales!Delivered(o) = 0
    BY <1>1, <1>4 DEF Sales!Stale
  <1>6. ~Sales!Standing(o)'
    BY <1>3 DEF Sales!Standing
  <1>7. Sales!Owes(o) = Ordered[o] /\ Sales!Owes(o)' = 0
    BY <1>4, <1>5, <1>6, NotNegativeType DEF Sales!Owes
  <1> QED
    BY <1>1, <1>4, <1>7, NotNegativeType

\* A closed order gives back what it was still owed.
LEMMA CloseOrderReleases ==
    ASSUME Sales!SalesAssumption,
           SalesStands, SalesStands', Rests, NEW s \in Session, Sales!CloseOrder(s),
           ~Sales!Stale(s),
           reserved = Sales!Owed
    PROVE  reserved' = Sales!Owed'
  <1>0. work[s].target \in Order
    BY DEF Sales!CloseOrder, Sales!At
  <1> PICK o \in Order : o = work[s].target
    BY <1>0
  <1>1. /\ work[s].op = "release"
        /\ reserved' = Sales!NotNegative(reserved - Sales!Undelivered(s))
        /\ order' = [order EXCEPT ![o].closed = TRUE, ![o].closed_qty = work[s].closing]
    BY DEF Sales!CloseOrder, Sales!At
  <1>2. order[o] \in OrderRow /\ order \in [Order -> OrderRow]
    BY DEF SalesStands, SalesTypes
  <1>3. order'[o].closed
    BY <1>1, <1>2 DEF OrderRow
  <1>4. \A p \in Order \ {o} : order'[p] = order[p]
    BY <1>1, <1>2
  <1>5. /\ Sales!Owed' = Sales!Owed + (Sales!Owes(o)' - Sales!Owes(o))
        /\ Sales!Delivered(o)' = Sales!Delivered(o) /\ Sales!Delivered(o) \in Nat
        /\ Ordered[o] \in Nat
        /\ Sales!Owed \in Nat /\ Sales!Owed' \in Nat
    BY <1>4, OneOrderOwes
  <1>6. Sales!Standing(o) /\ work[s].delivered = Sales!Delivered(o)
    BY <1>1 DEF Sales!Stale
  <1>7. ~Sales!Standing(o)'
    BY <1>3 DEF Sales!Standing
  <1>8. Sales!Owes(o) = Sales!Undelivered(s) /\ Sales!Owes(o)' = 0
    BY <1>6, <1>7 DEF Sales!Owes, Sales!Undelivered
  <1>9. Sales!Undelivered(s) \in Nat
    BY <1>5, <1>6, NotNegativeType DEF Sales!Undelivered
  <1> QED
    BY <1>1, <1>5, <1>8, <1>9, NotNegativeType

\* The session that acts on an order goes on.
LEMMA OrderSessionMoves ==
    ASSUME NEW s \in Session, SalesStands, Sales!SubmitOrder(s) \/ Sales!CancelOrder(s) \/ Sales!CloseOrder(s)
    PROVE  work'[s] # work[s]
  <1>1. work[s].op # "idle" /\ Sales!Leave(s)
    BY DEF Sales!SubmitOrder, Sales!CancelOrder, Sales!CloseOrder, Sales!At
  <1>2. work'[s] = Sales!Idle
    BY <1>1 DEF Sales!Leave, SalesStands, SalesTypes
  <1> QED
    BY <1>1, <1>2 DEF Sales!Idle

\* A step that finds its order as it was keeps the reservation.
LEMMA ReservationStep ==
    ASSUME Sales!SalesAssumption,
           SalesStands, SalesStands', NoteStep, Fresh, InOrder, reserved = Sales!Owed
    PROVE  reserved' = Sales!Owed'
  <1>1. CASE Rests /\ UNCHANGED <<order, reserved>>
    <2>1. \A o \in Order : Sales!Owes(o)' = Sales!Owes(o)
      BY <1>1, DeliveredSame DEF Rests, Sales!Owes, Sales!Standing
    <2> QED
      BY <1>1, <2>1, OwedSame
  <1>2. ASSUME Rests, NEW s \in Session, Sales!SubmitOrder(s) \/ Sales!CancelOrder(s) \/ Sales!CloseOrder(s)
        PROVE  reserved' = Sales!Owed'
    <2>1. ~Sales!Stale(s)
      BY <1>2, OrderSessionMoves DEF Fresh
    <2> QED
      BY <1>2, <2>1, SubmitOrderReserves, CancelOrderReleases, CloseOrderReleases
  <1>3. ASSUME NEW n \in Note, Ships(n) \/ Returns(n) PROVE reserved' = Sales!Owed'
    BY <1>3, ShipsInOrder, ReturnsInOrder
  <1> QED
    BY <1>1, <1>2, <1>3 DEF NoteStep

\* The reservation of the bin is what the open orders still have to deliver,
\* until a step decided on an unlocked order acts on one that has changed, or a
\* delivery goes beyond its order or belongs to one that is not open any more.
THEOREM ReservationIsKept ==
    ASSUME Sales!SalesAssumption
    PROVE  Sales!Spec => Sales!ReservationKept
  <1> DEFINE Strays ==
          \/ \E s \in Session : work'[s] # work[s] /\ Sales!Stale(s)
          \/ \E o \in Order : Sales!OutOfOrder(o)
  <1>1. ASSUME SalesInv, SalesInv', [Sales!Next]_(Sales!vars)
        PROVE  [reserved = Sales!Owed /\ reserved' # Sales!Owed' => Strays]_(Sales!vars)
    <2>1. SalesStands /\ SalesStands'
      BY <1>1 DEF SalesInv, SalesStands
    <2>2. NoteStep
      BY <1>1, <2>1, SalesSteps
    <2>3. ASSUME ~Strays PROVE Fresh /\ InOrder
      BY <2>3, Zenon DEF Fresh, InOrder
    <2>4. ASSUME reserved = Sales!Owed, reserved' # Sales!Owed' PROVE Strays
      BY <2>1, <2>2, <2>3, <2>4, ReservationStep
    <2> QED
      BY <2>4
  <1>2. Sales!Spec => []SalesInv
    BY SalesInvariant
  <1> QED
    BY <1>1, <1>2, PTL DEF Sales!Spec, Sales!ReservationKept
=============================================================================
