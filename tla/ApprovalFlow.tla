----------------------------- MODULE ApprovalFlow -----------------------------
(***************************************************************************)
(* The approval of one document (cacao_accounting/approval_engine.py,      *)
(* approval_policy.py), with the routes that ask for it and the drafts     *)
(* that are edited meanwhile, on PostgreSQL under read committed.          *)
(*                                                                         *)
(* Every HTTP request is a session: it loads the header of the document,   *)
(* which then stays in its identity map whatever is committed (the selects *)
(* FOR UPDATE do not refresh it), and acts in a later step on that header  *)
(* and on the lines, which are selected anew.  What a service does under   *)
(* the lock of the document is one step; approve locks the request first   *)
(* and the document only when it posts, which are two.  An error rolls     *)
(* back: it is a disabled action, and the session is given up.             *)
(*                                                                         *)
(* edits[v] is version v of the document, as an edit committed it.  The    *)
(* approval matrix is fixed, so the level of any rule that covers the      *)
(* amount reaches the required level, which is the least of them, and one  *)
(* approval decides a request.                                             *)
(***************************************************************************)
EXTENDS Integers, Sequences, FiniteSets

CONSTANTS
    Session,      \* HTTP sessions
    User,
    Creator,      \* created_by
    Approver,     \* users with permission and a rule that covers the amount
    Rank,         \* approval_rank of the users
    MaxVersions,  \* bound: versions of the document
    MaxRequests   \* bound: approval requests

ASSUME UserAssumption == Creator \in User /\ Approver \subseteq User /\ Rank \in [User -> 1 .. 4]
ASSUME BoundAssumption == MaxVersions \in Nat \ {0} /\ MaxRequests \in Nat

VARIABLES
    four_eyes,   \* the company's approval_require_different_approver
    docstatus,   \* 0 draft, 1 submitted, 2 cancelled
    edits,       \* the versions of the document
    posted,      \* its ledger entries, one record for each submission
    request,     \* the approval_request rows, oldest first
    decision,    \* the approval_action rows
    session      \* what each session is doing and has loaded

vars == <<four_eyes, docstatus, edits, posted, request, decision, session>>
document == <<four_eyes, docstatus, edits, posted>>

\* modified_by is the column: nobody, or one user.  header and lines are
\* contents, numbered by the version that first had them.  The rest is history:
\* who wrote the version, over which one, and the last request there was when
\* that edit was opened.
Edit ==
    [author : User, modified_by : SUBSET User, header : 1 .. MaxVersions,
     lines : 1 .. MaxVersions, base : 0 .. MaxVersions, opened : 0 .. MaxRequests]

\* The snapshot is of the header of version loaded and the lines of version lines.
ApprovalRequest ==
    [kind : {"submit", "cancel"}, status : {"Pending", "Approved", "Rejected"},
     loaded : 1 .. MaxVersions, lines : 1 .. MaxVersions, preparers : SUBSET User]

Decision == [request : 1 .. MaxRequests, user : User, action : {"approve", "reject"}]

\* The versions whose header and lines were posted; checked is the one whose
\* lines were current when the approver compared them with the request.
Posting ==
    [request : 1 .. MaxRequests, user : User, header : 1 .. MaxVersions,
     checked : 1 .. MaxVersions, lines : 1 .. MaxVersions]

\* docstatus and version are those of the loaded header; target is the request
\* a decision has read, and for an edit the last one there was.
Activity ==
    [pc : {"idle", "editing", "submitting", "cancelling", "approving", "posting", "rejecting"},
     user : User, docstatus : 0 .. 2, version : 1 .. MaxVersions,
     target : 0 .. MaxRequests, checked : 0 .. MaxVersions]

-----------------------------------------------------------------------------
Version == Len(edits)

\* _pending_request, of either kind.
Pending == {k \in DOMAIN request : request[k].status = "Pending"}

\* Mutant: a request that is not pending any more does not count.
RequestsPending(kind, statuses) ==
    {k \in DOMAIN request : request[k].kind = kind /\ request[k].status = "Pending"}

\* The requests request_approval and request_cancellation look for.
Requests(kind, statuses) ==
    {k \in DOMAIN request : request[k].kind = kind /\ request[k].status \in statuses}

\* _new_policy and build_policy, frozen in the request: created_by, the loaded
\* modified_by and the requester, or nobody when no independent review is
\* required.
Preparers(s) ==
    IF four_eyes THEN {Creator, session[s].user} \cup edits[session[s].version].modified_by
    ELSE {}

\* Mutant: the company's present setting decides, not the frozen policy.
CanApproveUnderPresentPolicy(u, preparers) ==
    /\ u \in Approver
    /\ four_eyes => u \notin preparers /\ \A p \in preparers : Rank[u] >= Rank[p]

\* can_approve and permits_independent_approval.
CanApprove(u, preparers) ==
    /\ u \in Approver
    /\ u \notin preparers
    /\ \A p \in preparers : Rank[u] >= Rank[p]

\* Mutant: the request is created without a snapshot of the lines.
NewRequestWithoutLines(kind, s) ==
    [kind |-> kind, status |-> "Pending", loaded |-> session[s].version, lines |-> 0,
     preparers |-> Preparers(s)]

\* _approval_snapshot hashes the loaded header and the lines as they are now.
NewRequest(kind, s) ==
    [kind |-> kind, status |-> "Pending", loaded |-> session[s].version, lines |-> Version,
     preparers |-> Preparers(s)]

\* Mutant: only docstatus is compared.
SnapshotMatchesStatus(s, r) == session[s].docstatus = (IF r.kind = "submit" THEN 0 ELSE 1)

\* _assert_approval_snapshot compares the hash of the request with that of the
\* loaded header (docstatus included, modified_by left out) and the lines now.
SnapshotMatches(s, r) ==
    /\ edits[session[s].version].header = edits[r.loaded].header
    /\ edits[Version].lines = edits[r.lines].lines
    /\ session[s].docstatus = (IF r.kind = "submit" THEN 0 ELSE 1)

\* An approver holds the row of the request it has checked.
Unlocked(k) == \A s \in Session : session[s].pc = "posting" => session[s].target # k

Approvals(kind) == {d \in decision : d.action = "approve" /\ request[d.request].kind = kind}

\* What submit_document and cancel_document read from the ledger: no active
\* entries yet; active entries, and no earlier cancellation.
Executable(kind) == IF kind = "submit" THEN docstatus # 1 ELSE docstatus = 1

Idle ==
    [pc |-> "idle", user |-> Creator, docstatus |-> 0, version |-> 1, target |-> 0, checked |-> 0]

Done(s) == session' = [session EXCEPT ![s] = Idle]

-----------------------------------------------------------------------------
Init ==
    /\ four_eyes \in BOOLEAN
    /\ docstatus = 0
    /\ edits = <<[author |-> Creator, modified_by |-> {}, header |-> 1, lines |-> 1,
                  base |-> 0, opened |-> 0]>>
    /\ posted = {}
    /\ request = <<>>
    /\ decision = {}
    /\ session = [s \in Session |-> Idle]

\* An administrator saves the approval settings.
SetFourEyes ==
    /\ four_eyes' = ~four_eyes
    /\ UNCHANGED <<docstatus, edits, posted, request, decision, session>>

Load(s, u, pc, target) ==
    /\ session[s].pc = "idle"
    /\ session' = [session EXCEPT ![s] =
                     [pc |-> pc, user |-> u, docstatus |-> docstatus,
                      version |-> Version, target |-> target, checked |-> 0]]
    /\ UNCHANGED <<document, request, decision>>

\* The edit route: docstatus and ensure_document_editable.
OpenEdit(s, u) ==
    /\ docstatus = 0
    /\ Pending = {}
    /\ Load(s, u, "editing", Len(request))

\* The UPDATE, which waits for the row, and the commit.  _guard_flush reads the
\* stored docstatus, but nobody looks for a pending request again.  The header
\* and the lines become new, stay, or become what they once were; modified_by
\* is only written when it differs from the loaded value.
WriteEdit(s) ==
    LET u == session[s].user
        base == session[s].version
        headers == {edits[v].header : v \in DOMAIN edits} \cup {Version + 1}
        contents == {edits[v].lines : v \in DOMAIN edits} \cup {Version + 1}
    IN /\ session[s].pc = "editing"
       /\ docstatus = 0
       /\ Version < MaxVersions
       /\ \E header \in headers, lines \in contents :
             edits' = Append(edits,
                 [author |-> u,
                  modified_by |-> IF edits[base].modified_by = {u}
                                  THEN edits[Version].modified_by ELSE {u},
                  header |-> header, lines |-> lines,
                  base |-> base, opened |-> session[s].target])
       /\ Done(s)
       /\ UNCHANGED <<four_eyes, docstatus, posted, request, decision>>

OpenSubmit(s, u) == docstatus = 0 /\ Load(s, u, "submitting", 0)

OpenCancel(s, u) == docstatus = 1 /\ Load(s, u, "cancelling", 0)

\* The listing showed a request; the form acts on its document.  Other users
\* are refused in any state.
OpenApprove(s, u) == u \in Approver /\ request # <<>> /\ Load(s, u, "approving", 0)

\* reject reads the pending request, without a lock.
OpenReject(s, u) ==
    \E k \in DOMAIN request :
        /\ Pending = {k}
        /\ CanApprove(u, request[k].preparers)
        /\ Load(s, u, "rejecting", k)

\* handle_submission by a user who cannot approve: request_approval locks the
\* document and creates a request unless there is one.  A pending request of
\* the other kind makes two, and can_approve raises (_pending_request).
RequestApproval(s) ==
    LET u == session[s].user
        new == NewRequest("submit", s)
    IN /\ session[s].pc = "submitting"
       /\ Requests("submit", {"Pending", "Approved"}) = {}
       /\ Pending = {}
       /\ ~CanApprove(u, new.preparers)
       /\ Len(request) < MaxRequests
       /\ request' = Append(request, new)
       /\ Done(s)
       /\ UNCHANGED <<document, decision>>

\* request_cancellation.
RequestCancellation(s) ==
    /\ session[s].pc = "cancelling"
    /\ Requests("cancel", {"Pending", "Approved"}) = {}
    /\ Len(request) < MaxRequests
    /\ request' = Append(request, NewRequest("cancel", s))
    /\ Done(s)
    /\ UNCHANGED <<document, decision>>

\* What approve requires of the request it has read.
Approvable(s, r) == CanApprove(session[s].user, r.preparers) /\ SnapshotMatches(s, r)

\* The end of approve: the request is Approved, and _finalize_approval locks the
\* document and submits it, its lines selected once more, or cancels it.
Finalize(s, k, requests, checked) ==
    LET kind == requests[k].kind
    IN /\ Executable(kind)
       /\ request' = [requests EXCEPT ![k] = [@ EXCEPT !.status = "Approved"]]
       /\ decision' = decision \cup
             {[request |-> k, user |-> session[s].user, action |-> "approve"]}
       /\ docstatus' = IF kind = "submit" THEN 1 ELSE 2
       /\ posted' = IF kind # "submit" THEN posted ELSE posted \cup
             {[request |-> k, user |-> session[s].user, header |-> session[s].version,
               checked |-> checked, lines |-> Version]}
       /\ Done(s)
       /\ UNCHANGED <<four_eyes, edits>>

\* approve from the listing: the pending request, read again under its row
\* lock, is compared with the document, which is not locked.
CheckRequest(s) ==
    \E k \in DOMAIN request :
        /\ session[s].pc = "approving"
        /\ Pending = {k}
        /\ Unlocked(k)
        /\ Approvable(s, request[k])
        /\ session' = [session EXCEPT ![s] =
                         [@ EXCEPT !.pc = "posting", !.target = k, !.checked = Version]]
        /\ UNCHANGED <<document, request, decision>>

ApproveChecked(s) ==
    /\ session[s].pc = "posting"
    /\ Finalize(s, session[s].target, request, session[s].checked)

\* A sender who can approve the request there is: request_approval has locked
\* the document before it is compared.
ApproveOnSubmission(s) ==
    /\ session[s].pc = "submitting"
    /\ \E k \in DOMAIN request :
           /\ Pending = {k}
           /\ Unlocked(k)
           /\ Approvable(s, request[k])
           /\ Finalize(s, k, request, Version)

\* Mutant: a request that was approved already is not looked for.
RequestAndApproveAgain(s) ==
    LET new == NewRequest("submit", s)
    IN /\ session[s].pc \in {"submitting", "approving"}
       /\ Pending = {}
       /\ Len(request) < MaxRequests
       /\ Approvable(s, new)
       /\ Finalize(s, Len(request) + 1, Append(request, new), Version)

\* A sender who can approve, and an approver who finds no request in force:
\* the request is created and approved under the lock of the document.
RequestAndApprove(s) ==
    LET new == NewRequest("submit", s)
    IN /\ session[s].pc \in {"submitting", "approving"}
       /\ Pending = {}
       /\ Requests("submit", {"Approved"}) = {}
       /\ session[s].pc = "approving" => Requests("cancel", {"Approved"}) = {}
       /\ Len(request) < MaxRequests
       /\ Approvable(s, new)
       /\ Finalize(s, Len(request) + 1, Append(request, new), Version)

\* The end of reject, once nobody holds the row: whatever the status has become.
Reject(s) ==
    LET k == session[s].target
    IN /\ session[s].pc = "rejecting"
       /\ Unlocked(k)
       /\ request' = [request EXCEPT ![k] = [@ EXCEPT !.status = "Rejected"]]
       /\ decision' = decision \cup
             {[request |-> k, user |-> session[s].user, action |-> "reject"]}
       /\ Done(s)
       /\ UNCHANGED document

\* A refusal, a click without effect, an error, the end of the process.
GiveUp(s) ==
    /\ session[s].pc # "idle"
    /\ Done(s)
    /\ UNCHANGED <<document, request, decision>>

Next ==
    \/ SetFourEyes
    \/ \E s \in Session :
           \/ \E u \in User : OpenEdit(s, u) \/ OpenSubmit(s, u) \/ OpenCancel(s, u)
                              \/ OpenApprove(s, u) \/ OpenReject(s, u)
           \/ WriteEdit(s)
           \/ RequestApproval(s) \/ RequestCancellation(s)
           \/ CheckRequest(s) \/ ApproveChecked(s) \/ ApproveOnSubmission(s)
           \/ RequestAndApprove(s) \/ Reject(s)
           \/ GiveUp(s)

Spec == Init /\ [][Next]_vars

-----------------------------------------------------------------------------
(* Properties                                                              *)

\* Every variable has its type; a decision is about a request that exists.
TypeOK ==
    /\ four_eyes \in BOOLEAN
    /\ docstatus \in 0 .. 2
    /\ edits \in Seq(Edit) /\ Version \in 1 .. MaxVersions
    /\ posted \in SUBSET Posting
    /\ request \in Seq(ApprovalRequest) /\ Len(request) <= MaxRequests
    /\ decision \in SUBSET Decision
    /\ \A d \in decision : d.request \in DOMAIN request
    /\ session \in [Session -> Activity]

\* What is posted is what its request froze: a later edit is never posted on
\* its authority, except the lines of one that was opened before the request
\* was there and committed between the approver's check of the document and
\* its posting (ensure_document_editable, _assert_approval_snapshot,
\* tests/test_approval_engine.py:1147).
PostedAsRequested ==
    \A p \in posted :
        LET r == request[p.request]
        IN /\ edits[p.header].header = edits[r.loaded].header
           /\ \/ edits[p.lines].lines = edits[r.lines].lines
              \/ p.lines > p.checked /\ edits[p.lines].opened < p.request

\* The edit whose lines were posted overlapped another edit, which it wrote
\* over, or the request: it was open when the request was created, and was not
\* in the header that the requester had loaded.
Raced(p) ==
    \/ edits[p.lines].base # p.lines - 1
    \/ p.lines > request[p.request].loaded /\ edits[p.lines].opened < p.request

\* Once four eyes were required of a request, nobody approves a document they
\* created, or lines they wrote, and no approver ranks below those two, neither
\* by a change of the setting while the request is pending nor by edits and
\* decisions that interleave, except where the last edit raced
\* (_independent_policy).
AuthorNeverApproves ==
    \A p \in posted :
        request[p.request].preparers # {} =>
            \A author \in {Creator} \cup (IF Raced(p) THEN {} ELSE {edits[p.lines].author}) :
                p.user # author /\ Rank[p.user] >= Rank[author]

\* A rejection has overtaken an approval of the same request.
Overtaken == \E d, e \in decision : d.request = e.request /\ d.action # e.action

\* A document is submitted once and cancelled once, whatever the number of
\* requests, stale pages and approvers, unless a rejection overtook an approval.
ExecutedOnce ==
    ~Overtaken => \A kind \in {"submit", "cancel"} : Cardinality(Approvals(kind)) <= 1

\* There is never a second pending request, with which _pending_request would
\* raise and every decision and edit be refused, unless a rejection overtook an
\* approval (approval_engine.py:243-254).
OnePending == ~Overtaken => Cardinality(Pending) <= 1
=============================================================================
