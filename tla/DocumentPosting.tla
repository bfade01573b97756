--------------------------- MODULE DocumentPosting ---------------------------
(***************************************************************************)
(* The life of one posted document under concurrent requests               *)
(* (contabilidad/posting_service.py: submit_document, cancel_document and  *)
(* _lock_document_for_transition, and the routes that call them).          *)
(*                                                                         *)
(* A request runs in one database transaction: its route loads the document *)
(* and tests docstatus, the service locks the row and tests docstatus       *)
(* again, then reads the ledger and writes.  The second test sees the       *)
(* object of the session's identity map: the locking SELECT has no          *)
(* populate_existing, so the attributes stay as they were loaded.  What     *)
(* the plain SELECTs on the ledger see depends on the isolation level.      *)
(***************************************************************************)
EXTENDS Integers, FiniteSets

CONSTANTS
    Request,     \* HTTP requests, each a session of its own
    NoRequest

ASSUME NoRequestAssumption == NoRequest \notin Request

VARIABLES
    docstatus,    \* committed: 0 draft, 1 submitted, 2 cancelled
    gl,           \* committed gl_entry rows of the document
    transitions,  \* committed document_transition rows (cancellations)
    lock,         \* holder of the document's row lock
    pc,           \* progress of a request
    operation,    \* what it was asked to do
    loaded,       \* docstatus of the document in its identity map
    view,         \* its snapshot, under repeatable read
    originals,    \* the entries its cancellation reverses
    isolation     \* default isolation level of the database in use, which never changes

vars == <<docstatus, gl, transitions, lock, pc, operation, loaded, view, originals, isolation>>
committed == <<docstatus, gl, transitions>>
session == <<operation, loaded, view, originals, isolation>>

Levels == {"read committed", "repeatable read"}

\* The entries a request posted, taken together: one row.
GLRow == [written_by : Request, reversal_of : Request \cup {NoRequest}, is_cancelled : BOOLEAN]

Entry(r) == [written_by |-> r, reversal_of |-> NoRequest, is_cancelled |-> FALSE]

View == [gl : SUBSET GLRow, transitions : SUBSET Request]

Active(rows) == {e \in rows : e.reversal_of = NoRequest /\ ~e.is_cancelled}

\* What the SELECTs of a request return.
Seen(r) ==
    IF isolation = "read committed" THEN [gl |-> gl, transitions |-> transitions] ELSE view[r]

-----------------------------------------------------------------------------
Init ==
    /\ docstatus = 0
    /\ gl = {}
    /\ transitions = {}
    /\ lock = NoRequest
    /\ pc = [r \in Request |-> "idle"]
    /\ operation = [r \in Request |-> "submit"]
    /\ loaded = [r \in Request |-> 0]
    /\ view = [r \in Request |-> [gl |-> {}, transitions |-> {}]]
    /\ originals = [r \in Request |-> {}]
    /\ isolation \in Levels

\* The route: session.get, and the 400 answer when docstatus does not fit.
Load(r, op) ==
    /\ pc[r] = "idle"
    /\ docstatus = (IF op = "submit" THEN 0 ELSE 1)
    /\ pc' = [pc EXCEPT ![r] = "loaded"]
    /\ operation' = [operation EXCEPT ![r] = op]
    /\ loaded' = [loaded EXCEPT ![r] = docstatus]
    /\ view' = [view EXCEPT ![r] = [gl |-> gl, transitions |-> transitions]]
    /\ UNCHANGED <<committed, lock, originals, isolation>>

\* _lock_document_for_transition waits for the row and refreshes nothing.
Lock(r) ==
    /\ pc[r] = "loaded"
    /\ lock = NoRequest
    /\ lock' = r
    /\ pc' = [pc EXCEPT ![r] = "locked"]
    /\ UNCHANGED <<committed, session>>

\* Mutant: the derived entries are not looked at.
MaySubmitAgain(r) == operation[r] = "submit" /\ loaded[r] = 0

\* The guards of submit_document.
MaySubmit(r) ==
    /\ operation[r] = "submit"
    /\ loaded[r] = 0
    /\ Active(Seen(r).gl) = {}

\* The guards of cancel_document: docstatus, _ensure_no_previous_cancellation
\* and _get_original_gl_entries.
MayCancel(r) ==
    /\ operation[r] = "cancel"
    /\ loaded[r] = 1
    /\ Seen(r).transitions = {}
    /\ Active(Seen(r).gl) # {}

\* Inside the savepoint: the new entries or the reversals are flushed.
Post(r) ==
    /\ pc[r] = "locked"
    /\ MaySubmit(r) \/ MayCancel(r)
    /\ pc' = [pc EXCEPT ![r] = "posted"]
    /\ originals' = [originals EXCEPT ![r] =
                       IF operation[r] = "cancel" THEN Active(Seen(r).gl) ELSE {}]
    /\ UNCHANGED <<committed, lock, operation, loaded, view, isolation>>

\* Mutant: the transition has no unique constraint.
UniqueNever(r) == TRUE

\* uq_document_transition_effective: one cancellation per document.
Unique(r) == operation[r] = "cancel" => transitions = {}

\* Mutant: the originals stay active beside their reversals.
ReversedOnly(r) ==
    gl \cup {[Entry(r) EXCEPT !.reversal_of = e.written_by] : e \in originals[r]}

\* _create_gl_reversals: a reversal of each original, which is marked.
Reversed(r) ==
    (gl \ originals[r])
        \cup {[e EXCEPT !.is_cancelled = TRUE] : e \in originals[r]}
        \cup {[Entry(r) EXCEPT !.reversal_of = e.written_by] : e \in originals[r]}

\* The end of the transaction gives the row lock back.
Release(r) == lock' = IF lock = r THEN NoRequest ELSE lock

CommitSubmit(r) ==
    /\ operation[r] = "submit"
    /\ docstatus' = 1
    /\ gl' = gl \cup {Entry(r)}
    /\ UNCHANGED transitions

CommitCancel(r) ==
    /\ operation[r] = "cancel"
    /\ docstatus' = 2
    /\ gl' = Reversed(r)
    /\ transitions' = transitions \cup {r}

Commit(r) ==
    /\ pc[r] = "posted"
    /\ Unique(r)
    /\ CommitSubmit(r) \/ CommitCancel(r)
    /\ pc' = [pc EXCEPT ![r] = "done"]
    /\ Release(r)
    /\ UNCHANGED session

\* Mutant: the handler answers without rolling its transaction back.
RefuseWithoutRollback(r) ==
    /\ pc[r] = "locked" /\ ~MaySubmit(r) /\ ~MayCancel(r)
    /\ pc' = [pc EXCEPT ![r] = "done"]
    /\ UNCHANGED <<committed, lock, session>>

\* A guard raised PostingError, or the unique constraint IntegrityError.
Refuse(r) ==
    /\ \/ pc[r] = "locked" /\ ~MaySubmit(r) /\ ~MayCancel(r)
       \/ pc[r] = "posted" /\ ~Unique(r)
    /\ pc' = [pc EXCEPT ![r] = "done"]
    /\ Release(r)
    /\ UNCHANGED <<committed, session>>

\* Any other error, or the end of the process: the database rolls back.
Crash(r) ==
    /\ pc[r] \in {"loaded", "locked", "posted"}
    /\ pc' = [pc EXCEPT ![r] = "done"]
    /\ Release(r)
    /\ UNCHANGED <<committed, session>>

Proceed(r) == Lock(r) \/ Post(r) \/ Commit(r) \/ Refuse(r)

Next ==
    \E r \in Request :
        \/ \E op \in {"submit", "cancel"} : Load(r, op)
        \/ Proceed(r)
        \/ Crash(r)

\* A thread that has started a request carries on unless its process dies, and
\* the database grants a free lock to the one that waits for it.
Fairness == \A r \in Request : WF_vars(Proceed(r))

Spec == Init /\ [][Next]_vars /\ Fairness

-----------------------------------------------------------------------------
(* Properties                                                              *)

\* Every variable has its type, and the row lock is held by a request that is
\* inside its transaction.
TypeOK ==
    /\ docstatus \in 0 .. 2
    /\ gl \in SUBSET GLRow
    /\ transitions \in SUBSET Request
    /\ lock \in Request \cup {NoRequest}
    /\ pc \in [Request -> {"idle", "loaded", "locked", "posted", "done"}]
    /\ operation \in [Request -> {"submit", "cancel"}]
    /\ loaded \in [Request -> 0 .. 2]
    /\ view \in [Request -> View]
    /\ originals \in [Request -> SUBSET GLRow]
    /\ isolation \in Levels
    /\ lock \in Request => pc[lock] \in {"locked", "posted"}

\* Two submissions of the same document never leave two sets of active entries
\* where each statement sees what is committed: the document row is the
\* idempotency anchor (posting_service.py:514).
PostedOnce == isolation = "read committed" => Cardinality(Active(gl)) <= 1

\* docstatus and the ledger agree whatever the requests do, under the same
\* isolation: a document has active entries exactly while it is submitted, and
\* every entry that is not active has one reversal.
LedgerFollowsStatus == isolation = "read committed" =>
    /\ docstatus = 1 <=> Active(gl) # {}
    /\ \A e \in gl : e.reversal_of = NoRequest =>
          Cardinality({f \in gl : f.reversal_of = e.written_by}) = IF e.is_cancelled THEN 1 ELSE 0

\* No entry is reversed twice under either isolation, even where two cancellations see a snapshot in
\* which neither has happened: the unique constraint of document_transition
\* stops the second when all that it read was stale.
ReversedOnce ==
    \A e \in gl : e.reversal_of = NoRequest =>
        Cardinality({f \in gl : f.reversal_of = e.written_by}) <= 1

\* A request that has loaded the document ends: no request waits for a row
\* lock that nobody gives back.
RequestsEnd == \A r \in Request : pc[r] = "loaded" ~> pc[r] = "done"
=============================================================================
