----------------------- MODULE DocumentPostingProofs -----------------------
(***************************************************************************)
(* Proofs about DocumentPosting for any number of requests: the type       *)
(* invariant and the uniqueness of reversals under either isolation, the   *)
(* uniqueness of the active posting and the agreement of docstatus with    *)
(* the entries and their reversals under read committed.  The journals of  *)
(* a recurring template, which post and cancel through the same functions, *)
(* are treated at the end of the module, RecurringJournals instantiated.   *)
(***************************************************************************)
EXTENDS DocumentPosting, SumTheorems, FiniteSetTheorems, TLAPS

\* A request that is past the lock holds it.
LockHeld == \A r \in Request : pc[r] \in {"locked", "posted"} => lock = r

\* What a request found before it wrote still holds: nobody else could commit.
FoundStillTrue ==
    \A r \in Request : pc[r] = "posted" =>
        IF operation[r] = "submit" THEN Active(gl) = {} ELSE originals[r] = Active(gl)

\* The ledger has one active entry of the document at most.
AtMostOneActive == \A e, f \in Active(gl) : e = f

\* The document is submitted exactly while it has an active entry.
StatusMatches == docstatus = 1 <=> Active(gl) # {}

\* A database whose statements see what is committed.
ReadCommitted == isolation = "read committed"

\* The inductive invariant under read committed.
PostingInv ==
    ReadCommitted /\ TypeOK /\ LockHeld /\ FoundStillTrue /\ AtMostOneActive /\ StatusMatches

-----------------------------------------------------------------------------
\* A submission adds one active entry.
LEMMA ActiveAfterSubmit ==
    ASSUME NEW r \in Request
    PROVE  Active(gl \cup {Entry(r)}) = Active(gl) \cup {Entry(r)}
BY DEF Active, Entry

\* A cancellation that found all the active entries leaves none.
LEMMA ActiveAfterCancel ==
    ASSUME NEW r \in Request, gl \in SUBSET GLRow, originals[r] = Active(gl)
    PROVE  /\ Reversed(r) \in SUBSET GLRow
           /\ Active(Reversed(r)) = {}
<1> DEFINE marked == {[e EXCEPT !.is_cancelled = TRUE] : e \in originals[r]}
           reversals == {[Entry(r) EXCEPT !.reversal_of = e.written_by] : e \in originals[r]}
<1>1. originals[r] \subseteq GLRow
    BY DEF Active
<1>2. ASSUME NEW m \in marked PROVE m \in GLRow /\ m.is_cancelled
  <2>1. PICK e \in GLRow : m = [e EXCEPT !.is_cancelled = TRUE]
      BY <1>1
  <2> QED
      BY <2>1 DEF GLRow
<1>3. ASSUME NEW m \in reversals PROVE m \in GLRow /\ m.reversal_of # NoRequest
  <2>1. PICK e \in GLRow : m = [Entry(r) EXCEPT !.reversal_of = e.written_by]
      BY <1>1
  <2> QED
      BY <2>1, NoRequestAssumption DEF GLRow, Entry
<1>4. Reversed(r) = (gl \ originals[r]) \cup marked \cup reversals
    BY DEF Reversed
<1> HIDE DEF marked, reversals
<1>5. Reversed(r) \in SUBSET GLRow
    BY <1>2, <1>3, <1>4
<1>6. Active(Reversed(r)) = {}
    BY <1>2, <1>3, <1>4 DEF Active
<1> QED
    BY <1>5, <1>6

\* The system starts with a draft and no entry.
LEMMA InitPosting == Init /\ ReadCommitted => PostingInv
<1> SUFFICES ASSUME Init, ReadCommitted PROVE PostingInv
    OBVIOUS
<1>1. TypeOK
    BY NoRequestAssumption DEF Init, TypeOK, View, GLRow
<1>2. LockHeld /\ FoundStillTrue
    BY DEF Init, LockHeld, FoundStillTrue
<1>3. AtMostOneActive /\ StatusMatches
    BY DEF Init, AtMostOneActive, StatusMatches, Active
<1> QED
    BY <1>1, <1>2, <1>3 DEF PostingInv

\* The steps that commit nothing keep the committed part of the invariant.
LEMMA CommittedKept ==
    ASSUME PostingInv, UNCHANGED committed
   
    PROVE  /\ docstatus' \in 0 .. 2 /\ gl' \in SUBSET GLRow /\ transitions' \in SUBSET Request
           /\ AtMostOneActive' /\ StatusMatches'
BY DEF PostingInv, TypeOK, committed, AtMostOneActive, StatusMatches, Active

\* A request takes note of the document.
LEMMA LoadKeeps ==
    ASSUME PostingInv, NEW r \in Request, NEW op \in {"submit", "cancel"}, Load(r, op)
    PROVE  PostingInv'
<1>1. UNCHANGED committed /\ UNCHANGED <<lock, originals, isolation>>
    BY DEF Load
<1>2. TypeOK'
  <2>1. /\ pc' \in [Request -> {"idle", "loaded", "locked", "posted", "done"}]
        /\ operation' \in [Request -> {"submit", "cancel"}]
        /\ loaded' \in [Request -> 0 .. 2]
      BY DEF Load, PostingInv, TypeOK
  <2>2. view' \in [Request -> View]
    <3>1. [gl |-> gl, transitions |-> transitions] \in View
        BY DEF View, PostingInv, TypeOK
    <3>2. view' = [view EXCEPT ![r] = [gl |-> gl, transitions |-> transitions]]
        BY DEF Load
    <3> QED
        BY <3>1, <3>2 DEF PostingInv, TypeOK
  <2>3. /\ lock' \in Request \cup {NoRequest} /\ originals' \in [Request -> SUBSET GLRow]
        /\ isolation' \in Levels
      BY <1>1 DEF PostingInv, TypeOK
  <2>4. lock' \in Request => pc'[lock'] \in {"locked", "posted"}
      BY <1>1 DEF Load, PostingInv, TypeOK
  <2> QED
      BY <1>1, <2>1, <2>2, <2>3, <2>4, CommittedKept DEF TypeOK
<1>3. LockHeld' /\ ReadCommitted'
    BY <1>1 DEF Load, PostingInv, TypeOK, LockHeld, ReadCommitted
<1>4. FoundStillTrue'
    BY <1>1 DEF Load, PostingInv, TypeOK, FoundStillTrue, committed, Active
<1> QED
    BY <1>1, <1>2, <1>3, <1>4, CommittedKept DEF PostingInv

\* Only one request is past the lock.
LEMMA LockKeeps ==
    ASSUME PostingInv, NEW r \in Request, Lock(r)
    PROVE  PostingInv'
<1>1. UNCHANGED committed /\ UNCHANGED session
    BY DEF Lock
<1>2. TypeOK'
    BY <1>1, CommittedKept DEF Lock, PostingInv, TypeOK, session
<1>3. LockHeld' /\ ReadCommitted'
    BY <1>1, NoRequestAssumption DEF Lock, PostingInv, TypeOK, LockHeld, ReadCommitted,
       session
<1>4. FoundStillTrue'
    BY <1>1 DEF Lock, PostingInv, TypeOK, FoundStillTrue, committed, session, Active
<1> QED
    BY <1>1, <1>2, <1>3, <1>4, CommittedKept DEF PostingInv

\* Under read committed a request finds what is committed when it writes.
LEMMA PostKeeps ==
    ASSUME PostingInv, NEW r \in Request, Post(r)
    PROVE  PostingInv'
<1>1. UNCHANGED committed /\ UNCHANGED <<lock, operation, loaded, view, isolation>>
    BY DEF Post
<1>2. Seen(r).gl = gl
    BY DEF Seen, PostingInv, ReadCommitted
<1>3. originals' = [originals EXCEPT ![r] = IF operation[r] = "cancel" THEN Active(gl) ELSE {}]
    BY <1>2 DEF Post
<1>4. Active(gl) \subseteq GLRow
    BY DEF Active, PostingInv, TypeOK
<1>5. TypeOK'
  <2>1. originals' \in [Request -> SUBSET GLRow]
      BY <1>3, <1>4 DEF PostingInv, TypeOK
  <2>2. /\ pc' \in [Request -> {"idle", "loaded", "locked", "posted", "done"}]
        /\ lock' \in Request => pc'[lock'] \in {"locked", "posted"}
      BY <1>1 DEF Post, PostingInv, TypeOK
  <2> QED
      BY <1>1, <2>1, <2>2, CommittedKept DEF PostingInv, TypeOK
<1>6. LockHeld' /\ ReadCommitted'
    BY <1>1 DEF Post, PostingInv, TypeOK, LockHeld, ReadCommitted
<1>7. FoundStillTrue'
  <2> SUFFICES ASSUME NEW q \in Request, pc'[q] = "posted"
               PROVE IF operation[q] = "submit" THEN Active(gl) = {}
                     ELSE originals'[q] = Active(gl)
      BY <1>1 DEF FoundStillTrue, committed, Active
  <2>1. CASE q = r
    <3>1. operation[r] = "submit" => Active(gl) = {}
        BY <1>2 DEF Post, MaySubmit, MayCancel
    <3>2. operation[r] # "submit" => originals'[r] = Active(gl)
        BY <1>3 DEF PostingInv, TypeOK
    <3> QED
        BY <2>1, <3>1, <3>2
  <2>2. CASE q # r
    <3>1. pc[q] = "posted" /\ originals'[q] = originals[q]
        BY <2>2, <1>3 DEF Post, PostingInv, TypeOK
    <3> QED
        BY <3>1 DEF PostingInv, FoundStillTrue
  <2> QED
      BY <2>1, <2>2
<1> QED
    BY <1>1, <1>5, <1>6, <1>7, CommittedKept DEF PostingInv

\* A transaction that ends gives its lock back, and nobody else is past it.
LEMMA EndKeepsControl ==
    ASSUME PostingInv, NEW r \in Request, Release(r), UNCHANGED session,
           pc' = [pc EXCEPT ![r] = "done"],
           pc[r] \in {"loaded", "locked", "posted"}
    PROVE  /\ lock' \in Request \cup {NoRequest}
           /\ pc' \in [Request -> {"idle", "loaded", "locked", "posted", "done"}]
           /\ operation' \in [Request -> {"submit", "cancel"}]
           /\ loaded' \in [Request -> 0 .. 2]
           /\ view' \in [Request -> View]
           /\ originals' \in [Request -> SUBSET GLRow]
           /\ lock' \in Request => pc'[lock'] \in {"locked", "posted"}
           /\ LockHeld' /\ isolation' \in Levels /\ ReadCommitted'
<1>1. lock' \in Request \cup {NoRequest} /\ (lock' = NoRequest \/ (lock' = lock /\ lock # r))
    BY DEF Release, PostingInv, TypeOK
<1>2. /\ pc' \in [Request -> {"idle", "loaded", "locked", "posted", "done"}]
      /\ operation' \in [Request -> {"submit", "cancel"}]
      /\ loaded' \in [Request -> 0 .. 2]
      /\ view' \in [Request -> View]
      /\ originals' \in [Request -> SUBSET GLRow]
    BY DEF PostingInv, TypeOK, session
<1>3. lock' \in Request => pc'[lock'] \in {"locked", "posted"}
    BY <1>1, NoRequestAssumption DEF PostingInv, TypeOK
<1>4. LockHeld'
    BY <1>1 DEF PostingInv, TypeOK, LockHeld, Release
<1>5. isolation' \in Levels /\ ReadCommitted'
    BY DEF PostingInv, TypeOK, ReadCommitted, session
<1> QED
    BY <1>1, <1>2, <1>3, <1>4, <1>5

\* A transaction that is rolled back.
LEMMA RollbackKeeps ==
    ASSUME PostingInv, NEW r \in Request, Refuse(r) \/ Crash(r)
    PROVE  PostingInv'
<1>1. /\ UNCHANGED committed /\ UNCHANGED session /\ Release(r)
      /\ pc' = [pc EXCEPT ![r] = "done"] /\ pc[r] \in {"loaded", "locked", "posted"}
    BY DEF Refuse, Crash
<1>2. FoundStillTrue'
    BY <1>1 DEF PostingInv, TypeOK, FoundStillTrue, committed, session, Active
<1>3. TypeOK' /\ LockHeld' /\ ReadCommitted'
    BY <1>1, CommittedKept, EndKeepsControl DEF TypeOK
<1> QED
    BY <1>1, <1>2, <1>3, CommittedKept DEF PostingInv

\* The one that commits was alone past the lock.
LEMMA CommitKeeps ==
    ASSUME PostingInv, NEW r \in Request, Commit(r)
    PROVE  PostingInv'
<1>1. /\ UNCHANGED session /\ Release(r) /\ pc[r] = "posted"
      /\ pc' = [pc EXCEPT ![r] = "done"]
    BY DEF Commit
<1>2. \A q \in Request : pc'[q] # "posted"
    BY <1>1, NoRequestAssumption DEF PostingInv, TypeOK, LockHeld
<1>3. gl \in SUBSET GLRow /\ transitions \in SUBSET Request
    BY DEF PostingInv, TypeOK
<1>4. /\ lock' \in Request \cup {NoRequest}
      /\ pc' \in [Request -> {"idle", "loaded", "locked", "posted", "done"}]
      /\ operation' \in [Request -> {"submit", "cancel"}]
      /\ loaded' \in [Request -> 0 .. 2]
      /\ view' \in [Request -> View]
      /\ originals' \in [Request -> SUBSET GLRow]
      /\ lock' \in Request => pc'[lock'] \in {"locked", "posted"}
      /\ LockHeld' /\ isolation' \in Levels /\ ReadCommitted'
    BY <1>1, EndKeepsControl
<1>5. CASE CommitSubmit(r)
  <2>1. Active(gl) = {} /\ gl' = gl \cup {Entry(r)} /\ docstatus' = 1 /\ UNCHANGED transitions
      BY <1>1, <1>5 DEF CommitSubmit, PostingInv, FoundStillTrue
  <2>2. Active(gl)' = {Entry(r)}
      BY <2>1, ActiveAfterSubmit DEF Active
  <2>3. gl' \in SUBSET GLRow
    <3>1. Entry(r) \in GLRow
        BY DEF GLRow, Entry
    <3> QED
        BY <1>3, <2>1, <3>1
  <2>4. AtMostOneActive' /\ StatusMatches'
      BY <2>1, <2>2 DEF AtMostOneActive, StatusMatches
  <2>5. TypeOK' /\ LockHeld' /\ ReadCommitted'
      BY <1>3, <1>4, <2>1, <2>3 DEF TypeOK
  <2> QED
      BY <1>2, <2>4, <2>5 DEF PostingInv, FoundStillTrue
<1>6. CASE CommitCancel(r)
  <2>1. /\ originals[r] = Active(gl) /\ gl' = Reversed(r) /\ docstatus' = 2
        /\ transitions' = transitions \cup {r}
      BY <1>1, <1>6 DEF CommitCancel, PostingInv, FoundStillTrue
  <2>2. gl' \in SUBSET GLRow /\ Active(gl') = {}
      BY <1>3, <2>1, ActiveAfterCancel
  <2>3. AtMostOneActive' /\ StatusMatches'
      BY <2>1, <2>2 DEF AtMostOneActive, StatusMatches, Active
  <2>4. TypeOK' /\ LockHeld' /\ ReadCommitted'
      BY <1>3, <1>4, <2>1, <2>2 DEF TypeOK
  <2> QED
      BY <1>2, <2>3, <2>4 DEF PostingInv, FoundStillTrue
<1> QED
    BY <1>5, <1>6 DEF Commit

\* Every step keeps the invariant, under read committed.
LEMMA NextPosting == PostingInv /\ [Next]_vars => PostingInv'
<1> SUFFICES ASSUME PostingInv, [Next]_vars PROVE PostingInv'
    OBVIOUS
<1>1. ASSUME NEW r \in Request, NEW op \in {"submit", "cancel"}, Load(r, op)
      PROVE PostingInv'
    BY <1>1, LoadKeeps
<1>2. ASSUME NEW r \in Request, Proceed(r) PROVE PostingInv'
    BY <1>2, LockKeeps, PostKeeps, CommitKeeps, RollbackKeeps DEF Proceed
<1>3. ASSUME NEW r \in Request, Crash(r) PROVE PostingInv'
    BY <1>3, RollbackKeeps
<1>4. CASE UNCHANGED vars
  <2>1. UNCHANGED committed /\ UNCHANGED session /\ UNCHANGED <<lock, pc>>
      BY <1>4 DEF vars, committed, session
  <2>2. TypeOK'
      BY <2>1, CommittedKept DEF PostingInv, TypeOK, session
  <2>3. LockHeld' /\ FoundStillTrue' /\ ReadCommitted'
      BY <2>1 DEF PostingInv, ReadCommitted, LockHeld, FoundStillTrue, committed,
         session, Active
  <2> QED
      BY <2>1, <2>2, <2>3, CommittedKept DEF PostingInv
<1> QED
    BY <1>1, <1>2, <1>3, <1>4 DEF Next

\* The invariant holds in every reachable state.
THEOREM PostingInvariant == Spec /\ ReadCommitted => []PostingInv
BY InitPosting, NextPosting, PTL DEF Spec

\* The isolation level of the database does not change.
LEMMA IsolationKept == [Next]_vars => (ReadCommitted <=> ReadCommitted')
<1> SUFFICES ASSUME [Next]_vars PROVE isolation' = isolation
    BY DEF ReadCommitted
<1> QED
    BY DEF Next, Proceed, Load, Lock, Post, Commit, Refuse, Crash, session, vars

\* A set of no or of one element.
LEMMA SmallCardinality ==
    ASSUME NEW S, Cardinality(S) = 0 \/ Cardinality(S) = 1
    PROVE  Cardinality(S) <= 1
OBVIOUS

\* However many requests submit and cancel the document, and wherever they
\* crash, its ledger has one set of active entries at most.
THEOREM NeverPostedTwice == Spec => []PostedOnce
<1>1. PostingInv => PostedOnce
  <2> SUFFICES ASSUME PostingInv PROVE Cardinality(Active(gl)) <= 1
      BY DEF PostedOnce
  <2>1. CASE Active(gl) = {}
    <3>1. Cardinality({}) = 0
        BY FS_EmptySet
    <3>2. Cardinality(Active(gl)) = 0
        BY <2>1, <3>1, Zenon
    <3> QED
        BY <3>2, SmallCardinality, Zenon
  <2>2. CASE Active(gl) # {}
    <3>1. PICK e : e \in Active(gl)
        BY <2>2
    <3>2. Active(gl) = {e}
        BY <3>1 DEF PostingInv, AtMostOneActive
    <3>3. Cardinality({e}) = 1
        BY FS_Singleton
    <3>4. Cardinality(Active(gl)) = 1
        BY <3>2, <3>3, Zenon
    <3> QED
        BY <3>4, SmallCardinality, Zenon
  <2> QED
      BY <2>1, <2>2
<1>2. ~ReadCommitted => PostedOnce
    BY DEF ReadCommitted, PostedOnce
<1>3. Spec /\ ~ReadCommitted => []PostedOnce
    BY <1>2, IsolationKept, PTL DEF Spec
<1> QED
    BY PostingInvariant, <1>1, <1>3, PTL

-----------------------------------------------------------------------------
(* Reversals, under either isolation.                                      *)

\* A request collects entries that are nobody's reversal.
OriginalsOnly ==
    /\ \A r \in Request : \A e \in originals[r] : e.reversal_of = NoRequest
    /\ \A f \in gl : f.reversal_of # NoRequest => f.written_by \in transitions /\ ~f.is_cancelled

\* The unique constraint of document_transition.
OneTransition == \A a, b \in transitions : a = b

\* The inductive invariant of the reversals.
ReversalInv == TypeOK /\ OriginalsOnly /\ OneTransition

\* What the SELECTs return are rows of the table.
LEMMA SeenTypes ==
    ASSUME TypeOK, NEW r \in Request
    PROVE  Seen(r).gl \in SUBSET GLRow
BY DEF Seen, TypeOK, View

\* The rows that a cancellation leaves.
LEMMA ReversedRows ==
    ASSUME NEW r \in Request, gl \in SUBSET GLRow, originals[r] \in SUBSET GLRow,
           \A e \in originals[r] : e.reversal_of = NoRequest
    PROVE  /\ Reversed(r) \in SUBSET GLRow
           /\ \A m \in Reversed(r) :
                \/ m \in gl /\ m \notin originals[r]
                \/ \E e \in originals[r] :
                      /\ m.written_by = e.written_by /\ m.reversal_of = NoRequest
                      /\ m.is_cancelled = TRUE
                \/ \E e \in originals[r] :
                      /\ m.written_by = r /\ m.reversal_of = e.written_by
                      /\ m.is_cancelled = FALSE
           /\ \A e \in originals[r] :
                \E m \in Reversed(r) : m.reversal_of = e.written_by
           /\ gl \ originals[r] \subseteq Reversed(r)
<1> DEFINE marked == {[e EXCEPT !.is_cancelled = TRUE] : e \in originals[r]}
           reversals == {[Entry(r) EXCEPT !.reversal_of = e.written_by] : e \in originals[r]}
<1>1. ASSUME NEW e \in originals[r]
      PROVE LET m == [e EXCEPT !.is_cancelled = TRUE]
            IN /\ m \in GLRow /\ m.written_by = e.written_by /\ m.reversal_of = NoRequest
               /\ m.is_cancelled = TRUE
    BY <1>1 DEF GLRow
<1>2. ASSUME NEW e \in originals[r]
      PROVE LET m == [Entry(r) EXCEPT !.reversal_of = e.written_by]
            IN /\ m \in GLRow /\ m.written_by = r /\ m.reversal_of = e.written_by
               /\ m.is_cancelled = FALSE
    BY <1>2 DEF GLRow, Entry
<1>3. \A m \in marked : /\ m \in GLRow
                        /\ \E e \in originals[r] :
                              /\ m.written_by = e.written_by /\ m.reversal_of = NoRequest
                              /\ m.is_cancelled = TRUE
    BY <1>1
<1>4. /\ \A m \in reversals : /\ m \in GLRow
                              /\ \E e \in originals[r] :
                                    /\ m.written_by = r /\ m.reversal_of = e.written_by
                                    /\ m.is_cancelled = FALSE
      /\ \A e \in originals[r] : \E m \in reversals : m.reversal_of = e.written_by
  <2>1. ASSUME NEW e \in originals[r]
        PROVE \E m \in reversals : m.reversal_of = e.written_by
    <3> DEFINE m == [Entry(r) EXCEPT !.reversal_of = e.written_by]
    <3>1. m \in reversals
        OBVIOUS
    <3>2. m.reversal_of = e.written_by
        BY <1>2
    <3> QED
        BY <3>1, <3>2
  <2>2. ASSUME NEW m \in reversals
        PROVE /\ m \in GLRow
              /\ \E e \in originals[r] :
                    /\ m.written_by = r /\ m.reversal_of = e.written_by
                    /\ m.is_cancelled = FALSE
    <3>1. PICK e \in originals[r] : m = [Entry(r) EXCEPT !.reversal_of = e.written_by]
        OBVIOUS
    <3> QED
        BY <1>2, <3>1
  <2> QED
      BY <2>1, <2>2
<1>5. Reversed(r) = (gl \ originals[r]) \cup marked \cup reversals
    BY DEF Reversed
<1> HIDE DEF marked, reversals
<1>6. Reversed(r) \in SUBSET GLRow
    BY <1>3, <1>4, <1>5
<1>7. ASSUME NEW m \in Reversed(r)
      PROVE \/ m \in gl /\ m \notin originals[r]
            \/ \E e \in originals[r] :
                  /\ m.written_by = e.written_by /\ m.reversal_of = NoRequest
                  /\ m.is_cancelled = TRUE
            \/ \E e \in originals[r] :
                  /\ m.written_by = r /\ m.reversal_of = e.written_by
                  /\ m.is_cancelled = FALSE
    BY <1>3, <1>4, <1>5
<1> QED
    BY <1>4, <1>5, <1>6, <1>7

\* Only a cancellation writes reversals, and none comes before the first.
LEMMA InitReversals == Init => ReversalInv
<1> SUFFICES ASSUME Init PROVE ReversalInv
    OBVIOUS
<1>1. TypeOK
    BY NoRequestAssumption DEF Init, TypeOK, View, GLRow
<1>2. OriginalsOnly /\ OneTransition
    BY DEF Init, OriginalsOnly, OneTransition
<1> QED
    BY <1>1, <1>2 DEF ReversalInv

\* The session of one request changes; nothing is committed.
LEMMA LoadKeepsReversals ==
    ASSUME ReversalInv, NEW r \in Request, NEW op \in {"submit", "cancel"}, Load(r, op)
    PROVE  ReversalInv'
<1>1. UNCHANGED committed /\ UNCHANGED <<lock, originals, isolation>>
    BY DEF Load
<1>2. /\ pc' \in [Request -> {"idle", "loaded", "locked", "posted", "done"}]
      /\ operation' \in [Request -> {"submit", "cancel"}]
      /\ loaded' \in [Request -> 0 .. 2]
      /\ lock' \in Request => pc'[lock'] \in {"locked", "posted"}
    BY <1>1 DEF Load, ReversalInv, TypeOK
<1>3. view' \in [Request -> View]
  <2>1. [gl |-> gl, transitions |-> transitions] \in View
      BY DEF View, ReversalInv, TypeOK
  <2>2. view' = [view EXCEPT ![r] = [gl |-> gl, transitions |-> transitions]]
      BY DEF Load
  <2> QED
      BY <2>1, <2>2 DEF ReversalInv, TypeOK
<1>4. TypeOK'
    BY <1>1, <1>2, <1>3 DEF ReversalInv, TypeOK, committed
<1>5. OriginalsOnly' /\ OneTransition'
    BY <1>1 DEF ReversalInv, OriginalsOnly, OneTransition, committed
<1> QED
    BY <1>4, <1>5 DEF ReversalInv

\* A request notes the entries it reverses: no reversal is among them.
LEMMA PostKeepsReversals ==
    ASSUME ReversalInv, NEW r \in Request, Post(r)
    PROVE  ReversalInv'
<1>1. UNCHANGED committed /\ UNCHANGED <<lock, operation, loaded, view, isolation>>
    BY DEF Post
<1>2. PICK found \in SUBSET GLRow :
          /\ originals' = [originals EXCEPT ![r] = found]
          /\ \A e \in found : e.reversal_of = NoRequest
  <2>1. Active(Seen(r).gl) \in SUBSET GLRow /\ \A e \in Active(Seen(r).gl) : e.reversal_of = NoRequest
      BY SeenTypes DEF Active, ReversalInv
  <2>2. {} \in SUBSET GLRow
      OBVIOUS
  <2> QED
      BY <2>1, <2>2 DEF Post
<1>3. TypeOK'
  <2>1. originals' \in [Request -> SUBSET GLRow]
      BY <1>2 DEF ReversalInv, TypeOK
  <2>2. /\ pc' \in [Request -> {"idle", "loaded", "locked", "posted", "done"}]
        /\ lock' \in Request => pc'[lock'] \in {"locked", "posted"}
      BY <1>1 DEF Post, ReversalInv, TypeOK
  <2> QED
      BY <1>1, <2>1, <2>2 DEF ReversalInv, TypeOK, committed
<1>4. OriginalsOnly' /\ OneTransition'
  <2>1. \A q \in Request : \A e \in originals'[q] : e.reversal_of = NoRequest
      BY <1>2 DEF ReversalInv, TypeOK, OriginalsOnly
  <2> QED
      BY <1>1, <2>1 DEF ReversalInv, OriginalsOnly, OneTransition, committed
<1> QED
    BY <1>3, <1>4 DEF ReversalInv

\* A transaction ends, committed or not: what is left of the control state.
LEMMA EndKeepsTypes ==
    ASSUME TypeOK, NEW r \in Request, Release(r), UNCHANGED session,
           pc' = [pc EXCEPT ![r] = "done"],
           docstatus' \in 0 .. 2, gl' \in SUBSET GLRow, transitions' \in SUBSET Request
    PROVE  TypeOK'
<1>1. lock' \in Request \cup {NoRequest} /\ (lock' = NoRequest \/ (lock' = lock /\ lock # r))
    BY DEF Release, TypeOK
<1>2. pc' \in [Request -> {"idle", "loaded", "locked", "posted", "done"}]
    BY DEF TypeOK
<1>3. lock' \in Request => pc'[lock'] \in {"locked", "posted"}
    BY <1>1, NoRequestAssumption DEF TypeOK
<1> QED
    BY <1>1, <1>2, <1>3 DEF TypeOK, session

\* The unique constraint lets one cancellation commit.
LEMMA CommitKeepsReversals ==
    ASSUME ReversalInv, NEW r \in Request, Commit(r)
    PROVE  ReversalInv'
<1>1. /\ UNCHANGED session /\ Release(r) /\ Unique(r)
      /\ pc' = [pc EXCEPT ![r] = "done"]
    BY DEF Commit
<1>2. /\ gl \in SUBSET GLRow /\ transitions \in SUBSET Request
      /\ originals[r] \in SUBSET GLRow /\ originals' = originals
      /\ \A e \in originals[r] : e.reversal_of = NoRequest
    BY <1>1 DEF ReversalInv, TypeOK, OriginalsOnly, session
<1>3. CASE CommitSubmit(r)
  <2>1. gl' = gl \cup {Entry(r)} /\ docstatus' = 1 /\ UNCHANGED transitions
      BY <1>3 DEF CommitSubmit
  <2>2. Entry(r) \in GLRow /\ Entry(r).reversal_of = NoRequest
      BY DEF GLRow, Entry
  <2>3. TypeOK'
    <3>1. docstatus' \in 0 .. 2 /\ gl' \in SUBSET GLRow /\ transitions' \in SUBSET Request
        BY <1>2, <2>1, <2>2
    <3> QED
        BY <1>1, <3>1, EndKeepsTypes DEF ReversalInv
  <2>4. OriginalsOnly' /\ OneTransition'
      BY <1>2, <2>1, <2>2 DEF ReversalInv, OriginalsOnly, OneTransition
  <2> QED
      BY <2>3, <2>4 DEF ReversalInv
<1>4. CASE CommitCancel(r)
  <2>1. gl' = Reversed(r) /\ docstatus' = 2 /\ transitions' = {r}
      BY <1>1, <1>4 DEF CommitCancel, Unique
  <2>2. transitions = {}
      BY <1>1, <1>4 DEF CommitCancel, Unique
  <2>3. TypeOK'
    <3>1. docstatus' \in 0 .. 2 /\ gl' \in SUBSET GLRow /\ transitions' \in SUBSET Request
      <4>1. Reversed(r) \in SUBSET GLRow
          BY <1>2, ReversedRows
      <4> QED
          BY <2>1, <4>1
    <3> QED
        BY <1>1, <3>1, EndKeepsTypes DEF ReversalInv
  <2>4. \A f \in Reversed(r) : f.reversal_of # NoRequest => f.written_by = r /\ ~f.is_cancelled
      BY <1>2, <2>2, ReversedRows DEF ReversalInv, OriginalsOnly
  <2>5. OriginalsOnly' /\ OneTransition'
      BY <1>2, <2>1, <2>4 DEF ReversalInv, OriginalsOnly, OneTransition
  <2> QED
      BY <2>3, <2>5 DEF ReversalInv
<1> QED
    BY <1>3, <1>4 DEF Commit

\* Every step keeps them.
LEMMA NextReversals == ReversalInv /\ [Next]_vars => ReversalInv'
<1> SUFFICES ASSUME ReversalInv, [Next]_vars PROVE ReversalInv'
    OBVIOUS
<1>1. ASSUME NEW r \in Request, NEW op \in {"submit", "cancel"}, Load(r, op)
      PROVE ReversalInv'
    BY <1>1, LoadKeepsReversals
<1>2. ASSUME NEW r \in Request, Lock(r) PROVE ReversalInv'
  <2>1. UNCHANGED committed /\ UNCHANGED session
      BY <1>2 DEF Lock
  <2>2. TypeOK'
      BY <1>2, <2>1 DEF Lock, ReversalInv, TypeOK, session, committed
  <2>3. OriginalsOnly' /\ OneTransition'
      BY <2>1 DEF ReversalInv, OriginalsOnly, OneTransition, committed, session
  <2> QED
      BY <2>2, <2>3 DEF ReversalInv
<1>3. ASSUME NEW r \in Request, Refuse(r) \/ Crash(r) PROVE ReversalInv'
  <2>1. /\ UNCHANGED committed /\ UNCHANGED session /\ Release(r)
        /\ pc' = [pc EXCEPT ![r] = "done"]
      BY <1>3 DEF Refuse, Crash
  <2>2. TypeOK'
      BY <2>1, EndKeepsTypes DEF ReversalInv, TypeOK, committed
  <2>3. OriginalsOnly' /\ OneTransition'
      BY <2>1 DEF ReversalInv, OriginalsOnly, OneTransition, committed, session
  <2> QED
      BY <2>2, <2>3 DEF ReversalInv
<1>4. CASE UNCHANGED vars
  <2>1. UNCHANGED committed /\ UNCHANGED session /\ UNCHANGED <<lock, pc>>
      BY <1>4 DEF vars, committed, session
  <2> QED
      BY <2>1 DEF ReversalInv, TypeOK, OriginalsOnly, OneTransition, committed, session
<1>5. ASSUME NEW r \in Request, Proceed(r) PROVE ReversalInv'
    BY <1>2, <1>3, <1>5, PostKeepsReversals, CommitKeepsReversals DEF Proceed
<1> QED
    BY <1>1, <1>3, <1>4, <1>5 DEF Next

\* The cancellation that writes reversals is the only one, under either
\* isolation.
THEOREM ReversalInvariant == Spec => []ReversalInv
BY InitReversals, NextReversals, PTL DEF Spec

\* Every variable has its type, under either isolation, and the row lock is
\* held by a request inside its transaction.
THEOREM PostingTypeCorrect == Spec => []TypeOK
<1>1. ReversalInv => TypeOK
    BY DEF ReversalInv
<1> QED
    BY ReversalInvariant, <1>1, PTL

\* The reversals of one entry are one row at most.
LEMMA ReversalsEqual ==
    ASSUME ReversalInv, NEW w \in Request, NEW f \in gl, NEW g \in gl,
           f.reversal_of = w, g.reversal_of = w
    PROVE  f = g
<1>1. f \in GLRow /\ g \in GLRow /\ w # NoRequest
    BY NoRequestAssumption DEF ReversalInv, TypeOK
<1>2. f.written_by = g.written_by /\ f.is_cancelled = FALSE /\ g.is_cancelled = FALSE
    BY <1>1 DEF ReversalInv, OriginalsOnly, OneTransition, GLRow
<1> QED
    BY <1>1, <1>2 DEF GLRow

\* Sets with no two elements have the cardinality zero or one.
LEMMA AtMostOneElement ==
    ASSUME NEW S, \A f, g \in S : f = g
    PROVE  /\ Cardinality(S) <= 1
           /\ S # {} => Cardinality(S) = 1
           /\ S = {} => Cardinality(S) = 0
<1>1. CASE S = {}
  <2>1. Cardinality({}) = 0
      BY FS_EmptySet
  <2>2. Cardinality(S) = 0
      BY <1>1, <2>1, Zenon
  <2> QED
      BY <1>1, <2>2
<1>2. CASE S # {}
  <2>1. PICK e : S = {e}
      BY <1>2
  <2>2. Cardinality({e}) = 1
      BY FS_Singleton
  <2>3. Cardinality(S) = 1
      BY <2>1, <2>2, Zenon
  <2> QED
      BY <1>2, <2>3
<1> QED
    BY <1>1, <1>2

\* No entry is reversed twice, whatever the requests read: of two
\* cancellations the unique constraint lets one commit.
THEOREM NeverReversedTwice == Spec => []ReversedOnce
<1>1. ReversalInv => ReversedOnce
  <2> SUFFICES ASSUME ReversalInv, NEW e \in gl
               PROVE Cardinality({f \in gl : f.reversal_of = e.written_by}) <= 1
      BY DEF ReversedOnce
  <2> DEFINE S == {f \in gl : f.reversal_of = e.written_by}
  <2>1. e.written_by \in Request
      BY DEF ReversalInv, TypeOK, GLRow
  <2>2. \A f, g \in S : f = g
      BY <2>1, ReversalsEqual
  <2> HIDE DEF S
  <2>3. Cardinality(S) <= 1
      BY <2>2, AtMostOneElement
  <2> QED
      BY <2>3 DEF S
<1> QED
    BY ReversalInvariant, <1>1, PTL

-----------------------------------------------------------------------------
(* docstatus, the entries and their reversals, under read committed.       *)

\* What a row refers to has ended: only a commit writes one.
RowsDone ==
    \A e \in gl : /\ pc[e.written_by] = "done"
                  /\ e.reversal_of # NoRequest => pc[e.reversal_of] = "done"

\* The entries marked cancelled are those with a reversal.
MarkedAreReversed ==
    \A e \in gl : e.reversal_of = NoRequest =>
        (e.is_cancelled <=> \E f \in gl : f.reversal_of = e.written_by)

\* The inductive invariant of the ledger behind the status.
FollowInv == PostingInv /\ ReversalInv /\ RowsDone /\ MarkedAreReversed

\* A request that has ended stays ended.
LEMMA DoneStaysDone ==
    ASSUME TypeOK, [Next]_vars, NEW q \in Request, pc[q] = "done"
    PROVE  pc'[q] = "done"
<1>1. ASSUME NEW r \in Request, NEW op \in {"submit", "cancel"}, Load(r, op)
      PROVE pc'[q] = "done"
    BY <1>1 DEF Load, TypeOK
<1>2. ASSUME NEW r \in Request, Proceed(r) \/ Crash(r) PROVE pc'[q] = "done"
    BY <1>2 DEF Proceed, Lock, Post, Commit, Refuse, Crash, TypeOK
<1>3. CASE UNCHANGED vars
    BY <1>3 DEF vars
<1> QED
    BY <1>1, <1>2, <1>3 DEF Next

\* The steps that leave the ledger alone keep what is said of its rows.
LEMMA RowsKept ==
    ASSUME FollowInv, [Next]_vars, UNCHANGED gl
    PROVE  RowsDone' /\ MarkedAreReversed'
<1>1. TypeOK /\ gl \in SUBSET GLRow
    BY DEF FollowInv, ReversalInv, TypeOK
<1>2. RowsDone'
  <2> SUFFICES ASSUME NEW e \in gl
               PROVE /\ pc'[e.written_by] = "done"
                     /\ e.reversal_of # NoRequest => pc'[e.reversal_of] = "done"
      BY DEF RowsDone
  <2>1. e.written_by \in Request /\ e.reversal_of \in Request \cup {NoRequest}
      BY <1>1 DEF GLRow
  <2> QED
      BY <1>1, <2>1, DoneStaysDone DEF FollowInv, RowsDone
<1>3. MarkedAreReversed'
    BY DEF FollowInv, MarkedAreReversed
<1> QED
    BY <1>2, <1>3

\* A posting is not reversed when it is written.
LEMMA SubmitFollows ==
    ASSUME FollowInv, NEW r \in Request, Commit(r), CommitSubmit(r)
    PROVE  RowsDone' /\ MarkedAreReversed'
<1>1. /\ gl' = gl \cup {Entry(r)} /\ pc[r] = "posted" /\ pc' = [pc EXCEPT ![r] = "done"]
      /\ gl \in SUBSET GLRow /\ pc \in [Request -> {"idle", "loaded", "locked", "posted", "done"}]
    BY DEF Commit, CommitSubmit, FollowInv, ReversalInv, TypeOK
<1>2. /\ Entry(r).written_by = r /\ Entry(r).reversal_of = NoRequest
      /\ Entry(r).is_cancelled = FALSE
    BY DEF Entry
<1>3. \A e \in gl : /\ e.written_by \in Request /\ e.reversal_of \in Request \cup {NoRequest}
                    /\ e.reversal_of # r
  <2>1. r # NoRequest
      BY NoRequestAssumption
  <2> QED
      BY <1>1, <2>1 DEF FollowInv, RowsDone, GLRow
<1> HIDE DEF Entry
<1>4. RowsDone'
    BY <1>1, <1>2, <1>3 DEF FollowInv, RowsDone
<1>5. MarkedAreReversed'
  <2> SUFFICES ASSUME NEW e \in gl', e.reversal_of = NoRequest
               PROVE e.is_cancelled <=> \E f \in gl' : f.reversal_of = e.written_by
      BY DEF MarkedAreReversed
  <2>1. CASE e \in gl
    <3>1. e.written_by # NoRequest
        BY <1>3, <2>1, NoRequestAssumption
    <3>2. (\E f \in gl' : f.reversal_of = e.written_by) <=> \E f \in gl : f.reversal_of = e.written_by
        BY <1>1, <1>2, <3>1
    <3> QED
        BY <2>1, <3>2 DEF FollowInv, MarkedAreReversed
  <2>2. CASE e = Entry(r)
    <3>1. \A f \in gl' : f.reversal_of # r
        BY <1>1, <1>2, <1>3, NoRequestAssumption
    <3> QED
        BY <1>2, <2>2, <3>1
  <2> QED
      BY <1>1, <2>1, <2>2
<1> QED
    BY <1>4, <1>5

\* A cancellation marks the entries that it reverses, and those are all that
\* were not.
LEMMA CancelFollows ==
    ASSUME FollowInv, NEW r \in Request, Commit(r), CommitCancel(r)
    PROVE  RowsDone' /\ MarkedAreReversed'
<1>1. /\ gl' = Reversed(r) /\ originals[r] = Active(gl)
      /\ pc[r] = "posted" /\ pc' = [pc EXCEPT ![r] = "done"]
      /\ gl \in SUBSET GLRow /\ pc \in [Request -> {"idle", "loaded", "locked", "posted", "done"}]
    BY DEF Commit, CommitCancel, FollowInv, ReversalInv, PostingInv, FoundStillTrue,
       TypeOK
<1>2. /\ originals[r] \in SUBSET GLRow /\ originals[r] \subseteq gl
      /\ \A e \in originals[r] : e.reversal_of = NoRequest
    BY <1>1 DEF Active
<1>3. /\ \A m \in gl' :
            \/ m \in gl /\ m \notin originals[r]
            \/ \E e \in originals[r] :
                  /\ m.written_by = e.written_by /\ m.reversal_of = NoRequest
                  /\ m.is_cancelled = TRUE
            \/ \E e \in originals[r] :
                  /\ m.written_by = r /\ m.reversal_of = e.written_by
                  /\ m.is_cancelled = FALSE
      /\ \A e \in originals[r] : \E m \in gl' : m.reversal_of = e.written_by
      /\ gl \ originals[r] \subseteq gl'
    BY <1>1, <1>2, ReversedRows
<1>4. \A e \in gl : /\ e.written_by \in Request /\ e.reversal_of \in Request \cup {NoRequest}
                    /\ pc'[e.written_by] = "done"
                    /\ e.reversal_of # NoRequest => pc'[e.reversal_of] = "done"
    BY <1>1 DEF FollowInv, RowsDone, GLRow
<1>5. RowsDone'
  <2> SUFFICES ASSUME NEW m \in gl'
               PROVE /\ pc'[m.written_by] = "done"
                     /\ m.reversal_of # NoRequest => pc'[m.reversal_of] = "done"
      BY DEF RowsDone
  <2>1. pc'[r] = "done"
      BY <1>1
  <2> QED
      BY <1>2, <1>3, <1>4, <2>1
<1>6. MarkedAreReversed'
  <2> SUFFICES ASSUME NEW m \in gl', m.reversal_of = NoRequest
               PROVE m.is_cancelled /\ \E f \in gl' : f.reversal_of = m.written_by
      BY DEF MarkedAreReversed
  <2>1. CASE m \in gl /\ m \notin originals[r]
    <3>1. m.is_cancelled
        BY <1>1, <2>1 DEF Active
    <3>2. PICK f \in gl : f.reversal_of = m.written_by
        BY <2>1, <3>1 DEF FollowInv, MarkedAreReversed
    <3>3. f \notin originals[r]
        BY <1>2, <1>4, <2>1, <3>2, NoRequestAssumption
    <3> QED
        BY <1>3, <3>1, <3>2, <3>3
  <2>2. CASE \E e \in originals[r] :
                /\ m.written_by = e.written_by /\ m.reversal_of = NoRequest
                /\ m.is_cancelled = TRUE
    <3>1. PICK e \in originals[r] : m.written_by = e.written_by /\ m.is_cancelled = TRUE
        BY <2>2
    <3> QED
        BY <1>3, <3>1
  <2>3. CASE \E e \in originals[r] : m.reversal_of = e.written_by
      BY <1>2, <1>4, <2>3, NoRequestAssumption
  <2> QED
      BY <1>3, <2>1, <2>2, <2>3
<1> QED
    BY <1>5, <1>6

\* Every step keeps that.
LEMMA NextFollow == FollowInv /\ [Next]_vars => FollowInv'
<1> SUFFICES ASSUME FollowInv, [Next]_vars PROVE FollowInv'
    OBVIOUS
<1>1. PostingInv' /\ ReversalInv'
    BY NextPosting, NextReversals DEF FollowInv
<1>2. CASE UNCHANGED gl
    BY <1>1, <1>2, RowsKept DEF FollowInv
<1>3. CASE \E r \in Request : Commit(r)
    BY <1>1, <1>3, SubmitFollows, CancelFollows DEF FollowInv, Commit
<1>4. UNCHANGED gl \/ \E r \in Request : Commit(r)
    BY DEF Next, Proceed, Load, Lock, Post, Refuse, Crash, committed, vars
<1> QED
    BY <1>2, <1>3, <1>4

\* The entries and their reversals agree with docstatus in every reachable
\* state.
THEOREM FollowInvariant == Spec /\ ReadCommitted => []FollowInv
<1>1. Init /\ ReadCommitted => FollowInv
  <2>1. Init => RowsDone /\ MarkedAreReversed
      BY DEF Init, RowsDone, MarkedAreReversed
  <2> QED
      BY <2>1, InitPosting, InitReversals DEF FollowInv
<1> QED
    BY <1>1, NextFollow, PTL DEF Spec

\* The invariant counts the reversals of each entry.
LEMMA FollowImplies == FollowInv => LedgerFollowsStatus
<1> SUFFICES ASSUME FollowInv PROVE LedgerFollowsStatus
    OBVIOUS
<1>1. docstatus = 1 <=> Active(gl) # {}
    BY DEF FollowInv, PostingInv, StatusMatches
<1>2. ASSUME NEW e \in gl, e.reversal_of = NoRequest
     
      PROVE Cardinality({f \in gl : f.reversal_of = e.written_by}) = IF e.is_cancelled THEN 1 ELSE 0
  <2> DEFINE S == {f \in gl : f.reversal_of = e.written_by}
  <2>1. e.written_by \in Request
      BY DEF FollowInv, ReversalInv, TypeOK, GLRow
  <2>2. \A f, g \in S : f = g
      BY <2>1, ReversalsEqual DEF FollowInv
  <2>3. e.is_cancelled <=> S # {}
      BY <1>2 DEF FollowInv, MarkedAreReversed
  <2> HIDE DEF S
  <2>4. Cardinality(S) = IF e.is_cancelled THEN 1 ELSE 0
      BY <2>2, <2>3, AtMostOneElement
  <2> QED
      BY <2>4 DEF S
<1> QED
    BY <1>1, <1>2 DEF LedgerFollowsStatus

-----------------------------------------------------------------------------
\* docstatus and the ledger agree in every reachable state.
THEOREM LedgerAlwaysFollows == Spec => []LedgerFollowsStatus
<1>1. ~ReadCommitted => LedgerFollowsStatus
    BY DEF ReadCommitted, LedgerFollowsStatus
<1>2. Spec /\ ~ReadCommitted => []LedgerFollowsStatus
    BY <1>1, IsolationKept, PTL DEF Spec
<1> QED
    BY <1>2, FollowInvariant, FollowImplies, PTL

-----------------------------------------------------------------------------
(* The journals of a recurring template: a posting, a cancellation and the  *)
(* application that follows them.  RecurringJournals is instantiated, its    *)
(* sessions under another name; what the template says plays no part in the *)
(* safety properties, where the unique key of the applications and the mark *)
(* of the ledger rows decide, and its type is treated last.                 *)

CONSTANTS Session, Journal, LastPeriod

VARIABLES template, application, journal, active, reversed, transaction

Journals == INSTANCE RecurringJournals WITH session <- transaction

ApplicationStatus == {"none", "pending", "applied", "reversed"}
JournalStatus == {"none", "draft", "submitted", "rejected", "cancelled"}

\* The types on which the safety properties rest.
Typed ==
    /\ application \in [Journal -> [period : Journals!Period, status : ApplicationStatus]]
    /\ journal \in [Journal -> JournalStatus]
    /\ active \in SUBSET Journal
    /\ transaction = [s \in Session |-> transaction[s]]

\* A session works at a journal that was created.
WorksAtCreated ==
    \A s \in Session : transaction[s].op # "idle" =>
        /\ transaction[s].journal \in Journal
        /\ journal[transaction[s].journal] # "none"

\* The row lock of a cancellation, and what it found under it.
ReversesAlone ==
    \A s, t \in Session :
        transaction[s].op = "reverse" =>
            /\ transaction[s].journal \in active
            /\ transaction[t].op = "reverse" /\ transaction[t].journal = transaction[s].journal => s = t

\* A journal is created with its application, and uq_recurring_application
\* keeps the applications of the periods apart.
OneApplication ==
    /\ \A j \in Journal : application[j].status = "none" <=> journal[j] = "none"
    /\ \A i, j \in Journal :
         /\ application[i].status # "none"
         /\ application[j].status # "none"
         /\ application[i].period = application[j].period
         => i = j

\* The inductive invariant of the safety properties.
RecurringInv ==
    Typed /\ WorksAtCreated /\ ReversesAlone /\ OneApplication /\ Journals!StatusMatchesLedger

-----------------------------------------------------------------------------

\* Without applications the invariant holds.
LEMMA InitRecurring ==
    ASSUME Journals!LastPeriodAssumption, Journals!Init
    PROVE  RecurringInv
  <1>1. 1 \in Journals!Period
    BY Journals!LastPeriodAssumption DEF Journals!Period
  <1>2. Typed
    BY <1>1 DEF Journals!Init, Typed, ApplicationStatus, JournalStatus, Journals!Idle
  <1>3. WorksAtCreated /\ ReversesAlone
    BY DEF Journals!Init, WorksAtCreated, ReversesAlone, Journals!Idle
  <1>4. OneApplication /\ Journals!StatusMatchesLedger
    BY DEF Journals!Init, OneApplication, Journals!StatusMatchesLedger
  <1> QED
    BY <1>2, <1>3, <1>4 DEF RecurringInv

\* Whatever is done to the template leaves the rest as it is.
LEMMA TemplateKeeps ==
    ASSUME RecurringInv, UNCHANGED <<Journals!documents, transaction>>
    PROVE  RecurringInv'
  BY DEF RecurringInv, Journals!documents, Typed, WorksAtCreated, ReversesAlone,
     OneApplication,
         Journals!StatusMatchesLedger

\* Applying a template to a period keeps the invariant.
LEMMA ApplyKeeps ==
    ASSUME RecurringInv, NEW j \in Journal, NEW p \in Journals!Period, Journals!Apply(j, p)
    PROVE  RecurringInv'
  <1> USE DEF Journals!Apply, RecurringInv
  <1>1. Typed'
    BY DEF Typed, ApplicationStatus, JournalStatus
  <1>2. WorksAtCreated' /\ ReversesAlone'
    BY DEF Typed, WorksAtCreated, ReversesAlone
  <1>3. \A i \in Journal : application[i].status # "none" => application[i].period # p
    BY DEF Journals!MayApply, Journals!Applications
  <1>4. /\ \A i \in Journal \ {j} : application'[i] = application[i] /\ journal'[i] = journal[i]
        /\ application'[j] = [period |-> p, status |-> "pending"]
        /\ journal'[j] = "draft"
    BY DEF Typed
  <1>5. OneApplication'
    BY <1>3, <1>4 DEF OneApplication
  <1>6. Journals!StatusMatchesLedger'
    BY <1>4 DEF Journals!StatusMatchesLedger
  <1> QED
    BY <1>1, <1>2, <1>5, <1>6

\* Reading a journal into a session keeps the invariant.
LEMMA JournalLoadKeeps ==
    ASSUME RecurringInv, NEW s \in Session, NEW op \in {"submit", "reject", "cancel"},
           NEW j \in Journal, Journals!Load(s, op, j)
    PROVE  RecurringInv'
  <1> USE DEF Journals!Load, RecurringInv, Journals!documents
  <1>1. Typed'
    BY DEF Typed
  <1>2. /\ transaction'[s] = [op |-> op, journal |-> j]
        /\ \A t \in Session \ {s} : transaction'[t] = transaction[t]
    BY DEF Typed
  <1>3. journal[j] # "none"
    BY DEF Journals!Fits
  <1>4. WorksAtCreated' /\ ReversesAlone'
    BY <1>2, <1>3 DEF WorksAtCreated, ReversesAlone
  <1>5. OneApplication' /\ Journals!StatusMatchesLedger'
    BY DEF OneApplication, Journals!StatusMatchesLedger
  <1> QED
    BY <1>1, <1>4, <1>5

\* Submitting a journal, with the application it confirms, keeps the invariant.
LEMMA CommitSubmitKeeps ==
    ASSUME RecurringInv, NEW s \in Session, Journals!CommitSubmit(s)
    PROVE  RecurringInv'
  <1> USE DEF RecurringInv
  <1> DEFINE j == transaction[s].journal
  <1>1. j \in Journal /\ journal[j] # "none" /\ application[j].status # "none"
    BY DEF Journals!CommitSubmit, WorksAtCreated, OneApplication
  <1>2. /\ application' = [application EXCEPT ![j].status = "applied"]
        /\ journal' = [journal EXCEPT ![j] = "submitted"]
        /\ active' = active \cup {j}
        /\ transaction' = [transaction EXCEPT ![s] = Journals!Idle]
    BY DEF Journals!CommitSubmit
  <1>3. /\ \A i \in Journal \ {j} : application'[i] = application[i] /\ journal'[i] = journal[i]
        /\ application'[j].period = application[j].period
        /\ application'[j].status = "applied"
        /\ journal'[j] = "submitted"
    BY <1>1, <1>2 DEF Typed
  <1>4. transaction'[s] = Journals!Idle /\ \A t \in Session \ {s} : transaction'[t] = transaction[t]
    BY <1>2 DEF Typed
  <1>5. Typed'
    BY <1>1, <1>2 DEF Typed, ApplicationStatus, JournalStatus
  <1>6. WorksAtCreated' /\ ReversesAlone'
    BY <1>2, <1>3, <1>4 DEF WorksAtCreated, ReversesAlone, Journals!Idle
  <1>7. OneApplication'
    BY <1>1, <1>3 DEF OneApplication
  <1>8. Journals!StatusMatchesLedger'
    BY <1>2, <1>3 DEF Journals!StatusMatchesLedger
  <1> QED
    BY <1>5, <1>6, <1>7, <1>8

\* Rejecting a journal, which leaves its application as it is, keeps the
\* invariant.
LEMMA CommitRejectKeeps ==
    ASSUME RecurringInv, NEW s \in Session, Journals!CommitReject(s)
    PROVE  RecurringInv'
  <1> USE DEF RecurringInv
  <1> DEFINE j == transaction[s].journal
  <1>1. j \in Journal /\ journal[j] # "none" /\ application[j].status # "none"
    BY DEF Journals!CommitReject, WorksAtCreated, OneApplication
  <1>2. journal'[j] = "rejected" /\ \A i \in Journal \ {j} : journal'[i] = journal[i]
    BY <1>1 DEF Journals!CommitReject, Typed
  <1>3. transaction'[s] = Journals!Idle /\ \A t \in Session \ {s} : transaction'[t] = transaction[t]
    BY DEF Journals!CommitReject, Typed
  <1>4. Typed'
    BY <1>1 DEF Journals!CommitReject, Typed, JournalStatus
  <1>5. WorksAtCreated' /\ ReversesAlone'
    BY <1>2, <1>3 DEF Journals!CommitReject, WorksAtCreated, ReversesAlone,
       Journals!Idle
  <1>6. OneApplication' /\ Journals!StatusMatchesLedger'
    BY <1>1, <1>2 DEF Journals!CommitReject, OneApplication,
       Journals!StatusMatchesLedger
  <1> QED
    BY <1>4, <1>5, <1>6

\* Finding what a cancellation will reverse, under the row lock of the journal,
\* keeps the invariant.
LEMMA ReverseKeeps ==
    ASSUME RecurringInv, NEW s \in Session, Journals!Reverse(s)
    PROVE  RecurringInv'
  <1> USE DEF RecurringInv
  <1> DEFINE j == transaction[s].journal
  <1>1. /\ j \in Journal /\ journal[j] # "none"
        /\ j \in active
        /\ \A t \in Session : transaction[t].op = "reverse" => transaction[t].journal # j
    BY DEF Journals!Reverse, Journals!Reversible, Journals!Free, WorksAtCreated
  <1>2. /\ transaction'[s].op = "reverse" /\ transaction'[s].journal = j
        /\ \A t \in Session \ {s} : transaction'[t] = transaction[t]
    BY DEF Journals!Reverse, Typed
  <1>3. Typed'
    BY DEF Journals!Reverse, Typed, Journals!documents
  <1>4. WorksAtCreated' /\ ReversesAlone'
    BY <1>1, <1>2 DEF Journals!Reverse, Journals!documents, WorksAtCreated,
       ReversesAlone
  <1>5. OneApplication' /\ Journals!StatusMatchesLedger'
    BY DEF Journals!Reverse, Journals!documents, OneApplication,
       Journals!StatusMatchesLedger
  <1> QED
    BY <1>3, <1>4, <1>5

\* Cancelling a journal, with the application it reverses, keeps the invariant.
LEMMA CommitCancelKeeps ==
    ASSUME RecurringInv, NEW s \in Session, Journals!CommitCancel(s)
    PROVE  RecurringInv'
  <1> USE DEF RecurringInv
  <1> DEFINE j == transaction[s].journal
  <1>1. j \in Journal /\ journal[j] # "none" /\ application[j].status # "none"
    BY DEF Journals!CommitCancel, WorksAtCreated, OneApplication
  <1>2. /\ application' = [application EXCEPT ![j].status = "reversed"]
        /\ journal' = [journal EXCEPT ![j] = "cancelled"]
        /\ active' = active \ {j}
        /\ transaction' = [transaction EXCEPT ![s] = Journals!Idle]
    BY DEF Journals!CommitCancel
  <1>3. /\ \A i \in Journal \ {j} : application'[i] = application[i] /\ journal'[i] = journal[i]
        /\ application'[j].period = application[j].period
        /\ application'[j].status = "reversed"
        /\ journal'[j] = "cancelled"
    BY <1>1, <1>2 DEF Typed
  <1>4. transaction'[s] = Journals!Idle /\ \A t \in Session \ {s} : transaction'[t] = transaction[t]
    BY <1>2 DEF Typed
  <1>5. Typed'
    BY <1>1, <1>2 DEF Typed, ApplicationStatus, JournalStatus
  <1>6. WorksAtCreated'
    BY <1>3, <1>4 DEF WorksAtCreated, Journals!Idle
  <1>7. \A t \in Session \ {s} : transaction[t].op = "reverse" => transaction[t].journal # j
    BY DEF Journals!CommitCancel, ReversesAlone
  <1>8. ReversesAlone'
    BY <1>2, <1>4, <1>7 DEF ReversesAlone, Journals!Idle
  <1>9. OneApplication'
    BY <1>1, <1>3 DEF OneApplication
  <1>10. Journals!StatusMatchesLedger'
    BY <1>2, <1>3 DEF Journals!StatusMatchesLedger
  <1> QED
    BY <1>5, <1>6, <1>8, <1>9, <1>10

\* A session that gives up keeps the invariant.
LEMMA AbandonKeeps ==
    ASSUME RecurringInv, NEW s \in Session, Journals!Abandon(s)
    PROVE  RecurringInv'
  <1> USE DEF RecurringInv, Journals!Abandon, Journals!documents
  <1>1. transaction'[s] = Journals!Idle /\ \A t \in Session \ {s} : transaction'[t] = transaction[t]
    BY DEF Typed
  <1>2. Typed'
    BY DEF Typed
  <1>3. WorksAtCreated' /\ ReversesAlone'
    BY <1>1 DEF WorksAtCreated, ReversesAlone, Journals!Idle
  <1>4. OneApplication' /\ Journals!StatusMatchesLedger'
    BY DEF OneApplication, Journals!StatusMatchesLedger
  <1> QED
    BY <1>2, <1>3, <1>4

\* Every step keeps the invariant.
LEMMA NextRecurring == RecurringInv /\ [Journals!Next]_(Journals!vars) => RecurringInv'
  <1> SUFFICES ASSUME RecurringInv, [Journals!Next]_(Journals!vars) PROVE RecurringInv'
    OBVIOUS
  <1>1. CASE Journals!ApproveTemplate \/ Journals!CancelTemplate
    BY <1>1, TemplateKeeps DEF Journals!ApproveTemplate, Journals!CancelTemplate
  <1>2. CASE \E j \in Journal, p \in Journals!Period : Journals!Apply(j, p)
    BY <1>2, ApplyKeeps
  <1>3. ASSUME NEW s \in Session, Journals!Work(s) PROVE RecurringInv'
    <2>1. CASE \E op \in {"submit", "reject", "cancel"}, j \in Journal : Journals!Load(s, op, j)
      BY <2>1, JournalLoadKeeps
    <2>2. CASE Journals!CommitSubmit(s)
      BY <2>2, CommitSubmitKeeps
    <2>3. CASE Journals!CommitReject(s)
      BY <2>3, CommitRejectKeeps
    <2>4. CASE Journals!Reverse(s)
      BY <2>4, ReverseKeeps
    <2>5. CASE Journals!CommitCancel(s)
      BY <2>5, CommitCancelKeeps
    <2>6. CASE Journals!Abandon(s)
      BY <2>6, AbandonKeeps
    <2> QED
      BY <1>3, <2>1, <2>2, <2>3, <2>4, <2>5, <2>6 DEF Journals!Work
  <1>4. CASE UNCHANGED Journals!vars
    BY <1>4, TemplateKeeps DEF Journals!vars, Journals!documents
  <1> QED
    BY <1>1, <1>2, <1>3, <1>4 DEF Journals!Next

-----------------------------------------------------------------------------

\* The inductive invariant of recurring journals: every journal has the one
\* application of its period, and a cancellation that has read the ledger is
\* alone with its journal until it commits (cancel_submitted_journal).
THEOREM RecurringInvariant ==
    ASSUME Journals!LastPeriodAssumption
    PROVE  Journals!Spec => []RecurringInv
  <1>1. Journals!Init => RecurringInv
    BY InitRecurring
  <1> QED
    BY <1>1, NextRecurring, PTL DEF Journals!Spec

\* "applied" is said of an application exactly while its journal is in the
\* ledger, and neither a draft nor a cancelled journal has ledger rows
\* (journal_service.py, _reverse_recurring_application and submit_journal).
THEOREM StatusAlwaysMatchesLedger ==
    ASSUME Journals!LastPeriodAssumption
    PROVE  Journals!Spec => []Journals!StatusMatchesLedger
  <1>1. RecurringInv => Journals!StatusMatchesLedger
    BY DEF RecurringInv
  <1>2. Journals!Spec => []RecurringInv
    BY RecurringInvariant
  <1> QED
    BY <1>1, <1>2, PTL

\* No period carries the recurring amount twice, however applications,
\* reversals and late submissions follow each other (apply_recurring_template).
THEOREM AlwaysOneInForce ==
    ASSUME Journals!LastPeriodAssumption
    PROVE  Journals!Spec => []Journals!OneInForce
  <1>1. RecurringInv => Journals!OneInForce
    BY DEF RecurringInv, Typed, Journals!StatusMatchesLedger, OneApplication,
       Journals!OneInForce
  <1>2. Journals!Spec => []RecurringInv
    BY RecurringInvariant
  <1> QED
    BY <1>1, <1>2, PTL

-----------------------------------------------------------------------------
(* Types                                                                   *)

\* Only what is in force and was never reversed is being reversed.
ReversesTheFirst ==
    \A s \in Session : transaction[s].op = "reverse" => transaction[s].journal \notin reversed

\* The part of TypeOK that RecurringInv does not say.
RecurringTypes ==
    /\ template \in Journals!TemplateState
    /\ reversed \in SUBSET Journal
    /\ transaction \in [Session -> Journals!SessionState]

\* The inductive invariant of the types.
JournalTypeInv == RecurringInv /\ ReversesTheFirst /\ RecurringTypes

\* A set of numbers up to a bound has a greatest element.
LEMMA GreatestExists ==
    \A n \in Nat : \A S \in SUBSET (0 .. n) : S # {} => \E m \in S : \A x \in S : x <= m
  <1> DEFINE N == {n \in Nat : \A S \in SUBSET (0 .. n) : S # {} => \E m \in S : \A x \in S : x <= m}
  <1>1. 0 \in N
    <2> SUFFICES ASSUME NEW S \in SUBSET (0 .. 0), S # {}
                 PROVE \E m \in S : \A x \in S : x <= m
      OBVIOUS
    <2>1. PICK m \in S : TRUE
      OBVIOUS
    <2>2. \A x \in S : x <= m
      OBVIOUS
    <2> QED
      BY <2>2
  <1>2. ASSUME NEW n \in Nat, n \in N PROVE n + 1 \in N
    <2> SUFFICES ASSUME NEW S \in SUBSET (0 .. n + 1), S # {}
                 PROVE \E m \in S : \A x \in S : x <= m
      OBVIOUS
    <2>1. CASE n + 1 \in S
      BY <2>1
    <2>2. CASE n + 1 \notin S
      <3>1. S \in SUBSET (0 .. n)
        BY <2>2
      <3> QED
        BY <1>2, <3>1
    <2> QED
      BY <2>1, <2>2
  <1>3. Nat \subseteq N
    <2> HIDE DEF N
    <2> QED
      BY <1>1, <1>2, SetOfNaturals
  <1> QED
    BY <1>3

\* The maximum of a bounded, nonempty set of naturals is one of them.
LEMMA MaxInSet ==
    ASSUME NEW n \in Nat, NEW S \in SUBSET (0 .. n), S # {}
    PROVE  Journals!Max(S) \in S
  <1>1. \E m \in S : \A x \in S : m >= x
    BY GreatestExists
  <1> QED
    BY <1>1 DEF Journals!Max

\* What a cancellation will write to the template is a period of it, or none.
LEMMA RollbackType ==
    ASSUME Journals!LastPeriodAssumption, RecurringInv, RecurringTypes, NEW j \in Journal
    PROVE  Journals!Rollback(j) \in Journals!RollbackState
  <1>1. \A i \in Journal : application[i].period \in Journals!Period
    BY DEF RecurringInv, Typed
  <1>2. Journals!OthersApplied(j) \cup {0} \in SUBSET (0 .. LastPeriod)
    BY <1>1, Journals!LastPeriodAssumption DEF Journals!OthersApplied, Journals!Period
  <1>3. Journals!Max(Journals!OthersApplied(j) \cup {0}) \in 0 .. LastPeriod
    BY <1>2, MaxInSet, Journals!LastPeriodAssumption
  <1> HIDE DEF Journals!OthersApplied
  <1> QED
    BY <1>3 DEF Journals!Rollback, Journals!RollbackState

\* The initial state has its types.
LEMMA InitJournalTypes ==
    ASSUME Journals!LastPeriodAssumption, Journals!Init
    PROVE  JournalTypeInv
  <1>1. RecurringInv
    BY InitRecurring
  <1>2. RecurringTypes
    BY Journals!LastPeriodAssumption DEF Journals!Init, RecurringTypes,
       Journals!TemplateState, Journals!SessionState
  <1>3. ReversesTheFirst
    BY DEF Journals!Init, ReversesTheFirst, Journals!Idle
  <1> QED
    BY <1>1, <1>2, <1>3 DEF JournalTypeInv

\* The template, whatever is done to it, is one of its states.
LEMMA TemplateTypes ==
    ASSUME Journals!LastPeriodAssumption, JournalTypeInv, [Journals!Next]_(Journals!vars)
    PROVE  template' \in Journals!TemplateState
  <1> USE DEF JournalTypeInv, RecurringTypes
  <1>1. CASE Journals!ApproveTemplate \/ Journals!CancelTemplate
    BY <1>1 DEF Journals!ApproveTemplate, Journals!CancelTemplate,
       Journals!TemplateState
  <1>2. CASE \E s \in Session : Journals!CommitSubmit(s)
    <2>1. PICK s \in Session : Journals!CommitSubmit(s)
      BY <1>2
    <2>2. PICK p \in Journals!Period : p = application[transaction[s].journal].period
      BY <2>1 DEF Journals!CommitSubmit, RecurringInv, WorksAtCreated, Typed
    <2>3. template' = Journals!AfterApplying(p)
      BY <2>1, <2>2 DEF Journals!CommitSubmit
    <2>4. p \in 0 .. LastPeriod
      BY <2>2, Journals!LastPeriodAssumption DEF Journals!Period
    <2> QED
      BY <2>3, <2>4 DEF Journals!AfterApplying, Journals!TemplateState
  <1>3. CASE \E s \in Session : Journals!CommitCancel(s)
    <2>1. PICK s \in Session : Journals!CommitCancel(s)
      BY <1>3
    <2>2. PICK r \in Journals!RollbackState : r = transaction[s].rollback
      <3>1. transaction[s] \in Journals!SessionState /\ transaction[s].op = "reverse"
        BY <2>1 DEF Journals!CommitCancel
      <3>2. transaction[s].rollback \in Journals!RollbackState
        BY <3>1 DEF Journals!SessionState, Journals!Idle
      <3> QED
        BY <3>2
    <2>3. template' = Journals!AfterRollback(r)
      BY <2>1, <2>2 DEF Journals!CommitCancel
    <2>4. CASE r = Journals!Unchanged
      <3>1. r.write = FALSE
        BY <2>4 DEF Journals!Unchanged
      <3> QED
        BY <2>3, <3>1 DEF Journals!AfterRollback
    <2>5. CASE r \in [write : {TRUE}, last_applied : 0 .. LastPeriod, reopen : BOOLEAN]
      <3>1. r.write = TRUE /\ r.last_applied \in 0 .. LastPeriod
        BY <2>5
      <3>2. template' = [template EXCEPT !.last_applied = r.last_applied,
                                         !.status = IF r.reopen THEN "approved" ELSE @]
        BY <2>3, <3>1 DEF Journals!AfterRollback
      <3> QED
        BY <3>1, <3>2 DEF Journals!TemplateState
    <2> QED
      BY <2>2, <2>4, <2>5 DEF Journals!RollbackState
  <1>4. CASE UNCHANGED template
    BY <1>4
  <1>5. \/ Journals!ApproveTemplate \/ Journals!CancelTemplate \/ UNCHANGED template
        \/ \E s \in Session : Journals!CommitSubmit(s) \/ Journals!CommitCancel(s)
    BY DEF Journals!Next, Journals!Work, Journals!Apply, Journals!Load,
       Journals!CommitReject, Journals!Reverse, Journals!Abandon, Journals!vars
  <1> QED
    BY <1>1, <1>2, <1>3, <1>4, <1>5

\* A session is idle, works at a journal, or holds what it read of it.
LEMMA SessionTypes ==
    ASSUME Journals!LastPeriodAssumption, JournalTypeInv, [Journals!Next]_(Journals!vars)
    PROVE  transaction' \in [Session -> Journals!SessionState]
  <1> USE DEF JournalTypeInv, RecurringTypes
  <1>1. ASSUME NEW s \in Session, NEW x \in Journals!SessionState, transaction' = [transaction EXCEPT ![s] = x]
        PROVE transaction' \in [Session -> Journals!SessionState]
    BY <1>1
  <1>2. CASE UNCHANGED transaction
    BY <1>2
  <1>3. ASSUME NEW s \in Session, Journals!Work(s)
        PROVE transaction' \in [Session -> Journals!SessionState]
    <2>1. CASE \E op \in {"submit", "reject", "cancel"}, j \in Journal : Journals!Load(s, op, j)
      <3>1. PICK op \in {"submit", "reject", "cancel"}, j \in Journal : Journals!Load(s, op, j)
        BY <2>1
      <3>2. [op |-> op, journal |-> j] \in Journals!SessionState
        BY DEF Journals!SessionState
      <3> QED
        BY <1>1, <3>1, <3>2 DEF Journals!Load
    <2>2. CASE Journals!Reverse(s)
      <3>1. transaction[s].journal \in Journal
        BY <2>2 DEF Journals!Reverse, RecurringInv, WorksAtCreated
      <3>2. Journals!Rollback(transaction[s].journal) \in Journals!RollbackState
        BY <3>1, RollbackType
      <3>3. [op |-> "reverse", journal |-> transaction[s].journal,
             rollback |-> Journals!Rollback(transaction[s].journal)] \in Journals!SessionState
        BY <3>1, <3>2 DEF Journals!SessionState
      <3> QED
        BY <1>1, <2>2, <3>3 DEF Journals!Reverse
    <2>3. Journals!Idle \in Journals!SessionState
      BY DEF Journals!SessionState
    <2>4. CASE transaction' = [transaction EXCEPT ![s] = Journals!Idle]
      BY <1>1, <2>3, <2>4
    <2> QED
      BY <1>3, <2>1, <2>2, <2>4 DEF Journals!Work, Journals!CommitSubmit,
         Journals!CommitReject, Journals!CommitCancel, Journals!Abandon
  <1> QED
    BY <1>2, <1>3 DEF Journals!Next, Journals!ApproveTemplate, Journals!CancelTemplate,
       Journals!Apply, Journals!vars

\* What a cancellation holds is not reversed by another one.
LEMMA FirstKept ==
    ASSUME JournalTypeInv, [Journals!Next]_(Journals!vars)
    PROVE  ReversesTheFirst' /\ reversed' \in SUBSET Journal
  <1> USE DEF JournalTypeInv
  <1>1. CASE \E s \in Session : Journals!CommitCancel(s)
    <2>1. PICK s \in Session : Journals!CommitCancel(s)
      BY <1>1
    <2>2. /\ transaction[s].op = "reverse" /\ transaction[s].journal \in Journal
          /\ transaction' = [transaction EXCEPT ![s] = Journals!Idle]
          /\ reversed' = reversed \cup {transaction[s].journal}
      BY <2>1 DEF Journals!CommitCancel, RecurringInv, WorksAtCreated
    <2>3. \A t \in Session \ {s} : transaction'[t] = transaction[t]
      BY <2>2 DEF RecurringTypes
    <2>4. transaction'[s].op # "reverse"
      BY <2>2 DEF RecurringTypes, Journals!Idle
    <2>5. \A t \in Session \ {s} : transaction[t].op = "reverse" => transaction[t].journal # transaction[s].journal
      BY <2>2 DEF RecurringInv, ReversesAlone
    <2> QED
      BY <2>2, <2>3, <2>4, <2>5 DEF ReversesTheFirst, RecurringTypes
  <1>2. CASE UNCHANGED reversed
    <2>1. reversed' \in SUBSET Journal
      BY <1>2 DEF RecurringTypes
    <2>2. ASSUME NEW t \in Session, transaction'[t].op = "reverse"
          PROVE transaction'[t].journal \notin reversed
      <3>1. CASE transaction'[t] = transaction[t]
        BY <2>2, <3>1 DEF ReversesTheFirst
      <3>2. CASE Journals!Reverse(t)
        BY <3>2 DEF Journals!Reverse, Journals!Reversible, RecurringTypes
      <3>3. transaction'[t] = transaction[t] \/ Journals!Reverse(t)
        <4>1. ASSUME NEW s \in Session, NEW x, transaction' = [transaction EXCEPT ![s] = x],
                     x.op # "reverse"
              PROVE transaction'[t] = transaction[t]
          BY <2>2, <4>1 DEF RecurringTypes
        <4>2. ASSUME NEW s \in Session, Journals!Work(s)
              PROVE transaction'[t] = transaction[t] \/ Journals!Reverse(t)
          <5>1. CASE \E op \in {"submit", "reject", "cancel"}, j \in Journal : Journals!Load(s, op, j)
            <6>1. PICK op \in {"submit", "reject", "cancel"}, j \in Journal : Journals!Load(s, op, j)
              BY <5>1
            <6>2. PICK x : x = [op |-> op, journal |-> j]
              OBVIOUS
            <6>3. x.op # "reverse"
              BY <6>2
            <6>4. transaction' = [transaction EXCEPT ![s] = x]
              BY <6>1, <6>2 DEF Journals!Load
            <6> QED
              BY <4>1, <6>3, <6>4
          <5>2. CASE Journals!Reverse(s)
            <6>1. CASE t = s
              BY <5>2, <6>1
            <6>2. CASE t # s
              <7>1. transaction'[t] = transaction[t]
                BY <5>2, <6>2 DEF Journals!Reverse, RecurringTypes
              <7> QED
                BY <7>1
            <6> QED
              BY <6>1, <6>2
          <5>3. CASE transaction' = [transaction EXCEPT ![s] = Journals!Idle]
            <6>1. Journals!Idle.op # "reverse"
              BY DEF Journals!Idle
            <6> QED
              BY <4>1, <5>3, <6>1
          <5>4. \/ \E op \in {"submit", "reject", "cancel"}, j \in Journal : Journals!Load(s, op, j)
                \/ Journals!Reverse(s) \/ transaction' = [transaction EXCEPT ![s] = Journals!Idle]
            BY <4>2 DEF Journals!Work, Journals!CommitSubmit, Journals!CommitReject,
               Journals!CommitCancel, Journals!Abandon
          <5> QED
            BY <5>1, <5>2, <5>3, <5>4, Zenon
        <4> QED
          BY <4>2 DEF Journals!Next, Journals!ApproveTemplate, Journals!CancelTemplate,
             Journals!Apply, Journals!vars
      <3> QED
        BY <3>1, <3>2, <3>3
    <2> QED
      BY <1>2, <2>1, <2>2 DEF ReversesTheFirst
  <1>3. UNCHANGED reversed \/ \E s \in Session : Journals!CommitCancel(s)
    BY DEF Journals!Next, Journals!Work, Journals!ApproveTemplate,
       Journals!CancelTemplate, Journals!Apply, Journals!Load, Journals!CommitSubmit,
       Journals!CommitReject,
           Journals!Reverse, Journals!Abandon, Journals!vars, Journals!documents
  <1> QED
    BY <1>1, <1>2, <1>3

\* Every step keeps the types.
LEMMA NextJournalTypes ==
    ASSUME Journals!LastPeriodAssumption, JournalTypeInv, [Journals!Next]_(Journals!vars)
    PROVE  JournalTypeInv'
  BY NextRecurring, TemplateTypes, SessionTypes, FirstKept DEF JournalTypeInv,
     RecurringTypes,
     Journals!SessionState, Journals!RollbackState, Journals!TemplateState,
     Journals!Period, Journals!Idle, Journals!Unchanged

\* Every variable has its type: the cursor of the template stays within its
\* periods although cancellations write what they have read before, and a
\* journal is being reversed by one session at most, which found it in force and
\* never reversed.
THEOREM RecurringTypeCorrect ==
    ASSUME Journals!LastPeriodAssumption
    PROVE  Journals!Spec => []Journals!TypeOK
  <1>1. JournalTypeInv => Journals!TypeOK
    BY DEF JournalTypeInv, RecurringInv, RecurringTypes, Typed, ReversesTheFirst,
       ReversesAlone,
           ApplicationStatus, JournalStatus, Journals!TypeOK
  <1>2. Journals!Init => JournalTypeInv
    BY InitJournalTypes
  <1>3. JournalTypeInv /\ [Journals!Next]_(Journals!vars) => JournalTypeInv'
    BY NextJournalTypes
  <1> QED
    BY <1>1, <1>2, <1>3, PTL DEF Journals!Spec
=============================================================================
