----------------------------- MODULE AuditChain -----------------------------
(***************************************************************************)
(* The hash chain over the audit_trail table                               *)
(* (cacao_accounting/audit_chain.py, with the session hooks that           *)
(* internal_control_service.py registers around a flush).                  *)
(*                                                                         *)
(* Every row stores the payload hash of the row that precedes it.  The     *)
(* hash of a row covers its id, so it is represented by the id: prev is    *)
(* the id of the preceding row, or NoRow for the first row of the chain.   *)
(*                                                                         *)
(* Several database connections write at once, each in its own             *)
(* transaction, with savepoints.  A flush first chains the AuditTrail      *)
(* objects pending in the session, then its mapper events may add further  *)
(* rows by Core INSERTs, and the ORM INSERTs come last.                    *)
(***************************************************************************)
EXTENDS Integers, Sequences, FiniteSets

CONSTANTS
    Conn,          \* database connections that write audit rows
    RowId,         \* row identifiers (ULIDs)
    NoConn,        \* "no connection"
    NoRow,         \* the null prev_hash
    Dialect,       \* "postgresql" or "sqlite"
    MaxBatch       \* bound: AuditTrail objects pending in one flush

ASSUME ConnAssumption == NoConn \notin Conn
ASSUME RowAssumption == NoRow \notin RowId
ASSUME DialectAssumption == Dialect \in {"postgresql", "sqlite"}
ASSUME BatchAssumption == MaxBatch \in Nat

VARIABLES
    audit_trail,   \* the committed rows
    pending,       \* rows each open transaction has inserted
    flush,         \* ORM rows each running flush has chained and not inserted
    inFlush,       \* connections between before_flush and after_flush_postexec
    open,          \* connections with an open root transaction
    tail,          \* connection.info: the cached end of the chain
    savepoint,     \* the savepoint of each transaction
    writer         \* holder of the advisory lock (PostgreSQL) or of the
                   \* database write lock (SQLite)

vars == <<audit_trail, pending, flush, inFlush, open, tail, savepoint, writer>>

Row == [id : RowId, prev : RowId \cup {NoRow}]

NoTail == [valid |-> FALSE, row |-> NoRow]
NoSavepoint == [set |-> FALSE, rows |-> {}, held |-> FALSE]

-----------------------------------------------------------------------------
(* What a connection sees and what will be in the table once it commits.   *)

Visible(c) == audit_trail \cup pending[c]
AllRows(c) == Visible(c) \cup flush[c]

Ids(rows) == {r.id : r \in rows}
UsedIds == Ids(audit_trail) \cup UNION {Ids(pending[c] \cup flush[c]) : c \in Conn}

Heads(rows) == {r \in rows : \A s \in rows : s.prev # r.id}

\* _last_chain_hash raises when there are two heads; the caller's transaction
\* is then rolled back, so this is a guard of the actions that read the head.
HeadReadable(rows) == \A r, s \in Heads(rows) : r = s

LastChainHash(rows) ==
    IF Heads(rows) = {} THEN NoRow ELSE (CHOOSE r \in Heads(rows) : TRUE).id

\* Mutant: no lock is taken on any dialect.
SerializeChainHeadUnlocked(c) == UNCHANGED writer

\* _serialize_chain_head: a transactional advisory lock on PostgreSQL, nothing
\* on the other dialects.
SerializeChainHead(c) ==
    IF Dialect = "postgresql"
    THEN writer \in {NoConn, c} /\ writer' = c
    ELSE UNCHANGED writer

\* An INSERT needs the database write lock on SQLite, which its transaction
\* then keeps; PostgreSQL inserts do not wait for one another.
WriteLock(c) ==
    IF Dialect = "sqlite"
    THEN writer \in {NoConn, c} /\ writer' = c
    ELSE UNCHANGED writer

\* Mutant: every row of a flush is chained to the head the flush started from.
ChainedToStart(ids, start) == {[id |-> ids[i], prev |-> start] : i \in 1 .. Len(ids)}

\* The rows a flush chains: each to the one before it, the first to the tail.
Chained(ids, start) ==
    {[id |-> ids[i], prev |-> IF i = 1 THEN start ELSE ids[i - 1]] : i \in 1 .. Len(ids)}

\* Distinct new identifiers, in the order in which their flush sorts them.
Batches == UNION {[1 .. n -> RowId \ UsedIds] : n \in 1 .. MaxBatch}
Distinct(ids) == \A i, j \in DOMAIN ids : ids[i] = ids[j] => i = j

-----------------------------------------------------------------------------
Init ==
    /\ audit_trail = {}
    /\ pending = [c \in Conn |-> {}]
    /\ flush = [c \in Conn |-> {}]
    /\ inFlush = {}
    /\ open = {}
    /\ tail = [c \in Conn |-> NoTail]
    /\ savepoint = [c \in Conn |-> NoSavepoint]
    /\ writer = NoConn

\* The session starts a transaction on a pooled connection.  connection.info
\* outlives the transaction that filled it, which tail.valid records: it is
\* the test cached[0] is transaction.
Begin(c) ==
    /\ c \notin open
    /\ open' = open \cup {c}
    /\ UNCHANGED <<audit_trail, pending, flush, inFlush, tail, savepoint, writer>>

\* chain_pending_rows with no AuditTrail object pending: only drops the cache.
FlushWithoutRows(c) ==
    /\ c \in open \ inFlush
    /\ inFlush' = inFlush \cup {c}
    /\ tail' = [tail EXCEPT ![c] = NoTail]
    /\ UNCHANGED <<audit_trail, pending, flush, open, savepoint, writer>>

\* chain_pending_rows: drop the cache, lock, read the head, chain the batch.
ChainPendingRows(c) ==
    /\ c \in open \ inFlush
    /\ SerializeChainHead(c)
    /\ HeadReadable(Visible(c))
    /\ \E ids \in Batches :
         /\ Distinct(ids)
         /\ flush' = [flush EXCEPT ![c] = Chained(ids, LastChainHash(Visible(c)))]
         /\ tail' = [tail EXCEPT ![c] = [valid |-> TRUE, row |-> ids[Len(ids)]]]
    /\ inFlush' = inFlush \cup {c}
    /\ UNCHANGED <<audit_trail, pending, open, savepoint>>

\* Mutant: stamping a row does not advance the cached tail.
StampCachedKeepsTail(c) ==
    /\ c \in inFlush
    /\ tail[c].valid
    /\ WriteLock(c)
    /\ \E id \in RowId \ UsedIds :
         pending' = [pending EXCEPT ![c] = @ \cup {[id |-> id, prev |-> tail[c].row]}]
    /\ UNCHANGED <<audit_trail, flush, inFlush, open, tail, savepoint>>

\* _write_event -> stamp_audit_values -> _pending_chain_tail, when the cache
\* belongs to this transaction; then the Core INSERT.
StampCached(c) ==
    /\ c \in inFlush
    /\ tail[c].valid
    /\ WriteLock(c)
    /\ \E id \in RowId \ UsedIds :
         /\ pending' = [pending EXCEPT ![c] = @ \cup {[id |-> id, prev |-> tail[c].row]}]
         /\ tail' = [tail EXCEPT ![c] = [valid |-> TRUE, row |-> id]]
    /\ UNCHANGED <<audit_trail, flush, inFlush, open, savepoint>>

\* _write_event -> stamp_audit_values -> _pending_chain_tail, when there is no
\* cache: lock, read the head, fill the cache.  The INSERT is a later
\* statement; between the two another SQLite connection may commit.
ReadTail(c) ==
    /\ c \in inFlush
    /\ ~tail[c].valid
    /\ SerializeChainHead(c)
    /\ HeadReadable(Visible(c))
    /\ tail' = [tail EXCEPT ![c] = [valid |-> TRUE, row |-> LastChainHash(Visible(c))]]
    /\ UNCHANGED <<audit_trail, pending, flush, inFlush, open, savepoint>>

\* Mutant: the chained rows stay pending after they are written.
EndFlushKeepsRows(c) ==
    /\ c \in inFlush
    /\ WriteLock(c)
    /\ pending' = [pending EXCEPT ![c] = @ \cup flush[c]]
    /\ inFlush' = inFlush \ {c}
    /\ UNCHANGED <<audit_trail, flush, open, tail, savepoint>>

\* The unit of work writes the rows it chained, with the rest of its DML.
EndFlush(c) ==
    /\ c \in inFlush
    /\ WriteLock(c)
    /\ pending' = [pending EXCEPT ![c] = @ \cup flush[c]]
    /\ flush' = [flush EXCEPT ![c] = {}]
    /\ inFlush' = inFlush \ {c}
    /\ UNCHANGED <<audit_trail, open, tail, savepoint>>

\* begin_nested.
Savepoint(c) ==
    /\ c \in open \ inFlush
    /\ ~savepoint[c].set
    /\ savepoint' = [savepoint EXCEPT
                       ![c] = [set |-> TRUE, rows |-> pending[c], held |-> writer = c]]
    /\ UNCHANGED <<audit_trail, pending, flush, inFlush, open, tail, writer>>

ReleaseSavepoint(c) ==
    /\ c \in open \ inFlush
    /\ savepoint[c].set
    /\ savepoint' = [savepoint EXCEPT ![c] = NoSavepoint]
    /\ UNCHANGED <<audit_trail, pending, flush, inFlush, open, tail, writer>>

\* ROLLBACK TO SAVEPOINT, also when a flush inside it fails.  The root
\* transaction goes on, so the cache stays valid.  PostgreSQL releases an
\* advisory lock taken after the savepoint; SQLite keeps its write lock.
RollbackToSavepoint(c) ==
    /\ savepoint[c].set
    /\ pending' = [pending EXCEPT ![c] = savepoint[c].rows]
    /\ flush' = [flush EXCEPT ![c] = {}]
    /\ inFlush' = inFlush \ {c}
    /\ savepoint' = [savepoint EXCEPT ![c] = NoSavepoint]
    /\ writer' = IF Dialect = "postgresql" /\ writer = c /\ ~savepoint[c].held
                 THEN NoConn ELSE writer
    /\ UNCHANGED <<audit_trail, open, tail>>

\* What the end of the root transaction resets.
EndTransaction(c) ==
    /\ pending' = [pending EXCEPT ![c] = {}]
    /\ flush' = [flush EXCEPT ![c] = {}]
    /\ inFlush' = inFlush \ {c}
    /\ open' = open \ {c}
    /\ tail' = [tail EXCEPT ![c].valid = FALSE]
    /\ savepoint' = [savepoint EXCEPT ![c] = NoSavepoint]
    /\ writer' = IF writer = c THEN NoConn ELSE writer

Commit(c) ==
    /\ c \in open \ inFlush
    /\ audit_trail' = audit_trail \cup pending[c]
    /\ EndTransaction(c)

\* An error of the request, a lock timeout, a second head, a lost connection.
Rollback(c) ==
    /\ c \in open
    /\ UNCHANGED audit_trail
    /\ EndTransaction(c)

Next ==
    \E c \in Conn :
        \/ Begin(c)
        \/ FlushWithoutRows(c) \/ ChainPendingRows(c)
        \/ ReadTail(c) \/ StampCached(c) \/ EndFlush(c)
        \/ Savepoint(c) \/ ReleaseSavepoint(c) \/ RollbackToSavepoint(c)
        \/ Commit(c) \/ Rollback(c)

Spec == Init /\ [][Next]_vars

-----------------------------------------------------------------------------
(* verify_audit_trail_chain                                                *)

Children(rows, hash) == {r \in rows : r.prev = hash}

\* _walk_chain: the rows reached from root by following single successors.
Walk(rows, root) ==
    LET reach[n \in 0 .. Cardinality(rows)] ==
            IF n = 0 THEN {root}
            ELSE LET seen == reach[n - 1]
                     single == {q \in seen : Cardinality(Children(rows, q.id)) = 1}
                 IN seen \cup UNION {Children(rows, q.id) : q \in single}
    IN reach[Cardinality(rows)]

\* Mutant: extra roots and branches are reported, unreachable rows are not.
ChainLinkIssuesWithoutOrphans(rows) ==
    {r \in rows : \E s \in rows : s # r /\ s.prev = r.prev}

\* _chain_link_issues: the rows reported with a chain_break.  The root walked
\* is the one with the least id; which of several roots that is does not
\* change whether something is reported.
ChainLinkIssues(rows) ==
    LET roots == Children(rows, NoRow)
    IN IF roots = {} THEN rows
       ELSE rows \ Walk(rows, CHOOSE r \in roots : TRUE)

-----------------------------------------------------------------------------
(* Properties                                                              *)

\* Every variable has its type; what a connection has written and not
\* committed exists only inside its transaction.
TypeOK ==
    /\ audit_trail \in SUBSET Row
    /\ pending \in [Conn -> SUBSET Row]
    /\ flush \in [Conn -> SUBSET Row]
    /\ inFlush \in SUBSET open
    /\ open \in SUBSET Conn
    /\ tail \in [Conn -> [valid : BOOLEAN, row : RowId \cup {NoRow}]]
    /\ savepoint \in [Conn -> [set : BOOLEAN, rows : SUBSET Row, held : BOOLEAN]]
    /\ writer \in open \cup {NoConn}
    /\ \A c \in Conn \ open : pending[c] = {} /\ savepoint[c] = NoSavepoint
    /\ \A c \in Conn \ inFlush : flush[c] = {}

\* No two committed rows continue the same row and at most one row starts the
\* chain: concurrent writers never fork the chain (audit_chain.py:130-146).
NoFork == \A r, s \in audit_trail : r.prev = s.prev => r = s

\* The committed chain always has exactly one head, so _last_chain_hash never
\* raises and the next audited write is possible (audit_chain.py:125-126).
SingleHead == audit_trail # {} => \E h \in audit_trail : Heads(audit_trail) = {h}

\* The code's own verifier has nothing to report about what the code wrote,
\* whatever rolled back on the way (verify_audit_trail_chain).
VerifyClean == ChainLinkIssues(audit_trail) = {}

\* The verifier reports the removal of any row but the last one: what the
\* module's header promises of a deletion from the middle of the chain
\* (audit_chain.py:9-11).
DeletionDetected ==
    \A r \in audit_trail \ Heads(audit_trail) : ChainLinkIssues(audit_trail \ {r}) # {}

-----------------------------------------------------------------------------
(* The chain implements an append-only log (module AuditLog): read from its *)
(* first row, the committed chain only ever grows at its end.               *)

ChainOrder(rows) ==
    LET order[n \in 0 .. Cardinality(rows)] ==
            IF n = 0 THEN <<>>
            ELSE LET before == order[n - 1]
                     last == IF n = 1 THEN NoRow ELSE before[Len(before)]
                     next == Children(rows, last)
                 IN IF Len(before) < n - 1 \/ next = {} THEN before
                    ELSE Append(before, (CHOOSE r \in next : TRUE).id)
    IN order[Cardinality(rows)]

Log == INSTANCE AuditLog WITH log <- ChainOrder(audit_trail), ids <- Ids(audit_trail)

\* Every commit appends its rows, all of them and in one piece, to the log
\* that the committed chain spells (audit_chain.py:203-230).
ImplementsAuditLog == Log!Spec

-----------------------------------------------------------------------------
(* The strengthening of NoFork and SingleHead that every step preserves on  *)
(* PostgreSQL.  Between two commits the chain is the one its writer sees.   *)

\* A set of rows is a chain: identifiers are distinct, no two rows have the
\* same predecessor, predecessors exist, and there is one head.
IsChain(rows) ==
    /\ \A r, s \in rows : r.id = s.id => r = s
    /\ \A r, s \in rows : r.prev = s.prev => r = s
    /\ \A r \in rows : r.prev # NoRow => \E s \in rows : s.id = r.prev
    /\ rows # {} => \E h \in rows : Heads(rows) = {h}

\* t is where the next row of the chain goes.
IsTail(t, rows) ==
    /\ rows = {} => t = NoRow
    /\ rows # {} => \E h \in Heads(rows) : h.id = t

\* Whoever has uncommitted rows, or a tail to chain to, holds the lock.
WriterOwnsRows ==
    \A c \in Conn :
        /\ pending[c] \cup flush[c] # {} => writer = c
        /\ c \in inFlush /\ tail[c].valid => writer = c
        /\ savepoint[c].rows # {} => savepoint[c].held
        /\ savepoint[c].held => writer = c

\* Every view is a chain, also the ones a rollback returns to; a flush that
\* has chained rows knows its tail, and a tail in use is the end of its view.
ViewsAreChains ==
    \A c \in Conn :
        /\ IsChain(AllRows(c))
        /\ IsChain(audit_trail \cup savepoint[c].rows)
        /\ flush[c] # {} => tail[c].valid
        /\ c \in inFlush /\ tail[c].valid => IsTail(tail[c].row, AllRows(c))

\* The inductive invariant of AuditChainProofs.
ChainInv == TypeOK /\ IsChain(audit_trail) /\ WriterOwnsRows /\ ViewsAreChains
=============================================================================
