-------------------------- MODULE AuditChainProofs --------------------------
(***************************************************************************)
(* Proofs about AuditChain on PostgreSQL: for any number of connections,   *)
(* rows and rows per flush, concurrent writers never fork the chain.       *)
(***************************************************************************)
EXTENDS AuditChain, SumTheorems, SequenceTheorems, FunctionTheorems, TLAPS

-----------------------------------------------------------------------------
(* One batch.                                                              *)

\* The head that a connection reads is the end of the chain it sees.
LEMMA LastChainHashIsTail ==
    ASSUME NEW S, IsChain(S)
    PROVE  IsTail(LastChainHash(S), S)
<1>1. CASE S = {}
  BY <1>1 DEF IsTail, LastChainHash, Heads
<1>2. CASE S # {}
  <2>1. PICK h \in S : Heads(S) = {h}
    BY <1>2 DEF IsChain
  <2>2. LastChainHash(S) = (CHOOSE r \in {h} : TRUE).id
    BY <2>1 DEF LastChainHash
  <2>3. (CHOOSE r \in {h} : TRUE) = h
    OBVIOUS
  <2> QED
    BY <1>2, <2>1, <2>2, <2>3 DEF IsTail
<1> QED
  BY <1>1, <1>2

\* Chaining new, distinct rows to the end of a chain gives a chain whose end
\* is the last of them.
LEMMA ChainBatch ==
    ASSUME NEW S \in SUBSET Row, IsChain(S),
           NEW t, IsTail(t, S),
           NEW n \in Nat \ {0},
           NEW ids \in [1 .. n -> RowId \ Ids(S)], Distinct(ids),
           Len(ids) = n
    PROVE  /\ Chained(ids, t) \in SUBSET Row
           /\ IsChain(S \cup Chained(ids, t))
           /\ IsTail(ids[n], S \cup Chained(ids, t))
<1> DEFINE b(i) == [id |-> ids[i], prev |-> IF i = 1 THEN t ELSE ids[i - 1]]
           D == S \cup Chained(ids, t)
<1>1. Chained(ids, t) = {b(i) : i \in 1 .. n}
  BY DEF Chained
<1>2. \A i \in 1 .. n : ids[i] \in RowId /\ \A r \in S : r.id # ids[i]
  BY DEF Ids
<1>3. \A i, j \in 1 .. n : ids[i] = ids[j] => i = j
  BY DEF Distinct
<1>4. t = NoRow \/ \E h \in S : h.id = t
  BY DEF IsTail, Heads
<1>5. t \in RowId \cup {NoRow}
  BY <1>4 DEF Row
<1>6. \A i \in 1 .. n : ids[i] # t
  BY <1>2, <1>4, RowAssumption
<1>7. \A r \in S : r.prev = NoRow \/ \E s \in S : s.id = r.prev
  BY DEF IsChain
<1>8. \A r \in S, i \in 1 .. n : r.prev # ids[i]
  BY <1>2, <1>7, RowAssumption
<1>9. \A r \in S : r.prev # t
  <2> SUFFICES ASSUME NEW r \in S PROVE r.prev # t
    OBVIOUS
  <2>1. PICK h \in Heads(S) : h.id = t
    BY DEF IsTail
  <2> QED
    BY <2>1 DEF Heads
<1>10. \A i \in 2 .. n : i - 1 \in 1 .. n /\ b(i).prev = ids[i - 1]
  OBVIOUS
<1>11. b(1).prev = t /\ 1 \in 1 .. n
  OBVIOUS
<1>12. \A i \in 1 .. n : i = 1 \/ i \in 2 .. n
  OBVIOUS
<1>13. \A i \in 1 .. n : b(i) \in Row
  <2> SUFFICES ASSUME NEW i \in 1 .. n PROVE b(i) \in Row
    OBVIOUS
  <2>1. b(i).prev \in RowId \cup {NoRow}
    BY <1>2, <1>5, <1>10, <1>11, <1>12
  <2> QED
    BY <1>2, <2>1 DEF Row
<1>14. Chained(ids, t) \in SUBSET Row
  BY <1>1, <1>13
<1>15. \A r, s \in D : r.id = s.id => r = s
  <2> SUFFICES ASSUME NEW r \in D, NEW s \in D, r.id = s.id PROVE r = s
    OBVIOUS
  <2>1. CASE r \in S /\ s \in S
    BY <2>1 DEF IsChain
  <2>2. CASE r \in S /\ s \notin S
    BY <1>1, <1>2, <2>2
  <2>3. CASE r \notin S /\ s \in S
    BY <1>1, <1>2, <2>3
  <2>4. CASE r \notin S /\ s \notin S
    <3>1. PICK i \in 1 .. n, j \in 1 .. n : r = b(i) /\ s = b(j)
      BY <1>1, <2>4
    <3>2. i = j
      BY <1>3, <3>1
    <3> QED
      BY <3>1, <3>2
  <2> QED
    BY <2>1, <2>2, <2>3, <2>4
<1>16. \A r \in S, i \in 1 .. n : r.prev # b(i).prev
  <2> SUFFICES ASSUME NEW r \in S, NEW i \in 1 .. n PROVE r.prev # b(i).prev
    OBVIOUS
  <2>1. CASE i = 1
    BY <1>9, <2>1
  <2>2. CASE i \in 2 .. n
    BY <1>8, <1>10, <2>2
  <2> QED
    BY <1>12, <2>1, <2>2
<1>17. \A i, j \in 1 .. n : b(i).prev = b(j).prev => i = j
  <2> SUFFICES ASSUME NEW i \in 1 .. n, NEW j \in 1 .. n, b(i).prev = b(j).prev
               PROVE  i = j
    OBVIOUS
  <2>1. CASE i \in 2 .. n /\ j \in 2 .. n
    <3>1. ids[i - 1] = ids[j - 1]
      BY <1>10, <2>1
    <3>2. i - 1 = j - 1
      BY <1>3, <1>10, <2>1, <3>1
    <3> QED
      BY <3>2
  <2>2. CASE i = 1 /\ j \in 2 .. n
    BY <1>6, <1>10, <1>11, <2>2
  <2>3. CASE i \in 2 .. n /\ j = 1
    BY <1>6, <1>10, <1>11, <2>3
  <2> QED
    BY <1>12, <2>1, <2>2, <2>3
<1>18. \A r, s \in D : r.prev = s.prev => r = s
  <2> SUFFICES ASSUME NEW r \in D, NEW s \in D, r.prev = s.prev PROVE r = s
    OBVIOUS
  <2>1. CASE r \in S /\ s \in S
    BY <2>1 DEF IsChain
  <2>2. CASE r \in S /\ s \notin S
    BY <1>1, <1>16, <2>2
  <2>3. CASE r \notin S /\ s \in S
    BY <1>1, <1>16, <2>3
  <2>4. CASE r \notin S /\ s \notin S
    <3>1. PICK i \in 1 .. n, j \in 1 .. n : r = b(i) /\ s = b(j)
      BY <1>1, <2>4
    <3>2. i = j
      BY <1>17, <3>1
    <3> QED
      BY <3>1, <3>2
  <2> QED
    BY <2>1, <2>2, <2>3, <2>4
<1>19. \A r \in D : r.prev # NoRow => \E s \in D : s.id = r.prev
  <2> SUFFICES ASSUME NEW r \in D, r.prev # NoRow PROVE \E s \in D : s.id = r.prev
    OBVIOUS
  <2>1. CASE r \in S
    BY <1>7, <2>1
  <2>2. CASE r \notin S
    <3>1. PICK i \in 1 .. n : r = b(i)
      BY <1>1, <2>2
    <3>2. CASE i = 1
      BY <1>4, <3>1, <3>2
    <3>3. CASE i \in 2 .. n
      <4>1. b(i - 1) \in D /\ b(i - 1).id = ids[i - 1]
        BY <1>1, <1>10, <3>3
      <4> QED
        BY <1>10, <3>1, <3>3, <4>1
    <3> QED
      BY <1>12, <3>2, <3>3
  <2> QED
    BY <2>1, <2>2
<1>20. \A r \in S : \E s \in D : s.prev = r.id
  <2> SUFFICES ASSUME NEW r \in S PROVE \E s \in D : s.prev = r.id
    OBVIOUS
  <2>1. CASE r \in Heads(S)
    <3>1. r.id = t
      <4>1. PICK h \in S : Heads(S) = {h}
        BY DEF IsChain
      <4> QED
        BY <2>1, <4>1 DEF IsTail
    <3>2. b(1) \in D
      BY <1>1, <1>11
    <3> QED
      BY <1>11, <3>1, <3>2
  <2>2. CASE r \notin Heads(S)
    BY <2>2 DEF Heads
  <2> QED
    BY <2>1, <2>2
<1>21. \A i \in 1 .. n : i # n => \E s \in D : s.prev = b(i).id
  <2> SUFFICES ASSUME NEW i \in 1 .. n, i # n PROVE \E s \in D : s.prev = b(i).id
    OBVIOUS
  <2>1. i + 1 \in 2 .. n /\ i + 1 \in 1 .. n /\ (i + 1) - 1 = i
    OBVIOUS
  <2>2. b(i + 1) \in D
    BY <1>1, <2>1
  <2>3. b(i + 1).prev = ids[i]
    BY <1>10, <2>1
  <2> QED
    BY <2>2, <2>3
<1>22. \A s \in D : s.prev # ids[n]
  <2> SUFFICES ASSUME NEW s \in D PROVE s.prev # ids[n]
    OBVIOUS
  <2>0. n \in 1 .. n
    OBVIOUS
  <2>1. CASE s \in S
    BY <1>8, <2>0, <2>1
  <2>2. CASE s \notin S
    <3>1. PICK i \in 1 .. n : s = b(i)
      BY <1>1, <2>2
    <3>2. CASE i = 1
      BY <1>6, <1>11, <2>0, <3>1, <3>2
    <3>3. CASE i \in 2 .. n
      <4>1. i - 1 # n /\ i - 1 \in 1 .. n
        BY <3>3
      <4>2. ids[i - 1] # ids[n]
        BY <1>3, <2>0, <4>1
      <4> QED
        BY <1>10, <3>1, <3>3, <4>2
    <3> QED
      BY <1>12, <3>2, <3>3
  <2> QED
    BY <2>1, <2>2
<1>23. b(n) \in D /\ b(n).id = ids[n]
  BY <1>1
<1>24. Heads(D) = {b(n)}
  <2>1. b(n) \in Heads(D)
    BY <1>22, <1>23 DEF Heads
  <2>2. ASSUME NEW r \in Heads(D) PROVE r = b(n)
    <3>1. r \in D /\ \A s \in D : s.prev # r.id
      BY <2>2 DEF Heads
    <3>2. r \notin S
      BY <1>20, <3>1
    <3>3. PICK i \in 1 .. n : r = b(i)
      BY <1>1, <3>1, <3>2
    <3> QED
      BY <1>21, <3>1, <3>3
  <2> QED
    BY <2>1, <2>2
<1>25. IsChain(D)
  BY <1>15, <1>18, <1>19, <1>23, <1>24 DEF IsChain
<1>26. IsTail(ids[n], D)
  BY <1>23, <1>24 DEF IsTail
<1> QED
  BY <1>14, <1>25, <1>26

\* The case of one row, as stamp_audit_values adds it.
LEMMA ChainOne ==
    ASSUME NEW S \in SUBSET Row, IsChain(S),
           NEW t, IsTail(t, S),
           NEW id \in RowId \ Ids(S)
    PROVE  /\ [id |-> id, prev |-> t] \in Row
           /\ IsChain(S \cup {[id |-> id, prev |-> t]})
           /\ IsTail(id, S \cup {[id |-> id, prev |-> t]})
<1> DEFINE ids == [i \in 1 .. 1 |-> id]
<1>1. ids \in [1 .. 1 -> RowId \ Ids(S)] /\ Len(ids) = 1 /\ ids[1] = id
  <2>1. ids \in Seq(RowId) /\ DOMAIN ids = 1 .. 1
    BY SMT
  <2> QED
    BY <2>1
<1>2. Distinct(ids)
  BY DEF Distinct
<1>3. Chained(ids, t) = {[id |-> id, prev |-> t]}
  BY <1>1 DEF Chained
<1> HIDE DEF ids
<1>4. /\ Chained(ids, t) \in SUBSET Row
      /\ IsChain(S \cup Chained(ids, t))
      /\ IsTail(ids[1], S \cup Chained(ids, t))
  <2>1. 1 \in Nat \ {0}
    OBVIOUS
  <2> QED
    BY <1>1, <1>2, <2>1, ChainBatch, Zenon
<1> QED
  BY <1>1, <1>3, <1>4

-----------------------------------------------------------------------------
(* The inductive invariant.                                                *)

\* The empty table is a chain.
LEMMA InitChainInv == Init => ChainInv
<1> SUFFICES ASSUME Init PROVE ChainInv
  OBVIOUS
<1> USE DEF Init
<1>1. TypeOK
  BY DEF TypeOK, NoTail, NoSavepoint
<1>2. IsChain({})
  BY DEF IsChain
<1>3. WriterOwnsRows
  BY DEF WriterOwnsRows, NoTail, NoSavepoint
<1>4. ViewsAreChains
  BY <1>2 DEF ViewsAreChains, AllRows, Visible, NoTail, NoSavepoint
<1> QED
  BY <1>1, <1>2, <1>3, <1>4 DEF ChainInv

\* What a running flush chains or inserts is new and leaves a chain.
LEMMA FlushStep ==
    ASSUME ChainInv, Dialect = "postgresql", NEW c \in Conn,
           ChainPendingRows(c) \/ StampCached(c) \/ ReadTail(c)
    PROVE  ChainInv'
<1> USE DEF ChainInv
<1>1. writer' = c /\ writer \in {NoConn, c}
  <2>1. CASE ChainPendingRows(c)
    BY <2>1 DEF ChainPendingRows, SerializeChainHead
  <2>2. CASE ReadTail(c)
    BY <2>2 DEF ReadTail, SerializeChainHead
  <2>3. CASE StampCached(c)
    BY <2>3 DEF StampCached, WriteLock, WriterOwnsRows
  <2> QED
    BY <2>1, <2>2, <2>3
<1>2. /\ UNCHANGED <<audit_trail, open, savepoint>>
      /\ c \in open /\ c \in inFlush'
      /\ inFlush' = inFlush \cup {c}
  BY DEF ChainPendingRows, StampCached, ReadTail, TypeOK
<1>3. \A d \in Conn \ {c} : /\ pending'[d] = pending[d] /\ flush'[d] = flush[d]
                            /\ tail'[d] = tail[d]
  BY DEF ChainPendingRows, StampCached, ReadTail, TypeOK
<1>4. /\ pending' \in [Conn -> SUBSET Row]
      /\ flush' \in [Conn -> SUBSET Row]
      /\ tail' \in [Conn -> [valid : BOOLEAN, row : RowId \cup {NoRow}]]
      /\ IsChain(AllRows(c)')
      /\ IsTail(tail'[c].row, AllRows(c)')
  <2>0. /\ AllRows(c) \in SUBSET Row /\ IsChain(AllRows(c))
        /\ Ids(AllRows(c)) \subseteq UsedIds
    <3>1. AllRows(c) = audit_trail \cup (pending[c] \cup flush[c])
      BY DEF AllRows, Visible
    <3>2. Ids(audit_trail) \subseteq UsedIds /\ Ids(pending[c] \cup flush[c]) \subseteq UsedIds
      BY DEF UsedIds
    <3>3. Ids(AllRows(c)) \subseteq UsedIds
      BY <3>1, <3>2 DEF Ids
    <3> QED
      BY <3>1, <3>3 DEF TypeOK, ViewsAreChains
  <2>1. CASE ChainPendingRows(c)
    <3>1. flush[c] = {} /\ AllRows(c) = Visible(c)
      BY <2>1 DEF ChainPendingRows, TypeOK, AllRows
    <3>2. PICK ids \in Batches :
            /\ Distinct(ids)
            /\ flush' = [flush EXCEPT ![c] = Chained(ids, LastChainHash(Visible(c)))]
            /\ tail' = [tail EXCEPT ![c] = [valid |-> TRUE, row |-> ids[Len(ids)]]]
      BY <2>1 DEF ChainPendingRows
    <3>3. PICK n \in 1 .. MaxBatch : ids \in [1 .. n -> RowId \ UsedIds]
      BY <3>2 DEF Batches
    <3>4. n \in Nat \ {0} /\ ids \in [1 .. n -> RowId \ Ids(AllRows(c))]
      BY <2>0, <3>3, BatchAssumption
    <3>5. Len(ids) = n
      BY <3>4
    <3>6. IsTail(LastChainHash(Visible(c)), AllRows(c))
      BY <2>0, <3>1, LastChainHashIsTail
    <3>7. /\ Chained(ids, LastChainHash(Visible(c))) \in SUBSET Row
          /\ IsChain(AllRows(c) \cup Chained(ids, LastChainHash(Visible(c))))
          /\ IsTail(ids[n], AllRows(c) \cup Chained(ids, LastChainHash(Visible(c))))
      BY <2>0, <3>2, <3>4, <3>5, <3>6, ChainBatch, Zenon
    <3>8. pending' = pending
      BY <2>1 DEF ChainPendingRows
    <3>9. AllRows(c)' = AllRows(c) \cup Chained(ids, LastChainHash(Visible(c)))
      BY <1>2, <3>1, <3>2, <3>8 DEF AllRows, Visible, TypeOK
    <3>10. n \in 1 .. n /\ ids[n] \in RowId
      BY <3>4
    <3>11. tail'[c].row = ids[n]
      BY <3>2, <3>5 DEF TypeOK
    <3> QED
      BY <3>2, <3>5, <3>7, <3>8, <3>9, <3>10, <3>11 DEF TypeOK
  <2>2. CASE StampCached(c)
    <3>1. IsTail(tail[c].row, AllRows(c))
      BY <2>2 DEF StampCached, ViewsAreChains
    <3>2. PICK id \in RowId \ UsedIds :
            /\ pending' = [pending EXCEPT ![c] = @ \cup {[id |-> id, prev |-> tail[c].row]}]
            /\ tail' = [tail EXCEPT ![c] = [valid |-> TRUE, row |-> id]]
      BY <2>2 DEF StampCached
    <3>3. id \in RowId \ Ids(AllRows(c))
      BY <2>0, <3>2
    <3>4. /\ [id |-> id, prev |-> tail[c].row] \in Row
          /\ IsChain(AllRows(c) \cup {[id |-> id, prev |-> tail[c].row]})
          /\ IsTail(id, AllRows(c) \cup {[id |-> id, prev |-> tail[c].row]})
      BY <2>0, <3>1, <3>3, ChainOne, Zenon
    <3>5. flush' = flush
      BY <2>2 DEF StampCached
    <3>6. AllRows(c)' = AllRows(c) \cup {[id |-> id, prev |-> tail[c].row]}
      BY <1>2, <3>2, <3>5 DEF AllRows, Visible, TypeOK
    <3> QED
      BY <3>2, <3>4, <3>5, <3>6 DEF TypeOK
  <2>3. CASE ReadTail(c)
    <3>1. UNCHANGED <<pending, flush>>
      BY <2>3 DEF ReadTail
    <3>2. tail' = [tail EXCEPT ![c] = [valid |-> TRUE, row |-> LastChainHash(Visible(c))]]
      BY <2>3 DEF ReadTail
    <3>3. LastChainHash(Visible(c)) \in RowId \cup {NoRow}
      BY DEF LastChainHash, Heads, Visible, TypeOK, Row
    <3>4. AllRows(c)' = AllRows(c)
      BY <1>2, <3>1 DEF AllRows, Visible
    <3>5. AllRows(c) = Visible(c)
      BY <2>3 DEF ReadTail, ViewsAreChains, AllRows
    <3>6. IsTail(LastChainHash(Visible(c)), AllRows(c))
      BY <2>0, <3>5, LastChainHashIsTail
    <3> QED
      BY <2>0, <3>1, <3>2, <3>3, <3>4, <3>6 DEF TypeOK
  <2> QED
    BY <2>1, <2>2, <2>3
<1>5. tail'[c].valid
  BY DEF ChainPendingRows, StampCached, ReadTail, TypeOK
<1>6. \A d \in Conn \ {c} : AllRows(d)' = AllRows(d) /\ AllRows(d) = audit_trail
  BY <1>1, <1>2, <1>3, ConnAssumption DEF WriterOwnsRows, AllRows, Visible
<1>7. TypeOK'
  BY <1>1, <1>2, <1>3, <1>4 DEF TypeOK
<1>8. WriterOwnsRows'
  <2> SUFFICES ASSUME NEW d \in Conn
               PROVE  /\ pending'[d] \cup flush'[d] # {} => writer' = d
                      /\ d \in inFlush' /\ tail'[d].valid => writer' = d
                      /\ savepoint'[d].rows # {} => savepoint'[d].held
                      /\ savepoint'[d].held => writer' = d
    BY DEF WriterOwnsRows
  <2>1. CASE d = c
    BY <1>1, <1>2, <2>1 DEF WriterOwnsRows
  <2>2. CASE d # c
    BY <1>1, <1>2, <1>3, <2>2, ConnAssumption DEF WriterOwnsRows
  <2> QED
    BY <2>1, <2>2
<1>9. ViewsAreChains'
  <2> SUFFICES ASSUME NEW d \in Conn
               PROVE  /\ IsChain(AllRows(d)')
                      /\ IsChain(audit_trail' \cup savepoint'[d].rows)
                      /\ flush'[d] # {} => tail'[d].valid
                      /\ d \in inFlush' /\ tail'[d].valid => IsTail(tail'[d].row, AllRows(d)')
    BY DEF ViewsAreChains
  <2>1. IsChain(audit_trail' \cup savepoint'[d].rows)
    BY <1>2 DEF ViewsAreChains
  <2>2. CASE d = c
    BY <1>4, <1>5, <2>1, <2>2
  <2>3. CASE d # c
    BY <1>2, <1>3, <1>6, <2>1, <2>3 DEF ViewsAreChains
  <2> QED
    BY <2>2, <2>3
<1> QED
  BY <1>2, <1>7, <1>8, <1>9

\* Leaving a flush, setting or dropping a savepoint and starting a flush or a
\* transaction do not change the rows anybody sees.
LEMMA QuietStep ==
    ASSUME ChainInv, Dialect = "postgresql", NEW c \in Conn,
           \/ Begin(c) \/ FlushWithoutRows(c) \/ EndFlush(c)
           \/ Savepoint(c) \/ ReleaseSavepoint(c)
    PROVE  ChainInv'
<1> USE DEF ChainInv
<1>1. UNCHANGED <<audit_trail, writer>>
  BY DEF Begin, FlushWithoutRows, EndFlush, WriteLock, Savepoint, ReleaseSavepoint
<1>2. \A d \in Conn \ {c} :
        /\ pending'[d] = pending[d] /\ flush'[d] = flush[d]
        /\ tail'[d] = tail[d] /\ savepoint'[d] = savepoint[d]
        /\ d \in inFlush' <=> d \in inFlush
  BY DEF Begin, FlushWithoutRows, EndFlush, Savepoint, ReleaseSavepoint, TypeOK
<1>3. /\ pending'[c] \cup flush'[c] = pending[c] \cup flush[c]
      /\ flush'[c] # {} => flush'[c] = flush[c]
      /\ c \in inFlush' => \/ ~tail'[c].valid /\ flush'[c] = {}
                           \/ UNCHANGED <<inFlush, flush, tail>>
      /\ c \notin inFlush' => flush'[c] = {}
      /\ savepoint'[c].rows \in {{}, savepoint[c].rows, pending[c]}
  BY DEF Begin, FlushWithoutRows, EndFlush, Savepoint, ReleaseSavepoint, TypeOK, NoTail, NoSavepoint
<1>4. TypeOK'
  <2>1. CASE Begin(c)
    BY <1>1, <2>1 DEF Begin, TypeOK
  <2>2. CASE FlushWithoutRows(c)
    BY <1>1, <2>2 DEF FlushWithoutRows, TypeOK, NoTail
  <2>3. CASE EndFlush(c)
    BY <1>1, <2>3 DEF EndFlush, TypeOK
  <2>4. CASE Savepoint(c)
    BY <1>1, <2>4 DEF Savepoint, TypeOK
  <2>5. CASE ReleaseSavepoint(c)
    BY <1>1, <2>5 DEF ReleaseSavepoint, TypeOK, NoSavepoint
  <2> QED
    BY <2>1, <2>2, <2>3, <2>4, <2>5
<1>5. /\ savepoint'[c].rows # {} => savepoint'[c].held
      /\ savepoint'[c].held => writer = c
  <2>1. CASE Savepoint(c)
    BY <2>1 DEF Savepoint, TypeOK, WriterOwnsRows
  <2>2. CASE ReleaseSavepoint(c)
    BY <2>2 DEF ReleaseSavepoint, TypeOK, NoSavepoint
  <2>3. CASE UNCHANGED savepoint
    BY <2>3 DEF WriterOwnsRows
  <2> QED
    BY <2>1, <2>2, <2>3 DEF Begin, FlushWithoutRows, EndFlush
<1>6. WriterOwnsRows'
  BY <1>1, <1>2, <1>3, <1>5 DEF WriterOwnsRows
<1>7. \A d \in Conn : AllRows(d)' = AllRows(d)
  BY <1>1, <1>2, <1>3 DEF AllRows, Visible
<1>8. \A d \in Conn : IsChain(audit_trail' \cup savepoint'[d].rows)
  <2> SUFFICES ASSUME NEW d \in Conn PROVE IsChain(audit_trail \cup savepoint'[d].rows)
    BY <1>1
  <2>1. IsChain(audit_trail \cup savepoint[d].rows) /\ IsChain(audit_trail)
    BY DEF ViewsAreChains
  <2>2. CASE d = c /\ savepoint'[c].rows = pending[c]
    <3>1. flush[c] = {} \/ savepoint'[c].rows \in {{}, savepoint[c].rows}
      BY DEF Begin, FlushWithoutRows, EndFlush, Savepoint, ReleaseSavepoint, TypeOK, NoSavepoint
    <3>2. CASE flush[c] = {}
      BY <2>2, <3>2 DEF ViewsAreChains, AllRows, Visible
    <3>3. CASE savepoint'[c].rows \in {{}, savepoint[c].rows}
      <4>1. audit_trail \cup {} = audit_trail
        OBVIOUS
      <4> QED
        BY <2>1, <2>2, <3>3, <4>1
    <3> QED
      BY <3>1, <3>2, <3>3
  <2>3. CASE d = c /\ savepoint'[c].rows = {}
    BY <2>1, <2>3
  <2>4. CASE d # c \/ savepoint'[c].rows = savepoint[c].rows
    BY <1>2, <2>1, <2>4
  <2> QED
    BY <1>3, <2>2, <2>3, <2>4
<1>9. ViewsAreChains'
  <2> SUFFICES ASSUME NEW d \in Conn
               PROVE  /\ flush'[d] # {} => tail'[d].valid
                      /\ d \in inFlush' /\ tail'[d].valid => IsTail(tail'[d].row, AllRows(d)')
    BY <1>7, <1>8 DEF ViewsAreChains
  <2>1. CASE d # c
    BY <1>2, <1>7, <2>1 DEF ViewsAreChains
  <2>2. CASE d = c
    BY <1>3, <1>7, <2>2 DEF ViewsAreChains
  <2> QED
    BY <2>1, <2>2
<1> QED
  BY <1>1, <1>4, <1>6, <1>9

\* The end of a transaction keeps the types, whatever it committed.
LEMMA EndTransactionTypes ==
    ASSUME TypeOK, NEW c \in open, audit_trail' \in SUBSET Row, EndTransaction(c)
    PROVE  TypeOK'
<1>1. /\ pending' \in [Conn -> SUBSET Row]
      /\ flush' \in [Conn -> SUBSET Row]
  BY DEF EndTransaction, TypeOK
<1>2. /\ inFlush' \in SUBSET open'
      /\ open' \in SUBSET Conn
      /\ writer' \in open' \cup {NoConn}
  BY DEF EndTransaction, TypeOK
<1>3. tail' \in [Conn -> [valid : BOOLEAN, row : RowId \cup {NoRow}]]
  BY DEF EndTransaction, TypeOK
<1>4. savepoint' \in [Conn -> [set : BOOLEAN, rows : SUBSET Row, held : BOOLEAN]]
  BY DEF EndTransaction, TypeOK, NoSavepoint
<1>5. /\ \A d \in Conn \ open' : pending'[d] = {} /\ savepoint'[d] = NoSavepoint
      /\ \A d \in Conn \ inFlush' : flush'[d] = {}
  BY DEF EndTransaction, TypeOK
<1> QED
  BY <1>1, <1>2, <1>3, <1>4, <1>5 DEF TypeOK

\* A rollback returns to a chain: the one of the savepoint, or the committed one.
LEMMA RollbackStep ==
    ASSUME ChainInv, Dialect = "postgresql", NEW c \in Conn,
           RollbackToSavepoint(c) \/ Rollback(c)
    PROVE  ChainInv'
<1> USE DEF ChainInv
<1>1. /\ UNCHANGED audit_trail
      /\ flush'[c] = {} /\ c \notin inFlush' /\ savepoint'[c] = NoSavepoint
      /\ pending'[c] = savepoint[c].rows \/ pending'[c] = {}
  BY DEF RollbackToSavepoint, Rollback, EndTransaction, TypeOK
<1>2. \A d \in Conn \ {c} :
        /\ pending'[d] = pending[d] /\ flush'[d] = flush[d]
        /\ tail'[d] = tail[d] /\ savepoint'[d] = savepoint[d]
        /\ d \in inFlush' <=> d \in inFlush
  BY DEF RollbackToSavepoint, Rollback, EndTransaction, TypeOK
<1>3. writer' = writer \/ (writer = c /\ writer' = NoConn /\ pending'[c] = {})
  BY DEF RollbackToSavepoint, Rollback, EndTransaction, TypeOK, WriterOwnsRows
<1>4. TypeOK'
  <2>1. CASE RollbackToSavepoint(c)
    <3>1. c \in open
      BY <2>1 DEF RollbackToSavepoint, TypeOK, NoSavepoint
    <3>2. savepoint[c].rows \in SUBSET Row
      BY DEF TypeOK
    <3>3. /\ pending' \in [Conn -> SUBSET Row]
          /\ flush' \in [Conn -> SUBSET Row]
          /\ inFlush' \in SUBSET open'
          /\ savepoint' \in [Conn -> [set : BOOLEAN, rows : SUBSET Row, held : BOOLEAN]]
          /\ writer' \in open' \cup {NoConn}
      BY <2>1, <3>2 DEF RollbackToSavepoint, TypeOK, NoSavepoint
    <3>4. /\ \A d \in Conn \ open' : pending'[d] = {} /\ savepoint'[d] = NoSavepoint
          /\ \A d \in Conn \ inFlush' : flush'[d] = {}
      BY <2>1, <3>1 DEF RollbackToSavepoint, TypeOK
    <3> QED
      BY <2>1, <3>3, <3>4 DEF RollbackToSavepoint, TypeOK
  <2>2. CASE Rollback(c)
    BY <2>2, EndTransactionTypes DEF Rollback, TypeOK
  <2> QED
    BY <2>1, <2>2
<1>5. WriterOwnsRows'
  BY <1>1, <1>2, <1>3, ConnAssumption DEF WriterOwnsRows, NoSavepoint
<1>6. /\ IsChain(AllRows(c)')
      /\ IsChain(audit_trail' \cup savepoint'[c].rows)
  <2>1. /\ AllRows(c)' = audit_trail \cup pending'[c]
        /\ audit_trail' \cup savepoint'[c].rows = audit_trail
    BY <1>1 DEF AllRows, Visible, NoSavepoint
  <2>2. audit_trail \cup {} = audit_trail
    OBVIOUS
  <2> QED
    BY <1>1, <2>1, <2>2 DEF ViewsAreChains
<1>7. \A d \in Conn \ {c} : AllRows(d)' = AllRows(d)
  BY <1>1, <1>2 DEF AllRows, Visible
<1>8. ViewsAreChains'
  BY <1>1, <1>2, <1>6, <1>7 DEF ViewsAreChains
<1> QED
  BY <1>1, <1>4, <1>5, <1>8

\* A commit publishes the chain that the lock holder saw.
LEMMA CommitStep ==
    ASSUME ChainInv, Dialect = "postgresql", NEW c \in Conn, Commit(c)
    PROVE  ChainInv'
<1> USE DEF ChainInv, Commit, EndTransaction
<1>1. /\ pending'[c] = {} /\ flush'[c] = {} /\ c \notin inFlush'
      /\ savepoint'[c] = NoSavepoint
  BY DEF TypeOK
<1>2. \A d \in Conn \ {c} :
        /\ pending'[d] = pending[d] /\ flush'[d] = flush[d]
        /\ tail'[d] = tail[d] /\ savepoint'[d] = savepoint[d]
        /\ d \in inFlush' <=> d \in inFlush
  BY DEF TypeOK
<1>3. audit_trail' = AllRows(c)
  BY DEF AllRows, Visible, TypeOK
<1>4. TypeOK'
  <2>1. audit_trail' \in SUBSET Row
    BY DEF TypeOK
  <2> QED
    BY <2>1, EndTransactionTypes DEF TypeOK
<1>5. WriterOwnsRows'
  BY <1>1, <1>2, ConnAssumption DEF WriterOwnsRows, NoSavepoint
<1>6. \A d \in Conn \ {c} : audit_trail' # audit_trail =>
        /\ pending[d] = {} /\ flush[d] = {} /\ savepoint[d].rows = {}
        /\ ~(d \in inFlush /\ tail[d].valid)
  BY DEF WriterOwnsRows
<1>7. IsChain(audit_trail')
  BY <1>3 DEF ViewsAreChains
<1>8. \A d \in Conn : /\ IsChain(AllRows(d)')
                      /\ IsChain(audit_trail' \cup savepoint'[d].rows)
  <2> SUFFICES ASSUME NEW d \in Conn
               PROVE  IsChain(AllRows(d)') /\ IsChain(audit_trail' \cup savepoint'[d].rows)
    OBVIOUS
  <2>1. CASE d = c
    BY <1>1, <1>7, <2>1 DEF AllRows, Visible, NoSavepoint
  <2>2. CASE d # c /\ audit_trail' = audit_trail
    BY <1>2, <2>2 DEF ViewsAreChains, AllRows, Visible
  <2>3. CASE d # c /\ audit_trail' # audit_trail
    BY <1>2, <1>6, <1>7, <2>3 DEF AllRows, Visible
  <2> QED
    BY <2>1, <2>2, <2>3
<1>9. ViewsAreChains'
  <2> SUFFICES ASSUME NEW d \in Conn
               PROVE  /\ flush'[d] # {} => tail'[d].valid
                      /\ d \in inFlush' /\ tail'[d].valid => IsTail(tail'[d].row, AllRows(d)')
    BY <1>8 DEF ViewsAreChains
  <2>1. CASE d = c
    BY <1>1, <2>1
  <2>2. CASE d # c /\ audit_trail' = audit_trail
    BY <1>2, <2>2 DEF ViewsAreChains, AllRows, Visible
  <2>3. CASE d # c /\ audit_trail' # audit_trail
    BY <1>2, <1>6, <2>3
  <2> QED
    BY <2>1, <2>2, <2>3
<1> QED
  BY <1>4, <1>5, <1>7, <1>9

\* ChainInv holds throughout on PostgreSQL.
THEOREM ChainInvariant ==
    ASSUME Dialect = "postgresql"
    PROVE  Spec => []ChainInv
<1>1. Init => ChainInv
  BY InitChainInv
<1>2. ChainInv /\ [Next]_vars => ChainInv'
  <2> SUFFICES ASSUME ChainInv, [Next]_vars PROVE ChainInv'
    OBVIOUS
  <2>1. ASSUME NEW c \in Conn, ChainPendingRows(c) \/ StampCached(c) \/ ReadTail(c)
        PROVE  ChainInv'
    BY <2>1, FlushStep
  <2>2. ASSUME NEW c \in Conn, \/ Begin(c) \/ FlushWithoutRows(c) \/ EndFlush(c)
                               \/ Savepoint(c) \/ ReleaseSavepoint(c)
        PROVE  ChainInv'
    BY <2>2, QuietStep
  <2>3. ASSUME NEW c \in Conn, RollbackToSavepoint(c) \/ Rollback(c)
        PROVE  ChainInv'
    BY <2>3, RollbackStep
  <2>4. ASSUME NEW c \in Conn, Commit(c)
        PROVE  ChainInv'
    BY <2>4, CommitStep
  <2>5. CASE UNCHANGED vars
    <3>1. TypeOK' /\ IsChain(audit_trail)' /\ WriterOwnsRows'
      BY <2>5 DEF vars, ChainInv, TypeOK, WriterOwnsRows
    <3>2. ViewsAreChains'
      BY <2>5 DEF vars, ChainInv, ViewsAreChains, AllRows, Visible
    <3> QED
      BY <3>1, <3>2 DEF ChainInv
  <2> QED
    BY <2>1, <2>2, <2>3, <2>4, <2>5 DEF Next
<1> QED
  BY <1>1, <1>2, PTL DEF Spec

\* Types and ownership of uncommitted rows, for every number of connections.
THEOREM TypeCorrect ==
    ASSUME Dialect = "postgresql"
    PROVE  Spec => []TypeOK
<1>1. ChainInv => TypeOK
  BY DEF ChainInv
<1> QED
  BY <1>1, ChainInvariant, PTL

\* Concurrent writers, savepoints and rollbacks never fork the chain.
THEOREM NeverForks ==
    ASSUME Dialect = "postgresql"
    PROVE  Spec => []NoFork
<1>1. ChainInv => NoFork
  BY DEF ChainInv, IsChain, NoFork
<1> QED
  BY <1>1, ChainInvariant, PTL

\* There is always exactly one row to chain the next one to.
THEOREM AlwaysOneHead ==
    ASSUME Dialect = "postgresql"
    PROVE  Spec => []SingleHead
<1>1. ChainInv => SingleHead
  BY DEF ChainInv, IsChain, SingleHead
<1> QED
  BY <1>1, ChainInvariant, PTL

-----------------------------------------------------------------------------
(* The order that a chain spells                                           *)

\* The i-th row of the chain with these identifiers.
At(ids, i) == [id |-> ids[i], prev |-> IF i = 1 THEN NoRow ELSE ids[i - 1]]

\* The rows are the chain of these identifiers, each once, in this order.
Spells(ids, rows) == ids \in Seq(RowId) /\ Distinct(ids) /\ rows = Chained(ids, NoRow)

\* The rows of a spelled chain are those of its identifiers, by position.
LEMMA SpelledRows ==
    ASSUME NEW a, NEW S, Spells(a, S)
    PROVE  /\ Len(a) \in Nat /\ DOMAIN a = 1 .. Len(a)
           /\ \A i \in 1 .. Len(a) : a[i] \in RowId /\ a[i] # NoRow /\ At(a, i) \in S
           /\ \A r \in S : \E i \in 1 .. Len(a) : r = At(a, i)
           /\ \A i, j \in 1 .. Len(a) : a[i] = a[j] => i = j
<1>1. Len(a) \in Nat /\ DOMAIN a = 1 .. Len(a) /\ \A i \in 1 .. Len(a) : a[i] \in RowId
  BY LenProperties, ElementOfSeq DEF Spells
<1>2. S = {At(a, i) : i \in 1 .. Len(a)}
  BY DEF Spells, Chained, At
<1> QED
  BY <1>1, <1>2, RowAssumption DEF Spells, Distinct

\* What the i-th row of a chain says.
LEMMA RowOf ==
    \A a, i : /\ At(a, i).id = a[i]
              /\ i = 1 => At(a, i).prev = NoRow
              /\ i # 1 => At(a, i).prev = a[i - 1]
  BY DEF At

\* Rows that continue a row of the chain, or start it.
LEMMA SpelledChildren ==
    ASSUME NEW a, NEW S, Spells(a, S)
    PROVE  /\ Children(S, NoRow) = IF Len(a) = 0 THEN {} ELSE {At(a, 1)}
           /\ \A i \in 1 .. Len(a) :
                 Children(S, a[i]) = IF i = Len(a) THEN {} ELSE {At(a, i + 1)}
<1>1. \A i \in 1 .. Len(a) : a[i] # NoRow /\ (i = 1 \/ i - 1 \in 1 .. Len(a))
  BY SpelledRows
<1>2. Children(S, NoRow) = IF Len(a) = 0 THEN {} ELSE {At(a, 1)}
  <2>1. ASSUME NEW r \in S, r.prev = NoRow PROVE Len(a) # 0 /\ r = At(a, 1)
    <3>1. PICK i \in 1 .. Len(a) : r = At(a, i)
      BY SpelledRows
    <3>2. i = 1
      BY <1>1, <2>1, <3>1, RowOf
    <3> QED
      BY <3>1, <3>2
  <2>2. Len(a) # 0 => At(a, 1) \in S /\ At(a, 1).prev = NoRow
    BY SpelledRows, RowOf
  <2> QED
    BY <2>1, <2>2 DEF Children
<1>3. ASSUME NEW i \in 1 .. Len(a)
      PROVE  Children(S, a[i]) = IF i = Len(a) THEN {} ELSE {At(a, i + 1)}
  <2>1. ASSUME NEW r \in S, r.prev = a[i] PROVE i # Len(a) /\ r = At(a, i + 1)
    <3>1. PICK j \in 1 .. Len(a) : r = At(a, j)
      BY SpelledRows
    <3>2. j # 1 /\ a[j - 1] = a[i] /\ j - 1 \in 1 .. Len(a)
      BY <1>1, <2>1, <3>1, RowOf
    <3>3. j - 1 = i
      BY <3>2, SpelledRows
    <3>4. j = i + 1 /\ i # Len(a)
      BY <3>3
    <3> QED
      BY <3>1, <3>4
  <2>2. i # Len(a) => At(a, i + 1) \in S /\ At(a, i + 1).prev = a[i]
    <3>1. i # Len(a) => i + 1 \in 1 .. Len(a) /\ i + 1 # 1 /\ (i + 1) - 1 = i
      BY SpelledRows
    <3> QED
      BY <3>1, SpelledRows, RowOf
  <2> QED
    BY <2>1, <2>2 DEF Children
<1> QED
  BY <1>2, <1>3

\* The end of a chain is its last row.
LEMMA TailIsLast ==
    ASSUME NEW a, NEW S, Spells(a, S), NEW t, IsTail(t, S)
    PROVE  t = IF Len(a) = 0 THEN NoRow ELSE a[Len(a)]
<1>0. Len(a) \in Nat
  BY SpelledRows
<1>1. CASE Len(a) = 0
  <2>1. S = {}
    BY <1>1, SpelledRows
  <2> QED
    BY <1>1, <2>1 DEF IsTail
<1>2. CASE Len(a) # 0
  <2>1. S # {}
    BY <1>0, <1>2, SpelledRows
  <2>2. PICK h \in S : h.id = t /\ \A r \in S : r.prev # h.id
    BY <2>1 DEF IsTail, Heads
  <2>3. PICK i \in 1 .. Len(a) : h = At(a, i)
    BY SpelledRows
  <2>4. Children(S, a[i]) = {}
    BY <2>2, <2>3, RowOf DEF Children
  <2>5. i = Len(a)
    <3> SUFFICES ASSUME i # Len(a) PROVE FALSE
      OBVIOUS
    <3>1. Children(S, a[i]) = {At(a, i + 1)}
      BY SpelledChildren
    <3> QED
      BY <2>4, <3>1
  <2> QED
    BY <1>2, <2>2, <2>3, <2>5, RowOf
<1> QED
  BY <1>1, <1>2

\* A batch chained to the end is spelled after what was there.
LEMMA SpelledBatch ==
    ASSUME NEW a, NEW S, Spells(a, S), NEW t, IsTail(t, S), NEW n \in Nat \ {0},
           NEW ids \in [1 .. n -> RowId \ Ids(S)], Distinct(ids), Len(ids) = n
    PROVE  Spells(a \o ids, S \cup Chained(ids, t))
<1>1. /\ Len(a) \in Nat /\ DOMAIN a = 1 .. Len(a) /\ a \in Seq(RowId)
      /\ \A i \in 1 .. Len(a) : a[i] \in RowId /\ a[i] \in Ids(S)
      /\ \A i, j \in 1 .. Len(a) : a[i] = a[j] => i = j
  <2>1. \A i \in 1 .. Len(a) : a[i] \in Ids(S)
    BY SpelledRows, RowOf DEF Ids
  <2> QED
    BY <2>1, SpelledRows DEF Spells
<1>2. ids \in Seq(RowId) /\ \A i \in 1 .. n : ids[i] \in RowId \ Ids(S)
  OBVIOUS
<1>3. PICK b : b = a \o ids
  OBVIOUS
<1>4. /\ b \in Seq(RowId) /\ Len(b) = Len(a) + n /\ DOMAIN b = 1 .. Len(a) + n
      /\ \A i \in 1 .. Len(a) : b[i] = a[i]
      /\ \A i \in 1 .. n : b[Len(a) + i] = ids[i]
  <2>1. /\ a \o ids \in Seq(RowId) /\ Len(a \o ids) = Len(a) + n
        /\ \A i \in 1 .. Len(a) + n :
              (a \o ids)[i] = IF i <= Len(a) THEN a[i] ELSE ids[i - Len(a)]
    <3>1. /\ a \o ids \in Seq(RowId) /\ Len(a \o ids) = Len(a) + Len(ids)
          /\ \A i \in 1 .. Len(a) + Len(ids) :
                (a \o ids)[i] = IF i <= Len(a) THEN a[i] ELSE ids[i - Len(a)]
      <4>1. a \in Seq(RowId) /\ ids \in Seq(RowId)
        BY <1>1, <1>2
      <4> QED
        BY <4>1, ConcatProperties
    <3>2. Len(ids) = n
      OBVIOUS
    <3> QED
      BY <3>1, <3>2, Zenon
  <2>2. b \in Seq(RowId) /\ Len(b) = Len(a) + n /\ DOMAIN b = 1 .. Len(a) + n
    BY <1>3, <2>1, LenProperties
  <2>3. \A i \in 1 .. Len(a) + n : b[i] = IF i <= Len(a) THEN a[i] ELSE ids[i - Len(a)]
    BY <1>3, <2>1
  <2>4. \A i \in 1 .. Len(a) : b[i] = a[i]
    BY <1>1, <2>3
  <2>5. \A i \in 1 .. n : b[Len(a) + i] = ids[i]
    BY <1>1, <2>3
  <2> QED
    BY <2>2, <2>4, <2>5
<1>5. \A i \in 1 .. Len(a) + n :
          i \in 1 .. Len(a) \/ \E j \in 1 .. n : i = Len(a) + j
  <2> SUFFICES ASSUME NEW i \in 1 .. Len(a) + n, i \notin 1 .. Len(a)
               PROVE  \E j \in 1 .. n : i = Len(a) + j
    OBVIOUS
  <2>1. i - Len(a) \in 1 .. n /\ i = Len(a) + (i - Len(a))
    BY <1>1
  <2> QED
    BY <2>1
<1>6. Distinct(b)
  <2>1. ASSUME NEW i \in 1 .. Len(a) + n, NEW j \in 1 .. Len(a) + n, b[i] = b[j] PROVE i = j
    <3>1. CASE i \in 1 .. Len(a) /\ j \in 1 .. Len(a)
      BY <1>1, <1>4, <2>1, <3>1
    <3>2. CASE i \in 1 .. Len(a) /\ j \notin 1 .. Len(a)
      <4>1. PICK l \in 1 .. n : j = Len(a) + l
        BY <1>5, <3>2
      <4> QED
        BY <1>1, <1>2, <1>4, <2>1, <3>2, <4>1
    <3>3. CASE i \notin 1 .. Len(a) /\ j \in 1 .. Len(a)
      <4>1. PICK k \in 1 .. n : i = Len(a) + k
        BY <1>5, <3>3
      <4> QED
        BY <1>1, <1>2, <1>4, <2>1, <3>3, <4>1
    <3>4. CASE i \notin 1 .. Len(a) /\ j \notin 1 .. Len(a)
      <4>0. PICK k \in 1 .. n : i = Len(a) + k
        BY <1>5, <3>4
      <4>1. PICK l \in 1 .. n : j = Len(a) + l
        BY <1>5, <3>4
      <4>2. ids[k] = ids[l]
        BY <1>4, <2>1, <4>0, <4>1
      <4>3. k = l
        BY <1>2, <4>2 DEF Distinct
      <4> QED
        BY <4>0, <4>1, <4>3
    <3> QED
      BY <3>1, <3>2, <3>3, <3>4
  <2> QED
    BY <1>4, <2>1 DEF Distinct
<1> DEFINE new(i) == [id |-> ids[i], prev |-> IF i = 1 THEN t ELSE ids[i - 1]]
<1>7. \A i \in 1 .. Len(a) : At(b, i) = At(a, i)
  <2>1. \A i \in 1 .. Len(a) : i # 1 => i - 1 \in 1 .. Len(a)
    BY <1>1
  <2> QED
    BY <1>4, <2>1 DEF At
<1>8. \A i \in 1 .. n : At(b, Len(a) + i) = new(i)
  <2> SUFFICES ASSUME NEW i \in 1 .. n PROVE At(b, Len(a) + i) = new(i)
    OBVIOUS
  <2>0. b[Len(a) + i] = ids[i]
    BY <1>4
  <2>1. CASE i = 1
    <3>1. CASE Len(a) = 0
      BY <2>0, <2>1, <3>1, TailIsLast DEF At
    <3>2. CASE Len(a) # 0
      <4>1. Len(a) + i # 1 /\ (Len(a) + i) - 1 = Len(a) /\ Len(a) \in 1 .. Len(a)
        BY <1>1, <2>1, <3>2
      <4>2. b[Len(a)] = t
        BY <1>4, <3>2, <4>1, TailIsLast
      <4> QED
        BY <2>0, <2>1, <4>1, <4>2 DEF At
    <3> QED
      BY <3>1, <3>2
  <2>2. CASE i # 1
    <3>1. /\ Len(a) + i # 1 /\ (Len(a) + i) - 1 = Len(a) + (i - 1)
          /\ i - 1 \in 1 .. n
      BY <1>1, <2>2
    <3>2. b[Len(a) + (i - 1)] = ids[i - 1]
      BY <1>4, <3>1
    <3> QED
      BY <2>0, <2>2, <3>1, <3>2 DEF At
  <2> QED
    BY <2>1, <2>2
<1>9. S \cup Chained(ids, t) = Chained(b, NoRow)
  <2>1. S = {At(a, i) : i \in 1 .. Len(a)}
    BY DEF Spells, Chained, At
  <2>2. Chained(ids, t) = {new(i) : i \in 1 .. n}
    BY DEF Chained
  <2>3. Chained(b, NoRow) = {At(b, i) : i \in 1 .. Len(a) + n}
    BY <1>4 DEF Chained, At
  <2>4. \A i \in 1 .. Len(a) : i \in 1 .. Len(a) + n
    BY <1>1
  <2>5. \A i \in 1 .. n : Len(a) + i \in 1 .. Len(a) + n
    BY <1>1
  <2> HIDE DEF new
  <2>6. \A r \in Chained(b, NoRow) : r \in S \/ r \in Chained(ids, t)
    <3> SUFFICES ASSUME NEW i \in 1 .. Len(a) + n
                 PROVE  At(b, i) \in S \/ At(b, i) \in Chained(ids, t)
      BY <2>3
    <3>1. CASE i \in 1 .. Len(a)
      BY <1>7, <2>1, <3>1
    <3>2. CASE \E j \in 1 .. n : i = Len(a) + j
      BY <1>8, <2>2, <3>2
    <3> QED
      BY <1>5, <3>1, <3>2
  <2>7. \A r \in S : r \in Chained(b, NoRow)
    BY <1>7, <2>1, <2>3, <2>4
  <2>8. \A r \in Chained(ids, t) : r \in Chained(b, NoRow)
    <3> SUFFICES ASSUME NEW i \in 1 .. n PROVE new(i) \in Chained(b, NoRow)
      BY <2>2
    <3> QED
      BY <1>8, <2>3, <2>5
  <2> QED
    BY <2>6, <2>7, <2>8
<1> QED
  BY <1>3, <1>4, <1>6, <1>9 DEF Spells

\* A chain that contains another one begins with it.
LEMMA SpelledPrefix ==
    ASSUME NEW a, NEW S, Spells(a, S), NEW b, NEW T, Spells(b, T), S \subseteq T
    PROVE  Len(a) <= Len(b) /\ \A i \in 1 .. Len(a) : a[i] = b[i]
<1> DEFINE N == {n \in Nat : n <= Len(a) => n <= Len(b) /\ \A i \in 1 .. n : a[i] = b[i]}
<1>0. Len(a) \in Nat /\ Len(b) \in Nat
  BY SpelledRows
<1>1. 0 \in N
  BY <1>0
<1>2. ASSUME NEW n \in Nat, n \in N PROVE n + 1 \in N
  <2> SUFFICES ASSUME n + 1 <= Len(a)
               PROVE  n + 1 <= Len(b) /\ \A i \in 1 .. n + 1 : a[i] = b[i]
    BY <1>2
  <2>1. n <= Len(b) /\ \A i \in 1 .. n : a[i] = b[i]
    BY <1>0, <1>2
  <2>2. n + 1 \in 1 .. Len(a)
    BY <1>0
  <2>3. At(a, n + 1) \in T
    BY <2>2, SpelledRows
  <2>4. PICK j \in 1 .. Len(b) : At(a, n + 1) = At(b, j)
    BY <2>3, SpelledRows
  <2>5. a[n + 1] = b[j]
    BY <2>4, RowOf
  <2>6. j = n + 1
    <3>1. CASE n = 0
      <4>1. At(b, j).prev = NoRow
        BY <2>4, <3>1, RowOf
      <4>2. j # 1 => j - 1 \in 1 .. Len(b)
        BY <1>0
      <4>3. j = 1
        <5> SUFFICES ASSUME j # 1 PROVE FALSE
          OBVIOUS
        <5>1. At(b, j).prev = b[j - 1]
          BY RowOf
        <5> QED
          BY <4>1, <4>2, <5>1, SpelledRows
      <4> QED
        BY <3>1, <4>3
    <3>2. CASE n # 0
      <4>1. n + 1 # 1 /\ (n + 1) - 1 = n /\ n \in 1 .. n /\ n \in 1 .. Len(b) /\ n \in 1 .. Len(a)
        BY <1>0, <2>1, <2>2, <3>2
      <4>2. At(b, j).prev = b[n]
        BY <2>1, <2>4, <4>1, RowOf
      <4>3. j # 1
        BY <4>1, <4>2, RowOf, SpelledRows
      <4>4. b[j - 1] = b[n] /\ j - 1 \in 1 .. Len(b)
        BY <1>0, <4>2, <4>3, RowOf
      <4>5. j - 1 = n
        BY <4>1, <4>4, SpelledRows
      <4> QED
        BY <4>5
    <3> QED
      BY <3>1, <3>2
  <2>7. \A i \in 1 .. n + 1 : i \in 1 .. n \/ i = n + 1
    OBVIOUS
  <2> QED
    BY <1>0, <2>1, <2>5, <2>6, <2>7
<1> HIDE DEF N
<1>3. Nat \subseteq N
  BY <1>1, <1>2, SetOfNaturals
<1> QED
  BY <1>0, <1>3 DEF N

\* A set listed without repetition by a function on 1 .. m has m elements.
LEMMA CountedBy ==
    ASSUME NEW m \in Nat, NEW T, NEW f, f = [i \in 1 .. m |-> f[i]],
           \A i \in 1 .. m : f[i] \in T,
           \A t \in T : \E i \in 1 .. m : f[i] = t,
           \A i, j \in 1 .. m : f[i] = f[j] => i = j
    PROVE  IsFiniteSet(T) /\ Cardinality(T) = m
<1>1. f \in [1 .. m -> T]
  OBVIOUS
<1>2. f \in Bijection(1 .. m, T)
  BY <1>1, Fun_IsBij
<1>3. IsFiniteSet(1 .. m) /\ Cardinality(1 .. m) = m
  BY FS_Interval
<1>4. ExistsBijection(1 .. m, T)
  BY <1>2 DEF ExistsBijection
<1> QED
  BY <1>3, <1>4, FS_Bijection

\* The first rows of a chain.
First(a, m) == {At(a, i) : i \in 1 .. m}

\* The first m rows of a chain are m rows.
LEMMA FirstCounted ==
    ASSUME NEW a, NEW S, Spells(a, S), NEW m \in 0 .. Len(a)
    PROVE  IsFiniteSet(First(a, m)) /\ Cardinality(First(a, m)) = m
<1>1. PICK f : f = [i \in 1 .. m |-> At(a, i)]
  OBVIOUS
<1>2. m \in Nat /\ \A i \in 1 .. m : i \in 1 .. Len(a) /\ f[i] = At(a, i)
  BY <1>1, SpelledRows
<1>3. \A i, j \in 1 .. m : f[i] = f[j] => i = j
  BY <1>2, RowOf, SpelledRows
<1>4. /\ \A i \in 1 .. m : f[i] \in First(a, m)
      /\ \A t \in First(a, m) : \E i \in 1 .. m : f[i] = t
  BY <1>2 DEF First
<1>5. f = [i \in 1 .. m |-> f[i]]
  BY <1>1
<1> QED
  BY <1>2, <1>3, <1>4, <1>5, CountedBy

\* A chain is its own beginning.
LEMMA FirstAll ==
    ASSUME NEW a, NEW S, Spells(a, S)
    PROVE  S = First(a, Len(a))
  BY DEF Spells, Chained, First, At

\* A chain has as many rows and identifiers as positions.
LEMMA SpelledCount ==
    ASSUME NEW a, NEW S, Spells(a, S)
    PROVE  /\ IsFiniteSet(S) /\ Cardinality(S) = Len(a)
           /\ IsFiniteSet(Ids(S)) /\ Cardinality(Ids(S)) = Len(a)
           /\ Ids(S) = {a[i] : i \in 1 .. Len(a)}
<1>1. IsFiniteSet(S) /\ Cardinality(S) = Len(a)
  <2>1. Len(a) \in 0 .. Len(a)
    BY SpelledRows
  <2> QED
    BY <2>1, FirstCounted, FirstAll
<1>2. Ids(S) = {a[i] : i \in 1 .. Len(a)}
  <2>1. \A r \in S : \E i \in 1 .. Len(a) : r.id = a[i]
    BY SpelledRows, RowOf
  <2>2. \A i \in 1 .. Len(a) : \E r \in S : r.id = a[i]
    BY SpelledRows, RowOf
  <2> QED
    BY <2>1, <2>2 DEF Ids
<1>3. IsFiniteSet(Ids(S)) /\ Cardinality(Ids(S)) = Len(a)
  <2>1. PICK f : f = [i \in 1 .. Len(a) |-> a[i]]
    OBVIOUS
  <2>2. \A i \in 1 .. Len(a) : f[i] = a[i] /\ f[i] \in Ids(S)
    BY <1>2, <2>1
  <2>3. \A t \in Ids(S) : \E i \in 1 .. Len(a) : f[i] = t
    BY <1>2, <2>2
  <2>4. \A i, j \in 1 .. Len(a) : f[i] = f[j] => i = j
    BY <2>2, SpelledRows
  <2>5. f = [i \in 1 .. Len(a) |-> f[i]]
    BY <2>1
  <2>6. Len(a) \in Nat
    BY SpelledRows
  <2> QED
    BY <2>2, <2>3, <2>4, <2>5, <2>6, CountedBy
<1> QED
  BY <1>1, <1>2, <1>3

-----------------------------------------------------------------------------
(* The log that a chain spells                                             *)

\* One more row is read.
NextInOrder(rows, n, before) ==
    LET last == IF n = 1 THEN NoRow ELSE before[Len(before)]
        next == Children(rows, last)
    IN IF Len(before) < n - 1 \/ next = {} THEN before
       ELSE Append(before, (CHOOSE r \in next : TRUE).id)

\* Reading a chain from its first row, the n-th step finds the n-th identifier.
LEMMA OrderStep ==
    ASSUME NEW a, NEW S, Spells(a, S), NEW n \in 1 .. Len(a)
    PROVE  NextInOrder(S, n, SubSeq(a, 1, n - 1)) = SubSeq(a, 1, n)
<1>1. PICK before : before = SubSeq(a, 1, n - 1)
  OBVIOUS
<1>2. /\ before \in Seq(RowId) /\ Len(before) = n - 1
      /\ \A i \in 1 .. n - 1 : before[i] = a[i]
  <2>1. 1 \in Int /\ n - 1 \in Int /\ \A i \in 1 .. n - 1 : a[i] \in RowId
    BY SpelledRows
  <2>2. /\ SubSeq(a, 1, n - 1) \in Seq(RowId)
        /\ Len(SubSeq(a, 1, n - 1)) = IF 1 <= n - 1 THEN (n - 1) - 1 + 1 ELSE 0
        /\ \A i \in 1 .. (n - 1) - 1 + 1 : SubSeq(a, 1, n - 1)[i] = a[1 + i - 1]
    BY <2>1, SubSeqProperties
  <2> QED
    BY <1>1, <2>2
<1>3. PICK last : last = IF n = 1 THEN NoRow ELSE before[Len(before)]
  OBVIOUS
<1>4. Children(S, last) = {At(a, n)}
  <2>1. CASE n = 1
    BY <1>3, <2>1, SpelledChildren
  <2>2. CASE n # 1
    <3>1. n - 1 \in 1 .. Len(a) /\ n - 1 # Len(a) /\ (n - 1) + 1 = n /\ n - 1 \in 1 .. n - 1
      BY <2>2, SpelledRows
    <3>2. last = a[n - 1]
      BY <1>2, <1>3, <2>2, <3>1
    <3>3. PICK m \in 1 .. Len(a) : m = n - 1
      BY <3>1
    <3>4. Children(S, a[m]) = {At(a, m + 1)}
      BY <3>1, <3>3, SpelledChildren
    <3>5. m + 1 = n /\ a[m] = last
      BY <3>1, <3>2, <3>3
    <3> QED
      BY <3>4, <3>5
  <2> QED
    BY <2>1, <2>2
<1>5. (CHOOSE r \in Children(S, last) : TRUE).id = a[n]
  BY <1>4, RowOf
<1>6. NextInOrder(S, n, before) = Append(before, a[n])
  <2>1. ~(Len(before) < n - 1) /\ Children(S, last) # {}
    BY <1>2, <1>4
  <2> QED
    BY <1>3, <1>5, <2>1 DEF NextInOrder
<1>7. Append(before, a[n]) = SubSeq(a, 1, n)
  <2>1. /\ a \in Seq(RowId) /\ 1 \in 1 .. Len(a) /\ n \in 1 .. Len(a) /\ a[n] \in RowId
    BY SpelledRows DEF Spells
  <2>2. SubSeq(a, 1, n) = SubSeq(a, 1, n - 1) \o <<a[n]>>
    BY <2>1, SubSeqRecursiveSecond
  <2>3. Append(before, a[n]) = before \o <<a[n]>>
    BY <1>2, <2>1, AppendIsConcat
  <2> QED
    BY <1>1, <2>2, <2>3
<1> QED
  BY <1>1, <1>6, <1>7

\* ChainOrder reads from the rows the identifiers that spell them.
LEMMA SpelledOrder ==
    ASSUME NEW a, NEW S, Spells(a, S)
    PROVE  ChainOrder(S) = a
<1> DEFINE Ordered(f) == f = [n \in 0 .. Cardinality(S) |->
               IF n = 0 THEN <<>>
               ELSE LET before == f[n - 1]
                        last == IF n = 1 THEN NoRow ELSE before[Len(before)]
                        next == Children(S, last)
                    IN IF Len(before) < n - 1 \/ next = {} THEN before
                       ELSE Append(before, (CHOOSE r \in next : TRUE).id)]
           Steps(f) == f = [n \in 0 .. Len(a) |->
               IF n = 0 THEN <<>> ELSE NextInOrder(S, n, f[n - 1])]
           w == [n \in 0 .. Len(a) |-> SubSeq(a, 1, n)]
<1>1. Cardinality(S) = Len(a) /\ Len(a) \in Nat
  BY SpelledCount, SpelledRows
<1>2. \A f : Ordered(f) <=> Steps(f)
  BY <1>1 DEF NextInOrder
<1>3. ChainOrder(S) = (CHOOSE f : Ordered(f))[Len(a)]
  BY <1>1 DEF ChainOrder
<1> HIDE DEF Ordered
<1>4. SubSeq(a, 1, 0) = <<>>
  BY SubSeqEmpty
<1>5. Steps(w)
  <2>1. \A n \in 0 .. Len(a) : n # 0 => n \in 1 .. Len(a) /\ n - 1 \in 0 .. Len(a)
    BY <1>1
  <2>2. \A n \in 0 .. Len(a) : w[n] = IF n = 0 THEN <<>> ELSE NextInOrder(S, n, w[n - 1])
    BY <1>4, <2>1, OrderStep
  <2>3. w = [n \in 0 .. Len(a) |-> w[n]]
    OBVIOUS
  <2> HIDE DEF w
  <2> QED
    BY <2>2, <2>3
<1> HIDE DEF w, Steps
<1>6. PICK f : f = CHOOSE h : Ordered(h)
  OBVIOUS
<1>7. Steps(f)
  BY <1>2, <1>5, <1>6
<1> DEFINE N == {n \in Nat : n <= Len(a) => f[n] = SubSeq(a, 1, n)}
<1>8. 0 \in N
  BY <1>1, <1>4, <1>7 DEF Steps
<1>9. ASSUME NEW n \in Nat, n \in N PROVE n + 1 \in N
  <2> SUFFICES ASSUME n + 1 <= Len(a) PROVE f[n + 1] = SubSeq(a, 1, n + 1)
    BY <1>9
  <2>1. /\ n + 1 \in 1 .. Len(a) /\ n + 1 \in 0 .. Len(a) /\ n + 1 # 0 /\ (n + 1) - 1 = n
        /\ f[n] = SubSeq(a, 1, n)
    BY <1>1, <1>9
  <2>2. f[n + 1] = NextInOrder(S, n + 1, f[n])
    BY <1>7, <2>1 DEF Steps
  <2>3. NextInOrder(S, n + 1, SubSeq(a, 1, (n + 1) - 1)) = SubSeq(a, 1, n + 1)
    BY <2>1, OrderStep
  <2> QED
    BY <2>1, <2>2, <2>3
<1> HIDE DEF N
<1>10. Nat \subseteq N
  BY <1>8, <1>9, SetOfNaturals
<1>11. f[Len(a)] = SubSeq(a, 1, Len(a))
  BY <1>1, <1>10 DEF N
<1>12. SubSeq(a, 1, Len(a)) = a
  BY SubSeqFull DEF Spells
<1> QED
  BY <1>3, <1>6, <1>11, <1>12

-----------------------------------------------------------------------------
(* What the verifier reaches                                               *)

\* The rows of a chain, without the k-th of them.
Without(a, k) == {At(a, i) : i \in {j \in 1 .. Len(a) : j # k}}

\* With one row removed, every other row has the child it had, or none when the
\* child is the removed row.
LEMMA WithoutChildren ==
    ASSUME NEW a, NEW S, Spells(a, S), NEW k \in 1 .. Len(a) + 1
    PROVE  /\ Children(Without(a, k), NoRow) = IF Len(a) = 0 \/ k = 1 THEN {} ELSE {At(a, 1)}
           /\ \A i \in 1 .. Len(a) : Children(Without(a, k), a[i]) =
                 IF i = Len(a) \/ i + 1 = k THEN {} ELSE {At(a, i + 1)}
<1>0. Len(a) \in Nat
  BY SpelledRows
<1>1. ASSUME NEW i \in 1 .. Len(a) PROVE At(a, i) \in Without(a, k) <=> i # k
  <2>1. i # k => At(a, i) \in Without(a, k)
    BY DEF Without
  <2>2. ASSUME At(a, i) \in Without(a, k) PROVE i # k
    <3>1. PICK j \in 1 .. Len(a) : j # k /\ At(a, i) = At(a, j)
      BY <2>2 DEF Without
    <3>2. a[i] = a[j]
      BY <3>1, RowOf
    <3> QED
      BY <3>1, <3>2, SpelledRows
  <2> QED
    BY <2>1, <2>2
<1>2. Without(a, k) \subseteq S
  BY SpelledRows DEF Without
<1>3. \A h : Children(Without(a, k), h) = Children(S, h) \cap Without(a, k)
  BY <1>2 DEF Children
<1>4. Children(Without(a, k), NoRow) = IF Len(a) = 0 \/ k = 1 THEN {} ELSE {At(a, 1)}
  <2>1. CASE Len(a) = 0
    BY <1>3, <2>1, SpelledChildren
  <2>2. CASE Len(a) # 0
    <3>1. 1 \in 1 .. Len(a)
      BY <1>0, <2>2
    <3>2. Children(S, NoRow) = {At(a, 1)}
      BY <2>2, SpelledChildren
    <3>3. At(a, 1) \in Without(a, k) <=> 1 # k
      BY <1>1, <3>1
    <3> QED
      BY <1>3, <2>2, <3>2, <3>3
  <2> QED
    BY <2>1, <2>2
<1>5. ASSUME NEW i \in 1 .. Len(a)
      PROVE  Children(Without(a, k), a[i]) =
                 IF i = Len(a) \/ i + 1 = k THEN {} ELSE {At(a, i + 1)}
  <2>1. CASE i = Len(a)
    <3>1. Children(S, a[i]) = {}
      BY <2>1, SpelledChildren
    <3> QED
      BY <1>3, <2>1, <3>1
  <2>2. CASE i # Len(a)
    <3>1. i + 1 \in 1 .. Len(a)
      BY <1>0, <2>2
    <3>2. Children(S, a[i]) = {At(a, i + 1)}
      BY <2>2, SpelledChildren
    <3>3. At(a, i + 1) \in Without(a, k) <=> i + 1 # k
      BY <1>1, <3>1
    <3> QED
      BY <1>3, <2>2, <3>2, <3>3
  <2> QED
    BY <2>1, <2>2
<1> QED
  BY <1>4, <1>5

\* One more step of the walk.
Expand(rows, seen) ==
    LET single == {q \in seen : Cardinality(Children(rows, q.id)) = 1}
    IN seen \cup UNION {Children(rows, q.id) : q \in single}

\* _walk_chain goes one row further, and stops in front of a removed row.
LEMMA ExpandFirst ==
    ASSUME NEW a, NEW S, Spells(a, S), NEW k \in 2 .. Len(a) + 1, NEW m \in 1 .. k - 1
    PROVE  Expand(Without(a, k), First(a, m)) = First(a, IF m < k - 1 THEN m + 1 ELSE m)
<1>0. Len(a) \in Nat /\ k \in 1 .. Len(a) + 1 /\ m \in Nat
  BY SpelledRows
<1>1. PICK T : T = Without(a, k)
  OBVIOUS
<1>2. \A i \in 1 .. m : i \in 1 .. Len(a)
  BY <1>0
<1>3. \A i \in 1 .. m :
          Children(T, At(a, i).id) = IF i = Len(a) \/ i + 1 = k THEN {} ELSE {At(a, i + 1)}
  <2> TAKE i \in 1 .. m
  <2>1. i \in 1 .. Len(a)
    BY <1>2
  <2>2. At(a, i).id = a[i]
    BY DEF At
  <2>3. Children(T, a[i]) = IF i = Len(a) \/ i + 1 = k THEN {} ELSE {At(a, i + 1)}
    BY <1>0, <1>1, <2>1, WithoutChildren
  <2> QED
    BY <2>2, <2>3
<1>4. \A i \in 1 .. m :
          Cardinality(Children(T, At(a, i).id)) = 1 <=> ~(i = Len(a) \/ i + 1 = k)
  <2> SUFFICES ASSUME NEW i \in 1 .. m
               PROVE  Cardinality(Children(T, At(a, i).id)) = 1 <=> ~(i = Len(a) \/ i + 1 = k)
    OBVIOUS
  <2>1. CASE i = Len(a) \/ i + 1 = k
    <3>1. Children(T, At(a, i).id) = {}
      BY <1>3, <2>1
    <3>2. Cardinality({}) = 0
      BY FS_EmptySet
    <3> QED
      BY <2>1, <3>1, <3>2
  <2>2. CASE ~(i = Len(a) \/ i + 1 = k)
    <3>1. Children(T, At(a, i).id) = {At(a, i + 1)}
      BY <1>3, <2>2
    <3>2. Cardinality({At(a, i + 1)}) = 1
      BY FS_Singleton
    <3> QED
      BY <2>2, <3>1, <3>2
  <2> QED
    BY <2>1, <2>2
<1>5. \A r : r \in Expand(T, First(a, m)) <=>
          \/ \E i \in 1 .. m : r = At(a, i)
          \/ \E i \in 1 .. m : ~(i = Len(a) \/ i + 1 = k) /\ r = At(a, i + 1)
  <2> TAKE r
  <2>1. r \in Expand(T, First(a, m)) <=>
           \/ r \in First(a, m)
           \/ \E q \in First(a, m) : Cardinality(Children(T, q.id)) = 1 /\ r \in Children(T, q.id)
    BY DEF Expand
  <2>2. \A P : P \in First(a, m) <=> \E i \in 1 .. m : P = At(a, i)
    BY DEF First
  <2>3. ASSUME NEW q \in First(a, m), Cardinality(Children(T, q.id)) = 1, r \in Children(T, q.id)
        PROVE  \E i \in 1 .. m : ~(i = Len(a) \/ i + 1 = k) /\ r = At(a, i + 1)
    <3>1. PICK i \in 1 .. m : q = At(a, i)
      BY <2>2
    <3>2. ~(i = Len(a) \/ i + 1 = k)
      BY <1>4, <2>3, <3>1
    <3>3. Children(T, At(a, i).id) = {At(a, i + 1)}
      BY <1>3, <3>2
    <3> QED
      BY <2>3, <3>1, <3>2, <3>3
  <2>4. ASSUME NEW i \in 1 .. m, ~(i = Len(a) \/ i + 1 = k), r = At(a, i + 1)
        PROVE  \E q \in First(a, m) : Cardinality(Children(T, q.id)) = 1 /\ r \in Children(T, q.id)
    <3>1. At(a, i) \in First(a, m) /\ Cardinality(Children(T, At(a, i).id)) = 1
      BY <1>4, <2>2, <2>4
    <3>2. Children(T, At(a, i).id) = {At(a, i + 1)}
      BY <1>3, <2>4
    <3> QED
      BY <2>4, <3>1, <3>2
  <2> QED
    BY <2>1, <2>2, <2>3, <2>4
<1>6. CASE m < k - 1
  <2>1. m # Len(a) /\ m + 1 # k /\ m \in 1 .. m
    BY <1>0, <1>6
  <2>2. \A i \in 1 .. m : i + 1 \in 1 .. m + 1 /\ i \in 1 .. m + 1
    BY <1>0
  <2>3. \A i \in 1 .. m + 1 : i \in 1 .. m \/ i = m + 1
    BY <1>0
  <2>4. \A r : r \in Expand(T, First(a, m)) <=> \E i \in 1 .. m + 1 : r = At(a, i)
    BY <1>5, <2>1, <2>2, <2>3
  <2>5. Expand(T, First(a, m)) = First(a, m + 1)
    BY <2>4 DEF First
  <2> QED
    BY <1>1, <1>6, <2>5
<1>7. CASE ~(m < k - 1)
  <2>1. m = k - 1
    BY <1>0, <1>7
  <2>2. \A i \in 1 .. m : ~(i = Len(a) \/ i + 1 = k) => i + 1 \in 1 .. m
    BY <1>0, <2>1
  <2>3. \A r : r \in Expand(T, First(a, m)) <=> \E i \in 1 .. m : r = At(a, i)
    BY <1>5, <2>2
  <2>4. Expand(T, First(a, m)) = First(a, m)
    BY <2>3 DEF First
  <2> QED
    BY <1>1, <1>7, <2>4
<1> QED
  BY <1>6, <1>7

\* The walk from the root reaches the rows before the one that is missing.
LEMMA WalkReaches ==
    ASSUME NEW a, NEW S, Spells(a, S), NEW k \in 2 .. Len(a) + 1
    PROVE  Walk(Without(a, k), At(a, 1)) = First(a, k - 1)
<1> DEFINE T == Without(a, k)
           C == Cardinality(T)
           Walked(f) == f = [n \in 0 .. C |->
               IF n = 0 THEN {At(a, 1)}
               ELSE LET seen == f[n - 1]
                        single == {q \in seen : Cardinality(Children(T, q.id)) = 1}
                    IN seen \cup UNION {Children(T, q.id) : q \in single}]
           Steps(f) == f = [n \in 0 .. C |-> IF n = 0 THEN {At(a, 1)} ELSE Expand(T, f[n - 1])]
           upTo(n) == IF n + 1 < k THEN n + 1 ELSE k - 1
           w == [n \in 0 .. C |-> First(a, upTo(n))]
<1>0. Len(a) \in Nat /\ k \in Nat /\ k - 1 \in 0 .. Len(a)
  BY SpelledRows
<1>1. C \in Nat /\ C >= k - 1
  <2>1. T \subseteq S
    BY SpelledRows DEF Without
  <2>2. IsFiniteSet(T)
    BY <2>1, SpelledCount, FS_Subset
  <2>3. First(a, k - 1) \subseteq T
    <3>1. \A i \in 1 .. k - 1 : i \in 1 .. Len(a) /\ i # k
      BY <1>0
    <3> QED
      BY <3>1 DEF First, Without
  <2>4. Cardinality(First(a, k - 1)) = k - 1
    BY <1>0, FirstCounted
  <2> HIDE DEF T
  <2> QED
    BY <1>0, <2>2, <2>3, <2>4, FS_Subset, FS_CardinalityType
<1>2. \A f : Walked(f) <=> Steps(f)
  BY DEF Expand
<1>3. Walk(T, At(a, 1)) = (CHOOSE f : Walked(f))[C]
  BY DEF Walk
<1> HIDE DEF Walked
<1>4. First(a, 1) = {At(a, 1)}
  BY DEF First
<1>5. ASSUME NEW n \in Nat, n # 0 PROVE Expand(T, First(a, upTo(n - 1))) = First(a, upTo(n))
  <2>1. PICK m : m = upTo(n - 1)
    OBVIOUS
  <2>2. m \in 1 .. k - 1 /\ upTo(n) = IF m < k - 1 THEN m + 1 ELSE m
    BY <1>0, <1>5, <2>1
  <2>3. Expand(T, First(a, m)) = First(a, IF m < k - 1 THEN m + 1 ELSE m)
    BY <2>2, ExpandFirst
  <2> HIDE DEF upTo, T
  <2> QED
    BY <2>1, <2>2, <2>3
<1>6. upTo(0) = 1 /\ upTo(C) = k - 1
  BY <1>0, <1>1
<1> HIDE DEF upTo, C, T
<1>7. Steps(w)
  <2>1. \A n \in 0 .. C : n # 0 => n \in Nat /\ n - 1 \in 0 .. C
    BY <1>1
  <2>2. 0 \in 0 .. C
    BY <1>1
  <2>3. \A n \in 0 .. C : w[n] = First(a, upTo(n))
    OBVIOUS
  <2>4. ASSUME NEW n \in 0 .. C PROVE w[n] = IF n = 0 THEN {At(a, 1)} ELSE Expand(T, w[n - 1])
    <3>1. CASE n = 0
      BY <1>4, <1>6, <2>2, <2>3, <3>1
    <3>2. CASE n # 0
      BY <1>5, <2>1, <2>3, <3>2
    <3> QED
      BY <3>1, <3>2
  <2>5. w = [n \in 0 .. C |-> w[n]]
    OBVIOUS
  <2> HIDE DEF w
  <2> QED
    BY <2>4, <2>5
<1> HIDE DEF w, Steps
<1>8. PICK f : f = CHOOSE h : Walked(h)
  OBVIOUS
<1>9. Steps(f)
  BY <1>2, <1>7, <1>8
<1> DEFINE N == {n \in Nat : n <= C => f[n] = First(a, upTo(n))}
<1>10. 0 \in N
  BY <1>1, <1>4, <1>6, <1>9 DEF Steps
<1>11. ASSUME NEW n \in Nat, n \in N PROVE n + 1 \in N
  <2> SUFFICES ASSUME n + 1 <= C PROVE f[n + 1] = First(a, upTo(n + 1))
    BY <1>11
  <2>1. /\ n + 1 \in 0 .. C /\ n + 1 # 0 /\ (n + 1) - 1 = n
        /\ f[n] = First(a, upTo(n))
    BY <1>1, <1>11
  <2>2. f[n + 1] = Expand(T, f[n])
    BY <1>9, <2>1 DEF Steps
  <2>3. Expand(T, First(a, upTo((n + 1) - 1))) = First(a, upTo(n + 1))
    BY <1>5, <2>1
  <2> QED
    BY <2>1, <2>2, <2>3
<1> HIDE DEF N
<1>12. Nat \subseteq N
  BY <1>10, <1>11, SetOfNaturals
<1>13. f[C] = First(a, upTo(C))
  BY <1>1, <1>12 DEF N
<1>14. Walk(T, At(a, 1)) = First(a, k - 1)
  BY <1>3, <1>6, <1>8, <1>13
<1> QED
  BY <1>14 DEF T

\* Nothing is reported about a chain.
LEMMA SpelledIsClean ==
    ASSUME NEW a, NEW S, Spells(a, S)
    PROVE  ChainLinkIssues(S) = {}
<1>0. Len(a) \in Nat
  BY SpelledRows
<1>1. CASE Len(a) = 0
  <2>1. S = {}
    BY <1>1, SpelledRows
  <2>2. Children(S, NoRow) = {}
    BY <1>1, SpelledChildren
  <2> QED
    BY <2>1, <2>2 DEF ChainLinkIssues
<1>2. CASE Len(a) # 0
  <2>1. PICK k : k = Len(a) + 1
    OBVIOUS
  <2>2. k \in 2 .. Len(a) + 1 /\ k - 1 = Len(a)
    BY <1>0, <1>2, <2>1
  <2>3. Without(a, k) = S
    <3>1. Without(a, k) = First(a, Len(a))
      BY <1>0, <2>1 DEF Without, First
    <3> QED
      BY <3>1, FirstAll
  <2>4. Walk(S, At(a, 1)) = S
    <3>1. Walk(Without(a, k), At(a, 1)) = First(a, k - 1)
      BY <2>2, WalkReaches
    <3> QED
      BY <2>2, <2>3, <3>1, FirstAll
  <2>5. Children(S, NoRow) = {At(a, 1)}
    BY <1>2, SpelledChildren
  <2>6. (CHOOSE r \in Children(S, NoRow) : TRUE) = At(a, 1)
    BY <2>5
  <2> QED
    BY <2>4, <2>5, <2>6 DEF ChainLinkIssues
<1> QED
  BY <1>1, <1>2

\* The row after the one that is missing is reported.
LEMMA SpelledDetects ==
    ASSUME NEW a, NEW S, Spells(a, S), NEW r \in S \ Heads(S)
    PROVE  ChainLinkIssues(S \ {r}) # {}
<1>0. Len(a) \in Nat
  BY SpelledRows
<1>1. PICK k \in 1 .. Len(a) : r = At(a, k)
  BY SpelledRows
<1>2. k # Len(a)
  <2> SUFFICES ASSUME k = Len(a) PROVE FALSE
    OBVIOUS
  <2>1. Children(S, a[k]) = {}
    BY SpelledChildren
  <2>2. \A q \in S : q.prev # r.id
    BY <1>1, <2>1, RowOf DEF Children
  <2> QED
    BY <2>2 DEF Heads
<1>3. PICK T : T = Without(a, k)
  OBVIOUS
<1>4. k \in 1 .. Len(a) + 1 /\ k + 1 \in 1 .. Len(a) /\ k + 1 # k /\ k - 1 \in 0 .. Len(a) /\ Len(a) # 0
  BY <1>0, <1>2
<1>5. S \ {r} = T
  <2>1. \A i \in 1 .. Len(a) : At(a, i) = r <=> i = k
    BY <1>1, SpelledRows, RowOf
  <2>2. \A q \in S \ {r} : q \in T
    <3> SUFFICES ASSUME NEW q \in S, q # r PROVE q \in T
      OBVIOUS
    <3>1. PICK i \in 1 .. Len(a) : q = At(a, i)
      BY SpelledRows
    <3> QED
      BY <1>3, <2>1, <3>1 DEF Without
  <2>3. \A q \in T : q \in S \ {r}
    BY <1>3, <2>1, SpelledRows DEF Without
  <2> QED
    BY <2>2, <2>3
<1>6. At(a, k + 1) \in T
  BY <1>3, <1>4 DEF Without
<1>7. Children(T, NoRow) = IF k = 1 THEN {} ELSE {At(a, 1)}
  BY <1>3, <1>4, WithoutChildren
<1>8. CASE k = 1
  BY <1>5, <1>6, <1>7, <1>8 DEF ChainLinkIssues
<1>9. CASE k # 1
  <2>1. k \in 2 .. Len(a) + 1
    BY <1>0, <1>9
  <2>2. Walk(T, At(a, 1)) = First(a, k - 1)
    BY <1>3, <2>1, WalkReaches
  <2>3. At(a, k + 1) \notin First(a, k - 1)
    <3> SUFFICES ASSUME NEW i \in 1 .. k - 1, At(a, k + 1) = At(a, i) PROVE FALSE
      BY DEF First
    <3>1. a[k + 1] = a[i] /\ i \in 1 .. Len(a) /\ i # k + 1
      BY <1>0, <1>4, RowOf
    <3> QED
      BY <1>4, <3>1, SpelledRows
  <2>4. (CHOOSE q \in Children(T, NoRow) : TRUE) = At(a, 1) /\ Children(T, NoRow) # {}
    BY <1>7, <1>9
  <2>5. ChainLinkIssues(T) = T \ First(a, k - 1)
    BY <2>2, <2>4 DEF ChainLinkIssues
  <2> QED
    BY <1>5, <1>6, <2>3, <2>5
<1> QED
  BY <1>8, <1>9

-----------------------------------------------------------------------------
(* Every view spells its chain                                             *)

\* The rows are a chain that can be read from its first row to its last.
Spelled(rows) == \E ids : Spells(ids, rows)

\* What is committed, what each connection sees, and what it would roll back to.
SpelledViews ==
    /\ Spelled(audit_trail)
    /\ \A c \in Conn : Spelled(AllRows(c)) /\ Spelled(audit_trail \cup savepoint[c].rows)

\* The empty table is spelled by the empty sequence.
LEMMA EmptySpelled == Spells(<<>>, {})
<1>1. <<>> \in Seq(RowId) /\ Len(<<>>) = 0 /\ DOMAIN <<>> = 1 .. 0
  OBVIOUS
<1>2. 1 .. 0 = {}
  OBVIOUS
<1> QED
  BY <1>1, <1>2 DEF Spells, Distinct, Chained

\* A batch chained to the end of a spelled chain leaves a spelled chain.
LEMMA SpelledGrows ==
    ASSUME NEW S, Spelled(S), NEW t, IsTail(t, S), NEW n \in Nat \ {0},
           NEW ids \in [1 .. n -> RowId \ Ids(S)], Distinct(ids), Len(ids) = n
    PROVE  Spelled(S \cup Chained(ids, t))
<1>1. PICK a : Spells(a, S)
  BY DEF Spelled
<1>2. Spells(a \o ids, S \cup Chained(ids, t))
  BY <1>1, SpelledBatch
<1> QED
  BY <1>2 DEF Spelled

\* So does one stamped row.
LEMMA SpelledGrowsByOne ==
    ASSUME NEW S, Spelled(S), NEW t, IsTail(t, S), NEW id \in RowId \ Ids(S)
    PROVE  Spelled(S \cup {[id |-> id, prev |-> t]})
<1> DEFINE ids == [i \in 1 .. 1 |-> id]
<1>1. ids \in [1 .. 1 -> RowId \ Ids(S)] /\ Len(ids) = 1 /\ ids[1] = id
  <2>1. ids \in Seq(RowId) /\ DOMAIN ids = 1 .. 1
    BY SMT
  <2> QED
    BY <2>1
<1>2. Distinct(ids)
  BY DEF Distinct
<1>3. Chained(ids, t) = {[id |-> id, prev |-> t]}
  BY <1>1 DEF Chained
<1> HIDE DEF ids
<1>4. 1 \in Nat \ {0}
  OBVIOUS
<1>5. Spelled(S \cup Chained(ids, t))
  BY <1>1, <1>2, <1>4, SpelledGrows, Zenon
<1> QED
  BY <1>3, <1>5

\* What a running flush chains or inserts extends what its connection sees.
LEMMA FlushSpells ==
    ASSUME ChainInv, SpelledViews, Dialect = "postgresql", NEW c \in Conn,
           ChainPendingRows(c) \/ StampCached(c) \/ ReadTail(c)
    PROVE  SpelledViews'
<1> USE DEF ChainInv
<1>1. /\ UNCHANGED <<audit_trail, savepoint>>
      /\ \A d \in Conn \ {c} : pending'[d] = pending[d] /\ flush'[d] = flush[d]
  BY DEF ChainPendingRows, StampCached, ReadTail, TypeOK
<1>2. Spelled(AllRows(c)) /\ IsChain(AllRows(c)) /\ Ids(AllRows(c)) \subseteq UsedIds
  <2>1. AllRows(c) = audit_trail \cup (pending[c] \cup flush[c])
    BY DEF AllRows, Visible
  <2>2. Ids(audit_trail) \subseteq UsedIds /\ Ids(pending[c] \cup flush[c]) \subseteq UsedIds
    BY DEF UsedIds
  <2>3. Ids(AllRows(c)) \subseteq UsedIds
    BY <2>1, <2>2 DEF Ids
  <2> QED
    BY <2>3 DEF ViewsAreChains, SpelledViews
<1>3. Spelled(AllRows(c)')
  <2>1. CASE ChainPendingRows(c)
    <3>1. flush[c] = {} /\ AllRows(c) = Visible(c)
      BY <2>1 DEF ChainPendingRows, TypeOK, AllRows
    <3>2. PICK ids \in Batches :
            /\ Distinct(ids)
            /\ flush' = [flush EXCEPT ![c] = Chained(ids, LastChainHash(Visible(c)))]
      BY <2>1 DEF ChainPendingRows
    <3>3. PICK n \in 1 .. MaxBatch : ids \in [1 .. n -> RowId \ UsedIds]
      BY <3>2 DEF Batches
    <3>4. n \in Nat \ {0} /\ ids \in [1 .. n -> RowId \ Ids(AllRows(c))]
      BY <1>2, <3>3, BatchAssumption
    <3>5. Len(ids) = n
      BY <3>4
    <3>6. IsTail(LastChainHash(Visible(c)), AllRows(c))
      BY <1>2, <3>1, LastChainHashIsTail
    <3>7. Spelled(AllRows(c) \cup Chained(ids, LastChainHash(Visible(c))))
      BY <1>2, <3>2, <3>4, <3>5, <3>6, SpelledGrows, Zenon
    <3>8. pending' = pending
      BY <2>1 DEF ChainPendingRows
    <3>9. AllRows(c)' = AllRows(c) \cup Chained(ids, LastChainHash(Visible(c)))
      BY <1>1, <3>1, <3>2, <3>8 DEF AllRows, Visible, TypeOK
    <3> QED
      BY <3>7, <3>9
  <2>2. CASE StampCached(c)
    <3>1. IsTail(tail[c].row, AllRows(c))
      BY <2>2 DEF StampCached, ViewsAreChains
    <3>2. PICK id \in RowId \ UsedIds :
            pending' = [pending EXCEPT ![c] = @ \cup {[id |-> id, prev |-> tail[c].row]}]
      BY <2>2 DEF StampCached
    <3>3. id \in RowId \ Ids(AllRows(c))
      BY <1>2, <3>2
    <3>4. Spelled(AllRows(c) \cup {[id |-> id, prev |-> tail[c].row]})
      BY <1>2, <3>1, <3>3, SpelledGrowsByOne, Zenon
    <3>5. flush' = flush
      BY <2>2 DEF StampCached
    <3>6. AllRows(c)' = AllRows(c) \cup {[id |-> id, prev |-> tail[c].row]}
      BY <1>1, <3>2, <3>5 DEF AllRows, Visible, TypeOK
    <3> QED
      BY <3>4, <3>6
  <2>3. CASE ReadTail(c)
    <3>1. AllRows(c)' = AllRows(c)
      BY <1>1, <2>3 DEF ReadTail, AllRows, Visible
    <3> QED
      BY <1>2, <3>1
  <2> QED
    BY <2>1, <2>2, <2>3
<1>4. \A d \in Conn \ {c} : AllRows(d)' = AllRows(d)
  BY <1>1 DEF AllRows, Visible
<1>5. \A d \in Conn : Spelled(AllRows(d)')
  BY <1>3, <1>4 DEF SpelledViews
<1>6. /\ Spelled(audit_trail')
      /\ \A d \in Conn : Spelled(audit_trail' \cup savepoint'[d].rows)
  BY <1>1 DEF SpelledViews
<1> QED
  BY <1>5, <1>6 DEF SpelledViews

\* Steps that change the rows of no view.
LEMMA QuietSpells ==
    ASSUME ChainInv, SpelledViews, NEW c \in Conn,
           \/ Begin(c) \/ FlushWithoutRows(c) \/ EndFlush(c)
           \/ Savepoint(c) \/ ReleaseSavepoint(c)
    PROVE  SpelledViews'
<1> USE DEF ChainInv
<1>1. UNCHANGED audit_trail
  BY DEF Begin, FlushWithoutRows, EndFlush, Savepoint, ReleaseSavepoint
<1>2. \A d \in Conn \ {c} :
        pending'[d] = pending[d] /\ flush'[d] = flush[d] /\ savepoint'[d] = savepoint[d]
  BY DEF Begin, FlushWithoutRows, EndFlush, Savepoint, ReleaseSavepoint, TypeOK
<1>3. pending'[c] \cup flush'[c] = pending[c] \cup flush[c]
  BY DEF Begin, FlushWithoutRows, EndFlush, Savepoint, ReleaseSavepoint, TypeOK
<1>4. \A d \in Conn : AllRows(d)' = AllRows(d)
  BY <1>1, <1>2, <1>3 DEF AllRows, Visible
<1>5. \/ savepoint'[c].rows \in {{}, savepoint[c].rows}
      \/ savepoint'[c].rows = pending[c] /\ flush[c] = {}
  BY DEF Begin, FlushWithoutRows, EndFlush, Savepoint, ReleaseSavepoint, TypeOK, NoSavepoint
<1>6. Spelled(audit_trail' \cup savepoint'[c].rows)
  <2>1. audit_trail \cup {} = audit_trail
    OBVIOUS
  <2>2. CASE savepoint'[c].rows \in {{}, savepoint[c].rows}
    BY <1>1, <2>1, <2>2 DEF SpelledViews
  <2>3. CASE savepoint'[c].rows = pending[c] /\ flush[c] = {}
    <3>1. audit_trail' \cup savepoint'[c].rows = AllRows(c)
      BY <1>1, <2>3 DEF AllRows, Visible
    <3> QED
      BY <3>1 DEF SpelledViews
  <2> QED
    BY <1>5, <2>2, <2>3
<1> QED
  BY <1>1, <1>2, <1>4, <1>6 DEF SpelledViews

\* A rollback returns to the chain of the savepoint, or to the committed one.
LEMMA RollbackSpells ==
    ASSUME ChainInv, SpelledViews, NEW c \in Conn, RollbackToSavepoint(c) \/ Rollback(c)
    PROVE  SpelledViews'
<1> USE DEF ChainInv
<1>1. /\ UNCHANGED audit_trail
      /\ flush'[c] = {} /\ savepoint'[c] = NoSavepoint
      /\ pending'[c] = savepoint[c].rows \/ pending'[c] = {}
  BY DEF RollbackToSavepoint, Rollback, EndTransaction, TypeOK
<1>2. \A d \in Conn \ {c} :
        pending'[d] = pending[d] /\ flush'[d] = flush[d] /\ savepoint'[d] = savepoint[d]
  BY DEF RollbackToSavepoint, Rollback, EndTransaction, TypeOK
<1>3. Spelled(AllRows(c)') /\ Spelled(audit_trail' \cup savepoint'[c].rows)
  <2>1. /\ AllRows(c)' = audit_trail \cup pending'[c]
        /\ audit_trail' \cup savepoint'[c].rows = audit_trail
    BY <1>1 DEF AllRows, Visible, NoSavepoint
  <2>2. audit_trail \cup {} = audit_trail
    OBVIOUS
  <2> QED
    BY <1>1, <2>1, <2>2 DEF SpelledViews
<1>4. \A d \in Conn \ {c} : AllRows(d)' = AllRows(d)
  BY <1>1, <1>2 DEF AllRows, Visible
<1> QED
  BY <1>1, <1>2, <1>3, <1>4 DEF SpelledViews

\* A commit publishes the chain that its connection saw.
LEMMA CommitSpells ==
    ASSUME ChainInv, SpelledViews, NEW c \in Conn, Commit(c)
    PROVE  SpelledViews' /\ audit_trail' = AllRows(c)
<1> USE DEF ChainInv, Commit, EndTransaction
<1>1. /\ pending'[c] = {} /\ flush'[c] = {} /\ savepoint'[c] = NoSavepoint
      /\ audit_trail' = AllRows(c)
  BY DEF AllRows, Visible, TypeOK
<1>2. \A d \in Conn \ {c} :
        pending'[d] = pending[d] /\ flush'[d] = flush[d] /\ savepoint'[d] = savepoint[d]
  BY DEF TypeOK
<1>3. \A d \in Conn \ {c} : audit_trail' # audit_trail =>
        pending[d] = {} /\ flush[d] = {} /\ savepoint[d].rows = {}
  BY DEF WriterOwnsRows
<1>4. Spelled(audit_trail')
  BY <1>1 DEF SpelledViews
<1>5. \A d \in Conn : Spelled(AllRows(d)') /\ Spelled(audit_trail' \cup savepoint'[d].rows)
  <2> SUFFICES ASSUME NEW d \in Conn
               PROVE  Spelled(AllRows(d)') /\ Spelled(audit_trail' \cup savepoint'[d].rows)
    OBVIOUS
  <2>1. CASE d = c
    <3>1. /\ AllRows(d)' = audit_trail' \cup {}
          /\ audit_trail' \cup savepoint'[d].rows = audit_trail' \cup {}
      BY <1>1, <2>1 DEF AllRows, Visible, NoSavepoint
    <3>2. audit_trail' \cup {} = audit_trail'
      OBVIOUS
    <3> QED
      BY <1>4, <3>1, <3>2
  <2>2. CASE d # c /\ audit_trail' = audit_trail
    BY <1>2, <2>2 DEF SpelledViews, AllRows, Visible
  <2>3. CASE d # c /\ audit_trail' # audit_trail
    BY <1>2, <1>3, <1>4, <2>3 DEF AllRows, Visible
  <2> QED
    BY <2>1, <2>2, <2>3
<1> QED
  BY <1>1, <1>4, <1>5 DEF SpelledViews

\* On PostgreSQL every view of every connection spells a chain, throughout:
\* concurrent flushes, savepoints and rollbacks never make it unreadable.
THEOREM SpelledInvariant ==
    ASSUME Dialect = "postgresql"
    PROVE  Spec => [](ChainInv /\ SpelledViews)
<1>1. Init => SpelledViews
  <2> SUFFICES ASSUME Init PROVE SpelledViews
    OBVIOUS
  <2>1. Spelled({})
    BY EmptySpelled DEF Spelled
  <2> QED
    BY <2>1 DEF Init, SpelledViews, AllRows, Visible, NoSavepoint
<1>2. ChainInv /\ SpelledViews /\ [Next]_vars => SpelledViews'
  <2> SUFFICES ASSUME ChainInv, SpelledViews, [Next]_vars PROVE SpelledViews'
    OBVIOUS
  <2>1. ASSUME NEW c \in Conn, ChainPendingRows(c) \/ StampCached(c) \/ ReadTail(c)
        PROVE  SpelledViews'
    BY <2>1, FlushSpells
  <2>2. ASSUME NEW c \in Conn, \/ Begin(c) \/ FlushWithoutRows(c) \/ EndFlush(c)
                               \/ Savepoint(c) \/ ReleaseSavepoint(c)
        PROVE  SpelledViews'
    BY <2>2, QuietSpells
  <2>3. ASSUME NEW c \in Conn, RollbackToSavepoint(c) \/ Rollback(c)
        PROVE  SpelledViews'
    BY <2>3, RollbackSpells
  <2>4. ASSUME NEW c \in Conn, Commit(c)
        PROVE  SpelledViews'
    BY <2>4, CommitSpells
  <2>5. CASE UNCHANGED vars
    BY <2>5 DEF vars, SpelledViews, AllRows, Visible
  <2> QED
    BY <2>1, <2>2, <2>3, <2>4, <2>5 DEF Next
<1> QED
  BY <1>1, <1>2, ChainInvariant, PTL DEF Spec

\* verify_audit_trail_chain never reports a row of a chain that the code has
\* written.
THEOREM VerifierAlwaysClean ==
    ASSUME Dialect = "postgresql"
    PROVE  Spec => []VerifyClean
<1>1. SpelledViews => VerifyClean
  BY SpelledIsClean DEF SpelledViews, Spelled, VerifyClean
<1> QED
  BY <1>1, SpelledInvariant, PTL

\* verify_audit_trail_chain reports the removal of any committed row but the last.
THEOREM DeletionsDetected ==
    ASSUME Dialect = "postgresql"
    PROVE  Spec => []DeletionDetected
<1>1. SpelledViews => DeletionDetected
  <2> SUFFICES ASSUME SpelledViews, NEW r \in audit_trail \ Heads(audit_trail)
               PROVE  ChainLinkIssues(audit_trail \ {r}) # {}
    BY DEF DeletionDetected
  <2>1. PICK a : Spells(a, audit_trail)
    BY DEF SpelledViews, Spelled
  <2> QED
    BY <2>1, SpelledDetects
<1> QED
  BY <1>1, SpelledInvariant, PTL

\* A spelled chain that contains another extends it at its end.
LEMMA LogExtends ==
    ASSUME NEW a, NEW S, Spells(a, S), NEW b, NEW T, Spells(b, T), S \subseteq T, S # T
    PROVE  /\ Ids(S) \subseteq Ids(T) /\ Ids(S) # Ids(T)
           /\ SubSeq(ChainOrder(T), 1, Len(ChainOrder(S))) = ChainOrder(S)
           /\ {ChainOrder(T)[i] : i \in 1 .. Len(ChainOrder(T))} = Ids(T)
           /\ Len(ChainOrder(T)) = Cardinality(Ids(T))
<1>1. ChainOrder(S) = a /\ ChainOrder(T) = b
  BY SpelledOrder
<1>2. Len(a) \in Nat /\ Len(b) \in Nat /\ Len(a) <= Len(b) /\ \A i \in 1 .. Len(a) : a[i] = b[i]
  BY SpelledRows, SpelledPrefix
<1>3. a \in Seq(RowId) /\ b \in Seq(RowId)
  BY DEF Spells
<1>4. SubSeq(b, 1, Len(a)) = a
  <2>1. /\ SubSeq(b, 1, Len(a)) = [i \in 1 .. Len(a) |-> b[i]]
        /\ a = [i \in 1 .. Len(a) |-> a[i]]
    BY <1>2, <1>3
  <2> QED
    BY <1>2, <2>1
<1>5. Ids(S) \subseteq Ids(T)
  BY DEF Ids
<1>6. Len(a) # Len(b)
  <2> SUFFICES ASSUME Len(a) = Len(b) PROVE FALSE
    OBVIOUS
  <2>1. a = b
    <3>1. /\ a = [i \in 1 .. Len(a) |-> a[i]]
          /\ b = [i \in 1 .. Len(b) |-> b[i]]
      BY <1>3
    <3> QED
      BY <1>2, <3>1
  <2> QED
    BY <2>1 DEF Spells
<1>7. Cardinality(Ids(S)) = Len(a) /\ Cardinality(Ids(T)) = Len(b)
      /\ Ids(T) = {b[i] : i \in 1 .. Len(b)}
  BY SpelledCount
<1> QED
  BY <1>1, <1>4, <1>5, <1>6, <1>7

\* The committed chain implements the append-only log of AuditLog: every commit
\* that adds rows adds them at the end, whatever other transactions do.
THEOREM ChainImplementsLog ==
    ASSUME Dialect = "postgresql"
    PROVE  Spec => ImplementsAuditLog
<1>1. Init => Log!Init
  <2>1. ChainOrder({}) = <<>>
    BY EmptySpelled, SpelledOrder
  <2> QED
    BY <2>1 DEF Init, Log!Init, Ids
<1>2. ChainInv /\ SpelledViews /\ [Next]_vars /\ SpelledViews'
        => [Log!Extend]_<<ChainOrder(audit_trail), Ids(audit_trail)>>
  <2> SUFFICES ASSUME ChainInv, SpelledViews, [Next]_vars, SpelledViews',
                      audit_trail' # audit_trail
               PROVE  Log!Extend
    <3>1. audit_trail' = audit_trail =>
            /\ ChainOrder(audit_trail)' = ChainOrder(audit_trail)
            /\ Ids(audit_trail)' = Ids(audit_trail)
      BY DEF ChainOrder, Ids, Children
    <3> QED
      BY <3>1
  <2>1. audit_trail \subseteq audit_trail'
    BY DEF Next, vars, Begin, FlushWithoutRows, ChainPendingRows, ReadTail, StampCached,
           EndFlush, Savepoint, ReleaseSavepoint, RollbackToSavepoint, Commit, Rollback
  <2>2. PICK a : Spells(a, audit_trail)
    BY DEF SpelledViews, Spelled
  <2>3. PICK b : Spells(b, audit_trail')
    BY DEF SpelledViews, Spelled
  <2>4. /\ Ids(audit_trail) \subseteq Ids(audit_trail') /\ Ids(audit_trail) # Ids(audit_trail')
        /\ SubSeq(ChainOrder(audit_trail'), 1, Len(ChainOrder(audit_trail)))
             = ChainOrder(audit_trail)
        /\ {ChainOrder(audit_trail')[i] : i \in 1 .. Len(ChainOrder(audit_trail'))}
             = Ids(audit_trail')
        /\ Len(ChainOrder(audit_trail')) = Cardinality(Ids(audit_trail'))
    BY <2>1, <2>2, <2>3, LogExtends
  <2>5. Log!Cardinality(Ids(audit_trail')) = Cardinality(Ids(audit_trail'))
    BY DEF Log!Cardinality, Cardinality
  <2> QED
    BY <2>4, <2>5 DEF Log!Extend, Log!Listed
<1> QED
  BY <1>1, <1>2, SpelledInvariant, PTL DEF Spec, ImplementsAuditLog, Log!Spec
=============================================================================
