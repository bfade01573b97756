----------------------- MODULE BankReconciliationProofs -----------------------
(***************************************************************************)
(* Proofs about BankReconciliation, for any number of users, statement      *)
(* lines, payments and requests: what is matched and linked follows the     *)
(* cancellation of payments (BankInv), and how much is matched, and how     *)
(* often, stays within bounds (AmountsInv).                                 *)
(***************************************************************************)
EXTENDS BankReconciliation, SequenceTheorems, WellFoundedInduction, SumTheorems, TLAPS

\* What a committed reconciliation records.
Recorded == [request : Request, items : SUBSET Item]

\* The committed data, as far as the proofs look at them.
Typed ==
    /\ statement \in [Statement -> [reconciled : BOOLEAN, link : Payment \cup {NoPayment}]]
    /\ payment \in [Payment -> {"submitted", "cancelled"}]
    /\ reconciliation \in Seq(Recorded)
    /\ lock = [x \in Statement \cup Target |-> lock[x]]
    /\ session = [s \in Session |-> session[s]]

\* A matching session holds its lines so far, and their payments stand.
Matching(s) ==
    LET r == session[s].request
    IN /\ r \in Request
       /\ session[s] = [op |-> session[s].op, request |-> r, line |-> session[s].line]
       /\ session[s].op = "lock" => session[s].line = 1
       /\ session[s].op = "match" =>
             /\ session[s].line \in Nat \ {0}
             /\ \A i \in DOMAIN r.match : i < session[s].line =>
                    lock[r.match[i].target] = s /\ Eligible(r.match[i].target)

\* A cancellation holds its payment, and has read every line linked to it.
Cancelling(s) ==
    LET p == session[s].payment
    IN /\ p \in Payment /\ lock[p] = s /\ payment[p] = "submitted"
       /\ session[s].op = "unlink" => LinkedTo(p) \subseteq session[s].linked

\* What a session that is not idle knows and holds.
AtWork(s) ==
    /\ session[s].op \in {"idle", "lock", "match", "cancel", "unlink"}
    /\ session[s].op \in {"lock", "match"} => Matching(s)
    /\ session[s].op \in {"cancel", "unlink"} => Cancelling(s)

\* Every session is in such a state.
Working == \A s \in Session : AtWork(s)

\* A live item matches t with y.
Matched(t, y) ==
    \E n \in DOMAIN reconciliation : \E m \in reconciliation[n].items :
        m.live /\ m.source = t /\ m.target = y

\* CancelledPaymentUnmatched and LinkHasMatch, by the items themselves.
MatchesStand ==
    \A t \in Statement, p \in Payment : Matched(t, p) => payment[p] = "submitted"

\* A statement line linked to a payment has a live item with it.
LinksMatched ==
    \A t \in Statement, p \in Payment : statement[t].link = p => Matched(t, p)

\* The inductive invariant of what is matched and linked.
BankInv == Typed /\ Working /\ MatchesStand /\ LinksMatched

-----------------------------------------------------------------------------
(* The first payment of a request                                          *)

\* A nonempty set of naturals has a least element, which Min returns.
LEMMA MinIn ==
    ASSUME NEW S \in SUBSET Nat, S # {}
    PROVE  Min(S) \in S
  <1> DEFINE R == OpToRel(<, Nat)
  <1>1. IsWellFoundedOn(R, Nat)
    BY NatLessThanWellFounded
  <1>2. R = {ss \in Nat \X Nat : ss[1] < ss[2]}
    BY Zenon DEF OpToRel
  <1> HIDE DEF R
  <1>3. PICK x \in S : \A y \in S : ~(<<y, x>> \in R)
    BY <1>1, WFMin
  <1>4. ASSUME NEW y \in S PROVE x <= y
    <2>1. <<y, x>> \in Nat \X Nat /\ <<y, x>>[1] = y /\ <<y, x>>[2] = x
      OBVIOUS
    <2>2. <<y, x>> \in R <=> y < x
      BY <1>2, <2>1
    <2> QED
      BY <1>3, <2>2
  <1> QED
    BY <1>4 DEF Min

\* What a request is made of.
LEMMA RequestShape ==
    ASSUME NEW r \in Request
    PROVE  /\ r.match \in Seq(Match) /\ DOMAIN r.match \subseteq Nat /\ Len(r.match) \in Nat
           /\ DOMAIN r.match = 1 .. Len(r.match)
           /\ \A i \in DOMAIN r.match : r.match[i] \in Match
           /\ \A t \in Statement : r.difference[t] \in Nat
  <1>1. r.match \in Seq(Match) /\ r.difference \in [Statement -> Nat]
    BY RequestAssumption
  <1> QED
    BY <1>1, LenProperties, ElementOfSeq

\* Unless it is nobody, the first payment is the target of a match of the line.
LEMMA FirstPaymentMatched ==
    ASSUME NEW r \in Request, NEW t, FirstPayment(r, t) # NoPayment
    PROVE  \E i \in DOMAIN r.match :
               r.match[i].source = t /\ r.match[i].target = FirstPayment(r, t)
                   /\ FirstPayment(r, t) \in Payment
  <1> DEFINE paid == {i \in DOMAIN r.match : r.match[i].source = t /\ r.match[i].target \in Payment}
  <1>1. paid \in SUBSET Nat
    BY RequestShape
  <1>2. paid # {} /\ FirstPayment(r, t) = r.match[Min(paid)].target
    BY DEF FirstPayment
  <1>3. Min(paid) \in paid
    BY <1>1, <1>2, MinIn
  <1> QED
    BY <1>2, <1>3

\* A request is recorded as items.
LEMMA ItemsTyped ==
    ASSUME NEW r \in Request
    PROVE  Items(r) \in SUBSET Item /\ Differences(r) \in SUBSET Item
  <1>1. Differences(r) \in SUBSET Item
    <2>1. ASSUME NEW t \in Statement, r.difference[t] > 0
          PROVE  [source |-> t, target |-> "difference", amount |-> r.difference[t], live |-> TRUE]
                    \in Item
      BY RequestShape DEF Item
    <2> QED
      BY <2>1 DEF Differences
  <1>2. ASSUME NEW i \in DOMAIN r.match
        PROVE  [source |-> r.match[i].source, target |-> r.match[i].target,
                amount |-> r.match[i].amount, live |-> TRUE] \in Item
    <2>1. r.match[i] \in Match
      BY RequestShape
    <2> QED
      BY <2>1 DEF Match, Item
  <1> QED
    BY <1>1, <1>2 DEF Items, MatchesOf

-----------------------------------------------------------------------------
(* Steps that change no committed data                                     *)

\* Nothing is matched or linked initially.
LEMMA InitBank == Init => BankInv
  <1> SUFFICES ASSUME Init PROVE BankInv
    OBVIOUS
  <1>1. reconciliation \in Seq(Recorded) /\ DOMAIN reconciliation = {}
    BY DEF Init
  <1>2. Typed
    BY <1>1 DEF Init, Typed
  <1>3. Working
    BY DEF Init, Idle, Working, AtWork
  <1>4. MatchesStand /\ LinksMatched
    BY <1>1, RequestAssumption DEF Init, MatchesStand, LinksMatched, Matched
  <1> QED
    BY <1>2, <1>3, <1>4 DEF BankInv

\* Steps that commit nothing keep what is said of the committed data.
LEMMA DataKept ==
    ASSUME BankInv, UNCHANGED <<statement, payment, reconciliation>>
    PROVE  MatchesStand' /\ LinksMatched'
  BY DEF BankInv, MatchesStand, LinksMatched, Matched

\* What one session does leaves the others at work: their locks stay theirs, and
\* only the holder of a payment changes it or the lines linked to it.
LEMMA OthersAtWork ==
    ASSUME BankInv, NEW s \in Session, NEW new, session' = [session EXCEPT ![s] = new],
           \A u \in Session \ {s}, x \in Statement \cup Target : lock[x] = u => lock'[x] = u,
           \A p \in Payment : lock[p] # s =>
               payment'[p] = payment[p] /\ LinkedTo(p)' \subseteq LinkedTo(p)
    PROVE  \A u \in Session \ {s} : AtWork(u)'
  <1> SUFFICES ASSUME NEW u \in Session, u # s PROVE AtWork(u)'
    OBVIOUS
  <1>1. session'[u] = session[u] /\ AtWork(u)
    BY DEF BankInv, Typed, Working
  <1>2. CASE session[u].op \in {"lock", "match"}
    <2>1. session[u].request \in Request /\ Matching(u)
      BY <1>1, <1>2 DEF AtWork, Matching
    <2>2. \A i \in DOMAIN session[u].request.match : session[u].request.match[i].target \in Target
      BY <2>1, RequestShape DEF Match
    <2>3. \A y \in Target : lock[y] = u /\ Eligible(y) => lock'[y] = u /\ Eligible(y)'
      BY DEF Eligible, Target
    <2>4. Matching(u)'
      BY <1>1, <2>1, <2>2, <2>3 DEF Matching
    <2> QED
      BY <1>1, <1>2, <2>4 DEF AtWork
  <1>3. CASE session[u].op \in {"cancel", "unlink"}
    BY <1>1, <1>3 DEF AtWork, Cancelling, Target
  <1> QED
    BY <1>1, <1>2, <1>3 DEF AtWork

\* A user who asks for a reconciliation keeps the invariant.
LEMMA BeginReconcileKeeps ==
    ASSUME BankInv, NEW s \in Session, NEW r \in Request, BeginReconcile(s, r)
    PROVE  BankInv'
  <1> USE DEF BeginReconcile
  <1>1. Typed'
    BY DEF BankInv, Typed
  <1>2. \A u \in Session \ {s} : AtWork(u)'
    BY OthersAtWork DEF LinkedTo
  <1>3. session'[s] = [op |-> "lock", request |-> r, line |-> 1]
    BY DEF BankInv, Typed
  <1>4. AtWork(s)'
    BY <1>3 DEF AtWork, Matching
  <1> QED
    BY <1>1, <1>2, <1>4, DataKept DEF BankInv, Working

\* A lock is taken that nobody else holds.
LEMMA LockedKeeps ==
    ASSUME BankInv, NEW s \in Session, NEW rows \in SUBSET (Statement \cup Target),
           \A x \in rows : Free(s, x), lock' = Locked(s, rows)
    PROVE  /\ lock' = [x \in Statement \cup Target |-> lock'[x]]
           /\ \A u \in Session, x \in Statement \cup Target : lock[x] = u => lock'[x] = u
           /\ \A x \in rows : lock'[x] = s
  BY RequestAssumption DEF Locked, Free, BankInv, Typed

\* A request matches statement lines.
LEMMA SourcesShape ==
    ASSUME NEW r \in Request
    PROVE  Sources(r) \in SUBSET Statement
  BY RequestShape DEF Sources, MatchesOf, Match

\* The step changes one session.
Becomes(s, new) == session' = [session EXCEPT ![s] = new]

\* A step that locks rows for its session, and commits nothing.
LEMMA LockingKeeps ==
    ASSUME BankInv, NEW s \in Session, NEW rows \in SUBSET (Statement \cup Target),
           \A x \in rows : Free(s, x), lock' = Locked(s, rows),
           NEW new, Becomes(s, new),
           UNCHANGED <<statement, payment, reconciliation>>
    PROVE  /\ Typed' /\ session'[s] = new /\ \A x \in rows : lock'[x] = s
           /\ \A x \in Target : lock[x] = s => lock'[x] = s
           /\ \A u \in Session \ {s} : AtWork(u)'
  <1>1. /\ lock' = [x \in Statement \cup Target |-> lock'[x]]
        /\ \A u \in Session, x \in Statement \cup Target : lock[x] = u => lock'[x] = u
        /\ \A x \in rows : lock'[x] = s
    BY LockedKeeps
  <1>2. session' = [u \in Session |-> session'[u]] /\ session'[s] = new
    BY DEF BankInv, Typed, Becomes
  <1>3. Typed'
    BY <1>1, <1>2 DEF BankInv, Typed
  <1>4. \A p \in Payment : payment'[p] = payment[p] /\ LinkedTo(p)' \subseteq LinkedTo(p)
    BY DEF LinkedTo
  <1>5. \A u \in Session \ {s} : AtWork(u)'
    BY <1>1, <1>4, OthersAtWork DEF Becomes
  <1> QED
    BY <1>1, <1>2, <1>3, <1>5

\* Locking the statement lines of a request keeps the invariant.
LEMMA LockSourcesKeeps ==
    ASSUME BankInv, NEW s \in Session, LockSources(s)
    PROVE  BankInv'
  <1>1. PICK r : r = session[s].request
    OBVIOUS
  <1>2. session[s] = [op |-> "lock", request |-> r, line |-> 1] /\ r \in Request
    BY <1>1 DEF LockSources, BankInv, Working, AtWork, Matching
  <1>3. /\ Sources(r) \in SUBSET (Statement \cup Target)
        /\ \A t \in Sources(r) : Free(s, t)
        /\ lock' = Locked(s, Sources(r))
        /\ UNCHANGED <<statement, payment, reconciliation>>
    BY <1>1, <1>2, SourcesShape DEF LockSources
  <1>4. PICK new : new = [session[s] EXCEPT !.op = "match"]
    OBVIOUS
  <1>5. new = [op |-> "match", request |-> r, line |-> 1]
    BY <1>2, <1>4
  <1>6. Becomes(s, new)
    BY <1>4 DEF LockSources, Becomes
  <1>7. /\ Typed' /\ session'[s] = new
        /\ \A u \in Session \ {s} : AtWork(u)'
    BY <1>3, <1>6, LockingKeeps
  <1>8. Matching(s)'
    BY <1>2, <1>7, <1>5, RequestShape DEF Matching
  <1>9. AtWork(s)'
    BY <1>7, <1>8, <1>5 DEF AtWork
  <1> QED
    BY <1>3, <1>7, <1>9, DataKept DEF BankInv, Working

\* A line of a request locks its target and finds that it stands.
LEMMA AddMatchKeeps ==
    ASSUME BankInv, NEW s \in Session, AddMatch(s)
    PROVE  BankInv'
  <1>1. PICK r, n : r = session[s].request /\ n = session[s].line
    OBVIOUS
  <1>2. /\ r \in Request /\ n \in Nat \ {0}
        /\ session[s] = [op |-> "match", request |-> r, line |-> n]
        /\ \A i \in DOMAIN r.match : i < n => lock[r.match[i].target] = s /\ Eligible(r.match[i].target)
    BY <1>1 DEF AddMatch, BankInv, Working, AtWork, Matching
  <1>3. \A i \in DOMAIN r.match : i \in Nat /\ r.match[i].target \in Target
    BY <1>2, RequestShape DEF Match
  <1>4. /\ n \in DOMAIN r.match
        /\ UNCHANGED <<statement, payment, reconciliation>>
    BY <1>1 DEF AddMatch
  <1>5. PICK y : y = r.match[n].target
    OBVIOUS
  <1>6. /\ Free(s, y) /\ Eligible(y) /\ lock' = Locked(s, {y})
    BY <1>1, <1>5 DEF AddMatch
  <1>7. PICK new : new = [session[s] EXCEPT !.line = n + 1]
    OBVIOUS
  <1>8. new = [op |-> "match", request |-> r, line |-> n + 1]
    BY <1>2, <1>7
  <1>9. Becomes(s, new)
    BY <1>1, <1>7 DEF AddMatch, Becomes
  <1>10. PICK rows : rows = {y}
    OBVIOUS
  <1>11. rows \in SUBSET (Statement \cup Target) /\ \A x \in rows : Free(s, x)
    BY <1>3, <1>4, <1>5, <1>6, <1>10
  <1>12. lock' = Locked(s, rows)
    BY <1>6, <1>10
  <1>13. /\ Typed' /\ session'[s] = new
         /\ \A x \in rows : lock'[x] = s
         /\ \A x \in Target : lock[x] = s => lock'[x] = s
         /\ \A u \in Session \ {s} : AtWork(u)'
    BY <1>4, <1>11, <1>9, <1>12, LockingKeeps
  <1>14. \A z : Eligible(z) => Eligible(z)'
    BY <1>4 DEF Eligible
  <1>15. ASSUME NEW i \in DOMAIN r.match, i < n + 1
         PROVE  lock'[r.match[i].target] = s /\ Eligible(r.match[i].target)'
    <2>1. CASE i < n
      BY <1>2, <1>3, <1>13, <1>14, <2>1
    <2>2. CASE i = n
      BY <1>5, <1>6, <1>13, <1>14, <1>10, <2>2
    <2> QED
      BY <1>2, <1>3, <1>15, <2>1, <2>2
  <1>16. Matching(s)'
    BY <1>2, <1>13, <1>15, <1>8 DEF Matching
  <1>17. AtWork(s)'
    BY <1>13, <1>16, <1>8 DEF AtWork
  <1> QED
    BY <1>4, <1>13, <1>17, DataKept DEF BankInv, Working

\* A cancellation locks its payment and finds it submitted.
LEMMA BeginCancelKeeps ==
    ASSUME BankInv, NEW s \in Session, NEW p \in Payment, BeginCancel(s, p)
    PROVE  BankInv'
  <1> DEFINE new == [op |-> "cancel", payment |-> p]
  <1>1. /\ Free(s, p) /\ lock' = Locked(s, {p}) /\ Becomes(s, new)
        /\ UNCHANGED <<statement, payment, reconciliation>> /\ payment[p] = "submitted"
    BY DEF BeginCancel, Becomes
  <1>2. new.op = "cancel" /\ new.payment = p
    OBVIOUS
  <1> HIDE DEF new
  <1>3. {p} \in SUBSET (Statement \cup Target) /\ \A x \in {p} : Free(s, x)
    BY <1>1 DEF Target
  <1>4. /\ Typed' /\ session'[s] = new /\ \A x \in {p} : lock'[x] = s
        /\ \A u \in Session \ {s} : AtWork(u)'
    BY <1>1, <1>3, LockingKeeps
  <1>5. AtWork(s)'
    BY <1>1, <1>2, <1>4 DEF AtWork, Cancelling
  <1> QED
    BY <1>1, <1>4, <1>5, DataKept DEF BankInv, Working

\* A cancellation that reads the lines linked to its payment finds them all:
\* nobody else can link one while it holds the payment.
LEMMA ReadLinkedKeeps ==
    ASSUME BankInv, NEW s \in Session, ReadLinked(s)
    PROVE  BankInv'
  <1> DEFINE p == session[s].payment
             read == [op |-> "unlink", payment |-> p, linked |-> LinkedTo(p),
                      reconciled |-> {t \in LinkedTo(p) : statement[t].reconciled}]
  <1>1. session' = [session EXCEPT ![s] = read]
    BY DEF ReadLinked
  <1>2. p \in Payment /\ lock[p] = s /\ payment[p] = "submitted"
    BY DEF ReadLinked, BankInv, Working, AtWork, Cancelling
  <1>3. read.op = "unlink" /\ read.payment = p /\ read.linked = LinkedTo(p)
    OBVIOUS
  <1> HIDE DEF p, read
  <1>4. UNCHANGED <<statement, payment, reconciliation, lock>>
    BY DEF ReadLinked
  <1>5. Typed'
    BY <1>1, <1>4 DEF BankInv, Typed
  <1>6. \A u \in Session \ {s} : AtWork(u)'
    BY <1>1, <1>4, OthersAtWork DEF LinkedTo
  <1>7. session'[s] = read
    BY <1>1 DEF BankInv, Typed
  <1>8. AtWork(s)'
    BY <1>2, <1>4, <1>7, <1>3 DEF AtWork, Cancelling, LinkedTo
  <1> QED
    BY <1>4, <1>5, <1>6, <1>8, DataKept DEF BankInv, Working

\* The end of a transaction releases the locks of its session only.
LEMMA UnlockedKeeps ==
    ASSUME BankInv, NEW s \in Session, lock' = Unlocked(s)
    PROVE  /\ lock' = [x \in Statement \cup Target |-> lock'[x]]
           /\ \A u \in Session \ {s}, x \in Statement \cup Target : lock[x] = u => lock'[x] = u
  BY DEF Unlocked, BankInv, Typed

\* A session that has ended is in a good state.
LEMMA IdleAtWork ==
    ASSUME BankInv, NEW s \in Session, session' = [session EXCEPT ![s] = Idle]
    PROVE  AtWork(s)' /\ session' = [u \in Session |-> session'[u]]
  <1>1. session'[s].op = "idle" /\ session' = [u \in Session |-> session'[u]]
    BY DEF BankInv, Typed, Idle
  <1> QED
    BY <1>1 DEF AtWork

\* A rollback keeps the invariant.
LEMMA RollbackKeeps ==
    ASSUME BankInv, NEW s \in Session, Rollback(s)
    PROVE  BankInv'
  <1> USE DEF Rollback
  <1>1. Typed'
    BY UnlockedKeeps, IdleAtWork DEF BankInv, Typed
  <1>2. \A u \in Session \ {s} : AtWork(u)'
    BY UnlockedKeeps, OthersAtWork DEF LinkedTo
  <1> QED
    BY <1>1, <1>2, IdleAtWork, DataKept DEF BankInv, Working

-----------------------------------------------------------------------------
(* Steps that commit                                                       *)

\* Replacing records one by one gives records.
LEMMA RecordsReplaced ==
    ASSUME NEW old \in Seq(Recorded), NEW new, new = [n \in DOMAIN old |-> new[n]],
           \A n \in DOMAIN old : new[n] \in Recorded
    PROVE  DOMAIN new = DOMAIN old /\ new \in Seq(Recorded)
  <1>1. DOMAIN old = 1 .. Len(old) /\ Len(old) \in Nat
    BY LenProperties
  <1>2. new \in [1 .. Len(old) -> Recorded]
    BY <1>1
  <1> QED
    BY <1>1, <1>2

\* The items of a difference are matched with no payment.
LEMMA ReplayKeeps ==
    ASSUME BankInv, NEW s \in Session, Replay(s)
    PROVE  BankInv'
  <1>1. PICK r, k : /\ r = session[s].request /\ r \in Request
                    /\ reconciliation' = [reconciliation EXCEPT ![k].items = @ \cup Differences(r)]
                    /\ statement' = [t \in Statement |->
                           [statement[t] EXCEPT !.reconciled = @ \/ r.difference[t] > 0]]
    BY DEF Replay, BankInv, Working, AtWork, Matching
  <1>2. UNCHANGED <<payment, lock>> /\ session' = [session EXCEPT ![s] = Idle]
    BY DEF Replay
  <1>3. \A n \in DOMAIN reconciliation : reconciliation[n] \in Recorded
    BY ElementOfSeq, LenProperties DEF BankInv, Typed
  <1>4. \A n \in DOMAIN reconciliation :
           reconciliation'[n] = IF n = k
               THEN [reconciliation[n] EXCEPT !.items = @ \cup Differences(r)] ELSE reconciliation[n]
    BY <1>1
  <1>5. \A n \in DOMAIN reconciliation :
           /\ reconciliation'[n] \in Recorded
           /\ reconciliation[n].items \subseteq reconciliation'[n].items
           /\ reconciliation'[n].items \subseteq reconciliation[n].items \cup Differences(r)
    BY <1>1, <1>3, <1>4, ItemsTyped DEF Recorded
  <1>6. DOMAIN reconciliation' = DOMAIN reconciliation /\ reconciliation' \in Seq(Recorded)
    <2>1. reconciliation' = [n \in DOMAIN reconciliation |-> reconciliation'[n]]
      BY <1>1
    <2> QED
      BY <1>5, <2>1, RecordsReplaced DEF BankInv, Typed
  <1>7. \A t \in Statement : statement'[t].link = statement[t].link
            /\ statement'[t] \in [reconciled : BOOLEAN, link : Payment \cup {NoPayment}]
    BY <1>1 DEF BankInv, Typed
  <1>8. Typed'
    BY <1>1, <1>2, <1>6, <1>7, IdleAtWork DEF BankInv, Typed
  <1>9. \A u \in Session \ {s} : AtWork(u)'
    BY <1>2, <1>7, OthersAtWork DEF LinkedTo
  <1>10. \A m \in Differences(r) : m.target \notin Payment
    BY RequestAssumption DEF Differences, Target
  <1>11. \A t \in Statement, p \in Payment : Matched(t, p)' <=> Matched(t, p)
    BY <1>5, <1>6, <1>10 DEF Matched
  <1>12. MatchesStand' /\ LinksMatched'
    BY <1>2, <1>7, <1>11 DEF BankInv, MatchesStand, LinksMatched
  <1> QED
    BY <1>2, <1>8, <1>9, <1>12, IdleAtWork DEF BankInv, Working

\* Committing a reconciliation matches only payments that stand.
LEMMA CommitReconcileKeeps ==
    ASSUME BankInv, NEW s \in Session, CommitReconcile(s)
    PROVE  BankInv'
  <1>1. PICK r, new :
            /\ r = session[s].request /\ r \in Request
            /\ new = [request |-> r, items |-> Items(r)]
            /\ reconciliation' = Append(reconciliation, new)
            /\ statement' = [t \in Statement |->
                   IF t \in Sources(r)
                   THEN [reconciled |-> statement[t].reconciled \/ Covered(r, t), link |-> Link(r, t)]
                   ELSE statement[t]]
    BY DEF CommitReconcile, BankInv, Working, AtWork, Matching
  <1>2. /\ payment' = payment /\ lock' = Unlocked(s)
        /\ session' = [session EXCEPT ![s] = Idle]
    BY DEF CommitReconcile
  <1>3. \A i \in DOMAIN r.match : lock[r.match[i].target] = s /\ Eligible(r.match[i].target)
    <2>1. session[s].line \in Nat /\ session[s].line > Len(r.match) /\ Matching(s)
      BY <1>1 DEF CommitReconcile, BankInv, Working, AtWork, Matching
    <2>2. \A i \in DOMAIN r.match : i < session[s].line
      BY <1>1, <2>1, RequestShape
    <2> QED
      BY <1>1, <2>2 DEF CommitReconcile, BankInv, Working, AtWork, Matching
  <1>4. new \in Recorded /\ new.items = Items(r)
    BY <1>1, ItemsTyped DEF Recorded
  <1>5. /\ reconciliation' \in Seq(Recorded)
        /\ DOMAIN reconciliation' = DOMAIN reconciliation \cup {Len(reconciliation) + 1}
        /\ \A n \in DOMAIN reconciliation : reconciliation'[n] = reconciliation[n]
        /\ reconciliation'[Len(reconciliation) + 1] = new
    BY <1>1, <1>4, AppendProperties, LenProperties DEF BankInv, Typed
  <1>6. \A m \in Items(r) : m.target \in Payment =>
            \E i \in DOMAIN r.match : r.match[i].target = m.target
    BY RequestAssumption DEF Items, Differences, MatchesOf, Target
  <1>7. \A i \in DOMAIN r.match : \E m \in Items(r) :
            m.live /\ m.source = r.match[i].source /\ m.target = r.match[i].target
    <2>1. ASSUME NEW i \in DOMAIN r.match
          PROVE  \E m \in Items(r) :
                     m.live /\ m.source = r.match[i].source /\ m.target = r.match[i].target
      <3>1. PICK m : m = [source |-> r.match[i].source, target |-> r.match[i].target,
                          amount |-> r.match[i].amount, live |-> TRUE]
        OBVIOUS
      <3>2. m \in Items(r)
        BY <3>1 DEF Items, MatchesOf
      <3>3. m.live /\ m.source = r.match[i].source /\ m.target = r.match[i].target
        BY <3>1
      <3> QED
        BY <3>2, <3>3
    <2> QED
      BY <2>1
  <1>8. \A t \in Statement : \A y : Matched(t, y) => Matched(t, y)'
    BY <1>5 DEF Matched
  <1>9. ASSUME NEW t \in Statement, statement'[t].link # NoPayment
        PROVE  \/ statement'[t].link = statement[t].link
               \/ \E i \in DOMAIN r.match :
                     /\ r.match[i].source = t /\ r.match[i].target = statement'[t].link
                     /\ statement'[t].link \in Payment
    <2>1. CASE t \notin Sources(r)
      BY <1>1, <2>1
    <2>2. CASE t \in Sources(r)
      <3>1. statement'[t].link = Link(r, t)
        BY <1>1, <2>2
      <3> QED
        BY <1>1, <1>9, <3>1, FirstPaymentMatched DEF Link
    <2> QED
      BY <2>1, <2>2
  <1>10. \A t \in Statement : statement'[t] \in [reconciled : BOOLEAN, link : Payment \cup {NoPayment}]
    <2>1. ASSUME NEW t \in Statement, t \in Sources(r)
          PROVE  /\ statement[t].reconciled \/ Covered(r, t) \in BOOLEAN
                 /\ Link(r, t) \in Payment \cup {NoPayment}
      BY <1>1, FirstPaymentMatched DEF Link, BankInv, Typed, Covered
    <2> QED
      BY <1>1, <2>1 DEF BankInv, Typed
  <1>11. Typed'
    BY <1>1, <1>2, <1>5, <1>10, UnlockedKeeps, IdleAtWork DEF BankInv, Typed
  <1>12. \A p \in Payment : lock[p] # s => LinkedTo(p)' \subseteq LinkedTo(p)
    BY <1>3, <1>9, RequestAssumption DEF LinkedTo
  <1>13. \A u \in Session \ {s} : AtWork(u)'
    BY <1>2, <1>12, UnlockedKeeps, OthersAtWork
  <1>14. MatchesStand'
    <2>1. ASSUME NEW t \in Statement, NEW p \in Payment, Matched(t, p)'
          PROVE  payment[p] = "submitted"
      <3>1. Matched(t, p) \/ \E m \in Items(r) : m.target = p
        BY <1>4, <1>5, <2>1 DEF Matched
      <3>2. (\E m \in Items(r) : m.target = p) => payment[p] = "submitted"
        BY <1>3, <1>6 DEF Eligible
      <3> QED
        BY <3>1, <3>2 DEF BankInv, MatchesStand
    <2> QED
      BY <1>2, <2>1 DEF MatchesStand
  <1>15. LinksMatched'
    <2>1. ASSUME NEW t \in Statement, NEW p \in Payment, statement'[t].link = p
          PROVE  Matched(t, p)'
      <3>1. CASE statement'[t].link = statement[t].link
        BY <1>8, <2>1, <3>1 DEF BankInv, LinksMatched
      <3>2. CASE \E i \in DOMAIN r.match : r.match[i].source = t /\ r.match[i].target = p
        <4>1. \E m \in Items(r) : m.live /\ m.source = t /\ m.target = p
          BY <1>7, <3>2
        <4> QED
          BY <1>4, <1>5, <4>1 DEF Matched
      <3> QED
        BY <1>9, <2>1, <3>1, <3>2, RequestAssumption
    <2> QED
      BY <2>1 DEF LinksMatched
  <1> QED
    BY <1>2, <1>11, <1>13, <1>14, <1>15, IdleAtWork DEF BankInv, Working

\* Committing a cancellation ends every match with its payment and every link to
\* it.
LEMMA CommitCancelKeeps ==
    ASSUME BankInv, NEW s \in Session, CommitCancel(s)
    PROVE  BankInv'
  <1> DEFINE p == session[s].payment
             linked == session[s].linked
             reconciled == session[s].reconciled
  <1>0. p \in Payment /\ lock[p] = s /\ LinkedTo(p) \subseteq linked
    BY DEF CommitCancel, BankInv, Working, AtWork, Cancelling
  <1>1. /\ p \in Payment /\ lock[p] = s /\ LinkedTo(p) \subseteq linked
        /\ payment' = [payment EXCEPT ![p] = "cancelled"]
        /\ reconciliation' = [n \in DOMAIN reconciliation |->
               [reconciliation[n] EXCEPT !.items = WithoutPayment(@, p)]]
        /\ statement' = [t \in Statement |->
               IF t \in linked
               THEN [reconciled |-> statement[t].reconciled /\ t \notin reconciled, link |-> NoPayment]
               ELSE statement[t]]
    BY <1>0 DEF CommitCancel
  <1>2. lock' = Unlocked(s) /\ session' = [session EXCEPT ![s] = Idle]
    BY DEF CommitCancel
  <1> HIDE DEF p, linked, reconciled
  <1>3. \A n \in DOMAIN reconciliation : reconciliation[n] \in Recorded
    BY ElementOfSeq, LenProperties DEF BankInv, Typed
  <1>4. \A items \in SUBSET Item :
           /\ WithoutPayment(items, p) \in SUBSET Item
           /\ \A m \in WithoutPayment(items, p) : m.live => m \in items /\ m.target # p
           /\ \A m \in items : m.target # p => m \in WithoutPayment(items, p)
    <2>1. \A m \in Item : [m EXCEPT !.live = FALSE] \in Item /\ ~[m EXCEPT !.live = FALSE].live
      BY DEF Item
    <2> QED
      BY <2>1 DEF WithoutPayment
  <1>5. \A n \in DOMAIN reconciliation :
           /\ reconciliation'[n] \in Recorded
           /\ reconciliation'[n].items = WithoutPayment(reconciliation[n].items, p)
           /\ reconciliation[n].items \in SUBSET Item
    BY <1>1, <1>3, <1>4 DEF Recorded
  <1>6. DOMAIN reconciliation' = DOMAIN reconciliation /\ reconciliation' \in Seq(Recorded)
    <2>1. reconciliation' = [n \in DOMAIN reconciliation |-> reconciliation'[n]]
      BY <1>1
    <2> QED
      BY <1>5, <2>1, RecordsReplaced DEF BankInv, Typed
  <1>7. \A t \in Statement, q \in Payment : Matched(t, q)' <=> Matched(t, q) /\ q # p
    BY <1>4, <1>5, <1>6 DEF Matched
  <1>8. \A t \in Statement :
           /\ statement'[t] \in [reconciled : BOOLEAN, link : Payment \cup {NoPayment}]
           /\ statement'[t].link = IF t \in linked THEN NoPayment ELSE statement[t].link
    BY <1>1 DEF BankInv, Typed
  <1>9. Typed'
    BY <1>1, <1>2, <1>6, <1>8, UnlockedKeeps, IdleAtWork DEF BankInv, Typed
  <1>10. \A q \in Payment : LinkedTo(q)' \subseteq LinkedTo(q) /\ (q # p => payment'[q] = payment[q])
    BY <1>1, <1>8, RequestAssumption DEF LinkedTo, BankInv, Typed
  <1>11. \A u \in Session \ {s} : AtWork(u)'
    BY <1>1, <1>2, <1>10, UnlockedKeeps, OthersAtWork
  <1>12. MatchesStand'
    BY <1>7, <1>10 DEF BankInv, MatchesStand
  <1>13. LinksMatched'
    BY <1>1, <1>7, <1>8, RequestAssumption DEF BankInv, LinksMatched, LinkedTo
  <1> QED
    BY <1>2, <1>9, <1>11, <1>12, <1>13, IdleAtWork DEF BankInv, Working

\* Every step keeps the invariant.
LEMMA NextBank == BankInv /\ [Next]_vars => BankInv'
  <1> SUFFICES ASSUME BankInv, [Next]_vars PROVE BankInv'
    OBVIOUS
  <1>1. ASSUME NEW s \in Session, NEW r \in Request, BeginReconcile(s, r) PROVE BankInv'
    BY <1>1, BeginReconcileKeeps
  <1>2. ASSUME NEW s \in Session, LockSources(s) PROVE BankInv'
    BY <1>2, LockSourcesKeeps
  <1>3. ASSUME NEW s \in Session, Replay(s) PROVE BankInv'
    BY <1>3, ReplayKeeps
  <1>4. ASSUME NEW s \in Session, AddMatch(s) PROVE BankInv'
    BY <1>4, AddMatchKeeps
  <1>5. ASSUME NEW s \in Session, CommitReconcile(s) PROVE BankInv'
    BY <1>5, CommitReconcileKeeps
  <1>6. ASSUME NEW s \in Session, NEW p \in Payment, BeginCancel(s, p) PROVE BankInv'
    BY <1>6, BeginCancelKeeps
  <1>7. ASSUME NEW s \in Session, ReadLinked(s) PROVE BankInv'
    BY <1>7, ReadLinkedKeeps
  <1>8. ASSUME NEW s \in Session, CommitCancel(s) PROVE BankInv'
    BY <1>8, CommitCancelKeeps
  <1>9. ASSUME NEW s \in Session, Rollback(s) PROVE BankInv'
    BY <1>9, RollbackKeeps
  <1>10. CASE UNCHANGED vars
    <2>1. Typed'
      BY <1>10 DEF vars, BankInv, Typed
    <2>2. ASSUME NEW s \in Session PROVE AtWork(s)'
      <3>1. AtWork(s)
        BY DEF BankInv, Working
      <3>2. Matching(s) => Matching(s)'
        BY <1>10 DEF vars, Matching, Eligible
      <3>3. Cancelling(s) => Cancelling(s)'
        BY <1>10 DEF vars, Cancelling, LinkedTo
      <3> QED
        BY <1>10, <3>1, <3>2, <3>3 DEF vars, AtWork
    <2> QED
      BY <1>10, <2>1, <2>2, DataKept DEF vars, BankInv, Working
  <1> QED
    BY <1>1, <1>2, <1>3, <1>4, <1>5, <1>6, <1>7, <1>8, <1>9, <1>10 DEF Next

-----------------------------------------------------------------------------

\* The inductive invariant of bank reconciliation: whoever matches a payment, or
\* cancels it, holds its row until the commit, and a cancellation has read every
\* line that is linked to its payment (_add_reconciliation_match,
\* _apply_payment_cancellation_hooks).
THEOREM BankInvariant == Spec => []BankInv
  BY InitBank, NextBank, PTL DEF Spec

\* The live items, with the reconciliation they belong to.
LEMMA LiveItems ==
    \A x : x \in Live <=>
        \E n \in DOMAIN reconciliation : \E m \in reconciliation[n].items : x = <<n, m>> /\ m.live
  BY DEF Live

\* No payment that was cancelled is matched with a statement line, whoever was
\* matching it meanwhile (bancos/services.py, _apply_payment_cancellation_hooks).
THEOREM CancelledNeverMatched == Spec => []CancelledPaymentUnmatched
  <1>1. BankInv => CancelledPaymentUnmatched
    <2> SUFFICES ASSUME BankInv, NEW x \in Live, NEW p \in Payment, payment[p] = "cancelled",
                        x[2].target = p
                 PROVE  FALSE
      BY DEF CancelledPaymentUnmatched
    <2>0. PICK n \in DOMAIN reconciliation :
              \E m \in reconciliation[n].items : x = <<n, m>> /\ m.live
      BY LiveItems
    <2>1. PICK m \in reconciliation[n].items : x = <<n, m>> /\ m.live
      BY <2>0
    <2>2. m.source \in Statement /\ m.target = p
      <3>1. reconciliation[n] \in Recorded
        BY ElementOfSeq, LenProperties DEF BankInv, Typed
      <3> QED
        BY <2>1, <3>1 DEF Recorded, Item
    <2>3. Matched(m.source, p)
      BY <2>1, <2>2 DEF Matched
    <2> QED
      BY <2>2, <2>3 DEF BankInv, MatchesStand
  <1> QED
    BY <1>1, BankInvariant, PTL

\* A statement line refers to a payment only while a match of the two is in
\* force (_populate_payment_entry_id and the cancellation of the payment).
THEOREM LinkAlwaysMatched == Spec => []LinkHasMatch
  <1>1. BankInv => LinkHasMatch
    <2> SUFFICES ASSUME BankInv, NEW t \in Statement, statement[t].link # NoPayment
                 PROVE  \E x \in Live : x[2].source = t /\ x[2].target = statement[t].link
      BY DEF LinkHasMatch
    <2>1. Matched(t, statement[t].link)
      BY DEF BankInv, Typed, LinksMatched
    <2>0. PICK n \in DOMAIN reconciliation :
              \E m \in reconciliation[n].items :
                  m.live /\ m.source = t /\ m.target = statement[t].link
      BY <2>1 DEF Matched
    <2>2. PICK m \in reconciliation[n].items :
              m.live /\ m.source = t /\ m.target = statement[t].link
      BY <2>0
    <2>3. <<n, m>> \in Live /\ <<n, m>>[2] = m
      BY <2>2, LiveItems
    <2> QED
      BY <2>2, <2>3
  <1> QED
    BY <1>1, BankInvariant, PTL

-----------------------------------------------------------------------------
(* Totals                                                                  *)

\* A finite set of items whose amounts are naturals.
Counted(S) == IsFiniteSet(S) /\ \A x \in S : x[2].amount \in Nat

\* A total is the sum of any function with the amounts.
LEMMA TotalIs ==
    ASSUME NEW S, Counted(S), NEW f, \A x \in S : f[x] = x[2].amount
    PROVE  Total(S) = SumFunctionOnSet(f, S)
  <1> DEFINE g == [x \in S |-> x[2].amount]
  <1>1. \A x \in S : g[x] \in Int /\ g[x] = f[x]
    BY DEF Counted
  <1>2. Total(S) = SumFunctionOnSet(g, S)
    BY DEF Total, SumFunction
  <1> HIDE DEF g
  <1>3. SumFunctionOnSet(g, S) = SumFunctionOnSet(f, S)
    BY <1>1, SumSame DEF Counted
  <1> QED
    BY <1>2, <1>3, Zenon

\* So is each of its subsets,
LEMMA CountedSubset == \A S, T : Counted(S) /\ T \subseteq S => Counted(T)
  BY FS_Subset DEF Counted

\* and its union with another.
LEMMA CountedUnion == \A S, T : Counted(S) /\ Counted(T) => Counted(S \cup T)
  <1> SUFFICES ASSUME NEW S, NEW T, Counted(S), Counted(T) PROVE Counted(S \cup T)
    OBVIOUS
  <1>1. IsFiniteSet(S \cup T)
    BY UnionFinite, Zenon DEF Counted
  <1> QED
    BY <1>1 DEF Counted

\* Its total is a natural.
LEMMA TotalNat ==
    ASSUME NEW S, Counted(S)
    PROVE  Total(S) \in Nat
  <1>1. PICK f : f = [x \in S |-> x[2].amount]
    OBVIOUS
  <1>2. \A x \in S : f[x] = x[2].amount /\ f[x] \in Nat
    BY <1>1 DEF Counted
  <1>3. SumFunctionOnSet(f, S) \in Nat
    BY <1>2, SumNatural DEF Counted
  <1>4. Total(S) = SumFunctionOnSet(f, S)
    BY <1>2, TotalIs
  <1> QED
    BY <1>3, <1>4, Zenon

\* What two sets have together, when they have nothing in common.
LEMMA TotalUnion ==
    ASSUME NEW S, NEW T, Counted(S), Counted(T), S \cap T = {}
    PROVE  Total(S \cup T) = Total(S) + Total(T)
  <1>1. PICK f : f = [x \in S \cup T |-> x[2].amount]
    OBVIOUS
  <1>2. /\ \A x \in S \cup T : f[x] = x[2].amount /\ f[x] \in Int
        /\ \A x \in S : f[x] = x[2].amount
        /\ \A x \in T : f[x] = x[2].amount
    BY <1>1 DEF Counted
  <1>3. SumFunctionOnSet(f, S \cup T) = SumFunctionOnSet(f, S) + SumFunctionOnSet(f, T)
    BY <1>2, SumUnion DEF Counted
  <1>4. Total(S) = SumFunctionOnSet(f, S)
    BY <1>2, TotalIs
  <1>5. Total(T) = SumFunctionOnSet(f, T)
    BY <1>2, TotalIs
  <1>6. Total(S \cup T) = SumFunctionOnSet(f, S \cup T)
    BY <1>2, TotalIs, CountedUnion
  <1> QED
    BY <1>3, <1>4, <1>5, <1>6, Zenon

\* A part of it totals no more.
LEMMA TotalSubset ==
    ASSUME NEW S, Counted(S), NEW T, T \subseteq S
    PROVE  Total(T) <= Total(S)
  <1>1. Counted(T) /\ Counted(S \ T)
    BY CountedSubset
  <1>2. PICK R : R = S \ T
    OBVIOUS
  <1>3. T \cup R = S /\ T \cap R = {} /\ Counted(R)
    BY <1>1, <1>2
  <1>4. Total(T \cup R) = Total(T) + Total(R)
    BY <1>1, <1>3, TotalUnion
  <1>5. Total(T) \in Nat
    BY <1>1, TotalNat
  <1>6. Total(R) \in Nat
    BY <1>3, TotalNat
  <1>7. Total(S) = Total(T) + Total(R)
    BY <1>3, <1>4
  <1> QED
    BY <1>5, <1>6, <1>7

\* Two sets have together what each has, at most.
LEMMA TotalTogether ==
    ASSUME NEW S, NEW T, Counted(S), Counted(T)
    PROVE  Total(S \cup T) <= Total(S) + Total(T)
  <1>1. PICK R : R = T \ S
    OBVIOUS
  <1>2. Counted(R) /\ S \cap R = {} /\ S \cup R = S \cup T /\ R \subseteq T
    BY <1>1, CountedSubset
  <1>3. Total(S \cup R) = Total(S) + Total(R)
    BY <1>2, TotalUnion
  <1>4. Total(R) <= Total(T)
    BY <1>2, TotalSubset
  <1>5. Total(S) \in Nat
    BY TotalNat
  <1>6. Total(R) \in Nat
    BY <1>2, TotalNat
  <1>7. Total(T) \in Nat
    BY TotalNat
  <1>8. Total(S \cup T) = Total(S) + Total(R)
    BY <1>2, <1>3
  <1> QED
    BY <1>4, <1>5, <1>6, <1>7, <1>8

\* Nothing totals zero.
LEMMA TotalEmpty == Total({}) = 0 /\ Counted({})
  <1>1. Counted({})
    BY FS_EmptySet DEF Counted
  <1>2. PICK f : f = [x \in {} |-> x[2].amount]
    OBVIOUS
  <1>3. \A x \in {} : f[x] = x[2].amount
    OBVIOUS
  <1>4. Total({}) = SumFunctionOnSet(f, {})
    BY <1>1, <1>3, TotalIs
  <1>5. SumFunctionOnSet(f, {}) = 0
    BY SumEmpty
  <1> QED
    BY <1>1, <1>4, <1>5, Zenon

\* One item totals its amount.
LEMMA TotalOne ==
    ASSUME NEW x, x[2].amount \in Nat
    PROVE  Counted({x}) /\ Total({x}) = x[2].amount
  <1>1. IsFiniteSet({x})
    BY FS_Singleton
  <1>2. Counted({x})
    BY <1>1 DEF Counted
  <1>3. PICK f : f = [z \in {x} |-> z[2].amount]
    OBVIOUS
  <1>4. f[x] = x[2].amount /\ \A z \in {x} : f[z] = z[2].amount
    BY <1>3
  <1>5. Total({x}) = SumFunctionOnSet(f, {x})
    BY <1>2, <1>4, TotalIs
  <1>6. f[x] \in Int
    BY <1>4
  <1>7. SumFunctionOnSet(f, {x}) = f[x]
    BY <1>6, SumSingleton, Zenon
  <1> QED
    BY <1>2, <1>4, <1>5, <1>7, Zenon

\* What is made of some rows, amount by amount, has their total at most: rows
\* that are made the same count once.
LEMMA TotalImage ==
    ASSUME NEW S, Counted(S), NEW at, \A x \in S : at[x][2].amount = x[2].amount
    PROVE  LET image == {at[x] : x \in S} IN Counted(image) /\ Total(image) <= Total(S)
  <1> DEFINE image == {at[x] : x \in S}
             from(b) == CHOOSE x \in S : at[x] = b
             kept == {from(b) : b \in image}
  <1>1. \A b \in image : from(b) \in S /\ at[from(b)] = b
    OBVIOUS
  <1>2. kept \subseteq S
    BY <1>1
  <1>3. /\ \A x, y \in kept : at[x] = at[y] => x = y
        /\ {at[x] : x \in kept} = image
    <2> HIDE DEF from
    <2>1. \A x \in kept : x = from(at[x]) /\ at[x] \in image
      BY <1>1
    <2>2. \A b \in image : from(b) \in kept /\ at[from(b)] = b
      BY <1>1
    <2>3. \A x, y \in kept : at[x] = at[y] => x = y
      BY <2>1
    <2> HIDE DEF kept, image
    <2>4. {at[x] : x \in kept} = image
      BY <2>1, <2>2
    <2> QED
      BY <2>3, <2>4
  <1>4. PICK f, g : f = [b \in image |-> b[2].amount] /\ g = [x \in S |-> x[2].amount]
    OBVIOUS
  <1>5. /\ \A b \in image : f[b] = b[2].amount
        /\ \A x \in S : at[x] \in image /\ g[x] = x[2].amount /\ g[x] \in Nat
    BY <1>4 DEF Counted
  <1> HIDE DEF kept, image, from
  <1>6. \A x \in kept : f[at[x]] \in Int /\ g[x] = f[at[x]]
    BY <1>2, <1>5
  <1>7. Counted(kept)
    BY <1>2, CountedSubset
  <1>8. /\ IsFiniteSet({at[x] : x \in kept})
        /\ SumFunctionOnSet(f, {at[x] : x \in kept}) = SumFunctionOnSet(g, kept)
    <2>1. IsFiniteSet(kept)
      BY <1>7 DEF Counted
    <2> QED
      BY <1>3, <1>6, <2>1, SumImage
  <1>9. Counted(image)
    <2>1. \A b \in image : b[2].amount \in Nat
      BY <1>5 DEF image, Counted
    <2> QED
      BY <1>3, <1>8, <2>1 DEF Counted
  <1>10. Total(image) = SumFunctionOnSet(f, image)
    BY <1>5, <1>9, TotalIs
  <1>11. Total(kept) = SumFunctionOnSet(g, kept)
    BY <1>2, <1>5, <1>7, TotalIs
  <1>12. Total(kept) <= Total(S)
    BY <1>2, TotalSubset
  <1>13. Total(image) = Total(kept)
    BY <1>3, <1>8, <1>10, <1>11, Zenon
  <1>14. Total(image) <= Total(S)
    BY <1>12, <1>13, Zenon
  <1> QED
    BY <1>9, <1>14 DEF image

-----------------------------------------------------------------------------
(* Locks, amounts and requests                                             *)

\* A lock is held by a session that has begun to match or to cancel.
LocksAtWork ==
    \A x \in Statement \cup Target : lock[x] # NoSession =>
        lock[x] \in Session /\ session[lock[x]].op \in {"match", "cancel", "unlink"}

\* What is matched to a target.
OfTarget(y) == {x \in Live : x[2].target = y}
\* What is matched from a statement line, differences apart.
MatchedOf(t) == {x \in Live : x[2].source = t /\ x[2].target # "difference"}
\* The lines of a request before its n-th, to a target.
BeforeTo(r, n, y) == {x \in Before(r, n) : x[2].target = y}
\* The lines of a request before its n-th, from a statement line.
BeforeOf(r, n, t) == {x \in Before(r, n) : x[2].source = t}

\* The matches that the request of a reconciliation asked for.
Asked(n) == MatchesOf(reconciliation[n].request)

\* A session that matches holds the rows of its lines, what its matches so far
\* add to what is committed fits, and nobody has reconciled the same before it
\* in a way that still stands.
Claims(s) == session[s].op = "match" =>
    LET r == session[s].request
        n == session[s].line
    IN /\ n <= Len(r.match) + 1
       /\ \A t \in Sources(r) : lock[t] = s
       /\ \A y \in Target : Total(OfTarget(y)) + Total(BeforeTo(r, n, y)) <= Amount[y]
       /\ \A t \in Statement : Total(MatchedOf(t)) + Total(BeforeOf(r, n, t)) <= Amount[t]
       /\ \A i \in DOMAIN reconciliation : Asked(i) = MatchesOf(r) /\ Asked(i) # {} => Changed(i)

\* The item is the one that was asked for.
Alike(m, q) == m.source = q.source /\ m.target = q.target /\ m.amount = q.amount

\* The items of a reconciliation are what was asked for, differences apart.
ItemsAsAsked(n) ==
    /\ \A m \in reconciliation[n].items : m.target # "difference" => \E q \in Asked(n) : Alike(m, q)
    /\ \A q \in Asked(n) : \E m \in reconciliation[n].items : Alike(m, q)

\* The inductive invariant of the amounts.
AmountsInv ==
    /\ BankInv
    /\ LocksAtWork
    /\ Counted(Live)
    /\ \A n \in DOMAIN reconciliation : ItemsAsAsked(n)
    /\ MatchesWithinAmounts
    /\ RequestsApplyOnce
    /\ \A s \in Session : Claims(s)

-----------------------------------------------------------------------------
(* Sets of matches                                                         *)

\* The live items by target and by statement line are finite and counted.
LEMMA LiveParts ==
    ASSUME Counted(Live)
    PROVE  /\ \A y : Counted(OfTarget(y)) /\ Total(OfTarget(y)) \in Nat
           /\ \A t : Counted(MatchedOf(t)) /\ Total(MatchedOf(t)) \in Nat
                     /\ Total(MatchedOf(t)) <= AllocatedFromSource(t)
                     /\ AllocatedFromSource(t) \in Nat
  <1>1. ASSUME NEW y PROVE Counted(OfTarget(y)) /\ Total(OfTarget(y)) \in Nat
    <2>1. Counted(OfTarget(y))
      BY CountedSubset DEF OfTarget
    <2> QED
      BY <2>1, TotalNat
  <1>2. ASSUME NEW t PROVE /\ Counted(MatchedOf(t)) /\ Total(MatchedOf(t)) \in Nat
                           /\ Total(MatchedOf(t)) <= AllocatedFromSource(t)
                           /\ AllocatedFromSource(t) \in Nat
    <2>1. PICK S : S = {x \in Live : x[2].source = t}
      OBVIOUS
    <2>2. Counted(S) /\ MatchedOf(t) \subseteq S
      BY <2>1, CountedSubset DEF MatchedOf
    <2>3. Counted(MatchedOf(t))
      BY <2>2, CountedSubset
    <2>4. Total(MatchedOf(t)) <= Total(S)
      BY <2>2, TotalSubset
    <2>5. Total(S) \in Nat
      BY <2>2, TotalNat
    <2>6. Total(MatchedOf(t)) \in Nat
      BY <2>3, TotalNat
    <2>7. AllocatedFromSource(t) = Total(S)
      BY <2>1 DEF AllocatedFromSource
    <2> QED
      BY <2>3, <2>4, <2>5, <2>6, <2>7
  <1> QED
    BY <1>1, <1>2

\* The lines of a request before one of them, or before its end.
LEMMA LinesBefore ==
    ASSUME NEW r \in Request, NEW n \in Nat \ {0}, n <= Len(r.match) + 1
    PROVE  /\ Counted(Before(r, n))
           /\ \A x \in Before(r, n) : \E i \in DOMAIN r.match : i < n /\ x = <<i, r.match[i]>>
           /\ \A i \in DOMAIN r.match : i < n => <<i, r.match[i]>> \in Before(r, n)
  <1>1. /\ DOMAIN r.match = 1 .. Len(r.match) /\ Len(r.match) \in Nat
        /\ \A i \in DOMAIN r.match : r.match[i].amount \in Nat
    BY RequestShape DEF Match
  <1>2. PICK at : at = [i \in 1 .. n - 1 |-> <<i, r.match[i]>>]
    OBVIOUS
  <1>3. Before(r, n) = {at[i] : i \in 1 .. n - 1}
    BY <1>2 DEF Before
  <1>4. IsFiniteSet(1 .. n - 1)
    BY FS_Interval
  <1>5. IsFiniteSet({at[i] : i \in 1 .. n - 1})
    BY <1>4, ImageFinite
  <1>6. \A i \in 1 .. n - 1 : i \in DOMAIN r.match /\ i < n
    BY <1>1
  <1>7. \A x \in Before(r, n) : \E i \in DOMAIN r.match : i < n /\ x = <<i, r.match[i]>>
    BY <1>6 DEF Before
  <1>8. \A x \in Before(r, n) : x[2].amount \in Nat
    BY <1>1, <1>7
  <1>9. \A i \in DOMAIN r.match : i < n => <<i, r.match[i]>> \in Before(r, n)
    BY <1>1 DEF Before
  <1>10. Counted(Before(r, n))
    BY <1>3, <1>5, <1>8 DEF Counted
  <1> QED
    BY <1>7, <1>9, <1>10

\* The lines of a request by target and by statement line are finite and counted.
LEMMA LinesParts ==
    ASSUME NEW r \in Request, NEW n \in Nat \ {0}, n <= Len(r.match) + 1
    PROVE  /\ \A y : Counted(BeforeTo(r, n, y)) /\ Total(BeforeTo(r, n, y)) \in Nat
           /\ \A t : Counted(BeforeOf(r, n, t)) /\ Total(BeforeOf(r, n, t)) \in Nat
           /\ \A y : ~(\E i \in DOMAIN r.match : i < n /\ r.match[i].target = y) =>
                  Total(BeforeTo(r, n, y)) = 0
           /\ \A t : t \notin Sources(r) => Total(BeforeOf(r, n, t)) = 0
  <1>0. /\ Counted(Before(r, n))
        /\ \A x \in Before(r, n) : \E i \in DOMAIN r.match : i < n /\ x = <<i, r.match[i]>>
    BY LinesBefore
  <1>1. ASSUME NEW y PROVE Counted(BeforeTo(r, n, y)) /\ Total(BeforeTo(r, n, y)) \in Nat
    <2>1. Counted(BeforeTo(r, n, y))
      BY <1>0, CountedSubset DEF BeforeTo
    <2> QED
      BY <2>1, TotalNat
  <1>2. ASSUME NEW t PROVE Counted(BeforeOf(r, n, t)) /\ Total(BeforeOf(r, n, t)) \in Nat
    <2>1. Counted(BeforeOf(r, n, t))
      BY <1>0, CountedSubset DEF BeforeOf
    <2> QED
      BY <2>1, TotalNat
  <1>3. ASSUME NEW y, ~(\E i \in DOMAIN r.match : i < n /\ r.match[i].target = y)
        PROVE Total(BeforeTo(r, n, y)) = 0
    <2>1. BeforeTo(r, n, y) = {}
      BY <1>0, <1>3 DEF BeforeTo
    <2> QED
      BY <2>1, TotalEmpty
  <1>4. ASSUME NEW t, t \notin Sources(r) PROVE Total(BeforeOf(r, n, t)) = 0
    <2>1. \A i \in DOMAIN r.match : r.match[i].source # t
      BY <1>4 DEF Sources, MatchesOf
    <2>2. BeforeOf(r, n, t) = {}
      BY <1>0, <2>1 DEF BeforeOf
    <2> QED
      BY <2>2, TotalEmpty
  <1> QED
    BY <1>1, <1>2, <1>3, <1>4

\* One line more.
LEMMA OneLineMore ==
    ASSUME NEW r \in Request, NEW n \in DOMAIN r.match
    PROVE  /\ n \in Nat \ {0} /\ n <= Len(r.match) + 1 /\ n + 1 <= Len(r.match) + 1
           /\ r.match[n].amount \in Nat
           /\ \A y : Total(BeforeTo(r, n + 1, y)) <=
                  Total(BeforeTo(r, n, y)) + (IF y = r.match[n].target THEN r.match[n].amount ELSE 0)
           /\ \A t : Total(BeforeOf(r, n + 1, t)) <=
                  Total(BeforeOf(r, n, t)) + (IF t = r.match[n].source THEN r.match[n].amount ELSE 0)
  <1>1. /\ n \in Nat \ {0} /\ n <= Len(r.match) + 1 /\ n + 1 <= Len(r.match) + 1
        /\ r.match[n].amount \in Nat
    BY RequestShape DEF Match
  <1>2. PICK x : x = <<n, r.match[n]>>
    OBVIOUS
  <1>3. x[2] = r.match[n] /\ x[2].amount \in Nat
    BY <1>1, <1>2
  <1>4. Before(r, n + 1) = Before(r, n) \cup {x}
    <2>1. 1 .. (n + 1) - 1 = (1 .. n - 1) \cup {n}
      BY <1>1
    <2> QED
      BY <1>2, <2>1 DEF Before
  <1>5. Counted({x}) /\ Total({x}) = r.match[n].amount
    BY <1>3, TotalOne
  <1>6. ASSUME NEW y
        PROVE Total(BeforeTo(r, n + 1, y)) <=
                  Total(BeforeTo(r, n, y)) + (IF y = r.match[n].target THEN r.match[n].amount ELSE 0)
    <2>0. Counted(BeforeTo(r, n, y)) /\ Total(BeforeTo(r, n, y)) \in Nat
      BY <1>1, LinesParts
    <2>1. CASE y = r.match[n].target
      <3>1. BeforeTo(r, n + 1, y) = BeforeTo(r, n, y) \cup {x}
        BY <1>3, <1>4, <2>1 DEF BeforeTo
      <3>2. Total(BeforeTo(r, n, y) \cup {x}) <= Total(BeforeTo(r, n, y)) + Total({x})
        BY <1>5, <2>0, TotalTogether
      <3> QED
        BY <1>5, <2>1, <3>1, <3>2
    <2>2. CASE y # r.match[n].target
      <3>1. BeforeTo(r, n + 1, y) = BeforeTo(r, n, y)
        BY <1>3, <1>4, <2>2 DEF BeforeTo
      <3> QED
        BY <2>0, <2>2, <3>1
    <2> QED
      BY <2>1, <2>2
  <1>7. ASSUME NEW t
        PROVE Total(BeforeOf(r, n + 1, t)) <=
                  Total(BeforeOf(r, n, t)) + (IF t = r.match[n].source THEN r.match[n].amount ELSE 0)
    <2>0. Counted(BeforeOf(r, n, t)) /\ Total(BeforeOf(r, n, t)) \in Nat
      BY <1>1, LinesParts
    <2>1. CASE t = r.match[n].source
      <3>1. BeforeOf(r, n + 1, t) = BeforeOf(r, n, t) \cup {x}
        BY <1>3, <1>4, <2>1 DEF BeforeOf
      <3>2. Total(BeforeOf(r, n, t) \cup {x}) <= Total(BeforeOf(r, n, t)) + Total({x})
        BY <1>5, <2>0, TotalTogether
      <3> QED
        BY <1>5, <2>1, <3>1, <3>2
    <2>2. CASE t # r.match[n].source
      <3>1. BeforeOf(r, n + 1, t) = BeforeOf(r, n, t)
        BY <1>3, <1>4, <2>2 DEF BeforeOf
      <3> QED
        BY <2>0, <2>2, <3>1
    <2> QED
      BY <2>1, <2>2
  <1> QED
    BY <1>1, <1>6, <1>7

-----------------------------------------------------------------------------
(* Steps that add no match                                                 *)

\* Live items have natural amounts,
LEMMA LiveTyped == BankInv => \A x \in Live : x[2].amount \in Nat
  <1> SUFFICES ASSUME BankInv, NEW x \in Live PROVE x[2].amount \in Nat
    OBVIOUS
  <1>1. PICK n \in DOMAIN reconciliation : \E m \in reconciliation[n].items : x = <<n, m>> /\ m.live
    BY LiveItems
  <1>2. PICK m \in reconciliation[n].items : x = <<n, m>>
    BY <1>1
  <1>3. reconciliation[n] \in Recorded
    BY ElementOfSeq, LenProperties DEF BankInv, Typed
  <1> QED
    BY <1>2, <1>3 DEF Recorded, Item

\* in the next state too,
LEMMA LiveTypedNext == BankInv' => \A x \in Live' : x[2].amount \in Nat
  <1>1. (BankInv => \A x \in Live : x[2].amount \in Nat)'
    BY LiveTyped, PTL
  <1> QED
    BY <1>1

\* where they are those of the reconciliations as they will be.
LEMMA LiveItemsNext ==
    \A x : x \in Live' <=>
        \E n \in DOMAIN reconciliation' : \E m \in reconciliation'[n].items : x = <<n, m>> /\ m.live
  BY DEF Live

\* What replays and cancellations do to the reconciliations: nothing comes to
\* life but differences, and no item disappears.
OnlyTouched ==
    /\ DOMAIN reconciliation' = DOMAIN reconciliation
    /\ \A n \in DOMAIN reconciliation :
         /\ reconciliation'[n].request = reconciliation[n].request
         /\ \A m \in reconciliation'[n].items :
              /\ m.target # "difference" /\ m.live => m \in reconciliation[n].items
              /\ m.target # "difference" => \E o \in reconciliation[n].items : Alike(m, o)
         /\ \A o \in reconciliation[n].items :
              \E m \in reconciliation'[n].items : Alike(m, o) /\ (~o.live => ~m.live)
    /\ Counted(Live')

\* Less is matched, and what was asked for and what has changed stay so.
LEMMA TouchedParts ==
    ASSUME AmountsInv, OnlyTouched
    PROVE  /\ \A y \in Target : Total(OfTarget(y)') <= Total(OfTarget(y)) /\ Total(OfTarget(y)') \in Nat
           /\ \A t \in Statement :
                 Total(MatchedOf(t)') <= Total(MatchedOf(t)) /\ Total(MatchedOf(t)') \in Nat
           /\ \A n \in DOMAIN reconciliation :
                 Asked(n)' = Asked(n) /\ (Changed(n) => Changed(n)') /\ ItemsAsAsked(n)'
  <1>1. \A x \in Live' : x[2].target # "difference" => x \in Live
    <2> SUFFICES ASSUME NEW x \in Live', x[2].target # "difference" PROVE x \in Live
      OBVIOUS
    <2>1. PICK n \in DOMAIN reconciliation' :
              \E m \in reconciliation'[n].items : x = <<n, m>> /\ m.live
      BY LiveItemsNext
    <2>2. PICK m \in reconciliation'[n].items : x = <<n, m>> /\ m.live
      BY <2>1
    <2>3. m \in reconciliation[n].items /\ n \in DOMAIN reconciliation
      BY <2>2 DEF OnlyTouched
    <2> QED
      BY <2>2, <2>3, LiveItems
  <1>2. Counted(Live) /\ Counted(Live')
    BY DEF AmountsInv, OnlyTouched
  <1>3. ASSUME NEW y \in Target
        PROVE Total(OfTarget(y)') <= Total(OfTarget(y)) /\ Total(OfTarget(y)') \in Nat
    <2>1. OfTarget(y)' \subseteq OfTarget(y)
      BY <1>1, RequestAssumption DEF OfTarget
    <2>2. Counted(OfTarget(y))
      BY <1>2, LiveParts
    <2>3. Counted(OfTarget(y)')
      BY <2>1, <2>2, CountedSubset
    <2>4. Total(OfTarget(y)') \in Nat
      BY <2>3, TotalNat
    <2> QED
      BY <2>1, <2>2, <2>4, TotalSubset
  <1>4. ASSUME NEW t \in Statement
        PROVE Total(MatchedOf(t)') <= Total(MatchedOf(t)) /\ Total(MatchedOf(t)') \in Nat
    <2>1. MatchedOf(t)' \subseteq MatchedOf(t)
      BY <1>1 DEF MatchedOf
    <2>2. Counted(MatchedOf(t))
      BY <1>2, LiveParts
    <2>3. Counted(MatchedOf(t)')
      BY <2>1, <2>2, CountedSubset
    <2>4. Total(MatchedOf(t)') \in Nat
      BY <2>3, TotalNat
    <2> QED
      BY <2>1, <2>2, <2>4, TotalSubset
  <1>5. ASSUME NEW n \in DOMAIN reconciliation
        PROVE Asked(n)' = Asked(n) /\ (Changed(n) => Changed(n)') /\ ItemsAsAsked(n)'
    <2>1. Asked(n)' = Asked(n)
      BY DEF OnlyTouched, Asked
    <2>2. ASSUME Changed(n) PROVE Changed(n)'
      <3>1. PICK o \in reconciliation[n].items : ~o.live \/ o.target = "difference"
        BY <2>2 DEF Changed
      <3>2. PICK m \in reconciliation'[n].items : Alike(m, o) /\ (~o.live => ~m.live)
        BY DEF OnlyTouched
      <3> QED
        BY <3>1, <3>2 DEF Changed, Alike
    <2>3. ItemsAsAsked(n)'
      <3>1. ItemsAsAsked(n)
        BY DEF AmountsInv
      <3>2. \A m \in reconciliation'[n].items : m.target # "difference" => \E q \in Asked(n) : Alike(m, q)
        BY <3>1 DEF OnlyTouched, ItemsAsAsked, Alike
      <3>3. \A q \in Asked(n) : \E m \in reconciliation'[n].items : Alike(m, q)
        BY <3>1 DEF OnlyTouched, ItemsAsAsked, Alike
      <3> QED
        BY <2>1, <3>2, <3>3 DEF ItemsAsAsked
    <2> QED
      BY <2>1, <2>2, <2>3
  <1> QED
    BY <1>3, <1>4, <1>5

\* The committed part of the invariant after such a step.
LEMMA TouchedKeeps ==
    ASSUME AmountsInv, OnlyTouched
    PROVE  /\ Counted(Live)'
           /\ \A n \in DOMAIN reconciliation' : ItemsAsAsked(n)'
           /\ MatchesWithinAmounts'
           /\ RequestsApplyOnce'
  <1>1. MatchesWithinAmounts'
    <2>1. \A y \in Target : Total(OfTarget(y)) <= Amount[y] /\ Amount[y] \in Nat
      BY RequestAssumption DEF AmountsInv, MatchesWithinAmounts, OfTarget, AllocatedToTarget
    <2>2. \A t \in Statement : Total(MatchedOf(t)) <= Amount[t] /\ Amount[t] \in Nat
      BY RequestAssumption DEF AmountsInv, MatchesWithinAmounts, MatchedOf
    <2>3. Counted(Live)
      BY DEF AmountsInv
    <2>4. \A y \in Target : Total(OfTarget(y)') <= Amount[y]
      BY <2>1, <2>3, TouchedParts, LiveParts
    <2>5. \A t \in Statement : Total(MatchedOf(t)') <= Amount[t]
      BY <2>2, <2>3, TouchedParts, LiveParts
    <2> QED
      BY <2>4, <2>5 DEF MatchesWithinAmounts, OfTarget, AllocatedToTarget, MatchedOf
  <1>2. RequestsApplyOnce'
    <2>1. \A i, j \in DOMAIN reconciliation : i < j /\ Asked(i) = Asked(j) /\ Asked(i) # {} => Changed(i)
      BY DEF AmountsInv, RequestsApplyOnce, Asked
    <2>2. \A i, j \in DOMAIN reconciliation' :
              i < j /\ Asked(i)' = Asked(j)' /\ Asked(i)' # {} => Changed(i)'
      BY <2>1, TouchedParts DEF OnlyTouched
    <2> QED
      BY <2>2 DEF RequestsApplyOnce, Asked
  <1> QED
    BY <1>1, <1>2, TouchedParts DEF OnlyTouched

\* What a session claims, while another one takes such a step.
LEMMA TouchedClaims ==
    ASSUME AmountsInv, OnlyTouched, NEW u \in Session, session'[u] = session[u],
           \A x \in Statement \cup Target : lock[x] = u => lock'[x] = u
    PROVE  Claims(u)'
  <1> SUFFICES ASSUME session[u].op = "match" PROVE Claims(u)'
    BY DEF Claims
  <1>1. PICK r, n : r = session[u].request /\ n = session[u].line
    OBVIOUS
  <1>2. r \in Request /\ n \in Nat \ {0}
    BY <1>1 DEF AmountsInv, BankInv, Working, AtWork, Matching
  <1>3. /\ n <= Len(r.match) + 1
        /\ \A t \in Sources(r) : lock[t] = u
        /\ \A y \in Target : Total(OfTarget(y)) + Total(BeforeTo(r, n, y)) <= Amount[y]
        /\ \A t \in Statement : Total(MatchedOf(t)) + Total(BeforeOf(r, n, t)) <= Amount[t]
        /\ \A i \in DOMAIN reconciliation : Asked(i) = MatchesOf(r) /\ Asked(i) # {} => Changed(i)
    BY <1>1 DEF AmountsInv, Claims
  <1>4. Counted(Live)
    BY DEF AmountsInv
  <1>5. \A y \in Target : Total(OfTarget(y)') + Total(BeforeTo(r, n, y)) <= Amount[y]
    BY <1>2, <1>3, <1>4, TouchedParts, LiveParts, LinesParts, RequestAssumption
  <1>6. \A t \in Statement : Total(MatchedOf(t)') + Total(BeforeOf(r, n, t)) <= Amount[t]
    BY <1>2, <1>3, <1>4, TouchedParts, LiveParts, LinesParts, RequestAssumption
  <1>7. \A i \in DOMAIN reconciliation' : Asked(i)' = MatchesOf(r) /\ Asked(i)' # {} => Changed(i)'
    BY <1>3, TouchedParts DEF OnlyTouched
  <1>8. \A t \in Sources(r) : lock'[t] = u
    BY <1>2, <1>3, SourcesShape
  <1> QED
    BY <1>1, <1>3, <1>5, <1>6, <1>7, <1>8 DEF Claims

\* A step that commits nothing touches no reconciliation.
LEMMA NothingTouched ==
    ASSUME AmountsInv, UNCHANGED reconciliation
    PROVE  OnlyTouched
  <1>1. Counted(Live')
    BY DEF AmountsInv, Live
  <1> QED
    BY <1>1 DEF OnlyTouched, Alike

-----------------------------------------------------------------------------
(* Steps of one session                                                    *)

\* A step that takes locks for its session alone, or has it give up all of them,
\* leaves every lock with a session at work.
LEMMA LocksKept ==
    ASSUME AmountsInv, NEW s \in Session, NEW new, Becomes(s, new),
           \A x \in Statement \cup Target : lock'[x] # lock[x] => lock'[x] \in {s, NoSession},
           \/ new.op \in {"match", "cancel", "unlink"}
           \/ \A x \in Statement \cup Target : lock'[x] # s
    PROVE  LocksAtWork'
  <1>1. session'[s] = new /\ \A u \in Session \ {s} : session'[u] = session[u]
    BY DEF AmountsInv, BankInv, Typed, Becomes
  <1> QED
    BY <1>1 DEF AmountsInv, LocksAtWork

\* A step of s that adds no match, and leaves the locks of the others theirs.
LEMMA TouchingKeeps ==
    ASSUME AmountsInv, BankInv', NEW s \in Session, NEW new, Becomes(s, new),
           OnlyTouched, LocksAtWork', Claims(s)',
           \A u \in Session \ {s}, x \in Statement \cup Target : lock[x] = u => lock'[x] = u
    PROVE  AmountsInv'
  <1>1. \A u \in Session \ {s} : session'[u] = session[u]
    BY DEF AmountsInv, BankInv, Typed, Becomes
  <1>2. \A u \in Session \ {s} : Claims(u)'
    BY <1>1, TouchedClaims
  <1> QED
    BY <1>2, TouchedKeeps DEF AmountsInv

\* A request for a reconciliation claims nothing yet.
LEMMA BeginReconcileAmounts ==
    ASSUME AmountsInv, BankInv', NEW s \in Session, NEW r \in Request, BeginReconcile(s, r)
    PROVE  AmountsInv'
  <1>1. PICK new : new = [op |-> "lock", request |-> r, line |-> 1]
    OBVIOUS
  <1>2. Becomes(s, new) /\ new.op = "lock" /\ session'[s] = new /\ session[s].op = "idle"
        /\ UNCHANGED <<reconciliation, lock>>
    BY <1>1 DEF BeginReconcile, Becomes, AmountsInv, BankInv, Typed
  <1>3. \A x \in Statement \cup Target : lock'[x] # s
    BY <1>2, RequestAssumption DEF AmountsInv, LocksAtWork
  <1>4. LocksAtWork'
    BY <1>2, <1>3, LocksKept
  <1>5. Claims(s)'
    BY <1>2 DEF Claims
  <1> QED
    BY <1>2, <1>4, <1>5, NothingTouched, TouchingKeeps

\* A request whose matches are all in force is found.
LEMMA PriorFound ==
    ASSUME AmountsInv, NEW r \in Request, NEW i \in DOMAIN reconciliation,
           Asked(i) = MatchesOf(r), ~Changed(i)
    PROVE  Replayed(r)
  <1> DEFINE asked(m) == [source |-> m.source, target |-> m.target, amount |-> m.amount]
             live == {asked(x[2]) : x \in {y \in Live : y[1] = i}}
  <1>1. /\ ItemsAsAsked(i)
        /\ \A m \in reconciliation[i].items : m.live /\ m.target # "difference"
    BY DEF AmountsInv, Changed
  <1>2. \A q \in MatchesOf(r) : q \in Match
    BY RequestShape DEF MatchesOf
  <1>3. \A q \in MatchesOf(r) : \A m : Alike(m, q) => asked(m) = q
    BY <1>2 DEF Match, Alike
  <1>4. ASSUME NEW q \in MatchesOf(r) PROVE q \in live
    <2>1. PICK m \in reconciliation[i].items : Alike(m, q)
      BY <1>1 DEF ItemsAsAsked
    <2>2. <<i, m>> \in Live
      BY <1>1, <2>1, LiveItems
    <2>3. PICK x : x = <<i, m>>
      OBVIOUS
    <2>4. x \in {y \in Live : y[1] = i} /\ x[2] = m
      BY <2>2, <2>3
    <2>5. asked(x[2]) = q
      BY <1>3, <2>1, <2>4
    <2> HIDE DEF asked
    <2> QED
      BY <2>4, <2>5
  <1>5. ASSUME NEW x \in Live, x[1] = i PROVE asked(x[2]) \in MatchesOf(r)
    <2>1. PICK n \in DOMAIN reconciliation : \E m \in reconciliation[n].items : x = <<n, m>> /\ m.live
      BY LiveItems
    <2>2. PICK m \in reconciliation[n].items : x = <<n, m>>
      BY <2>1
    <2>3. m \in reconciliation[i].items /\ x[2] = m
      BY <1>5, <2>2
    <2>4. PICK q \in MatchesOf(r) : Alike(m, q)
      BY <1>1, <2>3 DEF ItemsAsAsked
    <2>5. asked(m) = q
      BY <1>3, <2>4
    <2> HIDE DEF asked
    <2> QED
      BY <2>3, <2>4, <2>5
  <1>6. MatchesOf(r) = live
    <2> HIDE DEF asked
    <2> QED
      BY <1>4, <1>5
  <1>7. i \in Prior(r)
    BY <1>6 DEF Prior
  <1> QED
    BY <1>7 DEF Replayed

\* Locking the statement lines, and finding no earlier reconciliation of the same
\* request that stands, is what a session claims when it begins to match.
LEMMA LockSourcesAmounts ==
    ASSUME AmountsInv, BankInv', NEW s \in Session, LockSources(s)
    PROVE  AmountsInv'
  <1>1. PICK r : r = session[s].request
    OBVIOUS
  <1>2. session[s] = [op |-> "lock", request |-> r, line |-> 1] /\ r \in Request
    <2>1. AtWork(s) /\ session[s].op = "lock"
      BY DEF AmountsInv, BankInv, Working, LockSources
    <2> QED
      BY <1>1, <2>1 DEF AtWork, Matching
  <1>3. /\ Sources(r) \in SUBSET (Statement \cup Target)
        /\ \A t \in Sources(r) : Free(s, t)
        /\ ~Replayed(r)
        /\ lock' = Locked(s, Sources(r))
        /\ UNCHANGED reconciliation
    BY <1>1, <1>2, SourcesShape DEF LockSources
  <1>4. PICK new : new = [session[s] EXCEPT !.op = "match"]
    OBVIOUS
  <1>5. new = [op |-> "match", request |-> r, line |-> 1]
    BY <1>2, <1>4
  <1>6. Becomes(s, new) /\ session'[s] = new
    BY <1>4 DEF LockSources, Becomes, AmountsInv, BankInv, Typed
  <1>7. /\ \A u \in Session, x \in Statement \cup Target : lock[x] = u => lock'[x] = u
        /\ \A x \in Sources(r) : lock'[x] = s
    BY <1>3, LockedKeeps DEF AmountsInv
  <1>8. \A x \in Statement \cup Target : lock'[x] # lock[x] => lock'[x] \in {s, NoSession}
    BY <1>3 DEF Locked, AmountsInv, BankInv, Typed
  <1>9. LocksAtWork'
    BY <1>5, <1>6, <1>8, LocksKept
  <1>10. OnlyTouched
    BY <1>3, NothingTouched
  <1>11. \A i \in DOMAIN reconciliation : Asked(i) = MatchesOf(r) /\ Asked(i) # {} => Changed(i)
    BY <1>2, <1>3, PriorFound
  <1>12. Before(r, 1) = {}
    BY DEF Before
  <1>13. \A y : Total(BeforeTo(r, 1, y)) = 0 /\ Total(BeforeOf(r, 1, y)) = 0
    <2>1. \A y : BeforeTo(r, 1, y) = {} /\ BeforeOf(r, 1, y) = {}
      BY <1>12 DEF BeforeTo, BeforeOf
    <2> QED
      BY <2>1, TotalEmpty
  <1>14. 1 <= Len(r.match) + 1
    BY <1>2, RequestShape
  <1>15. UNCHANGED Live
    BY <1>3 DEF Live
  <1>16. \A y \in Target : Total(OfTarget(y)') + 0 <= Amount[y]
    <2>1. \A y \in Target : Total(OfTarget(y)) <= Amount[y]
      BY DEF AmountsInv, MatchesWithinAmounts, AllocatedToTarget, OfTarget
    <2>2. \A y \in Target : Total(OfTarget(y)) \in Nat
      BY LiveParts DEF AmountsInv
    <2>3. \A y : OfTarget(y)' = OfTarget(y)
      BY <1>15 DEF OfTarget
    <2> QED
      BY <2>1, <2>2, <2>3
  <1>17. \A t \in Statement : Total(MatchedOf(t)') + 0 <= Amount[t]
    <2>1. \A t \in Statement : Total(MatchedOf(t)) <= Amount[t]
      BY DEF AmountsInv, MatchesWithinAmounts, MatchedOf
    <2>2. \A t \in Statement : Total(MatchedOf(t)) \in Nat
      BY LiveParts DEF AmountsInv
    <2>3. \A t : MatchedOf(t)' = MatchedOf(t)
      BY <1>15 DEF MatchedOf
    <2> QED
      BY <2>1, <2>2, <2>3
  <1>18. \A i \in DOMAIN reconciliation' : Asked(i)' = Asked(i) /\ (Changed(i) => Changed(i)')
    BY <1>3 DEF Asked, Changed
  <1>19. Claims(s)'
    BY <1>3, <1>5, <1>6, <1>7, <1>11, <1>13, <1>14, <1>16, <1>17, <1>18 DEF Claims
  <1> QED
    BY <1>6, <1>7, <1>9, <1>10, <1>19, TouchingKeeps

\* A line that fits beside what is committed and what the request matched before
\* it goes on fitting: others would need the same rows.
LEMMA AddMatchAmounts ==
    ASSUME AmountsInv, BankInv', NEW s \in Session, AddMatch(s)
    PROVE  AmountsInv'
  <1>1. PICK r, n : r = session[s].request /\ n = session[s].line
    OBVIOUS
  <1>2. /\ r \in Request /\ n \in DOMAIN r.match
        /\ session[s] = [op |-> "match", request |-> r, line |-> n]
        /\ UNCHANGED reconciliation
    <2>1. AtWork(s) /\ session[s].op = "match"
      BY DEF AmountsInv, BankInv, Working, AddMatch
    <2>2. r \in Request /\ session[s] = [op |-> "match", request |-> r, line |-> n]
      BY <1>1, <2>1 DEF AtWork, Matching
    <2>3. n \in DOMAIN r.match /\ UNCHANGED reconciliation
      BY <1>1 DEF AddMatch
    <2> QED
      BY <2>2, <2>3
  <1>3. PICK y, t, a : y = r.match[n].target /\ t = r.match[n].source /\ a = r.match[n].amount
    OBVIOUS
  <1>4. y \in Target /\ t \in Statement
    BY <1>2, <1>3, RequestShape DEF Match
  <1>5. /\ Free(s, y) /\ lock' = Locked(s, {y})
        /\ a <= PendingOfSource(t, r, n) /\ a <= PendingOfTarget(y, r, n)
    BY <1>1, <1>3 DEF AddMatch
  <1>6. PICK new : new = [session[s] EXCEPT !.line = n + 1]
    OBVIOUS
  <1>7. new = [op |-> "match", request |-> r, line |-> n + 1]
    BY <1>2, <1>6
  <1>8. Becomes(s, new) /\ session'[s] = new
    BY <1>1, <1>6 DEF AddMatch, Becomes, AmountsInv, BankInv, Typed
  <1>9. PICK rows : rows = {y}
    OBVIOUS
  <1>10. rows \in SUBSET (Statement \cup Target) /\ (\A x \in rows : Free(s, x)) /\ lock' = Locked(s, rows)
    BY <1>4, <1>5, <1>9
  <1>11. \A u \in Session, x \in Statement \cup Target : lock[x] = u => lock'[x] = u
    BY <1>10, LockedKeeps DEF AmountsInv
  <1>12. \A x \in Statement \cup Target : lock'[x] # lock[x] => lock'[x] \in {s, NoSession}
    BY <1>10 DEF Locked, AmountsInv, BankInv, Typed
  <1>13. LocksAtWork'
    BY <1>7, <1>8, <1>12, LocksKept
  <1>14. OnlyTouched
    BY <1>2, NothingTouched
  <1>15. /\ n \in Nat \ {0} /\ n <= Len(r.match) + 1 /\ n + 1 <= Len(r.match) + 1
         /\ n + 1 \in Nat \ {0} /\ a \in Nat
    BY <1>2, <1>3, OneLineMore
  <1>16. /\ \A z \in Target : Total(OfTarget(z)) + Total(BeforeTo(r, n, z)) <= Amount[z]
         /\ \A z \in Statement : Total(MatchedOf(z)) + Total(BeforeOf(r, n, z)) <= Amount[z]
         /\ \A z \in Sources(r) : lock[z] = s
         /\ \A i \in DOMAIN reconciliation : Asked(i) = MatchesOf(r) /\ Asked(i) # {} => Changed(i)
    <2>1. Claims(s) /\ session[s].op = "match"
      BY <1>2 DEF AmountsInv
    <2> QED
      BY <1>1, <2>1 DEF Claims
  <1>17. UNCHANGED Live
    BY <1>2 DEF Live
  <1>18. \A z \in Target \cup Statement : Amount[z] \in Nat
    BY RequestAssumption
  <1>19. Counted(Live)
    BY DEF AmountsInv
  <1>20. ASSUME NEW z \in Target
         PROVE  Total(OfTarget(z)') + Total(BeforeTo(r, n + 1, z)) <= Amount[z]
    <2>1. OfTarget(z)' = OfTarget(z)
      BY <1>17 DEF OfTarget
    <2>2. Total(OfTarget(z)) \in Nat
      BY <1>19, LiveParts
    <2>3. Total(BeforeTo(r, n, z)) \in Nat
      BY <1>2, <1>15, LinesParts
    <2>4. Total(BeforeTo(r, n + 1, z)) \in Nat
      BY <1>2, <1>15, LinesParts
    <2>5. Total(BeforeTo(r, n + 1, z)) <= Total(BeforeTo(r, n, z)) + (IF z = y THEN a ELSE 0)
      BY <1>2, <1>3, OneLineMore
    <2>6. z = y => a <= Amount[z] - Total(OfTarget(z)) - Total(BeforeTo(r, n, z))
      BY <1>5 DEF PendingOfTarget, AllocatedToTarget, OfTarget, BeforeTo
    <2> QED
      BY <1>15, <1>16, <1>18, <2>1, <2>2, <2>3, <2>4, <2>5, <2>6
  <1>21. ASSUME NEW z \in Statement
         PROVE  Total(MatchedOf(z)') + Total(BeforeOf(r, n + 1, z)) <= Amount[z]
    <2>1. MatchedOf(z)' = MatchedOf(z)
      BY <1>17 DEF MatchedOf
    <2>2. /\ Total(MatchedOf(z)) \in Nat /\ AllocatedFromSource(z) \in Nat
          /\ Total(MatchedOf(z)) <= AllocatedFromSource(z)
      BY <1>19, LiveParts
    <2>3. Total(BeforeOf(r, n, z)) \in Nat
      BY <1>2, <1>15, LinesParts
    <2>4. Total(BeforeOf(r, n + 1, z)) \in Nat
      BY <1>2, <1>15, LinesParts
    <2>5. Total(BeforeOf(r, n + 1, z)) <= Total(BeforeOf(r, n, z)) + (IF z = t THEN a ELSE 0)
      BY <1>2, <1>3, OneLineMore
    <2>6. z = t => a <= Amount[z] - AllocatedFromSource(z) - Total(BeforeOf(r, n, z))
      BY <1>5 DEF PendingOfSource, BeforeOf
    <2> QED
      BY <1>15, <1>16, <1>18, <2>1, <2>2, <2>3, <2>4, <2>5, <2>6
  <1>22. \A i \in DOMAIN reconciliation' : Asked(i)' = Asked(i) /\ (Changed(i) => Changed(i)')
    BY <1>2 DEF Asked, Changed
  <1>23. \A z \in Sources(r) : lock'[z] = s
    BY <1>2, <1>11, <1>16, SourcesShape
  <1>24. Claims(s)'
    BY <1>2, <1>7, <1>8, <1>15, <1>16, <1>20, <1>21, <1>22, <1>23 DEF Claims
  <1> QED
    BY <1>8, <1>11, <1>13, <1>14, <1>24, TouchingKeeps

\* A cancellation claims nothing of the amounts.
LEMMA BeginCancelAmounts ==
    ASSUME AmountsInv, BankInv', NEW s \in Session, NEW p \in Payment, BeginCancel(s, p)
    PROVE  AmountsInv'
  <1>1. PICK new : new = [op |-> "cancel", payment |-> p]
    OBVIOUS
  <1>2. Becomes(s, new) /\ new.op = "cancel" /\ session'[s] = new /\ UNCHANGED reconciliation
    BY <1>1 DEF BeginCancel, Becomes, AmountsInv, BankInv, Typed
  <1>3. PICK rows : rows = {p}
    OBVIOUS
  <1>4. rows \in SUBSET (Statement \cup Target) /\ (\A x \in rows : Free(s, x)) /\ lock' = Locked(s, rows)
    BY <1>3 DEF BeginCancel, Target
  <1>5. \A u \in Session, x \in Statement \cup Target : lock[x] = u => lock'[x] = u
    BY <1>4, LockedKeeps DEF AmountsInv
  <1>6. \A x \in Statement \cup Target : lock'[x] # lock[x] => lock'[x] \in {s, NoSession}
    BY <1>4 DEF Locked, AmountsInv, BankInv, Typed
  <1>7. LocksAtWork'
    BY <1>2, <1>6, LocksKept
  <1>8. Claims(s)'
    BY <1>2 DEF Claims
  <1> QED
    BY <1>2, <1>5, <1>7, <1>8, NothingTouched, TouchingKeeps

\* Locking the lines of a payment takes none that another session holds.
LEMMA ReadLinkedAmounts ==
    ASSUME AmountsInv, BankInv', NEW s \in Session, ReadLinked(s)
    PROVE  AmountsInv'
  <1>1. PICK new : /\ session' = [session EXCEPT ![s] = new] /\ new.op = "unlink"
                   /\ UNCHANGED <<reconciliation, lock>>
    BY DEF ReadLinked
  <1>2. Becomes(s, new) /\ session'[s] = new
    BY <1>1 DEF Becomes, AmountsInv, BankInv, Typed
  <1>3. LocksAtWork'
    BY <1>1, <1>2, LocksKept
  <1>4. Claims(s)'
    BY <1>1, <1>2 DEF Claims
  <1> QED
    BY <1>1, <1>2, <1>3, <1>4, NothingTouched, TouchingKeeps

\* The end of a transaction that adds no match.
LEMMA EndKeeps ==
    ASSUME AmountsInv, BankInv', NEW s \in Session, Becomes(s, Idle), OnlyTouched,
           \A x \in Statement \cup Target : lock'[x] # s /\ (lock[x] # s => lock'[x] = lock[x]),
           \A x \in Statement \cup Target : lock[x] = s => lock'[x] = NoSession
    PROVE  AmountsInv'
  <1>1. session'[s] = Idle
    BY DEF Becomes, AmountsInv, BankInv, Typed
  <1>2. LocksAtWork'
    BY LocksKept
  <1>3. Claims(s)'
    BY <1>1 DEF Claims, Idle
  <1> QED
    BY <1>2, <1>3, TouchingKeeps

\* A session that ends gives up its locks and no others.
LEMMA UnlockedRows ==
    ASSUME AmountsInv, NEW s \in Session, lock' = Unlocked(s)
    PROVE  \A x \in Statement \cup Target :
              /\ lock'[x] # s /\ (lock[x] # s => lock'[x] = lock[x])
              /\ lock[x] = s => lock'[x] = NoSession
  BY RequestAssumption DEF Unlocked, AmountsInv, BankInv, Typed

\* A rollback keeps the amounts.
LEMMA RollbackAmounts ==
    ASSUME AmountsInv, BankInv', NEW s \in Session, Rollback(s)
    PROVE  AmountsInv'
  <1>1. lock' = Unlocked(s) /\ Becomes(s, Idle) /\ UNCHANGED reconciliation
    BY DEF Rollback, Becomes
  <1> QED
    BY <1>1, UnlockedRows, NothingTouched, EndKeeps

\* A request records finitely many differences.
LEMMA DifferencesFinite == \A r : IsFiniteSet(Differences(r))
  <1> TAKE r
  <1> DEFINE at == [t \in Statement |->
                 [source |-> t, target |-> "difference", amount |-> r.difference[t], live |-> TRUE]]
             D == {u \in Statement : r.difference[u] > 0}
  <1>1. IsFiniteSet(D)
    BY RequestAssumption, FS_Subset
  <1>2. Differences(r) = {at[t] : t \in D}
    BY DEF Differences
  <1> HIDE DEF at, D
  <1> QED
    BY <1>1, <1>2, ImageFinite

\* What is added to one reconciliation, or is a reconciliation of its own.
LEMMA PairsFinite == \A S, k : IsFiniteSet(S) => IsFiniteSet({k} \X S)
  <1> TAKE S, k
  <1> HAVE IsFiniteSet(S)
  <1> DEFINE at == [m \in S |-> <<k, m>>]
  <1>1. {k} \X S = {at[m] : m \in S}
    OBVIOUS
  <1> HIDE DEF at
  <1> QED
    BY <1>1, ImageFinite

\* A committed reconciliation is a request with its items.
LEMMA RecordedItems ==
    ASSUME AmountsInv, NEW n \in DOMAIN reconciliation
    PROVE  reconciliation[n] \in Recorded
  BY ElementOfSeq, LenProperties DEF AmountsInv, BankInv, Typed

\* A repeated request adds no matches to its own reconciliation, and only
\* differences, which no amount of a target or a line bounds.
LEMMA ReplayAmounts ==
    ASSUME AmountsInv, BankInv', NEW s \in Session, Replay(s)
    PROVE  AmountsInv'
  <1>1. PICK r, k : /\ r = session[s].request
                    /\ reconciliation' = [reconciliation EXCEPT ![k].items = @ \cup Differences(r)]
    BY DEF Replay
  <1>2. lock' = lock /\ Becomes(s, Idle) /\ session[s].op = "lock"
    BY DEF Replay, Becomes
  <1>3. \A x \in Statement \cup Target : lock[x] # s
    BY <1>2, RequestAssumption DEF AmountsInv, LocksAtWork
  <1>4. DOMAIN reconciliation' = DOMAIN reconciliation
    BY <1>1
  <1>5. \A n \in DOMAIN reconciliation :
           /\ reconciliation'[n].request = reconciliation[n].request
           /\ reconciliation[n].items \subseteq reconciliation'[n].items
           /\ \A m \in reconciliation'[n].items :
                 m \in reconciliation[n].items \/ (n = k /\ m \in Differences(r))
    BY <1>1, RecordedItems DEF Recorded
  <1>6. \A m \in Differences(r) : m.target = "difference"
    BY DEF Differences
  <1>7. Counted(Live')
    <2>1. IsFiniteSet({k} \X Differences(r))
      BY DifferencesFinite, PairsFinite
    <2>2. PICK more : more = Live \cup ({k} \X Differences(r))
      OBVIOUS
    <2>3. IsFiniteSet(more)
      BY <2>1, <2>2, UnionFinite, Zenon DEF AmountsInv, Counted
    <2>4. Live' \subseteq more
      <3> SUFFICES ASSUME NEW x \in Live' PROVE x \in more
        OBVIOUS
      <3>1. PICK n \in DOMAIN reconciliation' :
                \E m \in reconciliation'[n].items : x = <<n, m>> /\ m.live
        BY LiveItemsNext
      <3>2. PICK m \in reconciliation'[n].items : x = <<n, m>> /\ m.live
        BY <3>1
      <3>3. CASE m \in reconciliation[n].items
        BY <1>4, <2>2, <3>2, <3>3, LiveItems
      <3>4. CASE n = k /\ m \in Differences(r)
        BY <2>2, <3>2, <3>4
      <3> QED
        BY <1>4, <1>5, <3>3, <3>4
    <2>5. IsFiniteSet(Live')
      BY <2>3, <2>4, FS_Subset
    <2> QED
      BY <2>5, LiveTypedNext DEF Counted
  <1>8. OnlyTouched
    BY <1>4, <1>5, <1>6, <1>7 DEF OnlyTouched, Alike
  <1> QED
    BY <1>2, <1>3, <1>8, EndKeeps

\* A cancellation only takes live items away.
LEMMA CommitCancelAmounts ==
    ASSUME AmountsInv, BankInv', NEW s \in Session, CommitCancel(s)
    PROVE  AmountsInv'
  <1>1. PICK p : reconciliation' = [n \in DOMAIN reconciliation |->
                     [reconciliation[n] EXCEPT !.items = WithoutPayment(@, p)]]
    BY DEF CommitCancel
  <1>2. lock' = Unlocked(s) /\ Becomes(s, Idle)
    BY DEF CommitCancel, Becomes
  <1>3. DOMAIN reconciliation' = DOMAIN reconciliation
    BY <1>1
  <1>4. \A n \in DOMAIN reconciliation :
           /\ reconciliation'[n].request = reconciliation[n].request
           /\ reconciliation'[n].items = WithoutPayment(reconciliation[n].items, p)
           /\ reconciliation[n].items \in SUBSET Item
    BY <1>1, RecordedItems DEF Recorded
  <1>5. ASSUME NEW items \in SUBSET Item
        PROVE  /\ \A m \in WithoutPayment(items, p) :
                     (m.live => m \in items) /\ \E o \in items : Alike(m, o)
               /\ \A o \in items : \E m \in WithoutPayment(items, p) : Alike(m, o) /\ (~o.live => ~m.live)
    <2>1. \A o \in items : LET m == [o EXCEPT !.live = FALSE] IN Alike(m, o) /\ ~m.live
      BY DEF Item, Alike
    <2>2. \A o \in items : Alike(o, o)
      BY DEF Alike
    <2>3. ASSUME NEW m \in WithoutPayment(items, p)
          PROVE  (m.live => m \in items) /\ \E o \in items : Alike(m, o)
      BY <2>1, <2>2 DEF WithoutPayment
    <2>4. ASSUME NEW o \in items
          PROVE  \E m \in WithoutPayment(items, p) : Alike(m, o) /\ (~o.live => ~m.live)
      <3>1. (IF o.target = p THEN [o EXCEPT !.live = FALSE] ELSE o) \in WithoutPayment(items, p)
        BY DEF WithoutPayment
      <3> QED
        BY <2>1, <2>2, <3>1
    <2> QED
      BY <2>3, <2>4
  <1>6. Live' \subseteq Live
    <2> SUFFICES ASSUME NEW x \in Live' PROVE x \in Live
      OBVIOUS
    <2>1. PICK n \in DOMAIN reconciliation' :
              \E m \in reconciliation'[n].items : x = <<n, m>> /\ m.live
      BY LiveItemsNext
    <2>2. PICK m \in reconciliation'[n].items : x = <<n, m>> /\ m.live
      BY <2>1
    <2>3. m \in reconciliation[n].items /\ n \in DOMAIN reconciliation
      BY <1>3, <1>4, <1>5, <2>2
    <2> QED
      BY <2>2, <2>3, LiveItems
  <1>7. Counted(Live')
    BY <1>6, CountedSubset DEF AmountsInv
  <1>8. OnlyTouched
    BY <1>3, <1>4, <1>5, <1>7 DEF OnlyTouched
  <1> QED
    BY <1>2, <1>8, UnlockedRows, EndKeeps

-----------------------------------------------------------------------------
(* A reconciliation commits                                                *)

\* All lines of the request have been added, under the locks of their rows.
LEMMA CommitReady ==
    ASSUME AmountsInv, NEW s \in Session, CommitReconcile(s), NEW r, r = session[s].request
    PROVE  /\ r \in Request /\ session[s].op = "match"
           /\ session[s].line = Len(r.match) + 1
           /\ Len(r.match) + 1 \in Nat \ {0}
           /\ \A i \in DOMAIN r.match : lock[r.match[i].target] = s
           /\ \A t \in Sources(r) : lock[t] = s
  <1>1. AtWork(s) /\ session[s].op = "match" /\ Claims(s)
    BY DEF AmountsInv, BankInv, Working, CommitReconcile
  <1>2. Matching(s) /\ r \in Request
    BY <1>1 DEF AtWork, Matching
  <1>3. session[s].line \in Nat /\ session[s].line > Len(r.match) /\ Len(r.match) \in Nat
    BY <1>1, <1>2, RequestShape DEF Matching, CommitReconcile
  <1>4. session[s].line <= Len(r.match) + 1 /\ \A t \in Sources(r) : lock[t] = s
    BY <1>1 DEF Claims
  <1>5. session[s].line = Len(r.match) + 1
    BY <1>3, <1>4
  <1>6. \A i \in DOMAIN r.match : i < session[s].line
    BY <1>2, <1>3, <1>5, RequestShape
  <1> QED
    BY <1>1, <1>2, <1>3, <1>4, <1>5, <1>6 DEF Matching

\* The item of a match.
AsItem(m) == [source |-> m.source, target |-> m.target, amount |-> m.amount, live |-> TRUE]

\* The items of a request are its lines, and its differences.
LEMMA ItemsOfLines ==
    ASSUME NEW r \in Request, NEW L, L = Len(r.match) + 1
    PROVE  /\ IsFiniteSet(Items(r))
           /\ \A m \in Items(r) : m.target # "difference" => \E x \in Before(r, L) : m = AsItem(x[2])
           /\ \A m \in Items(r) : m.target # "difference" => \E q \in MatchesOf(r) : Alike(m, q)
           /\ \A q \in MatchesOf(r) : \E m \in Items(r) : Alike(m, q)
  <1>1. L \in Nat \ {0} /\ L <= Len(r.match) + 1 /\ \A i \in DOMAIN r.match : i < L
    BY RequestShape
  <1>2. /\ Counted(Before(r, L))
        /\ \A x \in Before(r, L) : \E i \in DOMAIN r.match : x = <<i, r.match[i]>>
        /\ \A i \in DOMAIN r.match : <<i, r.match[i]>> \in Before(r, L)
    BY <1>1, LinesBefore
  <1>3. Items(r) = Differences(r) \cup {AsItem(q) : q \in MatchesOf(r)}
    BY DEF Items, AsItem
  <1>4. \A m \in Differences(r) : m.target = "difference"
    BY DEF Differences
  <1>5. \A q : AsItem(q).source = q.source /\ AsItem(q).target = q.target /\ AsItem(q).amount = q.amount
    BY DEF AsItem
  <1>6. \A q \in MatchesOf(r) : \E x \in Before(r, L) : x[2] = q
    <2> SUFFICES ASSUME NEW i \in DOMAIN r.match PROVE \E x \in Before(r, L) : x[2] = r.match[i]
      BY DEF MatchesOf
    <2>1. PICK x : x = <<i, r.match[i]>>
      OBVIOUS
    <2> QED
      BY <1>2, <2>1
  <1>7. IsFiniteSet({AsItem(q) : q \in MatchesOf(r)})
    <2> DEFINE at == [x \in Before(r, L) |-> AsItem(x[2])]
               image == {at[x] : x \in Before(r, L)}
    <2>1. \A x \in Before(r, L) : at[x] = AsItem(x[2])
      OBVIOUS
    <2>2. IsFiniteSet(Before(r, L))
      BY <1>2 DEF Counted
    <2> HIDE DEF at
    <2>3. IsFiniteSet(image)
      BY <2>2, ImageFinite
    <2>4. {AsItem(q) : q \in MatchesOf(r)} \subseteq image
      BY <1>6, <2>1
    <2> HIDE DEF image
    <2> QED
      BY <2>3, <2>4, FS_Subset
  <1>8. IsFiniteSet(Items(r))
    BY <1>3, <1>7, DifferencesFinite, UnionFinite, Zenon
  <1>9. \A m \in Items(r) : m.target # "difference" => \E q \in MatchesOf(r) : m = AsItem(q)
    BY <1>3, <1>4
  <1>10. \A m \in Items(r) : m.target # "difference" => \E x \in Before(r, L) : m = AsItem(x[2])
    BY <1>6, <1>9
  <1>11. \A m \in Items(r) : m.target # "difference" => \E q \in MatchesOf(r) : Alike(m, q)
    BY <1>5, <1>9 DEF Alike
  <1>12. \A q \in MatchesOf(r) : \E m \in Items(r) : Alike(m, q)
    BY <1>3, <1>5 DEF Alike
  <1> QED
    BY <1>8, <1>10, <1>11, <1>12

\* The reconciliation that is added, and what it adds to the items in force.
LEMMA CommitAdds ==
    ASSUME AmountsInv, BankInv', NEW s \in Session, CommitReconcile(s), NEW r, r = session[s].request,
           NEW k, k = Len(reconciliation) + 1
    PROVE  /\ DOMAIN reconciliation' = DOMAIN reconciliation \cup {k} /\ k \in Nat
           /\ \A n \in DOMAIN reconciliation : n \in Nat /\ n < k
           /\ \A n \in DOMAIN reconciliation : reconciliation'[n] = reconciliation[n]
           /\ reconciliation'[k].request = r /\ reconciliation'[k].items = Items(r)
           /\ \A x \in Live' : x \in Live \/ x \in {k} \X Items(r)
           /\ Counted(Live')
  <1>1. r \in Request
    BY CommitReady
  <1>2. PICK new : new = [request |-> r, items |-> Items(r)]
    OBVIOUS
  <1>3. new \in Recorded /\ new.request = r /\ new.items = Items(r)
    BY <1>1, <1>2, ItemsTyped DEF Recorded
  <1>4. reconciliation' = Append(reconciliation, new) /\ reconciliation \in Seq(Recorded)
    BY <1>2 DEF CommitReconcile, AmountsInv, BankInv, Typed
  <1>5. /\ DOMAIN reconciliation' = DOMAIN reconciliation \cup {k} /\ k \in Nat
        /\ \A n \in DOMAIN reconciliation : reconciliation'[n] = reconciliation[n]
        /\ \A n \in DOMAIN reconciliation : n \in Nat /\ n < k
        /\ reconciliation'[k] = new
    BY <1>3, <1>4, AppendProperties, LenProperties
  <1>6. ASSUME NEW x \in Live' PROVE x \in Live \/ x \in {k} \X Items(r)
    <2>1. PICK n \in DOMAIN reconciliation' :
              \E m \in reconciliation'[n].items : x = <<n, m>> /\ m.live
      BY LiveItemsNext
    <2>2. PICK m \in reconciliation'[n].items : x = <<n, m>> /\ m.live
      BY <2>1
    <2>3. CASE n \in DOMAIN reconciliation
      BY <1>5, <2>2, <2>3, LiveItems
    <2>4. CASE n = k
      BY <1>3, <1>5, <2>2, <2>4
    <2> QED
      BY <1>5, <2>3, <2>4
  <1>7. Counted(Live')
    <2>1. IsFiniteSet({k} \X Items(r))
      BY <1>1, ItemsOfLines, PairsFinite
    <2>2. PICK more : more = Live \cup ({k} \X Items(r))
      OBVIOUS
    <2>3. IsFiniteSet(more)
      BY <2>1, <2>2, UnionFinite, Zenon DEF AmountsInv, Counted
    <2>4. IsFiniteSet(Live')
      BY <1>6, <2>2, <2>3, FS_Subset
    <2> QED
      BY <2>4, LiveTypedNext DEF Counted
  <1> QED
    BY <1>3, <1>5, <1>6, <1>7

\* A target, or a line, has at most what it had and what the request matches
\* with it: items of the same source, target and amount count once.
LEMMA CommitAddsAtMost ==
    ASSUME AmountsInv, BankInv', NEW s \in Session, CommitReconcile(s), NEW r, r = session[s].request,
           NEW L, L = Len(r.match) + 1
    PROVE  /\ \A y \in Target : /\ Total(OfTarget(y)') \in Nat
                                /\ Total(OfTarget(y)') <= Total(OfTarget(y)) + Total(BeforeTo(r, L, y))
           /\ \A t \in Statement : /\ Total(MatchedOf(t)') \in Nat
                                   /\ Total(MatchedOf(t)') <= Total(MatchedOf(t)) + Total(BeforeOf(r, L, t))
  <1>1. r \in Request /\ L \in Nat \ {0} /\ L <= Len(r.match) + 1
    BY CommitReady, RequestShape
  <1>2. PICK k : k = Len(reconciliation) + 1
    OBVIOUS
  <1>3. Counted(Live) /\ Counted(Live') /\ \A x \in Live' : x \in Live \/ x \in {k} \X Items(r)
    BY <1>2, CommitAdds DEF AmountsInv
  <1>4. PICK at : at = [x \in Before(r, L) |-> <<k, AsItem(x[2])>>]
    OBVIOUS
  <1>5. \A x \in Before(r, L) :
           /\ at[x] = <<k, AsItem(x[2])>> /\ at[x][2].amount = x[2].amount
           /\ AsItem(x[2]).source = x[2].source /\ AsItem(x[2]).target = x[2].target
    BY <1>4 DEF AsItem
  <1>6. \A x \in Live' : x[2].target # "difference" =>
            x \in Live \/ \E b \in Before(r, L) : x = at[b] /\ x[2].source = b[2].source
                                                           /\ x[2].target = b[2].target
    <2> SUFFICES ASSUME NEW x \in {k} \X Items(r), x[2].target # "difference"
                 PROVE  \E b \in Before(r, L) : x = at[b] /\ x[2].source = b[2].source
                                                          /\ x[2].target = b[2].target
      BY <1>3
    <2>1. PICK m \in Items(r) : x = <<k, m>> /\ x[2] = m
      OBVIOUS
    <2>2. PICK b \in Before(r, L) : m = AsItem(b[2])
      BY <1>1, <2>1, ItemsOfLines
    <2> QED
      BY <1>5, <2>1, <2>2
  <1>7. ASSUME NEW S, NEW S1, NEW B, S \subseteq Live, B \subseteq Before(r, L),
               S1 \subseteq S \cup {at[x] : x \in B}
        PROVE  Total(S1) \in Nat /\ Total(S1) <= Total(S) + Total(B)
    <2>1. Counted(S)
      BY <1>3, <1>7, CountedSubset
    <2>2. Counted(B)
      BY <1>1, <1>7, LinesBefore, CountedSubset
    <2>3. \A x \in B : at[x][2].amount = x[2].amount
      BY <1>5, <1>7
    <2>4. PICK image : image = {at[x] : x \in B}
      OBVIOUS
    <2>5. Counted(image) /\ Total(image) <= Total(B)
      BY <2>2, <2>3, <2>4, TotalImage
    <2>6. PICK both : both = S \cup image
      OBVIOUS
    <2>7. Counted(both)
      BY <2>1, <2>5, <2>6, CountedUnion
    <2>8. S1 \subseteq both
      BY <1>7, <2>4, <2>6
    <2>9. Counted(S1)
      BY <2>7, <2>8, CountedSubset
    <2>10. Total(S1) <= Total(both)
      BY <2>7, <2>8, TotalSubset
    <2>11. Total(both) <= Total(S) + Total(image)
      BY <2>1, <2>5, <2>6, TotalTogether
    <2>12. Total(S1) \in Nat
      BY <2>9, TotalNat
    <2>13. Total(both) \in Nat
      BY <2>7, TotalNat
    <2>14. Total(S) \in Nat
      BY <2>1, TotalNat
    <2>15. Total(image) \in Nat
      BY <2>5, TotalNat
    <2>16. Total(B) \in Nat
      BY <2>2, TotalNat
    <2> QED
      BY <2>5, <2>10, <2>11, <2>12, <2>13, <2>14, <2>15, <2>16
  <1>8. ASSUME NEW y \in Target
        PROVE  /\ Total(OfTarget(y)') \in Nat
               /\ Total(OfTarget(y)') <= Total(OfTarget(y)) + Total(BeforeTo(r, L, y))
    <2>1. OfTarget(y) \subseteq Live /\ BeforeTo(r, L, y) \subseteq Before(r, L)
      BY DEF OfTarget, BeforeTo
    <2>2. OfTarget(y)' \subseteq OfTarget(y) \cup {at[x] : x \in BeforeTo(r, L, y)}
      BY <1>6, RequestAssumption DEF OfTarget, BeforeTo
    <2> QED
      BY <1>7, <2>1, <2>2
  <1>9. ASSUME NEW t \in Statement
        PROVE  /\ Total(MatchedOf(t)') \in Nat
               /\ Total(MatchedOf(t)') <= Total(MatchedOf(t)) + Total(BeforeOf(r, L, t))
    <2>1. MatchedOf(t) \subseteq Live /\ BeforeOf(r, L, t) \subseteq Before(r, L)
      BY DEF MatchedOf, BeforeOf
    <2>2. MatchedOf(t)' \subseteq MatchedOf(t) \cup {at[x] : x \in BeforeOf(r, L, t)}
      BY <1>6 DEF MatchedOf, BeforeOf
    <2> QED
      BY <1>7, <2>1, <2>2
  <1> QED
    BY <1>8, <1>9

\* A committed reconciliation stays within the amounts, as its session claimed.
LEMMA CommitWithin ==
    ASSUME AmountsInv, BankInv', NEW s \in Session, CommitReconcile(s)
    PROVE  MatchesWithinAmounts'
  <1>1. PICK r, L : r = session[s].request /\ L = Len(r.match) + 1
    OBVIOUS
  <1>2. session[s].op = "match" /\ session[s].line = L /\ r \in Request /\ L \in Nat \ {0}
        /\ L <= Len(r.match) + 1
    BY <1>1, CommitReady, RequestShape
  <1>3. /\ \A y \in Target : Total(OfTarget(y)) + Total(BeforeTo(r, L, y)) <= Amount[y]
        /\ \A t \in Statement : Total(MatchedOf(t)) + Total(BeforeOf(r, L, t)) <= Amount[t]
    BY <1>1, <1>2 DEF AmountsInv, Claims
  <1>4. Counted(Live) /\ \A x \in Target \cup Statement : Amount[x] \in Nat
    BY RequestAssumption DEF AmountsInv
  <1>5. ASSUME NEW y \in Target PROVE Total(OfTarget(y)') <= Amount[y]
    <2>1. Total(OfTarget(y)) \in Nat
      BY <1>4, LiveParts
    <2>2. Total(BeforeTo(r, L, y)) \in Nat
      BY <1>2, LinesParts
    <2>3. /\ Total(OfTarget(y)') \in Nat
          /\ Total(OfTarget(y)') <= Total(OfTarget(y)) + Total(BeforeTo(r, L, y))
      BY <1>1, CommitAddsAtMost
    <2> QED
      BY <1>3, <1>4, <2>1, <2>2, <2>3
  <1>6. ASSUME NEW t \in Statement PROVE Total(MatchedOf(t)') <= Amount[t]
    <2>1. Total(MatchedOf(t)) \in Nat
      BY <1>4, LiveParts
    <2>2. Total(BeforeOf(r, L, t)) \in Nat
      BY <1>2, LinesParts
    <2>3. /\ Total(MatchedOf(t)') \in Nat
          /\ Total(MatchedOf(t)') <= Total(MatchedOf(t)) + Total(BeforeOf(r, L, t))
      BY <1>1, CommitAddsAtMost
    <2> QED
      BY <1>3, <1>4, <2>1, <2>2, <2>3
  <1> QED
    BY <1>5, <1>6 DEF MatchesWithinAmounts, OfTarget, AllocatedToTarget, MatchedOf

\* What the others who match claim: their rows are not those of the request.
LEMMA CommitLeavesClaims ==
    ASSUME AmountsInv, BankInv', NEW s \in Session, CommitReconcile(s), NEW u \in Session, u # s
    PROVE  Claims(u)'
  <1>1. session'[u] = session[u]
    BY DEF CommitReconcile, AmountsInv, BankInv, Typed
  <1> SUFFICES ASSUME session[u].op = "match" PROVE Claims(u)'
    BY <1>1 DEF Claims
  <1>2. PICK r, L, k : /\ r = session[s].request /\ L = Len(r.match) + 1
                       /\ k = Len(reconciliation) + 1
    OBVIOUS
  <1>3. /\ r \in Request /\ L \in Nat \ {0} /\ L <= Len(r.match) + 1
        /\ \A i \in DOMAIN r.match : lock[r.match[i].target] = s
        /\ \A t \in Sources(r) : lock[t] = s
    <2>0. r = session[s].request
      BY <1>2
    <2>1. /\ r \in Request /\ Len(r.match) + 1 \in Nat \ {0}
          /\ \A i \in DOMAIN r.match : lock[r.match[i].target] = s
          /\ \A t \in Sources(r) : lock[t] = s
      BY <2>0, CommitReady
    <2>2. L \in Nat \ {0} /\ L <= Len(r.match) + 1
      BY <1>2, <2>1
    <2> QED
      BY <2>1, <2>2
  <1>4. PICK q, n : q = session[u].request /\ n = session[u].line
    OBVIOUS
  <1>5. /\ q \in Request /\ n \in Nat \ {0}
        /\ \A i \in DOMAIN q.match : i < n => lock[q.match[i].target] = u
    <2>1. AtWork(u)
      BY DEF AmountsInv, BankInv, Working
    <2> QED
      BY <1>4, <2>1 DEF AtWork, Matching
  <1>6. /\ n <= Len(q.match) + 1
        /\ \A t \in Sources(q) : lock[t] = u
        /\ \A y \in Target : Total(OfTarget(y)) + Total(BeforeTo(q, n, y)) <= Amount[y]
        /\ \A t \in Statement : Total(MatchedOf(t)) + Total(BeforeOf(q, n, t)) <= Amount[t]
        /\ \A i \in DOMAIN reconciliation : Asked(i) = MatchesOf(q) /\ Asked(i) # {} => Changed(i)
    <2>1. Claims(u)
      BY DEF AmountsInv
    <2> QED
      BY <1>4, <2>1 DEF Claims
  <1>7. Counted(Live) /\ \A x \in Target \cup Statement : Amount[x] \in Nat
    BY RequestAssumption DEF AmountsInv
  <1>8. /\ \A y \in Target : Total(OfTarget(y)') <= Amount[y]
        /\ \A t \in Statement : Total(MatchedOf(t)') <= Amount[t]
    BY CommitWithin DEF MatchesWithinAmounts, OfTarget, AllocatedToTarget, MatchedOf
  <1>9. ASSUME NEW y \in Target PROVE Total(OfTarget(y)') + Total(BeforeTo(q, n, y)) <= Amount[y]
    <2>1. /\ Total(OfTarget(y)') \in Nat
          /\ Total(OfTarget(y)') <= Total(OfTarget(y)) + Total(BeforeTo(r, L, y))
      BY <1>2, CommitAddsAtMost
    <2>2. CASE \E i \in DOMAIN r.match : r.match[i].target = y
      <3>1. ~(\E i \in DOMAIN q.match : i < n /\ q.match[i].target = y)
        BY <1>3, <1>5, <2>2
      <3>2. Total(BeforeTo(q, n, y)) = 0
        BY <1>5, <1>6, <3>1, LinesParts
      <3> QED
        BY <1>8, <2>1, <3>2
    <2>3. CASE ~(\E i \in DOMAIN r.match : r.match[i].target = y)
      <3>1. Total(BeforeTo(r, L, y)) = 0
        BY <1>3, <2>3, LinesParts
      <3>2. Total(OfTarget(y)) \in Nat
        BY <1>7, LiveParts
      <3>3. Total(BeforeTo(q, n, y)) \in Nat
        BY <1>5, <1>6, LinesParts
      <3> QED
        BY <1>6, <1>7, <2>1, <3>1, <3>2, <3>3
    <2> QED
      BY <2>2, <2>3
  <1>10. ASSUME NEW t \in Statement PROVE Total(MatchedOf(t)') + Total(BeforeOf(q, n, t)) <= Amount[t]
    <2>1. /\ Total(MatchedOf(t)') \in Nat
          /\ Total(MatchedOf(t)') <= Total(MatchedOf(t)) + Total(BeforeOf(r, L, t))
      BY <1>2, CommitAddsAtMost
    <2>2. CASE t \in Sources(r)
      <3>1. t \notin Sources(q)
        BY <1>3, <1>6, <2>2
      <3>2. Total(BeforeOf(q, n, t)) = 0
        BY <1>5, <1>6, <3>1, LinesParts
      <3> QED
        BY <1>8, <2>1, <3>2
    <2>3. CASE t \notin Sources(r)
      <3>1. Total(BeforeOf(r, L, t)) = 0
        BY <1>3, <2>3, LinesParts
      <3>2. Total(MatchedOf(t)) \in Nat
        BY <1>7, LiveParts
      <3>3. Total(BeforeOf(q, n, t)) \in Nat
        BY <1>5, <1>6, LinesParts
      <3> QED
        BY <1>6, <1>7, <2>1, <3>1, <3>2, <3>3
    <2> QED
      BY <2>2, <2>3
  <1>11. ASSUME NEW i \in DOMAIN reconciliation', Asked(i)' = MatchesOf(q), Asked(i)' # {}
         PROVE  Changed(i)'
    <2>1. CASE i \in DOMAIN reconciliation
      <3>1. reconciliation'[i] = reconciliation[i]
        BY <2>1, CommitAdds
      <3> QED
        BY <1>6, <1>11, <2>1, <3>1 DEF Asked, Changed
    <2>2. CASE i = k
      <3>1. MatchesOf(r) = MatchesOf(q) /\ MatchesOf(q) # {}
        BY <1>2, <1>11, <2>2, CommitAdds DEF Asked
      <3>2. \E t : t \in Sources(r) /\ t \in Sources(q)
        BY <3>1 DEF Sources
      <3> QED
        BY <1>3, <1>6, <3>2
    <2> QED
      BY <1>2, <2>1, <2>2, CommitAdds
  <1>12. \A t \in Sources(q) : lock'[t] = u
    <2>1. \A x \in Statement \cup Target : lock[x] = u => lock'[x] = u
      BY UnlockedRows DEF CommitReconcile
    <2> QED
      BY <1>5, <1>6, <2>1, SourcesShape
  <1> QED
    BY <1>1, <1>4, <1>6, <1>9, <1>10, <1>11, <1>12 DEF Claims

\* A committed reconciliation keeps the invariant.
LEMMA CommitReconcileAmounts ==
    ASSUME AmountsInv, BankInv', NEW s \in Session, CommitReconcile(s)
    PROVE  AmountsInv'
  <1>1. PICK r, k : r = session[s].request /\ k = Len(reconciliation) + 1
    OBVIOUS
  <1>2. /\ DOMAIN reconciliation' = DOMAIN reconciliation \cup {k} /\ k \in Nat
        /\ \A n \in DOMAIN reconciliation : n \in Nat /\ n < k
        /\ \A n \in DOMAIN reconciliation : reconciliation'[n] = reconciliation[n]
        /\ reconciliation'[k].request = r /\ reconciliation'[k].items = Items(r)
        /\ Counted(Live')
    BY <1>1, CommitAdds
  <1>3. session[s].op = "match" /\ r \in Request
    BY <1>1, CommitReady
  <1>4. Becomes(s, Idle) /\ session'[s] = Idle /\ lock' = Unlocked(s)
    BY DEF CommitReconcile, Becomes, AmountsInv, BankInv, Typed
  <1>5. LocksAtWork'
    BY <1>4, UnlockedRows, LocksKept
  <1>6. \A n \in DOMAIN reconciliation : /\ Asked(n)' = Asked(n)
                                         /\ Changed(n)' = Changed(n)
                                         /\ ItemsAsAsked(n)' = ItemsAsAsked(n)
    BY <1>2 DEF Asked, Changed, ItemsAsAsked
  <1>7. Asked(k)' = MatchesOf(r)
    BY <1>2 DEF Asked
  <1>8. ItemsAsAsked(k)'
    BY <1>2, <1>3, <1>7, ItemsOfLines DEF ItemsAsAsked
  <1>9. \A n \in DOMAIN reconciliation' : ItemsAsAsked(n)'
    BY <1>2, <1>6, <1>8 DEF AmountsInv
  <1>10. RequestsApplyOnce'
    <2>1. ASSUME NEW i \in DOMAIN reconciliation', NEW j \in DOMAIN reconciliation', i < j,
                 Asked(i)' = Asked(j)', Asked(i)' # {}
          PROVE  Changed(i)'
      <3>1. i \in DOMAIN reconciliation
        BY <1>2, <2>1
      <3>2. CASE j \in DOMAIN reconciliation
        <4>1. Asked(i) = Asked(j) /\ Asked(i) # {}
          BY <1>6, <2>1, <3>1, <3>2
        <4> QED
          BY <1>6, <2>1, <3>1, <3>2, <4>1 DEF AmountsInv, RequestsApplyOnce, Asked
      <3>3. CASE j = k
        <4>1. Asked(i) = MatchesOf(r) /\ Asked(i) # {}
          BY <1>6, <1>7, <2>1, <3>1, <3>3
        <4>2. Claims(s)
          BY DEF AmountsInv
        <4> QED
          BY <1>1, <1>3, <1>6, <3>1, <4>1, <4>2 DEF Claims
      <3> QED
        BY <1>2, <3>2, <3>3
    <2> QED
      BY <2>1 DEF RequestsApplyOnce, Asked
  <1>11. \A u \in Session : Claims(u)'
    <2>1. Claims(s)'
      BY <1>4 DEF Claims, Idle
    <2> QED
      BY <2>1, CommitLeavesClaims
  <1> QED
    BY <1>2, <1>5, <1>9, <1>10, <1>11, CommitWithin DEF AmountsInv

-----------------------------------------------------------------------------

\* Nothing is matched initially.
LEMMA InitAmounts == Init => AmountsInv
  <1> SUFFICES ASSUME Init PROVE AmountsInv
    OBVIOUS
  <1>1. BankInv
    BY InitBank
  <1>2. DOMAIN reconciliation = {} /\ Live = {}
    BY DEF Init, Live
  <1>3. LocksAtWork
    BY DEF Init, LocksAtWork
  <1>4. Counted(Live)
    BY <1>2, TotalEmpty
  <1>5. \A y : OfTarget(y) = {} /\ MatchedOf(y) = {}
    BY <1>2 DEF OfTarget, MatchedOf
  <1>6. MatchesWithinAmounts
    <2>0. \A x \in Statement \cup Target : Amount[x] \in Nat
      BY RequestAssumption
    <2>1. ASSUME NEW y \in Target PROVE Total(OfTarget(y)) <= Amount[y]
      <3>1. Total(OfTarget(y)) = 0
        BY <1>5, TotalEmpty, Zenon
      <3> QED
        BY <2>0, <3>1
    <2>2. ASSUME NEW t \in Statement PROVE Total(MatchedOf(t)) <= Amount[t]
      <3>1. Total(MatchedOf(t)) = 0
        BY <1>5, TotalEmpty, Zenon
      <3> QED
        BY <2>0, <3>1
    <2> QED
      BY <2>1, <2>2 DEF MatchesWithinAmounts, OfTarget, AllocatedToTarget, MatchedOf
  <1>7. RequestsApplyOnce
    BY <1>2 DEF RequestsApplyOnce
  <1>8. \A s \in Session : Claims(s)
    BY DEF Init, Idle, Claims
  <1> QED
    BY <1>1, <1>2, <1>3, <1>4, <1>6, <1>7, <1>8 DEF AmountsInv

\* Every step keeps the invariant.
LEMMA NextAmounts == AmountsInv /\ [Next]_vars => AmountsInv'
  <1> SUFFICES ASSUME AmountsInv, [Next]_vars PROVE AmountsInv'
    OBVIOUS
  <1>0. BankInv'
    BY NextBank DEF AmountsInv
  <1>1. ASSUME NEW s \in Session, NEW r \in Request, BeginReconcile(s, r) PROVE AmountsInv'
    BY <1>0, <1>1, BeginReconcileAmounts
  <1>2. ASSUME NEW s \in Session, LockSources(s) PROVE AmountsInv'
    BY <1>0, <1>2, LockSourcesAmounts
  <1>3. ASSUME NEW s \in Session, Replay(s) PROVE AmountsInv'
    BY <1>0, <1>3, ReplayAmounts
  <1>4. ASSUME NEW s \in Session, AddMatch(s) PROVE AmountsInv'
    BY <1>0, <1>4, AddMatchAmounts
  <1>5. ASSUME NEW s \in Session, CommitReconcile(s) PROVE AmountsInv'
    BY <1>0, <1>5, CommitReconcileAmounts
  <1>6. ASSUME NEW s \in Session, NEW p \in Payment, BeginCancel(s, p) PROVE AmountsInv'
    BY <1>0, <1>6, BeginCancelAmounts
  <1>7. ASSUME NEW s \in Session, ReadLinked(s) PROVE AmountsInv'
    BY <1>0, <1>7, ReadLinkedAmounts
  <1>8. ASSUME NEW s \in Session, CommitCancel(s) PROVE AmountsInv'
    BY <1>0, <1>8, CommitCancelAmounts
  <1>9. ASSUME NEW s \in Session, Rollback(s) PROVE AmountsInv'
    BY <1>0, <1>9, RollbackAmounts
  <1>10. CASE UNCHANGED vars
    <2>1. UNCHANGED <<reconciliation, lock, session>>
      BY <1>10 DEF vars
    <2>2. OnlyTouched
      BY <2>1, NothingTouched
    <2>3. \A u \in Session : Claims(u)'
      BY <2>1, <2>2, TouchedClaims
    <2>4. LocksAtWork'
      BY <2>1 DEF AmountsInv, LocksAtWork
    <2> QED
      BY <1>0, <2>2, <2>3, <2>4, TouchedKeeps DEF AmountsInv
  <1> QED
    BY <1>1, <1>2, <1>3, <1>4, <1>5, <1>6, <1>7, <1>8, <1>9, <1>10 DEF Next

\* The inductive invariant of what is matched: what a request has tested holds
\* until its commit, since it holds the rows of its lines and of their targets
\* (_lock_request_transactions, _add_reconciliation_match).
THEOREM AmountsInvariant == Spec => []AmountsInv
  BY InitAmounts, NextAmounts, PTL DEF Spec

\* Committed data have their types, and locks their holders at work.
THEOREM BankTypeCorrect == Spec => []TypeOK
  <1>1. AmountsInv => TypeOK
    <2> SUFFICES ASSUME AmountsInv PROVE TypeOK
      OBVIOUS
    <2>1. Typed /\ LocksAtWork
      BY DEF AmountsInv, BankInv
    <2>2. \A n \in DOMAIN reconciliation :
             reconciliation[n].request \in Request /\ reconciliation[n].items \subseteq Item
      BY RecordedItems DEF Recorded
    <2>3. lock \in [Statement \cup Target -> Session \cup {NoSession}]
      BY <2>1 DEF Typed, LocksAtWork
    <2>4. \A x \in DOMAIN lock : lock[x] # NoSession => session[lock[x]].op # "idle"
      BY <2>1, <2>3 DEF LocksAtWork
    <2> QED
      BY <2>1, <2>2, <2>3, <2>4 DEF TypeOK, Typed
  <1> QED
    BY <1>1, AmountsInvariant, PTL

\* No payment, ledger entry or statement line is matched for more than it is
\* worth, whoever reconciles at the same time (_pending_source_amount and
\* _pending_target_amount, read under the locks of the rows).
THEOREM MatchesAlwaysWithin == Spec => []MatchesWithinAmounts
  <1>1. AmountsInv => MatchesWithinAmounts
    BY DEF AmountsInv
  <1> QED
    BY <1>1, AmountsInvariant, PTL

\* The same matches are reconciled again only after a payment of the first
\* reconciliation was cancelled or a difference posted to it
\* (_matching_reconciliation_replay, under the locks of the lines).
THEOREM RequestsAppliedOnce == Spec => []RequestsApplyOnce
  <1>1. AmountsInv => RequestsApplyOnce
    BY DEF AmountsInv
  <1> QED
    BY <1>1, AmountsInvariant, PTL
===============================================================================
