------------------------ MODULE BankReconciliation ------------------------
(***************************************************************************)
(* Matching of bank statement lines (BankTransaction) with payments and     *)
(* ledger entries (bancos/reconciliation_service.py, bancos/routes.py), and *)
(* what the cancellation of a payment undoes of it                          *)
(* (_apply_payment_cancellation_hooks in bancos/services.py).               *)
(*                                                                         *)
(* A reconciliation locks its statement lines in the order of their ids and *)
(* every target as it comes to it, and reads what is pending under those    *)
(* locks; the form's own tests are made before.  A cancellation locks the   *)
(* payment first and the statement lines last.  Database: PostgreSQL, READ  *)
(* COMMITTED.  The period is open and no second reviewer is asked for.      *)
(* Amounts are whole units of one currency.                                 *)
(***************************************************************************)
EXTENDS Integers, FiniteSets, Sequences, Functions, FiniteSetsExt

CONSTANTS
    Session,              \* transactions at work
    Statement,            \* bank_transaction
    Payment,              \* payment_entry
    Entry,                \* gl_entry
    Amount,               \* of each of them
    Request,              \* reconciliations users ask for
    MaxReconciliations,   \* bound on reconciliation
    NoSession, NoPayment

Target == Payment \cup Entry
Match == [source : Statement, target : Target, amount : Nat \ {0}]

\* A request is a sequence of matches and the difference posted for each source.
ASSUME RequestAssumption ==
    /\ Request \subseteq [match : Seq(Match), difference : [Statement -> Nat]]
    /\ Amount \in [Statement \cup Target -> Nat]
    /\ IsFiniteSet(Statement)
    /\ NoSession \notin Session /\ NoPayment \notin Payment /\ "difference" \notin Target

VARIABLES
    statement,        \* is_reconciled and payment_entry_id of a statement line
    payment,          \* docstatus of a payment
    reconciliation,   \* reconciliations with their items, as committed
    lock,             \* holder of a row lock
    session           \* what an open transaction works at

vars == <<statement, payment, reconciliation, lock, session>>

Idle == [op |-> "idle"]

Init ==
    /\ statement = [t \in Statement |-> [reconciled |-> FALSE, link |-> NoPayment]]
    /\ payment = [p \in Payment |-> "submitted"]
    /\ reconciliation = <<>>
    /\ lock = [x \in Statement \cup Target |-> NoSession]
    /\ session = [s \in Session |-> Idle]

-----------------------------------------------------------------------------
(* What is allocated                                                       *)

MatchesOf(r) == {r.match[i] : i \in DOMAIN r.match}
Sources(r) == {m.source : m \in MatchesOf(r)}

\* Items not cancelled, with the reconciliation they belong to.
Live == {x \in UNION {{n} \X reconciliation[n].items : n \in DOMAIN reconciliation} : x[2].live}

Total(matches) == SumFunction([x \in matches |-> x[2].amount])

\* _allocated_for_source, _allocated_for_target.
AllocatedFromSource(t) == Total({x \in Live : x[2].source = t})
AllocatedToTarget(y) == Total({x \in Live : x[2].target = y})

\* What the lines of a request before line n allocate (source_totals, target_totals).
Before(r, n) == {<<i, r.match[i]>> : i \in 1 .. n - 1}

PendingOfSource(t, r, n) ==
    Amount[t] - AllocatedFromSource(t) - Total({x \in Before(r, n) : x[2].source = t})

\* Mutant: the pending amount of the target is that of the candidate's page.
PendingWithoutItems(y, r, n) == Amount[y] - Total({x \in Before(r, n) : x[2].target = y})

PendingOfTarget(y, r, n) ==
    Amount[y] - AllocatedToTarget(y) - Total({x \in Before(r, n) : x[2].target = y})

-----------------------------------------------------------------------------
(* Reconciling                                                             *)

Free(s, x) == lock[x] \in {s, NoSession}

\* Mutant: the connection goes back to the pool with its locks.
StillLocked(s) == lock

Locked(s, rows) == [x \in DOMAIN lock |-> IF x \in rows THEN s ELSE lock[x]]
Unlocked(s) == [x \in DOMAIN lock |-> IF lock[x] = s THEN NoSession ELSE lock[x]]

\* The form: no line is reconciled, and a difference is what a match leaves of
\* the amount pending when the form is read.
FormAccepts(r) ==
    /\ \A t \in Sources(r) : ~statement[t].reconciled
    /\ \A m \in MatchesOf(r) : r.difference[m.source] > 0 =>
           m.amount + r.difference[m.source] = Amount[m.source] - AllocatedFromSource(m.source)

BeginReconcile(s, r) ==
    /\ session[s].op = "idle"
    /\ Len(reconciliation) < MaxReconciliations
    /\ FormAccepts(r)
    /\ session' = [session EXCEPT ![s] = [op |-> "lock", request |-> r, line |-> 1]]
    /\ UNCHANGED <<statement, payment, reconciliation, lock>>

\* _matching_reconciliation_replay: reconciliations whose live items are the
\* matches asked for.  Lines of one request differ, so sets compare as counters do.
Prior(r) ==
    {n \in DOMAIN reconciliation :
        MatchesOf(r) = {[source |-> x[2].source, target |-> x[2].target, amount |-> x[2].amount] :
                            x \in {y \in Live : y[1] = n}}}

\* Mutant: an idempotent replay is not looked for.
NoReplay(r) == FALSE

Replayed(r) == Prior(r) # {}

\* _lock_request_transactions, in the order of the ids.
LockSources(s) ==
    /\ session[s].op = "lock"
    /\ LET r == session[s].request IN
         /\ \A t \in Sources(r) : Free(s, t)
         /\ ~Replayed(r)
         /\ lock' = Locked(s, Sources(r))
    /\ session' = [session EXCEPT ![s].op = "match"]
    /\ UNCHANGED <<statement, payment, reconciliation>>

\* The item of a difference is matched with the entry of its own journal.
Differences(r) ==
    {[source |-> t, target |-> "difference", amount |-> r.difference[t], live |-> TRUE] :
        t \in {u \in Statement : r.difference[u] > 0}}

Items(r) ==
    Differences(r) \cup
    {[source |-> m.source, target |-> m.target, amount |-> m.amount, live |-> TRUE] : m \in MatchesOf(r)}

\* A request that was applied before adds no matches, but the form posts its
\* differences, to the last reconciliation found, and commits.
Replay(s) ==
    /\ session[s].op = "lock"
    /\ LET r == session[s].request IN
         /\ \A t \in Sources(r) : Free(s, t)
         /\ Replayed(r)
         /\ reconciliation' = [reconciliation EXCEPT ![Max(Prior(r))].items = @ \cup Differences(r)]
         /\ statement' = [t \in Statement |->
                [statement[t] EXCEPT !.reconciled = @ \/ r.difference[t] > 0]]
    /\ session' = [session EXCEPT ![s] = Idle]
    /\ UNCHANGED <<payment, lock>>

\* Mutant: the status of the target is not looked at.
AnyTarget(y) == TRUE

Eligible(y) == y \in Payment => payment[y] = "submitted"

\* _add_reconciliation_match: the target is locked and read again.
AddMatch(s) ==
    /\ session[s].op = "match"
    /\ LET r == session[s].request
           n == session[s].line
       IN /\ n \in DOMAIN r.match
          /\ LET m == r.match[n] IN
               /\ Free(s, m.target)
               /\ Eligible(m.target)
               /\ m.amount <= PendingOfSource(m.source, r, n)
               /\ m.amount <= PendingOfTarget(m.target, r, n)
               /\ lock' = Locked(s, {m.target})
          /\ session' = [session EXCEPT ![s].line = n + 1]
    /\ UNCHANGED <<statement, payment, reconciliation>>

\* The first match of t with a payment (_populate_payment_entry_id).
FirstPayment(r, t) ==
    LET paid == {i \in DOMAIN r.match : r.match[i].source = t /\ r.match[i].target \in Payment}
    IN IF paid = {} THEN NoPayment ELSE r.match[Min(paid)].target

Link(r, t) == IF statement[t].link # NoPayment THEN statement[t].link ELSE FirstPayment(r, t)

\* is_reconciled is set when the matches cover the line, and when a difference
\* is posted.
Covered(r, t) ==
    \/ AllocatedFromSource(t) + Total({x \in Before(r, Len(r.match) + 1) : x[2].source = t}) >= Amount[t]
    \/ r.difference[t] > 0

\* _update_reconciled_transactions, the differences of the form, and the commit.
CommitReconcile(s) ==
    /\ session[s].op = "match"
    /\ LET r == session[s].request IN
         /\ session[s].line > Len(r.match)
         /\ reconciliation' = Append(reconciliation, [request |-> r, items |-> Items(r)])
         /\ statement' = [t \in Statement |->
                IF t \in Sources(r)
                THEN [reconciled |-> statement[t].reconciled \/ Covered(r, t), link |-> Link(r, t)]
                ELSE statement[t]]
    /\ lock' = Unlocked(s)
    /\ session' = [session EXCEPT ![s] = Idle]
    /\ UNCHANGED payment

-----------------------------------------------------------------------------
(* Cancelling a payment                                                    *)

\* cancel_document holds the row of the payment from here on.
BeginCancel(s, p) ==
    /\ session[s].op = "idle"
    /\ payment[p] = "submitted"
    /\ Free(s, p)
    /\ lock' = Locked(s, {p})
    /\ session' = [session EXCEPT ![s] = [op |-> "cancel", payment |-> p]]
    /\ UNCHANGED <<statement, payment, reconciliation>>

\* Mutant: only the lines that are reconciled are found.
ReconciledWith(p) == {t \in Statement : statement[t].reconciled /\ statement[t].link = p}

LinkedTo(p) == {t \in Statement : statement[t].link = p}

\* The statement lines linked to the payment, read without a lock.
ReadLinked(s) ==
    /\ session[s].op = "cancel"
    /\ LET linked == LinkedTo(session[s].payment) IN
         session' = [session EXCEPT ![s] =
             [op |-> "unlink", payment |-> session[s].payment, linked |-> linked,
              reconciled |-> {t \in linked : statement[t].reconciled}]]
    /\ UNCHANGED <<statement, payment, reconciliation, lock>>

\* Mutant: the items are left as they are.
SameItems(items, p) == items

WithoutPayment(items, p) == {IF m.target = p THEN [m EXCEPT !.live = FALSE] ELSE m : m \in items}

\* The lines that were read are unlinked, those read as reconciled are not any
\* more, the items of the payment are cancelled, and the transaction commits.
CommitCancel(s) ==
    /\ session[s].op = "unlink"
    /\ \A t \in session[s].linked : Free(s, t)
    /\ LET p == session[s].payment IN
         /\ payment' = [payment EXCEPT ![p] = "cancelled"]
         /\ reconciliation' = [n \in DOMAIN reconciliation |->
                [reconciliation[n] EXCEPT !.items = WithoutPayment(@, p)]]
         /\ statement' = [t \in Statement |->
                IF t \in session[s].linked
                THEN [reconciled |-> statement[t].reconciled /\ t \notin session[s].reconciled,
                      link |-> NoPayment]
                ELSE statement[t]]
    /\ lock' = Unlocked(s)
    /\ session' = [session EXCEPT ![s] = Idle]

\* A refusal, an error, the end of the process, or the victim of a deadlock.
Rollback(s) ==
    /\ session[s].op # "idle"
    /\ lock' = Unlocked(s)
    /\ session' = [session EXCEPT ![s] = Idle]
    /\ UNCHANGED <<statement, payment, reconciliation>>

-----------------------------------------------------------------------------
Next == \E s \in Session :
    \/ \E r \in Request : BeginReconcile(s, r)
    \/ LockSources(s) \/ Replay(s) \/ AddMatch(s) \/ CommitReconcile(s)
    \/ \E p \in Payment : BeginCancel(s, p)
    \/ ReadLinked(s) \/ CommitCancel(s) \/ Rollback(s)

Spec == Init /\ [][Next]_vars

-----------------------------------------------------------------------------
(* Properties                                                              *)

Item == [source : Statement, target : Target \cup {"difference"}, amount : Nat, live : BOOLEAN]

\* Committed data have their types, and a lock has a holder at work.
TypeOK ==
    /\ statement \in [Statement -> [reconciled : BOOLEAN, link : Payment \cup {NoPayment}]]
    /\ payment \in [Payment -> {"submitted", "cancelled"}]
    /\ \A n \in DOMAIN reconciliation :
           reconciliation[n].request \in Request /\ reconciliation[n].items \subseteq Item
    /\ lock \in [Statement \cup Target -> Session \cup {NoSession}]
    /\ \A x \in DOMAIN lock : lock[x] # NoSession => session[lock[x]].op # "idle"

\* No payment and no ledger entry is matched for more than it is worth, and the
\* matches of a statement line, its differences apart, stay within the line,
\* whichever users match them and in whatever order.
MatchesWithinAmounts ==
    /\ \A y \in Target : AllocatedToTarget(y) <= Amount[y]
    /\ \A t \in Statement :
          Total({x \in Live : x[2].source = t /\ x[2].target # "difference"}) <= Amount[t]

\* A cancelled payment is matched with nothing, also when it is cancelled while
\* it is being matched.
CancelledPaymentUnmatched ==
    \A x \in Live, p \in Payment : payment[p] = "cancelled" => x[2].target # p

\* A statement line is linked to a payment only while it is matched with it.
LinkHasMatch ==
    \A t \in Statement : statement[t].link # NoPayment =>
        \E x \in Live : x[2].source = t /\ x[2].target = statement[t].link

\* An item of the reconciliation was cancelled, or has a difference.
Changed(n) == \E m \in reconciliation[n].items : ~m.live \/ m.target = "difference"

\* Two users who send the same request, or one who sends it twice, are one: the
\* same matches are reconciled again only when a payment of the first time was
\* cancelled, or a difference posted to it.
RequestsApplyOnce ==
    \A i, j \in DOMAIN reconciliation :
        LET asked(n) == MatchesOf(reconciliation[n].request)
        IN i < j /\ asked(i) = asked(j) /\ asked(i) # {} => Changed(i)

\* A statement line shown as reconciled is covered by its matches.
ReconciledIsCovered ==
    \A t \in Statement : statement[t].reconciled => AllocatedFromSource(t) >= Amount[t]
=============================================================================
