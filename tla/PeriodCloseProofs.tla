------------------------- MODULE PeriodCloseProofs -------------------------
(***************************************************************************)
(* Proofs about PeriodClose, for any number of sessions, periods, vouchers  *)
(* and steps and any bounds: the types, what is posted into a closed period, *)
(* what a pending review speaks of, and when a year is financially closed.  *)
(***************************************************************************)
EXTENDS PeriodClose, SumTheorems, TLAPS

VoucherStatus == {"none", "draft", "submitted", "rejected", "cancelled"}

\* The types the arguments need; the bounds of the counters are not among them.
Typed ==
    /\ is_closed \in [Period -> BOOLEAN]
    /\ closings \in [Period -> Nat]
    /\ latest \in [Period -> [Origin -> Nat]]
    /\ year \in [is_closed : BOOLEAN, financial_closed : BOOLEAN,
                 closing_voucher : Voucher \cup {NoVoucher}]
    /\ voucher \in [Voucher -> VoucherStatus]
    /\ active \in SUBSET Voucher
    /\ session = [s \in Session |-> session[s]]
    /\ \A s \in Session :
         /\ session[s].op \in {"post"} \cup Kind => session[s].period \in Period
         /\ session[s].op \in {"post"} \cup VoucherOp => session[s].created \in Nat
         /\ session[s].op \in VoucherOp => session[s].voucher \in Voucher
         /\ session[s].op = "year" => session[s].closed \in BOOLEAN

\* No row is younger than the clock of its period, and in a closed period none
\* but those of closing journals are as young: neither committed nor in flight.
RowsOfTheirTime ==
    \A p \in Period :
        /\ latest[p]["ordinary"] <= closings[p]
        /\ is_closed[p] => latest[p]["ordinary"] < closings[p]

PostingsOfTheirTime ==
    \A s \in Session : session[s].op = "post" =>
        /\ session[s].created <= closings[session[s].period]
        /\ is_closed[session[s].period] => session[s].created < closings[session[s].period]

\* A session that closes or reopens holds the period alone, and finds it as it
\* read it, with the review it carries out.
HoldersAgree ==
    \A s \in Session : session[s].op \in Kind =>
        /\ session[s].op = "close" <=> ~is_closed[session[s].period]
        /\ \A r \in session[s].review :
             r \in requests /\ r.kind = session[s].op /\ r.period = session[s].period
        /\ \A t \in Session :
             session[t].op \in Kind /\ session[t].period = session[s].period => s = t

\* What the pending requests say, with one of a kind.
RequestsAgree ==
    /\ \A r \in requests :
         r.kind \in Kind /\ r.period \in Period /\ (r.kind = "close" <=> ~is_closed[r.period])
    /\ \A q, r \in requests : q.kind = r.kind /\ q.period = r.period => q = r

\* What was posted, was posted while its period was open.
ClockInv == RowsOfTheirTime /\ PostingsOfTheirTime
\* Reviews and the sessions that hold them agree.
ReviewInv == HoldersAgree /\ RequestsAgree
\* The inductive invariant of the safety properties.
PeriodInv == Typed /\ ClockInv /\ ReviewInv /\ OneYearClosing

-----------------------------------------------------------------------------

\* Open periods without vouchers satisfy the invariant.
LEMMA InitPeriod == Init => PeriodInv
  <1> SUFFICES ASSUME Init PROVE PeriodInv
    OBVIOUS
  <1>1. Typed
    BY DEF Init, Typed, Idle, Kind, VoucherOp, VoucherStatus
  <1>2. ClockInv
    BY DEF Init, ClockInv, RowsOfTheirTime, PostingsOfTheirTime, Idle, Origin
  <1>3. ReviewInv
    BY DEF Init, ReviewInv, HoldersAgree, RequestsAgree, Idle, Kind
  <1>4. OneYearClosing
    BY NoVoucherAssumption DEF Init, OneYearClosing
  <1> QED
    BY <1>1, <1>2, <1>3, <1>4 DEF PeriodInv

\* A step of a session that changes nothing but what the session works at.
LEMMA SessionStep ==
    ASSUME PeriodInv, NEW s \in Session, UNCHANGED <<calendar, ledger, requests, yearly>>,
           session' = [session EXCEPT ![s] = Idle]
    PROVE  PeriodInv'
  <1> USE DEF PeriodInv, calendar, ledger, yearly
  <1>1. session'[s] = Idle /\ \A t \in Session \ {s} : session'[t] = session[t]
    BY DEF Typed
  <1>2. Typed'
    BY <1>1 DEF Typed, Idle, Kind, VoucherOp
  <1>3. ClockInv'
    BY <1>1 DEF ClockInv, RowsOfTheirTime, PostingsOfTheirTime, Idle
  <1>4. ReviewInv'
    BY <1>1 DEF ReviewInv, HoldersAgree, RequestsAgree, Idle, Kind
  <1>5. OneYearClosing'
    BY DEF OneYearClosing
  <1> QED
    BY <1>2, <1>3, <1>4, <1>5

\* Checking the period before a posting keeps the invariant.
LEMMA StartPostKeeps ==
    ASSUME PeriodInv, NEW s \in Session, NEW p \in Period, StartPost(s, p)
    PROVE  PeriodInv'
  <1> USE DEF PeriodInv, StartPost, calendar, ledger, yearly
  <1>1. /\ session'[s] = [op |-> "post", period |-> p, created |-> closings[p]]
        /\ \A t \in Session \ {s} : session'[t] = session[t]
    BY DEF Typed
  <1>2. Typed'
    BY <1>1 DEF Typed, Kind, VoucherOp
  <1>3. ClockInv'
    BY <1>1 DEF ClockInv, RowsOfTheirTime, PostingsOfTheirTime, MayPost, Typed
  <1>4. ReviewInv'
    BY <1>1 DEF ReviewInv, HoldersAgree, RequestsAgree, Kind
  <1>5. OneYearClosing'
    BY DEF OneYearClosing
  <1> QED
    BY <1>2, <1>3, <1>4, <1>5

\* Committing a posting keeps the invariant: its row is as old as its check of the
\* period, which is before the close that has happened since.
LEMMA CommitPostKeeps ==
    ASSUME PeriodInv, NEW s \in Session, CommitPost(s)
    PROVE  PeriodInv'
  <1> USE DEF PeriodInv, calendar, yearly
  <1> DEFINE p == session[s].period
             now == Later(latest[p]["ordinary"], session[s].created)
  <1>1. /\ p \in Period /\ session[s].created \in Nat
        /\ "ordinary" \in Origin
        /\ UNCHANGED <<calendar, requests, yearly>>
    BY DEF CommitPost, Typed, Origin
  <1>2. latest' = [latest EXCEPT ![p]["ordinary"] = now]
    BY DEF CommitPost
  <1>3. session'[s] = Idle /\ \A t \in Session \ {s} : session'[t] = session[t]
    BY DEF CommitPost, Typed
  <1>4. now \in Nat /\ now \in {latest[p]["ordinary"], session[s].created}
    BY <1>1 DEF Later, Typed
  <1>5. /\ latest'[p]["ordinary"] = now
        /\ \A q \in Period \ {p} : latest'[q] = latest[q]
        /\ latest' \in [Period -> [Origin -> Nat]]
    BY <1>1, <1>2, <1>4 DEF Typed
  <1>6. Typed'
    BY <1>1, <1>3, <1>5 DEF CommitPost, Typed, Idle, Kind, VoucherOp
  <1>7. ClockInv'
    <2>1. PostingsOfTheirTime'
      BY <1>1, <1>3 DEF ClockInv, PostingsOfTheirTime, Idle
    <2>2. /\ now <= closings[p]
          /\ is_closed[p] => now < closings[p]
      BY <1>1, <1>4 DEF CommitPost, ClockInv, RowsOfTheirTime, PostingsOfTheirTime
    <2>3. RowsOfTheirTime'
      BY <1>1, <1>5, <2>2 DEF ClockInv, RowsOfTheirTime
    <2> QED
      BY <2>1, <2>3 DEF ClockInv
  <1>8. ReviewInv'
    BY <1>1, <1>3 DEF ReviewInv, HoldersAgree, RequestsAgree, Idle, Kind
  <1>9. OneYearClosing'
    BY <1>1 DEF OneYearClosing
  <1> QED
    BY <1>6, <1>7, <1>8, <1>9

\* Closing journals write the newest closing row of a period and nothing else
\* that the clock speaks of.
LEMMA ClosingRowKeeps ==
    ASSUME Typed, ClockInv, NEW p \in Period, NEW created \in Nat,
           latest' = [latest EXCEPT ![p]["closing"] = created],
           UNCHANGED calendar
    PROVE  RowsOfTheirTime' /\ latest' \in [Period -> [Origin -> Nat]]
  <1>1. "closing" \in Origin /\ "ordinary" \in Origin
    BY DEF Origin
  <1>2. /\ latest' \in [Period -> [Origin -> Nat]]
        /\ \A q \in Period : latest'[q]["ordinary"] = latest[q]["ordinary"]
    BY <1>1 DEF Typed
  <1> QED
    BY <1>2 DEF calendar, ClockInv, RowsOfTheirTime

\* The closing entries of a period keep the invariant.
LEMMA PostClosingKeeps ==
    ASSUME PeriodInv, NEW p \in Period, PostClosing(p)
    PROVE  PeriodInv'
  <1> USE DEF PeriodInv, PostClosing
  <1>1. RowsOfTheirTime' /\ latest' \in [Period -> [Origin -> Nat]]
    <2>1. closings[p] \in Nat
      BY DEF Typed
    <2> QED
      BY <2>1, ClosingRowKeeps
  <1>2. ClockInv'
    BY <1>1 DEF ClockInv, PostingsOfTheirTime, calendar
  <1>3. Typed'
    BY <1>1 DEF Typed, calendar, yearly
  <1>4. ReviewInv' /\ OneYearClosing'
    BY DEF ReviewInv, HoldersAgree, RequestsAgree, OneYearClosing, calendar, yearly
  <1> QED
    BY <1>2, <1>3, <1>4

\* The assistant writes the run and its checks, which the invariant leaves out.
LEMMA AssistantKeeps ==
    ASSUME PeriodInv, NEW p \in Period, Assistant(p)
    PROVE  PeriodInv'
  <1>1. UNCHANGED <<is_closed, closings, ledger, requests, yearly, session>>
    BY DEF Assistant, NewRun, RunStep
  <1> QED
    BY <1>1 DEF PeriodInv, Typed, ClockInv, RowsOfTheirTime, PostingsOfTheirTime, ReviewInv,
                HoldersAgree, RequestsAgree, OneYearClosing, ledger, yearly

\* Start and StartReviewed take the row of a free period and what they read.
LEMMA TakeKeeps ==
    ASSUME PeriodInv, NEW s \in Session, NEW kind \in Kind, NEW p \in Period,
           Free(p), May(kind, p), NEW review,
           \A r \in review : r \in requests /\ r.kind = kind /\ r.period = p,
           session' = [session EXCEPT ![s] =
                         [op |-> kind, period |-> p, entries |-> entries[p], review |-> review]],
           UNCHANGED <<calendar, ledger, requests, yearly>>
    PROVE  PeriodInv'
  <1> USE DEF PeriodInv, calendar, ledger, yearly
  <1>1. /\ session'[s].op = kind /\ session'[s].period = p /\ session'[s].review = review
        /\ \A t \in Session \ {s} : session'[t] = session[t]
    BY DEF Typed
  <1>2. kind \notin {"post", "year"} \cup VoucherOp /\ (kind = "close" <=> ~is_closed[p])
    BY DEF Kind, VoucherOp, May, MayClose, MayReopen
  <1>3. \A t \in Session : session[t].op \in Kind => session[t].period # p
    BY DEF Free, Holds
  <1>4. Typed'
    <2>1. session' = [t \in Session |-> session'[t]]
      BY DEF Typed
    <2> QED
      BY <1>1, <1>2, <2>1 DEF Typed
  <1>5. ClockInv'
    BY <1>1, <1>2 DEF ClockInv, RowsOfTheirTime, PostingsOfTheirTime
  <1>6. ReviewInv'
    <2>1. HoldersAgree'
      BY <1>1, <1>2, <1>3 DEF ReviewInv, HoldersAgree
    <2>2. RequestsAgree'
      BY DEF ReviewInv, RequestsAgree
    <2> QED
      BY <2>1, <2>2 DEF ReviewInv
  <1>7. OneYearClosing'
    BY DEF OneYearClosing
  <1> QED
    BY <1>4, <1>5, <1>6, <1>7

\* A proposal that opens a review keeps the invariant.
LEMMA ProposeKeeps ==
    ASSUME PeriodInv, NEW s \in Session, Propose(s)
    PROVE  PeriodInv'
  <1> USE DEF PeriodInv, calendar, ledger, yearly
  <1> DEFINE p == session[s].period
             pending == Pending(session[s].op, p)
             proposal == [kind |-> session[s].op, period |-> p,
                          requested_by |-> s, entries |-> session[s].entries]
  <1>1. session[s].op \in Kind /\ session[s].review = {} /\ p \in Period
    BY DEF Propose, Typed
  <1>2. session'[s] = Idle /\ \A t \in Session \ {s} : session'[t] = session[t]
    BY DEF Propose, Typed
  <1>3. requests' = requests \/ requests' = (requests \ pending) \cup {proposal}
    BY DEF Propose
  <1>4. Typed'
    BY <1>2 DEF Propose, Typed, Idle, Kind, VoucherOp
  <1>5. ClockInv'
    BY <1>2 DEF Propose, ClockInv, RowsOfTheirTime, PostingsOfTheirTime, Idle
  <1>6. HoldersAgree'
    <2>1. \A t \in Session \ {s} : session[t].op \in Kind => session[t].period # p
      BY <1>1 DEF ReviewInv, HoldersAgree
    <2>2. \A r \in requests : r.period # p => r \in requests'
      BY <1>3 DEF Pending
    <2> QED
      BY <1>2, <2>1, <2>2 DEF Propose, ReviewInv, HoldersAgree, Idle, Kind
  <1>7. RequestsAgree'
    <2>1. session[s].op = "close" <=> ~is_closed[p]
      BY <1>1 DEF ReviewInv, HoldersAgree
    <2>2. /\ \A r \in requests \ pending : r.kind # proposal.kind \/ r.period # proposal.period
          /\ proposal.kind = session[s].op /\ proposal.period = p
      BY DEF Pending
    <2> QED
      BY <1>1, <1>3, <2>1, <2>2 DEF Propose, ReviewInv, RequestsAgree
  <1>8. OneYearClosing'
    BY DEF Propose, OneYearClosing
  <1> QED
    BY <1>4, <1>5, <1>6, <1>7, <1>8 DEF ReviewInv

\* What closing and reopening do to the requests of the period: none is left of
\* the kind that was carried out, and there was none of the other.
LEMMA DecideKeeps ==
    ASSUME PeriodInv, NEW s \in Session, session[s].op \in Kind, MayCommit(s),
           session' = [session EXCEPT ![s] = Idle],
           requests' = requests \ session[s].review,
           is_closed' = [is_closed EXCEPT ![session[s].period] = (session[s].op = "close")]
    PROVE  ReviewInv'
  <1> USE DEF PeriodInv
  <1> DEFINE p == session[s].period
  <1>1. session'[s] = Idle /\ \A t \in Session \ {s} : session'[t] = session[t]
    BY DEF Typed
  <1>2. /\ p \in Period
        /\ \A q \in Period \ {p} : is_closed'[q] = is_closed[q]
        /\ \A t \in Session \ {s} : session[t].op \in Kind =>
              session[t].period \in Period \ {p}
    BY DEF Typed, ReviewInv, HoldersAgree
  <1>3. \A r \in session[s].review : r \in requests /\ r.period = p
    BY DEF ReviewInv, HoldersAgree
  <1>4. \A r \in requests' : r.period # p
    <2> SUFFICES ASSUME NEW r \in requests, r.period = p PROVE r \in session[s].review
      OBVIOUS
    <2>1. r.kind = session[s].op
      BY DEF ReviewInv, HoldersAgree, RequestsAgree, Kind
    <2>2. PICK q \in session[s].review : TRUE
      BY <2>1 DEF MayCommit, Pending
    <2>3. q \in requests /\ q.kind = r.kind /\ q.period = r.period
      BY <2>1, <2>2 DEF ReviewInv, HoldersAgree
    <2>4. q = r
      BY <2>3 DEF ReviewInv, RequestsAgree
    <2> QED
      BY <2>2, <2>4
  <1>5. HoldersAgree'
    BY <1>1, <1>2, <1>3 DEF ReviewInv, HoldersAgree, Idle, Kind
  <1>6. RequestsAgree'
    BY <1>2, <1>4 DEF ReviewInv, RequestsAgree
  <1> QED
    BY <1>5, <1>6 DEF ReviewInv

\* Closing a period keeps the invariant; the review it carries out is gone.
LEMMA CommitCloseKeeps ==
    ASSUME PeriodInv, NEW s \in Session, CommitClose(s)
    PROVE  PeriodInv'
  <1> DEFINE p == session[s].period
  <1> USE DEF PeriodInv
  <1>1. session[s].op = "close" /\ session[s].op \in Kind /\ p \in Period
    BY DEF CommitClose, Typed, Kind, VoucherOp
  <1>2. session'[s] = Idle /\ \A t \in Session \ {s} : session'[t] = session[t]
    BY DEF CommitClose, Typed
  <1>3. /\ closings' = [closings EXCEPT ![p] = closings[p] + 1]
        /\ is_closed' = [is_closed EXCEPT ![p] = TRUE]
        /\ UNCHANGED <<latest, year, voucher, active>>
    BY DEF CommitClose, ledger, yearly
  <1>4. /\ closings'[p] = closings[p] + 1 /\ is_closed'[p]
        /\ \A q \in Period \ {p} : closings'[q] = closings[q] /\ is_closed'[q] = is_closed[q]
    BY <1>1, <1>3 DEF Typed
  <1>5. closings' \in [Period -> Nat] /\ is_closed' \in [Period -> BOOLEAN]
    BY <1>1, <1>3 DEF Typed
  <1>6. Typed'
    <2>1. session' = [t \in Session |-> session'[t]]
      BY DEF CommitClose, Typed
    <2> QED
      BY <1>2, <1>3, <1>5, <2>1 DEF Typed, Idle, Kind, VoucherOp
  <1>7. ClockInv'
    <2>1. \A q \in Period : latest[q]["ordinary"] \in Nat /\ closings[q] \in Nat
      BY DEF Typed, Origin
    <2>2. RowsOfTheirTime'
      BY <1>3, <1>4, <2>1 DEF ClockInv, RowsOfTheirTime
    <2>3. PostingsOfTheirTime'
      <3> SUFFICES ASSUME NEW t \in Session, session'[t].op = "post"
                   PROVE  /\ session'[t].created <= closings'[session'[t].period]
                          /\ is_closed'[session'[t].period] =>
                               session'[t].created < closings'[session'[t].period]
        BY DEF PostingsOfTheirTime
      <3>1. t # s /\ session'[t] = session[t]
        BY <1>2 DEF Idle
      <3>2. session[t].created \in Nat /\ session[t].period \in Period
        BY <3>1 DEF Typed
      <3>3. /\ session[t].created <= closings[session[t].period]
            /\ is_closed[session[t].period] =>
                 session[t].created < closings[session[t].period]
        BY <3>1 DEF ClockInv, PostingsOfTheirTime
      <3>4. CASE session[t].period = p
        BY <1>4, <2>1, <3>1, <3>2, <3>3, <3>4
      <3>5. CASE session[t].period # p
        BY <1>4, <3>1, <3>2, <3>3, <3>5
      <3> QED
        BY <3>4, <3>5
    <2> QED
      BY <2>2, <2>3 DEF ClockInv
  <1>8. ReviewInv'
    <2>1. MayCommit(s) /\ requests' = requests \ session[s].review
            /\ session' = [session EXCEPT ![s] = Idle]
      BY DEF CommitClose
    <2>2. is_closed' = [is_closed EXCEPT ![p] = (session[s].op = "close")]
      BY <1>1, <1>3
    <2> QED
      BY <1>1, <2>1, <2>2, DecideKeeps
  <1>9. OneYearClosing'
    BY <1>3 DEF OneYearClosing
  <1> QED
    BY <1>6, <1>7, <1>8, <1>9

\* Reopening a period keeps the invariant; the review it carries out is gone.
LEMMA CommitReopenKeeps ==
    ASSUME PeriodInv, NEW s \in Session, CommitReopen(s)
    PROVE  PeriodInv'
  <1> DEFINE p == session[s].period
  <1> USE DEF PeriodInv
  <1>1. session[s].op = "reopen" /\ session[s].op \in Kind /\ p \in Period
    BY DEF CommitReopen, Typed, Kind, VoucherOp
  <1>2. session'[s] = Idle /\ \A t \in Session \ {s} : session'[t] = session[t]
    BY DEF CommitReopen, Typed
  <1>3. /\ is_closed' = [is_closed EXCEPT ![p] = FALSE]
        /\ UNCHANGED <<closings, latest, year, voucher, active>>
    BY DEF CommitReopen, ledger, yearly
  <1>4. /\ ~is_closed'[p]
        /\ \A q \in Period \ {p} : is_closed'[q] = is_closed[q]
        /\ is_closed' \in [Period -> BOOLEAN]
    BY <1>1, <1>3 DEF Typed
  <1>5. Typed'
    <2>1. session' = [t \in Session |-> session'[t]]
      BY DEF CommitReopen, Typed
    <2> QED
      BY <1>2, <1>3, <1>4, <2>1 DEF Typed, Idle, Kind, VoucherOp
  <1>6. ClockInv'
    BY <1>2, <1>3, <1>4 DEF ClockInv, RowsOfTheirTime, PostingsOfTheirTime, Typed, Idle
  <1>7. ReviewInv'
    <2>1. MayCommit(s) /\ requests' = requests \ session[s].review
            /\ session' = [session EXCEPT ![s] = Idle]
      BY DEF CommitReopen
    <2>2. is_closed' = [is_closed EXCEPT ![p] = (session[s].op = "close")]
      BY <1>1, <1>3
    <2> QED
      BY <1>1, <2>1, <2>2, DecideKeeps
  <1>8. OneYearClosing'
    BY <1>3 DEF OneYearClosing
  <1> QED
    BY <1>5, <1>6, <1>7, <1>8

\* A rejected review leaves its period as it was.
LEMMA RejectReviewKeeps ==
    ASSUME PeriodInv, NEW r \in requests, RejectReview(r)
    PROVE  PeriodInv'
  <1> USE DEF PeriodInv, RejectReview, calendar, ledger, yearly
  <1>1. Typed' /\ ClockInv' /\ OneYearClosing'
    BY DEF Typed, ClockInv, RowsOfTheirTime, PostingsOfTheirTime, OneYearClosing
  <1>2. HoldersAgree'
    BY DEF ReviewInv, HoldersAgree
  <1>3. RequestsAgree'
    BY DEF ReviewInv, RequestsAgree
  <1> QED
    BY <1>1, <1>2, <1>3 DEF ReviewInv

-----------------------------------------------------------------------------
(* The fiscal year                                                         *)

\* Loading a fiscal year for an edit keeps the invariant.
LEMMA StartYearEditKeeps ==
    ASSUME PeriodInv, NEW s \in Session, NEW closed \in BOOLEAN, StartYearEdit(s, closed)
    PROVE  PeriodInv'
  <1> USE DEF PeriodInv, StartYearEdit, calendar, ledger, yearly
  <1>1. /\ session'[s] = [op |-> "year", closed |-> closed]
        /\ \A t \in Session \ {s} : session'[t] = session[t]
    BY DEF Typed
  <1>2. Typed'
    BY <1>1 DEF Typed, Kind, VoucherOp
  <1>3. ClockInv'
    BY <1>1 DEF ClockInv, RowsOfTheirTime, PostingsOfTheirTime
  <1>4. ReviewInv'
    BY <1>1 DEF ReviewInv, HoldersAgree, RequestsAgree, Kind
  <1>5. OneYearClosing'
    BY DEF OneYearClosing
  <1> QED
    BY <1>2, <1>3, <1>4, <1>5

\* Storing the edited fiscal year keeps the invariant.
LEMMA CommitYearEditKeeps ==
    ASSUME PeriodInv, NEW s \in Session, CommitYearEdit(s)
    PROVE  PeriodInv'
  <1> USE DEF PeriodInv, CommitYearEdit, calendar, ledger
  <1>1. session'[s] = Idle /\ \A t \in Session \ {s} : session'[t] = session[t]
    BY DEF Typed
  <1>2. /\ year'.financial_closed = year.financial_closed
        /\ year'.closing_voucher = year.closing_voucher
        /\ year' \in [is_closed : BOOLEAN, financial_closed : BOOLEAN,
                      closing_voucher : Voucher \cup {NoVoucher}]
    BY DEF Typed
  <1>3. Typed'
    BY <1>1, <1>2 DEF Typed, Idle, Kind, VoucherOp
  <1>4. ClockInv'
    BY <1>1 DEF ClockInv, RowsOfTheirTime, PostingsOfTheirTime, Idle
  <1>5. ReviewInv'
    BY <1>1 DEF ReviewInv, HoldersAgree, RequestsAgree, Idle, Kind
  <1>6. OneYearClosing'
    BY <1>2 DEF OneYearClosing
  <1> QED
    BY <1>3, <1>4, <1>5, <1>6

\* A closing draft is not what the year refers to, and has no rows.
LEMMA DraftYearClosingKeeps ==
    ASSUME PeriodInv, NEW v \in Voucher, DraftYearClosing(v)
    PROVE  PeriodInv'
  <1> USE DEF PeriodInv, DraftYearClosing
  <1>1. UNCHANGED <<calendar, ledger, requests, year, active, session>>
    OBVIOUS
  <1>2. /\ voucher' \in [Voucher -> VoucherStatus] /\ voucher'[v] = "draft"
        /\ \A w \in Voucher \ {v} : voucher'[w] = voucher[w]
    BY DEF Typed, VoucherStatus
  <1>3. Typed'
    BY <1>1, <1>2 DEF Typed, calendar, ledger
  <1>4. ClockInv' /\ ReviewInv'
    BY <1>1 DEF ClockInv, RowsOfTheirTime, PostingsOfTheirTime, ReviewInv, HoldersAgree,
                RequestsAgree, calendar, ledger
  <1>5. OneYearClosing'
    BY <1>1, <1>2 DEF OneYearClosing
  <1> QED
    BY <1>3, <1>4, <1>5

\* A closing voucher that is loaded is of the time of its transaction.
LEMMA LoadVoucherKeeps ==
    ASSUME PeriodInv, NEW s \in Session, NEW op \in VoucherOp, NEW v \in Voucher,
           LoadVoucher(s, op, v)
    PROVE  PeriodInv'
  <1> USE DEF PeriodInv, LoadVoucher, calendar, ledger, yearly
  <1>1. /\ session'[s] = [op |-> op, voucher |-> v, created |-> closings[LastPeriod]]
        /\ \A t \in Session \ {s} : session'[t] = session[t]
    BY DEF Typed
  <1>2. closings[LastPeriod] \in Nat
    BY LastPeriodAssumption DEF Period, Typed
  <1>3. op \notin {"post", "year"} \cup Kind
    BY DEF VoucherOp, Kind
  <1>4. Typed'
    BY <1>1, <1>2, <1>3 DEF Typed
  <1>5. ClockInv'
    BY <1>1, <1>3 DEF ClockInv, RowsOfTheirTime, PostingsOfTheirTime
  <1>6. ReviewInv'
    BY <1>1, <1>3 DEF ReviewInv, HoldersAgree, RequestsAgree
  <1>7. OneYearClosing'
    BY DEF OneYearClosing
  <1> QED
    BY <1>4, <1>5, <1>6, <1>7

\* What the end of a request at a closing voucher leaves alone: it writes a
\* closing row at most, and the rest is between the year and its vouchers.
LEMMA VoucherStep ==
    ASSUME PeriodInv, NEW s \in Session, session[s].op \in VoucherOp,
           session' = [session EXCEPT ![s] = Idle],
           UNCHANGED latest \/ YearRow(s),
           UNCHANGED <<calendar, entries, requests>>,
           voucher' \in [Voucher -> VoucherStatus], active' \in SUBSET Voucher,
           year' \in [is_closed : BOOLEAN, financial_closed : BOOLEAN,
                      closing_voucher : Voucher \cup {NoVoucher}],
           OneYearClosing'
    PROVE  PeriodInv'
  <1> USE DEF PeriodInv
  <1>1. session'[s] = Idle /\ \A t \in Session \ {s} : session'[t] = session[t]
    BY DEF Typed
  <1>2. RowsOfTheirTime' /\ latest' \in [Period -> [Origin -> Nat]]
    <2>1. CASE UNCHANGED latest
      BY <2>1 DEF Typed, ClockInv, RowsOfTheirTime, calendar
    <2>2. CASE YearRow(s)
      <3>1. /\ LastPeriod \in Period /\ session[s].created \in Nat
            /\ latest[LastPeriod]["closing"] \in Nat
        BY LastPeriodAssumption DEF Period, Origin, Typed
      <3>2. PICK created \in Nat :
              created = Later(latest[LastPeriod]["closing"], session[s].created)
        BY <3>1 DEF Later
      <3>3. latest' = [latest EXCEPT ![LastPeriod]["closing"] = created]
        BY <2>2, <3>2 DEF YearRow
      <3> QED
        BY <3>1, <3>3, ClosingRowKeeps
    <2> QED
      BY <2>1, <2>2
  <1>3. Typed'
    <2>1. session' = [t \in Session |-> session'[t]]
      BY DEF Typed
    <2> QED
      BY <1>1, <1>2, <2>1 DEF Typed, Idle, Kind, VoucherOp, calendar
  <1>4. ClockInv'
    BY <1>1, <1>2 DEF ClockInv, PostingsOfTheirTime, Idle, calendar
  <1>5. ReviewInv'
    BY <1>1 DEF ReviewInv, HoldersAgree, RequestsAgree, Idle, Kind, calendar
  <1> QED
    BY <1>3, <1>4, <1>5

\* A closing voucher is posted while no other is in force, under the row lock of
\* the year, and has no rows yet, whatever its status has become.
LEMMA SubmitYearClosingKeeps ==
    ASSUME PeriodInv, NEW s \in Session, SubmitYearClosing(s)
    PROVE  PeriodInv'
  <1> USE DEF PeriodInv
  <1>1. PICK v \in Voucher : v = session[s].voucher
    BY DEF SubmitYearClosing, Typed, VoucherOp
  <1>2. /\ AcceptsClosing(v) /\ v \notin active
        /\ active' = active \cup {v}
        /\ voucher' = [voucher EXCEPT ![v] = "submitted"]
        /\ year' = [year EXCEPT !.financial_closed = TRUE, !.closing_voucher = v]
        /\ YearRow(s) /\ session' = [session EXCEPT ![s] = Idle]
        /\ UNCHANGED <<calendar, entries, requests>>
        /\ session[s].op \in VoucherOp
    BY <1>1 DEF SubmitYearClosing, VoucherOp
  <1>3. /\ voucher' \in [Voucher -> VoucherStatus] /\ voucher'[v] = "submitted"
        /\ \A w \in Voucher \ {v} : voucher'[w] = voucher[w]
    BY <1>2 DEF Typed, VoucherStatus
  <1>4. /\ year' \in [is_closed : BOOLEAN, financial_closed : BOOLEAN,
                      closing_voucher : Voucher \cup {NoVoucher}]
        /\ year'.financial_closed = TRUE /\ year'.closing_voucher = v
    BY <1>2 DEF Typed
  <1>5. year.closing_voucher = NoVoucher /\ \A w \in Voucher : w \notin active
    <2>1. year.closing_voucher # v
      BY <1>2 DEF OneYearClosing
    <2>2. year.closing_voucher = NoVoucher
      BY <1>2, <2>1 DEF AcceptsClosing, OneYearClosing, Typed
    <2> QED
      BY <2>2, NoVoucherAssumption DEF OneYearClosing
  <1>6. OneYearClosing'
    BY <1>2, <1>3, <1>4, <1>5, NoVoucherAssumption DEF OneYearClosing
  <1>7. active' \in SUBSET Voucher
    BY <1>2 DEF Typed
  <1> QED
    BY <1>2, <1>3, <1>4, <1>6, <1>7, VoucherStep

\* A rejection writes the status alone.
LEMMA RejectYearClosingKeeps ==
    ASSUME PeriodInv, NEW s \in Session, RejectYearClosing(s)
    PROVE  PeriodInv'
  <1> USE DEF PeriodInv
  <1>1. PICK v \in Voucher : v = session[s].voucher
    BY DEF RejectYearClosing, Typed, VoucherOp
  <1>2. /\ voucher' = [voucher EXCEPT ![v] = "rejected"]
        /\ session' = [session EXCEPT ![s] = Idle]
        /\ UNCHANGED <<calendar, ledger, requests, year, active>>
        /\ session[s].op \in VoucherOp
    BY <1>1 DEF RejectYearClosing, VoucherOp
  <1>3. /\ voucher' \in [Voucher -> VoucherStatus] /\ voucher'[v] = "rejected"
        /\ \A w \in Voucher \ {v} : voucher'[w] = voucher[w]
    BY <1>2 DEF Typed, VoucherStatus
  <1>4. OneYearClosing'
    BY <1>2, <1>3 DEF OneYearClosing
  <1>5. /\ UNCHANGED latest /\ UNCHANGED <<calendar, entries, requests>>
        /\ active' \in SUBSET Voucher
        /\ year' \in [is_closed : BOOLEAN, financial_closed : BOOLEAN,
                      closing_voucher : Voucher \cup {NoVoucher}]
    BY <1>2 DEF ledger, Typed
  <1> QED
    BY <1>2, <1>3, <1>4, <1>5, VoucherStep

\* The voucher that is cancelled has rows in force, so it is the one the year
\* refers to.
LEMMA CancelYearClosingKeeps ==
    ASSUME PeriodInv, NEW s \in Session, CancelYearClosing(s)
    PROVE  PeriodInv'
  <1> USE DEF PeriodInv
  <1>1. PICK v \in Voucher : v = session[s].voucher
    BY DEF CancelYearClosing, Typed, VoucherOp
  <1>2. /\ v \in active /\ active' = active \ {v}
        /\ voucher' = [voucher EXCEPT ![v] = "cancelled"]
        /\ year' = [year EXCEPT !.financial_closed = FALSE, !.closing_voucher = NoVoucher]
        /\ YearRow(s) /\ session' = [session EXCEPT ![s] = Idle]
        /\ UNCHANGED <<calendar, entries, requests>>
        /\ session[s].op \in VoucherOp
    BY <1>1 DEF CancelYearClosing, VoucherOp
  <1>3. /\ voucher' \in [Voucher -> VoucherStatus] /\ voucher'[v] = "cancelled"
        /\ \A w \in Voucher \ {v} : voucher'[w] = voucher[w]
    BY <1>2 DEF Typed, VoucherStatus
  <1>4. /\ year' \in [is_closed : BOOLEAN, financial_closed : BOOLEAN,
                      closing_voucher : Voucher \cup {NoVoucher}]
        /\ year'.financial_closed = FALSE /\ year'.closing_voucher = NoVoucher
    BY <1>2 DEF Typed
  <1>5. \A w \in Voucher : w \in active <=> w = v
    BY <1>2 DEF OneYearClosing
  <1>6. OneYearClosing'
    BY <1>2, <1>3, <1>4, <1>5, NoVoucherAssumption DEF OneYearClosing
  <1>7. active' \in SUBSET Voucher
    BY <1>2 DEF Typed
  <1> QED
    BY <1>2, <1>3, <1>4, <1>6, <1>7, VoucherStep

\* Every step of a session keeps the invariant.
LEMMA WorkKeeps ==
    ASSUME PeriodInv, NEW s \in Session, Work(s)
    PROVE  PeriodInv'
  <1>1. CASE \E p \in Period : StartPost(s, p)
    BY <1>1, StartPostKeeps
  <1>2. CASE \E p \in Period, kind \in Kind : Start(s, kind, p)
    <2>1. PICK p \in Period, kind \in Kind : Start(s, kind, p)
      BY <1>2
    <2>2. PICK review : review = {}
      OBVIOUS
    <2>3. /\ Free(p) /\ May(kind, p)
          /\ session' = [session EXCEPT ![s] =
               [op |-> kind, period |-> p, entries |-> entries[p], review |-> review]]
          /\ UNCHANGED <<calendar, ledger, requests, yearly>>
      BY <2>1, <2>2 DEF Start
    <2>4. \A r \in review : r \in requests /\ r.kind = kind /\ r.period = p
      BY <2>2
    <2> QED
      BY <2>3, <2>4, TakeKeeps
  <1>3. CASE \E r \in requests : StartReviewed(s, r)
    <2>1. PICK r \in requests : StartReviewed(s, r)
      BY <1>3
    <2>2. PICK kind \in Kind, p \in Period : r.kind = kind /\ r.period = p
      BY DEF PeriodInv, ReviewInv, RequestsAgree
    <2>3. PICK review : review = {r}
      OBVIOUS
    <2>4. /\ Free(p) /\ May(kind, p)
          /\ session' = [session EXCEPT ![s] =
               [op |-> kind, period |-> p, entries |-> entries[p], review |-> review]]
          /\ UNCHANGED <<calendar, ledger, requests, yearly>>
      BY <2>1, <2>2, <2>3 DEF StartReviewed
    <2>5. \A q \in review : q \in requests /\ q.kind = kind /\ q.period = p
      BY <2>2, <2>3
    <2> QED
      BY <2>4, <2>5, TakeKeeps
  <1>4. CASE \E closed \in BOOLEAN : StartYearEdit(s, closed)
    BY <1>4, StartYearEditKeeps
  <1>5. CASE CommitPost(s)
    BY <1>5, CommitPostKeeps
  <1>6. CASE Propose(s)
    BY <1>6, ProposeKeeps
  <1>7. CASE CommitClose(s)
    BY <1>7, CommitCloseKeeps
  <1>8. CASE CommitReopen(s)
    BY <1>8, CommitReopenKeeps
  <1>9. CASE CommitYearEdit(s)
    BY <1>9, CommitYearEditKeeps
  <1>10. CASE \E op \in VoucherOp, v \in Voucher : LoadVoucher(s, op, v)
    BY <1>10, LoadVoucherKeeps
  <1>11. CASE SubmitYearClosing(s)
    BY <1>11, SubmitYearClosingKeeps
  <1>12. CASE RejectYearClosing(s)
    BY <1>12, RejectYearClosingKeeps
  <1>13. CASE CancelYearClosing(s)
    BY <1>13, CancelYearClosingKeeps
  <1>14. CASE Abandon(s)
    BY <1>14, SessionStep DEF Abandon
  <1> QED
    BY <1>1, <1>2, <1>3, <1>4, <1>5, <1>6, <1>7, <1>8, <1>9, <1>10, <1>11, <1>12, <1>13, <1>14
    DEF Work

-----------------------------------------------------------------------------

\* Every step keeps the invariant.
LEMMA NextPeriod == PeriodInv /\ [Next]_vars => PeriodInv'
  <1> SUFFICES ASSUME PeriodInv, [Next]_vars PROVE PeriodInv'
    OBVIOUS
  <1>1. CASE \E s \in Session : Work(s)
    BY <1>1, WorkKeeps
  <1>2. CASE \E p \in Period : Assistant(p)
    BY <1>2, AssistantKeeps
  <1>3. CASE \E p \in Period : PostClosing(p)
    BY <1>3, PostClosingKeeps
  <1>4. CASE \E r \in requests : RejectReview(r)
    BY <1>4, RejectReviewKeeps
  <1>5. CASE \E v \in Voucher : DraftYearClosing(v)
    BY <1>5, DraftYearClosingKeeps
  <1>6. CASE UNCHANGED vars
    BY <1>6 DEF vars, PeriodInv, Typed, ClockInv, RowsOfTheirTime, PostingsOfTheirTime,
                ReviewInv, HoldersAgree, RequestsAgree, OneYearClosing
  <1> QED
    BY <1>1, <1>2, <1>3, <1>4, <1>5, <1>6 DEF Next

\* The invariant holds in every reachable state of every instance.
THEOREM PeriodInvariant == Spec => []PeriodInv
  BY InitPeriod, NextPeriod, PTL DEF Spec

\* A posting that starts after its period was closed leaves no ordinary row in
\* it, whatever reopenings, reviews and edits come between: the check of
\* validate_accounting_period (document_identifiers.py) and the guards of
\* reopen_accounting_period (contabilidad/services.py) are enough together.
THEOREM NothingPostedAfterClose == Spec => []OnlyClosingsAfterClose
  <1>1. PeriodInv => OnlyClosingsAfterClose
    BY DEF PeriodInv, ClockInv, RowsOfTheirTime, OnlyClosingsAfterClose
  <1> QED
    BY <1>1, PeriodInvariant, PTL

\* A pending review of control_review_service.py speaks of the period as it is
\* and is the only one of its kind, for any number of users at work.
THEOREM ReviewsAlwaysStand == Spec => []ReviewsStand
  <1>1. PeriodInv => ReviewsStand
    BY DEF PeriodInv, ReviewInv, RequestsAgree, ReviewsStand, Pending
  <1> QED
    BY <1>1, PeriodInvariant, PTL

\* A fiscal year is financially closed exactly while one closing voucher is in
\* force, the one it refers to (journal_service.py), for any number of drafts.
THEOREM AlwaysOneYearClosing == Spec => []OneYearClosing
  <1>1. PeriodInv => OneYearClosing
    BY DEF PeriodInv
  <1> QED
    BY <1>1, PeriodInvariant, PTL

-----------------------------------------------------------------------------
(* The bounds of the counters                                              *)

\* What closes a period has found room for one more closing of it.
ClosersHaveRoom ==
    \A s \in Session : session[s].op = "close" => closings[session[s].period] < MaxClosings

\* The inductive invariant of the types: counts stay within their bounds.
BoundedInv == PeriodInv /\ TypeOK /\ ClosersHaveRoom

\* The count of one period is part of the total.
LEMMA CountWithinTotal ==
    ASSUME NEW f \in [Period -> Nat], NEW p \in Period
    PROVE  f[p] <= Total(f)
  <1>1. IsFiniteSet(Period) /\ Period \ {p} \subseteq Period
    BY LastPeriodAssumption, FS_Interval DEF Period
  <1>2. IsFiniteSet(Period \ {p})
    BY <1>1, FS_RemoveElement
  <1>3. SumFunctionOnSet(f, Period) = f[p] + SumFunctionOnSet(f, Period \ {p})
    BY <1>1, SumRemove
  <1>4. SumFunctionOnSet(f, Period \ {p}) \in Nat
    BY <1>2, SumNatural
  <1>5. Total(f) = SumFunctionOnSet(f, Period)
    BY DEF Total, SumFunction
  <1> QED
    BY <1>3, <1>4, <1>5

\* A total is a natural number.
LEMMA TotalType ==
    ASSUME NEW f \in [Period -> Nat]
    PROVE  Total(f) \in Nat
  <1>1. IsFiniteSet(Period)
    BY LastPeriodAssumption, FS_Interval DEF Period
  <1>2. SumFunctionOnSet(f, Period) \in Nat
    BY <1>1, SumNatural
  <1> QED
    BY <1>2 DEF Total, SumFunction

\* What a session works at keeps its type when the requests change.
LEMMA SessionsTyped ==
    ASSUME TypeOK, PeriodInv', NEW s \in Session, NEW x,
           session' = [session EXCEPT ![s] = x],
           x.op \in Kind => x \in [op : Kind, period : Period, entries : 0 .. MaxEntries,
                                   review : SUBSET requests'],
           x.op \notin Kind => x \in SessionState
    PROVE  session' \in [Session -> SessionState']
  <1>1. ASSUME NEW t \in Session PROVE session'[t] \in SessionState'
    <2>1. CASE t = s
      <3>1. session'[t] = x
        BY <2>1 DEF TypeOK
      <3> QED
        BY <3>1 DEF SessionState, Kind, VoucherOp
    <2>2. CASE t # s
      <3>1. session'[t] = session[t] /\ session[t] \in SessionState
        BY <2>2 DEF TypeOK
      <3>2. session[t].op \in Kind => \A r \in session[t].review : r \in requests'
        BY <3>1 DEF PeriodInv, ReviewInv, HoldersAgree
      <3> QED
        BY <3>1, <3>2 DEF SessionState, Kind, VoucherOp
    <2> QED
      BY <2>1, <2>2
  <1> QED
    BY <1>1 DEF TypeOK

\* The types of the parts.
LEMMA TypesFromParts ==
    ASSUME PeriodInv',
           run_status' \in [Period -> {"none", "open", "closed"}],
           passed' \in [Period -> SUBSET Step],
           closings' \in [Period -> 0 .. MaxClosings],
           entries' \in [Period -> 0 .. MaxEntries],
           latest' \in [Period -> [Origin -> 0 .. MaxClosings]],
           requests' \in SUBSET Request,
           session' \in [Session -> SessionState']
    PROVE  TypeOK'
  BY DEF PeriodInv, Typed, VoucherStatus, ReviewInv, HoldersAgree, Holds, TypeOK

\* All counts start at zero.
LEMMA InitBounded == Init => BoundedInv
  <1> SUFFICES ASSUME Init PROVE BoundedInv
    OBVIOUS
  <1>1. PeriodInv
    BY InitPeriod
  <1>2. TypeOK
    BY BoundsAssumption DEF Init, TypeOK, SessionState, Idle, Origin, Holds, Kind
  <1>3. ClosersHaveRoom
    BY DEF Init, ClosersHaveRoom, Idle
  <1> QED
    BY <1>1, <1>2, <1>3 DEF BoundedInv

\* A session gives up or ends, and the counters stay.
LEMMA SessionEnds ==
    ASSUME BoundedInv, PeriodInv', NEW s \in Session, session' = [session EXCEPT ![s] = Idle],
           UNCHANGED <<calendar, ledger>>, requests' \in SUBSET Request
    PROVE  BoundedInv'
  <1>1. Idle.op \notin Kind /\ Idle \in SessionState
    BY DEF Idle, Kind, SessionState
  <1>2. session' \in [Session -> SessionState']
    BY <1>1, SessionsTyped DEF BoundedInv
  <1>3. TypeOK'
    BY <1>2, TypesFromParts DEF BoundedInv, TypeOK, calendar, ledger
  <1>4. ClosersHaveRoom'
    BY DEF BoundedInv, ClosersHaveRoom, TypeOK, Idle, calendar
  <1> QED
    BY <1>3, <1>4 DEF BoundedInv

\* A session starts to work at something, and the counters stay.
LEMMA SessionStarts ==
    ASSUME BoundedInv, PeriodInv', NEW s \in Session, NEW x \in SessionState,
           session' = [session EXCEPT ![s] = x],
           UNCHANGED <<calendar, ledger, requests, yearly>>,
           x.op = "close" => closings[x.period] < MaxClosings
    PROVE  BoundedInv'
  <1>1. /\ x.op \in Kind => x \in [op : Kind, period : Period, entries : 0 .. MaxEntries,
                                   review : SUBSET requests']
    BY DEF SessionState, Kind, VoucherOp
  <1>2. session' \in [Session -> SessionState']
    BY <1>1, SessionsTyped DEF BoundedInv
  <1>3. TypeOK'
    BY <1>2, TypesFromParts DEF BoundedInv, TypeOK, calendar, ledger
  <1>4. ClosersHaveRoom'
    BY DEF BoundedInv, ClosersHaveRoom, TypeOK, calendar
  <1> QED
    BY <1>3, <1>4 DEF BoundedInv

\* A closing or a reopening starts from a state in which it is allowed.
LEMMA TakesBounded ==
    ASSUME BoundedInv, PeriodInv', NEW s \in Session, NEW kind \in Kind, NEW p \in Period,
           May(kind, p), NEW review \in SUBSET requests,
           session' = [session EXCEPT ![s] =
                         [op |-> kind, period |-> p, entries |-> entries[p], review |-> review]],
           UNCHANGED <<calendar, ledger, requests, yearly>>
    PROVE  BoundedInv'
  <1> DEFINE x == [op |-> kind, period |-> p, entries |-> entries[p], review |-> review]
  <1>1. x \in SessionState
    BY DEF SessionState, BoundedInv, TypeOK
  <1>2. kind = "close" => closings[p] < MaxClosings
    <2> SUFFICES ASSUME kind = "close" PROVE closings[p] < MaxClosings
      OBVIOUS
    <2>1. Total(closings) < MaxClosings
      BY DEF May, MayClose
    <2>2. closings \in [Period -> Nat] /\ closings[p] \in Nat
      BY BoundsAssumption DEF BoundedInv, TypeOK
    <2>3. Total(closings) \in Nat
      BY <2>2, TotalType
    <2>4. closings[p] <= Total(closings)
      BY <2>2, CountWithinTotal, Zenon
    <2> QED
      BY <2>1, <2>2, <2>3, <2>4, BoundsAssumption
  <1>3. x.op = "close" => closings[x.period] < MaxClosings
    BY <1>2
  <1> HIDE DEF x
  <1>4. session' = [session EXCEPT ![s] = x]
    BY DEF x
  <1> QED
    BY <1>1, <1>3, <1>4, SessionStarts

\* A journal is posted where there is room for it.
LEMMA EntryBounded ==
    ASSUME TypeOK, NEW p \in Period, Room, entries' = [entries EXCEPT ![p] = @ + 1]
    PROVE  entries' \in [Period -> 0 .. MaxEntries]
  <1>1. entries \in [Period -> Nat] /\ entries[p] \in Nat
    BY BoundsAssumption DEF TypeOK
  <1>2. Total(entries) \in Nat
    BY <1>1, TotalType
  <1>3. entries[p] <= Total(entries)
    BY <1>1, CountWithinTotal, Zenon
  <1>4. Total(entries) < MaxEntries
    BY DEF Room
  <1>5. entries[p] + 1 \in 0 .. MaxEntries
    BY <1>1, <1>2, <1>3, <1>4, BoundsAssumption
  <1> QED
    BY <1>5 DEF TypeOK

\* A posting is committed only while the ledger has room.
LEMMA CommitPostBounded ==
    ASSUME BoundedInv, PeriodInv', NEW s \in Session, CommitPost(s)
    PROVE  BoundedInv'
  <1> DEFINE p == session[s].period
             now == Later(latest[p]["ordinary"], session[s].created)
  <1>1. /\ p \in Period /\ session[s].created \in 0 .. MaxClosings /\ "ordinary" \in Origin
        /\ Room /\ UNCHANGED <<calendar, requests, yearly>>
        /\ session' = [session EXCEPT ![s] = Idle]
        /\ entries' = [entries EXCEPT ![p] = @ + 1]
        /\ latest' = [latest EXCEPT ![p]["ordinary"] = now]
    BY DEF CommitPost, BoundedInv, TypeOK, SessionState, Kind, VoucherOp, Origin
  <1>2. now \in 0 .. MaxClosings
    BY <1>1 DEF Later, BoundedInv, TypeOK
  <1>3. latest' \in [Period -> [Origin -> 0 .. MaxClosings]]
    BY <1>1, <1>2 DEF BoundedInv, TypeOK
  <1>4. entries' \in [Period -> 0 .. MaxEntries]
    BY <1>1, EntryBounded DEF BoundedInv
  <1>5. Idle.op \notin Kind /\ Idle \in SessionState
    BY DEF Idle, Kind, SessionState
  <1>6. session' \in [Session -> SessionState']
    BY <1>1, <1>5, SessionsTyped DEF BoundedInv
  <1>7. TypeOK'
    BY <1>1, <1>3, <1>4, <1>6, TypesFromParts DEF BoundedInv, TypeOK, calendar
  <1>8. ClosersHaveRoom'
    BY <1>1 DEF BoundedInv, ClosersHaveRoom, TypeOK, Idle, calendar
  <1> QED
    BY <1>7, <1>8 DEF BoundedInv

\* The steps of no session leave what the sessions work at.
LEMMA NoSession ==
    ASSUME BoundedInv, PeriodInv', UNCHANGED <<closings, session>>,
           run_status' \in [Period -> {"none", "open", "closed"}],
           passed' \in [Period -> SUBSET Step],
           entries' \in [Period -> 0 .. MaxEntries],
           latest' \in [Period -> [Origin -> 0 .. MaxClosings]],
           requests' \in SUBSET Request
    PROVE  BoundedInv'
  <1>1. session' \in [Session -> SessionState']
    <2>1. ASSUME NEW t \in Session PROVE session[t] \in SessionState'
      <3>1. session[t] \in SessionState
        BY DEF BoundedInv, TypeOK
      <3>2. session[t].op \in Kind => \A r \in session[t].review : r \in requests'
        BY DEF PeriodInv, ReviewInv, HoldersAgree
      <3> QED
        BY <3>1, <3>2 DEF SessionState, Kind, VoucherOp
    <2> QED
      BY <2>1 DEF BoundedInv, TypeOK
  <1>2. TypeOK'
    BY <1>1, TypesFromParts DEF BoundedInv, TypeOK
  <1>3. ClosersHaveRoom'
    BY DEF BoundedInv, ClosersHaveRoom
  <1> QED
    BY <1>2, <1>3 DEF BoundedInv

\* A closing entry is posted only while the ledger has room.
LEMMA PostClosingBounded ==
    ASSUME BoundedInv, PeriodInv', NEW p \in Period, PostClosing(p)
    PROVE  BoundedInv'
  <1>1. entries' \in [Period -> 0 .. MaxEntries]
    BY EntryBounded DEF PostClosing, BoundedInv
  <1>2. latest' \in [Period -> [Origin -> 0 .. MaxClosings]]
    BY DEF PostClosing, BoundedInv, TypeOK, Origin
  <1> QED
    BY <1>1, <1>2, NoSession DEF PostClosing, BoundedInv, TypeOK, calendar

\* The closing assistant raises no count.
LEMMA AssistantBounded ==
    ASSUME BoundedInv, PeriodInv', NEW p \in Period, Assistant(p)
    PROVE  BoundedInv'
  <1>1. UNCHANGED <<is_closed, closings, ledger, requests, yearly, session>>
    BY DEF Assistant, NewRun, RunStep
  <1>2. run_status' \in [Period -> {"none", "open", "closed"}]
    BY DEF Assistant, NewRun, RunStep, BoundedInv, TypeOK
  <1>3. passed' \in [Period -> SUBSET Step]
    <2>1. ASSUME NEW step \in Step, NEW ok \in BOOLEAN, Record(p, step, ok)
          PROVE passed' \in [Period -> SUBSET Step]
      BY <2>1 DEF Record, BoundedInv, TypeOK
    <2> QED
      BY <2>1 DEF Assistant, NewRun, RunStep, BoundedInv, TypeOK
  <1> QED
    BY <1>1, <1>2, <1>3, NoSession DEF BoundedInv, TypeOK, ledger

\* A proposal raises no count.
LEMMA ProposeBounded ==
    ASSUME BoundedInv, PeriodInv', NEW s \in Session, Propose(s)
    PROVE  BoundedInv'
  <1> DEFINE pending == Pending(session[s].op, session[s].period)
             proposal == [kind |-> session[s].op, period |-> session[s].period,
                          requested_by |-> s, entries |-> session[s].entries]
  <1>1. proposal \in Request
    BY DEF Propose, Request, BoundedInv, TypeOK, SessionState, Kind, VoucherOp
  <1>2. requests' = requests \/ requests' = (requests \ pending) \cup {proposal}
    BY DEF Propose
  <1>3. requests' \in SUBSET Request
    BY <1>1, <1>2 DEF BoundedInv, TypeOK
  <1> QED
    BY <1>3, SessionEnds DEF Propose

\* A close has the room it found, as it holds the period alone.
LEMMA CommitCloseBounded ==
    ASSUME BoundedInv, PeriodInv', NEW s \in Session, CommitClose(s)
    PROVE  BoundedInv'
  <1> DEFINE p == session[s].period
  <1>1. /\ session[s].op = "close" /\ session[s].op \in Kind /\ p \in Period
        /\ session' = [session EXCEPT ![s] = Idle]
        /\ closings' = [closings EXCEPT ![p] = closings[p] + 1]
        /\ run_status' = [run_status EXCEPT ![p] = "closed"]
        /\ UNCHANGED <<passed, ledger, yearly>> /\ requests' \subseteq requests
    BY DEF CommitClose, BoundedInv, PeriodInv, Typed, Kind, VoucherOp
  <1>2. closings[p] + 1 \in 0 .. MaxClosings
    BY <1>1, BoundsAssumption DEF BoundedInv, ClosersHaveRoom, TypeOK
  <1>3. closings' \in [Period -> 0 .. MaxClosings]
    BY <1>1, <1>2 DEF BoundedInv, TypeOK
  <1>4. run_status' \in [Period -> {"none", "open", "closed"}]
    BY <1>1 DEF BoundedInv, TypeOK
  <1>5. Idle.op \notin Kind /\ Idle \in SessionState
    BY DEF Idle, Kind, SessionState
  <1>6. session' \in [Session -> SessionState']
    BY <1>1, <1>5, SessionsTyped DEF BoundedInv
  <1>7. TypeOK'
    BY <1>1, <1>3, <1>4, <1>6, TypesFromParts DEF BoundedInv, TypeOK, ledger
  <1>8. ClosersHaveRoom'
    <2> SUFFICES ASSUME NEW t \in Session, session'[t].op = "close"
                 PROVE closings'[session'[t].period] < MaxClosings
      BY DEF ClosersHaveRoom
    <2>1. t # s /\ session'[t] = session[t] /\ session[t].op \in Kind
      BY <1>1 DEF BoundedInv, TypeOK, Idle, Kind
    <2>2. session[t].period # p /\ session[t].period \in Period
      BY <1>1, <2>1 DEF BoundedInv, PeriodInv, Typed, ReviewInv, HoldersAgree
    <2> QED
      BY <1>1, <2>1, <2>2 DEF BoundedInv, ClosersHaveRoom, TypeOK
  <1> QED
    BY <1>7, <1>8 DEF BoundedInv

\* A reopening raises no count.
LEMMA CommitReopenBounded ==
    ASSUME BoundedInv, PeriodInv', NEW s \in Session, CommitReopen(s)
    PROVE  BoundedInv'
  <1> DEFINE p == session[s].period
  <1>1. /\ session' = [session EXCEPT ![s] = Idle]
        /\ run_status' = [run_status EXCEPT ![p] = "open"]
        /\ UNCHANGED <<passed, closings, ledger, yearly>> /\ requests' \subseteq requests
    BY DEF CommitReopen
  <1>2. run_status' \in [Period -> {"none", "open", "closed"}]
    BY <1>1 DEF BoundedInv, TypeOK
  <1>3. Idle.op \notin Kind /\ Idle \in SessionState
    BY DEF Idle, Kind, SessionState
  <1>4. session' \in [Session -> SessionState']
    BY <1>1, <1>3, SessionsTyped DEF BoundedInv
  <1>5. TypeOK'
    BY <1>1, <1>2, <1>4, TypesFromParts DEF BoundedInv, TypeOK, ledger
  <1>6. ClosersHaveRoom'
    BY <1>1 DEF BoundedInv, ClosersHaveRoom, TypeOK, Idle
  <1> QED
    BY <1>5, <1>6 DEF BoundedInv

\* The end of a request at a closing voucher writes one counter of the last
\* period at most, with a time it read there.
LEMMA VoucherStepBounded ==
    ASSUME BoundedInv, PeriodInv', NEW s \in Session,
           SubmitYearClosing(s) \/ RejectYearClosing(s) \/ CancelYearClosing(s)
    PROVE  BoundedInv'
  <1>1. /\ session' = [session EXCEPT ![s] = Idle]
        /\ UNCHANGED <<calendar, entries, requests>>
        /\ UNCHANGED latest \/ YearRow(s)
        /\ session[s].op \in VoucherOp
    BY DEF SubmitYearClosing, RejectYearClosing, CancelYearClosing, VoucherOp, ledger
  <1>2. LastPeriod \in Period /\ "closing" \in Origin
    BY LastPeriodAssumption DEF Period, Origin
  <1>3. session[s].created \in 0 .. MaxClosings
    BY <1>1 DEF BoundedInv, TypeOK, SessionState, VoucherOp, Kind
  <1>4. latest' \in [Period -> [Origin -> 0 .. MaxClosings]]
    <2>1. PICK created \in 0 .. MaxClosings :
            created = Later(latest[LastPeriod]["closing"], session[s].created)
      BY <1>2, <1>3 DEF Later, BoundedInv, TypeOK
    <2>2. latest' = latest \/ latest' = [latest EXCEPT ![LastPeriod]["closing"] = created]
      BY <1>1, <2>1 DEF YearRow
    <2>3. latest \in [Period -> [Origin -> 0 .. MaxClosings]]
      BY DEF BoundedInv, TypeOK
    <2> QED
      BY <1>2, <2>2, <2>3
  <1>5. Idle.op \notin Kind /\ Idle \in SessionState
    BY DEF Idle, Kind, SessionState
  <1>6. session' \in [Session -> SessionState']
    BY <1>1, <1>5, SessionsTyped DEF BoundedInv
  <1>7. TypeOK'
    BY <1>1, <1>4, <1>6, TypesFromParts DEF BoundedInv, TypeOK, calendar
  <1>8. ClosersHaveRoom'
    BY <1>1 DEF BoundedInv, ClosersHaveRoom, TypeOK, Idle, calendar
  <1> QED
    BY <1>7, <1>8 DEF BoundedInv

\* Every step of a session keeps the counts within their bounds.
LEMMA WorkBounded ==
    ASSUME BoundedInv, PeriodInv', NEW s \in Session, Work(s)
    PROVE  BoundedInv'
  <1>1. CASE \E p \in Period : StartPost(s, p)
    <2>1. PICK p \in Period : StartPost(s, p)
      BY <1>1
    <2> DEFINE x == [op |-> "post", period |-> p, created |-> closings[p]]
    <2>2. x \in SessionState /\ x.op # "close"
      BY DEF SessionState, BoundedInv, TypeOK
    <2>3. session' = [session EXCEPT ![s] = x] /\ UNCHANGED <<calendar, ledger, requests, yearly>>
      BY <2>1 DEF StartPost
    <2> HIDE DEF x
    <2> QED
      BY <2>2, <2>3, SessionStarts
  <1>2. CASE \E p \in Period, kind \in Kind : Start(s, kind, p)
    <2>1. PICK p \in Period, kind \in Kind : Start(s, kind, p)
      BY <1>2
    <2>2. PICK review \in SUBSET requests : review = {}
      OBVIOUS
    <2>3. /\ May(kind, p)
          /\ session' = [session EXCEPT ![s] =
               [op |-> kind, period |-> p, entries |-> entries[p], review |-> review]]
          /\ UNCHANGED <<calendar, ledger, requests, yearly>>
      BY <2>1, <2>2 DEF Start
    <2> QED
      BY <2>3, TakesBounded
  <1>3. CASE \E r \in requests : StartReviewed(s, r)
    <2>1. PICK r \in requests : StartReviewed(s, r)
      BY <1>3
    <2>2. PICK kind \in Kind, p \in Period : r.kind = kind /\ r.period = p
      BY DEF BoundedInv, PeriodInv, ReviewInv, RequestsAgree
    <2>3. PICK review \in SUBSET requests : review = {r}
      OBVIOUS
    <2>4. /\ May(kind, p)
          /\ session' = [session EXCEPT ![s] =
               [op |-> kind, period |-> p, entries |-> entries[p], review |-> review]]
          /\ UNCHANGED <<calendar, ledger, requests, yearly>>
      BY <2>1, <2>2, <2>3 DEF StartReviewed
    <2> QED
      BY <2>4, TakesBounded
  <1>4. CASE \E closed \in BOOLEAN : StartYearEdit(s, closed)
    <2>1. PICK closed \in BOOLEAN : StartYearEdit(s, closed)
      BY <1>4
    <2> DEFINE x == [op |-> "year", closed |-> closed]
    <2>2. x \in SessionState /\ x.op # "close"
      BY DEF SessionState
    <2>3. session' = [session EXCEPT ![s] = x] /\ UNCHANGED <<calendar, ledger, requests, yearly>>
      BY <2>1 DEF StartYearEdit
    <2> HIDE DEF x
    <2> QED
      BY <2>2, <2>3, SessionStarts
  <1>5. CASE CommitPost(s)
    BY <1>5, CommitPostBounded
  <1>6. CASE Propose(s)
    BY <1>6, ProposeBounded
  <1>7. CASE CommitClose(s)
    BY <1>7, CommitCloseBounded
  <1>8. CASE CommitReopen(s)
    BY <1>8, CommitReopenBounded
  <1>9. CASE \E op \in VoucherOp, v \in Voucher : LoadVoucher(s, op, v)
    <2>1. PICK op \in VoucherOp, v \in Voucher : LoadVoucher(s, op, v)
      BY <1>9
    <2> DEFINE x == [op |-> op, voucher |-> v, created |-> closings[LastPeriod]]
    <2>2. x \in SessionState /\ x.op # "close"
      BY LastPeriodAssumption DEF Period, SessionState, VoucherOp, BoundedInv, TypeOK
    <2>3. session' = [session EXCEPT ![s] = x] /\ UNCHANGED <<calendar, ledger, requests, yearly>>
      BY <2>1 DEF LoadVoucher
    <2> HIDE DEF x
    <2> QED
      BY <2>2, <2>3, SessionStarts
  <1>10. CASE SubmitYearClosing(s) \/ RejectYearClosing(s) \/ CancelYearClosing(s)
    BY <1>10, VoucherStepBounded
  <1>11. CASE CommitYearEdit(s) \/ Abandon(s)
    <2>1. /\ session' = [session EXCEPT ![s] = Idle]
          /\ UNCHANGED <<calendar, ledger>> /\ requests' \in SUBSET Request
      BY <1>11 DEF CommitYearEdit, Abandon, BoundedInv, TypeOK
    <2> QED
      BY <2>1, SessionEnds
  <1> QED
    BY <1>1, <1>2, <1>3, <1>4, <1>5, <1>6, <1>7, <1>8, <1>9, <1>10, <1>11
    DEF Work

\* Every step keeps the counts within their bounds.
LEMMA NextBounded == BoundedInv /\ [Next]_vars => BoundedInv'
  <1> SUFFICES ASSUME BoundedInv, [Next]_vars PROVE BoundedInv'
    OBVIOUS
  <1> PeriodInv'
    BY NextPeriod DEF BoundedInv
  <1>1. CASE \E s \in Session : Work(s)
    BY <1>1, WorkBounded
  <1>2. CASE \E p \in Period : Assistant(p)
    BY <1>2, AssistantBounded
  <1>3. CASE \E p \in Period : PostClosing(p)
    BY <1>3, PostClosingBounded
  <1>4. CASE \E r \in requests : RejectReview(r)
    <2>1. UNCHANGED <<calendar, ledger, session>> /\ requests' \subseteq requests
      BY <1>4 DEF RejectReview
    <2> QED
      BY <2>1, NoSession DEF BoundedInv, TypeOK, calendar, ledger
  <1>5. CASE \E v \in Voucher : DraftYearClosing(v)
    <2>1. UNCHANGED <<calendar, ledger, requests, session>>
      BY <1>5 DEF DraftYearClosing
    <2> QED
      BY <2>1, NoSession DEF BoundedInv, TypeOK, calendar, ledger
  <1>6. CASE UNCHANGED vars
    BY <1>6, NoSession DEF vars, BoundedInv, TypeOK
  <1> QED
    BY <1>1, <1>2, <1>3, <1>4, <1>5, <1>6 DEF Next

\* Every variable has its type: the counters stay within their bounds although
\* a closing tests its bound when it starts and others may commit before it, a
\* review at work is of a pending request, and one session at most holds the
\* row of a period.
THEOREM PeriodTypeCorrect == Spec => []TypeOK
  <1>1. BoundedInv => TypeOK
    BY DEF BoundedInv
  <1> QED
    BY <1>1, InitBounded, NextBounded, PTL DEF Spec
=============================================================================
