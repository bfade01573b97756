---------------------------- MODULE PeriodClose ----------------------------
(***************************************************************************)
(* Accounting periods and their fiscal year: the monthly close assistant   *)
(* (contabilidad/services.py, contabilidad/routes.py), the reviews it may   *)
(* need (control_review_service.py), the yearly closing voucher            *)
(* (contabilidad/fiscal_year_closing.py, contabilidad/journal_service.py)   *)
(* and the check every posting makes (document_identifiers.py).            *)
(*                                                                         *)
(* Closing and reopening lock the row of the period; a posting reads it    *)
(* without a lock and commits later.  Database: PostgreSQL, where the      *)
(* column "created" of a ledger row is the start of its transaction.       *)
(* Time is counted in closings of the period: a row created after the k-th *)
(* closing of its period, and before the next, has creation time k.        *)
(* The approval engine is taken to be switched off (module ApprovalFlow).   *)
(***************************************************************************)
EXTENDS Integers, FiniteSets, Functions

CONSTANTS
    Session,      \* transactions at work, each on behalf of a user of its own
    LastPeriod,   \* the periods of the fiscal year are 1 .. LastPeriod
    Voucher,      \* yearly closing vouchers
    NoVoucher,
    Step,         \* assistant steps whose latest result must be passed or skipped
    MaxEntries,   \* bound: journals posted into the year
    MaxClosings   \* bound: closings of all periods together

ASSUME LastPeriodAssumption == LastPeriod \in Nat \ {0}
ASSUME NoVoucherAssumption == NoVoucher \notin Voucher
ASSUME BoundsAssumption == MaxEntries \in Nat /\ MaxClosings \in Nat

\* The two integrity checks are no steps: every closing evaluates them again.
ASSUME StepAssumption ==
    Step \subseteq {"apply_recurring_journals", "exchange_revaluation", "project_capitalization"}

Period == 1 .. LastPeriod

Total(count) == SumFunction(count)

VARIABLES
    is_closed,   \* flag of an accounting_period
    run_status,  \* of its period_close_run; "in_progress" counts as "open"
    passed,      \* steps whose latest period_close_check lets it close
    closings,    \* times closed: the clock of the period
    entries,     \* number of journals in the ledger of the period
    latest,      \* creation time of its newest rows, ordinary and closing ones
    requests,    \* pending approval_request rows for a close or a reopening
    year,        \* fiscal_year: is_closed, financial_closed, closing_voucher_id
    voucher,     \* status of a closing voucher
    active,      \* closing vouchers with ledger rows in force
    session      \* what an open transaction is about to commit

vars == <<is_closed, run_status, passed, closings, entries, latest, requests,
          year, voucher, active, session>>
calendar == <<is_closed, run_status, passed, closings>>
ledger == <<entries, latest>>
yearly == <<year, voucher, active>>

Kind == {"close", "reopen"}

\* A journal is ordinary or marked as a closing one, which only an
\* administrator or the yearly closing can write (journal_service.py:132).
Origin == {"ordinary", "closing"}

\* period_review_payload: the flag of the period and a hash of its rows.
Request == [kind : Kind, period : Period, requested_by : Session, entries : 0 .. MaxEntries]

Idle == [op |-> "idle"]

\* What a request may do to a closing voucher.
VoucherOp == {"submit", "reject", "cancel"}

Holds(s, p) == session[s].op \in Kind /\ session[s].period = p

\* The row lock of the period, taken by the closing and by the reopening.
Free(p) == \A s \in Session : ~Holds(s, p)

Pending(kind, p) == {r \in requests : r.kind = kind /\ r.period = p}

-----------------------------------------------------------------------------
Init ==
    /\ is_closed = [p \in Period |-> FALSE]
    /\ run_status = [p \in Period |-> "none"]
    /\ passed = [p \in Period |-> {}]
    /\ closings = [p \in Period |-> 0]
    /\ entries = [p \in Period |-> 0]
    /\ latest = [p \in Period |-> [o \in Origin |-> 0]]
    /\ requests = {}
    /\ year = [is_closed |-> FALSE, financial_closed |-> FALSE, closing_voucher |-> NoVoucher]
    /\ voucher = [v \in Voucher |-> "none"]
    /\ active = {}
    /\ session = [s \in Session |-> Idle]

-----------------------------------------------------------------------------
(* Postings                                                                *)

\* Mutant: the flag of the period is not looked at.
MayPostIntoYear(p) == ~year.is_closed

\* validate_accounting_period, without allow_closing.  "enabled", which refuses
\* more postings and no other operation reads, is left out.
MayPost(p) == ~is_closed[p] /\ ~year.is_closed

StartPost(s, p) ==
    /\ session[s].op = "idle"
    /\ MayPost(p)
    /\ session' = [session EXCEPT ![s] = [op |-> "post", period |-> p, created |-> closings[p]]]
    /\ UNCHANGED <<calendar, ledger, requests, yearly>>

Later(a, b) == IF a < b THEN b ELSE a

Room == Total(entries) < MaxEntries

CommitPost(s) ==
    /\ session[s].op = "post"
    /\ LET p == session[s].period IN
         /\ Room
         /\ entries' = [entries EXCEPT ![p] = @ + 1]
         /\ latest' = [latest EXCEPT ![p]["ordinary"] = Later(@, session[s].created)]
    /\ session' = [session EXCEPT ![s] = Idle]
    /\ UNCHANGED <<calendar, requests, yearly>>

\* validate_accounting_period with allow_closing: no flag is looked at.
PostClosing(p) ==
    /\ Room
    /\ entries' = [entries EXCEPT ![p] = @ + 1]
    /\ latest' = [latest EXCEPT ![p]["closing"] = closings[p]]
    /\ UNCHANGED <<calendar, requests, yearly, session>>

\* An error, or the end of the process: the database rolls back.
Abandon(s) ==
    /\ session[s].op # "idle"
    /\ session' = [session EXCEPT ![s] = Idle]
    /\ UNCHANGED <<calendar, ledger, requests, yearly>>

-----------------------------------------------------------------------------
(* The monthly close assistant                                             *)

\* nuevo_cierre_mensual: one run per period.
NewRun(p) ==
    /\ run_status[p] = "none"
    /\ run_status' = [run_status EXCEPT ![p] = "open"]
    /\ UNCHANGED <<is_closed, passed, closings, ledger, requests, yearly, session>>

Record(p, step, ok) ==
    passed' = [passed EXCEPT ![p] = IF ok THEN @ \cup {step} ELSE @ \ {step}]

\* A revaluation fails in a closed period; without a template to apply or a
\* project to capitalise the other steps succeed in one.
MayPass(p, step) == step = "exchange_revaluation" => ~is_closed[p]

\* A step from a page of any age.  It writes the status of the run whatever it
\* was, but a failed revaluation leaves it, and so does a capitalisation that
\* was rolled back.
RunStep(p, step, ok) ==
    /\ run_status[p] # "none"
    /\ ok => MayPass(p, step)
    /\ Record(p, step, ok)
    /\ \/ /\ step = "exchange_revaluation" => ok
          /\ run_status' = [run_status EXCEPT ![p] = "open"]
       \/ ~ok /\ step # "apply_recurring_journals" /\ UNCHANGED run_status
    /\ UNCHANGED <<is_closed, closings, ledger, requests, yearly, session>>

\* finalize_monthly_close: its guards.
MayClose(p) ==
    /\ run_status[p] = "open"
    /\ ~is_closed[p]
    /\ passed[p] = Step
    /\ Total(closings) < MaxClosings

\* reopen_accounting_period: its guards, all but the first read without a lock.
MayReopen(p) ==
    /\ is_closed[p]
    /\ \A q \in Period : q > p => ~is_closed[q]
    /\ run_status[p] = "closed"
    /\ \A o \in Origin : latest[p][o] < closings[p]

May(kind, p) == IF kind = "close" THEN MayClose(p) ELSE MayReopen(p)

\* Mutant: the period is read without its row lock.
StartUnlocked(s, kind, p) ==
    /\ session[s].op = "idle"
    /\ May(kind, p)
    /\ session' = [session EXCEPT ![s] =
                     [op |-> kind, period |-> p, entries |-> entries[p], review |-> {}]]
    /\ UNCHANGED <<calendar, ledger, requests, yearly>>

\* The service locks the period, tests its guards and reads the ledger.
Start(s, kind, p) ==
    /\ session[s].op = "idle"
    /\ Free(p)
    /\ May(kind, p)
    /\ session' = [session EXCEPT ![s] =
                     [op |-> kind, period |-> p, entries |-> entries[p], review |-> {}]]
    /\ UNCHANGED <<calendar, ledger, requests, yearly>>

\* approve_review: somebody else runs the same service, which refuses when the
\* evidence is not what was proposed.
StartReviewed(s, r) ==
    /\ session[s].op = "idle"
    /\ r \in requests
    /\ s # r.requested_by
    /\ Free(r.period)
    /\ May(r.kind, r.period)
    /\ entries[r.period] = r.entries
    /\ session' = [session EXCEPT ![s] =
                     [op |-> r.kind, period |-> r.period, entries |-> r.entries, review |-> {r}]]
    /\ UNCHANGED <<calendar, ledger, requests, yearly>>

\* Mutant: a pending proposal binds only while the setting is on.
MayCommitBeside(s) == TRUE

\* require_review lets the operation through: it is the one that was approved,
\* or the setting asks for no second user and nothing is pending.  The
\* administrator may change the setting at any time, so both answers are
\* possible at any time.
MayCommit(s) == session[s].review # {} \/ Pending(session[s].op, session[s].period) = {}

\* The proposal replaces a pending one whose evidence has changed.
Propose(s) ==
    /\ session[s].op \in Kind
    /\ session[s].review = {}
    /\ LET pending == Pending(session[s].op, session[s].period)
           proposal == [kind |-> session[s].op, period |-> session[s].period,
                        requested_by |-> s, entries |-> session[s].entries]
       IN requests' = IF \E r \in pending : r.entries = proposal.entries
                      THEN requests
                      ELSE (requests \ pending) \cup {proposal}
    /\ session' = [session EXCEPT ![s] = Idle]
    /\ UNCHANGED <<calendar, ledger, yearly>>

CommitClose(s) ==
    /\ session[s].op = "close"
    /\ MayCommit(s)
    /\ LET p == session[s].period IN
         /\ is_closed' = [is_closed EXCEPT ![p] = TRUE]
         /\ run_status' = [run_status EXCEPT ![p] = "closed"]
         /\ closings' = [closings EXCEPT ![p] = @ + 1]
    /\ requests' = requests \ session[s].review
    /\ session' = [session EXCEPT ![s] = Idle]
    /\ UNCHANGED <<passed, ledger, yearly>>

CommitReopen(s) ==
    /\ session[s].op = "reopen"
    /\ MayCommit(s)
    /\ LET p == session[s].period IN
         /\ is_closed' = [is_closed EXCEPT ![p] = FALSE]
         /\ run_status' = [run_status EXCEPT ![p] = "open"]
    /\ requests' = requests \ session[s].review
    /\ session' = [session EXCEPT ![s] = Idle]
    /\ UNCHANGED <<passed, closings, ledger, yearly>>

\* reject_review: nothing else changes.
RejectReview(r) ==
    /\ r \in requests
    /\ \A s \in Session : session[s].op \in Kind => r \notin session[s].review
    /\ requests' = requests \ {r}
    /\ UNCHANGED <<calendar, ledger, yearly, session>>

-----------------------------------------------------------------------------
(* The fiscal year                                                         *)

\* fiscal_year_edit: the flag it tests may change before it commits.
StartYearEdit(s, closed) ==
    /\ session[s].op = "idle"
    /\ closed # year.is_closed
    /\ year.financial_closed => closed
    /\ session' = [session EXCEPT ![s] = [op |-> "year", closed |-> closed]]
    /\ UNCHANGED <<calendar, ledger, requests, yearly>>

CommitYearEdit(s) ==
    /\ session[s].op = "year"
    /\ year' = [year EXCEPT !.is_closed = session[s].closed]
    /\ session' = [session EXCEPT ![s] = Idle]
    /\ UNCHANGED <<calendar, ledger, requests, voucher, active>>

\* create_fiscal_year_closing_voucher: its guards and the draft it commits,
\* which it submits next, in a transaction of its own.
DraftYearClosing(v) ==
    /\ voucher[v] = "none"
    /\ \A p \in Period : is_closed[p]
    /\ year.is_closed /\ ~year.financial_closed
    /\ \E p \in Period : entries[p] > 0
    /\ voucher' = [voucher EXCEPT ![v] = "draft"]
    /\ UNCHANGED <<calendar, ledger, requests, year, active, session>>

\* get_journal and the test of the status, of a row that is not locked: by the
\* request that made the draft, or from the page of the journal, or, to cancel,
\* by reverse_fiscal_year_closing.
LoadVoucher(s, op, v) ==
    /\ session[s].op = "idle"
    /\ voucher[v] = IF op = "cancel" THEN "submitted" ELSE "draft"
    /\ session' = [session EXCEPT ![s] =
                     [op |-> op, voucher |-> v, created |-> closings[LastPeriod]]]
    /\ UNCHANGED <<calendar, ledger, requests, yearly>>

\* Mutant: any other closing of the year is overlooked.
AcceptsClosingOfClosedYear(v) == year.is_closed

\* _validate_fiscal_year_closing, under the row lock of the year.
AcceptsClosing(v) ==
    /\ year.is_closed
    /\ year.financial_closed => year.closing_voucher = v

\* A row of the yearly closing, of the age of its transaction.
YearRow(s) ==
    latest' = [latest EXCEPT ![LastPeriod]["closing"] = Later(@, session[s].created)]

\* submit_journal from the lock of the year to the commit.  The status is not
\* tested again: rows in force alone keep the voucher from being posted.
SubmitYearClosing(s) ==
    /\ session[s].op = "submit"
    /\ LET v == session[s].voucher IN
         /\ AcceptsClosing(v)
         /\ v \notin active
         /\ active' = active \cup {v}
         /\ voucher' = [voucher EXCEPT ![v] = "submitted"]
         /\ year' = [year EXCEPT !.financial_closed = TRUE, !.closing_voucher = v]
    /\ YearRow(s)
    /\ session' = [session EXCEPT ![s] = Idle]
    /\ UNCHANGED <<calendar, entries, requests>>

\* reject_journal_draft: writes the status over whatever it has become, and
\* looks neither at the ledger nor at the year.
RejectYearClosing(s) ==
    /\ session[s].op = "reject"
    /\ voucher' = [voucher EXCEPT ![session[s].voucher] = "rejected"]
    /\ session' = [session EXCEPT ![s] = Idle]
    /\ UNCHANGED <<calendar, ledger, requests, year, active>>

\* cancel_submitted_journal, under the row lock of the voucher: there must be
\* rows to reverse.  No period is looked at, and the reversal is a new row of
\* the last period.
CancelYearClosing(s) ==
    /\ session[s].op = "cancel"
    /\ LET v == session[s].voucher IN
         /\ v \in active
         /\ active' = active \ {v}
         /\ voucher' = [voucher EXCEPT ![v] = "cancelled"]
    /\ year' = [year EXCEPT !.financial_closed = FALSE, !.closing_voucher = NoVoucher]
    /\ YearRow(s)
    /\ session' = [session EXCEPT ![s] = Idle]
    /\ UNCHANGED <<calendar, entries, requests>>

-----------------------------------------------------------------------------
Work(s) ==
    \/ \E p \in Period : StartPost(s, p) \/ \E kind \in Kind : Start(s, kind, p)
    \/ \E r \in requests : StartReviewed(s, r)
    \/ \E closed \in BOOLEAN : StartYearEdit(s, closed)
    \/ CommitPost(s) \/ Propose(s) \/ CommitClose(s) \/ CommitReopen(s)
    \/ CommitYearEdit(s)
    \/ \E op \in VoucherOp, v \in Voucher : LoadVoucher(s, op, v)
    \/ SubmitYearClosing(s) \/ RejectYearClosing(s) \/ CancelYearClosing(s)
    \/ Abandon(s)

Assistant(p) ==
    \/ NewRun(p)
    \/ \E step \in Step, ok \in BOOLEAN : RunStep(p, step, ok)

Next ==
    \/ \E s \in Session : Work(s)
    \/ \E p \in Period : Assistant(p) \/ PostClosing(p)
    \/ \E r \in requests : RejectReview(r)
    \/ \E v \in Voucher : DraftYearClosing(v)

Spec == Init /\ [][Next]_vars

-----------------------------------------------------------------------------
(* Properties                                                              *)

SessionState ==
    [op : {"idle"}]
      \cup [op : {"post"}, period : Period, created : 0 .. MaxClosings]
      \cup [op : Kind, period : Period, entries : 0 .. MaxEntries, review : SUBSET requests]
      \cup [op : {"year"}, closed : BOOLEAN]
      \cup [op : VoucherOp, voucher : Voucher, created : 0 .. MaxClosings]

\* Every variable has its type, the row of a period is locked by one session
\* at most, and a review at work is of a pending request.
TypeOK ==
    /\ is_closed \in [Period -> BOOLEAN]
    /\ run_status \in [Period -> {"none", "open", "closed"}]
    /\ passed \in [Period -> SUBSET Step]
    /\ closings \in [Period -> 0 .. MaxClosings]
    /\ entries \in [Period -> 0 .. MaxEntries]
    /\ latest \in [Period -> [Origin -> 0 .. MaxClosings]]
    /\ requests \in SUBSET Request
    /\ year \in [is_closed : BOOLEAN, financial_closed : BOOLEAN,
                 closing_voucher : Voucher \cup {NoVoucher}]
    /\ voucher \in [Voucher -> {"none", "draft", "submitted", "rejected", "cancelled"}]
    /\ active \in SUBSET Voucher
    /\ session \in [Session -> SessionState]
    /\ \A p \in Period, s, t \in Session : Holds(s, p) /\ Holds(t, p) => s = t

\* A request that starts after a period was closed leaves nothing in it, through
\* any sequence of reopenings, reviews, edits and closings: rows younger than
\* the last closing of a closed period come from closing journals alone
\* (document_identifiers.py:71).
OnlyClosingsAfterClose ==
    \A p \in Period : is_closed[p] => latest[p]["ordinary"] < closings[p]

\* A review that is pending speaks of the period as it is: what is proposed for
\* closing is open, what is proposed for reopening is closed, and there is one
\* proposal of a kind (the next require_review would raise on a second one,
\* control_review_service.py:118).  In particular the operation cannot be
\* carried out beside its own pending review, even when the setting that asked
\* for the review has been switched off since.
ReviewsStand ==
    \A r \in requests :
        /\ r.kind = "close" <=> ~is_closed[r.period]
        /\ Pending(r.kind, r.period) = {r}

\* The year is financially closed exactly while the ledger holds the rows of
\* one closing voucher, and it is the voucher the year refers to, whatever
\* submissions, rejections and cancellations work on rows loaded before, and
\* whatever drafts of earlier attempts there are.  The voucher in force is shown
\* as submitted, and nothing else is, unless a rejection that had loaded it as a
\* draft wrote over its status: it looks at neither ledger nor year.
OneYearClosing ==
    /\ year.financial_closed <=> year.closing_voucher # NoVoucher
    /\ \A v \in Voucher :
         /\ v \in active <=> year.closing_voucher = v
         /\ voucher[v] = "submitted" => v \in active
         /\ v \in active => voucher[v] \in {"submitted", "rejected"}
=============================================================================
