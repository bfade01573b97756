------------------------- MODULE RecurringJournals -------------------------
(***************************************************************************)
(* A recurring journal template, its applications to the periods and the   *)
(* journals they create (contabilidad/recurring_journal_service.py,         *)
(* contabilidad/journal_service.py).                                        *)
(*                                                                         *)
(* A request loads the journal, tests its status and locks the row only    *)
(* when it posts or cancels; the status is not tested again.  A template is *)
(* locked by its approval and its application, and by nothing else.        *)
(* Database: PostgreSQL, READ COMMITTED.  The period of a date is taken to  *)
(* be open (module PeriodClose) and the approval engine to be switched off  *)
(* (module ApprovalFlow).                                                   *)
(***************************************************************************)
EXTENDS Integers, FiniteSets, FiniteSetsExt

CONSTANTS
    Session,      \* transactions at work
    Journal,      \* journals an application can create
    LastPeriod    \* the template is valid for the periods 1 .. LastPeriod

ASSUME LastPeriodAssumption == LastPeriod \in Nat \ {0}

Period == 1 .. LastPeriod

VARIABLES
    template,     \* recurring_journal_template
    application,  \* recurring_journal_application, by the journal it created
    journal,      \* status of the journal
    active,       \* journals with ledger rows in force
    reversed,     \* journals with a cancellation in document_transition
    session       \* what an open transaction works at

vars == <<template, application, journal, active, reversed, session>>
documents == <<application, journal, active, reversed>>

Idle == [op |-> "idle"]

Unchanged == [write |-> FALSE]

Init ==
    /\ template = [status |-> "draft", last_applied |-> 0]
    /\ application = [j \in Journal |-> [period |-> 1, status |-> "none"]]
    /\ journal = [j \in Journal |-> "none"]
    /\ active = {}
    /\ reversed = {}
    /\ session = [s \in Session |-> Idle]

-----------------------------------------------------------------------------
(* The template                                                            *)

ApproveTemplate ==
    /\ template.status = "draft"
    /\ template' = [template EXCEPT !.status = "approved"]
    /\ UNCHANGED <<documents, session>>

\* cancel_recurring_template: whatever the status, and without a lock.
CancelTemplate ==
    /\ template' = [template EXCEPT !.status = "cancelled"]
    /\ UNCHANGED <<documents, session>>

Applications(p) == {j \in Journal : application[j].status # "none" /\ application[j].period = p}

\* Mutant: uq_recurring_application is missing and the service decides alone.
NoneInForce(p) == \A j \in Applications(p) : application[j].status = "reversed"

\* A pending or applied application of the period is refused by the service; a
\* reversed one passes its test and is refused by uq_recurring_application.
MayApply(p) == Applications(p) = {}

\* apply_recurring_template, under the row lock of the template.
Apply(j, p) ==
    /\ journal[j] = "none"
    /\ template.status = "approved"
    /\ MayApply(p)
    /\ application' = [application EXCEPT ![j] = [period |-> p, status |-> "pending"]]
    /\ journal' = [journal EXCEPT ![j] = "draft"]
    /\ UNCHANGED <<template, active, reversed, session>>

-----------------------------------------------------------------------------
(* The journals                                                            *)

\* A cancellation holds the row of its journal once it has written to it.
Free(j) == \A s \in Session : ~(session[s].op = "reverse" /\ session[s].journal = j)

Fits(op) == IF op = "cancel" THEN "submitted" ELSE "draft"

\* get_journal and the test of its status.
Load(s, op, j) ==
    /\ session[s].op = "idle"
    /\ journal[j] = Fits(op)
    /\ session' = [session EXCEPT ![s] = [op |-> op, journal |-> j]]
    /\ UNCHANGED <<template, documents>>

\* _has_active_gl_entries, which locks the row of the journal first.
NotPosted(j) == Free(j) /\ j \notin active

\* The template when the application of period p has been applied.
AfterApplying(p) ==
    [template EXCEPT !.last_applied = p,
                     !.status = IF p >= LastPeriod THEN "completed" ELSE @]

\* Mutant: the status moves on from draft only, the rest goes its way.
CommitSubmitOfDraft(s) ==
    /\ session[s].op = "submit"
    /\ LET j == session[s].journal IN
         /\ NotPosted(j)
         /\ active' = active \cup {j}
         /\ journal' = [journal EXCEPT ![j] = IF @ = "draft" THEN "submitted" ELSE @]
         /\ application' = [application EXCEPT ![j].status = "applied"]
         /\ template' = AfterApplying(application[j].period)
    /\ session' = [session EXCEPT ![s] = Idle]
    /\ UNCHANGED reversed

\* submit_journal from the row lock to the commit.
CommitSubmit(s) ==
    /\ session[s].op = "submit"
    /\ LET j == session[s].journal IN
         /\ NotPosted(j)
         /\ active' = active \cup {j}
         /\ journal' = [journal EXCEPT ![j] = "submitted"]
         /\ application' = [application EXCEPT ![j].status = "applied"]
         /\ template' = AfterApplying(application[j].period)
    /\ session' = [session EXCEPT ![s] = Idle]
    /\ UNCHANGED reversed

\* Mutant: a rejection releases the period of the application.
CommitRejectAndRelease(s) ==
    /\ session[s].op = "reject"
    /\ Free(session[s].journal)
    /\ journal' = [journal EXCEPT ![session[s].journal] = "rejected"]
    /\ application' = [application EXCEPT ![session[s].journal].status = "reversed"]
    /\ session' = [session EXCEPT ![s] = Idle]
    /\ UNCHANGED <<template, active, reversed>>

\* reject_journal_draft: the status is written without a lock, and the
\* application is not told.
CommitReject(s) ==
    /\ session[s].op = "reject"
    /\ Free(session[s].journal)
    /\ journal' = [journal EXCEPT ![session[s].journal] = "rejected"]
    /\ session' = [session EXCEPT ![s] = Idle]
    /\ UNCHANGED <<template, application, active, reversed>>

\* Periods of the other applications that are applied.
OthersApplied(j) ==
    {application[i].period : i \in {i \in Journal \ {j} : application[i].status = "applied"}}

\* _reverse_recurring_application: what it will write to the template, from a
\* read of the template without a lock.
Rollback(j) ==
    IF template.last_applied # application[j].period
    THEN Unchanged
    ELSE [write |-> TRUE,
          last_applied |-> Max(OthersApplied(j) \cup {0}),
          reopen |-> template.status = "completed"]

\* Mutant: the rows to reverse are not found by their mark.
ReversibleTwice(j) == Free(j)

\* cancel_document: there must be rows to reverse, and one cancellation of a
\* journal is recorded in its life (uq_document_transition_effective).
Reversible(j) == Free(j) /\ j \in active /\ j \notin reversed

\* cancel_submitted_journal up to its last read.
Reverse(s) ==
    /\ session[s].op = "cancel"
    /\ Reversible(session[s].journal)
    /\ session' = [session EXCEPT ![s] = [op |-> "reverse", journal |-> session[s].journal,
                                          rollback |-> Rollback(session[s].journal)]]
    /\ UNCHANGED <<template, documents>>

\* The template when the cursor has been rolled back; columns that were not
\* assigned keep what others have written since.
AfterRollback(rollback) ==
    IF ~rollback.write
    THEN template
    ELSE [template EXCEPT !.last_applied = rollback.last_applied,
                          !.status = IF rollback.reopen THEN "approved" ELSE @]

CommitCancel(s) ==
    /\ session[s].op = "reverse"
    /\ LET j == session[s].journal IN
         /\ active' = active \ {j}
         /\ reversed' = reversed \cup {j}
         /\ journal' = [journal EXCEPT ![j] = "cancelled"]
         /\ application' = [application EXCEPT ![j].status = "reversed"]
    /\ template' = AfterRollback(session[s].rollback)
    /\ session' = [session EXCEPT ![s] = Idle]

\* An error, or the end of the process: the database rolls back.
Abandon(s) ==
    /\ session[s].op # "idle"
    /\ session' = [session EXCEPT ![s] = Idle]
    /\ UNCHANGED <<template, documents>>

-----------------------------------------------------------------------------
Work(s) ==
    \/ \E op \in {"submit", "reject", "cancel"}, j \in Journal : Load(s, op, j)
    \/ CommitSubmit(s) \/ CommitReject(s)
    \/ Reverse(s) \/ CommitCancel(s)
    \/ Abandon(s)

Next ==
    \/ ApproveTemplate \/ CancelTemplate
    \/ \E j \in Journal, p \in Period : Apply(j, p)
    \/ \E s \in Session : Work(s)

Spec == Init /\ [][Next]_vars

-----------------------------------------------------------------------------
(* Properties                                                              *)

TemplateState ==
    [status : {"draft", "approved", "completed", "cancelled"},
     last_applied : 0 .. LastPeriod]

RollbackState ==
    {Unchanged} \cup [write : {TRUE}, last_applied : 0 .. LastPeriod, reopen : BOOLEAN]

SessionState ==
    {Idle} \cup [op : {"submit", "reject", "cancel"}, journal : Journal]
      \cup [op : {"reverse"}, journal : Journal, rollback : RollbackState]

\* Every variable has its type, a journal is being reversed by one session at
\* most, and only one that is in force and was never reversed.
TypeOK ==
    /\ template \in TemplateState
    /\ application \in [Journal -> [period : Period,
                                    status : {"none", "pending", "applied", "reversed"}]]
    /\ journal \in [Journal -> {"none", "draft", "submitted", "rejected", "cancelled"}]
    /\ active \in SUBSET Journal
    /\ reversed \in SUBSET Journal
    /\ session \in [Session -> SessionState]
    /\ \A s, t \in Session :
         session[s].op = "reverse" =>
            /\ session[s].journal \in active \ reversed
            /\ session[t].op = "reverse" /\ session[t].journal = session[s].journal => s = t

\* The application of a template to a period is "applied" exactly while the
\* ledger holds its rows, whatever submissions, rejections and cancellations
\* of the journal overlap: the close assistant counts on it
\* (contabilidad/services.py:582).  And a journal that is shown as a draft or as
\* cancelled has nothing in the ledger, however late the submission: only a
\* rejection, which does not look at the ledger, can say less than it holds.
StatusMatchesLedger ==
    \A j \in Journal :
        /\ application[j].status = "applied" <=> j \in active
        /\ journal[j] \in {"none", "draft", "cancelled"} => j \notin active

\* A period carries the recurring amount once at most, through reversals,
\* repeated applications and submissions that arrive late.
OneInForce ==
    \A i, j \in active : application[i].period = application[j].period => i = j
=============================================================================
