------------------------------ MODULE AuditLog ------------------------------
(***************************************************************************)
(* What the audit trail promises: a log of rows that only grows at its     *)
(* end.  AuditChain implements it with rows that point at their            *)
(* predecessor and with concurrent, revocable transactions.                *)
(***************************************************************************)
EXTENDS Naturals, Sequences, FiniteSets

VARIABLES
    log,   \* the identifiers of the rows, oldest first
    ids    \* the same identifiers, as a set

Init == log = <<>> /\ ids = {}

Listed(s) == {s[i] : i \in 1 .. Len(s)}

\* One transaction adds its rows: the old log is a prefix of the new one,
\* which lists every row, and each once.
Extend ==
    /\ ids \subseteq ids' /\ ids # ids'
    /\ SubSeq(log', 1, Len(log)) = log
    /\ Listed(log') = ids' /\ Len(log') = Cardinality(ids')

Spec == Init /\ [][Extend]_<<log, ids>>
=============================================================================
