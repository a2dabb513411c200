---------------------------- MODULE RecordLanding ----------------------------
(***************************************************************************)
(* What the ingest promises of the analytics store (the module docstrings  *)
(* of insight/ingest/ledger_writer.py and ledger_reader.py): each record   *)
(* lands once, and those of one space in the order of their lines, except  *)
(* that a store which an older release filled in another order is emptied  *)
(* before anything lands in it.                                            *)
(***************************************************************************)
EXTENDS Naturals

CONSTANT Ids   \* the records there may be: a space and a line

VARIABLES
  formed,     \* the well-formed records there are
  rows,       \* [Ids -> how often each record has a row]
  migrated    \* whether the rows are those of an older release

vars == <<formed, rows, migrated>>

Earlier(q, r) == q[1] = r[1] /\ q[2] < r[2]
Empty == [r \in Ids |-> 0]

Init ==
  /\ formed \in SUBSET Ids
  /\ rows \in [Ids -> {0, 1}]
  /\ migrated \in BOOLEAN
  /\ migrated \/ rows = Empty

\* A line is written behind those of its space.
Write(r) ==
  /\ r \notin formed /\ rows[r] = 0
  /\ \A q \in formed : q[1] = r[1] => Earlier(q, r)
  /\ formed' = formed \cup {r}
  /\ UNCHANGED <<rows, migrated>>

Rebuild ==
  /\ migrated /\ migrated' = FALSE
  /\ rows' = Empty
  /\ UNCHANGED formed

\* A malformed line, which has no number, lands whenever it may.
Land(r) ==
  /\ ~migrated /\ rows[r] = 0
  /\ r \in formed => \A q \in formed : Earlier(q, r) => rows[q] > 0
  /\ rows' = [rows EXCEPT ![r] = 1]
  /\ UNCHANGED <<formed, migrated>>

Next == (\E r \in Ids : Write(r) \/ Land(r)) \/ Rebuild

Spec == Init /\ [][Next]_vars

\* What has landed of a space is a beginning of it.
LandedFromTheStart ==
  ~migrated =>
    \A q, r \in formed : Earlier(q, r) /\ rows[r] > 0 => rows[q] > 0

=============================================================================
