---------------------------- MODULE InsightIngest ----------------------------
(***************************************************************************)
(* `insight ingest` lands the team ledger in the analytics store           *)
(* (insight/ingest/ledger_reader.py, ledger_writer.py, goal_lifecycle.py,  *)
(* and the cursor migration of insight/ingest/store.py).                   *)
(*                                                                         *)
(* The ledger is a set of files, one for each process of an actor and each *)
(* stream: a space, with a line count, and so sequence numbers, of its     *)
(* own.  A run reads the files it can, in whatever state the last pull     *)
(* left them, and lands the records beyond the cursor oldest first, each   *)
(* in a transaction that also advances the cursor of the record's space.   *)
(* The store has no key that would refuse a record twice.  A run may be    *)
(* killed, a statement or a read may fail, a line may carry an identity    *)
(* that does not parse, and the store may be one that an older release     *)
(* filled under a cursor for each actor.  DuckDB locks the file, so one    *)
(* run at a time has the store open.                                       *)
(***************************************************************************)
EXTENDS Integers, Sequences, FiniteSets

CONSTANTS
  None,        \* no record
  Actors,      \* numbered in the order of their names
  Globs,       \* the spaces, in the order the reader visits their files
  Owner,       \* the actor of each space
  Lifecycle,   \* the spaces of the entries stream, reliability class 1
  Kinds,       \* the kinds of record that each space is written
  MaxTime,     \* bound: distinct timestamps
  MaxLines,    \* bound: lines in all files
  MaxFaults,   \* bound: unreadable files, bad lines, failed statements, kills
  RollbackMayFail  \* whether ROLLBACK may raise after a COMMIT that failed

Spaces == {Globs[i] : i \in DOMAIN Globs}
Rank == [s \in Spaces |-> CHOOSE i \in DOMAIN Globs : Globs[i] = s]
Kind == {"event", "handoff", "ack"}
Line == [ts : 1..MaxTime, kind : Kind, good : BOOLEAN]
Ids == Spaces \X (1..MaxLines)
NotSeen == -1

ASSUME IngestAssumption ==
  /\ Actors \subseteq Nat /\ Owner \in [Spaces -> Actors]
  /\ Lifecycle \subseteq Spaces /\ Kinds \in [Spaces -> SUBSET Kind]
  /\ \A s \in Spaces \ Lifecycle : Kinds[s] \subseteq {"event"}
  /\ None \notin Ids /\ RollbackMayFail \in BOOLEAN
  /\ MaxTime \in Nat \ {0} /\ MaxLines \in Nat /\ MaxFaults \in Nat

VARIABLES
  file,     \* the lines of each space, as the ingesting clone has them
  facts,    \* how often each record has a row in fact_event or fact_handoff
  handoff,  \* fact_handoff's row of the issue: the records it was last set from
  goals,    \* the class-1 events that fact_goal was last derived from
  cursor,   \* ingest_ledger_cursor: the highest sequence number of each space
  shape,    \* whether that table has the key of the old release or the new one
  old,      \* the actors that an old release left a row for, there or in the carrier
  pc,       \* the next step of the run, "idle" when none is in progress
  todo,     \* the records the run still has to land
  faults

store == <<facts, handoff, goals, cursor, shape, old>>
vars == <<file, store, pc, todo, faults>>

-----------------------------------------------------------------------------
(* Records *)

\* A record is named by its space and its line.
Records == {r \in Ids : r[2] <= Len(file[r[1]])}
LineOf(r) == file[r[1]][r[2]]

\* ledger_reader.py seq_of: 0 for an id whose tail does not parse.
SeqOf(r) == IF LineOf(r).good THEN r[2] ELSE 0

\* ledger_reader.py _sort_key, and the order of the globs where it ties.
Key(r) == <<LineOf(r).ts, Owner[r[1]], SeqOf(r), Rank[r[1]], r[2]>>
Less(k, l) ==
  \E i \in 1..5 : k[i] < l[i] /\ \A j \in 1..(i - 1) : k[j] = l[j]

\* A change: the records are sorted newest first.
MutBefore(r, q) == Less(Key(q), Key(r))
Before(r, q) == Less(Key(r), Key(q))
Oldest(R) == {r \in R : \A q \in R \ {r} : Before(r, q)}

SameSpace(r) == {q \in Ids : q[1] = r[1]}
IsEvent(r) == LineOf(r).kind = "event"
FirstClass(R) == {r \in R : IsEvent(r) /\ r[1] \in Lifecycle}
Landed == {r \in Records : facts[r] > 0}
Pair(h, a) == [opened |-> h, acked |-> a]
HasMarker == shape = "new" /\ old # {}
TotalLines == Cardinality(Records)

-----------------------------------------------------------------------------
(* The ledger grows: a process of this clone appends, or a pull brings the  *)
(* next lines of a colleague's file, whose times may lie before those of    *)
(* records that have landed.  No line goes: a rebase that is given up can   *)
(* take lines from a file (sync.py pull), whose numbers the next ones take. *)

Write(s) ==
  \E line \in Line :
    /\ TotalLines < MaxLines /\ line.kind \in Kinds[s]
    /\ file[s] # <<>> => line.ts >= file[s][Len(file[s])].ts
    /\ line.good \/ faults < MaxFaults
    /\ faults' = IF line.good THEN faults ELSE faults + 1
    /\ file' = [file EXCEPT ![s] = Append(@, line)]
    /\ UNCHANGED <<store, pc, todo>>

-----------------------------------------------------------------------------
(* The store *)

\* store.py _migrate_cursor_key: one transaction moves the old rows to the
\* carrier and recreates the cursor, empty, under the new key.
Migrate ==
  /\ shape' = "new"
  /\ UNCHANGED <<facts, handoff, goals, cursor, old>>

\* A command that only reads the facts opens the store, and migrates it.
ReadCommand ==
  /\ pc = "idle" /\ shape = "old"
  /\ Migrate
  /\ UNCHANGED <<file, pc, todo, faults>>

Open ==
  /\ pc = "idle" /\ pc' = "read"
  /\ Migrate
  /\ UNCHANGED <<file, todo, faults>>

\* read_all_with_reliability: the files that can be read, none if the
\* ledger's worktree is not there.
Read ==
  \E missing \in SUBSET {s \in Spaces : file[s] # <<>>} :
    /\ pc = "read" /\ pc' = "load"
    /\ missing = {} \/ faults < MaxFaults
    /\ faults' = IF missing = {} THEN faults ELSE faults + 1
    /\ todo' = {r \in Records : r[1] \notin missing}
    /\ UNCHANGED <<file, store>>

\* A change: the cursor and the marker go, the facts stay.
MutRebuild ==
  /\ pc = "load" /\ todo # {} /\ HasMarker
  /\ handoff' = Pair(None, None)
  /\ cursor' = [s \in Spaces |-> NotSeen]
  /\ old' = {}
  /\ UNCHANGED <<file, facts, goals, shape, pc, todo, faults>>

\* _rebuild_migrated_project: the facts, the cursor and the marker go in one
\* transaction, and only if there are records to rebuild from.
Rebuild ==
  /\ pc = "load" /\ todo # {} /\ HasMarker
  /\ facts' = [r \in Ids |-> 0]
  /\ handoff' = Pair(None, None)
  /\ cursor' = [s \in Spaces |-> NotSeen]
  /\ old' = {}
  /\ UNCHANGED <<file, goals, shape, pc, todo, faults>>

\* A change: one cursor for all the spaces of an actor.
MutPerActor(r) ==
  \E s \in Spaces : Owner[s] = Owner[r[1]] /\ SeqOf(r) <= cursor[s]

\* _load_cursor: what to skip is decided once, on the cursor as it is now.
Skipped(r) == SeqOf(r) <= cursor[r[1]]
Load ==
  /\ pc = "load" /\ ~(todo # {} /\ HasMarker)
  /\ todo' = {r \in todo : ~Skipped(r)}
  /\ pc' = "land"
  /\ UNCHANGED <<file, store, faults>>

\* The rebuild or the load raises: nothing is ingested, the marker stays.
LoadFails ==
  /\ pc = "load" /\ faults < MaxFaults
  /\ todo' = {} /\ pc' = "derive" /\ faults' = faults + 1
  /\ UNCHANGED <<file, store>>

\* A change: the upsert overwrites the stored number.
MutAdvanced(s, n) == [cursor EXCEPT ![s] = n]

\* _CURSOR_UPSERT_SQL: GREATEST of the stored and the new number.
Advanced(s, n) == [cursor EXCEPT ![s] = IF n > @ THEN n ELSE @]

\* _write_event, _apply_handoff and _apply_ack: every record has a row of its
\* own but the hand-off and its answers, which share the row of their issue.
Counted(r) == [facts EXCEPT ![r] = @ + 1]
RowWith(r) ==
  CASE LineOf(r).kind = "handoff" -> Pair(r, handoff.acked)
    [] LineOf(r).kind = "ack"     -> Pair(handoff.opened, r)
    [] OTHER                      -> handoff

\* The row of the record and the cursor of its space, in one transaction.
Land ==
  /\ pc = "land"
  /\ \E r \in Oldest(todo) :
       /\ facts' = Counted(r)
       /\ handoff' = RowWith(r)
       /\ cursor' = Advanced(r[1], SeqOf(r))
       /\ todo' = todo \ {r}
  /\ UNCHANGED <<file, goals, shape, old, pc, faults>>

\* A change: a record that fails does not block its space.
MutDeferred(r) == {r}

\* A statement raises: the transaction is rolled back, and every later record
\* of the same space is left for another run.  If COMMIT itself raised and so
\* ended the transaction, ROLLBACK may raise too; then the outer handler skips
\* the record without blocking its space.
Deferred(r) == SameSpace(r)
Dropped(r) == {Deferred(r)} \cup (IF RollbackMayFail THEN {{r}} ELSE {})
LandFails ==
  /\ pc = "land" /\ faults < MaxFaults
  /\ \E r \in Oldest(todo) : \E later \in Dropped(r) : todo' = todo \ later
  /\ faults' = faults + 1
  /\ UNCHANGED <<file, store, pc>>

LandEnds ==
  /\ pc = "land" /\ todo = {} /\ pc' = "derive"
  /\ UNCHANGED <<file, store, todo, faults>>

\* derive_goals_from_events: purge and upsert from the facts, in one
\* transaction, which may fail; the run ends either way.
Derive ==
  /\ pc = "derive" /\ pc' = "idle"
  /\ goals' = FirstClass(Landed)
  /\ UNCHANGED <<file, facts, handoff, cursor, shape, old, todo, faults>>

DeriveFails ==
  /\ pc = "derive" /\ faults < MaxFaults
  /\ pc' = "idle" /\ faults' = faults + 1
  /\ UNCHANGED <<file, store, todo>>

Kill ==
  /\ pc # "idle" /\ faults < MaxFaults
  /\ pc' = "idle" /\ todo' = {} /\ faults' = faults + 1
  /\ UNCHANGED <<file, store>>

-----------------------------------------------------------------------------
\* A store that an older release filled: a first run saw some of the files
\* and landed them, a later one saw all but took the records of the others
\* for landed up to the highest number of their actor.
OldLine == [ts |-> 1, kind |-> "event", good |-> TRUE]
OldStore(len, seen) ==
  LET Taken(r) == \E s \in seen : Owner[s] = Owner[r[1]] /\ r[2] <= len[s]
      stored == {r \in Ids : r[2] <= len[r[1]] /\ (r[1] \in seen \/ ~Taken(r))}
  IN /\ \A s \in seen : len[s] > 0
     /\ file = [s \in Spaces |-> [i \in 1..len[s] |-> OldLine]]
     /\ facts = [r \in Ids |-> IF r \in stored THEN 1 ELSE 0]
     /\ goals = {r \in stored : r[1] \in Lifecycle}
     /\ old = {Owner[r[1]] : r \in stored}
     /\ shape = "old"

FreshStore ==
  /\ file = [s \in Spaces |-> <<>>]
  /\ facts = [r \in Ids |-> 0]
  /\ goals = {}
  /\ old = {}
  /\ shape = "new"

Init ==
  /\ \/ FreshStore
     \/ \E len \in [Spaces -> 0..2], seen \in (SUBSET Spaces) \ {{}} :
          /\ \A r \in Spaces \X (1..2) : r[2] <= len[r[1]] => r \in Ids
          /\ OldStore(len, seen)
          /\ TotalLines <= MaxLines
  /\ handoff = Pair(None, None)
  /\ cursor = [s \in Spaces |-> NotSeen]
  /\ pc = "idle" /\ todo = {} /\ faults = 0

Run == Read \/ Rebuild \/ Load \/ LoadFails \/ Land \/ LandFails
       \/ LandEnds \/ Derive \/ DeriveFails

Next == (\E s \in Spaces : Write(s)) \/ ReadCommand \/ Open \/ Run \/ Kill

Spec == Init /\ [][Next]_vars

\* `insight ingest` is run again and again, and a run that is not killed goes
\* on to its end.
FairSpec == Spec /\ WF_vars(Open) /\ WF_vars(Run)

-----------------------------------------------------------------------------
TypeOK ==
  /\ file \in [Spaces -> Seq(Line)]
  /\ facts \in [Ids -> Nat]
  /\ handoff \in [opened : Ids \cup {None}, acked : Ids \cup {None}]
  /\ goals \subseteq Ids
  /\ cursor \in [Spaces -> Nat \cup {NotSeen}]
  /\ shape \in {"old", "new"}
  /\ old \subseteq Actors
  /\ pc \in {"idle", "read", "load", "land", "derive"}
  /\ todo \subseteq Ids
  /\ faults \in 0..MaxFaults

(* No record has two rows, however runs were killed or failed, whatever an  *)
(* older release had landed, and although a line whose number does not      *)
(* parse reaches the cursor of a healthy space as 0.                        *)
NoDuplicate == \A r \in Records : facts[r] <= 1

(* The cursor of a space never stands beyond a record that has not landed:  *)
(* such a record would be skipped by every later run.                       *)
NoGap ==
  \A r \in Records :
    LineOf(r).good /\ r[2] <= cursor[r[1]] => facts[r] > 0

(* The hand-off's row never goes back to an earlier answer, or opening, of  *)
(* the writer it has a later one of.                                        *)
RowIsCurrent ==
  \A f \in {"opened", "acked"} : handoff[f] # None =>
    \A q \in Landed \cap SameSpace(handoff[f]) :
      /\ LineOf(q).good /\ LineOf(handoff[f]).good
      /\ LineOf(q).kind = LineOf(handoff[f]).kind
      => q[2] <= handoff[f][2]

(* "Neither re-ingests a record it already stored nor loses one"            *)
(* (ledger_writer.py:5): however runs are killed or fail and records come   *)
(* late, each record lands once and after those before it in its space.     *)
Landing == INSTANCE RecordLanding WITH
             formed <- {r \in Records : LineOf(r).good},
             rows <- facts,
             migrated <- old # {}
LandsInOrder == Landing!Spec

(* The store catches up with the ledger: again and again, whatever has been *)
(* written meanwhile and whatever an older release had skipped, every       *)
(* well-formed record there is has landed and the goals are derived from    *)
(* it.                                                                      *)
AllLanded ==
  []<>(\A r \in Records : LineOf(r).good =>
         facts[r] > 0 /\ (r \in FirstClass(Records) => r \in goals))

(* "The LATEST ack always wins" (ledger_writer.py:378): the row shows the   *)
(* latest of the answers that have landed.                                  *)
LatestAckWins ==
  handoff.acked # None =>
    \A q \in Landed \ {handoff.acked} :
      LineOf(q).kind = "ack" => Before(q, handoff.acked)

=============================================================================
