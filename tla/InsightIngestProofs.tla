------------------------- MODULE InsightIngestProofs -------------------------
(***************************************************************************)
(* Proofs about InsightIngest, for any spaces, lines, times and faults.    *)
(***************************************************************************)
EXTENDS InsightIngest, SequenceTheorems, TLAPS

-----------------------------------------------------------------------------
(* Types.                                                                  *)

LEMMA RecordType ==
  ASSUME TypeOK, NEW r \in Records
  PROVE  /\ r \in Ids /\ r[1] \in Spaces /\ r[2] \in 1..Len(file[r[1]])
         /\ LineOf(r) \in Line /\ SeqOf(r) \in Nat
<1>1. r \in Ids /\ r[1] \in Spaces /\ r[2] \in Nat \ {0} /\ r[2] <= Len(file[r[1]])
  BY IngestAssumption DEF Records, Ids
<1>2. file[r[1]] \in Seq(Line)
  BY <1>1 DEF TypeOK
<1>3. Len(file[r[1]]) \in Nat /\ r[2] \in 1..Len(file[r[1]])
  BY <1>1, <1>2, LenProperties
<1>4. LineOf(r) \in Line
  BY <1>2, <1>3, ElementOfSeq DEF LineOf
<1> QED BY <1>1, <1>3, <1>4 DEF SeqOf, Line

\* A file of n lines of the old release is a sequence of n lines.
LEMMA OldFile ==
  ASSUME NEW n \in 0..2
  PROVE  /\ [i \in 1..n |-> OldLine] \in Seq(Line)
         /\ Len([i \in 1..n |-> OldLine]) = n
<1> DEFINE f == [i \in 1..n |-> OldLine]
<1>1. OldLine \in Line
  BY IngestAssumption DEF OldLine, Line, Kind
<1>2. f \in [1..n -> Line] /\ n \in Nat
  BY <1>1
<1>3. f \in Seq(Line)
  BY <1>2, SeqDef
<1>4. Len(f) = n
  BY <1>2, <1>3, LenProperties
<1> QED BY <1>3, <1>4

LEMMA TypeInit == Init => TypeOK
<1> SUFFICES ASSUME Init PROVE TypeOK
  OBVIOUS
<1>1. CASE FreshStore
  BY <1>1, IngestAssumption DEF Init, FreshStore, TypeOK, Pair, NotSeen
<1>2. ASSUME NEW len \in [Spaces -> 0..2], NEW seen \in SUBSET Spaces, OldStore(len, seen)
      PROVE  TypeOK
  <2>1. file \in [Spaces -> Seq(Line)]
    BY <1>2, OldFile DEF OldStore
  <2>2. facts \in [Ids -> Nat] /\ goals \subseteq Ids /\ shape = "old"
    BY <1>2 DEF OldStore
  <2>3. old \subseteq Actors
    BY <1>2, IngestAssumption DEF OldStore, Ids
  <2> QED BY <2>1, <2>2, <2>3, IngestAssumption DEF Init, TypeOK, Pair, NotSeen
<1> QED BY <1>1, <1>2 DEF Init

LEMMA TypeStep == TypeOK /\ [Next]_vars => TypeOK'
<1> SUFFICES ASSUME TypeOK, [Next]_vars PROVE TypeOK'
  OBVIOUS
<1> USE IngestAssumption DEF TypeOK, store
<1>1. ASSUME NEW s \in Spaces, Write(s) PROVE TypeOK'
  <2>1. PICK line \in Line : file' = [file EXCEPT ![s] = Append(@, line)]
    BY <1>1 DEF Write
  <2>2. file' \in [Spaces -> Seq(Line)]
    BY <2>1
  <2>3. faults' \in 0..MaxFaults
    BY <1>1 DEF Write
  <2> QED BY <1>1, <2>2, <2>3 DEF Write
<1>2. CASE ReadCommand \/ Open
  BY <1>2 DEF ReadCommand, Open, Migrate
<1>3. CASE Read
  BY <1>3 DEF Read, Records
<1>4. CASE Rebuild
  <2>1. /\ facts' \in [Ids -> Nat] /\ old' \subseteq Actors
        /\ handoff' \in [opened : Ids \cup {None}, acked : Ids \cup {None}]
    BY <1>4 DEF Rebuild, Pair
  <2>2. cursor' \in [Spaces -> Nat \cup {NotSeen}]
    BY <1>4 DEF Rebuild
  <2> QED BY <1>4, <2>1, <2>2 DEF Rebuild
<1>5. CASE Load \/ LoadFails \/ LandFails \/ LandEnds
  <2>1. todo' \subseteq todo
    BY <1>5 DEF Load, LoadFails, LandFails, LandEnds
  <2>2. faults' \in 0..MaxFaults
    BY <1>5 DEF Load, LoadFails, LandFails, LandEnds
  <2> QED BY <1>5, <2>1, <2>2 DEF Load, LoadFails, LandFails, LandEnds
<1>6. CASE Land
  <2>1. PICK r \in todo : /\ facts' = Counted(r) /\ handoff' = RowWith(r)
                          /\ cursor' = Advanced(r[1], SeqOf(r)) /\ todo' = todo \ {r}
    BY <1>6 DEF Land, Oldest
  <2>2. r \in Ids
    BY <2>1
  <2>3. facts' \in [Ids -> Nat]
    BY <2>1, <2>2 DEF Counted
  <2>4. handoff' \in [opened : Ids \cup {None}, acked : Ids \cup {None}]
    BY <2>1, <2>2 DEF RowWith, Pair
  <2>5. r[1] \in Spaces /\ SeqOf(r) \in Nat
    BY <2>2 DEF Ids, SeqOf
  <2>6. cursor' \in [Spaces -> Nat \cup {NotSeen}]
    BY <2>1, <2>5 DEF Advanced, NotSeen
  <2> QED BY <1>6, <2>1, <2>3, <2>4, <2>6 DEF Land
<1>7. CASE Derive
  BY <1>7 DEF Derive, FirstClass, Landed, Records
<1>8. CASE DeriveFails \/ Kill
  <2>1. todo' \subseteq todo /\ faults' \in 0..MaxFaults /\ pc' = "idle"
    BY <1>8 DEF DeriveFails, Kill
  <2> QED BY <1>8, <2>1 DEF DeriveFails, Kill
<1>9. CASE UNCHANGED vars
  BY <1>9 DEF vars
<1> QED BY <1>1, <1>2, <1>3, <1>4, <1>5, <1>6, <1>7, <1>8, <1>9 DEF Next, Run

\* The store, the cursor and a run in progress keep their types.
THEOREM IngestTypeCorrect == Spec => []TypeOK
  BY TypeInit, TypeStep, PTL DEF Spec

-----------------------------------------------------------------------------
(* The inductive invariant.                                                *)

\* A writer's clock does not step back within its file.
SortedInv ==
  \A s \in Spaces : \A i, j \in 1..Len(file[s]) : i < j => file[s][i].ts <= file[s][j].ts

\* A run has records in hand from its read until it has landed them.
RunInv ==
  /\ pc \in {"idle", "read", "derive"} => todo = {}
  /\ pc # "idle" => shape = "new"
  /\ todo \subseteq Records

\* Until a migrated store is rebuilt nothing lands in it.
MigratedInv ==
  old # {} => /\ cursor = [s \in Spaces |-> NotSeen]
              /\ handoff = Pair(None, None)
              /\ pc = "land" => todo = {}

\* A record that has landed is behind its cursor and no longer in hand.
OnceInv ==
  /\ \A r \in Ids : facts[r] > 0 => facts[r] = 1 /\ r \in Records
  /\ old = {} => \A r \in Records : facts[r] > 0 => Skipped(r)
  /\ pc = "land" => \A r \in todo : facts[r] = 0

\* The well-formed records before one in hand are in hand too, or have landed.
QueueInv ==
  \A r \in todo, q \in Records :
    q[1] = r[1] /\ q[2] < r[2] /\ LineOf(q).good
    => /\ pc = "load" => q \in todo
       /\ pc = "land" => q \in todo \/ facts[q] > 0

\* The well-formed records of its space that have landed are before it.
AheadInv ==
  pc = "land" =>
    \A r \in todo, q \in Records :
      q[1] = r[1] /\ LineOf(q).good /\ LineOf(r).good /\ facts[q] > 0 => q[2] < r[2]

\* The hand-off's row was set from records of the two kinds.
RowInv ==
  /\ handoff.opened # None =>
       handoff.opened \in Records /\ LineOf(handoff.opened).kind = "handoff"
  /\ handoff.acked # None =>
       handoff.acked \in Records /\ LineOf(handoff.acked).kind = "ack"

\* No cursor stands beyond the lines of its space.
CursorInv == \A s \in Spaces : cursor[s] <= Len(file[s])

-----------------------------------------------------------------------------
(* The steps, sorted by what they do to the records and the store.         *)

\* A line is appended behind the records there are, which stay as they are,
\* and is not older than they are.
LEMMA WriteAppends ==
  ASSUME TypeOK, NEW s \in Spaces, Write(s)
  PROVE  /\ Records \subseteq Records'
         /\ \A r \in Records : LineOf(r)' = LineOf(r) /\ SeqOf(r)' = SeqOf(r)
         /\ \A q \in Records' \ Records, r \in Records : q[1] = r[1] => r[2] < q[2]
         /\ SortedInv => SortedInv'
<1> USE DEF TypeOK
<1>1. PICK line \in Line : /\ file' = [file EXCEPT ![s] = Append(@, line)]
                           /\ file[s] # <<>> => line.ts >= file[s][Len(file[s])].ts
  BY DEF Write
<1>2. file[s] \in Seq(Line) /\ Len(file[s]) \in Nat
  BY LenProperties
<1>3. /\ Len(file'[s]) = Len(file[s]) + 1
      /\ \A i \in 1..Len(file[s]) : file'[s][i] = file[s][i]
      /\ file'[s][Len(file[s]) + 1] = line
  BY <1>1, <1>2, AppendProperties
<1>4. \A t \in Spaces \ {s} : file'[t] = file[t]
  BY <1>1
<1>5. \A t \in Spaces : /\ Len(file[t]) \in Nat /\ Len(file'[t]) \in Nat
                        /\ Len(file[t]) <= Len(file'[t])
  <2>1. \A t \in Spaces : Len(file[t]) \in Nat
    BY LenProperties
  <2> QED BY <1>2, <1>3, <1>4, <2>1
<1>6. \A r \in Ids : r[1] \in Spaces /\ r[2] \in Nat \ {0}
  BY IngestAssumption DEF Ids
<1>7. Records \subseteq Records'
  <2> SUFFICES ASSUME NEW r \in Records PROVE r[2] <= Len(file'[r[1]])
    BY DEF Records
  <2>1. r[1] \in Spaces /\ r[2] \in Nat /\ r[2] <= Len(file[r[1]])
    BY <1>6 DEF Records
  <2> QED BY <2>1, <1>5
<1>8. \A r \in Records : file'[r[1]][r[2]] = file[r[1]][r[2]]
  <2> SUFFICES ASSUME NEW r \in Records PROVE file'[r[1]][r[2]] = file[r[1]][r[2]]
    OBVIOUS
  <2>1. r[1] \in Spaces /\ r[2] \in 1..Len(file[r[1]])
    BY <1>5, <1>6 DEF Records
  <2> QED BY <2>1, <1>3, <1>4
<1>9. \A r \in Records : LineOf(r)' = LineOf(r) /\ SeqOf(r)' = SeqOf(r)
  BY <1>8 DEF LineOf, SeqOf
<1>10. ASSUME NEW q \in Records' \ Records, NEW r \in Records, q[1] = r[1]
       PROVE  r[2] < q[2]
  <2>1. q \in Ids /\ q[2] > Len(file[q[1]])
    BY <1>5, <1>6, <1>10 DEF Records
  <2> QED BY <1>5, <1>6, <1>10, <2>1 DEF Records
<1>11. ASSUME SortedInv PROVE SortedInv'
  <2> SUFFICES ASSUME NEW t \in Spaces, NEW i \in 1..Len(file'[t]),
                      NEW j \in 1..Len(file'[t]), i < j
               PROVE  file'[t][i].ts <= file'[t][j].ts
    BY DEF SortedInv
  <2>0. i \in Nat \ {0} /\ j \in Nat \ {0} /\ i < j
    BY <1>5
  <2>1. CASE t # s \/ j <= Len(file[s])
    <3>1. /\ i \in 1..Len(file[t]) /\ j \in 1..Len(file[t])
          /\ file'[t][i] = file[t][i] /\ file'[t][j] = file[t][j]
      <4>1. CASE t # s
        BY <1>4, <4>1
      <4>2. CASE t = s /\ j <= Len(file[s])
        BY <1>2, <1>3, <2>0, <4>2
      <4> QED BY <2>1, <4>1, <4>2
    <3> QED BY <1>11, <3>1 DEF SortedInv
  <2>2. CASE t = s /\ j = Len(file[s]) + 1
    <3> DEFINE n == Len(file[s])
    <3>1. /\ i \in 1..n /\ n \in 1..n /\ file[s] # <<>>
          /\ file'[t][i] = file[s][i] /\ file'[t][j] = line
      BY <1>2, <1>3, <2>2
    <3>2. file[s][i].ts <= file[s][n].ts
      <4>1. CASE i = n
        <5>1. file[s][n] \in Line
          BY <1>2, <3>1, ElementOfSeq
        <5> QED BY <4>1, <5>1, IngestAssumption DEF Line
      <4>2. CASE i < n
        BY <1>11, <3>1, <4>2 DEF SortedInv
      <4> QED BY <3>1, <4>1, <4>2
    <3>3. /\ file[s][i] \in Line /\ file[s][n] \in Line
      BY <1>2, <3>1, ElementOfSeq
    <3> QED BY <1>1, <3>1, <3>2, <3>3, IngestAssumption DEF Line
  <2> QED BY <1>2, <1>3, <2>1, <2>2
<1> QED BY <1>7, <1>9, <1>10, <1>11

\* Every other step leaves the records alone.
LEMMA RecordsStay ==
  ASSUME file' = file
  PROVE  /\ Records' = Records
         /\ \A r : LineOf(r)' = LineOf(r) /\ SeqOf(r)' = SeqOf(r)
         /\ SortedInv => SortedInv'
BY DEF Records, LineOf, SeqOf, SortedInv

\* What a step may do that lands and takes up nothing: it ends a phase, or puts
\* back whole spaces.
Quiet ==
  /\ UNCHANGED <<file, facts, handoff, cursor, old>>
  /\ todo' \subseteq todo
  /\ pc' \in {"load", "land"} => pc' = pc
  /\ RollbackMayFail \/ \A r \in todo', q \in todo : q[1] = r[1] => q \in todo'

LEMMA StepKinds ==
  ASSUME TypeOK, RunInv, [Next]_vars
  PROVE  (\E s \in Spaces : Write(s)) \/ Read \/ Rebuild \/ Load \/ Land \/ Quiet
<1> USE DEF store
<1>1. CASE ReadCommand \/ Open
  BY <1>1 DEF ReadCommand, Open, Migrate, Quiet
<1>2. CASE LoadFails \/ LandEnds
  BY <1>2 DEF LoadFails, LandEnds, Quiet
<1>3. CASE LandFails
  <2>0. PICK r \in Oldest(todo) : \E later \in Dropped(r) : todo' = todo \ later
    BY <1>3 DEF LandFails
  <2>1. PICK later \in Dropped(r) : todo' = todo \ later
    BY <2>0
  <2>2. RollbackMayFail \/ later = SameSpace(r)
    BY <2>1 DEF Dropped, Deferred
  <2>3. \A q \in todo, t \in todo' : later = SameSpace(r) /\ q[1] = t[1] => q \in todo'
    BY <2>1 DEF SameSpace, RunInv, Records
  <2> QED BY <1>3, <2>1, <2>2, <2>3 DEF LandFails, Quiet
<1>4. CASE Derive \/ DeriveFails \/ Kill
  <2>1. pc' = "idle" /\ (todo' = todo \/ todo' = {})
    BY <1>4 DEF Derive, DeriveFails, Kill
  <2>2. UNCHANGED <<file, facts, handoff, cursor, old>>
    BY <1>4 DEF Derive, DeriveFails, Kill
  <2> QED BY <2>1, <2>2 DEF Quiet
<1>5. CASE UNCHANGED vars
  BY <1>5 DEF vars, Quiet
<1> QED BY <1>1, <1>2, <1>3, <1>4, <1>5 DEF Next, Run

\* One record lands, the oldest in hand, and takes the cursor of its space to
\* its own number or leaves it beyond that.
LEMMA LandStep ==
  ASSUME TypeOK, RunInv, Land
  PROVE  \E r \in todo \cap Records :
           /\ \A q \in todo \ {r} : Before(r, q)
           /\ facts' = [facts EXCEPT ![r] = @ + 1] /\ handoff' = RowWith(r)
           /\ cursor'[r[1]] \in {cursor[r[1]], SeqOf(r)}
           /\ cursor'[r[1]] >= SeqOf(r) /\ cursor'[r[1]] >= cursor[r[1]]
           /\ \A s \in Spaces \ {r[1]} : cursor'[s] = cursor[s]
           /\ todo' = todo \ {r}
           /\ pc = "land" /\ UNCHANGED <<file, old, pc>>
<1>1. PICK r \in Oldest(todo) : /\ facts' = Counted(r) /\ handoff' = RowWith(r)
                                /\ cursor' = Advanced(r[1], SeqOf(r)) /\ todo' = todo \ {r}
  BY DEF Land
<1>2. r \in todo \cap Records /\ \A q \in todo \ {r} : Before(r, q)
  BY <1>1 DEF Oldest, RunInv
<1>3. r[1] \in Spaces /\ SeqOf(r) \in Nat /\ cursor[r[1]] \in Int
  BY <1>2, RecordType DEF TypeOK, NotSeen
<1>4. cursor' = [cursor EXCEPT ![r[1]] = IF SeqOf(r) > @ THEN SeqOf(r) ELSE @]
  BY <1>1 DEF Advanced
<1>5. /\ cursor'[r[1]] \in {cursor[r[1]], SeqOf(r)}
      /\ cursor'[r[1]] >= SeqOf(r) /\ cursor'[r[1]] >= cursor[r[1]]
      /\ \A s \in Spaces \ {r[1]} : cursor'[s] = cursor[s]
  BY <1>3, <1>4 DEF TypeOK
<1> QED BY <1>1, <1>2, <1>5 DEF Land, Counted

-----------------------------------------------------------------------------
(* A record lands once.                                                    *)

LEMMA RunStep ==
  ASSUME TypeOK, RunInv, [Next]_vars
  PROVE  RunInv'
<1> USE DEF RunInv, store
<1>1. ASSUME NEW s \in Spaces, Write(s) PROVE RunInv'
  BY <1>1, WriteAppends DEF Write
<1>2. ASSUME file' = file, todo' \subseteq Records
      PROVE  todo' \subseteq Records'
  BY <1>2, RecordsStay
<1>3. CASE ReadCommand \/ Open
  BY <1>2, <1>3 DEF ReadCommand, Open, Migrate
<1>4. CASE Read
  <2>1. todo' \subseteq Records
    BY <1>4 DEF Read
  <2> QED BY <1>2, <1>4, <2>1 DEF Read
<1>5. CASE Rebuild
  BY <1>2, <1>5 DEF Rebuild
<1>6. CASE Load \/ LoadFails
  BY <1>2, <1>6 DEF Load, LoadFails
<1>7. CASE Land \/ LandFails
  <2>1. todo' \subseteq todo /\ pc' = "land" /\ UNCHANGED <<file, shape>> /\ pc = "land"
    BY <1>7 DEF Land, LandFails
  <2> QED BY <1>2, <2>1
<1>8. CASE LandEnds \/ Derive \/ DeriveFails \/ Kill
  <2>1. todo' = {} /\ pc' \in {"idle", "derive"} /\ pc # "idle" /\ UNCHANGED shape
    BY <1>8 DEF LandEnds, Derive, DeriveFails, Kill
  <2> QED BY <2>1
<1>9. CASE UNCHANGED vars
  BY <1>2, <1>9 DEF vars
<1> QED BY <1>1, <1>3, <1>4, <1>5, <1>6, <1>7, <1>8, <1>9 DEF Next, Run

LEMMA MigratedStep ==
  ASSUME TypeOK, RunInv, MigratedInv, [Next]_vars
  PROVE  MigratedInv'
<1> USE DEF MigratedInv, store
<1>1. ASSUME NEW s \in Spaces, Write(s) PROVE MigratedInv'
  BY <1>1 DEF Write
<1>2. CASE Read \/ Rebuild
  BY <1>2 DEF Read, Rebuild
<1>3. CASE Load
  <2>1. old # {} => todo = {}
    BY <1>3 DEF Load, RunInv, HasMarker
  <2> QED BY <1>3, <2>1 DEF Load
<1>4. CASE Land
  <2>1. todo # {}
    BY <1>4, LandStep
  <2> QED BY <1>4, <2>1 DEF Land
<1>5. CASE Quiet
  BY <1>5 DEF Quiet
<1> QED BY <1>1, <1>2, <1>3, <1>4, <1>5, StepKinds

LEMMA OnceStep ==
  ASSUME TypeOK, RunInv, MigratedInv, OnceInv, [Next]_vars
  PROVE  OnceInv'
<1> USE DEF OnceInv, store
<1>1. ASSUME NEW s \in Spaces, Write(s) PROVE OnceInv'
  <2>1. UNCHANGED <<facts, old, cursor, pc, todo>>
    BY <1>1 DEF Write
  <2>2. \A r \in Ids : facts'[r] > 0 => facts'[r] = 1 /\ r \in Records'
    BY <1>1, <2>1, WriteAppends
  <2>3. ASSUME old' = {}, NEW r \in Records', facts'[r] > 0 PROVE Skipped(r)'
    <3>1. r \in Records
      BY <2>1, <2>3 DEF Records
    <3> QED BY <1>1, <2>1, <2>3, <3>1, WriteAppends DEF Skipped
  <2> QED BY <2>1, <2>2, <2>3
<1>2. CASE Read
  BY <1>2, RecordsStay DEF Read, Skipped
<1>3. CASE Rebuild
  BY <1>3 DEF Rebuild, Records
<1>4. CASE Load
  <2>1. old # {} => todo = {}
    BY <1>4 DEF Load, RunInv, HasMarker
  <2>2. ASSUME NEW r \in todo' PROVE facts'[r] = 0
    <3>1. r \in todo /\ ~Skipped(r) /\ r \in Records
      BY <1>4, <2>2 DEF Load, RunInv
    <3>2. ~(facts[r] > 0) /\ facts[r] \in Nat
      BY <2>1, <3>1 DEF TypeOK
    <3> QED BY <1>4, <3>2 DEF Load
  <2> QED BY <1>4, <2>2, RecordsStay DEF Load, Skipped
<1>5. CASE Land
  <2>1. PICK r \in todo \cap Records :
          /\ facts' = [facts EXCEPT ![r] = @ + 1]
          /\ cursor'[r[1]] >= SeqOf(r) /\ cursor'[r[1]] >= cursor[r[1]]
          /\ \A s \in Spaces \ {r[1]} : cursor'[s] = cursor[s]
          /\ todo' = todo \ {r}
          /\ pc = "land" /\ UNCHANGED <<file, old, pc>>
    BY <1>5, LandStep
  <2>2. facts[r] = 0 /\ facts'[r] = 1 /\ \A q \in Ids \ {r} : facts'[q] = facts[q]
    BY <2>1 DEF TypeOK
  <2>3. ASSUME old = {}, NEW q \in Records, facts'[q] > 0 PROVE SeqOf(q) <= cursor'[q[1]]
    <3>1. q[1] \in Spaces /\ cursor[q[1]] \in Int /\ cursor'[q[1]] \in Int /\ SeqOf(q) \in Nat
      <4>1. cursor' \in [Spaces -> Nat \cup {NotSeen}]
        BY TypeStep DEF TypeOK
      <4> QED BY <4>1, RecordType DEF TypeOK, NotSeen
    <3>2. CASE q = r
      BY <2>1, <3>2
    <3>3. CASE q # r
      <4>1. SeqOf(q) <= cursor[q[1]]
        BY <2>2, <2>3, <3>3 DEF Skipped, Records
      <4>2. cursor[q[1]] <= cursor'[q[1]]
        BY <2>1, <3>1
      <4> QED BY <3>1, <4>1, <4>2
    <3> QED BY <3>2, <3>3
  <2>4. old' = {} => \A q \in Records' : facts'[q] > 0 => Skipped(q)'
    BY <2>1, <2>3, RecordsStay DEF Skipped
  <2>5. \A q \in Ids : facts'[q] > 0 => facts'[q] = 1 /\ q \in Records'
    BY <2>1, <2>2, RecordsStay
  <2>6. \A q \in todo' : facts'[q] = 0
    BY <2>1, <2>2 DEF TypeOK
  <2> QED BY <2>4, <2>5, <2>6
<1>6. CASE Quiet
  BY <1>6, RecordsStay DEF Quiet, Skipped
<1> QED BY <1>1, <1>2, <1>3, <1>4, <1>5, <1>6, StepKinds

OnceInd == TypeOK /\ RunInv /\ MigratedInv /\ OnceInv

LEMMA OnceInit == Init => OnceInd /\ SortedInv
<1> SUFFICES ASSUME Init PROVE OnceInd /\ SortedInv
  OBVIOUS
<1>1. TypeOK
  BY TypeInit
<1>2. RunInv
  BY DEF Init, RunInv
<1>3. MigratedInv
  BY DEF Init, MigratedInv
<1>4. OnceInv /\ SortedInv
  <2>1. CASE FreshStore
    <3>1. /\ \A r \in Ids : facts[r] = 0
          /\ \A s \in Spaces : file[s] = <<>>
          /\ pc = "idle"
      BY <2>1 DEF Init, FreshStore
    <3>2. \A r \in Ids : r[1] \in Spaces
      BY DEF Ids
    <3>3. OnceInv
      BY <3>1 DEF OnceInv, Records
    <3>4. SortedInv
      BY <3>1 DEF SortedInv
    <3> QED BY <3>3, <3>4
  <2>2. ASSUME NEW len \in [Spaces -> 0..2], NEW seen \in SUBSET Spaces, seen # {},
               \A r \in Spaces \X (1..2) : r[2] <= len[r[1]] => r \in Ids,
               OldStore(len, seen)
        PROVE  OnceInv /\ SortedInv
    <3>1. /\ \A s \in Spaces : file[s] = [i \in 1..len[s] |-> OldLine]
          /\ \A s \in seen : len[s] > 0
      BY <2>2 DEF OldStore
    <3>2. \A s \in Spaces : Len(file[s]) = len[s]
      BY <3>1, OldFile
    <3>3. \A r \in Ids : facts[r] > 0 => facts[r] = 1 /\ r[2] <= len[r[1]]
      BY <2>2 DEF OldStore
    <3>4. \A r \in Ids : r[2] <= len[r[1]] => r \in Records
      BY <3>2 DEF Records, Ids
    <3>5. old # {}
      <4>1. PICK s \in seen : s \in Spaces
        BY <2>2
      <4>2. len[s] \in 0..2 /\ len[s] > 0
        BY <3>1, <4>1
      <4>3. PICK r \in Spaces \X (1..2) : r[1] = s /\ r[2] = 1
        <5>1. <<s, 1>> \in Spaces \X (1..2)
          BY <4>1
        <5>2. <<s, 1>>[1] = s /\ <<s, 1>>[2] = 1
          OBVIOUS
        <5> QED BY <5>1, <5>2
      <4>4. r \in Ids /\ r[2] <= len[r[1]]
        BY <2>2, <4>2, <4>3
      <4> DEFINE Taken(q) == \E u \in seen : Owner[u] = Owner[q[1]] /\ q[2] <= len[u]
                 stored == {q \in Ids : q[2] <= len[q[1]] /\ (q[1] \in seen \/ ~Taken(q))}
      <4>5. old = {Owner[q[1]] : q \in stored}
        BY <2>2 DEF OldStore
      <4>6. r \in stored
        BY <4>1, <4>3, <4>4, <4>5
      <4> QED BY <4>5, <4>6
    <3>6. OnceInv
      BY <3>3, <3>4, <3>5 DEF OnceInv, Init
    <3>7. SortedInv
      <4>1. \A s \in Spaces : \A i \in 1..Len(file[s]) : file[s][i] = OldLine
        BY <3>1, <3>2
      <4>2. OldLine.ts <= OldLine.ts
        BY DEF OldLine
      <4> QED BY <4>1, <4>2 DEF SortedInv
    <3> QED BY <3>6, <3>7
  <2> QED BY <2>1, <2>2 DEF Init
<1> QED BY <1>1, <1>2, <1>3, <1>4 DEF OnceInd

LEMMA OnceIndStep == OnceInd /\ [Next]_vars => OnceInd'
  BY TypeStep, RunStep, MigratedStep, OnceStep DEF OnceInd

\* No record has two rows, whatever is killed, fails or does not parse, and
\* whatever an older release had landed under its cursor
\* (ledger_writer.py, the identity-keyed skip and _rebuild_migrated_project).
THEOREM NothingLandsTwice == Spec => []NoDuplicate
<1>1. OnceInd => NoDuplicate
  <2> SUFFICES ASSUME OnceInd, NEW r \in Records PROVE facts[r] <= 1
    BY DEF NoDuplicate
  <2>1. facts[r] \in Nat /\ (facts[r] > 0 => facts[r] = 1)
    BY DEF OnceInd, OnceInv, TypeOK, Records
  <2> QED BY <2>1
<1> QED BY <1>1, OnceInit, OnceIndStep, PTL DEF Spec

-----------------------------------------------------------------------------
(* The records of a space are taken in the order of their lines.           *)

LEMMA SortedStep ==
  ASSUME TypeOK, RunInv, SortedInv, [Next]_vars
  PROVE  SortedInv'
<1>1. ASSUME NEW s \in Spaces, Write(s) PROVE SortedInv'
  BY <1>1, WriteAppends
<1>2. CASE file' = file
  BY <1>2, RecordsStay
<1>3. CASE Read \/ Rebuild \/ Load \/ Land \/ Quiet
  BY <1>2, <1>3 DEF Read, Rebuild, Load, Land, Quiet
<1> QED BY <1>1, <1>3, StepKinds

\* The sort key never puts a later line of a space before an earlier one.
LEMMA SameSpaceOrder ==
  ASSUME TypeOK, SortedInv, NEW q \in Records, NEW r \in Records,
         q[1] = r[1], q[2] < r[2], LineOf(q).good, LineOf(r).good
  PROVE  ~Before(r, q)
<1> DEFINE k == Key(r)
           l == Key(q)
<1>1. /\ k[1] = LineOf(r).ts /\ k[2] = Owner[r[1]] /\ k[3] = r[2]
      /\ l[1] = LineOf(q).ts /\ l[2] = Owner[q[1]] /\ l[3] = q[2]
  BY DEF Key, SeqOf
<1>2. /\ r[1] \in Spaces /\ r[2] \in 1..Len(file[r[1]]) /\ q[2] \in 1..Len(file[r[1]])
      /\ LineOf(q).ts \in Nat /\ LineOf(r).ts \in Nat
  BY RecordType, IngestAssumption DEF Line
<1>3. l[1] <= k[1]
  BY <1>1, <1>2 DEF SortedInv, LineOf
<1>4. l[2] = k[2] /\ k[2] \in Nat
  BY <1>1, <1>2, IngestAssumption
<1>5. l[3] < k[3] /\ l[3] \in Nat /\ k[3] \in Nat
  BY <1>1, <1>2
<1> HIDE DEF k, l
<1>6. ASSUME NEW i \in 1..5, k[i] < l[i], \A j \in 1..(i - 1) : k[j] = l[j]
      PROVE  FALSE
  <2>1. i # 1
    BY <1>1, <1>2, <1>3, <1>6 DEF k, l
  <2>2. i # 2
    BY <1>4, <1>6
  <2>3. i # 3
    BY <1>5, <1>6
  <2>4. CASE i \in 4..5
    <3>1. k[3] = l[3]
      BY <1>6, <2>4
    <3> QED BY <1>5, <3>1
  <2> QED BY <2>1, <2>2, <2>3, <2>4
<1> QED BY <1>6 DEF Before, Less, k, l

\* Of the well-formed records of a space, the oldest in hand is the first.
LEMMA OldestLeads ==
  ASSUME TypeOK, SortedInv, NEW r \in Records, NEW q \in Records, Before(r, q),
         q # r, q[1] = r[1], LineOf(q).good, LineOf(r).good
  PROVE  r[2] < q[2]
<1>1. q[2] \in Nat /\ r[2] \in Nat /\ q \in Ids /\ r \in Ids
  BY RecordType
<1>2. ~(q[2] < r[2])
  BY SameSpaceOrder
<1>3. q[2] # r[2]
  BY <1>1 DEF Ids
<1> QED BY <1>1, <1>2, <1>3

-----------------------------------------------------------------------------
(* Nothing is left behind the cursor.                                      *)

LEMMA CursorStep ==
  ASSUME TypeOK, RunInv, CursorInv, [Next]_vars
  PROVE  CursorInv'
<1> USE DEF CursorInv, store
<1>0. \A s \in Spaces : Len(file[s]) \in Nat /\ cursor[s] \in Int
  BY LenProperties DEF TypeOK, NotSeen
<1>1. ASSUME NEW s \in Spaces, Write(s) PROVE CursorInv'
  <2>1. PICK line \in Line : file' = [file EXCEPT ![s] = Append(@, line)]
    BY <1>1 DEF Write
  <2>2. Len(file'[s]) = Len(file[s]) + 1
    BY <2>1, AppendProperties DEF TypeOK
  <2>3. \A t \in Spaces \ {s} : file'[t] = file[t]
    BY <2>1 DEF TypeOK
  <2>4. cursor' = cursor
    BY <1>1 DEF Write
  <2> QED BY <1>0, <2>2, <2>3, <2>4
<1>2. CASE Read \/ Load \/ Quiet
  BY <1>2 DEF Read, Load, Quiet
<1>3. CASE Rebuild
  BY <1>0, <1>3 DEF Rebuild, NotSeen
<1>4. CASE Land
  <2>1. PICK r \in Records :
          /\ cursor'[r[1]] \in {cursor[r[1]], SeqOf(r)}
          /\ \A s \in Spaces \ {r[1]} : cursor'[s] = cursor[s]
          /\ file' = file
    BY <1>4, LandStep
  <2>2. r[1] \in Spaces /\ SeqOf(r) <= Len(file[r[1]])
    BY <1>0, RecordType DEF SeqOf
  <2> QED BY <2>1, <2>2
<1> QED BY <1>1, <1>2, <1>3, <1>4, StepKinds

LEMMA QueueStep ==
  ASSUME TypeOK, RunInv, QueueInv, NoGap, ~RollbackMayFail, [Next]_vars
  PROVE  QueueInv'
<1> USE DEF store
<1>1. ASSUME NEW s \in Spaces, Write(s) PROVE QueueInv'
  <2>0. UNCHANGED <<facts, pc, todo>>
    BY <1>1 DEF Write
  <2> SUFFICES ASSUME NEW r \in todo, NEW q \in Records', q[1] = r[1], q[2] < r[2],
                      LineOf(q).good'
               PROVE  /\ pc = "load" => q \in todo
                      /\ pc = "land" => q \in todo \/ facts[q] > 0
    BY <2>0 DEF QueueInv
  <2>1. r \in Records
    BY DEF RunInv
  <2>2. r[2] \in Int /\ q[2] \in Int
    BY <2>1, IngestAssumption DEF Records, Ids
  <2>3. q \in Records
    BY <1>1, <2>1, <2>2, WriteAppends
  <2>4. LineOf(q).good
    BY <1>1, <2>3, WriteAppends
  <2> QED BY <2>3, <2>4 DEF QueueInv
<1>2. CASE Read
  <2>1. \A r \in todo', q \in Records' : q[1] = r[1] => q \in todo'
    BY <1>2, RecordsStay DEF Read
  <2> QED BY <1>2, <2>1 DEF Read, QueueInv
<1>3. CASE Rebuild
  BY <1>3, RecordsStay DEF Rebuild, QueueInv
<1>4. CASE Load
  <2>0. /\ pc = "load" /\ pc' = "land" /\ UNCHANGED <<file, facts>>
        /\ todo' = {r \in todo : ~Skipped(r)}
    BY <1>4 DEF Load
  <2> SUFFICES ASSUME NEW r \in todo', NEW q \in Records', q[1] = r[1], q[2] < r[2],
                      LineOf(q).good'
               PROVE  q \in todo' \/ facts[q] > 0
    BY <2>0 DEF QueueInv
  <2>1. q \in Records /\ LineOf(q).good
    BY <2>0, RecordsStay
  <2>2. q \in todo
    BY <2>0, <2>1 DEF QueueInv
  <2>3. Skipped(q) => facts[q] > 0
    BY <2>1 DEF NoGap, Skipped, SeqOf
  <2> QED BY <2>0, <2>2, <2>3
<1>5. CASE Land
  <2>1. PICK r \in todo \cap Records :
          /\ facts' = [facts EXCEPT ![r] = @ + 1]
          /\ todo' = todo \ {r} /\ pc = "land" /\ UNCHANGED <<file, pc>>
    BY <1>5, LandStep
  <2>2. facts'[r] > 0 /\ \A q \in Ids \ {r} : facts'[q] = facts[q]
    BY <2>1 DEF TypeOK
  <2> SUFFICES ASSUME NEW t \in todo', NEW q \in Records', q[1] = t[1], q[2] < t[2],
                      LineOf(q).good'
               PROVE  q \in todo' \/ facts'[q] > 0
    BY <2>1 DEF QueueInv
  <2>3. q \in Records /\ q \in Ids /\ LineOf(q).good
    BY <2>1, RecordsStay DEF Records
  <2>4. q \in todo \/ facts[q] > 0
    BY <2>1, <2>3 DEF QueueInv
  <2> QED BY <2>1, <2>2, <2>3, <2>4
<1>6. CASE Quiet
  <2>1. /\ UNCHANGED <<file, facts>> /\ todo' \subseteq todo
        /\ pc' \in {"load", "land"} => pc' = pc
        /\ \A r \in todo', q \in todo : q[1] = r[1] => q \in todo'
    BY <1>6 DEF Quiet
  <2> SUFFICES ASSUME NEW r \in todo', NEW q \in Records', q[1] = r[1], q[2] < r[2],
                      LineOf(q).good'
               PROVE  /\ pc' = "load" => q \in todo'
                      /\ pc' = "land" => q \in todo' \/ facts'[q] > 0
    BY DEF QueueInv
  <2>2. q \in Records /\ LineOf(q).good
    BY <2>1, RecordsStay
  <2> QED BY <2>1, <2>2 DEF QueueInv
<1> QED BY <1>1, <1>2, <1>3, <1>4, <1>5, <1>6, StepKinds

LEMMA NoGapStep ==
  ASSUME TypeOK, RunInv, SortedInv, CursorInv, QueueInv, NoGap, [Next]_vars
  PROVE  NoGap'
<1> USE DEF store
<1>0. \A r \in Ids : r[1] \in Spaces /\ r[2] \in Nat \ {0}
  BY IngestAssumption DEF Ids
<1>1. ASSUME NEW s \in Spaces, Write(s) PROVE NoGap'
  <2>0. UNCHANGED <<facts, cursor>>
    BY <1>1 DEF Write
  <2> SUFFICES ASSUME NEW q \in Records', LineOf(q).good', q[2] <= cursor[q[1]]
               PROVE  facts[q] > 0
    BY <2>0 DEF NoGap
  <2>1. q \in Ids
    BY DEF Records
  <2>2. /\ Len(file[q[1]]) \in Nat /\ cursor[q[1]] \in Int
        /\ cursor[q[1]] <= Len(file[q[1]])
    BY <1>0, <2>1, LenProperties DEF CursorInv, TypeOK, NotSeen
  <2>3. q \in Records
    BY <1>0, <2>1, <2>2 DEF Records
  <2>4. LineOf(q).good
    BY <1>1, <2>3, WriteAppends
  <2> QED BY <2>3, <2>4 DEF NoGap
<1>2. CASE Read \/ Load \/ Quiet
  <2>1. UNCHANGED <<file, facts, cursor>>
    BY <1>2 DEF Read, Load, Quiet
  <2> QED BY <2>1, RecordsStay DEF NoGap
<1>3. CASE Rebuild
  <2> SUFFICES ASSUME NEW q \in Records', q[2] <= cursor'[q[1]] PROVE FALSE
    BY DEF NoGap
  <2>1. q[2] \in Nat /\ cursor'[q[1]] = -1
    BY <1>0, <1>3 DEF Records, Rebuild, NotSeen
  <2> QED BY <2>1
<1>4. CASE Land
  <2>1. PICK r \in todo \cap Records :
          /\ \A q \in todo \ {r} : Before(r, q)
          /\ facts' = [facts EXCEPT ![r] = @ + 1]
          /\ cursor'[r[1]] \in {cursor[r[1]], SeqOf(r)}
          /\ \A s \in Spaces \ {r[1]} : cursor'[s] = cursor[s]
          /\ pc = "land" /\ file' = file
    BY <1>4, LandStep
  <2>2. facts'[r] > 0 /\ \A q \in Ids \ {r} : facts'[q] = facts[q]
    BY <2>1 DEF TypeOK, Records
  <2> SUFFICES ASSUME NEW q \in Records, LineOf(q).good, q[2] <= cursor'[q[1]], q # r
               PROVE  facts[q] > 0
    BY <2>1, <2>2, RecordsStay DEF NoGap, Records
  <2>3. q \in Ids /\ q[1] \in Spaces /\ q[2] \in Nat \ {0} /\ r \in Ids /\ r[2] \in Nat
    BY <1>0, <2>1 DEF Records
  <2>4. CASE q[2] <= cursor[q[1]]
    BY <2>4 DEF NoGap
  <2>5. CASE q[1] = r[1] /\ q[2] <= SeqOf(r)
    <3>1. LineOf(r).good /\ q[2] <= r[2]
      BY <2>3, <2>5 DEF SeqOf
    <3>2. q[2] # r[2]
      BY <2>3, <2>5 DEF Ids
    <3>3. q[2] < r[2]
      BY <2>3, <3>1, <3>2
    <3>4. q \in todo \/ facts[q] > 0
      BY <2>1, <2>5, <3>3 DEF QueueInv
    <3>5. q \notin todo
      BY <2>1, <2>5, <3>1, <3>3, SameSpaceOrder
    <3> QED BY <3>4, <3>5
  <2> QED BY <2>1, <2>3, <2>4, <2>5
<1> QED BY <1>1, <1>2, <1>3, <1>4, StepKinds

GapInd == OnceInd /\ SortedInv /\ CursorInv /\ QueueInv /\ NoGap

LEMMA GapInit == Init => GapInd
<1> SUFFICES ASSUME Init PROVE GapInd
  OBVIOUS
<1>1. OnceInd /\ SortedInv
  BY OnceInit
<1>2. todo = {} /\ \A s \in Spaces : cursor[s] = -1
  BY DEF Init, NotSeen
<1>3. \A s \in Spaces : Len(file[s]) \in Nat
  BY <1>1, LenProperties DEF OnceInd, TypeOK
<1>4. \A r \in Records : r[1] \in Spaces /\ r[2] \in Nat
  BY IngestAssumption DEF Records, Ids
<1> QED BY <1>1, <1>2, <1>3, <1>4 DEF GapInd, CursorInv, QueueInv, NoGap

\* No cursor stands beyond a well-formed record that has not landed: a record
\* that fails holds its whole space back, so the cursor cannot pass it
\* (ledger_writer.py, _CURSOR_UPSERT_SQL and the blocked spaces).  That the code
\* does only as long as ROLLBACK does not raise after a failed COMMIT.
THEOREM NothingIsPassedOver == ~RollbackMayFail => (Spec => []NoGap)
<1> SUFFICES ASSUME ~RollbackMayFail PROVE Spec => []NoGap
  OBVIOUS
<1>1. GapInd /\ [Next]_vars => GapInd'
  BY OnceIndStep, SortedStep, CursorStep, QueueStep, NoGapStep DEF GapInd, OnceInd
<1>2. GapInd => NoGap
  BY DEF GapInd
<1> QED BY <1>1, <1>2, GapInit, PTL DEF Spec

-----------------------------------------------------------------------------
(* The row of the hand-off.                                                *)

LEMMA AheadStep ==
  ASSUME TypeOK, RunInv, SortedInv, OnceInv, AheadInv, [Next]_vars
  PROVE  AheadInv'
<1> USE DEF store
<1>0. \A r \in Ids : r[1] \in Spaces /\ r[2] \in Nat
  BY IngestAssumption DEF Ids
<1>1. ASSUME NEW s \in Spaces, Write(s) PROVE AheadInv'
  <2>0. UNCHANGED <<facts, pc, todo>>
    BY <1>1 DEF Write
  <2> SUFFICES ASSUME pc = "land", NEW r \in todo, NEW q \in Records', q[1] = r[1],
                      LineOf(q).good', LineOf(r).good', facts[q] > 0
               PROVE  q[2] < r[2]
    BY <2>0 DEF AheadInv
  <2>1. r \in Records /\ q \in Records
    BY DEF RunInv, OnceInv, Records
  <2>2. LineOf(q).good /\ LineOf(r).good
    BY <1>1, <2>1, WriteAppends
  <2> QED BY <2>1, <2>2 DEF AheadInv
<1>2. CASE Read \/ Rebuild
  BY <1>2 DEF Read, Rebuild, AheadInv
<1>3. CASE Load
  <2>0. /\ pc = "load" /\ UNCHANGED <<file, facts>>
        /\ todo' = {r \in todo : ~Skipped(r)}
        /\ todo # {} => old = {}
    BY <1>3 DEF Load, HasMarker, RunInv
  <2> SUFFICES ASSUME NEW r \in todo', NEW q \in Records', q[1] = r[1],
                      LineOf(q).good', LineOf(r).good', facts[q] > 0
               PROVE  q[2] < r[2]
    BY <2>0 DEF AheadInv
  <2>1. r \in todo /\ ~Skipped(r) /\ r \in Records /\ q \in Records
    BY <2>0, RecordsStay DEF RunInv
  <2>2. LineOf(q).good /\ LineOf(r).good
    BY <2>0, RecordsStay
  <2>3. Skipped(q)
    BY <2>0, <2>1 DEF OnceInv
  <2>4. q[2] \in Nat /\ r[2] \in Nat /\ cursor[r[1]] \in Int
    BY <1>0, <2>1 DEF Records, TypeOK, NotSeen
  <2> QED BY <2>1, <2>2, <2>3, <2>4 DEF Skipped, SeqOf
<1>4. CASE Land
  <2>1. PICK r \in todo \cap Records :
          /\ \A q \in todo \ {r} : Before(r, q)
          /\ facts' = [facts EXCEPT ![r] = @ + 1]
          /\ todo' = todo \ {r} /\ pc = "land" /\ file' = file
    BY <1>4, LandStep
  <2>2. \A q \in Ids \ {r} : facts'[q] = facts[q]
    BY <2>1 DEF TypeOK
  <2> SUFFICES ASSUME NEW t \in todo', NEW q \in Records', q[1] = t[1],
                      LineOf(q).good', LineOf(t).good', facts'[q] > 0
               PROVE  q[2] < t[2]
    BY DEF AheadInv
  <2>3. /\ t \in todo \ {r} /\ t \in Records /\ q \in Records /\ q \in Ids
        /\ LineOf(q).good /\ LineOf(t).good
    BY <2>1, RecordsStay DEF RunInv, Records
  <2>4. CASE q = r
    BY <2>1, <2>3, <2>4, OldestLeads
  <2>5. CASE q # r
    BY <2>1, <2>2, <2>3, <2>5 DEF AheadInv
  <2> QED BY <2>4, <2>5
<1>5. CASE Quiet
  <2>1. /\ UNCHANGED <<file, facts>> /\ todo' \subseteq todo
        /\ pc' = "land" => pc = "land"
    BY <1>5 DEF Quiet
  <2> QED BY <2>1, RecordsStay DEF AheadInv
<1> QED BY <1>1, <1>2, <1>3, <1>4, <1>5, StepKinds

\* The row a record leaves: set from it if it is a hand-off or an answer.
LEMMA RowOf ==
  ASSUME TypeOK, NEW r \in Records
  PROVE  /\ RowWith(r).opened = IF LineOf(r).kind = "handoff" THEN r ELSE handoff.opened
         /\ RowWith(r).acked = IF LineOf(r).kind = "ack" THEN r ELSE handoff.acked
<1>1. LineOf(r).kind \in {"event", "handoff", "ack"}
  BY RecordType DEF Line, Kind
<1>2. CASE LineOf(r).kind = "handoff"
  BY <1>2 DEF RowWith, Pair
<1>3. CASE LineOf(r).kind = "ack"
  BY <1>3 DEF RowWith, Pair
<1>4. CASE LineOf(r).kind = "event"
  BY <1>4 DEF RowWith, Pair
<1> QED BY <1>1, <1>2, <1>3, <1>4

LEMMA RowStep ==
  ASSUME TypeOK, RunInv, RowInv, [Next]_vars
  PROVE  RowInv'
<1> USE DEF store
<1>1. ASSUME NEW s \in Spaces, Write(s) PROVE RowInv'
  <2>1. handoff' = handoff
    BY <1>1 DEF Write
  <2> QED BY <1>1, <2>1, WriteAppends DEF RowInv
<1>2. CASE Read \/ Load \/ Quiet
  <2>1. UNCHANGED <<file, handoff>>
    BY <1>2 DEF Read, Load, Quiet
  <2> QED BY <2>1, RecordsStay DEF RowInv
<1>3. CASE Rebuild
  BY <1>3 DEF Rebuild, Pair, RowInv
<1>4. CASE Land
  <2>1. PICK r \in Records : handoff' = RowWith(r) /\ file' = file
    BY <1>4, LandStep
  <2> QED BY <2>1, RowOf, RecordsStay DEF RowInv
<1> QED BY <1>1, <1>2, <1>3, <1>4, StepKinds

LEMMA RowIsCurrentStep ==
  ASSUME TypeOK, RunInv, OnceInv, AheadInv, RowInv, RowIsCurrent, [Next]_vars
  PROVE  RowIsCurrent'
<1> USE DEF store
<1>0. \A f \in {"opened", "acked"} : handoff[f] # None => handoff[f] \in Records
  BY DEF RowInv
<1>1. ASSUME NEW s \in Spaces, Write(s) PROVE RowIsCurrent'
  <2>1. UNCHANGED <<facts, handoff>>
    BY <1>1 DEF Write
  <2>2. Landed' = Landed
    BY <1>1, <2>1, WriteAppends DEF Landed, OnceInv, Records
  <2>3. \A r \in Records : LineOf(r)' = LineOf(r)
    BY <1>1, WriteAppends
  <2> QED BY <1>0, <2>1, <2>2, <2>3 DEF RowIsCurrent, SameSpace, Landed
<1>2. CASE Read \/ Load \/ Quiet
  <2>1. UNCHANGED <<file, facts, handoff>>
    BY <1>2 DEF Read, Load, Quiet
  <2> QED BY <2>1, RecordsStay DEF RowIsCurrent, Landed, SameSpace
<1>3. CASE Rebuild
  BY <1>3 DEF Rebuild, Pair, RowIsCurrent
<1>4. CASE Land
  <2>1. PICK r \in todo \cap Records :
          /\ facts' = [facts EXCEPT ![r] = @ + 1] /\ handoff' = RowWith(r)
          /\ pc = "land" /\ file' = file
    BY <1>4, LandStep
  <2>2. \A q \in Ids \ {r} : facts'[q] = facts[q]
    BY <2>1 DEF TypeOK
  <2> SUFFICES ASSUME NEW f \in {"opened", "acked"}, RowWith(r)[f] # None,
                      NEW q \in Landed' \cap SameSpace(RowWith(r)[f]),
                      LineOf(q).good, LineOf(RowWith(r)[f]).good,
                      LineOf(q).kind = LineOf(RowWith(r)[f]).kind
               PROVE  q[2] <= RowWith(r)[f][2]
    BY <2>1, RecordsStay DEF RowIsCurrent, SameSpace
  <2>3. q \in Records /\ q[2] \in Nat /\ facts'[q] > 0 /\ q[1] = RowWith(r)[f][1]
    BY <2>1, RecordsStay, RecordType DEF Landed, SameSpace
  <2>4. q # r => q \in Landed
    BY <2>2, <2>3 DEF Landed, Records
  <2>5. CASE RowWith(r)[f] = r
    <3>1. q = r \/ q[2] < r[2]
      BY <2>1, <2>3, <2>4, <2>5 DEF AheadInv, Landed
    <3>2. r[2] \in Nat
      BY <2>1, RecordType
    <3> QED BY <2>3, <2>5, <3>1, <3>2
  <2>6. CASE RowWith(r)[f] # r
    <3>1. /\ RowWith(r)[f] = handoff[f] /\ handoff[f] # None
          /\ f = "opened" => LineOf(r).kind # "handoff" /\ LineOf(handoff[f]).kind = "handoff"
          /\ f = "acked" => LineOf(r).kind # "ack" /\ LineOf(handoff[f]).kind = "ack"
      BY <2>1, <2>6, RowOf DEF RowInv
    <3>2. q \in Landed \cap SameSpace(handoff[f])
      BY <2>4, <3>1
    <3> QED BY <3>1, <3>2 DEF RowIsCurrent
  <2> QED BY <2>5, <2>6
<1> QED BY <1>1, <1>2, <1>3, <1>4, StepKinds

RowInd == OnceInd /\ SortedInv /\ AheadInv /\ RowInv /\ RowIsCurrent

LEMMA RowInit == Init => RowInd
<1> SUFFICES ASSUME Init PROVE RowInd
  OBVIOUS
<1>1. OnceInd /\ SortedInv
  BY OnceInit
<1>2. todo = {} /\ handoff.opened = None /\ handoff.acked = None
  BY DEF Init, Pair
<1> QED BY <1>1, <1>2 DEF RowInd, AheadInv, RowInv, RowIsCurrent

\* A row that shows the opening or an answer of one writer never goes back to an
\* earlier one of the same writer, although the rows are written without a look
\* at what they hold (ledger_writer.py, _apply_handoff and _apply_ack).
THEOREM RowNeverGoesBack == Spec => []RowIsCurrent
<1>1. RowInd /\ [Next]_vars => RowInd'
  BY OnceIndStep, SortedStep, AheadStep, RowStep, RowIsCurrentStep DEF RowInd, OnceInd
<1>2. RowInd => RowIsCurrent
  BY DEF RowInd
<1> QED BY <1>1, <1>2, RowInit, PTL DEF Spec

-----------------------------------------------------------------------------
(* The store implements the landing of every record once, and in order.    *)

Formed == {r \in Records : LineOf(r).good}

LEMMA LandingInit == Init => Landing!Init
<1> SUFFICES ASSUME Init PROVE Landing!Init
  OBVIOUS
<1>1. TypeOK /\ OnceInv
  BY OnceInit DEF OnceInd
<1>2. \A r \in Ids : facts[r] \in {0, 1}
  BY <1>1 DEF TypeOK, OnceInv
<1>3. ASSUME old = {}, NEW r \in Ids PROVE facts[r] = 0
  <2>1. ASSUME facts[r] > 0 PROVE FALSE
    <3>1. r \in Records /\ SeqOf(r) <= cursor[r[1]]
      BY <1>1, <1>3, <2>1 DEF OnceInv, Skipped
    <3>2. SeqOf(r) \in Nat /\ cursor[r[1]] = -1
      BY <1>1, <3>1, RecordType DEF Init, NotSeen
    <3> QED BY <3>1, <3>2
  <2> QED BY <1>2, <2>1
<1>4. facts \in [Ids -> {0, 1}]
  BY <1>1, <1>2 DEF TypeOK
<1>5. Formed \in SUBSET Ids
  BY DEF Formed, Records
<1>6. old = {} => facts = [r \in Ids |-> 0]
  BY <1>3, <1>4
<1> QED BY <1>4, <1>5, <1>6 DEF Landing!Init, Landing!Empty, Formed

\* A write adds one record, or one beyond those the model counts.
LEMMA WriteOne ==
  ASSUME TypeOK, NEW s \in Spaces, Write(s), NEW q \in Records' \ Records,
         NEW r \in Records' \ Records
  PROVE  q = r
<1>1. PICK line \in Line : file' = [file EXCEPT ![s] = Append(@, line)]
  BY DEF Write
<1>2. Len(file'[s]) = Len(file[s]) + 1 /\ Len(file[s]) \in Nat
  BY <1>1, AppendProperties, LenProperties DEF TypeOK
<1>3. \A t \in Spaces \ {s} : file'[t] = file[t]
  BY <1>1 DEF TypeOK
<1>4. \A t \in Ids : t[1] \in Spaces /\ t[2] \in Nat
  BY IngestAssumption DEF Ids
<1>5. ASSUME NEW t \in Records' \ Records
      PROVE  t \in Ids /\ t[1] = s /\ t[2] = Len(file[s]) + 1
  <2>1. t \in Ids /\ t[2] <= Len(file'[t[1]]) /\ ~(t[2] <= Len(file[t[1]]))
    BY <1>5 DEF Records
  <2>2. t[1] = s
    BY <1>3, <1>4, <2>1
  <2> QED BY <1>2, <1>4, <2>1, <2>2
<1> QED BY <1>5 DEF Ids

LEMMA LandingStep ==
  ASSUME TypeOK, RunInv, SortedInv, MigratedInv, OnceInv, QueueInv, [Next]_vars
  PROVE  [Landing!Next]_(Landing!vars)
<1> USE DEF Landing!vars, store
<1>1. ASSUME NEW s \in Spaces, Write(s) PROVE [Landing!Next]_(Landing!vars)
  <2>0. UNCHANGED <<facts, old>>
    BY <1>1 DEF Write
  <2>1. /\ Records \subseteq Records'
        /\ \A r \in Records : LineOf(r)' = LineOf(r)
        /\ \A q \in Records' \ Records, r \in Records : q[1] = r[1] => r[2] < q[2]
    BY <1>1, WriteAppends
  <2>2. CASE Formed' \subseteq Records
    <3>1. Formed' = Formed
      BY <2>1, <2>2 DEF Formed
    <3> QED BY <2>0, <3>1 DEF Formed
  <2>3. ASSUME NEW r \in Formed', r \notin Records PROVE Landing!Write(r) /\ r \in Ids
    <3>1. r \in Records' \ Records /\ r \in Ids
      BY <2>3 DEF Formed, Records
    <3>2. Formed' = Formed \cup {r}
      BY <1>1, <2>1, <2>3, <3>1, WriteOne DEF Formed
    <3>3. facts[r] = 0
      BY <3>1 DEF TypeOK, OnceInv
    <3>4. r \notin Formed /\ \A q \in Formed : q[1] = r[1] => q[2] < r[2]
      BY <2>1, <3>1 DEF Formed
    <3> QED BY <2>0, <3>1, <3>2, <3>3, <3>4 DEF Landing!Write, Landing!Earlier, Formed
  <2> QED BY <2>2, <2>3 DEF Landing!Next
<1>2. ASSUME UNCHANGED <<file, facts, old>> PROVE UNCHANGED Landing!vars
  BY <1>2, RecordsStay
<1>3. CASE Read \/ Load \/ Quiet
  BY <1>2, <1>3 DEF Read, Load, Quiet
<1>4. CASE Rebuild
  <2>1. /\ old # {} /\ old' = {} /\ facts' = [r \in Ids |-> 0]
        /\ file' = file
    BY <1>4 DEF Rebuild, HasMarker
  <2>2. Landing!Rebuild
    BY <2>1, RecordsStay DEF Landing!Rebuild, Landing!Empty
  <2> QED BY <2>2 DEF Landing!Next
<1>5. CASE Land
  <2>1. PICK r \in todo \cap Records :
          /\ \A q \in todo \ {r} : Before(r, q)
          /\ facts' = [facts EXCEPT ![r] = @ + 1]
          /\ pc = "land" /\ UNCHANGED <<file, old>>
    BY <1>5, LandStep
  <2>2. r \in Ids /\ old = {} /\ facts[r] = 0
    BY <2>1 DEF Records, MigratedInv, OnceInv
  <2>3. facts' = [facts EXCEPT ![r] = 1]
    BY <2>1, <2>2
  <2>4. ASSUME r \in Formed, NEW q \in Formed, q[1] = r[1], q[2] < r[2]
        PROVE  facts[q] > 0
    <3>1. q \in todo \/ facts[q] > 0
      BY <2>1, <2>4 DEF QueueInv, Formed
    <3>2. r[2] \in Nat /\ q[2] \in Nat
      BY <2>1, <2>4, RecordType DEF Formed
    <3>3. q \notin todo
      BY <2>1, <2>4, <3>2, SameSpaceOrder DEF Formed
    <3> QED BY <3>1, <3>3
  <2>5. Landing!Land(r)
    BY <2>1, <2>2, <2>3, <2>4, RecordsStay DEF Landing!Land, Landing!Earlier, Formed
  <2> QED BY <2>2, <2>5 DEF Landing!Next
<1> QED BY <1>1, <1>3, <1>4, <1>5, StepKinds

\* Runs that are killed and fail, files that are missing and come late, and the
\* store of an older release, implement a store in which each record lands once
\* and after those before it in its space, as long as ROLLBACK does not raise
\* (ledger_writer.py, ingest_ledger).
THEOREM IngestLandsInOrder == ~RollbackMayFail => (Spec => LandsInOrder)
<1> SUFFICES ASSUME ~RollbackMayFail PROVE Spec => LandsInOrder
  OBVIOUS
<1>1. GapInd /\ [Next]_vars => GapInd'
  BY OnceIndStep, SortedStep, CursorStep, QueueStep, NoGapStep DEF GapInd, OnceInd
<1>2. GapInd /\ [Next]_vars => [Landing!Next]_(Landing!vars)
  BY LandingStep DEF GapInd, OnceInd
<1> QED BY <1>1, <1>2, GapInit, LandingInit, PTL DEF Spec, LandsInOrder, Landing!Spec

\* At every moment, a run in progress or killed, what has landed of a space is a
\* beginning of its well-formed records, unless the store still awaits the
\* rebuild (ledger_writer.py, ingest_ledger: "resumes without gaps").
THEOREM LandedIsABeginning ==
  ~RollbackMayFail => (Spec => []Landing!LandedFromTheStart)
<1> SUFFICES ASSUME ~RollbackMayFail PROVE Spec => []Landing!LandedFromTheStart
  OBVIOUS
<1> DEFINE Beginning ==
      old = {} => \A q, r \in Formed : q[1] = r[1] /\ q[2] < r[2] /\ facts[r] > 0 => facts[q] > 0
<1>1. Landing!LandedFromTheStart <=> Beginning
  BY DEF Landing!LandedFromTheStart, Landing!Earlier, Formed
<1>2. Landing!Init => Beginning
  BY DEF Landing!Init, Landing!Empty, Formed, Records
<1>3. TypeOK /\ Beginning /\ [Landing!Next]_(Landing!vars) => Beginning'
  <2> SUFFICES ASSUME TypeOK, Beginning, [Landing!Next]_(Landing!vars) PROVE Beginning'
    OBVIOUS
  <2>0. \A r \in Formed \cup Formed' : r \in Ids /\ r[2] \in Nat
    BY IngestAssumption DEF Formed, Records, Ids
  <2>1. ASSUME NEW r \in Ids, Landing!Write(r) PROVE Beginning'
    <3>1. /\ Formed' = Formed \cup {r} /\ UNCHANGED facts /\ (old' = {} => old = {})
          /\ facts[r] = 0
          /\ \A q \in Formed : q[1] = r[1] => q[2] < r[2]
      BY <2>1 DEF Landing!Write, Landing!Earlier, Formed
    <3> QED BY <2>0, <3>1
  <2>2. ASSUME NEW r \in Ids, Landing!Land(r) PROVE Beginning'
    <3>1. /\ Formed' = Formed /\ old = {}
          /\ facts' = [facts EXCEPT ![r] = 1]
          /\ r \in Formed => \A q \in Formed : q[1] = r[1] /\ q[2] < r[2] => facts[q] > 0
      BY <2>2 DEF Landing!Land, Landing!Earlier, Formed
    <3>2. \A q \in Ids : facts'[q] > 0 => q = r \/ facts[q] > 0
      BY <3>1 DEF TypeOK
    <3>3. \A q \in Formed : facts[q] > 0 => facts'[q] > 0
      BY <2>0, <3>1 DEF TypeOK
    <3> QED BY <2>0, <3>1, <3>2, <3>3
  <2>3. CASE Landing!Rebuild
    BY <2>0, <2>3 DEF Landing!Rebuild, Landing!Empty, Formed
  <2>4. CASE UNCHANGED Landing!vars
    BY <2>4 DEF Landing!vars, Formed
  <2> QED BY <2>1, <2>2, <2>3, <2>4 DEF Landing!Next
<1> QED BY <1>1, <1>2, <1>3, IngestTypeCorrect, IngestLandsInOrder, PTL DEF LandsInOrder, Landing!Spec

=============================================================================
