--------------------------- MODULE TeamInboxProofs ---------------------------
(***************************************************************************)
(* The tick of the watcher forgets nothing it has passed over and tells    *)
(* every news once, for every number of writers, askers, entries and       *)
(* faults.                                                                 *)
(***************************************************************************)
EXTENDS TeamInbox, TLAPS

\* Where the entries of the watcher's tick can be.
Shape ==
  /\ stage \in {"save", "read", "write"} \/ hand = {}
  /\ Kept \cup hand \cup existing \subseteq ReadAll(Mine)
  /\ existing \subseteq Kept
  /\ stage = "write" => inbox \subseteq existing
  /\ \A p \in Askers : text[p] \subseteq Kept

SeenInv ==
  \A w \in Writers :
    /\ cursor.seen[w] <= Shown(Mine)[w]
    /\ stage = "save" => update.seen[w] <= Shown(Mine)[w]

\* Every entry for me up to `seen` is told by one of the entries in K.
Passed(seen, K) ==
  \A id \in ReadAll(Mine) :
    At(id).to = "me" /\ id[2] <= seen[id[1]] => \E k \in K : SameNews(At(k), At(id))

\* Every signature in sigs is that of one of the entries in K.
Backed(sigs, K) == \A s \in sigs : \E k \in K : Signature(At(k)) = s

ForgetInv ==
  /\ Passed(cursor.seen, Kept \cup Saved) /\ Backed(cursor.sigs, Kept \cup Saved)
  /\ stage = "save" =>
       Passed(update.seen, Kept \cup hand) /\ Backed(update.sigs, Kept \cup hand)

OnceInv ==
  /\ ToldOnce
  /\ ~torn => \A k \in Kept \cup Saved : Signature(At(k)) \in cursor.sigs
  /\ ~torn /\ stage = "save" =>
       cursor.sigs \subseteq update.sigs /\ \A k \in hand : Signature(At(k)) \in update.sigs

-----------------------------------------------------------------------------
\* Reading the ledger.

LEMMA ReadAllIs ==
  ASSUME TypeOK, NEW own
  PROVE  ReadAll(own) = {id \in Id : id[2] <= Shown(own)[id[1]]}
<1>1. \A w \in Writers : Shown(own)[w] \in Nat
  BY DEF Shown, TypeOK
<1>2. QED
  BY <1>1 DEF ReadAll, Id

LEMMA ShownTyped ==
  ASSUME TypeOK
  PROVE  /\ Shown(Mine) \in [Writers -> Nat]
         /\ \A w \in Writers : Shown(Mine)[w] <= Len(file[w])
BY DEF Shown, TypeOK

LEMMA AtTyped ==
  ASSUME TypeOK, NEW id \in ReadAll(Mine)
  PROVE  /\ id[1] \in Writers /\ id[2] \in 1..Len(file[id[1]])
         /\ At(id) \in Entry /\ id = <<id[1], id[2]>>
<1>1. id \in Id /\ id[2] <= Shown(Mine)[id[1]]
  BY ReadAllIs
<1>2. id[1] \in Writers /\ id[2] \in Nat \ {0} /\ id = <<id[1], id[2]>>
  BY <1>1 DEF Id
<1>3. id[2] \in 1..Len(file[id[1]])
  BY <1>1, <1>2, ShownTyped DEF TypeOK
<1>4. file[id[1]] \in Seq(Entry)
  BY <1>2 DEF TypeOK
<1>5. At(id) \in Entry
  BY <1>3, <1>4 DEF At
<1>6. QED
  BY <1>2, <1>3, <1>5

LEMMA SignatureTyped ==
  ASSUME InboxAssumption, NEW e \in Entry
  PROVE  Signature(e) \in Signatures
BY DEF Entry, Signature, Signatures, Thing, InboxAssumption

LEMMA NoteTyped ==
  ASSUME InboxAssumption, NEW e \in Events
  PROVE  NoteOf(e) \in Entry
BY DEF NoteOf, Entry, InboxAssumption, Kind, State, Priority


-----------------------------------------------------------------------------
(* Types.                                                                  *)

LEMMA AppendType ==
  ASSUME TypeOK, NEW w \in Writers, NEW e \in Entry, AppendTo(w, e)
  PROVE  /\ file' \in [Writers -> Seq(Entry)]
         /\ \A v \in Writers : Len(file[v]) <= Len(file'[v])
         /\ \A v \in Writers : \A i \in 1..Len(file[v]) : file'[v][i] = file[v][i]
<1>1. file[w] \in Seq(Entry) /\ file' = [file EXCEPT ![w] = Append(file[w], e)]
  BY DEF TypeOK, AppendTo
<1>2. /\ Append(file[w], e) \in Seq(Entry) /\ Len(Append(file[w], e)) = Len(file[w]) + 1
      /\ \A i \in 1..Len(file[w]) : Append(file[w], e)[i] = file[w][i]
  BY <1>1
<1>3. file'[w] = Append(file[w], e) /\ \A v \in Writers : v # w => file'[v] = file[v]
  BY <1>1 DEF TypeOK
<1>4. \A v \in Writers : file[v] \in Seq(Entry)
  BY DEF TypeOK
<1>5. file' \in [Writers -> Seq(Entry)]
  BY <1>1, <1>2 DEF TypeOK
<1>6. \A v \in Writers : Len(file[v]) <= Len(file'[v])
  <2> TAKE v \in Writers
  <2>1. Len(file[v]) \in Nat
    BY <1>4
  <2>2. CASE v = w
    BY <2>1, <2>2, <1>2, <1>3
  <2>3. CASE v # w
    BY <2>1, <2>3, <1>3
  <2> QED BY <2>2, <2>3
<1>7. \A v \in Writers : \A i \in 1..Len(file[v]) : file'[v][i] = file[v][i]
  BY <1>2, <1>3
<1>8. QED
  BY <1>5, <1>6, <1>7

\* The ledger of a clone only grows.
LEMMA LedgerGrows ==
  ASSUME InboxAssumption, TypeOK, [Next]_vars
  PROVE  /\ file' \in [Writers -> Seq(Entry)] /\ have' \in [Writers -> Nat]
         /\ \A v \in Writers : /\ Len(file[v]) <= Len(file'[v]) /\ have'[v] <= Len(file'[v])
                               /\ have[v] <= have'[v]
         /\ \A v \in Writers : \A i \in 1..Len(file[v]) : file'[v][i] = file[v][i]
<1>1. \A v \in Writers : file[v] \in Seq(Entry) /\ Len(file[v]) \in Nat /\ have[v] \in Nat
                         /\ have[v] <= Len(file[v])
  BY DEF TypeOK
<1>2. CASE \E w \in Writers, e \in Entry : AppendTo(w, e) /\ have' = have
  <2>1. PICK w \in Writers, e \in Entry : AppendTo(w, e) /\ have' = have
    BY <1>2
  <2>2. /\ file' \in [Writers -> Seq(Entry)]
        /\ \A v \in Writers : Len(file[v]) <= Len(file'[v])
        /\ \A v \in Writers : \A i \in 1..Len(file[v]) : file'[v][i] = file[v][i]
    BY <2>1, AppendType
  <2>3. \A v \in Writers : Len(file'[v]) \in Nat
    BY <2>2
  <2>4. \A v \in Writers : have'[v] <= Len(file'[v]) /\ have[v] <= have'[v]
    BY <1>1, <2>1, <2>2, <2>3
  <2>5. have' \in [Writers -> Nat]
    BY <2>1 DEF TypeOK
  <2>6. QED
    BY <2>2, <2>4, <2>5
<1>3. CASE file' = file /\ \E S : have' = [w \in Writers |-> IF w \in S THEN Len(file[w])
                                                            ELSE have[w]]
  BY <1>1, <1>3 DEF TypeOK
<1>4. CASE UNCHANGED <<file, have>>
  BY <1>1, <1>4 DEF TypeOK
<1>5. CASE \E w \in Theirs, e \in Raises : Raise(w, e)
  BY <1>5, <1>2 DEF Raise, Writers, InboxAssumption
<1>6. CASE \E w \in Mine, e \in Acks : Raise(w, e)
  BY <1>6, <1>2 DEF Raise, Writers, InboxAssumption
<1>7. CASE \E w \in Mine, e \in Events : Notice(w, e)
  <2>1. PICK w \in Mine, e \in Events : Notice(w, e)
    BY <1>7
  <2>2. have' = have /\ (AppendTo(w, NoteOf(e)) \/ file' = file)
    BY <2>1 DEF Notice
  <2>3. w \in Writers /\ NoteOf(e) \in Entry
    BY NoteTyped DEF Writers
  <2>4. QED
    BY <2>2, <2>3, <1>2, <1>4
<1>8. CASE Pull
  BY <1>8, <1>3 DEF Pull
<1>9. CASE Publish
  BY <1>9, <1>3 DEF Publish
<1>10. CASE \/ PullFails \/ Classify \/ SaveCursor \/ ReadInbox \/ WriteInbox \/ SaveNoticed
            \/ PublishFails \/ WatcherKilled \/ (\E e \in Events : Happen(e))
            \/ \E p \in Askers : Asker(p) \/ KillAsker(p)
  BY <1>10, <1>4 DEF PullFails, Classify, SaveCursor, ReadInbox, WriteInbox, SaveNoticed,
     PublishFails, WatcherKilled, Restart, Kill, KillSaving, KillWriting, KillNoticing, Happen,
     Asker, ReadText, PrintText, ClearInbox, KillAsker, ledgerVars
<1>11. CASE UNCHANGED vars
  BY <1>11, <1>4 DEF vars
<1>12. QED
  BY <1>5, <1>6, <1>7, <1>8, <1>9, <1>10, <1>11 DEF Next, Watcher

LEMMA PicksAre ==
  ASSUME NEW ids, NEW items \in Picks(ids)
  PROVE  /\ items \subseteq ids
         /\ \A id \in ids : \E k \in items : Signature(At(k)) = Signature(At(id))
         /\ \A a, b \in items : Signature(At(a)) = Signature(At(b)) => a = b
BY DEF Picks, SignaturesOf

\* What a tick takes in hand, and the cursor it makes of it.
LEMMA ClassifyIs ==
  ASSUME InboxAssumption, TypeOK, Classify
  PROVE  /\ hand' \subseteq ReadAll(Mine) /\ hand' \subseteq Id
         /\ \A k \in hand' : IsNew(k)
         /\ \A id \in ReadAll(Mine) :
              IsNew(id) => \E k \in hand' : Signature(At(k)) = Signature(At(id))
         /\ \A a, b \in hand' : Signature(At(a)) = Signature(At(b)) => a = b
         /\ update' \in Cursor /\ update'.seen = Shown(Mine)
         /\ cursor.sigs \subseteq update'.sigs
         /\ \A k \in hand' : Signature(At(k)) \in update'.sigs
         /\ \A s \in update'.sigs :
              s \in cursor.sigs \/ \E k \in hand' : Signature(At(k)) = s
<1> DEFINE new == {id \in ReadAll(Mine) : IsNew(id)}
<1>1. hand' \in Picks(new)
      /\ update' = [seen |-> Shown(Mine), sigs |-> cursor.sigs \cup SignaturesOf(new)]
  BY DEF Classify, Highest
<1>2. /\ hand' \subseteq new
      /\ \A id \in new : \E k \in hand' : Signature(At(k)) = Signature(At(id))
      /\ \A a, b \in hand' : Signature(At(a)) = Signature(At(b)) => a = b
  BY <1>1, PicksAre
<1>3. new \subseteq ReadAll(Mine) /\ ReadAll(Mine) \subseteq Id
  BY ReadAllIs
<1>4. SignaturesOf(new) \subseteq Signatures
  BY <1>3, AtTyped, SignatureTyped DEF SignaturesOf
<1>5. update' \in Cursor
  BY <1>1, <1>4, ShownTyped DEF Cursor, TypeOK
<1>6. update'.seen = Shown(Mine) /\ update'.sigs = cursor.sigs \cup SignaturesOf(new)
  BY <1>1
<1>7. \A k \in hand' : Signature(At(k)) \in SignaturesOf(new)
  BY <1>2 DEF SignaturesOf
<1>8. \A s \in SignaturesOf(new) : \E k \in hand' : Signature(At(k)) = s
  BY <1>2 DEF SignaturesOf
<1>9. QED
  BY <1>2, <1>3, <1>5, <1>6, <1>7, <1>8

LEMMA EmptyCursorTyped == EmptyCursor \in Cursor /\ \A w \in Writers : EmptyCursor.seen[w] = 0
BY DEF EmptyCursor, Cursor

\* The cursor and what the tick has read.
LEMMA CursorType ==
  ASSUME InboxAssumption, TypeOK, [Next]_vars
  PROVE  /\ cursor' \in Cursor /\ update' \in Cursor
         /\ \A w \in Writers : cursor'.seen[w] <= Len(file'[w]) /\ update'.seen[w] <= Len(file'[w])
<1>1. /\ cursor' \in {cursor, update, EmptyCursor}
      /\ update' \in {update, EmptyCursor} \/ Classify
  BY DEF Next, vars, Raise, Happen, Watcher, WatcherKilled, Pull, PullFails, Classify,
     SaveCursor, ReadInbox, WriteInbox, Notice, SaveNoticed, Publish, PublishFails, Restart,
     Kill, KillSaving, KillWriting, KillNoticing, Asker, ReadText, PrintText, ClearInbox,
     KillAsker, tickVars
<1>2. /\ update' \in Cursor
      /\ \A w \in Writers : update'.seen[w] \in Nat /\ update'.seen[w] <= Len(file[w])
  <2>1. CASE Classify
    <3>1. update' \in Cursor /\ update'.seen = Shown(Mine)
      BY <2>1, ClassifyIs
    <3>2. \A w \in Writers : Shown(Mine)[w] \in Nat /\ Shown(Mine)[w] <= Len(file[w])
      BY ShownTyped
    <3>3. QED
      BY <3>1, <3>2
  <2>2. CASE update' \in {update, EmptyCursor}
    <3>1. \A w \in Writers : file[w] \in Seq(Entry)
      BY DEF TypeOK
    <3>2. QED
      BY <2>2, <3>1, EmptyCursorTyped DEF TypeOK, Cursor
  <2>3. QED
    BY <1>1, <2>1, <2>2
<1>3. /\ cursor' \in Cursor
      /\ \A w \in Writers : cursor'.seen[w] \in Nat /\ cursor'.seen[w] <= Len(file[w])
  <2>1. \A w \in Writers : file[w] \in Seq(Entry)
    BY DEF TypeOK
  <2>2. QED
    BY <1>1, <2>1, EmptyCursorTyped DEF TypeOK, Cursor
<1>4. \A w \in Writers : Len(file[w]) \in Nat /\ Len(file'[w]) \in Nat
                         /\ Len(file[w]) <= Len(file'[w])
  <2>1. \A w \in Writers : file[w] \in Seq(Entry) /\ file'[w] \in Seq(Entry)
    BY LedgerGrows DEF TypeOK
  <2>2. QED
    BY <2>1, LedgerGrows
<1>5. QED
  BY <1>2, <1>3, <1>4

LEMMA TypeStep ==
  ASSUME InboxAssumption, TypeOK, [Next]_vars
  PROVE  TypeOK'
<1> DEFINE Rest ==
      /\ inbox \subseteq Id /\ existing \subseteq Id /\ hand \subseteq Id
      /\ surfaced \subseteq Id /\ lost \subseteq Id
      /\ noticed \subseteq Events /\ ready \subseteq Events /\ fired \subseteq Events
      /\ mailed \subseteq Deaths /\ skipped \subseteq Events
      /\ stage \in {"pull", "classify", "save", "read", "write", "agents", "comments",
                    "publish"}
      /\ asker \in [Askers -> {"idle", "print", "clear"}]
      /\ text \in [Askers -> SUBSET Id]
      /\ torn \in BOOLEAN /\ written \in Nat /\ faults \in Nat
<1>1. Rest
  BY DEF TypeOK
<1>2. Rest'
  <2>1. CASE (\E w \in Theirs, e \in Raises : Raise(w, e)) \/ \E w \in Mine, e \in Acks : Raise(w, e)
    BY <1>1, <2>1 DEF Raise, noteVars, tickVars, askVars
  <2>2. CASE \E e \in Events : Happen(e)
    BY <1>1, <2>2 DEF Happen, tickVars, askVars
  <2>3. CASE Pull \/ PullFails \/ SaveCursor \/ ReadInbox \/ WriteInbox \/ Publish \/ PublishFails
    BY <1>1, <2>3 DEF Pull, PullFails, SaveCursor, ReadInbox, WriteInbox, Publish, PublishFails,
       Goto, noteVars, tickVars, askVars
  <2>4. CASE Classify
    <3>1. hand' \subseteq Id
      BY <2>4, ClassifyIs
    <3>2. QED
      BY <1>1, <2>4, <3>1 DEF Classify, Goto, noteVars, askVars
  <2>5. CASE \E w \in Mine, e \in Events : Notice(w, e)
    <3>1. PICK w \in Mine, e \in Events : Notice(w, e)
      BY <2>5
    <3>2. /\ fired' = fired \cup {e} /\ mailed' \in {mailed, mailed \cup {e}}
          /\ mailed' = mailed \/ e \in Deaths
          /\ skipped' \in {skipped, skipped \cup {e}} /\ faults' \in {faults, faults + 1}
      BY <3>1 DEF Notice, Mailable
    <3>3. /\ fired' \subseteq Events /\ mailed' \subseteq Deaths /\ skipped' \subseteq Events
          /\ faults' \in Nat
      BY <1>1, <3>2
    <3>4. UNCHANGED <<inbox, noticed, ready, stage, hand, existing, asker, text, surfaced, lost,
                      torn, written>>
      BY <3>1 DEF Notice, tickVars, askVars
    <3>5. QED
      BY <1>1, <3>3, <3>4
  <2>6. CASE SaveNoticed
    BY <1>1, <2>6 DEF SaveNoticed, Goto, tickVars, askVars
  <2>7. CASE WatcherKilled
    <3>1. /\ hand' = {} /\ existing' = {} /\ fired' = {} /\ stage' = "pull" /\ faults' = faults + 1
          /\ UNCHANGED <<ready, mailed, skipped, asker, text, surfaced, written>>
      BY <2>7 DEF WatcherKilled, Restart, Kill, KillSaving, KillWriting, KillNoticing, Goto, askVars
    <3>2. inbox' \in {inbox, {}} /\ noticed' \in {noticed, noticed \ Topic} /\ torn' \in {torn, TRUE}
      BY <2>7 DEF WatcherKilled, Kill, KillSaving, KillWriting, KillNoticing
    <3>3. lost' \in {lost, lost \cup hand, lost \cup hand \cup (inbox \ surfaced)}
      BY <2>7 DEF WatcherKilled, Kill, KillSaving, KillWriting, KillNoticing
    <3>4. lost' \subseteq Id
      BY <1>1, <3>3
    <3>5. torn' \in BOOLEAN
      BY <1>1, <3>2
    <3>6. faults' \in Nat /\ asker' = asker /\ text' = text /\ written' = written
      BY <1>1, <3>1
    <3>7. inbox' \subseteq Id /\ noticed' \subseteq Events
      BY <1>1, <3>2
    <3>8. QED
      BY <1>1, <3>1, <3>4, <3>5, <3>6, <3>7
  <2>8. CASE \E p \in Askers : Asker(p) \/ KillAsker(p)
    BY <1>1, <2>8 DEF Asker, ReadText, PrintText, ClearInbox, KillAsker, noteVars, tickVars
  <2>9. CASE UNCHANGED vars
    BY <1>1, <2>9 DEF vars
  <2>10. QED
    BY <2>1, <2>2, <2>3, <2>4, <2>5, <2>6, <2>7, <2>8, <2>9 DEF Next, Watcher
<1>3. QED
  BY <1>2, LedgerGrows, CursorType DEF TypeOK

\* Every behaviour is well typed (the state of watch.py, agent_watch.py, comment_watch.py and
\* the ledger files): in particular the cursor is never ahead of the files it counts.
THEOREM InboxTypeCorrect == Spec => []TypeOK
<1>1. Init => TypeOK
  <2> SUFFICES ASSUME Init PROVE TypeOK
    OBVIOUS
  <2>1. <<>> \in Seq(Entry) /\ Len(<<>>) = 0
    OBVIOUS
  <2>2. /\ file \in [Writers -> Seq(Entry)] /\ have \in [Writers -> Nat]
        /\ \A w \in Writers : Len(file[w]) = 0 /\ have[w] = 0
    BY <2>1 DEF Init
  <2>3. /\ cursor \in Cursor /\ update \in Cursor
        /\ \A w \in Writers : cursor.seen[w] = 0 /\ update.seen[w] = 0
    BY EmptyCursorTyped DEF Init
  <2>4. \A w \in Writers : /\ have[w] <= Len(file[w])
                           /\ cursor.seen[w] <= Len(file[w]) /\ update.seen[w] <= Len(file[w])
    BY <2>2, <2>3
  <2>5. torn \in BOOLEAN /\ written \in Nat /\ faults \in Nat
    BY DEF Init
  <2>6. asker \in [Askers -> {"idle", "print", "clear"}] /\ text \in [Askers -> SUBSET Id]
    BY DEF Init
  <2>7. stage \in {"pull", "classify", "save", "read", "write", "agents", "comments", "publish"}
    BY DEF Init
  <2>8. /\ inbox = {} /\ existing = {} /\ hand = {} /\ surfaced = {} /\ lost = {}
        /\ noticed = {} /\ ready = {} /\ fired = {} /\ mailed = {} /\ skipped = {}
    BY DEF Init
  <2>9. QED
    BY <2>2, <2>3, <2>4, <2>5, <2>6, <2>7, <2>8 DEF TypeOK
<1>2. TypeOK /\ [Next]_vars => TypeOK'
  BY InboxAssumption, TypeStep
<1>3. QED
  BY <1>1, <1>2, PTL DEF Spec

-----------------------------------------------------------------------------
(* Where the entries are.                                                  *)

\* What a clone has read stays, and what comes is above what it had.
LEMMA ReadsGrow ==
  ASSUME InboxAssumption, TypeOK, [Next]_vars
  PROVE  /\ ReadAll(Mine) \subseteq ReadAll(Mine)'
         /\ \A id \in ReadAll(Mine) : At(id)' = At(id)
         /\ \A w \in Writers : /\ Shown(Mine)[w] \in Nat /\ Shown(Mine)'[w] \in Nat
                               /\ Shown(Mine)[w] <= Shown(Mine)'[w]
         /\ \A id \in ReadAll(Mine)' :
              id \in ReadAll(Mine) \/ id[2] > Shown(Mine)[id[1]]
<1>1. TypeOK'
  BY TypeStep
<1>2. \A w \in Writers : Shown(Mine)[w] \in Nat /\ Shown(Mine)'[w] \in Nat
  BY <1>1 DEF Shown, TypeOK
<1>3. \A w \in Writers : Shown(Mine)[w] <= Shown(Mine)'[w]
  BY LedgerGrows DEF Shown
<1>4. ReadAll(Mine) = {id \in Id : id[2] <= Shown(Mine)[id[1]]}
  BY ReadAllIs
<1>5. ReadAll(Mine)' = {id \in Id : id[2] <= Shown(Mine)'[id[1]]}
  <2>1. \A w \in Writers : Shown(Mine)'[w] \in Nat
    BY <1>2
  <2>2. QED
    BY <2>1 DEF ReadAll, Id
<1>6. \A id \in Id : id[1] \in Writers /\ id[2] \in Nat
  BY DEF Id
<1>7. \A id \in ReadAll(Mine) : At(id)' = At(id)
  BY AtTyped, LedgerGrows DEF At
<1>8. QED
  BY <1>2, <1>3, <1>4, <1>5, <1>6, <1>7

\* Where entries go in a step: what is kept or saved stays so, and only a tick takes more.
Moves ==
  /\ Kept \subseteq Kept' /\ Kept \cup Saved \subseteq Kept' \cup Saved'
  /\ Kept' \cup Saved' \subseteq Kept \cup hand
  /\ SaveCursor \/ Kept' \cup Saved' \subseteq Kept \cup Saved
  /\ Classify \/ hand' \subseteq hand
  /\ stage' = "save" => Classify \/ (stage = "save" /\ hand' = hand /\ update' = update)

LEMMA QuietMoves ==
  ASSUME UNCHANGED <<inbox, surfaced, lost, hand, stage, update, existing, text>>, Shape,
         ReadAll(Mine) \subseteq ReadAll(Mine)'
  PROVE  Moves /\ Shape'
BY DEF Moves, Kept, Saved, Shape

LEMMA MovesStep ==
  ASSUME InboxAssumption, TypeOK, Shape, [Next]_vars
  PROVE  Moves /\ Shape'
<1>1. ReadAll(Mine) \subseteq ReadAll(Mine)'
  BY ReadsGrow
<1>2. CASE \/ \E w \in Theirs, e \in Raises : Raise(w, e)
           \/ \E w \in Mine, e \in Acks : Raise(w, e)
           \/ \E e \in Events : Happen(e)
           \/ \E w \in Mine, e \in Events : Notice(w, e)
           \/ UNCHANGED vars
  <2>1. UNCHANGED <<inbox, surfaced, lost, hand, stage, update, existing, text>>
    BY <1>2 DEF Raise, Happen, Notice, tickVars, askVars, vars
  <2>2. QED
    BY <1>1, <2>1, QuietMoves
<1>3. CASE Pull \/ PullFails \/ Publish \/ PublishFails \/ SaveNoticed
  <2>1. /\ UNCHANGED <<inbox, surfaced, lost, hand, update, existing, text>>
        /\ stage \notin {"save", "read", "write"} /\ stage' \notin {"save", "read", "write"}
    BY <1>3 DEF Pull, PullFails, Publish, PublishFails, SaveNoticed, Goto, tickVars, askVars
  <2>2. QED
    BY <1>1, <2>1 DEF Moves, Kept, Saved, Shape
<1>4. CASE Classify
  <2>1. /\ UNCHANGED <<inbox, surfaced, lost, existing, text>>
        /\ stage = "classify" /\ stage' = "save"
    BY <1>4 DEF Classify, Goto, askVars
  <2>2. hand' \subseteq ReadAll(Mine)
    BY <1>4, ClassifyIs
  <2>3. QED
    BY <1>1, <1>4, <2>1, <2>2 DEF Moves, Kept, Saved, Shape
<1>5. CASE SaveCursor
  <2>1. /\ UNCHANGED <<inbox, surfaced, lost, existing, text, hand>>
        /\ stage = "save" /\ stage' = IF hand = {} THEN "agents" ELSE "read"
    BY <1>5 DEF SaveCursor, Goto, askVars
  <2>2. QED
    BY <1>1, <1>5, <2>1 DEF Moves, Kept, Saved, Shape
<1>6. CASE ReadInbox
  <2>1. /\ UNCHANGED <<inbox, surfaced, lost, text, hand>> /\ existing' = inbox
        /\ stage = "read" /\ stage' = "write"
    BY <1>6 DEF ReadInbox, Goto, askVars
  <2>2. QED
    BY <1>1, <2>1 DEF Moves, Kept, Saved, Shape
<1>7. CASE WriteInbox
  <2>1. /\ UNCHANGED <<surfaced, lost, text>> /\ existing' = {} /\ hand' = {}
        /\ inbox' = existing \cup hand /\ stage = "write" /\ stage' = "agents"
    BY <1>7 DEF WriteInbox, Goto, askVars
  <2>2. inbox \subseteq existing /\ existing \subseteq Kept
    BY <2>1 DEF Shape
  <2>3. QED
    BY <1>1, <2>1, <2>2 DEF Moves, Kept, Saved, Shape
<1>8. CASE WatcherKilled
  <2>1. /\ UNCHANGED <<surfaced, text>> /\ hand' = {} /\ existing' = {} /\ stage' = "pull"
    BY <1>8 DEF WatcherKilled, Restart, Kill, KillSaving, KillWriting, KillNoticing, Goto, askVars
  <2>2. \/ /\ inbox' = inbox
           /\ lost' = IF stage \in {"read", "write"} THEN lost \cup hand ELSE lost
        \/ /\ inbox' = {} /\ stage = "write" /\ lost' = lost \cup hand \cup (inbox \ surfaced)
    BY <1>8 DEF WatcherKilled, Kill, KillSaving, KillWriting, KillNoticing
  <2>3. QED
    BY <1>1, <2>1, <2>2 DEF Moves, Kept, Saved, Shape
<1>9. CASE \E p \in Askers : Asker(p) \/ KillAsker(p)
  <2>1. PICK p \in Askers : Asker(p) \/ KillAsker(p)
    BY <1>9
  <2>2. UNCHANGED <<hand, stage, update, existing>>
    BY <2>1 DEF Asker, ReadText, PrintText, ClearInbox, KillAsker, tickVars
  <2>3. CASE ReadText(p)
    <3>1. /\ UNCHANGED <<inbox, surfaced, lost>> /\ text' = [text EXCEPT ![p] = inbox]
      BY <2>3 DEF ReadText
    <3>2. \A q \in Askers : text'[q] \subseteq Kept
      BY <3>1 DEF Shape, Kept, TypeOK
    <3>3. QED
      BY <1>1, <2>2, <3>1, <3>2 DEF Moves, Kept, Saved, Shape
  <2>4. CASE PrintText(p)
    <3>1. /\ UNCHANGED <<inbox, lost>> /\ text' = [text EXCEPT ![p] = {}]
          /\ surfaced' = surfaced \cup text[p]
      BY <2>4 DEF PrintText
    <3>2. \A q \in Askers : text'[q] \subseteq Kept
      BY <3>1 DEF Shape, TypeOK
    <3>3. text[p] \subseteq Kept
      BY DEF Shape
    <3>4. QED
      BY <1>1, <2>2, <3>1, <3>2, <3>3 DEF Moves, Kept, Saved, Shape
  <2>5. CASE ClearInbox(p)
    <3>1. /\ UNCHANGED <<surfaced, text>> /\ inbox' = {} /\ lost' = lost \cup (inbox \ surfaced)
      BY <2>5 DEF ClearInbox
    <3>2. QED
      BY <1>1, <2>2, <3>1 DEF Moves, Kept, Saved, Shape
  <2>6. CASE KillAsker(p)
    <3>1. /\ UNCHANGED <<inbox, surfaced, lost>> /\ text' = [text EXCEPT ![p] = {}]
      BY <2>6 DEF KillAsker
    <3>2. \A q \in Askers : text'[q] \subseteq Kept
      BY <3>1 DEF Shape, TypeOK
    <3>3. QED
      BY <1>1, <2>2, <3>1, <3>2 DEF Moves, Kept, Saved, Shape
  <2>7. QED
    BY <2>1, <2>3, <2>4, <2>5, <2>6 DEF Asker
<1>10. QED
  BY <1>2, <1>3, <1>4, <1>5, <1>6, <1>7, <1>8, <1>9 DEF Next, Watcher

-----------------------------------------------------------------------------
(* Nothing is forgotten.                                                   *)

\* The saved cursor is written by SaveCursor only, or emptied by a kill.
LEMMA CursorStep ==
  ASSUME [Next]_vars
  PROVE  \/ cursor' = cursor /\ (torn' = torn)
         \/ SaveCursor /\ cursor' = update /\ (torn' = torn)
         \/ cursor' = EmptyCursor /\ torn' = TRUE /\ stage' = "pull"
BY DEF Next, vars, Raise, Happen, Watcher, WatcherKilled, Pull, PullFails, Classify,
   SaveCursor, ReadInbox, WriteInbox, Notice, SaveNoticed, Publish, PublishFails, Restart,
   Kill, KillSaving, KillWriting, KillNoticing, Asker, ReadText, PrintText, ClearInbox,
   KillAsker, Goto

LEMMA SeenStep ==
  ASSUME InboxAssumption, TypeOK, Shape, SeenInv, [Next]_vars
  PROVE  SeenInv'
<1> SUFFICES ASSUME NEW w \in Writers
             PROVE  /\ cursor'.seen[w] <= Shown(Mine)'[w]
                    /\ stage' = "save" => update'.seen[w] <= Shown(Mine)'[w]
  BY DEF SeenInv
<1>1. Shown(Mine)[w] \in Nat /\ Shown(Mine)'[w] \in Nat /\ Shown(Mine)[w] <= Shown(Mine)'[w]
  BY ReadsGrow
<1>2. cursor.seen[w] \in Nat /\ update.seen[w] \in Nat /\ EmptyCursor.seen[w] = 0
  BY EmptyCursorTyped DEF TypeOK, Cursor
<1>3. cursor.seen[w] <= Shown(Mine)[w] /\ (stage = "save" => update.seen[w] <= Shown(Mine)[w])
  BY DEF SeenInv
<1>4. cursor'.seen[w] <= Shown(Mine)'[w]
  <2>1. SaveCursor => stage = "save"
    BY DEF SaveCursor
  <2>2. cursor'.seen[w] \in {cursor.seen[w], EmptyCursor.seen[w]}
        \/ (stage = "save" /\ cursor'.seen[w] = update.seen[w])
    BY <2>1, CursorStep
  <2>3. QED
    BY <2>2, <1>1, <1>2, <1>3
<1>5. stage' = "save" => update'.seen[w] <= Shown(Mine)'[w]
  <2>1. CASE Classify
    <3>1. update'.seen = Shown(Mine)
      BY <2>1, ClassifyIs
    <3>2. QED
      BY <3>1, <1>1
  <2>2. CASE stage' = "save" /\ ~Classify
    <3>1. stage = "save" /\ update' = update
      BY <2>2, MovesStep DEF Moves
    <3>2. QED
      BY <3>1, <1>1, <1>2, <1>3
  <2>3. QED
    BY <2>1, <2>2
<1>6. QED
  BY <1>4, <1>5

\* What the entries of K tell, they still tell after a step: new entries are above `seen`.
LEMMA PassedStep ==
  ASSUME InboxAssumption, TypeOK, [Next]_vars, NEW seen, NEW K \in SUBSET ReadAll(Mine),
         \A w \in Writers : seen[w] \in Nat /\ seen[w] <= Shown(Mine)[w],
         Passed(seen, K)
  PROVE  \A id \in ReadAll(Mine)' :
           At(id)'.to = "me" /\ id[2] <= seen[id[1]] => \E k \in K : SameNews(At(k)', At(id)')
<1> SUFFICES ASSUME NEW id \in ReadAll(Mine)', At(id)'.to = "me", id[2] <= seen[id[1]]
             PROVE  \E k \in K : SameNews(At(k)', At(id)')
  OBVIOUS
<1>1. id[1] \in Writers /\ id[2] \in Nat
  <2>1. \A w \in Writers : Shown(Mine)'[w] \in Nat
    BY ReadsGrow
  <2>2. QED
    BY <2>1 DEF ReadAll
<1>2. id \in ReadAll(Mine)
  <2>1. Shown(Mine)[id[1]] \in Nat /\ seen[id[1]] \in Nat /\ seen[id[1]] <= Shown(Mine)[id[1]]
    BY <1>1, ReadsGrow
  <2>2. QED
    BY <1>1, <2>1, ReadsGrow
<1>3. At(id)' = At(id) /\ \A k \in K : At(k)' = At(k)
  BY <1>2, ReadsGrow
<1>4. PICK k \in K : SameNews(At(k), At(id))
  BY <1>2, <1>3 DEF Passed
<1>5. QED
  BY <1>3, <1>4

LEMMA SignatureNews ==
  ASSUME NEW e, NEW f, Signature(e) = Signature(f)
  PROVE  SameNews(e, f)
BY DEF Signature, SameNews

LEMMA SavedStep ==
  ASSUME SaveCursor
  PROVE  stage = "save" /\ Kept \cup hand \subseteq (Kept \cup Saved)'
BY DEF SaveCursor, Goto, Kept, Saved

LEMMA ForgetSaved ==
  ASSUME InboxAssumption, TypeOK, Shape, SeenInv, ForgetInv, [Next]_vars
  PROVE  Passed(cursor.seen, Kept \cup Saved)' /\ Backed(cursor.sigs, Kept \cup Saved)'
<1>1. /\ Kept \cup Saved \subseteq ReadAll(Mine) /\ Kept \cup hand \subseteq ReadAll(Mine)
      /\ \A k \in ReadAll(Mine) : At(k)' = At(k)
  BY ReadsGrow DEF Shape, Saved
<1>2. /\ \A w \in Writers : cursor.seen[w] \in Nat /\ cursor.seen[w] <= Shown(Mine)[w]
      /\ \A w \in Writers : update.seen[w] \in Nat
      /\ stage = "save" => \A w \in Writers : update.seen[w] <= Shown(Mine)[w]
  BY DEF SeenInv, TypeOK, Cursor
<1>3. CASE cursor' = cursor
  <2>1. Kept \cup Saved \subseteq (Kept \cup Saved)'
    BY MovesStep DEF Moves
  <2>2. \A id \in ReadAll(Mine)' :
           At(id)'.to = "me" /\ id[2] <= cursor.seen[id[1]]
             => \E k \in Kept \cup Saved : SameNews(At(k)', At(id)')
    BY <1>1, <1>2, PassedStep DEF ForgetInv
  <2>3. \A s \in cursor.sigs : \E k \in Kept \cup Saved : Signature(At(k)') = s
    BY <1>1 DEF ForgetInv, Backed
  <2>4. Passed(cursor.seen, Kept \cup Saved)'
    BY <1>3, <2>1, <2>2 DEF Passed
  <2>5. Backed(cursor.sigs, Kept \cup Saved)'
    BY <1>3, <2>1, <2>3 DEF Backed
  <2>6. QED
    BY <2>4, <2>5
<1>4. CASE SaveCursor /\ cursor' = update
  <2>1. stage = "save" /\ Kept \cup hand \subseteq (Kept \cup Saved)'
    BY <1>4, SavedStep
  <2>2. \A id \in ReadAll(Mine)' :
           At(id)'.to = "me" /\ id[2] <= update.seen[id[1]]
             => \E k \in Kept \cup hand : SameNews(At(k)', At(id)')
    BY <1>1, <1>2, <2>1, PassedStep DEF ForgetInv
  <2>3. \A s \in update.sigs : \E k \in Kept \cup hand : Signature(At(k)') = s
    BY <1>1, <2>1 DEF ForgetInv, Backed
  <2>4. Passed(cursor.seen, Kept \cup Saved)'
    BY <1>4, <2>1, <2>2 DEF Passed
  <2>5. Backed(cursor.sigs, Kept \cup Saved)'
    BY <1>4, <2>1, <2>3 DEF Backed
  <2>6. QED
    BY <2>4, <2>5
<1>5. CASE cursor' = EmptyCursor
  <2>1. /\ \A w \in Writers : Shown(Mine)'[w] \in Nat
        /\ \A w \in Writers : EmptyCursor.seen[w] = 0
    BY ReadsGrow, EmptyCursorTyped
  <2>2. \A id \in ReadAll(Mine)' : id[1] \in Writers /\ id[2] \in Nat /\ id[2] > 0
    BY <2>1 DEF ReadAll
  <2>3. \A id \in ReadAll(Mine)' : ~(id[2] <= EmptyCursor.seen[id[1]])
    BY <2>1, <2>2
  <2>4. Passed(cursor.seen, Kept \cup Saved)'
    BY <1>5, <2>3 DEF Passed
  <2>5. Backed(cursor.sigs, Kept \cup Saved)'
    BY <1>5 DEF Backed, EmptyCursor
  <2>6. QED
    BY <2>4, <2>5
<1>6. QED
  BY <1>3, <1>4, <1>5, CursorStep

LEMMA ForgetUpdate ==
  ASSUME InboxAssumption, TypeOK, Shape, SeenInv, ForgetInv, [Next]_vars, stage' = "save"
  PROVE  Passed(update.seen, Kept \cup hand)' /\ Backed(update.sigs, Kept \cup hand)'
<1>1. /\ Kept \cup hand \subseteq ReadAll(Mine) /\ \A k \in ReadAll(Mine) : At(k)' = At(k)
  BY ReadsGrow DEF Shape
<1>2. Kept \subseteq Kept'
  BY MovesStep DEF Moves
<1>3. CASE Classify
  <2>1. /\ hand' \subseteq ReadAll(Mine)
        /\ \A id \in ReadAll(Mine) :
             IsNew(id) => \E k \in hand' : Signature(At(k)) = Signature(At(id))
        /\ update'.seen = Shown(Mine)
        /\ \A s \in update'.sigs : s \in cursor.sigs \/ \E k \in hand' : Signature(At(k)) = s
    BY <1>3, ClassifyIs
  <2>2. Saved = {}
    BY <1>3 DEF Classify, Saved
  <2>3. \A id \in ReadAll(Mine)' :
           At(id)'.to = "me" /\ id[2] <= update'.seen[id[1]]
             => \E k \in Kept \cup hand' : SameNews(At(k)', At(id)')
    <3> SUFFICES ASSUME NEW id \in ReadAll(Mine)', At(id)'.to = "me",
                        id[2] <= Shown(Mine)[id[1]]
                 PROVE  \E k \in Kept \cup hand' : SameNews(At(k)', At(id)')
      BY <2>1
    <3>1. \A w \in Writers : Shown(Mine)'[w] \in Nat /\ Shown(Mine)[w] \in Nat
      BY ReadsGrow
    <3>2. id[1] \in Writers /\ id[2] \in Nat
      BY <3>1 DEF ReadAll
    <3>3. id \in ReadAll(Mine) /\ At(id)' = At(id)
      BY <3>1, <3>2, ReadsGrow
    <3>4. CASE IsNew(id)
      <4>1. PICK k \in hand' : Signature(At(k)) = Signature(At(id))
        BY <2>1, <3>3, <3>4
      <4>2. SameNews(At(k), At(id)) /\ At(k)' = At(k)
        BY <4>1, <2>1, <1>1, SignatureNews
      <4>3. QED
        BY <4>1, <4>2, <3>3
    <3>5. CASE id[2] <= cursor.seen[id[1]]
      <4>1. PICK k \in Kept : SameNews(At(k), At(id))
        BY <3>3, <3>5, <2>2 DEF ForgetInv, Passed
      <4>2. At(k)' = At(k)
        BY <1>1, <4>1
      <4>3. QED
        BY <4>1, <4>2, <3>3
    <3>6. CASE Signature(At(id)) \in cursor.sigs
      <4>1. PICK k \in Kept : Signature(At(k)) = Signature(At(id))
        BY <3>6, <2>2 DEF ForgetInv, Backed
      <4>2. SameNews(At(k), At(id)) /\ At(k)' = At(k)
        BY <4>1, <1>1, SignatureNews
      <4>3. QED
        BY <4>1, <4>2, <3>3
    <3>7. cursor.seen[id[1]] \in Nat
      BY <3>2 DEF TypeOK, Cursor
    <3>8. IsNew(id) \/ id[2] <= cursor.seen[id[1]] \/ Signature(At(id)) \in cursor.sigs
      BY <3>2, <3>3, <3>7 DEF IsNew
    <3>9. QED
      BY <3>4, <3>5, <3>6, <3>8
  <2>4. \A s \in update'.sigs : \E k \in Kept \cup hand' : Signature(At(k)') = s
    <3> TAKE s \in update'.sigs
    <3>1. CASE s \in cursor.sigs
      BY <3>1, <2>2, <1>1 DEF ForgetInv, Backed
    <3>2. CASE \E k \in hand' : Signature(At(k)) = s
      BY <3>2, <2>1, <1>1
    <3>3. QED
      BY <2>1, <3>1, <3>2
  <2>5. Passed(update.seen, Kept \cup hand)'
    BY <1>2, <2>3 DEF Passed
  <2>6. Backed(update.sigs, Kept \cup hand)'
    BY <1>2, <2>4 DEF Backed
  <2>7. QED
    BY <2>5, <2>6
<1>4. CASE ~Classify
  <2>1. stage = "save" /\ hand' = hand /\ update' = update
    BY <1>4, MovesStep DEF Moves
  <2>2. \A w \in Writers : update.seen[w] \in Nat /\ update.seen[w] <= Shown(Mine)[w]
    BY <2>1 DEF SeenInv, TypeOK, Cursor
  <2>3. \A id \in ReadAll(Mine)' :
           At(id)'.to = "me" /\ id[2] <= update.seen[id[1]]
             => \E k \in Kept \cup hand : SameNews(At(k)', At(id)')
    BY <1>1, <2>1, <2>2, PassedStep DEF ForgetInv
  <2>4. \A s \in update.sigs : \E k \in Kept \cup hand : Signature(At(k)') = s
    BY <1>1, <2>1 DEF ForgetInv, Backed
  <2>5. Passed(update.seen, Kept \cup hand)'
    BY <1>2, <2>1, <2>3 DEF Passed
  <2>6. Backed(update.sigs, Kept \cup hand)'
    BY <1>2, <2>1, <2>4 DEF Backed
  <2>7. QED
    BY <2>5, <2>6
<1>5. QED
  BY <1>3, <1>4

-----------------------------------------------------------------------------
(* Every news is told once.                                                *)

LEMMA OnceStep ==
  ASSUME InboxAssumption, TypeOK, Shape, OnceInv, [Next]_vars
  PROVE  OnceInv'
<1>1. \A k \in Kept \cup hand : At(k)' = At(k)
  BY ReadsGrow DEF Shape
<1>2. Moves
  BY MovesStep
<1>3. CASE torn'
  BY <1>3 DEF OnceInv, ToldOnce
<1>4. CASE ~torn'
  <2>1. ~torn /\ (cursor' = cursor \/ (SaveCursor /\ cursor' = update))
    <3>1. CASE torn' = TRUE
      BY <1>4, <3>1
    <3>2. CASE torn' = torn
      <4>1. ~torn
        BY <1>4, <3>2, Zenon
      <4>2. cursor' = cursor \/ (SaveCursor /\ cursor' = update) \/ torn' = TRUE
        BY CursorStep
      <4>3. QED
        BY <3>1, <4>1, <4>2
    <3>3. QED
      BY <3>1, <3>2, CursorStep
  <2>2. /\ \A a, b \in Kept \cup hand : Signature(At(a)) = Signature(At(b)) => a = b
        /\ \A k \in Kept \cup Saved : Signature(At(k)) \in cursor.sigs
        /\ stage = "save" => cursor.sigs \subseteq update.sigs
                             /\ \A k \in hand : Signature(At(k)) \in update.sigs
    BY <2>1 DEF OnceInv, ToldOnce
  <2>3. Kept' \cup Saved' \subseteq Kept \cup hand
    BY <1>2 DEF Moves
  <2>4. \A k \in Kept' \cup Saved' : Signature(At(k)') \in cursor'.sigs
    <3>1. CASE SaveCursor /\ cursor' = update
      <4>1. stage = "save" /\ Saved = {}
        BY <3>1 DEF SaveCursor, Saved
      <4>2. \A k \in Kept \cup hand : Signature(At(k)) \in update.sigs
        BY <4>1, <2>2
      <4>3. QED
        BY <3>1, <4>2, <2>3, <1>1
    <3>2. CASE cursor' = cursor /\ ~SaveCursor
      <4>1. Kept' \cup Saved' \subseteq Kept \cup Saved
        BY <3>2, <1>2 DEF Moves
      <4>2. QED
        BY <3>2, <4>1, <2>2, <2>3, <1>1
    <3>3. SaveCursor => cursor' = update
      BY DEF SaveCursor
    <3>4. QED
      BY <2>1, <3>1, <3>2, <3>3
  <2>5. CASE Classify
    <3>1. /\ hand' \subseteq ReadAll(Mine) /\ \A k \in hand' : IsNew(k)
          /\ \A a, b \in hand' : Signature(At(a)) = Signature(At(b)) => a = b
          /\ cursor.sigs \subseteq update'.sigs
          /\ \A k \in hand' : Signature(At(k)) \in update'.sigs
      BY <2>5, ClassifyIs
    <3>2. /\ cursor' = cursor /\ UNCHANGED <<inbox, surfaced, lost>> /\ stage' = "save"
      BY <2>5 DEF Classify, Goto
    <3>3. Kept' = Kept /\ \A k \in ReadAll(Mine) : At(k)' = At(k)
      BY <3>2, ReadsGrow DEF Kept
    <3>4. \A a \in Kept, b \in hand' : Signature(At(a)) # Signature(At(b))
      BY <3>1, <2>2 DEF IsNew
    <3>5. \A a, b \in Kept \cup hand' : Signature(At(a)) = Signature(At(b)) => a = b
      BY <3>1, <3>4, <2>2
    <3>6. \A k \in Kept \cup hand' : At(k)' = At(k)
      BY <3>1, <3>3, <1>1
    <3>7. ToldOnce'
      BY <3>3, <3>5, <3>6 DEF ToldOnce
    <3>8. \A k \in hand' : Signature(At(k)') \in update'.sigs
      BY <3>1, <3>3
    <3>9. QED
      BY <2>4, <3>1, <3>2, <3>7, <3>8 DEF OnceInv
  <2>6. CASE ~Classify
    <3>1. hand' \subseteq hand /\ Kept' \cup hand' \subseteq Kept \cup hand
      BY <2>3, <2>6, <1>2 DEF Moves
    <3>2. ToldOnce'
      BY <3>1, <2>2, <1>1 DEF ToldOnce
    <3>3. stage' = "save" => stage = "save" /\ hand' = hand /\ update' = update
      BY <2>6, <1>2 DEF Moves
    <3>4. stage' = "save" => cursor' = cursor
      <4>1. SaveCursor => stage' # "save"
        BY DEF SaveCursor, Goto
      <4>2. QED
        BY <2>1, <4>1
    <3>5. stage' = "save" => /\ cursor'.sigs \subseteq update'.sigs
                             /\ \A k \in hand' : Signature(At(k)') \in update'.sigs
      BY <3>3, <3>4, <2>2, <1>1
    <3>6. QED
      BY <2>4, <3>2, <3>5 DEF OnceInv
  <2>7. QED
    BY <2>5, <2>6
<1>5. QED
  BY <1>3, <1>4

-----------------------------------------------------------------------------
(* The theorems.                                                           *)

InboxInv == TypeOK /\ Shape /\ SeenInv /\ ForgetInv /\ OnceInv

LEMMA InboxInit ==
  ASSUME InboxAssumption, Init
  PROVE  Shape /\ SeenInv /\ ForgetInv /\ OnceInv
<1>1. Kept = {} /\ Saved = {} /\ hand = {} /\ existing = {} /\ stage = "pull"
  BY DEF Init, Kept, Saved
<1>2. \A w \in Writers : Shown(Mine)[w] = 0
  BY DEF Init, Shown
<1>3. ReadAll(Mine) = {}
  BY <1>2 DEF ReadAll
<1>4. cursor.sigs = {} /\ \A w \in Writers : cursor.seen[w] = 0
  BY DEF Init, EmptyCursor
<1>5. Shape
  BY <1>1 DEF Shape, Init
<1>6. SeenInv
  BY <1>1, <1>2, <1>4 DEF SeenInv
<1>7. ForgetInv
  BY <1>1, <1>3, <1>4 DEF ForgetInv, Passed, Backed
<1>8. OnceInv
  BY <1>1 DEF OnceInv, ToldOnce
<1>9. QED
  BY <1>5, <1>6, <1>7, <1>8

LEMMA InboxInvariant == Spec => []InboxInv
<1>1. Init /\ TypeOK => InboxInv
  BY InboxAssumption, InboxInit DEF InboxInv
<1>2. InboxInv /\ [Next]_vars => InboxInv'
  BY InboxAssumption, TypeStep, MovesStep, SeenStep, ForgetSaved, ForgetUpdate, OnceStep
     DEF InboxInv, ForgetInv
<1>3. QED
  BY <1>1, <1>2, InboxTypeCorrect, PTL DEF Spec

\* Whatever the watcher's saved cursor has passed over and is addressed to me is on its way
\* to me, or printed, or taken by a kill or an overlapping clear, itself or an entry of the
\* same news (watch_classify.py classify, watch.py tick): for every number of writers.
THEOREM NothingIsEverForgotten == Spec => []NothingForgotten
<1>1. InboxInv => NothingForgotten
  BY DEF InboxInv, ForgetInv, Passed, NothingForgotten
<1>2. QED
  BY <1>1, InboxInvariant, PTL

\* As long as no kill has emptied the cursor, no two entries of one signature are ever taken
\* to the inbox, however often watchers repeat a note (watch_classify.py signature).
THEOREM NewsIsToldOnce == Spec => []ToldOnce
<1>1. InboxInv => ToldOnce
  BY DEF InboxInv, OnceInv
<1>2. QED
  BY <1>1, InboxInvariant, PTL
=============================================================================
