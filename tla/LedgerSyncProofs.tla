-------------------------- MODULE LedgerSyncProofs --------------------------
(***************************************************************************)
(* Proofs about LedgerSync, for any team and any number of attempts, and   *)
(* about WatcherStart, which keeps each clone to the one watcher that      *)
(* LedgerSync lets it have, for any number of triggers and faults.         *)
(***************************************************************************)
EXTENDS LedgerSync, WatcherStart, TLAPS

-----------------------------------------------------------------------------
(* Types.                                                                  *)

LEMMA MergedType ==
  ASSUME TypeOK, NEW p \in Clone
  PROVE  Merged(p) \in SUBSET Entry /\ head[p].team \in SUBSET Entry
  BY DEF TypeOK, Merged, TeamChanged, TeamMoved, Content, Commit

LEMMA RebasedType ==
  ASSUME TypeOK, NEW p \in Clone, NEW t \in SUBSET Entry, Rebased(p, t)
  PROVE  /\ base' \in [Clone -> Commit] /\ fetched' \in [Clone -> Commit]
         /\ head' \in [Clone -> Content] /\ index' \in [Clone -> Content]
         /\ team' \in [Clone -> SUBSET Entry] /\ disk' \in [Clone -> SUBSET Entry]
         /\ dirty' \in [Clone -> SUBSET Entry] /\ written' \in 0..MaxEntries
<1> USE DEF TypeOK
<1>1. /\ fetched[p] \in Commit /\ fetched[p].entries \in SUBSET Entry
      /\ head[p].entries \in SUBSET Entry
  BY DEF Commit, Content
<1>2. /\ [entries |-> head[p].entries \cup fetched[p].entries, team |-> t] \in Content
      /\ [entries |-> {}, team |-> t] \in Content
  BY <1>1 DEF Content
<1>. QED
  BY <1>1, <1>2 DEF Rebased

LEMMA AcceptType ==
  ASSUME TypeOK, NEW p \in Clone, Accept(p)
  PROVE  remote' \in Commit /\ base' \in [Clone -> Commit] /\ fetched' \in [Clone -> Commit]
<1> USE DEF TypeOK
<1>1. remote' \in Commit
  <2>1. remote.ver + 1 \in Nat /\ head[p].entries \in SUBSET Entry /\ head[p].team \in SUBSET Entry
    BY DEF Commit, Content
  <2>. QED
    BY <2>1 DEF Accept, Commit
<1>. QED
  BY <1>1 DEF Accept

LEMMA TypeInit == Init => TypeOK
  BY SyncAssumption DEF Init, TypeOK, Root, Nothing, Commit, Content, Label

LEMMA TypeStep == TypeOK /\ [Next]_vars => TypeOK'
<1> SUFFICES ASSUME TypeOK, [Next]_vars PROVE TypeOK'
  OBVIOUS
<1> USE SyncAssumption DEF TypeOK, Label, tree, git, local, env
<1>1. ASSUME NEW p \in Clone, Append(p) PROVE TypeOK'
  <2>1. <<p, written'>> \in Entry
    BY <1>1 DEF Append, Entry
  <2>2. disk' \in [Clone -> SUBSET Entry] /\ dirty' \in [Clone -> SUBSET Entry]
    BY <1>1, <2>1 DEF Append
  <2>. QED
    BY <1>1, <2>2 DEF Append
<1>2. ASSUME NEW p \in Clone, PullFetch(p) PROVE TypeOK'
  BY <1>2 DEF PullFetch, Goto
<1>3. ASSUME NEW p \in Clone, PullRebase(p) PROVE TypeOK'
  BY <1>3, MergedType, RebasedType DEF PullRebase, Goto
<1>4. ASSUME NEW p \in Clone, PullNothing(p) PROVE TypeOK'
  BY <1>4 DEF PullNothing, Goto
<1>5. ASSUME NEW p \in Clone, PullConflict(p) PROVE TypeOK'
  BY <1>5 DEF PullConflict, Goto
<1>6. ASSUME NEW p \in Clone, Abort(p) PROVE TypeOK'
  BY <1>6 DEF Abort, Goto
<1>7. ASSUME NEW p \in Clone, List(p) PROVE TypeOK'
  BY <1>7 DEF List, Exit, Own, Goto
<1>8. ASSUME NEW p \in Clone, WriteTeam(p) PROVE TypeOK'
  BY <1>8 DEF WriteTeam, Goto
<1>9. ASSUME NEW p \in Clone, Add(p) PROVE TypeOK'
  <2>1. index' \in [Clone -> Content]
    <3>1. /\ index[p].entries \in SUBSET Entry /\ head[p].entries \in SUBSET Entry
          /\ dirty[p] \in SUBSET Entry /\ listed[p] \in SUBSET Entry /\ team[p] \in SUBSET Entry
      BY DEF Content
    <3>2. [entries |-> index[p].entries
                         \cup (((listed[p] \cap disk[p]) \cup dirty[p]) \ head[p].entries),
           team |-> team[p]] \in Content
      BY <3>1 DEF Content
    <3>. QED
      BY <1>9, <3>2 DEF Add
  <2>. QED
    BY <1>9, <2>1 DEF Add, Exit, Goto
<1>10. ASSUME NEW p \in Clone, DoCommit(p) PROVE TypeOK'
  <2>1. /\ [entries |-> head[p].entries \cup index[p].entries, team |-> index[p].team] \in Content
        /\ [index[p] EXCEPT !.entries = {}] \in Content
    BY DEF Content
  <2>2. /\ head' \in [Clone -> Content]
        /\ index' \in [Clone -> Content]
    BY <1>10, <2>1 DEF DoCommit
  <2>. QED
    BY <1>10, <2>2 DEF DoCommit, Goto
<1>11. ASSUME NEW p \in Clone, PushAccepted(p) PROVE TypeOK'
  BY <1>11, AcceptType DEF PushAccepted, Exit, Goto
<1>12. ASSUME NEW p \in Clone, PushUnacknowledged(p) PROVE TypeOK'
  <2>1. tries' \in [Clone -> 0..(Attempts - 1)] /\ faults' \in 0..MaxFaults
    BY <1>12 DEF PushUnacknowledged, Retry, Exit
  <2>. QED
    BY <1>12, <2>1, AcceptType DEF PushUnacknowledged, Retry, Exit, Goto
<1>13. ASSUME NEW p \in Clone, PushRejected(p) PROVE TypeOK'
  BY <1>13 DEF PushRejected, Retry, Exit, Goto
<1>14. ASSUME NEW p \in Clone, Refetch(p) PROVE TypeOK'
  BY <1>14 DEF Refetch, Exit, Goto
<1>15. ASSUME NEW p \in Clone, Replay(p) PROVE TypeOK'
  <2>1. CASE Clean(p)
    BY <1>15, <2>1, MergedType, RebasedType DEF Replay, Goto
  <2>2. CASE ~Clean(p)
    BY <1>15, <2>2 DEF Replay, Goto, Exit
  <2>. QED
    BY <2>1, <2>2
<1>16. ASSUME NEW p \in Clone, Regenerate(p) PROVE TypeOK'
  <2>1. /\ [head[p] EXCEPT !.team = disk[p]] \in Content
        /\ [index[p] EXCEPT !.team = disk[p]] \in Content
    BY DEF Content
  <2>2. /\ head' \in [Clone -> Content]
        /\ index' \in [Clone -> Content]
    BY <1>16, <2>1 DEF Regenerate
  <2>. QED
    BY <1>16, <2>2 DEF Regenerate, Goto
<1>17. ASSUME NEW p \in Clone, Killed(p) PROVE TypeOK'
  BY <1>17 DEF Killed, Exit, Goto
<1>18. CASE GoDown \/ ComeUp
  BY <1>18 DEF GoDown, ComeUp
<1>19. CASE UNCHANGED vars
  BY <1>19 DEF vars
<1>. QED
  BY <1>1, <1>2, <1>3, <1>4, <1>5, <1>6, <1>7, <1>8, <1>9, <1>10, <1>11,
     <1>12, <1>13, <1>14, <1>15, <1>16, <1>17, <1>18, <1>19 DEF Next, Tick

\* The remote, the clones and their watchers keep their types
\* (sync.py, pull and publish).
THEOREM SyncTypeCorrect == Spec => []TypeOK
  BY TypeInit, TypeStep, PTL DEF Spec

-----------------------------------------------------------------------------
(* The invariant.                                                          *)

\* What a clone knows of the remote is a commit the remote has had.
BaseInv ==
  \A c \in Clone : \A b \in {base[c], fetched[c]} :
    b.ver <= remote.ver /\ (b.ver = remote.ver => b = remote)

\* No entry is there before it is appended.
NumberInv ==
  \A c \in Clone : \A e \in disk[c] \cup fetched[c].entries \cup remote.entries : e[2] <= written

\* What is committed or staged is in the files, and a line that an abort would
\* throw away is not committed.
TreeInv ==
  \A c \in Clone :
    /\ base[c].entries \subseteq head[c].entries
    /\ head[c].entries \subseteq disk[c]
    /\ index[c].entries \subseteq disk[c]
    /\ dirty[c] \subseteq disk[c] \ head[c].entries
    /\ pc[c] = "abort" => index[c].entries = {}

\* The TEAM.md on its way to the remote shows all that HEAD stands on.
ViewInv ==
  \A c \in Clone :
    /\ pc[c] = "add" => base[c].entries \subseteq team[c]
    /\ pc[c] = "commit" => base[c].entries \subseteq index[c].team
    /\ pc[c] = "push" => base[c].entries \subseteq head[c].team

Inv == TypeOK /\ BaseInv /\ NumberInv /\ TreeInv /\ ViewInv

LEMMA BaseStep == Inv /\ [Next]_vars => BaseInv'
<1> SUFFICES ASSUME Inv, [Next]_vars PROVE BaseInv'
  OBVIOUS
<1> USE DEF Inv, TypeOK, BaseInv, tree, git, local, env
<1>1. ASSUME NEW p \in Clone, Append(p) PROVE BaseInv'
  BY <1>1 DEF Append, Goto
<1>2. ASSUME NEW p \in Clone, PullFetch(p) PROVE BaseInv'
  BY <1>2 DEF PullFetch, Goto, Commit
<1>3. ASSUME NEW p \in Clone, PullRebase(p) PROVE BaseInv'
  BY <1>3 DEF PullRebase, Goto, Rebased
<1>4. ASSUME NEW p \in Clone, PullNothing(p) PROVE BaseInv'
  BY <1>4 DEF PullNothing, Goto
<1>5. ASSUME NEW p \in Clone, PullConflict(p) PROVE BaseInv'
  BY <1>5 DEF PullConflict, Goto
<1>6. ASSUME NEW p \in Clone, Abort(p) PROVE BaseInv'
  BY <1>6 DEF Abort, Goto
<1>7. ASSUME NEW p \in Clone, List(p) PROVE BaseInv'
  BY <1>7 DEF List, Exit, Goto
<1>8. ASSUME NEW p \in Clone, WriteTeam(p) PROVE BaseInv'
  BY <1>8 DEF WriteTeam, Goto
<1>9. ASSUME NEW p \in Clone, Add(p) PROVE BaseInv'
  BY <1>9 DEF Add, Exit, Goto
<1>10. ASSUME NEW p \in Clone, DoCommit(p) PROVE BaseInv'
  BY <1>10 DEF DoCommit, Goto
<1>11. ASSUME NEW p \in Clone, PushAccepted(p) PROVE BaseInv'
  BY <1>11 DEF PushAccepted, Exit, Goto, Accept, Commit
<1>12. ASSUME NEW p \in Clone, PushUnacknowledged(p) PROVE BaseInv'
  BY <1>12 DEF PushUnacknowledged, Retry, Exit, Goto, Accept, Commit
<1>13. ASSUME NEW p \in Clone, PushRejected(p) PROVE BaseInv'
  BY <1>13 DEF PushRejected, Retry, Exit, Goto
<1>14. ASSUME NEW p \in Clone, Refetch(p) PROVE BaseInv'
  <2>1. /\ UNCHANGED <<remote, base>>
        /\ fetched' = fetched \/ fetched' = [fetched EXCEPT ![p] = remote]
    BY <1>14 DEF Refetch
  <2>. QED
    BY <2>1 DEF Commit
<1>15. ASSUME NEW p \in Clone, Replay(p) PROVE BaseInv'
  BY <1>15 DEF Replay, Exit, Goto, Rebased
<1>16. ASSUME NEW p \in Clone, Regenerate(p) PROVE BaseInv'
  BY <1>16 DEF Regenerate, Goto
<1>17. ASSUME NEW p \in Clone, Killed(p) PROVE BaseInv'
  BY <1>17 DEF Killed, Exit, Goto
<1>18. CASE GoDown \/ ComeUp
  BY <1>18 DEF GoDown, ComeUp
<1>19. CASE UNCHANGED vars
  BY <1>19 DEF vars
<1>. QED
  BY <1>1, <1>2, <1>3, <1>4, <1>5, <1>6, <1>7, <1>8, <1>9, <1>10, <1>11,
     <1>12, <1>13, <1>14, <1>15, <1>16, <1>17, <1>18, <1>19 DEF Next, Tick

LEMMA NumberStep == Inv /\ [Next]_vars => NumberInv'
<1> SUFFICES ASSUME Inv, [Next]_vars PROVE NumberInv'
  OBVIOUS
<1> USE DEF Inv, NumberInv, TreeInv, tree, git, local, env
<1>1. ASSUME NEW p \in Clone, Append(p) PROVE NumberInv'
  <2>1. \A e \in disk'[p] : e[2] <= written'
    <3>1. written \in Nat /\ written' = written + 1 /\ \A e \in disk[p] : e[2] \in Nat
      BY <1>1, SyncAssumption DEF Append, TypeOK, Entry
    <3>2. \A e \in disk'[p] : e \in disk[p] \/ e[2] = written'
      BY <1>1 DEF Append, TypeOK
    <3>. QED
      BY <3>1, <3>2
  <2>2. \A c \in Clone : \A e \in disk[c] \cup fetched[c].entries \cup remote.entries :
           e[2] <= written'
    BY <1>1, SyncAssumption DEF Append, TypeOK, Entry, Commit
  <2>. QED
    BY <1>1, <2>1, <2>2 DEF Append, TypeOK
<1>2. ASSUME NEW p \in Clone, PullFetch(p) PROVE NumberInv'
  <2>1. /\ UNCHANGED <<remote, disk, written>>
        /\ fetched' = fetched \/ fetched' = [fetched EXCEPT ![p] = remote]
    BY <1>2 DEF PullFetch
  <2>. QED
    BY <2>1 DEF TypeOK
<1>3. ASSUME NEW p \in Clone, PullRebase(p) PROVE NumberInv'
  BY <1>3 DEF PullRebase, Goto, Rebased, TypeOK
<1>4. ASSUME NEW p \in Clone, PullNothing(p) PROVE NumberInv'
  BY <1>4 DEF PullNothing, Goto, TypeOK
<1>5. ASSUME NEW p \in Clone, PullConflict(p) PROVE NumberInv'
  BY <1>5 DEF PullConflict, Goto, TypeOK
<1>6. ASSUME NEW p \in Clone, Abort(p) PROVE NumberInv'
  BY <1>6 DEF Abort, Goto, TypeOK
<1>7. ASSUME NEW p \in Clone, List(p) PROVE NumberInv'
  BY <1>7 DEF List, Exit, Goto, TypeOK
<1>8. ASSUME NEW p \in Clone, WriteTeam(p) PROVE NumberInv'
  BY <1>8 DEF WriteTeam, Goto, TypeOK
<1>9. ASSUME NEW p \in Clone, Add(p) PROVE NumberInv'
  BY <1>9 DEF Add, Exit, Goto, TypeOK
<1>10. ASSUME NEW p \in Clone, DoCommit(p) PROVE NumberInv'
  BY <1>10 DEF DoCommit, Goto, TypeOK
<1>11. ASSUME NEW p \in Clone, PushAccepted(p) PROVE NumberInv'
  BY <1>11 DEF PushAccepted, Exit, Goto, Accept, TypeOK
<1>12. ASSUME NEW p \in Clone, PushUnacknowledged(p) PROVE NumberInv'
  BY <1>12 DEF PushUnacknowledged, Retry, Exit, Goto, Accept, TypeOK
<1>13. ASSUME NEW p \in Clone, PushRejected(p) PROVE NumberInv'
  BY <1>13 DEF PushRejected, Retry, Exit, Goto, TypeOK
<1>14. ASSUME NEW p \in Clone, Refetch(p) PROVE NumberInv'
  <2>1. /\ UNCHANGED <<remote, disk, written>>
        /\ fetched' = fetched \/ fetched' = [fetched EXCEPT ![p] = remote]
    BY <1>14 DEF Refetch
  <2>. QED
    BY <2>1 DEF TypeOK
<1>15. ASSUME NEW p \in Clone, Replay(p) PROVE NumberInv'
  <2>1. /\ UNCHANGED <<remote, fetched, written>>
        /\ \/ disk' = disk
           \/ disk' = [disk EXCEPT ![p] = @ \cup fetched[p].entries]
    BY <1>15 DEF Replay, Rebased
  <2>. QED
    BY <2>1 DEF TypeOK
<1>16. ASSUME NEW p \in Clone, Regenerate(p) PROVE NumberInv'
  BY <1>16 DEF Regenerate, Goto, TypeOK
<1>17. ASSUME NEW p \in Clone, Killed(p) PROVE NumberInv'
  BY <1>17 DEF Killed, Exit, Goto, TypeOK
<1>18. CASE GoDown \/ ComeUp
  BY <1>18 DEF GoDown, ComeUp
<1>19. CASE UNCHANGED vars
  BY <1>19 DEF vars
<1>. QED
  BY <1>1, <1>2, <1>3, <1>4, <1>5, <1>6, <1>7, <1>8, <1>9, <1>10, <1>11,
     <1>12, <1>13, <1>14, <1>15, <1>16, <1>17, <1>18, <1>19 DEF Next, Tick

LEMMA TreeStep == Inv /\ [Next]_vars => TreeInv'
<1> SUFFICES ASSUME Inv, [Next]_vars PROVE TreeInv'
  OBVIOUS
<1> USE DEF Inv, TypeOK, TreeInv, tree, git, local, env
<1>1. ASSUME NEW p \in Clone, Append(p) PROVE TreeInv'
  <2>1. <<p, written'>> \notin disk[p]
    BY <1>1, SyncAssumption DEF Append, NumberInv
  <2>2. disk' = [disk EXCEPT ![p] = @ \cup {<<p, written'>>}]
    BY <1>1 DEF Append
  <2>3. \A c \in Clone : dirty'[c] \cap head[c].entries = {}
    BY <1>1, <2>1 DEF Append
  <2>. QED
    BY <1>1, <2>2, <2>3 DEF Append
<1>2. ASSUME NEW p \in Clone, PullFetch(p) PROVE TreeInv'
  BY <1>2 DEF PullFetch, Goto
<1>3. ASSUME NEW p \in Clone, PullRebase(p) PROVE TreeInv'
  BY <1>3 DEF PullRebase, Goto, Rebased, Clean
<1>4. ASSUME NEW p \in Clone, PullNothing(p) PROVE TreeInv'
  BY <1>4 DEF PullNothing, Goto
<1>5. ASSUME NEW p \in Clone, PullConflict(p) PROVE TreeInv'
  BY <1>5 DEF PullConflict, Goto, Clean
<1>6. ASSUME NEW p \in Clone, Abort(p) PROVE TreeInv'
  BY <1>6 DEF Abort, Goto
<1>7. ASSUME NEW p \in Clone, List(p) PROVE TreeInv'
  BY <1>7 DEF List, Exit, Goto
<1>8. ASSUME NEW p \in Clone, WriteTeam(p) PROVE TreeInv'
  BY <1>8 DEF WriteTeam, Goto
<1>9. ASSUME NEW p \in Clone, Add(p) PROVE TreeInv'
  <2>1. index'[p].entries \subseteq disk[p] \cup dirty[p]
    BY <1>9 DEF Add
  <2>2. dirty[p] \subseteq disk[p]
    OBVIOUS
  <2>. QED
    BY <1>9, <2>1, <2>2 DEF Add, Exit, Goto
<1>10. ASSUME NEW p \in Clone, DoCommit(p) PROVE TreeInv'
  BY <1>10 DEF DoCommit, Goto
<1>11. ASSUME NEW p \in Clone, PushAccepted(p) PROVE TreeInv'
  BY <1>11 DEF PushAccepted, Exit, Goto, Accept
<1>12. ASSUME NEW p \in Clone, PushUnacknowledged(p) PROVE TreeInv'
  BY <1>12 DEF PushUnacknowledged, Retry, Exit, Goto, Accept
<1>13. ASSUME NEW p \in Clone, PushRejected(p) PROVE TreeInv'
  BY <1>13 DEF PushRejected, Retry, Exit, Goto
<1>14. ASSUME NEW p \in Clone, Refetch(p) PROVE TreeInv'
  BY <1>14 DEF Refetch, Exit, Goto
<1>15. ASSUME NEW p \in Clone, Replay(p) PROVE TreeInv'
  BY <1>15 DEF Replay, Exit, Goto, Rebased, Clean
<1>16. ASSUME NEW p \in Clone, Regenerate(p) PROVE TreeInv'
  BY <1>16 DEF Regenerate, Goto
<1>17. ASSUME NEW p \in Clone, Killed(p) PROVE TreeInv'
  BY <1>17 DEF Killed, Exit, Goto
<1>18. CASE GoDown \/ ComeUp
  BY <1>18 DEF GoDown, ComeUp
<1>19. CASE UNCHANGED vars
  BY <1>19 DEF vars
<1>. QED
  BY <1>1, <1>2, <1>3, <1>4, <1>5, <1>6, <1>7, <1>8, <1>9, <1>10, <1>11,
     <1>12, <1>13, <1>14, <1>15, <1>16, <1>17, <1>18, <1>19 DEF Next, Tick

LEMMA ViewStep == Inv /\ [Next]_vars => ViewInv'
<1> SUFFICES ASSUME Inv, [Next]_vars PROVE ViewInv'
  OBVIOUS
<1> USE DEF Inv, TypeOK, TreeInv, ViewInv, tree, git, local, env
<1>1. ASSUME NEW p \in Clone, Append(p) PROVE ViewInv'
  BY <1>1 DEF Append, Goto
<1>2. ASSUME NEW p \in Clone, PullFetch(p) PROVE ViewInv'
  BY <1>2 DEF PullFetch, Goto
<1>3. ASSUME NEW p \in Clone, PullRebase(p) PROVE ViewInv'
  BY <1>3 DEF PullRebase, Goto, Rebased
<1>4. ASSUME NEW p \in Clone, PullNothing(p) PROVE ViewInv'
  BY <1>4 DEF PullNothing, Goto
<1>5. ASSUME NEW p \in Clone, PullConflict(p) PROVE ViewInv'
  BY <1>5 DEF PullConflict, Goto
<1>6. ASSUME NEW p \in Clone, Abort(p) PROVE ViewInv'
  BY <1>6 DEF Abort, Goto
<1>7. ASSUME NEW p \in Clone, List(p) PROVE ViewInv'
  BY <1>7 DEF List, Exit, Goto
<1>8. ASSUME NEW p \in Clone, WriteTeam(p) PROVE ViewInv'
  BY <1>8 DEF WriteTeam, Goto
<1>9. ASSUME NEW p \in Clone, Add(p) PROVE ViewInv'
  BY <1>9 DEF Add, Exit, Goto
<1>10. ASSUME NEW p \in Clone, DoCommit(p) PROVE ViewInv'
  BY <1>10 DEF DoCommit, Goto
<1>11. ASSUME NEW p \in Clone, PushAccepted(p) PROVE ViewInv'
  BY <1>11 DEF PushAccepted, Exit, Goto, Accept
<1>12. ASSUME NEW p \in Clone, PushUnacknowledged(p) PROVE ViewInv'
  BY <1>12 DEF PushUnacknowledged, Retry, Exit, Goto, Accept
<1>13. ASSUME NEW p \in Clone, PushRejected(p) PROVE ViewInv'
  BY <1>13 DEF PushRejected, Retry, Exit, Goto
<1>14. ASSUME NEW p \in Clone, Refetch(p) PROVE ViewInv'
  BY <1>14 DEF Refetch, Exit, Goto
<1>15. ASSUME NEW p \in Clone, Replay(p) PROVE ViewInv'
  BY <1>15 DEF Replay, Exit, Goto, Rebased
<1>16. ASSUME NEW p \in Clone, Regenerate(p) PROVE ViewInv'
  BY <1>16 DEF Regenerate, Goto
<1>17. ASSUME NEW p \in Clone, Killed(p) PROVE ViewInv'
  BY <1>17 DEF Killed, Exit, Goto
<1>18. CASE GoDown \/ ComeUp
  BY <1>18 DEF GoDown, ComeUp
<1>19. CASE UNCHANGED vars
  BY <1>19 DEF vars
<1>. QED
  BY <1>1, <1>2, <1>3, <1>4, <1>5, <1>6, <1>7, <1>8, <1>9, <1>10, <1>11,
     <1>12, <1>13, <1>14, <1>15, <1>16, <1>17, <1>18, <1>19 DEF Next, Tick

LEMMA InitInv == Init => Inv
  BY TypeInit DEF Init, Inv, BaseInv, NumberInv, TreeInv, ViewInv, Root, Nothing

LEMMA InvHolds == Spec => []Inv
<1>1. Inv /\ [Next]_vars => Inv'
  BY TypeStep, BaseStep, NumberStep, TreeStep, ViewStep DEF Inv
<1>. QED
  BY <1>1, InitInv, PTL DEF Spec

-----------------------------------------------------------------------------
(* What a push may do.                                                     *)

\* Only a push moves the remote, and only from the commit HEAD stands on.
LEMMA PushStep ==
  ASSUME Inv, [Next]_vars, remote' # remote
  PROVE  \E p \in Clone :
           /\ pc[p] = "push" /\ base[p] = remote
           /\ remote'.entries = head[p].entries /\ remote'.team = head[p].team
<1> USE DEF tree, git, local, env
<1>1. PICK p \in Clone : PushAccepted(p) \/ PushUnacknowledged(p)
  BY DEF Next, Tick, Append, PullFetch, PullRebase, PullNothing, PullConflict, Abort, List,
         WriteTeam, Add, DoCommit, PushRejected, Refetch, Replay, Regenerate, Killed,
         GoDown, ComeUp, vars
<1>2. pc[p] = "push" /\ FastForward(p) /\ Accept(p)
  BY <1>1 DEF PushAccepted, PushUnacknowledged
<1>3. base[p] = remote
  BY <1>2 DEF Inv, BaseInv, FastForward
<1>. QED
  BY <1>2, <1>3 DEF Accept

\* No push, forced by a race or not, ever takes an entry off the ops branch, for
\* any number of clones and attempts (sync.py, publish).
THEOREM NothingPublishedIsLost == Spec => RemoteKeepsEntries
<1>1. Inv /\ [Next]_vars => [remote.entries \subseteq remote'.entries]_vars
  <2> SUFFICES ASSUME Inv, [Next]_vars PROVE remote.entries \subseteq remote'.entries
    OBVIOUS
  <2>1. CASE remote' = remote
    BY <2>1
  <2>2. CASE remote' # remote
    BY <2>2, PushStep DEF Inv, TreeInv
  <2>. QED
    BY <2>1, <2>2
<1>. QED
  BY <1>1, InvHolds, PTL DEF Spec, RemoteKeepsEntries

\* A new tip's TEAM.md leaves out nothing the old tip held, replayed or not
\* (sync.py, _write_team before a push and after a replay).
THEOREM TeamViewNeverLags == Spec => TeamViewKeepsUp
<1>1. Inv /\ [Next]_vars => [remote' # remote => remote.entries \subseteq remote'.team]_vars
  <2> SUFFICES ASSUME Inv, [Next]_vars, remote' # remote
               PROVE  remote.entries \subseteq remote'.team
    OBVIOUS
  <2>. QED
    BY PushStep DEF Inv, ViewInv
<1>. QED
  BY <1>1, InvHolds, PTL DEF Spec, TeamViewKeepsUp

\* A conflict, an abort or a crash never costs a clone what it committed
\* (sync.py, pull and publish).
THEOREM CommittedIsNotLost == Spec => CommittedStays
<1> DEFINE Kept == \A c \in Clone : head[c].entries \subseteq head'[c].entries \cap disk'[c]
<1>1. Inv /\ [Next]_vars => [Kept]_vars
  <2> SUFFICES ASSUME Inv, [Next]_vars PROVE Kept
    OBVIOUS
  <2>1. \A c \in Clone : head'[c].entries \subseteq disk'[c]
    BY TreeStep DEF TreeInv
  <2>2. \A c \in Clone : head[c].entries \subseteq head'[c].entries
    <3> USE DEF Inv, TypeOK, tree, git, local, env
    <3>1. ASSUME NEW p \in Clone, NEW t, Rebased(p, t)
          PROVE  \A c \in Clone : head[c].entries \subseteq head'[c].entries
      BY <3>1 DEF Rebased
    <3>2. ASSUME NEW p \in Clone, DoCommit(p) \/ Regenerate(p)
          PROVE  \A c \in Clone : head[c].entries \subseteq head'[c].entries
      <4>1. head[p] \in Content /\ [head[p] EXCEPT !.team = disk[p]].entries = head[p].entries
        BY DEF Content
      <4>2. CASE DoCommit(p)
        BY <4>2 DEF DoCommit
      <4>3. CASE Regenerate(p)
        <5>1. head' = [head EXCEPT ![p] = [head[p] EXCEPT !.team = disk[p]]]
          BY <4>3 DEF Regenerate
        <5>. QED
          BY <4>1, <5>1
      <4>. QED
        BY <3>2, <4>2, <4>3
    <3>3. CASE head' = head
      BY <3>3
    <3>. QED
      BY <3>1, <3>2, <3>3
      DEF Next, Tick, Append, PullFetch, PullRebase, PullNothing, PullConflict, Abort, List,
          WriteTeam, Add, PushAccepted, PushUnacknowledged, PushRejected, Refetch, Replay,
          Killed, GoDown, ComeUp, vars
  <2>. QED
    BY <2>1, <2>2
<1>. QED
  BY <1>1, InvHolds, PTL DEF Spec, CommittedStays

-----------------------------------------------------------------------------
(* The clones implement one shared log.                                    *)

\* What is on its way into a commit is the clone's own.
OwnInv == \A c \in Clone : listed[c] \cup dirty[c] \cup index[c].entries \subseteq Own(c)

\* What a clone knows of the remote is still there.
KnownInv == \A c \in Clone : base[c].entries \cup fetched[c].entries \subseteq remote.entries

LEMMA OwnStep == TypeOK /\ OwnInv /\ [Next]_vars => OwnInv'
<1> SUFFICES ASSUME TypeOK, OwnInv, [Next]_vars PROVE OwnInv'
  OBVIOUS
<1> USE DEF TypeOK, OwnInv, tree, git, local, env
<1>1. ASSUME NEW p \in Clone, Append(p) PROVE OwnInv'
  <2>1. <<p, written'>> \in Own(p)
    BY <1>1, SyncAssumption DEF Append, Own, Entry
  <2>2. /\ dirty'[p] \subseteq dirty[p] \cup {<<p, written'>>}
        /\ \A c \in Clone \ {p} : dirty'[c] = dirty[c]
    BY <1>1 DEF Append
  <2>. QED
    BY <1>1, <2>1, <2>2 DEF Append
<1>2. ASSUME NEW p \in Clone, NEW t, Rebased(p, t), \A c \in Clone : listed'[c] \subseteq listed[c]
      PROVE  OwnInv'
  BY <1>2 DEF Rebased
<1>3. ASSUME NEW p \in Clone, List(p) PROVE OwnInv'
  BY <1>3 DEF List, Exit
<1>4. ASSUME NEW p \in Clone, Add(p) PROVE OwnInv'
  <2>1. index'[p].entries \subseteq index[p].entries \cup listed[p] \cup dirty[p]
    BY <1>4 DEF Add
  <2>2. \A c \in Clone \ {p} : index'[c] = index[c]
    BY <1>4 DEF Add
  <2>3. dirty' = dirty /\ \A c \in Clone : listed'[c] \subseteq listed[c]
    BY <1>4 DEF Add, Exit
  <2>. QED
    BY <2>1, <2>2, <2>3
<1>5. ASSUME NEW p \in Clone, DoCommit(p) \/ Abort(p) \/ Regenerate(p) PROVE OwnInv'
  <2>1. listed' = listed
    BY <1>5 DEF DoCommit, Abort, Regenerate
  <2>2. \A c \in Clone : index'[c].entries \subseteq index[c].entries
    <3>1. CASE DoCommit(p)
      BY <3>1 DEF DoCommit, Content
    <3>2. CASE Abort(p)
      BY <3>2 DEF Abort
    <3>3. CASE Regenerate(p)
      BY <3>3 DEF Regenerate, Content
    <3>. QED
      BY <1>5, <3>1, <3>2, <3>3
  <2>3. \A c \in Clone : dirty'[c] \subseteq dirty[c]
    BY <1>5 DEF DoCommit, Abort, Regenerate
  <2>. QED
    BY <2>1, <2>2, <2>3
<1>6. CASE UNCHANGED <<dirty, index>> /\ \A c \in Clone : listed'[c] \subseteq listed[c]
  BY <1>6
<1>. QED
  BY <1>1, <1>2, <1>3, <1>4, <1>5, <1>6
  DEF Next, Tick, PullFetch, PullRebase, PullNothing, PullConflict, WriteTeam, PushAccepted,
      PushUnacknowledged, PushRejected, Retry, Exit, Refetch, Replay, Killed, GoDown, ComeUp, vars

\* A step leaves the log and moves one clone's commit, or takes the log to it.
LEMMA KnownStep == Inv /\ KnownInv /\ [Next]_vars => KnownInv'
<1> SUFFICES ASSUME Inv, KnownInv, [Next]_vars PROVE KnownInv'
  OBVIOUS
<1> USE DEF Inv, TypeOK, KnownInv, tree, git, local, env
<1>1. ASSUME NEW p \in Clone, PushAccepted(p) \/ PushUnacknowledged(p) PROVE KnownInv'
  <2>1. Accept(p) /\ base[p] = remote
    BY <1>1 DEF PushAccepted, PushUnacknowledged, FastForward, BaseInv
  <2>2. remote'.entries = head[p].entries /\ remote.entries \subseteq remote'.entries
    BY <2>1 DEF Accept, TreeInv
  <2>. QED
    BY <2>1, <2>2 DEF Accept
<1>2. ASSUME NEW p \in Clone, PullFetch(p) \/ Refetch(p) PROVE KnownInv'
  <2>1. fetched' \in {fetched, [fetched EXCEPT ![p] = remote]} /\ UNCHANGED <<remote, base>>
    BY <1>2 DEF PullFetch, Refetch
  <2>. QED
    BY <2>1
<1>3. ASSUME NEW p \in Clone, NEW t, Rebased(p, t), UNCHANGED remote PROVE KnownInv'
  BY <1>3 DEF Rebased
<1>4. CASE UNCHANGED <<remote, base, fetched>>
  BY <1>4
<1>. QED
  BY <1>1, <1>2, <1>3, <1>4
  DEF Next, Tick, Append, PullRebase, PullNothing, PullConflict, Abort, List, WriteTeam, Add,
      DoCommit, PushRejected, Replay, Regenerate, Killed, GoDown, ComeUp, vars

LEMMA SharedStep ==
  Inv /\ OwnInv /\ KnownInv /\ [Next]_vars => [Shared!Next]_(Shared!vars)
<1> SUFFICES ASSUME Inv, OwnInv, KnownInv, [Next]_vars PROVE [Shared!Next]_(Shared!vars)
  OBVIOUS
<1> USE DEF Inv, TypeOK, Shared!vars, tree, git, local, env
<1>1. ASSUME NEW p \in Clone, PushAccepted(p) \/ PushUnacknowledged(p) PROVE Shared!Share(p)
  <2>1. Accept(p) /\ base[p] = remote /\ head' = head
    BY <1>1 DEF PushAccepted, PushUnacknowledged, FastForward, BaseInv
  <2>2. remote'.entries = head[p].entries /\ remote.entries \subseteq head[p].entries
    BY <2>1 DEF Accept, TreeInv
  <2>. QED
    BY <2>1, <2>2 DEF Shared!Share
<1>2. ASSUME NEW p \in Clone, NEW t, Rebased(p, t), UNCHANGED remote PROVE Shared!Learn(p)
  <2>1. /\ head'[p].entries = head[p].entries \cup fetched[p].entries
        /\ \A c \in Clone \ {p} : head'[c] = head[c]
    BY <1>2 DEF Rebased
  <2>2. fetched[p].entries \in SUBSET remote.entries
    BY DEF KnownInv
  <2>. QED
    BY <1>2, <2>1, <2>2 DEF Shared!Learn
<1>3. ASSUME NEW p \in Clone, DoCommit(p) PROVE Shared!Commit(p)
  <2>1. /\ head'[p].entries = head[p].entries \cup index[p].entries
        /\ \A c \in Clone \ {p} : head'[c] = head[c]
        /\ UNCHANGED remote
    BY <1>3 DEF DoCommit
  <2>2. index[p].entries \in SUBSET Shared!Own(p)
    BY DEF OwnInv, Own, Shared!Own
  <2>. QED
    BY <2>1, <2>2 DEF Shared!Commit
<1>4. ASSUME NEW p \in Clone, Regenerate(p) PROVE UNCHANGED Shared!vars
  <2>1. head[p] \in Content /\ \A T : [head[p] EXCEPT !.team = T].entries = head[p].entries
    BY DEF Content
  <2>2. head' = [head EXCEPT ![p] = [head[p] EXCEPT !.team = disk[p]]] /\ UNCHANGED remote
    BY <1>4 DEF Regenerate
  <2>3. \A c \in Clone : head'[c].entries = head[c].entries
    BY <2>1, <2>2
  <2>. QED
    BY <2>2, <2>3
<1>5. CASE UNCHANGED <<remote, head>>
  BY <1>5
<1>. QED
  BY <1>1, <1>2, <1>3, <1>4, <1>5
  DEF Next, Tick, Append, PullFetch, PullRebase, PullNothing, PullConflict, Abort, List,
      WriteTeam, Add, PushRejected, Refetch, Replay, Killed, GoDown, ComeUp, vars, Shared!Next

LEMMA SharedInit == Init => OwnInv /\ KnownInv /\ Shared!Init
  BY DEF Init, OwnInv, KnownInv, Shared!Init, Root, Nothing

\* The clones, their rebases, aborts, retries and crashes, implement one log that
\* only grows, to which each clone adds its own entries only and of which it
\* keeps what it has seen (sync.py, pull and publish).
THEOREM ClonesShareOneLedger == Spec => SharesLedger
<1>1. OwnInv /\ KnownInv /\ Inv /\ [Next]_vars => (OwnInv /\ KnownInv)'
  BY OwnStep, KnownStep DEF Inv
<1>2. OwnInv /\ KnownInv /\ Inv /\ [Next]_vars => [Shared!Next]_(Shared!vars)
  BY SharedStep
<1>. QED
  BY <1>1, <1>2, SharedInit, InvHolds, PTL DEF Spec, SharesLedger, Shared!Spec

\* Whatever a clone or the remote holds, the clone that wrote it still has in its
\* own commit: no colleague ever has to return an entry to its author
\* (sync.py, pull's abort and publish's replay).
THEOREM AuthorsKeepTheirEntries == Spec => []Shared!AuthorsHoldTheirs
<1> USE DEF Shared!AuthorsHoldTheirs
<1>1. Shared!Init => Shared!AuthorsHoldTheirs
  BY DEF Shared!Init
<1>2. Shared!AuthorsHoldTheirs /\ [Shared!Next]_(Shared!vars) => Shared!AuthorsHoldTheirs'
  <2> SUFFICES ASSUME Shared!AuthorsHoldTheirs, [Shared!Next]_(Shared!vars)
               PROVE  Shared!AuthorsHoldTheirs'
    OBVIOUS
  <2>1. ASSUME NEW p \in Clone, Shared!Commit(p) PROVE Shared!AuthorsHoldTheirs'
    <3>1. PICK new \in SUBSET Shared!Own(p) :
            /\ head'[p].entries = head[p].entries \cup new
            /\ \A c \in Clone \ {p} : head'[c].entries = head[c].entries
            /\ remote'.entries = remote.entries
      BY <2>1 DEF Shared!Commit
    <3>2. \A e \in new : e[1] = p
      BY DEF Shared!Own
    <3>3. \A c \in Clone : head[c].entries \subseteq head'[c].entries
      BY <3>1
    <3>4. ASSUME NEW c \in Clone, NEW e \in head'[c].entries \cup remote'.entries
          PROVE  e[1] \in Clone /\ e \in head'[e[1]].entries
      BY <3>1, <3>2, <3>3, <3>4
    <3>. QED
      BY <3>4
  <2>2. ASSUME NEW p \in Clone, Shared!Learn(p) PROVE Shared!AuthorsHoldTheirs'
    <3>1. PICK seen \in SUBSET remote.entries :
            /\ head'[p].entries = head[p].entries \cup seen
            /\ \A c \in Clone \ {p} : head'[c].entries = head[c].entries
            /\ remote'.entries = remote.entries
      BY <2>2 DEF Shared!Learn
    <3>2. \A c \in Clone : head[c].entries \subseteq head'[c].entries
      BY <3>1
    <3>3. ASSUME NEW c \in Clone, NEW e \in head'[c].entries \cup remote'.entries
          PROVE  e[1] \in Clone /\ e \in head'[e[1]].entries
      <4>1. e \in head[c].entries \cup remote.entries
        BY <3>1
      <4>2. e[1] \in Clone /\ e \in head[e[1]].entries
        BY <4>1
      <4>. QED
        BY <3>2, <4>2
    <3>. QED
      BY <3>3
  <2>3. ASSUME NEW p \in Clone, Shared!Share(p) PROVE Shared!AuthorsHoldTheirs'
    BY <2>3 DEF Shared!Share
  <2>4. CASE UNCHANGED Shared!vars
    BY <2>4 DEF Shared!vars
  <2>. QED
    BY <2>1, <2>2, <2>3, <2>4 DEF Shared!Next
<1>. QED
  BY <1>1, <1>2, ClonesShareOneLedger, PTL DEF SharesLedger, Shared!Spec

-----------------------------------------------------------------------------
(* The start of a watcher: types.                                          *)

LEMMA WatcherTypeStep == WatcherTypeOK /\ [WatcherNext]_watcherVars => WatcherTypeOK'
<1> SUFFICES ASSUME WatcherTypeOK, [WatcherNext]_watcherVars PROVE WatcherTypeOK'
  OBVIOUS
<1> USE WatcherAssumption
    DEF WatcherTypeOK, Deciding, Reclaiming, Watching, MoveTo, MakeMutex, Mishap, Alive
<1>1. ASSUME NEW p \in Proc, Start(p) PROVE WatcherTypeOK'
  BY <1>1 DEF Start
<1>2. ASSUME NEW p \in Proc, Gate(p) PROVE WatcherTypeOK'
  BY <1>2 DEF Gate
<1>3. ASSUME NEW p \in Proc, Stat(p) PROVE WatcherTypeOK'
  BY <1>3 DEF Stat
<1>4. ASSUME NEW p \in Proc, Evict(p) PROVE WatcherTypeOK'
  BY <1>4 DEF Evict
<1>5. ASSUME NEW p \in Proc, Retake(p) PROVE WatcherTypeOK'
  BY <1>5 DEF Retake
<1>6. ASSUME NEW p \in Proc, Ungate(p) PROVE WatcherTypeOK'
  BY <1>6 DEF Ungate
<1>7. ASSUME NEW p \in Proc, Decide(p) PROVE WatcherTypeOK'
  BY <1>7 DEF Decide
<1>8. ASSUME NEW p \in Proc, ClearPidfile(p) \/ WritePidfile(p) PROVE WatcherTypeOK'
  BY <1>8 DEF ClearPidfile, WritePidfile
<1>9. ASSUME NEW p \in Proc, FreeMutex(p) PROVE WatcherTypeOK'
  BY <1>9 DEF FreeMutex
<1>10. ASSUME NEW p \in Proc, Stop(p) \/ Unlink(p) PROVE WatcherTypeOK'
  BY <1>10 DEF Stop, Unlink
<1>11. ASSUME NEW p \in Proc, Die(p) PROVE WatcherTypeOK'
  BY <1>11 DEF Die
<1>12. ASSUME NEW p \in Proc, PidReused(p) \/ PidFreed(p) PROVE WatcherTypeOK'
  BY <1>12 DEF PidReused, PidFreed
<1>13. CASE Age
  BY <1>13 DEF Age
<1>14. CASE UNCHANGED watcherVars
  BY <1>14 DEF watcherVars
<1>. QED
  BY <1>1, <1>2, <1>3, <1>4, <1>5, <1>6, <1>7, <1>8, <1>9, <1>10, <1>11,
     <1>12, <1>13, <1>14 DEF WatcherNext, Step

LEMMA WatcherTypeInit == WatcherInit => WatcherTypeOK
<1> SUFFICES ASSUME WatcherInit PROVE WatcherTypeOK
  OBVIOUS
<1>1. alien \subseteq Proc /\ mishaps \in 0..MaxMishaps
  BY WatcherAssumption DEF WatcherInit
<1>2. \A p \in Proc : at[p] = "idle"
  BY DEF WatcherInit
<1>3. at \in [Proc -> {"idle", "gate"} \cup Deciding \cup Reclaiming \cup Watching]
  BY DEF WatcherInit
<1>. QED
  BY <1>1, <1>2, <1>3 DEF WatcherInit, WatcherTypeOK, Reclaiming

\* The directories and files keep their types, and the process behind the gate
\* is the one that made it (watch.sh, mkdir watch.decide.lock.reclaim).
THEOREM WatcherTypeCorrect == WatcherSpec => []WatcherTypeOK
  BY WatcherTypeInit, WatcherTypeStep, PTL DEF WatcherSpec

-----------------------------------------------------------------------------
(* One watcher, where nobody is suspended for 30 seconds.                  *)

\* The mutex is whoever's decides; an old mutex is nobody's; and it is an
\* orphan, if anything, that is about to be evicted.
MutexInv ==
  /\ \A p \in Proc : at[p] \in Deciding => mutex = p
  /\ age = "old" => Orphaned
  /\ \A p \in Proc : at[p] = "evict" => Orphaned

\* A process that has written watch.pid is named there until it ends, and while
\* one rewrites it no watcher runs.
PidfileInv ==
  \A p \in Proc :
    /\ at[p] \in Watching \cup {"free"} => pidf = p
    /\ at[p] \in {"clear", "write"} => \A q \in Proc : at[q] \notin Watching

WatcherInv == WatcherTypeOK /\ MutexInv /\ PidfileInv

LEMMA MutexStep == ~MayStall /\ WatcherInv /\ [WatcherNext]_watcherVars => MutexInv'
<1> SUFFICES ASSUME ~MayStall, WatcherInv, [WatcherNext]_watcherVars PROVE MutexInv'
  OBVIOUS
<1> USE WatcherAssumption
    DEF WatcherInv, WatcherTypeOK, MutexInv, Orphaned, Deciding, Reclaiming,
        Watching, MoveTo, MakeMutex
<1>1. ASSUME NEW p \in Proc, Start(p) PROVE MutexInv'
  BY <1>1 DEF Start, Alive
<1>2. ASSUME NEW p \in Proc, Gate(p) PROVE MutexInv'
  BY <1>2 DEF Gate
<1>3. ASSUME NEW p \in Proc, Stat(p) PROVE MutexInv'
  BY <1>3 DEF Stat
<1>4. ASSUME NEW p \in Proc, Evict(p) PROVE MutexInv'
  BY <1>4 DEF Evict
<1>5. ASSUME NEW p \in Proc, Retake(p) PROVE MutexInv'
  BY <1>5 DEF Retake
<1>6. ASSUME NEW p \in Proc, Ungate(p) PROVE MutexInv'
  BY <1>6 DEF Ungate
<1>7. ASSUME NEW p \in Proc, Decide(p) PROVE MutexInv'
  BY <1>7 DEF Decide
<1>8. ASSUME NEW p \in Proc, ClearPidfile(p) \/ WritePidfile(p) PROVE MutexInv'
  BY <1>8 DEF ClearPidfile, WritePidfile
<1>9. ASSUME NEW p \in Proc, FreeMutex(p) PROVE MutexInv'
  BY <1>9 DEF FreeMutex
<1>10. ASSUME NEW p \in Proc, Stop(p) \/ Unlink(p) PROVE MutexInv'
  BY <1>10 DEF Stop, Unlink
<1>11. ASSUME NEW p \in Proc, Die(p) PROVE MutexInv'
  BY <1>11 DEF Die
<1>12. ASSUME NEW p \in Proc, PidReused(p) \/ PidFreed(p) PROVE MutexInv'
  BY <1>12 DEF PidReused, PidFreed
<1>13. CASE Age
  BY <1>13 DEF Age
<1>14. CASE UNCHANGED watcherVars
  BY <1>14 DEF watcherVars
<1>. QED
  BY <1>1, <1>2, <1>3, <1>4, <1>5, <1>6, <1>7, <1>8, <1>9, <1>10, <1>11,
     <1>12, <1>13, <1>14 DEF WatcherNext, Step

LEMMA PidfileStep == WatcherInv /\ [WatcherNext]_watcherVars => PidfileInv'
<1> SUFFICES ASSUME WatcherInv, [WatcherNext]_watcherVars PROVE PidfileInv'
  OBVIOUS
<1> USE WatcherAssumption
    DEF WatcherInv, WatcherTypeOK, MutexInv, PidfileInv, Deciding, Reclaiming,
        Watching, MoveTo, MakeMutex
<1>1. ASSUME NEW p \in Proc, Start(p) PROVE PidfileInv'
  BY <1>1 DEF Start, Alive
<1>2. ASSUME NEW p \in Proc, Gate(p) PROVE PidfileInv'
  BY <1>2 DEF Gate
<1>3. ASSUME NEW p \in Proc, Stat(p) PROVE PidfileInv'
  BY <1>3 DEF Stat
<1>4. ASSUME NEW p \in Proc, Evict(p) PROVE PidfileInv'
  BY <1>4 DEF Evict
<1>5. ASSUME NEW p \in Proc, Retake(p) PROVE PidfileInv'
  BY <1>5 DEF Retake
<1>6. ASSUME NEW p \in Proc, Ungate(p) PROVE PidfileInv'
  BY <1>6 DEF Ungate
<1>7. ASSUME NEW p \in Proc, Decide(p) PROVE PidfileInv'
  BY <1>7 DEF Decide, Alive
<1>8. ASSUME NEW p \in Proc, ClearPidfile(p) \/ WritePidfile(p) PROVE PidfileInv'
  BY <1>8 DEF ClearPidfile, WritePidfile
<1>9. ASSUME NEW p \in Proc, FreeMutex(p) PROVE PidfileInv'
  BY <1>9 DEF FreeMutex
<1>10. ASSUME NEW p \in Proc, Stop(p) \/ Unlink(p) PROVE PidfileInv'
  BY <1>10 DEF Stop, Unlink
<1>11. ASSUME NEW p \in Proc, Die(p) PROVE PidfileInv'
  BY <1>11 DEF Die
<1>12. ASSUME NEW p \in Proc, PidReused(p) \/ PidFreed(p) PROVE PidfileInv'
  BY <1>12 DEF PidReused, PidFreed
<1>13. CASE Age
  BY <1>13 DEF Age
<1>14. CASE UNCHANGED watcherVars
  BY <1>14 DEF watcherVars
<1>. QED
  BY <1>1, <1>2, <1>3, <1>4, <1>5, <1>6, <1>7, <1>8, <1>9, <1>10, <1>11,
     <1>12, <1>13, <1>14 DEF WatcherNext, Step

LEMMA WatcherInvHolds == ~MayStall => (WatcherSpec => []WatcherInv)
<1> SUFFICES ASSUME ~MayStall PROVE WatcherSpec => []WatcherInv
  OBVIOUS
<1>1. WatcherInit => WatcherInv
  BY WatcherTypeInit DEF WatcherInit, WatcherInv, MutexInv, PidfileInv, Deciding, Watching
<1>2. WatcherInv /\ [WatcherNext]_watcherVars => WatcherInv'
  BY WatcherTypeStep, MutexStep, PidfileStep DEF WatcherInv
<1>. QED
  BY <1>1, <1>2, PTL DEF WatcherSpec

\* Two watchers never run on one directory, however many triggers race, reclaim
\* and die, as long as none is suspended while it decides (watch.sh, the mutex
\* and its reclaim).
THEOREM WatchersExclude == ~MayStall => (WatcherSpec => []OneWatcher)
<1> SUFFICES ASSUME ~MayStall PROVE WatcherSpec => []OneWatcher
  OBVIOUS
<1>1. WatcherInv => OneWatcher
  BY DEF WatcherInv, PidfileInv, OneWatcher, Watching
<1>. QED
  BY <1>1, WatcherInvHolds, PTL

\* watch.pid names the running watcher, under the same assumption
\* (watch.sh, the pid file and the trap).
THEOREM PidfileIsRight == ~MayStall => (WatcherSpec => []PidfileNamesWatcher)
<1> SUFFICES ASSUME ~MayStall PROVE WatcherSpec => []PidfileNamesWatcher
  OBVIOUS
<1>1. WatcherInv => PidfileNamesWatcher
  BY DEF WatcherInv, PidfileInv, PidfileNamesWatcher
<1>. QED
  BY <1>1, WatcherInvHolds, PTL

=============================================================================
