------------------------------ MODULE TeamInbox ------------------------------
(***************************************************************************)
(* What a teammate raises, and how it reaches me: hand-offs and notes in   *)
(* the team ledger (handoff.py, ledger.py), the watcher's tick that picks  *)
(* what is addressed to me (watch.py, watch_classify.py), the notes about  *)
(* dead agents and new comments (agent_watch.py, comment_watch.py), and    *)
(* the inbox that the loop prints before it takes its next goal            *)
(* (loop.py _surface_inbox).                                               *)
(*                                                                         *)
(* Two clones share the ledger through the operations branch: mine, with   *)
(* its one watcher and the processes that ask for a goal, and the clone of *)
(* the teammates.  Every writer appends to a file of its own; the other    *)
(* clone has a prefix of it (LedgerSync is about how it gets there: here   *)
(* the teammates' clone publishes and pulls as soon as there is something).*)
(* Watcher and asking processes share the inbox without a lock and may be  *)
(* killed between, or in, any two steps.                                   *)
(***************************************************************************)
EXTENDS Naturals, Sequences, FiniteSets

CONSTANTS
  None,        \* a field that is not there
  Mine,        \* the writers (actor and process) of my clone
  Theirs,      \* the writers of the other clone
  Askers,      \* processes of my clone that run `next` or `next-batch`
  Goals, Issues, Areas,
  Held,        \* the goal I hold a claim on
  Raises,      \* the hand-offs and notes teammates write
  Acks,        \* the acknowledgements I write
  Deaths,      \* agents on Held that may die: goal, thread and pid
  Comments,    \* comments others may post on Held
  Email,       \* whether notify.email is configured
  MaxEntries,  \* bound: what people write, deaths and comments, together
  MaxFaults    \* bound: processes killed and notes that cannot be appended, together

Writers == Mine \cup Theirs
Events == Deaths \cup Comments
Kind == {"handoff", "note", "ack"}
State == {"open", "deferred", "declined", "resolved", None}
Priority == {"P0", "P1", "P2", None}
Entry ==
  [kind : Kind, goal : Goals, issue : Issues \cup {None}, area : Areas \cup {None},
   to : {"me", None}, priority : Priority, ref : Events \cup {None}, state : State]

ASSUME InboxAssumption ==
  /\ Mine # {} /\ Mine \cap Theirs = {} /\ Deaths \cap Comments = {}
  /\ Held \in Goals /\ None \notin Issues \cup Areas \cup Events
  /\ Raises \subseteq Entry /\ Acks \subseteq Entry
  /\ \A e \in Raises : e.kind # "ack"
  /\ \A e \in Acks : e.kind = "ack" /\ e.to = None
  /\ Email \in BOOLEAN /\ MaxEntries \in Nat /\ MaxFaults \in Nat

VARIABLES
  file,      \* the ledger file of each writer, where it is written
  have,      \* how much of it is in the clone that does not write it
  cursor,    \* watch-cursor.json: highest sequence number per writer, signatures
  inbox,     \* the entries in inbox.md
  noticed,   \* the cursors of agent_watch and comment_watch
  ready,     \* agents found dead and comments posted
  mailed,    \* deaths told by e-mail
  skipped,   \* deaths and comments whose note the ledger did not take
  stage,     \* the next step of the watcher's loop
  hand,      \* the items its tick has in hand
  update,    \* the cursor it is about to save
  existing,  \* what it read from the inbox
  fired,     \* what it noted in this round
  asker,     \* the next step of each asking process
  text,      \* the inbox it read
  surfaced,  \* entries printed to the loop
  lost,      \* entries that a kill or a clear took before they were printed
  torn,      \* whether a kill left the watch cursor empty
  written, faults  \* counters for the bounds

ledgerVars == <<file, have>>
tickVars == <<hand, update, existing>>
noteVars == <<noticed, ready, mailed, skipped, fired>>
askVars == <<asker, text>>
vars == <<file, have, cursor, inbox, noticed, ready, mailed, skipped, stage, hand, update,
          existing, fired, asker, text, surfaced, lost, torn, written, faults>>

Id == Writers \X (Nat \ {0})
Signatures ==
  [kind : Kind, thing : Goals \cup Issues, state : State, priority : Priority,
   ref : Events \cup {None}]
Cursor == [seen : [Writers -> Nat], sigs : SUBSET Signatures]
EmptyCursor == [seen |-> [w \in Writers |-> 0], sigs |-> {}]

TypeOK ==
  /\ file \in [Writers -> Seq(Entry)]
  /\ have \in [Writers -> Nat] /\ \A w \in Writers : have[w] <= Len(file[w])
  /\ cursor \in Cursor /\ update \in Cursor
  /\ \A w \in Writers : cursor.seen[w] <= Len(file[w]) /\ update.seen[w] <= Len(file[w])
  /\ inbox \subseteq Id /\ existing \subseteq Id /\ hand \subseteq Id
  /\ surfaced \subseteq Id /\ lost \subseteq Id
  /\ noticed \subseteq Events /\ ready \subseteq Events /\ fired \subseteq Events
  /\ mailed \subseteq Deaths /\ skipped \subseteq Events
  /\ stage \in {"pull", "classify", "save", "read", "write", "agents", "comments", "publish"}
  /\ asker \in [Askers -> {"idle", "print", "clear"}]
  /\ text \in [Askers -> SUBSET Id]
  /\ torn \in BOOLEAN /\ written \in Nat /\ faults \in Nat

Init ==
  /\ file = [w \in Writers |-> <<>>]
  /\ have = [w \in Writers |-> 0]
  /\ cursor = EmptyCursor /\ update = EmptyCursor
  /\ inbox = {} /\ existing = {} /\ hand = {}
  /\ noticed = {} /\ ready = {} /\ fired = {} /\ mailed = {} /\ skipped = {}
  /\ stage = "pull"
  /\ asker = [p \in Askers |-> "idle"] /\ text = [p \in Askers |-> {}]
  /\ surfaced = {} /\ lost = {}
  /\ torn = FALSE /\ written = 0 /\ faults = 0

-----------------------------------------------------------------------------
\* The ledger.

At(id) == file[id[1]][id[2]]

\* What an entry is about (handoff_key).
Thing(e) == IF e.issue # None THEN e.issue ELSE e.goal

\* read_all: a clone has the whole of the files it writes and a prefix of the others.
Shown(own) == [w \in Writers |-> IF w \in own THEN Len(file[w]) ELSE have[w]]
ReadAll(own) == UNION {{<<w, i>> : i \in 1..Shown(own)[w]} : w \in Writers}

AppendTo(w, e) == file' = [file EXCEPT ![w] = Append(@, e)]

\* Whether an acknowledgement answers a hand-off: by issue when it has one, else by
\* goal and area, where one without an area answers for every area.
Matches(h, a) ==
  IF h.issue # None
  THEN a.issue = h.issue
  ELSE a.issue = None /\ a.goal = h.goal /\ a.area \in {h.area, None}

\* Mutant: an acknowledgement answers for its own area only.
SettledExact(own, h) ==
  \E a \in ReadAll(own) :
     /\ At(a).kind = "ack" /\ At(a).state \in {"declined", "resolved"}
     /\ At(a).issue = h.issue /\ At(a).goal = h.goal /\ At(a).area = h.area

Settled(own, h) ==
  \E a \in ReadAll(own) :
     At(a).kind = "ack" /\ At(a).state \in {"declined", "resolved"} /\ Matches(h, At(a))

Outstanding(own) == {h \in ReadAll(own) : At(h).kind = "handoff" /\ ~Settled(own, At(h))}

\* Teammates hand off or note something, I answer.  Answers are not checked against
\* what is outstanding.
Raise(w, e) ==
  /\ written < MaxEntries /\ written' = written + 1
  /\ AppendTo(w, e)
  /\ UNCHANGED <<have, cursor, inbox, noteVars, stage, tickVars, askVars,
                 surfaced, lost, torn, faults>>

-----------------------------------------------------------------------------
\* The watcher's loop: pull, tick, agent_watch, comment_watch, publish.

Goto(s) == stage' = s

Pull ==
  /\ stage = "pull" /\ Goto("classify")
  /\ have' = [w \in Writers |-> IF w \in Theirs THEN Len(file[w]) ELSE have[w]]
  /\ UNCHANGED <<file, cursor, inbox, noteVars, tickVars, askVars, surfaced, lost,
                 torn, written, faults>>

PullFails ==
  /\ stage = "pull" /\ Goto("classify")
  /\ UNCHANGED <<ledgerVars, cursor, inbox, noteVars, tickVars, askVars, surfaced, lost,
                 torn, written, faults>>

\* Mutants: signatures without the priority, and without the reference.
SignatureFlat(e) ==
  [kind |-> e.kind, thing |-> Thing(e), state |-> e.state, priority |-> None, ref |-> e.ref]

SignatureNoRef(e) ==
  [kind |-> e.kind, thing |-> Thing(e), state |-> e.state, priority |-> e.priority,
   ref |-> None]

Signature(e) ==
  [kind |-> e.kind, thing |-> Thing(e),
   state |-> e.state, priority |-> e.priority, ref |-> e.ref]

SignaturesOf(ids) == {Signature(At(id)) : id \in ids}

\* Mutants: the baseline is kept per actor, not per writer; signatures are not looked at.
IsNewByActor(id) ==
  /\ At(id).to = "me"
  /\ \A w \in Writers : (w \in Mine <=> id[1] \in Mine) => id[2] > cursor.seen[w]
  /\ Signature(At(id)) \notin cursor.sigs

IsNewUnsigned(id) == At(id).to = "me" /\ id[2] > cursor.seen[id[1]]

\* Addressed to me, above the baseline of its writer, and of a new signature.
IsNew(id) ==
  /\ At(id).to = "me"
  /\ id[2] > cursor.seen[id[1]]
  /\ Signature(At(id)) \notin cursor.sigs

\* One item of each new signature: the first of those of one writer; between writers
\* the timestamps decide.
Picks(ids) ==
  {items \in SUBSET ids :
     /\ SignaturesOf(items) = SignaturesOf(ids)
     /\ \A a, b \in items : Signature(At(a)) = Signature(At(b)) => a = b
     /\ \A a \in items, b \in ids :
          a[1] = b[1] /\ Signature(At(a)) = Signature(At(b)) => a[2] <= b[2]}

\* The highest sequence number of each writer.
Highest == Shown(Mine)

Classify ==
  /\ stage = "classify" /\ Goto("save")
  /\ LET new == {id \in ReadAll(Mine) : IsNew(id)} IN
     /\ hand' \in Picks(new)
     /\ update' = [seen |-> Highest, sigs |-> cursor.sigs \cup SignaturesOf(new)]
  /\ UNCHANGED <<ledgerVars, cursor, inbox, noteVars, existing, askVars, surfaced, lost,
                 torn, written, faults>>

SaveCursor ==
  /\ stage = "save" /\ Goto(IF hand = {} THEN "agents" ELSE "read")
  /\ cursor' = update /\ update' = EmptyCursor
  /\ UNCHANGED <<ledgerVars, inbox, noteVars, hand, existing, askVars, surfaced, lost, torn,
                 written, faults>>

ReadInbox ==
  /\ stage = "read" /\ Goto("write")
  /\ existing' = inbox
  /\ UNCHANGED <<ledgerVars, cursor, inbox, noteVars, hand, update, askVars, surfaced, lost,
                 torn, written, faults>>

WriteInbox ==
  /\ stage = "write" /\ Goto("agents")
  /\ inbox' = existing \cup hand
  /\ hand' = {} /\ existing' = {}
  /\ UNCHANGED <<ledgerVars, cursor, noteVars, update, askVars, surfaced, lost, torn,
                 written, faults>>

Topic == IF stage = "agents" THEN Deaths ELSE Comments

\* What a round has still to note: comments may not be fetched this time.
Due == (ready \cap Topic) \ (noticed \cup fired)

NoteOf(e) ==
  [kind |-> "note", goal |-> Held, issue |-> None, area |-> None, to |-> "me",
   priority |-> IF e \in Deaths THEN "P1" ELSE "P2", ref |-> e, state |-> None]

Mailable(e) == Email /\ e \in Deaths

\* A death goes out by e-mail where that works, and what is not mailed, or not known to
\* be, to the ledger; each tick is a process, hence a writer, of its own.  An append that
\* fails is skipped, and the round goes on as if it had not (safe_append).
Notice(w, e) ==
  /\ stage \in {"agents", "comments"} /\ e \in Due
  /\ fired' = fired \cup {e}
  /\ \/ Mailable(e) /\ mailed' = mailed \cup {e} /\ UNCHANGED <<file, skipped, faults>>
     \/ /\ mailed' = mailed \/ (Mailable(e) /\ mailed' = mailed \cup {e})
        /\ \/ AppendTo(w, NoteOf(e)) /\ UNCHANGED <<skipped, faults>>
           \/ /\ faults < MaxFaults /\ faults' = faults + 1
              /\ skipped' = skipped \cup {e} /\ UNCHANGED file
  /\ UNCHANGED <<have, cursor, inbox, noticed, ready, stage, tickVars, askVars,
                 surfaced, lost, torn, written>>

SaveNoticed ==
  /\ stage \in {"agents", "comments"}
  /\ stage = "agents" => Due = {}
  /\ Goto(IF stage = "agents" THEN "comments" ELSE "publish")
  /\ noticed' = noticed \cup fired /\ fired' = {}
  /\ UNCHANGED <<ledgerVars, cursor, inbox, ready, mailed, skipped, tickVars, askVars, surfaced, lost,
                 torn, written, faults>>

Publish ==
  /\ stage = "publish" /\ Goto("pull")
  /\ have' = [w \in Writers |-> IF w \in Mine THEN Len(file[w]) ELSE have[w]]
  /\ UNCHANGED <<file, cursor, inbox, noteVars, tickVars, askVars, surfaced, lost,
                 torn, written, faults>>

PublishFails ==
  /\ stage = "publish" /\ Goto("pull")
  /\ UNCHANGED <<ledgerVars, cursor, inbox, noteVars, tickVars, askVars, surfaced, lost,
                 torn, written, faults>>

\* Killed, and started again by a later trigger.  Files are truncated and then written:
\* a kill in between leaves an empty cursor, which the next tick reads as the initial one,
\* or an empty inbox.
Restart ==
  /\ faults < MaxFaults /\ faults' = faults + 1
  /\ Goto("pull") /\ hand' = {} /\ update' = EmptyCursor /\ existing' = {} /\ fired' = {}
  /\ UNCHANGED <<ledgerVars, ready, mailed, skipped, askVars, surfaced, written>>

Kill ==
  /\ Restart /\ stage # "pull"
  /\ lost' = IF stage \in {"read", "write"} THEN lost \cup hand ELSE lost
  /\ UNCHANGED <<cursor, inbox, noticed, torn>>

KillSaving ==
  /\ Restart /\ stage = "save"
  /\ cursor' = EmptyCursor /\ torn' = TRUE
  /\ UNCHANGED <<inbox, noticed, lost>>

KillWriting ==
  /\ Restart /\ stage = "write"
  /\ inbox' = {} /\ lost' = lost \cup hand \cup (inbox \ surfaced)
  /\ UNCHANGED <<cursor, noticed, torn>>

KillNoticing ==
  /\ Restart /\ stage \in {"agents", "comments"} /\ fired # {}
  /\ noticed' = noticed \ Topic
  /\ UNCHANGED <<cursor, inbox, lost, torn>>

\* An agent on the goal dies, somebody comments.
Happen(e) ==
  /\ written < MaxEntries /\ written' = written + 1
  /\ e \notin ready
  /\ ready' = ready \cup {e}
  /\ UNCHANGED <<ledgerVars, cursor, inbox, noticed, mailed, skipped, fired, stage, tickVars, askVars,
                 surfaced, lost, torn, faults>>

-----------------------------------------------------------------------------
\* `next` and `next-batch`: _surface_inbox.

ReadText(p) ==
  /\ asker[p] = "idle" /\ inbox # {}
  /\ text' = [text EXCEPT ![p] = inbox]
  /\ asker' = [asker EXCEPT ![p] = "print"]
  /\ UNCHANGED <<ledgerVars, cursor, inbox, noteVars, stage, tickVars, surfaced, lost, torn,
                 written, faults>>

PrintText(p) ==
  /\ asker[p] = "print"
  /\ surfaced' = surfaced \cup text[p]
  /\ text' = [text EXCEPT ![p] = {}]
  /\ asker' = [asker EXCEPT ![p] = "clear"]
  /\ UNCHANGED <<ledgerVars, cursor, inbox, noteVars, stage, tickVars, lost, torn, written,
                 faults>>

ClearInbox(p) ==
  /\ asker[p] = "clear"
  /\ inbox' = {} /\ lost' = lost \cup (inbox \ surfaced)
  /\ asker' = [asker EXCEPT ![p] = "idle"]
  /\ UNCHANGED <<ledgerVars, cursor, noteVars, stage, tickVars, text, surfaced, torn, written,
                 faults>>

KillAsker(p) ==
  /\ faults < MaxFaults /\ faults' = faults + 1
  /\ asker[p] # "idle"
  /\ asker' = [asker EXCEPT ![p] = "idle"] /\ text' = [text EXCEPT ![p] = {}]
  /\ UNCHANGED <<ledgerVars, cursor, inbox, noteVars, stage, tickVars, surfaced, lost, torn,
                 written>>

-----------------------------------------------------------------------------
Watcher ==
  \/ Pull \/ PullFails \/ Classify \/ SaveCursor \/ ReadInbox \/ WriteInbox
  \/ \E w \in Mine, e \in Events : Notice(w, e)
  \/ SaveNoticed \/ Publish \/ PublishFails

WatcherKilled == Kill \/ KillSaving \/ KillWriting \/ KillNoticing

Asker(p) == ReadText(p) \/ PrintText(p) \/ ClearInbox(p)

Next ==
  \/ \E w \in Theirs, e \in Raises : Raise(w, e)
  \/ \E w \in Mine, e \in Acks : Raise(w, e)
  \/ \E e \in Events : Happen(e)
  \/ Watcher \/ WatcherKilled
  \/ \E p \in Askers : Asker(p) \/ KillAsker(p)

Spec == Init /\ [][Next]_vars

\* The watcher ticks for ever and is started again when it dies, the loop keeps asking for
\* goals, and the network comes back.
FairSpec ==
  /\ Spec
  /\ WF_vars(Watcher) /\ SF_vars(Pull) /\ SF_vars(Publish)
  /\ \A p \in Askers : WF_vars(Asker(p))

-----------------------------------------------------------------------------
\* Properties.

\* What the watcher has taken in hand and not let go of: about to be written, in the inbox,
\* printed, or taken away by a kill or by a clear that had not read it.
Kept == inbox \cup surfaced \cup lost
Saved == IF stage \in {"read", "write"} THEN hand ELSE {}

SameNews(e, f) ==
  e.kind = f.kind /\ Thing(e) = Thing(f) /\ e.priority = f.priority /\ e.ref = f.ref

\* Whatever the saved cursor has passed over and is addressed to me is on its way to me, or
\* something that says the same is: the cursor of one writer must not pass over the entries
\* of another one, nor one news suppress a different one (watch_classify.py classify,
\* signature; watch.py tick).
NothingForgotten ==
  \A id \in ReadAll(Mine) :
    At(id).to = "me" /\ id[2] <= cursor.seen[id[1]] =>
      \E k \in Kept \cup Saved : SameNews(At(k), At(id))

\* While no kill has emptied the cursor, the same news is taken to the inbox once, whichever
\* watchers wrote it and however often: a note repeated after a kill between _notify and
\* _save_cursor, a comment noted by two watchers (watch_classify.py signature,
\* agent_watch.py tick, comment_watch.py tick).
ToldOnce ==
  ~torn => \A a, b \in Kept \cup hand : Signature(At(a)) = Signature(At(b)) => a = b

\* A hand-off raised to me is printed to the loop, itself or one that says the same at the
\* same priority; only what a kill or a clear takes away is not (watch.py, loop.py
\* _surface_inbox).
NewsIsSurfaced ==
  \A e \in Raises :
    (e.to = "me" /\ \E w \in Theirs, i \in 1..MaxEntries : i <= Len(file[w]) /\ file[w][i] = e)
      ~> (\E k \in surfaced \cup lost : SameNews(At(k), e))

\* The death of an agent is mailed or printed, unless the ledger did not take its note or a
\* kill or a clear takes it away: each death on one goal is a news of its own, and one that
\* was noted before a kill is noted again, or is in the ledger (agent_watch.py tick, _notify).
DeathIsTold ==
  \A e \in Deaths :
    (e \in ready)
      ~> (e \in mailed \cup skipped \/ \E k \in surfaced \cup lost : At(k).ref = e)

\* "never both, never neither" (agent_watch.py:110): a death that is recorded as told has
\* been mailed or is in the ledger.
NeverNeither ==
  \A e \in noticed \cap Deaths : e \in mailed \/ \E id \in ReadAll(Mine) : At(id).ref = e

\* A hand-off I closed is no longer outstanding for the teammates who raised it: an
\* acknowledgement without an area answers for every area (handoff.py acknowledge,
\* ledger.py _settlement_matches; backlog_check.py parks the goal while it is outstanding).
AnswerUnblocks ==
  \A e \in Acks :
    (/\ e.state \in {"declined", "resolved"}
     /\ \E w \in Mine, i \in 1..MaxEntries : i <= Len(file[w]) /\ file[w][i] = e)
      ~> \A h \in Outstanding(Theirs) : ~Matches(At(h), e)

\* A hand-off that blocks a goal is told by an item of its own goal and area
\* (settlement_key: a goal blocked on two areas is two independent hand-offs, not one).
BlockerIsTold ==
  \A h \in Outstanding(Mine) :
    At(h).to = "me" /\ h[2] <= cursor.seen[h[1]] =>
      \E k \in Kept \cup Saved : Thing(At(k)) = Thing(At(h)) /\ At(k).area = At(h).area

=============================================================================
