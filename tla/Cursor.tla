------------------------------- MODULE Cursor -------------------------------
(***************************************************************************)
(* The run cursor as it is stored: .sdlc/state/STATE.md, patched under     *)
(* a flock on STATE.md.lock and published with os.replace, and read        *)
(* without any lock (skills/sdlc-loop/scripts/state.py).                   *)
(*                                                                         *)
(* The file's text is kept as the counters that can be read from it: a     *)
(* counter whose line is missing reads as 0, so an empty file and the      *)
(* blank template both are Zero.                                           *)
(***************************************************************************)
EXTENDS Naturals

CONSTANTS
  Proc,       \* processes on one machine
  Amount,     \* token amounts the host may report
  None,       \* no file, no lock holder, no request
  FailOpen,   \* processes whose platform has no usable flock
  MaxCalls    \* bound: calls started

VARIABLES
  file,       \* None before the file exists, else the counters in it
  creator,    \* who made the inode STATE.md names by O_EXCL, None after a replace
  lock,       \* who has STATE.md.lock flocked
  pc,         \* where each process is
  req,        \* the call it is in
  text,       \* the patched, or loaded, counters it has in memory
  outcome,    \* how its last call ended
  calls

vars == <<file, creator, lock, pc, req, text, outcome, calls>>

Abs == INSTANCE CursorService WITH
         counters <- IF file = None THEN [iteration |-> 0, runIteration |-> 0, runTokens |-> 0]
                     ELSE file,
         answer <- [p \in Proc |-> IF pc[p] = "leave" THEN text[p] ELSE None]

Zero == Abs!Zero
Request == Abs!Request
Counters == Abs!Counters

\* The steps a writer makes while it holds the lock.
Critical == {"scaffold", "template", "read", "publish", "leave"}

ASSUME NoneAssumption ==
  None \notin Proc /\ None \notin Request /\ None \notin Counters
ASSUME CursorAssumption ==
  Amount \subseteq Nat /\ MaxCalls \in Nat /\ FailOpen \subseteq Proc

Writer(p) == req[p] # None /\ req[p].op # "load"

TypeOK ==
  /\ file \in Counters \cup {None}
  /\ creator \in Proc \cup {None}
  /\ lock \in Proc \cup {None}
  /\ pc \in [Proc -> {"idle", "acquire"} \cup Critical]
  /\ req \in [Proc -> Request \cup {None}]
  /\ text \in [Proc -> Counters \cup {None}]
  /\ outcome \in [Proc -> {"none", "returned", "died"}]
  /\ calls \in 0..MaxCalls
  /\ \A p \in Proc : pc[p] = "idle" <=> req[p] = None
  /\ \A p \in Proc : pc[p] \in {"publish", "leave"} <=> text[p] # None

Init ==
  /\ file = None
  /\ creator = None
  /\ lock = None
  /\ pc = [p \in Proc |-> "idle"]
  /\ req = [p \in Proc |-> None]
  /\ text = [p \in Proc |-> None]
  /\ outcome = [p \in Proc |-> "none"]
  /\ calls = 0

Goto(p, l) == pc' = [pc EXCEPT ![p] = l]

\* A caller enters start_run, add_tokens, advance_cursor or load_cursor.
Call(p) ==
  /\ pc[p] = "idle"
  /\ calls < MaxCalls
  /\ calls' = calls + 1
  /\ \E r \in Request :
       /\ req' = [req EXCEPT ![p] = r]
       /\ Goto(p, IF r.op = "load" THEN "scaffold" ELSE "acquire")
  /\ UNCHANGED <<file, creator, lock, text, outcome>>

\* Mutant: nobody takes the lock.
AcquireUnlocked(p) ==
  /\ pc[p] = "acquire"
  /\ Goto(p, "scaffold")
  /\ UNCHANGED <<file, creator, lock, req, text, outcome, calls>>

\* _cursor_lock: a blocking flock, or none at all where there is no flock.
Acquire(p) ==
  /\ pc[p] = "acquire"
  /\ p \in FailOpen \/ lock = None
  /\ lock' = IF p \in FailOpen THEN lock ELSE p
  /\ Goto(p, "scaffold")
  /\ UNCHANGED <<file, creator, req, text, outcome, calls>>

\* _state_file: exclusive create, or the file is there already.
Scaffold(p) ==
  /\ pc[p] = "scaffold"
  /\ IF file = None
     THEN file' = Zero /\ creator' = p /\ Goto(p, "template")
     ELSE UNCHANGED <<file, creator>> /\ Goto(p, "read")
  /\ UNCHANGED <<lock, req, text, outcome, calls>>

\* Mutant: the template is written to the path, not to the inode made.
WriteTemplateToPath(p) ==
  /\ pc[p] = "template"
  /\ file' = Zero
  /\ Goto(p, "read")
  /\ UNCHANGED <<creator, lock, req, text, outcome, calls>>

\* The template goes to the inode p created, which a writer may have replaced.
WriteTemplate(p) ==
  /\ pc[p] = "template"
  /\ file' = IF creator = p THEN Zero ELSE file
  /\ Goto(p, "read")
  /\ UNCHANGED <<creator, lock, req, text, outcome, calls>>

\* f.read_text(), and the caller's patch of that text.
Read(p) ==
  /\ pc[p] = "read"
  /\ text' = [text EXCEPT ![p] = Abs!Effect(req[p], file)]
  /\ Goto(p, IF Writer(p) THEN "publish" ELSE "leave")
  /\ UNCHANGED <<file, creator, lock, req, outcome, calls>>

\* os.replace of a temporary file of its own onto STATE.md.
Publish(p) ==
  /\ pc[p] = "publish"
  /\ file' = text[p]
  /\ creator' = None
  /\ Goto(p, "leave")
  /\ UNCHANGED <<lock, req, text, outcome, calls>>

\* Mutant: the descriptor of the lock file stays open.
FinishLocked(p, how) ==
  /\ Goto(p, "idle")
  /\ req' = [req EXCEPT ![p] = None]
  /\ text' = [text EXCEPT ![p] = None]
  /\ outcome' = [outcome EXCEPT ![p] = how]
  /\ UNCHANGED <<file, creator, lock, calls>>

Finish(p, how) ==
  /\ Goto(p, "idle")
  /\ lock' = IF lock = p THEN None ELSE lock
  /\ req' = [req EXCEPT ![p] = None]
  /\ text' = [text EXCEPT ![p] = None]
  /\ outcome' = [outcome EXCEPT ![p] = how]
  /\ UNCHANGED <<file, creator, calls>>

Return(p) == pc[p] = "leave" /\ Finish(p, "returned")
Die(p)    == pc[p] # "idle" /\ Finish(p, "died")

Step(p) == Acquire(p) \/ Scaffold(p) \/ WriteTemplate(p) \/ Read(p) \/ Publish(p) \/ Return(p)

Next == \E p \in Proc : Call(p) \/ Step(p) \/ Die(p)

Spec == Init /\ [][Next]_vars

FairSpec == Spec /\ \A p \in Proc : WF_vars(Step(p))

-----------------------------------------------------------------------------
(* Properties.                                                             *)

\* Every call takes effect once, at one instant while it runs, although
\* readers take no lock, a reader may scaffold the file under a writer's hands,
\* and processes die anywhere (state.py, _patch_cursor and _state_file).
Linearizable == Abs!Spec

\* A counter a writer is about to publish was computed from the counters that
\* are still in the file, where every writer can flock (state.py, _patch_cursor's
\* read under the lock).
NoStalePatch ==
  \A p \in Proc :
    pc[p] = "publish" => file # None /\ text[p] = Abs!Effect(req[p], file)

\* Every call ends: whoever holds the lock gives it up, dying included
\* (state.py, _cursor_lock's finally).
CallEnds == \A p \in Proc : req[p] # None ~> req[p] = None

=============================================================================
