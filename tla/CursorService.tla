---------------------------- MODULE CursorService ----------------------------
(***************************************************************************)
(* What the run cursor promises its callers (the module docstrings of      *)
(* skills/sdlc-loop/scripts/state.py): each start_run, add_tokens,         *)
(* advance_cursor and load_cursor takes effect once, at one instant        *)
(* between its call and its return, and a call whose process dies takes    *)
(* effect once or not at all.                                              *)
(***************************************************************************)
EXTENDS Naturals

CONSTANTS Proc, Amount, None

Request == [op : {"start", "advance", "load"}] \cup [op : {"spend"}, n : Amount]
Counters == [iteration : Nat, runIteration : Nat, runTokens : Nat]
Zero == [iteration |-> 0, runIteration |-> 0, runTokens |-> 0]

\* The counters after a request.
Effect(r, c) ==
  CASE r.op = "start"   -> [c EXCEPT !.runIteration = 0, !.runTokens = 0]
    [] r.op = "spend"   -> [c EXCEPT !.runTokens = @ + r.n]
    [] r.op = "advance" -> [c EXCEPT !.iteration = @ + 1, !.runIteration = @ + 1]
    [] OTHER            -> c

VARIABLES
  counters,   \* the value of the cursor
  req,        \* [Proc -> the request a process is in, or None]
  answer,     \* [Proc -> the counters its request saw or made, None before that]
  outcome     \* [Proc -> how its last call ended]

vars == <<counters, req, answer, outcome>>

Init ==
  /\ counters = Zero
  /\ req = [p \in Proc |-> None]
  /\ answer = [p \in Proc |-> None]
  /\ outcome = [p \in Proc |-> "none"]

Call(p) ==
  /\ req[p] = None
  /\ \E r \in Request : req' = [req EXCEPT ![p] = r]
  /\ UNCHANGED <<counters, answer, outcome>>

\* The one instant at which a request takes effect.
Apply(p) ==
  /\ req[p] # None
  /\ answer[p] = None
  /\ counters' = Effect(req[p], counters)
  /\ answer' = [answer EXCEPT ![p] = counters']
  /\ UNCHANGED <<req, outcome>>

Finish(p, how) ==
  /\ req' = [req EXCEPT ![p] = None]
  /\ answer' = [answer EXCEPT ![p] = None]
  /\ outcome' = [outcome EXCEPT ![p] = how]
  /\ UNCHANGED counters

Return(p) == req[p] # None /\ answer[p] # None /\ Finish(p, "returned")
Die(p)    == req[p] # None /\ Finish(p, "died")

Next == \E p \in Proc : Call(p) \/ Apply(p) \/ Return(p) \/ Die(p)

Spec == Init /\ [][Next]_vars

=============================================================================
