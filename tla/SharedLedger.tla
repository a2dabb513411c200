---------------------------- MODULE SharedLedger ----------------------------
(***************************************************************************)
(* What the shared ledger promises the team (the module docstring of       *)
(* skills/sdlc-loop/scripts/sync.py, and of ledger.py): one log that only  *)
(* grows, to which each clone adds entries of its own and nobody else's,   *)
(* and of which every clone keeps all it has ever seen.                    *)
(***************************************************************************)
CONSTANTS
  Clone,
  Entry      \* an entry's first component is the clone that wrote it

VARIABLES
  log,       \* the entries the team shares
  known      \* [Clone -> the entries it holds for good]

vars == <<log, known>>

Own(c) == {e \in Entry : e[1] = c}

Init == log = {} /\ known = [c \in Clone |-> {}]

\* A clone commits entries of its own.
Commit(c) ==
  /\ \E new \in SUBSET Own(c) : known' = [known EXCEPT ![c] = @ \cup new]
  /\ UNCHANGED log

\* It takes over what the log has, or had when it looked.
Learn(c) ==
  /\ \E seen \in SUBSET log : known' = [known EXCEPT ![c] = @ \cup seen]
  /\ UNCHANGED log

\* It adds what it holds, once it holds all that the log does.
Share(c) ==
  /\ log \subseteq known[c]
  /\ log' = known[c]
  /\ UNCHANGED known

Next == \E c \in Clone : Commit(c) \/ Learn(c) \/ Share(c)

Spec == Init /\ [][Next]_vars

\* Whatever anybody holds, the clone that wrote it holds too.
AuthorsHoldTheirs ==
  \A c \in Clone : \A e \in known[c] \cup log : e[1] \in Clone /\ e \in known[e[1]]

=============================================================================
