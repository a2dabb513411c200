------------------------------ MODULE GoalRun ------------------------------
(***************************************************************************)
(* One run over a GitHub backlog: run_loop and _record in                  *)
(* skills/sdlc-loop/scripts/loop.py on the GitHubSource of sources.py.     *)
(*                                                                         *)
(* The run asks GitHub for the oldest open goal, works on it and settles   *)
(* it: the issue is closed, or taken off the list with two label calls;    *)
(* then STATE.md counts the goal and the ledger gets its outcome.  Every   *)
(* call may fail, for a moment or for good.  The backlog is read through   *)
(* GitHub's search index, which shows each issue as it was some time ago.  *)
(*                                                                         *)
(* Leases, claim locks and several sessions are the subject of GoalClaim.  *)
(***************************************************************************)
EXTENDS Naturals, FiniteSets

CONSTANTS
  Goal,       \* issue numbers
  None,       \* no goal; no outcome
  Retries,    \* _BACKLOG_READ_RETRIES
  Settings,   \* budgets, and what may break for good
  MaxFaults,  \* bound: calls that fail for a moment, and killed runs
  MaxRuns     \* bound: runs started

Issue == [open : BOOLEAN, goal : BOOLEAN, parked : BOOLEAN]
Result == {"done", "parked", "failed"}
Service == {"github", "disk"}
Setting == [ceiling : Nat, outages : SUBSET SUBSET Service]

ASSUME GoalRunAssumption ==
  /\ Goal \subseteq Nat /\ None \notin Goal /\ None \notin Result
  /\ Retries \in Nat \ {0} /\ MaxFaults \in Nat /\ MaxRuns \in Nat
  /\ Settings \subseteq Setting

VARIABLES
  issue,      \* the issues as they are: open, carrying the goal label, parked
  index,      \* the issues as the search index has them
  outcome,    \* the last outcome the ledger has for each goal, or None
  pc,         \* where the run is
  goal,       \* the goal it works on, or None
  result,     \* what it records for it
  attempt,    \* the first record, or the park in its place
  reads,      \* reads of the backlog that found nothing
  poisoned,   \* goals that could not be recorded at all
  iteration,  \* the goals counted in STATE.md, under a ceiling
  setting,    \* config budget.max_iterations (0: absent), and the outages to come
  broken,     \* services that refuse every write from now on
  faults, runs,
  settled,    \* the goals this run has recorded
  slipped     \* those of them that both label calls missed

github == <<issue, index>>
config == <<setting, runs>>
run == <<goal, result, attempt, reads, poisoned, iteration>>
seen == <<settled, slipped>>
vars == <<github, outcome, pc, run, config, broken, faults, seen>>

Ended == {"done", "budget"}
Settling == {"probe", "close", "delist", "tag", "count", "append"}

TypeOK ==
  /\ issue \in [Goal -> Issue]
  /\ index \in [Goal -> Issue]
  /\ outcome \in [Goal -> Result \cup {None}]
  /\ pc \in {"idle", "read", "work"} \cup Settling \cup Ended
  /\ goal \in Goal \cup {None}
  /\ result \in Result
  /\ attempt \in 1..2
  /\ reads \in 0..Retries - 1
  /\ poisoned \subseteq Goal
  /\ iteration \in 0..setting.ceiling
  /\ setting \in Settings
  /\ broken \subseteq Service
  /\ faults \in 0..MaxFaults
  /\ runs \in 0..MaxRuns
  /\ settled \subseteq Goal
  /\ slipped \subseteq Goal
  /\ pc \in {"work"} \cup Settling <=> goal # None

Init ==
  /\ issue = [g \in Goal |-> [open |-> TRUE, goal |-> TRUE, parked |-> FALSE]]
  /\ index = issue
  /\ outcome = [g \in Goal |-> None]
  /\ pc = "idle"
  /\ goal = None
  /\ result = "parked"
  /\ attempt = 1
  /\ reads = 0
  /\ poisoned = {}
  /\ iteration = 0
  /\ setting \in Settings
  /\ broken = {}
  /\ faults = 0
  /\ runs = 0
  /\ settled = {}
  /\ slipped = {}

-----------------------------------------------------------------------------
(* What fails.                                                             *)

\* A write answers with an error: for good, or this once.
WriteFails(service) ==
  \/ service \in broken /\ faults' = faults
  \/ service \notin broken /\ faults < MaxFaults /\ faults' = faults + 1

\* A read does, which a token without write access does not hinder.
ReadFails == faults < MaxFaults /\ faults' = faults + 1

WriteWorks(service) == service \notin broken /\ faults' = faults

-----------------------------------------------------------------------------
(* The run.                                                                *)

\* state.start_run, get_source.
Start ==
  /\ pc \in {"idle"} \cup Ended
  /\ runs < MaxRuns
  /\ "disk" \notin broken
  /\ runs' = runs + 1
  /\ pc' = "read"
  /\ iteration' = 0
  /\ reads' = 0
  /\ poisoned' = {}
  /\ settled' = {}
  /\ slipped' = {}
  /\ UNCHANGED <<github, outcome, goal, result, attempt, setting, broken, faults>>

\* Mutant: the parked label is not looked at.
ListedUnfiltered(g) == index[g].open /\ index[g].goal /\ g \notin poisoned

\* What the query returns: open, with the goal label and without the parked one.
Listed(g) == index[g].open /\ index[g].goal /\ ~index[g].parked /\ g \notin poisoned

Oldest(g) == Listed(g) /\ \A h \in Goal : h < g => ~Listed(h)

BudgetSpent == setting.ceiling # 0 /\ iteration >= setting.ceiling

\* _next finds a goal and takes it, or finds the budget spent.
Pick(g) ==
  /\ pc = "read"
  /\ Oldest(g)
  /\ ~BudgetSpent
  /\ pc' = "work"
  /\ goal' = g
  /\ reads' = 0
  /\ UNCHANGED <<github, outcome, result, attempt, poisoned, iteration, config, broken, faults, seen>>

Halt ==
  /\ pc = "read"
  /\ \E g \in Goal : Oldest(g)
  /\ BudgetSpent
  /\ pc' = "budget"
  /\ UNCHANGED <<github, outcome, run, config, broken, faults, seen>>

\* A read that finds nothing, or fails in passing, is tried again.
ReadAgain ==
  IF reads + 1 < Retries
  THEN reads' = reads + 1 /\ pc' = pc
  ELSE reads' = reads /\ pc' = "done"

ReadNothing ==
  /\ pc = "read"
  /\ \A g \in Goal : ~Listed(g)
  /\ ReadAgain
  /\ UNCHANGED <<github, outcome, goal, result, attempt, poisoned, iteration, config, broken, faults, seen>>

\* An error that is not known to be transient ends the run at once.
ReadError ==
  /\ pc = "read"
  /\ ReadFails
  /\ \/ ReadAgain
     \/ reads' = reads /\ pc' = "done"
  /\ UNCHANGED <<github, outcome, goal, result, attempt, poisoned, iteration, config, broken, seen>>

\* run_goal returns.
Return ==
  /\ pc = "work"
  /\ result' \in Result
  /\ attempt' = 1
  /\ pc' = IF result' = "done" THEN "probe" ELSE "delist"
  /\ UNCHANGED <<github, outcome, goal, reads, poisoned, iteration, config, broken, faults, seen>>

-----------------------------------------------------------------------------
(* _record.                                                                *)

\* Mutant: a goal that cannot be recorded is not remembered.
RaiseForgets ==
  IF attempt = 1
  THEN /\ attempt' = 2 /\ result' = "parked" /\ pc' = "delist"
       /\ UNCHANGED <<goal, poisoned>>
  ELSE /\ goal' = None /\ pc' = "read"
       /\ UNCHANGED <<attempt, result, poisoned>>

\* _record raises: run_loop parks the goal instead; raising again poisons it.
Raise ==
  IF attempt = 1
  THEN /\ attempt' = 2 /\ result' = "parked" /\ pc' = "delist"
       /\ UNCHANGED <<goal, poisoned>>
  ELSE /\ poisoned' = poisoned \cup {goal} /\ goal' = None /\ pc' = "read"
       /\ UNCHANGED <<attempt, result>>

\* complete looks whether the merged pull request has closed the issue; an
\* issue it could not look at is taken for open.
Probe ==
  /\ pc = "probe"
  /\ \/ pc' = (IF issue[goal].open THEN "close" ELSE "count") /\ faults' = faults
     \/ pc' = "close" /\ ReadFails
  /\ UNCHANGED <<github, outcome, run, config, broken, seen>>

Close ==
  /\ pc = "close"
  /\ WriteWorks("github")
  /\ issue' = [issue EXCEPT ![goal].open = FALSE]
  /\ pc' = "count"
  /\ UNCHANGED <<index, outcome, run, config, broken, seen>>

\* Mutant: a failed close is passed over like a failed label call.
CloseFailsQuietly ==
  /\ pc = "close"
  /\ WriteFails("github")
  /\ pc' = "count"
  /\ UNCHANGED <<github, outcome, run, config, broken, seen>>

\* The call fails, with the issue closed or not.
CloseFails ==
  /\ pc = "close"
  /\ WriteFails("github")
  /\ \/ issue' = issue
     \/ "github" \notin broken /\ issue' = [issue EXCEPT ![goal].open = FALSE]
  /\ Raise
  /\ UNCHANGED <<index, outcome, reads, iteration, config, broken, seen>>

\* _offboard removes the goal label first; whatever fails, it goes on.
Delist ==
  /\ pc = "delist"
  /\ \/ WriteWorks("github") /\ issue' = [issue EXCEPT ![goal].goal = FALSE]
     \/ WriteFails("github") /\ issue' = issue
  /\ pc' = "tag"
  /\ UNCHANGED <<index, outcome, run, config, broken, seen>>

Tag ==
  /\ pc = "tag"
  /\ \/ WriteWorks("github") /\ issue' = [issue EXCEPT ![goal].parked = TRUE]
     \/ WriteFails("github") /\ issue' = issue
  /\ slipped' = IF issue'[goal].goal /\ ~issue'[goal].parked THEN slipped \cup {goal} ELSE slipped \ {goal}
  /\ pc' = "count"
  /\ UNCHANGED <<index, outcome, run, config, broken, settled>>

\* state.advance_cursor.
Count ==
  /\ pc = "count"
  /\ WriteWorks("disk")
  /\ iteration' = IF setting.ceiling = 0 THEN 0 ELSE iteration + 1
  /\ pc' = "append"
  /\ UNCHANGED <<github, outcome, goal, result, attempt, reads, poisoned, config, broken, seen>>

CountFails ==
  /\ pc = "count"
  /\ WriteFails("disk")
  /\ Raise
  /\ UNCHANGED <<github, outcome, reads, iteration, config, broken, seen>>

\* ledger.safe_append, which may fail without a word.
Append ==
  /\ pc = "append"
  /\ \/ WriteWorks("disk") /\ outcome' = [outcome EXCEPT ![goal] = result]
     \/ WriteFails("disk") /\ outcome' = outcome
  /\ settled' = settled \cup {goal}
  /\ goal' = None
  /\ pc' = "read"
  /\ UNCHANGED <<github, result, attempt, reads, poisoned, iteration, config, broken, slipped>>

-----------------------------------------------------------------------------
(* The rest of the world.                                                  *)

\* The search index catches up with one issue.
CatchUp(g) ==
  /\ index[g] # issue[g]
  /\ index' = [index EXCEPT ![g] = issue[g]]
  /\ UNCHANGED <<issue, outcome, pc, run, config, broken, faults, seen>>

\* The pull request of the goal is merged and its `Fixes #N` closes the issue.
Merged ==
  /\ goal # None
  /\ issue[goal].open
  /\ issue' = [issue EXCEPT ![goal].open = FALSE]
  /\ UNCHANGED <<index, outcome, pc, run, config, broken, faults, seen>>

\* The token loses its write scope; the disk is full.
Break(services) ==
  /\ ~(services \subseteq broken)
  /\ broken' = broken \cup services
  /\ UNCHANGED <<github, outcome, pc, run, config, faults, seen>>

Kill ==
  /\ pc \notin {"idle"} \cup Ended
  /\ faults < MaxFaults
  /\ faults' = faults + 1
  /\ pc' = "idle"
  /\ goal' = None
  /\ UNCHANGED <<github, outcome, result, attempt, reads, poisoned, iteration, config, broken, seen>>

Step ==
  \/ \E g \in Goal : Pick(g)
  \/ Halt \/ ReadNothing \/ ReadError \/ Return
  \/ Probe \/ Close \/ CloseFails \/ Delist \/ Tag \/ Count \/ CountFails \/ Append

Next ==
  \/ Start
  \/ Step
  \/ \E g \in Goal : CatchUp(g)
  \/ Merged
  \/ \E services \in setting.outages : Break(services)
  \/ Kill

Spec == Init /\ [][Next]_vars

\* The process runs on, run_goal returns, and the index catches up.
FairSpec == Spec /\ WF_vars(Step) /\ \A g \in Goal : WF_vars(CatchUp(g))

-----------------------------------------------------------------------------
(* What a run promises.                                                    *)

\* The ledger never says done of an issue that is still open: a close that
\* failed is recorded as a park (loop.py, run_loop's first except).
DoneIsClosed == \A g \in Goal : outcome[g] = "done" => ~issue[g].open

\* A goal the run has recorded is not served to it again, whatever failed,
\* unless the index lags behind or both label calls missed (sources.py,
\* _offboard and next_pending).
SettledStaysOut ==
  [][\A g \in settled : goal # g /\ goal' = g => index[g] # issue[g] \/ g \in slipped]_vars

\* A run ends: with a token that may write to issues, no failure makes it serve the
\* same goals for ever; should the token lose that right on the way, the ceiling ends
\* it.  With neither it does not end (loop.py, run_loop's poisoned and the budget).
RunEnds == pc = "read" ~> pc \in Ended \cup {"idle"}

=============================================================================
