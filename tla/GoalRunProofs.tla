--------------------------- MODULE GoalRunProofs ---------------------------
(***************************************************************************)
(* Proofs about GoalRun, for any number of goals, budgets and faults.      *)
(*                                                                         *)
(* The two promises about a settled goal rest on what is known of it while *)
(* _record runs: from the close, or from the second label call, until the  *)
(* ledger has its outcome, its issue is closed, delisted or parked         *)
(* (Closed, Gone), and nothing in a run undoes those changes (Forward).    *)
(***************************************************************************)
EXTENDS GoalRun, TLAPS

Out(g) == g \in slipped \/ ~issue[g].open \/ ~issue[g].goal \/ issue[g].parked

\* A goal is taken only under the budget, and is counted once.
Below ==
  pc \in {"work", "probe", "close", "delist", "tag", "count"} /\ setting.ceiling # 0
    => iteration < setting.ceiling

\* Only a goal that is not recorded as done is taken off the list.
Refused == pc \in {"delist", "tag"} => result # "done"

Closed == pc \in {"count", "append"} /\ result = "done" => ~issue[goal].open

Gone == pc \in {"count", "append"} => Out(goal)

SettledOut == \A g \in settled : Out(g)

RunInv == TypeOK /\ Below /\ Refused /\ Closed /\ Gone /\ SettledOut /\ DoneIsClosed

\* An issue is never reopened, put back on the list or unparked.
Forward ==
  \A g \in Goal :
    /\ issue'[g].open => issue[g].open
    /\ issue'[g].goal => issue[g].goal
    /\ issue[g].parked => issue'[g].parked

LEMMA SettingFacts ==
  ASSUME TypeOK
  PROVE  setting.ceiling \in Nat
BY GoalRunAssumption DEF TypeOK, Setting

LEMMA RunStarts == Init => RunInv
<1>. SUFFICES ASSUME Init  PROVE RunInv
  OBVIOUS
<1>1. issue \in [Goal -> Issue] /\ index \in [Goal -> Issue]
  BY DEF Init, Issue
<1>2. outcome \in [Goal -> Result \cup {None}] /\ result \in Result
  BY DEF Init, Result
<1>3. setting \in Settings /\ setting.ceiling \in Nat
  BY GoalRunAssumption DEF Init, Setting
<1>4. TypeOK
  BY <1>1, <1>2, <1>3, GoalRunAssumption DEF Init, TypeOK, Settling, Ended
<1>5. Below /\ Refused /\ Closed /\ Gone /\ SettledOut
  BY DEF Init, Below, Refused, Closed, Gone, SettledOut
<1>6. DoneIsClosed
  BY GoalRunAssumption DEF Init, DoneIsClosed, Result
<1>. QED
  BY <1>4, <1>5, <1>6 DEF RunInv

-----------------------------------------------------------------------------
(* The issues.                                                             *)

\* The issue of the goal at hand is closed, delisted or parked, or stays.
LEMMA OneMark ==
  ASSUME NEW f \in [Goal -> Issue], NEW g \in Goal, NEW h \in [Goal -> Issue],
         \/ h = [f EXCEPT ![g].open = FALSE]
         \/ h = [f EXCEPT ![g].goal = FALSE]
         \/ h = [f EXCEPT ![g].parked = TRUE]
         \/ h = f
  PROVE  \A x \in Goal :
           /\ h[x].open => f[x].open
           /\ h[x].goal => f[x].goal
           /\ f[x].parked => h[x].parked
BY DEF Issue

LEMMA IssueStep ==
  ASSUME TypeOK, [Next]_vars
  PROVE  issue' \in [Goal -> Issue] /\ index' \in [Goal -> Issue] /\ Forward
<1>. issue \in [Goal -> Issue] /\ index \in [Goal -> Issue]
  BY DEF TypeOK
<1>1. \/ issue' = issue
      \/ /\ goal \in Goal
         /\ \/ issue' = [issue EXCEPT ![goal].open = FALSE]
            \/ issue' = [issue EXCEPT ![goal].goal = FALSE]
            \/ issue' = [issue EXCEPT ![goal].parked = TRUE]
  <2>1. CASE Close \/ CloseFails \/ Delist \/ Tag
    <3>1. goal \in Goal
      BY <2>1 DEF TypeOK, Settling, Close, CloseFails, Delist, Tag
    <3>. QED
      BY <2>1, <3>1 DEF Close, CloseFails, Delist, Tag
  <2>2. CASE Merged
    BY <2>2 DEF Merged, TypeOK
  <2>. QED
    BY <2>1, <2>2 DEF Next, Step, Start, Pick, Halt, ReadNothing, ReadError, Return, Probe,
       Count, CountFails, Append, CatchUp, Break, Kill, vars, github
<1>2. issue' \in [Goal -> Issue]
  <2>1. ASSUME goal \in Goal
        PROVE  /\ [issue[goal] EXCEPT !.open = FALSE] \in Issue
               /\ [issue[goal] EXCEPT !.goal = FALSE] \in Issue
               /\ [issue[goal] EXCEPT !.parked = TRUE] \in Issue
    <3>1. issue[goal] \in Issue
      BY <2>1
    <3>. QED
      BY <3>1 DEF Issue
  <2>2. ASSUME goal \in Goal, NEW i \in Issue, issue' = [issue EXCEPT ![goal] = i]
        PROVE  issue' \in [Goal -> Issue]
    BY <2>2
  <2>3. CASE issue' = issue
    BY <2>3
  <2>4. ASSUME goal \in Goal, issue' = [issue EXCEPT ![goal].open = FALSE]
        PROVE  issue' = [issue EXCEPT ![goal] = [issue[goal] EXCEPT !.open = FALSE]]
    BY <2>4
  <2>5. ASSUME goal \in Goal, issue' = [issue EXCEPT ![goal].goal = FALSE]
        PROVE  issue' = [issue EXCEPT ![goal] = [issue[goal] EXCEPT !.goal = FALSE]]
    BY <2>5
  <2>6. ASSUME goal \in Goal, issue' = [issue EXCEPT ![goal].parked = TRUE]
        PROVE  issue' = [issue EXCEPT ![goal] = [issue[goal] EXCEPT !.parked = TRUE]]
    BY <2>6
  <2>. QED
    BY <1>1, <2>1, <2>2, <2>3, <2>4, <2>5, <2>6
<1>3. \/ UNCHANGED index
      \/ \E g \in Goal : index' = [index EXCEPT ![g] = issue[g]]
  BY DEF Next, Step, Start, Pick, Halt, ReadNothing, ReadError, Return, Probe, Close,
     CloseFails, Delist, Tag, Count, CountFails, Append, CatchUp, Merged, Break, Kill,
     vars, github
<1>4. index' \in [Goal -> Issue]
  BY <1>3
<1>5. Forward
  <2>1. CASE issue' = issue
    BY <2>1 DEF Forward
  <2>2. CASE issue' # issue
    BY <1>1, <1>2, <2>2, OneMark DEF Forward
  <2>. QED
    BY <2>1, <2>2
<1>. QED
  BY <1>2, <1>4, <1>5

-----------------------------------------------------------------------------
(* Types and the budget.                                                   *)

LEMMA TypeStep ==
  ASSUME TypeOK, Below, [Next]_vars
  PROVE  TypeOK' /\ Below'
<1>. USE GoalRunAssumption, SettingFacts
<1>1. issue' \in [Goal -> Issue] /\ index' \in [Goal -> Issue]
  BY IssueStep
<1>2. setting' = setting /\ setting \in Settings
  BY DEF Next, Step, Start, Pick, Halt, ReadNothing, ReadError, Return, Probe, Close,
     CloseFails, Delist, Tag, Count, CountFails, Append, CatchUp, Merged, Break, Kill,
     vars, config, TypeOK
<1>3. CASE Start
  BY <1>1, <1>2, <1>3 DEF Start, TypeOK, Below, Settling, Ended, github, config
<1>4. ASSUME NEW g \in Goal, Pick(g)  PROVE TypeOK' /\ Below'
  BY <1>1, <1>2, <1>4 DEF Pick, BudgetSpent, TypeOK, Below, Settling, Ended, github, config, seen
<1>5. CASE Halt \/ ReadNothing \/ ReadError
  <2>1. CASE Halt
    BY <1>1, <1>2, <2>1 DEF Halt, TypeOK, Below, Settling, Ended, github, config, run, seen
  <2>2. CASE ReadNothing
    BY <1>1, <1>2, <2>2 DEF ReadNothing, ReadAgain, TypeOK, Below, Settling, Ended, github,
       config, seen
  <2>3. CASE ReadError
    BY <1>1, <1>2, <2>3 DEF ReadError, ReadAgain, ReadFails, TypeOK, Below, Settling, Ended,
       github, config, seen
  <2>. QED
    BY <1>5, <2>1, <2>2, <2>3
<1>6. CASE Return
  BY <1>1, <1>2, <1>6 DEF Return, TypeOK, Below, Settling, Ended, github, config, seen
<1>7. CASE Probe
  BY <1>1, <1>2, <1>7 DEF Probe, ReadFails, TypeOK, Below, Settling, Ended, github, config, run, seen
<1>8. CASE Close \/ Delist
  BY <1>1, <1>2, <1>8 DEF Close, Delist, WriteWorks, WriteFails, TypeOK, Below, Settling, Ended,
     config, run, seen
<1>9. CASE CloseFails
  BY <1>1, <1>2, <1>9 DEF CloseFails, WriteFails, Raise, Result, TypeOK, Below, Settling, Ended,
     config, seen
<1>10. CASE Tag
  BY <1>1, <1>2, <1>10 DEF Tag, WriteWorks, WriteFails, TypeOK, Below, Settling, Ended, config, run
<1>11. CASE Count
  BY <1>1, <1>2, <1>11 DEF Count, WriteWorks, TypeOK, Below, Settling, Ended, github, config, seen
<1>12. CASE CountFails
  <2>1. goal \in Goal /\ pc = "count" /\ faults' \in 0..MaxFaults
    BY <1>12 DEF CountFails, WriteFails, TypeOK, Settling
  <2>2. UNCHANGED <<outcome, reads, iteration, runs, broken, settled, slipped>>
    BY <1>12 DEF CountFails, config, seen
  <2>3. Raise
    BY <1>12 DEF CountFails
  <2>4. CASE attempt = 1
    <3>1. attempt' = 2 /\ result' = "parked" /\ pc' = "delist" /\ goal' = goal /\ poisoned' = poisoned
      BY <2>3, <2>4 DEF Raise
    <3>. QED
      BY <1>1, <1>2, <2>1, <2>2, <3>1 DEF Result, TypeOK, Below, Settling, Ended
  <2>5. CASE attempt # 1
    <3>1. /\ poisoned' = poisoned \cup {goal} /\ goal' = None /\ pc' = "read"
          /\ attempt' = attempt /\ result' = result
      BY <2>3, <2>5 DEF Raise
    <3>. QED
      BY <1>1, <1>2, <2>1, <2>2, <3>1 DEF TypeOK, Below, Settling, Ended
  <2>. QED
    BY <2>4, <2>5
<1>13. CASE Append
  BY <1>1, <1>2, <1>13 DEF Append, WriteWorks, WriteFails, TypeOK, Below, Settling, Ended,
     github, config
<1>14. CASE Merged \/ Kill \/ \E g \in Goal : CatchUp(g)
  BY <1>1, <1>2, <1>14 DEF Merged, Kill, CatchUp, TypeOK, Below, Settling, Ended, github, config,
     run, seen
<1>15. ASSUME NEW services \in setting.outages, Break(services)  PROVE TypeOK' /\ Below'
  <2>1. services \subseteq Service
    BY <1>15, GoalRunAssumption DEF TypeOK, Setting
  <2>. QED
    BY <1>1, <1>2, <1>15, <2>1 DEF Break, TypeOK, Below, Settling, Ended, github, config, run, seen
<1>16. CASE UNCHANGED vars
  BY <1>1, <1>2, <1>16 DEF vars, TypeOK, Below, github, config, run, seen
<1>. QED
  BY <1>3, <1>4, <1>5, <1>6, <1>7, <1>8, <1>9, <1>10, <1>11, <1>12, <1>13, <1>14, <1>15, <1>16
     DEF Next, Step

-----------------------------------------------------------------------------
(* What is recorded.                                                       *)

LEMMA RecordStep ==
  ASSUME RunInv, [Next]_vars
  PROVE  Refused' /\ Closed' /\ Gone' /\ SettledOut' /\ DoneIsClosed'
<1>. USE DEF RunInv
<1>1. issue' \in [Goal -> Issue] /\ Forward /\ TypeOK'
  BY IssueStep, TypeStep
<1>2. \A g \in Goal : ~issue[g].open => ~issue'[g].open
  BY <1>1 DEF Forward
<1>3. \A g \in Goal : Out(g) /\ (g \in slipped => g \in slipped') => Out(g)'
  BY <1>1 DEF Forward, Out
<1>4. Refused'
  BY DEF Refused, Next, Step, Start, Pick, Halt, ReadNothing, ReadError, ReadAgain, Return,
     Probe, Close, CloseFails, Raise, Delist, Tag, Count, CountFails, Append, CatchUp, Merged,
     Break, Kill, vars, run
<1>5. Closed'
  <2>1. CASE Close
    BY <2>1, GoalRunAssumption DEF Close, run, TypeOK, Settling, Issue, Closed
  <2>2. CASE Probe
    BY <2>2, GoalRunAssumption DEF Probe, run, github, TypeOK, Settling, Closed
  <2>3. CASE Tag
    BY <2>3 DEF Tag, run, Refused, Closed
  <2>4. CASE ~(Close \/ Probe \/ Tag)
    <3>1. pc' \in {"count", "append"} =>
            pc \in {"count", "append"} /\ goal' = goal /\ result' = result
      BY <2>4 DEF Next, Step, Start, Pick, Halt, ReadNothing, ReadError, ReadAgain, Return,
         CloseFails, Raise, Delist, Count, CountFails, Append, CatchUp, Merged,
         Break, Kill, vars, run, Ended
    <3>. QED
      BY <3>1, <1>2 DEF Closed, TypeOK, Settling
  <2>. QED
    BY <2>1, <2>2, <2>3, <2>4
<1>6. Gone'
  <2>1. CASE Close \/ Probe
    <3>1. pc' = "count" => ~issue'[goal].open /\ goal' = goal
      BY <2>1, GoalRunAssumption DEF Close, Probe, run, github, TypeOK, Settling, Issue
    <3>. QED
      BY <3>1, <2>1 DEF Close, Probe, Gone, Out
  <2>2. CASE Tag
    BY <2>2 DEF Tag, run, Gone, Out
  <2>3. CASE ~(Close \/ Probe \/ Tag)
    <3>1. pc' \in {"count", "append"} =>
            pc \in {"count", "append"} /\ goal' = goal /\ slipped' = slipped
      BY <2>3 DEF Next, Step, Start, Pick, Halt, ReadNothing, ReadError, ReadAgain, Return,
         CloseFails, Raise, Delist, Count, CountFails, Append, CatchUp, Merged,
         Break, Kill, vars, run, seen, Ended
    <3>. QED
      BY <3>1, <1>3 DEF Gone, TypeOK, Settling
  <2>. QED
    BY <2>1, <2>2, <2>3
<1>7. SettledOut'
  <2>1. CASE Append
    <3>1. goal \in Goal /\ Out(goal)
      BY <2>1 DEF Append, Gone, TypeOK, Settling
    <3>. QED
      BY <2>1, <3>1, <1>3 DEF Append, SettledOut, TypeOK
  <2>2. CASE Tag
    <3>1. goal \in Goal
      BY <2>2 DEF Tag, TypeOK, Settling
    <3>2. settled' = settled /\ Out(goal)'
      BY <2>2 DEF Tag, Out, run
    <3>3. \A g \in Goal \ {goal} : g \in slipped => g \in slipped'
      BY <2>2 DEF Tag
    <3>4. goal' = goal
      BY <2>2 DEF Tag, run
    <3>5. ASSUME NEW g \in settled  PROVE Out(g)'
      BY <3>1, <3>2, <3>3, <3>4, <1>3 DEF SettledOut, TypeOK
    <3>. QED
      BY <3>2, <3>5 DEF SettledOut
  <2>3. CASE Start
    BY <2>3 DEF Start, SettledOut
  <2>4. CASE ~(Append \/ Tag \/ Start)
    <3>1. settled' = settled /\ slipped' = slipped
      BY <2>4 DEF Next, Step, Pick, Halt, ReadNothing, ReadError, Return, Probe, Close,
         CloseFails, Delist, Count, CountFails, CatchUp, Merged, Break, Kill, vars, seen
    <3>. QED
      BY <3>1, <1>3 DEF SettledOut, TypeOK
  <2>. QED
    BY <2>1, <2>2, <2>3, <2>4
<1>8. DoneIsClosed'
  <2>1. CASE Append
    <3>1. goal \in Goal /\ issue' = issue /\ (result = "done" => ~issue[goal].open)
      BY <2>1 DEF Append, TypeOK, Settling, Closed, github
    <3>2. outcome' = outcome \/ outcome' = [outcome EXCEPT ![goal] = result]
      BY <2>1 DEF Append
    <3>. QED
      BY <3>1, <3>2 DEF DoneIsClosed, TypeOK
  <2>2. CASE ~Append
    <3>1. outcome' = outcome
      BY <2>2 DEF Next, Step, Start, Pick, Halt, ReadNothing, ReadError, Return, Probe, Close,
         CloseFails, Delist, Tag, Count, CountFails, CatchUp, Merged, Break, Kill, vars
    <3>. QED
      BY <3>1, <1>2 DEF DoneIsClosed
  <2>. QED
    BY <2>1, <2>2
<1>. QED
  BY <1>4, <1>5, <1>6, <1>7, <1>8

-----------------------------------------------------------------------------
(* The theorems.                                                           *)

LEMMA RunInvHolds == Spec => []RunInv
<1>1. RunInv /\ [Next]_vars => RunInv'
  BY TypeStep, RecordStep DEF RunInv
<1>. QED
  BY <1>1, RunStarts, PTL DEF Spec

\* Every variable keeps its type; the goals counted in STATE.md never pass
\* max_iterations, because the budget is asked before a goal is taken (_next).
THEOREM RunTypeCorrect == Spec => []TypeOK
BY RunInvHolds, PTL DEF RunInv

\* The ledger never says done of an open issue, whichever calls fail and
\* wherever the run is killed (run_loop, complete).
THEOREM DoneIsAlwaysClosed == Spec => []DoneIsClosed
BY RunInvHolds, PTL DEF RunInv

\* A goal the run has recorded is served to it again only by a lagging index
\* or after both label calls missed (_offboard, next_pending).
THEOREM SettledAlwaysStaysOut == Spec => SettledStaysOut
<1>1. ASSUME RunInv, [Next]_vars, NEW g \in settled, goal # g, goal' = g
      PROVE  index[g] # issue[g] \/ g \in slipped
  <2>1. g \in Goal /\ g # None
    BY <1>1, GoalRunAssumption DEF RunInv, TypeOK
  <2>2. Pick(g)
    BY <1>1, <2>1 DEF Next, Step, Start, Pick, Halt, ReadNothing, ReadError, Return, Probe,
       Close, CloseFails, Raise, Delist, Tag, Count, CountFails, Append, CatchUp, Merged, Break,
       Kill, vars, run
  <2>. QED
    BY <1>1, <2>2 DEF Pick, Oldest, Listed, RunInv, SettledOut, Out
<1>2. RunInv /\ [Next]_vars
        => [\A g \in settled : goal # g /\ goal' = g => index[g] # issue[g] \/ g \in slipped]_vars
  BY <1>1
<1>. QED
  BY <1>2, RunInvHolds, PTL DEF Spec, SettledStaysOut

=============================================================================
