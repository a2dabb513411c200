--------------------------- MODULE GoalClaimProofs ---------------------------
(* Theorems about GoalClaim, for every number of sessions, goals, pids and   *)
(* faults.                                                                   *)
EXTENDS GoalClaim, TLAPS

\* What a finished process leaves behind has the right type, whatever it picked.
LEMMA ExitType ==
  ASSUME TypeOK, NEW s \in Session, NEW got \in SUBSET Goal, Exit(s, got)
  PROVE  /\ lock' \in [Goal -> Session \cup {None}]
         /\ pc' \in [Session -> PC]
         /\ pid' \in [Session -> Pid \cup {None}]
         /\ slots' \in [Session -> 0..MaxConcurrent]
         /\ \A t \in Session : pc'[t] # "idle" => slots'[t] > 0
         /\ skip' \in [Session -> SUBSET Goal]
         /\ lease' \in [Session -> [Goal -> Pid \cup {Mate, None}]]
         /\ pick' \in [Session -> Goal \cup {None}]
         /\ \A t \in Session : pick'[t] \in Goal <=> pc'[t] \in {"lock"} \cup Section
         /\ picked' \in [Session -> SUBSET Goal]
         /\ stage' \in [Session -> [Goal -> Stage]]
<1> USE DEF TypeOK, Exit
<1>1. lock' \in [Goal -> Session \cup {None}]
  BY DEF Unlocked
<1>2. pc' \in [Session -> PC] /\ pid' \in [Session -> Pid \cup {None}]
  BY DEF PC
<1>3. /\ slots' \in [Session -> 0..MaxConcurrent]
      /\ \A t \in Session : pc'[t] # "idle" => slots'[t] > 0
  BY ConfigAssumption
<1>4. /\ skip' \in [Session -> SUBSET Goal] /\ picked' \in [Session -> SUBSET Goal]
      /\ pick' \in [Session -> Goal \cup {None}]
  OBVIOUS
<1>5. lease' \in [Session -> [Goal -> Pid \cup {Mate, None}]]
  BY DEF NoLease
<1>6. stage' \in [Session -> [Goal -> Stage]]
  BY DEF Stage
<1>7. \A t \in Session : pick'[t] \in Goal <=> pc'[t] \in {"lock"} \cup Section
  BY GoalAssumption DEF Section
<1> QED BY <1>1, <1>2, <1>3, <1>4, <1>5, <1>6, <1>7

\* A pass has at least one attempt and never more slots than configured
\* (next_batch's max(1, min(max_concurrent, remaining))).
LEMMA PassSlotsBounds ==
  ASSUME TypeOK, NEW s \in Session
  PROVE  PassSlots(s) \in 1..MaxConcurrent
BY ConfigAssumption DEF TypeOK, PassSlots, BudgetSpent

\* Type correctness: in particular a running process always has a slot to fill.
THEOREM TypeCorrect == Spec => []TypeOK
<1>1. Init => TypeOK
  BY ConfigAssumption, GoalAssumption DEF Init, TypeOK, NoLease, Status, PC, Stage, Section
<1>2. TypeOK /\ [Next]_vars => TypeOK'
  <2> SUFFICES ASSUME TypeOK, [Next]_vars PROVE TypeOK'
    OBVIOUS
  <2> USE DEF TypeOK, shared, local, env
  <2>1. ASSUME NEW s \in Session, StartRun(s) PROVE TypeOK'
    BY <2>1, ConfigAssumption DEF StartRun
  <2>2. ASSUME NEW s \in Session, Invoke(s) PROVE TypeOK'
    <3>1. slots' \in [Session -> 0..MaxConcurrent] /\ slots'[s] > 0
      BY <2>2, PassSlotsBounds, ConfigAssumption DEF Invoke
    <3>2. skip' \in [Session -> SUBSET Goal]
      BY <2>2 DEF Invoke, Work
    <3>3. pc' \in [Session -> PC] /\ pid' \in [Session -> Pid \cup {None}]
      BY <2>2 DEF Invoke, PC
    <3>4. \A t \in Session : pc'[t] # "idle" => slots'[t] > 0
      BY <2>2, <3>1 DEF Invoke
    <3> QED BY <2>2, <3>1, <3>2, <3>3, <3>4 DEF Invoke, Section
  <2>3. ASSUME NEW s \in Session, Select(s) PROVE TypeOK'
    <3>1. CASE ReadLease(s)
      BY <3>1 DEF ReadLease, NoLease, PC, Section
    <3>2. CASE Drained(s)
      BY <3>2, ExitType DEF Drained
    <3>3. ASSUME NEW g \in Goal, SkipHeld(s, g) PROVE TypeOK'
      BY <3>3 DEF SkipHeld
    <3>4. ASSUME NEW g \in Goal, Choose(s, g) PROVE TypeOK'
      BY <3>4 DEF Choose, PC
    <3>5. CASE LockGranted(s)
      BY <3>5 DEF LockGranted, PC, Section
    <3>6. CASE LockDenied(s)
      <4>1. pick[s] \in Goal
        BY <3>6 DEF LockDenied
      <4> QED BY <3>6, <4>1, GoalAssumption DEF LockDenied, PC, Section
    <3>7. CASE LockUnavailable(s)
      BY <3>7 DEF LockUnavailable, PC, Section
    <3>8. CASE BudgetHalt(s)
      BY <3>8, ExitType DEF BudgetHalt
    <3>9. CASE BudgetLeft(s)
      BY <3>9 DEF BudgetLeft, PC, Section
    <3>10. CASE MarkInProgress(s)
      BY <3>10 DEF MarkInProgress, PC, Section, Status
    <3>11. CASE AppendClaim(s)
      BY <3>11 DEF AppendClaim, PC, Section
    <3>12. CASE NextSlot(s)
      <4>1. pick[s] \in Goal
        BY <3>12 DEF NextSlot, Section
      <4>2. lock' \in [Goal -> Session \cup {None}]
        BY <3>12 DEF NextSlot, Unlocked
      <4>3. /\ slots' \in [Session -> 0..MaxConcurrent]
            /\ \A t \in Session : pc'[t] # "idle" => slots'[t] > 0
        BY <3>12, ConfigAssumption DEF NextSlot
      <4>4. lease' \in [Session -> [Goal -> Pid \cup {Mate, None}]]
        BY <3>12 DEF NextSlot, NoLease
      <4> QED BY <3>12, <4>1, <4>2, <4>3, <4>4, GoalAssumption
              DEF NextSlot, PC, Section
    <3>13. CASE LastSlot(s)
      <4>1. picked[s] \cup {pick[s]} \in SUBSET Goal
        BY <3>13 DEF LastSlot, Section
      <4> QED BY <3>13, <4>1, ExitType DEF LastSlot
    <3> QED BY <2>3, <3>1, <3>2, <3>3, <3>4, <3>5, <3>6, <3>7, <3>8, <3>9,
               <3>10, <3>11, <3>12, <3>13 DEF Select
  <2>4. ASSUME NEW s \in Session, ProcessDies(s) PROVE TypeOK'
    BY <2>4, ExitType, ConfigAssumption DEF ProcessDies, Fault
  <2>5. ASSUME NEW s \in Session, SessionDies(s) PROVE TypeOK'
    <3>1. lock' \in [Goal -> Session \cup {None}]
      BY <2>5 DEF SessionDies, Unlocked
    <3>2. faults' \in 0..MaxFaults
      BY <2>5, ConfigAssumption DEF SessionDies, Fault
    <3> QED BY <2>5, <3>1, <3>2, GoalAssumption, ConfigAssumption
            DEF SessionDies, NoLease, PC, Section, Stage
  <2>6. ASSUME NEW s \in Session, NEW g \in Goal, Record(s, g) PROVE TypeOK'
    <3>1. CASE SetStatus(s, g)
      BY <3>1, ConfigAssumption DEF SetStatus, Status, Stage
    <3>2. CASE AdvanceCursor(s, g)
      <4>1. runIter' \in 0..MaxIterations
        BY <3>2, ConfigAssumption DEF AdvanceCursor, Advanced
      <4> QED BY <3>2, <4>1 DEF AdvanceCursor, Stage
    <3>3. CASE AppendOutcome(s, g)
      BY <3>3 DEF AppendOutcome, Stage
    <3> QED BY <2>6, <3>1, <3>2, <3>3 DEF Record
  <2>7. ASSUME NEW g \in Goal, MateClaims(g) PROVE TypeOK'
    BY <2>7, ConfigAssumption DEF MateClaims, Fault
  <2>8. ASSUME NEW g \in Goal, ClaimLapses(g) PROVE TypeOK'
    BY <2>8 DEF ClaimLapses
  <2>9. ASSUME NEW g \in Goal, Reopen(g) PROVE TypeOK'
    BY <2>9, ConfigAssumption DEF Reopen, Fault, Status
  <2>10. ASSUME NEW p \in Pid, PidReused(p) PROVE TypeOK'
    BY <2>10, ConfigAssumption DEF PidReused, Fault
  <2>11. ASSUME NEW p \in Pid, PidFreed(p) PROVE TypeOK'
    BY <2>11 DEF PidFreed
  <2>12. CASE UNCHANGED vars
    BY <2>12 DEF vars
  <2> QED BY <2>1, <2>2, <2>3, <2>4, <2>5, <2>6, <2>7, <2>8, <2>9, <2>10,
             <2>11, <2>12 DEF Next
<1> QED BY <1>1, <1>2, PTL DEF Spec

-----------------------------------------------------------------------------
(* The claim lock.                                                         *)

\* The next-state relation, split into what holds the lock of `s` in place and
\* the four ways it can change.  Whatever else a step does, it leaves every
\* session's section, pick and lock alone.
LEMMA LockStep ==
  ASSUME TypeOK, LockFollowsSection, [Next]_vars
  PROVE  LockFollowsSection'
<1> USE DEF TypeOK, LockFollowsSection, shared, local, env
<1>1. ASSUME NEW s \in Session, NEW got, Exit(s, got) PROVE LockFollowsSection'
  BY <1>1, SessionAssumption, GoalAssumption DEF Exit, Unlocked, Section
<1>2. ASSUME NEW s \in Session, Select(s) PROVE LockFollowsSection'
  <2>1. CASE ReadLease(s)
    BY <2>1 DEF ReadLease, Section
  <2>2. ASSUME NEW g \in Goal, SkipHeld(s, g) \/ Choose(s, g) PROVE LockFollowsSection'
    BY <2>2 DEF SkipHeld, Choose, Section
  <2>3. CASE LockGranted(s)
    BY <2>3, SessionAssumption DEF LockGranted, Section
  <2>4. CASE LockDenied(s)
    BY <2>4 DEF LockDenied, Section
  <2>5. CASE LockUnavailable(s)
    BY <2>5 DEF LockUnavailable, Section
  <2>6. CASE BudgetLeft(s) \/ MarkInProgress(s) \/ AppendClaim(s)
    BY <2>6 DEF BudgetLeft, MarkInProgress, AppendClaim, Section
  <2>7. CASE NextSlot(s)
    BY <2>7, SessionAssumption DEF NextSlot, Unlocked, Section
  <2>8. CASE Drained(s) \/ BudgetHalt(s) \/ LastSlot(s)
    BY <2>8, <1>1 DEF Drained, BudgetHalt, LastSlot
  <2> QED BY <1>2, <2>1, <2>2, <2>3, <2>4, <2>5, <2>6, <2>7, <2>8 DEF Select
<1>3. ASSUME NEW s \in Session, StartRun(s) \/ Invoke(s) PROVE LockFollowsSection'
  BY <1>3 DEF StartRun, Invoke, Section
<1>4. ASSUME NEW s \in Session, ProcessDies(s) PROVE LockFollowsSection'
  BY <1>4, <1>1 DEF ProcessDies
<1>5. ASSUME NEW s \in Session, SessionDies(s) PROVE LockFollowsSection'
  BY <1>5, SessionAssumption DEF SessionDies, Unlocked, Section
<1>6. ASSUME NEW s \in Session, NEW g \in Goal, Record(s, g) PROVE LockFollowsSection'
  BY <1>6 DEF Record, SetStatus, AdvanceCursor, AppendOutcome
<1>7. ASSUME NEW g \in Goal, MateClaims(g) \/ ClaimLapses(g) \/ Reopen(g)
      PROVE LockFollowsSection'
  BY <1>7 DEF MateClaims, ClaimLapses, Reopen
<1>8. ASSUME NEW p \in Pid, PidReused(p) \/ PidFreed(p) PROVE LockFollowsSection'
  BY <1>8 DEF PidReused, PidFreed
<1>9. CASE UNCHANGED vars
  BY <1>9 DEF vars
<1> QED BY <1>2, <1>3, <1>4, <1>5, <1>6, <1>7, <1>8, <1>9 DEF Next

\* The claim lock of a goal is flocked exactly while a live process is between
\* taking and releasing it (_next's finally, and the kernel on a crash).
THEOREM LockNeverLeaks == Spec => []LockFollowsSection
<1>1. Init => LockFollowsSection
  BY SessionAssumption DEF Init, LockFollowsSection, Section
<1> QED BY <1>1, LockStep, TypeCorrect, PTL DEF Spec

\* So at most one process that can flock is between taking and releasing the
\* lock of a goal (_try_acquire_claim_lock's exclusive winner).
THEOREM OneInSection ==
  Spec => [](\A s, t \in Session \ FailOpen :
               pc[s] \in Section /\ pc[t] \in Section /\ pick[s] = pick[t] => s = t)
<1>1. TypeOK /\ LockFollowsSection =>
        \A s, t \in Session \ FailOpen :
          pc[s] \in Section /\ pc[t] \in Section /\ pick[s] = pick[t] => s = t
  BY DEF TypeOK, LockFollowsSection, Section
<1> QED BY <1>1, TypeCorrect, LockNeverLeaks, PTL

-----------------------------------------------------------------------------
(* The slots of one session.                                               *)

\* What makes NoSlotCollision inductive.  The skip list of a running pass holds
\* the session's busy goals and the pass's own picks, its pick is outside that
\* list, and a pass of several slots started with no busy goal.
PassInv ==
  \A s \in Session :
    /\ pc[s] = "idle" => picked[s] = {} /\ slots[s] = 0
    /\ pc[s] # "idle" => Work(s) \cup picked[s] \subseteq skip[s]
    /\ pc[s] \in {"lock"} \cup Section => pick[s] \notin skip[s]
    /\ picked[s] # {} \/ slots[s] > 1 => Work(s) = {}

\* A selection's steps leave the slots to their work, unless they end it.
LEMMA SelectKeepsStage ==
  ASSUME NEW s \in Session, Select(s), ~Drained(s), ~BudgetHalt(s), ~LastSlot(s)
  PROVE  stage' = stage
BY DEF Select, ReadLease, SkipHeld, Choose, LockGranted, LockDenied, LockUnavailable,
       BudgetLeft, MarkInProgress, AppendClaim, NextSlot

LEMMA PassStep ==
  ASSUME TypeOK, PassInv, [Next]_vars
  PROVE  PassInv'
<1> USE DEF TypeOK, PassInv, shared, local, env
<1>1. ASSUME NEW s \in Session, NEW got, Exit(s, got) PROVE PassInv'
  <2>1. \A t \in Session \ {s} : Work(t)' = Work(t)
    BY <1>1 DEF Exit, Work
  <2> QED BY <1>1, <2>1 DEF Exit, Section
<1>2. ASSUME NEW s \in Session, Select(s) PROVE PassInv'
  <2>1. CASE stage' = stage
    <3>1. \A t \in Session : Work(t)' = Work(t)
      BY <2>1 DEF Work
    <3>2. CASE ReadLease(s) \/ LockGranted(s) \/ LockUnavailable(s)
      BY <3>1, <3>2 DEF ReadLease, LockGranted, LockUnavailable, Section
    <3>3. CASE BudgetLeft(s) \/ MarkInProgress(s) \/ AppendClaim(s)
      <4>1. /\ pc[s] \in Section
            /\ \E q \in Section : pc' = [pc EXCEPT ![s] = q]
            /\ UNCHANGED local
        BY <3>3 DEF BudgetLeft, MarkInProgress, AppendClaim, Section
      <4> QED BY <3>1, <4>1 DEF Section
    <3>4. ASSUME NEW g \in Goal, SkipHeld(s, g) PROVE PassInv'
      BY <3>1, <3>4 DEF SkipHeld, Section
    <3>5. ASSUME NEW g \in Goal, Choose(s, g) PROVE PassInv'
      BY <3>1, <3>5 DEF Choose, NextPending, Eligible, Section
    <3>6. CASE LockDenied(s)
      BY <3>1, <3>6 DEF LockDenied, Section
    <3>7. CASE NextSlot(s)
      BY <3>1, <3>7 DEF NextSlot, Section
    <3>8. CASE Drained(s) \/ BudgetHalt(s) \/ LastSlot(s)
      BY <3>8, <1>1 DEF Drained, BudgetHalt, LastSlot
    <3> QED BY <1>2, <3>2, <3>3, <3>4, <3>5, <3>6, <3>7, <3>8 DEF Select
  <2>2. CASE stage' # stage
    <3>1. Drained(s) \/ BudgetHalt(s) \/ LastSlot(s)
      BY <1>2, <2>2, SelectKeepsStage
    <3> QED BY <3>1, <1>1 DEF Drained, BudgetHalt, LastSlot
  <2> QED BY <2>1, <2>2
<1>3. ASSUME NEW s \in Session, StartRun(s) PROVE PassInv'
  <2>1. UNCHANGED <<pc, local, stage>>
    BY <1>3 DEF StartRun
  <2>2. \A t \in Session : Work(t)' = Work(t)
    BY <2>1 DEF Work
  <2> QED BY <2>1, <2>2
<1>4. ASSUME NEW s \in Session, Invoke(s) PROVE PassInv'
  <2>1. \A t \in Session : Work(t)' = Work(t)
    BY <1>4 DEF Invoke, Work
  <2>2. Work(s) # {} => PassSlots(s) = 1
    BY DEF PassSlots
  <2>3. /\ skip' = [skip EXCEPT ![s] = Work(s)] /\ slots'[s] = PassSlots(s)
        /\ pc' = [pc EXCEPT ![s] = "lease"] /\ picked' = picked /\ pick' = pick
        /\ \A t \in Session \ {s} : slots'[t] = slots[t]
        /\ pc[s] = "idle"
    BY <1>4 DEF Invoke
  <2>4. \A t \in Session \ {s} :
          /\ pc'[t] = pc[t] /\ skip'[t] = skip[t] /\ picked'[t] = picked[t]
          /\ pick'[t] = pick[t] /\ slots'[t] = slots[t] /\ Work(t)' = Work(t)
    BY <2>1, <2>3
  <2>5. /\ pc'[s] = "lease" /\ skip'[s] = Work(s) /\ picked'[s] = {}
        /\ slots'[s] > 1 => Work(s)' = {}
    BY <2>1, <2>2, <2>3
  <2>6. /\ pc'[s] # "idle" => Work(s)' \cup picked'[s] \subseteq skip'[s]
        /\ pc'[s] \notin {"lock"} \cup Section
        /\ picked'[s] = {} /\ (slots'[s] > 1 => Work(s)' = {})
    BY <2>1, <2>5 DEF Section
  <2> QED BY <2>4, <2>5, <2>6
<1>5. ASSUME NEW s \in Session, ProcessDies(s) PROVE PassInv'
  BY <1>5, <1>1 DEF ProcessDies
<1>6. ASSUME NEW s \in Session, SessionDies(s) PROVE PassInv'
  <2>1. Work(s)' = {} /\ \A t \in Session \ {s} : Work(t)' = Work(t)
    BY <1>6 DEF SessionDies, Work
  <2> QED BY <1>6, <2>1 DEF SessionDies, Section
<1>7. ASSUME NEW s \in Session, NEW g \in Goal, Record(s, g) PROVE PassInv'
  <2>1. /\ stage[s][g] # "none"
        /\ \A t \in Session, h \in Goal : stage'[t][h] # "none" => stage[t][h] # "none"
    BY <1>7 DEF Record, SetStatus, AdvanceCursor, AppendOutcome
  <2>2. \A t \in Session : Work(t)' \subseteq Work(t)
    BY <2>1 DEF Work
  <2> QED BY <1>7, <2>2 DEF Record, SetStatus, AdvanceCursor, AppendOutcome
<1>8. ASSUME NEW g \in Goal, MateClaims(g) \/ ClaimLapses(g) \/ Reopen(g) PROVE PassInv'
  BY <1>8 DEF MateClaims, ClaimLapses, Reopen, Work
<1>9. ASSUME NEW p \in Pid, PidReused(p) \/ PidFreed(p) PROVE PassInv'
  <2>1. UNCHANGED <<pc, local, stage>>
    BY <1>9 DEF PidReused, PidFreed
  <2>2. \A t \in Session : Work(t)' = Work(t)
    BY <2>1 DEF Work
  <2> QED BY <2>1, <2>2
<1>10. CASE UNCHANGED vars
  BY <1>10 DEF vars, Work
<1> QED BY <1>2, <1>3, <1>4, <1>5, <1>6, <1>7, <1>8, <1>9, <1>10 DEF Next

\* A pass never settles on a goal one of the session's own slots still works on,
\* nor twice on the same goal, however many of the processes that wrote the
\* claims are dead (next_batch's skip list, next's --skip).
THEOREM SlotsNeverCollide == Spec => []NoSlotCollision
<1>1. Init => PassInv
  BY DEF Init, PassInv, Work, Section
<1>2. TypeOK /\ PassInv => NoSlotCollision
  BY DEF TypeOK, PassInv, NoSlotCollision, Section, PC
<1> QED BY <1>1, <1>2, PassStep, TypeCorrect, PTL DEF Spec

-----------------------------------------------------------------------------
(* What a claim may overwrite.                                             *)

\* Only AppendClaim writes a pid into the claims, and it is the pid of the
\* process that appends, on the goal that process picked.
LEMMA ClaimStep ==
  ASSUME TypeOK, [Next]_vars, NEW g \in Goal, held'[g] \in Pid, held'[g] # held[g]
  PROVE  \E s \in Session : AppendClaim(s) /\ pick[s] = g /\ held'[g] = pid[s]
<1> USE HolderAssumption DEF TypeOK, shared, local, env
<1>1. ASSUME NEW s \in Session, AppendClaim(s)
      PROVE  pick[s] = g /\ held'[g] = pid[s]
  BY <1>1 DEF AppendClaim
<1>2. ASSUME NEW s \in Session, Select(s), ~AppendClaim(s) PROVE FALSE
  BY <1>2 DEF Select, ReadLease, Drained, SkipHeld, Choose, LockGranted, LockDenied,
     LockUnavailable, BudgetHalt, BudgetLeft, MarkInProgress, NextSlot, LastSlot
<1>3. ASSUME NEW s \in Session,
             StartRun(s) \/ Invoke(s) \/ ProcessDies(s) \/ SessionDies(s)
      PROVE  FALSE
  BY <1>3 DEF StartRun, Invoke, ProcessDies, SessionDies
<1>4. ASSUME NEW s \in Session, NEW h \in Goal, Record(s, h) PROVE FALSE
  BY <1>4 DEF Record, SetStatus, AdvanceCursor, AppendOutcome
<1>5. ASSUME NEW h \in Goal, MateClaims(h) \/ ClaimLapses(h) \/ Reopen(h) PROVE FALSE
  BY <1>5 DEF MateClaims, ClaimLapses, Reopen
<1>6. ASSUME NEW p \in Pid, PidReused(p) \/ PidFreed(p) PROVE FALSE
  BY <1>6 DEF PidReused, PidFreed
<1>7. CASE UNCHANGED vars
  BY <1>7 DEF vars
<1> QED BY <1>1, <1>2, <1>3, <1>4, <1>5, <1>6, <1>7 DEF Next

\* While a process that can flock is in its section, no sibling that can flock
\* puts a claim on that goal (the gap _try_acquire_claim_lock closes).
THEOREM SectionIsShielded == Spec => SectionShieldsClaim
<1> DEFINE Shielded ==
      \A s \in Session \ FailOpen :
        pc[s] \in Section /\ held'[pick[s]] # held[pick[s]]
          => held'[pick[s]] \in {Mate, None} \cup {pid[t] : t \in FailOpen \cup {s}}
<1>1. ASSUME TypeOK, TypeOK', LockFollowsSection, [Next]_vars PROVE Shielded
  <2> SUFFICES ASSUME NEW s \in Session \ FailOpen, pc[s] \in Section,
                      held'[pick[s]] # held[pick[s]], held'[pick[s]] \in Pid
               PROVE  \E t \in FailOpen \cup {s} : held'[pick[s]] = pid[t]
    BY <1>1 DEF TypeOK, Section
  <2>1. pick[s] \in Goal
    BY <1>1 DEF TypeOK
  <2>2. PICK t \in Session : AppendClaim(t) /\ pick[t] = pick[s] /\ held'[pick[s]] = pid[t]
    BY <1>1, <2>1, ClaimStep
  <2>3. pc[t] \in Section
    BY <2>2 DEF AppendClaim, Section
  <2>4. t \in FailOpen \/ t = s
    BY <1>1, <2>1, <2>2, <2>3 DEF LockFollowsSection
  <2> QED BY <2>2, <2>4
<1>2. TypeOK /\ TypeOK' /\ LockFollowsSection /\ [Next]_vars => [Shielded]_vars
  BY <1>1
<1> QED BY <1>2, TypeCorrect, LockNeverLeaks, PTL DEF Spec, SectionShieldsClaim

\* The goal a process has settled on was not a teammate's in the lease it read.
LeaseInv ==
  \A s \in Session : pc[s] \in {"lock"} \cup Section => lease[s][pick[s]] # Mate

LEMMA LeaseStep ==
  ASSUME TypeOK, LeaseInv, [Next]_vars
  PROVE  LeaseInv'
<1> USE DEF TypeOK, LeaseInv, shared, local, env
<1>1. ASSUME NEW s \in Session, NEW got, Exit(s, got) PROVE LeaseInv'
  BY <1>1 DEF Exit, Section
<1>2. ASSUME NEW s \in Session, Select(s) PROVE LeaseInv'
  <2>1. CASE ReadLease(s) \/ LockDenied(s) \/ NextSlot(s)
    <3>1. pc'[s] \notin {"lock"} \cup Section
      BY <2>1 DEF ReadLease, LockDenied, NextSlot, Section
    <3>2. ASSUME NEW t \in Session \ {s}
          PROVE  pc'[t] = pc[t] /\ lease'[t] = lease[t] /\ pick'[t] = pick[t]
      BY <2>1 DEF ReadLease, LockDenied, NextSlot
    <3> QED BY <3>1, <3>2
  <2>2. ASSUME NEW g \in Goal, SkipHeld(s, g) PROVE LeaseInv'
    BY <2>2 DEF SkipHeld, Section
  <2>3. ASSUME NEW g \in Goal, Choose(s, g) PROVE LeaseInv'
    <3>1. lease[s][g] # Mate
      BY <2>3, HolderAssumption DEF Choose, BelongsToMe
    <3> QED BY <2>3, <3>1 DEF Choose, Section
  <2>4. CASE LockGranted(s) \/ LockUnavailable(s) \/ BudgetLeft(s)
             \/ MarkInProgress(s) \/ AppendClaim(s)
    <3>1. /\ pc[s] \in {"lock"} \cup Section
          /\ \E q \in Section : pc' = [pc EXCEPT ![s] = q]
          /\ UNCHANGED local
      BY <2>4 DEF LockGranted, LockUnavailable, BudgetLeft, MarkInProgress,
         AppendClaim, Section
    <3> QED BY <3>1
  <2>5. CASE Drained(s) \/ BudgetHalt(s) \/ LastSlot(s)
    BY <2>5, <1>1 DEF Drained, BudgetHalt, LastSlot
  <2> QED BY <1>2, <2>1, <2>2, <2>3, <2>4, <2>5 DEF Select
<1>3. ASSUME NEW s \in Session, StartRun(s) \/ Invoke(s) PROVE LeaseInv'
  BY <1>3 DEF StartRun, Invoke, Section
<1>4. ASSUME NEW s \in Session, ProcessDies(s) PROVE LeaseInv'
  BY <1>4, <1>1 DEF ProcessDies
<1>5. ASSUME NEW s \in Session, SessionDies(s) PROVE LeaseInv'
  BY <1>5 DEF SessionDies, Section
<1>6. ASSUME NEW s \in Session, NEW g \in Goal, Record(s, g) PROVE LeaseInv'
  BY <1>6 DEF Record, SetStatus, AdvanceCursor, AppendOutcome
<1>7. ASSUME NEW g \in Goal, MateClaims(g) \/ ClaimLapses(g) \/ Reopen(g) PROVE LeaseInv'
  BY <1>7 DEF MateClaims, ClaimLapses, Reopen
<1>8. ASSUME NEW p \in Pid, PidReused(p) \/ PidFreed(p) PROVE LeaseInv'
  BY <1>8 DEF PidReused, PidFreed
<1>9. CASE UNCHANGED vars
  BY <1>9 DEF vars
<1> QED BY <1>2, <1>3, <1>4, <1>5, <1>6, <1>7, <1>8, <1>9 DEF Next

\* A selection overwrites a teammate's claim only if the claim it saw when it
\* read the lease was a different one (claim_belongs_to_me's first case).
THEOREM MateClaimsAreRespected == Spec => MateClaimRespected
<1> DEFINE Respected ==
      \A g \in Goal :
        held[g] = Mate /\ held'[g] \in Pid
          => \E s \in Session : pid[s] = held'[g] /\ lease[s][g] # Mate
<1>1. ASSUME TypeOK, LeaseInv, [Next]_vars PROVE Respected
  <2> SUFFICES ASSUME NEW g \in Goal, held[g] = Mate, held'[g] \in Pid
               PROVE  \E s \in Session : pid[s] = held'[g] /\ lease[s][g] # Mate
    OBVIOUS
  <2>1. PICK s \in Session : AppendClaim(s) /\ pick[s] = g /\ held'[g] = pid[s]
    BY <1>1, ClaimStep, HolderAssumption
  <2>2. lease[s][g] # Mate
    BY <1>1, <2>1 DEF LeaseInv, AppendClaim, Section
  <2> QED BY <2>1, <2>2
<1>2. Init => LeaseInv
  BY DEF Init, LeaseInv, Section
<1>3. TypeOK /\ LeaseInv /\ [Next]_vars => [Respected]_vars
  BY <1>1
<1> QED BY <1>2, <1>3, LeaseStep, TypeCorrect, PTL DEF Spec, MateClaimRespected

-----------------------------------------------------------------------------
(* One session on the directory.                                           *)

\* The properties that are about one routine alone on its directory assume
\* this and nothing else.
OneSession == \A s, t \in Session : s = t

\* What makes SlotGoalInProgress inductive: a goal is in_progress from the
\* moment its process has marked it, before any slot works on it.
MarkedInv ==
  \A s \in Session :
    /\ \A g \in picked[s] : status[g] = "in_progress"
    /\ pc[s] \in {"claim", "release"} => status[pick[s]] = "in_progress"

ProgressInv == SlotGoalInProgress /\ MarkedInv

\* The only writes of a goal's status are the mark of a process, the first
\* write of `record` and a human's re-opening.
LEMMA StatusWriters ==
  ASSUME [Next]_vars, status' # status
  PROVE  \/ \E s \in Session : MarkInProgress(s)
         \/ \E s \in Session, g \in Goal : SetStatus(s, g)
         \/ \E g \in Goal : Reopen(g)
<1> USE DEF shared, local, env
<1>1. ASSUME NEW s \in Session, Select(s) PROVE MarkInProgress(s)
  BY <1>1 DEF Select, ReadLease, Drained, SkipHeld, Choose, LockGranted, LockDenied,
     LockUnavailable, BudgetHalt, BudgetLeft, AppendClaim, NextSlot, LastSlot
<1>2. ASSUME NEW s \in Session,
             StartRun(s) \/ Invoke(s) \/ ProcessDies(s) \/ SessionDies(s)
      PROVE  FALSE
  BY <1>2 DEF StartRun, Invoke, ProcessDies, SessionDies
<1>3. ASSUME NEW s \in Session, NEW g \in Goal, Record(s, g) PROVE SetStatus(s, g)
  BY <1>3 DEF Record, AdvanceCursor, AppendOutcome
<1>4. ASSUME NEW g \in Goal, MateClaims(g) \/ ClaimLapses(g) PROVE FALSE
  BY <1>4 DEF MateClaims, ClaimLapses
<1>5. ASSUME NEW p \in Pid, PidReused(p) \/ PidFreed(p) PROVE FALSE
  BY <1>5 DEF PidReused, PidFreed
<1>6. CASE UNCHANGED vars
  BY <1>6 DEF vars
<1> QED BY <1>1, <1>2, <1>3, <1>4, <1>5, <1>6 DEF Next

\* A step that leaves the goals' status alone keeps the invariant: only the end
\* of a pass gives goals to slots, and those are the goals it has marked.
LEMMA ProgressStepIdle ==
  ASSUME TypeOK, PassInv, ProgressInv, [Next]_vars, status' = status
  PROVE  ProgressInv'
<1> USE DEF TypeOK, ProgressInv, SlotGoalInProgress, MarkedInv, shared, local, env
<1>1. ASSUME NEW s \in Session, NEW got, Exit(s, got),
             \A g \in got \cap Goal : status[g] = "in_progress"
      PROVE  ProgressInv'
  <2>1. \A t \in Session, g \in Goal :
          stage'[t][g] = "working" => stage[t][g] = "working" \/ (t = s /\ g \in got)
    BY <1>1 DEF Exit
  <2>2. \A t \in Session : /\ picked'[t] \subseteq picked[t]
                           /\ pc'[t] \in {"claim", "release"} =>
                                pc'[t] = pc[t] /\ pick'[t] = pick[t]
    BY <1>1 DEF Exit
  <2> QED BY <1>1, <2>1, <2>2
<1>2. ASSUME NEW s \in Session, Select(s) PROVE ProgressInv'
  <2>1. CASE ReadLease(s) \/ LockGranted(s) \/ LockDenied(s) \/ LockUnavailable(s)
             \/ BudgetLeft(s)
    BY <2>1 DEF ReadLease, LockGranted, LockDenied, LockUnavailable, BudgetLeft
  <2>2. ASSUME NEW g \in Goal, SkipHeld(s, g) \/ Choose(s, g) PROVE ProgressInv'
    BY <2>2 DEF SkipHeld, Choose
  <2>3. CASE MarkInProgress(s)
    BY <2>3 DEF MarkInProgress
  <2>4. CASE AppendClaim(s)
    BY <2>4 DEF AppendClaim
  <2>5. CASE NextSlot(s)
    BY <2>5 DEF NextSlot
  <2>6. CASE Drained(s) \/ BudgetHalt(s)
    BY <2>6, <1>1 DEF Drained, BudgetHalt
  <2>7. CASE LastSlot(s)
    BY <2>7, <1>1 DEF LastSlot
  <2> QED BY <1>2, <2>1, <2>2, <2>3, <2>4, <2>5, <2>6, <2>7 DEF Select
<1>3. ASSUME NEW s \in Session, StartRun(s) \/ Invoke(s) PROVE ProgressInv'
  BY <1>3 DEF StartRun, Invoke
<1>4. ASSUME NEW s \in Session, ProcessDies(s) PROVE ProgressInv'
  BY <1>4, <1>1 DEF ProcessDies
<1>5. ASSUME NEW s \in Session, SessionDies(s) PROVE ProgressInv'
  BY <1>5 DEF SessionDies
<1>6. ASSUME NEW s \in Session, NEW g \in Goal, Record(s, g) PROVE ProgressInv'
  <2>1. PICK v \in {"cursor", "ledger", "none"} : stage' = [stage EXCEPT ![s][g] = v]
    BY <1>6 DEF Record, SetStatus, AdvanceCursor, AppendOutcome
  <2>2. \A t \in Session, h \in Goal : stage'[t][h] = "working" => stage[t][h] = "working"
    BY <2>1
  <2>3. UNCHANGED <<picked, pc, pick>>
    BY <1>6 DEF Record, SetStatus, AdvanceCursor, AppendOutcome
  <2> QED BY <2>2, <2>3
<1>7. ASSUME NEW g \in Goal, MateClaims(g) \/ ClaimLapses(g) \/ Reopen(g) PROVE ProgressInv'
  BY <1>7 DEF MateClaims, ClaimLapses, Reopen
<1>8. ASSUME NEW p \in Pid, PidReused(p) \/ PidFreed(p) PROVE ProgressInv'
  BY <1>8 DEF PidReused, PidFreed
<1>9. CASE UNCHANGED vars
  BY <1>9 DEF vars
<1> QED BY <1>2, <1>3, <1>4, <1>5, <1>6, <1>7, <1>8, <1>9 DEF Next

LEMMA ProgressStep ==
  ASSUME OneSession, TypeOK, PassInv, ProgressInv, [Next]_vars
  PROVE  ProgressInv'
<1>1. CASE status' = status
  BY <1>1, ProgressStepIdle
<1>2. ASSUME NEW s \in Session, MarkInProgress(s) PROVE ProgressInv'
  <2>1. pick[s] \in Goal
    BY <1>2 DEF MarkInProgress, TypeOK, Section
  <2>2. /\ status'[pick[s]] = "in_progress"
        /\ \A h \in Goal : status[h] = "in_progress" => status'[h] = "in_progress"
    BY <1>2, <2>1 DEF MarkInProgress, TypeOK
  <2>3. UNCHANGED <<picked, pick, stage>> /\ pc' = [pc EXCEPT ![s] = "claim"]
    BY <1>2 DEF MarkInProgress, local
  <2> QED BY <2>1, <2>2, <2>3 DEF OneSession, TypeOK, ProgressInv, SlotGoalInProgress, MarkedInv
<1>3. ASSUME NEW s \in Session, NEW g \in Goal, SetStatus(s, g) PROVE ProgressInv'
  <2> USE DEF TypeOK, ProgressInv, SlotGoalInProgress, MarkedInv
  <2>1. g \in Work(s)
    BY <1>3 DEF SetStatus, Work
  <2>2. g \notin picked[s] /\ (pc[s] \in {"claim", "release"} => pick[s] # g)
    BY <2>1 DEF PassInv, Section, PC
  <2>3. \A h \in Goal \ {g} : status'[h] = status[h]
    BY <1>3 DEF SetStatus
  <2>4. \A h \in Goal : stage'[s][h] = "working" => h # g /\ stage[s][h] = "working"
    BY <1>3 DEF SetStatus
  <2>5. pc[s] \in {"claim", "release"} => pick[s] \in Goal
    BY DEF Section
  <2>6. picked' = picked /\ pc' = pc /\ pick' = pick
    BY <1>3 DEF SetStatus, local
  <2> QED BY <2>2, <2>3, <2>4, <2>5, <2>6 DEF OneSession
<1>4. ASSUME NEW g \in Goal, Reopen(g) PROVE ProgressInv'
  <2>1. status[g] # "in_progress"
    BY <1>4 DEF Reopen, Terminal
  <2>2. \A h \in Goal : status[h] = "in_progress" => status'[h] = "in_progress"
    BY <1>4, <2>1 DEF Reopen, TypeOK
  <2>3. UNCHANGED <<picked, pc, pick, stage>>
    BY <1>4 DEF Reopen, local
  <2> QED BY <2>2, <2>3 DEF TypeOK, ProgressInv, SlotGoalInProgress, MarkedInv, Section
<1> QED BY <1>1, <1>2, <1>3, <1>4, StatusWriters

\* With one session on the directory, the goal a slot works on stays in_progress
\* until that slot records it, whatever crashes, foreign claims, reused pids and
\* re-opened goals come in between (_next's mark, _record's first write).
THEOREM SlotGoalStaysInProgress == OneSession => (Spec => []SlotGoalInProgress)
<1> SUFFICES ASSUME OneSession PROVE Spec => []SlotGoalInProgress
  OBVIOUS
<1>1. Init => PassInv /\ ProgressInv
  BY DEF Init, PassInv, Work, Section, ProgressInv, SlotGoalInProgress, MarkedInv
<1>2. TypeOK /\ PassInv /\ ProgressInv /\ [Next]_vars => PassInv' /\ ProgressInv'
  BY PassStep, ProgressStep
<1>3. ProgressInv => SlotGoalInProgress
  BY DEF ProgressInv
<1> QED BY <1>1, <1>2, <1>3, TypeCorrect, PTL DEF Spec

=============================================================================
