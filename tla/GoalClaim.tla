------------------------------ MODULE GoalClaim ------------------------------
(***************************************************************************)
(* Goal selection and settlement over one shared .sdlc directory           *)
(* (skills/sdlc-loop/scripts/loop.py, ledger.py, state.py, discovery.py).  *)
(*                                                                         *)
(* A session is a long-lived agent conversation.  It drives the backlog    *)
(* through short-lived `loop.py` processes: `next-batch` / `next --skip`   *)
(* pick goals, `record` settles them.  Several sessions of one person may  *)
(* share the directory.  Teammates act on their own clones; what they do   *)
(* reaches this ledger only as pulled entries.                             *)
(*                                                                         *)
(* The append-only ledger enters selection only through `_held`: the       *)
(* latest lifecycle entry of each goal.  So the model keeps that value,    *)
(* held[g], instead of the log.  A claim names the pid that wrote it, and  *)
(* pids are reused: `alien` is the set of pids the operating system has    *)
(* given to processes that have nothing to do with the loop.               *)
(***************************************************************************)
EXTENDS Integers, FiniteSets

CONSTANTS
  Session,          \* agent sessions of one person, on one machine
  NGoals,           \* goals are numbered in the order next_pending serves them
  Pid,              \* process ids the operating system can hand out
  None,             \* no holder, no process, no goal
  Mate,             \* the holder of a claim written by a teammate's clone
  FailOpen,         \* sessions whose platform has no usable flock
  LedgerEnabled,    \* config ledger.enabled
  MaxConcurrent,    \* config parallel.goals.max_concurrent, 1 when it is off
  MaxIterations,    \* config budget.max_iterations, 0 when it is absent
  Outcome,          \* outcomes `record` may be given
  MaxFaults         \* bound: crashes, foreign claims, reused pids, re-opened goals

Goal == 1..NGoals
Terminal == {"done", "parked", "failed"}
Status == {"pending", "in_progress"} \cup Terminal
Stage == {"none", "working", "cursor", "ledger"}
Section == {"budget", "mark", "claim", "release"}
PC == {"idle", "lease", "pick", "lock"} \cup Section

ASSUME SessionAssumption == None \notin Session /\ FailOpen \subseteq Session
ASSUME HolderAssumption  == None \notin Pid /\ Mate \notin Pid /\ Mate # None
ASSUME GoalAssumption    == NGoals \in Nat /\ None \notin Goal
ASSUME ConfigAssumption  ==
  /\ LedgerEnabled \in BOOLEAN
  /\ MaxConcurrent \in Nat \ {0}
  /\ MaxIterations \in Nat
  /\ MaxFaults \in Nat
  /\ Outcome \subseteq Terminal

VARIABLES
  status,    \* [Goal -> Status]: the `status:` field of each goal file
  runIter,   \* run_iteration of STATE.md, counted up to MaxIterations
  held,      \* [Goal -> Pid + {Mate, None}]: the open claims of the ledger
  lock,      \* [Goal -> Session + {None}]: who has state/claims/<goal>.lock flocked
  pc,        \* where each session's running `next` process is, "idle" when none runs
  pid,       \* the pid of that process
  slots,     \* picks the process may still make in this pass
  skip,      \* goals the current `_next` call passes over
  lease,     \* the claims that call read, once, at its start
  pick,      \* the goal it settled on
  picked,    \* what the pass has claimed so far
  stage,     \* [Session -> [Goal -> Stage]]: what a session's slots do
  alien,     \* pids of unrelated live processes
  faults     \* environment events so far

shared == <<status, runIter, held>>
local  == <<slots, skip, lease, pick, picked>>
env    == <<alien, faults>>
vars   == <<shared, lock, pc, pid, local, stage, env>>

NoLease == [g \in Goal |-> None]

TypeOK ==
  /\ status \in [Goal -> Status]
  /\ runIter \in 0..MaxIterations
  /\ held \in [Goal -> Pid \cup {Mate, None}]
  /\ lock \in [Goal -> Session \cup {None}]
  /\ pc \in [Session -> PC]
  /\ pid \in [Session -> Pid \cup {None}]
  /\ slots \in [Session -> 0..MaxConcurrent]
  /\ \A s \in Session : pc[s] # "idle" => slots[s] > 0
  /\ skip \in [Session -> SUBSET Goal]
  /\ lease \in [Session -> [Goal -> Pid \cup {Mate, None}]]
  /\ pick \in [Session -> Goal \cup {None}]
  /\ \A s \in Session : pick[s] \in Goal <=> pc[s] \in {"lock"} \cup Section
  /\ picked \in [Session -> SUBSET Goal]
  /\ stage \in [Session -> [Goal -> Stage]]
  /\ alien \subseteq Pid
  /\ faults \in 0..MaxFaults

Init ==
  /\ status = [g \in Goal |-> "pending"]
  /\ runIter = 0
  /\ held = NoLease
  /\ lock = [g \in Goal |-> None]
  /\ pc = [s \in Session |-> "idle"]
  /\ pid = [s \in Session |-> None]
  /\ slots = [s \in Session |-> 0]
  /\ skip = [s \in Session |-> {}]
  /\ lease = [s \in Session |-> NoLease]
  /\ pick = [s \in Session |-> None]
  /\ picked = [s \in Session |-> {}]
  /\ stage = [s \in Session |-> [g \in Goal |-> "none"]]
  /\ alien = {}
  /\ faults = 0

-----------------------------------------------------------------------------
(* What the code computes from the state.                                  *)

\* The goals a session's slots are busy with, which it passes as --skip.
Work(s) == {g \in Goal : stage[s][g] # "none"}

\* pid_alive
Alive(p) == p \in alien \/ \E s \in Session : pid[s] = p

\* Mutant: the actor of a claim is not compared.
BelongsToMeAnyActor(s, holder) == holder = pid[s] \/ ~Alive(holder)

\* claim_belongs_to_me: another actor's claim never is; my own process's always
\* is; one of an earlier process of mine is once that process is dead.
BelongsToMe(s, holder) ==
  \/ holder = pid[s]
  \/ holder \in Pid /\ ~Alive(holder)

\* Mutant: only `pending` goals are served, not those a crash left in_progress.
EligiblePendingOnly(s) == {g \in Goal \ skip[s] : status[g] = "pending"}

\* discovery.next_pending: the first goal that is neither skipped nor settled.
\* A goal left in_progress is served again.
Eligible(s) == {g \in Goal \ skip[s] : status[g] \notin Terminal}
NextPending(s, g) == g \in Eligible(s) /\ \A h \in Eligible(s) : g <= h

BudgetSpent == MaxIterations > 0 /\ runIter >= MaxIterations

\* run_iteration only matters up to the ceiling it is compared with.
Advanced(n) == IF n < MaxIterations THEN n + 1 ELSE n

\* Mutant: the remaining budget is taken as it is, without the one attempt.
PassSlotsNoFloor(s) ==
  IF Work(s) # {} THEN 1
  ELSE IF MaxIterations > 0 /\ MaxIterations - runIter < MaxConcurrent
       THEN MaxIterations - runIter
       ELSE MaxConcurrent

\* next_batch: the configured slots, capped by what is left of the budget, and
\* one attempt at least.  A refill of a freed slot is a plain `next`.
PassSlots(s) ==
  IF Work(s) # {} \/ BudgetSpent THEN 1
  ELSE IF MaxIterations > 0 /\ MaxIterations - runIter < MaxConcurrent
       THEN MaxIterations - runIter
       ELSE MaxConcurrent

\* Mutant: the lock's descriptor is not closed.
UnlockedNever(s) == lock

\* The kernel drops a flock when its holder closes it or dies.
Unlocked(s) == [g \in Goal |-> IF lock[g] = s THEN None ELSE lock[g]]

-----------------------------------------------------------------------------
(* One `next` / `next-batch` process.                                      *)

\* loop.py start: the run's counters are reset before the first goal.
StartRun(s) ==
  /\ pc[s] = "idle"
  /\ Work(s) = {}
  /\ runIter' = 0
  /\ UNCHANGED <<status, held, lock, pc, pid, local, stage, env>>

\* Mutant: a refill forgets --skip.
InvokeNoSkip(s) ==
  /\ pc[s] = "idle"
  /\ Cardinality(Work(s)) < MaxConcurrent
  /\ \E p \in Pid : ~Alive(p) /\ pid' = [pid EXCEPT ![s] = p]
  /\ slots' = [slots EXCEPT ![s] = PassSlots(s)]
  /\ pc' = [pc EXCEPT ![s] = "lease"]
  /\ UNCHANGED <<shared, lock, skip, lease, pick, picked, stage, env>>

\* A session with a free slot starts a process, under some unused pid.
Invoke(s) ==
  /\ pc[s] = "idle"
  /\ Cardinality(Work(s)) < MaxConcurrent
  /\ \E p \in Pid : ~Alive(p) /\ pid' = [pid EXCEPT ![s] = p]
  /\ slots' = [slots EXCEPT ![s] = PassSlots(s)]
  /\ skip' = [skip EXCEPT ![s] = Work(s)]
  /\ pc' = [pc EXCEPT ![s] = "lease"]
  /\ UNCHANGED <<shared, lock, lease, pick, picked, stage, env>>

\* The process ends.  The session starts one slot on each goal of `got`.
Exit(s, got) ==
  /\ pc' = [pc EXCEPT ![s] = "idle"]
  /\ pid' = [pid EXCEPT ![s] = None]
  /\ lock' = Unlocked(s)
  /\ slots' = [slots EXCEPT ![s] = 0]
  /\ skip' = [skip EXCEPT ![s] = {}]
  /\ lease' = [lease EXCEPT ![s] = NoLease]
  /\ pick' = [pick EXCEPT ![s] = None]
  /\ picked' = [picked EXCEPT ![s] = {}]
  /\ stage' = [stage EXCEPT ![s] =
                 [g \in Goal |-> IF g \in got THEN "working" ELSE stage[s][g]]]

\* _lease: the claims are read once per selection.
ReadLease(s) ==
  /\ pc[s] = "lease"
  /\ lease' = [lease EXCEPT ![s] = IF LedgerEnabled THEN held ELSE NoLease]
  /\ pc' = [pc EXCEPT ![s] = "pick"]
  /\ UNCHANGED <<shared, lock, pid, slots, skip, pick, picked, stage, env>>

\* Nothing is left: DONE.
Drained(s) ==
  /\ pc[s] = "pick"
  /\ Eligible(s) = {}
  /\ Exit(s, picked[s])
  /\ UNCHANGED <<shared, env>>

\* The next goal is claimed by somebody else, says the lease.
SkipHeld(s, g) ==
  /\ pc[s] = "pick"
  /\ NextPending(s, g)
  /\ lease[s][g] # None
  /\ ~BelongsToMe(s, lease[s][g])
  /\ skip' = [skip EXCEPT ![s] = @ \cup {g}]
  /\ UNCHANGED <<shared, lock, pc, pid, slots, lease, pick, picked, stage, env>>

Choose(s, g) ==
  /\ pc[s] = "pick"
  /\ NextPending(s, g)
  /\ lease[s][g] = None \/ BelongsToMe(s, lease[s][g])
  /\ pick' = [pick EXCEPT ![s] = g]
  /\ pc' = [pc EXCEPT ![s] = "lock"]
  /\ UNCHANGED <<shared, lock, pid, slots, skip, lease, picked, stage, env>>

\* Mutant: the answer of flock is ignored.
LockIgnored(s) ==
  /\ pc[s] = "lock"
  /\ s \notin FailOpen
  /\ lock' = [lock EXCEPT ![pick[s]] = s]
  /\ pc' = [pc EXCEPT ![s] = "budget"]
  /\ UNCHANGED <<shared, pid, local, stage, env>>

\* _try_acquire_claim_lock: flock(LOCK_EX | LOCK_NB).
LockGranted(s) ==
  /\ pc[s] = "lock"
  /\ s \notin FailOpen
  /\ lock[pick[s]] = None
  /\ lock' = [lock EXCEPT ![pick[s]] = s]
  /\ pc' = [pc EXCEPT ![s] = "budget"]
  /\ UNCHANGED <<shared, pid, local, stage, env>>

\* Denied: a live sibling holds it, so the goal is passed over.
LockDenied(s) ==
  /\ pc[s] = "lock"
  /\ s \notin FailOpen
  /\ lock[pick[s]] # None
  /\ skip' = [skip EXCEPT ![s] = @ \cup {pick[s]}]
  /\ pick' = [pick EXCEPT ![s] = None]
  /\ pc' = [pc EXCEPT ![s] = "pick"]
  /\ UNCHANGED <<shared, lock, pid, slots, lease, picked, stage, env>>

\* _LOCK_UNAVAILABLE: no fcntl, or the file cannot be opened; go on without it.
LockUnavailable(s) ==
  /\ pc[s] = "lock"
  /\ s \in FailOpen
  /\ pc' = [pc EXCEPT ![s] = "budget"]
  /\ UNCHANGED <<shared, lock, pid, local, stage, env>>

BudgetHalt(s) ==
  /\ pc[s] = "budget"
  /\ BudgetSpent
  /\ Exit(s, picked[s])
  /\ UNCHANGED <<shared, env>>

BudgetLeft(s) ==
  /\ pc[s] = "budget"
  /\ ~BudgetSpent
  /\ pc' = [pc EXCEPT ![s] = "mark"]
  /\ UNCHANGED <<shared, lock, pid, local, stage, env>>

\* source.mark_in_progress overwrites whatever status the file has by now.
MarkInProgress(s) ==
  /\ pc[s] = "mark"
  /\ status' = [status EXCEPT ![pick[s]] = "in_progress"]
  /\ pc' = [pc EXCEPT ![s] = "claim"]
  /\ UNCHANGED <<runIter, held, lock, pid, local, stage, env>>

\* ledger.safe_append("claimed"): this process now holds the goal's claim.
AppendClaim(s) ==
  /\ pc[s] = "claim"
  /\ held' = IF LedgerEnabled THEN [held EXCEPT ![pick[s]] = pid[s]] ELSE held
  /\ pc' = [pc EXCEPT ![s] = "release"]
  /\ UNCHANGED <<status, runIter, lock, pid, local, stage, env>>

\* Mutant: the pick just made is not added to the next one's skip list.
NextSlotNoSkip(s) ==
  /\ pc[s] = "release"
  /\ slots[s] > 1
  /\ lock' = Unlocked(s)
  /\ picked' = [picked EXCEPT ![s] = @ \cup {pick[s]}]
  /\ slots' = [slots EXCEPT ![s] = @ - 1]
  /\ pick' = [pick EXCEPT ![s] = None]
  /\ pc' = [pc EXCEPT ![s] = "lease"]
  /\ lease' = [lease EXCEPT ![s] = NoLease]
  /\ UNCHANGED <<shared, pid, skip, stage, env>>

\* The lock is dropped; the pass goes on to its next slot with a fresh lease ...
NextSlot(s) ==
  /\ pc[s] = "release"
  /\ slots[s] > 1
  /\ lock' = Unlocked(s)
  /\ picked' = [picked EXCEPT ![s] = @ \cup {pick[s]}]
  /\ skip' = [skip EXCEPT ![s] = picked[s] \cup {pick[s]}]
  /\ slots' = [slots EXCEPT ![s] = @ - 1]
  /\ pick' = [pick EXCEPT ![s] = None]
  /\ pc' = [pc EXCEPT ![s] = "lease"]
  /\ lease' = [lease EXCEPT ![s] = NoLease]
  /\ UNCHANGED <<shared, pid, stage, env>>

\* ... or returns its picks.
LastSlot(s) ==
  /\ pc[s] = "release"
  /\ slots[s] <= 1
  /\ Exit(s, picked[s] \cup {pick[s]})
  /\ UNCHANGED <<shared, env>>

Select(s) ==
  \/ ReadLease(s) \/ Drained(s)
  \/ \E g \in Goal : SkipHeld(s, g) \/ Choose(s, g)
  \/ LockGranted(s) \/ LockDenied(s) \/ LockUnavailable(s)
  \/ BudgetHalt(s) \/ BudgetLeft(s)
  \/ MarkInProgress(s) \/ AppendClaim(s) \/ NextSlot(s) \/ LastSlot(s)

-----------------------------------------------------------------------------
(* `loop.py record`, run by the slot that worked on the goal: three writes. *)

SetStatus(s, g) ==
  /\ stage[s][g] = "working"
  /\ \E o \in Outcome : status' = [status EXCEPT ![g] = o]
  /\ stage' = [stage EXCEPT ![s][g] = "cursor"]
  /\ UNCHANGED <<runIter, held, lock, pc, pid, local, env>>

AdvanceCursor(s, g) ==
  /\ stage[s][g] = "cursor"
  /\ runIter' = Advanced(runIter)
  /\ stage' = [stage EXCEPT ![s][g] = "ledger"]
  /\ UNCHANGED <<status, held, lock, pc, pid, local, env>>

\* An outcome entry releases the claim, whoever holds it.
AppendOutcome(s, g) ==
  /\ stage[s][g] = "ledger"
  /\ held' = [held EXCEPT ![g] = None]
  /\ stage' = [stage EXCEPT ![s][g] = "none"]
  /\ UNCHANGED <<status, runIter, lock, pc, pid, local, env>>

Record(s, g) == SetStatus(s, g) \/ AdvanceCursor(s, g) \/ AppendOutcome(s, g)

-----------------------------------------------------------------------------
(* The environment.                                                        *)

Fault == faults < MaxFaults /\ faults' = faults + 1

\* A `next` process is killed; its slots keep working.
ProcessDies(s) ==
  /\ Fault
  /\ pc[s] # "idle"
  /\ Exit(s, {})
  /\ UNCHANGED <<shared, alien>>

\* The whole session is killed: its process, its slots, a record half done.
SessionDies(s) ==
  /\ Fault
  /\ pc[s] # "idle" \/ Work(s) # {}
  /\ pc' = [pc EXCEPT ![s] = "idle"]
  /\ pid' = [pid EXCEPT ![s] = None]
  /\ lock' = Unlocked(s)
  /\ slots' = [slots EXCEPT ![s] = 0]
  /\ skip' = [skip EXCEPT ![s] = {}]
  /\ lease' = [lease EXCEPT ![s] = NoLease]
  /\ pick' = [pick EXCEPT ![s] = None]
  /\ picked' = [picked EXCEPT ![s] = {}]
  /\ stage' = [stage EXCEPT ![s] = [g \in Goal |-> "none"]]
  /\ UNCHANGED <<shared, alien>>

\* A pull brings in a teammate's claim that is newer than what we have.
MateClaims(g) ==
  /\ Fault
  /\ LedgerEnabled
  /\ held[g] # Mate
  /\ held' = [held EXCEPT ![g] = Mate]
  /\ UNCHANGED <<status, runIter, lock, pc, pid, local, stage, alien>>

\* A claim outlives its TTL, or a pull brings in an outcome that releases it.
ClaimLapses(g) ==
  /\ held[g] # None
  /\ held' = [held EXCEPT ![g] = None]
  /\ UNCHANGED <<status, runIter, lock, pc, pid, local, stage, env>>

\* A human puts a settled goal back into the backlog.
Reopen(g) ==
  /\ Fault
  /\ status[g] \in Terminal
  /\ status' = [status EXCEPT ![g] = "pending"]
  /\ UNCHANGED <<runIter, held, lock, pc, pid, local, stage, alien>>

PidReused(p) ==
  /\ Fault
  /\ ~Alive(p)
  /\ alien' = alien \cup {p}
  /\ UNCHANGED <<shared, lock, pc, pid, local, stage>>

PidFreed(p) ==
  /\ p \in alien
  /\ alien' = alien \ {p}
  /\ UNCHANGED <<shared, lock, pc, pid, local, stage, faults>>

Next ==
  \/ \E s \in Session : \/ StartRun(s) \/ Invoke(s) \/ Select(s)
                        \/ ProcessDies(s) \/ SessionDies(s)
                        \/ \E g \in Goal : Record(s, g)
  \/ \E g \in Goal : MateClaims(g) \/ ClaimLapses(g) \/ Reopen(g)
  \/ \E p \in Pid : PidReused(p) \/ PidFreed(p)

Spec == Init /\ [][Next]_vars

\* A running process and a running slot do finish, a routine keeps starting
\* `next`, and time passes, so every claim reaches its TTL.
Fairness ==
  /\ \A s \in Session : WF_vars(Invoke(s)) /\ WF_vars(Select(s))
  /\ \A s \in Session : \A g \in Goal : WF_vars(Record(s, g))
  /\ \A g \in Goal : WF_vars(ClaimLapses(g))

FairSpec == Spec /\ Fairness

-----------------------------------------------------------------------------
(* Properties.                                                             *)

\* A claim lock is held exactly while a live process is between taking it and
\* releasing it: neither a budget halt, nor the end of a pass, nor a crash
\* leaves state/claims/<goal>.lock flocked (loop.py, _next's finally).
LockFollowsSection ==
  \A g \in Goal, s \in Session :
    lock[g] = s <=> pc[s] \in Section /\ pick[s] = g /\ s \notin FailOpen

\* The slots of one session never collide: a pass never settles on a goal that
\* one of the session's own slots still works on, nor twice on the same goal,
\* although the claims that would say so were written by processes that are
\* dead by then (loop.py, next_batch's skip list and next's --skip).
NoSlotCollision ==
  \A s \in Session :
    /\ pc[s] \in Section => pick[s] \notin Work(s) \cup picked[s]
    /\ picked[s] \cap Work(s) = {}

\* While a process is between taking a goal's lock and releasing it, no sibling
\* that can flock claims that goal: its claim changes only to the process's own,
\* to a teammate's, to none, or to that of a sibling without flock (loop.py,
\* _next's lock section).
SectionShieldsClaim ==
  [][\A s \in Session \ FailOpen :
       pc[s] \in Section /\ held'[pick[s]] # held[pick[s]]
         => held'[pick[s]] \in {Mate, None} \cup {pid[t] : t \in FailOpen \cup {s}}]_vars

\* A teammate's claim that stood when the lease was read is never overwritten
\* by the selection that read it, unless it lapsed in between and was taken
\* again (loop.py, _next; ledger.py, claim_belongs_to_me).
MateClaimRespected ==
  [][\A g \in Goal :
       held[g] = Mate /\ held'[g] \in Pid
         => \E s \in Session : pid[s] = held'[g] /\ lease[s][g] # Mate]_vars

\* With one session on the directory, a goal a slot works on stays in_progress
\* until that slot records it: no crash, foreign claim, reused pid or later
\* pick re-opens, re-serves or settles it (loop.py, _next and _record).
SlotGoalInProgress ==
  \A s \in Session, g \in Goal :
    stage[s][g] = "working" => status[g] = "in_progress"

\* Every goal that is open is settled in the end: what a killed process, a
\* killed session, a reused pid or a silent teammate leaves claimed or
\* in_progress is served again (loop.py, _next; ledger.py, _held's TTL).
OpenGoalSettles ==
  \A g \in Goal : status[g] \notin Terminal ~> status[g] \in Terminal

\* README.md:559: two sessions cannot both grab the same goal.
NoGoalInTwoSessions ==
  \A s, t \in Session : s # t => Work(s) \cap Work(t) = {}

\* loop.py:122: two processes racing _next() do not both proceed.  Between a
\* selection's lease and its claim, no sibling has put a claim on the goal.
NoClaimSlippedIn ==
  \A s \in Session :
    pc[s] = "claim" => \/ held[pick[s]] \in {None, Mate}
                       \/ held[pick[s]] = lease[s][pick[s]]

\* README.md:48: a run halts on max_iterations, and tests/test_loop.py:578: no
\* more goals are dispatched than it allows for the whole run.  What a run has
\* counted and what its slots will still count stays within the ceiling.
RunWithinBudget ==
  MaxIterations > 0 =>
    \A s \in Session :
      LET uncounted == {g \in Goal : stage[s][g] \in {"working", "cursor"}}
      IN  runIter + Cardinality(uncounted) <= MaxIterations

=============================================================================
