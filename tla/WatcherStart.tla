---------------------------- MODULE WatcherStart ----------------------------
(***************************************************************************)
(* One watcher per .sdlc directory (skills/sdlc-loop/scripts/watch.sh).    *)
(*                                                                         *)
(* Every loop trigger starts a watch.sh.  It takes the directory           *)
(* watch.decide.lock as a mutex, or reclaims one that is over 30 seconds   *)
(* old behind a second directory, the gate; looks in watch.pid whether a   *)
(* watcher runs; and either becomes the watcher or exits.                  *)
(*                                                                         *)
(* A process is its pid, and a pid that is idle may be given to a new      *)
(* watch.sh, or to an unrelated process (`alien`).  A directory is kept as *)
(* the process that made it, which its users cannot see: rmdir removes     *)
(* whatever directory has that name.                                       *)
(*                                                                         *)
(* One such watcher per clone is what LedgerSync's clones rely on.         *)
(***************************************************************************)
EXTENDS Naturals

CONSTANTS
  Proc,         \* the pids
  None,         \* no directory, no pid file
  MayStall,     \* whether a process may be suspended for longer than 30 seconds
  MaxMishaps    \* bound: kills, stalls, reused pids

ASSUME WatcherAssumption ==
  None \notin Proc /\ MayStall \in BOOLEAN /\ MaxMishaps \in Nat

VARIABLES
  mutex,    \* who made $STATE/watch.decide.lock, or None
  age,      \* "old" once its mtime is over 30 seconds ago, "new" before
  gate,     \* who made $STATE/watch.decide.lock.reclaim, or None
  pidf,     \* what $STATE/watch.pid names, or None
  at,       \* where each process is
  alien,    \* pids of unrelated live processes
  mishaps

watcherVars == <<mutex, age, gate, pidf, at, alien, mishaps>>

\* Between making the mutex and removing it; behind the gate; a watcher.
Deciding == {"open", "decide", "clear", "write", "leave", "free"}
Reclaiming == {"stat", "evict", "retake", "close", "open"}
Watching == {"watch", "unlink"}

WatcherTypeOK ==
  /\ mutex \in Proc \cup {None}
  /\ age \in {"new", "old"}
  /\ gate \in Proc \cup {None}
  /\ pidf \in Proc \cup {None}
  /\ at \in [Proc -> {"idle", "gate"} \cup Deciding \cup Reclaiming \cup Watching]
  /\ alien \subseteq Proc
  /\ mishaps \in 0..MaxMishaps
  /\ \A p \in Proc : at[p] \in Reclaiming => gate = p

WatcherInit ==
  /\ mutex = None
  /\ age = "new"
  /\ gate = None
  /\ pidf = None
  /\ at = [p \in Proc |-> "idle"]
  /\ alien = {}
  /\ mishaps = 0

\* kill -0
Alive(p) == at[p] # "idle" \/ p \in alien

MoveTo(p, l) == at' = [at EXCEPT ![p] = l]

\* mkdir watch.decide.lock
MakeMutex(p) == mutex' = p /\ age' = "new"

Mishap == mishaps < MaxMishaps /\ mishaps' = mishaps + 1

-----------------------------------------------------------------------------
(* The decision.                                                           *)

\* A trigger starts a watch.sh, which tries the mutex.  The pid of a watcher
\* that left its pid file behind is as good as any other, if unlikely.
Start(p) ==
  /\ ~Alive(p)
  /\ IF p = pidf THEN Mishap ELSE UNCHANGED mishaps
  /\ IF mutex = None
     THEN MakeMutex(p) /\ MoveTo(p, "decide")
     ELSE UNCHANGED <<mutex, age>> /\ MoveTo(p, "gate")
  /\ UNCHANGED <<gate, pidf, alien>>

\* mkdir watch.decide.lock.reclaim, or back off: a sibling is deciding.
Gate(p) ==
  /\ at[p] = "gate"
  /\ IF gate = None
     THEN gate' = p /\ MoveTo(p, "stat")
     ELSE UNCHANGED gate /\ MoveTo(p, "idle")
  /\ UNCHANGED <<mutex, age, pidf, alien, mishaps>>

\* Mutant: a mutex that is gone looks as old as can be.
StatGoneIsOld(p) ==
  /\ at[p] = "stat"
  /\ MoveTo(p, IF mutex = None \/ age = "old" THEN "evict" ELSE "close")
  /\ UNCHANGED <<mutex, age, gate, pidf, alien, mishaps>>

\* A mutex that is gone counts as one that is not old.
Stat(p) ==
  /\ at[p] = "stat"
  /\ MoveTo(p, IF mutex # None /\ age = "old" THEN "evict" ELSE "close")
  /\ UNCHANGED <<mutex, age, gate, pidf, alien, mishaps>>

Evict(p) ==
  /\ at[p] = "evict"
  /\ mutex' = None
  /\ age' = "new"
  /\ MoveTo(p, "retake")
  /\ UNCHANGED <<gate, pidf, alien, mishaps>>

\* Somebody may have started and made it in between.
Retake(p) ==
  /\ at[p] = "retake"
  /\ IF mutex = None
     THEN MakeMutex(p) /\ MoveTo(p, "open")
     ELSE UNCHANGED <<mutex, age>> /\ MoveTo(p, "close")
  /\ UNCHANGED <<gate, pidf, alien, mishaps>>

\* rmdir of the gate, with the mutex or without it.
Ungate(p) ==
  /\ at[p] \in {"open", "close"}
  /\ gate' = None
  /\ MoveTo(p, IF at[p] = "open" THEN "decide" ELSE "idle")
  /\ UNCHANGED <<mutex, age, pidf, alien, mishaps>>

\* Mutant: the pid file counts whether its process lives or not.
DecideByFile(p) ==
  /\ at[p] = "decide"
  /\ MoveTo(p, IF pidf # None THEN "leave" ELSE "clear")
  /\ UNCHANGED <<mutex, age, gate, pidf, alien, mishaps>>

\* Mutant: a watcher that lives is started over.
DecideBlind(p) ==
  /\ at[p] = "decide"
  /\ MoveTo(p, "clear")
  /\ UNCHANGED <<mutex, age, gate, pidf, alien, mishaps>>

\* Does the process that watch.pid names live?
Decide(p) ==
  /\ at[p] = "decide"
  /\ MoveTo(p, IF pidf # None /\ Alive(pidf) THEN "leave" ELSE "clear")
  /\ UNCHANGED <<mutex, age, gate, pidf, alien, mishaps>>

ClearPidfile(p) ==
  /\ at[p] = "clear"
  /\ pidf' = None
  /\ MoveTo(p, "write")
  /\ UNCHANGED <<mutex, age, gate, alien, mishaps>>

WritePidfile(p) ==
  /\ at[p] = "write"
  /\ pidf' = p
  /\ MoveTo(p, "free")
  /\ UNCHANGED <<mutex, age, gate, alien, mishaps>>

\* rmdir watch.decide.lock; then watch, or exit: one is running already.
FreeMutex(p) ==
  /\ at[p] \in {"free", "leave"}
  /\ mutex' = None
  /\ age' = "new"
  /\ MoveTo(p, IF at[p] = "free" THEN "watch" ELSE "idle")
  /\ UNCHANGED <<gate, pidf, alien, mishaps>>

\* The stop file, the last tick or a signal; the trap looks into watch.pid ...
Stop(p) ==
  /\ at[p] = "watch"
  /\ MoveTo(p, IF pidf = p THEN "unlink" ELSE "idle")
  /\ UNCHANGED <<mutex, age, gate, pidf, alien, mishaps>>

\* ... and removes it.
Unlink(p) ==
  /\ at[p] = "unlink"
  /\ pidf' = None
  /\ MoveTo(p, "idle")
  /\ UNCHANGED <<mutex, age, gate, alien, mishaps>>

Step(p) ==
  \/ Gate(p) \/ Stat(p) \/ Evict(p) \/ Retake(p) \/ Ungate(p)
  \/ Decide(p) \/ ClearPidfile(p) \/ WritePidfile(p) \/ FreeMutex(p) \/ Unlink(p)

-----------------------------------------------------------------------------
(* The environment.                                                        *)

\* kill -9, a crash of the machine.
Die(p) ==
  /\ Mishap
  /\ at[p] # "idle"
  /\ MoveTo(p, "idle")
  /\ UNCHANGED <<mutex, age, gate, pidf, alien>>

\* Whether the mutex belongs to nobody any more.
Orphaned == mutex # None /\ at[mutex] \notin Deciding

\* The mutex turns 30 seconds old: its maker died, or was suspended, with the
\* machine it runs on for instance.
Age ==
  /\ mutex # None
  /\ age = "new"
  /\ IF Orphaned THEN UNCHANGED mishaps ELSE MayStall /\ Mishap
  /\ age' = "old"
  /\ UNCHANGED <<mutex, gate, pidf, at, alien>>

PidReused(p) ==
  /\ Mishap
  /\ ~Alive(p)
  /\ alien' = alien \cup {p}
  /\ UNCHANGED <<mutex, age, gate, pidf, at>>

PidFreed(p) ==
  /\ p \in alien
  /\ alien' = alien \ {p}
  /\ UNCHANGED <<mutex, age, gate, pidf, at, mishaps>>

WatcherNext ==
  \/ \E p \in Proc : Start(p) \/ Step(p) \/ Stop(p) \/ Die(p) \/ PidReused(p) \/ PidFreed(p)
  \/ Age

WatcherSpec == WatcherInit /\ [][WatcherNext]_watcherVars

\* Triggers keep coming, a script that decides gets on with it, time passes,
\* and an unrelated process ends some day.  Watchers need not stop.
WatcherFairSpec ==
  /\ WatcherSpec
  /\ WF_watcherVars(\E p \in Proc : Start(p))
  /\ \A p \in Proc : WF_watcherVars(Step(p)) /\ WF_watcherVars(PidFreed(p))
  /\ WF_watcherVars(Orphaned /\ Age)

-----------------------------------------------------------------------------
(* Properties.                                                             *)

\* watch.sh:140: the mutex prevents two watchers from ever coexisting.
OneWatcher ==
  \A p, q \in Proc : at[p] \in Watching /\ at[q] \in Watching => p = q

\* A running watcher is the one watch.pid names, so the next trigger finds it
\* and its own exit removes no other's file (watch.sh, the pid file and the trap).
PidfileNamesWatcher ==
  \A p \in Proc : at[p] \in Watching => pidf = p

\* After the last fault a watcher runs again, whatever mutex or pid file the
\* dead ones left, unless one of them died behind the gate, which nothing
\* reclaims (watch.sh, the reclaim of the mutex and the liveness test).
WatcherComesBack ==
  (mishaps = MaxMishaps /\ (gate = None \/ at[gate] \in Reclaiming))
    ~> \E p \in Proc : at[p] = "watch"

=============================================================================
