# A TLA+ model of loopsmith

loopsmith drives an agent through a backlog of goals. A *session* (an agent conversation) calls
short-lived Python processes that pick a goal, mark it, claim it in a ledger the team shares, and
record its outcome; a background watcher exchanges the ledger with the team over a git branch. The
parts talk through files under `.sdlc/`, which several processes of one machine, and through git
several machines, read and write at once. This directory models those parts in TLA+, checks them
with TLC on small instances, and proves the central properties for every instance with TLAPS.

Paths below are relative to `src/skills/sdlc-loop/scripts/` unless they start elsewhere.

## 1. Inventory

| Part | State it keeps | Operations | Talks to |
|---|---|---|---|
| Goal selection and settlement: `loop.py`, `discovery.py`, `LocalSource` in `sources.py` | `status:` of the goal files; `state/claims/<goal>.lock` | `start`, `next [--skip]`, `next-batch`, `record`, `run_loop`, session and agent markers, `decompose-check` | cursor (budget), ledger (claims), watcher (starts it), inbox |
| Run cursor: `state.py` | `state/STATE.md`: iteration, run_iteration, run_tokens, run_started_at; `STATE.md.lock` | `start_run`, `add_tokens`, `advance_cursor`, `load_cursor` | called by selection, `record`, `spend` |
| Ledger: `ledger.py` | append-only `ledger/entries/<actor>-<host>.<pid>.jsonl` | `append`, `read_all`, `_held` (claims), `claim_belongs_to_me`, `outstanding` (hand-offs), `render` (TEAM.md) | everything that reports, `sync.py` |
| Ledger sync: `sync.py` | the ops branch: local HEAD, index, worktree, remote tip | `init`, `bootstrap`, `pull`, `publish` | git, the watcher's tick |
| Watcher start: `watch.sh` | `watch.decide.lock/`, `watch.decide.lock.reclaim/`, `watch.pid`, `watch.stop` | decide, reclaim, watch, stop | started by every `next`; runs `sync.py`, `watch.py`, `agent_watch.py`, `comment_watch.py` |
| Inbox: `watch.py`, `watch_classify.py`, `comment_watch.py` | `state/inbox.md`, `state/watch-cursor.json` | `tick`, `read_inbox`, `clear_inbox` | the ledger; `next` prints and clears |
| Hand-offs: `handoff.py`, `owners.py`, `mirror.py` | hand-off and ack entries; tracked issues | `hand_off`, `acknowledge`, `create_tracked_issue` | ledger, GitHub |
| Worktree, review, merge: `work.py`, `review_context.py` | `state/work/<goal>`, branch, pull request, review cycles | `start`, `commit`, `pr`, `gate`, `post_review`, `merge`, `finish` | git, GitHub, verify evidence (`state.done_refusal`) |
| Slices: `slices.py` | the goal's manifest with the slices' statuses | `check`, `plan` (`validate`, `conflicts`, `schedule`) | the session dispatches waves and marks slices done |
| Agent death watch: `agent_watch.py`, markers in `loop.py` | `state/agents/`, a cursor of its own | `agent-start`, `agent-end`, `tick` | ledger, e-mail |
| Supervisor: `supervise.sh`, `supervise_classify.py` | attempts, backoff | relaunch, sleep, stop | the agent host |
| GitHub source: `GitHubSource` in `sources.py` | labels, comments, board cards, dependencies of issues | the source operations | GitHub |
| Decomposition and sizing: `decompose_goal.py`, `goal_size.py`, `backlog_check.py` | markers in comments | `decompose-check` | GitHub source |
| Hooks: `src/hooks/` | plan and evidence files | gates on tool calls | the agent host |
| Insight: `src/insight/` | its own analytics store: facts, goals, cursors; accounts | `ingest`, metrics, API, web | reads ledgers, git, GitHub |
| The rest: `pipeline.py`, `actionlog.py`, `scrub.py`, `frontmatter.py`, scans, the other skills' scripts | local logs and reports | | |

What is hard about them, and what makes each correct:

- **Selection.** Several sessions of one person share a directory, each with several slots, and any
  process may be killed between two of its writes. Nobody may start a goal that somebody still works
  on; no lock may leak; a goal that a crash left behind must be served again.
- **Cursor.** Slots count and spend concurrently, readers take no lock, and a reader may create the
  file. No increment is lost, no published value is overwritten, nobody waits for ever.
- **Ledger and sync.** Clones push to one branch with retries, while processes append to files git is
  rebasing. Nothing published or committed disappears; what is committed arrives.
- **Watcher start.** Every trigger starts a watcher and all but one must give up, although the mutex
  and the pid file outlive the processes that made them. At most one runs; one does come back.
- **Inbox.** Append, print and clear are separate steps of separate processes; no item is lost.
- **Hand-offs.** Settlement is computed from a log whose order is only by second; an open hand-off is
  not taken for settled, and a settled one does not return.
- **Merge.** Evidence, approvals and the head of a pull request are read at one time and used at
  another; nothing unreviewed or unverified is merged.
- **Slices.** Every wave respects dependencies and conflicts, every valid manifest is run to its end.
- **GitHub source, run_loop.** Settling a goal is several calls that fail one by one, the backlog is read
  through an index that lags; the ledger says done only of closed issues, and a run ends.
- **Agent death watch, comment watch.** A death or a comment is told, and told once, although the watch
  may be killed between the notice and its own memory of it.
- **Insight's ingest.** The store has no key that would refuse a record twice, and a cursor row for each
  file decides what is new; runs are killed, files are unreadable, an older release kept another cursor.
  A record lands once, and none is skipped for good.
- **Supervisor.** It ends.

The hazards of the code, each at its line with the property that watches it or the reason why none
does, are in `PROJECT.json`.

## 2. Plan

In order of importance. All of these are written, checked and proved about:

1. `GoalClaim`: selection, claims and settlement by sessions sharing a directory.
2. `CursorService` (abstract) and `Cursor` (stored), the second shown to implement the first.
3. `SharedLedger` (abstract) and `LedgerSync`: clones, watchers' ticks and the ops branch, shown to
   implement it.
4. `WatcherStart`: the mutex and the pid file that make "one watcher per clone" true, which
   `LedgerSync` and `TeamInbox` assume.
5. `WorkMerge`: one goal's worktree, branch, pull request, review, gate and merge.
6. `TeamInbox`: hand-offs and notes of several writers, the tick with its cursor and signatures, the
   death and comment watches, and `next`'s surface-and-clear.
7. `Slices`: manifests, the judgement of overlap, and the waves.
8. `GoalRun`: `run_loop` and `_record` over the GitHub source with failing calls.
9. `RecordLanding` (abstract) and `InsightIngest`: the ledger landed in the analytics store, with the
   migration of its cursor, shown to implement it.

What is left, and worth doing in this order:

10. `SessionMarker`: the session and agent markers of `loop.py`, with `agent_end`'s release, composed
   with `GoalClaim`'s claims. Property: two routines never both find the session free.
11. `Supervisor` over `GoalRun`: `supervise.sh`'s relaunches and backoff.
12. `decompose_check`: the window between filing the tracking issue and noting it on the parent.
13. Insight's other readers (collectors, artifacts, git, GitHub) and its accounts.

Every safety property that a run checks is a theorem. What is worth proving next is more refinement: an
abstract mailbox for `TeamInbox` (each item told once) and an abstract backlog for `GoalClaim` and
`GoalRun` (a goal is open, worked on by one slot, settled).

## 3. Modules

### GoalClaim

Models one `.sdlc` directory. `status` is the goal files; `runIter` the cursor's `run_iteration`,
counted up to the ceiling it is compared with; `held` the open claims; `lock` who has a goal's claim
lock flocked. Per session: the `next` process that runs (`pc`, `pid`) with its local variables
(`slots`, `skip`, `lease`, `pick`, `picked`), and `stage`, what its slots do with each goal.

A pass is `Invoke` (a fresh pid, `next_batch`'s number of slots, the session's own goals as `--skip`),
then for each slot `ReadLease`, `SkipHeld`/`Choose`/`Drained` (`_next`'s loop), `LockGranted`/
`LockDenied`/`LockUnavailable`, `BudgetHalt`/`BudgetLeft`, `MarkInProgress`, `AppendClaim`, and
`NextSlot` or `LastSlot`. `Record` is three writes: the goal file, the cursor, the ledger. Each action
is one access to shared state, so sessions interleave between any two. The environment kills processes
and whole sessions, reuses pids, pulls in a teammate's claims and releases, expires claims, and
re-opens goals.

Abstractions. The ledger is `held[g]`, the value `_held` computes from it; ties of two entries within
one second are not modelled (entries are ordered by second, then actor). The TTL is nondeterministic:
`ClaimLapses` may happen at any time. The source is `LocalSource`. Budgets are iterations only. A claim
of another machine is a teammate's (`Mate`), which is how `claim_belongs_to_me` treats both.

### CursorService and Cursor

`CursorService` is the promise: a counter record, and per process a request that takes effect once, at
one instant, or, if the process dies, once or not at all. `Cursor` is `state.py`: `Acquire`
(`_cursor_lock`), `Scaffold` and `WriteTemplate` (`_state_file`'s exclusive create, then the text,
which goes to the inode that was created even if `os.replace` has moved the name to another: `creator`
tracks that), `Read`, `Publish`, `Return`, and `Die` anywhere. Readers skip the lock. The file is kept
as the counters that can be read from it; an empty file reads as zeros, as in the code. The refinement
maps `counters` to the file, or zero when there is none, and the answer of a request to the text in
memory from the moment it has taken effect. `run_started_at` is not kept; `start_run` takes its time
before it has the lock, so the order of two starts and their times may differ, which nothing reads
across runs.

### SharedLedger and LedgerSync

`SharedLedger` is the promise: one `log` that only grows, and per clone what it has `known`. A clone
commits entries of its own, learns what the log has or had, and shares what it holds once that covers the
log. `LedgerSync` maps `log` to the remote tip's entries and `known` to those of each clone's HEAD; rebases
are `Learn`, pushes `Share`, and everything else it does is invisible there.

`LedgerSync` models the clones' ops worktrees and the remote branch. A commit is the set of entries it reaches and
its TEAM.md, TEAM.md the set of entries it was rendered from; the entries' files merge by union, so
only TEAM.md can conflict. `disk`, `dirty`, `team`, `index`, `head`, `base` and `fetched` are git's
places for them. `Append` is a loop process; `PullFetch` to `Abort` is `pull`, `List` to `Regenerate`
is `publish`, and the two alternate as `watch.sh`'s tick does. The environment takes the network down
and up, loses the answer of an accepted push, and kills watchers.

Abstractions. One watcher per clone: this is what `WatcherStart` establishes. Two changes of TEAM.md
may or may not conflict: both outcomes are possible. `render` shows only its latest rows; here TEAM.md
stands for all it was rendered from. A watcher is not killed between a conflicting rebase and its
`--abort`. Amending a replayed commit that became empty is not modelled. Lines appended to a tracked
file while a rebase has stopped on a conflict are lost by `--abort`; `Abort` does that, and
`CommittedStays` promises only what was committed.

### WatcherStart

Models `watch.sh` up to its tick loop. A process is its pid. `mutex` and `gate` are the two
directories, kept as their makers, whom nobody can see: `rmdir` removes whatever has the name. `age`
tells whether the mutex is over 30 seconds old, `pidf` what `watch.pid` says. `Start` tries the mutex,
`Gate` to `Ungate` is the reclaim, `Decide` to `FreeMutex` the decision, `Stop` and `Unlink` the trap.
The environment kills, reuses pids and lets the mutex age; a mutex whose maker still decides ages only
where `MayStall` says that a process may be suspended so long.

### WorkMerge

Models `work.py` for one goal: the verbs `start`, `commit`, `pr`, `rebase`, `post-review`, `merge` and
`finish` with and without `--force`, and `loop.py verify`, whose evidence `done_refusal` asks for. A verb
is a process, `pc` is the call to git or gh it makes next, and each action is one such call, so it may be killed, or answered with
an error (`Fails`), between any two. `record` is `state/work/<goal>.json`; `worktree`, `dirty`, `local`
and `tracking` are the clone; `remote`, `base`, `opened`, `armed`, `merged`, `checks`, `marker`,
`decision` and `thread` are GitHub. A commit is known by what it contains and what it stands on: the
session's commits (`rev`), the version of the base (`on`), and whether somebody else's are on top
(`foreign`); a rebase makes another commit.

`merge` is `CallMerge`, `Evidence`, the gate (`GateUnknown`, `GatePending`, `GateBehind` with its one
`Rebase` and `ForcePush`, `GateParks`, `GatePasses`), `Directive`, `Decision` and `Threads` (the review
gate in the code's order), `Protect` and `Arm`. What the review gate cannot read it passes over, as the
code does. The environment (`Report`, `AutoMerge`, `BaseMoves`, `ForeignPush`, `UserFetch`, `Review`,
`Edit`) is GitHub, the colleagues and the session's editor.

Abstractions. The four configurations vary `auto_merge`, `require_review` and what the base enforces.
The refusal of `start` while a live sibling works on the goal is `GoalClaim`'s `claim_belongs_to_me`.
The evidence's commit is not kept, since nothing compares it; the action log is left out. `finish --force`
removes a worktree with what nobody has committed in it: nothing is promised of uncommitted work, only that
what the session has pushed stays pushed (`OwnWorkSurvives`).

### TeamInbox

Models two clones with several writers. `file` is each writer's ledger file where it is written, `have`
the prefix of it the other clone has. Teammates `Raise` hand-offs and notes, I write acknowledgements;
`Settled` and `Outstanding` are `ledger.py`'s settlement. The watcher's loop is `stage`: `Pull`,
`Classify` (`watch_classify.classify`: above the writer's baseline, of a new signature, one item for
each), `SaveCursor`, `ReadInbox`, `WriteInbox`, then the rounds of `agent_watch` and `comment_watch`
(`Notice`, `SaveNoticed`), then `Publish`. `Notice` mails a death or appends a note about it; a mail that is
reported as failed may have gone out all the same, and an append that fails is swallowed (`safe_append`):
then the note is `skipped`, although the round records it as told. An asking process is
`ReadText`, `PrintText`, `ClearInbox` (`loop.py _surface_inbox`). Watcher and asker share the inbox without a lock. Both may be killed between
any two steps, and in the middle of a write: the files are truncated and written in place, so a kill can
leave an empty cursor (`torn`) or an empty inbox.

`lost` records what two named windows take: a kill between the cursor's save and the inbox's write, and
a clear that removes what came in after its read; `skipped` records the notes that the ledger did not take.
The properties are about everything else.

Abstractions. The teammates' clone publishes and pulls at once. Two writers' timestamps may be in any
order. `agent_end`, markers past the lease, entries without the `id` of today's format, and the displayed states are left out.

### Slices

Models `slices.py` and step 3b of `skills/sdlc-loop/SKILL.md`. A path is the sequence of its segments; a
segment is a name or `Star`, any segment with a wildcard in it. `Validate`, `FanOut`, `Conflicts` and
`Ready` are the functions; dependencies are defined by closed sets, not by recursion. `IsWave` says what
the greedy pass over the sorted frontier picks: a slice is in exactly if there was room when its turn
came and nothing picked before conflicts. `Overlap` keeps `fnmatch`'s reading of one glob as the text of
another, and the literal prefix. `Plan` dispatches a wave, `Land` merges one slice and marks it done,
`Fail` and `SessionEnds` leave slices to be planned again.

Abstractions. A slice stays inside the files it declares, and one edited file stands for all it edits.
Slices of size `large`, which a human starts, and the later waves that `plan` prints and the session
does not use, are left out.

### GoalRun

Models `run_loop` and `_record` on `GitHubSource`. `issue` is the backlog as it is, `index` as GitHub's
search shows it. `Pick`, `Halt`, `ReadNothing` and `ReadError` are `_next` with the retries of an empty
or failing read; `Return` is `run_goal`; `Probe`, `Close`, `CloseFails` are `complete`; `Delist` and `Tag`
are `_offboard`, which swallows the failure of each of its calls; `Count`, `CountFails`, `Append` are the
cursor and the ledger. `Raise` is what `run_loop` does when `_record` raises: it parks the goal instead,
and the second time puts it in `poisoned`. A call fails for a moment, within `MaxFaults`, or for good
(`Break`): the token loses its write scope, or the disk is full.

Abstractions. Leases, locks and sessions are `GoalClaim`'s. The in-progress label, the board and the
comments are read by people only. Nobody re-opens an issue. A kill of the run is a passing fault.

### RecordLanding and InsightIngest

`RecordLanding` is the promise of `ledger_writer.py`'s docstring: a record lands once, after those before it
in its space, and a store that an older release filled is emptied first. `InsightIngest` maps its `rows` to
`facts` and `migrated` to the marker the migration leaves; cursor, queue and phases are not in it.

`InsightIngest` models `insight ingest` on the team ledger: `insight/ingest/ledger_reader.py`, `ledger_writer.py`,
`goal_lifecycle.py` and the cursor migration of `store.py`. A *space* is one file of the ledger, a
process of an actor and a stream, which numbers its lines itself. `file` is each space's lines, `facts`
how often a record has a row, `handoff` the row of the one issue (set by its hand-off and its answers),
`goals` the events `fact_goal` was derived from, `cursor`, `shape` and `old` the cursor table before and
after the migration (`old` is the set of actors that the older release left a row for). `Open` (and `ReadCommand`, any command that opens the store) migrates; a run is `Read`
(the files that can be read), `Rebuild` of a migrated store, `Load` (what to skip, decided once), `Land`
for each record in the order of `_sort_key`, `Derive`. `LandFails` rolls one transaction back and blocks the
rest of its space, and `Read`, `LoadFails`, `DeriveFails` and `Kill` are the other ways to fall short. The
environment writes lines all the while, whose times may lie before those of records that have landed
(another file was pulled late), and whose id may not parse (`seq_of` gives 0). `OldStore` is what an older
release can have left: it kept one cursor for all the files of an actor, and skipped what lay below it.

Abstractions. One project and one issue's hand-off row. The columns of the payload are left out. A row of
the cursor is keyed by the whole space; the table splits that into columns. A writer's clock does not step
back within a file, and files only grow: lines that a given-up rebase takes from a file (`sync.py:175`)
would leave their numbers to later lines, which the cursor of a run in between then takes for
landed; no property covers that. A record that does not load as JSON is not a record. The goals are derived from the
class-1 events as a set: the replay's arithmetic of columns is left out.

### How the modules compose

`WatcherStart` establishes the one watcher per clone that `LedgerSync` and `TeamInbox` assume.
`LedgerSync` establishes that a clone has a growing prefix of what the others wrote, which is all
`TeamInbox` knows of the ops branch. `GoalClaim` keeps two sessions off one goal, so `WorkMerge`,
`Slices` and `GoalRun` have one session each; where it cannot (`claim_sessions`), they do not promise
anything. `GoalRun` spells out, call by call, the one step by which `GoalClaim` settles a goal.
`InsightIngest` reads the files that `LedgerSync` brings, in any order of arrival.

### Proof modules

Each has its module's theorems: `GoalClaimProofs`, `CursorProofs`, `LedgerSyncProofs`, `WorkMergeProofs`,
`TeamInboxProofs`, `SlicesProofs`, `GoalRunProofs`, `InsightIngestProofs`. `LedgerSyncProofs` extends
`WatcherStart` too and has its theorems: that a clone has one watcher is what `LedgerSync` is built on. So
the names the two would share begin with `Watcher` there (`WatcherSpec`, `WatcherNext`). The `MC`
modules hold the instances: sets of records for the cfgs, and the symmetry set of `GoalClaim`.

## 4. Runs

| Run | Instance | What it shows |
|---|---|---|
| `claim_solo` | 1 session, 3 goals, 2 slots, 2 pids, 1 fault | `NoSlotCollision`, `SlotGoalInProgress`, and under fairness `OpenGoalSettles` |
| `claim_pair` | 2 sessions, 2 goals, 2 slots, ceiling 1, 1 fault | `LockFollowsSection`, `SectionShieldsClaim`, `MateClaimRespected` |
| `claim_sessions` | 2 sessions, 1 goal | violated: `NoGoalInTwoSessions` |
| `cursor` | 3 processes, 4 calls, any of them dying | `NoStalePatch`, `Linearizable`, `CallEnds` |
| `sync` | 2 clones, 3 entries, 5 attempts, 1 fault | `RemoteKeepsEntries`, `TeamViewKeepsUp`, `CommittedStays`, `SharesLedger`, `CommitReachesTeam` |
| `watcher` | 3 processes, 3 faults, nobody suspended | `OneWatcher`, `PidfileNamesWatcher`, `WatcherComesBack` |
| `work` | 4 configurations, 2 commits, 2 events or faults, 2 review cycles | `FixesWithinCap`, `NothingOlderIsArmed`, `UnseenWorkSurvives`, `StandingSignalStops`, `OwnWorkSurvives`, `VerbEnds` |
| `inbox` | 3 writers, 2 entries, deaths or comments, 1 asker, 1 fault | `NothingForgotten`, `ToldOnce`, `NewsIsSurfaced`, `DeathIsTold`, `AnswerUnblocks` |
| `slices` | manifests of 2 to 4 slices, 3 files, 2 faults | `NoLostEdit`, `BuiltOnNeeds`, `AllLand` |
| `slices_overlap` | globs that begin with a wildcard | violated: `NoLostEdit` |
| `goal_run` | 2 goals, 2 runs, 1 passing fault, 3 outages | `DoneIsClosed`, `SettledStaysOut`, `RunEnds` |
| `ingest` | 3 spaces of 2 actors, 3 lines, 2 times, 2 faults, new and old stores | `NoDuplicate`, `NoGap`, `RowIsCurrent`, `LandsInOrder`, `AllLanded` |

`claim_pair` checks its module's type invariant too (a pass always has a slot, and a pick from the lock
on); those of the other modules are proved only.

The violated runs are disagreements between the code and what it, its tests or its documents say; each
is a finding in `PROJECT.json` with the quotation:

- *claim_sessions.* Whether a claim is alive is asked of the `loop.py` process that wrote it, which has
  ended before the work begins. The code's own comment in `next_batch` says so, for the slots of one
  session, and `--skip` is the remedy there; between two sessions there is none.
- *slices_overlap.* The literal prefix of a glob that begins with a wildcard is `/`, which no other
  prefix starts with, and `fnmatch` of the one glob against the text of the other misses too.

**Bounds.** Two sessions are what it takes to race: every property of a race is about a pair. Two slots and
three goals let a refill meet an occupied slot and a free goal. Two pids let a claim's pid be reused
and differ. `claim_pair` has a ceiling of one so that budget halts happen inside lock sections. One
fault at a time is enough to separate the writes of every handler; the proofs have no such bound.
In `cursor`, three processes allow a reader that scaffolds, a writer that publishes over it and a
third that waits. In `sync`, three entries let a colleague push twice between a clone's attempts. Five
attempts is the code's number, and exactly what `CommitReachesTeam` needs here: with four it fails.
With more colleagues' pushes than attempts a publish may be deferred, so the property depends on this
bound, as the code does. In `watcher`, three processes are a watcher and two racing triggers, and
three faults allow a dead watcher, a dead holder of the mutex and a reused pid in one behaviour.
In `work`, two commits tell the session's newest from an older one, and two events are a push by a
colleague and one more thing (a moved base, a review, a failure) in one merge; the code's numbers of
re-reads only make its loops longer, so `UnknownAttempts` is 2 and `PendingAttempts` 1, the least that
have a first and a last read. In `inbox`, two entries are what one signature or one baseline can confuse:
two of one writer, of two writers of the same actor, two urgencies of one hand-off, two deaths; one fault
reaches each window, or takes a note. In `slices`, two slices may run at once, so a third waits for room and a fourth for
both; the manifests have chains, forks, joins, cycles, unknown and repeated ids, and
each kind of glob. In `goal_run`, two goals let one be served behind another that is stuck, two runs
start after a kill or an outage, and one passing fault separates any two calls; with the outages there are
two failures in one settlement. In `ingest`, three spaces are two of one actor and one of another, so that a
cursor per actor and one per space differ; three lines put two in one file and a third elsewhere, two
times let a file be pulled after later records have landed, and two faults are a record held back and a
run that is killed on the retry.

**Symmetry** is used in `claim_pair` only (sessions and pids), which checks no liveness.

**Deadlock** is checked except where the system may really stop: in `cursor`, where the calls are used up; in
`work`, where the goal is merged and the bounds on commits and events are reached; in `inbox`, `slices` and
`goal_run`, where all that was raised, planned or listed is settled. `ingest` can always be run again.

**Fairness.** `GoalClaim`: a started process and a started slot finish, a routine keeps calling `next`
(the README's scheduled runs), and time passes, so a claim reaches its TTL. With no TTL configured the
last is not justified and `OpenGoalSettles` does not hold: a silent teammate's claim stays. Nothing is
assumed of faults. `Cursor`: a process in a call goes on unless it dies; nobody need call. `LedgerSync`: the
watcher ticks, an outage ends; no fairness for appends. `WatcherStart`: triggers come (every `next`
starts one), a script that decides goes on, an orphaned mutex grows old, an unrelated process ends.
`WatcherComesBack` excepts a process killed behind the gate: nothing reclaims the gate, as the comment
at `watch.sh:69` says.

`WorkMerge`: a verb that was called goes on; nobody need call one. `TeamInbox`: the watcher ticks and is
started again when it dies (`WatcherComesBack`), the network comes back, and the loop keeps asking for
goals. A tick may fail for a while, hence strong fairness of `Pull` and `Publish`. `Slices`: the session
plans again, a subagent comes back. `GoalRun`: the process runs on, `run_goal` returns, and the index
catches up, which GitHub promises without a time. `InsightIngest`: `ingest` is run again and again (the
data-platform design in `src/docs/superpowers/specs/` runs it on a schedule), and a run that is not killed
goes on; failures and kills are finitely many.

`OpenGoalSettles` is checked for one session. Two sessions can leap-frog each other for ever, each
re-opening what the other one settles late, so it is not claimed there.

### Further instances to run by hand

Each of these cfgs makes TLC find a counterexample to a property that fails of the code in the
circumstances described. `tlc -config X.cfg M` shows it.

- `MC_ClaimRace.cfg` with `MCGoalClaim`: `NoClaimSlippedIn`. The lease is read before the lock
  (`loop.py:197`) and not again after it (`loop.py:207`). A sibling that reads, locks, claims and
  releases in between is not seen, and both go on.
- `MC_ClaimBudget.cfg` with `MCGoalClaim`: `RunWithinBudget`. The ceiling is compared with recorded goals
  (`loop.py:217`). `next_batch` caps a first pass, but a refill is a plain `next`, which does not count
  the goals in flight: with two slots and a ceiling of two, a third goal is dispatched.
- `MC_SyncDeferred.cfg` with `LedgerSync`: `DeferredIsRetried`. "Will retry next tick" (`sync.py:236`)
  holds only if something new is appended: a tick that stages nothing returns before the push
  (`sync.py:211`).
- `MC_WatcherStall.cfg` with `WatcherStart`: `OneWatcher`. The age of the mutex (`watch.sh:116`) is no
  proof that its holder is dead: one that was suspended for 30 seconds goes on beside its successor.
- `MC_WorkLost.cfg` with `MCWorkMerge`: `SurvivorResumes`, even if `start` is called again and again. It is
  killed after `git worktree add` (`work.py:259`) and before it saves its record (`:268`). Its fallback
  (`:267`) attaches to a branch whose worktree is gone; here the worktree is there, so both calls fail
  every time, and the goal is not resumable as the docstring (`work.py:227`) says.
- `MC_IngestLate.cfg` with `MCInsightIngest`: `LatestAckWins`. "The LATEST ack always wins"
  (`ledger_writer.py:378`) holds within a file. An older answer in a file that is pulled later lands later,
  and replaces a newer one in the hand-off's row.
- `MC_IngestCommit.cfg` with `MCInsightIngest`: `NoGap`, if `ROLLBACK` raises after a `COMMIT` that failed, as
  the comment at `store.py:343` says it can. The outer handler (`ledger_writer.py:580`) skips the record
  without blocking its space, and the next record of the space moves the cursor past it.
- `MC_InboxAreas.cfg` with `MCTeamInbox`: `BlockerIsTold`. Two hand-offs of one goal without an issue,
  for two areas, have the same signature (`watch_classify.py:125` leaves the area out), so the second is
  never told, although its acknowledgement is another one.
- `MC_InboxSkipped.cfg` with `MCTeamInbox`: `NeverNeither`. "Never both, never neither"
  (`agent_watch.py:110`) fails if the note cannot be appended: `safe_append` (`ledger.py:832`) swallows that,
  and the round saves the death as told (`agent_watch.py:162-165`), so no later round tells it.
- `MC_GoalRunReadOnly.cfg` with `MCGoalRun`: `RunEnds`. With a token that may not write and no budget,
  `_offboard` swallows both failures, `_record` succeeds, the goal stays listed, and the run parks it for
  ever: the poison set only learns of records that raise.

## 5. Proofs

All theorems hold for every value of the constants under the modules' assumptions. Those are typing
facts (`None` is no session, pid or goal; actors are numbers; counts are naturals, slots and attempts
positive; outside the lifecycle there are only events) and `FailOpen \subseteq` the processes. Five
assumptions more are hypotheses of the theorems that need them, as explained below:
`FailOpen = {}` (Cursor), `~MayStall` (WatcherStart), `AllAnchored` (Slices), `OneSession` (GoalClaim)
and `~RollbackMayFail` (InsightIngest).

- **GoalClaim.** `TypeCorrect` is inductive as stated; its telling parts are that a running process has
  a slot and that it has a pick exactly from the lock on. `LockNeverLeaks` follows from it, as a step
  invariant of its own: a lock is only taken into, and only dropped out of, the section.
  `OneInSection` is its corollary. `SlotsNeverCollide` needs `PassInv`: while a pass runs its skip list
  contains the session's work and what the pass has picked; the property alone is not inductive, as it
  says nothing before the pick. `SectionIsShielded` combines the lock invariant with the fact that only
  `AppendClaim` writes a pid. `MateClaimsAreRespected` needs `LeaseInv`: what is picked was not a
  teammate's in the lease that is still in memory. `SlotGoalStaysInProgress` needs `MarkedInv`: a goal is in
  progress from the pass's mark on, before any slot works on it. It assumes `OneSession`: a second session
  may record the goal as done or parked under the first one, as TLC finds on `claim_pair`'s instance.
- **Cursor.** `Inv` joins the types, `LockInv` (a process in the critical section that can flock holds
  the lock) and `FileInv` (the file exists once a process is past the scaffold, and an inode with a
  creator still reads as zeros). `WritersExclude` and `NothingIsLost` assume `FailOpen = {}`: without a
  flock increments can be lost, as the code says. `CursorIsLinearizable` proves the refinement: `Publish`
  of a writer and `Read` of a reader map to `Apply`, the other steps to calls, returns, deaths or stuttering; the
  late template write stutters because of `FileInv`.
- **LedgerSync.** `BaseInv`: versions of known commits never exceed the remote's, and equal versions
  are equal commits. `NumberInv`: entries are numbered below `written`, so an append is new. `TreeInv`:
  a commit's entries are on disk and contain those it stands on. `ViewInv`: whenever a push is at hand,
  TEAM.md covers the base commit. A fast-forward push then replaces the tip by a superset
  (`NothingPublishedIsLost`) with a TEAM.md that covers it (`TeamViewNeverLags`), and no step shrinks
  what a clone has committed (`CommittedIsNotLost`). `ClonesShareOneLedger` proves the refinement of
  `SharedLedger`: accepted pushes map to `Share`, a rebase that ends to `Learn`, a commit to `Commit`, and
  the rest to stuttering. It needs `OwnInv` (what a clone has to add is its own) and `KnownInv` (what it
  stands on, or has fetched, is on the remote). `AuthorsKeepTheirEntries` is proved of the abstract log
  and carried over: what anybody holds, its author has committed.
- **WatcherStart** (in `LedgerSyncProofs`). `MutexInv`: while nobody stalls, whoever decides made the mutex that exists, and a
  reclaimer about to evict looks at one whose maker is gone. `PidfileInv` ties the pid file to the
  decision: between the liveness test and the write there is no watcher, afterwards the file names the
  one there is. Both theorems assume `~MayStall`; `MC_WatcherStall.cfg` shows that they need it.
- **WorkMerge.** `Typed` adds to the types that a record, a worktree or a running verb has a branch, and a
  pull request one on GitHub. On it rest `FixInv` (below the cap the record counts every time the session
  was sent back, and a block that is being posted is counted already), `HeadInv` (past the gate the pull
  request holds every commit of the worktree, with at most somebody else's on top) and `SignalInv` (what
  has stood since `merge` was called still stands, and what the review gate has passed is not among it).
  `UnseenWorkSurvives` is a step property: the lease, at the one action that could break it.
  `OwnWorkSurvives` needs `HoldsPushed`, that the clone's branch has every commit of the session that
  GitHub has: a record may be lost and the worktree removed, but the branch is cut once, and what is pushed
  later, forced or not, is that branch.
- **TeamInbox.** `InboxInv` is `TypeOK`, `Shape` (what is empty at which stage, and that a text read from
  the inbox is kept somewhere), `SeenInv` (the cursor, and the one about to be saved, never pass what the
  clone can read), `ForgetInv` (every entry for me that either of them passes over is kept or in hand, or
  its like is, and so is one for every signature) and `OnceInv` (what is kept has its signature in the
  cursor, unless the cursor was torn). The properties are not inductive without the update: a tick works
  on it for several steps before it is the cursor.
- **Slices.** `SlicesInv` is the types, `Landing` (what has landed is closed under needs, and so is what
  had before the wave) and `NeedsLanded`. As `Upstream` is defined by closed sets, direct needs suffice to
  prove `BuiltOnNeeds`. `NoEditIsLost` assumes `AllAnchored`, that no glob begins with a wildcard unless
  it is only the wildcard, and rests on `OverlapIsSound`: two anchored globs that cover one file overlap,
  as their literal prefixes are prefixes of one path. `slices_overlap` shows that it needs the assumption.
- **GoalRun.** `RunInv` adds to the types: a goal in hand is below the ceiling; only what is not recorded
  as done is taken off the list; a goal about to be recorded done is closed; and what is recorded or about
  to be is off GitHub's list unless both label calls missed. With `Forward`, that an issue is never
  re-opened or listed again, only the lag of the index is left as a way back.
- **InsightIngest.** `OnceInd` is the types, `RunInv`, `MigratedInv` (until the rebuild
  nothing lands in a migrated store) and `OnceInv` (a record that has landed is behind its cursor and no longer in hand);
  `NothingLandsTwice` follows without more. `NothingIsPassedOver` adds `QueueInv`: the well-formed records
  before one in hand are in hand too, or have landed. That rests on `SortedInv`, a writer's clock within
  its file, and on a lemma that the order of `Oldest` never puts a later line of a space before an earlier
  one. `RowNeverGoesBack` needs `AheadInv`, that what is in hand is behind all of its space that has landed.
  `IngestLandsInOrder` proves the refinement of `RecordLanding`: a landing maps to `Land`, an append to
  `Write`, a migrated store's rebuild to `Rebuild`. `LandedIsABeginning`, proved of the abstract landing, says that what has
  landed of a space is the well-formed part of a beginning of its file. The three that speak of gaps assume
  `~RollbackMayFail`; `MC_IngestCommit.cfg` shows that `NoGap` needs it.

**Model-checked only.** Liveness (`OpenGoalSettles`, `CallEnds`, `CommitReachesTeam`,
`WatcherComesBack`, `VerbEnds`, `NewsIsSurfaced`, `DeathIsTold`, `AnswerUnblocks`, `AllLand`, `RunEnds`,
`AllLanded`), which needs fairness and `ENABLED`, out of the prover's reach. Every safety property of a
passing run is a theorem.

## 6. Not modelled

The components marked `not_modelled` in `PROJECT.json`, with the reason at each. In short:

- The supervisor is a sequential shell loop; `decompose_check` has a window of two calls that the same
  person's next run reads; the session markers are looked up by routines of an outside scheduler. They
  are the rest of the plan.
- Hooks, scans, the phase pipeline, scrubbing, sizing and the other skills' scripts turn text or one tool
  call into text, and keep nothing that another part decides on.
- Of Insight, the ingest of the ledger is modelled. Its other readers (collectors, artifacts, git, GitHub,
  analytics), its accounts, metrics, API and web are not: they fill and draw the same store, and the loop
  never reads it.

Inside the modelled components: `max_minutes` and `max_tokens` (further disjuncts of the same test),
`actionlog` (local and fail-open), the `events` stream, field validation and scrubbing of entries,
`.gitattributes`, the text of STATE.md besides its counters, and the 15-minute sleep between ticks.
