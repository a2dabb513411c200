------------------------------ MODULE LedgerSync ------------------------------
(***************************************************************************)
(* Sharing the ledger over the ops branch                                  *)
(* (skills/sdlc-loop/scripts/sync.py pull and publish, ledger.py append,   *)
(* the tick of watch.sh).                                                  *)
(*                                                                         *)
(* Every clone has the ops branch checked out in .sdlc/ledger.  Loop       *)
(* processes append entries to files there, each process to its own; the   *)
(* clone's one watcher alternates `pull` and `publish`.  A commit is kept  *)
(* as the set of entries it reaches and the TEAM.md it holds, and TEAM.md  *)
(* as the set of entries it was rendered from.                             *)
(***************************************************************************)
EXTENDS Naturals

CONSTANTS
  Clone,        \* the team's clones
  Mortal,       \* those whose watcher may be killed
  Attempts,     \* PUSH_ATTEMPTS
  MaxEntries,   \* bound: entries ever appended
  MaxFaults     \* bound: outages, lost acknowledgements, killed watchers

ASSUME SyncAssumption ==
  /\ Mortal \subseteq Clone
  /\ Attempts \in Nat \ {0} /\ MaxEntries \in Nat /\ MaxFaults \in Nat

Entry == Clone \X (1..MaxEntries)
Content == [entries : SUBSET Entry, team : SUBSET Entry]
Commit == [ver : Nat, entries : SUBSET Entry, team : SUBSET Entry]
Label == {"idle", "rebase", "abort", "list", "team", "add", "commit",
          "push", "refetch", "replay", "regen"}

VARIABLES
  remote,    \* the tip of the ops branch on the remote
  net,       \* whether the remote can be reached: "up" or "down"
  written,   \* entries appended so far, which numbers them
  disk,      \* [Clone -> the entries in the files of its worktree]
  dirty,     \* those appended to a file that git tracks, and not committed
  team,      \* the TEAM.md of the worktree
  index,     \* [Clone -> Content]: the entries staged beyond HEAD, and the TEAM.md staged
  head,      \* [Clone -> Content]: the commit that is checked out
  base,      \* [Clone -> Commit]: the commit of the remote HEAD stands on
  fetched,   \* [Clone -> Commit]: the remote-tracking branch
  listed,    \* the entries in the files that publish listed
  tries,     \* pushes this publish has tried
  pc,        \* where the watcher is
  faults

tree  == <<written, disk, dirty, team>>
git   == <<index, head, base, fetched>>
local == <<listed, tries>>
env   == <<net, faults>>
vars  == <<remote, tree, git, local, pc, env>>

TypeOK ==
  /\ remote \in Commit
  /\ net \in {"up", "down"}
  /\ written \in 0..MaxEntries
  /\ disk \in [Clone -> SUBSET Entry]
  /\ dirty \in [Clone -> SUBSET Entry]
  /\ team \in [Clone -> SUBSET Entry]
  /\ index \in [Clone -> Content]
  /\ head \in [Clone -> Content]
  /\ base \in [Clone -> Commit]
  /\ fetched \in [Clone -> Commit]
  /\ listed \in [Clone -> SUBSET Entry]
  /\ tries \in [Clone -> 0..(Attempts - 1)]
  /\ \A c \in Clone : tries[c] > 0 => pc[c] \in {"push", "refetch", "replay", "regen"}
  /\ pc \in [Clone -> Label]
  /\ faults \in 0..MaxFaults

Nothing == [entries |-> {}, team |-> {}]
Root == [ver |-> 0, entries |-> {}, team |-> {}]

\* A colleague, quiet from now on, published the branch with `sync.py bootstrap`,
\* and every clone has checked it out with `sync.py init`.
Init ==
  /\ remote = Root
  /\ net = "up"
  /\ written = 0
  /\ disk = [c \in Clone |-> {}]
  /\ dirty = [c \in Clone |-> {}]
  /\ team = [c \in Clone |-> {}]
  /\ index = [c \in Clone |-> Nothing]
  /\ head = [c \in Clone |-> Nothing]
  /\ base = [c \in Clone |-> Root]
  /\ fetched = [c \in Clone |-> Root]
  /\ listed = [c \in Clone |-> {}]
  /\ tries = [c \in Clone |-> 0]
  /\ pc = [c \in Clone |-> "idle"]
  /\ faults = 0

-----------------------------------------------------------------------------
(* What git says.                                                          *)

Up == net = "up"

Own(c) == {e \in Entry : e[1] = c}

\* git rebase refuses to start over staged or unstaged changes.  An untracked
\* file does not stop it.
Clean(c) ==
  dirty[c] = {} /\ index[c].entries = {} /\ index[c].team = head[c].team
                /\ team[c] = head[c].team

TeamChanged(c)  == head[c].team # base[c].team
TeamMoved(c)    == fetched[c].team # base[c].team
TeamConflict(c) == TeamChanged(c) /\ TeamMoved(c) /\ head[c].team # fetched[c].team

\* TEAM.md as a merge without a conflict leaves it.
Merged(c) ==
  IF ~TeamChanged(c) THEN fetched[c].team
  ELSE IF ~TeamMoved(c) THEN head[c].team
  ELSE head[c].team \cup fetched[c].team

Goto(c, l) == pc' = [pc EXCEPT ![c] = l]

\* The sync process ends, and what it had in memory with it.
Exit(c) ==
  /\ Goto(c, "idle")
  /\ listed' = [listed EXCEPT ![c] = {}]
  /\ tries' = [tries EXCEPT ![c] = 0]

\* Mutant: the clone's own commits are dropped.
ResetToFetched(c, t) ==
  /\ base' = [base EXCEPT ![c] = fetched[c]]
  /\ head' = [head EXCEPT ![c] = [entries |-> fetched[c].entries, team |-> t]]
  /\ index' = [index EXCEPT ![c] = [entries |-> {}, team |-> t]]
  /\ team' = [team EXCEPT ![c] = t]
  /\ disk' = [disk EXCEPT ![c] = @ \cup fetched[c].entries]
  /\ UNCHANGED <<fetched, written, dirty>>

\* HEAD now stands on the remote-tracking commit, with the given TEAM.md.
Rebased(c, t) ==
  /\ base' = [base EXCEPT ![c] = fetched[c]]
  /\ head' = [head EXCEPT ![c] = [entries |-> @.entries \cup fetched[c].entries, team |-> t]]
  /\ index' = [index EXCEPT ![c] = [entries |-> {}, team |-> t]]
  /\ team' = [team EXCEPT ![c] = t]
  /\ disk' = [disk EXCEPT ![c] = @ \cup fetched[c].entries]
  /\ UNCHANGED <<fetched, written, dirty>>

-----------------------------------------------------------------------------
(* A loop process.                                                         *)

\* ledger.append: a new line in the process's own file.  The file is new to git
\* unless the process, or an earlier one with its pid, had an entry committed.
Append(c) ==
  /\ written < MaxEntries
  /\ written' = written + 1
  /\ disk' = [disk EXCEPT ![c] = @ \cup {<<c, written'>>}]
  /\ \/ UNCHANGED dirty
     \/ /\ head[c].entries \cap Own(c) # {}
        /\ dirty' = [dirty EXCEPT ![c] = @ \cup {<<c, written'>>}]
  /\ UNCHANGED <<remote, team, git, local, pc, env>>

-----------------------------------------------------------------------------
(* sync.py pull.                                                           *)

\* A fetch that fails ends the pull; the tick goes on to publish.
PullFetch(c) ==
  /\ pc[c] = "idle"
  /\ IF Up THEN fetched' = [fetched EXCEPT ![c] = remote] /\ Goto(c, "rebase")
           ELSE UNCHANGED fetched /\ Goto(c, "list")
  /\ UNCHANGED <<remote, tree, index, head, base, local, env>>

PullRebase(c) ==
  /\ pc[c] = "rebase"
  /\ Clean(c) /\ fetched[c].ver # base[c].ver
  /\ Rebased(c, Merged(c))
  /\ Goto(c, "list")
  /\ UNCHANGED <<remote, local, env>>

\* Up to date, or refused: "pull deferred".
PullNothing(c) ==
  /\ pc[c] = "rebase"
  /\ ~Clean(c) \/ fetched[c].ver = base[c].ver
  /\ Goto(c, "list")
  /\ UNCHANGED <<remote, tree, git, local, env>>

\* Both sides changed TEAM.md and git cannot merge the two.
PullConflict(c) ==
  /\ pc[c] = "rebase"
  /\ Clean(c) /\ fetched[c].ver # base[c].ver
  /\ TeamConflict(c)
  /\ Goto(c, "abort")
  /\ UNCHANGED <<remote, tree, git, local, env>>

\* Mutant: the branch is reset to what was fetched.
AbortToRemote(c) ==
  /\ pc[c] = "abort"
  /\ head' = [head EXCEPT ![c] = [entries |-> fetched[c].entries, team |-> fetched[c].team]]
  /\ base' = [base EXCEPT ![c] = fetched[c]]
  /\ index' = [index EXCEPT ![c] = [entries |-> {}, team |-> fetched[c].team]]
  /\ team' = [team EXCEPT ![c] = fetched[c].team]
  /\ disk' = [disk EXCEPT ![c] = (@ \ Own(c)) \cup fetched[c].entries]
  /\ dirty' = [dirty EXCEPT ![c] = {}]
  /\ Goto(c, "list")
  /\ UNCHANGED <<remote, written, fetched, local, env>>

\* git rebase --abort resets the tracked files, appended lines included.
Abort(c) ==
  /\ pc[c] = "abort"
  /\ disk' = [disk EXCEPT ![c] = @ \ dirty[c]]
  /\ dirty' = [dirty EXCEPT ![c] = {}]
  /\ Goto(c, "list")
  /\ UNCHANGED <<remote, written, team, git, local, env>>

-----------------------------------------------------------------------------
(* sync.py publish.                                                        *)

\* files_for: without a file of my own there is nothing to publish.
List(c) ==
  /\ pc[c] = "list"
  /\ IF disk[c] \cap Own(c) = {}
     THEN Exit(c)
     ELSE /\ listed' = [listed EXCEPT ![c] = disk[c] \cap Own(c)]
          /\ UNCHANGED tries
          /\ Goto(c, "team")
  /\ UNCHANGED <<remote, tree, git, env>>

\* _write_team
WriteTeam(c) ==
  /\ pc[c] = "team"
  /\ team' = [team EXCEPT ![c] = disk[c]]
  /\ Goto(c, "add")
  /\ UNCHANGED <<remote, written, disk, dirty, git, local, env>>

\* git add of the listed files and TEAM.md; an empty diff ends the publish.
Add(c) ==
  LET staged == ((listed[c] \cap disk[c]) \cup dirty[c]) \ head[c].entries
  IN  /\ pc[c] = "add"
      /\ index' = [index EXCEPT ![c] = [entries |-> @.entries \cup staged, team |-> team[c]]]
      /\ IF index'[c] = [entries |-> {}, team |-> head[c].team]
         THEN Exit(c)
         ELSE Goto(c, "commit") /\ UNCHANGED local
      /\ UNCHANGED <<remote, tree, head, base, fetched, env>>

DoCommit(c) ==
  /\ pc[c] = "commit"
  /\ head' = [head EXCEPT ![c] = [entries |-> @.entries \cup index[c].entries,
                                  team |-> index[c].team]]
  /\ index' = [index EXCEPT ![c].entries = {}]
  /\ dirty' = [dirty EXCEPT ![c] = @ \ index[c].entries]
  /\ Goto(c, "push")
  /\ UNCHANGED <<remote, written, disk, team, base, fetched, local, env>>

\* The branch moves to HEAD, fast-forward.
Accept(c) ==
  /\ remote' = [ver |-> remote.ver + 1, entries |-> head[c].entries, team |-> head[c].team]
  /\ base' = [base EXCEPT ![c] = remote']
  /\ fetched' = [fetched EXCEPT ![c] = remote']

FastForward(c) == base[c].ver = remote.ver

\* The last attempt is spent: "publish deferred".
Retry(c) ==
  IF tries[c] + 1 = Attempts
  THEN Exit(c)
  ELSE /\ tries' = [tries EXCEPT ![c] = @ + 1]
       /\ Goto(c, "refetch")
       /\ UNCHANGED listed

\* Mutant: git push --force.
PushForced(c) ==
  /\ pc[c] = "push"
  /\ Up
  /\ Accept(c)
  /\ Exit(c)
  /\ UNCHANGED <<tree, index, head, env>>

PushAccepted(c) ==
  /\ pc[c] = "push"
  /\ Up /\ FastForward(c)
  /\ Accept(c)
  /\ Exit(c)
  /\ UNCHANGED <<tree, index, head, env>>

\* The remote took the push and the answer was lost.
PushUnacknowledged(c) ==
  /\ pc[c] = "push"
  /\ Up /\ FastForward(c)
  /\ faults < MaxFaults /\ faults' = faults + 1
  /\ Accept(c)
  /\ Retry(c)
  /\ UNCHANGED <<tree, index, head, net>>

PushRejected(c) ==
  /\ pc[c] = "push"
  /\ ~Up \/ ~FastForward(c)
  /\ Retry(c)
  /\ UNCHANGED <<remote, tree, git, env>>

\* Mutant: the push is retried without replaying the commit.
RefetchNoReplay(c) ==
  /\ pc[c] = "refetch"
  /\ IF Up THEN fetched' = [fetched EXCEPT ![c] = remote] /\ Goto(c, "push") /\ UNCHANGED local
           ELSE UNCHANGED fetched /\ Exit(c)
  /\ UNCHANGED <<remote, tree, index, head, base, env>>

\* A fetch that fails ends the publish, deferred.
Refetch(c) ==
  /\ pc[c] = "refetch"
  /\ IF Up THEN fetched' = [fetched EXCEPT ![c] = remote] /\ Goto(c, "replay") /\ UNCHANGED local
           ELSE UNCHANGED fetched /\ Exit(c)
  /\ UNCHANGED <<remote, tree, index, head, base, env>>

\* git rebase -X theirs has no conflicts; it too refuses over changed files.
Replay(c) ==
  /\ pc[c] = "replay"
  /\ IF Clean(c)
     THEN /\ Rebased(c, IF TeamConflict(c) THEN head[c].team ELSE Merged(c))
          /\ Goto(c, "regen")
          /\ UNCHANGED local
     ELSE /\ UNCHANGED <<tree, git>>
          /\ Exit(c)
  /\ UNCHANGED <<remote, env>>

\* Mutant: TEAM.md is not regenerated from the merged entries.
NoRegenerate(c) ==
  /\ pc[c] = "regen"
  /\ Goto(c, "push")
  /\ UNCHANGED <<remote, tree, git, local, env>>

\* _write_team and git commit --amend
Regenerate(c) ==
  /\ pc[c] = "regen"
  /\ team' = [team EXCEPT ![c] = disk[c]]
  /\ index' = [index EXCEPT ![c].team = disk[c]]
  /\ head' = [head EXCEPT ![c].team = disk[c]]
  /\ Goto(c, "push")
  /\ UNCHANGED <<remote, written, disk, dirty, base, fetched, local, env>>

Tick(c) ==
  \/ PullFetch(c) \/ PullRebase(c) \/ PullNothing(c) \/ PullConflict(c) \/ Abort(c)
  \/ List(c) \/ WriteTeam(c) \/ Add(c) \/ DoCommit(c)
  \/ PushAccepted(c) \/ PushUnacknowledged(c) \/ PushRejected(c)
  \/ Refetch(c) \/ Replay(c) \/ Regenerate(c)

-----------------------------------------------------------------------------
(* The environment.                                                        *)

\* The watcher is killed, and started again; not within git rebase itself.
Killed(c) ==
  /\ c \in Mortal
  /\ pc[c] \notin {"idle", "abort"}
  /\ faults < MaxFaults /\ faults' = faults + 1
  /\ Exit(c)
  /\ UNCHANGED <<remote, tree, git, net>>

GoDown ==
  /\ Up
  /\ faults < MaxFaults /\ faults' = faults + 1
  /\ net' = "down"
  /\ UNCHANGED <<remote, tree, git, local, pc>>

ComeUp ==
  /\ ~Up
  /\ net' = "up"
  /\ UNCHANGED <<remote, tree, git, local, pc, faults>>

Next ==
  \/ \E c \in Clone : Append(c) \/ Tick(c) \/ Killed(c)
  \/ GoDown \/ ComeUp

Spec == Init /\ [][Next]_vars

\* A watcher keeps ticking, and an outage ends.
FairSpec == Spec /\ WF_vars(ComeUp) /\ \A c \in Clone : WF_vars(Tick(c))

-----------------------------------------------------------------------------
(* Properties.                                                             *)

\* An entry the team has seen is never lost again: a push replaces the tip of
\* the ops branch only by a commit that holds everything the tip held, whatever
\* the clones rebase, abort and retry meanwhile (sync.py, publish).
RemoteKeepsEntries == [][remote.entries \subseteq remote'.entries]_vars

\* The TEAM.md of a new tip shows every entry the previous tip held, also when
\* the push had to be replayed onto a colleague's (sync.py, _write_team).
TeamViewKeepsUp == [][remote' # remote => remote.entries \subseteq remote'.team]_vars

\* What a clone has committed stays in its commit and in its files, through
\* conflicts, aborts, crashes and replays (sync.py, pull and publish).
CommittedStays ==
  [][\A c \in Clone : head[c].entries \subseteq head'[c].entries \cap disk'[c]]_vars

\* Clones that stage, rebase, abort, crash and push against each other share one
\* log that only grows, to which each adds its own entries and nobody else's,
\* and keep what they have seen of it (sync.py, pull and publish).
Shared == INSTANCE SharedLedger WITH
            log <- remote.entries,
            known <- [c \in Clone |-> head[c].entries]
SharesLedger == Shared!Spec

\* Once the faults are over, a publish that has something to push gets it to the
\* remote, against its colleagues' pushes, and with it everything the clone had
\* stranded before (sync.py, publish's fetch, rebase and retry).
CommitReachesTeam ==
  \A c \in Clone :
    (faults = MaxFaults /\ Up /\ pc[c] = "push") ~> head[c].entries \subseteq remote.entries

\* sync.py:236: "publish deferred (will retry next tick)".  What a clone has
\* committed reaches the remote.
DeferredIsRetried ==
  \A c \in Clone, e \in Entry : e \in head[c].entries ~> e \in remote.entries

=============================================================================
