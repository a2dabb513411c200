------------------------------ MODULE WorkMerge ------------------------------
(***************************************************************************)
(* The branch, the pull request and the merge of one goal                  *)
(* (skills/sdlc-loop/scripts/work.py, the evidence of loop.py verify).     *)
(*                                                                         *)
(* One session works on the goal and calls one verb at a time; a verb is a *)
(* process that may die after any of its calls to git and gh.  Meanwhile   *)
(* others move the base branch, push to the pull request, review it and    *)
(* fetch in the same clone, and GitHub runs the checks.  A commit is known *)
(* by what it stands on and what it contains: a rebased commit is another. *)
(***************************************************************************)
EXTENDS Naturals

CONSTANTS
  None,             \* no commit
  Configs,          \* the configurations of `work`: auto_merge and require_review, and
                    \* whether protection of the base requires something
  Cap,              \* max_review_cycles, at least 1 after the fall-back to the default
  UnknownAttempts,  \* UNKNOWN_ATTEMPTS
  PendingAttempts,  \* PENDING_ATTEMPTS
  MaxRev,           \* bound: commits of the session
  MaxEvents         \* bound: what others do to the base, the branch and the reviews, and
                    \* what fails, together

Config ==
  [policy : {"off", "protected", "always"}, review : {"off", "changes", "approval"},
   enforced : BOOLEAN]

ASSUME WorkAssumption ==
  /\ Configs \subseteq Config
  /\ None \notin [rev : Nat, on : Nat, foreign : BOOLEAN]
  /\ Cap \in Nat \ {0} /\ UnknownAttempts \in Nat \ {0} /\ PendingAttempts \in Nat
  /\ MaxRev \in Nat /\ MaxEvents \in Nat

\* rev commits of the session on top of version `on` of the base, and maybe
\* commits of somebody else on top of those.
Commit == [rev : Nat, on : Nat, foreign : BOOLEAN]
Ref == {None} \cup Commit
Record == [made : BOOLEAN, pr : BOOLEAN, cycles : 0..Cap]
Label == {"idle", "note", "push", "create", "number", "unlink", "comment",
          "rights", "evidence", "gate", "rebase", "lease",
          "directive", "decision", "threads", "protect", "arm"}
Gate == [try : 0..(UnknownAttempts - 1), round : 0..PendingAttempts, again : BOOLEAN]
Signal == {"block", "changes", "thread"}

VARIABLES
  config,     \* the settings, fixed for a behaviour
  record,     \* state/work/<goal>.json
  worktree,   \* whether the goal's checkout exists
  dirty,      \* whether it holds uncommitted changes
  local,      \* the goal's branch in the clone
  tracking,   \* the clone's remote-tracking branch of it
  remote,     \* the branch on GitHub, the head of the pull request
  base,       \* the tip of the base branch on GitHub
  opened,     \* whether the pull request exists
  armed,      \* whether its auto-merge is enabled
  merged,     \* the commit that was merged
  checks,     \* GitHub's checks on the head
  marker,     \* the latest loopsmith: marker among the comments
  decision,   \* the formal reviewDecision
  thread,     \* whether a review thread is unresolved
  proof,      \* whether done_refusal accepts the verify evidence
  pc,         \* where the verb is
  gate,       \* the loop counters of gate(), and whether it is the second gate
  caller,     \* which verb called rebase(): "merge" or "rebase"
  told,       \* the approvals that review_gate has read
  fixes,      \* how often post-review sent this record's session back to fix
  standing,   \* the signals against merging that have stood since merge was called, as
              \* long as it could read the reviews
  events      \* moves of others and failures so far

branch == <<record, worktree, dirty, local, tracking>>
github == <<remote, base, opened, armed, merged, checks>>
review == <<marker, decision, thread>>
locals == <<gate, caller, told, standing>>
verb   == <<pc, locals>>
world  == <<config, branch, github, review, proof, fixes, events>>
vars   == <<world, verb>>

TypeOK ==
  /\ config \in Configs
  /\ record \in Record /\ (~record.made => ~record.pr /\ record.cycles = 0)
  /\ worktree \in BOOLEAN /\ dirty \in BOOLEAN /\ (dirty => worktree)
  /\ local \in Ref /\ tracking \in Ref /\ remote \in Ref
  /\ (local # None => ~local.foreign)
  /\ base \in Nat
  /\ opened \in BOOLEAN /\ armed \in BOOLEAN /\ merged \in Ref
  /\ checks \in {"pending", "ok", "failing"}
  /\ marker \in {"none", "approve", "block"}
  /\ decision \in {"none", "approved", "changes"} /\ thread \in BOOLEAN
  /\ proof \in BOOLEAN
  /\ pc \in Label
  /\ gate \in Gate
  /\ caller \in {"merge", "rebase"}
  /\ told \in SUBSET {"comment", "formal"}
  /\ fixes \in Nat
  /\ standing \in SUBSET Signal
  /\ events \in 0..MaxEvents

NoRecord == [made |-> FALSE, pr |-> FALSE, cycles |-> 0]
FreshGate == [try |-> 0, round |-> 0, again |-> FALSE]

Init ==
  /\ config \in Configs
  /\ record = NoRecord
  /\ worktree = FALSE /\ dirty = FALSE
  /\ local = None /\ tracking = None /\ remote = None
  /\ base = 0
  /\ opened = FALSE /\ armed = FALSE /\ merged = None
  /\ checks = "pending"
  /\ marker = "none" /\ decision = "none" /\ thread = FALSE
  /\ proof = FALSE
  /\ pc = "idle" /\ gate = FreshGate /\ caller = "merge" /\ told = {}
  /\ fixes = 0 /\ standing = {}
  /\ events = 0

-----------------------------------------------------------------------------
(* What the verbs and the others have in common.                           *)

Goto(l) == pc' = l

Event == events < MaxEvents /\ events' = events + 1

\* The verb ends, whatever it prints.
Return == Goto("idle") /\ gate' = FreshGate /\ caller' = "merge" /\ told' = {} /\ standing' = {}

\* The session starts a verb.  A merged goal is followed no further.
Call(l) ==
  /\ pc = "idle" /\ merged = None
  /\ Goto(l)

Against ==
  (IF marker = "block" THEN {"block"} ELSE {})
    \cup (IF decision = "changes" THEN {"changes"} ELSE {})
    \cup (IF thread THEN {"thread"} ELSE {})

\* Signals that are lifted have not stood.
StillStanding == standing' = standing \cap Against'

\* Whether git takes the push of `c` without force: what the remote has is part of it.
FastForward(c) ==
  remote # None => remote.on = c.on /\ remote.rev <= c.rev /\ ~remote.foreign

\* The branch on GitHub is now the local one, and its checks start anew; a
\* repository without checks has nothing to wait for.
Pushed ==
  /\ remote' = local
  /\ tracking' = local
  /\ IF remote = local THEN checks' = checks ELSE checks' \in {"pending", "ok"}
  /\ UNCHANGED <<base, opened, armed, merged>>

-----------------------------------------------------------------------------
(* start, commit, pr, finish.                                              *)

\* start: the base is fetched and the worktree cut from it.  With a record and its
\* checkout there is nothing to do.
StartFresh ==
  /\ Call("note") /\ ~(record.made /\ worktree)
  /\ local = None
  /\ local' = [rev |-> 0, on |-> base, foreign |-> FALSE]
  /\ worktree' = TRUE /\ dirty' = FALSE
  /\ UNCHANGED <<record, tracking, config, github, review, proof, locals, fixes, events>>

\* Mutant: a branch that outlived its record is cut anew (worktree add -B).
ReattachReset ==
  /\ Call("note") /\ ~(record.made /\ worktree)
  /\ local # None /\ ~worktree
  /\ local' = [rev |-> 0, on |-> base, foreign |-> FALSE]
  /\ worktree' = TRUE /\ dirty' = FALSE
  /\ UNCHANGED <<record, tracking, config, github, review, proof, locals, fixes, events>>

\* The branch outlived its record: `worktree add -b` fails, and without -b the branch
\* is checked out as it is.  (If its worktree still exists git refuses that too.)
Reattach ==
  /\ Call("note") /\ ~(record.made /\ worktree)
  /\ local # None /\ ~worktree
  /\ worktree' = TRUE /\ dirty' = FALSE
  /\ UNCHANGED <<record, local, tracking, config, github, review, proof, locals, fixes, events>>

\* start writes the record, with no pull request and no cycles in it.
Note ==
  /\ pc = "note" /\ Return
  /\ record' = [made |-> TRUE, pr |-> FALSE, cycles |-> 0]
  /\ fixes' = 0
  /\ UNCHANGED <<worktree, dirty, local, tracking, config, github, review, proof,
                 events>>

\* The session edits files.
Edit ==
  /\ pc = "idle" /\ merged = None /\ worktree /\ ~dirty /\ local.rev < MaxRev
  /\ dirty' = TRUE
  /\ UNCHANGED <<record, worktree, local, tracking, config, github, review, proof, verb,
                 fixes, events>>

\* commit: local only.
CommitAll ==
  /\ pc = "idle" /\ merged = None /\ record.made /\ worktree /\ dirty
  /\ local' = [local EXCEPT !.rev = @ + 1]
  /\ dirty' = FALSE
  /\ UNCHANGED <<record, worktree, tracking, config, github, review, proof, verb,
                 fixes, events>>

\* pr refuses an unclean or empty branch.
CallPr ==
  /\ Call("push") /\ record.made /\ worktree
  /\ ~dirty /\ local.rev > 0
  /\ UNCHANGED <<world, locals>>

Push ==
  /\ pc = "push"
  /\ FastForward(local)
  /\ Pushed /\ Goto("create")
  /\ UNCHANGED <<record, worktree, dirty, local, config, review, proof, locals, fixes, events>>

\* git refuses a push that is no fast-forward, and pr ends with its error.
PushRejected ==
  /\ pc = "push" /\ ~FastForward(local)
  /\ Return
  /\ UNCHANGED world

\* pr finds the pull request of the branch, or opens one.
Create ==
  /\ pc = "create" /\ Goto("number")
  /\ opened' = TRUE
  /\ UNCHANGED <<branch, remote, base, armed, merged, checks, config, review, proof,
                 locals, fixes, events>>

\* and keeps its number in the record.
Number ==
  /\ pc = "number" /\ Return
  /\ record' = [record EXCEPT !.pr = TRUE]
  /\ UNCHANGED <<worktree, dirty, local, tracking, config, github, review, proof,
                 fixes, events>>

\* finish: git removes the worktree, one that holds work with --force only,
Finish(force) ==
  /\ Call("unlink") /\ record.made /\ worktree
  /\ dirty => force
  /\ worktree' = FALSE /\ dirty' = FALSE
  /\ UNCHANGED <<record, local, tracking, config, github, review, proof, locals, fixes, events>>

\* and the record goes with it.
Unlink ==
  /\ pc = "unlink" /\ Return
  /\ record' = NoRecord
  /\ fixes' = 0
  /\ UNCHANGED <<worktree, dirty, local, tracking, config, github, review, proof,
                 events>>

-----------------------------------------------------------------------------
(* verify and post-review.                                                 *)

\* loop.py verify: the proving command runs in the worktree; its exit and time are kept.
Verify ==
  /\ pc = "idle" /\ merged = None /\ worktree
  /\ proof' \in BOOLEAN
  /\ UNCHANGED <<config, branch, github, review, verb, fixes, events>>

\* A new run of the loop starts: evidence from before it is stale.
StartRun ==
  /\ pc = "idle" /\ proof
  /\ proof' = FALSE
  /\ UNCHANGED <<config, branch, github, review, verb, fixes, events>>

\* post-review --verdict approve.
Approve ==
  /\ pc = "idle" /\ merged = None /\ record.pr /\ worktree
  /\ marker' = "approve"
  /\ UNCHANGED <<config, branch, github, decision, thread, proof, verb, fixes, events>>

\* Mutant: the cycle is kept in memory only.
BlockUncounted ==
  /\ Call("comment") /\ record.pr /\ worktree
  /\ UNCHANGED <<world, locals>>

\* post-review --verdict block saves the cycle first (counted here up to the cap it is
\* compared with),
Block ==
  /\ Call("comment") /\ record.pr /\ worktree
  /\ record' = [record EXCEPT !.cycles = IF @ < Cap THEN @ + 1 ELSE @]
  /\ UNCHANGED <<worktree, dirty, local, tracking, config, github, review, proof,
                 locals, fixes, events>>

\* then posts the comment, and parks or sends the session back to fix.
PostBlock ==
  /\ pc = "comment" /\ Return
  /\ marker' = "block"
  /\ fixes' = IF record.cycles < Cap THEN fixes + 1 ELSE fixes
  /\ UNCHANGED <<config, branch, github, decision, thread, proof, events>>

-----------------------------------------------------------------------------
(* merge.                                                                  *)

CallMerge ==
  /\ Call("rights") /\ record.pr /\ worktree
  /\ standing' = Against
  /\ UNCHANGED <<world, gate, caller, told>>

\* merge_rights: write access, or the pull request is left to a maintainer.
Rights ==
  /\ pc = "rights"
  /\ \/ Goto("evidence") /\ UNCHANGED locals
     \/ Return
  /\ UNCHANGED world

\* done_refusal: only green evidence of this run goes on.
Evidence ==
  /\ pc = "evidence"
  /\ IF proof THEN Goto("gate") /\ UNCHANGED locals ELSE Return
  /\ UNCHANGED world

\* What one `gh pr view` may answer about the pull request as it is.
Behind == remote.on < base
Clean == checks = "ok" /\ ~(config.enforced /\ Behind)

\* gate(): a read that fails or says UNKNOWN is repeated; the last one parks.
GateUnknown ==
  /\ pc = "gate"
  /\ IF gate.try < UnknownAttempts - 1
     THEN gate' = [gate EXCEPT !.try = @ + 1] /\ UNCHANGED <<pc, caller, told, standing>>
     ELSE Return
  /\ UNCHANGED world

\* Mutant: the head of the pull request is taken for the local one.
AnyHead == TRUE

\* The head that GitHub judges is the tip of the worktree.
SameHead == remote = local

\* The head is stale, the branch conflicts or is behind again, or a check has failed:
\* a human decides.
GateParks ==
  /\ pc = "gate"
  /\ \/ ~SameHead
     \/ Behind
     \/ ~Clean /\ checks # "pending"
  /\ Return
  /\ UNCHANGED world

\* Mutant: every re-read starts the budget of re-reads anew.
PendingForEver ==
  /\ pc = "gate" /\ SameHead /\ ~Clean /\ ~(config.enforced /\ Behind) /\ checks = "pending"
  /\ gate' = [gate EXCEPT !.try = 0]
  /\ UNCHANGED <<pc, caller, told, standing>>
  /\ UNCHANGED world

\* A required check has not answered: read again, PENDING_ATTEMPTS times at most.
GatePending ==
  /\ pc = "gate" /\ SameHead /\ ~Clean /\ ~(config.enforced /\ Behind) /\ checks = "pending"
  /\ IF gate.round < PendingAttempts
     THEN gate' = [gate EXCEPT !.round = @ + 1, !.try = 0] /\ UNCHANGED <<pc, caller, told, standing>>
     ELSE Return
  /\ UNCHANGED world

\* BEHIND, once: the branch is rebased and the gate asked again.
GateBehind ==
  /\ pc = "gate" /\ SameHead /\ config.enforced /\ Behind /\ ~gate.again
  /\ Goto("rebase") /\ UNCHANGED locals
  /\ UNCHANGED world

\* Clean and safe: with auto_merge off the rest is a human's.
GatePasses ==
  /\ pc = "gate" /\ SameHead /\ Clean
  /\ \/ config.policy = "off" /\ Return
     \/ /\ config.policy # "off"
        /\ Goto(IF config.review = "off" THEN "protect" ELSE "directive")
        /\ UNCHANGED locals
  /\ UNCHANGED world

\* The verb `rebase`, for a goal that has been started.
CallRebase ==
  /\ Call("rebase") /\ record.made /\ worktree
  /\ caller' = "rebase"
  /\ UNCHANGED <<world, gate, told, standing>>

\* rebase() fetches the base and replays the branch on it.  A conflict is aborted, which
\* leaves the branch as it was, and the verb ends.
Rebase ==
  /\ pc = "rebase"
  /\ \/ /\ local' = [local EXCEPT !.on = base]
        /\ Goto("lease") /\ UNCHANGED locals
     \/ local.on < base /\ UNCHANGED local /\ Return
  /\ UNCHANGED <<record, worktree, dirty, tracking, config, github, review, proof,
                 fixes, events>>

\* Mutant: push --force.
NoLease == TRUE

\* The remote branch is where the clone saw it last.
Lease == remote = tracking

\* push --force-with-lease; merge then asks its gate once more.
ForcePush ==
  /\ pc = "lease" /\ Lease
  /\ Pushed
  /\ \/ /\ caller = "merge"
        /\ Goto("gate") /\ gate' = [FreshGate EXCEPT !.again = TRUE]
        /\ UNCHANGED <<caller, told, standing>>
     \/ caller = "rebase" /\ Return
  /\ UNCHANGED <<record, worktree, dirty, local, config, review, proof, fixes, events>>

\* The lease is broken: git's error ends the verb, and the branch stays rebased.
LeaseBroken ==
  /\ pc = "lease" /\ ~Lease
  /\ Return
  /\ UNCHANGED world

\* The approval that `require_review: approval` wants has been read.
Approved == config.review = "changes" \/ told # {}

\* Mutant: an approval is looked for, a block is not.
DirectiveMissesBlock ==
  /\ pc = "directive"
  /\ told' = (IF marker = "approve" THEN {"comment"} ELSE {})
  /\ Goto("decision") /\ UNCHANGED <<gate, caller, standing>>
  /\ UNCHANGED world

\* review_gate reads the comments first: a block parks.
Directive ==
  /\ pc = "directive"
  /\ \/ marker = "block" /\ Return
     \/ /\ marker # "block"
        /\ told' = (IF marker = "approve" THEN {"comment"} ELSE {})
        /\ Goto("decision") /\ UNCHANGED <<gate, caller, standing>>
  /\ UNCHANGED world

\* Then the formal reviews: a request for changes parks.
Decision ==
  /\ pc = "decision"
  /\ \/ decision = "changes" /\ Return
     \/ /\ decision # "changes"
        /\ told' = told \cup (IF decision = "approved" THEN {"formal"} ELSE {})
        /\ Goto("threads") /\ UNCHANGED <<gate, caller, standing>>
  /\ UNCHANGED world

\* Then the threads: an unresolved one parks, and so does a missing approval.
Threads ==
  /\ pc = "threads"
  /\ IF ~thread /\ Approved THEN Goto("protect") /\ UNCHANGED locals ELSE Return
  /\ UNCHANGED world

\* protection(): with auto_merge "protected" the base has to enforce something.
Protect ==
  /\ pc = "protect"
  /\ IF config.policy = "protected" /\ ~config.enforced
     THEN Return
     ELSE Goto("arm") /\ UNCHANGED locals
  /\ UNCHANGED world

\* gh pr merge --auto.
Arm ==
  /\ pc = "arm" /\ Return
  /\ armed' = TRUE
  /\ UNCHANGED <<branch, remote, base, opened, merged, checks, config, review, proof,
                 fixes, events>>

-----------------------------------------------------------------------------
(* GitHub, the others, and what goes wrong.                                *)

\* A check answers, or is run again.
Report ==
  /\ remote # None /\ merged = None
  /\ checks' \in {"ok", "failing"} /\ checks = "pending"
  /\ UNCHANGED <<config, branch, remote, base, opened, armed, merged, review, proof, verb,
                 fixes, events>>

\* Auto-merge merges the head once what the base enforces is met.
AutoMerge ==
  /\ armed /\ merged = None /\ Clean
  /\ merged' = remote
  /\ UNCHANGED <<config, branch, remote, base, opened, armed, checks, review, proof, verb,
                 fixes, events>>

\* Somebody else's work lands on the base.
BaseMoves ==
  /\ merged = None /\ Event
  /\ base' = base + 1
  /\ UNCHANGED <<config, branch, remote, opened, armed, merged, checks, review, proof,
                 verb, fixes>>

\* Somebody pushes a commit to the branch of the pull request.
ForeignPush ==
  /\ opened /\ merged = None /\ ~remote.foreign /\ Event
  /\ remote' = [remote EXCEPT !.foreign = TRUE]
  /\ checks' = "pending"
  /\ UNCHANGED <<config, branch, base, opened, armed, merged, review, proof, verb,
                 fixes>>

\* Somebody fetches in the clone, whose worktrees share its remote-tracking branches.
UserFetch ==
  /\ opened /\ tracking # remote
  /\ tracking' = remote
  /\ UNCHANGED <<config, record, worktree, dirty, local, github, review, proof, verb,
                 fixes, events>>

\* Somebody comments, reviews, opens or resolves a thread.
Review ==
  /\ opened /\ merged = None /\ Event
  /\ \/ marker' \in {"none", "approve", "block"} /\ UNCHANGED <<decision, thread>>
     \/ decision' \in {"approved", "changes"} /\ UNCHANGED <<marker, thread>>
     \/ thread' = ~thread /\ UNCHANGED <<marker, decision>>
  /\ UNCHANGED <<config, branch, github, proof, pc, gate, caller, told, fixes>>
  /\ StillStanding

\* The verb is killed, or a call fails whose failure ends it.
Fails ==
  /\ pc # "idle" /\ Event /\ Return
  /\ UNCHANGED <<config, branch, github, review, proof, fixes>>

Pass(l) == Goto(l) /\ standing' = {} /\ UNCHANGED <<gate, caller, told>>

\* What review_gate and protection cannot read they pass over: unreadable comments are
\* no directive, unreadable reviews pass, unreadable threads are none, an unreadable
\* protection enforces nothing.
Unreadable ==
  /\ Event
  /\ \/ pc = "directive" /\ Pass("decision")
     \/ pc = "decision" /\ Pass("protect")
     \/ pc = "threads" /\ IF Approved THEN Pass("protect") ELSE Return
     \/ pc = "protect" /\ IF config.policy = "protected" THEN Return ELSE Pass("arm")
  /\ UNCHANGED <<config, branch, github, review, proof, fixes>>

-----------------------------------------------------------------------------
Start == StartFresh \/ Reattach \/ Note
Pr == CallPr \/ Push \/ PushRejected \/ Create \/ Number
PostReview == Approve \/ Block \/ PostBlock
GateStep == GateUnknown \/ GateParks \/ GatePending \/ GateBehind \/ GatePasses
RebaseStep == CallRebase \/ Rebase \/ ForcePush \/ LeaseBroken
ReviewGate == Directive \/ Decision \/ Threads
Merge == CallMerge \/ Rights \/ Evidence \/ GateStep \/ RebaseStep \/ ReviewGate \/ Protect \/ Arm
Session ==
  \/ Start \/ Edit \/ CommitAll \/ Pr \/ Verify \/ StartRun \/ PostReview \/ Merge
  \/ (\E force \in BOOLEAN : Finish(force)) \/ Unlink
Others == Report \/ AutoMerge \/ BaseMoves \/ ForeignPush \/ UserFetch \/ Review
Faults == Fails \/ Unreadable

Next == Session \/ Others \/ Faults

Spec == Init /\ [][Next]_vars

\* A verb that runs goes on: every call to git and gh returns or fails, and the sleeps end.
VerbStep == pc # "idle" /\ Session
FairSpec == Spec /\ WF_vars(VerbStep)

\* And whoever picked the goal tries to start it.
StartSpec == FairSpec /\ WF_vars(Start)

-----------------------------------------------------------------------------
(* Properties.                                                             *)

\* Auto-merge is never armed on a head that lacks a commit of the worktree, however
\* commits, pushes and moves of the base interleave with merge: the stale-head check of
\* work.py gate().
NothingOlderIsArmed ==
  [][~armed /\ armed' => remote.rev = local.rev /\ remote.on = local.on]_vars

\* No push of the session, forced or not, drops a commit of somebody else that the clone
\* has not seen: pr never forces, and rebase() pushes with a lease.
UnseenWorkSurvives ==
  [][remote # None /\ remote.foreign /\ ~(tracking # None /\ tracking.foreign)
       => remote'.foreign]_vars

\* With require_review on, no merge is armed over a signal against it (a block comment,
\* a request for changes, an unresolved thread) that stood all the time since merge was
\* called, unless reading the reviews failed: work.py review_gate.
StandingSignalStops ==
  [][~armed /\ armed' => config.review = "off" \/ standing = {}]_vars

\* A work record sends the session back to fix fewer than max_review_cycles times,
\* whatever of its verbs fail or die: the hard cap of work.py post_review.
FixesWithinCap == fixes < Cap

\* What the session has pushed stays on the pull request, whatever is finished (forced or
\* not), killed, started again, rebased or pushed after it: start attaches to the branch
\* that outlived its record, from which a later push may force (work.py start, finish,
\* rebase).
OwnWorkSurvives ==
  [][remote # None => remote' # None /\ remote'.rev >= remote.rev]_vars

\* Whatever GitHub answers, a verb comes to an end: the reads of gate() are bounded and
\* it rebases once.
VerbEnds == pc # "idle" ~> pc = "idle"

\* A goal whose worktree exists can be started again, whatever happened to its record
\* (work.py start: "resumable ... whether the record is still there or was lost while the
\* branch/worktree survived").
SurvivorResumes == (pc = "idle" /\ worktree) ~> (record.made \/ merged # None)
=============================================================================
