------------------------------- MODULE Slices -------------------------------
(***************************************************************************)
(* The slices of one goal, run in waves (skills/sdlc-loop/scripts/         *)
(* slices.py, and step 3b of skills/sdlc-loop/SKILL.md).                   *)
(*                                                                         *)
(* A manifest beside the goal's plan lists slices, what each needs and the *)
(* files each declares.  `plan` refuses a manifest it cannot schedule and  *)
(* otherwise picks the next wave; the agent runs that wave, one subagent   *)
(* and one worktree for each slice, lands what comes out, and plans again. *)
(* The worktrees of a wave start from the same commit, so a slice sees     *)
(* what landed before its wave and nothing of its siblings.                *)
(*                                                                         *)
(* A path or a glob is the sequence of its segments.  A segment is a name  *)
(* or Star, which stands for any segment with a wildcard in it; a Star at  *)
(* the end stands for everything below.                                    *)
(***************************************************************************)
EXTENDS Naturals, Sequences, FiniteSets

CONSTANTS
  Id,             \* slice ids
  None,           \* an id left out; a slice that has landed nothing
  Segment,        \* path segments
  Star,           \* a segment with a wildcard
  Depth,          \* bound: the longest path
  File,           \* the files of the repository
  Manifests,      \* the manifests somebody may write
  MaxConcurrent,  \* config parallel.max_concurrent, or --max
  MaxFaults       \* bound: failed slices and lost sessions

Path == UNION {[1..n -> Segment \ {Star}] : n \in 1..Depth}
Glob == UNION {[1..n -> Segment \cup {Star}] : n \in 1..Depth}
Entry == [id : Id \cup {None}, needs : SUBSET Id, files : SUBSET Glob]

ASSUME SlicesAssumption ==
  /\ None \notin Id /\ None \notin File
  /\ Depth \in Nat /\ MaxConcurrent \in Nat /\ MaxFaults \in Nat
  /\ File \subseteq Path
  /\ Manifests \subseteq Seq(Entry)

VARIABLES
  manifest,  \* .sdlc/plans/<goal>.slices.json without the statuses
  done,      \* the slices whose status is "done"
  wave,      \* the slices dispatched together last
  out,       \* those of them that still run
  edited,    \* a file each slice has changed in the wave, or None
  faults

vars == <<manifest, done, wave, out, edited, faults>>

-----------------------------------------------------------------------------
(* Which slices depend on which.                                           *)

Slice == DOMAIN manifest
NeedsOf(s) == {t \in Slice : manifest[t].id \in manifest[s].needs}
Closed(T) == \A t \in T : NeedsOf(t) \subseteq T

\* Everything s waits for: in every set that has what s needs and is closed.
Upstream(s) ==
  {t \in Slice : \A T \in SUBSET Slice : NeedsOf(s) \subseteq T /\ Closed(T) => t \in T}

FanOut(s) == Cardinality({t \in Slice \ {s} : s \in Upstream(t)})

\* Mutant: only two slices that need each other are a cycle.
CycleIsAPair ==
  \A s, t \in Slice : ~ (s # t /\ t \in NeedsOf(s) /\ s \in NeedsOf(t))

NoCycle == \A s \in Slice : s \notin Upstream(s)

Validate ==
  /\ \A s \in Slice : manifest[s].id # None
  /\ \A s, t \in Slice : manifest[s].id = manifest[t].id => s = t
  /\ \A s \in Slice : manifest[s].needs \subseteq {manifest[t].id : t \in Slice}
  /\ NoCycle

-----------------------------------------------------------------------------
(* Which slices may touch one file.                                        *)

\* A file that somebody who declared g may edit.
Covers(g, f) == DOMAIN g \subseteq DOMAIN f /\ \A i \in DOMAIN g : g[i] \in {Star, f[i]}

\* fnmatch reads its first argument as text, wildcards included, and lets a
\* last `*` of the pattern run over several segments.
FnMatch(text, g) ==
  /\ DOMAIN g \subseteq DOMAIN text
  /\ \A i \in DOMAIN g : g[i] \in {Star, text[i]}
  /\ DOMAIN g # DOMAIN text => \E i \in DOMAIN g : i + 1 \notin DOMAIN g /\ g[i] = Star

\* The positions of the segments before the first wildcard.
LiteralPrefix(g) == {i \in DOMAIN g : \A j \in 1..i : g[j] # Star}

\* The prefix is joined with "/" and gets one at the end: without a segment
\* it is "/", which only the prefix of another such glob starts with.
StartsWith(a, b) ==
  /\ LiteralPrefix(b) \subseteq LiteralPrefix(a)
  /\ \A i \in LiteralPrefix(b) : a[i] = b[i]
  /\ LiteralPrefix(b) = {} => LiteralPrefix(a) = {}

\* Mutant: the two globs are compared in one direction only.
OverlapOneWay(a, b) == FnMatch(a, b) \/ StartsWith(a, b)

Overlap(a, b) == FnMatch(a, b) \/ FnMatch(b, a) \/ StartsWith(a, b) \/ StartsWith(b, a)

Conflicts(s, t) ==
  \/ manifest[s].files = {}
  \/ manifest[t].files = {}
  \/ \E a \in manifest[s].files, b \in manifest[t].files : Overlap(a, b)

-----------------------------------------------------------------------------
(* The next wave.                                                          *)

\* Mutant: one landed need is enough.
ReadyOnAny == {s \in Slice \ done : NeedsOf(s) # {} => NeedsOf(s) \cap done # {}}

Ready == {s \in Slice \ done : NeedsOf(s) \subseteq done}

\* Widest fan-out first, then the order of the manifest.
Before(s, t) ==
  \/ FanOut(s) > FanOut(t)
  \/ FanOut(s) = FanOut(t) /\ s < t

Cap == IF MaxConcurrent = 0 THEN 1 ELSE MaxConcurrent

\* What the greedy pass over the sorted frontier picks: a slice is in exactly
\* if there was room when its turn came and none picked before conflicts.
IsWave(W) ==
  \A s \in Ready :
    LET picked == {t \in W : Before(t, s)}
    IN  s \in W <=> Cardinality(picked) < Cap /\ \A t \in picked : ~Conflicts(s, t)

-----------------------------------------------------------------------------

TypeOK ==
  /\ manifest \in Manifests
  /\ done \subseteq Slice
  /\ out \subseteq wave
  /\ wave \subseteq out \cup done \cup {s \in Slice : edited[s] = None}
  /\ out \cap done = {}
  /\ edited \in [Slice -> File \cup {None}]
  /\ faults \in 0..MaxFaults

\* The goal may be resumed with some slices landed, each after what it needs.
Init ==
  /\ manifest \in Manifests
  /\ done \in {T \in SUBSET Slice : Closed(T)}
  /\ wave = {}
  /\ out = {}
  /\ edited = [s \in Slice |-> None]
  /\ faults = 0

\* slices.py plan, and the dispatch of its first wave.
Plan ==
  /\ out = {}
  /\ Validate
  /\ \E W \in SUBSET Ready :
       /\ IsWave(W)
       /\ W # {}
       /\ wave' = W
       /\ out' = W
  /\ edited' = [s \in Slice |-> None]
  /\ UNCHANGED <<manifest, done, faults>>

\* A slice that declares nothing may edit any file.
MayEdit(s) ==
  IF manifest[s].files = {} THEN File ELSE {f \in File : \E g \in manifest[s].files : Covers(g, f)}

\* The subagent comes back, and its worktree, in which it edited f among
\* other files, is merged; the manifest then says done.
Land(s) ==
  /\ s \in out
  /\ \E f \in MayEdit(s) \cup {None} : edited' = [edited EXCEPT ![s] = f]
  /\ out' = out \ {s}
  /\ done' = done \cup {s}
  /\ UNCHANGED <<manifest, wave, faults>>

\* The subagent comes back with nothing to land.
Fail(s) ==
  /\ s \in out
  /\ faults < MaxFaults
  /\ faults' = faults + 1
  /\ out' = out \ {s}
  /\ UNCHANGED <<manifest, done, wave, edited>>

\* The session ends with its subagents; the next one picks the goal up.
SessionEnds ==
  /\ out # {}
  /\ faults < MaxFaults
  /\ faults' = faults + 1
  /\ out' = {}
  /\ UNCHANGED <<manifest, done, wave, edited>>

Next == Plan \/ SessionEnds \/ \E s \in Slice : Land(s) \/ Fail(s)

Spec == Init /\ [][Next]_vars

\* The agent goes on planning, and a subagent comes back sooner or later.
FairSpec == Spec /\ WF_vars(Plan) /\ WF_vars(\E s \in Slice : Land(s) \/ Fail(s))

-----------------------------------------------------------------------------
(* What the waves promise.                                                 *)

\* Two slices of one wave never change the same file: they would do it in two
\* worktrees of one commit, and one edit would be lost (slices.py, conflicts).
NoLostEdit ==
  \A s, t \in wave : s # t /\ edited[s] # None => edited[s] # edited[t]

\* A slice starts from a checkout that has everything it waits for, directly
\* or through other slices: all of it landed, and none of it in its own wave,
\* where it would land too late to be seen (slices.py, schedule).
BuiltOnNeeds ==
  \A s \in wave : Upstream(s) \subseteq done \ wave

\* A manifest that `check` accepts is run to its end, whatever fails on the
\* way: the frontier always opens again (slices.py, validate and schedule).
AllLand == Validate ~> done = Slice

=============================================================================
