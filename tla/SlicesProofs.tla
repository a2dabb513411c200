---------------------------- MODULE SlicesProofs ----------------------------
(***************************************************************************)
(* Proofs about Slices, for any manifests, any repository and any number   *)
(* of slices in a wave.                                                    *)
(***************************************************************************)
EXTENDS Slices, FiniteSetTheorems, TLAPS

-----------------------------------------------------------------------------
(* Globs and paths.                                                        *)

\* A glob whose first segment is a name, or that is one wildcard.
Anchored(g) == g[1] # Star \/ DOMAIN g = {1}

AllAnchored == \A m \in Manifests : \A s \in DOMAIN m : \A g \in m[s].files : Anchored(g)

LEMMA GlobDomain ==
  ASSUME NEW S, NEW d \in Nat, NEW g \in UNION {[1..n -> S] : n \in 1..d}
  PROVE  \E n \in Nat : n >= 1 /\ DOMAIN g = 1..n
  OBVIOUS

\* Of two globs that cover one file, one literal prefix holds the other.
LEMMA PrefixesNest ==
  ASSUME NEW g \in Glob, NEW h \in Glob, NEW f \in File,
         Covers(g, f), Covers(h, f), Depth \in Nat,
         g[1] # Star, h[1] # Star
  PROVE  StartsWith(g, h) \/ StartsWith(h, g)
<1>1. PICK n \in Nat : n >= 1 /\ DOMAIN g = 1..n
  BY GlobDomain DEF Glob
<1>2. PICK k \in Nat : k >= 1 /\ DOMAIN h = 1..k
  BY GlobDomain DEF Glob
<1>3. 1 \in LiteralPrefix(g) /\ 1 \in LiteralPrefix(h)
  BY <1>1, <1>2 DEF LiteralPrefix
<1>4. /\ \A i \in LiteralPrefix(g) : i \in 1..n /\ g[i] = f[i]
      /\ \A i \in LiteralPrefix(h) : i \in 1..k /\ h[i] = f[i]
  BY <1>1, <1>2 DEF LiteralPrefix, Covers
<1>5. LiteralPrefix(g) \subseteq LiteralPrefix(h) \/ LiteralPrefix(h) \subseteq LiteralPrefix(g)
  <2>1. SUFFICES ASSUME NEW i \in LiteralPrefix(g), i \notin LiteralPrefix(h),
                        NEW j \in LiteralPrefix(h)
                 PROVE  j \in LiteralPrefix(g)
    OBVIOUS
  <2>2. i \in 1..n /\ j \in 1..k
    BY <1>4, <2>1
  <2>3. j <= i
    <3>1. SUFFICES ASSUME j > i  PROVE FALSE
      BY <2>2
    <3>2. i \in DOMAIN h /\ \A l \in 1..i : l \in 1..j
      BY <2>2, <3>1, <1>2
    <3>. QED
      BY <3>2, <2>1 DEF LiteralPrefix
  <2>4. j \in DOMAIN g /\ \A l \in 1..j : l \in 1..i
    BY <2>2, <2>3, <1>1
  <2>. QED
    BY <2>4, <2>1 DEF LiteralPrefix
<1>. QED
  BY <1>3, <1>4, <1>5 DEF StartsWith

\* Globs that cover one file are judged to overlap.
LEMMA OverlapIsSound ==
  ASSUME NEW g \in Glob, NEW h \in Glob, NEW f \in File,
         Covers(g, f), Covers(h, f), Anchored(g), Anchored(h), Depth \in Nat
  PROVE  Overlap(g, h)
<1>1. PICK n \in Nat : n >= 1 /\ DOMAIN g = 1..n
  BY GlobDomain DEF Glob
<1>2. PICK k \in Nat : k >= 1 /\ DOMAIN h = 1..k
  BY GlobDomain DEF Glob
<1>3. CASE g[1] # Star /\ h[1] # Star
  BY <1>3, PrefixesNest DEF Overlap
<1>4. CASE g[1] = Star
  <2>1. DOMAIN g = {1} /\ 1 \in DOMAIN h
    BY <1>2, <1>4 DEF Anchored
  <2>. QED
    BY <2>1, <1>4 DEF Overlap, FnMatch
<1>5. CASE h[1] = Star
  <2>1. DOMAIN h = {1} /\ 1 \in DOMAIN g
    BY <1>1, <1>5 DEF Anchored
  <2>. QED
    BY <2>1, <1>5 DEF Overlap, FnMatch
<1>. QED
  BY <1>3, <1>4, <1>5

-----------------------------------------------------------------------------
(* The manifest does not change.                                           *)

LEMMA ManifestShape ==
  ASSUME TypeOK
  PROVE  /\ Slice = 1..Len(manifest) /\ Len(manifest) \in Nat
         /\ \A s \in Slice : manifest[s] \in Entry
  BY SlicesAssumption DEF TypeOK, Slice

LEMMA SameGraph ==
  ASSUME manifest' = manifest
  PROVE  /\ Slice' = Slice
         /\ \A s : NeedsOf(s)' = NeedsOf(s)
         /\ \A s : MayEdit(s)' = MayEdit(s)
         /\ \A s, t : Conflicts(s, t)' = Conflicts(s, t)
  BY DEF Slice, NeedsOf, MayEdit, Conflicts

LEMMA SameUpstream ==
  ASSUME manifest' = manifest, NEW s
  PROVE  Upstream(s)' = Upstream(s)
  BY SameGraph DEF Upstream, Closed

LEMMA NextKeepsManifest == Next => manifest' = manifest
  BY DEF Next, Plan, Land, Fail, SessionEnds

-----------------------------------------------------------------------------
(* Types.                                                                  *)

\* What is out has landed nothing yet; what is landed, and what was before the
\* wave, stands on what it needs.
Landing ==
  /\ wave \subseteq Slice
  /\ \A s \in out : edited[s] = None
  /\ Closed(done)
  /\ Closed(done \ wave)

\* What each slice of a wave needs landed before the wave.
NeedsLanded == \A s \in wave : NeedsOf(s) \subseteq done \ wave

SlicesInv == TypeOK /\ Landing /\ NeedsLanded

LEMMA InvInit == Init => SlicesInv
<1> SUFFICES ASSUME Init  PROVE SlicesInv
  OBVIOUS
<1>1. done \subseteq Slice /\ Closed(done)
  BY DEF Init
<1>2. TypeOK
  BY <1>1, SlicesAssumption DEF Init, TypeOK
<1>3. done \ wave = done
  BY DEF Init
<1>. QED
  BY <1>1, <1>2, <1>3 DEF Init, SlicesInv, Landing, NeedsLanded

LEMMA InvStep == SlicesInv /\ [Next]_vars => SlicesInv'
<1> SUFFICES ASSUME SlicesInv, [Next]_vars  PROVE SlicesInv'
  OBVIOUS
<1> USE DEF SlicesInv
<1>1. CASE Plan
  <2>1. manifest' = manifest /\ done' = done /\ faults' = faults
    BY <1>1 DEF Plan
  <2>2. PICK W \in SUBSET Ready : wave' = W /\ out' = W
    BY <1>1 DEF Plan
  <2>3. wave' \subseteq Slice \ done /\ \A s \in wave' : NeedsOf(s) \subseteq done
    BY <2>2 DEF Ready
  <2>4. edited' = [s \in Slice |-> None]
    BY <1>1 DEF Plan
  <2>5. TypeOK'
    BY <2>1, <2>2, <2>3, <2>4, SameGraph DEF TypeOK
  <2>6. done' \ wave' = done
    BY <2>1, <2>3
  <2>7. Landing'
    BY <2>1, <2>2, <2>3, <2>4, <2>6, SameGraph DEF Landing, Closed
  <2>8. NeedsLanded'
    BY <2>1, <2>3, SameGraph DEF NeedsLanded
  <2>. QED
    BY <2>5, <2>7, <2>8
<1>2. ASSUME NEW s \in Slice, Land(s)  PROVE SlicesInv'
  <2>1. /\ manifest' = manifest /\ wave' = wave /\ faults' = faults
        /\ s \in out /\ out' = out \ {s} /\ done' = done \cup {s}
    BY <1>2 DEF Land
  <2>2. PICK f \in MayEdit(s) \cup {None} : edited' = [edited EXCEPT ![s] = f]
    BY <1>2 DEF Land
  <2>3. f \in File \cup {None}
    BY <2>2 DEF MayEdit
  <2>4. s \in wave
    BY <2>1 DEF TypeOK
  <2>5. TypeOK'
    BY <2>1, <2>2, <2>3, SameGraph DEF TypeOK
  <2>6. NeedsOf(s) \subseteq done
    BY <2>4 DEF NeedsLanded
  <2>7. done' \ wave' = done \ wave
    BY <2>1, <2>4
  <2>8. Closed(done') /\ Closed(done \ wave)
    BY <2>1, <2>6 DEF Landing, Closed
  <2>9. \A t \in out' : edited'[t] = None
    BY <2>1, <2>2 DEF Landing, TypeOK
  <2>10. Landing'
    BY <2>1, <2>7, <2>8, <2>9, SameGraph DEF Landing, Closed
  <2>11. NeedsLanded'
    BY <2>1, <2>7, SameGraph DEF NeedsLanded
  <2>. QED
    BY <2>5, <2>10, <2>11
<1>3. ASSUME NEW s \in Slice, Fail(s)  PROVE SlicesInv'
  <2>1. /\ UNCHANGED <<manifest, done, wave, edited>>
        /\ out' = out \ {s} /\ s \in out
        /\ faults < MaxFaults /\ faults' = faults + 1
    BY <1>3 DEF Fail
  <2>2. TypeOK'
    BY <2>1, SameGraph, SlicesAssumption DEF TypeOK, Landing
  <2>. QED
    BY <2>1, <2>2, SameGraph DEF Landing, NeedsLanded, Closed
<1>4. CASE SessionEnds
  <2>1. /\ UNCHANGED <<manifest, done, wave, edited>>
        /\ out' = {}
        /\ faults < MaxFaults /\ faults' = faults + 1
    BY <1>4 DEF SessionEnds
  <2>2. TypeOK'
    BY <2>1, SameGraph, SlicesAssumption DEF TypeOK, Landing
  <2>. QED
    BY <2>1, <2>2, SameGraph DEF Landing, NeedsLanded, Closed
<1>5. CASE UNCHANGED vars
  BY <1>5, SameGraph DEF vars, TypeOK, Landing, NeedsLanded, Closed
<1>. QED
  BY <1>1, <1>2, <1>3, <1>4, <1>5 DEF Next

\* The waves keep their types: in particular a slice that has landed is never
\* sent out again, and the edits belong to slices that landed
\* (slices.py, schedule).
THEOREM SlicesTypeCorrect == Spec => []TypeOK
  BY InvInit, InvStep, PTL DEF Spec, SlicesInv

-----------------------------------------------------------------------------
(* Dependencies.                                                           *)

LEMMA NeedsReachUpstream ==
  ASSUME SlicesInv, NEW s \in wave
  PROVE  Upstream(s) \subseteq done \ wave
<1>1. done \in SUBSET Slice /\ Closed(done) /\ NeedsOf(s) \subseteq done
  BY DEF SlicesInv, TypeOK, Landing, NeedsLanded
<1>. DEFINE before == done \ wave
<1>2. NeedsOf(s) \subseteq before /\ before \in SUBSET Slice
  BY DEF SlicesInv, TypeOK, NeedsLanded
<1>3. Closed(before)
  BY DEF SlicesInv, Landing
<1>. QED
  BY <1>2, <1>3 DEF Upstream
\* Whatever a slice of a wave waits for has landed before the wave
\* (slices.py, schedule).
THEOREM SlicesBuildOnNeeds == Spec => []BuiltOnNeeds
<1>1. SlicesInv => BuiltOnNeeds
  BY NeedsReachUpstream DEF BuiltOnNeeds
<1>. QED
  BY <1>1, InvInit, InvStep, PTL DEF Spec

-----------------------------------------------------------------------------
(* Lost edits.                                                             *)

LEMMA FanOutIsNat ==
  ASSUME TypeOK, NEW s \in Slice
  PROVE  FanOut(s) \in Nat
<1>1. IsFiniteSet(Slice)
  BY ManifestShape, FS_Interval
<1>2. IsFiniteSet({t \in Slice \ {s} : s \in Upstream(t)})
  BY <1>1, FS_Subset
<1>. QED
  BY <1>2, FS_CardinalityType DEF FanOut

\* The sorted frontier has one order.
LEMMA BeforeIsTotal ==
  ASSUME TypeOK, NEW s \in Slice, NEW t \in Slice, s # t
  PROVE  Before(s, t) \/ Before(t, s)
<1>1. s \in Nat /\ t \in Nat /\ FanOut(s) \in Nat /\ FanOut(t) \in Nat
  BY ManifestShape, FanOutIsNat
<1>. QED
  BY <1>1 DEF Before

LEMMA ConflictsIsSymmetric ==
  ASSUME NEW s, NEW t, Conflicts(s, t)
  PROVE  Conflicts(t, s)
  BY DEF Conflicts, Overlap

\* No two slices of a wave conflict, and each edits what it declared.
Apart == \A s, t \in wave : s # t => ~Conflicts(s, t)
Declared == \A s \in wave : edited[s] # None => edited[s] \in MayEdit(s)

LEMMA ApartStep == SlicesInv /\ Apart /\ Declared /\ [Next]_vars => Apart' /\ Declared'
<1> SUFFICES ASSUME SlicesInv, Apart, Declared, [Next]_vars  PROVE Apart' /\ Declared'
  OBVIOUS
<1>1. CASE Plan
  <2>1. PICK W \in SUBSET Ready : IsWave(W) /\ wave' = W
    BY <1>1 DEF Plan
  <2>2. manifest' = manifest /\ edited' = [s \in Slice |-> None]
    BY <1>1 DEF Plan
  <2>3. ASSUME NEW s \in W, NEW t \in W, Before(t, s)  PROVE ~Conflicts(s, t)
    BY <2>1, <2>3 DEF IsWave
  <2>4. ASSUME NEW s \in W, NEW t \in W, s # t  PROVE ~Conflicts(s, t)
    <3>1. s \in Slice /\ t \in Slice
      BY <2>1 DEF Ready
    <3>2. Before(s, t) \/ Before(t, s)
      BY <3>1, <2>4, BeforeIsTotal DEF SlicesInv
    <3>. QED
      BY <3>2, <2>3, ConflictsIsSymmetric
  <2>5. Apart'
    BY <2>1, <2>2, <2>4, SameGraph DEF Apart
  <2>6. Declared'
    BY <2>1, <2>2 DEF Declared, Ready
  <2>. QED
    BY <2>5, <2>6
<1>2. ASSUME NEW s \in Slice, Land(s)  PROVE Apart' /\ Declared'
  BY <1>2, SameGraph DEF Land, Apart, Declared, SlicesInv, TypeOK
<1>3. ASSUME NEW s \in Slice, Fail(s)  PROVE Apart' /\ Declared'
  BY <1>3, SameGraph DEF Fail, Apart, Declared
<1>4. CASE SessionEnds
  BY <1>4, SameGraph DEF SessionEnds, Apart, Declared
<1>5. CASE UNCHANGED vars
  BY <1>5, SameGraph DEF vars, Apart, Declared
<1>. QED
  BY <1>1, <1>2, <1>3, <1>4, <1>5 DEF Next

LEMMA ApartInit == Init => Apart /\ Declared
  BY DEF Init, Apart, Declared

LEMMA ApartSavesEdits ==
  ASSUME AllAnchored, SlicesInv, Apart, Declared
  PROVE  NoLostEdit
<1>1. SUFFICES ASSUME NEW s \in wave, NEW t \in wave, s # t,
                      edited[s] # None, edited[s] = edited[t]
               PROVE  FALSE
  BY DEF NoLostEdit
<1>. DEFINE f == edited[s]
<1>2. f \in MayEdit(s) /\ f \in MayEdit(t) /\ ~Conflicts(s, t)
  BY <1>1 DEF Apart, Declared
<1>3. manifest[s].files # {} /\ manifest[t].files # {}
  BY <1>2 DEF Conflicts
<1>4. f \in File
  BY <1>2, <1>3 DEF MayEdit
<1>5. PICK g \in manifest[s].files : Covers(g, f)
  BY <1>2, <1>3 DEF MayEdit
<1>6. PICK h \in manifest[t].files : Covers(h, f)
  BY <1>2, <1>3 DEF MayEdit
<1>7. g \in Glob /\ h \in Glob
  <2>1. s \in Slice /\ t \in Slice
    BY DEF SlicesInv, Landing
  <2>. QED
    BY <2>1, <1>5, <1>6, ManifestShape DEF SlicesInv, Entry
<1>8. Anchored(g) /\ Anchored(h)
  <2>1. s \in DOMAIN manifest /\ t \in DOMAIN manifest /\ manifest \in Manifests
    BY DEF SlicesInv, Landing, TypeOK, Slice
  <2>. QED
    BY <2>1, <1>5, <1>6 DEF AllAnchored
<1>9. Overlap(g, h)
  BY <1>4, <1>5, <1>6, <1>7, <1>8, OverlapIsSound, SlicesAssumption
<1>. QED
  BY <1>2, <1>5, <1>6, <1>9 DEF Conflicts

\* Where no glob begins with a wildcard (one that is a wildcard and nothing
\* else may), two slices of a wave never edit one file
\* (slices.py, conflicts and schedule).
THEOREM NoEditIsLost ==
  ASSUME AllAnchored
  PROVE  Spec => []NoLostEdit
<1>1. SlicesInv /\ Apart /\ Declared => NoLostEdit
  BY AllAnchored, ApartSavesEdits
<1>. QED
  BY <1>1, InvInit, InvStep, ApartInit, ApartStep, PTL DEF Spec

=============================================================================
