--------------------------- MODULE WorkMergeProofs ---------------------------
(***************************************************************************)
(* Proofs about WorkMerge, for any cap, any number of attempts and of      *)
(* events.                                                                 *)
(***************************************************************************)
EXTENDS WorkMerge, TLAPS

-----------------------------------------------------------------------------
(* Types.                                                                  *)

\* Once there is a worktree, a record or a running verb there is a branch, and once
\* there is a pull request there is one on GitHub.
BranchInv ==
  /\ worktree \/ record.made \/ pc # "idle" => local # None
  /\ pc \in {"push", "create", "number", "comment"} => record.made
  /\ opened \/ record.pr \/ pc \in {"create", "number"} => remote # None

Typed == TypeOK /\ BranchInv

LEMMA Fresh == FreshGate \in Gate /\ NoRecord \in Record /\ None \notin Commit
<1>1. 0 \in 0..(UnknownAttempts - 1) /\ 0 \in 0..PendingAttempts /\ 0 \in 0..Cap
  BY WorkAssumption
<1>. QED
  BY <1>1, WorkAssumption DEF FreshGate, Gate, NoRecord, Record, Commit

LEMMA TypedInit == Init => Typed
<1> SUFFICES ASSUME Init PROVE Typed
  OBVIOUS
<1>1. /\ None \in Ref /\ "idle" \in Label /\ 0 \in 0..MaxEvents /\ 0 \in Nat
      /\ ~NoRecord.made /\ ~NoRecord.pr /\ NoRecord.cycles = 0
  BY WorkAssumption DEF Ref, Label, NoRecord
<1>3. TypeOK
  BY <1>1, Fresh DEF Init, TypeOK
<1>2. BranchInv
  BY DEF Init, BranchInv, NoRecord
<1>. QED
  BY <1>2, <1>3 DEF Typed

\* A verb's end leaves its local variables well typed.
LEMMA ReturnType ==
  ASSUME Return
  PROVE  /\ pc' = "idle" /\ pc' \in Label /\ gate' \in Gate /\ caller' \in {"merge", "rebase"}
         /\ told' \in SUBSET {"comment", "formal"} /\ standing' \in SUBSET Signal
  BY Fresh DEF Return, Goto, Label

\* The tip of a push is a commit of the session.
LEMMA PushedType ==
  ASSUME Typed, local # None, Pushed
  PROVE  /\ remote' \in Ref /\ tracking' \in Ref /\ remote' # None
         /\ checks' \in {"pending", "ok", "failing"}
         /\ base' = base /\ opened' = opened /\ armed' = armed /\ merged' = merged
  BY DEF Typed, TypeOK, Pushed

\* A verb that touches the checkout only leaves the rest typed as it was.
LEMMA CheckoutType ==
  ASSUME TypeOK, worktree' \in BOOLEAN, dirty' \in BOOLEAN, dirty' => worktree',
         local' \in Ref, local' # None => ~local'.foreign, pc' \in Label,
         UNCHANGED <<record, tracking, config, github, review, proof, locals, fixes, events>>
  PROVE  TypeOK'
<1> USE DEF TypeOK, github, review, locals
<1>1. /\ config' \in Configs
      /\ record' \in Record /\ (~record'.made => ~record'.pr /\ record'.cycles = 0)
      /\ tracking' \in Ref /\ remote' \in Ref /\ base' \in Nat
      /\ opened' \in BOOLEAN /\ armed' \in BOOLEAN /\ merged' \in Ref
  OBVIOUS
<1>2. /\ checks' \in {"pending", "ok", "failing"}
      /\ marker' \in {"none", "approve", "block"}
      /\ decision' \in {"none", "approved", "changes"} /\ thread' \in BOOLEAN
      /\ proof' \in BOOLEAN /\ gate' \in Gate /\ caller' \in {"merge", "rebase"}
      /\ told' \in SUBSET {"comment", "formal"} /\ fixes' \in Nat
      /\ standing' \in SUBSET Signal /\ events' \in 0..MaxEvents
  OBVIOUS
<1>. QED
  BY <1>1, <1>2, Zenon

LEMMA StartType ==
  ASSUME Typed, Start
  PROVE  Typed'
<1> USE DEF Typed, TypeOK, BranchInv, github, review, locals
<1>1. CASE StartFresh
  <2>1. local' \in Commit /\ local' # None /\ ~local'.foreign
    <3>1. local' = [rev |-> 0, on |-> base, foreign |-> FALSE]
      BY <1>1 DEF StartFresh
    <3>2. local' \in Commit
      BY <3>1 DEF Commit
    <3>. QED
      BY <3>1, <3>2, Fresh
  <2>2. pc' = "note" /\ worktree' = TRUE /\ dirty' = FALSE
    BY <1>1 DEF StartFresh, Call, Goto
  <2>3. UNCHANGED <<record, tracking, config, github, review, proof, locals, fixes, events>>
    BY <1>1 DEF StartFresh
  <2>4. local' \in Ref /\ pc' \in Label
    BY <2>1, <2>2 DEF Label, Ref
  <2>5. TypeOK'
    BY <2>1, <2>2, <2>3, <2>4, CheckoutType
  <2>6. BranchInv'
    BY <2>1, <2>2, <2>3
  <2>. QED
    BY <2>5, <2>6
<1>2. CASE Reattach
  <2>1. /\ pc' = "note" /\ pc' \in Label /\ worktree' = TRUE /\ dirty' = FALSE
        /\ local # None /\ pc = "idle"
    BY <1>2 DEF Reattach, Call, Goto, Label
  <2>2. UNCHANGED <<record, local, tracking, config, github, review, proof, locals, fixes, events>>
    BY <1>2 DEF Reattach
  <2>3. TypeOK'
    BY <2>1, <2>2, CheckoutType
  <2>4. BranchInv'
    BY <2>1, <2>2
  <2>. QED
    BY <2>3, <2>4
<1>3. CASE Note
  <2>1. record' \in Record /\ record'.made /\ ~record'.pr
    BY <1>3, WorkAssumption DEF Note, Record
  <2>2. pc = "note" /\ Return /\ fixes' \in Nat
    BY <1>3 DEF Note
  <2>3. UNCHANGED <<worktree, dirty, local, tracking, config, github, review, proof, events>>
    BY <1>3 DEF Note
  <2>. QED
    BY <2>1, <2>2, <2>3, ReturnType
<1>. QED
  BY <1>1, <1>2, <1>3 DEF Start

LEMMA PrType ==
  ASSUME Typed, Pr
  PROVE  Typed'
<1> USE DEF Typed, TypeOK, BranchInv, github, review, locals, branch, world
<1>1. CASE CallPr
  BY <1>1 DEF CallPr, Call, Goto, Label
<1>2. CASE Push
  <2>1. local # None /\ Pushed /\ pc' = "create"
    BY <1>2 DEF Push, Goto
  <2>. QED
    BY <1>2, <2>1, PushedType DEF Push, Label
<1>3. CASE PushRejected
  BY <1>3, ReturnType DEF PushRejected
<1>4. CASE Create
  BY <1>4 DEF Create, Goto, Label
<1>5. CASE Number
  <2>1. record' \in Record /\ record'.pr /\ record'.made = record.made /\ record'.cycles = record.cycles
    BY <1>5 DEF Number, Record
  <2>2. pc = "number" /\ Return
    BY <1>5 DEF Number
  <2>3. UNCHANGED <<worktree, dirty, local, tracking, config, github, review, proof, fixes, events>>
    BY <1>5 DEF Number
  <2>. QED
    BY <2>1, <2>2, <2>3, ReturnType
<1>. QED
  BY <1>1, <1>2, <1>3, <1>4, <1>5 DEF Pr

\* A step inside a verb that changes nothing but the verb's own variables.
LEMMA VerbType ==
  ASSUME Typed, UNCHANGED world, local # None,
         pc' \in Label \ {"push", "create", "number", "comment"},
         gate' \in Gate, caller' \in {"merge", "rebase"},
         told' \in SUBSET {"comment", "formal"}, standing' \in SUBSET Signal
  PROVE  Typed'
BY DEF Typed, TypeOK, BranchInv, world, branch, github, review

LEMMA ReturnsType ==
  ASSUME Typed, Return, UNCHANGED world
  PROVE  Typed'
<1>1. pc' = "idle"
  BY ReturnType
<1>2. UNCHANGED <<config, record, worktree, dirty, local, tracking, remote, base, opened,
                  armed, merged, checks, marker, decision, thread, proof, fixes, events>>
  BY DEF world, branch, github, review
<1>3. TypeOK'
  BY <1>2, ReturnType DEF Typed, TypeOK
<1>4. BranchInv'
  BY <1>1, <1>2 DEF Typed, BranchInv
<1>. QED
  BY <1>3, <1>4 DEF Typed

\* A step that changes the evidence or the reviews only.
LEMMA SignalsType ==
  ASSUME Typed, UNCHANGED <<config, branch, github, verb, fixes>>,
         proof' \in BOOLEAN, marker' \in {"none", "approve", "block"},
         decision' \in {"none", "approved", "changes"}, thread' \in BOOLEAN,
         events' \in 0..MaxEvents
  PROVE  Typed'
<1>1. UNCHANGED <<config, record, worktree, dirty, local, tracking, remote, base, opened,
                  armed, merged, checks, pc, gate, caller, told, standing, fixes>>
  BY DEF branch, github, verb, locals
<1>2. TypeOK'
  BY <1>1 DEF Typed, TypeOK
<1>3. BranchInv'
  BY <1>1 DEF Typed, BranchInv
<1>. QED
  BY <1>2, <1>3 DEF Typed

LEMMA WorktreeType ==
  ASSUME Typed,
         \/ Edit \/ CommitAll \/ Verify \/ StartRun
         \/ (\E force \in BOOLEAN : Finish(force)) \/ Unlink
  PROVE  Typed'
<1> USE DEF Typed, TypeOK, BranchInv, github, review, locals, verb, branch
<1>1. CASE Edit
  BY <1>1 DEF Edit
<1>2. CASE CommitAll
  <2>1. local # None /\ pc = "idle" /\ worktree
    BY <1>2 DEF CommitAll
  <2>2. local \in Commit /\ ~local.foreign
    BY <2>1 DEF Ref
  <2>3. local' = [local EXCEPT !.rev = @ + 1]
    BY <1>2 DEF CommitAll
  <2>4. local' \in Commit /\ ~local'.foreign
    BY <2>2, <2>3 DEF Commit
  <2>5. local' \in Ref /\ local' # None
    BY <2>4, Fresh DEF Ref
  <2>6. dirty' = FALSE /\ UNCHANGED <<record, worktree, tracking, config, github, review,
                                     proof, verb, fixes, events>>
    BY <1>2 DEF CommitAll
  <2>7. /\ UNCHANGED <<record, worktree, tracking, config, remote, base, opened, armed, merged,
                       checks, marker, decision, thread, proof, pc, gate, caller, told,
                       standing, fixes, events>>
        /\ dirty' \in BOOLEAN /\ ~dirty'
    BY <2>6
  <2>8. TypeOK'
    <3>1. local' # None => ~local'.foreign
      BY <2>4
    <3>2. dirty' => worktree'
      BY <2>7
    <3>. QED
      BY <2>5, <2>7, <3>1, <3>2
  <2>9. BranchInv'
    BY <2>5, <2>7
  <2>. QED
    BY <2>8, <2>9
<1>3. CASE Verify
  BY <1>3, SignalsType DEF Verify
<1>4. CASE StartRun
  BY <1>4, SignalsType DEF StartRun
<1>5. CASE \E force \in BOOLEAN : Finish(force)
  <2>1. /\ pc = "idle" /\ pc' = "unlink" /\ pc' \in Label
        /\ local # None /\ record.made /\ worktree' = FALSE /\ dirty' = FALSE
    BY <1>5 DEF Finish, Call, Goto, Label
  <2>2. UNCHANGED <<record, local, tracking, config, github, review, proof, locals, fixes, events>>
    BY <1>5 DEF Finish
  <2>3. TypeOK'
    BY <2>1, <2>2, CheckoutType
  <2>4. BranchInv'
    BY <2>1, <2>2
  <2>. QED
    BY <2>3, <2>4
<1>6. CASE Unlink
  <2>1. record' = NoRecord /\ record' \in Record /\ ~record'.made /\ ~record'.pr /\ record'.cycles = 0
    BY <1>6, Fresh DEF Unlink, NoRecord
  <2>2. Return /\ fixes' = 0
    BY <1>6 DEF Unlink
  <2>3. UNCHANGED <<worktree, dirty, local, tracking, config, github, review, proof, events>>
    BY <1>6 DEF Unlink
  <2>. QED
    BY <2>1, <2>2, <2>3, ReturnType
<1>. QED
  BY <1>1, <1>2, <1>3, <1>4, <1>5, <1>6

LEMMA PostReviewType ==
  ASSUME Typed, PostReview
  PROVE  Typed'
<1> USE DEF Typed, TypeOK, BranchInv, github, review, locals, verb, branch
<1>1. CASE Approve
  BY <1>1, SignalsType DEF Approve
<1>2. CASE Block
  <2>1. record' \in Record /\ record'.made = record.made /\ record'.pr = record.pr /\ record.made
    <3>1. record \in Record /\ record.pr /\ record.made
      BY <1>2 DEF Block
    <3>2. record' = [record EXCEPT !.cycles = IF record.cycles < Cap THEN record.cycles + 1
                                                                   ELSE record.cycles]
      BY <1>2 DEF Block
    <3>3. (IF record.cycles < Cap THEN record.cycles + 1 ELSE record.cycles) \in 0..Cap
      BY <3>1, WorkAssumption DEF Record
    <3>. QED
      BY <3>1, <3>2, <3>3 DEF Record
  <2>2. pc' = "comment" /\ worktree
    BY <1>2 DEF Block, Call, Goto
  <2>3. UNCHANGED <<worktree, dirty, local, tracking, config, github, review, proof,
                    locals, fixes, events>>
    BY <1>2 DEF Block
  <2>. QED
    BY <2>1, <2>2, <2>3 DEF Label
<1>3. CASE PostBlock
  <2>1. Return /\ marker' = "block" /\ fixes' \in Nat
    BY <1>3 DEF PostBlock
  <2>2. UNCHANGED <<config, branch, github, decision, thread, proof, events>>
    BY <1>3 DEF PostBlock
  <2>. QED
    BY <2>1, <2>2, ReturnType
<1>. QED
  BY <1>1, <1>2, <1>3 DEF PostReview

\* One step of gate() keeps its counters below their bounds.
LEMMA GateType ==
  ASSUME Typed, GateStep
  PROVE  Typed'
<1>1. pc = "gate" /\ local # None /\ UNCHANGED world /\ gate \in Gate
  BY DEF GateStep, GateUnknown, GateParks, GatePending, GateBehind, GatePasses, Typed,
         TypeOK, BranchInv
<1>2. CASE Return
  BY <1>1, <1>2, ReturnsType
<1>3. CASE ~Return
  <2>1. gate' \in Gate
    <3>1. \/ gate' = gate
          \/ gate.try < UnknownAttempts - 1 /\ gate' = [gate EXCEPT !.try = @ + 1]
          \/ gate.round < PendingAttempts /\ gate' = [gate EXCEPT !.round = @ + 1, !.try = 0]
      BY <1>3
      DEF GateStep, GateUnknown, GateParks, GatePending, GateBehind, GatePasses, locals
    <3>2. /\ gate.try \in 0..(UnknownAttempts - 1) /\ gate.round \in 0..PendingAttempts
          /\ 0 \in 0..(UnknownAttempts - 1)
      BY <1>1, WorkAssumption DEF Gate
    <3>3. gate.try < UnknownAttempts - 1 => gate.try + 1 \in 0..(UnknownAttempts - 1)
      BY <3>2, WorkAssumption
    <3>4. gate.round < PendingAttempts => gate.round + 1 \in 0..PendingAttempts
      BY <3>2, WorkAssumption
    <3>. QED
      BY <1>1, <3>1, <3>2, <3>3, <3>4 DEF Gate
  <2>2. UNCHANGED <<caller, told, standing>>
    BY <1>3 DEF GateStep, GateUnknown, GateParks, GatePending, GateBehind, GatePasses, locals
  <2>3. pc' \in {"gate", "rebase", "protect", "directive"}
    BY <1>1, <1>3
    DEF GateStep, GateUnknown, GateParks, GatePending, GateBehind, GatePasses, Goto
  <2>4. pc' \in Label \ {"push", "create", "number", "comment"}
    BY <2>3 DEF Label
  <2>. QED
    BY <1>1, <2>1, <2>2, <2>4, VerbType DEF Typed, TypeOK
<1>. QED
  BY <1>2, <1>3

LEMMA RebaseType ==
  ASSUME Typed, RebaseStep
  PROVE  Typed'
<1>1. CASE CallRebase
  <2>1. local # None /\ pc' = "rebase" /\ UNCHANGED <<world, gate, told, standing>> /\ caller' = "rebase"
    BY <1>1 DEF CallRebase, Call, Goto, Typed, BranchInv
  <2>2. pc' \in Label \ {"push", "create", "number", "comment"}
    BY <2>1 DEF Label
  <2>. QED
    BY <2>1, <2>2, VerbType DEF Typed, TypeOK
<1>2. CASE Rebase
  <2>1. local # None /\ local \in Commit /\ ~local.foreign
    BY <1>2 DEF Rebase, Typed, TypeOK, BranchInv, Ref
  <2>2. local' \in Commit /\ ~local'.foreign
    <3>1. local' = [local EXCEPT !.on = base] \/ local' = local
      BY <1>2 DEF Rebase
    <3>. QED
      BY <2>1, <3>1 DEF Commit, Typed, TypeOK
  <2>3. local' \in Ref /\ local' # None
    BY <2>2, Fresh DEF Ref
  <2>4. /\ pc' \in Label \ {"push", "create", "number", "comment"}
        /\ gate' \in Gate /\ caller' \in {"merge", "rebase"}
        /\ told' \in SUBSET {"comment", "formal"} /\ standing' \in SUBSET Signal
    <3>1. CASE Return
      BY <3>1, ReturnType
    <3>2. CASE Goto("lease") /\ UNCHANGED locals
      BY <3>2 DEF Goto, Label, locals, Typed, TypeOK
    <3>. QED
      BY <1>2, <3>1, <3>2 DEF Rebase
  <2>5. UNCHANGED <<config, record, worktree, dirty, tracking, remote, base, opened, armed,
                    merged, checks, marker, decision, thread, proof, fixes, events>>
    BY <1>2 DEF Rebase, github, review
  <2>6. TypeOK'
    BY <2>2, <2>3, <2>4, <2>5 DEF Typed, TypeOK
  <2>7. BranchInv'
    BY <2>3, <2>4, <2>5 DEF Typed, BranchInv
  <2>. QED
    BY <2>6, <2>7 DEF Typed
<1>3. CASE ForcePush
  <2>1. Pushed /\ local # None
    BY <1>3 DEF ForcePush, Typed, BranchInv
  <2>2. /\ pc' \in Label \ {"push", "create", "number", "comment"}
        /\ gate' \in Gate /\ caller' \in {"merge", "rebase"}
        /\ told' \in SUBSET {"comment", "formal"} /\ standing' \in SUBSET Signal
    <3>1. CASE Return
      BY <3>1, ReturnType
    <3>2. CASE ~Return
      <4>1. pc' = "gate" /\ gate' = [FreshGate EXCEPT !.again = TRUE]
            /\ UNCHANGED <<caller, told, standing>>
        BY <1>3, <3>2 DEF ForcePush, Goto
      <4>2. gate' \in Gate
        BY <4>1, Fresh DEF Gate
      <4>. QED
        BY <4>1, <4>2 DEF Label, Typed, TypeOK
    <3>. QED
      BY <3>1, <3>2
  <2>3. UNCHANGED <<config, record, worktree, dirty, local, marker, decision, thread, proof,
                    fixes, events>>
    BY <1>3 DEF ForcePush, review
  <2>4. TypeOK'
    BY <2>1, <2>2, <2>3, PushedType DEF Typed, TypeOK
  <2>5. BranchInv'
    BY <2>1, <2>2, <2>3, PushedType DEF Typed, BranchInv
  <2>. QED
    BY <2>4, <2>5 DEF Typed
<1>4. CASE LeaseBroken
  BY <1>4, ReturnsType DEF LeaseBroken
<1>. QED
  BY <1>1, <1>2, <1>3, <1>4 DEF RebaseStep

LEMMA AgainstType ==
  Against \subseteq Signal
BY DEF Against, Signal

LEMMA MergeType ==
  ASSUME Typed, Merge
  PROVE  Typed'
<1>1. CASE GateStep \/ RebaseStep
  BY <1>1, GateType, RebaseType
<1>2. CASE Arm
  <2>1. Return /\ armed' = TRUE
        /\ UNCHANGED <<config, record, worktree, dirty, local, tracking, remote, base, opened,
                       merged, checks, marker, decision, thread, proof, fixes, events>>
    BY <1>2 DEF Arm, branch, review
  <2>2. TypeOK'
    BY <2>1, ReturnType DEF Typed, TypeOK
  <2>3. BranchInv'
    BY <2>1, ReturnType DEF Typed, BranchInv
  <2>. QED
    BY <2>2, <2>3 DEF Typed
<1>3. CASE CallMerge \/ Rights \/ Evidence \/ ReviewGate \/ Protect
  <2>1. CASE Return
    BY <1>3, <2>1, ReturnsType DEF CallMerge, Rights, Evidence, ReviewGate, Directive,
       Decision, Threads, Protect, Return, Call, Goto
  <2>2. CASE ~Return
    <3>1. local # None
      BY <1>3 DEF CallMerge, Call, Rights, Evidence, ReviewGate, Directive,
         Decision, Threads, Protect, Typed, BranchInv
    <3>2. UNCHANGED <<gate, caller>> /\ UNCHANGED world
      BY <1>3, <2>2 DEF CallMerge, Rights, Evidence, ReviewGate, Directive,
         Decision, Threads, Protect, locals
    <3>3. pc' \in Label \ {"push", "create", "number", "comment"}
      <4>1. pc' \in {"rights", "evidence", "gate", "decision", "threads", "protect", "arm"}
        BY <1>3, <2>2 DEF CallMerge, Call, Rights, Evidence, ReviewGate, Directive,
           Decision, Threads, Protect, Goto
      <4>. QED
        BY <4>1 DEF Label
    <3>4. told' \in SUBSET {"comment", "formal"}
      BY <1>3, <2>2 DEF CallMerge, Rights, Evidence, ReviewGate, Directive,
         Decision, Threads, Protect, locals, Typed, TypeOK
    <3>5. standing' \in SUBSET Signal
      BY <1>3, <2>2, AgainstType DEF CallMerge, Rights, Evidence, ReviewGate, Directive,
         Decision, Threads, Protect, locals, Typed, TypeOK
    <3>. QED
      BY <3>1, <3>2, <3>3, <3>4, <3>5, VerbType DEF Typed, TypeOK
  <2>. QED
    BY <2>1, <2>2
<1>. QED
  BY <1>1, <1>2, <1>3 DEF Merge

LEMMA EventType ==
  ASSUME Typed, Event
  PROVE  events' \in 0..MaxEvents
BY WorkAssumption DEF Typed, TypeOK, Event

LEMMA OthersType ==
  ASSUME Typed, Others
  PROVE  Typed'
<1> USE DEF verb, locals, branch, review, github
<1>1. CASE Report
  <2>1. checks' \in {"pending", "ok", "failing"}
        /\ UNCHANGED <<config, record, worktree, dirty, local, tracking, remote, base, opened,
                       armed, merged, marker, decision, thread, proof, pc, gate, caller, told,
                       standing, fixes, events>>
    BY <1>1 DEF Report
  <2>. QED
    BY <2>1 DEF Typed, TypeOK, BranchInv
<1>2. CASE AutoMerge
  <2>1. merged' = remote
        /\ UNCHANGED <<config, record, worktree, dirty, local, tracking, remote, base, opened,
                       armed, checks, marker, decision, thread, proof, pc, gate, caller, told,
                       standing, fixes, events>>
    BY <1>2 DEF AutoMerge
  <2>. QED
    BY <2>1 DEF Typed, TypeOK, BranchInv
<1>3. CASE BaseMoves
  <2>1. base' = base + 1 /\ events' \in 0..MaxEvents
        /\ UNCHANGED <<config, record, worktree, dirty, local, tracking, remote, opened,
                       armed, merged, checks, marker, decision, thread, proof, pc, gate, caller,
                       told, standing, fixes>>
    BY <1>3, EventType DEF BaseMoves
  <2>2. TypeOK'
    BY <2>1 DEF Typed, TypeOK
  <2>3. BranchInv'
    BY <2>1 DEF Typed, BranchInv
  <2>. QED
    BY <2>2, <2>3 DEF Typed
<1>4. CASE ForeignPush
  <2>1. remote \in Commit
    BY <1>4 DEF ForeignPush, Typed, TypeOK, BranchInv, Ref
  <2>2. remote' = [remote EXCEPT !.foreign = TRUE]
    BY <1>4 DEF ForeignPush
  <2>3. remote' \in Commit /\ remote' \in Ref /\ remote' # None
    BY <2>1, <2>2, Fresh DEF Commit, Ref
  <2>4. checks' = "pending" /\ events' \in 0..MaxEvents
        /\ UNCHANGED <<config, record, worktree, dirty, local, tracking, base, opened,
                       armed, merged, marker, decision, thread, proof, pc, gate, caller,
                       told, standing, fixes>>
    BY <1>4, EventType DEF ForeignPush
  <2>5. TypeOK'
    BY <2>3, <2>4 DEF Typed, TypeOK
  <2>6. BranchInv'
    BY <2>3, <2>4 DEF Typed, BranchInv
  <2>. QED
    BY <2>5, <2>6 DEF Typed
<1>5. CASE UserFetch
  <2>1. tracking' = remote
        /\ UNCHANGED <<config, record, worktree, dirty, local, remote, base, opened,
                       armed, merged, checks, marker, decision, thread, proof, pc, gate, caller,
                       told, standing, fixes, events>>
    BY <1>5 DEF UserFetch
  <2>. QED
    BY <2>1 DEF Typed, TypeOK, BranchInv
<1>6. CASE Review
  <2>1. standing' \in SUBSET Signal
    BY <1>6 DEF Review, StillStanding, Typed, TypeOK
  <2>2. /\ marker' \in {"none", "approve", "block"}
        /\ decision' \in {"none", "approved", "changes"} /\ thread' \in BOOLEAN
    BY <1>6 DEF Review, Typed, TypeOK
  <2>3. events' \in 0..MaxEvents
        /\ UNCHANGED <<config, record, worktree, dirty, local, tracking, remote, base, opened,
                       armed, merged, checks, proof, pc, gate, caller, told, fixes>>
    BY <1>6, EventType DEF Review
  <2>4. TypeOK'
    BY <2>1, <2>2, <2>3 DEF Typed, TypeOK
  <2>5. BranchInv'
    BY <2>3 DEF Typed, BranchInv
  <2>. QED
    BY <2>4, <2>5 DEF Typed
<1>. QED
  BY <1>1, <1>2, <1>3, <1>4, <1>5, <1>6 DEF Others

LEMMA FaultsType ==
  ASSUME Typed, Faults
  PROVE  Typed'
<1>1. events' \in 0..MaxEvents
      /\ UNCHANGED <<config, record, worktree, dirty, local, tracking, remote, base, opened,
                     armed, merged, checks, marker, decision, thread, proof, fixes>>
      /\ local # None
  BY EventType DEF Faults, Fails, Unreadable, branch, github, review, Typed, BranchInv
<1>2. /\ pc' \in Label \ {"push", "create", "number", "comment"}
      /\ gate' \in Gate /\ caller' \in {"merge", "rebase"}
      /\ told' \in SUBSET {"comment", "formal"} /\ standing' \in SUBSET Signal
  <2>1. CASE Return
    BY <2>1, ReturnType
  <2>2. CASE ~Return
    <3>1. pc' \in {"decision", "protect", "arm"} /\ standing' = {} /\ UNCHANGED <<gate, caller, told>>
      BY <2>2 DEF Faults, Fails, Unreadable, Pass, Goto
    <3>. QED
      BY <3>1 DEF Label, Typed, TypeOK
  <2>. QED
    BY <2>1, <2>2
<1>3. TypeOK'
  BY <1>1, <1>2 DEF Typed, TypeOK
<1>4. BranchInv'
  BY <1>1, <1>2 DEF Typed, BranchInv
<1>. QED
  BY <1>3, <1>4 DEF Typed

LEMMA TypedStep == Typed /\ [Next]_vars => Typed'
<1>1. ASSUME Typed, Next PROVE Typed'
  BY <1>1, StartType, PrType, WorktreeType, PostReviewType, MergeType, OthersType, FaultsType
  DEF Next, Session
<1>2. ASSUME Typed, UNCHANGED vars PROVE Typed'
  <2>1. UNCHANGED <<config, record, worktree, dirty, local, tracking, remote, base, opened,
                    armed, merged, checks, marker, decision, thread, proof, pc, gate, caller,
                    told, standing, fixes, events>>
    BY <1>2 DEF vars, world, verb, branch, github, review, locals
  <2>. QED
    BY <1>2, <2>1 DEF Typed, TypeOK, BranchInv
<1>. QED
  BY <1>1, <1>2

LEMMA TypedAlways == Spec => []Typed
BY TypedInit, TypedStep, PTL DEF Spec

\* Every variable of a goal's branch, pull request and running verb keeps to its type,
\* the counters of gate() to their bounds, for any cap and any number of attempts.
THEOREM WorkTypeCorrect == Spec => []TypeOK
<1>1. Typed => TypeOK
  BY DEF Typed
<1>. QED
  BY <1>1, TypedAlways, PTL

-----------------------------------------------------------------------------
(* The cap on review cycles.                                               *)

\* While the counter in the record is below the cap it counts every time the session was
\* sent back, and a block that is being posted is counted already.
FixInv ==
  /\ fixes < Cap
  /\ record.cycles < Cap =>
       /\ fixes <= record.cycles
       /\ pc = "comment" => fixes < record.cycles

LEMMA FixStep == Typed /\ FixInv /\ [Next]_vars => FixInv'
<1> SUFFICES ASSUME Typed, FixInv, [Next]_vars PROVE FixInv'
  OBVIOUS
<1>1. fixes \in Nat /\ Cap \in Nat \ {0} /\ record.cycles \in 0..Cap
  BY WorkAssumption DEF Typed, TypeOK, Record
<1>2. CASE Note \/ Unlink
  BY <1>1, <1>2, ReturnType DEF Note, Unlink, NoRecord, FixInv
<1>3. CASE Block
  <2>1. record'.cycles = IF record.cycles < Cap THEN record.cycles + 1 ELSE record.cycles
    <3>1. record \in Record
      BY DEF Typed, TypeOK
    <3>. QED
      BY <1>3, <3>1 DEF Block, Record
  <2>2. fixes' = fixes
    BY <1>3 DEF Block
  <2>. QED
    BY <1>1, <2>1, <2>2 DEF FixInv
<1>4. CASE PostBlock
  <2>1. pc = "comment" /\ pc' = "idle" /\ record' = record
    BY <1>4, ReturnType DEF PostBlock, branch
  <2>2. fixes' = IF record.cycles < Cap THEN fixes + 1 ELSE fixes
    BY <1>4 DEF PostBlock
  <2>. QED
    BY <1>1, <2>1, <2>2 DEF FixInv
<1>5. CASE Number
  <2>1. record'.cycles = record.cycles /\ fixes' = fixes /\ pc' = "idle"
    BY <1>5, ReturnType DEF Number, Typed, TypeOK, Record
  <2>. QED
    BY <2>1 DEF FixInv
<1>6. CASE ~(Note \/ Unlink \/ Block \/ PostBlock \/ Number)
  <2>1. record' = record /\ fixes' = fixes
    BY <1>6 DEF Next, Session, Start, StartFresh, Reattach, Edit, CommitAll, Pr, CallPr, Push,
       PushRejected, Create, Verify, StartRun, PostReview, Approve, Merge, CallMerge, Rights,
       Evidence, GateStep, GateUnknown, GateParks, GatePending, GateBehind, GatePasses,
       RebaseStep, CallRebase, Rebase, ForcePush, LeaseBroken, ReviewGate, Directive, Decision,
       Threads, Protect, Arm, Finish, Others, Report, AutoMerge, BaseMoves, ForeignPush,
       UserFetch, Review, Faults, Fails, Unreadable, vars, world, branch
  <2>2. pc' # "comment" \/ pc' = pc
    BY <1>6, ReturnType DEF Next, Session, Start, StartFresh, Reattach, Edit, CommitAll, Pr, CallPr, Push,
       PushRejected, Create, Verify, StartRun, PostReview, Approve, Merge, CallMerge, Rights,
       Evidence, GateStep, GateUnknown, GateParks, GatePending, GateBehind, GatePasses,
       RebaseStep, CallRebase, Rebase, ForcePush, LeaseBroken, ReviewGate, Directive, Decision,
       Threads, Protect, Arm, Finish, Others, Report, AutoMerge, BaseMoves, ForeignPush,
       UserFetch, Review, Faults, Fails, Unreadable, Pass, Call, Goto, vars, verb
  <2>. QED
    BY <2>1, <2>2 DEF FixInv
<1>. QED
  BY <1>2, <1>3, <1>4, <1>5, <1>6

\* However its verbs fail or die, a work record sends its session back to fix fewer than
\* max_review_cycles times (work.py post_review).
THEOREM FixesAlwaysWithinCap == Spec => []FixesWithinCap
<1>1. Init => FixInv
  BY WorkAssumption DEF Init, FixInv, NoRecord
<1>2. FixInv => FixesWithinCap
  BY DEF FixInv, FixesWithinCap
<1>. QED
  BY <1>1, <1>2, FixStep, TypedAlways, PTL DEF Spec

-----------------------------------------------------------------------------
(* Whose head is armed.                                                    *)

Passed == {"directive", "decision", "threads", "protect", "arm"}

\* Past the gate the pull request holds every commit of the worktree, on the base the
\* worktree stands on; only somebody else's commit may have come on top.
HeadInv == pc \in Passed => remote.rev = local.rev /\ remote.on = local.on

LEMMA HeadStep == Typed /\ HeadInv /\ [Next]_vars => HeadInv'
<1> SUFFICES ASSUME Typed, HeadInv, [Next]_vars, pc' \in Passed
             PROVE  remote'.rev = local'.rev /\ remote'.on = local'.on
  BY DEF HeadInv
<1> USE DEF Passed
<1>1. pc' # "idle"
  OBVIOUS
<1>2. CASE GatePasses
  BY <1>2 DEF GatePasses, SameHead, world, branch, github
<1>3. CASE ForeignPush
  <2>1. remote \in Commit /\ pc' = pc /\ local' = local
    BY <1>3 DEF ForeignPush, Typed, TypeOK, BranchInv, Ref, verb, branch
  <2>2. remote' = [remote EXCEPT !.foreign = TRUE]
    BY <1>3 DEF ForeignPush
  <2>3. remote'.rev = remote.rev /\ remote'.on = remote.on
    BY <2>1, <2>2 DEF Commit
  <2>. QED
    BY <2>1, <2>3 DEF HeadInv
<1>4. CASE ~(GatePasses \/ ForeignPush)
  <2>1. pc \in Passed /\ UNCHANGED <<local, remote>>
    BY <1>1, <1>4, ReturnType
    DEF Next, Session, Start, StartFresh, Reattach, Note, Edit, CommitAll, Pr, CallPr, Push,
        PushRejected, Create, Number, Verify, StartRun, PostReview, Approve, Block, PostBlock,
        Merge, CallMerge, Rights, Evidence, GateStep, GateUnknown, GateParks, GatePending,
        GateBehind, RebaseStep, CallRebase, Rebase, ForcePush, LeaseBroken, ReviewGate,
        Directive, Decision, Threads, Protect, Arm, Finish, Unlink, Others, Report, AutoMerge,
        BaseMoves, UserFetch, Review, Faults, Fails, Unreadable, Pass, Call, Goto, vars, verb,
        world, branch, github
  <2>. QED
    BY <2>1 DEF HeadInv
<1>. QED
  BY <1>2, <1>3, <1>4

\* Only gh pr merge --auto arms the auto-merge.
LEMMA OnlyArmArms ==
  ASSUME Next, ~armed, armed'
  PROVE  Arm
BY DEF Next, Session, Start, StartFresh, Reattach, Note, Edit, CommitAll, Pr, CallPr, Push,
       Pushed, PushRejected, Create, Number, Verify, StartRun, PostReview, Approve, Block,
       PostBlock, Merge, CallMerge, Rights, Evidence, GateStep, GateUnknown, GateParks,
       GatePending, GateBehind, GatePasses, RebaseStep, CallRebase, Rebase, ForcePush,
       LeaseBroken, ReviewGate, Directive, Decision, Threads, Protect, Finish, Unlink, Others,
       Report, AutoMerge, BaseMoves, ForeignPush, UserFetch, Review, Faults, Fails,
       Unreadable, world, github

\* However commits, pushes and moves of the base interleave with merge, auto-merge is
\* never armed on a head that lacks a commit of the worktree (work.py gate, merge).
THEOREM NothingOlderIsEverArmed == Spec => NothingOlderIsArmed
<1>1. Init => HeadInv
  BY DEF Init, HeadInv, Passed
<1>2. HeadInv /\ [Next]_vars
        => [~armed /\ armed' => remote.rev = local.rev /\ remote.on = local.on]_vars
  <2> SUFFICES ASSUME HeadInv, Next, ~armed, armed'
               PROVE  remote.rev = local.rev /\ remote.on = local.on
    BY DEF vars, world, github
  <2>1. pc = "arm"
    BY OnlyArmArms DEF Arm
  <2>. QED
    BY <2>1 DEF HeadInv, Passed
<1>. QED
  BY <1>1, <1>2, HeadStep, TypedAlways, PTL DEF Spec, NothingOlderIsArmed

-----------------------------------------------------------------------------
(* Pushes and the work they could drop.                                    *)

\* Nothing but a push or somebody else's push moves the branch on GitHub.
LEMMA OnlyPushesPush ==
  ASSUME Next, remote' # remote
  PROVE  Push \/ ForcePush \/ ForeignPush
BY DEF Next, Session, Start, StartFresh, Reattach, Note, Edit, CommitAll, Pr, CallPr,
       PushRejected, Create, Number, Verify, StartRun, PostReview, Approve, Block,
       PostBlock, Merge, CallMerge, Rights, Evidence, GateStep, GateUnknown, GateParks,
       GatePending, GateBehind, GatePasses, RebaseStep, CallRebase, Rebase,
       LeaseBroken, ReviewGate, Directive, Decision, Threads, Protect, Arm, Finish, Unlink,
       Others, Report, AutoMerge, BaseMoves, UserFetch, Review, Faults, Fails,
       Unreadable, world, github

\* No push of the session drops somebody else's commit that the clone has not seen: pr
\* never forces, and rebase() pushes with a lease (work.py pr, rebase).
THEOREM UnseenWorkAlwaysSurvives == Spec => UnseenWorkSurvives
<1>1. Typed /\ [Next]_vars
        => [remote # None /\ remote.foreign /\ ~(tracking # None /\ tracking.foreign)
              => remote'.foreign]_vars
  <2> SUFFICES ASSUME Typed, Next, remote # None, remote.foreign,
                      ~(tracking # None /\ tracking.foreign), remote' # remote
               PROVE  remote'.foreign
    BY DEF vars, world, github
  <2>1. CASE Push
    BY <2>1 DEF Push, FastForward
  <2>2. CASE ForcePush
    BY <2>2 DEF ForcePush, Lease
  <2>3. CASE ForeignPush
    BY <2>3 DEF ForeignPush, Typed, TypeOK, BranchInv, Ref, Commit
  <2>. QED
    BY <2>1, <2>2, <2>3, OnlyPushesPush
<1>. QED
  BY <1>1, TypedAlways, PTL DEF Spec, UnseenWorkSurvives

-----------------------------------------------------------------------------
(* Signals against the merge.                                              *)

\* What has stood since merge was called still stands, and less and less of it is left to
\* be read: no block after the comments, no request for changes after the reviews.
SignalInv ==
  /\ standing \subseteq Against
  /\ pc \in {"idle", "note", "push", "create", "number", "unlink", "comment"} => standing = {}
  /\ pc = "decision" => "block" \notin standing
  /\ pc = "threads" => standing \subseteq {"thread"}
  /\ pc \in {"protect", "arm"} => config.review = "off" \/ standing = {}

\* While the reviews are as they were, signals stand that stood.
LEMMA AgainstKept ==
  ASSUME UNCHANGED review
  PROVE  Against' = Against
BY DEF Against, review

LEMMA SignalStep == Typed /\ SignalInv /\ [Next]_vars => SignalInv'
<1> SUFFICES ASSUME Typed, SignalInv, [Next]_vars PROVE SignalInv'
  OBVIOUS
<1>1. CASE Return
  BY <1>1, ReturnType DEF SignalInv, Return, Goto
<1>2. CASE Review
  <2>1. standing' = standing \cap Against' /\ pc' = pc /\ config' = config
    BY <1>2 DEF Review, StillStanding
  <2>. QED
    BY <2>1 DEF SignalInv
<1>3. CASE Approve
  <2>1. pc = "idle" /\ pc' = "idle" /\ standing' = standing
    BY <1>3 DEF Approve, verb, locals
  <2>. QED
    BY <2>1 DEF SignalInv
<1>4. CASE CallMerge
  <2>1. standing' = Against /\ Against' = Against /\ pc' = "rights"
    BY <1>4, AgainstKept DEF CallMerge, Call, Goto, world
  <2>. QED
    BY <2>1 DEF SignalInv
<1>5. CASE Unreadable /\ ~Return
  BY <1>5, AgainstKept DEF Unreadable, Pass, Goto, SignalInv
<1>6. CASE ReviewGate /\ ~Return
  <2>1. Against' = Against /\ standing' = standing /\ UNCHANGED config
    BY <1>6, AgainstKept DEF ReviewGate, Directive, Decision, Threads, world, locals
  <2>2. CASE Directive
    <3>1. pc' = "decision" /\ "block" \notin Against
      BY <1>6, <2>2 DEF Directive, Goto, Against
    <3>. QED
      BY <2>1, <3>1 DEF SignalInv
  <2>3. CASE Decision
    <3>1. pc = "decision" /\ pc' = "threads" /\ "changes" \notin Against /\ Against \subseteq Signal
      BY <1>6, <2>3, AgainstType DEF Decision, Goto, Against
    <3>. QED
      BY <2>1, <3>1 DEF SignalInv, Signal
  <2>4. CASE Threads
    <3>1. pc = "threads" /\ pc' = "protect" /\ "thread" \notin Against
      BY <1>6, <2>4 DEF Threads, Goto, Against
    <3>. QED
      BY <2>1, <3>1 DEF SignalInv
  <2>. QED
    BY <1>6, <2>2, <2>3, <2>4 DEF ReviewGate
<1>7. CASE GatePasses /\ ~Return
  <2>1. Against' = Against /\ standing' = standing /\ UNCHANGED config
    BY <1>7, AgainstKept DEF GatePasses, world, locals
  <2>2. pc' = IF config.review = "off" THEN "protect" ELSE "directive"
    BY <1>7 DEF GatePasses, Goto
  <2>. QED
    BY <2>1, <2>2 DEF SignalInv
<1>8. CASE Protect /\ ~Return
  <2>1. Against' = Against /\ standing' = standing /\ UNCHANGED config /\ pc = "protect" /\ pc' = "arm"
    BY <1>8, AgainstKept DEF Protect, Goto, world, locals
  <2>. QED
    BY <2>1 DEF SignalInv
<1>9. CASE ~(Return \/ Review \/ Approve \/ CallMerge \/ Unreadable \/ ReviewGate \/ GatePasses \/ Protect)
  <2>1. UNCHANGED <<review, standing, config>>
    BY <1>9
    DEF Next, Session, Start, StartFresh, Reattach, Note, Edit, CommitAll, Pr, CallPr, Push,
        PushRejected, Create, Number, Verify, StartRun, PostReview, Block, PostBlock,
        Merge, Rights, Evidence, GateStep, GateUnknown, GateParks, GatePending,
        GateBehind, RebaseStep, CallRebase, Rebase, ForcePush, LeaseBroken,
        Arm, Finish, Unlink, Others, Report, AutoMerge,
        BaseMoves, ForeignPush, UserFetch, Faults, Fails, vars, verb,
        world, locals
  <2>2. \/ pc' = pc
        \/ pc = "idle" /\ pc' \in {"note", "push", "unlink", "comment", "rebase"}
        \/ pc = "push" /\ pc' = "create"
        \/ pc = "create" /\ pc' = "number"
        \/ pc' \in {"evidence", "gate", "rebase", "lease"}
    BY <1>9
    DEF Next, Session, Start, StartFresh, Reattach, Note, Edit, CommitAll, Pr, CallPr, Push,
        PushRejected, Create, Number, Verify, StartRun, PostReview, Block, PostBlock,
        Merge, Rights, Evidence, GateStep, GateUnknown, GateParks, GatePending,
        GateBehind, RebaseStep, CallRebase, Rebase, ForcePush, LeaseBroken,
        Arm, Finish, Unlink, Others, Report, AutoMerge, Call, Goto,
        BaseMoves, ForeignPush, UserFetch, Faults, Fails, vars, verb
  <2>. QED
    BY <2>1, <2>2, AgainstKept DEF SignalInv
<1>. QED
  BY <1>1, <1>2, <1>3, <1>4, <1>5, <1>6, <1>7, <1>8, <1>9

\* With require_review on, a block, a request for changes or an unresolved thread that
\* stood since merge was called keeps the auto-merge from being armed, unless reading the
\* reviews failed (work.py review_gate).
THEOREM StandingSignalAlwaysStops == Spec => StandingSignalStops
<1>1. Init => SignalInv
  BY DEF Init, SignalInv
<1>2. SignalInv /\ [Next]_vars
        => [~armed /\ armed' => config.review = "off" \/ standing = {}]_vars
  <2> SUFFICES ASSUME SignalInv, Next, ~armed, armed'
               PROVE  config.review = "off" \/ standing = {}
    BY DEF vars, world, github
  <2>. QED
    BY OnlyArmArms DEF Arm, SignalInv
<1>. QED
  BY <1>1, <1>2, SignalStep, TypedAlways, PTL DEF Spec, StandingSignalStops

-----------------------------------------------------------------------------
(* The session's own work.                                                 *)

\* The branch in the clone holds every commit of the session that was ever pushed.
HoldsPushed == remote # None => local # None /\ remote.rev <= local.rev

\* What a step does to the branch in the clone: it is cut once, and no commit leaves it.
LEMMA LocalGrows ==
  ASSUME Typed, Next
  PROVE  local # None => local' # None /\ local'.rev >= local.rev
<1>1. local # None => local \in Commit /\ local.rev \in Nat
  BY DEF Typed, TypeOK, Ref, Commit
<1>2. CASE StartFresh \/ Reattach
  BY <1>1, <1>2 DEF StartFresh, Reattach
<1>3. CASE CommitAll
  <2>1. local # None /\ local' = [local EXCEPT !.rev = @ + 1]
    BY <1>3 DEF CommitAll, Typed, BranchInv
  <2>2. local' \in Commit /\ local'.rev = local.rev + 1
    BY <1>1, <2>1 DEF Commit
  <2>. QED
    BY <1>1, <2>1, <2>2, Fresh
<1>4. CASE Rebase
  <2>1. local # None
    BY <1>4 DEF Rebase, Typed, BranchInv
  <2>2. local' = [local EXCEPT !.on = base] \/ local' = local
    BY <1>4 DEF Rebase
  <2>3. local' \in Commit /\ local'.rev = local.rev
    BY <1>1, <2>1, <2>2 DEF Commit, Typed, TypeOK
  <2>. QED
    BY <1>1, <2>1, <2>3, Fresh
<1>5. CASE ~(StartFresh \/ Reattach \/ CommitAll \/ Rebase)
  <2>1. local' = local
    BY <1>5
    DEF Next, Session, Start, Note, Edit, Pr, CallPr, Push, PushRejected, Create, Number,
        Verify, StartRun, PostReview, Approve, Block, PostBlock, Merge, CallMerge, Rights,
        Evidence, GateStep, GateUnknown, GateParks, GatePending, GateBehind, GatePasses,
        RebaseStep, CallRebase, ForcePush, LeaseBroken, ReviewGate, Directive, Decision,
        Threads, Protect, Arm, Finish, Unlink, Others, Report, AutoMerge, BaseMoves,
        ForeignPush, UserFetch, Review, Faults, Fails, Unreadable, world, branch
  <2>. QED
    BY <1>1, <2>1
<1>. QED
  BY <1>2, <1>3, <1>4, <1>5

\* A push puts the branch of the clone in the place of the one on GitHub; a push of
\* somebody else adds to what is there.
LEMMA RemoteMoves ==
  ASSUME Typed, Next, remote' # remote
  PROVE  \/ local # None /\ remote' = local /\ local' = local
         \/ remote # None /\ remote' # None /\ remote'.rev = remote.rev /\ local' = local
<1>1. CASE Push \/ ForcePush
  BY <1>1 DEF Push, ForcePush, Pushed, Typed, BranchInv
<1>2. CASE ForeignPush
  <2>1. remote # None /\ remote \in Commit
    BY <1>2 DEF ForeignPush, Typed, TypeOK, BranchInv, Ref
  <2>2. remote' = [remote EXCEPT !.foreign = TRUE] /\ local' = local
    BY <1>2 DEF ForeignPush, branch
  <2>3. remote' \in Commit /\ remote'.rev = remote.rev
    BY <2>1, <2>2 DEF Commit
  <2>. QED
    BY <2>1, <2>2, <2>3, Fresh
<1>. QED
  BY <1>1, <1>2, OnlyPushesPush

LEMMA HoldsStep == Typed /\ HoldsPushed /\ [Next]_vars => HoldsPushed'
<1> SUFFICES ASSUME Typed, HoldsPushed, [Next]_vars PROVE HoldsPushed'
  OBVIOUS
<1>1. CASE UNCHANGED vars
  BY <1>1 DEF vars, world, branch, github, HoldsPushed
<1>2. CASE Next
  <2>1. /\ local # None => local.rev \in Nat
        /\ local' # None => local'.rev \in Nat
        /\ remote # None => remote.rev \in Nat
    BY <1>2, TypedStep DEF Typed, TypeOK, Ref, Commit
  <2>2. CASE remote' = remote
    BY <1>2, <2>1, <2>2, LocalGrows DEF HoldsPushed
  <2>3. CASE remote' # remote
    BY <1>2, <2>1, <2>3, RemoteMoves DEF HoldsPushed
  <2>. QED
    BY <2>2, <2>3
<1>. QED
  BY <1>1, <1>2

\* No push of the session takes a commit of its own off the pull request, whatever was
\* finished (forced or not), killed, lost, started again or rebased before it (work.py
\* start, pr, rebase, finish).
THEOREM OwnWorkAlwaysSurvives == Spec => OwnWorkSurvives
<1>1. Init => HoldsPushed
  BY DEF Init, HoldsPushed
<1>2. Typed /\ HoldsPushed /\ [Next]_vars
        => [remote # None => remote' # None /\ remote'.rev >= remote.rev]_vars
  <2> SUFFICES ASSUME Typed, HoldsPushed, Next, remote # None
               PROVE  remote' # None /\ remote'.rev >= remote.rev
    OBVIOUS
  <2>1. local # None /\ local.rev \in Nat /\ remote.rev \in Nat /\ remote.rev <= local.rev
    BY DEF HoldsPushed, Typed, TypeOK, Ref, Commit
  <2>2. CASE remote' = remote
    BY <2>1, <2>2
  <2>3. CASE remote' # remote
    BY <2>1, <2>3, RemoteMoves
  <2>. QED
    BY <2>2, <2>3
<1>. QED
  BY <1>1, <1>2, HoldsStep, TypedAlways, PTL DEF Spec, OwnWorkSurvives
=============================================================================
