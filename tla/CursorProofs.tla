---------------------------- MODULE CursorProofs ----------------------------
(***************************************************************************)
(* Proofs about Cursor, for any number of processes and calls.             *)
(***************************************************************************)
EXTENDS Cursor, TLAPS

\* A patch, or a read, of readable counters is readable counters again
\* (state.py, the patch callables of start_run, add_tokens, advance_cursor).
LEMMA EffectType ==
  ASSUME NEW r \in Request, NEW c \in Counters
  PROVE  Abs!Effect(r, c) \in Counters
<1>1. Amount \subseteq Nat
  BY CursorAssumption
<1>2. /\ c = [iteration |-> c.iteration, runIteration |-> c.runIteration,
               runTokens |-> c.runTokens]
      /\ c.iteration \in Nat /\ c.runIteration \in Nat /\ c.runTokens \in Nat
  BY DEF Counters, Abs!Counters
<1> USE DEF Counters, Abs!Counters, Abs!Effect
<1>3. CASE r.op = "start"
  BY <1>2, <1>3
<1>4. CASE r.op = "advance"
  <2>1. Abs!Effect(r, c) = [iteration |-> c.iteration + 1,
                            runIteration |-> c.runIteration + 1,
                            runTokens |-> c.runTokens]
    BY <1>2, <1>4
  <2>. QED
    BY <1>2, <2>1
<1>5. CASE r.op = "spend"
  <2>1. r.n \in Nat
    BY <1>1, <1>5 DEF Request, Abs!Request
  <2>. QED
    BY <1>2, <1>5, <2>1
<1>6. CASE r.op \notin {"start", "advance", "spend"}
  BY <1>6
<1>. QED
  BY <1>3, <1>4, <1>5, <1>6

LEMMA ZeroType == Zero \in Counters /\ Zero # None
  BY NoneAssumption DEF Zero, Counters, Abs!Zero, Abs!Counters

\* The lock belongs to a writer from the moment it takes it until it ends; the
\* file exists once a call is past its scaffold; and the inode a call made is
\* blank as long as STATE.md still names it (state.py, _cursor_lock, _state_file).
LockInv ==
  \A p \in Proc : lock = p <=> pc[p] \in Critical /\ Writer(p) /\ p \notin FailOpen

FileInv ==
  \A p \in Proc :
    /\ pc[p] \in Critical \ {"scaffold"} => file # None
    /\ pc[p] = "template" /\ creator = p => file = Zero
    /\ pc[p] \in {"acquire", "publish"} => Writer(p)

Inv == TypeOK /\ LockInv /\ FileInv

\* The processes, the file and the counters keep their types.
LEMMA TypeStep == Inv /\ [Next]_vars => TypeOK'
<1> SUFFICES ASSUME Inv, [Next]_vars PROVE TypeOK'
  OBVIOUS
<1> USE NoneAssumption, CursorAssumption DEF Inv, TypeOK, Critical
<1>1. ASSUME NEW p \in Proc, Call(p) PROVE TypeOK'
  BY <1>1 DEF Call, Goto
<1>2. ASSUME NEW p \in Proc, Acquire(p) PROVE TypeOK'
  BY <1>2 DEF Acquire, Goto
<1>3. ASSUME NEW p \in Proc, Scaffold(p) PROVE TypeOK'
  BY <1>3, ZeroType DEF Scaffold, Goto
<1>4. ASSUME NEW p \in Proc, WriteTemplate(p) PROVE TypeOK'
  BY <1>4, ZeroType DEF WriteTemplate, Goto
<1>5. ASSUME NEW p \in Proc, Read(p) PROVE TypeOK'
  <2>1. req[p] \in Request /\ file \in Counters
    BY <1>5 DEF Read, FileInv
  <2>2. Abs!Effect(req[p], file) \in Counters
    BY <2>1, EffectType
  <2>. QED
    BY <1>5, <2>2 DEF Read, Goto
<1>6. ASSUME NEW p \in Proc, Publish(p) PROVE TypeOK'
  BY <1>6 DEF Publish, Goto
<1>7. ASSUME NEW p \in Proc, NEW how \in {"returned", "died"}, Finish(p, how) PROVE TypeOK'
  BY <1>7 DEF Finish, Goto
<1>8. CASE UNCHANGED vars
  BY <1>8 DEF vars
<1>9. QED
  BY <1>1, <1>2, <1>3, <1>4, <1>5, <1>6, <1>7, <1>8 DEF Next, Step, Return, Die

\* Only the one who takes the lock has it, and only until its call ends.
LEMMA LockStep == Inv /\ [Next]_vars => LockInv'
<1> SUFFICES ASSUME Inv, [Next]_vars PROVE LockInv'
  OBVIOUS
<1> USE NoneAssumption, CursorAssumption DEF Inv, TypeOK, Critical, LockInv, Writer
<1>1. ASSUME NEW p \in Proc, Call(p) PROVE LockInv'
  BY <1>1 DEF Call, Goto
<1>2. ASSUME NEW p \in Proc, Acquire(p) PROVE LockInv'
  BY <1>2 DEF Acquire, Goto, FileInv
<1>3. ASSUME NEW p \in Proc, Scaffold(p) PROVE LockInv'
  BY <1>3 DEF Scaffold, Goto
<1>4. ASSUME NEW p \in Proc, WriteTemplate(p) PROVE LockInv'
  BY <1>4 DEF WriteTemplate, Goto
<1>5. ASSUME NEW p \in Proc, Read(p) PROVE LockInv'
  BY <1>5 DEF Read, Goto
<1>6. ASSUME NEW p \in Proc, Publish(p) PROVE LockInv'
  BY <1>6 DEF Publish, Goto
<1>7. ASSUME NEW p \in Proc, NEW how \in {"returned", "died"}, Finish(p, how) PROVE LockInv'
  BY <1>7 DEF Finish, Goto
<1>8. CASE UNCHANGED vars
  BY <1>8 DEF vars
<1>9. QED
  BY <1>1, <1>2, <1>3, <1>4, <1>5, <1>6, <1>7, <1>8 DEF Next, Step, Return, Die

\* The file is there once a call needs it, and a template goes nowhere or to a
\* file that is still blank.
LEMMA FileStep == Inv /\ [Next]_vars => FileInv'
<1> SUFFICES ASSUME Inv, [Next]_vars PROVE FileInv'
  OBVIOUS
<1> USE NoneAssumption, CursorAssumption, ZeroType DEF Inv, TypeOK, Critical, FileInv, Writer
<1>1. ASSUME NEW p \in Proc, Call(p) PROVE FileInv'
  BY <1>1 DEF Call, Goto
<1>2. ASSUME NEW p \in Proc, Acquire(p) PROVE FileInv'
  BY <1>2 DEF Acquire, Goto
<1>3. ASSUME NEW p \in Proc, Scaffold(p) PROVE FileInv'
  BY <1>3 DEF Scaffold, Goto
<1>4. ASSUME NEW p \in Proc, WriteTemplate(p) PROVE FileInv'
  BY <1>4 DEF WriteTemplate, Goto
<1>5. ASSUME NEW p \in Proc, Read(p) PROVE FileInv'
  BY <1>5 DEF Read, Goto
<1>6. ASSUME NEW p \in Proc, Publish(p) PROVE FileInv'
  BY <1>6 DEF Publish, Goto
<1>7. ASSUME NEW p \in Proc, NEW how \in {"returned", "died"}, Finish(p, how) PROVE FileInv'
  BY <1>7 DEF Finish, Goto
<1>8. CASE UNCHANGED vars
  BY <1>8 DEF vars
<1>9. QED
  BY <1>1, <1>2, <1>3, <1>4, <1>5, <1>6, <1>7, <1>8 DEF Next, Step, Return, Die

LEMMA InitInv == Init => Inv
  BY NoneAssumption, CursorAssumption
  DEF Init, Inv, TypeOK, LockInv, FileInv, Critical, Writer

LEMMA InvHolds == Spec => []Inv
<1>1. Inv /\ [Next]_vars => Inv'
  BY TypeStep, LockStep, FileStep DEF Inv
<1>. QED
  BY <1>1, InitInv, PTL DEF Spec

\* The stored cursor, its lock and its callers keep their types; in particular
\* nobody patches a file that is not there (state.py, _patch_cursor).
THEOREM CursorTypeCorrect == Spec => []TypeOK
  BY InvHolds, PTL DEF Inv

\* At most one writer is between taking STATE.md.lock and the end of its call.
OneWriter ==
  \A p, q \in Proc :
    (pc[p] \in Critical /\ Writer(p) /\ pc[q] \in Critical /\ Writer(q)) => p = q

\* Where every writer can flock, two of them are never both between taking
\* STATE.md.lock and giving it up (state.py, _cursor_lock).
THEOREM WritersExclude == FailOpen = {} => (Spec => []OneWriter)
<1> SUFFICES ASSUME FailOpen = {} PROVE Spec => []OneWriter
  OBVIOUS
<1>1. Inv => OneWriter
  BY DEF Inv, LockInv, OneWriter, Writer
<1>. QED
  BY <1>1, InvHolds, PTL

-----------------------------------------------------------------------------
(* No counter is lost.                                                     *)

\* What a writer is about to publish stays current: only a writer changes the
\* counters, and the other ones wait for the lock.
LEMMA PatchStep ==
  FailOpen = {} /\ Inv /\ NoStalePatch /\ [Next]_vars => NoStalePatch'
<1> SUFFICES ASSUME FailOpen = {}, Inv, NoStalePatch, [Next]_vars PROVE NoStalePatch'
  OBVIOUS
<1> USE NoneAssumption DEF Inv, TypeOK, Critical, NoStalePatch
<1>1. ASSUME NEW p \in Proc, Call(p) PROVE NoStalePatch'
  BY <1>1 DEF Call, Goto
<1>2. ASSUME NEW p \in Proc, Acquire(p) PROVE NoStalePatch'
  BY <1>2 DEF Acquire, Goto
<1>3. ASSUME NEW p \in Proc, Scaffold(p) PROVE NoStalePatch'
  BY <1>3 DEF Scaffold, Goto
<1>4. ASSUME NEW p \in Proc, WriteTemplate(p) PROVE NoStalePatch'
  <2>1. file' = file
    BY <1>4 DEF WriteTemplate, FileInv
  <2>. QED
    BY <1>4, <2>1 DEF WriteTemplate, Goto
<1>5. ASSUME NEW p \in Proc, Read(p) PROVE NoStalePatch'
  <2>1. file # None
    BY <1>5 DEF Read, FileInv
  <2>. QED
    BY <1>5, <2>1 DEF Read, Goto
<1>6. ASSUME NEW p \in Proc, Publish(p) PROVE NoStalePatch'
  <2>1. \A q \in Proc \ {p} : pc[q] # "publish"
    BY <1>6 DEF Publish, FileInv, LockInv
  <2>. QED
    BY <1>6, <2>1 DEF Publish, Goto
<1>7. ASSUME NEW p \in Proc, NEW how \in {"returned", "died"}, Finish(p, how)
      PROVE  NoStalePatch'
  BY <1>7 DEF Finish, Goto
<1>8. CASE UNCHANGED vars
  BY <1>8 DEF vars
<1>9. QED
  BY <1>1, <1>2, <1>3, <1>4, <1>5, <1>6, <1>7, <1>8 DEF Next, Step, Return, Die

\* Where every writer can flock, a patch is computed from the counters it will
\* replace: no increment of another process is lost (state.py, _patch_cursor).
THEOREM NothingIsLost == FailOpen = {} => (Spec => []NoStalePatch)
<1> SUFFICES ASSUME FailOpen = {} PROVE Spec => []NoStalePatch
  OBVIOUS
<1>1. Init => NoStalePatch
  BY DEF Init, NoStalePatch
<1>2. Inv /\ NoStalePatch /\ [Next]_vars => NoStalePatch'
  BY PatchStep
<1>. QED
  BY <1>1, <1>2, InvHolds, PTL DEF Spec

-----------------------------------------------------------------------------
(* The stored cursor implements the service.                               *)

LEMMA InitRefines == Init => Abs!Init
  BY DEF Init, Abs!Init, Abs!Zero

\* A load takes effect when it reads, a write when it publishes, and nothing
\* else a call does is seen by anybody.
LEMMA StepRefines ==
  FailOpen = {} /\ Inv /\ NoStalePatch /\ [Next]_vars => [Abs!Next]_(Abs!vars)
<1> SUFFICES ASSUME FailOpen = {}, Inv, NoStalePatch, [Next]_vars
             PROVE  [Abs!Next]_(Abs!vars)
  OBVIOUS
<1> USE NoneAssumption DEF Inv, TypeOK, Critical, Abs!vars, Goto
<1>1. ASSUME NEW p \in Proc, Call(p) PROVE Abs!Call(p)
  <2>1. PICK r \in Request :
          /\ req' = [req EXCEPT ![p] = r]
          /\ pc' = [pc EXCEPT ![p] = IF r.op = "load" THEN "scaffold" ELSE "acquire"]
    BY <1>1 DEF Call
  <2>2. \A q \in Proc : pc'[q] = "leave" <=> pc[q] = "leave"
    BY <1>1, <2>1 DEF Call
  <2>3. /\ req[p] = None
        /\ UNCHANGED <<file, text, outcome>>
    BY <1>1 DEF Call
  <2>. QED
    BY <2>1, <2>2, <2>3 DEF Abs!Call, Request
<1>2. ASSUME NEW p \in Proc, Acquire(p) PROVE UNCHANGED Abs!vars
  BY <1>2 DEF Acquire
<1>3. ASSUME NEW p \in Proc, Scaffold(p) PROVE UNCHANGED Abs!vars
  BY <1>3 DEF Scaffold, Zero, Abs!Zero
<1>4. ASSUME NEW p \in Proc, WriteTemplate(p) PROVE UNCHANGED Abs!vars
  <2>1. file' = file
    BY <1>4 DEF WriteTemplate, FileInv
  <2>. QED
    BY <1>4, <2>1 DEF WriteTemplate
<1>5. ASSUME NEW p \in Proc, Read(p), Writer(p) PROVE UNCHANGED Abs!vars
  BY <1>5 DEF Read
<1>6. ASSUME NEW p \in Proc, Read(p), ~Writer(p) PROVE Abs!Apply(p)
  <2>1. file # None /\ req[p] # None
    BY <1>6 DEF Read, FileInv
  <2>2. Abs!Effect(req[p], file) = file
    BY <1>6, <2>1 DEF Writer, Abs!Effect
  <2>. QED
    BY <1>6, <2>1, <2>2 DEF Read, Abs!Apply
<1>7. ASSUME NEW p \in Proc, Publish(p) PROVE Abs!Apply(p)
  <2>1. file # None /\ req[p] # None /\ text[p] # None
    BY <1>7 DEF Publish, FileInv
  <2>2. text[p] = Abs!Effect(req[p], file)
    BY <1>7 DEF Publish, NoStalePatch
  <2>. QED
    BY <1>7, <2>1, <2>2 DEF Publish, Abs!Apply
<1>8. ASSUME NEW p \in Proc, NEW how \in {"returned", "died"}, Finish(p, how)
      PROVE  Abs!Finish(p, how)
  BY <1>8 DEF Finish, Abs!Finish
<1>9. ASSUME NEW p \in Proc, Return(p) PROVE Abs!Return(p)
  BY <1>8, <1>9 DEF Return, Abs!Return
<1>10. ASSUME NEW p \in Proc, Die(p) PROVE Abs!Die(p)
  BY <1>8, <1>10 DEF Die, Abs!Die
<1>11. CASE UNCHANGED vars
  BY <1>11 DEF vars
<1>. QED
  BY <1>1, <1>2, <1>3, <1>4, <1>5, <1>6, <1>7, <1>9, <1>10, <1>11
  DEF Next, Step, Abs!Next

\* Where every writer can flock, the cursor that processes patch, read, scaffold
\* and abandon at any point behaves as one whose calls each take effect at one
\* instant (state.py, _patch_cursor, _state_file, load_cursor).
THEOREM CursorIsLinearizable == FailOpen = {} => (Spec => Linearizable)
<1> SUFFICES ASSUME FailOpen = {} PROVE Spec => Linearizable
  OBVIOUS
<1>1. Spec => []NoStalePatch
  BY NothingIsLost
<1>2. Inv /\ NoStalePatch /\ [Next]_vars => [Abs!Next]_(Abs!vars)
  BY StepRefines
<1>. QED
  BY <1>1, <1>2, InitRefines, InvHolds, PTL
  DEF Spec, Linearizable, Abs!Spec

=============================================================================
