--------------------------- MODULE ReversalProofs ---------------------------
(***************************************************************************)
(* Proofs about the three parts that take a program back: the debugger,    *)
(* the decision journal and the machine, for every program, every start    *)
(* state and every word width up to 64.                                    *)
(*                                                                         *)
(* The debugger. The argument is one inductive invariant. The state on     *)
(* show is the newest recorded one, each recorded state is the execution   *)
(* of one leaf from the one before; so the inverse of the last leaf, run   *)
(* on the state on show, lands on the recorded state before it             *)
(* (ExecCancel).                                                           *)
(*                                                                         *)
(* The decision journal. What a run and its reversal do to the journal and *)
(* the state is said of a step, shown of steps one after the other, of one *)
(* node, and, level of nesting by level, of every program; the caller's    *)
(* invariant is that each frame it keeps records a run that went well.     *)
(*                                                                         *)
(* The machine. A job stack is read as what it has still to hand out: each *)
(* turn of the iterator keeps that, and yielding takes its first leaf. So  *)
(* what was yielded and what is left make up the unrolled program, and a   *)
(* reverse_n stands where run_forward had stood.                           *)
(***************************************************************************)
EXTENDS DebuggerHistory, DecisionJournal, Machine, PhaseInstProofs

IInv == HistoryTypeOK /\ StateIsPrefix /\ NoBackFault

(* What the debugger's loops need to know of a leaf. *)
LEMMA LeafType ==
  ASSUME TypeOK, NEW k \in 1 .. Total
  PROVE  /\ leaves[k] \in Inst
         /\ ~OperandAlias(leaves[k])
         /\ Invertible(leaves[k]) <=> ~IsIrreversible(leaves[k])
  <1>1. leaves \in Seq(Inst)
    BY DebuggerAssumption DEF TypeOK
  <1>2. leaves[k] \in Inst
    BY <1>1 DEF Total
  <1>3. ~OperandAlias(leaves[k])
    BY DEF TypeOK, Accepts, Total
  <1> QED
    BY <1>2, <1>3 DEF Invertible

LEMMA TotalNat ==
  ASSUME TypeOK
  PROVE  Total \in Nat /\ leaves \in Seq(Inst)
  BY DebuggerAssumption DEF TypeOK, Total

(* What a step of the debugger with a history can be: the machine stands    *)
(* still, or one leaf is executed, or one leaf is undone.                   *)
StandsStill == UNCHANGED <<leaves, pos, s, past>>

ExecutesLeaf ==
  /\ pos < Total
  /\ InRange(s, leaves[pos + 1])
  /\ s' = Exec(s, leaves[pos + 1])
  /\ pos' = pos + 1
  /\ past' = Append(past, s')
  /\ UNCHANGED leaves

UndoesLeaf ==
  /\ pos > 0
  /\ Invertible(leaves[pos])
  /\ s' = Exec(s, Inverse(leaves[pos]))
  /\ pos' = pos - 1
  /\ past' = SubSeq(past, 1, Len(past) - 1)
  /\ UNCHANGED leaves

(* In a state of the invariant the inverse of the last leaf can run, and    *)
(* leads to the state recorded before that leaf.                            *)
LEMMA BackLandsOnPast ==
  ASSUME IInv, pos > 0, Invertible(leaves[pos])
  PROVE  /\ InRange(s, Inverse(leaves[pos]))
         /\ Exec(s, Inverse(leaves[pos])) = past[pos]
  <1>1. pos \in 1 .. Total /\ pos \in Nat
    BY TotalNat DEF IInv, HistoryTypeOK, TypeOK
  <1>2. leaves[pos] \in Inst
    BY <1>1, LeafType DEF IInv, HistoryTypeOK
  <1>3. past[pos] \in State
    BY <1>1 DEF IInv, HistoryTypeOK
  <1>4. /\ InRange(past[pos], leaves[pos])
        /\ s = Exec(past[pos], leaves[pos])
    BY <1>1 DEF IInv, StateIsPrefix, HistoryIsRun
  <1> QED
    BY <1>2, <1>3, <1>4, ExecCancel

(* Every step of the debugger is one of the three. *)
LEMMA StepKinds ==
  ASSUME IInv, HNext
  PROVE  /\ StandsStill \/ ExecutesLeaf \/ UndoesLeaf
         /\ out' # "backfault"
         /\ cmd' \in [name : {"idle", "fwd", "back", "cont"}, left : Nat]
         /\ breaks' \subseteq BreakPos
         /\ out' \in Outcomes
  <1> DEFINE Others == /\ out' # "backfault"
                       /\ cmd' \in [name : {"idle", "fwd", "back", "cont"}, left : Nat]
                       /\ breaks' \subseteq BreakPos
                       /\ out' \in Outcomes
  <1>1. /\ TypeOK /\ pos \in Nat /\ Total \in Nat /\ pos \in 0 .. Total
        /\ past \in Seq(State) /\ Len(past) = pos + 1
        /\ cmd \in [name : {"idle", "fwd", "back", "cont"}, left : Nat]
        /\ breaks \subseteq BreakPos /\ out \in Outcomes /\ out # "backfault"
    BY TotalNat DEF IInv, HistoryTypeOK, TypeOK, NoBackFault
  <1>2. Record
    BY DEF HNext
  <1>3. ASSUME NEW name \in {"fwd", "back", "cont"}, NEW n \in Nat, Start(name, n)
        PROVE  StandsStill /\ Others
    BY <1>1, <1>2, <1>3 DEF Start, StandsStill, Record
  <1>4. ASSUME NEW outcome \in Outcomes \ {"backfault"}, Finish(outcome)
        PROVE  StandsStill /\ Others
    BY <1>1, <1>2, <1>4 DEF Finish, Idle, StandsStill, Record, Outcomes
  <1>5. ASSUME Advance, pos < Total, cmd.name = "fwd" => cmd.left > 0
        PROVE  (StandsStill \/ ExecutesLeaf) /\ Others
    <2>1. CASE Finish("fault")
      BY <2>1, <1>4 DEF Outcomes
    <2>2. CASE /\ InRange(s, leaves[pos + 1])
               /\ s' = Exec(s, leaves[pos + 1])
               /\ pos' = pos + 1
               /\ cmd' = IF cmd.name = "fwd" THEN [cmd EXCEPT !.left = @ - 1] ELSE cmd
               /\ UNCHANGED <<leaves, breaks, out>>
      <3>1. ExecutesLeaf
        BY <1>1, <1>2, <1>5, <2>2 DEF Record, ExecutesLeaf
      <3>2. Others
        BY <1>1, <1>5, <2>2
      <3> QED
        BY <3>1, <3>2
    <2> QED
      BY <1>5, <2>1, <2>2 DEF Advance
  <1>6. CASE \E n \in Counts : ForwardCmd(n) \/ BackCmd(n) \/ GotoCmd(n)
    <2>1. Counts \subseteq Nat
      BY DebuggerAssumption
    <2> QED
      BY <1>1, <1>3, <1>6, <2>1 DEF ForwardCmd, BackCmd, GotoCmd
  <1>7. CASE ContCmd
    BY <1>3, <1>7 DEF ContCmd
  <1>8. CASE \E v \in BreakPos : SetBreak(v) \/ ClearBreak(v)
    BY <1>1, <1>2, <1>8 DEF SetBreak, ClearBreak, StandsStill, Record
  <1>9. CASE StepForward
    BY <1>1, <1>4, <1>5, <1>9 DEF StepForward, Outcomes
  <1>10. CASE Continue
    BY <1>1, <1>4, <1>5, <1>10 DEF Continue, Outcomes
  <1>11. CASE StepBack
    <2>1. CASE Finish("ok")
      BY <2>1, <1>4 DEF Outcomes
    <2>2. CASE cmd.left > 0 /\ pos > 0 /\ Retreat
      <3>1. CASE Finish("boundary")
        BY <3>1, <1>4 DEF Outcomes
      <3>2. ~(Invertible(leaves[pos]) /\ ~InRange(s, Inverse(leaves[pos])))
        BY <2>2, BackLandsOnPast
      <3>3. CASE /\ Invertible(leaves[pos])
                 /\ s' = Exec(s, Inverse(leaves[pos]))
                 /\ pos' = pos - 1
                 /\ cmd' = [cmd EXCEPT !.left = @ - 1]
                 /\ UNCHANGED <<leaves, breaks, out>>
        <4>1. UndoesLeaf
          BY <1>1, <1>2, <2>2, <3>3 DEF Record, UndoesLeaf
        <4>2. Others
          BY <1>1, <2>2, <3>3
        <4> QED
          BY <4>1, <4>2
      <3> QED
        BY <2>2, <3>1, <3>2, <3>3 DEF Retreat
    <2> QED
      BY <1>11, <2>1, <2>2 DEF StepBack
  <1> QED
    BY <1>6, <1>7, <1>8, <1>9, <1>10, <1>11 DEF HNext, Next, Loop

-----------------------------------------------------------------------------
(* The invariant holds at the start and every step keeps it. *)

LEMMA InitInv == HInit => IInv
  <1> SUFFICES ASSUME HInit PROVE IInv
    OBVIOUS
  <1>1. /\ leaves \in Programs /\ Accepts(leaves) /\ s \in State /\ pos = 0
        /\ breaks = {} /\ cmd = Idle /\ out = "ok" /\ past = <<s>>
    BY DebuggerAssumption DEF HInit, Init
  <1>2. leaves \in Seq(Inst) /\ Total \in Nat
    BY <1>1, DebuggerAssumption DEF Total
  <1>3. TypeOK
    BY <1>1, <1>2 DEF TypeOK, Idle, Outcomes
  <1> QED
    BY <1>1, <1>3 DEF IInv, HistoryTypeOK, StateIsPrefix, HistoryIsRun, NoBackFault

LEMMA StepInv == IInv /\ [HNext]_histVars => IInv'
  <1> SUFFICES ASSUME IInv, [HNext]_histVars PROVE IInv'
    OBVIOUS
  <1>1. CASE UNCHANGED histVars
    BY <1>1 DEF histVars, IInv, HistoryTypeOK, StateIsPrefix, HistoryIsRun, NoBackFault,
                TypeOK, Accepts, Total
  <1>2. CASE HNext
    <2>1. /\ leaves \in Programs /\ Accepts(leaves) /\ s \in State
          /\ Total \in Nat /\ leaves \in Seq(Inst)
          /\ pos \in Nat /\ pos <= Total
          /\ past \in Seq(State) /\ Len(past) = pos + 1
          /\ HistoryIsRun /\ s = past[pos + 1]
      BY TotalNat DEF IInv, HistoryTypeOK, TypeOK, StateIsPrefix
    <2>2. /\ out' # "backfault" /\ out' \in Outcomes
          /\ cmd' \in [name : {"idle", "fwd", "back", "cont"}, left : Nat]
          /\ breaks' \subseteq BreakPos
      BY <1>2, StepKinds
    <2> DEFINE Goal == /\ leaves' = leaves
                       /\ s' \in State
                       /\ pos' \in 0 .. Total
                       /\ past' \in Seq(State) /\ Len(past') = pos' + 1
                       /\ s' = past'[pos' + 1]
                       /\ \A p \in 1 .. pos' :
                            /\ InRange(past'[p], leaves[p])
                            /\ past'[p + 1] = Exec(past'[p], leaves[p])
    <2>3. ASSUME StandsStill PROVE Goal
      BY <2>1, <2>3 DEF StandsStill, HistoryIsRun
    <2>4. ASSUME ExecutesLeaf PROVE Goal
      <3>1. leaves[pos + 1] \in Inst
        BY <2>1, <2>4 DEF ExecutesLeaf, Total
      <3>2. s' \in State
        BY <2>1, <2>4, <3>1, ExecState DEF ExecutesLeaf
      <3>3. past' \in Seq(State) /\ Len(past') = pos' + 1 /\ s' = past'[pos' + 1]
        BY <2>1, <2>4, <3>2 DEF ExecutesLeaf
      <3>4. \A p \in 1 .. pos + 1 : past'[p] = past[p]
        BY <2>1, <2>4, <3>2 DEF ExecutesLeaf
      <3>5. ASSUME NEW p \in 1 .. pos'
            PROVE  /\ InRange(past'[p], leaves[p])
                   /\ past'[p + 1] = Exec(past'[p], leaves[p])
        <4>1. CASE p = pos + 1
          BY <2>1, <2>4, <3>3, <3>4, <4>1 DEF ExecutesLeaf
        <4>2. CASE p \in 1 .. pos
          BY <2>1, <3>4, <4>2 DEF HistoryIsRun
        <4> QED
          BY <2>1, <2>4, <4>1, <4>2 DEF ExecutesLeaf
      <3> QED
        BY <2>1, <2>4, <3>2, <3>3, <3>5 DEF ExecutesLeaf
    <2>5. ASSUME UndoesLeaf PROVE Goal
      <3>1. s' = past[pos]
        BY <2>5, BackLandsOnPast DEF UndoesLeaf
      <3>2. /\ past' \in Seq(State) /\ Len(past') = pos
            /\ \A p \in 1 .. pos : past'[p] = past[p]
        BY <2>1, <2>5 DEF UndoesLeaf
      <3>3. pos' \in 0 .. Total /\ pos' = pos - 1 /\ past[pos] \in State
        BY <2>1, <2>5 DEF UndoesLeaf
      <3>4. past'[pos] = past[pos] /\ leaves' = leaves
        BY <2>1, <2>5, <3>2 DEF UndoesLeaf
      <3>5. ASSUME NEW p \in 1 .. pos'
            PROVE  /\ InRange(past'[p], leaves[p])
                   /\ past'[p + 1] = Exec(past'[p], leaves[p])
        <4>1. /\ p \in 1 .. pos /\ p + 1 \in 1 .. pos
              /\ past'[p] = past[p] /\ past'[p + 1] = past[p + 1]
          BY <2>1, <3>2, <3>3, <3>5
        <4> QED
          BY <2>1, <4>1 DEF HistoryIsRun
      <3>6. pos' + 1 = pos
        BY <2>1, <3>3
      <3> QED
        BY <3>1, <3>2, <3>3, <3>4, <3>5, <3>6
    <2> HIDE DEF Goal
    <2>6. Goal
      BY <1>2, <2>3, <2>4, <2>5, StepKinds
    <2> USE DEF Goal
    <2>7. TypeOK'
      BY <2>1, <2>2, <2>6 DEF TypeOK, Accepts, Total
    <2>8. StateIsPrefix'
      BY <2>6 DEF StateIsPrefix, HistoryIsRun
    <2> QED
      BY <2>2, <2>6, <2>7, <2>8 DEF IInv, HistoryTypeOK, NoBackFault
  <1> QED
    BY <1>1, <1>2 DEF HNext

LEMMA InvHolds == HSpec => []IInv
  BY InitInv, StepInv, PTL DEF HSpec

(* Type correctness of the debugger and of its history. *)
THEOREM TypeCorrect == HSpec => []HistoryTypeOK
  <1>1. IInv => HistoryTypeOK
    BY DEF IInv
  <1> QED
    BY <1>1, InvHolds, PTL

(* The comment on Dbg.pos: whatever commands were given, the state on show   *)
(* is the execution of exactly the first pos leaves, and every earlier state *)
(* can be named.                                                             *)
THEOREM PrefixCorrect == HSpec => []StateIsPrefix
  <1>1. IInv => StateIsPrefix
    BY DEF IInv
  <1> QED
    BY <1>1, InvHolds, PTL

(* Stepping back never meets an operand out of range, not even an address    *)
(* that is itself computed by the program.                                   *)
THEOREM BackNeverFaults == HSpec => []NoBackFault
  <1>1. IInv => NoBackFault
    BY DEF IInv
  <1> QED
    BY <1>1, InvHolds, PTL

(* No sequence of commands takes the program counter back over a boundary. *)
THEOREM BoundariesHold == HSpec => BoundaryHolds
  <1>1. ASSUME IInv, [HNext]_histVars
        PROVE  [\A k \in 1 .. pos : IsIrreversible(leaves[k]) => pos' >= k]_vars
    <2>0. TypeOK
      BY <1>1 DEF IInv, HistoryTypeOK
    <2>1. pos \in Nat /\ Total \in Nat /\ pos <= Total
      BY <2>0, TotalNat DEF TypeOK
    <2>2. CASE UNCHANGED histVars
      BY <2>2 DEF histVars, vars
    <2>3. CASE StandsStill
      BY <2>1, <2>3 DEF StandsStill
    <2>4. CASE ExecutesLeaf
      BY <2>1, <2>4 DEF ExecutesLeaf
    <2>5. CASE UndoesLeaf
      BY <2>1, <2>5 DEF UndoesLeaf, Invertible
    <2> QED
      BY <1>1, <2>2, <2>3, <2>4, <2>5, StepKinds DEF HNext
  <1> QED
    BY <1>1, InvHolds, PTL DEF HSpec, BoundaryHolds

-----------------------------------------------------------------------------
(* The debugger without snapshots implements the one with a snapshot per leaf. *)
THEOREM Refinement == HSpec => ImplementsSnapshots
  <1>1. HInit => Abs!Init
    BY DEF HInit, Init, Abs!Init
  <1>2. ASSUME IInv, [HNext]_histVars
        PROVE  [Abs!Next]_Abs!absVars
    <2>0. TypeOK
      BY <1>2 DEF IInv, HistoryTypeOK
    <2>1. /\ pos \in Nat /\ Total \in Nat /\ pos <= Total
          /\ Len(past) = pos + 1 /\ s = past[pos + 1] /\ past \in Seq(State)
      BY <1>2, <2>0, TotalNat DEF TypeOK, IInv, HistoryTypeOK, StateIsPrefix
    <2>2. CASE UNCHANGED histVars
      BY <2>2 DEF histVars, Abs!absVars
    <2>3. CASE StandsStill
      BY <2>3 DEF StandsStill, Abs!absVars
    <2>4. CASE ExecutesLeaf
      <3>1. Abs!Forward
        BY <2>1, <2>4 DEF ExecutesLeaf, Abs!Forward, Abs!Current, Total
      <3> QED
        BY <3>1 DEF Abs!Next
    <2>5. CASE UndoesLeaf
      <3>1. Abs!Back
        BY <2>1, <2>5 DEF UndoesLeaf, Invertible, Abs!Back
      <3> QED
        BY <3>1 DEF Abs!Next
    <2> QED
      BY <1>2, <2>2, <2>3, <2>4, <2>5, StepKinds
  <1> QED
    BY <1>1, <1>2, InvHolds, PTL DEF HSpec, ImplementsSnapshots, Abs!Spec

-----------------------------------------------------------------------------
(* The decision journal.                                                     *)
-----------------------------------------------------------------------------

(* The steps taken one after the other: a chain of works. *)
Step == [Works -> Works]
Through(g, n, w, steps) == Chain(g, n, Works, w, steps)
Goes(n, w, steps) == \E g : Through(g, n, w, steps) /\ InOrder(steps, w) = g[n]

LEMMA OrderIs ==
  ASSUME NEW n \in Nat, NEW w \in Works, NEW steps \in [1 .. n -> Step]
  PROVE  Goes(n, w, steps)
  <1>1. PICK f : Chain(f, n, Works, w, steps)
    BY Recursion DEF Step
  <1>2. /\ f \in [0 .. n -> Works] /\ f[0] = w
        /\ \A k \in 1 .. n : f[k] = steps[k][f[k - 1]]
    BY <1>1 DEF Chain
  <1>3. Len(steps) = n
    OBVIOUS
  <1> DEFINE Upto(g) == g = [k \in 0 .. Len(steps) |-> IF k = 0 THEN w ELSE steps[k][g[k - 1]]]
  <1>4. Upto(f)
    <2>1. \A k \in 0 .. n : f[k] = IF k = 0 THEN w ELSE steps[k][f[k - 1]]
      <3>1. \A k \in 0 .. n : k = 0 \/ k \in 1 .. n
        OBVIOUS
      <3> QED
        BY <1>2, <3>1
    <2>2. f = [k \in 0 .. n |-> f[k]]
      BY <1>2
    <2> QED
      BY <1>3, <2>1, <2>2
  <1>5. PICK g : g = CHOOSE h : Upto(h)
    OBVIOUS
  <1>6. Upto(g)
    BY <1>4, <1>5
  <1>7. InOrder(steps, w) = g[n]
    BY <1>3, <1>5 DEF InOrder
  <1>8. DOMAIN g = 0 .. n /\ g[0] = w
    BY <1>3, <1>6
  <1>9. ASSUME NEW k \in 1 .. n PROVE g[k] = steps[k][g[k - 1]]
    BY <1>3, <1>6
  <1>10. \A k \in 0 .. n : g[k] \in Works
    <2> DEFINE P == {k \in 0 .. n : g[k] \in Works}
    <2>1. 0 \in P
      BY <1>8
    <2>2. \A k \in 1 .. n : k - 1 \in P => k \in P
      BY <1>9 DEF Step
    <2> HIDE DEF P
    <2>3. \A k \in 0 .. n : k \in P
      BY <2>1, <2>2, UpTo
    <2> QED
      BY <2>3 DEF P
  <1>11. g \in [0 .. n -> Works]
    <2>1. g = [k \in 0 .. n |-> g[k]]
      BY <1>3, <1>6
    <2> HIDE DEF Upto
    <2> QED
      BY <1>10, <2>1
  <1>12. Through(g, n, w, steps)
    BY <1>8, <1>9, <1>11 DEF Through, Chain
  <1> QED
    BY <1>7, <1>12 DEF Goes

(* Programs nested at most d deep have bodies nested at most d - 1 deep. *)
Bodies(t, d) == IF d = 0 THEN {} ELSE t[d - 1]
Layered(t, insts) ==
  t = [d \in 0 .. MaxDepth |-> Seq(Nodes(insts, IF d = 0 THEN {} ELSE t[d - 1]))]

LEMMA TreesAre ==
  ASSUME NEW insts
  PROVE  Layered(TreesOf(insts), insts)
  <1> DEFINE L(t, m) == t = [d \in 0 .. m |-> Seq(Nodes(insts, IF d = 0 THEN {} ELSE t[d - 1]))]
             P == {m \in 0 .. MaxDepth : \E t : L(t, m)}
  <1>1. 0 \in P
    <2> DEFINE t == [d \in 0 .. 0 |-> Seq(Nodes(insts, {}))]
    <2>1. t = [d \in 0 .. 0 |-> Seq(Nodes(insts, IF d = 0 THEN {} ELSE t[d - 1]))]
      OBVIOUS
    <2>2. L(t, 0)
      BY <2>1
    <2>3. 0 \in 0 .. MaxDepth
      BY JournalAssumption
    <2> HIDE DEF t, L
    <2> QED
      BY <2>2, <2>3
  <1>2. ASSUME NEW m \in 1 .. MaxDepth, m - 1 \in P PROVE m \in P
    <2>1. PICK f : L(f, m - 1)
      BY <1>2
    <2>2. m \in Nat /\ m # 0 /\ m - 1 \in 0 .. m - 1 /\ \A d \in 0 .. m : d # m => d \in 0 .. m - 1
      BY JournalAssumption
    <2>3. \A d \in 0 .. m - 1 : d # 0 => d - 1 \in 0 .. m - 1
      BY JournalAssumption
    <2> DEFINE g == [d \in 0 .. m |-> IF d = m THEN Seq(Nodes(insts, f[m - 1])) ELSE f[d]]
    <2>4. ASSUME NEW d \in 0 .. m
          PROVE  g[d] = Seq(Nodes(insts, IF d = 0 THEN {} ELSE g[d - 1]))
      <3>1. CASE d = m
        <4>1. d - 1 \in 0 .. m /\ d - 1 # m
          BY <2>2, <3>1
        <4>2. g[d - 1] = f[m - 1]
          BY <3>1, <4>1
        <4> QED
          BY <2>2, <3>1, <4>2
      <3>2. CASE d # m
        <4>1. d \in 0 .. m - 1 /\ (d # 0 => d - 1 \in 0 .. m /\ d - 1 # m)
          BY <2>2, <3>2
        <4>2. f[d] = Seq(Nodes(insts, IF d = 0 THEN {} ELSE f[d - 1]))
          BY <2>1, <4>1
        <4>3. d # 0 => g[d - 1] = f[d - 1]
          BY <4>1
        <4> QED
          BY <3>2, <4>2, <4>3
      <3> QED
        BY <3>1, <3>2
    <2>5. g = [d \in 0 .. m |-> g[d]]
      OBVIOUS
    <2> HIDE DEF g
    <2>6. L(g, m)
      BY <2>4, <2>5
    <2> HIDE DEF L
    <2> QED
      BY <2>6
  <1>3. \A m \in 1 .. MaxDepth : m - 1 \in P => m \in P
    BY <1>2
  <1>4. \E t : L(t, MaxDepth)
    <2> HIDE DEF P, L
    <2>1. \A m \in 0 .. MaxDepth : m \in P
      BY <1>1, <1>3, UpTo, JournalAssumption
    <2>2. MaxDepth \in P
      BY <2>1, JournalAssumption
    <2> QED
      BY <2>2 DEF P
  <1>5. TreesOf(insts) = CHOOSE t : L(t, MaxDepth)
    BY DEF TreesOf
  <1> HIDE DEF L
  <1>6. L(TreesOf(insts), MaxDepth)
    BY <1>4, <1>5
  <1> QED
    BY <1>6 DEF L, Layered

(* The programs over some leaves are node sequences, level by level. *)
LEMMA TreeNodes ==
  ASSUME NEW insts, NEW d \in 0 .. MaxDepth
  PROVE  TreesOf(insts)[d] = Seq(Nodes(insts, Bodies(TreesOf(insts), d)))
  BY TreesAre, Zenon DEF Layered, Bodies

(* What a node is. *)
LEMMA NodeIs ==
  ASSUME NEW insts, NEW bodies, NEW node \in Nodes(insts, bodies)
  PROVE  \/ node.kind = "inst" /\ node.inst \in insts
         \/ node.kind = "rep" /\ node.count \in Nat /\ node.body \in bodies
         \/ node.kind = "ifnz" /\ node.reg \in Reg /\ node.body \in bodies
         \/ node.kind = "wz" /\ node.reg \in Reg /\ node.body \in bodies
  BY DEF Nodes

-----------------------------------------------------------------------------
(* Works. *)

LEMMA WorkFacts ==
  ASSUME NEW w \in Works
  PROVE  /\ w.s \in State /\ w.j \in Seq(Nat) /\ w.fault \in Faults
         /\ w = [s |-> w.s, j |-> w.j, fault |-> w.fault]
         /\ \A st \in State : [w EXCEPT !.s = st] = [s |-> st, j |-> w.j, fault |-> w.fault]
         /\ \A j \in Seq(Nat) : [w EXCEPT !.j = j] = [s |-> w.s, j |-> j, fault |-> w.fault]
         /\ \A e \in Faults : Fail(w, e) = [s |-> w.s, j |-> w.j, fault |-> e]
  BY DEF Works, Fail

LEMMA WorkMade ==
  ASSUME NEW st \in State, NEW j \in Seq(Nat), NEW e \in Faults
  PROVE  [s |-> st, j |-> j, fault |-> e] \in Works
  BY DEF Works

LEMMA PushFacts ==
  ASSUME NEW w \in Works, NEW n \in Nat
  PROVE  Push(w, n) = [s |-> w.s, j |-> Append(w.j, n), fault |-> w.fault] /\ Push(w, n) \in Works
  <1>1. PICK j \in Seq(Nat) : j = w.j
    BY WorkFacts
  <1>2. PICK q : q = Append(j, n)
    OBVIOUS
  <1>3. q \in Seq(Nat)
    BY <1>2
  <1>4. Push(w, n) = [s |-> w.s, j |-> q, fault |-> w.fault]
    <2>1. Push(w, n) = [w EXCEPT !.j = q]
      BY <1>1, <1>2, Zenon DEF Push
    <2> QED
      BY <1>3, <2>1, WorkFacts
  <1>5. [s |-> w.s, j |-> q, fault |-> w.fault] \in Works
    BY <1>3, WorkFacts, WorkMade
  <1> QED
    BY <1>1, <1>2, <1>4, <1>5

LEMMA PopFacts ==
  ASSUME NEW w \in Works, w.j # <<>>
  PROVE  /\ Entry(w) \in Nat /\ Popped(w) \in Works
         /\ Popped(w) = [s |-> w.s, j |-> Popped(w).j, fault |-> w.fault]
         /\ Len(Popped(w).j) = Len(w.j) - 1
         /\ \A i \in 1 .. Len(w.j) - 1 : Popped(w).j[i] = w.j[i]
  <1>1. PICK j \in Seq(Nat) : j = w.j /\ Len(j) \in Nat \ {0} /\ j # <<>>
    BY WorkFacts
  <1>a. PICK m \in Nat : m = Len(j) - 1 /\ Len(j) = m + 1
    <2>1. PICK l \in Nat \ {0} : l = Len(j)
      BY <1>1
    <2>2. l - 1 \in Nat /\ l = (l - 1) + 1
      BY <2>1
    <2> QED
      BY <2>1, <2>2
  <1>b. PICK p : p = SubSeq(j, 1, m)
    OBVIOUS
  <1>2. p \in Seq(Nat) /\ Len(p) = m
    BY <1>a, <1>b
  <1>c. \A i \in 1 .. m : p[i] = j[i]
    BY <1>a, <1>b
  <1>3. j[Len(j)] \in Nat
    BY <1>1
  <1>4. Popped(w) = [s |-> w.s, j |-> p, fault |-> w.fault]
    BY <1>1, <1>a, <1>b, <1>2, WorkFacts DEF Popped
  <1>5. Popped(w) \in Works
    BY <1>2, <1>4, WorkFacts, WorkMade
  <1> QED
    BY <1>1, <1>a, <1>2, <1>c, <1>3, <1>4, <1>5 DEF Entry

(* What is pushed last is on top. *)
LEMMA PopPush ==
  ASSUME NEW w \in Works, NEW n \in Nat
  PROVE  /\ Push(w, n).j # <<>>
         /\ Entry(Push(w, n)) = n /\ Popped(Push(w, n)) = w
  <1>1. PICK j \in Seq(Nat) : j = w.j
    BY WorkFacts
  <1>2. PICK q : q = Append(j, n)
    OBVIOUS
  <1>a. q \in Seq(Nat)
    BY <1>2
  <1>3. Len(q) = Len(j) + 1 /\ q[Len(q)] = n /\ q # <<>>
    BY <1>2
  <1>4. SubSeq(q, 1, Len(q) - 1) = j
    BY <1>2, <1>3
  <1>5. Push(w, n) = [s |-> w.s, j |-> q, fault |-> w.fault]
    BY <1>1, <1>2, PushFacts
  <1>6. Popped(Push(w, n)) = [s |-> w.s, j |-> j, fault |-> w.fault]
    <2>1. PICK x : x = Push(w, n) /\ x = [s |-> w.s, j |-> q, fault |-> w.fault]
      BY <1>5
    <2>2. [x EXCEPT !.j = j] = [s |-> w.s, j |-> j, fault |-> w.fault]
      BY <2>1
    <2>3. SubSeq(x.j, 1, Len(x.j) - 1) = j
      BY <1>4, <2>1
    <2>4. Popped(x) = [x EXCEPT !.j = j]
      BY <2>3, Zenon DEF Popped
    <2> QED
      BY <2>1, <2>2, <2>4
  <1> QED
    BY <1>1, <1>3, <1>5, <1>6, WorkFacts DEF Entry

(* Leaves keep the journal; a leaf that is not in range is reported. *)
LEMMA LeafFacts ==
  ASSUME NEW w \in Works, NEW i \in Inst
  PROVE  /\ RunLeaf(w, i) \in Works /\ RunLeaf(w, i).j = w.j
         /\ Ok(w) => (Ok(RunLeaf(w, i)) <=> InRange(w.s, i))
         /\ InRange(w.s, i) => RunLeaf(w, i) = [s |-> Exec(w.s, i), j |-> w.j, fault |-> w.fault]
         /\ ~InRange(w.s, i) => RunLeaf(w, i).s = w.s
  <1>1. "range" \in Faults /\ "range" # "none"
    BY DEF Faults
  <1>2. CASE InRange(w.s, i)
    <2>1. PICK st \in State : st = Exec(w.s, i)
      BY <1>2, ExecState, WorkFacts
    <2>2. RunLeaf(w, i) = [s |-> st, j |-> w.j, fault |-> w.fault]
      BY <1>2, <2>1, WorkFacts DEF RunLeaf
    <2> QED
      BY <1>2, <2>1, <2>2, WorkMade, WorkFacts DEF Ok
  <1>3. CASE ~InRange(w.s, i)
    <2>1. RunLeaf(w, i) = [s |-> w.s, j |-> w.j, fault |-> "range"]
      BY <1>1, <1>3, WorkFacts DEF RunLeaf
    <2> QED
      BY <1>1, <1>3, <2>1, WorkMade, WorkFacts DEF Ok
  <1> QED
    BY <1>2, <1>3

LEMMA InverseTyped ==
  ASSUME NEW i \in Inst
  PROVE  Inverse(i) \in Inst
  <1>1. \A a \in Word, x \in Word : NewtonStep(a, x) \in Word
    <2>1. \A z \in Int : z % Modulus \in Word
      BY ModulusFacts DEF Word
    <2>2. ASSUME NEW a \in Word, NEW x \in Word PROVE NewtonStep(a, x) \in Word
      <3>1. \A y \in Word, z \in Word : WrapMul(y, z) \in Word /\ WrapSub(2, y) \in Word
        BY <2>1, ModulusFacts DEF Word, WrapMul, WrapSub
      <3> QED
        BY <3>1 DEF NewtonStep
    <2> QED
      BY <2>2
  <1>2. \A a \in Word : ModInvOdd(a) \in Word
    BY <1>1 DEF ModInvOdd
  <1>3. InverseOp[i.op] \in Ops
    BY DEF Inst, InverseOp, Ops, UnaryOps, MemDstOps, MemSrcOps, BinaryOps, TernaryOps
  <1>4. i.k \in Word
    BY DEF Inst
  <1> DEFINE k == IF i.op = "mulc" THEN ModInvOdd(i.k) ELSE i.k
             o == InverseOp[i.op]
  <1>5. k \in Word
    BY <1>2, <1>4
  <1>6. Inverse(i) = [i EXCEPT !.op = o, !.k = k]
    BY DEF Inverse
  <1> HIDE DEF k, o
  <1>7. o \in Ops
    BY <1>3 DEF o
  <1> QED
    BY <1>5, <1>6, <1>7 DEF Inst

-----------------------------------------------------------------------------
(* The recursive functions of the model satisfy their equations. *)

ForwardLevel(d, run) ==
  [p \in Trees[d] |-> [w \in Works |->
     InOrder([k \in 1 .. Len(p) |-> [x \in Works |-> ForwardNode(x, p[k], run)]], w)]]

LEMMA ForwardIs ==
  ForwardTo = [d \in 0 .. MaxDepth |-> ForwardLevel(d, IF d = 0 THEN <<>> ELSE ForwardTo[d - 1])]
  <1> DEFINE L(t, m) == t = [d \in 0 .. m |-> ForwardLevel(d, IF d = 0 THEN <<>> ELSE t[d - 1])]
             P == {m \in 0 .. MaxDepth : \E t : L(t, m)}
  <1>1. 0 \in P
    <2> DEFINE t == [d \in 0 .. 0 |-> ForwardLevel(0, <<>>)]
    <2>1. t = [d \in 0 .. 0 |-> ForwardLevel(d, IF d = 0 THEN <<>> ELSE t[d - 1])]
      OBVIOUS
    <2>2. L(t, 0)
      BY <2>1
    <2>3. 0 \in 0 .. MaxDepth
      BY JournalAssumption
    <2> HIDE DEF t, L
    <2> QED
      BY <2>2, <2>3
  <1>2. ASSUME NEW m \in 1 .. MaxDepth, m - 1 \in P PROVE m \in P
    <2>1. PICK f : L(f, m - 1)
      BY <1>2
    <2>2. m \in Nat /\ m # 0 /\ m - 1 \in 0 .. m - 1 /\ \A d \in 0 .. m : d # m => d \in 0 .. m - 1
      BY JournalAssumption
    <2> DEFINE g == [d \in 0 .. m |-> IF d = m THEN ForwardLevel(m, f[m - 1]) ELSE f[d]]
    <2>4. ASSUME NEW d \in 0 .. m
          PROVE  g[d] = ForwardLevel(d, IF d = 0 THEN <<>> ELSE g[d - 1])
      <3>1. CASE d = m
        <4>1. d - 1 \in 0 .. m /\ d - 1 # m
          BY <2>2, <3>1
        <4>2. g[d - 1] = f[m - 1]
          BY <3>1, <4>1
        <4> QED
          BY <2>2, <3>1, <4>2
      <3>2. CASE d # m
        <4>1. d \in 0 .. m - 1 /\ (d # 0 => d - 1 \in 0 .. m /\ d - 1 # m)
          BY <2>2, <3>2
        <4>2. f[d] = ForwardLevel(d, IF d = 0 THEN <<>> ELSE f[d - 1])
          BY <2>1, <4>1
        <4>3. d # 0 => g[d - 1] = f[d - 1]
          BY <4>1
        <4> QED
          BY <3>2, <4>2, <4>3
      <3> QED
        BY <3>1, <3>2
    <2>5. g = [d \in 0 .. m |-> g[d]]
      OBVIOUS
    <2> HIDE DEF g
    <2>6. L(g, m)
      BY <2>4, <2>5
    <2> HIDE DEF L
    <2> QED
      BY <2>6
  <1>3. \A m \in 1 .. MaxDepth : m - 1 \in P => m \in P
    BY <1>2
  <1>4. \E t : L(t, MaxDepth)
    <2> HIDE DEF P, L
    <2>1. \A m \in 0 .. MaxDepth : m \in P
      BY <1>1, <1>3, UpTo, JournalAssumption
    <2>2. MaxDepth \in P
      BY <2>1, JournalAssumption
    <2> QED
      BY <2>2 DEF P
  <1>5. ForwardTo = CHOOSE t : L(t, MaxDepth)
    BY DEF ForwardTo, ForwardLevel
  <1> HIDE DEF L
  <1>6. L(ForwardTo, MaxDepth)
    BY <1>4, <1>5
  <1> QED
    BY <1>6 DEF L

ReverseLevel(checked, d, back) ==
  [p \in Trees[d] |-> [w \in Works |->
     InOrder([k \in 1 .. Len(p) |-> [x \in Works |->
                ReverseNode(x, p[Len(p) + 1 - k], checked, back)]], w)]]

LEMMA ReverseIs ==
  ASSUME NEW checked
  PROVE
  ReverseTo(checked) = [d \in 0 .. MaxDepth |-> ReverseLevel(checked, d, IF d = 0 THEN <<>> ELSE ReverseTo(checked)[d - 1])]
  <1> DEFINE L(t, m) == t = [d \in 0 .. m |-> ReverseLevel(checked, d, IF d = 0 THEN <<>> ELSE t[d - 1])]
             P == {m \in 0 .. MaxDepth : \E t : L(t, m)}
  <1>1. 0 \in P
    <2> DEFINE t == [d \in 0 .. 0 |-> ReverseLevel(checked, 0, <<>>)]
    <2>1. t = [d \in 0 .. 0 |-> ReverseLevel(checked, d, IF d = 0 THEN <<>> ELSE t[d - 1])]
      OBVIOUS
    <2>2. L(t, 0)
      BY <2>1
    <2>3. 0 \in 0 .. MaxDepth
      BY JournalAssumption
    <2> HIDE DEF t, L
    <2> QED
      BY <2>2, <2>3
  <1>2. ASSUME NEW m \in 1 .. MaxDepth, m - 1 \in P PROVE m \in P
    <2>1. PICK f : L(f, m - 1)
      BY <1>2
    <2>2. m \in Nat /\ m # 0 /\ m - 1 \in 0 .. m - 1 /\ \A d \in 0 .. m : d # m => d \in 0 .. m - 1
      BY JournalAssumption
    <2> DEFINE g == [d \in 0 .. m |-> IF d = m THEN ReverseLevel(checked, m, f[m - 1]) ELSE f[d]]
    <2>4. ASSUME NEW d \in 0 .. m
          PROVE  g[d] = ReverseLevel(checked, d, IF d = 0 THEN <<>> ELSE g[d - 1])
      <3>1. CASE d = m
        <4>1. d - 1 \in 0 .. m /\ d - 1 # m
          BY <2>2, <3>1
        <4>2. g[d - 1] = f[m - 1]
          BY <3>1, <4>1
        <4> QED
          BY <2>2, <3>1, <4>2
      <3>2. CASE d # m
        <4>1. d \in 0 .. m - 1 /\ (d # 0 => d - 1 \in 0 .. m /\ d - 1 # m)
          BY <2>2, <3>2
        <4>2. f[d] = ReverseLevel(checked, d, IF d = 0 THEN <<>> ELSE f[d - 1])
          BY <2>1, <4>1
        <4>3. d # 0 => g[d - 1] = f[d - 1]
          BY <4>1
        <4> QED
          BY <3>2, <4>2, <4>3
      <3> QED
        BY <3>1, <3>2
    <2>5. g = [d \in 0 .. m |-> g[d]]
      OBVIOUS
    <2> HIDE DEF g
    <2>6. L(g, m)
      BY <2>4, <2>5
    <2> HIDE DEF L
    <2> QED
      BY <2>6
  <1>3. \A m \in 1 .. MaxDepth : m - 1 \in P => m \in P
    BY <1>2
  <1>4. \E t : L(t, MaxDepth)
    <2> HIDE DEF P, L
    <2>1. \A m \in 0 .. MaxDepth : m \in P
      BY <1>1, <1>3, UpTo, JournalAssumption
    <2>2. MaxDepth \in P
      BY <2>1, JournalAssumption
    <2> QED
      BY <2>2 DEF P
  <1>5. ReverseTo(checked) = CHOOSE t : L(t, MaxDepth)
    BY DEF ReverseTo, ReverseLevel
  <1> HIDE DEF L
  <1>6. L(ReverseTo(checked), MaxDepth)
    BY <1>4, <1>5
  <1> QED
    BY <1>6 DEF L

StableNodes(d, bodies) ==
  {n \in Nodes({i \in Inst : Invertible(i)}, bodies) :
     /\ n.kind # "wz"
     /\ n.kind = "ifnz" => n.body \in Sparing(n.reg)[d - 1]}
StableLevel(d, bodies) == Seq(StableNodes(d, bodies))

LEMMA StableIs ==
  StableTrees = [d \in 0 .. MaxDepth |-> StableLevel(d, IF d = 0 THEN {} ELSE StableTrees[d - 1])]
  <1> DEFINE L(t, m) == t = [d \in 0 .. m |-> StableLevel(d, IF d = 0 THEN {} ELSE t[d - 1])]
             P == {m \in 0 .. MaxDepth : \E t : L(t, m)}
  <1>1. 0 \in P
    <2> DEFINE t == [d \in 0 .. 0 |-> StableLevel(0, {})]
    <2>1. t = [d \in 0 .. 0 |-> StableLevel(d, IF d = 0 THEN {} ELSE t[d - 1])]
      OBVIOUS
    <2>2. L(t, 0)
      BY <2>1
    <2>3. 0 \in 0 .. MaxDepth
      BY JournalAssumption
    <2> HIDE DEF t, L
    <2> QED
      BY <2>2, <2>3
  <1>2. ASSUME NEW m \in 1 .. MaxDepth, m - 1 \in P PROVE m \in P
    <2>1. PICK f : L(f, m - 1)
      BY <1>2
    <2>2. m \in Nat /\ m # 0 /\ m - 1 \in 0 .. m - 1 /\ \A d \in 0 .. m : d # m => d \in 0 .. m - 1
      BY JournalAssumption
    <2> DEFINE g == [d \in 0 .. m |-> IF d = m THEN StableLevel(m, f[m - 1]) ELSE f[d]]
    <2>4. ASSUME NEW d \in 0 .. m
          PROVE  g[d] = StableLevel(d, IF d = 0 THEN {} ELSE g[d - 1])
      <3>1. CASE d = m
        <4>1. d - 1 \in 0 .. m /\ d - 1 # m
          BY <2>2, <3>1
        <4>2. g[d - 1] = f[m - 1]
          BY <3>1, <4>1
        <4> QED
          BY <2>2, <3>1, <4>2
      <3>2. CASE d # m
        <4>1. d \in 0 .. m - 1 /\ (d # 0 => d - 1 \in 0 .. m /\ d - 1 # m)
          BY <2>2, <3>2
        <4>2. f[d] = StableLevel(d, IF d = 0 THEN {} ELSE f[d - 1])
          BY <2>1, <4>1
        <4>3. d # 0 => g[d - 1] = f[d - 1]
          BY <4>1
        <4> QED
          BY <3>2, <4>2, <4>3
      <3> QED
        BY <3>1, <3>2
    <2>5. g = [d \in 0 .. m |-> g[d]]
      OBVIOUS
    <2> HIDE DEF g
    <2>6. L(g, m)
      BY <2>4, <2>5
    <2> HIDE DEF L
    <2> QED
      BY <2>6
  <1>3. \A m \in 1 .. MaxDepth : m - 1 \in P => m \in P
    BY <1>2
  <1>4. \E t : L(t, MaxDepth)
    <2> HIDE DEF P, L
    <2>1. \A m \in 0 .. MaxDepth : m \in P
      BY <1>1, <1>3, UpTo, JournalAssumption
    <2>2. MaxDepth \in P
      BY <2>1, JournalAssumption
    <2> QED
      BY <2>2 DEF P
  <1>5. StableTrees = CHOOSE t : L(t, MaxDepth)
    BY DEF StableTrees, StableLevel, StableNodes
  <1> HIDE DEF L
  <1>6. L(StableTrees, MaxDepth)
    BY <1>4, <1>5
  <1> QED
    BY <1>6 DEF L

-----------------------------------------------------------------------------
(* Steps that are taken one after the other, and what they keep.              *)

Whole(steps)         == [w \in Works |-> InOrder(steps, w)]
Backwards(steps, n)  == [k \in 1 .. n |-> steps[n + 1 - k]]

LEMMA WholeTyped ==
  ASSUME NEW n \in Nat, NEW steps \in [1 .. n -> Step]
  PROVE  Whole(steps) \in Step
  <1>1. ASSUME NEW w \in Works PROVE InOrder(steps, w) \in Works
    <2>1. Goes(n, w, steps)
      BY OrderIs
    <2>2. PICK g : Through(g, n, w, steps) /\ InOrder(steps, w) = g[n]
      BY <2>1 DEF Goes
    <2> QED
      BY <2>2 DEF Through, Chain
  <1> QED
    BY <1>1 DEF Whole, Step

(* One journal is the beginning of another. *)
Before(a, b) == Len(a) <= Len(b) /\ \A i \in 1 .. Len(a) : b[i] = a[i]

LEMMA BeforeTrans ==
  ASSUME NEW a \in Seq(Nat), NEW b \in Seq(Nat), NEW c \in Seq(Nat), Before(a, b), Before(b, c)
  PROVE  Before(a, c)
  <1>1. Len(a) \in Nat /\ Len(b) \in Nat /\ Len(c) \in Nat
    OBVIOUS
  <1>2. Len(a) <= Len(b) /\ Len(b) <= Len(c)
    BY DEF Before
  <1>3. \A i \in 1 .. Len(a) : b[i] = a[i] /\ i \in 1 .. Len(b)
    BY <1>1, <1>2 DEF Before
  <1>4. \A i \in 1 .. Len(b) : c[i] = b[i]
    BY DEF Before
  <1> QED
    BY <1>1, <1>2, <1>3, <1>4 DEF Before

LEMMA BeforeSelf ==
  ASSUME NEW a \in Seq(Nat)
  PROVE  Before(a, a) /\ \A n \in Nat : Before(a, Append(a, n))
  BY DEF Before

(* A call that failed does no more; a run only adds to the journal; a        *)
(* reversal of what a run wrote takes away just that, whatever the state it   *)
(* finds; and a reversal from where a run ended, if it is sure to succeed or  *)
(* does, is back where the run began.                                        *)
Inert(f)     == \A w \in Works : ~Ok(w) => f[w] = w
Grows(f)    == \A w \in Works : Before(w.j, f[w].j)
Takes(y, j) == Before(j, y.j) /\ (Ok(y) => y.j = j)
Pops(f, b)  ==
  \A w \in Works, st \in State : Ok(f[w]) => Takes(b[Work(st, f[w].j)], w.j)
Inverts(f, b, sure) ==
  \A w \in Works : Ok(f[w]) /\ (sure \/ Ok(b[f[w]])) => b[f[w]] = w

(* No step of a run that ends well has failed. *)
LEMMA ThroughOk ==
  ASSUME NEW n \in Nat, NEW w \in Works, NEW fs \in [1 .. n -> Step], NEW g,
         Through(g, n, w, fs), \A k \in 1 .. n : Inert(fs[k])
  PROVE  /\ Ok(g[n]) => \A k \in 0 .. n : Ok(g[k])
         /\ ~Ok(w) => g[n] = w
  <1>1. /\ g \in [0 .. n -> Works] /\ g[0] = w
        /\ \A k \in 1 .. n : g[k] = fs[k][g[k - 1]]
    BY DEF Through, Chain
  <1>2. ASSUME NEW k \in 1 .. n, ~Ok(g[k - 1]) PROVE g[k] = g[k - 1]
    <2>1. g[k - 1] \in Works
      BY <1>1
    <2> QED
      BY <1>1, <1>2, <2>1 DEF Inert
  <1>3. ASSUME Ok(g[n]) PROVE \A k \in 0 .. n : Ok(g[k])
    <2> DEFINE P == {j \in 0 .. n : Ok(g[n - j])}
    <2>1. 0 \in P
      BY <1>3
    <2>2. ASSUME NEW j \in 1 .. n, j - 1 \in P PROVE j \in P
      <3>1. n - (j - 1) \in 1 .. n /\ n - (j - 1) - 1 = n - j
        OBVIOUS
      <3>2. Ok(g[n - (j - 1)])
        BY <2>2
      <3>3. Ok(g[n - j])
        BY <1>2, <3>1, <3>2
      <3> QED
        BY <3>3
    <2>3. \A j \in 1 .. n : j - 1 \in P => j \in P
      BY <2>2
    <2> HIDE DEF P
    <2>4. \A j \in 0 .. n : j \in P
      BY <2>1, <2>3, UpTo
    <2>5. \A j \in 0 .. n : Ok(g[n - j])
      BY <2>4 DEF P
    <2>6. \A k \in 0 .. n : n - k \in 0 .. n /\ n - (n - k) = k
      OBVIOUS
    <2> QED
      BY <2>5, <2>6
  <1>4. ASSUME ~Ok(w) PROVE g[n] = w
    <2> DEFINE P == {k \in 0 .. n : g[k] = w}
    <2>1. 0 \in P
      BY <1>1
    <2>2. \A k \in 1 .. n : k - 1 \in P => k \in P
      BY <1>2, <1>4
    <2> HIDE DEF P
    <2>3. \A k \in 0 .. n : k \in P
      BY <2>1, <2>2, UpTo
    <2> QED
      BY <2>3 DEF P
  <1> QED
    BY <1>3, <1>4

LEMMA WholeInert ==
  ASSUME NEW n \in Nat, NEW fs \in [1 .. n -> Step], \A k \in 1 .. n : Inert(fs[k])
  PROVE  Inert(Whole(fs))
  <1>1. ASSUME NEW w \in Works, ~Ok(w) PROVE InOrder(fs, w) = w
    <2>1. Goes(n, w, fs)
      BY OrderIs
    <2>2. PICK g : Through(g, n, w, fs) /\ InOrder(fs, w) = g[n]
      BY <2>1 DEF Goes
    <2>3. g[n] = w
      BY <1>1, <2>2, ThroughOk
    <2> QED
      BY <2>2, <2>3
  <1> QED
    BY <1>1 DEF Inert, Whole

(* Along a run the journal grows. *)
LEMMA ThroughGrows ==
  ASSUME NEW n \in Nat, NEW w \in Works, NEW fs \in [1 .. n -> Step], NEW g,
         Through(g, n, w, fs), \A k \in 1 .. n : Grows(fs[k])
  PROVE  \A k \in 0 .. n : Before(w.j, g[k].j)
  <1>1. /\ g \in [0 .. n -> Works] /\ g[0] = w
        /\ \A k \in 1 .. n : g[k] = fs[k][g[k - 1]]
    BY DEF Through, Chain
  <1> DEFINE P == {k \in 0 .. n : Before(w.j, g[k].j)}
  <1>2. 0 \in P
    BY <1>1, BeforeSelf, WorkFacts
  <1>3. ASSUME NEW k \in 1 .. n, k - 1 \in P PROVE k \in P
    <2>1. g[k - 1] \in Works /\ g[k] \in Works
      BY <1>1
    <2>2. Before(g[k - 1].j, g[k].j)
      BY <1>1, <2>1 DEF Grows
    <2>3. Before(w.j, g[k - 1].j)
      BY <1>3
    <2>4. Before(w.j, g[k].j)
      BY <2>1, <2>2, <2>3, BeforeTrans, WorkFacts
    <2> QED
      BY <2>4
  <1>4. \A k \in 1 .. n : k - 1 \in P => k \in P
    BY <1>3
  <1> HIDE DEF P
  <1>5. \A k \in 0 .. n : k \in P
    BY <1>2, <1>4, UpTo
  <1> QED
    BY <1>5 DEF P

LEMMA WholeGrows ==
  ASSUME NEW n \in Nat, NEW fs \in [1 .. n -> Step], \A k \in 1 .. n : Grows(fs[k])
  PROVE  Grows(Whole(fs))
  <1>1. ASSUME NEW w \in Works PROVE Before(w.j, InOrder(fs, w).j)
    <2>1. Goes(n, w, fs)
      BY OrderIs
    <2>2. PICK g : Through(g, n, w, fs) /\ InOrder(fs, w) = g[n]
      BY <2>1 DEF Goes
    <2>3. Before(w.j, g[n].j)
      BY <2>2, ThroughGrows
    <2> QED
      BY <2>2, <2>3
  <1> QED
    BY <1>1 DEF Grows, Whole

LEMMA BackwardsTyped ==
  ASSUME NEW n \in Nat, NEW bs \in [1 .. n -> Step]
  PROVE  /\ Backwards(bs, n) \in [1 .. n -> Step]
         /\ \A k \in 1 .. n : Backwards(bs, n)[k] = bs[n + 1 - k]
  <1>1. \A k \in 1 .. n : n + 1 - k \in 1 .. n
    OBVIOUS
  <1> QED
    BY <1>1 DEF Backwards

LEMMA WholePops ==
  ASSUME NEW n \in Nat, NEW fs \in [1 .. n -> Step], NEW bs \in [1 .. n -> Step],
         \A k \in 1 .. n : Inert(fs[k]) /\ Grows(fs[k]),
         \A k \in 1 .. n : Inert(bs[k]) /\ Pops(fs[k], bs[k])
  PROVE  Pops(Whole(fs), Whole(Backwards(bs, n)))
  <1>1. PICK cs \in [1 .. n -> Step] : cs = Backwards(bs, n) /\ \A k \in 1 .. n : cs[k] = bs[n + 1 - k]
    BY BackwardsTyped
  <1>2. ASSUME NEW w \in Works, NEW st \in State, Ok(InOrder(fs, w))
        PROVE  Takes(InOrder(cs, Work(st, InOrder(fs, w).j)), w.j)
    <2>1. PICK g : Through(g, n, w, fs) /\ InOrder(fs, w) = g[n]
      <3>1. Goes(n, w, fs)
        BY OrderIs
      <3> QED
        BY <3>1 DEF Goes
    <2>2. /\ g \in [0 .. n -> Works] /\ g[0] = w
          /\ \A k \in 1 .. n : g[k] = fs[k][g[k - 1]]
      BY <2>1 DEF Through, Chain
    <2>3. PICK v \in Works : v = Work(st, g[n].j)
      <3>1. g[n] \in Works
        BY <2>2
      <3>2. g[n].j \in Seq(Nat) /\ "none" \in Faults
        BY <3>1, WorkFacts DEF Faults
      <3> QED
        BY <3>2, WorkMade DEF Work
    <2>4. PICK h : Through(h, n, v, cs) /\ InOrder(cs, v) = h[n]
      <3>1. Goes(n, v, cs)
        BY OrderIs
      <3> QED
        BY <3>1 DEF Goes
    <2>5. /\ h \in [0 .. n -> Works] /\ h[0] = v
          /\ \A k \in 1 .. n : h[k] = cs[k][h[k - 1]]
      BY <2>4 DEF Through, Chain
    <2>6. \A k \in 0 .. n : Ok(g[k]) /\ Before(w.j, g[k].j)
      <3>1. \A k \in 0 .. n : Ok(g[k])
        BY <1>2, <2>1, ThroughOk
      <3>2. \A k \in 0 .. n : Before(w.j, g[k].j)
        BY <2>1, ThroughGrows
      <3> QED
        BY <3>1, <3>2
    <2> DEFINE P == {k \in 0 .. n : Before(w.j, h[k].j) /\ (Ok(h[k]) => h[k].j = g[n - k].j)}
    <2>7. 0 \in P
      <3>1. h[0].j = g[n].j /\ n - 0 = n
        BY <2>3, <2>5 DEF Work
      <3>2. Before(w.j, g[n].j)
        BY <2>6
      <3> QED
        BY <3>1, <3>2
    <2>8. ASSUME NEW k \in 1 .. n, k - 1 \in P PROVE k \in P
      <3>1. PICK i \in 1 .. n : i = n + 1 - k /\ i = n - (k - 1) /\ i - 1 = n - k
        OBVIOUS
      <3>2. PICK x \in Works : x = g[i - 1]
        <4>1. i - 1 \in 0 .. n
          OBVIOUS
        <4> QED
          BY <2>2, <4>1
      <3>3. PICK y \in Works : y = h[k - 1]
        <4>1. k - 1 \in 0 .. n
          OBVIOUS
        <4> QED
          BY <2>5, <4>1
      <3>4. g[i] = fs[i][x] /\ Ok(fs[i][x]) /\ Before(w.j, x.j)
        <4>1. i - 1 \in 0 .. n /\ i \in 0 .. n
          OBVIOUS
        <4> QED
          BY <2>2, <2>6, <3>2, <4>1
      <3>5. h[k] = bs[i][y]
        BY <1>1, <2>5, <3>1, <3>3
      <3>6. Before(w.j, y.j) /\ (Ok(y) => y.j = g[i].j)
        BY <2>8, <3>1, <3>3
      <3>7. CASE ~Ok(y)
        <4>1. h[k] = y
          BY <3>5, <3>7 DEF Inert
        <4> QED
          BY <3>6, <3>7, <4>1
      <3>8. CASE Ok(y)
        <4>1. y.s \in State /\ y = Work(y.s, g[i].j)
          BY <3>6, <3>8, WorkFacts DEF Work, Ok
        <4>2. Takes(bs[i][Work(y.s, fs[i][x].j)], x.j)
          BY <3>4, <4>1 DEF Pops
        <4>3. Takes(h[k], x.j)
          BY <3>4, <3>5, <4>1, <4>2
        <4>4. h[k] \in Works
          BY <2>5
        <4>5. Before(x.j, h[k].j) /\ (Ok(h[k]) => h[k].j = x.j)
          BY <4>3 DEF Takes
        <4>6. Before(w.j, h[k].j)
          BY <3>4, <4>4, <4>5, BeforeTrans, WorkFacts
        <4> QED
          BY <3>1, <3>2, <4>5, <4>6
      <3> QED
        BY <3>7, <3>8
    <2>9. \A k \in 1 .. n : k - 1 \in P => k \in P
      BY <2>8
    <2> HIDE DEF P
    <2>10. \A k \in 0 .. n : k \in P
      BY <2>7, <2>9, UpTo
    <2>11. n \in P /\ n - n = 0
      BY <2>10
    <2>12. Takes(h[n], w.j)
      BY <2>2, <2>11 DEF P, Takes
    <2> QED
      BY <2>1, <2>3, <2>4, <2>12
  <1>3. ASSUME NEW w \in Works, NEW st \in State, Ok(Whole(fs)[w])
        PROVE  Takes(Whole(cs)[Work(st, Whole(fs)[w].j)], w.j)
    <2>1. Whole(fs)[w] = InOrder(fs, w)
      BY DEF Whole
    <2>2. Whole(fs)[w] \in Works
      BY WholeTyped DEF Step
    <2>3. Work(st, Whole(fs)[w].j) \in Works
      BY <2>2, WorkFacts, WorkMade DEF Work, Faults
    <2> QED
      BY <1>2, <1>3, <2>1, <2>3 DEF Whole
  <1> QED
    BY <1>1, <1>3 DEF Pops

LEMMA WholeInverts ==
  ASSUME NEW n \in Nat, NEW fs \in [1 .. n -> Step], NEW bs \in [1 .. n -> Step], NEW sure \in BOOLEAN,
         \A k \in 1 .. n : Inert(fs[k]) /\ Inert(bs[k]),
         \A k \in 1 .. n : Inverts(fs[k], bs[k], sure)
  PROVE  Inverts(Whole(fs), Whole(Backwards(bs, n)), sure)
  <1>1. PICK cs \in [1 .. n -> Step] : cs = Backwards(bs, n) /\ \A k \in 1 .. n : cs[k] = bs[n + 1 - k]
    BY BackwardsTyped
  <1>2. ASSUME NEW w \in Works, NEW v \in Works, v = InOrder(fs, w), Ok(v),
               sure \/ Ok(InOrder(cs, v))
        PROVE  InOrder(cs, v) = w
    <2>1. PICK g : Through(g, n, w, fs) /\ InOrder(fs, w) = g[n]
      <3>1. Goes(n, w, fs)
        BY OrderIs
      <3> QED
        BY <3>1 DEF Goes
    <2>2. /\ g \in [0 .. n -> Works] /\ g[0] = w
          /\ \A k \in 1 .. n : g[k] = fs[k][g[k - 1]]
      BY <2>1 DEF Through, Chain
    <2>3. PICK h : Through(h, n, v, cs) /\ InOrder(cs, v) = h[n]
      <3>1. Goes(n, v, cs)
        BY OrderIs
      <3> QED
        BY <3>1 DEF Goes
    <2>4. /\ h \in [0 .. n -> Works] /\ h[0] = v
          /\ \A k \in 1 .. n : h[k] = cs[k][h[k - 1]]
      BY <2>3 DEF Through, Chain
    <2>5. \A k \in 0 .. n : Ok(g[k])
      BY <1>2, <2>1, ThroughOk
    <2>6. \A k \in 1 .. n : Inert(cs[k])
      <3>1. \A k \in 1 .. n : n + 1 - k \in 1 .. n
        OBVIOUS
      <3> QED
        BY <1>1, <3>1
    <2>7. \A k \in 0 .. n : sure \/ Ok(h[k])
      BY <1>2, <2>3, <2>6, ThroughOk
    <2> DEFINE P == {k \in 0 .. n : h[k] = g[n - k]}
    <2>8. 0 \in P
      BY <1>2, <2>1, <2>4
    <2>9. ASSUME NEW k \in 1 .. n, k - 1 \in P PROVE k \in P
      <3>1. PICK i \in 1 .. n : i = n + 1 - k /\ i = n - (k - 1) /\ i - 1 = n - k
        OBVIOUS
      <3>2. PICK x \in Works : x = g[i - 1]
        <4>1. i - 1 \in 0 .. n
          OBVIOUS
        <4> QED
          BY <2>2, <4>1
      <3>3. g[i] = fs[i][x] /\ Ok(fs[i][x])
        <4>1. i \in 0 .. n
          OBVIOUS
        <4> QED
          BY <2>2, <2>5, <3>2, <4>1
      <3>4. h[k - 1] = fs[i][x]
        BY <2>9, <3>1, <3>3
      <3>5. h[k] = bs[i][fs[i][x]]
        BY <1>1, <2>4, <3>1, <3>4
      <3>6. sure \/ Ok(bs[i][fs[i][x]])
        BY <2>7, <3>5
      <3>7. bs[i][fs[i][x]] = x
        BY <3>3, <3>6 DEF Inverts
      <3> QED
        BY <3>1, <3>2, <3>5, <3>7
    <2>10. \A k \in 1 .. n : k - 1 \in P => k \in P
      BY <2>9
    <2> HIDE DEF P
    <2>11. \A k \in 0 .. n : k \in P
      BY <2>8, <2>10, UpTo
    <2>12. n \in P /\ n - n = 0
      BY <2>11
    <2>13. h[n] = w
      BY <2>2, <2>12 DEF P
    <2> QED
      BY <2>3, <2>13
  <1>3. ASSUME NEW w \in Works, Ok(Whole(fs)[w]), sure \/ Ok(Whole(cs)[Whole(fs)[w]])
        PROVE  Whole(cs)[Whole(fs)[w]] = w
    <2>1. PICK v \in Works : v = InOrder(fs, w) /\ v = Whole(fs)[w]
      <3>1. Whole(fs)[w] \in Works
        BY WholeTyped DEF Step
      <3> QED
        BY <3>1 DEF Whole
    <2>2. Whole(cs)[v] = InOrder(cs, v)
      BY DEF Whole
    <2>3. Ok(v) /\ (sure \/ Ok(InOrder(cs, v)))
      BY <1>3, <2>1, <2>2
    <2>4. InOrder(cs, v) = w
      BY <1>2, <2>1, <2>3
    <2> QED
      BY <2>1, <2>2, <2>4
  <1> QED
    BY <1>1, <1>3 DEF Inverts

-----------------------------------------------------------------------------
(* One node forward, and the same node backward.                              *)

ForwardStep(node, run)        == [x \in Works |-> ForwardNode(x, node, run)]
BackStep(node, checked, back) == [x \in Works |-> ReverseNode(x, node, checked, back)]

Both(f, b) == f \in Step /\ b \in Step /\ Inert(f) /\ Inert(b) /\ Grows(f) /\ Pops(f, b)
Gone(w, f, n) == Whole(Copies(n, f))[w]

LEMMA CopiesAre ==
  ASSUME NEW n \in Nat, NEW f \in Step
  PROVE  /\ Copies(n, f) \in [1 .. n -> Step] /\ \A k \in 1 .. n : Copies(n, f)[k] = f
         /\ Backwards(Copies(n, f), n) = Copies(n, f)
         /\ Whole(Copies(n, f)) \in Step
         /\ \A w \in Works : Gone(w, f, n) \in Works /\ InOrder(Copies(n, f), w) = Gone(w, f, n)
  <1>1. Copies(n, f) \in [1 .. n -> Step] /\ \A k \in 1 .. n : Copies(n, f)[k] = f
    BY DEF Copies
  <1>2. Backwards(Copies(n, f), n) = Copies(n, f)
    <2>1. \A k \in 1 .. n : n + 1 - k \in 1 .. n
      OBVIOUS
    <2> QED
      BY <2>1 DEF Copies, Backwards
  <1>3. PICK fs \in [1 .. n -> Step] : fs = Copies(n, f)
    BY <1>1
  <1>4. Whole(fs) \in Step
    BY WholeTyped
  <1>5. \A w \in Works : Whole(fs)[w] \in Works /\ InOrder(fs, w) = Whole(fs)[w]
    BY <1>4 DEF Step, Whole
  <1> QED
    BY <1>1, <1>2, <1>3, <1>4, <1>5 DEF Gone

LEMMA FewCopies ==
  ASSUME NEW f \in Step, NEW w \in Works
  PROVE  Gone(w, f, 0) = w /\ Gone(w, f, 1) = f[w]
  <1>1. ASSUME NEW n \in {0, 1} PROVE Gone(w, f, n) = IF n = 0 THEN w ELSE f[w]
    <2>1. PICK fs \in [1 .. n -> Step] : fs = Copies(n, f) /\ \A k \in 1 .. n : fs[k] = f
      BY CopiesAre
    <2>2. PICK g : Through(g, n, w, fs) /\ InOrder(fs, w) = g[n]
      <3>1. Goes(n, w, fs)
        BY OrderIs
      <3> QED
        BY <3>1 DEF Goes
    <2>3. g[0] = w /\ \A k \in 1 .. n : g[k] = f[g[k - 1]]
      BY <2>1, <2>2 DEF Through, Chain
    <2>4. g[n] = IF n = 0 THEN w ELSE f[w]
      <3>1. CASE n = 0
        BY <2>3, <3>1
      <3>2. CASE n = 1
        <4>1. 1 \in 1 .. n /\ 1 - 1 = 0
          BY <3>2
        <4> QED
          BY <2>3, <3>2, <4>1
      <3> QED
        BY <3>1, <3>2
    <2> QED
      BY <2>1, <2>2, <2>4, CopiesAre
  <1> QED
    BY <1>1

LEMMA CopiesBoth ==
  ASSUME NEW n \in Nat, NEW f, NEW b, Both(f, b)
  PROVE  Both(Whole(Copies(n, f)), Whole(Copies(n, b)))
  <1>1. f \in Step /\ b \in Step /\ Inert(f) /\ Inert(b) /\ Grows(f) /\ Pops(f, b)
    BY DEF Both
  <1>2. PICK fs \in [1 .. n -> Step] : fs = Copies(n, f) /\ \A k \in 1 .. n : fs[k] = f
    BY <1>1, CopiesAre
  <1>3. PICK bs \in [1 .. n -> Step] :
          bs = Copies(n, b) /\ Backwards(bs, n) = bs /\ \A k \in 1 .. n : bs[k] = b
    BY <1>1, CopiesAre
  <1>4. \A k \in 1 .. n : Inert(fs[k]) /\ Grows(fs[k])
    BY <1>1, <1>2
  <1>5. \A k \in 1 .. n : Inert(bs[k]) /\ Pops(fs[k], bs[k])
    BY <1>1, <1>2, <1>3
  <1>6. Inert(Whole(fs)) /\ Inert(Whole(bs))
    BY <1>4, <1>5, WholeInert
  <1>7. Grows(Whole(fs))
    BY <1>4, WholeGrows
  <1>8. Pops(Whole(fs), Whole(bs))
    BY <1>3, <1>4, <1>5, WholePops
  <1>9. Whole(fs) \in Step /\ Whole(bs) \in Step
    BY WholeTyped
  <1> QED
    BY <1>2, <1>3, <1>6, <1>7, <1>8, <1>9 DEF Both

LEMMA CopiesInvert ==
  ASSUME NEW n \in Nat, NEW f, NEW b, NEW sure \in BOOLEAN, Both(f, b), Inverts(f, b, sure)
  PROVE  Inverts(Whole(Copies(n, f)), Whole(Copies(n, b)), sure)
  <1>1. f \in Step /\ b \in Step /\ Inert(f) /\ Inert(b)
    BY DEF Both
  <1>2. PICK fs \in [1 .. n -> Step] : fs = Copies(n, f) /\ \A k \in 1 .. n : fs[k] = f
    BY <1>1, CopiesAre
  <1>3. PICK bs \in [1 .. n -> Step] :
          bs = Copies(n, b) /\ Backwards(bs, n) = bs /\ \A k \in 1 .. n : bs[k] = b
    BY <1>1, CopiesAre
  <1>4. \A k \in 1 .. n : Inert(fs[k]) /\ Inert(bs[k])
    BY <1>1, <1>2, <1>3
  <1>5. \A k \in 1 .. n : Inverts(fs[k], bs[k], sure)
    BY <1>2, <1>3
  <1>6. Inverts(Whole(fs), Whole(bs), sure)
    BY <1>3, <1>4, <1>5, WholeInverts
  <1> QED
    BY <1>2, <1>3, <1>6

(* A loop ends, at the latest at the limit. *)
LEMMA LoopEnds ==
  ASSUME NEW w \in Works, NEW node, NEW body \in Step
  PROVE  /\ Turns(w, node, body) \in 0 .. MaxIters
         /\ Halts(Gone(w, body, Turns(w, node, body)), node, Turns(w, node, body))
  <1> DEFINE H(k) == Halts(InOrder(Copies(k, body), w), node, k)
             T == {k \in 0 .. MaxIters : H(k)}
  <1>1. MaxIters \in T
    BY JournalAssumption DEF Halts
  <1>2. T \subseteq Nat
    BY JournalAssumption
  <1>3. PICK m \in T : \A k \in T : m <= k
    <2> HIDE DEF T
    <2> QED
      BY <1>1, <1>2, LeastNat
  <1> HIDE DEF H
  <1>4. m \in 0 .. MaxIters /\ m \in Nat /\ H(m)
    BY <1>2, <1>3
  <1>5. \A j \in 0 .. m - 1 : ~H(j)
    BY <1>3, <1>4, JournalAssumption
  <1>6. Turns(w, node, body) = CHOOSE k \in 0 .. MaxIters : H(k) /\ \A j \in 0 .. k - 1 : ~H(j)
    BY DEF Turns, H
  <1>7. PICK n \in 0 .. MaxIters : n = Turns(w, node, body) /\ H(n)
    BY <1>4, <1>5, <1>6
  <1>8. n \in Nat
    BY <1>7, JournalAssumption
  <1> QED
    BY <1>7, <1>8, CopiesAre DEF H

(* A block that decides runs its body some number of times and, if all goes   *)
(* well, writes that number.                                                 *)
Writes(v, x, n) ==
  \/ ~Ok(x) /\ v = x
  \/ Ok(x) /\ v = Fail(x, "limit")
  \/ Ok(x) /\ v = Push(x, n)
Decides(v, w, node, f) ==
  \E n \in Nat : /\ Writes(v, Gone(w, f, n), n)
                 /\ node.kind = "ifnz" => n = IF Condition(w, node) THEN 1 ELSE 0

LEMMA ForwardDecides ==
  ASSUME NEW node, node.kind \in {"ifnz", "wz"}, NEW run, run[node.body] \in Step,
         NEW w \in Works, Ok(w)
  PROVE  Decides(ForwardNode(w, node, run), w, node, run[node.body])
  <1>1. PICK f \in Step : f = run[node.body]
    OBVIOUS
  <1>2. CASE node.kind = "ifnz"
    <2>1. ForwardNode(w, node, run) = ForwardBranch(w, node, f)
      BY <1>1, <1>2 DEF ForwardNode
    <2>2. CASE Condition(w, node)
      <3>1. Gone(w, f, 1) = f[w]
        BY FewCopies
      <3>2. Writes(ForwardBranch(w, node, f), f[w], 1)
        BY <2>2 DEF ForwardBranch, Writes
      <3> QED
        BY <1>1, <2>1, <2>2, <3>1, <3>2 DEF Decides
    <2>3. CASE ~Condition(w, node)
      <3>1. Gone(w, f, 0) = w
        BY FewCopies
      <3>2. Writes(ForwardBranch(w, node, f), w, 0)
        BY <2>3 DEF ForwardBranch, Writes
      <3> QED
        BY <1>1, <2>1, <2>3, <3>1, <3>2 DEF Decides
    <2> QED
      BY <2>2, <2>3
  <1>3. CASE node.kind = "wz"
    <2>1. ForwardNode(w, node, run) = ForwardLoop(w, node, f)
      BY <1>1, <1>3 DEF ForwardNode
    <2>2. PICK n \in Nat : n = Turns(w, node, f)
      BY LoopEnds, JournalAssumption
    <2>3. InOrder(Copies(n, f), w) = Gone(w, f, n)
      BY CopiesAre
    <2>4. Writes(ForwardLoop(w, node, f), Gone(w, f, n), n)
      BY <2>2, <2>3 DEF ForwardLoop, Writes
    <2> QED
      BY <1>1, <1>3, <2>1, <2>4 DEF Decides
  <1> QED
    BY <1>2, <1>3

LEMMA CheckFacts ==
  ASSUME NEW w \in Works, NEW node, NEW flag, NEW checked
  PROVE  /\ CheckFlag(w, node, flag, checked) \in Works
         /\ CheckFlag(w, node, flag, checked).j = w.j
         /\ CheckFlag(w, node, flag, checked).s = w.s
         /\ Ok(CheckFlag(w, node, flag, checked)) => CheckFlag(w, node, flag, checked) = w
         /\ checked /\ Ok(CheckFlag(w, node, flag, checked)) => flag = IF Condition(w, node) THEN 1 ELSE 0
         /\ ~checked \/ flag = (IF Condition(w, node) THEN 1 ELSE 0) => CheckFlag(w, node, flag, checked) = w
  <1>1. "diverged" \in Faults /\ "diverged" # "none"
    BY DEF Faults
  <1>2. Fail(w, "diverged") = [s |-> w.s, j |-> w.j, fault |-> "diverged"]
    BY <1>1, WorkFacts
  <1>3. Fail(w, "diverged") \in Works
    BY <1>1, <1>2, WorkFacts, WorkMade
  <1>4. Fail(w, "diverged").s = w.s /\ Fail(w, "diverged").j = w.j /\ ~Ok(Fail(w, "diverged"))
    BY <1>1, <1>2 DEF Ok
  <1> DEFINE bad == checked /\ Ok(w) /\ flag # (IF Condition(w, node) THEN 1 ELSE 0)
  <1>5. CheckFlag(w, node, flag, checked) = IF bad THEN Fail(w, "diverged") ELSE w
    BY DEF CheckFlag
  <1>6. CASE bad
    BY <1>3, <1>4, <1>5, <1>6
  <1>7. CASE ~bad
    BY <1>5, <1>7
  <1> QED
    BY <1>6, <1>7

(* What a block wrote is what its reversal reads. *)
LEMMA ReverseReads ==
  ASSUME NEW node, node.kind \in {"ifnz", "wz"}, NEW checked, NEW back, back[node.body] \in Step,
         NEW x \in Works, Ok(x), NEW n \in Nat, node.kind = "ifnz" => n \in {0, 1}
  PROVE  ReverseNode(Push(x, n), node, checked, back) =
           IF node.kind = "ifnz" THEN CheckFlag(Gone(x, back[node.body], n), node, n, checked)
                                 ELSE Gone(x, back[node.body], n)
  <1>1. PICK v \in Works : v = Push(x, n)
    BY PushFacts
  <1>2. v.j # <<>> /\ Entry(v) = n /\ Popped(v) = x /\ Ok(v)
    BY <1>1, PopPush, PushFacts DEF Ok
  <1>3. TakeBack(x, back[node.body], n) = Gone(x, back[node.body], n)
    BY CopiesAre DEF TakeBack
  <1>4. CASE node.kind = "ifnz"
    <2>1. (IF n # 0 THEN 1 ELSE 0) = n
      BY <1>4
    <2>2. ReverseNode(v, node, checked, back) =
            CheckFlag(TakeBack(Popped(v), back[node.body], IF Entry(v) # 0 THEN 1 ELSE 0),
                   node, Entry(v), checked)
      BY <1>2, <1>4 DEF ReverseNode
    <2> QED
      BY <1>1, <1>2, <1>3, <1>4, <2>1, <2>2
  <1>5. CASE node.kind = "wz"
    <2>1. ReverseNode(v, node, checked, back) = TakeBack(Popped(v), back[node.body], Entry(v))
      BY <1>2, <1>5 DEF ReverseNode
    <2> QED
      BY <1>1, <1>2, <1>3, <1>5, <2>1
  <1> QED
    BY <1>4, <1>5
LEMMA WritesFacts ==
  ASSUME NEW x \in Works, NEW n \in Nat, NEW v, Writes(v, x, n)
  PROVE  /\ v \in Works /\ Before(x.j, v.j)
         /\ Ok(v) => Ok(x) /\ v = Push(x, n)
  <1>1. "limit" \in Faults /\ "limit" # "none"
    BY DEF Faults
  <1>2. CASE ~Ok(x) /\ v = x
    BY <1>2, BeforeSelf, WorkFacts
  <1>3. CASE Ok(x) /\ v = Fail(x, "limit")
    <2>1. v = [s |-> x.s, j |-> x.j, fault |-> "limit"]
      BY <1>1, <1>3, WorkFacts
    <2>2. v \in Works /\ v.j = x.j /\ ~Ok(v)
      BY <1>1, <2>1, WorkFacts, WorkMade DEF Ok
    <2> QED
      BY <2>2, BeforeSelf, WorkFacts
  <1>4. CASE Ok(x) /\ v = Push(x, n)
    <2>1. v \in Works /\ v.j = Append(x.j, n)
      BY <1>4, PushFacts
    <2>2. x.j \in Seq(Nat)
      BY WorkFacts
    <2>3. Before(x.j, v.j)
      BY <2>1, <2>2, BeforeSelf
    <2> QED
      BY <1>4, <2>1, <2>3
  <1> QED
    BY <1>2, <1>3, <1>4 DEF Writes

LEMMA ReverseLeafFacts ==
  ASSUME NEW w \in Works, NEW i \in Inst, NEW checked
  PROVE  ReverseLeaf(w, i, checked) \in Works /\ ReverseLeaf(w, i, checked).j = w.j
  <1>1. "boundary" \in Faults
    BY DEF Faults
  <1>2. Fail(w, "boundary") \in Works /\ Fail(w, "boundary").j = w.j
    BY <1>1, WorkFacts, WorkMade
  <1>3. RunLeaf(w, Inverse(i)) \in Works /\ RunLeaf(w, Inverse(i)).j = w.j
    BY InverseTyped, LeafFacts
  <1> QED
    BY <1>2, <1>3 DEF ReverseLeaf

LEMMA ForwardTyped ==
  ASSUME NEW bodies, NEW node \in Nodes(Inst, bodies), NEW run, \A b \in bodies : run[b] \in Step,
         NEW w \in Works
  PROVE  ForwardNode(w, node, run) \in Works /\ (~Ok(w) => ForwardNode(w, node, run) = w)
  <1>1. ~Ok(w) => ForwardNode(w, node, run) = w
    BY DEF ForwardNode
  <1>2. CASE Ok(w) /\ node.kind = "inst"
    <2>1. ForwardNode(w, node, run) = RunLeaf(w, node.inst)
      BY <1>2 DEF ForwardNode
    <2> QED
      BY <1>2, <2>1, NodeIs, LeafFacts
  <1>3. CASE Ok(w) /\ node.kind = "rep"
    <2>1. node.count \in Nat /\ run[node.body] \in Step
      BY <1>3, NodeIs
    <2>2. ForwardNode(w, node, run) = Gone(w, run[node.body], node.count)
      BY <1>3, <2>1, CopiesAre DEF ForwardNode
    <2>3. Gone(w, run[node.body], node.count) \in Works
      BY <2>1, CopiesAre
    <2> QED
      BY <1>3, <2>2, <2>3
  <1>4. CASE Ok(w) /\ node.kind \in {"ifnz", "wz"}
    <2>1. run[node.body] \in Step
      BY <1>4, NodeIs
    <2>2. Decides(ForwardNode(w, node, run), w, node, run[node.body])
      BY <1>4, <2>1, ForwardDecides
    <2>3. PICK n \in Nat : Writes(ForwardNode(w, node, run), Gone(w, run[node.body], n), n)
      BY <2>2 DEF Decides
    <2>4. Gone(w, run[node.body], n) \in Works
      BY <2>1, CopiesAre
    <2> QED
      BY <1>4, <2>3, <2>4, WritesFacts
  <1>5. CASE ~Ok(w)
    BY <1>1, <1>5
  <1>6. CASE Ok(w)
    <2>1. node.kind \in {"inst", "rep", "ifnz", "wz"}
      BY NodeIs
    <2> QED
      BY <1>2, <1>3, <1>4, <1>6, <2>1
  <1> QED
    BY <1>5, <1>6

LEMMA ReverseTyped ==
  ASSUME NEW bodies, NEW node \in Nodes(Inst, bodies), NEW checked,
         NEW back, \A b \in bodies : back[b] \in Step, NEW w \in Works
  PROVE  ReverseNode(w, node, checked, back) \in Works /\ (~Ok(w) => ReverseNode(w, node, checked, back) = w)
  <1>1. ~Ok(w) => ReverseNode(w, node, checked, back) = w
    BY DEF ReverseNode
  <1>2. CASE Ok(w) /\ node.kind = "inst"
    <2>1. ReverseNode(w, node, checked, back) = ReverseLeaf(w, node.inst, checked)
      BY <1>2 DEF ReverseNode
    <2> QED
      BY <1>2, <2>1, NodeIs, ReverseLeafFacts
  <1>3. CASE Ok(w) /\ node.kind = "rep"
    <2>1. node.count \in Nat /\ back[node.body] \in Step
      BY <1>3, NodeIs
    <2>2. ReverseNode(w, node, checked, back) = Gone(w, back[node.body], node.count)
      BY <1>3, <2>1, CopiesAre DEF ReverseNode, TakeBack
    <2>3. Gone(w, back[node.body], node.count) \in Works
      BY <2>1, CopiesAre
    <2> QED
      BY <1>3, <2>2, <2>3
  <1>4. CASE Ok(w) /\ node.kind \in {"ifnz", "wz"} /\ w.j = <<>>
    <2>1. ReverseNode(w, node, checked, back) = Fail(w, "empty")
      BY <1>4 DEF ReverseNode
    <2>2. Fail(w, "empty") \in Works
      <3>1. "empty" \in Faults
        BY DEF Faults
      <3> QED
        BY <3>1, WorkFacts, WorkMade
    <2> QED
      BY <1>4, <2>1, <2>2
  <1>5. CASE Ok(w) /\ node.kind \in {"ifnz", "wz"} /\ w.j # <<>>
    <2>1. back[node.body] \in Step
      BY <1>5, NodeIs
    <2>2. PICK n \in Nat, x \in Works : n = Entry(w) /\ x = Popped(w)
      BY <1>5, PopFacts
    <2>3. ASSUME NEW k \in Nat PROVE TakeBack(x, back[node.body], k) \in Works
      BY <2>1, CopiesAre DEF TakeBack
    <2>4. CASE node.kind = "wz"
      <3>1. ReverseNode(w, node, checked, back) = TakeBack(x, back[node.body], n)
        BY <1>5, <2>2, <2>4 DEF ReverseNode
      <3> QED
        BY <1>5, <2>3, <3>1
    <2>5. CASE node.kind = "ifnz"
      <3>1. ReverseNode(w, node, checked, back) =
              CheckFlag(TakeBack(x, back[node.body], IF n # 0 THEN 1 ELSE 0), node, n, checked)
        BY <1>5, <2>2, <2>5 DEF ReverseNode
      <3> QED
        BY <1>5, <2>3, <3>1, CheckFacts
    <2> QED
      BY <1>5, <2>4, <2>5
  <1>6. node.kind \in {"inst", "rep", "ifnz", "wz"}
    BY NodeIs
  <1> QED
    BY <1>1, <1>2, <1>3, <1>4, <1>5, <1>6
LEMMA NodeGrows ==
  ASSUME NEW bodies, NEW node \in Nodes(Inst, bodies), NEW run,
         \A b \in bodies : run[b] \in Step /\ Grows(run[b]),
         \A n \in Nat, b \in bodies : Grows(Whole(Copies(n, run[b]))), NEW w \in Works
  PROVE  Before(w.j, ForwardNode(w, node, run).j)
  <1>1. CASE ~Ok(w)
    <2>1. ForwardNode(w, node, run) = w
      BY <1>1 DEF ForwardNode
    <2> QED
      BY <2>1, BeforeSelf, WorkFacts
  <1>2. CASE Ok(w) /\ node.kind = "inst"
    <2>1. ForwardNode(w, node, run) = RunLeaf(w, node.inst)
      BY <1>2 DEF ForwardNode
    <2>2. RunLeaf(w, node.inst).j = w.j
      BY <1>2, NodeIs, LeafFacts
    <2> QED
      BY <2>1, <2>2, BeforeSelf, WorkFacts
  <1>3. CASE Ok(w) /\ node.kind = "rep"
    <2>1. PICK n \in Nat, b \in bodies : n = node.count /\ b = node.body
      BY <1>3, NodeIs
    <2>2. ForwardNode(w, node, run) = Whole(Copies(n, run[b]))[w]
      BY <1>3, <2>1, CopiesAre DEF ForwardNode, Gone
    <2>3. Grows(Whole(Copies(n, run[b])))
      OBVIOUS
    <2> QED
      BY <2>2, <2>3 DEF Grows
  <1>4. CASE Ok(w) /\ node.kind \in {"ifnz", "wz"}
    <2>1. PICK b \in bodies : b = node.body
      BY <1>4, NodeIs
    <2>2. Decides(ForwardNode(w, node, run), w, node, run[b])
      BY <1>4, <2>1, ForwardDecides
    <2>3. PICK n \in Nat : Writes(ForwardNode(w, node, run), Gone(w, run[b], n), n)
      BY <2>2 DEF Decides
    <2>4. PICK x \in Works : x = Gone(w, run[b], n)
      BY CopiesAre
    <2>5. Grows(Whole(Copies(n, run[b])))
      OBVIOUS
    <2>6. Before(w.j, x.j)
      BY <2>4, <2>5 DEF Grows, Gone
    <2>7. PICK v \in Works : v = ForwardNode(w, node, run) /\ Before(x.j, v.j)
      BY <2>3, <2>4, WritesFacts
    <2> QED
      BY <2>6, <2>7, BeforeTrans, WorkFacts
  <1>5. node.kind \in {"inst", "rep", "ifnz", "wz"}
    BY NodeIs
  <1> QED
    BY <1>1, <1>2, <1>3, <1>4, <1>5

LEMMA NodePops ==
  ASSUME NEW bodies, NEW node \in Nodes(Inst, bodies), NEW run, NEW checked, NEW back,
         \A b \in bodies : run[b] \in Step /\ back[b] \in Step,
         \A n \in Nat, b \in bodies : Pops(Whole(Copies(n, run[b])), Whole(Copies(n, back[b]))),
         NEW w \in Works, NEW st \in State, Ok(ForwardNode(w, node, run))
  PROVE  Takes(ReverseNode(Work(st, ForwardNode(w, node, run).j), node, checked, back), w.j)
  <1>0. Ok(w)
    BY DEF ForwardNode
  <1>a. ASSUME NEW y, y.j = w.j PROVE Takes(y, w.j)
    BY <1>a, BeforeSelf, WorkFacts DEF Takes
  <1>b. ASSUME NEW j \in Seq(Nat) PROVE Work(st, j) \in Works /\ Ok(Work(st, j)) /\ Work(st, j).j = j
    <2>1. "none" \in Faults
      BY DEF Faults
    <2> QED
      BY <2>1, WorkMade DEF Work, Ok
  <1>1. CASE node.kind = "inst"
    <2>1. ForwardNode(w, node, run) = RunLeaf(w, node.inst)
      BY <1>0, <1>1 DEF ForwardNode
    <2>2. RunLeaf(w, node.inst).j = w.j
      BY <1>1, NodeIs, LeafFacts
    <2>3. PICK v \in Works : v = Work(st, w.j) /\ v.j = w.j /\ Ok(v)
      BY <1>b, WorkFacts
    <2>4. ReverseNode(v, node, checked, back) = ReverseLeaf(v, node.inst, checked)
      BY <1>1, <2>3 DEF ReverseNode
    <2>5. ReverseLeaf(v, node.inst, checked).j = v.j
      BY <1>1, NodeIs, ReverseLeafFacts
    <2> QED
      BY <1>a, <2>1, <2>2, <2>3, <2>4, <2>5
  <1>2. CASE node.kind = "rep"
    <2>1. PICK n \in Nat, b \in bodies : n = node.count /\ b = node.body
      BY <1>2, NodeIs
    <2>2. ForwardNode(w, node, run) = Whole(Copies(n, run[b]))[w]
      BY <1>0, <1>2, <2>1, CopiesAre DEF ForwardNode, Gone
    <2>3. Pops(Whole(Copies(n, run[b])), Whole(Copies(n, back[b])))
      OBVIOUS
    <2>4. PICK j \in Seq(Nat) : j = ForwardNode(w, node, run).j
      <3>1. Gone(w, run[b], n) \in Works
        BY CopiesAre
      <3> QED
        BY <2>2, <3>1, WorkFacts DEF Gone
    <2>5. PICK v \in Works : v = Work(st, j) /\ Ok(v)
      BY <1>b
    <2>6. ReverseNode(v, node, checked, back) = Whole(Copies(n, back[b]))[v]
      BY <1>2, <2>1, <2>5, CopiesAre DEF ReverseNode, TakeBack, Gone
    <2>7. Takes(Whole(Copies(n, back[b]))[v], w.j)
      BY <2>2, <2>3, <2>4, <2>5 DEF Pops
    <2> QED
      BY <2>4, <2>5, <2>6, <2>7
  <1>3. CASE node.kind \in {"ifnz", "wz"}
    <2>1. PICK b \in bodies : b = node.body
      BY <1>3, NodeIs
    <2>2. Decides(ForwardNode(w, node, run), w, node, run[b])
      BY <1>0, <1>3, <2>1, ForwardDecides
    <2>3. PICK n \in Nat : /\ Writes(ForwardNode(w, node, run), Gone(w, run[b], n), n)
                           /\ node.kind = "ifnz" => n = IF Condition(w, node) THEN 1 ELSE 0
      BY <2>2 DEF Decides
    <2>4. PICK x \in Works : x = Gone(w, run[b], n)
      BY CopiesAre
    <2>5. Ok(x) /\ ForwardNode(w, node, run) = Push(x, n)
      BY <2>3, <2>4, WritesFacts
    <2>6. PICK u \in Works : u = Work(st, x.j) /\ Ok(u) /\ u.j = x.j /\ u.s = st /\ u.fault = "none"
      <3>1. Work(st, x.j).s = st /\ Work(st, x.j).fault = "none"
        BY DEF Work
      <3> QED
        BY <1>b, <3>1, WorkFacts
    <2>7. Work(st, Push(x, n).j) = Push(u, n)
      <3>1. Push(x, n).j = Append(x.j, n)
        BY PushFacts, SMTT(30)
      <3>2. Push(u, n) = [s |-> u.s, j |-> Append(u.j, n), fault |-> u.fault]
        BY PushFacts
      <3> QED
        BY <2>6, <3>1, <3>2 DEF Work
    <2>8. PICK y \in Works : y = Gone(u, back[b], n)
      BY CopiesAre
    <2>9. ReverseNode(Push(u, n), node, checked, back) =
            IF node.kind = "ifnz" THEN CheckFlag(y, node, n, checked) ELSE y
      BY <1>3, <2>1, <2>3, <2>6, <2>8, ReverseReads
    <2>10. Takes(y, w.j)
      <3>1. Pops(Whole(Copies(n, run[b])), Whole(Copies(n, back[b])))
        OBVIOUS
      <3> QED
        BY <2>4, <2>5, <2>6, <2>8, <3>1 DEF Pops, Gone
    <2>11. Takes(CheckFlag(y, node, n, checked), w.j)
      BY <2>10, CheckFacts DEF Takes
    <2> QED
      BY <2>5, <2>7, <2>9, <2>10, <2>11
  <1>4. node.kind \in {"inst", "rep", "ifnz", "wz"}
    BY NodeIs
  <1> QED
    BY <1>1, <1>2, <1>3, <1>4

LEMMA NodeBoth ==
  ASSUME NEW bodies, NEW node \in Nodes(Inst, bodies), NEW run, NEW checked, NEW back,
         \A b \in bodies : Both(run[b], back[b])
  PROVE  Both(ForwardStep(node, run), BackStep(node, checked, back))
  <1> DEFINE f == ForwardStep(node, run)
             r == BackStep(node, checked, back)
  <1>1. \A b \in bodies : run[b] \in Step /\ back[b] \in Step /\ Grows(run[b])
    BY DEF Both
  <1>2. ASSUME NEW n \in Nat, NEW b \in bodies
        PROVE  /\ Grows(Whole(Copies(n, run[b])))
               /\ Pops(Whole(Copies(n, run[b])), Whole(Copies(n, back[b])))
    <2>1. Both(Whole(Copies(n, run[b])), Whole(Copies(n, back[b])))
      BY CopiesBoth
    <2> QED
      BY <2>1 DEF Both
  <1>3. ASSUME NEW w \in Works
        PROVE  f[w] \in Works /\ r[w] \in Works /\ (~Ok(w) => f[w] = w /\ r[w] = w) /\ Before(w.j, f[w].j)
    <2>1. f[w] = ForwardNode(w, node, run) /\ r[w] = ReverseNode(w, node, checked, back)
      BY DEF ForwardStep, BackStep
    <2>2. ForwardNode(w, node, run) \in Works /\ (~Ok(w) => ForwardNode(w, node, run) = w)
      BY <1>1, ForwardTyped
    <2>3. ReverseNode(w, node, checked, back) \in Works /\ (~Ok(w) => ReverseNode(w, node, checked, back) = w)
      BY <1>1, ReverseTyped
    <2>4. Before(w.j, ForwardNode(w, node, run).j)
      BY <1>1, <1>2, NodeGrows
    <2> QED
      BY <2>1, <2>2, <2>3, <2>4
  <1>4. ASSUME NEW w \in Works, NEW st \in State, Ok(f[w])
        PROVE  Takes(r[Work(st, f[w].j)], w.j)
    <2>1. f[w] = ForwardNode(w, node, run) /\ f[w].j \in Seq(Nat)
      BY <1>3, WorkFacts DEF ForwardStep
    <2>2. Work(st, f[w].j) \in Works
      BY <2>1, WorkMade DEF Work, Faults
    <2>3. r[Work(st, f[w].j)] = ReverseNode(Work(st, f[w].j), node, checked, back)
      BY <2>2 DEF BackStep
    <2>4. Takes(ReverseNode(Work(st, ForwardNode(w, node, run).j), node, checked, back), w.j)
      BY <1>1, <1>2, <1>4, <2>1, NodePops
    <2> QED
      BY <2>1, <2>3, <2>4
  <1>5. f \in Step /\ r \in Step
    BY <1>3 DEF Step, ForwardStep, BackStep
  <1> HIDE DEF f, r
  <1>6. Inert(f) /\ Inert(r) /\ Grows(f)
    BY <1>3 DEF Inert, Grows
  <1>7. Pops(f, r)
    BY <1>4 DEF Pops
  <1> QED
    BY <1>5, <1>6, <1>7 DEF Both, f, r
LEMMA NodeInverts ==
  ASSUME NEW bodies, NEW insts \in SUBSET Inst, NEW node \in Nodes(insts, bodies),
         NEW run, NEW checked \in BOOLEAN, NEW back, NEW sure \in BOOLEAN,
         checked => sure, sure => \A i \in insts : Invertible(i),
         \A b \in bodies : Both(run[b], back[b]) /\ Inverts(run[b], back[b], sure)
  PROVE  Inverts(ForwardStep(node, run), BackStep(node, checked, back), sure)
  <1>1. \A b \in bodies : run[b] \in Step /\ back[b] \in Step
    BY DEF Both
  <1>2. ASSUME NEW n \in Nat, NEW b \in bodies
        PROVE  Inverts(Whole(Copies(n, run[b])), Whole(Copies(n, back[b])), sure)
    BY CopiesInvert
  <1>3. ASSUME NEW w \in Works, NEW v \in Works, v = ForwardNode(w, node, run), Ok(v),
               sure \/ Ok(ReverseNode(v, node, checked, back))
        PROVE  ReverseNode(v, node, checked, back) = w
    <2>0. Ok(w)
      BY <1>3 DEF ForwardNode
    <2>1. CASE node.kind = "inst"
      <3>1. PICK i \in insts : i = node.inst /\ i \in Inst
        BY <2>1, NodeIs
      <3>2. v = RunLeaf(w, i)
        BY <1>3, <2>0, <2>1, <3>1 DEF ForwardNode
      <3>3. InRange(w.s, i) /\ v = [s |-> Exec(w.s, i), j |-> w.j, fault |-> w.fault]
        BY <1>3, <2>0, <3>1, <3>2, LeafFacts
      <3>4. ReverseNode(v, node, checked, back) = ReverseLeaf(v, i, checked)
        BY <1>3, <2>1, <3>1 DEF ReverseNode
      <3>5. CASE Invertible(i)
        <4>1. /\ Inverse(i) \in Inst /\ InRange(v.s, Inverse(i))
              /\ Exec(v.s, Inverse(i)) = w.s
          BY <3>1, <3>3, <3>5, ExecCancel, WorkFacts
        <4>2. ReverseLeaf(v, i, checked) = RunLeaf(v, Inverse(i))
          BY <3>5 DEF ReverseLeaf, Invertible
        <4>3. RunLeaf(v, Inverse(i)) = [s |-> w.s, j |-> v.j, fault |-> v.fault]
          BY <4>1, LeafFacts
        <4>4. v.j = w.j /\ v.fault = w.fault
          BY <3>3
        <4>5. w = [s |-> w.s, j |-> w.j, fault |-> w.fault]
          BY WorkFacts
        <4> QED
          BY <3>4, <4>2, <4>3, <4>4, <4>5
      <3>6. CASE ~Invertible(i)
        <4>1. ~sure /\ ~checked
          BY <3>1, <3>6
        <4>2. ReverseLeaf(v, i, checked) = Fail(v, "boundary")
          BY <3>6, <4>1 DEF ReverseLeaf, Invertible
        <4>3. "boundary" \in Faults /\ "boundary" # "none"
          BY DEF Faults
        <4>4. Fail(v, "boundary") = [s |-> v.s, j |-> v.j, fault |-> "boundary"]
          BY <4>3, WorkFacts
        <4>5. ~Ok(Fail(v, "boundary"))
          BY <4>3, <4>4 DEF Ok
        <4> QED
          BY <1>3, <3>4, <4>1, <4>2, <4>5
      <3> QED
        BY <3>5, <3>6
    <2>2. CASE node.kind = "rep"
      <3>1. PICK n \in Nat, b \in bodies : n = node.count /\ b = node.body
        BY <2>2, NodeIs
      <3>2. v = Whole(Copies(n, run[b]))[w]
        BY <1>1, <1>3, <2>0, <2>2, <3>1, CopiesAre DEF ForwardNode, Gone
      <3>3. ReverseNode(v, node, checked, back) = Whole(Copies(n, back[b]))[v]
        BY <1>1, <1>3, <2>2, <3>1, CopiesAre DEF ReverseNode, TakeBack, Gone
      <3>4. Inverts(Whole(Copies(n, run[b])), Whole(Copies(n, back[b])), sure)
        BY <1>2
      <3> QED
        BY <1>3, <3>2, <3>3, <3>4 DEF Inverts
    <2>3. CASE node.kind \in {"ifnz", "wz"}
      <3>1. PICK b \in bodies : b = node.body
        BY <2>3, NodeIs
      <3>2. Decides(v, w, node, run[b])
        BY <1>1, <1>3, <2>0, <2>3, <3>1, ForwardDecides
      <3>3. PICK n \in Nat : /\ Writes(v, Gone(w, run[b], n), n)
                             /\ node.kind = "ifnz" => n = IF Condition(w, node) THEN 1 ELSE 0
        BY <3>2 DEF Decides
      <3>4. PICK x \in Works : x = Gone(w, run[b], n)
        BY <1>1, CopiesAre
      <3>5. Ok(x) /\ v = Push(x, n)
        BY <1>3, <3>3, <3>4, WritesFacts
      <3>6. PICK y \in Works : y = Gone(x, back[b], n)
        BY <1>1, CopiesAre
      <3>7. ReverseNode(v, node, checked, back) =
              IF node.kind = "ifnz" THEN CheckFlag(y, node, n, checked) ELSE y
        BY <1>1, <2>3, <3>1, <3>3, <3>5, <3>6, ReverseReads
      <3>8. sure \/ Ok(y) => y = w
        <4>1. Inverts(Whole(Copies(n, run[b])), Whole(Copies(n, back[b])), sure)
          BY <1>2
        <4> QED
          BY <3>4, <3>5, <3>6, <4>1 DEF Inverts, Gone
      <3>9. CASE node.kind = "wz"
        BY <1>3, <3>7, <3>8, <3>9
      <3>10. CASE node.kind = "ifnz" /\ sure
        BY <3>3, <3>7, <3>8, <3>10, CheckFacts
      <3>11. CASE node.kind = "ifnz" /\ ~sure
        <4>1. ~checked
          BY <3>11
        <4>2. CheckFlag(y, node, n, checked) = y
          BY <4>1, CheckFacts
        <4> QED
          BY <1>3, <3>7, <3>8, <3>11, <4>2
      <3> QED
        BY <2>3, <3>9, <3>10, <3>11
    <2>4. node.kind \in {"inst", "rep", "ifnz", "wz"}
      BY NodeIs
    <2> QED
      BY <2>1, <2>2, <2>3, <2>4
  <1>4. node \in Nodes(Inst, bodies)
    BY DEF Nodes
  <1>5. ASSUME NEW w \in Works PROVE ForwardNode(w, node, run) \in Works
    BY <1>1, <1>4, ForwardTyped
  <1> QED
    BY <1>3, <1>5 DEF Inverts, ForwardStep, BackStep
-----------------------------------------------------------------------------
(* Programs, level by level.                                                  *)

Run(d)                    == IF d = 0 THEN <<>> ELSE ForwardTo[d - 1]
Back(checked, d)          == IF d = 0 THEN <<>> ELSE ReverseTo(checked)[d - 1]
ForwardSteps(p, d)        == [k \in 1 .. Len(p) |-> ForwardStep(p[k], Run(d))]
BackSteps(p, checked, d)  == [k \in 1 .. Len(p) |-> BackStep(p[k], checked, Back(checked, d))]

LEMMA ProgramNodes ==
  ASSUME NEW insts, NEW d \in 0 .. MaxDepth, NEW p \in TreesOf(insts)[d]
  PROVE  /\ Len(p) \in Nat /\ p \in Seq(Nodes(insts, Bodies(TreesOf(insts), d)))
         /\ \A k \in 1 .. Len(p) : p[k] \in Nodes(insts, Bodies(TreesOf(insts), d))
  <1>1. PICK S : S = Nodes(insts, Bodies(TreesOf(insts), d))
    OBVIOUS
  <1>2. p \in Seq(S)
    BY <1>1, TreeNodes
  <1> QED
    BY <1>1, <1>2

LEMMA ProgramIs ==
  ASSUME NEW d \in 0 .. MaxDepth, NEW p \in Trees[d], NEW checked
  PROVE  /\ ForwardTo[d][p] = Whole(ForwardSteps(p, d))
         /\ ReverseTo(checked)[d][p] = Whole(Backwards(BackSteps(p, checked, d), Len(p)))
  <1>1. Len(p) \in Nat
    BY ProgramNodes DEF Trees
  <1>2. ForwardTo[d] = ForwardLevel(d, Run(d))
    BY ForwardIs, Zenon DEF Run
  <1>3. ReverseTo(checked)[d] = ReverseLevel(checked, d, Back(checked, d))
    BY ReverseIs, Zenon DEF Back
  <1>4. ForwardTo[d][p] = Whole(ForwardSteps(p, d))
    BY <1>2, Zenon DEF ForwardLevel, Whole, ForwardSteps, ForwardStep
  <1>5. [k \in 1 .. Len(p) |-> [x \in Works |-> ReverseNode(x, p[Len(p) + 1 - k], checked, Back(checked, d))]]
          = Backwards(BackSteps(p, checked, d), Len(p))
    <2>1. PICK n \in Nat : n = Len(p)
      BY <1>1
    <2>2. \A k \in 1 .. n : n + 1 - k \in 1 .. n
      OBVIOUS
    <2>3. \A k \in 1 .. n : BackSteps(p, checked, d)[n + 1 - k] =
                              [x \in Works |-> ReverseNode(x, p[n + 1 - k], checked, Back(checked, d))]
      BY <2>1, <2>2 DEF BackSteps, BackStep
    <2> QED
      BY <2>1, <2>3 DEF Backwards
  <1>6. ReverseTo(checked)[d][p] = Whole(Backwards(BackSteps(p, checked, d), Len(p)))
    BY <1>3, <1>5, Zenon DEF ReverseLevel, Whole
  <1> QED
    BY <1>4, <1>6

LEMMA WholeBoth ==
  ASSUME NEW n \in Nat, NEW fs, fs = [k \in 1 .. n |-> fs[k]], NEW bs, bs = [k \in 1 .. n |-> bs[k]],
         \A k \in 1 .. n : Both(fs[k], bs[k])
  PROVE  /\ Both(Whole(fs), Whole(Backwards(bs, n)))
         /\ fs \in [1 .. n -> Step] /\ bs \in [1 .. n -> Step]
  <1>1. \A k \in 1 .. n : fs[k] \in Step /\ bs[k] \in Step
    BY DEF Both
  <1>2. fs \in [1 .. n -> Step]
    BY <1>1
  <1>3. bs \in [1 .. n -> Step]
    BY <1>1
  <1>4. \A k \in 1 .. n : Inert(fs[k]) /\ Grows(fs[k])
    BY DEF Both
  <1>5. \A k \in 1 .. n : Inert(bs[k]) /\ Pops(fs[k], bs[k])
    BY DEF Both
  <1>6. PICK cs \in [1 .. n -> Step] : cs = Backwards(bs, n) /\ \A k \in 1 .. n : cs[k] = bs[n + 1 - k]
    BY <1>3, BackwardsTyped
  <1>7. \A k \in 1 .. n : Inert(cs[k])
    <2>1. \A k \in 1 .. n : n + 1 - k \in 1 .. n
      OBVIOUS
    <2> QED
      BY <1>5, <1>6, <2>1
  <1>8. Inert(Whole(fs)) /\ Inert(Whole(cs))
    BY <1>2, <1>4, <1>7, WholeInert
  <1>9. Grows(Whole(fs))
    BY <1>2, <1>4, WholeGrows
  <1>10. Pops(Whole(fs), Whole(cs))
    BY <1>2, <1>3, <1>4, <1>5, <1>6, WholePops
  <1>11. Whole(fs) \in Step /\ Whole(cs) \in Step
    BY <1>2, WholeTyped
  <1> QED
    BY <1>2, <1>3, <1>6, <1>8, <1>9, <1>10, <1>11 DEF Both

(* Every program: its run adds to the journal and its reversal takes just that *)
(* away.                                                                      *)
LEMMA ProgramBoth ==
  ASSUME NEW checked
  PROVE  \A d \in 0 .. MaxDepth : \A p \in Trees[d] : Both(ForwardTo[d][p], ReverseTo(checked)[d][p])
  <1> DEFINE P == {d \in 0 .. MaxDepth : \A p \in Trees[d] : Both(ForwardTo[d][p], ReverseTo(checked)[d][p])}
  <1>1. ASSUME NEW d \in 0 .. MaxDepth, \A b \in Bodies(Trees, d) : Both(Run(d)[b], Back(checked, d)[b])
        PROVE  d \in P
    <2>1. ASSUME NEW p \in Trees[d] PROVE Both(ForwardTo[d][p], ReverseTo(checked)[d][p])
      <3>1. PICK n \in Nat : n = Len(p)
        BY ProgramNodes DEF Trees
      <3>2. PICK fs : fs = ForwardSteps(p, d)
        OBVIOUS
      <3>3. PICK bs : bs = BackSteps(p, checked, d)
        OBVIOUS
      <3>4. fs = [k \in 1 .. n |-> fs[k]] /\ bs = [k \in 1 .. n |-> bs[k]]
        BY <3>1, <3>2, <3>3 DEF ForwardSteps, BackSteps
      <3>5. ASSUME NEW k \in 1 .. n PROVE Both(fs[k], bs[k])
        <4>1. fs[k] = ForwardStep(p[k], Run(d)) /\ bs[k] = BackStep(p[k], checked, Back(checked, d))
          BY <3>1, <3>2, <3>3 DEF ForwardSteps, BackSteps
        <4>2. p[k] \in Nodes(Inst, Bodies(Trees, d))
          BY <3>1, ProgramNodes DEF Trees
        <4> QED
          BY <1>1, <4>1, <4>2, NodeBoth
      <3>6. Both(Whole(fs), Whole(Backwards(bs, n)))
        BY <3>4, <3>5, WholeBoth
      <3> QED
        BY <3>1, <3>2, <3>3, <3>6, ProgramIs
    <2> QED
      BY <2>1
  <1>2. 0 \in P
    <2>1. 0 \in 0 .. MaxDepth
      BY JournalAssumption
    <2> QED
      BY <1>1, <2>1 DEF Bodies
  <1>3. ASSUME NEW d \in 1 .. MaxDepth, d - 1 \in P PROVE d \in P
    <2>1. d \in 0 .. MaxDepth /\ d # 0
      BY JournalAssumption
    <2>2. \A b \in Bodies(Trees, d) : Both(Run(d)[b], Back(checked, d)[b])
      BY <1>3, <2>1 DEF Bodies, Run, Back
    <2> QED
      BY <1>1, <2>1, <2>2
  <1>4. \A d \in 1 .. MaxDepth : d - 1 \in P => d \in P
    BY <1>3
  <1> HIDE DEF P
  <1>5. \A d \in 0 .. MaxDepth : d \in P
    BY <1>2, <1>4, UpTo, JournalAssumption
  <1> QED
    BY <1>5 DEF P

(* Programs over fewer leaves are programs over more. *)
LEMMA NodesGrow ==
  ASSUME NEW few, NEW more, few \subseteq more, NEW a, NEW b, a \subseteq b
  PROVE  Nodes(few, a) \subseteq Nodes(more, b)
  BY DEF Nodes

LEMMA TreesGrow ==
  ASSUME NEW few, NEW more, few \subseteq more
  PROVE  \A d \in 0 .. MaxDepth : TreesOf(few)[d] \subseteq TreesOf(more)[d]
  <1> DEFINE P == {d \in 0 .. MaxDepth : TreesOf(few)[d] \subseteq TreesOf(more)[d]}
  <1>1. ASSUME NEW d \in 0 .. MaxDepth, Bodies(TreesOf(few), d) \subseteq Bodies(TreesOf(more), d)
        PROVE  d \in P
    <2>1. PICK S : S = Nodes(few, Bodies(TreesOf(few), d))
      OBVIOUS
    <2>2. PICK T : T = Nodes(more, Bodies(TreesOf(more), d))
      OBVIOUS
    <2>3. S \subseteq T
      BY <1>1, <2>1, <2>2, NodesGrow
    <2>4. Seq(S) \subseteq Seq(T)
      BY <2>3
    <2> QED
      BY <2>1, <2>2, <2>4, TreeNodes
  <1>2. 0 \in P
    <2>1. 0 \in 0 .. MaxDepth
      BY JournalAssumption
    <2> QED
      BY <1>1, <2>1 DEF Bodies
  <1>3. ASSUME NEW d \in 1 .. MaxDepth, d - 1 \in P PROVE d \in P
    <2>1. d \in 0 .. MaxDepth /\ d # 0
      BY JournalAssumption
    <2>2. Bodies(TreesOf(few), d) \subseteq Bodies(TreesOf(more), d)
      BY <1>3, <2>1 DEF Bodies
    <2> QED
      BY <1>1, <2>1, <2>2
  <1>4. \A d \in 1 .. MaxDepth : d - 1 \in P => d \in P
    BY <1>3
  <1> HIDE DEF P
  <1>5. \A d \in 0 .. MaxDepth : d \in P
    BY <1>2, <1>4, UpTo, JournalAssumption
  <1> QED
    BY <1>5 DEF P

(* A reversal that is sure to succeed, or does, is exact: of any program when  *)
(* it is not checked, of a reversible one in any case.                        *)
LEMMA ProgramInverts ==
  ASSUME NEW insts \in SUBSET Inst, NEW checked \in BOOLEAN, NEW sure \in BOOLEAN,
         checked => sure, sure => \A i \in insts : Invertible(i)
  PROVE  \A d \in 0 .. MaxDepth : \A p \in TreesOf(insts)[d] :
           Inverts(ForwardTo[d][p], ReverseTo(checked)[d][p], sure)
  <1> DEFINE P == {d \in 0 .. MaxDepth : \A p \in TreesOf(insts)[d] :
                     Inverts(ForwardTo[d][p], ReverseTo(checked)[d][p], sure)}
  <1>0. \A d \in 0 .. MaxDepth : TreesOf(insts)[d] \subseteq Trees[d]
    BY TreesGrow DEF Trees
  <1>1. ASSUME NEW d \in 0 .. MaxDepth,
               \A b \in Bodies(TreesOf(insts), d) :
                 Both(Run(d)[b], Back(checked, d)[b]) /\ Inverts(Run(d)[b], Back(checked, d)[b], sure)
        PROVE  d \in P
    <2>1. ASSUME NEW p \in TreesOf(insts)[d]
          PROVE  Inverts(ForwardTo[d][p], ReverseTo(checked)[d][p], sure)
      <3>1. PICK n \in Nat : n = Len(p)
        BY ProgramNodes
      <3>2. PICK fs : fs = ForwardSteps(p, d)
        OBVIOUS
      <3>3. PICK bs : bs = BackSteps(p, checked, d)
        OBVIOUS
      <3>4. fs = [k \in 1 .. n |-> fs[k]] /\ bs = [k \in 1 .. n |-> bs[k]]
        BY <3>1, <3>2, <3>3 DEF ForwardSteps, BackSteps
      <3>5. ASSUME NEW k \in 1 .. n PROVE Both(fs[k], bs[k]) /\ Inverts(fs[k], bs[k], sure)
        <4>1. fs[k] = ForwardStep(p[k], Run(d)) /\ bs[k] = BackStep(p[k], checked, Back(checked, d))
          BY <3>1, <3>2, <3>3 DEF ForwardSteps, BackSteps
        <4>2. p[k] \in Nodes(insts, Bodies(TreesOf(insts), d))
          BY <3>1, ProgramNodes
        <4>3. p[k] \in Nodes(Inst, Bodies(TreesOf(insts), d))
          BY <4>2, NodesGrow
        <4>4. Both(fs[k], bs[k])
          BY <1>1, <4>1, <4>3, NodeBoth
        <4>5. Inverts(fs[k], bs[k], sure)
          BY <1>1, <4>1, <4>2, NodeInverts
        <4> QED
          BY <4>4, <4>5
      <3>6. fs \in [1 .. n -> Step] /\ bs \in [1 .. n -> Step]
        BY <3>4, <3>5, WholeBoth
      <3>7. \A k \in 1 .. n : Inert(fs[k]) /\ Inert(bs[k])
        BY <3>5 DEF Both
      <3>8. Inverts(Whole(fs), Whole(Backwards(bs, n)), sure)
        BY <3>5, <3>6, <3>7, WholeInverts
      <3>9. p \in Trees[d]
        BY <1>0
      <3> QED
        BY <3>1, <3>2, <3>3, <3>8, <3>9, ProgramIs
    <2> QED
      BY <2>1
  <1>2. 0 \in P
    <2>1. 0 \in 0 .. MaxDepth
      BY JournalAssumption
    <2> QED
      BY <1>1, <2>1 DEF Bodies
  <1>3. ASSUME NEW d \in 1 .. MaxDepth, d - 1 \in P PROVE d \in P
    <2>1. d \in 0 .. MaxDepth /\ d # 0 /\ d - 1 \in 0 .. MaxDepth
      BY JournalAssumption
    <2>2. ASSUME NEW b \in Bodies(TreesOf(insts), d)
          PROVE  Both(Run(d)[b], Back(checked, d)[b]) /\ Inverts(Run(d)[b], Back(checked, d)[b], sure)
      <3>1. b \in TreesOf(insts)[d - 1] /\ Run(d) = ForwardTo[d - 1] /\ Back(checked, d) = ReverseTo(checked)[d - 1]
        BY <2>1 DEF Bodies, Run, Back
      <3>2. b \in Trees[d - 1]
        BY <1>0, <2>1, <3>1
      <3> QED
        BY <1>3, <2>1, <3>1, <3>2, ProgramBoth
    <2> QED
      BY <1>1, <2>1, <2>2
  <1>4. \A d \in 1 .. MaxDepth : d - 1 \in P => d \in P
    BY <1>3
  <1> HIDE DEF P
  <1>5. \A d \in 0 .. MaxDepth : d \in P
    BY <1>2, <1>4, UpTo, JournalAssumption
  <1> QED
    BY <1>5 DEF P
-----------------------------------------------------------------------------
(* A program that writes a register nowhere insts it alone, both ways.       *)

Keeps(f, r) == \A w \in Works : f[w].s.regs[r] = w.s.regs[r]

LEMMA ExecSpares ==
  ASSUME NEW st \in State, NEW i \in Inst, InRange(st, i), NEW r \in Reg, r \notin Written(i)
  PROVE  Exec(st, i).regs[r] = st.regs[r]
  <1> USE DEF Ops, UnaryOps, BinaryOps, TernaryOps, MemDstOps, MemSrcOps
  <1>1. st.regs \in [Reg -> Word]
    BY DEF State
  <1>2. ASSUME NEW a, NEW v, a # r PROVE SetReg(st, a, v).regs[r] = st.regs[r]
    BY <1>1, <1>2 DEF SetReg, State
  <1>3. ASSUME NEW m, NEW v PROVE SetMem(st, m, v).regs[r] = st.regs[r]
    BY DEF SetMem, State
  <1>4. ASSUME NEW p, NEW q, p # r, q # r PROVE SwapRegs(st, p, q).regs[r] = st.regs[r]
    BY <1>1, <1>4 DEF SwapRegs, State
  <1>5. i.op \in Ops
    BY DEF Inst
  <1>6. CASE i.op = "swp"
    <2>1. i.a # r /\ i.b # r
      BY <1>6 DEF Written
    <2> QED
      BY <1>4, <1>6, <2>1 DEF Exec
  <1>7. CASE i.op = "toff"
    <2>1. i.c # r
      BY <1>7 DEF Written
    <2> QED
      BY <1>2, <1>7, <2>1 DEF Exec
  <1>8. CASE i.op = "cswp"
    <2>1. i.b # r /\ i.c # r
      BY <1>8 DEF Written
    <2> QED
      BY <1>4, <1>8, <2>1 DEF Exec
  <1>9. CASE i.op \in MemDstOps \union {"mset", "nop"}
    BY <1>3, <1>9 DEF Exec
  <1>10. CASE i.op \in UnaryOps \union {"xor", "add", "sub"} \union MemSrcOps
    <2>1. i.a # r
      BY <1>10 DEF Written
    <2> QED
      BY <1>2, <1>10, <2>1 DEF Exec
  <1> QED
    BY <1>5, <1>6, <1>7, <1>8, <1>9, <1>10

LEMMA InverseWrites ==
  ASSUME NEW i \in Inst
  PROVE  Written(Inverse(i)) = Written(i)
  <1>1. PICK o : o = InverseOp[i.op]
    OBVIOUS
  <1>2. Inverse(i) = [i EXCEPT !.op = o, !.k = IF i.op = "mulc" THEN ModInvOdd(i.k) ELSE i.k]
    BY <1>1 DEF Inverse
  <1>3. Inverse(i).op = o /\ Inverse(i).a = i.a /\ Inverse(i).b = i.b /\ Inverse(i).c = i.c
    BY <1>2 DEF Inst
  <1>4. i.op \in Ops
    BY DEF Inst
  <1>5. /\ o = "swp" <=> i.op = "swp"
        /\ o = "toff" <=> i.op = "toff"
        /\ o = "cswp" <=> i.op = "cswp"
        /\ o \in MemDstOps \union {"mset", "nop"} <=> i.op \in MemDstOps \union {"mset", "nop"}
    BY <1>1, <1>4 DEF InverseOp, Ops, UnaryOps, BinaryOps, TernaryOps, MemDstOps, MemSrcOps
  <1> QED
    BY <1>3, <1>5 DEF Written, MemDstOps

LEMMA LeafKeeps ==
  ASSUME NEW w \in Works, NEW i \in Inst, NEW r \in Reg, r \notin Written(i), NEW checked
  PROVE  /\ RunLeaf(w, i).s.regs[r] = w.s.regs[r]
         /\ ReverseLeaf(w, i, checked).s.regs[r] = w.s.regs[r]
  <1>1. ASSUME NEW k \in Inst, r \notin Written(k) PROVE RunLeaf(w, k).s.regs[r] = w.s.regs[r]
    <2>1. CASE InRange(w.s, k)
      <3>1. RunLeaf(w, k).s = Exec(w.s, k)
        BY <2>1, LeafFacts
      <3> QED
        BY <1>1, <2>1, <3>1, ExecSpares, WorkFacts
    <2>2. CASE ~InRange(w.s, k)
      BY <2>2, LeafFacts
    <2> QED
      BY <2>1, <2>2
  <1>2. RunLeaf(w, Inverse(i)).s.regs[r] = w.s.regs[r]
    BY <1>1, InverseTyped, InverseWrites
  <1>3. Fail(w, "boundary").s = w.s
    BY WorkFacts DEF Faults
  <1> QED
    BY <1>1, <1>2, <1>3 DEF ReverseLeaf

LEMMA WholeKeeps ==
  ASSUME NEW n \in Nat, NEW fs \in [1 .. n -> Step], NEW r, \A k \in 1 .. n : Keeps(fs[k], r)
  PROVE  Keeps(Whole(fs), r)
  <1>1. ASSUME NEW w \in Works PROVE Whole(fs)[w].s.regs[r] = w.s.regs[r]
    <2>1. PICK g : Through(g, n, w, fs) /\ InOrder(fs, w) = g[n]
      <3>1. Goes(n, w, fs)
        BY OrderIs
      <3> QED
        BY <3>1 DEF Goes
    <2>2. /\ g \in [0 .. n -> Works] /\ g[0] = w
          /\ \A k \in 1 .. n : g[k] = fs[k][g[k - 1]]
      BY <2>1 DEF Through, Chain
    <2> DEFINE P == {k \in 0 .. n : g[k].s.regs[r] = w.s.regs[r]}
    <2>3. 0 \in P
      BY <2>2
    <2>4. ASSUME NEW k \in 1 .. n, k - 1 \in P PROVE k \in P
      <3>1. g[k - 1] \in Works
        BY <2>2
      <3>2. g[k].s.regs[r] = g[k - 1].s.regs[r]
        BY <2>2, <3>1 DEF Keeps
      <3> QED
        BY <2>4, <3>2
    <2>5. \A k \in 1 .. n : k - 1 \in P => k \in P
      BY <2>4
    <2> HIDE DEF P
    <2>6. \A k \in 0 .. n : k \in P
      BY <2>3, <2>5, UpTo
    <2>7. g[n].s.regs[r] = w.s.regs[r]
      BY <2>6 DEF P
    <2> QED
      BY <2>1, <2>7 DEF Whole
  <1> QED
    BY <1>1 DEF Keeps

LEMMA GoneKeeps ==
  ASSUME NEW n \in Nat, NEW f \in Step, NEW r, Keeps(f, r), NEW w \in Works
  PROVE  Gone(w, f, n).s.regs[r] = w.s.regs[r]
  <1>1. PICK fs \in [1 .. n -> Step] : fs = Copies(n, f) /\ \A k \in 1 .. n : fs[k] = f
    BY CopiesAre
  <1>2. Keeps(Whole(fs), r)
    BY <1>1, WholeKeeps
  <1> QED
    BY <1>1, <1>2 DEF Keeps, Gone

LEMMA ForwardKeeps ==
  ASSUME NEW bodies, NEW r \in Reg, NEW node \in Nodes({i \in Inst : r \notin Written(i)}, bodies),
         NEW run, \A b \in bodies : run[b] \in Step /\ Keeps(run[b], r), NEW w \in Works
  PROVE  ForwardNode(w, node, run).s.regs[r] = w.s.regs[r]
  <1>1. CASE ~Ok(w)
    BY <1>1 DEF ForwardNode
  <1>2. CASE Ok(w) /\ node.kind = "inst"
    <2>1. PICK i \in Inst : i = node.inst /\ r \notin Written(i)
      BY <1>2, NodeIs
    <2>2. ForwardNode(w, node, run) = RunLeaf(w, i)
      BY <1>2, <2>1 DEF ForwardNode
    <2> QED
      BY <2>1, <2>2, LeafKeeps
  <1>3. CASE Ok(w) /\ node.kind = "rep"
    <2>1. PICK n \in Nat, b \in bodies : n = node.count /\ b = node.body
      BY <1>3, NodeIs
    <2>2. ForwardNode(w, node, run) = Gone(w, run[b], n)
      BY <1>3, <2>1, CopiesAre DEF ForwardNode
    <2> QED
      BY <2>2, GoneKeeps
  <1>4. CASE Ok(w) /\ node.kind \in {"ifnz", "wz"}
    <2>1. PICK b \in bodies : b = node.body
      BY <1>4, NodeIs
    <2>2. Decides(ForwardNode(w, node, run), w, node, run[b])
      BY <1>4, <2>1, ForwardDecides
    <2>3. PICK n \in Nat : Writes(ForwardNode(w, node, run), Gone(w, run[b], n), n)
      BY <2>2 DEF Decides
    <2>4. PICK x \in Works : x = Gone(w, run[b], n)
      BY CopiesAre
    <2>5. Push(x, n).s = x.s /\ Fail(x, "limit").s = x.s
      <3>1. "limit" \in Faults
        BY DEF Faults
      <3>2. Fail(x, "limit").s = x.s
        BY <3>1, WorkFacts
      <3>3. Push(x, n).s = x.s
        BY PushFacts
      <3> QED
        BY <3>2, <3>3
    <2>6. ForwardNode(w, node, run).s = x.s
      BY <2>3, <2>4, <2>5 DEF Writes
    <2> QED
      BY <2>4, <2>6, GoneKeeps
  <1>5. node.kind \in {"inst", "rep", "ifnz", "wz"}
    BY NodeIs
  <1> QED
    BY <1>1, <1>2, <1>3, <1>4, <1>5

LEMMA ReverseKeeps ==
  ASSUME NEW bodies, NEW r \in Reg, NEW node \in Nodes({i \in Inst : r \notin Written(i)}, bodies),
         NEW checked, NEW back, \A b \in bodies : back[b] \in Step /\ Keeps(back[b], r), NEW w \in Works
  PROVE  ReverseNode(w, node, checked, back).s.regs[r] = w.s.regs[r]
  <1>1. CASE ~Ok(w)
    BY <1>1 DEF ReverseNode
  <1>2. CASE Ok(w) /\ node.kind = "inst"
    <2>1. PICK i \in Inst : i = node.inst /\ r \notin Written(i)
      BY <1>2, NodeIs
    <2>2. ReverseNode(w, node, checked, back) = ReverseLeaf(w, i, checked)
      BY <1>2, <2>1 DEF ReverseNode
    <2> QED
      BY <2>1, <2>2, LeafKeeps
  <1>3. CASE Ok(w) /\ node.kind = "rep"
    <2>1. PICK n \in Nat, b \in bodies : n = node.count /\ b = node.body
      BY <1>3, NodeIs
    <2>2. ReverseNode(w, node, checked, back) = Gone(w, back[b], n)
      BY <1>3, <2>1, CopiesAre DEF ReverseNode, TakeBack
    <2> QED
      BY <2>2, GoneKeeps
  <1>4. CASE Ok(w) /\ node.kind \in {"ifnz", "wz"} /\ w.j = <<>>
    <2>1. ReverseNode(w, node, checked, back) = Fail(w, "empty")
      BY <1>4 DEF ReverseNode
    <2>2. "empty" \in Faults
      BY DEF Faults
    <2>3. Fail(w, "empty").s = w.s
      BY <2>2, WorkFacts
    <2> QED
      BY <2>1, <2>3
  <1>5. CASE Ok(w) /\ node.kind \in {"ifnz", "wz"} /\ w.j # <<>>
    <2>1. PICK b \in bodies : b = node.body
      BY <1>5, NodeIs
    <2>2. PICK n \in Nat, x \in Works : n = Entry(w) /\ x = Popped(w)
      BY <1>5, PopFacts
    <2>a. x.s = w.s
      <3>1. x = [s |-> w.s, j |-> x.j, fault |-> w.fault]
        BY <1>5, <2>2, PopFacts
      <3> QED
        BY <3>1
    <2>3. ASSUME NEW k \in Nat
          PROVE  TakeBack(x, back[b], k) \in Works /\ TakeBack(x, back[b], k).s.regs[r] = w.s.regs[r]
      <3>1. TakeBack(x, back[b], k) = Gone(x, back[b], k) /\ Gone(x, back[b], k) \in Works
        BY CopiesAre DEF TakeBack
      <3> QED
        BY <2>a, <3>1, GoneKeeps
    <2>4. CASE node.kind = "wz"
      <3>1. ReverseNode(w, node, checked, back) = TakeBack(x, back[b], n)
        BY <1>5, <2>1, <2>2, <2>4 DEF ReverseNode
      <3> QED
        BY <2>3, <3>1
    <2>5. CASE node.kind = "ifnz"
      <3>1. PICK k \in Nat : k = IF n # 0 THEN 1 ELSE 0
        OBVIOUS
      <3>2. PICK y \in Works : y = TakeBack(x, back[b], k)
        BY <2>3
      <3>3. ReverseNode(w, node, checked, back) = CheckFlag(y, node, n, checked)
        BY <1>5, <2>1, <2>2, <2>5, <3>1, <3>2 DEF ReverseNode
      <3>4. CheckFlag(y, node, n, checked).s = y.s
        BY CheckFacts
      <3> QED
        BY <2>3, <3>2, <3>3, <3>4
    <2> QED
      BY <1>5, <2>4, <2>5
  <1>6. node.kind \in {"inst", "rep", "ifnz", "wz"}
    BY NodeIs
  <1> QED
    BY <1>1, <1>2, <1>3, <1>4, <1>5, <1>6

LEMMA ProgramKeeps ==
  ASSUME NEW r \in Reg, NEW checked
  PROVE  \A d \in 0 .. MaxDepth : \A p \in Sparing(r)[d] :
           Keeps(ForwardTo[d][p], r) /\ Keeps(ReverseTo(checked)[d][p], r)
  <1> DEFINE insts == {i \in Inst : r \notin Written(i)}
             Fine(d) == \A p \in TreesOf(insts)[d] :
                          Keeps(ForwardTo[d][p], r) /\ Keeps(ReverseTo(checked)[d][p], r)
             P == {d \in 0 .. MaxDepth : Fine(d)}
  <1>0. \A d \in 0 .. MaxDepth : TreesOf(insts)[d] \subseteq Trees[d]
    BY TreesGrow DEF Trees
  <1>1. ASSUME NEW d \in 0 .. MaxDepth,
               \A b \in Bodies(TreesOf(insts), d) :
                 /\ Both(Run(d)[b], Back(checked, d)[b])
                 /\ Keeps(Run(d)[b], r) /\ Keeps(Back(checked, d)[b], r)
        PROVE  Fine(d)
    <2>1. ASSUME NEW p \in TreesOf(insts)[d]
          PROVE  Keeps(ForwardTo[d][p], r) /\ Keeps(ReverseTo(checked)[d][p], r)
      <3>1. PICK n \in Nat : n = Len(p)
        BY ProgramNodes
      <3>2. PICK fs : fs = ForwardSteps(p, d)
        OBVIOUS
      <3>3. PICK bs : bs = BackSteps(p, checked, d)
        OBVIOUS
      <3>4. fs = [k \in 1 .. n |-> fs[k]] /\ bs = [k \in 1 .. n |-> bs[k]]
        BY <3>1, <3>2, <3>3 DEF ForwardSteps, BackSteps
      <3>a. /\ \A b \in Bodies(TreesOf(insts), d) : Run(d)[b] \in Step /\ Keeps(Run(d)[b], r)
            /\ \A b \in Bodies(TreesOf(insts), d) : Back(checked, d)[b] \in Step /\ Keeps(Back(checked, d)[b], r)
        BY <1>1 DEF Both
      <3>5. ASSUME NEW k \in 1 .. n PROVE Both(fs[k], bs[k]) /\ Keeps(fs[k], r) /\ Keeps(bs[k], r)
        <4>1. fs[k] = ForwardStep(p[k], Run(d)) /\ bs[k] = BackStep(p[k], checked, Back(checked, d))
          BY <3>1, <3>2, <3>3 DEF ForwardSteps, BackSteps
        <4>2. p[k] \in Nodes(insts, Bodies(TreesOf(insts), d))
          BY <3>1, ProgramNodes
        <4>3. p[k] \in Nodes(Inst, Bodies(TreesOf(insts), d))
          BY <4>2, NodesGrow
        <4>4. Both(fs[k], bs[k])
          BY <1>1, <4>1, <4>3, NodeBoth
        <4>5. ASSUME NEW w \in Works
              PROVE  /\ ForwardNode(w, p[k], Run(d)).s.regs[r] = w.s.regs[r]
                     /\ ReverseNode(w, p[k], checked, Back(checked, d)).s.regs[r] = w.s.regs[r]
          <5>1. PICK bodies : bodies = Bodies(TreesOf(insts), d)
            OBVIOUS
          <5>2. PICK node \in Nodes({i \in Inst : r \notin Written(i)}, bodies) : node = p[k]
            BY <4>2, <5>1
          <5>3. PICK run : run = Run(d)
            OBVIOUS
          <5>4. PICK back : back = Back(checked, d)
            OBVIOUS
          <5>5. \A b \in bodies : run[b] \in Step /\ Keeps(run[b], r)
            BY <3>a, <5>1, <5>3
          <5>6. \A b \in bodies : back[b] \in Step /\ Keeps(back[b], r)
            BY <3>a, <5>1, <5>4
          <5>7. ForwardNode(w, node, run).s.regs[r] = w.s.regs[r]
            BY <5>5, ForwardKeeps
          <5>8. ReverseNode(w, node, checked, back).s.regs[r] = w.s.regs[r]
            BY <5>6, ReverseKeeps
          <5> QED
            BY <5>2, <5>3, <5>4, <5>7, <5>8
        <4> QED
          BY <4>1, <4>4, <4>5 DEF Keeps, ForwardStep, BackStep
      <3>6. fs \in [1 .. n -> Step] /\ bs \in [1 .. n -> Step]
        BY <3>4, <3>5, WholeBoth
      <3>7. PICK cs \in [1 .. n -> Step] : cs = Backwards(bs, n) /\ \A k \in 1 .. n : cs[k] = bs[n + 1 - k]
        BY <3>6, BackwardsTyped
      <3>8. \A k \in 1 .. n : Keeps(cs[k], r)
        <4>1. \A k \in 1 .. n : n + 1 - k \in 1 .. n
          OBVIOUS
        <4> QED
          BY <3>5, <3>7, <4>1
      <3>9. Keeps(Whole(fs), r) /\ Keeps(Whole(cs), r)
        BY <3>5, <3>6, <3>8, WholeKeeps
      <3>10. p \in Trees[d]
        BY <1>0
      <3> QED
        BY <3>1, <3>2, <3>3, <3>7, <3>9, <3>10, ProgramIs
    <2> QED
      BY <2>1
  <1> HIDE DEF insts
  <1>2. 0 \in P
    <2>1. 0 \in 0 .. MaxDepth
      BY JournalAssumption
    <2>2. Fine(0)
      BY <1>1, <2>1 DEF Bodies
    <2> QED
      BY <2>1, <2>2
  <1>3. ASSUME NEW d \in 1 .. MaxDepth, d - 1 \in P PROVE d \in P
    <2>1. d \in 0 .. MaxDepth /\ d # 0 /\ d - 1 \in 0 .. MaxDepth
      BY JournalAssumption
    <2>2. ASSUME NEW b \in Bodies(TreesOf(insts), d)
          PROVE  /\ Both(Run(d)[b], Back(checked, d)[b])
                 /\ Keeps(Run(d)[b], r) /\ Keeps(Back(checked, d)[b], r)
      <3>1. b \in TreesOf(insts)[d - 1] /\ Run(d) = ForwardTo[d - 1] /\ Back(checked, d) = ReverseTo(checked)[d - 1]
        BY <2>1 DEF Bodies, Run, Back
      <3>2. b \in Trees[d - 1]
        BY <1>0, <2>1, <3>1
      <3> QED
        BY <1>3, <2>1, <3>1, <3>2, ProgramBoth
    <2>3. Fine(d)
      BY <1>1, <2>1, <2>2
    <2> QED
      BY <2>1, <2>3
  <1>4. \A d \in 1 .. MaxDepth : d - 1 \in P => d \in P
    BY <1>3
  <1> HIDE DEF P
  <1>5. \A d \in 0 .. MaxDepth : d \in P
    BY <1>2, <1>4, UpTo, JournalAssumption
  <1> QED
    BY <1>5 DEF P, insts, Sparing
-----------------------------------------------------------------------------
(* What a checked reversal of a stable program lets pass.                     *)

(* y is back at w from a journal j whose decisions are those of z. *)
Seen(y, w, j, z) ==
  /\ y.s = w.s /\ Len(y.j) = Len(w.j) /\ Len(w.j) <= Len(j)
  /\ \A i \in 1 .. Len(w.j) : y.j[i] = j[i]
  /\ \A i \in Len(w.j) + 1 .. Len(j) : j[i] = z.j[i]
Notices(f, b) ==
  \A w \in Works, j \in Seq(Nat) :
    Ok(f[w]) /\ Len(j) = Len(f[w].j) /\ Ok(b[Work(f[w].s, j)]) =>
      Seen(b[Work(f[w].s, j)], w, j, f[w])

LEMMA SeenOn ==
  ASSUME NEW x \in Works, NEW u \in Works, NEW z \in Works, NEW j \in Seq(Nat),
         NEW h \in Works, NEW y \in Works, Before(u.j, z.j),
         Seen(h, u, j, z), Seen(y, x, h.j, u)
  PROVE  Seen(y, x, j, z)
  <1>1. /\ x.j \in Seq(Nat) /\ u.j \in Seq(Nat) /\ z.j \in Seq(Nat) /\ h.j \in Seq(Nat) /\ y.j \in Seq(Nat)
    BY WorkFacts
  <1>2. PICK nx \in Nat, nu \in Nat, nj \in Nat : nx = Len(x.j) /\ nu = Len(u.j) /\ nj = Len(j)
    BY <1>1
  <1>3. /\ Len(h.j) = nu /\ nu <= nj
        /\ \A i \in 1 .. nu : h.j[i] = j[i]
        /\ \A i \in nu + 1 .. nj : j[i] = z.j[i]
    BY <1>2 DEF Seen
  <1>4. /\ y.s = x.s /\ Len(y.j) = nx /\ nx <= nu
        /\ \A i \in 1 .. nx : y.j[i] = h.j[i]
        /\ \A i \in nx + 1 .. nu : h.j[i] = u.j[i]
    BY <1>2, <1>3 DEF Seen
  <1>5. \A i \in 1 .. nu : z.j[i] = u.j[i]
    BY <1>2 DEF Before
  <1>6. \A i \in 1 .. nx : y.j[i] = j[i]
    <2>1. \A i \in 1 .. nx : i \in 1 .. nu
      BY <1>4
    <2> QED
      BY <1>3, <1>4, <2>1
  <1>7. ASSUME NEW i \in nx + 1 .. nj PROVE j[i] = z.j[i]
    <2>1. CASE i <= nu
      <3>1. i \in 1 .. nu /\ i \in nx + 1 .. nu
        BY <2>1
      <3> QED
        BY <1>3, <1>4, <1>5, <3>1
    <2>2. CASE ~(i <= nu)
      <3>1. i \in nu + 1 .. nj
        BY <2>2
      <3> QED
        BY <1>3, <3>1
    <2> QED
      BY <2>1, <2>2
  <1>8. nx <= nj
    BY <1>3, <1>4
  <1> QED
    BY <1>2, <1>4, <1>6, <1>7, <1>8 DEF Seen

LEMMA SeenSelf ==
  ASSUME NEW w \in Works, NEW y, NEW z, y.s = w.s, Len(y.j) = Len(w.j)
  PROVE  Seen(y, w, y.j, z)
  <1>1. PICK n \in Nat : n = Len(w.j)
    BY WorkFacts
  <1>2. \A i \in n + 1 .. n : FALSE
    OBVIOUS
  <1> QED
    BY <1>1, <1>2 DEF Seen

(* One decision more, read as it was written. *)
LEMMA SeenPush ==
  ASSUME NEW w \in Works, NEW x \in Works, NEW q \in Works, NEW y \in Works, NEW j \in Seq(Nat), NEW n \in Nat,
         Len(q.j) = Len(x.j), Len(j) = Len(q.j) + 1, \A i \in 1 .. Len(q.j) : q.j[i] = j[i],
         j[Len(j)] = n, Seen(y, w, q.j, x)
  PROVE  Seen(y, w, j, Push(x, n))
  <1>0. x.j \in Seq(Nat) /\ w.j \in Seq(Nat) /\ q.j \in Seq(Nat)
    BY WorkFacts
  <1>a. PICK xj \in Seq(Nat) : xj = x.j
    BY <1>0
  <1>1. PICK m \in Nat : xj = x.j /\ m = Len(xj)
    BY <1>a
  <1>2. PICK qj \in Seq(Nat) : qj = q.j /\ Len(qj) = m
    BY <1>0, <1>1
  <1>3. PICK nw \in Nat : nw = Len(w.j)
    BY <1>0
  <1>b. PICK z : z = Push(x, n)
    OBVIOUS
  <1>4. z = Push(x, n) /\ z.j = Append(xj, n)
    <2>1. z = [s |-> x.s, j |-> Append(x.j, n), fault |-> x.fault]
      BY <1>b, PushFacts
    <2> QED
      BY <1>1, <1>b, <2>1
  <1>5. z.j[m + 1] = n /\ \A i \in 1 .. m : z.j[i] = xj[i]
    BY <1>1, <1>4
  <1>6. /\ y.s = w.s /\ Len(y.j) = nw /\ nw <= m
        /\ \A i \in 1 .. nw : y.j[i] = qj[i]
        /\ \A i \in nw + 1 .. m : qj[i] = xj[i]
    BY <1>1, <1>2, <1>3 DEF Seen
  <1>7. Len(j) = m + 1 /\ j[m + 1] = n /\ \A i \in 1 .. m : qj[i] = j[i]
    BY <1>2
  <1>8. \A i \in 1 .. nw : y.j[i] = j[i]
    <2>1. \A i \in 1 .. nw : i \in 1 .. m
      BY <1>6
    <2> QED
      BY <1>6, <1>7, <2>1
  <1>9. ASSUME NEW i \in nw + 1 .. m + 1 PROVE j[i] = z.j[i]
    <2>1. i = m + 1 \/ (i \in nw + 1 .. m /\ i \in 1 .. m)
      OBVIOUS
    <2> QED
      BY <1>5, <1>6, <1>7, <2>1
  <1>10. nw <= m + 1
    BY <1>6
  <1> QED
    BY <1>3, <1>4, <1>6, <1>7, <1>8, <1>9, <1>10 DEF Seen

LEMMA WholeNotices ==
  ASSUME NEW n \in Nat, NEW fs \in [1 .. n -> Step], NEW bs \in [1 .. n -> Step],
         \A k \in 1 .. n : Inert(fs[k]) /\ Grows(fs[k]),
         \A k \in 1 .. n : Inert(bs[k]) /\ Notices(fs[k], bs[k])
  PROVE  Notices(Whole(fs), Whole(Backwards(bs, n)))
  <1>1. PICK cs \in [1 .. n -> Step] : cs = Backwards(bs, n) /\ \A k \in 1 .. n : cs[k] = bs[n + 1 - k]
    BY BackwardsTyped
  <1>2. ASSUME NEW w \in Works, NEW z \in Works, z = InOrder(fs, w), Ok(z),
               NEW j \in Seq(Nat), Len(j) = Len(z.j), NEW v \in Works, v = Work(z.s, j),
               Ok(InOrder(cs, v))
        PROVE  Seen(InOrder(cs, v), w, j, z)
    <2>1. PICK g : Through(g, n, w, fs) /\ InOrder(fs, w) = g[n]
      <3>1. Goes(n, w, fs)
        BY OrderIs
      <3> QED
        BY <3>1 DEF Goes
    <2>2. /\ g \in [0 .. n -> Works] /\ g[0] = w /\ g[n] = z
          /\ \A k \in 1 .. n : g[k] = fs[k][g[k - 1]]
      BY <1>2, <2>1 DEF Through, Chain
    <2>3. PICK h : Through(h, n, v, cs) /\ InOrder(cs, v) = h[n]
      <3>1. Goes(n, v, cs)
        BY OrderIs
      <3> QED
        BY <3>1 DEF Goes
    <2>4. /\ h \in [0 .. n -> Works] /\ h[0] = v
          /\ \A k \in 1 .. n : h[k] = cs[k][h[k - 1]]
      BY <2>3 DEF Through, Chain
    <2>5. \A k \in 0 .. n : Ok(g[k])
      BY <1>2, <2>1, ThroughOk
    <2>6. \A k \in 1 .. n : Inert(cs[k])
      <3>1. \A k \in 1 .. n : n + 1 - k \in 1 .. n
        OBVIOUS
      <3> QED
        BY <1>1, <3>1
    <2>7. \A k \in 0 .. n : Ok(h[k])
      BY <1>2, <2>3, <2>6, ThroughOk
    <2> DEFINE P == {k \in 0 .. n : Before(g[n - k].j, z.j) /\ Seen(h[k], g[n - k], j, z)}
    <2>8. 0 \in P
      <3>1. n - 0 = n /\ h[0].s = z.s /\ h[0].j = j
        BY <1>2, <2>4 DEF Work
      <3>2. Before(z.j, z.j)
        BY BeforeSelf, WorkFacts
      <3>3. Seen(h[0], z, h[0].j, z)
        BY <1>2, <3>1, SeenSelf
      <3> QED
        BY <2>2, <3>1, <3>2, <3>3
    <2>9. ASSUME NEW k \in 1 .. n, k - 1 \in P PROVE k \in P
      <3>1. PICK i \in 1 .. n : i = n + 1 - k /\ i = n - (k - 1) /\ i - 1 = n - k
        OBVIOUS
      <3>2. PICK x \in Works, u \in Works : x = g[i - 1] /\ u = g[i]
        <4>1. i - 1 \in 0 .. n /\ i \in 0 .. n
          OBVIOUS
        <4> QED
          BY <2>2, <4>1
      <3>3. u = fs[i][x] /\ Ok(fs[i][x])
        <4>1. i \in 0 .. n
          OBVIOUS
        <4> QED
          BY <2>2, <2>5, <3>2, <4>1
      <3>4. PICK y \in Works : y = h[k - 1] /\ Ok(y)
        <4>1. k - 1 \in 0 .. n
          OBVIOUS
        <4> QED
          BY <2>4, <2>7, <4>1
      <3>5. Before(u.j, z.j) /\ Seen(y, u, j, z)
        BY <2>9, <3>1, <3>2, <3>4
      <3>6. PICK t \in Works : t = h[k] /\ t = bs[i][y] /\ Ok(t)
        <4>1. k \in 0 .. n
          OBVIOUS
        <4> QED
          BY <1>1, <2>4, <2>7, <3>1, <3>4, <4>1
      <3>7. y = Work(u.s, y.j) /\ y.j \in Seq(Nat) /\ Len(y.j) = Len(u.j)
        BY <3>4, <3>5, WorkFacts DEF Work, Ok, Seen
      <3>8. Seen(t, x, y.j, u)
        <4>1. Notices(fs[i], bs[i])
          OBVIOUS
        <4> QED
          BY <3>3, <3>6, <3>7, <4>1 DEF Notices
      <3>9. Seen(t, x, j, z)
        BY <3>5, <3>8, SeenOn
      <3>10. Before(x.j, z.j)
        <4>1. Before(x.j, u.j)
          BY <3>3 DEF Grows
        <4> QED
          BY <3>5, <4>1, BeforeTrans, WorkFacts
      <3>11. g[n - k] = x /\ h[k] = t
        BY <3>1, <3>2, <3>6
      <3>12. Before(g[n - k].j, z.j) /\ Seen(h[k], g[n - k], j, z)
        BY <3>9, <3>10, <3>11
      <3> QED
        BY <3>12
    <2>10. \A k \in 1 .. n : k - 1 \in P => k \in P
      BY <2>9
    <2> HIDE DEF P
    <2>11. \A k \in 0 .. n : k \in P
      BY <2>8, <2>10, UpTo
    <2>12. n \in P /\ n - n = 0
      BY <2>11
    <2>13. Seen(h[n], w, j, z)
      BY <2>2, <2>12 DEF P
    <2> QED
      BY <2>3, <2>13
  <1>3. ASSUME NEW w \in Works, NEW j \in Seq(Nat), Ok(Whole(fs)[w]), Len(j) = Len(Whole(fs)[w].j),
               Ok(Whole(cs)[Work(Whole(fs)[w].s, j)])
        PROVE  Seen(Whole(cs)[Work(Whole(fs)[w].s, j)], w, j, Whole(fs)[w])
    <2>1. PICK z \in Works : z = InOrder(fs, w) /\ z = Whole(fs)[w]
      <3>1. Whole(fs)[w] \in Works
        BY WholeTyped DEF Step
      <3> QED
        BY <3>1 DEF Whole
    <2>2. PICK v \in Works : v = Work(z.s, j)
      <3>1. "none" \in Faults
        BY DEF Faults
      <3> QED
        BY <3>1, WorkFacts, WorkMade DEF Work
    <2>3. Whole(cs)[v] = InOrder(cs, v)
      BY DEF Whole
    <2>4. Ok(z) /\ Len(j) = Len(z.j) /\ Ok(InOrder(cs, v))
      BY <1>3, <2>1, <2>2, <2>3
    <2>5. Seen(InOrder(cs, v), w, j, z)
      BY <1>2, <2>1, <2>2, <2>4
    <2> QED
      BY <2>1, <2>2, <2>3, <2>5
  <1> QED
    BY <1>1, <1>3 DEF Notices

LEMMA CopiesNotice ==
  ASSUME NEW n \in Nat, NEW f, NEW b, Both(f, b), Notices(f, b)
  PROVE  Notices(Whole(Copies(n, f)), Whole(Copies(n, b)))
  <1>1. f \in Step /\ b \in Step /\ Inert(f) /\ Inert(b) /\ Grows(f)
    BY DEF Both
  <1>2. PICK fs \in [1 .. n -> Step] : fs = Copies(n, f) /\ \A k \in 1 .. n : fs[k] = f
    BY <1>1, CopiesAre
  <1>3. PICK bs \in [1 .. n -> Step] :
          bs = Copies(n, b) /\ Backwards(bs, n) = bs /\ \A k \in 1 .. n : bs[k] = b
    BY <1>1, CopiesAre
  <1>4. \A k \in 1 .. n : Inert(fs[k]) /\ Grows(fs[k])
    BY <1>1, <1>2
  <1>5. \A k \in 1 .. n : Inert(bs[k]) /\ Notices(fs[k], bs[k])
    BY <1>1, <1>2, <1>3
  <1>6. Notices(Whole(fs), Whole(bs))
    BY <1>3, <1>4, <1>5, WholeNotices
  <1> QED
    BY <1>2, <1>3, <1>6
LEMMA NodeNotices ==
  ASSUME NEW bodies, NEW node \in Nodes({i \in Inst : Invertible(i)}, bodies), node.kind # "wz",
         NEW run, NEW back, \A b \in bodies : Both(run[b], back[b]) /\ Notices(run[b], back[b]),
         node.kind = "ifnz" => Keeps(run[node.body], node.reg) /\ Keeps(back[node.body], node.reg)
  PROVE  Notices(ForwardStep(node, run), BackStep(node, TRUE, back))
  <1>1. \A b \in bodies : run[b] \in Step /\ back[b] \in Step
    BY DEF Both
  <1>2. node \in Nodes(Inst, bodies)
    BY DEF Nodes
  <1>3. ASSUME NEW w \in Works, NEW v \in Works, v = ForwardNode(w, node, run), Ok(v),
               NEW j \in Seq(Nat), Len(j) = Len(v.j), NEW u \in Works, u = Work(v.s, j),
               Ok(ReverseNode(u, node, TRUE, back))
        PROVE  Seen(ReverseNode(u, node, TRUE, back), w, j, v)
    <2>0. Ok(w)
      BY <1>3 DEF ForwardNode
    <2>a. u.s = v.s /\ u.j = j /\ u.fault = "none" /\ Ok(u)
      BY <1>3 DEF Work, Ok
    <2>1. CASE node.kind = "inst"
      <3>1. PICK i \in Inst : i = node.inst /\ Invertible(i)
        BY <2>1, NodeIs
      <3>2. v = RunLeaf(w, i)
        BY <1>3, <2>0, <2>1, <3>1 DEF ForwardNode
      <3>3. InRange(w.s, i) /\ v = [s |-> Exec(w.s, i), j |-> w.j, fault |-> w.fault]
        BY <1>3, <2>0, <3>2, LeafFacts
      <3>4. ReverseNode(u, node, TRUE, back) = ReverseLeaf(u, i, TRUE)
        BY <2>a, <2>1, <3>1 DEF ReverseNode
      <3>5. /\ Inverse(i) \in Inst /\ InRange(v.s, Inverse(i))
            /\ Exec(v.s, Inverse(i)) = w.s
        BY <3>1, <3>3, ExecCancel, WorkFacts
      <3>6. ReverseLeaf(u, i, TRUE) = RunLeaf(u, Inverse(i))
        BY <3>1 DEF ReverseLeaf, Invertible
      <3>7. RunLeaf(u, Inverse(i)) = [s |-> w.s, j |-> j, fault |-> "none"]
        BY <2>a, <3>5, LeafFacts
      <3>a. PICK y : y = ReverseNode(u, node, TRUE, back)
        OBVIOUS
      <3>8. y.s = w.s /\ y.j = j
        <4>1. y = [s |-> w.s, j |-> j, fault |-> "none"]
          BY <3>4, <3>6, <3>7, <3>a
        <4> QED
          BY <4>1
      <3>9. Len(y.j) = Len(w.j)
        <4>1. v.j = w.j
          BY <3>3
        <4> QED
          BY <1>3, <3>8, <4>1
      <3> QED
        BY <3>a, <3>8, <3>9, SeenSelf
    <2>2. CASE node.kind = "rep"
      <3>1. PICK n \in Nat, b \in bodies : n = node.count /\ b = node.body
        BY <2>2, NodeIs
      <3>2. v = Whole(Copies(n, run[b]))[w]
        BY <1>1, <1>3, <2>0, <2>2, <3>1, CopiesAre DEF ForwardNode, Gone
      <3>3. ReverseNode(u, node, TRUE, back) = Whole(Copies(n, back[b]))[u]
        BY <1>1, <2>a, <2>2, <3>1, CopiesAre DEF ReverseNode, TakeBack, Gone
      <3>4. Notices(Whole(Copies(n, run[b])), Whole(Copies(n, back[b])))
        BY CopiesNotice
      <3> QED
        BY <1>3, <3>2, <3>3, <3>4 DEF Notices
    <2>3. CASE node.kind = "ifnz"
      <3>1. PICK b \in bodies : b = node.body
        BY <2>3, NodeIs
      <3>2. PICK f \in Step, r \in Step : f = run[b] /\ r = back[b]
        BY <1>1
      <3>3. /\ Notices(f, r) /\ Keeps(f, node.reg) /\ Keeps(r, node.reg)
        BY <2>3, <3>1, <3>2
      <3>4. Decides(v, w, node, f)
        BY <1>3, <2>0, <2>3, <3>1, <3>2, ForwardDecides
      <3>5. PICK n \in Nat : Writes(v, Gone(w, f, n), n) /\ n = IF Condition(w, node) THEN 1 ELSE 0
        BY <2>3, <3>4 DEF Decides
      <3>6. PICK x \in Works : x = Gone(w, f, n)
        BY CopiesAre
      <3>7. Ok(x) /\ v = Push(x, n)
        BY <1>3, <3>5, <3>6, WritesFacts
      <3>8. v.s = x.s /\ Len(v.j) = Len(x.j) + 1 /\ Len(x.j) \in Nat
        <4>1. v = [s |-> x.s, j |-> Append(x.j, n), fault |-> x.fault] /\ x.j \in Seq(Nat)
          BY <3>7, PushFacts, WorkFacts
        <4> QED
          BY <4>1
      <3>9. u.j # <<>>
        BY <1>3, <2>a, <3>8
      <3>10. PICK q \in Works, e \in Nat : q = Popped(u) /\ e = Entry(u)
        BY <3>9, PopFacts
      <3>11. /\ q.s = x.s /\ Ok(q) /\ Len(q.j) = Len(x.j) /\ Len(j) = Len(q.j) + 1
             /\ \A i \in 1 .. Len(q.j) : q.j[i] = j[i]
        <4>1. q = [s |-> u.s, j |-> q.j, fault |-> u.fault]
          BY <3>9, <3>10, PopFacts
        <4>2. Len(q.j) = Len(j) - 1 /\ \A i \in 1 .. Len(j) - 1 : q.j[i] = j[i]
          BY <2>a, <3>9, <3>10, PopFacts
        <4>3. q.s = u.s /\ q.fault = "none"
          BY <2>a, <4>1
        <4> QED
          BY <1>3, <2>a, <3>8, <4>2, <4>3 DEF Ok
      <3>12. PICK m \in Nat : m = IF e # 0 THEN 1 ELSE 0
        OBVIOUS
      <3>13. PICK y \in Works : y = Gone(q, r, m) /\ y = TakeBack(q, r, m)
        BY CopiesAre DEF TakeBack
      <3>14. ReverseNode(u, node, TRUE, back) = CheckFlag(y, node, e, TRUE)
        BY <2>a, <2>3, <3>1, <3>2, <3>9, <3>10, <3>12, <3>13 DEF ReverseNode
      <3>15. ReverseNode(u, node, TRUE, back) = y /\ e = IF Condition(y, node) THEN 1 ELSE 0
        <4>1. PICK z : z = CheckFlag(y, node, e, TRUE)
          OBVIOUS
        <4>2. Ok(z)
          BY <1>3, <3>14, <4>1
        <4>3. z = y /\ e = IF Condition(y, node) THEN 1 ELSE 0
          BY <4>1, <4>2, CheckFacts
        <4> QED
          BY <3>14, <4>1, <4>3
      <3>16. e = n
        <4>1. x.s.regs[node.reg] = w.s.regs[node.reg]
          BY <3>3, <3>6, GoneKeeps
        <4>2. y.s.regs[node.reg] = q.s.regs[node.reg]
          <5>1. Keeps(r, node.reg)
            BY <3>3
          <5>2. Gone(q, r, m).s.regs[node.reg] = q.s.regs[node.reg]
            BY <5>1, GoneKeeps
          <5>3. y = Gone(q, r, m)
            BY <3>13
          <5> QED
            BY <5>2, <5>3
        <4>3. Condition(y, node) <=> Condition(w, node)
          BY <3>11, <4>1, <4>2 DEF Condition
        <4> QED
          BY <3>5, <3>15, <4>3
      <3>17. Seen(y, w, q.j, x)
        <4>1. CASE n = 0
          <5>1. x = w /\ y = q
            BY <3>6, <3>12, <3>13, <3>16, <4>1, FewCopies
          <5> QED
            BY <3>11, <5>1, SeenSelf
        <4>2. CASE n = 1
          <5>1. x = f[w] /\ y = r[q]
            BY <3>6, <3>12, <3>13, <3>16, <4>2, FewCopies
          <5>2. q = Work(x.s, q.j) /\ q.j \in Seq(Nat)
            BY <3>11, WorkFacts DEF Work, Ok
          <5>3. Ok(r[q])
            BY <1>3, <3>15, <5>1
          <5> QED
            BY <3>3, <3>7, <3>11, <5>1, <5>2, <5>3 DEF Notices
        <4> QED
          BY <3>5, <4>1, <4>2
      <3>18. j[Len(j)] = n
        BY <2>a, <3>10, <3>16 DEF Entry
      <3>19. Seen(y, w, j, Push(x, n))
        BY <3>11, <3>17, <3>18, SeenPush
      <3> QED
        BY <3>7, <3>15, <3>19
    <2>4. node.kind \in {"inst", "rep", "ifnz"}
      BY NodeIs
    <2> QED
      BY <2>1, <2>2, <2>3, <2>4
  <1>4. ASSUME NEW w \in Works PROVE ForwardNode(w, node, run) \in Works
    BY <1>1, <1>2, ForwardTyped
  <1>5. ASSUME NEW st \in State, NEW j \in Seq(Nat) PROVE Work(st, j) \in Works
    <2>1. "none" \in Faults
      BY DEF Faults
    <2> QED
      BY <2>1, WorkMade DEF Work
  <1> DEFINE f == ForwardStep(node, run)
             b == BackStep(node, TRUE, back)
  <1>6. ASSUME NEW w \in Works, NEW j \in Seq(Nat), Ok(f[w]), Len(j) = Len(f[w].j), Ok(b[Work(f[w].s, j)])
        PROVE  Seen(b[Work(f[w].s, j)], w, j, f[w])
    <2>1. PICK v \in Works : v = ForwardNode(w, node, run) /\ v = f[w]
      BY <1>4 DEF ForwardStep
    <2>2. PICK u \in Works : u = Work(v.s, j)
      BY <1>5, WorkFacts
    <2>3. b[u] = ReverseNode(u, node, TRUE, back)
      BY DEF BackStep
    <2> HIDE DEF f, b
    <2>4. Seen(ReverseNode(u, node, TRUE, back), w, j, v)
      BY <1>3, <1>6, <2>1, <2>2, <2>3
    <2> QED
      BY <2>1, <2>2, <2>3, <2>4
  <1> HIDE DEF f, b
  <1> QED
    BY <1>6 DEF Notices, f, b

LEMMA StableTreeNodes ==
  ASSUME NEW d \in 0 .. MaxDepth
  PROVE  StableTrees[d] = Seq(StableNodes(d, Bodies(StableTrees, d)))
  BY StableIs, Zenon DEF StableLevel, Bodies

LEMMA StableNodesFew ==
  ASSUME NEW d, NEW a, NEW b, a \subseteq b
  PROVE  StableNodes(d, a) \subseteq Nodes({i \in Inst : Invertible(i)}, b)
  BY NodesGrow DEF StableNodes

LEMMA StableReversible ==
  \A d \in 0 .. MaxDepth : StableTrees[d] \subseteq TreesOf({i \in Inst : Invertible(i)})[d]
  <1> DEFINE insts == {i \in Inst : Invertible(i)}
             P == {d \in 0 .. MaxDepth : StableTrees[d] \subseteq TreesOf(insts)[d]}
  <1>1. ASSUME NEW d \in 0 .. MaxDepth, Bodies(StableTrees, d) \subseteq Bodies(TreesOf(insts), d)
        PROVE  d \in P
    <2>1. PICK S : S = StableNodes(d, Bodies(StableTrees, d))
      OBVIOUS
    <2>2. PICK T : T = Nodes(insts, Bodies(TreesOf(insts), d))
      OBVIOUS
    <2>3. S \subseteq T
      BY <1>1, <2>1, <2>2, StableNodesFew
    <2>4. Seq(S) \subseteq Seq(T)
      BY <2>3
    <2> QED
      BY <2>1, <2>2, <2>4, TreeNodes, StableTreeNodes
  <1>2. 0 \in P
    <2>1. 0 \in 0 .. MaxDepth
      BY JournalAssumption
    <2> QED
      BY <1>1, <2>1 DEF Bodies
  <1>3. ASSUME NEW d \in 1 .. MaxDepth, d - 1 \in P PROVE d \in P
    <2>1. d \in 0 .. MaxDepth /\ d # 0
      BY JournalAssumption
    <2>2. Bodies(StableTrees, d) \subseteq Bodies(TreesOf(insts), d)
      BY <1>3, <2>1 DEF Bodies
    <2> QED
      BY <1>1, <2>1, <2>2
  <1>4. \A d \in 1 .. MaxDepth : d - 1 \in P => d \in P
    BY <1>3
  <1> HIDE DEF P
  <1>5. \A d \in 0 .. MaxDepth : d \in P
    BY <1>2, <1>4, UpTo, JournalAssumption
  <1> QED
    BY <1>5 DEF P

(* A checked reversal of a program that has only branches, none of which       *)
(* changes the register it is decided by, lets no changed decision pass.       *)
LEMMA ProgramNotices ==
  \A d \in 0 .. MaxDepth : \A p \in StableTrees[d] : Notices(ForwardTo[d][p], ReverseTo(TRUE)[d][p])
  <1> DEFINE Fine(d) == \A p \in StableTrees[d] : Notices(ForwardTo[d][p], ReverseTo(TRUE)[d][p])
             P == {d \in 0 .. MaxDepth : Fine(d)}
  <1>0. \A d \in 0 .. MaxDepth : StableTrees[d] \subseteq Trees[d]
    <2>1. \A d \in 0 .. MaxDepth : TreesOf({i \in Inst : Invertible(i)})[d] \subseteq Trees[d]
      BY TreesGrow DEF Trees
    <2> QED
      BY <2>1, StableReversible
  <1>1. ASSUME NEW d \in 0 .. MaxDepth,
               \A b \in Bodies(StableTrees, d) :
                 Both(Run(d)[b], Back(TRUE, d)[b]) /\ Notices(Run(d)[b], Back(TRUE, d)[b])
        PROVE  Fine(d)
    <2>1. ASSUME NEW p \in StableTrees[d]
          PROVE  Notices(ForwardTo[d][p], ReverseTo(TRUE)[d][p])
      <3>0. p \in Seq(StableNodes(d, Bodies(StableTrees, d)))
        BY StableTreeNodes
      <3>1. PICK n \in Nat : n = Len(p) /\ \A k \in 1 .. n : p[k] \in StableNodes(d, Bodies(StableTrees, d))
        <4>1. PICK S : S = StableNodes(d, Bodies(StableTrees, d))
          OBVIOUS
        <4>2. p \in Seq(S)
          BY <3>0, <4>1
        <4>3. Len(p) \in Nat /\ \A k \in 1 .. Len(p) : p[k] \in S
          BY <4>2
        <4> QED
          BY <4>1, <4>3
      <3>2. PICK fs : fs = ForwardSteps(p, d)
        OBVIOUS
      <3>3. PICK bs : bs = BackSteps(p, TRUE, d)
        OBVIOUS
      <3>4. fs = [k \in 1 .. n |-> fs[k]] /\ bs = [k \in 1 .. n |-> bs[k]]
        BY <3>1, <3>2, <3>3 DEF ForwardSteps, BackSteps
      <3>5. ASSUME NEW k \in 1 .. n PROVE Both(fs[k], bs[k]) /\ Notices(fs[k], bs[k])
        <4>1. PICK bodies : bodies = Bodies(StableTrees, d)
          OBVIOUS
        <4>2. PICK run, back : run = Run(d) /\ back = Back(TRUE, d)
          OBVIOUS
        <4>3. PICK node \in Nodes({i \in Inst : Invertible(i)}, bodies) :
                /\ node = p[k] /\ node.kind # "wz"
                /\ node.kind = "ifnz" => node.body \in Sparing(node.reg)[d - 1]
          BY <3>1, <4>1 DEF StableNodes
        <4>4. fs[k] = ForwardStep(node, run) /\ bs[k] = BackStep(node, TRUE, back)
          BY <3>1, <3>2, <3>3, <4>2, <4>3 DEF ForwardSteps, BackSteps
        <4>5. \A b \in bodies : Both(run[b], back[b]) /\ Notices(run[b], back[b])
          BY <1>1, <4>1, <4>2
        <4>6. node \in Nodes(Inst, bodies)
          BY NodesGrow
        <4>7. Both(fs[k], bs[k])
          BY <4>4, <4>5, <4>6, NodeBoth
        <4>8. node.kind = "ifnz" => Keeps(run[node.body], node.reg) /\ Keeps(back[node.body], node.reg)
          <5>1. SUFFICES ASSUME node.kind = "ifnz"
                PROVE  Keeps(run[node.body], node.reg) /\ Keeps(back[node.body], node.reg)
            OBVIOUS
          <5>2. node.reg \in Reg /\ node.body \in bodies
            BY <5>1, NodeIs
          <5>3. d # 0 /\ d - 1 \in 0 .. MaxDepth
            BY <4>1, <5>2, JournalAssumption DEF Bodies
          <5>a. PICK r \in Reg : r = node.reg
            BY <5>2
          <5>b. PICK c : c = node.body
            OBVIOUS
          <5>4. r = node.reg /\ c = node.body /\ c \in Sparing(r)[d - 1]
            BY <4>3, <5>1, <5>a, <5>b
          <5>5. Keeps(ForwardTo[d - 1][c], r) /\ Keeps(ReverseTo(TRUE)[d - 1][c], r)
            BY <5>3, <5>4, ProgramKeeps
          <5> QED
            BY <4>2, <5>3, <5>4, <5>5 DEF Run, Back
        <4>9. Notices(fs[k], bs[k])
          BY <4>3, <4>4, <4>5, <4>8, NodeNotices
        <4> QED
          BY <4>7, <4>9
      <3>6. fs \in [1 .. n -> Step] /\ bs \in [1 .. n -> Step]
        BY <3>4, <3>5, WholeBoth
      <3>7. \A k \in 1 .. n : Inert(fs[k]) /\ Grows(fs[k])
        BY <3>5 DEF Both
      <3>8. \A k \in 1 .. n : Inert(bs[k]) /\ Notices(fs[k], bs[k])
        BY <3>5 DEF Both
      <3>9. Notices(Whole(fs), Whole(Backwards(bs, n)))
        BY <3>6, <3>7, <3>8, WholeNotices
      <3>10. p \in Trees[d]
        BY <1>0
      <3> QED
        BY <3>1, <3>2, <3>3, <3>9, <3>10, ProgramIs
    <2> QED
      BY <2>1
  <1>2. 0 \in P
    <2>1. 0 \in 0 .. MaxDepth
      BY JournalAssumption
    <2>2. Fine(0)
      BY <1>1, <2>1 DEF Bodies
    <2> QED
      BY <2>1, <2>2
  <1>3. ASSUME NEW d \in 1 .. MaxDepth, d - 1 \in P PROVE d \in P
    <2>1. d \in 0 .. MaxDepth /\ d # 0 /\ d - 1 \in 0 .. MaxDepth
      BY JournalAssumption
    <2>2. ASSUME NEW b \in Bodies(StableTrees, d)
          PROVE  Both(Run(d)[b], Back(TRUE, d)[b]) /\ Notices(Run(d)[b], Back(TRUE, d)[b])
      <3>1. b \in StableTrees[d - 1] /\ Run(d) = ForwardTo[d - 1] /\ Back(TRUE, d) = ReverseTo(TRUE)[d - 1]
        BY <2>1 DEF Bodies, Run, Back
      <3>2. b \in Trees[d - 1]
        BY <1>0, <2>1, <3>1
      <3> QED
        BY <1>3, <2>1, <3>1, <3>2, ProgramBoth
    <2>3. Fine(d)
      BY <1>1, <2>1, <2>2
    <2> QED
      BY <2>1, <2>3
  <1>4. \A d \in 1 .. MaxDepth : d - 1 \in P => d \in P
    BY <1>3
  <1> HIDE DEF P
  <1>5. \A d \in 0 .. MaxDepth : d \in P
    BY <1>2, <1>4, UpTo, JournalAssumption
  <1> QED
    BY <1>5 DEF P
-----------------------------------------------------------------------------
(* The caller's programs: what a call of forward, reverse or reverse_checked   *)
(* does.                                                                       *)

LEMMA CallTyped ==
  ASSUME NEW p \in CtlPrograms, NEW st \in State, NEW j \in Seq(Nat), NEW checked
  PROVE  /\ Work(st, j) \in Works /\ Work(st, j).s = st /\ Work(st, j).j = j
         /\ SeqForward(Work(st, j), p) \in Works
         /\ SeqReverse(Work(st, j), p, checked) \in Works
         /\ Before(j, SeqForward(Work(st, j), p).j)
  <1>1. PICK w \in Works : w = Work(st, j) /\ w.s = st /\ w.j = j
    <2>1. "none" \in Faults
      BY DEF Faults
    <2> QED
      BY <2>1, WorkMade DEF Work
  <1>2. PICK f, b : f = ForwardTo[MaxDepth][p] /\ b = ReverseTo(checked)[MaxDepth][p]
    OBVIOUS
  <1>3. Both(f, b)
    <2>1. MaxDepth \in 0 .. MaxDepth /\ p \in Trees[MaxDepth]
      BY JournalAssumption
    <2> QED
      BY <1>2, <2>1, ProgramBoth
  <1>4. f[w] \in Works /\ b[w] \in Works /\ Before(w.j, f[w].j)
    BY <1>3 DEF Both, Step, Grows
  <1>5. SeqForward(w, p) = f[w] /\ SeqReverse(w, p, checked) = b[w]
    BY <1>2 DEF SeqForward, SeqReverse
  <1> QED
    BY <1>1, <1>4, <1>5

(* Back from where forward ended. *)
LEMMA CallBack ==
  ASSUME NEW p \in CtlPrograms, NEW st \in State, NEW j \in Seq(Nat), NEW checked \in BOOLEAN,
         NEW x, x = SeqForward(Work(st, j), p), Ok(x),
         NEW y, y = SeqReverse(Work(x.s, x.j), p, checked)
  PROVE  /\ Before(j, y.j)
         /\ Reversible(p) => Ok(y) /\ y.s = st /\ y.j = j
         /\ ~checked /\ Ok(y) => y.s = st /\ y.j = j
  <1>1. PICK w \in Works : w = Work(st, j) /\ w.s = st /\ w.j = j /\ Ok(w)
    BY CallTyped DEF Work, Ok
  <1>2. PICK f, b : f = ForwardTo[MaxDepth][p] /\ b = ReverseTo(checked)[MaxDepth][p]
    OBVIOUS
  <1>3. MaxDepth \in 0 .. MaxDepth /\ p \in Trees[MaxDepth]
    BY JournalAssumption
  <1>4. Both(f, b)
    BY <1>2, <1>3, ProgramBoth
  <1>5. x = f[w] /\ x \in Works
    BY <1>1, <1>2, CallTyped DEF SeqForward
  <1>6. x = Work(x.s, x.j)
    BY <1>5, WorkFacts DEF Work, Ok
  <1>7. y = b[x]
    BY <1>2, <1>6 DEF SeqReverse
  <1>8. Before(j, y.j)
    <2>1. Pops(f, b) /\ x.s \in State
      BY <1>4, <1>5, WorkFacts DEF Both
    <2>2. Takes(b[Work(x.s, x.j)], j)
      BY <1>1, <1>5, <2>1 DEF Pops
    <2> QED
      BY <1>6, <1>7, <2>2 DEF Takes
  <1>9. Reversible(p) => y = w
    <2>1. SUFFICES ASSUME Reversible(p) PROVE y = w
      OBVIOUS
    <2>2. PICK insts \in SUBSET Inst : insts = {i \in Inst : Invertible(i)}
      OBVIOUS
    <2>3. p \in TreesOf(insts)[MaxDepth]
      BY <2>1, <2>2 DEF Reversible
    <2>4. \A i \in insts : Invertible(i)
      BY <2>2
    <2>5. Inverts(f, b, TRUE)
      BY <1>2, <1>3, <2>3, <2>4, ProgramInverts
    <2> QED
      BY <1>5, <1>7, <2>5 DEF Inverts
  <1>10. ~checked /\ Ok(y) => y = w
    <2>1. SUFFICES ASSUME ~checked, Ok(y) PROVE y = w
      OBVIOUS
    <2>2. PICK insts \in SUBSET Inst : insts = Inst
      OBVIOUS
    <2>3. p \in TreesOf(insts)[MaxDepth]
      BY <1>3, <2>2 DEF Trees
    <2>4. Inverts(f, b, FALSE)
      BY <1>2, <1>3, <2>1, <2>3, ProgramInverts
    <2> QED
      BY <1>5, <1>7, <2>1, <2>4 DEF Inverts
  <1> QED
    BY <1>1, <1>8, <1>9, <1>10

(* Back from a journal in which a decision of a stable program differs. *)
LEMMA CallNotices ==
  ASSUME NEW p \in CtlPrograms, p \in StableTrees[MaxDepth], NEW st \in State, NEW j \in Seq(Nat),
         NEW x, x = SeqForward(Work(st, j), p), Ok(x),
         NEW k \in Seq(Nat), Len(k) = Len(x.j), Ok(SeqReverse(Work(x.s, k), p, TRUE))
  PROVE  SubSeq(k, Len(j) + 1, Len(k)) = SubSeq(x.j, Len(j) + 1, Len(x.j))
  <1>1. PICK w \in Works : w = Work(st, j) /\ w.j = j
    BY CallTyped
  <1>2. PICK f, b : f = ForwardTo[MaxDepth][p] /\ b = ReverseTo(TRUE)[MaxDepth][p]
    OBVIOUS
  <1>3. MaxDepth \in 0 .. MaxDepth
    BY JournalAssumption
  <1>4. Notices(f, b)
    BY <1>2, <1>3, ProgramNotices
  <1>5. x = f[w] /\ x \in Works
    BY <1>1, <1>2, CallTyped DEF SeqForward
  <1>6. Ok(b[Work(x.s, k)])
    BY <1>2 DEF SeqReverse
  <1>7. Seen(b[Work(x.s, k)], w, k, x)
    BY <1>4, <1>5, <1>6 DEF Notices
  <1>8. \A i \in Len(j) + 1 .. Len(k) : k[i] = x.j[i]
    BY <1>1, <1>7 DEF Seen
  <1>9. PICK l \in Seq(Nat) : l = x.j /\ Len(l) = Len(k)
    BY <1>5, WorkFacts
  <1>10. PICK m \in Nat, n \in Nat : m = Len(j) /\ n = Len(k)
    OBVIOUS
  <1>11. \A i \in m + 1 .. n : k[i] = l[i]
    BY <1>8, <1>9, <1>10
  <1>12. SubSeq(k, m + 1, n) = SubSeq(l, m + 1, n)
    BY <1>9, <1>10, <1>11
  <1> QED
    BY <1>9, <1>10, <1>12

LEMMA BeforeIsPrefix ==
  ASSUME NEW a \in Seq(Nat), NEW b \in Seq(Nat), Before(a, b)
  PROVE  Seqs!IsPrefix(a, b)
  <1>1. PICK n \in Nat : n = Len(a)
    OBVIOUS
  <1>2. n <= Len(b) /\ \A i \in 1 .. n : b[i] = a[i]
    BY <1>1 DEF Before
  <1>3. SubSeq(a, 1, n) = SubSeq(b, 1, n)
    BY <1>1, <1>2
  <1> QED
    BY <1>1, <1>2, <1>3 DEF Seqs!IsPrefix
-----------------------------------------------------------------------------
(* The caller. While no call has failed, every frame it keeps records a run    *)
(* that went well, and what it left.                                           *)

Ended(w) == [s |-> w.s, j |-> w.j]
Frames   == [prog : CtlPrograms, s : State, j : Seq(Nat), left : [s : State, j : Seq(Nat)]]
KeptFrame(f) ==
  LET w == SeqForward(Work(f.s, f.j), f.prog) IN Ok(w) /\ f.left = Ended(w)

CallsTyped(m, jr, cs, rn) ==
  /\ m \in State /\ jr \in Seq(Nat) /\ cs \in Seq(Frames)
  /\ rn \in Nat /\ rn <= MaxRuns /\ Len(cs) <= rn
FramesKept(cs, la) == la.fault = "none" => \A k \in 1 .. Len(cs) : KeptFrame(cs[k])

(* The properties of the latest call. *)
Back0(la) == la.call \in {"reverse", "reverse_checked"}
CallRestores(m, jr, la) ==
  Back0(la) /\ la.from = la.frame.left =>
    /\ Reversible(la.frame.prog) => Ok(la) /\ m = la.frame.s /\ jr = la.frame.j
    /\ la.call = "reverse" /\ Ok(la) => m = la.frame.s /\ jr = la.frame.j
CallKeeps(jr, la) ==
  la.call = "forward" \/ (Back0(la) /\ la.from = la.frame.left) => Seqs!IsPrefix(la.frame.j, jr)
CallSees(la) ==
  la.call = "reverse_checked" /\ la.frame.prog \in StableTrees[MaxDepth]
    /\ la.from.s = la.frame.left.s /\ Len(la.from.j) = Len(la.frame.left.j)
    /\ SubSeq(la.from.j, Len(la.frame.j) + 1, Len(la.from.j))
         # SubSeq(la.frame.left.j, Len(la.frame.j) + 1, Len(la.frame.left.j))
  => ~Ok(la)
CallGood(m, jr, la) == la.fault \in Faults /\ CallRestores(m, jr, la) /\ CallKeeps(jr, la) /\ CallSees(la)

CtlInv ==
  /\ CallsTyped(machine, journal, calls, runs)
  /\ damaged \in BOOLEAN
  /\ FramesKept(calls, last)
  /\ CallGood(machine, journal, last)

(* A run that goes on the stack of frames. *)
LEMMA ForwardCall ==
  ASSUME NEW m, NEW jr, NEW cs, NEW rn, CallsTyped(m, jr, cs, rn), rn < MaxRuns,
         \A k \in 1 .. Len(cs) : KeptFrame(cs[k]),
         NEW p \in CtlPrograms, NEW w, w = SeqForward(Work(m, jr), p),
         NEW f, f = [prog |-> p, s |-> m, j |-> jr, left |-> Ended(w)],
         NEW la, la = [call |-> "forward", fault |-> w.fault, frame |-> f]
  PROVE  /\ CallsTyped(w.s, w.j, Append(cs, f), rn + 1)
         /\ FramesKept(Append(cs, f), la)
         /\ CallGood(w.s, w.j, la)
  <1>1. m \in State /\ jr \in Seq(Nat) /\ cs \in Seq(Frames) /\ rn \in Nat /\ Len(cs) <= rn
    BY DEF CallsTyped
  <1>2. w \in Works /\ Before(jr, w.j)
    BY <1>1, CallTyped
  <1>3. w.s \in State /\ w.j \in Seq(Nat) /\ w.fault \in Faults
    BY <1>2, WorkFacts
  <1>4. f \in Frames
    BY <1>1, <1>3 DEF Frames, Ended
  <1>5. PICK ds : ds = Append(cs, f)
    OBVIOUS
  <1>6. /\ ds \in Seq(Frames) /\ Len(ds) = Len(cs) + 1 /\ Len(cs) \in Nat
        /\ \A k \in 1 .. Len(cs) : ds[k] = cs[k]
        /\ ds[Len(cs) + 1] = f
    BY <1>1, <1>4, <1>5
  <1>7. CallsTyped(w.s, w.j, ds, rn + 1)
    <2>1. rn + 1 \in Nat /\ rn + 1 <= MaxRuns /\ Len(ds) <= rn + 1
      BY <1>1, <1>6, JournalAssumption
    <2> QED
      BY <1>3, <1>6, <2>1 DEF CallsTyped
  <1>8. la.call = "forward" /\ la.fault = w.fault /\ la.frame = f
    OBVIOUS
  <1>9. FramesKept(ds, la)
    <2>1. SUFFICES ASSUME w.fault = "none", NEW k \in 1 .. Len(ds) PROVE KeptFrame(ds[k])
      BY <1>8 DEF FramesKept
    <2>2. CASE k \in 1 .. Len(cs)
      BY <1>6, <2>2
    <2>3. CASE k = Len(cs) + 1
      <3>1. f.prog = p /\ f.s = m /\ f.j = jr /\ f.left = Ended(w)
        OBVIOUS
      <3>2. Ok(w)
        BY <2>1 DEF Ok
      <3>3. KeptFrame(f)
        BY <3>1, <3>2 DEF KeptFrame
      <3> QED
        BY <1>6, <2>3, <3>3
    <2> QED
      BY <1>6, <2>2, <2>3
  <1>10. CallGood(w.s, w.j, la)
    <2>1. ~Back0(la) /\ la.call # "reverse_checked"
      BY <1>8 DEF Back0
    <2>2. la.frame.j = jr
      BY <1>8
    <2>3. Seqs!IsPrefix(jr, w.j)
      BY <1>1, <1>2, <1>3, BeforeIsPrefix
    <2> QED
      BY <1>3, <1>8, <2>1, <2>2, <2>3 DEF CallGood, CallRestores, CallKeeps, CallSees
  <1> QED
    BY <1>5, <1>7, <1>9, <1>10

(* The latest run is taken off the stack. *)
LEMMA ReverseCall ==
  ASSUME NEW m, NEW jr, NEW cs, NEW rn, CallsTyped(m, jr, cs, rn), cs # <<>>,
         \A k \in 1 .. Len(cs) : KeptFrame(cs[k]), NEW checked \in BOOLEAN,
         NEW f, f = Seqs!Last(cs), NEW w, w = SeqReverse(Work(m, jr), f.prog, checked),
         NEW la, la = [call |-> IF checked THEN "reverse_checked" ELSE "reverse", fault |-> w.fault,
                       frame |-> f, from |-> [s |-> m, j |-> jr]]
  PROVE  /\ CallsTyped(w.s, w.j, Seqs!Front(cs), rn)
         /\ FramesKept(Seqs!Front(cs), la)
         /\ CallGood(w.s, w.j, la)
  <1>1. /\ m \in State /\ jr \in Seq(Nat) /\ cs \in Seq(Frames) /\ rn \in Nat
        /\ rn <= MaxRuns /\ Len(cs) <= rn
    BY DEF CallsTyped
  <1>2. PICK n \in Nat : n = Len(cs) - 1 /\ Len(cs) = n + 1 /\ n + 1 \in 1 .. Len(cs)
    <2>1. PICK l \in Nat : l = Len(cs) /\ l # 0
      BY <1>1
    <2>2. l - 1 \in Nat /\ l = (l - 1) + 1 /\ (l - 1) + 1 \in 1 .. l
      BY <2>1
    <2> QED
      BY <2>1, <2>2
  <1>3. f = cs[n + 1] /\ f \in Frames /\ KeptFrame(f)
    <2>1. f = cs[n + 1]
      BY <1>2 DEF Seqs!Last
    <2>2. cs[n + 1] \in Frames
      BY <1>1, <1>2
    <2> QED
      BY <1>2, <2>1, <2>2
  <1>4. PICK p \in CtlPrograms, st \in State, j \in Seq(Nat) : p = f.prog /\ st = f.s /\ j = f.j
    BY <1>3 DEF Frames
  <1>5. PICK x : x = SeqForward(Work(st, j), p)
    OBVIOUS
  <1>6. Ok(x) /\ f.left = Ended(x)
    BY <1>3, <1>4, <1>5 DEF KeptFrame
  <1>7. x \in Works /\ x.s \in State /\ x.j \in Seq(Nat)
    BY <1>5, CallTyped, WorkFacts
  <1>8. w \in Works
    BY <1>1, <1>4, CallTyped
  <1>9. w.s \in State /\ w.j \in Seq(Nat) /\ w.fault \in Faults
    BY <1>8, WorkFacts
  <1>10. PICK ds : ds = Seqs!Front(cs)
    OBVIOUS
  <1>11. ds \in Seq(Frames) /\ Len(ds) = n /\ \A k \in 1 .. n : ds[k] = cs[k]
    <2>1. ds = SubSeq(cs, 1, n)
      BY <1>2, <1>10 DEF Seqs!Front
    <2> QED
      BY <1>1, <1>2, <2>1
  <1>12. CallsTyped(w.s, w.j, ds, rn)
    <2>1. Len(ds) <= rn
      BY <1>1, <1>2, <1>11
    <2> QED
      BY <1>1, <1>9, <1>11, <2>1 DEF CallsTyped
  <1>13. FramesKept(ds, la)
    <2>1. \A k \in 1 .. n : k \in 1 .. Len(cs)
      BY <1>2
    <2> QED
      BY <1>11, <2>1 DEF FramesKept
  <1>14. /\ la.call = IF checked THEN "reverse_checked" ELSE "reverse"
         /\ la.fault = w.fault /\ la.frame = f /\ la.from = [s |-> m, j |-> jr]
    OBVIOUS
  <1>15. Ok(la) <=> Ok(w)
    BY <1>14 DEF Ok
  <1>16. la.from.s = m /\ la.from.j = jr /\ f.left.s = x.s /\ f.left.j = x.j
    BY <1>6, <1>14 DEF Ended
  <1>17. ASSUME la.from = f.left
         PROVE  /\ Before(j, w.j)
                /\ Reversible(p) => Ok(w) /\ w.s = st /\ w.j = j
                /\ ~checked /\ Ok(w) => w.s = st /\ w.j = j
    <2>1. m = x.s /\ jr = x.j
      BY <1>16, <1>17
    <2>2. w = SeqReverse(Work(x.s, x.j), p, checked)
      BY <1>4, <2>1
    <2> QED
      BY <1>5, <1>6, <2>2, CallBack
  <1>18. CallRestores(w.s, w.j, la)
    <2>1. ~checked <=> la.call = "reverse"
      BY <1>14
    <2> QED
      BY <1>4, <1>14, <1>15, <1>17, <2>1 DEF CallRestores
  <1>19. CallKeeps(w.j, la)
    <2>1. la.call # "forward"
      BY <1>14
    <2>2. la.from = f.left => Seqs!IsPrefix(j, w.j)
      BY <1>9, <1>17, BeforeIsPrefix
    <2> QED
      BY <1>4, <1>14, <2>1, <2>2 DEF CallKeeps
  <1>20. CallSees(la)
    <2>1. SUFFICES ASSUME la.call = "reverse_checked", p \in StableTrees[MaxDepth],
                          m = x.s, Len(jr) = Len(x.j), Ok(w)
                   PROVE  SubSeq(jr, Len(j) + 1, Len(jr)) = SubSeq(x.j, Len(j) + 1, Len(x.j))
      BY <1>4, <1>14, <1>15, <1>16, Zenon DEF CallSees
    <2>2. checked = TRUE
      BY <1>14, <2>1
    <2>3. w = SeqReverse(Work(x.s, jr), p, TRUE)
      BY <1>4, <2>1, <2>2
    <2>4. Ok(SeqReverse(Work(x.s, jr), p, TRUE))
      BY <2>1, <2>3
    <2>5. PICK k \in Seq(Nat) : k = jr
      BY <1>1
    <2>6. Len(k) = Len(x.j) /\ Ok(SeqReverse(Work(x.s, k), p, TRUE)) /\ p \in StableTrees[MaxDepth]
      BY <2>1, <2>4, <2>5
    <2>7. x = SeqForward(Work(st, j), p) /\ Ok(x)
      BY <1>5, <1>6
    <2>8. SubSeq(k, Len(j) + 1, Len(k)) = SubSeq(x.j, Len(j) + 1, Len(x.j))
      BY <2>6, <2>7, CallNotices, ZenonT(30)
    <2> QED
      BY <2>5, <2>8
  <1>21. CallGood(w.s, w.j, la)
    BY <1>9, <1>14, <1>18, <1>19, <1>20 DEF CallGood
  <1> QED
    BY <1>10, <1>12, <1>13, <1>21
LEMMA CtlInitInv == CtlInit => CtlInv
  <1> SUFFICES ASSUME CtlInit PROVE CtlInv
    OBVIOUS
  <1>1. /\ machine \in State /\ journal = <<>> /\ calls = <<>> /\ runs = 0 /\ damaged = FALSE
        /\ last = [call |-> "none", fault |-> "none"]
    BY JournalAssumption DEF CtlInit
  <1>2. CallsTyped(machine, journal, calls, runs)
    BY <1>1, JournalAssumption DEF CallsTyped
  <1>3. FramesKept(calls, last)
    BY <1>1 DEF FramesKept
  <1>4. last.call = "none" /\ last.fault = "none"
    BY <1>1
  <1>5. CallGood(machine, journal, last)
    BY <1>4 DEF CallGood, CallRestores, CallKeeps, CallSees, Back0, Faults
  <1> QED
    BY <1>1, <1>2, <1>3, <1>5 DEF CtlInv

LEMMA CtlStepInv == CtlInv /\ [CtlNext]_ctlVars => CtlInv'
  <1> SUFFICES ASSUME CtlInv, [CtlNext]_ctlVars PROVE CtlInv'
    OBVIOUS
  <1>1. /\ CallsTyped(machine, journal, calls, runs) /\ damaged \in BOOLEAN
        /\ FramesKept(calls, last) /\ CallGood(machine, journal, last)
    BY DEF CtlInv
  <1>2. Going => \A k \in 1 .. Len(calls) : KeptFrame(calls[k])
    BY <1>1 DEF Going, FramesKept
  <1> DEFINE Goal == /\ CallsTyped(machine', journal', calls', runs') /\ damaged' \in BOOLEAN
                     /\ FramesKept(calls', last') /\ CallGood(machine', journal', last')
  <1>3. ASSUME NEW p \in CtlPrograms, Forward(p) PROVE Goal
    <2>1. PICK w : w = SeqForward(Work(machine, journal), p)
      OBVIOUS
    <2>2. PICK f : f = [prog |-> p, s |-> machine, j |-> journal, left |-> Ended(w)]
      OBVIOUS
    <2>3. f = Frame(p, w)
      BY <2>2 DEF Frame, Ended
    <2>4. /\ Going /\ runs < MaxRuns /\ runs' = runs + 1
          /\ machine' = w.s /\ journal' = w.j
          /\ calls' = Append(calls, f)
          /\ last' = [call |-> "forward", fault |-> w.fault, frame |-> f]
          /\ damaged' = damaged
      BY <1>3, <2>1, <2>3 DEF Forward
    <2>5. PICK la : la = [call |-> "forward", fault |-> w.fault, frame |-> f]
      OBVIOUS
    <2>6. /\ CallsTyped(w.s, w.j, Append(calls, f), runs + 1)
          /\ FramesKept(Append(calls, f), la)
          /\ CallGood(w.s, w.j, la)
      BY <1>1, <1>2, <2>1, <2>2, <2>4, <2>5, ForwardCall
    <2> QED
      BY <1>1, <2>4, <2>5, <2>6
  <1>4. ASSUME NEW checked \in BOOLEAN,
               TakeBackLast(IF checked THEN "reverse_checked" ELSE "reverse", checked)
        PROVE  Goal
    <2>1. PICK f : f = Seqs!Last(calls)
      OBVIOUS
    <2>2. PICK w : w = SeqReverse(Work(machine, journal), f.prog, checked)
      OBVIOUS
    <2>3. PICK la : la = [call |-> IF checked THEN "reverse_checked" ELSE "reverse", fault |-> w.fault,
                          frame |-> f, from |-> [s |-> machine, j |-> journal]]
      OBVIOUS
    <2>4. /\ Going /\ calls # <<>>
          /\ machine' = w.s /\ journal' = w.j
          /\ calls' = Seqs!Front(calls) /\ last' = la
          /\ runs' = runs /\ damaged' = damaged
      BY <1>4, <2>1, <2>2, <2>3 DEF TakeBackLast
    <2>5. /\ CallsTyped(w.s, w.j, Seqs!Front(calls), runs)
          /\ FramesKept(Seqs!Front(calls), la)
          /\ CallGood(w.s, w.j, la)
      BY <1>1, <1>2, <2>1, <2>2, <2>3, <2>4, ReverseCall
    <2> QED
      BY <1>1, <2>4, <2>5
  <1>5. ASSUME NEW k \in DOMAIN journal, NEW n \in DamagedValues, Damage(k, n) PROVE Goal
    <2>1. PICK jr \in Seq(Nat) : jr = journal
      BY <1>1 DEF CallsTyped
    <2>2. PICK ks : ks = [jr EXCEPT ![k] = n]
      OBVIOUS
    <2>3. ks \in Seq(Nat)
      BY <2>1, <2>2, JournalAssumption
    <2>4. /\ Going /\ journal' = ks /\ damaged' = TRUE
          /\ last' = [call |-> "none", fault |-> "none"]
          /\ machine' = machine /\ calls' = calls /\ runs' = runs
      BY <1>5, <2>1, <2>2 DEF Damage
    <2>5. CallsTyped(machine', journal', calls', runs')
      BY <1>1, <2>3, <2>4 DEF CallsTyped
    <2>6. FramesKept(calls', last')
      BY <1>2, <2>4 DEF FramesKept
    <2>7. last'.call = "none" /\ last'.fault = "none"
      BY <2>4
    <2>8. CallGood(machine', journal', last')
      BY <2>7 DEF CallGood, CallRestores, CallKeeps, CallSees, Back0, Faults
    <2> QED
      BY <2>4, <2>5, <2>6, <2>8
  <1>6. CASE UNCHANGED ctlVars
    <2>1. /\ machine' = machine /\ journal' = journal /\ calls' = calls /\ runs' = runs
          /\ damaged' = damaged /\ last' = last
      BY <1>6 DEF ctlVars
    <2> QED
      BY <1>1, <2>1 DEF CtlInv
  <1>7. ASSUME CtlNext PROVE Goal
    <2>1. CASE \E p \in CtlPrograms : Forward(p)
      BY <1>3, <2>1
    <2>2. CASE Reverse
      <3>1. TakeBackLast(IF FALSE THEN "reverse_checked" ELSE "reverse", FALSE)
        BY <2>2 DEF Reverse
      <3> QED
        BY <1>4, <3>1
    <2>3. CASE ReverseChecked
      <3>1. TakeBackLast(IF TRUE THEN "reverse_checked" ELSE "reverse", TRUE)
        BY <2>3 DEF ReverseChecked
      <3> QED
        BY <1>4, <3>1
    <2>4. CASE \E k \in DOMAIN journal, n \in DamagedValues : Damage(k, n)
      BY <1>5, <2>4
    <2> HIDE DEF Goal
    <2> QED
      BY <1>7, <2>1, <2>2, <2>3, <2>4 DEF CtlNext
  <1>8. Goal => CtlInv'
    BY DEF CtlInv
  <1> QED
    BY <1>6, <1>7, <1>8

LEMMA CtlInvHolds == CtlSpec => []CtlInv
  BY CtlInitInv, CtlStepInv, PTL DEF CtlSpec

(* Whatever programs run and are taken back, however deep they nest and how    *)
(* long they loop: the state stays a state, the entries of earlier runs are    *)
(* left alone, and a reverse from where forward ended gives back the state and *)
(* the journal forward found (ctl.rs seq_forward, seq_reverse).                *)
THEOREM JournalIsSafe == CtlSpec => []JournalSafe
  <1>1. CtlInv => JournalSafe
    <2> SUFFICES ASSUME CtlInv PROVE JournalSafe
      OBVIOUS
    <2>1. JournalTypeOK
      BY DEF CtlInv, JournalTypeOK, CallsTyped, CallGood
    <2>2. ReverseRestores
      BY DEF CtlInv, CallGood, CallRestores, Back0, ReverseRestores, TakenBack, Intact, Restored
    <2>3. EarlierDecisionsKept
      BY DEF CtlInv, CallGood, CallKeeps, Back0, EarlierDecisionsKept, TakenBack, Intact
    <2> QED
      BY <2>1, <2>2, <2>3 DEF JournalSafe
  <1> QED
    BY <1>1, CtlInvHolds, PTL

(* reverse_checked notices any change of the decisions of a program that has   *)
(* only branches none of which changes its own condition, for any number of    *)
(* changed entries and any depth of nesting (ctl.rs lines 237-247).            *)
THEOREM FlagDamageIsDetected == CtlSpec => []FlagDamageDetected
  <1>1. CtlInv => FlagDamageDetected
    BY DEF CtlInv, CallGood, CallSees, FlagDamageDetected, OwnDecisionChanged
  <1> QED
    BY <1>1, CtlInvHolds, PTL

-----------------------------------------------------------------------------
(* The machine: steps, sequences one behind the other, levels of programs.   *)
-----------------------------------------------------------------------------

(* Functions applied in turn: a chain. *)
LEMMA InTurnIs ==
  ASSUME NEW S, NEW n \in Nat, NEW x \in S, NEW steps \in [1 .. n -> [S -> S]]
  PROVE  \E g : Chain(g, n, S, x, steps) /\ InTurn(steps, x) = g[n]
  <1>1. PICK f : Chain(f, n, S, x, steps)
    BY Recursion
  <1>2. /\ f \in [0 .. n -> S] /\ f[0] = x
        /\ \A k \in 1 .. n : f[k] = steps[k][f[k - 1]]
    BY <1>1 DEF Chain
  <1>3. Len(steps) = n
    OBVIOUS
  <1> DEFINE Upto(g) == g = [k \in 0 .. Len(steps) |-> IF k = 0 THEN x ELSE steps[k][g[k - 1]]]
  <1>4. Upto(f)
    <2>1. \A k \in 0 .. n : f[k] = IF k = 0 THEN x ELSE steps[k][f[k - 1]]
      <3>1. \A k \in 0 .. n : k = 0 \/ k \in 1 .. n
        OBVIOUS
      <3> QED
        BY <1>2, <3>1
    <2>2. f = [k \in 0 .. n |-> f[k]]
      BY <1>2
    <2> QED
      BY <1>3, <2>1, <2>2
  <1>5. PICK g : g = CHOOSE h : Upto(h)
    OBVIOUS
  <1>6. Upto(g)
    BY <1>4, <1>5
  <1>7. InTurn(steps, x) = g[n]
    BY <1>3, <1>5 DEF InTurn
  <1>8. DOMAIN g = 0 .. n /\ g[0] = x
    BY <1>3, <1>6
  <1>9. ASSUME NEW k \in 1 .. n PROVE g[k] = steps[k][g[k - 1]]
    BY <1>3, <1>6
  <1>10. \A k \in 0 .. n : g[k] \in S
    <2> DEFINE P == {k \in 0 .. n : g[k] \in S}
    <2>1. 0 \in P
      BY <1>8
    <2>2. \A k \in 1 .. n : k - 1 \in P => k \in P
      BY <1>9
    <2> HIDE DEF P
    <2>3. \A k \in 0 .. n : k \in P
      BY <2>1, <2>2, UpTo
    <2> QED
      BY <2>3 DEF P
  <1>11. g \in [0 .. n -> S]
    <2>1. g = [k \in 0 .. n |-> g[k]]
      BY <1>3, <1>6
    <2> HIDE DEF Upto
    <2> QED
      BY <1>10, <2>1
  <1>12. Chain(g, n, S, x, steps)
    BY <1>8, <1>9, <1>11 DEF Chain
  <1> QED
    BY <1>7, <1>12

(* Sequences one behind the other, from the first or from the last. *)
Joins(up, n, S, parts) ==
  /\ up \in [0 .. n -> Seq(S)] /\ up[0] = <<>>
  /\ \A k \in 1 .. n : up[k] = up[k - 1] \o parts[k]

LEMMA FlatIs ==
  ASSUME NEW S, NEW n \in Nat, NEW parts \in [1 .. n -> Seq(S)]
  PROVE  \E up : Joins(up, n, S, parts) /\ Lists!FlattenSeq(parts) = up[n]
  <1>1. Len(parts) = n
    OBVIOUS
  <1>2. CASE n = 0
    <2> DEFINE up == [k \in 0 .. 0 |-> <<>>]
    <2>1. Lists!FlattenSeq(parts) = parts /\ parts = <<>>
      BY <1>1, <1>2 DEF Lists!FlattenSeq
    <2>2. up \in [0 .. 0 -> Seq(S)] /\ up[0] = <<>> /\ \A k \in 1 .. 0 : FALSE
      OBVIOUS
    <2>3. Joins(up, 0, S, parts) /\ Lists!FlattenSeq(parts) = up[0]
      BY <2>1, <2>2 DEF Joins
    <2> QED
      BY <1>2, <2>3
  <1>3. CASE n # 0
    <2> DEFINE step == [k \in 1 .. n |-> [x \in Seq(S) |-> x \o parts[k]]]
    <2>1. step \in [1 .. n -> [Seq(S) -> Seq(S)]] /\ <<>> \in Seq(S)
      OBVIOUS
    <2>2. PICK f : Chain(f, n, Seq(S), <<>>, step)
      BY <2>1, Recursion
    <2>3. /\ f \in [0 .. n -> Seq(S)] /\ f[0] = <<>>
          /\ \A k \in 1 .. n : f[k] = f[k - 1] \o parts[k]
      <3>1. /\ f \in [0 .. n -> Seq(S)] /\ f[0] = <<>>
            /\ \A k \in 1 .. n : f[k] = step[k][f[k - 1]]
        BY <2>2 DEF Chain
      <3>2. ASSUME NEW k \in 1 .. n PROVE f[k] = f[k - 1] \o parts[k]
        <4>1. PICK x \in Seq(S) : x = f[k - 1]
          BY <3>1
        <4>2. step[k][x] = x \o parts[k]
          BY Zenon
        <4> QED
          BY <3>1, <4>1, <4>2
      <3> QED
        BY <3>1, <3>2
    <2> HIDE DEF step
    <2> DEFINE Flat(g) == g = [k \in 1 .. Len(parts) |-> IF k = 1 THEN parts[k] ELSE g[k - 1] \o parts[k]]
               h == [k \in 1 .. n |-> f[k]]
    <2>4. ASSUME NEW k \in 1 .. n PROVE h[k] = IF k = 1 THEN parts[k] ELSE h[k - 1] \o parts[k]
      <3>1. CASE k = 1
        <4>1. PICK p \in Seq(S) : p = parts[k]
          OBVIOUS
        <4>2. f[k - 1] = <<>>
          BY <2>3, <3>1
        <4>3. f[k] = <<>> \o p
          BY <2>3, <4>1, <4>2
        <4>4. <<>> \o p = p
          OBVIOUS
        <4> QED
          BY <3>1, <4>1, <4>3, <4>4
      <3>2. CASE k # 1
        <4>1. k - 1 \in 1 .. n
          BY <3>2
        <4> QED
          BY <2>3, <3>2, <4>1
      <3> QED
        BY <3>1, <3>2
    <2>5. h = [k \in 1 .. n |-> h[k]]
      OBVIOUS
    <2> HIDE DEF h
    <2>6. Flat(h)
      BY <1>1, <2>4, <2>5
    <2>7. PICK g : g = CHOOSE e : Flat(e)
      OBVIOUS
    <2>8. Flat(g)
      BY <2>6, <2>7
    <2>9. Lists!FlattenSeq(parts) = g[n]
      BY <1>1, <1>3, <2>7 DEF Lists!FlattenSeq
    <2>10. \A k \in 1 .. n : g[k] = IF k = 1 THEN parts[k] ELSE g[k - 1] \o parts[k]
      BY <1>1, <2>8
    <2> HIDE DEF Flat
    <2> DEFINE up == [k \in 0 .. n |-> IF k = 0 THEN <<>> ELSE g[k]]
    <2>11. up[0] = <<>>
      OBVIOUS
    <2>12. ASSUME NEW k \in 1 .. n PROVE up[k] = up[k - 1] \o parts[k]
      <3>1. k \in 0 .. n /\ k # 0 /\ k - 1 \in 0 .. n /\ up[k] = g[k]
        OBVIOUS
      <3>2. CASE k = 1
        <4>1. PICK p \in Seq(S) : p = parts[k]
          OBVIOUS
        <4>2. up[k - 1] = <<>> /\ g[k] = p
          BY <2>10, <3>2, <4>1
        <4>3. <<>> \o p = p
          OBVIOUS
        <4> QED
          BY <3>1, <4>1, <4>2, <4>3
      <3>3. CASE k # 1
        <4>1. k - 1 # 0
          BY <3>3
        <4>2. up[k - 1] = g[k - 1]
          BY <3>1, <4>1
        <4>3. g[k] = g[k - 1] \o parts[k]
          BY <2>10, <3>3
        <4> QED
          BY <3>1, <4>2, <4>3
      <3> QED
        BY <3>2, <3>3
    <2>13. up = [k \in 0 .. n |-> up[k]]
      OBVIOUS
    <2>14. up[n] = g[n]
      BY <1>3
    <2> HIDE DEF up
    <2>15. \A k \in 0 .. n : up[k] \in Seq(S)
      <3> DEFINE P == {k \in 0 .. n : up[k] \in Seq(S)}
      <3>1. 0 \in P
        <4>1. <<>> \in Seq(S) /\ 0 \in 0 .. n
          OBVIOUS
        <4> QED
          BY <2>11, <4>1
      <3>2. ASSUME NEW k \in 1 .. n, k - 1 \in P PROVE k \in P
        <4>1. PICK x \in Seq(S) : x = up[k - 1]
          BY <3>2
        <4>2. PICK p \in Seq(S) : p = parts[k]
          OBVIOUS
        <4>3. up[k] = x \o p
          BY <2>12, <4>1, <4>2
        <4>4. x \o p \in Seq(S) /\ k \in 0 .. n
          OBVIOUS
        <4> QED
          BY <4>3, <4>4
      <3>3. \A k \in 1 .. n : k - 1 \in P => k \in P
        BY <3>2
      <3> HIDE DEF P
      <3>4. \A k \in 0 .. n : k \in P
        BY <3>1, <3>3, UpTo
      <3> QED
        BY <3>4 DEF P
    <2>16. Joins(up, n, S, parts)
      BY <2>11, <2>12, <2>13, <2>15 DEF Joins
    <2> QED
      BY <2>9, <2>14, <2>16
  <1> QED
    BY <1>2, <1>3

(* Sequences with the same elements are the same. *)
LEMMA SameElements ==
  ASSUME NEW S, NEW a \in Seq(S), NEW b \in Seq(S), Len(a) = Len(b),
         \A k \in 1 .. Len(a) : a[k] = b[k]
  PROVE  a = b
  <1>1. a \in [1 .. Len(a) -> S] /\ b \in [1 .. Len(b) -> S]
    OBVIOUS
  <1> QED
    BY <1>1

LEMMA JoinFacts ==
  ASSUME NEW S, NEW a \in Seq(S), NEW b \in Seq(S)
  PROVE  /\ a \o b \in Seq(S) /\ Len(a \o b) = Len(a) + Len(b)
         /\ \A k \in 1 .. Len(a) : (a \o b)[k] = a[k]
         /\ \A k \in 1 .. Len(b) : (a \o b)[Len(a) + k] = b[k]
         /\ a \o <<>> = a /\ <<>> \o a = a
  OBVIOUS

LEMMA JoinAssoc ==
  ASSUME NEW S, NEW a \in Seq(S), NEW b \in Seq(S), NEW c \in Seq(S)
  PROVE  (a \o b) \o c = a \o (b \o c)
  OBVIOUS

(* What is in front of a sequence can be told from the whole. *)
LEMMA JoinTail ==
  ASSUME NEW S, NEW a \in Seq(S), NEW x \in S, NEW b \in Seq(S)
  PROVE  /\ a \o (<<x>> \o b) = Append(a, x) \o b
         /\ Append(a, x) \in Seq(S) /\ Len(Append(a, x)) = Len(a) + 1
         /\ Len(a \o (<<x>> \o b)) = Len(a) + 1 + Len(b)
         /\ (a \o (<<x>> \o b))[Len(a) + 1] = x
         /\ \A k \in 1 .. Len(a) : (a \o (<<x>> \o b))[k] = a[k]
  <1>1. a \o (<<x>> \o b) = Append(a, x) \o b
    OBVIOUS
  <1> QED
    BY <1>1

LEMMA ReverseFacts ==
  ASSUME NEW S, NEW a \in Seq(S)
  PROVE  /\ Lists!Reverse(a) \in Seq(S) /\ Len(Lists!Reverse(a)) = Len(a)
         /\ \A k \in 1 .. Len(a) : Lists!Reverse(a)[k] = a[Len(a) + 1 - k]
         /\ a = <<>> => Lists!Reverse(a) = <<>>
  <1>1. PICK n \in Nat : n = Len(a)
    OBVIOUS
  <1>2. \A k \in 1 .. n : (n - k) + 1 \in 1 .. n /\ (n - k) + 1 = n + 1 - k /\ a[(n - k) + 1] \in S
    BY <1>1
  <1> DEFINE r == [k \in 1 .. n |-> a[(n - k) + 1]]
  <1>3. r \in [1 .. n -> S]
    BY <1>2
  <1>4. Lists!Reverse(a) = r
    BY <1>1 DEF Lists!Reverse
  <1>5. \A k \in 1 .. n : r[k] = a[n + 1 - k]
    BY <1>2
  <1> HIDE DEF r
  <1>6. r \in Seq(S) /\ Len(r) = n
    BY <1>3
  <1> QED
    BY <1>1, <1>4, <1>5, <1>6

LEMMA ReverseJoin ==
  ASSUME NEW S, NEW a \in Seq(S), NEW b \in Seq(S)
  PROVE  Lists!Reverse(a \o b) = Lists!Reverse(b) \o Lists!Reverse(a)
  <1>1. PICK m \in Nat : m = Len(a)
    OBVIOUS
  <1>2. PICK n \in Nat : n = Len(b)
    OBVIOUS
  <1>3. PICK c : c = a \o b
    OBVIOUS
  <1>31. c \in Seq(S) /\ Len(c) = m + n
    BY <1>1, <1>2, <1>3
  <1>4. PICK ra \in Seq(S) : /\ ra = Lists!Reverse(a) /\ Len(ra) = m
                             /\ \A k \in 1 .. m : ra[k] = a[m + 1 - k]
    BY <1>1, ReverseFacts
  <1>5. PICK rb \in Seq(S) : /\ rb = Lists!Reverse(b) /\ Len(rb) = n
                             /\ \A k \in 1 .. n : rb[k] = b[n + 1 - k]
    BY <1>2, ReverseFacts
  <1>6. PICK rc : rc = Lists!Reverse(c)
    OBVIOUS
  <1>61. /\ rc \in Seq(S) /\ Len(rc) = m + n
         /\ \A k \in 1 .. m + n : rc[k] = c[m + n + 1 - k]
    <2>1. /\ Lists!Reverse(c) \in Seq(S) /\ Len(Lists!Reverse(c)) = Len(c)
          /\ \A k \in 1 .. Len(c) : Lists!Reverse(c)[k] = c[Len(c) + 1 - k]
      BY <1>31, ReverseFacts
    <2> QED
      BY <1>31, <1>6, <2>1
  <1>7. PICK d : d = rb \o ra
    OBVIOUS
  <1>71. /\ d \in Seq(S) /\ Len(d) = m + n
         /\ \A k \in 1 .. n : d[k] = rb[k]
         /\ \A k \in 1 .. m : d[n + k] = ra[k]
    <2>1. /\ rb \o ra \in Seq(S) /\ Len(rb \o ra) = Len(rb) + Len(ra)
          /\ \A k \in 1 .. Len(rb) : (rb \o ra)[k] = rb[k]
          /\ \A k \in 1 .. Len(ra) : (rb \o ra)[Len(rb) + k] = ra[k]
      BY JoinFacts
    <2>2. Len(rb) = n /\ Len(ra) = m
      BY <1>4, <1>5
    <2> QED
      BY <1>7, <2>1, <2>2
  <1>8. ASSUME NEW k \in 1 .. m + n PROVE rc[k] = d[k]
    <2>1. CASE k \in 1 .. n
      <3>1. n + 1 - k \in 1 .. n /\ m + n + 1 - k = m + (n + 1 - k)
        BY <2>1
      <3>2. c[m + (n + 1 - k)] = b[n + 1 - k]
        BY <1>1, <1>2, <1>3, <3>1, JoinFacts
      <3>3. d[k] = rb[k]
        BY <1>71, <2>1
      <3> QED
        BY <1>5, <1>61, <2>1, <3>1, <3>2, <3>3
    <2>2. CASE k \notin 1 .. n
      <3>1. /\ k - n \in 1 .. m /\ k = n + (k - n)
            /\ m + n + 1 - k = m + 1 - (k - n) /\ m + 1 - (k - n) \in 1 .. m
        BY <2>2
      <3>2. c[m + 1 - (k - n)] = a[m + 1 - (k - n)]
        BY <1>1, <1>3, <3>1, JoinFacts
      <3>3. d[n + (k - n)] = ra[k - n]
        <4>1. PICK j \in 1 .. m : j = k - n
          BY <3>1
        <4> QED
          BY <1>71, <4>1
      <3> QED
        BY <1>4, <1>61, <3>1, <3>2, <3>3
    <2> QED
      BY <2>1, <2>2
  <1>9. rc = d
    BY <1>61, <1>71, <1>8, SameElements
  <1> QED
    BY <1>3, <1>4, <1>5, <1>6, <1>7, <1>9

(* What is left of parts that are handed out one after the other. *)
LeftOver(t, n, S, whole, parts) ==
  /\ t \in [0 .. n -> Seq(S)] /\ t[0] = whole /\ t[n] = <<>>
  /\ \A k \in 1 .. n : t[k - 1] = parts[k] \o t[k]

LEMMA LeftForward ==
  ASSUME NEW S, NEW n \in Nat, NEW parts \in [1 .. n -> Seq(S)]
  PROVE  \E t : LeftOver(t, n, S, Lists!FlattenSeq(parts), parts)
  <1>1. PICK up : Joins(up, n, S, parts) /\ Lists!FlattenSeq(parts) = up[n]
    BY FlatIs
  <1>2. /\ up \in [0 .. n -> Seq(S)] /\ up[0] = <<>>
        /\ \A k \in 1 .. n : up[k] = up[k - 1] \o parts[k]
    BY <1>1 DEF Joins
  <1> DEFINE P == {m \in 0 .. n : \E t : LeftOver(t, m, S, up[m], parts)}
  <1>3. 0 \in P
    <2> DEFINE t == [k \in 0 .. 0 |-> <<>>]
    <2>1. t \in [0 .. 0 -> Seq(S)] /\ t[0] = <<>> /\ \A k \in 1 .. 0 : FALSE
      OBVIOUS
    <2>2. LeftOver(t, 0, S, up[0], parts)
      BY <1>2, <2>1 DEF LeftOver
    <2> QED
      BY <2>2
  <1>4. ASSUME NEW m \in 1 .. n, m - 1 \in P PROVE m \in P
    <2>1. PICK f : LeftOver(f, m - 1, S, up[m - 1], parts)
      BY <1>4
    <2>2. /\ f \in [0 .. m - 1 -> Seq(S)] /\ f[0] = up[m - 1] /\ f[m - 1] = <<>>
          /\ \A k \in 1 .. m - 1 : f[k - 1] = parts[k] \o f[k]
      BY <2>1 DEF LeftOver
    <2>3. PICK p \in Seq(S) : p = parts[m]
      OBVIOUS
    <2> DEFINE t == [k \in 0 .. m |-> IF k = m THEN <<>> ELSE f[k] \o p]
    <2>4. t[m] = <<>> /\ \A k \in 0 .. m - 1 : t[k] = f[k] \o p
      BY DEF t
    <2>5. t = [k \in 0 .. m |-> t[k]]
      OBVIOUS
    <2> HIDE DEF t
    <2>6. ASSUME NEW k \in 0 .. m PROVE t[k] \in Seq(S)
      <3>1. CASE k = m
        <4>1. <<>> \in Seq(S)
          OBVIOUS
        <4> QED
          BY <2>4, <3>1, <4>1
      <3>2. CASE k # m
        <4>1. k \in 0 .. m - 1
          BY <3>2
        <4>2. PICK x \in Seq(S) : x = f[k]
          BY <2>2, <4>1
        <4>3. x \o p \in Seq(S)
          OBVIOUS
        <4> QED
          BY <2>4, <4>1, <4>2, <4>3
      <3> QED
        BY <3>1, <3>2
    <2>7. t[0] = up[m]
      <3>1. 0 \in 0 .. m - 1
        OBVIOUS
      <3> QED
        BY <1>2, <2>2, <2>3, <2>4, <3>1
    <2>8. ASSUME NEW k \in 1 .. m PROVE t[k - 1] = parts[k] \o t[k]
      <3>1. CASE k = m
        <4>1. t[k - 1] = <<>> \o p
          <5>1. m - 1 \in 0 .. m - 1
            OBVIOUS
          <5> QED
            BY <2>2, <2>4, <3>1, <5>1
        <4>2. <<>> \o p = p /\ p \o <<>> = p
          OBVIOUS
        <4> QED
          BY <2>3, <2>4, <3>1, <4>1, <4>2
      <3>2. CASE k # m
        <4>1. k \in 1 .. m - 1 /\ k - 1 \in 0 .. m - 1 /\ k \in 0 .. m - 1 /\ k \in 1 .. n
          BY <3>2
        <4>2. PICK x \in Seq(S) : x = f[k]
          BY <2>2, <4>1
        <4>3. PICK q \in Seq(S) : q = parts[k]
          BY <4>1
        <4>4. t[k - 1] = (q \o x) \o p
          BY <2>2, <2>4, <4>1, <4>2, <4>3
        <4>5. t[k] = x \o p
          BY <2>4, <4>1, <4>2
        <4>6. (q \o x) \o p = q \o (x \o p)
          BY JoinAssoc
        <4> QED
          BY <4>3, <4>4, <4>5, <4>6
      <3> QED
        BY <3>1, <3>2
    <2>9. t \in [0 .. m -> Seq(S)]
      BY <2>5, <2>6
    <2>10. LeftOver(t, m, S, up[m], parts)
      BY <2>4, <2>7, <2>8, <2>9 DEF LeftOver
    <2> QED
      BY <2>10
  <1>5. \A m \in 1 .. n : m - 1 \in P => m \in P
    BY <1>4
  <1> HIDE DEF P
  <1>6. n \in P
    <2>1. \A m \in 0 .. n : m \in P
      BY <1>3, <1>5, UpTo
    <2> QED
      BY <2>1
  <1> QED
    BY <1>1, <1>6 DEF P

LEMMA LeftBackward ==
  ASSUME NEW S, NEW n \in Nat, NEW parts \in [1 .. n -> Seq(S)]
  PROVE  \E t : LeftOver(t, n, S, Lists!Reverse(Lists!FlattenSeq(parts)),
                         [k \in 1 .. n |-> Lists!Reverse(parts[n + 1 - k])])
  <1>1. PICK up : Joins(up, n, S, parts) /\ Lists!FlattenSeq(parts) = up[n]
    BY FlatIs
  <1>2. /\ up \in [0 .. n -> Seq(S)] /\ up[0] = <<>>
        /\ \A k \in 1 .. n : up[k] = up[k - 1] \o parts[k]
    BY <1>1 DEF Joins
  <1> DEFINE t == [k \in 0 .. n |-> Lists!Reverse(up[n - k])]
             back == [k \in 1 .. n |-> Lists!Reverse(parts[n + 1 - k])]
  <1>3. \A k \in 0 .. n : t[k] = Lists!Reverse(up[n - k])
    BY Zenon
  <1>4. t = [k \in 0 .. n |-> t[k]]
    OBVIOUS
  <1>5. \A k \in 1 .. n : back[k] = Lists!Reverse(parts[n + 1 - k])
    BY Zenon
  <1> HIDE DEF t, back
  <1>6. ASSUME NEW k \in 0 .. n PROVE t[k] \in Seq(S)
    <2>1. PICK x \in Seq(S) : x = up[n - k]
      BY <1>2
    <2> QED
      BY <1>3, <2>1, ReverseFacts
  <1>7. t[0] = Lists!Reverse(up[n])
    <2>1. n - 0 = n /\ 0 \in 0 .. n
      OBVIOUS
    <2> QED
      BY <1>3, <2>1
  <1>8. t[n] = <<>>
    <2>1. n - n = 0 /\ n \in 0 .. n /\ <<>> \in Seq(S)
      OBVIOUS
    <2>2. Lists!Reverse(<<>>) = <<>>
      BY <2>1, ReverseFacts
    <2> QED
      BY <1>2, <1>3, <2>1, <2>2
  <1>9. ASSUME NEW k \in 1 .. n PROVE t[k - 1] = back[k] \o t[k]
    <2>1. PICK m \in 1 .. n : m = n + 1 - k
      OBVIOUS
    <2>2. n - (k - 1) = m /\ n - k = m - 1 /\ m - 1 \in 0 .. n /\ k - 1 \in 0 .. n /\ k \in 0 .. n
      BY <2>1
    <2>3. PICK x \in Seq(S) : x = up[m - 1]
      BY <1>2, <2>2
    <2>4. PICK p \in Seq(S) : p = parts[m]
      OBVIOUS
    <2>5. t[k - 1] = Lists!Reverse(x \o p) /\ t[k] = Lists!Reverse(x) /\ back[k] = Lists!Reverse(p)
      BY <1>2, <1>3, <1>5, <2>1, <2>2, <2>3, <2>4
    <2>6. Lists!Reverse(x \o p) = Lists!Reverse(p) \o Lists!Reverse(x)
      BY ReverseJoin
    <2> QED
      BY <2>5, <2>6
  <1>10. t \in [0 .. n -> Seq(S)]
    BY <1>4, <1>6
  <1>11. LeftOver(t, n, S, Lists!Reverse(up[n]), back)
    BY <1>7, <1>8, <1>9, <1>10 DEF LeftOver
  <1> QED
    BY <1>1, <1>11 DEF back

-----------------------------------------------------------------------------
(* The recursive functions of the machine satisfy their equations.           *)

LoopLevel(d, bodies) == Seq(LoopNodes(bodies))

LEMMA LoopTreesAre ==
  LoopTrees = [d \in 0 .. MaxNesting |-> LoopLevel(d, IF d = 0 THEN {} ELSE LoopTrees[d - 1])]
  <1> DEFINE L(t, m) == t = [d \in 0 .. m |-> LoopLevel(d, IF d = 0 THEN {} ELSE t[d - 1])]
             P == {m \in 0 .. MaxNesting : \E t : L(t, m)}
  <1>1. 0 \in P
    <2> DEFINE t == [d \in 0 .. 0 |-> LoopLevel(0, {})]
    <2>1. t = [d \in 0 .. 0 |-> LoopLevel(d, IF d = 0 THEN {} ELSE t[d - 1])]
      OBVIOUS
    <2>2. L(t, 0)
      BY <2>1
    <2>3. 0 \in 0 .. MaxNesting
      BY MachineAssumption
    <2> HIDE DEF t, L
    <2> QED
      BY <2>2, <2>3
  <1>2. ASSUME NEW m \in 1 .. MaxNesting, m - 1 \in P PROVE m \in P
    <2>1. PICK f : L(f, m - 1)
      BY <1>2
    <2>2. m \in Nat /\ m # 0 /\ m - 1 \in 0 .. m - 1 /\ \A d \in 0 .. m : d # m => d \in 0 .. m - 1
      BY MachineAssumption
    <2> DEFINE g == [d \in 0 .. m |-> IF d = m THEN LoopLevel(m, f[m - 1]) ELSE f[d]]
    <2>4. ASSUME NEW d \in 0 .. m
          PROVE  g[d] = LoopLevel(d, IF d = 0 THEN {} ELSE g[d - 1])
      <3>1. CASE d = m
        <4>1. d - 1 \in 0 .. m /\ d - 1 # m
          BY <2>2, <3>1
        <4>2. g[d - 1] = f[m - 1]
          BY <3>1, <4>1
        <4> QED
          BY <2>2, <3>1, <4>2
      <3>2. CASE d # m
        <4>1. d \in 0 .. m - 1 /\ (d # 0 => d - 1 \in 0 .. m /\ d - 1 # m)
          BY <2>2, <3>2
        <4>2. f[d] = LoopLevel(d, IF d = 0 THEN {} ELSE f[d - 1])
          BY <2>1, <4>1
        <4>3. d # 0 => g[d - 1] = f[d - 1]
          BY <4>1
        <4> QED
          BY <3>2, <4>2, <4>3
      <3> QED
        BY <3>1, <3>2
    <2>5. g = [d \in 0 .. m |-> g[d]]
      OBVIOUS
    <2> HIDE DEF g
    <2>6. L(g, m)
      BY <2>4, <2>5
    <2> HIDE DEF L
    <2> QED
      BY <2>6
  <1>3. \A m \in 1 .. MaxNesting : m - 1 \in P => m \in P
    BY <1>2
  <1>4. \E t : L(t, MaxNesting)
    <2> HIDE DEF P, L
    <2>1. \A m \in 0 .. MaxNesting : m \in P
      BY <1>1, <1>3, UpTo, MachineAssumption
    <2>2. MaxNesting \in P
      BY <2>1, MachineAssumption
    <2> QED
      BY <2>2 DEF P
  <1>5. LoopTrees = CHOOSE t : L(t, MaxNesting)
    BY DEF LoopTrees, LoopLevel
  <1> HIDE DEF L
  <1>6. L(LoopTrees, MaxNesting)
    BY <1>4, <1>5
  <1> QED
    BY <1>6 DEF L

UnrolledLevel(d, unrolled) ==
  [p \in LoopTrees[d] |->
     Lists!FlattenSeq([k \in 1 .. Len(p) |-> LeavesOf(p[k], unrolled)])]

LEMMA UnrolledIs ==
  UnrolledTo = [d \in 0 .. MaxNesting |-> UnrolledLevel(d, IF d = 0 THEN <<>> ELSE UnrolledTo[d - 1])]
  <1> DEFINE L(t, m) == t = [d \in 0 .. m |-> UnrolledLevel(d, IF d = 0 THEN <<>> ELSE t[d - 1])]
             P == {m \in 0 .. MaxNesting : \E t : L(t, m)}
  <1>1. 0 \in P
    <2> DEFINE t == [d \in 0 .. 0 |-> UnrolledLevel(0, <<>>)]
    <2>1. t = [d \in 0 .. 0 |-> UnrolledLevel(d, IF d = 0 THEN <<>> ELSE t[d - 1])]
      OBVIOUS
    <2>2. L(t, 0)
      BY <2>1
    <2>3. 0 \in 0 .. MaxNesting
      BY MachineAssumption
    <2> HIDE DEF t, L
    <2> QED
      BY <2>2, <2>3
  <1>2. ASSUME NEW m \in 1 .. MaxNesting, m - 1 \in P PROVE m \in P
    <2>1. PICK f : L(f, m - 1)
      BY <1>2
    <2>2. m \in Nat /\ m # 0 /\ m - 1 \in 0 .. m - 1 /\ \A d \in 0 .. m : d # m => d \in 0 .. m - 1
      BY MachineAssumption
    <2> DEFINE g == [d \in 0 .. m |-> IF d = m THEN UnrolledLevel(m, f[m - 1]) ELSE f[d]]
    <2>4. ASSUME NEW d \in 0 .. m
          PROVE  g[d] = UnrolledLevel(d, IF d = 0 THEN <<>> ELSE g[d - 1])
      <3>1. CASE d = m
        <4>1. d - 1 \in 0 .. m /\ d - 1 # m
          BY <2>2, <3>1
        <4>2. g[d - 1] = f[m - 1]
          BY <3>1, <4>1
        <4> QED
          BY <2>2, <3>1, <4>2
      <3>2. CASE d # m
        <4>1. d \in 0 .. m - 1 /\ (d # 0 => d - 1 \in 0 .. m /\ d - 1 # m)
          BY <2>2, <3>2
        <4>2. f[d] = UnrolledLevel(d, IF d = 0 THEN <<>> ELSE f[d - 1])
          BY <2>1, <4>1
        <4>3. d # 0 => g[d - 1] = f[d - 1]
          BY <4>1
        <4> QED
          BY <3>2, <4>2, <4>3
      <3> QED
        BY <3>1, <3>2
    <2>5. g = [d \in 0 .. m |-> g[d]]
      OBVIOUS
    <2> HIDE DEF g
    <2>6. L(g, m)
      BY <2>4, <2>5
    <2> HIDE DEF L
    <2> QED
      BY <2>6
  <1>3. \A m \in 1 .. MaxNesting : m - 1 \in P => m \in P
    BY <1>2
  <1>4. \E t : L(t, MaxNesting)
    <2> HIDE DEF P, L
    <2>1. \A m \in 0 .. MaxNesting : m \in P
      BY <1>1, <1>3, UpTo, MachineAssumption
    <2>2. MaxNesting \in P
      BY <2>1, MachineAssumption
    <2> QED
      BY <2>2 DEF P
  <1>5. UnrolledTo = CHOOSE t : L(t, MaxNesting)
    BY DEF UnrolledTo, UnrolledLevel
  <1> HIDE DEF L
  <1>6. L(UnrolledTo, MaxNesting)
    BY <1>4, <1>5
  <1> QED
    BY <1>6 DEF L

CountLevel(d, count) ==
  [p \in LoopTrees[d] |-> SumOf([k \in 1 .. Len(p) |-> CountOf(p[k], count)])]

LEMMA CountIs ==
  CountTo = [d \in 0 .. MaxNesting |-> CountLevel(d, IF d = 0 THEN <<>> ELSE CountTo[d - 1])]
  <1> DEFINE L(t, m) == t = [d \in 0 .. m |-> CountLevel(d, IF d = 0 THEN <<>> ELSE t[d - 1])]
             P == {m \in 0 .. MaxNesting : \E t : L(t, m)}
  <1>1. 0 \in P
    <2> DEFINE t == [d \in 0 .. 0 |-> CountLevel(0, <<>>)]
    <2>1. t = [d \in 0 .. 0 |-> CountLevel(d, IF d = 0 THEN <<>> ELSE t[d - 1])]
      OBVIOUS
    <2>2. L(t, 0)
      BY <2>1
    <2>3. 0 \in 0 .. MaxNesting
      BY MachineAssumption
    <2> HIDE DEF t, L
    <2> QED
      BY <2>2, <2>3
  <1>2. ASSUME NEW m \in 1 .. MaxNesting, m - 1 \in P PROVE m \in P
    <2>1. PICK f : L(f, m - 1)
      BY <1>2
    <2>2. m \in Nat /\ m # 0 /\ m - 1 \in 0 .. m - 1 /\ \A d \in 0 .. m : d # m => d \in 0 .. m - 1
      BY MachineAssumption
    <2> DEFINE g == [d \in 0 .. m |-> IF d = m THEN CountLevel(m, f[m - 1]) ELSE f[d]]
    <2>4. ASSUME NEW d \in 0 .. m
          PROVE  g[d] = CountLevel(d, IF d = 0 THEN <<>> ELSE g[d - 1])
      <3>1. CASE d = m
        <4>1. d - 1 \in 0 .. m /\ d - 1 # m
          BY <2>2, <3>1
        <4>2. g[d - 1] = f[m - 1]
          BY <3>1, <4>1
        <4> QED
          BY <2>2, <3>1, <4>2
      <3>2. CASE d # m
        <4>1. d \in 0 .. m - 1 /\ (d # 0 => d - 1 \in 0 .. m /\ d - 1 # m)
          BY <2>2, <3>2
        <4>2. f[d] = CountLevel(d, IF d = 0 THEN <<>> ELSE f[d - 1])
          BY <2>1, <4>1
        <4>3. d # 0 => g[d - 1] = f[d - 1]
          BY <4>1
        <4> QED
          BY <3>2, <4>2, <4>3
      <3> QED
        BY <3>1, <3>2
    <2>5. g = [d \in 0 .. m |-> g[d]]
      OBVIOUS
    <2> HIDE DEF g
    <2>6. L(g, m)
      BY <2>4, <2>5
    <2> HIDE DEF L
    <2> QED
      BY <2>6
  <1>3. \A m \in 1 .. MaxNesting : m - 1 \in P => m \in P
    BY <1>2
  <1>4. \E t : L(t, MaxNesting)
    <2> HIDE DEF P, L
    <2>1. \A m \in 0 .. MaxNesting : m \in P
      BY <1>1, <1>3, UpTo, MachineAssumption
    <2>2. MaxNesting \in P
      BY <2>1, MachineAssumption
    <2> QED
      BY <2>2 DEF P
  <1>5. CountTo = CHOOSE t : L(t, MaxNesting)
    BY DEF CountTo, CountLevel
  <1> HIDE DEF L
  <1>6. L(CountTo, MaxNesting)
    BY <1>4, <1>5
  <1> QED
    BY <1>6 DEF L

WalkLevel(d, walk) ==
  [p \in LoopTrees[d] |-> [rep \in Reports |->
     InTurn([k \in 1 .. Len(p) |-> [r \in Reports |-> WalkNode(r, p[k], walk)]], rep)]]

LEMMA WalkIs ==
  WalkTo = [d \in 0 .. MaxNesting |-> WalkLevel(d, IF d = 0 THEN <<>> ELSE WalkTo[d - 1])]
  <1> DEFINE L(t, m) == t = [d \in 0 .. m |-> WalkLevel(d, IF d = 0 THEN <<>> ELSE t[d - 1])]
             P == {m \in 0 .. MaxNesting : \E t : L(t, m)}
  <1>1. 0 \in P
    <2> DEFINE t == [d \in 0 .. 0 |-> WalkLevel(0, <<>>)]
    <2>1. t = [d \in 0 .. 0 |-> WalkLevel(d, IF d = 0 THEN <<>> ELSE t[d - 1])]
      OBVIOUS
    <2>2. L(t, 0)
      BY <2>1
    <2>3. 0 \in 0 .. MaxNesting
      BY MachineAssumption
    <2> HIDE DEF t, L
    <2> QED
      BY <2>2, <2>3
  <1>2. ASSUME NEW m \in 1 .. MaxNesting, m - 1 \in P PROVE m \in P
    <2>1. PICK f : L(f, m - 1)
      BY <1>2
    <2>2. m \in Nat /\ m # 0 /\ m - 1 \in 0 .. m - 1 /\ \A d \in 0 .. m : d # m => d \in 0 .. m - 1
      BY MachineAssumption
    <2> DEFINE g == [d \in 0 .. m |-> IF d = m THEN WalkLevel(m, f[m - 1]) ELSE f[d]]
    <2>4. ASSUME NEW d \in 0 .. m
          PROVE  g[d] = WalkLevel(d, IF d = 0 THEN <<>> ELSE g[d - 1])
      <3>1. CASE d = m
        <4>1. d - 1 \in 0 .. m /\ d - 1 # m
          BY <2>2, <3>1
        <4>2. g[d - 1] = f[m - 1]
          BY <3>1, <4>1
        <4> QED
          BY <2>2, <3>1, <4>2
      <3>2. CASE d # m
        <4>1. d \in 0 .. m - 1 /\ (d # 0 => d - 1 \in 0 .. m /\ d - 1 # m)
          BY <2>2, <3>2
        <4>2. f[d] = WalkLevel(d, IF d = 0 THEN <<>> ELSE f[d - 1])
          BY <2>1, <4>1
        <4>3. d # 0 => g[d - 1] = f[d - 1]
          BY <4>1
        <4> QED
          BY <3>2, <4>2, <4>3
      <3> QED
        BY <3>1, <3>2
    <2>5. g = [d \in 0 .. m |-> g[d]]
      OBVIOUS
    <2> HIDE DEF g
    <2>6. L(g, m)
      BY <2>4, <2>5
    <2> HIDE DEF L
    <2> QED
      BY <2>6
  <1>3. \A m \in 1 .. MaxNesting : m - 1 \in P => m \in P
    BY <1>2
  <1>4. \E t : L(t, MaxNesting)
    <2> HIDE DEF P, L
    <2>1. \A m \in 0 .. MaxNesting : m \in P
      BY <1>1, <1>3, UpTo, MachineAssumption
    <2>2. MaxNesting \in P
      BY <2>1, MachineAssumption
    <2> QED
      BY <2>2 DEF P
  <1>5. WalkTo = CHOOSE t : L(t, MaxNesting)
    BY DEF WalkTo, WalkLevel
  <1> HIDE DEF L
  <1>6. L(WalkTo, MaxNesting)
    BY <1>4, <1>5
  <1> QED
    BY <1>6 DEF L

-----------------------------------------------------------------------------
(* Programs of the machine and what they unroll to.                          *)

Under(d)      == IF d = 0 THEN <<>> ELSE UnrolledTo[d - 1]
PartsOf(p, d) == [k \in 1 .. Len(p) |-> LeavesOf(p[k], Under(d))]

LEMMA LoopNodeIs ==
  ASSUME NEW d \in 0 .. MaxNesting, NEW p \in LoopTrees[d]
  PROVE  /\ Len(p) \in Nat
         /\ \A k \in 1 .. Len(p) :
              \/ p[k].kind = "inst" /\ p[k].inst \in Inst
              \/ /\ p[k].kind = "rep" /\ p[k].count \in Nat /\ d # 0 /\ d - 1 \in 0 .. MaxNesting
                 /\ p[k].body \in LoopTrees[d - 1]
  <1>1. PICK B : B = IF d = 0 THEN {} ELSE LoopTrees[d - 1]
    OBVIOUS
  <1>2. PICK N : N = LoopNodes(B)
    OBVIOUS
  <1>3. LoopTrees[d] = Seq(N)
    BY <1>1, <1>2, LoopTreesAre DEF LoopLevel
  <1>4. Len(p) \in Nat /\ \A k \in 1 .. Len(p) : p[k] \in N
    BY <1>3
  <1>5. ASSUME NEW k \in 1 .. Len(p)
        PROVE  \/ p[k].kind = "inst" /\ p[k].inst \in Inst
               \/ p[k].kind = "rep" /\ p[k].count \in Nat /\ p[k].body \in B
    <2>1. PICK node \in N : node = p[k]
      BY <1>4
    <2>2. \/ node \in [kind : {"inst"}, inst : Inst]
          \/ node \in [kind : {"rep"}, count : Nat, body : B]
      BY <1>2 DEF LoopNodes
    <2> QED
      BY <2>1, <2>2
  <1>6. \A b \in B : d # 0 /\ d - 1 \in 0 .. MaxNesting /\ b \in LoopTrees[d - 1]
    BY <1>1, MachineAssumption
  <1> QED
    BY <1>4, <1>5, <1>6

(* The leaves of a loop are those of its body, as often as it says. *)
LEMMA LeavesTyped ==
  ASSUME NEW d \in 0 .. MaxNesting, NEW p \in LoopTrees[d], NEW k \in 1 .. Len(p),
         d # 0 => \A b \in LoopTrees[d - 1] : UnrolledTo[d - 1][b] \in Seq(Inst)
  PROVE  LeavesOf(p[k], Under(d)) \in Seq(Inst)
  <1>1. CASE p[k].kind = "inst" /\ p[k].inst \in Inst
    <2>1. PICK i \in Inst : i = p[k].inst
      BY <1>1
    <2>2. LeavesOf(p[k], Under(d)) = <<i>>
      BY <1>1, <2>1 DEF LeavesOf
    <2> QED
      BY <2>2
  <1>2. CASE /\ p[k].kind = "rep" /\ p[k].count \in Nat /\ d # 0 /\ d - 1 \in 0 .. MaxNesting
             /\ p[k].body \in LoopTrees[d - 1]
    <2>1. PICK x \in Seq(Inst) : x = UnrolledTo[d - 1][p[k].body]
      BY <1>2
    <2>2. PICK n \in Nat : n = p[k].count
      BY <1>2
    <2>3. LeavesOf(p[k], Under(d)) = Lists!FlattenSeq([c \in 1 .. n |-> x])
      BY <1>2, <2>1, <2>2 DEF LeavesOf, Under
    <2>4. PICK parts \in [1 .. n -> Seq(Inst)] : parts = [c \in 1 .. n |-> x]
      OBVIOUS
    <2>5. PICK up : Joins(up, n, Inst, parts) /\ Lists!FlattenSeq(parts) = up[n]
      BY FlatIs
    <2>6. up[n] \in Seq(Inst)
      BY <2>5 DEF Joins
    <2> QED
      BY <2>3, <2>4, <2>5, <2>6
  <1> QED
    BY <1>1, <1>2, LoopNodeIs

LEMMA UnrolledTyped ==
  \A d \in 0 .. MaxNesting : \A p \in LoopTrees[d] :
    UnrolledTo[d][p] = Lists!FlattenSeq(PartsOf(p, d)) /\ UnrolledTo[d][p] \in Seq(Inst)
  <1> DEFINE P == {d \in 0 .. MaxNesting : \A p \in LoopTrees[d] :
                     UnrolledTo[d][p] = Lists!FlattenSeq(PartsOf(p, d)) /\ UnrolledTo[d][p] \in Seq(Inst)}
  <1>1. ASSUME NEW d \in 0 .. MaxNesting, d # 0 => d - 1 \in P PROVE d \in P
    <2>1. ASSUME NEW p \in LoopTrees[d]
          PROVE  UnrolledTo[d][p] = Lists!FlattenSeq(PartsOf(p, d)) /\ UnrolledTo[d][p] \in Seq(Inst)
      <3>1. UnrolledTo[d] = UnrolledLevel(d, Under(d))
        BY UnrolledIs, Zenon DEF Under
      <3>2. UnrolledTo[d][p] = Lists!FlattenSeq(PartsOf(p, d))
        BY <3>1, Zenon DEF UnrolledLevel, PartsOf
      <3>3. PICK n \in Nat : n = Len(p)
        BY LoopNodeIs
      <3>4. ASSUME NEW k \in 1 .. n PROVE LeavesOf(p[k], Under(d)) \in Seq(Inst)
        <4>1. d # 0 => \A b \in LoopTrees[d - 1] : UnrolledTo[d - 1][b] \in Seq(Inst)
          BY <1>1
        <4> QED
          BY <3>3, <4>1, LeavesTyped
      <3>5. PICK parts \in [1 .. n -> Seq(Inst)] : parts = PartsOf(p, d)
        BY <3>3, <3>4 DEF PartsOf
      <3>6. PICK up : Joins(up, n, Inst, parts) /\ Lists!FlattenSeq(parts) = up[n]
        BY FlatIs
      <3>7. up[n] \in Seq(Inst)
        BY <3>6 DEF Joins
      <3> QED
        BY <3>2, <3>5, <3>6, <3>7
    <2> QED
      BY <2>1
  <1>2. 0 \in P
    <2>1. 0 \in 0 .. MaxNesting
      BY MachineAssumption
    <2> HIDE DEF P
    <2> QED
      BY <1>1, <2>1
  <1>3. ASSUME NEW d \in 1 .. MaxNesting, d - 1 \in P PROVE d \in P
    <2>1. d \in 0 .. MaxNesting
      BY MachineAssumption
    <2> HIDE DEF P
    <2> QED
      BY <1>1, <1>3, <2>1
  <1>4. \A d \in 1 .. MaxNesting : d - 1 \in P => d \in P
    BY <1>3
  <1> HIDE DEF P
  <1>5. \A d \in 0 .. MaxNesting : d \in P
    BY <1>2, <1>4, UpTo, MachineAssumption
  <1> QED
    BY <1>5 DEF P

(* The depth of a program of the caller. *)
LEMMA DepthIs ==
  ASSUME NEW p \in LoopPrograms
  PROVE  Depth(p) \in 0 .. MaxNesting /\ p \in LoopTrees[Depth(p)]
  <1> DEFINE T == {d \in 0 .. MaxNesting : p \in LoopTrees[d]}
  <1>1. T \subseteq Nat /\ T # {}
    BY MachineAssumption
  <1>2. PICK m \in T : \A k \in T : m <= k
    BY <1>1, LeastNat
  <1>3. m \in 0 .. MaxNesting /\ p \in LoopTrees[m] /\ \A e \in 0 .. m - 1 : p \notin LoopTrees[e]
    <2>1. ASSUME NEW e \in 0 .. m - 1, p \in LoopTrees[e] PROVE FALSE
      <3>1. e \in T
        BY <2>1, MachineAssumption
      <3> QED
        BY <1>2, <3>1
    <2> QED
      BY <1>2, <2>1
  <1>4. \E d \in 0 .. MaxNesting : p \in LoopTrees[d] /\ \A e \in 0 .. d - 1 : p \notin LoopTrees[e]
    BY <1>3
  <1> QED
    BY <1>4 DEF Depth

-----------------------------------------------------------------------------
(* What a job has still to hand out.                                         *)

Ordered(x, fw) == IF fw THEN x ELSE Lists!Reverse(x)
Place(k, n, fw) == IF fw THEN k ELSE n + 1 - k
HandedOut(p, d, fw) ==
  [k \in 1 .. Len(p) |-> Ordered(LeavesOf(p[Place(k, Len(p), fw)], Under(d)), fw)]

Handing(t, p, d, fw) ==
  LeftOver(t, Len(p), Inst, Ordered(UnrolledTo[d][p], fw), HandedOut(p, d, fw))

LEMMA LeavesJoin ==
  \A a, b, c \in Seq(Inst) : (a \o b) \o c = a \o (b \o c)
  BY JoinAssoc

LEMMA OrderedFacts ==
  ASSUME NEW x \in Seq(Inst), NEW fw \in BOOLEAN
  PROVE  Ordered(x, fw) \in Seq(Inst) /\ (x = <<>> => Ordered(x, fw) = <<>>)
  BY ReverseFacts DEF Ordered

(* A leaf is the same in both directions. *)
LEMMA OrderedLeaf ==
  ASSUME NEW i \in Inst, NEW fw \in BOOLEAN
  PROVE  Ordered(<<i>>, fw) = <<i>>
  <1>1. <<i>> \in Seq(Inst) /\ Len(<<i>>) = 1 /\ <<i>>[1] = i
    OBVIOUS
  <1>2. PICK r : r = Lists!Reverse(<<i>>)
    OBVIOUS
  <1>3. r \in Seq(Inst) /\ Len(r) = 1 /\ \A k \in 1 .. 1 : r[k] = <<i>>[1 + 1 - k]
    <2>1. /\ Lists!Reverse(<<i>>) \in Seq(Inst) /\ Len(Lists!Reverse(<<i>>)) = Len(<<i>>)
          /\ \A k \in 1 .. Len(<<i>>) : Lists!Reverse(<<i>>)[k] = <<i>>[Len(<<i>>) + 1 - k]
      BY <1>1, ReverseFacts
    <2> QED
      BY <1>1, <1>2, <2>1
  <1>4. r[1] = i
    BY <1>1, <1>3
  <1>5. r = <<i>>
    BY <1>1, <1>3, <1>4, SameElements
  <1> QED
    BY <1>2, <1>5 DEF Ordered

(* A program hands out its leaves node by node. *)
LEMMA ProgramLeft ==
  ASSUME NEW d \in 0 .. MaxNesting, NEW p \in LoopTrees[d], NEW fw \in BOOLEAN
  PROVE  \E t : Handing(t, p, d, fw)
  <1>1. PICK n \in Nat : n = Len(p)
    BY LoopNodeIs
  <1>2. \A k \in 1 .. n : LeavesOf(p[k], Under(d)) \in Seq(Inst)
    <2>1. d # 0 => \A b \in LoopTrees[d - 1] : UnrolledTo[d - 1][b] \in Seq(Inst)
      <3>1. d # 0 => d - 1 \in 0 .. MaxNesting
        BY MachineAssumption
      <3> QED
        BY <3>1, UnrolledTyped
    <2> QED
      BY <1>1, <2>1, LeavesTyped
  <1>3. PICK parts : parts = PartsOf(p, d)
    OBVIOUS
  <1>31. \A k \in 1 .. n : parts[k] = LeavesOf(p[k], Under(d))
    BY <1>1, <1>3, Zenon DEF PartsOf
  <1>32. parts \in [1 .. n -> Seq(Inst)]
    BY <1>1, <1>2, <1>3 DEF PartsOf
  <1>4. UnrolledTo[d][p] = Lists!FlattenSeq(parts)
    BY <1>3, UnrolledTyped
  <1>5. CASE fw = TRUE
    <2>1. HandedOut(p, d, fw) = parts
      <3>1. \A k \in 1 .. n : Ordered(LeavesOf(p[Place(k, n, fw)], Under(d)), fw) = parts[k]
        BY <1>31, <1>5 DEF Ordered, Place
      <3>2. parts = [k \in 1 .. n |-> parts[k]]
        BY <1>32
      <3> QED
        BY <1>1, <3>1, <3>2 DEF HandedOut
    <2>2. PICK t : LeftOver(t, n, Inst, Lists!FlattenSeq(parts), parts)
      BY <1>32, LeftForward
    <2>3. Ordered(UnrolledTo[d][p], fw) = Lists!FlattenSeq(parts)
      BY <1>4, <1>5 DEF Ordered
    <2> QED
      BY <1>1, <2>1, <2>2, <2>3 DEF Handing
  <1>6. CASE fw = FALSE
    <2>1. HandedOut(p, d, fw) = [k \in 1 .. n |-> Lists!Reverse(parts[n + 1 - k])]
      <3>1. ASSUME NEW k \in 1 .. n
            PROVE  Ordered(LeavesOf(p[Place(k, n, fw)], Under(d)), fw) = Lists!Reverse(parts[n + 1 - k])
        <4>1. n + 1 - k \in 1 .. n /\ Place(k, n, fw) = n + 1 - k
          BY <1>6 DEF Place
        <4>2. parts[n + 1 - k] = LeavesOf(p[n + 1 - k], Under(d))
          BY <1>31, <4>1
        <4> QED
          BY <1>6, <4>1, <4>2 DEF Ordered
      <3> QED
        BY <1>1, <3>1 DEF HandedOut
    <2>2. PICK t : LeftOver(t, n, Inst, Lists!Reverse(Lists!FlattenSeq(parts)),
                            [k \in 1 .. n |-> Lists!Reverse(parts[n + 1 - k])])
      BY <1>32, LeftBackward
    <2>3. Ordered(UnrolledTo[d][p], fw) = Lists!Reverse(Lists!FlattenSeq(parts))
      BY <1>4, <1>6 DEF Ordered
    <2> QED
      BY <1>1, <2>1, <2>2, <2>3 DEF Handing
  <1> QED
    BY <1>5, <1>6

(* A sequence job of a program of depth d, and a loop job whose body is one. *)
SeqLeft(job, d, fw, r) ==
  \E p \in LoopTrees[d] : \E w \in 0 .. Len(p) : \E t :
    /\ job = [kind |-> "seq", nodes |-> p, idx |-> IF fw THEN w + 1 ELSE Len(p) - w]
    /\ Handing(t, p, d, fw) /\ r = t[w]

Copied(t, n, x) ==
  t \in [0 .. n -> Seq(Inst)] /\ t[0] = <<>> /\ \A k \in 1 .. n : t[k] = x \o t[k - 1]

RepLeft(job, d, fw, r) ==
  \E b \in LoopTrees[d] : \E n \in Nat : \E t :
    /\ job = [kind |-> "rep", body |-> b, count |-> n]
    /\ Copied(t, n, Ordered(UnrolledTo[d][b], fw)) /\ r = t[n]

LEMMA SeqStart ==
  ASSUME NEW d \in 0 .. MaxNesting, NEW p \in LoopTrees[d], NEW fw \in BOOLEAN
  PROVE  SeqLeft(SeqJob(p, fw), d, fw, Ordered(UnrolledTo[d][p], fw))
  <1>1. PICK t : Handing(t, p, d, fw)
    BY ProgramLeft
  <1>2. PICK n \in Nat : n = Len(p)
    BY LoopNodeIs
  <1>3. t[0] = Ordered(UnrolledTo[d][p], fw)
    BY <1>1 DEF Handing, LeftOver
  <1>4. SeqJob(p, fw) = [kind |-> "seq", nodes |-> p, idx |-> IF fw THEN 0 + 1 ELSE Len(p) - 0]
    BY <1>2 DEF SeqJob, FirstIndex
  <1>5. 0 \in 0 .. Len(p)
    BY <1>2
  <1> QED
    BY <1>1, <1>3, <1>4, <1>5, Zenon DEF SeqLeft

LEMMA SeqOver ==
  ASSUME NEW d \in 0 .. MaxNesting, NEW fw \in BOOLEAN, NEW job, NEW r, SeqLeft(job, d, fw, r),
         job.idx \notin 1 .. Len(job.nodes)
  PROVE  r = <<>>
  <1>1. PICK p \in LoopTrees[d] : \E w \in 0 .. Len(p) : \E t :
          /\ job = [kind |-> "seq", nodes |-> p, idx |-> IF fw THEN w + 1 ELSE Len(p) - w]
          /\ Handing(t, p, d, fw) /\ r = t[w]
    BY Zenon DEF SeqLeft
  <1>2. PICK w \in 0 .. Len(p) : \E t :
          /\ job = [kind |-> "seq", nodes |-> p, idx |-> IF fw THEN w + 1 ELSE Len(p) - w]
          /\ Handing(t, p, d, fw) /\ r = t[w]
    BY <1>1
  <1>3. PICK t :
          /\ job = [kind |-> "seq", nodes |-> p, idx |-> IF fw THEN w + 1 ELSE Len(p) - w]
          /\ Handing(t, p, d, fw) /\ r = t[w]
    BY <1>2
  <1>4. PICK n \in Nat : n = Len(p)
    BY LoopNodeIs
  <1>5. w = n
    BY <1>3, <1>4
  <1> QED
    BY <1>3, <1>4, <1>5 DEF Handing, LeftOver

LEMMA SeqStep ==
  ASSUME NEW d \in 0 .. MaxNesting, NEW fw \in BOOLEAN, NEW job, NEW r, SeqLeft(job, d, fw, r),
         job.idx \in 1 .. Len(job.nodes)
  PROVE  /\ LeavesOf(job.nodes[job.idx], Under(d)) \in Seq(Inst)
         /\ \E q \in Seq(Inst) :
              /\ r = Ordered(LeavesOf(job.nodes[job.idx], Under(d)), fw) \o q
              /\ SeqLeft([job EXCEPT !.idx = IF fw THEN @ + 1 ELSE @ - 1], d, fw, q)
         /\ \/ job.nodes[job.idx].kind = "inst" /\ job.nodes[job.idx].inst \in Inst
            \/ /\ job.nodes[job.idx].kind = "rep" /\ job.nodes[job.idx].count \in Nat
               /\ d # 0 /\ d - 1 \in 0 .. MaxNesting
               /\ job.nodes[job.idx].body \in LoopTrees[d - 1]
  <1>1. PICK p \in LoopTrees[d] : \E w \in 0 .. Len(p) : \E t :
          /\ job = [kind |-> "seq", nodes |-> p, idx |-> IF fw THEN w + 1 ELSE Len(p) - w]
          /\ Handing(t, p, d, fw) /\ r = t[w]
    BY Zenon DEF SeqLeft
  <1>2. PICK w \in 0 .. Len(p) : \E t :
          /\ job = [kind |-> "seq", nodes |-> p, idx |-> IF fw THEN w + 1 ELSE Len(p) - w]
          /\ Handing(t, p, d, fw) /\ r = t[w]
    BY <1>1
  <1>3. PICK t :
          /\ job = [kind |-> "seq", nodes |-> p, idx |-> IF fw THEN w + 1 ELSE Len(p) - w]
          /\ Handing(t, p, d, fw) /\ r = t[w]
    BY <1>2
  <1>4. PICK n \in Nat : n = Len(p)
    BY LoopNodeIs
  <1>5. PICK i : i = IF fw THEN w + 1 ELSE n - w
    OBVIOUS
  <1>6. job = [kind |-> "seq", nodes |-> p, idx |-> i] /\ job.idx = i /\ job.nodes = p
    BY <1>3, <1>4, <1>5
  <1>7. w + 1 \in 1 .. n /\ i \in 1 .. n /\ i = Place(w + 1, n, fw)
    BY <1>4, <1>5, <1>6 DEF Place
  <1>8. LeavesOf(p[i], Under(d)) \in Seq(Inst)
    <2>1. d # 0 => d - 1 \in 0 .. MaxNesting
      BY MachineAssumption
    <2>2. d # 0 => \A b \in LoopTrees[d - 1] : UnrolledTo[d - 1][b] \in Seq(Inst)
      BY <2>1, UnrolledTyped
    <2> QED
      BY <1>4, <1>7, <2>2, LeavesTyped
  <1>9. /\ t \in [0 .. n -> Seq(Inst)]
        /\ \A k \in 1 .. n : t[k - 1] = HandedOut(p, d, fw)[k] \o t[k]
    BY <1>3, <1>4 DEF Handing, LeftOver
  <1>10. PICK q \in Seq(Inst) : q = t[w + 1]
    BY <1>7, <1>9
  <1>11. r = Ordered(LeavesOf(p[i], Under(d)), fw) \o q
    <2>1. HandedOut(p, d, fw)[w + 1] = Ordered(LeavesOf(p[i], Under(d)), fw)
      BY <1>4, <1>7 DEF HandedOut
    <2>2. t[(w + 1) - 1] = HandedOut(p, d, fw)[w + 1] \o t[w + 1]
      BY <1>7, <1>9
    <2>3. (w + 1) - 1 = w
      BY <1>4
    <2> QED
      BY <1>3, <1>10, <2>1, <2>2, <2>3
  <1>12. SeqLeft([job EXCEPT !.idx = IF fw THEN @ + 1 ELSE @ - 1], d, fw, q)
    <2>1. PICK v \in 0 .. Len(p) : v = w + 1
      BY <1>4, <1>7
    <2>2. PICK j : j = IF fw THEN i + 1 ELSE i - 1
      OBVIOUS
    <2>3. j = IF fw THEN v + 1 ELSE Len(p) - v
      BY <1>4, <1>5, <1>7, <2>1, <2>2
    <2>4. [job EXCEPT !.idx = IF fw THEN @ + 1 ELSE @ - 1] = [kind |-> "seq", nodes |-> p, idx |-> j]
      BY <1>6, <2>2
    <2>5. q = t[v]
      BY <1>10, <2>1
    <2> QED
      BY <1>3, <2>3, <2>4, <2>5, Zenon DEF SeqLeft
  <1>13. \/ p[i].kind = "inst" /\ p[i].inst \in Inst
         \/ /\ p[i].kind = "rep" /\ p[i].count \in Nat
            /\ d # 0 /\ d - 1 \in 0 .. MaxNesting /\ p[i].body \in LoopTrees[d - 1]
    BY <1>4, <1>7, LoopNodeIs
  <1> QED
    BY <1>6, <1>8, <1>10, <1>11, <1>12, <1>13

LEMMA RepOver ==
  ASSUME NEW d \in 0 .. MaxNesting, NEW fw \in BOOLEAN, NEW job, NEW r, RepLeft(job, d, fw, r),
         job.count = 0
  PROVE  r = <<>>
  <1>1. PICK b \in LoopTrees[d] : \E n \in Nat : \E t :
          /\ job = [kind |-> "rep", body |-> b, count |-> n]
          /\ Copied(t, n, Ordered(UnrolledTo[d][b], fw)) /\ r = t[n]
    BY Zenon DEF RepLeft
  <1>2. PICK n \in Nat : \E t :
          /\ job = [kind |-> "rep", body |-> b, count |-> n]
          /\ Copied(t, n, Ordered(UnrolledTo[d][b], fw)) /\ r = t[n]
    BY <1>1
  <1>3. PICK t :
          /\ job = [kind |-> "rep", body |-> b, count |-> n]
          /\ Copied(t, n, Ordered(UnrolledTo[d][b], fw)) /\ r = t[n]
    BY <1>2
  <1>4. n = 0
    BY <1>3
  <1> QED
    BY <1>3, <1>4 DEF Copied

LEMMA RepStep ==
  ASSUME NEW d \in 0 .. MaxNesting, NEW fw \in BOOLEAN, NEW job, NEW r, RepLeft(job, d, fw, r),
         job.count > 0
  PROVE  /\ job.body \in LoopTrees[d]
         /\ \E q \in Seq(Inst) :
              /\ r = Ordered(UnrolledTo[d][job.body], fw) \o q
              /\ RepLeft([job EXCEPT !.count = @ - 1], d, fw, q)
  <1>1. PICK b \in LoopTrees[d] : \E n \in Nat : \E t :
          /\ job = [kind |-> "rep", body |-> b, count |-> n]
          /\ Copied(t, n, Ordered(UnrolledTo[d][b], fw)) /\ r = t[n]
    BY Zenon DEF RepLeft
  <1>2. PICK n \in Nat : \E t :
          /\ job = [kind |-> "rep", body |-> b, count |-> n]
          /\ Copied(t, n, Ordered(UnrolledTo[d][b], fw)) /\ r = t[n]
    BY <1>1
  <1>3. PICK t :
          /\ job = [kind |-> "rep", body |-> b, count |-> n]
          /\ Copied(t, n, Ordered(UnrolledTo[d][b], fw)) /\ r = t[n]
    BY <1>2
  <1>4. n \in Nat /\ n > 0 /\ job.body = b
    BY <1>3
  <1>5. PICK m \in Nat : m = n - 1
    BY <1>4
  <1>6. PICK x : x = Ordered(UnrolledTo[d][b], fw)
    OBVIOUS
  <1>7. t \in [0 .. n -> Seq(Inst)] /\ t[0] = <<>> /\ \A k \in 1 .. n : t[k] = x \o t[k - 1]
    BY <1>3, <1>6 DEF Copied
  <1> DEFINE f == [k \in 0 .. m |-> t[k]]
  <1>8. f \in [0 .. m -> Seq(Inst)] /\ \A k \in 0 .. m : f[k] = t[k]
    BY <1>5, <1>7
  <1> HIDE DEF f
  <1>9. Copied(f, m, x)
    <2>1. \A k \in 1 .. m : k \in 1 .. n /\ k - 1 \in 0 .. m /\ k \in 0 .. m
      BY <1>5
    <2>2. \A k \in 1 .. m : f[k] = x \o f[k - 1]
      BY <1>7, <1>8, <2>1
    <2>3. f[0] = <<>>
      BY <1>7, <1>8
    <2> QED
      BY <1>8, <2>2, <2>3 DEF Copied
  <1>10. PICK q \in Seq(Inst) : q = t[m] /\ q = f[m]
    BY <1>5, <1>7, <1>8
  <1>11. r = x \o q
    <2>1. n \in 1 .. n
      BY <1>4
    <2> QED
      BY <1>3, <1>5, <1>7, <1>10, <2>1
  <1>12. [job EXCEPT !.count = @ - 1] = [kind |-> "rep", body |-> b, count |-> m]
    BY <1>3, <1>5
  <1>13. RepLeft([job EXCEPT !.count = @ - 1], d, fw, q)
    BY <1>6, <1>9, <1>10, <1>12, Zenon DEF RepLeft
  <1> QED
    BY <1>4, <1>6, <1>10, <1>11, <1>13

(* A loop that is entered has all its turns left. *)
LEMMA RepStart ==
  ASSUME NEW d \in 0 .. MaxNesting, NEW b \in LoopTrees[d], NEW n \in Nat, NEW fw \in BOOLEAN
  PROVE  RepLeft(RepJob(b, n), d, fw,
                 Ordered(Lists!FlattenSeq([c \in 1 .. n |-> UnrolledTo[d][b]]), fw))
  <1>1. PICK x \in Seq(Inst) : x = UnrolledTo[d][b]
    BY UnrolledTyped
  <1>2. PICK parts \in [1 .. n -> Seq(Inst)] : parts = [c \in 1 .. n |-> x]
    OBVIOUS
  <1>3. PICK y \in Seq(Inst) : y = Ordered(x, fw)
    BY OrderedFacts
  <1>4. PICK t : LeftOver(t, n, Inst, Ordered(Lists!FlattenSeq(parts), fw), [k \in 1 .. n |-> y])
    <2>1. CASE fw = TRUE
      <3>1. parts = [k \in 1 .. n |-> y]
        BY <1>2, <1>3, <2>1 DEF Ordered
      <3>2. Ordered(Lists!FlattenSeq(parts), fw) = Lists!FlattenSeq(parts)
        BY <2>1 DEF Ordered
      <3> QED
        BY <3>1, <3>2, LeftForward
    <2>2. CASE fw = FALSE
      <3>1. [k \in 1 .. n |-> Lists!Reverse(parts[n + 1 - k])] = [k \in 1 .. n |-> y]
        <4>1. \A k \in 1 .. n : parts[n + 1 - k] = x
          BY <1>2
        <4>2. y = Lists!Reverse(x)
          BY <1>3, <2>2 DEF Ordered
        <4> QED
          BY <4>1, <4>2
      <3>2. Ordered(Lists!FlattenSeq(parts), fw) = Lists!Reverse(Lists!FlattenSeq(parts))
        BY <2>2 DEF Ordered
      <3>3. PICK f : LeftOver(f, n, Inst, Lists!Reverse(Lists!FlattenSeq(parts)),
                              [k \in 1 .. n |-> Lists!Reverse(parts[n + 1 - k])])
        BY LeftBackward
      <3> QED
        BY <3>1, <3>2, <3>3
    <2> QED
      BY <2>1, <2>2
  <1>5. /\ t \in [0 .. n -> Seq(Inst)] /\ t[0] = Ordered(Lists!FlattenSeq(parts), fw) /\ t[n] = <<>>
        /\ \A k \in 1 .. n : t[k - 1] = y \o t[k]
    BY <1>4 DEF LeftOver
  <1> DEFINE f == [k \in 0 .. n |-> t[n - k]]
  <1>6. f \in [0 .. n -> Seq(Inst)] /\ \A k \in 0 .. n : f[k] = t[n - k]
    BY <1>5
  <1> HIDE DEF f
  <1>7. Copied(f, n, y)
    <2>1. ASSUME NEW k \in 1 .. n PROVE f[k] = y \o f[k - 1]
      <3>1. PICK j \in 1 .. n : j = n + 1 - k /\ j - 1 = n - k /\ n - (k - 1) = j
        OBVIOUS
      <3>2. k \in 0 .. n /\ k - 1 \in 0 .. n
        OBVIOUS
      <3>3. f[k] = t[j - 1] /\ f[k - 1] = t[j]
        BY <1>6, <3>1, <3>2
      <3> QED
        BY <1>5, <3>1, <3>3
    <2>2. \A k \in 1 .. n : f[k] = y \o f[k - 1]
      BY <2>1
    <2>3. f[0] = <<>>
      <3>1. 0 \in 0 .. n /\ n - 0 = n
        OBVIOUS
      <3> QED
        BY <1>5, <1>6, <3>1
    <2> QED
      BY <1>6, <2>2, <2>3 DEF Copied
  <1>8. f[n] = Ordered(Lists!FlattenSeq(parts), fw)
    BY <1>5, <1>6
  <1>9. RepJob(b, n) = [kind |-> "rep", body |-> b, count |-> n]
    BY DEF RepJob
  <1>10. RepLeft(RepJob(b, n), d, fw, Ordered(Lists!FlattenSeq(parts), fw))
    BY <1>1, <1>3, <1>7, <1>8, <1>9, Zenon DEF RepLeft
  <1> QED
    BY <1>1, <1>2, <1>10

-----------------------------------------------------------------------------
(* What the job stack has still to hand out. Sequences and loops take turns  *)
(* on it, each a level further in.                                           *)

JobLeft(job, k, d, fw, q) ==
  /\ k \div 2 <= d
  /\ \/ k % 2 = 1 /\ SeqLeft(job, d - k \div 2, fw, q)
     \/ k % 2 = 0 /\ RepLeft(job, d - k \div 2, fw, q)

AllTrees == UNION {LoopTrees[d] : d \in 0 .. MaxNesting}
JobKinds == [kind : {"seq"}, nodes : AllTrees, idx : Int] \union [kind : {"rep"}, body : AllTrees, count : Nat]

Rests(rest, js, d, fw) ==
  /\ rest \in [0 .. Len(js) -> Seq(Inst)] /\ rest[0] = <<>>
  /\ \A k \in 1 .. Len(js) :
       \E q \in Seq(Inst) : JobLeft(js[k], k, d, fw, q) /\ rest[k] = q \o rest[k - 1]

Stack(js, d, fw, r) == js \in Seq(JobKinds) /\ \E rest : Rests(rest, js, d, fw) /\ r = rest[Len(js)]

LEMMA Halves ==
  ASSUME NEW k \in Nat
  PROVE  /\ k \div 2 \in Nat /\ k % 2 \in {0, 1} /\ k = 2 * (k \div 2) + (k % 2)
         /\ k % 2 = 1 => (k + 1) % 2 = 0 /\ (k + 1) \div 2 = k \div 2 + 1
         /\ k % 2 = 0 => (k + 1) % 2 = 1 /\ (k + 1) \div 2 = k \div 2
  BY SMT

LEMMA JobKind ==
  ASSUME NEW d \in 0 .. MaxNesting, NEW k \in Nat, NEW fw \in BOOLEAN, NEW job, NEW q, JobLeft(job, k, d, fw, q)
  PROVE  /\ job \in JobKinds
         /\ d - k \div 2 \in 0 .. MaxNesting
         /\ \/ job.kind = "seq" /\ k % 2 = 1 /\ SeqLeft(job, d - k \div 2, fw, q)
            \/ job.kind = "rep" /\ k % 2 = 0 /\ RepLeft(job, d - k \div 2, fw, q)
  <1>1. PICK e \in 0 .. MaxNesting : e = d - k \div 2
    BY Halves, MachineAssumption DEF JobLeft
  <1>2. CASE k % 2 = 1 /\ SeqLeft(job, e, fw, q)
    <2>1. PICK p \in LoopTrees[e] : \E w \in 0 .. Len(p) :
            job = [kind |-> "seq", nodes |-> p, idx |-> IF fw THEN w + 1 ELSE Len(p) - w]
      BY <1>2, Zenon DEF SeqLeft
    <2>2. PICK n \in Nat : n = Len(p)
      BY LoopNodeIs
    <2>3. PICK w \in 0 .. n : job = [kind |-> "seq", nodes |-> p, idx |-> IF fw THEN w + 1 ELSE n - w]
      BY <2>1, <2>2
    <2>4. p \in AllTrees
      BY DEF AllTrees
    <2>5. job \in [kind : {"seq"}, nodes : AllTrees, idx : Int]
      BY <2>3, <2>4
    <2> QED
      BY <1>1, <1>2, <2>3, <2>5 DEF JobKinds
  <1>3. CASE k % 2 = 0 /\ RepLeft(job, e, fw, q)
    <2>1. PICK b \in LoopTrees[e] : \E n \in Nat : job = [kind |-> "rep", body |-> b, count |-> n]
      BY <1>3, Zenon DEF RepLeft
    <2>2. PICK n \in Nat : job = [kind |-> "rep", body |-> b, count |-> n]
      BY <2>1
    <2>3. b \in AllTrees
      BY DEF AllTrees
    <2>4. job \in [kind : {"rep"}, body : AllTrees, count : Nat]
      BY <2>2, <2>3
    <2> QED
      BY <1>1, <1>3, <2>2, <2>4 DEF JobKinds
  <1> QED
    BY <1>1, <1>2, <1>3 DEF JobLeft

LEMMA StackEmpty ==
  ASSUME NEW d, NEW fw, NEW r, Stack(<<>>, d, fw, r)
  PROVE  r = <<>>
  BY DEF Stack, Rests

LEMMA StackNone ==
  ASSUME NEW d, NEW fw
  PROVE  Stack(<<>>, d, fw, <<>>)
  <1>1. Len(<<>>) = 0 /\ <<>> \in Seq(JobKinds) /\ <<>> \in Seq(Inst)
    OBVIOUS
  <1> DEFINE rest == [k \in 0 .. 0 |-> <<>>]
  <1>2. rest \in [0 .. 0 -> Seq(Inst)] /\ rest[0] = <<>> /\ \A k \in 1 .. 0 : FALSE
    BY <1>1
  <1> HIDE DEF rest
  <1>3. Rests(rest, <<>>, d, fw)
    BY <1>1, <1>2 DEF Rests
  <1> QED
    BY <1>1, <1>2, <1>3 DEF Stack

(* It never holds more than two jobs per level. *)
LEMMA StackBound ==
  ASSUME NEW d \in 0 .. MaxNesting, NEW fw, NEW js, NEW r, Stack(js, d, fw, r)
  PROVE  Len(js) \in Nat /\ Len(js) <= 2 * d + 1
  <1>1. PICK n \in Nat : n = Len(js)
    BY DEF Stack
  <1>2. n # 0 => n \div 2 <= d
    BY <1>1 DEF Stack, Rests, JobLeft
  <1>3. d \in Nat
    BY MachineAssumption
  <1> QED
    BY <1>1, <1>2, <1>3, Halves

TopLeft(js, d, fw, r) ==
  \E q \in Seq(Inst) : \E r0 \in Seq(Inst) :
    /\ JobLeft(Lists!Last(js), Len(js), d, fw, q)
    /\ Stack(Lists!Front(js), d, fw, r0)
    /\ r = q \o r0

LEMMA StackTop ==
  ASSUME NEW d, NEW fw, NEW js, NEW r, Stack(js, d, fw, r), js # <<>>
  PROVE  /\ js \in Seq(JobKinds) /\ Len(js) \in Nat /\ Len(js) > 0
         /\ Lists!Last(js) = js[Len(js)] /\ Len(Lists!Front(js)) + 1 = Len(js)
         /\ TopLeft(js, d, fw, r)
  <1>1. js \in Seq(JobKinds)
    BY DEF Stack
  <1>2. PICK m \in Nat : Len(js) = m + 1
    BY <1>1
  <1>3. PICK rest : Rests(rest, js, d, fw) /\ r = rest[Len(js)]
    BY DEF Stack
  <1>4. /\ rest \in [0 .. m + 1 -> Seq(Inst)] /\ rest[0] = <<>>
        /\ \A k \in 1 .. m + 1 :
             \E q \in Seq(Inst) : JobLeft(js[k], k, d, fw, q) /\ rest[k] = q \o rest[k - 1]
    BY <1>2, <1>3 DEF Rests
  <1>5. PICK front : front = Lists!Front(js)
    OBVIOUS
  <1>6. front \in Seq(JobKinds) /\ Len(front) = m /\ \A k \in 1 .. m : front[k] = js[k]
    BY <1>1, <1>2, <1>5 DEF Lists!Front
  <1>7. Lists!Last(js) = js[Len(js)]
    BY DEF Lists!Last
  <1>8. PICK q \in Seq(Inst) : JobLeft(js[m + 1], m + 1, d, fw, q) /\ rest[m + 1] = q \o rest[(m + 1) - 1]
    <2>1. m + 1 \in 1 .. m + 1
      OBVIOUS
    <2> QED
      BY <1>4, <2>1
  <1> DEFINE g == [k \in 0 .. m |-> rest[k]]
  <1>9. g \in [0 .. m -> Seq(Inst)] /\ \A k \in 0 .. m : g[k] = rest[k]
    BY <1>4
  <1> HIDE DEF g
  <1>10. Rests(g, front, d, fw)
    <2>1. ASSUME NEW k \in 1 .. m
          PROVE  \E x \in Seq(Inst) : JobLeft(front[k], k, d, fw, x) /\ g[k] = x \o g[k - 1]
      <3>1. k \in 1 .. m + 1 /\ k \in 0 .. m /\ k - 1 \in 0 .. m
        OBVIOUS
      <3> QED
        BY <1>4, <1>6, <1>9, <3>1
    <2>2. g[0] = <<>>
      BY <1>4, <1>9
    <2> QED
      BY <1>6, <1>9, <2>1, <2>2 DEF Rests
  <1>11. PICK r0 \in Seq(Inst) : r0 = g[m]
    BY <1>9
  <1>12. Stack(front, d, fw, r0)
    BY <1>6, <1>10, <1>11 DEF Stack
  <1>13. r = q \o r0
    <2>1. (m + 1) - 1 = m /\ m \in 0 .. m
      OBVIOUS
    <2> QED
      BY <1>2, <1>3, <1>8, <1>9, <1>11, <2>1
  <1>14. Len(js) \in Nat /\ Len(js) > 0 /\ Len(Lists!Front(js)) + 1 = Len(js)
    BY <1>2, <1>5, <1>6
  <1>15. JobLeft(Lists!Last(js), Len(js), d, fw, q)
    BY <1>2, <1>7, <1>8
  <1>16. TopLeft(js, d, fw, r)
    BY <1>5, <1>12, <1>13, <1>15, Zenon DEF TopLeft
  <1> QED
    BY <1>1, <1>7, <1>14, <1>16

LEMMA StackPush ==
  ASSUME NEW d \in 0 .. MaxNesting, NEW fw \in BOOLEAN, NEW js, NEW r0, Stack(js, d, fw, r0), NEW job,
         NEW q \in Seq(Inst), JobLeft(job, Len(js) + 1, d, fw, q)
  PROVE  Stack(Append(js, job), d, fw, q \o r0) /\ r0 \in Seq(Inst)
  <1>1. js \in Seq(JobKinds)
    BY DEF Stack
  <1>2. PICK m \in Nat : Len(js) = m
    BY <1>1
  <1>3. PICK rest : Rests(rest, js, d, fw) /\ r0 = rest[Len(js)]
    BY DEF Stack
  <1>4. /\ rest \in [0 .. m -> Seq(Inst)] /\ rest[0] = <<>>
        /\ \A k \in 1 .. m :
             \E x \in Seq(Inst) : JobLeft(js[k], k, d, fw, x) /\ rest[k] = x \o rest[k - 1]
    BY <1>2, <1>3 DEF Rests
  <1>5. job \in JobKinds
    BY <1>2, JobKind
  <1>6. PICK ks : ks = Append(js, job)
    OBVIOUS
  <1>7. /\ ks \in Seq(JobKinds) /\ Len(ks) = m + 1 /\ ks[m + 1] = job
        /\ \A k \in 1 .. m : ks[k] = js[k]
    BY <1>1, <1>2, <1>5, <1>6
  <1>8. r0 \in Seq(Inst)
    BY <1>2, <1>3, <1>4
  <1>9. PICK x \in Seq(Inst) : x = q \o r0
    BY <1>8, JoinFacts
  <1> DEFINE g == [k \in 0 .. m + 1 |-> IF k = m + 1 THEN x ELSE rest[k]]
  <1>10. /\ g \in [0 .. m + 1 -> Seq(Inst)] /\ g[m + 1] = x
         /\ \A k \in 0 .. m : g[k] = rest[k]
    BY <1>4
  <1> HIDE DEF g
  <1>11. ASSUME NEW k \in 1 .. m + 1
         PROVE  \E y \in Seq(Inst) : JobLeft(ks[k], k, d, fw, y) /\ g[k] = y \o g[k - 1]
    <2>1. CASE k = m + 1
      <3>1. g[k - 1] = r0
        <4>1. k - 1 = m /\ m \in 0 .. m
          BY <2>1
        <4> QED
          BY <1>2, <1>3, <1>10, <4>1
      <3> QED
        BY <1>2, <1>7, <1>9, <1>10, <2>1, <3>1
    <2>2. CASE k # m + 1
      <3>1. k \in 1 .. m /\ k \in 0 .. m /\ k - 1 \in 0 .. m
        BY <2>2
      <3> QED
        BY <1>4, <1>7, <1>10, <3>1
    <2> QED
      BY <2>1, <2>2
  <1>12. g[0] = <<>>
    BY <1>4, <1>10
  <1>13. Rests(g, ks, d, fw)
    BY <1>7, <1>10, <1>11, <1>12 DEF Rests
  <1>14. Stack(ks, d, fw, x)
    BY <1>7, <1>10, <1>13 DEF Stack
  <1> QED
    BY <1>6, <1>8, <1>9, <1>14

(* The job on top is replaced. *)
LEMMA TopChanged ==
  ASSUME NEW js \in Seq(JobKinds), js # <<>>, NEW job
  PROVE  [js EXCEPT ![Len(js)] = job] = Append(Lists!Front(js), job)
  <1>1. PICK m \in Nat : Len(js) = m + 1
    OBVIOUS
  <1>2. js = [k \in 1 .. m + 1 |-> js[k]]
    BY <1>1
  <1>3. PICK front : front = Lists!Front(js)
    OBVIOUS
  <1>4. front \in Seq(JobKinds) /\ Len(front) = m /\ \A k \in 1 .. m : front[k] = js[k]
    BY <1>1, <1>3 DEF Lists!Front
  <1>5. PICK a : a = Append(front, job)
    OBVIOUS
  <1>51. PICK S : S = JobKinds \union {job}
    OBVIOUS
  <1>52. front \in Seq(S) /\ job \in S
    <2>1. front = [k \in 1 .. m |-> front[k]] /\ \A k \in 1 .. m : front[k] \in S
      BY <1>4, <1>51
    <2> QED
      BY <1>51, <2>1
  <1>6. a = [k \in 1 .. m + 1 |-> a[k]] /\ a[m + 1] = job /\ \A k \in 1 .. m : a[k] = front[k]
    <2>1. PICK w \in Seq(S) : w = front /\ Len(w) = m
      BY <1>4, <1>52
    <2>2. PICK j \in S : j = job
      BY <1>52
    <2>3. /\ Append(w, j) \in Seq(S) /\ Len(Append(w, j)) = m + 1 /\ Append(w, j)[m + 1] = j
          /\ \A k \in 1 .. m : Append(w, j)[k] = w[k]
      BY <2>1
    <2>4. a \in Seq(S) /\ Len(a) = m + 1
      BY <1>5, <2>1, <2>2, <2>3
    <2>5. a = [k \in 1 .. m + 1 |-> a[k]]
      BY <2>4
    <2> QED
      BY <1>5, <2>1, <2>2, <2>3, <2>5
  <1>7. PICK e : e = [js EXCEPT ![m + 1] = job]
    OBVIOUS
  <1>8. e = [k \in 1 .. m + 1 |-> IF k = m + 1 THEN job ELSE js[k]]
    BY <1>2, <1>7
  <1>9. \A k \in 1 .. m + 1 : (IF k = m + 1 THEN job ELSE js[k]) = a[k]
    <2>1. \A k \in 1 .. m + 1 : k # m + 1 => k \in 1 .. m
      OBVIOUS
    <2> QED
      BY <1>4, <1>6, <2>1
  <1> QED
    BY <1>1, <1>3, <1>5, <1>6, <1>7, <1>8, <1>9

-----------------------------------------------------------------------------
(* The turns of the iterator: what is left stays the same until a leaf is    *)
(* handed out.                                                               *)

LEMMA PopKeeps ==
  ASSUME NEW d \in 0 .. MaxNesting, NEW fw \in BOOLEAN, NEW r, Stack(jobs, d, fw, r), Pop
  PROVE  Stack(jobs', d, fw, r)
  <1>1. jobs # <<>> /\ jobs' = Lists!Front(jobs)
    BY DEF Pop, OnSeq, OnRep
  <1>20. TopLeft(jobs, d, fw, r)
    BY <1>1, StackTop, Zenon
  <1>21. PICK q \in Seq(Inst) : \E r0 \in Seq(Inst) :
           /\ JobLeft(Lists!Last(jobs), Len(jobs), d, fw, q)
           /\ Stack(Lists!Front(jobs), d, fw, r0) /\ r = q \o r0
    BY <1>20, Zenon DEF TopLeft
  <1>2. PICK r0 \in Seq(Inst) :
          /\ JobLeft(Lists!Last(jobs), Len(jobs), d, fw, q)
          /\ Stack(Lists!Front(jobs), d, fw, r0) /\ r = q \o r0
    BY <1>21
  <1>3. PICK top : top = Lists!Last(jobs)
    OBVIOUS
  <1>4. Len(jobs) \in Nat
    BY <1>1, StackTop
  <1>5. PICK e \in 0 .. MaxNesting : e = d - Len(jobs) \div 2
    BY <1>2, <1>4, JobKind
  <1>6. \/ top.kind = "seq" /\ SeqLeft(top, e, fw, q)
        \/ top.kind = "rep" /\ RepLeft(top, e, fw, q)
    BY <1>2, <1>3, <1>4, <1>5, JobKind
  <1>7. \/ top.kind = "seq" /\ top.idx \notin 1 .. Len(top.nodes)
        \/ top.kind = "rep" /\ top.count = 0
    BY <1>3 DEF Pop, OnSeq, OnRep, Top, Exhausted
  <1>8. q = <<>>
    <2>1. CASE top.kind = "seq"
      BY <1>6, <1>7, <2>1, SeqOver
    <2>2. CASE top.kind = "rep"
      BY <1>6, <1>7, <2>2, RepOver
    <2> QED
      BY <1>7, <2>1, <2>2
  <1>9. r = r0
    BY <1>2, <1>8, JoinFacts
  <1> QED
    BY <1>1, <1>2, <1>9

SteppedOver(d, fw, r) ==
  \E e \in 0 .. MaxNesting : \E q \in Seq(Inst) :
    /\ e = d - Len(jobs) \div 2 /\ Len(jobs) \in Nat /\ Len(jobs) % 2 = 1 /\ Len(Stepped) = Len(jobs)
    /\ LeavesOf(Node, Under(e)) \in Seq(Inst)
    /\ r = Ordered(LeavesOf(Node, Under(e)), fw) \o q
    /\ Stack(Stepped, d, fw, q)
    /\ \/ Node.kind = "inst" /\ Node.inst \in Inst
       \/ /\ Node.kind = "rep" /\ Node.count \in Nat
          /\ e # 0 /\ e - 1 \in 0 .. MaxNesting /\ Node.body \in LoopTrees[e - 1]

(* A sequence steps over a node. *)
LEMMA StepOver ==
  ASSUME NEW d \in 0 .. MaxNesting, NEW fw \in BOOLEAN, fw = Forwards,
         NEW r, Stack(jobs, d, fw, r), OnSeq, ~Exhausted
  PROVE  SteppedOver(d, fw, r)
  <1>1. jobs # <<>>
    BY DEF OnSeq
  <1>20. TopLeft(jobs, d, fw, r)
    BY <1>1, StackTop, Zenon
  <1>21. PICK q \in Seq(Inst) : \E r0 \in Seq(Inst) :
           /\ JobLeft(Lists!Last(jobs), Len(jobs), d, fw, q)
           /\ Stack(Lists!Front(jobs), d, fw, r0) /\ r = q \o r0
    BY <1>20, Zenon DEF TopLeft
  <1>2. PICK r0 \in Seq(Inst) :
          /\ JobLeft(Lists!Last(jobs), Len(jobs), d, fw, q)
          /\ Stack(Lists!Front(jobs), d, fw, r0) /\ r = q \o r0
    BY <1>21
  <1>3. PICK top : top = Lists!Last(jobs)
    OBVIOUS
  <1>4. PICK n \in Nat : n = Len(jobs)
    BY <1>1, StackTop
  <1>5. PICK e \in 0 .. MaxNesting : e = d - n \div 2
    BY <1>2, <1>4, JobKind
  <1>6. top.kind = "seq" /\ top.idx \in 1 .. Len(top.nodes)
    BY <1>3 DEF OnSeq, Top, Exhausted
  <1>7. n % 2 = 1 /\ SeqLeft(top, e, fw, q)
    BY <1>2, <1>3, <1>4, <1>5, <1>6, JobKind
  <1>8. Node = top.nodes[top.idx]
    BY <1>3 DEF Node, Top
  <1>9. PICK job : job = [top EXCEPT !.idx = IF fw THEN @ + 1 ELSE @ - 1]
    OBVIOUS
  <1>10. PICK p \in Seq(Inst) :
           /\ q = Ordered(LeavesOf(Node, Under(e)), fw) \o p
           /\ SeqLeft(job, e, fw, p)
    BY <1>6, <1>7, <1>8, <1>9, SeqStep, ZenonT(30)
  <1>11. /\ LeavesOf(Node, Under(e)) \in Seq(Inst)
         /\ \/ Node.kind = "inst" /\ Node.inst \in Inst
            \/ /\ Node.kind = "rep" /\ Node.count \in Nat
               /\ e # 0 /\ e - 1 \in 0 .. MaxNesting /\ Node.body \in LoopTrees[e - 1]
    <2>1. /\ LeavesOf(top.nodes[top.idx], Under(e)) \in Seq(Inst)
          /\ \/ top.nodes[top.idx].kind = "inst" /\ top.nodes[top.idx].inst \in Inst
             \/ /\ top.nodes[top.idx].kind = "rep" /\ top.nodes[top.idx].count \in Nat
                /\ e # 0 /\ e - 1 \in 0 .. MaxNesting
                /\ top.nodes[top.idx].body \in LoopTrees[e - 1]
      BY <1>6, <1>7, SeqStep
    <2> QED
      BY <1>8, <2>1
  <1>12. PICK front : front = Lists!Front(jobs)
    OBVIOUS
  <1>13. front \in Seq(JobKinds) /\ Len(front) + 1 = n /\ Lists!Last(jobs) = jobs[n] /\ jobs \in Seq(JobKinds)
    BY <1>1, <1>2, <1>4, <1>12, StackTop DEF Stack
  <1>14. Stepped = Append(front, job)
    <2>1. Stepped = [jobs EXCEPT ![n] = [jobs[n] EXCEPT !.idx = IF Forwards THEN @ + 1 ELSE @ - 1]]
      BY <1>4, Zenon DEF Stepped
    <2>2. Stepped = [jobs EXCEPT ![n] = job]
      BY <1>3, <1>9, <1>13, <2>1
    <2> QED
      BY <1>1, <1>4, <1>12, <1>13, <2>2, TopChanged
  <1>15. JobLeft(job, n, d, fw, p)
    <2>1. n \div 2 <= d
      BY <1>2, <1>4 DEF JobLeft
    <2> QED
      BY <1>5, <1>7, <1>10, <2>1 DEF JobLeft
  <1>16. Stack(Append(front, job), d, fw, p \o r0)
    BY <1>2, <1>12, <1>13, <1>15, StackPush
  <1>17. PICK x \in Seq(Inst) : x = Ordered(LeavesOf(Node, Under(e)), fw)
    BY <1>11, OrderedFacts
  <1>18. r = x \o (p \o r0) /\ p \o r0 \in Seq(Inst)
    <2>1. (x \o p) \o r0 = x \o (p \o r0)
      BY JoinAssoc
    <2>2. p \o r0 \in Seq(Inst)
      BY JoinFacts
    <2> QED
      BY <1>2, <1>10, <1>17, <2>1, <2>2, Zenon
  <1>19. Len(Append(front, job)) = n
    BY <1>13
  <1> QED
    BY <1>4, <1>5, <1>7, <1>11, <1>14, <1>16, <1>17, <1>18, <1>19, Zenon DEF SteppedOver

LEMMA SkipKeeps ==
  ASSUME NEW d \in 0 .. MaxNesting, NEW fw \in BOOLEAN, fw = Forwards,
         NEW r, Stack(jobs, d, fw, r), SkipEmptyRep
  PROVE  Stack(jobs', d, fw, r)
  <1>1. OnSeq /\ ~Exhausted /\ Node.kind = "rep" /\ Node.count = 0 /\ jobs' = Stepped
    BY DEF SkipEmptyRep
  <1>20. SteppedOver(d, fw, r)
    BY <1>1, StepOver, Zenon
  <1>21. PICK e \in 0 .. MaxNesting : \E q \in Seq(Inst) :
           /\ r = Ordered(LeavesOf(Node, Under(e)), fw) \o q
           /\ Stack(Stepped, d, fw, q)
    BY <1>20, Zenon DEF SteppedOver
  <1>2. PICK q \in Seq(Inst) :
          /\ r = Ordered(LeavesOf(Node, Under(e)), fw) \o q
          /\ Stack(Stepped, d, fw, q)
    BY <1>21
  <1>3. LeavesOf(Node, Under(e)) = Lists!FlattenSeq([c \in 1 .. 0 |-> Under(e)[Node.body]])
    BY <1>1 DEF LeavesOf
  <1>4. PICK parts : parts = [c \in 1 .. 0 |-> Under(e)[Node.body]]
    OBVIOUS
  <1>5. parts = <<>> /\ Len(parts) = 0
    BY <1>4
  <1>6. LeavesOf(Node, Under(e)) = <<>>
    BY <1>3, <1>4, <1>5 DEF Lists!FlattenSeq
  <1>7. <<>> \in Seq(Inst)
    OBVIOUS
  <1>8. r = q
    BY <1>2, <1>6, <1>7, OrderedFacts, JoinFacts
  <1> QED
    BY <1>1, <1>2, <1>8

LEMMA PushKeeps ==
  ASSUME NEW d \in 0 .. MaxNesting, NEW fw \in BOOLEAN, fw = Forwards,
         NEW r, Stack(jobs, d, fw, r), PushRep
  PROVE  Stack(jobs', d, fw, r)
  <1>1. /\ OnSeq /\ ~Exhausted /\ Node.kind = "rep" /\ Node.count > 0
        /\ jobs' = Append(Stepped, RepJob(Node.body, Node.count))
    BY DEF PushRep
  <1>20. SteppedOver(d, fw, r)
    BY <1>1, StepOver, Zenon
  <1>21. PICK e \in 0 .. MaxNesting : \E q \in Seq(Inst) :
           /\ e = d - Len(jobs) \div 2 /\ Len(jobs) \in Nat /\ Len(jobs) % 2 = 1 /\ Len(Stepped) = Len(jobs)
           /\ LeavesOf(Node, Under(e)) \in Seq(Inst)
           /\ r = Ordered(LeavesOf(Node, Under(e)), fw) \o q
           /\ Stack(Stepped, d, fw, q)
           /\ \/ Node.kind = "inst" /\ Node.inst \in Inst
              \/ /\ Node.kind = "rep" /\ Node.count \in Nat
                 /\ e # 0 /\ e - 1 \in 0 .. MaxNesting /\ Node.body \in LoopTrees[e - 1]
    BY <1>20, Zenon DEF SteppedOver
  <1>2. PICK q \in Seq(Inst) :
          /\ e = d - Len(jobs) \div 2 /\ Len(jobs) \in Nat /\ Len(jobs) % 2 = 1 /\ Len(Stepped) = Len(jobs)
          /\ LeavesOf(Node, Under(e)) \in Seq(Inst)
          /\ r = Ordered(LeavesOf(Node, Under(e)), fw) \o q
          /\ Stack(Stepped, d, fw, q)
          /\ \/ Node.kind = "inst" /\ Node.inst \in Inst
             \/ /\ Node.kind = "rep" /\ Node.count \in Nat
                /\ e # 0 /\ e - 1 \in 0 .. MaxNesting /\ Node.body \in LoopTrees[e - 1]
    BY <1>21
  <1>3. PICK f \in 0 .. MaxNesting : f = e - 1 /\ e # 0
    BY <1>1, <1>2
  <1>4. PICK b \in LoopTrees[f] : b = Node.body
    BY <1>1, <1>2, <1>3
  <1>5. PICK n \in Nat : n = Node.count
    BY <1>1, <1>2
  <1>6. PICK x \in Seq(Inst) : x = Ordered(LeavesOf(Node, Under(e)), fw)
    BY <1>2, OrderedFacts
  <1>7. LeavesOf(Node, Under(e)) = Lists!FlattenSeq([c \in 1 .. n |-> UnrolledTo[f][b]])
    BY <1>1, <1>3, <1>4, <1>5 DEF LeavesOf, Under
  <1>8. RepLeft(RepJob(b, n), f, fw, x)
    BY <1>6, <1>7, RepStart
  <1>9. PICK m \in Nat : m = Len(jobs)
    BY <1>2
  <1>10. (m + 1) % 2 = 0 /\ (m + 1) \div 2 = m \div 2 + 1 /\ m \div 2 \in Nat
    BY <1>2, <1>9, Halves
  <1>11. f = d - (m + 1) \div 2 /\ (m + 1) \div 2 <= d
    <2>1. PICK h \in Nat : h = m \div 2
      BY <1>10
    <2>2. e = d - h /\ (m + 1) \div 2 = h + 1
      BY <1>2, <1>9, <1>10, <2>1
    <2>3. d \in Nat /\ e \in Nat /\ f = e - 1 /\ e # 0
      BY <1>3, MachineAssumption
    <2> QED
      BY <2>2, <2>3
  <1>12. JobLeft(RepJob(b, n), m + 1, d, fw, x)
    BY <1>8, <1>10, <1>11 DEF JobLeft
  <1>13. Stack(Append(Stepped, RepJob(b, n)), d, fw, x \o q)
    BY <1>2, <1>9, <1>12, StackPush
  <1> QED
    BY <1>1, <1>2, <1>4, <1>5, <1>6, <1>13

LEMMA EnterKeeps ==
  ASSUME NEW d \in 0 .. MaxNesting, NEW fw \in BOOLEAN, fw = Forwards,
         NEW r, Stack(jobs, d, fw, r), EnterBody
  PROVE  Stack(jobs', d, fw, r)
  <1>1. /\ OnRep /\ Top.count > 0 /\ jobs # <<>>
        /\ jobs' = Append([jobs EXCEPT ![Len(jobs)].count = @ - 1], SeqJob(Top.body, Forwards))
    BY DEF EnterBody, OnRep
  <1>20. TopLeft(jobs, d, fw, r)
    BY <1>1, StackTop, Zenon
  <1>21. PICK q \in Seq(Inst) : \E r0 \in Seq(Inst) :
           /\ JobLeft(Lists!Last(jobs), Len(jobs), d, fw, q)
           /\ Stack(Lists!Front(jobs), d, fw, r0) /\ r = q \o r0
    BY <1>20, Zenon DEF TopLeft
  <1>2. PICK r0 \in Seq(Inst) :
          /\ JobLeft(Lists!Last(jobs), Len(jobs), d, fw, q)
          /\ Stack(Lists!Front(jobs), d, fw, r0) /\ r = q \o r0
    BY <1>21
  <1>3. PICK top : top = Lists!Last(jobs)
    OBVIOUS
  <1>4. PICK n \in Nat : n = Len(jobs)
    BY <1>1, StackTop
  <1>5. PICK e \in 0 .. MaxNesting : e = d - n \div 2
    BY <1>2, <1>4, JobKind
  <1>6. top.kind = "rep" /\ top.count > 0 /\ top = Top
    BY <1>1, <1>3 DEF OnRep, Top
  <1>7. n % 2 = 0 /\ RepLeft(top, e, fw, q)
    <2>1. JobLeft(top, n, d, fw, q)
      BY <1>2, <1>3, <1>4
    <2>2. \/ top.kind = "seq"
          \/ top.kind = "rep" /\ n % 2 = 0 /\ RepLeft(top, d - n \div 2, fw, q)
      BY <2>1, JobKind, Zenon
    <2> QED
      BY <1>5, <1>6, <2>2
  <1>8. PICK job : job = [top EXCEPT !.count = @ - 1]
    OBVIOUS
  <1>9. PICK b \in LoopTrees[e] : b = top.body
    BY <1>6, <1>7, RepStep
  <1>10. PICK x \in Seq(Inst) : x = Ordered(UnrolledTo[e][b], fw)
    BY UnrolledTyped, OrderedFacts
  <1>11. PICK p \in Seq(Inst) : q = x \o p /\ RepLeft(job, e, fw, p)
    BY <1>6, <1>7, <1>8, <1>9, <1>10, RepStep
  <1>12. PICK front : front = Lists!Front(jobs)
    OBVIOUS
  <1>13. front \in Seq(JobKinds) /\ Len(front) + 1 = n /\ Lists!Last(jobs) = jobs[n] /\ jobs \in Seq(JobKinds)
    BY <1>1, <1>2, <1>4, <1>12, StackTop DEF Stack
  <1>14. [jobs EXCEPT ![Len(jobs)].count = @ - 1] = Append(front, job)
    <2>1. [jobs EXCEPT ![n].count = @ - 1] = [jobs EXCEPT ![n] = [jobs[n] EXCEPT !.count = @ - 1]]
      BY Zenon
    <2>2. [jobs EXCEPT ![n].count = @ - 1] = [jobs EXCEPT ![n] = job]
      BY <1>3, <1>8, <1>13, <2>1
    <2> QED
      BY <1>1, <1>4, <1>12, <1>13, <2>2, TopChanged
  <1>15. JobLeft(job, n, d, fw, p)
    <2>1. n \div 2 <= d
      BY <1>2, <1>4 DEF JobLeft
    <2> QED
      BY <1>5, <1>7, <1>11, <2>1 DEF JobLeft
  <1>16. Stack(Append(front, job), d, fw, p \o r0)
    BY <1>2, <1>12, <1>13, <1>15, StackPush
  <1>17. Len(Append(front, job)) = n
    BY <1>13
  <1>18. SeqLeft(SeqJob(b, fw), e, fw, x)
    BY <1>10, SeqStart
  <1>19. JobLeft(SeqJob(b, fw), n + 1, d, fw, x)
    <2>1. n \div 2 <= d
      BY <1>2, <1>4 DEF JobLeft
    <2> QED
      BY <1>5, <1>7, <1>18, <2>1, Halves DEF JobLeft
  <1>24. Stack(Append(Append(front, job), SeqJob(b, fw)), d, fw, x \o (p \o r0))
    BY <1>16, <1>17, <1>19, StackPush
  <1>23. r = x \o (p \o r0)
    <2>1. (x \o p) \o r0 = x \o (p \o r0)
      BY LeavesJoin, Zenon
    <2> QED
      BY <1>2, <1>11, <2>1, Zenon
  <1>22. jobs' = Append(Append(front, job), SeqJob(b, fw))
    BY <1>1, <1>6, <1>9, <1>14
  <1> QED
    BY <1>22, <1>23, <1>24

(* The leaf a sequence stands at is the next one. *)
LEMMA YieldLeft ==
  ASSUME NEW d \in 0 .. MaxNesting, NEW fw \in BOOLEAN, fw = Forwards,
         NEW r, Stack(jobs, d, fw, r), OnSeq, ~Exhausted, Node.kind = "inst"
  PROVE  /\ Node.inst \in Inst
         /\ \E q \in Seq(Inst) : r = <<Node.inst>> \o q /\ Stack(Stepped, d, fw, q)
  <1>20. SteppedOver(d, fw, r)
    BY StepOver, Zenon
  <1>21. PICK e \in 0 .. MaxNesting : \E q \in Seq(Inst) :
           /\ r = Ordered(LeavesOf(Node, Under(e)), fw) \o q
           /\ Stack(Stepped, d, fw, q)
           /\ Node.inst \in Inst
    BY <1>20 DEF SteppedOver
  <1>1. PICK q \in Seq(Inst) :
          /\ r = Ordered(LeavesOf(Node, Under(e)), fw) \o q
          /\ Stack(Stepped, d, fw, q)
          /\ Node.inst \in Inst
    BY <1>21
  <1>2. LeavesOf(Node, Under(e)) = <<Node.inst>>
    BY DEF LeavesOf
  <1> QED
    BY <1>1, <1>2, OrderedLeaf

-----------------------------------------------------------------------------
(* What can be taken back.                                                   *)

(* The last m of the leaves t can be undone. *)
LastFree(t, m) ==
  m \in 0 .. Len(t) /\ \A k \in Len(t) - m + 1 .. Len(t) : Invertible(t[k])

(* A set of positions has a last one. *)
LEMMA GreatestOf ==
  ASSUME NEW n \in Nat, NEW T, T \subseteq 1 .. n, T # {}
  PROVE  \E k \in T : \A j \in T : j <= k
  <1> DEFINE D == {m \in 0 .. n : n - m \in T}
  <1>1. D \subseteq Nat /\ D # {}
    <2>1. PICK k \in T : TRUE
      OBVIOUS
    <2>2. n - k \in 0 .. n /\ n - (n - k) = k
      BY <2>1
    <2>3. n - k \in D
      BY <2>1, <2>2
    <2>4. D \subseteq Nat
      OBVIOUS
    <2> HIDE DEF D
    <2> QED
      BY <2>3, <2>4
  <1>2. PICK m \in D : \A j \in D : m <= j
    BY <1>1, LeastNat
  <1>3. n - m \in T /\ m \in 0 .. n
    BY <1>2
  <1>4. ASSUME NEW j \in T PROVE j <= n - m
    <2>1. n - j \in D
      OBVIOUS
    <2>2. m <= n - j
      BY <1>2, <2>1
    <2> QED
      BY <1>3, <2>2
  <1> QED
    BY <1>3, <1>4

LEMMA UndoableIs ==
  ASSUME NEW t \in Seq(Inst), Leaves = t, NEW m, LastFree(t, m)
  PROVE  /\ Undoable \in Nat /\ m <= Undoable
         /\ m = Len(t) => Undoable = m
         /\ m < Len(t) /\ ~Invertible(t[Len(t) - m]) => Undoable = m
  <1>1. PICK n \in Nat : n = Len(t)
    OBVIOUS
  <1>2. PICK B : B = {k \in 1 .. n : ~Invertible(t[k])}
    OBVIOUS
  <1>3. Blocked = B
    BY <1>1, <1>2 DEF Blocked
  <1>4. Undoable = n - (IF B = {} THEN 0 ELSE CHOOSE k \in B : \A j \in B : j <= k)
    BY <1>1, <1>3 DEF Undoable
  <1>5. m \in 0 .. n /\ \A k \in n - m + 1 .. n : Invertible(t[k])
    BY <1>1 DEF LastFree
  <1>6. \A k \in B : k \in 1 .. n - m
    BY <1>2, <1>5
  <1>7. CASE B = {}
    <2>1. m < n => Invertible(t[n - m])
      BY <1>2, <1>5, <1>7
    <2> QED
      BY <1>1, <1>4, <1>5, <1>7, <2>1
  <1>8. CASE B # {}
    <2>1. B \subseteq 1 .. n
      BY <1>2
    <2>2. PICK g \in B : g = CHOOSE k \in B : \A j \in B : j <= k
      BY <1>1, <1>8, <2>1, GreatestOf
    <2>3. \A j \in B : j <= g
      BY <1>1, <1>8, <2>1, <2>2, GreatestOf
    <2>4. Undoable = n - g
      BY <1>4, <1>8, <2>2
    <2>5. g \in 1 .. n - m
      BY <1>6, <2>2
    <2>6. m < n /\ ~Invertible(t[n - m]) => n - m \in B
      BY <1>2, <1>5
    <2> QED
      BY <1>1, <1>5, <2>3, <2>4, <2>5, <2>6
  <1> QED
    BY <1>7, <1>8

(* One more can be undone. *)
LEMMA LastFreeMore ==
  ASSUME NEW t \in Seq(Inst), NEW m, LastFree(t, m), m < Len(t), Invertible(t[Len(t) - m])
  PROVE  LastFree(t, m + 1)
  <1>1. PICK n \in Nat : n = Len(t)
    OBVIOUS
  <1>2. m \in 0 .. n /\ m < n
    BY <1>1 DEF LastFree
  <1>3. \A k \in n - (m + 1) + 1 .. n : k = n - m \/ k \in n - m + 1 .. n
    BY <1>2
  <1> QED
    BY <1>1, <1>2, <1>3 DEF LastFree

(* The states passed while the first m of the leaves t were executed. *)
RanTo(t, path, m) ==
  /\ path \in Seq(State) /\ m \in 0 .. Len(t) /\ Len(path) = m + 1
  /\ \A k \in 1 .. m : InRange(path[k], t[k]) /\ path[k + 1] = Exec(path[k], t[k])

LEMMA RanMore ==
  ASSUME NEW t \in Seq(Inst), NEW path, NEW m, RanTo(t, path, m), m < Len(t),
         InRange(path[m + 1], t[m + 1])
  PROVE  /\ path[m + 1] \in State /\ Exec(path[m + 1], t[m + 1]) \in State
         /\ RanTo(t, Append(path, Exec(path[m + 1], t[m + 1])), m + 1)
         /\ Append(path, Exec(path[m + 1], t[m + 1]))[m + 2] = Exec(path[m + 1], t[m + 1])
  <1>1. PICK n \in Nat : n = Len(t)
    OBVIOUS
  <1>2. /\ path \in Seq(State) /\ m \in 0 .. n /\ m < n /\ Len(path) = m + 1
        /\ \A k \in 1 .. m : InRange(path[k], t[k]) /\ path[k + 1] = Exec(path[k], t[k])
    BY <1>1 DEF RanTo
  <1>3. path[m + 1] \in State /\ t[m + 1] \in Inst
    BY <1>1, <1>2
  <1>4. PICK x \in State : x = Exec(path[m + 1], t[m + 1])
    BY <1>3, ExecState
  <1>5. PICK w : w = Append(path, x)
    OBVIOUS
  <1>6. /\ w \in Seq(State) /\ Len(w) = m + 2 /\ w[m + 2] = x
        /\ \A k \in 1 .. m + 1 : w[k] = path[k]
    BY <1>2, <1>5
  <1>7. ASSUME NEW k \in 1 .. m + 1
        PROVE  InRange(w[k], t[k]) /\ w[k + 1] = Exec(w[k], t[k])
    <2>1. CASE k = m + 1
      BY <1>2, <1>4, <1>6, <2>1
    <2>2. CASE k \in 1 .. m
      <3>1. k + 1 \in 1 .. m + 1 /\ k \in 1 .. m + 1
        BY <1>2, <2>2
      <3> QED
        BY <1>2, <1>6, <2>2, <3>1
    <2> QED
      BY <1>2, <2>1, <2>2
  <1>8. RanTo(t, w, m + 1)
    BY <1>1, <1>2, <1>6, <1>7 DEF RanTo
  <1> QED
    BY <1>3, <1>4, <1>5, <1>6, <1>8

(* The leaf executed last is undone: the state before it is back. *)
LEMMA RanBack ==
  ASSUME NEW t \in Seq(Inst), NEW path, RanTo(t, path, Len(t)), NEW m \in 0 .. Len(t), m < Len(t),
         Invertible(t[Len(t) - m])
  PROVE  /\ InRange(path[Len(t) + 1 - m], Inverse(t[Len(t) - m]))
         /\ Exec(path[Len(t) + 1 - m], Inverse(t[Len(t) - m])) = path[Len(t) + 1 - (m + 1)]
         /\ path[Len(t) + 1 - (m + 1)] \in State
  <1>1. PICK n \in Nat : n = Len(t)
    OBVIOUS
  <1>2. PICK k \in 1 .. n : k = n - m
    BY <1>1
  <1>3. /\ path \in Seq(State) /\ Len(path) = n + 1
        /\ InRange(path[k], t[k]) /\ path[k + 1] = Exec(path[k], t[k])
    BY <1>1, <1>2 DEF RanTo
  <1>4. path[k] \in State /\ t[k] \in Inst
    BY <1>1, <1>2, <1>3
  <1>5. InRange(Exec(path[k], t[k]), Inverse(t[k])) /\ Exec(Exec(path[k], t[k]), Inverse(t[k])) = path[k]
    BY <1>1, <1>2, <1>3, <1>4, ExecCancel
  <1>6. n + 1 - m = k + 1 /\ n + 1 - (m + 1) = k
    BY <1>2
  <1> QED
    BY <1>1, <1>2, <1>3, <1>4, <1>5, <1>6

(* What was yielded, and what is left, is the program. *)
NextIs(t, fw, y, i, q) ==
  /\ Append(y, i) \in Seq(Inst) /\ Len(Append(y, i)) = Len(y) + 1
  /\ Append(y, i) \o q = Ordered(t, fw)
  /\ Len(y) < Len(t) /\ Len(y) \in Nat
  /\ fw => t[Len(y) + 1] = i
  /\ ~fw => t[Len(t) - Len(y)] = i

LEMMA NextLeaf ==
  ASSUME NEW t \in Seq(Inst), NEW fw \in BOOLEAN, NEW y \in Seq(Inst), NEW i \in Inst, NEW q \in Seq(Inst),
         y \o (<<i>> \o q) = Ordered(t, fw)
  PROVE  NextIs(t, fw, y, i, q)
  <1>1. PICK o \in Seq(Inst) : o = Ordered(t, fw)
    BY OrderedFacts
  <1>2. PICK m \in Nat : m = Len(y)
    OBVIOUS
  <1>3. PICK n \in Nat : n = Len(t)
    OBVIOUS
  <1>4. /\ Append(y, i) \in Seq(Inst) /\ Len(Append(y, i)) = m + 1
        /\ Append(y, i) \o q = o /\ Len(o) = m + 1 + Len(q) /\ o[m + 1] = i
    <2>1. /\ y \o (<<i>> \o q) = Append(y, i) \o q
          /\ Append(y, i) \in Seq(Inst) /\ Len(Append(y, i)) = Len(y) + 1
          /\ Len(y \o (<<i>> \o q)) = Len(y) + 1 + Len(q)
          /\ (y \o (<<i>> \o q))[Len(y) + 1] = i
      BY JoinTail, SMTT(30)
    <2> QED
      BY <1>1, <1>2, <2>1, Zenon
  <1>5. Len(q) \in Nat
    OBVIOUS
  <1>6. fw => m < n /\ t[m + 1] = i
    <2>1. fw => o = t
      BY <1>1 DEF Ordered
    <2> QED
      BY <1>3, <1>4, <1>5, <2>1
  <1>7. ~fw => m < n /\ t[n - m] = i
    <2>1. ~fw => o = Lists!Reverse(t)
      BY <1>1 DEF Ordered
    <2>2. ~fw => Len(o) = n /\ \A k \in 1 .. n : o[k] = t[n + 1 - k]
      BY <1>3, <2>1, ReverseFacts
    <2>3. ~fw => m + 1 \in 1 .. n /\ n + 1 - (m + 1) = n - m
      BY <1>3, <1>4, <1>5, <2>2
    <2> QED
      BY <1>4, <2>2, <2>3
  <1>8. /\ Append(y, i) \in Seq(Inst) /\ Len(Append(y, i)) = Len(y) + 1
        /\ Append(y, i) \o q = Ordered(t, fw)
    BY <1>1, <1>2, <1>4, Zenon
  <1>9. /\ Len(y) < Len(t) /\ Len(y) \in Nat
        /\ fw => t[Len(y) + 1] = i
        /\ ~fw => t[Len(t) - Len(y)] = i
    BY <1>2, <1>3, <1>6, <1>7
  <1> QED
    BY <1>8, <1>9 DEF NextIs

LEMMA AllLeaves ==
  ASSUME NEW t \in Seq(Inst), NEW fw \in BOOLEAN, NEW y \in Seq(Inst), y \o <<>> = Ordered(t, fw)
  PROVE  y = Ordered(t, fw) /\ Len(y) = Len(t)
  <1>1. y = Ordered(t, fw)
    BY JoinFacts
  <1> QED
    BY <1>1, ReverseFacts DEF Ordered

-----------------------------------------------------------------------------
(* The inductive invariant. LeavesInOrder says what was yielded; what the    *)
(* stack has still to hand out is what makes it true of the next turn.       *)

CallKinds  == [name : Calls \union {"idle"}, n : Nat]
EndedKinds ==
  [call : CallKinds, done : Nat, out : {"ok", "fault", "panic"}, found : Inst \union {"none"}]

MachineTyped ==
  /\ debug \in BOOLEAN /\ prog \in LoopPrograms /\ state \in State
  /\ call \in CallKinds /\ (call.name = "idle" => call = Free)
  /\ ended \in EndedKinds /\ made \in 0 .. MaxCalls
  /\ yielded \in Seq(Inst) /\ done \in Nat /\ passed \in Seq(State)

Streaming ==
  /\ call = Free => jobs = <<>>
  /\ call # Free =>
       /\ done = Len(yielded)
       /\ \E r \in Seq(Inst) : Stack(jobs, Depth(prog), Forwards, r) /\ yielded \o r = Ordered(Leaves, Forwards)

(* What a call has done so far. *)
SoFar ==
  /\ call.name = "forward" => RanTo(Leaves, passed, done) /\ state = passed[done + 1]
  /\ call.name = "reverse" =>
       /\ RanTo(Leaves, passed, Len(Leaves)) /\ LastFree(Leaves, done) /\ done <= call.n
       /\ state = passed[Len(Leaves) + 1 - done]
  /\ call.name = "suffix" => LastFree(Leaves, done)
  /\ call.name = "leaf" => done <= call.n

(* What the last call to end has left behind. *)
LeftBehind ==
  call = Free =>
    /\ ended.call.name = "forward" /\ ended.out = "ok" =>
         RanTo(Leaves, passed, Len(Leaves)) /\ state = passed[Len(Leaves) + 1]
    /\ ended.call.name = "reverse" =>
         /\ ended.out = "ok" \/ (debug /\ ended.out = "panic")
         /\ ended.done = IF ended.call.n <= Undoable THEN ended.call.n ELSE Undoable
         /\ state = passed[Len(passed) - ended.done]
    /\ ended.call.name = "suffix" => ended.done = Undoable
    /\ ended.call.name = "leaf" =>
         ended.found = IF ended.call.n < Len(Leaves) THEN Leaves[ended.call.n + 1] ELSE "none"

MachineInv == MachineTyped /\ Streaming /\ SoFar /\ LeftBehind

LEMMA LeavesTypes ==
  ASSUME MachineTyped
  PROVE  Leaves \in Seq(Inst) /\ Len(Leaves) \in Nat /\ Depth(prog) \in 0 .. MaxNesting
  <1>1. prog \in LoopPrograms
    BY DEF MachineTyped
  <1>2. Depth(prog) \in 0 .. MaxNesting /\ prog \in LoopTrees[Depth(prog)]
    BY <1>1, DepthIs
  <1>3. Leaves \in Seq(Inst)
    BY <1>2, UnrolledTyped DEF Leaves
  <1> QED
    BY <1>2, <1>3

LEMMA OrderOf ==
  ASSUME MachineTyped, call # Free
  PROVE  Order = Ordered(Leaves, Forwards) /\ Forwards \in BOOLEAN /\ call.name \in Calls
  BY DEF MachineTyped, CallKinds, Calls, Order, Ordered, Forwards

LEMMA MachineInitInv == MachineInit => MachineInv
  <1> SUFFICES ASSUME MachineInit PROVE MachineInv
    OBVIOUS
  <1>1. /\ debug \in BOOLEAN /\ prog \in LoopPrograms /\ state \in State
        /\ call = Free /\ ended = NoCall /\ made = 0 /\ yielded = <<>> /\ done = 0 /\ passed = <<>> /\ jobs = <<>>
    BY MachineAssumption DEF MachineInit
  <1>2. Free \in CallKinds /\ Free.name = "idle"
    BY DEF Free, CallKinds, Calls
  <1>3. NoCall \in EndedKinds /\ NoCall.call.name = "idle"
    BY <1>2 DEF NoCall, EndedKinds
  <1>4. MachineTyped
    BY <1>1, <1>2, <1>3, MachineAssumption DEF MachineTyped
  <1>5. SoFar
    BY <1>1, <1>2 DEF SoFar
  <1>6. LeftBehind
    BY <1>1, <1>3 DEF LeftBehind
  <1>7. Streaming
    BY <1>1 DEF Streaming
  <1> QED
    BY <1>4, <1>5, <1>6, <1>7 DEF MachineInv

(* A call starts at the whole program. *)
LEMMA BeginInv ==
  ASSUME MachineInv, NEW name \in Calls, NEW n \in Nat, NEW fw \in BOOLEAN, fw <=> name = "forward" \/ name = "leaf",
         Begin(name, n, fw),
         name = "reverse" => ended.call.name = "forward" /\ ended.out = "ok"
  PROVE  MachineInv'
  <1>1. /\ call = Free /\ made < MaxCalls /\ made' = made + 1
        /\ call' = [name |-> name, n |-> n]
        /\ jobs' = <<SeqJob(prog, fw)>> /\ done' = 0 /\ yielded' = <<>>
        /\ passed' = IF name = "forward" THEN <<state>> ELSE passed
        /\ debug' = debug /\ prog' = prog /\ state' = state /\ ended' = ended
    BY DEF Begin
  <1>2. MachineTyped
    BY DEF MachineInv
  <1>3. PICK t \in Seq(Inst) : t = Leaves
    BY <1>2, LeavesTypes
  <1>4. PICK d \in 0 .. MaxNesting : d = Depth(prog)
    BY <1>2, LeavesTypes
  <1>5. prog \in LoopTrees[d] /\ t = UnrolledTo[d][prog]
    BY <1>2, <1>3, <1>4, DepthIs DEF Leaves, MachineTyped
  <1>6. Leaves' = t /\ Depth(prog') = d
    BY <1>1, <1>3, <1>4 DEF Leaves
  <1>7. call'.name = name /\ call'.n = n /\ call' \in CallKinds /\ name # "idle" /\ call' # Free /\ Forwards' = fw
    BY <1>1 DEF CallKinds, Calls, Free, Forwards
  <1>8. MachineTyped'
    <2>1. <<state>> \in Seq(State) /\ <<>> \in Seq(Inst)
      BY <1>2 DEF MachineTyped
    <2>2. made + 1 \in 0 .. MaxCalls
      BY <1>1, <1>2, MachineAssumption DEF MachineTyped
    <2> QED
      BY <1>1, <1>2, <1>7, <2>1, <2>2 DEF MachineTyped
  <1>9. Streaming'
    <2>1. PICK r \in Seq(Inst) : r = Ordered(t, fw)
      BY OrderedFacts
    <2>2. SeqLeft(SeqJob(prog, fw), d, fw, r)
      BY <1>5, <2>1, SeqStart
    <2>3. JobLeft(SeqJob(prog, fw), 0 + 1, d, fw, r)
      <3>1. (0 + 1) % 2 = 1 /\ (0 + 1) \div 2 = 0 /\ d - 0 = d /\ 0 <= d
        BY MachineAssumption
      <3> QED
        BY <2>2, <3>1 DEF JobLeft
    <2>4. Len(<<>>) = 0 /\ Stack(<<>>, d, fw, <<>>)
      BY StackNone
    <2>5. Stack(Append(<<>>, SeqJob(prog, fw)), d, fw, r \o <<>>)
      BY <2>3, <2>4, StackPush
    <2>6. Append(<<>>, SeqJob(prog, fw)) = <<SeqJob(prog, fw)>> /\ r \o <<>> = r /\ <<>> \o r = r
      OBVIOUS
    <2>7. Stack(jobs', d, fw, r)
      BY <1>1, <2>5, <2>6
    <2>8. yielded' \o r = Ordered(t, fw) /\ done' = Len(yielded')
      BY <1>1, <2>1, <2>6
    <2> QED
      BY <1>6, <1>7, <2>7, <2>8 DEF Streaming
  <1>10. SoFar'
    <2>1. name = "forward" => RanTo(t, passed', 0) /\ state' = passed'[0 + 1]
      <3>1. <<state>> \in Seq(State) /\ Len(<<state>>) = 0 + 1 /\ <<state>>[0 + 1] = state /\ 0 \in 0 .. Len(t)
        BY <1>2 DEF MachineTyped
      <3>2. RanTo(t, <<state>>, 0)
        BY <3>1 DEF RanTo
      <3> QED
        BY <1>1, <3>1, <3>2
    <2>2. LastFree(t, 0)
      BY DEF LastFree
    <2>3. name = "reverse" => RanTo(t, passed, Len(t)) /\ state = passed[Len(t) + 1 - 0]
      BY <1>1, <1>3 DEF MachineInv, LeftBehind
    <2>4. name = "reverse" => passed' = passed /\ state' = state
      BY <1>1
    <2> QED
      BY <1>1, <1>6, <1>7, <2>1, <2>2, <2>3, <2>4 DEF SoFar
  <1>11. LeftBehind'
    BY <1>7 DEF LeftBehind
  <1> QED
    BY <1>8, <1>9, <1>10, <1>11 DEF MachineInv

(* A turn that yields no leaf changes the stack alone. *)
LEMMA KeepInv ==
  ASSUME MachineInv, Keep, call # Free,
         \A r : Stack(jobs, Depth(prog), Forwards, r) => Stack(jobs', Depth(prog), Forwards, r)
  PROVE  MachineInv'
  <1>1. /\ debug' = debug /\ prog' = prog /\ state' = state /\ call' = call /\ done' = done
        /\ ended' = ended /\ made' = made /\ yielded' = yielded /\ passed' = passed
    BY DEF Keep
  <1>2. Leaves' = Leaves /\ Forwards' = Forwards /\ Depth(prog') = Depth(prog)
    BY <1>1 DEF Leaves, Forwards
  <1>3. MachineTyped'
    BY <1>1 DEF MachineInv, MachineTyped
  <1>4. Streaming'
    BY <1>1, <1>2 DEF MachineInv, Streaming
  <1>5. SoFar'
    BY <1>1, <1>2 DEF MachineInv, SoFar
  <1>6. LeftBehind'
    BY <1>1 DEF LeftBehind
  <1> QED
    BY <1>3, <1>4, <1>5, <1>6 DEF MachineInv

(* A call returns, and has kept what is said of it. *)
LEMMA ReturnInv ==
  ASSUME MachineInv, call # Free, NEW end \in {"ok", "fault", "panic"}, NEW found \in Inst \union {"none"},
         Return(end, found, done), UNCHANGED <<debug, prog, state, done, made, passed>>, yielded' \in Seq(Inst),
         call.name = "forward" /\ end = "ok" =>
           RanTo(Leaves, passed, Len(Leaves)) /\ state = passed[Len(Leaves) + 1],
         call.name = "reverse" =>
           /\ end = "ok" \/ (debug /\ end = "panic")
           /\ done = IF call.n <= Undoable THEN call.n ELSE Undoable
           /\ state = passed[Len(passed) - done],
         call.name = "suffix" => done = Undoable,
         call.name = "leaf" => found = IF call.n < Len(Leaves) THEN Leaves[call.n + 1] ELSE "none"
  PROVE  MachineInv'
  <1>1. /\ ended' = [call |-> call, done |-> done, out |-> end, found |-> found]
        /\ call' = Free /\ jobs' = <<>>
        /\ debug' = debug /\ prog' = prog /\ state' = state /\ done' = done /\ made' = made /\ passed' = passed
    BY DEF Return
  <1>2. Leaves' = Leaves
    BY <1>1 DEF Leaves
  <1>3. Undoable' = Undoable
    BY <1>2 DEF Undoable, Blocked
  <1>4. ended'.call = call /\ ended'.done = done /\ ended'.out = end /\ ended'.found = found
    BY <1>1
  <1>5. Free \in CallKinds /\ Free.name = "idle"
    BY DEF Free, CallKinds, Calls
  <1>6. MachineTyped'
    <2>1. MachineTyped
      BY DEF MachineInv
    <2>2. ended' \in EndedKinds
      BY <1>1, <2>1 DEF MachineTyped, EndedKinds
    <2> QED
      BY <1>1, <1>5, <2>1, <2>2 DEF MachineTyped
  <1>7. Streaming'
    BY <1>1 DEF Streaming
  <1>8. SoFar'
    BY <1>1, <1>5 DEF SoFar
  <1>9. LeftBehind'
    BY <1>1, <1>2, <1>3, <1>4 DEF LeftBehind
  <1> QED
    BY <1>6, <1>7, <1>8, <1>9 DEF MachineInv

(* The iterator is through: everything was yielded. *)
LEMMA EndInv ==
  ASSUME MachineInv, End
  PROVE  MachineInv'
  <1>1. /\ call # Free /\ jobs = <<>> /\ Return("ok", "none", done)
        /\ UNCHANGED <<debug, prog, state, done, made, passed>> /\ yielded' = yielded
    BY DEF End
  <1>2. MachineTyped
    BY DEF MachineInv
  <1>3. PICK t \in Seq(Inst) : t = Leaves
    BY <1>2, LeavesTypes
  <1>4. PICK fw \in BOOLEAN : fw = Forwards
    BY <1>1, <1>2, OrderOf
  <1>5. PICK y \in Seq(Inst) : y = yielded
    BY <1>2 DEF MachineTyped
  <1>6. done = Len(y) /\ \E r \in Seq(Inst) : Stack(<<>>, Depth(prog), fw, r) /\ y \o r = Ordered(t, fw)
    BY <1>1, <1>3, <1>4, <1>5 DEF MachineInv, Streaming
  <1>7. y \o <<>> = Ordered(t, fw)
    BY <1>6, StackEmpty
  <1>8. done = Len(t)
    BY <1>6, <1>7, AllLeaves
  <1>9. SoFar
    BY DEF MachineInv
  <1>10. call.name = "forward" => RanTo(t, passed, Len(t)) /\ state = passed[Len(t) + 1]
    BY <1>3, <1>8, <1>9 DEF SoFar
  <1>11. call.name \in {"reverse", "suffix"} => Undoable = done
    <2>1. call.name \in {"reverse", "suffix"} => LastFree(t, done)
      BY <1>3, <1>9 DEF SoFar
    <2> QED
      BY <1>3, <1>8, <2>1, UndoableIs
  <1>12. call.name = "reverse" =>
           /\ done = IF call.n <= Undoable THEN call.n ELSE Undoable
           /\ state = passed[Len(passed) - done]
    <2>1. CASE call.name = "reverse"
      <3>1. done <= call.n /\ call.n \in Nat /\ done \in Nat
        BY <1>2, <1>9, <2>1 DEF SoFar, MachineTyped, CallKinds
      <3>2. Len(passed) = Len(t) + 1 /\ state = passed[Len(t) + 1 - done]
        BY <1>3, <1>9, <2>1 DEF SoFar, RanTo
      <3> QED
        BY <1>11, <2>1, <3>1, <3>2
    <2> QED
      BY <2>1
  <1>13. call.name = "leaf" => ~(call.n < Len(t))
    <2>1. CASE call.name = "leaf"
      <3>1. done <= call.n /\ call.n \in Nat /\ done \in Nat
        BY <1>2, <1>9, <2>1 DEF SoFar, MachineTyped, CallKinds
      <3> QED
        BY <1>8, <3>1
    <2> QED
      BY <2>1
  <1>14. call.name = "suffix" => done = Undoable
    BY <1>11
  <1>15. yielded' \in Seq(Inst)
    BY <1>1, <1>5
  <1>16. call.name = "leaf" => "none" = IF call.n < Len(Leaves) THEN Leaves[call.n + 1] ELSE "none"
    BY <1>3, <1>13
  <1> QED
    BY <1>1, <1>3, <1>10, <1>12, <1>14, <1>15, <1>16, ReturnInv

(* A call goes on after a leaf. *)
LEMMA GoOnInv ==
  ASSUME MachineInv, call # Free, GoOn, UNCHANGED <<debug, prog, made>>,
         yielded' \in Seq(Inst), Len(yielded') = done + 1,
         \E q \in Seq(Inst) :
           Stack(Stepped, Depth(prog), Forwards, q) /\ yielded' \o q = Ordered(Leaves, Forwards),
         state' \in State, passed' \in Seq(State),
         call.name = "forward" => RanTo(Leaves, passed', done + 1) /\ state' = passed'[done + 2],
         call.name = "reverse" =>
           /\ RanTo(Leaves, passed', Len(Leaves)) /\ LastFree(Leaves, done + 1) /\ done + 1 <= call.n
           /\ state' = passed'[Len(Leaves) + 1 - (done + 1)],
         call.name = "suffix" => LastFree(Leaves, done + 1),
         call.name = "leaf" => done + 1 <= call.n
  PROVE  MachineInv'
  <1>1. /\ jobs' = Stepped /\ done' = done + 1 /\ call' = call /\ ended' = ended
        /\ debug' = debug /\ prog' = prog /\ made' = made
    BY DEF GoOn
  <1>2. Leaves' = Leaves /\ Forwards' = Forwards /\ Depth(prog') = Depth(prog)
    BY <1>1 DEF Leaves, Forwards
  <1>3. MachineTyped'
    BY <1>1 DEF MachineInv, MachineTyped
  <1>4. Streaming'
    BY <1>1, <1>2 DEF Streaming
  <1>5. SoFar'
    <2>1. done + 2 = (done + 1) + 1
      BY DEF MachineInv, MachineTyped
    <2> QED
      BY <1>1, <1>2, <2>1 DEF SoFar
  <1>6. LeftBehind'
    BY <1>1 DEF LeftBehind
  <1> QED
    BY <1>3, <1>4, <1>5, <1>6 DEF MachineInv

(* A mulc by an even constant is taken for an alias: it cannot be undone. *)
LEMMA AssertionBlocks ==
  ASSUME NEW i \in Inst, AssertionFails(i)
  PROVE  debug /\ ~Invertible(i)
  BY DEF AssertionFails, Invertible, OperandAlias

LEMMA YieldInv ==
  ASSUME MachineInv, Yield
  PROVE  MachineInv'
  <1>1. PICK i : i = Node.inst
    OBVIOUS
  <1>2. /\ OnSeq /\ ~Exhausted /\ Node.kind = "inst" /\ yielded' = Append(yielded, i)
        /\ \/ call.name = "forward" /\ Execute(i)
           \/ call.name = "reverse" /\ UndoLeaf(i)
           \/ call.name = "suffix"  /\ CountSuffix(i)
           \/ call.name = "leaf"    /\ FindLeaf(i)
        /\ UNCHANGED <<debug, prog, made>>
    BY <1>1 DEF Yield
  <1>3. MachineTyped /\ Streaming /\ SoFar
    BY DEF MachineInv
  <1>4. call # Free
    BY <1>2, <1>3 DEF OnSeq, Streaming
  <1>5. PICK t \in Seq(Inst) : t = Leaves
    BY <1>3, LeavesTypes
  <1>6. PICK fw \in BOOLEAN : fw = Forwards
    BY <1>3, <1>4, OrderOf
  <1>7. PICK d \in 0 .. MaxNesting : d = Depth(prog)
    BY <1>3, LeavesTypes
  <1>8. PICK y \in Seq(Inst) : y = yielded /\ done = Len(y)
    BY <1>3, <1>4 DEF MachineTyped, Streaming
  <1>9. PICK r \in Seq(Inst) : Stack(jobs, d, fw, r) /\ y \o r = Ordered(t, fw)
    BY <1>3, <1>4, <1>5, <1>6, <1>7, <1>8 DEF Streaming
  <1>10. i \in Inst /\ \E q \in Seq(Inst) : r = <<i>> \o q /\ Stack(Stepped, d, fw, q)
    BY <1>1, <1>2, <1>6, <1>9, YieldLeft
  <1>11. PICK q \in Seq(Inst) : r = <<i>> \o q /\ Stack(Stepped, d, fw, q)
    BY <1>10
  <1>12. y \o (<<i>> \o q) = Ordered(t, fw)
    BY <1>9, <1>11
  <1>130. i \in Inst
    BY <1>10
  <1>131. NextIs(t, fw, y, i, q)
    BY <1>130, <1>12, NextLeaf, Zenon
  <1>13. /\ Append(y, i) \in Seq(Inst) /\ Len(Append(y, i)) = Len(y) + 1
         /\ Append(y, i) \o q = Ordered(t, fw)
         /\ Len(y) < Len(t) /\ Len(y) \in Nat
         /\ fw => t[Len(y) + 1] = i
         /\ ~fw => t[Len(t) - Len(y)] = i
    BY <1>131, Zenon DEF NextIs
  <1>14. PICK n \in Nat : n = Len(t)
    OBVIOUS
  <1>15. /\ done \in Nat /\ done < n
         /\ fw => t[done + 1] = i
         /\ ~fw => t[n - done] = i
         /\ yielded' \in Seq(Inst) /\ Len(yielded') = done + 1
    BY <1>2, <1>8, <1>13, <1>14
  <1>16. \E x \in Seq(Inst) :
           Stack(Stepped, Depth(prog), Forwards, x) /\ yielded' \o x = Ordered(Leaves, Forwards)
    BY <1>2, <1>5, <1>6, <1>7, <1>8, <1>11, <1>13
  <1>17. state \in State /\ passed \in Seq(State) /\ call.n \in Nat
    BY <1>3 DEF MachineTyped, CallKinds
  <1> DEFINE Goal == MachineInv'
  <1>18. ASSUME call.name = "forward", Execute(i) PROVE Goal
    <2>1. fw
      BY <1>6, <1>18 DEF Forwards
    <2>2. RanTo(t, passed, done) /\ state = passed[done + 1]
      BY <1>3, <1>5, <1>18 DEF SoFar
    <2>3. ASSUME ~InRange(state, i), Stop("fault", "none") PROVE Goal
      <3>1. Return("fault", "none", done) /\ UNCHANGED <<debug, prog, state, done, made, passed>>
        BY <1>2, <2>3 DEF Stop
      <3> QED
        BY <1>4, <1>15, <1>18, <3>1, ReturnInv
    <2>4. ASSUME InRange(state, i), state' = Exec(state, i), passed' = Append(passed, state'), GoOn PROVE Goal
      <3>1. t[done + 1] = i
        BY <1>15, <2>1
      <3>2. PICK m \in Nat : m = done
        BY <1>15
      <3>3. InRange(passed[m + 1], t[m + 1]) /\ RanTo(t, passed, m) /\ m < Len(t)
        BY <1>14, <1>15, <2>2, <2>4, <3>1, <3>2
      <3>4. PICK x : x = Exec(passed[m + 1], t[m + 1])
        OBVIOUS
      <3>5. x \in State /\ RanTo(t, Append(passed, x), m + 1) /\ Append(passed, x)[m + 2] = x
        BY <3>3, <3>4, RanMore
      <3>6. state' = x /\ passed' = Append(passed, x)
        BY <2>2, <2>4, <3>1, <3>2, <3>4
      <3>7. Append(passed, x) \in Seq(State)
        BY <1>17, <3>5
      <3> QED
        BY <1>2, <1>4, <1>5, <1>15, <1>16, <1>18, <2>4, <3>2, <3>5, <3>6, <3>7, GoOnInv
    <2> HIDE DEF Goal
    <2> QED
      BY <1>18, <2>3, <2>4 DEF Execute
  <1>19. ASSUME call.name = "reverse", UndoLeaf(i) PROVE Goal
    <2>1. ~fw
      BY <1>6, <1>19 DEF Forwards
    <2>2. /\ RanTo(t, passed, n) /\ LastFree(t, done) /\ done <= call.n
          /\ state = passed[n + 1 - done] /\ Len(passed) = n + 1
      BY <1>3, <1>5, <1>14, <1>19 DEF SoFar, RanTo
    <2>3. t[n - done] = i
      BY <1>15, <2>1
    <2>4. Undoable \in Nat /\ done <= Undoable /\ (~Invertible(i) => Undoable = done)
      BY <1>5, <1>14, <1>15, <2>2, <2>3, UndoableIs
    <2>5. ASSUME NEW end \in {"ok", "fault", "panic"}, Stop(end, "none"), end = "ok" \/ (debug /\ end = "panic"),
                 done >= call.n \/ (~Invertible(i) /\ done < call.n)
          PROVE  Goal
      <3>1. Return(end, "none", done) /\ UNCHANGED <<debug, prog, state, done, made, passed>>
        BY <1>2, <2>5 DEF Stop
      <3>2. done = IF call.n <= Undoable THEN call.n ELSE Undoable
        BY <1>15, <1>17, <2>2, <2>4, <2>5
      <3>3. state = passed[Len(passed) - done]
        <4>1. Len(passed) - done = n + 1 - done
          BY <1>15, <2>2
        <4> QED
          BY <2>2, <4>1, Zenon
      <3> QED
        BY <1>4, <1>15, <1>19, <2>5, <3>1, <3>2, <3>3, ReturnInv
    <2>6. ASSUME done < call.n, Invertible(i), InRange(state, Inverse(i)), state' = Exec(state, Inverse(i)),
                 UNCHANGED passed, GoOn
          PROVE  Goal
      <3>1. PICK m \in 0 .. Len(t) : m = done /\ m < Len(t)
        BY <1>14, <1>15
      <3>2. Invertible(t[Len(t) - m]) /\ RanTo(t, passed, Len(t))
        BY <1>14, <2>2, <2>3, <2>6, <3>1
      <3>3. /\ Exec(passed[Len(t) + 1 - m], Inverse(t[Len(t) - m])) = passed[Len(t) + 1 - (m + 1)]
            /\ passed[Len(t) + 1 - (m + 1)] \in State
        BY <3>1, <3>2, RanBack
      <3>4. state' = passed[Len(t) + 1 - (m + 1)]
        BY <1>14, <2>2, <2>3, <2>6, <3>1, <3>3
      <3>5. LastFree(t, m + 1)
        BY <2>2, <3>1, <3>2, LastFreeMore
      <3>6. done + 1 <= call.n
        BY <1>15, <1>17, <2>6
      <3>7. passed' = passed
        BY <2>6
      <3> QED
        BY <1>2, <1>4, <1>5, <1>15, <1>16, <1>17, <1>19, <2>6, <3>1, <3>2, <3>3, <3>4, <3>5, <3>6, <3>7, GoOnInv
    <2>7. ASSUME done < call.n, Invertible(i), ~InRange(state, Inverse(i)) PROVE FALSE
      <3>1. PICK m \in 0 .. Len(t) : m = done /\ m < Len(t)
        BY <1>14, <1>15
      <3>2. Invertible(t[Len(t) - m]) /\ RanTo(t, passed, Len(t))
        BY <1>14, <2>2, <2>3, <2>7, <3>1
      <3>3. InRange(passed[Len(t) + 1 - m], Inverse(t[Len(t) - m]))
        BY <3>1, <3>2, RanBack
      <3> QED
        BY <1>14, <2>2, <2>3, <2>7, <3>1, <3>3
    <2>8. ASSUME done < call.n, AssertionFails(i), Stop("panic", "none") PROVE Goal
      <3>1. debug /\ ~Invertible(i)
        BY <1>10, <2>8, AssertionBlocks
      <3> QED
        BY <2>5, <2>8, <3>1
    <2>9. ASSUME Stop("ok", "none"), done >= call.n \/ (~Invertible(i) /\ done < call.n) PROVE Goal
      BY <2>5, <2>9
    <2> HIDE DEF Goal
    <2> QED
      BY <1>19, <2>6, <2>7, <2>8, <2>9 DEF UndoLeaf
  <1>20. ASSUME call.name = "suffix", CountSuffix(i) PROVE Goal
    <2>1. ~fw
      BY <1>6, <1>20 DEF Forwards
    <2>2. LastFree(t, done)
      BY <1>3, <1>5, <1>20 DEF SoFar
    <2>3. t[n - done] = i
      BY <1>15, <2>1
    <2>4. ~Invertible(i) => Undoable = done
      BY <1>5, <1>14, <1>15, <2>2, <2>3, UndoableIs
    <2>5. ASSUME NEW end \in {"ok", "fault", "panic"}, Stop(end, "none"), ~Invertible(i)
          PROVE  Goal
      <3>1. Return(end, "none", done) /\ UNCHANGED <<debug, prog, state, done, made, passed>>
        BY <1>2, <2>5 DEF Stop
      <3> QED
        BY <1>4, <1>15, <1>20, <2>4, <2>5, <3>1, ReturnInv
    <2>6. ASSUME Invertible(i), GoOn, UNCHANGED <<state, passed>> PROVE Goal
      <3>1. LastFree(t, done + 1)
        BY <1>14, <1>15, <2>2, <2>3, <2>6, LastFreeMore
      <3> QED
        BY <1>2, <1>4, <1>5, <1>15, <1>16, <1>17, <1>20, <2>6, <3>1, GoOnInv
    <2>7. ASSUME AssertionFails(i), Stop("panic", "none") PROVE Goal
      BY <1>10, <2>5, <2>7, AssertionBlocks
    <2>8. ASSUME ~Invertible(i), Stop("ok", "none") PROVE Goal
      BY <2>5, <2>8
    <2> HIDE DEF Goal
    <2> QED
      BY <1>20, <2>6, <2>7, <2>8 DEF CountSuffix
  <1>21. ASSUME call.name = "leaf", FindLeaf(i) PROVE Goal
    <2>1. fw
      BY <1>6, <1>21 DEF Forwards
    <2>2. t[done + 1] = i /\ done <= call.n
      BY <1>3, <1>15, <1>21, <2>1 DEF SoFar
    <2>3. ASSUME done = call.n, Stop("ok", i) PROVE Goal
      <3>1. Return("ok", i, done) /\ UNCHANGED <<debug, prog, state, done, made, passed>>
        BY <1>2, <2>3 DEF Stop
      <3>2. i = IF call.n < Len(Leaves) THEN Leaves[call.n + 1] ELSE "none"
        BY <1>5, <1>14, <1>15, <2>2, <2>3
      <3> QED
        BY <1>4, <1>10, <1>15, <1>21, <3>1, <3>2, ReturnInv
    <2>4. ASSUME done # call.n, GoOn, UNCHANGED <<state, passed>> PROVE Goal
      <3>1. done + 1 <= call.n
        BY <1>15, <1>17, <2>2, <2>4
      <3> QED
        BY <1>2, <1>4, <1>15, <1>16, <1>17, <1>21, <2>4, <3>1, GoOnInv
    <2> HIDE DEF Goal
    <2> QED
      BY <1>21, <2>3, <2>4 DEF FindLeaf
  <1> HIDE DEF Goal
  <1>22. Goal
    BY <1>2, <1>18, <1>19, <1>20, <1>21
  <1> QED
    BY <1>22 DEF Goal

LEMMA TurnInv ==
  ASSUME MachineInv, Turn
  PROVE  MachineInv'
  <1>1. MachineTyped /\ Streaming
    BY DEF MachineInv
  <1>2. PICK d \in 0 .. MaxNesting : d = Depth(prog)
    BY <1>1, LeavesTypes
  <1>3. jobs # <<>> => call # Free
    BY <1>1 DEF Streaming
  <1>4. call # Free => Forwards \in BOOLEAN
    BY <1>1, OrderOf
  <1> DEFINE Goal == MachineInv'
  <1>5. ASSUME NEW fw \in BOOLEAN, fw = Forwards, call # Free, Keep,
               \A r : Stack(jobs, d, fw, r) => Stack(jobs', d, fw, r)
        PROVE  Goal
    BY <1>2, <1>5, KeepInv
  <1>6. ASSUME Pop PROVE Goal
    <2>1. Keep /\ call # Free
      BY <1>3, <1>6 DEF Pop, OnSeq, OnRep
    <2>2. PICK fw \in BOOLEAN : fw = Forwards
      BY <1>4, <2>1
    <2>3. \A r : Stack(jobs, d, fw, r) => Stack(jobs', d, fw, r)
      BY <1>6, PopKeeps
    <2> HIDE DEF Goal
    <2> QED
      BY <1>5, <2>1, <2>2, <2>3
  <1>7. ASSUME SkipEmptyRep PROVE Goal
    <2>1. Keep /\ call # Free
      BY <1>3, <1>7 DEF SkipEmptyRep, OnSeq
    <2>2. PICK fw \in BOOLEAN : fw = Forwards
      BY <1>4, <2>1
    <2>3. \A r : Stack(jobs, d, fw, r) => Stack(jobs', d, fw, r)
      BY <1>7, <2>2, SkipKeeps
    <2> HIDE DEF Goal
    <2> QED
      BY <1>5, <2>1, <2>2, <2>3
  <1>8. ASSUME PushRep PROVE Goal
    <2>1. Keep /\ call # Free
      BY <1>3, <1>8 DEF PushRep, OnSeq
    <2>2. PICK fw \in BOOLEAN : fw = Forwards
      BY <1>4, <2>1
    <2>3. \A r : Stack(jobs, d, fw, r) => Stack(jobs', d, fw, r)
      BY <1>8, <2>2, PushKeeps
    <2> HIDE DEF Goal
    <2> QED
      BY <1>5, <2>1, <2>2, <2>3
  <1>9. ASSUME EnterBody PROVE Goal
    <2>1. Keep /\ call # Free
      BY <1>3, <1>9 DEF EnterBody, OnRep
    <2>2. PICK fw \in BOOLEAN : fw = Forwards
      BY <1>4, <2>1
    <2>3. \A r : Stack(jobs, d, fw, r) => Stack(jobs', d, fw, r)
      BY <1>9, <2>2, EnterKeeps
    <2> HIDE DEF Goal
    <2> QED
      BY <1>5, <2>1, <2>2, <2>3
  <1>10. ASSUME Yield PROVE Goal
    BY <1>10, YieldInv
  <1>11. ASSUME End PROVE Goal
    BY <1>11, EndInv
  <1> HIDE DEF Goal
  <1>12. Goal
    BY <1>6, <1>7, <1>8, <1>9, <1>10, <1>11 DEF Turn
  <1> QED
    BY <1>12 DEF Goal

LEMMA MachineStepInv == MachineInv /\ [MachineNext]_machineVars => MachineInv'
  <1> SUFFICES ASSUME MachineInv, [MachineNext]_machineVars PROVE MachineInv'
    OBVIOUS
  <1> DEFINE Goal == MachineInv'
  <1>1. ASSUME RunForward PROVE Goal
    <2>1. Begin("forward", 0, TRUE) /\ "forward" \in Calls
      BY <1>1 DEF RunForward, Calls
    <2> QED
      BY <2>1, BeginInv
  <1>2. ASSUME SuffixLen PROVE Goal
    <2>1. Begin("suffix", 0, FALSE) /\ "suffix" \in Calls
      BY <1>2 DEF SuffixLen, Calls
    <2> QED
      BY <2>1, BeginInv
  <1>3. ASSUME NEW n \in Limits, ReverseN(n) PROVE Goal
    <2>1. /\ Begin("reverse", n, FALSE) /\ "reverse" \in Calls /\ n \in Nat
          /\ ended.call.name = "forward" /\ ended.out = "ok"
      BY <1>3, MachineAssumption DEF ReverseN, Calls, NoError
    <2> QED
      BY <2>1, BeginInv
  <1>4. ASSUME NEW n \in Limits, LeafAt(n) PROVE Goal
    <2>1. Begin("leaf", n, TRUE) /\ "leaf" \in Calls /\ n \in Nat
      BY <1>4, MachineAssumption DEF LeafAt, Calls
    <2> QED
      BY <2>1, BeginInv
  <1>5. ASSUME Turn PROVE Goal
    BY <1>5, TurnInv
  <1>6. ASSUME UNCHANGED machineVars PROVE Goal
    <2>1. /\ debug' = debug /\ prog' = prog /\ state' = state /\ call' = call /\ jobs' = jobs /\ done' = done
          /\ ended' = ended /\ made' = made /\ yielded' = yielded /\ passed' = passed
      BY <1>6 DEF machineVars
    <2>2. MachineTyped' /\ Leaves' = Leaves /\ Forwards' = Forwards /\ Depth(prog') = Depth(prog)
      BY <2>1 DEF MachineInv, MachineTyped, Leaves, Forwards
    <2>3. Undoable' = Undoable
      BY <2>2 DEF Undoable, Blocked
    <2>4. Streaming'
      BY <2>1, <2>2 DEF MachineInv, Streaming
    <2>5. SoFar'
      BY <2>1, <2>2 DEF MachineInv, SoFar
    <2>6. LeftBehind'
      BY <2>1, <2>2, <2>3 DEF MachineInv, LeftBehind
    <2> QED
      BY <2>2, <2>4, <2>5, <2>6 DEF MachineInv
  <1> HIDE DEF Goal
  <1>7. Goal
    BY <1>1, <1>2, <1>3, <1>4, <1>5, <1>6 DEF MachineNext
  <1> QED
    BY <1>7 DEF Goal

LEMMA MachineInvHolds == MachineSpec => []MachineInv
  BY MachineInitInv, MachineStepInv, PTL DEF MachineSpec

LEMMA FrontIsPrefix ==
  ASSUME NEW S, NEW a \in Seq(S), NEW b \in Seq(S)
  PROVE  Lists!IsPrefix(a, a \o b)
  <1>1. PICK w : w = a \o b
    OBVIOUS
  <1>2. PICK m \in Nat : m = Len(a)
    OBVIOUS
  <1>3. w \in Seq(S) /\ Len(w) >= m /\ \A k \in 1 .. m : w[k] = a[k]
    <2>1. /\ a \o b \in Seq(S) /\ Len(a \o b) = Len(a) + Len(b)
          /\ \A k \in 1 .. Len(a) : (a \o b)[k] = a[k]
      BY JoinFacts
    <2>2. Len(b) \in Nat
      OBVIOUS
    <2> QED
      BY <1>1, <1>2, <2>1, <2>2
  <1>4. SubSeq(a, 1, m) = [k \in 1 .. m |-> a[k]] /\ SubSeq(w, 1, m) = [k \in 1 .. m |-> w[k]]
    BY <1>2, <1>3
  <1>5. SubSeq(a, 1, m) = SubSeq(w, 1, m)
    BY <1>3, <1>4
  <1> QED
    BY <1>1, <1>2, <1>3, <1>5 DEF Lists!IsPrefix

(* Whatever the nesting, the counts and the direction: the job stack holds at *)
(* most two jobs a level, and StreamIter yields exactly the leaves of the     *)
(* unrolled program in order (machine.rs lines 30-183).                       *)
THEOREM StreamIsSafe == MachineSpec => []StreamSafe
  <1>1. MachineInv => StreamSafe
    <2> SUFFICES ASSUME MachineInv PROVE StreamSafe
      OBVIOUS
    <2>1. MachineTyped /\ Streaming
      BY DEF MachineInv
    <2>2. PICK d \in 0 .. MaxNesting : d = Depth(prog)
      BY <2>1, LeavesTypes
    <2>3. CASE call = Free
      <3>1. jobs = <<>> /\ Len(<<>>) = 0 /\ d \in Nat
        BY <2>1, <2>3, MachineAssumption DEF Streaming
      <3>2. Len(jobs) <= 2 * Depth(prog) + 1
        BY <2>2, <3>1
      <3>3. MachineTypeOK
        BY <2>1, <3>2 DEF MachineTyped, MachineTypeOK, CallKinds, EndedKinds
      <3> QED
        BY <2>3, <3>3 DEF StreamSafe, LeavesInOrder
    <2>4. CASE call # Free
      <3>1. PICK fw \in BOOLEAN : fw = Forwards
        BY <2>1, <2>4, OrderOf
      <3>2. PICK r \in Seq(Inst) : Stack(jobs, d, fw, r) /\ yielded \o r = Ordered(Leaves, fw)
        BY <2>1, <2>2, <2>4, <3>1 DEF Streaming
      <3>3. Order = yielded \o r
        BY <2>1, <2>4, <3>1, <3>2, OrderOf
      <3>4. yielded \in Seq(Inst)
        BY <2>1 DEF MachineTyped
      <3>5. Lists!IsPrefix(yielded, Order)
        BY <3>3, <3>4, FrontIsPrefix
      <3>6. jobs = <<>> => yielded = Order
        <4>1. jobs = <<>> => r = <<>>
          BY <3>2, StackEmpty
        <4> QED
          BY <3>3, <3>4, <4>1, JoinFacts
      <3>7. Len(jobs) <= 2 * Depth(prog) + 1
        BY <2>2, <3>2, StackBound
      <3>8. MachineTypeOK
        BY <2>1, <3>7 DEF MachineTyped, MachineTypeOK, CallKinds, EndedKinds
      <3> QED
        BY <3>5, <3>6, <3>8 DEF StreamSafe, LeavesInOrder
    <2> QED
      BY <2>3, <2>4
  <1> QED
    BY <1>1, MachineInvHolds, PTL

(* reverse_n after run_forward takes back exactly the leaves asked for, or     *)
(* those behind the last boundary, and lands on a state run_forward had        *)
(* passed, for every program and every width (machine.rs lines 214-236).       *)
THEOREM RollbackIsExact == MachineSpec => []ReverseIsExact
  <1>1. MachineInv => ReverseIsExact
    BY DEF MachineInv, LeftBehind, ReverseIsExact
  <1> QED
    BY <1>1, MachineInvHolds, PTL

-----------------------------------------------------------------------------
(* The four walks of a program.                                              *)

LEMMA SumsAre ==
  ASSUME NEW n \in Nat, NEW parts \in [1 .. n -> Seq(Inst)], NEW numbers \in [1 .. n -> Nat],
         \A k \in 1 .. n : numbers[k] = Len(parts[k])
  PROVE  SumOf(numbers) = Len(Lists!FlattenSeq(parts))
  <1> DEFINE steps == [k \in 1 .. n |-> [x \in Nat |-> x + numbers[k]]]
  <1>1. Len(numbers) = n
    OBVIOUS
  <1>2. SumOf(numbers) = InTurn(steps, 0)
    BY <1>1 DEF SumOf
  <1>3. steps \in [1 .. n -> [Nat -> Nat]] /\ \A k \in 1 .. n : \A x \in Nat : steps[k][x] = x + numbers[k]
    OBVIOUS
  <1> HIDE DEF steps
  <1>40. 0 \in Nat /\ steps \in [1 .. n -> [Nat -> Nat]]
    BY <1>3
  <1>4. PICK g : Chain(g, n, Nat, 0, steps) /\ InTurn(steps, 0) = g[n]
    BY <1>40, InTurnIs
  <1>5. PICK up : Joins(up, n, Inst, parts) /\ Lists!FlattenSeq(parts) = up[n]
    BY FlatIs
  <1>6. /\ g \in [0 .. n -> Nat] /\ g[0] = 0
        /\ \A k \in 1 .. n : g[k] = g[k - 1] + numbers[k]
    <2>1. g \in [0 .. n -> Nat] /\ g[0] = 0 /\ \A k \in 1 .. n : g[k] = steps[k][g[k - 1]]
      BY <1>4 DEF Chain
    <2>2. ASSUME NEW k \in 1 .. n PROVE g[k - 1] \in Nat
      BY <2>1
    <2> QED
      BY <1>3, <2>1, <2>2
  <1>7. /\ up \in [0 .. n -> Seq(Inst)] /\ up[0] = <<>>
        /\ \A k \in 1 .. n : up[k] = up[k - 1] \o parts[k]
    BY <1>5 DEF Joins
  <1> DEFINE P == {k \in 0 .. n : g[k] = Len(up[k])}
  <1>8. 0 \in P
    BY <1>6, <1>7
  <1>9. ASSUME NEW k \in 1 .. n, k - 1 \in P PROVE k \in P
    <2>10. k - 1 \in 0 .. n /\ k \in 0 .. n
      OBVIOUS
    <2>1. PICK a \in Seq(Inst) : a = up[k - 1]
      BY <1>7, <2>10
    <2>2. PICK b \in Seq(Inst) : b = parts[k]
      OBVIOUS
    <2>3. Len(a \o b) = Len(a) + Len(b)
      BY JoinFacts
    <2>4. up[k] = a \o b /\ g[k - 1] = Len(a) /\ numbers[k] = Len(b)
      BY <1>7, <1>9, <2>1, <2>2
    <2>5. g[k] = g[k - 1] + numbers[k]
      BY <1>6
    <2>6. g[k] = Len(up[k])
      BY <2>3, <2>4, <2>5
    <2> QED
      BY <2>6, <2>10
  <1> HIDE DEF P
  <1>10. \A k \in 0 .. n : k \in P
    BY <1>8, <1>9, UpTo
  <1> QED
    BY <1>2, <1>4, <1>5, <1>10 DEF P

LEMMA CopiesLen ==
  ASSUME NEW n \in Nat, NEW x \in Seq(Inst)
  PROVE  Len(Lists!FlattenSeq([c \in 1 .. n |-> x])) = n * Len(x)
  <1>1. PICK parts \in [1 .. n -> Seq(Inst)] : parts = [c \in 1 .. n |-> x]
    OBVIOUS
  <1>2. PICK up : Joins(up, n, Inst, parts) /\ Lists!FlattenSeq(parts) = up[n]
    BY FlatIs
  <1>3. /\ up \in [0 .. n -> Seq(Inst)] /\ up[0] = <<>>
        /\ \A k \in 1 .. n : up[k] = up[k - 1] \o x
    BY <1>1, <1>2 DEF Joins
  <1>4. PICK m \in Nat : m = Len(x)
    OBVIOUS
  <1> DEFINE P == {k \in 0 .. n : Len(up[k]) = k * m}
  <1>5. 0 \in P
    BY <1>3
  <1>6. ASSUME NEW k \in 1 .. n, k - 1 \in P PROVE k \in P
    <2>10. k - 1 \in 0 .. n /\ k \in 0 .. n
      OBVIOUS
    <2>1. PICK a \in Seq(Inst) : a = up[k - 1]
      BY <1>3, <2>10
    <2>2. Len(a \o x) = Len(a) + Len(x)
      BY JoinFacts
    <2>3. up[k] = a \o x /\ Len(a) = (k - 1) * m
      BY <1>3, <1>6, <2>1
    <2>4. (k - 1) * m + m = k * m
      BY SMT
    <2> QED
      BY <1>4, <2>2, <2>3, <2>4
  <1> HIDE DEF P
  <1>7. \A k \in 0 .. n : k \in P
    BY <1>5, <1>6, UpTo
  <1> QED
    BY <1>1, <1>2, <1>4, <1>7 DEF P

(* count_leaves counts what the program unrolls to. *)
LEMMA CountsAgree ==
  \A d \in 0 .. MaxNesting : \A p \in LoopTrees[d] : CountTo[d][p] = Len(UnrolledTo[d][p])
  <1> DEFINE P == {d \in 0 .. MaxNesting : \A p \in LoopTrees[d] : CountTo[d][p] = Len(UnrolledTo[d][p])}
  <1>1. ASSUME NEW d \in 0 .. MaxNesting, d # 0 => d - 1 \in P PROVE d \in P
    <2>1. ASSUME NEW p \in LoopTrees[d] PROVE CountTo[d][p] = Len(UnrolledTo[d][p])
      <3>1. PICK below : below = IF d = 0 THEN <<>> ELSE CountTo[d - 1]
        OBVIOUS
      <3>2. PICK n \in Nat : n = Len(p)
        BY LoopNodeIs
      <3>3. CountTo[d] = CountLevel(d, below)
        BY <3>1, CountIs, Zenon
      <3>4. PICK numbers : numbers = [k \in 1 .. n |-> CountOf(p[k], below)]
        OBVIOUS
      <3>5. CountTo[d][p] = SumOf(numbers)
        BY <3>2, <3>3, <3>4, Zenon DEF CountLevel
      <3>6. \A k \in 1 .. n : LeavesOf(p[k], Under(d)) \in Seq(Inst)
        <4>1. d # 0 => d - 1 \in 0 .. MaxNesting
          BY MachineAssumption
        <4>2. d # 0 => \A b \in LoopTrees[d - 1] : UnrolledTo[d - 1][b] \in Seq(Inst)
          BY <4>1, UnrolledTyped
        <4> QED
          BY <3>2, <4>2, LeavesTyped
      <3>7. PICK parts \in [1 .. n -> Seq(Inst)] : parts = PartsOf(p, d)
        BY <3>2, <3>6 DEF PartsOf
      <3>8. ASSUME NEW k \in 1 .. n PROVE numbers[k] \in Nat /\ numbers[k] = Len(parts[k])
        <4>1. numbers[k] = CountOf(p[k], below) /\ parts[k] = LeavesOf(p[k], Under(d))
          BY <3>2, <3>4, <3>7, Zenon DEF PartsOf
        <4>2. CASE p[k].kind = "inst" /\ p[k].inst \in Inst
          <5>1. PICK i \in Inst : i = p[k].inst
            BY <4>2
          <5>2. parts[k] = <<i>> /\ numbers[k] = 1
            BY <4>1, <4>2, <5>1 DEF CountOf, LeavesOf
          <5> QED
            BY <5>2
        <4>3. CASE /\ p[k].kind = "rep" /\ p[k].count \in Nat /\ d # 0 /\ d - 1 \in 0 .. MaxNesting
                   /\ p[k].body \in LoopTrees[d - 1]
          <5>1. PICK c \in Nat : c = p[k].count
            BY <4>3
          <5>2. PICK x \in Seq(Inst) : x = UnrolledTo[d - 1][p[k].body]
            BY <4>3, UnrolledTyped
          <5>3. CountTo[d - 1][p[k].body] = Len(x)
            BY <1>1, <4>3, <5>2
          <5>4. numbers[k] = c * Len(x)
            BY <3>1, <4>1, <4>3, <5>1, <5>3 DEF CountOf
          <5>5. parts[k] = Lists!FlattenSeq([j \in 1 .. c |-> x])
            BY <4>1, <4>3, <5>1, <5>2 DEF LeavesOf, Under
          <5>6. Len(Lists!FlattenSeq([j \in 1 .. c |-> x])) = c * Len(x)
            BY CopiesLen
          <5>7. c * Len(x) \in Nat
            <6>1. PICK m \in Nat : m = Len(x)
              OBVIOUS
            <6>2. c * m \in Nat
              BY SMT
            <6> QED
              BY <6>1, <6>2
          <5> QED
            BY <5>4, <5>5, <5>6, <5>7
        <4> QED
          BY <3>2, <4>2, <4>3, LoopNodeIs
      <3>9. numbers \in [1 .. n -> Nat]
        BY <3>4, <3>8
      <3>10. SumOf(numbers) = Len(Lists!FlattenSeq(parts))
        BY <3>8, <3>9, SumsAre
      <3> QED
        BY <3>5, <3>7, <3>10, UnrolledTyped
    <2> QED
      BY <2>1
  <1>2. 0 \in P
    <2>1. 0 \in 0 .. MaxNesting
      BY MachineAssumption
    <2> HIDE DEF P
    <2> QED
      BY <1>1, <2>1
  <1>3. ASSUME NEW d \in 1 .. MaxNesting, d - 1 \in P PROVE d \in P
    <2>1. d \in 0 .. MaxNesting
      BY MachineAssumption
    <2> HIDE DEF P
    <2> QED
      BY <1>1, <1>3, <2>1
  <1>4. \A d \in 1 .. MaxNesting : d - 1 \in P => d \in P
    BY <1>3
  <1> HIDE DEF P
  <1>5. \A d \in 0 .. MaxNesting : d \in P
    BY <1>2, <1>4, UpTo, MachineAssumption
  <1> QED
    BY <1>5 DEF P

Sizes == INSTANCE FiniteSetTheorems

(* A leaf is judged: it is counted, and is reported if it cannot be undone. *)
LEMMA JudgeIs ==
  ASSUME NEW rep \in Reports, NEW i \in Inst
  PROVE  /\ Judge(rep, i) \in Reports /\ rep.total \in Nat /\ Judge(rep, i).total = rep.total + 1
         /\ Invertible(i) => /\ Judge(rep, i).violations = rep.violations
                             /\ Judge(rep, i).invertible = rep.invertible + 1
         /\ ~Invertible(i) => /\ Judge(rep, i).invertible = rep.invertible
                              /\ \E kind \in {"alias", "boundary"} :
                                   Judge(rep, i).violations = rep.violations \union {<<rep.total, kind>>}
  <1>1. PICK t \in Nat, n \in Nat, v \in SUBSET (Nat \X {"alias", "boundary"}) :
          rep = [total |-> t, invertible |-> n, violations |-> v]
    BY DEF Reports
  <1>2. PICK end : end = Judge(rep, i)
    OBVIOUS
  <1>3. \A kind \in {"alias", "boundary"} : v \union {<<t, kind>>} \in SUBSET (Nat \X {"alias", "boundary"})
    OBVIOUS
  <1>31. PICK seen : seen = [rep EXCEPT !.total = @ + 1]
    OBVIOUS
  <1>32. seen = [total |-> t + 1, invertible |-> n, violations |-> v] /\ rep.total = t
    BY <1>1, <1>31
  <1>4. CASE OperandAlias(i)
    <2>1. end = [total |-> t + 1, invertible |-> n, violations |-> v \union {<<t, "alias">>}]
      <3>1. ~Invertible(i)
        BY <1>4 DEF Invertible
      <3>2. end = [seen EXCEPT !.violations = @ \union {<<rep.total, "alias">>}]
        BY <1>2, <1>31, <1>4, <3>1 DEF Judge
      <3>3. [seen EXCEPT !.violations = @ \union {<<t, "alias">>}]
              = [total |-> t + 1, invertible |-> n, violations |-> v \union {<<t, "alias">>}]
        <4>1. PICK q : q = v \union {<<t, "alias">>}
          OBVIOUS
        <4>2. seen.violations \union {<<t, "alias">>} = q
          BY <1>32, <4>1
        <4>3. [seen EXCEPT !.violations = q] = [total |-> t + 1, invertible |-> n, violations |-> q]
          BY <1>32
        <4> QED
          BY <4>1, <4>2, <4>3, Zenon
      <3> QED
        BY <1>32, <3>2, <3>3
    <2>2. ~Invertible(i)
      BY <1>4 DEF Invertible
    <2> QED
      BY <1>1, <1>2, <1>3, <2>1, <2>2 DEF Reports
  <1>5. CASE ~OperandAlias(i) /\ IsIrreversible(i)
    <2>1. end = [total |-> t + 1, invertible |-> n, violations |-> v \union {<<t, "boundary">>}]
      <3>1. ~Invertible(i)
        BY <1>5 DEF Invertible
      <3>2. end = [seen EXCEPT !.violations = @ \union {<<rep.total, "boundary">>}]
        BY <1>2, <1>31, <1>5, <3>1 DEF Judge
      <3>3. [seen EXCEPT !.violations = @ \union {<<t, "boundary">>}]
              = [total |-> t + 1, invertible |-> n, violations |-> v \union {<<t, "boundary">>}]
        <4>1. PICK q : q = v \union {<<t, "boundary">>}
          OBVIOUS
        <4>2. seen.violations \union {<<t, "boundary">>} = q
          BY <1>32, <4>1
        <4>3. [seen EXCEPT !.violations = q] = [total |-> t + 1, invertible |-> n, violations |-> q]
          BY <1>32
        <4> QED
          BY <4>1, <4>2, <4>3, Zenon
      <3> QED
        BY <1>32, <3>2, <3>3
    <2>2. ~Invertible(i)
      BY <1>5 DEF Invertible
    <2> QED
      BY <1>1, <1>2, <1>3, <2>1, <2>2 DEF Reports
  <1>6. CASE ~OperandAlias(i) /\ ~IsIrreversible(i)
    <2>1. Invertible(i)
      BY <1>6 DEF Invertible
    <2>2. end = [total |-> t + 1, invertible |-> n + 1, violations |-> v]
      BY <1>1, <1>2, <1>6, <2>1 DEF Judge
    <2> QED
      BY <1>1, <1>2, <2>1, <2>2 DEF Reports
  <1> QED
    BY <1>4, <1>5, <1>6

(* The leaves y were judged one after the other, from rep to end. *)
JudgedBy(rep, y, end) ==
  \E g : /\ g \in [0 .. Len(y) -> Reports] /\ g[0] = rep /\ end = g[Len(y)]
         /\ \A k \in 1 .. Len(y) : g[k] = Judge(g[k - 1], y[k])

LEMMA JudgedNone ==
  ASSUME NEW rep \in Reports
  PROVE  JudgedBy(rep, <<>>, rep)
  <1> DEFINE g == [k \in 0 .. 0 |-> rep]
  <1>1. Len(<<>>) = 0 /\ g \in [0 .. 0 -> Reports] /\ g[0] = rep
    OBVIOUS
  <1> HIDE DEF g
  <1>2. \A k \in 1 .. Len(<<>>) : g[k] = Judge(g[k - 1], <<>>[k])
    BY <1>1
  <1> QED
    BY <1>1, <1>2 DEF JudgedBy

LEMMA JudgedOne ==
  ASSUME NEW rep \in Reports, NEW i \in Inst
  PROVE  JudgedBy(rep, <<i>>, Judge(rep, i))
  <1>1. PICK end \in Reports : end = Judge(rep, i)
    BY JudgeIs
  <1> DEFINE g == [k \in 0 .. 1 |-> IF k = 0 THEN rep ELSE end]
  <1>2. Len(<<i>>) = 1 /\ <<i>>[1] = i
    OBVIOUS
  <1>3. g \in [0 .. 1 -> Reports] /\ g[0] = rep /\ g[1] = end
    OBVIOUS
  <1> HIDE DEF g
  <1>4. \A k \in 1 .. 1 : k = 1 /\ k - 1 = 0
    OBVIOUS
  <1>5. \A k \in 1 .. 1 : g[k] = Judge(g[k - 1], <<i>>[k])
    BY <1>1, <1>2, <1>3, <1>4
  <1> QED
    BY <1>1, <1>2, <1>3, <1>5 DEF JudgedBy

LEMMA JudgedBoth ==
  ASSUME NEW a \in Seq(Inst), NEW b \in Seq(Inst), NEW rep, NEW mid, NEW end,
         JudgedBy(rep, a, mid), JudgedBy(mid, b, end)
  PROVE  JudgedBy(rep, a \o b, end)
  <1>1. PICK m \in Nat : m = Len(a)
    OBVIOUS
  <1>2. PICK n \in Nat : n = Len(b)
    OBVIOUS
  <1>3. PICK g : /\ g \in [0 .. m -> Reports] /\ g[0] = rep /\ mid = g[m]
                 /\ \A k \in 1 .. m : g[k] = Judge(g[k - 1], a[k])
    BY <1>1 DEF JudgedBy
  <1>4. PICK h : /\ h \in [0 .. n -> Reports] /\ h[0] = mid /\ end = h[n]
                 /\ \A k \in 1 .. n : h[k] = Judge(h[k - 1], b[k])
    BY <1>2 DEF JudgedBy
  <1>5. PICK c : c = a \o b
    OBVIOUS
  <1>6. Len(c) = m + n /\ \A k \in 1 .. m : c[k] = a[k]
    BY <1>1, <1>2, <1>5, JoinFacts
  <1>7. \A k \in 1 .. n : c[m + k] = b[k]
    BY <1>1, <1>2, <1>5, JoinFacts
  <1> DEFINE f == [k \in 0 .. m + n |-> IF k <= m THEN g[k] ELSE h[k - m]]
  <1>8. /\ f \in [0 .. m + n -> Reports]
        /\ \A k \in 0 .. m : f[k] = g[k]
    BY <1>3, <1>4
  <1>9. \A k \in 0 .. n : f[m + k] = h[k]
    <2>1. ASSUME NEW k \in 0 .. n PROVE f[m + k] = h[k]
      <3>1. m + k \in 0 .. m + n /\ (m + k) - m = k
        OBVIOUS
      <3>2. CASE k = 0
        BY <1>3, <1>4, <3>1, <3>2
      <3>3. CASE k # 0
        <4>1. ~(m + k <= m)
          BY <3>3
        <4> QED
          BY <3>1, <4>1
      <3> QED
        BY <3>2, <3>3
    <2> QED
      BY <2>1
  <1> HIDE DEF f
  <1>10. ASSUME NEW k \in 1 .. m + n PROVE f[k] = Judge(f[k - 1], c[k])
    <2>1. CASE k <= m
      <3>1. k \in 1 .. m /\ k \in 0 .. m /\ k - 1 \in 0 .. m
        BY <2>1
      <3> QED
        BY <1>3, <1>6, <1>8, <3>1
    <2>2. CASE ~(k <= m)
      <3>1. PICK j \in 1 .. n : k = m + j
        <4>1. k - m \in 1 .. n /\ k = m + (k - m)
          BY <2>2
        <4> QED
          BY <4>1
      <3>2. j \in 0 .. n /\ j - 1 \in 0 .. n /\ k - 1 = m + (j - 1)
        BY <3>1
      <3>3. f[k] = h[j] /\ f[k - 1] = h[j - 1] /\ c[k] = b[j]
        BY <1>7, <1>9, <3>1, <3>2
      <3> QED
        BY <1>4, <3>3
    <2> QED
      BY <2>1, <2>2
  <1>11. f[0] = rep /\ f[m + n] = end
    <2>1. 0 \in 0 .. m /\ n \in 0 .. n
      OBVIOUS
    <2> QED
      BY <1>3, <1>4, <1>8, <1>9, <2>1
  <1>12. JudgedBy(rep, c, end)
    BY <1>6, <1>8, <1>10, <1>11 DEF JudgedBy
  <1> QED
    BY <1>5, <1>12

LEMMA JudgedTyped ==
  ASSUME NEW y \in Seq(Inst), NEW rep, NEW end, JudgedBy(rep, y, end)
  PROVE  end \in Reports
  <1>1. PICK n \in Nat : n = Len(y)
    OBVIOUS
  <1> QED
    BY <1>1 DEF JudgedBy

(* Steps that each judge a part judge all of it in turn. *)
LEMMA TurnsJudge ==
  ASSUME NEW n \in Nat, NEW parts \in [1 .. n -> Seq(Inst)], NEW steps \in [1 .. n -> [Reports -> Reports]],
         \A k \in 1 .. n : \A r \in Reports : JudgedBy(r, parts[k], steps[k][r]),
         NEW rep \in Reports
  PROVE  JudgedBy(rep, Lists!FlattenSeq(parts), InTurn(steps, rep))
  <1>1. PICK g : Chain(g, n, Reports, rep, steps) /\ InTurn(steps, rep) = g[n]
    BY InTurnIs
  <1>2. /\ g \in [0 .. n -> Reports] /\ g[0] = rep
        /\ \A k \in 1 .. n : g[k] = steps[k][g[k - 1]]
    BY <1>1 DEF Chain
  <1>3. PICK up : Joins(up, n, Inst, parts) /\ Lists!FlattenSeq(parts) = up[n]
    BY FlatIs
  <1>4. /\ up \in [0 .. n -> Seq(Inst)] /\ up[0] = <<>>
        /\ \A k \in 1 .. n : up[k] = up[k - 1] \o parts[k]
    BY <1>3 DEF Joins
  <1> DEFINE P == {k \in 0 .. n : JudgedBy(rep, up[k], g[k])}
  <1>5. 0 \in P
    BY <1>2, <1>4, JudgedNone
  <1>6. ASSUME NEW k \in 1 .. n, k - 1 \in P PROVE k \in P
    <2>1. k - 1 \in 0 .. n /\ k \in 0 .. n
      OBVIOUS
    <2>2. PICK a \in Seq(Inst) : a = up[k - 1]
      BY <1>4, <2>1
    <2>3. PICK b \in Seq(Inst) : b = parts[k]
      OBVIOUS
    <2>4. PICK mid \in Reports : mid = g[k - 1]
      BY <1>2, <2>1
    <2>5. JudgedBy(rep, a, mid)
      BY <1>6, <2>2, <2>4
    <2>6. JudgedBy(mid, b, g[k])
      BY <1>2, <2>3, <2>4
    <2>7. JudgedBy(rep, a \o b, g[k])
      BY <2>5, <2>6, JudgedBoth
    <2>8. up[k] = a \o b
      BY <1>4, <2>2, <2>3
    <2> QED
      BY <2>1, <2>7, <2>8
  <1> HIDE DEF P
  <1>7. \A k \in 0 .. n : k \in P
    BY <1>5, <1>6, UpTo
  <1>8. n \in 0 .. n
    OBVIOUS
  <1> QED
    BY <1>1, <1>3, <1>7, <1>8 DEF P

(* check::walk judges what the program unrolls to. *)
LEMMA WalksJudge ==
  \A d \in 0 .. MaxNesting : \A p \in LoopTrees[d] : \A rep \in Reports :
    JudgedBy(rep, UnrolledTo[d][p], WalkTo[d][p][rep])
  <1> DEFINE P == {d \in 0 .. MaxNesting :
                     /\ \A p \in LoopTrees[d] : WalkTo[d][p] \in [Reports -> Reports]
                     /\ \A p \in LoopTrees[d] : \A rep \in Reports :
                          JudgedBy(rep, UnrolledTo[d][p], WalkTo[d][p][rep])}
  <1>1. ASSUME NEW d \in 0 .. MaxNesting, d # 0 => d - 1 \in P PROVE d \in P
    <2>1. ASSUME NEW p \in LoopTrees[d]
          PROVE  /\ WalkTo[d][p] \in [Reports -> Reports]
                 /\ \A rep \in Reports : JudgedBy(rep, UnrolledTo[d][p], WalkTo[d][p][rep])
      <3>1. PICK below : below = IF d = 0 THEN <<>> ELSE WalkTo[d - 1]
        OBVIOUS
      <3>2. PICK n \in Nat : n = Len(p)
        BY LoopNodeIs
      <3>3. WalkTo[d] = WalkLevel(d, below)
        BY <3>1, WalkIs, Zenon
      <3>4. PICK steps : steps = [k \in 1 .. n |-> [r \in Reports |-> WalkNode(r, p[k], below)]]
        OBVIOUS
      <3>5. WalkTo[d][p] = [rep \in Reports |-> InTurn(steps, rep)]
        BY <3>2, <3>3, <3>4, Zenon DEF WalkLevel
      <3>6. \A k \in 1 .. n : LeavesOf(p[k], Under(d)) \in Seq(Inst)
        <4>1. d # 0 => d - 1 \in 0 .. MaxNesting
          BY MachineAssumption
        <4>2. d # 0 => \A b \in LoopTrees[d - 1] : UnrolledTo[d - 1][b] \in Seq(Inst)
          BY <4>1, UnrolledTyped
        <4> QED
          BY <3>2, <4>2, LeavesTyped
      <3>7. PICK parts \in [1 .. n -> Seq(Inst)] : parts = PartsOf(p, d)
        BY <3>2, <3>6 DEF PartsOf
      <3>8. ASSUME NEW k \in 1 .. n, NEW r \in Reports PROVE JudgedBy(r, parts[k], WalkNode(r, p[k], below))
        <4>1. parts[k] = LeavesOf(p[k], Under(d))
          BY <3>2, <3>7, Zenon DEF PartsOf
        <4>2. CASE p[k].kind = "inst" /\ p[k].inst \in Inst
          <5>1. PICK i \in Inst : i = p[k].inst
            BY <4>2
          <5>2. parts[k] = <<i>> /\ WalkNode(r, p[k], below) = Judge(r, i)
            BY <4>1, <4>2, <5>1 DEF WalkNode, LeavesOf
          <5> QED
            BY <5>2, JudgedOne
        <4>3. CASE /\ p[k].kind = "rep" /\ p[k].count \in Nat /\ d # 0 /\ d - 1 \in 0 .. MaxNesting
                   /\ p[k].body \in LoopTrees[d - 1]
          <5>1. PICK c \in Nat : c = p[k].count
            BY <4>3
          <5>2. PICK b \in LoopTrees[d - 1] : b = p[k].body
            BY <4>3
          <5>3. PICK x \in Seq(Inst) : x = UnrolledTo[d - 1][b]
            BY <4>3, UnrolledTyped
          <5>4. PICK w \in [Reports -> Reports] : w = WalkTo[d - 1][b]
            BY <1>1, <4>3
          <5>5. \A q \in Reports : JudgedBy(q, x, w[q])
            BY <1>1, <4>3, <5>3, <5>4
          <5>6. PICK turns \in [1 .. c -> [Reports -> Reports]] : turns = [j \in 1 .. c |-> w]
            OBVIOUS
          <5>7. PICK copies \in [1 .. c -> Seq(Inst)] : copies = [j \in 1 .. c |-> x]
            OBVIOUS
          <5>8. \A j \in 1 .. c : \A q \in Reports : JudgedBy(q, copies[j], turns[j][q])
            BY <5>5, <5>6, <5>7
          <5>9. JudgedBy(r, Lists!FlattenSeq(copies), InTurn(turns, r))
            BY <5>8, TurnsJudge
          <5>10. WalkNode(r, p[k], below) = InTurn(turns, r)
            BY <3>1, <4>3, <5>1, <5>2, <5>4, <5>6 DEF WalkNode
          <5>11. parts[k] = Lists!FlattenSeq(copies)
            BY <4>1, <4>3, <5>1, <5>2, <5>3, <5>7 DEF LeavesOf, Under
          <5> QED
            BY <5>9, <5>10, <5>11
        <4> QED
          BY <3>2, <4>2, <4>3, LoopNodeIs
      <3>9. steps \in [1 .. n -> [Reports -> Reports]] /\ \A k \in 1 .. n : \A r \in Reports : JudgedBy(r, parts[k], steps[k][r])
        <4>1. \A k \in 1 .. n : \A r \in Reports : steps[k][r] = WalkNode(r, p[k], below)
          BY <3>4
        <4>2. \A k \in 1 .. n : \A r \in Reports : WalkNode(r, p[k], below) \in Reports
          <5>1. \A k \in 1 .. n : parts[k] \in Seq(Inst)
            OBVIOUS
          <5> QED
            BY <3>8, <5>1, JudgedTyped
        <4>3. steps \in [1 .. n -> [Reports -> Reports]]
          BY <3>4, <4>2
        <4> QED
          BY <3>8, <4>1, <4>3
      <3>10. \A rep \in Reports : JudgedBy(rep, Lists!FlattenSeq(parts), InTurn(steps, rep))
        BY <3>9, TurnsJudge
      <3>11. PICK y \in Seq(Inst) : y = UnrolledTo[d][p] /\ y = Lists!FlattenSeq(parts)
        BY <3>7, UnrolledTyped
      <3>12. \A rep \in Reports : InTurn(steps, rep) \in Reports
        BY <3>10, <3>11, JudgedTyped
      <3> QED
        BY <3>5, <3>10, <3>11, <3>12
    <2> QED
      BY <2>1
  <1>2. 0 \in P
    <2>1. 0 \in 0 .. MaxNesting
      BY MachineAssumption
    <2> HIDE DEF P
    <2> QED
      BY <1>1, <2>1
  <1>3. ASSUME NEW d \in 1 .. MaxNesting, d - 1 \in P PROVE d \in P
    <2>1. d \in 0 .. MaxNesting
      BY MachineAssumption
    <2> HIDE DEF P
    <2> QED
      BY <1>1, <1>3, <2>1
  <1>4. \A d \in 1 .. MaxNesting : d - 1 \in P => d \in P
    BY <1>3
  <1> HIDE DEF P
  <1>5. \A d \in 0 .. MaxNesting : d \in P
    BY <1>2, <1>4, UpTo, MachineAssumption
  <1> QED
    BY <1>5 DEF P

(* Facts of the library on sizes, said of this module's operators. *)
LEMMA SizeIs ==
  \A S : (Sizes!IsFiniteSet(S) <=> IsFiniteSet(S)) /\ Sizes!Cardinality(S) = Cardinality(S)
  <1>1. \A S : Sizes!IsFiniteSet(S) <=> IsFiniteSet(S)
    BY DEF Sizes!IsFiniteSet, IsFiniteSet
  <1>2. \A S : Sizes!Cardinality(S) = Cardinality(S)
    BY Zenon DEF Sizes!Cardinality, Cardinality
  <1> QED
    BY <1>1, <1>2

LEMMA SizeFacts ==
  /\ IsFiniteSet({}) /\ Cardinality({}) = 0
  /\ \A S : IsFiniteSet(S) => Cardinality(S) \in Nat
  /\ \A S, x : IsFiniteSet(S) /\ x \notin S =>
                IsFiniteSet(S \union {x}) /\ Cardinality(S \union {x}) = Cardinality(S) + 1
  <1>1. IsFiniteSet({}) /\ Cardinality({}) = 0
    BY Sizes!FS_EmptySet, SizeIs
  <1>2. ASSUME NEW S, IsFiniteSet(S) PROVE Cardinality(S) \in Nat
    <2>1. Sizes!IsFiniteSet(S)
      BY <1>2, SizeIs
    <2>2. Sizes!Cardinality(S) \in Nat
      BY <2>1, Sizes!FS_CardinalityType
    <2> QED
      BY <2>2, SizeIs
  <1>3. ASSUME NEW S, NEW x, IsFiniteSet(S), x \notin S
        PROVE  IsFiniteSet(S \union {x}) /\ Cardinality(S \union {x}) = Cardinality(S) + 1
    <2>1. Sizes!IsFiniteSet(S)
      BY <1>3, SizeIs
    <2>2. /\ Sizes!IsFiniteSet(S \union {x})
          /\ Sizes!Cardinality(S \union {x}) = IF x \in S THEN Sizes!Cardinality(S) ELSE Sizes!Cardinality(S) + 1
      BY <2>1, Sizes!FS_AddElement
    <2>3. Sizes!Cardinality(S \union {x}) = Sizes!Cardinality(S) + 1
      BY <1>3, <2>2
    <2> QED
      BY <2>2, <2>3, SizeIs
  <1> QED
    BY <1>1, <1>2, <1>3

BlockedIn(t, k) == {j \in 1 .. k : ~Invertible(t[j])}
Places(violations) == {v[1] + 1 : v \in violations}

(* What a report says of the leaves judged for it. *)
LEMMA ReportIs ==
  ASSUME NEW t \in Seq(Inst), NEW end, JudgedBy(EmptyReport, t, end)
  PROVE  /\ end.total = Len(t)
         /\ Places(end.violations) = BlockedIn(t, Len(t))
         /\ end.invertible = Len(t) - Cardinality(BlockedIn(t, Len(t)))
  <1>1. PICK n \in Nat : n = Len(t)
    OBVIOUS
  <1>2. PICK g : /\ g \in [0 .. n -> Reports] /\ g[0] = EmptyReport /\ end = g[n]
                 /\ \A k \in 1 .. n : g[k] = Judge(g[k - 1], t[k])
    BY <1>1 DEF JudgedBy
  <1> DEFINE P == {k \in 0 .. n :
                     /\ g[k].total = k /\ Places(g[k].violations) = BlockedIn(t, k)
                     /\ IsFiniteSet(BlockedIn(t, k))
                     /\ g[k].invertible + Cardinality(BlockedIn(t, k)) = k}
  <1>3. 0 \in P
    <2>1. BlockedIn(t, 0) = {}
      BY DEF BlockedIn
    <2>2. g[0].total = 0 /\ g[0].invertible = 0 /\ g[0].violations = {}
      BY <1>2 DEF EmptyReport
    <2>3. Places({}) = {}
      BY DEF Places
    <2>4. IsFiniteSet({}) /\ Cardinality({}) = 0
      BY SizeFacts
    <2>5. Places(g[0].violations) = BlockedIn(t, 0)
      BY <2>1, <2>2, <2>3
    <2>6. g[0].invertible + Cardinality(BlockedIn(t, 0)) = 0 /\ IsFiniteSet(BlockedIn(t, 0))
      <3>1. Cardinality(BlockedIn(t, 0)) = 0 /\ IsFiniteSet(BlockedIn(t, 0))
        BY <2>1, <2>4, Zenon
      <3>2. 0 + 0 = 0
        OBVIOUS
      <3> QED
        BY <2>2, <3>1, <3>2, Zenon
    <2>7. 0 \in 0 .. n
      OBVIOUS
    <2> QED
      BY <2>2, <2>5, <2>6, <2>7, Zenon
  <1>4. ASSUME NEW k \in 1 .. n, k - 1 \in P PROVE k \in P
    <2>1. k - 1 \in 0 .. n /\ k \in 0 .. n
      OBVIOUS
    <2>2. PICK rep \in Reports : rep = g[k - 1]
      BY <1>2, <2>1
    <2>3. PICK i \in Inst : i = t[k]
      BY <1>1
    <2>4. PICK new \in Reports : new = Judge(rep, i)
      BY JudgeIs
    <2>5. g[k] = new
      BY <1>2, <2>2, <2>3, <2>4
    <2>6. PICK B : B = BlockedIn(t, k - 1)
      OBVIOUS
    <2>7. /\ rep.total = k - 1 /\ Places(rep.violations) = B /\ IsFiniteSet(B)
          /\ rep.invertible + Cardinality(B) = k - 1
      BY <1>4, <2>2, <2>6
    <2>8. Cardinality(B) \in Nat
      BY <2>7, SizeFacts
    <2>9. rep.invertible \in Nat
      BY DEF Reports
    <2>10. new.total = k
      BY <2>4, <2>7, JudgeIs
    <2>11. CASE Invertible(i)
      <3>1. BlockedIn(t, k) = B
        <4>1. \A j \in 1 .. k : j = k \/ j \in 1 .. k - 1
          OBVIOUS
        <4> QED
          BY <2>3, <2>6, <2>11, <4>1 DEF BlockedIn
      <3>2. new.violations = rep.violations /\ new.invertible = rep.invertible + 1
        BY <2>4, <2>11, JudgeIs
      <3>3. new.invertible + Cardinality(B) = k
        BY <2>7, <2>8, <2>9, <3>2
      <3> QED
        BY <2>1, <2>5, <2>7, <2>10, <3>1, <3>2, <3>3
    <2>12. CASE ~Invertible(i)
      <3>1. BlockedIn(t, k) = B \union {k}
        <4>1. \A j \in 1 .. k : j = k \/ j \in 1 .. k - 1
          OBVIOUS
        <4>2. \A j \in 1 .. k - 1 : j \in 1 .. k
          OBVIOUS
        <4> QED
          BY <2>3, <2>6, <2>12, <4>1, <4>2 DEF BlockedIn
      <3>2. k \notin B
        BY <2>6 DEF BlockedIn
      <3>3. IsFiniteSet(B \union {k}) /\ Cardinality(B \union {k}) = Cardinality(B) + 1
        BY <2>7, <3>2, SizeFacts
      <3>4. PICK kind \in {"alias", "boundary"} :
              new.violations = rep.violations \union {<<k - 1, kind>>} /\ new.invertible = rep.invertible
        BY <2>4, <2>7, <2>12, JudgeIs
      <3>5. Places(new.violations) = B \union {k}
        <4>1. PICK e : e = <<k - 1, kind>>
          OBVIOUS
        <4>2. e[1] + 1 = k
          BY <4>1
        <4>3. Places(rep.violations \union {e}) = Places(rep.violations) \union {e[1] + 1}
          BY DEF Places
        <4> QED
          BY <2>7, <3>4, <4>1, <4>2, <4>3
      <3>6. new.invertible + Cardinality(B \union {k}) = k
        BY <2>7, <2>8, <2>9, <3>3, <3>4, SMTT(30)
      <3> QED
        BY <2>1, <2>5, <2>10, <3>1, <3>3, <3>5, <3>6
    <2> QED
      BY <2>11, <2>12
  <1> HIDE DEF P
  <1>5. \A k \in 0 .. n : k \in P
    BY <1>3, <1>4, UpTo
  <1>6. /\ end.total = n /\ Places(end.violations) = BlockedIn(t, n)
        /\ IsFiniteSet(BlockedIn(t, n)) /\ end.invertible + Cardinality(BlockedIn(t, n)) = n
    <2>1. n \in P
      BY <1>5
    <2> QED
      BY <1>2, <2>1 DEF P
  <1>7. Cardinality(BlockedIn(t, n)) \in Nat
    BY <1>6, SizeFacts
  <1>8. end.invertible \in Nat
    BY <1>1, JudgedTyped DEF Reports
  <1>9. end.invertible = n - Cardinality(BlockedIn(t, n))
    BY <1>6, <1>7, <1>8
  <1> QED
    BY <1>1, <1>6, <1>9

(* Every walk of the machine agrees on what a program unrolls to, for every   *)
(* program: count_leaves, the static check, leaf_at and the length of the     *)
(* reversible suffix (machine.rs lines 11-22, 203-212, 240-242, lib.rs 78-140). *)
THEOREM WalksDoAgree == MachineSpec => []WalksAgree
  <1>1. MachineInv => WalksAgree
    <2> SUFFICES ASSUME MachineInv, call = Free PROVE WalksAgree
      BY DEF WalksAgree
    <2>1. MachineTyped /\ LeftBehind
      BY DEF MachineInv
    <2>2. PICK t \in Seq(Inst) : t = Leaves
      BY <2>1, LeavesTypes
    <2>3. PICK d \in 0 .. MaxNesting : d = Depth(prog)
      BY <2>1, LeavesTypes
    <2>4. prog \in LoopTrees[d] /\ t = UnrolledTo[d][prog]
      BY <2>1, <2>2, <2>3, DepthIs DEF Leaves, MachineTyped
    <2>5. CountLeaves = Len(Leaves)
      BY <2>2, <2>3, <2>4, CountsAgree DEF CountLeaves
    <2>6. EmptyReport \in Reports
      BY DEF EmptyReport, Reports
    <2>7. JudgedBy(EmptyReport, t, Check)
      BY <2>3, <2>4, <2>6, WalksJudge DEF Check
    <2>8. Blocked = BlockedIn(t, Len(t))
      BY <2>2 DEF Blocked, BlockedIn
    <2>9. /\ Check.total = Len(t) /\ Places(Check.violations) = Blocked
          /\ Check.invertible = Len(t) - Cardinality(Blocked)
      BY <2>7, <2>8, ReportIs
    <2>10. {v[1] + 1 : v \in Check.violations} = Blocked
      BY <2>9 DEF Places
    <2>11. /\ ended.call.name = "suffix" => ended.done = Undoable
           /\ ended.call.name = "leaf" =>
                ended.found = IF ended.call.n < Len(Leaves) THEN Leaves[ended.call.n + 1] ELSE "none"
      BY <2>1 DEF LeftBehind
    <2> QED
      BY <2>2, <2>5, <2>9, <2>10, <2>11, Zenon DEF WalksAgree
  <1> QED
    BY <1>1, MachineInvHolds, PTL
=============================================================================
