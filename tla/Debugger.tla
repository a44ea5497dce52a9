------------------------------ MODULE Debugger ------------------------------
(***************************************************************************)
(* The interactive debugger of src/src/main.rs (struct Dbg, cmd_dbg): a    *)
(* program counter over the unrolled leaves of a program, stepped forward  *)
(* by executing leaves and backward by executing their inverses. No        *)
(* snapshot and no log is kept.                                            *)
(*                                                                         *)
(* A command read at the prompt (f, b, c, g) starts a loop; one loop       *)
(* iteration is one action, so a command that is refused or faults half    *)
(* way is seen where it stopped.                                           *)
(***************************************************************************)
EXTENDS PhaseInst, Sequences

CONSTANTS Programs,     \* leaf sequences offered to the debugger
          StartStates,  \* initial register files and memories
          Counts,       \* arguments N of the commands f, b and g
          BreakPos      \* positions a breakpoint may be set at

ASSUME DebuggerAssumption ==
  /\ Programs \subseteq Seq(Inst)
  /\ StartStates \subseteq State
  /\ Counts \subseteq Nat
  /\ BreakPos \subseteq Nat

VARIABLES leaves,   \* the unrolled program
          pos,      \* number of executed leaves
          s,        \* the machine state
          breaks,   \* breakpoints
          cmd,      \* the command being carried out
          out       \* how the last command ended

vars == <<leaves, pos, s, breaks, cmd, out>>

Total == Len(leaves)
Idle  == [name |-> "idle", left |-> 0]
Outcomes == {"ok", "fault", "boundary", "backfault"}

(* cmd_dbg refuses a program with an aliased leaf; boundaries are accepted. *)
Accepts(prog) == \A k \in 1 .. Len(prog) : ~OperandAlias(prog[k])

Init ==
  /\ leaves \in {p \in Programs : Accepts(p)}
  /\ s \in StartStates
  /\ pos = 0
  /\ breaks = {}
  /\ cmd = Idle
  /\ out = "ok"

-----------------------------------------------------------------------------
(* The prompt. *)

Start(name, n) ==
  /\ cmd = Idle
  /\ cmd' = [name |-> name, left |-> n]
  /\ UNCHANGED <<leaves, pos, s, breaks, out>>

ForwardCmd(n) == Start("fwd", n)
BackCmd(n)    == Start("back", n)
ContCmd       == Start("cont", 0)

(* goto: a run of forward or of backward steps; at the target already, none. *)
GotoCmd(target) ==
  \/ target > pos /\ Start("fwd", target - pos)
  \/ target < pos /\ Start("back", pos - target)

SetBreak(v) ==
  /\ cmd = Idle
  /\ breaks' = breaks \union {v}
  /\ UNCHANGED <<leaves, pos, s, cmd, out>>

ClearBreak(v) ==
  /\ cmd = Idle
  /\ breaks' = breaks \ {v}
  /\ UNCHANGED <<leaves, pos, s, cmd, out>>

-----------------------------------------------------------------------------
(* The loops. *)

(* Mutant: the loop does not break on an error. *)
FinishMutant(outcome) ==
  /\ cmd' = IF outcome = "ok" THEN Idle ELSE cmd
  /\ out' = outcome
  /\ UNCHANGED <<leaves, pos, s, breaks>>

(* The command is over and the prompt comes back. *)
Finish(outcome) ==
  /\ cmd' = Idle
  /\ out' = outcome
  /\ UNCHANGED <<leaves, pos, s, breaks>>

(* Mutant: a leaf that faults is skipped. *)
AdvanceMutant ==
  LET leaf == leaves[pos + 1]
  IN  /\ s' = IF InRange(s, leaf) THEN Exec(s, leaf) ELSE s
      /\ pos' = pos + 1
      /\ cmd' = IF cmd.name = "fwd" THEN [cmd EXCEPT !.left = @ - 1] ELSE cmd
      /\ UNCHANGED <<leaves, breaks, out>>

(* Execute the leaf at pos, or stop on its range error. *)
Advance ==
  LET leaf == leaves[pos + 1]
  IN  \/ /\ InRange(s, leaf)
         /\ s' = Exec(s, leaf)
         /\ pos' = pos + 1
         /\ cmd' = IF cmd.name = "fwd" THEN [cmd EXCEPT !.left = @ - 1] ELSE cmd
         /\ UNCHANGED <<leaves, breaks, out>>
      \/ ~InRange(s, leaf) /\ Finish("fault")

StepForward ==
  /\ cmd.name = "fwd"
  /\ \/ (cmd.left = 0 \/ pos >= Total) /\ Finish("ok")
     \/ cmd.left > 0 /\ pos < Total /\ Advance

(* continue stops before the leaf a breakpoint stands at. *)
Continue ==
  /\ cmd.name = "cont"
  /\ \/ (pos \in breaks \/ pos >= Total) /\ Finish("ok")
     \/ pos \notin breaks /\ pos < Total /\ Advance

(* Mutant: the leaf itself is executed again. *)
RetreatMutant ==
  LET leaf == leaves[pos]
  IN  \/ ~Invertible(leaf) /\ Finish("boundary")
      \/ Invertible(leaf) /\ ~InRange(s, leaf) /\ Finish("backfault")
      \/ /\ Invertible(leaf)
         /\ InRange(s, leaf)
         /\ s' = Exec(s, leaf)
         /\ pos' = pos - 1
         /\ cmd' = [cmd EXCEPT !.left = @ - 1]
         /\ UNCHANGED <<leaves, breaks, out>>

(* Undo the leaf before pos by executing its inverse; a boundary refuses. *)
Retreat ==
  LET leaf == leaves[pos]
      inv  == Inverse(leaf)
  IN  \/ ~Invertible(leaf) /\ Finish("boundary")
      \/ Invertible(leaf) /\ ~InRange(s, inv) /\ Finish("backfault")
      \/ /\ Invertible(leaf)
         /\ InRange(s, inv)
         /\ s' = Exec(s, inv)
         /\ pos' = pos - 1
         /\ cmd' = [cmd EXCEPT !.left = @ - 1]
         /\ UNCHANGED <<leaves, breaks, out>>

StepBack ==
  /\ cmd.name = "back"
  /\ \/ (cmd.left = 0 \/ pos = 0) /\ Finish("ok")
     \/ cmd.left > 0 /\ pos > 0 /\ Retreat

Loop == StepForward \/ Continue \/ StepBack

Next ==
  \/ \E n \in Counts : ForwardCmd(n) \/ BackCmd(n) \/ GotoCmd(n)
  \/ ContCmd
  \/ \E v \in BreakPos : SetBreak(v) \/ ClearBreak(v)
  \/ Loop

(* A command's loop runs on once started; the user may never type again. *)
Spec == Init /\ [][Next]_vars /\ WF_vars(Loop)

-----------------------------------------------------------------------------
TypeOK ==
  /\ leaves \in Programs
  /\ Accepts(leaves)
  /\ pos \in 0 .. Total
  /\ s \in State
  /\ breaks \subseteq BreakPos
  /\ cmd \in [name : {"idle", "fwd", "back", "cont"}, left : Nat]
  /\ out \in Outcomes

(* The range check of an inverse instruction (main.rs, step_back: "обратный  *)
(* лист") never fires: stepping back over an executed leaf always finds its  *)
(* operands, memory addresses held in registers included, in range.          *)
NoBackFault == out # "backfault"

(* A boundary once executed stays executed: whatever sequence of b and g     *)
(* commands is given, pos never goes back over a set or mset.                *)
BoundaryHolds ==
  [][\A k \in 1 .. pos : IsIrreversible(leaves[k]) => pos' >= k]_vars

(* Every command gives the prompt back. *)
CommandEnds == (cmd # Idle) ~> (cmd = Idle)
=============================================================================
