----------------------------- MODULE MCReversal -----------------------------
(***************************************************************************)
(* The three ways the repository has of taking a program back, each on its *)
(* own: step by step in the debugger of main.rs, with a journal of         *)
(* decisions in ctl.rs, and by streaming the leaves in machine.rs. They    *)
(* share the instruction set and no state.                                 *)
(***************************************************************************)
EXTENDS DebuggerHistory, DecisionJournal, Machine, MCPhase

VARIABLE layer

reversalVars == <<layer, histVars, ctlVars, machineVars>>

ReversalInit ==
  /\ layer \in {"debugger", "journal", "machine"}
  /\ HInit /\ (layer = "debugger" \/ leaves = <<>>)
  /\ CtlInit /\ (layer = "journal" \/ machine.regs[0] = 0)
  /\ MachineInit /\ (layer = "machine" \/ (prog = <<>> /\ ~debug))

DebuggerStep == layer = "debugger" /\ UNCHANGED <<layer, ctlVars, machineVars>>
JournalStep  == layer = "journal" /\ UNCHANGED <<layer, histVars, machineVars>>
MachineStep  == layer = "machine" /\ UNCHANGED <<layer, histVars, ctlVars>>

ReversalNext ==
  \/ DebuggerStep /\ HNext
  \/ JournalStep /\ CtlNext
  \/ MachineStep /\ MachineNext

(* A command of the debugger and a call of the machine run on once they have *)
(* started.                                                                  *)
ReversalSpec ==
  /\ ReversalInit /\ [][ReversalNext]_reversalVars
  /\ WF_reversalVars(DebuggerStep /\ Loop /\ Record)
  /\ WF_reversalVars(MachineStep /\ Turn)

-----------------------------------------------------------------------------
(* Words of two bits, registers r0, r1 and r2 and a memory of two words; r0   *)
(* and r1 also serve as addresses, so they leave the memory's range.          *)
MCPow2Two == [k \in 0 .. 2 |-> MCPow2[k]]

(* Debugger: every program of up to two leaves over a pool with at least one  *)
(* instruction of each kind.                                                 *)
DebuggerPool ==
  {I("not", 0, 0, 0, 0), I("inc", 0, 0, 0, 0), I("xor", 1, 0, 0, 0),
   I("sub", 0, 2, 0, 0), I("swp", 0, 1, 0, 0), I("rotl", 2, 0, 0, 1),
   I("mulc", 1, 0, 0, 3), I("toff", 0, 1, 2, 0), I("cswp", 0, 1, 2, 0),
   I("set", 1, 0, 0, 2), I("madd", 0, 1, 0, 0), I("mxor", 1, 2, 0, 0),
   I("rmadd", 1, 0, 0, 0), I("rmsub", 2, 1, 0, 0), I("mset", 1, 0, 0, 3),
   I("add", 1, 1, 0, 0), I("rmadd", 0, 0, 0, 0)}
DebuggerPrograms == UNION {[1 .. n -> DebuggerPool] : n \in 0 .. 2}
DebuggerStart ==
  {[regs |-> [r \in Reg |-> (r + 1) % 4], mem |-> [m \in Addr |-> (2 * m + 1) % 4]]}

(* Journal: two nested blocks around two leaves, blocks of all three kinds,   *)
(* and programs of other shapes. dec r0 ends a loop on r0.                    *)
Blocks(body) == {Rep(2, body), Ifnz(0, body), Wz(0, body)}
Nested ==
  UNION {Blocks(<<inner, y>>) :
           inner \in UNION {Blocks(<<x>>) : x \in {L("dec", 0, 0), L("add", 1, 0), L("rmadd", 2, 0)}},
           y \in {L("dec", 0, 0), L("swp", 0, 1)}}
Others ==
  {<<L("set", 1, 0)>>, <<Ifnz(0, <<L("set", 1, 0)>>), L("inc", 2, 0)>>,
   <<Ifnz(0, <<L("inc", 1, 0)>>), Ifnz(2, <<L("inc", 1, 0)>>)>>,
   <<Ifnz(2, <<Ifnz(0, <<L("inc", 1, 0)>>), L("not", 1, 0)>>), Rep(0, <<L("set", 0, 0)>>)>>,
   <<Wz(0, <<L("add", 1, 2), L("dec", 0, 0)>>), L("inc", 2, 0)>>,
   <<L("add", 0, 0)>>, <<Ifnz(1, <<L("xor", 2, 2), L("inc", 1, 0)>>)>>}
JournalPrograms == {<<b>> : b \in Nested} \union Others
JournalStart ==
  {[regs |-> f, mem |-> [m \in Addr |-> 2]] :
     f \in {g \in [Reg -> Word] : g[0] \in {0, 1, 2} /\ g[1] = 1 /\ g[2] = 1}}

(* Machine: loops of count 0, 1, 2 and 3 with empty and other bodies inside a  *)
(* loop, followed by a leaf; boundaries, an even factor and aliased leaves at  *)
(* every place.                                                              *)
Plain    == {L("inc", 0, 0), L("rmadd", 1, 0)}
LeafPool ==
  Plain \union {L("set", 0, 0), L("add", 1, 1), [kind |-> "inst", inst |-> I("mulc", 1, 0, 0, 2)]}
Inner    ==
  {Rep(c, body) : c \in {0, 3}, body \in {<<>>, <<L("inc", 0, 0)>>, <<L("swp", 0, 1), L("rmadd", 1, 0)>>}}
MachinePrograms ==
  {<<Rep(2, <<y, z>>), x>> :
      y \in Inner, z \in {Rep(1, <<L("inc", 0, 0)>>)} \union LeafPool,
      x \in Plain \union {L("set", 0, 0)}}
  \union {<<x, y>> : x \in LeafPool, y \in LeafPool \union Inner}
  \union {<<>>}
MachineStart == {[regs |-> [r \in Reg |-> r % 2], mem |-> [m \in Addr |-> 1]]}
=============================================================================
