------------------------------ MODULE MCTexts -------------------------------
(***************************************************************************)
(* The programs that read lines of text, each on its own: the parsers, the *)
(* optimizer, the patcher and the generator of C, which do not run what    *)
(* they read, and the server of the key-value protocol. ctl.rs reads the   *)
(* text that program.rs has read. The functions that are generated are     *)
(* called as well.                                                         *)
(***************************************************************************)
EXTENDS ProgramText, Rewriting, PhaseServer, MCPhase, TLC

VARIABLE tool

toolVars == <<tool, textVars, controlVars, optVars, patchVars, aotVars, vars>>

ToolsInit ==
  /\ tool \in {"parse", "optimize", "patch", "compile", "serve"}
  /\ TextStart(tool = "parse") /\ ControlStart
  /\ OptStart(tool = "optimize") /\ PatchStart(tool = "patch")
  /\ AotStart(tool = "compile") /\ Init

ParseFirst ==
  /\ tool = "parse" /\ TextNext
  /\ UNCHANGED <<tool, controlVars, optVars, patchVars, aotVars, vars>>
ParseAgain ==
  /\ tool = "parse" /\ p_at # "read" /\ ControlNext
  /\ UNCHANGED <<tool, optVars, patchVars, aotVars, vars>>
Optimize ==
  /\ tool = "optimize" /\ Round
  /\ UNCHANGED <<tool, textVars, controlVars, patchVars, aotVars, vars>>
ApplyPatch ==
  /\ tool = "patch" /\ PatchNext
  /\ UNCHANGED <<tool, textVars, controlVars, optVars, aotVars, vars>>
Compile ==
  /\ tool = "compile" /\ AotNext
  /\ UNCHANGED <<tool, textVars, controlVars, optVars, patchVars, vars>>
Serve ==
  /\ tool = "serve" /\ Next
  /\ UNCHANGED <<tool, textVars, controlVars, optVars, patchVars, aotVars>>

ToolsNext == ParseFirst \/ ParseAgain \/ Optimize \/ ApplyPatch \/ Compile \/ Serve

ToolsSpec == ToolsInit /\ [][ToolsNext]_toolVars

-----------------------------------------------------------------------------
(* Two keys and two values are enough for a record to be hidden by a later    *)
(* one of the same key and for a transaction to write both keys.              *)
Symmetry == Permutations(Keys) \union Permutations(Values)

(* Words of four bits; register files of two, and of five, which is more than *)
(* a register byte of two bits can name. Texts of up to four lines of a pool  *)
(* of blocks, ends and leaves, and every instruction on its own with good and *)
(* bad arguments. Programs of up to four instructions, with operands in both  *)
(* orders and aliased, and one whose pairs are hidden under rotations so that *)
(* three rounds are not enough. Files of up to three lines, with and without  *)
(* a last line feed, and diffs of up to two hunks. Kernels of up to three     *)
(* nodes, loops around nothing, no times, and inside each other, with        *)
(* addresses out of range, compiled and called.                              *)
MCPow2Four == [k \in 0 .. 4 |-> 2^k]

Seqs(S, n) == UNION {[1 .. k -> S] : k \in 0 .. n}

A(is, n)     == [is |-> is, n |-> n]
T(w, args)   == [w |-> w, args |-> args]

StructureLines ==
  {T("", <<>>), T("rep", <<A("imm", 3)>>), T("end", <<>>), T("end", <<A("imm", 1)>>),
   T("ifnz", <<A("reg", 1)>>), T("wz", <<A("reg", 0)>>),
   T("rotl", <<A("reg", 1), A("imm", -1)>>), T("swp", <<A("reg", 0), A("reg", 1)>>)}
Tokens  == {A("reg", 1), A("reg", 2), A("reg", 4), A("imm", 9), A("imm", 16), A("bad", 0)}
OneLine ==
  {<<T(w, args)>> : w \in {"nop", "inc", "xor", "rotl", "mset", "set", "rmadd", "frob", "rep", "wz", "end"},
                    args \in Seqs(Tokens, 2)}
    \union {<<T(w, args)>> : w \in TernaryOps \union {"add"}, args \in [1 .. 3 -> Tokens]}
MCTexts == Seqs(StructureLines, 4) \union OneLine

OptPool ==
  {Leaf("add", 0, 1), Leaf("sub", 0, 1), Leaf("add", 1, 0), Leaf("xor", 0, 0), Leaf("swp", 0, 1),
   Leaf("swp", 1, 0), Leaf("madd", 0, 1), Leaf("msub", 0, 1), I("rotl", 0, 0, 0, 1),
   I("rotr", 0, 0, 0, 3), I("rotl", 1, 0, 0, 4), I("mulc", 0, 0, 0, 3), I("mulc", 0, 0, 0, 11)}
Hidden ==
  LET Turned(k) == I("rotl", 0, 0, 0, k)
  IN  <<Leaf("swp", 0, 1), Turned(1), Leaf("inc", 1, 0), Turned(3), Leaf("not", 0, 0),
        Turned(2), Turned(2), Leaf("not", 0, 0), Turned(1), Leaf("dec", 1, 0), Turned(3),
        Leaf("swp", 1, 0)>>
MCOptPrograms == Seqs(OptPool, 3) \union {<<x>> \o q : x \in {Leaf("add", 0, 1), I("rotl", 0, 0, 0, 1)}, q \in [1 .. 3 -> OptPool]} \union {Hidden}
MCOptStates ==
  {[regs |-> [r \in 0 .. 1 |-> IF r = 0 THEN x ELSE y], mem |-> [m \in 0 .. 1 |-> 5 + m]] :
     x \in {0, 1, 9}, y \in {1, 6}}

MCOriginals ==
  {<<"">>, <<"a">>, <<"a", "">>, <<"a", "b">>, <<"a", "b", "">>, <<"a", "a", "b", "">>,
   <<"a", "b", "a">>, <<"b", "", "">>, <<"a", "b", "a", "b", "">>}

D(is, str) == [is |-> is, s |-> str, old |-> 0, cnt |-> 0]
Header(old, cnt) == [is |-> "@@", s |-> "", old |-> old, cnt |-> cnt]
Bodies ==
  {<<D(" ", "a"), D("-", "b")>>, <<D("+", "c"), D(" ", "a")>>, <<D("-", "a")>>,
   <<D("-", "b"), D("+", "c"), D("+", "")>>, <<D("+", "c")>>, <<D(" ", "a"), D("\\", ""), D("+", "b")>>,
   <<D("-", "a"), D("other", ""), D("-", "b")>>}
OldLines(body) == Cardinality({k \in DOMAIN body : body[k].is \in {" ", "-"}})
Hunks ==
  {<<Header(n, OldLines(b))>> \o b : n \in 0 .. 4, b \in Bodies}
    \union {<<Header(1, 2), D("-", "a")>>, <<Header(1, -1), D("-", "a")>>, <<Header(-1, 1), D("-", "a")>>,
            <<D("@@x", ""), D("-", "a")>>}
MCDiffs == {<<>>} \union {<<D("-", "-- a/f"), D("+", "++ b/f")>> \o g : g \in Hunks}
                  \union {g \o h : g \in Hunks, h \in Hunks}

Leaves ==
  {L("add", 0, 1), L("xor", 1, 0), L("swp", 0, 1), L("madd", 1, 0), L("rmsub", 0, 1),
   L("nop", 0, 0), L("set", 1, 0), L("add", 1, 1),
   [kind |-> "inst", inst |-> I("rotl", 0, 0, 0, 5)], [kind |-> "inst", inst |-> I("rotr", 1, 0, 0, 4)],
   [kind |-> "inst", inst |-> I("mulc", 0, 0, 0, 11)]}
Loops ==
  {Rep(n, b) : n \in {0, 3}, b \in {<<>>, <<L("nop", 0, 0)>>, <<L("set", 0, 0)>>}}
    \union {Rep(2, b) : b \in [1 .. 2 -> Leaves]}
    \union {Rep(2, <<x, Rep(3, <<L("add", 1, 0), y>>)>>) : x, y \in Leaves}
MCKernels ==
  Seqs(Leaves, 2) \union {<<x>> : x \in Loops} \union {<<x, y>> : x \in Loops, y \in Leaves}
    \union {<<x, y, z>> : x, z \in {L("add", 0, 1), L("rmadd", 0, 1)}, y \in Loops}
=============================================================================
