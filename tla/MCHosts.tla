------------------------------ MODULE MCHosts -------------------------------
(***************************************************************************)
(* The programs that call the machine and the arena, each run on its own:  *)
(* they share the instruction set and the arena, and no state.             *)
(***************************************************************************)
EXTENDS RollbackNetcode, Etl, BatchTx, ArenaClient, Capsule, CommandLine, Kernels, MCPhase

VARIABLE program

hostVars == <<program, vars, etlVars, bankVars, clientVars, moveVars, imageVars,
              cliVars, formulaVars, cipherVars, synthVars>>

HostsInit ==
  /\ program \in {"netcode", "etl", "bank", "arena", "capsule", "image", "cli",
                  "formula", "cipher", "synth"}
  /\ Init /\ (program = "netcode" \/ truth = [t \in Tick |-> NoInput])
  /\ EtlStart(program = "etl") /\ BankStart(program = "bank") /\ ClientStart
  /\ MoveStart(program = "capsule") /\ ImageStart(program = "image")
  /\ CliStart(program = "cli") /\ FormulaStart(program = "formula")
  /\ CipherStart(program = "cipher") /\ SynthStart(program = "synth")

NetcodeRuns ==
  /\ program = "netcode" /\ Next
  /\ UNCHANGED <<program, etlVars, bankVars, clientVars, moveVars, imageVars,
                 cliVars, formulaVars, cipherVars, synthVars>>
EtlRuns ==
  /\ program = "etl" /\ EtlNext
  /\ UNCHANGED <<program, vars, bankVars, clientVars, moveVars, imageVars,
                 cliVars, formulaVars, cipherVars, synthVars>>
BankRuns ==
  /\ program = "bank" /\ BankNext
  /\ UNCHANGED <<program, vars, etlVars, clientVars, moveVars, imageVars,
                 cliVars, formulaVars, cipherVars, synthVars>>
ClientRuns ==
  /\ program = "arena" /\ ClientNext
  /\ UNCHANGED <<program, vars, etlVars, bankVars, moveVars, imageVars,
                 cliVars, formulaVars, cipherVars, synthVars>>
CapsuleRuns ==
  /\ program = "capsule" /\ MoveNext
  /\ UNCHANGED <<program, vars, etlVars, bankVars, clientVars, imageVars,
                 cliVars, formulaVars, cipherVars, synthVars>>
ImageRuns ==
  /\ program = "image" /\ ImageNext
  /\ UNCHANGED <<program, vars, etlVars, bankVars, clientVars, moveVars,
                 cliVars, formulaVars, cipherVars, synthVars>>
CliRuns ==
  /\ program = "cli" /\ CliNext
  /\ UNCHANGED <<program, vars, etlVars, bankVars, clientVars, moveVars,
                 imageVars, formulaVars, cipherVars, synthVars>>
FormulaRuns ==
  /\ program = "formula" /\ FormulaNext
  /\ UNCHANGED <<program, vars, etlVars, bankVars, clientVars, moveVars,
                 imageVars, cliVars, cipherVars, synthVars>>
CipherRuns ==
  /\ program = "cipher" /\ CipherNext
  /\ UNCHANGED <<program, vars, etlVars, bankVars, clientVars, moveVars,
                 imageVars, cliVars, formulaVars, synthVars>>
SynthRuns ==
  /\ program = "synth" /\ SynthNext
  /\ UNCHANGED <<program, vars, etlVars, bankVars, clientVars, moveVars,
                 imageVars, cliVars, formulaVars, cipherVars>>

HostsNext ==
  NetcodeRuns \/ EtlRuns \/ BankRuns \/ ClientRuns \/ CapsuleRuns \/ ImageRuns \/ CliRuns
  \/ FormulaRuns \/ CipherRuns \/ SynthRuns

(* The server of the netcode runs on. *)
HostsSpec == HostsInit /\ [][HostsNext]_hostVars /\ WF_hostVars(NetcodeRuns)

-----------------------------------------------------------------------------
(* Words of six bits. Netcode of two entities and three ticks, inputs up to   *)
(* two ticks late. Two columns and files of up to three lines, good,      *)
(* short, with a bad field before or after a good one, with a bad id and with *)
(* an id seen before; a value whose distance to its target has no abs. Three  *)
(* transfers between three accounts, so that a batch can overdraw an account  *)
(* and fill it again. Programs of up to two leaves of a pool with aliased     *)
(* operands, boundaries and an even factor. Formulas of up to three links; up *)
(* to two rounds of the cipher; searches for swaps, sums, the identity and    *)
(* tasks that nothing fulfils.                                               *)
MCPow2Six == [k \in 0 .. 6 |-> 2^k]

MCInputs  == {-1, 0}

MCTargets == <<3, 5>>
MCDeltaA  == <<1, -1>>
MCDeltaB  == <<-1, 2>>

Line(id, x, y) == [id |-> id, fields |-> <<x, y>>]
Lines ==
  {Line(1, 3, 6), Line(1, 2, 5), Line(2, 6, 5), Line(2, 2, -1), Line(3, -1, 5),
   Line(-1, 4, 7), Line(-1, 3, 4), Line(4, 35, 5), [id |-> 5, fields |-> <<3>>]}
MCCsvs == UNION {[1 .. n -> Lines] : n \in 0 .. 3}

MCOpenings == {[a \in 0 .. 2 |-> 5], [a \in 0 .. 2 |-> IF a = 0 THEN 9 ELSE 2 * a]}

MCBody == <<Leaf("add", 0, 1), I("rotl", 1, 0, 0, 3), Leaf("xor", 1, 0), Leaf("swp", 0, 1)>>
MCBoundaries ==
  {[regs |-> [r \in 0 .. 1 |-> IF r = 0 THEN x ELSE y], mem |-> [m \in 0 .. 1 |-> m * z]] :
     x, y \in {0, 7, 19}, z \in {0, 1}}

MCImages == {<<<<1, 2, 3>>, <<31, 0, 9>>>>, <<<<0, 0, 0>>>>}

Pool ==
  {I("set", 0, 0, 0, 4), I("mset", 1, 0, 0, 9), Leaf("add", 0, 1), Leaf("xor", 0, 0),
   Leaf("madd", 1, 0), Leaf("rmsub", 0, 1), Leaf("swp", 0, 1), I("mulc", 0, 0, 0, 3),
   I("mulc", 0, 0, 0, 6), I("rotl", 1, 0, 0, 7), I("not", 1, 0, 0, 0)}
MCCliPrograms == UNION {[1 .. n -> Pool] : n \in 0 .. 2}

Set(r, v) == [reg |-> r, val |-> v]
MCSetArgs == {<<>>, <<Set(0, 21), Set(1, 1)>>, <<Set(1, 2), Set(0, 5), Set(1, 0)>>,
              <<Set(4, 6)>>, <<Set(2, 1)>>}
MCRandomStates ==
  {[regs |-> [r \in 0 .. 1 |-> IF r = 0 THEN x ELSE y],
    mem  |-> [m \in 0 .. 1 |-> IF m = 0 THEN 30 ELSE 5]] : x \in {0, 13}, y \in {0, 1, 2}}

FormulaOps ==
  {[op |-> o, k |-> k] : o \in {"add", "xor"}, k \in {0, 1, 45}}
    \union {[op |-> "rotl", k |-> k] : k \in {0, 1, 5, 9}} \union {[op |-> "mulodd", k |-> k] : k \in {1, 3, 61}}
MCSixteen == 0 .. 15
MCFormulas == UNION {[1 .. n -> FormulaOps] : n \in 0 .. 3}

Four(x, y, z, w) == [k \in 0 .. 3 |-> <<x, y, z, w>>[k + 1]]
MCPlains == {Four(0, 0, 0, 0), Four(1, 2, 3, 4), Four(63, 17, 0, 32)}
MCKeys   == {Four(0, 0, 0, 0), Four(9, 63, 2, 31)}

Two(x, y) == [r \in 0 .. 1 |-> IF r = 0 THEN x ELSE y]
Sampled(F(_, _), pairs) == [n \in DOMAIN pairs |->
  [inp |-> Two(pairs[n][1], pairs[n][2]), want |-> F(pairs[n][1], pairs[n][2])]]
Pairs == {<<<<1, 2>>, <<7, 3>>>>, <<<<0, 9>>, <<5, 5>>, <<62, 1>>>>, <<<<4, 0>>>>}
MCTasks ==
  UNION {{Sampled(LAMBDA x, y : Two(y, x), p), Sampled(LAMBDA x, y : Two(x, y), p),
          Sampled(LAMBDA x, y : Two(WrapAdd(x, y), BitNot(y)), p),
          Sampled(LAMBDA x, y : Two(WrapAdd(WrapAdd(x, y), y), MCXor(y, WrapAdd(x, y))), p),
          Sampled(LAMBDA x, y : Two(WrapMul(x, y), 17), p)} : p \in Pairs}
=============================================================================
