------------------------------ MODULE PhaseInst ------------------------------
(***************************************************************************)
(* The instruction set of phase-vm (src/src/inst.rs) over the machine      *)
(* state of src/src/state.rs: a register file and a word-addressed memory. *)
(* Every operator here is pure: what an instruction reads, whether it can  *)
(* run at all (the range checks of Inst::exec), what it writes, which      *)
(* instruction undoes it, and which operand aliasing makes it lossy.       *)
(*                                                                         *)
(* Words are 0 .. Modulus-1 with Modulus = 2^Width (64 bits in the code).  *)
(* Bitwise xor/and are constant operators: TLC gets the real ones from the *)
(* MC modules, the proofs use only the laws assumed of them.               *)
(***************************************************************************)
EXTENDS Integers

CONSTANTS Width,          \* bits of a word
          Pow2,           \* Pow2[k] = 2^k for k in 0 .. Width
          BitXor(_, _),   \* ^ on u64
          BitAnd(_, _),   \* & on u64
          NRegs, NMem     \* sizes of the register file and of the memory

Modulus == Pow2[Width]
Word    == 0 .. Modulus - 1
Reg     == 0 .. NRegs - 1
Addr    == 0 .. NMem - 1
State   == [regs : [Reg -> Word], mem : [Addr -> Word]]

ASSUME SizesAssumption ==
  /\ Width \in 1 .. 64
  /\ NRegs \in Nat \ {0}
  /\ NMem \in Nat

(* The table of powers of two: 2^1 = 2 and 2^(j+k) = 2^j * 2^k. *)
ASSUME Pow2Assumption ==
  /\ Pow2 \in [0 .. Width -> Nat \ {0}]
  /\ Pow2[1] = 2
  /\ \A j, k \in 0 .. Width : j + k <= Width => Pow2[j + k] = Pow2[j] * Pow2[k]

(* Xor and and stay inside the word, and xor with the same word undoes itself. *)
ASSUME BitLaws ==
  \A x, y \in Word :
    /\ BitXor(x, y) \in Word
    /\ BitAnd(x, y) \in Word
    /\ BitXor(BitXor(x, y), y) = x

-----------------------------------------------------------------------------
(* Word arithmetic of the Rust primitives the instructions call. *)

WrapSubMutant(x, y) == x - y      \* mutant: `-` for wrapping_sub

WrapAdd(x, y) == (x + y) % Modulus
WrapSub(x, y) == (x - y) % Modulus
WrapMul(x, y) == (x * y) % Modulus
BitNot(x)     == Modulus - 1 - x

(* The part of x below q moves up by the factor p, the rest comes down. *)
Rotate(x, p, q)   == (x % q) * p + x \div q
RotateLeft(x, k)  == Rotate(x, Pow2[k], Pow2[Width - k])
RotateRight(x, k) == Rotate(x, Pow2[Width - k], Pow2[k])

(* Newton's iteration of pmath::mod_inv_odd, the same six rounds. *)
NewtonStep(a, x) == WrapMul(x, WrapSub(2, WrapMul(a, x)))
ModInvOdd(a) ==
  LET x1 == NewtonStep(a, a)
      x2 == NewtonStep(a, x1)
      x3 == NewtonStep(a, x2)
      x4 == NewtonStep(a, x3)
      x5 == NewtonStep(a, x4)
  IN  NewtonStep(a, x5)

-----------------------------------------------------------------------------
(* Instructions: a mnemonic, up to three operands, an immediate. Operands   *)
(* are register numbers, except that "mset" has its address in a.           *)

UnaryOps   == {"not", "inc", "dec", "rotl", "rotr", "mulc", "set"}
MemDstOps  == {"madd", "msub", "mxor"}     \* mem[r_a] op= r_b
MemSrcOps  == {"rmadd", "rmsub"}           \* r_a op= mem[r_b]
BinaryOps  == {"xor", "add", "sub", "swp"} \union MemDstOps \union MemSrcOps
TernaryOps == {"toff", "cswp"}
Ops        == {"nop", "mset"} \union UnaryOps \union BinaryOps \union TernaryOps
Inst       == [op : Ops, a : Nat, b : Nat, c : Nat, k : Word]

(* Set and MSet destroy the old value: the boundaries of a phase. *)
IrreversibleOps == {"set", "mset"}
IsIrreversible(i) == i.op \in IrreversibleOps

(* Mutant: the address register of a memory operand is not looked at. *)
OperandAliasMutant(i) ==
  \/ i.op \in {"xor", "add", "sub"} /\ i.a = i.b
  \/ i.op = "toff" /\ (i.c = i.a \/ i.c = i.b)
  \/ i.op = "cswp" /\ (i.a = i.b \/ i.a = i.c)
  \/ i.op = "mulc" /\ i.k % 2 = 0

(* Operand aliasing that makes the operation lossy (or that the code treats *)
(* as lossy).                                                               *)
OperandAlias(i) ==
  \/ i.op \in {"xor", "add", "sub"} /\ i.a = i.b
  \/ i.op = "toff" /\ (i.c = i.a \/ i.c = i.b)
  \/ i.op = "cswp" /\ (i.a = i.b \/ i.a = i.c)
  \/ i.op \in MemDstOps \union MemSrcOps /\ i.a = i.b
  \/ i.op = "mulc" /\ i.k % 2 = 0

(* Mutant: a boundary is taken for its own inverse. *)
InvertibleMutant(i) == ~OperandAlias(i)

(* What invertible_for_rollback and the debugger's guard accept. *)
Invertible(i) == ~IsIrreversible(i) /\ ~OperandAlias(i)

InverseOp ==
  [op \in Ops |->
     CASE op = "inc"   -> "dec"   [] op = "dec"   -> "inc"
       [] op = "add"   -> "sub"   [] op = "sub"   -> "add"
       [] op = "rotl"  -> "rotr"  [] op = "rotr"  -> "rotl"
       [] op = "madd"  -> "msub"  [] op = "msub"  -> "madd"
       [] op = "rmadd" -> "rmsub" [] op = "rmsub" -> "rmadd"
       [] OTHER -> op]

Inverse(i) ==
  [i EXCEPT !.op = InverseOp[i.op],
            !.k  = IF i.op = "mulc" THEN ModInvOdd(i.k) ELSE i.k]

-----------------------------------------------------------------------------
(* The range checks of Inst::exec. All of them come before the one write,   *)
(* so an instruction that fails leaves the state as it was.                 *)

RegOperands(i) ==
  CASE i.op \in UnaryOps   -> {i.a}
    [] i.op \in BinaryOps  -> {i.a, i.b}
    [] i.op \in TernaryOps -> {i.a, i.b, i.c}
    [] OTHER               -> {}

MemOperands(s, i) ==
  CASE i.op \in MemDstOps -> {s.regs[i.a]}
    [] i.op \in MemSrcOps -> {s.regs[i.b]}
    [] i.op = "mset"      -> {i.a}
    [] OTHER              -> {}

InRange(s, i) ==
  /\ RegOperands(i) \subseteq Reg
  /\ MemOperands(s, i) \subseteq Addr

-----------------------------------------------------------------------------
(* The effect of an instruction whose operands are in range. *)

SetReg(s, r, v)  == [s EXCEPT !.regs = [@ EXCEPT ![r] = v]]
SetMem(s, m, v)  == [s EXCEPT !.mem = [@ EXCEPT ![m] = v]]
SwapRegs(s, p, q) ==
  [s EXCEPT !.regs = [@ EXCEPT ![p] = s.regs[q], ![q] = s.regs[p]]]

(* What the destination becomes, from its old value d and the source v. *)
Combine(op, d, v, k) ==
  CASE op = "not"  -> BitNot(d)
    [] op = "inc"  -> WrapAdd(d, 1)
    [] op = "dec"  -> WrapSub(d, 1)
    [] op = "rotl" -> RotateLeft(d, k % Width)
    [] op = "rotr" -> RotateRight(d, k % Width)
    [] op = "mulc" -> WrapMul(d, k)
    [] op = "set"  -> k
    [] op \in {"xor", "mxor"} -> BitXor(d, v)
    [] op \in {"add", "madd", "rmadd"} -> WrapAdd(d, v)
    [] op \in {"sub", "msub", "rmsub"} -> WrapSub(d, v)

Exec(s, i) ==
  CASE i.op \in UnaryOps ->
         SetReg(s, i.a, Combine(i.op, s.regs[i.a], 0, i.k))
    [] i.op \in {"xor", "add", "sub"} ->
         SetReg(s, i.a, Combine(i.op, s.regs[i.a], s.regs[i.b], i.k))
    [] i.op \in MemSrcOps ->
         SetReg(s, i.a, Combine(i.op, s.regs[i.a], s.mem[s.regs[i.b]], i.k))
    [] i.op \in MemDstOps ->
         LET m == s.regs[i.a]
         IN  SetMem(s, m, Combine(i.op, s.mem[m], s.regs[i.b], i.k))
    [] i.op = "swp"  -> SwapRegs(s, i.a, i.b)
    [] i.op = "toff" ->
         SetReg(s, i.c, BitXor(s.regs[i.c], BitAnd(s.regs[i.a], s.regs[i.b])))
    [] i.op = "cswp" ->
         IF s.regs[i.a] % 2 = 1 THEN SwapRegs(s, i.b, i.c) ELSE s
    [] i.op = "mset" -> SetMem(s, i.a, i.k)
    [] OTHER         -> s
=============================================================================
