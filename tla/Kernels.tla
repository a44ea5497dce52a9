------------------------------ MODULE Kernels -------------------------------
(***************************************************************************)
(* Kernels that are compiled from formulas, that encrypt, and that are     *)
(* searched for: src/src/pmath.rs, cipher.rs and synth.rs, with their callers. *)
(***************************************************************************)
EXTENDS LeafRun, FiniteSets

(***************************************************************************)
(* Formulas of src/src/pmath.rs, sequences of bijections of one word with  *)
(* an inverse worked out beforehand, and their compilation into a kernel   *)
(* of the machine by src/examples/formula_to_kernel.rs, which runs kernel  *)
(* and formula forward and back and compares.                              *)
(***************************************************************************)
CONSTANTS Formulas,        \* sequences of [op, k]: mulodd, add, xor, rotl
          FormulaInputs,
          FormulaRegs      \* 16 registers

VARIABLES f_at, formula, input,
          computed,        \* what the formula makes of the input
          inverted,        \* what its inverse makes of that
          kernelState

formulaVars == <<f_at, formula, input, computed, inverted, kernelState>>

(* Op::apply *)
ApplyOp(o, x) ==
  CASE o.op = "mulodd" -> WrapMul(x, o.k)
    [] o.op = "add"    -> WrapAdd(x, o.k)
    [] o.op = "xor"    -> BitXor(x, o.k)
    [] o.op = "rotl"   -> RotateLeft(x, o.k % Width)

(* Mutant: the constant is not negated. *)
InverseOfMutant(o) == [o EXCEPT !.k = IF o.op = "mulodd" THEN ModInvOdd(@)
                                      ELSE IF o.op = "rotl" THEN (Width - (@ % Width)) % Width
                                      ELSE @]

(* Op::inverse *)
InverseOf(o) ==
  [o EXCEPT !.k = CASE o.op = "mulodd" -> ModInvOdd(@)
                    [] o.op = "add"    -> WrapSub(0, @)
                    [] o.op = "xor"    -> @
                    [] o.op = "rotl"   -> (Width - (@ % Width)) % Width]

ApplyAll(ops, x) ==
  LET upto[k \in 0 .. Len(ops)] == IF k = 0 THEN x ELSE ApplyOp(ops[k], upto[k - 1])
  IN  upto[Len(ops)]

InverseAll(ops) == [k \in DOMAIN ops |-> InverseOf(ops[Len(ops) + 1 - k])]

(* compile: the constants of add and xor go to registers of their own. *)
Keyed(ops) == {k \in DOMAIN ops : ops[k].op \in {"add", "xor"}}

KeyReg(ops, k) == Cardinality({j \in Keyed(ops) : j <= k})

(* Mutant: the constants are numbered from the last one. *)
KeyOfMutant(ops, r) ==
  ops[CHOOSE k \in Keyed(ops) : KeyReg(ops, k) = Cardinality(Keyed(ops)) + 1 - r].k

KeyOf(ops, r) == ops[CHOOSE k \in Keyed(ops) : KeyReg(ops, k) = r].k

Compile(ops) ==
  [r \in 1 .. Cardinality(Keyed(ops)) |-> [Leaf("set", r, 0) EXCEPT !.k = KeyOf(ops, r)]]
  \o [k \in DOMAIN ops |->
        CASE ops[k].op = "rotl"   -> [Leaf("rotl", 0, 0) EXCEPT !.k = ops[k].k % Width]
          [] ops[k].op = "mulodd" -> [Leaf("mulc", 0, 0) EXCEPT !.k = ops[k].k]
          [] k \in Keyed(ops)     -> Leaf(ops[k].op, 0, KeyReg(ops, k))]

-----------------------------------------------------------------------------
Loaded(ops, x) ==
  [regs |-> [r \in FormulaRegs |-> IF r = 0 THEN x
                                   ELSE IF r <= Cardinality(Keyed(ops)) THEN KeyOf(ops, r)
                                   ELSE 0],
   mem |-> [m \in {} |-> 0]]

FormulaStart(on) ==
  /\ formula \in (IF on THEN Formulas ELSE {<<>>})
  /\ input \in (IF on THEN FormulaInputs ELSE {0})
  /\ f_at = "math" /\ computed = 0 /\ inverted = 0
  /\ kernelState = Loaded(<<>>, 0)

ComputeMath ==
  /\ f_at = "math" /\ f_at' = "forward"
  /\ computed' = ApplyAll(formula, input)
  /\ inverted' = ApplyAll(InverseAll(formula), computed')
  /\ kernelState' = Loaded(formula, input)
  /\ UNCHANGED <<formula, input>>

(* run_forward(..).unwrap() and reverse_all(..).unwrap() *)
RunKernel(from, to, r) ==
  /\ f_at = from
  /\ f_at' = IF r.out = "fault" THEN "panic" ELSE to
  /\ kernelState' = r.s
  /\ UNCHANGED <<formula, input, computed, inverted>>

KernelForward == RunKernel("forward", "back", RunForward(kernelState, Compile(formula)))
KernelBack    == RunKernel("back", "done", ReverseAll(kernelState, Compile(formula)))

FormulaNext == ComputeMath \/ KernelForward \/ KernelBack

FormulaSpec == FormulaStart(TRUE) /\ [][FormulaNext]_formulaVars

(* What main() draws: odd factors, and no more links than there are registers *)
(* left for their constants (formula_to_kernel.rs 66-75).                    *)
Links ==
  [op : {"add", "xor"}, k : Word]
  \union [op : {"mulodd"}, k : {w \in Word : w % 2 = 1}]
  \union [op : {"rotl"}, k : Nat]

ASSUME FormulaAssumption ==
  /\ Formulas \subseteq Seq(Links) /\ FormulaInputs \subseteq Word
  /\ FormulaRegs \subseteq Nat
  /\ \A ops \in Formulas : 0 .. Len(ops) \subseteq FormulaRegs

-----------------------------------------------------------------------------
(* The compiled kernel computes the formula, and taking it back stops exactly *)
(* at the constants that were set before it and leaves the input; no run      *)
(* panics (formula_to_kernel.rs 36-100).                                     *)
KernelIsFormula ==
  /\ f_at # "panic"
  /\ f_at = "back" => kernelState.regs[0] = computed
  /\ f_at = "done" => kernelState = Loaded(formula, input)

(* The inverse worked out by pmath takes every result back to its input      *)
(* (pmath.rs 49-75).                                                         *)
InverseIsExact == f_at # "math" => inverted = input

-----------------------------------------------------------------------------
(***************************************************************************)
(* The demonstration cipher of src/src/cipher.rs and the command cipher of *)
(* src/src/main.rs: encrypting runs a kernel forward over text, key and a  *)
(* round counter, decrypting runs the same kernel back.                    *)
(***************************************************************************)
CONSTANTS Plains, Keys,    \* functions on 0 .. 3
          Rounds,
          CipherRegs       \* 0 .. 15

VARIABLES k_at, plain, key, round_count,
          crypt            \* the state the kernel runs on

cipherVars == <<k_at, plain, key, round_count, crypt>>

Rot(r, k) == [Leaf("rotl", r, 0) EXCEPT !.k = k % Width]

(* Mutant: the text is added to the first word of the key. *)
RoundBodyMutant ==
  <<Leaf("xor", 0, 8),
    Leaf("add", 0, 1), Rot(1, 17), Leaf("xor", 1, 0),
    Leaf("add", 2, 3), Rot(3, 13), Leaf("xor", 3, 2),
    Leaf("add", 0, 2), Rot(2, 9),  Leaf("xor", 2, 0),
    Leaf("add", 1, 3), Rot(3, 5),  Leaf("xor", 3, 1),
    Leaf("add", 4, 0), Leaf("add", 1, 5), Leaf("add", 2, 6), Leaf("add", 3, 7),
    Leaf("inc", 8, 0)>>

(* PC1_ROUND_BODY: text in r0..r3, key in r4..r7, counter in r8. *)
RoundBody ==
  <<Leaf("xor", 0, 8),
    Leaf("add", 0, 1), Rot(1, 17), Leaf("xor", 1, 0),
    Leaf("add", 2, 3), Rot(3, 13), Leaf("xor", 3, 2),
    Leaf("add", 0, 2), Rot(2, 9),  Leaf("xor", 2, 0),
    Leaf("add", 1, 3), Rot(3, 5),  Leaf("xor", 3, 1),
    Leaf("add", 0, 4), Leaf("add", 1, 5), Leaf("add", 2, 6), Leaf("add", 3, 7),
    Leaf("inc", 8, 0)>>

(* pc1_kernel: the body in a rep, here unrolled. *)
CipherKernel(n) ==
  [k \in 1 .. n * Len(RoundBody) |-> RoundBody[((k - 1) % Len(RoundBody)) + 1]]

CipherState(text, counter) ==
  [regs |-> [r \in CipherRegs |-> CASE r \in 0 .. 3 -> text[r]
                                    [] r \in 4 .. 7 -> key[r - 4]
                                    [] r = 8        -> counter % Modulus
                                    [] OTHER        -> 0],
   mem |-> [m \in {} |-> 0]]

TextIn(s) == [w \in 0 .. 3 |-> s.regs[w]]

CipherStart(on) ==
  /\ plain \in (IF on THEN Plains ELSE {<<>>}) /\ key \in (IF on THEN Keys ELSE {<<>>})
  /\ round_count \in (IF on THEN Rounds ELSE {0})
  /\ k_at = "encrypt"
  /\ crypt = [regs |-> <<>>, mem |-> <<>>]

Encrypt ==
  /\ k_at = "encrypt" /\ k_at' = "decrypt"
  /\ crypt' = RunForward(CipherState(plain, 0), CipherKernel(round_count)).s
  /\ UNCHANGED <<plain, key, round_count>>

(* Mutant: the counter starts at 0 here too. *)
CounterBackMutant == 0

(* Where decrypting starts the counter. *)
CounterBack == round_count

(* The text alone is handed over: key and counter are put in again. *)
Decrypt ==
  /\ k_at = "decrypt" /\ k_at' = "done"
  /\ crypt' = ReverseAll(CipherState(TextIn(crypt), CounterBack), CipherKernel(round_count)).s
  /\ UNCHANGED <<plain, key, round_count>>

CipherNext == Encrypt \/ Decrypt

CipherSpec == CipherStart(TRUE) /\ [][CipherNext]_cipherVars

(* Text and key are four words, and the body's registers exist. *)
ASSUME CipherAssumption ==
  /\ Plains \subseteq [0 .. 3 -> Word] /\ Keys \subseteq [0 .. 3 -> Word]
  /\ Rounds \subseteq Nat
  /\ 0 .. 8 \subseteq CipherRegs

-----------------------------------------------------------------------------
(* Decrypting takes every text back with its key and number of rounds, and    *)
(* ends on exactly the state encrypting began with: key unharmed, counter at  *)
(* 0 (cipher.rs 55-73, main.rs 606-634).                                     *)
DecryptIsReverse == k_at = "done" => crypt = CipherState(plain, 0)

(* What encrypting hands over is enough to decrypt: nothing but the text was  *)
(* changed except the counter, which the other side knows (cipher.rs 12-14). *)
OnlyTextChanges ==
  k_at = "decrypt" => crypt = CipherState(TextIn(crypt), round_count)

(* A kernel computes what it was compiled from, and the same kernel run back  *)
(* is the inverse, of a formula as of an encryption, with constants, key and  *)
(* counter as they were (formula_to_kernel.rs 36-100, cipher.rs 42-73).       *)
KernelsExact == KernelIsFormula /\ InverseIsExact /\ DecryptIsReverse /\ OnlyTextChanges

-----------------------------------------------------------------------------
(***************************************************************************)
(* The search of src/src/synth.rs for a shortest program over a pool of    *)
(* reversible instructions that maps given inputs to given outputs: breadth*)
(* first, one layer after the other, without looking twice at programs     *)
(* that do the same to all inputs. An entry of the frontier is a step.     *)
(*                                                                         *)
(* Entries are told apart by hashes of their states (State::hash); the     *)
(* model takes the states themselves, hashes that do not collide.          *)
(***************************************************************************)
CONSTANTS Tasks,           \* sequences of [inp, want], functions on the registers
          SynthRegs,       \* k, the number of registers
          MaxDepth

VARIABLES y_at, task, depth_now,
          frontier, upcoming,    \* sequences of [prog, on]: on the states reached
          visited, found

synthVars == <<y_at, task, depth_now, frontier, upcoming, visited, found>>

Rotl(a, k) == [Leaf("rotl", a, 0) EXCEPT !.k = k]

(* pool: for each register not, then xor, add, sub and swp with every other   *)
(* one, then four rotations.                                                 *)
PoolPart(a) ==
  LET with[b \in 0 .. SynthRegs] ==
        IF b = 0 THEN <<>>
        ELSE LET o == b - 1
             IN  with[b - 1] \o
                 IF o = a THEN <<>>
                 ELSE <<Leaf("xor", a, o), Leaf("add", a, o), Leaf("sub", a, o)>>
                      \o IF a < o THEN <<Leaf("swp", a, o)>> ELSE <<>>
  IN  <<Leaf("not", a, 0)>> \o with[SynthRegs]
      \o <<Rotl(a, 1), Rotl(a, 7), Rotl(a, 13), Rotl(a, 31)>>

InstPool ==
  LET upto[a \in 0 .. SynthRegs] ==
        IF a = 0 THEN <<>> ELSE upto[a - 1] \o PoolPart(a - 1)
  IN  upto[SynthRegs]

Bare(regs)  == [regs |-> regs, mem |-> [m \in {} |-> 0]]
After(on, i) == [n \in DOMAIN on |-> Exec(Bare(on[n]), i).regs]

Asked(t)  == [n \in DOMAIN t |-> t[n].inp]
Fulfils(on) == \A n \in DOMAIN task : on[n] = task[n].want

Nothing == <<>>

SynthStart(on) ==
  /\ task \in (IF on THEN Tasks ELSE {<<>>})
  /\ y_at = "search" /\ depth_now = 0
  /\ frontier = <<[prog |-> <<>>, on |-> Asked(task)]>>
  /\ upcoming = <<>> /\ visited = {Asked(task)} /\ found = Nothing

(* Mutant: only what becomes of the first input is compared. *)
RepeatsMutant(seen, on) == \E s \in seen : s[1] = on[1]

Repeats(seen, on) == on \in seen

(* The pool over one entry, in order, up to the first that fulfils the task. *)
Expand ==
  /\ y_at = "search" /\ depth_now < MaxDepth /\ frontier # <<>>
  /\ LET e == frontier[1]
         turn[k \in 0 .. Len(InstPool)] ==
           IF k = 0 THEN [next |-> upcoming, seen |-> visited, hit |-> Nothing]
           ELSE LET t  == turn[k - 1]
                    on == After(e.on, InstPool[k])
                    np == Append(e.prog, InstPool[k])
                IN  IF t.hit # Nothing THEN t
                    ELSE IF Fulfils(on) THEN [t EXCEPT !.hit = np]
                    ELSE IF Repeats(t.seen, on) THEN t
                    ELSE [t EXCEPT !.seen = @ \union {on},
                                   !.next = Append(@, [prog |-> np, on |-> on])]
         r == turn[Len(InstPool)]
     IN  /\ found' = r.hit
         /\ y_at' = IF r.hit # Nothing THEN "found" ELSE "search"
         /\ visited' = r.seen
         /\ upcoming' = r.next
  /\ frontier' = Tail(frontier)
  /\ UNCHANGED <<task, depth_now>>

NextLayer ==
  /\ y_at = "search" /\ frontier = <<>> /\ depth_now < MaxDepth
  /\ frontier' = upcoming /\ upcoming' = <<>>
  /\ depth_now' = depth_now + 1
  /\ y_at' = IF upcoming = <<>> THEN "none" ELSE "search"
  /\ UNCHANGED <<task, visited, found>>

GiveUpSearch ==
  /\ y_at = "search" /\ depth_now = MaxDepth
  /\ y_at' = "none"
  /\ UNCHANGED <<task, depth_now, frontier, upcoming, visited, found>>

SynthNext == Expand \/ NextLayer \/ GiveUpSearch

SynthSpec == SynthStart(TRUE) /\ [][SynthNext]_synthVars

(* Inputs and outputs fill the registers; the rotations of the pool are words. *)
ASSUME SynthAssumption ==
  /\ SynthRegs \in Nat /\ MaxDepth \in Nat /\ 31 \in Word
  /\ LET Filled == [0 .. SynthRegs - 1 -> Word]
     IN  Tasks \subseteq Seq([inp : Filled, want : Filled])

-----------------------------------------------------------------------------
(* What programs of exactly n instructions can make of the inputs. *)
Reach(n) ==
  LET layer[k \in 0 .. n] ==
        IF k = 0 THEN {Asked(task)}
        ELSE {After(on, InstPool[j]) : on \in layer[k - 1], j \in DOMAIN InstPool}
  IN  layer[n]

(* The program found maps every input to its output and can be taken back,    *)
(* and no shorter one does (leaving out programs that repeat what an earlier  *)
(* one did loses none); nothing is found only when there is nothing within    *)
(* the depth (synth.rs 49-93). The empty program does not count.             *)
FoundIsShortest ==
  /\ y_at = "found" =>
       /\ \A n \in DOMAIN task :
            LET r == RunForward(Bare(task[n].inp), found)
            IN  r.s.regs = task[n].want /\ ReverseAll(r.s, found).s = Bare(task[n].inp)
       /\ \A d \in 1 .. Len(found) - 1 : \A on \in Reach(d) : ~Fulfils(on)
  /\ y_at = "none" => \A d \in 1 .. MaxDepth : \A on \in Reach(d) : ~Fulfils(on)
=============================================================================
