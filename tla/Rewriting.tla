----------------------------- MODULE Rewriting ------------------------------
(***************************************************************************)
(* What is made of programs and texts without running them: shorter programs *)
(* by src/src/opt.rs, functions in C by src/src/aot.rs, patched files by   *)
(* src/src/patch.rs.                                                       *)
(***************************************************************************)
EXTENDS LeafRun, FiniteSets

(***************************************************************************)
(* The optimizer of src/src/opt.rs: rotations of one register that stand   *)
(* side by side are added up, neighbours that undo each other are removed, *)
(* and both are repeated until nothing gets shorter.                       *)
(***************************************************************************)
CONSTANTS OptPrograms,     \* sequences of instructions
          OptStates,       \* states to compare on
          MaxRounds        \* 8

VARIABLES o_at, given, cur, rounds

optVars == <<o_at, given, cur, rounds>>

(* Mutant: the operands may be swapped. *)
SameOperandsMutant(i, j) == {i.a, i.b} = {j.a, j.b}

SameOperands(i, j) == i.a = j.a /\ i.b = j.b

(* cancel_pair *)
CancelPair(i, j) ==
  \/ /\ <<i.op, j.op>> \in {<<"add", "sub">>, <<"sub", "add">>, <<"xor", "xor">>,
                            <<"madd", "msub">>, <<"msub", "madd">>, <<"mxor", "mxor">>}
     /\ SameOperands(i, j)
  \/ i.op = "swp" /\ j.op = "swp" /\ {i.a, i.b} = {j.a, j.b}
  \/ <<i.op, j.op>> \in {<<"not", "not">>, <<"inc", "dec">>, <<"dec", "inc">>} /\ i.a = j.a
  \/ i.op = "mulc" /\ j.op = "mulc" /\ i.a = j.a /\ WrapMul(i.k, j.k) = 1

(* rot_signed; a rotation to the right counts as one to the left by what is   *)
(* missing to a word.                                                        *)
IsRotation(i) == i.op \in {"rotl", "rotr"}
Turn(i)       == (IF i.op = "rotl" THEN i.k ELSE -i.k) % Width

(* rot_op, for k in 1 .. Width - 1 *)
RotOp(r, k) ==
  IF k <= Width \div 2 THEN [Leaf("rotl", r, 0) EXCEPT !.k = k]
                       ELSE [Leaf("rotr", r, 0) EXCEPT !.k = Width - k]

Pop(out)     == SubSeq(out, 1, Len(out) - 1)
TopOf(out)   == out[Len(out)]

(* A rotation meets what is kept so far: two become one, or none. *)
Merge(out, i) ==
  IF ~IsRotation(i) THEN Append(out, i)
  ELSE IF out # <<>> /\ IsRotation(TopOf(out)) /\ TopOf(out).a = i.a
  THEN LET k == (Turn(TopOf(out)) + Turn(i)) % Width
       IN  IF k = 0 THEN Pop(out) ELSE Append(Pop(out), RotOp(i.a, k))
  ELSE IF Turn(i) = 0 THEN out ELSE Append(out, i)

Cancel(out, i) ==
  IF out # <<>> /\ CancelPair(TopOf(out), i) THEN Pop(out) ELSE Append(out, i)

Merged(p) ==
  LET upto[k \in 0 .. Len(p)] == IF k = 0 THEN <<>> ELSE Merge(upto[k - 1], p[k])
  IN  upto[Len(p)]

Cancelled(p) ==
  LET upto[k \in 0 .. Len(p)] == IF k = 0 THEN <<>> ELSE Cancel(upto[k - 1], p[k])
  IN  upto[Len(p)]

Pass(p) == Cancelled(Merged(p))

-----------------------------------------------------------------------------
OptStart(on) ==
  /\ given \in (IF on THEN OptPrograms ELSE {<<>>}) /\ cur = given
  /\ o_at = "optimize" /\ rounds = 0

(* Mutant: one round is enough. *)
SettledMutant(next) == TRUE

Settled(next) == Len(next) = Len(cur)

(* A turn of the loop of optimize. *)
Round ==
  /\ o_at = "optimize"
  /\ cur' = Pass(cur)
  /\ rounds' = rounds + 1
  /\ o_at' = IF Settled(cur') \/ rounds' = MaxRounds THEN "done" ELSE "optimize"
  /\ UNCHANGED given

-----------------------------------------------------------------------------
(* Xor, add and sub of a register with itself, which cancel_pair removes in   *)
(* pairs although no such pair is the identity.                              *)
Lossy(i) == i.op \in {"xor", "add", "sub"} /\ i.a = i.b

(* After every round the program does what the given one does, on every state *)
(* the given one can run on: also where memory cells are changed and changed *)
(* back, where the removed instructions lay around others, and where a        *)
(* boundary stands between (opt.rs 10-11, 60-111). Excepted are programs with *)
(* an instruction of Lossy.                                                  *)
SameEffect ==
  (\A k \in DOMAIN given : ~Lossy(given[k])) =>
    \A s \in OptStates :
      LET g == RunForward(s, given)
      IN  g.out = "ok" => RunForward(s, cur) = [g EXCEPT !.done = Len(cur)]

(* What a loop that did not run out of rounds returns has nothing left to     *)
(* remove: no neighbours that cancel, no two rotations of one register side   *)
(* by side, no rotation by nothing (opt.rs 59-71).                           *)
Irreducible ==
  (o_at = "done" /\ rounds < MaxRounds) =>
    /\ \A k \in DOMAIN cur : IsRotation(cur[k]) => Turn(cur[k]) # 0
    /\ \A k \in 1 .. Len(cur) - 1 :
         /\ ~CancelPair(cur[k], cur[k + 1])
         /\ ~(IsRotation(cur[k]) /\ IsRotation(cur[k + 1]) /\ cur[k].a = cur[k + 1].a)

(* An optimized program means the same, and unless eight rounds were not      *)
(* enough there is nothing left in it to cancel (opt.rs 14-80).              *)
OptimizerExact == SameEffect /\ Irreducible

-----------------------------------------------------------------------------
(***************************************************************************)
(* src/src/aot.rs writes a kernel out as two functions in C, phase_fwd and *)
(* phase_rev. The generated text is a sequence of statements: [st |-> "do"]*)
(* with the instruction whose assignment it is, or [st |-> "for"] with a   *)
(* count and a body.                                                       *)
(*                                                                         *)
(* C computes what the instruction does (unsigned words wrap), except that *)
(* it has no range checks: past the end of a register file or memory it    *)
(* does what it does, "wild".                                              *)
(***************************************************************************)
CONSTANTS Kernels,         \* sequences of nodes: instructions and reps
          NativeStates     \* states to call the compiled functions on

VARIABLES g_at, kernel, code,    \* [fwd, rev], what codegen wrote
          entry, native          \* the state before and now: [s, wild]

aotVars == <<g_at, kernel, code, entry, native>>

Upturned(nodes) == [k \in DOMAIN nodes |-> nodes[Len(nodes) + 1 - k]]

RECURSIVE LeavesOf(_)
(* The leaves of a tree in order, as the machine's iterators hand them out. *)
LeavesOf(nodes) ==
  IF nodes = <<>> THEN <<>>
  ELSE LET n == nodes[1]
           body == LeavesOf(n.body)
           turns[k \in 0 .. n.count] == IF k = 0 THEN <<>> ELSE turns[k - 1] \o body
       IN  (IF n.kind = "inst" THEN <<n.inst>> ELSE turns[n.count]) \o LeavesOf(Tail(nodes))

(* Mutant: a rotation by a word and more is taken for none. *)
GenLeafMutant(i) ==
  IF i.op = "nop" \/ (i.op \in {"rotl", "rotr"} /\ (i.k = 0 \/ i.k >= Width)) THEN <<>>
  ELSE <<[st |-> "do", inst |-> i]>>

(* Nothing is written for an instruction that changes nothing. *)
GenLeaf(i) ==
  IF i.op = "nop" \/ (i.op \in {"rotl", "rotr"} /\ i.k % Width = 0) THEN <<>>
  ELSE <<[st |-> "do", inst |-> IF i.op \in {"rotl", "rotr"} THEN [i EXCEPT !.k = @ % Width] ELSE i]>>

(* Mutant: the body of a loop is left in order. *)
OrderedMutant(nodes, rev) == nodes

Ordered(nodes, rev) == IF rev THEN Upturned(nodes) ELSE nodes

RECURSIVE GenNodes(_, _)
(* A loop around nothing is not written either. *)
GenNodes(nodes, rev) ==
  LET seq == Ordered(nodes, rev)
      Written(n) ==
        IF n.kind = "inst"
        THEN IF ~rev THEN GenLeaf(n.inst)
             ELSE IF IsIrreversible(n.inst) THEN <<>> ELSE GenLeaf(Inverse(n.inst))
        ELSE LET body == GenNodes(n.body, rev)
             IN  IF body = <<>> THEN <<>> ELSE <<[st |-> "for", count |-> n.count, body |-> body]>>
      upto[k \in 0 .. Len(seq)] == IF k = 0 THEN <<>> ELSE upto[k - 1] \o Written(seq[k])
  IN  upto[Len(seq)]

(* check(nodes).reversible(): no leaf in the unrolled order is a boundary or  *)
(* has operands that make it lossy.                                          *)
PureKernel(nodes) == \A k \in DOMAIN LeavesOf(nodes) : Invertible(LeavesOf(nodes)[k])

Codegen(nodes) ==
  [fwd |-> GenNodes(nodes, FALSE),
   rev |-> IF PureKernel(nodes) THEN GenNodes(nodes, TRUE) ELSE <<>>]

RECURSIVE RunC(_, _)
(* The compiled function; what it does once it is wild is not followed. *)
RunC(r, stmts) ==
  IF stmts = <<>> \/ r.wild THEN r
  ELSE LET st == stmts[1]
           Do == IF CanRun(r.s, st.inst) THEN [r EXCEPT !.s = Exec(@, st.inst)]
                 ELSE [r EXCEPT !.wild = TRUE]
           turns[k \in 0 .. st.count] == IF k = 0 THEN r ELSE RunC(turns[k - 1], st.body)
       IN  RunC(IF st.st = "do" THEN Do ELSE turns[st.count], Tail(stmts))

-----------------------------------------------------------------------------
AotStart(on) ==
  /\ kernel \in (IF on THEN Kernels ELSE {<<>>})
  /\ entry \in (IF on THEN NativeStates ELSE {<<>>})
  /\ g_at = "codegen" /\ code = [fwd |-> <<>>, rev |-> <<>>]
  /\ native = [s |-> entry, wild |-> FALSE]

Generate ==
  /\ g_at = "codegen" /\ g_at' = "forward"
  /\ code' = Codegen(kernel)
  /\ UNCHANGED <<kernel, entry, native>>

CallForward ==
  /\ g_at = "forward" /\ g_at' = "back"
  /\ native' = RunC(native, code.fwd)
  /\ UNCHANGED <<kernel, code, entry>>

CallBack ==
  /\ g_at = "back" /\ g_at' = "done"
  /\ ~native.wild
  /\ native' = RunC(native, code.rev)
  /\ UNCHANGED <<kernel, code, entry>>

AotNext == Generate \/ CallForward \/ CallBack

-----------------------------------------------------------------------------
(* Where the machine runs the kernel to its end, the compiled function ends   *)
(* on the same state; only where the machine reports an operand out of range  *)
(* does it go wild, loops that leave out their body included (aot.rs 22-94).  *)
CodeIsKernel ==
  g_at = "back" =>
    LET r == RunForward(entry, LeavesOf(kernel))
    IN  IF r.out = "ok" THEN native = [s |-> r.s, wild |-> FALSE] ELSE native.wild

(* phase_rev takes back what phase_fwd did when the kernel is reversible, and *)
(* changes nothing when it is not (aot.rs 96-106).                           *)
NativeUndo ==
  g_at = "done" =>
    native.s = IF PureKernel(kernel) THEN entry ELSE RunForward(entry, LeavesOf(kernel)).s

(* The compiled functions do what the machine does with the kernel, forward   *)
(* and back, wherever the machine reports no error (aot.rs 22-112).           *)
NativeExact == CodeIsKernel /\ NativeUndo

-----------------------------------------------------------------------------
(***************************************************************************)
(* src/src/patch.rs and its command line src/examples/phase_patch.rs: the  *)
(* hunks of a unified diff are read and counted, then put into a copy of   *)
(* the file's lines one after the other; any failure leaves the copy       *)
(* unused.                                                                 *)
(*                                                                         *)
(* A text is the sequence of what stands between its line feeds, so that   *)
(* one that ends with a line feed has an empty last piece. A line of a     *)
(* diff is [is, s, old, cnt]: is is its first character, "@@" for the      *)
(* header of a hunk, "@@x" for another line that begins with @@; -1 is a   *)
(* number that cannot be read.                                             *)
(***************************************************************************)
CONSTANTS Originals,       \* texts
          Diffs            \* sequences of diff lines

VARIABLES a_at,            \* "parse", "apply", "write", and how it ended
          orig, diff,
          i,               \* the next line of the diff
          hunks,           \* [start, body] of the hunks read
          copy, cum,       \* out, and how far it is shifted
          hi,              \* hunks applied
          outFile          \* [is, text]: "kept", "torn", or "whole" with a text

patchVars == <<a_at, orig, diff, i, hunks, copy, cum, hi, outFile>>

EndsWithLF(t) == Len(t) > 1 /\ t[Len(t)] = ""
LinesIn(t)    == IF t[Len(t)] = "" THEN SubSeq(t, 1, Len(t) - 1) ELSE t
Join(lines)   == IF lines = <<>> THEN <<"">> ELSE lines

PatchStart(on) ==
  /\ orig \in (IF on THEN Originals ELSE {<<"">>}) /\ diff \in (IF on THEN Diffs ELSE {<<>>})
  /\ a_at = "parse" /\ i = 1 /\ hunks = <<>>
  /\ copy = LinesIn(orig) /\ cum = 0 /\ hi = 0
  /\ outFile = [is |-> "kept", text |-> <<"">>]

-----------------------------------------------------------------------------
(* Hunks. *)

(* The first line after k that begins with @@, or the end of the diff. *)
BodyEnd(k) ==
  CHOOSE n \in k + 1 .. Len(diff) + 1 :
    /\ n = Len(diff) + 1 \/ diff[n].is \in {"@@", "@@x"}
    /\ \A m \in k + 1 .. n - 1 : diff[m].is \notin {"@@", "@@x"}

(* Lines that are neither context, removed nor added are passed over. *)
BodyOf(k) == SelectSeq(SubSeq(diff, k + 1, BodyEnd(k) - 1), LAMBDA l : l.is \in {" ", "-", "+"})

OldSide(body) == SelectSeq(body, LAMBDA l : l.is # "+")
NewSide(body) == SelectSeq(body, LAMBDA l : l.is # "-")

(* A count that cannot be read is 1. *)
CountsAgree(h, body) == Len(OldSide(body)) = (IF h.cnt = -1 THEN 1 ELSE h.cnt)

(* saturating_sub(1) *)
Start(h) == IF h.old = 0 THEN 0 ELSE h.old - 1

ParseHunk ==
  /\ a_at = "parse" /\ i <= Len(diff)
  /\ LET h == diff[i]
     IN  IF h.is # "@@" THEN i' = i + 1 /\ UNCHANGED <<a_at, hunks>>
         ELSE IF h.old = -1 \/ ~CountsAgree(h, BodyOf(i))
         THEN a_at' = "refused" /\ UNCHANGED <<i, hunks>>
         ELSE /\ hunks' = Append(hunks, [start |-> Start(h), body |-> BodyOf(i)])
              /\ i' = BodyEnd(i)
              /\ UNCHANGED a_at
  /\ UNCHANGED <<orig, diff, copy, cum, hi, outFile>>

HunksRead ==
  /\ a_at = "parse" /\ i > Len(diff)
  /\ a_at' = "apply"
  /\ UNCHANGED <<orig, diff, i, hunks, copy, cum, hi, outFile>>

-----------------------------------------------------------------------------
(* Application. *)

Strings(body) == [k \in DOMAIN body |-> body[k].s]

(* Mutant: only the first line is compared. *)
MatchesMutant(idx, old) == old # <<>> => copy[idx + 1] = old[1]

Matches(idx, old) == \A k \in DOMAIN old : copy[idx + k] = old[k]

Splice(idx, old, new) ==
  SubSeq(copy, 1, idx) \o new \o SubSeq(copy, idx + Len(old) + 1, Len(copy))

(* Mutant: the shift counts only what was added. *)
ShiftMutant(old, new) == Len(new)

Shift(old, new) == Len(new) - Len(old)

(* A place before the first line is a huge number as an index: the sum with   *)
(* the length is past the end of the file, or overflows, which stops a build  *)
(* with overflow checks and lets another one run into the slice bounds unless *)
(* the wrapped sum is past the end as well.                                  *)
BeforeFirst(idx, old) ==
  IF idx + Len(old) < 0 THEN {"refused"}
  ELSE IF idx + Len(old) > Len(copy) THEN {"panic", "refused"} ELSE {"panic"}

ApplyHunk ==
  /\ a_at = "apply" /\ hi < Len(hunks)
  /\ LET h   == hunks[hi + 1]
         idx == h.start + cum
         old == Strings(OldSide(h.body))
         new == Strings(NewSide(h.body))
     IN  IF idx >= 0 /\ idx + Len(old) <= Len(copy) /\ Matches(idx, old)
         THEN /\ copy' = Splice(idx, old, new) /\ cum' = cum + Shift(old, new)
              /\ hi' = hi + 1 /\ UNCHANGED a_at
         ELSE /\ a_at' \in IF idx < 0 THEN BeforeFirst(idx, old) ELSE {"refused"}
              /\ UNCHANGED <<copy, cum, hi>>
  /\ UNCHANGED <<orig, diff, i, hunks, outFile>>

(* The text of the copy: the last line feed comes back if there is none. *)
Result ==
  LET text == Join(copy)
  IN  IF EndsWithLF(orig) /\ ~EndsWithLF(text) THEN Append(text, "") ELSE text

(* Without --out the text is printed. fs::write empties the file first and    *)
(* may fail after that.                                                      *)
WriteOut ==
  /\ a_at = "apply" /\ hi = Len(hunks)
  /\ \/ a_at' = "ok" /\ outFile' = [is |-> "whole", text |-> Result]
     \/ a_at' = "ok" /\ UNCHANGED outFile
     \/ a_at' = "failed" /\ outFile' = [outFile EXCEPT !.is = "torn"]
  /\ UNCHANGED <<orig, diff, i, hunks, copy, cum, hi>>

PatchNext == ParseHunk \/ HunksRead \/ ApplyHunk \/ WriteOut

-----------------------------------------------------------------------------
(* What a diff says, without shifts and copies: hunk k stands for the lines    *)
(* Covered(k) of the original.                                               *)
Headers    == {k \in DOMAIN diff : diff[k].is = "@@"}
Old(k)     == Strings(OldSide(BodyOf(k)))
New(k)     == Strings(NewSide(BodyOf(k)))
Covered(k) == Start(diff[k]) + 1 .. Start(diff[k]) + Len(Old(k))

(* Hunks as diff -u writes them: readable, counted right, each with lines of  *)
(* the original, in order and apart.                                         *)
WellWritten ==
  \A k \in Headers :
    /\ diff[k].old > 0 /\ CountsAgree(diff[k], BodyOf(k)) /\ Old(k) # <<>>
    /\ \A j \in Headers : j < k => \A m \in Covered(j), n \in Covered(k) : m < n

Lines == LinesIn(orig)
Fits(k) ==
  \A n \in DOMAIN Old(k) :
    LET m == Start(diff[k]) + n
    IN  m <= Len(Lines) /\ Lines[m] = Old(k)[n]

(* Every line of the original as it is, or as the hunk says that begins there *)
(* or covers it.                                                             *)
SplicedBy(done) ==
  LET upto[n \in 0 .. Len(Lines)] ==
        IF n = 0 THEN <<>>
        ELSE upto[n - 1] \o
             IF \E k \in done : n = Start(diff[k]) + 1
             THEN New(CHOOSE k \in done : n = Start(diff[k]) + 1)
             ELSE IF \E k \in done : n \in Covered(k) THEN <<>> ELSE <<Lines[n]>>
  IN  upto[Len(Lines)]

FirstHeaders(n) == {k \in Headers : Cardinality({j \in Headers : j <= k}) <= n}

(* After each hunk the copy is the original with the hunks so far put where   *)
(* they were said to go, however the ones before changed the length; and the *)
(* text that is written has those lines, unless the last of them is blank or *)
(* none is left (patch.rs 114-161).                                          *)
SplicedExactly ==
  (WellWritten /\ a_at # "parse") =>
    /\ copy = SplicedBy(FirstHeaders(hi))
    /\ (outFile.is = "whole" /\ copy # <<>>) =>
         (copy[Len(copy)] # "" =>
            LinesIn(outFile.text) = copy /\ EndsWithLF(outFile.text) = EndsWithLF(orig))

(* A well-written diff is refused exactly if a hunk does not fit the original, *)
(* and never stops the program otherwise (patch.rs 100-133).                 *)
RefusedIffConflict ==
  (WellWritten /\ a_at \notin {"parse", "apply"}) =>
    (a_at \in {"ok", "failed"} <=> \A k \in Headers : Fits(k)) /\ a_at # "panic"

(* A diff is refused exactly if it does not fit, and otherwise every hunk is  *)
(* spliced in at its place (patch.rs 60-223).                                *)
PatchExact == SplicedExactly /\ RefusedIffConflict
=============================================================================
