------------------------------ MODULE LeafRun ------------------------------
(***************************************************************************)
(* What the calls of src/src/machine.rs promise to the programs that use   *)
(* them: run_forward and reverse_n over the leaves of a program in order.  *)
(* That the job stack of the iterators hands out exactly these leaves is   *)
(* what Machine.tla is about; here a program is the sequence of its leaves.*)
(***************************************************************************)
EXTENDS PhaseInst, Sequences

CanRun(s, i) ==
  /\ RegOperands(i) \subseteq DOMAIN s.regs
  /\ MemOperands(s, i) \subseteq DOMAIN s.mem

Go(s) == [s |-> s, done |-> 0, out |-> "ok"]

(* A leaf out of range ends the run; the leaves before it stay executed.     *)
ForwardLeaf(r, i) ==
  IF r.out # "ok" THEN r
  ELSE IF CanRun(r.s, i) THEN [s |-> Exec(r.s, i), done |-> r.done + 1, out |-> "ok"]
  ELSE [r EXCEPT !.out = "fault"]

RunForward(s, leaves) ==
  LET run[k \in 0 .. Len(leaves)] ==
        IF k = 0 THEN Go(s) ELSE ForwardLeaf(run[k - 1], leaves[k])
  IN  run[Len(leaves)]

(* reverse_n: up to n inverses from the end, down to the first leaf that has  *)
(* none.                                                                     *)
BackLeaf(r, i, n) ==
  IF r.out # "ok" THEN r
  ELSE IF r.done >= n \/ ~Invertible(i) THEN [r EXCEPT !.out = "stop"]
  ELSE IF CanRun(r.s, Inverse(i))
  THEN [s |-> Exec(r.s, Inverse(i)), done |-> r.done + 1, out |-> "ok"]
  ELSE [r EXCEPT !.out = "fault"]

ReverseN(s, leaves, n) ==
  LET back[k \in 0 .. Len(leaves)] ==
        IF k = 0 THEN Go(s) ELSE BackLeaf(back[k - 1], leaves[Len(leaves) + 1 - k], n)
  IN  back[Len(leaves)]

ReverseAll(s, leaves) == ReverseN(s, leaves, Len(leaves))

(* reversible_suffix_len *)
SuffixLen(leaves) ==
  LET last == {k \in DOMAIN leaves : ~Invertible(leaves[k])}
  IN  IF last = {} THEN Len(leaves)
      ELSE Len(leaves) - (CHOOSE k \in last : \A j \in last : j <= k)

(* The choices of a program that is run, and one of them for one that is not. *)
Among(on, choices) == IF on THEN choices ELSE {CHOOSE x \in choices : TRUE}

(* An instruction of two operands. *)
Leaf(op, a, b) == [op |-> op, a |-> a, b |-> b, c |-> 0, k |-> 0]
=============================================================================
