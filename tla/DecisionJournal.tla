-------------------------- MODULE DecisionJournal --------------------------
(***************************************************************************)
(* The control layer of src/src/ctl.rs: programs with data-dependent       *)
(* branches (ifnz), loops (wz) and static loops (rep) over the reversible  *)
(* instructions, run forward with a journal of decisions and run backward  *)
(* from the journal, trusting it (reverse) or comparing the conditions of  *)
(* the branches with it (reverse_checked).                                 *)
(*                                                                         *)
(* Programs are trees. What is said of them by recursion is said level by  *)
(* level: of programs nested at most d deep, from what is known of those   *)
(* nested at most d - 1 deep.                                              *)
(*                                                                         *)
(* The machine below is a caller with one state and one journal that runs  *)
(* programs and takes the latest one back; each call is one step, failed   *)
(* calls leave what they had done so far. One journal entry may be damaged *)
(* on the way, which is what reverse_checked is there to notice.           *)
(***************************************************************************)
EXTENDS PhaseInst, Sequences
Seqs == INSTANCE SequencesExt

CONSTANTS CtlPrograms,     \* node sequences the caller runs
          CtlStates,       \* states it starts from
          MaxDepth,        \* bound on the nesting of blocks
          MaxIters,        \* MAX_WHILE_ITERS
          MaxRuns,         \* bound on the programs run
          DamagedValues    \* what a damaged entry may read as

VARIABLES machine, journal,
          calls,      \* frames of the programs run and not taken back
          runs,       \* how many programs were run
          damaged,    \* was an entry changed
          last        \* the last call: its name, its fault, its frame

ctlVars == <<machine, journal, calls, runs, damaged, last>>

-----------------------------------------------------------------------------
(* Node, and the programs over some leaves: levels of nesting. *)

Nodes(leaves, bodies) ==
  [kind : {"inst"}, inst : leaves]
  \union [kind : {"rep"}, count : Nat, body : bodies]
  \union [kind : {"ifnz", "wz"}, reg : Reg, body : bodies]

TreesOf(leaves) ==
  LET trees[d \in 0 .. MaxDepth] ==
        Seq(Nodes(leaves, IF d = 0 THEN {} ELSE trees[d - 1]))
  IN  trees

Trees == TreesOf(Inst)

ASSUME JournalAssumption ==
  /\ MaxDepth \in Nat /\ MaxIters \in Nat /\ MaxRuns \in Nat
  /\ CtlPrograms \subseteq Trees[MaxDepth]
  /\ CtlStates \subseteq State
  /\ DamagedValues \subseteq Nat

-----------------------------------------------------------------------------
(* A call works on a state and a journal until the first fault. *)

Faults == {"none", "range", "limit", "boundary", "empty", "diverged"}
Works  == [s : State, j : Seq(Nat), fault : Faults]

Work(st, j)    == [s |-> st, j |-> j, fault |-> "none"]
Ok(w)          == w.fault = "none"
Fail(w, fault) == [w EXCEPT !.fault = fault]
Push(w, n)     == [w EXCEPT !.j = Append(@, n)]
Copies(n, x)   == [k \in 1 .. n |-> x]
Condition(w, node) == w.s.regs[node.reg] # 0

(* One step after the other, each a function on Works. *)
InOrder(steps, w) ==
  LET upto[k \in 0 .. Len(steps)] == IF k = 0 THEN w ELSE steps[k][upto[k - 1]]
  IN  upto[Len(steps)]

RunLeaf(w, inst) ==
  IF InRange(w.s, inst) THEN [w EXCEPT !.s = Exec(@, inst)] ELSE Fail(w, "range")

(* How often a loop is gone round. *)
Halts(w, node, k)    == ~Ok(w) \/ ~Condition(w, node) \/ k = MaxIters
Turns(w, node, body) ==
  CHOOSE k \in 0 .. MaxIters :
    /\ Halts(InOrder(Copies(k, body), w), node, k)
    /\ \A j \in 0 .. k - 1 : ~Halts(InOrder(Copies(j, body), w), node, j)

(* seq_forward: a decision is written after the body it decided about.       *)
(* run[body] is what the body of a block does.                               *)
ForwardLoop(w, node, body) ==
  LET n == Turns(w, node, body)
      x == InOrder(Copies(n, body), w)
  IN  CASE ~Ok(x) -> x
        [] Ok(x) /\ Condition(x, node)  -> Fail(x, "limit")
        [] Ok(x) /\ ~Condition(x, node) -> Push(x, n)

ForwardBranch(w, node, body) ==
  IF Condition(w, node)
  THEN LET x == body[w] IN IF Ok(x) THEN Push(x, 1) ELSE x
  ELSE Push(w, 0)

ForwardNode(w, node, run) ==
  CASE ~Ok(w) -> w
    [] Ok(w) /\ node.kind = "inst" -> RunLeaf(w, node.inst)
    [] Ok(w) /\ node.kind = "rep"  -> InOrder(Copies(node.count, run[node.body]), w)
    [] Ok(w) /\ node.kind = "ifnz" -> ForwardBranch(w, node, run[node.body])
    [] Ok(w) /\ node.kind = "wz"   -> ForwardLoop(w, node, run[node.body])

ForwardTo[d \in 0 .. MaxDepth] ==
  [p \in Trees[d] |-> [w \in Works |->
     InOrder([k \in 1 .. Len(p) |-> [x \in Works |->
                ForwardNode(x, p[k], IF d = 0 THEN <<>> ELSE ForwardTo[d - 1])]], w)]]

SeqForward(w, p) == ForwardTo[MaxDepth][p][w]

(* seq_reverse and the rev of reverse_checked. What differs: reverse refuses *)
(* an aliased leaf, reverse_checked compares the conditions of branches.     *)
ReverseLeaf(w, inst, checked) ==
  IF IsIrreversible(inst) \/ (~checked /\ OperandAlias(inst))
  THEN Fail(w, "boundary")
  ELSE RunLeaf(w, Inverse(inst))

(* Mutant: a loop is taken back as a branch, once. *)
TakeBackMutant(w, body, n) == IF n = 0 THEN w ELSE body[w]

TakeBack(w, body, n) == InOrder(Copies(n, body), w)

(* Mutant: only a branch that was taken is compared. *)
CheckFlagMutant(w, node, flag, checked) ==
  IF checked /\ Ok(w) /\ flag # 0 /\ ~Condition(w, node) THEN Fail(w, "diverged") ELSE w

CheckFlag(w, node, flag, checked) ==
  IF checked /\ Ok(w) /\ flag # (IF Condition(w, node) THEN 1 ELSE 0)
  THEN Fail(w, "diverged")
  ELSE w

Entry(w)  == w.j[Len(w.j)]
Popped(w) == [w EXCEPT !.j = SubSeq(@, 1, Len(@) - 1)]

ReverseNode(w, node, checked, back) ==
  CASE ~Ok(w) -> w
    [] Ok(w) /\ node.kind = "inst" -> ReverseLeaf(w, node.inst, checked)
    [] Ok(w) /\ node.kind = "rep"  -> TakeBack(w, back[node.body], node.count)
    [] Ok(w) /\ node.kind \in {"ifnz", "wz"} /\ w.j = <<>> -> Fail(w, "empty")
    [] Ok(w) /\ node.kind = "ifnz" /\ w.j # <<>> ->
         CheckFlag(TakeBack(Popped(w), back[node.body], IF Entry(w) # 0 THEN 1 ELSE 0),
                   node, Entry(w), checked)
    [] Ok(w) /\ node.kind = "wz" /\ w.j # <<>> ->
         TakeBack(Popped(w), back[node.body], Entry(w))

ReverseTo(checked) ==
  LET back[d \in 0 .. MaxDepth] ==
        [p \in Trees[d] |-> [w \in Works |->
           InOrder([k \in 1 .. Len(p) |-> [x \in Works |->
                      ReverseNode(x, p[Len(p) + 1 - k], checked,
                                  IF d = 0 THEN <<>> ELSE back[d - 1])]], w)]]
  IN  back

SeqReverse(w, p, checked) == ReverseTo(checked)[MaxDepth][p][w]

-----------------------------------------------------------------------------
(* The caller. A frame is one program run: what it found and what it left. *)

Frame(p, w) == [prog |-> p, s |-> machine, j |-> journal, left |-> [s |-> w.s, j |-> w.j]]

CtlInit ==
  /\ machine \in CtlStates
  /\ journal = <<>>
  /\ calls = <<>>
  /\ runs = 0
  /\ damaged = FALSE
  /\ last = [call |-> "none", fault |-> "none"]

(* A call that failed is the last one: the caller unwraps its result. *)
Going == last.fault = "none"

(* Mutant: the journal starts afresh for each program. *)
ForwardMutant(p) ==
  LET w == SeqForward(Work(machine, <<>>), p)
  IN  /\ Going
      /\ runs < MaxRuns
      /\ runs' = runs + 1
      /\ machine' = w.s
      /\ journal' = w.j
      /\ calls' = Append(calls, Frame(p, w))
      /\ last' = [call |-> "forward", fault |-> w.fault, frame |-> Frame(p, w)]
      /\ UNCHANGED damaged

Forward(p) ==
  LET w == SeqForward(Work(machine, journal), p)
  IN  /\ Going
      /\ runs < MaxRuns
      /\ runs' = runs + 1
      /\ machine' = w.s
      /\ journal' = w.j
      /\ calls' = Append(calls, Frame(p, w))
      /\ last' = [call |-> "forward", fault |-> w.fault, frame |-> Frame(p, w)]
      /\ UNCHANGED damaged

TakeBackLast(name, checked) ==
  LET frame == Seqs!Last(calls)
      w     == SeqReverse(Work(machine, journal), frame.prog, checked)
  IN  /\ Going
      /\ calls # <<>>
      /\ machine' = w.s
      /\ journal' = w.j
      /\ calls' = Seqs!Front(calls)
      /\ last' = [call |-> name, fault |-> w.fault, frame |-> frame,
                  from |-> [s |-> machine, j |-> journal]]
      /\ UNCHANGED <<runs, damaged>>

Reverse        == TakeBackLast("reverse", FALSE)
ReverseChecked == TakeBackLast("reverse_checked", TRUE)

(* One entry of the journal changes while it is kept. *)
Damage(k, n) ==
  /\ Going
  /\ ~damaged
  /\ n # journal[k]
  /\ journal' = [journal EXCEPT ![k] = n]
  /\ damaged' = TRUE
  /\ last' = [call |-> "none", fault |-> "none"]
  /\ UNCHANGED <<machine, calls, runs>>

CtlNext ==
  \/ \E p \in CtlPrograms : Forward(p)
  \/ Reverse
  \/ ReverseChecked
  \/ \E k \in DOMAIN journal, n \in DamagedValues : Damage(k, n)

CtlSpec == CtlInit /\ [][CtlNext]_ctlVars

-----------------------------------------------------------------------------
(* Words about programs, for the properties. *)

Reversible(p) == p \in TreesOf({i \in Inst : Invertible(i)})[MaxDepth]

Written(i) ==
  CASE i.op = "swp"  -> {i.a, i.b}
    [] i.op = "toff" -> {i.c}
    [] i.op = "cswp" -> {i.b, i.c}
    [] i.op \in MemDstOps \union {"mset", "nop"} -> {}
    [] OTHER -> {i.a}

(* Only branches, and none of them changes the register it is decided by. *)
Sparing(r) == TreesOf({i \in Inst : r \notin Written(i)})

StableTrees[d \in 0 .. MaxDepth] ==
  LET bodies == IF d = 0 THEN {} ELSE StableTrees[d - 1]
  IN  Seq({n \in Nodes({i \in Inst : Invertible(i)}, bodies) :
             /\ n.kind # "wz"
             /\ n.kind = "ifnz" => n.body \in Sparing(n.reg)[d - 1]})

TakenBack == last.call \in {"reverse", "reverse_checked"}
Intact    == last.from = last.frame.left
Restored  == machine = last.frame.s /\ journal = last.frame.j

(* The same state and as many entries, but a decision of this program differs. *)
OwnDecisionChanged ==
  LET own(j) == SubSeq(j, Len(last.frame.j) + 1, Len(j))
  IN  /\ last.from.s = last.frame.left.s
      /\ Len(last.from.j) = Len(last.frame.left.j)
      /\ own(last.from.j) # own(last.frame.left.j)

-----------------------------------------------------------------------------
(* Whatever programs do, the state stays a state of the machine and the      *)
(* journal a sequence of small numbers (seq_forward, seq_reverse).           *)
JournalTypeOK ==
  /\ machine \in State
  /\ journal \in Seq(Nat)
  /\ runs <= MaxRuns
  /\ Len(calls) <= runs
  /\ damaged \in BOOLEAN
  /\ last.fault \in Faults

(* From what forward left, reverse and reverse_checked of a reversible       *)
(* program never fail and bring back the state and the journal forward found *)
(* (ctl.rs lines 117-193, 218-261), through every branch, loop and nesting.  *)
(* For any program at all, a reverse that returns Ok has restored both.      *)
ReverseRestores ==
  TakenBack /\ Intact =>
    /\ Reversible(last.frame.prog) => Ok(last) /\ Restored
    /\ last.call = "reverse" /\ Ok(last) => Restored

(* Neither forward, even one that fails half way, nor a reverse of what it   *)
(* wrote eats into the decisions of the programs run before (the journal is  *)
(* a stack shared by all of them, ctl.rs lines 139, 150, 179, 185).          *)
EarlierDecisionsKept ==
  last.call = "forward" \/ (TakenBack /\ Intact) => Seqs!IsPrefix(last.frame.j, journal)

(* reverse_checked notices any change of a decision of a program that has    *)
(* only branches, provided none of them changes the register it is decided   *)
(* by (ctl.rs lines 237-247).                                                *)
FlagDamageDetected ==
  /\ last.call = "reverse_checked"
  /\ last.frame.prog \in StableTrees[MaxDepth]
  /\ OwnDecisionChanged
  => ~Ok(last)

(* What runs in stack order may rely on: the values stay words, a call that   *)
(* fails half way leaves the entries of earlier runs alone, and reverse gives *)
(* back the state it started from (ctl.rs 117-200).                          *)
JournalSafe == JournalTypeOK /\ ReverseRestores /\ EarlierDecisionsKept
=============================================================================
