------------------------------ MODULE Machine ------------------------------
(***************************************************************************)
(* The machine of src/src/machine.rs: programs are trees of instructions   *)
(* and static loops (rep), and their leaves are streamed by an iterator    *)
(* that keeps a stack of jobs instead of the unrolled program. The calls   *)
(* run_forward, reverse_n, reversible_suffix_len and leaf_at consume it.   *)
(* Also the static check of src/src/lib.rs, which walks the same tree.     *)
(*                                                                         *)
(* A call starts the iterator; each turn of the loop of StreamIter::next   *)
(* is one action, and yielding a leaf includes what the call does with it. *)
(* What is said of programs by recursion on the tree is said level by      *)
(* level: of loops nested at most d deep from those nested d - 1 deep.     *)
(***************************************************************************)
EXTENDS PhaseInst, Sequences, FiniteSets
Lists == INSTANCE SequencesExt

CONSTANTS LoopPrograms,    \* node sequences
          MachineStates,
          MaxNesting,      \* bound on the nesting of loops
          Limits,          \* arguments n of reverse_n and idx of leaf_at
          MaxCalls         \* bound on the calls of a behaviour

(* Node of src/src/program.rs, and the programs over it. *)
LoopNodes(bodies) ==
  [kind : {"inst"}, inst : Inst] \union [kind : {"rep"}, count : Nat, body : bodies]

LoopTrees[d \in 0 .. MaxNesting] ==
  Seq(LoopNodes(IF d = 0 THEN {} ELSE LoopTrees[d - 1]))

ASSUME MachineAssumption ==
  /\ MaxNesting \in Nat /\ Limits \subseteq Nat /\ MaxCalls \in Nat
  /\ LoopPrograms \subseteq LoopTrees[MaxNesting]
  /\ MachineStates \subseteq State

VARIABLES debug,     \* are debug assertions compiled in
          prog, state,
          call,      \* the call being carried out: name and argument
          jobs,      \* StreamIter.jobs, the top last
          done,      \* leaves the call has dealt with
          ended,     \* the last call that ended, and how
          made,      \* how many calls were made
          yielded,   \* history: the leaves the iterator gave the call
          passed     \* history: the states of the last run_forward, one per leaf

machineVars == <<debug, prog, state, call, jobs, done, ended, made, yielded, passed>>

Free   == [name |-> "idle", n |-> 0]
Calls  == {"forward", "reverse", "suffix", "leaf"}
NoCall == [call |-> Free, done |-> 0, out |-> "ok", found |-> "none"]

-----------------------------------------------------------------------------
(* Jobs. *)

Forwards == call.name \in {"forward", "leaf"}

(* Mutant: a sequence walked backwards starts at the last node but one. *)
FirstIndexMutant(nodes, forwards) == IF forwards THEN 1 ELSE Len(nodes) - 1

FirstIndex(nodes, forwards) == IF forwards THEN 1 ELSE Len(nodes)
SeqJob(nodes, forwards) ==
  [kind |-> "seq", nodes |-> nodes, idx |-> FirstIndex(nodes, forwards)]
RepJob(body, count) == [kind |-> "rep", body |-> body, count |-> count]

Top       == Lists!Last(jobs)
Exhausted == Top.idx \notin 1 .. Len(Top.nodes)
Node      == Top.nodes[Top.idx]

(* The sequence job on top steps over the node it stands at. *)
Stepped == [jobs EXCEPT ![Len(jobs)].idx = IF Forwards THEN @ + 1 ELSE @ - 1]

OnSeq == jobs # <<>> /\ Top.kind = "seq"
OnRep == jobs # <<>> /\ Top.kind = "rep"

-----------------------------------------------------------------------------
(* The calls. *)

MachineInit ==
  /\ debug \in BOOLEAN
  /\ prog \in LoopPrograms
  /\ state \in MachineStates
  /\ call = Free
  /\ jobs = <<>>
  /\ done = 0
  /\ ended = NoCall
  /\ made = 0
  /\ yielded = <<>>
  /\ passed = <<>>

Begin(name, n, forwards) ==
  /\ call = Free
  /\ made < MaxCalls
  /\ made' = made + 1
  /\ call' = [name |-> name, n |-> n]
  /\ jobs' = <<SeqJob(prog, forwards)>>
  /\ done' = 0
  /\ yielded' = <<>>
  /\ passed' = IF name = "forward" THEN <<state>> ELSE passed
  /\ UNCHANGED <<debug, prog, state, ended>>

(* Programs are taken back after they ran to their end; main and the         *)
(* examples stop at an error of run_forward.                                 *)
NoError     == ended.out = "ok"
RunForward  == NoError /\ Begin("forward", 0, TRUE)
ReverseN(n) == NoError /\ ended.call.name = "forward" /\ Begin("reverse", n, FALSE)
SuffixLen   == NoError /\ Begin("suffix", 0, FALSE)
LeafAt(n)   == NoError /\ Begin("leaf", n, TRUE)

(* The call returns and drops the iterator. *)
Return(out, found, k) ==
  /\ ended' = [call |-> call, done |-> k, out |-> out, found |-> found]
  /\ call' = Free
  /\ jobs' = <<>>

-----------------------------------------------------------------------------
(* StreamIter::next. *)

Keep == UNCHANGED <<debug, prog, state, call, done, ended, made, yielded, passed>>

Pop ==
  /\ (OnSeq /\ Exhausted) \/ (OnRep /\ Top.count = 0)
  /\ jobs' = Lists!Front(jobs)
  /\ Keep

SkipEmptyRep ==
  /\ OnSeq /\ ~Exhausted
  /\ Node.kind = "rep" /\ Node.count = 0
  /\ jobs' = Stepped
  /\ Keep

(* Mutant: the sequence is not stepped over the loop it has started. *)
PushRepMutant ==
  /\ OnSeq /\ ~Exhausted
  /\ Node.kind = "rep" /\ Node.count > 0
  /\ jobs' = Append(jobs, RepJob(Node.body, Node.count))
  /\ Keep

PushRep ==
  /\ OnSeq /\ ~Exhausted
  /\ Node.kind = "rep" /\ Node.count > 0
  /\ jobs' = Append(Stepped, RepJob(Node.body, Node.count))
  /\ Keep

(* Mutant: all turns of a loop are put on the stack at once. *)
EnterBodyMutant ==
  /\ OnRep
  /\ Top.count > 0
  /\ jobs' = [jobs EXCEPT ![Len(jobs)].count = 0]
             \o [c \in 1 .. Top.count |-> SeqJob(Top.body, Forwards)]
  /\ Keep

EnterBody ==
  /\ OnRep
  /\ Top.count > 0
  /\ jobs' = Append([jobs EXCEPT ![Len(jobs)].count = @ - 1],
                    SeqJob(Top.body, Forwards))
  /\ Keep

(* The iterator is through: the call returns what it has. *)
End ==
  /\ call # Free
  /\ jobs = <<>>
  /\ Return("ok", "none", done)
  /\ UNCHANGED <<debug, prog, state, done, made, yielded, passed>>

-----------------------------------------------------------------------------
(* What a call does with a leaf. *)

Stop(out, found) == Return(out, found, done) /\ UNCHANGED <<state, done, passed>>
GoOn             == jobs' = Stepped /\ done' = done + 1 /\ UNCHANGED <<call, ended>>

Execute(leaf) ==
  \/ ~InRange(state, leaf) /\ Stop("fault", "none")
  \/ /\ InRange(state, leaf)
     /\ state' = Exec(state, leaf)
     /\ passed' = Append(passed, state')
     /\ GoOn

(* inverse() of a leaf is computed before operand_alias() is asked for, and  *)
(* asserts that the constant of a mulc is odd.                               *)
AssertionFails(leaf) == debug /\ leaf.op = "mulc" /\ leaf.k % 2 = 0

(* Mutant: aliasing is not looked at. *)
UndoLeafMutant(leaf) ==
  \/ done >= call.n /\ Stop("ok", "none")
  \/ done < call.n /\ IsIrreversible(leaf) /\ Stop("ok", "none")
  \/ /\ done < call.n /\ ~IsIrreversible(leaf)
     /\ \/ ~InRange(state, Inverse(leaf)) /\ Stop("fault", "none")
        \/ /\ InRange(state, Inverse(leaf))
           /\ state' = Exec(state, Inverse(leaf))
           /\ UNCHANGED passed
           /\ GoOn

UndoLeaf(leaf) ==
  \/ done >= call.n /\ Stop("ok", "none")
  \/ done < call.n /\ AssertionFails(leaf) /\ Stop("panic", "none")
  \/ done < call.n /\ ~AssertionFails(leaf) /\ ~Invertible(leaf) /\ Stop("ok", "none")
  \/ /\ done < call.n /\ Invertible(leaf)
     /\ \/ ~InRange(state, Inverse(leaf)) /\ Stop("fault", "none")
        \/ /\ InRange(state, Inverse(leaf))
           /\ state' = Exec(state, Inverse(leaf))
           /\ UNCHANGED passed
           /\ GoOn

CountSuffix(leaf) ==
  \/ AssertionFails(leaf) /\ Stop("panic", "none")
  \/ ~AssertionFails(leaf) /\ ~Invertible(leaf) /\ Stop("ok", "none")
  \/ Invertible(leaf) /\ GoOn /\ UNCHANGED <<state, passed>>

FindLeaf(leaf) ==
  \/ done = call.n /\ Stop("ok", leaf)
  \/ done # call.n /\ GoOn /\ UNCHANGED <<state, passed>>

Yield ==
  /\ OnSeq /\ ~Exhausted
  /\ Node.kind = "inst"
  /\ yielded' = Append(yielded, Node.inst)
  /\ \/ call.name = "forward" /\ Execute(Node.inst)
     \/ call.name = "reverse" /\ UndoLeaf(Node.inst)
     \/ call.name = "suffix"  /\ CountSuffix(Node.inst)
     \/ call.name = "leaf"    /\ FindLeaf(Node.inst)
  /\ UNCHANGED <<debug, prog, made>>

Turn == Pop \/ SkipEmptyRep \/ PushRep \/ EnterBody \/ Yield \/ End

MachineNext ==
  \/ RunForward \/ SuffixLen
  \/ \E n \in Limits : ReverseN(n) \/ LeafAt(n)
  \/ Turn

(* A call that was made runs on. *)
MachineSpec == MachineInit /\ [][MachineNext]_machineVars /\ WF_machineVars(Turn)

-----------------------------------------------------------------------------
(* The depth of a program, what it unrolls to, count_leaves and the static   *)
(* check.                                                                    *)

Depth(nodes) ==
  CHOOSE d \in 0 .. MaxNesting :
    nodes \in LoopTrees[d] /\ \A e \in 0 .. d - 1 : nodes \notin LoopTrees[e]

(* What is in it for each node, given what is in it for bodies. *)
LeavesOf(node, unrolled) ==
  CASE node.kind = "inst" -> <<node.inst>>
    [] node.kind = "rep"  -> Lists!FlattenSeq([c \in 1 .. node.count |-> unrolled[node.body]])

UnrolledTo[d \in 0 .. MaxNesting] ==
  [p \in LoopTrees[d] |->
     Lists!FlattenSeq([k \in 1 .. Len(p) |->
                         LeavesOf(p[k], IF d = 0 THEN <<>> ELSE UnrolledTo[d - 1])])]

(* One step after the other, each a function. *)
InTurn(steps, x) ==
  LET upto[k \in 0 .. Len(steps)] == IF k = 0 THEN x ELSE steps[k][upto[k - 1]]
  IN  upto[Len(steps)]

SumOf(numbers) == InTurn([k \in 1 .. Len(numbers) |-> [x \in Nat |-> x + numbers[k]]], 0)

CountOf(node, count) ==
  CASE node.kind = "inst" -> 1
    [] node.kind = "rep"  -> node.count * count[node.body]

CountTo[d \in 0 .. MaxNesting] ==
  [p \in LoopTrees[d] |->
     SumOf([k \in 1 .. Len(p) |-> CountOf(p[k], IF d = 0 THEN <<>> ELSE CountTo[d - 1])])]

(* check::walk: a report is the leaves seen, how many of them can be undone, *)
(* and the violations, each a position and a kind.                           *)
Reports == [total : Nat, invertible : Nat, violations : SUBSET (Nat \X {"alias", "boundary"})]
EmptyReport == [total |-> 0, invertible |-> 0, violations |-> {}]

(* Mutant: aliasing is no violation. *)
JudgeMutant(rep, inst) ==
  LET seen == [rep EXCEPT !.total = @ + 1]
  IN  IF IsIrreversible(inst)
      THEN [seen EXCEPT !.violations = @ \union {<<rep.total, "boundary">>}]
      ELSE [seen EXCEPT !.invertible = @ + 1]

Judge(rep, inst) ==
  LET seen == [rep EXCEPT !.total = @ + 1]
      violation(kind) == [seen EXCEPT !.violations = @ \union {<<rep.total, kind>>}]
  IN  CASE OperandAlias(inst) -> violation("alias")
        [] ~OperandAlias(inst) /\ IsIrreversible(inst) -> violation("boundary")
        [] Invertible(inst) -> [seen EXCEPT !.invertible = @ + 1]

WalkNode(rep, node, walk) ==
  CASE node.kind = "inst" -> Judge(rep, node.inst)
    [] node.kind = "rep"  -> InTurn([c \in 1 .. node.count |-> walk[node.body]], rep)

WalkTo[d \in 0 .. MaxNesting] ==
  [p \in LoopTrees[d] |-> [rep \in Reports |->
     InTurn([k \in 1 .. Len(p) |-> [r \in Reports |->
               WalkNode(r, p[k], IF d = 0 THEN <<>> ELSE WalkTo[d - 1])]], rep)]]

-----------------------------------------------------------------------------
Leaves      == UnrolledTo[Depth(prog)][prog]
CountLeaves == CountTo[Depth(prog)][prog]
Check       == WalkTo[Depth(prog)][prog][EmptyReport]
Order ==
  IF call.name \in {"reverse", "suffix"} THEN Lists!Reverse(Leaves) ELSE Leaves

(* Types, and the point of the job stack (machine.rs, lines 3-4): it never   *)
(* holds more than two jobs per level of nesting, whatever the counts.       *)
MachineTypeOK ==
  /\ prog \in LoopPrograms
  /\ state \in State
  /\ call.name \in Calls \union {"idle"}
  /\ Len(jobs) <= 2 * Depth(prog) + 1
  /\ ended.out \in {"ok", "fault", "panic"}
  /\ made \in 0 .. MaxCalls

(* StreamIter yields the leaves of the unrolled program, forwards or         *)
(* backwards, none twice and none left out, through loops of count zero,     *)
(* empty bodies and any nesting (machine.rs, lines 66-183).                  *)
LeavesInOrder ==
  call # Free =>
    /\ Lists!IsPrefix(yielded, Order)
    /\ jobs = <<>> => yielded = Order

(* The last leaf that cannot be undone ends what can be taken back. *)
Blocked ==
  LET all == Leaves
  IN  {k \in DOMAIN all : ~Invertible(all[k])}
Undoable ==
  LET blocked == Blocked
  IN  Len(Leaves) - (IF blocked = {} THEN 0 ELSE CHOOSE k \in blocked : \A j \in blocked : j <= k)

(* reverse_n after run_forward never fails, takes back exactly as many       *)
(* leaves as asked for or as the boundaries allow, and the state is the one  *)
(* run_forward had passed through at that leaf (machine.rs, lines 214-236).  *)
(* A build with assertions may panic, but at no other leaf.                  *)
ReverseIsExact ==
  call = Free /\ ended.call.name = "reverse" =>
    /\ ended.out = "ok" \/ (debug /\ ended.out = "panic")
    /\ ended.done = IF ended.call.n <= Undoable THEN ended.call.n ELSE Undoable
    /\ state = passed[Len(passed) - ended.done]

(* The suffix length, the report of the static check, count_leaves and       *)
(* leaf_at are four walks of one program and agree on what it unrolls to     *)
(* (machine.rs lines 11-22, 203-212, 240-242, lib.rs lines 93-140).          *)
WalksAgree ==
  call = Free =>
  /\ CountLeaves = Len(Leaves)
  /\ Check.total = Len(Leaves)
  /\ {v[1] + 1 : v \in Check.violations} = Blocked
  /\ Check.invertible = Len(Leaves) - Cardinality(Blocked)
  /\ ended.call.name = "suffix" => ended.done = Undoable
  /\ ended.call.name = "leaf" =>
       ended.found = IF ended.call.n < Len(Leaves) THEN Leaves[ended.call.n + 1] ELSE "none"

(* Every call returns. *)
CallsReturn == (call # Free) ~> (call = Free)

(* The job stack never points outside the program, and what it hands out, in  *)
(* either direction, is the unrolled program from one end to the other        *)
(* (machine.rs 30-140).                                                      *)
StreamSafe == MachineTypeOK /\ LeavesInOrder
=============================================================================
