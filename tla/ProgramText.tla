---------------------------- MODULE ProgramText -----------------------------
(***************************************************************************)
(* The two parsers: of programs, in src/src/program.rs, and of programs with *)
(* control flow, in src/src/ctl.rs.                                        *)
(***************************************************************************)
EXTENDS LeafRun, FiniteSets

(***************************************************************************)
(* The parser of src/src/program.rs: a program is read line by line into a *)
(* tree, with a stack of the reps that are still open.                     *)
(*                                                                         *)
(* A line is its first token, in lower case, and the others; a line with   *)
(* nothing but a comment has the first token "". A token is [is, n]: a     *)
(* register, a number, or "bad" for anything else.                         *)
(***************************************************************************)
CONSTANTS Texts,           \* sequences of lines
          RegCounts,       \* values of nregs
          RegByte,         \* 2^8, what a register number is cut to
          ShiftWord        \* 2^32, what a shift is cut to

ASSUME TextAssumption == RegByte \in Nat \ {0} /\ ShiftWord \in Nat /\ ShiftWord % Width = 0

VARIABLES text, nregs,
          read,            \* how many lines are read
          root, repStack,  \* the finished nodes, and [count, body] of open reps
          p_at             \* "read", "ok" or "error"

textVars == <<text, nregs, read, root, repStack, p_at>>

Error  == [is |-> "error", n |-> 0]
Parsed(v)  == [is |-> "value", n |-> v]
Bad(x) == x.is = "error"

(* A number is below 2^64 without its sign; a negative one is wrapped. *)
ParseImm(t) ==
  IF t.is = "imm" /\ t.n \in -(Modulus - 1) .. Modulus - 1 THEN Parsed(t.n % Modulus) ELSE Error

(* Mutant: the first register past the file is let through. *)
ParseRegMutant(t, n) ==
  IF t.is = "reg" /\ t.n <= n THEN Parsed(t.n % RegByte) ELSE Error

ParseReg(t, n) ==
  IF t.is = "reg" /\ t.n < n THEN Parsed(t.n % RegByte) ELSE Error

(* What the arguments of an instruction are, in order. *)
Shape(op) ==
  CASE op = "nop"                       -> <<>>
    [] op \in {"not", "inc", "dec"}     -> <<"reg">>
    [] op \in BinaryOps                 -> <<"reg", "reg">>
    [] op \in TernaryOps                -> <<"reg", "reg", "reg">>
    [] op \in {"rotl", "rotr", "mulc", "set"} -> <<"reg", "imm">>
    [] op = "mset"                      -> <<"imm", "imm">>

ParseArg(t, kind, n) == IF kind = "reg" THEN ParseReg(t, n) ELSE ParseImm(t)

(* parse_inst *)
ParseInst(w, args, n) ==
  IF w \notin Ops \/ (w \in Ops /\ Len(args) # Len(Shape(w))) THEN Error
  ELSE LET shape  == Shape(w)
           parsed == [j \in DOMAIN args |-> ParseArg(args[j], shape[j], n)]
           val    == [j \in 1 .. 3 |-> IF j \in DOMAIN args THEN parsed[j].n ELSE 0]
           hasImm == \E j \in DOMAIN shape : shape[j] = "imm"
       IN  IF \E j \in DOMAIN args : Bad(parsed[j]) THEN Error
           ELSE Parsed([op |-> w, a |-> val[1], b |-> IF hasImm THEN 0 ELSE val[2], c |-> val[3],
                    k  |-> CASE w \in {"rotl", "rotr"} -> val[2] % ShiftWord
                             [] hasImm /\ w \notin {"rotl", "rotr"} -> val[2]
                             [] OTHER -> 0])

-----------------------------------------------------------------------------
TextStart(on) ==
  /\ text \in (IF on THEN Texts ELSE {<<>>}) /\ nregs \in Among(on, RegCounts)
  /\ read = 0 /\ root = <<>> /\ repStack = <<>>
  /\ p_at = "read"

Fails == p_at' = "error" /\ UNCHANGED <<root, repStack>>

(* push_node, onto a stack that was popped or not *)
PushNode(stack, node) ==
  IF stack = <<>>
  THEN root' = Append(root, node) /\ repStack' = stack
  ELSE UNCHANGED root /\ repStack' = [stack EXCEPT ![Len(stack)].body = Append(@, node)]

OpenRep(args) ==
  IF Len(args) # 1 \/ Bad(ParseImm(args[1])) THEN Fails
  ELSE /\ repStack' = Append(repStack, [count |-> ParseImm(args[1]).n, body |-> <<>>])
       /\ UNCHANGED <<root, p_at>>

(* Mutant: the closed rep goes to the root, not into the rep around it. *)
CloseRepMutant(args) ==
  IF args # <<>> \/ repStack = <<>> THEN Fails
  ELSE LET top == repStack[Len(repStack)]
       IN  /\ root' = Append(root, [kind |-> "rep", count |-> top.count, body |-> top.body])
           /\ repStack' = SubSeq(repStack, 1, Len(repStack) - 1) /\ UNCHANGED p_at

CloseRep(args) ==
  IF args # <<>> \/ repStack = <<>> THEN Fails
  ELSE LET top == repStack[Len(repStack)]
       IN  /\ PushNode(SubSeq(repStack, 1, Len(repStack) - 1),
                       [kind |-> "rep", count |-> top.count, body |-> top.body])
           /\ UNCHANGED p_at

AddInst(w, args) ==
  LET p == ParseInst(w, args, nregs)
  IN  IF Bad(p) THEN Fails
      ELSE PushNode(repStack, [kind |-> "inst", inst |-> p.n]) /\ UNCHANGED p_at

ReadLine ==
  /\ p_at = "read" /\ read < Len(text)
  /\ read' = read + 1
  /\ LET l == text[read + 1]
     IN  CASE l.w = ""    -> UNCHANGED <<root, repStack, p_at>>
           [] l.w = "rep" -> OpenRep(l.args)
           [] l.w = "end" -> CloseRep(l.args)
           [] OTHER       -> AddInst(l.w, l.args)
  /\ UNCHANGED <<text, nregs>>

(* Mutant: a rep that is still open at the end of the text is let go. *)
EndOfTextMutant ==
  /\ p_at = "read" /\ read = Len(text)
  /\ p_at' = "ok"
  /\ UNCHANGED <<text, nregs, read, root, repStack>>

EndOfText ==
  /\ p_at = "read" /\ read = Len(text)
  /\ p_at' = IF repStack = <<>> THEN "ok" ELSE "error"
  /\ UNCHANGED <<text, nregs, read, root, repStack>>

TextNext == ReadLine \/ EndOfText

-----------------------------------------------------------------------------
(* A tree as the lines it is written with. *)

Num(v) == [is |-> "imm", n |-> v]
R(v)   == [is |-> "reg", n |-> v]

InstLine(i) ==
  [w |-> i.op,
   args |-> IF i.op = "mset" THEN <<Num(i.a), Num(i.k)>>
            ELSE [j \in DOMAIN Shape(i.op) |->
                    IF Shape(i.op)[j] = "imm" THEN Num(i.k) ELSE R(<<i.a, i.b, i.c>>[j])]]

Line(w, arg) == [w |-> w, args |-> <<arg>>]
EndLine      == [w |-> "end", args |-> <<>>]

RECURSIVE LinesOf(_)
LinesOf(nodes) ==
  IF nodes = <<>> THEN <<>>
  ELSE LET n == Head(nodes)
       IN  (CASE n.kind = "inst" -> <<InstLine(n.inst)>>
              [] n.kind = "rep"  -> <<Line("rep", Num(n.count))>> \o LinesOf(n.body) \o <<EndLine>>
              [] n.kind \in {"ifnz", "wz"} ->
                   <<Line(n.kind, R(n.reg))>> \o LinesOf(n.body) \o <<EndLine>>)
           \o LinesOf(Tail(nodes))

(* The lines read so far, without the empty ones, with every number as the    *)
(* word it stands for.                                                       *)
AsWord(l, t) ==
  IF t.is = "imm" THEN Num((t.n % Modulus) % (IF l.w \in {"rotl", "rotr"} THEN ShiftWord ELSE Modulus))
  ELSE t
Canonical(l) == [l EXCEPT !.args = [j \in DOMAIN @ |-> AsWord(l, @[j])]]
LinesTo(n) ==
  LET upto[k \in 0 .. n] ==
        IF k = 0 THEN <<>>
        ELSE IF text[k].w = "" THEN upto[k - 1] ELSE Append(upto[k - 1], Canonical(text[k]))
  IN  upto[n]

OpenLines ==
  LET upto[k \in 0 .. Len(repStack)] ==
        IF k = 0 THEN <<>>
        ELSE upto[k - 1] \o <<Line("rep", Num(repStack[k].count))>> \o LinesOf(repStack[k].body)
  IN  upto[Len(repStack)]

(* At every line the tree and the open reps, written out, are the lines read  *)
(* so far: nesting, order, counts, operands and wrapped numbers are those of *)
(* the text, for register files of up to 256 (program.rs 73-213).            *)
TreeIsText ==
  (p_at # "error" /\ nregs <= RegByte) => LinesOf(root) \o OpenLines = LinesTo(read)

(* A line that is an instruction by itself: the right number of arguments,    *)
(* each a register of the file or a number of a word.                        *)
GoodArg(t, kind) ==
  t.is = kind /\ IF kind = "reg" THEN t.n < nregs ELSE t.n \in -(Modulus - 1) .. Modulus - 1
GoodLine(l) ==
  LET shape == CASE l.w = "rep" -> <<"imm">> [] l.w \in {"", "end"} -> <<>>
                 [] l.w \in Ops -> Shape(l.w) [] OTHER -> <<"unknown">>
  IN  Len(l.args) = Len(shape) /\ \A j \in DOMAIN shape : GoodArg(l.args[j], shape[j])

Count(w, n) == Cardinality({k \in 1 .. n : text[k].w = w})

(* A text is accepted exactly if all its lines are good, no end is without a  *)
(* rep before it, and no rep is without an end (program.rs 86-112).           *)
AcceptsNested ==
  p_at # "read" =>
    (p_at = "ok" <=>
      /\ \A k \in DOMAIN text : GoodLine(text[k]) /\ Count("end", k) <= Count("rep", k)
      /\ Count("end", Len(text)) = Count("rep", Len(text)))

(* An accepted program names no register that a state of nregs registers has  *)
(* not: of its operands only the addresses can stop a run, whatever was cut   *)
(* from a register number on the way (program.rs 47-57, inst.rs exec).        *)
Registers(l) == {l.args[j].n : j \in {m \in DOMAIN l.args : l.args[m].is = "reg"}}
RegistersExist ==
  p_at = "ok" => \A k \in DOMAIN LinesOf(root) :
                   \A r \in Registers(LinesOf(root)[k]) : r \in 0 .. nregs - 1

(* The parser of program.rs reads exactly the texts of the language, as what  *)
(* they say, and names no register that is not there (program.rs 33-213).    *)
TextExact == TreeIsText /\ AcceptsNested /\ RegistersExist

-----------------------------------------------------------------------------
(***************************************************************************)
(* The parser of src/src/ctl.rs, which reads the language with ifnz and wz *)
(* and shares the lines of a single instruction with program.rs. Here it   *)
(* reads the same text.                                                    *)
(***************************************************************************)
VARIABLES lread, lroot,
          stack,           \* [kind, arg, body] of open blocks
          l_at

controlVars == <<lread, lroot, stack, l_at>>

ControlStart == lread = 0 /\ lroot = <<>> /\ stack = <<>> /\ l_at = "read"

Refused == l_at' = "error" /\ UNCHANGED <<lroot, stack>>

(* Mutant: the node goes to the root whatever is open. *)
PushMutant(open, node) == lroot' = Append(lroot, node) /\ stack' = open

(* push *)
Push(open, node) ==
  IF open = <<>>
  THEN lroot' = Append(lroot, node) /\ stack' = open
  ELSE UNCHANGED lroot /\ stack' = [open EXCEPT ![Len(open)].body = Append(@, node)]

BlockArg(kind, t) == IF kind = "rep" THEN ParseImm(t) ELSE ParseReg(t, nregs)

OpenBlock(kind, args) ==
  IF Len(args) # 1 \/ (Len(args) = 1 /\ Bad(BlockArg(kind, args[1]))) THEN Refused
  ELSE /\ stack' = Append(stack, [kind |-> kind, arg |-> BlockArg(kind, args[1]).n, body |-> <<>>])
       /\ UNCHANGED <<lroot, l_at>>

Block(b) ==
  IF b.kind = "rep" THEN [kind |-> "rep", count |-> b.arg, body |-> b.body]
                    ELSE [kind |-> b.kind, reg |-> b.arg, body |-> b.body]

(* Mutant: a block is closed by the kind of the outermost one. *)
CloseBlockMutant ==
  IF stack = <<>> THEN Refused
  ELSE /\ Push(SubSeq(stack, 1, Len(stack) - 1),
               Block([stack[Len(stack)] EXCEPT !.kind = stack[1].kind]))
       /\ UNCHANGED l_at

(* The end of a block may have more tokens, which are not looked at. *)
CloseBlock ==
  IF stack = <<>> THEN Refused
  ELSE /\ Push(SubSeq(stack, 1, Len(stack) - 1), Block(stack[Len(stack)]))
       /\ UNCHANGED l_at

AddLeaf(w, args) ==
  LET p == ParseInst(w, args, nregs)
  IN  IF Bad(p) THEN Refused
      ELSE Push(stack, [kind |-> "inst", inst |-> p.n]) /\ UNCHANGED l_at

ReadControlLine ==
  /\ l_at = "read" /\ lread < Len(text)
  /\ lread' = lread + 1
  /\ LET l == text[lread + 1]
     IN  CASE l.w = ""                       -> UNCHANGED <<lroot, stack, l_at>>
           [] l.w \in {"rep", "ifnz", "wz"} -> OpenBlock(l.w, l.args)
           [] l.w = "end"                    -> CloseBlock
           [] OTHER                          -> AddLeaf(l.w, l.args)

EndOfControlText ==
  /\ l_at = "read" /\ lread = Len(text)
  /\ l_at' = IF stack = <<>> THEN "ok" ELSE "error"
  /\ UNCHANGED <<lread, lroot, stack>>

ControlNext == (ReadControlLine \/ EndOfControlText) /\ UNCHANGED textVars

-----------------------------------------------------------------------------
(* What program.rs accepts, ctl.rs accepts as the same tree; and what it      *)
(* accepts beyond that has a block of its own or an end with more tokens      *)
(* (ctl.rs 48-115).                                                          *)
SameTree ==
  (p_at # "read" /\ l_at # "read") =>
    /\ p_at = "ok" => l_at = "ok" /\ lroot = root
    /\ l_at = "ok" /\ p_at # "ok" =>
         \E k \in DOMAIN text : text[k].w \in {"ifnz", "wz"} \/ (text[k].w = "end" /\ text[k].args # <<>>)

OpenBlockLines ==
  LET upto[k \in 0 .. Len(stack)] ==
        IF k = 0 THEN <<>>
        ELSE upto[k - 1]
             \o <<Line(stack[k].kind, IF stack[k].kind = "rep" THEN Num(stack[k].arg) ELSE R(stack[k].arg))>>
             \o LinesOf(stack[k].body)
  IN  upto[Len(stack)]

(* As TreeIsText, for the blocks of ctl.rs: each end closes the innermost     *)
(* block as what it was opened as (ctl.rs 94-104).                           *)
BlocksAreText ==
  (l_at # "error" /\ nregs <= RegByte) =>
    LinesOf(lroot) \o OpenBlockLines =
      [k \in DOMAIN LinesTo(lread) |->
         IF LinesTo(lread)[k].w = "end" THEN EndLine ELSE LinesTo(lread)[k]]

(* The parser of ctl.rs reads what program.rs reads as the same tree, and its *)
(* own blocks as they are nested (ctl.rs 48-115).                            *)
ControlExact == SameTree /\ BlocksAreText
=============================================================================
