---------------------------- MODULE CommandLine -----------------------------
(***************************************************************************)
(* Two command lines over the machine: phase-vm in src/src/main.rs, and the *)
(* image editor in src/examples/phase_img.rs.                              *)
(***************************************************************************)
EXTENDS LeafRun

(***************************************************************************)
(* The commands run, runrev, rev and roundtrip of src/src/main.rs: the     *)
(* state made from --regs, --mem and --set, the program run over it, and   *)
(* what is taken back. check and bench only report; dbg is Debugger.tla.   *)
(***************************************************************************)
CONSTANTS CliPrograms,     \* programs, as the sequences of their leaves
          SetArgs,         \* sequences of [reg, val] of --set
          Steps,           \* arguments of --steps; the largest stands for none
          Trials,          \* arguments of --trials
          RandomStates,    \* states roundtrip draws, of NRegs and NMem words
          SeedStep,        \* 0x9E3779B97F4A7C15, which spreads the seeds of the trials
          RegByte          \* 2^8, what a u8 register number is cut to

Setting == [reg : Nat, val : Word]

ASSUME CommandAssumption ==
  /\ CliPrograms \subseteq Seq(Inst)
  /\ SetArgs \subseteq Seq(Setting) /\ SetArgs # {}
  /\ Steps \subseteq Nat /\ Steps # {}
  /\ Trials \subseteq Nat /\ Trials # {}
  /\ RandomStates \subseteq State
  /\ SeedStep \in Word
  /\ RegByte \in Nat \ {0}

VARIABLES c_at, command, leaves, sets, steps,
          trials,
          overflows,       \* overflow checks are compiled in
          trial,           \* t of roundtrip
          start,           \* the state before the program
          result           \* [out, done, s] once the command has ended

arguments == <<command, leaves, sets, steps, trials, overflows>>
cliVars   == <<c_at, arguments, trial, start, result>>

Blank == [regs |-> [r \in Reg |-> 0], mem |-> [m \in Addr |-> 0]]

Pending == [out |-> "pending", done |-> 0, s |-> Blank]

CliStart(on) ==
  /\ command \in Among(on, {"run", "runrev", "rev", "roundtrip"})
  /\ leaves \in Among(on, CliPrograms)
  /\ sets \in Among(on /\ command # "roundtrip", SetArgs)
  /\ steps \in Among(on /\ command = "rev", Steps)
  /\ trials \in Among(on /\ command = "roundtrip", Trials)
  /\ overflows \in Among(on /\ command = "roundtrip", BOOLEAN)
  /\ c_at = "set" /\ trial = 0 /\ start = Blank /\ result = Pending

Target(a) == a.reg % RegByte

(* Mutant: the first --set of a register wins. *)
WinnerMutant(ks) == CHOOSE k \in ks : \A j \in ks : k <= j

Winner(ks) == CHOOSE k \in ks : \A j \in ks : j <= k

InitState ==
  /\ c_at = "set" /\ command # "roundtrip"
  /\ LET naming(r) == {k \in DOMAIN sets : Target(sets[k]) = r}
     IN  IF \E k \in DOMAIN sets : Target(sets[k]) \notin Reg
         THEN /\ c_at' = "ended" /\ result' = [Pending EXCEPT !.out = "exit"]
              /\ UNCHANGED start
         ELSE /\ start' = [Blank EXCEPT !.regs =
                    [r \in Reg |-> IF naming(r) = {} THEN 0
                                   ELSE sets[Winner(naming(r))].val]]
              /\ c_at' = "perform"
              /\ UNCHANGED result
  /\ UNCHANGED <<arguments, trial>>

Answer(out, done, s) == result' = [out |-> out, done |-> done, s |-> s]
Ends(r) == Answer(IF r.out = "fault" THEN "exit" ELSE "ok", r.done, r.s)

Least(x, y) == IF x < y THEN x ELSE y

(* Mutant: a program with aliased operands counts as reversible. *)
ReversibleMutant ==
  \A k \in DOMAIN leaves : ~IsIrreversible(leaves[k])

(* check: no boundary and no aliased operands *)
Reversible == \A k \in DOMAIN leaves : Invertible(leaves[k])

Run    == command = "run" /\ Ends(RunForward(start, leaves))
RunRev == command = "runrev" /\ Ends(ReverseAll(start, leaves))

(* Mutant: one leaf more than asked for. *)
BackMutant(f) == ReverseN(f.s, leaves, Least(steps + 1, SuffixLen(leaves)))

Back(f) == ReverseN(f.s, leaves, Least(steps, SuffixLen(leaves)))

Rev ==
  /\ command = "rev"
  /\ LET f == RunForward(start, leaves)
     IN  IF f.out # "ok" THEN Ends(f)
         ELSE Ends(Back(f))

(* The product of a trial and the step of the seeds is an ordinary one; only  *)
(* its sum with the seed wraps.                                              *)
SeedPanics(t) == overflows /\ t * SeedStep >= Modulus

Stop(out, done, s) == c_at' = "ended" /\ Answer(out, done, s) /\ UNCHANGED start

(* The head of the loop over the trials, and what comes before the loop. *)
NextTrial ==
  /\ c_at = "set" /\ command = "roundtrip"
  /\ \/ ~Reversible /\ Stop("refused", 0, start)
     \/ Reversible /\ trial = trials /\ Stop("ok", Len(leaves), start)
     \/ Reversible /\ trial < trials /\ SeedPanics(trial) /\ Stop("panic", 0, start)
     \/ /\ Reversible /\ trial < trials /\ ~SeedPanics(trial)
        /\ c_at' = "perform" /\ start' \in RandomStates /\ UNCHANGED result
  /\ UNCHANGED <<arguments, trial>>

Roundtrip ==
  /\ command = "roundtrip"
  /\ LET f == RunForward(start, leaves)
         r == ReverseAll(f.s, leaves)
         back == f.out = "ok" /\ r.out = "ok" /\ r.done = Len(leaves)
     IN  \/ f.out = "fault" /\ Stop("panic", f.done, f.s) /\ UNCHANGED trial
         \/ f.out = "ok" /\ ~back /\ Stop("panic", r.done, r.s) /\ UNCHANGED trial
         \/ back /\ r.s # start /\ Stop("failed", r.done, r.s) /\ UNCHANGED trial
         \/ back /\ r.s = start /\ c_at' = "set" /\ trial' = trial + 1 /\ UNCHANGED result

Perform ==
  /\ c_at = "perform"
  /\ \/ (Run \/ RunRev \/ Rev) /\ c_at' = "ended" /\ UNCHANGED trial
     \/ Roundtrip
  /\ UNCHANGED <<arguments, start>>

CliNext == InitState \/ NextTrial \/ Perform

CliSpec == CliStart(TRUE) /\ [][CliNext]_cliVars

-----------------------------------------------------------------------------
(* Each register has the value of the last --set that names it, for register  *)
(* numbers that fit in a byte; --set r256=1 sets r0 (main.rs 115-158).       *)
SetsLand ==
  (c_at = "perform" /\ command # "roundtrip" /\ \A k \in DOMAIN sets : sets[k].reg < RegByte) =>
    \A k \in DOMAIN sets :
      start.regs[sets[k].reg] = sets[k].val
        \/ \E j \in k + 1 .. Len(sets) : sets[j].reg = sets[k].reg

(* After rev the state is the one the program passed through that many leaves *)
(* before its end, as many as asked for or as there are after the last       *)
(* boundary (main.rs 244-269).                                               *)
RevLandsBefore ==
  (command = "rev" /\ result.out = "ok") =>
    /\ result.done = Least(steps, SuffixLen(leaves))
    /\ result.s = RunForward(start, SubSeq(leaves, 1, Len(leaves) - result.done)).s

(* A program that check calls reversible comes back on every state, and says  *)
(* so only after all the trials. roundtrip stops early only when the program *)
(* itself runs out of range on the state it has drawn, or when the seed of a *)
(* further trial overflows in a build that checks (main.rs 271-305).         *)
RoundtripHolds ==
  command = "roundtrip" =>
    /\ result.out # "failed"
    /\ result.out = "ok" => trial = trials
    /\ result.out = "panic" =>
         (trial < trials /\ SeedPanics(trial)) \/ RunForward(start, leaves).out = "fault"

(* `phase-vm roundtrip programs/mixer.phase --trials 1000` (main.rs 10) draws *)
(* all its states, whatever the build: only the program can stop it. It does *)
(* not hold.                                                                 *)
OnlyTheProgramStops ==
  (command = "roundtrip" /\ result.out = "panic") => RunForward(start, leaves).out = "fault"

(* runrev and run are inverse to each other when the whole program is         *)
(* reversible (main.rs 232-242, "decrypt").                                  *)
RunUndoesRunrev ==
  (command = "runrev" /\ result.out = "ok" /\ Reversible) =>
    RunForward(result.s, leaves) = [s |-> start, done |-> Len(leaves), out |-> "ok"]

-----------------------------------------------------------------------------
(* What the commands promise of a state that is set and run: the settings     *)
(* reach their registers, run and runrev are inverse, and rev and roundtrip   *)
(* say rightly whether a program came back (main.rs 149-305).                *)
CommandsExact == SetsLand /\ RevLandsBefore /\ RoundtripHolds /\ RunUndoesRunrev

(***************************************************************************)
(* The command line of src/examples/phase_img.rs: edits of an image, one   *)
(* after the other, each kept in a journal so that undo can apply its      *)
(* inverse; the result is written once, at the end. Bytes are words here.  *)
(***************************************************************************)
CONSTANTS Images,          \* the pixels of readable images, sequences of <<r, g, b>>
          EditArgs,        \* bytes after add and xor
          MaxEdits

ASSUME ImageAssumption ==
  /\ Images \subseteq Seq([1 .. 3 -> Word])
  /\ EditArgs \subseteq Word
  /\ MaxEdits \in Nat

VARIABLES i_at, source, px, journal,
          file,            \* the output: "absent", "torn" or "whole"
          edits

imageVars == <<i_at, source, px, journal, file, edits>>

ImageStart(on) ==
  /\ i_at = "open" /\ source \in Among(on, Images) /\ px = <<>>
  /\ journal = <<>> /\ file = "absent" /\ edits = 0

(* from_ppm refuses what is no P6 file or has another number of pixels. *)
OpenImage ==
  /\ i_at = "open"
  /\ \/ i_at' = "edit" /\ px' = source
     \/ i_at' = "failed" /\ UNCHANGED px
  /\ UNCHANGED <<source, journal, file, edits>>

OpAdd(p, n)  == [k \in DOMAIN p |-> [c \in 1 .. 3 |-> WrapAdd(p[k][c], n)]]
OpXor(p, n)  == [k \in DOMAIN p |-> [c \in 1 .. 3 |-> BitXor(p[k][c], n)]]
OpSwapRB(p)  == [k \in DOMAIN p |-> <<p[k][3], p[k][2], p[k][1]>>]

Edit(p, e) ==
  CASE e.op = "add"    -> OpAdd(p, e.n)
    [] e.op = "xor"    -> OpXor(p, e.n)
    [] e.op = "swaprb" -> OpSwapRB(p)

(* Mutant: add is taken for its own inverse. *)
UneditMutant(p, e) == Edit(p, e)

Unedit(p, e) == Edit(p, IF e.op = "add" THEN [e EXCEPT !.n = WrapSub(0, @)] ELSE e)

OneEdit == i_at = "edit" /\ edits < MaxEdits /\ edits' = edits + 1

(* An argument that is no byte counts as 0. *)
Apply ==
  /\ OneEdit
  /\ \E e \in [op : {"add", "xor"}, n : EditArgs \union {0}] \union [op : {"swaprb"}, n : {0}] :
       px' = Edit(px, e) /\ journal' = Append(journal, e)
  /\ UNCHANGED <<i_at, source, file>>

Undo ==
  /\ OneEdit
  /\ IF journal = <<>> THEN UNCHANGED <<px, journal>>
     ELSE /\ px' = Unedit(px, journal[Len(journal)])
          /\ journal' = SubSeq(journal, 1, Len(journal) - 1)
  /\ UNCHANGED <<i_at, source, file>>

WrongArgument ==
  /\ OneEdit
  /\ i_at' = "failed"
  /\ UNCHANGED <<source, px, journal, file>>

(* fs::write truncates the file first, and may fail after that. *)
Save ==
  /\ i_at = "edit"
  /\ \/ i_at' = "saved" /\ file' = "whole"
     \/ i_at' = "failed" /\ file' \in {"absent", "torn"}
  /\ UNCHANGED <<source, px, journal, edits>>

ImageNext == OpenImage \/ Apply \/ Undo \/ WrongArgument \/ Save

ImageSpec == ImageStart(TRUE) /\ [][ImageNext]_imageVars

-----------------------------------------------------------------------------
FromJournal ==
  LET upto[k \in 0 .. Len(journal)] ==
        IF k = 0 THEN source ELSE Edit(upto[k - 1], journal[k])
  IN  upto[Len(journal)]

(* The pixels are the image read from the file with the edits of the journal: *)
(* an undo, after whatever edits and undos, leaves no trace of what it took   *)
(* back (phase_img.rs 175-187).                                              *)
PixelsAreJournal == i_at # "open" /\ px # <<>> => px = FromJournal
=============================================================================
