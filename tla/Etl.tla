-------------------------------- MODULE Etl --------------------------------
(***************************************************************************)
(* phase-etl (src/examples/phase_etl.rs): lines of a CSV are parsed into an *)
(* arena, one mark a line; the good rows become the memory of a machine;   *)
(* two sets of deltas are tried on that one table, the first taken back    *)
(* before the second; the better one stays, and rows far from the targets  *)
(* are dropped.                                                            *)
(*                                                                         *)
(* A line is its id and its fields, -1 where the text is no number. Rows   *)
(* have as many columns as Targets; column c has its delta in register c   *)
(* and its address in register Cols + c.                                   *)
(***************************************************************************)
EXTENDS LeafRun, Arena, FiniteSets

CONSTANTS Csvs,            \* the inputs
          Targets, Tol,    \* TARGETS, TOL
          DeltaA, DeltaB

VARIABLES csv, e_at,
          lines_read,      \* how many lines are read
          arena,
          ids, rows,
          table,           \* the State
          row,             \* how many rows the current sweep has done
          bad,             \* bad_a and bad_b
          kept,
          checked          \* overflow checks are compiled in

etlVars == <<csv, e_at, lines_read, arena, ids, rows, table, row, bad, kept, checked>>

Cols == Len(Targets)

(* id of a line whose first field is no number *)
IdOf(l) == IF l.id = -1 THEN Modulus - 1 ELSE l.id

EtlStart(on) ==
  /\ csv \in Among(on, Csvs) /\ checked \in Among(on, BOOLEAN)
  /\ e_at = "parse" /\ lines_read = 0
  /\ arena = WithCapacity(1024)
  /\ ids = <<>> /\ rows = <<>>
  /\ table = [regs |-> <<>>, mem |-> <<>>] /\ row = 0
  /\ bad = [A |-> 0, B |-> 0]
  /\ kept = <<>>

-----------------------------------------------------------------------------
(* Parsing. *)

(* The fields before the first bad one are in the arena already. *)
GoodFields(l) ==
  IF Len(l.fields) # Cols THEN 0
  ELSE LET wrong == {c \in 1 .. Cols : l.fields[c] = -1}
       IN  IF wrong = {} THEN Cols ELSE (CHOOSE c \in wrong : \A d \in wrong : c <= d) - 1

(* The line's mark, and a word for each field up to the first bad one. *)
Written(a, l) ==
  LET put[c \in 0 .. GoodFields(l)] ==
        IF c = 0 THEN PushMark(a)
        ELSE WriteWord(Alloc(put[c - 1], WordBytes), MarkOf(put[c - 1]), l.fields[c])
  IN  put[GoodFields(l)]

(* Mutant: a line that is refused is left in the arena. *)
RefuseMutant(a, mark) == CommitMark(a)

Refuse(a, mark) == Rollback(a, mark)

Seen(id) == \E k \in DOMAIN ids : ids[k] = id

ParseLine ==
  /\ e_at = "parse" /\ lines_read < Len(csv)
  /\ LET l       == csv[lines_read + 1]
         mark    == MarkOf(arena)
         written == Written(arena, l)
     IN  IF GoodFields(l) < Cols \/ Seen(IdOf(l))
         THEN arena' = Refuse(written, mark) /\ UNCHANGED <<ids, rows>>
         ELSE /\ arena' = CommitMark(written)
              /\ ids' = Append(ids, IdOf(l))
              /\ rows' = Append(rows, [c \in 1 .. Cols |->
                                         ReadWord(written, mark + (c - 1) * WordBytes)])
  /\ lines_read' = lines_read + 1
  /\ UNCHANGED <<csv, e_at, table, row, bad, kept, checked>>

-----------------------------------------------------------------------------
(* The table. *)

Cell(r, c) == (r - 1) * Cols + c - 1

MakeTable ==
  /\ e_at = "parse" /\ lines_read = Len(csv)
  /\ table' = [regs |-> [q \in 0 .. 2 * Cols |-> 0],
               mem  |-> [m \in 0 .. Len(rows) * Cols - 1 |->
                           rows[(m \div Cols) + 1][(m % Cols) + 1]]]
  /\ e_at' = "base"
  /\ UNCHANGED <<csv, lines_read, arena, ids, rows, row, bad, kept, checked>>

Kernel == [c \in 1 .. Cols |-> Leaf("madd", Cols + c, c)]

Deltas == [applyA |-> DeltaA, applyB |-> DeltaB, again |-> DeltaA]

(* The address registers of row r. *)
Aim(s, r) ==
  [s EXCEPT !.regs = [q \in DOMAIN @ |->
                        IF q > Cols THEN Cell(r, q - Cols) ELSE @[q]]]

SetDeltas(s, deltas) ==
  [s EXCEPT !.regs = [q \in DOMAIN @ |->
                        IF q \in 1 .. Cols THEN deltas[q] % Modulus ELSE @[q]]]

Sweep(how) ==
  /\ table' = how.s
  /\ row' = row + 1
  /\ e_at' = IF how.out = "ok" THEN e_at ELSE "panic"
  /\ UNCHANGED <<csv, lines_read, arena, ids, rows, bad, kept, checked>>

(* apply_deltas, a row a step *)
ApplyRow ==
  /\ e_at \in DOMAIN Deltas /\ row < Len(rows)
  /\ LET r == row + 1
     IN  Sweep(RunForward(SetDeltas(Aim(table, r), Deltas[e_at]), Kernel))

(* Mutant: the address registers are left where the last sweep put them. *)
UndoRowMutant ==
  /\ e_at \in {"undoA", "undoB"} /\ row < Len(rows)
  /\ Sweep(ReverseAll(table, Kernel))

(* rollback_table, from the last row to the first; the deltas are still in    *)
(* their registers.                                                          *)
UndoRow ==
  /\ e_at \in {"undoA", "undoB"} /\ row < Len(rows)
  /\ LET r == Len(rows) - row
     IN  Sweep(ReverseAll(Aim(table, r), Kernel))

-----------------------------------------------------------------------------
(* outlier_count and the choice. *)

Signed(v) == IF v >= Modulus \div 2 THEN v - Modulus ELSE v

(* (v as i64 - tgt).abs() > TOL, with the wrap of a build without checks: of *)
(* the smallest integer abs returns itself.                                  *)
Difference(v, t) == Signed(v) - t
Overflows(v, t)  == Difference(v, t) <= -(Modulus \div 2)
Far(v, t) ==
  LET d == Signed(Difference(v, t) % Modulus)
  IN  (IF d < 0 /\ d # -(Modulus \div 2) THEN -d ELSE d) > Tol

RowNow(r) == [c \in 1 .. Cols |-> table.mem[Cell(r, c)]]
IsOutlier(r) == \E c \in 1 .. Cols : Far(RowNow(r)[c], Targets[c])

(* The columns of a row are looked at up to the first that is far. *)
Panics(r) ==
  \E c \in 1 .. Cols :
    /\ Overflows(RowNow(r)[c], Targets[c])
    /\ \A d \in 1 .. c - 1 : ~Far(RowNow(r)[d], Targets[d])

OutlierCount == Cardinality({r \in 1 .. Len(rows) : IsOutlier(r)})
Stops        == checked /\ \E r \in 1 .. Len(rows) : Panics(r)

WinsA(a, b) == a <= b

(* Mutant: A is applied on top of B. *)
AfterBMutant == IF WinsA(bad.A, OutlierCount) THEN "again" ELSE "filter"

AfterB == IF WinsA(bad.A, OutlierCount) THEN "undoB" ELSE "filter"

(* The outliers are counted before the first sweep and after each of the two *)
(* that are compared.                                                        *)
EndOfSweep ==
  /\ e_at \in {"applyA", "applyB", "undoA", "undoB", "again"} => row = Len(rows)
  /\ row' = 0
  /\ bad' = CASE e_at = "applyA" -> [bad EXCEPT !.A = OutlierCount]
              [] e_at = "applyB" -> [bad EXCEPT !.B = OutlierCount]
              [] OTHER           -> bad
  /\ \/ e_at \in {"base", "applyA", "applyB"} /\ Stops /\ e_at' = "panic"
     \/ e_at = "base" /\ ~Stops /\ e_at' = "applyA"
     \/ e_at = "applyA" /\ ~Stops /\ e_at' = "undoA"
     \/ e_at = "undoA" /\ e_at' = "applyB"
     \/ e_at = "applyB" /\ ~Stops /\ e_at' = AfterB
     \/ e_at = "undoB" /\ e_at' = "again"
     \/ e_at = "again" /\ e_at' = "filter"
  /\ UNCHANGED <<csv, lines_read, arena, ids, rows, table, kept, checked>>

(* Mutant: a row with one column in range is kept. *)
KeepsMutant(r) == \E c \in 1 .. Cols : ~Far(RowNow(r)[c], Targets[c])

Keeps(r) == ~IsOutlier(r)

(* The table was counted before as it is now: no distance overflows here.     *)
Filter ==
  /\ e_at = "filter"
  /\ e_at' = "done"
  /\ kept' = [k \in 1 .. Cardinality({r \in DOMAIN rows : Keeps(r)}) |->
                LET r == CHOOSE r \in DOMAIN rows :
                           Keeps(r) /\ Cardinality({q \in 1 .. r : Keeps(q)}) = k
                IN  [id |-> ids[r], row |-> RowNow(r)]]
  /\ UNCHANGED <<csv, lines_read, arena, ids, rows, table, row, bad, checked>>

-----------------------------------------------------------------------------
EtlNext == ParseLine \/ MakeTable \/ ApplyRow \/ UndoRow \/ EndOfSweep \/ Filter

EtlSpec == EtlStart(TRUE) /\ [][EtlNext]_etlVars

(* What a line splits into: -1 where the text is no number.                   *)
FileLine == [id : Word \union {-1}, fields : Seq(Word \union {-1})]

(* Targets are non-negative i64, the tolerance is one, and every cell of a    *)
(* file's table has an address.                                              *)
ASSUME EtlAssumption ==
  /\ Targets \in Seq(0 .. Modulus \div 2 - 1) /\ Targets # <<>>
  /\ Tol \in 0 .. Modulus \div 2 - 1
  /\ DeltaA \in [1 .. Cols -> Int] /\ DeltaB \in [1 .. Cols -> Int]
  /\ \A f \in Csvs : f \in Seq(FileLine) /\ Len(f) * Cols <= Modulus

-----------------------------------------------------------------------------
(* A line with the right number of columns, all of them numbers, and the      *)
(* first such line of its id.                                                *)
GoodLine(k) == GoodFields(csv[k]) = Cols
Accepted(k) == GoodLine(k) /\ ~\E j \in 1 .. k - 1 : GoodLine(j) /\ IdOf(csv[j]) = IdOf(csv[k])
AcceptedTo(n) == Cardinality({k \in 1 .. n : Accepted(k)})

(* After any prefix of the file the rows are the accepted lines in order, and *)
(* the arena holds their fields and nothing else: what a refused line had put *)
(* there is gone, and no mark is left (phase_etl.rs 103-146).                *)
ParsedExactly ==
  /\ arena.marks = <<>>
  /\ Len(rows) = AcceptedTo(lines_read) /\ Len(ids) = Len(rows)
  /\ Len(arena.buf) = Cols * Len(rows)
  /\ \A k \in 1 .. lines_read : Accepted(k) =>
       LET r == AcceptedTo(k)
       IN  /\ ids[r] = IdOf(csv[k]) /\ rows[r] = csv[k].fields
           /\ SubSeq(arena.buf, (r - 1) * Cols + 1, r * Cols) = csv[k].fields

(* The deltas a row has on it while sweeps go over the table in both          *)
(* directions.                                                               *)
NoDeltas == [c \in 1 .. Cols |-> 0]
OnRow(r) ==
  CASE e_at = "applyA" -> IF r <= row THEN DeltaA ELSE NoDeltas
    [] e_at = "applyB" -> IF r <= row THEN DeltaB ELSE NoDeltas
    [] e_at = "again"  -> IF r <= row THEN DeltaA ELSE NoDeltas
    [] e_at = "undoA"  -> IF r <= Len(rows) - row THEN DeltaA ELSE NoDeltas
    [] e_at = "undoB"  -> IF r <= Len(rows) - row THEN DeltaB ELSE NoDeltas
    [] OTHER           -> NoDeltas

Shifted(r, d) == [c \in 1 .. Cols |-> (rows[r][c] + d[c]) % Modulus]

(* Whatever is swept over the one table, each row is its parsed values plus   *)
(* the deltas that are on it now: undoing A leaves nothing for B to be added *)
(* to (phase_etl.rs 176-200, "0 copies of the table").                       *)
TableIsShifted ==
  e_at \in {"base", "applyA", "applyB", "again", "undoA", "undoB"} =>
    \A r \in DOMAIN rows : RowNow(r) = Shifted(r, OnRow(r))

FarCount(d) ==
  Cardinality({r \in DOMAIN rows : \E c \in 1 .. Cols : Far(Shifted(r, d)[c], Targets[c])})

(* The deltas that stay are those with fewer outliers, on every row           *)
(* (phase_etl.rs 201-210).                                                   *)
WinnerStands ==
  e_at \in {"filter", "done"} =>
    \E d \in {DeltaA, DeltaB} :
      /\ \A e \in {DeltaA, DeltaB} : FarCount(d) <= FarCount(e)
      /\ \A r \in DOMAIN rows : RowNow(r) = Shifted(r, d)

(* With overflow checks, a row that is written out has every column within    *)
(* Tol of its target, and every such row is written out, with its own id; a  *)
(* build without them also keeps the one value whose distance has no abs      *)
(* (phase_etl.rs 168, 212-222).                                              *)
KeptAreNear ==
  (e_at = "done" /\ checked) =>
    LET Near(r) == \A c \in 1 .. Cols :
                     Difference(RowNow(r)[c], Targets[c]) \in -Tol .. Tol
    IN  /\ Len(kept) = Cardinality({r \in DOMAIN rows : Near(r)})
        /\ \A k \in DOMAIN kept : \E r \in DOMAIN rows :
             /\ Near(r) /\ kept[k] = [id |-> ids[r], row |-> RowNow(r)]
             /\ Cardinality({q \in 1 .. r : Near(q)}) = k

(* At every step of the pipeline the table is what the good lines and the     *)
(* deltas make of it, and so are the choice and the rows kept in the end      *)
(* (phase_etl.rs 97-222).                                                    *)
PipelineExact == ParsedExactly /\ TableIsShifted /\ WinnerStands /\ KeptAreNear
=============================================================================
