------------------------------- MODULE Arena -------------------------------
(***************************************************************************)
(* The bump arena of src/src/alloc.rs: a vector of words that grows at its *)
(* end, and a stack of marks. Offsets and marks handed out are in bytes, a *)
(* word is WordBytes of them. An arena is a value; programs that use one   *)
(* (phase_etl, game_alloc) keep it in a variable.                          *)
(*                                                                         *)
(* "moves" counts how often the vector was reallocated: a pointer into the *)
(* arena taken before a move points to freed memory.                       *)
(***************************************************************************)
EXTENDS Integers, Sequences

WordBytes == 8

WithCapacity(words) == [buf |-> <<>>, marks |-> <<>>, cap |-> words, moves |-> 0]

(* Mutant: the last, partial word is forgotten. *)
DivCeilMutant(n, d) == n \div d

DivCeil(n, d) == (n + d - 1) \div d

(* try_reserve doubles the capacity at least. *)
Reserve(a, words) ==
  LET need == Len(a.buf) + words
  IN  IF need <= a.cap THEN a
      ELSE [a EXCEPT !.cap = IF need > 2 * a.cap THEN need ELSE 2 * a.cap,
                     !.moves = @ + 1]

MarkOf(a) == Len(a.buf) * WordBytes

(* alloc: the arena with room for n more bytes; the offset is MarkOf(a). *)
Alloc(a, n) ==
  LET words == DivCeil(n, WordBytes)
  IN  [Reserve(a, words) EXCEPT !.buf = @ \o [i \in 1 .. words |-> 0]]

WriteWord(a, off, v) == [a EXCEPT !.buf = [@ EXCEPT ![off \div WordBytes + 1] = v]]
ReadWord(a, off)     == a.buf[off \div WordBytes + 1]

PushMark(a) == [a EXCEPT !.marks = Append(@, Len(a.buf))]

(* Marks at the level of the rollback and above are closed with it: all but  *)
(* the longest prefix of the stack that ends below it.                       *)
MarksBelow(marks, words) ==
  LET keep == {i \in DOMAIN marks : marks[i] < words}
  IN  IF keep = {} THEN <<>>
      ELSE SubSeq(marks, 1, CHOOSE i \in keep : \A j \in keep : j <= i)

Rollback(a, mark) ==
  LET words == mark \div WordBytes
  IN  [a EXCEPT !.buf = SubSeq(@, 1, words), !.marks = MarksBelow(@, words)]

(* Mutant: committing leaves the mark. *)
CommitMarkMutant(a) == a

(* pop of an empty stack does nothing *)
CommitMark(a) ==
  [a EXCEPT !.marks = IF @ = <<>> THEN @ ELSE SubSeq(@, 1, Len(@) - 1)]

(* The capacity stays. *)
Reset(a) == [a EXCEPT !.buf = <<>>, !.marks = <<>>]
=============================================================================
