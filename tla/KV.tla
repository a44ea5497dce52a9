--------------------------------- MODULE KV ---------------------------------
(***************************************************************************)
(* The key-value map of src/src/phase_server.rs and the pure functions on  *)
(* it: writing, undoing one recorded write, and the snapshot text with its *)
(* loader. A key that is absent is mapped to Nil, so insert and remove are *)
(* the same assignment.                                                    *)
(***************************************************************************)
EXTENDS Integers, Sequences

CONSTANTS Keys, Values, Nil

ASSUME NilAssumption == Nil \notin Values

Stored == Values \union {Nil}
Store  == [Keys -> Stored]
Empty  == [k \in Keys |-> Nil]

(* One record of the undo log: a key and what it held before the write. *)
Rec == [key : Keys, old : Stored]

Write(m, k, v) == [m EXCEPT ![k] = v]
ApplyInverse(m, rec) == Write(m, rec.key, rec.old)

(* A snapshot is one line "k v" per key that is present; the loader splits   *)
(* each line at its first blank. Tokens of a command hold no blanks, so a    *)
(* line stands for its pair.                                                 *)
Snapshot(m) == {<<k, m[k]>> : k \in {q \in Keys : m[q] # Nil}}
FromSnapshot(lines) ==
  [k \in Keys |-> IF \E v \in Values : <<k, v>> \in lines
                  THEN CHOOSE v \in Values : <<k, v>> \in lines
                  ELSE Nil]
=============================================================================
