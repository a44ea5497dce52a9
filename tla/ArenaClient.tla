---------------------------- MODULE ArenaClient ----------------------------
(***************************************************************************)
(* Any program over the arena of src/src/alloc.rs: it allocates and writes *)
(* objects, pushes marks, rolls back to a mark it still knows, commits the *)
(* newest one, and resets. What it knows of the arena is what the calls    *)
(* returned; the properties compare that with the arena.                   *)
(***************************************************************************)
EXTENDS Arena

CONSTANTS Sizes,           \* bytes asked for, each 8 or more
          Stamps,          \* values written
          MaxOps

ASSUME ClientAssumption ==
  /\ Sizes \subseteq Nat /\ \A n \in Sizes : n >= WordBytes
  /\ MaxOps \in Nat

VARIABLES heap,
          objects,         \* [off, bytes, val] of each live object, oldest first
          open,            \* [mark, held]: marks pushed and not closed, with the
                           \* number of objects there were
          merged,          \* a mark was pushed on top of an equal one
          ops

clientVars == <<heap, objects, open, merged, ops>>

ClientStart ==
  /\ heap = WithCapacity(2)
  /\ objects = <<>> /\ open = <<>> /\ merged = FALSE /\ ops = 0

OneMore == ops < MaxOps /\ ops' = ops + 1

NewObject ==
  /\ OneMore
  /\ \E n \in Sizes, v \in Stamps :
       /\ heap' = WriteWord(Alloc(heap, n), MarkOf(heap), v)
       /\ objects' = Append(objects, [off |-> MarkOf(heap), bytes |-> n, val |-> v])
  /\ UNCHANGED <<open, merged>>

Overwrite ==
  /\ OneMore
  /\ \E k \in DOMAIN objects, v \in Stamps :
       /\ v # objects[k].val
       /\ heap' = WriteWord(heap, objects[k].off, v)
       /\ objects' = [objects EXCEPT ![k].val = v]
  /\ UNCHANGED <<open, merged>>

OpenMark ==
  /\ OneMore
  /\ heap' = PushMark(heap)
  /\ open' = Append(open, [mark |-> MarkOf(heap), held |-> Len(objects)])
  /\ merged' = (merged \/ \E k \in DOMAIN open : open[k].mark = MarkOf(heap))
  /\ UNCHANGED objects

(* Rolling back closes the mark and those above it. *)
RollbackTo ==
  /\ OneMore
  /\ \E k \in DOMAIN open :
       /\ heap' = Rollback(heap, open[k].mark)
       /\ objects' = SubSeq(objects, 1, open[k].held)
       /\ open' = SubSeq(open, 1, k - 1)
  /\ UNCHANGED merged

CommitNewest ==
  /\ OneMore
  /\ open # <<>>
  /\ heap' = CommitMark(heap)
  /\ open' = SubSeq(open, 1, Len(open) - 1)
  /\ UNCHANGED <<objects, merged>>

ResetAll ==
  /\ OneMore
  /\ heap' = Reset(heap)
  /\ objects' = <<>> /\ open' = <<>> /\ merged' = FALSE

ClientNext ==
  NewObject \/ Overwrite \/ OpenMark \/ RollbackTo \/ CommitNewest \/ ResetAll

ClientSpec == ClientStart /\ [][ClientNext]_clientVars

-----------------------------------------------------------------------------
(* The objects a client has not rolled back lie one after the other, whole    *)
(* and apart, up to the end of the arena, and read back what was written      *)
(* last: a rollback takes exactly what came after its mark (alloc.rs 69-75). *)
ObjectsHold ==
  \A k \in DOMAIN objects :
    /\ ReadWord(heap, objects[k].off) = objects[k].val
    /\ objects[k].off + objects[k].bytes <=
         IF k < Len(objects) THEN objects[k + 1].off ELSE MarkOf(heap)

(* The stack holds the marks the client still has open, in order, as long as  *)
(* it never pushed two with nothing between them: rolling back to the inner  *)
(* of two equal marks closes the outer one too (alloc.rs 76-83).             *)
MarksAreOpen ==
  ~merged => heap.marks = [k \in DOMAIN open |-> open[k].mark \div WordBytes]

(* Marks and objects of one client agree, whatever it opens, commits, rolls   *)
(* back and resets (alloc.rs 43-95).                                         *)
ClientSafe == ObjectsHold /\ MarksAreOpen
=============================================================================
