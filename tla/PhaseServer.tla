---------------------------- MODULE PhaseServer ----------------------------
(***************************************************************************)
(* The server of src/src/phase_server.rs: one map, the undo log of the     *)
(* committed writes, and the buffer of an open transaction. handle() runs  *)
(* one command at a time; the loops of ROLLBACK and UNDO are taken one     *)
(* record per step, during which no other command is accepted.             *)
(***************************************************************************)
EXTENDS KV

CONSTANTS UndoCounts,   \* arguments of UNDO
          MaxLog        \* bound on Len(undo) + Len(buf)

ASSUME ServerAssumption == UndoCounts \subseteq Nat /\ MaxLog \in Nat

VARIABLES map,
          undo,     \* inverses of the committed writes, oldest first
          open,     \* tx.is_some()
          buf,      \* inverses written inside the open transaction
          todo,     \* records a ROLLBACK or an UNDO has still to put back
          reply     \* what the command returns (when todo is empty again)

vars == <<map, undo, open, buf, todo, reply>>

Ok          == [kind |-> "ok", val |-> Nil, n |-> 0]
Err         == [kind |-> "err", val |-> Nil, n |-> 0]
Found(v)    == [kind |-> "value", val |-> v, n |-> 0]
Counted(n)  == [kind |-> "count", val |-> Nil, n |-> n]

Init ==
  /\ map = Empty
  /\ undo = <<>>
  /\ open = FALSE
  /\ buf = <<>>
  /\ todo = <<>>
  /\ reply = Ok

Ready == todo = <<>>

-----------------------------------------------------------------------------
(* SET k v; DEL k is Put(k, Nil), and logs a record for an absent key too. *)
Put(k, v) ==
  LET rec == [key |-> k, old |-> map[k]]
  IN  /\ Ready
      /\ Len(undo) + Len(buf) < MaxLog
      /\ map' = Write(map, k, v)
      /\ IF open
         THEN buf' = Append(buf, rec) /\ UNCHANGED undo
         ELSE undo' = Append(undo, rec) /\ UNCHANGED buf
      /\ reply' = Ok
      /\ UNCHANGED <<open, todo>>

Get(k) ==
  /\ Ready
  /\ reply' = Found(map[k])
  /\ UNCHANGED <<map, undo, open, buf, todo>>

Begin ==
  /\ Ready
  /\ ~open
  /\ open' = TRUE
  /\ buf' = <<>>
  /\ reply' = Ok
  /\ UNCHANGED <<map, undo, todo>>

(* Mutant: the buffer outlives the transaction. *)
CommitMutant ==
  /\ Ready
  /\ open
  /\ undo' = undo \o buf
  /\ open' = FALSE
  /\ reply' = Counted(Len(buf))
  /\ UNCHANGED <<map, buf, todo>>

Commit ==
  /\ Ready
  /\ open
  /\ undo' = undo \o buf
  /\ open' = FALSE
  /\ buf' = <<>>
  /\ reply' = Counted(Len(buf))
  /\ UNCHANGED <<map, todo>>

(* tx.take(), then the loop over the buffer from its end. *)
Rollback ==
  /\ Ready
  /\ open
  /\ todo' = buf
  /\ open' = FALSE
  /\ buf' = <<>>
  /\ reply' = Counted(Len(buf))
  /\ UNCHANGED <<map, undo>>

(* The last n records leave the log, the newest first. *)
Undo(n) ==
  LET d == IF n <= Len(undo) THEN n ELSE Len(undo)
  IN  /\ Ready
      /\ ~open
      /\ todo' = SubSeq(undo, Len(undo) - d + 1, Len(undo))
      /\ undo' = SubSeq(undo, 1, Len(undo) - d)
      /\ reply' = Counted(d)
      /\ UNCHANGED <<map, open, buf>>

(* Mutant: the records are put back in the order they were written. *)
PutBackMutant ==
  /\ todo # <<>>
  /\ map' = ApplyInverse(map, Head(todo))
  /\ todo' = Tail(todo)
  /\ UNCHANGED <<undo, open, buf, reply>>

(* One turn of the loop of ROLLBACK or UNDO. *)
PutBack ==
  /\ todo # <<>>
  /\ map' = ApplyInverse(map, todo[Len(todo)])
  /\ todo' = SubSeq(todo, 1, Len(todo) - 1)
  /\ UNCHANGED <<undo, open, buf, reply>>

(* BEGIN or UNDO inside a transaction, COMMIT or ROLLBACK outside one; an    *)
(* unknown or malformed command fares the same in any state.                 *)
Refuse ==
  /\ Ready
  /\ reply' = Err
  /\ UNCHANGED <<map, undo, open, buf, todo>>

(* KV::from_snapshot(kv.snapshot()): a new KV with the map alone. *)
Restart ==
  /\ Ready
  /\ map' = FromSnapshot(Snapshot(map))
  /\ undo' = <<>>
  /\ open' = FALSE
  /\ buf' = <<>>
  /\ reply' = Ok
  /\ UNCHANGED todo

Next ==
  \/ \E k \in Keys, v \in Stored : Put(k, v)
  \/ \E k \in Keys : Get(k)
  \/ Begin \/ Commit \/ Rollback \/ Refuse \/ Restart
  \/ \E n \in UndoCounts : Undo(n)
  \/ PutBack

Spec == Init /\ [][Next]_vars

-----------------------------------------------------------------------------
TypeOK ==
  /\ map \in Store
  /\ undo \in Seq(Rec)
  /\ open \in BOOLEAN
  /\ buf \in Seq(Rec)
  /\ todo \in Seq(Rec)
  /\ ~open => buf = <<>>
  /\ todo # <<>> => ~open

-----------------------------------------------------------------------------
(* The versions that the map and the log stand for. Undoing every record    *)
(* after the j-th leaves each key as the oldest of those records has it,    *)
(* and as the map has it when none of them is about the key.                *)

Log == undo \o buf \o todo

Later(log, j, k)  == {i \in (j + 1) .. Len(log) : log[i].key = k}
Oldest(log, j, k) == CHOOSE i \in Later(log, j, k) : \A h \in Later(log, j, k) : i <= h

Unwound(m, log, j) ==
  [k \in Keys |->
     IF Later(log, j, k) = {} THEN m[k] ELSE log[Oldest(log, j, k)].old]

Versions == [j \in 1 .. Len(undo) + 1 |-> Unwound(map, Log, j - 1)]
Draft    == [j \in 1 .. Len(buf) |-> Unwound(map, Log, Len(undo) + j)]

(* The server implements the store that copies its whole map at every write: *)
(* what GET answers, and what ROLLBACK and UNDO restore, is never anything   *)
(* else, for keys written several times, deleted while absent, or written in *)
(* and out of transactions in any order (the module comment of phase_server, *)
(* lines 3-9: inversions on the boundaries, not copies of the state).        *)
Abs == INSTANCE VersionedStore WITH versions <- Versions, draft <- Draft
ImplementsVersions == Abs!AbsSpec
=============================================================================
