--------------------------- MODULE VersionedStore ---------------------------
(***************************************************************************)
(* What the key-value server promises its client, replies included: it     *)
(* behaves as if it kept a full copy of the map after every command that   *)
(* wrote. Rolling back throws the copies of the transaction away, UNDO     *)
(* throws the newest copies away, and a commit makes the transaction's     *)
(* copies ordinary ones: an UNDO may stop in the middle of it.             *)
(* The server itself (PhaseServer) keeps one map and a log of old values.  *)
(***************************************************************************)
EXTENDS KV

CONSTANTS UndoCounts,   \* arguments of UNDO
          MaxLog        \* bound on the writes that can still be undone

VARIABLES versions,   \* committed copies, oldest first; the first is the start
          draft,      \* copies made inside the open transaction
          open,       \* is a transaction open
          reply       \* the answer to the last command

absVars == <<versions, draft, open, reply>>

All     == versions \o draft
Current == All[Len(All)]

Ok          == [kind |-> "ok", val |-> Nil, n |-> 0]
Err         == [kind |-> "err", val |-> Nil, n |-> 0]
Found(v)    == [kind |-> "value", val |-> v, n |-> 0]
Counted(n)  == [kind |-> "count", val |-> Nil, n |-> n]

AbsInit ==
  /\ versions = <<Empty>>
  /\ draft = <<>>
  /\ open = FALSE
  /\ reply = Ok

(* SET, and DEL as the writing of Nil. *)
AbsPut(k, v) ==
  /\ Len(All) <= MaxLog
  /\ IF open
     THEN draft' = Append(draft, Write(Current, k, v)) /\ UNCHANGED versions
     ELSE versions' = Append(versions, Write(Current, k, v)) /\ UNCHANGED draft
  /\ reply' = Ok
  /\ UNCHANGED open

AbsGet(k) ==
  /\ reply' = Found(Current[k])
  /\ UNCHANGED <<versions, draft, open>>

AbsBegin ==
  /\ ~open
  /\ open' = TRUE
  /\ reply' = Ok
  /\ UNCHANGED <<versions, draft>>

AbsCommit ==
  /\ open
  /\ versions' = versions \o draft
  /\ draft' = <<>>
  /\ open' = FALSE
  /\ reply' = Counted(Len(draft))

AbsRollback ==
  /\ open
  /\ draft' = <<>>
  /\ open' = FALSE
  /\ reply' = Counted(Len(draft))
  /\ UNCHANGED versions

(* At most everything but the first version can be undone. *)
AbsUndo(n) ==
  LET d == IF n < Len(versions) THEN n ELSE Len(versions) - 1
  IN  /\ ~open
      /\ versions' = SubSeq(versions, 1, Len(versions) - d)
      /\ reply' = Counted(d)
      /\ UNCHANGED <<draft, open>>

AbsRefuse ==
  /\ reply' = Err
  /\ UNCHANGED <<versions, draft, open>>

(* Restarting from a snapshot keeps what the map shows, an open              *)
(* transaction's writes included, and forgets that anything can be undone.   *)
AbsRestart ==
  /\ versions' = <<Current>>
  /\ draft' = <<>>
  /\ open' = FALSE
  /\ reply' = Ok

AbsNext ==
  \/ \E k \in Keys, v \in Stored : AbsPut(k, v)
  \/ \E k \in Keys : AbsGet(k)
  \/ AbsBegin \/ AbsCommit \/ AbsRollback \/ AbsRefuse \/ AbsRestart
  \/ \E n \in UndoCounts : AbsUndo(n)

AbsSpec == AbsInit /\ [][AbsNext]_absVars
=============================================================================
