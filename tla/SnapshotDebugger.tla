-------------------------- MODULE SnapshotDebugger --------------------------
(***************************************************************************)
(* What the debugger promises its user: it behaves as if it kept a         *)
(* snapshot of the machine after every executed leaf and stepped back by   *)
(* throwing the newest one away. The real debugger (Debugger.tla) keeps    *)
(* none; DebuggerHistory shows that nobody can tell.                       *)
(***************************************************************************)
EXTENDS Integers, Sequences

CONSTANTS Programs, StartStates,
          InRange(_, _),       \* may this instruction run in this state
          Exec(_, _),          \* what the state becomes
          IsIrreversible(_)    \* is it a boundary

VARIABLES leaves, snaps

absVars == <<leaves, snaps>>

Current == snaps[Len(snaps)]

Init ==
  /\ leaves \in Programs
  /\ \E s \in StartStates : snaps = <<s>>

(* One leaf forward: a new snapshot. *)
Forward ==
  /\ Len(snaps) <= Len(leaves)
  /\ InRange(Current, leaves[Len(snaps)])
  /\ snaps' = Append(snaps, Exec(Current, leaves[Len(snaps)]))
  /\ UNCHANGED leaves

(* One leaf back: the newest snapshot is dropped. A boundary refuses. *)
Back ==
  /\ Len(snaps) > 1
  /\ ~IsIrreversible(leaves[Len(snaps) - 1])
  /\ snaps' = SubSeq(snaps, 1, Len(snaps) - 1)
  /\ UNCHANGED leaves

Next == Forward \/ Back
Spec == Init /\ [][Next]_absVars
=============================================================================
