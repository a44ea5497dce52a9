-------------------------- MODULE DebuggerHistory ---------------------------
(***************************************************************************)
(* The debugger with a history variable: what the machine looked like when *)
(* pos last had each of its earlier values. The history is read by no      *)
(* action; it is what "the state is F over leaves[0..pos]" is stated with, *)
(* and the witness of the refinement of SnapshotDebugger.                  *)
(***************************************************************************)
EXTENDS Debugger

VARIABLE past      \* past[p + 1] is the state that was current at position p

histVars == <<leaves, pos, s, breaks, cmd, out, past>>

HInit == Init /\ past = <<s>>

(* A step forward records the new state, a step back forgets the newest. *)
Record ==
  past' = CASE pos' > pos -> Append(past, s')
            [] pos' < pos -> SubSeq(past, 1, Len(past) - 1)
            [] OTHER      -> past

HNext == Next /\ Record
HSpec == HInit /\ [][HNext]_histVars /\ WF_histVars(Loop /\ Record)

-----------------------------------------------------------------------------
HistoryTypeOK == TypeOK /\ past \in Seq(State) /\ Len(past) = pos + 1

(* The recorded states are a run of the program from its start state. *)
HistoryIsRun ==
  \A p \in 1 .. pos :
    /\ InRange(past[p], leaves[p])
    /\ past[p + 1] = Exec(past[p], leaves[p])

(* The comment on Dbg.pos (main.rs:354): the state is F over leaves[0..pos], *)
(* after any mixture of forward, backward, continue and goto commands, ones  *)
(* that faulted or were refused half way included.                           *)
StateIsPrefix == HistoryIsRun /\ s = past[pos + 1]

(* The debugger implements the one that keeps a snapshot per leaf. *)
Abs == INSTANCE SnapshotDebugger WITH snaps <- past
ImplementsSnapshots == Abs!Spec
=============================================================================
