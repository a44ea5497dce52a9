------------------------------ MODULE MCNative ------------------------------
(***************************************************************************)
(* The C programs of src/alloc/, each on its own: the reversible overlay,  *)
(* the frames and the pools of the game allocator, and the preloaded       *)
(* malloc. They share no state.                                            *)
(***************************************************************************)
EXTENDS PhaseFuse, GameFrames, PhaseAlloc, TLC

VARIABLE library

nativeVars == <<library, vars, frameVars, poolVars, allocVars>>

NativeInit ==
  /\ library \in {"fuse", "frames", "pool", "malloc"}
  /\ FuseStart(library = "fuse")
  /\ FramesStart /\ PoolStart(library = "pool") /\ AllocStart

FuseRuns ==
  library = "fuse" /\ Next /\ UNCHANGED <<library, frameVars, poolVars, allocVars>>
FramesRun ==
  library = "frames" /\ FramesNext /\ UNCHANGED <<library, vars, poolVars, allocVars>>
PoolRuns ==
  library = "pool" /\ PoolNext /\ UNCHANGED <<library, vars, frameVars, allocVars>>
MallocRuns ==
  library = "malloc" /\ AllocNext /\ UNCHANGED <<library, vars, frameVars, poolVars>>

NativeNext == FuseRuns \/ FramesRun \/ PoolRuns \/ MallocRuns

NativeSpec == NativeInit /\ [][NativeNext]_nativeVars

-----------------------------------------------------------------------------
(* A journal of two entries for three names, so that it fills up; contents of *)
(* length 0, small, and too large to save. A frame of three objects with      *)
(* sizes that do and do not end on a grain. Pools of one and three objects.   *)
(* Two threads over three regions of two blocks and a table of two, so that   *)
(* it overflows.                                                              *)
MCSymmetry == Permutations(Paths)
=============================================================================
