------------------------------ MODULE MCUring -------------------------------
(***************************************************************************)
(* The two programs that use io_uring, each with a ring of its own.        *)
(***************************************************************************)
EXTENDS AssetLoader

VARIABLE program

uringVars == <<program, loaderVars, nopVars, ringVars>>

UringInit ==
  /\ program \in {"assets", "nops"}
  /\ \E c \in {0, Counters - 1} :
       RingInit(IF program = "assets" THEN Entries ELSE RingEntries, c)
  /\ LoaderStart /\ NopsStart

AssetsStep == program = "assets" /\ UNCHANGED <<program, nopVars>>
NopsStep   == program = "nops" /\ UNCHANGED <<program, loaderVars>>

UringNext ==
  \/ AssetsStep /\ (Main \/ GiveUp \/ KernelReads)
  \/ NopsStep /\ (NopsMain \/ GiveUpReap \/ KernelNops)

(* Each program is a thread that runs on, its spinning is limited, and the   *)
(* kernel ends what it has taken.                                            *)
UringSpec ==
  /\ UringInit /\ [][UringNext]_uringVars
  /\ WF_uringVars(AssetsStep /\ Main) /\ WF_uringVars(AssetsStep /\ GiveUp)
  /\ WF_uringVars(AssetsStep /\ KernelReads)
  /\ WF_uringVars(NopsStep /\ NopsMain) /\ WF_uringVars(NopsStep /\ GiveUpReap)
  /\ WF_uringVars(NopsStep /\ KernelNops)

(* The event loop ends: it never waits for ever for completions it has       *)
(* counted already or that the kernel keeps back.                            *)
EventsEnd == program = "nops" ~> nopAt \in {"done", "panic"}

(* No wait of either program for its completions is for ever (uring.rs        *)
(* 213-217, phase_uring.rs 193-196).                                         *)
LoopsEnd == WaitsEnd /\ EventsEnd

-----------------------------------------------------------------------------
(* Five assets, two a frame, in a ring of exactly two; batches of two        *)
(* events, enough of them for the completion ring to fill up.                 *)
MCAssetSize == <<8, 12, 20, 8, 16>>
=============================================================================
