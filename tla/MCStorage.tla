----------------------------- MODULE MCStorage ------------------------------
(***************************************************************************)
(* The programs that keep their data outside the machine, each on its own: *)
(* the two on io_uring, and the one that survives kill -9 with its capsule *)
(* files.                                                                  *)
(***************************************************************************)
EXTENDS MCUring, PhaseGuard

VARIABLE storage

storageVars == <<storage, uringVars, vars>>

StorageInit ==
  /\ storage \in {"rings", "files"}
  /\ UringInit /\ (storage = "rings" \/ (program = "assets" /\ sqTail = 0))
  /\ Init /\ (storage = "files" \/ stream = CHOOSE any \in Streams : TRUE)

RingsStep == storage = "rings" /\ UNCHANGED <<storage, vars>>
FilesStep == storage = "files" /\ UNCHANGED <<storage, uringVars>>

StorageNext ==
  \/ RingsStep /\ UringNext
  \/ FilesStep /\ Next

(* The fairness of the programs, as in UringSpec and PhaseGuard's Spec. *)
StorageSpec ==
  /\ StorageInit /\ [][StorageNext]_storageVars
  /\ WF_storageVars(RingsStep /\ AssetsStep /\ Main)
  /\ WF_storageVars(RingsStep /\ AssetsStep /\ GiveUp)
  /\ WF_storageVars(RingsStep /\ AssetsStep /\ KernelReads)
  /\ WF_storageVars(RingsStep /\ NopsStep /\ NopsMain)
  /\ WF_storageVars(RingsStep /\ NopsStep /\ GiveUpReap)
  /\ WF_storageVars(RingsStep /\ NopsStep /\ KernelNops)
  /\ WF_storageVars(FilesStep /\ Recover)

-----------------------------------------------------------------------------
(* Every stream of StreamLen units over two keys and one value. The digest   *)
(* tells the four maps apart; the chain is a small multiplicative hash.      *)
CONSTANT StreamLen

MCStreams == [1 .. StreamLen -> Unit]
MCHash == 0 .. 100
MCDigest(m) == m[1] + 2 * m[2]
MCChainStep(c, a) == ((c + a + 1) * 7) % 101
=============================================================================
