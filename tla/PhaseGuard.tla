----------------------------- MODULE PhaseGuard -----------------------------
(***************************************************************************)
(* The crash-consistent process of src/examples/phase_guard.rs: a fixed    *)
(* stream of units (SET or DEL commands drawn from a seeded generator) is  *)
(* applied to a key-value map; every CpEvery-th unit a checkpoint capsule  *)
(* is written to a temporary file and renamed into place. There is no log. *)
(* After a crash the capsule is loaded and the remaining units are drawn   *)
(* again.                                                                  *)
(*                                                                         *)
(* As main does, a reference run of the whole stream comes first. A crash  *)
(* may come between any two steps of the live run or of a restart, the     *)
(* steps of writing the capsule included (the module comment, line 7: "at  *)
(* any moment"); main itself stops the live run at one chosen unit.        *)
(***************************************************************************)
EXTENDS KV

CONSTANTS Streams,           \* the unit streams a seed may give
          CpEvery,           \* CP_EVERY
          MaxCrashes,        \* bound on the number of crashes
          Hash,              \* hash values (u64)
          Digest(_),         \* KV::audit_digest, of a map
          ChainStep(_, _),   \* chain_step(prev, audit)
          Genesis            \* the chain's first value

Unit == [key : Keys, val : Stored]     \* val = Nil is DEL

ASSUME GuardAssumption ==
  /\ Streams \subseteq Seq(Unit)
  /\ CpEvery \in Nat \ {0}
  /\ MaxCrashes \in Nat

ASSUME HashAssumption ==
  /\ Genesis \in Hash
  /\ \A m \in Store : Digest(m) \in Hash
  /\ \A c, a \in Hash : ChainStep(c, a) \in Hash

VARIABLES stream,     \* what the generator yields from its seed
          refMaps,    \* the reference run: its map before and after each unit,
          refChains,  \* and its audit chain
          mode,       \* what the program is doing, or the assertion that stopped it
          i,          \* units done by the current run_units loop
          drawn,      \* units drawn from the current generator
          map,        \* kv, after a restart kv2
          skip,       \* the map of the replay from genesis
          chain,      \* chain, after a restart chain2
          step,       \* where write_capsule stands
          tmp, fin,   \* capsule.tmp and capsule.txt
          cpChain,    \* last_cp_chain
          crashes

vars == <<stream, refMaps, refChains, mode, i, drawn, map, skip, chain, step,
          tmp, fin, cpChain, crashes>>
ref    == <<refMaps, refChains>>
disk   == <<tmp, fin, cpChain>>

NoFile  == [unit |-> 0, whole |-> FALSE, audit |-> Genesis, state |-> {}]
Partial == [NoFile EXCEPT !.unit = 1]
Last(s) == s[Len(s)]
Total   == Len(stream)

Do(m, unit) == Write(m, unit.key, unit.val)
Audit(c, m) == ChainStep(c, Digest(m))

Init ==
  /\ stream \in Streams
  /\ refMaps = <<Empty>>
  /\ refChains = <<Genesis>>
  /\ mode = "reference"
  /\ i = 0 /\ drawn = 0
  /\ map = Empty /\ skip = Empty
  /\ chain = Genesis /\ cpChain = Genesis
  /\ step = "none"
  /\ tmp = NoFile /\ fin = NoFile
  /\ crashes = 0

-----------------------------------------------------------------------------
(* 1) The reference run. *)

ReferenceUnit ==
  /\ mode = "reference"
  /\ Len(refMaps) <= Total
  /\ LET m == Do(Last(refMaps), stream[Len(refMaps)])
     IN  /\ refMaps' = Append(refMaps, m)
         /\ refChains' = Append(refChains, Audit(Last(refChains), m))
  /\ UNCHANGED <<stream, mode, i, drawn, map, skip, chain, step, disk, crashes>>

StartLive ==
  /\ mode = "reference"
  /\ Len(refMaps) = Total + 1
  /\ mode' = "live"
  /\ UNCHANGED <<stream, ref, i, drawn, map, skip, chain, step, disk, crashes>>

-----------------------------------------------------------------------------
(* 2) The live run. *)

(* One unit of run_units; at a multiple of CP_EVERY the batch is over. *)
LiveUnit ==
  /\ mode = "live" /\ step = "none"
  /\ i < Total
  /\ map' = Do(map, stream[drawn + 1])
  /\ chain' = Audit(chain, map')
  /\ i' = i + 1
  /\ drawn' = drawn + 1
  /\ step' = IF (i + 1) % CpEvery = 0 THEN "write" ELSE "none"
  /\ UNCHANGED <<stream, ref, mode, skip, disk, crashes>>

(* Mutant: the capsule is written in place. *)
OpenTmpMutant ==
  /\ mode = "live" /\ step = "write"
  /\ fin' = Partial
  /\ step' = "fill"
  /\ UNCHANGED <<stream, ref, mode, i, drawn, map, skip, chain, tmp, cpChain, crashes>>

(* write_capsule: the temporary file is written, in no single step, and then *)
(* renamed over the old capsule.                                             *)
OpenTmp ==
  /\ mode = "live" /\ step = "write"
  /\ tmp' = Partial
  /\ step' = "fill"
  /\ UNCHANGED <<stream, ref, mode, i, drawn, map, skip, chain, fin, cpChain, crashes>>

FillTmp ==
  /\ mode = "live" /\ step = "fill"
  /\ tmp' = [unit |-> i, whole |-> TRUE, audit |-> Digest(map), state |-> Snapshot(map)]
  /\ step' = "rename"
  /\ UNCHANGED <<stream, ref, mode, i, drawn, map, skip, chain, fin, cpChain, crashes>>

(* The rename, and what main remembers of it: last_cp_chain, and last_cp_unit, *)
(* which is the unit in the file (the assertion at line 130).                *)
Rename ==
  /\ mode = "live" /\ step = "rename"
  /\ fin' = tmp
  /\ tmp' = NoFile
  /\ cpChain' = chain
  /\ step' = "none"
  /\ UNCHANGED <<stream, ref, mode, i, drawn, map, skip, chain, crashes>>

Crash ==
  /\ mode \in {"live", "skip", "resume"}
  /\ crashes < MaxCrashes
  /\ crashes' = crashes + 1
  /\ mode' = "crashed"
  /\ step' = "none"
  /\ UNCHANGED <<stream, ref, i, drawn, map, skip, chain, disk>>

-----------------------------------------------------------------------------
(* 3) The restart, and 4) the final comparison. *)

(* Mutant: the chain goes on from the checkpoint's, and the replay adds to it. *)
RestartMutant ==
  /\ mode = "crashed"
  /\ mode' = CASE ~fin.whole -> "no capsule"
               [] fin.whole /\ Digest(FromSnapshot(fin.state)) # fin.audit -> "capsule damaged"
               [] OTHER -> "skip"
  /\ map' = FromSnapshot(fin.state)
  /\ skip' = Empty
  /\ chain' = cpChain
  /\ i' = 0 /\ drawn' = 0
  /\ UNCHANGED <<stream, ref, step, disk, crashes>>

(* read_capsule, from_snapshot and the check of the audit; the generator     *)
(* starts again from its seed.                                               *)
Restart ==
  /\ mode = "crashed"
  /\ mode' = CASE ~fin.whole -> "no capsule"
               [] fin.whole /\ Digest(FromSnapshot(fin.state)) # fin.audit -> "capsule damaged"
               [] OTHER -> "skip"
  /\ map' = FromSnapshot(fin.state)
  /\ skip' = Empty
  /\ chain' = Genesis
  /\ i' = 0 /\ drawn' = 0
  /\ UNCHANGED <<stream, ref, step, disk, crashes>>

(* Two mutants of the replay: one unit too many, one too few. *)
SkipUnitMutant ==
  /\ mode = "skip"
  /\ i <= fin.unit
  /\ skip' = Do(skip, stream[drawn + 1])
  /\ chain' = Audit(chain, skip')
  /\ i' = i + 1
  /\ drawn' = drawn + 1
  /\ UNCHANGED <<stream, ref, mode, map, step, disk, crashes>>

SkipUnitShortMutant ==
  /\ mode = "skip"
  /\ i + 1 < fin.unit
  /\ skip' = Do(skip, stream[drawn + 1])
  /\ chain' = Audit(chain, skip')
  /\ i' = i + 1
  /\ drawn' = drawn + 1
  /\ UNCHANGED <<stream, ref, mode, map, step, disk, crashes>>

(* The replay from genesis, for the audit chain and the generator's state. *)
SkipUnit ==
  /\ mode = "skip"
  /\ i < fin.unit
  /\ skip' = Do(skip, stream[drawn + 1])
  /\ chain' = Audit(chain, skip')
  /\ i' = i + 1
  /\ drawn' = drawn + 1
  /\ UNCHANGED <<stream, ref, mode, map, step, disk, crashes>>

CheckChain ==
  /\ mode = "skip"
  /\ i = fin.unit
  /\ mode' = IF chain = cpChain THEN "resume" ELSE "chain at capsule differs"
  /\ UNCHANGED <<stream, ref, i, drawn, map, skip, chain, step, disk, crashes>>

ResumeUnit ==
  /\ mode = "resume"
  /\ i < Total
  /\ map' = Do(map, stream[drawn + 1])
  /\ chain' = Audit(chain, map')
  /\ i' = i + 1
  /\ drawn' = drawn + 1
  /\ UNCHANGED <<stream, ref, mode, skip, step, disk, crashes>>

Compare ==
  /\ mode = "resume"
  /\ i = Total
  /\ mode' = IF Digest(map) = Digest(Last(refMaps)) /\ chain = Last(refChains)
             THEN "done" ELSE "final differs"
  /\ UNCHANGED <<stream, ref, i, drawn, map, skip, chain, step, disk, crashes>>

Recover == Restart \/ SkipUnit \/ CheckChain \/ ResumeUnit \/ Compare

Next ==
  \/ ReferenceUnit \/ StartLive
  \/ LiveUnit \/ OpenTmp \/ FillTmp \/ Rename
  \/ Crash
  \/ Recover

(* Somebody restarts the process, and a restarted process runs on. *)
Spec == Init /\ [][Next]_vars /\ WF_vars(Recover)

-----------------------------------------------------------------------------
Running == {"reference", "live", "crashed", "skip", "resume", "done", "no capsule"}

TypeOK ==
  /\ stream \in Streams
  /\ refMaps \in Seq(Store)
  /\ refChains \in Seq(Hash)
  /\ Len(refMaps) \in 1 .. Total + 1
  /\ Len(refChains) = Len(refMaps)
  /\ i \in 0 .. Total
  /\ drawn \in 0 .. Total
  /\ map \in Store
  /\ skip \in Store
  /\ step \in {"none", "write", "fill", "rename"}
  /\ mode = "skip" => i <= fin.unit
  /\ mode \in Running \union {"capsule damaged", "chain at capsule differs", "final differs"}
  /\ crashes \in 0 .. MaxCrashes

(* The file a restart reads is never torn, never ahead of or behind the unit *)
(* it names: it is the reference run's map after exactly that unit, with its *)
(* audit, and the chain that went with it (lines 45-51, 119-122).            *)
CapsuleIsPrefix ==
  fin # NoFile =>
    /\ fin.whole
    /\ fin.unit + 1 \in 1 .. Len(refMaps)
    /\ fin.state = Snapshot(refMaps[fin.unit + 1])
    /\ fin.audit = Digest(refMaps[fin.unit + 1])
    /\ cpChain = refChains[fin.unit + 1]

(* Wherever the process crashes, and however often, none of the program's    *)
(* comparisons (lines 132, 138, 146, 147) ever fails: a restart that finds a *)
(* capsule ends with the audit and the chain of the uninterrupted run.       *)
CrashConsistent == mode \in Running

(* A crash after the first capsule costs nothing but time: the restarts end  *)
(* in the finished stream once the crashes end.                              *)
RecoveryEnds == (mode = "crashed" /\ fin # NoFile) ~> (mode = "done")
=============================================================================
