------------------------- MODULE PhaseServerProofs -------------------------
(***************************************************************************)
(* Proofs about the key-value server for every set of keys and values and  *)
(* every bound on the log: it cannot be told from a server that copies its *)
(* whole map at every write.                                               *)
(*                                                                         *)
(* The argument is one fact about logs (UnwindPush): a map and a log       *)
(* unwind to the same earlier maps as the map before the newest write and  *)
(* the log without its record. Writing a key is that fact read from left   *)
(* to right, putting a record back is the same fact read from right to     *)
(* left.                                                                   *)
(***************************************************************************)
EXTENDS PhaseServer, SequenceTheorems, WellFoundedInduction, TLAPS

(* A set of natural numbers that is not empty has a least element. *)
LEMMA LeastNat ==
  ASSUME NEW T, T \subseteq Nat, T # {}
  PROVE  \E i \in T : \A h \in T : i <= h
  <1>1. PICK i \in T : \A h \in T : ~(<<h, i>> \in OpToRel(<, Nat))
    BY NatLessThanWellFounded, WFMin
  <1>2. ASSUME NEW h \in T PROVE i <= h
    <2>1. ~(<<h, i>> \in {ss \in Nat \X Nat : ss[1] < ss[2]})
      BY <1>1 DEF OpToRel
    <2>2. h \in Nat /\ i \in Nat
      OBVIOUS
    <2>3. ~(h < i)
      BY <2>1, <2>2
    <2> QED
      BY <2>2, <2>3
  <1> QED
    BY <1>2

LEMMA OldestFact ==
  ASSUME NEW log \in Seq(Rec), NEW j \in Nat, NEW k, Later(log, j, k) # {}
  PROVE  /\ Oldest(log, j, k) \in Later(log, j, k)
         /\ \A h \in Later(log, j, k) : Oldest(log, j, k) <= h
         /\ log[Oldest(log, j, k)] \in Rec
  <1>1. Later(log, j, k) \subseteq Nat
    BY DEF Later
  <1>2. \E i \in Later(log, j, k) : \A h \in Later(log, j, k) : i <= h
    BY <1>1, LeastNat
  <1>3. /\ Oldest(log, j, k) \in Later(log, j, k)
        /\ \A h \in Later(log, j, k) : Oldest(log, j, k) <= h
    BY <1>2 DEF Oldest
  <1> QED
    BY <1>3 DEF Later

(* Unwinding gives a map; unwinding nothing gives the map itself. *)
LEMMA UnwoundStore ==
  ASSUME NEW m \in Store, NEW log \in Seq(Rec), NEW j \in Nat
  PROVE  Unwound(m, log, j) \in Store
  BY OldestFact DEF Unwound, Store, Rec

LEMMA UnwindNothing ==
  ASSUME NEW m \in Store, NEW log \in Seq(Rec)
  PROVE  Unwound(m, log, Len(log)) = m
  BY DEF Unwound, Later, Store

(* Pushing a record whose key had the recorded value, while every other key  *)
(* stays, changes no earlier version.                                        *)
LEMMA UnwindPush ==
  ASSUME NEW m1 \in Store, NEW m2 \in Store, NEW log \in Seq(Rec), NEW rec \in Rec,
         m1 = ApplyInverse(m2, rec), NEW j \in 0 .. Len(log)
  PROVE  Unwound(m2, Append(log, rec), j) = Unwound(m1, log, j)
  <1> DEFINE log2 == Append(log, rec)
  <1>1. /\ log2 \in Seq(Rec) /\ Len(log2) = Len(log) + 1
        /\ log2[Len(log) + 1] = rec
        /\ \A i \in 1 .. Len(log) : log2[i] = log[i]
    OBVIOUS
  <1>2. rec.key \in Keys /\ rec.old \in Stored /\ j \in Nat /\ Len(log) \in Nat
    BY DEF Rec
  <1> HIDE DEF log2
  <1>3. ASSUME NEW k \in Keys
        PROVE  (IF Later(log2, j, k) = {} THEN m2[k] ELSE log2[Oldest(log2, j, k)].old)
               = (IF Later(log, j, k) = {} THEN m1[k] ELSE log[Oldest(log, j, k)].old)
    <2>1. CASE k # rec.key
      <3>1. Later(log2, j, k) = Later(log, j, k)
        BY <1>1, <1>2, <2>1 DEF Later
      <3>2. m1[k] = m2[k]
        BY <1>2, <2>1 DEF ApplyInverse, Write, Store
      <3>3. Oldest(log2, j, k) = Oldest(log, j, k)
        BY <3>1 DEF Oldest
      <3>4. CASE Later(log, j, k) # {}
        <4>1. Oldest(log, j, k) \in 1 .. Len(log)
          BY <1>2, <3>4, OldestFact DEF Later
        <4> QED
          BY <1>1, <3>1, <3>3, <3>4, <4>1
      <3> QED
        BY <3>1, <3>2, <3>4
    <2>2. CASE k = rec.key
      <3>1. Later(log2, j, k) = Later(log, j, k) \union {Len(log) + 1}
        BY <1>1, <1>2, <2>2 DEF Later
      <3>2. /\ Oldest(log2, j, k) \in Later(log2, j, k)
            /\ \A h \in Later(log2, j, k) : Oldest(log2, j, k) <= h
        BY <1>1, <1>2, <3>1, OldestFact
      <3>3. CASE Later(log, j, k) = {}
        <4>1. m1[k] = rec.old
          BY <1>2, <2>2 DEF ApplyInverse, Write, Store
        <4>2. Oldest(log2, j, k) = Len(log) + 1
          BY <3>1, <3>2, <3>3
        <4> QED
          BY <1>1, <3>1, <3>3, <4>1, <4>2
      <3>4. CASE Later(log, j, k) # {}
        <4>1. /\ Oldest(log, j, k) \in Later(log, j, k)
              /\ \A h \in Later(log, j, k) : Oldest(log, j, k) <= h
          BY <1>2, <3>4, OldestFact
        <4>2. Later(log, j, k) \subseteq 1 .. Len(log)
          BY <1>2 DEF Later
        <4>3. Oldest(log2, j, k) = Oldest(log, j, k)
          BY <1>2, <3>1, <3>2, <4>1, <4>2
        <4> QED
          BY <1>1, <3>1, <3>4, <4>1, <4>2, <4>3
      <3> QED
        BY <3>3, <3>4
    <2> QED
      BY <2>1, <2>2
  <1> QED
    BY <1>3 DEF Unwound, log2

-----------------------------------------------------------------------------
(* Type correctness. *)

LEMMA SnapshotRoundTrip ==
  ASSUME NEW m \in Store
  PROVE  FromSnapshot(Snapshot(m)) = m
  <1>1. ASSUME NEW k \in Keys
        PROVE  (IF \E v \in Values : <<k, v>> \in Snapshot(m)
                THEN CHOOSE v \in Values : <<k, v>> \in Snapshot(m) ELSE Nil) = m[k]
    <2>1. \A v : <<k, v>> \in Snapshot(m) <=> m[k] # Nil /\ v = m[k]
      BY DEF Snapshot
    <2>2. m[k] \in Values \union {Nil} /\ Nil \notin Values
      BY NilAssumption DEF Store, Stored
    <2> QED
      BY <2>1, <2>2
  <1> QED
    BY <1>1 DEF FromSnapshot, Store

LEMMA StepType == TypeOK /\ [Next]_vars => TypeOK'
  <1> SUFFICES ASSUME TypeOK, [Next]_vars PROVE TypeOK'
    OBVIOUS
  <1>1. ASSUME NEW k \in Keys, NEW v \in Stored, Put(k, v) PROVE TypeOK'
    <2>1. [key |-> k, old |-> map[k]] \in Rec
      BY DEF TypeOK, Store, Rec
    <2>2. map' \in Store
      BY <1>1 DEF Put, TypeOK, Store, Write
    <2>5. PICK rec \in Rec : rec = [key |-> k, old |-> map[k]]
      BY <2>1
    <2>6. undo \in Seq(Rec) /\ buf \in Seq(Rec)
      BY DEF TypeOK
    <2>7. Append(undo, rec) \in Seq(Rec) /\ Append(buf, rec) \in Seq(Rec)
      BY <2>6
    <2>8. undo' \in Seq(Rec) /\ buf' \in Seq(Rec)
      <3>1. /\ open => buf' = Append(buf, rec) /\ undo' = undo
            /\ ~open => undo' = Append(undo, rec) /\ buf' = buf
        BY <1>1, <2>5 DEF Put
      <3> QED
        BY <2>6, <2>7, <3>1
    <2>3. CASE open
      BY <1>1, <2>2, <2>3, <2>8 DEF Put, TypeOK, Ready
    <2>4. CASE ~open
      BY <1>1, <2>2, <2>4, <2>8 DEF Put, TypeOK, Ready
    <2> QED
      BY <2>3, <2>4
  <1>2. ASSUME NEW k \in Keys, Get(k) PROVE TypeOK'
    BY <1>2 DEF Get, TypeOK, Ready
  <1>3. CASE Begin
    BY <1>3 DEF Begin, TypeOK, Ready
  <1>4. CASE Commit
    <2>1. undo \in Seq(Rec) /\ buf \in Seq(Rec)
      BY DEF TypeOK
    <2>2. undo \o buf \in Seq(Rec)
      BY <2>1
    <2> QED
      BY <1>4, <2>2 DEF Commit, TypeOK, Ready
  <1>5. CASE Rollback
    BY <1>5 DEF Rollback, TypeOK, Ready
  <1>6. CASE Refuse
    BY <1>6 DEF Refuse, TypeOK, Ready
  <1>7. CASE Restart
    BY <1>7, SnapshotRoundTrip DEF Restart, TypeOK, Ready
  <1>8. ASSUME NEW n \in UndoCounts, Undo(n) PROVE TypeOK'
    <2> DEFINE d == IF n <= Len(undo) THEN n ELSE Len(undo)
    <2>1. n \in Nat /\ undo \in Seq(Rec) /\ Len(undo) \in Nat
      BY ServerAssumption DEF TypeOK
    <2>2. d \in 0 .. Len(undo)
      BY <2>1
    <2> HIDE DEF d
    <2>3. /\ SubSeq(undo, Len(undo) - d + 1, Len(undo)) \in Seq(Rec)
          /\ SubSeq(undo, 1, Len(undo) - d) \in Seq(Rec)
      BY <2>1, <2>2
    <2>4. undo' \in Seq(Rec) /\ todo' \in Seq(Rec)
      BY <1>8, <2>3 DEF Undo, d
    <2> QED
      BY <1>8, <2>4 DEF Undo, TypeOK, Ready
  <1>9. CASE PutBack
    <2>1. todo \in Seq(Rec) /\ todo # <<>>
      BY <1>9 DEF PutBack, TypeOK
    <2>2. todo[Len(todo)] \in Rec /\ SubSeq(todo, 1, Len(todo) - 1) \in Seq(Rec)
      BY <2>1
    <2>3. map' \in Store
      BY <1>9, <2>2 DEF PutBack, TypeOK, Store, Rec, ApplyInverse, Write
    <2> QED
      BY <1>9, <2>2, <2>3 DEF PutBack, TypeOK
  <1>10. CASE UNCHANGED vars
    BY <1>10 DEF vars, TypeOK
  <1> QED
    BY <1>1, <1>2, <1>3, <1>4, <1>5, <1>6, <1>7, <1>8, <1>9, <1>10 DEF Next

LEMMA InitType == Init => TypeOK
  <1>1. Empty \in Store
    BY DEF Empty, Store, Stored
  <1>2. <<>> \in Seq(Rec)
    OBVIOUS
  <1> QED
    BY <1>1, <1>2 DEF Init, TypeOK

(* Type correctness of the server. *)
THEOREM ServerTypeCorrect == Spec => []TypeOK
  BY InitType, StepType, PTL DEF Spec

-----------------------------------------------------------------------------
(* The versions as sequences of maps. *)

VersionsFact ==
  /\ Log \in Seq(Rec) /\ Len(Log) = Len(undo) + Len(buf) + Len(todo)
  /\ Versions \in Seq(Store) /\ Len(Versions) = Len(undo) + 1
  /\ Draft \in Seq(Store) /\ Len(Draft) = Len(buf)
  /\ \A j \in 1 .. Len(undo) + 1 : Versions[j] = Unwound(map, Log, j - 1)
  /\ \A j \in 1 .. Len(buf) : Draft[j] = Unwound(map, Log, Len(undo) + j)
  /\ Len(undo) \in Nat /\ Len(buf) \in Nat /\ Len(todo) \in Nat

LEMMA VersionsHold == TypeOK => VersionsFact
  <1> SUFFICES ASSUME TypeOK PROVE VersionsFact
    OBVIOUS
  <1>1. /\ Log \in Seq(Rec) /\ Len(Log) = Len(undo) + Len(buf) + Len(todo)
        /\ Len(undo) \in Nat /\ Len(buf) \in Nat /\ Len(todo) \in Nat
        /\ map \in Store
    BY DEF TypeOK, Log
  <1>2. \A j \in Nat : Unwound(map, Log, j) \in Store
    BY <1>1, UnwoundStore
  <1>3. PICK u \in Nat, c \in Nat : u = Len(undo) /\ c = Len(buf)
    BY <1>1
  <1>4. /\ Versions = [j \in 1 .. u + 1 |-> Unwound(map, Log, j - 1)]
        /\ Draft = [j \in 1 .. c |-> Unwound(map, Log, u + j)]
    BY <1>3 DEF Versions, Draft
  <1>5. /\ \A j \in 1 .. u + 1 : j - 1 \in Nat
        /\ \A j \in 1 .. c : u + j \in Nat
        /\ u + 1 \in Nat
    OBVIOUS
  <1>6. /\ Versions \in [1 .. u + 1 -> Store] /\ Draft \in [1 .. c -> Store]
        /\ \A j \in 1 .. u + 1 : Versions[j] = Unwound(map, Log, j - 1)
        /\ \A j \in 1 .. c : Draft[j] = Unwound(map, Log, u + j)
    BY <1>2, <1>4, <1>5
  <1>7. /\ Versions \in Seq(Store) /\ Len(Versions) = u + 1
        /\ Draft \in Seq(Store) /\ Len(Draft) = c
    BY <1>5, <1>6
  <1> QED
    BY <1>1, <1>3, <1>6, <1>7 DEF VersionsFact

LEMMA VersionsHoldNext == TypeOK' => VersionsFact'
  BY VersionsHold, PTL

CurrentFact == Ready => Abs!Current = map /\ Len(Abs!All) = Len(undo) + Len(buf) + 1

LEMMA CurrentIsMap == TypeOK => CurrentFact
  <1> SUFFICES ASSUME TypeOK, Ready
               PROVE  Abs!Current = map /\ Len(Abs!All) = Len(undo) + Len(buf) + 1
    BY DEF CurrentFact
  <1>1. /\ Len(Versions) = Len(undo) + 1 /\ Len(Draft) = Len(buf)
        /\ Versions \in Seq(Store) /\ Draft \in Seq(Store)
        /\ Len(undo) \in Nat /\ Len(buf) \in Nat
        /\ Len(Log) = Len(undo) + Len(buf) /\ Log \in Seq(Rec)
    BY VersionsHold DEF VersionsFact, Ready
  <1>2. Unwound(map, Log, Len(undo) + Len(buf)) = map
    <2>1. map \in Store
      BY DEF TypeOK
    <2>2. Unwound(map, Log, Len(Log)) = map
      BY <1>1, <2>1, UnwindNothing
    <2> QED
      BY <1>1, <2>2
  <1>3. Abs!All = Versions \o Draft /\ Len(Abs!All) = Len(undo) + Len(buf) + 1
    BY <1>1 DEF Abs!All
  <1>4. Len(buf) = 0 => Abs!All[Len(Abs!All)] = Versions[Len(undo) + 1]
    BY <1>1, <1>3
  <1>5. Len(buf) # 0 => Abs!All[Len(Abs!All)] = Draft[Len(buf)]
    BY <1>1, <1>3
  <1>6. Len(buf) = 0 => Versions[Len(undo) + 1] = map
    BY <1>1, <1>2, VersionsHold DEF VersionsFact
  <1>7. Len(buf) # 0 => Draft[Len(buf)] = map
    BY <1>1, <1>2, VersionsHold DEF VersionsFact
  <1> QED
    BY <1>3, <1>4, <1>5, <1>6, <1>7 DEF Abs!Current

LEMMA CurrentIsMapNext == TypeOK' => CurrentFact'
  BY CurrentIsMap, PTL

-----------------------------------------------------------------------------
(* Every step of the server is a step of the store of versions, or leaves    *)
(* that store as it is.                                                      *)

(* What a command leaves of the versions when the log changes from Log to    *)
(* Log' and no earlier version does.                                         *)
LEMMA SameVersions ==
  ASSUME TypeOK, TypeOK',
         \A j \in 0 .. Len(undo) + Len(buf) :
           j <= Len(undo') + Len(buf') => Unwound(map', Log', j) = Unwound(map, Log, j)
  PROVE  /\ \A j \in 1 .. Len(undo) + 1 :
              j \in 1 .. Len(undo') + 1 => Versions'[j] = Versions[j]
         /\ Len(undo') = Len(undo) =>
              \A j \in 1 .. Len(buf) :
                j \in 1 .. Len(buf') => Draft'[j] = Draft[j]
  <1>1. /\ \A j \in 1 .. Len(undo) + 1 : Versions[j] = Unwound(map, Log, j - 1)
        /\ \A j \in 1 .. Len(buf) : Draft[j] = Unwound(map, Log, Len(undo) + j)
        /\ Len(undo) \in Nat /\ Len(buf) \in Nat
    BY VersionsHold DEF VersionsFact
  <1>2. /\ \A j \in 1 .. Len(undo') + 1 : Versions'[j] = Unwound(map', Log', j - 1)
        /\ \A j \in 1 .. Len(buf') : Draft'[j] = Unwound(map', Log', Len(undo') + j)
        /\ Len(undo') \in Nat /\ Len(buf') \in Nat
    BY VersionsHoldNext DEF VersionsFact
  <1>3. ASSUME NEW j \in 1 .. Len(undo) + 1, j \in 1 .. Len(undo') + 1
        PROVE  Versions'[j] = Versions[j]
    <2>1. j - 1 \in 0 .. Len(undo) + Len(buf) /\ j - 1 <= Len(undo') + Len(buf')
      BY <1>1, <1>2, <1>3
    <2> QED
      BY <1>1, <1>2, <1>3, <2>1
  <1>4. ASSUME Len(undo') = Len(undo), NEW j \in 1 .. Len(buf), j \in 1 .. Len(buf')
        PROVE  Draft'[j] = Draft[j]
    <2>1. /\ Len(undo) + j \in 0 .. Len(undo) + Len(buf)
          /\ Len(undo) + j <= Len(undo') + Len(buf')
      BY <1>1, <1>2, <1>4
    <2> QED
      BY <1>1, <1>2, <1>4, <2>1
  <1> QED
    BY <1>3, <1>4

LEMMA PutStep ==
  ASSUME TypeOK, TypeOK', NEW k \in Keys, NEW v \in Stored, Put(k, v)
  PROVE  Abs!AbsPut(k, v)
  <1> DEFINE rec == [key |-> k, old |-> map[k]]
  <1>1. /\ rec \in Rec /\ map \in Store /\ map' \in Store /\ map = ApplyInverse(map', rec)
        /\ map' = Write(map, k, v)
    BY DEF Put, TypeOK, Store, Rec, ApplyInverse, Write
  <1>2. /\ Log \in Seq(Rec) /\ Len(Log) = Len(undo) + Len(buf)
        /\ Len(undo) \in Nat /\ Len(buf) \in Nat
        /\ Versions \in Seq(Store) /\ Len(Versions) = Len(undo) + 1
        /\ Draft \in Seq(Store) /\ Len(Draft) = Len(buf)
        /\ undo \in Seq(Rec) /\ buf \in Seq(Rec) /\ todo = <<>> /\ todo' = <<>>
    BY VersionsHold DEF VersionsFact, Put, Ready, TypeOK
  <1>3. /\ Versions' \in Seq(Store) /\ Len(Versions') = Len(undo') + 1
        /\ Draft' \in Seq(Store) /\ Len(Draft') = Len(buf')
        /\ Ready'
    BY <1>2, VersionsHoldNext DEF VersionsFact, Ready
  <1>4. Log' = Append(Log, rec)
    <2>1. CASE open
      BY <1>1, <1>2, <2>1 DEF Put, Log
    <2>2. CASE ~open
      BY <1>1, <1>2, <2>2 DEF Put, Log, TypeOK
    <2> QED
      BY <2>1, <2>2
  <1> HIDE DEF rec
  <1>5. \A j \in 0 .. Len(undo) + Len(buf) : Unwound(map', Log', j) = Unwound(map, Log, j)
    BY <1>1, <1>2, <1>4, UnwindPush
  <1>6. Abs!Current = map /\ Len(Abs!All) = Len(undo) + Len(buf) + 1
    BY CurrentIsMap DEF CurrentFact, Put
  <1>7. Abs!Current' = map'
    BY <1>3, CurrentIsMapNext DEF CurrentFact
  <1>8. Len(Abs!All) <= MaxLog /\ Abs!Write(Abs!Current, k, v) = map'
    BY <1>1, <1>2, <1>6, ServerAssumption DEF Put, Abs!Write, Write
  <1>9. CASE open
    <2>1. Len(undo') = Len(undo) /\ Len(buf') = Len(buf) + 1 /\ undo' = undo
      BY <1>1, <1>2, <1>9 DEF Put, rec
    <2>2. /\ \A j \in 1 .. Len(undo) + 1 : Versions'[j] = Versions[j]
          /\ \A j \in 1 .. Len(buf) : Draft'[j] = Draft[j]
      BY <1>2, <1>5, <2>1, SameVersions
    <2>3. Draft'[Len(buf) + 1] = map'
      BY <1>2, <1>3, <1>7, <2>1 DEF Abs!Current, Abs!All
    <2>4. Versions' = Versions
      BY <1>2, <1>3, <2>1, <2>2
    <2>5. Draft' = Append(Draft, map')
      BY <1>1, <1>2, <1>3, <2>1, <2>2, <2>3
    <2> QED
      BY <1>8, <1>9, <2>4, <2>5 DEF Put, Abs!AbsPut, Abs!Ok, Ok
  <1>10. CASE ~open
    <2>1. Len(undo') = Len(undo) + 1 /\ buf' = <<>> /\ buf = <<>>
      BY <1>1, <1>2, <1>10 DEF Put, TypeOK, rec
    <2>2. \A j \in 1 .. Len(undo) + 1 : Versions'[j] = Versions[j]
      BY <1>2, <1>5, <2>1, SameVersions
    <2>3. Versions'[Len(undo) + 2] = map'
      BY <1>2, <1>3, <1>7, <2>1 DEF Abs!Current, Abs!All
    <2>4. Versions' = Append(Versions, map')
      BY <1>1, <1>2, <1>3, <2>1, <2>2, <2>3
    <2>5. Draft' = Draft
      BY <1>2, <1>3, <2>1
    <2> QED
      BY <1>8, <1>10, <2>4, <2>5 DEF Put, Abs!AbsPut, Abs!Ok, Ok
  <1> QED
    BY <1>9, <1>10

(* COMMIT and ROLLBACK leave the log as it is: the buffer joins the undo log *)
(* or the records still to be put back.                                      *)
LEMMA CommitStep ==
  ASSUME TypeOK, TypeOK', Commit
  PROVE  Abs!AbsCommit
  <1>1. /\ undo \in Seq(Rec) /\ buf \in Seq(Rec) /\ todo = <<>> /\ todo' = <<>>
        /\ undo' = undo \o buf /\ buf' = <<>> /\ map' = map
    BY DEF Commit, Ready, TypeOK
  <1>2. Log' = Log /\ Len(undo') = Len(undo) + Len(buf)
    BY <1>1 DEF Log
  <1>3. VersionsFact /\ VersionsFact'
    BY VersionsHold, VersionsHoldNext
  <1>4. Versions' = Versions \o Draft
    <2> DEFINE W == Versions \o Draft
               n == Len(undo) + Len(buf) + 1
    <2>1. /\ Versions' \in Seq(Store) /\ Len(Versions') = n
          /\ Len(undo) \in Nat /\ Len(buf) \in Nat
          /\ Versions \in Seq(Store) /\ Draft \in Seq(Store)
          /\ Len(Versions) = Len(undo) + 1 /\ Len(Draft) = Len(buf)
      BY <1>2, <1>3 DEF VersionsFact
    <2>2. W \in Seq(Store) /\ Len(W) = n
      BY <2>1, SMTT(30)
    <2>3. ASSUME NEW j \in 1 .. n PROVE Versions'[j] = W[j]
      <3>1. Versions'[j] = Unwound(map, Log, j - 1)
        BY <1>1, <1>2, <1>3, <2>1 DEF VersionsFact
      <3>2. CASE j <= Len(undo) + 1
        <4>1. W[j] = Versions[j]
          BY <2>1, <3>2
        <4> QED
          BY <1>3, <2>1, <3>1, <3>2, <4>1 DEF VersionsFact
      <3>3. CASE j > Len(undo) + 1
        <4> DEFINE i == j - (Len(undo) + 1)
        <4>1. i \in 1 .. Len(buf) /\ Len(undo) + i = j - 1
          BY <2>1, <3>3
        <4>2. W[j] = Draft[i]
          BY <2>1, <3>3
        <4>3. Draft[i] = Unwound(map, Log, Len(undo) + i)
          BY <1>3, <4>1 DEF VersionsFact
        <4> QED
          BY <3>1, <4>1, <4>2, <4>3
      <3> QED
        BY <2>1, <3>2, <3>3
    <2> HIDE DEF W, n
    <2>4. Versions' = W
      BY <2>1, <2>2, <2>3
    <2> QED
      BY <2>4 DEF W
  <1>5. Draft' = <<>>
    BY <1>1, <1>3 DEF VersionsFact
  <1> QED
    BY <1>3, <1>4, <1>5 DEF Commit, Abs!AbsCommit, Abs!Counted, Counted, VersionsFact

LEMMA RollbackStep ==
  ASSUME TypeOK, TypeOK', Rollback
  PROVE  Abs!AbsRollback
  <1>1. /\ undo \in Seq(Rec) /\ buf \in Seq(Rec) /\ todo = <<>> /\ todo' = buf
        /\ undo' = undo /\ buf' = <<>> /\ map' = map
    BY DEF Rollback, Ready, TypeOK
  <1>2. Log' = Log
    BY <1>1 DEF Log
  <1>3. VersionsFact /\ VersionsFact'
    BY VersionsHold, VersionsHoldNext
  <1>4. Versions' = Versions
    BY <1>1, <1>2 DEF Versions
  <1>5. Draft' = <<>>
    BY <1>1, <1>3 DEF VersionsFact
  <1> QED
    BY <1>3, <1>4, <1>5 DEF Rollback, Abs!AbsRollback, Abs!Counted, Counted, VersionsFact

(* A sequence is its beginning followed by its end. *)
LEMMA SplitSeq ==
  ASSUME NEW S, NEW s \in Seq(S), NEW d \in 0 .. Len(s)
  PROVE  SubSeq(s, 1, Len(s) - d) \o SubSeq(s, Len(s) - d + 1, Len(s)) = s
  <1>1. /\ 1 \in 1 .. Len(s) + 1
        /\ Len(s) - d \in (1 - 1) .. Len(s)
        /\ Len(s) \in (Len(s) - d) .. Len(s)
    OBVIOUS
  <1> QED
    BY <1>1, ConcatAdjacentSubSeq, SubSeqFull

LEMMA UndoStep ==
  ASSUME TypeOK, TypeOK', NEW n \in UndoCounts, Undo(n)
  PROVE  Abs!AbsUndo(n)
  <1> DEFINE d == IF n <= Len(undo) THEN n ELSE Len(undo)
  <1>1. /\ undo \in Seq(Rec) /\ buf = <<>> /\ buf' = <<>> /\ todo = <<>> /\ map' = map
        /\ Len(undo) \in Nat /\ n \in Nat
    BY ServerAssumption DEF Undo, Ready, TypeOK
  <1>2. d \in 0 .. Len(undo)
    BY <1>1
  <1>3. /\ undo' = SubSeq(undo, 1, Len(undo) - d)
        /\ todo' = SubSeq(undo, Len(undo) - d + 1, Len(undo))
        /\ reply' = Counted(d) /\ ~open /\ open' = open
    BY DEF Undo
  <1>4. d = IF n < Len(undo) + 1 THEN n ELSE Len(undo) + 1 - 1
    BY <1>1
  <1> HIDE DEF d
  <1>5. Log = undo /\ Len(undo') = Len(undo) - d
    BY <1>1, <1>2, <1>3 DEF Log
  <1>6. Log' = undo
    <2>1. undo' \o todo' = undo
      BY <1>1, <1>2, <1>3, SplitSeq
    <2>2. undo' \in Seq(Rec)
      BY <1>1, <1>2, <1>3
    <2> QED
      BY <1>1, <2>1, <2>2 DEF Log
  <1>7. VersionsFact /\ VersionsFact'
    BY VersionsHold, VersionsHoldNext
  <1>8. Versions' = SubSeq(Versions, 1, Len(Versions) - d)
    <2>1. /\ Versions \in Seq(Store) /\ Len(Versions) = Len(undo) + 1
          /\ Versions' \in Seq(Store) /\ Len(Versions') = Len(undo) - d + 1
          /\ \A j \in 1 .. Len(undo) + 1 : Versions[j] = Unwound(map, Log, j - 1)
          /\ \A j \in 1 .. Len(undo) - d + 1 : Versions'[j] = Unwound(map, Log, j - 1)
      BY <1>1, <1>5, <1>6, <1>7 DEF VersionsFact
    <2>2. ASSUME NEW j \in 1 .. Len(undo) - d + 1 PROVE Versions'[j] = Versions[j]
      <3>1. j \in 1 .. Len(undo) + 1
        BY <1>1, <1>2
      <3> QED
        BY <2>1, <3>1
    <2>3. PICK u \in Nat : u = Len(undo) /\ d \in 0 .. u
      BY <1>1, <1>2
    <2>4. /\ Len(Versions) = u + 1 /\ DOMAIN Versions = 1 .. u + 1
          /\ \A j \in 1 .. u + 1 : Versions[j] \in Store
          /\ Len(Versions') = u - d + 1
      BY <2>1, <2>3
    <2>5. /\ 1 \in Int /\ u + 1 - d \in Nat
          /\ \A j \in 1 .. u + 1 - d : j \in 1 .. u + 1
          /\ 1 <= u + 1 - d /\ u + 1 - d = u - d + 1
      BY <2>3
    <2>6. /\ SubSeq(Versions, 1, u + 1 - d) \in Seq(Store)
          /\ Len(SubSeq(Versions, 1, u + 1 - d)) = u - d + 1
          /\ \A j \in 1 .. u + 1 - d : SubSeq(Versions, 1, u + 1 - d)[j] = Versions[j]
      BY <2>1, <2>4, <2>5
    <2>7. Versions' = SubSeq(Versions, 1, u + 1 - d)
      BY <2>1, <2>2, <2>3, <2>4, <2>5, <2>6, SeqEqual
    <2>8. Len(Versions) - d = u + 1 - d
      BY <2>3, <2>4
    <2> QED
      BY <2>7, <2>8
  <1>9. Draft' = Draft
    BY <1>1, <1>7 DEF VersionsFact
  <1>10. Len(Versions) = Len(undo) + 1
    BY <1>7 DEF VersionsFact
  <1> QED
    BY <1>3, <1>4, <1>8, <1>9, <1>10 DEF Abs!AbsUndo, Abs!Counted, Counted

(* Putting a record back is invisible: the versions had lost it already. *)
LEMMA PutBackStep ==
  ASSUME TypeOK, TypeOK', PutBack
  PROVE  UNCHANGED Abs!absVars
  <1> DEFINE rec == todo[Len(todo)]
  <1>1. /\ undo \in Seq(Rec) /\ buf = <<>> /\ todo \in Seq(Rec) /\ todo # <<>>
        /\ undo' = undo /\ buf' = buf /\ todo' = SubSeq(todo, 1, Len(todo) - 1)
        /\ map' = ApplyInverse(map, rec) /\ map \in Store /\ map' \in Store
        /\ reply' = reply /\ open' = open
    BY DEF PutBack, TypeOK
  <1>2. rec \in Rec /\ todo' \in Seq(Rec) /\ todo = Append(todo', rec)
    BY <1>1
  <1> HIDE DEF rec
  <1>3. Log = Append(Log', rec) /\ Log' \in Seq(Rec)
    <2>1. Log' = undo \o todo' /\ Log = undo \o todo
      BY <1>1, <1>2 DEF Log
    <2> QED
      BY <1>1, <1>2, <2>1
  <1>4. VersionsFact /\ VersionsFact'
    BY VersionsHold, VersionsHoldNext
  <1>5. Len(Log') >= Len(undo) /\ Len(undo) \in Nat /\ Len(Log') \in Nat
    BY <1>1, <1>4 DEF VersionsFact
  <1>6. \A j \in 0 .. Len(undo) : Unwound(map', Log', j) = Unwound(map, Log, j)
    BY <1>1, <1>2, <1>3, <1>5, UnwindPush
  <1>7. Versions' = Versions
    BY <1>1, <1>5, <1>6 DEF Versions
  <1>8. Draft' = Draft
    BY <1>1, <1>4 DEF VersionsFact
  <1> QED
    BY <1>1, <1>7, <1>8 DEF Abs!absVars

LEMMA RestartStep ==
  ASSUME TypeOK, TypeOK', Restart
  PROVE  Abs!AbsRestart
  <1>1. /\ map' = map /\ undo' = <<>> /\ buf' = <<>> /\ todo' = <<>> /\ map \in Store
        /\ open' = FALSE /\ reply' = Ok /\ Ready /\ Ready'
    BY SnapshotRoundTrip DEF Restart, TypeOK, Ready
  <1>2. VersionsFact' /\ CurrentFact /\ CurrentFact'
    BY VersionsHoldNext, CurrentIsMap, CurrentIsMapNext
  <1>3. Abs!Current = map /\ Abs!Current' = map
    BY <1>1, <1>2 DEF CurrentFact
  <1>4. /\ Versions' \in Seq(Store) /\ Len(Versions') = 1
        /\ Draft' = <<>>
    BY <1>1, <1>2 DEF VersionsFact
  <1>5. Versions'[1] = map
    <2>1. Versions' \o Draft' = Versions'
      BY <1>4
    <2> QED
      BY <1>3, <1>4, <2>1 DEF Abs!Current, Abs!All
  <1>6. Versions' = <<map>>
    BY <1>1, <1>4, <1>5
  <1> QED
    BY <1>1, <1>3, <1>4, <1>6 DEF Abs!AbsRestart, Abs!Ok, Ok

LEMMA QuietStep ==
  ASSUME UNCHANGED <<map, undo, buf, todo>>
  PROVE  Versions' = Versions /\ Draft' = Draft
  BY DEF Versions, Draft, Log, Unwound

(* The server implements the store that copies its whole map at every write, *)
(* its replies included.                                                     *)
THEOREM ServerRefinement == Spec => ImplementsVersions
  <1>1. Init => Abs!AbsInit
    <2> SUFFICES ASSUME Init PROVE Abs!AbsInit
      OBVIOUS
    <2>1. TypeOK /\ Ready /\ Empty \in Store
      BY InitType DEF Init, Ready, Empty, Store, Stored
    <2>2. VersionsFact /\ CurrentFact
      BY <2>1, VersionsHold, CurrentIsMap
    <2>3. /\ Versions \in Seq(Store) /\ Len(Versions) = 1 /\ Draft = <<>>
          /\ Abs!Current = Empty
      BY <2>1, <2>2 DEF VersionsFact, CurrentFact, Init
    <2>4. Versions \o Draft = Versions /\ Versions[1] = Empty
      <3>1. Versions \o Draft = Versions
        BY <2>3
      <3> QED
        BY <2>3, <3>1 DEF Abs!Current, Abs!All
    <2>5. Versions = <<Empty>>
      BY <2>1, <2>3, <2>4
    <2> QED
      BY <2>3, <2>5 DEF Init, Abs!AbsInit, Abs!Empty, Empty, Abs!Ok, Ok
  <1>2. ASSUME TypeOK, TypeOK', [Next]_vars
        PROVE  [Abs!AbsNext]_Abs!absVars
    <2>1. ASSUME NEW k \in Keys, NEW v \in Stored, Put(k, v)
          PROVE  Abs!AbsNext
      BY <1>2, <2>1, PutStep DEF Abs!AbsNext, Abs!Stored, Stored
    <2>2. ASSUME NEW k \in Keys, Get(k)
          PROVE  Abs!AbsNext
      <3>1. Abs!Current = map
        BY <1>2, <2>2, CurrentIsMap DEF CurrentFact, Get
      <3>2. Abs!AbsGet(k)
        BY <2>2, <3>1, QuietStep DEF Get, Abs!AbsGet, Abs!Found, Found
      <3> QED
        BY <3>2 DEF Abs!AbsNext
    <2>3. CASE Begin
      <3>1. buf' = buf
        BY <1>2, <2>3 DEF Begin, TypeOK
      <3>2. Abs!AbsBegin
        BY <2>3, <3>1, QuietStep DEF Begin, Abs!AbsBegin, Abs!Ok, Ok
      <3> QED
        BY <3>2 DEF Abs!AbsNext
    <2>4. CASE Commit
      BY <1>2, <2>4, CommitStep DEF Abs!AbsNext
    <2>5. CASE Rollback
      BY <1>2, <2>5, RollbackStep DEF Abs!AbsNext
    <2>6. CASE Refuse
      BY <2>6, QuietStep DEF Refuse, Abs!AbsRefuse, Abs!AbsNext, Abs!Err, Err
    <2>7. CASE Restart
      BY <1>2, <2>7, RestartStep DEF Abs!AbsNext
    <2>8. ASSUME NEW n \in UndoCounts, Undo(n)
          PROVE  Abs!AbsNext
      BY <1>2, <2>8, UndoStep DEF Abs!AbsNext
    <2>9. CASE PutBack
      BY <1>2, <2>9, PutBackStep
    <2>10. CASE UNCHANGED vars
      BY <2>10, QuietStep DEF vars, Abs!absVars
    <2> QED
      BY <1>2, <2>1, <2>2, <2>3, <2>4, <2>5, <2>6, <2>7, <2>8, <2>9, <2>10 DEF Next
  <1> QED
    BY <1>1, <1>2, ServerTypeCorrect, PTL DEF Spec, ImplementsVersions, Abs!AbsSpec
=============================================================================
