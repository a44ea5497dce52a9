---------------------------- MODULE StorageProofs ---------------------------
(***************************************************************************)
(* Proofs about three parts that keep data for a program: the readers over *)
(* io_uring, for every ring whose size divides the range of its counters   *)
(* and any assets; the programs over the arena, for any objects; and the   *)
(* crash-consistent process, for every stream, every checkpoint interval,  *)
(* any number of crashes, and any digest and chain function, colliding     *)
(* ones included.                                                          *)
(*                                                                         *)
(* Of a ring, what counts is what lies between its two counters: putting   *)
(* an entry behind the last one leaves the others, wherever the counters   *)
(* wrap around. Of the loader, every asset of the frame is in one place:   *)
(* offered, taken by the kernel, completed or handed to the caller; so     *)
(* when the caller has as many completions as it enqueued reads, the       *)
(* kernel has nothing left to read through the iovecs.                     *)
(*                                                                         *)
(* The inductive invariant of the process says where each of the runs      *)
(* (live, replayed from genesis, resumed) stands in the reference run: at  *)
(* the unit its counter names, with the generator at the same place.       *)
(* CrashConsistent alone is not inductive: that the comparisons succeed at *)
(* the end follows from where the runs were all along.                     *)
(***************************************************************************)
EXTENDS MCUring, ArenaClient, PhaseGuard, FiniteSetTheorems, SequenceTheorems, TLAPS

-----------------------------------------------------------------------------
(* What is always so of the two programs.                                    *)

Ops     == [tag : Nat, iov : Nat]
Results == [tag : Nat, res : Nat]
Buffers == [tag : Nat, off : Nat, base : Nat]

(* A record of the shape of an arena, its words from a set.                   *)
IsArena(a, Contents) ==
  /\ a = [buf |-> a.buf, marks |-> a.marks, cap |-> a.cap, moves |-> a.moves]
  /\ a.buf \in Seq(Contents) /\ a.cap \in Nat /\ a.moves \in Nat

Here         == Minus(cqTail, cqHead)
OfferedOp(p) == sqes[Plus(sqHead, p) % size]
Posted(p)    == cqes[Plus(cqHead, p) % CqSize]

RingTyped ==
  /\ program \in {"assets", "nops"}
  /\ size = (IF program = "assets" THEN Entries ELSE RingEntries)
  /\ sqTail \in 0 .. Counters - 1 /\ sqHead \in 0 .. Counters - 1
  /\ cqTail \in 0 .. Counters - 1 /\ cqHead \in 0 .. Counters - 1
  /\ sqes \in [0 .. size - 1 -> Ops]
  /\ cqes \in [0 .. CqSize - 1 -> Results]
  /\ inflight \subseteq [at : Nat, op : Ops] /\ IsFiniteSet(inflight)
  /\ kept \in Nat /\ faults \in 0 .. MaxFaults

(* The event loop: its operations have no iovec.                             *)
NopsInv ==
  program = "nops" =>
    /\ LoaderStart
    /\ take \in 0 .. Batch /\ submitted \in Nat
    /\ \A p \in 0 .. size - 1 : sqes[p].iov = 0
    /\ \A o \in inflight : o.op.iov = 0

(* What submissions the kernel has left behind, and the batch on its way.    *)
Behind == IF faults = 0 THEN 0 ELSE Batch
NopsFit ==
  program = "nops" /\ faults < 2 =>
    Offered <= Behind + (IF nopAt \in {"enter", "panic"} THEN take ELSE 0)

(* The loader. Assets are loaded in order; those of the frame are the last.   *)
Loaded == Cardinality(loaded)
Fresh  == Loaded - batch + 1 .. Loaded

Settled(a) == landed[a].tag = a /\ landed[a].base = 0
Sound(c)   == c.tag \in Assets /\ (c.res # 0 => Settled(c.tag))

LoaderTyped ==
  /\ at \in {"frame", "load", "wait", "check", "tick", "done", "panic-wait", "panic-short"}
  /\ frame \in 0 .. Frames /\ (at \in {"load", "wait", "check", "tick"} => frame < Frames)
  /\ Loaded \in 0 .. Cardinality(Assets) /\ loaded = 1 .. Loaded
  /\ batch \in 0 .. PerFrame /\ pending \in 0 .. Entries /\ nIovs \in 0 .. Entries
  /\ iovs \in [1 .. Entries -> Buffers] /\ landed \in [Assets -> Buffers]
  /\ out \in Seq(Results)
  /\ kept = 0

(* words[a]: what the arena of assets holds once the first a of them are in;  *)
(* it has room for all of them.                                              *)
WordsOf(words) ==
  /\ words \in [0 .. Cardinality(Assets) -> 0 .. AssetWords] /\ words[0] = 0
  /\ \A a \in Assets : words[a] = words[a - 1] + DivCeil(AssetSize[a], WordBytes)

Area(words) ==
  /\ IsArena(assets, Int) /\ assets.moves = 0 /\ assets.cap = AssetWords
  /\ Len(assets.buf) = words[Loaded]

Temps ==
  /\ IsArena(temps, Int)
  /\ at \in {"frame", "done"} => temps.buf = <<>> /\ temps.marks = <<>>
  /\ at \in {"load", "wait", "check", "tick"} => temps.buf = <<>> /\ temps.marks = <<0>>

Quiet ==
  /\ at \in {"frame", "tick", "check", "done", "panic-short", "load"} =>
       inflight = {} /\ cqTail = cqHead
  /\ at \in {"frame", "tick", "check", "done", "panic-short"} =>
       sqTail = sqHead /\ pending = 0 /\ nIovs = 0

Filling ==
  at = "load" =>
    /\ batch <= Loaded /\ pending = batch /\ nIovs = batch /\ Offered = batch
    /\ \A p \in 0 .. batch - 1 :
         OfferedOp(p) = [tag |-> Loaded - batch + 1 + p, iov |-> p + 1]

IovecsMade ==
  at \in {"load", "wait", "panic-wait"} =>
    \A p \in 1 .. batch : iovs[p].tag = Loaded - batch + p /\ iovs[p].base = 0

(* Where a read of this frame can be, once the kernel took all of them.       *)
Placed(a) ==
  \/ \E o \in inflight : o.op.tag = a
  \/ \E p \in 0 .. Here - 1 : Posted(p).tag = a
  \/ \E p \in DOMAIN out : out[p].tag = a

Waiting ==
  at \in {"wait", "panic-wait"} =>
    /\ batch <= Loaded /\ pending = 0
    /\ batch = Offered + Cardinality(inflight) + Here + Len(out)
    /\ \A o \in inflight : o.op.tag \in Fresh /\ o.op.iov = o.op.tag - (Loaded - batch)
    /\ Offered = 0 => \A a \in Fresh : Placed(a)
    /\ \A p \in 0 .. Here - 1 : Sound(Posted(p))

Handed ==
  /\ at \in {"wait", "panic-wait", "check"} => \A p \in DOMAIN out : Sound(out[p])
  /\ at = "check" => \A a \in Fresh : \E p \in DOMAIN out : out[p].tag = a

Before == IF at \in {"load", "wait", "panic-wait", "check", "panic-short"}
          THEN Loaded - batch ELSE Loaded
Earlier == \A a \in 1 .. Before : Settled(a)

LoaderInv(words) ==
  /\ LoaderTyped /\ Area(words) /\ Temps /\ Quiet /\ Filling
  /\ IovecsMade /\ Waiting /\ Handed /\ Earlier

UringInv(words) == RingTyped /\ NopsInv /\ (program = "assets" => LoaderInv(words))

-----------------------------------------------------------------------------
(* Counters that wrap around, and the slots they stand for.                   *)

LEMMA CountersPositive == Counters \in Nat \ {0}
  <1>1. PICK m \in 1 .. Counters : Counters = m * (2 * RingEntries)
    BY RingAssumption
  <1> QED
    BY <1>1, RingAssumption

LEMMA PlusIs ==
  ASSUME NEW x \in 0 .. Counters - 1, NEW p \in 0 .. Counters
  PROVE  /\ Plus(x, p) \in 0 .. Counters - 1
         /\ Plus(x, p) = (IF x + p < Counters THEN x + p ELSE x + p - Counters)
  <1>1. \A C \in Nat \ {0} : \A y \in 0 .. C - 1, j \in 0 .. C :
          (y + j) % C = IF y + j < C THEN y + j ELSE y + j - C
    BY SMT
  <1>2. Plus(x, p) = (IF x + p < Counters THEN x + p ELSE x + p - Counters)
    BY <1>1, CountersPositive DEF Plus
  <1> QED
    BY <1>2, CountersPositive

LEMMA MinusIs ==
  ASSUME NEW x \in 0 .. Counters - 1, NEW y \in 0 .. Counters - 1
  PROVE  /\ Minus(x, y) \in 0 .. Counters - 1
         /\ Minus(x, y) = (IF x >= y THEN x - y ELSE x - y + Counters)
  <1>1. \A C \in Nat \ {0} : \A u, v \in 0 .. C - 1 :
          (u - v) % C = IF u >= v THEN u - v ELSE u - v + C
    BY SMT
  <1>2. Minus(x, y) = (IF x >= y THEN x - y ELSE x - y + Counters)
    BY <1>1, CountersPositive DEF Minus
  <1> QED
    BY <1>2, CountersPositive

(* Entries of a ring that lie fewer than its size apart have different slots. *)
LEMMA SlotsApart ==
  ASSUME NEW n \in Nat \ {0}, NEW m \in Nat, Counters = m * n,
         NEW x \in 0 .. Counters - 1, NEW p \in 0 .. n - 1, NEW j \in 0 .. n - 1, p # j
  PROVE  Plus(x, p) % n # Plus(x, j) % n
  <1>1. n <= Counters
    <2>1. m \in Nat \ {0}
      BY CountersPositive
    <2> QED
      BY <2>1
  <1>2. PICK e \in {0, 1} : Plus(x, p) = x + p - e * Counters
    <2>1. p \in 0 .. Counters
      BY <1>1, CountersPositive
    <2>2. Plus(x, p) = (IF x + p < Counters THEN x + p ELSE x + p - Counters)
      BY <2>1, PlusIs
    <2>3. Plus(x, p) = x + p - 0 * Counters \/ Plus(x, p) = x + p - 1 * Counters
      BY <2>2, CountersPositive
    <2> QED
      BY <2>3
  <1>3. PICK f \in {0, 1} : Plus(x, j) = x + j - f * Counters
    <2>1. j \in 0 .. Counters
      BY <1>1, CountersPositive
    <2>2. Plus(x, j) = (IF x + j < Counters THEN x + j ELSE x + j - Counters)
      BY <2>1, PlusIs
    <2>3. Plus(x, j) = x + j - 0 * Counters \/ Plus(x, j) = x + j - 1 * Counters
      BY <2>2, CountersPositive
    <2> QED
      BY <2>3
  <1>4. PICK a, b, q, r, s, u : /\ a = Plus(x, p) /\ b = Plus(x, j)
                                /\ q = a \div n /\ r = a % n /\ s = b \div n /\ u = b % n
    OBVIOUS
  <1>5. a \in Int /\ b \in Int
    BY <1>1, <1>4, PlusIs, CountersPositive, SMTT(30)
  <1>6. /\ q \in Int /\ s \in Int /\ r \in 0 .. n - 1 /\ u \in 0 .. n - 1
        /\ a = q * n + r /\ b = s * n + u
    <2>1. \A y \in Int : /\ y % n \in 0 .. n - 1 /\ y \div n \in Int
                         /\ y = (y \div n) * n + (y % n)
      BY SMT
    <2> QED
      BY <1>4, <1>5, <2>1
  <1>7. ASSUME r = u PROVE FALSE
    <2>1. PICK d \in Int : d = (q - s) + (e - f) * m
      BY <1>6
    <2>2. a - b = (q - s) * n
      BY <1>6, <1>7
    <2>3. p - j = a - b + (e - f) * (m * n)
      BY <1>2, <1>3, <1>4
    <2>4. p - j = d * n
      BY <1>6, <2>1, <2>2, <2>3
    <2>5. d * n > -n /\ d * n < n
      BY <2>4
    <2>6. d = 0
      BY <2>1, <2>5
    <2> QED
      BY <2>4, <2>6
  <1> QED
    BY <1>4, <1>7

LEMMA SlotIn ==
  ASSUME NEW n \in Nat \ {0}, NEW x \in Int PROVE x % n \in 0 .. n - 1
  BY SMT

(* An entry more behind the last one, and entries fewer from the first.       *)
LEMMA QueueGrows ==
  ASSUME NEW h \in 0 .. Counters - 1, NEW t \in 0 .. Counters - 1,
         NEW k \in Nat, Minus(t, h) + k < Counters
  PROVE  /\ Plus(t, k) \in 0 .. Counters - 1
         /\ Minus(Plus(t, k), h) = Minus(t, h) + k
         /\ t = Plus(h, Minus(t, h))
  <1>1. PICK c \in Nat \ {0} : c = Counters
    BY CountersPositive
  <1>2. PICK d \in 0 .. c - 1 : d = Minus(t, h)
    BY <1>1, MinusIs
  <1>3. d = (IF t >= h THEN t - h ELSE t - h + c)
    BY <1>1, <1>2, MinusIs
  <1>4. k \in 0 .. c /\ d \in 0 .. c /\ d + k < c
    BY <1>1, <1>2
  <1>5. PICK u \in 0 .. c - 1 : u = Plus(t, k) /\ u = (IF t + k < c THEN t + k ELSE t + k - c)
    BY <1>1, <1>4, PlusIs
  <1>6. Minus(u, h) = (IF u >= h THEN u - h ELSE u - h + c)
    BY <1>1, MinusIs
  <1>7. Minus(u, h) = d + k
    BY <1>1, <1>3, <1>4, <1>5, <1>6
  <1>8. Plus(h, d) = (IF h + d < c THEN h + d ELSE h + d - c)
    BY <1>1, <1>4, PlusIs
  <1>9. Plus(h, d) = t
    BY <1>1, <1>3, <1>8
  <1> QED
    BY <1>1, <1>2, <1>5, <1>7, <1>9

LEMMA QueueShrinks ==
  ASSUME NEW h \in 0 .. Counters - 1, NEW t \in 0 .. Counters - 1,
         NEW k \in Nat, k <= Minus(t, h)
  PROVE  /\ Plus(h, k) \in 0 .. Counters - 1
         /\ Minus(t, Plus(h, k)) = Minus(t, h) - k
         /\ \A p \in Nat : k + p < Counters => Plus(Plus(h, k), p) = Plus(h, k + p)
  <1>1. PICK c \in Nat \ {0} : c = Counters
    BY CountersPositive
  <1>2. PICK d \in 0 .. c - 1 : d = Minus(t, h) /\ d = (IF t >= h THEN t - h ELSE t - h + c)
    BY <1>1, MinusIs
  <1>3. k \in 0 .. c /\ k <= d
    BY <1>1, <1>2
  <1>4. PICK u \in 0 .. c - 1 : u = Plus(h, k) /\ u = (IF h + k < c THEN h + k ELSE h + k - c)
    BY <1>1, <1>3, PlusIs
  <1>5. Minus(t, u) = (IF t >= u THEN t - u ELSE t - u + c)
    BY <1>1, MinusIs
  <1>6. Minus(t, u) = d - k
    BY <1>1, <1>2, <1>3, <1>4, <1>5
  <1>7. ASSUME NEW p \in Nat, k + p < c
        PROVE  Plus(u, p) = Plus(h, k + p)
    <2>1. p \in 0 .. c /\ k + p \in 0 .. c
      BY <1>3, <1>7
    <2>2. /\ Plus(u, p) = (IF u + p < c THEN u + p ELSE u + p - c)
          /\ Plus(h, k + p) = (IF h + (k + p) < c THEN h + (k + p) ELSE h + (k + p) - c)
      BY <1>1, <2>1, PlusIs
    <2> QED
      BY <1>1, <1>3, <1>4, <1>7, <2>1, <2>2
  <1> QED
    BY <1>1, <1>2, <1>4, <1>6, <1>7

LEMMA RingSizes ==
  ASSUME RingTyped
  PROVE  /\ size \in Nat \ {0} /\ CqSize = 2 * size /\ CqSize \in Nat \ {0} /\ CqSize <= Counters
         /\ \E m \in Nat : Counters = m * size
         /\ \E m \in Nat : Counters = m * CqSize
         /\ program = "nops" => size = 2 * Batch
         /\ program = "assets" => size = Entries
  <1>1. PICK n \in Nat \ {0} : n = size
    BY RingAssumption, LoaderAssumption DEF RingTyped, RingEntries
  <1>2. PICK m \in 1 .. Counters : Counters = m * (2 * n)
    BY <1>1, RingAssumption, LoaderAssumption DEF RingTyped
  <1>3. m \in Nat \ {0} /\ 2 * m \in Nat /\ m * (2 * n) = (2 * m) * n
    BY <1>1, CountersPositive
  <1>4. 2 * n <= m * (2 * n)
    BY <1>1, <1>3
  <1>5. CqSize = 2 * n /\ CqSize \in Nat \ {0} /\ CqSize <= Counters
    BY <1>1, <1>2, <1>4 DEF CqSize
  <1>6. (program = "nops" => n = 2 * Batch) /\ (program = "assets" => n = Entries)
    BY <1>1 DEF RingTyped, RingEntries
  <1> QED
    BY <1>1, <1>2, <1>3, <1>5, <1>6

-----------------------------------------------------------------------------
(* What io_uring_enter and a completion do to a ring, whatever runs over it.  *)

LEMMA OfferedOpIs ==
  ASSUME RingTyped, NEW p \in 0 .. Counters
  PROVE  /\ Plus(sqHead, p) \in 0 .. Counters - 1
         /\ OfferedOp(p) \in Ops
         /\ \E s \in 0 .. size - 1 : OfferedOp(p) = sqes[s]
  <1>1. Plus(sqHead, p) \in 0 .. Counters - 1 /\ Counters \in Nat
    BY PlusIs, CountersPositive DEF RingTyped
  <1>2. Plus(sqHead, p) % size \in 0 .. size - 1
    <2>1. size \in Nat \ {0}
      BY RingSizes
    <2>2. Plus(sqHead, p) \in Int
      BY <1>1
    <2> QED
      BY <2>1, <2>2, SlotIn
  <1> QED
    BY <1>1, <1>2 DEF RingTyped, OfferedOp

LEMMA TakenIs ==
  ASSUME RingTyped, NEW k \in Nat, k < Counters
  PROVE  /\ Taken(k) \subseteq [at : Nat, op : Ops]
         /\ IsFiniteSet(Taken(k)) /\ Cardinality(Taken(k)) = k
         /\ \A o \in Taken(k) : \E p \in 0 .. k - 1 : o.op = OfferedOp(p)
         /\ \A p \in 0 .. k - 1 : \E o \in Taken(k) : o.op = OfferedOp(p)
  <1>1. PICK g : g = [p \in 0 .. k - 1 |-> [at |-> Plus(sqHead, p), op |-> OfferedOp(p)]]
    OBVIOUS
  <1>2. Taken(k) = {[at |-> Plus(sqHead, p), op |-> OfferedOp(p)] : p \in 0 .. k - 1}
    BY DEF Taken, OfferedOp
  <1>3. PICK c, h : c \in Nat \ {0} /\ c = Counters /\ h = sqHead /\ h \in 0 .. c - 1
    BY CountersPositive DEF RingTyped
  <1>4. \A p \in 0 .. k - 1 : p \in 0 .. Counters
    BY <1>3
  <1>5. \A p \in 0 .. k - 1 : Plus(sqHead, p) \in Nat /\ OfferedOp(p) \in Ops
    BY <1>3, <1>4, OfferedOpIs
  <1>6. ASSUME NEW p \in 0 .. k - 1, NEW j \in 0 .. k - 1, Plus(sqHead, p) = Plus(sqHead, j)
        PROVE  p = j
    <2>1. /\ Plus(h, p) = (IF h + p < c THEN h + p ELSE h + p - c)
          /\ Plus(h, j) = (IF h + j < c THEN h + j ELSE h + j - c)
      BY <1>3, <1>4, PlusIs
    <2> QED
      BY <1>3, <1>6, <2>1
  <1>7. g \in Surjection(0 .. k - 1, Taken(k))
    <2>1. g \in [0 .. k - 1 -> Taken(k)]
      BY <1>1, <1>2
    <2>2. \A o \in Taken(k) : \E p \in 0 .. k - 1 : g[p] = o
      BY <1>1, <1>2
    <2> QED
      BY <2>1, <2>2 DEF Surjection
  <1>8. g \in Injection(0 .. k - 1, Taken(k))
    <2>1. \A p, j \in 0 .. k - 1 : g[p] = g[j] => p = j
      BY <1>1, <1>6
    <2> QED
      BY <1>7, <2>1 DEF Surjection, Injection, IsInjective
  <1>9. IsFiniteSet(0 .. k - 1) /\ Cardinality(0 .. k - 1) = k
    BY FS_Interval
  <1>10. IsFiniteSet(Taken(k)) /\ Cardinality(Taken(k)) = k
    BY <1>7, <1>8, <1>9, FS_Surjection
  <1>11. Taken(k) \subseteq [at : Nat, op : Ops]
    BY <1>2, <1>5
  <1>12. /\ \A o \in Taken(k) : \E p \in 0 .. k - 1 : o.op = OfferedOp(p)
         /\ \A p \in 0 .. k - 1 : \E o \in Taken(k) : o.op = OfferedOp(p)
    <2>1. \A p \in 0 .. k - 1 : g[p] \in Taken(k) /\ g[p].op = OfferedOp(p)
      BY <1>1, <1>2
    <2>2. \A o \in Taken(k) : \E p \in 0 .. k - 1 : o = g[p]
      BY <1>1, <1>2
    <2> QED
      BY <2>1, <2>2
  <1> QED
    BY <1>10, <1>11, <1>12

(* The kernel takes the first k of what is offered, and no more than n of it. *)
LEMMA EnterTakes ==
  ASSUME RingTyped, NEW n \in Nat, NEW r \in Int, Enter(n, r),
         UNCHANGED <<program, sqTail>>
  PROVE  /\ RingTyped' /\ UNCHANGED <<size, sqTail, sqes, cqTail, cqHead, cqes, kept>>
         /\ \E k \in 0 .. Offered :
              /\ k <= n /\ (r < 0 => k = 0 /\ kept > 0) /\ (r >= 0 => k = r)
              /\ inflight' = inflight \union Taken(k)
              /\ Offered' = Offered - k
              /\ \A p \in Nat : k + p < Counters => OfferedOp(p)' = OfferedOp(k + p)
              /\ \/ faults' = faults /\ (r >= 0 => k = IF n < Offered THEN n ELSE Offered)
                 \/ faults' = faults + 1 /\ faults < MaxFaults
  <1>1. PICK c, d : c \in Nat \ {0} /\ c = Counters /\ d = Offered /\ d \in 0 .. c - 1
    BY MinusIs, CountersPositive DEF RingTyped, Offered
  <1>2. PICK most \in 0 .. d : most = (IF n < d THEN n ELSE d)
    BY <1>1
  <1>3. PICK k : k = (IF r < 0 THEN 0 ELSE r)
    OBVIOUS
  <1>4. /\ \/ r = most
           \/ r \in 0 .. most - 1 /\ faults < MaxFaults
           \/ r = -1 /\ kept > 0
        /\ inflight' = inflight \union Taken(k)
        /\ sqHead' = Plus(sqHead, k)
        /\ faults' = (IF r \in 0 .. most - 1 THEN faults + 1 ELSE faults)
        /\ UNCHANGED <<size, sqes, cqTail, cqHead, cqes, kept>>
    BY <1>1, <1>2, <1>3 DEF Enter
  <1>a. \/ r = most /\ r \in 0 .. d /\ k = r /\ faults' = faults
        \/ r \in 0 .. most - 1 /\ faults < MaxFaults /\ k = r /\ faults' = faults + 1
        \/ r = -1 /\ kept > 0 /\ k = 0 /\ faults' = faults
    BY <1>2, <1>3, <1>4
  <1>5. k \in 0 .. d /\ k <= n /\ (r < 0 => k = 0 /\ kept > 0) /\ (r >= 0 => k = r)
    BY <1>1, <1>2, <1>a
  <1>6. /\ sqHead' \in 0 .. c - 1 /\ Minus(sqTail, sqHead') = d - k
        /\ \A p \in Nat : k + p < c => Plus(sqHead', p) = Plus(sqHead, k + p)
    <2>1. k \in Nat /\ k <= Minus(sqTail, sqHead)
      BY <1>1, <1>5 DEF Offered
    <2> QED
      BY <1>1, <1>4, <2>1, QueueShrinks DEF Offered, RingTyped
  <1>7. \/ faults' = faults /\ (r >= 0 => k = most)
        \/ faults' = faults + 1 /\ faults < MaxFaults
    BY <1>1, <1>2, <1>a
  <1>8. Taken(k) \subseteq [at : Nat, op : Ops] /\ IsFiniteSet(Taken(k))
    BY <1>1, <1>5, TakenIs
  <1>9. RingTyped'
    <2>1. inflight' \subseteq [at : Nat, op : Ops] /\ IsFiniteSet(inflight')
      BY <1>4, <1>8, FS_Union DEF RingTyped
    <2>2. faults' \in 0 .. MaxFaults
      BY <1>7, RingAssumption, SMTT(30) DEF RingTyped
    <2> QED
      BY <1>1, <1>4, <1>6, <2>1, <2>2 DEF RingTyped, CqSize
  <1>10. Offered' = d - k
    BY <1>6 DEF Offered
  <1>11. \A p \in Nat : k + p < c => OfferedOp(p)' = OfferedOp(k + p)
    BY <1>4, <1>6 DEF OfferedOp
  <1> QED
    BY <1>1, <1>2, <1>4, <1>5, <1>7, <1>9, <1>10, <1>11

(* A completion goes behind those posted, or is kept back.                    *)
LEMMA CompletionPosted ==
  ASSUME RingTyped, NEW o, NEW res \in Nat, Complete(o, res), UNCHANGED program
  PROVE  /\ RingTyped' /\ UNCHANGED <<size, sqTail, sqHead, sqes, cqHead, faults>>
         /\ o \in inflight /\ inflight' = inflight \ {o}
         /\ Cardinality(inflight') = Cardinality(inflight) - 1
         /\ \A d \in Nat : d = Here /\ d + 1 < CqSize =>
              /\ Here' = d + 1 /\ kept' = kept
              /\ Posted(d)' = [tag |-> o.op.tag, res |-> res]
              /\ \A p \in 0 .. d - 1 : Posted(p)' = Posted(p)
  <1>1. PICK c, d : c \in Nat \ {0} /\ c = Counters /\ d = Here /\ d \in 0 .. c - 1
    BY MinusIs, CountersPositive DEF RingTyped, Here
  <1>2. PICK q \in Nat \ {0}, m \in Nat : q = CqSize /\ q <= c /\ c = m * q
    BY <1>1, RingSizes
  <1>3. /\ o \in inflight /\ inflight' = inflight \ {o}
        /\ UNCHANGED <<size, sqTail, sqHead, sqes, cqHead, faults>>
    BY DEF Complete
  <1>4. /\ IsFiniteSet(inflight') /\ inflight' \subseteq inflight
        /\ Cardinality(inflight') = Cardinality(inflight) - 1
    BY <1>3, FS_RemoveElement DEF RingTyped
  <1>5. PICK e : e = [tag |-> o.op.tag, res |-> res]
    OBVIOUS
  <1>6. e \in Results
    BY <1>3, <1>5 DEF RingTyped, Results, Ops
  <1>7. cqTail % q \in 0 .. q - 1
    BY SlotIn DEF RingTyped
  <1>8. CASE d < q
    <2>1. cqes' = [cqes EXCEPT ![cqTail % q] = e] /\ cqTail' = Plus(cqTail, 1) /\ kept' = kept
      BY <1>1, <1>2, <1>5, <1>8 DEF Complete, Here
    <2>2. cqTail' \in 0 .. c - 1
      <3>1. 1 \in 0 .. Counters
        BY <1>1
      <3> QED
        BY <1>1, <2>1, <3>1, PlusIs DEF RingTyped
    <2>3. cqes' \in [0 .. q - 1 -> Results]
      BY <1>2, <1>6, <2>1 DEF RingTyped
    <2>4. RingTyped'
      BY <1>1, <1>2, <1>3, <1>4, <2>1, <2>2, <2>3 DEF RingTyped, CqSize
    <2>5. ASSUME d + 1 < q
          PROVE  /\ Here' = d + 1
                 /\ Posted(d)' = e
                 /\ \A p \in 0 .. d - 1 : Posted(p)' = Posted(p)
      <3>1. Minus(Plus(cqTail, 1), cqHead) = d + 1 /\ cqTail = Plus(cqHead, d)
        <4>1. d = Minus(cqTail, cqHead) /\ Minus(cqTail, cqHead) + 1 < Counters
          BY <1>1, <1>2, <2>5 DEF Here
        <4>2. cqTail \in 0 .. Counters - 1 /\ cqHead \in 0 .. Counters - 1
          BY DEF RingTyped
        <4> QED
          BY <4>1, <4>2, QueueGrows
      <3>2. Here' = d + 1
        BY <1>3, <2>1, <3>1 DEF Here
      <3>3. Plus(cqHead, d) % q \in 0 .. q - 1
        BY <1>7, <3>1
      <3>4. ASSUME NEW p \in 0 .. d - 1 PROVE Plus(cqHead, p) % q # Plus(cqHead, d) % q
        <4>1. p \in 0 .. q - 1 /\ d \in 0 .. q - 1 /\ p # d
          BY <1>1, <1>8
        <4> QED
          BY <1>1, <1>2, <4>1, SlotsApart DEF RingTyped
      <3>5. cqes' = [cqes EXCEPT ![Plus(cqHead, d) % q] = e]
        BY <2>1, <3>1
      <3>6. cqes \in [0 .. q - 1 -> Results]
        BY <1>2 DEF RingTyped
      <3>7. cqes'[Plus(cqHead, d) % q] = e
        BY <3>3, <3>5, <3>6
      <3>8. ASSUME NEW p \in 0 .. d - 1
            PROVE  cqes'[Plus(cqHead, p) % q] = cqes[Plus(cqHead, p) % q]
        <4>1. p \in 0 .. Counters
          BY <1>1
        <4>2. Plus(cqHead, p) % q \in 0 .. q - 1
          <5>1. Plus(cqHead, p) \in Int
            BY <4>1, PlusIs, CountersPositive DEF RingTyped
          <5> QED
            BY <1>2, <5>1, SlotIn
        <4> QED
          BY <3>4, <3>5, <3>6, <4>2
      <3>9. CqSize' = q
        BY <1>2, <1>3 DEF CqSize
      <3> QED
        BY <1>2, <1>3, <3>2, <3>7, <3>8, <3>9 DEF Posted
    <2> QED
      BY <1>1, <1>2, <1>3, <1>4, <1>5, <2>1, <2>4, <2>5
  <1>9. CASE ~(d < q)
    <2>1. kept' = kept + 1 /\ UNCHANGED <<cqes, cqTail>>
      BY <1>1, <1>2, <1>9 DEF Complete, Here
    <2>2. RingTyped'
      BY <1>3, <1>4, <2>1 DEF RingTyped, CqSize
    <2>3. ~(Here + 1 < CqSize)
      BY <1>1, <1>2, <1>9
    <2> QED
      BY <1>3, <1>4, <2>2, <2>3
  <1> QED
    BY <1>8, <1>9


(* An operation is put behind those offered, as long as there is room.        *)
LEMMA OperationOffered ==
  ASSUME RingTyped, NEW d \in Nat, d = Offered, d < size, d + 1 < Counters,
         NEW e \in Ops, sqes' = [sqes EXCEPT ![sqTail % size] = e], sqTail' = Plus(sqTail, 1),
         UNCHANGED <<program, size, sqHead, inflight, cqTail, cqHead, cqes, kept, faults>>
  PROVE  /\ RingTyped' /\ Offered' = d + 1
         /\ OfferedOp(d)' = e /\ \A p \in 0 .. d - 1 : OfferedOp(p)' = OfferedOp(p)
  <1>1. PICK c, n : c \in Nat \ {0} /\ c = Counters /\ n \in Nat \ {0} /\ n = size
    BY CountersPositive, RingSizes
  <1>2. PICK m \in Nat : c = m * n
    BY <1>1, RingSizes
  <1>3. Minus(Plus(sqTail, 1), sqHead) = d + 1 /\ sqTail = Plus(sqHead, d)
        /\ Plus(sqTail, 1) \in 0 .. Counters - 1
    <2>1. d = Minus(sqTail, sqHead) /\ Minus(sqTail, sqHead) + 1 < Counters
      BY DEF Offered
    <2>2. sqTail \in 0 .. Counters - 1 /\ sqHead \in 0 .. Counters - 1
      BY DEF RingTyped
    <2> QED
      BY <2>1, <2>2, QueueGrows
  <1>4. sqes \in [0 .. n - 1 -> Ops]
    BY <1>1 DEF RingTyped
  <1>5. sqes' \in [0 .. n - 1 -> Ops]
    BY <1>4
  <1>6. RingTyped'
    BY <1>1, <1>3, <1>5 DEF RingTyped, CqSize
  <1>7. Plus(sqHead, d) % n \in 0 .. n - 1
    <2>1. sqTail \in Int
      BY <1>1 DEF RingTyped
    <2> QED
      BY <1>1, <1>3, <2>1, SlotIn
  <1>8. sqes' = [sqes EXCEPT ![Plus(sqHead, d) % n] = e]
    BY <1>1, <1>3
  <1>9. sqes'[Plus(sqHead, d) % n] = e
    BY <1>4, <1>7, <1>8
  <1>10. ASSUME NEW p \in 0 .. d - 1
         PROVE  sqes'[Plus(sqHead, p) % n] = sqes[Plus(sqHead, p) % n]
    <2>1. p \in 0 .. n - 1 /\ d \in 0 .. n - 1 /\ p # d
      BY <1>1
    <2>2. Plus(sqHead, p) % n # Plus(sqHead, d) % n
      BY <1>1, <1>2, <2>1, SlotsApart, ZenonT(30) DEF RingTyped
    <2>3. p \in 0 .. Counters
      BY <1>1
    <2>4. Plus(sqHead, p) \in Int
      BY <2>3, PlusIs, CountersPositive DEF RingTyped
    <2>5. Plus(sqHead, p) % n \in 0 .. n - 1
      BY <1>1, <2>4, SlotIn
    <2> QED
      BY <1>4, <1>8, <2>2, <2>5
  <1>11. Offered' = d + 1
    BY <1>3 DEF Offered
  <1> QED
    BY <1>1, <1>6, <1>9, <1>10, <1>11 DEF OfferedOp

-----------------------------------------------------------------------------
(* The event loop. *)

LEMMA NopsActionKeeps ==
  ASSUME RingTyped, NopsInv, NopsStep, NopsMain \/ GiveUpReap \/ KernelNops
  PROVE  RingTyped' /\ NopsInv'
  <1>1. program = "nops" /\ UNCHANGED <<program, loaderVars>>
    BY DEF NopsStep
  <1>2. /\ LoaderStart /\ take \in 0 .. Batch /\ submitted \in Nat
        /\ \A p \in 0 .. size - 1 : sqes[p].iov = 0
        /\ \A o \in inflight : o.op.iov = 0
    BY <1>1 DEF NopsInv
  <1>3. LoaderStart'
    BY <1>1, <1>2 DEF LoaderStart, loaderVars
  <1>4. CASE WriteNops
    <2>1. take' \in 0 .. Batch /\ submitted' = submitted
      BY <1>2, <1>4, RingAssumption DEF WriteNops
    <2>2. PICK n, k : n \in Nat \ {0} /\ n = size /\ k = take'
      BY RingSizes
    <2>3. PICK slots : slots = {(sqTail + p) % size : p \in 0 .. take' - 1}
      OBVIOUS
    <2>4. sqes' = [p \in DOMAIN sqes |-> IF p \in slots THEN [tag |-> p + 1, iov |-> 0]
                                         ELSE sqes[p]]
      BY <1>4, <2>3 DEF WriteNops
    <2>5. sqes \in [0 .. n - 1 -> Ops]
      BY <2>2 DEF RingTyped
    <2>6. sqes' \in [0 .. n - 1 -> Ops] /\ \A p \in 0 .. n - 1 : sqes'[p].iov = 0
      <3>1. ASSUME NEW p \in 0 .. n - 1 PROVE sqes'[p] \in Ops /\ sqes'[p].iov = 0
        <4>1. CASE p \in slots
          <5>1. sqes'[p] = [tag |-> p + 1, iov |-> 0]
            BY <2>4, <2>5, <4>1
          <5> QED
            BY <2>2, <5>1 DEF Ops
        <4>2. CASE p \notin slots
          BY <1>2, <2>2, <2>4, <2>5, <4>2
        <4> QED
          BY <4>1, <4>2
      <3>2. DOMAIN sqes' = 0 .. n - 1 /\ sqes' = [p \in 0 .. n - 1 |-> sqes'[p]]
        BY <2>4, <2>5
      <3> QED
        BY <3>1, <3>2
    <2>7. sqTail' \in 0 .. Counters - 1
      <3>1. \A x \in Int : x % Counters \in 0 .. Counters - 1
        BY CountersPositive, SlotIn
      <3>2. sqTail + take' \in Int
        BY <2>1, RingAssumption, CountersPositive DEF RingTyped
      <3> QED
        BY <1>4, <3>1, <3>2 DEF WriteNops, Plus
    <2>8. UNCHANGED <<submitted, size, sqHead, inflight, cqTail, cqHead, cqes, kept, faults>>
      BY <1>4 DEF WriteNops
    <2> QED
      BY <1>1, <1>2, <1>3, <2>1, <2>2, <2>6, <2>7, <2>8 DEF RingTyped, NopsInv, CqSize
  <1>5. CASE EnterNops
    <2>1. PICK r \in -1 .. take : Enter(take, r)
      BY <1>5 DEF EnterNops
    <2>2. UNCHANGED <<submitted, take, sqTail>>
      BY <1>5 DEF EnterNops
    <2>3. /\ RingTyped' /\ UNCHANGED <<size, sqes>>
          /\ \E k \in 0 .. Offered : inflight' = inflight \union Taken(k)
      <3>1. take \in Nat /\ r \in Int
        BY <1>2, <2>1, RingAssumption
      <3> QED
        BY <1>1, <2>1, <2>2, <3>1, EnterTakes
    <2>4. PICK k \in 0 .. Offered : inflight' = inflight \union Taken(k)
      BY <2>3
    <2>5. k \in Nat /\ k < Counters
      BY <2>4, MinusIs, CountersPositive DEF RingTyped, Offered
    <2>6. \A o \in Taken(k) : o.op.iov = 0
      <3>1. \A o \in Taken(k) : \E p \in 0 .. k - 1 : o.op = OfferedOp(p)
        BY <2>5, TakenIs
      <3>2. \A p \in 0 .. k - 1 : p \in 0 .. Counters
        BY <2>5, CountersPositive
      <3>3. \A p \in 0 .. k - 1 : OfferedOp(p).iov = 0
        BY <1>2, <3>2, OfferedOpIs
      <3> QED
        BY <3>1, <3>3
    <2> QED
      BY <1>1, <1>2, <1>3, <2>2, <2>3, <2>4, <2>6 DEF NopsInv
  <1>6. CASE Reap
    <2>1. UNCHANGED <<take, ringVars>> /\ submitted' \in Nat
      BY <1>2, <1>6, RingAssumption DEF Reap
    <2> QED
      BY <1>1, <1>2, <1>3, <2>1 DEF RingTyped, NopsInv, ringVars, CqSize
  <1>7. CASE GiveUpReap \/ EndOfEvents
    <2>1. UNCHANGED <<submitted, take, ringVars>>
      BY <1>7 DEF GiveUpReap, EndOfEvents
    <2> QED
      BY <1>1, <1>2, <1>3, <2>1 DEF RingTyped, NopsInv, ringVars, CqSize
  <1>8. CASE KernelNops
    <2>1. PICK o \in inflight : Complete(o, 0) /\ UNCHANGED nopVars
      BY <1>8 DEF KernelNops
    <2>2. RingTyped' /\ UNCHANGED <<size, sqes>> /\ inflight' = inflight \ {o}
      BY <1>1, <2>1, CompletionPosted
    <2> QED
      BY <1>1, <1>2, <1>3, <2>1, <2>2 DEF NopsInv, nopVars
  <1> QED
    BY <1>4, <1>5, <1>6, <1>7, <1>8 DEF NopsMain


(* A batch can be left behind once, and the ring has room for one more.       *)
LEMMA NopsFitKept ==
  ASSUME RingTyped, NopsInv, NopsFit, NopsStep, NopsMain \/ GiveUpReap \/ KernelNops
  PROVE  NopsFit'
  <1> SUFFICES ASSUME faults' < 2 PROVE NopsFit'
    BY DEF NopsFit
  <1>0. faults \in {0, 1} /\ (faults' = faults \/ faults' = faults + 1)
    <2>1. faults' = faults \/ faults' = faults + 1
      BY DEF NopsMain, WriteNops, EnterNops, Enter, Reap, EndOfEvents, GiveUpReap, KernelNops,
             Complete, ringVars
    <2>2. faults \in Nat
      BY RingAssumption DEF RingTyped
    <2> QED
      BY <2>1, <2>2
  <1>1. PICK b, t, d, f : /\ b \in Nat \ {0} /\ b = Batch /\ t \in 0 .. b /\ t = take
                          /\ d \in Nat /\ d = Offered /\ f \in {0, 1} /\ f = faults
    <2>1. Offered \in Nat
      <3>1. Offered \in 0 .. Counters - 1
        BY MinusIs DEF RingTyped, Offered
      <3> QED
        BY <3>1, CountersPositive
    <2>2. take \in 0 .. Batch /\ faults \in {0, 1}
      BY <1>0, RingAssumption DEF NopsInv, NopsStep, RingTyped
    <2> QED
      BY <2>1, <2>2, RingAssumption
  <1>2. /\ program = "nops" /\ program' = program
        /\ nopAt \notin {"enter", "panic"} => d <= (IF f = 0 THEN 0 ELSE b)
        /\ d <= (IF f = 0 THEN 0 ELSE b) + t
    <2>1. program = "nops" /\ program' = program
      BY DEF NopsStep
    <2>2. CASE nopAt \in {"enter", "panic"}
      <3>1. d <= Behind + t
        BY <1>0, <1>1, <2>1, <2>2 DEF NopsFit
      <3> QED
        BY <1>1, <2>1, <2>2, <3>1 DEF Behind
    <2>3. CASE nopAt \notin {"enter", "panic"}
      <3>1. d <= Behind + 0
        BY <1>0, <1>1, <2>1, <2>3 DEF NopsFit
      <3> QED
        BY <1>1, <2>1, <2>3, <3>1 DEF Behind
    <2> QED
      BY <2>1, <2>2, <2>3
  <1>3. 4 * b <= Counters
    <2>1. CqSize = 2 * size /\ CqSize <= Counters /\ size = 2 * b
      BY <1>1, <1>2, RingSizes
    <2> QED
      BY <1>1, <2>1
  <1>4. CASE WriteNops
    <2>1. PICK u : u = take' /\ u \in 0 .. b
      BY <1>1, <1>4, RingAssumption DEF WriteNops, NopsInv, NopsStep
    <2>2. sqTail' = Plus(sqTail, u) /\ sqHead' = sqHead /\ faults' = faults /\ nopAt' = "enter"
          /\ nopAt = "write"
      BY <1>4, <2>1 DEF WriteNops
    <2>3. d <= (IF f = 0 THEN 0 ELSE b)
      BY <1>2, <2>2
    <2>4. Minus(sqTail, sqHead) + u < Counters /\ Counters \in Nat
      BY <1>1, <1>3, <2>1, <2>3, CountersPositive DEF Offered
    <2>5. Minus(Plus(sqTail, u), sqHead) = d + u
      <3>1. sqTail \in 0 .. Counters - 1 /\ sqHead \in 0 .. Counters - 1 /\ u \in Nat
        BY <2>1 DEF RingTyped
      <3> QED
        BY <1>1, <2>4, <3>1, QueueGrows DEF Offered
    <2>6. Offered' = d + u
      BY <2>2, <2>5 DEF Offered
    <2>7. Offered' <= Behind' + take'
      <3>1. Behind' = IF f = 0 THEN 0 ELSE b
        BY <1>1, <2>2 DEF Behind
      <3>2. PICK x : x = (IF f = 0 THEN 0 ELSE b)
        OBVIOUS
      <3>3. x \in Int /\ d <= x /\ u \in Int /\ d \in Int
        BY <1>1, <2>1, <2>3, <3>2
      <3>4. d + u <= x + u
        BY <3>3
      <3> QED
        BY <2>1, <2>6, <3>1, <3>2, <3>4
    <2> QED
      BY <2>2, <2>7 DEF NopsFit
  <1>5. CASE EnterNops
    <2>1. PICK r \in -1 .. take : Enter(take, r) /\ nopAt' = (IF r < 0 THEN "panic" ELSE "reap")
      BY <1>5 DEF EnterNops
    <2>2. UNCHANGED <<submitted, take, sqTail>> /\ nopAt = "enter"
      BY <1>5 DEF EnterNops
    <2>3. take \in Nat /\ r \in Int
      BY <1>1, <2>1
    <2>4. \E k \in 0 .. Offered :
            /\ k <= take /\ (r < 0 => k = 0 /\ kept > 0) /\ (r >= 0 => k = r)
            /\ Offered' = Offered - k
            /\ \/ faults' = faults /\ (r >= 0 => k = IF take < Offered THEN take ELSE Offered)
               \/ faults' = faults + 1 /\ faults < MaxFaults
      BY <1>2, <2>1, <2>2, <2>3, EnterTakes
    <2>5. PICK k \in 0 .. d :
            /\ k <= t /\ (r < 0 => k = 0) /\ Offered' = d - k
            /\ \/ faults' = f /\ (r >= 0 => k = IF t < d THEN t ELSE d)
               \/ faults' = f + 1 /\ f < MaxFaults
      BY <1>1, <2>4
    <2>6. d <= (IF f = 0 THEN 0 ELSE b) + t
      BY <1>2, <2>2
    <2>7. PICK g : g = faults'
      OBVIOUS
    <2>8. CASE r < 0
      <3>1. Offered' = d /\ nopAt' = "panic" /\ take' = t
        BY <1>1, <2>1, <2>2, <2>5, <2>8
      <3>2. g = f \/ (f = 0 /\ g = 1)
        BY <1>1, <2>5, <2>7
      <3>3. d <= (IF g = 0 THEN 0 ELSE b) + t
        BY <1>1, <2>6, <3>2
      <3> QED
        BY <1>1, <2>7, <3>1, <3>3 DEF NopsFit, Behind
    <2>9. CASE r >= 0
      <3>1. nopAt' = "reap"
        BY <2>1, <2>9
      <3>2. d - k <= (IF g = 0 THEN 0 ELSE b)
        <4>1. CASE g = f /\ k = (IF t < d THEN t ELSE d)
          BY <1>1, <2>5, <2>6, <4>1
        <4>2. CASE g = f + 1
          BY <1>1, <2>5, <2>6, <2>7, <4>2
        <4> QED
          BY <2>5, <2>7, <2>9, <4>1, <4>2
      <3> QED
        BY <1>1, <2>5, <2>7, <3>1, <3>2 DEF NopsFit, Behind
    <2> QED
      BY <2>1, <2>8, <2>9
  <1>6. CASE Reap \/ EndOfEvents
    <2>1. UNCHANGED <<take, ringVars>> /\ nopAt \notin {"enter", "panic"}
          /\ nopAt' \notin {"enter", "panic"}
      BY <1>6 DEF Reap, EndOfEvents
    <2>2. Offered' = Offered /\ Behind' = Behind /\ faults' = faults
      BY <2>1 DEF Offered, Behind, ringVars
    <2> QED
      BY <1>0, <1>1, <1>2, <2>1, <2>2 DEF NopsFit, Behind
  <1>7. CASE GiveUpReap
    <2>1. UNCHANGED <<take, ringVars>> /\ nopAt = "reap" /\ nopAt' = "panic"
      BY <1>7 DEF GiveUpReap
    <2>2. Offered' = Offered /\ faults' = faults /\ take' = take
      BY <2>1 DEF Offered, ringVars
    <2>3. d <= (IF f = 0 THEN 0 ELSE b)
      BY <1>2, <2>1
    <2> QED
      BY <1>1, <1>2, <2>1, <2>2, <2>3 DEF NopsFit, Behind
  <1>8. CASE KernelNops
    <2>1. PICK o \in inflight : Complete(o, 0) /\ UNCHANGED nopVars
      BY <1>8 DEF KernelNops
    <2>2. Offered' = Offered /\ Behind' = Behind /\ UNCHANGED <<nopAt, take, faults>>
      BY <2>1 DEF Complete, Offered, Behind, nopVars
    <2> QED
      BY <1>0, <1>2, <2>2 DEF NopsFit
  <1> QED
    BY <1>4, <1>5, <1>6, <1>7, <1>8 DEF NopsMain


-----------------------------------------------------------------------------
(* What the calls of the arena do. *)

LEMMA DivCeilIs ==
  ASSUME NEW n \in Nat
  PROVE  /\ DivCeil(n, WordBytes) \in Nat /\ n <= DivCeil(n, WordBytes) * WordBytes
         /\ n >= WordBytes => DivCeil(n, WordBytes) >= 1
  BY DEF DivCeil, WordBytes

(* Allocating adds words at the end; it moves the arena only when it is full. *)
LEMMA AllocIs ==
  ASSUME NEW Contents, 0 \in Contents, NEW a, IsArena(a, Contents), NEW n \in Nat
  PROVE  /\ IsArena(Alloc(a, n), Contents) /\ Alloc(a, n).marks = a.marks
         /\ Len(Alloc(a, n).buf) = Len(a.buf) + DivCeil(n, WordBytes)
         /\ \A p \in 1 .. Len(a.buf) : Alloc(a, n).buf[p] = a.buf[p]
         /\ Len(a.buf) + DivCeil(n, WordBytes) <= a.cap =>
              Alloc(a, n).moves = a.moves /\ Alloc(a, n).cap = a.cap
  <1>1. PICK w \in Nat, b \in Seq(Contents), c \in Nat, v \in Nat :
          w = DivCeil(n, WordBytes) /\ b = a.buf /\ c = a.cap /\ v = a.moves
    BY DivCeilIs DEF IsArena
  <1>2. PICK m : m = a.marks
    OBVIOUS
  <1>3. a = [buf |-> b, marks |-> m, cap |-> c, moves |-> v]
    BY <1>1, <1>2 DEF IsArena
  <1>4. PICK z : z = [p \in 1 .. w |-> 0]
    OBVIOUS
  <1>5. z \in Seq(Contents) /\ Len(z) = w
    BY <1>4
  <1>6. PICK d : d = b \o z
    OBVIOUS
  <1>7. d \in Seq(Contents) /\ Len(d) = Len(b) + w /\ \A p \in 1 .. Len(b) : d[p] = b[p]
    <2>1. Len(d) = Len(b) + w
      <3>1. b \in Seq(Contents) /\ z \in Seq(Contents)
        BY <1>1, <1>5
      <3>2. Len(b \o z) = Len(b) + Len(z)
        BY <3>1, ConcatProperties
      <3> QED
        BY <1>5, <1>6, <3>2
    <2>2. \A p \in 1 .. Len(b) : d[p] = b[p]
      BY <1>1, <1>5, <1>6
    <2>3. d \in Seq(Contents)
      BY <1>1, <1>5, <1>6
    <2> QED
      BY <2>1, <2>2, <2>3
  <1>8. Alloc(a, n) = [Reserve(a, w) EXCEPT !.buf = @ \o z]
    BY <1>1, <1>4 DEF Alloc
  <1>9. CASE Len(b) + w <= c
    <2>1. Reserve(a, w) = a
      BY <1>1, <1>9 DEF Reserve
    <2>2. Alloc(a, n) = [buf |-> d, marks |-> m, cap |-> c, moves |-> v]
      <3>1. Alloc(a, n) = [a EXCEPT !.buf = @ \o z]
        BY <1>8, <2>1
      <3>2. Alloc(a, n) = [a EXCEPT !.buf = d]
        BY <1>1, <1>6, <3>1
      <3> QED
        BY <1>3, <3>2
    <2> QED
      BY <1>1, <1>2, <1>7, <2>2 DEF IsArena
  <1>10. CASE ~(Len(b) + w <= c)
    <2>1. PICK e : e = (IF Len(b) + w > 2 * c THEN Len(b) + w ELSE 2 * c)
      OBVIOUS
    <2>2. e \in Nat
      BY <2>1
    <2>3. Reserve(a, w) = [a EXCEPT !.cap = e, !.moves = @ + 1]
      BY <1>1, <1>10, <2>1 DEF Reserve
    <2>4. Reserve(a, w) = [buf |-> b, marks |-> m, cap |-> e, moves |-> v + 1]
      BY <1>3, <2>3
    <2>5. Alloc(a, n) = [buf |-> d, marks |-> m, cap |-> e, moves |-> v + 1]
      <3>1. PICK y : y = Reserve(a, w)
        OBVIOUS
      <3>2. Alloc(a, n) = [y EXCEPT !.buf = y.buf \o z] /\ y.buf = b
        BY <1>8, <2>4, <3>1
      <3>3. Alloc(a, n) = [y EXCEPT !.buf = d]
        BY <1>6, <3>2
      <3> QED
        BY <2>4, <3>1, <3>3
    <2>6. ~(Len(a.buf) + DivCeil(n, WordBytes) <= a.cap)
      BY <1>1, <1>10
    <2> QED
      BY <1>1, <1>2, <1>7, <2>2, <2>5, <2>6 DEF IsArena
  <1> QED
    BY <1>9, <1>10

LEMMA WriteWordIs ==
  ASSUME NEW Contents, NEW a, IsArena(a, Contents), NEW w \in Nat, w < Len(a.buf), NEW x \in Contents
  PROVE  /\ IsArena(WriteWord(a, w * WordBytes, x), Contents)
         /\ WriteWord(a, w * WordBytes, x).marks = a.marks
         /\ WriteWord(a, w * WordBytes, x).buf = [a.buf EXCEPT ![w + 1] = x]
  <1>1. (w * WordBytes) \div WordBytes + 1 = w + 1
    BY DEF WordBytes
  <1>2. PICK b : b = a.buf /\ b \in Seq(Contents)
    BY DEF IsArena
  <1>3. PICK d : d = [b EXCEPT ![w + 1] = x]
    OBVIOUS
  <1>4. d \in Seq(Contents)
    BY <1>2, <1>3
  <1>5. WriteWord(a, w * WordBytes, x) = [a EXCEPT !.buf = d]
    BY <1>1, <1>2, <1>3 DEF WriteWord
  <1>6. PICK m, c, v : m = a.marks /\ c = a.cap /\ v = a.moves
    OBVIOUS
  <1>7. a = [buf |-> b, marks |-> m, cap |-> c, moves |-> v] /\ c \in Nat /\ v \in Nat
    BY <1>2, <1>6 DEF IsArena
  <1>8. WriteWord(a, w * WordBytes, x) = [buf |-> d, marks |-> m, cap |-> c, moves |-> v]
    BY <1>5, <1>7
  <1>9. PICK y : y = WriteWord(a, w * WordBytes, x)
    OBVIOUS
  <1>10. y.buf = d /\ y.marks = m /\ y.cap = c /\ y.moves = v
    BY <1>8, <1>9
  <1>11. IsArena(y, Contents)
    BY <1>4, <1>7, <1>8, <1>9, <1>10 DEF IsArena
  <1>12. d = [a.buf EXCEPT ![w + 1] = x]
    BY <1>2, <1>3
  <1> QED
    BY <1>6, <1>9, <1>10, <1>11, <1>12

(* Rolling back keeps the words below the mark. *)
LEMMA RollbackIs ==
  ASSUME NEW Contents, NEW a, IsArena(a, Contents), NEW w \in Nat, w <= Len(a.buf)
  PROVE  /\ IsArena(Rollback(a, w * WordBytes), Contents)
         /\ Rollback(a, w * WordBytes).buf = SubSeq(a.buf, 1, w)
         /\ Rollback(a, w * WordBytes).marks = MarksBelow(a.marks, w)
  <1>1. (w * WordBytes) \div WordBytes = w
    BY DEF WordBytes
  <1>2. PICK b, m, c, v : b = a.buf /\ m = a.marks /\ c = a.cap /\ v = a.moves
    OBVIOUS
  <1>3. a = [buf |-> b, marks |-> m, cap |-> c, moves |-> v] /\ b \in Seq(Contents) /\ c \in Nat /\ v \in Nat
    BY <1>2 DEF IsArena
  <1>4. PICK d, k : d = SubSeq(b, 1, w) /\ k = MarksBelow(m, w)
    OBVIOUS
  <1>5. d \in Seq(Contents)
    BY <1>2, <1>3, <1>4
  <1>6. Rollback(a, w * WordBytes) = [a EXCEPT !.buf = d, !.marks = k]
    BY <1>1, <1>2, <1>4 DEF Rollback
  <1>7. Rollback(a, w * WordBytes) = [buf |-> d, marks |-> k, cap |-> c, moves |-> v]
    BY <1>3, <1>6
  <1>8. PICK y : y = Rollback(a, w * WordBytes)
    OBVIOUS
  <1>9. y.buf = d /\ y.marks = k /\ y.cap = c /\ y.moves = v
    BY <1>7, <1>8
  <1>10. IsArena(y, Contents)
    BY <1>3, <1>5, <1>7, <1>8, <1>9 DEF IsArena
  <1> QED
    BY <1>2, <1>4, <1>8, <1>9, <1>10

(* A change of the stack of marks alone. *)
LEMMA MarksIs ==
  ASSUME NEW Contents, NEW a, NEW k, IsArena(a, Contents)
  PROVE  /\ IsArena([a EXCEPT !.marks = k], Contents)
         /\ [a EXCEPT !.marks = k].buf = a.buf /\ [a EXCEPT !.marks = k].marks = k
  <1>1. PICK b, m, c, v : b = a.buf /\ m = a.marks /\ c = a.cap /\ v = a.moves
    OBVIOUS
  <1>2. a = [buf |-> b, marks |-> m, cap |-> c, moves |-> v] /\ b \in Seq(Contents) /\ c \in Nat /\ v \in Nat
    BY <1>1 DEF IsArena
  <1>3. [a EXCEPT !.marks = k] = [buf |-> b, marks |-> k, cap |-> c, moves |-> v]
    BY <1>2
  <1> QED
    BY <1>1, <1>2, <1>3 DEF IsArena


-----------------------------------------------------------------------------
(* The loader. *)

LEMMA OfferedIs ==
  ASSUME RingTyped
  PROVE  /\ Offered \in 0 .. Counters - 1 /\ (Offered = 0 <=> sqTail = sqHead)
         /\ Here \in 0 .. Counters - 1 /\ (Here = 0 <=> cqTail = cqHead)
         /\ Counters \in Nat \ {0} /\ Cardinality(inflight) \in Nat
         /\ (Cardinality(inflight) = 0 => inflight = {})
  <1>1. PICK c, x, y, u, v : c = Counters /\ x = sqTail /\ y = sqHead /\ u = cqTail /\ v = cqHead
    OBVIOUS
  <1>2. /\ c \in Nat \ {0} /\ x \in 0 .. c - 1 /\ y \in 0 .. c - 1 /\ u \in 0 .. c - 1 /\ v \in 0 .. c - 1
    BY <1>1, CountersPositive DEF RingTyped
  <1>3. /\ Offered \in 0 .. c - 1 /\ Offered = (IF x >= y THEN x - y ELSE x - y + c)
        /\ Here \in 0 .. c - 1 /\ Here = (IF u >= v THEN u - v ELSE u - v + c)
    BY <1>1, <1>2, MinusIs DEF Offered, Here
  <1>4. (Offered = 0 <=> x = y) /\ (Here = 0 <=> u = v)
    BY <1>2, <1>3
  <1>5. Cardinality(inflight) \in Nat /\ (Cardinality(inflight) = 0 => inflight = {})
    BY FS_CardinalityType, FS_EmptySet DEF RingTyped
  <1> QED
    BY <1>1, <1>2, <1>3, <1>4, <1>5

LEMMA UringStarts ==
  ASSUME NEW words, WordsOf(words), UringInit
  PROVE  UringInv(words) /\ NopsFit
  <1> USE RingAssumption, LoaderAssumption
  <1>1. PICK n, c : /\ n = (IF program = "assets" THEN Entries ELSE RingEntries)
                    /\ c \in {0, Counters - 1} /\ RingInit(n, c)
    BY DEF UringInit
  <1>2. /\ program \in {"assets", "nops"} /\ LoaderStart /\ NopsStart
    BY DEF UringInit
  <1>3. n \in Nat \ {0}
    BY <1>1 DEF RingEntries
  <1>4. /\ size = n /\ sqTail = c /\ sqHead = c /\ cqTail = c /\ cqHead = c
        /\ inflight = {} /\ kept = 0 /\ faults = 0
        /\ sqes = [p \in 0 .. n - 1 |-> NoOp]
        /\ cqes = [p \in 0 .. 2 * n - 1 |-> [tag |-> 0, res |-> 0]]
    BY <1>1 DEF RingInit
  <1>5. NoOp \in Ops /\ NoOp.iov = 0 /\ [tag |-> 0, res |-> 0] \in Results
    BY DEF NoOp, Ops, Results
  <1>6. RingTyped
    <2>1. sqes \in [0 .. size - 1 -> Ops]
      BY <1>4, <1>5
    <2>2. cqes \in [0 .. CqSize - 1 -> Results]
      BY <1>3, <1>4, <1>5 DEF CqSize
    <2>3. c \in 0 .. Counters - 1
      BY <1>1, CountersPositive
    <2>4. inflight \subseteq [at : Nat, op : Ops] /\ IsFiniteSet(inflight) /\ faults \in 0 .. MaxFaults
      BY <1>4, FS_EmptySet
    <2> QED
      BY <1>1, <1>2, <1>4, <2>1, <2>2, <2>3, <2>4 DEF RingTyped
  <1>7. NopsInv
    BY <1>2, <1>3, <1>4, <1>5 DEF NopsInv, NopsStart
  <1>8. NopsFit
    BY <1>2, <1>4, <1>6, OfferedIs DEF NopsFit, NopsStart, Behind
  <1>9. ASSUME program = "assets" PROVE LoaderInv(words)
    <2>1. /\ at = "frame" /\ frame = 0 /\ loaded = {} /\ batch = 0 /\ pending = 0
          /\ iovs = [p \in 1 .. Entries |-> NoBuffer] /\ nIovs = 0 /\ out = <<>>
          /\ assets = WithCapacity(AssetWords) /\ temps = WithCapacity(1024)
          /\ landed = [a \in Assets |-> NoBuffer]
      BY <1>2 DEF LoaderStart, AssetArena
    <2>2. NoBuffer \in Buffers
      BY DEF NoBuffer, Buffers
    <2>3. Loaded = 0 /\ loaded = 1 .. 0 /\ Cardinality(Assets) \in Nat
      BY <2>1, FS_EmptySet, FS_CardinalityType DEF Loaded
    <2>4. LoaderTyped
      BY <1>4, <2>1, <2>2, <2>3 DEF LoaderTyped
    <2>5. ASSUME NEW c1 \in Nat, NEW a, a = WithCapacity(c1)
          PROVE  IsArena(a, Int) /\ a.buf = <<>> /\ a.marks = <<>> /\ a.cap = c1 /\ a.moves = 0
      BY <2>5 DEF WithCapacity, IsArena
    <2>6. Area(words)
      BY <2>1, <2>3, <2>5 DEF Area, WordsOf
    <2>7. Temps
      BY <2>1, <2>5 DEF Temps
    <2>8. Quiet
      BY <1>4, <2>1 DEF Quiet
    <2>9. Filling /\ IovecsMade /\ Waiting
      BY <2>1 DEF Filling, IovecsMade, Waiting
    <2>10. Handed
      BY <2>1 DEF Handed
    <2>11. Before = 0
      BY <2>1, <2>3 DEF Before
    <2>12. Earlier
      BY <2>11 DEF Earlier
    <2> QED
      BY <2>4, <2>6, <2>7, <2>8, <2>9, <2>10, <2>12 DEF LoaderInv
  <1> QED
    BY <1>6, <1>7, <1>8, <1>9 DEF UringInv


LEMMA RingKept ==
  ASSUME RingTyped, UNCHANGED <<program, ringVars>>
  PROVE  /\ RingTyped' /\ Offered' = Offered /\ Here' = Here
         /\ \A p : OfferedOp(p)' = OfferedOp(p) /\ Posted(p)' = Posted(p)
  BY DEF RingTyped, ringVars, CqSize, Offered, Here, OfferedOp, Posted

LEMMA AreaKept ==
  ASSUME NEW words, Area(words), UNCHANGED <<assets, loaded>>
  PROVE  Area(words)' /\ Loaded' = Loaded
  BY DEF Area, Loaded, IsArena

LEMMA AssetNumbers ==
  ASSUME LoaderTyped
  PROVE  /\ Assets = 1 .. Cardinality(Assets) /\ Cardinality(Assets) \in Nat
         /\ Loaded \in 0 .. Cardinality(Assets) /\ loaded = 1 .. Loaded
         /\ batch \in 0 .. PerFrame /\ PerFrame \in 0 .. Entries /\ Entries \in Nat
  BY LoaderAssumption, FS_CardinalityType DEF LoaderTyped

LEMMA StartFrameKeeps ==
  ASSUME NEW words, RingTyped, LoaderInv(words), AssetsStep, StartFrame
  PROVE  RingTyped' /\ LoaderInv(words)'
  <1>1. /\ at = "frame" /\ frame < Frames /\ temps' = PushMark(temps) /\ batch' = 0 /\ at' = "load"
        /\ UNCHANGED <<frame, loaded, pending, iovs, nIovs, out, assets, landed, ringVars>>
        /\ UNCHANGED program
    BY DEF StartFrame, AssetsStep
  <1>2. LoaderTyped /\ Area(words) /\ Temps /\ Quiet /\ Earlier
    BY DEF LoaderInv
  <1>3. /\ RingTyped' /\ Offered' = Offered /\ Here' = Here
        /\ UNCHANGED <<size, sqTail, sqHead, cqTail, cqHead, inflight, kept>>
    BY <1>1, RingKept DEF ringVars
  <1>4. Area(words)' /\ Loaded' = Loaded
    BY <1>1, <1>2, AreaKept
  <1>5. PICK l \in Nat : l = Loaded
    BY <1>2, AssetNumbers
  <1>6. LoaderTyped'
    <2>1. 0 \in 0 .. PerFrame
      BY <1>2, AssetNumbers
    <2> QED
      BY <1>1, <1>2, <1>3, <1>4, <2>1 DEF LoaderTyped
  <1>7. Temps'
    <2>1. IsArena(temps, Int) /\ temps.buf = <<>> /\ temps.marks = <<>>
      BY <1>1, <1>2 DEF Temps
    <2>2. PICK a : a = temps /\ IsArena(a, Int) /\ a.buf = <<>> /\ a.marks = <<>>
      BY <2>1
    <2>3. temps' = [a EXCEPT !.marks = Append(a.marks, Len(a.buf))]
      BY <1>1, <2>2 DEF PushMark
    <2>4. temps' = [a EXCEPT !.marks = <<0>>]
      BY <2>2, <2>3
    <2>5. IsArena([a EXCEPT !.marks = <<0>>], Int) /\ [a EXCEPT !.marks = <<0>>].buf = a.buf
          /\ [a EXCEPT !.marks = <<0>>].marks = <<0>>
      <3> DEFINE k == <<0>>
      <3>1. IsArena(a, Int)
        BY <2>2
      <3> HIDE DEF k
      <3>2. IsArena([a EXCEPT !.marks = k], Int) /\ [a EXCEPT !.marks = k].buf = a.buf
            /\ [a EXCEPT !.marks = k].marks = k
        BY <3>1, MarksIs
      <3> QED
        BY <3>2 DEF k
    <2>6. IsArena(temps', Int) /\ temps'.buf = <<>> /\ temps'.marks = <<0>>
      BY <2>2, <2>4, <2>5
    <2> QED
      BY <1>1, <2>6 DEF Temps, IsArena
  <1>8. inflight = {} /\ cqTail = cqHead /\ sqTail = sqHead /\ pending = 0 /\ nIovs = 0
    BY <1>1, <1>2 DEF Quiet
  <1>9. Quiet'
    BY <1>1, <1>3, <1>8 DEF Quiet
  <1>10. Filling'
    <2>1. Offered' = 0
      BY <1>3, <1>8, OfferedIs
    <2> QED
      BY <1>1, <1>4, <1>5, <1>8, <2>1 DEF Filling
  <1>11. IovecsMade' /\ Waiting' /\ Handed'
    BY <1>1 DEF IovecsMade, Waiting, Handed
  <1>12. Earlier'
    <2>1. Before' = l /\ Before = l
      BY <1>1, <1>4, <1>5 DEF Before
    <2>2. \A a \in 1 .. l : Settled(a)
      BY <1>2, <2>1 DEF Earlier
    <2>3. \A a \in 1 .. l : Settled(a)'
      BY <1>1, <2>2 DEF Settled
    <2> QED
      BY <2>1, <2>3 DEF Earlier
  <1> QED
    BY <1>3, <1>4, <1>6, <1>7, <1>9, <1>10, <1>11, <1>12 DEF LoaderInv


(* The steps that only move on. *)
LEMMA MovingOnKeeps ==
  ASSUME NEW words, RingTyped, LoaderInv(words), AssetsStep,
         GiveUp \/ CheckResults \/ Finish
  PROVE  RingTyped' /\ LoaderInv(words)'
  <1>1. /\ UNCHANGED <<frame, loaded, batch, pending, iovs, nIovs, out, assets, temps, landed,
                       ringVars>>
        /\ UNCHANGED program
    BY DEF GiveUp, CheckResults, Finish, AssetsStep
  <1>2. LoaderTyped /\ Area(words) /\ Temps /\ Quiet /\ IovecsMade /\ Waiting /\ Handed /\ Earlier
    BY DEF LoaderInv
  <1>3. /\ RingTyped' /\ Offered' = Offered /\ Here' = Here
        /\ \A p : Posted(p)' = Posted(p)
        /\ UNCHANGED <<size, sqTail, sqHead, cqTail, cqHead, inflight, kept>>
    BY <1>1, RingKept DEF ringVars
  <1>4. Area(words)' /\ Loaded' = Loaded
    BY <1>1, <1>2, AreaKept
  <1>5. PICK l, b : l \in Nat /\ l = Loaded /\ b \in Nat /\ b = batch
    <2>1. PerFrame \in Nat /\ batch \in 0 .. PerFrame
      BY <1>2, AssetNumbers
    <2> QED
      BY <1>2, <2>1, AssetNumbers
  <1>6. (\A a : Settled(a)' = Settled(a)) /\ (\A c : Sound(c)' = Sound(c))
    BY <1>1 DEF Settled, Sound
  <1>7. CASE GiveUp
    <2>1. at = "wait" /\ at' = "panic-wait"
      BY <1>7 DEF GiveUp
    <2>2. LoaderTyped' /\ Temps' /\ Quiet' /\ Filling'
      BY <1>1, <1>2, <1>3, <1>4, <2>1 DEF LoaderTyped, Temps, Quiet, Filling, IsArena
    <2>3. IovecsMade'
      BY <1>1, <1>2, <1>4, <2>1 DEF IovecsMade
    <2>4. Waiting'
      <3>1. Fresh' = Fresh
        BY <1>1, <1>4 DEF Fresh
      <3>2. \A a : Placed(a) => Placed(a)'
        BY <1>1, <1>3 DEF Placed
      <3> QED
        BY <1>1, <1>2, <1>3, <1>4, <1>6, <2>1, <3>1, <3>2 DEF Waiting
    <2>5. Handed'
      BY <1>1, <1>2, <1>6, <2>1 DEF Handed
    <2>6. Earlier'
      <3>1. Before' = Before
        BY <1>1, <1>4, <2>1 DEF Before
      <3> QED
        BY <1>2, <1>6, <3>1 DEF Earlier
    <2> QED
      BY <1>3, <1>4, <2>2, <2>3, <2>4, <2>5, <2>6 DEF LoaderInv
  <1>8. CASE Finish
    <2>1. at = "frame" /\ at' = "done"
      BY <1>8 DEF Finish
    <2>2. LoaderTyped' /\ Temps' /\ Quiet' /\ Filling'
      BY <1>1, <1>2, <1>3, <1>4, <2>1 DEF LoaderTyped, Temps, Quiet, Filling, IsArena
    <2>3. IovecsMade' /\ Waiting' /\ Handed'
      BY <2>1 DEF IovecsMade, Waiting, Handed
    <2>4. Earlier'
      <3>1. Before' = Before
        BY <1>1, <1>4, <2>1 DEF Before
      <3> QED
        BY <1>2, <1>6, <3>1 DEF Earlier
    <2> QED
      BY <1>3, <1>4, <2>2, <2>3, <2>4 DEF LoaderInv
  <1>9. CASE CheckResults
    <2>1. /\ at = "check" /\ at' \in {"tick", "panic-short"}
          /\ at' = "tick" => \A p \in DOMAIN out : out[p].res = AssetSize[out[p].tag]
      BY <1>9 DEF CheckResults
    <2>2. LoaderTyped' /\ Temps' /\ Quiet' /\ Filling'
      BY <1>1, <1>2, <1>3, <1>4, <2>1 DEF LoaderTyped, Temps, Quiet, Filling, IsArena
    <2>3. IovecsMade' /\ Waiting' /\ Handed'
      BY <2>1 DEF IovecsMade, Waiting, Handed
    <2>4. Earlier'
      <3>1. \A a \in 1 .. l - b : Settled(a)
        BY <1>2, <1>5, <2>1 DEF Earlier, Before
      <3>2. CASE at' = "panic-short"
        <4>1. Before' = l - b
          BY <1>1, <1>4, <1>5, <3>2 DEF Before
        <4> QED
          BY <1>6, <3>1, <4>1 DEF Earlier
      <3>3. CASE at' = "tick"
        <4>1. Before' = l
          BY <1>4, <1>5, <3>3 DEF Before
        <4>2. ASSUME NEW a \in l - b + 1 .. l PROVE Settled(a)
          <5>1. PICK p \in DOMAIN out : out[p].tag = a
            BY <1>2, <1>5, <2>1 DEF Handed, Fresh
          <5>2. Sound(out[p]) /\ out[p].res = AssetSize[out[p].tag]
            BY <1>2, <2>1, <3>3, <5>1 DEF Handed
          <5>3. out[p].tag \in Assets
            BY <5>2 DEF Sound
          <5>4. AssetSize[out[p].tag] # 0
            BY <5>3, LoaderAssumption
          <5> QED
            BY <5>1, <5>2, <5>4 DEF Sound
        <4>3. \A a \in 1 .. l : a \in 1 .. l - b \/ a \in l - b + 1 .. l
          BY <1>5
        <4> QED
          BY <1>6, <3>1, <4>1, <4>2, <4>3 DEF Earlier
      <3> QED
        BY <2>1, <3>2, <3>3
    <2> QED
      BY <1>3, <1>4, <2>2, <2>3, <2>4 DEF LoaderInv
  <1> QED
    BY <1>7, <1>8, <1>9

LEMMA TickKeeps ==
  ASSUME NEW words, RingTyped, LoaderInv(words), AssetsStep, Tick
  PROVE  RingTyped' /\ LoaderInv(words)'
  <1>1. /\ at = "tick" /\ at' = "frame" /\ frame' = frame + 1
        /\ UNCHANGED <<loaded, batch, pending, iovs, nIovs, out, assets, landed, ringVars>>
        /\ UNCHANGED program
    BY DEF Tick, AssetsStep
  <1>2. LoaderTyped /\ Area(words) /\ Temps /\ Quiet /\ Earlier
    BY DEF LoaderInv
  <1>3. /\ RingTyped' /\ UNCHANGED <<size, sqTail, sqHead, cqTail, cqHead, inflight, kept>>
    BY <1>1, RingKept DEF ringVars
  <1>4. Area(words)' /\ Loaded' = Loaded
    BY <1>1, <1>2, AreaKept
  <1>5. Frames \in Nat /\ frame \in Nat /\ frame < Frames
    BY <1>1, <1>2, LoaderAssumption DEF LoaderTyped
  <1>6. LoaderTyped'
    <2>1. frame' \in 0 .. Frames
      BY <1>1, <1>5
    <2> QED
      BY <1>1, <1>2, <1>3, <1>4, <2>1 DEF LoaderTyped
  <1>7. Temps'
    <2>1. PICK a : a = temps /\ IsArena(a, Int) /\ a.buf = <<>> /\ a.marks = <<0>>
      BY <1>1, <1>2 DEF Temps
    <2>2. PICK b : b = Alloc(a, 2 * WordBytes)
      OBVIOUS
    <2>3. 0 \in Int /\ 2 * WordBytes \in Nat /\ 2 * WordBytes >= WordBytes
      BY DEF WordBytes
    <2>4. IsArena(b, Int) /\ b.marks = <<0>> /\ Len(b.buf) = 0 + DivCeil(2 * WordBytes, WordBytes)
      <3>1. PICK n \in Nat : n = 2 * WordBytes
        BY <2>3
      <3>2. /\ IsArena(Alloc(a, n), Int) /\ Alloc(a, n).marks = a.marks
            /\ Len(Alloc(a, n).buf) = Len(a.buf) + DivCeil(n, WordBytes)
        BY <2>1, <2>3, AllocIs
      <3>3. Len(a.buf) = 0
        BY <2>1
      <3> QED
        BY <2>1, <2>2, <3>1, <3>2, <3>3
    <2>5. DivCeil(2 * WordBytes, WordBytes) \in Nat /\ DivCeil(2 * WordBytes, WordBytes) >= 1
      BY <2>3, DivCeilIs
    <2>6. Len(b.buf) \in Nat /\ 0 < Len(b.buf)
      BY <2>4, <2>5
    <2>7. PICK c : c = WriteWord(b, 0 * WordBytes, frame)
      OBVIOUS
    <2>8. IsArena(c, Int) /\ c.marks = <<0>> /\ c.buf = [b.buf EXCEPT ![0 + 1] = frame]
      BY <1>5, <2>4, <2>6, <2>7, WriteWordIs
    <2>9. 0 <= Len(c.buf)
      BY <2>8 DEF IsArena
    <2>10. /\ IsArena(Rollback(c, 0 * WordBytes), Int)
           /\ Rollback(c, 0 * WordBytes).buf = SubSeq(c.buf, 1, 0)
           /\ Rollback(c, 0 * WordBytes).marks = MarksBelow(c.marks, 0)
      <3>1. 0 \in Nat
        OBVIOUS
      <3> QED
        BY <2>8, <2>9, <3>1, RollbackIs
    <2>11. temps' = Rollback(c, 0 * WordBytes)
      <3>1. MarkOf(a) = 0 * WordBytes /\ a.marks[1] * WordBytes = 0 * WordBytes
        BY <2>1 DEF MarkOf
      <3>2. temps' = Rollback(WriteWord(Alloc(a, 2 * WordBytes), MarkOf(a), frame),
                              a.marks[1] * WordBytes)
        BY <2>1 DEF Tick, EndOfFrame
      <3> QED
        BY <2>2, <2>7, <3>1, <3>2
    <2>12. SubSeq(c.buf, 1, 0) = <<>>
      OBVIOUS
    <2>13. MarksBelow(c.marks, 0) = <<>>
      <3>1. \A p \in DOMAIN c.marks : ~(c.marks[p] < 0)
        BY <2>8
      <3> QED
        BY <3>1 DEF MarksBelow
    <2>14. IsArena(temps', Int) /\ temps'.buf = <<>> /\ temps'.marks = <<>>
      BY <2>10, <2>11, <2>12, <2>13
    <2> QED
      BY <1>1, <2>14 DEF Temps, IsArena
  <1>8. Quiet' /\ Filling'
    BY <1>1, <1>2, <1>3 DEF Quiet, Filling
  <1>9. IovecsMade' /\ Waiting' /\ Handed'
    BY <1>1 DEF IovecsMade, Waiting, Handed
  <1>10. Earlier'
    <2>1. Before' = Loaded /\ Before = Loaded
      BY <1>1, <1>4 DEF Before
    <2> QED
      BY <1>1, <1>2, <2>1 DEF Earlier, Settled
  <1> QED
    BY <1>3, <1>4, <1>6, <1>7, <1>8, <1>9, <1>10 DEF LoaderInv


LEMMA NextAssetIs ==
  ASSUME LoaderTyped, loaded # Assets
  PROVE  /\ NextAsset = Loaded + 1 /\ Loaded + 1 \in Assets
         /\ Cardinality(loaded \union {Loaded + 1}) = Loaded + 1
         /\ loaded \union {Loaded + 1} = 1 .. Loaded + 1
  <1>1. PICK l, n : /\ n \in Nat /\ n = Cardinality(Assets) /\ Assets = 1 .. n
                    /\ l \in 0 .. n /\ l = Loaded /\ loaded = 1 .. l
    BY AssetNumbers
  <1>2. l < n
    <2>1. l # n
      BY <1>1
    <2> QED
      BY <1>1, <2>1
  <1>3. l + 1 \in Assets \ loaded /\ \A a \in Assets \ loaded : l + 1 <= a
    <2>1. \A m \in Nat : \A k \in 0 .. m - 1 :
            /\ k + 1 \in (1 .. m) \ (1 .. k)
            /\ \A a \in (1 .. m) \ (1 .. k) : k + 1 <= a
      BY SMT
    <2>2. l \in 0 .. n - 1
      BY <1>1, <1>2
    <2>3. l + 1 \in (1 .. n) \ (1 .. l) /\ \A a \in (1 .. n) \ (1 .. l) : l + 1 <= a
      BY <1>1, <2>1, <2>2
    <2>4. Assets = 1 .. n /\ loaded = 1 .. l
      BY <1>1
    <2> QED
      BY <2>3, <2>4, Zenon
  <1>4. \A a \in Assets \ loaded : (\A c \in Assets \ loaded : a <= c) => a = l + 1
    BY <1>1, <1>3
  <1>5. NextAsset = l + 1
    BY <1>3, <1>4 DEF NextAsset
  <1>6. loaded \union {l + 1} = 1 .. l + 1
    BY <1>1
  <1>7. Cardinality(1 .. l + 1) = l + 1
    <2>1. 1 \in Int /\ l + 1 \in Int /\ ~(1 > l + 1) /\ l + 1 - 1 + 1 = l + 1
      BY <1>1
    <2> QED
      BY <2>1, FS_Interval
  <1> QED
    BY <1>1, <1>3, <1>5, <1>6, <1>7

LEMMA LoadAssetKeeps ==
  ASSUME NEW words, WordsOf(words), RingTyped, LoaderInv(words), AssetsStep, LoadAsset
  PROVE  RingTyped' /\ LoaderInv(words)'
  <1>1. /\ at = "load" /\ batch < PerFrame /\ loaded # Assets /\ batch' = batch + 1
        /\ UNCHANGED <<frame, out, temps, landed, size, sqHead, inflight, cqTail, cqHead, cqes,
                       kept, faults>>
        /\ UNCHANGED program /\ program = "assets"
    BY DEF LoadAsset, WantsMore, AssetsStep
  <1>2. /\ LoaderTyped /\ Area(words) /\ Temps /\ Quiet /\ Filling /\ IovecsMade /\ Earlier
    BY DEF LoaderInv
  <1>3. PICK l, n, b, per, e :
          /\ n \in Nat /\ n = Cardinality(Assets) /\ Assets = 1 .. n
          /\ l \in 0 .. n /\ l = Loaded /\ loaded = 1 .. l
          /\ e \in Nat \ {0} /\ e = Entries /\ per \in 0 .. e /\ per = PerFrame
          /\ b \in 0 .. per - 1 /\ b = batch
    <2>1. batch \in 0 .. PerFrame - 1 /\ PerFrame \in 0 .. Entries /\ Entries \in Nat \ {0}
      BY <1>1, <1>2, AssetNumbers, LoaderAssumption
    <2> QED
      BY <1>2, <2>1, AssetNumbers
  <1>4. b <= l /\ pending = b /\ nIovs = b /\ Offered = b
    BY <1>1, <1>2, <1>3 DEF Filling
  <1>5. NextAsset = l + 1 /\ l + 1 \in Assets /\ Cardinality(loaded \union {l + 1}) = l + 1
        /\ loaded \union {l + 1} = 1 .. l + 1
    BY <1>1, <1>2, <1>3, NextAssetIs
  <1>6. /\ assets' = Alloc(assets, AssetSize[l + 1])
        /\ loaded' = loaded \union {l + 1}
        /\ iovs' = [iovs EXCEPT ![b + 1] = [tag |-> l + 1, off |-> MarkOf(assets), base |-> assets'.moves]]
        /\ nIovs' = b + 1
        /\ sqes' = [sqes EXCEPT ![sqTail % size] = [tag |-> l + 1, iov |-> b + 1]]
        /\ sqTail' = Plus(sqTail, 1)
        /\ pending' = b + 1
        /\ at' = at
    <2>1. pending < Entries
      BY <1>3, <1>4
    <2> QED
      BY <1>4, <1>5, <2>1 DEF LoadAsset, IovSlot
  <1>7. Loaded' = l + 1 /\ loaded' = 1 .. l + 1
    BY <1>5, <1>6 DEF Loaded
  <1>8. Area(words)' /\ assets'.moves = 0
    <2>1. /\ IsArena(assets, Int) /\ assets.moves = 0 /\ assets.cap = AssetWords
          /\ Len(assets.buf) = words[l]
      BY <1>2, <1>3 DEF Area
    <2>2. PICK s \in Nat : s = AssetSize[l + 1]
      BY <1>5, LoaderAssumption
    <2>3. words[l + 1] = words[l] + DivCeil(s, WordBytes)
      <3>1. \A a \in Assets : words[a] = words[a - 1] + DivCeil(AssetSize[a], WordBytes)
        BY DEF WordsOf
      <3>2. (l + 1) - 1 = l
        BY <1>3
      <3> QED
        BY <1>5, <2>2, <3>1, <3>2
    <2>4. words[l + 1] <= AssetWords
      <3>1. l + 1 \in 0 .. n
        <4>1. \A x \in 1 .. n : x \in 0 .. n
          BY <1>3
        <4> QED
          BY <1>3, <1>5, <4>1, Zenon
      <3>2. words \in [0 .. n -> 0 .. AssetWords] /\ AssetWords \in Nat
        BY <1>3, LoaderAssumption DEF WordsOf
      <3>3. words[l + 1] \in 0 .. AssetWords
        BY <3>1, <3>2
      <3> QED
        BY <3>2, <3>3
    <2>5. Len(assets.buf) + DivCeil(s, WordBytes) <= assets.cap
      BY <2>1, <2>3, <2>4
    <2>6. /\ IsArena(Alloc(assets, s), Int)
          /\ Len(Alloc(assets, s).buf) = Len(assets.buf) + DivCeil(s, WordBytes)
          /\ Alloc(assets, s).moves = assets.moves /\ Alloc(assets, s).cap = assets.cap
      <3>1. 0 \in Int
        OBVIOUS
      <3> QED
        BY <2>1, <2>5, <3>1, AllocIs, ZenonT(30)
    <2>7. PICK a : a = assets' /\ a = Alloc(assets, s)
      BY <1>6, <2>2
    <2>8. IsArena(a, Int) /\ Len(a.buf) = words[l + 1] /\ a.moves = 0 /\ a.cap = AssetWords
      BY <2>1, <2>3, <2>6, <2>7
    <2> QED
      BY <1>7, <2>7, <2>8 DEF Area, IsArena
  <1>9. b < size /\ b + 1 < Counters
    <2>1. size = e /\ CqSize = 2 * size /\ CqSize <= Counters
      BY <1>1, <1>3, RingSizes
    <2> QED
      BY <1>3, <2>1, CountersPositive
  <1>10. PICK op : op = [tag |-> l + 1, iov |-> b + 1]
    OBVIOUS
  <1>11. op \in Ops /\ b \in Nat
    BY <1>3, <1>10 DEF Ops
  <1>12. /\ RingTyped' /\ Offered' = b + 1
         /\ OfferedOp(b)' = op /\ \A p \in 0 .. b - 1 : OfferedOp(p)' = OfferedOp(p)
    BY <1>1, <1>4, <1>6, <1>9, <1>10, <1>11, OperationOffered
  <1>13. PICK v : v = [tag |-> l + 1, off |-> MarkOf(assets), base |-> 0]
    OBVIOUS
  <1>14. v \in Buffers /\ v.tag = l + 1 /\ v.base = 0
    <2>1. PICK m : m = MarkOf(assets)
      OBVIOUS
    <2>2. m \in Nat
      BY <1>2, <2>1 DEF Area, IsArena, MarkOf, WordBytes
    <2> QED
      BY <1>3, <1>13, <2>1, <2>2 DEF Buffers
  <1>15. iovs' = [iovs EXCEPT ![b + 1] = v] /\ iovs \in [1 .. e -> Buffers] /\ b + 1 \in 1 .. e
    BY <1>2, <1>3, <1>6, <1>8, <1>13 DEF LoaderTyped
  <1>16. iovs' \in [1 .. e -> Buffers] /\ iovs'[b + 1] = v /\ \A p \in 1 .. b : iovs'[p] = iovs[p]
    BY <1>3, <1>14, <1>15
  <1>17. LoaderTyped'
    <2>1. l + 1 \in 0 .. n /\ b + 1 \in 0 .. per /\ b + 1 \in 0 .. e
      <3>1. l + 1 \in 1 .. n
        BY <1>3, <1>5
      <3>2. per \in Nat /\ per <= e /\ b \in Nat /\ b + 1 <= per
        BY <1>3
      <3> QED
        BY <1>3, <3>1, <3>2
    <2> QED
      BY <1>1, <1>2, <1>3, <1>6, <1>7, <1>16, <2>1 DEF LoaderTyped
  <1>18. Temps' /\ Quiet'
    BY <1>1, <1>2, <1>6 DEF Temps, Quiet, IsArena
  <1>19. Filling'
    <2>1. ASSUME NEW p \in 0 .. b
          PROVE  OfferedOp(p)' = [tag |-> (l + 1) - (b + 1) + 1 + p, iov |-> p + 1]
      <3>1. CASE p = b
        <4>1. (l + 1) - (b + 1) + 1 + p = l + 1
          BY <1>3, <3>1
        <4> QED
          BY <1>10, <1>12, <3>1, <4>1
      <3>2. CASE p # b
        <4>1. p \in 0 .. b - 1
          BY <1>3, <3>2
        <4>2. OfferedOp(p) = [tag |-> l - b + 1 + p, iov |-> p + 1]
          BY <1>1, <1>2, <1>3, <4>1 DEF Filling
        <4>3. (l + 1) - (b + 1) + 1 + p = l - b + 1 + p
          BY <1>3
        <4> QED
          BY <1>12, <4>1, <4>2, <4>3
      <3> QED
        BY <3>1, <3>2
    <2>2. b + 1 <= l + 1 /\ 0 .. (b + 1) - 1 = 0 .. b
      BY <1>3, <1>4
    <2> QED
      BY <1>1, <1>3, <1>6, <1>7, <1>12, <2>1, <2>2 DEF Filling
  <1>20. IovecsMade'
    <2>1. ASSUME NEW p \in 1 .. b + 1
          PROVE  iovs'[p].tag = (l + 1) - (b + 1) + p /\ iovs'[p].base = 0
      <3>1. CASE p = b + 1
        BY <1>3, <1>14, <1>16, <3>1
      <3>2. CASE p # b + 1
        <4>1. p \in 1 .. b
          BY <1>3, <3>2
        <4>2. iovs[p].tag = l - b + p /\ iovs[p].base = 0
          BY <1>1, <1>2, <1>3, <4>1 DEF IovecsMade
        <4>3. (l + 1) - (b + 1) + p = l - b + p
          BY <1>3
        <4> QED
          BY <1>16, <4>1, <4>2, <4>3
      <3> QED
        BY <3>1, <3>2
    <2> QED
      BY <1>1, <1>3, <1>7, <2>1 DEF IovecsMade
  <1>21. Waiting' /\ Handed'
    BY <1>1, <1>6 DEF Waiting, Handed
  <1>22. Earlier'
    <2>1. Before = l - b /\ Before' = (l + 1) - (b + 1) /\ (l + 1) - (b + 1) = l - b
      BY <1>1, <1>3, <1>6, <1>7 DEF Before
    <2> QED
      BY <1>1, <1>2, <2>1 DEF Earlier, Settled
  <1> QED
    BY <1>8, <1>12, <1>17, <1>18, <1>19, <1>20, <1>21, <1>22 DEF LoaderInv


LEMMA SubmitKeeps ==
  ASSUME NEW words, RingTyped, LoaderInv(words), AssetsStep, Submit
  PROVE  RingTyped' /\ LoaderInv(words)'
  <1>1. /\ at = "load" /\ out' = <<>> /\ program = "assets"
        /\ UNCHANGED <<frame, loaded, batch, iovs, nIovs, assets, temps, landed>>
        /\ UNCHANGED program
    BY DEF Submit, AssetsStep
  <1>2. /\ LoaderTyped /\ Area(words) /\ Temps /\ Quiet /\ Filling /\ IovecsMade /\ Earlier
    BY DEF LoaderInv
  <1>3. PICK l, b, e :
          /\ l \in Nat /\ l = Loaded /\ e \in Nat /\ e = Entries /\ b \in 0 .. e /\ b = batch
    <2>1. batch \in 0 .. PerFrame /\ PerFrame \in 0 .. Entries /\ Entries \in Nat
      BY <1>2, AssetNumbers
    <2>2. batch \in 0 .. Entries
      BY <2>1
    <2> QED
      BY <1>2, <2>1, <2>2, AssetNumbers
  <1>4. b <= l /\ pending = b /\ nIovs = b /\ Offered = b
    BY <1>1, <1>2, <1>3 DEF Filling
  <1>5. inflight = {} /\ cqTail = cqHead /\ Here = 0
    BY <1>1, <1>2, OfferedIs DEF Quiet
  <1>6. Area(words)' /\ Loaded' = l
    BY <1>1, <1>2, <1>3, AreaKept
  <1>7. CASE batch = 0
    <2>1. at' = "tick" /\ UNCHANGED <<pending, ringVars>>
      BY <1>7 DEF Submit
    <2>2. RingTyped' /\ UNCHANGED <<sqTail, sqHead, cqTail, cqHead, inflight, kept>>
      BY <1>1, <2>1, RingKept DEF ringVars
    <2>3. LoaderTyped' /\ Temps'
      BY <1>1, <1>2, <1>3, <1>6, <2>1, <2>2 DEF LoaderTyped, Temps, IsArena
    <2>4. Quiet'
      <3>1. sqTail = sqHead
        BY <1>3, <1>4, <1>7, OfferedIs
      <3> QED
        BY <1>1, <1>3, <1>4, <1>5, <1>7, <2>1, <2>2, <3>1 DEF Quiet
    <2>5. Filling' /\ IovecsMade' /\ Waiting' /\ Handed'
      BY <2>1 DEF Filling, IovecsMade, Waiting, Handed
    <2>6. Earlier'
      <3>1. Before = l /\ Before' = l
        BY <1>1, <1>3, <1>6, <1>7, <2>1 DEF Before
      <3> QED
        BY <1>1, <1>2, <3>1 DEF Earlier, Settled
    <2> QED
      BY <1>6, <2>2, <2>3, <2>4, <2>5, <2>6 DEF LoaderInv
  <1>8. CASE batch # 0
    <2>1. PICK r \in -1 .. pending :
            /\ Enter(pending, r) /\ UNCHANGED sqTail
            /\ IF r < 0 THEN at' = "panic-enter" /\ UNCHANGED pending
               ELSE at' = "wait" /\ pending' = AfterSubmit
      BY <1>8 DEF Submit
    <2>2. /\ RingTyped' /\ UNCHANGED <<size, sqTail, sqes, cqTail, cqHead, cqes, kept>>
          /\ \E k \in 0 .. b :
               /\ k <= b /\ (r < 0 => kept > 0)
               /\ inflight' = inflight \union Taken(k)
               /\ Offered' = b - k
      <3>1. pending \in Nat /\ r \in Int
        BY <1>3, <1>4, <2>1
      <3> QED
        BY <1>1, <1>4, <2>1, <3>1, EnterTakes
    <2>3. PICK k \in 0 .. b : inflight' = Taken(k) /\ Offered' = b - k /\ (r < 0 => kept > 0)
      BY <1>5, <2>2
    <2>4. kept = 0 /\ ~(r < 0)
      BY <1>2, <2>3 DEF LoaderTyped
    <2>5. at' = "wait" /\ pending' = 0
      BY <2>1, <2>4 DEF AfterSubmit
    <2>6. /\ Cardinality(Taken(k)) = k
          /\ \A o \in Taken(k) : \E p \in 0 .. k - 1 : o.op = OfferedOp(p)
          /\ \A p \in 0 .. k - 1 : \E o \in Taken(k) : o.op = OfferedOp(p)
      <3>1. k \in Nat /\ k < Counters
        <4>1. b \in 0 .. Counters - 1 /\ Counters \in Nat
          BY <1>4, OfferedIs
        <4> QED
          BY <1>3, <2>3, <4>1
      <3> QED
        BY <3>1, TakenIs
    <2>7. \A p \in 0 .. k - 1 : OfferedOp(p) = [tag |-> l - b + 1 + p, iov |-> p + 1]
      <3>1. \A p \in 0 .. k - 1 : p \in 0 .. b - 1
        BY <1>3, <2>3
      <3> QED
        BY <1>1, <1>2, <1>3, <3>1 DEF Filling
    <2>8. LoaderTyped'
      <3>1. 0 \in 0 .. e /\ <<>> \in Seq(Results)
        BY <1>3
      <3> QED
        BY <1>1, <1>2, <1>3, <1>6, <2>2, <2>5, <3>1 DEF LoaderTyped
    <2>9. Temps' /\ Quiet' /\ Filling'
      BY <1>1, <1>2, <2>5 DEF Temps, Quiet, Filling, IsArena
    <2>10. IovecsMade'
      BY <1>1, <1>2, <1>3, <1>6 DEF IovecsMade
    <2>11. Fresh' = l - b + 1 .. l /\ Here' = 0
      BY <1>1, <1>3, <1>5, <1>6, <2>2 DEF Fresh, Here
    <2>12. b = (b - k) + k + 0 + Len(<<>>)
      BY <1>3, <2>3
    <2>13. \A o \in Taken(k) : o.op.tag \in l - b + 1 .. l /\ o.op.iov = o.op.tag - (l - b)
      <3>1. ASSUME NEW o \in Taken(k)
            PROVE  o.op.tag \in l - b + 1 .. l /\ o.op.iov = o.op.tag - (l - b)
        <4>1. PICK p \in 0 .. k - 1 : o.op = [tag |-> l - b + 1 + p, iov |-> p + 1]
          BY <2>6, <2>7
        <4>2. o.op.tag = l - b + 1 + p /\ o.op.iov = p + 1
          BY <4>1
        <4> QED
          BY <1>3, <1>4, <2>3, <4>2
      <3> QED
        BY <3>1
    <2>14. ASSUME b - k = 0, NEW a \in l - b + 1 .. l
           PROVE  \E o \in Taken(k) : o.op.tag = a
      <3>1. PICK p \in 0 .. k - 1 : p = a - (l - b + 1)
        BY <1>3, <1>4, <2>3, <2>14
      <3>2. PICK o \in Taken(k) : o.op = [tag |-> l - b + 1 + p, iov |-> p + 1]
        BY <2>6, <2>7
      <3>3. o.op.tag = a
        BY <1>3, <1>4, <2>14, <3>1, <3>2
      <3> QED
        BY <3>3
    <2>15. Waiting'
      <3>1. batch' = b /\ Loaded' = l /\ b <= l /\ pending' = 0
        BY <1>1, <1>3, <1>4, <1>6, <2>5
      <3>2. batch' = Offered' + Cardinality(inflight') + Here' + Len(out')
        BY <1>1, <2>3, <2>6, <2>11, <2>12, <3>1
      <3>3. \A o \in inflight' : o.op.tag \in Fresh' /\ o.op.iov = o.op.tag - (Loaded' - batch')
        BY <2>3, <2>11, <2>13, <3>1
      <3>4. Offered' = 0 => \A a \in Fresh' : Placed(a)'
        <4>1. ASSUME Offered' = 0, NEW a \in l - b + 1 .. l PROVE Placed(a)'
          <5>1. \E o \in inflight' : o.op.tag = a
            BY <2>3, <2>14, <4>1
          <5> QED
            BY <5>1 DEF Placed
        <4> QED
          BY <2>11, <4>1
      <3>5. 0 .. Here' - 1 = {}
        BY <2>11
      <3> QED
        BY <3>1, <3>2, <3>3, <3>4, <3>5 DEF Waiting
    <2>16. Handed'
      BY <1>1, <2>5 DEF Handed
    <2>17. Earlier'
      <3>1. Before = l - b /\ Before' = l - b
        BY <1>1, <1>3, <1>6, <2>5 DEF Before
      <3> QED
        BY <1>1, <1>2, <3>1 DEF Earlier, Settled
    <2> QED
      BY <1>6, <2>2, <2>8, <2>9, <2>10, <2>15, <2>16, <2>17 DEF LoaderInv
  <1> QED
    BY <1>7, <1>8


(* The numbers of a wait. *)
LEMMA WaitNumbers ==
  ASSUME NEW words, RingTyped, LoaderInv(words), at \in {"wait", "panic-wait"}
  PROVE  /\ Loaded \in Nat /\ Entries \in Nat /\ batch \in 0 .. Entries /\ batch <= Loaded
         /\ Here \in Nat /\ Offered \in Nat /\ Cardinality(inflight) \in Nat /\ Len(out) \in Nat
         /\ batch = Offered + Cardinality(inflight) + Here + Len(out)
         /\ out \in Seq(Results) /\ pending = 0 /\ kept = 0
         /\ Fresh = Loaded - batch + 1 .. Loaded /\ \A a \in Fresh : a \in Assets
         /\ \A a \in 1 .. Loaded - batch : a \in Assets
  <1>1. LoaderTyped /\ Waiting
    BY DEF LoaderInv
  <1>2. PICK n, l, b, per, e :
          /\ n \in Nat /\ n = Cardinality(Assets) /\ Assets = 1 .. n /\ l \in 0 .. n /\ l = Loaded
          /\ b \in 0 .. per /\ b = batch /\ per \in 0 .. e /\ e \in Nat /\ e = Entries
    BY <1>1, AssetNumbers
  <1>3. b \in 0 .. e /\ l \in Nat
    BY <1>2
  <1>4. Here \in Nat /\ Offered \in Nat /\ Cardinality(inflight) \in Nat
    BY OfferedIs
  <1>5. out \in Seq(Results) /\ kept = 0
    BY <1>1 DEF LoaderTyped
  <1>6. Len(out) \in Nat
    BY <1>5
  <1>7. /\ batch <= Loaded /\ pending = 0
        /\ batch = Offered + Cardinality(inflight) + Here + Len(out)
    BY <1>1 DEF Waiting
  <1>8. /\ \A a \in l - b + 1 .. l : a \in 1 .. n
        /\ \A a \in 1 .. l - b : a \in 1 .. n
    BY <1>2, <1>3, <1>7
  <1>9. Fresh = l - b + 1 .. l
    BY <1>2 DEF Fresh
  <1> QED
    BY <1>2, <1>3, <1>4, <1>5, <1>6, <1>7, <1>8, <1>9

LEMMA WaitTurnKeeps ==
  ASSUME NEW words, RingTyped, LoaderInv(words), AssetsStep, WaitTurn
  PROVE  RingTyped' /\ LoaderInv(words)'
  <1>1. /\ at = "wait" /\ program = "assets"
        /\ UNCHANGED <<program, frame, loaded, batch, pending, iovs, assets, temps, landed, size,
                       sqTail, sqHead, sqes, inflight, cqTail, cqes, kept, faults>>
    BY DEF WaitTurn, AssetsStep
  <1>2. /\ LoaderTyped /\ Area(words) /\ Temps /\ IovecsMade /\ Waiting /\ Handed /\ Earlier
    BY DEF LoaderInv
  <1>3. PICK l, b, e, h, f, m, t :
          /\ l \in Nat /\ l = Loaded /\ e \in Nat /\ e = Entries /\ b \in 0 .. e /\ b = batch /\ b <= l
          /\ h \in Nat /\ h = Here /\ f \in Nat /\ f = Offered /\ m \in Nat /\ m = Cardinality(inflight)
          /\ t \in Nat /\ t = Len(out) /\ b = f + m + h + t
          /\ pending = 0 /\ out \in Seq(Results) /\ kept = 0 /\ Fresh = l - b + 1 .. l
    BY <1>1, WaitNumbers
  <1>a. /\ l \in Int /\ b \in Int /\ h \in Int /\ f \in Int /\ m \in Int /\ t \in Int
        /\ b <= l /\ 0 <= h /\ 0 <= f /\ 0 <= m /\ 0 <= t /\ 0 <= b /\ b = f + m + h + t
    <2>1. \A x \in Nat : x \in Int /\ 0 <= x
      OBVIOUS
    <2>2. \A x \in 0 .. e : x \in Int /\ 0 <= x
      BY <1>3
    <2>3. /\ l \in Nat /\ h \in Nat /\ f \in Nat /\ m \in Nat /\ t \in Nat /\ b \in 0 .. e
          /\ b <= l /\ b = f + m + h + t
      BY <1>3, Zenon
    <2> QED
      BY <2>1, <2>2, <2>3, Zenon
  <1>4. /\ h > 0 /\ cqHead' = Plus(cqHead, h)
        /\ out' = out \o [p \in 1 .. h |-> Posted(p - 1)]
        /\ IF Len(out') = batch THEN at' = "check" /\ nIovs' = 0 ELSE UNCHANGED <<at, nIovs>>
    <2>1. PICK n : n = (IF h < b - t THEN h ELSE b - t)
      OBVIOUS
    <2>2. n = h
      BY <1>a, <2>1
    <2>3. /\ n > 0 /\ cqHead' = Plus(cqHead, n)
          /\ out' = out \o [p \in 1 .. n |-> cqes[Plus(cqHead, p - 1) % CqSize]]
          /\ IF Len(out') = batch THEN at' = "check" /\ nIovs' = 0 ELSE UNCHANGED <<at, nIovs>>
      BY <1>3, <2>1 DEF WaitTurn, Here
    <2> QED
      BY <2>2, <2>3 DEF Posted
  <1>5. cqHead' \in 0 .. Counters - 1 /\ Here' = 0
    <2>1. cqHead \in 0 .. Counters - 1 /\ cqTail \in 0 .. Counters - 1 /\ h = Minus(cqTail, cqHead)
      BY <1>3 DEF RingTyped, Here
    <2>2. Plus(cqHead, h) \in 0 .. Counters - 1 /\ Minus(cqTail, Plus(cqHead, h)) = h - h
      <3>1. h \in Nat /\ h <= Minus(cqTail, cqHead)
        BY <1>a, <2>1
      <3>2. Plus(cqHead, h) \in 0 .. Counters - 1 /\ Minus(cqTail, Plus(cqHead, h)) = Minus(cqTail, cqHead) - h
        BY <2>1, <3>1, QueueShrinks
      <3> QED
        BY <2>1, <3>2
    <2>3. h - h = 0
      BY <1>a
    <2> QED
      BY <1>1, <1>4, <2>2, <2>3 DEF Here
  <1>6. RingTyped'
    BY <1>1, <1>5 DEF RingTyped, CqSize
  <1>7. Offered' = f
    BY <1>1, <1>3 DEF Offered
  <1>8. Area(words)' /\ Loaded' = l /\ Fresh' = l - b + 1 .. l
    <2>1. Area(words)' /\ Loaded' = l
      BY <1>1, <1>2, <1>3, AreaKept
    <2> QED
      BY <1>1, <1>3, <2>1 DEF Fresh
  <1>9. \A p \in 0 .. h - 1 : Sound(Posted(p)) /\ Posted(p) \in Results
    <2>1. \A p \in 0 .. h - 1 : Sound(Posted(p))
      BY <1>1, <1>2, <1>3 DEF Waiting
    <2>2. ASSUME NEW p \in 0 .. h - 1 PROVE Posted(p) \in Results
      <3>1. p \in 0 .. Counters
        <4>1. PICK c \in Nat : c = Counters /\ h \in 0 .. c - 1
          BY <1>3, OfferedIs
        <4> QED
          BY <4>1
      <3>2. Plus(cqHead, p) \in Int /\ CqSize \in Nat \ {0}
        <4>1. cqHead \in 0 .. Counters - 1 /\ Counters \in Nat
          BY CountersPositive DEF RingTyped
        <4>2. Plus(cqHead, p) \in 0 .. Counters - 1
          <5>1. PICK c \in 0 .. Counters - 1 : c = cqHead
            BY <4>1
          <5>2. Plus(c, p) \in 0 .. Counters - 1
            BY <3>1, PlusIs
          <5> QED
            BY <5>1, <5>2
        <4>3. Plus(cqHead, p) \in Int
          BY <4>1, <4>2
        <4> QED
          BY <4>3, RingSizes
      <3>3. Plus(cqHead, p) % CqSize \in 0 .. CqSize - 1
        BY <3>2, SlotIn
      <3> QED
        BY <3>3 DEF RingTyped, Posted
    <2> QED
      BY <2>1, <2>2
  <1>10. /\ out' \in Seq(Results) /\ Len(out') = t + h
         /\ \A p \in 1 .. t : out'[p] = out[p]
         /\ \A p \in 0 .. h - 1 : out'[t + p + 1] = Posted(p)
    <2>1. PICK z : z = [p \in 1 .. h |-> Posted(p - 1)]
      OBVIOUS
    <2>2. \A p \in 1 .. h : p - 1 \in 0 .. h - 1
      BY <1>3
    <2>3. z \in Seq(Results) /\ Len(z) = h
      BY <1>3, <1>9, <2>1, <2>2
    <2>4. \A p \in 0 .. h - 1 : p + 1 \in 1 .. h /\ (p + 1) - 1 = p
      BY <1>3
    <2>5. \A p \in 0 .. h - 1 : z[p + 1] = Posted(p)
      BY <2>1, <2>4
    <2>6. out \o z \in Seq(Results) /\ Len(out \o z) = t + h
      <3>1. out \in Seq(Results) /\ z \in Seq(Results)
        BY <1>3, <2>3
      <3>2. out \o z \in Seq(Results) /\ Len(out \o z) = Len(out) + Len(z)
        BY <3>1, ConcatProperties
      <3> QED
        BY <1>3, <2>3, <3>2
    <2>7. \A p \in 1 .. t : (out \o z)[p] = out[p]
      BY <1>3, <2>3
    <2>8. ASSUME NEW p \in 0 .. h - 1 PROVE (out \o z)[t + p + 1] = z[p + 1]
      <3>1. t + p + 1 \in 1 .. t + h /\ t + p + 1 > t /\ (t + p + 1) - t = p + 1
        BY <1>a
      <3>2. PICK k \in Nat : k = t + p + 1 /\ k > Len(out) /\ k <= Len(out) + Len(z) /\ k - Len(out) = p + 1
        BY <1>a, <1>3, <2>3, <3>1
      <3>3. out \in Seq(Results) /\ z \in Seq(Results)
        BY <1>3, <2>3
      <3>4. (out \o z)[k] = z[k - Len(out)]
        BY <3>2, <3>3
      <3> QED
        BY <3>2, <3>4
    <2> QED
      BY <1>4, <2>1, <2>5, <2>6, <2>7, <2>8
  <1>11. (\A p \in DOMAIN out : Sound(out[p]))'
    <2>1. ASSUME NEW p \in DOMAIN out' PROVE Sound(out'[p])
      <3>1. p \in 1 .. t + h
        BY <1>10
      <3>2. CASE p <= t
        <4>1. p \in DOMAIN out /\ out'[p] = out[p]
          <5>1. p \in 1 .. t
            BY <1>a, <3>1, <3>2
          <5>2. DOMAIN out = 1 .. t
            BY <1>3
          <5> QED
            BY <1>10, <5>1, <5>2
        <4> QED
          BY <1>1, <1>2, <4>1 DEF Handed
      <3>3. CASE p > t
        <4>1. PICK j \in 0 .. h - 1 : j = p - t - 1 /\ t + j + 1 = p
          BY <1>a, <3>1, <3>3
        <4> QED
          BY <1>9, <1>10, <4>1
      <3> QED
        BY <1>a, <3>1, <3>2, <3>3
    <2> QED
      BY <1>1, <2>1 DEF Sound, Settled
  <1>12. \A a : Placed(a) => Placed(a)'
    <2>1. ASSUME NEW p \in 0 .. Here - 1
          PROVE  \E j \in DOMAIN out' : out'[j] = Posted(p)
      <3>1. t + p + 1 \in 1 .. t + h /\ p \in 0 .. h - 1
        <4>1. p \in 0 .. h - 1
          BY <1>3
        <4> QED
          BY <1>a, <4>1
      <3>2. t + p + 1 \in DOMAIN out'
        BY <1>10, <3>1
      <3> QED
        BY <1>10, <3>1, <3>2
    <2>2. ASSUME NEW p \in DOMAIN out
          PROVE  \E j \in DOMAIN out' : out'[j] = out[p]
      <3>1. p \in 1 .. t /\ p \in 1 .. t + h
        BY <1>3, SMTT(30)
      <3>2. p \in DOMAIN out'
        BY <1>10, <3>1
      <3> QED
        BY <1>10, <3>1, <3>2
    <2> QED
      BY <1>1, <2>1, <2>2 DEF Placed
  <1>13. Earlier'
    <2>1. Before = l - b /\ Before' = l - b
      BY <1>1, <1>3, <1>4, <1>8 DEF Before
    <2> QED
      BY <1>1, <1>2, <2>1 DEF Earlier, Settled
  <1>14. CASE Len(out') = batch
    <2>1. at' = "check" /\ nIovs' = 0
      BY <1>4, <1>14
    <2>2. f = 0 /\ m = 0 /\ t + h = b
      <3>1. b = batch
        BY <1>3
      <3>2. Len(out') = t + h
        BY <1>10
      <3>3. t + h = b
        BY <1>14, <3>1, <3>2
      <3> QED
        BY <1>a, <3>3
    <2>3. inflight' = {} /\ sqTail' = sqHead' /\ cqTail' = cqHead'
      <3>1. inflight = {} /\ sqTail = sqHead
        BY <1>3, <2>2, OfferedIs
      <3>2. Here' = 0 <=> cqTail' = cqHead'
        <4>1. \A x, y \in 0 .. Counters - 1 : Minus(x, y) = 0 => x = y
          <5>1. ASSUME NEW x \in 0 .. Counters - 1, NEW y \in 0 .. Counters - 1, Minus(x, y) = 0
                PROVE  x = y
            <6>1. Minus(x, y) = (IF x >= y THEN x - y ELSE x - y + Counters)
              BY <5>1, MinusIs
            <6> QED
              BY <5>1, <6>1, CountersPositive
          <5> QED
            BY <5>1
        <4>2. cqTail' \in 0 .. Counters - 1
          BY <1>1 DEF RingTyped
        <4>3. Minus(cqTail', cqHead') = 0
          BY <1>5 DEF Here
        <4>4. cqTail' = cqHead'
          BY <1>5, <4>1, <4>2, <4>3
        <4> QED
          BY <1>5, <4>4
      <3> QED
        BY <1>1, <1>5, <3>1, <3>2
    <2>4. LoaderTyped'
      <3>1. 0 \in 0 .. e
        BY <1>3
      <3> QED
        BY <1>1, <1>2, <1>3, <1>8, <1>10, <2>1, <3>1 DEF LoaderTyped
    <2>5. Temps' /\ Quiet'
      BY <1>1, <1>2, <1>3, <2>1, <2>3 DEF Temps, Quiet, IsArena
    <2>6. Filling' /\ IovecsMade' /\ Waiting'
      BY <2>1 DEF Filling, IovecsMade, Waiting
    <2>7. Handed'
      <3>1. ASSUME NEW a \in l - b + 1 .. l
            PROVE  \E p \in DOMAIN out' : out'[p].tag = a
        <4>1. Placed(a)
          BY <1>1, <1>2, <1>3, <2>2 DEF Waiting
        <4>2. Placed(a)'
          BY <1>12, <4>1
        <4>3. 0 .. Here' - 1 = {}
          BY <1>5
        <4> QED
          BY <2>3, <4>2, <4>3 DEF Placed
      <3> QED
        BY <1>8, <1>11, <3>1 DEF Handed
    <2> QED
      BY <1>6, <1>8, <1>13, <2>4, <2>5, <2>6, <2>7 DEF LoaderInv
  <1>15. CASE Len(out') # batch
    <2>1. at' = "wait" /\ nIovs' = nIovs
      BY <1>1, <1>4, <1>15
    <2>2. LoaderTyped'
      BY <1>1, <1>2, <1>3, <1>8, <1>10, <2>1 DEF LoaderTyped
    <2>3. Temps' /\ Quiet' /\ Filling'
      BY <1>1, <1>2, <2>1 DEF Temps, Quiet, Filling, IsArena
    <2>4. IovecsMade'
      BY <1>1, <1>2, <1>3, <1>8 DEF IovecsMade
    <2>5. Waiting'
      <3>1. batch' = b /\ Loaded' = l /\ b <= l /\ pending' = 0
        BY <1>1, <1>3, <1>8
      <3>2. batch' = Offered' + Cardinality(inflight') + Here' + Len(out')
        <4>1. b = f + m + 0 + (t + h)
          BY <1>a
        <4> QED
          BY <1>1, <1>3, <1>5, <1>7, <1>10, <4>1
      <3>3. \A o \in inflight' : o.op.tag \in Fresh' /\ o.op.iov = o.op.tag - (Loaded' - batch')
        BY <1>1, <1>2, <1>3, <1>8 DEF Waiting
      <3>4. Offered' = 0 => \A a \in Fresh' : Placed(a)'
        <4>1. ASSUME f = 0, NEW a \in l - b + 1 .. l PROVE Placed(a)
          BY <1>1, <1>2, <1>3, <4>1 DEF Waiting
        <4> QED
          BY <1>7, <1>8, <1>12, <4>1
      <3>5. 0 .. Here' - 1 = {}
        BY <1>5
      <3> QED
        BY <3>1, <3>2, <3>3, <3>4, <3>5 DEF Waiting
    <2>6. Handed'
      BY <1>11, <2>1 DEF Handed
    <2> QED
      BY <1>6, <1>8, <1>13, <2>2, <2>3, <2>4, <2>5, <2>6 DEF LoaderInv
  <1> QED
    BY <1>14, <1>15


(* The kernel reads only in a wait, through the iovec that was made for it.   *)
LEMMA KernelReadsKeeps ==
  ASSUME NEW words, RingTyped, LoaderInv(words), AssetsStep, KernelReads
  PROVE  RingTyped' /\ LoaderInv(words)'
  <1>1. program = "assets" /\ program' = program
    BY DEF AssetsStep
  <1>2. /\ LoaderTyped /\ Area(words) /\ Temps /\ Quiet /\ IovecsMade /\ Waiting /\ Handed /\ Earlier
    BY DEF LoaderInv
  <1>3. PICK o \in inflight :
          \/ /\ Complete(o, AssetSize[o.op.tag])
             /\ landed' = [landed EXCEPT ![o.op.tag] = iovs[o.op.iov]]
             /\ UNCHANGED <<at, frame, loaded, batch, pending, iovs, nIovs, out, assets, temps>>
          \/ /\ Complete(o, 0)
             /\ UNCHANGED loaderVars
    BY DEF KernelReads
  <1>4. at \in {"wait", "panic-wait"}
    BY <1>2, <1>3 DEF Quiet, LoaderTyped
  <1>5. PICK l, b, e, h, f, m, t :
          /\ l \in Nat /\ l = Loaded /\ e \in Nat /\ e = Entries /\ b \in 0 .. e /\ b = batch /\ b <= l
          /\ h \in Nat /\ h = Here /\ f \in Nat /\ f = Offered /\ m \in Nat /\ m = Cardinality(inflight)
          /\ t \in Nat /\ t = Len(out) /\ b = f + m + h + t
          /\ pending = 0 /\ out \in Seq(Results) /\ kept = 0 /\ Fresh = l - b + 1 .. l
          /\ (\A a \in Fresh : a \in Assets) /\ \A a \in 1 .. l - b : a \in Assets
    BY <1>4, WaitNumbers
  <1>a. /\ l \in Int /\ b \in Int /\ h \in Int /\ f \in Int /\ m \in Int /\ t \in Int /\ e \in Int
        /\ b <= l /\ b <= e /\ 0 <= h /\ 0 <= f /\ 0 <= m /\ 0 <= t /\ 0 <= b /\ b = f + m + h + t
    <2>1. \A x \in Nat : x \in Int /\ 0 <= x
      OBVIOUS
    <2>2. e \in Nat /\ \A x \in 0 .. e : x \in Int /\ 0 <= x /\ x <= e
      BY <1>5
    <2>3. /\ l \in Nat /\ h \in Nat /\ f \in Nat /\ m \in Nat /\ t \in Nat /\ b \in 0 .. e
          /\ b <= l /\ b = f + m + h + t
      BY <1>5, Zenon
    <2> QED
      BY <2>1, <2>2, <2>3, Zenon
  <1>6. PICK g : /\ g = o.op.tag /\ g \in l - b + 1 .. l /\ g \in Assets
                 /\ o.op.iov = g - (l - b)
    BY <1>2, <1>4, <1>5 DEF Waiting
  <1>7. PICK res \in Nat :
          /\ Complete(o, res)
          /\ UNCHANGED <<at, frame, loaded, batch, pending, iovs, nIovs, out, assets, temps>>
          /\ \/ res = 0 /\ landed' = landed
             \/ landed' = [landed EXCEPT ![g] = iovs[o.op.iov]]
    <2>1. AssetSize[g] \in Nat
      BY <1>6, LoaderAssumption
    <2>2. CASE /\ Complete(o, AssetSize[o.op.tag])
               /\ landed' = [landed EXCEPT ![o.op.tag] = iovs[o.op.iov]]
               /\ UNCHANGED <<at, frame, loaded, batch, pending, iovs, nIovs, out, assets, temps>>
      BY <1>6, <2>1, <2>2
    <2>3. CASE Complete(o, 0) /\ UNCHANGED loaderVars
      BY <2>3 DEF loaderVars
    <2> QED
      BY <1>3, <2>2, <2>3
  <1>8. PICK v : v = iovs[o.op.iov] /\ v \in Buffers /\ v.tag = g /\ v.base = 0
    <2>1. PICK p \in 1 .. b : p = g - (l - b)
      BY <1>a, <1>6
    <2>2. iovs[p].tag = l - b + p /\ iovs[p].base = 0
      BY <1>2, <1>4, <1>5, <2>1 DEF IovecsMade
    <2>3. l - b + p = g
      BY <1>a, <1>6, <2>1
    <2>4. p \in 1 .. e
      BY <1>a, <2>1
    <2>5. iovs[p] \in Buffers
      BY <1>2, <1>5, <2>4 DEF LoaderTyped
    <2> QED
      BY <1>6, <2>1, <2>2, <2>3, <2>5
  <1>9. /\ landed' \in [Assets -> Buffers]
        /\ \A a \in Assets : Settled(a) => Settled(a)'
        /\ res # 0 => Settled(g)'
    <2>1. landed \in [Assets -> Buffers]
      BY <1>2 DEF LoaderTyped
    <2>2. CASE res = 0 /\ landed' = landed
      BY <2>1, <2>2 DEF Settled
    <2>3. CASE landed' = [landed EXCEPT ![g] = v]
      <3>1. /\ landed' \in [Assets -> Buffers] /\ landed'[g] = v
            /\ \A a \in Assets : a # g => landed'[a] = landed[a]
        BY <1>6, <1>8, <2>1, <2>3
      <3>2. Settled(g)'
        BY <1>8, <3>1 DEF Settled
      <3> QED
        BY <3>1, <3>2 DEF Settled
    <2> QED
      BY <1>7, <1>8, <2>2, <2>3
  <1>10. h + 1 < CqSize
    <2>1. CqSize = 2 * e /\ e > 0
      BY <1>1, <1>5, RingSizes
    <2>2. m # 0
      BY <1>3, <1>5, OfferedIs, FS_EmptySet DEF RingTyped
    <2> QED
      BY <1>a, <2>1, <2>2
  <1>11. /\ RingTyped' /\ UNCHANGED <<size, sqTail, sqHead, sqes, cqHead, faults>>
         /\ inflight' = inflight \ {o} /\ Cardinality(inflight') = m - 1
         /\ Here' = h + 1 /\ kept' = kept
         /\ Posted(h)' = [tag |-> g, res |-> res]
         /\ \A p \in 0 .. h - 1 : Posted(p)' = Posted(p)
    <2>1. h \in Nat /\ h = Here
      BY <1>5
    <2> QED
      BY <1>1, <1>5, <1>6, <1>7, <1>10, <2>1, CompletionPosted
  <1>12. Area(words)' /\ Loaded' = l /\ Fresh' = l - b + 1 .. l /\ Offered' = f
    <2>1. Area(words)' /\ Loaded' = l
      BY <1>2, <1>5, <1>7, AreaKept
    <2> QED
      BY <1>5, <1>7, <1>11, <2>1 DEF Fresh, Offered
  <1>13. LoaderTyped'
    BY <1>2, <1>5, <1>7, <1>9, <1>11, <1>12 DEF LoaderTyped
  <1>14. Temps' /\ Quiet' /\ Filling'
    BY <1>2, <1>4, <1>7 DEF Temps, Quiet, Filling, IsArena
  <1>15. IovecsMade'
    BY <1>2, <1>4, <1>5, <1>7, <1>12 DEF IovecsMade
  <1>16. Waiting'
    <2>1. batch' = b /\ Loaded' = l /\ b <= l /\ pending' = 0
      BY <1>5, <1>7, <1>12
    <2>2. batch' = Offered' + Cardinality(inflight') + Here' + Len(out')
      <3>1. b = f + (m - 1) + (h + 1) + t
        BY <1>a
      <3> QED
        BY <1>5, <1>7, <1>11, <1>12, <3>1
    <2>3. \A x \in inflight' : x.op.tag \in Fresh' /\ x.op.iov = x.op.tag - (Loaded' - batch')
      <3>1. \A x \in inflight : x.op.tag \in Fresh /\ x.op.iov = x.op.tag - (Loaded - batch)
        BY <1>2, <1>4 DEF Waiting
      <3> QED
        BY <1>5, <1>11, <1>12, <2>1, <3>1
    <2>4. Offered' = 0 => \A a \in Fresh' : Placed(a)'
      <3>1. ASSUME f = 0, NEW a \in l - b + 1 .. l PROVE Placed(a)'
        <4>1. Placed(a)
          BY <1>2, <1>4, <1>5, <3>1 DEF Waiting
        <4>2. h \in 0 .. (h + 1) - 1 /\ \A p \in 0 .. h - 1 : p \in 0 .. (h + 1) - 1
          BY <1>a
        <4>3. CASE a = g
          <5>1. Posted(h)'.tag = a
            BY <1>11, <4>3
          <5> QED
            BY <1>11, <4>2, <5>1 DEF Placed
        <4>4. CASE \E x \in inflight : x # o /\ x.op.tag = a
          BY <1>11, <4>4 DEF Placed
        <4>5. CASE \E p \in 0 .. h - 1 : Posted(p).tag = a
          <5>1. PICK p \in 0 .. h - 1 : Posted(p).tag = a
            BY <4>5
          <5>2. Posted(p)'.tag = a /\ p \in 0 .. (h + 1) - 1
            BY <1>11, <4>2, <5>1
          <5> QED
            BY <1>11, <5>2 DEF Placed
        <4>6. CASE \E p \in DOMAIN out : out[p].tag = a
          BY <1>7, <4>6 DEF Placed
        <4> QED
          BY <1>5, <1>6, <4>1, <4>3, <4>4, <4>5, <4>6 DEF Placed
      <3> QED
        BY <1>12, <3>1
    <2>5. (\A p \in 0 .. Here - 1 : Sound(Posted(p)))'
      <3>1. ASSUME NEW p \in 0 .. h PROVE Sound(Posted(p))'
        <4>1. CASE p = h
          <5>1. Posted(p)'.tag = g /\ Posted(p)'.res = res
            BY <1>11, <4>1
          <5> QED
            BY <1>6, <1>9, <5>1 DEF Sound, Settled
        <4>2. CASE p # h
          <5>1. p \in 0 .. h - 1
            BY <1>a, <4>2
          <5>2. Sound(Posted(p)) /\ Posted(p)' = Posted(p)
            BY <1>2, <1>4, <1>5, <1>11, <5>1 DEF Waiting
          <5> QED
            BY <1>9, <5>2 DEF Sound, Settled
        <4> QED
          BY <4>1, <4>2
      <3>2. 0 .. (h + 1) - 1 = 0 .. h
        BY <1>a
      <3> QED
        BY <1>11, <3>1, <3>2
    <2> QED
      BY <2>1, <2>2, <2>3, <2>4, <2>5 DEF Waiting
  <1>17. Handed'
    <2>1. \A p \in DOMAIN out : Sound(out[p])
      BY <1>2, <1>4 DEF Handed
    <2>2. (\A p \in DOMAIN out : Sound(out[p]))'
      BY <1>7, <1>9, <2>1 DEF Sound, Settled
    <2> QED
      BY <1>4, <1>7, <2>2 DEF Handed
  <1>18. Earlier'
    <2>1. Before = l - b /\ Before' = l - b
      BY <1>4, <1>5, <1>7, <1>12 DEF Before
    <2>2. \A a \in 1 .. l - b : a \in Assets /\ Settled(a)
      BY <1>2, <1>5, <2>1 DEF Earlier
    <2>3. \A a \in 1 .. l - b : Settled(a)'
      BY <1>9, <2>2
    <2> QED
      BY <2>1, <2>3 DEF Earlier
  <1> QED
    BY <1>11, <1>12, <1>13, <1>14, <1>15, <1>16, <1>17, <1>18 DEF LoaderInv


-----------------------------------------------------------------------------
(* Both programs. *)

LEMMA NothingMoves ==
  ASSUME NEW words, UringInv(words), UNCHANGED uringVars PROVE UringInv(words)'
  <1>1. UNCHANGED <<program, loaderVars, nopVars, ringVars>>
    BY DEF uringVars
  <1>2. RingTyped' /\ Offered' = Offered /\ Here' = Here
        /\ \A p : OfferedOp(p)' = OfferedOp(p) /\ Posted(p)' = Posted(p)
    BY <1>1, RingKept DEF UringInv
  <1>3. NopsInv'
    BY <1>1 DEF UringInv, NopsInv, LoaderStart, loaderVars, nopVars, ringVars
  <1>4. ASSUME program = "assets" PROVE LoaderInv(words)'
    <2>1. LoaderInv(words)
      BY <1>4 DEF UringInv
    <2>2. Loaded' = Loaded /\ Fresh' = Fresh /\ Before' = Before
      BY <1>1 DEF loaderVars, Loaded, Fresh, Before
    <2>3. (\A a : Settled(a)' = Settled(a)) /\ (\A c : Sound(c)' = Sound(c))
      BY <1>1 DEF loaderVars, Settled, Sound
    <2>4. LoaderTyped' /\ Area(words)' /\ Temps' /\ Quiet'
      BY <1>1, <2>1, <2>2
      DEF LoaderInv, LoaderTyped, Area, Temps, Quiet, IsArena, loaderVars, ringVars
    <2>5. Filling' /\ IovecsMade'
      BY <1>1, <1>2, <2>1, <2>2 DEF LoaderInv, Filling, IovecsMade, loaderVars
    <2>6. Waiting'
      <3>1. \A a : Placed(a)' = Placed(a)
        BY <1>1, <1>2 DEF Placed, loaderVars, ringVars
      <3> QED
        BY <1>1, <1>2, <2>1, <2>2, <2>3, <3>1 DEF LoaderInv, Waiting, loaderVars, ringVars
    <2>7. Handed' /\ Earlier'
      BY <1>1, <2>1, <2>2, <2>3 DEF LoaderInv, Handed, Earlier, loaderVars
    <2> QED
      BY <2>4, <2>5, <2>6, <2>7 DEF LoaderInv
  <1> QED
    BY <1>1, <1>2, <1>3, <1>4 DEF UringInv

LEMMA UringStep ==
  ASSUME NEW words, WordsOf(words), UringInv(words), [UringNext]_uringVars PROVE UringInv(words)'
  <1>1. CASE UNCHANGED uringVars
    BY <1>1, NothingMoves
  <1>2. CASE AssetsStep /\ (Main \/ GiveUp \/ KernelReads)
    <2>1. program = "assets" /\ program' = "assets"
      BY <1>2 DEF AssetsStep
    <2>2. RingTyped /\ LoaderInv(words) /\ AssetsStep
      BY <1>2, <2>1 DEF UringInv
    <2>3. RingTyped' /\ LoaderInv(words)'
      <3>1. CASE StartFrame
        BY <2>2, <3>1, StartFrameKeeps
      <3>2. CASE LoadAsset
        BY <2>2, <3>2, LoadAssetKeeps
      <3>3. CASE Submit
        BY <2>2, <3>3, SubmitKeeps
      <3>4. CASE WaitTurn
        BY <2>2, <3>4, WaitTurnKeeps
      <3>5. CASE GiveUp \/ CheckResults \/ Finish
        BY <2>2, <3>5, MovingOnKeeps
      <3>6. CASE Tick
        BY <2>2, <3>6, TickKeeps
      <3>7. CASE KernelReads
        BY <2>2, <3>7, KernelReadsKeeps
      <3> QED
        BY <1>2, <3>1, <3>2, <3>3, <3>4, <3>5, <3>6, <3>7 DEF Main
    <2> QED
      BY <2>1, <2>3 DEF UringInv, NopsInv
  <1>3. CASE NopsStep /\ (NopsMain \/ GiveUpReap \/ KernelNops)
    <2>1. RingTyped' /\ NopsInv'
      BY <1>3, NopsActionKeeps DEF UringInv
    <2> QED
      BY <1>3, <2>1 DEF UringInv, NopsStep
  <1> QED
    BY <1>1, <1>2, <1>3 DEF UringNext

LEMMA NopsFitStep ==
  ASSUME NEW words, UringInv(words), NopsFit, [UringNext]_uringVars PROVE NopsFit'
  <1>1. CASE UNCHANGED uringVars
    BY <1>1 DEF uringVars, nopVars, ringVars, NopsFit, Behind, Offered
  <1>2. CASE AssetsStep
    BY <1>2 DEF AssetsStep, NopsFit
  <1>3. CASE NopsStep /\ (NopsMain \/ GiveUpReap \/ KernelNops)
    BY <1>3, NopsFitKept DEF UringInv
  <1> QED
    BY <1>1, <1>2, <1>3 DEF UringNext

(* What makes the invariant worth having. *)
LEMMA LoaderInvSafe ==
  ASSUME NEW words, UringInv(words) PROVE LoaderSafe
  <1>1. CASE program = "nops"
    <2>1. LoaderStart /\ RingTyped /\ \A o \in inflight : o.op.iov = 0
      BY <1>1 DEF UringInv, NopsInv
    <2>2. LoaderTypeOK
      <3>1. Frames \in Nat /\ Entries \in Nat
        BY LoaderAssumption
      <3>2. 0 \in 0 .. Frames /\ 0 \in 0 .. Entries
        BY <3>1
      <3> QED
        BY <2>1, <3>2 DEF LoaderTypeOK, LoaderStart, RingTyped
    <2>3. IovecsHold /\ BuffersStay /\ TempsDie /\ EndsRight
      BY <2>1 DEF IovecsHold, BuffersStay, TempsDie, EndsRight, LoaderStart, WithCapacity
    <2> QED
      BY <2>2, <2>3 DEF LoaderSafe
  <1>2. CASE program = "assets"
    <2>1. RingTyped /\ LoaderInv(words)
      BY <1>2 DEF UringInv
    <2>2. LoaderTyped /\ Area(words) /\ Temps /\ Quiet /\ Earlier
      BY <2>1 DEF LoaderInv
    <2>3. PICK n, l : n \in Nat /\ n = Cardinality(Assets) /\ Assets = 1 .. n /\ l \in 0 .. n
                      /\ l = Loaded /\ loaded = 1 .. l
      BY <2>2, AssetNumbers
    <2>4. LoaderTypeOK
      <3>1. loaded \subseteq Assets
        <4>1. \A x \in 1 .. l : x \in 1 .. n
          BY <2>3
        <4> QED
          BY <2>3, <4>1, Zenon
      <3> QED
        BY <2>1, <2>2, <3>1 DEF LoaderTypeOK, LoaderTyped, RingTyped
    <2>5. ASSUME NEW o \in inflight
          PROVE  iovs[o.op.iov].tag = o.op.tag /\ iovs[o.op.iov].base = assets.moves
      <3>1. at \in {"wait", "panic-wait"}
        BY <2>2, <2>5 DEF Quiet, LoaderTyped
      <3>2. PICK b, a, p : /\ b \in Nat /\ b = batch /\ b <= l /\ a = o.op.tag /\ p = o.op.iov
                           /\ a \in l - b + 1 .. l /\ p = a - (l - b)
        <4>1. /\ Loaded \in Nat /\ Entries \in Nat /\ batch \in 0 .. Entries /\ batch <= Loaded
              /\ Fresh = Loaded - batch + 1 .. Loaded
          BY <2>1, <3>1, WaitNumbers
        <4>2. batch \in Nat
          BY <4>1
        <4>3. o.op.tag \in Fresh /\ o.op.iov = o.op.tag - (Loaded - batch)
          BY <2>1, <3>1 DEF LoaderInv, Waiting
        <4> QED
          BY <2>3, <4>1, <4>2, <4>3
      <3>3. p \in 1 .. b /\ l - b + p = a
        BY <2>3, <3>2
      <3>4. iovs[p].tag = l - b + p /\ iovs[p].base = 0
        BY <2>1, <2>3, <3>1, <3>2, <3>3 DEF LoaderInv, IovecsMade
      <3> QED
        BY <2>2, <3>2, <3>3, <3>4 DEF Area
    <2>6. IovecsHold /\ BuffersStay
      BY <2>5 DEF IovecsHold, BuffersStay
    <2>7. TempsDie
      BY <2>2 DEF Temps, TempsDie
    <2>8. EndsRight
      <3>1. at \notin {"panic-ring", "panic-enter"}
        BY <2>2 DEF LoaderTyped
      <3>2. ASSUME at = "done" PROVE \A a \in loaded : Settled(a)
        <4>1. Before = l
          BY <2>3, <3>2 DEF Before
        <4> QED
          BY <2>2, <2>3, <4>1 DEF Earlier
      <3> QED
        BY <2>2, <3>1, <3>2 DEF EndsRight, Settled, Area
    <2> QED
      BY <2>4, <2>6, <2>7, <2>8 DEF LoaderSafe
  <1> QED
    BY <1>1, <1>2 DEF UringInv, RingTyped

LEMMA RingFits ==
  ASSUME NEW words, UringInv(words), NopsFit PROVE OneShortCallFits
  <1> SUFFICES ASSUME faults < 2 PROVE SubmissionsFit
    BY DEF OneShortCallFits
  <1>1. CASE program = "nops"
    <2>1. take \in 0 .. Batch /\ Batch \in Nat \ {0} /\ size = 2 * Batch
      BY <1>1, RingAssumption, RingSizes DEF UringInv, NopsInv
    <2>2. PICK b, t, x : /\ b \in Nat /\ b = Batch /\ t \in 0 .. b /\ x \in {0, t} /\ t = take
                         /\ x = (IF nopAt \in {"enter", "panic"} THEN take ELSE 0)
      BY <2>1
    <2>3. PICK y : y = Behind /\ y \in {0, b}
      BY <2>2 DEF Behind
    <2>4. Offered <= y + x /\ Offered \in Int
      <3>1. Offered <= y + x
        BY <1>1, <2>2, <2>3 DEF NopsFit
      <3>2. Offered \in 0 .. Counters - 1 /\ Counters \in Nat
        BY OfferedIs DEF UringInv
      <3> QED
        BY <3>1, <3>2
    <2>5. y + x <= 2 * b
      BY <2>2, <2>3
    <2> QED
      BY <2>1, <2>2, <2>3, <2>4, <2>5 DEF SubmissionsFit
  <1>2. CASE program = "assets"
    <2>1. RingTyped /\ LoaderInv(words) /\ size = Entries
      BY <1>2, RingSizes DEF UringInv
    <2>2. LoaderTyped /\ Quiet /\ Filling /\ Offered \in Nat
      BY <2>1, OfferedIs DEF LoaderInv
    <2>3. CASE at = "load"
      <3>1. Offered = batch /\ batch \in 0 .. PerFrame /\ PerFrame \in 0 .. Entries /\ Entries \in Nat
        BY <2>2, <2>3, AssetNumbers DEF Filling
      <3> QED
        BY <2>1, <3>1 DEF SubmissionsFit
    <2>4. CASE at \in {"wait", "panic-wait"}
      <3>1. PICK m, h, t, f, b, e :
              /\ m \in Nat /\ h \in Nat /\ t \in Nat /\ f \in Nat /\ f = Offered
              /\ b \in 0 .. e /\ e \in Nat /\ e = Entries /\ b = f + m + h + t
        BY <2>1, <2>4, WaitNumbers
      <3>2. f <= e
        BY <3>1
      <3> QED
        BY <2>1, <3>1, <3>2 DEF SubmissionsFit
    <2>5. CASE at \in {"frame", "tick", "check", "done", "panic-short"}
      <3>1. Offered = 0 /\ Entries \in Nat
        BY <2>1, <2>2, <2>5, OfferedIs, LoaderAssumption DEF Quiet
      <3> QED
        BY <2>1, <3>1 DEF SubmissionsFit
    <2> QED
      BY <2>2, <2>3, <2>4, <2>5 DEF LoaderTyped
  <1> QED
    BY <1>1, <1>2 DEF UringInv, RingTyped

(* The arena asked for has room for all assets: game_alloc.rs 67 asks for     *)
(* 65536 words, and its six assets of up to 4351 bytes take at most 3264.    *)
AssetsFit == \E words : WordsOf(words)

(* While the kernel reads an asset, the iovec and the buffer it reads through *)
(* are those of that asset; and a loader that ends has each asset where it    *)
(* was allocated: for all assets, sizes, frames and rings, wherever the       *)
(* counters of the rings wrap, in whichever order reads complete, and however *)
(* few io_uring_enter takes (uring.rs 93-223, game_alloc.rs 57-139).          *)
THEOREM ReadsLandInTheirBuffers ==
  ASSUME AssetsFit PROVE UringSpec => []LoaderSafe
  <1>1. PICK words : WordsOf(words)
    BY DEF AssetsFit
  <1>2. UringInit => UringInv(words)
    BY <1>1, UringStarts
  <1>3. UringInv(words) /\ [UringNext]_uringVars => UringInv(words)'
    BY <1>1, UringStep
  <1>4. UringInv(words) => LoaderSafe
    BY LoaderInvSafe
  <1> QED
    BY <1>2, <1>3, <1>4, PTL DEF UringSpec

(* Until io_uring_enter has taken less than it was offered a second time, no  *)
(* submission is written over one the kernel has not taken: the ring has room *)
(* for two batches, and what one call leaves behind is one batch at most      *)
(* (phase_uring.rs 157-172 and 234, uring.rs 160-193). After the second such  *)
(* call it may be: SubmissionsFit fails.                                      *)
THEOREM RingIsNotOverrun ==
  ASSUME AssetsFit PROVE UringSpec => []OneShortCallFits
  <1>1. PICK words : WordsOf(words)
    BY DEF AssetsFit
  <1>2. UringInit => UringInv(words) /\ NopsFit
    BY <1>1, UringStarts
  <1>3. UringInv(words) /\ NopsFit /\ [UringNext]_uringVars => (UringInv(words) /\ NopsFit)'
    BY <1>1, UringStep, NopsFitStep
  <1>4. UringInv(words) /\ NopsFit => OneShortCallFits
    BY RingFits
  <1> QED
    BY <1>2, <1>3, <1>4, PTL DEF UringSpec


-----------------------------------------------------------------------------
(* A client of the arena. In words, every object ends before the next one     *)
(* begins, and every open mark lies between the objects it was pushed after   *)
(* and those it was pushed before.                                           *)

Word(off) == off \div WordBytes
EndOf(o)  == Word(o.off) + DivCeil(o.bytes, WordBytes)

Objects   == {[off |-> w * WordBytes, bytes |-> n, val |-> v] : w \in Nat, n \in Sizes, v \in Stamps}
OpenMarks == {[mark |-> w * WordBytes, held |-> h] : w \in Nat, h \in Nat}

ObjectsIn(objs, buf) ==
  /\ \A k \in DOMAIN objs :
       EndOf(objs[k]) <= Len(buf) /\ buf[Word(objs[k].off) + 1] = objs[k].val
  /\ \A j, k \in DOMAIN objs : j < k => EndOf(objs[j]) <= Word(objs[k].off)

Between(m, objs, buf) ==
  /\ Word(m.mark) <= Len(buf) /\ m.held <= Len(objs)
  /\ \A k \in DOMAIN objs :
       /\ k <= m.held => EndOf(objs[k]) <= Word(m.mark)
       /\ k > m.held => Word(m.mark) <= Word(objs[k].off)

MarksIn(opens, objs, buf) ==
  /\ \A p \in DOMAIN opens : Between(opens[p], objs, buf)
  /\ \A p, j \in DOMAIN opens :
       p < j => Word(opens[p].mark) <= Word(opens[j].mark) /\ opens[p].held <= opens[j].held

StackIs(marks, opens) ==
  /\ marks = [p \in DOMAIN opens |-> Word(opens[p].mark)]
  /\ \A p, j \in DOMAIN opens : p < j => Word(opens[p].mark) < Word(opens[j].mark)

ClientInv ==
  /\ IsArena(heap, Stamps \union {0}) /\ objects \in Seq(Objects) /\ open \in Seq(OpenMarks)
  /\ ObjectsIn(objects, heap.buf) /\ MarksIn(open, objects, heap.buf)
  /\ ~merged => StackIs(heap.marks, open)


LEMMA WordIs ==
  ASSUME NEW w \in Nat PROVE Word(w * WordBytes) = w
  BY DEF Word, WordBytes

LEMMA ObjectIs ==
  ASSUME NEW o \in Objects
  PROVE  /\ Word(o.off) \in Nat /\ o.off = Word(o.off) * WordBytes /\ o.bytes \in Sizes
         /\ o.val \in Stamps /\ EndOf(o) \in Nat /\ Word(o.off) < EndOf(o)
         /\ o.off + o.bytes <= EndOf(o) * WordBytes
  <1>1. PICK w \in Nat, n \in Sizes, v \in Stamps : o = [off |-> w * WordBytes, bytes |-> n, val |-> v]
    BY DEF Objects
  <1>2. o.off = w * WordBytes /\ o.bytes = n /\ o.val = v
    BY <1>1
  <1>3. Word(o.off) = w
    BY <1>2, WordIs
  <1>4. n \in Nat /\ n >= WordBytes
    BY ClientAssumption
  <1>5. PICK d \in Nat : d = DivCeil(n, WordBytes) /\ n <= d * WordBytes /\ d >= 1
    BY <1>4, DivCeilIs
  <1>6. EndOf(o) = w + d
    BY <1>2, <1>3, <1>5 DEF EndOf
  <1>7. w * WordBytes + n <= (w + d) * WordBytes
    BY <1>4, <1>5 DEF WordBytes
  <1> QED
    BY <1>2, <1>3, <1>5, <1>6, <1>7

LEMMA OpenMarkIs ==
  ASSUME NEW m \in OpenMarks
  PROVE  Word(m.mark) \in Nat /\ m.mark = Word(m.mark) * WordBytes /\ m.held \in Nat
  <1>1. PICK w \in Nat, h \in Nat : m = [mark |-> w * WordBytes, held |-> h]
    BY DEF OpenMarks
  <1> QED
    BY <1>1, WordIs

LEMMA NewObjectKeeps ==
  ASSUME ClientInv, NewObject PROVE ClientInv'
  <1>1. PICK n \in Sizes, v \in Stamps :
          /\ heap' = WriteWord(Alloc(heap, n), MarkOf(heap), v)
          /\ objects' = Append(objects, [off |-> MarkOf(heap), bytes |-> n, val |-> v])
    BY DEF NewObject
  <1>2. UNCHANGED <<open, merged>>
    BY DEF NewObject
  <1>3. PICK Contents : Contents = Stamps \union {0}
    OBVIOUS
  <1>4. PICK buf, objs, l, c :
          /\ buf = heap.buf /\ objs = objects /\ buf \in Seq(Contents) /\ objs \in Seq(Objects)
          /\ l \in Nat /\ l = Len(buf) /\ c \in Nat /\ c = Len(objs)
    <2>1. heap.buf \in Seq(Contents) /\ objects \in Seq(Objects)
      BY <1>3 DEF ClientInv, IsArena
    <2>2. PICK buf, objs : buf = heap.buf /\ objs = objects /\ buf \in Seq(Contents) /\ objs \in Seq(Objects)
      BY <2>1
    <2>3. Len(buf) \in Nat /\ Len(objs) \in Nat
      BY <2>2
    <2> QED
      BY <2>2, <2>3
  <1>5. PICK d \in Nat : d = DivCeil(n, WordBytes) /\ d >= 1 /\ n \in Nat
    <2>1. n \in Nat /\ n >= WordBytes
      BY ClientAssumption
    <2> QED
      BY <2>1, DivCeilIs
  <1>6. PICK a : /\ a = Alloc(heap, n) /\ IsArena(a, Contents) /\ a.marks = heap.marks
                 /\ Len(a.buf) = l + d /\ \A p \in 1 .. l : a.buf[p] = buf[p]
    <2>1. IsArena(heap, Contents) /\ 0 \in Contents
      BY <1>3 DEF ClientInv
    <2>2. /\ IsArena(Alloc(heap, n), Contents) /\ Alloc(heap, n).marks = heap.marks
          /\ Len(Alloc(heap, n).buf) = Len(heap.buf) + DivCeil(n, WordBytes)
          /\ \A p \in 1 .. Len(heap.buf) : Alloc(heap, n).buf[p] = heap.buf[p]
      <3>1. n \in Nat
        BY <1>5
      <3> QED
        BY <2>1, <3>1, AllocIs
    <2> QED
      BY <1>4, <1>5, <2>2
  <1>7. /\ IsArena(heap', Contents) /\ heap'.marks = heap.marks
        /\ heap'.buf = [a.buf EXCEPT ![l + 1] = v]
    <2>1. MarkOf(heap) = l * WordBytes
      BY <1>4 DEF MarkOf
    <2>2. l < Len(a.buf) /\ v \in Contents
      BY <1>3, <1>4, <1>5, <1>6
    <2>3. /\ IsArena(WriteWord(a, l * WordBytes, v), Contents)
          /\ WriteWord(a, l * WordBytes, v).marks = a.marks
          /\ WriteWord(a, l * WordBytes, v).buf = [a.buf EXCEPT ![l + 1] = v]
      BY <1>4, <1>6, <2>2, WriteWordIs
    <2> QED
      BY <1>1, <1>6, <2>1, <2>3
  <1>8. PICK nbuf : /\ nbuf = heap'.buf /\ Len(nbuf) = l + d /\ nbuf[l + 1] = v
                    /\ \A p \in 1 .. l : nbuf[p] = buf[p]
    <2>1. PICK b : b = a.buf /\ b \in Seq(Contents) /\ Len(b) = l + d /\ \A p \in 1 .. l : b[p] = buf[p]
      BY <1>6 DEF IsArena
    <2>2. PICK z : z = heap'.buf /\ z = [b EXCEPT ![l + 1] = v]
      BY <1>7, <2>1
    <2>3. DOMAIN b = 1 .. l + d /\ l + 1 \in 1 .. l + d
      BY <1>4, <1>5, <2>1
    <2>4. z[l + 1] = v /\ DOMAIN z = 1 .. l + d
      BY <2>2, <2>3
    <2>5. ASSUME NEW p \in 1 .. l PROVE z[p] = buf[p]
      <3>1. p # l + 1 /\ p \in 1 .. l + d
        BY <1>4, <1>5
      <3> QED
        BY <2>1, <2>2, <2>3, <3>1
    <2>6. Len(z) = l + d
      BY <1>4, <1>5, <2>1, <2>2
    <2> QED
      BY <2>2, <2>4, <2>5, <2>6
  <1>9. PICK o : /\ o = [off |-> l * WordBytes, bytes |-> n, val |-> v] /\ o \in Objects
                 /\ Word(o.off) = l /\ EndOf(o) = l + d /\ o.val = v
    <2>1. PICK o : o = [off |-> l * WordBytes, bytes |-> n, val |-> v]
      OBVIOUS
    <2>2. o.off = l * WordBytes /\ o.bytes = n /\ o.val = v /\ o \in Objects
      BY <1>4, <2>1 DEF Objects
    <2>3. Word(o.off) = l
      BY <1>4, <2>2, WordIs
    <2> QED
      BY <1>5, <2>1, <2>2, <2>3 DEF EndOf
  <1>10. PICK nobjs : /\ nobjs = objects' /\ nobjs \in Seq(Objects) /\ Len(nobjs) = c + 1
                      /\ nobjs[c + 1] = o /\ \A k \in 1 .. c : nobjs[k] = objs[k]
    <2>1. objects' = Append(objs, o)
      BY <1>1, <1>4, <1>9 DEF MarkOf
    <2>2. PICK nobjs : nobjs = objects' /\ nobjs = Append(objs, o)
      BY <2>1
    <2>3. nobjs \in Seq(Objects) /\ Len(nobjs) = c + 1
      BY <1>4, <1>9, <2>2
    <2>4. nobjs[c + 1] = o /\ \A k \in 1 .. c : nobjs[k] = objs[k]
      BY <1>4, <1>9, <2>2
    <2> QED
      BY <2>2, <2>3, <2>4
  <1>11. /\ DOMAIN objs = 1 .. c /\ DOMAIN nobjs = 1 .. c + 1
         /\ \A k \in 1 .. c : /\ objs[k] \in Objects /\ Word(objs[k].off) \in Nat
                              /\ EndOf(objs[k]) \in Nat /\ Word(objs[k].off) < EndOf(objs[k])
    <2>1. DOMAIN objs = 1 .. c /\ DOMAIN nobjs = 1 .. c + 1
      BY <1>4, <1>10
    <2>2. \A k \in 1 .. c : objs[k] \in Objects
      BY <1>4
    <2> QED
      BY <2>1, <2>2, ObjectIs
  <1>12. ObjectsIn(objs, buf)
    BY <1>4 DEF ClientInv
  <1>13. ObjectsIn(nobjs, nbuf)
    <2>1. ASSUME NEW k \in 1 .. c + 1
          PROVE  EndOf(nobjs[k]) <= Len(nbuf) /\ nbuf[Word(nobjs[k].off) + 1] = nobjs[k].val
      <3>1. CASE k = c + 1
        BY <1>4, <1>5, <1>8, <1>9, <1>10, <3>1, SMTT(30)
      <3>2. CASE k # c + 1
        <4>1. k \in 1 .. c
          BY <1>4, <3>2
        <4>2. EndOf(objs[k]) <= l /\ buf[Word(objs[k].off) + 1] = objs[k].val
          BY <1>4, <1>11, <1>12, <4>1 DEF ObjectsIn
        <4>3. Word(objs[k].off) + 1 \in 1 .. l
          BY <1>4, <1>11, <4>1, <4>2
        <4>4. EndOf(objs[k]) <= l + d
          BY <1>4, <1>5, <1>11, <4>1, <4>2, SMTT(30)
        <4> QED
          BY <1>8, <1>10, <4>1, <4>2, <4>3, <4>4
      <3> QED
        BY <3>1, <3>2
    <2>2. ASSUME NEW j \in 1 .. c + 1, NEW k \in 1 .. c + 1, j < k
          PROVE  EndOf(nobjs[j]) <= Word(nobjs[k].off)
      <3>1. j \in 1 .. c
        BY <1>4, <2>2
      <3>2. CASE k = c + 1
        <4>1. EndOf(objs[j]) <= Len(buf)
          BY <1>11, <1>12, <3>1 DEF ObjectsIn
        <4>2. nobjs[j] = objs[j] /\ Word(nobjs[k].off) = l
          BY <1>9, <1>10, <3>1, <3>2
        <4> QED
          BY <1>4, <4>1, <4>2
      <3>3. CASE k # c + 1
        <4>1. k \in 1 .. c
          BY <1>4, <3>3
        <4> QED
          BY <1>10, <1>11, <1>12, <2>2, <3>1, <4>1 DEF ObjectsIn
      <3> QED
        BY <3>2, <3>3
    <2> QED
      BY <1>11, <2>1, <2>2 DEF ObjectsIn
  <1>14. MarksIn(open, nobjs, nbuf)
    <2>1. MarksIn(open, objs, buf) /\ open \in Seq(OpenMarks)
      BY <1>4 DEF ClientInv
    <2>2. ASSUME NEW p \in DOMAIN open PROVE Between(open[p], nobjs, nbuf)
      <3>1. PICK m : m = open[p] /\ Between(m, objs, buf) /\ m \in OpenMarks
        BY <2>1, <2>2 DEF MarksIn
      <3>2. Word(m.mark) \in Nat /\ m.held \in Nat /\ Word(m.mark) <= l /\ m.held <= c
        BY <1>4, <3>1, OpenMarkIs DEF Between
      <3>3. ASSUME NEW k \in 1 .. c + 1
            PROVE  /\ k <= m.held => EndOf(nobjs[k]) <= Word(m.mark)
                   /\ k > m.held => Word(m.mark) <= Word(nobjs[k].off)
        <4>1. CASE k = c + 1
          BY <1>4, <1>9, <1>10, <3>2, <4>1
        <4>2. CASE k # c + 1
          <5>1. k \in 1 .. c
            BY <1>4, <4>2
          <5> QED
            BY <1>10, <1>11, <3>1, <5>1 DEF Between
        <4> QED
          BY <4>1, <4>2
      <3>4. Word(m.mark) <= Len(nbuf) /\ m.held <= Len(nobjs)
        BY <1>4, <1>5, <1>8, <1>10, <3>2, SMTT(30)
      <3> QED
        BY <1>11, <3>1, <3>3, <3>4 DEF Between
    <2> QED
      BY <2>1, <2>2 DEF MarksIn
  <1> QED
    BY <1>2, <1>3, <1>7, <1>8, <1>10, <1>13, <1>14 DEF ClientInv, IsArena


LEMMA OverwriteKeeps ==
  ASSUME ClientInv, Overwrite PROVE ClientInv'
  <1>1. PICK k \in DOMAIN objects, v \in Stamps :
          /\ heap' = WriteWord(heap, objects[k].off, v)
          /\ objects' = [objects EXCEPT ![k].val = v]
    BY DEF Overwrite
  <1>2. UNCHANGED <<open, merged>>
    BY DEF Overwrite
  <1>3. PICK Contents : Contents = Stamps \union {0}
    OBVIOUS
  <1>4. PICK buf, objs : buf = heap.buf /\ objs = objects /\ buf \in Seq(Contents) /\ objs \in Seq(Objects)
    <2>1. heap.buf \in Seq(Contents) /\ objects \in Seq(Objects)
      BY <1>3 DEF ClientInv, IsArena
    <2> QED
      BY <2>1
  <1>5. PICK l, c : l \in Nat /\ l = Len(buf) /\ c \in Nat /\ c = Len(objs) /\ DOMAIN objs = 1 .. c
    <2>1. Len(buf) \in Nat /\ Len(objs) \in Nat /\ DOMAIN objs = 1 .. Len(objs)
      BY <1>4
    <2> QED
      BY <2>1
  <1>6. \A j \in 1 .. c : /\ objs[j] \in Objects /\ Word(objs[j].off) \in Nat
                          /\ EndOf(objs[j]) \in Nat /\ Word(objs[j].off) < EndOf(objs[j])
    <2>1. \A j \in 1 .. c : objs[j] \in Objects
      BY <1>4, <1>5
    <2> QED
      BY <2>1, ObjectIs
  <1>7. ObjectsIn(objs, buf) /\ MarksIn(open, objs, buf)
    BY <1>4 DEF ClientInv
  <1>8. PICK w : /\ w = Word(objs[k].off) /\ w \in Nat /\ w < l /\ objs[k].off = w * WordBytes
                 /\ k \in 1 .. c
    <2>1. k \in 1 .. c
      BY <1>1, <1>4, <1>5
    <2>2. EndOf(objs[k]) <= l /\ objs[k].off = Word(objs[k].off) * WordBytes
      BY <1>5, <1>6, <1>7, <2>1, ObjectIs DEF ObjectsIn
    <2>3. Word(objs[k].off) < l
      BY <1>5, <1>6, <2>1, <2>2
    <2> QED
      BY <1>6, <2>1, <2>2, <2>3
  <1>9. IsArena(heap', Contents) /\ heap'.marks = heap.marks /\ heap'.buf = [buf EXCEPT ![w + 1] = v]
    <2>1. IsArena(heap, Contents) /\ v \in Contents /\ w < Len(heap.buf)
      BY <1>3, <1>4, <1>5, <1>8 DEF ClientInv
    <2>2. /\ IsArena(WriteWord(heap, w * WordBytes, v), Contents)
          /\ WriteWord(heap, w * WordBytes, v).marks = heap.marks
          /\ WriteWord(heap, w * WordBytes, v).buf = [heap.buf EXCEPT ![w + 1] = v]
      BY <1>8, <2>1, WriteWordIs
    <2> QED
      BY <1>1, <1>4, <1>8, <2>2
  <1>10. PICK nbuf : /\ nbuf = heap'.buf /\ Len(nbuf) = l /\ nbuf[w + 1] = v
                     /\ \A p \in 1 .. l : p # w + 1 => nbuf[p] = buf[p]
    <2>1. PICK z : z = heap'.buf /\ z = [buf EXCEPT ![w + 1] = v]
      BY <1>9
    <2>2. w + 1 \in 1 .. l /\ DOMAIN buf = 1 .. l
      BY <1>4, <1>5, <1>8
    <2>3. Len(z) = l
      BY <1>4, <1>5, <2>1
    <2> QED
      BY <2>1, <2>2, <2>3
  <1>11. PICK o : /\ o \in Objects /\ o.off = objs[k].off /\ o.bytes = objs[k].bytes /\ o.val = v
                  /\ o = [objs[k] EXCEPT !.val = v]
    <2>1. PICK x \in Nat, n \in Sizes, y \in Stamps : objs[k] = [off |-> x * WordBytes, bytes |-> n, val |-> y]
      BY <1>6, <1>8 DEF Objects
    <2>2. PICK o : o = [off |-> x * WordBytes, bytes |-> n, val |-> v]
      OBVIOUS
    <2>3. o \in Objects
      BY <2>2 DEF Objects
    <2>4. o = [objs[k] EXCEPT !.val = v] /\ o.off = objs[k].off /\ o.bytes = objs[k].bytes /\ o.val = v
      BY <2>1, <2>2
    <2> QED
      BY <2>3, <2>4
  <1>12. PICK nobjs : /\ nobjs = objects' /\ nobjs \in Seq(Objects) /\ Len(nobjs) = c
                      /\ DOMAIN nobjs = 1 .. c /\ nobjs[k] = o
                      /\ \A j \in 1 .. c : j # k => nobjs[j] = objs[j]
    <2>1. PICK nobjs : nobjs = objects' /\ nobjs = [objs EXCEPT ![k] = o]
      BY <1>1, <1>4, <1>11
    <2>2. nobjs \in Seq(Objects) /\ Len(nobjs) = c
      BY <1>4, <1>5, <1>11, <2>1
    <2>3. DOMAIN nobjs = 1 .. c /\ nobjs[k] = o /\ \A j \in 1 .. c : j # k => nobjs[j] = objs[j]
      BY <1>4, <1>5, <1>8, <2>1
    <2> QED
      BY <2>1, <2>2, <2>3
  <1>13. \A j \in 1 .. c : Word(nobjs[j].off) = Word(objs[j].off) /\ EndOf(nobjs[j]) = EndOf(objs[j])
    <2>1. Word(o.off) = Word(objs[k].off) /\ EndOf(o) = EndOf(objs[k])
      BY <1>11 DEF EndOf
    <2> QED
      BY <1>12, <2>1
  <1>14. ObjectsIn(nobjs, nbuf)
    <2>1. ASSUME NEW j \in 1 .. c PROVE nbuf[Word(nobjs[j].off) + 1] = nobjs[j].val
      <3>1. CASE j = k
        BY <1>8, <1>10, <1>11, <1>12, <3>1
      <3>2. CASE j # k
        <4>1. buf[Word(objs[j].off) + 1] = objs[j].val /\ EndOf(objs[j]) <= l
          BY <1>5, <1>7 DEF ObjectsIn
        <4>2. j < k => EndOf(objs[j]) <= w
          BY <1>5, <1>7, <1>8 DEF ObjectsIn
        <4>3. k < j => EndOf(objs[k]) <= Word(objs[j].off)
          BY <1>5, <1>7, <1>8 DEF ObjectsIn
        <4>4. j < k \/ k < j
          BY <1>5, <1>8, <3>2
        <4>5. PICK x, y, z \in Nat : /\ x = Word(objs[j].off) /\ y = EndOf(objs[j]) /\ x < y
                                     /\ z = EndOf(objs[k]) /\ w < z
          BY <1>6, <1>8
        <4>6. x # w /\ x < l
          BY <1>5, <1>8, <4>1, <4>2, <4>3, <4>4, <4>5
        <4>7. x + 1 \in 1 .. l /\ x + 1 # w + 1
          BY <1>5, <1>8, <4>5, <4>6
        <4> QED
          BY <1>10, <1>12, <1>13, <3>2, <4>1, <4>5, <4>7
      <3> QED
        BY <3>1, <3>2
    <2>2. \A j \in 1 .. c : EndOf(nobjs[j]) <= Len(nbuf)
      BY <1>5, <1>7, <1>10, <1>13 DEF ObjectsIn
    <2>3. \A p, j \in 1 .. c : p < j => EndOf(nobjs[p]) <= Word(nobjs[j].off)
      BY <1>5, <1>7, <1>13 DEF ObjectsIn
    <2> QED
      BY <1>12, <2>1, <2>2, <2>3 DEF ObjectsIn
  <1>15. MarksIn(open, nobjs, nbuf)
    <2>1. ASSUME NEW m, Between(m, objs, buf) PROVE Between(m, nobjs, nbuf)
      BY <1>5, <1>10, <1>12, <1>13, <2>1 DEF Between
    <2> QED
      BY <1>7, <2>1 DEF MarksIn
  <1> QED
    BY <1>2, <1>3, <1>9, <1>10, <1>12, <1>14, <1>15 DEF ClientInv, IsArena

LEMMA OpenMarkKeeps ==
  ASSUME ClientInv, OpenMark PROVE ClientInv'
  <1>1. /\ heap' = PushMark(heap)
        /\ open' = Append(open, [mark |-> MarkOf(heap), held |-> Len(objects)])
        /\ merged' = (merged \/ \E k \in DOMAIN open : open[k].mark = MarkOf(heap))
        /\ UNCHANGED objects
    BY DEF OpenMark
  <1>2. PICK Contents : Contents = Stamps \union {0}
    OBVIOUS
  <1>3. PICK buf, objs, opens, marks :
          /\ buf = heap.buf /\ objs = objects /\ opens = open /\ marks = heap.marks
          /\ buf \in Seq(Contents) /\ objs \in Seq(Objects) /\ opens \in Seq(OpenMarks)
          /\ ObjectsIn(objs, buf) /\ MarksIn(opens, objs, buf)
    <2>1. heap.buf \in Seq(Contents) /\ objects \in Seq(Objects) /\ open \in Seq(OpenMarks)
      BY <1>2 DEF ClientInv, IsArena
    <2> QED
      BY <2>1 DEF ClientInv
  <1>4. PICK l, c, d : /\ l \in Nat /\ l = Len(buf) /\ c \in Nat /\ c = Len(objs)
                       /\ d \in Nat /\ d = Len(opens) /\ DOMAIN opens = 1 .. d /\ DOMAIN objs = 1 .. c
    <2>1. Len(buf) \in Nat /\ Len(objs) \in Nat /\ Len(opens) \in Nat
      BY <1>3
    <2>2. DOMAIN opens = 1 .. Len(opens) /\ DOMAIN objs = 1 .. Len(objs)
      BY <1>3
    <2> QED
      BY <2>1, <2>2
  <1>5. IsArena(heap', Contents) /\ heap'.buf = buf /\ heap'.marks = Append(marks, l)
    <2>1. IsArena(heap, Contents)
      BY <1>2 DEF ClientInv
    <2>2. heap' = [heap EXCEPT !.marks = Append(marks, l)]
      BY <1>1, <1>3, <1>4 DEF PushMark
    <2>3. PICK a, k : a = heap /\ k = Append(marks, l) /\ IsArena(a, Contents) /\ heap' = [a EXCEPT !.marks = k]
      BY <2>1, <2>2
    <2>4. /\ IsArena([a EXCEPT !.marks = k], Contents)
          /\ [a EXCEPT !.marks = k].buf = a.buf /\ [a EXCEPT !.marks = k].marks = k
      <3>1. IsArena(a, Contents)
        BY <2>3
      <3> QED
        BY <3>1, MarksIs
    <2> QED
      BY <1>3, <2>3, <2>4
  <1>6. PICK m : /\ m = [mark |-> l * WordBytes, held |-> c] /\ m \in OpenMarks
                 /\ Word(m.mark) = l /\ m.held = c
    <2>1. PICK m : m = [mark |-> l * WordBytes, held |-> c]
      OBVIOUS
    <2>2. m \in OpenMarks /\ m.mark = l * WordBytes /\ m.held = c
      BY <1>4, <2>1 DEF OpenMarks
    <2> QED
      BY <1>4, <2>1, <2>2, WordIs
  <1>7. PICK nopens : /\ nopens = open' /\ nopens \in Seq(OpenMarks) /\ DOMAIN nopens = 1 .. d + 1
                      /\ Len(nopens) = d + 1
                      /\ nopens[d + 1] = m /\ \A p \in 1 .. d : nopens[p] = opens[p]
    <2>1. PICK nopens : nopens = open' /\ nopens = Append(opens, m)
      BY <1>1, <1>3, <1>4, <1>6 DEF MarkOf
    <2>2. nopens \in Seq(OpenMarks) /\ Len(nopens) = d + 1
      BY <1>3, <1>4, <1>6, <2>1
    <2>3. nopens[d + 1] = m /\ \A p \in 1 .. d : nopens[p] = opens[p]
      BY <1>3, <1>4, <1>6, <2>1
    <2>4. DOMAIN nopens = 1 .. d + 1
      BY <2>2
    <2> QED
      BY <2>1, <2>2, <2>3, <2>4
  <1>8. \A p \in 1 .. d : /\ Word(opens[p].mark) \in Nat /\ opens[p].held \in Nat
                          /\ Word(opens[p].mark) <= l /\ opens[p].held <= c
                          /\ opens[p].mark = Word(opens[p].mark) * WordBytes
    <2>1. \A p \in 1 .. d : opens[p] \in OpenMarks
      BY <1>3, <1>4
    <2>2. \A p \in 1 .. d : Word(opens[p].mark) <= l /\ opens[p].held <= c
      BY <1>3, <1>4 DEF MarksIn, Between
    <2> QED
      BY <2>1, <2>2, OpenMarkIs
  <1>9. MarksIn(nopens, objs, buf)
    <2>1. Between(m, objs, buf)
      BY <1>3, <1>4, <1>6 DEF Between, ObjectsIn
    <2>2. \A p \in 1 .. d + 1 : Between(nopens[p], objs, buf)
      <3>1. \A p \in 1 .. d : Between(opens[p], objs, buf)
        BY <1>3, <1>4 DEF MarksIn
      <3>2. \A p \in 1 .. d + 1 : p = d + 1 \/ p \in 1 .. d
        BY <1>4
      <3> QED
        BY <1>7, <2>1, <3>1, <3>2
    <2>3. ASSUME NEW p \in 1 .. d + 1, NEW j \in 1 .. d + 1, p < j
          PROVE  Word(nopens[p].mark) <= Word(nopens[j].mark) /\ nopens[p].held <= nopens[j].held
      <3>1. p \in 1 .. d
        BY <1>4, <2>3
      <3>2. CASE j = d + 1
        BY <1>6, <1>7, <1>8, <3>1, <3>2
      <3>3. CASE j # d + 1
        <4>1. j \in 1 .. d
          BY <1>4, <3>3
        <4> QED
          BY <1>3, <1>4, <1>7, <2>3, <3>1, <4>1 DEF MarksIn
      <3> QED
        BY <3>2, <3>3
    <2> QED
      BY <1>7, <2>2, <2>3 DEF MarksIn
  <1>10. ASSUME ~merged' PROVE StackIs(Append(marks, l), nopens)
    <2>1. ~merged /\ \A p \in 1 .. d : opens[p].mark # l * WordBytes
      BY <1>1, <1>3, <1>4, <1>10 DEF MarkOf
    <2>2. StackIs(marks, opens)
      BY <1>3, <2>1 DEF ClientInv
    <2>3. marks = [p \in 1 .. d |-> Word(opens[p].mark)]
      BY <1>4, <2>2 DEF StackIs
    <2>4. \A p \in 1 .. d : Word(opens[p].mark) < l
      BY <1>4, <1>8, <2>1
    <2>5. PICK nm : nm = Append(marks, l)
      OBVIOUS
    <2>6. marks \in Seq(Nat) /\ Len(marks) = d
      BY <1>4, <1>8, <2>3
    <2>7. nm = [p \in 1 .. d + 1 |-> IF p = d + 1 THEN l ELSE marks[p]]
      <3>1. DOMAIN nm = 1 .. d + 1
        BY <1>4, <2>5, <2>6
      <3>2. nm[d + 1] = l /\ \A p \in 1 .. d : nm[p] = marks[p]
        BY <1>4, <2>5, <2>6
      <3>3. \A p \in 1 .. d + 1 : nm[p] = IF p = d + 1 THEN l ELSE marks[p]
        BY <1>4, <3>2
      <3>4. nm \in Seq(Nat)
        BY <1>4, <2>5, <2>6
      <3>5. nm = [p \in DOMAIN nm |-> nm[p]]
        BY <3>4
      <3> QED
        BY <3>1, <3>3, <3>5
    <2>8. \A p \in 1 .. d + 1 : nm[p] = Word(nopens[p].mark)
      <3>1. ASSUME NEW p \in 1 .. d + 1 PROVE nm[p] = Word(nopens[p].mark)
        <4>1. CASE p = d + 1
          BY <1>6, <1>7, <2>7, <4>1
        <4>2. CASE p # d + 1
          <5>1. p \in 1 .. d
            BY <1>4, <4>2
          <5> QED
            BY <1>7, <2>3, <2>7, <4>2, <5>1
        <4> QED
          BY <4>1, <4>2
      <3> QED
        BY <3>1
    <2>9. nm = [p \in 1 .. d + 1 |-> Word(nopens[p].mark)]
      BY <2>7, <2>8
    <2>10. ASSUME NEW p \in 1 .. d + 1, NEW j \in 1 .. d + 1, p < j
           PROVE  Word(nopens[p].mark) < Word(nopens[j].mark)
      <3>1. p \in 1 .. d
        BY <1>4, <2>10
      <3>2. CASE j = d + 1
        BY <1>6, <1>7, <2>4, <3>1, <3>2
      <3>3. CASE j # d + 1
        <4>1. j \in 1 .. d
          BY <1>4, <3>3
        <4> QED
          BY <1>4, <1>7, <2>2, <2>10, <3>1, <4>1 DEF StackIs
      <3> QED
        BY <3>2, <3>3
    <2> QED
      BY <1>7, <2>5, <2>9, <2>10 DEF StackIs
  <1> QED
    BY <1>1, <1>2, <1>3, <1>5, <1>7, <1>9, <1>10 DEF ClientInv, IsArena


(* Of marks that increase, those below the k-th are the k - 1 before it.      *)
LEMMA MarksBelowIs ==
  ASSUME NEW opens \in Seq(OpenMarks), NEW marks, StackIs(marks, opens), NEW k \in DOMAIN opens
  PROVE  MarksBelow(marks, Word(opens[k].mark)) =
           [p \in 1 .. k - 1 |-> Word(opens[p].mark)]
  <1>1. PICK d : d \in Nat /\ d = Len(opens) /\ DOMAIN opens = 1 .. d /\ k \in 1 .. d
    <2>1. Len(opens) \in Nat /\ DOMAIN opens = 1 .. Len(opens)
      OBVIOUS
    <2> QED
      BY <2>1
  <1>2. PICK f : /\ f = [p \in 1 .. d |-> Word(opens[p].mark)] /\ f = marks /\ f \in Seq(Nat)
                 /\ Len(f) = d /\ \A p, j \in 1 .. d : p < j => f[p] < f[j]
    <2>1. \A p \in 1 .. d : Word(opens[p].mark) \in Nat
      <3>1. \A p \in 1 .. d : opens[p] \in OpenMarks
        BY <1>1
      <3> QED
        BY <3>1, OpenMarkIs
    <2>2. PICK f : f = [p \in 1 .. d |-> Word(opens[p].mark)] /\ f = marks
      BY <1>1 DEF StackIs
    <2>3. f \in Seq(Nat) /\ Len(f) = d
      BY <1>1, <2>1, <2>2
    <2>4. \A p, j \in 1 .. d : p < j => f[p] < f[j]
      BY <1>1, <2>2, SMTT(30) DEF StackIs
    <2> QED
      BY <2>2, <2>3, <2>4
  <1>3. PICK keep : keep = {p \in DOMAIN f : f[p] < f[k]}
    OBVIOUS
  <1>4. keep = 1 .. k - 1
    <2>1. ASSUME NEW p \in 1 .. d PROVE f[p] < f[k] <=> p < k
      <3>1. f[p] \in Nat /\ f[k] \in Nat
        BY <1>1, <1>2
      <3>2. p < k => f[p] < f[k]
        BY <1>1, <1>2
      <3>3. k < p => f[k] < f[p]
        BY <1>1, <1>2
      <3> QED
        BY <1>1, <3>1, <3>2, <3>3
    <2>2. DOMAIN f = 1 .. d
      BY <1>2
    <2> QED
      BY <1>1, <1>3, <2>1, <2>2
  <1>5. MarksBelow(f, f[k]) = IF keep = {} THEN <<>>
                              ELSE SubSeq(f, 1, CHOOSE p \in keep : \A j \in keep : j <= p)
    BY <1>3 DEF MarksBelow
  <1>6. f[k] = Word(opens[k].mark)
    BY <1>1, <1>2
  <1>7. CASE k = 1
    <2>1. keep = {}
      BY <1>4, <1>7
    <2>2. [p \in 1 .. k - 1 |-> Word(opens[p].mark)] = <<>>
      BY <1>7
    <2> QED
      BY <1>2, <1>5, <1>6, <2>1, <2>2
  <1>8. CASE k # 1
    <2>1. k - 1 \in keep /\ \A j \in keep : j <= k - 1
      BY <1>1, <1>4, <1>8
    <2>2. \A p \in keep : (\A j \in keep : j <= p) => p = k - 1
      BY <1>1, <1>4, <2>1
    <2>3. (CHOOSE p \in keep : \A j \in keep : j <= p) = k - 1
      BY <2>1, <2>2
    <2>4. MarksBelow(f, f[k]) = SubSeq(f, 1, k - 1)
      BY <1>5, <2>1, <2>3
    <2>5. SubSeq(f, 1, k - 1) = [p \in 1 .. k - 1 |-> f[p]]
      BY <1>1, <1>2, <1>8
    <2>6. [p \in 1 .. k - 1 |-> f[p]] = [p \in 1 .. k - 1 |-> Word(opens[p].mark)]
      <3>1. \A p \in 1 .. k - 1 : p \in 1 .. d
        BY <1>1
      <3>2. \A p \in 1 .. k - 1 : f[p] = Word(opens[p].mark)
        BY <1>2, <3>1
      <3> QED
        BY <3>2
    <2> QED
      BY <1>2, <1>6, <2>4, <2>5, <2>6
  <1> QED
    BY <1>7, <1>8

LEMMA RollbackToKeeps ==
  ASSUME ClientInv, RollbackTo PROVE ClientInv'
  <1>1. PICK k \in DOMAIN open :
          /\ heap' = Rollback(heap, open[k].mark)
          /\ objects' = SubSeq(objects, 1, open[k].held)
          /\ open' = SubSeq(open, 1, k - 1)
    BY DEF RollbackTo
  <1>2. PICK Contents : Contents = Stamps \union {0}
    OBVIOUS
  <1>3. PICK buf, objs, opens, marks :
          /\ buf = heap.buf /\ objs = objects /\ opens = open /\ marks = heap.marks
          /\ buf \in Seq(Contents) /\ objs \in Seq(Objects) /\ opens \in Seq(OpenMarks)
          /\ ObjectsIn(objs, buf) /\ MarksIn(opens, objs, buf)
    <2>1. heap.buf \in Seq(Contents) /\ objects \in Seq(Objects) /\ open \in Seq(OpenMarks)
      BY <1>2 DEF ClientInv, IsArena
    <2> QED
      BY <2>1 DEF ClientInv
  <1>4. PICK l, c, d : /\ l \in Nat /\ l = Len(buf) /\ c \in Nat /\ c = Len(objs) /\ DOMAIN objs = 1 .. c
                       /\ d \in Nat /\ d = Len(opens) /\ DOMAIN opens = 1 .. d /\ k \in 1 .. d
    <2>1. Len(buf) \in Nat /\ Len(objs) \in Nat /\ Len(opens) \in Nat
      BY <1>3
    <2>2. DOMAIN opens = 1 .. Len(opens) /\ DOMAIN objs = 1 .. Len(objs)
      BY <1>3
    <2> QED
      BY <1>1, <1>3, <2>1, <2>2
  <1>5. PICK w, h : /\ w \in Nat /\ w = Word(opens[k].mark) /\ w <= l /\ opens[k].mark = w * WordBytes
                    /\ h \in Nat /\ h = opens[k].held /\ h <= c
    <2>1. opens[k] \in OpenMarks
      BY <1>3, <1>4
    <2>2. Between(opens[k], objs, buf)
      BY <1>3, <1>4 DEF MarksIn
    <2> QED
      BY <1>4, <2>1, <2>2, OpenMarkIs DEF Between
  <1>6. IsArena(heap', Contents) /\ heap'.buf = SubSeq(buf, 1, w) /\ heap'.marks = MarksBelow(marks, w)
    <2>1. IsArena(heap, Contents) /\ w <= Len(heap.buf)
      BY <1>2, <1>3, <1>4, <1>5 DEF ClientInv
    <2>2. /\ IsArena(Rollback(heap, w * WordBytes), Contents)
          /\ Rollback(heap, w * WordBytes).buf = SubSeq(heap.buf, 1, w)
          /\ Rollback(heap, w * WordBytes).marks = MarksBelow(heap.marks, w)
      BY <1>5, <2>1, RollbackIs
    <2> QED
      BY <1>1, <1>3, <1>5, <2>2
  <1>7. PICK nbuf : /\ nbuf = heap'.buf /\ Len(nbuf) = w /\ \A p \in 1 .. w : nbuf[p] = buf[p]
    <2>1. PICK z : z = heap'.buf /\ z = SubSeq(buf, 1, w)
      BY <1>6
    <2>2. Len(z) = w /\ \A p \in 1 .. w : z[p] = buf[p]
      <3>1. buf \in Seq(Contents) /\ w \in 0 .. Len(buf)
        BY <1>3, <1>4, <1>5
      <3>2. Len(SubSeq(buf, 1, w)) = w
        BY <3>1
      <3>3. \A p \in 1 .. w : SubSeq(buf, 1, w)[p] = buf[p]
        BY <3>1
      <3> QED
        BY <2>1, <3>2, <3>3
    <2> QED
      BY <2>1, <2>2
  <1>8. PICK nobjs : /\ nobjs = objects' /\ nobjs \in Seq(Objects) /\ Len(nobjs) = h
                     /\ DOMAIN nobjs = 1 .. h /\ \A p \in 1 .. h : p \in 1 .. c /\ nobjs[p] = objs[p]
    <2>1. PICK z : z = objects' /\ z = SubSeq(objs, 1, h)
      BY <1>1, <1>3, <1>5
    <2>2. Len(z) = h /\ \A p \in 1 .. h : z[p] = objs[p]
      BY <1>3, <1>4, <1>5, <2>1
    <2>3. z \in Seq(Objects)
      BY <1>3, <1>4, <1>5, <2>1
    <2>4. DOMAIN z = 1 .. h
      BY <1>5, <2>2, <2>3
    <2>5. \A p \in 1 .. h : p \in 1 .. c
      BY <1>4, <1>5
    <2> QED
      BY <2>1, <2>2, <2>3, <2>4, <2>5
  <1>9. PICK nopens : /\ nopens = open' /\ nopens \in Seq(OpenMarks) /\ DOMAIN nopens = 1 .. k - 1
                      /\ \A p \in 1 .. k - 1 : p \in 1 .. d /\ p < k /\ nopens[p] = opens[p]
    <2>1. PICK z : z = open' /\ z = SubSeq(opens, 1, k - 1)
      BY <1>1, <1>3
    <2>2. Len(z) = k - 1 /\ \A p \in 1 .. k - 1 : z[p] = opens[p]
      BY <1>3, <1>4, <2>1
    <2>3. z \in Seq(OpenMarks)
      BY <1>3, <1>4, <2>1
    <2>4. DOMAIN z = 1 .. k - 1
      BY <1>4, <2>2, <2>3
    <2>5. \A p \in 1 .. k - 1 : p \in 1 .. d /\ p < k
      BY <1>4
    <2> QED
      BY <2>1, <2>2, <2>3, <2>4, <2>5
  <1>10. \A j \in 1 .. h : EndOf(objs[j]) <= w /\ Word(objs[j].off) \in Nat
                           /\ EndOf(objs[j]) \in Nat /\ Word(objs[j].off) < EndOf(objs[j])
    <2>1. \A j \in 1 .. h : objs[j] \in Objects
      BY <1>8
    <2>2. Between(opens[k], objs, buf)
      BY <1>3, <1>4 DEF MarksIn
    <2>3. ASSUME NEW j \in 1 .. h PROVE EndOf(objs[j]) <= w
      <3>1. j \in DOMAIN objs /\ j <= opens[k].held
        BY <1>4, <1>5, <1>8
      <3> QED
        BY <1>5, <2>2, <3>1 DEF Between
    <2> QED
      BY <2>1, <2>3, ObjectIs
  <1>11. ObjectsIn(nobjs, nbuf)
    <2>1. ASSUME NEW j \in 1 .. h
          PROVE  EndOf(nobjs[j]) <= Len(nbuf) /\ nbuf[Word(nobjs[j].off) + 1] = nobjs[j].val
      <3>1. Word(objs[j].off) + 1 \in 1 .. w
        BY <1>5, <1>10
      <3>2. buf[Word(objs[j].off) + 1] = objs[j].val
        BY <1>3, <1>4, <1>8 DEF ObjectsIn
      <3> QED
        BY <1>7, <1>8, <1>10, <3>1, <3>2
    <2>2. \A p, j \in 1 .. h : p < j => EndOf(nobjs[p]) <= Word(nobjs[j].off)
      BY <1>3, <1>4, <1>8 DEF ObjectsIn
    <2> QED
      BY <1>8, <2>1, <2>2 DEF ObjectsIn
  <1>12. MarksIn(nopens, nobjs, nbuf)
    <2>1. ASSUME NEW p \in 1 .. k - 1 PROVE Between(nopens[p], nobjs, nbuf)
      <3>1. PICK m : m = opens[p] /\ m = nopens[p] /\ Between(m, objs, buf)
        BY <1>3, <1>4, <1>9 DEF MarksIn
      <3>2. Word(m.mark) <= w /\ m.held <= h
        BY <1>3, <1>4, <1>5, <1>9, <3>1 DEF MarksIn
      <3> QED
        BY <1>4, <1>7, <1>8, <3>1, <3>2 DEF Between
    <2>2. \A p, j \in 1 .. k - 1 :
            p < j => Word(nopens[p].mark) <= Word(nopens[j].mark) /\ nopens[p].held <= nopens[j].held
      BY <1>3, <1>4, <1>9 DEF MarksIn
    <2> QED
      BY <1>9, <2>1, <2>2 DEF MarksIn
  <1>13. ASSUME ~merged' PROVE StackIs(heap'.marks, nopens)
    <2>1. ~merged
      BY <1>13 DEF RollbackTo
    <2>2. StackIs(marks, opens)
      BY <1>3, <2>1 DEF ClientInv
    <2>3. heap'.marks = [p \in 1 .. k - 1 |-> Word(opens[p].mark)]
      <3>1. opens \in Seq(OpenMarks) /\ k \in DOMAIN opens
        BY <1>3, <1>4
      <3>2. MarksBelow(marks, Word(opens[k].mark)) = [p \in 1 .. k - 1 |-> Word(opens[p].mark)]
        BY <2>2, <3>1, MarksBelowIs
      <3> QED
        BY <1>5, <1>6, <3>2
    <2>4. [p \in 1 .. k - 1 |-> Word(opens[p].mark)] = [p \in 1 .. k - 1 |-> Word(nopens[p].mark)]
      BY <1>9
    <2>5. \A p, j \in 1 .. k - 1 : p < j => Word(nopens[p].mark) < Word(nopens[j].mark)
      BY <1>4, <1>9, <2>2 DEF StackIs
    <2> QED
      BY <1>9, <2>3, <2>4, <2>5 DEF StackIs
  <1> QED
    BY <1>2, <1>6, <1>7, <1>8, <1>9, <1>11, <1>12, <1>13 DEF ClientInv, IsArena

LEMMA CommitNewestKeeps ==
  ASSUME ClientInv, CommitNewest PROVE ClientInv'
  <1>1. /\ open # <<>> /\ heap' = CommitMark(heap)
        /\ open' = SubSeq(open, 1, Len(open) - 1) /\ UNCHANGED <<objects, merged>>
    BY DEF CommitNewest
  <1>2. PICK Contents : Contents = Stamps \union {0}
    OBVIOUS
  <1>3. PICK buf, objs, opens, marks :
          /\ buf = heap.buf /\ objs = objects /\ opens = open /\ marks = heap.marks
          /\ opens \in Seq(OpenMarks) /\ opens # <<>>
          /\ ObjectsIn(objs, buf) /\ MarksIn(opens, objs, buf)
    BY <1>1 DEF ClientInv
  <1>4. PICK d : d \in Nat \ {0} /\ d = Len(opens) /\ DOMAIN opens = 1 .. d
    <2>1. Len(opens) \in Nat /\ DOMAIN opens = 1 .. Len(opens) /\ Len(opens) # 0
      BY <1>3
    <2> QED
      BY <2>1
  <1>5. PICK nm : nm = IF marks = <<>> THEN marks ELSE SubSeq(marks, 1, Len(marks) - 1)
    OBVIOUS
  <1>6. IsArena(heap', Contents) /\ heap'.buf = buf /\ heap'.marks = nm
    <2>1. heap' = [heap EXCEPT !.marks = nm]
      BY <1>1, <1>3, <1>5 DEF CommitMark
    <2>2. PICK a : a = heap /\ IsArena(a, Contents) /\ heap' = [a EXCEPT !.marks = nm]
      BY <1>2, <2>1 DEF ClientInv
    <2>3. IsArena(a, Contents)
      BY <2>2
    <2>4. /\ IsArena([a EXCEPT !.marks = nm], Contents)
          /\ [a EXCEPT !.marks = nm].buf = a.buf /\ [a EXCEPT !.marks = nm].marks = nm
      BY <2>3, MarksIs
    <2> QED
      BY <1>3, <2>2, <2>4
  <1>7. PICK nopens : /\ nopens = open' /\ nopens \in Seq(OpenMarks) /\ DOMAIN nopens = 1 .. d - 1
                      /\ \A p \in 1 .. d - 1 : p \in 1 .. d /\ nopens[p] = opens[p]
    <2>1. PICK z : z = open' /\ z = SubSeq(opens, 1, d - 1)
      BY <1>1, <1>3, <1>4
    <2>2. Len(z) = d - 1 /\ \A p \in 1 .. d - 1 : z[p] = opens[p]
      BY <1>3, <1>4, <2>1
    <2>3. z \in Seq(OpenMarks)
      BY <1>3, <1>4, <2>1
    <2>4. DOMAIN z = 1 .. d - 1
      BY <1>4, <2>2, <2>3
    <2>5. \A p \in 1 .. d - 1 : p \in 1 .. d
      BY <1>4
    <2> QED
      BY <2>1, <2>2, <2>3, <2>4, <2>5
  <1>8. MarksIn(nopens, objs, buf)
    <2>1. \A p \in 1 .. d - 1 : Between(nopens[p], objs, buf)
      BY <1>3, <1>4, <1>7 DEF MarksIn
    <2>2. ASSUME NEW p \in 1 .. d - 1, NEW j \in 1 .. d - 1, p < j
          PROVE  Word(nopens[p].mark) <= Word(nopens[j].mark) /\ nopens[p].held <= nopens[j].held
      <3>1. p \in DOMAIN opens /\ j \in DOMAIN opens /\ nopens[p] = opens[p] /\ nopens[j] = opens[j]
        BY <1>4, <1>7
      <3>2. Word(opens[p].mark) <= Word(opens[j].mark) /\ opens[p].held <= opens[j].held
        BY <1>3, <2>2, <3>1 DEF MarksIn
      <3> QED
        BY <3>1, <3>2
    <2> QED
      BY <1>7, <2>1, <2>2 DEF MarksIn
  <1>9. ASSUME ~merged' PROVE StackIs(nm, nopens)
    <2>1. StackIs(marks, opens)
      BY <1>1, <1>3, <1>9 DEF ClientInv
    <2>2. \A p \in 1 .. d : Word(opens[p].mark) \in Nat
      <3>1. \A p \in 1 .. d : opens[p] \in OpenMarks
        BY <1>3, <1>4
      <3> QED
        BY <3>1, OpenMarkIs
    <2>3. marks = [p \in 1 .. d |-> Word(opens[p].mark)]
      BY <1>4, <2>1 DEF StackIs
    <2>4. marks \in Seq(Nat) /\ Len(marks) = d
      BY <1>4, <2>2, <2>3
    <2>5. nm = SubSeq(marks, 1, d - 1)
      <3>1. marks # <<>>
        BY <1>4, <2>4
      <3> QED
        BY <1>5, <2>4, <3>1
    <2>6. nm = [p \in 1 .. d - 1 |-> marks[p]]
      BY <1>4, <2>4, <2>5
    <2>7. nm = [p \in 1 .. d - 1 |-> Word(nopens[p].mark)]
      BY <1>7, <2>3, <2>6
    <2>8. \A p, j \in 1 .. d - 1 : p < j => Word(nopens[p].mark) < Word(nopens[j].mark)
      BY <1>4, <1>7, <2>1 DEF StackIs
    <2> QED
      BY <1>7, <2>7, <2>8 DEF StackIs
  <1> QED
    BY <1>1, <1>2, <1>3, <1>6, <1>7, <1>8, <1>9 DEF ClientInv, IsArena

LEMMA ResetAllKeeps ==
  ASSUME ClientInv, ResetAll PROVE ClientInv'
  <1>1. heap' = Reset(heap) /\ objects' = <<>> /\ open' = <<>> /\ merged' = FALSE
    BY DEF ResetAll
  <1>2. PICK Contents : Contents = Stamps \union {0} /\ IsArena(heap, Contents)
    BY DEF ClientInv
  <1>3. PICK c, v : c \in Nat /\ v \in Nat /\ c = heap.cap /\ v = heap.moves
    BY <1>2 DEF IsArena
  <1>4. heap' = [buf |-> <<>>, marks |-> <<>>, cap |-> c, moves |-> v]
    <2>1. PICK b, m : heap = [buf |-> b, marks |-> m, cap |-> c, moves |-> v]
      BY <1>2, <1>3 DEF IsArena
    <2> QED
      BY <1>1, <2>1 DEF Reset
  <1>5. IsArena(heap', Contents) /\ heap'.marks = <<>>
    BY <1>3, <1>4 DEF IsArena
  <1>6. ObjectsIn(<<>>, heap'.buf) /\ MarksIn(<<>>, <<>>, heap'.buf) /\ StackIs(<<>>, <<>>)
    BY DEF ObjectsIn, MarksIn, StackIs
  <1> QED
    BY <1>1, <1>2, <1>5, <1>6 DEF ClientInv, IsArena

LEMMA ClientInvSafe ==
  ASSUME ClientInv PROVE ClientSafe
  <1>1. PICK buf, objs : /\ buf = heap.buf /\ objs = objects /\ objs \in Seq(Objects)
                         /\ ObjectsIn(objs, buf)
    BY DEF ClientInv
  <1>2. PICK l, c : l \in Nat /\ l = Len(buf) /\ c \in Nat /\ c = Len(objs) /\ DOMAIN objs = 1 .. c
    <2>1. Len(buf) \in Nat
      BY <1>1 DEF ClientInv, IsArena
    <2>2. Len(objs) \in Nat /\ DOMAIN objs = 1 .. Len(objs)
      BY <1>1
    <2> QED
      BY <2>1, <2>2
  <1>3. ASSUME NEW k \in 1 .. c
        PROVE  /\ ReadWord(heap, objs[k].off) = objs[k].val
               /\ objs[k].off + objs[k].bytes <=
                    IF k < c THEN objs[k + 1].off ELSE MarkOf(heap)
    <2>1. objs[k] \in Objects
      BY <1>1, <1>2
    <2>2. PICK x, e, n : /\ x \in Nat /\ x = objs[k].off /\ n \in Nat /\ n = objs[k].bytes
                         /\ e \in Nat /\ e = EndOf(objs[k]) /\ x + n <= e * WordBytes
      <3>1. /\ objs[k].off = Word(objs[k].off) * WordBytes /\ Word(objs[k].off) \in Nat
            /\ objs[k].bytes \in Nat /\ EndOf(objs[k]) \in Nat
            /\ objs[k].off + objs[k].bytes <= EndOf(objs[k]) * WordBytes
        BY <2>1, ObjectIs, ClientAssumption
      <3>2. objs[k].off \in Nat
        BY <3>1 DEF WordBytes
      <3> QED
        BY <3>1, <3>2
    <2>3. ReadWord(heap, objs[k].off) = objs[k].val
      BY <1>1, <1>2 DEF ReadWord, ObjectsIn, Word
    <2>4. CASE k < c
      <3>1. k + 1 \in 1 .. c /\ k < k + 1
        BY <1>2, <2>4
      <3>2. objs[k + 1] \in Objects /\ e <= Word(objs[k + 1].off)
        BY <1>1, <1>2, <2>2, <3>1 DEF ObjectsIn
      <3>3. PICK w : w \in Nat /\ w = Word(objs[k + 1].off) /\ objs[k + 1].off = w * WordBytes
        BY <3>2, ObjectIs
      <3>4. e * WordBytes <= w * WordBytes
        BY <2>2, <3>2, <3>3 DEF WordBytes
      <3>5. x + n <= w * WordBytes
        BY <2>2, <3>3, <3>4 DEF WordBytes
      <3> QED
        BY <2>2, <2>3, <2>4, <3>3, <3>5
    <2>5. CASE ~(k < c)
      <3>1. e <= l /\ MarkOf(heap) = l * WordBytes
        BY <1>1, <1>2, <2>2 DEF ObjectsIn, MarkOf
      <3>2. x + n <= l * WordBytes
        BY <1>2, <2>2, <3>1 DEF WordBytes
      <3> QED
        BY <2>2, <2>3, <2>5, <3>1, <3>2
    <2> QED
      BY <2>4, <2>5
  <1>4. ObjectsHold
    BY <1>1, <1>2, <1>3 DEF ObjectsHold
  <1>5. MarksAreOpen
    BY DEF ClientInv, StackIs, MarksAreOpen, Word
  <1> QED
    BY <1>4, <1>5 DEF ClientSafe

(* Objects that were not rolled back lie whole and apart and read what was    *)
(* written last, and the stack holds the marks still open: for objects of any *)
(* sizes and any order of calls, however often the vector grew underneath     *)
(* (alloc.rs 43-95).                                                          *)
THEOREM ArenaKeepsObjects == ClientSpec => []ClientSafe
  <1>1. ClientStart => ClientInv
    <2>1. ASSUME ClientStart PROVE ClientInv
      <3>1. heap = [buf |-> <<>>, marks |-> <<>>, cap |-> 2, moves |-> 0]
            /\ objects = <<>> /\ open = <<>>
        BY <2>1 DEF ClientStart, WithCapacity
      <3>2. IsArena(heap, Stamps \union {0})
        BY <3>1 DEF IsArena
      <3>3. ObjectsIn(<<>>, heap.buf) /\ MarksIn(<<>>, <<>>, heap.buf) /\ StackIs(<<>>, <<>>)
        BY DEF ObjectsIn, MarksIn, StackIs
      <3> QED
        BY <3>1, <3>2, <3>3 DEF ClientInv
    <2> QED
      BY <2>1
  <1>2. ClientInv /\ [ClientNext]_clientVars => ClientInv'
    <2>1. ASSUME ClientInv, UNCHANGED clientVars PROVE ClientInv'
      BY <2>1 DEF ClientInv, clientVars, IsArena
    <2> QED
      BY <2>1, NewObjectKeeps, OverwriteKeeps, OpenMarkKeeps, RollbackToKeeps, CommitNewestKeeps,
         ResetAllKeeps DEF ClientNext
  <1> QED
    BY <1>1, <1>2, ClientInvSafe, PTL DEF ClientSpec

-----------------------------------------------------------------------------
(* The crash-consistent process. *)

(* The recorded reference run is a run of the stream. *)
RefIsRun ==
  /\ refMaps[1] = Empty
  /\ refChains[1] = Genesis
  /\ \A k \in 1 .. Len(refMaps) - 1 :
       /\ refMaps[k + 1] = Do(refMaps[k], stream[k])
       /\ refChains[k + 1] = Audit(refChains[k], refMaps[k + 1])

Capsule(u) ==
  [unit |-> u, whole |-> TRUE, audit |-> Digest(refMaps[u + 1]),
   state |-> Snapshot(refMaps[u + 1])]

RefDone == mode # "reference" => Len(refMaps) = Total + 1

AtGenesis ==
  mode = "reference" =>
    i = 0 /\ drawn = 0 /\ map = Empty /\ chain = Genesis /\ fin = NoFile /\ step = "none"

FinGood ==
  \/ fin = NoFile
  \/ /\ mode # "reference"
     /\ fin.unit \in 0 .. Total
     /\ fin = Capsule(fin.unit)
     /\ cpChain = refChains[fin.unit + 1]

(* Where the runs stand. *)
LiveAt ==
  mode = "live" => /\ drawn = i
                   /\ map = refMaps[i + 1]
                   /\ chain = refChains[i + 1]

TmpGood == mode = "live" /\ step = "rename" => tmp = Capsule(i)

SkipAt ==
  mode = "skip" => /\ fin # NoFile
                   /\ drawn = i
                   /\ map = refMaps[fin.unit + 1]
                   /\ skip = refMaps[i + 1]
                   /\ chain = refChains[i + 1]

ResumeAt ==
  mode = "resume" => /\ fin # NoFile
                     /\ drawn = i
                     /\ map = refMaps[i + 1]
                     /\ chain = refChains[i + 1]

IInv ==
  /\ TypeOK /\ CrashConsistent
  /\ RefIsRun /\ RefDone /\ AtGenesis /\ FinGood
  /\ LiveAt /\ TmpGood /\ SkipAt /\ ResumeAt

-----------------------------------------------------------------------------
(* Loading a snapshot gives back the map it was taken of. *)
LEMMA LoadSnapshot ==
  ASSUME NEW m \in Store
  PROVE  FromSnapshot(Snapshot(m)) = m
  <1>1. ASSUME NEW k \in Keys
        PROVE  (IF \E v \in Values : <<k, v>> \in Snapshot(m)
                THEN CHOOSE v \in Values : <<k, v>> \in Snapshot(m) ELSE Nil) = m[k]
    <2>1. \A v : <<k, v>> \in Snapshot(m) <=> m[k] # Nil /\ v = m[k]
      BY DEF Snapshot
    <2>2. m[k] \in Values \union {Nil} /\ Nil \notin Values
      BY NilAssumption DEF Store, Stored
    <2> QED
      BY <2>1, <2>2
  <1> QED
    BY <1>1 DEF FromSnapshot, Store

LEMMA StreamFact ==
  ASSUME TypeOK
  PROVE  /\ stream \in Seq(Unit)
         /\ Total = Len(stream)
         /\ Total \in Nat
  <1>1. stream \in Seq(Unit)
    BY GuardAssumption DEF TypeOK
  <1> QED
    BY <1>1 DEF Total

(* A unit of the stream maps maps to maps and hashes to hashes. *)
LEMMA UnitRuns ==
  ASSUME TypeOK, NEW k \in 1 .. Total, NEW m \in Store, NEW c \in Hash
  PROVE  /\ Do(m, stream[k]) \in Store
         /\ Audit(c, Do(m, stream[k])) \in Hash
  <1>1. stream[k] \in Unit
    BY StreamFact
  <1>2. Do(m, stream[k]) \in Store
    BY <1>1 DEF Do, Write, Store, Unit
  <1> QED
    BY <1>2, HashAssumption DEF Audit

(* One unit further in the reference run. *)
LEMMA RefStep ==
  ASSUME TypeOK, RefIsRun, Len(refMaps) = Total + 1, NEW k \in 0 .. Total - 1
  PROVE  /\ k + 1 \in 1 .. Total
         /\ refMaps[k + 1] \in Store /\ refMaps[k + 2] \in Store
         /\ refMaps[k + 2] = Do(refMaps[k + 1], stream[k + 1])
         /\ refChains[k + 2] = Audit(refChains[k + 1], refMaps[k + 2])
  <1>1. Total \in Nat /\ k + 1 \in 1 .. Len(refMaps) - 1 /\ k + 1 + 1 = k + 2
    BY StreamFact
  <1>2. /\ refMaps[k + 1 + 1] = Do(refMaps[k + 1], stream[k + 1])
        /\ refChains[k + 1 + 1] = Audit(refChains[k + 1], refMaps[k + 1 + 1])
    BY <1>1 DEF RefIsRun
  <1>3. refMaps \in Seq(Store)
    BY DEF TypeOK
  <1>4. k + 1 \in 1 .. Len(refMaps) /\ k + 2 \in 1 .. Len(refMaps)
    BY <1>1
  <1> QED
    BY <1>1, <1>2, <1>3, <1>4

LEMMA GuardInit == Init => IInv
  <1> SUFFICES ASSUME Init PROVE IInv
    OBVIOUS
  <1>1. Empty \in Store /\ Genesis \in Hash /\ Total \in Nat
    BY HashAssumption, GuardAssumption DEF Empty, Store, Stored, Init, Total
  <1>2. TypeOK
    BY <1>1, GuardAssumption DEF Init, TypeOK, Running
  <1>3. CrashConsistent
    BY DEF Init, CrashConsistent, Running
  <1>4. RefIsRun
    BY DEF Init, RefIsRun
  <1> QED
    BY <1>2, <1>3, <1>4 DEF Init, IInv, RefDone, AtGenesis, FinGood, LiveAt, TmpGood,
       SkipAt, ResumeAt

-----------------------------------------------------------------------------
(* The reference run grows by one unit. *)
LEMMA ReferenceKeeps == IInv /\ ReferenceUnit => IInv'
  <1> SUFFICES ASSUME IInv, ReferenceUnit PROVE IInv'
    OBVIOUS
  <1> DEFINE n == Len(refMaps)
             m == Do(Last(refMaps), stream[n])
             c == Audit(Last(refChains), m)
  <1>1. /\ TypeOK /\ mode = "reference" /\ n \in 1 .. Total /\ n \in Nat /\ Total \in Nat
        /\ refMaps \in Seq(Store) /\ refChains \in Seq(Hash) /\ Len(refChains) = n
    BY StreamFact DEF IInv, TypeOK, ReferenceUnit
  <1>2. Last(refMaps) = refMaps[n] /\ Last(refChains) = refChains[n]
    BY <1>1 DEF Last
  <1>3. Last(refMaps) \in Store /\ Last(refChains) \in Hash
    BY <1>1, <1>2
  <1>4. m \in Store /\ c \in Hash
    BY <1>1, <1>3, UnitRuns
  <1>5. refMaps' = Append(refMaps, m) /\ refChains' = Append(refChains, c)
    BY DEF ReferenceUnit
  <1> HIDE DEF m, c
  <1>6. /\ refMaps' \in Seq(Store) /\ Len(refMaps') = n + 1 /\ refMaps'[n + 1] = m
        /\ \A k \in 1 .. n : refMaps'[k] = refMaps[k]
    BY <1>1, <1>4, <1>5
  <1>7. /\ refChains' \in Seq(Hash) /\ Len(refChains') = n + 1 /\ refChains'[n + 1] = c
        /\ \A k \in 1 .. n : refChains'[k] = refChains[k]
    BY <1>1, <1>4, <1>5
  <1> HIDE DEF n
  <1>8. TypeOK'
    BY <1>1, <1>6, <1>7 DEF TypeOK, ReferenceUnit, Total
  <1>9. RefIsRun'
    <2>1. ASSUME NEW k \in 1 .. n
          PROVE  /\ refMaps'[k + 1] = Do(refMaps'[k], stream[k])
                 /\ refChains'[k + 1] = Audit(refChains'[k], refMaps'[k + 1])
      <3>1. CASE k = n
        BY <1>1, <1>2, <1>6, <1>7, <3>1 DEF m, c, n
      <3>2. CASE k \in 1 .. n - 1
        <4>1. /\ refMaps[k + 1] = Do(refMaps[k], stream[k])
              /\ refChains[k + 1] = Audit(refChains[k], refMaps[k + 1])
          BY <3>2 DEF IInv, RefIsRun, n
        <4>2. k \in 1 .. n /\ k + 1 \in 1 .. n
          BY <1>1, <3>2
        <4> QED
          BY <1>6, <1>7, <4>1, <4>2
      <3> QED
        BY <1>1, <3>1, <3>2
    <2>2. refMaps'[1] = Empty /\ refChains'[1] = Genesis
      BY <1>1, <1>6, <1>7 DEF IInv, RefIsRun
    <2>3. Len(refMaps') - 1 = n /\ stream' = stream
      BY <1>1, <1>6 DEF ReferenceUnit
    <2> QED
      BY <2>1, <2>2, <2>3 DEF RefIsRun, Do, Audit
  <1> QED
    BY <1>1, <1>8, <1>9 DEF IInv, ReferenceUnit, ref, disk, CrashConsistent, Running, RefDone,
       AtGenesis, FinGood, LiveAt, TmpGood, SkipAt, ResumeAt

(* The reference run is left alone: its part of the invariant stays. *)
LEMMA RefStays ==
  ASSUME IInv, UNCHANGED <<stream, refMaps, refChains>>
  PROVE  RefIsRun' /\ \A u : Capsule(u)' = Capsule(u)
  BY DEF IInv, RefIsRun, Do, Audit, Capsule

LEMMA StartLiveKeeps == IInv /\ StartLive => IInv'
  <1> SUFFICES ASSUME IInv, StartLive PROVE IInv'
    OBVIOUS
  <1>1. RefIsRun'
    BY RefStays DEF StartLive, ref
  <1>2. TypeOK'
    BY DEF StartLive, ref, disk, IInv, TypeOK, Total, Running, AtGenesis
  <1> QED
    BY <1>1, <1>2 DEF StartLive, ref, disk, IInv, CrashConsistent, Running, RefDone, AtGenesis,
       FinGood, LiveAt, TmpGood, SkipAt, ResumeAt, RefIsRun, Total

(* One unit of a run at unit i takes it to unit i + 1 of the reference. *)
LEMMA OneUnit ==
  ASSUME IInv, mode # "reference", NEW k \in 0 .. Total - 1
  PROVE  /\ Do(refMaps[k + 1], stream[k + 1]) = refMaps[k + 2]
         /\ Audit(refChains[k + 1], refMaps[k + 2]) = refChains[k + 2]
         /\ refMaps[k + 2] \in Store
  BY RefStep DEF IInv, RefDone

LEMMA LiveUnitKeeps == IInv /\ LiveUnit => IInv'
  <1> SUFFICES ASSUME IInv, LiveUnit PROVE IInv'
    OBVIOUS
  <1>1. /\ mode = "live" /\ i \in Nat /\ i \in 0 .. Total - 1 /\ drawn = i /\ i' = i + 1
        /\ Total \in Nat /\ map = refMaps[i + 1] /\ chain = refChains[i + 1] /\ drawn' = i + 1
    BY StreamFact DEF IInv, TypeOK, LiveUnit, LiveAt
  <1>2. /\ Do(map, stream[i + 1]) = refMaps[i + 2]
        /\ Audit(chain, refMaps[i + 2]) = refChains[i + 2]
        /\ refMaps[i + 2] \in Store
    BY <1>1, OneUnit
  <1>3. map' = refMaps[i + 2] /\ chain' = refChains[i + 2] /\ map' \in Store
    BY <1>1, <1>2 DEF LiveUnit
  <1>4. TypeOK'
    BY <1>1, <1>3 DEF LiveUnit, ref, disk, IInv, TypeOK, Total, Running
  <1>5. RefIsRun' /\ \A u : Capsule(u)' = Capsule(u)
    BY RefStays DEF LiveUnit, ref
  <1>6. LiveAt'
    BY <1>1, <1>3 DEF LiveUnit, ref, LiveAt
  <1>7. FinGood'
    BY <1>5 DEF LiveUnit, ref, disk, IInv, FinGood, Total
  <1>8. RefDone' /\ AtGenesis' /\ SkipAt' /\ ResumeAt' /\ CrashConsistent'
    BY <1>1 DEF LiveUnit, ref, IInv, RefDone, AtGenesis, SkipAt, ResumeAt, CrashConsistent,
       Running, Total
  <1>9. TmpGood'
    BY DEF LiveUnit, TmpGood
  <1> QED
    BY <1>4, <1>5, <1>6, <1>7, <1>8, <1>9 DEF IInv

(* Writing the capsule: the temporary file holds, when it is complete, the   *)
(* map at unit i, and the rename puts exactly that in place.                 *)
LEMMA WriteKeeps == IInv /\ (OpenTmp \/ FillTmp \/ Rename) => IInv'
  <1> SUFFICES ASSUME IInv, OpenTmp \/ FillTmp \/ Rename PROVE IInv'
    OBVIOUS
  <1>1. /\ mode = "live" /\ mode' = mode /\ stream' = stream /\ refMaps' = refMaps
        /\ refChains' = refChains /\ i' = i /\ drawn' = drawn /\ map' = map /\ skip' = skip
        /\ chain' = chain /\ crashes' = crashes
    BY DEF OpenTmp, FillTmp, Rename, ref
  <1>2. /\ i \in 0 .. Total /\ map = refMaps[i + 1] /\ chain = refChains[i + 1]
    BY <1>1 DEF IInv, TypeOK, LiveAt
  <1>3. RefIsRun' /\ \A u : Capsule(u)' = Capsule(u)
    BY <1>1, RefStays
  <1>4. TypeOK'
    BY <1>1 DEF OpenTmp, FillTmp, Rename, IInv, TypeOK, Total
  <1>5. TmpGood'
    BY <1>1, <1>2 DEF OpenTmp, FillTmp, Rename, TmpGood, Capsule
  <1>6. FinGood'
    <2>1. CASE Rename
      <3>1. fin' = Capsule(i) /\ cpChain' = chain
        BY <1>1, <2>1 DEF Rename, IInv, TmpGood
      <3>2. fin'.unit = i
        BY <3>1 DEF Capsule
      <3> QED
        BY <1>1, <1>2, <1>3, <3>1, <3>2 DEF FinGood, Total
    <2>2. CASE fin' = fin /\ cpChain' = cpChain
      BY <1>1, <1>3, <2>2 DEF IInv, FinGood, Total
    <2> QED
      BY <2>1, <2>2 DEF OpenTmp, FillTmp
  <1>7. RefDone' /\ AtGenesis' /\ LiveAt' /\ SkipAt' /\ ResumeAt' /\ CrashConsistent'
    BY <1>1 DEF IInv, RefDone, AtGenesis, LiveAt, SkipAt, ResumeAt, CrashConsistent, Total
  <1> QED
    BY <1>3, <1>4, <1>5, <1>6, <1>7 DEF IInv

LEMMA CrashKeeps == IInv /\ Crash => IInv'
  <1> SUFFICES ASSUME IInv, Crash PROVE IInv'
    OBVIOUS
  <1>1. RefIsRun' /\ \A u : Capsule(u)' = Capsule(u)
    BY RefStays DEF Crash, ref
  <1>2. TypeOK'
    <2>1. crashes' \in 0 .. MaxCrashes
      <3>1. MaxCrashes \in Nat
        BY GuardAssumption
      <3>2. crashes \in 0 .. MaxCrashes /\ crashes < MaxCrashes /\ crashes' = crashes + 1
        BY DEF Crash, IInv, TypeOK
      <3> QED
        BY <3>1, <3>2
    <2>2. mode' = "crashed" /\ step' = "none"
      BY DEF Crash
    <2>3. UNCHANGED <<stream, refMaps, refChains, i, drawn, map, skip, chain>>
      BY DEF Crash, ref
    <2> QED
      BY <2>1, <2>2, <2>3 DEF IInv, TypeOK, Total, Running
  <1>3. FinGood'
    BY <1>1 DEF Crash, ref, disk, IInv, FinGood, Total
  <1>4. RefDone' /\ CrashConsistent'
    BY DEF Crash, ref, disk, IInv, RefDone, Total, CrashConsistent, Running
  <1> QED
    BY <1>1, <1>2, <1>3, <1>4 DEF Crash, IInv, AtGenesis, LiveAt, TmpGood, SkipAt, ResumeAt

(* A restart finds no capsule or the one of FinGood, whose audit matches. *)
LEMMA RestartKeeps == IInv /\ Restart => IInv'
  <1> SUFFICES ASSUME IInv, Restart PROVE IInv'
    OBVIOUS
  <1>1. /\ mode = "crashed" /\ stream' = stream /\ refMaps' = refMaps
        /\ refChains' = refChains /\ i' = 0 /\ drawn' = 0 /\ skip' = Empty /\ chain' = Genesis
        /\ fin' = fin /\ tmp' = tmp /\ cpChain' = cpChain /\ crashes' = crashes
        /\ map' = FromSnapshot(fin.state) /\ step' = step
    BY DEF Restart, ref, disk
  <1>2. /\ refMaps \in Seq(Store) /\ Total \in Nat /\ Len(refMaps) = Total + 1
        /\ refMaps[1] = Empty /\ refChains[1] = Genesis /\ refMaps[1] \in Store
    BY <1>1, StreamFact DEF IInv, TypeOK, RefDone, RefIsRun
  <1>3. RefIsRun' /\ \A u : Capsule(u)' = Capsule(u)
    BY <1>1, RefStays
  <1>4. CASE fin = NoFile
    <2>1. mode' = "no capsule"
      BY <1>4 DEF Restart, NoFile
    <2>2. map' \in Store
      <3>1. fin.state = {}
        BY <1>4 DEF NoFile
      <3>2. map' = Empty
        BY <1>1, <3>1 DEF FromSnapshot, Empty
      <3> QED
        BY <1>2, <3>2
    <2>3. TypeOK'
      <3>1. 0 \in 0 .. Total' /\ Empty \in Store /\ Total' = Total
        BY <1>1, <1>2 DEF Total
      <3>2. mode' \in Running /\ mode' # "skip"
        BY <2>1 DEF Running
      <3> QED
        BY <1>1, <2>2, <3>1, <3>2 DEF IInv, TypeOK
    <2> QED
      BY <1>1, <1>2, <1>3, <1>4, <2>1, <2>3 DEF IInv, CrashConsistent, Running, RefDone,
         AtGenesis, FinGood, LiveAt, TmpGood, SkipAt, ResumeAt, Total
  <1>5. CASE fin # NoFile
    <2>1. /\ fin.unit \in 0 .. Total /\ fin = Capsule(fin.unit)
          /\ cpChain = refChains[fin.unit + 1]
      BY <1>5 DEF IInv, FinGood
    <2>2. refMaps[fin.unit + 1] \in Store
      BY <1>2, <2>1
    <2>3. /\ fin.whole = TRUE
          /\ fin.state = Snapshot(refMaps[fin.unit + 1])
          /\ fin.audit = Digest(refMaps[fin.unit + 1])
      BY <2>1 DEF Capsule
    <2>4. FromSnapshot(fin.state) = refMaps[fin.unit + 1]
      BY <2>2, <2>3, LoadSnapshot
    <2>5. mode' = "skip"
      BY <2>3, <2>4 DEF Restart
    <2>6. TypeOK'
      BY <1>1, <1>2, <2>1, <2>2, <2>4, <2>5 DEF IInv, TypeOK, Total, Running
    <2>7. SkipAt'
      BY <1>1, <1>2, <1>5, <2>4 DEF SkipAt, NoFile
    <2>8. FinGood'
      BY <1>1, <1>3, <2>1, <2>5 DEF FinGood, Total
    <2> QED
      BY <1>1, <1>2, <1>3, <2>5, <2>6, <2>7, <2>8 DEF IInv, CrashConsistent, Running, RefDone,
         AtGenesis, LiveAt, TmpGood, ResumeAt, Total
  <1> QED
    BY <1>4, <1>5

LEMMA SkipUnitKeeps == IInv /\ SkipUnit => IInv'
  <1> SUFFICES ASSUME IInv, SkipUnit PROVE IInv'
    OBVIOUS
  <1>1. /\ mode = "skip" /\ drawn = i /\ i' = i + 1 /\ drawn' = i + 1 /\ i \in Nat
        /\ Total \in Nat /\ skip = refMaps[i + 1] /\ chain = refChains[i + 1]
        /\ fin # NoFile /\ i < fin.unit
    BY StreamFact DEF IInv, TypeOK, SkipUnit, SkipAt
  <1>2. fin.unit \in 0 .. Total /\ i \in 0 .. Total - 1
    BY <1>1 DEF IInv, FinGood
  <1>3. /\ Do(skip, stream[i + 1]) = refMaps[i + 2]
        /\ Audit(chain, refMaps[i + 2]) = refChains[i + 2]
        /\ refMaps[i + 2] \in Store
    BY <1>1, <1>2, OneUnit
  <1>4. skip' = refMaps[i + 2] /\ chain' = refChains[i + 2] /\ skip' \in Store
    BY <1>1, <1>3 DEF SkipUnit
  <1>5. TypeOK'
    BY <1>1, <1>2, <1>4 DEF SkipUnit, ref, disk, IInv, TypeOK, Total, Running
  <1>6. RefIsRun' /\ \A u : Capsule(u)' = Capsule(u)
    BY RefStays DEF SkipUnit, ref
  <1>7. SkipAt'
    BY <1>1, <1>4 DEF SkipUnit, ref, disk, IInv, SkipAt
  <1>8. FinGood'
    BY <1>6 DEF SkipUnit, ref, disk, IInv, FinGood, Total
  <1> QED
    BY <1>1, <1>5, <1>6, <1>7, <1>8 DEF SkipUnit, ref, IInv, RefDone, AtGenesis, LiveAt, TmpGood,
       ResumeAt, CrashConsistent, Running, Total

(* At the capsule's unit the replayed map is the loaded one, so the chains   *)
(* agree and the run goes on from there.                                     *)
LEMMA CheckChainKeeps == IInv /\ CheckChain => IInv'
  <1> SUFFICES ASSUME IInv, CheckChain PROVE IInv'
    OBVIOUS
  <1>1. /\ mode = "skip" /\ drawn = i /\ i = fin.unit /\ fin # NoFile
        /\ map = refMaps[i + 1] /\ chain = refChains[i + 1]
    BY DEF IInv, CheckChain, SkipAt
  <1>2. cpChain = refChains[i + 1]
    BY <1>1 DEF IInv, FinGood
  <1>3. mode' = "resume"
    BY <1>1, <1>2 DEF CheckChain
  <1>4. TypeOK'
    BY <1>3 DEF CheckChain, ref, disk, IInv, TypeOK, Total, Running
  <1>5. RefIsRun' /\ \A u : Capsule(u)' = Capsule(u)
    BY RefStays DEF CheckChain, ref
  <1>6. FinGood'
    BY <1>3, <1>5 DEF CheckChain, ref, disk, IInv, FinGood, Total
  <1>7. ResumeAt'
    BY <1>1 DEF CheckChain, ref, disk, ResumeAt
  <1> QED
    BY <1>1, <1>3, <1>4, <1>5, <1>6, <1>7 DEF CheckChain, ref, IInv, RefDone, AtGenesis, LiveAt,
       TmpGood, SkipAt, CrashConsistent, Running, Total

LEMMA ResumeUnitKeeps == IInv /\ ResumeUnit => IInv'
  <1> SUFFICES ASSUME IInv, ResumeUnit PROVE IInv'
    OBVIOUS
  <1>1. /\ mode = "resume" /\ drawn = i /\ i' = i + 1 /\ drawn' = i + 1 /\ i \in 0 .. Total - 1
        /\ Total \in Nat /\ map = refMaps[i + 1] /\ chain = refChains[i + 1]
        /\ fin # NoFile
    BY StreamFact DEF IInv, TypeOK, ResumeUnit, ResumeAt
  <1>2. /\ Do(map, stream[i + 1]) = refMaps[i + 2]
        /\ Audit(chain, refMaps[i + 2]) = refChains[i + 2]
        /\ refMaps[i + 2] \in Store
    BY <1>1, OneUnit
  <1>3. map' = refMaps[i + 2] /\ chain' = refChains[i + 2] /\ map' \in Store
    BY <1>1, <1>2 DEF ResumeUnit
  <1>4. TypeOK'
    BY <1>1, <1>3 DEF ResumeUnit, ref, disk, IInv, TypeOK, Total, Running
  <1>5. RefIsRun' /\ \A u : Capsule(u)' = Capsule(u)
    BY RefStays DEF ResumeUnit, ref
  <1>6. ResumeAt'
    BY <1>1, <1>3 DEF ResumeUnit, ref, disk, ResumeAt
  <1>7. FinGood'
    BY <1>5 DEF ResumeUnit, ref, disk, IInv, FinGood, Total
  <1> QED
    BY <1>1, <1>4, <1>5, <1>6, <1>7 DEF ResumeUnit, ref, IInv, RefDone, AtGenesis, LiveAt, TmpGood,
       SkipAt, CrashConsistent, Running, Total

LEMMA CompareKeeps == IInv /\ Compare => IInv'
  <1> SUFFICES ASSUME IInv, Compare PROVE IInv'
    OBVIOUS
  <1>1. /\ mode = "resume" /\ i = Total /\ map = refMaps[i + 1] /\ chain = refChains[i + 1]
        /\ Len(refMaps) = Total + 1 /\ Len(refChains) = Total + 1
    BY DEF IInv, Compare, ResumeAt, RefDone, TypeOK
  <1>2. mode' = "done"
    BY <1>1 DEF Compare, Last
  <1>3. TypeOK'
    BY <1>2 DEF Compare, ref, disk, IInv, TypeOK, Total, Running
  <1>4. RefIsRun' /\ \A u : Capsule(u)' = Capsule(u)
    BY RefStays DEF Compare, ref
  <1>5. FinGood'
    BY <1>2, <1>4 DEF Compare, ref, disk, IInv, FinGood, Total
  <1> QED
    BY <1>1, <1>2, <1>3, <1>4, <1>5 DEF Compare, ref, IInv, RefDone, AtGenesis, LiveAt, TmpGood,
       SkipAt, ResumeAt, CrashConsistent, Running, Total

LEMMA GuardStep == IInv /\ [Next]_vars => IInv'
  <1> SUFFICES ASSUME IInv, [Next]_vars PROVE IInv'
    OBVIOUS
  <1>1. CASE UNCHANGED vars
    <2>1. RefIsRun' /\ \A u : Capsule(u)' = Capsule(u)
      BY <1>1, RefStays DEF vars
    <2>2. FinGood'
      BY <1>1, <2>1 DEF vars, IInv, FinGood, Total
    <2>3. TmpGood'
      BY <1>1, <2>1 DEF vars, IInv, TmpGood
    <2> QED
      BY <1>1, <2>1, <2>2, <2>3 DEF vars, IInv, TypeOK, Total, CrashConsistent, RefDone,
         AtGenesis, LiveAt, SkipAt, ResumeAt
  <1> QED
    BY <1>1, ReferenceKeeps, StartLiveKeeps, LiveUnitKeeps, WriteKeeps, CrashKeeps, RestartKeeps,
       SkipUnitKeeps, CheckChainKeeps, ResumeUnitKeeps, CompareKeeps DEF Next, Recover

LEMMA GuardInv == Spec => []IInv
  BY GuardInit, GuardStep, PTL DEF Spec

(* Type correctness of the crash-consistent process. *)
THEOREM GuardTypeCorrect == Spec => []TypeOK
  <1>1. IInv => TypeOK
    BY DEF IInv
  <1> QED
    BY <1>1, GuardInv, PTL

(* Whenever it crashes and however often, a restart that finds a capsule     *)
(* ends where the uninterrupted run ended; no comparison ever fails.         *)
THEOREM NeverDiverges == Spec => []CrashConsistent
  <1>1. IInv => CrashConsistent
    BY DEF IInv
  <1> QED
    BY <1>1, GuardInv, PTL

(* The capsule on disk is never torn and never off by a unit. *)
THEOREM CapsuleAlwaysGood == Spec => []CapsuleIsPrefix
  <1>1. ASSUME IInv PROVE CapsuleIsPrefix
    <2>1. CASE fin # NoFile
      <3>1. /\ fin.unit \in 0 .. Total /\ fin = Capsule(fin.unit) /\ Total \in Nat
            /\ cpChain = refChains[fin.unit + 1] /\ Len(refMaps) = Total + 1
        BY <1>1, <2>1, StreamFact DEF IInv, FinGood, RefDone
      <3>2. fin.unit + 1 \in 1 .. Len(refMaps)
        BY <3>1
      <3> QED
        BY <3>1, <3>2 DEF CapsuleIsPrefix, Capsule
    <2> QED
      BY <2>1 DEF CapsuleIsPrefix
  <1> QED
    BY <1>1, GuardInv, PTL
=============================================================================
