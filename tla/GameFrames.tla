----------------------------- MODULE GameFrames -----------------------------
(***************************************************************************)
(* The frames and the object pools of src/alloc/galloc/galloc.c. They share *)
(* no state.                                                               *)
(***************************************************************************)
EXTENDS Integers, Sequences

(***************************************************************************)
(* The frames of src/alloc/galloc/galloc.c, lines 130-149: memory that is  *)
(* handed out by moving a mark up and is given back all at once. All of it *)
(* is thread-local, so one thread is enough. Its caller opens and closes   *)
(* frames in pairs, allocates inside them and rolls back to marks of the   *)
(* same frame; what it knows is kept beside what the code keeps.           *)
(***************************************************************************)
CONSTANTS Grain,          \* 16: objects start at multiples of it
          FrameCap,       \* 64 MB
          SizeRange,      \* 2^64, the values of a size_t
          FrameSizes,     \* bytes asked for
          MaxNest,        \* bound on nested frames
          MaxFrameCalls   \* bound on the calls of a behaviour

ASSUME FramesAssumption ==
  /\ Grain \in Nat \ {0} /\ FrameCap \in Nat
  /\ SizeRange \in Nat /\ SizeRange % Grain = 0 /\ SizeRange > FrameCap + Grain
  /\ FrameSizes \subseteq 0 .. SizeRange - 1
  /\ MaxNest \in Nat /\ MaxFrameCalls \in Nat

VARIABLES depth, fb, used, cap,   \* fd, fb # NULL, fu, fc
          frameObjects,           \* [off, bytes] of the caller's objects in the frame
          spilt,                  \* objects that went to the heap
          frameMarks,             \* [mark, held] of the marks it may roll back to
          nest,                   \* frames it has open
          unmapped,               \* one of them was opened when mmap failed
          wrapped,                \* one of them got an object whose size overflowed
          frameCalls

frameVars == <<depth, fb, used, cap, frameObjects, spilt, frameMarks, nest, unmapped, wrapped,
               frameCalls>>

FramesStart ==
  /\ depth = 0 /\ fb = FALSE /\ used = 0 /\ cap = 0
  /\ frameObjects = <<>> /\ spilt = 0 /\ frameMarks = <<>>
  /\ nest = 0 /\ unmapped = FALSE /\ wrapped = FALSE /\ frameCalls = 0

FrameCall == frameCalls < MaxFrameCalls /\ frameCalls' = frameCalls + 1

(* The outermost begin maps the frame once for the life of the thread. When   *)
(* that fails fc keeps its value, and the frame does not count.              *)
FrameBegin ==
  /\ FrameCall /\ nest < MaxNest
  /\ nest' = nest + 1
  /\ \/ /\ depth = 0 /\ ~fb                         \* MAP_FAILED
        /\ cap' = FrameCap /\ unmapped' = TRUE
        /\ UNCHANGED <<depth, fb, used>>
     \/ /\ depth = 0
        /\ fb' = TRUE /\ cap' = FrameCap /\ used' = 0 /\ depth' = 1
        /\ UNCHANGED unmapped
     \/ /\ depth > 0 /\ depth' = depth + 1
        /\ UNCHANGED <<fb, used, cap, unmapped>>
  /\ UNCHANGED <<frameObjects, spilt, frameMarks, wrapped>>

(* Mutant: every end empties the frame, not only the outermost. *)
UsedAfterEndMutant(d) == 0

UsedAfterEnd(d) == IF d = 0 THEN 0 ELSE used

FrameEnd ==
  /\ FrameCall /\ nest > 0
  /\ nest' = nest - 1
  /\ IF depth > 0
     THEN depth' = depth - 1 /\ used' = UsedAfterEnd(depth')
     ELSE UNCHANGED <<depth, used>>
  /\ IF nest' = 0
     THEN frameObjects' = <<>> /\ frameMarks' = <<>> /\ unmapped' = FALSE /\ wrapped' = FALSE
     ELSE UNCHANGED <<frameObjects, frameMarks, unmapped, wrapped>>
  /\ UNCHANGED <<fb, cap, spilt>>

FrameMark ==
  /\ FrameCall /\ nest > 0
  /\ frameMarks' = Append(frameMarks, [mark |-> used, held |-> Len(frameObjects)])
  /\ UNCHANGED <<depth, fb, used, cap, frameObjects, spilt, nest, unmapped, wrapped>>

FrameRollback ==
  /\ FrameCall /\ nest > 0
  /\ \E k \in DOMAIN frameMarks :
       /\ used' = frameMarks[k].mark
       /\ frameObjects' = SubSeq(frameObjects, 1, frameMarks[k].held)
       /\ frameMarks' = SubSeq(frameMarks, 1, k)
  /\ UNCHANGED <<depth, fb, cap, spilt, nest, unmapped, wrapped>>

Word(n) == n % SizeRange

(* n + 15 may pass the end of a size_t: then 16 bytes do for any n. *)
Needed(n) ==
  LET grains == Word(n + Grain - 1) \div Grain
  IN  IF grains = 0 THEN Grain ELSE grains * Grain

(* fu + need may as well, and looks small again. *)
Wraps(n) == n + Grain - 1 >= SizeRange \/ used + Needed(n) >= SizeRange

(* What does not fit goes to the heap, where the end of the frame does not    *)
(* reach it.                                                                 *)
FrameAlloc ==
  /\ FrameCall /\ nest > 0
  /\ \E n \in FrameSizes :
       IF Word(used + Needed(n)) <= cap
       THEN /\ frameObjects' = Append(frameObjects, [off |-> used, bytes |-> n])
            /\ used' = Word(used + Needed(n))
            /\ wrapped' = (wrapped \/ Wraps(n))
            /\ UNCHANGED spilt
       ELSE spilt' = spilt + 1 /\ UNCHANGED <<frameObjects, used, wrapped>>
  /\ UNCHANGED <<depth, fb, cap, frameMarks, nest, unmapped>>

FramesNext == FrameBegin \/ FrameEnd \/ FrameMark \/ FrameRollback \/ FrameAlloc

-----------------------------------------------------------------------------
(* What a caller has allocated since it opened its outermost frame, and has   *)
(* not rolled back, lies in mapped memory, aligned, one object after another  *)
(* without a common byte: an inner end takes nothing of an outer frame, and a *)
(* rollback only what came after the mark (galloc.c 136-149). Excepted is a  *)
(* frame whose mmap failed: ga_frame_alloc then hands out offsets from NULL,  *)
(* because fc was set before mmap was tried (line 138); and one that was      *)
(* asked for a size within a frame of the largest size_t: lines 145 and 146   *)
(* overflow.                                                                 *)
FrameObjectsHold ==
  ~unmapped /\ ~wrapped =>
    \A k \in DOMAIN frameObjects :
      LET o == frameObjects[k]
          limit == IF k < Len(frameObjects) THEN frameObjects[k + 1].off ELSE used
      IN  fb /\ o.off % Grain = 0 /\ o.off + o.bytes <= limit /\ limit <= FrameCap

(* What overflows the frame goes to the common heap (the comment at galloc.c *)
(* line 147): whatever the frame has handed out lies inside it. It does not  *)
(* hold where the sizes themselves overflow.                                 *)
OverflowGoesToHeap ==
  \A k \in DOMAIN frameObjects : frameObjects[k].off + frameObjects[k].bytes <= FrameCap

-----------------------------------------------------------------------------
(***************************************************************************)
(* The object pools of src/alloc/galloc/galloc.c, lines 151-182. Alloc and *)
(* free hold the pool's mutex from the first to the last access, so each   *)
(* is one action, whichever thread calls it. free_list is one array: the   *)
(* entries from used on are free, those below it are stale.                *)
(***************************************************************************)
CONSTANTS PoolCaps,       \* capacities of a pool
          MaxPoolCalls

ASSUME PoolAssumption == PoolCaps \subseteq Nat \ {0} /\ MaxPoolCalls \in Nat

VARIABLES pool,           \* "none", "open", "refused", "crashed" or "destroyed"
          poolCap, freeList, poolUsed,
          handed,         \* the objects callers have
          poolCalls

poolVars == <<pool, poolCap, freeList, poolUsed, handed, poolCalls>>

Slots == 0 .. poolCap - 1

PoolStart(on) ==
  /\ pool = "none"
  /\ poolCap \in (IF on THEN PoolCaps ELSE {0})
  /\ freeList = [i \in {} |-> 0]
  /\ poolUsed = 0 /\ handed = {} /\ poolCalls = 0

PoolCall == poolCalls < MaxPoolCalls /\ poolCalls' = poolCalls + 1

PoolCreate ==
  /\ PoolCall /\ pool = "none"
  /\ \/ pool' = "refused" /\ UNCHANGED freeList              \* MAP_FAILED
     \/ pool' = "crashed" /\ UNCHANGED freeList              \* NULL of ga_alloc is written to
     \/ pool' = "open" /\ freeList' = [i \in Slots |-> i]
  /\ poolUsed' = 0
  /\ UNCHANGED <<poolCap, handed>>

PoolAlloc ==
  /\ PoolCall /\ pool = "open"
  /\ IF poolUsed < poolCap
     THEN handed' = handed \union {freeList[poolUsed]} /\ poolUsed' = poolUsed + 1
     ELSE UNCHANGED <<handed, poolUsed>>                     \* NULL
  /\ UNCHANGED <<pool, poolCap, freeList>>

(* Mutant: the entry is written before the count goes down (`used--` behind). *)
SlotOfMutant(u) == IF u < poolCap THEN u ELSE poolCap - 1

(* Where a freed object goes when u are in use. *)
SlotOf(u) == u - 1

PoolFree ==
  /\ PoolCall /\ pool = "open"
  /\ \E o \in handed :
       /\ handed' = handed \ {o}
       /\ IF poolUsed > 0
          THEN /\ freeList' = [freeList EXCEPT ![SlotOf(poolUsed)] = o]
               /\ poolUsed' = poolUsed - 1
          ELSE UNCHANGED <<freeList, poolUsed>>
  /\ UNCHANGED <<pool, poolCap>>

(* Callers may still have objects; they are gone with the pool. *)
PoolDestroy ==
  /\ PoolCall /\ pool = "open"
  /\ pool' = "destroyed" /\ handed' = {}
  /\ UNCHANGED <<poolCap, freeList, poolUsed>>

PoolNext == PoolCreate \/ PoolAlloc \/ PoolFree \/ PoolDestroy

-----------------------------------------------------------------------------
(* Every object of an open pool is with one caller or free once, in whatever  *)
(* order callers give back: the free part of the array is exactly what is not *)
(* handed out, although freeing overwrites an entry another object had        *)
(* (galloc.c 166-177).                                                       *)
PoolPartition ==
  LET free == {freeList[i] : i \in poolUsed .. poolCap - 1}
  IN  pool = "open" =>
        /\ free \intersect handed = {} /\ free \union handed = Slots
        /\ \A i, j \in poolUsed .. poolCap - 1 : freeList[i] = freeList[j] => i = j

(* The memory of frames and that of pools, the two ways of galloc.c besides   *)
(* its heap to hand out memory without a header (galloc.c 130-182).           *)
NoOverlap == FrameObjectsHold /\ PoolPartition
=============================================================================
