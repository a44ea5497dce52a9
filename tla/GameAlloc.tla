----------------------------- MODULE GameAlloc -----------------------------
(***************************************************************************)
(* The heap of src/alloc/galloc/galloc.c shared by several threads. Small  *)
(* blocks are carved from regions a thread owns; a freed block goes to the *)
(* private list of its owner if the owner frees it, and otherwise to a     *)
(* pending list, which any thread takes over as a whole when its private   *)
(* list is empty. Large blocks are regions of their own. One mutex, L,     *)
(* guards the pending lists, the table of regions and the thread numbers;  *)
(* private lists and regions being carved are thread-local. ga_realloc is  *)
(* ga_alloc and ga_free by one thread, and a thread that ends is one that  *)
(* makes no more calls: its numbers and lists are not used again.          *)
(*                                                                         *)
(* A thread runs one call at a time. A stretch of code under L is one      *)
(* action that ends with the unlock; taking L, and whatever a thread does  *)
(* to its own lists without it, are actions of their own. The links of the *)
(* lists, which the code keeps in the free blocks, are kept as sequences.  *)
(***************************************************************************)
EXTENDS Integers, Sequences, FiniteSets

CONSTANTS Threads,
          Classes,        \* size classes
          Regions,        \* what mmap can hand out
          PerRegion,      \* how many blocks a region is carved into
          RMax,           \* RMAX, the size of the table of regions
          MaxCalls,       \* bound on the calls of a behaviour
          None            \* NULL, and no thread

ASSUME GameAllocAssumption ==
  /\ None \notin Threads \union Regions
  /\ PerRegion \in Nat \ {0} /\ RMax \in Nat /\ MaxCalls \in Nat

Block  == Regions \X (1 .. PerRegion)
Header == [kind : {"class", "large", "aligned"}, cls : Classes \union {None}, own : Nat,
           free : BOOLEAN]
Fresh  == [base |-> None, off |-> 0, cap |-> 0]     \* a zeroed Arena

VARIABLES lock,       \* who holds L
          tid, gnext,
          arena,      \* ta[c] of each thread: the region being carved
          free,       \* ta[c].free_head of each thread: its private list
          pend,       \* pend[c].free_head
          regs,       \* regs[0 .. nreg - 1]
          mapped,     \* the regions of the process
          header,     \* the headers written so far
          live,       \* blocks handed out and not given back
          pc, arg,    \* where a thread stands in its call, and what it is about
          calls

vars == <<lock, tid, gnext, arena, free, pend, regs, mapped, header, live, pc, arg, calls>>

own    == <<arena, free>>
shared == <<pend, regs, mapped>>

-----------------------------------------------------------------------------
Init ==
  /\ lock = None
  /\ tid = [t \in Threads |-> -1]
  /\ gnext = 1
  /\ arena = [t \in Threads |-> [c \in Classes |-> Fresh]]
  /\ free = [t \in Threads |-> [c \in Classes |-> <<>>]]
  /\ pend = [c \in Classes |-> <<>>]
  /\ regs = <<>>
  /\ mapped = {}
  /\ header = [b \in {} |-> {}]
  /\ live = {}
  /\ pc = [t \in Threads |-> "idle"]
  /\ arg = [t \in Threads |-> None]
  /\ calls = 0

At(t, place)  == pc[t] = place
GoTo(t, place) == pc' = [pc EXCEPT ![t] = place]

Call(t, place, x) ==
  /\ At(t, "idle")
  /\ calls < MaxCalls
  /\ calls' = calls + 1
  /\ GoTo(t, place)
  /\ arg' = [arg EXCEPT ![t] = x]
  /\ UNCHANGED <<lock, tid, gnext, own, shared, header>>

CallAlloc(t, c) ==
  /\ Call(t, IF tid[t] < 0 THEN "wait_id" ELSE "pop", c)
  /\ UNCHANGED live

CallLarge(t) == Call(t, "wait_large", None) /\ UNCHANGED live

(* An alignment that is no power of two returns at once. *)
CallAligned(t) == Call(t, "wait_aligned", None) /\ UNCHANGED live

(* A block is given back by any thread it was passed to, whatever that thread *)
(* has called before.                                                        *)
CallFree(t, b) ==
  /\ b \in live
  /\ Call(t, "wait_free", b)
  /\ live' = live \ {b}

(* pthread_mutex_lock: a thread that holds L already waits for itself. *)
Waits == [wait_id |-> "set_id", wait_take |-> "take", wait_map |-> "map",
          wait_large |-> "map_large", wait_aligned |-> "map_aligned", wait_free |-> "look", wait_self |-> "push"]

Acquire(t) ==
  /\ pc[t] \in DOMAIN Waits
  /\ lock = None
  /\ lock' = t
  /\ GoTo(t, Waits[pc[t]])
  /\ UNCHANGED <<tid, gnext, own, shared, header, live, arg, calls>>

Unlock == lock' = None

-----------------------------------------------------------------------------
(* ga_alloc. *)

(* Mutant: the number is taken without unlocking. *)
SetIdMutant(t) ==
  /\ At(t, "set_id")
  /\ tid' = [tid EXCEPT ![t] = gnext]
  /\ gnext' = gnext + 1
  /\ GoTo(t, "pop")
  /\ UNCHANGED <<lock, own, shared, header, live, arg, calls>>

(* Mutant: the counter is left where it is. *)
SetIdSameMutant(t) ==
  /\ At(t, "set_id")
  /\ tid' = [tid EXCEPT ![t] = gnext]
  /\ UNCHANGED gnext
  /\ Unlock
  /\ GoTo(t, "pop")
  /\ UNCHANGED <<own, shared, header, live, arg, calls>>

SetId(t) ==
  /\ At(t, "set_id")
  /\ tid' = [tid EXCEPT ![t] = gnext]
  /\ gnext' = gnext + 1
  /\ Unlock
  /\ GoTo(t, "pop")
  /\ UNCHANGED <<own, shared, header, live, arg, calls>>

HandOut(t, b) ==
  /\ live' = live \union {b}
  /\ GoTo(t, "idle")
  /\ arg' = [arg EXCEPT ![t] = None]

Mine(t) == free[t][arg[t]]

(* Mutant: the flag of a block taken from a list stays set. *)
PopMutant(t) ==
  /\ Mine(t) # <<>>
  /\ free' = [free EXCEPT ![t][arg[t]] = Tail(@)]
  /\ HandOut(t, Head(Mine(t)))
  /\ UNCHANGED header

Pop(t) ==
  /\ Mine(t) # <<>>
  /\ free' = [free EXCEPT ![t][arg[t]] = Tail(@)]
  /\ header' = [header EXCEPT ![Head(Mine(t))].free = FALSE]
  /\ HandOut(t, Head(Mine(t)))

PopPrivate(t) ==
  /\ At(t, "pop")
  /\ \/ Pop(t)
     \/ Mine(t) = <<>> /\ GoTo(t, "wait_take") /\ UNCHANGED <<free, header, live, arg>>
  /\ UNCHANGED <<lock, tid, gnext, arena, shared, calls>>

(* Mutant: the list is copied and not moved. *)
TakePendingMutant(t) ==
  /\ At(t, "take")
  /\ IF pend[arg[t]] # <<>>
     THEN free' = [free EXCEPT ![t][arg[t]] = pend[arg[t]]]
     ELSE UNCHANGED free
  /\ Unlock
  /\ GoTo(t, "pop_taken")
  /\ UNCHANGED <<tid, gnext, arena, pend, regs, mapped, header, live, arg, calls>>

TakePending(t) ==
  /\ At(t, "take")
  /\ IF pend[arg[t]] # <<>>
     THEN /\ free' = [free EXCEPT ![t][arg[t]] = pend[arg[t]]]
          /\ pend' = [pend EXCEPT ![arg[t]] = <<>>]
     ELSE UNCHANGED <<free, pend>>
  /\ Unlock
  /\ GoTo(t, "pop_taken")
  /\ UNCHANGED <<tid, gnext, arena, regs, mapped, header, live, arg, calls>>

PopTaken(t) ==
  /\ At(t, "pop_taken")
  /\ \/ Pop(t)
     \/ Mine(t) = <<>> /\ GoTo(t, "bump") /\ UNCHANGED <<free, header, live, arg>>
  /\ UNCHANGED <<lock, tid, gnext, arena, shared, calls>>

(* A thread carves the next block of its region, and writes its header. *)
Fits(t)  == arena[t][arg[t]].off < arena[t][arg[t]].cap
NextOf(t) == <<arena[t][arg[t]].base, arena[t][arg[t]].off + 1>>

Small(t)   == [kind |-> "class", cls |-> arg[t], own |-> tid[t], free |-> FALSE]
Whole(k)   == [kind |-> k, cls |-> None, own |-> 0, free |-> FALSE]

Written(b, h) == [x \in DOMAIN header \union {b} |-> IF x = b THEN h ELSE header[x]]

Carve(t) ==
  /\ Fits(t)
  /\ arena' = [arena EXCEPT ![t][arg[t]].off = @ + 1]
  /\ header' = Written(NextOf(t), Small(t))
  /\ HandOut(t, NextOf(t))

Bump(t) ==
  /\ At(t, "bump")
  /\ \/ Carve(t)
     \/ ~Fits(t) /\ GoTo(t, "wait_map") /\ UNCHANGED <<arena, header, live, arg>>
  /\ UNCHANGED <<lock, tid, gnext, free, shared, calls>>

RegAdd(r) == regs' = IF Len(regs) < RMax THEN Append(regs, r) ELSE regs

(* Mutant: the entry moved into the gap is lost. *)
RegDelMutant(r) == regs' = SubSeq(regs, 1, Len(regs) - 1)

(* The last entry takes the place of the one deleted. *)
RegDel(r) ==
  regs' = [k \in 1 .. Len(regs) - 1 |-> IF regs[k] = r THEN regs[Len(regs)] ELSE regs[k]]

(* mmap of a region to carve; it fails when there is none left. *)
MapRegion(t) ==
  /\ At(t, "map")
  /\ \/ \E r \in Regions \ mapped :
          /\ mapped' = mapped \union {r}
          /\ arena' = [arena EXCEPT ![t][arg[t]] = [base |-> r, off |-> 0, cap |-> PerRegion]]
          /\ RegAdd(r)
     \/ Regions = mapped /\ UNCHANGED <<mapped, arena, regs>>
  /\ Unlock
  /\ GoTo(t, "bump_again")
  /\ UNCHANGED <<tid, gnext, free, pend, header, live, arg, calls>>

BumpAgain(t) ==
  /\ At(t, "bump_again")
  /\ \/ Carve(t)
     \/ /\ ~Fits(t)
        /\ GoTo(t, "idle")
        /\ arg' = [arg EXCEPT ![t] = None]
        /\ UNCHANGED <<arena, header, live>>
  /\ UNCHANGED <<lock, tid, gnext, free, shared, calls>>

(* mmap of a region that is one block, with the header of its kind. *)
MapWhole(t, k) ==
  /\ \/ \E r \in Regions \ mapped :
          /\ mapped' = mapped \union {r}
          /\ RegAdd(r)
          /\ header' = Written(<<r, 1>>, Whole(k))
          /\ live' = live \union {<<r, 1>>}
     \/ Regions = mapped /\ UNCHANGED <<mapped, regs, header, live>>
  /\ Unlock
  /\ GoTo(t, "idle")
  /\ UNCHANGED <<tid, gnext, own, pend, arg, calls>>

MapLarge(t)   == At(t, "map_large") /\ MapWhole(t, "large")
MapAligned(t) == At(t, "map_aligned") /\ MapWhole(t, "aligned")

-----------------------------------------------------------------------------
(* ga_free. *)

Listed(r) == \E k \in DOMAIN regs : regs[k] = r

Done(t) == GoTo(t, "idle") /\ arg' = [arg EXCEPT ![t] = None]

(* A large or aligned block leaves the table before it is unmapped. An         *)
(* address that is not in the table is passed to the free of the C library.   *)
LookOther(t) ==
  /\ At(t, "look")
  /\ ~Listed(arg[t][1]) \/ header[arg[t]].kind # "class"
  /\ IF Listed(arg[t][1])
     THEN RegDel(arg[t][1]) /\ GoTo(t, "unmap")
     ELSE UNCHANGED regs /\ GoTo(t, "libc")
  /\ Unlock
  /\ UNCHANGED <<tid, gnext, own, pend, mapped, header, live, arg, calls>>

Unmap(t) ==
  /\ At(t, "unmap")
  /\ mapped' = mapped \ {arg[t][1]}
  /\ header' = [b \in {x \in DOMAIN header : x[1] # arg[t][1]} |-> header[b]]
  /\ Done(t)
  /\ UNCHANGED <<lock, tid, gnext, own, pend, regs, live, calls>>

(* The block is flagged; then myid() asks for L again if the thread has no   *)
(* number yet. A block that is flagged already is left alone.                *)
LookSmall(t) ==
  /\ At(t, "look")
  /\ Listed(arg[t][1])
  /\ header[arg[t]].kind = "class"
  /\ IF header[arg[t]].free
     THEN Unlock /\ Done(t) /\ UNCHANGED header
     ELSE /\ header' = [header EXCEPT ![arg[t]].free = TRUE]
          /\ GoTo(t, IF tid[t] < 0 THEN "wait_self" ELSE "push")
          /\ UNCHANGED <<lock, arg>>
  /\ UNCHANGED <<tid, gnext, own, shared, live, calls>>

Push(t) ==
  LET b == arg[t]
      c == header[b].cls
  IN  /\ At(t, "push")
      /\ IF header[b].own = tid[t]
         THEN free' = [free EXCEPT ![t][c] = <<b>> \o @] /\ UNCHANGED pend
         ELSE pend' = [pend EXCEPT ![c] = <<b>> \o @] /\ UNCHANGED free
      /\ Unlock
      /\ Done(t)
      /\ UNCHANGED <<tid, gnext, arena, regs, mapped, header, live, calls>>

-----------------------------------------------------------------------------
Step(t) ==
  \/ Acquire(t)
  \/ SetId(t) \/ PopPrivate(t) \/ TakePending(t) \/ PopTaken(t)
  \/ Bump(t) \/ MapRegion(t) \/ BumpAgain(t) \/ MapLarge(t) \/ MapAligned(t)
  \/ LookOther(t) \/ Unmap(t) \/ LookSmall(t) \/ Push(t)

Next ==
  \E t \in Threads :
    \/ \E c \in Classes : CallAlloc(t, c)
    \/ CallLarge(t) \/ CallAligned(t)
    \/ \E b \in live : CallFree(t, b)
    \/ Step(t)

(* Every thread in a call runs on. L need not be fair: calls are bounded, so *)
(* nobody is overtaken for ever.                                             *)
Spec == Init /\ [][Next]_vars /\ \A t \in Threads : WF_vars(Step(t))

-----------------------------------------------------------------------------
Outside == {"idle", "pop", "pop_taken", "bump", "bump_again", "unmap", "libc"}
Inside  == {Waits[w] : w \in DOMAIN Waits} \union {"wait_self"}
Given   == {"wait_free", "look", "wait_self", "push", "unmap", "libc"}

TypeOK ==
  /\ lock \in Threads \union {None}
  /\ gnext \in Nat
  /\ \A t \in Threads : tid[t] = -1 \/ tid[t] \in 1 .. gnext - 1
  /\ \A t \in Threads, c \in Classes : free[t][c] \in Seq(Block) /\ pend[c] \in Seq(Block)
  /\ \A t \in Threads, c \in Classes : arena[t][c] \in
       {Fresh} \union [base : Regions, off : 0 .. PerRegion, cap : {PerRegion}]
  /\ regs \in Seq(Regions) /\ Len(regs) <= RMax
  /\ mapped \subseteq Regions
  /\ live \subseteq DOMAIN header
  /\ DOMAIN header \subseteq Block /\ \A b \in DOMAIN header : header[b] \in Header
  /\ \A t \in Threads : lock = t <=> pc[t] \in Inside
  /\ calls \in 0 .. MaxCalls

(* Where a block is: in private lists, in pending lists, with a caller, on    *)
(* its way through ga_free.                                                  *)
In(b, s)   == \E k \in DOMAIN s : s[k] = b
Private(b) == {p \in Threads \X Classes : In(b, free[p[1]][p[2]])}
Pending(b) == {c \in Classes : In(b, pend[c])}
Freeing(b) == {t \in Threads : pc[t] \in Given /\ arg[t] = b}
Handed(b)  == {b} \intersect live
NoLoop(s)  == \A i, j \in DOMAIN s : s[i] = s[j] => i = j

(* A block is with one caller, or in one list, once, or on its way there: no *)
(* interleaving hands it out twice, loses it, or ties a list into a loop     *)
(* (galloc.c lines 58-102).                                                  *)
OnePlace ==
  /\ \A b \in DOMAIN header :
       Cardinality(Private(b)) + Cardinality(Pending(b)) + Cardinality(Freeing(b))
         + Cardinality(Handed(b)) = 1
  /\ \A c \in Classes : NoLoop(pend[c]) /\ \A t \in Threads : NoLoop(free[t][c])

(* The header of a block tells the truth about it whenever ga_free may read  *)
(* it: its flag is set exactly when it is given back, it is in lists of its  *)
(* class only, and the owner's number is that of the thread that carved it.  *)
HeadersTell ==
  \A b \in DOMAIN header :
    /\ header[b].free <=> \/ Private(b) # {} \/ Pending(b) # {}
                          \/ \E t \in Freeing(b) : pc[t] \in {"wait_self", "push"}
    /\ \A c \in Pending(b) \union {p[2] : p \in Private(b)} : header[b].cls = c
    /\ \A t \in Threads, c \in Classes :
         arena[t][c].base = b[1] => header[b].own = tid[t] /\ header[b].cls = c

(* No block of the heap is passed to the free of the C library (galloc.h,    *)
(* line 7: the heap does not depend on malloc): the table of regions loses   *)
(* no region that is in use.                                                 *)
NeverToLibc == \A t \in Threads : pc[t] # "libc"

(* No thread waits for a mutex that it holds (galloc.h, line 4: MT-safe).    *)
NoSelfDeadlock == \A t \in Threads : pc[t] \in DOMAIN Waits => lock # t

(* The one way to do so is to free a small block without a number: that is    *)
(* given by ga_alloc of a small block only, so a thread that allocated large  *)
(* or aligned blocks, or none, waits for itself in myid (galloc.c 40, 62,     *)
(* 72-77, 93, 114-123). A thread with a number never does.                   *)
OnlyUnnumberedDeadlock ==
  \A t \in Threads :
    pc[t] \in DOMAIN Waits /\ lock = t => tid[t] = -1 /\ header[arg[t]].kind = "class"

(* Every call returns, unless a thread without a number has freed a small     *)
(* block and so waits for itself with L held, and all others for it.         *)
HeapStuck == \E t \in Threads : pc[t] = "wait_self"

AllocCallsReturn == \A t \in Threads : pc[t] # "idle" ~> pc[t] = "idle" \/ HeapStuck

(* A block, wherever two threads pass it, is in one place, its header says    *)
(* which, and the way back for it is into the allocator and not to the free  *)
(* of the C library (galloc.c 30-128).                                       *)
HeapSafe == TypeOK /\ OnePlace /\ HeadersTell /\ NeverToLibc
=============================================================================
