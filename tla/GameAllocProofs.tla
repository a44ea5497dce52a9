-------------------------- MODULE GameAllocProofs --------------------------
(***************************************************************************)
(* Proofs about the heap of galloc.c for any threads, size classes and     *)
(* regions, and any bound on the calls.                                    *)
(*                                                                         *)
(* HeapSafe is not inductive. What it needs besides is stated in HeapInv:  *)
(* where a thread stands tells what it holds (Standing), a region belongs  *)
(* to one size class of one thread or is one block (Carved, Alone), the    *)
(* lists keep blocks of their class (Kept), every block has one of four    *)
(* places (Placed), and a region leaves the table only for good (Leaving). *)
(* That the free of the C library is never reached holds as long as the    *)
(* table cannot overflow, and adds InTable.                                *)
(***************************************************************************)
EXTENDS GameAlloc, FiniteSetTheorems, TLAPS

Allocating == {"wait_id", "set_id", "pop", "wait_take", "take", "pop_taken", "bump",
               "wait_map", "map", "bump_again"}
Mapping    == {"wait_large", "map_large", "wait_aligned", "map_aligned"}
ArenaType  == {Fresh} \union [base : Regions, off : 0 .. PerRegion, cap : {PerRegion}]

Typed ==
  /\ lock \in Threads \union {None}
  /\ gnext \in Nat \ {0}
  /\ tid \in [Threads -> Int] /\ \A t \in Threads : tid[t] = -1 \/ tid[t] \in 1 .. gnext - 1
  /\ arena \in [Threads -> [Classes -> ArenaType]]
  /\ free \in [Threads -> [Classes -> Seq(Block)]]
  /\ pend \in [Classes -> Seq(Block)]
  /\ regs \in Seq(Regions) /\ Len(regs) <= RMax
  /\ mapped \subseteq Regions
  /\ header \in [DOMAIN header -> Header] /\ DOMAIN header \subseteq Block
  /\ live \subseteq DOMAIN header
  /\ pc \in [Threads -> {"idle"} \union Allocating \union Mapping \union Given]
  /\ arg \in [Threads -> Classes \union Block \union {None}]
  /\ calls \in 0 .. MaxCalls

(* The mutex, and what the argument of a call is. A thread that looks at the  *)
(* pending list, or takes it, has nothing in its own.                        *)
Stands(t) ==
  /\ pc[t] \in Allocating => arg[t] \in Classes
  /\ pc[t] \in Given => arg[t] \in DOMAIN header
  /\ pc[t] \in {"wait_take", "take"} => free[t][arg[t]] = <<>>
  /\ pc[t] \in {"wait_self", "push"} => header[arg[t]].kind = "class"
  /\ pc[t] \in {"wait_id", "set_id"} => tid[t] = -1
  /\ pc[t] \in Allocating \ {"wait_id", "set_id"} => tid[t] # -1

Standing == \A t \in Threads : (lock = t <=> pc[t] \in Inside) /\ Stands(t)

(* What a thread carves is its own, and the blocks behind its mark are not    *)
(* there yet.                                                                *)
Base(t, c) == arena[t][c].base

CarvedFrom(b, t, c) ==
  /\ header[b].kind = "class" /\ header[b].cls = c
  /\ header[b].own = tid[t] /\ b[2] <= arena[t][c].off

Carved ==
  /\ \A t \in Threads, c \in Classes :
       /\ tid[t] = -1 => arena[t][c] = Fresh
       /\ Base(t, c) # None => Base(t, c) \in mapped
  /\ \A t, u \in Threads, c, d \in Classes :
       Base(t, c) # None /\ Base(u, d) = Base(t, c) => u = t /\ d = c
  /\ \A t \in Threads, c \in Classes, b \in DOMAIN header :
       b[1] = Base(t, c) => CarvedFrom(b, t, c)

(* A large or an aligned block has a region to itself; a small one has a      *)
(* class.                                                                    *)
Alone ==
  \A b \in DOMAIN header :
    /\ b[1] \in mapped
    /\ IF header[b].kind = "class" THEN header[b].cls \in Classes
       ELSE \A x \in DOMAIN header : x[1] = b[1] => x = b

Table ==
  /\ \A k \in DOMAIN regs : regs[k] \in mapped
  /\ \A j, k \in DOMAIN regs : regs[j] = regs[k] => j = k

(* Blocks of class c. *)
OfClass(b, c) == b \in DOMAIN header /\ header[b].kind = "class" /\ header[b].cls = c

Kept ==
  \A c \in Classes :
    /\ NoLoop(pend[c]) /\ \A b : In(b, pend[c]) => OfClass(b, c)
    /\ \A t \in Threads : NoLoop(free[t][c]) /\ \A b : In(b, free[t][c]) => OfClass(b, c)

Returns(t, b) == pc[t] \in Given /\ arg[t] = b
Owns(t, b)    == \E c \in Classes : In(b, free[t][c])
Awaits(b)     == \E c \in Classes : In(b, pend[c])

Placed ==
  \A b \in DOMAIN header :
    /\ b \in live \/ Awaits(b) \/ \E t \in Threads : Returns(t, b) \/ Owns(t, b)
    /\ b \in live => ~Awaits(b) /\ \A t \in Threads : ~Returns(t, b) /\ ~Owns(t, b)
    /\ Awaits(b) => \A t \in Threads : ~Returns(t, b) /\ ~Owns(t, b)
    /\ \A t, u \in Threads : Returns(t, b) => ~Owns(u, b)
    /\ \A t, u \in Threads : t # u => ~(Returns(t, b) /\ Returns(u, b))
    /\ \A t, u \in Threads : t # u => ~(Owns(t, b) /\ Owns(u, b))

Marks(t, b) == pc[t] \in {"wait_self", "push"} /\ arg[t] = b
IsFree(b)   == Awaits(b) \/ \E t \in Threads : Owns(t, b) \/ Marks(t, b)

Flagged == \A b \in DOMAIN header : header[b].free <=> IsFree(b)

Leaving ==
  \A t \in Threads : pc[t] = "unmap" =>
    header[arg[t]].kind # "class" /\ ~Listed(arg[t][1])

HeapInv ==
  /\ Typed /\ Standing /\ Carved /\ Alone /\ Table /\ Kept /\ Placed /\ Flagged /\ Leaving

(* With a table that is large enough every region in use is in it. *)
InTable ==
  /\ \A b \in DOMAIN header : (\A t \in Threads : ~(pc[t] = "unmap" /\ arg[t] = b)) => Listed(b[1])
  /\ \A t \in Threads, c \in Classes : Base(t, c) # None => Listed(Base(t, c))
  /\ \A t \in Threads : pc[t] # "libc"

TableSuffices == IsFiniteSet(Regions) /\ Cardinality(Regions) <= RMax

-----------------------------------------------------------------------------
(* Lists of free blocks: what is in one without its head, and behind a new    *)
(* head.                                                                     *)
LEMMA InEmpty == \A b : ~In(b, <<>>)
  BY DEF In

LEMMA LoopEmpty == NoLoop(<<>>)
  BY DEF NoLoop

LEMMA HeadIn ==
  ASSUME NEW S, NEW s \in Seq(S), s # <<>>
  PROVE  In(Head(s), s) /\ Head(s) \in S
  BY DEF In

LEMMA TailKeeps ==
  ASSUME NEW S, NEW s \in Seq(S), s # <<>>, NoLoop(s)
  PROVE  /\ Tail(s) \in Seq(S) /\ NoLoop(Tail(s))
         /\ \A b : In(b, Tail(s)) <=> In(b, s) /\ b # Head(s)
  <1>1. /\ Tail(s) \in Seq(S) /\ Len(Tail(s)) = Len(s) - 1 /\ Len(s) \in Nat \ {0}
        /\ \A i \in 1 .. Len(s) - 1 : Tail(s)[i] = s[i + 1]
        /\ DOMAIN s = 1 .. Len(s) /\ DOMAIN Tail(s) = 1 .. Len(s) - 1 /\ Head(s) = s[1]
    OBVIOUS
  <1>2. NoLoop(Tail(s))
    BY <1>1 DEF NoLoop
  <1>3. ASSUME NEW b PROVE In(b, Tail(s)) <=> In(b, s) /\ b # Head(s)
    <2>1. ASSUME In(b, Tail(s)) PROVE In(b, s) /\ b # Head(s)
      <3>1. PICK k \in 1 .. Len(s) - 1 : s[k + 1] = b
        BY <1>1, <2>1 DEF In
      <3>2. k + 1 \in 1 .. Len(s) /\ 1 \in 1 .. Len(s) /\ k + 1 # 1
        BY <1>1
      <3> QED
        BY <1>1, <3>1, <3>2 DEF In, NoLoop
    <2>2. ASSUME In(b, s), b # Head(s) PROVE In(b, Tail(s))
      <3>1. PICK k \in 1 .. Len(s) : s[k] = b
        BY <1>1, <2>2 DEF In
      <3>2. k - 1 \in 1 .. Len(s) - 1 /\ Tail(s)[k - 1] = b
        BY <1>1, <2>2, <3>1
      <3> QED
        BY <1>1, <3>2 DEF In
    <2> QED
      BY <2>1, <2>2
  <1> QED
    BY <1>1, <1>2, <1>3

LEMMA PushKeeps ==
  ASSUME NEW S, NEW s \in Seq(S), NEW h \in S, ~In(h, s), NoLoop(s)
  PROVE  /\ <<h>> \o s \in Seq(S) /\ NoLoop(<<h>> \o s)
         /\ \A b : In(b, <<h>> \o s) <=> In(b, s) \/ b = h
  <1> DEFINE p == <<h>> \o s
  <1>1. /\ p \in Seq(S) /\ Len(p) = Len(s) + 1 /\ Len(s) \in Nat
        /\ p[1] = h /\ \A i \in 1 .. Len(s) : p[i + 1] = s[i]
        /\ DOMAIN s = 1 .. Len(s) /\ DOMAIN p = 1 .. Len(s) + 1
    OBVIOUS
  <1>2. \A i \in 1 .. Len(s) + 1 : i = 1 \/ (i - 1 \in 1 .. Len(s) /\ p[i] = s[i - 1])
    <2> TAKE i \in 1 .. Len(s) + 1
    <2>1. i # 1 => i - 1 \in 1 .. Len(s) /\ (i - 1) + 1 = i
      BY <1>1
    <2> QED
      BY <1>1, <2>1
  <1> HIDE DEF p
  <1>3. NoLoop(p)
    <2> SUFFICES ASSUME NEW i \in 1 .. Len(s) + 1, NEW j \in 1 .. Len(s) + 1, p[i] = p[j]
                 PROVE  i = j
      BY <1>1 DEF NoLoop
    <2>1. \A k \in 1 .. Len(s) : s[k] # h
      BY <1>1 DEF In
    <2>2. CASE i = 1 \/ j = 1
      BY <1>1, <1>2, <2>1, <2>2
    <2>3. CASE i # 1 /\ j # 1
      <3>1. /\ i - 1 \in 1 .. Len(s) /\ j - 1 \in 1 .. Len(s) /\ s[i - 1] = s[j - 1]
        BY <1>2, <2>3
      <3>2. i - 1 = j - 1
        BY <1>1, <3>1 DEF NoLoop
      <3> QED
        BY <3>2
    <2> QED
      BY <2>2, <2>3
  <1>4. ASSUME NEW b PROVE In(b, p) <=> In(b, s) \/ b = h
    <2>1. ASSUME In(b, p) PROVE In(b, s) \/ b = h
      <3>1. PICK k \in 1 .. Len(s) + 1 : p[k] = b
        BY <1>1, <2>1 DEF In
      <3>2. k = 1 \/ (k - 1 \in DOMAIN s /\ s[k - 1] = b)
        BY <1>1, <1>2, <3>1
      <3> QED
        BY <1>1, <3>1, <3>2 DEF In
    <2>2. In(b, s) => In(b, p)
      <3>1. \A i \in 1 .. Len(s) : i + 1 \in 1 .. Len(s) + 1
        BY <1>1
      <3> QED
        BY <1>1, <3>1 DEF In
    <2>3. b = h => In(b, p)
      <3>1. 1 \in 1 .. Len(s) + 1
        BY <1>1
      <3> QED
        BY <1>1, <3>1 DEF In
    <2> QED
      BY <2>1, <2>2, <2>3
  <1> QED
    BY <1>1, <1>3, <1>4 DEF p

(* The table: an entry appended if there is room, one deleted by the last.    *)
LEMMA AddKeeps ==
  ASSUME NEW S, regs \in Seq(S), Len(regs) <= RMax, NEW r \in S, RegAdd(r),
         ~Listed(r), \A j, k \in DOMAIN regs : regs[j] = regs[k] => j = k
  PROVE  /\ regs' \in Seq(S) /\ Len(regs') <= RMax
         /\ \A j, k \in DOMAIN regs' : regs'[j] = regs'[k] => j = k
         /\ \A x : (\E k \in DOMAIN regs' : regs'[k] = x) <=>
                     Listed(x) \/ (x = r /\ Len(regs) < RMax)
  <1>1. CASE ~(Len(regs) < RMax)
    <2>1. regs' = regs
      BY <1>1 DEF RegAdd
    <2> QED
      BY <1>1, <2>1 DEF Listed
  <1>2. CASE Len(regs) < RMax
    <2>1. /\ regs' \in Seq(S) /\ Len(regs') = Len(regs) + 1 /\ Len(regs) \in Nat
          /\ DOMAIN regs' = 1 .. Len(regs) + 1 /\ DOMAIN regs = 1 .. Len(regs)
          /\ regs'[Len(regs) + 1] = r
          /\ \A i \in 1 .. Len(regs) : regs'[i] = regs[i]
      BY <1>2 DEF RegAdd
    <2>2. \A i \in 1 .. Len(regs) + 1 : i \in 1 .. Len(regs) \/ i = Len(regs) + 1
      BY <2>1
    <2>3. \A i \in 1 .. Len(regs) : regs[i] # r
      BY <2>1 DEF Listed
    <2>4. Len(regs) + 1 \in 1 .. Len(regs) + 1 /\ \A i \in 1 .. Len(regs) : i \in 1 .. Len(regs) + 1
      BY <2>1
    <2>5. Len(regs') <= RMax
      BY <2>1, <1>2, GameAllocAssumption
    <2>6. \A j, k \in DOMAIN regs' : regs'[j] = regs'[k] => j = k
      BY <2>1, <2>2, <2>3
    <2>7. \A x : (\E k \in DOMAIN regs' : regs'[k] = x) <=> Listed(x) \/ x = r
      BY <2>1, <2>2, <2>4 DEF Listed
    <2> QED
      BY <1>2, <2>1, <2>5, <2>6, <2>7
  <1> QED
    BY <1>1, <1>2

LEMMA DeleteKeeps ==
  ASSUME NEW S, regs \in Seq(S), Len(regs) <= RMax, NEW r, RegDel(r), Listed(r),
         \A j, k \in DOMAIN regs : regs[j] = regs[k] => j = k
  PROVE  /\ regs' \in Seq(S) /\ Len(regs') <= RMax
         /\ \A j, k \in DOMAIN regs' : regs'[j] = regs'[k] => j = k
         /\ \A x : (\E k \in DOMAIN regs' : regs'[k] = x) <=> Listed(x) /\ x # r
  <1> DEFINE n == Len(regs)
  <1>1. /\ n \in Nat /\ n <= RMax /\ RMax \in Nat /\ DOMAIN regs = 1 .. n
        /\ \A i \in 1 .. n : regs[i] \in S
    BY GameAllocAssumption
  <1>2. PICK d \in 1 .. n : regs[d] = r
    BY <1>1 DEF Listed
  <1>3. regs' = [k \in 1 .. n - 1 |-> IF regs[k] = r THEN regs[n] ELSE regs[k]]
    BY DEF RegDel
  <1> HIDE DEF n
  <1>4. /\ n - 1 \in Nat /\ n \in 1 .. n /\ \A k \in 1 .. n - 1 : k \in 1 .. n /\ k # n
        /\ \A k \in 1 .. n : k \in 1 .. n - 1 \/ k = n
    BY <1>1, <1>2
  <1>5. /\ DOMAIN regs' = 1 .. n - 1
        /\ \A k \in 1 .. n - 1 : regs'[k] = IF k = d THEN regs[n] ELSE regs[k]
    BY <1>1, <1>2, <1>3, <1>4
  <1>6. regs' \in Seq(S) /\ Len(regs') = n - 1
    BY <1>1, <1>3, <1>4
  <1>7. \A j, k \in DOMAIN regs' : regs'[j] = regs'[k] => j = k
    BY <1>1, <1>4, <1>5
  <1>8. ASSUME NEW x PROVE (\E k \in DOMAIN regs' : regs'[k] = x) <=> Listed(x) /\ x # r
    <2>1. ASSUME NEW k \in DOMAIN regs', regs'[k] = x PROVE Listed(x) /\ x # r
      BY <1>1, <1>2, <1>4, <1>5, <2>1 DEF Listed
    <2>2. ASSUME Listed(x), x # r PROVE \E k \in DOMAIN regs' : regs'[k] = x
      <3>1. PICK k \in 1 .. n : regs[k] = x
        BY <1>1, <2>2 DEF Listed
      <3>2. CASE k = n
        <4>1. d \in 1 .. n - 1
          BY <1>2, <1>4, <2>2, <3>1, <3>2
        <4> QED
          BY <1>5, <3>1, <3>2, <4>1
      <3>3. CASE k # n
        BY <1>2, <1>4, <1>5, <2>2, <3>1, <3>3
      <3> QED
        BY <3>2, <3>3
    <2> QED
      BY <2>1, <2>2
  <1>9. Len(regs') <= RMax
    BY <1>1, <1>4, <1>6
  <1> QED
    BY <1>6, <1>7, <1>8, <1>9

-----------------------------------------------------------------------------
LEMMA PlaceFacts ==
  /\ DOMAIN Waits = {"wait_id", "wait_take", "wait_map", "wait_large", "wait_aligned",
                     "wait_free", "wait_self"}
  /\ Waits["wait_id"] = "set_id" /\ Waits["wait_take"] = "take" /\ Waits["wait_map"] = "map"
  /\ Waits["wait_large"] = "map_large" /\ Waits["wait_aligned"] = "map_aligned"
  /\ Waits["wait_free"] = "look" /\ Waits["wait_self"] = "push"
  /\ Inside = {"set_id", "take", "map", "map_large", "map_aligned", "look", "push", "wait_self"}
  <1>1. DOMAIN Waits = {"wait_id", "wait_take", "wait_map", "wait_large", "wait_aligned",
                        "wait_free", "wait_self"}
    BY DEF Waits
  <1>2. /\ Waits["wait_id"] = "set_id" /\ Waits["wait_take"] = "take"
        /\ Waits["wait_map"] = "map" /\ Waits["wait_large"] = "map_large"
        /\ Waits["wait_aligned"] = "map_aligned" /\ Waits["wait_free"] = "look"
        /\ Waits["wait_self"] = "push"
    BY DEF Waits
  <1> QED
    BY <1>1, <1>2 DEF Inside

(* A step of another thread that leaves alone what a thread stands on. *)
LEMMA OthersStand ==
  ASSUME NEW u \in Threads, Stands(u),
         pc'[u] = pc[u], arg'[u] = arg[u], tid'[u] = tid[u],
         \A c \in Classes : free'[u][c] = free[u][c],
         pc[u] \in Given => /\ arg[u] \in DOMAIN header'
                            /\ header'[arg[u]].kind = header[arg[u]].kind
  PROVE  Stands(u)'
  <1>1. pc[u] \in {"wait_take", "take"} => pc[u] \in Allocating
    BY DEF Allocating
  <1>2. pc[u] \in {"wait_self", "push"} => pc[u] \in Given
    BY DEF Given
  <1> QED
    BY <1>1, <1>2 DEF Stands

(* Steps that move a thread and no block: the thread stays where it is, or    *)
(* outside ga_free, or on a stretch of ga_free that leaves the block alone.   *)
Quiet(t) ==
  \/ pc'[t] = pc[t] /\ arg'[t] = arg[t]
  \/ pc[t] \notin Given /\ pc'[t] \notin Given
  \/ /\ pc[t] \in {"wait_free", "look", "libc"} /\ pc'[t] \in {"wait_free", "look", "libc"}
     /\ arg'[t] = arg[t]

LEMMA QuietStep ==
  ASSUME HeapInv, UNCHANGED <<tid, arena, free, pend, regs, mapped, header, live>>,
         \A t \in Threads : Quiet(t), Typed', Standing'
  PROVE  HeapInv'
  <1>1. Carved' /\ Alone' /\ Table' /\ Kept'
    BY DEF HeapInv, Carved, Base, CarvedFrom, Alone, Table, Kept, OfClass
  <1>2. \A u \in Threads : \A b : Returns(u, b)' <=> Returns(u, b)
    BY DEF Quiet, Returns, Given
  <1>3. (\A u \in Threads : \A b : Owns(u, b)' <=> Owns(u, b)) /\ \A b : Awaits(b)' <=> Awaits(b)
    BY DEF Owns, Awaits
  <1>4. Placed'
    BY <1>2, <1>3 DEF HeapInv, Placed
  <1>5. \A u \in Threads : \A b :
          /\ Marks(u, b)' <=> Marks(u, b)
          /\ pc'[u] = "unmap" => pc[u] = "unmap" /\ arg'[u] = arg[u]
    BY DEF Quiet, Given, Marks
  <1>6. Flagged'
    BY <1>3, <1>5 DEF HeapInv, Flagged, IsFree
  <1>7. Leaving'
    BY <1>5 DEF HeapInv, Leaving, Listed
  <1> QED
    BY <1>1, <1>4, <1>6, <1>7 DEF HeapInv

(* Taking the mutex: a thread that holds it already never does. *)
LEMMA AcquireStep ==
  ASSUME HeapInv, NEW t \in Threads, Acquire(t)
  PROVE  HeapInv'
  <1>1. /\ pc[t] \in DOMAIN Waits /\ lock = None /\ lock' = t
        /\ pc' = [pc EXCEPT ![t] = Waits[pc[t]]]
        /\ UNCHANGED <<tid, gnext, arena, free, pend, regs, mapped, header, live, arg, calls>>
    BY DEF Acquire, GoTo, own, shared
  <1>2. pc[t] # "wait_self" /\ None \notin Threads
    BY <1>1, PlaceFacts, GameAllocAssumption DEF HeapInv, Standing, Stands
  <1>3. Typed'
    BY <1>1, PlaceFacts DEF HeapInv, Typed, Given, Allocating, Mapping
  <1>4. Standing'
    BY <1>1, <1>2, PlaceFacts DEF HeapInv, Typed, Standing, Stands, Given, Allocating, Mapping
  <1>5. \A u \in Threads : Quiet(u)
    BY <1>1, <1>2, PlaceFacts DEF HeapInv, Typed, Quiet, Given
  <1> QED
    BY <1>1, <1>3, <1>4, <1>5, QuietStep

(* The start of a call. *)
LEMMA CallAllocStep ==
  ASSUME HeapInv, NEW t \in Threads, NEW c \in Classes, CallAlloc(t, c)
  PROVE  HeapInv'
  <1>1. /\ pc[t] = "idle" /\ arg' = [arg EXCEPT ![t] = c]
        /\ pc' = [pc EXCEPT ![t] = IF tid[t] < 0 THEN "wait_id" ELSE "pop"]
        /\ calls < MaxCalls /\ calls' = calls + 1
        /\ UNCHANGED <<lock, tid, gnext, arena, free, pend, regs, mapped, header, live>>
    BY DEF CallAlloc, Call, At, GoTo, own, shared
  <1>2. tid[t] < 0 <=> tid[t] = -1
    BY DEF HeapInv, Typed
  <1>3. Typed'
    BY <1>1, GameAllocAssumption, SMTT(30) DEF HeapInv, Typed, Allocating
  <1>4. Standing'
    BY <1>1, <1>2, PlaceFacts, SMTT(30) DEF HeapInv, Typed, Standing, Stands, Given, Allocating, Mapping
  <1>5. \A u \in Threads : Quiet(u)
    BY <1>1 DEF HeapInv, Typed, Quiet, Given
  <1> QED
    BY <1>1, <1>3, <1>4, <1>5, QuietStep

LEMMA CallMapStep ==
  ASSUME HeapInv, NEW t \in Threads, CallLarge(t) \/ CallAligned(t)
  PROVE  HeapInv'
  <1>1. PICK w \in {"wait_large", "wait_aligned"} :
          /\ pc[t] = "idle" /\ pc' = [pc EXCEPT ![t] = w] /\ arg' = [arg EXCEPT ![t] = None]
          /\ calls < MaxCalls /\ calls' = calls + 1
          /\ UNCHANGED <<lock, tid, gnext, arena, free, pend, regs, mapped, header, live>>
    BY DEF CallLarge, CallAligned, Call, At, GoTo, own, shared
  <1>2. Typed'
    BY <1>1, GameAllocAssumption DEF HeapInv, Typed, Mapping
  <1>3. Standing'
    BY <1>1, PlaceFacts DEF HeapInv, Typed, Standing, Stands, Given, Allocating, Mapping
  <1>4. \A u \in Threads : Quiet(u)
    BY <1>1 DEF HeapInv, Typed, Quiet, Given
  <1> QED
    BY <1>1, <1>2, <1>3, <1>4, QuietStep

(* A block given back moves from its caller to the thread that frees it. *)
LEMMA CallFreeStep ==
  ASSUME HeapInv, NEW t \in Threads, NEW b \in live, CallFree(t, b)
  PROVE  HeapInv'
  <1>1. /\ pc[t] = "idle" /\ arg' = [arg EXCEPT ![t] = b] /\ pc' = [pc EXCEPT ![t] = "wait_free"]
        /\ calls < MaxCalls /\ calls' = calls + 1
        /\ live' = live \ {b}
        /\ UNCHANGED <<lock, tid, gnext, arena, free, pend, regs, mapped, header>>
    BY DEF CallFree, Call, At, GoTo, own, shared
  <1>2. b \in DOMAIN header /\ b \in Block
    BY DEF HeapInv, Typed
  <1>3. Typed'
    BY <1>1, <1>2, GameAllocAssumption DEF HeapInv, Typed, Given
  <1>4. Standing'
    BY <1>1, <1>2, PlaceFacts DEF HeapInv, Typed, Standing, Stands, Given, Allocating, Mapping
  <1>5. Carved' /\ Alone' /\ Table' /\ Kept'
    BY <1>1 DEF HeapInv, Carved, Base, CarvedFrom, Alone, Table, Kept, OfClass
  <1>6. \A u \in Threads : \A x : Returns(u, x)' <=> Returns(u, x) \/ (u = t /\ x = b)
    BY <1>1 DEF HeapInv, Typed, Returns, Given
  <1>7. (\A u \in Threads : \A x : Owns(u, x)' <=> Owns(u, x)) /\ \A x : Awaits(x)' <=> Awaits(x)
    BY <1>1 DEF Owns, Awaits
  <1>8. ~\E x : Returns(t, x)
    BY <1>1 DEF Returns, Given
  <1>9. Placed'
    BY <1>1, <1>2, <1>6, <1>7, <1>8 DEF HeapInv, Placed
  <1>10. \A u \in Threads : \A x :
           /\ Marks(u, x)' <=> Marks(u, x)
           /\ pc'[u] = "unmap" => pc[u] = "unmap" /\ arg'[u] = arg[u]
    BY <1>1 DEF HeapInv, Typed, Marks
  <1>11. Flagged'
    BY <1>1, <1>7, <1>10 DEF HeapInv, Flagged, IsFree
  <1>12. Leaving'
    BY <1>1, <1>10 DEF HeapInv, Leaving, Listed
  <1> QED
    BY <1>3, <1>4, <1>5, <1>9, <1>11, <1>12 DEF HeapInv

(* The first allocation of a thread numbers it; it carves nothing yet. *)
LEMMA SetIdStep ==
  ASSUME HeapInv, NEW t \in Threads, SetId(t)
  PROVE  HeapInv'
  <1>1. /\ pc[t] = "set_id" /\ pc' = [pc EXCEPT ![t] = "pop"]
        /\ tid' = [tid EXCEPT ![t] = gnext] /\ gnext' = gnext + 1 /\ lock' = None
        /\ UNCHANGED <<arena, free, pend, regs, mapped, header, live, arg, calls>>
    BY DEF SetId, At, GoTo, Unlock, own, shared
  <1>2. None \notin Threads /\ lock = t /\ tid[t] = -1
    BY <1>1, PlaceFacts, GameAllocAssumption DEF HeapInv, Standing, Stands
  <1>3. Typed'
    BY <1>1 DEF HeapInv, Typed, Allocating
  <1>4. Standing'
    BY <1>1, <1>2, PlaceFacts DEF HeapInv, Typed, Standing, Stands, Given, Allocating, Mapping
  <1>5. (\A c \in Classes : Base(t, c) = None) /\ \A b \in DOMAIN header : b[1] # None
    BY <1>2, GameAllocAssumption DEF HeapInv, Typed, Carved, Base, Fresh, Block
  <1>6. \A u \in Threads : tid'[u] = IF u = t THEN gnext ELSE tid[u]
    BY <1>1 DEF HeapInv, Typed
  <1>7. gnext # -1
    BY DEF HeapInv, Typed
  <1>8. Carved'
    BY <1>1, <1>5, <1>6, <1>7 DEF HeapInv, Carved, Base, CarvedFrom
  <1>9. Alone' /\ Table' /\ Kept'
    BY <1>1 DEF HeapInv, Alone, Table, Kept, OfClass
  <1>10. \A u \in Threads : \A x : Returns(u, x)' <=> Returns(u, x)
    BY <1>1 DEF HeapInv, Typed, Returns, Given
  <1>11. (\A u \in Threads : \A x : Owns(u, x)' <=> Owns(u, x)) /\ \A x : Awaits(x)' <=> Awaits(x)
    BY <1>1 DEF Owns, Awaits
  <1>12. Placed'
    BY <1>1, <1>10, <1>11 DEF HeapInv, Placed
  <1>13. \A u \in Threads :
           /\ \A x : Marks(u, x)' <=> Marks(u, x)
           /\ pc'[u] = "unmap" <=> pc[u] = "unmap"
    BY <1>1 DEF HeapInv, Typed, Marks
  <1>14. Flagged'
    BY <1>1, <1>11, <1>13 DEF HeapInv, Flagged, IsFree
  <1>15. Leaving'
    BY <1>1, <1>13 DEF HeapInv, Leaving, Listed
  <1> QED
    BY <1>3, <1>4, <1>8, <1>9, <1>12, <1>14, <1>15 DEF HeapInv

(* A block taken from the private list moves from the list to the caller, and *)
(* its flag falls.                                                           *)
LEMMA PopStep ==
  ASSUME HeapInv, NEW t \in Threads, pc[t] \in {"pop", "pop_taken"}, Pop(t),
         UNCHANGED <<lock, tid, gnext, arena, pend, regs, mapped, calls>>
  PROVE  HeapInv'
  <1>0. PICK a, s, h : a = arg[t] /\ s = free[t][a] /\ h = Head(s)
    OBVIOUS
  <1>1. /\ a \in Classes /\ s \in Seq(Block) /\ s # <<>> /\ NoLoop(s)
        /\ None \notin Threads /\ pc[t] \notin Inside
    BY <1>0, PlaceFacts, GameAllocAssumption
       DEF HeapInv, Typed, Standing, Stands, Kept, Allocating, Pop, Mine
  <1>2. /\ free' = [free EXCEPT ![t][a] = Tail(s)]
        /\ header' = [header EXCEPT ![h].free = FALSE]
        /\ live' = live \union {h}
        /\ pc' = [pc EXCEPT ![t] = "idle"] /\ arg' = [arg EXCEPT ![t] = None]
    BY <1>0 DEF Pop, Mine, HandOut, GoTo
  <1>3. /\ In(h, s) /\ h \in Block /\ Tail(s) \in Seq(Block) /\ NoLoop(Tail(s))
        /\ \A x : In(x, Tail(s)) <=> In(x, s) /\ x # h
    BY <1>0, <1>1, HeadIn, TailKeeps
  <1>4. OfClass(h, a)
    BY <1>0, <1>1, <1>3 DEF HeapInv, Kept
  <1>5. /\ DOMAIN header' = DOMAIN header
        /\ header' \in [DOMAIN header -> Header]
        /\ \A x \in DOMAIN header : /\ header'[x].kind = header[x].kind
                                    /\ header'[x].cls = header[x].cls
                                    /\ header'[x].own = header[x].own
                                    /\ header'[x].free = IF x = h THEN FALSE ELSE header[x].free
    BY <1>2, <1>4 DEF HeapInv, Typed, Header, OfClass
  <1>6. /\ free' \in [Threads -> [Classes -> Seq(Block)]]
        /\ \A u \in Threads, c \in Classes :
             free'[u][c] = IF u = t /\ c = a THEN Tail(s) ELSE free[u][c]
    BY <1>1, <1>2, <1>3 DEF HeapInv, Typed
  <1>7. /\ pc' \in [Threads -> {"idle"} \union Allocating \union Mapping \union Given]
        /\ \A u \in Threads : /\ pc'[u] = IF u = t THEN "idle" ELSE pc[u]
                              /\ arg'[u] = IF u = t THEN None ELSE arg[u]
    BY <1>2 DEF HeapInv, Typed
  <1>8. Typed'
    BY <1>2, <1>4, <1>5, <1>6, <1>7 DEF HeapInv, Typed, OfClass
  <1>9. \A u \in Threads : u # t => \A c \in Classes : free'[u][c] = free[u][c]
    BY <1>6
  <1>10. Standing'
    <2>1. ASSUME NEW u \in Threads, u # t PROVE Stands(u)'
      <3>1. pc[u] \in Given => arg[u] \in DOMAIN header
        BY DEF HeapInv, Standing, Stands
      <3> QED
        BY <1>5, <1>7, <1>9, <2>1, <3>1, OthersStand DEF HeapInv, Standing
    <2>2. Stands(t)'
      BY <1>7 DEF Stands, Given, Allocating
    <2>3. \A u \in Threads : lock' = u <=> pc'[u] \in Inside
      BY <1>1, <1>7, PlaceFacts DEF HeapInv, Standing
    <2> QED
      BY <2>1, <2>2, <2>3 DEF Standing
  <1>11. Carved'
    <2>1. \A u \in Threads, c \in Classes, x \in DOMAIN header :
            CarvedFrom(x, u, c)' <=> CarvedFrom(x, u, c)
      BY <1>5 DEF CarvedFrom
    <2>2. \A u \in Threads, c \in Classes : Base(u, c)' = Base(u, c)
      BY DEF Base
    <2> QED
      BY <1>5, <2>1, <2>2 DEF HeapInv, Carved
  <1>11a. Alone' 
    BY <1>5 DEF HeapInv, Alone
  <1>11b. Table'
    BY DEF HeapInv, Table
  <1>12. Kept'
    <2>1. \A x : \A c \in Classes : OfClass(x, c)' <=> OfClass(x, c)
      BY <1>5 DEF OfClass
    <2>2. ASSUME NEW u \in Threads, NEW c \in Classes
          PROVE  NoLoop(free'[u][c]) /\ \A x : In(x, free'[u][c]) => In(x, free[u][c])
      BY <1>0, <1>1, <1>3, <1>6 DEF HeapInv, Kept
    <2> QED
      BY <2>1, <2>2 DEF HeapInv, Kept
  <1>13. \A u \in Threads : \A x : Returns(u, x)' <=> Returns(u, x)
    BY <1>7, PlaceFacts DEF Returns, Given
  <1>14. \A x : Awaits(x)' <=> Awaits(x)
    BY DEF Awaits
  <1>15. ASSUME NEW u \in Threads, NEW x PROVE Owns(u, x)' <=> Owns(u, x) /\ ~(u = t /\ x = h)
    <2>1. CASE u # t
      BY <1>6, <2>1 DEF Owns
    <2>2. CASE u = t
      <3>1. \A c \in Classes : c # a => ~In(h, free[t][c])
        BY <1>1, <1>4 DEF HeapInv, Kept, OfClass
      <3>2. \A c \in Classes : In(x, free'[t][c]) <=> In(x, free[t][c]) /\ x # h
        BY <1>0, <1>1, <1>3, <1>6, <3>1
      <3> QED
        BY <2>2, <3>2 DEF Owns
    <2> QED
      BY <2>1, <2>2
  <1>16. Owns(t, h) /\ h \in DOMAIN header
    BY <1>0, <1>1, <1>3, <1>4 DEF Owns, OfClass
  <1>17. Placed'
    BY <1>2, <1>5, <1>13, <1>14, <1>15, <1>16 DEF HeapInv, Placed
  <1>18. \A u \in Threads : \A x :
           Marks(u, x)' <=> Marks(u, x)
    BY <1>7 DEF Marks
  <1>19. Flagged'
    <2>1. \A u \in Threads : ~Marks(u, h)
      BY <1>16 DEF HeapInv, Placed, Returns, Given, Marks
    <2>2. ~Awaits(h) /\ \A u \in Threads : u # t => ~Owns(u, h)
      BY <1>16 DEF HeapInv, Placed
    <2>3. ~header'[h].free
      BY <1>5, <1>16
    <2>4. \A x \in DOMAIN header : x # h => (header'[x].free <=> header[x].free)
      BY <1>5
    <2>5. ~Awaits(h)' /\ \A u \in Threads : ~Owns(u, h)'
      BY <1>14, <1>15, <2>2
    <2>6. \A x : x # h => /\ Awaits(x)' <=> Awaits(x)
                          /\ \A u \in Threads : Owns(u, x)' <=> Owns(u, x)
      BY <1>14, <1>15
    <2>7. ~IsFree(h)' /\ \A x : x # h => (IsFree(x)' <=> IsFree(x))
      BY <1>18, <2>1, <2>5, <2>6 DEF IsFree
    <2> QED
      BY <1>5, <2>3, <2>4, <2>7 DEF HeapInv, Flagged
  <1>20. Leaving'
    <2>1. ASSUME NEW u \in Threads, pc'[u] = "unmap"
          PROVE  /\ pc[u] = "unmap" /\ arg'[u] = arg[u]
                 /\ header'[arg[u]].kind = header[arg[u]].kind
      <3>1. pc[u] = "unmap" /\ arg'[u] = arg[u]
        BY <1>7, <2>1
      <3>2. arg[u] \in DOMAIN header
        BY <3>1 DEF HeapInv, Standing, Stands, Given
      <3> QED
        BY <1>5, <3>1, <3>2
    <2> QED
      BY <2>1 DEF HeapInv, Leaving, Listed
  <1> QED
    BY <1>8, <1>10, <1>11, <1>11a, <1>11b, <1>12, <1>17, <1>19, <1>20 DEF HeapInv

(* An empty list, and a region with no room, leave everything as it is. *)
LEMMA EmptyStep ==
  ASSUME HeapInv, NEW t \in Threads, Mine(t) = <<>>,
         \/ pc[t] = "pop" /\ GoTo(t, "wait_take")
         \/ pc[t] = "pop_taken" /\ GoTo(t, "bump"),
         UNCHANGED <<lock, tid, gnext, arena, free, pend, regs, mapped, header, live, arg, calls>>
  PROVE  HeapInv'
  <1>1. PICK v \in {"pop", "pop_taken"}, w \in {"wait_take", "bump"} :
          pc[t] = v /\ pc' = [pc EXCEPT ![t] = w]
    BY DEF GoTo
  <1>2. Typed'
    BY <1>1 DEF HeapInv, Typed, Allocating
  <1>3. Standing'
    BY <1>1, PlaceFacts, SMTT(30) DEF HeapInv, Typed, Standing, Stands, Given, Allocating, Mine
  <1>4. \A u \in Threads : Quiet(u)
    BY <1>1 DEF HeapInv, Typed, Quiet, Given
  <1> QED
    BY <1>2, <1>3, <1>4, QuietStep

LEMMA NoRoomStep ==
  ASSUME HeapInv, NEW t \in Threads,
         \/ pc[t] = "bump" /\ GoTo(t, "wait_map") /\ arg' = arg
         \/ pc[t] = "bump_again" /\ GoTo(t, "idle") /\ arg' = [arg EXCEPT ![t] = None],
         UNCHANGED <<lock, tid, gnext, arena, free, pend, regs, mapped, header, live, calls>>
  PROVE  HeapInv'
  <1>1. PICK v \in {"bump", "bump_again"}, w \in {"wait_map", "idle"} :
          /\ pc[t] = v /\ pc' = [pc EXCEPT ![t] = w]
          /\ arg' = arg \/ (w = "idle" /\ arg' = [arg EXCEPT ![t] = None])
    BY DEF GoTo
  <1>2. Typed'
    BY <1>1 DEF HeapInv, Typed, Allocating
  <1>3. Standing'
    <2>1. ASSUME NEW u \in Threads, u # t PROVE Stands(u)'
      <3>1. pc[u] \in Given => arg[u] \in DOMAIN header
        BY DEF HeapInv, Standing, Stands
      <3>2. pc'[u] = pc[u] /\ arg'[u] = arg[u]
        BY <1>1, <2>1 DEF HeapInv, Typed
      <3> QED
        BY <3>1, <3>2, OthersStand DEF HeapInv, Standing
    <2>2. Stands(t)'
      BY <1>1 DEF HeapInv, Typed, Standing, Stands, Given, Allocating
    <2>3. \A u \in Threads : lock' = u <=> pc'[u] \in Inside
      BY <1>1, PlaceFacts DEF HeapInv, Typed, Standing
    <2> QED
      BY <2>1, <2>2, <2>3 DEF Standing
  <1>4. \A u \in Threads : Quiet(u)
    BY <1>1 DEF HeapInv, Typed, Quiet, Given
  <1> QED
    BY <1>2, <1>3, <1>4, QuietStep

(* The pending list of a class becomes the private list of one thread. *)
LEMMA TakePendingStep ==
  ASSUME HeapInv, NEW t \in Threads, TakePending(t)
  PROVE  HeapInv'
  <1>0. PICK a : a = arg[t]
    OBVIOUS
  <1>1. /\ pc[t] = "take" /\ pc' = [pc EXCEPT ![t] = "pop_taken"] /\ lock' = None
        /\ UNCHANGED <<tid, gnext, arena, regs, mapped, header, live, arg, calls>>
    BY DEF TakePending, At, GoTo, Unlock
  <1>2. /\ a \in Classes /\ free[t][a] = <<>> /\ lock = t /\ None \notin Threads
        /\ tid[t] # -1
    BY <1>0, <1>1, PlaceFacts, GameAllocAssumption DEF HeapInv, Standing, Stands, Allocating
  <1>3. /\ free' \in [Threads -> [Classes -> Seq(Block)]] /\ pend' \in [Classes -> Seq(Block)]
        /\ \A u \in Threads, c \in Classes :
             free'[u][c] = IF u = t /\ c = a THEN pend[a] ELSE free[u][c]
        /\ \A c \in Classes : pend'[c] = IF c = a THEN <<>> ELSE pend[c]
    <2>1. CASE pend[a] # <<>>
      <3>1. /\ free' = [free EXCEPT ![t][a] = pend[a]] /\ pend' = [pend EXCEPT ![a] = <<>>]
            /\ pend[a] \in Seq(Block) /\ <<>> \in Seq(Block)
        BY <1>0, <1>2, <2>1 DEF HeapInv, Typed, TakePending
      <3> QED
        BY <1>2, <3>1 DEF HeapInv, Typed
    <2>2. CASE pend[a] = <<>>
      BY <1>0, <1>2, <2>2 DEF HeapInv, Typed, TakePending
    <2> QED
      BY <2>1, <2>2
  <1>4. Typed'
    BY <1>1, <1>3 DEF HeapInv, Typed, Allocating
  <1>5. \A u \in Threads : /\ pc'[u] = IF u = t THEN "pop_taken" ELSE pc[u]
                           /\ \A x : Marks(u, x)' <=> Marks(u, x)
                           /\ \A x : Returns(u, x)' <=> Returns(u, x)
    BY <1>1 DEF HeapInv, Typed, Marks, Returns, Given
  <1>6. Standing'
    <2>1. ASSUME NEW u \in Threads, u # t PROVE Stands(u)'
      <3>1. pc[u] \in Given => arg[u] \in DOMAIN header
        BY DEF HeapInv, Standing, Stands
      <3> QED
        BY <1>1, <1>3, <1>5, <2>1, <3>1, OthersStand DEF HeapInv, Standing
    <2>2. Stands(t)'
      BY <1>0, <1>1, <1>2, <1>5 DEF Stands, Given
    <2>3. \A u \in Threads : lock' = u <=> pc'[u] \in Inside
      BY <1>1, <1>2, <1>5, PlaceFacts DEF HeapInv, Standing
    <2> QED
      BY <2>1, <2>2, <2>3 DEF Standing
  <1>7. Carved' /\ Alone' /\ Table'
    BY <1>1 DEF HeapInv, Carved, Base, CarvedFrom, Alone, Table
  <1>8. Kept'
    <2>1. \A x : \A c \in Classes : OfClass(x, c)' <=> OfClass(x, c)
      BY <1>1 DEF OfClass
    <2>2. \A c \in Classes : NoLoop(pend'[c]) /\ \A x : In(x, pend'[c]) => In(x, pend[c])
      BY <1>3, InEmpty, LoopEmpty DEF HeapInv, Kept
    <2>3. ASSUME NEW u \in Threads, NEW c \in Classes
          PROVE  /\ NoLoop(free'[u][c])
                 /\ \A x : In(x, free'[u][c]) => In(x, free[u][c]) \/ In(x, pend[c])
      BY <1>2, <1>3 DEF HeapInv, Kept
    <2> QED
      BY <2>1, <2>2, <2>3 DEF HeapInv, Kept
  <1>9. ASSUME NEW u \in Threads, NEW x
        PROVE  Owns(u, x)' <=> Owns(u, x) \/ (u = t /\ In(x, pend[a]))
    <2>1. \A c \in Classes :
            In(x, free'[u][c]) <=> In(x, free[u][c]) \/ (u = t /\ c = a /\ In(x, pend[a]))
      BY <1>2, <1>3, InEmpty
    <2> QED
      BY <1>2, <2>1 DEF Owns
  <1>10. ASSUME NEW x PROVE Awaits(x)' <=> Awaits(x) /\ ~In(x, pend[a])
    <2>1. \A c \in Classes : In(x, pend'[c]) <=> c # a /\ In(x, pend[c])
      BY <1>3, InEmpty
    <2>2. \A c \in Classes : In(x, pend[a]) /\ In(x, pend[c]) => c = a
      BY <1>2, SMTT(30) DEF HeapInv, Kept, OfClass
    <2> QED
      BY <1>2, <2>1, <2>2 DEF Awaits
  <1>11. \A x : In(x, pend[a]) => Awaits(x)
    BY <1>2 DEF Awaits
  <1>13. Placed'
    BY <1>1, <1>5, <1>9, <1>10, <1>11 DEF HeapInv, Placed
  <1>14. \A x : IsFree(x)' <=> IsFree(x)
    BY <1>5, <1>9, <1>10, <1>11 DEF IsFree
  <1>15. Flagged'
    BY <1>1, <1>14 DEF HeapInv, Flagged
  <1>16. Leaving'
    BY <1>1, <1>5 DEF HeapInv, Leaving, Listed
  <1> QED
    BY <1>4, <1>6, <1>7, <1>8, <1>13, <1>15, <1>16 DEF HeapInv

(* A block that nobody had before goes to a caller, with its flag down. *)
LEMMA NewBlock ==
  ASSUME HeapInv, NEW b \in Block, b \notin DOMAIN header, NEW h \in Header, ~h.free,
         header' = Written(b, h), live' = live \union {b}, free' = free, pend' = pend,
         \A u \in Threads : \A x : Returns(u, x)' <=> Returns(u, x),
         \A u \in Threads : \A x : Marks(u, x)' <=> Marks(u, x),
         \A u \in Threads : pc'[u] = "unmap" => pc[u] = "unmap" /\ arg'[u] = arg[u],
         \A u \in Threads : pc[u] = "unmap" => \A r : r = arg[u][1] => ~Listed(r)'
  PROVE  /\ DOMAIN header' = DOMAIN header \union {b} /\ header'[b] = h
         /\ \A x \in DOMAIN header : header'[x] = header[x]
         /\ header' \in [DOMAIN header' -> Header]
         /\ Kept' /\ Placed' /\ Flagged' /\ Leaving'
  <1>1. /\ DOMAIN header' = DOMAIN header \union {b} /\ header'[b] = h
        /\ \A x \in DOMAIN header : header'[x] = header[x]
        /\ header' \in [DOMAIN header' -> Header]
    BY DEF HeapInv, Typed, Written
  <1>2. \A x : \A c \in Classes : OfClass(x, c) => OfClass(x, c)'
    BY <1>1 DEF OfClass
  <1>3. Kept'
    BY <1>2 DEF HeapInv, Kept
  <1>4. (\A x : Awaits(x)' <=> Awaits(x)) /\ \A u \in Threads : \A x : Owns(u, x)' <=> Owns(u, x)
    BY DEF Awaits, Owns
  <1>5. ~Awaits(b) /\ \A u \in Threads : ~Owns(u, b) /\ ~Returns(u, b) /\ ~Marks(u, b)
    BY DEF HeapInv, Kept, OfClass, Awaits, Owns, Returns, Marks, Given, Standing, Stands
  <1>6. Placed'
    BY <1>1, <1>4, <1>5 DEF HeapInv, Placed
  <1>7. ~IsFree(b)' /\ \A x : IsFree(x)' <=> IsFree(x)
    BY <1>4, <1>5 DEF IsFree
  <1>8. Flagged'
    BY <1>1, <1>7 DEF HeapInv, Flagged
  <1>9. Leaving'
    <2>1. ASSUME NEW u \in Threads, pc'[u] = "unmap"
          PROVE  header'[arg'[u]].kind # "class" /\ ~Listed(arg[u][1])'
      <3>1. PICK x, r : x = arg[u] /\ r = x[1]
        OBVIOUS
      <3>2. pc[u] = "unmap" /\ arg'[u] = x /\ x \in DOMAIN header
        BY <2>1, <3>1 DEF HeapInv, Standing, Stands, Given
      <3>3. header'[x].kind # "class"
        BY <1>1, <3>1, <3>2 DEF HeapInv, Leaving
      <3>4. ~Listed(r)'
        BY <3>1, <3>2
      <3> QED
        BY <3>1, <3>2, <3>3, <3>4 DEF Listed
    <2> QED
      BY <2>1 DEF Leaving
  <1> QED
    BY <1>1, <1>3, <1>6, <1>8, <1>9

(* The next block of a region is behind all that were carved from it. *)
LEMMA CarveStep ==
  ASSUME HeapInv, NEW t \in Threads, pc[t] \in {"bump", "bump_again"}, Carve(t),
         UNCHANGED <<lock, tid, gnext, free, pend, regs, mapped, calls>>
  PROVE  HeapInv'
  <1>0. PICK a, r, n, b, h : /\ a = arg[t] /\ r = Base(t, a) /\ n = arena[t][a].off
                             /\ b = <<r, n + 1>> /\ h = Small(t)
    OBVIOUS
  <1>1. /\ a \in Classes /\ tid[t] # -1 /\ pc[t] \notin Inside /\ None \notin Threads \union Regions
    BY <1>0, PlaceFacts, GameAllocAssumption DEF HeapInv, Standing, Stands, Allocating
  <1>2. /\ arena' = [arena EXCEPT ![t][a].off = n + 1]
        /\ header' = Written(b, h) /\ live' = live \union {b}
        /\ pc' = [pc EXCEPT ![t] = "idle"] /\ arg' = [arg EXCEPT ![t] = None]
        /\ n < arena[t][a].cap
    BY <1>0 DEF Carve, HandOut, GoTo, NextOf, Fits, Base
  <1>3. arena[t][a] \in ArenaType
    BY <1>1 DEF HeapInv, Typed
  <1>4. /\ r \in Regions /\ n \in 0 .. PerRegion - 1 /\ arena[t][a].cap = PerRegion
        /\ PerRegion \in Nat /\ arena[t][a] \in [base : Regions, off : 0 .. PerRegion, cap : {PerRegion}]
    BY <1>0, <1>2, <1>3, GameAllocAssumption DEF ArenaType, Fresh, Base
  <1>5. r \in mapped /\ r # None
    BY <1>0, <1>1, <1>4 DEF HeapInv, Carved
  <1>6. b \in Block /\ b[1] = r /\ b[2] = n + 1
    BY <1>0, <1>4 DEF Block
  <1>7. b \notin DOMAIN header
    BY <1>0, <1>1, <1>4, <1>6 DEF HeapInv, Carved, CarvedFrom
  <1>8. /\ h \in Header /\ ~h.free /\ h.kind = "class" /\ h.cls = a /\ h.own = tid[t]
    BY <1>0, <1>1 DEF HeapInv, Typed, Small, Header
  <1>9. \A u \in Threads : /\ pc'[u] = IF u = t THEN "idle" ELSE pc[u]
                           /\ arg'[u] = IF u = t THEN None ELSE arg[u]
    BY <1>2 DEF HeapInv, Typed
  <1>10. \A u \in Threads : /\ \A x : Marks(u, x)' <=> Marks(u, x)
                            /\ \A x : Returns(u, x)' <=> Returns(u, x)
                            /\ pc'[u] = "unmap" => pc[u] = "unmap" /\ arg'[u] = arg[u]
    BY <1>9 DEF Marks, Returns, Given
  <1>11. \A u \in Threads : pc[u] = "unmap" => \A q : q = arg[u][1] => ~Listed(q)'
    BY DEF HeapInv, Leaving, Listed
  <1>12. /\ DOMAIN header' = DOMAIN header \union {b} /\ header'[b] = h
         /\ \A x \in DOMAIN header : header'[x] = header[x]
         /\ header' \in [DOMAIN header' -> Header]
         /\ Kept' /\ Placed' /\ Flagged' /\ Leaving'
    BY <1>2, <1>6, <1>7, <1>8, <1>10, <1>11, NewBlock
  <1>13. /\ arena' \in [Threads -> [Classes -> ArenaType]]
         /\ \A u \in Threads, c \in Classes :
              /\ Base(u, c)' = Base(u, c)
              /\ arena'[u][c].off = IF u = t /\ c = a THEN n + 1 ELSE arena[u][c].off
              /\ u # t => arena'[u][c] = arena[u][c]
    <2>1. [arena[t][a] EXCEPT !.off = n + 1] \in ArenaType
      BY <1>4 DEF ArenaType
    <2>2. [arena[t][a] EXCEPT !.off = n + 1].base = r
      BY <1>0, <1>4 DEF Base
    <2> QED
      BY <1>0, <1>1, <1>2, <1>4, <2>1, <2>2 DEF HeapInv, Typed, Base
  <1>14. Typed'
    BY <1>2, <1>6, <1>9, <1>12, <1>13 DEF HeapInv, Typed
  <1>15. Standing'
    <2>1. ASSUME NEW u \in Threads, u # t PROVE Stands(u)'
      <3>1. pc[u] \in Given => arg[u] \in DOMAIN header
        BY DEF HeapInv, Standing, Stands
      <3> QED
        BY <1>9, <1>12, <2>1, <3>1, OthersStand DEF HeapInv, Standing
    <2>2. Stands(t)'
      BY <1>9 DEF Stands, Given, Allocating
    <2>3. \A u \in Threads : lock' = u <=> pc'[u] \in Inside
      BY <1>1, <1>9, PlaceFacts DEF HeapInv, Standing
    <2> QED
      BY <2>1, <2>2, <2>3 DEF Standing
  <1>16. Carved'
    <2>1. \A u \in Threads, c \in Classes :
            (tid'[u] = -1 => arena'[u][c] = Fresh) /\ (Base(u, c)' # None => Base(u, c)' \in mapped')
      BY <1>1, <1>13 DEF HeapInv, Carved
    <2>2. \A u, v \in Threads, c, d \in Classes :
            Base(u, c)' # None /\ Base(v, d)' = Base(u, c)' => v = u /\ d = c
      BY <1>13 DEF HeapInv, Carved
    <2>3. ASSUME NEW u \in Threads, NEW c \in Classes, NEW x \in DOMAIN header, x[1] = Base(u, c)
          PROVE  CarvedFrom(x, u, c)'
      <3>1. CarvedFrom(x, u, c) /\ x[2] \in Nat
        BY <2>3 DEF HeapInv, Typed, Carved, Block
      <3> QED
        BY <1>0, <1>4, <1>12, <1>13, <3>1 DEF CarvedFrom
    <2>4. ASSUME NEW u \in Threads, NEW c \in Classes, b[1] = Base(u, c)
          PROVE  CarvedFrom(b, u, c)'
      <3>1. u = t /\ c = a
        <4>1. Base(t, a) # None /\ Base(u, c) = Base(t, a)
          BY <1>0, <1>5, <1>6, <2>4
        <4> QED
          BY <1>1, <4>1 DEF HeapInv, Carved
      <3> QED
        BY <1>4, <1>6, <1>8, <1>12, <1>13, <3>1 DEF CarvedFrom
    <2> QED
      BY <1>12, <1>13, <2>1, <2>2, <2>3, <2>4 DEF Carved
  <1>17. Alone'
    <2>1. \A x \in DOMAIN header : x[1] = r => header[x].kind = "class"
      BY <1>0, <1>1 DEF HeapInv, Carved, CarvedFrom
    <2> QED
      BY <1>1, <1>5, <1>6, <1>8, <1>12, <2>1 DEF HeapInv, Alone
  <1>18. Table'
    BY DEF HeapInv, Table
  <1> QED
    BY <1>12, <1>14, <1>15, <1>16, <1>17, <1>18 DEF HeapInv

(* A region that is mapped is in nobody's use. *)
LEMMA NewRegion ==
  ASSUME HeapInv, NEW r \in Regions \ mapped, RegAdd(r)
  PROVE  /\ regs' \in Seq(Regions) /\ Len(regs') <= RMax
         /\ \A j, k \in DOMAIN regs' : regs'[j] = regs'[k] => j = k
         /\ \A x : Listed(x)' <=> Listed(x) \/ (x = r /\ Len(regs) < RMax)
         /\ \A k \in DOMAIN regs' : regs'[k] \in mapped \union {r}
         /\ \A x : Listed(x) => x \in mapped
         /\ \A b \in DOMAIN header : b[1] # r
         /\ \A t \in Threads, c \in Classes : Base(t, c) # r
  <1>1. ~Listed(r) /\ \A x : Listed(x) => x \in mapped
    BY DEF HeapInv, Table, Listed
  <1>2. /\ regs' \in Seq(Regions) /\ Len(regs') <= RMax
        /\ \A j, k \in DOMAIN regs' : regs'[j] = regs'[k] => j = k
        /\ \A x : (\E k \in DOMAIN regs' : regs'[k] = x) <=>
                    Listed(x) \/ (x = r /\ Len(regs) < RMax)
    BY <1>1, AddKeeps DEF HeapInv, Typed, Table
  <1>3. \A x : Listed(x)' <=> Listed(x) \/ (x = r /\ Len(regs) < RMax)
    BY <1>2 DEF Listed
  <1>4. \A b \in DOMAIN header : b[1] # r
    BY DEF HeapInv, Alone
  <1>5. \A t \in Threads, c \in Classes : Base(t, c) # r
    BY GameAllocAssumption DEF HeapInv, Carved
  <1> QED
    BY <1>1, <1>2, <1>3, <1>4, <1>5

(* A thread begins a region for one of its classes. *)
LEMMA MapRegionStep ==
  ASSUME HeapInv, NEW t \in Threads, MapRegion(t)
  PROVE  HeapInv'
  <1>0. PICK a : a = arg[t]
    OBVIOUS
  <1>1. /\ pc[t] = "map" /\ pc' = [pc EXCEPT ![t] = "bump_again"] /\ lock' = None
        /\ UNCHANGED <<tid, gnext, free, pend, header, live, arg, calls>>
    BY DEF MapRegion, At, GoTo, Unlock
  <1>2. /\ a \in Classes /\ tid[t] # -1 /\ lock = t /\ None \notin Threads \union Regions
    BY <1>0, <1>1, PlaceFacts, GameAllocAssumption DEF HeapInv, Standing, Stands, Allocating
  <1>3. \A u \in Threads : pc'[u] = IF u = t THEN "bump_again" ELSE pc[u]
    BY <1>1 DEF HeapInv, Typed
  <1>4. pc' \in [Threads -> {"idle"} \union Allocating \union Mapping \union Given]
    BY <1>1 DEF HeapInv, Typed, Allocating
  <1>5. Standing'
    <2>1. ASSUME NEW u \in Threads, u # t PROVE Stands(u)'
      <3>1. pc[u] \in Given => arg[u] \in DOMAIN header
        BY DEF HeapInv, Standing, Stands
      <3> QED
        BY <1>1, <1>3, <2>1, <3>1, OthersStand DEF HeapInv, Standing
    <2>2. Stands(t)'
      BY <1>0, <1>1, <1>2, <1>3 DEF Stands, Given
    <2>3. \A u \in Threads : lock' = u <=> pc'[u] \in Inside
      BY <1>1, <1>2, <1>3, PlaceFacts DEF HeapInv, Standing
    <2> QED
      BY <2>1, <2>2, <2>3 DEF Standing
  <1>6. \A u \in Threads : Quiet(u)
    BY <1>1, <1>3 DEF Quiet, Given
  <1>7. CASE UNCHANGED <<mapped, arena, regs>>
    <2>1. Typed'
      BY <1>1, <1>4, <1>7 DEF HeapInv, Typed
    <2> QED
      BY <1>1, <1>5, <1>6, <1>7, <2>1, QuietStep
  <1>8. ASSUME NEW r \in Regions \ mapped, mapped' = mapped \union {r}, RegAdd(r),
               arena' = [arena EXCEPT ![t][a] = [base |-> r, off |-> 0, cap |-> PerRegion]]
        PROVE  HeapInv'
    <2>1. /\ regs' \in Seq(Regions) /\ Len(regs') <= RMax
          /\ \A j, k \in DOMAIN regs' : regs'[j] = regs'[k] => j = k
          /\ \A x : Listed(x)' => Listed(x) \/ x = r
          /\ \A k \in DOMAIN regs' : regs'[k] \in mapped'
          /\ \A b \in DOMAIN header : b[1] # r
          /\ \A u \in Threads, c \in Classes : Base(u, c) # r
      BY <1>8, NewRegion
    <2>2. [base |-> r, off |-> 0, cap |-> PerRegion] \in ArenaType
      BY GameAllocAssumption DEF ArenaType
    <2>3. /\ arena' \in [Threads -> [Classes -> ArenaType]]
          /\ \A u \in Threads, c \in Classes :
               /\ ~(u = t /\ c = a) => arena'[u][c] = arena[u][c]
               /\ Base(u, c)' = IF u = t /\ c = a THEN r ELSE Base(u, c)
      BY <1>2, <1>8, <2>2 DEF HeapInv, Typed, Base
    <2>4. Typed'
      BY <1>1, <1>4, <1>8, <2>1, <2>3 DEF HeapInv, Typed
    <2>5. Carved'
      <3>1. \A u \in Threads, c \in Classes :
              (tid'[u] = -1 => arena'[u][c] = Fresh) /\ (Base(u, c)' # None => Base(u, c)' \in mapped')
        BY <1>1, <1>2, <1>8, <2>3 DEF HeapInv, Carved
      <3>2. \A u, v \in Threads, c, d \in Classes :
              Base(u, c)' # None /\ Base(v, d)' = Base(u, c)' => v = u /\ d = c
        BY <1>1, <2>1, <2>3 DEF HeapInv, Carved
      <3>3. ASSUME NEW u \in Threads, NEW c \in Classes, NEW x \in DOMAIN header,
                   x[1] = Base(u, c)'
            PROVE  CarvedFrom(x, u, c)'
        <4>1. ~(u = t /\ c = a) /\ x[1] = Base(u, c)
          BY <2>1, <2>3, <3>3
        <4>2. CarvedFrom(x, u, c)
          BY <4>1 DEF HeapInv, Carved
        <4> QED
          BY <1>1, <2>3, <4>1, <4>2 DEF CarvedFrom
      <3> QED
        BY <1>1, <3>1, <3>2, <3>3 DEF Carved
    <2>6. Alone' /\ Table' /\ Kept'
      BY <1>1, <1>8, <2>1 DEF HeapInv, Alone, Table, Kept, OfClass
    <2>7. /\ \A u \in Threads : \A x : Returns(u, x)' <=> Returns(u, x)
          /\ \A u \in Threads : \A x : Marks(u, x)' <=> Marks(u, x)
          /\ \A u \in Threads : \A x : Owns(u, x)' <=> Owns(u, x)
          /\ \A x : Awaits(x)' <=> Awaits(x)
      BY <1>1, <1>3 DEF Returns, Marks, Owns, Awaits, Given
    <2>8. Placed'
      BY <1>1, <2>7 DEF HeapInv, Placed
    <2>9. Flagged'
      BY <1>1, <2>7 DEF HeapInv, Flagged, IsFree
    <2>10. Leaving'
      <3>1. ASSUME NEW u \in Threads, pc'[u] = "unmap"
            PROVE  header'[arg'[u]].kind # "class" /\ ~Listed(arg[u][1])'
        <4>1. PICK x, q : x = arg[u] /\ q = x[1]
          OBVIOUS
        <4>2. pc[u] = "unmap" /\ x \in DOMAIN header /\ arg'[u] = x
          BY <1>1, <1>3, <3>1, <4>1 DEF HeapInv, Standing, Stands, Given
        <4>3. header[x].kind # "class" /\ ~Listed(q) /\ q # r
          BY <2>1, <4>1, <4>2 DEF HeapInv, Leaving
        <4>4. ~Listed(q)'
          BY <2>1, <4>3
        <4> QED
          BY <1>1, <4>1, <4>2, <4>3, <4>4 DEF Listed
      <3> QED
        BY <3>1 DEF Leaving
    <2> QED
      BY <1>5, <2>4, <2>5, <2>6, <2>8, <2>9, <2>10 DEF HeapInv
  <1> QED
    BY <1>0, <1>7, <1>8 DEF MapRegion

(* A large or an aligned block is the first and only block of its region. *)
LEMMA MapWholeStep ==
  ASSUME HeapInv, NEW t \in Threads, NEW k \in {"large", "aligned"},
         pc[t] \in {"map_large", "map_aligned"}, MapWhole(t, k)
  PROVE  HeapInv'
  <1>1. /\ pc' = [pc EXCEPT ![t] = "idle"] /\ lock' = None
        /\ UNCHANGED <<tid, gnext, arena, free, pend, arg, calls>>
    BY DEF MapWhole, GoTo, Unlock, own
  <1>2. lock = t /\ None \notin Threads \union Regions
    BY PlaceFacts, GameAllocAssumption DEF HeapInv, Standing
  <1>3. /\ pc' \in [Threads -> {"idle"} \union Allocating \union Mapping \union Given]
        /\ \A u \in Threads : pc'[u] = IF u = t THEN "idle" ELSE pc[u]
    BY <1>1 DEF HeapInv, Typed
  <1>4. ASSUME \A x \in DOMAIN header : x \in DOMAIN header' /\ header'[x] = header[x]
        PROVE  Standing'
    <2>1. ASSUME NEW u \in Threads, u # t PROVE Stands(u)'
      <3>1. pc[u] \in Given => arg[u] \in DOMAIN header
        BY DEF HeapInv, Standing, Stands
      <3> QED
        BY <1>1, <1>3, <1>4, <2>1, <3>1, OthersStand DEF HeapInv, Standing
    <2>2. Stands(t)'
      BY <1>3 DEF Stands, Given, Allocating
    <2>3. \A u \in Threads : lock' = u <=> pc'[u] \in Inside
      BY <1>1, <1>2, <1>3, PlaceFacts DEF HeapInv, Standing
    <2> QED
      BY <2>1, <2>2, <2>3 DEF Standing
  <1>5. CASE UNCHANGED <<mapped, regs, header, live>>
    <2>1. Typed'
      BY <1>1, <1>3, <1>5 DEF HeapInv, Typed
    <2>2. \A u \in Threads : Quiet(u)
      BY <1>1, <1>3 DEF Quiet, Given
    <2> QED
      BY <1>1, <1>4, <1>5, <2>1, <2>2, QuietStep
  <1>6. ASSUME NEW r \in Regions \ mapped, mapped' = mapped \union {r}, RegAdd(r),
               header' = Written(<<r, 1>>, Whole(k)), live' = live \union {<<r, 1>>}
        PROVE  HeapInv'
    <2>1. /\ regs' \in Seq(Regions) /\ Len(regs') <= RMax
          /\ \A i, j \in DOMAIN regs' : regs'[i] = regs'[j] => i = j
          /\ \A x : Listed(x)' => Listed(x) \/ x = r
          /\ \A j \in DOMAIN regs' : regs'[j] \in mapped'
          /\ \A b \in DOMAIN header : b[1] # r
          /\ \A u \in Threads, c \in Classes : Base(u, c) # r
      BY <1>6, NewRegion
    <2>2. PICK b, h : b = <<r, 1>> /\ h = Whole(k)
      OBVIOUS
    <2>3. b \in Block /\ b[1] = r /\ b \notin DOMAIN header
      BY <2>1, <2>2, GameAllocAssumption DEF Block
    <2>4. h \in Header /\ ~h.free /\ h.kind # "class"
      BY <2>2 DEF Whole, Header
    <2>5. /\ \A u \in Threads : \A x : Returns(u, x)' <=> Returns(u, x)
          /\ \A u \in Threads : \A x : Marks(u, x)' <=> Marks(u, x)
          /\ \A u \in Threads : pc'[u] = "unmap" => pc[u] = "unmap" /\ arg'[u] = arg[u]
      BY <1>1, <1>3 DEF Returns, Marks, Given
    <2>6. ASSUME NEW u \in Threads, pc[u] = "unmap", NEW q, q = arg[u][1] PROVE ~Listed(q)'
      <3>1. arg[u] \in DOMAIN header
        BY <2>6 DEF HeapInv, Standing, Stands, Given
      <3> QED
        BY <2>1, <2>6, <3>1 DEF HeapInv, Leaving
    <2>7. /\ DOMAIN header' = DOMAIN header \union {b} /\ header'[b] = h
          /\ \A x \in DOMAIN header : header'[x] = header[x]
          /\ header' \in [DOMAIN header' -> Header]
          /\ Kept' /\ Placed' /\ Flagged' /\ Leaving'
      BY <1>1, <1>6, <2>2, <2>3, <2>4, <2>5, <2>6, NewBlock
    <2>8. Typed'
      BY <1>1, <1>3, <1>6, <2>1, <2>2, <2>3, <2>7 DEF HeapInv, Typed
    <2>9. Carved'
      <3>1. \A u \in Threads, c \in Classes : Base(u, c)' = Base(u, c)
        BY <1>1 DEF Base
      <3>2. ASSUME NEW u \in Threads, NEW c \in Classes, NEW x \in DOMAIN header', x[1] = Base(u, c)
            PROVE  CarvedFrom(x, u, c)'
        <4>1. x \in DOMAIN header /\ header'[x] = header[x]
          BY <2>1, <2>3, <2>7, <3>2
        <4>2. CarvedFrom(x, u, c)
          BY <3>2, <4>1 DEF HeapInv, Carved
        <4> QED
          BY <1>1, <4>1, <4>2 DEF CarvedFrom
      <3> QED
        BY <1>1, <1>6, <3>1, <3>2 DEF HeapInv, Carved
    <2>10. Alone'
      BY <1>6, <2>1, <2>3, <2>4, <2>7 DEF HeapInv, Alone
    <2>11. Table'
      BY <2>1 DEF Table
    <2> QED
      BY <1>4, <2>7, <2>8, <2>9, <2>10, <2>11 DEF HeapInv
  <1> QED
    BY <1>5, <1>6 DEF MapWhole

(* ga_free looks the block up; a region that is to be unmapped leaves the     *)
(* table, and no small block was in it.                                      *)
LEMMA LookOtherStep ==
  ASSUME HeapInv, NEW t \in Threads, LookOther(t)
  PROVE  HeapInv'
  <1>0. PICK b : b = arg[t]
    OBVIOUS
  <1>1. /\ pc[t] = "look" /\ lock' = None
        /\ UNCHANGED <<tid, gnext, arena, free, pend, mapped, header, live, arg, calls>>
    BY DEF LookOther, At, Unlock, own
  <1>2. /\ lock = t /\ None \notin Threads /\ b \in DOMAIN header
    BY <1>0, <1>1, PlaceFacts, GameAllocAssumption DEF HeapInv, Standing, Stands, Given
  <1>3. PICK w \in {"unmap", "libc"} : pc' = [pc EXCEPT ![t] = w]
    BY DEF LookOther, GoTo
  <1>4. /\ pc' \in [Threads -> {"idle"} \union Allocating \union Mapping \union Given]
        /\ \A u \in Threads : pc'[u] = IF u = t THEN w ELSE pc[u]
    BY <1>3 DEF HeapInv, Typed, Given
  <1>5. Standing'
    <2>1. ASSUME NEW u \in Threads, u # t PROVE Stands(u)'
      <3>1. pc[u] \in Given => arg[u] \in DOMAIN header
        BY DEF HeapInv, Standing, Stands
      <3> QED
        BY <1>1, <1>4, <2>1, <3>1, OthersStand DEF HeapInv, Standing
    <2>2. Stands(t)'
      BY <1>0, <1>1, <1>2, <1>4 DEF Stands, Allocating
    <2>3. \A u \in Threads : lock' = u <=> pc'[u] \in Inside
      BY <1>1, <1>2, <1>4, PlaceFacts DEF HeapInv, Standing
    <2> QED
      BY <2>1, <2>2, <2>3 DEF Standing
  <1>6. CASE ~Listed(b[1])
    <2>1. regs' = regs /\ w = "libc"
      BY <1>0, <1>1, <1>2, <1>3, <1>6 DEF HeapInv, Typed, LookOther, GoTo
    <2>2. Typed'
      BY <1>1, <1>4, <2>1 DEF HeapInv, Typed
    <2>3. \A u \in Threads : Quiet(u)
      BY <1>1, <1>4, <2>1 DEF Quiet
    <2> QED
      BY <1>1, <1>5, <2>1, <2>2, <2>3, QuietStep
  <1>7. CASE Listed(b[1])
    <2>1. RegDel(b[1]) /\ w = "unmap" /\ header[b].kind # "class"
      BY <1>0, <1>1, <1>2, <1>3, <1>7 DEF HeapInv, Typed, LookOther, GoTo
    <2>2. /\ regs' \in Seq(Regions) /\ Len(regs') <= RMax
          /\ \A i, j \in DOMAIN regs' : regs'[i] = regs'[j] => i = j
          /\ \A x : (\E k \in DOMAIN regs' : regs'[k] = x) <=> Listed(x) /\ x # b[1]
      BY <1>7, <2>1, DeleteKeeps DEF HeapInv, Typed, Table
    <2>3. \A x : Listed(x)' <=> Listed(x) /\ x # b[1]
      BY <2>2 DEF Listed
    <2>4. Typed'
      BY <1>1, <1>4, <2>2 DEF HeapInv, Typed
    <2>5. Carved' /\ Alone' /\ Kept'
      BY <1>1 DEF HeapInv, Carved, Base, CarvedFrom, Alone, Kept, OfClass
    <2>6. Table'
      BY <1>1, <2>2 DEF HeapInv, Table, Listed
    <2>7. /\ \A u \in Threads : \A x : Returns(u, x)' <=> Returns(u, x)
          /\ \A u \in Threads : \A x : Marks(u, x)' <=> Marks(u, x)
          /\ \A u \in Threads : \A x : Owns(u, x)' <=> Owns(u, x)
          /\ \A x : Awaits(x)' <=> Awaits(x)
      BY <1>1, <1>4 DEF Returns, Marks, Owns, Awaits, Given
    <2>8. Placed'
      BY <1>1, <2>7 DEF HeapInv, Placed
    <2>9. Flagged'
      BY <1>1, <2>7 DEF HeapInv, Flagged, IsFree
    <2>10. Leaving'
      <3>1. ASSUME NEW u \in Threads, pc'[u] = "unmap"
            PROVE  header[arg[u]].kind # "class" /\ ~Listed(arg[u][1])'
        <4>1. PICK x, q : x = arg[u] /\ q = x[1]
          OBVIOUS
        <4>2. header[x].kind # "class" /\ (~Listed(q) \/ q = b[1])
          BY <1>0, <1>4, <2>1, <3>1, <4>1 DEF HeapInv, Leaving
        <4>3. ~Listed(q)'
          BY <2>3, <4>2
        <4> QED
          BY <1>1, <4>1, <4>2, <4>3 DEF Listed
      <3> QED
        BY <1>1, <3>1 DEF Leaving
    <2> QED
      BY <1>5, <2>4, <2>5, <2>6, <2>8, <2>9, <2>10 DEF HeapInv
  <1> QED
    BY <1>6, <1>7

(* A region is unmapped with its one block. *)
LEMMA UnmapStep ==
  ASSUME HeapInv, NEW t \in Threads, Unmap(t)
  PROVE  HeapInv'
  <1>0. PICK b : b = arg[t]
    OBVIOUS
  <1>1. /\ pc[t] = "unmap" /\ pc' = [pc EXCEPT ![t] = "idle"] /\ arg' = [arg EXCEPT ![t] = None]
        /\ mapped' = mapped \ {b[1]}
        /\ header' = [x \in {y \in DOMAIN header : y[1] # b[1]} |-> header[x]]
        /\ UNCHANGED <<lock, tid, gnext, arena, free, pend, regs, live, calls>>
    BY <1>0 DEF Unmap, At, Done, GoTo, own
  <1>2. /\ b \in DOMAIN header /\ Returns(t, b) /\ header[b].kind # "class" /\ ~Listed(b[1])
        /\ pc[t] \notin Inside
    BY <1>0, <1>1, PlaceFacts DEF HeapInv, Standing, Stands, Given, Returns, Leaving
  <1>3. /\ DOMAIN header' = DOMAIN header \ {b}
        /\ \A x \in DOMAIN header' : header'[x] = header[x] /\ x[1] # b[1]
        /\ header' \in [DOMAIN header' -> Header]
    <2>1. \A x \in DOMAIN header : x[1] = b[1] <=> x = b
      BY <1>2 DEF HeapInv, Alone
    <2> QED
      BY <1>1, <1>2, <2>1 DEF HeapInv, Typed
  <1>4. \A u \in Threads : /\ pc'[u] = IF u = t THEN "idle" ELSE pc[u]
                           /\ arg'[u] = IF u = t THEN None ELSE arg[u]
    BY <1>1 DEF HeapInv, Typed
  <1>5. b \notin live
    BY <1>2 DEF HeapInv, Placed
  <1>6. Typed'
    BY <1>1, <1>3, <1>4, <1>5 DEF HeapInv, Typed
  <1>7. Standing'
    <2>1. ASSUME NEW u \in Threads, u # t PROVE Stands(u)'
      <3>1. pc[u] \in Given => arg[u] \in DOMAIN header /\ arg[u] # b
        BY <1>2, <2>1 DEF HeapInv, Standing, Stands, Placed, Returns
      <3> QED
        BY <1>1, <1>3, <1>4, <2>1, <3>1, OthersStand DEF HeapInv, Standing
    <2>2. Stands(t)'
      BY <1>4 DEF Stands, Given, Allocating
    <2>3. \A u \in Threads : lock' = u <=> pc'[u] \in Inside
      BY <1>1, <1>2, <1>4, PlaceFacts DEF HeapInv, Standing
    <2> QED
      BY <2>1, <2>2, <2>3 DEF Standing
  <1>8. \A u \in Threads, c \in Classes : Base(u, c) # b[1]
    BY <1>2 DEF HeapInv, Carved, CarvedFrom
  <1>9. Carved'
    <2>1. \A u \in Threads, c \in Classes : Base(u, c)' = Base(u, c)
      BY <1>1 DEF Base
    <2>2. \A u \in Threads, c \in Classes, x \in DOMAIN header' :
            CarvedFrom(x, u, c)' <=> CarvedFrom(x, u, c)
      BY <1>1, <1>3 DEF CarvedFrom
    <2> QED
      BY <1>1, <1>3, <1>8, <2>1, <2>2 DEF HeapInv, Carved
  <1>10. Alone'
    BY <1>1, <1>3 DEF HeapInv, Alone
  <1>11. Table'
    BY <1>1, <1>2 DEF HeapInv, Table, Listed
  <1>12. \A x : \A c \in Classes : OfClass(x, c) => OfClass(x, c)'
    BY <1>2, <1>3 DEF OfClass
  <1>13. Kept'
    BY <1>1, <1>12 DEF HeapInv, Kept
  <1>14. /\ \A u \in Threads : \A x : x # b => (Returns(u, x)' <=> Returns(u, x))
         /\ \A u \in Threads : \A x : Marks(u, x)' <=> Marks(u, x)
         /\ \A u \in Threads : \A x : Owns(u, x)' <=> Owns(u, x)
         /\ \A x : Awaits(x)' <=> Awaits(x)
    BY <1>0, <1>1, <1>4 DEF Returns, Marks, Owns, Awaits, Given
  <1>15. Placed'
    BY <1>1, <1>3, <1>14 DEF HeapInv, Placed
  <1>16. \A x : IsFree(x)' <=> IsFree(x)
    BY <1>14 DEF IsFree
  <1>17. Flagged'
    BY <1>3, <1>16 DEF HeapInv, Flagged
  <1>18. Leaving'
    <2>1. ASSUME NEW u \in Threads, pc'[u] = "unmap"
          PROVE  header'[arg'[u]].kind # "class" /\ ~Listed(arg'[u][1])
      <3>1. pc[u] = "unmap" /\ u # t /\ arg'[u] = arg[u]
        BY <1>4, <2>1
      <3>2. arg[u] \in DOMAIN header /\ arg[u] # b
        BY <1>2, <3>1 DEF HeapInv, Standing, Stands, Placed, Returns, Given
      <3> QED
        BY <1>3, <3>1, <3>2 DEF HeapInv, Leaving
    <2> QED
      BY <1>1, <2>1 DEF Leaving, Listed
  <1> QED
    BY <1>6, <1>7, <1>9, <1>10, <1>11, <1>13, <1>15, <1>17, <1>18 DEF HeapInv

(* A small block is flagged; it was not, because nobody else has it. *)
LEMMA LookSmallStep ==
  ASSUME HeapInv, NEW t \in Threads, LookSmall(t)
  PROVE  HeapInv'
  <1>0. PICK b, w : b = arg[t] /\ w = IF tid[t] < 0 THEN "wait_self" ELSE "push"
    OBVIOUS
  <1>1. pc[t] = "look" /\ header[b].kind = "class"
    BY <1>0 DEF LookSmall, At
  <1>2. /\ b \in DOMAIN header /\ Returns(t, b) /\ lock = t
    BY <1>0, <1>1, PlaceFacts DEF HeapInv, Standing, Stands, Given, Returns
  <1>3. ~IsFree(b)
    <2>1. ~Awaits(b) /\ \A u \in Threads : ~Owns(u, b) /\ (Returns(u, b) => u = t)
      BY <1>2 DEF HeapInv, Placed
    <2>2. \A u \in Threads : Marks(u, b) => Returns(u, b) /\ u # t
      BY <1>1 DEF Marks, Returns, Given
    <2> QED
      BY <2>1, <2>2 DEF IsFree
  <1>4. ~header[b].free
    BY <1>2, <1>3 DEF HeapInv, Flagged
  <1>5. /\ header' = [header EXCEPT ![b].free = TRUE]
        /\ pc' = [pc EXCEPT ![t] = w] /\ w \in {"wait_self", "push"}
        /\ UNCHANGED <<lock, tid, gnext, arena, free, pend, regs, mapped, live, arg, calls>>
    BY <1>0, <1>4 DEF LookSmall, GoTo, own, shared
  <1>6. /\ DOMAIN header' = DOMAIN header
        /\ header' \in [DOMAIN header -> Header]
        /\ \A x \in DOMAIN header : /\ header'[x].kind = header[x].kind
                                    /\ header'[x].cls = header[x].cls
                                    /\ header'[x].own = header[x].own
        /\ header'[b].free
        /\ \A x \in DOMAIN header : x # b => header'[x].free = header[x].free
    <2>1. header \in [DOMAIN header -> Header]
      BY DEF HeapInv, Typed
    <2>2. PICK k : k = [header[b] EXCEPT !.free = TRUE]
      OBVIOUS
    <2>3. header[b] \in Header /\ header' = [header EXCEPT ![b] = k]
      BY <1>2, <1>5, <2>1, <2>2
    <2>4. /\ k \in Header /\ k.kind = header[b].kind /\ k.cls = header[b].cls
          /\ k.own = header[b].own /\ k.free
      BY <2>2, <2>3 DEF Header
    <2>5. DOMAIN header' = DOMAIN header /\ header' \in [DOMAIN header -> Header]
      BY <2>1, <2>3, <2>4
    <2>6. \A x \in DOMAIN header : header'[x] = IF x = b THEN k ELSE header[x]
      BY <2>3
    <2> QED
      BY <1>2, <2>4, <2>5, <2>6
  <1>7. /\ pc' \in [Threads -> {"idle"} \union Allocating \union Mapping \union Given]
        /\ \A u \in Threads : pc'[u] = IF u = t THEN w ELSE pc[u]
    BY <1>5 DEF HeapInv, Typed, Given
  <1>8. Typed'
    BY <1>5, <1>6, <1>7 DEF HeapInv, Typed
  <1>9. Standing'
    <2>1. ASSUME NEW u \in Threads, u # t PROVE Stands(u)'
      <3>1. pc[u] \in Given => arg[u] \in DOMAIN header
        BY DEF HeapInv, Standing, Stands
      <3> QED
        BY <1>5, <1>6, <1>7, <2>1, <3>1, OthersStand DEF HeapInv, Standing
    <2>2. Stands(t)'
      BY <1>0, <1>1, <1>2, <1>5, <1>6, <1>7 DEF Stands, Allocating
    <2>3. \A u \in Threads : lock' = u <=> pc'[u] \in Inside
      BY <1>2, <1>5, <1>7, PlaceFacts DEF HeapInv, Standing
    <2> QED
      BY <2>1, <2>2, <2>3 DEF Standing
  <1>10. Carved'
    <2>1. \A u \in Threads, c \in Classes : Base(u, c)' = Base(u, c)
      BY <1>5 DEF Base
    <2>2. \A u \in Threads, c \in Classes, x \in DOMAIN header :
            CarvedFrom(x, u, c)' <=> CarvedFrom(x, u, c)
      BY <1>5, <1>6 DEF CarvedFrom
    <2> QED
      BY <1>5, <1>6, <2>1, <2>2 DEF HeapInv, Carved
  <1>11. Alone'
    BY <1>5, <1>6 DEF HeapInv, Alone
  <1>12. Table'
    BY <1>5 DEF HeapInv, Table
  <1>13. \A x : \A c \in Classes : OfClass(x, c) => OfClass(x, c)'
    BY <1>6 DEF OfClass
  <1>14. Kept'
    BY <1>5, <1>13 DEF HeapInv, Kept
  <1>15. /\ \A u \in Threads : \A x : Returns(u, x)' <=> Returns(u, x)
         /\ \A u \in Threads : \A x : Marks(u, x)' <=> Marks(u, x) \/ (u = t /\ x = b)
         /\ \A u \in Threads : \A x : Owns(u, x)' <=> Owns(u, x)
         /\ \A x : Awaits(x)' <=> Awaits(x)
    BY <1>0, <1>1, <1>5, <1>7 DEF Returns, Marks, Owns, Awaits, Given
  <1>16. Placed'
    BY <1>5, <1>6, <1>15 DEF HeapInv, Placed
  <1>17. \A x : IsFree(x)' <=> IsFree(x) \/ x = b
    BY <1>15 DEF IsFree
  <1>18. Flagged'
    BY <1>6, <1>17 DEF HeapInv, Flagged
  <1>19. Leaving'
    <2>1. ASSUME NEW u \in Threads, pc'[u] = "unmap"
          PROVE  header'[arg[u]].kind # "class" /\ ~Listed(arg[u][1])
      <3>1. pc[u] = "unmap"
        BY <1>5, <1>7, <2>1
      <3>2. arg[u] \in DOMAIN header
        BY <3>1 DEF HeapInv, Standing, Stands, Given
      <3> QED
        BY <1>6, <3>1, <3>2 DEF HeapInv, Leaving
    <2> QED
      BY <1>5, <2>1 DEF Leaving, Listed
  <1> QED
    BY <1>8, <1>9, <1>10, <1>11, <1>12, <1>14, <1>16, <1>18, <1>19 DEF HeapInv

(* The block goes to the front of a list of its class: that of the thread     *)
(* that carved it, if it is this one, or the pending one.                    *)
LEMMA PushStep ==
  ASSUME HeapInv, NEW t \in Threads, Push(t)
  PROVE  HeapInv'
  <1>0. PICK b, a : b = arg[t] /\ a = header[b].cls
    OBVIOUS
  <1>1. /\ pc[t] = "push" /\ pc' = [pc EXCEPT ![t] = "idle"] /\ arg' = [arg EXCEPT ![t] = None]
        /\ lock' = None
        /\ UNCHANGED <<tid, gnext, arena, regs, mapped, header, live, calls>>
        /\ \/ free' = [free EXCEPT ![t][a] = <<b>> \o free[t][a]] /\ pend' = pend
           \/ pend' = [pend EXCEPT ![a] = <<b>> \o pend[a]] /\ free' = free
    BY <1>0 DEF Push, At, Done, GoTo, Unlock
  <1>2. /\ b \in DOMAIN header /\ b \in Block /\ Returns(t, b) /\ Marks(t, b) /\ lock = t
        /\ header[b].kind = "class" /\ None \notin Threads
    BY <1>0, <1>1, PlaceFacts, GameAllocAssumption
       DEF HeapInv, Typed, Standing, Stands, Given, Returns, Marks
  <1>3. a \in Classes /\ OfClass(b, a)
    BY <1>0, <1>2 DEF HeapInv, Alone, OfClass
  <1>4. ~Awaits(b) /\ \A u \in Threads : ~Owns(u, b) /\ (Returns(u, b) => u = t)
    BY <1>2 DEF HeapInv, Placed
  <1>5. \A u \in Threads : /\ pc'[u] = IF u = t THEN "idle" ELSE pc[u]
                           /\ arg'[u] = IF u = t THEN None ELSE arg[u]
    BY <1>1 DEF HeapInv, Typed
  <1>6. ASSUME NEW s \in Seq(Block), NoLoop(s), ~In(b, s)
        PROVE  /\ <<b>> \o s \in Seq(Block) /\ NoLoop(<<b>> \o s)
               /\ \A x : In(x, <<b>> \o s) <=> In(x, s) \/ x = b
    BY <1>2, <1>6, PushKeeps
  <1>7. /\ \A u \in Threads : \A x : Returns(u, x)' <=> Returns(u, x) /\ ~(u = t /\ x = b)
        /\ \A u \in Threads : \A x : Marks(u, x)' <=> Marks(u, x) /\ ~(u = t /\ x = b)
    <2>1. \A x : /\ Returns(t, x) => x = b
                 /\ Marks(t, x) => x = b
                 /\ ~Returns(t, x)' /\ ~Marks(t, x)'
      BY <1>0, <1>5 DEF Returns, Marks, Given
    <2>2. \A u \in Threads : u # t =>
            \A x : (Returns(u, x)' <=> Returns(u, x)) /\ (Marks(u, x)' <=> Marks(u, x))
      BY <1>5 DEF Returns, Marks
    <2> QED
      BY <2>1, <2>2
  <1>8. /\ free' \in [Threads -> [Classes -> Seq(Block)]] /\ pend' \in [Classes -> Seq(Block)]
        /\ \A u \in Threads : u # t => \A c \in Classes : free'[u][c] = free[u][c]
        /\ Kept'
        /\ \A u \in Threads : \A x : x # b \/ u # t => (Owns(u, x)' <=> Owns(u, x))
        /\ \A x : x # b => (Awaits(x)' <=> Awaits(x))
        /\ Owns(t, b)' <=> ~Awaits(b)'
    <2>0. \A x : \A c \in Classes : OfClass(x, c) => OfClass(x, c)'
      BY <1>1 DEF OfClass
    <2>1. CASE free' = [free EXCEPT ![t][a] = <<b>> \o free[t][a]] /\ pend' = pend
      <3>1. free[t][a] \in Seq(Block) /\ NoLoop(free[t][a]) /\ ~In(b, free[t][a])
        BY <1>3, <1>4 DEF HeapInv, Typed, Kept, Owns
      <3>2. PICK s : s = <<b>> \o free[t][a]
        OBVIOUS
      <3>3. s \in Seq(Block) /\ NoLoop(s) /\ \A x : In(x, s) <=> In(x, free[t][a]) \/ x = b
        BY <1>6, <3>1, <3>2
      <3>4. /\ free' \in [Threads -> [Classes -> Seq(Block)]]
            /\ \A u \in Threads, c \in Classes :
                 free'[u][c] = IF u = t /\ c = a THEN s ELSE free[u][c]
        BY <1>3, <2>1, <3>2, <3>3 DEF HeapInv, Typed
      <3>5. ASSUME NEW u \in Threads, NEW c \in Classes
            PROVE  /\ NoLoop(free'[u][c])
                   /\ \A x : In(x, free'[u][c]) <=> In(x, free[u][c]) \/ (u = t /\ c = a /\ x = b)
        BY <3>3, <3>4 DEF HeapInv, Kept
      <3>6. Kept'
        BY <1>3, <2>0, <2>1, <3>5, ZenonT(30) DEF HeapInv, Kept
      <3>7. /\ \A u \in Threads : \A x : Owns(u, x)' <=> Owns(u, x) \/ (u = t /\ x = b)
            /\ \A x : Awaits(x)' <=> Awaits(x)
        <4>1. \A x : Awaits(x)' <=> Awaits(x)
          BY <2>1 DEF Awaits
        <4>2. ASSUME NEW u \in Threads, NEW x PROVE Owns(u, x)' <=> Owns(u, x) \/ (u = t /\ x = b)
          BY <1>3, <3>5 DEF Owns
        <4> QED
          BY <4>1, <4>2
      <3> QED
        BY <1>4, <2>1, <3>4, <3>6, <3>7 DEF HeapInv, Typed
    <2>2. CASE pend' = [pend EXCEPT ![a] = <<b>> \o pend[a]] /\ free' = free
      <3>1. pend[a] \in Seq(Block) /\ NoLoop(pend[a]) /\ ~In(b, pend[a])
        BY <1>3, <1>4 DEF HeapInv, Typed, Kept, Awaits
      <3>2. PICK s : s = <<b>> \o pend[a]
        OBVIOUS
      <3>3. s \in Seq(Block) /\ NoLoop(s) /\ \A x : In(x, s) <=> In(x, pend[a]) \/ x = b
        BY <1>6, <3>1, <3>2
      <3>4. /\ pend' \in [Classes -> Seq(Block)]
            /\ \A c \in Classes : pend'[c] = IF c = a THEN s ELSE pend[c]
        BY <1>3, <2>2, <3>2, <3>3 DEF HeapInv, Typed
      <3>5. ASSUME NEW c \in Classes
            PROVE  /\ NoLoop(pend'[c])
                   /\ \A x : In(x, pend'[c]) <=> In(x, pend[c]) \/ (c = a /\ x = b)
        BY <3>3, <3>4 DEF HeapInv, Kept
      <3>6. Kept'
        BY <1>3, <2>0, <2>2, <3>5 DEF HeapInv, Kept
      <3>7. /\ \A u \in Threads : \A x : Owns(u, x)' <=> Owns(u, x)
            /\ \A x : Awaits(x)' <=> Awaits(x) \/ x = b
        BY <1>3, <2>2, <3>5 DEF Owns, Awaits
      <3> QED
        BY <1>4, <2>2, <3>4, <3>6, <3>7 DEF HeapInv, Typed
    <2> QED
      BY <1>1, <2>1, <2>2
  <1>9. Typed'
    BY <1>1, <1>5, <1>8 DEF HeapInv, Typed
  <1>10. Standing'
    <2>1. ASSUME NEW u \in Threads, u # t PROVE Stands(u)'
      <3>1. pc[u] \in Given => arg[u] \in DOMAIN header
        BY DEF HeapInv, Standing, Stands
      <3> QED
        BY <1>1, <1>5, <1>8, <2>1, <3>1, OthersStand DEF HeapInv, Standing
    <2>2. Stands(t)'
      BY <1>5 DEF Stands, Given, Allocating
    <2>3. \A u \in Threads : lock' = u <=> pc'[u] \in Inside
      BY <1>1, <1>2, <1>5, PlaceFacts DEF HeapInv, Standing
    <2> QED
      BY <2>1, <2>2, <2>3 DEF Standing
  <1>11. Carved' /\ Alone' /\ Table'
    BY <1>1 DEF HeapInv, Carved, Base, CarvedFrom, Alone, Table
  <1>12. Placed'
    <2>1. /\ b \notin live
          /\ Owns(t, b)' <=> ~Awaits(b)'
          /\ \A u \in Threads : ~Returns(u, b)' /\ (u # t => ~Owns(u, b)')
      BY <1>2, <1>4, <1>7, <1>8 DEF HeapInv, Placed
    <2>2. \A x : x # b => /\ Awaits(x)' <=> Awaits(x)
                          /\ \A u \in Threads : Owns(u, x)' <=> Owns(u, x)
                          /\ \A u \in Threads : Returns(u, x)' <=> Returns(u, x)
      BY <1>7, <1>8
    <2> QED
      BY <1>1, <2>1, <2>2 DEF HeapInv, Placed
  <1>13. \A x : IsFree(x)' <=> IsFree(x)
    BY <1>2, <1>4, <1>7, <1>8 DEF IsFree
  <1>14. Flagged'
    BY <1>1, <1>13 DEF HeapInv, Flagged
  <1>15. Leaving'
    BY <1>1, <1>5 DEF HeapInv, Leaving, Listed
  <1> QED
    BY <1>8, <1>9, <1>10, <1>11, <1>12, <1>14, <1>15 DEF HeapInv

-----------------------------------------------------------------------------
(* The invariant holds from the start, and every step keeps it.               *)
LEMMA HeapInit == Init => HeapInv
  <1> SUFFICES ASSUME Init PROVE HeapInv
    OBVIOUS
  <1>1. Typed
    BY GameAllocAssumption DEF Init, Typed, ArenaType, Block
  <1>2. Standing
    BY PlaceFacts, GameAllocAssumption DEF Init, Standing, Stands, Given, Allocating
  <1>3. Carved /\ Alone /\ Table /\ Flagged /\ Placed
    BY DEF Init, Carved, Base, Fresh, Alone, Table, Flagged, Placed
  <1>4. Kept
    BY InEmpty, LoopEmpty DEF Init, Kept
  <1>5. Leaving
    BY DEF Init, Leaving
  <1> QED
    BY <1>1, <1>2, <1>3, <1>4, <1>5 DEF HeapInv

LEMMA HeapSame ==
  ASSUME HeapInv, UNCHANGED vars PROVE HeapInv'
  <1>1. UNCHANGED <<lock, tid, gnext, arena, free, pend, regs, mapped, header, live, pc, arg, calls>>
    BY DEF vars
  <1>2. Typed' /\ Standing'
    BY <1>1 DEF HeapInv, Typed, Standing, Stands
  <1> QED
    BY <1>1, <1>2, QuietStep DEF Quiet

LEMMA HeapStep ==
  ASSUME HeapInv, [Next]_vars PROVE HeapInv'
  <1>1. ASSUME NEW t \in Threads, PopPrivate(t) \/ PopTaken(t) PROVE HeapInv'
    <2>1. CASE Pop(t)
      BY <1>1, <2>1, PopStep DEF PopPrivate, PopTaken, At, shared
    <2>2. CASE ~Pop(t)
      BY <1>1, <2>2, EmptyStep DEF PopPrivate, PopTaken, At, shared
    <2> QED
      BY <2>1, <2>2
  <1>2. ASSUME NEW t \in Threads, Bump(t) \/ BumpAgain(t) PROVE HeapInv'
    <2>1. CASE Carve(t)
      BY <1>2, <2>1, CarveStep DEF Bump, BumpAgain, At, shared
    <2>2. CASE ~Carve(t)
      BY <1>2, <2>2, NoRoomStep DEF Bump, BumpAgain, At, shared
    <2> QED
      BY <2>1, <2>2
  <1>3. ASSUME NEW t \in Threads, MapLarge(t) \/ MapAligned(t) PROVE HeapInv'
    BY <1>3, MapWholeStep DEF MapLarge, MapAligned, At
  <1>4. ASSUME NEW t \in Threads, Step(t) PROVE HeapInv'
    BY <1>1, <1>2, <1>3, <1>4, AcquireStep, SetIdStep, TakePendingStep, MapRegionStep,
       LookOtherStep, UnmapStep, LookSmallStep, PushStep DEF Step
  <1>5. CASE Next
    BY <1>4, <1>5, CallAllocStep, CallMapStep, CallFreeStep DEF Next
  <1>6. CASE UNCHANGED vars
    BY <1>6, HeapSame
  <1> QED
    BY <1>5, <1>6

(* The sets of places in OnePlace and HeadersTell, and the predicates of the  *)
(* invariant.                                                                *)
LEMMA PlaceSets ==
  ASSUME NEW b
  PROVE  /\ Private(b) # {} <=> \E t \in Threads : Owns(t, b)
         /\ Pending(b) # {} <=> Awaits(b)
         /\ Freeing(b) # {} <=> \E t \in Threads : Returns(t, b)
         /\ (\E t \in Freeing(b) : pc[t] \in {"wait_self", "push"}) <=>
              \E t \in Threads : Marks(t, b)
  <1>1. ASSUME NEW t \in Threads, Owns(t, b) PROVE Private(b) # {}
    <2>1. PICK c \in Classes : In(b, free[t][c])
      BY <1>1 DEF Owns
    <2>2. <<t, c>> \in Private(b)
      BY <2>1 DEF Private
    <2> QED
      BY <2>2
  <1>2. ASSUME NEW p \in Private(b) PROVE \E t \in Threads : Owns(t, b)
    BY DEF Private, Owns
  <1>3. Pending(b) # {} <=> Awaits(b)
    BY DEF Pending, Awaits
  <1>4. Freeing(b) # {} <=> \E t \in Threads : Returns(t, b)
    BY DEF Freeing, Returns
  <1>5. (\E t \in Freeing(b) : pc[t] \in {"wait_self", "push"}) <=>
          \E t \in Threads : Marks(t, b)
    BY DEF Freeing, Marks, Given
  <1> QED
    BY <1>1, <1>2, <1>3, <1>4, <1>5

(* What the invariant says of a block: it has one of four places.             *)
LEMMA HeapPlaces == HeapInv => OnePlace
  <1> SUFFICES ASSUME HeapInv PROVE OnePlace
    OBVIOUS
  <1>1. \A c \in Classes : NoLoop(pend[c]) /\ \A t \in Threads : NoLoop(free[t][c])
    BY DEF HeapInv, Kept
  <1>2. ASSUME NEW b \in DOMAIN header
        PROVE  Cardinality(Private(b)) + Cardinality(Pending(b)) + Cardinality(Freeing(b))
                 + Cardinality(Handed(b)) = 1
    <2>0. /\ Cardinality({}) = 0
          /\ \A x : Cardinality({x}) = 1
      BY FS_EmptySet, FS_Singleton
    <2>1. \A c, d \in Classes : In(b, pend[c]) /\ In(b, pend[d]) => c = d
      BY DEF HeapInv, Kept, OfClass
    <2>2. \A t, u \in Threads, c, d \in Classes :
            In(b, free[t][c]) /\ In(b, free[u][d]) => t = u /\ c = d
      BY DEF HeapInv, Kept, OfClass, Placed, Owns
    <2>3. Private(b) = {} \/ \E x : Private(b) = {x}
      <3>1. \A x, y \in Private(b) : x = y
        BY <2>2 DEF Private
      <3> QED
        BY <3>1
    <2>4. Pending(b) = {} \/ \E x : Pending(b) = {x}
      <3>1. \A x, y \in Pending(b) : x = y
        BY <2>1 DEF Pending
      <3> QED
        BY <3>1
    <2>5. Freeing(b) = {} \/ \E x : Freeing(b) = {x}
      <3>1. \A x, y \in Freeing(b) : x = y
        BY DEF HeapInv, Placed, Freeing, Returns
      <3> QED
        BY <3>1
    <2>6. Handed(b) = IF b \in live THEN {b} ELSE {}
      BY DEF Handed
    <2>7. /\ Private(b) # {} <=> \E t \in Threads : Owns(t, b)
          /\ Pending(b) # {} <=> Awaits(b)
          /\ Freeing(b) # {} <=> \E t \in Threads : Returns(t, b)
      BY PlaceSets
    <2>8. /\ Private(b) # {} \/ Pending(b) # {} \/ Freeing(b) # {} \/ b \in live
          /\ Private(b) # {} => Pending(b) = {} /\ Freeing(b) = {} /\ b \notin live
          /\ Pending(b) # {} => Freeing(b) = {} /\ b \notin live
          /\ Freeing(b) # {} => b \notin live
      BY <2>7 DEF HeapInv, Placed
    <2>9. /\ Cardinality(Private(b)) = IF Private(b) = {} THEN 0 ELSE 1
          /\ Cardinality(Pending(b)) = IF Pending(b) = {} THEN 0 ELSE 1
          /\ Cardinality(Freeing(b)) = IF Freeing(b) = {} THEN 0 ELSE 1
          /\ Cardinality(Handed(b)) = IF b \in live THEN 1 ELSE 0
      BY <2>0, <2>3, <2>4, <2>5, <2>6
    <2> QED
      BY <2>8, <2>9
  <1> QED
    BY <1>1, <1>2 DEF OnePlace

LEMMA HeapHeaders == HeapInv => HeadersTell
  <1> SUFFICES ASSUME HeapInv, NEW b \in DOMAIN header
               PROVE  /\ header[b].free <=> \/ Private(b) # {} \/ Pending(b) # {}
                                            \/ \E t \in Freeing(b) : pc[t] \in {"wait_self", "push"}
                      /\ \A c \in Pending(b) \union {p[2] : p \in Private(b)} : header[b].cls = c
                      /\ \A t \in Threads, c \in Classes :
                           arena[t][c].base = b[1] => header[b].own = tid[t] /\ header[b].cls = c
    BY DEF HeadersTell
  <1>1. /\ Private(b) # {} <=> \E t \in Threads : Owns(t, b)
        /\ Pending(b) # {} <=> Awaits(b)
        /\ (\E t \in Freeing(b) : pc[t] \in {"wait_self", "push"}) <=> \E t \in Threads : Marks(t, b)
    BY PlaceSets
  <1>2. header[b].free <=> \/ Private(b) # {} \/ Pending(b) # {}
                           \/ \E t \in Freeing(b) : pc[t] \in {"wait_self", "push"}
    BY <1>1 DEF HeapInv, Flagged, IsFree
  <1>3. \A c \in Pending(b) : header[b].cls = c
    BY DEF Pending, HeapInv, Kept, OfClass
  <1>4. \A p \in Private(b) : header[b].cls = p[2]
    BY DEF Private, HeapInv, Kept, OfClass
  <1>5. \A t \in Threads, c \in Classes :
          arena[t][c].base = b[1] => header[b].own = tid[t] /\ header[b].cls = c
    BY DEF HeapInv, Carved, CarvedFrom, Base
  <1> QED
    BY <1>2, <1>3, <1>4, <1>5

LEMMA HeapTypes == HeapInv => TypeOK
  BY DEF HeapInv, Typed, Standing, TypeOK, ArenaType, Fresh

-----------------------------------------------------------------------------
(* The table. It never overflows when it has room for every region there is. *)
LEMMA RoomInTable ==
  ASSUME HeapInv, TableSuffices, NEW r \in Regions \ mapped
  PROVE  Len(regs) < RMax
  <1> DEFINE n == Len(regs)
             f == [k \in 1 .. n + 1 |-> IF k = n + 1 THEN r ELSE regs[k]]
  <1>1. /\ n \in Nat /\ DOMAIN regs = 1 .. n /\ RMax \in Nat
        /\ \A k \in 1 .. n : regs[k] \in Regions /\ regs[k] # r
        /\ \A j, k \in 1 .. n : regs[j] = regs[k] => j = k
    BY GameAllocAssumption DEF HeapInv, Typed, Table
  <1> HIDE DEF n
  <1>2. \A k \in 1 .. n + 1 : k = n + 1 \/ k \in 1 .. n
    BY <1>1
  <1>3. f \in [1 .. n + 1 -> Regions]
    BY <1>1, <1>2
  <1>4. IsInjective(f)
    BY <1>1, <1>2 DEF IsInjective
  <1>5. f \in Injection(1 .. n + 1, Regions)
    BY <1>3, <1>4 DEF Injection
  <1> HIDE DEF f
  <1>6. IsFiniteSet(Regions) /\ Cardinality(Regions) \in Nat /\ Cardinality(Regions) <= RMax
    BY FS_CardinalityType DEF TableSuffices
  <1>7. Cardinality(1 .. n + 1) <= Cardinality(Regions)
    BY <1>5, <1>6, FS_Injection
  <1>8. Cardinality(1 .. n + 1) = n + 1
    <2>1. 1 \in Int /\ n + 1 \in Int /\ ~(1 > n + 1) /\ (n + 1) - 1 + 1 = n + 1
      BY <1>1
    <2> QED
      BY <2>1, FS_Interval
  <1> QED
    BY <1>1, <1>6, <1>7, <1>8 DEF n

(* Steps on which no region leaves the table, and every new one is in it. *)
LEMMA InTableKept ==
  ASSUME InTable,
         \A x : Listed(x) => \E k \in DOMAIN regs' : regs'[k] = x,
         \A t \in Threads, c \in Classes :
           Base(t, c)' = Base(t, c) \/ \E k \in DOMAIN regs' : regs'[k] = Base(t, c)',
         \A b \in DOMAIN header' : b \in DOMAIN header \/ \E k \in DOMAIN regs' : regs'[k] = b[1],
         \A t \in Threads : \A b : pc[t] = "unmap" /\ arg[t] = b /\ b \in DOMAIN header' =>
                                   pc'[t] = "unmap" /\ arg'[t] = b,
         \A t \in Threads : pc'[t] # "libc"
  PROVE  InTable'
  <1>1. ASSUME NEW b \in DOMAIN header', \A t \in Threads : ~(pc'[t] = "unmap" /\ arg'[t] = b)
        PROVE  \E k \in DOMAIN regs' : regs'[k] = b[1]
    <2>1. CASE b \in DOMAIN header
      <3>1. Listed(b[1])
        BY <1>1, <2>1 DEF InTable
      <3> QED
        BY <3>1
    <2> QED
      BY <1>1, <2>1
  <1>2. ASSUME NEW t \in Threads, NEW c \in Classes, Base(t, c)' # None
        PROVE  \E k \in DOMAIN regs' : regs'[k] = Base(t, c)'
    <2>1. CASE Base(t, c)' = Base(t, c)
      <3>1. Listed(Base(t, c))
        BY <1>2, <2>1 DEF InTable
      <3> QED
        BY <2>1, <3>1
    <2> QED
      BY <2>1
  <1> QED
    BY <1>1, <1>2 DEF InTable, Listed

LEMMA InTableInit == Init => InTable
  BY DEF Init, InTable, Base, Fresh

(* A region is entered when it is mapped. *)
LEMMA InTableMap ==
  ASSUME HeapInv, InTable, TableSuffices, NEW t \in Threads,
         MapRegion(t) \/ MapLarge(t) \/ MapAligned(t)
  PROVE  InTable'
  <1>1. /\ pc' = [pc EXCEPT ![t] = IF MapRegion(t) THEN "bump_again" ELSE "idle"]
        /\ pc[t] \in {"map", "map_large", "map_aligned"} /\ arg' = arg
    BY DEF MapRegion, MapLarge, MapAligned, MapWhole, GoTo, At
  <1>2. \A u \in Threads : /\ pc[u] = "unmap" => pc'[u] = "unmap" /\ arg'[u] = arg[u]
                           /\ pc'[u] # "libc"
    BY <1>1 DEF HeapInv, Typed, InTable
  <1>3. ASSUME NEW r \in Regions \ mapped, RegAdd(r)
        PROVE  \A x : (\E k \in DOMAIN regs' : regs'[k] = x) <=> Listed(x) \/ x = r
    <2>1. Len(regs) < RMax
      BY RoomInTable
    <2> QED
      BY <1>3, <2>1, NewRegion DEF Listed
  <1>4. CASE MapRegion(t)
    <2>0. header' = header
      BY <1>4 DEF MapRegion
    <2>1. CASE UNCHANGED <<mapped, arena, regs>>
      BY <1>2, <2>0, <2>1, InTableKept DEF Base, Listed
    <2>2. ASSUME NEW r \in Regions \ mapped, RegAdd(r),
                 arena' = [arena EXCEPT ![t][arg[t]] = [base |-> r, off |-> 0, cap |-> PerRegion]]
          PROVE  InTable'
      <3>1. \A u \in Threads, c \in Classes : Base(u, c)' = Base(u, c) \/ Base(u, c)' = r
        BY <2>2 DEF HeapInv, Typed, Base
      <3> QED
        BY <1>2, <1>3, <2>0, <2>2, <3>1, InTableKept
    <2> QED
      BY <1>4, <2>1, <2>2 DEF MapRegion
  <1>5. ASSUME NEW k, MapWhole(t, k) PROVE InTable'
    <2>0. arena' = arena
      BY <1>5 DEF MapWhole, own
    <2>1. CASE UNCHANGED <<mapped, regs, header, live>>
      BY <1>2, <2>0, <2>1, InTableKept DEF Base, Listed
    <2>2. ASSUME NEW r \in Regions \ mapped, RegAdd(r), header' = Written(<<r, 1>>, Whole(k))
          PROVE  InTable'
      <3>1. \A b \in DOMAIN header' : b \in DOMAIN header \/ b[1] = r
        BY <2>2 DEF Written
      <3> QED
        BY <1>2, <1>3, <2>0, <2>2, <3>1, InTableKept DEF Base
    <2> QED
      BY <1>5, <2>1, <2>2 DEF MapWhole
  <1> QED
    BY <1>4, <1>5 DEF MapLarge, MapAligned

(* A block that is carved comes from a region in the table. *)
LEMMA InTableCarve ==
  ASSUME HeapInv, InTable, NEW t \in Threads, pc[t] \in {"bump", "bump_again"}, Carve(t),
         regs' = regs
  PROVE  InTable'
  <1>0. PICK a, r, b : a = arg[t] /\ r = Base(t, a) /\ b = NextOf(t)
    OBVIOUS
  <1>1. /\ a \in Classes /\ arena[t][a] \in ArenaType /\ arena[t][a].off < arena[t][a].cap
        /\ b[1] = r
    BY <1>0 DEF HeapInv, Typed, Standing, Stands, Allocating, Carve, Fits, NextOf, Base
  <1>2. r # None
    BY <1>0, <1>1, GameAllocAssumption DEF ArenaType, Fresh, Base
  <1>3. Listed(r)
    BY <1>0, <1>1, <1>2 DEF InTable
  <1>4. /\ arena' = [arena EXCEPT ![t][a].off = @ + 1]
        /\ header' = Written(b, Small(t))
        /\ pc' = [pc EXCEPT ![t] = "idle"] /\ arg' = [arg EXCEPT ![t] = None]
    BY <1>0 DEF Carve, HandOut, GoTo
  <1>5. \A u \in Threads : /\ pc[u] = "unmap" => pc'[u] = "unmap" /\ arg'[u] = arg[u]
                           /\ pc'[u] # "libc"
    BY <1>4 DEF HeapInv, Typed, InTable
  <1>6. \A u \in Threads, c \in Classes : Base(u, c)' = Base(u, c)
    BY <1>1, <1>4 DEF HeapInv, Typed, Base
  <1>7. \A x \in DOMAIN header' : x \in DOMAIN header \/ x = b
    BY <1>4 DEF Written
  <1> QED
    BY <1>1, <1>3, <1>5, <1>6, <1>7, InTableKept DEF Listed

(* A block that ga_free looks up is in the table, and its region leaves the   *)
(* table with it alone.                                                      *)
LEMMA InTableLook ==
  ASSUME HeapInv, InTable, NEW t \in Threads, LookOther(t)
  PROVE  InTable'
  <1>0. PICK b : b = arg[t]
    OBVIOUS
  <1>1. pc[t] = "look" /\ UNCHANGED <<arena, header, arg>>
    BY DEF LookOther, At, own
  <1>2. b \in DOMAIN header /\ Returns(t, b)
    BY <1>0, <1>1 DEF HeapInv, Standing, Stands, Given, Returns
  <1>3. \A u \in Threads : ~(pc[u] = "unmap" /\ arg[u] = b)
    BY <1>1, <1>2 DEF HeapInv, Placed, Returns, Given
  <1>4. Listed(b[1])
    BY <1>2, <1>3 DEF InTable
  <1>5. RegDel(b[1]) /\ pc' = [pc EXCEPT ![t] = "unmap"] /\ header[b].kind # "class"
    BY <1>0, <1>4 DEF LookOther, GoTo
  <1>6. \A x : (\E k \in DOMAIN regs' : regs'[k] = x) <=> Listed(x) /\ x # b[1]
    BY <1>4, <1>5, DeleteKeeps DEF HeapInv, Typed, Table
  <1>7. \A u \in Threads : pc'[u] = IF u = t THEN "unmap" ELSE pc[u]
    BY <1>5 DEF HeapInv, Typed
  <1>8. ASSUME NEW x \in DOMAIN header, \A u \in Threads : ~(pc'[u] = "unmap" /\ arg[u] = x)
        PROVE  \E k \in DOMAIN regs' : regs'[k] = x[1]
    <2>1. x # b /\ \A u \in Threads : ~(pc[u] = "unmap" /\ arg[u] = x)
      BY <1>0, <1>7, <1>8
    <2>2. x[1] # b[1]
      BY <1>2, <1>5, <2>1 DEF HeapInv, Alone
    <2>3. Listed(x[1])
      BY <2>1 DEF InTable
    <2> QED
      BY <1>6, <2>2, <2>3
  <1>9. ASSUME NEW u \in Threads, NEW c \in Classes, Base(u, c) # None
        PROVE  \E k \in DOMAIN regs' : regs'[k] = Base(u, c)
    <2>1. Base(u, c) # b[1]
      BY <1>2, <1>5 DEF HeapInv, Carved, CarvedFrom
    <2>2. Listed(Base(u, c))
      BY <1>9 DEF InTable
    <2> QED
      BY <1>6, <2>1, <2>2
  <1>10. \A u \in Threads : pc'[u] # "libc"
    BY <1>7 DEF InTable
  <1> QED
    BY <1>1, <1>8, <1>9, <1>10 DEF InTable, Listed, Base

(* Every other step. *)
LEMMA InTableOther ==
  ASSUME HeapInv, InTable, NEW t \in Threads, regs' = regs, arena' = arena,
         \/ pc[t] # "unmap" /\ DOMAIN header' = DOMAIN header
         \/ Unmap(t),
         \A u \in Threads : u # t => pc'[u] = pc[u] /\ arg'[u] = arg[u],
         pc'[t] # "libc"
  PROVE  InTable'
  <1>1. \A b \in DOMAIN header' : b \in DOMAIN header /\ (pc[t] = "unmap" => b # arg[t])
    BY DEF Unmap
  <1>2. \A u \in Threads : pc'[u] # "libc"
    BY DEF InTable
  <1> QED
    BY <1>1, <1>2, InTableKept DEF Base, Listed

LEMMA InTableStep ==
  ASSUME HeapInv, InTable, TableSuffices, [Next]_vars
  PROVE  InTable'
  <1>1. ASSUME NEW t \in Threads, NEW w, pc[t] # "unmap", pc' = [pc EXCEPT ![t] = w], w # "libc",
               \/ arg' = arg
               \/ \E x : arg' = [arg EXCEPT ![t] = x],
               DOMAIN header' = DOMAIN header, regs' = regs, arena' = arena
        PROVE  InTable'
    <2>1. /\ \A u \in Threads : u # t => pc'[u] = pc[u] /\ arg'[u] = arg[u]
          /\ pc'[t] # "libc"
      BY <1>1 DEF HeapInv, Typed
    <2> QED
      BY <1>1, <2>1, InTableOther
  <1>2. ASSUME NEW t \in Threads, Acquire(t) PROVE InTable'
    <2>1. PICK w : w = Waits[pc[t]]
      OBVIOUS
    <2>2. /\ pc[t] # "unmap" /\ pc' = [pc EXCEPT ![t] = w] /\ w # "libc"
          /\ UNCHANGED <<arg, header, regs, arena>>
      BY <1>2, <2>1, PlaceFacts DEF Acquire, GoTo, own, shared
    <2> QED
      BY <1>1, <2>2
  <1>3. ASSUME NEW t \in Threads, NEW w, NEW x, pc[t] = "idle" /\ Call(t, w, x), w # "libc"
        PROVE  InTable'
    BY <1>1, <1>3 DEF Call, GoTo, own, shared
  <1>4. ASSUME NEW t \in Threads, SetId(t) \/ TakePending(t) \/ LookSmall(t) \/ Push(t)
        PROVE  InTable'
    <2>1. /\ pc[t] \in {"set_id", "take", "look", "push"}
          /\ \E w \in {"pop", "pop_taken", "idle", "wait_self", "push"} : pc' = [pc EXCEPT ![t] = w]
          /\ arg' = arg \/ \E x : arg' = [arg EXCEPT ![t] = x]
          /\ regs' = regs /\ arena' = arena
      BY <1>4 DEF SetId, TakePending, LookSmall, Push, At, GoTo, Done, own, shared
    <2>2. DOMAIN header' = DOMAIN header
      BY <1>4 DEF SetId, TakePending, LookSmall, Push, shared
    <2> QED
      BY <1>1, <2>1, <2>2
  <1>5. ASSUME NEW t \in Threads, PopPrivate(t) \/ PopTaken(t) PROVE InTable'
    <2>1. /\ pc[t] \in {"pop", "pop_taken"}
          /\ \E w \in {"wait_take", "bump", "idle"} : pc' = [pc EXCEPT ![t] = w]
          /\ arg' = arg \/ \E x : arg' = [arg EXCEPT ![t] = x]
          /\ regs' = regs /\ arena' = arena
      BY <1>5 DEF PopPrivate, PopTaken, Pop, HandOut, At, GoTo, shared
    <2>2. DOMAIN header' = DOMAIN header
      BY <1>5 DEF PopPrivate, PopTaken, Pop
    <2> QED
      BY <1>1, <2>1, <2>2
  <1>6. ASSUME NEW t \in Threads, Bump(t) \/ BumpAgain(t) PROVE InTable'
    <2>0. pc[t] \in {"bump", "bump_again"} /\ regs' = regs
      BY <1>6 DEF Bump, BumpAgain, At, shared
    <2>1. CASE Carve(t)
      BY <2>0, <2>1, InTableCarve
    <2>2. CASE ~Carve(t)
      <3>1. /\ \E w \in {"wait_map", "idle"} : pc' = [pc EXCEPT ![t] = w]
            /\ arg' = arg \/ \E x : arg' = [arg EXCEPT ![t] = x]
            /\ header' = header /\ arena' = arena
        BY <1>6, <2>2 DEF Bump, BumpAgain, GoTo
      <3> QED
        BY <1>1, <2>0, <3>1
    <2> QED
      BY <2>1, <2>2
  <1>7. ASSUME NEW t \in Threads, Unmap(t) PROVE InTable'
    <2>1. /\ regs' = regs /\ arena' = arena
          /\ pc' = [pc EXCEPT ![t] = "idle"] /\ arg' = [arg EXCEPT ![t] = None]
      BY <1>7 DEF Unmap, Done, GoTo, own
    <2>2. /\ \A u \in Threads : u # t => pc'[u] = pc[u] /\ arg'[u] = arg[u]
          /\ pc'[t] # "libc"
      BY <2>1 DEF HeapInv, Typed
    <2> QED
      BY <1>7, <2>1, <2>2, InTableOther
  <1>8. ASSUME NEW t \in Threads, Step(t) PROVE InTable'
    BY <1>2, <1>4, <1>5, <1>6, <1>7, <1>8, InTableMap, InTableLook DEF Step
  <1>9. CASE Next
    <2>1. ASSUME NEW t \in Threads, NEW c \in Classes, CallAlloc(t, c) PROVE InTable'
      <3>1. PICK w : w = IF tid[t] < 0 THEN "wait_id" ELSE "pop"
        OBVIOUS
      <3>2. Call(t, w, c) /\ pc[t] = "idle" /\ w # "libc"
        BY <2>1, <3>1 DEF CallAlloc, Call, At
      <3> QED
        BY <1>3, <3>2
    <2>2. ASSUME NEW t \in Threads, NEW b \in live, CallFree(t, b) PROVE InTable'
      BY <1>3, <2>2 DEF CallFree, Call, At
    <2>3. ASSUME NEW t \in Threads, CallLarge(t) \/ CallAligned(t) PROVE InTable'
      BY <1>3, <2>3 DEF CallLarge, CallAligned, Call, At
    <2> QED
      BY <1>8, <1>9, <2>1, <2>2, <2>3 DEF Next
  <1>10. CASE UNCHANGED vars
    BY <1>10, InTableKept DEF InTable, vars, Base, Listed
  <1> QED
    BY <1>9, <1>10

-----------------------------------------------------------------------------
(* Whatever threads allocate, pass on and free, and however their calls       *)
(* interleave between the stretches of code under the mutex, a block has one  *)
(* place and its header tells which (galloc.c 58-128): for any number of      *)
(* threads, classes and regions, and also when the table has overflowed.     *)
THEOREM BlocksHaveOnePlace == Spec => [](TypeOK /\ OnePlace /\ HeadersTell)
  <1>1. HeapInv /\ [Next]_vars => HeapInv'
    BY HeapStep
  <1>2. HeapInv => TypeOK /\ OnePlace /\ HeadersTell
    BY HeapTypes, HeapPlaces, HeapHeaders
  <1> QED
    BY HeapInit, <1>1, <1>2, PTL DEF Spec

(* As long as the table has room for every region the system can hand out,    *)
(* none of the heap's own blocks goes to the free of the C library, and the   *)
(* heap is safe in every respect the run checks (galloc.c 30-128).           *)
THEOREM HeapIsSafe ==
  ASSUME TableSuffices
  PROVE  Spec => []HeapSafe
  <1>1. HeapInv /\ InTable /\ [Next]_vars => HeapInv' /\ InTable'
    BY HeapStep, InTableStep
  <1>2. HeapInv /\ InTable => HeapSafe
    BY HeapTypes, HeapPlaces, HeapHeaders DEF InTable, HeapSafe, NeverToLibc
  <1> QED
    BY HeapInit, InTableInit, <1>1, <1>2, PTL DEF Spec

Unnumbered == \A t \in Threads : pc[t] = "wait_self" => tid[t] = -1

LEMMA UnnumberedOther ==
  ASSUME Typed, Unnumbered, NEW t \in Threads,
         \A u \in Threads : u # t => pc'[u] = pc[u] /\ tid'[u] = tid[u],
         pc'[t] # "wait_self"
  PROVE  Unnumbered'
  BY DEF Unnumbered

(* Whoever waits in myid with the mutex held stays there, and nobody else     *)
(* gives it a number.                                                        *)
LEMMA UnnumberedStep ==
  ASSUME HeapInv, Unnumbered, [Next]_vars
  PROVE  Unnumbered'
  <1> USE DEF HeapInv, Typed
  <1>1. ASSUME NEW t \in Threads, NEW w, NEW x, Call(t, w, x), w # "wait_self"
        PROVE  Unnumbered'
    BY <1>1, UnnumberedOther DEF Call, At, GoTo, own, shared
  <1>2. ASSUME NEW t \in Threads, Acquire(t) PROVE Unnumbered'
    <2>1. /\ \A u \in Threads : u # t => pc'[u] = pc[u]
          /\ pc'[t] = Waits[pc[t]] /\ tid' = tid
      BY <1>2 DEF Acquire, GoTo
    <2>2. pc'[t] # "wait_self"
      BY <2>1, <1>2 DEF Acquire, Waits
    <2> QED
      BY <2>1, <2>2, UnnumberedOther
  <1>3. ASSUME NEW t \in Threads, SetId(t) PROVE Unnumbered'
    BY <1>3, UnnumberedOther DEF SetId, GoTo
  <1>4. ASSUME NEW t \in Threads, PopPrivate(t) \/ TakePending(t) \/ PopTaken(t) PROVE Unnumbered'
    BY <1>4, UnnumberedOther DEF PopPrivate, TakePending, PopTaken, Pop, HandOut, GoTo
  <1>5. ASSUME NEW t \in Threads, Bump(t) \/ MapRegion(t) \/ BumpAgain(t) PROVE Unnumbered'
    BY <1>5, UnnumberedOther DEF Bump, MapRegion, BumpAgain, Carve, HandOut, GoTo
  <1>6. ASSUME NEW t \in Threads, MapLarge(t) \/ MapAligned(t) PROVE Unnumbered'
    BY <1>6, UnnumberedOther DEF MapLarge, MapAligned, MapWhole, GoTo
  <1>7. ASSUME NEW t \in Threads, LookOther(t) \/ Unmap(t) \/ Push(t) PROVE Unnumbered'
    BY <1>7, UnnumberedOther DEF LookOther, Unmap, Push, Done, GoTo
  <1>8. ASSUME NEW t \in Threads, LookSmall(t) PROVE Unnumbered'
    <2>1. /\ \A u \in Threads : u # t => pc'[u] = pc[u]
          /\ pc'[t] = "wait_self" => tid[t] < 0
          /\ tid' = tid
      BY <1>8 DEF LookSmall, Done, GoTo
    <2>2. tid[t] < 0 => tid[t] = -1
      OBVIOUS
    <2> QED
      BY <2>1, <2>2 DEF Unnumbered
  <1>9. CASE UNCHANGED vars
    BY <1>9 DEF vars, Unnumbered
  <1>10. CASE Next
    <2>1. ASSUME NEW t \in Threads, NEW c \in Classes, CallAlloc(t, c) PROVE Unnumbered'
      <3>1. PICK w : w = IF tid[t] < 0 THEN "wait_id" ELSE "pop"
        OBVIOUS
      <3>2. Call(t, w, c) /\ w # "wait_self"
        BY <2>1, <3>1 DEF CallAlloc
      <3> QED
        BY <1>1, <3>2
    <2>2. ASSUME NEW t \in Threads, CallLarge(t) \/ CallAligned(t) PROVE Unnumbered'
      BY <1>1, <2>2 DEF CallLarge, CallAligned
    <2>3. ASSUME NEW t \in Threads, NEW b \in live, CallFree(t, b) PROVE Unnumbered'
      BY <1>1, <2>3 DEF CallFree
    <2> QED
      BY <1>2, <1>3, <1>4, <1>5, <1>6, <1>7, <1>8, <1>10, <2>1, <2>2, <2>3 DEF Next, Step
  <1> QED
    BY <1>9, <1>10

(* For any threads, classes and regions, with no condition on who calls what: *)
(* a thread that waits for the mutex it holds is in ga_free of a small block  *)
(* and has never allocated one (myid inside the lock, galloc.c 40 and 93).   *)
THEOREM SelfDeadlockIsUnnumbered == Spec => []OnlyUnnumberedDeadlock
  <1>1. Init => Unnumbered
    BY DEF Init, Unnumbered
  <1>2. HeapInv /\ Unnumbered /\ [Next]_vars => Unnumbered'
    BY UnnumberedStep
  <1>3. HeapInv /\ Unnumbered => OnlyUnnumberedDeadlock
    <2> SUFFICES ASSUME HeapInv, Unnumbered, NEW t \in Threads, pc[t] \in DOMAIN Waits, lock = t
                 PROVE  tid[t] = -1 /\ header[arg[t]].kind = "class"
      BY DEF OnlyUnnumberedDeadlock
    <2>1. pc[t] \in Inside /\ Stands(t)
      BY DEF HeapInv, Standing
    <2>2. pc[t] = "wait_self"
      BY <2>1, PlaceFacts
    <2> QED
      BY <2>1, <2>2 DEF Stands, Unnumbered
  <1>4. HeapInv /\ [Next]_vars => HeapInv'
    BY HeapStep
  <1> QED
    BY HeapInit, <1>1, <1>2, <1>3, <1>4, PTL DEF Spec

=============================================================================
