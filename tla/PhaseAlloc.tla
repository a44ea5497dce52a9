----------------------------- MODULE PhaseAlloc -----------------------------
(***************************************************************************)
(* The preloaded malloc of src/alloc/phase_alloc.c, lines 110-414, outside *)
(* its frames and its passthrough and diary modes. Blocks of a size class  *)
(* are carved under the lock from a region all threads share; a freed one  *)
(* goes to the private cache of the thread that frees it, whoever it came  *)
(* from. Large and aligned blocks are regions of their own. A sorted table *)
(* of at most REGMAX regions tells what is the allocator's.                *)
(*                                                                         *)
(* A stretch of code under g_lock is part of one action: no call takes the *)
(* lock twice, and what stands before the lock touches only the thread's   *)
(* own cache or the block it was given. The lists of pending blocks are    *)
(* left out: free returns at line 289 for every block that could reach     *)
(* them.                                                                   *)
(***************************************************************************)
EXTENDS Integers, Sequences, FiniteSets

CONSTANTS Users,          \* threads
          SizeClasses,
          Spaces,         \* numbers of what mmap can hand out
          PerSpace,       \* blocks carved from a region
          RegMax,
          ForeignBlocks,  \* blocks of the C library, from before the preload
          Nobody,
          MaxRequests

ASSUME PhaseAllocAssumption ==
  /\ Nobody \notin Users /\ Spaces \subseteq Nat
  /\ SizeClasses \intersect {"none", "large", "aligned", "libc"} = {}
  /\ ForeignBlocks \intersect ((Spaces \X (1 .. PerSpace)) \union {<<>>}) = {}
  /\ PerSpace \in Nat \ {0} /\ RegMax \in Nat /\ MaxRequests \in Nat

Kinds == SizeClasses \union {"none", "large", "aligned"}
Fresh == [base |-> -1, off |-> 0]

VARIABLES kind,           \* what each region is for: "none" when not mapped
          regions,        \* regs
          owner,          \* the thread whose treg has the region
          carving,        \* g_arena
          cache,          \* t_free
          held,           \* blocks with a caller, and whether each holds what
                          \* that caller put in
          doing, given,   \* where a call stands, and the block it frees
          toLibc,         \* blocks passed to real_free
          overflowed,     \* the table was full when a region came
          blind,          \* blocks realloc could not know the size of
          requests

allocVars == <<kind, regions, owner, carving, cache, held, doing, given, toLibc,
               overflowed, blind, requests>>

AllocStart ==
  /\ kind = [r \in Spaces |-> "none"]
  /\ regions = {} /\ owner = [r \in Spaces |-> Nobody]
  /\ carving = [c \in SizeClasses |-> Fresh]
  /\ cache = [u \in Users |-> [c \in SizeClasses |-> <<>>]]
  /\ held = [b \in ForeignBlocks |-> TRUE]
  /\ doing = [u \in Users |-> "idle"] /\ given = [u \in Users |-> <<>>]
  /\ toLibc = {} /\ overflowed = FALSE /\ blind = {} /\ requests = 0

NewRequest(u) == doing[u] = "idle" /\ requests < MaxRequests /\ requests' = requests + 1

Owned(b) == b \notin ForeignBlocks
Listed(b) == Owned(b) /\ b[1] \in regions                   \* reg_find
KindOf(b) == IF Owned(b) THEN kind[b[1]] ELSE "libc"
HoldAlso(b, whole) == [x \in DOMAIN held \union {b} |-> IF x = b THEN whole ELSE held[x]]
Without(b) == [x \in DOMAIN held \ {b} |-> held[x]]

(* Mutant: the last entry of the table is never used. *)
HasRoomMutant == Cardinality(regions) < RegMax - 1

HasRoom == Cardinality(regions) < RegMax

(* mmap and reg_add: with the table full the region is not entered. mmap      *)
(* hands out the lowest space there is, so also the one given back last.      *)
MapSpace(r, k) ==
  /\ kind[r] = "none" /\ \A s \in Spaces : s < r => kind[s] # "none"
  /\ kind' = [kind EXCEPT ![r] = k]
  /\ regions' = IF HasRoom THEN regions \union {r} ELSE regions
  /\ overflowed' = (overflowed \/ Cardinality(regions) >= RegMax)

-----------------------------------------------------------------------------
(* phase_malloc for a class: the private cache, else bump under the lock. *)

(* Mutant: the head of the cache is handed out and not taken off. *)
AfterPopMutant(list) == IF Len(list) = 1 THEN <<>> ELSE list

AfterPop(list) == Tail(list)

FromCache(u, c, b) ==
  /\ cache[u][c] # <<>> /\ b = Head(cache[u][c])
  /\ cache' = [cache EXCEPT ![u][c] = AfterPop(@)]
  /\ UNCHANGED <<kind, regions, owner, carving, overflowed>>

Carve(u, c, b) ==
  /\ cache[u][c] = <<>> /\ carving[c].base \in Spaces /\ carving[c].off < PerSpace
  /\ b = <<carving[c].base, carving[c].off + 1>>
  /\ carving' = [carving EXCEPT ![c].off = @ + 1]
  /\ UNCHANGED <<kind, regions, owner, cache, overflowed>>

CarveNew(u, c, b) ==
  /\ cache[u][c] = <<>>
  /\ carving[c].base = -1 \/ carving[c].off = PerSpace
  /\ b[2] = 1 /\ MapSpace(b[1], c)
  /\ carving' = [carving EXCEPT ![c] = [base |-> b[1], off |-> 1]]
  /\ owner' = [owner EXCEPT ![b[1]] = u]
  /\ UNCHANGED cache

MapBlock(b, k) ==
  b[2] = 1 /\ MapSpace(b[1], k) /\ UNCHANGED <<owner, carving, cache>>

Obtain(u, b) ==
  \/ \E c \in SizeClasses : FromCache(u, c, b) \/ Carve(u, c, b) \/ CarveNew(u, c, b)
  \/ MapBlock(b, "large")

Blocks == Spaces \X (1 .. PerSpace)

Malloc(u) ==
  /\ NewRequest(u)
  /\ \E b \in Blocks :
       /\ Obtain(u, b)
       /\ held' = HoldAlso(b, TRUE) /\ blind' = blind \ {b}
  /\ UNCHANGED <<doing, given, toLibc>>

(* aligned_impl *)
MemAlign(u) ==
  /\ NewRequest(u)
  /\ \E b \in Blocks :
       /\ MapBlock(b, "aligned")
       /\ held' = HoldAlso(b, TRUE) /\ blind' = blind \ {b}
  /\ UNCHANGED <<doing, given, toLibc>>

-----------------------------------------------------------------------------
(* phase_free. A block of a class never meets the lock. *)

ToCache(u, b) ==
  /\ cache' = [cache EXCEPT ![u][KindOf(b)] = <<b>> \o @]
  /\ doing' = [doing EXCEPT ![u] = "idle"] /\ given' = [given EXCEPT ![u] = <<>>]

ToLook(u, b) ==
  /\ doing' = [doing EXCEPT ![u] = "look"] /\ given' = [given EXCEPT ![u] = b]
  /\ UNCHANGED cache

GiveBack(u, b) == IF KindOf(b) \in SizeClasses THEN ToCache(u, b) ELSE ToLook(u, b)

Free(u) ==
  /\ NewRequest(u)
  /\ \E b \in DOMAIN held : held' = Without(b) /\ GiveBack(u, b)
  /\ UNCHANGED <<kind, regions, owner, carving, toLibc, overflowed, blind>>

EndCall(u) == doing' = [doing EXCEPT ![u] = "idle"] /\ given' = [given EXCEPT ![u] = <<>>]

(* Under the lock: an address of no region is the C library's. *)
Look(u) ==
  LET b == given[u]
  IN  /\ doing[u] = "look"
      /\ \/ /\ Listed(b)
            /\ regions' = regions \ {b[1]}
            /\ doing' = [doing EXCEPT ![u] = "unmap"]
            /\ UNCHANGED <<toLibc, given>>
         \/ /\ ~Listed(b)
            /\ toLibc' = toLibc \union {b}
            /\ EndCall(u)
            /\ UNCHANGED regions
      /\ UNCHANGED <<kind, owner, carving, cache, held, overflowed, blind, requests>>

Unmap(u) ==
  /\ doing[u] = "unmap"
  /\ kind' = [kind EXCEPT ![given[u][1]] = "none"]
  /\ EndCall(u)
  /\ UNCHANGED <<regions, owner, carving, cache, held, toLibc, overflowed, blind, requests>>

-----------------------------------------------------------------------------
(* Mutant: only the thread's own regions are looked at. *)
UsableMutant(u, b) == Owned(b) /\ owner[b[1]] = u

(* phase_usable, as realloc_impl uses it: is the size of the block known. *)
Usable(u, b) ==
  /\ Owned(b) /\ KindOf(b) # "aligned"
  /\ Listed(b) \/ owner[b[1]] = u

(* realloc_impl: size, malloc, memcpy, free. Nothing another thread does      *)
(* meets the two blocks before free.                                         *)
Realloc(u) ==
  /\ NewRequest(u)
  /\ \E p \in DOMAIN held, q \in Blocks :
       /\ p # q
       /\ Obtain(u, q)
       /\ held' = [x \in (DOMAIN held \ {p}) \union {q} |->
                     IF x = q THEN Usable(u, p) /\ held[p] ELSE held[x]]
       /\ blind' = IF p \in blind \/ KindOf(p) = "aligned" \/ ~Listed(p)
                   THEN blind \union {q} ELSE blind \ {q}
       /\ doing' = [doing EXCEPT ![u] = "give"] /\ given' = [given EXCEPT ![u] = p]
  /\ UNCHANGED toLibc

(* The free at its end. *)
GiveOld(u) ==
  /\ doing[u] = "give"
  /\ GiveBack(u, given[u])
  /\ UNCHANGED <<kind, regions, owner, carving, held, toLibc, overflowed, blind, requests>>

(* A thread ends: its cache and its treg end with it. *)
UserEnds(u) ==
  /\ NewRequest(u)
  /\ cache' = [cache EXCEPT ![u] = [c \in SizeClasses |-> <<>>]]
  /\ owner' = [r \in Spaces |-> IF owner[r] = u THEN Nobody ELSE owner[r]]
  /\ UNCHANGED <<kind, regions, carving, held, doing, given, toLibc, overflowed, blind>>

AllocNext ==
  \E u \in Users :
    Malloc(u) \/ MemAlign(u) \/ Free(u) \/ Look(u) \/ Unmap(u)
      \/ Realloc(u) \/ GiveOld(u) \/ UserEnds(u)

-----------------------------------------------------------------------------
(* A block is with one caller, on its way through one free, or once in the    *)
(* cache of one thread, whichever threads allocated, passed on and freed it,  *)
(* and in caches of its own class only (phase_alloc.c 200-210, 277-290).     *)
BlockOnce ==
  /\ \A u, v \in Users, c \in SizeClasses :
       \A i \in DOMAIN cache[u][c], j \in DOMAIN cache[v][c] :
         cache[u][c][i] = cache[v][c][j] => u = v /\ i = j
  /\ \A u \in Users, c \in SizeClasses : \A i \in DOMAIN cache[u][c] :
       LET b == cache[u][c][i]
       IN  /\ KindOf(b) = c /\ b \notin DOMAIN held
           /\ \A v \in Users : given[v] # b
  /\ \A u \in Users : given[u] # <<>> =>
       /\ given[u] \notin DOMAIN held
       /\ \A v \in Users \ {u} : given[v] # given[u]

(* Only blocks of the C library are passed to its free, and no region in use  *)
(* is missing from the table, as long as the table was never full             *)
(* (phase_alloc.c 110-126, 308-320).                                         *)
OwnNotToLibc == ~overflowed => toLibc \subseteq ForeignBlocks

(* What a caller put into a block is still there, also after realloc has      *)
(* moved it to another size or another thread has (lines 399-414). Excepted   *)
(* are blocks that realloc could not size and therefore did not copy: aligned *)
(* ones, the C library's, and those of a region that was not entered.        *)
ContentsKept == \A b \in DOMAIN held : b \notin blind => held[b]

(* The preloaded malloc is one: no block is handed out twice, none of its own *)
(* goes to the C library, and realloc keeps what was in a block, as far as    *)
(* the parts say (phase_alloc.c 186-414).                                    *)
MallocSafe == BlockOnce /\ OwnNotToLibc /\ ContentsKept
=============================================================================
