---------------------------- MODULE NativeProofs ----------------------------
(***************************************************************************)
(* Proofs about the C programs of src/alloc/: the preloaded malloc, the    *)
(* frames and the pools of the game allocator, and the reversible overlay, *)
(* for any threads, classes, regions, sizes, names and bounds.             *)
(***************************************************************************)
EXTENDS MCNative, FiniteSetTheorems, TLAPS

-----------------------------------------------------------------------------
(* The preloaded malloc.                                                      *)

PlaceIn(b, list) == \E k \in DOMAIN list : list[k] = b
NoTwice(list)    == \A i, j \in DOMAIN list : list[i] = list[j] => i = j

Stages      == {"idle", "look", "unmap", "give"}
CarvingType == [base : Spaces \union {-1}, off : 0 .. PerSpace]

MallocTyped ==
  /\ kind \in [Spaces -> Kinds]
  /\ regions \subseteq Spaces /\ IsFiniteSet(regions)
  /\ owner \in [Spaces -> Users \union {Nobody}]
  /\ carving \in [SizeClasses -> CarvingType]
  /\ cache \in [Users -> [SizeClasses -> Seq(Blocks)]]
  /\ held \in [DOMAIN held -> BOOLEAN] /\ DOMAIN held \subseteq Blocks \union ForeignBlocks
  /\ doing \in [Users -> Stages]
  /\ given \in [Users -> Blocks \union ForeignBlocks \union {<<>>}]
  /\ overflowed \in BOOLEAN

Cached(u, c, b) == PlaceIn(b, cache[u][c])
Present(b) ==
  \/ b \in DOMAIN held
  \/ \E u \in Users : given[u] = b
  \/ \E u \in Users, c \in SizeClasses : Cached(u, c, b)

(* BlockOnce, with the caches taken as sets of blocks. *)
Apart ==
  /\ \A u \in Users, c \in SizeClasses : NoTwice(cache[u][c])
  /\ \A u, v \in Users, c, d \in SizeClasses : \A b \in Blocks :
       Cached(u, c, b) /\ Cached(v, d, b) => u = v /\ c = d
  /\ \A u \in Users, c \in SizeClasses : \A b \in Blocks : Cached(u, c, b) =>
       KindOf(b) = c /\ b \notin DOMAIN held /\ \A v \in Users : given[v] # b
  /\ \A u \in Users : given[u] # <<>> =>
       /\ given[u] \notin DOMAIN held
       /\ \A v \in Users : v # u => given[v] # given[u]

(* A block that exists is in a mapped region, and a region that is no         *)
(* class's is one block.                                                     *)
Sound(b) == kind[b[1]] # "none" /\ (kind[b[1]] \notin SizeClasses => b[2] = 1)
InUse    == \A b \in Blocks : Present(b) => Sound(b)

(* The blocks behind the mark of a region being carved are not there yet. *)
CarvedSo(c) ==
  carving[c].base # -1 =>
    /\ kind[carving[c].base] = c
    /\ \A b \in Blocks : Present(b) /\ b[1] = carving[c].base => b[2] <= carving[c].off

StandsAt(u) ==
  /\ doing[u] = "idle" <=> given[u] = <<>>
  /\ doing[u] \in {"look", "unmap"} => KindOf(given[u]) \notin SizeClasses
  /\ doing[u] = "unmap" => Owned(given[u])

(* Until the table overflows every region in use is in it, but for one that   *)
(* is being unmapped.                                                        *)
LeavesNow(r) == \E u \in Users : doing[u] = "unmap" /\ given[u] = <<r, 1>>
Tabled ==
  ~overflowed =>
    /\ toLibc \subseteq ForeignBlocks
    /\ \A r \in Spaces : kind[r] # "none" => r \in regions \/ LeavesNow(r)

Places ==
  /\ MallocTyped /\ Apart /\ InUse
  /\ \A c \in SizeClasses : CarvedSo(c)
  /\ \A u \in Users : StandsAt(u)
  /\ Tabled

MallocInv == Places /\ ContentsKept

-----------------------------------------------------------------------------
LEMMA EmptyCache == NoTwice(<<>>) /\ \A b : ~PlaceIn(b, <<>>)
  BY DEF NoTwice, PlaceIn

LEMMA TailOfCache ==
  ASSUME NEW S, NEW s \in Seq(S), s # <<>>, NoTwice(s)
  PROVE  /\ Tail(s) \in Seq(S) /\ NoTwice(Tail(s)) /\ Head(s) \in S /\ PlaceIn(Head(s), s)
         /\ \A b : PlaceIn(b, Tail(s)) <=> PlaceIn(b, s) /\ b # Head(s)
  <1>1. /\ Tail(s) \in Seq(S) /\ Len(Tail(s)) = Len(s) - 1 /\ Len(s) \in Nat \ {0}
        /\ \A i \in 1 .. Len(s) - 1 : Tail(s)[i] = s[i + 1]
        /\ DOMAIN s = 1 .. Len(s) /\ DOMAIN Tail(s) = 1 .. Len(s) - 1
        /\ Head(s) = s[1] /\ Head(s) \in S
    OBVIOUS
  <1>2. NoTwice(Tail(s)) /\ PlaceIn(Head(s), s)
    BY <1>1 DEF NoTwice, PlaceIn
  <1>3. ASSUME NEW b PROVE PlaceIn(b, Tail(s)) <=> PlaceIn(b, s) /\ b # Head(s)
    <2>1. ASSUME PlaceIn(b, Tail(s)) PROVE PlaceIn(b, s) /\ b # Head(s)
      <3>1. PICK k \in 1 .. Len(s) - 1 : s[k + 1] = b
        BY <1>1, <2>1 DEF PlaceIn
      <3>2. k + 1 \in 1 .. Len(s) /\ 1 \in 1 .. Len(s) /\ k + 1 # 1
        BY <1>1
      <3> QED
        BY <1>1, <3>1, <3>2 DEF PlaceIn, NoTwice
    <2>2. ASSUME PlaceIn(b, s), b # Head(s) PROVE PlaceIn(b, Tail(s))
      <3>1. PICK k \in 1 .. Len(s) : s[k] = b
        BY <1>1, <2>2 DEF PlaceIn
      <3>2. k - 1 \in 1 .. Len(s) - 1 /\ Tail(s)[k - 1] = b
        BY <1>1, <2>2, <3>1
      <3> QED
        BY <1>1, <3>2 DEF PlaceIn
    <2> QED
      BY <2>1, <2>2
  <1> QED
    BY <1>1, <1>2, <1>3

LEMMA PushToCache ==
  ASSUME NEW S, NEW s \in Seq(S), NEW h \in S, ~PlaceIn(h, s), NoTwice(s)
  PROVE  /\ <<h>> \o s \in Seq(S) /\ NoTwice(<<h>> \o s)
         /\ \A b : PlaceIn(b, <<h>> \o s) <=> PlaceIn(b, s) \/ b = h
  <1> DEFINE p == <<h>> \o s
  <1>1. /\ p \in Seq(S) /\ Len(p) = Len(s) + 1 /\ Len(s) \in Nat
        /\ p[1] = h /\ \A i \in 1 .. Len(s) : p[i + 1] = s[i]
        /\ DOMAIN s = 1 .. Len(s) /\ DOMAIN p = 1 .. Len(s) + 1
    OBVIOUS
  <1> HIDE DEF p
  <1>2. \A i \in 1 .. Len(s) + 1 : i = 1 \/ (i - 1 \in 1 .. Len(s) /\ p[i] = s[i - 1])
    <2> TAKE i \in 1 .. Len(s) + 1
    <2>1. i # 1 => i - 1 \in 1 .. Len(s) /\ (i - 1) + 1 = i
      BY <1>1
    <2> QED
      BY <1>1, <2>1
  <1>3. NoTwice(p)
    <2> SUFFICES ASSUME NEW i \in 1 .. Len(s) + 1, NEW j \in 1 .. Len(s) + 1, p[i] = p[j]
                 PROVE  i = j
      BY <1>1 DEF NoTwice
    <2>1. \A k \in 1 .. Len(s) : s[k] # h
      BY <1>1 DEF PlaceIn
    <2>2. CASE i = 1 \/ j = 1
      BY <1>1, <1>2, <2>1, <2>2
    <2>3. CASE i # 1 /\ j # 1
      <3>1. i - 1 \in 1 .. Len(s) /\ j - 1 \in 1 .. Len(s) /\ s[i - 1] = s[j - 1]
        BY <1>2, <2>3
      <3>2. i - 1 = j - 1
        BY <1>1, <3>1 DEF NoTwice
      <3> QED
        BY <3>2
    <2> QED
      BY <2>2, <2>3
  <1>4. ASSUME NEW b PROVE PlaceIn(b, p) <=> PlaceIn(b, s) \/ b = h
    <2>1. ASSUME NEW k \in 1 .. Len(s) + 1, p[k] = b PROVE PlaceIn(b, s) \/ b = h
      <3>1. k = 1 \/ (k - 1 \in DOMAIN s /\ s[k - 1] = b)
        BY <1>1, <1>2, <2>1
      <3> QED
        BY <1>1, <2>1, <3>1 DEF PlaceIn
    <2>2. PlaceIn(b, s) => PlaceIn(b, p)
      <3> SUFFICES ASSUME NEW k \in 1 .. Len(s), s[k] = b PROVE PlaceIn(b, p)
        BY <1>1 DEF PlaceIn
      <3>1. k + 1 \in 1 .. Len(s) + 1 /\ p[k + 1] = b
        BY <1>1
      <3> QED
        BY <1>1, <3>1 DEF PlaceIn
    <2>3. PlaceIn(h, p)
      BY <1>1 DEF PlaceIn
    <2>4. PlaceIn(b, p) => \E k \in 1 .. Len(s) + 1 : p[k] = b
      BY <1>1 DEF PlaceIn
    <2> QED
      BY <2>1, <2>2, <2>3, <2>4
  <1> QED
    BY <1>1, <1>3, <1>4 DEF p

(* What a call that obtains block b has done to the allocator, however it did *)
(* it: b was nowhere but in a cache, and is in none now.                     *)
Obtained(b) ==
  /\ b \in Blocks /\ b \notin DOMAIN held /\ \A u \in Users : given[u] # b
  /\ kind' \in [Spaces -> Kinds]
  /\ regions' \subseteq Spaces /\ IsFiniteSet(regions')
  /\ owner' \in [Spaces -> Users \union {Nobody}]
  /\ carving' \in [SizeClasses -> CarvingType]
  /\ cache' \in [Users -> [SizeClasses -> Seq(Blocks)]]
  /\ overflowed' \in BOOLEAN
  /\ \A u \in Users, c \in SizeClasses :
       /\ NoTwice(cache'[u][c])
       /\ \A x : PlaceIn(x, cache'[u][c]) <=> PlaceIn(x, cache[u][c]) /\ x # b
  /\ kind'[b[1]] # "none" /\ (kind'[b[1]] \notin SizeClasses => b[2] = 1)
  /\ \A x \in Blocks : Present(x) => kind'[x[1]] = kind[x[1]]
  /\ \A c \in SizeClasses : carving'[c].base # -1 =>
       /\ kind'[carving'[c].base] = c
       /\ \A x \in Blocks : (Present(x) \/ x = b) /\ x[1] = carving'[c].base
                               => x[2] <= carving'[c].off
  /\ ~overflowed' =>
       /\ ~overflowed
       /\ \A r \in Spaces : kind'[r] # "none" => r \in regions' \/ kind[r] # "none"
       /\ regions \subseteq regions'

LEMMA FromCacheObtains ==
  ASSUME Places, NEW u \in Users, NEW c \in SizeClasses, NEW b, FromCache(u, c, b)
  PROVE  Obtained(b)
  <1>1. cache[u][c] \in Seq(Blocks) /\ cache[u][c] # <<>> /\ NoTwice(cache[u][c])
    BY DEF Places, MallocTyped, FromCache, Apart
  <1>2. b = Head(cache[u][c]) /\ b \in Blocks /\ Cached(u, c, b)
    BY <1>1, TailOfCache DEF FromCache, Cached
  <1>3. /\ UNCHANGED <<kind, regions, owner, carving, overflowed>>
        /\ cache' \in [Users -> [SizeClasses -> Seq(Blocks)]]
        /\ \A v \in Users, d \in SizeClasses :
             cache'[v][d] = IF v = u /\ d = c THEN Tail(cache[u][c]) ELSE cache[v][d]
    BY <1>1, TailOfCache DEF FromCache, AfterPop, Places, MallocTyped
  <1>4. ASSUME NEW v \in Users, NEW d \in SizeClasses
        PROVE  /\ NoTwice(cache'[v][d])
               /\ \A x : PlaceIn(x, cache'[v][d]) <=> PlaceIn(x, cache[v][d]) /\ x # b
    <2>1. CASE v = u /\ d = c
      BY <1>1, <1>2, <1>3, <2>1, TailOfCache
    <2>2. CASE ~(v = u /\ d = c)
      <3>1. ~PlaceIn(b, cache[v][d]) /\ NoTwice(cache[v][d])
        BY <1>2, <2>2 DEF Places, Apart, Cached
      <3> QED
        BY <1>3, <2>2, <3>1
    <2> QED
      BY <2>1, <2>2
  <1>5. Present(b)
    BY <1>2 DEF Present
  <1>6. b \notin DOMAIN held /\ \A v \in Users : given[v] # b
    BY <1>2 DEF Places, Apart
  <1>7. Sound(b)
    BY <1>2, <1>5 DEF Places, InUse
  <1>8. /\ kind' \in [Spaces -> Kinds] /\ regions' \subseteq Spaces /\ IsFiniteSet(regions')
        /\ owner' \in [Spaces -> Users \union {Nobody}]
        /\ carving' \in [SizeClasses -> CarvingType] /\ overflowed' \in BOOLEAN
    BY <1>3 DEF Places, MallocTyped
  <1>9. \A d \in SizeClasses : carving[d].base # -1 =>
          /\ kind[carving[d].base] = d
          /\ \A x \in Blocks : Present(x) /\ x[1] = carving[d].base => x[2] <= carving[d].off
    BY DEF Places, CarvedSo
  <1> QED
    BY <1>2, <1>3, <1>4, <1>5, <1>6, <1>7, <1>8, <1>9 DEF Obtained, Sound

LEMMA CarveObtains ==
  ASSUME Places, NEW u \in Users, NEW c \in SizeClasses, NEW b, Carve(u, c, b)
  PROVE  Obtained(b)
  <1> USE PhaseAllocAssumption
  <1>1. PICK r, m : r = carving[c].base /\ m = carving[c].off
    OBVIOUS
  <1>2. /\ r \in Spaces /\ m \in Nat /\ m < PerSpace /\ r # -1 /\ m + 1 \in 1 .. PerSpace
        /\ b = <<r, m + 1>> /\ b \in Blocks /\ b[1] = r /\ b[2] = m + 1
    BY <1>1 DEF Carve, Places, MallocTyped, CarvingType, Blocks
  <1>3. /\ UNCHANGED <<kind, regions, owner, cache, overflowed>>
        /\ carving' \in [SizeClasses -> CarvingType]
        /\ \A d \in SizeClasses :
             /\ carving'[d].base = carving[d].base
             /\ carving'[d].off = IF d = c THEN m + 1 ELSE carving[d].off
    <2>1. carving \in [SizeClasses -> CarvingType] /\ m + 1 \in 0 .. PerSpace
      BY <1>2 DEF Places, MallocTyped
    <2>2. /\ [carving[c] EXCEPT !.off = m + 1] \in CarvingType
          /\ [carving[c] EXCEPT !.off = m + 1].base = carving[c].base
          /\ [carving[c] EXCEPT !.off = m + 1].off = m + 1
      BY <2>1 DEF CarvingType
    <2>3. carving' = [carving EXCEPT ![c] = [carving[c] EXCEPT !.off = m + 1]]
      BY <1>1 DEF Carve
    <2> QED
      BY <2>1, <2>2, <2>3 DEF Carve
  <1>4. /\ kind[r] = c
        /\ \A x \in Blocks : Present(x) /\ x[1] = r => x[2] <= m
    BY <1>1, <1>2 DEF Places, CarvedSo
  <1>5. ~Present(b)
    BY <1>2, <1>4
  <1>6. b \notin DOMAIN held /\ \A v \in Users : given[v] # b
    BY <1>5 DEF Present
  <1>7. \A v \in Users, d \in SizeClasses : ~PlaceIn(b, cache[v][d])
    BY <1>5 DEF Present, Cached
  <1>8. \A v \in Users, d \in SizeClasses : NoTwice(cache[v][d])
    BY DEF Places, Apart
  <1>9. ASSUME NEW d \in SizeClasses, carving[d].base # -1
        PROVE  /\ kind'[carving'[d].base] = d
               /\ \A x \in Blocks : (Present(x) \/ x = b) /\ x[1] = carving'[d].base
                                       => x[2] <= carving'[d].off
    <2>1. /\ kind[carving[d].base] = d
          /\ \A x \in Blocks : Present(x) /\ x[1] = carving[d].base => x[2] <= carving[d].off
      BY <1>9 DEF Places, CarvedSo
    <2>2. \A x \in Blocks : x[2] \in Nat
      BY DEF Blocks
    <2>3. CASE d = c
      BY <1>1, <1>2, <1>3, <1>4, <2>2, <2>3
    <2>4. CASE d # c
      BY <1>2, <1>3, <1>4, <2>1, <2>4
    <2> QED
      BY <2>3, <2>4
  <1>10. /\ kind' \in [Spaces -> Kinds] /\ regions' \subseteq Spaces /\ IsFiniteSet(regions')
         /\ owner' \in [Spaces -> Users \union {Nobody}]
         /\ cache' \in [Users -> [SizeClasses -> Seq(Blocks)]] /\ overflowed' \in BOOLEAN
    BY <1>3 DEF Places, MallocTyped
  <1>11. kind'[b[1]] # "none" /\ (kind'[b[1]] \notin SizeClasses => b[2] = 1)
    BY <1>2, <1>3, <1>4
  <1>12. \A v \in Users, d \in SizeClasses :
           /\ NoTwice(cache'[v][d])
           /\ \A x : PlaceIn(x, cache'[v][d]) <=> PlaceIn(x, cache[v][d]) /\ x # b
    BY <1>3, <1>7, <1>8
  <1> QED
    BY <1>2, <1>3, <1>6, <1>9, <1>10, <1>11, <1>12 DEF Obtained

(* A region that mmap hands out has no block yet. *)
LEMMA NewSpace ==
  ASSUME Places, NEW r \in Spaces, NEW k \in Kinds \ {"none"}, MapSpace(r, k)
  PROVE  /\ kind' \in [Spaces -> Kinds]
         /\ \A s \in Spaces : kind'[s] = IF s = r THEN k ELSE kind[s]
         /\ regions' \subseteq Spaces /\ IsFiniteSet(regions') /\ regions \subseteq regions'
         /\ overflowed' \in BOOLEAN
         /\ ~overflowed' => ~overflowed /\ r \in regions'
         /\ \A x \in Blocks : Present(x) => x[1] # r
         /\ \A d \in SizeClasses : carving[d].base # r
  <1> USE PhaseAllocAssumption
  <1>1. kind[r] = "none" /\ kind \in [Spaces -> Kinds] /\ "none" \notin SizeClasses
    BY DEF MapSpace, Places, MallocTyped
  <1>2. /\ kind' \in [Spaces -> Kinds]
        /\ \A s \in Spaces : kind'[s] = IF s = r THEN k ELSE kind[s]
    BY <1>1 DEF MapSpace
  <1>3. IsFiniteSet(regions \union {r}) /\ Cardinality(regions) \in Nat
    BY FS_AddElement, FS_CardinalityType DEF Places, MallocTyped
  <1>4. regions' \in {regions, regions \union {r}} /\ (HasRoom => regions' = regions \union {r})
    BY DEF MapSpace
  <1>5. /\ overflowed' \in BOOLEAN
        /\ ~overflowed' => ~overflowed /\ HasRoom
    <2>1. Cardinality(regions) >= RegMax <=> ~HasRoom
      BY <1>3 DEF HasRoom
    <2>2. overflowed \in BOOLEAN /\ overflowed' = (overflowed \/ Cardinality(regions) >= RegMax)
      BY DEF MapSpace, Places, MallocTyped
    <2>3. overflowed' = (overflowed \/ ~HasRoom)
      BY <2>1, <2>2
    <2> QED
      BY <2>2, <2>3
  <1>6. \A x \in Blocks : Present(x) => kind[x[1]] # "none"
    BY DEF Places, InUse, Sound
  <1>7. ASSUME NEW d \in SizeClasses PROVE carving[d].base # r
    <2>1. carving[d].base # -1 => kind[carving[d].base] = d
      BY DEF Places, CarvedSo
    <2> QED
      BY <1>1, <2>1
  <1>8. regions \subseteq Spaces /\ IsFiniteSet(regions)
    BY DEF Places, MallocTyped
  <1> QED
    BY <1>1, <1>2, <1>3, <1>4, <1>5, <1>6, <1>7, <1>8

LEMMA CarveNewObtains ==
  ASSUME Places, NEW u \in Users, NEW c \in SizeClasses, NEW b \in Blocks, CarveNew(u, c, b)
  PROVE  Obtained(b)
  <1> USE PhaseAllocAssumption
  <1>1. PICK r : r = b[1]
    OBVIOUS
  <1>2. r \in Spaces /\ r # -1 /\ b = <<r, 1>> /\ b[2] = 1 /\ c \in Kinds \ {"none"}
    BY <1>1 DEF CarveNew, Blocks, Kinds
  <1>3. MapSpace(r, c)
    BY <1>1 DEF CarveNew
  <1>4. /\ kind' \in [Spaces -> Kinds]
        /\ \A s \in Spaces : kind'[s] = IF s = r THEN c ELSE kind[s]
        /\ regions' \subseteq Spaces /\ IsFiniteSet(regions') /\ regions \subseteq regions'
        /\ overflowed' \in BOOLEAN
        /\ ~overflowed' => ~overflowed /\ r \in regions'
        /\ \A x \in Blocks : Present(x) => x[1] # r
        /\ \A d \in SizeClasses : carving[d].base # r
    BY <1>2, <1>3, NewSpace
  <1>5. /\ carving' \in [SizeClasses -> CarvingType]
        /\ \A d \in SizeClasses : carving'[d] = IF d = c THEN [base |-> r, off |-> 1] ELSE carving[d]
        /\ owner' \in [Spaces -> Users \union {Nobody}] /\ cache' = cache
    BY <1>1, <1>2 DEF CarveNew, Places, MallocTyped, CarvingType
  <1>6. ~Present(b)
    BY <1>1, <1>4
  <1>7. b \notin DOMAIN held /\ \A v \in Users : given[v] # b
    BY <1>6 DEF Present
  <1>8. \A v \in Users, d \in SizeClasses : ~PlaceIn(b, cache[v][d]) /\ NoTwice(cache[v][d])
    BY <1>6 DEF Present, Cached, Places, Apart
  <1>9. ASSUME NEW d \in SizeClasses, carving'[d].base # -1
        PROVE  /\ kind'[carving'[d].base] = d
               /\ \A x \in Blocks : (Present(x) \/ x = b) /\ x[1] = carving'[d].base
                                       => x[2] <= carving'[d].off
    <2>1. CASE d = c
      BY <1>2, <1>4, <1>5, <2>1
    <2>2. CASE d # c
      <3>1. /\ kind[carving[d].base] = d
            /\ \A x \in Blocks : Present(x) /\ x[1] = carving[d].base => x[2] <= carving[d].off
        BY <1>5, <1>9, <2>2 DEF Places, CarvedSo
      <3>2. carving[d].base \in Spaces /\ carving'[d] = carving[d]
        BY <1>5, <1>9, <2>2 DEF Places, MallocTyped, CarvingType
      <3> QED
        BY <1>1, <1>4, <3>1, <3>2
    <2> QED
      BY <2>1, <2>2
  <1>10. \A x \in Blocks : x[1] \in Spaces
    BY DEF Blocks
  <1>11. cache' \in [Users -> [SizeClasses -> Seq(Blocks)]]
    BY <1>5 DEF Places, MallocTyped
  <1>12. /\ kind'[b[1]] # "none" /\ (kind'[b[1]] \notin SizeClasses => b[2] = 1)
         /\ \A x \in Blocks : Present(x) => kind'[x[1]] = kind[x[1]]
         /\ \A s \in Spaces : kind'[s] # "none" => s = r \/ kind[s] # "none"
    BY <1>1, <1>2, <1>4, <1>10
  <1>13. \A v \in Users, d \in SizeClasses :
           /\ NoTwice(cache'[v][d])
           /\ \A x : PlaceIn(x, cache'[v][d]) <=> PlaceIn(x, cache[v][d]) /\ x # b
    BY <1>5, <1>8
  <1> QED
    BY <1>4, <1>5, <1>7, <1>9, <1>11, <1>12, <1>13 DEF Obtained

LEMMA MapBlockObtains ==
  ASSUME Places, NEW b \in Blocks, NEW k \in {"large", "aligned"}, MapBlock(b, k)
  PROVE  Obtained(b)
  <1> USE PhaseAllocAssumption
  <1>1. PICK r : r = b[1]
    OBVIOUS
  <1>2. r \in Spaces /\ b[2] = 1 /\ k \in Kinds \ {"none"} /\ k \notin SizeClasses
    BY <1>1 DEF MapBlock, Blocks, Kinds
  <1>3. MapSpace(r, k) /\ UNCHANGED <<owner, carving, cache>>
    BY <1>1 DEF MapBlock
  <1>4. /\ kind' \in [Spaces -> Kinds]
        /\ \A s \in Spaces : kind'[s] = IF s = r THEN k ELSE kind[s]
        /\ regions' \subseteq Spaces /\ IsFiniteSet(regions') /\ regions \subseteq regions'
        /\ overflowed' \in BOOLEAN
        /\ ~overflowed' => ~overflowed /\ r \in regions'
        /\ \A x \in Blocks : Present(x) => x[1] # r
        /\ \A d \in SizeClasses : carving[d].base # r
    BY <1>2, <1>3, NewSpace
  <1>5. ~Present(b)
    BY <1>1, <1>4
  <1>6. b \notin DOMAIN held /\ \A v \in Users : given[v] # b
    BY <1>5 DEF Present
  <1>7. \A v \in Users, d \in SizeClasses : ~PlaceIn(b, cache[v][d]) /\ NoTwice(cache[v][d])
    BY <1>5 DEF Present, Cached, Places, Apart
  <1>8. ASSUME NEW d \in SizeClasses, carving[d].base # -1
        PROVE  /\ kind'[carving[d].base] = d
               /\ \A x \in Blocks : (Present(x) \/ x = b) /\ x[1] = carving[d].base
                                       => x[2] <= carving[d].off
    <2>1. /\ kind[carving[d].base] = d
          /\ \A x \in Blocks : Present(x) /\ x[1] = carving[d].base => x[2] <= carving[d].off
      BY <1>8 DEF Places, CarvedSo
    <2>2. carving[d].base \in Spaces
      BY <1>8 DEF Places, MallocTyped, CarvingType
    <2> QED
      BY <1>1, <1>4, <2>1, <2>2
  <1>9. \A x \in Blocks : x[1] \in Spaces
    BY DEF Blocks
  <1>10. /\ cache' \in [Users -> [SizeClasses -> Seq(Blocks)]]
         /\ carving' \in [SizeClasses -> CarvingType]
         /\ owner' \in [Spaces -> Users \union {Nobody}]
    BY <1>3 DEF Places, MallocTyped
  <1>11. /\ kind'[r] \in Kinds \ {"none"}
         /\ b \notin DOMAIN held /\ \A v \in Users : given[v] # b
         /\ ~overflowed' => ~overflowed /\ r \in regions'
    BY <1>2, <1>4, <1>6
  <1>12. \A x \in Blocks : Present(x) => kind'[x[1]] = kind[x[1]]
    BY <1>4, <1>9
  <1> QED
    BY <1>1, <1>2, <1>3, <1>4, <1>7, <1>8, <1>10, <1>11, <1>12 DEF Obtained

LEMMA ObtainObtains ==
  ASSUME Places, NEW u \in Users, NEW b \in Blocks, Obtain(u, b)
  PROVE  Obtained(b)
  BY FromCacheObtains, CarveObtains, CarveNewObtains, MapBlockObtains DEF Obtain

LEMMA NoEmptyBlock == <<>> \notin Blocks \union ForeignBlocks
  <1>1. <<>> \notin ForeignBlocks
    BY PhaseAllocAssumption
  <1>2. ASSUME NEW r, NEW i PROVE <<>> # <<r, i>>
    <2>1. Len(<<>>) = 0 /\ Len(<<r, i>>) = 2
      OBVIOUS
    <2> QED
      BY <2>1
  <1> QED
    BY <1>1, <1>2 DEF Blocks

(* A call that obtains block b, and is to free block p as well if p is one    *)
(* (realloc; for malloc p is <<>>).                                          *)
LEMMA HandedOver ==
  ASSUME Places, NEW u \in Users, NEW b, Obtained(b), doing[u] = "idle",
         NEW p \in DOMAIN held \union {<<>>},
         DOMAIN held' = (DOMAIN held \ {p}) \union {b}, held' \in [DOMAIN held' -> BOOLEAN],
         doing' \in [Users -> Stages],
         given' \in [Users -> Blocks \union ForeignBlocks \union {<<>>}],
         \A v \in Users : /\ given'[v] = IF v = u THEN p ELSE given[v]
                          /\ doing'[v] = IF v = u /\ p # <<>> THEN "give" ELSE doing[v],
         toLibc' = toLibc
  PROVE  Places'
  <1> USE PhaseAllocAssumption
  <1>1. /\ b \in Blocks /\ b # <<>> /\ b \notin DOMAIN held /\ p # b
        /\ <<>> \notin Blocks \union ForeignBlocks
    BY NoEmptyBlock DEF Obtained
  <1>2. given[u] = <<>> /\ \A v \in Users : given[v] # b
    BY DEF Places, StandsAt, Obtained
  <1>3. \A v \in Users, c \in SizeClasses : \A x : Cached(v, c, x)' <=> Cached(v, c, x) /\ x # b
    BY DEF Cached, Obtained
  <1>4. \A x \in Blocks : Present(x)' => Present(x) \/ x = b
    BY <1>1, <1>3 DEF Present
  <1>5. \A x \in Blocks : Present(x) => kind'[x[1]] = kind[x[1]]
    BY DEF Obtained
  <1>6. MallocTyped'
    <2>1. DOMAIN held' \subseteq Blocks \union ForeignBlocks
      BY <1>1 DEF Places, MallocTyped
    <2> QED
      BY <2>1 DEF Obtained, MallocTyped
  <1>7. Apart'
    <2>1. \A v \in Users, c \in SizeClasses : NoTwice(cache[v][c])'
      BY DEF Obtained
    <2>2. \A v, w \in Users, c, d \in SizeClasses : \A x \in Blocks :
            Cached(v, c, x)' /\ Cached(w, d, x)' => v = w /\ c = d
      BY <1>3 DEF Places, Apart
    <2>3. ASSUME NEW v \in Users, NEW c \in SizeClasses, NEW x \in Blocks, Cached(v, c, x)'
          PROVE  KindOf(x)' = c /\ x \notin DOMAIN held' /\ \A w \in Users : given'[w] # x
      <3>1. Cached(v, c, x) /\ x # b
        BY <1>3, <2>3
      <3>2. KindOf(x) = c /\ x \notin DOMAIN held /\ \A w \in Users : given[w] # x
        BY <3>1 DEF Places, Apart
      <3>3. Present(x)
        BY <3>1 DEF Present
      <3> QED
        BY <1>1, <1>5, <3>1, <3>2, <3>3 DEF KindOf, Owned
    <2>4. ASSUME NEW v \in Users, given'[v] # <<>>
          PROVE  /\ given'[v] \notin DOMAIN held'
                 /\ \A w \in Users : w # v => given'[w] # given'[v]
      <3>1. \A w \in Users : given[w] # <<>> =>
              /\ given[w] \notin DOMAIN held
              /\ \A y \in Users : y # w => given[y] # given[w]
        BY DEF Places, Apart
      <3>2. CASE v = u
        <4>1. p \in DOMAIN held /\ p # <<>> /\ given'[v] = p
          BY <2>4, <3>2
        <4>2. \A w \in Users : given[w] # p
          BY <1>1, <3>1, <4>1
        <4> QED
          BY <1>1, <3>2, <4>1, <4>2
      <3>3. CASE v # u
        <4>1. given'[v] = given[v] /\ given[v] # <<>> /\ given[v] # b
          BY <1>2, <2>4, <3>3
        <4>2. given[v] \notin DOMAIN held /\ given[v] # p
          BY <3>1, <4>1
        <4> QED
          BY <3>1, <3>3, <4>1, <4>2
      <3> QED
        BY <3>2, <3>3
    <2> QED
      BY <2>1, <2>2, <2>3, <2>4 DEF Apart
  <1>8. InUse'
    <2> SUFFICES ASSUME NEW x \in Blocks, Present(x)' PROVE Sound(x)'
      BY DEF InUse
    <2>1. CASE x = b
      BY <2>1 DEF Obtained, Sound
    <2>2. CASE x # b
      BY <1>4, <1>5, <2>2 DEF Places, InUse, Sound
    <2> QED
      BY <2>1, <2>2
  <1>9. ASSUME NEW c \in SizeClasses PROVE CarvedSo(c)'
    BY <1>4 DEF Obtained, CarvedSo
  <1>10. ASSUME NEW v \in Users PROVE StandsAt(v)'
    <2>1. StandsAt(v)
      BY DEF Places
    <2>2. CASE v = u
      BY <1>2, <2>2 DEF StandsAt
    <2>3. CASE v # u
      <3>1. given'[v] = given[v] /\ doing'[v] = doing[v]
        BY <2>3
      <3>2. Owned(given[v]) /\ given[v] # <<>> => given[v] \in Blocks /\ Present(given[v])
        BY DEF Owned, Present, Places, MallocTyped
      <3>3. given[v] # <<>> => KindOf(given[v])' = KindOf(given[v])
        BY <1>5, <3>1, <3>2 DEF KindOf, Owned
      <3> QED
        BY <2>1, <3>1, <3>3 DEF StandsAt, Owned
    <2> QED
      BY <2>2, <2>3
  <1>11. Tabled'
    <2> SUFFICES ASSUME ~overflowed'
                 PROVE  /\ toLibc \subseteq ForeignBlocks
                        /\ \A r \in Spaces : kind'[r] # "none" => r \in regions' \/ LeavesNow(r)'
      BY DEF Tabled
    <2>1. /\ ~overflowed /\ regions \subseteq regions'
          /\ \A r \in Spaces : kind'[r] # "none" => r \in regions' \/ kind[r] # "none"
      BY DEF Obtained
    <2>2. \A r : LeavesNow(r) => LeavesNow(r)'
      BY DEF LeavesNow
    <2> QED
      BY <2>1, <2>2 DEF Places, Tabled
  <1> QED
    BY <1>6, <1>7, <1>8, <1>9, <1>10, <1>11 DEF Places

LEMMA MallocPlaces ==
  ASSUME Places, NEW u \in Users, Malloc(u) \/ MemAlign(u)
  PROVE  Places'
  <1> USE PhaseAllocAssumption
  <1>1. PICK b \in Blocks : /\ Obtain(u, b) \/ MapBlock(b, "aligned")
                            /\ held' = HoldAlso(b, TRUE)
    BY DEF Malloc, MemAlign
  <1>2. Obtained(b)
    BY <1>1, ObtainObtains, MapBlockObtains
  <1>3. /\ doing[u] = "idle" /\ given[u] = <<>>
        /\ doing' = doing /\ given' = given /\ toLibc' = toLibc
    BY DEF Malloc, MemAlign, NewRequest, Places, StandsAt
  <1>4. <<>> \notin DOMAIN held
    BY NoEmptyBlock DEF Places, MallocTyped
  <1>5. DOMAIN held' = (DOMAIN held \ {<<>>}) \union {b} /\ held' \in [DOMAIN held' -> BOOLEAN]
    BY <1>1, <1>4, ZenonT(30) DEF HoldAlso, Places, MallocTyped
  <1>6. /\ doing' \in [Users -> Stages]
        /\ given' \in [Users -> Blocks \union ForeignBlocks \union {<<>>}]
    BY <1>3 DEF Places, MallocTyped
  <1> QED
    BY <1>2, <1>3, <1>5, <1>6, HandedOver

LEMMA ReallocPlaces ==
  ASSUME Places, NEW u \in Users, Realloc(u)
  PROVE  Places'
  <1> USE PhaseAllocAssumption
  <1>1. PICK p \in DOMAIN held, q \in Blocks :
          /\ Obtain(u, q)
          /\ held' = [x \in (DOMAIN held \ {p}) \union {q} |->
                        IF x = q THEN Usable(u, p) /\ held[p] ELSE held[x]]
          /\ doing' = [doing EXCEPT ![u] = "give"] /\ given' = [given EXCEPT ![u] = p]
    BY DEF Realloc
  <1>2. Obtained(q)
    BY <1>1, ObtainObtains
  <1>3. doing[u] = "idle" /\ toLibc' = toLibc
    BY DEF Realloc, NewRequest
  <1>4. p # <<>> /\ p \in Blocks \union ForeignBlocks
    BY NoEmptyBlock DEF Places, MallocTyped
  <1>5. (Usable(u, p) /\ held[p]) \in BOOLEAN /\ \A x \in DOMAIN held : held[x] \in BOOLEAN
    BY DEF Places, MallocTyped
  <1>6. DOMAIN held' = (DOMAIN held \ {p}) \union {q} /\ held' \in [DOMAIN held' -> BOOLEAN]
    BY <1>1, <1>5
  <1>7. /\ doing' \in [Users -> Stages]
        /\ given' \in [Users -> Blocks \union ForeignBlocks \union {<<>>}]
        /\ \A v \in Users : /\ given'[v] = IF v = u THEN p ELSE given[v]
                            /\ doing'[v] = IF v = u /\ p # <<>> THEN "give" ELSE doing[v]
    BY <1>1, <1>4 DEF Places, MallocTyped, Stages
  <1> QED
    BY <1>2, <1>3, <1>6, <1>7, HandedOver

(* Where no block is added and no region changes. *)
LEMMA NothingNew ==
  ASSUME Places, UNCHANGED <<kind, carving>>, \A x \in Blocks : Present(x)' => Present(x)
  PROVE  InUse' /\ \A c \in SizeClasses : CarvedSo(c)'
  <1>1. InUse'
    BY DEF Places, InUse, Sound
  <1>2. ASSUME NEW c \in SizeClasses PROVE CarvedSo(c)'
    <2>1. CarvedSo(c)
      BY DEF Places
    <2> QED
      BY <2>1 DEF CarvedSo
  <1> QED
    BY <1>1, <1>2

LEMMA GivenBack ==
  ASSUME Places, NEW u \in Users, NEW b \in Blocks \union ForeignBlocks,
         \/ b \in DOMAIN held /\ doing[u] = "idle"
         \/ doing[u] = "give" /\ given[u] = b,
         DOMAIN held' = DOMAIN held \ {b}, held' \in [DOMAIN held' -> BOOLEAN],
         GiveBack(u, b), UNCHANGED <<kind, regions, owner, carving, toLibc, overflowed>>
  PROVE  Places'
  <1> USE PhaseAllocAssumption
  <1>1. /\ b # <<>> /\ given[u] \in {<<>>, b} /\ doing[u] \notin {"look", "unmap"}
        /\ \A v \in Users : v # u => given[v] # b
    BY NoEmptyBlock DEF Places, StandsAt, Apart
  <1>2. \A v \in Users, c \in SizeClasses : b \in Blocks => ~Cached(v, c, b)
    BY DEF Places, Apart
  <1>3. Present(b)
    BY DEF Present
  <1>4. \A v \in Users, c \in SizeClasses : cache[v][c] \in Seq(Blocks) /\ NoTwice(cache[v][c])
    BY DEF Places, MallocTyped, Apart
  <1>5. \A x : KindOf(x)' = KindOf(x)
    BY DEF KindOf, Owned
  <1>6. /\ DOMAIN held' \subseteq Blocks \union ForeignBlocks
        /\ kind' \in [Spaces -> Kinds] /\ regions' \subseteq Spaces /\ IsFiniteSet(regions')
        /\ owner' \in [Spaces -> Users \union {Nobody}]
        /\ carving' \in [SizeClasses -> CarvingType] /\ overflowed' \in BOOLEAN
    BY DEF Places, MallocTyped
  <1>7. ASSUME doing' \in [Users -> Stages],
               given' \in [Users -> Blocks \union ForeignBlocks \union {<<>>}],
               doing'[u] \in {"idle", "look"}, given'[u] \in {<<>>, b},
               doing'[u] = "idle" <=> given'[u] = <<>>,
               doing'[u] = "look" => KindOf(b) \notin SizeClasses,
               \A v \in Users : v # u => given'[v] = given[v] /\ doing'[v] = doing[v]
        PROVE  /\ \A v \in Users : StandsAt(v)'
               /\ \A v \in Users : given'[v] # <<>> =>
                    /\ given'[v] \notin DOMAIN held'
                    /\ \A w \in Users : w # v => given'[w] # given'[v]
               /\ Tabled'
    <2>1. ASSUME NEW v \in Users PROVE StandsAt(v)'
      <3>1. StandsAt(v)
        BY DEF Places
      <3>2. CASE v = u
        BY <1>5, <1>7, <3>2 DEF StandsAt
      <3>3. CASE v # u
        BY <1>5, <1>7, <3>1, <3>3 DEF StandsAt, Owned
      <3> QED
        BY <3>2, <3>3
    <2>2. ASSUME NEW v \in Users, given'[v] # <<>>
          PROVE  /\ given'[v] \notin DOMAIN held'
                 /\ \A w \in Users : w # v => given'[w] # given'[v]
      <3>1. \A w \in Users : given[w] # <<>> =>
              /\ given[w] \notin DOMAIN held
              /\ \A y \in Users : y # w => given[y] # given[w]
        BY DEF Places, Apart
      <3> QED
        BY <1>1, <1>7, <2>2, <3>1
    <2>3. \A r : LeavesNow(r) => LeavesNow(r)'
      BY <1>1, <1>7 DEF LeavesNow
    <2>4. Tabled'
      BY <2>3 DEF Places, Tabled
    <2> QED
      BY <2>1, <2>2, <2>4
  <1>8. CASE KindOf(b) \in SizeClasses
    <2>1. PICK c \in SizeClasses : c = KindOf(b)
      BY <1>8
    <2>2. b \in Blocks /\ Owned(b)
      BY <2>1 DEF KindOf, Owned
    <2>3. /\ cache' \in [Users -> [SizeClasses -> Seq(Blocks)]]
          /\ \A v \in Users, d \in SizeClasses :
               cache'[v][d] = IF v = u /\ d = c THEN <<b>> \o cache[u][c] ELSE cache[v][d]
          /\ doing' \in [Users -> Stages] /\ doing'[u] = "idle"
          /\ given' \in [Users -> Blocks \union ForeignBlocks \union {<<>>}] /\ given'[u] = <<>>
          /\ \A v \in Users : v # u => given'[v] = given[v] /\ doing'[v] = doing[v]
      <3>1. /\ cache' = [cache EXCEPT ![u][c] = <<b>> \o @]
            /\ doing' = [doing EXCEPT ![u] = "idle"] /\ given' = [given EXCEPT ![u] = <<>>]
        BY <2>1, <1>8 DEF GiveBack, ToCache
      <3>2. /\ cache \in [Users -> [SizeClasses -> Seq(Blocks)]] /\ doing \in [Users -> Stages]
            /\ given \in [Users -> Blocks \union ForeignBlocks \union {<<>>}]
        BY DEF Places, MallocTyped
      <3>3. <<b>> \o cache[u][c] \in Seq(Blocks)
        BY <2>2, <3>2
      <3>4. cache' = [cache EXCEPT ![u] = [cache[u] EXCEPT ![c] = <<b>> \o cache[u][c]]]
        BY <3>1
      <3>5. cache' \in [Users -> [SizeClasses -> Seq(Blocks)]]
        BY <3>2, <3>3, <3>4
      <3>6. \A v \in Users, d \in SizeClasses :
              cache'[v][d] = IF v = u /\ d = c THEN <<b>> \o cache[u][c] ELSE cache[v][d]
        BY <3>2, <3>4
      <3> QED
        BY <3>1, <3>2, <3>5, <3>6 DEF Stages
    <2>4. /\ \A v \in Users, d \in SizeClasses : NoTwice(cache'[v][d])
          /\ \A v \in Users, d \in SizeClasses : \A x :
               Cached(v, d, x)' <=> Cached(v, d, x) \/ (v = u /\ d = c /\ x = b)
      <3>1. ~PlaceIn(b, cache[u][c])
        BY <1>2, <2>2 DEF Cached
      <3>2. /\ NoTwice(<<b>> \o cache[u][c])
            /\ \A x : PlaceIn(x, <<b>> \o cache[u][c]) <=> PlaceIn(x, cache[u][c]) \/ x = b
        BY <1>4, <2>2, <3>1, PushToCache
      <3>3. ASSUME NEW v \in Users, NEW d \in SizeClasses
            PROVE  /\ NoTwice(cache'[v][d])
                   /\ \A x : PlaceIn(x, cache'[v][d])
                                <=> PlaceIn(x, cache[v][d]) \/ (v = u /\ d = c /\ x = b)
        <4>1. CASE v = u /\ d = c
          BY <2>3, <3>2, <4>1
        <4>2. CASE ~(v = u /\ d = c)
          BY <1>4, <2>3, <4>2
        <4> QED
          BY <4>1, <4>2
      <3> QED
        BY <3>3 DEF Cached
    <2>5. ASSUME NEW x \in Blocks, Present(x)' PROVE Present(x)
      <3>1. /\ x \in DOMAIN held' => x \in DOMAIN held
            /\ \A v \in Users : given'[v] = x => given[v] = x
        BY <2>3, NoEmptyBlock
      <3> QED
        BY <1>3, <2>4, <2>5, <3>1 DEF Present
    <2>6. MallocTyped'
      BY <1>6, <2>3 DEF MallocTyped
    <2>7. Apart'
      <3>1. \A v, w \in Users, d, e \in SizeClasses : \A x \in Blocks :
              Cached(v, d, x)' /\ Cached(w, e, x)' => v = w /\ d = e
        BY <1>2, <2>2, <2>4 DEF Places, Apart
      <3>2. ASSUME NEW v \in Users, NEW d \in SizeClasses, NEW x \in Blocks, Cached(v, d, x)'
            PROVE  KindOf(x)' = d /\ x \notin DOMAIN held' /\ \A w \in Users : given'[w] # x
        <4>0. \A w \in Users : given'[w] # b
          BY <1>1, <2>3
        <4>1. CASE x = b
          BY <1>2, <1>5, <2>1, <2>2, <2>4, <3>2, <4>0, <4>1
        <4>2. CASE x # b
          <5>1. Cached(v, d, x)
            BY <2>4, <3>2, <4>2
          <5>2. KindOf(x) = d /\ x \notin DOMAIN held /\ \A w \in Users : given[w] # x
            BY <5>1 DEF Places, Apart
          <5>3. x # <<>>
            BY NoEmptyBlock
          <5> QED
            BY <1>5, <2>3, <5>2, <5>3
        <4> QED
          BY <4>1, <4>2
      <3> QED
        BY <1>7, <2>3, <2>4, <3>1, <3>2 DEF Apart
    <2> QED
      BY <1>7, <2>3, <2>5, <2>6, <2>7, NothingNew DEF Places
  <1>9. CASE KindOf(b) \notin SizeClasses
    <2>1. /\ cache' = cache /\ cache \in [Users -> [SizeClasses -> Seq(Blocks)]]
          /\ doing' \in [Users -> Stages] /\ doing'[u] = "look"
          /\ given' \in [Users -> Blocks \union ForeignBlocks \union {<<>>}] /\ given'[u] = b
          /\ \A v \in Users : v # u => given'[v] = given[v] /\ doing'[v] = doing[v]
      BY <1>9, ZenonT(30) DEF GiveBack, ToLook, Places, MallocTyped, Stages
    <2>2. \A v \in Users, d \in SizeClasses : \A x : Cached(v, d, x)' <=> Cached(v, d, x)
      BY <2>1 DEF Cached
    <2>3. \A x \in Blocks : Present(x)' => Present(x)
      BY <1>1, <1>3, <2>1, <2>2 DEF Present
    <2>4. MallocTyped'
      BY <1>6, <2>1 DEF MallocTyped
    <2>5. Apart'
      <3>1. \A v, w \in Users, d, e \in SizeClasses : \A x \in Blocks :
              Cached(v, d, x)' /\ Cached(w, e, x)' => v = w /\ d = e
        BY <2>2 DEF Places, Apart
      <3>2. ASSUME NEW v \in Users, NEW d \in SizeClasses, NEW x \in Blocks, Cached(v, d, x)'
            PROVE  KindOf(x)' = d /\ x \notin DOMAIN held' /\ \A w \in Users : given'[w] # x
        <4>1. Cached(v, d, x) /\ x # b
          BY <1>2, <2>2, <3>2
        <4>2. KindOf(x) = d /\ x \notin DOMAIN held /\ \A w \in Users : given[w] # x
          BY <4>1 DEF Places, Apart
        <4> QED
          BY <1>5, <2>1, <4>1, <4>2
      <3>3. \A v \in Users, d \in SizeClasses : NoTwice(cache'[v][d])
        BY <1>4, <2>1
      <3>4. \A v \in Users : given'[v] # <<>> =>
              /\ given'[v] \notin DOMAIN held'
              /\ \A w \in Users : w # v => given'[w] # given'[v]
        BY <1>1, <1>7, <1>9, <2>1
      <3> QED
        BY <3>1, <3>2, <3>3, <3>4 DEF Apart
    <2> QED
      BY <1>1, <1>7, <1>9, <2>1, <2>3, <2>4, <2>5, NothingNew DEF Places
  <1> QED
    BY <1>8, <1>9

LEMMA FreePlaces ==
  ASSUME Places, NEW u \in Users, Free(u) \/ GiveOld(u)
  PROVE  Places'
  <1>1. CASE Free(u)
    <2>1. PICK b \in DOMAIN held : held' = Without(b) /\ GiveBack(u, b)
      BY <1>1 DEF Free
    <2>2. DOMAIN held' = DOMAIN held \ {b} /\ held' \in [DOMAIN held' -> BOOLEAN]
      BY <2>1 DEF Without, Places, MallocTyped
    <2>3. b \in Blocks \union ForeignBlocks
      BY DEF Places, MallocTyped
    <2>4. doing[u] = "idle" /\ UNCHANGED <<kind, regions, owner, carving, toLibc, overflowed>>
      BY <1>1 DEF Free, NewRequest
    <2> QED
      BY <2>1, <2>2, <2>3, <2>4, GivenBack
  <1>2. CASE GiveOld(u)
    <2>1. PICK b : b = given[u]
      OBVIOUS
    <2>2. doing[u] = "give" /\ b # <<>> /\ b \in Blocks \union ForeignBlocks
      BY <1>2, <2>1 DEF GiveOld, Places, StandsAt, MallocTyped
    <2>3. held' = held /\ b \notin DOMAIN held /\ held \in [DOMAIN held -> BOOLEAN]
      BY <1>2, <2>1, <2>2 DEF GiveOld, Places, Apart, MallocTyped
    <2>4. DOMAIN held' = DOMAIN held \ {b} /\ held' \in [DOMAIN held' -> BOOLEAN]
      BY <2>3
    <2>5. GiveBack(u, b) /\ UNCHANGED <<kind, regions, owner, carving, toLibc, overflowed>>
      BY <1>2, <2>1 DEF GiveOld
    <2> QED
      BY <2>1, <2>2, <2>4, <2>5, GivenBack
  <1> QED
    BY <1>1, <1>2

(* A block that is looked up or unmapped, if it is not the C library's, is    *)
(* the only one of its region.                                               *)
LEMMA AloneInRegion ==
  ASSUME Places, NEW u \in Users, doing[u] \in {"look", "unmap"},
         NEW b, b = given[u], Owned(b)
  PROVE  /\ b \in Blocks /\ b = <<b[1], 1>> /\ Present(b) /\ kind[b[1]] # "none"
         /\ kind[b[1]] \notin SizeClasses
         /\ \A x \in Blocks : Present(x) /\ x[1] = b[1] => x = b
         /\ \A v \in Users : v # u => given[v] # b
         /\ b \notin DOMAIN held
         /\ \A v \in Users, c \in SizeClasses : ~Cached(v, c, b)
  <1>1. b # <<>> /\ KindOf(b) \notin SizeClasses
    BY DEF Places, StandsAt
  <1>2. b \in Blocks /\ Present(b)
    BY <1>1 DEF Owned, Present, Places, MallocTyped
  <1>3. kind[b[1]] # "none" /\ kind[b[1]] \notin SizeClasses
    BY <1>1, <1>2 DEF KindOf, Places, InUse, Sound
  <1>4. \A x \in Blocks : Present(x) /\ x[1] = b[1] => x[2] = 1
    BY <1>3 DEF Places, InUse, Sound
  <1>5. \A x \in Blocks : x = <<x[1], x[2]>>
    BY DEF Blocks
  <1> QED
    BY <1>1, <1>2, <1>3, <1>4, <1>5 DEF Places, Apart

(* A call ends, or goes on to unmap the block it is about. *)
LEMMA LookPlaces ==
  ASSUME Places, NEW u \in Users, Look(u)
  PROVE  Places'
  <1>1. PICK b : b = given[u]
    OBVIOUS
  <1>2. doing[u] = "look" /\ b # <<>> /\ UNCHANGED <<kind, owner, carving, cache, held, overflowed>>
    BY <1>1 DEF Look, Places, StandsAt
  <1>3. /\ \A x : KindOf(x)' = KindOf(x)
        /\ \A v \in Users, c \in SizeClasses : \A x : Cached(v, c, x)' <=> Cached(v, c, x)
    BY <1>2 DEF KindOf, Owned, Cached
  <1>4. CASE Listed(b)
    <2>1. /\ regions' = regions \ {b[1]} /\ UNCHANGED <<toLibc, given>>
          /\ doing' = [doing EXCEPT ![u] = "unmap"]
      BY <1>1, <1>4 DEF Look
    <2>2. Owned(b) /\ b = <<b[1], 1>>
      BY <1>1, <1>2, <1>4, AloneInRegion DEF Listed
    <2>3. /\ doing' \in [Users -> Stages] /\ doing'[u] = "unmap"
          /\ \A v \in Users : v # u => doing'[v] = doing[v]
      BY <2>1 DEF Places, MallocTyped, Stages
    <2>4. MallocTyped'
      <3>1. regions' \subseteq Spaces /\ IsFiniteSet(regions')
        BY <2>1, FS_Subset DEF Places, MallocTyped
      <3> QED
        BY <1>2, <2>1, <2>3, <3>1 DEF Places, MallocTyped
    <2>5. Apart'
      BY <1>2, <1>3, <2>1 DEF Places, Apart
    <2>6. \A x : Present(x)' <=> Present(x)
      BY <1>2, <1>3, <2>1 DEF Present
    <2>7. ASSUME NEW v \in Users PROVE StandsAt(v)'
      BY <1>1, <1>2, <1>3, <2>1, <2>2, <2>3 DEF Places, StandsAt, Owned
    <2>8. Tabled'
      <3>1. \A r : LeavesNow(r) \/ r = b[1] => LeavesNow(r)'
        BY <1>1, <1>2, <2>1, <2>2, <2>3 DEF LeavesNow
      <3> QED
        BY <1>2, <2>1, <3>1 DEF Places, Tabled
    <2> QED
      BY <1>2, <2>4, <2>5, <2>6, <2>7, <2>8, NothingNew DEF Places
  <1>5. CASE ~Listed(b)
    <2>1. /\ toLibc' = toLibc \union {b} /\ regions' = regions
          /\ doing' = [doing EXCEPT ![u] = "idle"] /\ given' = [given EXCEPT ![u] = <<>>]
      BY <1>1, <1>5 DEF Look, EndCall
    <2>2. /\ doing' \in [Users -> Stages] /\ doing'[u] = "idle"
          /\ given' \in [Users -> Blocks \union ForeignBlocks \union {<<>>}] /\ given'[u] = <<>>
          /\ \A v \in Users : v # u => doing'[v] = doing[v] /\ given'[v] = given[v]
      BY <2>1 DEF Places, MallocTyped, Stages
    <2>3. MallocTyped'
      BY <1>2, <2>1, <2>2 DEF Places, MallocTyped
    <2>4. \A x \in Blocks : Present(x)' => Present(x)
      BY <1>2, <1>3, <2>2, NoEmptyBlock DEF Present
    <2>5. Apart'
      <3>1. ASSUME NEW v \in Users, NEW c \in SizeClasses, NEW x \in Blocks, Cached(v, c, x)'
            PROVE  KindOf(x)' = c /\ x \notin DOMAIN held' /\ \A w \in Users : given'[w] # x
        <4>1. KindOf(x) = c /\ x \notin DOMAIN held /\ \A w \in Users : given[w] # x
          BY <1>3, <3>1 DEF Places, Apart
        <4> QED
          BY <1>2, <1>3, <2>2, <4>1, NoEmptyBlock
      <3>2. \A v \in Users : given'[v] # <<>> =>
              /\ given'[v] \notin DOMAIN held'
              /\ \A w \in Users : w # v => given'[w] # given'[v]
        BY <1>2, <2>2 DEF Places, Apart
      <3> QED
        BY <1>2, <1>3, <3>1, <3>2 DEF Places, Apart
    <2>6. ASSUME NEW v \in Users PROVE StandsAt(v)'
      BY <1>3, <2>2 DEF Places, StandsAt, Owned
    <2>7. Tabled'
      <3>1. ASSUME ~overflowed, b \notin ForeignBlocks PROVE FALSE
        <4>1. Owned(b) /\ b[1] \notin regions
          BY <1>5, <3>1 DEF Owned, Listed
        <4>2. /\ b \in Blocks /\ b = <<b[1], 1>> /\ kind[b[1]] # "none"
              /\ \A v \in Users : v # u => given[v] # b
          BY <1>1, <1>2, <4>1, AloneInRegion
        <4>3. b[1] \in Spaces
          BY <4>2 DEF Blocks
        <4>4. LeavesNow(b[1])
          BY <3>1, <4>1, <4>2, <4>3 DEF Places, Tabled
        <4>5. PICK v \in Users : doing[v] = "unmap" /\ given[v] = b
          BY <4>2, <4>4 DEF LeavesNow
        <4> QED
          BY <1>2, <4>2, <4>5
      <3>2. \A r : LeavesNow(r) => LeavesNow(r)'
        BY <1>2, <2>2 DEF LeavesNow
      <3> QED
        BY <1>2, <2>1, <3>1, <3>2 DEF Places, Tabled
    <2> QED
      BY <1>2, <2>3, <2>4, <2>5, <2>6, <2>7, NothingNew DEF Places
  <1> QED
    BY <1>4, <1>5

LEMMA UnmapPlaces ==
  ASSUME Places, NEW u \in Users, Unmap(u)
  PROVE  Places'
  <1> USE PhaseAllocAssumption
  <1>1. PICK b : b = given[u]
    OBVIOUS
  <1>2. /\ doing[u] = "unmap" /\ Owned(b)
        /\ kind' = [kind EXCEPT ![b[1]] = "none"]
        /\ doing' = [doing EXCEPT ![u] = "idle"] /\ given' = [given EXCEPT ![u] = <<>>]
        /\ UNCHANGED <<regions, owner, carving, cache, held, toLibc, overflowed>>
    BY <1>1 DEF Unmap, EndCall, Places, StandsAt
  <1>3. /\ b \in Blocks /\ b = <<b[1], 1>> /\ kind[b[1]] \notin SizeClasses
        /\ \A x \in Blocks : Present(x) /\ x[1] = b[1] => x = b
        /\ \A v \in Users : v # u => given[v] # b
        /\ b \notin DOMAIN held
        /\ \A v \in Users, c \in SizeClasses : ~Cached(v, c, b)
    BY <1>1, <1>2, AloneInRegion
  <1>4. PICK r : r = b[1]
    OBVIOUS
  <1>5. r \in Spaces /\ b = <<r, 1>>
    BY <1>3, <1>4 DEF Blocks
  <1>6. /\ kind' \in [Spaces -> Kinds]
        /\ \A s \in Spaces : kind'[s] = IF s = r THEN "none" ELSE kind[s]
        /\ doing' \in [Users -> Stages] /\ doing'[u] = "idle"
        /\ given' \in [Users -> Blocks \union ForeignBlocks \union {<<>>}] /\ given'[u] = <<>>
        /\ \A v \in Users : v # u => doing'[v] = doing[v] /\ given'[v] = given[v]
    BY <1>2, <1>4, <1>5 DEF Places, MallocTyped, Stages, Kinds
  <1>7. \A v \in Users, c \in SizeClasses : \A x : Cached(v, c, x)' <=> Cached(v, c, x)
    BY <1>2 DEF Cached
  <1>8. \A x \in Blocks : Present(x)' => Present(x) /\ x # b
    BY <1>2, <1>3, <1>6, <1>7, NoEmptyBlock DEF Present
  <1>9. \A x \in Blocks : Present(x) /\ x # b => x[1] # r /\ x[1] \in Spaces /\ kind'[x[1]] = kind[x[1]]
    BY <1>3, <1>4, <1>6 DEF Blocks
  <1>10. MallocTyped'
    BY <1>2, <1>6 DEF Places, MallocTyped
  <1>11. Apart'
    <2>1. ASSUME NEW v \in Users, NEW c \in SizeClasses, NEW x \in Blocks, Cached(v, c, x)'
          PROVE  KindOf(x)' = c /\ x \notin DOMAIN held' /\ \A w \in Users : given'[w] # x
      <3>1. Cached(v, c, x)
        BY <1>7, <2>1
      <3>2. /\ KindOf(x) = c /\ x \notin DOMAIN held /\ \A w \in Users : given[w] # x
            /\ Present(x) /\ x # b
        BY <1>3, <3>1 DEF Places, Apart, Present
      <3>3. KindOf(x)' = KindOf(x)
        BY <1>9, <3>2 DEF KindOf, Owned
      <3> QED
        BY <1>2, <1>6, <3>2, <3>3, NoEmptyBlock
    <2>2. \A v \in Users : given'[v] # <<>> =>
            /\ given'[v] \notin DOMAIN held'
            /\ \A w \in Users : w # v => given'[w] # given'[v]
      BY <1>2, <1>6 DEF Places, Apart
    <2> QED
      BY <1>2, <1>7, <2>1, <2>2 DEF Places, Apart
  <1>12. InUse'
    <2> SUFFICES ASSUME NEW x \in Blocks, Present(x)' PROVE Sound(x)'
      BY DEF InUse
    <2> QED
      BY <1>8, <1>9 DEF Places, InUse, Sound
  <1>13. ASSUME NEW c \in SizeClasses PROVE CarvedSo(c)'
    <2>1. CarvedSo(c)
      BY DEF Places
    <2>2. carving[c].base # -1 => carving[c].base \in Spaces \ {r}
      <3>1. carving[c].base \in Spaces \union {-1}
        BY DEF Places, MallocTyped, CarvingType
      <3> QED
        BY <1>3, <1>4, <2>1, <3>1 DEF CarvedSo
    <2> QED
      BY <1>2, <1>6, <1>8, <2>1, <2>2 DEF CarvedSo
  <1>14. ASSUME NEW v \in Users PROVE StandsAt(v)'
    <2>1. StandsAt(v)
      BY DEF Places
    <2>2. CASE v = u
      BY <1>6, <2>2 DEF StandsAt
    <2>3. CASE v # u
      <3>1. Owned(given[v]) /\ given[v] # <<>> => KindOf(given[v])' = KindOf(given[v])
        <4>1. PICK y : y = given[v]
          OBVIOUS
        <4>2. Owned(y) /\ y # <<>> => y \in Blocks /\ Present(y) /\ y # b
          BY <1>3, <2>3, <4>1 DEF Owned, Present, Places, MallocTyped
        <4>3. Owned(y) /\ y # <<>> => KindOf(y)' = KindOf(y)
          BY <1>9, <4>2 DEF KindOf, Owned
        <4> QED
          BY <1>6, <2>3, <4>1, <4>3
      <3>2. ~Owned(given[v]) => KindOf(given[v])' = KindOf(given[v])
        BY <1>6, <2>3 DEF KindOf, Owned
      <3> QED
        BY <1>6, <2>1, <2>3, <3>1, <3>2 DEF StandsAt, Owned
    <2> QED
      BY <2>2, <2>3
  <1>15. Tabled'
    <2>1. \A s : s # r /\ LeavesNow(s) => LeavesNow(s)'
      <3> SUFFICES ASSUME NEW s, s # r, NEW v \in Users, doing[v] = "unmap", given[v] = <<s, 1>>
                   PROVE  LeavesNow(s)'
        BY DEF LeavesNow
      <3>1. given[v][1] = s /\ given[u][1] = r
        BY <1>1, <1>4
      <3>2. v # u
        BY <3>1
      <3> QED
        BY <1>6, <3>2 DEF LeavesNow
    <2> QED
      BY <1>2, <1>6, <2>1 DEF Places, Tabled
  <1> QED
    BY <1>10, <1>11, <1>12, <1>13, <1>14, <1>15 DEF Places

LEMMA UserEndsPlaces ==
  ASSUME Places, NEW u \in Users, UserEnds(u)
  PROVE  Places'
  <1>1. /\ UNCHANGED <<kind, regions, carving, held, doing, given, toLibc, overflowed>>
        /\ cache' = [cache EXCEPT ![u] = [c \in SizeClasses |-> <<>>]]
        /\ owner' = [r \in Spaces |-> IF owner[r] = u THEN Nobody ELSE owner[r]]
    BY DEF UserEnds
  <1>2. /\ cache' \in [Users -> [SizeClasses -> Seq(Blocks)]]
        /\ \A v \in Users, c \in SizeClasses : cache'[v][c] = IF v = u THEN <<>> ELSE cache[v][c]
        /\ owner' \in [Spaces -> Users \union {Nobody}]
    BY <1>1 DEF Places, MallocTyped
  <1>3. \A v \in Users, c \in SizeClasses : \A x : Cached(v, c, x)' => Cached(v, c, x)
    BY <1>2, EmptyCache DEF Cached
  <1>4. \A x \in Blocks : Present(x)' => Present(x)
    BY <1>1, <1>3 DEF Present
  <1>5. \A x : KindOf(x)' = KindOf(x)
    BY <1>1 DEF KindOf, Owned
  <1>6. MallocTyped'
    BY <1>1, <1>2 DEF Places, MallocTyped
  <1>7. Apart'
    <2>1. \A v \in Users, c \in SizeClasses : NoTwice(cache'[v][c])
      BY <1>2, EmptyCache DEF Places, Apart
    <2>2. \A v, w \in Users, c, d \in SizeClasses : \A x \in Blocks :
            Cached(v, c, x)' /\ Cached(w, d, x)' => v = w /\ c = d
      BY <1>3 DEF Places, Apart
    <2>3. \A v \in Users, c \in SizeClasses : \A x \in Blocks : Cached(v, c, x)' =>
            KindOf(x)' = c /\ x \notin DOMAIN held' /\ \A w \in Users : given'[w] # x
      BY <1>1, <1>3, <1>5 DEF Places, Apart
    <2> QED
      BY <1>1, <2>1, <2>2, <2>3 DEF Places, Apart
  <1>8. \A v \in Users : StandsAt(v)'
    BY <1>1, <1>5 DEF Places, StandsAt, Owned
  <1>9. Tabled'
    BY <1>1 DEF Places, Tabled, LeavesNow
  <1> QED
    BY <1>1, <1>4, <1>6, <1>7, <1>8, <1>9, NothingNew DEF Places

LEMMA PlacesKept ==
  ASSUME Places, UNCHANGED allocVars
  PROVE  Places'
  <1>1. UNCHANGED <<kind, regions, owner, carving, cache, held, doing, given, toLibc, overflowed>>
    BY DEF allocVars
  <1>2. /\ \A x : KindOf(x)' = KindOf(x) /\ (Sound(x)' <=> Sound(x))
        /\ \A v \in Users, c \in SizeClasses : \A x : Cached(v, c, x)' <=> Cached(v, c, x)
    BY <1>1 DEF KindOf, Owned, Cached, Sound
  <1>3. \A x : Present(x)' <=> Present(x)
    BY <1>1, <1>2 DEF Present
  <1>4. /\ MallocTyped'
        /\ Apart'
        /\ Tabled'
    <2>1. MallocTyped'
      BY <1>1 DEF Places, MallocTyped
    <2>2. Apart'
      BY <1>1, <1>2 DEF Places, Apart
    <2>3. Tabled'
      BY <1>1 DEF Places, Tabled, LeavesNow
    <2> QED
      BY <2>1, <2>2, <2>3
  <1>5. \A v \in Users : StandsAt(v)'
    BY <1>1, <1>2 DEF Places, StandsAt, Owned
  <1> QED
    BY <1>1, <1>3, <1>4, <1>5, NothingNew DEF Places

LEMMA MallocStep ==
  ASSUME MallocInv, AllocNext \/ UNCHANGED allocVars
  PROVE  MallocInv'
  <1>1. Places'
    BY PlacesKept, MallocPlaces, ReallocPlaces, FreePlaces, LookPlaces, UnmapPlaces,
       UserEndsPlaces DEF MallocInv, AllocNext
  <1>2. ContentsKept'
    <2>1. ASSUME NEW u \in Users, Malloc(u) \/ MemAlign(u) PROVE ContentsKept'
      <3>1. PICK b \in Blocks : held' = HoldAlso(b, TRUE) /\ blind' = blind \ {b}
        BY <2>1 DEF Malloc, MemAlign
      <3> QED
        BY <3>1 DEF MallocInv, ContentsKept, HoldAlso
    <2>2. ASSUME NEW u \in Users, Free(u) PROVE ContentsKept'
      BY <2>2 DEF Free, Without, MallocInv, ContentsKept
    <2>3. ASSUME NEW u \in Users, Realloc(u) PROVE ContentsKept'
      <3>1. PICK p \in DOMAIN held, q \in Blocks :
              /\ held' = [x \in (DOMAIN held \ {p}) \union {q} |->
                            IF x = q THEN Usable(u, p) /\ held[p] ELSE held[x]]
              /\ blind' = IF p \in blind \/ KindOf(p) = "aligned" \/ ~Listed(p)
                          THEN blind \union {q} ELSE blind \ {q}
        BY <2>3 DEF Realloc
      <3>2. q \notin blind' => Usable(u, p) /\ held[p]
        BY <3>1 DEF Usable, Listed, MallocInv, ContentsKept
      <3> QED
        BY <3>1, <3>2 DEF MallocInv, ContentsKept
    <2>4. ASSUME NEW u \in Users, Look(u) \/ Unmap(u) \/ GiveOld(u) \/ UserEnds(u)
          PROVE  ContentsKept'
      <3>1. held' = held /\ blind' = blind
        BY <2>4 DEF Look, Unmap, GiveOld, UserEnds
      <3> QED
        BY <3>1 DEF MallocInv, ContentsKept
    <2>5. CASE UNCHANGED allocVars
      BY <2>5 DEF allocVars, MallocInv, ContentsKept
    <2> QED
      BY <2>1, <2>2, <2>3, <2>4, <2>5 DEF AllocNext
  <1> QED
    BY <1>1, <1>2 DEF MallocInv

LEMMA MallocInit == AllocStart => MallocInv
  <1> USE PhaseAllocAssumption
  <1> SUFFICES ASSUME AllocStart PROVE MallocInv
    OBVIOUS
  <1>1. /\ kind = [r \in Spaces |-> "none"] /\ regions = {} /\ owner = [r \in Spaces |-> Nobody]
        /\ carving = [c \in SizeClasses |-> Fresh]
        /\ cache = [u \in Users |-> [c \in SizeClasses |-> <<>>]]
        /\ held = [b \in ForeignBlocks |-> TRUE]
        /\ doing = [u \in Users |-> "idle"] /\ given = [u \in Users |-> <<>>]
        /\ toLibc = {} /\ overflowed = FALSE /\ blind = {}
    BY DEF AllocStart
  <1>2. \A u \in Users, c \in SizeClasses : NoTwice(cache[u][c]) /\ \A b : ~Cached(u, c, b)
    BY <1>1, EmptyCache DEF Cached
  <1>3. \A b \in Blocks : ~Present(b)
    BY <1>1, <1>2, NoEmptyBlock DEF Present, Blocks
  <1>4. MallocTyped
    <2>1. IsFiniteSet(regions)
      BY <1>1, FS_EmptySet
    <2>2. Fresh \in CarvingType
      BY DEF Fresh, CarvingType
    <2>3. /\ kind \in [Spaces -> Kinds] /\ regions \subseteq Spaces
          /\ owner \in [Spaces -> Users \union {Nobody}] /\ overflowed \in BOOLEAN
      BY <1>1 DEF Kinds
    <2>4. carving \in [SizeClasses -> CarvingType]
      BY <1>1, <2>2
    <2>5. cache \in [Users -> [SizeClasses -> Seq(Blocks)]]
      BY <1>1
    <2>6. /\ held \in [DOMAIN held -> BOOLEAN] /\ DOMAIN held \subseteq Blocks \union ForeignBlocks
          /\ doing \in [Users -> Stages]
          /\ given \in [Users -> Blocks \union ForeignBlocks \union {<<>>}]
      BY <1>1 DEF Stages
    <2> QED
      BY <2>1, <2>3, <2>4, <2>5, <2>6 DEF MallocTyped
  <1>5. Apart
    BY <1>1, <1>2 DEF Apart
  <1>6. InUse /\ \A c \in SizeClasses : CarvedSo(c)
    BY <1>1, <1>3 DEF InUse, CarvedSo, Fresh
  <1>7. (\A u \in Users : StandsAt(u)) /\ Tabled /\ ContentsKept
    BY <1>1 DEF StandsAt, Tabled, ContentsKept
  <1> QED
    BY <1>4, <1>5, <1>6, <1>7 DEF MallocInv, Places

LEMMA MallocImplies == MallocInv => MallocSafe
  <1> SUFFICES ASSUME MallocInv PROVE MallocSafe
    OBVIOUS
  <1>1. \A u \in Users, c \in SizeClasses : \A i \in DOMAIN cache[u][c] :
          cache[u][c][i] \in Blocks /\ Cached(u, c, cache[u][c][i])
    <2> TAKE u \in Users, c \in SizeClasses
    <2>1. cache[u][c] \in Seq(Blocks)
      BY DEF MallocInv, Places, MallocTyped
    <2> QED
      BY <2>1 DEF Cached, PlaceIn
  <1>2. ASSUME NEW u \in Users, NEW v \in Users, NEW c \in SizeClasses,
               NEW i \in DOMAIN cache[u][c], NEW j \in DOMAIN cache[v][c],
               cache[u][c][i] = cache[v][c][j]
        PROVE  u = v /\ i = j
    <2>1. u = v
      BY <1>1, <1>2 DEF MallocInv, Places, Apart
    <2> QED
      BY <1>2, <2>1 DEF MallocInv, Places, Apart, NoTwice
  <1>3. ASSUME NEW u \in Users, NEW c \in SizeClasses, NEW i \in DOMAIN cache[u][c]
        PROVE  /\ KindOf(cache[u][c][i]) = c /\ cache[u][c][i] \notin DOMAIN held
               /\ \A v \in Users : given[v] # cache[u][c][i]
    BY <1>1 DEF MallocInv, Places, Apart
  <1>4. BlockOnce
    BY <1>2, <1>3 DEF BlockOnce, MallocInv, Places, Apart
  <1> QED
    BY <1>4 DEF MallocSafe, OwnNotToLibc, MallocInv, Places, Tabled

-----------------------------------------------------------------------------
(* Whatever threads allocate, pass on, reallocate and free, and end, a block  *)
(* of the preloaded malloc is in one place, none goes to the C library until *)
(* the table of regions has overflowed, and what a caller put into a block    *)
(* stays in it (phase_alloc.c 186-414): for any threads, classes and regions. *)
THEOREM MallocIsSafe == NativeSpec => []MallocSafe
  <1>1. NativeInit => MallocInv
    BY MallocInit DEF NativeInit
  <1>2. MallocInv /\ [NativeNext]_nativeVars => MallocInv'
    BY MallocStep DEF NativeNext, FuseRuns, FramesRun, PoolRuns, MallocRuns, nativeVars
  <1> QED
    BY <1>1, <1>2, MallocImplies, PTL DEF NativeSpec

-----------------------------------------------------------------------------
(* The frames.                                                                *)

LEMMA WholeGrains ==
  /\ \A k \in Nat : (k * Grain) % Grain = 0
  /\ \A a \in Nat : a % Grain = 0 => a = (a \div Grain) * Grain /\ a \div Grain \in Nat
  BY FramesAssumption

LEMMA GrainsAdd ==
  ASSUME NEW a \in Nat, NEW b \in Nat, a % Grain = 0, b % Grain = 0
  PROVE  (a + b) % Grain = 0
  <1> USE FramesAssumption
  <1>1. PICK j \in Nat, k \in Nat : a = j * Grain /\ b = k * Grain
    BY WholeGrains
  <1>2. a + b = (j + k) * Grain /\ j + k \in Nat
    BY <1>1
  <1> QED
    BY <1>2, WholeGrains

LEMMA WordIs ==
  ASSUME NEW n \in Nat
  PROVE  Word(n) \in Nat /\ (n < SizeRange => Word(n) = n)
  <1>1. SizeRange \in Nat \ {0}
    BY FramesAssumption
  <1> QED
    BY <1>1 DEF Word

(* An object takes whole grains, and at least its bytes unless they overflow. *)
LEMMA NeededHolds ==
  ASSUME NEW n \in Nat
  PROVE  /\ Needed(n) \in Nat /\ Needed(n) % Grain = 0
         /\ n + Grain - 1 < SizeRange => Needed(n) >= n
  <1> USE FramesAssumption
  <1>1. PICK m \in Nat : m = Word(n + Grain - 1) /\ (n + Grain - 1 < SizeRange => m = n + Grain - 1)
    <2>1. n + Grain - 1 \in Nat
      OBVIOUS
    <2> QED
      BY <2>1, WordIs
  <1>2. PICK q \in Nat : q = m \div Grain
    OBVIOUS
  <1>3. m < q * Grain + Grain /\ q * Grain \in Nat
    BY <1>2
  <1>4. CASE q = 0
    <2>1. Needed(n) = Grain /\ Grain = 1 * Grain
      BY <1>1, <1>2, <1>4 DEF Needed
    <2>2. Needed(n) % Grain = 0
      BY <2>1, WholeGrains
    <2>3. m < Grain
      BY <1>3, <1>4
    <2>4. n + Grain - 1 < SizeRange => n <= Grain
      BY <1>1, <2>3
    <2> QED
      BY <2>1, <2>2, <2>4
  <1>5. CASE q # 0
    <2>1. Needed(n) = q * Grain
      BY <1>1, <1>2, <1>5 DEF Needed
    <2>2. Needed(n) % Grain = 0
      BY <2>1, WholeGrains
    <2>3. n + Grain - 1 < SizeRange => n <= q * Grain
      BY <1>1, <1>3
    <2> QED
      BY <1>3, <2>1, <2>2, <2>3
  <1> QED
    BY <1>4, <1>5

ObjectType == [off : Nat, bytes : Nat]
MarkType   == [mark : Nat, held : Nat]

FramesTyped ==
  /\ nest \in Nat /\ depth \in 0 .. nest
  /\ fb \in BOOLEAN /\ used \in Nat /\ cap \in Nat /\ unmapped \in BOOLEAN
  /\ wrapped \in BOOLEAN
  /\ frameObjects \in Seq(ObjectType) /\ frameMarks \in Seq(MarkType)

End(k) == IF k < Len(frameObjects) THEN frameObjects[k + 1].off ELSE used

(* Object k is aligned and ends before the next one, or the mark, begins. *)
Lies(k) ==
  /\ frameObjects[k].off % Grain = 0
  /\ frameObjects[k].off + frameObjects[k].bytes <= End(k)
  /\ End(k) <= FrameCap

(* A mark keeps what the marks before it keep. *)
Keeps(k) ==
  /\ frameMarks[k].held <= Len(frameObjects)
  /\ \A j \in 1 .. k : frameMarks[j].held <= frameMarks[k].held

(* It is on a grain, behind the objects it keeps. *)
Holds(k) ==
  /\ frameMarks[k].mark % Grain = 0 /\ frameMarks[k].mark <= FrameCap
  /\ frameMarks[k].held > 0 =>
       frameObjects[frameMarks[k].held].off + frameObjects[frameMarks[k].held].bytes
         <= frameMarks[k].mark

(* A frame is open in the allocator as often as its caller has it open,       *)
(* unless one of them could not be mapped, or a size overflowed.             *)
FrameInv ==
  /\ FramesTyped
  /\ nest = 0 => frameObjects = <<>> /\ frameMarks = <<>>
  /\ \A k \in DOMAIN frameMarks : Keeps(k)
  /\ ~unmapped /\ ~wrapped =>
       /\ depth = nest
       /\ nest > 0 => fb /\ cap = FrameCap /\ used <= FrameCap /\ used % Grain = 0
       /\ \A k \in DOMAIN frameObjects : Lies(k)
       /\ \A k \in DOMAIN frameMarks : Holds(k)

LEMMA FrameAllocKeeps ==
  ASSUME FrameInv, FrameAlloc
  PROVE  FrameInv'
  <1> USE FramesAssumption
  <1>1. PICK n \in FrameSizes :
          IF Word(used + Needed(n)) <= cap
          THEN /\ frameObjects' = Append(frameObjects, [off |-> used, bytes |-> n])
               /\ used' = Word(used + Needed(n))
               /\ wrapped' = (wrapped \/ Wraps(n))
          ELSE UNCHANGED <<frameObjects, used, wrapped>>
    BY DEF FrameAlloc
  <1>2. nest > 0 /\ nest \in Nat /\ UNCHANGED <<depth, fb, cap, frameMarks, nest, unmapped>>
    BY DEF FrameAlloc, FrameInv, FramesTyped
  <1>3. /\ n \in Nat /\ Needed(n) \in Nat /\ Needed(n) % Grain = 0
        /\ n + Grain - 1 < SizeRange => Needed(n) >= n
    BY NeededHolds
  <1>4. PICK len : len = Len(frameObjects)
    OBVIOUS
  <1>5. /\ frameObjects \in Seq(ObjectType) /\ used \in Nat /\ len \in Nat /\ DOMAIN frameObjects = 1 .. len
        /\ \A k \in 1 .. len : frameObjects[k] \in ObjectType
    BY <1>4 DEF FrameInv, FramesTyped
  <1>6. CASE Word(used + Needed(n)) <= cap
    <2>1. [off |-> used, bytes |-> n] \in ObjectType
      BY <1>3, <1>5 DEF ObjectType
    <2>2. /\ frameObjects' \in Seq(ObjectType) /\ Len(frameObjects') = len + 1
          /\ DOMAIN frameObjects' = 1 .. len + 1
          /\ frameObjects'[len + 1] = [off |-> used, bytes |-> n]
          /\ \A k \in 1 .. len : frameObjects'[k] = frameObjects[k]
          /\ used' = Word(used + Needed(n)) /\ used' \in Nat
          /\ wrapped' = (wrapped \/ Wraps(n))
      <3>1. PICK o \in ObjectType : o = [off |-> used, bytes |-> n]
        BY <2>1
      <3>2. /\ frameObjects' = Append(frameObjects, o) /\ used' = Word(used + Needed(n))
            /\ wrapped' = (wrapped \/ Wraps(n))
        BY <1>1, <1>6, <3>1
      <3>3. used + Needed(n) \in Nat
        BY <1>3, <1>5
      <3>4. used' \in Nat
        BY <3>2, <3>3, WordIs
      <3> QED
        BY <1>4, <1>5, <3>1, <3>2, <3>4
    <2>3. FramesTyped'
      <3>1. wrapped' \in BOOLEAN
        BY <2>2 DEF FrameInv, FramesTyped
      <3> QED
        BY <1>2, <1>3, <1>5, <2>2, <3>1 DEF FrameInv, FramesTyped
    <2>4. ASSUME ~unmapped, ~wrapped'
          PROVE  /\ depth' = nest' /\ fb' /\ cap' = FrameCap /\ used' <= FrameCap /\ used' % Grain = 0
                 /\ \A k \in DOMAIN frameObjects' : Lies(k)'
                 /\ \A k \in DOMAIN frameMarks' : Holds(k)'
      <3>0. ~wrapped /\ ~Wraps(n)
        BY <2>2, <2>4
      <3>1. depth' = nest' /\ fb' /\ cap' = FrameCap /\ cap = FrameCap /\ used % Grain = 0
        BY <1>2, <2>4, <3>0 DEF FrameInv
      <3>5. used + Needed(n) \in Nat /\ used + Needed(n) < SizeRange /\ n + Grain - 1 < SizeRange
        BY <1>3, <1>5, <3>0 DEF Wraps
      <3>6. used' = used + Needed(n) /\ Needed(n) >= n
        BY <1>3, <2>2, <3>5, WordIs
      <3>2. used' <= FrameCap /\ used' % Grain = 0 /\ used <= FrameCap
        BY <1>2, <1>3, <1>5, <1>6, <2>2, <3>1, <3>6, GrainsAdd
      <3>3. ASSUME NEW k \in 1 .. len + 1 PROVE Lies(k)'
        <4>1. CASE k = len + 1
          <5>1. End(k)' = used' /\ frameObjects'[k].off = used /\ frameObjects'[k].bytes = n
            BY <1>5, <2>2, <4>1 DEF End
          <5> QED
            BY <1>3, <1>5, <2>2, <3>1, <3>2, <3>6, <5>1 DEF Lies
        <4>2. CASE k \in 1 .. len
          <5>1. Lies(k) /\ frameObjects'[k] = frameObjects[k]
            BY <1>5, <2>2, <2>4, <3>0, <4>2 DEF FrameInv
          <5>2. End(k)' = End(k)
            <6>1. CASE k = len
              BY <1>4, <1>5, <2>2, <6>1 DEF End
            <6>2. CASE k < len
              <7>1. k + 1 \in 1 .. len
                BY <1>5, <6>2
              <7> QED
                BY <1>4, <1>5, <2>2, <6>2, <7>1 DEF End
            <6> QED
              BY <1>5, <4>2, <6>1, <6>2
          <5> QED
            BY <5>1, <5>2 DEF Lies
        <4> QED
          BY <1>5, <4>1, <4>2
      <3>4. ASSUME NEW k \in DOMAIN frameMarks PROVE Holds(k)'
        <4>0. Holds(k) /\ frameMarks[k] \in MarkType
          BY <2>4, <3>0 DEF FrameInv, FramesTyped
        <4>1. Holds(k) /\ frameMarks[k].held \in Nat
          BY <4>0 DEF MarkType
        <4>2. frameMarks[k].held > 0 =>
                frameObjects'[frameMarks[k].held] = frameObjects[frameMarks[k].held]
          BY <1>4, <1>5, <2>2, <4>1 DEF FrameInv, Keeps
        <4> QED
          BY <1>2, <4>1, <4>2 DEF Holds
      <3> QED
        BY <1>2, <2>2, <3>1, <3>2, <3>3, <3>4
    <2>5. ASSUME NEW k \in DOMAIN frameMarks PROVE Keeps(k)'
      <3>1. Keeps(k) /\ frameMarks[k] \in MarkType
        BY DEF FrameInv, FramesTyped
      <3> QED
        BY <1>2, <1>4, <1>5, <2>2, <3>1 DEF Keeps, MarkType
    <2> QED
      BY <1>2, <2>3, <2>4, <2>5 DEF FrameInv
  <1>7. CASE ~(Word(used + Needed(n)) <= cap)
    <2>1. frameObjects' = frameObjects /\ used' = used /\ wrapped' = wrapped
      BY <1>1, <1>7
    <2>2. /\ \A k : Lies(k)' <=> Lies(k)
          /\ \A k : Holds(k)' <=> Holds(k)
          /\ \A k : Keeps(k)' <=> Keeps(k)
      BY <1>2, <2>1 DEF Lies, End, Holds, Keeps
    <2> QED
      BY <1>2, <2>1, <2>2 DEF FrameInv, FramesTyped
  <1> QED
    BY <1>6, <1>7

LEMMA FrameMarkKeeps ==
  ASSUME FrameInv, FrameMark
  PROVE  FrameInv'
  <1>1. /\ nest > 0 /\ nest \in Nat
        /\ frameMarks' = Append(frameMarks, [mark |-> used, held |-> Len(frameObjects)])
        /\ UNCHANGED <<depth, fb, used, cap, frameObjects, nest, unmapped, wrapped>>
    BY DEF FrameMark, FrameInv, FramesTyped
  <1>2. PICK len \in Nat, n \in Nat : len = Len(frameObjects) /\ n = Len(frameMarks)
    BY DEF FrameInv, FramesTyped
  <1>3. /\ DOMAIN frameObjects = 1 .. len /\ \A k \in 1 .. len : frameObjects[k] \in ObjectType
        /\ DOMAIN frameMarks = 1 .. n /\ \A k \in 1 .. n : frameMarks[k] \in MarkType
        /\ used \in Nat
    BY <1>2 DEF FrameInv, FramesTyped
  <1>4. PICK m \in MarkType : m = [mark |-> used, held |-> len]
    BY <1>3 DEF MarkType
  <1>5. /\ frameMarks' \in Seq(MarkType) /\ DOMAIN frameMarks' = 1 .. n + 1
        /\ frameMarks'[n + 1] = m /\ \A k \in 1 .. n : frameMarks'[k] = frameMarks[k]
    BY <1>1, <1>2, <1>4 DEF FrameInv, FramesTyped
  <1>6. FramesTyped'
    BY <1>1, <1>5 DEF FrameInv, FramesTyped
  <1>7. m.mark = used /\ m.held = len
    BY <1>4
  <1>8. ASSUME NEW k \in 1 .. n + 1 PROVE Keeps(k)'
    <2>1. \A j \in 1 .. n : Keeps(j)
      BY <1>3 DEF FrameInv
    <2>2. \A j \in 1 .. n + 1 : frameMarks'[j].held <= len
      <3> TAKE j \in 1 .. n + 1
      <3>1. CASE j = n + 1
        BY <1>5, <1>7, <3>1
      <3>2. CASE j \in 1 .. n
        BY <1>2, <1>5, <2>1, <3>2 DEF Keeps
      <3> QED
        BY <3>1, <3>2
    <2>3. CASE k = n + 1
      BY <1>1, <1>2, <1>5, <1>7, <2>2, <2>3 DEF Keeps
    <2>4. CASE k \in 1 .. n
      <3>1. Keeps(k) /\ \A j \in 1 .. k : frameMarks'[j] = frameMarks[j]
        BY <1>5, <2>1, <2>4
      <3>2. frameMarks'[k] = frameMarks[k]
        BY <1>5, <2>4
      <3> QED
        BY <1>1, <3>1, <3>2 DEF Keeps
    <2> QED
      BY <2>3, <2>4
  <1>9. ASSUME ~unmapped, ~wrapped, NEW k \in 1 .. n + 1 PROVE Holds(k)'
    <2>1. CASE k = n + 1
      <3>1. used % Grain = 0 /\ used <= FrameCap
        BY <1>1, <1>9 DEF FrameInv
      <3>2. len > 0 => Lies(len) /\ End(len) = used
        BY <1>2, <1>3, <1>9 DEF FrameInv, End
      <3>3. len > 0 => frameObjects[len].off + frameObjects[len].bytes <= used
        BY <3>2 DEF Lies
      <3> QED
        BY <1>1, <1>5, <1>7, <2>1, <3>1, <3>3 DEF Holds
    <2>2. CASE k \in 1 .. n
      <3>1. Holds(k) /\ frameMarks'[k] = frameMarks[k]
        BY <1>3, <1>5, <1>9, <2>2 DEF FrameInv
      <3> QED
        BY <1>1, <3>1 DEF Holds
    <2> QED
      BY <2>1, <2>2
  <1>10. \A k : Lies(k)' <=> Lies(k)
    BY <1>1 DEF Lies, End
  <1> QED
    BY <1>1, <1>5, <1>6, <1>8, <1>9, <1>10 DEF FrameInv

LEMMA FrameRollbackKeeps ==
  ASSUME FrameInv, FrameRollback
  PROVE  FrameInv'
  <1>1. PICK i \in DOMAIN frameMarks :
          /\ used' = frameMarks[i].mark
          /\ frameObjects' = SubSeq(frameObjects, 1, frameMarks[i].held)
          /\ frameMarks' = SubSeq(frameMarks, 1, i)
    BY DEF FrameRollback
  <1>2. nest > 0 /\ nest \in Nat /\ UNCHANGED <<depth, fb, cap, nest, unmapped, wrapped>>
    BY DEF FrameRollback, FrameInv, FramesTyped
  <1>3. PICK len \in Nat, n \in Nat : len = Len(frameObjects) /\ n = Len(frameMarks)
    BY DEF FrameInv, FramesTyped
  <1>4. /\ DOMAIN frameObjects = 1 .. len /\ \A k \in 1 .. len : frameObjects[k] \in ObjectType
        /\ DOMAIN frameMarks = 1 .. n /\ \A k \in 1 .. n : frameMarks[k] \in MarkType
    BY <1>3 DEF FrameInv, FramesTyped
  <1>5. PICK h \in Nat : h = frameMarks[i].held
    BY <1>4 DEF MarkType
  <1>6. /\ i \in 1 .. n /\ frameMarks' \in Seq(MarkType) /\ DOMAIN frameMarks' = 1 .. i
        /\ \A k \in 1 .. i : frameMarks'[k] = frameMarks[k]
    BY <1>1, <1>3, <1>4 DEF FrameInv, FramesTyped
  <1>7. used' \in Nat
    BY <1>1, <1>4, <1>6 DEF MarkType
  <1>8. h <= len /\ \A k \in 1 .. i : frameMarks[k].held <= h /\ frameMarks[k].held \in Nat
    <2>1. Keeps(i)
      BY <1>3, <1>6 DEF FrameInv
    <2>2. \A k \in 1 .. i : frameMarks[k].held \in Nat
      BY <1>4, <1>6 DEF MarkType
    <2> QED
      BY <1>3, <1>5, <2>1, <2>2 DEF Keeps
  <1>9. /\ frameObjects' \in Seq(ObjectType) /\ Len(frameObjects') = h
        /\ DOMAIN frameObjects' = 1 .. h
        /\ \A k \in 1 .. h : frameObjects'[k] = frameObjects[k]
    BY <1>1, <1>3, <1>5, <1>8, SMTT(30) DEF FrameInv, FramesTyped
  <1>10. FramesTyped'
    BY <1>2, <1>6, <1>7, <1>9 DEF FrameInv, FramesTyped
  <1>11. ASSUME NEW k \in 1 .. i PROVE Keeps(k)'
    <2>1. Keeps(k) /\ \A j \in 1 .. k : frameMarks'[j] = frameMarks[j]
      BY <1>4, <1>6 DEF FrameInv
    <2>2. frameMarks'[k] = frameMarks[k]
      BY <1>6
    <2> QED
      BY <1>8, <1>9, <2>1, <2>2 DEF Keeps
  <1>12. ASSUME ~unmapped, ~wrapped
         PROVE  /\ used' <= FrameCap /\ used' % Grain = 0
                /\ \A k \in 1 .. h : Lies(k)'
                /\ \A k \in 1 .. i : Holds(k)'
    <2>1. /\ \A k \in 1 .. i : Holds(k)
          /\ \A k \in 1 .. h : Lies(k)
      <3>1. /\ \A k \in DOMAIN frameObjects : Lies(k)
            /\ \A k \in DOMAIN frameMarks : Holds(k)
        BY <1>12 DEF FrameInv
      <3>2. (\A k \in 1 .. i : k \in 1 .. n) /\ \A k \in 1 .. h : k \in 1 .. len
        BY <1>6, <1>8
      <3> QED
        BY <1>4, <3>1, <3>2
    <2>2. used' <= FrameCap /\ used' % Grain = 0
      BY <1>1, <1>6, <2>1 DEF Holds
    <2>3. ASSUME NEW k \in 1 .. h PROVE Lies(k)'
      <3>1. Lies(k) /\ frameObjects'[k] = frameObjects[k]
        BY <1>9, <2>1
      <3>2. CASE k = h
        <4>1. End(k)' = used'
          BY <1>9, <3>2 DEF End
        <4>2. frameObjects[k].off + frameObjects[k].bytes <= used'
          BY <1>1, <1>5, <1>6, <2>1, <3>2 DEF Holds
        <4>3. frameObjects[k].off % Grain = 0
          BY <3>1 DEF Lies
        <4> QED
          BY <2>2, <3>1, <4>1, <4>2, <4>3 DEF Lies
      <3>3. CASE k < h
        <4>1. k + 1 \in 1 .. h /\ k < len
          BY <1>8, <3>3
        <4>2. End(k)' = End(k)
          BY <1>3, <1>9, <3>3, <4>1 DEF End
        <4> QED
          BY <3>1, <4>2 DEF Lies
      <3> QED
        BY <3>2, <3>3
    <2>4. ASSUME NEW k \in 1 .. i PROVE Holds(k)'
      <3>1. Holds(k) /\ frameMarks'[k] = frameMarks[k]
        BY <1>6, <2>1
      <3>2. frameMarks[k].held > 0 =>
              frameObjects'[frameMarks[k].held] = frameObjects[frameMarks[k].held]
        BY <1>8, <1>9
      <3> QED
        BY <3>1, <3>2 DEF Holds
    <2> QED
      BY <2>2, <2>3, <2>4
  <1> QED
    BY <1>2, <1>6, <1>9, <1>10, <1>11, <1>12 DEF FrameInv

LEMMA FrameBeginKeeps ==
  ASSUME FrameInv, FrameBegin
  PROVE  FrameInv'
  <1> USE FramesAssumption
  <1>1. /\ nest' = nest + 1 /\ nest \in Nat /\ nest' > 0
        /\ UNCHANGED <<frameObjects, frameMarks, wrapped>>
    BY DEF FrameBegin, FrameInv, FramesTyped
  <1>2. CASE /\ depth = 0 /\ ~fb /\ cap' = FrameCap /\ unmapped' = TRUE
             /\ UNCHANGED <<depth, fb, used>>
    BY <1>1, <1>2 DEF FrameInv, FramesTyped, Keeps
  <1>3. CASE /\ depth = 0 /\ fb' = TRUE /\ cap' = FrameCap /\ used' = 0 /\ depth' = 1
             /\ UNCHANGED unmapped
    <2>1. FramesTyped'
      BY <1>1, <1>3 DEF FrameInv, FramesTyped
    <2>2. ~unmapped /\ ~wrapped => nest = 0 /\ frameObjects' = <<>> /\ frameMarks' = <<>>
      BY <1>1, <1>3 DEF FrameInv
    <2>3. 0 % Grain = 0 /\ 0 <= FrameCap
      <3>1. 0 * Grain = 0
        OBVIOUS
      <3> QED
        BY <3>1, WholeGrains
    <2>4. \A k \in DOMAIN frameMarks' : Keeps(k)'
      BY <1>1 DEF FrameInv, Keeps
    <2>5. \A k : k \notin DOMAIN <<>>
      OBVIOUS
    <2>6. ASSUME ~unmapped', ~wrapped'
          PROVE  /\ depth' = nest' /\ fb' /\ cap' = FrameCap /\ used' <= FrameCap
                 /\ used' % Grain = 0
                 /\ \A k \in DOMAIN frameObjects' : Lies(k)'
                 /\ \A k \in DOMAIN frameMarks' : Holds(k)'
      <3>1. nest = 0 /\ frameObjects' = <<>> /\ frameMarks' = <<>>
        BY <1>1, <1>3, <2>2, <2>6
      <3> QED
        BY <1>1, <1>3, <2>3, <2>5, <3>1
    <2> QED
      BY <1>1, <2>1, <2>4, <2>6 DEF FrameInv
  <1>4. CASE /\ depth > 0 /\ depth' = depth + 1
             /\ UNCHANGED <<fb, used, cap, unmapped>>
    <2>1. FramesTyped'
      BY <1>1, <1>4 DEF FrameInv, FramesTyped
    <2>2. /\ \A k : Lies(k)' <=> Lies(k)
          /\ \A k : Holds(k)' <=> Holds(k)
          /\ \A k : Keeps(k)' <=> Keeps(k)
      BY <1>1, <1>4 DEF Lies, End, Holds, Keeps
    <2>3. nest > 0
      BY <1>4 DEF FrameInv, FramesTyped
    <2> QED
      BY <1>1, <1>4, <2>1, <2>2, <2>3 DEF FrameInv
  <1> QED
    BY <1>2, <1>3, <1>4 DEF FrameBegin

LEMMA FrameEndKeeps ==
  ASSUME FrameInv, FrameEnd
  PROVE  FrameInv'
  <1>1. nest > 0 /\ nest' = nest - 1 /\ nest \in Nat /\ UNCHANGED <<fb, cap>>
    BY DEF FrameEnd, FrameInv, FramesTyped
  <1>2. /\ depth \in 0 .. nest /\ depth' \in 0 .. nest' /\ (depth = nest => depth' = nest')
        /\ used \in Nat /\ used' \in Nat /\ (depth = nest /\ nest' > 0 => used' = used)
    BY <1>1 DEF FrameEnd, UsedAfterEnd, FrameInv, FramesTyped
  <1>3. CASE nest' = 0
    <2>1. frameObjects' = <<>> /\ frameMarks' = <<>> /\ unmapped' = FALSE /\ wrapped' = FALSE
      BY <1>3 DEF FrameEnd
    <2>2. /\ frameObjects' \in Seq(ObjectType) /\ frameMarks' \in Seq(MarkType)
          /\ DOMAIN frameObjects' = {} /\ DOMAIN frameMarks' = {}
      BY <2>1
    <2>3. FramesTyped'
      <3>1. fb' \in BOOLEAN /\ unmapped' \in BOOLEAN /\ wrapped' \in BOOLEAN
        BY <1>1, <2>1 DEF FrameInv, FramesTyped
      <3>2. cap' \in Nat /\ nest' \in Nat /\ depth' \in 0 .. nest' /\ used' \in Nat
        BY <1>1, <1>2 DEF FrameInv, FramesTyped
      <3> QED
        BY <2>2, <3>1, <3>2 DEF FramesTyped
    <2>4. depth' = nest' /\ ~(nest' > 0)
      BY <1>2, <1>3
    <2> QED
      BY <2>1, <2>2, <2>3, <2>4 DEF FrameInv
  <1>4. CASE nest' # 0
    <2>1. UNCHANGED <<frameObjects, frameMarks, unmapped, wrapped>>
      BY <1>4 DEF FrameEnd
    <2>2. FramesTyped'
      BY <1>1, <1>2, <2>1 DEF FrameInv, FramesTyped
    <2>3. \A k \in DOMAIN frameMarks' : Keeps(k)'
      BY <2>1 DEF FrameInv, Keeps
    <2>4. ASSUME ~unmapped', ~wrapped'
          PROVE  /\ depth' = nest' /\ fb' /\ cap' = FrameCap /\ used' <= FrameCap
                 /\ used' % Grain = 0
                 /\ \A k \in DOMAIN frameObjects' : Lies(k)'
                 /\ \A k \in DOMAIN frameMarks' : Holds(k)'
      <3>1. depth = nest /\ fb /\ cap = FrameCap /\ used <= FrameCap /\ used % Grain = 0
        BY <1>1, <2>1, <2>4 DEF FrameInv
      <3>2. depth' = nest' /\ used' = used
        BY <1>1, <1>2, <1>4, <3>1
      <3> QED
        BY <1>1, <2>1, <2>4, <3>1, <3>2 DEF FrameInv, Lies, End, Holds
    <2> QED
      BY <1>4, <2>2, <2>3, <2>4 DEF FrameInv
  <1> QED
    BY <1>3, <1>4

LEMMA FrameStep ==
  ASSUME FrameInv, FramesNext \/ UNCHANGED frameVars
  PROVE  FrameInv'
  <1>1. CASE UNCHANGED frameVars
    BY <1>1 DEF frameVars, FrameInv, FramesTyped, Lies, End, Holds, Keeps
  <1> QED
    BY <1>1, FrameBeginKeeps, FrameEndKeeps, FrameMarkKeeps, FrameRollbackKeeps,
       FrameAllocKeeps DEF FramesNext

LEMMA FrameInit == FramesStart => FrameInv
  <1> SUFFICES ASSUME FramesStart PROVE FrameInv
    OBVIOUS
  <1>1. /\ frameObjects = <<>> /\ frameMarks = <<>> /\ unmapped = FALSE /\ wrapped = FALSE
        /\ fb = FALSE /\ cap = 0 /\ used = 0 /\ depth = 0 /\ nest = 0
    BY DEF FramesStart
  <1>2. /\ frameObjects \in Seq(ObjectType) /\ frameMarks \in Seq(MarkType)
        /\ DOMAIN frameObjects = {} /\ DOMAIN frameMarks = {}
    BY <1>1
  <1>3. FramesTyped
    <2>1. fb \in BOOLEAN /\ unmapped \in BOOLEAN /\ wrapped \in BOOLEAN
      BY <1>1
    <2>2. cap \in Nat /\ nest \in Nat /\ depth \in 0 .. nest /\ used \in Nat
      BY <1>1
    <2> QED
      BY <1>2, <2>1, <2>2 DEF FramesTyped
  <1> QED
    BY <1>1, <1>2, <1>3 DEF FrameInv

LEMMA FrameImplies == FrameInv => FrameObjectsHold
  <1> SUFFICES ASSUME FrameInv, ~unmapped, ~wrapped, NEW k \in DOMAIN frameObjects
               PROVE  /\ fb /\ frameObjects[k].off % Grain = 0
                      /\ frameObjects[k].off + frameObjects[k].bytes <= End(k)
                      /\ End(k) <= FrameCap
    BY DEF FrameObjectsHold, End
  <1>1. nest > 0
    <2>1. \A j : j \notin DOMAIN <<>>
      OBVIOUS
    <2> QED
      BY <2>1 DEF FrameInv, FramesTyped
  <1> QED
    BY <1>1 DEF FrameInv, Lies

-----------------------------------------------------------------------------
(* The pools.                                                                 *)

(* As many objects are handed out as are in use. *)
PoolInv ==
  /\ poolCap \in Nat
  /\ pool = "none" => handed = {}
  /\ pool = "open" =>
       /\ freeList \in [Slots -> Slots]
       /\ poolUsed \in 0 .. poolCap
       /\ handed \subseteq Slots /\ IsFiniteSet(handed) /\ Cardinality(handed) = poolUsed
       /\ PoolPartition

(* The free part of the array, between u and the capacity. *)
FreeFrom(u) == {freeList[i] : i \in u .. poolCap - 1}

LEMMA PoolKept ==
  ASSUME PoolInv, UNCHANGED <<pool, poolCap, freeList, poolUsed, handed>>
  PROVE  PoolInv'
  <1>1. PoolPartition => PoolPartition'
    BY DEF PoolPartition, Slots
  <1>2. Slots' = Slots
    BY DEF Slots
  <1>3. pool' = "open" =>
          /\ freeList' \in [Slots' -> Slots'] /\ poolUsed' \in 0 .. poolCap'
          /\ handed' \subseteq Slots' /\ IsFiniteSet(handed') /\ Cardinality(handed') = poolUsed'
    BY <1>2 DEF PoolInv
  <1>4. pool' = "open" => PoolPartition'
    BY <1>1 DEF PoolInv
  <1> QED
    BY <1>3, <1>4 DEF PoolInv

LEMMA PoolAllocKeeps ==
  ASSUME PoolInv, PoolAlloc
  PROVE  PoolInv'
  <1>1. CASE poolUsed < poolCap
    <2>1. PICK u, cp, o : /\ u = poolUsed /\ cp = poolCap /\ o = freeList[u]
                          /\ u \in Nat /\ cp \in Nat
      BY DEF PoolInv, PoolAlloc
    <2>2. /\ pool = "open" /\ UNCHANGED <<pool, poolCap, freeList>>
          /\ handed' = handed \union {o} /\ poolUsed' = u + 1 /\ u < cp /\ u \in Slots
      BY <1>1, <2>1 DEF PoolAlloc, Slots
    <2>3. /\ freeList \in [Slots -> Slots] /\ handed \subseteq Slots /\ IsFiniteSet(handed)
          /\ Cardinality(handed) = u /\ o \in Slots /\ Slots = 0 .. cp - 1
      BY <2>1, <2>2 DEF PoolInv, Slots
    <2>4. /\ FreeFrom(u) \intersect handed = {} /\ FreeFrom(u) \union handed = Slots
          /\ \A i, j \in u .. cp - 1 : freeList[i] = freeList[j] => i = j
      BY <2>1, <2>2 DEF PoolInv, PoolPartition, FreeFrom
    <2>5. o \in FreeFrom(u)
      BY <2>1, <2>2 DEF FreeFrom
    <2>6. \A x : x \in FreeFrom(u + 1) <=> x \in FreeFrom(u) /\ x # o
      <3>1. \A i : i \in u .. cp - 1 <=> i = u \/ i \in u + 1 .. cp - 1
        BY <2>1, <2>2
      <3> QED
        BY <2>1, <2>4, <3>1 DEF FreeFrom
    <2>7. Cardinality(handed') = u + 1 /\ IsFiniteSet(handed')
      BY <2>2, <2>3, <2>4, <2>5, FS_AddElement
    <2>8. PoolPartition'
      <3>1. FreeFrom(u + 1)' = FreeFrom(u + 1)
        BY <2>2 DEF FreeFrom
      <3>2. /\ FreeFrom(u + 1) \intersect handed' = {}
            /\ FreeFrom(u + 1) \union handed' = Slots
        BY <2>2, <2>4, <2>5, <2>6
      <3>3. \A i, j \in u + 1 .. cp - 1 : freeList[i] = freeList[j] => i = j
        BY <2>1, <2>4
      <3> QED
        BY <2>1, <2>2, <3>2, <3>3 DEF PoolPartition, FreeFrom, Slots
    <2>9. handed' \subseteq Slots' /\ Slots' = Slots /\ poolUsed' \in 0 .. poolCap' /\ poolCap' \in Nat
      <3>1. Slots' = Slots
        BY <2>2 DEF Slots
      <3>2. handed' \subseteq Slots
        BY <2>2, <2>3
      <3>3. u + 1 \in 0 .. cp /\ poolCap' = cp /\ cp \in Nat
        BY <2>1, <2>2
      <3> QED
        BY <2>2, <3>1, <3>2, <3>3
    <2> QED
      BY <2>2, <2>3, <2>7, <2>8, <2>9 DEF PoolInv
  <1>2. CASE ~(poolUsed < poolCap)
    <2>1. UNCHANGED <<pool, poolCap, freeList, poolUsed, handed>>
      BY <1>2 DEF PoolAlloc
    <2> QED
      BY <2>1, PoolKept
  <1> QED
    BY <1>1, <1>2

LEMMA PoolFreeKeeps ==
  ASSUME PoolInv, PoolFree
  PROVE  PoolInv'
  <1>1. PICK o \in handed :
          /\ handed' = handed \ {o}
          /\ IF poolUsed > 0
             THEN /\ freeList' = [freeList EXCEPT ![SlotOf(poolUsed)] = o]
                  /\ poolUsed' = poolUsed - 1
             ELSE UNCHANGED <<freeList, poolUsed>>
    BY DEF PoolFree
  <1>2. PICK u \in Nat, cp \in Nat : u = poolUsed /\ cp = poolCap
    BY DEF PoolInv, PoolFree
  <1>3. /\ pool = "open" /\ UNCHANGED <<pool, poolCap>>
        /\ freeList \in [Slots -> Slots] /\ handed \subseteq Slots /\ IsFiniteSet(handed)
        /\ Cardinality(handed) = u /\ o \in Slots /\ Slots = 0 .. cp - 1 /\ u <= cp
    BY <1>1, <1>2 DEF PoolFree, PoolInv, Slots
  <1>4. /\ FreeFrom(u) \intersect handed = {} /\ FreeFrom(u) \union handed = Slots
        /\ \A i, j \in u .. cp - 1 : freeList[i] = freeList[j] => i = j
    BY <1>2, <1>3 DEF PoolInv, PoolPartition, FreeFrom
  <1>5. IsFiniteSet(handed') /\ Cardinality(handed') = u - 1
    BY <1>1, <1>3, FS_RemoveElement
  <1>6. u > 0
    <2>1. Cardinality(handed') \in Nat
      BY <1>5, FS_CardinalityType
    <2> QED
      BY <1>5, <2>1
  <1>7. /\ poolUsed' = u - 1 /\ u - 1 \in Slots
        /\ freeList' \in [Slots -> Slots]
        /\ freeList'[u - 1] = o /\ \A i \in u .. cp - 1 : freeList'[i] = freeList[i]
    <2>1. freeList' = [freeList EXCEPT ![u - 1] = o] /\ poolUsed' = u - 1
      BY <1>1, <1>2, <1>6 DEF SlotOf
    <2>2. /\ u - 1 \in 0 .. cp - 1 /\ cp \in Nat
          /\ \A i \in u .. cp - 1 : i \in 0 .. cp - 1 /\ i # u - 1
      BY <1>2, <1>3, <1>6
    <2> QED
      BY <1>3, <2>1, <2>2
  <1>8. /\ \A i \in u - 1 .. cp - 1 : i = u - 1 \/ i \in u .. cp - 1
        /\ \A i \in u .. cp - 1 : i \in u - 1 .. cp - 1
        /\ u - 1 \in u - 1 .. cp - 1
    BY <1>2, <1>3, <1>6
  <1>9. \A x : x \in FreeFrom(u - 1)' <=> x \in FreeFrom(u) \/ x = o
    BY <1>2, <1>3, <1>7, <1>8 DEF FreeFrom
  <1>10. \A i, j \in u - 1 .. cp - 1 : freeList'[i] = freeList'[j] => i = j
    <2>1. \A i \in u .. cp - 1 : freeList[i] \in FreeFrom(u)
      BY <1>2 DEF FreeFrom
    <2>2. o \notin FreeFrom(u)
      BY <1>4
    <2> QED
      BY <1>4, <1>7, <1>8, <2>1, <2>2
  <1>11. PoolPartition'
    <2>1. FreeFrom(u - 1)' \intersect handed' = {} /\ FreeFrom(u - 1)' \union handed' = Slots
      BY <1>1, <1>4, <1>9
    <2> QED
      BY <1>2, <1>3, <1>7, <1>10, <2>1 DEF PoolPartition, FreeFrom, Slots
  <1>12. handed' \subseteq Slots' /\ Slots' = Slots /\ poolUsed' \in 0 .. poolCap' /\ poolCap' \in Nat
    BY <1>1, <1>2, <1>3, <1>6, <1>7 DEF Slots
  <1> QED
    BY <1>3, <1>5, <1>7, <1>11, <1>12 DEF PoolInv

LEMMA PoolStep ==
  ASSUME PoolInv, PoolNext \/ UNCHANGED poolVars
  PROVE  PoolInv'
  <1>1. CASE PoolCreate
    <2>1. handed = {} /\ UNCHANGED <<poolCap, handed>> /\ poolUsed' = 0 /\ poolCap \in Nat
      BY <1>1 DEF PoolCreate, PoolInv
    <2>2. CASE pool' \in {"refused", "crashed"}
      BY <2>1, <2>2 DEF PoolInv
    <2>3. CASE pool' = "open" /\ freeList' = [i \in Slots |-> i]
      <3>1. /\ freeList' \in [Slots -> Slots] /\ Slots' = Slots /\ Slots = 0 .. poolCap - 1
            /\ \A i \in Slots : freeList'[i] = i
        BY <2>1, <2>3 DEF Slots
      <3>2. IsFiniteSet(handed') /\ Cardinality(handed') = 0
        BY <2>1, FS_EmptySet
      <3>3. PoolPartition'
        BY <2>1, <3>1 DEF PoolPartition, Slots
      <3> QED
        BY <2>1, <3>1, <3>2, <3>3 DEF PoolInv
    <2> QED
      BY <1>1, <2>2, <2>3 DEF PoolCreate
  <1>2. CASE PoolDestroy
    BY <1>2 DEF PoolDestroy, PoolInv
  <1>3. CASE UNCHANGED poolVars
    BY <1>3, PoolKept DEF poolVars
  <1> QED
    BY <1>1, <1>2, <1>3, PoolAllocKeeps, PoolFreeKeeps DEF PoolNext

LEMMA PoolInit == \A on : PoolStart(on) => PoolInv
  <1> SUFFICES ASSUME NEW on, PoolStart(on) PROVE PoolInv
    OBVIOUS
  <1>1. poolCap \in PoolCaps \union {0} /\ pool = "none" /\ handed = {}
    BY DEF PoolStart
  <1> QED
    BY <1>1, PoolAssumption DEF PoolInv

(* The memory of a frame and the objects of a pool are handed out once at a   *)
(* time, in whatever order callers open, roll back and close frames and give  *)
(* objects back (galloc.c 130-182): for any grain, capacity and range of      *)
(* size_t, and any sizes of it; a frame is excepted from the allocation on    *)
(* whose rounded size, or the sum at line 146, passed the end of that range.  *)
THEOREM FramesAndPoolsHold == NativeSpec => []NoOverlap
  <1>1. NativeInit => FrameInv /\ PoolInv
    BY FrameInit, PoolInit DEF NativeInit
  <1>2. FrameInv /\ PoolInv /\ [NativeNext]_nativeVars => FrameInv' /\ PoolInv'
    BY FrameStep, PoolStep DEF NativeNext, FuseRuns, FramesRun, PoolRuns, MallocRuns, nativeVars
  <1>3. FrameInv /\ PoolInv => NoOverlap
    BY FrameImplies DEF PoolInv, PoolPartition, NoOverlap
  <1> QED
    BY <1>1, <1>2, <1>3, PTL DEF NativeSpec

-----------------------------------------------------------------------------
(* The reversible overlay, until two handlers are in its journal at once.     *)

(* What playing entry e back makes of its file. *)
Means(e)    == IF e.existed THEN e.orig ELSE Absent
Recorded(e) == e.path \in Paths /\ (e.path \in lost \/ Means(e) = base[e.path])

Asks(t) ==
  /\ req[t].op \in {"write", "truncate", "unlink", "create"}
  /\ req[t].path \in Paths /\ req[t].to \in Contents

Restored(i) == jlog[i].path \in lost \/ files[jlog[i].path] = base[jlog[i].path]

(* What has happened already when a thread is where it is. *)
ThreadAt(t) ==
  /\ at[t] \in {"save", "entry", "count", "change"} => Asks(t)
  /\ req[t].op = "create" =>
       /\ at[t] \in {"save", "entry", "count"}
       /\ Journalled(req[t].path) \/ req[t].path \in lost \/ base[req[t].path] = Absent
  /\ at[t] = "entry" => jn < JCap /\ ~Journalled(req[t].path)
  /\ at[t] = "count" =>
       jn < JCap /\ ~Journalled(req[t].path) /\ jlog[jn].path = req[t].path /\ Recorded(jlog[jn])
  /\ at[t] = "change" => Journalled(req[t].path)
  /\ at[t] = "undo" => idx[t] < jn /\ \A i \in 0 .. jn - 1 : i > idx[t] => Restored(i)

(* An entry for a name at most, and nothing changed without one, but by a     *)
(* create on its way to the journal.                                         *)
Journal ==
  /\ \A i \in 0 .. jn - 1 : Recorded(jlog[i])
  /\ \A i, j \in 0 .. jn - 1 : jlog[i].path = jlog[j].path => i = j
  /\ \A p \in Paths \ lost : ~Journalled(p) /\ ~BeingMade(p) => files[p] = base[p]

Alone ==
  \A t, u \in Threads :
    /\ InJournal(t) /\ InJournal(u) => t = u
    /\ at[t] = "undo" => at[u] # "change"

HandleType == [path : Paths \union {NoPath}, live : BOOLEAN]
LivePaths  == \A h \in Handles : fd[h].live => fd[h].path \in Paths

FuseInv ==
  /\ TypeOK /\ DOMAIN req = Threads
  /\ LivePaths
  /\ Journal
  /\ Alone
  /\ \A t \in Threads : ThreadAt(t)

(* What the step of another thread leaves to thread u, by where u is. *)
Leaves(u) ==
  /\ at'[u] = at[u] /\ req'[u] = req[u] /\ idx'[u] = idx[u]
  /\ at[u] = "change" =>
       \A i \in 0 .. jn - 1 : i \in 0 .. jn' - 1 /\ jlog'[i] = jlog[i]
  /\ InJournal(u) => UNCHANGED <<jlog, jn, base>> /\ lost \subseteq lost'
  /\ at[u] = "undo" => UNCHANGED <<files, lost>>

LEMMA OtherStands ==
  ASSUME NEW u, ThreadAt(u), Leaves(u) PROVE ThreadAt(u)'
  <1>0. PICK p : p = req[u].path /\ p = req'[u].path
    BY DEF Leaves
  <1>1. CASE at[u] = "change"
    <2>1. Asks(u)' /\ req'[u].op # "create" /\ at'[u] = "change"
      BY <1>1 DEF ThreadAt, Leaves, Asks
    <2>2. Journalled(p)
      BY <1>0, <1>1 DEF ThreadAt
    <2>3. Journalled(p)'
      BY <1>1, <2>2 DEF Journalled, Leaves
    <2> QED
      BY <1>0, <2>1, <2>3 DEF ThreadAt, Journalled
  <1>2. CASE InJournal(u)
    <2>1. /\ UNCHANGED <<jlog, jn, base>> /\ lost \subseteq lost'
          /\ at'[u] = at[u] /\ req'[u] = req[u] /\ idx'[u] = idx[u] /\ at[u] # "change"
      BY <1>2 DEF Leaves, InJournal
    <2>2. Journalled(p)' <=> Journalled(p)
      BY <2>1 DEF Journalled
    <2>3. Asks(u) => Asks(u)'
      BY <2>1 DEF Asks
    <2>4. PICK e : e = jlog[jn] /\ e = jlog'[jn']
      BY <2>1
    <2>5. Recorded(e) => Recorded(e)'
      BY <2>1 DEF Recorded, Means
    <2>6. at[u] = "undo" => \A i : Restored(i)' <=> Restored(i)
      BY <2>1 DEF Leaves, Restored
    <2>7. req[u].op = "create" =>
            at'[u] \in {"save", "entry", "count"} /\ (Journalled(p)' \/ p \in lost' \/ base'[p] = Absent)
      BY <1>0, <2>1, <2>2 DEF ThreadAt
    <2>8. at[u] = "count" => jn < JCap /\ ~Journalled(p) /\ e.path = p /\ Recorded(e)'
      BY <1>0, <2>4, <2>5 DEF ThreadAt
    <2>9. at[u] = "entry" => jn < JCap /\ ~Journalled(p)
      BY <1>0 DEF ThreadAt
    <2>10. at[u] = "undo" => idx[u] < jn /\ \A i \in 0 .. jn - 1 : i > idx[u] => Restored(i)'
      BY <2>6 DEF ThreadAt
    <2>11. at'[u] \in {"save", "entry", "count", "change"} => Asks(u)'
      BY <2>1, <2>3 DEF ThreadAt
    <2>12. (req[u].op = "create" =>
              /\ at[u] \in {"save", "entry", "count"}
              /\ Journalled(req[u].path) \/ req[u].path \in lost \/ base[req[u].path] = Absent)'
      BY <1>0, <2>1, <2>7 DEF Journalled
    <2>13. (at[u] = "count" =>
              jn < JCap /\ ~Journalled(req[u].path) /\ jlog[jn].path = req[u].path /\ Recorded(jlog[jn]))'
      BY <1>0, <2>1, <2>2, <2>4, <2>8 DEF Journalled, Recorded, Means
    <2>14. (at[u] = "entry" => jn < JCap /\ ~Journalled(req[u].path))'
      BY <1>0, <2>1, <2>2, <2>9 DEF Journalled
    <2>15. (at[u] = "undo" => idx[u] < jn /\ \A i \in 0 .. jn - 1 : i > idx[u] => Restored(i))'
      BY <2>1, <2>10
    <2> QED
      BY <2>1, <2>11, <2>12, <2>13, <2>14, <2>15 DEF ThreadAt
  <1>3. CASE at[u] # "change" /\ ~InJournal(u)
    <2>1. /\ at'[u] = at[u] /\ req'[u] = req[u]
          /\ at[u] \notin {"change", "entry", "count", "undo"}
          /\ at[u] = "save" => req[u].op # "create"
      BY <1>3 DEF Leaves, InJournal
    <2>2. req[u].op # "create"
      BY <2>1 DEF ThreadAt
    <2>3. at[u] = "save" => Asks(u)'
      BY <2>1 DEF ThreadAt, Asks
    <2> QED
      BY <2>1, <2>2, <2>3 DEF ThreadAt
  <1> QED
    BY <1>1, <1>2, <1>3

(* A thread that enters the journal, or changes a file, keeps the others out. *)
LEMMA AloneStays ==
  ASSUME Alone, NEW t \in Threads, \A u \in Threads \ {t} : Leaves(u),
         InJournal(t)' => InJournal(t) \/ \A u \in Threads \ {t} : ~InJournal(u),
         at'[t] = "change" => InJournal(t) \/ at[t] = "change" \/ \A u \in Threads \ {t} : ~InJournal(u),
         at'[t] = "undo" => at[t] = "undo" \/ \A u \in Threads \ {t} : at[u] # "change"
  PROVE  Alone'
  <1>1. ASSUME NEW u \in Threads \ {t} PROVE InJournal(u)' <=> InJournal(u)
    BY <1>1 DEF Leaves, InJournal
  <1>2. ASSUME NEW u \in Threads, NEW v \in Threads, InJournal(u)', InJournal(v)' PROVE u = v
    <2>1. CASE u # t /\ v # t
      BY <1>1, <1>2, <2>1 DEF Alone
    <2>2. CASE u = t
      BY <1>1, <1>2, <2>2 DEF Alone
    <2>3. CASE v = t
      BY <1>1, <1>2, <2>3 DEF Alone
    <2> QED
      BY <2>1, <2>2, <2>3
  <1>3. ASSUME NEW u \in Threads, NEW v \in Threads, at'[u] = "undo", at'[v] = "change" PROVE FALSE
    <2>1. CASE u # t /\ v # t
      BY <1>3, <2>1 DEF Alone, Leaves
    <2>2. CASE u = t
      <3>1. v \in Threads \ {t}
        BY <1>3, <2>2
      <3> QED
        BY <1>3, <2>2, <3>1 DEF Alone, Leaves
    <2>3. CASE v = t
      <3>1. u \in Threads \ {t} /\ at[u] = "undo" /\ InJournal(u)
        BY <1>3, <2>3 DEF Leaves, InJournal
      <3> QED
        BY <1>3, <2>3, <3>1 DEF Alone, InJournal
    <2> QED
      BY <2>1, <2>2, <2>3
  <1> QED
    BY <1>2, <1>3 DEF Alone

(* A step that counts no entry. *)
LEMMA JournalStands ==
  ASSUME Journal, base' = base, lost \subseteq lost', jn' = jn,
         \A i \in 0 .. jn - 1 : jlog'[i] = jlog[i],
         \A q \in Paths \ lost' : ~Journalled(q) /\ ~BeingMade(q)' => ~BeingMade(q) /\ files'[q] = files[q]
  PROVE  Journal' /\ \A q : Journalled(q)' <=> Journalled(q)
  <1>1. \A q : Journalled(q)' <=> Journalled(q)
    BY DEF Journalled
  <1>2. ASSUME NEW i \in 0 .. jn - 1 PROVE Recorded(jlog[i])'
    <2>1. PICK e : e = jlog[i] /\ e = jlog'[i] /\ Recorded(e)
      BY DEF Journal
    <2> QED
      BY <2>1 DEF Recorded, Means
  <1>3. \A i, j \in 0 .. jn' - 1 : jlog'[i].path = jlog'[j].path => i = j
    BY DEF Journal
  <1>4. \A q \in Paths \ lost' : ~Journalled(q)' /\ ~BeingMade(q)' => files'[q] = base'[q]
    BY <1>1 DEF Journal
  <1> QED
    BY <1>1, <1>2, <1>3, <1>4 DEF Journal

(* Whose name is being made. *)
LEMMA MadeBy ==
  ASSUME NEW t \in Threads, DOMAIN req = Threads, NEW r, req' = [req EXCEPT ![t] = r], NEW q
  PROVE  BeingMade(q) => BeingMade(q)' \/ (req[t].op = "create" /\ req[t].path = q)
  <1> SUFFICES ASSUME NEW u \in Threads, req[u].op = "create", req[u].path = q, u # t
               PROVE  BeingMade(q)'
    BY DEF BeingMade
  <1>1. req'[u] = req[u]
    OBVIOUS
  <1> QED
    BY <1>1 DEF BeingMade

LEMMA MakerIsIn ==
  ASSUME FuseInv, NEW q, BeingMade(q)
  PROVE  \E u \in Threads : req[u].op = "create" /\ req[u].path = q /\ InJournal(u)
  <1>1. PICK u \in Threads : req[u].op = "create" /\ req[u].path = q
    BY DEF BeingMade
  <1>2. at[u] \in {"save", "entry", "count"}
    BY <1>1 DEF FuseInv, ThreadAt
  <1> QED
    BY <1>1, <1>2 DEF InJournal

LEMMA FuseFollows ==
  ASSUME FuseInv, NEW t \in Threads, TypeOK', DOMAIN req' = Threads, LivePaths', Journal', Alone',
         ThreadAt(t)', \A u \in Threads \ {t} : Leaves(u)
  PROVE  FuseInv'
  <1>1. ASSUME NEW u \in Threads \ {t} PROVE ThreadAt(u)'
    BY <1>1, OtherStands DEF FuseInv
  <1> QED
    BY <1>1 DEF FuseInv

LEMMA FuseInit == \A on : FuseStart(on) => FuseInv
  <1> USE FuseAssumption
  <1> SUFFICES ASSUME NEW on, FuseStart(on) PROVE FuseInv
    OBVIOUS
  <1>1. /\ files \in [Paths -> Nodes] /\ base = files /\ lost = {} /\ raced = FALSE
        /\ jlog = [i \in 0 .. JCap |-> NoEntry] /\ jn = 0
        /\ fd = [h \in Handles |-> Closed] /\ at = [t \in Threads |-> "idle"]
        /\ idx = [t \in Threads |-> 0] /\ req = [t \in Threads |-> NoReq]
    BY DEF FuseStart, Nodes
  <1>2. NoEntry \in Entry
    BY DEF NoEntry, Entry
  <1>3. TypeOK
    <2>1. 0 \in -1 .. JCap - 1 /\ 0 \in 0 .. JCap
      OBVIOUS
    <2>2. Closed \in [path : Paths \union {NoPath}, live : BOOLEAN]
      BY DEF Closed
    <2>3. /\ jlog \in [0 .. JCap -> Entry] /\ jn \in 0 .. JCap
          /\ idx \in [Threads -> -1 .. JCap - 1]
      BY <1>1, <1>2, <2>1
    <2>4. /\ fd \in [Handles -> [path : Paths \union {NoPath}, live : BOOLEAN]]
          /\ at \in [Threads -> {"idle", "save", "entry", "count", "change", "undo"}]
      BY <1>1, <2>2
    <2> QED
      BY <1>1, <2>3, <2>4 DEF TypeOK
  <1>4. \A i : i \notin 0 .. jn - 1
    BY <1>1
  <1>5. Journal
    BY <1>1, <1>4 DEF Journal
  <1>6. LivePaths
    BY <1>1 DEF Closed, LivePaths
  <1>7. \A t \in Threads : at[t] = "idle" /\ req[t].op # "create" /\ ~InJournal(t)
    BY <1>1 DEF NoReq, InJournal
  <1> QED
    BY <1>1, <1>3, <1>5, <1>6, <1>7 DEF FuseInv, ThreadAt, Alone

(* An answered request leaves its thread idle. *)
LEMMA Replied ==
  ASSUME FuseInv, NEW t \in Threads, Reply(t)
  PROVE  /\ at' \in [Threads -> {"idle", "save", "entry", "count", "change", "undo"}]
         /\ DOMAIN req' = Threads /\ req' = [req EXCEPT ![t] = NoReq]
         /\ at'[t] = "idle" /\ req'[t] = NoReq /\ ThreadAt(t)' /\ ~InJournal(t)'
         /\ \A u \in Threads \ {t} : at'[u] = at[u] /\ req'[u] = req[u]
  <1>1. /\ at \in [Threads -> {"idle", "save", "entry", "count", "change", "undo"}]
        /\ DOMAIN req = Threads
    BY DEF FuseInv, TypeOK
  <1>2. /\ at' \in [Threads -> {"idle", "save", "entry", "count", "change", "undo"}]
        /\ DOMAIN req' = Threads /\ req' = [req EXCEPT ![t] = NoReq]
        /\ at'[t] = "idle" /\ req'[t] = NoReq
        /\ \A u \in Threads \ {t} : at'[u] = at[u] /\ req'[u] = req[u]
    BY <1>1 DEF Reply
  <1>3. req'[t].op # "create"
    BY <1>2 DEF NoReq
  <1> QED
    BY <1>2, <1>3 DEF ThreadAt, InJournal

LEMMA RequestKeeps ==
  ASSUME FuseInv, NEW t \in Threads, NEW op \in {"write", "truncate", "unlink"},
         NEW p \in Paths, NEW h, NEW c \in Contents, Request(t, op, p, h, c)
  PROVE  FuseInv'
  <1>1. PICK r : r = [op |-> op, path |-> p, handle |-> h, to |-> c]
    OBVIOUS
  <1>2. /\ at[t] = "idle" /\ at' = [at EXCEPT ![t] = "save"] /\ req' = [req EXCEPT ![t] = r]
        /\ r.op = op /\ r.path = p /\ r.to = c
        /\ UNCHANGED <<files, jlog, jn, fd, idx, base, lost, raced>>
    BY <1>1 DEF Request
  <1>3. /\ TypeOK' /\ DOMAIN req' = Threads /\ req'[t] = r /\ at'[t] = "save"
        /\ \A u \in Threads \ {t} : at'[u] = at[u] /\ req'[u] = req[u]
    BY <1>2 DEF FuseInv, TypeOK
  <1>4. \A u \in Threads \ {t} : Leaves(u)
    BY <1>2, <1>3 DEF Leaves, FuseInv, TypeOK
  <1>5. Journal'
    <2>1. req[t].op # "create" /\ DOMAIN req = Threads
      BY <1>2 DEF FuseInv, ThreadAt
    <2>2. \A q : BeingMade(q) => BeingMade(q)'
      BY <1>2, <2>1, MadeBy
    <2> QED
      BY <1>2, <2>2, JournalStands DEF FuseInv
  <1>6. ThreadAt(t)' /\ ~InJournal(t)'
    BY <1>2, <1>3 DEF ThreadAt, Asks, InJournal
  <1>7. Alone' /\ LivePaths'
    BY <1>2, <1>3, <1>4, <1>6, AloneStays DEF FuseInv, LivePaths
  <1> QED
    BY <1>3, <1>4, <1>5, <1>6, <1>7, FuseFollows

LEMMA WriteKeeps ==
  ASSUME FuseInv, NEW t \in Threads, NEW h \in Handles, NEW c \in Contents, Write(t, h, c)
  PROVE  FuseInv'
  <1>1. fd[h] \in HandleType /\ (fd[h].live => fd[h].path \in Paths)
    BY DEF FuseInv, TypeOK, HandleType, LivePaths
  <1>2. fd[h].path \in Paths
    <2>1. fd[h].path = NoPath /\ ~fd[h].live => fd[h] = Closed
      BY <1>1 DEF Closed, HandleType
    <2> QED
      BY <1>1, <2>1, FuseAssumption DEF Write, HandleType
  <1> QED
    BY <1>2, RequestKeeps DEF Write

LEMMA LookUpKeeps ==
  ASSUME FuseInv, NEW t \in Threads, LookUp(t), ~raced'
  PROVE  FuseInv'
  <1> USE FuseAssumption
  <1>1. PICK p : p = req[t].path
    OBVIOUS
  <1>2. /\ at[t] = "save" /\ Asks(t) /\ p \in Paths
        /\ UNCHANGED <<files, jlog, jn, fd, idx, base>>
        /\ \A u \in Threads \ {t} : ~InJournal(u)
        /\ raced' \in BOOLEAN
    BY <1>1 DEF LookUp, Enter, FuseInv, ThreadAt, Asks
  <1>3. CASE Journalled(p) /\ at' = [at EXCEPT ![t] = "change"] /\ UNCHANGED <<req, lost>>
             /\ req[t].op # "create"
    <2>1. /\ TypeOK' /\ DOMAIN req' = Threads /\ at'[t] = "change"
          /\ \A u \in Threads \ {t} : at'[u] = at[u] /\ req'[u] = req[u]
      BY <1>2, <1>3 DEF FuseInv, TypeOK
    <2>2. \A u \in Threads \ {t} : Leaves(u)
      BY <1>2, <1>3, <2>1 DEF Leaves
    <2>3. \A q : BeingMade(q) => BeingMade(q)'
      BY <1>3 DEF BeingMade
    <2>4. Journal' /\ Journalled(p)'
      BY <1>2, <1>3, <2>3, JournalStands DEF FuseInv
    <2>5. ThreadAt(t)' /\ ~InJournal(t)'
      <3>1. Asks(t)' /\ req'[t].path = p /\ req'[t].op # "create"
        BY <1>1, <1>2, <1>3 DEF Asks
      <3> QED
        BY <2>1, <2>4, <3>1 DEF ThreadAt, InJournal, Journalled
    <2>6. Alone' /\ LivePaths'
      BY <1>2, <2>1, <2>2, <2>5, AloneStays DEF FuseInv, LivePaths
    <2> QED
      BY <2>1, <2>2, <2>4, <2>5, <2>6, FuseFollows
  <1>4. CASE /\ Reply(t)
             /\ \/ Journalled(p) /\ lost' = lost
                \/ req[t].op # "create" /\ lost' = lost
                \/ lost' = lost \union {p}
    <2>1. TypeOK' /\ DOMAIN req' = Threads /\ at'[t] = "idle"
      BY <1>2, <1>4, Replied DEF FuseInv, TypeOK
    <2>2. \A u \in Threads \ {t} : Leaves(u)
      BY <1>2, <1>4, Replied DEF Leaves, InJournal
    <2>3. Journal'
      <3>1. \A q : BeingMade(q) => BeingMade(q)' \/ (req[t].op = "create" /\ p = q)
        BY <1>1, <1>4, MadeBy, Replied DEF FuseInv
      <3>2. \A q \in Paths \ lost' : ~Journalled(q) /\ ~BeingMade(q)' => ~BeingMade(q)
        BY <1>4, <3>1
      <3> QED
        BY <1>2, <1>4, <3>2, JournalStands DEF FuseInv
    <2>4. ThreadAt(t)' /\ ~InJournal(t)'
      BY <1>4, Replied
    <2>5. Alone' /\ LivePaths'
      BY <1>2, <2>1, <2>2, <2>4, AloneStays DEF FuseInv, LivePaths
    <2> QED
      BY <2>1, <2>2, <2>3, <2>4, <2>5, FuseFollows
  <1>5. CASE ~Journalled(p) /\ Room /\ at' = [at EXCEPT ![t] = "entry"] /\ UNCHANGED <<req, lost>>
    <2>1. /\ TypeOK' /\ DOMAIN req' = Threads /\ at'[t] = "entry"
          /\ \A u \in Threads \ {t} : at'[u] = at[u] /\ req'[u] = req[u]
      BY <1>2, <1>5 DEF FuseInv, TypeOK
    <2>2. \A u \in Threads \ {t} : Leaves(u)
      BY <1>2, <1>5, <2>1 DEF Leaves, InJournal
    <2>3. \A q : BeingMade(q) => BeingMade(q)'
      BY <1>5 DEF BeingMade
    <2>4. Journal' /\ ~Journalled(p)'
      BY <1>2, <1>5, <2>3, JournalStands DEF FuseInv
    <2>5. ThreadAt(t)'
      <3>1. Asks(t)' /\ req'[t].path = p /\ jn' < JCap
        BY <1>1, <1>2, <1>5 DEF Asks, Room
      <3>2. req[t].op = "create" => p \in lost \/ base[p] = Absent
        BY <1>1, <1>5 DEF FuseInv, ThreadAt
      <3>3. req'[t].op = "create" => p \in lost' \/ base'[p] = Absent
        BY <1>2, <1>5, <3>2
      <3> QED
        BY <1>1, <2>1, <2>4, <3>1, <3>3 DEF ThreadAt, Journalled
    <2>6. Alone' /\ LivePaths'
      BY <1>2, <2>1, <2>2, AloneStays DEF FuseInv, LivePaths
    <2> QED
      BY <2>1, <2>2, <2>4, <2>5, <2>6, FuseFollows
  <1> QED
    BY <1>1, <1>3, <1>4, <1>5 DEF LookUp

LEMMA OriginalHolds ==
  ASSUME NEW p \in Paths
  PROVE  /\ Original(p) \in Entry /\ Original(p).path = p
         /\ files[p] \in Contents => Means(Original(p)) = files[p]
  <1> USE FuseAssumption
  <1>1. CASE files[p] \in Contents
    <2>1. Original(p) = [path |-> p, existed |-> TRUE, orig |-> files[p]]
      BY <1>1 DEF Original
    <2> QED
      BY <1>1, <2>1 DEF Entry, Means
  <1>2. CASE files[p] \notin Contents
    <2>1. (files[p] \in Contents) = FALSE
      BY <1>2
    <2>2. Original(p) = [path |-> p, existed |-> FALSE, orig |-> Empty]
      BY <2>1, Zenon DEF Original
    <2> QED
      BY <1>2, <2>2 DEF Entry
  <1> QED
    BY <1>1, <1>2

(* The entry put into the journal records what the name was, or the name is   *)
(* given up.                                                                  *)
LEMMA PutEntryKeeps ==
  ASSUME FuseInv, NEW t \in Threads, at[t] = "entry", ~raced',
         NEW e \in Entry, PutEntry(t, e), e.path = req[t].path,
         e.path \in lost' \/ Means(e) = base[e.path],
         lost \subseteq lost', lost' \subseteq Paths, UNCHANGED <<files, jn, fd, idx, base, raced>>
  PROVE  FuseInv'
  <1> USE FuseAssumption
  <1>1. PICK p : p = req[t].path /\ p = e.path
    OBVIOUS
  <1>2. /\ jlog' = [jlog EXCEPT ![jn] = e] /\ at' = [at EXCEPT ![t] = "count"] /\ req' = req
    BY DEF PutEntry
  <1>3. Asks(t) /\ p \in Paths /\ jn < JCap /\ ~Journalled(p) /\ InJournal(t)
    BY <1>1 DEF FuseInv, ThreadAt, Asks, InJournal
  <1>4. jn \in 0 .. JCap /\ jlog \in [0 .. JCap -> Entry]
    BY DEF FuseInv, TypeOK
  <1>5. /\ jlog' \in [0 .. JCap -> Entry] /\ jlog'[jn] = e
        /\ \A i \in 0 .. jn - 1 : jlog'[i] = jlog[i]
    <2>1. jn \in 0 .. JCap /\ \A i \in 0 .. jn - 1 : i \in 0 .. JCap /\ i # jn
      BY <1>4
    <2> QED
      BY <1>2, <1>4, <2>1
  <1>6. /\ TypeOK' /\ DOMAIN req' = Threads /\ at'[t] = "count" /\ LivePaths'
        /\ \A u \in Threads \ {t} : at'[u] = at[u] /\ req'[u] = req[u]
    BY <1>2, <1>5 DEF FuseInv, TypeOK, LivePaths
  <1>7. \A u \in Threads \ {t} : ~InJournal(u)
    BY <1>3 DEF FuseInv, Alone
  <1>8. \A u \in Threads \ {t} : Leaves(u)
    BY <1>5, <1>6, <1>7 DEF Leaves, InJournal
  <1>9. \A q : BeingMade(q) => BeingMade(q)'
    BY <1>2 DEF BeingMade
  <1>10. Journal' /\ ~Journalled(p)'
    BY <1>3, <1>5, <1>9, JournalStands DEF FuseInv
  <1>11. ThreadAt(t)'
    <2>1. Asks(t)' /\ req'[t].path = p
      BY <1>1, <1>2, <1>3 DEF Asks
    <2>2. Recorded(e)'
      BY <1>1, <1>3 DEF Recorded, Means
    <2>3. req'[t].op = "create" => p \in lost' \/ base'[p] = Absent
      BY <1>1, <1>2, <1>3 DEF FuseInv, ThreadAt
    <2>4. jlog'[jn'] = e /\ jlog'[jn'].path = p /\ jn' < JCap
      BY <1>1, <1>3, <1>5
    <2> QED
      BY <1>6, <1>10, <2>1, <2>2, <2>3, <2>4 DEF ThreadAt, Journalled, Recorded, Means
  <1>12. Alone'
    BY <1>6, <1>7, <1>8, AloneStays DEF FuseInv
  <1> QED
    BY <1>6, <1>8, <1>10, <1>11, <1>12, FuseFollows

LEMMA FillKeeps ==
  ASSUME FuseInv, NEW t \in Threads, Fill(t), ~raced'
  PROVE  FuseInv'
  <1> USE FuseAssumption
  <1>1. PICK p : p = req[t].path
    OBVIOUS
  <1>2. at[t] = "entry" /\ UNCHANGED <<files, jn, fd, idx, base, raced>>
    BY DEF Fill
  <1>3. /\ Asks(t) /\ p \in Paths /\ jn < JCap /\ ~Journalled(p) /\ InJournal(t)
        /\ lost \subseteq Paths /\ files[p] \in Nodes
    BY <1>1, <1>2 DEF FuseInv, ThreadAt, Asks, InJournal, TypeOK
  <1>4. req[t].op # "create" => p \in lost \/ files[p] = base[p]
    <2>1. ASSUME BeingMade(p) PROVE req[t].op = "create"
      BY <1>3, <2>1, MakerIsIn DEF FuseInv, Alone
    <2> QED
      BY <1>3, <2>1 DEF FuseInv, Journal
  <1>5. CASE NotSaved(t)
    <2>1. Reply(t) /\ UNCHANGED <<jlog, lost>> /\ req[t].op # "create"
      BY <1>5 DEF NotSaved
    <2>2. TypeOK' /\ DOMAIN req' = Threads /\ at'[t] = "idle" /\ LivePaths'
      BY <1>2, <2>1, Replied DEF FuseInv, TypeOK, LivePaths
    <2>3. \A u \in Threads \ {t} : Leaves(u)
      BY <1>2, <2>1, Replied DEF Leaves
    <2>4. Journal'
      <3>1. \A q : BeingMade(q) => BeingMade(q)'
        BY <2>1, MadeBy, Replied DEF FuseInv
      <3> QED
        BY <1>2, <2>1, <3>1, JournalStands DEF FuseInv
    <2>5. ThreadAt(t)' /\ ~InJournal(t)'
      BY <2>1, Replied
    <2>6. Alone'
      BY <2>2, <2>3, <2>5, AloneStays DEF FuseInv
    <2> QED
      BY <2>2, <2>3, <2>4, <2>5, <2>6, FuseFollows
  <1>6. CASE Saved(t)
    <2>1. PICK e \in Entry : /\ e = Original(p) /\ e.path = p
                             /\ files[p] \in Contents => Means(e) = files[p]
      BY <1>3, OriginalHolds
    <2>2. /\ req[t].op # "create" /\ files[p] \notin Big \union {Absent} /\ PutEntry(t, e)
          /\ lost' = IF files[p] = Link THEN lost \union {p} ELSE lost
      BY <1>1, <1>6, <2>1 DEF Saved
    <2>3. files[p] \in Contents \/ files[p] = Link
      BY <1>3, <2>2 DEF Nodes
    <2>4. p \in lost' \/ Means(e) = base[p]
      BY <1>4, <2>1, <2>2, <2>3
    <2>5. lost \subseteq lost' /\ lost' \subseteq Paths
      BY <1>3, <2>2
    <2> QED
      BY <1>1, <1>2, <2>1, <2>2, <2>4, <2>5, PutEntryKeeps
  <1>7. CASE SavedShort(t)
    <2>1. PICK c \in Contents : PutEntry(t, [path |-> p, existed |-> TRUE, orig |-> c])
      BY <1>1, <1>7 DEF SavedShort
    <2>2. lost' = lost \union {p}
      BY <1>1, <1>7 DEF SavedShort
    <2>3. PICK e : e = [path |-> p, existed |-> TRUE, orig |-> c]
      OBVIOUS
    <2>4. e \in Entry /\ e.path = p
      BY <1>3, <2>3 DEF Entry
    <2>5. lost \subseteq lost' /\ lost' \subseteq Paths /\ p \in lost'
      BY <1>3, <2>2
    <2>6. PutEntry(t, e)
      BY <2>1, <2>3
    <2> QED
      BY <1>1, <1>2, <2>4, <2>5, <2>6, PutEntryKeeps
  <1>8. CASE SavedAbsent(t)
    <2>1. PICK e : e = [path |-> p, existed |-> FALSE, orig |-> Empty]
      OBVIOUS
    <2>2. e \in Entry /\ e.path = p /\ Means(e) = Absent
      BY <1>3, <2>1 DEF Entry, Means
    <2>3. req[t].op = "create" /\ PutEntry(t, e) /\ lost' = lost
      BY <1>1, <1>8, <2>1 DEF SavedAbsent
    <2>4. p \in lost' \/ Means(e) = base[p]
      BY <1>1, <1>3, <2>2, <2>3 DEF FuseInv, ThreadAt
    <2> QED
      BY <1>1, <1>2, <1>3, <2>2, <2>3, <2>4, PutEntryKeeps
  <1> QED
    BY <1>5, <1>6, <1>7, <1>8 DEF Fill

LEMMA CountEntryKeeps ==
  ASSUME FuseInv, NEW t \in Threads, CountEntry(t), ~raced'
  PROVE  FuseInv'
  <1> USE FuseAssumption
  <1>1. PICK p : p = req[t].path
    OBVIOUS
  <1>2. /\ at[t] = "count" /\ jn' = jn + 1
        /\ UNCHANGED <<files, jlog, fd, idx, base, lost, raced>>
        /\ \/ req[t].op = "create" /\ Reply(t)
           \/ req[t].op # "create" /\ at' = [at EXCEPT ![t] = "change"] /\ UNCHANGED req
    BY DEF CountEntry
  <1>3. /\ Asks(t) /\ jn < JCap /\ jlog[jn].path = p /\ Recorded(jlog[jn]) /\ p \in Paths
        /\ InJournal(t)
    BY <1>1, <1>2 DEF FuseInv, ThreadAt, Asks, InJournal
  <1>4. ~Journalled(p)
    BY <1>1, <1>2 DEF FuseInv, ThreadAt
  <1>5. jn \in 0 .. JCap /\ jn' \in 0 .. JCap
    BY <1>2, <1>3 DEF FuseInv, TypeOK
  <1>6. /\ at' \in [Threads -> {"idle", "save", "entry", "count", "change", "undo"}]
        /\ DOMAIN req' = Threads /\ at'[t] \in {"idle", "change"}
        /\ \A u \in Threads \ {t} : at'[u] = at[u] /\ req'[u] = req[u]
    BY <1>2, Replied DEF FuseInv, TypeOK
  <1>7. TypeOK' /\ LivePaths'
    BY <1>2, <1>5, <1>6 DEF FuseInv, TypeOK, LivePaths
  <1>8. \A i : i \in 0 .. jn' - 1 <=> i \in 0 .. jn - 1 \/ i = jn
    BY <1>2, <1>5
  <1>9. \A q : Journalled(q)' <=> Journalled(q) \/ q = p
    BY <1>2, <1>3, <1>8 DEF Journalled
  <1>10. \A u \in Threads \ {t} : ~InJournal(u)
    BY <1>3 DEF FuseInv, Alone
  <1>11. \A u \in Threads \ {t} : Leaves(u)
    BY <1>2, <1>6, <1>8, <1>10 DEF Leaves, InJournal
  <1>12. \A q : BeingMade(q) => BeingMade(q)' \/ p = q
    <2>1. CASE req[t].op = "create" /\ Reply(t)
      BY <1>1, <2>1, MadeBy, Replied DEF FuseInv
    <2>2. CASE UNCHANGED req
      BY <2>2 DEF BeingMade
    <2> QED
      BY <1>2, <2>1, <2>2
  <1>13. Journal'
    <2>1. (\A i \in 0 .. jn - 1 : Recorded(jlog[i]))'
      BY <1>2, <1>3, <1>8 DEF FuseInv, Journal, Recorded, Means
    <2>2. \A i, j \in 0 .. jn' - 1 : jlog'[i].path = jlog'[j].path => i = j
      BY <1>2, <1>3, <1>4, <1>8 DEF FuseInv, Journal, Journalled
    <2>3. \A q \in Paths \ lost' : ~Journalled(q)' /\ ~BeingMade(q)' => files'[q] = base'[q]
      BY <1>2, <1>9, <1>12 DEF FuseInv, Journal
    <2> QED
      BY <2>1, <2>2, <2>3 DEF Journal
  <1>14. ThreadAt(t)' /\ ~InJournal(t)'
    <2>1. CASE req[t].op = "create" /\ Reply(t)
      BY <2>1, Replied
    <2>2. CASE req[t].op # "create" /\ at' = [at EXCEPT ![t] = "change"] /\ UNCHANGED req
      <3>1. Asks(t)' /\ at'[t] = "change" /\ req'[t].op # "create"
        BY <1>3, <1>6, <2>2 DEF Asks, FuseInv, TypeOK
      <3>2. Journalled(p)' /\ req'[t].path = p
        BY <1>1, <1>9, <2>2
      <3> QED
        BY <3>1, <3>2 DEF ThreadAt, Journalled, InJournal
    <2> QED
      BY <1>2, <2>1, <2>2
  <1>15. Alone'
    BY <1>3, <1>6, <1>10, <1>11, <1>14, AloneStays DEF FuseInv
  <1> QED
    BY <1>6, <1>7, <1>11, <1>13, <1>14, <1>15, FuseFollows

(* A file that loses its name leaves its handles without one. *)
LEMMA UnnamedIs ==
  ASSUME FuseInv, NEW p
  PROVE  /\ Unnamed(p) \in [Handles -> HandleType]
         /\ \A h \in Handles : Unnamed(p)[h].live => Unnamed(p)[h].path \in Paths
  <1>1. ASSUME NEW h \in Handles
        PROVE  /\ Unnamed(p)[h] \in HandleType
               /\ Unnamed(p)[h].live => Unnamed(p)[h].path \in Paths
    <2>1. PICK r \in HandleType : r = fd[h] /\ (r.live => r.path \in Paths)
      BY DEF FuseInv, TypeOK, HandleType, LivePaths
    <2>2. CASE r.path = p
      <3>1. Unnamed(p)[h] = [r EXCEPT !.live = FALSE]
        BY <2>1, <2>2 DEF Unnamed
      <3> QED
        BY <2>1, <3>1 DEF HandleType
    <2>3. CASE r.path # p
      BY <2>1, <2>3 DEF Unnamed
    <2> QED
      BY <2>2, <2>3
  <1>2. DOMAIN Unnamed(p) = Handles /\ Unnamed(p) = [h \in Handles |-> Unnamed(p)[h]]
    BY DEF Unnamed
  <1> QED
    BY <1>1, <1>2

LEMMA ChangeKeeps ==
  ASSUME FuseInv, NEW t \in Threads, Change(t), ~raced'
  PROVE  FuseInv'
  <1> USE FuseAssumption
  <1>1. PICK p, to : p = req[t].path /\ to = req[t].to
    OBVIOUS
  <1>2. /\ at[t] = "change" /\ UNCHANGED <<jlog, jn, idx, base, lost, raced>> /\ Reply(t)
        /\ fd' = fd \/ fd' = Unnamed(p)
    BY <1>1 DEF Change
  <1>3. Journalled(p) /\ p \in Paths /\ to \in Contents
        /\ req[t].op \in {"write", "truncate", "unlink"}
    BY <1>1, <1>2 DEF FuseInv, ThreadAt, Asks
  <1>4. files' = files \/ files' = [files EXCEPT ![p] = to] \/ files' = [files EXCEPT ![p] = Absent]
    BY <1>1, <1>3 DEF Change
  <1>5. files' \in [Paths -> Nodes] /\ \A q \in Paths : q # p => files'[q] = files[q]
    <2>1. files \in [Paths -> Nodes] /\ to \in Nodes /\ Absent \in Nodes
      BY <1>3 DEF FuseInv, TypeOK, Nodes
    <2> QED
      BY <1>4, <2>1
  <1>6. fd' \in [Handles -> HandleType] /\ LivePaths'
    BY <1>2, UnnamedIs DEF FuseInv, TypeOK, HandleType, LivePaths
  <1>7. TypeOK' /\ DOMAIN req' = Threads /\ at'[t] = "idle"
    BY <1>2, <1>5, <1>6, Replied DEF FuseInv, TypeOK, HandleType
  <1>8. \A u \in Threads \ {t} : Leaves(u)
    <2>1. \A u \in Threads : at[u] # "undo"
      BY <1>2 DEF FuseInv, Alone
    <2> QED
      BY <1>2, <2>1, Replied DEF Leaves
  <1>9. Journal'
    <2>1. \A q : BeingMade(q) => BeingMade(q)'
      BY <1>2, <1>3, MadeBy, Replied DEF FuseInv
    <2>2. \A q \in Paths \ lost' : ~Journalled(q) => files'[q] = files[q]
      BY <1>3, <1>5
    <2> QED
      BY <1>2, <2>1, <2>2, JournalStands DEF FuseInv
  <1>10. ThreadAt(t)' /\ ~InJournal(t)'
    BY <1>2, Replied
  <1>11. Alone'
    BY <1>7, <1>8, <1>10, AloneStays DEF FuseInv
  <1> QED
    BY <1>6, <1>7, <1>8, <1>9, <1>10, <1>11, FuseFollows

LEMMA HandleOpened ==
  ASSUME FuseInv, NEW p \in Paths, NEW h \in Handles,
         fd' = [fd EXCEPT ![h] = [path |-> p, live |-> TRUE]]
  PROVE  fd' \in [Handles -> HandleType] /\ LivePaths'
  BY DEF FuseInv, TypeOK, HandleType, LivePaths

LEMMA CreateKeeps ==
  ASSUME FuseInv, NEW t \in Threads, NEW p \in Paths, NEW h \in Handles, Create(t, p, h), ~raced'
  PROVE  FuseInv'
  <1> USE FuseAssumption
  <1>1. PICK r : r = [op |-> "create", path |-> p, handle |-> h, to |-> Empty]
    OBVIOUS
  <1>2. /\ at[t] = "idle" /\ files[p] = Absent /\ UNCHANGED <<jlog, jn, idx, base, lost>>
        /\ files' = [files EXCEPT ![p] = Empty]
        /\ fd' = [fd EXCEPT ![h] = [path |-> p, live |-> TRUE]]
        /\ at' = [at EXCEPT ![t] = "save"] /\ req' = [req EXCEPT ![t] = r]
        /\ r.op = "create" /\ r.path = p /\ r.to = Empty
        /\ \A u \in Threads \ {t} : ~InJournal(u)
        /\ raced' \in BOOLEAN
    BY <1>1 DEF Create, Enter
  <1>3. files' \in [Paths -> Nodes] /\ \A q \in Paths : q # p => files'[q] = files[q]
    <2>1. Empty \in Nodes /\ files \in [Paths -> Nodes]
      BY DEF FuseInv, TypeOK, Nodes
    <2> QED
      BY <1>2, <2>1
  <1>4. fd' \in [Handles -> HandleType] /\ LivePaths'
    BY <1>2, HandleOpened
  <1>5. /\ TypeOK' /\ DOMAIN req' = Threads /\ req'[t] = r /\ at'[t] = "save"
        /\ \A u \in Threads \ {t} : at'[u] = at[u] /\ req'[u] = req[u]
    BY <1>2, <1>3, <1>4 DEF FuseInv, TypeOK, HandleType
  <1>6. \A u \in Threads \ {t} : Leaves(u)
    BY <1>2, <1>5 DEF Leaves, InJournal
  <1>7. req[t].op # "create" /\ ~InJournal(t)
    BY <1>2 DEF FuseInv, ThreadAt, InJournal
  <1>8. ~BeingMade(p)
    BY <1>2, <1>7, MakerIsIn
  <1>9. Journal'
    <2>1. \A q : BeingMade(q) => BeingMade(q)'
      BY <1>2, <1>7, MadeBy DEF FuseInv
    <2>2. BeingMade(p)'
      BY <1>2, <1>5 DEF BeingMade
    <2>3. \A q \in Paths \ lost' : ~Journalled(q) /\ ~BeingMade(q)' => ~BeingMade(q) /\ files'[q] = files[q]
      BY <1>3, <2>1, <2>2
    <2> QED
      BY <1>2, <2>3, JournalStands DEF FuseInv
  <1>10. ThreadAt(t)'
    <2>1. Journalled(p) \/ p \in lost \/ base[p] = Absent
      BY <1>2, <1>8 DEF FuseInv, Journal
    <2>2. Journalled(p)' \/ p \in lost' \/ base'[p] = Absent
      BY <1>2, <2>1 DEF Journalled
    <2>3. Asks(t)' /\ req'[t].path = p
      BY <1>2, <1>5 DEF Asks
    <2> QED
      BY <1>5, <2>2, <2>3 DEF ThreadAt, Journalled
  <1>11. Alone'
    BY <1>2, <1>5, <1>6, AloneStays DEF FuseInv
  <1> QED
    BY <1>4, <1>5, <1>6, <1>9, <1>10, <1>11, FuseFollows

LEMMA OpenKeeps ==
  ASSUME FuseInv, NEW t \in Threads, NEW p \in Paths, NEW h \in Handles,
         NEW trunc \in BOOLEAN, Open(t, p, h, trunc), ~raced'
  PROVE  FuseInv'
  <1> USE FuseAssumption
  <1>1. /\ at[t] = "idle" /\ UNCHANGED <<jlog, jn, at, req, idx, base>> /\ ~BeingMade(p)
        /\ fd' = [fd EXCEPT ![h] = [path |-> p, live |-> TRUE]]
        /\ trunc => \A u \in Threads : at[u] # "undo"
        /\ raced' \in BOOLEAN
    BY DEF Open
  <1>2. Empty \in Nodes /\ files \in [Paths -> Nodes] /\ lost \subseteq Paths
    BY DEF FuseInv, TypeOK, Nodes
  <1>3. /\ files' \in [Paths -> Nodes] /\ lost \subseteq lost' /\ lost' \subseteq Paths
        /\ \A q \in Paths : q # p => files'[q] = files[q]
        /\ Journalled(p) \/ p \in lost' \/ files'[p] = files[p]
        /\ ~trunc => UNCHANGED <<files, lost>>
    <2>1. CASE trunc
      BY <1>2, <2>1 DEF Open
    <2>2. CASE ~trunc
      BY <1>2, <2>2 DEF Open
    <2> QED
      BY <2>1, <2>2
  <1>4. fd' \in [Handles -> HandleType] /\ LivePaths'
    BY <1>1, HandleOpened
  <1>5. TypeOK' /\ DOMAIN req' = Threads
    BY <1>1, <1>3, <1>4 DEF FuseInv, TypeOK, HandleType
  <1>6. \A u \in Threads : Leaves(u)
    BY <1>1, <1>3 DEF Leaves
  <1>7. Journal'
    <2>1. \A q : BeingMade(q) => BeingMade(q)'
      BY <1>1 DEF BeingMade
    <2>2. \A q \in Paths \ lost' : ~Journalled(q) => files'[q] = files[q]
      BY <1>3
    <2> QED
      BY <1>1, <1>3, <2>1, <2>2, JournalStands DEF FuseInv
  <1>8. ThreadAt(t)'
    BY <1>6, OtherStands DEF FuseInv
  <1>9. Alone'
    BY <1>1 DEF FuseInv, Alone, InJournal
  <1> QED
    BY <1>4, <1>5, <1>6, <1>7, <1>8, <1>9, FuseFollows

LEMMA ReleaseKeeps ==
  ASSUME FuseInv, NEW h \in Handles, Release(h)
  PROVE  FuseInv'
  <1> USE FuseAssumption
  <1>1. /\ fd' = [fd EXCEPT ![h] = Closed]
        /\ UNCHANGED <<files, jlog, jn, at, req, idx, base, lost, raced>>
    BY DEF Release
  <1>2. fd' \in [Handles -> HandleType] /\ LivePaths'
    BY <1>1 DEF FuseInv, TypeOK, Closed, HandleType, LivePaths
  <1>3. TypeOK' /\ DOMAIN req' = Threads
    BY <1>1, <1>2 DEF FuseInv, TypeOK, HandleType
  <1>4. Journal' /\ Alone'
    <2>1. \A q : BeingMade(q) => BeingMade(q)'
      BY <1>1 DEF BeingMade
    <2> QED
      BY <1>1, <2>1, JournalStands DEF FuseInv, Alone, InJournal
  <1>5. ASSUME NEW t \in Threads PROVE ThreadAt(t)'
    <2>1. Leaves(t)
      BY <1>1 DEF Leaves
    <2> QED
      BY <2>1, OtherStands DEF FuseInv
  <1> QED
    BY <1>2, <1>3, <1>4, <1>5 DEF FuseInv

LEMMA StartUndoKeeps ==
  ASSUME FuseInv, NEW t \in Threads, StartUndo(t), ~raced'
  PROVE  FuseInv'
  <1> USE FuseAssumption
  <1>1. /\ at[t] = "idle" /\ at' = [at EXCEPT ![t] = "undo"] /\ idx' = [idx EXCEPT ![t] = jn - 1]
        /\ UNCHANGED <<files, jlog, jn, fd, req, base, lost>>
        /\ \A u \in Threads \ {t} : ~InJournal(u) /\ at[u] # "change"
        /\ raced' \in BOOLEAN
    BY DEF StartUndo
  <1>2. jn \in 0 .. JCap /\ jn - 1 \in -1 .. JCap - 1
    BY DEF FuseInv, TypeOK
  <1>3. /\ TypeOK' /\ DOMAIN req' = Threads /\ at'[t] = "undo" /\ idx'[t] = jn - 1 /\ LivePaths'
        /\ \A u \in Threads \ {t} : at'[u] = at[u] /\ req'[u] = req[u] /\ idx'[u] = idx[u]
    BY <1>1, <1>2 DEF FuseInv, TypeOK, LivePaths
  <1>4. \A u \in Threads \ {t} : Leaves(u)
    BY <1>1, <1>3 DEF Leaves
  <1>5. Journal'
    <2>1. \A q : BeingMade(q) => BeingMade(q)'
      BY <1>1 DEF BeingMade
    <2> QED
      BY <1>1, <2>1, JournalStands DEF FuseInv
  <1>6. ThreadAt(t)'
    <2>1. idx'[t] < jn' /\ \A i \in 0 .. jn' - 1 : ~(i > idx'[t])
      BY <1>1, <1>2, <1>3
    <2>2. req'[t].op # "create"
      BY <1>1 DEF FuseInv, ThreadAt
    <2> QED
      BY <1>3, <2>1, <2>2 DEF ThreadAt
  <1>7. Alone'
    BY <1>1, <1>3, <1>4, AloneStays DEF FuseInv
  <1> QED
    BY <1>3, <1>4, <1>5, <1>6, <1>7, FuseFollows

LEMMA UndoIsAlone ==
  ASSUME FuseInv, NEW t \in Threads, at[t] = "undo"
  PROVE  /\ \A u \in Threads : at[u] # "change" /\ req[u].op # "create"
         /\ \A u \in Threads \ {t} : ~InJournal(u)
  <1>1. InJournal(t) /\ req[t].op # "create"
    BY DEF InJournal, FuseInv, ThreadAt
  <1>2. \A u \in Threads \ {t} : ~InJournal(u)
    BY <1>1 DEF FuseInv, Alone
  <1>3. ASSUME NEW u \in Threads \ {t} PROVE req[u].op # "create"
    BY <1>2, <1>3 DEF FuseInv, ThreadAt, InJournal
  <1> QED
    BY <1>1, <1>2, <1>3 DEF FuseInv, Alone

LEMMA EndUndoKeeps ==
  ASSUME FuseInv, NEW t \in Threads, EndUndo(t)
  PROVE  FuseInv'
  <1> USE FuseAssumption
  <1>1. /\ at[t] = "undo" /\ Reply(t) /\ jn' = 0 /\ base' = files /\ lost' = {}
        /\ UNCHANGED <<files, jlog, fd, idx, raced>>
    BY DEF EndUndo
  <1>2. TypeOK' /\ DOMAIN req' = Threads /\ at'[t] = "idle" /\ LivePaths'
    BY <1>1, Replied DEF FuseInv, TypeOK, LivePaths
  <1>3. \A i : i \notin 0 .. jn' - 1
    BY <1>1
  <1>4. Journal'
    BY <1>1, <1>3 DEF Journal
  <1>5. ThreadAt(t)' /\ ~InJournal(t)'
    BY <1>1, Replied
  <1>6. \A u \in Threads \ {t} : Leaves(u)
    BY <1>1, UndoIsAlone, Replied DEF Leaves, InJournal
  <1>7. Alone'
    BY <1>2, <1>5, <1>6, AloneStays DEF FuseInv
  <1> QED
    BY <1>2, <1>4, <1>5, <1>6, <1>7, FuseFollows

(* Playing an entry back, or failing to, settles its file and no other one.   *)
LEMMA UndoEntryKeeps ==
  ASSUME FuseInv, NEW t \in Threads, UndoEntry(t)
  PROVE  FuseInv'
  <1> USE FuseAssumption
  <1>1. PICK i, e, p : i = idx[t] /\ e = jlog[i] /\ p = e.path
    OBVIOUS
  <1>2. /\ at[t] = "undo" /\ i >= 0 /\ idx' = [idx EXCEPT ![t] = @ - 1]
        /\ UNCHANGED <<jlog, jn, at, req, base, raced>>
    BY <1>1 DEF UndoEntry
  <1>3. /\ i \in -1 .. JCap - 1 /\ i < jn /\ jn \in 0 .. JCap /\ i \in 0 .. jn - 1
        /\ \A k \in 0 .. jn - 1 : k > i => Restored(k)
    <2>1. i \in -1 .. JCap - 1 /\ jn \in 0 .. JCap
      BY <1>1 DEF FuseInv, TypeOK
    <2>2. i < jn /\ \A k \in 0 .. jn - 1 : k > i => Restored(k)
      BY <1>1, <1>2 DEF FuseInv, ThreadAt
    <2>3. i \in 0 .. jn - 1
      BY <1>2, <2>1, <2>2
    <2> QED
      BY <2>1, <2>2, <2>3
  <1>4. e \in Entry /\ p \in Paths /\ (p \in lost \/ Means(e) = base[p]) /\ Means(e) \in Nodes
    <2>1. Recorded(e) /\ i \in 0 .. JCap /\ jlog \in [0 .. JCap -> Entry]
      BY <1>1, <1>3 DEF FuseInv, Journal, TypeOK
    <2>2. e \in Entry
      BY <1>1, <2>1
    <2> QED
      BY <1>1, <2>1, <2>2 DEF Recorded, Entry, Means, Nodes
  <1>5. /\ files' \in [Paths -> Nodes] /\ lost \subseteq lost' /\ lost' \subseteq Paths
        /\ \A q \in Paths : q # p => files'[q] = files[q]
        /\ p \in lost' \/ files'[p] = base[p]
        /\ fd' \in [Handles -> HandleType] /\ LivePaths'
    <2>1. /\ files \in [Paths -> Nodes] /\ lost \subseteq Paths
          /\ fd \in [Handles -> HandleType] /\ LivePaths
      BY DEF FuseInv, TypeOK, HandleType
    <2>2. CASE PutBack(p, e)
      <3>1. files' = [files EXCEPT ![p] = Means(e)] /\ lost' = lost
        BY <1>4, <2>2 DEF PutBack, Means
      <3>2. files' \in [Paths -> Nodes] /\ files'[p] = Means(e)
            /\ \A q \in Paths : q # p => files'[q] = files[q]
        BY <1>4, <2>1, <3>1
      <3>3. fd' = fd \/ fd' = Unnamed(p)
        BY <2>2 DEF PutBack
      <3>4. fd' \in [Handles -> HandleType] /\ LivePaths'
        BY <2>1, <3>3, UnnamedIs DEF LivePaths
      <3> QED
        BY <1>4, <2>1, <3>1, <3>2, <3>4
    <2>3. CASE PutBackFails(p, e)
      <3>1. lost' = lost \union {p} /\ UNCHANGED fd
            /\ (files' = files \/ \E c \in Contents : files' = [files EXCEPT ![p] = c])
        BY <2>3 DEF PutBackFails
      <3>2. Contents \subseteq Nodes
        BY DEF Nodes
      <3>3. files' \in [Paths -> Nodes] /\ \A q \in Paths : q # p => files'[q] = files[q]
        BY <2>1, <3>1, <3>2
      <3> QED
        BY <1>4, <2>1, <3>1, <3>3 DEF LivePaths
    <2> QED
      BY <1>1, <2>2, <2>3 DEF UndoEntry
  <1>6. /\ TypeOK' /\ DOMAIN req' = Threads /\ idx'[t] = i - 1 /\ at'[t] = "undo"
        /\ \A u \in Threads \ {t} : idx'[u] = idx[u]
    <2>1. /\ idx' \in [Threads -> -1 .. JCap - 1] /\ idx'[t] = i - 1
          /\ \A u \in Threads \ {t} : idx'[u] = idx[u]
      <3>1. idx \in [Threads -> -1 .. JCap - 1] /\ i - 1 \in -1 .. JCap - 1
        BY <1>2, <1>3 DEF FuseInv, TypeOK
      <3> QED
        BY <1>1, <1>2, <3>1
    <2> QED
      BY <1>2, <1>5, <2>1 DEF FuseInv, TypeOK, HandleType
  <1>7. \A u \in Threads \ {t} : Leaves(u)
    BY <1>2, <1>6, UndoIsAlone DEF Leaves, InJournal
  <1>8. Journalled(p)
    BY <1>1, <1>3 DEF Journalled
  <1>9. Journal'
    <2>1. \A q : BeingMade(q) => BeingMade(q)'
      BY <1>2 DEF BeingMade
    <2> QED
      BY <1>2, <1>5, <1>8, <2>1, JournalStands DEF FuseInv
  <1>10. ThreadAt(t)'
    <2>1. ASSUME NEW k \in 0 .. jn - 1, k > i - 1 PROVE Restored(k)'
      <3>1. PICK q : q = jlog[k].path
        OBVIOUS
      <3>2. q \in Paths /\ (k > i => q \in lost \/ files[q] = base[q]) /\ (k = i => q = p)
        BY <1>1, <1>3, <2>1, <3>1 DEF FuseInv, Journal, Recorded, Restored
      <3>3. k > i \/ k = i
        BY <1>3, <2>1
      <3>4. q \in lost' \/ files'[q] = base[q]
        BY <1>5, <3>2, <3>3
      <3> QED
        BY <1>2, <3>1, <3>4 DEF Restored
    <2>2. i - 1 < jn
      BY <1>3
    <2>3. req'[t].op # "create"
      BY <1>2, UndoIsAlone
    <2> QED
      BY <1>2, <1>6, <2>1, <2>2, <2>3 DEF ThreadAt
  <1>11. Alone'
    BY <1>2 DEF FuseInv, Alone, InJournal
  <1> QED
    BY <1>5, <1>6, <1>7, <1>9, <1>10, <1>11, FuseFollows

(* What has been raced stays raced. *)
FuseOk == raced \/ FuseInv

LEMMA RacedStays == ASSUME Next, raced PROVE raced'
  <1>1. ASSUME NEW t \in Threads,
               \/ \E h \in Handles, c \in Contents : Write(t, h, c)
               \/ \E p \in Paths : Truncate(t, p) \/ Unlink(t, p)
               \/ Fill(t) \/ CountEntry(t) \/ Change(t) \/ UndoEntry(t) \/ EndUndo(t)
        PROVE  raced'
    BY <1>1 DEF Write, Truncate, Unlink, Request, Fill, CountEntry, Change, UndoEntry, EndUndo,
                Release
  <1>2. ASSUME NEW t \in Threads,
               \/ \E p \in Paths, h \in Handles : Create(t, p, h)
               \/ \E p \in Paths, h \in Handles, trunc \in BOOLEAN : Open(t, p, h, trunc)
               \/ LookUp(t) \/ StartUndo(t)
        PROVE  raced'
    BY <1>2, Zenon DEF Create, Open, LookUp, StartUndo, Enter
  <1>3. ASSUME NEW h \in Handles, Release(h) PROVE raced'
    BY <1>3 DEF Release
  <1> QED
    BY <1>1, <1>2, <1>3 DEF Next

LEMMA FuseStep ==
  ASSUME FuseOk, [Next]_vars
  PROVE  FuseOk'
  <1>1. CASE UNCHANGED vars
    <2>1. raced' = raced
      BY <1>1 DEF vars
    <2>2. ASSUME FuseInv PROVE FuseInv'
      <3>1. /\ UNCHANGED <<files, jlog, jn, fd, at, req, idx, base, lost, raced>>
        BY <1>1 DEF vars
      <3>2. TypeOK' /\ DOMAIN req' = Threads /\ LivePaths' /\ Alone'
        BY <2>2, <3>1 DEF FuseInv, TypeOK, LivePaths, Alone, InJournal
      <3>3. Journal'
        <4>1. \A q : BeingMade(q) => BeingMade(q)'
          BY <3>1 DEF BeingMade
        <4> QED
          BY <2>2, <3>1, <4>1, JournalStands DEF FuseInv
      <3>4. ASSUME NEW t \in Threads PROVE ThreadAt(t)'
        <4>1. Leaves(t)
          BY <3>1 DEF Leaves
        <4> QED
          BY <2>2, <4>1, OtherStands DEF FuseInv
      <3> QED
        BY <3>2, <3>3, <3>4 DEF FuseInv
    <2> QED
      BY <2>1, <2>2 DEF FuseOk
  <1>2. CASE Next /\ raced
    BY <1>2, RacedStays DEF FuseOk
  <1>3. CASE Next /\ ~raced /\ ~raced'
    <2>0. FuseInv
      BY <1>3 DEF FuseOk
    <2>1. ASSUME NEW t \in Threads, NEW h \in Handles, NEW c \in Contents, Write(t, h, c)
          PROVE  FuseInv'
      BY <2>0, <2>1, WriteKeeps
    <2>2. ASSUME NEW t \in Threads, NEW p \in Paths, Truncate(t, p) \/ Unlink(t, p)
          PROVE  FuseInv'
      <3>1. PICK op \in {"truncate", "unlink"} : Request(t, op, p, "none", Empty)
        BY <2>2 DEF Truncate, Unlink
      <3>2. Empty \in Contents /\ op \in {"write", "truncate", "unlink"}
        BY FuseAssumption
      <3> QED
        BY <2>0, <3>1, <3>2, RequestKeeps
    <2>3. ASSUME NEW t \in Threads, \/ LookUp(t) \/ Fill(t) \/ CountEntry(t) \/ Change(t)
                                    \/ StartUndo(t) \/ UndoEntry(t) \/ EndUndo(t)
          PROVE  FuseInv'
      BY <1>3, <2>0, <2>3, LookUpKeeps, FillKeeps, CountEntryKeeps, ChangeKeeps, StartUndoKeeps,
         UndoEntryKeeps, EndUndoKeeps
    <2> QED
      BY <1>3, <2>0, <2>1, <2>2, <2>3, CreateKeeps, OpenKeeps, ReleaseKeeps DEF Next, FuseOk
  <1>4. CASE raced'
    BY <1>4 DEF FuseOk
  <1> QED
    BY <1>1, <1>2, <1>3, <1>4

LEMMA FuseImplies == FuseInv => TypeOK /\ JournalHoldsBase
  <1> SUFFICES ASSUME FuseInv, NEW p \in Paths \ lost, Journalled(p) \/ ~BeingMade(p)
               PROVE  Undone(p) = base[p]
    BY DEF FuseInv, JournalHoldsBase
  <1>1. CASE ~Journalled(p)
    BY <1>1 DEF FuseInv, Journal, Undone
  <1>2. CASE Journalled(p)
    <2>1. PICK i \in 0 .. jn - 1 : jlog[i].path = p
      BY <1>2 DEF Journalled
    <2>2. jn \in Int
      BY DEF FuseInv, TypeOK
    <2>3. \A k \in 0 .. i - 1 : k \in 0 .. jn - 1 /\ k # i
      BY <2>1, <2>2
    <2>4. \A k \in 0 .. i - 1 : jlog[k].path # p
      BY <2>1, <2>3 DEF FuseInv, Journal
    <2>5. PICK n : n = CHOOSE j \in 0 .. jn - 1 :
                         jlog[j].path = p /\ \A k \in 0 .. j - 1 : jlog[k].path # p
      OBVIOUS
    <2>6. n \in 0 .. jn - 1 /\ jlog[n].path = p
      BY <2>1, <2>4, <2>5
    <2>7. Oldest(p) = jlog[n]
      BY <2>5 DEF Oldest
    <2>8. Means(jlog[n]) = base[p]
      BY <2>6 DEF FuseInv, Journal, Recorded
    <2> QED
      BY <1>2, <2>7, <2>8 DEF Undone, Means
  <1> QED
    BY <1>1, <1>2

(* The reversible overlay, with any number of threads: until two handlers are *)
(* in the journal at once, it can give back the files as they were when it    *)
(* was last empty, whatever requests do in between and side by side, but for  *)
(* names that were truncated by open, created with the journal full, were no  *)
(* regular files or met an error (save_orig, ph_create and the handlers,     *)
(* phase_fuse.c 37-116). One thread (phase_fuse -s) never races with itself.  *)
THEOREM JournalGivesBack == NativeSpec => []FuseSafe
  <1>1. NativeInit => FuseOk
    BY FuseInit DEF NativeInit, FuseOk
  <1>2. FuseOk /\ [NativeNext]_nativeVars => FuseOk'
    BY FuseStep DEF NativeNext, FuseRuns, FramesRun, PoolRuns, MallocRuns, nativeVars
  <1>3. FuseOk => FuseSafe
    BY FuseImplies DEF FuseOk, FuseSafe
  <1> QED
    BY <1>1, <1>2, <1>3, PTL DEF NativeSpec

(* The only way from an undo to the answer is past the first entry.           *)
LEMMA UndoEnds ==
  ASSUME NEW t \in Threads, Next, at[t] = "undo", at'[t] = "idle", FuseInv
  PROVE  EndUndo(t)
  <1>1. at \in [Threads -> {"idle", "save", "entry", "count", "change", "undo"}]
    BY DEF FuseInv, TypeOK
  <1>2. ASSUME NEW u \in Threads, u # t, NEW s, at' = at \/ at' = [at EXCEPT ![u] = s]
        PROVE  FALSE
    BY <1>1, <1>2
  <1>3. ASSUME NEW u \in Threads,
               \/ \E h \in Handles, c \in Contents : Write(u, h, c)
               \/ \E p \in Paths : Truncate(u, p) \/ Unlink(u, p)
               \/ \E p \in Paths, h \in Handles : Create(u, p, h)
               \/ LookUp(u) \/ Fill(u) \/ CountEntry(u) \/ Change(u) \/ StartUndo(u)
        PROVE  FALSE
    <2>1. at[u] # "undo"
      BY <1>3 DEF Write, Truncate, Unlink, Request, Create, LookUp, Fill, CountEntry, Change,
                  StartUndo
    <2>2. \E s : at' = [at EXCEPT ![u] = s]
      BY <1>3 DEF Write, Truncate, Unlink, Request, Create, LookUp, Fill, NotSaved, Saved,
                  SavedShort, SavedAbsent, PutEntry, CountEntry, Change, StartUndo, Reply
    <2> QED
      BY <1>2, <2>1, <2>2
  <1>4. ASSUME NEW u \in Threads,
               \/ \E p \in Paths, h \in Handles, trunc \in BOOLEAN : Open(u, p, h, trunc)
               \/ UndoEntry(u)
        PROVE  FALSE
    BY <1>4 DEF Open, UndoEntry
  <1>5. ASSUME NEW h \in Handles, Release(h) PROVE FALSE
    BY <1>5 DEF Release
  <1>6. ASSUME NEW u \in Threads, EndUndo(u) PROVE u = t
    BY <1>2, <1>6 DEF EndUndo, Reply
  <1>7. \E u \in Threads : EndUndo(u)
    BY <1>3, <1>4, <1>5 DEF Next
  <1> QED
    BY <1>6, <1>7

(* The same overlay: a write to /.phase_undo that has been answered, before   *)
(* two handlers were in the journal at once, leaves those files as they were  *)
(* when the journal was last empty, also when another restoration failed      *)
(* (undo_all, phase_fuse.c 57-73).                                            *)
THEOREM UndoGivesBack == NativeSpec => UndoRestores
  <1>1. NativeInit => FuseOk
    BY FuseInit DEF NativeInit, FuseOk
  <1>2. FuseOk /\ [NativeNext]_nativeVars => FuseOk'
    BY FuseStep DEF NativeNext, FuseRuns, FramesRun, PoolRuns, MallocRuns, nativeVars
  <1>3. FuseOk /\ [NativeNext]_nativeVars
          => [\A t \in Threads :
                ~raced /\ at[t] = "undo" /\ at'[t] = "idle" =>
                  \A p \in Paths \ lost : files[p] = base[p]]_vars
    <2> SUFFICES ASSUME FuseOk, Next, ~raced, NEW t \in Threads, at[t] = "undo", at'[t] = "idle",
                        NEW p \in Paths \ lost
                 PROVE  files[p] = base[p]
      BY DEF NativeNext, FuseRuns, FramesRun, PoolRuns, MallocRuns, nativeVars
    <2>0. FuseInv
      BY DEF FuseOk
    <2>1. idx[t] < 0 /\ jn \in Int /\ idx[t] \in Int
      BY <2>0, UndoEnds DEF EndUndo, FuseInv, TypeOK
    <2>2. \A i \in 0 .. jn - 1 : Restored(i)
      BY <2>0, <2>1 DEF FuseInv, ThreadAt
    <2>3. ~BeingMade(p)
      BY <2>0, UndoIsAlone DEF BeingMade
    <2> QED
      BY <2>0, <2>2, <2>3 DEF FuseInv, Journal, Journalled, Restored
  <1> QED
    BY <1>1, <1>2, <1>3, PTL DEF NativeSpec, UndoRestores

=============================================================================
