----------------------------- MODULE SfsProofs -----------------------------
(***************************************************************************)
(* Proofs about Sfs for every size of blocks, inodes and image, every set  *)
(* of files and descriptors and every sequence of calls: no block is lost  *)
(* or owned twice, and what is not marked dirty is on the disk but for the *)
(* count of blocks of an inode, which may lag behind.                      *)
(*                                                                         *)
(* A call works on one inode and on the free blocks.  The blocks it may    *)
(* touch, its region R, are the free ones and those of the inode; Own says *)
(* that they are shared out between the freemap, the places of the inode   *)
(* and, half way through an allocation, the set X of blocks that are taken *)
(* and not yet named anywhere.  The operators of a call keep Own and leave *)
(* every block outside R alone, which is what the other inodes need.       *)
(***************************************************************************)
EXTENDS Sfs, TLAPS, FiniteSetTheorems, WellFoundedInduction, NaturalsInduction

(* The places of an inode that may name a block: direct blocks, the index  *)
(* block, and the entries of the index block.                              *)
Places == 0..(NDIRECT + BLKSIZE)
RefAt(din, blk, p) ==
  IF p < NDIRECT THEN din.direct[p]
  ELSE IF p = NDIRECT THEN din.indirect
  ELSE IF din.indirect = 0 THEN 0
  ELSE blk[din.indirect][p - NDIRECT - 1]
Refs(din, blk) == [p \in Places |-> RefAt(din, blk, p)]

Disk == [Blocks -> [Offsets -> Int]]
Dins == [size : Nat, type : {"dir", "file"}, nlinks : Nat, blocks : 0..(NDIRECT + BLKSIZE),
         direct : [0..(NDIRECT - 1) -> Nat], indirect : Nat]

Own(free, r, X, R) ==
  /\ free \subseteq R /\ X \subseteq R /\ free \cap X = {}
  /\ \A p, q \in Places : r[p] = r[q] /\ r[p] # 0 => p = q
  /\ \A p \in Places : r[p] # 0 => r[p] \in R \ (free \cup X)
  /\ \A b \in R : b \in free \cup X \/ \E p \in Places : r[p] = b

-----------------------------------------------------------------------------
(* Blocks taken, named, dropped and given back.                            *)

LEMMA OwnTake ==
  ASSUME NEW R, NEW free, NEW X, NEW r, Own(free, r, X, R), NEW b \in free
  PROVE  Own(free \ {b}, r, X \cup {b}, R)
  BY DEF Own

LEMMA OwnGive ==
  ASSUME NEW R, NEW free, NEW X, NEW r, Own(free, r, X, R), NEW b \in X
  PROVE  Own(free \cup {b}, r, X \ {b}, R)
  BY DEF Own

LEMMA OwnName ==
  ASSUME NEW R, NEW free, NEW X, NEW r, NEW s, Own(free, r, X, R), 0 \notin R,
         NEW b \in X, NEW t \in Places, r[t] = 0, s[t] = b,
         \A p \in Places : p # t => s[p] = r[p]
  PROVE  Own(free, s, X \ {b}, R)
<1>1. b # 0 /\ b \in R /\ b \notin free
  BY DEF Own
<1>2. \A p \in Places : r[p] # b
  BY <1>1 DEF Own
<1>3. \A p, q \in Places : s[p] = s[q] /\ s[p] # 0 => p = q
  BY <1>2 DEF Own
<1>4. \A p \in Places : s[p] # 0 => s[p] \in R \ (free \cup (X \ {b}))
  BY <1>1 DEF Own
<1>5. ASSUME NEW c \in R, c \notin free \cup (X \ {b}) PROVE \E p \in Places : s[p] = c
  <2>1. CASE c = b
    BY <2>1
  <2>2. CASE c # b
    <3>1. PICK p \in Places : r[p] = c
      BY <1>5, <2>2 DEF Own
    <3>2. c # 0
      OBVIOUS
    <3>3. p # t
      BY <3>1, <3>2
    <3>4. QED
      BY <3>1, <3>3
  <2>3. QED
    BY <2>1, <2>2
<1>6. QED
  BY <1>3, <1>4, <1>5 DEF Own

LEMMA OwnDrop ==
  ASSUME NEW R, NEW free, NEW X, NEW r, NEW s, Own(free, r, X, R), 0 \notin R,
         NEW t \in Places, r[t] # 0, s[t] = 0,
         \A p \in Places : p # t => s[p] = r[p]
  PROVE  Own(free \cup {r[t]}, s, X, R)
<1>1. r[t] \in R /\ r[t] \notin free \cup X
  BY DEF Own
<1>2. \A p \in Places : p # t => r[p] # r[t]
  BY DEF Own
<1>3. \A p, q \in Places : s[p] = s[q] /\ s[p] # 0 => p = q
  BY DEF Own
<1>4. \A p \in Places : s[p] # 0 => s[p] \in R \ ((free \cup {r[t]}) \cup X)
  BY <1>2 DEF Own
<1>5. ASSUME NEW c \in R, c \notin (free \cup {r[t]}) \cup X PROVE \E p \in Places : s[p] = c
  <2>1. PICK p \in Places : r[p] = c
    BY <1>5 DEF Own
  <2>2. p # t
    BY <1>5, <2>1
  <2>3. QED
    BY <2>1, <2>2
<1>6. QED
  BY <1>1, <1>3, <1>4, <1>5 DEF Own

LEMMA OwnSame ==
  ASSUME NEW R, NEW free, NEW X, NEW r, NEW s, Own(free, r, X, R),
         \A p \in Places : s[p] = r[p]
  PROVE  Own(free, s, X, R)
  BY DEF Own

-----------------------------------------------------------------------------
(* Numbers.                                                                *)

LEMMA LeastNumber ==
  ASSUME NEW T \in SUBSET Nat, T # {}
  PROVE  \E n \in T : \A m \in T : n <= m
<1>1. IsWellFoundedOn(OpToRel(<, Nat), Nat)
  BY NatLessThanWellFounded, Zenon
<1>2. \E n \in T : \A m \in T : ~ (<<m, n>> \in OpToRel(<, Nat))
  BY <1>1, WFMin, Zenon
<1>3. ASSUME NEW n \in T, NEW m \in T, ~ (<<m, n>> \in OpToRel(<, Nat))
      PROVE  n <= m
  BY <1>3 DEF OpToRel
<1>4. QED
  BY <1>2, <1>3, Zenon

LEMMA Sizes ==
  /\ BLKSIZE \in Nat /\ BLKSIZE >= 2 /\ NDIRECT \in Nat /\ NDIRECT >= 1 /\ NBLKS \in Nat /\ NBLKS >= 6
  /\ Blocks \subseteq Nat /\ 0 \in Blocks /\ 1 \in Blocks /\ 2 \in Blocks
  BY SfsAssumption DEF Blocks

LEMMA BlocksFinite ==
  ASSUME NEW S \in SUBSET Blocks
  PROVE  IsFiniteSet(S) /\ Cardinality(S) \in Nat
<1>1. IsFiniteSet(0..(NBLKS - 1))
  BY SfsAssumption, FS_Interval
<1>2. IsFiniteSet(S)
  BY <1>1, FS_Subset DEF Blocks
<1>3. QED
  BY <1>2, FS_CardinalityType

LEMMA FirstFree ==
  ASSUME NEW free \in SUBSET Blocks, free # {}
  PROVE  bitmap_alloc(free) \in free
<1>1. free \in SUBSET Nat
  BY Sizes
<1>2. \E n \in free : \A m \in free : n <= m
  BY <1>1, LeastNumber
<1>3. QED
  BY <1>2, Zenon DEF bitmap_alloc, Min

LEMMA CountTaken ==
  ASSUME NEW free \in SUBSET Blocks, NEW b \in free
  PROVE  Cardinality(free \ {b}) = Cardinality(free) - 1
  BY BlocksFinite, FS_RemoveElement

LEMMA CountGiven ==
  ASSUME NEW free \in SUBSET Blocks, NEW b \in Blocks, b \notin free
  PROVE  Cardinality(free \cup {b}) = Cardinality(free) + 1
  BY BlocksFinite, FS_AddElement

-----------------------------------------------------------------------------
(* The record a call works on.                                             *)

Mems == [free : SUBSET Blocks, unused : Int, sdirty : BOOLEAN, blk : Disk, din : Dins,
         dirty : BOOLEAN, ok : BOOLEAN, panic : BOOLEAN, alen : Nat, buf : Seq(Int)]

(* Inode d differs from e in its block count at most, and that is not      *)
(* smaller.                                                                *)
Same(d, e) ==
  /\ d.size = e.size /\ d.type = e.type /\ d.nlinks = e.nlinks
  /\ d.direct = e.direct /\ d.indirect = e.indirect
  /\ e.blocks \in 0..d.blocks

LEMMA SameSelf == ASSUME NEW d \in Dins PROVE Same(d, d)
<1>1. d.blocks \in Nat
  BY Sizes DEF Dins
<1>2. QED
  BY <1>1 DEF Same

(* What a call on inode i has kept so far, with the blocks X in its hands. *)
Holds(m, R, i, X) ==
  /\ m \in Mems
  /\ Own(m.free, Refs(m.din, m.blk), X, R)
  /\ m.unused = Cardinality(m.free)
  /\ \A x \in Blocks \ R : m.blk[x] = disk.blk[x]
  /\ ~ m.dirty => Same(m.din, disk.inode[i])
  /\ ~ m.sdirty => m.free = disk.freemap /\ m.unused = disk.super.unused

LEMMA RefDirect ==
  ASSUME NEW din, NEW blk, NEW k \in 0..(NDIRECT - 1)
  PROVE  k \in Places /\ Refs(din, blk)[k] = din.direct[k]
  BY Sizes DEF Places, Refs, RefAt

LEMMA RefIndex ==
  ASSUME NEW din, NEW blk
  PROVE  NDIRECT \in Places /\ Refs(din, blk)[NDIRECT] = din.indirect
  BY Sizes DEF Places, Refs, RefAt

LEMMA RefEntry ==
  ASSUME NEW din, NEW blk, NEW k \in Offsets
  PROVE  /\ k + NDIRECT + 1 \in Places
         /\ Refs(din, blk)[k + NDIRECT + 1] = IF din.indirect = 0 THEN 0 ELSE blk[din.indirect][k]
<1>1. /\ k + NDIRECT + 1 \in Places /\ ~ (k + NDIRECT + 1 < NDIRECT)
      /\ k + NDIRECT + 1 # NDIRECT /\ (k + NDIRECT + 1) - NDIRECT - 1 = k
  BY Sizes DEF Places, Offsets
<1>2. QED
  BY <1>1 DEF Refs, RefAt

LEMMA PlaceKinds ==
  ASSUME NEW p \in Places
  PROVE  \/ p \in 0..(NDIRECT - 1)
         \/ p = NDIRECT
         \/ \E k \in Offsets : p = k + NDIRECT + 1
<1>1. ASSUME ~ (p <= NDIRECT)
      PROVE  p - NDIRECT - 1 \in Offsets /\ p = (p - NDIRECT - 1) + NDIRECT + 1
  BY <1>1, Sizes DEF Places, Offsets
<1>2. QED
  BY <1>1, Sizes DEF Places

(* Places of an inode are not disturbed by changes outside its index block. *)
LEMMA RefsKept ==
  ASSUME NEW din \in Dins, NEW e \in Dins, NEW blk, NEW blk2,
         din.direct = e.direct, din.indirect = e.indirect,
         din.indirect = 0 \/ blk2[din.indirect] = blk[din.indirect]
  PROVE  Refs(e, blk2) = Refs(din, blk)
<1>1. \A p \in Places : RefAt(e, blk2, p) = RefAt(din, blk, p)
  BY DEF RefAt
<1>2. QED
  BY <1>1 DEF Refs

(* The index block of an inode is in its region and neither free nor in    *)
(* the hands of the call.                                                  *)
LEMMA IndexOwned ==
  ASSUME NEW m, NEW R, NEW i, NEW X, Holds(m, R, i, X), m.din.indirect # 0
  PROVE  m.din.indirect \in R /\ m.din.indirect \notin m.free /\ m.din.indirect \notin X
<1>1. NDIRECT \in Places /\ Refs(m.din, m.blk)[NDIRECT] = m.din.indirect
  BY RefIndex
<1>2. QED
  BY <1>1 DEF Holds, Own

-----------------------------------------------------------------------------
(* sfs_block_alloc and sfs_block_free.                                     *)

LEMMA ZeroWords == ZeroBlock \in [Offsets -> Int] /\ StaleBlock \in [Offsets -> Int]
  BY DEF ZeroBlock, StaleBlock

LEMMA AllocFields ==
  ASSUME NEW m \in Mems, m.free # {}
  PROVE  LET b == bitmap_alloc(m.free)
             n == block_alloc(m)
         IN  /\ b \in m.free
             /\ n \in Mems
             /\ n.free = m.free \ {b} /\ n.unused = m.unused - 1 /\ n.sdirty = TRUE
             /\ n.blk = [m.blk EXCEPT ![b] = ZeroBlock]
             /\ n.din = m.din /\ n.dirty = m.dirty /\ n.ok = m.ok /\ n.panic = m.panic
<1> DEFINE b == bitmap_alloc(m.free)
           blk == [m.blk EXCEPT ![b] = ZeroBlock]
           n == [m EXCEPT !.free = m.free \ {b}, !.unused = m.unused - 1, !.sdirty = TRUE, !.blk = blk]
<1>1. b \in m.free /\ m.free \in SUBSET Blocks /\ m.blk \in Disk /\ m.unused \in Int
  BY FirstFree DEF Mems
<1>2. block_alloc(m) = n
  BY DEF block_alloc, cleared
<1>3. blk \in Disk
  BY <1>1, ZeroWords DEF Disk
<1>4. m.free \ {b} \in SUBSET Blocks /\ m.unused - 1 \in Int
  BY <1>1
<1> HIDE DEF b, blk
<1>5. n \in Mems
  BY <1>3, <1>4 DEF Mems
<1>6. /\ n.free = m.free \ {b} /\ n.unused = m.unused - 1 /\ n.sdirty = TRUE
      /\ n.blk = blk /\ n.din = m.din /\ n.dirty = m.dirty /\ n.ok = m.ok /\ n.panic = m.panic
  BY DEF Mems
<1>7. QED
  BY <1>1, <1>2, <1>5, <1>6 DEF b, blk

LEMMA AllocStep ==
  ASSUME NEW R \in SUBSET Blocks, NEW m, NEW i, NEW X, Holds(m, R, i, X), m.free # {}
  PROVE  LET b == bitmap_alloc(m.free)
             n == block_alloc(m)
         IN  /\ b \in m.free /\ b \notin X /\ b \in R
             /\ Holds(n, R, i, X \cup {b})
             /\ n.blk[b] = ZeroBlock /\ \A x \in Blocks : x # b => n.blk[x] = m.blk[x]
             /\ n.din = m.din /\ n.dirty = m.dirty /\ n.ok = m.ok /\ n.panic = m.panic
<1> DEFINE b == bitmap_alloc(m.free)
           n == block_alloc(m)
<1>1. /\ b \in m.free /\ n \in Mems
      /\ n.free = m.free \ {b} /\ n.unused = m.unused - 1 /\ n.sdirty = TRUE
      /\ n.blk = [m.blk EXCEPT ![b] = ZeroBlock]
      /\ n.din = m.din /\ n.dirty = m.dirty /\ n.ok = m.ok /\ n.panic = m.panic
  BY AllocFields DEF Holds
<1> HIDE DEF b, n
<1>2. b \in R /\ b \notin X /\ b \in Blocks
  BY <1>1 DEF Holds, Own
<1>3. m.blk \in Disk /\ m.din \in Dins /\ m.free \in SUBSET Blocks /\ n.din \in Dins
  BY <1>1 DEF Holds, Mems
<1>4. n.blk[b] = ZeroBlock /\ \A x \in Blocks : x # b => n.blk[x] = m.blk[x]
  <2>1. DOMAIN m.blk = Blocks
    BY <1>3 DEF Disk
  <2>2. QED
    BY <1>1, <1>2, <2>1
<1>5. m.din.indirect = 0 \/ n.blk[m.din.indirect] = m.blk[m.din.indirect]
  BY <1>1, <1>4, IndexOwned
<1>6. Refs(n.din, n.blk) = Refs(m.din, m.blk)
  <2>1. Refs(m.din, n.blk) = Refs(m.din, m.blk)
    BY <1>3, <1>5, RefsKept
  <2>2. QED
    BY <1>1, <2>1
<1>7. Own(n.free, Refs(n.din, n.blk), X \cup {b}, R)
  BY <1>1, <1>6, OwnTake DEF Holds
<1>8. n.unused = Cardinality(n.free)
  BY <1>1, <1>3, CountTaken DEF Holds
<1>9. \A x \in Blocks \ R : n.blk[x] = disk.blk[x]
  BY <1>2, <1>4 DEF Holds
<1>10. ~ n.dirty => Same(n.din, disk.inode[i])
  BY <1>1 DEF Holds
<1>11. Holds(n, R, i, X \cup {b})
  BY <1>1, <1>7, <1>8, <1>9, <1>10 DEF Holds
<1>12. QED
  BY <1>1, <1>2, <1>4, <1>11 DEF b, n

LEMMA FreeFields ==
  ASSUME NEW m \in Mems, NEW b \in Blocks, b \notin m.free
  PROVE  LET n == block_free(m, b)
         IN  /\ n \in Mems
             /\ n.free = m.free \cup {b} /\ n.unused = m.unused + 1 /\ n.sdirty = TRUE
             /\ n.blk = [m.blk EXCEPT ![b] = StaleBlock]
             /\ n.din = m.din /\ n.dirty = m.dirty /\ n.ok = m.ok /\ n.panic = m.panic
<1> DEFINE pan == m.panic \/ b \in m.free
           blk == [m.blk EXCEPT ![b] = StaleBlock]
           n == [m EXCEPT !.free = m.free \cup {b}, !.unused = m.unused + 1, !.sdirty = TRUE,
                          !.blk = blk, !.panic = pan]
<1>1. m.free \in SUBSET Blocks /\ m.blk \in Disk /\ m.unused \in Int /\ m.panic \in BOOLEAN
  BY DEF Mems
<1>2. pan = m.panic
  BY <1>1, Zenon
<1>3. blk \in Disk
  BY <1>1, ZeroWords DEF Disk
<1>4. block_free(m, b) = n
  BY DEF block_free
<1> HIDE DEF pan, blk
<1>5. n \in Mems
  <2>1. pan \in BOOLEAN /\ m.free \cup {b} \in SUBSET Blocks /\ m.unused + 1 \in Int
    BY <1>1, <1>2
  <2>2. QED
    BY <1>3, <2>1 DEF Mems
<1>6. /\ n.free = m.free \cup {b} /\ n.unused = m.unused + 1 /\ n.sdirty = TRUE
      /\ n.blk = blk /\ n.din = m.din /\ n.dirty = m.dirty /\ n.ok = m.ok /\ n.panic = pan
  BY DEF Mems
<1>7. QED
  BY <1>2, <1>4, <1>5, <1>6 DEF blk

(* A block that no place names is given back.                              *)
LEMMA FreeStep ==
  ASSUME NEW R \in SUBSET Blocks, NEW m, NEW i, NEW X, Holds(m, R, i, X), NEW b \in X
  PROVE  LET n == block_free(m, b)
         IN  /\ Holds(n, R, i, X \ {b})
             /\ n.din = m.din /\ n.ok = m.ok /\ n.panic = m.panic
<1> DEFINE n == block_free(m, b)
<1>1. b \in R /\ b \in Blocks /\ b \notin m.free /\ m \in Mems
  BY DEF Holds, Own
<1>2. /\ n \in Mems
      /\ n.free = m.free \cup {b} /\ n.unused = m.unused + 1 /\ n.sdirty = TRUE
      /\ n.blk = [m.blk EXCEPT ![b] = StaleBlock]
      /\ n.din = m.din /\ n.dirty = m.dirty /\ n.ok = m.ok /\ n.panic = m.panic
  BY <1>1, FreeFields
<1> HIDE DEF n
<1>3. m.blk \in Disk /\ m.din \in Dins /\ m.free \in SUBSET Blocks /\ n.din \in Dins
  BY <1>2 DEF Holds, Mems
<1>4. \A x \in Blocks : x # b => n.blk[x] = m.blk[x]
  <2>1. DOMAIN m.blk = Blocks
    BY <1>3 DEF Disk
  <2>2. QED
    BY <1>1, <1>2, <2>1
<1>5. m.din.indirect = 0 \/ n.blk[m.din.indirect] = m.blk[m.din.indirect]
  BY <1>1, <1>4, IndexOwned
<1>6. Refs(n.din, n.blk) = Refs(m.din, m.blk)
  <2>1. Refs(m.din, n.blk) = Refs(m.din, m.blk)
    BY <1>3, <1>5, RefsKept
  <2>2. QED
    BY <1>2, <2>1
<1>7. Own(n.free, Refs(n.din, n.blk), X \ {b}, R)
  BY <1>2, <1>6, OwnGive DEF Holds
<1>8. n.unused = Cardinality(n.free)
  BY <1>1, <1>2, <1>3, CountGiven DEF Holds
<1>9. \A x \in Blocks \ R : n.blk[x] = disk.blk[x]
  BY <1>1, <1>4 DEF Holds
<1>10. ~ n.dirty => Same(n.din, disk.inode[i])
  BY <1>2 DEF Holds
<1>11. Holds(n, R, i, X \ {b})
  BY <1>2, <1>7, <1>8, <1>9, <1>10 DEF Holds
<1>12. QED
  BY <1>2, <1>11 DEF n

-----------------------------------------------------------------------------
(* sfs_bmap_get_nolock: a block gets a place.                              *)

(* Only whether the call goes on has changed.                              *)
LEMMA HoldsOn ==
  ASSUME NEW R, NEW m, NEW i, NEW X, Holds(m, R, i, X), NEW n \in Mems,
         n.free = m.free, n.unused = m.unused, n.sdirty = m.sdirty,
         n.blk = m.blk, n.din = m.din, n.dirty = m.dirty
  PROVE  Holds(n, R, i, X)
  BY DEF Holds

LEMMA StopFields ==
  ASSUME NEW m \in Mems
  PROVE  /\ [m EXCEPT !.ok = FALSE] \in Mems /\ [m EXCEPT !.panic = TRUE] \in Mems
         /\ [m EXCEPT !.ok = FALSE].ok = FALSE /\ [m EXCEPT !.panic = TRUE].panic = TRUE
         /\ [m EXCEPT !.panic = TRUE].din = m.din /\ [m EXCEPT !.ok = FALSE].din = m.din
         /\ [m EXCEPT !.ok = FALSE].panic = m.panic
  BY DEF Mems

LEMMA StopStep ==
  ASSUME NEW R, NEW m, NEW i, NEW X, Holds(m, R, i, X)
  PROVE  Holds([m EXCEPT !.ok = FALSE], R, i, X) /\ Holds([m EXCEPT !.panic = TRUE], R, i, X)
<1>1. m \in Mems
  BY DEF Holds
<1> DEFINE n == [m EXCEPT !.ok = FALSE]
           o == [m EXCEPT !.panic = TRUE]
<1>2. /\ n \in Mems /\ n.free = m.free /\ n.unused = m.unused /\ n.sdirty = m.sdirty
      /\ n.blk = m.blk /\ n.din = m.din /\ n.dirty = m.dirty
  BY <1>1 DEF Mems
<1>3. /\ o \in Mems /\ o.free = m.free /\ o.unused = m.unused /\ o.sdirty = m.sdirty
      /\ o.blk = m.blk /\ o.din = m.din /\ o.dirty = m.dirty
  BY <1>1 DEF Mems
<1> HIDE DEF n, o
<1>4. Holds(n, R, i, X)
  BY <1>2, HoldsOn
<1>5. Holds(o, R, i, X)
  BY <1>3, HoldsOn
<1>6. QED
  BY <1>4, <1>5 DEF n, o

LEMMA DirectSetFields ==
  ASSUME NEW m \in Mems, NEW b \in Nat, NEW k \in 0..(NDIRECT - 1), m.ok
  PROVE  LET n == direct_set(m, b, k)
         IN  /\ n \in Mems
             /\ n.free = m.free /\ n.unused = m.unused /\ n.sdirty = m.sdirty /\ n.blk = m.blk
             /\ n.din.direct = [m.din.direct EXCEPT ![k] = b] /\ n.din.indirect = m.din.indirect
             /\ n.din.blocks = m.din.blocks
             /\ n.dirty = TRUE /\ n.ok = m.ok /\ n.panic = m.panic
<1> DEFINE dir == [m.din.direct EXCEPT ![k] = b]
           d == [m.din EXCEPT !.direct = dir]
           n == [m EXCEPT !.din = d, !.dirty = TRUE]
<1>1. m.din \in Dins /\ m.din.direct \in [0..(NDIRECT - 1) -> Nat]
  BY DEF Mems, Dins
<1>2. dir \in [0..(NDIRECT - 1) -> Nat]
  BY <1>1
<1>3. direct_set(m, b, k) = n
  BY DEF direct_set
<1> HIDE DEF dir
<1>4. /\ d \in Dins /\ d.direct = dir /\ d.indirect = m.din.indirect /\ d.blocks = m.din.blocks
  BY <1>1, <1>2 DEF Dins
<1> HIDE DEF d
<1>5. n \in Mems
  BY <1>4 DEF Mems
<1>6. /\ n.free = m.free /\ n.unused = m.unused /\ n.sdirty = m.sdirty /\ n.blk = m.blk
      /\ n.din = d /\ n.dirty = TRUE /\ n.ok = m.ok /\ n.panic = m.panic
  BY DEF Mems
<1>7. QED
  BY <1>3, <1>4, <1>5, <1>6 DEF dir

LEMMA DirectSetStep ==
  ASSUME NEW R \in SUBSET Blocks, 0 \notin R, NEW m, NEW i, NEW X, Holds(m, R, i, X),
         NEW b \in X, NEW k \in 0..(NDIRECT - 1), m.din.direct[k] = 0, m.ok
  PROVE  LET n == direct_set(m, b, k)
         IN  /\ Holds(n, R, i, X \ {b})
             /\ n.din.blocks = m.din.blocks /\ n.ok = m.ok /\ n.panic = m.panic
<1> DEFINE n == direct_set(m, b, k)
<1>1. b \in R /\ b \in Nat /\ m \in Mems
  BY Sizes DEF Holds, Own
<1>2. /\ n \in Mems
      /\ n.free = m.free /\ n.unused = m.unused /\ n.sdirty = m.sdirty /\ n.blk = m.blk
      /\ n.din.direct = [m.din.direct EXCEPT ![k] = b] /\ n.din.indirect = m.din.indirect
      /\ n.din.blocks = m.din.blocks
      /\ n.dirty = TRUE /\ n.ok = m.ok /\ n.panic = m.panic
  BY <1>1, DirectSetFields, ZenonT(60)
<1> HIDE DEF n
<1>3. /\ m.din \in Dins /\ n.din \in Dins /\ m.blk \in Disk
      /\ m.din.direct \in [0..(NDIRECT - 1) -> Nat]
  BY <1>1, <1>2 DEF Mems, Dins
<1> DEFINE r == Refs(m.din, m.blk)
           s == Refs(n.din, m.blk)
<1>4. k \in Places /\ r[k] = 0 /\ s[k] = b
  <2>1. k \in Places /\ r[k] = m.din.direct[k] /\ s[k] = n.din.direct[k]
    BY RefDirect
  <2>2. QED
    BY <1>2, <1>3, <2>1
<1>5. ASSUME NEW p \in Places, p # k PROVE s[p] = r[p]
  <2>1. CASE p \in 0..(NDIRECT - 1)
    <3>1. s[p] = n.din.direct[p] /\ r[p] = m.din.direct[p]
      BY <2>1, RefDirect
    <3>2. QED
      BY <1>2, <1>3, <1>5, <2>1, <3>1
  <2>2. CASE ~ (p < NDIRECT)
    BY <1>2, <1>3, <2>2 DEF Refs, RefAt
  <2>3. QED
    BY <2>1, <2>2, Sizes DEF Places
<1> HIDE DEF r, s
<1>6. Own(m.free, s, X \ {b}, R)
  <2>1. Own(m.free, r, X, R)
    BY DEF Holds, r
  <2>2. QED
    BY <1>4, <1>5, <2>1, OwnName
<1>7. Holds(n, R, i, X \ {b})
  BY <1>2, <1>6 DEF Holds, s
<1>8. QED
  BY <1>2, <1>7 DEF n

\* a block with one word changed
WordPut(blk, e, k, w) == [blk EXCEPT ![e][k] = w]

WordIsPut(new, blk, e, k, w) ==
  /\ new \in Disk
  /\ new[e][k] = w
  /\ \A o \in Offsets : o # k => new[e][o] = blk[e][o]
  /\ \A x \in Blocks : x # e => new[x] = blk[x]

LEMMA WordPutFields ==
  ASSUME NEW blk \in Disk, NEW e \in Blocks, NEW k \in Offsets, NEW w \in Int
  PROVE  WordIsPut(WordPut(blk, e, k, w), blk, e, k, w)
  BY DEF WordPut, WordIsPut, Disk

\* n is m with block b in entry k of the index block ent
EntryPut(m, n, b, had, ent, k) ==
  /\ n \in Mems
  /\ n.free = m.free /\ n.unused = m.unused /\ n.sdirty = m.sdirty
  /\ n.blk = WordPut(m.blk, ent, k, b)
  /\ n.din.direct = m.din.direct /\ n.din.indirect = ent
  /\ n.din.blocks = m.din.blocks /\ n.din.size = m.din.size
  /\ n.din.type = m.din.type /\ n.din.nlinks = m.din.nlinks
  /\ (n.dirty \/ (had /\ ~ m.dirty)) /\ n.ok = m.ok /\ n.panic = m.panic

LEMMA EntrySetFields ==
  ASSUME NEW m \in Mems, m.ok, NEW b \in Nat, NEW had, NEW ent \in Blocks, NEW k \in Offsets
  PROVE  EntryPut(m, entry_set(m, b, had, ent, k), b, had, ent, k)
<1> DEFINE blk == WordPut(m.blk, ent, k, b)
           d == [m.din EXCEPT !.indirect = ent]
           drt == m.dirty \/ ~ had
           n == [m EXCEPT !.blk = blk, !.din = d, !.dirty = drt]
<1>1. m.din \in Dins /\ m.blk \in Disk /\ b \in Int /\ ent \in Nat /\ m.dirty \in BOOLEAN
  BY Sizes DEF Mems
<1>2. blk \in Disk
  <2>1. WordIsPut(WordPut(m.blk, ent, k, b), m.blk, ent, k, b)
    BY <1>1, WordPutFields
  <2>2. QED
    BY <2>1 DEF WordIsPut
<1>3. entry_set(m, b, had, ent, k) = n
  BY DEF entry_set, WordPut
<1> HIDE DEF blk
<1>4. /\ d \in Dins /\ d.direct = m.din.direct /\ d.indirect = ent /\ d.blocks = m.din.blocks
      /\ d.size = m.din.size /\ d.type = m.din.type /\ d.nlinks = m.din.nlinks
  BY <1>1 DEF Dins
<1>5. drt \in BOOLEAN /\ (drt \/ (had /\ ~ m.dirty))
  BY <1>1, Zenon
<1> HIDE DEF d, drt
<1>6. n \in Mems
  BY <1>2, <1>4, <1>5 DEF Mems
<1>7. /\ n.free = m.free /\ n.unused = m.unused /\ n.sdirty = m.sdirty /\ n.blk = blk
      /\ n.din = d /\ n.dirty = drt /\ n.ok = m.ok /\ n.panic = m.panic
  BY DEF Mems
<1>8. n.dirty \/ (had /\ ~ m.dirty)
  BY <1>5, <1>7, Zenon
<1>9. QED
  BY <1>3, <1>4, <1>6, <1>7, <1>8 DEF blk, EntryPut

\* n is what is left of a call's record m, with the blocks X in the call's hands
Settled(m, n, R, i, X) == Holds(n, R, i, X) /\ n.din.blocks = m.din.blocks

(* An entry of the index block that is there.                              *)
LEMMA EntrySetOld ==
  ASSUME NEW R \in SUBSET Blocks, 0 \notin R, NEW m, NEW i, NEW X, Holds(m, R, i, X), m.ok,
         NEW b \in X, m.din.indirect # 0, NEW k \in Offsets, m.blk[m.din.indirect][k] = 0,
         NEW had, had
  PROVE  Settled(m, entry_set(m, b, had, m.din.indirect, k), R, i, X \ {b})
<1> DEFINE ent == m.din.indirect
           n == entry_set(m, b, had, ent, k)
<1>1. b \in R /\ b \in Nat /\ m \in Mems /\ ent \in R /\ ent \in Blocks
  <2>1. b \in R /\ m \in Mems
    BY DEF Holds, Own
  <2>2. ent \in R
    BY IndexOwned
  <2>3. QED
    BY <2>1, <2>2, Sizes
<1> HIDE DEF ent
<1>2. /\ n \in Mems
      /\ n.free = m.free /\ n.unused = m.unused /\ n.sdirty = m.sdirty
      /\ n.blk = WordPut(m.blk, ent, k, b)
      /\ n.din.direct = m.din.direct /\ n.din.indirect = ent
      /\ n.din.blocks = m.din.blocks /\ n.din.size = m.din.size
      /\ n.din.type = m.din.type /\ n.din.nlinks = m.din.nlinks
      /\ (n.dirty \/ (had /\ ~ m.dirty)) /\ n.ok = m.ok /\ n.panic = m.panic
  <2>1. EntryPut(m, n, b, had, ent, k)
    BY <1>1, EntrySetFields
  <2>2. QED
    BY <2>1 DEF EntryPut
<1> HIDE DEF n
<1>3. m.blk \in Disk /\ b \in Int
  BY <1>1 DEF Mems
<1>4. /\ n.blk[ent][k] = b
      /\ \A o \in Offsets : o # k => n.blk[ent][o] = m.blk[ent][o]
      /\ \A x \in Blocks : x # ent => n.blk[x] = m.blk[x]
  <2> DEFINE w == WordPut(m.blk, ent, k, b)
  <2>1. WordIsPut(w, m.blk, ent, k, b)
    BY <1>1, <1>3, WordPutFields
  <2>2. QED
    BY <1>2, <2>1 DEF WordIsPut
<1> DEFINE r == Refs(m.din, m.blk)
           s == Refs(n.din, n.blk)
           t == k + NDIRECT + 1
<1>5. t \in Places /\ r[t] = 0 /\ s[t] = b
  <2>1. /\ t \in Places
        /\ r[t] = IF m.din.indirect = 0 THEN 0 ELSE m.blk[m.din.indirect][k]
        /\ s[t] = IF n.din.indirect = 0 THEN 0 ELSE n.blk[n.din.indirect][k]
    BY RefEntry
  <2>2. QED
    BY <1>2, <1>4, <2>1 DEF ent
<1>6. ASSUME NEW p \in Places, p # t PROVE s[p] = r[p]
  <2>1. CASE p \in 0..(NDIRECT - 1)
    BY <1>2, <2>1, RefDirect
  <2>2. CASE p = NDIRECT
    BY <1>2, <2>2, RefIndex DEF ent
  <2>3. CASE \E o \in Offsets : p = o + NDIRECT + 1
    <3>1. PICK o \in Offsets : p = o + NDIRECT + 1
      BY <2>3
    <3>2. /\ r[p] = IF m.din.indirect = 0 THEN 0 ELSE m.blk[m.din.indirect][o]
          /\ s[p] = IF n.din.indirect = 0 THEN 0 ELSE n.blk[n.din.indirect][o]
      BY <3>1, RefEntry
    <3>3. o # k
      BY <1>6, <3>1
    <3>4. QED
      BY <1>2, <1>4, <3>2, <3>3 DEF ent
  <2>4. QED
    BY <2>1, <2>2, <2>3, PlaceKinds
<1> HIDE DEF r, s, t
<1>7. Own(m.free, s, X \ {b}, R)
  <2>1. Own(m.free, r, X, R)
    BY DEF Holds, r
  <2>2. QED
    BY <1>5, <1>6, <2>1, OwnName
<1>8. \A x \in Blocks \ R : n.blk[x] = disk.blk[x]
  BY <1>1, <1>4 DEF Holds
<1>9. ~ n.dirty => Same(n.din, disk.inode[i])
  BY <1>2 DEF Holds, Same, ent
<1>10. Holds(n, R, i, X \ {b})
  BY <1>2, <1>7, <1>8, <1>9 DEF Holds, s
<1>11. QED
  BY <1>2, <1>10 DEF Settled, n, ent

(* A new index block and its first entry.                                  *)
LEMMA EntrySetNew ==
  ASSUME NEW R \in SUBSET Blocks, 0 \notin R, NEW m, NEW i, NEW X, Holds(m, R, i, X), m.ok,
         NEW b \in X, NEW ent \in X, b # ent, m.din.indirect = 0, m.blk[ent] = ZeroBlock,
         NEW k \in Offsets, NEW had, ~ had
  PROVE  Settled(m, entry_set(m, b, had, ent, k), R, i, (X \ {ent}) \ {b})
<1> DEFINE n == entry_set(m, b, had, ent, k)
<1>1. b \in R /\ b \in Nat /\ m \in Mems /\ ent \in R /\ ent \in Blocks /\ ent # 0
  BY Sizes DEF Holds, Own
<1>2. /\ n \in Mems
      /\ n.free = m.free /\ n.unused = m.unused /\ n.sdirty = m.sdirty
      /\ n.blk = WordPut(m.blk, ent, k, b)
      /\ n.din.direct = m.din.direct /\ n.din.indirect = ent
      /\ n.din.blocks = m.din.blocks
      /\ (n.dirty \/ (had /\ ~ m.dirty)) /\ n.ok = m.ok /\ n.panic = m.panic
  <2>1. EntryPut(m, n, b, had, ent, k)
    BY <1>1, EntrySetFields
  <2>2. QED
    BY <2>1 DEF EntryPut
<1> HIDE DEF n
<1>3. m.blk \in Disk /\ b \in Int
  BY <1>1 DEF Mems
<1>4. /\ n.blk[ent][k] = b
      /\ \A o \in Offsets : o # k => n.blk[ent][o] = 0
      /\ \A x \in Blocks : x # ent => n.blk[x] = m.blk[x]
  <2> DEFINE w == WordPut(m.blk, ent, k, b)
  <2>1. WordIsPut(w, m.blk, ent, k, b)
    BY <1>1, <1>3, WordPutFields
  <2>2. \A o \in Offsets : m.blk[ent][o] = 0
    BY DEF ZeroBlock
  <2> HIDE DEF w
  <2>3. n.blk = w
    BY <1>2 DEF w
  <2>4. QED
    BY <2>1, <2>2, <2>3 DEF WordIsPut
<1> DEFINE r == Refs(m.din, m.blk)
           q == [r EXCEPT ![NDIRECT] = ent]
           s == Refs(n.din, n.blk)
           t == k + NDIRECT + 1
<1>5. /\ t \in Places /\ t # NDIRECT /\ r[t] = 0 /\ s[t] = b
      /\ NDIRECT \in Places /\ r[NDIRECT] = 0 /\ s[NDIRECT] = ent
  <2>1. /\ t \in Places
        /\ r[t] = IF m.din.indirect = 0 THEN 0 ELSE m.blk[m.din.indirect][k]
        /\ s[t] = IF n.din.indirect = 0 THEN 0 ELSE n.blk[n.din.indirect][k]
    BY RefEntry
  <2>2. NDIRECT \in Places /\ r[NDIRECT] = m.din.indirect /\ s[NDIRECT] = n.din.indirect
    BY RefIndex
  <2>3. t # NDIRECT
    BY Sizes DEF Offsets
  <2>4. QED
    BY <1>1, <1>2, <1>4, <2>1, <2>2, <2>3
<1>6. ASSUME NEW p \in Places, p # t, p # NDIRECT PROVE s[p] = r[p]
  <2>1. CASE p \in 0..(NDIRECT - 1)
    BY <1>2, <2>1, RefDirect
  <2>2. CASE \E o \in Offsets : p = o + NDIRECT + 1
    <3>1. PICK o \in Offsets : p = o + NDIRECT + 1
      BY <2>2
    <3>2. /\ r[p] = IF m.din.indirect = 0 THEN 0 ELSE m.blk[m.din.indirect][o]
          /\ s[p] = IF n.din.indirect = 0 THEN 0 ELSE n.blk[n.din.indirect][o]
      BY <3>1, RefEntry
    <3>3. o # k
      BY <1>6, <3>1
    <3>4. QED
      BY <1>1, <1>2, <1>4, <3>2, <3>3
  <2>3. QED
    BY <1>6, <2>1, <2>2, PlaceKinds
<1>7. /\ q[NDIRECT] = ent /\ \A p \in Places : p # NDIRECT => q[p] = r[p]
  BY <1>5 DEF Refs
<1>8. Own(m.free, r, X, R)
  BY DEF Holds
<1> HIDE DEF r, q, s, t
<1>9. Own(m.free, q, X \ {ent}, R)
  BY <1>5, <1>7, <1>8, OwnName
<1>10. Own(m.free, s, (X \ {ent}) \ {b}, R)
  <2>1. b \in X \ {ent} /\ q[t] = 0 /\ s[t] = b
    BY <1>5, <1>7
  <2>2. \A p \in Places : p # t => s[p] = q[p]
    BY <1>5, <1>6, <1>7
  <2>3. QED
    BY <1>5, <1>9, <2>1, <2>2, OwnName
<1>11. \A x \in Blocks \ R : n.blk[x] = disk.blk[x]
  BY <1>1, <1>4 DEF Holds
<1>12. n.dirty
  BY <1>2
<1>13. Holds(n, R, i, (X \ {ent}) \ {b})
  BY <1>2, <1>10, <1>11, <1>12 DEF Holds, s
<1>14. QED
  BY <1>2, <1>13 DEF Settled, n

\* n is what allocating the place of a block leaves of a call's record m
Created(m, n, R, i, index) ==
  /\ Holds(n, R, i, {})
  /\ n.din.blocks = m.din.blocks
  /\ index >= NDIRECT + BLKSIZE => n.panic

LEMMA AllocFails ==
  ASSUME NEW m \in Mems, m.free = {}
  PROVE  block_alloc(m) = [m EXCEPT !.ok = FALSE]
  BY DEF block_alloc

LEMMA CreateDirect ==
  ASSUME NEW R \in SUBSET Blocks, 0 \notin R, NEW m, NEW i, Holds(m, R, i, {}), m.ok,
         NEW index \in 0..(NDIRECT - 1)
  PROVE  Created(m, bmap_create(m, index), R, i, index)
<1> DEFINE n == block_alloc(m)
           b == bitmap_alloc(m.free)
<1>1. /\ ~ (index >= NDIRECT) /\ ~ (index >= NDIRECT + BLKSIZE)
  BY Sizes
<1>2. CASE m.din.direct[index] # 0
  BY <1>1, <1>2 DEF bmap_create, Created
<1>3. CASE m.din.direct[index] = 0 /\ m.free = {}
  <2> DEFINE o == [m EXCEPT !.ok = FALSE]
  <2>1. o \in Mems /\ o.ok = FALSE /\ o.din = m.din
    BY StopFields DEF Holds
  <2>2. Holds(o, R, i, {})
    BY StopStep
  <2>3. n = o
    BY <1>3, AllocFails DEF Holds
  <2>4. bmap_create(m, index) = direct_set(n, b, index)
    BY <1>1, <1>3 DEF bmap_create
  <2> HIDE DEF o, n, b
  <2>5. direct_set(n, b, index) = n
    BY <2>1, <2>3 DEF direct_set
  <2>6. QED
    BY <1>1, <2>1, <2>2, <2>3, <2>4, <2>5 DEF Created
<1>4. CASE m.din.direct[index] = 0 /\ m.free # {}
  <2>1. /\ Holds(n, R, i, {} \cup {b}) /\ n.din = m.din /\ n.ok = m.ok
    BY <1>4, AllocStep
  <2>2. bmap_create(m, index) = direct_set(n, b, index)
    BY <1>1, <1>4 DEF bmap_create
  <2> HIDE DEF n, b
  <2> DEFINE s == direct_set(n, b, index)
             X == {} \cup {b}
  <2>3. b \in X /\ n.din.direct[index] = 0 /\ n.ok /\ X \ {b} = {}
    BY <1>4, <2>1
  <2>4. Holds(s, R, i, X \ {b}) /\ s.din.blocks = n.din.blocks
    BY <2>1, <2>3, DirectSetStep
  <2> HIDE DEF s, X
  <2>5. Holds(s, R, i, {})
    BY <2>3, <2>4
  <2>6. QED
    BY <1>1, <2>1, <2>2, <2>4, <2>5 DEF Created, s
<1>5. QED
  BY <1>2, <1>3, <1>4

(* The second allocation, with the index block ent in the call's hands     *)
(* unless it was there.                                                    *)
LEMMA EntryAllocOld ==
  ASSUME NEW R \in SUBSET Blocks, 0 \notin R, NEW m, NEW i, Holds(m, R, i, {}), m.ok,
         m.din.indirect # 0, NEW k \in Offsets, m.blk[m.din.indirect][k] = 0, NEW had, had
  PROVE  Settled(m, entry_alloc(m, had, m.din.indirect, k), R, i, {})
<1> DEFINE n == block_alloc(m)
           b == bitmap_alloc(m.free)
           ent == m.din.indirect
<1>1. entry_alloc(m, had, ent, k) = entry_set(n, b, had, ent, k)
  BY DEF entry_alloc
<1>2. CASE m.free = {}
  <2> DEFINE o == [m EXCEPT !.ok = FALSE]
  <2>1. o \in Mems /\ o.ok = FALSE /\ o.din = m.din
    BY StopFields DEF Holds
  <2>2. Holds(o, R, i, {})
    BY StopStep
  <2>3. n = o
    BY <1>2, AllocFails DEF Holds
  <2> HIDE DEF o, n, b
  <2>4. entry_set(n, b, had, ent, k) = n
    BY <2>1, <2>3 DEF entry_set, undo_index
  <2>5. QED
    BY <1>1, <2>1, <2>2, <2>3, <2>4 DEF Settled
<1>3. CASE m.free # {}
  <2>1. /\ Holds(n, R, i, {} \cup {b}) /\ n.din = m.din /\ n.ok = m.ok /\ b \in m.free
        /\ \A x \in Blocks : x # b => n.blk[x] = m.blk[x]
    BY <1>3, AllocStep
  <2>2. ent \in R /\ ent \notin m.free
    BY IndexOwned
  <2>3. n.blk[ent] = m.blk[ent]
    BY <2>1, <2>2
  <2> HIDE DEF n, b
  <2> DEFINE X == {} \cup {b}
             s == entry_set(n, b, had, n.din.indirect, k)
  <2>4. b \in X /\ n.din.indirect # 0 /\ n.ok /\ X \ {b} = {} /\ n.blk[n.din.indirect][k] = 0
    BY <2>1, <2>3
  <2>5. Settled(n, s, R, i, X \ {b})
    BY <2>1, <2>4, EntrySetOld
  <2>6. QED
    <3> HIDE DEF X, s
    <3>1. Holds(s, R, i, {}) /\ s.din.blocks = m.din.blocks
      BY <2>1, <2>4, <2>5 DEF Settled
    <3>2. s = entry_set(n, b, had, ent, k)
      BY <2>1 DEF s
    <3>3. QED
      BY <1>1, <3>1, <3>2 DEF Settled
<1>4. QED
  BY <1>2, <1>3

LEMMA EntryAllocNew ==
  ASSUME NEW R \in SUBSET Blocks, 0 \notin R, NEW m, NEW i, NEW ent, Holds(m, R, i, {ent}), m.ok,
         m.din.indirect = 0, m.blk[ent] = ZeroBlock, NEW k \in Offsets, NEW had, ~ had
  PROVE  Settled(m, entry_alloc(m, had, ent, k), R, i, {})
<1> DEFINE n == block_alloc(m)
           b == bitmap_alloc(m.free)
           X == {ent}
<1>0. ent \in X /\ X \ {ent} = {} /\ Holds(m, R, i, X)
  OBVIOUS
<1>1. entry_alloc(m, had, ent, k) = entry_set(n, b, had, ent, k)
  BY DEF entry_alloc
<1> HIDE DEF X
<1>2. CASE m.free = {}
  <2> DEFINE o == [m EXCEPT !.ok = FALSE]
             u == block_free(o, ent)
  <2>1. o \in Mems /\ o.ok = FALSE /\ o.din = m.din
    BY StopFields DEF Holds
  <2>2. Holds(o, R, i, X)
    BY <1>0, StopStep
  <2>3. n = o
    BY <1>2, AllocFails DEF Holds
  <2> HIDE DEF o, n, b
  <2>4. entry_set(n, b, had, ent, k) = u
    BY <2>1, <2>3 DEF entry_set, undo_index
  <2>5. Holds(u, R, i, X \ {ent}) /\ u.din = o.din
    BY <1>0, <2>2, FreeStep
  <2> HIDE DEF u
  <2>6. QED
    BY <1>0, <1>1, <2>1, <2>4, <2>5 DEF Settled
<1>3. CASE m.free # {}
  <2>1. /\ Holds(n, R, i, X \cup {b}) /\ n.din = m.din /\ n.ok = m.ok /\ b \in m.free /\ b \notin X
        /\ \A x \in Blocks : x # b => n.blk[x] = m.blk[x]
    BY <1>0, <1>3, AllocStep
  <2> HIDE DEF n, b
  <2> DEFINE Y == X \cup {b}
             s == entry_set(n, b, had, ent, k)
  <2>2. ent \in Blocks
    BY <1>0 DEF Holds, Own
  <2>3. b \in Y /\ ent \in Y /\ b # ent /\ n.blk[ent] = ZeroBlock /\ n.din.indirect = 0 /\ n.ok
    BY <1>0, <2>1, <2>2
  <2>4. (Y \ {ent}) \ {b} = {}
    BY <1>0, <2>3
  <2>5. Settled(n, s, R, i, (Y \ {ent}) \ {b})
    BY <2>1, <2>3, EntrySetNew
  <2> HIDE DEF Y, s
  <2>6. Holds(s, R, i, {}) /\ s.din.blocks = m.din.blocks
    BY <2>1, <2>4, <2>5 DEF Settled
  <2>7. QED
    BY <1>1, <2>6 DEF s, Settled
<1>4. QED
  BY <1>2, <1>3

LEMMA CreateStep ==
  ASSUME NEW R \in SUBSET Blocks, 0 \notin R, NEW m, NEW i, Holds(m, R, i, {}), m.ok, NEW index \in Nat
  PROVE  Created(m, bmap_create(m, index), R, i, index)
<1>1. CASE index < NDIRECT
  <2>1. index \in 0..(NDIRECT - 1)
    BY <1>1, Sizes
  <2>2. QED
    BY <2>1, CreateDirect
<1>2. CASE index >= NDIRECT + BLKSIZE
  <2> DEFINE o == [m EXCEPT !.panic = TRUE]
  <2>1. index >= NDIRECT /\ ~ (index - NDIRECT < BLKSIZE)
    BY <1>2, Sizes
  <2>2. bmap_create(m, index) = o
    BY <2>1 DEF bmap_create
  <2>3. o.panic = TRUE /\ o.din = m.din
    BY StopFields DEF Holds
  <2>4. Holds(o, R, i, {})
    BY StopStep
  <2> HIDE DEF o
  <2>5. QED
    BY <2>2, <2>3, <2>4 DEF Created
<1>3. CASE index >= NDIRECT /\ index < NDIRECT + BLKSIZE
  <2> DEFINE k == index - NDIRECT
             n == bmap_create_sub(m, k)
  <2>1. k \in Offsets /\ ~ (index >= NDIRECT + BLKSIZE)
    BY <1>3, Sizes DEF Offsets
  <2>2. bmap_create(m, index) = n
    BY <1>3, Sizes DEF bmap_create
  <2> HIDE DEF k
  <2>3. Holds(n, R, i, {}) /\ n.din.blocks = m.din.blocks
    <3>1. CASE m.din.indirect # 0 /\ m.blk[m.din.indirect][k] # 0
      BY <3>1 DEF bmap_create_sub
    <3>2. CASE m.din.indirect # 0 /\ m.blk[m.din.indirect][k] = 0
      <4> DEFINE had == TRUE
      <4>1. n = entry_alloc(m, had, m.din.indirect, k) /\ had
        BY <3>2 DEF bmap_create_sub
      <4> HIDE DEF had, n
      <4>2. Settled(m, entry_alloc(m, had, m.din.indirect, k), R, i, {})
        BY <2>1, <3>2, <4>1, EntryAllocOld
      <4>3. QED
        BY <4>1, <4>2 DEF Settled
    <3>3. CASE m.din.indirect = 0
      <4> DEFINE a == block_alloc(m)
                 e == bitmap_alloc(m.free)
                 had == FALSE
      <4>1. n = entry_alloc(a, had, e, k) /\ ~ had
        BY <3>3 DEF bmap_create_sub
      <4> HIDE DEF n, had
      <4>2. CASE m.free = {}
        <5> DEFINE o == [m EXCEPT !.ok = FALSE]
        <5>1. o \in Mems /\ o.ok = FALSE /\ o.din = m.din
          BY StopFields DEF Holds
        <5>2. Holds(o, R, i, {})
          BY StopStep
        <5>3. a = o
          BY <4>2, AllocFails DEF Holds
        <5> HIDE DEF o, a, e
        <5>4. entry_alloc(a, had, e, k) = a
          BY <5>1, <5>3 DEF entry_alloc
        <5>5. QED
          BY <4>1, <5>1, <5>2, <5>3, <5>4
      <4>3. CASE m.free # {}
        <5>1. /\ Holds(a, R, i, {} \cup {e}) /\ a.din = m.din /\ a.ok = m.ok
              /\ a.blk[e] = ZeroBlock
          BY <4>3, AllocStep
        <5> HIDE DEF a, e
        <5>2. Holds(a, R, i, {e}) /\ a.ok /\ a.din.indirect = 0
          <6>1. {} \cup {e} = {e}
            OBVIOUS
          <6>2. QED
            BY <3>3, <5>1, <6>1
        <5>3. Settled(a, n, R, i, {})
          BY <2>1, <4>1, <5>1, <5>2, EntryAllocNew
        <5>4. QED
          BY <5>1, <5>3 DEF Settled
      <4>4. QED
        BY <4>2, <4>3
    <3>4. QED
      BY <3>1, <3>2, <3>3
  <2> HIDE DEF n
  <2>4. QED
    BY <2>1, <2>2, <2>3 DEF Created
<1>4. QED
  BY <1>1, <1>2, <1>3, Sizes


-----------------------------------------------------------------------------
(* sfs_bmap_load_nolock.                                                   *)

PlaceOf(index) == IF index < NDIRECT THEN index ELSE index + 1

LEMMA BmapRef ==
  ASSUME NEW din, NEW blk, NEW index \in 0..(NDIRECT + BLKSIZE - 1)
  PROVE  /\ PlaceOf(index) \in Places /\ PlaceOf(index) # NDIRECT
         /\ bmap(din, blk, index) = Refs(din, blk)[PlaceOf(index)]
<1>1. CASE index < NDIRECT
  BY <1>1, Sizes DEF PlaceOf, Places, bmap, Refs, RefAt
<1>2. CASE ~ (index < NDIRECT)
  <2>1. /\ PlaceOf(index) = index + 1 /\ index + 1 \in Places /\ ~ (index + 1 < NDIRECT)
        /\ index + 1 # NDIRECT /\ (index + 1) - NDIRECT - 1 = index - NDIRECT /\ index >= NDIRECT
    BY <1>2, Sizes DEF PlaceOf, Places
  <2>2. bmap(din, blk, index) = IF din.indirect # 0 THEN blk[din.indirect][index - NDIRECT] ELSE 0
    BY <1>2, <2>1 DEF bmap
  <2>3. QED
    BY <2>1, <2>2 DEF Refs, RefAt
<1>3. QED
  BY <1>1, <1>2

\* block b of the call's inode may be accessed
Found(n, R, b) == b \in R /\ b # 0 /\ b \notin n.free /\ b # n.din.indirect

\* n is what looking up a block, or appending one, leaves of a call
Loads(n, R, i, index) ==
  /\ Holds(n, R, i, {})
  /\ ~ Failed(n) => /\ index \in 0..(NDIRECT + BLKSIZE - 1)
                    /\ Found(n, R, bmap(n.din, n.blk, index))

LEMMA AppendedStep ==
  ASSUME NEW R, NEW m, NEW i, Holds(m, R, i, {}), m.din.blocks < NDIRECT + BLKSIZE
  PROVE  Holds(block_appended(m), R, i, {}) /\ Failed(block_appended(m)) = Failed(m)
<1>1. CASE Failed(m)
  BY <1>1 DEF block_appended
<1>2. CASE ~ Failed(m)
  <2> DEFINE d == [m.din EXCEPT !.blocks = m.din.blocks + 1]
             n == [m EXCEPT !.din = d]
  <2>1. m \in Mems /\ m.din \in Dins /\ m.blk \in Disk /\ m.din.blocks \in 0..(NDIRECT + BLKSIZE)
    BY DEF Holds, Mems, Dins
  <2>2. block_appended(m) = n
    BY <1>2 DEF block_appended
  <2>3. m.din.blocks + 1 \in 0..(NDIRECT + BLKSIZE)
    BY <2>1, Sizes
  <2>4. /\ d \in Dins /\ d.direct = m.din.direct /\ d.indirect = m.din.indirect
        /\ d.size = m.din.size /\ d.type = m.din.type /\ d.nlinks = m.din.nlinks
    BY <2>1, <2>3 DEF Dins
  <2> HIDE DEF d
  <2>5. n \in Mems
    BY <2>1, <2>4 DEF Mems
  <2>6. /\ n.free = m.free /\ n.unused = m.unused /\ n.sdirty = m.sdirty /\ n.blk = m.blk
        /\ n.din = d /\ n.dirty = m.dirty /\ n.ok = m.ok /\ n.panic = m.panic
    BY <2>1 DEF Mems
  <2> HIDE DEF n
  <2>7. Refs(d, m.blk) = Refs(m.din, m.blk)
    BY <2>1, <2>4, RefsKept
  <2>8. d.blocks = m.din.blocks + 1
    BY <2>1 DEF d, Dins
  <2>9. disk.inode[i].blocks \in 0..m.din.blocks => disk.inode[i].blocks \in 0..d.blocks
    BY <2>1, <2>8, Sizes
  <2>10. ~ n.dirty => Same(n.din, disk.inode[i])
    BY <2>4, <2>6, <2>9 DEF Holds, Same
  <2>11. Holds(n, R, i, {})
    BY <2>5, <2>6, <2>7, <2>10 DEF Holds
  <2>12. Failed(n) = Failed(m)
    BY <2>6 DEF Failed
  <2>13. QED
    BY <2>2, <2>11, <2>12
<1>3. QED
  BY <1>1, <1>2

LEMMA FoundStep ==
  ASSUME NEW R \in SUBSET Blocks, 0 \notin R, NEW m, NEW i, Holds(m, R, i, {}), NEW index \in Nat,
         Failed(m) \/ index < NDIRECT + BLKSIZE
  PROVE  Loads(block_found(m, index), R, i, index)
<1>1. CASE Failed(m)
  BY <1>1 DEF block_found, Loads
<1>2. CASE ~ Failed(m)
  <2> DEFINE b == bmap(m.din, m.blk, index)
             pan == b \in m.free \cup {0}
             n == [m EXCEPT !.panic = pan]
  <2>1. m \in Mems /\ m.ok
    BY <1>2 DEF Holds, Failed
  <2>2. block_found(m, index) = n
    BY <1>2 DEF block_found
  <2>3. pan \in BOOLEAN /\ (~ pan => b # 0 /\ b \notin m.free)
    OBVIOUS
  <2>4. index \in 0..(NDIRECT + BLKSIZE - 1)
    BY <1>2, Sizes
  <2>5. /\ PlaceOf(index) \in Places /\ PlaceOf(index) # NDIRECT
        /\ b = Refs(m.din, m.blk)[PlaceOf(index)]
    BY <2>4, BmapRef
  <2>6. NDIRECT \in Places /\ Refs(m.din, m.blk)[NDIRECT] = m.din.indirect
    BY RefIndex
  <2> HIDE DEF b, pan
  <2>7. b # 0 => b \in R /\ b # m.din.indirect
    BY <2>5, <2>6 DEF Holds, Own
  <2>8. /\ n \in Mems /\ n.free = m.free /\ n.unused = m.unused /\ n.sdirty = m.sdirty
        /\ n.blk = m.blk /\ n.din = m.din /\ n.dirty = m.dirty /\ n.panic = pan /\ n.ok = m.ok
    BY <2>1, <2>3 DEF Mems
  <2> HIDE DEF n
  <2>9. Holds(n, R, i, {})
    BY <2>8, HoldsOn
  <2>10. ASSUME ~ Failed(n) PROVE Found(n, R, bmap(n.din, n.blk, index))
    <3>1. bmap(n.din, n.blk, index) = b
      BY <2>8 DEF b
    <3>2. ~ pan
      BY <2>8, <2>10 DEF Failed
    <3>3. QED
      BY <2>3, <2>7, <2>8, <3>1, <3>2 DEF Found
  <2>11. QED
    BY <2>2, <2>4, <2>9, <2>10 DEF Loads
<1>3. QED
  BY <1>1, <1>2

LEMMA LoadStep ==
  ASSUME NEW R \in SUBSET Blocks, 0 \notin R, NEW m, NEW i, Holds(m, R, i, {}), m.ok, NEW index \in Nat
  PROVE  Loads(bmap_load(m, index), R, i, index)
<1>1. m \in Mems /\ m.din.blocks \in 0..(NDIRECT + BLKSIZE)
  BY DEF Holds, Mems, Dins
<1>2. CASE index > m.din.blocks
  <2> DEFINE n == [m EXCEPT !.panic = TRUE]
  <2>1. bmap_load(m, index) = n
    BY <1>1, <1>2, Sizes DEF bmap_load
  <2>2. n.panic = TRUE
    BY <1>1, StopFields
  <2>3. Holds(n, R, i, {})
    BY StopStep
  <2> HIDE DEF n
  <2>4. QED
    BY <2>1, <2>2, <2>3 DEF Loads, Failed
<1>3. CASE index < m.din.blocks
  <2>1. bmap_load(m, index) = block_found(m, index)
    BY <1>1, <1>3, Sizes DEF bmap_load
  <2>2. index < NDIRECT + BLKSIZE
    BY <1>1, <1>3, Sizes
  <2>3. QED
    BY <2>1, <2>2, FoundStep
<1>4. CASE index = m.din.blocks
  <2> DEFINE c == bmap_create(m, index)
             a == block_appended(c)
  <2>1. bmap_load(m, index) = block_found(a, index)
    BY <1>1, <1>4, Sizes DEF bmap_load
  <2>2. Created(m, c, R, i, index)
    BY CreateStep
  <2> HIDE DEF c
  <2>3. Holds(c, R, i, {}) /\ c.din.blocks = index /\ (index >= NDIRECT + BLKSIZE => c.panic)
    BY <1>4, <2>2 DEF Created
  <2>4. Holds(a, R, i, {}) /\ (Failed(a) \/ index < NDIRECT + BLKSIZE)
    <3>1. CASE index < NDIRECT + BLKSIZE
      BY <2>3, <3>1, AppendedStep
    <3>2. CASE index >= NDIRECT + BLKSIZE
      <4>1. Failed(c)
        BY <2>3, <3>2 DEF Failed
      <4>2. a = c
        BY <4>1 DEF block_appended
      <4>3. QED
        BY <2>3, <4>1, <4>2
    <3>3. QED
      BY <3>1, <3>2, Sizes
  <2> HIDE DEF a
  <2>5. QED
    BY <2>1, <2>4, FoundStep
<1>5. QED
  BY <1>1, <1>2, <1>3, <1>4, Sizes

-----------------------------------------------------------------------------
(* sfs_bmap_truncate_nolock.                                               *)

\* n is m without the last block, whose number was index
Dropped(m, n, index) ==
  /\ n \in Mems
  /\ n.free = m.free /\ n.unused = m.unused /\ n.sdirty = m.sdirty /\ n.dirty = TRUE
  /\ n.din.blocks = m.din.blocks - 1
  /\ \A x \in Blocks : x # m.din.indirect \/ m.din.indirect = 0 => n.blk[x] = m.blk[x]
  /\ Refs(n.din, n.blk)[PlaceOf(index)] = 0
  /\ \A p \in Places : p # PlaceOf(index) => Refs(n.din, n.blk)[p] = Refs(m.din, m.blk)[p]

LEMMA DropFields ==
  ASSUME NEW m \in Mems, m.din.indirect = 0 \/ m.din.indirect \in Blocks,
         NEW index \in 0..(NDIRECT + BLKSIZE - 1), m.din.blocks = index + 1
  PROVE  Dropped(m, block_dropped(m, index), index)
<1> DEFINE ent == m.din.indirect
           k == index - NDIRECT
           dir == IF index < NDIRECT THEN [m.din.direct EXCEPT ![index] = 0] ELSE m.din.direct
           blk == IF index < NDIRECT \/ ent = 0 THEN m.blk ELSE WordPut(m.blk, ent, k, 0)
           d == [m.din EXCEPT !.blocks = m.din.blocks - 1, !.direct = dir]
           n == [m EXCEPT !.din = d, !.dirty = TRUE, !.blk = blk]
<1>1. /\ m.din \in Dins /\ m.blk \in Disk /\ m.din.direct \in [0..(NDIRECT - 1) -> Nat]
      /\ m.din.blocks - 1 \in 0..(NDIRECT + BLKSIZE)
  BY Sizes DEF Mems, Dins
<1>2. block_dropped(m, index) = n
  BY DEF block_dropped, WordPut
<1>3. dir \in [0..(NDIRECT - 1) -> Nat]
  BY <1>1
<1>4. ASSUME ~ (index < NDIRECT \/ ent = 0) PROVE k \in Offsets /\ ent \in Blocks
  BY <1>4, Sizes DEF Offsets
<1>5. ASSUME ~ (index < NDIRECT \/ ent = 0) PROVE WordIsPut(blk, m.blk, ent, k, 0)
  <2>1. blk = WordPut(m.blk, ent, k, 0)
    BY <1>5
  <2>2. 0 \in Int
    OBVIOUS
  <2> HIDE DEF blk, k, ent
  <2>3. QED
    BY <1>1, <1>4, <1>5, <2>1, <2>2, WordPutFields
<1>6. blk \in Disk
  BY <1>1, <1>5 DEF WordIsPut
<1> HIDE DEF dir, blk
<1>7. /\ d \in Dins /\ d.direct = dir /\ d.indirect = ent /\ d.blocks = m.din.blocks - 1
  BY <1>1, <1>3 DEF Dins
<1> HIDE DEF d
<1>8. n \in Mems
  BY <1>6, <1>7 DEF Mems
<1>9. /\ n.free = m.free /\ n.unused = m.unused /\ n.sdirty = m.sdirty /\ n.blk = blk
      /\ n.din = d /\ n.dirty = TRUE
  BY DEF Mems
<1> HIDE DEF n
<1>10. \A x \in Blocks : x # ent \/ ent = 0 => blk[x] = m.blk[x]
  BY <1>5 DEF WordIsPut, blk
<1> DEFINE r == Refs(m.din, m.blk)
           s == Refs(d, blk)
           t == PlaceOf(index)
<1>11. s[t] = 0 /\ \A p \in Places : p # t => s[p] = r[p]
  <2>1. CASE index < NDIRECT
    <3>1. /\ t = index /\ index \in Places /\ blk = m.blk /\ index \in 0..(NDIRECT - 1)
          /\ dir = [m.din.direct EXCEPT ![index] = 0]
      BY <2>1, Sizes DEF PlaceOf, Places, blk, dir
    <3>2. s[t] = 0
      <4>1. s[index] = d.direct[index]
        BY <3>1, RefDirect
      <4>2. QED
        BY <1>1, <1>7, <3>1, <4>1
    <3>3. ASSUME NEW p \in Places, p # index PROVE s[p] = r[p]
      <4>1. CASE p \in 0..(NDIRECT - 1)
        <5>1. s[p] = d.direct[p] /\ r[p] = m.din.direct[p]
          BY <4>1, RefDirect
        <5>2. QED
          BY <1>1, <1>7, <3>1, <3>3, <4>1, <5>1
      <4>2. CASE ~ (p < NDIRECT)
        BY <1>7, <3>1, <4>2 DEF Refs, RefAt
      <4>3. QED
        BY <4>1, <4>2, Sizes DEF Places
    <3>4. QED
      BY <3>1, <3>2, <3>3
  <2>2. CASE ~ (index < NDIRECT) /\ ent = 0
    <3>1. blk = m.blk /\ dir = m.din.direct
      BY <2>2 DEF blk, dir
    <3>2. s = r
      <4>1. m.din \in Dins /\ d \in Dins
        BY <1>1, <1>7
      <4>2. m.din.direct = d.direct /\ m.din.indirect = d.indirect
        BY <1>7, <3>1
      <4>3. Refs(d, m.blk) = Refs(m.din, m.blk)
        BY <4>1, <4>2, RefsKept
      <4>4. QED
        BY <3>1, <4>3
    <3>3. k \in Offsets /\ t = k + NDIRECT + 1
      BY <2>2, Sizes DEF Offsets, PlaceOf
    <3>4. r[k + NDIRECT + 1] = IF m.din.indirect = 0 THEN 0 ELSE m.blk[m.din.indirect][k]
      BY <3>3, RefEntry
    <3>5. QED
      BY <2>2, <3>2, <3>3, <3>4
  <2>3. CASE ~ (index < NDIRECT) /\ ent # 0
    <3>1. k \in Offsets /\ t = k + NDIRECT + 1 /\ dir = m.din.direct
      BY <2>3, Sizes DEF Offsets, PlaceOf, dir
    <3>2. /\ blk[ent][k] = 0
          /\ \A o \in Offsets : o # k => blk[ent][o] = m.blk[ent][o]
      BY <1>5, <2>3 DEF WordIsPut
    <3> HIDE DEF k, t, r, s
    <3>3. s[t] = 0
      <4>1. s[k + NDIRECT + 1] = IF d.indirect = 0 THEN 0 ELSE blk[d.indirect][k]
        BY <3>1, RefEntry DEF s
      <4>2. QED
        BY <1>7, <3>1, <3>2, <4>1
    <3>4. ASSUME NEW p \in Places, p # t PROVE s[p] = r[p]
      <4>1. CASE p \in 0..(NDIRECT - 1)
        BY <1>7, <3>1, <4>1, RefDirect DEF r, s
      <4>2. CASE p = NDIRECT
        BY <1>7, <4>2, RefIndex DEF r, s
      <4>3. CASE \E o \in Offsets : p = o + NDIRECT + 1
        <5>1. PICK o \in Offsets : p = o + NDIRECT + 1
          BY <4>3
        <5>2. /\ r[p] = IF m.din.indirect = 0 THEN 0 ELSE m.blk[m.din.indirect][o]
              /\ s[p] = IF d.indirect = 0 THEN 0 ELSE blk[d.indirect][o]
          BY <5>1, RefEntry DEF r, s
        <5>3. o # k
          BY <3>1, <3>4, <5>1
        <5>4. QED
          BY <1>7, <3>2, <5>2, <5>3
      <4>4. QED
        BY <4>1, <4>2, <4>3, PlaceKinds
    <3>5. QED
      BY <3>3, <3>4
  <2>4. QED
    BY <2>1, <2>2, <2>3
<1> HIDE DEF r, s, t
<1>12. Dropped(m, n, index)
  BY <1>7, <1>8, <1>9, <1>10, <1>11 DEF Dropped, r, s, t
<1>13. QED
  BY <1>2, <1>12

\* n is what giving back the last block leaves of m
Cut(m, n, R, i) == Holds(n, R, i, {}) /\ n.din.blocks = m.din.blocks - 1

LEMMA TruncateStep ==
  ASSUME NEW R \in SUBSET Blocks, 0 \notin R, NEW m, NEW i, Holds(m, R, i, {}), m.din.blocks # 0
  PROVE  Cut(m, bmap_truncate(m), R, i)
<1> DEFINE index == m.din.blocks - 1
           b == bmap(m.din, m.blk, index)
           f == IF b = 0 THEN m ELSE block_free(m, b)
           n == block_dropped(f, index)
           r == Refs(m.din, m.blk)
           t == PlaceOf(index)
<1>1. /\ m \in Mems /\ m.din \in Dins /\ m.blk \in Disk /\ m.free \in SUBSET Blocks
      /\ m.din.blocks \in 0..(NDIRECT + BLKSIZE) /\ m.din.indirect \in Nat
  BY DEF Holds, Mems, Dins
<1>2. index \in 0..(NDIRECT + BLKSIZE - 1) /\ m.din.blocks = index + 1
  BY <1>1, Sizes
<1>3. bmap_truncate(m) = n
  BY DEF bmap_truncate
<1> HIDE DEF index
<1>4. t \in Places /\ t # NDIRECT /\ b = r[t] /\ NDIRECT \in Places /\ r[NDIRECT] = m.din.indirect
  BY <1>2, BmapRef, RefIndex
<1>5. b # 0 => b \in R /\ b \in Blocks /\ b \notin m.free /\ b # m.din.indirect
  BY <1>4 DEF Holds, Own
<1>6. m.din.indirect = 0 \/ m.din.indirect \in R
  BY IndexOwned
<1> HIDE DEF b, r, t
<1>7. /\ f \in Mems /\ f.din = m.din
      /\ f.free = (IF b = 0 THEN m.free ELSE m.free \cup {b})
      /\ f.unused = (IF b = 0 THEN m.unused ELSE m.unused + 1)
      /\ b # 0 => f.sdirty
      /\ b = 0 => f.sdirty = m.sdirty
      /\ \A x \in Blocks : x # b \/ b = 0 => f.blk[x] = m.blk[x]
  <2>1. CASE b = 0
    BY <1>1, <2>1
  <2>2. CASE b # 0
    <3> DEFINE g == block_free(m, b)
    <3>1. /\ g \in Mems
          /\ g.free = m.free \cup {b} /\ g.unused = m.unused + 1 /\ g.sdirty = TRUE
          /\ g.blk = [m.blk EXCEPT ![b] = StaleBlock] /\ g.din = m.din
      BY <1>1, <1>5, <2>2, FreeFields
    <3>2. f = g
      BY <2>2
    <3> HIDE DEF f, g
    <3>3. \A x \in Blocks : x # b => g.blk[x] = m.blk[x]
      BY <1>1, <3>1 DEF Disk
    <3>4. QED
      BY <2>2, <3>1, <3>2, <3>3
  <2>3. QED
    BY <2>1, <2>2
<1> HIDE DEF f
<1>8. Refs(f.din, f.blk) = r
  <2>1. m.din.indirect = 0 \/ f.blk[m.din.indirect] = m.blk[m.din.indirect]
    BY <1>5, <1>6, <1>7
  <2>2. Refs(m.din, f.blk) = Refs(m.din, m.blk)
    BY <1>1, <2>1, RefsKept
  <2>3. QED
    BY <1>7, <2>2 DEF r
<1>9. Dropped(f, n, index)
  <2>1. f.din.indirect = 0 \/ f.din.indirect \in Blocks
    BY <1>6, <1>7
  <2>2. QED
    BY <1>2, <1>7, <2>1, DropFields
<1> HIDE DEF n
<1> DEFINE s == Refs(n.din, n.blk)
<1>10. s[t] = 0 /\ \A p \in Places : p # t => s[p] = r[p]
  BY <1>8, <1>9 DEF Dropped, t
<1>11. /\ n \in Mems /\ n.free = f.free /\ n.unused = f.unused /\ n.sdirty = f.sdirty /\ n.dirty = TRUE
       /\ n.din.blocks = m.din.blocks - 1
       /\ \A x \in Blocks : x # m.din.indirect \/ m.din.indirect = 0 => n.blk[x] = f.blk[x]
  BY <1>7, <1>9 DEF Dropped
<1>12. Own(m.free, r, {}, R)
  BY DEF Holds, r
<1> HIDE DEF s
<1>13. Own(n.free, s, {}, R)
  <2>1. CASE b = 0
    <3>1. \A p \in Places : s[p] = r[p]
      BY <1>4, <1>10, <2>1
    <3>2. Own(m.free, s, {}, R)
      BY <1>12, <3>1, OwnSame
    <3>3. QED
      BY <1>7, <1>11, <2>1, <3>2
  <2>2. CASE b # 0
    <3>1. Own(m.free \cup {r[t]}, s, {}, R)
      BY <1>4, <1>10, <1>12, <2>2, OwnDrop
    <3>2. QED
      BY <1>4, <1>7, <1>11, <2>2, <3>1
  <2>3. QED
    BY <2>1, <2>2
<1>14. n.unused = Cardinality(n.free)
  <2>1. m.unused = Cardinality(m.free)
    BY DEF Holds
  <2>2. b # 0 => Cardinality(m.free \cup {b}) = Cardinality(m.free) + 1
    BY <1>1, <1>5, CountGiven
  <2>3. QED
    BY <1>7, <1>11, <2>1, <2>2
<1>15. \A x \in Blocks \ R : n.blk[x] = disk.blk[x]
  <2>1. \A x \in Blocks \ R : m.blk[x] = disk.blk[x]
    BY DEF Holds
  <2>2. QED
    BY <1>5, <1>6, <1>7, <1>11, <2>1, Sizes
<1>16. ~ n.sdirty => n.free = disk.freemap /\ n.unused = disk.super.unused
  BY <1>7, <1>11 DEF Holds
<1>17. Holds(n, R, i, {})
  BY <1>11, <1>13, <1>14, <1>15, <1>16 DEF Holds, s
<1>18. QED
  BY <1>3, <1>11, <1>17 DEF Cut

-----------------------------------------------------------------------------
(* sfs_io_nolock: every access stays in the block it was looked up for.    *)

LEMMA MulGap ==
  ASSUME NEW x \in Nat, NEW b \in Nat, NEW B \in Nat, x < b
  PROVE  x * B + B <= b * B
<1>1. PICK d \in Nat : b = x + 1 + d
  <2>1. b - x - 1 \in Nat /\ b = x + 1 + (b - x - 1)
    OBVIOUS
  <2>2. QED
    BY <2>1
<1>2. d * B \in Nat /\ x * B \in Nat
  OBVIOUS
<1>3. b * B = x * B + B + d * B
  BY <1>1
<1>4. QED
  BY <1>2, <1>3

LEMMA DivDef ==
  ASSUME NEW v \in Nat, NEW B \in Nat, B > 0
  PROVE  /\ v \div B \in Nat /\ v % B \in 0..(B - 1)
         /\ v = (v \div B) * B + (v % B)
  OBVIOUS

LEMMA DivBound ==
  ASSUME NEW v \in Nat, NEW B \in Nat, B > 0, NEW N \in Nat, v < N * B
  PROVE  v \div B < N
<1> DEFINE q == v \div B
           r == v % B
<1>1. q \in Nat /\ r \in Nat /\ v = q * B + r
  BY DivDef
<1> HIDE DEF q, r
<1>2. SUFFICES ASSUME ~ (q < N) PROVE FALSE
  BY DEF q
<1>3. N * B <= q * B
  <2>1. CASE q = N
    BY <2>1, <1>1
  <2>2. CASE N < q
    <3>1. N * B + B <= q * B
      BY <1>1, <2>2, MulGap
    <3>2. N * B \in Nat /\ q * B \in Nat
      BY <1>1
    <3>3. QED
      BY <3>1, <3>2
  <2>3. QED
    BY <1>1, <1>2, <2>1, <2>2
<1>4. q * B \in Nat /\ N * B \in Nat
  BY <1>1
<1>5. QED
  BY <1>1, <1>3, <1>4

\* an access that stays in its block
InBlock(a) == a.index \in Nat /\ a.off \in Nat /\ a.len \in Int /\ a.off + a.len <= BLKSIZE

LEMMA AccessesInBlock ==
  ASSUME NEW pos \in Nat, NEW end \in Nat, pos < end, end <= pos + BLKSIZE
  PROVE  InBlock(HeadAccess(pos, end)) /\ InBlock(BodyAccess(pos, end)) /\ InBlock(TailAccess(pos, end))
<1> DEFINE B == BLKSIZE
           qp == pos \div B
           rp == pos % B
           qe == end \div B
           re == end % B
           k == qe - qp
           sk == Skipped(pos)
<1>1. B \in Nat /\ B > 0
  BY Sizes
<1>2. qp \in Nat /\ rp \in 0..(B - 1) /\ pos = qp * B + rp
  BY <1>1, DivDef
<1>3. qe \in Nat /\ re \in 0..(B - 1) /\ end = qe * B + re
  BY <1>1, DivDef
<1>4. Blkoff(pos) = rp /\ Nblks(pos, end) = k /\ sk = (IF rp # 0 THEN 1 ELSE 0)
  BY DEF Blkoff, Nblks, Skipped
<1> HIDE DEF B, qp, rp, qe, re, sk
<1>5. qp * B \in Nat /\ qe * B \in Nat
  BY <1>1, <1>2, <1>3
<1>6. qp <= qe
  <2>1. SUFFICES ASSUME qe < qp PROVE FALSE
    BY <1>2, <1>3
  <2>2. qe * B + B <= qp * B
    BY <1>1, <1>2, <1>3, <2>1, MulGap
  <2>3. QED
    BY <1>1, <1>2, <1>3, <1>5, <2>2
<1>7. qe <= qp + 1
  <2>1. SUFFICES ASSUME qp + 1 < qe PROVE FALSE
    BY <1>2, <1>3
  <2>2. (qp + 1) * B + B <= qe * B
    BY <1>1, <1>2, <1>3, <2>1, MulGap
  <2>3. (qp + 1) * B = qp * B + B
    BY <1>1, <1>2
  <2>4. end <= pos + B
    BY DEF B
  <2>5. QED
    BY <1>1, <1>2, <1>3, <1>5, <2>2, <2>3, <2>4
<1>8. ASSUME k = 0 PROVE rp + (end - pos) <= B
  <2>1. qe = qp
    BY <1>2, <1>3, <1>8
  <2>2. qe * B = qp * B
    BY <2>1
  <2>3. QED
    BY <1>1, <1>2, <1>3, <1>5, <2>2
<1>9. InBlock(HeadAccess(pos, end))
  <2> DEFINE l == IF rp = 0 THEN 0 ELSE IF k # 0 THEN B - rp ELSE end - pos
  <2>1. HeadAccess(pos, end) = [index |-> qp, off |-> rp, len |-> l]
    BY <1>4 DEF HeadAccess, qp, B
  <2>2. l \in Int /\ rp + l <= B
    BY <1>1, <1>2, <1>8
  <2> HIDE DEF l
  <2>3. QED
    BY <1>2, <2>1, <2>2 DEF InBlock, B
<1>10. InBlock(BodyAccess(pos, end))
  <2> DEFINE j == k - sk
             l == j * B
  <2>1. BodyAccess(pos, end) = [index |-> qp + sk, off |-> 0, len |-> l]
    BY <1>4 DEF BodyAccess, qp, B, sk
  <2>2. j = -1 \/ j = 0 \/ j = 1
    BY <1>2, <1>3, <1>4, <1>6, <1>7
  <2>3. l \in Int /\ 0 + l <= B
    <3>1. CASE j = -1
      BY <1>1, <3>1
    <3>2. CASE j = 0
      BY <1>1, <3>2
    <3>3. CASE j = 1
      BY <1>1, <3>3
    <3>4. QED
      BY <2>2, <3>1, <3>2, <3>3
  <2>4. qp + sk \in Nat
    BY <1>2, <1>4
  <2> HIDE DEF l
  <2>5. QED
    BY <2>1, <2>3, <2>4 DEF InBlock, B
<1>11. InBlock(TailAccess(pos, end))
  <2> DEFINE l == IF k < sk THEN 0 ELSE re
  <2>1. TailAccess(pos, end) = [index |-> qe, off |-> 0, len |-> l]
    BY <1>4 DEF TailAccess, qe, re, B, sk
  <2>2. l \in Int /\ 0 + l <= B
    BY <1>1, <1>3
  <2> HIDE DEF l
  <2>3. QED
    BY <1>3, <2>1, <2>2 DEF InBlock, B
<1>12. QED
  BY <1>9, <1>10, <1>11

\* new is blk with other words in block b at most
OneBlock(new, blk, b) == new \in Disk /\ \A x \in Blocks : x # b => new[x] = blk[x]

LEMMA WrittenInBlock ==
  ASSUME NEW blk \in Disk, NEW b \in Blocks, NEW a, InBlock(a), NEW word \in Int
  PROVE  OneBlock(block_written(blk, b, a, word), blk, b)
<1> DEFINE w == block_written(blk, b, a, word)
           At(x, o) == x * BLKSIZE + o - b * BLKSIZE - a.off
<1>1. w = [x \in Blocks |-> [o \in Offsets |-> IF At(x, o) \in 0..(a.len - 1) THEN word ELSE blk[x][o]]]
  BY DEF block_written
<1>2. \A x \in Blocks : \A o \in Offsets : blk[x][o] \in Int
  BY DEF Disk
<1> HIDE DEF At
<1>3. w \in Disk
  BY <1>1, <1>2 DEF Disk
<1>4. ASSUME NEW x \in Blocks, x # b PROVE w[x] = blk[x]
  <2>1. ASSUME NEW o \in Offsets PROVE At(x, o) \notin 0..(a.len - 1)
    <3>1. /\ x \in Nat /\ b \in Nat /\ BLKSIZE \in Nat /\ o \in 0..(BLKSIZE - 1)
          /\ x * BLKSIZE \in Nat /\ b * BLKSIZE \in Nat
      BY Sizes DEF Offsets
    <3> DEFINE xb == x * BLKSIZE
               bb == b * BLKSIZE
    <3>2. CASE x < b
      <4>1. xb + BLKSIZE <= bb
        BY <3>1, <3>2, MulGap
      <4>2. At(x, o) = xb + o - bb - a.off
        BY DEF At
      <4> HIDE DEF xb, bb
      <4>3. xb \in Nat /\ bb \in Nat
        BY <3>1 DEF xb, bb
      <4>4. QED
        BY <3>1, <4>1, <4>2, <4>3 DEF InBlock
    <3>3. CASE b < x
      <4>1. bb + BLKSIZE <= xb
        BY <3>1, <3>3, MulGap
      <4>2. At(x, o) = xb + o - bb - a.off
        BY DEF At
      <4> HIDE DEF xb, bb
      <4>3. xb \in Nat /\ bb \in Nat
        BY <3>1 DEF xb, bb
      <4>4. QED
        BY <3>1, <4>1, <4>2, <4>3 DEF InBlock
    <3>4. QED
      BY <1>4, <3>1, <3>2, <3>3
  <2>2. w[x] = [o \in Offsets |-> blk[x][o]]
    BY <1>1, <2>1
  <2>3. blk[x] \in [Offsets -> Int]
    BY DEF Disk
  <2>4. QED
    BY <2>2, <2>3
<1>5. QED
  BY <1>3, <1>4 DEF OneBlock

LEMMA ReadWords ==
  ASSUME NEW blk \in Disk, NEW b \in Blocks, NEW a, InBlock(a), a.len > 0,
         b * BLKSIZE + a.off + a.len <= NBLKS * BLKSIZE
  PROVE  block_read(blk, b, a) \in Seq(Int)
<1> DEFINE V(k) == b * BLKSIZE + a.off + k - 1
           U(k) == a.off + k - 1
<1>1. a.len \in Nat /\ a.off \in Nat /\ b \in Nat /\ BLKSIZE \in Nat /\ BLKSIZE > 0 /\ NBLKS \in Nat
  BY Sizes DEF InBlock
<1>2. ASSUME NEW k \in 1..a.len
      PROVE  V(k) \div BLKSIZE \in Blocks /\ U(k) % BLKSIZE \in Offsets
  <2> DEFINE bb == b * BLKSIZE
             nn == NBLKS * BLKSIZE
  <2>1. bb \in Nat /\ nn \in Nat
    BY <1>1
  <2>2. V(k) = bb + a.off + k - 1 /\ bb + a.off + a.len <= nn
    OBVIOUS
  <2> HIDE DEF bb, V
  <2>3. nn = NBLKS * BLKSIZE
    OBVIOUS
  <2> HIDE DEF nn
  <2>4. V(k) \in Nat /\ V(k) < nn /\ U(k) \in Nat
    BY <1>1, <2>1, <2>2
  <2> HIDE DEF U
  <2>5. V(k) \div BLKSIZE < NBLKS
    BY <1>1, <2>3, <2>4, DivBound
  <2>6. V(k) \div BLKSIZE \in Nat
    BY <1>1, <2>4, DivDef
  <2>7. U(k) % BLKSIZE \in 0..(BLKSIZE - 1)
    BY <1>1, <2>4, DivDef
  <2>8. QED
    BY <1>1, <2>5, <2>6, <2>7 DEF Blocks, Offsets
<1>3. block_read(blk, b, a) = [k \in 1..a.len |-> blk[V(k) \div BLKSIZE][U(k) % BLKSIZE]]
  BY DEF block_read
<1> HIDE DEF V, U
<1>4. \A k \in 1..a.len : blk[V(k) \div BLKSIZE][U(k) % BLKSIZE] \in Int
  BY <1>2 DEF Disk
<1>5. block_read(blk, b, a) \in [1..a.len -> Int]
  BY <1>3, <1>4
<1>6. QED
  BY <1>1, <1>5

LEMMA MovedStep ==
  ASSUME NEW R \in SUBSET Blocks, NEW m, NEW i, NEW a, InBlock(a), a.len > 0, NEW write, NEW word \in Int,
         Loads(m, R, i, a.index)
  PROVE  Holds(words_moved(m, a, write, word), R, i, {})
<1> DEFINE b == bmap(m.din, m.blk, a.index)
           n == words_moved(m, a, write, word)
<1>1. Holds(m, R, i, {}) /\ m \in Mems /\ m.blk \in Disk /\ m.din \in Dins /\ m.alen \in Nat /\ m.buf \in Seq(Int)
  BY DEF Loads, Holds, Mems
<1>2. CASE Failed(m)
  BY <1>1, <1>2 DEF words_moved
<1>3. CASE ~ Failed(m)
  <2>1. b \in R /\ b # m.din.indirect /\ b \in Blocks
    BY <1>3 DEF Loads, Found
  <2>2. n = IF b * BLKSIZE + a.off + a.len > NBLKS * BLKSIZE THEN [m EXCEPT !.panic = TRUE]
            ELSE IF write THEN [m EXCEPT !.alen = m.alen + a.len, !.blk = block_written(m.blk, b, a, word)]
            ELSE [m EXCEPT !.alen = m.alen + a.len, !.buf = m.buf \o block_read(m.blk, b, a)]
    BY <1>3 DEF words_moved
  <2>3. m.alen + a.len \in Nat /\ b * BLKSIZE \in Nat /\ NBLKS * BLKSIZE \in Nat
    <3>1. b \in Nat /\ BLKSIZE \in Nat /\ NBLKS \in Nat
      BY <2>1, Sizes
    <3> HIDE DEF b
    <3>2. QED
      BY <1>1, <3>1 DEF InBlock
  <2> HIDE DEF n, b
  <2>4. CASE b * BLKSIZE + a.off + a.len > NBLKS * BLKSIZE
    <3> DEFINE s == [m EXCEPT !.panic = TRUE]
    <3>1. n = s
      BY <2>2, <2>4
    <3>2. Holds(s, R, i, {})
      BY <1>1, StopStep
    <3> HIDE DEF s
    <3>3. QED
      BY <3>1, <3>2 DEF n
  <2>5. CASE ~ (b * BLKSIZE + a.off + a.len > NBLKS * BLKSIZE) /\ write
    <3> DEFINE w == block_written(m.blk, b, a, word)
               s == [m EXCEPT !.alen = m.alen + a.len, !.blk = w]
    <3>1. n = s
      BY <2>2, <2>5
    <3>2. OneBlock(w, m.blk, b)
      BY <1>1, <2>1, WrittenInBlock
    <3> HIDE DEF w
    <3>3. w \in Disk /\ \A x \in Blocks : x # b => w[x] = m.blk[x]
      BY <3>2 DEF OneBlock
    <3>4. s \in Mems
      BY <1>1, <2>3, <3>3 DEF Mems
    <3>5. /\ s.free = m.free /\ s.unused = m.unused /\ s.sdirty = m.sdirty /\ s.blk = w
          /\ s.din = m.din /\ s.dirty = m.dirty
      BY <1>1 DEF Mems
    <3> HIDE DEF s
    <3>6. m.din.indirect = 0 \/ w[m.din.indirect] = m.blk[m.din.indirect]
      BY <1>1, <2>1, <3>3, IndexOwned
    <3>7. Refs(m.din, w) = Refs(m.din, m.blk)
      <4>1. m.din \in Dins
        BY <1>1
      <4>2. QED
        BY <3>6, <4>1, RefsKept
    <3>8. \A x \in Blocks \ R : w[x] = disk.blk[x]
      BY <1>1, <2>1, <3>3 DEF Holds
    <3>9. Holds(s, R, i, {})
      BY <1>1, <3>4, <3>5, <3>7, <3>8 DEF Holds
    <3>10. QED
      BY <3>1, <3>9 DEF n
  <2>6. CASE ~ (b * BLKSIZE + a.off + a.len > NBLKS * BLKSIZE) /\ ~ write
    <3> DEFINE q == block_read(m.blk, b, a)
               c == m.buf \o q
               s == [m EXCEPT !.alen = m.alen + a.len, !.buf = c]
    <3>1. n = s
      BY <2>2, <2>6
    <3>2. b * BLKSIZE + a.off + a.len <= NBLKS * BLKSIZE
      BY <2>3, <2>6 DEF InBlock
    <3>3. q \in Seq(Int)
      BY <1>1, <2>1, <3>2, ReadWords
    <3> HIDE DEF q
    <3>4. c \in Seq(Int)
      BY <1>1, <3>3
    <3> HIDE DEF c
    <3>5. /\ s \in Mems /\ s.free = m.free /\ s.unused = m.unused /\ s.sdirty = m.sdirty
          /\ s.blk = m.blk /\ s.din = m.din /\ s.dirty = m.dirty
      BY <1>1, <2>3, <3>4 DEF Mems
    <3> HIDE DEF s
    <3>6. Holds(s, R, i, {})
      BY <1>1, <3>5, HoldsOn
    <3>7. QED
      BY <3>1, <3>6 DEF n
  <2>7. QED
    BY <2>4, <2>5, <2>6
<1>4. QED
  BY <1>2, <1>3

LEMMA AccessStep ==
  ASSUME NEW R \in SUBSET Blocks, 0 \notin R, NEW m, NEW i, Holds(m, R, i, {}), NEW a, InBlock(a),
         NEW write, NEW word \in Int
  PROVE  Holds(io_access(m, a, write, word), R, i, {})
<1>1. CASE Failed(m) \/ a.len <= 0
  BY <1>1 DEF io_access
<1>2. CASE ~ (Failed(m) \/ a.len <= 0)
  <2> DEFINE n == bmap_load(m, a.index)
  <2>1. io_access(m, a, write, word) = words_moved(n, a, write, word)
    BY <1>2 DEF io_access
  <2>2. m.ok /\ a.len > 0 /\ a.index \in Nat
    BY <1>2 DEF Failed, InBlock
  <2>3. Loads(n, R, i, a.index)
    BY <2>2, LoadStep
  <2> HIDE DEF n
  <2>4. QED
    BY <2>1, <2>2, <2>3, MovedStep
<1>3. QED
  BY <1>1, <1>2

\* the size is set, and the inode marked dirty
Resized(m, size) == [m EXCEPT !.din.size = size, !.dirty = TRUE]

LEMMA ResizeStep ==
  ASSUME NEW R, NEW m, NEW i, Holds(m, R, i, {}), NEW size \in Nat
  PROVE  Holds(Resized(m, size), R, i, {})
<1> DEFINE d == [m.din EXCEPT !.size = size]
           n == [m EXCEPT !.din = d, !.dirty = TRUE]
<1>1. m \in Mems /\ m.din \in Dins /\ m.blk \in Disk
  BY DEF Holds, Mems
<1>2. Resized(m, size) = n
  BY DEF Resized
<1>3. d \in Dins /\ d.direct = m.din.direct /\ d.indirect = m.din.indirect
  BY <1>1 DEF Dins
<1> HIDE DEF d
<1>4. n \in Mems
  BY <1>1, <1>3 DEF Mems
<1>5. /\ n.free = m.free /\ n.unused = m.unused /\ n.sdirty = m.sdirty /\ n.blk = m.blk
      /\ n.din = d /\ n.dirty = TRUE
  BY <1>1 DEF Mems
<1> HIDE DEF n
<1>6. Refs(d, m.blk) = Refs(m.din, m.blk)
  BY <1>1, <1>3, RefsKept
<1>7. Holds(n, R, i, {})
  BY <1>4, <1>5, <1>6 DEF Holds
<1>8. QED
  BY <1>2, <1>7

LEMMA IoStep ==
  ASSUME NEW R \in SUBSET Blocks, 0 \notin R, NEW m, NEW i, Holds(m, R, i, {}),
         NEW pos \in Nat, NEW n \in IoSizes, NEW write, NEW word \in Int
  PROVE  Holds(sfs_io(m, pos, n, write, word), R, i, {})
<1> DEFINE lim == IF write THEN MAX_FILE_SIZE ELSE m.din.size
           end == IF pos + n > lim THEN lim ELSE pos + n
           h == io_access(m, HeadAccess(pos, end), write, word)
           c == io_access(h, BodyAccess(pos, end), write, word)
           t == io_access(c, TailAccess(pos, end), write, word)
<1>1. n \in 1..BLKSIZE /\ MAX_FILE_SIZE \in Nat
  BY SfsAssumption
<1>2. m.din.size \in Nat
  BY DEF Holds, Mems, Dins
<1>3. lim \in Nat
  BY <1>1, <1>2
<1>4. CASE pos >= MAX_FILE_SIZE
  <2> DEFINE s == [m EXCEPT !.ok = FALSE]
  <2>1. sfs_io(m, pos, n, write, word) = s
    BY <1>4 DEF sfs_io
  <2>2. Holds(s, R, i, {})
    BY StopStep
  <2> HIDE DEF s
  <2>3. QED
    BY <2>1, <2>2
<1>5. CASE ~ (pos >= MAX_FILE_SIZE) /\ pos >= lim
  BY <1>5 DEF sfs_io
<1>6. CASE ~ (pos >= MAX_FILE_SIZE) /\ ~ (pos >= lim)
  <2>1. sfs_io(m, pos, n, write, word) = ExtendedBy(t, pos)
    BY <1>6 DEF sfs_io, blocks_moved
  <2> HIDE DEF lim
  <2>2. end \in Nat /\ pos < end /\ end <= pos + BLKSIZE
    BY <1>1, <1>3, <1>6, Sizes
  <2> HIDE DEF end
  <2>3. InBlock(HeadAccess(pos, end)) /\ InBlock(BodyAccess(pos, end)) /\ InBlock(TailAccess(pos, end))
    BY <2>2, AccessesInBlock
  <2>4. Holds(h, R, i, {})
    BY <2>3, AccessStep
  <2> HIDE DEF h
  <2>5. Holds(c, R, i, {})
    BY <2>3, <2>4, AccessStep
  <2> HIDE DEF c
  <2>6. Holds(t, R, i, {})
    BY <2>3, <2>5, AccessStep
  <2> HIDE DEF t
  <2>7. pos + t.alen \in Nat
    BY <2>6 DEF Holds, Mems
  <2>8. ExtendedBy(t, pos) = IF pos + t.alen > t.din.size THEN Resized(t, pos + t.alen) ELSE t
    BY DEF ExtendedBy, Extended, Resized
  <2>9. Holds(Resized(t, pos + t.alen), R, i, {})
    BY <2>6, <2>7, ResizeStep
  <2>10. QED
    BY <2>1, <2>6, <2>8, <2>9
<1>7. QED
  BY <1>4, <1>5, <1>6

-----------------------------------------------------------------------------
(* Loops, written as recursive functions: the values of the function are   *)
(* in the sets S[k] that the steps lead through.                           *)

Iteration(g, N, a, F, S) ==
  /\ g = [k \in 0..N |-> IF k = 0 THEN a ELSE F[k][g[k - 1]]]
  /\ \A k \in 0..N : g[k] \in S[k]

LEMMA Iterates ==
  ASSUME NEW N \in Nat, NEW S, NEW F, NEW a, a \in S[0],
         \A k \in 1..N : \A x \in S[k - 1] : F[k][x] \in S[k]
  PROVE  \E g : Iteration(g, N, a, F, S)
<1> DEFINE Ok(j, g) == Iteration(g, j, a, F, S)
           T == {j \in 0..N : ~ \E g : Ok(j, g)}
<1>1. SUFFICES ASSUME T # {} PROVE FALSE
  BY <1>1
<1>2. PICK j \in T : \A l \in T : j <= l
  <2>1. T \in SUBSET Nat
    OBVIOUS
  <2>2. QED
    BY <1>1, <2>1, LeastNumber
<1>3. j \in 0..N /\ ~ \E g : Ok(j, g)
  OBVIOUS
<1>4. j # 0
  <2> DEFINE g == [k \in 0..0 |-> a]
  <2>1. Ok(0, g)
    BY DEF Iteration
  <2>2. QED
    BY <1>3, <2>1
<1>5. j - 1 \in 0..N /\ j - 1 \notin T
  <2> HIDE DEF T
  <2>1. j - 1 \in 0..N /\ ~ (j <= j - 1)
    BY <1>3, <1>4
  <2>2. QED
    BY <1>2, <2>1
<1>6. PICK g : Ok(j - 1, g)
  BY <1>5
<1>6a. /\ g = [k \in 0..(j - 1) |-> IF k = 0 THEN a ELSE F[k][g[k - 1]]]
       /\ \A k \in 0..(j - 1) : g[k] \in S[k]
  BY <1>6 DEF Iteration
<1> DEFINE h == [k \in 0..j |-> IF k = j THEN F[j][g[j - 1]] ELSE g[k]]
<1>7. \A k \in 0..(j - 1) : h[k] = g[k]
  BY <1>3, <1>4
<1>8. h[j] = F[j][h[j - 1]] /\ j - 1 \in 0..(j - 1)
  BY <1>3, <1>4, <1>7
<1>9. ASSUME NEW k \in 0..j PROVE h[k] = (IF k = 0 THEN a ELSE F[k][h[k - 1]]) /\ h[k] \in S[k]
  <2>1. CASE k = j
    <3>0. \A l \in 0..(j - 1) : g[l] \in S[l]
      BY <1>6 DEF Iteration
    <3>1. g[j - 1] \in S[j - 1] /\ j \in 1..N
      <4> HIDE DEF h, T
      <4>1. j \in 1..N
        BY <1>3, <1>4
      <4>2. QED
        BY <1>8, <3>0, <4>1
    <3>2. h[j] \in S[j]
      BY <1>7, <1>8, <3>1
    <3>3. QED
      BY <1>4, <1>8, <2>1, <3>2
  <2>2. CASE k # j
    <3>1. k \in 0..(j - 1) /\ (k # 0 => k - 1 \in 0..(j - 1))
      BY <1>3, <2>2
    <3>2. g[k] = (IF k = 0 THEN a ELSE F[k][g[k - 1]]) /\ g[k] \in S[k]
      BY <1>6a, <3>1
    <3>3. QED
      BY <1>7, <3>1, <3>2
  <2>3. QED
    BY <2>1, <2>2
<1>10. DOMAIN h = 0..j /\ h = [k \in 0..j |-> h[k]]
  OBVIOUS
<1> HIDE DEF h
<1>11. h = [k \in 0..j |-> IF k = 0 THEN a ELSE F[k][h[k - 1]]]
  BY <1>9, <1>10
<1>12. Ok(j, h)
  BY <1>9, <1>11 DEF Iteration
<1>13. QED
  BY <1>3, <1>12

LEMMA StaysIn ==
  ASSUME NEW N \in Nat, NEW S, NEW g, g[0] \in S[0],
         \A k \in 1..N : g[k - 1] \in S[k - 1] => g[k] \in S[k]
  PROVE  g[N] \in S[N]
<1> DEFINE T == {j \in 0..N : g[j] \notin S[j]}
<1>1. SUFFICES ASSUME T # {} PROVE FALSE
  BY <1>1
<1>2. PICK j \in T : \A l \in T : j <= l
  <2>1. T \in SUBSET Nat
    OBVIOUS
  <2>2. QED
    BY <1>1, <2>1, LeastNumber
<1>3. j \in 1..N /\ j - 1 \in 0..N /\ j - 1 \notin T
  BY <1>2
<1>4. QED
  BY <1>2, <1>3

LEMMA LoadNextStep ==
  ASSUME NEW R \in SUBSET Blocks, 0 \notin R, NEW m, NEW i, Holds(m, R, i, {}), NEW index \in Nat
  PROVE  Holds(load_next(m, index), R, i, {})
<1>1. CASE Failed(m)
  BY <1>1 DEF load_next
<1>2. CASE ~ Failed(m)
  <2>1. load_next(m, index) = bmap_load(m, index) /\ m.ok
    BY <1>2 DEF load_next, Failed
  <2>2. Loads(bmap_load(m, index), R, i, index)
    BY <2>1, LoadStep
  <2>3. QED
    BY <2>1, <2>2 DEF Loads
<1>3. QED
  BY <1>1, <1>2

LEMMA GrownStep ==
  ASSUME NEW R \in SUBSET Blocks, 0 \notin R, NEW m, NEW i, Holds(m, R, i, {}),
         NEW nblks \in Nat, NEW n \in Nat
  PROVE  Holds(blocks_grown(m, nblks, n), R, i, {})
<1> DEFINE H == {x \in Mems : Holds(x, R, i, {})}
           S == [k \in 0..n |-> H]
           Step(k, x) == load_next(x, nblks + k - 1)
           F == [k \in 1..n |-> [x \in H |-> Step(k, x)]]
           Grown(g) == g = [k \in 0..n |-> IF k = 0 THEN m ELSE Step(k, g[k - 1])]
           g0 == CHOOSE g : Grown(g)
<1>1. blocks_grown(m, nblks, n) = g0[n]
  BY DEF blocks_grown
<1>2. ASSUME NEW k \in 1..n, NEW x \in H PROVE Step(k, x) \in H
  <2>1. nblks + k - 1 \in Nat
    OBVIOUS
  <2>2. Holds(Step(k, x), R, i, {})
    BY <2>1, LoadNextStep
  <2>3. QED
    BY <2>2 DEF Holds
<1>3. m \in H
  BY DEF Holds
<1> HIDE DEF H, Step
<1>4. PICK f : Iteration(f, n, m, F, S)
  <2>1. m \in S[0]
    BY <1>3
  <2>2. \A k \in 1..n : \A x \in S[k - 1] : F[k][x] \in S[k]
    BY <1>2
  <2> HIDE DEF S, F
  <2>3. QED
    BY <2>1, <2>2, Iterates
<1>5. Grown(f)
  <2>0. /\ f = [k \in 0..n |-> IF k = 0 THEN m ELSE F[k][f[k - 1]]]
        /\ \A k \in 0..n : f[k] \in S[k]
    BY <1>4 DEF Iteration
  <2>1. ASSUME NEW k \in 0..n, k # 0 PROVE F[k][f[k - 1]] = Step(k, f[k - 1])
    <3>1. k \in 1..n /\ k - 1 \in 0..n
      BY <2>1
    <3>2. f[k - 1] \in H
      BY <2>0, <3>1
    <3>3. QED
      BY <3>1, <3>2
  <2> HIDE DEF F
  <2>2. QED
    BY <2>0, <2>1
<1> HIDE DEF Grown, F
<1>6. Grown(g0)
  BY <1>5, Zenon
<1> HIDE DEF g0
<1>7. g0 = [k \in 0..n |-> IF k = 0 THEN m ELSE Step(k, g0[k - 1])]
  BY <1>6 DEF Grown
<1>8. g0[0] \in S[0]
  BY <1>3, <1>7
<1>9. ASSUME NEW k \in 1..n, g0[k - 1] \in S[k - 1] PROVE g0[k] \in S[k]
  <2>1. k \in 0..n /\ k # 0 /\ k - 1 \in 0..n
    OBVIOUS
  <2>2. g0[k] = Step(k, g0[k - 1])
    BY <1>7, <2>1
  <2>3. g0[k - 1] \in H
    BY <1>9, <2>1
  <2>4. QED
    BY <1>2, <2>1, <2>2, <2>3
<1>10. n \in 0..n
  OBVIOUS
<1>11. S[n] = H
  BY <1>10
<1> HIDE DEF S
<1>12. g0[n] \in S[n]
  BY <1>8, <1>9, StaysIn
<1>13. QED
  BY <1>1, <1>11, <1>12 DEF H

LEMMA CutBlocks ==
  ASSUME NEW R \in SUBSET Blocks, 0 \notin R, NEW m, NEW i, Holds(m, R, i, {}),
         NEW n \in Nat, n <= m.din.blocks
  PROVE  Holds(blocks_cut(m, n), R, i, {})
<1> DEFINE n0 == m.din.blocks
           H(k) == {x \in Mems : Holds(x, R, i, {}) /\ x.din.blocks = n0 - k}
           S == [k \in 0..n |-> H(k)]
           F == [k \in 1..n |-> [x \in H(k - 1) |-> bmap_truncate(x)]]
           Cuts(g) == g = [k \in 0..n |-> IF k = 0 THEN m ELSE bmap_truncate(g[k - 1])]
           g0 == CHOOSE g : Cuts(g)
<1>1. blocks_cut(m, n) = g0[n]
  BY DEF blocks_cut
<1>0. n0 \in Nat
  BY Sizes DEF Holds, Mems, Dins
<1> HIDE DEF n0
<1>2. ASSUME NEW k \in 1..n, NEW x \in H(k - 1) PROVE bmap_truncate(x) \in H(k)
  <2>1. Holds(x, R, i, {}) /\ x.din.blocks = n0 - (k - 1) /\ n <= n0
    BY DEF n0
  <2>2. x.din.blocks # 0
    BY <1>0, <2>1
  <2> DEFINE y == bmap_truncate(x)
  <2>3. Cut(x, y, R, i)
    BY <2>1, <2>2, TruncateStep
  <2> HIDE DEF y
  <2>4. Holds(y, R, i, {}) /\ y.din.blocks = n0 - k /\ y \in Mems
    BY <1>0, <2>1, <2>3 DEF Cut, Holds
  <2>5. QED
    BY <2>4 DEF y
<1>3. m \in H(0)
  BY <1>0 DEF Holds, n0
<1> HIDE DEF H
<1>4. PICK f : Iteration(f, n, m, F, S)
  <2>1. m \in S[0]
    BY <1>3
  <2>2. ASSUME NEW k \in 1..n, NEW x \in S[k - 1] PROVE F[k][x] \in S[k]
    <3>1. k - 1 \in 0..n /\ k \in 0..n
      OBVIOUS
    <3>2. S[k - 1] = H(k - 1) /\ S[k] = H(k)
      BY <3>1
    <3>3. F[k][x] = bmap_truncate(x)
      BY <3>2
    <3>4. QED
      BY <1>2, <3>2, <3>3
  <2> HIDE DEF S, F
  <2>3. QED
    BY <2>1, <2>2, Iterates
<1>5. Cuts(f)
  <2>0. /\ f = [k \in 0..n |-> IF k = 0 THEN m ELSE F[k][f[k - 1]]]
        /\ \A k \in 0..n : f[k] \in S[k]
    BY <1>4 DEF Iteration
  <2>1. ASSUME NEW k \in 0..n, k # 0 PROVE F[k][f[k - 1]] = bmap_truncate(f[k - 1])
    <3>1. k \in 1..n /\ k - 1 \in 0..n
      BY <2>1
    <3>2. f[k - 1] \in H(k - 1)
      BY <2>0, <3>1
    <3>3. QED
      BY <3>1, <3>2
  <2> HIDE DEF F
  <2>2. QED
    BY <2>0, <2>1
<1> HIDE DEF Cuts, F
<1>6. Cuts(g0)
  BY <1>5, Zenon
<1> HIDE DEF g0
<1>7. g0 = [k \in 0..n |-> IF k = 0 THEN m ELSE bmap_truncate(g0[k - 1])]
  BY <1>6 DEF Cuts
<1>8. g0[0] \in S[0]
  BY <1>3, <1>7
<1>9. ASSUME NEW k \in 1..n, g0[k - 1] \in S[k - 1] PROVE g0[k] \in S[k]
  <2>1. k \in 0..n /\ k # 0 /\ k - 1 \in 0..n
    OBVIOUS
  <2>2. g0[k] = bmap_truncate(g0[k - 1])
    BY <1>7, <2>1
  <2>3. g0[k - 1] \in H(k - 1)
    BY <1>9, <2>1
  <2>4. bmap_truncate(g0[k - 1]) \in H(k)
    BY <1>2, <2>3
  <2>5. QED
    BY <2>1, <2>2, <2>4
<1>10. n \in 0..n
  OBVIOUS
<1>11. S[n] = H(n)
  BY <1>10
<1> HIDE DEF S
<1>12. g0[n] \in S[n]
  BY <1>8, <1>9, StaysIn
<1>13. QED
  BY <1>1, <1>11, <1>12 DEF H

LEMMA TruncfileStep ==
  ASSUME NEW R \in SUBSET Blocks, 0 \notin R, NEW m, NEW i, Holds(m, R, i, {}), NEW len \in Nat
  PROVE  Holds(sfs_truncfile(m, len), R, i, {})
<1> DEFINE tblks == RoundUpDiv(len, BLKSIZE)
           nblks == m.din.blocks
<1>1. m \in Mems /\ m.din.blocks \in Nat /\ BLKSIZE \in Nat /\ BLKSIZE > 0
  BY Sizes DEF Holds, Mems, Dins
<1>2. tblks \in Nat
  <2>1. len + BLKSIZE - 1 \in Nat
    BY <1>1
  <2>2. QED
    BY <1>1, <2>1, DivDef DEF RoundUpDiv
<1>3. CASE m.din.size = len
  <2> DEFINE pan == tblks # nblks
             n == [m EXCEPT !.panic = pan]
  <2>1. sfs_truncfile(m, len) = n
    BY <1>3 DEF sfs_truncfile
  <2>2. pan \in BOOLEAN
    OBVIOUS
  <2> HIDE DEF pan
  <2>3. /\ n \in Mems /\ n.free = m.free /\ n.unused = m.unused /\ n.sdirty = m.sdirty
        /\ n.blk = m.blk /\ n.din = m.din /\ n.dirty = m.dirty
    BY <1>1, <2>2 DEF Mems
  <2> HIDE DEF n
  <2>4. Holds(n, R, i, {})
    BY <2>3, HoldsOn
  <2>5. QED
    BY <2>1, <2>4
<1>4. CASE m.din.size # len
  <2> DEFINE g == blocks_grown(m, nblks, tblks - nblks)
             c == blocks_cut(m, nblks - tblks)
             s == IF nblks < tblks THEN g ELSE c
  <2>1. sfs_truncfile(m, len) = size_set(s, len)
    BY <1>4 DEF sfs_truncfile
  <2> HIDE DEF tblks
  <2>2. ASSUME nblks < tblks PROVE Holds(g, R, i, {})
    <3>1. tblks - nblks \in Nat
      BY <1>1, <1>2, <2>2
    <3>2. QED
      BY <1>1, <3>1, GrownStep
  <2>3. ASSUME ~ (nblks < tblks) PROVE Holds(c, R, i, {})
    <3>1. nblks - tblks \in Nat /\ nblks - tblks <= m.din.blocks
      BY <1>1, <1>2, <2>3
    <3>2. QED
      BY <3>1, CutBlocks
  <2> HIDE DEF g, c
  <2>4. Holds(s, R, i, {})
    BY <2>2, <2>3
  <2> HIDE DEF s
  <2>5. size_set(s, len) = IF Failed(s) THEN s ELSE Resized(s, len)
    BY DEF size_set, Resized
  <2>6. Holds(Resized(s, len), R, i, {})
    BY <2>4, ResizeStep
  <2>7. QED
    BY <2>1, <2>4, <2>5, <2>6
<1>5. QED
  BY <1>3, <1>4

-----------------------------------------------------------------------------
(* The blocks of the whole image: each is free, fixed, or named by one     *)
(* place of one inode.  D gives the inodes as the next call would see them. *)

Fixed(I) == {BLKN_SUPER, BLKN_FREEMAP} \cup I

Sound(D, blk, free) ==
  LET I == DOMAIN D
  IN  /\ I \subseteq Blocks /\ 0 \notin I /\ 2 \notin I /\ 1 \in I
      /\ D \in [I -> Dins] /\ blk \in Disk /\ free \subseteq Blocks /\ free \cap Fixed(I) = {}
      /\ \A i \in I : \A p \in Places :
            Refs(D[i], blk)[p] # 0 => Refs(D[i], blk)[p] \in Blocks \ (free \cup Fixed(I))
      /\ \A i, j \in I : \A p, q \in Places :
            Refs(D[i], blk)[p] = Refs(D[j], blk)[q] /\ Refs(D[i], blk)[p] # 0 => i = j /\ p = q
      /\ \A b \in Blocks : \/ b \in free \cup Fixed(I)
                           \/ \E i \in I : \E p \in Places : Refs(D[i], blk)[p] = b

(* The blocks a call on inode i may touch.                                 *)
Region(din, blk, free) == {b \in Blocks : b \in free \/ (b # 0 /\ \E p \in Places : Refs(din, blk)[p] = b)}

(* The directory: every file of the image has an entry, and entries with   *)
(* the names of files lead to inodes other than the root's.                *)
EntryAt(inode, blk, k) == blk[bmap(inode[BLKN_ROOT], blk, k)]
Slots(inode) == 0..(inode[BLKN_ROOT].blocks - 1)
DirOK(inode, blk, names) ==
  /\ \A f \in names : \E k \in Slots(inode) : EntryAt(inode, blk, k)[0] # 0 /\ EntryAt(inode, blk, k)[1] = f
  /\ \A k \in Slots(inode) : EntryAt(inode, blk, k)[0] # 0 /\ EntryAt(inode, blk, k)[1] \in Files
         => EntryAt(inode, blk, k)[0] \in DOMAIN inode \ {BLKN_ROOT}

(* An image mksfs has written so far: what it has not handed out is zero,  *)
(* and no inode names a block beyond its last one.                         *)
Fill(din, blk) == \A k \in 0..(NDIRECT + BLKSIZE - 1) : k >= din.blocks => bmap(din, blk, k) = 0
GoodImage(img) ==
  /\ img.next \in 3..NBLKS
  /\ Sound(img.disk.inode, img.disk.blk, img.next..(NBLKS - 1))
  /\ \A b \in img.next..(NBLKS - 1) : img.disk.blk[b] = ZeroBlock
  /\ \A i \in DOMAIN img.disk.inode : Fill(img.disk.inode[i], img.disk.blk)

Nodes == [din : Dins, dirty : BOOLEAN, ref : Int, open : Int, reclaim : Int]
IsDisk(d) ==
  /\ d = [super |-> d.super, freemap |-> d.freemap, inode |-> d.inode, blk |-> d.blk]
  /\ d.super \in [blocks : Int, unused : Int] /\ d.freemap \subseteq Blocks /\ d.blk \in Disk
  /\ DOMAIN d.inode \subseteq Blocks /\ d.inode \in [DOMAIN d.inode -> Dins]
FdType ==
  /\ fd \in [Handles -> [file : Files \cup {0}, pos : Nat]]
  /\ \A h \in Handles : fd[h] = Closed \/ fd[h].file \in Files
TypeInv ==
  /\ phase \in {"mksfs", "unmounted", "mounted", "panic"}
  /\ next_ino \in Nat /\ made \subseteq Files
  /\ IsDisk(disk)
  /\ fs \in [freemap : SUBSET Blocks, unused : Int, super_dirty : BOOLEAN]
  /\ DOMAIN sin \subseteq DOMAIN disk.inode /\ sin \in [DOMAIN sin -> Nodes]
  /\ FdType

Dinodes == [i \in DOMAIN disk.inode |-> Din(i)]
Holders(i) == {h \in Handles : fd[h] # Closed /\ Ino(fd[h].file) = i}

MakingInv ==
  phase = "mksfs" =>
    /\ GoodImage([next |-> next_ino, disk |-> disk])
    /\ disk.inode[BLKN_ROOT].blocks = Cardinality(made) + 2
UnmountedInv ==
  phase = "unmounted" =>
    /\ Sound(disk.inode, disk.blk, disk.freemap)
    /\ disk.super.unused = Cardinality(disk.freemap)
IdleInv == phase \in {"mksfs", "unmounted"} => DOMAIN sin = {} /\ \A h \in Handles : fd[h] = Closed
MountedInv ==
  phase = "mounted" =>
    /\ Sound(Dinodes, disk.blk, fs.freemap)
    /\ fs.unused = Cardinality(fs.freemap)
    /\ ~ fs.super_dirty => fs.freemap = disk.freemap /\ fs.unused = disk.super.unused
    /\ BLKN_ROOT \in DOMAIN sin => sin[BLKN_ROOT].din = disk.inode[BLKN_ROOT]
DirInv ==
  phase # "panic" => /\ DirOK(disk.inode, disk.blk, made)
                     /\ phase # "mksfs" => made = Files
HandlesInv ==
  phase = "mounted" =>
    /\ \A h \in Handles : fd[h] # Closed => Ino(fd[h].file) \in DOMAIN sin
    /\ \A i \in DOMAIN sin \ {BLKN_ROOT} : sin[i].ref = Cardinality(Holders(i))
CleanInv == \A i \in DOMAIN sin : ~ sin[i].dirty => Same(sin[i].din, disk.inode[i])

SfsInv == /\ TypeInv /\ MakingInv /\ UnmountedInv /\ IdleInv /\ MountedInv /\ DirInv
          /\ HandlesInv /\ CleanInv

-----------------------------------------------------------------------------
(* From one inode to the image and back.                                   *)

\* what the region R of inode i has to do with the other blocks
Apart(D, blk, free, i, R) ==
  /\ R \in SUBSET Blocks /\ 0 \notin R /\ free \subseteq R /\ R \cap Fixed(DOMAIN D) = {}
  /\ Own(free, Refs(D[i], blk), {}, R)
  /\ \A j \in DOMAIN D : j # i => \A p \in Places : Refs(D[j], blk)[p] \notin R

LEMMA RegionApart ==
  ASSUME NEW D, NEW blk, NEW free, Sound(D, blk, free), NEW i \in DOMAIN D
  PROVE  Apart(D, blk, free, i, Region(D[i], blk, free))
<1> DEFINE R == Region(D[i], blk, free)
           I == DOMAIN D
<1>1. /\ free \subseteq Blocks /\ free \cap Fixed(I) = {}
      /\ \A j \in I : \A p \in Places :
            Refs(D[j], blk)[p] # 0 => Refs(D[j], blk)[p] \in Blocks \ (free \cup Fixed(I))
      /\ \A j, l \in I : \A p, q \in Places :
            Refs(D[j], blk)[p] = Refs(D[l], blk)[q] /\ Refs(D[j], blk)[p] # 0 => j = l /\ p = q
  BY DEF Sound
<1>2. \A b : b \in R <=> b \in Blocks /\ (b \in free \/ (b # 0 /\ \E p \in Places : Refs(D[i], blk)[p] = b))
  BY DEF Region
<1> HIDE DEF R
<1>3. 0 \in Fixed(I)
  BY DEF Fixed, BLKN_SUPER
<1>4. R \in SUBSET Blocks /\ 0 \notin R /\ free \subseteq R
  BY <1>1, <1>2, <1>3
<1>5. R \cap Fixed(I) = {}
  BY <1>1, <1>2
<1>6. \A p \in Places : Refs(D[i], blk)[p] # 0 => Refs(D[i], blk)[p] \in R \ free
  BY <1>1, <1>2
<1>7. Own(free, Refs(D[i], blk), {}, R)
  BY <1>1, <1>2, <1>4, <1>6 DEF Own
<1>8. ASSUME NEW j \in I, j # i, NEW p \in Places PROVE Refs(D[j], blk)[p] \notin R
  BY <1>1, <1>2, <1>4, <1>8
<1>9. QED
  BY <1>4, <1>5, <1>7, <1>8 DEF Apart, R

LEMMA OthersKept ==
  ASSUME NEW D, NEW blk, NEW free, Sound(D, blk, free), NEW i \in DOMAIN D, NEW R,
         Apart(D, blk, free, i, R), NEW blk2, \A x \in Blocks \ R : blk2[x] = blk[x],
         NEW j \in DOMAIN D, j # i
  PROVE  Refs(D[j], blk2) = Refs(D[j], blk)
<1>1. D[j] \in Dins
  BY DEF Sound
<1>2. NDIRECT \in Places /\ Refs(D[j], blk)[NDIRECT] = D[j].indirect
  BY RefIndex
<1>3. D[j].indirect = 0 \/ blk2[D[j].indirect] = blk[D[j].indirect]
  <2>1. D[j].indirect # 0 => D[j].indirect \in Blocks
    BY <1>2 DEF Sound
  <2>2. D[j].indirect \notin R
    BY <1>2 DEF Apart
  <2>3. QED
    BY <2>1, <2>2
<1>4. QED
  BY <1>1, <1>3, RefsKept

\* D with inode i changed
Changed(D, i, d) == [D EXCEPT ![i] = d]

LEMMA SoundAfter ==
  ASSUME NEW D, NEW blk, NEW free, Sound(D, blk, free), NEW i \in DOMAIN D, NEW R,
         Apart(D, blk, free, i, R),
         NEW d \in Dins, NEW blk2 \in Disk, NEW free2, Own(free2, Refs(d, blk2), {}, R),
         \A x \in Blocks \ R : blk2[x] = blk[x]
  PROVE  Sound(Changed(D, i, d), blk2, free2)
<1> DEFINE I == DOMAIN D
           E == Changed(D, i, d)
           F == Fixed(I)
           u == [j \in I |-> Refs(D[j], blk)]
           v == [j \in I |-> Refs(E[j], blk2)]
<1>1. /\ I \subseteq Blocks /\ 0 \notin I /\ 2 \notin I /\ 1 \in I
      /\ D \in [I -> Dins] /\ free \subseteq Blocks /\ free \cap F = {}
      /\ \A j \in I : \A p \in Places : u[j][p] # 0 => u[j][p] \in Blocks \ (free \cup F)
      /\ \A j, l \in I : \A p, q \in Places : u[j][p] = u[l][q] /\ u[j][p] # 0 => j = l /\ p = q
      /\ \A b \in Blocks : b \in free \cup F \/ \E j \in I : \E p \in Places : u[j][p] = b
  BY DEF Sound
<1>2. DOMAIN E = I /\ E \in [I -> Dins] /\ E[i] = d /\ \A j \in I : j # i => E[j] = D[j]
  BY <1>1 DEF Changed
<1> HIDE DEF E
<1>3. \A j \in I : j # i => v[j] = u[j]
  BY <1>2, OthersKept
<1>4. v[i] = Refs(d, blk2)
  BY <1>2
<1>5. /\ R \in SUBSET Blocks /\ 0 \notin R /\ free \subseteq R /\ R \cap F = {}
      /\ Own(free, u[i], {}, R)
      /\ \A j \in I : j # i => \A p \in Places : u[j][p] \notin R
  BY DEF Apart
<1> HIDE DEF I, F, u
<1>6. Own(free2, v[i], {}, R)
  BY <1>4
<1>7. \A j \in I : v[j] = Refs(E[j], blk2)
  BY DEF v
<1> HIDE DEF v
<1>7a. /\ free2 \subseteq R
       /\ \A p, q \in Places : v[i][p] = v[i][q] /\ v[i][p] # 0 => p = q
       /\ \A p \in Places : v[i][p] # 0 => v[i][p] \in R \ free2
       /\ \A b \in R : b \in free2 \/ \E p \in Places : v[i][p] = b
  BY <1>6 DEF Own
<1>7b. i \in I
  BY DEF I
<1>8. free2 \subseteq Blocks /\ free2 \cap F = {}
  BY <1>5, <1>7a
<1>9. ASSUME NEW j \in I, NEW p \in Places, v[j][p] # 0 PROVE v[j][p] \in Blocks \ (free2 \cup F)
  <2>1. CASE j = i
    BY <1>5, <1>7a, <1>9, <2>1
  <2>2. CASE j # i
    BY <1>1, <1>3, <1>5, <1>7a, <1>9, <2>2
  <2>3. QED
    BY <2>1, <2>2
<1>10. ASSUME NEW j \in I, NEW l \in I, NEW p \in Places, NEW q \in Places,
              v[j][p] = v[l][q], v[j][p] # 0
       PROVE  j = l /\ p = q
  <2>1. CASE j = i /\ l = i
    BY <1>7a, <1>10, <2>1
  <2>2. CASE j # i /\ l # i
    BY <1>1, <1>3, <1>10, <2>2
  <2>3. CASE j = i /\ l # i
    BY <1>3, <1>5, <1>7a, <1>10, <2>3
  <2>4. CASE j # i /\ l = i
    BY <1>3, <1>5, <1>7a, <1>10, <2>4
  <2>5. QED
    BY <2>1, <2>2, <2>3, <2>4
<1>11. ASSUME NEW b \in Blocks PROVE b \in free2 \cup F \/ \E j \in I : \E p \in Places : v[j][p] = b
  <2>1. CASE b \in R
    BY <1>7a, <1>7b, <2>1
  <2>2. CASE b \notin R /\ b \notin F
    <3>1. PICK j \in I, p \in Places : u[j][p] = b
      BY <1>1, <1>5, <2>2
    <3>2. b # 0
      <4>1. 0 \in F
        BY DEF F, Fixed, BLKN_SUPER
      <4>2. QED
        BY <2>2, <4>1
    <3>3. j # i
      BY <1>5, <2>2, <3>1, <3>2 DEF Own
    <3>4. QED
      BY <1>3, <3>1, <3>3
  <2>3. QED
    BY <2>1, <2>2
<1>12. QED
  <2>1. \A j \in I : \A p \in Places : Refs(E[j], blk2)[p] # 0 => Refs(E[j], blk2)[p] \in Blocks \ (free2 \cup F)
    BY <1>7, <1>9
  <2>2. \A j, l \in I : \A p, q \in Places :
           Refs(E[j], blk2)[p] = Refs(E[l], blk2)[q] /\ Refs(E[j], blk2)[p] # 0 => j = l /\ p = q
    BY <1>7, <1>10
  <2>3. \A b \in Blocks : b \in free2 \cup F \/ \E j \in I : \E p \in Places : Refs(E[j], blk2)[p] = b
    BY <1>7, <1>11
  <2>4. F = Fixed(DOMAIN E)
    BY <1>2 DEF F, I
  <2> HIDE DEF F
  <2>5. Sound(E, blk2, free2)
    BY <1>1, <1>2, <1>8, <2>1, <2>2, <2>3, <2>4 DEF Sound
  <2>6. QED
    BY <2>5 DEF E

(* Inodes that name the same blocks.                                       *)
LEMMA SoundSame ==
  ASSUME NEW D, NEW blk, NEW free, Sound(D, blk, free), NEW E, DOMAIN E = DOMAIN D,
         E \in [DOMAIN D -> Dins],
         \A i \in DOMAIN D : E[i].direct = D[i].direct /\ E[i].indirect = D[i].indirect
  PROVE  Sound(E, blk, free)
<1>1. ASSUME NEW i \in DOMAIN D PROVE Refs(E[i], blk) = Refs(D[i], blk)
  <2>1. D[i] \in Dins /\ E[i] \in Dins /\ D[i].direct = E[i].direct /\ D[i].indirect = E[i].indirect
    BY DEF Sound
  <2>2. QED
    BY <2>1, RefsKept
<1>2. QED
  BY <1>1 DEF Sound

-----------------------------------------------------------------------------
(* The root directory is not changed by calls on other inodes.             *)

SameDir(inode, blk, inode2, blk2) ==
  /\ Slots(inode2) = Slots(inode)
  /\ \A k \in Slots(inode) : EntryAt(inode2, blk2, k) = EntryAt(inode, blk, k)

LEMMA DirKept ==
  ASSUME NEW D, NEW blk, NEW free, Sound(D, blk, free), NEW i \in DOMAIN D, i # 1, NEW R,
         Apart(D, blk, free, i, R), NEW blk2, \A x \in Blocks \ R : blk2[x] = blk[x],
         NEW inode, inode[1] = D[1], NEW inode2, inode2[1] = D[1]
  PROVE  SameDir(inode, blk, inode2, blk2)
<1>1. D[1] \in Dins /\ 1 \in DOMAIN D
  BY DEF Sound
<1>2. Slots(inode2) = Slots(inode) /\ Slots(inode) = 0..(D[1].blocks - 1)
  BY DEF Slots, BLKN_ROOT
<1>3. Refs(D[1], blk2) = Refs(D[1], blk)
  BY <1>1, OthersKept
<1>4. ASSUME NEW k \in Slots(inode) PROVE EntryAt(inode2, blk2, k) = EntryAt(inode, blk, k)
  <2>1. k \in 0..(NDIRECT + BLKSIZE - 1)
    BY <1>1, <1>2, Sizes DEF Dins
  <2> DEFINE b == bmap(D[1], blk, k)
             p == PlaceOf(k)
  <2>2. p \in Places /\ b = Refs(D[1], blk)[p] /\ bmap(D[1], blk2, k) = Refs(D[1], blk2)[p]
    BY <2>1, BmapRef
  <2> HIDE DEF b, p
  <2>3. bmap(D[1], blk2, k) = b
    BY <1>3, <2>2
  <2>4. b \in Blocks /\ b \notin R
    <3>1. b = 0 \/ b \in Blocks
      BY <1>1, <2>2 DEF Sound
    <3>2. b = 0 \/ b \notin R
      BY <1>1, <2>2 DEF Apart
    <3>3. 0 \in Blocks /\ 0 \notin R
      BY Sizes DEF Apart
    <3>4. QED
      BY <3>1, <3>2, <3>3
  <2>5. EntryAt(inode2, blk2, k) = blk2[b] /\ EntryAt(inode, blk, k) = blk[b]
    BY <2>3 DEF EntryAt, b, BLKN_ROOT
  <2>6. QED
    BY <2>4, <2>5
<1>5. QED
  BY <1>2, <1>4 DEF SameDir

LEMMA DirOKKept ==
  ASSUME NEW inode, NEW blk, NEW inode2, NEW blk2, SameDir(inode, blk, inode2, blk2),
         DOMAIN inode \subseteq DOMAIN inode2, NEW names, DirOK(inode, blk, names)
  PROVE  DirOK(inode2, blk2, names)
  BY DEF SameDir, DirOK

\* the inode of a file, as the entries of a directory give it
InoIn(inode, blk, f) ==
  LET e == CHOOSE e \in {EntryAt(inode, blk, k) : k \in Slots(inode)} : e[0] # 0 /\ e[1] = f IN e[0]

LEMMA InoDef ==
  ASSUME NEW f PROVE Ino(f) = InoIn(disk.inode, disk.blk, f)
  BY DEF Ino, InoIn, Dirent, DirSlots, EntryAt, Slots

LEMMA InoSame ==
  ASSUME NEW inode, NEW blk, NEW inode2, NEW blk2, SameDir(inode, blk, inode2, blk2), NEW f
  PROVE  InoIn(inode2, blk2, f) = InoIn(inode, blk, f)
<1>1. {EntryAt(inode2, blk2, k) : k \in Slots(inode2)} = {EntryAt(inode, blk, k) : k \in Slots(inode)}
  BY DEF SameDir
<1>2. QED
  BY <1>1 DEF InoIn

LEMMA InoKept ==
  ASSUME SameDir(disk.inode, disk.blk, disk'.inode, disk'.blk)
  PROVE  \A f : Ino(f)' = Ino(f)
<1>1. ASSUME NEW f PROVE Ino(f)' = Ino(f)
  <2>1. Ino(f) = InoIn(disk.inode, disk.blk, f)
    BY InoDef
  <2>2. Ino(f)' = InoIn(disk'.inode, disk'.blk, f)
    BY DEF Ino, InoIn, Dirent, DirSlots, EntryAt, Slots
  <2>3. QED
    BY <2>1, <2>2, InoSame
<1>2. QED
  BY <1>1

LEMMA InoFound ==
  ASSUME NEW f \in Files, DirOK(disk.inode, disk.blk, Files)
  PROVE  Ino(f) \in DOMAIN disk.inode /\ Ino(f) # 1
<1> DEFINE E == {EntryAt(disk.inode, disk.blk, k) : k \in Slots(disk.inode)}
           e0 == CHOOSE e \in E : e[0] # 0 /\ e[1] = f
<1>1. \E e \in E : e[0] # 0 /\ e[1] = f
  BY DEF DirOK
<1>2. e0 \in E /\ e0[0] # 0 /\ e0[1] = f
  BY <1>1
<1>3. Ino(f) = e0[0]
  BY InoDef DEF InoIn
<1> HIDE DEF e0
<1>4. PICK k \in Slots(disk.inode) : e0 = EntryAt(disk.inode, disk.blk, k)
  BY <1>2
<1>5. e0[0] \in DOMAIN disk.inode \ {BLKN_ROOT}
  BY <1>2, <1>4 DEF DirOK
<1>6. QED
  BY <1>3, <1>5 DEF BLKN_ROOT

-----------------------------------------------------------------------------
(* A call of the kernel on one inode.                                      *)

RegionOf(i) == Region(Din(i), disk.blk, fs.freemap)

LEMMA DinType ==
  ASSUME TypeInv, NEW i \in DOMAIN disk.inode
  PROVE  Din(i) \in Dins /\ disk.inode[i] \in Dins /\ i \in Blocks
<1>1. disk.inode[i] \in Dins /\ i \in Blocks
  BY DEF TypeInv, IsDisk
<1>2. i \in DOMAIN sin => sin[i].din \in Dins
  BY DEF TypeInv, Nodes
<1>3. QED
  BY <1>1, <1>2 DEF Din

LEMMA DinodesAt ==
  /\ DOMAIN Dinodes = DOMAIN disk.inode
  /\ \A i \in DOMAIN disk.inode : Dinodes[i] = Din(i)
  BY DEF Dinodes

LEMMA RegionOfApart ==
  ASSUME TypeInv, MountedInv, phase = "mounted", NEW i \in DOMAIN disk.inode
  PROVE  Apart(Dinodes, disk.blk, fs.freemap, i, RegionOf(i))
<1>1. Sound(Dinodes, disk.blk, fs.freemap)
  BY DEF MountedInv
<1>2. i \in DOMAIN Dinodes /\ Dinodes[i] = Din(i)
  BY DinodesAt
<1>3. QED
  BY <1>1, <1>2, RegionApart DEF RegionOf

LEMMA StartHolds ==
  ASSUME TypeInv, MountedInv, phase = "mounted", NEW i \in DOMAIN disk.inode,
         NEW node \in Nodes, node.din = Din(i), ~ node.dirty => Same(node.din, disk.inode[i])
  PROVE  Holds(Start(node), RegionOf(i), i, {})
<1> DEFINE m == Start(node)
<1>1. /\ fs.freemap \in SUBSET Blocks /\ fs.unused \in Int /\ fs.super_dirty \in BOOLEAN /\ disk.blk \in Disk
      /\ node.din \in Dins /\ node.dirty \in BOOLEAN
  BY DEF TypeInv, IsDisk, Nodes
<1>2. /\ m.free = fs.freemap /\ m.unused = fs.unused /\ m.sdirty = fs.super_dirty /\ m.blk = disk.blk
      /\ m.din = node.din /\ m.dirty = node.dirty
  BY DEF Start
<1>3. m \in Mems
  <2>1. <<>> \in Seq(Int)
    OBVIOUS
  <2>2. QED
    BY <1>1, <2>1 DEF Start, Mems
<1> HIDE DEF m
<1>4. Apart(Dinodes, disk.blk, fs.freemap, i, RegionOf(i))
  BY RegionOfApart
<1>5. Dinodes[i] = Din(i)
  BY DinodesAt
<1>6. Own(m.free, Refs(m.din, m.blk), {}, RegionOf(i))
  BY <1>2, <1>4, <1>5 DEF Apart
<1>7. /\ m.unused = Cardinality(m.free)
      /\ ~ m.sdirty => m.free = disk.freemap /\ m.unused = disk.super.unused
  BY <1>2 DEF MountedInv
<1>8. Holds(m, RegionOf(i), i, {})
  BY <1>2, <1>3, <1>6, <1>7 DEF Holds
<1>9. QED
  BY <1>8 DEF m

\* what a call that worked on node and left m has stored
Stored(i, node, m) ==
  /\ phase' = "mounted"
  /\ IsDisk(disk') /\ disk'.inode = disk.inode
  /\ fs' \in [freemap : SUBSET Blocks, unused : Int, super_dirty : BOOLEAN]
  /\ DOMAIN sin' = DOMAIN sin \cup {i} /\ sin' \in [DOMAIN sin' -> Nodes]
  /\ sin'[i].din = m.din /\ sin'[i].dirty = m.dirty /\ sin'[i].ref = node.ref
  /\ \A j \in DOMAIN sin : j # i => sin'[j] = sin[j]

LEMMA FinishStored ==
  ASSUME TypeInv, phase = "mounted", NEW i \in DOMAIN disk.inode, NEW node \in Nodes,
         NEW m \in Mems, ~ m.panic, Finish(i, node, m)
  PROVE  Stored(i, node, m)
<1>1. /\ fs' = [freemap |-> m.free, unused |-> m.unused, super_dirty |-> m.sdirty]
      /\ disk' = [disk EXCEPT !.blk = m.blk]
      /\ sin' = [j \in DOMAIN sin \cup {i} |->
                       IF j = i THEN [node EXCEPT !.din = m.din, !.dirty = m.dirty] ELSE sin[j]]
      /\ phase' = "mounted"
  BY DEF Finish
<1>2. /\ m.free \in SUBSET Blocks /\ m.unused \in Int /\ m.sdirty \in BOOLEAN /\ m.blk \in Disk
      /\ m.din \in Dins /\ m.dirty \in BOOLEAN
  BY DEF Mems
<1>3. /\ disk = [super |-> disk.super, freemap |-> disk.freemap, inode |-> disk.inode, blk |-> disk.blk]
      /\ disk.super \in [blocks : Int, unused : Int] /\ disk.freemap \subseteq Blocks
      /\ DOMAIN disk.inode \subseteq Blocks /\ disk.inode \in [DOMAIN disk.inode -> Dins]
      /\ sin \in [DOMAIN sin -> Nodes]
  BY DEF TypeInv, IsDisk
<1>4. disk' = [super |-> disk.super, freemap |-> disk.freemap, inode |-> disk.inode, blk |-> m.blk]
  <2> DEFINE d == [super |-> disk.super, freemap |-> disk.freemap, inode |-> disk.inode, blk |-> disk.blk]
  <2>1. [d EXCEPT !.blk = m.blk] = [super |-> disk.super, freemap |-> disk.freemap, inode |-> disk.inode, blk |-> m.blk]
    OBVIOUS
  <2>2. disk = d
    BY <1>3
  <2> HIDE DEF d
  <2>3. QED
    BY <1>1, <2>1, <2>2
<1>5. IsDisk(disk') /\ disk'.inode = disk.inode
  <2>1. /\ disk'.super = disk.super /\ disk'.freemap = disk.freemap /\ disk'.inode = disk.inode
        /\ disk'.blk = m.blk
    BY <1>4
  <2>2. QED
    BY <1>2, <1>3, <1>4, <2>1 DEF IsDisk
<1>6. fs' \in [freemap : SUBSET Blocks, unused : Int, super_dirty : BOOLEAN]
  BY <1>1, <1>2
<1> DEFINE n == [node EXCEPT !.din = m.din, !.dirty = m.dirty]
<1>7. n \in Nodes /\ n.din = m.din /\ n.dirty = m.dirty /\ n.ref = node.ref
  BY <1>2 DEF Nodes
<1>8. sin' = [j \in DOMAIN sin \cup {i} |-> IF j = i THEN n ELSE sin[j]]
  BY <1>1
<1> HIDE DEF n
<1>9. /\ DOMAIN sin' = DOMAIN sin \cup {i} /\ sin'[i] = n
      /\ \A j \in DOMAIN sin : j # i => sin'[j] = sin[j]
  BY <1>8
<1>10. sin' \in [DOMAIN sin' -> Nodes]
  BY <1>3, <1>7, <1>8
<1>11. QED
  BY <1>1, <1>5, <1>6, <1>7, <1>9, <1>10 DEF Stored

\* what all calls on an inode other than the root's keep
Kept ==
  /\ MountedInv' /\ DirInv' /\ CleanInv'
  /\ \A f : Ino(f)' = Ino(f)

LEMMA FinishKeeps ==
  ASSUME TypeInv, MountedInv, DirInv, CleanInv, phase = "mounted",
         NEW i \in DOMAIN disk.inode, i # 1, NEW node \in Nodes,
         NEW m, Holds(m, RegionOf(i), i, {}), ~ m.panic, Finish(i, node, m), made' = made
  PROVE  Stored(i, node, m) /\ Kept
<1> DEFINE D == Dinodes
           R == RegionOf(i)
<1>1. m \in Mems /\ m.din \in Dins /\ m.blk \in Disk
  BY DEF Holds, Mems
<1>2. Stored(i, node, m)
  BY <1>1, FinishStored
<1>3. /\ fs'.freemap = m.free /\ fs'.unused = m.unused /\ fs'.super_dirty = m.sdirty
      /\ disk'.blk = m.blk /\ disk'.freemap = disk.freemap /\ disk'.super = disk.super
  <2>1. /\ fs' = [freemap |-> m.free, unused |-> m.unused, super_dirty |-> m.sdirty]
        /\ disk' = [disk EXCEPT !.blk = m.blk]
    BY DEF Finish
  <2>2. disk = [super |-> disk.super, freemap |-> disk.freemap, inode |-> disk.inode, blk |-> disk.blk]
    BY DEF TypeInv, IsDisk
  <2>3. /\ disk'.blk = m.blk /\ disk'.freemap = disk.freemap /\ disk'.super = disk.super
    BY <2>1, <2>2
  <2>4. QED
    BY <2>1, <2>3
<1>4. Sound(D, disk.blk, fs.freemap) /\ i \in DOMAIN D /\ 1 \in DOMAIN D /\ DOMAIN D = DOMAIN disk.inode
  <2>1. Sound(D, disk.blk, fs.freemap)
    BY DEF MountedInv
  <2>2. DOMAIN D = DOMAIN disk.inode
    BY DinodesAt
  <2> HIDE DEF D
  <2>3. QED
    BY <2>1, <2>2 DEF Sound
<1>5. Apart(D, disk.blk, fs.freemap, i, R)
  BY RegionOfApart
<1>6. Own(m.free, Refs(m.din, m.blk), {}, R) /\ \A x \in Blocks \ R : m.blk[x] = disk.blk[x]
  BY DEF Holds
<1>7. D \in [DOMAIN disk.inode -> Dins]
  BY <1>4 DEF Sound
<1>8. Dinodes' = Changed(D, i, m.din)
  <2>1. ASSUME NEW j \in DOMAIN disk.inode PROVE Din(j)' = IF j = i THEN m.din ELSE Din(j)
    BY <1>2, <2>1 DEF Din, Stored
  <2>2. Dinodes' = [j \in DOMAIN disk.inode |-> IF j = i THEN m.din ELSE Din(j)]
    BY <1>2, <2>1 DEF Dinodes, Stored
  <2>3. Dinodes = [j \in DOMAIN disk.inode |-> Din(j)]
    BY DEF Dinodes
  <2> HIDE DEF D
  <2>4. QED
    BY <2>2, <2>3 DEF Changed, D
<1> HIDE DEF D, R
<1>9. Sound(Changed(D, i, m.din), m.blk, m.free)
  BY <1>1, <1>4, <1>5, <1>6, SoundAfter
<1>10. 1 \in DOMAIN sin => D[1] = disk.inode[1] /\ sin[1].din = disk.inode[1]
  BY <1>4, DinodesAt DEF MountedInv, BLKN_ROOT, Din, D
<1>11. D[1] = disk.inode[1]
  BY <1>4, <1>10, DinodesAt DEF Din, D
<1>12. MountedInv'
  <2>1. Sound(Dinodes', disk'.blk, fs'.freemap)
    BY <1>3, <1>8, <1>9
  <2>2. fs'.unused = Cardinality(fs'.freemap)
    BY <1>3 DEF Holds
  <2>3. ~ fs'.super_dirty => fs'.freemap = disk'.freemap /\ fs'.unused = disk'.super.unused
    BY <1>3 DEF Holds
  <2>4. 1 \in DOMAIN sin' => sin'[1].din = disk'.inode[1]
    BY <1>2, <1>10 DEF Stored
  <2>5. QED
    BY <2>1, <2>2, <2>3, <2>4 DEF MountedInv, BLKN_ROOT
<1>13. SameDir(disk.inode, disk.blk, disk'.inode, disk'.blk)
  <2>1. disk'.inode = disk.inode
    BY <1>2 DEF Stored
  <2>2. SameDir(disk.inode, disk.blk, disk'.inode, m.blk)
    BY <1>4, <1>5, <1>6, <1>11, <2>1, DirKept
  <2>3. QED
    BY <1>3, <2>2
<1>14. DirInv'
  <2>1. DirOK(disk.inode, disk.blk, made) /\ made = Files
    BY DEF DirInv
  <2>2. disk'.inode = disk.inode
    BY <1>2 DEF Stored
  <2>3. DirOK(disk'.inode, disk'.blk, made)
    BY <1>13, <2>1, <2>2, DirOKKept
  <2>4. QED
    BY <2>1, <2>3 DEF DirInv
<1>15. CleanInv'
  <2>1. ASSUME NEW j \in DOMAIN sin', ~ sin'[j].dirty PROVE Same(sin'[j].din, disk'.inode[j])
    <3>1. CASE j = i
      BY <1>2, <2>1, <3>1 DEF Holds, Stored
    <3>2. CASE j # i
      BY <1>2, <2>1, <3>2 DEF CleanInv, Stored
    <3>3. QED
      BY <3>1, <3>2
  <2>2. QED
    BY <2>1 DEF CleanInv
<1>16. \A f : Ino(f)' = Ino(f)
  BY <1>13, InoKept
<1>17. QED
  BY <1>2, <1>12, <1>14, <1>15, <1>16 DEF Kept

LEMMA FilesType == Files \subseteq Nat /\ 0 \notin Files /\ \A f \in Files : f \in Int
  BY SfsAssumption

LEMMA OpenFile ==
  ASSUME SfsInv, NEW h \in Handles, IsOpen(h)
  PROVE  /\ phase = "mounted" /\ fd[h].file \in Files /\ fd[h].pos \in Nat
         /\ Ino(fd[h].file) \in DOMAIN sin /\ Ino(fd[h].file) \in DOMAIN disk.inode /\ Ino(fd[h].file) # 1
<1>1. phase = "mounted" /\ fd[h] # Closed
  BY DEF IsOpen, Running
<1>2. fd[h].file \in Files /\ fd[h].pos \in Nat
  BY <1>1 DEF SfsInv, TypeInv, FdType
<1>3. Ino(fd[h].file) \in DOMAIN sin
  BY <1>1 DEF SfsInv, HandlesInv
<1>4. DirOK(disk.inode, disk.blk, Files)
  BY <1>1 DEF SfsInv, DirInv
<1>5. QED
  BY <1>1, <1>2, <1>3, <1>4, InoFound

LEMMA CallKeeps ==
  ASSUME SfsInv, phase = "mounted", NEW i \in DOMAIN disk.inode, i # 1, NEW node \in Nodes,
         NEW m, Holds(m, RegionOf(i), i, {}), Finish(i, node, m),
         made' = made, next_ino' = next_ino, FdType',
         Stored(i, node, m) /\ Kept => HandlesInv'
  PROVE  SfsInv'
<1>1. CASE m.panic
  <2>1. phase' = "panic" /\ disk' = disk /\ fs' = fs /\ sin' = sin
    BY <1>1 DEF Finish
  <2>2. TypeInv'
    BY <2>1 DEF SfsInv, TypeInv
  <2>3. CleanInv'
    BY <2>1 DEF SfsInv, CleanInv
  <2>4. QED
    BY <2>1, <2>2, <2>3 DEF SfsInv, MakingInv, UnmountedInv, IdleInv, MountedInv, DirInv, HandlesInv
<1>2. CASE ~ m.panic
  <2>1. Stored(i, node, m) /\ Kept
    BY <1>2, FinishKeeps DEF SfsInv
  <2>2. phase' = "mounted"
    BY <2>1 DEF Stored
  <2>3. DOMAIN sin' \subseteq DOMAIN disk'.inode
    BY <2>1 DEF Stored, SfsInv, TypeInv
  <2>4. TypeInv'
    BY <2>1, <2>2, <2>3 DEF Stored, SfsInv, TypeInv
  <2>5. HandlesInv'
    BY <2>1
  <2>6. QED
    BY <2>1, <2>2, <2>4, <2>5 DEF SfsInv, Kept, MakingInv, UnmountedInv, IdleInv
<1>3. QED
  BY <1>1, <1>2

(* A call on an open file: the descriptors stay on their files.            *)
LEMMA OnOpenFile ==
  ASSUME SfsInv, NEW h \in Handles, IsOpen(h), NEW m,
         Holds(m, RegionOf(Ino(fd[h].file)), Ino(fd[h].file), {}), Finish(Ino(fd[h].file), Node(h), m),
         made' = made, next_ino' = next_ino, NEW pos \in Nat,
         fd' = [fd EXCEPT ![h] = [file |-> fd[h].file, pos |-> pos]]
  PROVE  SfsInv'
<1> DEFINE i == Ino(fd[h].file)
           node == Node(h)
<1>1. /\ phase = "mounted" /\ fd[h].file \in Files /\ i \in DOMAIN sin /\ i \in DOMAIN disk.inode /\ i # 1
  BY OpenFile
<1>2. node = sin[i] /\ node \in Nodes
  BY <1>1 DEF Node, SfsInv, TypeInv
<1>3. /\ fd \in [Handles -> [file : Files \cup {0}, pos : Nat]] /\ 0 \notin Files
      /\ \A g \in Handles : fd[g] = Closed \/ fd[g].file \in Files
  BY FilesType DEF SfsInv, TypeInv, FdType
<1>4. /\ fd' \in [Handles -> [file : Files \cup {0}, pos : Nat]]
      /\ \A g \in Handles : fd'[g].file = fd[g].file
      /\ \A g \in Handles : g # h => fd'[g] = fd[g]
      /\ fd'[h] # Closed
  BY <1>1, <1>3 DEF Closed
<1>5. fd[h] # Closed
  BY DEF IsOpen
<1>6. FdType'
  BY <1>1, <1>3, <1>4 DEF FdType
<1> HIDE DEF i, node
<1>7. ASSUME Stored(i, node, m), Kept PROVE HandlesInv'
  <2>1. DOMAIN sin' = DOMAIN sin /\ sin'[i].ref = sin[i].ref /\ \A j \in DOMAIN sin : j # i => sin'[j] = sin[j]
    BY <1>1, <1>2, <1>7 DEF Stored
  <2>2. \A f : Ino(f)' = Ino(f)
    BY <1>7 DEF Kept
  <2>3. \A g \in Handles : fd'[g] = Closed <=> fd[g] = Closed
    BY <1>4, <1>5
  <2>4. ASSUME NEW g \in Handles, fd'[g] # Closed PROVE Ino(fd[g].file)' \in DOMAIN sin'
    <3>1. Ino(fd[g].file) \in DOMAIN sin
      BY <1>1, <2>3, <2>4 DEF SfsInv, HandlesInv
    <3>2. QED
      BY <1>4, <2>1, <2>2, <3>1
  <2>5. \A j : Holders(j)' = Holders(j)
    BY <1>4, <2>2, <2>3 DEF Holders
  <2>6. \A j \in DOMAIN sin' \ {1} : sin'[j].ref = Cardinality(Holders(j)')
    <3>1. \A j \in DOMAIN sin \ {1} : sin[j].ref = Cardinality(Holders(j))
      BY <1>1 DEF SfsInv, HandlesInv, BLKN_ROOT
    <3>2. QED
      BY <2>1, <2>5, <3>1
  <2>7. QED
    BY <2>4, <2>6 DEF HandlesInv, BLKN_ROOT
<1>8. QED
  BY <1>1, <1>2, <1>6, <1>7, CallKeeps DEF i, node

LEMMA OpenStart ==
  ASSUME SfsInv, NEW h \in Handles, IsOpen(h)
  PROVE  Holds(Start(Node(h)), RegionOf(Ino(fd[h].file)), Ino(fd[h].file), {})
<1> DEFINE i == Ino(fd[h].file)
           node == Node(h)
<1>1. phase = "mounted" /\ i \in DOMAIN sin /\ i \in DOMAIN disk.inode
  BY OpenFile
<1>2. node = sin[i] /\ node \in Nodes /\ node.din = Din(i)
  BY <1>1 DEF Node, SfsInv, TypeInv, Din
<1>3. ~ node.dirty => Same(node.din, disk.inode[i])
  BY <1>1, <1>2 DEF SfsInv, CleanInv
<1> HIDE DEF i, node
<1>4. Holds(Start(node), RegionOf(i), i, {})
  BY <1>1, <1>2, <1>3, StartHolds DEF SfsInv
<1>5. QED
  BY <1>4 DEF i, node

LEMMA RegionPlain ==
  ASSUME SfsInv, phase = "mounted", NEW i \in DOMAIN disk.inode
  PROVE  RegionOf(i) \in SUBSET Blocks /\ 0 \notin RegionOf(i)
  BY RegionOfApart DEF SfsInv, Apart

LEMMA TransferStep ==
  ASSUME SfsInv, NEW h \in Handles, NEW n \in IoSizes, NEW write, Transfer(h, n, write)
  PROVE  SfsInv'
<1> DEFINE i == Ino(fd[h].file)
           R == RegionOf(i)
           m0 == Start(Node(h))
           m == sfs_io(m0, fd[h].pos, n, write, fd[h].file)
<1>1. IsOpen(h)
  BY DEF Transfer
<1>2. /\ Finish(i, Node(h), m) /\ fd' = [fd EXCEPT ![h].pos = @ + m.alen]
      /\ next_ino' = next_ino /\ made' = made
  BY DEF Transfer
<1>3. /\ phase = "mounted" /\ fd[h].file \in Files /\ fd[h].pos \in Nat
      /\ i \in DOMAIN disk.inode /\ i # 1
  BY <1>1, OpenFile
<1>4. R \in SUBSET Blocks /\ 0 \notin R
  BY <1>3, RegionPlain
<1>5. Holds(m0, R, i, {})
  BY <1>1, OpenStart
<1> HIDE DEF m0, R
<1>6. Holds(m, R, i, {})
  BY <1>3, <1>4, <1>5, IoStep, FilesType
<1> HIDE DEF m, i
<1>7. m.alen \in Nat
  BY <1>6 DEF Holds, Mems
<1> DEFINE pos == fd[h].pos + m.alen
<1>8. pos \in Nat
  BY <1>3, <1>7
<1>9. fd' = [fd EXCEPT ![h] = [file |-> fd[h].file, pos |-> pos]]
  <2>1. fd[h] \in [file : Files \cup {0}, pos : Nat]
    BY DEF SfsInv, TypeInv, FdType
  <2>2. [fd[h] EXCEPT !.pos = pos] = [file |-> fd[h].file, pos |-> pos]
    BY <2>1
  <2>3. fd' = [fd EXCEPT ![h] = [fd[h] EXCEPT !.pos = pos]]
    BY <1>2
  <2>4. QED
    BY <2>2, <2>3
<1> HIDE DEF pos
<1>10. QED
  BY <1>1, <1>2, <1>6, <1>8, <1>9, OnOpenFile DEF i, R

LEMMA SeekStep ==
  ASSUME SfsInv, NEW h \in Handles, NEW pos \in SeekTo, Seek(h, pos)
  PROVE  SfsInv'
<1> DEFINE i == Ino(fd[h].file)
           R == RegionOf(i)
           m0 == Start(Node(h))
           m == IF pos >= MAX_FILE_SIZE THEN [m0 EXCEPT !.ok = FALSE]
                ELSE IF pos > Node(h).din.size THEN sfs_truncfile(m0, pos)
                ELSE m0
<1>1. IsOpen(h) /\ pos \in Nat
  BY SfsAssumption DEF Seek
<1>2. /\ Finish(i, Node(h), m) /\ fd' = IF m.ok THEN [fd EXCEPT ![h].pos = pos] ELSE fd
      /\ next_ino' = next_ino /\ made' = made
  BY DEF Seek
<1>3. /\ phase = "mounted" /\ fd[h].file \in Files /\ fd[h].pos \in Nat
      /\ i \in DOMAIN disk.inode /\ i # 1
  BY <1>1, OpenFile
<1>4. R \in SUBSET Blocks /\ 0 \notin R
  BY <1>3, RegionPlain
<1>5. Holds(m0, R, i, {})
  BY <1>1, OpenStart
<1> HIDE DEF m0, R
<1>6. Holds(m, R, i, {})
  <2> DEFINE s == [m0 EXCEPT !.ok = FALSE]
  <2>1. Holds(s, R, i, {})
    BY <1>5, StopStep
  <2>2. Holds(sfs_truncfile(m0, pos), R, i, {})
    BY <1>1, <1>4, <1>5, TruncfileStep
  <2> HIDE DEF s
  <2>3. m = IF pos >= MAX_FILE_SIZE THEN s
            ELSE IF pos > Node(h).din.size THEN sfs_truncfile(m0, pos) ELSE m0
    BY DEF s
  <2> HIDE DEF m
  <2>4. QED
    BY <1>5, <2>1, <2>2, <2>3
<1> HIDE DEF m, i
<1> DEFINE p == IF m.ok THEN pos ELSE fd[h].pos
<1>7. p \in Nat
  BY <1>1, <1>3
<1>8. fd' = [fd EXCEPT ![h] = [file |-> fd[h].file, pos |-> p]]
  <2>1. fd[h] \in [file : Files \cup {0}, pos : Nat] /\ fd \in [Handles -> [file : Files \cup {0}, pos : Nat]]
    BY DEF SfsInv, TypeInv, FdType
  <2>2. CASE m.ok
    <3>1. [fd[h] EXCEPT !.pos = pos] = [file |-> fd[h].file, pos |-> pos]
      BY <2>1
    <3>2. fd' = [fd EXCEPT ![h] = [fd[h] EXCEPT !.pos = pos]]
      BY <1>2, <2>2
    <3>3. QED
      BY <2>2, <3>1, <3>2
  <2>3. CASE ~ m.ok
    <3>1. fd' = fd
      BY <1>2, <2>3
    <3>2. fd[h] = [file |-> fd[h].file, pos |-> fd[h].pos]
      BY <2>1
    <3>3. [fd EXCEPT ![h] = fd[h]] = fd
      BY <2>1
    <3>4. QED
      BY <2>3, <3>1, <3>2, <3>3
  <2>4. QED
    BY <2>2, <2>3
<1> HIDE DEF p
<1>9. QED
  BY <1>1, <1>2, <1>6, <1>7, <1>8, OnOpenFile DEF i, R

LEMMA LoadedNode ==
  ASSUME SfsInv, phase = "mounted", NEW i \in DOMAIN disk.inode
  PROVE  LET node == Loaded(i)
         IN  /\ node \in Nodes /\ node.din = Din(i)
             /\ ~ node.dirty => Same(node.din, disk.inode[i])
             /\ node.ref = IF i \in DOMAIN sin THEN sin[i].ref + 1 ELSE 1
<1> DEFINE node == Loaded(i)
<1>1. disk.inode[i] \in Dins
  BY DinType DEF SfsInv
<1>2. CASE i \in DOMAIN sin
  <2> DEFINE rec == IF sin[i].ref = 0 THEN sin[i].reclaim + 1 ELSE sin[i].reclaim
             n == [sin[i] EXCEPT !.ref = sin[i].ref + 1, !.reclaim = rec]
  <2>1. sin[i] \in Nodes
    BY <1>2 DEF SfsInv, TypeInv
  <2>2. node = n
    BY <1>2 DEF Loaded
  <2>3. rec \in Int /\ sin[i].ref + 1 \in Int
    BY <2>1 DEF Nodes
  <2> HIDE DEF rec
  <2>4. n \in Nodes /\ n.din = sin[i].din /\ n.dirty = sin[i].dirty /\ n.ref = sin[i].ref + 1
    BY <2>1, <2>3 DEF Nodes
  <2> HIDE DEF n, node
  <2>5. Din(i) = sin[i].din
    BY <1>2 DEF Din
  <2>6. ~ sin[i].dirty => Same(sin[i].din, disk.inode[i])
    BY <1>2 DEF SfsInv, CleanInv
  <2>7. QED
    BY <1>2, <2>2, <2>4, <2>5, <2>6 DEF node
<1>3. CASE i \notin DOMAIN sin
  <2>1. node = [din |-> disk.inode[i], dirty |-> FALSE, ref |-> 1, open |-> 0, reclaim |-> 1]
    BY <1>3 DEF Loaded
  <2>2. Din(i) = disk.inode[i]
    BY <1>3 DEF Din
  <2>3. node \in Nodes /\ node.din = disk.inode[i] /\ node.ref = 1
    BY <1>1, <2>1 DEF Nodes
  <2>4. Same(disk.inode[i], disk.inode[i])
    BY <1>1, SameSelf
  <2>5. QED
    BY <1>3, <2>2, <2>3, <2>4
<1>4. QED
  BY <1>2, <1>3

LEMMA HoldersFinite ==
  ASSUME NEW i
  PROVE  /\ IsFiniteSet(Holders(i)) /\ Cardinality(Holders(i)) \in Nat
         /\ \A h \in Handles : h \notin Holders(i) =>
               Cardinality(Holders(i) \cup {h}) = Cardinality(Holders(i)) + 1
         /\ \A h \in Holders(i) : Cardinality(Holders(i) \ {h}) = Cardinality(Holders(i)) - 1
         /\ Cardinality(Holders(i)) = 0 <=> Holders(i) = {}
<1>1. IsFiniteSet(Handles) /\ Holders(i) \subseteq Handles
  BY SfsAssumption DEF Holders
<1>2. IsFiniteSet(Holders(i))
  BY <1>1, FS_Subset
<1>3. Cardinality(Holders(i)) \in Nat
  BY <1>2, FS_CardinalityType
<1>4. Cardinality(Holders(i)) = 0 <=> Holders(i) = {}
  BY <1>2, FS_EmptySet
<1>5. ASSUME NEW h \in Handles, h \notin Holders(i)
      PROVE  Cardinality(Holders(i) \cup {h}) = Cardinality(Holders(i)) + 1
  BY <1>2, <1>5, FS_AddElement
<1>6. ASSUME NEW h \in Holders(i)
      PROVE  Cardinality(Holders(i) \ {h}) = Cardinality(Holders(i)) - 1
  BY <1>2, FS_RemoveElement
<1>7. QED
  BY <1>2, <1>3, <1>4, <1>5, <1>6

LEMMA OpenStep ==
  ASSUME SfsInv, NEW h \in Handles, NEW f \in Files, NEW trunc, NEW append, Open(h, f, trunc, append)
  PROVE  SfsInv'
<1> DEFINE i == Ino(f)
           R == RegionOf(i)
           node == [Loaded(i) EXCEPT !.open = @ + 1]
           m0 == Start(node)
           m == IF trunc THEN sfs_truncfile(m0, 0) ELSE m0
           pos == IF append THEN m.din.size ELSE 0
<1>1. /\ phase = "mounted" /\ fd[h] = Closed
      /\ Finish(i, node, m) /\ fd' = [fd EXCEPT ![h] = [file |-> f, pos |-> pos]]
      /\ next_ino' = next_ino /\ made' = made
  BY DEF Open, Running
<1>2. i \in DOMAIN disk.inode /\ i # 1
  <2>1. DirOK(disk.inode, disk.blk, Files)
    BY <1>1 DEF SfsInv, DirInv
  <2>2. QED
    BY <2>1, InoFound
<1>3. /\ node \in Nodes /\ node.din = Din(i)
      /\ ~ node.dirty => Same(node.din, disk.inode[i])
      /\ node.ref = IF i \in DOMAIN sin THEN sin[i].ref + 1 ELSE 1
  <2> DEFINE l == Loaded(i)
  <2>1. /\ l \in Nodes /\ l.din = Din(i)
        /\ ~ l.dirty => Same(l.din, disk.inode[i])
        /\ l.ref = IF i \in DOMAIN sin THEN sin[i].ref + 1 ELSE 1
    BY <1>1, <1>2, LoadedNode
  <2> HIDE DEF l, i
  <2> DEFINE n == [l EXCEPT !.open = l.open + 1]
  <2>2. n \in Nodes /\ n.din = l.din /\ n.dirty = l.dirty /\ n.ref = l.ref
    BY <2>1 DEF Nodes
  <2>3. node = n
    BY DEF l
  <2> HIDE DEF n, node
  <2>4. QED
    BY <2>1, <2>2, <2>3
<1> HIDE DEF node, i
<1>4. R \in SUBSET Blocks /\ 0 \notin R
  BY <1>1, <1>2, RegionPlain
<1>5. Holds(m0, R, i, {})
  BY <1>1, <1>2, <1>3, StartHolds DEF SfsInv
<1> HIDE DEF R, m0
<1>6. Holds(m, R, i, {})
  <2>1. Holds(sfs_truncfile(m0, 0), R, i, {})
    BY <1>4, <1>5, TruncfileStep
  <2>2. QED
    BY <1>5, <2>1
<1> HIDE DEF m
<1>7. pos \in Nat
  BY <1>6 DEF Holds, Mems, Dins
<1> HIDE DEF pos
<1>8. /\ fd \in [Handles -> [file : Files \cup {0}, pos : Nat]] /\ 0 \notin Files
      /\ \A g \in Handles : fd[g] = Closed \/ fd[g].file \in Files
  BY FilesType DEF SfsInv, TypeInv, FdType
<1>9. /\ fd' \in [Handles -> [file : Files \cup {0}, pos : Nat]]
      /\ fd'[h].file = f /\ fd'[h] # Closed
      /\ \A g \in Handles : g # h => fd'[g] = fd[g]
  BY <1>1, <1>7, <1>8 DEF Closed
<1>10. FdType'
  BY <1>8, <1>9 DEF FdType
<1>11. ASSUME Stored(i, node, m), Kept PROVE HandlesInv'
  <2>1. /\ DOMAIN sin' = DOMAIN sin \cup {i} /\ sin'[i].ref = node.ref
        /\ \A j \in DOMAIN sin : j # i => sin'[j] = sin[j]
    BY <1>11 DEF Stored
  <2>2. \A g : Ino(g)' = Ino(g)
    BY <1>11 DEF Kept
  <2>3. \A g \in Handles : fd[g] # Closed => Ino(fd[g].file) \in DOMAIN sin
    BY <1>1 DEF SfsInv, HandlesInv
  <2>4. ASSUME NEW g \in Handles, fd'[g] # Closed PROVE Ino(fd[g].file)' \in DOMAIN sin'
    <3>1. CASE g = h
      BY <1>9, <2>1, <2>2, <3>1 DEF i
    <3>2. CASE g # h
      BY <1>9, <2>1, <2>2, <2>3, <2>4, <3>2
    <3>3. QED
      BY <3>1, <3>2
  <2>5. ASSUME NEW j, j = i PROVE Holders(j)' = Holders(j) \cup {h}
    BY <1>9, <2>2, <2>5 DEF Holders, i
  <2>6. ASSUME NEW j, j # i PROVE Holders(j)' = Holders(j)
    BY <1>1, <1>9, <2>2, <2>6 DEF Holders, i
  <2>7. h \notin Holders(i)
    BY <1>1 DEF Holders
  <2>8. \A j \in DOMAIN sin \ {1} : sin[j].ref = Cardinality(Holders(j))
    BY <1>1 DEF SfsInv, HandlesInv, BLKN_ROOT
  <2>9. ASSUME NEW j \in DOMAIN sin' \ {1} PROVE sin'[j].ref = Cardinality(Holders(j)')
    <3>1. CASE j # i
      BY <2>1, <2>6, <2>8, <3>1
    <3>2. CASE j = i /\ i \in DOMAIN sin
      <4>1. sin'[i].ref = sin[i].ref + 1 /\ sin[i].ref = Cardinality(Holders(i))
        BY <1>2, <1>3, <2>1, <2>8, <3>2
      <4>2. Cardinality(Holders(i) \cup {h}) = Cardinality(Holders(i)) + 1
        BY <2>7, HoldersFinite
      <4>3. QED
        BY <2>5, <3>2, <4>1, <4>2
    <3>3. CASE j = i /\ i \notin DOMAIN sin
      <4>1. Holders(i) = {}
        BY <2>3, <3>3 DEF Holders
      <4>2. Cardinality(Holders(i) \cup {h}) = Cardinality(Holders(i)) + 1 /\ Cardinality(Holders(i)) = 0
        BY <2>7, <4>1, HoldersFinite
      <4>3. sin'[i].ref = 1
        BY <1>3, <2>1, <3>3
      <4>4. Holders(j)' = Holders(j) \cup {h} /\ Holders(j) = Holders(i)
        BY <2>5, <3>3
      <4>5. Cardinality(Holders(j)') = 1
        BY <4>2, <4>4
      <4>6. QED
        BY <3>3, <4>3, <4>5
    <3>4. QED
      BY <3>1, <3>2, <3>3
  <2>10. QED
    BY <2>4, <2>9 DEF HandlesInv, BLKN_ROOT
<1>12. QED
  BY <1>1, <1>2, <1>3, <1>6, <1>10, <1>11, CallKeeps DEF R

-----------------------------------------------------------------------------
(* Steps that leave the blocks alone: closing, syncing and mounting.       *)

LEMMA QuietKeeps ==
  ASSUME SfsInv, phase = "mounted", phase' = "mounted", made' = made, next_ino' = next_ino, FdType',
         IsDisk(disk'), disk'.blk = disk.blk,
         DOMAIN disk'.inode = DOMAIN disk.inode, disk'.inode[1] = disk.inode[1],
         fs' \in [freemap : SUBSET Blocks, unused : Int, super_dirty : BOOLEAN],
         fs'.freemap = fs.freemap, fs'.unused = fs.unused,
         ~ fs'.super_dirty => fs'.freemap = disk'.freemap /\ fs'.unused = disk'.super.unused,
         sin' \in [DOMAIN sin' -> Nodes], DOMAIN sin' \subseteq DOMAIN disk.inode,
         1 \in DOMAIN sin' => sin'[1].din = disk.inode[1],
         \A j \in DOMAIN disk.inode : Din(j)'.direct = Din(j).direct /\ Din(j)'.indirect = Din(j).indirect,
         CleanInv', (\A f : Ino(f)' = Ino(f)) => HandlesInv'
  PROVE  SfsInv'
<1>1. TypeInv'
  BY DEF SfsInv, TypeInv
<1>2. Sound(Dinodes, disk.blk, fs.freemap)
  BY DEF SfsInv, MountedInv
<1>3. Sound(Dinodes', disk'.blk, fs'.freemap)
  <2>1. /\ DOMAIN Dinodes = DOMAIN disk.inode /\ DOMAIN Dinodes' = DOMAIN disk.inode
        /\ \A i \in DOMAIN disk.inode : Dinodes[i] = Din(i)
        /\ \A i \in DOMAIN disk.inode : Dinodes'[i] = Din(i)'
    BY DEF Dinodes
  <2>2. ASSUME NEW j \in DOMAIN disk.inode PROVE Din(j)' \in Dins
    <3>1. disk'.inode[j] \in Dins /\ (j \in DOMAIN sin' => sin'[j].din \in Dins)
      BY <1>1 DEF TypeInv, IsDisk, Nodes
    <3>2. QED
      BY <3>1 DEF Din
  <2>3. Dinodes' = [j \in DOMAIN disk.inode |-> Din(j)']
    BY DEF Dinodes
  <2>4. Dinodes' \in [DOMAIN Dinodes -> Dins]
    BY <2>1, <2>2, <2>3
  <2>5. Sound(Dinodes', disk.blk, fs.freemap)
    BY <1>2, <2>1, <2>4, SoundSame
  <2>6. QED
    BY <2>5
<1>4. MountedInv'
  <2>1. fs'.unused = Cardinality(fs'.freemap)
    BY DEF SfsInv, MountedInv
  <2>2. QED
    BY <1>3, <2>1 DEF MountedInv, BLKN_ROOT
<1>5. SameDir(disk.inode, disk.blk, disk'.inode, disk'.blk)
  BY DEF SameDir, Slots, EntryAt, BLKN_ROOT
<1>6. DirInv'
  <2>1. DirOK(disk.inode, disk.blk, made) /\ made = Files
    BY DEF SfsInv, DirInv
  <2>2. DirOK(disk'.inode, disk'.blk, made)
    BY <1>5, <2>1, DirOKKept
  <2>3. QED
    BY <2>1, <2>2 DEF DirInv
<1>7. HandlesInv'
  BY <1>5, InoKept
<1>8. QED
  BY <1>1, <1>4, <1>6, <1>7 DEF SfsInv, MakingInv, UnmountedInv, IdleInv

\* the disk with inode i as it is in memory
Written(i, din) == [disk EXCEPT !.inode[i] = din]

LEMMA WrittenDisk ==
  ASSUME IsDisk(disk), NEW i \in DOMAIN disk.inode, NEW din \in Dins
  PROVE  LET d == Written(i, din)
         IN  /\ IsDisk(d) /\ d.blk = disk.blk /\ d.freemap = disk.freemap /\ d.super = disk.super
             /\ DOMAIN d.inode = DOMAIN disk.inode /\ d.inode[i] = din
             /\ \A j \in DOMAIN disk.inode : j # i => d.inode[j] = disk.inode[j]
<1> DEFINE inode == [disk.inode EXCEPT ![i] = din]
           e == [super |-> disk.super, freemap |-> disk.freemap, inode |-> disk.inode, blk |-> disk.blk]
           d == [super |-> disk.super, freemap |-> disk.freemap, inode |-> inode, blk |-> disk.blk]
<1>1. disk = e
  BY DEF IsDisk
<1>2. Written(i, din) = [disk EXCEPT !.inode = inode]
  BY DEF Written
<1>3. [e EXCEPT !.inode = inode] = d
  OBVIOUS
<1>4. /\ disk.inode \in [DOMAIN disk.inode -> Dins] /\ DOMAIN disk.inode \subseteq Blocks
      /\ disk.super \in [blocks : Int, unused : Int] /\ disk.freemap \subseteq Blocks /\ disk.blk \in Disk
  BY DEF IsDisk
<1>5. /\ inode \in [DOMAIN disk.inode -> Dins] /\ DOMAIN inode = DOMAIN disk.inode /\ inode[i] = din
      /\ \A j \in DOMAIN disk.inode : j # i => inode[j] = disk.inode[j]
  BY <1>4
<1> HIDE DEF inode, e
<1>6. Written(i, din) = d
  BY <1>1, <1>2, <1>3
<1>7. d.inode = inode /\ d.blk = disk.blk /\ d.freemap = disk.freemap /\ d.super = disk.super
  OBVIOUS
<1>8. IsDisk(d)
  BY <1>4, <1>5, <1>7 DEF IsDisk
<1> HIDE DEF d
<1>9. QED
  BY <1>5, <1>6, <1>7, <1>8

(* sfs_fsync writes the inode unless it is clean, which leaves the same.   *)
LEMMA FsyncedDisk ==
  ASSUME SfsInv, phase = "mounted", NEW i \in DOMAIN sin, NEW node \in Nodes,
         node.din = sin[i].din, node.dirty = sin[i].dirty
  PROVE  LET d == Fsynced(disk, i, node)
         IN  /\ IsDisk(d) /\ d.blk = disk.blk /\ d.freemap = disk.freemap /\ d.super = disk.super
             /\ DOMAIN d.inode = DOMAIN disk.inode /\ Same(node.din, d.inode[i])
             /\ \A j \in DOMAIN disk.inode : j # i => d.inode[j] = disk.inode[j]
<1> DEFINE d == Fsynced(disk, i, node)
<1>1. i \in DOMAIN disk.inode /\ IsDisk(disk) /\ node.din \in Dins
  BY DEF SfsInv, TypeInv, Nodes
<1>2. CASE node.dirty
  <2> DEFINE w == Written(i, node.din)
  <2>1. d = w
    BY <1>2 DEF Fsynced, Written
  <2>2. /\ IsDisk(w) /\ w.blk = disk.blk /\ w.freemap = disk.freemap /\ w.super = disk.super
        /\ DOMAIN w.inode = DOMAIN disk.inode /\ w.inode[i] = node.din
        /\ \A j \in DOMAIN disk.inode : j # i => w.inode[j] = disk.inode[j]
    BY <1>1, WrittenDisk
  <2> HIDE DEF d, w
  <2>3. Same(node.din, node.din)
    BY <1>1, SameSelf
  <2>4. QED
    BY <2>1, <2>2, <2>3 DEF d
<1>3. CASE ~ node.dirty
  <2>1. d = disk
    BY <1>3 DEF Fsynced
  <2>2. Same(node.din, disk.inode[i])
    BY <1>3 DEF SfsInv, CleanInv
  <2> HIDE DEF d
  <2>3. QED
    BY <1>1, <2>1, <2>2 DEF d
<1>4. QED
  BY <1>2, <1>3

LEMMA FsyncStep ==
  ASSUME SfsInv, NEW h \in Handles, Fsync(h)
  PROVE  SfsInv'
<1> DEFINE i == Ino(fd[h].file)
           d == Fsynced(disk, i, Node(h))
           n == [sin[i] EXCEPT !.dirty = FALSE]
<1>1. /\ IsOpen(h) /\ disk' = d
      /\ sin' = [sin EXCEPT ![i].dirty = FALSE]
      /\ phase' = phase /\ next_ino' = next_ino /\ made' = made /\ fs' = fs /\ fd' = fd
  BY DEF Fsync
<1>2. phase = "mounted" /\ i \in DOMAIN sin /\ i \in DOMAIN disk.inode /\ i # 1
  BY <1>1, OpenFile
<1>3. Node(h) = sin[i] /\ sin[i] \in Nodes /\ sin \in [DOMAIN sin -> Nodes]
  BY <1>2 DEF Node, SfsInv, TypeInv
<1>4. /\ IsDisk(d) /\ d.blk = disk.blk /\ d.freemap = disk.freemap /\ d.super = disk.super
      /\ DOMAIN d.inode = DOMAIN disk.inode /\ Same(sin[i].din, d.inode[i])
      /\ \A j \in DOMAIN disk.inode : j # i => d.inode[j] = disk.inode[j]
  BY <1>2, <1>3, FsyncedDisk
<1>5. sin' = [sin EXCEPT ![i] = n]
  BY <1>1
<1>6. n \in Nodes /\ n.din = sin[i].din /\ n.ref = sin[i].ref
  BY <1>3 DEF Nodes
<1> HIDE DEF d, n, i
<1>7. /\ DOMAIN sin' = DOMAIN sin /\ sin' \in [DOMAIN sin -> Nodes] /\ sin'[i] = n
      /\ \A j \in DOMAIN sin : j # i => sin'[j] = sin[j]
  BY <1>2, <1>3, <1>5, <1>6
<1>8. ASSUME NEW j \in DOMAIN sin PROVE sin'[j].din = sin[j].din /\ sin'[j].ref = sin[j].ref
  BY <1>6, <1>7
<1>9. ASSUME NEW j \in DOMAIN disk.inode PROVE Din(j)' = Din(j)
  <2>1. CASE j \in DOMAIN sin
    BY <1>7, <1>8, <2>1 DEF Din
  <2>2. CASE j \notin DOMAIN sin
    BY <1>1, <1>2, <1>4, <1>7, <2>2 DEF Din
  <2>3. QED
    BY <2>1, <2>2
<1>10. CleanInv'
  <2>1. ASSUME NEW j \in DOMAIN sin, ~ sin'[j].dirty PROVE Same(sin'[j].din, d.inode[j])
    <3>1. CASE j = i
      BY <1>4, <1>8, <3>1
    <3>2. CASE j # i
      BY <1>4, <1>7, <2>1, <3>2 DEF SfsInv, CleanInv, TypeInv
    <3>3. QED
      BY <3>1, <3>2
  <2>2. QED
    BY <1>1, <1>7, <2>1 DEF CleanInv
<1>11. ASSUME \A f : Ino(f)' = Ino(f) PROVE HandlesInv'
  <2>1. \A j : Holders(j)' = Holders(j)
    BY <1>1, <1>11 DEF Holders
  <2>2. \A g \in Handles : fd[g] # Closed => Ino(fd[g].file)' \in DOMAIN sin'
    BY <1>1, <1>2, <1>7, <1>11 DEF SfsInv, HandlesInv
  <2>3. \A j \in DOMAIN sin' \ {1} : sin'[j].ref = Cardinality(Holders(j)')
    <3>1. \A j \in DOMAIN sin \ {1} : sin[j].ref = Cardinality(Holders(j))
      BY <1>2 DEF SfsInv, HandlesInv, BLKN_ROOT
    <3>2. QED
      BY <1>7, <1>8, <2>1, <3>1
  <2>4. QED
    BY <1>1, <2>2, <2>3 DEF HandlesInv, BLKN_ROOT
<1>12. /\ 1 \in DOMAIN sin' => sin'[1].din = disk.inode[1]
       /\ 1 \in DOMAIN disk.inode
  <2>1. 1 \in DOMAIN sin => sin[1].din = disk.inode[1]
    BY <1>2 DEF SfsInv, MountedInv, BLKN_ROOT
  <2>2. 1 \in DOMAIN disk.inode
    BY <1>2, DinodesAt DEF SfsInv, MountedInv, Sound
  <2>3. QED
    BY <1>7, <1>8, <2>1, <2>2
<1>13. /\ FdType' /\ fs \in [freemap : SUBSET Blocks, unused : Int, super_dirty : BOOLEAN]
       /\ DOMAIN sin \subseteq DOMAIN disk.inode
       /\ ~ fs.super_dirty => fs.freemap = disk.freemap /\ fs.unused = disk.super.unused
  <2>1. FdType'
    BY <1>1 DEF SfsInv, TypeInv, FdType
  <2>2. QED
    BY <1>2, <2>1 DEF SfsInv, TypeInv, MountedInv
<1>14. QED
  BY <1>1, <1>2, <1>4, <1>7, <1>9, <1>10, <1>11, <1>12, <1>13, QuietKeeps

LEMMA CloseStep ==
  ASSUME SfsInv, NEW h \in Handles, Close(h)
  PROVE  SfsInv'
<1> DEFINE i == Ino(fd[h].file)
           node == [Node(h) EXCEPT !.open = @ - 1, !.ref = @ - 1]
           last == node.open = 0
           synced == [node EXCEPT !.dirty = ~ last /\ @]
           left == IF node.ref = 0 THEN [synced EXCEPT !.reclaim = @ - 1] ELSE synced
           gone == node.ref = 0 /\ node.reclaim = 1
           d == IF last \/ gone THEN Fsynced(disk, i, node) ELSE disk
<1>1. /\ IsOpen(h) /\ disk' = d
      /\ sin' = IF gone THEN [j \in DOMAIN sin \ {i} |-> sin[j]] ELSE [sin EXCEPT ![i] = left]
      /\ fd' = [fd EXCEPT ![h] = Closed]
      /\ phase' = phase /\ next_ino' = next_ino /\ made' = made /\ fs' = fs
  BY DEF Close
<1>2. phase = "mounted" /\ i \in DOMAIN sin /\ i \in DOMAIN disk.inode /\ i # 1
  BY <1>1, OpenFile
<1>3. Node(h) = sin[i] /\ sin[i] \in Nodes /\ sin \in [DOMAIN sin -> Nodes]
  BY <1>2 DEF Node, SfsInv, TypeInv
<1>4. node \in Nodes /\ node.din = sin[i].din /\ node.dirty = sin[i].dirty /\ node.ref = sin[i].ref - 1
  <2> DEFINE s == sin[i]
             n == [s EXCEPT !.open = s.open - 1, !.ref = s.ref - 1]
  <2>1. node = n
    BY <1>3
  <2> HIDE DEF node
  <2>2. s \in Nodes
    BY <1>3
  <2> HIDE DEF s
  <2>3. s.open - 1 \in Int /\ s.ref - 1 \in Int
    BY <2>2 DEF Nodes
  <2>4. n \in Nodes /\ n.din = s.din /\ n.dirty = s.dirty /\ n.ref = s.ref - 1
    BY <2>2, <2>3 DEF Nodes
  <2> HIDE DEF n
  <2>5. QED
    BY <2>1, <2>4 DEF s
<1>5. /\ left \in Nodes /\ left.din = sin[i].din /\ left.ref = sin[i].ref - 1
      /\ ~ left.dirty => last \/ ~ sin[i].dirty
  <2> HIDE DEF node
  <2> DEFINE drt == ~ last /\ node.dirty
             s == [node EXCEPT !.dirty = drt]
             t == [s EXCEPT !.reclaim = s.reclaim - 1]
  <2>1. drt \in BOOLEAN /\ (~ drt => last \/ ~ node.dirty)
    OBVIOUS
  <2> HIDE DEF drt
  <2>2. s \in Nodes /\ s.din = node.din /\ s.ref = node.ref /\ s.dirty = drt
    BY <1>4, <2>1 DEF Nodes
  <2>3. synced = s
    BY DEF drt
  <2> HIDE DEF s, synced
  <2>4. t \in Nodes /\ t.din = s.din /\ t.ref = s.ref /\ t.dirty = s.dirty
    BY <2>2 DEF Nodes
  <2>5. left = IF node.ref = 0 THEN t ELSE s
    BY <2>3
  <2> HIDE DEF t, left
  <2>6. QED
    BY <1>4, <2>1, <2>2, <2>4, <2>5
<1> HIDE DEF node, left
<1>6. /\ IsDisk(d) /\ d.blk = disk.blk /\ d.freemap = disk.freemap /\ d.super = disk.super
      /\ DOMAIN d.inode = DOMAIN disk.inode
      /\ last \/ gone \/ ~ sin[i].dirty => Same(sin[i].din, d.inode[i])
      /\ \A j \in DOMAIN disk.inode : j # i => d.inode[j] = disk.inode[j]
  <2> DEFINE e == Fsynced(disk, i, node)
  <2>1. /\ IsDisk(e) /\ e.blk = disk.blk /\ e.freemap = disk.freemap /\ e.super = disk.super
        /\ DOMAIN e.inode = DOMAIN disk.inode /\ Same(node.din, e.inode[i])
        /\ \A j \in DOMAIN disk.inode : j # i => e.inode[j] = disk.inode[j]
    BY <1>2, <1>4, FsyncedDisk
  <2>2. IsDisk(disk) /\ (~ sin[i].dirty => Same(sin[i].din, disk.inode[i]))
    BY <1>2 DEF SfsInv, TypeInv, CleanInv
  <2> HIDE DEF e, last, gone
  <2>3. CASE last \/ gone
    <3>1. d = e
      BY <2>3 DEF e
    <3> HIDE DEF d
    <3>2. QED
      BY <1>4, <2>1, <3>1
  <2>4. CASE ~ (last \/ gone)
    <3>1. d = disk
      BY <2>4
    <3> HIDE DEF d
    <3>2. QED
      BY <2>2, <2>4, <3>1
  <2>5. QED
    BY <2>3, <2>4
<1>7. gone => sin[i].ref = 1
  BY <1>3, <1>4 DEF Nodes
<1> HIDE DEF d, i, last, gone
<1>9. /\ gone => DOMAIN sin' = DOMAIN sin \ {i}
      /\ ~ gone => DOMAIN sin' = DOMAIN sin /\ sin'[i] = left
      /\ sin' \in [DOMAIN sin' -> Nodes]
      /\ DOMAIN sin' \subseteq DOMAIN sin
      /\ \A j \in DOMAIN sin : j # i => j \in DOMAIN sin' /\ sin'[j] = sin[j]
  BY <1>1, <1>2, <1>3, <1>5
<1>10. ASSUME NEW j \in DOMAIN disk.inode
       PROVE  Din(j)'.direct = Din(j).direct /\ Din(j)'.indirect = Din(j).indirect
  <2>1. CASE j # i /\ j \in DOMAIN sin
    BY <1>9, <2>1 DEF Din
  <2>2. CASE j # i /\ j \notin DOMAIN sin
    BY <1>1, <1>6, <1>9, <2>2 DEF Din
  <2>3. CASE j = i /\ ~ gone
    BY <1>2, <1>5, <1>9, <2>3 DEF Din
  <2>4. CASE j = i /\ gone
    <3>1. Din(j)' = d.inode[j] /\ Din(j) = sin[j].din
      BY <1>1, <1>2, <1>9, <2>4 DEF Din
    <3>2. QED
      BY <1>6, <2>4, <3>1 DEF Same
  <2>5. QED
    BY <2>1, <2>2, <2>3, <2>4
<1>11. CleanInv'
  <2>1. ASSUME NEW j \in DOMAIN sin', ~ sin'[j].dirty PROVE Same(sin'[j].din, d.inode[j])
    <3>1. CASE j = i
      <4>1. ~ gone
        BY <1>9, <3>1
      <4>2. sin'[j] = left
        BY <1>9, <3>1, <4>1
      <4>3. QED
        BY <1>5, <1>6, <2>1, <3>1, <4>2
    <3>2. CASE j # i
      BY <1>6, <1>9, <2>1, <3>2 DEF SfsInv, CleanInv, TypeInv
    <3>3. QED
      BY <3>1, <3>2
  <2>2. QED
    BY <1>1, <2>1 DEF CleanInv
<1>12. /\ fd \in [Handles -> [file : Files \cup {0}, pos : Nat]]
       /\ \A g \in Handles : fd[g] = Closed \/ fd[g].file \in Files
  BY DEF SfsInv, TypeInv, FdType
<1>13. /\ fd' \in [Handles -> [file : Files \cup {0}, pos : Nat]] /\ fd'[h] = Closed
       /\ \A g \in Handles : g # h => fd'[g] = fd[g]
  BY <1>1, <1>12 DEF Closed
<1>14. FdType'
  BY <1>12, <1>13 DEF FdType
<1>15. fd[h] # Closed
  BY <1>1 DEF IsOpen
<1>16. ASSUME \A f : Ino(f)' = Ino(f) PROVE HandlesInv'
  <2>1. ASSUME NEW j, j = i PROVE Holders(j)' = Holders(j) \ {h} /\ h \in Holders(j)
    BY <1>13, <1>15, <1>16, <2>1 DEF Holders, i
  <2>2. ASSUME NEW j, j # i PROVE Holders(j)' = Holders(j)
    BY <1>13, <1>16, <2>2 DEF Holders, i
  <2>3. \A g \in Handles : fd[g] # Closed => Ino(fd[g].file) \in DOMAIN sin
    BY <1>2 DEF SfsInv, HandlesInv
  <2>4. \A j \in DOMAIN sin \ {1} : sin[j].ref = Cardinality(Holders(j))
    BY <1>2 DEF SfsInv, HandlesInv, BLKN_ROOT
  <2>5. ASSUME NEW j, j = i PROVE Cardinality(Holders(j)') = sin[j].ref - 1
    BY <1>2, <2>1, <2>4, <2>5, HoldersFinite
  <2>6. ASSUME NEW g \in Handles, fd'[g] # Closed PROVE Ino(fd[g].file)' \in DOMAIN sin'
    <3>1. g # h /\ fd'[g] = fd[g] /\ Ino(fd[g].file) \in DOMAIN sin
      BY <1>13, <2>3, <2>6
    <3>2. Ino(fd[g].file)' = Ino(fd[g].file)
      BY <1>16, <3>1
    <3>3. ASSUME Ino(fd[g].file) = i PROVE ~ gone
      <4>1. SUFFICES ASSUME gone PROVE FALSE
        OBVIOUS
      <4>2. g \in Holders(i) \ {h}
        BY <2>6, <3>1, <3>3 DEF Holders
      <4>3. Cardinality(Holders(i) \ {h}) = Cardinality(Holders(i)) - 1
        BY <2>1, HoldersFinite
      <4>4. Cardinality(Holders(i)) = 1
        BY <1>2, <1>7, <2>4, <4>1
      <4>5. Cardinality(Holders(i) \ {h}) = 0
        BY <4>3, <4>4
      <4>6. IsFiniteSet(Holders(i) \ {h})
        BY HoldersFinite, FS_Subset
      <4>7. Holders(i) \ {h} = {}
        BY <4>5, <4>6, FS_EmptySet
      <4>8. QED
        BY <4>2, <4>7
    <3>4. QED
      BY <1>9, <3>1, <3>2, <3>3
  <2>7. ASSUME NEW j \in DOMAIN sin' \ {1} PROVE sin'[j].ref = Cardinality(Holders(j)')
    <3>1. CASE j = i
      <4>1. sin'[j].ref = sin[j].ref - 1
        BY <1>5, <1>9, <3>1
      <4>2. QED
        BY <2>5, <3>1, <4>1
    <3>2. CASE j # i
      BY <1>9, <2>2, <2>4, <3>2
    <3>3. QED
      BY <3>1, <3>2
  <2>8. QED
    BY <2>6, <2>7 DEF HandlesInv, BLKN_ROOT
<1>17. /\ 1 \in DOMAIN sin' => sin'[1].din = disk.inode[1]
       /\ 1 \in DOMAIN disk.inode
  <2>1. 1 \in DOMAIN sin => sin[1].din = disk.inode[1]
    BY <1>2 DEF SfsInv, MountedInv, BLKN_ROOT
  <2>2. 1 \in DOMAIN disk.inode
    BY <1>2, DinodesAt DEF SfsInv, MountedInv, Sound
  <2>3. QED
    BY <1>2, <1>9, <2>1, <2>2
<1>18. /\ fs \in [freemap : SUBSET Blocks, unused : Int, super_dirty : BOOLEAN]
       /\ DOMAIN sin \subseteq DOMAIN disk.inode
       /\ ~ fs.super_dirty => fs.freemap = disk.freemap /\ fs.unused = disk.super.unused
  BY <1>2 DEF SfsInv, TypeInv, MountedInv
<1>19. disk'.inode[1] = disk.inode[1]
  BY <1>1, <1>2, <1>6, <1>17
<1>20. QED
  BY <1>1, <1>2, <1>6, <1>9, <1>10, <1>11, <1>14, <1>16, <1>17, <1>18, <1>19, QuietKeeps

(* An update of two fields of a disk, one after the other.                 *)
LEMMA TwoFields ==
  ASSUME NEW d, NEW n, NEW free
  PROVE  [d EXCEPT !.super.unused = n, !.freemap = free]
           = [[d EXCEPT !.super = [d.super EXCEPT !.unused = n]] EXCEPT !.freemap = free]
  OBVIOUS

LEMMA SyncedDisk ==
  ASSUME SfsInv, phase = "mounted"
  PROVE  LET d == Synced
         IN  /\ IsDisk(d) /\ d.blk = disk.blk /\ d.freemap = fs.freemap /\ d.super.unused = fs.unused
             /\ DOMAIN d.inode = DOMAIN disk.inode
             /\ \A i \in DOMAIN sin : Same(sin[i].din, d.inode[i])
             /\ \A j \in DOMAIN disk.inode : j \notin DOMAIN sin => d.inode[j] = disk.inode[j]
             /\ d.inode[1] = disk.inode[1]
<1> DEFINE d == Synced
           e == [disk EXCEPT !.inode = SyncedInodes]
           f == [super |-> disk.super, freemap |-> disk.freemap, inode |-> SyncedInodes, blk |-> disk.blk]
           o == [super |-> disk.super, freemap |-> disk.freemap, inode |-> disk.inode, blk |-> disk.blk]
           sup == [disk.super EXCEPT !.unused = fs.unused]
           g == [super |-> sup, freemap |-> fs.freemap, inode |-> SyncedInodes, blk |-> disk.blk]
<1>1. /\ disk = o /\ disk.inode \in [DOMAIN disk.inode -> Dins] /\ DOMAIN disk.inode \subseteq Blocks
      /\ disk.super \in [blocks : Int, unused : Int] /\ disk.freemap \subseteq Blocks /\ disk.blk \in Disk
      /\ sin \in [DOMAIN sin -> Nodes] /\ DOMAIN sin \subseteq DOMAIN disk.inode
      /\ fs.freemap \subseteq Blocks /\ fs.unused \in Int
  BY DEF SfsInv, TypeInv, IsDisk
<1>2. ASSUME NEW i \in DOMAIN disk.inode
      PROVE  /\ SyncedInodes[i] \in Dins
             /\ i \in DOMAIN sin => Same(sin[i].din, SyncedInodes[i])
             /\ i \notin DOMAIN sin => SyncedInodes[i] = disk.inode[i]
  <2>1. SyncedInodes[i] = IF i \in DOMAIN sin /\ sin[i].dirty THEN sin[i].din ELSE disk.inode[i]
    BY DEF SyncedInodes
  <2>2. i \in DOMAIN sin => sin[i].din \in Dins
    BY <1>1 DEF Nodes
  <2>3. i \in DOMAIN sin /\ ~ sin[i].dirty => Same(sin[i].din, disk.inode[i])
    BY DEF SfsInv, CleanInv
  <2>4. i \in DOMAIN sin => Same(sin[i].din, sin[i].din)
    BY <2>2, SameSelf
  <2>5. QED
    BY <1>1, <2>1, <2>2, <2>3, <2>4
<1>3. DOMAIN SyncedInodes = DOMAIN disk.inode /\ SyncedInodes \in [DOMAIN disk.inode -> Dins]
  <2>1. SyncedInodes = [i \in DOMAIN disk.inode |-> SyncedInodes[i]]
    BY DEF SyncedInodes
  <2> HIDE DEF d, e, f, o, sup, g
  <2>2. QED
    BY <1>2, <2>1
<1>4. SyncedInodes[1] = disk.inode[1] /\ 1 \in DOMAIN disk.inode
  <2>1. 1 \in DOMAIN disk.inode
    BY DinodesAt DEF SfsInv, MountedInv, Sound
  <2>2. 1 \in DOMAIN sin => sin[1].din = disk.inode[1]
    BY DEF SfsInv, MountedInv, BLKN_ROOT
  <2>3. QED
    BY <2>1, <2>2 DEF SyncedInodes
<1>5. e = f
  <2>1. [o EXCEPT !.inode = SyncedInodes] = f
    OBVIOUS
  <2> HIDE DEF o, f
  <2>2. QED
    BY <1>1, <2>1
<1>6. d = IF fs.super_dirty THEN g ELSE f
  <2>1. d = IF fs.super_dirty THEN [e EXCEPT !.super.unused = fs.unused, !.freemap = fs.freemap] ELSE e
    BY DEF Synced, SyncedSuper
  <2>2. [f EXCEPT !.super.unused = fs.unused, !.freemap = fs.freemap] = g
    <3> DEFINE h == [super |-> sup, freemap |-> disk.freemap, inode |-> SyncedInodes, blk |-> disk.blk]
    <3>1. f.super = disk.super
      OBVIOUS
    <3>2. [f.super EXCEPT !.unused = fs.unused] = sup
      BY <3>1
    <3> HIDE DEF sup
    <3>3. [f EXCEPT !.super = sup] = h
      OBVIOUS
    <3>4. [h EXCEPT !.freemap = fs.freemap] = g
      OBVIOUS
    <3> HIDE DEF f, g, h
    <3>5. [f EXCEPT !.super.unused = fs.unused, !.freemap = fs.freemap]
            = [[f EXCEPT !.super = [f.super EXCEPT !.unused = fs.unused]] EXCEPT !.freemap = fs.freemap]
      BY TwoFields, Zenon
    <3>6. QED
      BY <3>2, <3>3, <3>4, <3>5
  <2> HIDE DEF d, e, f, g
  <2>3. QED
    BY <1>5, <2>1, <2>2
<1>7. ~ fs.super_dirty => fs.freemap = disk.freemap /\ fs.unused = disk.super.unused
  BY DEF SfsInv, MountedInv
<1>8. sup \in [blocks : Int, unused : Int] /\ sup.unused = fs.unused
  BY <1>1
<1> HIDE DEF d, sup
<1>9. /\ f.super = disk.super /\ f.freemap = disk.freemap /\ f.inode = SyncedInodes /\ f.blk = disk.blk
      /\ g.super = sup /\ g.freemap = fs.freemap /\ g.inode = SyncedInodes /\ g.blk = disk.blk
  OBVIOUS
<1>10. IsDisk(f) /\ IsDisk(g)
  BY <1>1, <1>3, <1>8, <1>9 DEF IsDisk
<1> HIDE DEF f, g
<1>11. /\ IsDisk(d) /\ d.blk = disk.blk /\ d.freemap = fs.freemap /\ d.super.unused = fs.unused
       /\ d.inode = SyncedInodes
  BY <1>6, <1>7, <1>8, <1>9, <1>10
<1>12. QED
  BY <1>1, <1>2, <1>3, <1>4, <1>11 DEF d

\* sin after every inode was written back
Clean == [i \in DOMAIN sin |-> [sin[i] EXCEPT !.dirty = FALSE]]

LEMMA CleanNodes ==
  ASSUME TypeInv
  PROVE  /\ DOMAIN Clean = DOMAIN sin /\ Clean \in [DOMAIN sin -> Nodes]
         /\ \A i \in DOMAIN sin : Clean[i].din = sin[i].din /\ Clean[i].ref = sin[i].ref
<1>1. ASSUME NEW i \in DOMAIN sin
      PROVE  LET n == [sin[i] EXCEPT !.dirty = FALSE] IN n \in Nodes /\ n.din = sin[i].din /\ n.ref = sin[i].ref
  <2>1. sin[i] \in Nodes
    BY DEF TypeInv
  <2>2. QED
    BY <2>1 DEF Nodes
<1>2. QED
  BY <1>1 DEF Clean

LEMMA SyncStays ==
  ASSUME SfsInv, phase = "mounted", phase' = "mounted", disk' = Synced, sin' = Clean,
         fs' = [fs EXCEPT !.super_dirty = FALSE], made' = made, next_ino' = next_ino, fd' = fd
  PROVE  SfsInv'
<1> DEFINE d == Synced
<1>1. /\ IsDisk(d) /\ d.blk = disk.blk /\ d.freemap = fs.freemap /\ d.super.unused = fs.unused
      /\ DOMAIN d.inode = DOMAIN disk.inode
      /\ \A i \in DOMAIN sin : Same(sin[i].din, d.inode[i])
      /\ \A j \in DOMAIN disk.inode : j \notin DOMAIN sin => d.inode[j] = disk.inode[j]
      /\ d.inode[1] = disk.inode[1]
  BY SyncedDisk
<1> HIDE DEF d
<1>2. disk' = d
  BY DEF d
<1>3. /\ DOMAIN sin' = DOMAIN sin /\ sin' \in [DOMAIN sin -> Nodes]
      /\ \A i \in DOMAIN sin : sin'[i].din = sin[i].din /\ sin'[i].ref = sin[i].ref
  BY CleanNodes DEF SfsInv
<1>4. /\ fs \in [freemap : SUBSET Blocks, unused : Int, super_dirty : BOOLEAN]
      /\ DOMAIN sin \subseteq DOMAIN disk.inode
  BY DEF SfsInv, TypeInv
<1>5. /\ fs' \in [freemap : SUBSET Blocks, unused : Int, super_dirty : BOOLEAN]
      /\ fs'.freemap = fs.freemap /\ fs'.unused = fs.unused
  BY <1>4
<1>6. \A j \in DOMAIN disk.inode : Din(j)' = Din(j)
  BY <1>1, <1>2, <1>3 DEF Din
<1>7. CleanInv'
  BY <1>1, <1>2, <1>3 DEF CleanInv
<1>8. ASSUME \A f : Ino(f)' = Ino(f) PROVE HandlesInv'
  <2>1. \A j : Holders(j)' = Holders(j)
    BY <1>8 DEF Holders
  <2>2. \A g \in Handles : fd[g] # Closed => Ino(fd[g].file)' \in DOMAIN sin'
    BY <1>3, <1>8 DEF SfsInv, HandlesInv
  <2>3. \A j \in DOMAIN sin' \ {1} : sin'[j].ref = Cardinality(Holders(j)')
    <3>1. \A j \in DOMAIN sin \ {1} : sin[j].ref = Cardinality(Holders(j))
      BY DEF SfsInv, HandlesInv, BLKN_ROOT
    <3>2. QED
      BY <1>3, <2>1, <3>1
  <2>4. QED
    BY <2>2, <2>3 DEF HandlesInv, BLKN_ROOT
<1>9. 1 \in DOMAIN sin' => sin'[1].din = disk.inode[1]
  BY <1>3 DEF SfsInv, MountedInv, BLKN_ROOT
<1>10. FdType'
  BY DEF SfsInv, TypeInv, FdType
<1>11. QED
  BY <1>1, <1>2, <1>3, <1>4, <1>5, <1>6, <1>7, <1>8, <1>9, <1>10, QuietKeeps

LEMMA CleanupStep ==
  ASSUME SfsInv, Cleanup
  PROVE  SfsInv'
<1>1. /\ phase = "mounted" /\ phase' = "mounted" /\ disk' = Synced /\ sin' = Clean
      /\ fs' = [fs EXCEPT !.super_dirty = FALSE] /\ made' = made /\ next_ino' = next_ino /\ fd' = fd
  BY DEF Cleanup, Running, Clean
<1>2. QED
  BY <1>1, SyncStays

LEMMA UnmountStep ==
  ASSUME SfsInv, Unmount
  PROVE  SfsInv'
<1>1. /\ phase = "mounted" /\ phase' = IF sin = <<>> THEN "unmounted" ELSE "mounted"
      /\ disk' = Synced /\ sin' = Clean
      /\ fs' = [fs EXCEPT !.super_dirty = FALSE] /\ made' = made /\ next_ino' = next_ino /\ fd' = fd
  BY DEF Unmount, Running, Clean
<1>2. CASE sin # <<>>
  BY <1>1, <1>2, SyncStays
<1>3. CASE sin = <<>>
  <2> DEFINE d == Synced
  <2>1. /\ IsDisk(d) /\ d.blk = disk.blk /\ d.freemap = fs.freemap /\ d.super.unused = fs.unused
        /\ DOMAIN d.inode = DOMAIN disk.inode
        /\ \A j \in DOMAIN disk.inode : j \notin DOMAIN sin => d.inode[j] = disk.inode[j]
        /\ d.inode[1] = disk.inode[1]
    BY <1>1, SyncedDisk
  <2>2. disk' = d
    BY <1>1
  <2> HIDE DEF d
  <2>3. DOMAIN sin = {} /\ DOMAIN sin' = {} /\ sin' \in [DOMAIN sin' -> Nodes]
    <3>1. DOMAIN sin = {}
      BY <1>3
    <3>2. QED
      BY <1>1, <3>1, CleanNodes DEF SfsInv
  <2>4. /\ fs \in [freemap : SUBSET Blocks, unused : Int, super_dirty : BOOLEAN] /\ FdType
        /\ disk.inode \in [DOMAIN disk.inode -> Dins]
    BY DEF SfsInv, TypeInv, IsDisk
  <2>5. fs' \in [freemap : SUBSET Blocks, unused : Int, super_dirty : BOOLEAN]
    BY <1>1, <2>4
  <2>6. FdType'
    BY <1>1, <2>4 DEF FdType
  <2>7. phase' = "unmounted"
    BY <1>1, <1>3
  <2>8. TypeInv'
    BY <1>1, <2>1, <2>2, <2>3, <2>5, <2>6, <2>7 DEF SfsInv, TypeInv
  <2>9. UnmountedInv'
    <3>1. Sound(Dinodes, disk.blk, fs.freemap) /\ fs.unused = Cardinality(fs.freemap)
      BY <1>1 DEF SfsInv, MountedInv
    <3>2. \A j \in DOMAIN disk.inode : Din(j) = disk.inode[j]
      BY <2>3 DEF Din
    <3>3. Dinodes = [j \in DOMAIN disk.inode |-> disk.inode[j]]
      BY <3>2 DEF Dinodes
    <3>4. Dinodes = disk.inode
      BY <2>4, <3>3
    <3>5. d.inode \in [DOMAIN d.inode -> Dins]
      BY <2>1 DEF IsDisk
    <3>6. d.inode = disk.inode
      BY <2>1, <2>3, <2>4, <3>5
    <3>7. QED
      BY <2>1, <2>2, <3>1, <3>4, <3>6 DEF UnmountedInv
  <2>10. IdleInv'
    <3>1. \A h \in Handles : fd[h] = Closed
      BY <1>1, <2>3 DEF SfsInv, HandlesInv
    <3>2. QED
      BY <1>1, <2>3, <3>1 DEF IdleInv
  <2>11. DirInv'
    <3>1. DirOK(disk.inode, disk.blk, made) /\ made = Files
      BY <1>1 DEF SfsInv, DirInv
    <3>2. SameDir(disk.inode, disk.blk, d.inode, d.blk)
      BY <2>1 DEF SameDir, Slots, EntryAt, BLKN_ROOT
    <3>3. DirOK(d.inode, d.blk, made)
      BY <2>1, <3>1, <3>2, DirOKKept
    <3>4. QED
      BY <1>1, <2>2, <3>1, <3>3 DEF DirInv
  <2>12. CleanInv'
    BY <2>3 DEF CleanInv
  <2>13. QED
    BY <2>7, <2>8, <2>9, <2>10, <2>11, <2>12 DEF SfsInv, MakingInv, MountedInv, HandlesInv
<1>4. QED
  BY <1>2, <1>3

LEMMA SetBootfsStep ==
  ASSUME SfsInv, SetBootfs
  PROVE  SfsInv'
<1> DEFINE n == Loaded(1)
<1>1. /\ phase = "mounted" /\ phase' = "mounted" /\ sin = <<>>
      /\ sin' = [j \in DOMAIN sin \cup {1} |-> IF j = 1 THEN Loaded(j) ELSE sin[j]]
      /\ made' = made /\ next_ino' = next_ino /\ fd' = fd /\ disk' = disk /\ fs' = fs
  BY DEF SetBootfs, Running, BLKN_ROOT
<1>2. DOMAIN sin = {}
  BY <1>1
<1>3. 1 \in DOMAIN disk.inode /\ disk.inode[1] \in Dins
  <2>1. 1 \in DOMAIN disk.inode
    BY <1>1, DinodesAt DEF SfsInv, MountedInv, Sound
  <2>2. QED
    BY <2>1, DinType DEF SfsInv
<1>4. n = [din |-> disk.inode[1], dirty |-> FALSE, ref |-> 1, open |-> 0, reclaim |-> 1]
  BY <1>2 DEF Loaded
<1> HIDE DEF n
<1>5. n \in Nodes /\ n.din = disk.inode[1]
  BY <1>3, <1>4 DEF Nodes
<1>6. DOMAIN sin' = {1} /\ sin'[1] = n /\ sin' \in [DOMAIN sin' -> Nodes]
  <2>1. sin' = [j \in {1} |-> n]
    BY <1>1, <1>2 DEF n
  <2>2. QED
    BY <1>5, <2>1
<1>7. \A j \in DOMAIN disk.inode : Din(j)' = Din(j)
  BY <1>1, <1>2, <1>5, <1>6 DEF Din
<1>8. CleanInv'
  BY <1>1, <1>3, <1>5, <1>6, SameSelf DEF CleanInv
<1>9. ASSUME \A f : Ino(f)' = Ino(f) PROVE HandlesInv'
  <2>1. \A g \in Handles : fd[g] = Closed
    BY <1>1, <1>2 DEF SfsInv, HandlesInv
  <2>2. QED
    BY <1>1, <1>6, <2>1 DEF HandlesInv, BLKN_ROOT
<1>10. FdType'
  BY <1>1 DEF SfsInv, TypeInv, FdType
<1>11. /\ fs \in [freemap : SUBSET Blocks, unused : Int, super_dirty : BOOLEAN] /\ IsDisk(disk)
       /\ ~ fs.super_dirty => fs.freemap = disk.freemap /\ fs.unused = disk.super.unused
  BY <1>1 DEF SfsInv, TypeInv, MountedInv
<1>12. QED
  BY <1>1, <1>3, <1>5, <1>6, <1>7, <1>8, <1>9, <1>10, <1>11, QuietKeeps

LEMMA SameStep ==
  ASSUME SfsInv,
         UNCHANGED <<phase, next_ino, made, disk, fs, sin, fd>>
  PROVE  SfsInv'
<1>1. TypeInv'
  BY DEF SfsInv, TypeInv, FdType
<1>2. MakingInv' /\ UnmountedInv' /\ IdleInv' /\ DirInv' /\ CleanInv'
  BY DEF SfsInv, MakingInv, UnmountedInv, IdleInv, DirInv, CleanInv
<1>3. Dinodes' = Dinodes
  BY DEF Dinodes, Din
<1>4. MountedInv'
  BY <1>3 DEF SfsInv, MountedInv
<1>5. \A f : Ino(f)' = Ino(f)
  BY DEF Ino, Dirent, DirSlots
<1>6. \A j : Holders(j)' = Holders(j)
  BY <1>5 DEF Holders
<1>7. HandlesInv'
  <2>1. \A g \in Handles : Ino(fd[g].file)' = Ino(fd[g].file)
    BY <1>5
  <2>2. QED
    BY <1>6, <2>1 DEF SfsInv, HandlesInv
<1>8. QED
  BY <1>1, <1>2, <1>4, <1>7 DEF SfsInv

LEMMA MountStep ==
  ASSUME SfsInv, Mount
  PROVE  SfsInv'
<1>1. /\ phase = "unmounted" /\ next_ino' = next_ino /\ made' = made /\ disk' = disk /\ sin' = sin /\ fd' = fd
      /\ fs' = [freemap |-> disk.freemap, unused |-> disk.super.unused, super_dirty |-> FALSE]
      /\ phase' = IF Cardinality(disk.freemap) = disk.super.unused THEN "mounted" ELSE "panic"
  BY DEF Mount
<1>2. /\ Sound(disk.inode, disk.blk, disk.freemap) /\ disk.super.unused = Cardinality(disk.freemap)
      /\ DOMAIN sin = {} /\ \A h \in Handles : fd[h] = Closed
  BY <1>1 DEF SfsInv, UnmountedInv, IdleInv
<1>3. /\ disk.freemap \subseteq Blocks /\ disk.super \in [blocks : Int, unused : Int]
      /\ disk.inode \in [DOMAIN disk.inode -> Dins]
  BY DEF SfsInv, TypeInv, IsDisk
<1>4. phase' = "mounted"
  BY <1>1, <1>2
<1>5. fs' \in [freemap : SUBSET Blocks, unused : Int, super_dirty : BOOLEAN]
  BY <1>1, <1>3
<1>6. FdType'
  BY <1>1 DEF SfsInv, TypeInv, FdType
<1>7. TypeInv'
  BY <1>1, <1>4, <1>5, <1>6 DEF SfsInv, TypeInv
<1>8. MountedInv'
  <2>1. \A j \in DOMAIN disk.inode : Din(j)' = disk.inode[j]
    BY <1>1, <1>2 DEF Din
  <2>2. Dinodes' = [j \in DOMAIN disk.inode |-> disk.inode[j]]
    BY <1>1, <2>1 DEF Dinodes
  <2>3. Dinodes' = disk.inode
    BY <1>3, <2>2
  <2>4. QED
    BY <1>1, <1>2, <2>3 DEF MountedInv, BLKN_ROOT
<1>9. DirInv'
  BY <1>1, <1>4 DEF SfsInv, DirInv
<1>10. HandlesInv' /\ CleanInv'
  BY <1>1, <1>2 DEF HandlesInv, CleanInv
<1>11. QED
  BY <1>4, <1>7, <1>8, <1>9, <1>10 DEF SfsInv, MakingInv, UnmountedInv, IdleInv

-----------------------------------------------------------------------------
(* The image mksfs writes.                                                 *)

DiskOf(s, m, i, b) == [super |-> s, freemap |-> m, inode |-> i, blk |-> b]
Redone(d, i, x, w) == [d EXCEPT !.inode[i] = x, !.blk = w]
WithInode(inode, i, x) == [inode EXCEPT ![i] = x]

LEMMA RedoneParts ==
  ASSUME NEW d, NEW i, NEW x, NEW w
  PROVE  [d EXCEPT !.inode[i] = x, !.blk = w]
           = [[d EXCEPT !.inode = [d.inode EXCEPT ![i] = x]] EXCEPT !.blk = w]
  OBVIOUS

LEMMA RedoneDisk ==
  ASSUME NEW d, d = DiskOf(d.super, d.freemap, d.inode, d.blk), NEW i, NEW x, NEW w
  PROVE  Redone(d, i, x, w) = DiskOf(d.super, d.freemap, WithInode(d.inode, i, x), w)
<1> DEFINE s == d.super
           m == d.freemap
           n == d.inode
           b == d.blk
           y == WithInode(n, i, x)
           f == [super |-> s, freemap |-> m, inode |-> n, blk |-> b]
           g == [super |-> s, freemap |-> m, inode |-> y, blk |-> b]
<1>1. d = f
  BY DEF DiskOf
<1>2. [d.inode EXCEPT ![i] = x] = y
  BY DEF WithInode
<1> HIDE DEF s, m, n, b, y
<1>3. [f EXCEPT !.inode = y] = g
  OBVIOUS
<1>4. [g EXCEPT !.blk = w] = [super |-> s, freemap |-> m, inode |-> y, blk |-> w]
  OBVIOUS
<1> HIDE DEF f, g
<1>5. [d EXCEPT !.inode[i] = x, !.blk = w]
        = [[d EXCEPT !.inode = [d.inode EXCEPT ![i] = x]] EXCEPT !.blk = w]
  BY RedoneParts, Zenon
<1>6. [d EXCEPT !.inode[i] = x, !.blk = w] = [super |-> s, freemap |-> m, inode |-> y, blk |-> w]
  BY <1>1, <1>2, <1>3, <1>4, <1>5
<1>7. QED
  BY <1>6 DEF Redone, DiskOf, s, m, n, y

\* what appending block b does to an inode and to the blocks; ent is the index block then
EntOf(din, next) == IF din.blocks < NDIRECT THEN din.indirect
                    ELSE IF din.indirect = 0 THEN next ELSE din.indirect
DinWith(din, ent, size, b) ==
  [din EXCEPT !.size = @ + size, !.blocks = @ + 1,
              !.direct = IF din.blocks < NDIRECT THEN [@ EXCEPT ![din.blocks] = b] ELSE @,
              !.indirect = ent]
BlkWith(din, ent, blk, b) ==
  IF din.blocks < NDIRECT THEN blk ELSE [blk EXCEPT ![ent][din.blocks - NDIRECT] = b]

LEMMA AppendDisk ==
  ASSUME NEW img, img.disk = DiskOf(img.disk.super, img.disk.freemap, img.disk.inode, img.disk.blk),
         NEW i, NEW size, NEW b
  PROVE  LET din == img.disk.inode[i]
             ent == EntOf(din, img.next)
             r == append_block(img, i, size, b)
         IN  /\ r.next = IF ent = din.indirect THEN img.next ELSE img.next + 1
             /\ r.disk = DiskOf(img.disk.super, img.disk.freemap,
                                WithInode(img.disk.inode, i, DinWith(din, ent, size, b)),
                                BlkWith(din, ent, img.disk.blk, b))
<1> DEFINE din == img.disk.inode[i]
           ent == EntOf(din, img.next)
           new == DinWith(din, ent, size, b)
           blk2 == BlkWith(din, ent, img.disk.blk, b)
           r == append_block(img, i, size, b)
<1>1. r = [next |-> IF ent = din.indirect THEN img.next ELSE img.next + 1,
           disk |-> Redone(img.disk, i, new, blk2)]
  BY Zenon DEF append_block, EntOf, DinWith, BlkWith, Redone
<1> HIDE DEF new, blk2, ent
<1>2. Redone(img.disk, i, new, blk2)
        = DiskOf(img.disk.super, img.disk.freemap, WithInode(img.disk.inode, i, new), blk2)
  BY RedoneDisk
<1>3. QED
  BY <1>1, <1>2 DEF new, blk2, ent

DinGrown(din, ent, b, d) ==
  /\ d \in Dins /\ d.blocks = din.blocks + 1 /\ d.indirect = ent
  /\ d.direct = IF din.blocks < NDIRECT THEN [din.direct EXCEPT ![din.blocks] = b] ELSE din.direct

LEMMA DinWithFields ==
  ASSUME NEW din \in Dins, din.blocks < NDIRECT + BLKSIZE, NEW ent \in Nat, NEW size \in Nat, NEW b \in Nat
  PROVE  DinGrown(din, ent, b, DinWith(din, ent, size, b))
<1> DEFINE dir == IF din.blocks < NDIRECT THEN [din.direct EXCEPT ![din.blocks] = b] ELSE din.direct
           s == din.size + size
           n == din.blocks + 1
           d == [din EXCEPT !.size = s, !.blocks = n, !.direct = dir, !.indirect = ent]
<1>1. DinWith(din, ent, size, b) = d
  BY DEF DinWith
<1>2. /\ din.size \in Nat /\ din.blocks \in 0..(NDIRECT + BLKSIZE)
      /\ din.direct \in [0..(NDIRECT - 1) -> Nat]
  BY DEF Dins
<1>3. s \in Nat /\ n \in 0..(NDIRECT + BLKSIZE)
  BY <1>2, Sizes
<1>4. dir \in [0..(NDIRECT - 1) -> Nat]
  BY <1>2
<1> HIDE DEF s, n, dir
<1>5. d \in Dins
  BY <1>3, <1>4 DEF Dins
<1>6. d.blocks = n /\ d.indirect = ent /\ d.direct = dir
  BY DEF Dins
<1>7. QED
  BY <1>1, <1>5, <1>6 DEF n, dir, DinGrown

BlkPut(din, ent, blk, b, w) ==
  /\ w \in Disk
  /\ \A x \in Blocks : x # ent => w[x] = blk[x]
  /\ din.blocks < NDIRECT => w = blk
  /\ din.blocks >= NDIRECT =>
       /\ din.blocks - NDIRECT \in Offsets /\ w[ent][din.blocks - NDIRECT] = b
       /\ \A k \in Offsets : k # din.blocks - NDIRECT => w[ent][k] = blk[ent][k]

LEMMA BlkWithWords ==
  ASSUME NEW din \in Dins, din.blocks < NDIRECT + BLKSIZE, NEW ent, NEW blk \in Disk, NEW b \in Nat,
         din.blocks >= NDIRECT => ent \in Blocks
  PROVE  BlkPut(din, ent, blk, b, BlkWith(din, ent, blk, b))
<1> DEFINE w == BlkWith(din, ent, blk, b)
<1>1. din.blocks \in 0..(NDIRECT + BLKSIZE)
  BY DEF Dins
<1>2. CASE din.blocks < NDIRECT
  BY <1>1, <1>2, Sizes DEF BlkWith, BlkPut
<1>3. CASE ~ (din.blocks < NDIRECT)
  <2> DEFINE o == din.blocks - NDIRECT
             l == [blk[ent] EXCEPT ![o] = b]
  <2>1. o \in Offsets /\ ent \in Blocks /\ din.blocks >= NDIRECT
    BY <1>1, <1>3, Sizes DEF Offsets
  <2>2. blk[ent] \in [Offsets -> Int]
    BY <2>1 DEF Disk
  <2>3. w = [blk EXCEPT ![ent] = l]
    BY <1>3 DEF BlkWith
  <2> HIDE DEF w, o
  <2>4. l \in [Offsets -> Int] /\ l[o] = b /\ \A k \in Offsets : k # o => l[k] = blk[ent][k]
    BY <2>1, <2>2
  <2> HIDE DEF l
  <2>5. w \in Disk /\ w[ent] = l /\ \A x \in Blocks : x # ent => w[x] = blk[x]
    BY <2>1, <2>3, <2>4 DEF Disk
  <2>6. QED
    BY <1>3, <2>1, <2>4, <2>5 DEF w, o, BlkPut
<1>4. QED
  BY <1>2, <1>3

Rest(next) == next..(NBLKS - 1)

\* what naming block next as the block after the last of inode din leaves: the inode is d,
\* the blocks are blk2 and the image goes on from next2
AppendedTo(din, blk, next, w, R, d, blk2, next2) ==
  /\ Own(Rest(next2), Refs(d, blk2), {}, R)
  /\ Refs(d, blk2)[PlaceOf(din.blocks)] = next
  /\ \A p \in Places : p # PlaceOf(din.blocks) /\ p # NDIRECT => Refs(d, blk2)[p] = Refs(din, blk)[p]
  /\ blk2 \in Disk /\ blk2[next] = w
  /\ \A x \in Blocks : x # next /\ x \notin {din.indirect, next2 - 1} \ {0} => blk2[x] = blk[x]
  /\ \A x \in Blocks \ R : blk2[x] = blk[x]
  /\ \A x \in Rest(next2) : blk2[x] = blk[x]
  /\ next2 \in {next + 1, next + 2} /\ (din.blocks < NDIRECT => next2 = next + 1)

LEMMA OwnNameLast ==
  ASSUME NEW R, NEW free, NEW r, NEW s, NEW b, Own(free, r, {b}, R), 0 \notin R,
         NEW t \in Places, r[t] = 0, s[t] = b, \A p \in Places : p # t => s[p] = r[p]
  PROVE  Own(free, s, {}, R)
<1> DEFINE X == {b}
           Y == X \ {b}
<1>1. b \in X /\ Y = {}
  OBVIOUS
<1>2. Own(free, r, X, R)
  OBVIOUS
<1> HIDE DEF X
<1>3. Own(free, s, Y, R)
  BY <1>1, <1>2, OwnName
<1> HIDE DEF Y
<1>4. QED
  BY <1>1, <1>3

LEMMA AppendOwn ==
  ASSUME NEW R \in SUBSET Blocks, 0 \notin R, NEW din \in Dins, din.blocks < NDIRECT + BLKSIZE,
         NEW blk \in Disk, NEW next \in Nat, next < NBLKS,
         Own(Rest(next), Refs(din, blk), {}, R), Refs(din, blk)[PlaceOf(din.blocks)] = 0,
         \A x \in Rest(next) : blk[x] = ZeroBlock,
         NEW w \in [Offsets -> Int], NEW blk1, blk1 = [blk EXCEPT ![next] = w],
         NEW ent, ent = EntOf(din, next + 1),
         NEW next2, next2 = (IF ent = din.indirect THEN next + 1 ELSE next + 2), next2 <= NBLKS,
         NEW d \in Dins, d.indirect = ent,
         d.direct = IF din.blocks < NDIRECT THEN [din.direct EXCEPT ![din.blocks] = next] ELSE din.direct,
         NEW blk2, blk2 = BlkWith(din, ent, blk1, next)
  PROVE  AppendedTo(din, blk, next, w, R, d, blk2, next2)
<1> DEFINE n == din.blocks
           r == Refs(din, blk)
           s == Refs(d, blk2)
           t == PlaceOf(n)
<1>1. /\ n \in 0..(NDIRECT + BLKSIZE - 1) /\ din.direct \in [0..(NDIRECT - 1) -> Nat]
      /\ din.indirect \in Nat /\ t \in Places /\ t # NDIRECT
  <2>1. n \in 0..(NDIRECT + BLKSIZE - 1)
    BY Sizes DEF Dins
  <2>2. QED
    BY <2>1, BmapRef DEF Dins
<1>2. next \in Rest(next) /\ next \in R /\ next # 0
  BY Sizes DEF Rest, Own
<1>3. NDIRECT \in Places /\ r[NDIRECT] = din.indirect /\ s[NDIRECT] = ent
  BY RefIndex
<1>4. din.indirect # 0 => din.indirect \in R /\ din.indirect \notin Rest(next)
  BY <1>3 DEF Own
<1>5. /\ \A k \in 0..(NDIRECT - 1) : k \in Places /\ r[k] = din.direct[k] /\ s[k] = d.direct[k]
      /\ \A k \in Offsets : /\ k + NDIRECT + 1 \in Places
                            /\ r[k + NDIRECT + 1] = IF din.indirect = 0 THEN 0 ELSE blk[din.indirect][k]
                            /\ s[k + NDIRECT + 1] = IF ent = 0 THEN 0 ELSE blk2[ent][k]
  <2>1. ASSUME NEW k \in 0..(NDIRECT - 1)
        PROVE  k \in Places /\ r[k] = din.direct[k] /\ s[k] = d.direct[k]
    <3>1. k \in Places /\ r[k] = din.direct[k]
      BY RefDirect
    <3>2. s[k] = d.direct[k]
      BY RefDirect
    <3>3. QED
      BY <3>1, <3>2
  <2>2. ASSUME NEW k \in Offsets
        PROVE  /\ k + NDIRECT + 1 \in Places
               /\ r[k + NDIRECT + 1] = IF din.indirect = 0 THEN 0 ELSE blk[din.indirect][k]
               /\ s[k + NDIRECT + 1] = IF ent = 0 THEN 0 ELSE blk2[ent][k]
    <3>1. k + NDIRECT + 1 \in Places /\ r[k + NDIRECT + 1] = IF din.indirect = 0 THEN 0 ELSE blk[din.indirect][k]
      BY RefEntry
    <3>2. s[k + NDIRECT + 1] = IF d.indirect = 0 THEN 0 ELSE blk2[d.indirect][k]
      BY RefEntry
    <3>3. QED
      BY <3>1, <3>2
  <2>3. QED
    BY <2>1, <2>2
<1>6. blk1 \in Disk /\ blk1[next] = w /\ \A x \in Blocks : x # next => blk1[x] = blk[x]
  BY <1>2 DEF Disk
<1>7. Own(Rest(next) \ {next}, r, {next}, R)
  <2>1. Own(Rest(next) \ {next}, r, {} \cup {next}, R)
    BY <1>2, OwnTake
  <2>2. QED
    BY <2>1, Zenon
<1>8. Rest(next) \ {next} = Rest(next + 1)
  BY Sizes DEF Rest
<1>9. Own(Rest(next + 1), r, {next}, R)
  BY <1>7, <1>8
<1>9a. /\ \A x \in Rest(next + 1) : x \in Blocks /\ x # next /\ x \in Rest(next)
       /\ \A x \in Rest(next + 2) : x \in Blocks /\ x # next /\ x # next + 1 /\ x \in Rest(next)
  BY Sizes DEF Rest, Blocks
<1> HIDE DEF n, r, s, t
<1>10. CASE n < NDIRECT
  <2>1. ent = din.indirect /\ next2 = next + 1 /\ blk2 = blk1
    BY <1>10 DEF EntOf, BlkWith, n
  <2>2. t = n /\ s[n] = next
    <3>1. n \in 0..(NDIRECT - 1) /\ t = n
      BY <1>1, <1>10, Sizes DEF t, PlaceOf
    <3>2. d.direct = [din.direct EXCEPT ![n] = next]
      BY <1>10 DEF n
    <3>3. s[n] = d.direct[n]
      BY <1>5, <3>1
    <3>4. QED
      BY <1>1, <3>1, <3>2, <3>3
  <2>3. ASSUME NEW p \in Places, p # n PROVE s[p] = r[p]
    <3>1. CASE p \in 0..(NDIRECT - 1)
      BY <1>1, <1>5, <1>10, <2>3, <3>1 DEF n
    <3>2. CASE p = NDIRECT
      BY <1>3, <2>1, <3>2
    <3>3. ASSUME NEW k \in Offsets, p = k + NDIRECT + 1 PROVE s[p] = r[p]
      <4>1. ent # 0 => blk2[ent] = blk[ent]
        BY <1>2, <1>4, <1>6, <2>1
      <4>2. /\ r[p] = IF din.indirect = 0 THEN 0 ELSE blk[din.indirect][k]
            /\ s[p] = IF ent = 0 THEN 0 ELSE blk2[ent][k]
        BY <1>5, <3>3
      <4>3. QED
        BY <2>1, <4>1, <4>2
    <3>4. QED
      BY <3>1, <3>2, <3>3, PlaceKinds
  <2>4. r[n] = 0
    BY <2>2 DEF t, r, n
  <2>5. Own(Rest(next + 1), s, {}, R)
    BY <1>1, <1>9, <2>2, <2>3, <2>4, OwnNameLast
  <2>6. \A x \in Rest(next2) : blk2[x] = blk[x]
    BY <1>6, <1>9a, <2>1
  <2>7. QED
    BY <1>2, <1>6, <2>1, <2>2, <2>3, <2>5, <2>6 DEF AppendedTo, s, r, t, n
<1>11. CASE ~ (n < NDIRECT)
  <2> DEFINE o == n - NDIRECT
  <2>1. /\ o \in Offsets /\ t = n + 1 /\ t = o + NDIRECT + 1
        /\ blk2 = [blk1 EXCEPT ![ent][o] = next]
        /\ ent = IF din.indirect = 0 THEN next + 1 ELSE din.indirect
        /\ d.direct = din.direct
    <3>1. o \in Offsets /\ n + 1 = o + NDIRECT + 1
      BY <1>1, <1>11, Sizes DEF Offsets
    <3>2. t = n + 1
      BY <1>11 DEF t, n, PlaceOf
    <3>3. blk2 = [blk1 EXCEPT ![ent][o] = next]
      BY <1>11 DEF n, BlkWith
    <3>4. ent = IF din.indirect = 0 THEN next + 1 ELSE din.indirect
      BY <1>11 DEF n, EntOf
    <3>5. d.direct = din.direct
      BY <1>11 DEF n
    <3> HIDE DEF o
    <3>6. QED
      BY <3>1, <3>2, <3>3, <3>4, <3>5
  <2>2. ent \in R /\ ent # 0 /\ ent # next /\ ent \in Blocks
    <3>1. CASE din.indirect # 0
      BY <1>2, <1>4, <2>1, <3>1
    <3>2. CASE din.indirect = 0
      <4>1. ent = next + 1 /\ next2 = next + 2
        BY <2>1, <3>2
      <4>2. ent \in Rest(next)
        BY <4>1, Sizes DEF Rest
      <4>3. QED
        BY <4>1, <4>2 DEF Own
    <3>3. QED
      BY <3>1, <3>2
  <2>3. /\ blk2 \in Disk /\ blk2[ent][o] = next
        /\ \A x \in Blocks : x # ent => blk2[x] = blk1[x]
        /\ \A k \in Offsets : k # o => blk2[ent][k] = blk1[ent][k]
    <3>1. din.blocks >= NDIRECT
      BY <1>1, <1>11, Sizes DEF n
    <3>2. BlkPut(din, ent, blk1, next, BlkWith(din, ent, blk1, next))
      BY <1>6, <2>2, BlkWithWords
    <3>3. QED
      BY <3>1, <3>2 DEF n, BlkPut
  <2> HIDE DEF o
  <2>4. s[t] = next
    <3>1. s[o + NDIRECT + 1] = IF ent = 0 THEN 0 ELSE blk2[ent][o]
      BY <1>5, <2>1
    <3>2. QED
      BY <2>1, <2>2, <2>3, <3>1
  <2>5. ASSUME NEW p \in Places, p # t, p # NDIRECT PROVE s[p] = r[p]
    <3>1. CASE p \in 0..(NDIRECT - 1)
      BY <1>5, <2>1, <3>1
    <3>2. ASSUME NEW k \in Offsets, p = k + NDIRECT + 1 PROVE s[p] = r[p]
      <4>1. k # o
        BY <2>1, <2>5, <3>2
      <4>2. s[p] = blk[ent][k]
        <5>1. blk2[ent][k] = blk1[ent][k] /\ blk1[ent] = blk[ent]
          BY <1>6, <2>2, <2>3, <4>1
        <5>2. QED
          BY <1>5, <2>2, <3>2, <5>1
      <4>3. r[p] = IF din.indirect = 0 THEN 0 ELSE blk[din.indirect][k]
        BY <1>5, <3>2
      <4>4. CASE din.indirect # 0
        BY <2>1, <4>2, <4>3, <4>4
      <4>5. CASE din.indirect = 0
        <5>1. ent \in Rest(next)
          BY <1>2, <2>1, <2>2, <4>5, Sizes DEF Rest, Blocks
        <5>2. blk[ent][k] = 0
          BY <5>1 DEF ZeroBlock
        <5>3. QED
          BY <4>2, <4>3, <4>5, <5>2
      <4>6. QED
        BY <4>4, <4>5
    <3>3. QED
      BY <2>5, <3>1, <3>2, PlaceKinds
  <2>6. r[t] = 0
    BY DEF r, t, n
  <2>7. blk2[next] = w
    BY <1>2, <1>6, <2>2, <2>3
  <2>8. ASSUME NEW x \in Blocks, x # next, x # ent PROVE blk2[x] = blk[x]
    BY <1>6, <2>3, <2>8
  <2>9. CASE din.indirect # 0
    <3>1. ent = din.indirect /\ next2 = next + 1
      BY <2>1, <2>9
    <3>2. \A p \in Places : p # t => s[p] = r[p]
      BY <1>3, <2>5, <3>1
    <3>3. Own(Rest(next2), s, {}, R)
      BY <1>1, <1>9, <2>4, <2>6, <3>1, <3>2, OwnNameLast
    <3>4. \A x \in Rest(next2) : blk2[x] = blk[x]
      BY <1>4, <1>9a, <2>8, <2>9, <3>1
    <3>5. \A x \in Blocks : x # next /\ x \notin {din.indirect, next2 - 1} \ {0} => blk2[x] = blk[x]
      BY <2>2, <2>8, <3>1
    <3>6. QED
      BY <1>2, <1>11, <2>2, <2>3, <2>4, <2>5, <2>7, <2>8, <3>1, <3>3, <3>4, <3>5 DEF AppendedTo, s, r, t, n
  <2>10. CASE din.indirect = 0
    <3>1. ent = next + 1 /\ next2 = next + 2
      BY <2>1, <2>10
    <3>2. ent \in Rest(next + 1) /\ Rest(next + 1) \ {ent} = Rest(next2)
      BY <3>1, Sizes DEF Rest
    <3>3. Own(Rest(next2), r, {next, ent}, R)
      <4>1. Own(Rest(next + 1) \ {ent}, r, {next} \cup {ent}, R)
        BY <1>9, <3>2, OwnTake
      <4>2. {next} \cup {ent} = {next, ent}
        OBVIOUS
      <4>3. QED
        BY <3>2, <4>1, <4>2
    <3> DEFINE q == [p \in Places |-> IF p = NDIRECT THEN ent ELSE r[p]]
    <3>4. q[NDIRECT] = ent /\ \A p \in Places : p # NDIRECT => q[p] = r[p]
      BY <1>3
    <3> HIDE DEF q
    <3>5. Own(Rest(next2), q, {next}, R)
      <4>1. Own(Rest(next2), q, {next, ent} \ {ent}, R)
        BY <1>3, <2>10, <3>3, <3>4, OwnName
      <4>2. {next, ent} \ {ent} = {next}
        BY <2>2
      <4>3. QED
        BY <4>1, <4>2
    <3>6. \A p \in Places : p # t => s[p] = q[p]
      BY <1>3, <2>5, <3>4
    <3>7. q[t] = 0
      BY <1>1, <2>6, <3>4 DEF t
    <3>8. Own(Rest(next2), s, {}, R)
      BY <1>1, <2>4, <3>5, <3>6, <3>7, OwnNameLast
    <3>9. \A x \in Rest(next2) : blk2[x] = blk[x]
      BY <1>9a, <2>8, <3>1
    <3>10. \A x \in Blocks : x # next /\ x \notin {din.indirect, next2 - 1} \ {0} => blk2[x] = blk[x]
      <4>1. ent = next2 - 1 /\ ent # 0
        BY <2>2, <3>1
      <4>2. QED
        BY <2>8, <4>1
    <3>11. QED
      BY <1>2, <1>11, <2>2, <2>3, <2>4, <2>5, <2>7, <2>8, <3>1, <3>8, <3>9, <3>10 DEF AppendedTo, s, r, t, n
  <2>11. QED
    BY <2>9, <2>10
<1>12. QED
  BY <1>10, <1>11

\* block img.next is filled with words w and handed out; inode i may have got another link
Prepared(img, i, w, pre) ==
  /\ pre.next = img.next + 1
  /\ pre.disk = DiskOf(img.disk.super, img.disk.freemap, pre.disk.inode, pre.disk.blk)
  /\ pre.disk.blk = [img.disk.blk EXCEPT ![img.next] = w]
  /\ DOMAIN pre.disk.inode = DOMAIN img.disk.inode
  /\ pre.disk.inode \in [DOMAIN img.disk.inode -> Dins]
  /\ pre.disk.inode[i].direct = img.disk.inode[i].direct
  /\ pre.disk.inode[i].indirect = img.disk.inode[i].indirect
  /\ pre.disk.inode[i].blocks = img.disk.inode[i].blocks
  /\ \A j \in DOMAIN img.disk.inode : j # i => pre.disk.inode[j] = img.disk.inode[j]

SlotOf(d, i, k) == d.blk[bmap(d.inode[i], d.blk, k)]

\* what is left once that block is the last of inode i
Appended(img, i, w, r) ==
  /\ GoodImage(r) /\ IsDisk(r.disk)
  /\ DOMAIN r.disk.inode = DOMAIN img.disk.inode
  /\ r.disk.inode[i].blocks = img.disk.inode[i].blocks + 1
  /\ \A j \in DOMAIN img.disk.inode : j # i => r.disk.inode[j] = img.disk.inode[j]
  /\ SlotOf(r.disk, i, img.disk.inode[i].blocks) = w
  /\ \A k \in 0..(img.disk.inode[i].blocks - 1) : SlotOf(r.disk, i, k) = SlotOf(img.disk, i, k)
  /\ i # 1 => SameDir(img.disk.inode, img.disk.blk, r.disk.inode, r.disk.blk)
  /\ r.next \in {img.next + 1, img.next + 2}
  /\ img.disk.inode[i].blocks < NDIRECT => r.next = img.next + 1

LEMMA PlaceInj ==
  ASSUME NEW k \in Nat, NEW l \in Nat, PlaceOf(k) = PlaceOf(l)
  PROVE  k = l
  BY Sizes DEF PlaceOf

\* the parts of an image after the append
LEMMA AppendParts ==
  ASSUME NEW img, GoodImage(img), IsDisk(img.disk), NEW i \in DOMAIN img.disk.inode,
         img.disk.inode[i].blocks < NDIRECT + BLKSIZE, NEW w \in [Offsets -> Int],
         NEW pre, Prepared(img, i, w, pre), NEW size \in Nat,
         NEW r, r = append_block(pre, i, size, img.next), r.next <= NBLKS
  PROVE  \E d \in Dins :
           /\ d.blocks = img.disk.inode[i].blocks + 1
           /\ AppendedTo(img.disk.inode[i], img.disk.blk, img.next, w,
                         Region(img.disk.inode[i], img.disk.blk, Rest(img.next)), d, r.disk.blk, r.next)
           /\ r.disk = DiskOf(img.disk.super, img.disk.freemap, Changed(img.disk.inode, i, d), r.disk.blk)
<1> DEFINE D == img.disk.inode
           din == D[i]
           blk == img.disk.blk
           next == img.next
           R == Region(din, blk, Rest(next))
           p == pre.disk.inode[i]
           ent == EntOf(din, next + 1)
           d == DinWith(p, ent, size, next)
           blk1 == [blk EXCEPT ![next] = w]
           blk2 == BlkWith(din, ent, blk1, next)
           next2 == IF ent = din.indirect THEN next + 1 ELSE next + 2
<1>1. /\ next \in 3..NBLKS /\ Sound(D, blk, Rest(next)) /\ \A b \in Rest(next) : blk[b] = ZeroBlock
      /\ Fill(din, blk)
  BY DEF GoodImage, Rest
<1>2. D \in [DOMAIN D -> Dins] /\ blk \in Disk /\ din \in Dins
  BY DEF IsDisk
<1>3. Apart(D, blk, Rest(next), i, R)
  BY <1>1, RegionApart
<1>4. /\ pre.next = next + 1
      /\ pre.disk = DiskOf(img.disk.super, img.disk.freemap, pre.disk.inode, pre.disk.blk)
      /\ pre.disk.blk = blk1 /\ DOMAIN pre.disk.inode = DOMAIN D
      /\ p \in Dins /\ p.direct = din.direct /\ p.indirect = din.indirect /\ p.blocks = din.blocks
      /\ pre.disk.inode \in [DOMAIN D -> Dins]
      /\ \A j \in DOMAIN D : j # i => pre.disk.inode[j] = D[j]
  BY DEF Prepared
<1>5. pre.disk.super = img.disk.super /\ pre.disk.freemap = img.disk.freemap
  <2>1. \A s, m, n, b : DiskOf(s, m, n, b).super = s /\ DiskOf(s, m, n, b).freemap = m
    BY DEF DiskOf
  <2>2. QED
    BY <1>4, <2>1
<1>6. EntOf(p, pre.next) = ent /\ BlkWith(p, ent, pre.disk.blk, next) = blk2
  BY <1>4 DEF EntOf, BlkWith
<1>7. /\ r.next = IF EntOf(p, pre.next) = p.indirect THEN pre.next ELSE pre.next + 1
      /\ r.disk = DiskOf(pre.disk.super, pre.disk.freemap,
                         WithInode(pre.disk.inode, i, DinWith(p, EntOf(p, pre.next), size, next)),
                         BlkWith(p, EntOf(p, pre.next), pre.disk.blk, next))
  <2>1. pre.disk = DiskOf(pre.disk.super, pre.disk.freemap, pre.disk.inode, pre.disk.blk)
    BY <1>4, <1>5
  <2> HIDE DEF p, next
  <2>2. r = append_block(pre, i, size, next)
    BY DEF next
  <2>3. QED
    BY <2>1, <2>2, AppendDisk DEF p
<1>8. r.disk = DiskOf(img.disk.super, img.disk.freemap, WithInode(pre.disk.inode, i, d), blk2)
  BY <1>5, <1>6, <1>7
<1>9. r.next = next2
  <2>1. ent = p.indirect <=> ent = din.indirect
    BY <1>4
  <2> HIDE DEF ent
  <2>2. QED
    BY <1>1, <1>4, <1>6, <1>7, <2>1
<1>10. r.disk.blk = blk2
  <2>1. \A s, m, n, b : DiskOf(s, m, n, b).blk = b
    BY DEF DiskOf
  <2>2. QED
    BY <1>8, <2>1
<1>11. ent \in Nat /\ next \in Nat /\ next < NBLKS
  <2>1. next \in Nat /\ next + 1 \in Nat
    BY <1>1
  <2>2. din.indirect \in Nat
    BY <1>2 DEF Dins
  <2> HIDE DEF din, next
  <2>3. ent \in Nat
    BY <2>1, <2>2 DEF EntOf
  <2> HIDE DEF ent
  <2>4. next2 \in {next + 1, next + 2} /\ next2 <= NBLKS
    BY <1>9
  <2> HIDE DEF next2
  <2>5. QED
    BY <2>1, <2>3, <2>4, Sizes
<1>12. /\ d \in Dins /\ d.blocks = din.blocks + 1 /\ d.indirect = ent
       /\ d.direct = IF din.blocks < NDIRECT THEN [din.direct EXCEPT ![din.blocks] = next] ELSE din.direct
  <2>1. p.blocks < NDIRECT + BLKSIZE
    BY <1>4
  <2> HIDE DEF p, ent, next
  <2>2. DinGrown(p, ent, next, DinWith(p, ent, size, next))
    BY <1>4, <1>11, <2>1, DinWithFields
  <2> HIDE DEF d
  <2>3. DinGrown(p, ent, next, d)
    BY <2>2 DEF d
  <2>4. QED
    BY <1>4, <2>3 DEF DinGrown
<1>13. WithInode(pre.disk.inode, i, d) = Changed(D, i, d)
  <2> HIDE DEF d, D
  <2>1. [pre.disk.inode EXCEPT ![i] = d] = [D EXCEPT ![i] = d]
    BY <1>2, <1>4
  <2>2. QED
    BY <2>1 DEF WithInode, Changed
<1>14. Refs(din, blk)[PlaceOf(din.blocks)] = 0
  <2>1. din.blocks \in 0..(NDIRECT + BLKSIZE - 1)
    <3>1. din.blocks \in 0..(NDIRECT + BLKSIZE) /\ din.blocks < NDIRECT + BLKSIZE
      BY <1>2 DEF Dins
    <3> HIDE DEF din
    <3>2. QED
      BY <3>1, Sizes
  <2>2. bmap(din, blk, din.blocks) = 0
    BY <1>1, <2>1 DEF Fill
  <2>3. QED
    BY <2>1, <2>2, BmapRef
<1>15. R \in SUBSET Blocks /\ 0 \notin R /\ Own(Rest(next), Refs(din, blk), {}, R)
  BY <1>3 DEF Apart
<1>16. din.blocks < NDIRECT + BLKSIZE /\ next2 <= NBLKS
  BY <1>9
<1> HIDE DEF R, d, ent, blk1, blk2, next2, din, blk, next
<1>17. AppendedTo(din, blk, next, w, R, d, blk2, next2)
  <2>1. blk1 = [blk EXCEPT ![next] = w] /\ ent = EntOf(din, next + 1) /\ blk2 = BlkWith(din, ent, blk1, next)
        /\ next2 = (IF ent = din.indirect THEN next + 1 ELSE next + 2)
    BY DEF blk1, ent, blk2, next2
  <2>2. QED
    BY <1>1, <1>2, <1>11, <1>12, <1>14, <1>15, <1>16, <2>1, AppendOwn
<1>18. QED
  BY <1>8, <1>9, <1>10, <1>12, <1>13, <1>17 DEF R, din, blk, next

LEMMA DiskParts ==
  ASSUME NEW s, NEW m, NEW n, NEW b
  PROVE  /\ DiskOf(s, m, n, b).super = s /\ DiskOf(s, m, n, b).freemap = m
         /\ DiskOf(s, m, n, b).inode = n /\ DiskOf(s, m, n, b).blk = b
  BY DEF DiskOf

LEMMA DiskOfType ==
  ASSUME NEW d, IsDisk(d), NEW n, DOMAIN n \subseteq Blocks, n \in [DOMAIN n -> Dins], NEW b \in Disk,
         NEW e, e = DiskOf(d.super, d.freemap, n, b)
  PROVE  IsDisk(e) /\ e.inode = n /\ e.blk = b
<1>1. e.super = d.super /\ e.freemap = d.freemap /\ e.inode = n /\ e.blk = b
  BY DiskParts
<1>2. e = [super |-> e.super, freemap |-> e.freemap, inode |-> e.inode, blk |-> e.blk]
  BY <1>1 DEF DiskOf
<1>3. QED
  BY <1>1, <1>2 DEF IsDisk

LEMMA AppendStep ==
  ASSUME NEW img, GoodImage(img), IsDisk(img.disk), NEW i \in DOMAIN img.disk.inode,
         img.disk.inode[i].blocks < NDIRECT + BLKSIZE, NEW w \in [Offsets -> Int],
         NEW pre, Prepared(img, i, w, pre), NEW size \in Nat,
         append_block(pre, i, size, img.next).next <= NBLKS
  PROVE  Appended(img, i, w, append_block(pre, i, size, img.next))
<1> DEFINE r == append_block(pre, i, size, img.next)
           D == img.disk.inode
           din == D[i]
           n == din.blocks
           blk == img.disk.blk
           blk2 == r.disk.blk
           next == img.next
           R == Region(din, blk, Rest(next))
<1>1. PICK d \in Dins :
           /\ d.blocks = n + 1
           /\ AppendedTo(din, blk, next, w, R, d, blk2, r.next)
           /\ r.disk = DiskOf(img.disk.super, img.disk.freemap, Changed(D, i, d), blk2)
  BY AppendParts
<1> HIDE DEF r
<1>2. /\ next \in 3..NBLKS /\ Sound(D, blk, Rest(next)) /\ \A b \in Rest(next) : blk[b] = ZeroBlock
      /\ \A j \in DOMAIN D : Fill(D[j], blk)
  BY DEF GoodImage, Rest
<1>3. D \in [DOMAIN D -> Dins] /\ blk \in Disk /\ din \in Dins /\ DOMAIN D \subseteq Blocks
  BY DEF IsDisk
<1>4. Apart(D, blk, Rest(next), i, R)
  BY <1>2, RegionApart
<1>5. n \in 0..(NDIRECT + BLKSIZE - 1)
  <2>1. n \in 0..(NDIRECT + BLKSIZE) /\ n < NDIRECT + BLKSIZE
    BY <1>3 DEF Dins
  <2> HIDE DEF n
  <2>2. QED
    BY <2>1, Sizes
<1> DEFINE E == Changed(D, i, d)
<1>6. DOMAIN E = DOMAIN D /\ E[i] = d /\ (\A j \in DOMAIN D : j # i => E[j] = D[j]) /\ E \in [DOMAIN D -> Dins]
  <2>1. i \in DOMAIN D
    OBVIOUS
  <2> HIDE DEF D
  <2>2. QED
    BY <1>3, <2>1 DEF Changed
<1>7. /\ Own(Rest(r.next), Refs(d, blk2), {}, R) /\ blk2 \in Disk
      /\ Refs(d, blk2)[PlaceOf(n)] = next /\ blk2[next] = w
      /\ \A p \in Places : p # PlaceOf(n) /\ p # NDIRECT => Refs(d, blk2)[p] = Refs(din, blk)[p]
      /\ \A x \in Blocks : x # next /\ x \notin {din.indirect, r.next - 1} \ {0} => blk2[x] = blk[x]
      /\ \A x \in Blocks \ R : blk2[x] = blk[x]
      /\ \A x \in Rest(r.next) : blk2[x] = blk[x]
      /\ r.next \in {next + 1, next + 2} /\ (n < NDIRECT => r.next = next + 1)
  BY <1>1 DEF AppendedTo
<1>8. IsDisk(r.disk) /\ r.disk.inode = E
  <2> HIDE DEF E, D, blk2
  <2>1. QED
    BY <1>1, <1>3, <1>6, <1>7, DiskOfType DEF E
<1> HIDE DEF E, R, D, din, n, blk, blk2, next
<1>9. Sound(E, blk2, Rest(r.next))
  <2>1. Sound(Changed(D, i, d), blk2, Rest(r.next))
    <3>1. i \in DOMAIN D /\ din = D[i]
      BY DEF D, din
    <3>2. QED
      BY <1>2, <1>4, <1>7, <3>1, SoundAfter
  <2>2. QED
    BY <2>1 DEF E
<1>10. ASSUME NEW k \in 0..(NDIRECT + BLKSIZE - 1)
       PROVE  /\ PlaceOf(k) \in Places /\ PlaceOf(k) # NDIRECT
              /\ bmap(d, blk2, k) = Refs(d, blk2)[PlaceOf(k)]
              /\ bmap(din, blk, k) = Refs(din, blk)[PlaceOf(k)]
              /\ k # n => bmap(d, blk2, k) = bmap(din, blk, k)
  <2>1. /\ PlaceOf(k) \in Places /\ PlaceOf(k) # NDIRECT
        /\ bmap(d, blk2, k) = Refs(d, blk2)[PlaceOf(k)]
        /\ bmap(din, blk, k) = Refs(din, blk)[PlaceOf(k)]
    BY BmapRef
  <2>2. k # n => PlaceOf(k) # PlaceOf(n)
    BY <1>5, PlaceInj
  <2>3. QED
    BY <1>7, <2>1, <2>2
<1>11. \A j \in DOMAIN E : Fill(E[j], blk2)
  <2>1. ASSUME NEW k \in 0..(NDIRECT + BLKSIZE - 1), k >= d.blocks PROVE bmap(d, blk2, k) = 0
    <3>1. k # n /\ k >= din.blocks
      BY <1>1, <1>5, <2>1 DEF n
    <3>2. Fill(din, blk)
      BY <1>2 DEF din, D
    <3>3. bmap(din, blk, k) = 0
      BY <3>1, <3>2 DEF Fill
    <3>4. QED
      BY <1>10, <3>1, <3>3
  <2>2. Fill(d, blk2)
    BY <2>1 DEF Fill
  <2>3. ASSUME NEW j \in DOMAIN D, j # i PROVE Fill(D[j], blk2)
    <3>1. Refs(D[j], blk2) = Refs(D[j], blk)
      BY <1>2, <1>4, <1>7, <2>3, OthersKept DEF D
    <3>2. ASSUME NEW k \in 0..(NDIRECT + BLKSIZE - 1) PROVE bmap(D[j], blk2, k) = bmap(D[j], blk, k)
      BY <3>1, BmapRef
    <3>3. Fill(D[j], blk)
      BY <1>2
    <3>4. QED
      BY <3>2, <3>3 DEF Fill
  <2>4. QED
    BY <1>6, <2>2, <2>3
<1>12. r.next \in 3..NBLKS
  <2>1. r.next <= NBLKS
    BY DEF r
  <2>2. QED
    BY <1>2, <1>7, <2>1, Sizes
<1>13. \A b \in Rest(r.next) : b \in Rest(next) /\ b # next
  BY <1>2, <1>7, Sizes DEF Rest
<1>14. GoodImage(r)
  BY <1>2, <1>7, <1>8, <1>9, <1>11, <1>12, <1>13 DEF GoodImage, Rest, blk2
<1>15. SlotOf(r.disk, i, n) = w
  <2>1. bmap(d, blk2, n) = next
    BY <1>5, <1>7, <1>10
  <2>2. QED
    BY <1>6, <1>7, <1>8, <2>1 DEF SlotOf, blk2
<1>16. ASSUME NEW k \in 0..(n - 1) PROVE SlotOf(r.disk, i, k) = SlotOf(img.disk, i, k)
  <2> DEFINE c == bmap(din, blk, k)
             p == PlaceOf(k)
  <2>1. k \in 0..(NDIRECT + BLKSIZE - 1) /\ k # n
    BY <1>5, Sizes
  <2>2. p \in Places /\ p # NDIRECT /\ c = Refs(din, blk)[p] /\ bmap(d, blk2, k) = c
    BY <1>10, <2>1
  <2>3. NDIRECT \in Places /\ Refs(din, blk)[NDIRECT] = din.indirect
    BY RefIndex
  <2>4. Own(Rest(next), Refs(din, blk), {}, R) /\ R \subseteq Blocks /\ 0 \notin R
    BY <1>4 DEF Apart, D, din
  <2> HIDE DEF c, p
  <2>5. c # 0 => c \in R \ Rest(next) /\ c # din.indirect
    BY <2>2, <2>3, <2>4 DEF Own
  <2>6. c \in Blocks /\ c # next /\ c \notin {din.indirect, r.next - 1} \ {0}
    <3>1. CASE c = 0
      BY <1>2, <3>1, Sizes
    <3>2. CASE c # 0
      <4>1. next \in Rest(next) /\ (r.next = next + 2 => next + 1 \in Rest(next)) /\ r.next - 1 \in {next, next + 1}
        <5>1. next \in Rest(next)
          BY <1>2, <1>7, <1>12, Sizes, SMTT(60) DEF Rest
        <5>2. r.next = next + 2 => next + 1 \in Rest(next)
          BY <1>2, <1>12, Sizes, SMTT(60) DEF Rest
        <5>3. r.next - 1 \in {next, next + 1}
          BY <1>2, <1>7
        <5>4. QED
          BY <5>1, <5>2, <5>3
      <4>2. r.next - 1 \in Rest(next)
        BY <1>2, <1>7, <4>1
      <4>3. QED
        BY <2>4, <2>5, <3>2, <4>1, <4>2
    <3>3. QED
      BY <3>1, <3>2
  <2>7. blk2[c] = blk[c]
    BY <1>7, <2>6
  <2>8. QED
    BY <1>6, <1>8, <2>2, <2>7 DEF SlotOf, blk2, blk, din, D, c
<1>17. i # 1 => SameDir(img.disk.inode, img.disk.blk, r.disk.inode, r.disk.blk)
  <2>1. ASSUME i # 1 PROVE SameDir(D, blk, E, blk2)
    <3>1. E[1] = D[1]
      BY <1>2, <1>6, <2>1 DEF Sound
    <3>2. i \in DOMAIN D /\ din = D[i]
      BY DEF D, din
    <3>3. QED
      BY <1>2, <1>4, <1>7, <2>1, <3>1, <3>2, DirKept
  <2>2. QED
    BY <1>8, <2>1 DEF D, blk, blk2
<1>18. DOMAIN r.disk.inode = DOMAIN D /\ r.disk.inode[i].blocks = n + 1
       /\ \A j \in DOMAIN D : j # i => r.disk.inode[j] = D[j]
  BY <1>1, <1>6, <1>8
<1>19. Appended(img, i, w, r)
  BY <1>7, <1>8, <1>14, <1>15, <1>16, <1>17, <1>18 DEF Appended, D, n, next, din
<1>20. QED
  BY <1>19 DEF r

\* a new entry in block b, and a link to the inode it leads to
EntryWords(i, name) == [ZeroBlock EXCEPT ![0] = i, ![1] = name]
OneLink(din) == [din EXCEPT !.nlinks = @ + 1]
Linked(d, b, w, i) == [d EXCEPT !.blk[b] = w, !.inode[i].nlinks = @ + 1]
WithBlock(blk, b, w) == [blk EXCEPT ![b] = w]

LEMMA LinkedParts ==
  ASSUME NEW d, NEW b, NEW w, NEW i
  PROVE  [d EXCEPT !.blk[b] = w, !.inode[i].nlinks = @ + 1]
           = [[d EXCEPT !.blk = [d.blk EXCEPT ![b] = w]]
                 EXCEPT !.inode = [d.inode EXCEPT ![i] = [d.inode[i] EXCEPT !.nlinks = d.inode[i].nlinks + 1]]]
  OBVIOUS

LEMMA LinkedDisk ==
  ASSUME NEW d, d = DiskOf(d.super, d.freemap, d.inode, d.blk), NEW b, NEW w, NEW i
  PROVE  Linked(d, b, w, i)
           = DiskOf(d.super, d.freemap, WithInode(d.inode, i, OneLink(d.inode[i])), WithBlock(d.blk, b, w))
<1> DEFINE s == d.super
           m == d.freemap
           n == d.inode
           k == d.blk
           y == WithInode(n, i, OneLink(n[i]))
           z == WithBlock(k, b, w)
           f == [super |-> s, freemap |-> m, inode |-> n, blk |-> k]
           g == [super |-> s, freemap |-> m, inode |-> n, blk |-> z]
<1>1. d = f
  BY DEF DiskOf
<1>2. [d.inode EXCEPT ![i] = [d.inode[i] EXCEPT !.nlinks = d.inode[i].nlinks + 1]] = y
  BY DEF WithInode, OneLink
<1>3. [d.blk EXCEPT ![b] = w] = z
  BY DEF WithBlock
<1> HIDE DEF s, m, n, k, y, z
<1>4. [f EXCEPT !.blk = z] = g
  OBVIOUS
<1>5. [g EXCEPT !.inode = y] = [super |-> s, freemap |-> m, inode |-> y, blk |-> z]
  OBVIOUS
<1> HIDE DEF f, g
<1>6. Linked(d, b, w, i)
        = [[d EXCEPT !.blk = [d.blk EXCEPT ![b] = w]]
              EXCEPT !.inode = [d.inode EXCEPT ![i] = [d.inode[i] EXCEPT !.nlinks = d.inode[i].nlinks + 1]]]
  BY LinkedParts, Zenon DEF Linked
<1>7. Linked(d, b, w, i) = [super |-> s, freemap |-> m, inode |-> y, blk |-> z]
  BY <1>1, <1>2, <1>3, <1>4, <1>5, <1>6
<1>8. QED
  BY <1>7 DEF DiskOf, s, m, n, y, z, k

LEMMA EntryWordsAt ==
  ASSUME NEW i \in Int, NEW name \in Int
  PROVE  LET v == EntryWords(i, name) IN v \in [Offsets -> Int] /\ v[0] = i /\ v[1] = name
<1> DEFINE u == [ZeroBlock EXCEPT ![0] = i]
<1>1. 0 \in Offsets /\ 1 \in Offsets
  BY Sizes DEF Offsets
<1>2. u \in [Offsets -> Int] /\ u[0] = i
  BY <1>1, ZeroWords
<1>3. EntryWords(i, name) = [u EXCEPT ![1] = name]
  BY DEF EntryWords
<1> HIDE DEF u
<1>4. QED
  BY <1>1, <1>2, <1>3

LEMMA OneLinkDin ==
  ASSUME NEW din \in Dins
  PROVE  LET d == OneLink(din)
         IN  d \in Dins /\ d.direct = din.direct /\ d.indirect = din.indirect /\ d.blocks = din.blocks
<1>1. din.nlinks + 1 \in Nat
  BY DEF Dins
<1>2. QED
  BY <1>1 DEF Dins, OneLink

\* the image with the link
LinkedImage(img, i) ==
  [next |-> img.next,
   disk |-> DiskOf(img.disk.super, img.disk.freemap, WithInode(img.disk.inode, i, OneLink(img.disk.inode[i])),
                   img.disk.blk)]

\* images whose inodes differ in their links at most
LinksOnly(img, img2) ==
  /\ img2.next = img.next /\ img2.disk.blk = img.disk.blk
  /\ DOMAIN img2.disk.inode = DOMAIN img.disk.inode
  /\ \A j \in DOMAIN img.disk.inode :
        /\ img2.disk.inode[j].direct = img.disk.inode[j].direct
        /\ img2.disk.inode[j].indirect = img.disk.inode[j].indirect
        /\ img2.disk.inode[j].blocks = img.disk.inode[j].blocks

LEMMA LinkStep ==
  ASSUME NEW img, GoodImage(img), IsDisk(img.disk), NEW i \in DOMAIN img.disk.inode
  PROVE  /\ GoodImage(LinkedImage(img, i)) /\ IsDisk(LinkedImage(img, i).disk)
         /\ LinksOnly(img, LinkedImage(img, i))
<1> DEFINE D == img.disk.inode
           ol == OneLink(D[i])
           E == WithInode(D, i, ol)
           lk == LinkedImage(img, i)
<1>1. D \in [DOMAIN D -> Dins] /\ D[i] \in Dins /\ DOMAIN D \subseteq Blocks /\ img.disk.blk \in Disk
  BY DEF IsDisk
<1>2. ol \in Dins /\ ol.direct = D[i].direct /\ ol.indirect = D[i].indirect /\ ol.blocks = D[i].blocks
  BY <1>1, OneLinkDin
<1>3. /\ DOMAIN E = DOMAIN D /\ E \in [DOMAIN D -> Dins]
      /\ E[i] = ol /\ \A j \in DOMAIN D : j # i => E[j] = D[j]
  <2>1. i \in DOMAIN D
    OBVIOUS
  <2> HIDE DEF D, ol
  <2>2. QED
    BY <1>1, <1>2, <2>1 DEF WithInode
<1>4. lk.next = img.next /\ lk.disk = DiskOf(img.disk.super, img.disk.freemap, E, img.disk.blk)
  BY DEF LinkedImage
<1> HIDE DEF E, lk, ol
<1>5. IsDisk(lk.disk) /\ lk.disk.inode = E /\ lk.disk.blk = img.disk.blk
  BY <1>1, <1>3, <1>4, DiskOfType
<1>6. \A j \in DOMAIN D : E[j].direct = D[j].direct /\ E[j].indirect = D[j].indirect /\ E[j].blocks = D[j].blocks
  BY <1>2, <1>3
<1>7. /\ img.next \in 3..NBLKS /\ Sound(D, img.disk.blk, img.next..(NBLKS - 1))
      /\ \A b \in img.next..(NBLKS - 1) : img.disk.blk[b] = ZeroBlock
      /\ \A j \in DOMAIN D : Fill(D[j], img.disk.blk)
  BY DEF GoodImage
<1> HIDE DEF D
<1>8. Sound(E, img.disk.blk, img.next..(NBLKS - 1))
  BY <1>3, <1>6, <1>7, SoundSame
<1>9. \A j \in DOMAIN E : Fill(E[j], img.disk.blk)
  BY <1>3, <1>6, <1>7 DEF Fill, bmap
<1>10. GoodImage(lk)
  BY <1>4, <1>5, <1>7, <1>8, <1>9 DEF GoodImage
<1>11. LinksOnly(img, lk)
  BY <1>3, <1>4, <1>5, <1>6 DEF LinksOnly, D
<1>12. QED
  BY <1>5, <1>10, <1>11 DEF lk

\* an image one entry of directory dir further on
Entered(img, dir, w, r) ==
  /\ GoodImage(r) /\ IsDisk(r.disk)
  /\ DOMAIN r.disk.inode = DOMAIN img.disk.inode
  /\ r.disk.inode[dir].blocks = img.disk.inode[dir].blocks + 1
  /\ SlotOf(r.disk, dir, img.disk.inode[dir].blocks) = w
  /\ \A k \in 0..(img.disk.inode[dir].blocks - 1) : SlotOf(r.disk, dir, k) = SlotOf(img.disk, dir, k)
  /\ r.next \in {img.next + 1, img.next + 2}
  /\ img.disk.inode[dir].blocks < NDIRECT => r.next = img.next + 1

WellShaped(d) == d = DiskOf(d.super, d.freemap, d.inode, d.blk)

LEMMA ShapeOfDisk == ASSUME NEW d, IsDisk(d) PROVE WellShaped(d)
  BY DEF IsDisk, DiskOf, WellShaped

LEMMA ShapeAfter ==
  ASSUME NEW s, NEW m, NEW n, NEW b, NEW d, d = DiskOf(s, m, n, b)
  PROVE  WellShaped(d)
<1>1. d.super = s /\ d.freemap = m /\ d.inode = n /\ d.blk = b
  BY DiskParts
<1>2. QED
  BY <1>1 DEF WellShaped

\* block numbers are handed out in order
LEMMA AppendNext ==
  ASSUME NEW img, WellShaped(img.disk), img.next \in Nat, NEW i, NEW size, NEW b
  PROVE  LET r == append_block(img, i, size, b)
         IN  WellShaped(r.disk) /\ r.next \in {img.next, img.next + 1}
<1> DEFINE r == append_block(img, i, size, b)
           din == img.disk.inode[i]
           ent == EntOf(din, img.next)
           n == WithInode(img.disk.inode, i, DinWith(din, ent, size, b))
           k == BlkWith(din, ent, img.disk.blk, b)
<1>1. /\ r.next = IF ent = din.indirect THEN img.next ELSE img.next + 1
      /\ r.disk = DiskOf(img.disk.super, img.disk.freemap, n, k)
  BY AppendDisk DEF WellShaped
<1> HIDE DEF r, ent, n, k
<1>2. WellShaped(r.disk)
  BY <1>1, ShapeAfter
<1>3. QED
  BY <1>1, <1>2 DEF r

\* the image add_entry appends the new block to
EntryImage(img, i, w) == [next |-> img.next + 1, disk |-> Linked(img.disk, img.next, w, i)]

LEMMA EntryImageParts ==
  ASSUME NEW img, WellShaped(img.disk), NEW i, NEW w, NEW pre, pre = EntryImage(img, i, w)
  PROVE  /\ pre.next = img.next + 1
         /\ pre.disk = DiskOf(img.disk.super, img.disk.freemap, pre.disk.inode, pre.disk.blk)
         /\ pre.disk = DiskOf(pre.disk.super, pre.disk.freemap, pre.disk.inode, pre.disk.blk)
         /\ pre.disk.inode = WithInode(img.disk.inode, i, OneLink(img.disk.inode[i]))
         /\ pre.disk.blk = WithBlock(img.disk.blk, img.next, w)
<1> DEFINE n == WithInode(img.disk.inode, i, OneLink(img.disk.inode[i]))
           k == WithBlock(img.disk.blk, img.next, w)
<1>1. img.disk = DiskOf(img.disk.super, img.disk.freemap, img.disk.inode, img.disk.blk)
  BY DEF WellShaped
<1>2. Linked(img.disk, img.next, w, i) = DiskOf(img.disk.super, img.disk.freemap, n, k)
  BY <1>1, LinkedDisk
<1>3. pre.next = img.next + 1 /\ pre.disk = Linked(img.disk, img.next, w, i)
  BY DEF EntryImage
<1> HIDE DEF n, k
<1>4. pre.disk = DiskOf(img.disk.super, img.disk.freemap, n, k)
  BY <1>2, <1>3
<1>5. /\ pre.disk.super = img.disk.super /\ pre.disk.freemap = img.disk.freemap
      /\ pre.disk.inode = n /\ pre.disk.blk = k
  BY <1>4, DiskParts
<1>6. QED
  BY <1>3, <1>4, <1>5 DEF n, k

LEMMA AddEntryDef ==
  ASSUME NEW img, NEW dir, NEW i, NEW name
  PROVE  add_entry(img, dir, i, name) = append_block(EntryImage(img, i, EntryWords(i, name)), dir, 1, img.next)
  BY Zenon DEF add_entry, EntryImage, Linked, EntryWords

LEMMA AddEntryNext ==
  ASSUME NEW img, WellShaped(img.disk), img.next \in Nat, NEW dir, NEW i, NEW name
  PROVE  add_entry(img, dir, i, name).next \in {img.next + 1, img.next + 2}
<1> DEFINE w == EntryWords(i, name)
           pre == EntryImage(img, i, w)
<1>1. pre = EntryImage(img, i, w)
  OBVIOUS
<1> HIDE DEF pre, w
<1>2. pre.next = img.next + 1 /\ WellShaped(pre.disk)
  BY <1>1, EntryImageParts DEF WellShaped
<1>3. append_block(pre, dir, 1, img.next).next \in {pre.next, pre.next + 1}
  BY <1>2, AppendNext
<1>4. add_entry(img, dir, i, name) = append_block(pre, dir, 1, img.next)
  BY AddEntryDef DEF pre, w
<1>5. QED
  BY <1>2, <1>3, <1>4

LEMMA AddEntryStep ==
  ASSUME NEW img, GoodImage(img), IsDisk(img.disk), NEW dir \in DOMAIN img.disk.inode,
         img.disk.inode[dir].blocks < NDIRECT + BLKSIZE, NEW i \in DOMAIN img.disk.inode, NEW name \in Int,
         add_entry(img, dir, i, name).next <= NBLKS
  PROVE  Entered(img, dir, EntryWords(i, name), add_entry(img, dir, i, name))
<1> DEFINE lk == LinkedImage(img, i)
           w == EntryWords(i, name)
           pre == EntryImage(img, i, w)
           r == add_entry(img, dir, i, name)
<1>1. GoodImage(lk) /\ IsDisk(lk.disk) /\ LinksOnly(img, lk)
  BY LinkStep
<1>2. r = append_block(pre, dir, 1, img.next)
  BY AddEntryDef
<1>3. /\ pre.next = img.next + 1
      /\ pre.disk = DiskOf(img.disk.super, img.disk.freemap, pre.disk.inode, pre.disk.blk)
      /\ pre.disk.inode = WithInode(img.disk.inode, i, OneLink(img.disk.inode[i]))
      /\ pre.disk.blk = WithBlock(img.disk.blk, img.next, w)
  <2> HIDE DEF w
  <2>1. pre = EntryImage(img, i, w)
    OBVIOUS
  <2> HIDE DEF pre
  <2>2. QED
    BY <2>1, EntryImageParts, ShapeOfDisk
<1>4. /\ lk.next = img.next
      /\ lk.disk = DiskOf(img.disk.super, img.disk.freemap,
                          WithInode(img.disk.inode, i, OneLink(img.disk.inode[i])), img.disk.blk)
  BY DEF LinkedImage
<1>5. w \in [Offsets -> Int]
  <2>1. i \in Int
    <3>1. i \in Blocks
      BY DEF IsDisk
    <3>2. QED
      BY <3>1, Sizes
  <2>2. QED
    BY <2>1, EntryWordsAt
<1> HIDE DEF lk, w, pre, r
<1>6. /\ lk.disk.super = img.disk.super /\ lk.disk.freemap = img.disk.freemap
      /\ lk.disk.inode = pre.disk.inode /\ lk.disk.blk = img.disk.blk
  BY <1>3, <1>4, DiskParts
<1>7. Prepared(lk, dir, w, pre)
  <2>1. lk.disk.inode \in [DOMAIN lk.disk.inode -> Dins]
    BY <1>1 DEF IsDisk
  <2>2. pre.disk.blk = [lk.disk.blk EXCEPT ![lk.next] = w]
    BY <1>3, <1>4, <1>6 DEF WithBlock
  <2>3. QED
    BY <1>3, <1>4, <1>6, <2>1, <2>2 DEF Prepared
<1>8. Appended(lk, dir, w, r)
  <2>1. /\ dir \in DOMAIN lk.disk.inode /\ lk.disk.inode[dir].blocks < NDIRECT + BLKSIZE
        /\ append_block(pre, dir, 1, lk.next).next <= NBLKS /\ r = append_block(pre, dir, 1, lk.next)
    <3>1. r.next <= NBLKS
      BY DEF r
    <3>2. QED
      BY <1>1, <1>2, <1>4, <3>1 DEF LinksOnly
  <2>2. Appended(lk, dir, w, append_block(pre, dir, 1, lk.next))
    BY <1>1, <1>5, <1>7, <2>1, AppendStep
  <2>3. QED
    BY <2>1, <2>2, SMTT(60)
<1>9. \A k : SlotOf(lk.disk, dir, k) = SlotOf(img.disk, dir, k)
  BY <1>1 DEF SlotOf, LinksOnly, bmap
<1>10. Entered(img, dir, w, r)
  BY <1>1, <1>8, <1>9 DEF Appended, Entered, LinksOnly
<1>11. QED
  BY <1>10 DEF w, r

-----------------------------------------------------------------------------
(* add_file of mksfs: the blocks of a file, one after the other.           *)

FileLen(n, k) == IF k * BLKSIZE <= n THEN BLKSIZE ELSE n % BLKSIZE
FileWords(f, len) == [o \in Offsets |-> IF o < len THEN f ELSE 0]
FileImage(img, w) == [next |-> img.next + 1, disk |-> [img.disk EXCEPT !.blk[img.next] = w]]

LEMMA FileBlockDef ==
  ASSUME NEW img, NEW i, NEW f, NEW n, NEW k
  PROVE  file_block(img, i, f, n, k)
           = append_block(FileImage(img, FileWords(f, FileLen(n, k))), i, FileLen(n, k), img.next)
  BY Zenon DEF file_block, FileImage, FileWords, FileLen

LEMMA FileImageParts ==
  ASSUME NEW img, WellShaped(img.disk), NEW w, NEW pre, pre = FileImage(img, w)
  PROVE  /\ pre.next = img.next + 1 /\ WellShaped(pre.disk)
         /\ pre.disk = DiskOf(img.disk.super, img.disk.freemap, pre.disk.inode, pre.disk.blk)
         /\ pre.disk.inode = img.disk.inode
         /\ pre.disk.blk = WithBlock(img.disk.blk, img.next, w)
<1> DEFINE s == img.disk.super
           m == img.disk.freemap
           n == img.disk.inode
           b == img.disk.blk
           k == WithBlock(b, img.next, w)
           f == [super |-> s, freemap |-> m, inode |-> n, blk |-> b]
<1>1. img.disk = f
  BY DEF WellShaped, DiskOf
<1>2. [img.disk.blk EXCEPT ![img.next] = w] = k
  BY DEF WithBlock
<1>3. pre.next = img.next + 1 /\ pre.disk = [img.disk EXCEPT !.blk = [img.disk.blk EXCEPT ![img.next] = w]]
  BY DEF FileImage
<1> HIDE DEF s, m, n, b, k
<1>4. [f EXCEPT !.blk = k] = [super |-> s, freemap |-> m, inode |-> n, blk |-> k]
  OBVIOUS
<1> HIDE DEF f
<1>5. pre.disk = DiskOf(s, m, n, k)
  BY <1>1, <1>2, <1>3, <1>4 DEF DiskOf
<1>6. /\ pre.disk.super = s /\ pre.disk.freemap = m /\ pre.disk.inode = n /\ pre.disk.blk = k
  BY <1>5, DiskParts
<1>7. WellShaped(pre.disk)
  BY <1>5, ShapeAfter
<1>8. QED
  BY <1>3, <1>5, <1>6, <1>7 DEF s, m, n, b, k

LEMMA FileBlockNext ==
  ASSUME NEW img, WellShaped(img.disk), img.next \in Nat, NEW i, NEW f, NEW n, NEW k
  PROVE  LET r == file_block(img, i, f, n, k)
         IN  WellShaped(r.disk) /\ r.next \in {img.next + 1, img.next + 2}
<1> DEFINE len == FileLen(n, k)
           w == FileWords(f, len)
           pre == FileImage(img, w)
           r == append_block(pre, i, len, img.next)
<1>1. pre = FileImage(img, w)
  OBVIOUS
<1>2. file_block(img, i, f, n, k) = r
  BY FileBlockDef
<1> HIDE DEF len, w, pre
<1>3. pre.next = img.next + 1 /\ WellShaped(pre.disk)
  BY <1>1, FileImageParts
<1>4. WellShaped(r.disk) /\ r.next \in {pre.next, pre.next + 1}
  BY <1>3, AppendNext
<1> HIDE DEF r
<1>5. QED
  BY <1>2, <1>3, <1>4

LEMMA FileBlockStep ==
  ASSUME NEW img, GoodImage(img), IsDisk(img.disk), NEW i \in DOMAIN img.disk.inode,
         img.disk.inode[i].blocks < NDIRECT + BLKSIZE, NEW f \in Nat, NEW n \in Nat, NEW k \in Nat,
         file_block(img, i, f, n, k).next <= NBLKS
  PROVE  Appended(img, i, FileWords(f, FileLen(n, k)), file_block(img, i, f, n, k))
<1> DEFINE len == FileLen(n, k)
           w == FileWords(f, len)
           pre == FileImage(img, w)
           r == append_block(pre, i, len, img.next)
<1>1. pre = FileImage(img, w)
  OBVIOUS
<1>2. file_block(img, i, f, n, k) = r
  BY FileBlockDef
<1>3. len \in Nat /\ w \in [Offsets -> Int]
  <2>1. n % BLKSIZE \in Nat
    BY Sizes, DivDef
  <2>2. len \in Nat
    BY <2>1, Sizes DEF FileLen
  <2> HIDE DEF len
  <2>3. w \in [Offsets -> Int]
    BY DEF FileWords
  <2>4. QED
    BY <2>2, <2>3
<1> HIDE DEF len, w, pre
<1>4. /\ pre.next = img.next + 1 /\ WellShaped(pre.disk)
      /\ pre.disk = DiskOf(img.disk.super, img.disk.freemap, pre.disk.inode, pre.disk.blk)
      /\ pre.disk.inode = img.disk.inode
      /\ pre.disk.blk = WithBlock(img.disk.blk, img.next, w)
  BY <1>1, FileImageParts, ShapeOfDisk
<1>5. Prepared(img, i, w, pre)
  <2>1. img.disk.inode \in [DOMAIN img.disk.inode -> Dins]
    BY DEF IsDisk
  <2>2. QED
    BY <1>4, <2>1 DEF Prepared, WithBlock
<1>6. r.next <= NBLKS
  BY <1>2
<1>7. Appended(img, i, w, r)
  BY <1>3, <1>5, <1>6, AppendStep
<1> HIDE DEF r
<1>8. QED
  BY <1>2, <1>7 DEF w, len

Copied(g, N, img, i, f, n) == g = [k \in 0..N |-> IF k = 0 THEN img ELSE file_block(g[k - 1], i, f, n, k)]

LEMMA CopiedExists ==
  ASSUME NEW img, NEW i, NEW f, NEW n, NEW N \in Nat
  PROVE  \E g : Copied(g, N, img, i, f, n)
<1> DEFINE Step(x, k) == file_block(x, i, f, n, k)
           Ok(j, g) == Copied(g, j, img, i, f, n)
           T == {j \in 0..N : ~ \E g : Ok(j, g)}
<1>1. SUFFICES ASSUME T # {} PROVE FALSE
  BY <1>1
<1>2. PICK j \in T : \A l \in T : j <= l
  <2>1. T \in SUBSET Nat
    OBVIOUS
  <2>2. QED
    BY <1>1, <2>1, LeastNumber
<1>3. j \in 0..N /\ ~ \E g : Ok(j, g)
  OBVIOUS
<1>4. j # 0
  <2> DEFINE g == [k \in 0..0 |-> img]
  <2>1. Ok(0, g)
    BY DEF Copied
  <2>2. QED
    BY <1>3, <2>1
<1>5. j - 1 \in 0..N /\ j - 1 \notin T
  <2> HIDE DEF T
  <2>1. j - 1 \in 0..N /\ ~ (j <= j - 1)
    BY <1>3, <1>4
  <2>2. QED
    BY <1>2, <2>1
<1>6. PICK g : Ok(j - 1, g)
  BY <1>5
<1> HIDE DEF Step
<1>6a. g = [k \in 0..(j - 1) |-> IF k = 0 THEN img ELSE Step(g[k - 1], k)]
  BY <1>6 DEF Copied, Step
<1> DEFINE h == [k \in 0..j |-> IF k = j THEN Step(g[j - 1], j) ELSE g[k]]
<1>7. \A k \in 0..(j - 1) : h[k] = g[k]
  BY <1>3, <1>4
<1>8. h[j] = Step(h[j - 1], j) /\ j - 1 \in 0..(j - 1)
  BY <1>3, <1>4, <1>7
<1>9. ASSUME NEW k \in 0..j PROVE h[k] = (IF k = 0 THEN img ELSE Step(h[k - 1], k))
  <2>1. CASE k = j
    BY <1>4, <1>8, <2>1
  <2>2. CASE k # j
    <3>1. k \in 0..(j - 1) /\ (k # 0 => k - 1 \in 0..(j - 1))
      BY <1>3, <2>2
    <3>2. g[k] = (IF k = 0 THEN img ELSE Step(g[k - 1], k))
      BY <1>6a, <3>1
    <3>3. QED
      BY <1>7, <3>1, <3>2
  <2>3. QED
    BY <2>1, <2>2
<1>10. h = [k \in 0..j |-> h[k]]
  OBVIOUS
<1> HIDE DEF h
<1>11. h = [k \in 0..j |-> IF k = 0 THEN img ELSE Step(h[k - 1], k)]
  BY <1>9, <1>10
<1>12. Ok(j, h)
  BY <1>11 DEF Copied, Step
<1>13. QED
  BY <1>3, <1>12

\* img has become x, and inode i has k blocks now
Filled(img, i, x, k) ==
  /\ GoodImage(x) /\ IsDisk(x.disk) /\ x.disk.inode[i].blocks = k
  /\ DOMAIN x.disk.inode = DOMAIN img.disk.inode
  /\ x.disk.inode[1] = img.disk.inode[1]
  /\ SameDir(img.disk.inode, img.disk.blk, x.disk.inode, x.disk.blk)

\* as long as the image has room for it
Copying(img, i, x, k) ==
  /\ WellShaped(x.disk) /\ x.next \in Nat /\ img.next <= x.next
  /\ x.next <= NBLKS => Filled(img, i, x, k)

LEMMA CopyingNext ==
  ASSUME NEW img, img.next \in Nat, NEW i \in DOMAIN img.disk.inode \ {1}, NEW x, NEW k \in Nat,
         k < NDIRECT + BLKSIZE, Copying(img, i, x, k), NEW f \in Nat, NEW n \in Nat
  PROVE  Copying(img, i, file_block(x, i, f, n, k + 1), k + 1)
<1> DEFINE r == file_block(x, i, f, n, k + 1)
<1>1. WellShaped(x.disk) /\ x.next \in Nat /\ img.next <= x.next /\ (x.next <= NBLKS => Filled(img, i, x, k))
  BY DEF Copying
<1>2. WellShaped(r.disk) /\ r.next \in {x.next + 1, x.next + 2}
  BY <1>1, FileBlockNext
<1>3. ASSUME r.next <= NBLKS PROVE Filled(img, i, r, k + 1)
  <2>1. x.next <= NBLKS
    BY <1>1, <1>2, <1>3, Sizes
  <2>2. /\ GoodImage(x) /\ IsDisk(x.disk) /\ x.disk.inode[i].blocks = k
        /\ DOMAIN x.disk.inode = DOMAIN img.disk.inode
        /\ x.disk.inode[1] = img.disk.inode[1]
        /\ SameDir(img.disk.inode, img.disk.blk, x.disk.inode, x.disk.blk)
    BY <1>1, <2>1 DEF Filled
  <2>3. Appended(x, i, FileWords(f, FileLen(n, k + 1)), r)
    BY <1>3, <2>2, FileBlockStep
  <2> HIDE DEF r
  <2>4. 1 \in DOMAIN x.disk.inode
    BY <2>2 DEF GoodImage, Sound
  <2>5. SameDir(x.disk.inode, x.disk.blk, r.disk.inode, r.disk.blk)
    BY <2>3 DEF Appended
  <2>6. SameDir(img.disk.inode, img.disk.blk, r.disk.inode, r.disk.blk)
    BY <2>2, <2>5 DEF SameDir
  <2>7. QED
    BY <2>2, <2>3, <2>4, <2>6 DEF Appended, Filled
<1> HIDE DEF r
<1>4. r.next \in Nat /\ img.next <= r.next
  BY <1>1, <1>2
<1>5. Copying(img, i, r, k + 1)
  BY <1>2, <1>3, <1>4 DEF Copying
<1>6. QED
  BY <1>5 DEF r

LEMMA RoundUpBound ==
  ASSUME NEW n \in Nat, NEW B \in Nat, B > 0, NEW N \in Nat, n <= N * B
  PROVE  RoundUpDiv(n, B) \in 0..N
<1> DEFINE v == n + B - 1
           M == N + 1
<1>1. v \in Nat /\ M \in Nat
  OBVIOUS
<1>2. M * B = N * B + B
  OBVIOUS
<1>3. v < M * B
  <2> DEFINE p == N * B
  <2>1. p \in Nat /\ M * B = p + B /\ n <= p
    BY <1>2
  <2> HIDE DEF p, M
  <2>2. QED
    BY <2>1
<1> HIDE DEF v, M
<1>4. v \div B < M /\ v \div B \in Nat
  BY <1>1, <1>3, DivBound, DivDef
<1>5. QED
  BY <1>4 DEF RoundUpDiv, v, M

LEMMA OpenFileStep ==
  ASSUME NEW img, img.next \in Nat, WellShaped(img.disk), NEW i \in DOMAIN img.disk.inode \ {1},
         img.next <= NBLKS => Filled(img, i, img, 0), NEW f \in Nat, NEW n \in MkSizes
  PROVE  Copying(img, i, open_file(img, i, f, n), RoundUpDiv(n, BLKSIZE))
<1> DEFINE N == RoundUpDiv(n, BLKSIZE)
           g0 == CHOOSE g : Copied(g, N, img, i, f, n)
<1>1. n \in Nat /\ N \in 0..(NDIRECT + BLKSIZE)
  <2>1. NDIRECT + BLKSIZE \in Nat /\ BLKSIZE \in Nat /\ BLKSIZE > 0
    BY Sizes
  <2>2. n \in 0..((NDIRECT + BLKSIZE) * BLKSIZE)
    BY SfsAssumption
  <2> DEFINE M == NDIRECT + BLKSIZE
  <2> HIDE DEF M
  <2>3. M \in Nat /\ n \in 0..(M * BLKSIZE)
    BY <2>1, <2>2 DEF M
  <2>4. n \in Nat /\ n <= M * BLKSIZE
    <3> DEFINE p == M * BLKSIZE
    <3>1. p \in Nat /\ n \in 0..p
      BY <2>1, <2>3
    <3> HIDE DEF p
    <3>2. n \in Nat /\ n <= p
      BY <3>1
    <3>3. QED
      BY <3>2 DEF p
  <2>5. N \in 0..M
    BY <2>1, <2>3, <2>4, RoundUpBound
  <2>6. QED
    BY <2>4, <2>5 DEF M
<1>2. open_file(img, i, f, n) = g0[N]
  BY Zenon DEF open_file, Copied
<1> HIDE DEF N
<1>3. N \in Nat
  BY <1>1, Sizes
<1>4. \E g : Copied(g, N, img, i, f, n)
  BY <1>3, CopiedExists
<1>5. Copied(g0, N, img, i, f, n)
  BY <1>4, Zenon
<1> HIDE DEF g0
<1>6. g0 = [k \in 0..N |-> IF k = 0 THEN img ELSE file_block(g0[k - 1], i, f, n, k)]
  BY <1>5 DEF Copied
<1>7. g0[0] = img /\ \A k \in 1..N : g0[k] = file_block(g0[k - 1], i, f, n, k)
  BY <1>3, <1>6
<1> DEFINE T == {j \in 0..N : ~ Copying(img, i, g0[j], j)}
<1>8. Copying(img, i, g0[0], 0)
  BY <1>7 DEF Copying
<1>9. ASSUME NEW j \in 1..N, Copying(img, i, g0[j - 1], j - 1) PROVE Copying(img, i, g0[j], j)
  <2> DEFINE k == j - 1
  <2>1. k \in Nat /\ k < NDIRECT + BLKSIZE /\ k + 1 = j
    BY <1>1, <1>3, Sizes
  <2> HIDE DEF k
  <2>2. Copying(img, i, g0[k], k)
    BY <1>9 DEF k
  <2>3. Copying(img, i, file_block(g0[k], i, f, n, k + 1), k + 1)
    BY <1>1, <2>1, <2>2, CopyingNext
  <2>4. g0[j] = file_block(g0[k], i, f, n, j)
    BY <1>7 DEF k
  <2>5. QED
    BY <2>1, <2>3, <2>4
<1>10. T = {}
  <2>1. SUFFICES ASSUME T # {} PROVE FALSE
    BY <2>1
  <2>2. PICK j \in T : \A l \in T : j <= l
    <3>1. T \in SUBSET Nat
      OBVIOUS
    <3>2. QED
      BY <2>1, <3>1, LeastNumber
  <2>3. j \in 0..N /\ ~ Copying(img, i, g0[j], j)
    OBVIOUS
  <2>4. j # 0
    BY <1>8, <2>3
  <2>5. j \in 1..N /\ j - 1 \in 0..N /\ ~ (j <= j - 1)
    <3> HIDE DEF T
    <3>1. QED
      BY <1>3, <2>3, <2>4
  <2>6. j - 1 \notin T
    <3> HIDE DEF T
    <3>1. QED
      BY <2>2, <2>5
  <2>7. Copying(img, i, g0[j - 1], j - 1)
    BY <2>5, <2>6
  <2>8. QED
    BY <1>9, <2>3, <2>5, <2>7
<1>11. N \in 0..N
  BY <1>3
<1>12. Copying(img, i, g0[N], N)
  BY <1>10, <1>11
<1>13. QED
  BY <1>2, <1>12 DEF N

(* A new inode names no blocks; its own comes from those not handed out.   *)
LEMMA NewInodeRefs ==
  ASSUME NEW type \in {"dir", "file"}, NEW blk
  PROVE  /\ NewInode(type) \in Dins /\ NewInode(type).blocks = 0
         /\ \A p \in Places : Refs(NewInode(type), blk)[p] = 0
         /\ Fill(NewInode(type), blk)
<1> DEFINE d == NewInode(type)
           dir == [k \in 0..(NDIRECT - 1) |-> 0]
<1>1. d = [size |-> 0, type |-> type, nlinks |-> 0, blocks |-> 0, direct |-> dir, indirect |-> 0]
  BY DEF NewInode
<1>2. dir \in [0..(NDIRECT - 1) -> Nat] /\ 0 \in 0..(NDIRECT + BLKSIZE)
  BY Sizes
<1> HIDE DEF d
<1>3. d.blocks = 0 /\ d.direct = dir /\ d.indirect = 0
  BY <1>1
<1>4. d \in Dins
  <2> HIDE DEF dir
  <2>1. QED
    BY <1>1, <1>2 DEF Dins
<1>5. \A k \in 0..(NDIRECT - 1) : d.direct[k] = 0
  BY <1>3
<1>6. ASSUME NEW p \in Places PROVE Refs(d, blk)[p] = 0
  <2>1. p < NDIRECT => p \in 0..(NDIRECT - 1)
    BY Sizes DEF Places
  <2>2. QED
    BY <1>3, <1>5, <2>1 DEF Refs, RefAt
<1>7. ASSUME NEW k \in 0..(NDIRECT + BLKSIZE - 1) PROVE bmap(d, blk, k) = 0
  BY <1>6, BmapRef
<1>8. QED
  BY <1>3, <1>4, <1>6, <1>7 DEF Fill, d

LEMMA SoundAdded ==
  ASSUME NEW D, NEW blk, NEW free, Sound(D, blk, free), NEW i \in free, NEW E,
         DOMAIN E = DOMAIN D \cup {i}, E[i] \in Dins, \A p \in Places : Refs(E[i], blk)[p] = 0,
         E = [j \in DOMAIN E |-> E[j]], \A j \in DOMAIN D : E[j] = D[j], NEW free2, free2 = free \ {i}
  PROVE  Sound(E, blk, free2) /\ i \notin DOMAIN D /\ i # 1
<1> DEFINE I == DOMAIN D
           J == DOMAIN E
           u == [j \in I |-> Refs(D[j], blk)]
           v == [j \in J |-> Refs(E[j], blk)]
<1>1. /\ I \subseteq Blocks /\ 0 \notin I /\ 2 \notin I /\ 1 \in I
      /\ D \in [I -> Dins] /\ blk \in Disk /\ free \subseteq Blocks /\ free \cap Fixed(I) = {}
      /\ \A j \in I : \A p \in Places : u[j][p] # 0 => u[j][p] \in Blocks \ (free \cup Fixed(I))
      /\ \A j, l \in I : \A p, q \in Places : u[j][p] = u[l][q] /\ u[j][p] # 0 => j = l /\ p = q
      /\ \A b \in Blocks : b \in free \cup Fixed(I) \/ \E j \in I : \E p \in Places : u[j][p] = b
  BY DEF Sound
<1>2. i \notin I /\ i # 0 /\ i # 1 /\ i # 2 /\ i \in Blocks
  BY <1>1 DEF Fixed, BLKN_SUPER, BLKN_FREEMAP
<1>3. Fixed(J) = Fixed(I) \cup {i}
  BY DEF Fixed
<1>4. \A j \in I : v[j] = u[j]
  OBVIOUS
<1>5. \A p \in Places : v[i][p] = 0
  OBVIOUS
<1>6. \A j \in J : v[j] = Refs(E[j], blk)
  OBVIOUS
<1>7. J = I \cup {i}
  OBVIOUS
<1>8. E \in [J -> Dins]
  <2>1. \A j \in J : E[j] \in Dins
    BY <1>1, <1>7
  <2>2. QED
    BY <2>1
<1> HIDE DEF I, J, u, v
<1>9. J \subseteq Blocks /\ 0 \notin J /\ 2 \notin J /\ 1 \in J
  BY <1>1, <1>2, <1>7
<1>10. free2 \subseteq Blocks /\ free2 \cap Fixed(J) = {} /\ free2 \cup Fixed(J) = free \cup Fixed(I)
  BY <1>1, <1>3
<1>11. \A j \in J : \A p \in Places : v[j][p] # 0 => j \in I /\ v[j][p] = u[j][p]
  BY <1>4, <1>5, <1>7
<1>12. \A j \in J : \A p \in Places : v[j][p] # 0 => v[j][p] \in Blocks \ (free2 \cup Fixed(J))
  BY <1>1, <1>10, <1>11
<1>13. ASSUME NEW j \in J, NEW l \in J, NEW p \in Places, NEW q \in Places, v[j][p] = v[l][q], v[j][p] # 0
       PROVE  j = l /\ p = q
  BY <1>1, <1>11, <1>13
<1>14. ASSUME NEW b \in Blocks, b \notin free2 \cup Fixed(J) PROVE \E j \in J : \E p \in Places : v[j][p] = b
  <2>1. PICK j \in I, p \in Places : u[j][p] = b
    BY <1>1, <1>10, <1>14
  <2>2. j \in J /\ v[j][p] = b
    BY <1>4, <1>7, <2>1
  <2>3. QED
    BY <2>2
<1>15. Sound(E, blk, free2)
  <2>1. \A j \in J : \A p \in Places : Refs(E[j], blk)[p] # 0 => Refs(E[j], blk)[p] \in Blocks \ (free2 \cup Fixed(J))
    BY <1>6, <1>12
  <2>2. \A j, l \in J : \A p, q \in Places :
           Refs(E[j], blk)[p] = Refs(E[l], blk)[q] /\ Refs(E[j], blk)[p] # 0 => j = l /\ p = q
    BY <1>6, <1>13
  <2>3. \A b \in Blocks : b \in free2 \cup Fixed(J) \/ \E j \in J : \E p \in Places : Refs(E[j], blk)[p] = b
    BY <1>6, <1>14
  <2>4. QED
    BY <1>1, <1>8, <1>9, <1>10, <2>1, <2>2, <2>3 DEF Sound, J
<1>16. QED
  BY <1>2, <1>15 DEF I

WithNew(inode, i, type) == [j \in DOMAIN inode \cup {i} |-> IF j = i THEN NewInode(type) ELSE inode[j]]

LEMMA AddedParts ==
  ASSUME NEW d, WellShaped(d), NEW i, NEW type, NEW img, img = [next |-> i, disk |-> d], i \in Nat,
         NEW new, new = inode_added(img, i, type)
  PROVE  /\ new.next = i + 1 /\ WellShaped(new.disk)
         /\ new.disk = DiskOf(d.super, d.freemap, new.disk.inode, d.blk) /\ new.disk.blk = d.blk
         /\ new.disk.inode = WithNew(d.inode, i, type)
<1> DEFINE s == d.super
           m == d.freemap
           n == d.inode
           b == d.blk
           k == WithNew(n, i, type)
           f == [super |-> s, freemap |-> m, inode |-> n, blk |-> b]
<1>1. d = f
  BY DEF WellShaped, DiskOf
<1>2. img.next = i /\ img.disk = d
  OBVIOUS
<1>3. new.next = i + 1 /\ new.disk = [d EXCEPT !.inode = k]
  BY <1>2 DEF inode_added, WithNew
<1> HIDE DEF s, m, n, b, k
<1>4. [f EXCEPT !.inode = k] = [super |-> s, freemap |-> m, inode |-> k, blk |-> b]
  OBVIOUS
<1> HIDE DEF f
<1>5. new.disk = DiskOf(s, m, k, b)
  BY <1>1, <1>3, <1>4 DEF DiskOf
<1>6. new.disk.super = s /\ new.disk.freemap = m /\ new.disk.inode = k /\ new.disk.blk = b
  BY <1>5, DiskParts
<1>7. WellShaped(new.disk)
  BY <1>5, ShapeAfter
<1>8. QED
  BY <1>3, <1>5, <1>6, <1>7 DEF s, m, n, b, k

LEMMA AddedStep ==
  ASSUME NEW d, IsDisk(d), NEW i, NEW img, img = [next |-> i, disk |-> d], GoodImage(img), i < NBLKS,
         NEW new, new = inode_added(img, i, "file")
  PROVE  /\ Filled(new, i, new, 0) /\ i # 1 /\ i # 0 /\ i \in DOMAIN new.disk.inode
         /\ DOMAIN d.inode \subseteq DOMAIN new.disk.inode /\ new.disk.inode[1] = d.inode[1]
         /\ new.disk.blk = d.blk
<1> DEFINE E == new.disk.inode
<1>1. img.next = i /\ img.disk = d
  OBVIOUS
<1>2. /\ i \in 3..NBLKS /\ Sound(d.inode, d.blk, Rest(i)) /\ \A b \in Rest(i) : d.blk[b] = ZeroBlock
      /\ \A j \in DOMAIN d.inode : Fill(d.inode[j], d.blk)
  BY <1>1 DEF GoodImage, Rest
<1>3. WellShaped(d) /\ i \in Nat
  BY <1>2, ShapeOfDisk
<1>4. /\ new.next = i + 1 /\ new.disk = DiskOf(d.super, d.freemap, E, d.blk) /\ new.disk.blk = d.blk
      /\ E = [j \in DOMAIN d.inode \cup {i} |-> IF j = i THEN NewInode("file") ELSE d.inode[j]]
  BY <1>3, AddedParts DEF WithNew
<1> HIDE DEF E
<1>5. DOMAIN E = DOMAIN d.inode \cup {i} /\ E[i] = NewInode("file") /\ E = [j \in DOMAIN E |-> E[j]]
  BY <1>4
<1>6. i \in Rest(i) /\ Rest(i + 1) = Rest(i) \ {i}
  BY <1>2, Sizes DEF Rest
<1>7. i \notin DOMAIN d.inode
  BY <1>2, <1>6 DEF Sound, Fixed
<1>8. \A j \in DOMAIN d.inode : E[j] = d.inode[j]
  BY <1>4, <1>7
<1>9. /\ NewInode("file") \in Dins /\ NewInode("file").blocks = 0
      /\ \A p \in Places : Refs(NewInode("file"), d.blk)[p] = 0
      /\ Fill(NewInode("file"), d.blk)
  BY NewInodeRefs
<1>10. Sound(E, d.blk, Rest(i + 1)) /\ i # 1
  BY <1>2, <1>5, <1>6, <1>8, <1>9, SoundAdded
<1>11. \A j \in DOMAIN E : Fill(E[j], d.blk)
  BY <1>2, <1>5, <1>8, <1>9
<1>12. new.next \in 3..NBLKS
  BY <1>2, <1>4, Sizes
<1>13. \A b \in Rest(i + 1) : d.blk[b] = ZeroBlock
  BY <1>2, <1>6
<1>14. GoodImage(new)
  BY <1>4, <1>10, <1>11, <1>12, <1>13 DEF GoodImage, Rest, E
<1>15. IsDisk(new.disk)
  <2>1. E \in [DOMAIN E -> Dins] /\ DOMAIN E \subseteq Blocks /\ d.blk \in Disk
    BY <1>10 DEF Sound
  <2>2. QED
    BY <1>4, <2>1, DiskOfType
<1>16. 1 \in DOMAIN d.inode
  BY <1>2 DEF Sound
<1>17. Filled(new, i, new, 0)
  BY <1>5, <1>9, <1>14, <1>15 DEF Filled, SameDir, E
<1>18. QED
  BY <1>2, <1>4, <1>5, <1>8, <1>10, <1>16, <1>17 DEF E

LEMMA CountMade ==
  ASSUME NEW S \in SUBSET Files, NEW f \in Files, f \notin S
  PROVE  /\ Cardinality(S \cup {f}) = Cardinality(S) + 1 /\ Cardinality(S) \in Nat
         /\ Cardinality(S) + 2 < NDIRECT + BLKSIZE
<1>1. IsFiniteSet(Files) /\ Cardinality(Files) + 2 <= NDIRECT + BLKSIZE
  BY SfsAssumption
<1>2. IsFiniteSet(S) /\ IsFiniteSet(S \cup {f}) /\ S \cup {f} \subseteq Files
  BY <1>1, FS_Subset
<1>3. Cardinality(S \cup {f}) = Cardinality(S) + 1
  BY <1>2, FS_AddElement
<1>4. Cardinality(S) \in Nat /\ Cardinality(Files) \in Nat
  BY <1>1, <1>2, FS_CardinalityType
<1>5. Cardinality(S \cup {f}) <= Cardinality(Files)
  BY <1>1, <1>2, FS_Subset
<1>6. QED
  BY <1>1, <1>3, <1>4, <1>5, Sizes

LEMMA AddFileStep ==
  ASSUME SfsInv, NEW f \in Files, add_file(f)
  PROVE  SfsInv'
<1>1. PICK n \in MkSizes :
         LET i    == next_ino
             new  == inode_added([next |-> i, disk |-> disk], i, "file")
             img  == add_entry(open_file(new, i, f, n), BLKN_ROOT, i, f)
         IN  img.next <= NBLKS /\ next_ino' = img.next /\ disk' = img.disk
  BY DEF add_file
<1> DEFINE i == next_ino
           old == [next |-> i, disk |-> disk]
           new == inode_added(old, i, "file")
           x == open_file(new, i, f, n)
           img == add_entry(x, 1, i, f)
           N == RoundUpDiv(n, BLKSIZE)
<1>2. /\ img.next <= NBLKS /\ next_ino' = img.next /\ disk' = img.disk
      /\ phase = "mksfs" /\ f \notin made /\ made' = made \cup {f}
      /\ phase' = phase /\ fs' = fs /\ sin' = sin /\ fd' = fd
  BY <1>1 DEF add_file, BLKN_ROOT
<1>3. /\ GoodImage(old) /\ disk.inode[1].blocks = Cardinality(made) + 2
      /\ IsDisk(disk) /\ i \in Nat /\ made \subseteq Files /\ DirOK(disk.inode, disk.blk, made)
      /\ DOMAIN sin = {} /\ \A h \in Handles : fd[h] = Closed
  BY <1>2 DEF SfsInv, MakingInv, TypeInv, DirInv, IdleInv, BLKN_ROOT
<1>4. f \in Nat /\ f \in Int
  BY SfsAssumption
<1>5. old = [next |-> i, disk |-> disk] /\ new = inode_added(old, i, "file")
  OBVIOUS
<1> HIDE DEF old, new, x, img, N
<1>6. WellShaped(disk)
  BY <1>3, ShapeOfDisk
<1>7. /\ new.next = i + 1 /\ WellShaped(new.disk) /\ i \in DOMAIN new.disk.inode
  <2>1. /\ new.next = i + 1 /\ WellShaped(new.disk)
        /\ new.disk.inode = WithNew(disk.inode, i, "file")
    BY <1>3, <1>5, <1>6, AddedParts
  <2>2. QED
    BY <2>1 DEF WithNew
<1>8. i < NBLKS => /\ Filled(new, i, new, 0) /\ i # 1 /\ i # 0
                   /\ DOMAIN disk.inode \subseteq DOMAIN new.disk.inode /\ new.disk.inode[1] = disk.inode[1]
                   /\ new.disk.blk = disk.blk
  BY <1>3, <1>5, AddedStep
<1>9. i # 1
  <2>1. old.next \in 3..NBLKS /\ old.next = i
    BY <1>3, <1>5 DEF GoodImage
  <2>2. QED
    BY <2>1
<1>10. Copying(new, i, x, N)
  <2>1. new.next <= NBLKS => Filled(new, i, new, 0)
    BY <1>3, <1>7, <1>8, Sizes
  <2>2. new.next \in Nat /\ i \in DOMAIN new.disk.inode \ {1}
    BY <1>3, <1>7, <1>9
  <2>3. Copying(new, i, open_file(new, i, f, n), RoundUpDiv(n, BLKSIZE))
    BY <1>4, <1>7, <2>1, <2>2, OpenFileStep
  <2>4. QED
    BY <2>3 DEF x, N
<1>11. WellShaped(x.disk) /\ x.next \in Nat /\ new.next <= x.next /\ (x.next <= NBLKS => Filled(new, i, x, N))
  BY <1>10 DEF Copying
<1>12. img.next \in {x.next + 1, x.next + 2}
  BY <1>11, AddEntryNext DEF img
<1>13. x.next <= NBLKS /\ i < NBLKS
  BY <1>2, <1>3, <1>7, <1>11, <1>12, Sizes
<1>14. /\ GoodImage(x) /\ IsDisk(x.disk) /\ DOMAIN x.disk.inode = DOMAIN new.disk.inode
       /\ x.disk.inode[1] = new.disk.inode[1]
       /\ SameDir(new.disk.inode, new.disk.blk, x.disk.inode, x.disk.blk)
  BY <1>11, <1>13 DEF Filled
<1>15. /\ i # 0 /\ DOMAIN disk.inode \subseteq DOMAIN x.disk.inode /\ x.disk.inode[1] = disk.inode[1]
       /\ new.disk.blk = disk.blk /\ new.disk.inode[1] = disk.inode[1] /\ i \in DOMAIN x.disk.inode
  BY <1>7, <1>8, <1>13, <1>14
<1>16. 1 \in DOMAIN x.disk.inode
  BY <1>14 DEF GoodImage, Sound
<1>17. /\ Cardinality(made') = Cardinality(made) + 1 /\ Cardinality(made) \in Nat
       /\ Cardinality(made) + 2 < NDIRECT + BLKSIZE
  BY <1>2, <1>3, CountMade
<1>18. Entered(x, 1, EntryWords(i, f), img)
  BY <1>2, <1>3, <1>4, <1>14, <1>15, <1>16, <1>17, AddEntryStep DEF img
<1>19. EntryWords(i, f)[0] = i /\ EntryWords(i, f)[1] = f
  BY <1>3, <1>4, EntryWordsAt
<1> DEFINE c == Cardinality(made) + 2
<1>20. /\ GoodImage(img) /\ IsDisk(img.disk) /\ DOMAIN img.disk.inode = DOMAIN x.disk.inode
       /\ img.disk.inode[1].blocks = c + 1
       /\ SlotOf(img.disk, 1, c)[0] = i /\ SlotOf(img.disk, 1, c)[1] = f
       /\ \A k \in 0..(c - 1) : SlotOf(img.disk, 1, k) = SlotOf(x.disk, 1, k)
  BY <1>3, <1>15, <1>18, <1>19 DEF Entered
<1>21. \A k \in 0..(c - 1) : SlotOf(x.disk, 1, k) = EntryAt(disk.inode, disk.blk, k)
  BY <1>3, <1>14, <1>15 DEF SameDir, EntryAt, SlotOf, Slots, BLKN_ROOT
<1>22. \A k : EntryAt(img.disk.inode, img.disk.blk, k) = SlotOf(img.disk, 1, k)
  BY DEF EntryAt, SlotOf, BLKN_ROOT
<1>23. DirOK(img.disk.inode, img.disk.blk, made')
  <2>1. Slots(disk.inode) = 0..(c - 1) /\ Slots(img.disk.inode) = 0..c /\ c \in Nat
    BY <1>3, <1>17, <1>20 DEF Slots, BLKN_ROOT
  <2> DEFINE At(k) == EntryAt(img.disk.inode, img.disk.blk, k)
  <2>2. At(c)[0] = i /\ At(c)[1] = f /\ \A k \in 0..(c - 1) : At(k) = EntryAt(disk.inode, disk.blk, k)
    BY <1>20, <1>21, <1>22
  <2>3. /\ \A g \in made : \E k \in 0..(c - 1) :
              EntryAt(disk.inode, disk.blk, k)[0] # 0 /\ EntryAt(disk.inode, disk.blk, k)[1] = g
        /\ \A k \in 0..(c - 1) : /\ EntryAt(disk.inode, disk.blk, k)[0] # 0
                                 /\ EntryAt(disk.inode, disk.blk, k)[1] \in Files
              => EntryAt(disk.inode, disk.blk, k)[0] \in DOMAIN disk.inode \ {1}
    BY <1>3, <2>1 DEF DirOK, BLKN_ROOT
  <2> HIDE DEF At, c
  <2>4. c \in 0..c /\ (\A k \in 0..(c - 1) : k \in 0..c) /\ (\A k \in 0..c : k # c => k \in 0..(c - 1))
    BY <2>1
  <2>5. \A g \in made' : \E k \in 0..c : At(k)[0] # 0 /\ At(k)[1] = g
    <3>1. ASSUME NEW g \in made PROVE \E k \in 0..c : At(k)[0] # 0 /\ At(k)[1] = g
      BY <2>2, <2>3, <2>4
    <3>2. \E k \in 0..c : At(k)[0] # 0 /\ At(k)[1] = f
      BY <1>15, <2>2, <2>4
    <3>3. QED
      BY <1>2, <3>1, <3>2
  <2>6. \A k \in 0..c : At(k)[0] # 0 /\ At(k)[1] \in Files => At(k)[0] \in DOMAIN img.disk.inode \ {1}
    <3>1. ASSUME NEW k \in 0..(c - 1), At(k)[0] # 0, At(k)[1] \in Files
          PROVE  At(k)[0] \in DOMAIN img.disk.inode \ {1}
      BY <1>15, <1>20, <2>2, <2>3, <3>1
    <3>2. At(c)[0] \in DOMAIN img.disk.inode \ {1}
      BY <1>9, <1>15, <1>20, <2>2
    <3>3. QED
      BY <2>4, <3>1, <3>2
  <2>7. QED
    BY <2>1, <2>5, <2>6 DEF DirOK, BLKN_ROOT, At
<1>24. TypeInv'
  <2>1. FdType'
    BY <1>2 DEF SfsInv, TypeInv, FdType
  <2>2. DOMAIN sin' \subseteq DOMAIN disk'.inode /\ sin' \in [DOMAIN sin' -> Nodes]
    BY <1>2, <1>3 DEF SfsInv, TypeInv
  <2>3. next_ino' \in Nat
    BY <1>2, <1>11, <1>12
  <2>4. QED
    BY <1>2, <1>3, <1>20, <2>1, <2>2, <2>3 DEF SfsInv, TypeInv
<1>25. MakingInv'
  <2>1. GoodImage([next |-> next_ino', disk |-> disk'])
    BY <1>2, <1>20 DEF GoodImage
  <2>2. disk'.inode[1].blocks = Cardinality(made') + 2
    BY <1>2, <1>17, <1>20
  <2>3. QED
    BY <2>1, <2>2 DEF MakingInv, BLKN_ROOT
<1>26. DirInv'
  BY <1>2, <1>23 DEF DirInv
<1>27. IdleInv' /\ CleanInv'
  BY <1>2, <1>3 DEF IdleInv, CleanInv
<1>28. QED
  BY <1>2, <1>24, <1>25, <1>26, <1>27 DEF SfsInv, UnmountedInv, MountedInv, HandlesInv

Counted(d, free, n) == [d EXCEPT !.freemap = free, !.super.unused = n]
Count(s, n) == [s EXCEPT !.unused = n]

LEMMA CountedParts ==
  ASSUME NEW d, NEW free, NEW n
  PROVE  [d EXCEPT !.freemap = free, !.super.unused = n]
           = [[d EXCEPT !.freemap = free] EXCEPT !.super = [d.super EXCEPT !.unused = n]]
  OBVIOUS

LEMMA CountedDisk ==
  ASSUME NEW d, WellShaped(d), NEW free, NEW n
  PROVE  Counted(d, free, n) = DiskOf(Count(d.super, n), free, d.inode, d.blk)
<1> DEFINE s == d.super
           m == d.freemap
           i == d.inode
           b == d.blk
           z == Count(s, n)
           f == [super |-> s, freemap |-> m, inode |-> i, blk |-> b]
           g == [super |-> s, freemap |-> free, inode |-> i, blk |-> b]
<1>1. d = f
  BY DEF WellShaped, DiskOf
<1>2. [d.super EXCEPT !.unused = n] = z
  BY DEF Count
<1> HIDE DEF s, m, i, b, z
<1>3. [f EXCEPT !.freemap = free] = g
  OBVIOUS
<1>4. [g EXCEPT !.super = z] = [super |-> z, freemap |-> free, inode |-> i, blk |-> b]
  OBVIOUS
<1> HIDE DEF f, g
<1>5. Counted(d, free, n) = [[d EXCEPT !.freemap = free] EXCEPT !.super = [d.super EXCEPT !.unused = n]]
  BY CountedParts, Zenon DEF Counted
<1>6. Counted(d, free, n) = [super |-> z, freemap |-> free, inode |-> i, blk |-> b]
  BY <1>1, <1>2, <1>3, <1>4, <1>5
<1>7. QED
  BY <1>6 DEF DiskOf, s, i, b, z

LEMMA CloseSfsStep ==
  ASSUME SfsInv, close_sfs
  PROVE  SfsInv'
<1> DEFINE free == next_ino..(NBLKS - 1)
           n == NBLKS - next_ino
           e == Counted(disk, free, n)
<1>1. /\ phase = "mksfs" /\ made = Files /\ disk' = e /\ phase' = "unmounted"
      /\ made' = made /\ next_ino' = next_ino /\ fs' = fs /\ sin' = sin /\ fd' = fd
  BY DEF close_sfs, Counted
<1>2. /\ GoodImage([next |-> next_ino, disk |-> disk]) /\ IsDisk(disk) /\ DirOK(disk.inode, disk.blk, made)
      /\ DOMAIN sin = {} /\ \A h \in Handles : fd[h] = Closed
  BY <1>1 DEF SfsInv, MakingInv, TypeInv, DirInv, IdleInv
<1>3. next_ino \in 3..NBLKS /\ Sound(disk.inode, disk.blk, free)
  BY <1>2 DEF GoodImage
<1>4. free \subseteq Blocks
  BY <1>3 DEF Sound
<1>5. n = Cardinality(free) /\ n \in Int
  <2>1. next_ino \in Int /\ NBLKS - 1 \in Int /\ NBLKS \in Nat
    BY <1>3, Sizes
  <2>2. Cardinality(next_ino..(NBLKS - 1)) = IF next_ino > NBLKS - 1 THEN 0 ELSE (NBLKS - 1) - next_ino + 1
    BY <2>1, FS_Interval
  <2>3. QED
    BY <1>3, <2>1, <2>2
<1>6. e = DiskOf(Count(disk.super, n), free, disk.inode, disk.blk)
  BY <1>2, ShapeOfDisk, CountedDisk
<1>7. Count(disk.super, n) \in [blocks : Int, unused : Int] /\ Count(disk.super, n).unused = n
  <2>1. disk.super \in [blocks : Int, unused : Int]
    BY <1>2 DEF IsDisk
  <2> HIDE DEF n
  <2>2. QED
    BY <1>5, <2>1 DEF Count
<1> HIDE DEF free, n, e
<1>8. /\ e.super = Count(disk.super, n) /\ e.freemap = free /\ e.inode = disk.inode /\ e.blk = disk.blk
      /\ WellShaped(e)
  BY <1>6, DiskParts, ShapeAfter
<1>9. IsDisk(e)
  BY <1>2, <1>4, <1>7, <1>8 DEF IsDisk, WellShaped, DiskOf
<1>10. FdType'
  BY <1>1 DEF SfsInv, TypeInv, FdType
<1>11. TypeInv'
  BY <1>1, <1>8, <1>9, <1>10 DEF SfsInv, TypeInv
<1>12. UnmountedInv'
  BY <1>1, <1>3, <1>5, <1>7, <1>8 DEF UnmountedInv
<1>13. DirInv'
  BY <1>1, <1>2, <1>8 DEF DirInv
<1>14. IdleInv' /\ CleanInv'
  BY <1>1, <1>2 DEF IdleInv, CleanInv
<1>15. QED
  BY <1>1, <1>11, <1>12, <1>13, <1>14 DEF SfsInv, MakingInv, MountedInv, HandlesInv

(* An image with nothing but the root's inode.                             *)
LEMMA EmptyDisk ==
  ASSUME NEW img,
         img = [next |-> BLKN_FREEMAP + 1,
                disk |-> [super |-> [blocks |-> NBLKS, unused |-> 0], freemap |-> {},
                          inode |-> [i \in {BLKN_ROOT} |-> NewInode("dir")],
                          blk |-> [b \in Blocks |-> ZeroBlock]]]
  PROVE  /\ GoodImage(img) /\ IsDisk(img.disk) /\ img.next = 3
         /\ DOMAIN img.disk.inode = {1} /\ img.disk.inode[1].blocks = 0
<1> DEFINE n == [i \in {1} |-> NewInode("dir")]
           k == [b \in Blocks |-> ZeroBlock]
           s == [blocks |-> NBLKS, unused |-> 0]
<1>1. img.next = 3 /\ img.disk = [super |-> s, freemap |-> {}, inode |-> n, blk |-> k]
  BY DEF BLKN_FREEMAP, BLKN_ROOT
<1>2. /\ NewInode("dir") \in Dins /\ NewInode("dir").blocks = 0
      /\ \A p \in Places : Refs(NewInode("dir"), k)[p] = 0
      /\ Fill(NewInode("dir"), k)
  BY NewInodeRefs
<1>3. DOMAIN n = {1} /\ n[1] = NewInode("dir") /\ n \in [DOMAIN n -> Dins]
  BY <1>2
<1>4. k \in Disk /\ \A b \in Blocks : k[b] = ZeroBlock
  BY ZeroWords DEF Disk
<1>5. s \in [blocks : Int, unused : Int]
  BY Sizes
<1> HIDE DEF n, k, s
<1>6. img.disk.super = s /\ img.disk.freemap = {} /\ img.disk.inode = n /\ img.disk.blk = k
  BY <1>1
<1>7. IsDisk(img.disk)
  BY <1>1, <1>3, <1>4, <1>5, <1>6, Sizes DEF IsDisk
<1>8. Sound(n, k, Rest(3))
  <2>1. Fixed({1}) = {0, 1, 2}
    BY DEF Fixed, BLKN_SUPER, BLKN_FREEMAP
  <2>2. \A j \in DOMAIN n : \A p \in Places : Refs(n[j], k)[p] = 0
    BY <1>2, <1>3
  <2>3. Rest(3) \subseteq Blocks /\ Rest(3) \cap {0, 1, 2} = {} /\ \A b \in Blocks : b \in Rest(3) \cup {0, 1, 2}
    BY Sizes DEF Rest, Blocks
  <2>4. QED
    BY <1>3, <1>4, <2>1, <2>2, <2>3, Sizes DEF Sound
<1>9. \A b \in Rest(3) : k[b] = ZeroBlock
  BY <1>4, <1>8 DEF Sound
<1>10. 3 \in 3..NBLKS
  BY Sizes
<1>11. GoodImage(img)
  BY <1>1, <1>2, <1>3, <1>6, <1>8, <1>9, <1>10 DEF GoodImage, Rest
<1>12. QED
  BY <1>1, <1>2, <1>3, <1>6, <1>7, <1>11

LEMMA EmptyImageStep ==
  LET e == EmptyImage
  IN  /\ GoodImage(e) /\ IsDisk(e.disk) /\ e.disk.inode[1].blocks = 2 /\ DirOK(e.disk.inode, e.disk.blk, {})
<1> DEFINE img == [next |-> BLKN_FREEMAP + 1,
                disk |-> [super |-> [blocks |-> NBLKS, unused |-> 0], freemap |-> {},
                          inode |-> [i \in {BLKN_ROOT} |-> NewInode("dir")],
                          blk |-> [b \in Blocks |-> ZeroBlock]]]
           e1 == add_entry(img, 1, 1, Dot)
           e2 == add_entry(e1, 1, 1, DotDot)
           w1 == EntryWords(1, Dot)
           w2 == EntryWords(1, DotDot)
<1>1. EmptyImage = e2
  BY DEF EmptyImage, BLKN_ROOT
<1>2. /\ GoodImage(img) /\ IsDisk(img.disk) /\ img.next = 3
      /\ DOMAIN img.disk.inode = {1} /\ img.disk.inode[1].blocks = 0
  BY EmptyDisk
<1>3. Dot \in Int /\ DotDot \in Int /\ 1 \in Int
  BY DEF Dot, DotDot
<1>4. w1[1] = Dot /\ w2[1] = DotDot
  BY <1>3, EntryWordsAt
<1> HIDE DEF img
<1>5. e1.next \in {4, 5}
  BY <1>2, ShapeOfDisk, AddEntryNext
<1>6. Entered(img, 1, w1, e1)
  <2>1. 0 < NDIRECT + BLKSIZE /\ e1.next <= NBLKS /\ 1 \in DOMAIN img.disk.inode
    BY <1>2, <1>5, Sizes
  <2>2. QED
    BY <1>2, <1>3, <2>1, AddEntryStep
<1> HIDE DEF e1, w1, w2
<1>7. /\ GoodImage(e1) /\ IsDisk(e1.disk) /\ DOMAIN e1.disk.inode = {1} /\ e1.disk.inode[1].blocks = 1
      /\ SlotOf(e1.disk, 1, 0) = w1 /\ e1.next = 4
  BY <1>2, <1>6, Sizes DEF Entered
<1>8. e2.next \in {5, 6}
  BY <1>7, ShapeOfDisk, AddEntryNext
<1>9. Entered(e1, 1, w2, e2)
  <2>1. 1 < NDIRECT + BLKSIZE /\ e2.next <= NBLKS /\ 1 \in DOMAIN e1.disk.inode
    BY <1>7, <1>8, Sizes
  <2>2. Entered(e1, 1, EntryWords(1, DotDot), add_entry(e1, 1, 1, DotDot))
    BY <1>3, <1>7, <2>1, AddEntryStep
  <2>3. QED
    BY <2>2 DEF w2
<1> HIDE DEF e2
<1>10. /\ GoodImage(e2) /\ IsDisk(e2.disk) /\ e2.disk.inode[1].blocks = 2
       /\ SlotOf(e2.disk, 1, 0) = w1 /\ SlotOf(e2.disk, 1, 1) = w2
  BY <1>7, <1>9 DEF Entered
<1>11. DirOK(e2.disk.inode, e2.disk.blk, {})
  <2>1. Slots(e2.disk.inode) = {0, 1}
    BY <1>10 DEF Slots, BLKN_ROOT
  <2>2. /\ EntryAt(e2.disk.inode, e2.disk.blk, 0) = w1 /\ EntryAt(e2.disk.inode, e2.disk.blk, 1) = w2
    BY <1>10 DEF EntryAt, SlotOf, BLKN_ROOT
  <2>3. Dot \notin Files /\ DotDot \notin Files
    BY SfsAssumption DEF Dot, DotDot
  <2>4. QED
    BY <1>4, <2>1, <2>2, <2>3 DEF DirOK
<1>12. QED
  BY <1>1, <1>10, <1>11

LEMMA SfsInvInit ==
  ASSUME Init PROVE SfsInv
<1> DEFINE e == EmptyImage
<1>1. /\ GoodImage(e) /\ IsDisk(e.disk) /\ e.disk.inode[1].blocks = 2 /\ DirOK(e.disk.inode, e.disk.blk, {})
  BY EmptyImageStep
<1>2. /\ phase = "mksfs" /\ next_ino = e.next /\ made = {} /\ disk = e.disk
      /\ fs = [freemap |-> {}, unused |-> 0, super_dirty |-> FALSE] /\ sin = <<>>
      /\ fd = [h \in Handles |-> Closed]
  BY DEF Init, Empty
<1> HIDE DEF e
<1>3. DOMAIN sin = {} /\ sin \in [DOMAIN sin -> Nodes]
  BY <1>2
<1>4. FdType
  BY <1>2 DEF FdType, Closed
<1>5. fs \in [freemap : SUBSET Blocks, unused : Int, super_dirty : BOOLEAN]
  BY <1>2
<1>6. next_ino \in Nat
  BY <1>1, <1>2, Sizes DEF GoodImage
<1>7. TypeInv
  BY <1>1, <1>2, <1>3, <1>4, <1>5, <1>6 DEF TypeInv
<1>8. MakingInv
  <2>1. GoodImage([next |-> next_ino, disk |-> disk])
    BY <1>1, <1>2 DEF GoodImage
  <2>2. Cardinality(made) = 0
    BY <1>2, FS_EmptySet
  <2>3. QED
    BY <1>1, <1>2, <2>1, <2>2 DEF MakingInv, BLKN_ROOT
<1>9. DirInv
  BY <1>1, <1>2 DEF DirInv
<1>10. IdleInv /\ CleanInv
  BY <1>2, <1>3 DEF IdleInv, CleanInv
<1>11. QED
  BY <1>2, <1>7, <1>8, <1>9, <1>10 DEF SfsInv, UnmountedInv, MountedInv, HandlesInv

-----------------------------------------------------------------------------
(* The invariant of the specification.                                     *)

LEMMA SfsInvStep ==
  ASSUME SfsInv, [Next]_vars
  PROVE  SfsInv'
<1>1. ASSUME NEW f \in Files, add_file(f) PROVE SfsInv'
  BY <1>1, AddFileStep
<1>2. CASE close_sfs
  BY <1>2, CloseSfsStep
<1>3. CASE Mount
  BY <1>3, MountStep
<1>4. CASE Unmount
  BY <1>4, UnmountStep
<1>5. CASE SetBootfs
  BY <1>5, SetBootfsStep
<1>6. CASE Cleanup
  BY <1>6, CleanupStep
<1>7. ASSUME NEW h \in Handles, NEW f \in Files, NEW trunc \in BOOLEAN, NEW append \in BOOLEAN,
             Open(h, f, trunc, append)
      PROVE  SfsInv'
  BY <1>7, OpenStep
<1>8. ASSUME NEW h \in Handles, Close(h) PROVE SfsInv'
  BY <1>8, CloseStep
<1>9. ASSUME NEW h \in Handles, Fsync(h) PROVE SfsInv'
  BY <1>9, FsyncStep
<1>10. ASSUME NEW h \in Handles, Fstat(h) PROVE SfsInv'
  BY <1>10, SameStep DEF Fstat
<1>11. ASSUME NEW h \in Handles, NEW n \in IoSizes, Read(h, n) PROVE SfsInv'
  BY <1>11, TransferStep DEF Read
<1>12. ASSUME NEW h \in Handles, NEW n \in IoSizes, Write(h, n) PROVE SfsInv'
  BY <1>12, TransferStep DEF Write
<1>13. ASSUME NEW h \in Handles, NEW pos \in SeekTo, Seek(h, pos) PROVE SfsInv'
  BY <1>13, SeekStep
<1>14. ASSUME NEW k \in ListSlots, Getdirentry(k) PROVE SfsInv'
  BY <1>14, SameStep DEF Getdirentry
<1>15. CASE UNCHANGED vars
  BY <1>15, SameStep DEF vars, state
<1>16. QED
  BY <1>1, <1>2, <1>3, <1>4, <1>5, <1>6, <1>7, <1>8, <1>9, <1>10, <1>11, <1>12, <1>13, <1>14,
     <1>15 DEF Next

(* The inductive invariant of all of mksfs and of the kernel's simple file  *)
(* system (mksfs.c, sfs_fs.c, sfs_inode.c, sfs_io.c, bitmap.c): the image   *)
(* written, and then the blocks as the inodes in memory and the freemap in  *)
(* memory share them out, are sound after every call.                       *)
THEOREM SfsInvariant == Spec => []SfsInv
<1>1. Init => SfsInv
  BY SfsInvInit
<1>2. SfsInv /\ [Next]_vars => SfsInv'
  BY SfsInvStep
<1>3. QED
  BY <1>1, <1>2, PTL DEF Spec

(* Whatever is opened, grown, cut, closed and synced, an inode in memory    *)
(* that is not marked dirty is the one on the disk, where only its count of *)
(* blocks may be smaller (sfs_bmap_load_nolock), and so are the freemap and *)
(* the count of free blocks while super_dirty is not set: reclaiming an     *)
(* inode (sfs_reclaim) or unmounting (sfs_unmount) loses nothing else.      *)
THEOREM DirtyFlagsSound == Spec => []CleanIsSynced
<1>1. SfsInv => CleanIsSynced
  <2>1. SUFFICES ASSUME SfsInv PROVE CleanIsSynced
    OBVIOUS
  <2>2. ASSUME NEW i \in DOMAIN sin, ~ sin[i].dirty
        PROVE  /\ disk.inode[i] = [sin[i].din EXCEPT !.blocks = disk.inode[i].blocks]
               /\ disk.inode[i].blocks \in 0..sin[i].din.blocks
    <3>1. Same(sin[i].din, disk.inode[i])
      BY <2>1, <2>2 DEF SfsInv, CleanInv
    <3>2. sin[i].din \in Dins /\ disk.inode[i] \in Dins
      BY <2>1, <2>2 DEF SfsInv, TypeInv, IsDisk, Nodes
    <3>3. ASSUME NEW d \in Dins, NEW e \in Dins, Same(d, e)
          PROVE  e = [d EXCEPT !.blocks = e.blocks] /\ e.blocks \in 0..d.blocks
      BY <3>3 DEF Same, Dins
    <3>4. QED
      BY <3>1, <3>2, <3>3
  <2>3. phase = "mounted" /\ ~ fs.super_dirty => fs.freemap = disk.freemap /\ fs.unused = disk.super.unused
    BY <2>1 DEF SfsInv, MountedInv
  <2>4. QED
    BY <2>2, <2>3 DEF CleanIsSynced
<1>2. QED
  BY <1>1, SfsInvariant, PTL

-----------------------------------------------------------------------------
(* Block accounting, from the places of an inode to the set of its pointers. *)

\* the pointer at place q of inode i, if it names block b
NameOf(i, q, b) == IF q < NDIRECT THEN <<i, "direct", q, b>>
                   ELSE IF q = NDIRECT THEN <<i, "index", 0, b>>
                   ELSE <<i, "entry", q - NDIRECT - 1, b>>
Names4(i) == {<<i, p[1], p[2], p[3]>> : p \in Pointers(i)}
Named(i, x) == \E q \in Places : Refs(Din(i), disk.blk)[q] # 0 /\ x = NameOf(i, q, Refs(Din(i), disk.blk)[q])

LEMMA PointersNamed ==
  ASSUME SfsInv, NEW i \in DOMAIN disk.inode
  PROVE  \A x : x \in Names4(i) <=> Named(i, x)
<1> DEFINE din == Din(i)
           r == Refs(din, disk.blk)
           D == {<<"direct", k, din.direct[k]>> : k \in 0..NDIRECT-1}
           X == {<<"index", 0, din.indirect>>}
           E == IF din.indirect = 0 THEN {} ELSE {<<"entry", k, disk.blk[din.indirect][k]>> : k \in Offsets}
<1>1. Pointers(i) = {p \in D \cup X \cup E : p[3] # 0}
  BY Zenon DEF Pointers
<1>2. NDIRECT \in Nat /\ NDIRECT > 0 /\ BLKSIZE \in Nat /\ BLKSIZE > 0 /\ Offsets = 0..(BLKSIZE - 1)
  BY Sizes DEF Offsets
<1>3. \A q \in Places : r[q] = RefAt(din, disk.blk, q)
  BY DEF Refs
<1> HIDE DEF r
<1>4. ASSUME NEW x, x \in Names4(i) PROVE Named(i, x)
  <2>1. PICK p \in Pointers(i) : x = <<i, p[1], p[2], p[3]>>
    BY <1>4 DEF Names4
  <2>2. p \in D \cup X \cup E /\ p[3] # 0
    BY <1>1, <2>1
  <2>3. CASE p \in D
    <3>1. PICK k \in 0..(NDIRECT - 1) : p = <<"direct", k, din.direct[k]>>
      BY <2>3
    <3>2. k \in Places /\ k < NDIRECT
      BY <1>2 DEF Places
    <3>3. r[k] = din.direct[k]
      BY <1>3, <3>2 DEF RefAt
    <3>4. x = <<i, "direct", k, r[k]>> /\ r[k] # 0
      BY <2>1, <2>2, <3>1, <3>3
    <3>5. x = NameOf(i, k, r[k])
      BY <3>2, <3>4 DEF NameOf
    <3>6. QED
      BY <3>2, <3>4, <3>5 DEF Named, r
  <2>4. CASE p \in X
    <3>1. p = <<"index", 0, din.indirect>>
      BY <2>4
    <3>2. NDIRECT \in Places /\ ~ (NDIRECT < NDIRECT)
      BY <1>2 DEF Places
    <3>3. r[NDIRECT] = din.indirect
      BY <1>3, <3>2 DEF RefAt
    <3>4. x = <<i, "index", 0, r[NDIRECT]>> /\ r[NDIRECT] # 0
      BY <2>1, <2>2, <3>1, <3>3
    <3>5. x = NameOf(i, NDIRECT, r[NDIRECT])
      BY <3>2, <3>4 DEF NameOf
    <3>6. QED
      BY <3>2, <3>4, <3>5 DEF Named, r
  <2>5. CASE p \in E
    <3>1. PICK k \in Offsets : p = <<"entry", k, disk.blk[din.indirect][k]>> /\ din.indirect # 0
      BY <2>5
    <3> DEFINE q == NDIRECT + 1 + k
    <3>2. q \in Places /\ ~ (q < NDIRECT) /\ q # NDIRECT /\ q - NDIRECT - 1 = k
      BY <1>2 DEF Places
    <3>3. r[q] = disk.blk[din.indirect][k]
      BY <1>3, <3>1, <3>2 DEF RefAt
    <3> HIDE DEF q
    <3>4. x = <<i, "entry", k, r[q]>> /\ r[q] # 0
      BY <2>1, <2>2, <3>1, <3>3
    <3>5. x = NameOf(i, q, r[q])
      BY <3>2, <3>4 DEF NameOf
    <3>6. QED
      BY <3>2, <3>4, <3>5 DEF Named, r
  <2>6. QED
    BY <2>2, <2>3, <2>4, <2>5
<1>5. ASSUME NEW x, Named(i, x) PROVE x \in Names4(i)
  <2>1. PICK q \in Places : r[q] # 0 /\ x = NameOf(i, q, r[q])
    BY <1>5 DEF Named, r
  <2>2. SUFFICES ASSUME NEW p, p \in D \cup X \cup E, p[3] # 0, x = <<i, p[1], p[2], p[3]>>
                 PROVE  x \in Names4(i)
    <3>1. CASE q < NDIRECT
      <4> DEFINE p == <<"direct", q, din.direct[q]>>
      <4>1. q \in 0..(NDIRECT - 1)
        BY <1>2, <3>1 DEF Places
      <4>2. r[q] = din.direct[q]
        BY <1>3, <3>1 DEF RefAt
      <4>3. p \in D
        BY <4>1
      <4>4. p[1] = "direct" /\ p[2] = q /\ p[3] = r[q]
        BY <4>2
      <4>5. x = <<i, p[1], p[2], p[3]>>
        BY <2>1, <3>1, <4>4 DEF NameOf
      <4>6. QED
        BY <2>1, <2>2, <4>3, <4>4, <4>5
    <3>2. CASE q = NDIRECT
      <4> DEFINE p == <<"index", 0, din.indirect>>
      <4>1. ~ (q < NDIRECT)
        BY <1>2, <3>2
      <4>2. r[q] = din.indirect
        BY <1>3, <3>2, <4>1 DEF RefAt
      <4>3. p \in X
        OBVIOUS
      <4>4. p[1] = "index" /\ p[2] = 0 /\ p[3] = r[q]
        BY <4>2
      <4>5. x = <<i, p[1], p[2], p[3]>>
        BY <2>1, <3>2, <4>1, <4>4 DEF NameOf
      <4>6. QED
        BY <2>1, <2>2, <4>3, <4>4, <4>5
    <3>3. CASE ~ (q < NDIRECT) /\ q # NDIRECT
      <4> DEFINE k == q - NDIRECT - 1
                 p == <<"entry", k, disk.blk[din.indirect][k]>>
      <4>1. k \in Offsets
        BY <1>2, <3>3 DEF Places
      <4>2. din.indirect # 0 /\ r[q] = disk.blk[din.indirect][k]
        BY <1>3, <2>1, <3>3 DEF RefAt
      <4> HIDE DEF k
      <4>3. p \in E
        BY <4>1, <4>2
      <4>4. p[1] = "entry" /\ p[2] = k /\ p[3] = r[q]
        BY <4>2
      <4>5. x = <<i, p[1], p[2], p[3]>>
        BY <2>1, <3>3, <4>4 DEF NameOf, k
      <4>6. QED
        BY <2>1, <2>2, <4>3, <4>4, <4>5
    <3>4. QED
      BY <3>1, <3>2, <3>3
  <2>3. p \in Pointers(i)
    BY <1>1, <2>2
  <2>4. QED
    BY <2>2, <2>3 DEF Names4
<1>6. QED
  BY <1>4, <1>5

LEMMA NameOfParts ==
  ASSUME NEW i, NEW q, NEW b
  PROVE  NameOf(i, q, b)[4] = b
  BY DEF NameOf

LEMMA Accounting ==
  ASSUME SfsInv, phase = "mounted"
  PROVE  BlocksAccounted
<1> DEFINE I == DOMAIN disk.inode
           owned == UNION {Names4(i) : i \in I}
           held == {x[4] : x \in owned}
           fixed == {BLKN_SUPER, BLKN_FREEMAP} \cup I
           r(i) == Refs(Din(i), disk.blk)
           free == fs.freemap
<1>1. Sound(Dinodes, disk.blk, free) /\ fs.unused = Cardinality(free)
  BY DEF SfsInv, MountedInv
<1>2. DOMAIN Dinodes = I /\ \A i \in I : Dinodes[i] = Din(i)
  BY DEF Dinodes
<1>3. fixed = Fixed(I)
  BY DEF Fixed
<1>4. /\ I \subseteq Blocks /\ free \subseteq Blocks /\ free \cap fixed = {}
      /\ \A i \in I : \A p \in Places : r(i)[p] # 0 => r(i)[p] \in Blocks \ (free \cup fixed)
      /\ \A i, j \in I : \A p, q \in Places :
            r(i)[p] = r(j)[q] /\ r(i)[p] # 0 => i = j /\ p = q
      /\ \A b \in Blocks : b \in free \cup fixed \/ \E i \in I : \E p \in Places : r(i)[p] = b
  BY <1>1, <1>2, <1>3 DEF Sound
<1>5. fixed \subseteq Blocks /\ 0 \in fixed
  BY <1>4, Sizes, SfsAssumption DEF Blocks, BLKN_SUPER, BLKN_FREEMAP
<1>6. \A x : x \in owned <=> \E i \in I : \E q \in Places : r(i)[q] # 0 /\ x = NameOf(i, q, r(i)[q])
  <2>1. \A i \in I : \A x : x \in Names4(i) <=> Named(i, x)
    BY PointersNamed
  <2>2. \A x : x \in owned <=> \E i \in I : x \in Names4(i)
    OBVIOUS
  <2>3. QED
    BY <2>1, <2>2 DEF Named
<1> HIDE DEF r, fixed, owned
<1>7. \A b : b \in held <=> \E i \in I : \E q \in Places : r(i)[q] # 0 /\ r(i)[q] = b
  <2>1. ASSUME NEW b, b \in held PROVE \E i \in I : \E q \in Places : r(i)[q] # 0 /\ r(i)[q] = b
    <3>1. PICK x \in owned : x[4] = b
      BY <2>1
    <3>2. QED
      BY <1>6, <3>1, NameOfParts
  <2>2. ASSUME NEW b, NEW i \in I, NEW q \in Places, r(i)[q] # 0, r(i)[q] = b PROVE b \in held
    <3>1. NameOf(i, q, b) \in owned
      BY <1>6, <2>2
    <3>2. NameOf(i, q, b)[4] = b
      BY NameOfParts
    <3>3. QED
      BY <3>1, <3>2
  <2>3. QED
    BY <2>1, <2>2
<1>8. \A x, y \in owned : x[4] = y[4] => x = y
  <2>1. SUFFICES ASSUME NEW x \in owned, NEW y \in owned, x[4] = y[4] PROVE x = y
    OBVIOUS
  <2>2. PICK i \in I, p \in Places : r(i)[p] # 0 /\ x = NameOf(i, p, r(i)[p])
    BY <1>6
  <2>3. PICK j \in I, q \in Places : r(j)[q] # 0 /\ y = NameOf(j, q, r(j)[q])
    BY <1>6
  <2>4. x[4] = r(i)[p] /\ y[4] = r(j)[q]
    BY <2>2, <2>3, NameOfParts
  <2>5. i = j /\ p = q
    BY <1>4, <2>1, <2>2, <2>4
  <2>6. QED
    BY <2>2, <2>3, <2>5
<1>9. IsFiniteSet(held)
  <2>1. held \subseteq Blocks
    BY <1>4, <1>7
  <2>2. IsFiniteSet(Blocks)
    BY FS_Interval, Sizes, SfsAssumption DEF Blocks
  <2>3. QED
    BY <2>1, <2>2, FS_Subset
<1>10. Cardinality(held) = Cardinality(owned)
  <2> DEFINE g == [b \in held |-> CHOOSE x \in owned : x[4] = b]
  <2>1. \A b \in held : g[b] \in owned /\ g[b][4] = b
    OBVIOUS
  <2>2. \A x \in owned : x[4] \in held /\ g[x[4]] = x
    BY <1>8, <2>1
  <2>3. g \in [held -> owned]
    BY <2>1
  <2> HIDE DEF held, g
  <2>4. g \in Bijection(held, owned)
    <3>1. \A b, c \in held : g[b] = g[c] => b = c
      BY <2>1
    <3>2. \A x \in owned : \E b \in held : g[b] = x
      BY <2>2
    <3>3. QED
      BY <2>3, <3>1, <3>2 DEF Bijection, Injection, Surjection, IsInjective
  <2>5. ExistsBijection(held, owned)
    BY <2>4 DEF ExistsBijection
  <2>6. QED
    BY <1>9, <2>5, FS_Bijection
<1> HIDE DEF held
<1>11. /\ free \cap (held \cup fixed) = {} /\ held \cap fixed = {}
       /\ free \cup held \cup fixed = Blocks
  <2>1. \A b \in held : b \in Blocks \ (free \cup fixed)
    BY <1>4, <1>7
  <2>2. \A b \in Blocks : b \in free \cup held \cup fixed
    <3>1. SUFFICES ASSUME NEW b \in Blocks, b \notin free \cup fixed PROVE b \in held
      OBVIOUS
    <3>2. b # 0
      BY <1>5, <3>1
    <3>3. QED
      BY <1>4, <1>7, <3>1, <3>2
  <2>3. QED
    BY <1>4, <1>5, <2>1, <2>2
<1>12. owned = UNION {{<<i, p[1], p[2], p[3]>> : p \in Pointers(i)} : i \in I}
  BY Zenon DEF owned, Names4
<1>13. QED
  BY <1>1, <1>10, <1>11, <1>12, Zenon DEF BlocksAccounted, held, fixed

(* While it is mounted, every block of the image has exactly one owner or   *)
(* is free: no call of sfs_bmap_get_sub_nolock, not even one that fails     *)
(* half way, and no truncation, close, sync or remount, loses a block,      *)
(* shares one between two files or counts a free one wrong.                 *)
THEOREM BlocksNeverLost == Spec => []BlocksAccounted
<1>1. SfsInv => BlocksAccounted
  <2>1. CASE phase = "mounted"
    BY <2>1, Accounting
  <2>2. CASE phase # "mounted"
    BY <2>2 DEF BlocksAccounted
  <2>3. QED
    BY <2>1, <2>2
<1>2. QED
  BY <1>1, SfsInvariant, PTL
=============================================================================
