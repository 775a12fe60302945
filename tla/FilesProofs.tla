----------------------------- MODULE FilesProofs -----------------------------
(***************************************************************************)
(* Proofs about Files, for any threads, files, inodes, blocks and sizes.   *)
(***************************************************************************)
EXTENDS Files, FiniteSetTheorems, WellFoundedInduction, TLAPS

-----------------------------------------------------------------------------
(***************************************************************************)
(* The inductive invariant                                                 *)
(***************************************************************************)
\* The places of a call: before the file's entry is in the directory, while it is, and
\* after it has been dropped (there is only "parent" then).
Down == {"stopped", "repaired"}
Making == {"new entry", "new parent"}
Using == {"new inode", "open", "add", "data", "update", "free", "clear", "emptied", "ifree", "entry"}
Phase == {"idle", "parent"} \cup Down \cup Making \cup Using

\* The entries of a directory that are not about to be dropped.
Kept(t) == 1 .. (IF pc[t] = "parent" THEN dirsize[t] - 1 ELSE dirsize[t])
EntryOf(t) == [name |-> file[t], inum |-> ino[t].num]

\* No two entries have a name or a number in common.
Distinct(d, S) ==
    \A e, x \in S : d[e].name = d[x].name \/ d[e].inum = d[x].inum => e = x

\* A directory and the call that works on it: its entries are files of the thread, the
\* file in use is among them from GrowParent until idelete_from_dir, and in between
\* iadd_to_dir and GrowParent, or idelete_from_dir and ShrinkParent, the table has an entry
\* more or less than its size says.
DirInv(t) ==
    /\ pc[t] \in Phase
    /\ pc[t] = "idle" <=> file[t] = 0
    /\ pc[t] # "idle" => ino[t].num \in Inode
    /\ \A e \in Kept(t) : dir[t][e].name \in FilesOf(t) /\ dir[t][e].inum \in Inode
    /\ Distinct(dir[t], Kept(t))
    /\ pc[t] \in Making \cup {"parent"} =>
          \A e \in Kept(t) : dir[t][e].name # file[t] /\ dir[t][e].inum # ino[t].num
    /\ pc[t] = "new parent" =>
          dirsize[t] < Cardinality(FilesOf(t)) /\ dir[t][dirsize[t] + 1] = EntryOf(t)
    /\ pc[t] \in Using => \E e \in Kept(t) : dir[t][e] = EntryOf(t)
    /\ pc[t] = "parent" => /\ dirsize[t] > 0
                           /\ \/ dir[t][dirsize[t]] = EntryOf(t)
                              \/ \E e \in Kept(t) : dir[t][e] = dir[t][dirsize[t]]

\* The numbers of the inodes that are a thread's: those in its directory, the one ialloc
\* has just given it, and no longer the one it has given to ifree.
Listed(t, n) == \E e \in Kept(t) : dir[t][e].inum = n
Has(t, n) == IF n = ino[t].num /\ pc[t] \in Making \cup {"entry"} THEN pc[t] \in Making
             ELSE Listed(t, n)

\* An inode has one owner and its bit is 1; it is empty as long as none has written to it.
NumInv ==
    /\ \A t \in Thread, n \in Inode : Has(t, n) => n \in inode_bitmap
    /\ \A t, u \in Thread, n \in Inode : Has(t, n) /\ Has(u, n) => t = u
    /\ \A n \in Inode : n \notin inode_bitmap => dinode[n].size = 0
    /\ \A t \in Thread : pc[t] \in Making \cup {"new inode", "emptied", "ifree"} =>
          dinode[ino[t].num].size = 0

Capacity == INODE_DIRECT_BLOCKS + INODE_INDIRECT_BLOCKS + INODE_DOUBLE_BLOCKS
Moving == {"add", "data", "update"}
\* A copy of an inode and the handle it is in: its blocks hold its words, it is what is on
\* the disk when no write is under way, a write lies within one block, of which there is
\* one more than before at its end, and the loop of iclear is within the blocks.
SizeInv(t) ==
    LET c == ino[t]
    IN /\ pc[t] \in {"open", "free"} \cup Moving => c.size <= Capacity /\ c.size <= c.size_blocks * BlockSize
       /\ pc[t] \in {"open", "add"} => /\ dinode[c.num] = OnDisk(c)
                                      /\ cursor[t] <= c.size /\ c.size_blocks <= c.size
       /\ pc[t] = "add" => cursor[t] = c.size
       /\ pc[t] \in Moving => /\ cursor[t] + arg[t] <= MaxSize[file[t]]
                              /\ arg[t] > 0 /\ arg[t] <= BlockSize - (cursor[t] % BlockSize)
       /\ pc[t] \in {"data", "update"} => /\ cursor[t] < c.size_blocks * BlockSize
                                          /\ c.size_blocks <= c.size \/ c.size_blocks <= cursor[t] + arg[t]
       /\ pc[t] = "free" => c.size_blocks = BlocksOf(c.size) /\ arg[t] <= c.size_blocks
       /\ pc[t] \notin {"free"} \cup Moving => arg[t] = 0
       /\ pc[t] \notin {"open"} \cup Moving => cursor[t] = 0

\* The disjointness of blocks needs all of it: with two owners of an inode, or a copy
\* that is shorter than the inode, a block would be referred to twice.
IInv ==
    /\ TypeOK
    /\ Up \/ \A t \in Thread : pc[t] \in Down
    /\ Up => (\A t \in Thread : DirInv(t) /\ SizeInv(t)) /\ NumInv
    /\ \A n \in Inode : dinode[n].size <= Capacity
    /\ BlocksDisjoint

\* A step of t leaves the other threads as they are, and of the inodes on the disk changes
\* only its own.
Alone(t) ==
    \A u \in Thread \ {t} :
        /\ pc'[u] = pc[u] /\ file'[u] = file[u] /\ ino'[u] = ino[u] /\ cursor'[u] = cursor[u]
        /\ blk'[u] = blk[u] /\ arg'[u] = arg[u] /\ dir'[u] = dir[u] /\ dirsize'[u] = dirsize[u]
DiskMine(t) ==
    \A n \in Inode : dinode'[n] = dinode[n] \/ (pc[t] # "idle" /\ n = ino[t].num /\ Has(t, n))
\* In a step of t, the files but f keep their names and their blocks, and these their words.
OthersKept(t, f) ==
    /\ Alone(t) /\ DiskMine(t) /\ file[t] \in {0, f} /\ file'[t] \in {0, f}
    /\ \A g \in FilesOf(t) \ {f} : namei(t, g)' = namei(t, g)
    /\ \A g \in File \ {f} : \A r \in Owned(g) :
          r[3] \in block_bitmap' /\ store'[r[3]] = store[r[3]]
Apart(t) == \E f \in FilesOf(t) : OthersKept(t, f)

\* Each block is referred to once.
Once(R) == \A r, s \in R : r[3] = s[3] => r = s
-----------------------------------------------------------------------------
(***************************************************************************)
(* Numbers and sets                                                        *)
(***************************************************************************)
LEMMA MinIs ==
    ASSUME NEW S, S \subseteq Nat, S # {}
    PROVE  Min(S) \in S /\ \A x \in S : Min(S) <= x
<1>1. PICK m \in S : \A x \in S : <<x, m>> \notin OpToRel(<, Nat)
  <2> QED BY NatLessThanWellFounded, WFMin
<1>2. \A x \in S : m <= x
  <2> SUFFICES ASSUME NEW x \in S, ~(m <= x) PROVE FALSE
    OBVIOUS
  <2>1. x \in Nat /\ m \in Nat /\ x < m
    OBVIOUS
  <2>2. <<x, m>> \in OpToRel(<, Nat)
    BY <2>1 DEF OpToRel
  <2> QED BY <2>2, <1>1
<1> QED BY <1>1, <1>2 DEF Min

LEMMA MinOne == ASSUME NEW x \in Int PROVE Min({x}) = x
BY DEF Min

LEMMA PairIs ==
    ASSUME NEW x \in Int, NEW y \in Int, x < y
    PROVE  Min({x, y}) = x /\ Max({x, y}) = y
<1>1. Min({x, y}) = x
  BY DEF Min
<1>2. Max({x, y}) = y
  BY DEF Max
<1> QED BY <1>1, <1>2

LEMMA MaxOne == ASSUME NEW x \in Int PROVE Max({x}) = x
BY DEF Max

LEMMA LargerIs ==
    ASSUME NEW x \in Nat, NEW y \in Nat
    PROVE  Max({x, y}) \in Nat /\ Max({x, y}) = (IF x <= y THEN y ELSE x)
BY DEF Max

LEMMA Constants ==
    /\ BlockSize \in Nat \ {0} /\ INODE_DIRECT_BLOCKS \in Nat \ {0} /\ NBlocks \in Nat \ {0}
    /\ NInodes \in Nat \ {0} /\ NFiles \in Nat \ {0}
    /\ FirstDouble \in Nat /\ INODE_DIRECT_BLOCKS < FirstDouble
    /\ Capacity \in Nat
    /\ IsFiniteSet(Block) /\ IsFiniteSet(File) /\ Cardinality(Block) = NBlocks
<1>1. /\ BlockSize \in Nat \ {0} /\ INODE_DIRECT_BLOCKS \in Nat \ {0} /\ NBlocks \in Nat \ {0}
      /\ NInodes \in Nat \ {0} /\ NFiles \in Nat \ {0}
  BY FilesAssumption
<1>2. FirstDouble \in Nat /\ INODE_DIRECT_BLOCKS < FirstDouble
  BY <1>1 DEF FirstDouble, INODE_INDIRECT_BLOCKS
<1>3. BlockSize * BlockSize \in Nat
  BY <1>1
<1>4. Capacity \in Nat
  BY <1>1, <1>3 DEF Capacity, INODE_INDIRECT_BLOCKS, INODE_DOUBLE_BLOCKS
<1>5. IsFiniteSet(1 .. NBlocks) /\ Cardinality(1 .. NBlocks) = NBlocks
  BY <1>1, FS_Interval
<1>6. IsFiniteSet(1 .. NFiles)
  BY <1>1, FS_Interval
<1> QED BY <1>1, <1>2, <1>4, <1>5, <1>6 DEF Block, File

LEMMA Division ==
    ASSUME NEW x \in Nat
    PROVE  /\ x \div BlockSize \in Nat /\ x % BlockSize \in 0 .. BlockSize - 1
           /\ x = BlockSize * (x \div BlockSize) + (x % BlockSize)
BY Constants

\* BlocksOf is the least number of blocks that hold the words.
LEMMA BlocksOfIs ==
    ASSUME NEW s \in Nat
    PROVE  /\ BlocksOf(s) \in Nat /\ BlocksOf(s) <= s
           /\ s <= BlocksOf(s) * BlockSize
           /\ s = 0 => BlocksOf(s) = 0
<1> DEFINE B == BlockSize
           q == (s + B - 1) \div B
           m == (s + B - 1) % B
<1>1. B \in Nat \ {0} /\ s + B - 1 \in Nat
  BY Constants
<1>2. q \in Nat /\ m \in 0 .. B - 1 /\ s + B - 1 = B * q + m
  BY <1>1, Division
<1> HIDE DEF B, q, m
<1>3. q * B = B * q /\ B * q \in Nat
  BY <1>1, <1>2
<1>4. s <= q * B
  BY <1>1, <1>2, <1>3
<1>5. s = 0 => q = 0
  <2> SUFFICES ASSUME s = 0, q # 0 PROVE FALSE
    OBVIOUS
  <2>1. q >= 1
    BY <1>2
  <2>2. B * q >= B
    BY <2>1, <1>1, <1>2
  <2> QED BY <2>2, <1>1, <1>2
<1>6. q <= s
  <2> SUFFICES ASSUME q > s PROVE FALSE
    BY <1>2
  <2>1. CASE s = 0
    BY <2>1, <1>5
  <2>2. CASE s > 0
    <3>1. q >= s + 1
      BY <1>2
    <3>2. B * q >= B * (s + 1)
      BY <3>1, <1>1, <1>2
    <3>3. B * (s + 1) = B * s + B
      BY <1>1
    <3>4. B * s >= s
      BY <1>1
    <3> QED BY <3>2, <3>3, <3>4, <1>1, <1>2, <1>3
  <2> QED BY <2>1, <2>2
<1>7. BlocksOf(s) = q
  BY DEF BlocksOf, q, B
<1> QED BY <1>2, <1>4, <1>5, <1>6, <1>7 DEF B

\* A word before the end of n blocks is in one of them.
LEMMA InBlock ==
    ASSUME NEW x \in Nat, NEW n \in Nat, x < n * BlockSize
    PROVE  x \div BlockSize < n
<1>1. /\ x \div BlockSize \in Nat /\ x % BlockSize \in 0 .. BlockSize - 1
      /\ x = BlockSize * (x \div BlockSize) + (x % BlockSize)
  BY Division
<1>2. BlockSize \in Nat \ {0}
  BY Constants
<1> DEFINE q == x \div BlockSize
<1> HIDE DEF q
<1>3. q >= n => BlockSize * q >= BlockSize * n
  BY <1>1, <1>2 DEF q
<1>4. n * BlockSize = BlockSize * n /\ BlockSize * n \in Nat /\ BlockSize * q \in Nat
  BY <1>1, <1>2 DEF q
<1>5. ~(q >= n)
  BY <1>1, <1>2, <1>3, <1>4 DEF q
<1> QED BY <1>1, <1>5 DEF q

\* A write that lies in one block ends in the block in which it starts.
LEMMA EndsInBlock ==
    ASSUME NEW x \in Nat, NEW l \in Nat, NEW n \in Nat, x < n * BlockSize,
           l <= BlockSize - (x % BlockSize)
    PROVE  x + l <= n * BlockSize
<1> DEFINE q == x \div BlockSize
<1>1. /\ q \in Nat /\ x % BlockSize \in 0 .. BlockSize - 1
      /\ x = BlockSize * q + (x % BlockSize)
  BY Division
<1>2. BlockSize \in Nat \ {0}
  BY Constants
<1>3. q < n
  BY InBlock
<1> HIDE DEF q
<1>4. BlockSize * (q + 1) <= BlockSize * n
  BY <1>1, <1>2, <1>3
<1>5. BlockSize * (q + 1) = BlockSize * q + BlockSize /\ n * BlockSize = BlockSize * n
  BY <1>1, <1>2
<1>6. BlockSize * q \in Nat /\ BlockSize * n \in Nat
  BY <1>1, <1>2
<1> QED BY <1>1, <1>2, <1>4, <1>5, <1>6

-----------------------------------------------------------------------------
(***************************************************************************)
(* The bitmap of the blocks                                                *)
(***************************************************************************)
LEMMA LowestIs ==
    ASSUME block_bitmap \subseteq Block, NEW n \in 0 .. 2, n <= Cardinality(Free)
    PROVE  Lowest(n) \subseteq Free /\ Cardinality(Lowest(n)) = n
<1> DEFINE Good(S) == Cardinality(S) = n /\ \A b \in S, c \in Free \ S : b < c
<1>1. Free \subseteq Nat /\ IsFiniteSet(Free)
  BY Constants, FS_Subset DEF Free, Block
<1>2. SUFFICES \E S \in SUBSET Free : Good(S)
  BY DEF Lowest
<1>3. CASE n = 0
  <2>1. Cardinality({}) = n
    BY <1>3, FS_EmptySet
  <2> QED BY <2>1
<1>4. CASE n > 0
  <2>1. Free # {}
    BY <1>4, FS_EmptySet
  <2> DEFINE x == Min(Free)
  <2>2. x \in Free /\ \A y \in Free : x <= y
    BY <1>1, <2>1, MinIs
  <2> HIDE DEF x
  <2>3. IsFiniteSet({x}) /\ Cardinality({x}) = 1
    BY FS_Singleton
  <2>4. CASE n = 1
    <3>1. \A b \in {x}, c \in Free \ {x} : b < c
      BY <2>2, <1>1
    <3> QED BY <3>1, <2>2, <2>3, <2>4
  <2>5. CASE n = 2
    <3>1. IsFiniteSet(Free \ {x}) /\ Cardinality(Free \ {x}) = Cardinality(Free) - 1
      BY <1>1, <2>2, FS_RemoveElement
    <3>2. Cardinality(Free) \in Nat
      BY <1>1, FS_CardinalityType
    <3>3. Free \ {x} # {}
      BY <3>1, <3>2, <2>5, FS_EmptySet
    <3> DEFINE z == Min(Free \ {x})
    <3>4. z \in Free \ {x} /\ \A y \in Free \ {x} : z <= y
      BY <1>1, <3>3, MinIs
    <3> HIDE DEF z
    <3>5. Cardinality({x} \cup {z}) = 2
      BY <2>3, <3>4, FS_AddElement
    <3>6. \A b \in {x} \cup {z}, c \in Free \ ({x} \cup {z}) : b < c
      BY <2>2, <3>4, <1>1
    <3> QED BY <3>5, <3>6, <2>2, <3>4, <2>5
  <2> QED BY <1>4, <2>4, <2>5
<1> QED BY <1>3, <1>4

LEMMA LowestOne ==
    ASSUME block_bitmap \subseteq Block, Free # {}
    PROVE  \E b \in Free : Lowest(1) = {b} /\ Min(Lowest(1)) = b
<1>1. Free \subseteq Nat /\ IsFiniteSet(Free)
  BY Constants, FS_Subset DEF Free, Block
<1>2. Cardinality(Free) \in Nat /\ Cardinality(Free) # 0
  BY <1>1, FS_CardinalityType, FS_EmptySet
<1>3. Lowest(1) \subseteq Free /\ Cardinality(Lowest(1)) = 1
  BY <1>2, LowestIs
<1>4. IsFiniteSet(Lowest(1))
  BY <1>1, <1>3, FS_Subset
<1>5. PICK b : Lowest(1) = {b}
  BY <1>3, <1>4, FS_Singleton
<1>6. b \in Free /\ b \in Int
  <2>1. b \in Lowest(1)
    BY <1>5
  <2>2. b \in Free
    BY <2>1, <1>3
  <2>3. b \in Nat
    BY <2>2, <1>1
  <2> QED BY <2>2, <2>3
<1>7. Min({b}) = b
  BY <1>6, MinOne
<1> QED BY <1>5, <1>6, <1>7

LEMMA LowestTwo ==
    ASSUME block_bitmap \subseteq Block, Cardinality(Free) >= 2
    PROVE  \E x, y \in Free : x < y /\ Lowest(2) = {x, y}
                              /\ Min(Lowest(2)) = x /\ Max(Lowest(2)) = y
<1>1. Free \subseteq Nat /\ IsFiniteSet(Free)
  BY Constants, FS_Subset DEF Free, Block
<1>2. Cardinality(Free) \in Nat
  BY <1>1, FS_CardinalityType
<1>3. Lowest(2) \subseteq Free /\ Cardinality(Lowest(2)) = 2
  BY <1>2, LowestIs
<1>4. IsFiniteSet(Lowest(2))
  BY <1>1, <1>3, FS_Subset
<1> DEFINE S == Lowest(2)
<1>0. S \subseteq Free /\ Cardinality(S) = 2 /\ IsFiniteSet(S)
  BY <1>3, <1>4
<1> HIDE DEF S
<1>5. S # {} /\ S \subseteq Nat
  BY <1>0, <1>1, FS_EmptySet
<1> DEFINE x == Min(S)
<1>6. x \in S /\ \A z \in S : x <= z
  BY <1>5, MinIs
<1> HIDE DEF x
<1>7. IsFiniteSet(S \ {x}) /\ Cardinality(S \ {x}) = 1
  BY <1>0, <1>6, FS_RemoveElement
<1>8. PICK y : S \ {x} = {y}
  BY <1>7, FS_Singleton
<1>9. S = {x, y} /\ x # y /\ y \in S
  BY <1>6, <1>8
<1>10. x \in Int /\ y \in Int /\ x < y
  BY <1>5, <1>6, <1>9
<1>11. Min({x, y}) = x /\ Max({x, y}) = y
  BY <1>10, PairIs
<1>12. \E u, v \in Free : u < v /\ S = {u, v} /\ Min(S) = u /\ Max(S) = v
  BY <1>0, <1>6, <1>9, <1>10, <1>11
<1> QED BY <1>12 DEF S

LEMMA LowestNone ==
    ASSUME block_bitmap \subseteq Block
    PROVE  Lowest(0) = {}
<1>1. IsFiniteSet(Free)
  BY Constants, FS_Subset DEF Free
<1>2. Cardinality(Free) \in Nat
  BY <1>1, FS_CardinalityType
<1>3. Lowest(0) \subseteq Free /\ Cardinality(Lowest(0)) = 0
  BY <1>2, LowestIs
<1>4. IsFiniteSet(Lowest(0))
  BY <1>1, <1>3, FS_Subset
<1> QED BY <1>3, <1>4, FS_EmptySet

\* Removing the elements of one finite set from another, and adding them.
LEMMA Counting ==
    ASSUME NEW S, NEW T, IsFiniteSet(S), IsFiniteSet(T)
    PROVE  /\ T \subseteq S => Cardinality(S \ T) = Cardinality(S) - Cardinality(T)
           /\ S \cap T = {} => Cardinality(S \cup T) = Cardinality(S) + Cardinality(T)
<1>1. /\ Cardinality(S \cup T) = Cardinality(S) + Cardinality(T) - Cardinality(S \cap T)
      /\ IsFiniteSet(S) /\ IsFiniteSet(T) /\ IsFiniteSet(S \cap T)
  BY FS_Union, FS_Intersection
<1>2. Cardinality(S) \in Nat /\ Cardinality(T) \in Nat
  BY FS_CardinalityType
<1>3. ASSUME T \subseteq S
      PROVE  Cardinality(S \ T) = Cardinality(S) - Cardinality(T)
  <2>1. S \cap T = T
    BY <1>3
  <2>2. Cardinality(S \ T) = Cardinality(S) - Cardinality(S \cap T)
    BY FS_Difference
  <2> QED BY <2>1, <2>2
<1>4. ASSUME S \cap T = {}
      PROVE  Cardinality(S \cup T) = Cardinality(S) + Cardinality(T)
  BY <1>1, <1>2, <1>4, FS_EmptySet
<1> QED BY <1>3, <1>4

LEMMA BallocKeeps ==
    ASSUME block_bitmap \subseteq Block, free_blocks = Cardinality(Free),
           NEW S, S \subseteq Free, balloc(S)
    PROVE  block_bitmap' \subseteq Block /\ free_blocks' = Cardinality(Free')
<1>1. Free' = Free \ S /\ block_bitmap' \subseteq Block
  BY DEF Free, balloc, Block
<1>2. IsFiniteSet(Free)
  BY Constants, FS_Subset DEF Free
<1>3. IsFiniteSet(S)
  BY <1>2, FS_Subset
<1>4. Cardinality(Free \ S) = Cardinality(Free) - Cardinality(S)
  BY <1>2, <1>3, Counting
<1> QED BY <1>1, <1>4 DEF balloc

LEMMA BfreeKeeps ==
    ASSUME block_bitmap \subseteq Block, free_blocks = Cardinality(Free), NEW S, bfree(S)
    PROVE  block_bitmap' \subseteq Block /\ free_blocks' = Cardinality(Free')
<1> DEFINE T == S \cap block_bitmap
<1>1. Free' = Free \cup T /\ block_bitmap' \subseteq Block /\ Free \cap T = {}
  BY DEF Free, bfree, Block
<1>2. IsFiniteSet(Free) /\ IsFiniteSet(T)
  BY Constants, FS_Subset DEF Free
<1>3. Cardinality(Free \cup T) = Cardinality(Free) + Cardinality(T)
  BY <1>1, <1>2, Counting
<1> QED BY <1>1, <1>3 DEF bfree

-----------------------------------------------------------------------------
(***************************************************************************)
(* Directories                                                             *)
(***************************************************************************)
\* namei and the directory's table as constants: d is the table, k its length.
NameiIn(d, k, f) == LET found == {e \in 1 .. k : d[e].name = f}
                    IN IF found = {} THEN 0 ELSE d[Min(found)].inum

LEMMA NameiIs == \A t, f : namei(t, f) = NameiIn(dir[t], dirsize[t], f)
BY DEF namei, NameiIn, Entries

LEMMA NameiNext == \A t, f : namei(t, f)' = NameiIn(dir'[t], dirsize'[t], f)
BY DEF namei, NameiIn, Entries

\* Entry e has the name f, and the others with that name the number of e.
Leads(d, k, f, e) ==
    /\ k \in Nat /\ e \in 1 .. k /\ d[e].name = f
    /\ \A x \in 1 .. k : d[x].name = f => d[x].inum = d[e].inum

LEMMA NameiFound ==
    ASSUME NEW d, NEW k, NEW f, NEW e, Leads(d, k, f, e)
    PROVE  NameiIn(d, k, f) = d[e].inum
<1> USE DEF Leads
<1> DEFINE S == {x \in 1 .. k : d[x].name = f}
<1>1. S \subseteq Nat /\ S # {}
  OBVIOUS
<1>2. Min(S) \in S
  BY <1>1, MinIs
<1> QED BY <1>1, <1>2 DEF NameiIn

LEMMA NameiNone ==
    ASSUME NEW d, NEW k \in Nat, NEW f, \A x \in 1 .. k : d[x].name # f
    PROVE  NameiIn(d, k, f) = 0
BY DEF NameiIn

\* Distinct names leave room for one more.
LEMMA RoomForOne ==
    ASSUME NEW S, IsFiniteSet(S), NEW k \in Nat, NEW d, NEW f \in S,
           \A e \in 1 .. k : d[e].name \in S /\ d[e].name # f,
           \A e, x \in 1 .. k : d[e].name = d[x].name => e = x
    PROVE  k < Cardinality(S)
<1> DEFINE g == [e \in 1 .. k |-> d[e].name]
<1>1. g \in Injection(1 .. k, S \ {f})
  BY DEF Injection, IsInjective
<1>2. IsFiniteSet(S \ {f}) /\ Cardinality(S \ {f}) = Cardinality(S) - 1
  BY FS_RemoveElement
<1>3. Cardinality(1 .. k) <= Cardinality(S \ {f})
  BY <1>1, <1>2, FS_Injection
<1>4. Cardinality(1 .. k) = k
  BY FS_Interval
<1>5. Cardinality(S) \in Nat
  BY FS_CardinalityType
<1> QED BY <1>2, <1>3, <1>4, <1>5

-----------------------------------------------------------------------------
(***************************************************************************)
(* The blocks an inode refers to, with the store as an argument            *)
(***************************************************************************)
WordIn(s, b, w) == IF b \in Block THEN s[b][w] ELSE 0
MapIn(s, c, k) ==
    IF k < INODE_DIRECT_BLOCKS THEN c.direct[k]
    ELSE IF k < FirstDouble THEN WordIn(s, c.indirect, k - INODE_DIRECT_BLOCKS)
    ELSE WordIn(s, WordIn(s, c.double_indirect, DoubleOffset(k)), SingleOffset(k))
PointersIn(s, c, n) ==
    {<<"indirect", 0, c.indirect>> : k \in {INODE_DIRECT_BLOCKS} \cap 0 .. n - 1}
        \cup {<<"double", 0, c.double_indirect>> : k \in {FirstDouble} \cap 0 .. n - 1}
        \cup {<<"second", DoubleOffset(k), WordIn(s, c.double_indirect, DoubleOffset(k))>>
                : k \in FirstDouble .. n - 1}
RefsIn(s, c, n) == {<<"data", k, MapIn(s, c, k)>> : k \in 0 .. n - 1} \cup PointersIn(s, c, n)

LEMMA Offsets ==
    ASSUME NEW k \in Nat, k >= FirstDouble
    PROVE  /\ DoubleOffset(k) \in Nat /\ SingleOffset(k) \in Offset
           /\ k = FirstDouble + BlockSize * DoubleOffset(k) + SingleOffset(k)
           /\ BlockSize * DoubleOffset(k) \in Nat
           /\ k < Capacity => DoubleOffset(k) \in Offset
<1> DEFINE x == k - FirstDouble
           q == x \div BlockSize
           m == x % BlockSize
<1>1. x \in Nat /\ BlockSize \in Nat \ {0}
  BY Constants
<1>2. q \in Nat /\ m \in 0 .. BlockSize - 1 /\ x = BlockSize * q + m
  BY <1>1, Division
<1>3. q = DoubleOffset(k) /\ m = SingleOffset(k)
  BY DEF DoubleOffset, SingleOffset, INODE_INDIRECT_BLOCKS
<1>4. k = FirstDouble + x
  BY Constants
<1> HIDE DEF q, m, x
<1>5. BlockSize * q \in Nat
  BY <1>1, <1>2
<1>6. ASSUME k < Capacity PROVE q \in Offset
  <2>1. x < BlockSize * BlockSize
    <3>1. Capacity = FirstDouble + BlockSize * BlockSize
      BY DEF Capacity, FirstDouble, INODE_INDIRECT_BLOCKS, INODE_DOUBLE_BLOCKS
    <3>2. BlockSize * BlockSize \in Nat
      BY <1>1
    <3> QED BY <3>1, <3>2, <1>4, <1>6, <1>1, Constants
  <2>2. q < BlockSize
    <3>1. x \div BlockSize < BlockSize
      BY <2>1, <1>1, InBlock
    <3> QED BY <3>1 DEF q
  <2> QED BY <2>2, <1>1, <1>2 DEF Offset
<1>7. FirstDouble + x = FirstDouble + BlockSize * q + m
  BY <1>1, <1>2, <1>5, Constants
<1> QED BY <1>2, <1>3, <1>4, <1>5, <1>6, <1>7 DEF Offset

\* The offsets of two words after one another.
LEMMA OffsetsOrdered ==
    ASSUME NEW j \in Nat, NEW k \in Nat, FirstDouble <= j, j < k
    PROVE  /\ DoubleOffset(j) <= DoubleOffset(k)
           /\ SingleOffset(k) = 0 => DoubleOffset(j) < DoubleOffset(k)
           /\ DoubleOffset(j) = DoubleOffset(k) => SingleOffset(j) # SingleOffset(k)
           /\ SingleOffset(k) # 0 => DoubleOffset(k - 1) = DoubleOffset(k)
<1> DEFINE B == BlockSize
           q == DoubleOffset(k)  m == SingleOffset(k)
           p == DoubleOffset(j)  l == SingleOffset(j)
           r == DoubleOffset(k - 1)  h == SingleOffset(k - 1)
<1>1. /\ B \in Nat \ {0} /\ FirstDouble \in Nat /\ k - 1 \in Nat /\ k - 1 >= FirstDouble
      /\ k >= FirstDouble
  BY Constants
<1>2. q \in Nat /\ m \in 0 .. B - 1 /\ k = FirstDouble + B * q + m /\ B * q \in Nat
  BY <1>1, Offsets DEF Offset
<1>3. p \in Nat /\ l \in 0 .. B - 1 /\ j = FirstDouble + B * p + l /\ B * p \in Nat
  BY <1>1, Offsets DEF Offset
<1>4. r \in Nat /\ h \in 0 .. B - 1 /\ k - 1 = FirstDouble + B * r + h /\ B * r \in Nat
  BY <1>1, Offsets DEF Offset
<1> HIDE DEF B, q, m, p, l, r, h
<1>5. ASSUME NEW u \in Nat, NEW v \in Nat, u < v
      PROVE  B * u + B <= B * v
  <2>1. B * (u + 1) <= B * v
    BY <1>1, <1>5
  <2>2. B * (u + 1) = B * u + B
    BY <1>1
  <2> QED BY <2>1, <2>2
<1>6. p <= q
  <2>1. q < p => B * q + B <= B * p
    BY <1>2, <1>3, <1>5
  <2> QED BY <2>1, <1>1, <1>2, <1>3
<1>7. m = 0 => p < q
  <2>1. p = q => B * p = B * q
    OBVIOUS
  <2> QED BY <2>1, <1>6, <1>1, <1>2, <1>3
<1>8. p = q => l # m
  <2>1. p = q => B * p = B * q
    OBVIOUS
  <2> QED BY <2>1, <1>1, <1>2, <1>3
<1>9. m # 0 => r = q
  <2> SUFFICES ASSUME m # 0 PROVE r = q
    OBVIOUS
  <2>1. q < r => B * q + B <= B * r
    BY <1>2, <1>4, <1>5
  <2>2. r < q => B * r + B <= B * q
    BY <1>2, <1>4, <1>5
  <2>3. ~(q < r)
    BY <2>1, <1>1, <1>2, <1>4
  <2>4. ~(r < q)
    BY <2>2, <1>1, <1>2, <1>4
  <2> QED BY <2>3, <2>4, <1>2, <1>4
<1> QED BY <1>6, <1>7, <1>8, <1>9 DEF B, q, m, p, l, r, h

\* An inode with fewer blocks refers to fewer.
LEMMA RefsMono ==
    ASSUME NEW s, NEW c, NEW n \in Nat, NEW m \in Nat, n <= m
    PROVE  RefsIn(s, c, n) \subseteq RefsIn(s, c, m)
<1>1. 0 .. n - 1 \subseteq 0 .. m - 1 /\ FirstDouble .. n - 1 \subseteq FirstDouble .. m - 1
  BY Constants
<1> QED BY <1>1 DEF RefsIn, PointersIn

\* Only the pointers of an inode matter.
LEMMA RefsSame ==
    ASSUME NEW s, NEW c, NEW d, NEW n, c.direct = d.direct, c.indirect = d.indirect,
           c.double_indirect = d.double_indirect
    PROVE  RefsIn(s, c, n) = RefsIn(s, d, n)
BY DEF RefsIn, PointersIn, MapIn

LEMMA RefsNone == \A s, c : RefsIn(s, c, 0) = {}
<1>1. 0 .. 0 - 1 = {} /\ FirstDouble .. 0 - 1 = {}
  BY Constants
<1> QED BY <1>1 DEF RefsIn, PointersIn

\* Nothing changes unless a block of pointers does.
LEMMA RefsFrame ==
    ASSUME NEW s, NEW z, NEW c, NEW n \in Nat,
           \A r \in PointersIn(s, c, n) : r[3] \in Block => s[r[3]] = z[r[3]]
    PROVE  RefsIn(z, c, n) = RefsIn(s, c, n)
<1> DEFINE D == INODE_DIRECT_BLOCKS
<1>1. D \in Nat /\ FirstDouble \in Nat /\ D < FirstDouble
  BY Constants
<1>2. ASSUME NEW k \in 0 .. n - 1, k >= D
      PROVE  c.indirect \in Block => s[c.indirect] = z[c.indirect]
  <2>1. D \in {D} \cap 0 .. n - 1
    BY <1>1, <1>2
  <2>2. <<"indirect", 0, c.indirect>> \in PointersIn(s, c, n)
    BY <2>1 DEF PointersIn
  <2> QED BY <2>2
<1>3. ASSUME NEW k \in FirstDouble .. n - 1
      PROVE  /\ WordIn(z, c.double_indirect, DoubleOffset(k))
                = WordIn(s, c.double_indirect, DoubleOffset(k))
             /\ LET b == WordIn(s, c.double_indirect, DoubleOffset(k))
                IN b \in Block => s[b] = z[b]
  <2>1. FirstDouble \in {FirstDouble} \cap 0 .. n - 1
    BY <1>1, <1>3
  <2>2. <<"double", 0, c.double_indirect>> \in PointersIn(s, c, n)
    BY <2>1 DEF PointersIn
  <2>3. c.double_indirect \in Block => s[c.double_indirect] = z[c.double_indirect]
    BY <2>2
  <2> DEFINE b == WordIn(s, c.double_indirect, DoubleOffset(k))
  <2>4. <<"second", DoubleOffset(k), b>> \in PointersIn(s, c, n)
    BY <1>3 DEF PointersIn
  <2>5. b \in Block => s[b] = z[b]
    BY <2>4
  <2> QED BY <2>3, <2>5 DEF WordIn
<1>4. ASSUME NEW k \in 0 .. n - 1
      PROVE  MapIn(z, c, k) = MapIn(s, c, k)
  <2>1. CASE k < D
    BY <2>1 DEF MapIn
  <2>2. CASE k >= D /\ k < FirstDouble
    BY <2>2, <1>1, <1>2 DEF MapIn, WordIn
  <2>3. CASE k >= FirstDouble
    <3>1. k \in FirstDouble .. n - 1
      BY <2>3, <1>1
    <3> DEFINE b == WordIn(s, c.double_indirect, DoubleOffset(k))
    <3>2. WordIn(z, c.double_indirect, DoubleOffset(k)) = b /\ (b \in Block => s[b] = z[b])
      BY <3>1, <1>3
    <3>3. WordIn(z, b, SingleOffset(k)) = WordIn(s, b, SingleOffset(k))
      BY <3>2 DEF WordIn
    <3>4. ~(k < D) /\ ~(k < FirstDouble)
      BY <2>3, <1>1
    <3> QED BY <3>2, <3>3, <3>4 DEF MapIn
  <2> QED BY <2>1, <2>2, <2>3, <1>1
<1>5. PointersIn(z, c, n) = PointersIn(s, c, n)
  BY <1>3 DEF PointersIn
<1> QED BY <1>4, <1>5 DEF RefsIn

\* The references of an inode with one block more: direct, under indirect, and under
\* double_indirect.
LEMMA GrowDirect ==
    ASSUME NEW s, NEW c, NEW d, NEW k \in Nat, k < INODE_DIRECT_BLOCKS, NEW b,
           c.direct \in [0 .. INODE_DIRECT_BLOCKS - 1 -> Pointer],
           d.direct = [c.direct EXCEPT ![k] = b]
    PROVE  RefsIn(s, d, k + 1) \subseteq RefsIn(s, c, k) \cup {<<"data", k, b>>}
<1>0. INODE_DIRECT_BLOCKS \in Nat /\ FirstDouble \in Nat /\ INODE_DIRECT_BLOCKS < FirstDouble
  BY Constants
<1>1. PointersIn(s, d, k + 1) = {}
  <2>1. INODE_DIRECT_BLOCKS \notin 0 .. (k + 1) - 1 /\ FirstDouble \notin 0 .. (k + 1) - 1
    BY <1>0
  <2>2. FirstDouble .. (k + 1) - 1 = {}
    BY <1>0
  <2> QED BY <2>1, <2>2 DEF PointersIn
<1>2. ASSUME NEW j \in 0 .. (k + 1) - 1
      PROVE  <<"data", j, MapIn(s, d, j)>> \in RefsIn(s, c, k) \cup {<<"data", k, b>>}
  <2>1. CASE j = k
    <3>1. MapIn(s, d, j) = b
      BY <2>1, <1>0 DEF MapIn
    <3> QED BY <3>1, <2>1
  <2>2. CASE j # k
    <3>1. j \in 0 .. k - 1 /\ j < INODE_DIRECT_BLOCKS
      BY <2>2, <1>0
    <3>2. d.direct[j] = c.direct[j]
      BY <2>2, <3>1, <1>0
    <3>3. MapIn(s, d, j) = MapIn(s, c, j)
      BY <3>1, <3>2 DEF MapIn
    <3> QED BY <3>1, <3>3 DEF RefsIn
  <2> QED BY <2>1, <2>2
<1> QED BY <1>1, <1>2 DEF RefsIn

LEMMA GrowSingle ==
    ASSUME NEW s, NEW z, NEW c, NEW d, NEW b, NEW p \in Block,
           NEW k \in Nat, INODE_DIRECT_BLOCKS <= k, k < FirstDouble,
           z[p][k - INODE_DIRECT_BLOCKS] = b,
           \A w \in Offset : w # k - INODE_DIRECT_BLOCKS => z[p][w] = s[p][w],
           d.direct = c.direct, d.indirect = p, k > INODE_DIRECT_BLOCKS => c.indirect = p
    PROVE  RefsIn(z, d, k + 1)
             \subseteq RefsIn(s, c, k) \cup {<<"data", k, b>>}
                         \cup (IF k = INODE_DIRECT_BLOCKS THEN {<<"indirect", 0, p>>} ELSE {})
<1> DEFINE D == INODE_DIRECT_BLOCKS
           new == {<<"data", k, b>>}
                     \cup (IF k = D THEN {<<"indirect", 0, p>>} ELSE {})
<1>0. /\ D \in Nat /\ FirstDouble \in Nat /\ FirstDouble = D + BlockSize
      /\ BlockSize \in Nat \ {0}
  BY Constants DEF FirstDouble, INODE_INDIRECT_BLOCKS
<1>2. PointersIn(z, d, k + 1) \subseteq RefsIn(s, c, k) \cup new
  <2>1. FirstDouble \notin 0 .. (k + 1) - 1 /\ FirstDouble .. (k + 1) - 1 = {}
    BY <1>0
  <2>2. PointersIn(z, d, k + 1) \subseteq {<<"indirect", 0, p>>}
    BY <2>1 DEF PointersIn
  <2>3. <<"indirect", 0, p>> \in RefsIn(s, c, k) \cup new
    <3>1. CASE k = D
      BY <3>1
    <3>2. CASE k # D
      <4>1. D \in {D} \cap 0 .. k - 1 /\ c.indirect = p
        BY <3>2, <1>0
      <4> QED BY <4>1 DEF RefsIn, PointersIn
    <3> QED BY <3>1, <3>2
  <2> QED BY <2>2, <2>3
<1>3. ASSUME NEW j \in 0 .. (k + 1) - 1
      PROVE  <<"data", j, MapIn(z, d, j)>> \in RefsIn(s, c, k) \cup new
  <2>1. CASE j = k
    <3>1. MapIn(z, d, j) = z[p][k - D]
      BY <2>1, <1>0 DEF MapIn, WordIn
    <3> QED BY <3>1, <2>1
  <2>2. CASE j # k
    <3>1. j \in 0 .. k - 1 /\ j < FirstDouble
      BY <2>2, <1>0
    <3>2. MapIn(z, d, j) = MapIn(s, c, j)
      <4>1. CASE j < D
        BY <4>1 DEF MapIn
      <4>2. CASE j >= D
        <5>1. j - D \in Offset /\ j - D # k - D
          BY <4>2, <2>2, <3>1, <1>0 DEF Offset
        <5>2. z[p][j - D] = s[p][j - D]
          BY <5>1
        <5>3. k > D
          BY <4>2, <3>1, <1>0
        <5>4. ~(j < D)
          BY <4>2, <1>0
        <5> QED BY <5>2, <5>3, <5>4, <3>1 DEF MapIn, WordIn
      <4> QED BY <4>1, <4>2, <1>0
    <3> QED BY <3>1, <3>2 DEF RefsIn
  <2> QED BY <2>1, <2>2
<1>4. RefsIn(z, d, k + 1) \subseteq RefsIn(s, c, k) \cup new
  <2>1. RefsIn(z, d, k + 1) = {<<"data", j, MapIn(z, d, j)>> : j \in 0 .. (k + 1) - 1}
                               \cup PointersIn(z, d, k + 1)
    BY DEF RefsIn
  <2> HIDE DEF new
  <2> QED BY <2>1, <1>2, <1>3
<1> QED BY <1>4

LEMMA GrowDouble ==
    ASSUME NEW s, NEW z, NEW c, NEW d, NEW b, NEW x \in Block, NEW y \in Block,
           NEW k \in Nat, FirstDouble <= k, k < Capacity,
           z[x][SingleOffset(k)] = b, z[y][DoubleOffset(k)] = x,
           \A w \in Offset : w # SingleOffset(k) => z[x][w] = s[x][w],
           \A w \in Offset : w # DoubleOffset(k) => z[y][w] = s[y][w],
           \A v \in Block : v # x /\ v # y => z[v] = s[v],
           d.direct = c.direct, d.indirect = c.indirect, d.double_indirect = y,
           c.indirect # x, c.indirect # y,
           k > FirstDouble => c.double_indirect = y,
           SingleOffset(k) # 0 => WordIn(s, y, DoubleOffset(k)) = x,
           \A j \in FirstDouble .. k - 1 :
              LET v == WordIn(s, y, DoubleOffset(j))
              IN v # y /\ (DoubleOffset(j) # DoubleOffset(k) => v # x)
    PROVE  RefsIn(z, d, k + 1)
             \subseteq RefsIn(s, c, k) \cup {<<"data", k, b>>}
               \cup (IF k = FirstDouble THEN {<<"double", 0, y>>} ELSE {})
               \cup (IF SingleOffset(k) = 0 THEN {<<"second", DoubleOffset(k), x>>} ELSE {})
<1> DEFINE D == INODE_DIRECT_BLOCKS
           q == DoubleOffset(k)
           m == SingleOffset(k)
           new == {<<"data", k, b>>}
                     \cup (IF k = FirstDouble THEN {<<"double", 0, y>>} ELSE {})
                     \cup (IF m = 0 THEN {<<"second", q, x>>} ELSE {})
<1>0. D \in Nat /\ FirstDouble \in Nat /\ D < FirstDouble
  BY Constants
<1>1. q \in Offset /\ m \in Offset
  BY Offsets
<1>2. /\ \A w \in Offset : w # m => z[x][w] = s[x][w]
      /\ \A w \in Offset : w # q => z[y][w] = s[y][w]
      /\ \A v \in Block : v # x /\ v # y => z[v] = s[v]
  OBVIOUS
<1>3. z[y][q] = x /\ z[x][m] = b
  OBVIOUS
<1> HIDE DEF q, m
<1>4. ASSUME NEW j \in FirstDouble .. k - 1
      PROVE  /\ WordIn(z, y, DoubleOffset(j)) = WordIn(s, y, DoubleOffset(j))
             /\ j \in Nat /\ FirstDouble <= j /\ j < k /\ k > FirstDouble
             /\ DoubleOffset(j) \in Offset /\ SingleOffset(j) \in Offset
             /\ DoubleOffset(j) = q => WordIn(s, y, q) = x /\ m # 0
  <2>1. j \in Nat /\ FirstDouble <= j /\ j < k /\ k > FirstDouble /\ j < Capacity
    BY <1>0, Constants
  <2>2. DoubleOffset(j) \in Offset /\ SingleOffset(j) \in Offset
    BY <2>1, Offsets
  <2>3. DoubleOffset(j) = q => m # 0
    <3>1. m = 0 => DoubleOffset(j) < q
      BY <2>1, OffsetsOrdered DEF m, q
    <3> QED BY <3>1, <2>2 DEF Offset
  <2>4. DoubleOffset(j) = q => WordIn(s, y, q) = x
    BY <2>3 DEF m, q
  <2>5. DoubleOffset(j) # q => z[y][DoubleOffset(j)] = s[y][DoubleOffset(j)]
    BY <2>2, <1>2
  <2>6. DoubleOffset(j) = q => z[y][DoubleOffset(j)] = s[y][DoubleOffset(j)]
    BY <2>4, <1>3 DEF WordIn
  <2> QED BY <2>1, <2>2, <2>3, <2>4, <2>5, <2>6 DEF WordIn
<1>5. ASSUME NEW j \in FirstDouble .. k
      PROVE  <<"second", DoubleOffset(j), WordIn(z, y, DoubleOffset(j))>>
               \in RefsIn(s, c, k) \cup new
  <2>1. CASE j = k
    <3>1. WordIn(z, y, q) = x
      BY <1>3 DEF WordIn
    <3>2. CASE m = 0
      BY <3>1, <3>2, <2>1 DEF q
    <3>3. CASE m # 0
      <4>1. k # FirstDouble
        <5>1. k = FirstDouble => k - FirstDouble = 0
          BY <1>0
        <5>2. 0 % BlockSize = 0
          BY Constants
        <5> QED BY <3>3, <5>1, <5>2 DEF m, SingleOffset, INODE_INDIRECT_BLOCKS
      <4>2. k - 1 \in FirstDouble .. k - 1
        BY <4>1, <1>0
      <4>3. DoubleOffset(k - 1) = q
        <5>1. k - 1 \in Nat /\ FirstDouble <= k - 1 /\ k - 1 < k
          BY <4>2, <1>0
        <5> QED BY <5>1, <3>3, OffsetsOrdered DEF m, q
      <4>4. WordIn(s, y, q) = x /\ c.double_indirect = y
        BY <4>2, <4>3, <1>4
      <4>5. <<"second", DoubleOffset(k - 1), WordIn(s, c.double_indirect, DoubleOffset(k - 1))>>
              \in RefsIn(s, c, k)
        BY <4>2 DEF RefsIn, PointersIn
      <4> QED BY <4>3, <4>4, <4>5, <3>1, <2>1 DEF q
    <3> QED BY <3>2, <3>3
  <2>2. CASE j # k
    <3>1. j \in FirstDouble .. k - 1
      BY <2>2, <1>0
    <3>2. c.double_indirect = y /\ WordIn(z, y, DoubleOffset(j)) = WordIn(s, y, DoubleOffset(j))
      BY <3>1, <1>4
    <3>3. <<"second", DoubleOffset(j), WordIn(s, c.double_indirect, DoubleOffset(j))>>
            \in RefsIn(s, c, k)
      BY <3>1 DEF RefsIn, PointersIn
    <3> QED BY <3>2, <3>3
  <2> QED BY <2>1, <2>2
<1>6. PointersIn(z, d, k + 1) \subseteq RefsIn(s, c, k) \cup new
  <2>1. <<"indirect", 0, c.indirect>> \in RefsIn(s, c, k)
    <3>1. D \in {D} \cap 0 .. k - 1
      BY <1>0
    <3> QED BY <3>1 DEF RefsIn, PointersIn
  <2>2. <<"double", 0, y>> \in RefsIn(s, c, k) \cup new
    <3>1. CASE k = FirstDouble
      BY <3>1
    <3>2. CASE k # FirstDouble
      <4>1. FirstDouble \in {FirstDouble} \cap 0 .. k - 1 /\ c.double_indirect = y
        BY <3>2, <1>0
      <4> QED BY <4>1 DEF RefsIn, PointersIn
    <3> QED BY <3>1, <3>2
  <2>3. FirstDouble .. (k + 1) - 1 = FirstDouble .. k
    BY <1>0
  <2> HIDE DEF new
  <2> QED BY <2>1, <2>2, <2>3, <1>5 DEF PointersIn
<1>7. ASSUME NEW j \in 0 .. (k + 1) - 1
      PROVE  <<"data", j, MapIn(z, d, j)>> \in RefsIn(s, c, k) \cup new
  <2>1. CASE j = k
    <3>1. ~(k < D) /\ ~(k < FirstDouble)
      BY <1>0
    <3>2. MapIn(z, d, k) = WordIn(z, WordIn(z, y, q), m)
      BY <3>1 DEF MapIn, q, m
    <3>3. MapIn(z, d, k) = b
      BY <3>2, <1>3 DEF WordIn
    <3> QED BY <3>3, <2>1
  <2>2. CASE j # k
    <3>1. j \in 0 .. k - 1
      BY <2>2
    <3>2. MapIn(z, d, j) = MapIn(s, c, j)
      <4>1. CASE j < D
        BY <4>1 DEF MapIn
      <4>2. CASE j >= D /\ j < FirstDouble
        <5>1. c.indirect \in Block => z[c.indirect] = s[c.indirect]
          BY <1>2
        <5> QED BY <4>2, <5>1, <1>0 DEF MapIn, WordIn
      <4>3. CASE j >= FirstDouble
        <5>1. j \in FirstDouble .. k - 1
          BY <4>3, <3>1, <1>0
        <5> DEFINE v == WordIn(s, y, DoubleOffset(j))
                   l == SingleOffset(j)
        <5>2. /\ WordIn(z, y, DoubleOffset(j)) = v /\ c.double_indirect = y
              /\ j \in Nat /\ FirstDouble <= j /\ j < k /\ l \in Offset
              /\ DoubleOffset(j) = q => v = x
          BY <5>1, <1>4
        <5>3. v # y /\ (DoubleOffset(j) # q => v # x)
          BY <5>1 DEF q
        <5>4. DoubleOffset(j) = q => l # m
          BY <5>2, OffsetsOrdered DEF q, m
        <5>5. ~(j < D) /\ ~(j < FirstDouble)
          BY <4>3, <1>0
        <5>6. MapIn(z, d, j) = WordIn(z, v, l) /\ MapIn(s, c, j) = WordIn(s, v, l)
          BY <5>2, <5>5 DEF MapIn
        <5> HIDE DEF v, l
        <5>7. WordIn(z, v, l) = WordIn(s, v, l)
          <6>1. CASE DoubleOffset(j) = q
            BY <6>1, <5>2, <5>4, <1>2 DEF WordIn
          <6>2. CASE DoubleOffset(j) # q
            BY <6>2, <5>3, <1>2 DEF WordIn
          <6> QED BY <6>1, <6>2
        <5> QED BY <5>6, <5>7
      <4> QED BY <4>1, <4>2, <4>3, <1>0
    <3> QED BY <3>1, <3>2 DEF RefsIn
  <2> QED BY <2>1, <2>2
<1>8. RefsIn(z, d, k + 1) \subseteq RefsIn(s, c, k) \cup new
  <2>1. RefsIn(z, d, k + 1) = {<<"data", j, MapIn(z, d, j)>> : j \in 0 .. (k + 1) - 1}
                               \cup PointersIn(z, d, k + 1)
    BY DEF RefsIn
  <2> HIDE DEF new
  <2> QED BY <2>1, <1>6, <1>7
<1> QED BY <1>8 DEF q, m

-----------------------------------------------------------------------------
(***************************************************************************)
(* The blocks of a file                                                    *)
(***************************************************************************)
\* What the thread that uses the file has, and what is on the disk.
Holding(s, p, c, b, a) ==
    IF p \in {"open"} \cup Moving
    THEN RefsIn(s, c, c.size_blocks) \cup (IF p = "add" THEN {<<"new", 0, b>>} ELSE {})
    ELSE IF p = "free"
    THEN {r \in RefsIn(s, c, c.size_blocks) : r[1] # "data" \/ r[2] >= a}
    ELSE {}
Stored(s, d) == RefsIn(s, d, BlocksOf(d.size))

LEMMA RefsAre == \A c, n : Refs(c, n) = RefsIn(store, c, n)
BY DEF Refs, RefsIn, PointerRefs, PointersIn, blockmap, MapIn, Word, WordIn

LEMMA OwnedIs ==
    ASSUME NEW f \in File
    PROVE  Owned(f) = IF file[owner[f]] = f
                      THEN Holding(store, pc[owner[f]], ino[owner[f]], blk[owner[f]],
                                   arg[owner[f]])
                      ELSE IF namei(owner[f], f) = 0 THEN {}
                      ELSE Stored(store, dinode[namei(owner[f], f)])
<1> DEFINE t == owner[f]
           n == namei(t, f)
<1>1. CASE file[t] = f
  <2>1. CASE pc[t] \in {"open"} \cup Moving
    BY <1>1, <2>1, RefsAre DEF Owned, Holding, Moving
  <2>2. CASE pc[t] = "free"
    BY <1>1, <2>2, RefsAre DEF Owned, Holding, Moving
  <2>3. CASE pc[t] \notin {"open", "free"} \cup Moving
    BY <1>1, <2>3 DEF Owned, Holding, Moving
  <2> QED BY <2>1, <2>2, <2>3
<1>2. CASE file[t] # f /\ n = 0
  BY <1>2 DEF Owned
<1>3. CASE file[t] # f /\ n # 0
  <2>1. Owned(f) = Refs(iget(n), iget(n).size_blocks)
    BY <1>3 DEF Owned
  <2>2. Refs(iget(n), iget(n).size_blocks) = RefsIn(store, iget(n), BlocksOf(dinode[n].size))
    BY RefsAre DEF iget
  <2>3. /\ iget(n).direct = dinode[n].direct /\ iget(n).indirect = dinode[n].indirect
        /\ iget(n).double_indirect = dinode[n].double_indirect
    BY DEF iget
  <2>4. RefsIn(store, iget(n), BlocksOf(dinode[n].size)) = Stored(store, dinode[n])
    BY <2>3, RefsSame DEF Stored
  <2> QED BY <1>3, <2>1, <2>2, <2>4
<1> QED BY <1>1, <1>2, <1>3

LEMMA RefsNext == \A c, n : Refs(c, n)' = RefsIn(store', c, n)
BY DEF Refs, RefsIn, PointerRefs, PointersIn, blockmap, MapIn, Word, WordIn

LEMMA OwnedNext ==
    ASSUME NEW f \in File
    PROVE  Owned(f)' = IF file'[owner[f]] = f
                       THEN Holding(store', pc'[owner[f]], ino'[owner[f]], blk'[owner[f]],
                                    arg'[owner[f]])
                       ELSE IF namei(owner[f], f)' = 0 THEN {}
                       ELSE Stored(store', dinode'[namei(owner[f], f)'])
<1> DEFINE t == owner[f]
           n == namei(t, f)'
           c == ino'[t]
<1>0. Refs(ino[t], ino[t].size_blocks)' = RefsIn(store', c, c.size_blocks)
  BY DEF Refs, RefsIn, PointerRefs, PointersIn, blockmap, MapIn, Word, WordIn
<1>1. CASE file'[t] = f
  <2>1. CASE pc'[t] \in {"open"} \cup Moving
    <3>1. Owned(f)' = Refs(ino[t], ino[t].size_blocks)'
                         \cup (IF pc'[t] = "add" THEN {<<"new", 0, blk'[t]>>} ELSE {})
      BY <1>1, <2>1 DEF Owned, Moving
    <3> QED BY <1>0, <1>1, <2>1, <3>1 DEF Holding
  <2>2. CASE pc'[t] = "free"
    <3>1. Owned(f)' = {r \in Refs(ino[t], ino[t].size_blocks)' :
                          r[1] # "data" \/ r[2] >= arg'[t]}
      BY <1>1, <2>2 DEF Owned
    <3> QED BY <1>0, <1>1, <2>2, <3>1 DEF Holding, Moving
  <2>3. CASE pc'[t] \notin {"open", "free"} \cup Moving
    BY <1>1, <2>3 DEF Owned, Holding, Moving
  <2> QED BY <2>1, <2>2, <2>3
<1>2. CASE file'[t] # f /\ n = 0
  BY <1>2 DEF Owned
<1>3. CASE file'[t] # f /\ n # 0
  <2> DEFINE d == dinode'[n]
             k == BlocksOf(d.size)
             i == [num |-> n, size_blocks |-> k, status |-> "UNCHANGED",
                   size |-> d.size, direct |-> d.direct, indirect |-> d.indirect,
                   double_indirect |-> d.double_indirect]
  <2>1. Owned(f)' = RefsIn(store', i, i.size_blocks)
    <3> DEFINE r == Refs(iget(namei(t, f)), iget(namei(t, f)).size_blocks)
    <3>1. r' = RefsIn(store', i, i.size_blocks)
      BY DEF iget, Refs, RefsIn, PointerRefs, PointersIn, blockmap, MapIn, Word, WordIn
    <3>2. Owned(f)' = r'
      BY <1>3 DEF Owned
    <3> QED BY <3>1, <3>2
  <2>2. /\ i.direct = d.direct /\ i.indirect = d.indirect /\ i.size_blocks = k
        /\ i.double_indirect = d.double_indirect
    OBVIOUS
  <2> HIDE DEF i
  <2>3. RefsIn(store', i, k) = RefsIn(store', d, k)
    BY <2>2, RefsSame
  <2> QED BY <1>3, <2>1, <2>2, <2>3 DEF Stored
<1> QED BY <1>1, <1>2, <1>3

-----------------------------------------------------------------------------
(***************************************************************************)
(* What the invariant says of names and numbers                            *)
(***************************************************************************)
LEMMA FilesAre ==
    ASSUME NEW t
    PROVE  /\ FilesOf(t) \subseteq File /\ 0 \notin FilesOf(t) /\ IsFiniteSet(FilesOf(t))
           /\ Cardinality(FilesOf(t)) \in Nat
           /\ \A f \in FilesOf(t) : owner[f] = t
<1>1. FilesOf(t) \subseteq File /\ 0 \notin FilesOf(t) /\ \A f \in FilesOf(t) : owner[f] = t
  BY DEF FilesOf, File
<1>2. IsFiniteSet(FilesOf(t))
  BY <1>1, Constants, FS_Subset
<1> QED BY <1>1, <1>2, FS_CardinalityType

LEMMA OwnerIs == \A f \in File : owner[f] \in Thread /\ f \in FilesOf(owner[f])
BY FilesAssumption DEF FilesOf

\* namei finds the kept entry of a name, and nothing else.
LEMMA NameiKept ==
    ASSUME TypeOK, NEW t \in Thread, DirInv(t), NEW f \in FilesOf(t),
           ~(pc[t] = "parent" /\ f = file[t])
    PROVE  /\ \A e \in Kept(t) : dir[t][e].name = f => namei(t, f) = dir[t][e].inum
           /\ (\A e \in Kept(t) : dir[t][e].name # f) => namei(t, f) = 0
<1> DEFINE k == dirsize[t]
<1>1. k \in Nat /\ Kept(t) \subseteq 1 .. k
  BY DEF TypeOK, Kept
<1>2. ASSUME NEW x \in 1 .. k, dir[t][x].name = f
      PROVE  \E e \in Kept(t) : dir[t][e] = dir[t][x]
  <2>1. CASE pc[t] # "parent"
    BY <2>1, <1>2 DEF Kept
  <2>2. CASE pc[t] = "parent" /\ x # k
    BY <2>2, <1>1, <1>2 DEF Kept
  <2>3. CASE pc[t] = "parent" /\ x = k
    <3>1. dir[t][k] # EntryOf(t)
      BY <2>3, <1>2 DEF EntryOf
    <3> QED BY <3>1, <2>3 DEF DirInv
  <2> QED BY <2>1, <2>2, <2>3
<1>3. ASSUME NEW e \in Kept(t), dir[t][e].name = f
      PROVE  namei(t, f) = dir[t][e].inum
  <2>1. \A x \in 1 .. k : dir[t][x].name = f => dir[t][x].inum = dir[t][e].inum
    <3> SUFFICES ASSUME NEW x \in 1 .. k, dir[t][x].name = f
                 PROVE  dir[t][x].inum = dir[t][e].inum
      OBVIOUS
    <3>1. PICK y \in Kept(t) : dir[t][y] = dir[t][x]
      BY <1>2
    <3>2. y = e
      BY <3>1, <1>3 DEF DirInv, Distinct
    <3> QED BY <3>1, <3>2
  <2>2. e \in 1 .. k
    BY <1>1
  <2>3. Leads(dir[t], k, f, e)
    BY <1>1, <1>3, <2>1, <2>2 DEF Leads
  <2>4. NameiIn(dir[t], k, f) = dir[t][e].inum
    BY <2>3, NameiFound
  <2> QED BY <2>4, NameiIs
<1>4. ASSUME \A e \in Kept(t) : dir[t][e].name # f
      PROVE  namei(t, f) = 0
  <2>1. \A x \in 1 .. k : dir[t][x].name # f
    BY <1>2, <1>4
  <2>2. NameiIn(dir[t], k, f) = 0
    BY <1>1, <2>1, NameiNone
  <2> QED BY <2>2, NameiIs
<1> QED BY <1>3, <1>4

\* A file that is not in use has an inode of its own if it has a name.
LEMMA NamedHas ==
    ASSUME TypeOK, NEW t \in Thread, DirInv(t), NEW f \in FilesOf(t), f # file[t],
           namei(t, f) # 0
    PROVE  /\ namei(t, f) \in Inode /\ Has(t, namei(t, f))
           /\ pc[t] \notin {"idle"} \cup Down => namei(t, f) # ino[t].num
<1>1. PICK e \in Kept(t) : dir[t][e].name = f
  BY NameiKept
<1>2. namei(t, f) = dir[t][e].inum
  BY <1>1, NameiKept
<1>3. dir[t][e].inum \in Inode
  BY DEF DirInv
<1>4. pc[t] \notin {"idle"} \cup Down => dir[t][e].inum # ino[t].num
  <2>1. CASE pc[t] \in Making \cup {"parent"}
    BY <2>1 DEF DirInv
  <2>2. CASE pc[t] \in Using
    <3>1. PICK x \in Kept(t) : dir[t][x] = EntryOf(t)
      BY <2>2 DEF DirInv
    <3>2. dir[t][x].name = file[t] /\ dir[t][x].inum = ino[t].num
      BY <3>1 DEF EntryOf
    <3>3. x # e
      BY <3>2, <1>1
    <3> QED BY <3>2, <3>3 DEF DirInv, Distinct
  <2> QED BY <2>1, <2>2 DEF DirInv, Phase
<1>5. Has(t, dir[t][e].inum)
  BY <1>4 DEF Has, Listed, Making, Down
<1> QED BY <1>2, <1>3, <1>4, <1>5

\* So has the file a thread uses, until its inode is free.
LEMMA UsingHas ==
    ASSUME NEW t, DirInv(t), pc[t] \in Using \ {"entry"}
    PROVE  ino[t].num \in Inode /\ Has(t, ino[t].num)
<1>1. PICK x \in Kept(t) : dir[t][x] = EntryOf(t)
  BY DEF DirInv
<1>2. dir[t][x].inum = ino[t].num
  BY <1>1 DEF EntryOf
<1>3. pc[t] \notin Making \cup {"entry", "idle"}
  BY DEF Making, Using
<1> QED BY <1>2, <1>3 DEF Has, Listed, DirInv

\* The thread's own file and the thread have the same phase.
LEMMA FileInUse ==
    ASSUME TypeOK, NEW t \in Thread, DirInv(t), pc[t] # "idle"
    PROVE  file[t] \in File /\ owner[file[t]] = t /\ file[t] \in FilesOf(t)
BY FilesAre DEF TypeOK, DirInv

-----------------------------------------------------------------------------
(***************************************************************************)
(* Steps that leave an invariant of another thread, or of all, alone       *)
(***************************************************************************)
LEMMA UpStep ==
    ASSUME NEW t \in Thread, Up, Alone(t), pc'[t] \notin Down
    PROVE  Up'
BY DEF Up, Alone, Down

LEMMA DirOthers ==
    ASSUME NEW t, Alone(t), NEW u \in Thread, u # t, DirInv(u)
    PROVE  DirInv(u)'
<1>1. /\ pc'[u] = pc[u] /\ file'[u] = file[u] /\ ino'[u] = ino[u]
      /\ dir'[u] = dir[u] /\ dirsize'[u] = dirsize[u]
  BY DEF Alone
<1>2. Kept(u)' = Kept(u) /\ EntryOf(u)' = EntryOf(u)
  BY <1>1 DEF Kept, EntryOf
<1>3. Distinct(dir[u], Kept(u))'
  BY <1>1, <1>2 DEF DirInv
<1> QED BY <1>1, <1>2, <1>3 DEF DirInv

LEMMA SizeOthers ==
    ASSUME TypeOK, NEW t, Alone(t), DiskMine(t), NumInv, NEW u \in Thread, u # t, t \in Thread,
           DirInv(u), SizeInv(u)
    PROVE  SizeInv(u)'
<1>1. pc[u] \in {"open", "add"} => dinode'[ino[u].num] = dinode[ino[u].num]
  <2> SUFFICES ASSUME pc[u] \in {"open", "add"}
               PROVE  dinode'[ino[u].num] = dinode[ino[u].num]
    OBVIOUS
  <2>1. ino[u].num \in Inode /\ Has(u, ino[u].num)
    BY UsingHas DEF Using
  <2> QED BY <2>1 DEF DiskMine, NumInv
<1>2. /\ pc'[u] = pc[u] /\ file'[u] = file[u] /\ ino'[u] = ino[u] /\ cursor'[u] = cursor[u]
      /\ arg'[u] = arg[u]
  BY DEF Alone
<1>3. (dinode[ino[u].num] = OnDisk(ino[u]))' <=> dinode'[ino[u].num] = OnDisk(ino[u])
  BY <1>2 DEF OnDisk
<1> QED BY <1>1, <1>2, <1>3 DEF SizeInv, OnDisk

\* A step that stays in the same file.
LEMMA DirKeep ==
    ASSUME NEW t, DirInv(t), pc[t] \in Using, pc'[t] \in Using, file'[t] = file[t],
           ino'[t].num = ino[t].num, dir'[t] = dir[t], dirsize'[t] = dirsize[t]
    PROVE  DirInv(t)'
<1>1. Kept(t)' = Kept(t) /\ EntryOf(t)' = EntryOf(t)
  BY DEF Kept, EntryOf, Using
<1>2. pc'[t] \notin Making \cup {"parent", "idle"} /\ pc[t] \notin Making \cup {"parent", "idle"}
  BY DEF Using, Making
<1>3. pc'[t] \in Phase
  BY DEF Phase
<1> QED BY <1>1, <1>2, <1>3 DEF DirInv, Making

\* A step in which a thread gets at most an inode that was free, and gives back at most its
\* own, which is empty.
LEMMA NumMove ==
    ASSUME TypeOK, NumInv, NEW t \in Thread, Alone(t), DiskMine(t),
           \A u \in Thread : DirInv(u),
           \A u \in Thread : pc[u] \notin Down,
           \A n \in Inode : Has(t, n)' => n \in inode_bitmap' /\ (Has(t, n) \/ n \notin inode_bitmap),
           \A n \in inode_bitmap : n \in inode_bitmap' \/ (Has(t, n) /\ dinode'[n].size = 0),
           pc'[t] \in Making \cup {"new inode", "emptied", "ifree"} =>
              dinode'[ino'[t].num].size = 0
    PROVE  NumInv'
<1>1. ASSUME NEW u \in Thread \ {t}, NEW n \in Inode
      PROVE  Has(u, n)' <=> Has(u, n)
  <2>1. pc'[u] = pc[u] /\ ino'[u] = ino[u] /\ dir'[u] = dir[u] /\ dirsize'[u] = dirsize[u]
    BY DEF Alone
  <2>2. Kept(u)' = Kept(u)
    BY <2>1 DEF Kept
  <2> QED BY <2>1, <2>2 DEF Has, Listed
<1>2. \A u \in Thread, n \in Inode : Has(u, n)' => n \in inode_bitmap'
  BY <1>1 DEF NumInv
<1>3. \A u, v \in Thread, n \in Inode : Has(u, n)' /\ Has(v, n)' => u = v
  <2>1. \A u \in Thread \ {t}, n \in Inode : Has(u, n)' => n \in inode_bitmap /\ ~Has(t, n)
    BY <1>1 DEF NumInv
  <2>2. \A u \in Thread \ {t}, n \in Inode : Has(u, n)' => ~Has(t, n)'
    BY <2>1
  <2>3. \A u, v \in Thread \ {t}, n \in Inode : Has(u, n)' /\ Has(v, n)' => u = v
    BY <1>1 DEF NumInv
  <2> QED BY <2>2, <2>3
<1>4. \A n \in Inode : n \notin inode_bitmap' => dinode'[n].size = 0
  BY DEF DiskMine, NumInv
<1>5. ASSUME NEW u \in Thread \ {t}, pc'[u] \in Making \cup {"new inode", "emptied", "ifree"}
      PROVE  dinode'[ino'[u].num].size = 0
  <2>1. pc'[u] = pc[u] /\ ino'[u] = ino[u]
    BY DEF Alone
  <2>2. dinode[ino[u].num].size = 0
    BY <2>1, <1>5 DEF NumInv
  <2>3. ino[u].num \in Inode /\ Has(u, ino[u].num)
    <3>1. CASE pc[u] \in Making
      BY <3>1 DEF Has, DirInv, Making
    <3>2. CASE pc[u] \in {"new inode", "emptied", "ifree"}
      BY <3>2, UsingHas DEF Using
    <3> QED BY <3>1, <3>2, <2>1, <1>5
  <2>4. dinode'[ino[u].num] = dinode[ino[u].num]
    BY <2>3 DEF DiskMine, NumInv
  <2> QED BY <2>1, <2>2, <2>4
<1> QED BY <1>2, <1>3, <1>4, <1>5 DEF NumInv

\* A step that gives a thread no inode.
LEMMA NumStep ==
    ASSUME TypeOK, NumInv, NEW t \in Thread, Alone(t), DiskMine(t),
           \A u \in Thread : DirInv(u),
           \A u \in Thread : pc[u] \notin Down,
           inode_bitmap' = inode_bitmap,
           \A n \in Inode : Has(t, n)' => Has(t, n),
           pc'[t] \in Making \cup {"new inode", "emptied", "ifree"} =>
              dinode'[ino'[t].num].size = 0
    PROVE  NumInv'
<1>1. \A n \in Inode : Has(t, n)' => n \in inode_bitmap' /\ (Has(t, n) \/ n \notin inode_bitmap)
  BY DEF NumInv
<1> QED BY <1>1, NumMove

\* A file that neither is nor was in use keeps its blocks, if its name leads where it did
\* and the blocks of pointers stay.
LEMMA OtherOwned ==
    ASSUME TypeOK, NumInv, \A u \in Thread : DirInv(u), Up,
           NEW t \in Thread, Alone(t), DiskMine(t),
           NEW f \in File, f # file[t], f # file'[t],
           owner[f] = t => namei(t, f)' = namei(t, f),
           \A r \in Owned(f) : r[1] # "data" => store'[r[3]] = store[r[3]]
    PROVE  Owned(f)' = Owned(f)
<1> DEFINE u == owner[f]
           n == namei(u, f)
<1>1. u \in Thread /\ f \in FilesOf(u)
  BY OwnerIs
<1>2. namei(u, f)' = n
  <2>1. CASE u = t
    BY <2>1
  <2>2. CASE u # t
    <3>1. dir'[u] = dir[u] /\ dirsize'[u] = dirsize[u]
      BY <2>2, <1>1 DEF Alone
    <3> QED BY <3>1, NameiIs, NameiNext
  <2> QED BY <2>1, <2>2
<1>3. file[u] = f <=> file'[u] = f
  BY <1>1 DEF Alone
<1>4. CASE file[u] = f
  <2>1. u # t
    BY <1>4
  <2>2. pc'[u] = pc[u] /\ ino'[u] = ino[u] /\ blk'[u] = blk[u] /\ arg'[u] = arg[u]
    BY <2>1, <1>1 DEF Alone
  <2> DEFINE c == ino[u]
             k == c.size_blocks
  <2>3. /\ Owned(f) = Holding(store, pc[u], c, blk[u], arg[u])
        /\ Owned(f)' = Holding(store', pc[u], c, blk[u], arg[u])
    BY <1>3, <1>4, <2>2, OwnedIs, OwnedNext
  <2>4. CASE pc[u] \in {"open", "free"} \cup Moving
    <3>1. k \in Nat
      BY <1>1 DEF TypeOK, Copy
    <3>2. \A r \in PointersIn(store, c, k) : r[1] # "data"
      BY DEF PointersIn
    <3>3. PointersIn(store, c, k) \subseteq Owned(f)
      BY <2>3, <2>4, <3>2 DEF Holding, RefsIn
    <3>4. RefsIn(store', c, k) = RefsIn(store, c, k)
      BY <3>1, <3>2, <3>3, RefsFrame
    <3> QED BY <2>3, <3>4 DEF Holding
  <2>5. CASE pc[u] \notin {"open", "free"} \cup Moving
    BY <2>3, <2>5 DEF Holding
  <2> QED BY <2>4, <2>5
<1>5. CASE file[u] # f /\ n = 0
  BY <1>2, <1>3, <1>5, OwnedIs, OwnedNext
<1>6. CASE file[u] # f /\ n # 0
  <2>1. n \in Inode /\ Has(u, n) /\ (pc[u] \notin {"idle"} \cup Down => n # ino[u].num)
    BY <1>1, <1>6, NamedHas
  <2>2. dinode'[n] = dinode[n]
    <3>1. CASE u = t
      <4>1. CASE pc[t] # "idle"
        BY <4>1, <3>1, <2>1 DEF DiskMine, Up, Down
      <4>2. CASE pc[t] = "idle"
        BY <4>2, <3>1, <2>1 DEF DiskMine
      <4> QED BY <4>1, <4>2
    <3>2. CASE u # t
      BY <3>2, <1>1, <2>1 DEF DiskMine, NumInv
    <3> QED BY <3>1, <3>2
  <2> DEFINE d == dinode[n]
             k == BlocksOf(d.size)
  <2>3. Owned(f) = RefsIn(store, d, k) /\ Owned(f)' = RefsIn(store', d, k)
    BY <1>2, <1>3, <1>6, <2>2, OwnedIs, OwnedNext DEF Stored
  <2>4. k \in Nat
    BY <2>1, BlocksOfIs DEF TypeOK, DiskInode
  <2>5. \A r \in PointersIn(store, d, k) : r[1] # "data" /\ r \in Owned(f)
    BY <2>3 DEF PointersIn, RefsIn
  <2>6. RefsIn(store', d, k) = RefsIn(store, d, k)
    BY <2>4, <2>5, RefsFrame
  <2> QED BY <2>3, <2>6
<1> QED BY <1>4, <1>5, <1>6

-----------------------------------------------------------------------------
(***************************************************************************)
(* A step of a thread that uses at most the file f                         *)
(***************************************************************************)
LEMMA UpHas ==
    ASSUME IInv, NEW t \in Thread, pc[t] \notin Down
    PROVE  /\ Up /\ TypeOK /\ NumInv /\ BlocksDisjoint
           /\ \A u \in Thread : DirInv(u) /\ SizeInv(u)
           /\ \A n \in Inode : dinode[n].size <= Capacity
BY DEF IInv

\* old are blocks that f has had, new ones that were free.
LEMMA DisjointMove ==
    ASSUME IInv, NEW t \in Thread, pc[t] \notin Down, NEW f \in FilesOf(t), OthersKept(t, f),
           NEW old, NEW new, Owned(f)' \subseteq old \cup new,
           \A r \in Owned(f)' : r[3] \in block_bitmap',
           \A r \in old : \E s \in Owned(f) : s[3] = r[3],
           \A r \in new : r[3] \notin block_bitmap,
           Once(old), Once(new)
    PROVE  BlocksDisjoint' /\ Apart(t)
<1>0. /\ TypeOK /\ NumInv /\ Up /\ BlocksDisjoint /\ \A u \in Thread : DirInv(u)
  BY UpHas
<1>1. f \in File /\ owner[f] = t /\ f # 0
  BY FilesAre
<1>2. ASSUME NEW g \in File \ {f}
      PROVE  Owned(g)' = Owned(g)
  <2>1. g # file[t] /\ g # file'[t]
    BY <1>1, <1>2 DEF File, OthersKept
  <2>2. owner[g] = t => namei(t, g)' = namei(t, g)
    BY OwnerIs DEF OthersKept
  <2>3. /\ Alone(t) /\ DiskMine(t)
        /\ \A r \in Owned(g) : r[1] # "data" => store'[r[3]] = store[r[3]]
    BY DEF OthersKept
  <2> QED BY <1>0, <2>1, <2>2, <2>3, OtherOwned
<1>3. \A g, h \in File : \A r \in Owned(g), s \in Owned(h) :
         r[3] \in block_bitmap /\ (r[3] = s[3] => g = h /\ r = s)
  BY <1>0 DEF BlocksDisjoint
<1>4. \A g \in File : \A r \in Owned(g)' : r[3] \in block_bitmap'
  BY <1>2 DEF OthersKept
<1>5. \A r \in old : r[3] \in block_bitmap
  BY <1>1, <1>3
<1>6. ASSUME NEW r \in Owned(f)', NEW s \in Owned(f)', r[3] = s[3]
      PROVE  r = s
  BY <1>5, <1>6 DEF Once
<1>7. ASSUME NEW h \in File \ {f}, NEW r \in Owned(f)', NEW s \in Owned(h)'
      PROVE  r[3] # s[3]
  <2>1. s \in Owned(h) /\ s[3] \in block_bitmap
    BY <1>2, <1>3
  <2>2. CASE r \in old
    <3>1. PICK q \in Owned(f) : q[3] = r[3]
      BY <2>2
    <3> QED BY <3>1, <2>1, <1>1, <1>3
  <2>3. CASE r \in new
    BY <2>1, <2>3
  <2> QED BY <2>2, <2>3
<1>8. \A g, h \in File : \A r \in Owned(g)', s \in Owned(h)' : r[3] = s[3] => g = h /\ r = s
  <2> SUFFICES ASSUME NEW g \in File, NEW h \in File, NEW r \in Owned(g)', NEW s \in Owned(h)',
                      r[3] = s[3]
               PROVE  g = h /\ r = s
    OBVIOUS
  <2>1. CASE g = f /\ h = f
    BY <2>1, <1>6
  <2>2. CASE g = f /\ h # f
    BY <2>2, <1>7
  <2>3. CASE g # f /\ h = f
    BY <2>3, <1>7
  <2>4. CASE g # f /\ h # f
    BY <2>4, <1>2, <1>3
  <2> QED BY <2>1, <2>2, <2>3, <2>4
<1> QED BY <1>4, <1>8 DEF BlocksDisjoint, Apart

LEMMA DisjointStep ==
    ASSUME IInv, NEW t \in Thread, pc[t] \notin Down, NEW f \in FilesOf(t), OthersKept(t, f),
           NEW new, Owned(f)' \subseteq Owned(f) \cup new,
           \A r \in Owned(f)' : r[3] \in block_bitmap',
           \A r \in new : r[3] \notin block_bitmap,
           Once(new)
    PROVE  BlocksDisjoint' /\ Apart(t)
<1>0. PICK old : old = Owned(f)
  OBVIOUS
<1>1. f \in File
  BY FilesAre
<1>2. /\ \A r \in old : \E s \in Owned(f) : s[3] = r[3]
      /\ Once(old) /\ Owned(f)' \subseteq old \cup new
  BY <1>0, <1>1, UpHas DEF BlocksDisjoint, Once
<1> QED BY <1>2, DisjointMove

\* In particular if the file gets no block.
LEMMA DisjointLess ==
    ASSUME IInv, NEW t \in Thread, pc[t] \notin Down, NEW f \in FilesOf(t), OthersKept(t, f),
           Owned(f)' \subseteq Owned(f),
           \A r \in Owned(f)' : r[3] \in block_bitmap'
    PROVE  BlocksDisjoint' /\ Apart(t)
<1>0. PICK new : new = {}
  OBVIOUS
<1>1. /\ Owned(f)' \subseteq Owned(f) \cup new /\ Once(new)
      /\ \A r \in new : r[3] \notin block_bitmap
  BY <1>0 DEF Once
<1> QED BY <1>1, DisjointStep

LEMMA StepKeeps ==
    ASSUME IInv, NEW t \in Thread, pc[t] \notin Down, pc'[t] \notin Down, Alone(t), DiskMine(t),
           TypeOK', DirInv(t)', SizeInv(t)', NumInv', BlocksDisjoint', Apart(t),
           \A n \in Inode : dinode'[n].size <= Capacity
    PROVE  IInv' /\ Apart(t)
<1>1. /\ Up /\ TypeOK /\ NumInv /\ \A u \in Thread : DirInv(u) /\ SizeInv(u)
  BY UpHas
<1>2. \A u \in Thread : DirInv(u)' /\ SizeInv(u)'
  BY <1>1, DirOthers, SizeOthers
<1>3. Up'
  BY <1>1, UpStep
<1> QED BY <1>2, <1>3 DEF IInv

\* What a file in use has is what its thread is holding.
LEMMA InUse ==
    ASSUME TypeOK, NEW t \in Thread, NEW f \in FilesOf(t)
    PROVE  /\ file[t] = f => Owned(f) = Holding(store, pc[t], ino[t], blk[t], arg[t])
           /\ file'[t] = f => Owned(f)' = Holding(store', pc'[t], ino'[t], blk'[t], arg'[t])
BY FilesAre, OwnedIs, OwnedNext

\* A step within a file that takes no block and changes no word but of its data.
LEMMA WithinFile ==
    ASSUME IInv, NEW t \in Thread, pc[t] \in Using, pc'[t] \in Using, Alone(t), DiskMine(t),
           file'[t] = file[t], dir'[t] = dir[t], dirsize'[t] = dirsize[t],
           block_bitmap' = block_bitmap,
           \A g \in File : \A r \in Owned(g) :
              r[1] # "data" \/ g # file[t] => store'[r[3]] = store[r[3]],
           Holding(store', pc'[t], ino'[t], blk'[t], arg'[t])
              \subseteq Holding(store, pc[t], ino[t], blk[t], arg[t])
    PROVE  BlocksDisjoint' /\ Apart(t)
<1>1. pc[t] \notin Down /\ pc[t] # "idle"
  BY DEF Using, Down
<1>2. /\ Up /\ TypeOK /\ NumInv /\ BlocksDisjoint
      /\ \A u \in Thread : DirInv(u) /\ SizeInv(u)
  BY <1>1, UpHas
<1>3. PICK f \in FilesOf(t) : f = file[t]
  BY <1>1, <1>2, FileInUse
<1>4. Owned(f)' \subseteq Owned(f)
  BY <1>2, <1>3, InUse
<1>5. \A g \in FilesOf(t) \ {f} : namei(t, g)' = namei(t, g)
  BY NameiIs, NameiNext
<1>6. \A g \in File : \A r \in Owned(g) : r[3] \in block_bitmap'
  BY <1>2 DEF BlocksDisjoint
<1>7. file[t] \in {0, f} /\ file'[t] \in {0, f}
  BY <1>3
<1>8. \A r \in Owned(f)' : r[3] \in block_bitmap'
  BY <1>3, <1>4, <1>6, FilesAre
<1>9. OthersKept(t, f)
  <2>1. \A g \in File \ {f} : \A r \in Owned(g) : store'[r[3]] = store[r[3]]
    BY <1>3
  <2> QED BY <1>5, <1>6, <1>7, <2>1 DEF OthersKept
<1> QED BY <1>1, <1>4, <1>8, <1>9, DisjointLess

LEMMA StutterKeeps ==
    ASSUME IInv, UNCHANGED vars
    PROVE  IInv'
<1> USE DEF vars, diskVars, blockVars, dirVars, threadVars
<1>1. TypeOK'
  BY DEF IInv, TypeOK, Free
<1>2. Up' <=> Up
  BY DEF Up
<1>3. \A t \in Thread : DirInv(t)' <=> DirInv(t)
  BY DEF DirInv, Kept, EntryOf
<1>4. \A t \in Thread : SizeInv(t)' <=> SizeInv(t)
  BY DEF SizeInv, OnDisk
<1>5. NumInv' <=> NumInv
  BY DEF NumInv, Has, Listed, Kept
<1>6. \A f \in File : Owned(f)' = Owned(f)
  <2> SUFFICES ASSUME NEW f \in File PROVE Owned(f)' = Owned(f)
    OBVIOUS
  <2>1. namei(owner[f], f)' = namei(owner[f], f)
    BY NameiIs, NameiNext
  <2> QED BY <2>1, OwnedIs, OwnedNext
<1>7. BlocksDisjoint' <=> BlocksDisjoint
  BY <1>2, <1>6 DEF BlocksDisjoint
<1> QED BY <1>1, <1>2, <1>3, <1>4, <1>5, <1>7 DEF IInv

-----------------------------------------------------------------------------
(***************************************************************************)
(* minifile_write                                                          *)
(***************************************************************************)
\* A step within a file says nothing of directories or numbers.
LEMMA InFile ==
    ASSUME IInv, NEW t \in Thread, pc[t] \in Using \ {"entry"}, pc'[t] \in Using,
           Alone(t), DiskMine(t), file'[t] = file[t], ino'[t].num = ino[t].num,
           dir'[t] = dir[t], dirsize'[t] = dirsize[t], inode_bitmap' = inode_bitmap,
           pc'[t] \in {"new inode", "emptied", "ifree"} => dinode'[ino[t].num].size = 0
    PROVE  DirInv(t)' /\ NumInv'
<1>1. pc[t] \notin Down
  BY DEF Using, Down
<1>2. /\ Up /\ TypeOK /\ NumInv /\ \A u \in Thread : DirInv(u)
  BY <1>1, UpHas
<1>3. DirInv(t)'
  BY <1>2, DirKeep
<1>4. \A n \in Inode : Has(t, n)' => Has(t, n)
  <2>1. Kept(t)' = Kept(t)
    BY DEF Kept, Using
  <2>2. pc[t] \notin Making \cup {"entry"} /\ pc'[t] \notin Making
    BY DEF Making, Using
  <2>3. \A n : Listed(t, n)' <=> Listed(t, n)
    BY <2>1 DEF Listed
  <2> QED BY <2>2, <2>3 DEF Has
<1>5. \A u \in Thread : pc[u] \notin Down
  BY <1>2 DEF Up, Down
<1>6. pc'[t] \in Making \cup {"new inode", "emptied", "ifree"} => dinode'[ino'[t].num].size = 0
  BY DEF Making, Using
<1>7. NumInv'
  BY <1>2, <1>4, <1>5, <1>6, NumStep
<1> QED BY <1>3, <1>7

LEMMA WriteOverKeeps ==
    ASSUME IInv, NEW t \in Thread, NEW len \in 1 .. BlockSize,
           len <= BlockSize - (cursor[t] % BlockSize), cursor[t] + len <= MaxSize[file[t]],
           WriteOver(t, len)
    PROVE  IInv' /\ Apart(t)
<1>1. /\ pc[t] = "open" /\ pc' = [pc EXCEPT ![t] = "data"] /\ ~AtEnd(t)
      /\ arg' = [arg EXCEPT ![t] = len]
      /\ UNCHANGED <<diskVars, file, ino, cursor, blk, content, calls, torn>>
  BY DEF WriteOver, Goto, Set
<1>2. pc[t] \notin Down
  BY <1>1 DEF Down
<1>3. /\ Up /\ TypeOK /\ NumInv /\ \A u \in Thread : DirInv(u) /\ SizeInv(u)
      /\ \A n \in Inode : dinode[n].size <= Capacity
  BY <1>2, UpHas
<1>4. pc'[t] = "data" /\ arg'[t] = len
  BY <1>1, <1>3 DEF TypeOK
<1>5. Alone(t) /\ DiskMine(t)
  BY <1>1, <1>3 DEF Alone, DiskMine, TypeOK, diskVars, dirVars
<1>6. TypeOK'
  <2>1. len \in Nat
    OBVIOUS
  <2> QED BY <1>1, <1>3, <2>1 DEF TypeOK, diskVars, dirVars, blockVars, Free
<1>7. DirInv(t)' /\ NumInv'
  <2>1. pc[t] \in Using \ {"entry"} /\ pc'[t] \in Using /\ pc'[t] \notin {"new inode", "emptied", "ifree"}
    BY <1>1, <1>4 DEF Using
  <2> QED BY <1>1, <1>5, <2>1, InFile DEF diskVars, dirVars
<1>8. SizeInv(t)'
  <2>1. /\ ino[t].size \in Nat /\ ino[t].size_blocks \in Nat /\ cursor[t] \in Nat
    BY <1>3 DEF TypeOK, Copy
  <2>2. BlockSize \in Nat /\ ino[t].size_blocks * BlockSize \in Nat
    BY <2>1, Constants
  <2>3. cursor[t] < ino[t].size
    BY <1>1, <2>1 DEF AtEnd
  <2>4. /\ ino[t].size <= Capacity /\ ino[t].size <= ino[t].size_blocks * BlockSize
        /\ ino[t].size_blocks <= ino[t].size
    BY <1>1, <1>3 DEF SizeInv, Moving
  <2>5. cursor[t] < ino[t].size_blocks * BlockSize
    BY <2>1, <2>2, <2>3, <2>4
  <2>6. ino'[t] = ino[t] /\ cursor'[t] = cursor[t] /\ file'[t] = file[t]
    BY <1>1
  <2> QED BY <1>4, <2>4, <2>5, <2>6 DEF SizeInv, Moving
<1>9. BlocksDisjoint' /\ Apart(t)
  <2>1. Holding(store', pc'[t], ino'[t], blk'[t], arg'[t])
           \subseteq Holding(store, pc[t], ino[t], blk[t], arg[t])
    BY <1>1, <1>4 DEF Holding, Moving, diskVars
  <2>2. pc[t] \in Using /\ pc'[t] \in Using
    BY <1>1, <1>4 DEF Using
  <2> QED BY <1>1, <1>5, <2>1, <2>2, WithinFile DEF diskVars, dirVars, blockVars
<1>10. pc'[t] \notin Down /\ \A n \in Inode : dinode'[n].size <= Capacity
  BY <1>1, <1>3, <1>4 DEF Down, diskVars
<1> QED BY <1>2, <1>5, <1>6, <1>7, <1>8, <1>9, <1>10, StepKeeps

LEMMA WriteAtEndKeeps ==
    ASSUME IInv, NEW t \in Thread, NEW len \in 1 .. BlockSize,
           len <= BlockSize - (cursor[t] % BlockSize), cursor[t] + len <= MaxSize[file[t]],
           WriteAtEnd(t, len)
    PROVE  IInv' /\ Apart(t)
<1>1. /\ pc[t] = "open" /\ pc' = [pc EXCEPT ![t] = "add"] /\ AtEnd(t) /\ Free # {}
      /\ balloc(Lowest(1)) /\ blk' = [blk EXCEPT ![t] = Min(Lowest(1))]
      /\ arg' = [arg EXCEPT ![t] = len]
      /\ UNCHANGED <<inode_bitmap, dinode, store, dirVars, file, ino, cursor, content, calls,
                     torn>>
  BY DEF WriteAtEnd, Goto, Set
<1>2. pc[t] \notin Down
  BY <1>1 DEF Down
<1>3. /\ Up /\ TypeOK /\ NumInv /\ BlocksDisjoint /\ \A u \in Thread : DirInv(u) /\ SizeInv(u)
      /\ \A n \in Inode : dinode[n].size <= Capacity
  BY <1>2, UpHas
<1>4. PICK b \in Free : Lowest(1) = {b} /\ Min(Lowest(1)) = b
  BY <1>1, <1>3, LowestOne DEF TypeOK
<1>5. pc'[t] = "add" /\ arg'[t] = len /\ blk'[t] = b
  BY <1>1, <1>3, <1>4 DEF TypeOK
<1>6. b \in Block /\ b \notin block_bitmap /\ block_bitmap' = block_bitmap \cup {b}
  BY <1>1, <1>4 DEF Free, balloc
<1>7. Alone(t) /\ DiskMine(t)
  BY <1>1, <1>3 DEF Alone, DiskMine, TypeOK, dirVars
<1>8. TypeOK'
  <2>1. len \in Nat /\ b \in Pointer
    BY <1>6 DEF Pointer
  <2>2. block_bitmap' \subseteq Block /\ free_blocks' = Cardinality(Free')
    <3>1. {b} \subseteq Free
      OBVIOUS
    <3> QED BY <3>1, <1>1, <1>3, <1>4, BallocKeeps DEF TypeOK
  <2>3. blk' \in [Thread -> Pointer]
    BY <1>1, <1>3, <1>4, <2>1 DEF TypeOK
  <2> QED BY <1>1, <1>3, <2>1, <2>2, <2>3 DEF TypeOK, dirVars
<1>9. DirInv(t)' /\ NumInv'
  <2>1. pc[t] \in Using \ {"entry"} /\ pc'[t] \in Using /\ pc'[t] \notin {"new inode", "emptied", "ifree"}
    BY <1>1, <1>5 DEF Using
  <2> QED BY <1>1, <1>7, <2>1, InFile DEF dirVars
<1>10. SizeInv(t)'
  <2>1. /\ ino[t].size \in Nat /\ cursor[t] \in Nat
    BY <1>3 DEF TypeOK, Copy
  <2>2. /\ ino[t].size <= Capacity /\ ino[t].size <= ino[t].size_blocks * BlockSize
        /\ ino[t].size_blocks <= ino[t].size /\ cursor[t] <= ino[t].size
        /\ dinode[ino[t].num] = OnDisk(ino[t])
    BY <1>1, <1>3 DEF SizeInv, Moving
  <2>3. cursor[t] = ino[t].size
    BY <1>1, <2>1, <2>2 DEF AtEnd
  <2>4. ino'[t] = ino[t] /\ cursor'[t] = cursor[t] /\ file'[t] = file[t] /\ dinode' = dinode
    BY <1>1
  <2> QED BY <1>5, <2>2, <2>3, <2>4 DEF SizeInv, Moving, OnDisk
<1>11. BlocksDisjoint' /\ Apart(t)
  <2>1. PICK f \in FilesOf(t) : f = file[t]
    BY <1>1, <1>3, FileInUse
  <2> DEFINE new == {<<"new", 0, b>>}
  <2>2. file[t] = f /\ file'[t] = f
    BY <1>1, <2>1
  <2>3. Holding(store', pc'[t], ino'[t], blk'[t], arg'[t])
           \subseteq Holding(store, pc[t], ino[t], blk[t], arg[t]) \cup new
    BY <1>1, <1>5 DEF Holding, Moving
  <2>4. Owned(f)' \subseteq Owned(f) \cup new
    BY <1>3, <2>2, <2>3, InUse
  <2>5. \A g \in File : \A r \in Owned(g) : r[3] \in block_bitmap
    BY <1>3 DEF BlocksDisjoint
  <2>6. \A g \in FilesOf(t) \ {f} : namei(t, g)' = namei(t, g)
    BY <1>1, NameiIs, NameiNext DEF dirVars
  <2>7. /\ \A r \in new : r[3] \notin block_bitmap /\ r[3] \in block_bitmap'
        /\ Once(new)
    BY <1>6 DEF Once
  <2> HIDE DEF new
  <2>8. \A r \in Owned(f)' : r[3] \in block_bitmap'
    BY <2>4, <2>5, <2>7, <1>6, FilesAre
  <2>9. OthersKept(t, f)
    BY <2>2, <2>5, <2>6, <1>1, <1>6, <1>7 DEF OthersKept
  <2> QED BY <1>2, <2>4, <2>7, <2>8, <2>9, DisjointStep
<1>12. pc'[t] \notin Down /\ \A n \in Inode : dinode'[n].size <= Capacity
  BY <1>1, <1>3, <1>5 DEF Down
<1> QED BY <1>2, <1>7, <1>8, <1>9, <1>10, <1>11, <1>12, StepKeeps

LEMMA DiskFullKeeps ==
    ASSUME IInv, NEW t \in Thread, DiskFull(t)
    PROVE  IInv'
<1>1. /\ pc[t] = "open" /\ dinode' = [dinode EXCEPT ![ino[t].num] = OnDisk(ino[t])]
      /\ UNCHANGED <<blockVars, inode_bitmap, store, dirVars, threadVars, content, calls,
                     torn>>
  BY DEF DiskFull, iupdate
<1>2. pc[t] \notin Down
  BY <1>1 DEF Down
<1>3. TypeOK /\ SizeInv(t)
  BY <1>2, UpHas
<1>4. dinode[ino[t].num] = OnDisk(ino[t])
  BY <1>1, <1>3 DEF SizeInv
<1>5. dinode' = dinode
  BY <1>1, <1>3, <1>4 DEF TypeOK
<1>6. UNCHANGED vars
  BY <1>1, <1>5 DEF vars, diskVars
<1> QED BY <1>6, StutterKeeps

\* A block starts at a multiple of its size.
LEMMA BlockStart ==
    ASSUME NEW x \in Nat
    PROVE  /\ x - (x % BlockSize) \in Nat
           /\ (x - (x % BlockSize)) \div BlockSize = x \div BlockSize
<1> DEFINE q == x \div BlockSize
           m == x % BlockSize
<1>1. BlockSize \in Nat \ {0} /\ q \in Nat /\ m \in 0 .. BlockSize - 1 /\ x = BlockSize * q + m
  BY Constants, Division
<1> HIDE DEF q, m
<1>2. BlockSize * q \in Nat
  BY <1>1
<1>3. x - m = BlockSize * q
  BY <1>1, <1>2
<1>4. (BlockSize * q) \div BlockSize = q
  BY <1>1, <1>2
<1> QED BY <1>2, <1>3, <1>4 DEF q, m

LEMMA MaxSizeIs == \A f \in File : MaxSize[f] \in Nat /\ MaxSize[f] <= Capacity
BY FilesAssumption, Constants DEF Capacity

LEMMA WriteDataKeeps ==
    ASSUME IInv, NEW t \in Thread, WriteData(t)
    PROVE  IInv' /\ Apart(t)
<1> DEFINE c == ino[t]
           at == cursor[t] - (cursor[t] % BlockSize)
           b == blockmap(c, at \div BlockSize)
           words == [w \in Offset |-> IF at + w \in Written(t) THEN NewDatum(t, at + w)
                                                               ELSE store[b][w]]
<1>1. /\ pc[t] = "data" /\ pc' = [pc EXCEPT ![t] = "update"]
      /\ store' = [store EXCEPT ![b] = words]
      /\ UNCHANGED <<blockVars, inode_bitmap, dinode, dirVars, file, ino, cursor, blk, arg,
                     content, calls, torn>>
  BY DEF WriteData, Goto
<1>2. pc[t] \notin Down
  BY <1>1 DEF Down
<1>3. /\ Up /\ TypeOK /\ NumInv /\ BlocksDisjoint /\ \A u \in Thread : DirInv(u) /\ SizeInv(u)
      /\ \A n \in Inode : dinode[n].size <= Capacity
  BY <1>2, UpHas
<1>4. pc'[t] = "update"
  BY <1>1, <1>3 DEF TypeOK
<1>5. Alone(t) /\ DiskMine(t)
  BY <1>1, <1>3 DEF Alone, DiskMine, TypeOK, dirVars
<1>6. /\ c.size \in Nat /\ c.size_blocks \in Nat /\ cursor[t] \in Nat /\ arg[t] \in Nat
      /\ file[t] \in File
  <2>1. file[t] \in File
    BY <1>1, <1>3, FileInUse
  <2> QED BY <1>3, <2>1 DEF TypeOK, Copy
<1>7. TypeOK'
  <2>1. at \in Nat
    BY <1>6, BlockStart
  <2>2. \A w \in Offset : NewDatum(t, at + w) \in Nat
    <3> SUFFICES ASSUME NEW w \in Offset PROVE NewDatum(t, at + w) \in Nat
      OBVIOUS
    <3>1. NBlocks \in Nat /\ BlockSize \in Nat
      BY Constants
    <3>2. w \in Nat
      BY <3>1 DEF Offset
    <3> HIDE DEF at
    <3>3. at + w \in Nat /\ file[t] \in Nat
      BY <2>1, <3>2, <1>6 DEF File
    <3> QED BY <3>1, <3>3 DEF NewDatum, Datum
  <2> HIDE DEF at, b
  <2>3. b \in Block => words \in [Offset -> Nat]
    BY <1>3, <2>2 DEF TypeOK
  <2> HIDE DEF words
  <2>4. store' \in [Block -> [Offset -> Nat]]
    BY <1>1, <1>3, <2>3 DEF TypeOK
  <2> QED BY <1>1, <1>3, <2>4 DEF TypeOK, dirVars, blockVars, Free
<1>8. DirInv(t)' /\ NumInv'
  <2>1. pc[t] \in Using \ {"entry"} /\ pc'[t] \in Using /\ pc'[t] \notin {"new inode", "emptied", "ifree"}
    BY <1>1, <1>4 DEF Using
  <2> QED BY <1>1, <1>5, <2>1, InFile DEF dirVars
<1>9. SizeInv(t)'
  <2>1. /\ ino'[t] = ino[t] /\ cursor'[t] = cursor[t] /\ file'[t] = file[t]
        /\ arg'[t] = arg[t]
    BY <1>1
  <2>2. SizeInv(t)
    BY <1>3
  <2> QED BY <1>1, <1>4, <2>1, <2>2 DEF SizeInv, Moving
<1>10. BlocksDisjoint' /\ Apart(t)
  <2>1. PICK f \in FilesOf(t) : f = file[t]
    BY <1>1, <1>3, FileInUse
  <2> DEFINE q == cursor[t] \div BlockSize
             n == c.size_blocks
  <2>2. q \in 0 .. n - 1
    <3>1. cursor[t] < c.size_blocks * BlockSize
      BY <1>1, <1>3 DEF SizeInv
    <3>2. q < n
      BY <3>1, <1>6, InBlock
    <3>3. q \in Nat
      BY <1>6, Division
    <3> QED BY <3>2, <3>3, <1>6
  <2>3. b = MapIn(store, c, q)
    <3>1. at \div BlockSize = q
      BY <1>6, BlockStart
    <3> HIDE DEF at, q
    <3> QED BY <3>1 DEF blockmap, MapIn, Word, WordIn
  <2> HIDE DEF b, q, at, words
  <2>4. Owned(f) = RefsIn(store, c, n)
    <3>1. Owned(f) = Holding(store, pc[t], c, blk[t], arg[t])
      BY <1>3, <2>1, InUse
    <3> QED BY <3>1, <1>1 DEF Holding, Moving
  <2>5. <<"data", q, b>> \in Owned(f)
    BY <2>2, <2>3, <2>4 DEF RefsIn
  <2>6. ASSUME NEW g \in File, NEW r \in Owned(g), r[1] # "data" \/ g # file[t]
        PROVE  r[3] # b
    <3> DEFINE s == <<"data", q, b>>
    <3>1. s \in Owned(f) /\ f \in File
      BY <2>5, FilesAre
    <3>2. r[3] = s[3] => r = s /\ g = f
      BY <1>3, <3>1, <2>6 DEF BlocksDisjoint
    <3> QED BY <3>2, <2>1, <2>6
  <2>7. \A g \in File : \A r \in Owned(g) :
           r[1] # "data" \/ g # file[t] => store'[r[3]] = store[r[3]]
    <3> SUFFICES ASSUME NEW g \in File, NEW r \in Owned(g), r[1] # "data" \/ g # file[t]
                 PROVE  store'[r[3]] = store[r[3]]
      OBVIOUS
    <3>1. r[3] \in Block
      BY <1>3 DEF BlocksDisjoint, TypeOK
    <3>2. r[3] # b
      BY <2>6
    <3> QED BY <3>1, <3>2, <1>1, <1>3 DEF TypeOK
  <2>8. RefsIn(store', c, n) = RefsIn(store, c, n)
    <3>1. \A r \in PointersIn(store, c, n) : r \in Owned(f) /\ r[1] # "data"
      BY <2>4 DEF RefsIn, PointersIn
    <3>2. \A r \in PointersIn(store, c, n) : r[3] \in Block => store[r[3]] = store'[r[3]]
      BY <3>1, <2>7, FilesAre
    <3> QED BY <3>2, <1>6, RefsFrame
  <2>9. Holding(store', pc'[t], ino'[t], blk'[t], arg'[t])
           \subseteq Holding(store, pc[t], ino[t], blk[t], arg[t])
    BY <2>8, <1>1, <1>4 DEF Holding, Moving
  <2>10. pc[t] \in Using /\ pc'[t] \in Using
    BY <1>1, <1>4 DEF Using
  <2> QED BY <1>1, <1>5, <2>7, <2>9, <2>10, WithinFile DEF dirVars, blockVars
<1>11. pc'[t] \notin Down /\ \A n \in Inode : dinode'[n].size <= Capacity
  BY <1>1, <1>3, <1>4 DEF Down
<1> QED BY <1>2, <1>5, <1>7, <1>8, <1>9, <1>10, <1>11, StepKeeps

LEMMA UpdateSizeKeeps ==
    ASSUME IInv, NEW t \in Thread, UpdateSize(t)
    PROVE  IInv' /\ Apart(t)
<1> DEFINE end == cursor[t] + arg[t]
           i == ino[t]
           c == [i EXCEPT !.size = Max({i.size, end})]
<1>1. /\ pc[t] = "update" /\ pc' = [pc EXCEPT ![t] = "open"]
      /\ cursor' = [cursor EXCEPT ![t] = end]
      /\ ino' = [ino EXCEPT ![t] = c]
      /\ dinode' = [dinode EXCEPT ![c.num] = OnDisk(c)]
      /\ DOMAIN content' = DOMAIN content
      /\ arg' = [arg EXCEPT ![t] = 0]
      /\ UNCHANGED <<blockVars, inode_bitmap, store, dirVars, file, blk, calls, torn>>
  BY DEF UpdateSize, Goto, Set, iupdate, EndsAs
<1>2. pc[t] \notin Down
  BY <1>1 DEF Down
<1>3. /\ Up /\ TypeOK /\ NumInv /\ BlocksDisjoint /\ \A u \in Thread : DirInv(u) /\ SizeInv(u)
      /\ \A n \in Inode : dinode[n].size <= Capacity
  BY <1>2, UpHas
<1>4. /\ i \in Copy /\ i.size \in Nat /\ i.size_blocks \in Nat /\ cursor[t] \in Nat
      /\ arg[t] \in Nat /\ end \in Nat
  BY <1>3 DEF TypeOK, Copy
<1>5. file[t] \in File
  BY <1>1, <1>3, FileInUse
<1> DEFINE m == Max({i.size, end})
<1>6. m \in Nat /\ m = IF i.size <= end THEN end ELSE i.size
  BY <1>4, LargerIs
<1> HIDE DEF m
<1>7. /\ c \in Copy /\ c.size = m /\ c.num = i.num /\ c.size_blocks = i.size_blocks
      /\ c.direct = i.direct /\ c.indirect = i.indirect
      /\ c.double_indirect = i.double_indirect
  BY <1>4, <1>6 DEF Copy, m
<1>8. i.num \in Inode /\ Has(t, i.num)
  <2>1. pc[t] \in Using \ {"entry"}
    BY <1>1 DEF Using
  <2> QED BY <2>1, <1>3, UsingHas
<1> HIDE DEF c, end
<1>9. OnDisk(c) \in DiskInode /\ OnDisk(c).size = m
  BY <1>6, <1>7 DEF OnDisk, DiskInode, Copy
<1>10. /\ pc'[t] = "open" /\ ino'[t] = c /\ cursor'[t] = end /\ arg'[t] = 0
       /\ dinode'[i.num] = OnDisk(c)
  BY <1>1, <1>3, <1>4, <1>7, <1>8 DEF TypeOK
<1>11. Alone(t) /\ DiskMine(t)
  BY <1>1, <1>3, <1>7, <1>8 DEF Alone, DiskMine, TypeOK, dirVars
<1>12. TypeOK'
  <2>1. dinode' \in [Inode -> DiskInode]
    BY <1>1, <1>3, <1>7, <1>8, <1>9 DEF TypeOK
  <2>2. ino' \in [Thread -> Copy] /\ cursor' \in [Thread -> Nat] /\ arg' \in [Thread -> Nat]
    BY <1>1, <1>3, <1>4, <1>7 DEF TypeOK
  <2> QED BY <1>1, <1>3, <2>1, <2>2 DEF TypeOK, dirVars, blockVars, Free
<1>13. DirInv(t)' /\ NumInv'
  <2>1. pc[t] \in Using \ {"entry"} /\ pc'[t] \in Using /\ pc'[t] \notin {"new inode", "emptied", "ifree"}
    BY <1>1, <1>10 DEF Using
  <2> QED BY <1>1, <1>7, <1>10, <1>11, <2>1, InFile DEF dirVars
<1>14. m <= Capacity /\ m <= i.size_blocks * BlockSize /\ end <= m /\ i.size_blocks <= m
  <2>1. /\ i.size <= Capacity /\ i.size <= i.size_blocks * BlockSize
        /\ end <= MaxSize[file[t]] /\ arg[t] <= BlockSize - (cursor[t] % BlockSize)
        /\ cursor[t] < i.size_blocks * BlockSize
        /\ i.size_blocks <= i.size \/ i.size_blocks <= end
    BY <1>1, <1>3 DEF SizeInv, Moving, end
  <2>2. end <= Capacity
    BY <2>1, <1>4, <1>5, MaxSizeIs, Constants
  <2>3. end <= i.size_blocks * BlockSize
    BY <2>1, <1>4, EndsInBlock DEF end
  <2> QED BY <2>1, <2>2, <2>3, <1>4, <1>6
<1>15. SizeInv(t)'
  <2>1. dinode'[c.num] = OnDisk(c)
    BY <1>7, <1>10
  <2> QED BY <1>7, <1>10, <1>14, <2>1 DEF SizeInv, Moving, OnDisk
<1>16. BlocksDisjoint' /\ Apart(t)
  <2>1. RefsIn(store', c, c.size_blocks) = RefsIn(store, i, i.size_blocks)
    BY <1>1, <1>7, RefsSame
  <2>2. Holding(store', pc'[t], ino'[t], blk'[t], arg'[t])
           \subseteq Holding(store, pc[t], ino[t], blk[t], arg[t])
    BY <1>1, <1>10, <2>1 DEF Holding, Moving
  <2>3. pc[t] \in Using /\ pc'[t] \in Using
    BY <1>1, <1>10 DEF Using
  <2> QED BY <1>1, <1>11, <2>2, <2>3, WithinFile DEF dirVars, blockVars
<1>17. pc'[t] \notin Down /\ \A n \in Inode : dinode'[n].size <= Capacity
  BY <1>1, <1>3, <1>7, <1>8, <1>9, <1>10, <1>14 DEF Down, TypeOK
<1> QED BY <1>2, <1>11, <1>12, <1>13, <1>15, <1>16, <1>17, StepKeeps

-----------------------------------------------------------------------------
(***************************************************************************)
(* iadd_block                                                              *)
(***************************************************************************)
\* d and z are a copy and a store in which the copy c has one block more, b; only blocks of
\* pointers have changed, and those that are new are among S.
Grown(c, b, S, d, z) ==
    /\ d \in Copy /\ d.num = c.num /\ d.size = c.size /\ d.size_blocks = c.size_blocks + 1
    /\ z \in [Block -> [Offset -> Nat]]
    /\ \A v \in Block : z[v] = store[v] \/ v \in S
                        \/ \E r \in RefsIn(store, c, c.size_blocks) : r[1] # "data" /\ r[3] = v
    /\ \E added :
          /\ RefsIn(z, d, c.size_blocks + 1)
                \subseteq RefsIn(store, c, c.size_blocks) \cup {<<"data", c.size_blocks, b>>}
                             \cup added
          /\ \A r \in added : r[3] \in S /\ r[1] # "data"
          /\ Once(added)

\* The blocks that c refers to are in use, each once.
Proper(c) == /\ \A r \in RefsIn(store, c, c.size_blocks) : r[3] \in block_bitmap
             /\ Once(RefsIn(store, c, c.size_blocks))

LEMMA AddDirectGrows ==
    ASSUME TypeOK, NEW t \in Thread, NEW c \in Copy, NEW b \in Block, NEW S, AddDirect(t, c, b)
    PROVE  NewPointers(c.size_blocks) = 0 /\ Grown(c, b, S, ino'[t], store')
<1> DEFINE k == c.size_blocks
           d == [c EXCEPT !.direct[k] = b, !.size_blocks = @ + 1]
<1>1. k \in Nat /\ k < INODE_DIRECT_BLOCKS /\ store' = store /\ ino' = [ino EXCEPT ![t] = d]
  BY DEF AddDirect, Set, Copy
<1>2. INODE_DIRECT_BLOCKS \in Nat /\ FirstDouble \in Nat /\ INODE_DIRECT_BLOCKS < FirstDouble
  BY Constants
<1>3. NewPointers(k) = 0
  BY <1>1, <1>2 DEF NewPointers
<1>4. /\ c.direct \in [0 .. INODE_DIRECT_BLOCKS - 1 -> Pointer] /\ b \in Pointer
      /\ k \in 0 .. INODE_DIRECT_BLOCKS - 1
  BY <1>1, <1>2 DEF Copy, Pointer
<1>5. d.direct = [c.direct EXCEPT ![k] = b] /\ d.num = c.num /\ d.size = c.size
      /\ d.size_blocks = k + 1 /\ d.indirect = c.indirect
      /\ d.double_indirect = c.double_indirect
  BY DEF Copy
<1>6. d.direct \in [0 .. INODE_DIRECT_BLOCKS - 1 -> Pointer]
  BY <1>4, <1>5
<1>7. d \in Copy
  <2> DEFINE e == [c EXCEPT !.direct = [c.direct EXCEPT ![k] = b]]
  <2>1. [c.direct EXCEPT ![k] = b] \in [0 .. INODE_DIRECT_BLOCKS - 1 -> Pointer]
    BY <1>4
  <2>2. e \in Copy /\ e.size_blocks = k
    BY <2>1 DEF Copy
  <2>3. d = [e EXCEPT !.size_blocks = e.size_blocks + 1]
    OBVIOUS
  <2> HIDE DEF e, d, k
  <2> QED BY <2>2, <2>3, <1>1 DEF Copy
<1>8. RefsIn(store, d, k + 1) \subseteq RefsIn(store, c, k) \cup {<<"data", k, b>>}
  <2> HIDE DEF k, d
  <2> QED BY <1>1, <1>4, <1>5, GrowDirect
<1> HIDE DEF d
<1>9. ino'[t] = d /\ store \in [Block -> [Offset -> Nat]]
  BY <1>1 DEF TypeOK
<1> DEFINE added == {}
<1>10. /\ RefsIn(store', d, k + 1) \subseteq RefsIn(store, c, k) \cup {<<"data", k, b>>} \cup added
       /\ \A r \in added : r[3] \in S /\ r[1] # "data"
       /\ Once(added)
  BY <1>1, <1>8 DEF Once
<1> HIDE DEF added
<1>11. Grown(c, b, S, d, store')
  BY <1>1, <1>5, <1>7, <1>9, <1>10 DEF Grown
<1> QED BY <1>3, <1>9, <1>11

LEMMA AddSingleGrows ==
    ASSUME TypeOK, NEW t \in Thread, NEW c \in Copy, NEW b \in Block, NEW S,
           NEW n, n = NewPointers(c.size_blocks), n <= Cardinality(Free), S = Lowest(n),
           Proper(c), add_single_indirect(t, c, b, S)
    PROVE  Grown(c, b, S, ino'[t], store') /\ n \in 0 .. 2
<1> DEFINE k == c.size_blocks
           D == INODE_DIRECT_BLOCKS
           p == IF S = {} THEN c.indirect ELSE Min(S)
           d == [c EXCEPT !.indirect = p, !.size_blocks = @ + 1]
<1>1. k \in Nat /\ D <= k /\ k < FirstDouble
  BY Constants DEF add_single_indirect, Copy
<1>2. store' = [store EXCEPT ![p][k - D] = b] /\ ino' = [ino EXCEPT ![t] = d]
  BY DEF add_single_indirect, Set
<1>3. D \in Nat /\ FirstDouble \in Nat /\ FirstDouble = D + BlockSize /\ BlockSize \in Nat
  BY Constants DEF FirstDouble, INODE_INDIRECT_BLOCKS
<1>4. n = IF k = D THEN 1 ELSE 0
  BY <1>1, <1>3 DEF NewPointers
<1>5. /\ p \in Block /\ (k > D => c.indirect = p) /\ (k = D => p \in S)
      /\ k > D => \E r \in RefsIn(store, c, k) : r[1] # "data" /\ r[3] = p
  <2>1. CASE k = D
    <3>1. Free # {}
      BY <1>4, <2>1, FS_EmptySet
    <3>2. PICK x \in Free : S = {x} /\ Min(S) = x
      BY <3>1, <2>1, <1>4, LowestOne DEF TypeOK
    <3>3. p = x /\ x \in Block /\ x \in S
      BY <3>2 DEF Free
    <3>4. ~(k > D)
      BY <2>1, <1>3
    <3> HIDE DEF p, k
    <3> QED BY <3>3, <3>4
  <2>2. CASE k > D
    <3>0. n = 0 /\ k # D
      BY <2>2, <1>1, <1>3, <1>4
    <3>1. S = {}
      BY <3>0, LowestNone DEF TypeOK
    <3>2. D \in {D} \cap 0 .. k - 1
      BY <2>2, <1>1, <1>3
    <3>3. <<"indirect", 0, c.indirect>> \in RefsIn(store, c, k)
      BY <3>2 DEF RefsIn, PointersIn
    <3>4. c.indirect \in Block
      BY <3>3 DEF Proper, TypeOK
    <3>5. p = c.indirect
      BY <3>1
    <3> HIDE DEF p, k
    <3> QED BY <3>0, <3>3, <3>4, <3>5, <2>2
  <2> QED BY <2>1, <2>2, <1>1, <1>3
<1> HIDE DEF p
<1>6. /\ d \in Copy /\ d.num = c.num /\ d.size = c.size /\ d.size_blocks = k + 1
      /\ d.direct = c.direct /\ d.indirect = p
  <2> DEFINE e == [c EXCEPT !.indirect = p]
  <2>1. p \in Pointer
    BY <1>5 DEF Pointer
  <2>2. /\ e \in Copy /\ e.size_blocks = k /\ e.num = c.num /\ e.size = c.size
        /\ e.direct = c.direct /\ e.indirect = p
    BY <2>1 DEF Copy
  <2>3. d = [e EXCEPT !.size_blocks = e.size_blocks + 1]
    OBVIOUS
  <2> HIDE DEF e, d, k
  <2> QED BY <2>2, <2>3, <1>1 DEF Copy
<1> HIDE DEF d
<1>7. ino'[t] = d
  BY <1>2 DEF TypeOK
<1>8. store \in [Block -> [Offset -> Nat]] /\ b \in Nat
  BY DEF TypeOK, Block
<1>9. k - D \in Offset
  BY <1>1, <1>3 DEF Offset
<1>10. /\ store' \in [Block -> [Offset -> Nat]]
       /\ \A v \in Block : v # p => store'[v] = store[v]
  BY <1>2, <1>5, <1>8, <1>9
<1> DEFINE added == IF k = D THEN {<<"indirect", 0, p>>} ELSE {}
<1>11. RefsIn(store', d, k + 1) \subseteq RefsIn(store, c, k) \cup {<<"data", k, b>>} \cup added
  <2>1. /\ store'[p][k - INODE_DIRECT_BLOCKS] = b
        /\ \A w \in Offset : w # k - INODE_DIRECT_BLOCKS => store'[p][w] = store[p][w]
    BY <1>2, <1>5, <1>8, <1>9
  <2>2. /\ INODE_DIRECT_BLOCKS <= k /\ (k > INODE_DIRECT_BLOCKS => c.indirect = p)
    BY <1>1, <1>5
  <2> HIDE DEF k
  <2> QED BY <2>1, <2>2, <1>1, <1>5, <1>6, GrowSingle
<1>12. /\ \A r \in added : r[3] \in S /\ r[1] # "data"
       /\ Once(added)
  BY <1>5 DEF Once
<1>13. \A v \in Block : store'[v] = store[v] \/ v \in S
                        \/ \E r \in RefsIn(store, c, k) : r[1] # "data" /\ r[3] = v
  <2> HIDE DEF added, k
  <2>1. p \in S \/ \E r \in RefsIn(store, c, k) : r[1] # "data" /\ r[3] = p
    BY <1>1, <1>3, <1>5
  <2> QED BY <2>1, <1>10
<1> HIDE DEF added
<1>14. Grown(c, b, S, d, store')
  BY <1>6, <1>10, <1>11, <1>12, <1>13 DEF Grown
<1> QED BY <1>4, <1>7, <1>14

LEMMA AddDoubleGrows ==
    ASSUME TypeOK, NEW t \in Thread, NEW c \in Copy, NEW b \in Block, NEW S,
           NEW n, n = NewPointers(c.size_blocks), n <= Cardinality(Free), S = Lowest(n),
           Proper(c), c.size_blocks < Capacity, add_double_indirect(t, c, b, S)
    PROVE  Grown(c, b, S, ino'[t], store') /\ n \in 0 .. 2
<1> DEFINE k == c.size_blocks
           D == INODE_DIRECT_BLOCKS
           q == DoubleOffset(k)
           m == SingleOffset(k)
           x == IF S = {} THEN Word(c.double_indirect, q) ELSE Min(S)
           y == IF k = FirstDouble THEN Max(S) ELSE c.double_indirect
           d == [c EXCEPT !.double_indirect = y, !.size_blocks = @ + 1]
           Has3(v) == \E r \in RefsIn(store, c, k) : r[1] # "data" /\ r[3] = v
<1>1. k \in Nat /\ FirstDouble <= k /\ k < Capacity
  BY DEF add_double_indirect, Copy
<1>2. /\ store' = [store EXCEPT ![x][m] = b, ![y][q] = x] /\ ino' = [ino EXCEPT ![t] = d]
  BY DEF add_double_indirect, Set
<1>3. D \in Nat /\ FirstDouble \in Nat /\ D < FirstDouble /\ BlockSize \in Nat \ {0}
  BY Constants
<1>4. q \in Offset /\ m \in Offset /\ q \in Nat
  BY <1>1, Offsets
<1>5. k = FirstDouble => m = 0
  <2>1. 0 % BlockSize = 0
    BY <1>3
  <2>2. k = FirstDouble => k - FirstDouble = 0
    BY <1>3
  <2> QED BY <2>1, <2>2 DEF SingleOffset, INODE_INDIRECT_BLOCKS
<1>6. n = IF k = FirstDouble THEN 2 ELSE IF m = 0 THEN 1 ELSE 0
  BY <1>1, <1>3 DEF NewPointers
<1>7. <<"indirect", 0, c.indirect>> \in RefsIn(store, c, k)
  <2>1. D \in {D} \cap 0 .. k - 1
    BY <1>1, <1>3
  <2> QED BY <2>1 DEF RefsIn, PointersIn
<1>8. k # FirstDouble => <<"double", 0, c.double_indirect>> \in RefsIn(store, c, k)
  <2>1. k # FirstDouble => FirstDouble \in {FirstDouble} \cap 0 .. k - 1
    BY <1>1, <1>3
  <2> QED BY <2>1 DEF RefsIn, PointersIn
<1>9. \A j \in FirstDouble .. k - 1 :
         <<"second", DoubleOffset(j), WordIn(store, c.double_indirect, DoubleOffset(j))>>
            \in RefsIn(store, c, k)
  BY DEF RefsIn, PointersIn
<1>10. \A r \in RefsIn(store, c, k) : r[3] \in block_bitmap /\ r[3] \in Block /\ r[3] \notin Free
  BY DEF Proper, TypeOK, Free
<1>11. \A r, s \in RefsIn(store, c, k) : r[3] = s[3] => r = s
  BY DEF Proper, Once
<1> HIDE DEF q, m, k
\* What x and y are, in the three cases.
<1>12. /\ x \in Block /\ y \in Block /\ x # y
       /\ (x \in S \/ Has3(x)) /\ (y \in S \/ Has3(y))
       /\ (k = FirstDouble => y \in S) /\ (m = 0 => x \in S)
       /\ c.indirect # x /\ c.indirect # y
       /\ (k > FirstDouble => c.double_indirect = y)
       /\ (m # 0 => WordIn(store, y, q) = x)
       /\ \A j \in FirstDouble .. k - 1 :
             LET v == WordIn(store, y, DoubleOffset(j))
             IN v # y /\ (DoubleOffset(j) # q => v # x)
  <2>1. CASE k = FirstDouble
    <3>1. PICK u, v \in Free : u < v /\ S = {u, v} /\ Min(S) = u /\ Max(S) = v
      <4>1. n = 2
        BY <1>6, <2>1
      <4> QED BY <4>1, LowestTwo DEF TypeOK
    <3>2. x = u /\ y = v /\ u # v
      <4>1. u # v
        BY <3>1 DEF Free, Block
      <4> QED BY <3>1, <4>1, <2>1
    <3> HIDE DEF x, y
    <3>3. /\ x \in Block /\ y \in Block /\ x # y /\ x \in S /\ y \in S
          /\ x \in Free /\ y \in Free
      BY <3>1, <3>2 DEF Free
    <3>4. FirstDouble .. k - 1 = {} /\ ~(k > FirstDouble) /\ m = 0
      BY <2>1, <1>3, <1>5
    <3>5. c.indirect # x /\ c.indirect # y
      BY <3>3, <1>7, <1>10
    <3> QED BY <3>3, <3>4, <3>5
  <2>2. CASE k # FirstDouble
    <3>1. y = c.double_indirect /\ k > FirstDouble
      BY <2>2, <1>1, <1>3
    <3> HIDE DEF y
    <3>2. <<"double", 0, y>> \in RefsIn(store, c, k)
      BY <2>2, <3>1, <1>8
    <3>3. y \in Block /\ y \notin Free /\ Has3(y)
      BY <3>2, <1>10
    <3>4. \A j \in FirstDouble .. k - 1 :
             <<"second", DoubleOffset(j), WordIn(store, y, DoubleOffset(j))>>
                \in RefsIn(store, c, k)
      BY <3>1, <1>9
    <3>5. c.indirect # y
      BY <3>2, <1>7, <1>11
    <3>6. \A j \in FirstDouble .. k - 1 : WordIn(store, y, DoubleOffset(j)) # y
      BY <3>2, <3>4, <1>11
    <3>7. CASE m = 0
      <4>1. PICK u \in Free : S = {u} /\ Min(S) = u
        <5>1. n = 1
          BY <1>6, <2>2, <3>7
        <5>2. Free # {}
          BY <5>1, FS_EmptySet
        <5> QED BY <5>1, <5>2, LowestOne DEF TypeOK
      <4>2. x = u
        BY <4>1
      <4> HIDE DEF x
      <4>3. x \in Free /\ x \in S /\ x \in Block
        BY <4>1, <4>2 DEF Free
      <4>4. x # y /\ c.indirect # x
        BY <4>3, <3>3, <1>7, <1>10
      <4>5. \A j \in FirstDouble .. k - 1 : WordIn(store, y, DoubleOffset(j)) # x
        BY <4>3, <3>4, <1>10
      <4> QED BY <2>2, <3>1, <3>3, <3>5, <3>6, <3>7, <4>3, <4>4, <4>5
    <3>8. CASE m # 0
      <4>1. S = {}
        <5>1. n = 0
          BY <1>6, <2>2, <3>8
        <5> QED BY <5>1, LowestNone DEF TypeOK
      <4>2. x = WordIn(store, y, q)
        BY <4>1, <3>1 DEF Word, WordIn
      <4> HIDE DEF x
      <4>3. k - 1 \in FirstDouble .. k - 1 /\ k - 1 \in Nat /\ k - 1 >= FirstDouble /\ k - 1 < k
        BY <3>1, <1>1, <1>3
      <4>4. DoubleOffset(k - 1) = q
        BY <4>3, <3>8, <1>1, OffsetsOrdered DEF q, m
      <4>5. <<"second", q, x>> \in RefsIn(store, c, k)
        BY <4>2, <4>3, <4>4, <3>4
      <4>6. x \in Block /\ Has3(x)
        BY <4>5, <1>10
      <4>7. x # y /\ c.indirect # x
        BY <4>5, <3>2, <1>7, <1>11
      <4>8. \A j \in FirstDouble .. k - 1 :
               DoubleOffset(j) # q => WordIn(store, y, DoubleOffset(j)) # x
        BY <4>5, <3>4, <1>11
      <4> QED BY <2>2, <3>1, <3>3, <3>5, <3>6, <3>8, <4>2, <4>6, <4>7, <4>8
    <3> QED BY <3>7, <3>8
  <2> QED BY <2>1, <2>2
<1> HIDE DEF x, y
<1>13. /\ d \in Copy /\ d.num = c.num /\ d.size = c.size /\ d.size_blocks = k + 1
       /\ d.direct = c.direct /\ d.indirect = c.indirect /\ d.double_indirect = y
  <2> DEFINE e == [c EXCEPT !.double_indirect = y]
  <2>1. y \in Pointer
    BY <1>12 DEF Pointer
  <2>2. /\ e \in Copy /\ e.size_blocks = k /\ e.num = c.num /\ e.size = c.size
        /\ e.direct = c.direct /\ e.indirect = c.indirect /\ e.double_indirect = y
    BY <2>1 DEF Copy, k
  <2>3. d = [e EXCEPT !.size_blocks = e.size_blocks + 1]
    OBVIOUS
  <2> HIDE DEF e, d
  <2> QED BY <2>2, <2>3, <1>1 DEF Copy
<1> HIDE DEF d
<1>14. ino'[t] = d
  BY <1>2 DEF TypeOK
<1>15. /\ store' \in [Block -> [Offset -> Nat]]
       /\ store'[x][m] = b /\ store'[y][q] = x
       /\ \A w \in Offset : w # m => store'[x][w] = store[x][w]
       /\ \A w \in Offset : w # q => store'[y][w] = store[y][w]
       /\ \A v \in Block : v # x /\ v # y => store'[v] = store[v]
  <2>1. store \in [Block -> [Offset -> Nat]] /\ b \in Nat /\ x \in Nat
    BY <1>12 DEF TypeOK, Block
  <2> QED BY <2>1, <1>2, <1>4, <1>12
<1> DEFINE added == (IF k = FirstDouble THEN {<<"double", 0, y>>} ELSE {})
                       \cup (IF m = 0 THEN {<<"second", q, x>>} ELSE {})
<1>16. RefsIn(store', d, k + 1) \subseteq RefsIn(store, c, k) \cup {<<"data", k, b>>} \cup added
  <2> HIDE DEF added
  <2>1. /\ x \in Block /\ y \in Block /\ k \in Nat /\ FirstDouble <= k /\ k < Capacity
        /\ d.direct = c.direct /\ d.indirect = c.indirect /\ d.double_indirect = y
        /\ c.indirect # x /\ c.indirect # y /\ (k > FirstDouble => c.double_indirect = y)
    BY <1>1, <1>12, <1>13
  <2>2. /\ store'[x][SingleOffset(k)] = b /\ store'[y][DoubleOffset(k)] = x
        /\ \A w \in Offset : w # SingleOffset(k) => store'[x][w] = store[x][w]
        /\ \A w \in Offset : w # DoubleOffset(k) => store'[y][w] = store[y][w]
        /\ \A v \in Block : v # x /\ v # y => store'[v] = store[v]
    BY <1>15 DEF q, m
  <2>3. /\ SingleOffset(k) # 0 => WordIn(store, y, DoubleOffset(k)) = x
        /\ \A j \in FirstDouble .. k - 1 :
              LET v == WordIn(store, y, DoubleOffset(j))
              IN v # y /\ (DoubleOffset(j) # DoubleOffset(k) => v # x)
    BY <1>12 DEF q, m
  <2>4. RefsIn(store', d, k + 1)
           \subseteq RefsIn(store, c, k) \cup {<<"data", k, b>>}
             \cup (IF k = FirstDouble THEN {<<"double", 0, y>>} ELSE {})
             \cup (IF SingleOffset(k) = 0 THEN {<<"second", DoubleOffset(k), x>>} ELSE {})
    BY <2>1, <2>2, <2>3, GrowDouble
  <2> QED BY <2>4 DEF added, q, m
<1>17. \A r \in added : r[3] \in S /\ r[1] # "data"
  BY <1>12
<1>18. Once(added)
  BY <1>12 DEF Once
<1>19. \A v \in Block : store'[v] = store[v] \/ v \in S \/ Has3(v)
  BY <1>12, <1>15
<1> HIDE DEF added
<1>20. Grown(c, b, S, d, store')
  BY <1>13, <1>15, <1>16, <1>17, <1>18, <1>19 DEF Grown, k
<1> QED BY <1>6, <1>14, <1>20

LEMMA IaddBlockKeeps ==
    ASSUME IInv, NEW t \in Thread, iadd_block(t)
    PROVE  /\ IInv' /\ Apart(t)
           /\ Grown(ino[t], blk[t], Lowest(NewPointers(ino[t].size_blocks)), ino'[t], store')
           /\ Lowest(NewPointers(ino[t].size_blocks)) \subseteq Free
<1> DEFINE c == ino[t]
           b == blk[t]
           k == c.size_blocks
           n == NewPointers(c.size_blocks)
           S == Lowest(n)
           d == ino'[t]
           z == store'
<1>1. /\ pc[t] = "add" /\ pc' = [pc EXCEPT ![t] = "data"]
      /\ Cardinality(Free) >= n /\ balloc(S)
      /\ AddDirect(t, c, b) \/ add_single_indirect(t, c, b, S) \/ add_double_indirect(t, c, b, S)
      /\ blk' = [blk EXCEPT ![t] = 0]
      /\ UNCHANGED <<inode_bitmap, dinode, dirVars, file, cursor, arg, content, calls, torn>>
  BY DEF iadd_block, Goto, Set
<1>2. pc[t] \notin Down
  BY <1>1 DEF Down
<1>3. /\ Up /\ TypeOK /\ NumInv /\ BlocksDisjoint /\ \A u \in Thread : DirInv(u) /\ SizeInv(u)
      /\ \A i \in Inode : dinode[i].size <= Capacity
  BY <1>2, UpHas
<1>4. PICK f \in FilesOf(t) : f = file[t]
  BY <1>1, <1>3, FileInUse
<1>5. f \in File
  BY FilesAre
<1>6. Owned(f) = RefsIn(store, c, k) \cup {<<"new", 0, b>>}
  <2>1. Owned(f) = Holding(store, pc[t], c, b, arg[t])
    BY <1>3, <1>4, InUse
  <2> QED BY <2>1, <1>1 DEF Holding, Moving
<1>7. /\ c \in Copy /\ k \in Nat /\ c.size \in Nat /\ cursor[t] \in Nat /\ arg[t] \in Nat
  BY <1>3 DEF TypeOK, Copy
<1> HIDE DEF c, b
<1>8. /\ c.size <= Capacity /\ c.size <= k * BlockSize /\ k <= c.size /\ cursor[t] = c.size
      /\ cursor[t] + arg[t] <= MaxSize[f] /\ arg[t] > 0
      /\ arg[t] <= BlockSize - (cursor[t] % BlockSize)
  BY <1>1, <1>3, <1>4 DEF SizeInv, Moving, c
<1>9. k < Capacity
  BY <1>5, <1>7, <1>8, MaxSizeIs, Constants
<1>10. \A g, h \in File : \A r \in Owned(g), s \in Owned(h) :
          r[3] \in block_bitmap /\ (r[3] = s[3] => g = h /\ r = s)
  BY <1>3 DEF BlocksDisjoint
<1>11. Proper(c) /\ b \in Block /\ b \in block_bitmap
       /\ \A r \in RefsIn(store, c, k) : r[3] # b
  <2>1. Proper(c)
    BY <1>5, <1>6, <1>10 DEF Proper, Once
  <2>2. <<"new", 0, b>> \in Owned(f)
    BY <1>6
  <2>3. b \in block_bitmap
    BY <2>2, <1>5, <1>10
  <2>4. b \in Block
    BY <2>3, <1>3 DEF TypeOK
  <2>5. ASSUME NEW r \in RefsIn(store, c, k)
        PROVE  r[3] # b
    <3>1. r[1] # "new"
      BY DEF RefsIn, PointersIn
    <3>2. r \in Owned(f)
      BY <1>6
    <3>3. r # <<"new", 0, b>>
      BY <3>1
    <3> QED BY <3>2, <3>3, <2>2, <1>5, <1>10
  <2> QED BY <2>1, <2>3, <2>4, <2>5
<1>12. Grown(c, b, S, d, z) /\ n \in 0 .. 2 /\ n <= Cardinality(Free)
  <2>0. n <= Cardinality(Free)
    <3>1. IsFiniteSet(Free)
      BY Constants, FS_Subset DEF Free
    <3>2. Cardinality(Free) \in Nat
      BY <3>1, FS_CardinalityType
    <3>3. n \in 0 .. 2
      BY DEF NewPointers
    <3> HIDE DEF n
    <3> QED BY <1>1, <3>2, <3>3
  <2>1. CASE AddDirect(t, c, b)
    BY <2>0, <2>1, <1>3, <1>7, <1>11, AddDirectGrows
  <2>2. CASE add_single_indirect(t, c, b, S)
    BY <2>0, <2>2, <1>3, <1>7, <1>11, AddSingleGrows
  <2>3. CASE add_double_indirect(t, c, b, S)
    BY <2>0, <2>3, <1>3, <1>7, <1>9, <1>11, AddDoubleGrows
  <2> QED BY <2>0, <2>1, <2>2, <2>3, <1>1
<1>13. S \subseteq Free
  BY <1>3, <1>12, LowestIs DEF TypeOK
<1> HIDE DEF S, n, d, z
<1>14. /\ d \in Copy /\ d.num = c.num /\ d.size = c.size /\ d.size_blocks = k + 1
       /\ z \in [Block -> [Offset -> Nat]]
       /\ \A v \in Block : z[v] = store[v] \/ v \in S
                           \/ \E r \in RefsIn(store, c, k) : r[1] # "data" /\ r[3] = v
  BY <1>12 DEF Grown
<1>15. PICK added :
          /\ RefsIn(z, d, k + 1) \subseteq RefsIn(store, c, k) \cup {<<"data", k, b>>} \cup added
          /\ \A r \in added : r[3] \in S /\ r[1] # "data"
          /\ Once(added)
  BY <1>12 DEF Grown
<1>16. pc'[t] = "data" /\ blk'[t] = 0
  BY <1>1, <1>3 DEF TypeOK
<1>17. block_bitmap' = block_bitmap \cup S
  BY <1>1 DEF balloc
<1>18. ino' = [ino EXCEPT ![t] = d]
  BY <1>1, <1>3 DEF AddDirect, add_single_indirect, add_double_indirect, Set, TypeOK, d
<1>19. Alone(t) /\ DiskMine(t)
  BY <1>1, <1>3, <1>18 DEF Alone, DiskMine, TypeOK, dirVars
<1>20. TypeOK'
  <2>1. block_bitmap' \subseteq Block /\ free_blocks' = Cardinality(Free')
    BY <1>1, <1>3, <1>13, BallocKeeps DEF TypeOK
  <2>2. ino' \in [Thread -> Copy] /\ blk' \in [Thread -> Pointer]
    BY <1>1, <1>3, <1>14, <1>18 DEF TypeOK, Pointer
  <2>3. store' \in [Block -> [Offset -> Nat]]
    BY <1>14 DEF z
  <2> QED BY <1>1, <1>3, <2>1, <2>2, <2>3 DEF TypeOK, dirVars
<1>21. DirInv(t)' /\ NumInv'
  <2>1. pc[t] \in Using \ {"entry"} /\ pc'[t] \in Using /\ pc'[t] \notin {"new inode", "emptied", "ifree"}
    BY <1>1, <1>16 DEF Using
  <2>2. ino'[t].num = ino[t].num
    BY <1>14 DEF d, c
  <2> QED BY <1>1, <1>19, <2>1, <2>2, InFile DEF dirVars
<1>22. SizeInv(t)'
  <2>1. BlockSize \in Nat \ {0} /\ k * BlockSize \in Nat
    BY <1>7, Constants
  <2>2. (k + 1) * BlockSize = k * BlockSize + BlockSize
    BY <1>7, <2>1
  <2>3. c.size <= (k + 1) * BlockSize /\ cursor[t] < (k + 1) * BlockSize
    BY <2>1, <2>2, <1>7, <1>8
  <2>4. k + 1 <= cursor[t] + arg[t]
    BY <1>7, <1>8
  <2>5. cursor'[t] = cursor[t] /\ arg'[t] = arg[t] /\ file'[t] = f
    BY <1>1, <1>4
  <2> QED BY <2>3, <2>4, <2>5, <1>8, <1>14, <1>16 DEF SizeInv, Moving, d
<1>23. BlocksDisjoint' /\ Apart(t)
  <2>0. PICK old : old = RefsIn(store, c, k) \cup {<<"data", k, b>>}
    OBVIOUS
  <2>1. file[t] = f /\ file'[t] = f
    BY <1>1, <1>4
  <2>2. Owned(f)' = RefsIn(z, d, k + 1)
    <3>1. Owned(f)' = Holding(store', pc'[t], ino'[t], blk'[t], arg'[t])
      BY <1>3, <2>1, InUse
    <3> QED BY <3>1, <1>14, <1>16 DEF Holding, Moving, z, d
  <2>3. Owned(f)' \subseteq old \cup added
    BY <2>0, <2>2, <1>15
  <2>4. ASSUME NEW r \in old
        PROVE  \E s \in Owned(f) : s[3] = r[3]
    <3>1. CASE r \in RefsIn(store, c, k)
      BY <3>1, <1>6
    <3>2. CASE r = <<"data", k, b>>
      <4>1. <<"new", 0, b>> \in Owned(f)
        BY <1>6
      <4> QED BY <4>1, <3>2
    <3> QED BY <2>0, <3>1, <3>2
  <2>5. Once(old)
    BY <2>0, <1>11 DEF Proper, Once
  <2>6. \A r \in added : r[3] \notin block_bitmap /\ r[3] \in block_bitmap'
    BY <1>13, <1>15, <1>17 DEF Free
  <2>7. \A r \in old : r[3] \in block_bitmap'
    BY <2>0, <1>11, <1>17 DEF Proper
  <2>8. \A r \in Owned(f)' : r[3] \in block_bitmap'
    BY <2>3, <2>6, <2>7
  <2>9. ASSUME NEW g \in File \ {f}, NEW r \in Owned(g)
        PROVE  r[3] \in block_bitmap' /\ store'[r[3]] = store[r[3]]
    <3>1. r[3] \in block_bitmap /\ r[3] \in Block
      BY <1>3, <1>10 DEF TypeOK
    <3>2. r[3] \notin S
      BY <3>1, <1>13 DEF Free
    <3>3. ~\E s \in RefsIn(store, c, k) : s[3] = r[3]
      BY <1>5, <1>6, <1>10
    <3>4. z[r[3]] = store[r[3]]
      BY <3>1, <3>2, <3>3, <1>14
    <3> QED BY <3>1, <3>4, <1>17 DEF z
  <2>10. \A g \in FilesOf(t) \ {f} : namei(t, g)' = namei(t, g)
    BY <1>1, NameiIs, NameiNext DEF dirVars
  <2>11. OthersKept(t, f)
    BY <1>19, <2>1, <2>9, <2>10 DEF OthersKept
  <2> QED BY <1>2, <1>15, <2>3, <2>4, <2>5, <2>6, <2>8, <2>11, DisjointMove
<1>24. pc'[t] \notin Down /\ \A i \in Inode : dinode'[i].size <= Capacity
  BY <1>1, <1>3, <1>16 DEF Down
<1>25. IInv' /\ Apart(t)
  BY <1>2, <1>19, <1>20, <1>21, <1>22, <1>23, <1>24, StepKeeps
<1> QED BY <1>12, <1>13, <1>25 DEF S, n, d, z, c, b

-----------------------------------------------------------------------------
(***************************************************************************)
(* minifile_open of a file that exists, and the start of iclear            *)
(***************************************************************************)
\* c is a copy of the inode n.
CopyOf(c, n) ==
    /\ c \in Copy /\ c.num = n /\ c.size_blocks = BlocksOf(dinode[n].size)
    /\ OnDisk(c) = dinode[n]

LEMMA CopyIs ==
    ASSUME TypeOK, NEW n \in Inode, NEW s \in {"UNCHANGED", "TO_DELETE"}
    PROVE  CopyOf(iget(n), n) /\ CopyOf([iget(n) EXCEPT !.status = s], n)
           /\ [iget(n) EXCEPT !.status = s].status = s
<1> DEFINE d == dinode[n]
           c == [num |-> n, size_blocks |-> BlocksOf(d.size), status |-> s,
                 size |-> d.size, direct |-> d.direct, indirect |-> d.indirect,
                 double_indirect |-> d.double_indirect]
           e == [c EXCEPT !.status = "UNCHANGED"]
<1>1. d \in DiskInode /\ BlocksOf(d.size) \in Nat
  <2>1. d \in DiskInode
    BY DEF TypeOK
  <2> QED BY <2>1, BlocksOfIs DEF DiskInode
<1>2. OnDisk(c) = d
  BY <1>1 DEF OnDisk, DiskInode
<1>3. c \in Copy /\ c.num = n /\ c.size_blocks = BlocksOf(d.size) /\ c.status = s
  BY <1>1 DEF Copy, DiskInode
<1>4. e \in Copy /\ e.num = n /\ e.size_blocks = BlocksOf(d.size) /\ OnDisk(e) = OnDisk(c)
  BY <1>1 DEF Copy, DiskInode, OnDisk
<1>5. e = iget(n)
  BY DEF iget
<1>6. c = [iget(n) EXCEPT !.status = s]
  BY DEF iget
<1> HIDE DEF c, e
<1> QED BY <1>2, <1>3, <1>4, <1>5, <1>6 DEF CopyOf

LEMMA StartKeeps ==
    ASSUME IInv, NEW t \in Thread, NEW f \in FilesOf(t), pc[t] = "idle", namei(t, f) # 0,
           NEW p \in {"open", "free", "ifree"}, NEW c, CopyOf(c, namei(t, f)),
           NEW at \in {0, c.size}, p # "open" => at = 0, p # "free" => p = "open" \/ c.size = 0,
           pc' = [pc EXCEPT ![t] = p], ino' = [ino EXCEPT ![t] = c],
           file' = [file EXCEPT ![t] = f], cursor' = [cursor EXCEPT ![t] = at],
           calls' \in [Thread -> Nat], UNCHANGED <<diskVars, blk, arg, content, torn>>
    PROVE  IInv' /\ Apart(t)
<1>2. pc[t] \notin Down
  BY DEF Down
<1>3. /\ Up /\ TypeOK /\ NumInv /\ BlocksDisjoint /\ \A u \in Thread : DirInv(u) /\ SizeInv(u)
      /\ \A n \in Inode : dinode[n].size <= Capacity
  BY <1>2, UpHas
<1>4. f \in File /\ f # 0 /\ file[t] = 0
  <2>1. DirInv(t)
    BY <1>3
  <2> QED BY <2>1, FilesAre DEF DirInv
<1>5. PICK n : n = namei(t, f)
  OBVIOUS
<1>6. n \in Inode /\ Has(t, n)
  BY <1>3, <1>4, <1>5, NamedHas
<1>7. /\ c \in Copy /\ c.num = n /\ c.size_blocks = BlocksOf(dinode[n].size)
      /\ OnDisk(c) = dinode[n] /\ c.size \in Nat /\ c.size_blocks \in Nat
      /\ c.size = dinode[n].size /\ c.direct = dinode[n].direct
      /\ c.indirect = dinode[n].indirect /\ c.double_indirect = dinode[n].double_indirect
  <2>1. /\ c \in Copy /\ c.num = n /\ c.size_blocks = BlocksOf(dinode[n].size)
        /\ OnDisk(c) = dinode[n]
    BY <1>5 DEF CopyOf
  <2>2. /\ OnDisk(c).size = c.size /\ OnDisk(c).direct = c.direct
        /\ OnDisk(c).indirect = c.indirect /\ OnDisk(c).double_indirect = c.double_indirect
    BY DEF OnDisk
  <2> QED BY <2>1, <2>2 DEF Copy
<1>8. /\ pc'[t] = p /\ ino'[t] = c /\ file'[t] = f /\ cursor'[t] = at /\ arg'[t] = 0
      /\ dir' = dir /\ dirsize' = dirsize /\ dinode' = dinode /\ store' = store
      /\ inode_bitmap' = inode_bitmap /\ block_bitmap' = block_bitmap
  <2>1. arg[t] = 0
    BY <1>3 DEF SizeInv, Moving
  <2> QED BY <1>3, <2>1 DEF TypeOK, diskVars, dirVars, blockVars
<1>9. Alone(t) /\ DiskMine(t)
  BY <1>3, <1>8 DEF Alone, DiskMine, TypeOK
<1>10. TypeOK'
  <2>1. ino' \in [Thread -> Copy] /\ cursor' \in [Thread -> Nat]
    BY <1>3, <1>7 DEF TypeOK
  <2> QED BY <1>3, <1>4, <1>8, <2>1 DEF TypeOK, diskVars, blockVars, Free
<1>11. Kept(t)' = Kept(t)
  BY <1>8 DEF Kept
<1>12. DirInv(t)'
  <2>1. PICK e \in Kept(t) : dir[t][e].name = f
    BY <1>3, <1>5, <1>6, NameiKept DEF Inode
  <2>2. dir[t][e].inum = n
    BY <2>1, <1>3, <1>5, NameiKept
  <2>3. dir[t][e] \in Entry
    <3>1. e \in 1 .. Cardinality(FilesOf(t))
      BY <1>3, FilesAre DEF Kept, TypeOK
    <3> QED BY <3>1, <1>3 DEF TypeOK
  <2>4. dir[t][e] = [name |-> f, inum |-> n]
    BY <2>1, <2>2, <2>3 DEF Entry
  <2>5. EntryOf(t)' = [name |-> f, inum |-> n]
    BY <1>7, <1>8 DEF EntryOf
  <2>6. \E x \in Kept(t)' : dir'[t][x] = EntryOf(t)'
    BY <1>8, <1>11, <2>4, <2>5
  <2>7. DirInv(t)
    BY <1>3
  <2>8. Distinct(dir[t], Kept(t))'
    BY <2>7, <1>8, <1>11 DEF DirInv
  <2>9. p \in Phase /\ p \notin Making \cup {"parent", "idle", "new parent"}
    BY DEF Phase, Using, Making
  <2> QED BY <1>4, <1>6, <1>7, <1>8, <1>11, <2>6, <2>7, <2>8, <2>9 DEF DirInv
<1>13. NumInv'
  <2>1. \A i \in Inode : Has(t, i)' => Has(t, i)
    BY <1>8, <1>11 DEF Has, Listed, Making
  <2>2. pc'[t] \in Making \cup {"new inode", "emptied", "ifree"} => dinode'[ino'[t].num].size = 0
    BY <1>7, <1>8 DEF Making
  <2>3. \A u \in Thread : pc[u] \notin Down
    BY <1>3 DEF Up, Down
  <2> QED BY <1>3, <1>8, <1>9, <2>1, <2>2, <2>3, NumStep
<1>14. SizeInv(t)'
  <2>1. /\ c.size_blocks <= c.size /\ c.size <= c.size_blocks * BlockSize
        /\ c.size_blocks = BlocksOf(c.size)
    BY <1>7, BlocksOfIs
  <2>2. c.size <= Capacity /\ at <= c.size /\ dinode'[c.num] = OnDisk(c)
    BY <1>3, <1>6, <1>7, <1>8
  <2>3. CASE p = "open"
    BY <2>3, <1>7, <1>8, <2>1, <2>2 DEF SizeInv, Moving, OnDisk
  <2>4. CASE p = "free"
    <3>1. at = 0 /\ 0 <= c.size_blocks
      BY <2>4, <1>7
    <3> QED BY <3>1, <2>4, <1>7, <1>8, <2>1, <2>2 DEF SizeInv, Moving, OnDisk
  <2>5. CASE p = "ifree"
    <3>1. at = 0
      BY <2>5
    <3> QED BY <3>1, <2>5, <1>8 DEF SizeInv, Moving
  <2> QED BY <2>3, <2>4, <2>5
<1>15. BlocksDisjoint' /\ Apart(t)
  <2>1. Owned(f) = RefsIn(store, c, c.size_blocks)
    <3>1. Owned(f) = Stored(store, dinode[n])
      BY <1>4, <1>5, <1>6, OwnedIs, FilesAre DEF Inode
    <3>2. RefsIn(store, dinode[n], c.size_blocks) = RefsIn(store, c, c.size_blocks)
      BY <1>7, RefsSame
    <3> QED BY <3>1, <3>2, <1>7 DEF Stored
  <2>2. Owned(f)' \subseteq Owned(f)
    <3>1. Owned(f)' = Holding(store', pc'[t], ino'[t], blk'[t], arg'[t])
      BY <1>3, <1>8, InUse
    <3> QED BY <3>1, <2>1, <1>8 DEF Holding, Moving
  <2>3. \A g \in File : \A r \in Owned(g) : r[3] \in block_bitmap'
    BY <1>3, <1>8 DEF BlocksDisjoint
  <2>4. OthersKept(t, f)
    <3>1. \A g \in FilesOf(t) : namei(t, g)' = namei(t, g)
      BY <1>8, NameiIs, NameiNext
    <3> QED BY <1>4, <1>8, <1>9, <2>3, <3>1 DEF OthersKept
  <2>5. \A r \in Owned(f)' : r[3] \in block_bitmap'
    BY <2>2, <2>3, <1>4
  <2> QED BY <1>2, <2>2, <2>4, <2>5, DisjointLess
<1>16. pc'[t] \notin Down /\ \A i \in Inode : dinode'[i].size <= Capacity
  BY <1>3, <1>8 DEF Down
<1> QED BY <1>2, <1>9, <1>10, <1>12, <1>13, <1>14, <1>15, <1>16, StepKeeps

LEMMA CalledKeeps == ASSUME TypeOK, NEW t \in Thread, Called(t) PROVE calls' \in [Thread -> Nat]
BY DEF TypeOK, Called, Set

LEMMA OpenKeeps ==
    ASSUME IInv, NEW t \in Thread, NEW f \in FilesOf(t), Open(t, f)
    PROVE  IInv' /\ Apart(t)
<1>1. PICK n : n = namei(t, f)
  OBVIOUS
<1>2. PICK c : c = iget(n)
  OBVIOUS
<1>3. /\ pc[t] = "idle" /\ pc' = [pc EXCEPT ![t] = "open"] /\ n # 0
      /\ ino' = [ino EXCEPT ![t] = c] /\ file' = [file EXCEPT ![t] = f] /\ Called(t)
      /\ UNCHANGED <<diskVars, blk, arg, content, torn>>
  BY <1>1, <1>2 DEF Open, Goto, Set
<1>4. PICK at \in {0, c.size} : cursor' = [cursor EXCEPT ![t] = at]
  BY <1>1, <1>2 DEF Open, Set
<1>5. TypeOK /\ DirInv(t)
  BY <1>3, UpHas DEF Down
<1>6. n \in Inode
  <2>1. f # file[t]
    BY <1>3, <1>5, FilesAre DEF DirInv
  <2> QED BY <2>1, <1>1, <1>3, <1>5, NamedHas
<1>7. CopyOf(c, namei(t, f))
  BY <1>1, <1>2, <1>5, <1>6, CopyIs
<1>8. calls' \in [Thread -> Nat]
  BY <1>3, <1>5, CalledKeeps
<1> QED BY <1>1, <1>3, <1>4, <1>7, <1>8, StartKeeps

LEMMA ClearKeeps ==
    ASSUME IInv, NEW t \in Thread, NEW f \in FilesOf(t),
           NEW s \in {"UNCHANGED", "TO_DELETE"}, Clear(t, f, s)
    PROVE  IInv' /\ Apart(t)
<1>1. PICK n : n = namei(t, f)
  OBVIOUS
<1>2. PICK c : c = [iget(n) EXCEPT !.status = s]
  OBVIOUS
<1>3. PICK p : p = IF c.size > 0 THEN "free" ELSE IF s = "TO_DELETE" THEN "ifree" ELSE "open"
  OBVIOUS
<1>4. /\ pc[t] = "idle" /\ pc' = [pc EXCEPT ![t] = p] /\ n # 0
      /\ ino' = [ino EXCEPT ![t] = c] /\ file' = [file EXCEPT ![t] = f] /\ Called(t)
      /\ UNCHANGED <<diskVars, cursor, blk, arg, content, torn>>
  BY <1>1, <1>2, <1>3 DEF Clear, Set
<1>5. TypeOK /\ DirInv(t) /\ SizeInv(t)
  BY <1>4, UpHas DEF Down
<1>6. n \in Inode
  <2>1. f # file[t]
    BY <1>4, <1>5, FilesAre DEF DirInv
  <2> QED BY <2>1, <1>1, <1>4, <1>5, NamedHas
<1>7. CopyOf(c, namei(t, f)) /\ c.size \in Nat
  <2>1. CopyOf(c, n)
    BY <1>2, <1>5, <1>6, CopyIs
  <2>2. c \in Copy
    BY <2>1 DEF CopyOf
  <2> QED BY <2>1, <2>2, <1>1 DEF Copy
<1>8. calls' \in [Thread -> Nat]
  BY <1>4, <1>5, CalledKeeps
<1>9. PICK at : at = 0
  OBVIOUS
<1>10. cursor' = [cursor EXCEPT ![t] = at]
  <2>1. cursor[t] = 0
    BY <1>4, <1>5 DEF SizeInv, Moving
  <2> QED BY <2>1, <1>4, <1>5, <1>9 DEF TypeOK
<1>11. /\ p \in {"open", "free", "ifree"} /\ at \in {0, c.size}
       /\ (p # "open" => at = 0) /\ (p # "free" => p = "open" \/ c.size = 0)
  BY <1>3, <1>7, <1>9
<1>12. namei(t, f) # 0 /\ UNCHANGED <<diskVars, blk, arg, content, torn>>
  BY <1>1, <1>4
<1> QED BY <1>4, <1>7, <1>8, <1>10, <1>11, <1>12, StartKeeps

-----------------------------------------------------------------------------
(***************************************************************************)
(* iclear                                                                  *)
(***************************************************************************)
\* The thread frees blocks that it has, and has the others after.
Freeing(t, p, a, B) ==
    LET had == Holding(store, "free", ino[t], blk[t], arg[t])
        has == Holding(store, p, ino[t], blk[t], a)
    IN /\ pc[t] = "free" /\ p \in {"free", "clear"} /\ a \in Nat
       /\ a <= ino[t].size_blocks /\ (p = "clear" => a = 0)
       /\ DOMAIN pc' = Thread /\ pc'[t] = p /\ \A u \in Thread \ {t} : pc'[u] = pc[u]
       /\ arg' = [arg EXCEPT ![t] = a] /\ bfree(B)
       /\ has \subseteq had /\ \A b \in B : \E r \in had \ has : r[3] = b
       /\ UNCHANGED <<inode_bitmap, dinode, store, dirVars, file, ino, cursor, blk, content,
                      calls, torn>>

LEMMA FreeingKeeps ==
    ASSUME IInv, NEW t \in Thread, NEW p, NEW a, NEW B, Freeing(t, p, a, B)
    PROVE  IInv' /\ Apart(t)
<1>0. PICK had, has : /\ had = Holding(store, "free", ino[t], blk[t], arg[t])
                      /\ has = Holding(store, p, ino[t], blk[t], a)
  OBVIOUS
<1>1. /\ pc[t] = "free" /\ p \in {"free", "clear"} /\ a \in Nat
      /\ a <= ino[t].size_blocks /\ (p = "clear" => a = 0)
      /\ DOMAIN pc' = Thread /\ pc'[t] = p /\ \A u \in Thread \ {t} : pc'[u] = pc[u]
      /\ arg' = [arg EXCEPT ![t] = a] /\ bfree(B)
      /\ has \subseteq had /\ \A b \in B : \E r \in had \ has : r[3] = b
      /\ UNCHANGED <<inode_bitmap, dinode, store, dirVars, file, ino, cursor, blk, content,
                     calls, torn>>
  BY <1>0 DEF Freeing
<1>2. pc[t] \notin Down
  BY <1>1 DEF Down
<1>3. /\ Up /\ TypeOK /\ NumInv /\ BlocksDisjoint /\ \A u \in Thread : DirInv(u) /\ SizeInv(u)
      /\ \A n \in Inode : dinode[n].size <= Capacity
  BY <1>2, UpHas
<1>4. /\ pc'[t] = p /\ arg'[t] = a /\ dir' = dir /\ dirsize' = dirsize
      /\ block_bitmap' = block_bitmap \ B
  BY <1>1, <1>3 DEF TypeOK, dirVars, bfree
<1>5. Alone(t) /\ DiskMine(t)
  BY <1>1, <1>3, <1>4 DEF Alone, DiskMine, TypeOK
<1>6. TypeOK'
  <2>1. block_bitmap' \subseteq Block /\ free_blocks' = Cardinality(Free')
    BY <1>1, <1>3, BfreeKeeps DEF TypeOK
  <2> QED BY <1>1, <1>3, <1>4, <2>1 DEF TypeOK, dirVars
<1>7. DirInv(t)' /\ NumInv'
  <2>1. pc[t] \in Using \ {"entry"} /\ pc'[t] \in Using /\ pc'[t] \notin {"new inode", "emptied", "ifree"}
    BY <1>1, <1>4 DEF Using
  <2> QED BY <1>1, <1>4, <1>5, <2>1, InFile
<1>8. SizeInv(t)'
  <2>1. SizeInv(t)
    BY <1>3
  <2>2. CASE p = "free"
    BY <2>1, <2>2, <1>1, <1>4 DEF SizeInv, Moving
  <2>3. CASE p = "clear"
    BY <2>1, <2>3, <1>1, <1>4 DEF SizeInv, Moving
  <2> QED BY <1>1, <2>2, <2>3
<1>9. BlocksDisjoint' /\ Apart(t)
  <2>1. PICK f \in FilesOf(t) : f = file[t]
    BY <1>1, <1>3, FileInUse
  <2>2. Owned(f) = had /\ Owned(f)' = has /\ f \in File
    BY <1>0, <1>1, <1>3, <1>4, <2>1, InUse, FilesAre
  <2>3. \A g, h \in File : \A r \in Owned(g), s \in Owned(h) :
           r[3] \in block_bitmap /\ (r[3] = s[3] => g = h /\ r = s)
    BY <1>3 DEF BlocksDisjoint
  <2>4. \A g \in File \ {f} : \A r \in Owned(g) : r[3] \in block_bitmap'
    BY <1>1, <1>4, <2>2, <2>3
  <2>5. \A r \in Owned(f)' : r[3] \in block_bitmap'
    <3> SUFFICES ASSUME NEW r \in Owned(f)', r[3] \notin block_bitmap'
                 PROVE  FALSE
      OBVIOUS
    <3>1. r \in Owned(f) /\ r \in has /\ r[3] \in block_bitmap
      BY <2>2, <2>3, <1>1
    <3>2. PICK s \in had \ has : s[3] = r[3]
      BY <1>1, <1>4, <3>1
    <3>3. s = r
      BY <3>1, <3>2, <2>2, <2>3
    <3> QED BY <3>1, <3>2, <3>3
  <2>6. \A g \in FilesOf(t) : namei(t, g)' = namei(t, g)
    BY <1>4, NameiIs, NameiNext
  <2>7. OthersKept(t, f)
    BY <1>1, <1>5, <2>1, <2>4, <2>6 DEF OthersKept
  <2> QED BY <1>1, <1>2, <2>2, <2>5, <2>7, DisjointLess
<1>10. pc'[t] \notin Down /\ \A n \in Inode : dinode'[n].size <= Capacity
  BY <1>1, <1>3, <1>4 DEF Down
<1> QED BY <1>2, <1>5, <1>6, <1>7, <1>8, <1>9, <1>10, StepKeeps

LEMMA FreeDataKeeps ==
    ASSUME IInv, NEW t \in Thread, FreeData(t)
    PROVE  IInv' /\ Apart(t)
<1>1. PICK c, a, b : c = ino[t] /\ a = arg[t] /\ b = MapIn(store, c, a)
  OBVIOUS
<1>2. b = blockmap(c, a)
  BY <1>1 DEF blockmap, MapIn, Word, WordIn
<1>3. /\ pc[t] = "free" /\ a < BlocksOf(c.size) /\ bfree({b})
      /\ arg' = [arg EXCEPT ![t] = a + 1]
      /\ UNCHANGED <<inode_bitmap, dinode, store, dirVars, pc, file, ino, cursor, blk,
                     content, calls, torn>>
  BY <1>1, <1>2 DEF FreeData, Set
<1>4. TypeOK /\ SizeInv(t)
  BY <1>3, UpHas DEF Down
<1>5. c.size_blocks = BlocksOf(c.size) /\ a \in Nat /\ c.size_blocks \in Nat
  BY <1>1, <1>3, <1>4 DEF SizeInv, TypeOK, Copy
<1>6. PICK had, has : /\ had = Holding(store, "free", c, blk[t], a)
                      /\ has = Holding(store, "free", c, blk[t], a + 1)
  OBVIOUS
<1>7. /\ had = {r \in RefsIn(store, c, c.size_blocks) : r[1] # "data" \/ r[2] >= a}
      /\ has = {r \in RefsIn(store, c, c.size_blocks) : r[1] # "data" \/ r[2] >= a + 1}
  BY <1>6 DEF Holding, Moving
<1>8. has \subseteq had
  <2> SUFFICES ASSUME NEW r \in RefsIn(store, c, c.size_blocks), r[1] = "data", r[2] >= a + 1
               PROVE  r[2] >= a
    BY <1>7
  <2>1. r \in {<<"data", k, MapIn(store, c, k)>> : k \in 0 .. c.size_blocks - 1}
    BY DEF RefsIn, PointersIn
  <2>2. r[2] \in Nat
    BY <2>1, <1>5
  <2> QED BY <2>2, <1>5
<1>9. <<"data", a, b>> \in had \ has
  <2>1. a \in 0 .. c.size_blocks - 1
    BY <1>3, <1>5
  <2>2. <<"data", a, b>> \in RefsIn(store, c, c.size_blocks)
    BY <2>1, <1>1 DEF RefsIn
  <2> QED BY <2>2, <1>5, <1>7
<1>10. \A v \in {b} : \E r \in had \ has : r[3] = v
  BY <1>9
<1>11. DOMAIN pc' = Thread /\ pc'[t] = "free" /\ \A u \in Thread \ {t} : pc'[u] = pc[u]
  BY <1>3, <1>4 DEF TypeOK
<1>12. PICK m, B : m = a + 1 /\ B = {b}
  OBVIOUS
<1>13. m <= ino[t].size_blocks /\ m \in Nat /\ bfree(B) /\ arg' = [arg EXCEPT ![t] = m]
  BY <1>1, <1>3, <1>5, <1>12
<1>14. /\ had = Holding(store, "free", ino[t], blk[t], arg[t])
       /\ has = Holding(store, "free", ino[t], blk[t], m)
       /\ \A v \in B : \E r \in had \ has : r[3] = v
  BY <1>1, <1>6, <1>10, <1>12
<1>15. Freeing(t, "free", m, B)
  BY <1>3, <1>8, <1>11, <1>13, <1>14 DEF Freeing
<1> QED BY <1>15, FreeingKeeps

LEMMA free_all_indirectKeeps ==
    ASSUME IInv, NEW t \in Thread, free_all_indirect(t)
    PROVE  IInv' /\ Apart(t)
<1>1. PICK c, a : c = ino[t] /\ a = arg[t]
  OBVIOUS
<1>2. PICK B : B = {c.indirect : k \in {INODE_DIRECT_BLOCKS} \cap 0 .. a - 1}
  OBVIOUS
<1>3. /\ pc[t] = "free" /\ pc' = [pc EXCEPT ![t] = "clear"] /\ a = BlocksOf(c.size) /\ bfree(B)
      /\ arg' = [arg EXCEPT ![t] = 0]
      /\ UNCHANGED <<inode_bitmap, dinode, store, dirVars, file, ino, cursor, blk, content,
                     calls, torn>>
  BY <1>1, <1>2 DEF free_all_indirect, Goto, Set
<1>4. TypeOK /\ SizeInv(t)
  BY <1>3, UpHas DEF Down
<1>5. c.size_blocks = a
  BY <1>1, <1>3, <1>4 DEF SizeInv
<1>6. PICK had, has : /\ had = Holding(store, "free", c, blk[t], a)
                      /\ has = Holding(store, "clear", c, blk[t], 0)
  OBVIOUS
<1>7. /\ had = {r \in RefsIn(store, c, a) : r[1] # "data" \/ r[2] >= a} /\ has = {}
  BY <1>5, <1>6 DEF Holding, Moving
<1>8. \A b \in B : \E r \in had \ has : r[3] = b
  <2> SUFFICES ASSUME NEW k \in {INODE_DIRECT_BLOCKS} \cap 0 .. a - 1
               PROVE  \E r \in had \ has : r[3] = c.indirect
    BY <1>2
  <2>1. <<"indirect", 0, c.indirect>> \in RefsIn(store, c, a)
    BY DEF RefsIn, PointersIn
  <2>2. <<"indirect", 0, c.indirect>>[1] # "data" /\ <<"indirect", 0, c.indirect>>[3] = c.indirect
    OBVIOUS
  <2>3. <<"indirect", 0, c.indirect>> \in had \ has
    BY <2>1, <2>2, <1>7
  <2> QED BY <2>2, <2>3
<1>9. has \subseteq had
  BY <1>7
<1>10. DOMAIN pc' = Thread /\ pc'[t] = "clear" /\ \A u \in Thread \ {t} : pc'[u] = pc[u]
  BY <1>3, <1>4 DEF TypeOK
<1>11. PICK p, m : p = "clear" /\ m = 0
  OBVIOUS
<1>12. /\ p \in {"free", "clear"} /\ m \in Nat /\ p # "free" /\ m = 0
       /\ pc'[t] = p /\ arg' = [arg EXCEPT ![t] = m]
       /\ had = Holding(store, "free", ino[t], blk[t], arg[t])
       /\ has = Holding(store, p, ino[t], blk[t], m)
  BY <1>1, <1>3, <1>6, <1>10, <1>11
<1>13. m <= ino[t].size_blocks
  BY <1>1, <1>3, <1>4, <1>5, <1>11 DEF TypeOK, Copy
<1>14. \A b \in B : \E r \in had \ has : r[3] = b
  BY <1>8
<1>15. Freeing(t, p, m, B)
  BY <1>3, <1>9, <1>10, <1>12, <1>13, <1>14 DEF Freeing
<1> QED BY <1>15, FreeingKeeps

\* izero keeps the number, the state and size_blocks.
LEMMA ZeroIs ==
    ASSUME NEW c \in Copy
    PROVE  /\ izero(c) \in Copy /\ izero(c).num = c.num /\ izero(c).size = 0
           /\ izero(c).size_blocks = c.size_blocks
           /\ OnDisk(izero(c)) \in DiskInode /\ OnDisk(izero(c)).size = 0
<1> DEFINE e == [num |-> c.num, size_blocks |-> c.size_blocks, status |-> c.status,
                 size |-> 0, direct |-> NoDirect, indirect |-> 0, double_indirect |-> 0]
<1>1. NoDirect \in [0 .. INODE_DIRECT_BLOCKS - 1 -> Pointer] /\ 0 \in Pointer
  BY DEF NoDirect, Pointer
<1>2. izero(c) = e
  <2>1. PICK x : x = [NoCopy EXCEPT !.num = c.num]
    OBVIOUS
  <2>2. x = [num |-> c.num, size_blocks |-> 0, status |-> "UNCHANGED",
             size |-> 0, direct |-> NoDirect, indirect |-> 0, double_indirect |-> 0]
    BY <2>1 DEF NoCopy
  <2>3. PICK y : y = [x EXCEPT !.size_blocks = c.size_blocks]
    OBVIOUS
  <2>4. y = [num |-> c.num, size_blocks |-> c.size_blocks, status |-> "UNCHANGED",
             size |-> 0, direct |-> NoDirect, indirect |-> 0, double_indirect |-> 0]
    BY <2>2, <2>3
  <2>5. [y EXCEPT !.status = c.status] = e
    BY <2>4
  <2>6. izero(c) = [y EXCEPT !.status = c.status]
    BY <2>1, <2>3 DEF izero
  <2> QED BY <2>5, <2>6
<1>3. e \in Copy /\ e.num = c.num /\ e.size = 0 /\ e.size_blocks = c.size_blocks
  BY <1>1 DEF Copy
<1>4. OnDisk(e) \in DiskInode /\ OnDisk(e).size = 0
  BY <1>1 DEF OnDisk, DiskInode
<1> QED BY <1>2, <1>3, <1>4

LEMMA ZeroInodeKeeps ==
    ASSUME IInv, NEW t \in Thread, ZeroInode(t)
    PROVE  IInv' /\ Apart(t)
<1>1. PICK c : c = izero(ino[t])
  OBVIOUS
<1>2. PICK p : p = IF ino[t].status = "TO_DELETE" THEN "ifree" ELSE "emptied"
  OBVIOUS
<1>3. /\ pc[t] = "clear" /\ pc' = [pc EXCEPT ![t] = p] /\ DOMAIN content' = DOMAIN content
      /\ ino' = [ino EXCEPT ![t] = c] /\ dinode' = [dinode EXCEPT ![c.num] = OnDisk(c)]
      /\ UNCHANGED <<blockVars, inode_bitmap, store, dirVars, file, cursor, blk, arg, calls,
                     torn>>
  BY <1>1, <1>2 DEF ZeroInode, Goto, Set, iupdate, EndsAs
<1>4. pc[t] \notin Down
  BY <1>3 DEF Down
<1>5. /\ Up /\ TypeOK /\ NumInv /\ BlocksDisjoint /\ \A u \in Thread : DirInv(u) /\ SizeInv(u)
      /\ \A n \in Inode : dinode[n].size <= Capacity
  BY <1>4, UpHas
<1>6. /\ c \in Copy /\ c.num = ino[t].num /\ OnDisk(c) \in DiskInode /\ OnDisk(c).size = 0
  <2>1. ino[t] \in Copy
    BY <1>5 DEF TypeOK
  <2> QED BY <2>1, <1>1, ZeroIs
<1>7. c.num \in Inode /\ Has(t, c.num)
  <2>1. pc[t] \in Using \ {"entry"}
    BY <1>3 DEF Using
  <2> QED BY <2>1, <1>5, <1>6, UsingHas
<1>8. pc'[t] = p /\ ino'[t] = c /\ dinode'[c.num] = OnDisk(c)
  BY <1>3, <1>5, <1>7 DEF TypeOK
<1>9. Alone(t) /\ DiskMine(t)
  BY <1>3, <1>5, <1>6, <1>7 DEF Alone, DiskMine, TypeOK, dirVars
<1>10. TypeOK'
  <2>1. dinode' \in [Inode -> DiskInode] /\ ino' \in [Thread -> Copy]
    BY <1>3, <1>5, <1>6 DEF TypeOK
  <2> QED BY <1>3, <1>5, <2>1 DEF TypeOK, dirVars, blockVars, Free
<1>11. pc[t] \in Using \ {"entry"} /\ pc'[t] \in Using
  BY <1>2, <1>3, <1>8 DEF Using
<1>12. DirInv(t)' /\ NumInv'
  BY <1>3, <1>6, <1>8, <1>9, <1>11, InFile DEF dirVars
<1>13. SizeInv(t)'
  <2>1. arg[t] = 0 /\ cursor[t] = 0
    BY <1>3, <1>5 DEF SizeInv, Moving
  <2>2. arg'[t] = 0 /\ cursor'[t] = 0
    BY <2>1, <1>3
  <2> QED BY <2>2, <1>2, <1>8 DEF SizeInv, Moving
<1>14. BlocksDisjoint' /\ Apart(t)
  <2>1. Holding(store', pc'[t], ino'[t], blk'[t], arg'[t]) = {}
    BY <1>2, <1>8 DEF Holding, Moving
  <2> QED BY <1>3, <1>9, <1>11, <2>1, WithinFile DEF dirVars, blockVars
<1>15. pc'[t] \notin Down /\ \A n \in Inode : dinode'[n].size <= Capacity
  BY <1>2, <1>3, <1>5, <1>6, <1>8, Constants DEF Down, TypeOK
<1> QED BY <1>4, <1>9, <1>10, <1>12, <1>13, <1>14, <1>15, StepKeeps
-----------------------------------------------------------------------------
(***************************************************************************)
(* The end of minifile_unlink                                              *)
(***************************************************************************)
LEMMA ifreeKeeps ==
    ASSUME IInv, NEW t \in Thread, ifree(t)
    PROVE  IInv' /\ Apart(t)
<1>1. /\ pc[t] = "ifree" /\ pc' = [pc EXCEPT ![t] = "entry"]
      /\ inode_bitmap' = inode_bitmap \ {ino[t].num}
      /\ UNCHANGED <<blockVars, dinode, store, dirVars, file, ino, cursor, blk, arg, content,
                     calls, torn>>
  BY DEF ifree, Goto
<1>2. pc[t] \notin Down
  BY <1>1 DEF Down
<1>3. /\ Up /\ TypeOK /\ NumInv /\ BlocksDisjoint /\ \A u \in Thread : DirInv(u) /\ SizeInv(u)
      /\ \A n \in Inode : dinode[n].size <= Capacity
  BY <1>2, UpHas
<1>4. /\ pc'[t] = "entry" /\ dir' = dir /\ dirsize' = dirsize /\ block_bitmap' = block_bitmap
  BY <1>1, <1>3 DEF TypeOK, dirVars, blockVars
<1>5. Alone(t) /\ DiskMine(t)
  BY <1>1, <1>3, <1>4 DEF Alone, DiskMine, TypeOK
<1>6. TypeOK'
  BY <1>1, <1>3 DEF TypeOK, dirVars, blockVars, Free
<1>7. pc[t] \in Using /\ pc'[t] \in Using /\ ino[t].num \in Inode /\ Has(t, ino[t].num)
  <2>1. pc[t] \in Using \ {"entry"} /\ pc'[t] \in Using
    BY <1>1, <1>4 DEF Using
  <2> QED BY <2>1, <1>3, UsingHas
<1>8. DirInv(t)'
  BY <1>1, <1>3, <1>4, <1>7, DirKeep
<1>9. NumInv'
  <2>1. Kept(t)' = Kept(t)
    BY <1>1, <1>4 DEF Kept
  <2>2. \A n \in Inode : Has(t, n)' => n # ino[t].num /\ Has(t, n)
    BY <1>1, <1>4, <2>1 DEF Has, Listed, Making
  <2>3. \A n \in Inode : Has(t, n)' => n \in inode_bitmap' /\ Has(t, n)
    BY <1>1, <1>3, <2>2 DEF NumInv
  <2>4. dinode'[ino[t].num].size = 0
    BY <1>1, <1>3 DEF NumInv
  <2>5. \A n \in inode_bitmap : n \in inode_bitmap' \/ (Has(t, n) /\ dinode'[n].size = 0)
    BY <1>1, <1>7, <2>4
  <2>6. \A u \in Thread : pc[u] \notin Down
    BY <1>3 DEF Up, Down
  <2>7. pc'[t] \notin Making \cup {"new inode", "emptied", "ifree"}
    BY <1>4 DEF Making
  <2> QED BY <1>3, <1>5, <2>3, <2>5, <2>6, <2>7, NumMove
<1>10. SizeInv(t)'
  <2>1. SizeInv(t)
    BY <1>3
  <2> QED BY <2>1, <1>1, <1>4 DEF SizeInv, Moving
<1>11. BlocksDisjoint' /\ Apart(t)
  <2>1. Holding(store', pc'[t], ino'[t], blk'[t], arg'[t]) = {}
    BY <1>4 DEF Holding, Moving
  <2> QED BY <1>1, <1>4, <1>5, <1>7, <2>1, WithinFile
<1>12. pc'[t] \notin Down /\ \A n \in Inode : dinode'[n].size <= Capacity
  BY <1>1, <1>3, <1>4 DEF Down
<1> QED BY <1>2, <1>5, <1>6, <1>8, <1>9, <1>10, <1>11, <1>12, StepKeeps

\* Two tables with the same entries of a name, which all have one number.
SameEntries(d, k, z, m, f) ==
    /\ k \in Nat /\ m \in Nat
    /\ \A x \in 1 .. k : d[x].name = f => \E y \in 1 .. m : z[y] = d[x]
    /\ \A y \in 1 .. m : z[y].name = f => \E x \in 1 .. k : d[x] = z[y]
    /\ \A x, y \in 1 .. k : d[x].name = f /\ d[y].name = f => d[x].inum = d[y].inum

LEMMA NameiEqual ==
    ASSUME NEW d, NEW k, NEW z, NEW m, NEW f, SameEntries(d, k, z, m, f)
    PROVE  NameiIn(z, m, f) = NameiIn(d, k, f)
<1> USE DEF SameEntries
<1>1. CASE \A x \in 1 .. k : d[x].name # f
  <2>1. \A y \in 1 .. m : z[y].name # f
    BY <1>1
  <2> QED BY <1>1, <2>1, NameiNone
<1>2. CASE \E x \in 1 .. k : d[x].name = f
  <2>1. PICK x \in 1 .. k : d[x].name = f
    BY <1>2
  <2>2. PICK y \in 1 .. m : z[y] = d[x]
    BY <2>1
  <2>3. NameiIn(d, k, f) = d[x].inum
    <3>1. Leads(d, k, f, x)
      BY <2>1 DEF Leads
    <3> QED BY <3>1, NameiFound
  <2>4. \A v \in 1 .. m : z[v].name = f => z[v].inum = z[y].inum
    BY <2>1, <2>2
  <2>5. m \in Nat /\ z[y].name = f
    BY <2>1, <2>2
  <2> HIDE DEF SameEntries
  <2>6. NameiIn(z, m, f) = z[y].inum
    <3>1. Leads(z, m, f, y)
      BY <2>4, <2>5 DEF Leads
    <3> QED BY <3>1, NameiFound
  <2> QED BY <2>2, <2>3, <2>6
<1> QED BY <1>1, <1>2

\* A step of the thread with a directory, in which the file has no blocks after, and no
\* block changes hands.
LEMMA DirStep ==
    ASSUME IInv, NEW t \in Thread, pc[t] \notin Down, NEW f \in FilesOf(t),
           file[t] \in {0, f}, file'[t] \in {0, f}, Alone(t), DiskMine(t),
           block_bitmap' = block_bitmap, store' = store, Owned(f)' \subseteq Owned(f),
           \A g \in FilesOf(t) \ {f} : namei(t, g)' = namei(t, g)
    PROVE  BlocksDisjoint' /\ Apart(t)
<1>1. \A g \in File : \A r \in Owned(g) : r[3] \in block_bitmap'
  BY UpHas DEF BlocksDisjoint
<1>2. OthersKept(t, f)
  BY <1>1 DEF OthersKept
<1>3. \A r \in Owned(f)' : r[3] \in block_bitmap'
  BY <1>1, FilesAre
<1> QED BY <1>2, <1>3, DisjointLess

LEMMA idelete_from_dirKeeps ==
    ASSUME IInv, NEW t \in Thread, idelete_from_dir(t)
    PROVE  IInv' /\ Apart(t)
<1>1. PICK d, k, n : d = dir[t] /\ k = dirsize[t] /\ n = ino[t].num
  OBVIOUS
<1>2. PICK e : e = Min({x \in 1 .. k : d[x].inum = n})
  OBVIOUS
<1>3. /\ pc[t] = "entry" /\ pc' = [pc EXCEPT ![t] = "parent"]
      /\ dir' = [dir EXCEPT ![t][e] = d[k]]
      /\ UNCHANGED <<blockVars, inode_bitmap, dinode, store, dirsize, file, ino, cursor, blk,
                     arg, content, calls, torn>>
  BY <1>1, <1>2 DEF idelete_from_dir, Goto, Entries
<1>4. pc[t] \notin Down
  BY <1>3 DEF Down
<1>5. /\ Up /\ TypeOK /\ NumInv /\ BlocksDisjoint /\ \A u \in Thread : DirInv(u) /\ SizeInv(u)
      /\ \A i \in Inode : dinode[i].size <= Capacity
  BY <1>4, UpHas
<1>6. PICK f \in FilesOf(t) : f = file[t] /\ f # 0
  BY <1>3, <1>5, FileInUse, FilesAre
<1>7. /\ k \in Nat /\ k <= Cardinality(FilesOf(t)) /\ Kept(t) = 1 .. k
      /\ d \in [1 .. Cardinality(FilesOf(t)) -> Entry] /\ n \in Inode
  <2>1. DirInv(t)
    BY <1>5
  <2> QED BY <1>1, <1>3, <1>5, <2>1 DEF TypeOK, Kept, DirInv
<1>8. /\ \A x \in 1 .. k : d[x].name \in FilesOf(t) /\ d[x].inum \in Inode
      /\ \A x, y \in 1 .. k : d[x].name = d[y].name \/ d[x].inum = d[y].inum => x = y
  <2>1. DirInv(t)
    BY <1>5
  <2> QED BY <2>1, <1>1, <1>7 DEF DirInv, Distinct
<1>9. e \in 1 .. k /\ d[e] = [name |-> f, inum |-> n]
  <2>1. DirInv(t)
    BY <1>5
  <2>2. PICK x \in 1 .. k : d[x] = [name |-> f, inum |-> n]
    BY <2>1, <1>1, <1>3, <1>6, <1>7 DEF DirInv, Using, EntryOf
  <2> DEFINE S == {y \in 1 .. k : d[y].inum = n}
  <2>3. x \in S /\ S \subseteq Nat
    BY <2>2, <1>7
  <2>4. e \in S
    BY <2>3, <1>2, MinIs
  <2> QED BY <2>2, <2>4, <1>8
<1>10. PICK z : z = [d EXCEPT ![e] = d[k]]
  OBVIOUS
<1>11. /\ z \in [1 .. Cardinality(FilesOf(t)) -> Entry] /\ z[e] = d[k] /\ k \in 1 .. k
       /\ \A x \in 1 .. k : x # e => z[x] = d[x]
  <2>1. k \in 1 .. k /\ 1 .. k \subseteq 1 .. Cardinality(FilesOf(t))
    BY <1>7, <1>9, FilesAre
  <2> QED BY <2>1, <1>7, <1>9, <1>10
<1>12. /\ dir'[t] = z /\ \A u \in Thread \ {t} : dir'[u] = dir[u]
       /\ DOMAIN dir' = Thread
  BY <1>1, <1>3, <1>5, <1>10 DEF TypeOK
<1>13. /\ pc'[t] = "parent" /\ file'[t] = f /\ dirsize'[t] = k /\ ino'[t] = ino[t]
       /\ block_bitmap' = block_bitmap /\ Kept(t)' = 1 .. k - 1
  BY <1>1, <1>3, <1>5, <1>6 DEF TypeOK, blockVars, Kept
\* Where the entry was before the step.
<1> DEFINE was(x) == IF x = e THEN k ELSE x
<1>14. /\ \A x \in 1 .. k - 1 : was(x) \in 1 .. k /\ was(x) # e /\ z[x] = d[was(x)]
       /\ \A x, y \in 1 .. k - 1 : was(x) = was(y) => x = y
  BY <1>7, <1>9, <1>11
<1> HIDE DEF was
<1>15. Alone(t) /\ DiskMine(t)
  BY <1>3, <1>5, <1>12 DEF Alone, DiskMine, TypeOK
<1>16. TypeOK'
  <2>1. \A u \in Thread : dir'[u] \in [1 .. Cardinality(FilesOf(u)) -> Entry]
    BY <1>5, <1>11, <1>12 DEF TypeOK
  <2> QED BY <1>3, <1>5, <1>12, <2>1 DEF TypeOK, blockVars, Free
<1>17. \A x \in 1 .. k - 1 : /\ z[x].name \in FilesOf(t) /\ z[x].inum \in Inode
                             /\ z[x].name # f /\ z[x].inum # n
  <2> SUFFICES ASSUME NEW x \in 1 .. k - 1
               PROVE  /\ z[x].name \in FilesOf(t) /\ z[x].inum \in Inode
                      /\ z[x].name # f /\ z[x].inum # n
    OBVIOUS
  <2>1. was(x) \in 1 .. k /\ was(x) # e /\ z[x] = d[was(x)]
    BY <1>14
  <2>2. d[e].name = f /\ d[e].inum = n
    BY <1>9
  <2> QED BY <2>1, <2>2, <1>8, <1>9
<1>18. DirInv(t)'
  <2>1. Distinct(z, 1 .. k - 1)
    BY <1>8, <1>14 DEF Distinct
  <2>2. z[k] = [name |-> f, inum |-> n] \/ \E x \in 1 .. k - 1 : z[x] = z[k]
    <3>1. CASE e = k
      BY <3>1, <1>9, <1>11
    <3>2. CASE e # k
      BY <3>2, <1>7, <1>9, <1>11
    <3> QED BY <3>1, <3>2
  <2>3. EntryOf(t)' = [name |-> f, inum |-> n]
    BY <1>1, <1>13 DEF EntryOf
  <2>4. k > 0
    BY <1>7, <1>9
  <2>5. "parent" \in Phase /\ "parent" \notin Using
    BY DEF Phase, Using
  <2> QED BY <1>1, <1>6, <1>7, <1>12, <1>13, <1>17, <2>1, <2>2, <2>3, <2>4, <2>5 DEF DirInv
<1>19. NumInv'
  <2>1. \A i \in Inode : Has(t, i)' => Has(t, i)
    <3> SUFFICES ASSUME NEW i \in Inode, Has(t, i)'
                 PROVE  Has(t, i)
      OBVIOUS
    <3>1. PICK x \in 1 .. k - 1 : z[x].inum = i
      BY <1>12, <1>13 DEF Has, Listed, Making
    <3>2. i # n
      BY <3>1, <1>17
    <3>3. was(x) \in 1 .. k /\ d[was(x)].inum = i
      BY <3>1, <1>14
    <3> QED BY <3>2, <3>3, <1>1, <1>3, <1>7 DEF Has, Listed, Making
  <2>2. \A u \in Thread : pc[u] \notin Down
    BY <1>5 DEF Up, Down
  <2>3. pc'[t] \notin Making \cup {"new inode", "emptied", "ifree"} /\ inode_bitmap' = inode_bitmap
    BY <1>3, <1>13 DEF Making
  <2> QED BY <1>5, <1>15, <2>1, <2>2, <2>3, NumStep
<1>20. SizeInv(t)'
  <2>1. SizeInv(t)
    BY <1>5
  <2> QED BY <2>1, <1>3, <1>13 DEF SizeInv, Moving
<1>21. BlocksDisjoint' /\ Apart(t)
  <2>1. Owned(f)' = {}
    <3>1. Owned(f)' = Holding(store', pc'[t], ino'[t], blk'[t], arg'[t])
      BY <1>5, <1>13, InUse
    <3> QED BY <3>1, <1>13 DEF Holding, Moving
  <2>2. ASSUME NEW g \in FilesOf(t) \ {f}
        PROVE  namei(t, g)' = namei(t, g)
    <3>1. ASSUME NEW x \in 1 .. k, d[x].name = g
          PROVE  \E y \in 1 .. k : z[y] = d[x]
      BY <3>1, <1>9, <1>11
    <3>2. ASSUME NEW y \in 1 .. k, z[y].name = g
          PROVE  \E x \in 1 .. k : d[x] = z[y]
      BY <1>11
    <3>3. \A x, y \in 1 .. k : d[x].name = g /\ d[y].name = g => d[x].inum = d[y].inum
      BY <1>8
    <3>4. SameEntries(d, k, z, k, g)
      BY <1>7, <3>1, <3>2, <3>3 DEF SameEntries
    <3>5. NameiIn(z, k, g) = NameiIn(d, k, g)
      BY <3>4, NameiEqual
    <3> QED BY <3>5, <1>1, <1>12, <1>13, NameiIs, NameiNext
  <2> QED BY <1>3, <1>4, <1>6, <1>13, <1>15, <2>1, <2>2, DirStep
<1>22. pc'[t] \notin Down /\ \A i \in Inode : dinode'[i].size <= Capacity
  BY <1>3, <1>5, <1>13 DEF Down
<1> QED BY <1>4, <1>15, <1>16, <1>18, <1>19, <1>20, <1>21, <1>22, StepKeeps

\* A thread without a file has no copy of an inode.
LEMMA NoCopyIs == NoCopy \in Copy
BY DEF NoCopy, NoDirect, Copy, Pointer

LEMMA ShrinkParentKeeps ==
    ASSUME IInv, NEW t \in Thread, ShrinkParent(t)
    PROVE  IInv' /\ Apart(t)
<1>1. PICK d, k : d = dir[t] /\ k = dirsize[t]
  OBVIOUS
<1>2. /\ pc[t] = "parent" /\ pc' = [pc EXCEPT ![t] = "idle"]
      /\ dirsize' = [dirsize EXCEPT ![t] = k - 1] /\ file' = [file EXCEPT ![t] = 0]
      /\ ino' = [ino EXCEPT ![t] = NoCopy] /\ DOMAIN content' = DOMAIN content
      /\ UNCHANGED <<blockVars, inode_bitmap, dinode, store, dir, cursor, blk, arg, calls,
                     torn>>
  BY <1>1 DEF ShrinkParent, Goto, Set, EndsAs
<1>3. pc[t] \notin Down
  BY <1>2 DEF Down
<1>4. /\ Up /\ TypeOK /\ NumInv /\ BlocksDisjoint /\ \A u \in Thread : DirInv(u) /\ SizeInv(u)
      /\ \A n \in Inode : dinode[n].size <= Capacity
  BY <1>3, UpHas
<1>5. PICK f \in FilesOf(t) : f = file[t] /\ f # 0 /\ f \in File /\ owner[f] = t
  BY <1>2, <1>4, FileInUse, FilesAre
<1>6. DirInv(t) /\ SizeInv(t)
  BY <1>4
<1>7. /\ k \in Nat /\ k > 0 /\ k - 1 \in Nat /\ k <= Cardinality(FilesOf(t))
      /\ Kept(t) = 1 .. k - 1
  <2>1. k \in Nat /\ k <= Cardinality(FilesOf(t))
    BY <1>1, <1>4 DEF TypeOK
  <2>2. k > 0
    BY <1>1, <1>2, <1>6 DEF DirInv
  <2>3. Kept(t) = 1 .. k - 1
    BY <1>1, <1>2 DEF Kept
  <2> QED BY <2>1, <2>2, <2>3
<1>8. /\ \A x \in 1 .. k - 1 : d[x].name # f
      /\ \A x, y \in 1 .. k - 1 : d[x].name = d[y].name => x = y
      /\ d[k].name = f \/ \E x \in 1 .. k - 1 : d[x] = d[k]
  BY <1>1, <1>2, <1>5, <1>6, <1>7 DEF DirInv, Distinct, EntryOf
<1>9. /\ pc'[t] = "idle" /\ file'[t] = 0 /\ dirsize'[t] = k - 1 /\ ino'[t] = NoCopy
      /\ dir'[t] = d /\ Kept(t)' = 1 .. k - 1 /\ block_bitmap' = block_bitmap
  BY <1>1, <1>2, <1>4 DEF TypeOK, Kept, blockVars
<1>10. Alone(t) /\ DiskMine(t)
  BY <1>2, <1>4 DEF Alone, DiskMine, TypeOK
<1>11. TypeOK'
  <2>1. /\ ino' \in [Thread -> Copy] /\ dirsize' \in [Thread -> Nat]
        /\ \A u \in Thread : dirsize'[u] <= Cardinality(FilesOf(u))
        /\ \A u \in Thread : file'[u] \in FilesOf(u) \cup {0}
    BY <1>2, <1>4, <1>7, NoCopyIs, FilesAre DEF TypeOK
  <2> QED BY <1>2, <1>4, <2>1 DEF TypeOK, blockVars, Free
<1>12. DirInv(t)'
  <2>1. "idle" \in Phase /\ "idle" \notin Using \cup Making
    BY DEF Phase, Using, Making
  <2>2. Distinct(d, 1 .. k - 1)
    BY <1>1, <1>6, <1>7 DEF DirInv
  <2> QED BY <1>1, <1>6, <1>7, <1>9, <2>1, <2>2 DEF DirInv
<1>13. NumInv'
  <2>1. \A n \in Inode : Has(t, n)' => Has(t, n)
    BY <1>1, <1>2, <1>7, <1>9 DEF Has, Listed, Making
  <2>2. \A u \in Thread : pc[u] \notin Down
    BY <1>4 DEF Up, Down
  <2>3. pc'[t] \notin Making \cup {"new inode", "emptied", "ifree"} /\ inode_bitmap' = inode_bitmap
    BY <1>2, <1>9 DEF Making
  <2> QED BY <1>4, <1>10, <2>1, <2>2, <2>3, NumStep
<1>14. SizeInv(t)'
  BY <1>2, <1>6, <1>9 DEF SizeInv, Moving
<1>15. BlocksDisjoint' /\ Apart(t)
  <2>1. Owned(f)' = {}
    <3>1. NameiIn(d, k - 1, f) = 0
      BY <1>7, <1>8, NameiNone
    <3>2. namei(t, f)' = 0
      BY <3>1, <1>9, NameiNext
    <3> QED BY <3>2, <1>5, <1>9, OwnedNext
  <2>2. ASSUME NEW g \in FilesOf(t) \ {f}
        PROVE  namei(t, g)' = namei(t, g)
    <3>1. ASSUME NEW x \in 1 .. k, d[x].name = g
          PROVE  \E y \in 1 .. k - 1 : d[y] = d[x]
      BY <3>1, <1>7, <1>8
    <3>2. ASSUME NEW y \in 1 .. k - 1, d[y].name = g
          PROVE  \E x \in 1 .. k : d[x] = d[y]
      BY <1>7
    <3>3. \A x, y \in 1 .. k : d[x].name = g /\ d[y].name = g => d[x].inum = d[y].inum
      BY <3>1, <1>8
    <3>4. SameEntries(d, k, d, k - 1, g)
      BY <1>7, <3>1, <3>2, <3>3 DEF SameEntries
    <3>5. NameiIn(d, k - 1, g) = NameiIn(d, k, g)
      BY <3>4, NameiEqual
    <3> QED BY <3>5, <1>1, <1>9, NameiIs, NameiNext
  <2> QED BY <1>2, <1>3, <1>5, <1>9, <1>10, <2>1, <2>2, DirStep
<1>16. pc'[t] \notin Down /\ \A n \in Inode : dinode'[n].size <= Capacity
  BY <1>2, <1>4, <1>9 DEF Down
<1> QED BY <1>3, <1>10, <1>11, <1>12, <1>13, <1>14, <1>15, <1>16, StepKeeps

-----------------------------------------------------------------------------
(***************************************************************************)
(* minifile_close                                                          *)
(***************************************************************************)
LEMMA BlocksOfLeast ==
    ASSUME NEW s \in Nat, NEW r \in Nat, s <= r * BlockSize
    PROVE  BlocksOf(s) <= r
<1> DEFINE B == BlockSize
           q == (s + B - 1) \div B
           m == (s + B - 1) % B
<1>1. B \in Nat \ {0} /\ s + B - 1 \in Nat
  BY Constants
<1>2. q \in Nat /\ m \in 0 .. B - 1 /\ s + B - 1 = B * q + m
  BY <1>1, Division
<1> HIDE DEF q, m
<1>3. SUFFICES ASSUME ~(q <= r) PROVE FALSE
  BY DEF BlocksOf, q
<1>4. PICK x \in Nat : q = r + 1 + x
  <2>1. q - r - 1 \in Nat /\ q = r + 1 + (q - r - 1)
    BY <1>2, <1>3
  <2> QED BY <2>1
<1>5. B * q = r * B + B + B * x
  BY <1>1, <1>4
<1>6. B * x \in Nat /\ r * B \in Nat
  BY <1>1
<1> QED BY <1>1, <1>2, <1>5, <1>6

LEMMA CloseKeeps ==
    ASSUME IInv, NEW t \in Thread, Close(t)
    PROVE  IInv' /\ Apart(t)
<1>1. PICK c : c = ino[t]
  OBVIOUS
<1>2. /\ pc[t] \in {"open", "emptied"} /\ pc' = [pc EXCEPT ![t] = "idle"]
      /\ file' = [file EXCEPT ![t] = 0] /\ ino' = [ino EXCEPT ![t] = NoCopy]
      /\ cursor' = [cursor EXCEPT ![t] = 0]
      /\ UNCHANGED <<diskVars, blk, arg, content, calls, torn>>
  BY DEF Close, Set
<1>3. pc[t] \notin Down
  BY <1>2 DEF Down
<1>4. /\ Up /\ TypeOK /\ NumInv /\ BlocksDisjoint /\ \A u \in Thread : DirInv(u) /\ SizeInv(u)
      /\ \A n \in Inode : dinode[n].size <= Capacity
  BY <1>3, UpHas
<1>5. PICK f \in FilesOf(t) : f = file[t] /\ f # 0 /\ f \in File /\ owner[f] = t
  BY <1>2, <1>4, FileInUse, FilesAre
<1>6. DirInv(t) /\ SizeInv(t)
  BY <1>4
<1>7. /\ pc'[t] = "idle" /\ file'[t] = 0 /\ ino'[t] = NoCopy /\ cursor'[t] = 0
      /\ arg'[t] = arg[t] /\ dir' = dir /\ dirsize' = dirsize /\ Kept(t)' = Kept(t)
      /\ block_bitmap' = block_bitmap /\ inode_bitmap' = inode_bitmap /\ dinode' = dinode
      /\ store' = store
  BY <1>2, <1>4 DEF TypeOK, Kept, diskVars, blockVars, dirVars
<1>8. Alone(t) /\ DiskMine(t)
  BY <1>2, <1>4, <1>7 DEF Alone, DiskMine, TypeOK
<1>9. TypeOK'
  <2>1. ino' \in [Thread -> Copy] /\ cursor' \in [Thread -> Nat]
        /\ \A u \in Thread : file'[u] \in FilesOf(u) \cup {0}
    BY <1>2, <1>4, NoCopyIs DEF TypeOK
  <2> QED BY <1>2, <1>4, <2>1 DEF TypeOK, diskVars, blockVars, dirVars, Free
<1>10. DirInv(t)'
  <2>1. "idle" \in Phase /\ "idle" \notin Using \cup Making
    BY DEF Phase, Using, Making
  <2>2. Distinct(dir'[t], Kept(t)')
    BY <1>6, <1>7 DEF DirInv
  <2> QED BY <1>6, <1>7, <2>1, <2>2 DEF DirInv
<1>11. NumInv'
  <2>1. \A n \in Inode : Has(t, n)' => Has(t, n)
    BY <1>2, <1>7 DEF Has, Listed, Making
  <2>2. \A u \in Thread : pc[u] \notin Down
    BY <1>4 DEF Up, Down
  <2>3. pc'[t] \notin Making \cup {"new inode", "emptied", "ifree"}
    BY <1>7 DEF Making
  <2> QED BY <1>4, <1>7, <1>8, <2>1, <2>2, <2>3, NumStep
<1>12. SizeInv(t)'
  BY <1>2, <1>6, <1>7 DEF SizeInv, Moving
<1>13. BlocksDisjoint' /\ Apart(t)
  <2>1. PICK n : n = namei(t, f)'
    OBVIOUS
  <2>2. n = c.num /\ n \in Inode
    <3>1. PICK e \in Kept(t) : dir[t][e] = EntryOf(t)
      BY <1>2, <1>6 DEF DirInv, Using
    <3>2. dir[t][e].name = f /\ dir[t][e].inum = c.num
      BY <3>1, <1>1, <1>5 DEF EntryOf
    <3>3. namei(t, f) = c.num
      BY <3>2, <1>2, <1>4, NameiKept
    <3>4. namei(t, f)' = namei(t, f)
      BY <1>7, NameiIs, NameiNext
    <3> QED BY <3>3, <3>4, <2>1, <1>1, <1>2, <1>6 DEF DirInv
  <2>3. Owned(f)' = Stored(store, dinode[n])
    <3>1. n # 0
      BY <2>2, Constants DEF Inode
    <3>2. Owned(f)' = Stored(store', dinode'[n])
      BY <3>1, <2>1, <1>5, <1>7, OwnedNext
    <3> QED BY <3>2, <1>7
  <2>4. Owned(f) = Holding(store, pc[t], c, blk[t], arg[t])
    BY <1>1, <1>4, <1>5, InUse
  <2>5. CASE pc[t] = "open"
    <3>1. /\ c.size \in Nat /\ c.size_blocks \in Nat /\ c.size <= c.size_blocks * BlockSize
          /\ dinode[n] = OnDisk(c)
      BY <2>2, <2>5, <1>1, <1>4, <1>6 DEF SizeInv, TypeOK, Copy
    <3>2. BlocksOf(c.size) \in Nat /\ BlocksOf(c.size) <= c.size_blocks
      BY <3>1, BlocksOfIs, BlocksOfLeast
    <3>3. /\ dinode[n].size = c.size /\ dinode[n].direct = c.direct
          /\ dinode[n].indirect = c.indirect /\ dinode[n].double_indirect = c.double_indirect
      BY <3>1 DEF OnDisk
    <3>4. Stored(store, dinode[n]) = RefsIn(store, c, BlocksOf(c.size))
      BY <3>3, RefsSame DEF Stored
    <3>5. RefsIn(store, c, BlocksOf(c.size)) \subseteq RefsIn(store, c, c.size_blocks)
      BY <3>1, <3>2, RefsMono
    <3>6. Owned(f) = RefsIn(store, c, c.size_blocks)
      BY <2>4, <2>5 DEF Holding
    <3>7. Owned(f)' \subseteq Owned(f)
      BY <2>3, <3>4, <3>5, <3>6
    <3> QED BY <1>2, <1>3, <1>5, <1>7, <1>8, <3>7, DirStep, NameiIs, NameiNext
  <2>6. CASE pc[t] = "emptied"
    <3>1. dinode[n].size = 0
      BY <2>2, <2>6, <1>1, <1>4 DEF NumInv
    <3>2. BlocksOf(dinode[n].size) = 0
      BY <3>1, BlocksOfIs
    <3>3. Owned(f)' = {}
      BY <3>2, <2>3, RefsNone DEF Stored
    <3> QED BY <1>2, <1>3, <1>5, <1>7, <1>8, <3>3, DirStep, NameiIs, NameiNext
  <2> QED BY <1>2, <2>5, <2>6
<1>14. pc'[t] \notin Down /\ \A n \in Inode : dinode'[n].size <= Capacity
  BY <1>4, <1>7 DEF Down
<1> QED BY <1>3, <1>8, <1>9, <1>10, <1>11, <1>12, <1>13, <1>14, StepKeeps

-----------------------------------------------------------------------------
(***************************************************************************)
(* minifile_creat                                                          *)
(***************************************************************************)
LEMMA CreatKeeps ==
    ASSUME IInv, NEW t \in Thread, NEW f \in FilesOf(t), Creat(t, f)
    PROVE  IInv' /\ Apart(t)
<1>1. PICK n : n = Min(Inode \ inode_bitmap)
  OBVIOUS
<1>2. PICK c : c = [NoCopy EXCEPT !.num = n]
  OBVIOUS
<1>3. /\ pc[t] = "idle" /\ pc' = [pc EXCEPT ![t] = "new entry"] /\ namei(t, f) = 0
      /\ inode_bitmap # Inode /\ inode_bitmap' = inode_bitmap \cup {n}
      /\ ino' = [ino EXCEPT ![t] = c] /\ file' = [file EXCEPT ![t] = f] /\ Called(t)
      /\ UNCHANGED <<blockVars, dinode, store, dirVars, cursor, blk, arg, content, torn>>
  BY <1>1, <1>2 DEF Creat, Goto, Set
<1>4. pc[t] \notin Down
  BY <1>3 DEF Down
<1>5. /\ Up /\ TypeOK /\ NumInv /\ BlocksDisjoint /\ \A u \in Thread : DirInv(u) /\ SizeInv(u)
      /\ \A i \in Inode : dinode[i].size <= Capacity
  BY <1>4, UpHas
<1>6. DirInv(t) /\ SizeInv(t)
  BY <1>5
<1>7. n \in Inode /\ n \notin inode_bitmap
  <2>1. Inode \ inode_bitmap \subseteq Nat
    BY DEF Inode
  <2>2. Inode \ inode_bitmap # {}
    BY <1>3, <1>5 DEF TypeOK
  <2>3. n \in Inode \ inode_bitmap
    BY <2>1, <2>2, <1>1, MinIs
  <2> QED BY <2>3
<1>8. c \in Copy /\ c.num = n
  BY <1>2, <1>7 DEF NoCopy, NoDirect, Copy, Pointer
<1>9. f \in File /\ f # 0 /\ owner[f] = t /\ file[t] = 0
  BY <1>3, <1>6, FilesAre DEF DirInv
<1>10. /\ pc'[t] = "new entry" /\ file'[t] = f /\ ino'[t] = c /\ dir' = dir
       /\ dirsize' = dirsize /\ block_bitmap' = block_bitmap
  BY <1>3, <1>5 DEF TypeOK, dirVars, blockVars
<1>11. Kept(t)' = Kept(t)
  BY <1>3, <1>10 DEF Kept
<1>12. Alone(t) /\ DiskMine(t)
  BY <1>3, <1>5, <1>10 DEF Alone, DiskMine, TypeOK
<1>13. TypeOK'
  <2>1. calls' \in [Thread -> Nat]
    BY <1>3, <1>5, CalledKeeps
  <2>2. ino' \in [Thread -> Copy] /\ \A u \in Thread : file'[u] \in FilesOf(u) \cup {0}
    BY <1>3, <1>5, <1>8 DEF TypeOK
  <2>3. inode_bitmap' \subseteq Inode
    BY <1>3, <1>5, <1>7 DEF TypeOK
  <2> QED BY <1>3, <1>5, <2>1, <2>2, <2>3 DEF TypeOK, dirVars, blockVars, Free
<1>14. DirInv(t)'
  <2>1. \A e \in Kept(t) : dir[t][e].name # f
    <3> SUFFICES ASSUME NEW e \in Kept(t), dir[t][e].name = f PROVE FALSE
      OBVIOUS
    <3>1. namei(t, f) = dir[t][e].inum
      BY <1>3, <1>5, NameiKept
    <3>2. dir[t][e].inum \in Inode
      BY <1>6 DEF DirInv
    <3>3. 0 \notin Inode
      BY Constants DEF Inode
    <3> QED BY <3>1, <3>2, <3>3, <1>3
  <2>2. \A e \in Kept(t) : dir[t][e].inum # n
    <3> SUFFICES ASSUME NEW e \in Kept(t), dir[t][e].inum = n PROVE FALSE
      OBVIOUS
    <3>1. Has(t, n)
      BY <1>3 DEF Has, Listed, Making
    <3> QED BY <3>1, <1>5, <1>7 DEF NumInv
  <2>3. "new entry" \in Phase /\ "new entry" \notin Using
    BY DEF Phase, Using, Making
  <2>4. Distinct(dir'[t], Kept(t)')
    BY <1>6, <1>10, <1>11 DEF DirInv
  <2>5. /\ file'[t] # 0 /\ ino'[t].num \in Inode
        /\ \A e \in Kept(t) : dir[t][e].name \in FilesOf(t) /\ dir[t][e].inum \in Inode
    BY <1>6, <1>7, <1>8, <1>9, <1>10 DEF DirInv
  <2> QED BY <1>8, <1>10, <1>11, <2>1, <2>2, <2>3, <2>4, <2>5 DEF DirInv
<1>15. NumInv'
  <2>1. \A i \in Inode : Has(t, i)' => i = n \/ Has(t, i)
    BY <1>3, <1>8, <1>10, <1>11 DEF Has, Listed, Making
  <2>2. \A i \in Inode : Has(t, i)' => i \in inode_bitmap' /\ (Has(t, i) \/ i \notin inode_bitmap)
    BY <2>1, <1>3, <1>5, <1>7 DEF NumInv
  <2>3. \A u \in Thread : pc[u] \notin Down
    BY <1>5 DEF Up, Down
  <2>4. dinode'[ino'[t].num].size = 0
    BY <1>3, <1>5, <1>7, <1>8, <1>10 DEF NumInv
  <2>5. \A i \in inode_bitmap : i \in inode_bitmap'
    BY <1>3
  <2> QED BY <1>5, <1>12, <2>2, <2>3, <2>4, <2>5, NumMove
<1>16. SizeInv(t)'
  <2>1. arg[t] = 0 /\ cursor[t] = 0
    BY <1>3, <1>6 DEF SizeInv, Moving
  <2>2. arg'[t] = 0 /\ cursor'[t] = 0
    BY <2>1, <1>3
  <2> QED BY <2>2, <1>10 DEF SizeInv, Moving
<1>17. BlocksDisjoint' /\ Apart(t)
  <2>1. Owned(f)' = Holding(store', pc'[t], ino'[t], blk'[t], arg'[t])
    BY <1>5, <1>10, InUse
  <2>2. Owned(f)' = {}
    BY <2>1, <1>10 DEF Holding, Moving
  <2> QED BY <1>3, <1>4, <1>9, <1>10, <1>12, <2>2, DirStep, NameiIs, NameiNext
<1>18. pc'[t] \notin Down /\ \A i \in Inode : dinode'[i].size <= Capacity
  BY <1>3, <1>5, <1>10 DEF Down
<1> QED BY <1>4, <1>12, <1>13, <1>14, <1>15, <1>16, <1>17, <1>18, StepKeeps

LEMMA iadd_to_dirKeeps ==
    ASSUME IInv, NEW t \in Thread, iadd_to_dir(t)
    PROVE  IInv' /\ Apart(t)
<1>1. PICK d, k : d = dir[t] /\ k = dirsize[t]
  OBVIOUS
<1>2. PICK w : w = [name |-> file[t], inum |-> ino[t].num]
  OBVIOUS
<1>3. /\ pc[t] = "new entry" /\ pc' = [pc EXCEPT ![t] = "new parent"]
      /\ dir' = [dir EXCEPT ![t][k + 1] = w]
      /\ UNCHANGED <<blockVars, inode_bitmap, dinode, store, dirsize, file, ino, cursor, blk,
                     arg, content, calls, torn>>
  BY <1>1, <1>2 DEF iadd_to_dir, Goto
<1>4. pc[t] \notin Down
  BY <1>3 DEF Down
<1>5. /\ Up /\ TypeOK /\ NumInv /\ BlocksDisjoint /\ \A u \in Thread : DirInv(u) /\ SizeInv(u)
      /\ \A n \in Inode : dinode[n].size <= Capacity
  BY <1>4, UpHas
<1>6. DirInv(t) /\ SizeInv(t)
  BY <1>5
<1>7. PICK f \in FilesOf(t) : f = file[t] /\ f # 0 /\ f \in File
  <2>1. file[t] \in FilesOf(t) /\ file[t] \in File
    BY <1>3, <1>5, <1>6, FileInUse
  <2> QED BY <2>1, FilesAre
<1>8. /\ k \in Nat /\ Kept(t) = 1 .. k
      /\ d \in [1 .. Cardinality(FilesOf(t)) -> Entry] /\ ino[t].num \in Inode /\ w \in Entry
      /\ IsFiniteSet(FilesOf(t)) /\ Cardinality(FilesOf(t)) \in Nat
  <2>1. /\ k \in Nat /\ Kept(t) = 1 .. k
        /\ d \in [1 .. Cardinality(FilesOf(t)) -> Entry]
    BY <1>1, <1>3, <1>5 DEF TypeOK, Kept
  <2>2. ino[t].num \in Inode
    BY <1>3, <1>6 DEF DirInv
  <2>3. w \in Entry
    BY <2>2, <1>2, <1>7 DEF Entry
  <2> QED BY <2>1, <2>2, <2>3, FilesAre
<1>9. k < Cardinality(FilesOf(t))
  <2>1. /\ \A e \in 1 .. k : d[e].name \in FilesOf(t) /\ d[e].name # f
        /\ \A e, x \in 1 .. k : d[e].name = d[x].name => e = x
    BY <1>1, <1>3, <1>6, <1>7, <1>8 DEF DirInv, Distinct, Making
  <2> QED BY <2>1, <1>8, RoomForOne
<1>10. PICK z : z = [d EXCEPT ![k + 1] = w]
  OBVIOUS
<1>11. /\ z \in [1 .. Cardinality(FilesOf(t)) -> Entry] /\ z[k + 1] = w
       /\ \A x \in 1 .. k : z[x] = d[x]
  <2>1. k + 1 \in 1 .. Cardinality(FilesOf(t)) /\ \A x \in 1 .. k : x # k + 1
    BY <1>8, <1>9
  <2>2. 1 .. k \subseteq 1 .. Cardinality(FilesOf(t))
    BY <1>8, <1>9
  <2> QED BY <2>1, <2>2, <1>8, <1>10
<1>12. /\ dir'[t] = z /\ \A u \in Thread \ {t} : dir'[u] = dir[u]
       /\ DOMAIN dir' = Thread
  BY <1>1, <1>3, <1>5, <1>10 DEF TypeOK
<1>13. /\ pc'[t] = "new parent" /\ file'[t] = f /\ dirsize'[t] = k /\ ino'[t] = ino[t]
       /\ block_bitmap' = block_bitmap /\ Kept(t)' = 1 .. k
  BY <1>1, <1>3, <1>5, <1>7 DEF TypeOK, blockVars, Kept
<1>14. Alone(t) /\ DiskMine(t)
  BY <1>3, <1>5, <1>12 DEF Alone, DiskMine, TypeOK
<1>15. TypeOK'
  <2>1. \A u \in Thread : dir'[u] \in [1 .. Cardinality(FilesOf(u)) -> Entry]
    BY <1>5, <1>11, <1>12 DEF TypeOK
  <2> QED BY <1>3, <1>5, <1>12, <2>1 DEF TypeOK, blockVars, Free
<1>16. DirInv(t)'
  <2>1. "new parent" \in Phase /\ "new parent" \in Making /\ "new parent" \notin Using
    BY DEF Phase, Using, Making
  <2>2. Distinct(z, 1 .. k)
    <3>1. Distinct(d, 1 .. k)
      BY <1>1, <1>6, <1>8 DEF DirInv
    <3> QED BY <3>1, <1>11 DEF Distinct
  <2>3. \A x \in 1 .. k : /\ z[x].name \in FilesOf(t) /\ z[x].inum \in Inode
                          /\ z[x].name # f /\ z[x].inum # ino[t].num
    BY <1>1, <1>3, <1>6, <1>7, <1>8, <1>11 DEF DirInv, Making
  <2>4. EntryOf(t)' = w
    BY <1>2, <1>7, <1>13 DEF EntryOf
  <2> QED BY <1>7, <1>8, <1>9, <1>11, <1>12, <1>13, <2>1, <2>2, <2>3, <2>4 DEF DirInv
<1>17. NumInv'
  <2>1. \A n \in Inode : Has(t, n)' => Has(t, n)
    <3> SUFFICES ASSUME NEW n \in Inode, Has(t, n)'
                 PROVE  Has(t, n)
      OBVIOUS
    <3>1. CASE n = ino[t].num
      BY <3>1, <1>3 DEF Has, Making
    <3>2. CASE n # ino[t].num
      <4>1. PICK x \in 1 .. k : z[x].inum = n
        BY <3>2, <1>12, <1>13 DEF Has, Listed
      <4>2. d[x].inum = n
        BY <4>1, <1>11
      <4> QED BY <4>2, <3>2, <1>1, <1>8 DEF Has, Listed
    <3> QED BY <3>1, <3>2
  <2>2. \A u \in Thread : pc[u] \notin Down
    BY <1>5 DEF Up, Down
  <2>3. dinode'[ino'[t].num].size = 0 /\ inode_bitmap' = inode_bitmap
    BY <1>3, <1>5, <1>13 DEF NumInv, Making
  <2> QED BY <1>5, <1>14, <2>1, <2>2, <2>3, NumStep
<1>18. SizeInv(t)'
  BY <1>3, <1>6, <1>13 DEF SizeInv, Moving
<1>19. BlocksDisjoint' /\ Apart(t)
  <2>1. Owned(f)' = Holding(store', pc'[t], ino'[t], blk'[t], arg'[t])
    BY <1>5, <1>13, InUse
  <2>2. Owned(f)' = {}
    BY <2>1, <1>13 DEF Holding, Moving
  <2>3. ASSUME NEW g \in FilesOf(t) \ {f}
        PROVE  namei(t, g)' = namei(t, g)
    <3>1. SameEntries(d, k, z, k, g)
      <4>1. \A x \in 1 .. k : z[x] = d[x]
        BY <1>11
      <4>2. Distinct(d, 1 .. k)
        BY <1>1, <1>6, <1>8 DEF DirInv
      <4>3. \A x, y \in 1 .. k : d[x].name = g /\ d[y].name = g => d[x].inum = d[y].inum
        BY <4>2 DEF Distinct
      <4> QED BY <4>1, <4>3, <1>8 DEF SameEntries
    <3>2. NameiIn(z, k, g) = NameiIn(d, k, g)
      BY <3>1, NameiEqual
    <3> QED BY <3>2, <1>1, <1>12, <1>13, NameiIs, NameiNext
  <2> QED BY <1>3, <1>4, <1>7, <1>13, <1>14, <2>2, <2>3, DirStep
<1>20. pc'[t] \notin Down /\ \A n \in Inode : dinode'[n].size <= Capacity
  BY <1>3, <1>5, <1>13 DEF Down
<1> QED BY <1>4, <1>14, <1>15, <1>16, <1>17, <1>18, <1>19, <1>20, StepKeeps

LEMMA GrowParentKeeps ==
    ASSUME IInv, NEW t \in Thread, GrowParent(t)
    PROVE  IInv' /\ Apart(t)
<1>1. PICK d, k, n : d = dir[t] /\ k = dirsize[t] /\ n = ino[t].num
  OBVIOUS
<1>2. /\ pc[t] = "new parent" /\ pc' = [pc EXCEPT ![t] = "new inode"]
      /\ dirsize' = [dirsize EXCEPT ![t] = k + 1]
      /\ UNCHANGED <<blockVars, inode_bitmap, dinode, store, dir, file, ino, cursor, blk, arg,
                     content, calls, torn>>
  BY <1>1 DEF GrowParent, Goto, Set
<1>3. pc[t] \notin Down
  BY <1>2 DEF Down
<1>4. /\ Up /\ TypeOK /\ NumInv /\ BlocksDisjoint /\ \A u \in Thread : DirInv(u) /\ SizeInv(u)
      /\ \A i \in Inode : dinode[i].size <= Capacity
  BY <1>3, UpHas
<1>5. DirInv(t) /\ SizeInv(t)
  BY <1>4
<1>6. PICK f \in FilesOf(t) : f = file[t] /\ f # 0 /\ f \in File
  <2>1. file[t] \in FilesOf(t) /\ file[t] \in File
    BY <1>2, <1>4, <1>5, FileInUse
  <2> QED BY <2>1, FilesAre
<1>7. /\ k \in Nat /\ Kept(t) = 1 .. k /\ n \in Inode /\ Cardinality(FilesOf(t)) \in Nat
      /\ k < Cardinality(FilesOf(t)) /\ d[k + 1] = [name |-> f, inum |-> n]
  BY <1>1, <1>2, <1>4, <1>5, <1>6, FilesAre DEF TypeOK, Kept, DirInv, EntryOf
<1>8. /\ \A x \in 1 .. k : /\ d[x].name \in FilesOf(t) /\ d[x].inum \in Inode
                           /\ d[x].name # f /\ d[x].inum # n
      /\ \A x, y \in 1 .. k : d[x].name = d[y].name \/ d[x].inum = d[y].inum => x = y
  BY <1>1, <1>2, <1>5, <1>6, <1>7 DEF DirInv, Distinct, Making
<1>9. /\ pc'[t] = "new inode" /\ file'[t] = f /\ dirsize'[t] = k + 1 /\ ino'[t] = ino[t]
      /\ dir'[t] = d /\ block_bitmap' = block_bitmap /\ Kept(t)' = 1 .. k + 1
  BY <1>1, <1>2, <1>4, <1>6 DEF TypeOK, blockVars, Kept
<1>10. Alone(t) /\ DiskMine(t)
  BY <1>2, <1>4 DEF Alone, DiskMine, TypeOK
<1>11. TypeOK'
  <2>1. dirsize' \in [Thread -> Nat] /\ \A u \in Thread : dirsize'[u] <= Cardinality(FilesOf(u))
    <3>1. k + 1 \in Nat /\ k + 1 <= Cardinality(FilesOf(t))
      BY <1>7
    <3> QED BY <3>1, <1>2, <1>4 DEF TypeOK
  <2> QED BY <1>2, <1>4, <2>1 DEF TypeOK, blockVars, Free
<1>12. \A x \in 1 .. k + 1 : x \in 1 .. k \/ x = k + 1
  BY <1>7
<1>13. DirInv(t)'
  <2>1. "new inode" \in Phase /\ "new inode" \notin Making \cup {"parent"}
    BY DEF Phase, Making, Using
  <2>2. d[k + 1].name = f /\ d[k + 1].inum = n
    BY <1>7
  <2>3. Distinct(d, 1 .. k + 1)
    BY <1>8, <1>12, <2>2 DEF Distinct
  <2>4. \A x \in 1 .. k + 1 : d[x].name \in FilesOf(t) /\ d[x].inum \in Inode
    BY <1>7, <1>8, <1>12, <2>2
  <2>5. k + 1 \in 1 .. k + 1 /\ d[k + 1] = EntryOf(t)'
    <3>1. EntryOf(t)' = [name |-> f, inum |-> n]
      BY <1>1, <1>9 DEF EntryOf
    <3>2. k + 1 \in 1 .. k + 1
      BY <1>7
    <3> QED BY <3>1, <3>2, <1>7
  <2> QED BY <1>1, <1>6, <1>7, <1>9, <2>1, <2>3, <2>4, <2>5 DEF DirInv, Making
<1>14. NumInv'
  <2>1. \A i \in Inode : Has(t, i)' => Has(t, i)
    <3> SUFFICES ASSUME NEW i \in Inode, Has(t, i)'
                 PROVE  Has(t, i)
      OBVIOUS
    <3>1. PICK x \in 1 .. k + 1 : d[x].inum = i
      BY <1>9 DEF Has, Listed, Making
    <3>2. CASE x = k + 1
      <4>1. i = ino[t].num
        BY <3>1, <3>2, <1>1, <1>7
      <4> QED BY <4>1, <1>2 DEF Has, Making
    <3>3. CASE x \in 1 .. k
      <4>1. i # ino[t].num /\ dir[t][x].inum = i /\ x \in Kept(t)
        BY <3>1, <3>3, <1>1, <1>7, <1>8
      <4> QED BY <4>1 DEF Has, Listed
    <3> QED BY <3>2, <3>3, <1>12
  <2>2. \A u \in Thread : pc[u] \notin Down
    BY <1>4 DEF Up, Down
  <2>3. dinode'[ino'[t].num].size = 0 /\ inode_bitmap' = inode_bitmap
    BY <1>2, <1>4, <1>9 DEF NumInv, Making
  <2> QED BY <1>4, <1>10, <2>1, <2>2, <2>3, NumStep
<1>15. SizeInv(t)'
  BY <1>2, <1>5, <1>9 DEF SizeInv, Moving
<1>16. BlocksDisjoint' /\ Apart(t)
  <2>1. Owned(f)' = Holding(store', pc'[t], ino'[t], blk'[t], arg'[t])
    BY <1>4, <1>9, InUse
  <2>2. Owned(f)' = {}
    BY <2>1, <1>9 DEF Holding, Moving
  <2>3. ASSUME NEW g \in FilesOf(t) \ {f}
        PROVE  namei(t, g)' = namei(t, g)
    <3>1. \A x \in 1 .. k : x \in 1 .. k + 1
      BY <1>7
    <3>2. d[k + 1].name # g
      BY <1>7
    <3>3. SameEntries(d, k, d, k + 1, g)
      BY <3>1, <3>2, <1>7, <1>8, <1>12 DEF SameEntries
    <3>4. NameiIn(d, k + 1, g) = NameiIn(d, k, g)
      BY <3>3, NameiEqual
    <3> QED BY <3>4, <1>1, <1>9, NameiIs, NameiNext
  <2> QED BY <1>2, <1>3, <1>6, <1>9, <1>10, <2>2, <2>3, DirStep
<1>17. pc'[t] \notin Down /\ \A i \in Inode : dinode'[i].size <= Capacity
  BY <1>2, <1>4, <1>9 DEF Down
<1> QED BY <1>3, <1>10, <1>11, <1>13, <1>14, <1>15, <1>16, <1>17, StepKeeps

LEMMA NewInodeKeeps ==
    ASSUME IInv, NEW t \in Thread, NewInode(t)
    PROVE  IInv' /\ Apart(t)
<1>1. PICK n, c : n = ino[t].num /\ c = izero(iget(n))
  OBVIOUS
<1>2. /\ pc[t] = "new inode" /\ pc' = [pc EXCEPT ![t] = "open"]
      /\ dinode' = [dinode EXCEPT ![c.num] = OnDisk(c)] /\ ino' = [ino EXCEPT ![t] = c]
      /\ cursor' = [cursor EXCEPT ![t] = 0] /\ DOMAIN content' = DOMAIN content
      /\ UNCHANGED <<blockVars, inode_bitmap, store, dirVars, file, blk, arg, calls, torn>>
  BY <1>1 DEF NewInode, Goto, Set, iupdate, EndsAs
<1>3. pc[t] \notin Down
  BY <1>2 DEF Down
<1>4. /\ Up /\ TypeOK /\ NumInv /\ BlocksDisjoint /\ \A u \in Thread : DirInv(u) /\ SizeInv(u)
      /\ \A i \in Inode : dinode[i].size <= Capacity
  BY <1>3, UpHas
<1>5. n \in Inode /\ Has(t, n) /\ dinode[n].size = 0
  <2>1. pc[t] \in Using \ {"entry"}
    BY <1>2 DEF Using
  <2> QED BY <2>1, <1>1, <1>2, <1>4, UsingHas DEF NumInv
<1>6. /\ c \in Copy /\ c.num = n /\ c.size = 0 /\ c.size_blocks = 0
      /\ OnDisk(c) \in DiskInode /\ OnDisk(c).size = 0
  <2>1. PICK i : i = iget(n)
    OBVIOUS
  <2>2. i \in Copy /\ i.num = n /\ i.size_blocks = BlocksOf(dinode[n].size)
    BY <2>1, <1>4, <1>5, CopyIs DEF CopyOf
  <2>3. i.size_blocks = 0
    BY <2>2, <1>5, BlocksOfIs
  <2> QED BY <2>1, <2>2, <2>3, <1>1, ZeroIs
<1>7. /\ pc'[t] = "open" /\ ino'[t] = c /\ dinode'[n] = OnDisk(c) /\ cursor'[t] = 0
      /\ arg'[t] = 0
  <2>1. arg[t] = 0
    BY <1>2, <1>4 DEF SizeInv, Moving
  <2> QED BY <2>1, <1>2, <1>4, <1>5, <1>6 DEF TypeOK
<1>8. Alone(t) /\ DiskMine(t)
  BY <1>1, <1>2, <1>4, <1>5, <1>6 DEF Alone, DiskMine, TypeOK, dirVars
<1>9. TypeOK'
  <2>1. /\ dinode' \in [Inode -> DiskInode] /\ ino' \in [Thread -> Copy]
        /\ cursor' \in [Thread -> Nat]
    BY <1>2, <1>4, <1>6 DEF TypeOK
  <2> QED BY <1>2, <1>4, <2>1 DEF TypeOK, dirVars, blockVars, Free
<1>10. /\ pc[t] \in Using \ {"entry"} /\ pc'[t] \in Using
       /\ pc'[t] \notin {"new inode", "emptied", "ifree"}
  BY <1>2, <1>7 DEF Using
<1>11. DirInv(t)' /\ NumInv'
  BY <1>1, <1>2, <1>6, <1>7, <1>8, <1>10, InFile DEF dirVars
<1>12. SizeInv(t)'
  <2>1. dinode'[c.num] = OnDisk(c) /\ 0 <= Capacity /\ 0 <= 0 * BlockSize
    BY <1>6, <1>7, Constants
  <2> QED BY <2>1, <1>6, <1>7 DEF SizeInv, Moving, OnDisk
<1>13. BlocksDisjoint' /\ Apart(t)
  <2>1. Holding(store', pc'[t], ino'[t], blk'[t], arg'[t]) = {}
    BY <1>6, <1>7, RefsNone DEF Holding
  <2> QED BY <1>2, <1>8, <1>10, <2>1, WithinFile DEF dirVars, blockVars
<1>14. pc'[t] \notin Down /\ \A i \in Inode : dinode'[i].size <= Capacity
  <2>1. pc'[t] \notin Down
    BY <1>7 DEF Down
  <2>2. dinode'[n].size <= Capacity
    BY <1>6, <1>7, Constants
  <2>3. \A i \in Inode : i # n => dinode'[i] = dinode[i]
    BY <1>2, <1>4, <1>6 DEF TypeOK
  <2> QED BY <2>1, <2>2, <2>3, <1>4
<1> QED BY <1>3, <1>8, <1>9, <1>11, <1>12, <1>13, <1>14, StepKeeps

-----------------------------------------------------------------------------
(***************************************************************************)
(* The machine stops and is repaired                                       *)
(***************************************************************************)
LEMMA ThreadExists == \E t : t \in Thread
<1>1. 1 \in File
  BY Constants DEF File
<1> QED BY <1>1, OwnerIs

LEMMA StopKeeps ==
    ASSUME IInv, Stop
    PROVE  IInv'
<1>1. /\ Up /\ torn' = {file[t] : t \in {u \in Thread : Busy(u)}}
      /\ pc' = [t \in Thread |-> "stopped"] /\ file' = [t \in Thread |-> 0]
      /\ ino' = [t \in Thread |-> NoCopy]
      /\ cursor' = file' /\ blk' = file' /\ arg' = file'
      /\ UNCHANGED <<diskVars, content, calls>>
  BY DEF Stop
<1>2. TypeOK /\ \A t \in Thread : DirInv(t)
  BY <1>1 DEF IInv
<1>3. torn' \subseteq File
  <2> SUFFICES ASSUME NEW t \in Thread, Busy(t) PROVE file[t] \in File
    BY <1>1
  <2>1. pc[t] # "idle"
    BY DEF Busy
  <2> QED BY <2>1, <1>2, FileInUse
<1>4. TypeOK'
  <2>1. 0 \in Pointer
    BY DEF Pointer
  <2>2. ino' \in [Thread -> Copy] /\ blk' \in [Thread -> Pointer]
        /\ cursor' \in [Thread -> Nat] /\ arg' \in [Thread -> Nat]
        /\ DOMAIN pc' = Thread /\ DOMAIN file' = Thread
        /\ \A t \in Thread : file'[t] = 0
    BY <1>1, <2>1, NoCopyIs
  <2> QED BY <1>1, <1>2, <1>3, <2>2 DEF TypeOK, diskVars, blockVars, dirVars, Free
<1>5. /\ ~Up' /\ \A t \in Thread : pc'[t] \in Down
  <2>1. \A t \in Thread : pc'[t] = "stopped"
    BY <1>1
  <2> QED BY <2>1, ThreadExists DEF Up, Down
<1>6. \A n \in Inode : dinode'[n].size <= Capacity
  BY <1>1 DEF IInv, diskVars
<1>7. BlocksDisjoint'
  BY <1>5 DEF BlocksDisjoint
<1> QED BY <1>4, <1>5, <1>6, <1>7 DEF IInv

LEMMA minifile_fsckKeeps ==
    ASSUME IInv, minifile_fsck
    PROVE  IInv'
<1>1. /\ \A t \in Thread : pc[t] = "stopped"
      /\ block_bitmap' \subseteq Block
      /\ free_blocks' = NBlocks - Cardinality(block_bitmap')
      /\ pc' = [t \in Thread |-> "repaired"]
      /\ UNCHANGED <<inode_bitmap, dinode, store, dirVars, file, ino, cursor, blk, arg,
                     content, calls, torn>>
  BY DEF minifile_fsck
<1>2. TypeOK
  BY DEF IInv
<1>3. free_blocks' = Cardinality(Free')
  <2>1. IsFiniteSet(block_bitmap') /\ IsFiniteSet(Block)
    BY <1>1, Constants, FS_Subset
  <2>2. Cardinality(Block \ block_bitmap') = Cardinality(Block) - Cardinality(block_bitmap')
    BY <1>1, <2>1, Counting
  <2> QED BY <2>2, <1>1, Constants DEF Free
<1>4. TypeOK'
  BY <1>1, <1>2, <1>3 DEF TypeOK, dirVars
<1>5. /\ ~Up' /\ \A t \in Thread : pc'[t] \in Down
  <2>1. \A t \in Thread : pc'[t] = "repaired"
    BY <1>1
  <2> QED BY <2>1, ThreadExists DEF Up, Down
<1>6. \A n \in Inode : dinode'[n].size <= Capacity
  BY <1>1 DEF IInv
<1>7. BlocksDisjoint'
  BY <1>5 DEF BlocksDisjoint
<1> QED BY <1>4, <1>5, <1>6, <1>7 DEF IInv

-----------------------------------------------------------------------------
(***************************************************************************)
(* The invariant                                                           *)
(***************************************************************************)
LEMMA InitInv ==
    ASSUME Init
    PROVE  IInv
<1>1. /\ block_bitmap = {} /\ inode_bitmap = {} /\ free_blocks = NBlocks
      /\ dinode = [n \in Inode |-> EmptyInode]
      /\ store = [b \in Block |-> [w \in Offset |-> 0]]
      /\ dir = [t \in Thread |->
                   [e \in 1 .. Cardinality(FilesOf(t)) |-> [name |-> 0, inum |-> 0]]]
      /\ dirsize = [t \in Thread |-> 0] /\ pc = [t \in Thread |-> "idle"]
      /\ file = [t \in Thread |-> 0] /\ ino = [t \in Thread |-> NoCopy]
      /\ cursor = [t \in Thread |-> 0] /\ blk = cursor /\ arg = cursor /\ calls = cursor
      /\ content = [f \in File |-> Absent] /\ torn = {}
  BY DEF Init
<1>2. EmptyInode \in DiskInode /\ EmptyInode.size = 0
  BY DEF EmptyInode, DiskInode, NoDirect, Pointer
<1>3. TypeOK
  <2>1. free_blocks = Cardinality(Free)
    <3>1. Free = Block
      BY <1>1 DEF Free
    <3> QED BY <3>1, <1>1, Constants
  <2>2. dinode \in [Inode -> DiskInode] /\ store \in [Block -> [Offset -> Nat]]
    BY <1>1, <1>2
  <2>3. \A t \in Thread : /\ dir[t] \in [1 .. Cardinality(FilesOf(t)) -> Entry]
                          /\ dirsize[t] <= Cardinality(FilesOf(t)) /\ file[t] = 0
    BY <1>1, FilesAre DEF Entry
  <2>4. ino \in [Thread -> Copy] /\ blk \in [Thread -> Pointer]
    BY <1>1, NoCopyIs DEF Pointer
  <2> QED BY <1>1, <2>1, <2>2, <2>3, <2>4 DEF TypeOK
<1>4. \A t \in Thread : pc[t] = "idle" /\ file[t] = 0 /\ Kept(t) = {} /\ arg[t] = 0
                        /\ cursor[t] = 0 /\ dirsize[t] = 0
  <2>1. \A t \in Thread : pc[t] = "idle" /\ file[t] = 0 /\ arg[t] = 0
                          /\ cursor[t] = 0 /\ dirsize[t] = 0
    BY <1>1
  <2>2. 1 .. 0 = {}
    OBVIOUS
  <2> QED BY <2>1, <2>2 DEF Kept
<1>5. \A t \in Thread : DirInv(t)
  BY <1>4 DEF DirInv, Distinct, Phase, Making, Using
<1>6. \A t \in Thread : SizeInv(t)
  BY <1>4 DEF SizeInv, Moving
<1>7. NumInv
  <2>1. \A t \in Thread, n \in Inode : ~Has(t, n)
    BY <1>4 DEF Has, Listed, Making
  <2>2. \A n \in Inode : dinode[n].size = 0
    BY <1>1, <1>2
  <2> QED BY <2>1, <2>2, <1>4 DEF NumInv, Making
<1>8. BlocksDisjoint
  <2> SUFFICES ASSUME NEW f \in File PROVE Owned(f) = {}
    BY DEF BlocksDisjoint
  <2>1. owner[f] \in Thread /\ f # 0
    BY OwnerIs DEF File
  <2>2. namei(owner[f], f) = 0
    <3>1. NameiIn(dir[owner[f]], 0, f) = 0
      BY NameiNone
    <3> QED BY <3>1, <2>1, <1>4, NameiIs
  <2> QED BY <2>1, <2>2, <1>4, OwnedIs
<1>9. Up /\ \A n \in Inode : dinode[n].size <= Capacity
  <2>1. Up
    BY <1>4 DEF Up
  <2> QED BY <2>1, <1>1, <1>2, Constants
<1> QED BY <1>3, <1>5, <1>6, <1>7, <1>8, <1>9 DEF IInv

LEMMA NextKeeps ==
    ASSUME IInv, [Next]_vars
    PROVE  IInv'
<1>1. ASSUME NEW t \in Thread, NEW f \in File, owner[f] = t,
             Creat(t, f) \/ Open(t, f) \/ OpenEmptied(t, f) \/ Unlink(t, f)
      PROVE  IInv'
  <2>0. f \in FilesOf(t)
    BY <1>1 DEF FilesOf
  <2>1. CASE Creat(t, f)
    BY <2>0, <2>1, CreatKeeps
  <2>2. CASE Open(t, f)
    BY <2>0, <2>2, OpenKeeps
  <2>3. CASE OpenEmptied(t, f)
    <3>1. Clear(t, f, "UNCHANGED")
      BY <2>3 DEF OpenEmptied
    <3> QED BY <2>0, <3>1, ClearKeeps
  <2>4. CASE Unlink(t, f)
    <3>1. Clear(t, f, "TO_DELETE")
      BY <2>4 DEF Unlink
    <3> QED BY <2>0, <3>1, ClearKeeps
  <2> QED BY <1>1, <2>1, <2>2, <2>3, <2>4
<1>2. ASSUME NEW t \in Thread, NEW len \in 1 .. BlockSize,
             len <= BlockSize - (cursor[t] % BlockSize), cursor[t] + len <= MaxSize[file[t]],
             WriteOver(t, len) \/ WriteAtEnd(t, len)
      PROVE  IInv'
  BY <1>2, WriteOverKeeps, WriteAtEndKeeps
<1>3. ASSUME NEW t \in Thread,
             iadd_to_dir(t) \/ GrowParent(t) \/ NewInode(t) \/ Close(t)
      PROVE  IInv'
  BY <1>3, iadd_to_dirKeeps, GrowParentKeeps, NewInodeKeeps, CloseKeeps
<1>4. ASSUME NEW t \in Thread,
             DiskFull(t) \/ iadd_block(t) \/ WriteData(t) \/ UpdateSize(t)
      PROVE  IInv'
  BY <1>4, DiskFullKeeps, IaddBlockKeeps, WriteDataKeeps, UpdateSizeKeeps
<1>5. ASSUME NEW t \in Thread,
             FreeData(t) \/ free_all_indirect(t) \/ ZeroInode(t)
      PROVE  IInv'
  BY <1>5, FreeDataKeeps, free_all_indirectKeeps, ZeroInodeKeeps
<1>6. ASSUME NEW t \in Thread, ifree(t) \/ idelete_from_dir(t) \/ ShrinkParent(t)
      PROVE  IInv'
  BY <1>6, ifreeKeeps, idelete_from_dirKeeps, ShrinkParentKeeps
<1>7. CASE Stop
  BY <1>7, StopKeeps
<1>8. CASE minifile_fsck
  BY <1>8, minifile_fsckKeeps
<1>9. CASE UNCHANGED vars
  BY <1>9, StutterKeeps
<1> QED BY <1>1, <1>2, <1>3, <1>4, <1>5, <1>6, <1>7, <1>8, <1>9 DEF Next

\* The inductive invariant holds in every behaviour.
THEOREM Invariant == Spec => []IInv
<1>1. Init => IInv
  BY InitInv
<1>2. IInv /\ [Next]_vars => IInv'
  BY NextKeeps
<1> QED BY <1>1, <1>2, PTL DEF Spec

\* Every variable of the file system keeps its type, the free count is that of the block
\* bitmap (balloc and bfree count each bit they change, minifile_fsck counts again), and a
\* directory never has more entries than its owner has files.
THEOREM TypeCorrect == Spec => []TypeOK
<1>1. IInv => TypeOK
  BY DEF IInv
<1> QED BY <1>1, Invariant, PTL

\* Whatever calls the threads are in, a block belongs to one place of one file, and its bit
\* is 1 as long as it does: balloc gives out no block that iclear has not freed, and
\* iclear frees none that another file, or the file itself, still refers to.
THEOREM NoBlockTwice == Spec => []BlocksDisjoint
<1>1. IInv => BlocksDisjoint
  BY DEF IInv
<1> QED BY <1>1, Invariant, PTL

-----------------------------------------------------------------------------
(***************************************************************************)
(* The words of the files                                                  *)
(***************************************************************************)
WordAt(s, c, k) == WordIn(s, MapIn(s, c, k \div BlockSize), k % BlockSize)

\* The words of the inode c in the store s are w; or they are except for the l words that a
\* call has written from x on and whose length is not in the inode yet.
Reads(w, s, c) == /\ w \in Seq(Nat) /\ Len(w) = c.size
                  /\ \A k \in 0 .. c.size - 1 : WordAt(s, c, k) = w[k + 1]
Updating(w, s, c, f, x, l) ==
    /\ w \in Seq(Nat) /\ Len(w) = c.size
    /\ \A k \in 0 .. c.size - 1 : k \notin x .. x + l - 1 => WordAt(s, c, k) = w[k + 1]
    /\ \A k \in x .. x + l - 1 : WordAt(s, c, k) = Datum(f, k, IF k < c.size THEN 2 ELSE 1)

\* What a call leaves of the file f with the words w.
Shows(w, s, p, c, f, x, l) ==
    /\ p \in {"open", "add", "data"} => Reads(w, s, c)
    /\ p \in {"data", "update"} => x <= c.size
    /\ p = "update" => Updating(w, s, c, f, x, l)
    /\ p = "emptied" => w = << >>
ContentInv(f) ==
    LET t == owner[f]
    IN IF file[t] = f THEN Shows(content[f], store, pc[t], ino[t], f, cursor[t], arg[t])
       ELSE IF namei(t, f) = 0 THEN content[f] = Absent
       ELSE Reads(content[f], store, dinode[namei(t, f)])

LEMMA DataRef ==
    ASSUME NEW s, NEW c, NEW n, NEW j, NEW b, <<"data", j, b>> \in RefsIn(s, c, n)
    PROVE  j \in 0 .. n - 1 /\ b = MapIn(s, c, j)
BY DEF RefsIn, PointersIn

\* The words of an inode stay if its blocks do.
LEMMA WordsFrame ==
    ASSUME NEW s, NEW z, NEW c, NEW n \in Nat,
           \A r \in RefsIn(s, c, n) : z[r[3]] = s[r[3]],
           NEW k \in Nat, k < n * BlockSize
    PROVE  WordAt(z, c, k) = WordAt(s, c, k)
<1> DEFINE j == k \div BlockSize
<1>1. j \in 0 .. n - 1
  BY InBlock, Division
<1>2. RefsIn(z, c, n) = RefsIn(s, c, n)
  <2>1. PointersIn(s, c, n) \subseteq RefsIn(s, c, n)
    BY DEF RefsIn
  <2> QED BY <2>1, RefsFrame
<1> HIDE DEF j
<1>3. <<"data", j, MapIn(z, c, j)>> \in RefsIn(s, c, n)
  BY <1>1, <1>2 DEF RefsIn
<1>4. MapIn(z, c, j) = MapIn(s, c, j)
  BY <1>3, DataRef
<1>5. z[MapIn(s, c, j)] = s[MapIn(s, c, j)]
  BY <1>3, <1>4
<1> QED BY <1>4, <1>5 DEF WordAt, WordIn, j

\* Only the pointers and the size of an inode matter.
LEMMA WordsSame ==
    ASSUME NEW s, NEW c, NEW d, c.direct = d.direct, c.indirect = d.indirect,
           c.double_indirect = d.double_indirect
    PROVE  /\ \A k : WordAt(s, c, k) = WordAt(s, d, k)
           /\ c.size = d.size => \A w : Reads(w, s, c) <=> Reads(w, s, d)
<1>1. \A k : WordAt(s, c, k) = WordAt(s, d, k)
  BY DEF WordAt, MapIn
<1> QED BY <1>1 DEF Reads

LEMMA ReadsFrame ==
    ASSUME NEW s, NEW z, NEW c, NEW n \in Nat, c.size \in Nat, c.size <= n * BlockSize,
           \A r \in RefsIn(s, c, n) : z[r[3]] = s[r[3]],
           NEW w, Reads(w, s, c)
    PROVE  Reads(w, z, c)
<1>1. n * BlockSize \in Nat
  BY Constants
<1>2. ASSUME NEW k \in 0 .. c.size - 1
      PROVE  WordAt(z, c, k) = w[k + 1]
  <2>1. k \in Nat /\ k < n * BlockSize
    BY <1>1
  <2>2. WordAt(z, c, k) = WordAt(s, c, k)
    BY <2>1, WordsFrame
  <2> QED BY <2>2 DEF Reads
<1> QED BY <1>2 DEF Reads

LEMMA UpdatingFrame ==
    ASSUME NEW s, NEW z, NEW c, NEW n \in Nat, c.size \in Nat, c.size <= n * BlockSize,
           \A r \in RefsIn(s, c, n) : z[r[3]] = s[r[3]],
           NEW f, NEW x \in Nat, NEW l \in Nat, x + l <= n * BlockSize,
           NEW w, Updating(w, s, c, f, x, l)
    PROVE  Updating(w, z, c, f, x, l)
<1>1. n * BlockSize \in Nat
  BY Constants
<1>2. \A k \in Nat : k < n * BlockSize => WordAt(z, c, k) = WordAt(s, c, k)
  BY WordsFrame
<1>3. \A k \in 0 .. c.size - 1 : k \in Nat /\ k < n * BlockSize
  BY <1>1
<1>4. \A k \in x .. x + l - 1 : k \in Nat /\ k < n * BlockSize
  BY <1>1
<1> QED BY <1>2, <1>3, <1>4 DEF Updating

\* A file that a step is not about keeps its words.
LEMMA OtherContent ==
    ASSUME IInv, NEW t \in Thread, pc[t] \notin Down, NEW f \in FilesOf(t), OthersKept(t, f),
           NEW g \in File, g # f, ContentInv(g), content'[g] = content[g]
    PROVE  ContentInv(g)'
<1> DEFINE u == owner[g]
           n == namei(u, g)
<1>0. /\ TypeOK /\ NumInv /\ Up /\ \A v \in Thread : DirInv(v) /\ SizeInv(v)
  BY UpHas
<1>1. u \in Thread /\ g \in FilesOf(u) /\ g # 0
  BY OwnerIs, FilesAre
<1>2. g # file[t] /\ g # file'[t] /\ Alone(t) /\ DiskMine(t)
  BY <1>1 DEF OthersKept
<1>3. n' = n
  <2>1. CASE u = t
    BY <2>1, <1>1 DEF OthersKept
  <2>2. CASE u # t
    <3>1. dir'[u] = dir[u] /\ dirsize'[u] = dirsize[u]
      BY <2>2, <1>1, <1>2 DEF Alone
    <3> QED BY <3>1, NameiIs, NameiNext
  <2> QED BY <2>1, <2>2
<1>4. \A r \in Owned(g) : store'[r[3]] = store[r[3]]
  BY DEF OthersKept
<1>5. CASE file[u] = g
  <2>1. u # t
    BY <1>2, <1>5
  <2>2. /\ pc'[u] = pc[u] /\ ino'[u] = ino[u] /\ file'[u] = g /\ cursor'[u] = cursor[u]
        /\ arg'[u] = arg[u]
    BY <2>1, <1>1, <1>2, <1>5 DEF Alone
  <2>3. PICK c, x, l, p : c = ino[u] /\ x = cursor[u] /\ l = arg[u] /\ p = pc[u]
    OBVIOUS
  <2>4. Shows(content[g], store, p, c, g, x, l)
    BY <1>5, <2>3 DEF ContentInv
  <2>5. /\ c.size \in Nat /\ c.size_blocks \in Nat /\ x \in Nat /\ l \in Nat
    BY <1>0, <1>1, <2>3 DEF TypeOK, Copy
  <2>6. p \in {"open", "add", "data", "update"} =>
           /\ c.size <= c.size_blocks * BlockSize
           /\ \A r \in RefsIn(store, c, c.size_blocks) : store'[r[3]] = store[r[3]]
    <3> SUFFICES ASSUME p \in {"open", "add", "data", "update"}
                 PROVE  /\ c.size <= c.size_blocks * BlockSize
                        /\ \A r \in RefsIn(store, c, c.size_blocks) : store'[r[3]] = store[r[3]]
      OBVIOUS
    <3>1. c.size <= c.size_blocks * BlockSize
      BY <1>0, <1>1, <2>3 DEF SizeInv, Moving
    <3>2. Owned(g) = Holding(store, pc[u], ino[u], blk[u], arg[u])
      BY <1>0, <1>1, <1>5, InUse
    <3>3. RefsIn(store, c, c.size_blocks) \subseteq Owned(g)
      BY <2>3, <3>2 DEF Holding, Moving
    <3> QED BY <3>1, <3>3, <1>4
  <2>7. p \in {"open", "add", "data"} => Reads(content[g], store', c)
    BY <2>4, <2>5, <2>6, ReadsFrame DEF Shows
  <2>8. p = "update" => Updating(content[g], store', c, g, x, l)
    <3> SUFFICES ASSUME p = "update" PROVE Updating(content[g], store', c, g, x, l)
      OBVIOUS
    <3>1. x < c.size_blocks * BlockSize /\ l <= BlockSize - (x % BlockSize)
      BY <1>0, <1>1, <2>3 DEF SizeInv, Moving
    <3>2. x + l <= c.size_blocks * BlockSize
      BY <3>1, <2>5, EndsInBlock
    <3>3. Updating(content[g], store, c, g, x, l)
      BY <2>4 DEF Shows
    <3> QED BY <3>2, <3>3, <2>5, <2>6, UpdatingFrame
  <2>9. Shows(content[g], store', p, c, g, x, l)
    BY <2>4, <2>7, <2>8 DEF Shows
  <2> QED BY <2>2, <2>3, <2>9 DEF ContentInv
<1>6. CASE file[u] # g
  <2>1. file'[u] # g
    BY <1>1, <1>2, <1>6 DEF Alone
  <2>2. CASE n = 0
    BY <1>3, <1>6, <2>1, <2>2 DEF ContentInv
  <2>3. CASE n # 0
    <3>1. n \in Inode /\ Has(u, n) /\ (pc[u] \notin {"idle"} \cup Down => n # ino[u].num)
      BY <1>0, <1>1, <1>6, <2>3, NamedHas
    <3>2. dinode'[n] = dinode[n]
      <4>1. CASE u = t
        BY <4>1, <3>1, <1>2 DEF DiskMine
      <4>2. CASE u # t
        BY <4>2, <3>1, <1>0, <1>1, <1>2 DEF DiskMine, NumInv
      <4> QED BY <4>1, <4>2
    <3>3. PICK d : d = dinode[n]
      OBVIOUS
    <3>4. d.size \in Nat
      BY <3>1, <3>3, <1>0 DEF TypeOK, DiskInode
    <3>5. BlocksOf(d.size) \in Nat /\ d.size <= BlocksOf(d.size) * BlockSize
      BY <3>4, BlocksOfIs
    <3>6. Owned(g) = Stored(store, d)
      BY <1>6, <2>3, <3>3, OwnedIs
    <3>7. \A r \in RefsIn(store, d, BlocksOf(d.size)) : store'[r[3]] = store[r[3]]
      BY <3>6, <1>4 DEF Stored
    <3>8. Reads(content[g], store, d)
      BY <1>6, <2>3, <3>3 DEF ContentInv
    <3>9. Reads(content[g], store', d)
      BY <3>4, <3>5, <3>7, <3>8, ReadsFrame
    <3> QED BY <1>3, <2>1, <2>3, <3>2, <3>3, <3>9 DEF ContentInv
  <2> QED BY <2>2, <2>3
<1> QED BY <1>5, <1>6

Content == \A f \in File : ContentInv(f)

\* A step of t has to be looked at for its file only.
LEMMA ContentStep ==
    ASSUME IInv, Content, NEW t \in Thread, pc[t] \notin Down, Apart(t),
           NEW f \in FilesOf(t), f \in {file[t], file'[t]},
           \A g \in File \ {f} : content'[g] = content[g], ContentInv(f)'
    PROVE  Content'
<1>1. PICK h \in FilesOf(t) : OthersKept(t, h)
  BY DEF Apart
<1>2. h = f
  BY <1>1, FilesAre DEF OthersKept
<1>3. \A g \in File \ {f} : ContentInv(g)'
  BY <1>1, <1>2, OtherContent DEF Content
<1> QED BY <1>3 DEF Content

LEMMA ShownNext ==
    ASSUME NEW t, NEW f \in FilesOf(t), file'[t] = f
    PROVE  ContentInv(f)' <=> Shows(content'[f], store', pc'[t], ino'[t], f, cursor'[t], arg'[t])
BY FilesAre DEF ContentInv

LEMMA Shown ==
    ASSUME IInv, Content, NEW t \in Thread, pc[t] \in Using
    PROVE  /\ file[t] \in FilesOf(t) /\ file[t] \in File /\ pc[t] \notin Down
           /\ Shows(content[file[t]], store, pc[t], ino[t], file[t], cursor[t], arg[t])
<1>1. pc[t] \notin Down /\ pc[t] # "idle"
  BY DEF Using, Down
<1>2. file[t] \in FilesOf(t) /\ file[t] \in File /\ owner[file[t]] = t
  BY <1>1, UpHas, FileInUse
<1> QED BY <1>1, <1>2 DEF Content, ContentInv

\* While a call makes a file or does away with it, nothing is said of its words.
LEMMA BusyStep ==
    ASSUME IInv, Content, NEW t \in Thread, pc[t] \notin Down, Apart(t),
           NEW f \in FilesOf(t), file'[t] = f,
           pc'[t] \notin {"open", "add", "data", "update", "emptied"}, content' = content
    PROVE  Content'
<1>1. Shows(content'[f], store', pc'[t], ino'[t], f, cursor'[t], arg'[t])
  BY DEF Shows
<1>2. ContentInv(f)'
  BY <1>1, ShownNext
<1> QED BY <1>2, ContentStep

LEMMA BusyContent ==
    ASSUME IInv, Content, NEW t \in Thread,
           iadd_to_dir(t) \/ GrowParent(t) \/ FreeData(t) \/ free_all_indirect(t) \/ ifree(t)
              \/ idelete_from_dir(t)
    PROVE  Content'
<1> DEFINE P == {"new parent", "new inode", "free", "clear", "entry", "parent"}
<1>1. /\ pc[t] \in Making \cup Using /\ file' = file /\ content' = content
      /\ (pc' = pc /\ pc[t] \in P) \/ \E p \in P : pc' = [pc EXCEPT ![t] = p]
  <2>1. CASE iadd_to_dir(t)
    BY <2>1 DEF iadd_to_dir, Goto, Making
  <2>2. CASE GrowParent(t)
    BY <2>2 DEF GrowParent, Goto, Making
  <2>3. CASE FreeData(t)
    BY <2>3 DEF FreeData, Using
  <2>4. CASE free_all_indirect(t)
    BY <2>4 DEF free_all_indirect, Goto, Using
  <2>5. CASE ifree(t)
    BY <2>5 DEF ifree, Goto, Using
  <2>6. CASE idelete_from_dir(t)
    BY <2>6 DEF idelete_from_dir, Goto, Using
  <2> QED BY <2>1, <2>2, <2>3, <2>4, <2>5, <2>6
<1>2. pc[t] \notin Down /\ pc[t] # "idle"
  BY <1>1 DEF Making, Using, Down
<1>3. TypeOK /\ DirInv(t)
  BY <1>2, UpHas
<1>4. pc'[t] \in P
  BY <1>1, <1>3 DEF TypeOK
<1>5. Apart(t)
  BY iadd_to_dirKeeps, GrowParentKeeps, FreeDataKeeps, free_all_indirectKeeps, ifreeKeeps,
     idelete_from_dirKeeps
<1>6. PICK f \in FilesOf(t) : f = file[t]
  BY <1>2, <1>3, FileInUse
<1> QED BY <1>1, <1>2, <1>4, <1>5, <1>6, BusyStep

LEMMA CreatContent ==
    ASSUME IInv, Content, NEW t \in Thread, NEW f \in FilesOf(t), Creat(t, f)
    PROVE  Content'
<1>1. /\ pc[t] = "idle" /\ pc' = [pc EXCEPT ![t] = "new entry"]
      /\ file' = [file EXCEPT ![t] = f] /\ content' = content
  BY DEF Creat, Goto, Set
<1>2. pc[t] \notin Down
  BY <1>1 DEF Down
<1>3. pc'[t] = "new entry" /\ file'[t] = f
  BY <1>1, <1>2, UpHas DEF TypeOK
<1> QED BY <1>1, <1>2, <1>3, CreatKeeps, BusyStep

\* A call that starts has the inode as it is on the disk.
LEMMA StartContent ==
    ASSUME IInv, Content, NEW t \in Thread, NEW f \in FilesOf(t), pc[t] = "idle",
           namei(t, f) # 0, NEW p \in {"open", "free", "ifree"}, NEW c, CopyOf(c, namei(t, f)),
           pc' = [pc EXCEPT ![t] = p], ino' = [ino EXCEPT ![t] = c],
           file' = [file EXCEPT ![t] = f], store' = store, content' = content, Apart(t)
    PROVE  Content'
<1>1. pc[t] \notin Down
  BY DEF Down
<1>2. TypeOK /\ DirInv(t) /\ file[t] # f
  <2>1. TypeOK /\ DirInv(t) /\ f # 0
    BY <1>1, UpHas, FilesAre
  <2> QED BY <2>1 DEF DirInv
<1>3. pc'[t] = p /\ ino'[t] = c /\ file'[t] = f
  BY <1>2 DEF TypeOK
<1>4. Reads(content[f], store, dinode[namei(t, f)])
  BY <1>2, FilesAre DEF Content, ContentInv
<1>5. Reads(content[f], store, c)
  <2> DEFINE d == dinode[namei(t, f)]
  <2>1. OnDisk(c) = d
    BY DEF CopyOf
  <2> HIDE DEF d
  <2>2. /\ d.direct = c.direct /\ d.indirect = c.indirect
        /\ d.double_indirect = c.double_indirect /\ d.size = c.size
    BY <2>1 DEF OnDisk
  <2> QED BY <1>4, <2>2, WordsSame DEF d
<1>6. Shows(content'[f], store', p, c, f, cursor'[t], arg'[t])
  BY <1>5 DEF Shows
<1>7. ContentInv(f)'
  BY <1>3, <1>6, ShownNext
<1> QED BY <1>1, <1>3, <1>7, ContentStep

LEMMA OpenContent ==
    ASSUME IInv, Content, NEW t \in Thread, NEW f \in FilesOf(t), Open(t, f)
    PROVE  Content'
<1>1. PICK n : n = namei(t, f)
  OBVIOUS
<1>2. PICK c : c = iget(n)
  OBVIOUS
<1>3. /\ pc[t] = "idle" /\ n # 0 /\ pc' = [pc EXCEPT ![t] = "open"]
      /\ ino' = [ino EXCEPT ![t] = c] /\ file' = [file EXCEPT ![t] = f]
      /\ store' = store /\ content' = content
  BY <1>1, <1>2 DEF Open, Goto, Set, diskVars
<1>4. pc[t] \notin Down
  BY <1>3 DEF Down
<1>5. TypeOK /\ DirInv(t) /\ f # file[t]
  <2>1. TypeOK /\ DirInv(t) /\ f # 0
    BY <1>4, UpHas, FilesAre
  <2> QED BY <2>1, <1>3 DEF DirInv
<1>6. n \in Inode
  BY <1>1, <1>3, <1>5, NamedHas
<1>7. CopyOf(c, n)
  BY <1>2, <1>5, <1>6, CopyIs
<1>8. Apart(t)
  BY OpenKeeps
<1> QED BY <1>1, <1>3, <1>7, <1>8, StartContent

LEMMA ClearContent ==
    ASSUME IInv, Content, NEW t \in Thread, NEW f \in FilesOf(t),
           NEW s \in {"UNCHANGED", "TO_DELETE"}, Clear(t, f, s)
    PROVE  Content'
<1>1. PICK n : n = namei(t, f)
  OBVIOUS
<1>2. PICK c : c = [iget(n) EXCEPT !.status = s]
  OBVIOUS
<1>3. PICK p \in {"open", "free", "ifree"} : p = IF c.size > 0 THEN "free"
                              ELSE IF s = "TO_DELETE" THEN "ifree" ELSE "open"
  OBVIOUS
<1>4. /\ pc[t] = "idle" /\ n # 0 /\ pc' = [pc EXCEPT ![t] = p]
      /\ ino' = [ino EXCEPT ![t] = c] /\ file' = [file EXCEPT ![t] = f]
      /\ store' = store /\ content' = content
  BY <1>1, <1>2, <1>3 DEF Clear, Set, diskVars
<1>5. pc[t] \notin Down
  BY <1>4 DEF Down
<1>6. TypeOK /\ DirInv(t) /\ f # file[t]
  <2>1. TypeOK /\ DirInv(t) /\ f # 0
    BY <1>5, UpHas, FilesAre
  <2> QED BY <2>1, <1>4 DEF DirInv
<1>7. n \in Inode
  BY <1>1, <1>4, <1>6, NamedHas
<1>8. CopyOf(c, n)
  BY <1>2, <1>6, <1>7, CopyIs
<1>9. Apart(t)
  BY ClearKeeps
<1> QED BY <1>1, <1>4, <1>8, <1>9, StartContent

LEMMA WriteOverContent ==
    ASSUME IInv, Content, NEW t \in Thread, NEW len \in 1 .. BlockSize,
           len <= BlockSize - (cursor[t] % BlockSize), cursor[t] + len <= MaxSize[file[t]],
           WriteOver(t, len)
    PROVE  Content'
<1>1. /\ pc[t] = "open" /\ pc' = [pc EXCEPT ![t] = "data"] /\ ~AtEnd(t)
      /\ ino' = ino /\ file' = file /\ cursor' = cursor /\ store' = store /\ content' = content
  BY DEF WriteOver, Goto, Set, diskVars
<1>2. pc[t] \in Using
  BY <1>1 DEF Using
<1>3. PICK f \in FilesOf(t) : f = file[t]
  BY <1>2, Shown
<1>4. pc[t] \notin Down /\ Shows(content[f], store, pc[t], ino[t], f, cursor[t], arg[t])
  BY <1>2, <1>3, Shown
<1>5. TypeOK
  BY <1>4, UpHas
<1>6. pc'[t] = "data" /\ cursor[t] <= ino[t].size
  BY <1>1, <1>5 DEF TypeOK, AtEnd, Copy
<1>7. Shows(content'[f], store', pc'[t], ino'[t], f, cursor'[t], arg'[t])
  BY <1>1, <1>4, <1>6 DEF Shows
<1>8. ContentInv(f)'
  BY <1>1, <1>3, <1>7, ShownNext
<1> QED BY <1>1, <1>3, <1>4, <1>8, WriteOverKeeps, ContentStep

LEMMA WriteAtEndContent ==
    ASSUME IInv, Content, NEW t \in Thread, NEW len \in 1 .. BlockSize,
           len <= BlockSize - (cursor[t] % BlockSize), cursor[t] + len <= MaxSize[file[t]],
           WriteAtEnd(t, len)
    PROVE  Content'
<1>1. /\ pc[t] = "open" /\ pc' = [pc EXCEPT ![t] = "add"]
      /\ ino' = ino /\ file' = file /\ store' = store /\ content' = content
  BY DEF WriteAtEnd, Goto, Set
<1>2. pc[t] \in Using
  BY <1>1 DEF Using
<1>3. PICK f \in FilesOf(t) : f = file[t]
  BY <1>2, Shown
<1>4. pc[t] \notin Down /\ Shows(content[f], store, pc[t], ino[t], f, cursor[t], arg[t])
  BY <1>2, <1>3, Shown
<1>5. pc'[t] = "add"
  BY <1>1, <1>4, UpHas DEF TypeOK
<1>6. Shows(content'[f], store', pc'[t], ino'[t], f, cursor'[t], arg'[t])
  BY <1>1, <1>4, <1>5 DEF Shows
<1>7. ContentInv(f)'
  BY <1>1, <1>3, <1>6, ShownNext
<1> QED BY <1>1, <1>3, <1>4, <1>7, WriteAtEndKeeps, ContentStep

LEMMA StutterContent ==
    ASSUME Content, UNCHANGED vars
    PROVE  Content'
<1> USE DEF vars, diskVars, blockVars, dirVars, threadVars
<1>1. \A t, f : namei(t, f)' = namei(t, f)
  BY NameiIs, NameiNext
<1> QED BY <1>1 DEF Content, ContentInv

\* A call that writes an inode it has not changed leaves the disk as it is.
LEMMA DiskFullContent ==
    ASSUME IInv, Content, NEW t \in Thread, DiskFull(t)
    PROVE  Content'
<1>1. /\ pc[t] = "open" /\ dinode' = [dinode EXCEPT ![ino[t].num] = OnDisk(ino[t])]
      /\ UNCHANGED <<blockVars, inode_bitmap, store, dirVars, threadVars, content, calls,
                     torn>>
  BY DEF DiskFull, iupdate
<1>2. pc[t] \notin Down
  BY <1>1 DEF Down
<1>3. TypeOK /\ SizeInv(t)
  BY <1>2, UpHas
<1>4. dinode[ino[t].num] = OnDisk(ino[t])
  BY <1>1, <1>3 DEF SizeInv
<1>5. dinode' = dinode
  BY <1>1, <1>3, <1>4 DEF TypeOK
<1>6. UNCHANGED vars
  BY <1>1, <1>5 DEF vars, diskVars
<1> QED BY <1>6, StutterContent

\* iadd_block leaves the words where they are: it writes to blocks of pointers alone, and
\* the inode refers to its blocks as before.
LEMMA GrownReads ==
    ASSUME NEW c \in Copy, NEW b, NEW S, NEW d, NEW z, Grown(c, b, S, d, z), Proper(c),
           block_bitmap \subseteq Block, S \subseteq Free,
           c.size <= c.size_blocks * BlockSize, NEW w, Reads(w, store, c)
    PROVE  Reads(w, z, d)
<1> DEFINE k == c.size_blocks
<1>1. /\ k \in Nat /\ c.size \in Nat /\ d.size = c.size /\ k * BlockSize \in Nat
      /\ \A v \in Block : z[v] = store[v] \/ v \in S
                          \/ \E r \in RefsIn(store, c, k) : r[1] # "data" /\ r[3] = v
  BY Constants DEF Grown, Copy
<1>2. PICK added :
          /\ RefsIn(z, d, k + 1) \subseteq RefsIn(store, c, k) \cup {<<"data", k, b>>} \cup added
          /\ \A r \in added : r[3] \in S /\ r[1] # "data"
  BY DEF Grown
<1> HIDE DEF k
<1>3. ASSUME NEW j \in 0 .. k - 1
      PROVE  MapIn(z, d, j) = MapIn(store, c, j) /\ z[MapIn(z, d, j)] = store[MapIn(z, d, j)]
  <2> DEFINE v == MapIn(z, d, j)
             r == <<"data", j, v>>
  <2>1. r \in RefsIn(z, d, k + 1)
    BY <1>1 DEF RefsIn
  <2>2. r \notin added /\ r # <<"data", k, b>>
    BY <1>1, <1>2
  <2>3. r \in RefsIn(store, c, k)
    BY <2>1, <2>2, <1>2
  <2> HIDE DEF v
  <2>4. v = MapIn(store, c, j)
    BY <2>3, DataRef
  <2>5. v \in block_bitmap /\ \A s \in RefsIn(store, c, k) : s[3] = v => s = r
    BY <2>3 DEF Proper, Once, k
  <2>6. v \in Block /\ v \notin S
    BY <2>5 DEF Free
  <2>7. ~\E s \in RefsIn(store, c, k) : s[1] # "data" /\ s[3] = v
    BY <2>5
  <2>8. z[v] = store[v]
    BY <2>6, <2>7, <1>1
  <2> QED BY <2>4, <2>8 DEF v
<1>4. ASSUME NEW x \in 0 .. c.size - 1
      PROVE  WordAt(z, d, x) = w[x + 1]
  <2>1. x \in Nat /\ x < k * BlockSize
    BY <1>1 DEF k
  <2>2. x \div BlockSize \in 0 .. k - 1
    BY <2>1, <1>1, InBlock, Division
  <2>3. WordAt(z, d, x) = WordAt(store, c, x)
    BY <2>2, <1>3 DEF WordAt, WordIn
  <2> QED BY <2>3 DEF Reads
<1> QED BY <1>1, <1>4 DEF Reads

LEMMA IaddBlockContent ==
    ASSUME IInv, Content, NEW t \in Thread, iadd_block(t)
    PROVE  Content'
<1>1. /\ pc[t] = "add" /\ pc' = [pc EXCEPT ![t] = "data"] /\ file' = file
      /\ cursor' = cursor /\ content' = content
  BY DEF iadd_block, Goto, Set
<1>2. pc[t] \in Using
  BY <1>1 DEF Using
<1>3. PICK f \in FilesOf(t) : f = file[t] /\ f \in File
  BY <1>2, Shown
<1>4. pc[t] \notin Down /\ Shows(content[f], store, pc[t], ino[t], f, cursor[t], arg[t])
  BY <1>2, <1>3, Shown
<1>5. TypeOK /\ Up /\ BlocksDisjoint /\ SizeInv(t)
  BY <1>4, UpHas
<1>6. PICK c, d, b, S : /\ c = ino[t] /\ d = ino'[t] /\ b = blk[t]
                        /\ S = Lowest(NewPointers(ino[t].size_blocks))
  OBVIOUS
<1>7. /\ Grown(c, b, S, d, store') /\ S \subseteq Free /\ Apart(t)
  BY <1>6, IaddBlockKeeps
<1>8. /\ c \in Copy /\ c.size <= c.size_blocks * BlockSize /\ cursor[t] <= c.size
      /\ block_bitmap \subseteq Block
  BY <1>1, <1>5, <1>6 DEF TypeOK, SizeInv, Moving
<1>9. Proper(c)
  <2>1. Owned(f) = Holding(store, pc[t], c, b, arg[t])
    BY <1>3, <1>5, <1>6, InUse
  <2>2. RefsIn(store, c, c.size_blocks) \subseteq Owned(f)
    BY <2>1, <1>1 DEF Holding, Moving
  <2> QED BY <2>2, <1>3, <1>5 DEF Proper, Once, BlocksDisjoint
<1>10. Reads(content[f], store, c)
  BY <1>1, <1>4, <1>6 DEF Shows
<1>11. Reads(content[f], store', d)
  BY <1>7, <1>8, <1>9, <1>10, GrownReads
<1>12. pc'[t] = "data" /\ d.size = c.size
  BY <1>1, <1>5, <1>7 DEF TypeOK, Grown
<1>13. Shows(content'[f], store', pc'[t], ino'[t], f, cursor'[t], arg'[t])
  BY <1>1, <1>6, <1>8, <1>11, <1>12 DEF Shows
<1>14. ContentInv(f)'
  BY <1>1, <1>3, <1>13, ShownNext
<1> QED BY <1>1, <1>3, <1>4, <1>7, <1>14, ContentStep

\* The words of a write that lies in one block are all in that block.
LEMMA SameBlock ==
    ASSUME NEW x \in Nat, NEW l \in Nat, l <= BlockSize - (x % BlockSize),
           NEW k \in x .. x + l - 1
    PROVE  k \div BlockSize = x \div BlockSize
<1> DEFINE B == BlockSize
           q == x \div BlockSize
           j == k \div BlockSize
           m == x % BlockSize
           o == k % BlockSize
<1>1. B \in Nat \ {0} /\ k \in Nat
  BY Constants
<1>2. /\ q \in Nat /\ m \in 0 .. B - 1 /\ x = B * q + m
      /\ j \in Nat /\ o \in 0 .. B - 1 /\ k = B * j + o
  BY <1>1, Division
<1> HIDE DEF B, q, j, m, o
<1>3. B * q \in Nat /\ B * j \in Nat
  BY <1>1, <1>2
<1>4. l <= B - m
  BY DEF B, m
<1>5. k >= B * q /\ k < B * q + B
  BY <1>1, <1>2, <1>3, <1>4
<1>6. j < q => B * j + B <= B * q
  <2>1. j < q => B * (j + 1) <= B * q
    BY <1>1, <1>2
  <2>2. B * (j + 1) = B * j + B
    BY <1>1, <1>2
  <2> QED BY <2>1, <2>2
<1>7. q < j => B * q + B <= B * j
  <2>1. q < j => B * (q + 1) <= B * j
    BY <1>1, <1>2
  <2>2. B * (q + 1) = B * q + B
    BY <1>1, <1>2
  <2> QED BY <2>1, <2>2
<1>8. ~(j < q) /\ ~(q < j)
  BY <1>1, <1>2, <1>3, <1>5, <1>6, <1>7
<1>9. j = q
  BY <1>2, <1>8
<1> QED BY <1>9 DEF j, q

\* WriteData changes the words of the call and no other.
LEMMA WriteDataContent ==
    ASSUME IInv, Content, NEW t \in Thread, WriteData(t)
    PROVE  Content'
<1>1. PICK c, x, l, f, at, b, words :
         /\ c = ino[t] /\ x = cursor[t] /\ l = arg[t] /\ f = file[t]
         /\ at = x - (x % BlockSize) /\ b = blockmap(c, at \div BlockSize)
         /\ words = [w \in Offset |-> IF at + w \in x .. x + l - 1
                                      THEN Datum(f, at + w, IF at + w < c.size THEN 2 ELSE 1)
                                      ELSE store[b][w]]
  OBVIOUS
<1>2. /\ pc[t] = "data" /\ pc' = [pc EXCEPT ![t] = "update"]
      /\ store' = [store EXCEPT ![b] = words] /\ file' = file /\ ino' = ino
      /\ cursor' = cursor /\ arg' = arg /\ content' = content
  BY <1>1 DEF WriteData, Goto, Written, NewDatum
<1>3. pc[t] \in Using
  BY <1>2 DEF Using
<1>4. /\ f \in FilesOf(t) /\ f \in File /\ pc[t] \notin Down
      /\ Shows(content[f], store, "data", c, f, x, l)
  BY <1>1, <1>2, <1>3, Shown
<1>5. TypeOK /\ Up /\ BlocksDisjoint /\ SizeInv(t)
  BY <1>4, UpHas
<1> DEFINE n == c.size_blocks
           q == x \div BlockSize
<1>6. /\ c.size \in Nat /\ n \in Nat /\ x \in Nat /\ l \in Nat /\ BlockSize \in Nat \ {0}
      /\ n * BlockSize \in Nat
  <2>1. c.size \in Nat /\ n \in Nat /\ x \in Nat /\ l \in Nat
    BY <1>1, <1>5 DEF TypeOK, Copy
  <2>2. BlockSize \in Nat \ {0}
    BY Constants
  <2> HIDE DEF n
  <2>3. n * BlockSize \in Nat
    BY <2>1, <2>2
  <2> QED BY <2>1, <2>2, <2>3
<1>7. /\ x < n * BlockSize /\ c.size <= n * BlockSize /\ l <= BlockSize - (x % BlockSize)
      /\ x <= c.size /\ Reads(content[f], store, c)
  <2>1. x <= c.size /\ Reads(content[f], store, c)
    BY <1>4, Zenon DEF Shows
  <2>2. x < n * BlockSize /\ c.size <= n * BlockSize /\ l <= BlockSize - (x % BlockSize)
    BY <1>1, <1>2, <1>5 DEF SizeInv, Moving
  <2> QED BY <2>1, <2>2
<1>8. q \in 0 .. n - 1 /\ q \in Nat /\ x + l <= n * BlockSize
  <2>1. x + l <= n * BlockSize
    BY <1>6, <1>7, EndsInBlock
  <2>2. q < n
    BY <1>6, <1>7, InBlock
  <2>3. q \in Nat
    BY <1>6, Division
  <2> QED BY <2>1, <2>2, <2>3, <1>6
<1>9. at \div BlockSize = q /\ at = BlockSize * q /\ BlockSize * q \in Nat
  <2>1. at \div BlockSize = q
    BY <1>1, <1>6, BlockStart
  <2>2. x = BlockSize * q + (x % BlockSize) /\ x % BlockSize \in 0 .. BlockSize - 1
    BY <1>6, Division
  <2> HIDE DEF n, q
  <2>3. BlockSize * q \in Nat
    <3>1. BlockSize \in Nat
      BY Constants
    <3>2. q \in Nat
      BY <1>8, Zenon
    <3> QED BY <3>1, <3>2
  <2> QED BY <2>1, <2>2, <2>3, <1>1, <1>6
<1>10. b = MapIn(store, c, q)
  BY <1>1, <1>9 DEF blockmap, MapIn, Word, WordIn
<1> HIDE DEF n, q
<1>11. \A r \in RefsIn(store, c, n) : r[3] \in Block /\ (r[3] = b => r = <<"data", q, b>>)
  <2>1. Owned(f) = Holding(store, pc[t], c, blk[t], l)
    BY <1>1, <1>4, <1>5, InUse
  <2>2. RefsIn(store, c, n) \subseteq Owned(f)
    BY <2>1, <1>2 DEF Holding, Moving, n
  <2>3. <<"data", q, b>> \in RefsIn(store, c, n)
    BY <1>8, <1>10 DEF RefsIn
  <2> DEFINE s == <<"data", q, b>>
  <2>4. s \in Owned(f) /\ s[3] = b
    BY <2>2, <2>3
  <2> QED BY <2>2, <2>4, <1>4, <1>5 DEF BlocksDisjoint, TypeOK
<1>12. b \in Block
  <2>1. <<"data", q, b>> \in RefsIn(store, c, n)
    BY <1>8, <1>10 DEF RefsIn
  <2> QED BY <2>1, <1>11
<1>13. store'[b] = words /\ \A v \in Block : v # b => store'[v] = store[v]
  BY <1>2, <1>5, <1>12 DEF TypeOK
<1>14. RefsIn(store', c, n) = RefsIn(store, c, n)
  <2>1. \A r \in PointersIn(store, c, n) : r \in RefsIn(store, c, n) /\ r[1] # "data"
    BY DEF RefsIn, PointersIn
  <2>2. \A r \in PointersIn(store, c, n) : r[3] \in Block => store[r[3]] = store'[r[3]]
    <3> SUFFICES ASSUME NEW r \in PointersIn(store, c, n), r[3] \in Block
                 PROVE  store[r[3]] = store'[r[3]]
      OBVIOUS
    <3>1. r[3] = b => r = <<"data", q, b>>
      BY <2>1, <1>11
    <3>2. r[3] # b
      BY <3>1, <2>1
    <3> QED BY <3>2, <1>13
  <2> QED BY <2>2, <1>6, RefsFrame DEF n
<1>15. ASSUME NEW j \in 0 .. n - 1
       PROVE  /\ MapIn(store', c, j) = MapIn(store, c, j) /\ MapIn(store, c, j) \in Block
              /\ j # q => MapIn(store, c, j) # b
  <2>1. <<"data", j, MapIn(store', c, j)>> \in RefsIn(store, c, n)
    BY <1>14 DEF RefsIn
  <2>2. MapIn(store', c, j) = MapIn(store, c, j)
    BY <2>1, DataRef
  <2>3. MapIn(store, c, j) = b => <<"data", j, b>> = <<"data", q, b>>
    BY <2>1, <2>2, <1>11
  <2>4. MapIn(store, c, j) \in Block
    BY <2>1, <2>2, <1>11
  <2> QED BY <2>2, <2>3, <2>4
<1>16. ASSUME NEW k \in Nat, k < n * BlockSize
       PROVE  WordAt(store', c, k) = IF k \in x .. x + l - 1
                                     THEN Datum(f, k, IF k < c.size THEN 2 ELSE 1)
                                     ELSE WordAt(store, c, k)
  <2> DEFINE j == k \div BlockSize
             o == k % BlockSize
  <2>1. j \in 0 .. n - 1 /\ o \in Offset /\ k = BlockSize * j + o
    BY <1>6, <1>16, InBlock, Division DEF Offset, n
  <2>2. k \in x .. x + l - 1 => j = q
    BY <1>6, <1>7, SameBlock DEF q
  <2> HIDE DEF j, o
  <2>3. CASE j = q
    <3>1. at + o = k
      BY <2>1, <2>3, <1>9
    <3>2. WordAt(store', c, k) = words[o] /\ WordAt(store, c, k) = store[b][o]
      BY <2>1, <2>3, <1>10, <1>12, <1>13, <1>15 DEF WordAt, WordIn, j, o
    <3>3. words[o] = IF at + o \in x .. x + l - 1
                     THEN Datum(f, at + o, IF at + o < c.size THEN 2 ELSE 1)
                     ELSE store[b][o]
      BY <2>1, <1>1
    <3> QED BY <3>1, <3>2, <3>3
  <2>4. CASE j # q
    <3>1. WordAt(store', c, k) = WordAt(store, c, k)
      BY <2>1, <2>4, <1>13, <1>15 DEF WordAt, WordIn, j
    <3> QED BY <3>1, <2>2, <2>4
  <2> QED BY <2>3, <2>4
<1>17. Updating(content[f], store', c, f, x, l)
  <2>1. \A k \in 0 .. c.size - 1 : k \in Nat /\ k < n * BlockSize
    BY <1>6, <1>7 DEF n
  <2>2. \A k \in x .. x + l - 1 : k \in Nat /\ k < n * BlockSize
    BY <1>6, <1>8 DEF n
  <2> QED BY <2>1, <2>2, <1>7, <1>16 DEF Updating, Reads
<1>18. pc'[t] = "update" /\ ino'[t] = c /\ cursor'[t] = x /\ arg'[t] = l /\ file'[t] = f
  BY <1>1, <1>2, <1>5 DEF TypeOK
<1>19. Shows(content'[f], store', pc'[t], ino'[t], f, cursor'[t], arg'[t])
  BY <1>2, <1>7, <1>17, <1>18 DEF Shows
<1>20. ContentInv(f)'
  BY <1>4, <1>18, <1>19, ShownNext
<1> QED BY <1>2, <1>4, <1>18, <1>20, WriteDataKeeps, ContentStep

\* When the size is in the inode, the words of the call are the file's.
LEMMA UpdateSizeContent ==
    ASSUME IInv, Content, NEW t \in Thread, UpdateSize(t)
    PROVE  Content'
<1>1. PICK i, x, l, f, end, old :
         i = ino[t] /\ x = cursor[t] /\ l = arg[t] /\ f = file[t] /\ end = x + l
         /\ old = content[f]
  OBVIOUS
<1>2. PICK c : c = [i EXCEPT !.size = Max({i.size, end})]
  OBVIOUS
<1>3. PICK words : words = [k \in 1 .. c.size |-> IF k - 1 \in x .. x + l - 1
                                THEN Datum(f, k - 1, IF k - 1 < i.size THEN 2 ELSE 1)
                                ELSE old[k]]
  OBVIOUS
<1>4. /\ pc[t] = "update" /\ pc' = [pc EXCEPT ![t] = "open"] /\ ino' = [ino EXCEPT ![t] = c]
      /\ content' = [content EXCEPT ![f] = words] /\ store' = store /\ file' = file
  <2>1. words = [k \in 1 .. c.size |-> IF k - 1 \in Written(t) THEN NewDatum(t, k - 1)
                                      ELSE content[file[t]][k]]
    BY <1>1, <1>3 DEF Written, NewDatum
  <2>2. c = [ino[t] EXCEPT !.size = Max({ino[t].size, cursor[t] + arg[t]})]
    BY <1>1, <1>2
  <2>3. /\ Goto(t, "update", "open") /\ ino' = Set(ino, t, c) /\ EndsAs(t, words)
        /\ store' = store /\ file' = file
    BY <2>1, <2>2 DEF UpdateSize
  <2> QED BY <2>3, <1>1 DEF Goto, Set, EndsAs
<1>5. pc[t] \in Using
  BY <1>4 DEF Using
<1>6. /\ f \in FilesOf(t) /\ f \in File /\ pc[t] \notin Down
      /\ Shows(old, store, "update", i, f, x, l)
  BY <1>1, <1>4, <1>5, Shown
<1>7. TypeOK
  BY <1>6, UpHas
<1>8. /\ i \in Copy /\ i.size \in Nat /\ x \in Nat /\ l \in Nat /\ end \in Nat
  BY <1>1, <1>7 DEF TypeOK, Copy
<1>9. /\ c.size \in Nat /\ c.size = IF i.size <= end THEN end ELSE i.size
      /\ c.direct = i.direct /\ c.indirect = i.indirect /\ c.double_indirect = i.double_indirect
  <2> DEFINE m == Max({i.size, end})
  <2>1. m \in Nat /\ m = IF i.size <= end THEN end ELSE i.size
    BY <1>8, LargerIs
  <2> HIDE DEF m
  <2>2. c = [i EXCEPT !.size = m]
    BY <1>2 DEF m
  <2> QED BY <2>1, <2>2, <1>8 DEF Copy
<1>10. /\ x <= i.size /\ Updating(old, store, i, f, x, l)
       /\ \A k \in 0 .. i.size - 1 : k \notin x .. x + l - 1 => WordAt(store, i, k) = old[k + 1]
       /\ \A k \in x .. x + l - 1 : WordAt(store, i, k) = Datum(f, k, IF k < i.size THEN 2 ELSE 1)
  <2>1. x <= i.size /\ Updating(old, store, i, f, x, l)
    BY <1>6 DEF Shows
  <2> QED BY <2>1, <1>1 DEF Updating
<1>11. old \in Seq(Nat) /\ Len(old) = i.size
  BY <1>10 DEF Updating
<1>12. ASSUME NEW k \in 1 .. c.size
       PROVE  k - 1 \in x .. x + l - 1 \/ k \in 1 .. i.size
  BY <1>1, <1>8, <1>9, <1>10
<1>13. words \in Seq(Nat) /\ Len(words) = c.size
  <2>1. ASSUME NEW k \in 1 .. c.size
        PROVE  words[k] \in Nat
    <3>1. CASE k - 1 \in x .. x + l - 1
      <4>1. words[k] = Datum(f, k - 1, IF k - 1 < i.size THEN 2 ELSE 1)
        BY <3>1, <1>3
      <4>2. NBlocks \in Nat /\ f \in Nat /\ k - 1 \in Nat
        BY <1>6, <1>9, Constants DEF File
      <4> QED BY <4>1, <4>2 DEF Datum
    <3>2. CASE k - 1 \notin x .. x + l - 1
      <4>1. words[k] = old[k] /\ k \in 1 .. i.size
        BY <3>2, <1>3, <1>12
      <4> QED BY <4>1, <1>11
    <3> QED BY <3>1, <3>2
  <2>2. words \in [1 .. c.size -> Nat]
    BY <2>1, <1>3
  <2> QED BY <2>2, <1>9
<1>14. ASSUME NEW k \in 0 .. c.size - 1
       PROVE  WordAt(store, c, k) = words[k + 1]
  <2>1. WordAt(store, c, k) = WordAt(store, i, k)
    BY <1>9, WordsSame
  <2>2. k + 1 \in 1 .. c.size /\ (k + 1) - 1 = k /\ k \in Nat
    BY <1>9
  <2>3. words[k + 1] = IF k \in x .. x + l - 1
                       THEN Datum(f, k, IF k < i.size THEN 2 ELSE 1) ELSE old[k + 1]
    BY <2>2, <1>3
  <2>4. CASE k \in x .. x + l - 1
    BY <2>1, <2>3, <2>4, <1>10
  <2>5. CASE k \notin x .. x + l - 1
    <3>1. k \in 0 .. i.size - 1
      BY <2>2, <2>5, <1>8, <1>12
    <3> QED BY <3>1, <2>1, <2>3, <2>5, <1>10
  <2> QED BY <2>4, <2>5
<1>15. Reads(words, store, c)
  BY <1>13, <1>14 DEF Reads
<1>16. pc'[t] = "open" /\ ino'[t] = c /\ file'[t] = f /\ content'[f] = words
  BY <1>1, <1>4, <1>6, <1>7 DEF TypeOK
<1>17. Shows(content'[f], store', pc'[t], ino'[t], f, cursor'[t], arg'[t])
  BY <1>4, <1>15, <1>16 DEF Shows
<1>18. ContentInv(f)'
  BY <1>6, <1>16, <1>17, ShownNext
<1>19. \A g \in File \ {f} : content'[g] = content[g]
  BY <1>4, <1>7 DEF TypeOK
<1> QED BY <1>6, <1>16, <1>18, <1>19, UpdateSizeKeeps, ContentStep

\* An inode with no words holds an empty file.
LEMMA ReadsNone ==
    ASSUME NEW s, NEW c, c.size = 0
    PROVE  Reads(<< >>, s, c)
<1>1. 0 .. 0 - 1 = {}
  OBVIOUS
<1> QED BY <1>1 DEF Reads

LEMMA NewInodeContent ==
    ASSUME IInv, Content, NEW t \in Thread, NewInode(t)
    PROVE  Content'
<1>1. PICK n, c, f : n = ino[t].num /\ c = izero(iget(n)) /\ f = file[t]
  OBVIOUS
<1>2. /\ pc[t] = "new inode" /\ pc' = [pc EXCEPT ![t] = "open"] /\ file' = file
      /\ ino' = [ino EXCEPT ![t] = c] /\ content' = [content EXCEPT ![f] = << >>]
  BY <1>1 DEF NewInode, Goto, Set, EndsAs
<1>3. pc[t] \in Using
  BY <1>2 DEF Using
<1>4. f \in FilesOf(t) /\ f \in File /\ pc[t] \notin Down /\ pc[t] # "idle"
  BY <1>1, <1>2, <1>3, Shown
<1>5. TypeOK /\ DirInv(t)
  BY <1>4, UpHas
<1>6. c.size = 0
  <2>1. n \in Inode
    BY <1>1, <1>4, <1>5 DEF DirInv
  <2>2. iget(n) \in Copy
    BY <2>1, <1>5, CopyIs DEF CopyOf
  <2> QED BY <2>2, <1>1, ZeroIs
<1>7. /\ pc'[t] = "open" /\ ino'[t] = c /\ file'[t] = f /\ content'[f] = << >>
      /\ \A g \in File \ {f} : content'[g] = content[g]
  BY <1>1, <1>2, <1>4, <1>5 DEF TypeOK
<1>8. Shows(content'[f], store', pc'[t], ino'[t], f, cursor'[t], arg'[t])
  BY <1>6, <1>7, ReadsNone DEF Shows
<1>9. ContentInv(f)'
  BY <1>4, <1>7, <1>8, ShownNext
<1> QED BY <1>4, <1>7, <1>9, NewInodeKeeps, ContentStep

LEMMA ZeroInodeContent ==
    ASSUME IInv, Content, NEW t \in Thread, ZeroInode(t)
    PROVE  Content'
<1>1. PICK f, p : f = file[t] /\ p = IF ino[t].status = "TO_DELETE" THEN "ifree" ELSE "emptied"
  OBVIOUS
<1>2. /\ pc[t] = "clear" /\ pc' = [pc EXCEPT ![t] = p] /\ file' = file
      /\ IF p = "ifree" THEN content' = content ELSE content' = [content EXCEPT ![f] = << >>]
  BY <1>1 DEF ZeroInode, Goto, EndsAs
<1>3. pc[t] \in Using
  BY <1>2 DEF Using
<1>4. f \in FilesOf(t) /\ f \in File /\ pc[t] \notin Down
  BY <1>1, <1>3, Shown
<1>5. TypeOK
  BY <1>4, UpHas
<1>6. pc'[t] = p /\ file'[t] = f
  BY <1>1, <1>2, <1>5 DEF TypeOK
<1>7. /\ \A g \in File \ {f} : content'[g] = content[g]
      /\ p # "ifree" => content'[f] = << >>
  BY <1>2, <1>4, <1>5 DEF TypeOK
<1>8. Shows(content'[f], store', pc'[t], ino'[t], f, cursor'[t], arg'[t])
  BY <1>1, <1>6, <1>7 DEF Shows
<1>9. ContentInv(f)'
  BY <1>4, <1>6, <1>8, ShownNext
<1> QED BY <1>4, <1>6, <1>7, <1>9, ZeroInodeKeeps, ContentStep

\* A file that is closed is found under its name, with the words that it was left with.
LEMMA InUseNamed ==
    ASSUME IInv, NEW t \in Thread, pc[t] \in Using
    PROVE  namei(t, file[t]) = ino[t].num /\ ino[t].num \in Inode
<1>1. pc[t] \notin Down /\ pc[t] # "idle" /\ pc[t] # "parent"
  BY DEF Using, Down
<1>2. TypeOK /\ DirInv(t)
  BY <1>1, UpHas
<1>3. file[t] \in FilesOf(t)
  BY <1>1, <1>2, FileInUse
<1>4. PICK e \in Kept(t) : dir[t][e] = EntryOf(t)
  BY <1>2 DEF DirInv
<1>5. dir[t][e].name = file[t] /\ dir[t][e].inum = ino[t].num
  BY <1>4 DEF EntryOf
<1> QED BY <1>1, <1>2, <1>3, <1>5, NameiKept DEF DirInv

\* The files that are not busy, as they are on the disk.
LEMMA LeftAs ==
    ASSUME IInv, Content, NEW t \in Thread, pc[t] \in {"open", "emptied"}
    PROVE  Reads(content[file[t]], store, dinode[ino[t].num])
<1>1. pc[t] \in Using
  BY DEF Using
<1>2. /\ pc[t] \notin Down
      /\ Shows(content[file[t]], store, pc[t], ino[t], file[t], cursor[t], arg[t])
  BY <1>1, Shown
<1>3. /\ NumInv /\ SizeInv(t)
  BY <1>2, UpHas
<1>4. PICK c, d, w : c = ino[t] /\ d = dinode[ino[t].num] /\ w = content[file[t]]
  OBVIOUS
<1>5. CASE pc[t] = "open"
  <2>1. d = OnDisk(c)
    BY <1>3, <1>4, <1>5 DEF SizeInv
  <2>2. /\ c.direct = d.direct /\ c.indirect = d.indirect
        /\ c.double_indirect = d.double_indirect /\ c.size = d.size
    BY <2>1 DEF OnDisk
  <2>3. Reads(w, store, c)
    BY <1>2, <1>4, <1>5 DEF Shows
  <2>4. Reads(w, store, d)
    BY <2>2, <2>3, WordsSame
  <2> QED BY <2>4, <1>4
<1>6. CASE pc[t] = "emptied"
  <2>1. w = << >> /\ d.size = 0
    BY <1>2, <1>3, <1>4, <1>6 DEF Shows, NumInv
  <2>2. Reads(w, store, d)
    BY <2>1, ReadsNone
  <2> QED BY <2>2, <1>4
<1> QED BY <1>5, <1>6

LEMMA CloseContent ==
    ASSUME IInv, Content, NEW t \in Thread, Close(t)
    PROVE  Content'
<1>1. /\ pc[t] \in {"open", "emptied"} /\ file' = [file EXCEPT ![t] = 0]
      /\ dinode' = dinode /\ store' = store /\ content' = content
      /\ dir' = dir /\ dirsize' = dirsize
  BY DEF Close, Set, diskVars, dirVars
<1>2. pc[t] \in Using
  BY <1>1 DEF Using
<1>3. PICK f, n : f = file[t] /\ n = ino[t].num
  OBVIOUS
<1>4. f \in FilesOf(t) /\ f \in File /\ f # 0 /\ owner[f] = t /\ pc[t] \notin Down
  BY <1>2, <1>3, Shown, FilesAre
<1>5. namei(t, f)' = n /\ n # 0
  <2>1. namei(t, f) = n /\ n \in Inode
    BY <1>2, <1>3, InUseNamed
  <2> QED BY <2>1, <1>1, NameiIs, NameiNext DEF Inode
<1>6. Reads(content'[f], store', dinode'[n])
  BY <1>1, <1>3, LeftAs
<1>7. file'[t] # f
  <2>1. TypeOK
    BY <1>4, UpHas
  <2> QED BY <2>1, <1>1, <1>4 DEF TypeOK
<1>8. ContentInv(f)'
  BY <1>4, <1>5, <1>6, <1>7 DEF ContentInv
<1> QED BY <1>1, <1>3, <1>4, <1>8, CloseKeeps, ContentStep

\* After an unlink there is no entry with the file's name.
LEMMA ShrinkParentContent ==
    ASSUME IInv, Content, NEW t \in Thread, ShrinkParent(t)
    PROVE  Content'
<1>1. PICK f, k : f = file[t] /\ k = dirsize[t] - 1
  OBVIOUS
<1>2. /\ pc[t] = "parent" /\ file' = [file EXCEPT ![t] = 0] /\ dir' = dir
      /\ dirsize' = [dirsize EXCEPT ![t] = k] /\ content' = [content EXCEPT ![f] = Absent]
  BY <1>1 DEF ShrinkParent, Goto, Set, EndsAs
<1>3. pc[t] \notin Down /\ pc[t] # "idle"
  BY <1>2 DEF Down
<1>4. TypeOK /\ DirInv(t)
  BY <1>3, UpHas
<1>5. f \in FilesOf(t) /\ f \in File /\ f # 0 /\ owner[f] = t
  BY <1>1, <1>3, <1>4, FileInUse, FilesAre
<1>6. k \in Nat /\ \A e \in 1 .. k : dir[t][e].name # f
  <2>1. Kept(t) = 1 .. k /\ dirsize[t] > 0 /\ dirsize[t] \in Nat
    BY <1>1, <1>2, <1>4 DEF Kept, DirInv, TypeOK
  <2> QED BY <2>1, <1>1, <1>2, <1>4 DEF DirInv
<1>7. namei(t, f)' = 0
  <2>1. dir'[t] = dir[t] /\ dirsize'[t] = k
    BY <1>2, <1>4 DEF TypeOK
  <2>2. NameiIn(dir[t], k, f) = 0
    BY <1>6, NameiNone
  <2> QED BY <2>1, <2>2, NameiNext
<1>8. /\ file'[t] # f /\ content'[f] = Absent
      /\ \A g \in File \ {f} : content'[g] = content[g]
  BY <1>2, <1>4, <1>5 DEF TypeOK
<1>9. ContentInv(f)'
  BY <1>5, <1>7, <1>8 DEF ContentInv
<1> QED BY <1>1, <1>3, <1>5, <1>8, <1>9, ShrinkParentKeeps, ContentStep

-----------------------------------------------------------------------------
(***************************************************************************)
(* What lasts                                                              *)
(***************************************************************************)
\* What the disk says of a file that no call is busy with.
Lasts(f) ==
    LET n == NameiIn(dir[owner[f]], dirsize[owner[f]], f)
        d == dinode[n]
    IN IF content[f] = Absent THEN n = 0
       ELSE /\ n \in inode_bitmap /\ d.size = Len(content[f])
            /\ \A k \in 0 .. d.size - 1 : WordAt(store, d, k) = content[f][k + 1]
            /\ \A r \in Stored(store, d) : r[3] \in block_bitmap
Quiet(f) == f \notin torn /\ (file[owner[f]] # f \/ ~Busy(owner[f]))

LEMMA RefsStored == \A n : Refs(iget(n), iget(n).size_blocks) = Stored(store, dinode[n])
<1> SUFFICES ASSUME NEW n PROVE Refs(iget(n), iget(n).size_blocks) = Stored(store, dinode[n])
  OBVIOUS
<1> DEFINE c == iget(n)
           d == dinode[n]
<1>1. /\ c.direct = d.direct /\ c.indirect = d.indirect
      /\ c.double_indirect = d.double_indirect /\ c.size_blocks = BlocksOf(d.size)
  BY DEF iget
<1> HIDE DEF c, d
<1>2. Refs(c, c.size_blocks) = Stored(store, d)
  BY <1>1, RefsAre, RefsSame DEF Stored
<1> QED BY <1>2 DEF c, d

LEMMA DurableIs == Durable <=> \A f \in File : Quiet(f) => Lasts(f)
<1>1. ASSUME NEW f \in File
      PROVE  LET n == namei(owner[f], f)
                 c == iget(n)
             IN Lasts(f) <=> IF content[f] = Absent THEN n = 0
                             ELSE /\ n \in inode_bitmap
                                  /\ c.size = Len(content[f])
                                  /\ \A k \in 0 .. c.size - 1 :
                                        Word(blockmap(c, k \div BlockSize), k % BlockSize)
                                           = content[f][k + 1]
                                  /\ \A r \in Refs(c, c.size_blocks) : r[3] \in block_bitmap
  <2> DEFINE n == namei(owner[f], f)
             c == iget(n)
             d == dinode[n]
  <2>1. n = NameiIn(dir[owner[f]], dirsize[owner[f]], f)
    BY NameiIs
  <2>2. /\ c.direct = d.direct /\ c.indirect = d.indirect /\ c.size = d.size
        /\ c.double_indirect = d.double_indirect /\ c.size_blocks = BlocksOf(d.size)
    BY DEF iget
  <2>3. Refs(c, c.size_blocks) = Stored(store, d)
    BY RefsStored
  <2> HIDE DEF c
  <2>4. \A k : Word(blockmap(c, k \div BlockSize), k % BlockSize) = WordAt(store, c, k)
    BY DEF Word, blockmap, WordAt, WordIn, MapIn
  <2>5. \A k : Word(blockmap(c, k \div BlockSize), k % BlockSize) = WordAt(store, d, k)
    BY <2>2, <2>4, WordsSame
  <2> HIDE DEF n
  <2>6. Lasts(f) <=> IF content[f] = Absent THEN n = 0
                     ELSE /\ n \in inode_bitmap /\ d.size = Len(content[f])
                          /\ \A k \in 0 .. d.size - 1 : WordAt(store, d, k) = content[f][k + 1]
                          /\ \A r \in Stored(store, d) : r[3] \in block_bitmap
    BY <2>1 DEF Lasts
  <2> HIDE DEF d
  <2>7. Lasts(f) <=> IF content[f] = Absent THEN n = 0
                     ELSE /\ n \in inode_bitmap
                          /\ c.size = Len(content[f])
                          /\ \A k \in 0 .. c.size - 1 :
                                Word(blockmap(c, k \div BlockSize), k % BlockSize)
                                   = content[f][k + 1]
                          /\ \A r \in Refs(c, c.size_blocks) : r[3] \in block_bitmap
    BY <2>2, <2>3, <2>5, <2>6
  <2> QED BY <2>7 DEF n, c
<1> QED BY <1>1 DEF Durable, Quiet

LEMMA DurableNext == Durable' <=> \A f \in File : Quiet(f)' => Lasts(f)'
<1>1. (Durable <=> \A f \in File : Quiet(f) => Lasts(f))'
  BY DurableIs, PTL
<1> QED BY <1>1

\* While the machine is up, a file that no call is busy with is as it was left.
LEMMA LastsUp ==
    ASSUME IInv, Up, Content, NEW f \in File, file[owner[f]] # f \/ ~Busy(owner[f])
    PROVE  Lasts(f)
<1>1. PICK t, n : t = owner[f] /\ n = namei(t, f)
  OBVIOUS
<1>2. /\ t \in Thread /\ f \in FilesOf(t) /\ pc[t] \notin Down /\ f # 0
  BY <1>1, OwnerIs, FilesAre DEF Up, Down
<1>3. /\ TypeOK /\ DirInv(t) /\ SizeInv(t) /\ NumInv /\ BlocksDisjoint
  BY <1>2, UpHas
<1>4. CASE n = 0
  <2>1. file[t] # f
    <3> SUFFICES ASSUME file[t] = f PROVE FALSE
      OBVIOUS
    <3>1. pc[t] # "idle"
      BY <1>2, <1>3 DEF DirInv
    <3>2. pc[t] \in Using
      BY <3>1, <1>1, <1>2, <1>3 DEF Busy, DirInv, Phase, Making, Using, Down
    <3>3. namei(t, file[t]) = ino[t].num /\ ino[t].num \in Inode
      BY <3>2, <1>2, InUseNamed
    <3>4. 0 \notin Inode
      BY DEF Inode
    <3> QED BY <3>3, <3>4, <1>1, <1>4
  <2>2. content[f] = Absent
    BY <2>1, <1>1, <1>4 DEF Content, ContentInv
  <2> QED BY <2>2, <1>1, <1>4, NameiIs DEF Lasts
<1>5. CASE n # 0
  <2>1. PICK d : d = dinode[n]
    OBVIOUS
  <2>2. Reads(content[f], store, d) /\ n \in inode_bitmap /\ Stored(store, d) \subseteq Owned(f)
    <3>1. CASE file[t] # f
      <4>1. n \in Inode /\ Has(t, n)
        BY <3>1, <1>1, <1>2, <1>3, <1>5, NamedHas
      <4>2. Owned(f) = Stored(store, d)
        BY <3>1, <2>1, <1>1, <1>5, OwnedIs
      <4>3. Reads(content[f], store, d)
        BY <3>1, <2>1, <1>1, <1>5 DEF Content, ContentInv
      <4> QED BY <4>1, <4>2, <4>3, <1>2, <1>3 DEF NumInv
    <3>2. CASE file[t] = f
      <4>1. pc[t] # "idle"
        BY <3>2, <1>2, <1>3 DEF DirInv
      <4>2. pc[t] \in {"open", "emptied"}
        BY <3>2, <4>1, <1>1, <1>2 DEF Busy, Down
      <4>3. pc[t] \in Using \ {"entry"}
        BY <4>2 DEF Using
      <4>4. n = ino[t].num /\ Has(t, n) /\ n \in Inode
        BY <4>3, <3>2, <1>1, <1>2, <1>3, InUseNamed, UsingHas
      <4>5. Reads(content[f], store, d)
        BY <4>2, <4>4, <3>2, <2>1, <1>2, LeftAs
      <4>6. Stored(store, d) \subseteq Owned(f)
        <5>1. CASE pc[t] = "emptied"
          <6>1. d.size = 0
            BY <5>1, <4>4, <2>1, <1>2, <1>3 DEF NumInv
          <6>2. BlocksOf(d.size) = 0
            BY <6>1, BlocksOfIs
          <6> QED BY <6>2, RefsNone DEF Stored
        <5>2. CASE pc[t] = "open"
          <6>1. PICK c : c = ino[t]
            OBVIOUS
          <6>2. /\ d = OnDisk(c) /\ c.size_blocks \in Nat /\ c.size \in Nat
                /\ c.size <= c.size_blocks * BlockSize
            BY <5>2, <6>1, <4>4, <2>1, <1>2, <1>3 DEF SizeInv, TypeOK, Copy
          <6>3. /\ d.direct = c.direct /\ d.indirect = c.indirect
                /\ d.double_indirect = c.double_indirect /\ d.size = c.size
            BY <6>2 DEF OnDisk
          <6>4. BlocksOf(d.size) \in Nat /\ BlocksOf(d.size) <= c.size_blocks
            BY <6>2, <6>3, BlocksOfLeast, BlocksOfIs
          <6>5. Stored(store, d) \subseteq RefsIn(store, d, c.size_blocks)
            BY <6>2, <6>4, RefsMono DEF Stored
          <6>6. RefsIn(store, d, c.size_blocks) = RefsIn(store, c, c.size_blocks)
            BY <6>3, RefsSame
          <6>7. Owned(f) = Holding(store, pc[t], c, blk[t], arg[t])
            BY <6>1, <3>2, <1>2, <1>3, InUse
          <6> QED BY <6>5, <6>6, <6>7, <5>2 DEF Holding
        <5> QED BY <5>1, <5>2, <4>2
      <4> QED BY <4>4, <4>5, <4>6, <1>2, <1>3 DEF NumInv
    <3> QED BY <3>1, <3>2
  <2>3. \A r \in Stored(store, d) : r[3] \in block_bitmap
    BY <2>2, <1>3 DEF BlocksDisjoint
  <2>4. content[f] # Absent
    <3>1. content[f] \in Seq(Nat)
      BY <2>2 DEF Reads
    <3>2. Absent \notin Seq(Nat)
      <4> SUFFICES ASSUME Absent \in Seq(Nat) PROVE FALSE
        OBVIOUS
      <4>1. Len(Absent) = 1 /\ Absent[1] = -1
        BY DEF Absent
      <4>2. Absent[1] \in Nat
        BY <4>1
      <4> QED BY <4>1, <4>2
    <3> QED BY <3>1, <3>2
  <2>5. n = NameiIn(dir[t], dirsize[t], f)
    BY <1>1, NameiIs
  <2> QED BY <2>1, <2>2, <2>3, <2>4, <2>5, <1>1 DEF Lasts, Reads
<1> QED BY <1>4, <1>5

\* A block that an inode in use refers to is counted by minifile_fsck; it is counted finitely
\* often, as an inode refers to so many places at most.
LEMMA Places ==
    ASSUME TypeOK, \A i \in Inode : dinode[i].size <= Capacity, NEW n \in Inode,
           NEW r \in Stored(store, dinode[n])
    PROVE  /\ r[1] \in {"data", "indirect", "double", "second"}
           /\ r[2] \in (0 .. Capacity) \cup Offset
           /\ r = <<r[1], r[2], r[3]>>
<1>1. PICK d, k : d = dinode[n] /\ k = BlocksOf(d.size)
  OBVIOUS
<1>2. d.size \in Nat /\ k \in Nat /\ k <= Capacity /\ Capacity \in Nat
  <2>1. d.size \in Nat /\ d.size <= Capacity
    BY <1>1 DEF TypeOK, DiskInode
  <2> QED BY <2>1, <1>1, BlocksOfIs, Constants
<1>3. r \in RefsIn(store, d, k)
  BY <1>1 DEF Stored
<1>4. CASE \E j \in 0 .. k - 1 : r = <<"data", j, MapIn(store, d, j)>>
  BY <1>2, <1>4
<1>5. CASE r = <<"indirect", 0, d.indirect>> \/ r = <<"double", 0, d.double_indirect>>
  BY <1>2, <1>5
<1>6. CASE \E j \in FirstDouble .. k - 1 :
              r = <<"second", DoubleOffset(j), WordIn(store, d.double_indirect, DoubleOffset(j))>>
  <2>1. PICK j \in FirstDouble .. k - 1 :
              r = <<"second", DoubleOffset(j), WordIn(store, d.double_indirect, DoubleOffset(j))>>
    BY <1>6
  <2>2. j \in Nat /\ j >= FirstDouble /\ j < Capacity
    BY <1>2, Constants
  <2>3. DoubleOffset(j) \in Offset
    BY <2>2, Offsets
  <2> QED BY <2>1, <2>3
<1> QED BY <1>3, <1>4, <1>5, <1>6 DEF RefsIn, PointersIn

LEMMA UsesCounts ==
    ASSUME TypeOK, \A i \in Inode : dinode[i].size <= Capacity, NEW n \in inode_bitmap,
           NEW r \in Stored(store, dinode[n])
    PROVE  Uses(r[3]) > 0
<1> DEFINE b == r[3]
           U == {x \in AllRefs : x[2][3] = b}
           Tag == {"data", "indirect", "double", "second"}
           At == (0 .. Capacity) \cup Offset
           T == Inode \X (Tag \X At)
           g == [x \in U |-> <<x[1], <<x[2][1], x[2][2]>> >>]
<1>1. \A x : x \in AllRefs <=> \E i \in inode_bitmap : x \in {i} \X Stored(store, dinode[i])
  BY RefsStored DEF AllRefs
<1>2. inode_bitmap \subseteq Inode
  BY DEF TypeOK
<1>3. ASSUME NEW x \in U
      PROVE  /\ x[1] \in Inode /\ x[2][1] \in Tag /\ x[2][2] \in At
             /\ x = <<x[1], <<x[2][1], x[2][2], b>> >>
  <2>1. PICK i \in inode_bitmap : x \in {i} \X Stored(store, dinode[i])
    BY <1>1
  <2>2. x = <<x[1], x[2]>> /\ x[1] \in Inode /\ x[2] \in Stored(store, dinode[i]) /\ i \in Inode
    BY <2>1, <1>2
  <2>3. PICK s : s = x[2]
    OBVIOUS
  <2>4. /\ s[1] \in Tag /\ s[2] \in At /\ s = <<s[1], s[2], s[3]>> /\ s[3] = b
    BY <2>2, <2>3, Places
  <2> QED BY <2>2, <2>3, <2>4
<1>4. IsFiniteSet(T)
  <2>1. IsFiniteSet(Inode) /\ IsFiniteSet(0 .. Capacity) /\ IsFiniteSet(0 .. BlockSize - 1)
    BY Constants, FS_Interval DEF Inode
  <2>2. IsFiniteSet(At)
    BY <2>1, FS_Union DEF Offset
  <2>3. IsFiniteSet(Tag)
    <3>1. IsFiniteSet({"data"}) /\ IsFiniteSet({"indirect"}) /\ IsFiniteSet({"double"})
          /\ IsFiniteSet({"second"})
      BY FS_Singleton
    <3>2. IsFiniteSet({"data"} \cup {"indirect"}) /\ IsFiniteSet({"double"} \cup {"second"})
      BY <3>1, FS_Union
    <3>3. IsFiniteSet(({"data"} \cup {"indirect"}) \cup ({"double"} \cup {"second"}))
      BY <3>2, FS_Union
    <3>4. Tag = ({"data"} \cup {"indirect"}) \cup ({"double"} \cup {"second"})
      OBVIOUS
    <3> QED BY <3>3, <3>4
  <2> HIDE DEF Tag, At
  <2>4. IsFiniteSet(Tag \X At)
    BY <2>2, <2>3, FS_Product
  <2> QED BY <2>1, <2>4, FS_Product
<1> HIDE DEF U, Tag, At, b
<1>5. g \in Injection(U, T)
  <2>1. \A x \in U : g[x] = <<x[1], <<x[2][1], x[2][2]>> >>
    OBVIOUS
  <2>2. g \in [U -> T]
    BY <1>3
  <2>3. ASSUME NEW x \in U, NEW y \in U, g[x] = g[y]
        PROVE  x = y
    <3>1. x[1] = y[1] /\ x[2][1] = y[2][1] /\ x[2][2] = y[2][2]
      BY <2>1, <2>3
    <3> QED BY <3>1, <1>3
  <2> HIDE DEF g, T
  <2> QED BY <2>2, <2>3 DEF Injection, IsInjective
<1>6. IsFiniteSet(U)
  BY <1>4, <1>5, FS_Injection
<1>7. <<n, r>> \in U
  BY <1>1 DEF U, b
<1>8. Cardinality(U) \in Nat /\ Cardinality(U) # 0
  BY <1>6, <1>7, FS_CardinalityType, FS_EmptySet
<1>9. Uses(b) = Cardinality(U)
  BY DEF Uses, U
<1> QED BY <1>8, <1>9 DEF b

\* The machine stops: nothing changes on the disk, and the files that calls were busy with
\* are torn.
LEMMA StopLasts ==
    ASSUME IInv, Content, Stop
    PROVE  Durable'
<1>1. /\ Up /\ torn' = {file[t] : t \in {u \in Thread : Busy(u)}}
      /\ UNCHANGED <<diskVars, content>>
  BY DEF Stop
<1> SUFFICES ASSUME NEW f \in File, Quiet(f)' PROVE Lasts(f)'
  BY DurableNext
<1>2. file[owner[f]] # f \/ ~Busy(owner[f])
  <2>1. f \notin torn' /\ owner[f] \in Thread
    BY OwnerIs DEF Quiet
  <2> QED BY <2>1, <1>1
<1>3. Lasts(f)
  BY <1>1, <1>2, LastsUp
<1> QED BY <1>1, <1>3 DEF Lasts, diskVars, blockVars, dirVars

\* minifile_fsck leaves the bit of every block that a file refers to.
LEMMA FsckLasts ==
    ASSUME IInv, Durable, minifile_fsck
    PROVE  Durable'
<1>1. /\ \A t \in Thread : pc[t] = "stopped"
      /\ block_bitmap' = {b \in Block : IF b \in block_bitmap THEN Uses(b) > 0 ELSE Uses(b) = 1}
      /\ UNCHANGED <<inode_bitmap, dinode, store, dirVars, content, torn>>
  BY DEF minifile_fsck
<1>2. TypeOK /\ \A i \in Inode : dinode[i].size <= Capacity
  BY DEF IInv
<1> SUFFICES ASSUME NEW f \in File, Quiet(f)' PROVE Lasts(f)'
  BY DurableNext
<1>3. Quiet(f)
  <2>1. f \notin torn /\ owner[f] \in Thread
    BY <1>1, OwnerIs DEF Quiet
  <2> QED BY <2>1, <1>1 DEF Quiet, Busy
<1>4. Lasts(f)
  BY <1>3, DurableIs
<1>5. PICK n, d : n = NameiIn(dir[owner[f]], dirsize[owner[f]], f) /\ d = dinode[n]
  OBVIOUS
<1>6. CASE content[f] = Absent
  BY <1>1, <1>4, <1>6 DEF Lasts, dirVars
<1>7. CASE content[f] # Absent
  <2>1. n \in inode_bitmap /\ \A r \in Stored(store, d) : r[3] \in block_bitmap
    BY <1>4, <1>5, <1>7 DEF Lasts
  <2>2. \A r \in Stored(store, d) : r[3] \in block_bitmap'
    <3> SUFFICES ASSUME NEW r \in Stored(store, d) PROVE r[3] \in block_bitmap'
      OBVIOUS
    <3>1. Uses(r[3]) > 0
      BY <2>1, <1>2, <1>5, UsesCounts
    <3>2. r[3] \in block_bitmap /\ r[3] \in Block
      BY <2>1, <1>2 DEF TypeOK
    <3> QED BY <3>1, <3>2, <1>1
  <2> QED BY <2>2, <1>1, <1>4, <1>5 DEF Lasts, dirVars
<1> QED BY <1>6, <1>7

\* The words of the files while the machine is up, and what is left of them after.
CInv == /\ IInv
        /\ Up => Content
        /\ ~Up => Durable

LEMMA InitContent ==
    ASSUME Init
    PROVE  CInv
<1>1. IInv
  BY InitInv
<1>2. /\ dirsize = [t \in Thread |-> 0] /\ file = [t \in Thread |-> 0]
      /\ pc = [t \in Thread |-> "idle"] /\ content = [f \in File |-> Absent]
  BY DEF Init
<1>3. Up
  BY <1>2 DEF Up
<1>4. ASSUME NEW f \in File
      PROVE  ContentInv(f)
  <2>1. owner[f] \in Thread /\ f # 0
    BY OwnerIs DEF File
  <2>2. \A x \in 1 .. 0 : dir[owner[f]][x].name # f
    OBVIOUS
  <2>3. namei(owner[f], f) = 0
    BY <2>1, <2>2, <1>2, NameiNone, NameiIs
  <2> QED BY <2>1, <2>3, <1>2 DEF ContentInv
<1> QED BY <1>1, <1>3, <1>4 DEF CInv, Content

\* The steps of a thread.
Acts(t) ==
    \/ \E f \in File : /\ owner[f] = t
                       /\ Creat(t, f) \/ Open(t, f) \/ OpenEmptied(t, f) \/ Unlink(t, f)
    \/ \E len \in 1 .. BlockSize : /\ len <= BlockSize - (cursor[t] % BlockSize)
                                   /\ cursor[t] + len <= MaxSize[file[t]]
                                   /\ WriteOver(t, len) \/ WriteAtEnd(t, len)
    \/ iadd_to_dir(t) \/ GrowParent(t) \/ NewInode(t) \/ Close(t)
    \/ DiskFull(t) \/ iadd_block(t) \/ WriteData(t) \/ UpdateSize(t)
    \/ FreeData(t) \/ free_all_indirect(t) \/ ZeroInode(t) \/ ifree(t)
    \/ idelete_from_dir(t) \/ ShrinkParent(t)

LEMMA ThreadContent ==
    ASSUME IInv, Content, NEW t \in Thread, Acts(t)
    PROVE  Content'
<1>1. ASSUME NEW f \in File, owner[f] = t,
             Creat(t, f) \/ Open(t, f) \/ OpenEmptied(t, f) \/ Unlink(t, f)
      PROVE  Content'
  <2>0. f \in FilesOf(t)
    BY <1>1 DEF FilesOf
  <2>1. CASE Creat(t, f)
    BY <2>0, <2>1, CreatContent
  <2>2. CASE Open(t, f)
    BY <2>0, <2>2, OpenContent
  <2>3. CASE OpenEmptied(t, f)
    <3>1. Clear(t, f, "UNCHANGED")
      BY <2>3 DEF OpenEmptied
    <3> QED BY <2>0, <3>1, ClearContent
  <2>4. CASE Unlink(t, f)
    <3>1. Clear(t, f, "TO_DELETE")
      BY <2>4 DEF Unlink
    <3> QED BY <2>0, <3>1, ClearContent
  <2> QED BY <1>1, <2>1, <2>2, <2>3, <2>4
<1>2. ASSUME NEW len \in 1 .. BlockSize,
             len <= BlockSize - (cursor[t] % BlockSize), cursor[t] + len <= MaxSize[file[t]],
             WriteOver(t, len) \/ WriteAtEnd(t, len)
      PROVE  Content'
  BY <1>2, WriteOverContent, WriteAtEndContent
<1>3. CASE NewInode(t) \/ Close(t) \/ DiskFull(t) \/ iadd_block(t)
  BY <1>3, NewInodeContent, CloseContent, DiskFullContent, IaddBlockContent
<1>4. CASE WriteData(t) \/ UpdateSize(t) \/ ZeroInode(t) \/ ShrinkParent(t)
  BY <1>4, WriteDataContent, UpdateSizeContent, ZeroInodeContent, ShrinkParentContent
<1>5. CASE iadd_to_dir(t) \/ GrowParent(t) \/ FreeData(t) \/ free_all_indirect(t) \/ ifree(t)
              \/ idelete_from_dir(t)
  BY <1>5, BusyContent
<1> QED BY <1>1, <1>2, <1>3, <1>4, <1>5 DEF Acts

\* A thread acts only while the machine is up, and does not stop it.
LEMMA ThreadUp ==
    ASSUME IInv, NEW t \in Thread, Acts(t)
    PROVE  Up /\ Up'
<1>1. pc[t] \notin Down /\ (pc' = pc \/ \E p \in Phase \ Down : pc' = [pc EXCEPT ![t] = p])
  <2> USE DEF Phase, Down, Making, Using
  <2>1. CASE \E f \in File : Creat(t, f) \/ Open(t, f)
    BY <2>1 DEF Creat, Open, Goto
  <2>2. ASSUME NEW f, NEW s, Clear(t, f, s)
        PROVE  pc[t] = "idle" /\ \E p \in Phase \ Down : pc' = [pc EXCEPT ![t] = p]
    <3>1. PICK p : p = IF iget(namei(t, f)).size > 0 THEN "free"
                       ELSE IF s = "TO_DELETE" THEN "ifree" ELSE "open"
      OBVIOUS
    <3>2. pc[t] = "idle" /\ pc' = [pc EXCEPT ![t] = p]
      <4>1. [iget(namei(t, f)) EXCEPT !.status = s].size = iget(namei(t, f)).size
        BY DEF iget
      <4> QED BY <2>2, <3>1, <4>1 DEF Clear, Set
    <3> QED BY <3>1, <3>2
  <2>3. CASE \E f \in File : OpenEmptied(t, f) \/ Unlink(t, f)
    BY <2>2, <2>3 DEF OpenEmptied, Unlink
  <2>4. CASE \E len \in 1 .. BlockSize : WriteOver(t, len) \/ WriteAtEnd(t, len)
    BY <2>4 DEF WriteOver, WriteAtEnd, Goto
  <2>5. CASE iadd_to_dir(t) \/ GrowParent(t) \/ NewInode(t) \/ Close(t)
    BY <2>5 DEF iadd_to_dir, GrowParent, NewInode, Close, Goto, Set
  <2>6. CASE DiskFull(t) \/ FreeData(t)
    BY <2>6 DEF DiskFull, FreeData, threadVars
  <2>7. CASE iadd_block(t) \/ WriteData(t) \/ UpdateSize(t) \/ free_all_indirect(t)
    BY <2>7 DEF iadd_block, WriteData, UpdateSize, free_all_indirect, Goto
  <2>8. CASE ZeroInode(t)
    BY <2>8 DEF ZeroInode, Goto
  <2>9. CASE ifree(t) \/ idelete_from_dir(t) \/ ShrinkParent(t)
    BY <2>9 DEF ifree, idelete_from_dir, ShrinkParent, Goto
  <2> QED BY <2>1, <2>3, <2>4, <2>5, <2>6, <2>7, <2>8, <2>9 DEF Acts
<1>2. Up /\ TypeOK
  BY <1>1, UpHas
<1>3. \A u \in Thread : pc'[u] \notin Down
  BY <1>1, <1>2 DEF Up, Down, TypeOK
<1> QED BY <1>2, <1>3 DEF Up, Down

LEMMA NextContent ==
    ASSUME CInv, [Next]_vars
    PROVE  CInv'
<1>1. IInv /\ IInv' /\ (Up => Content) /\ (~Up => Durable)
  BY NextKeeps DEF CInv
<1>2. CASE \E t \in Thread : Acts(t)
  BY <1>1, <1>2, ThreadContent, ThreadUp DEF CInv
<1>3. CASE Stop
  <2>1. Up /\ \A t \in Thread : pc'[t] = "stopped"
    BY <1>3 DEF Stop
  <2>2. ~Up'
    BY <2>1, ThreadExists DEF Up
  <2> QED BY <1>1, <1>3, <2>1, <2>2, StopLasts DEF CInv
<1>4. CASE minifile_fsck
  <2>1. \A t \in Thread : pc[t] = "stopped" /\ pc'[t] = "repaired"
    BY <1>4 DEF minifile_fsck
  <2>2. ~Up /\ ~Up'
    BY <2>1, ThreadExists DEF Up
  <2> QED BY <1>1, <1>4, <2>2, FsckLasts DEF CInv
<1>5. CASE UNCHANGED vars
  <2>1. Up' <=> Up
    BY <1>5 DEF Up, vars, threadVars
  <2>2. Durable => Durable'
    <3>1. \A f \in File : (Quiet(f)' <=> Quiet(f)) /\ (Lasts(f)' <=> Lasts(f))
      BY <1>5 DEF Quiet, Busy, Lasts, vars, threadVars, diskVars, blockVars, dirVars
    <3> QED BY <3>1, DurableIs, DurableNext
  <2> QED BY <1>1, <1>5, <2>1, <2>2, StutterContent DEF CInv
<1>6. Next => (\E t \in Thread : Acts(t)) \/ Stop \/ minifile_fsck
  BY DEF Next, Acts
<1> QED BY <1>2, <1>3, <1>4, <1>5, <1>6

\* What a call has written is found again when the call has returned: also when the machine
\* stops in the middle of the calls of other threads, whatever these are, and after
\* minifile_fsck; creat, write, iclear and unlink order their writes for that.
THEOREM Durability == Spec => []Durable
<1>1. Init => CInv
  BY InitContent
<1>2. CInv /\ [Next]_vars => CInv'
  BY NextContent
<1>3. CInv => Durable
  <2>1. ASSUME CInv, Up PROVE Durable
    BY <2>1, LastsUp, DurableIs DEF CInv, Quiet
  <2> QED BY <2>1 DEF CInv
<1> QED BY <1>1, <1>2, <1>3, PTL DEF Spec
=============================================================================
