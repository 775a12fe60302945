------------------------------- MODULE Files -------------------------------
(***************************************************************************)
(* minifile.c, minifile_inode.c, minifile_fs.c: threads create, append to, *)
(* overwrite, close, empty and unlink files; the machine may stop before   *)
(* any write to the disk, and is then mounted again (fs_init) and repaired *)
(* (minifile_fsck), after which the model ends.                            *)
(*                                                                         *)
(* iget never finds an inode in memory (itable_put_table does not store    *)
(* it), so that every call works on a copy of its own.  The code is then   *)
(* only safe, and this module only used, if one thread at a time uses a    *)
(* file and its directory, through one handle; what threads share is the   *)
(* two bitmaps.  A step ends at each write to the disk and each call that  *)
(* takes fs_lock, except that the blocks of pointers are allocated and     *)
(* written in one step: until iupdate nothing on the disk leads to them.   *)
(* A directory has one block, apart from the data blocks (iadd_to_dir      *)
(* loses the entries of a second one), and "." and ".." are left out.      *)
(***************************************************************************)
EXTENDS Integers, Sequences, FiniteSets, FiniteSetsExt

CONSTANTS Thread,
          NFiles, owner,   \* the files, and the thread that uses each
          NInodes,
          NBlocks,         \* data blocks; 0 is one of the file system's own
          BlockSize,       \* DISK_BLOCK_SIZE, in words of a pointer each
          INODE_DIRECT_BLOCKS,
          MaxSize,         \* bounds: the size of each file, in words,
          MaxCalls         \* and how often each thread creates, opens or unlinks

File == 1 .. NFiles
Inode == 1 .. NInodes
Block == 1 .. NBlocks
Offset == 0 .. BlockSize - 1
INODE_INDIRECT_BLOCKS == BlockSize       \* pointers of 8 bytes
INODE_DOUBLE_BLOCKS == BlockSize * BlockSize

ASSUME FilesAssumption ==
    /\ {NFiles, NInodes, NBlocks, BlockSize, INODE_DIRECT_BLOCKS} \subseteq Nat \ {0}
    /\ owner \in [File -> Thread]
    /\ MaxSize \in [File -> 0 .. INODE_DIRECT_BLOCKS + INODE_INDIRECT_BLOCKS + INODE_DOUBLE_BLOCKS]
    /\ MaxCalls \in [Thread -> Nat]

FilesOf(t) == {f \in File : owner[f] = t}
\* What word k of a file contains: version 1 when it is appended, 2 when overwritten.
Datum(f, k, v) == NBlocks + (f * 100 + k) * 2 + v

VARIABLES
    block_bitmap, inode_bitmap,   \* the bits that are 1, in memory and on the disk
    free_blocks,
    dinode,      \* the inodes on the disk
    store,       \* the words of the blocks on the disk
    dir,         \* the entries of each thread's directory on the disk
    dirsize,     \* and its size in its inode
    pc, file,    \* what a thread does, and its file
    ino,         \* its copy of the inode
    cursor,      \* byte_cursor of its handle
    blk, arg,    \* the block just allocated; the length of a write or a loop counter
    content,     \* the words of each file as of its last call that ended, or Absent
    calls,       \* how often a thread created, opened or unlinked a file
    torn         \* the files that a call was busy with when the machine stopped

blockVars == <<block_bitmap, free_blocks>>
dirVars == <<dir, dirsize>>
diskVars == <<blockVars, inode_bitmap, dinode, store, dirVars>>
threadVars == <<pc, file, ino, cursor, blk, arg>>
vars == <<diskVars, threadVars, content, calls, torn>>

Absent == << -1 >>

(***************************************************************************)
(* Inodes (minifile_inode.c)                                               *)
(***************************************************************************)
NoDirect == [k \in 0 .. INODE_DIRECT_BLOCKS - 1 |-> 0]
EmptyInode == [size |-> 0, direct |-> NoDirect, indirect |-> 0, double_indirect |-> 0]
NoCopy == [num |-> 0, size_blocks |-> 0, status |-> "UNCHANGED",
           size |-> 0, direct |-> NoDirect, indirect |-> 0, double_indirect |-> 0]
OnDisk(c) == [size |-> c.size, direct |-> c.direct, indirect |-> c.indirect,
              double_indirect |-> c.double_indirect]
\* Mutant of BlocksOf: one block more than needed if the last one is full.
BlocksOfRoundedUp(size) == (size \div BlockSize) + 1
BlocksOf(size) == (size + BlockSize - 1) \div BlockSize

iget(n) ==
    LET d == dinode[n]
    IN [num |-> n, size_blocks |-> BlocksOf(d.size), status |-> "UNCHANGED",
        size |-> d.size, direct |-> d.direct, indirect |-> d.indirect,
        double_indirect |-> d.double_indirect]
\* size_blocks stays as it was
izero(c) == [NoCopy EXCEPT !.num = c.num, !.size_blocks = c.size_blocks, !.status = c.status]
iupdate(c) == dinode' = [dinode EXCEPT ![c.num] = OnDisk(c)]

FirstDouble == INODE_DIRECT_BLOCKS + INODE_INDIRECT_BLOCKS
DoubleOffset(k) == (k - FirstDouble) \div INODE_INDIRECT_BLOCKS
SingleOffset(k) == (k - FirstDouble) % INODE_INDIRECT_BLOCKS

Word(b, w) == IF b \in Block THEN store[b][w] ELSE 0
blockmap(c, k) ==
    IF k < INODE_DIRECT_BLOCKS THEN c.direct[k]
    ELSE IF k < FirstDouble THEN Word(c.indirect, k - INODE_DIRECT_BLOCKS)
    ELSE Word(Word(c.double_indirect, DoubleOffset(k)), SingleOffset(k))

\* iset_used_indirect: where an inode with n data blocks refers to blocks of pointers.
PointerRefs(c, n) ==
    {<<"indirect", 0, c.indirect>> : k \in {INODE_DIRECT_BLOCKS} \cap 0 .. n - 1}
        \cup {<<"double", 0, c.double_indirect>> : k \in {FirstDouble} \cap 0 .. n - 1}
        \cup {<<"second", DoubleOffset(k), Word(c.double_indirect, DoubleOffset(k))>>
                : k \in FirstDouble .. n - 1}
Refs(c, n) == {<<"data", k, blockmap(c, k)>> : k \in 0 .. n - 1} \cup PointerRefs(c, n)

(***************************************************************************)
(* Bitmaps (minifile_fs.c)                                                 *)
(***************************************************************************)
Free == Block \ block_bitmap
Lowest(n) == CHOOSE S \in SUBSET Free :
                 Cardinality(S) = n /\ \A b \in S, c \in Free \ S : b < c
\* n calls of balloc, which take the lowest blocks; S is what they return.
balloc(S) == /\ block_bitmap' = block_bitmap \cup S
             /\ free_blocks' = free_blocks - Cardinality(S)
\* Mutant of bfree: free_blocks is not incremented.
bfreeUncounted(S) ==
    block_bitmap' = block_bitmap \ S /\ UNCHANGED free_blocks
bfree(S) == /\ block_bitmap' = block_bitmap \ S
            /\ free_blocks' = free_blocks + Cardinality(S \cap block_bitmap)

(***************************************************************************)
(* Directories: the first entry with a name, or with an inode number       *)
(***************************************************************************)
Entries(t) == 1 .. dirsize[t]
namei(t, f) == LET found == {e \in Entries(t) : dir[t][e].name = f}
               IN IF found = {} THEN 0 ELSE dir[t][Min(found)].inum

Init ==
    /\ block_bitmap = {} /\ inode_bitmap = {} /\ free_blocks = NBlocks
    /\ dinode = [n \in Inode |-> EmptyInode]
    /\ store = [b \in Block |-> [w \in Offset |-> 0]]
    /\ dir = [t \in Thread |-> [e \in 1 .. Cardinality(FilesOf(t)) |-> [name |-> 0, inum |-> 0]]]
    /\ dirsize = [t \in Thread |-> 0]
    /\ pc = [t \in Thread |-> "idle"] /\ file = [t \in Thread |-> 0]
    /\ ino = [t \in Thread |-> NoCopy]
    /\ cursor = [t \in Thread |-> 0] /\ blk = cursor /\ arg = cursor
    /\ calls = cursor /\ content = [f \in File |-> Absent] /\ torn = {}

Goto(t, from, to) == pc[t] = from /\ pc' = [pc EXCEPT ![t] = to]
Set(var, t, val) == [var EXCEPT ![t] = val]
Called(t) == calls[t] < MaxCalls[t] /\ calls' = Set(calls, t, calls[t] + 1)
EndsAs(t, words) == content' = [content EXCEPT ![file[t]] = words]

(***************************************************************************)
(* minifile_creat of a new file                                            *)
(***************************************************************************)
Creat(t, f) ==                          \* namei, ialloc (whose failure is not noticed)
    /\ Goto(t, "idle", "new entry") /\ namei(t, f) = 0
    /\ inode_bitmap # Inode
    /\ LET n == Min(Inode \ inode_bitmap)
       IN /\ inode_bitmap' = inode_bitmap \cup {n}
          /\ ino' = Set(ino, t, [NoCopy EXCEPT !.num = n])
    /\ file' = Set(file, t, f)
    /\ Called(t)
    /\ UNCHANGED <<blockVars, dinode, store, dirVars, cursor, blk, arg, content, torn>>

iadd_to_dir(t) ==
    /\ Goto(t, "new entry", "new parent")
    /\ dir' = [dir EXCEPT ![t][dirsize[t] + 1] = [name |-> file[t], inum |-> ino[t].num]]
    /\ UNCHANGED <<blockVars, inode_bitmap, dinode, store, dirsize, file, ino, cursor, blk,
                   arg, content, calls, torn>>

GrowParent(t) ==
    /\ Goto(t, "new parent", "new inode")
    /\ dirsize' = Set(dirsize, t, dirsize[t] + 1)
    /\ UNCHANGED <<blockVars, inode_bitmap, dinode, store, dir, file, ino, cursor, blk, arg,
                   content, calls, torn>>

NewInode(t) ==
    /\ Goto(t, "new inode", "open")
    /\ LET c == izero(iget(ino[t].num)) IN iupdate(c) /\ ino' = Set(ino, t, c)
    /\ cursor' = Set(cursor, t, 0)
    /\ EndsAs(t, << >>)
    /\ UNCHANGED <<blockVars, inode_bitmap, store, dirVars, file, blk, arg, calls, torn>>

(***************************************************************************)
(* minifile_open of a file that exists, in mode "r+" or "a"; minifile_close *)
(***************************************************************************)
Open(t, f) ==
    /\ Goto(t, "idle", "open") /\ namei(t, f) # 0
    /\ LET c == iget(namei(t, f))
       IN /\ ino' = Set(ino, t, c)
          /\ \E at \in {0, c.size} : cursor' = Set(cursor, t, at)
    /\ file' = Set(file, t, f)
    /\ Called(t)
    /\ UNCHANGED <<diskVars, blk, arg, content, torn>>

Close(t) ==                             \* iput
    /\ pc[t] \in {"open", "emptied"}
    /\ pc' = Set(pc, t, "idle") /\ file' = Set(file, t, 0)
    /\ ino' = Set(ino, t, NoCopy) /\ cursor' = Set(cursor, t, 0)
    /\ UNCHANGED <<diskVars, blk, arg, content, calls, torn>>

(***************************************************************************)
(* minifile_write of words that lie in one block: a longer one repeats it  *)
(***************************************************************************)
AtEnd(t) == ino[t].size <= cursor[t]

WriteOver(t, len) ==                        \* over what is there
    /\ Goto(t, "open", "data") /\ ~AtEnd(t)
    /\ arg' = Set(arg, t, len)
    /\ UNCHANGED <<diskVars, file, ino, cursor, blk, content, calls, torn>>

WriteAtEnd(t, len) ==                       \* a block for each call, needed or not
    /\ Goto(t, "open", "add") /\ AtEnd(t) /\ Free # {}
    /\ LET S == Lowest(1) IN balloc(S) /\ blk' = Set(blk, t, Min(S))
    /\ arg' = Set(arg, t, len)
    /\ UNCHANGED <<inode_bitmap, dinode, store, dirVars, file, ino, cursor, content, calls,
                   torn>>

DiskFull(t) ==
    /\ pc[t] = "open" /\ AtEnd(t) /\ free_blocks = 0
    /\ iupdate(ino[t])
    /\ UNCHANGED <<blockVars, inode_bitmap, store, dirVars, threadVars, content, calls,
                   torn>>

\* iadd_block; no balloc of a block of pointers may fail, as nobody looks.
NewPointers(k) == IF k = INODE_DIRECT_BLOCKS THEN 1
                  ELSE IF k = FirstDouble THEN 2
                  ELSE IF k > FirstDouble /\ SingleOffset(k) = 0 THEN 1 ELSE 0
AddDirect(t, c, b) ==
    /\ c.size_blocks < INODE_DIRECT_BLOCKS
    /\ ino' = Set(ino, t, [c EXCEPT !.direct[c.size_blocks] = b, !.size_blocks = @ + 1])
    /\ UNCHANGED store

add_single_indirect(t, c, b, new) ==
    /\ c.size_blocks \in INODE_DIRECT_BLOCKS .. FirstDouble - 1
    /\ LET p == IF new = {} THEN c.indirect ELSE Min(new)
       IN /\ store' = [store EXCEPT ![p][c.size_blocks - INODE_DIRECT_BLOCKS] = b]
          /\ ino' = Set(ino, t, [c EXCEPT !.indirect = p, !.size_blocks = @ + 1])

add_double_indirect(t, c, b, new) ==
    /\ c.size_blocks >= FirstDouble
    /\ LET k == c.size_blocks
           second == IF new = {} THEN Word(c.double_indirect, DoubleOffset(k)) ELSE Min(new)
           top == IF k = FirstDouble THEN Max(new) ELSE c.double_indirect
       IN /\ store' = [store EXCEPT ![second][SingleOffset(k)] = b,
                                    ![top][DoubleOffset(k)] = second]
          /\ ino' = Set(ino, t, [c EXCEPT !.double_indirect = top, !.size_blocks = @ + 1])

iadd_block(t) ==
    /\ Goto(t, "add", "data")
    /\ LET c == ino[t]
           b == blk[t]
           n == NewPointers(c.size_blocks)
       IN /\ Cardinality(Free) >= n
          /\ LET new == Lowest(n)
             IN /\ balloc(new)
                /\ \/ AddDirect(t, c, b)
                   \/ add_single_indirect(t, c, b, new)
                   \/ add_double_indirect(t, c, b, new)
    /\ blk' = Set(blk, t, 0)
    /\ UNCHANGED <<inode_bitmap, dinode, dirVars, file, cursor, arg, content, calls, torn>>

Written(t) == cursor[t] .. cursor[t] + arg[t] - 1
NewDatum(t, k) == Datum(file[t], k, IF k < ino[t].size THEN 2 ELSE 1)

WriteData(t) ==
    /\ Goto(t, "data", "update")
    /\ LET at == cursor[t] - (cursor[t] % BlockSize)
       IN store' = [store EXCEPT ![blockmap(ino[t], at \div BlockSize)] =
                        [w \in Offset |-> IF at + w \in Written(t) THEN NewDatum(t, at + w)
                                                                    ELSE @[w]]]
    /\ UNCHANGED <<blockVars, inode_bitmap, dinode, dirVars, file, ino, cursor, blk, arg,
                   content, calls, torn>>

UpdateSize(t) ==                        \* the write returns
    /\ Goto(t, "update", "open")
    /\ LET end == cursor[t] + arg[t]
           c == [ino[t] EXCEPT !.size = Max({@, end})]
           old == content[file[t]]
       IN /\ cursor' = Set(cursor, t, end)
          /\ ino' = Set(ino, t, c) /\ iupdate(c)
          /\ EndsAs(t, [k \in 1 .. c.size |->
                          IF k - 1 \in Written(t) THEN NewDatum(t, k - 1) ELSE old[k]])
    /\ arg' = Set(arg, t, 0)
    /\ UNCHANGED <<blockVars, inode_bitmap, store, dirVars, file, blk, calls, torn>>

(***************************************************************************)
(* minifile_unlink, and opening a file in mode "w": iclear.  After this a  *)
(* file that was not empty must be closed before it is written to, because *)
(* size_blocks is what it was.                                             *)
(***************************************************************************)
Clear(t, f, status) ==
    /\ pc[t] = "idle" /\ namei(t, f) # 0
    /\ LET c == [iget(namei(t, f)) EXCEPT !.status = status]
       IN /\ ino' = Set(ino, t, c)
          /\ pc' = Set(pc, t, IF c.size > 0 THEN "free"
                              ELSE IF status = "TO_DELETE" THEN "ifree" ELSE "open")
    /\ file' = Set(file, t, f)
    /\ Called(t)
    /\ UNCHANGED <<diskVars, cursor, blk, arg, content, torn>>

OpenEmptied(t, f) == Clear(t, f, "UNCHANGED")
Unlink(t, f) == Clear(t, f, "TO_DELETE")

FreeData(t) ==                          \* the next block of the loop of iclear
    /\ pc[t] = "free" /\ arg[t] < BlocksOf(ino[t].size)
    /\ bfree({blockmap(ino[t], arg[t])})
    /\ arg' = Set(arg, t, arg[t] + 1)
    /\ UNCHANGED <<inode_bitmap, dinode, store, dirVars, pc, file, ino, cursor, blk,
                   content, calls, torn>>

free_all_indirect(t) ==                 \* the blocks under double_indirect are not freed
    /\ Goto(t, "free", "clear") /\ arg[t] = BlocksOf(ino[t].size)
    /\ bfree({ino[t].indirect : k \in {INODE_DIRECT_BLOCKS} \cap 0 .. arg[t] - 1})
    /\ arg' = Set(arg, t, 0)
    /\ UNCHANGED <<inode_bitmap, dinode, store, dirVars, file, ino, cursor, blk, content,
                   calls, torn>>

ZeroInode(t) ==
    /\ LET deleted == ino[t].status = "TO_DELETE"
       IN /\ Goto(t, "clear", IF deleted THEN "ifree" ELSE "emptied")
          /\ IF deleted THEN UNCHANGED content ELSE EndsAs(t, << >>)
    /\ ino' = Set(ino, t, izero(ino[t])) /\ iupdate(izero(ino[t]))
    /\ UNCHANGED <<blockVars, inode_bitmap, store, dirVars, file, cursor, blk, arg, calls,
                   torn>>

ifree(t) ==
    /\ Goto(t, "ifree", "entry")
    /\ inode_bitmap' = inode_bitmap \ {ino[t].num}
    /\ UNCHANGED <<blockVars, dinode, store, dirVars, file, ino, cursor, blk, arg, content,
                   calls, torn>>

idelete_from_dir(t) ==                  \* the last entry takes its place
    /\ Goto(t, "entry", "parent")
    /\ LET e == Min({x \in Entries(t) : dir[t][x].inum = ino[t].num})
       IN dir' = [dir EXCEPT ![t][e] = dir[t][dirsize[t]]]
    /\ UNCHANGED <<blockVars, inode_bitmap, dinode, store, dirsize, file, ino, cursor, blk,
                   arg, content, calls, torn>>

ShrinkParent(t) ==
    /\ Goto(t, "parent", "idle")
    /\ dirsize' = Set(dirsize, t, dirsize[t] - 1)
    /\ file' = Set(file, t, 0) /\ ino' = Set(ino, t, NoCopy)
    /\ EndsAs(t, Absent)
    /\ UNCHANGED <<blockVars, inode_bitmap, dinode, store, dir, cursor, blk, arg, calls,
                   torn>>

(***************************************************************************)
(* The machine stops; then fs_init and minifile_fsck, alone                *)
(***************************************************************************)
Busy(t) == pc[t] \notin {"idle", "open", "emptied", "stopped", "repaired"}
Up == \A t \in Thread : pc[t] \notin {"stopped", "repaired"}

Stop ==
    /\ Up
    /\ torn' = {file[t] : t \in {u \in Thread : Busy(u)}}
    /\ pc' = [t \in Thread |-> "stopped"] /\ file' = [t \in Thread |-> 0]
    /\ ino' = [t \in Thread |-> NoCopy]
    /\ cursor' = file' /\ blk' = file' /\ arg' = file'
    /\ UNCHANGED <<diskVars, content, calls>>

AllRefs == UNION {{n} \X Refs(iget(n), iget(n).size_blocks) : n \in inode_bitmap}
\* Mutant of Uses: iset_used_indirect is not called.
UsesAsData(b) == Cardinality({x \in AllRefs : x[2][1] = "data" /\ x[2][3] = b})
Uses(b) == Cardinality({x \in AllRefs : x[2][3] = b})

\* A block in use more than once stays as the bitmap has it ("Unable to fix").
minifile_fsck ==
    /\ \A t \in Thread : pc[t] = "stopped"
    /\ block_bitmap' = {b \in Block : IF b \in block_bitmap THEN Uses(b) > 0 ELSE Uses(b) = 1}
    /\ free_blocks' = NBlocks - Cardinality(block_bitmap')
    /\ pc' = [t \in Thread |-> "repaired"]
    /\ UNCHANGED <<inode_bitmap, dinode, store, dirVars, file, ino, cursor, blk, arg,
                   content, calls, torn>>

Next ==
    \/ \E t \in Thread, f \in File :
          /\ owner[f] = t
          /\ Creat(t, f) \/ Open(t, f) \/ OpenEmptied(t, f) \/ Unlink(t, f)
    \/ \E t \in Thread, len \in 1 .. BlockSize :
          /\ pc[t] = "open"
          /\ len <= BlockSize - (cursor[t] % BlockSize)
          /\ cursor[t] + len <= MaxSize[file[t]]
          /\ WriteOver(t, len) \/ WriteAtEnd(t, len)
    \/ \E t \in Thread :
          \/ iadd_to_dir(t) \/ GrowParent(t) \/ NewInode(t) \/ Close(t)
          \/ DiskFull(t) \/ iadd_block(t) \/ WriteData(t) \/ UpdateSize(t)
          \/ FreeData(t) \/ free_all_indirect(t) \/ ZeroInode(t) \/ ifree(t)
          \/ idelete_from_dir(t) \/ ShrinkParent(t)
    \/ Stop
    \/ minifile_fsck
Spec == Init /\ [][Next]_vars

(***************************************************************************)
(* Properties                                                              *)
(***************************************************************************)
\* The fields of inodes on the disk and in memory, and the entries of directories.
Pointer == Block \cup {0}
DiskInode == [size : Nat, direct : [0 .. INODE_DIRECT_BLOCKS - 1 -> Pointer],
              indirect : Pointer, double_indirect : Pointer]
Copy == [num : Inode \cup {0}, size_blocks : Nat, status : {"UNCHANGED", "TO_DELETE"},
         size : Nat, direct : [0 .. INODE_DIRECT_BLOCKS - 1 -> Pointer],
         indirect : Pointer, double_indirect : Pointer]
Entry == [name : File \cup {0}, inum : Inode \cup {0}]

\* The free count is that of the bitmap (balloc, bfree, minifile_fsck), a directory has
\* room for its files, and every variable has its type.
TypeOK ==
    /\ block_bitmap \subseteq Block /\ inode_bitmap \subseteq Inode
    /\ free_blocks = Cardinality(Free)
    /\ dinode \in [Inode -> DiskInode] /\ store \in [Block -> [Offset -> Nat]]
    /\ DOMAIN dir = Thread /\ dirsize \in [Thread -> Nat]
    /\ \A t \in Thread : /\ dir[t] \in [1 .. Cardinality(FilesOf(t)) -> Entry]
                         /\ dirsize[t] <= Cardinality(FilesOf(t))
                         /\ file[t] \in FilesOf(t) \cup {0}
    /\ DOMAIN pc = Thread /\ DOMAIN file = Thread /\ DOMAIN content = File
    /\ ino \in [Thread -> Copy] /\ blk \in [Thread -> Pointer]
    /\ cursor \in [Thread -> Nat] /\ arg \in [Thread -> Nat] /\ calls \in [Thread -> Nat]
    /\ torn \subseteq File

\* What the user of a file takes to be its blocks, with where it refers to them.
Owned(f) ==
    LET t == owner[f]
        c == IF file[t] = f THEN ino[t] ELSE iget(namei(t, f))
        new == IF pc[t] = "add" THEN {<<"new", 0, blk[t]>>} ELSE {}
    IN IF file[t] # f THEN IF namei(t, f) = 0 THEN {} ELSE Refs(c, c.size_blocks)
       ELSE IF pc[t] \in {"open", "add", "data", "update"} THEN Refs(c, c.size_blocks) \cup new
       ELSE IF pc[t] = "free"
       THEN {r \in Refs(c, c.size_blocks) : r[1] # "data" \/ r[2] >= arg[t]}
       ELSE {}

\* A block is allocated to one place of one file, as data or for pointers, and is marked
\* in the bitmap as long as it is (balloc and bfree, called from write, open and unlink
\* of several threads).
BlocksDisjoint ==
    Up => \A f, g \in File : \A r \in Owned(f), s \in Owned(g) :
              /\ r[3] \in block_bitmap
              /\ r[3] = s[3] => f = g /\ r = s

\* What a call has done stays done: once it has returned, the file is found under its
\* name, through an inode and blocks that are marked as used, with the words that were
\* last written; also when the machine has stopped in the middle of other calls and
\* minifile_fsck has run (the order of the writes in write, creat and unlink).
Durable ==
    \A f \in File \ torn :
        (file[owner[f]] # f \/ ~Busy(owner[f])) =>
            LET n == namei(owner[f], f)
                c == iget(n)
            IN IF content[f] = Absent THEN n = 0
               ELSE /\ n \in inode_bitmap
                    /\ c.size = Len(content[f])
                    /\ \A k \in 0 .. c.size - 1 :
                          Word(blockmap(c, k \div BlockSize), k % BlockSize) = content[f][k + 1]
                    /\ \A r \in Refs(c, c.size_blocks) : r[3] \in block_bitmap
=============================================================================
