-------------------------------- MODULE Ext2 --------------------------------
(***************************************************************************)
(* The ext2 volume of kernel/ext2.c: the on-disk inode table and data      *)
(* blocks, the two allocation counters, and the calls that change them.    *)
(*                                                                         *)
(* A volume is one record, so that the calls are functions from volume to  *)
(* volume and the layer above (module Fs) can make several in one step:    *)
(*   itab        the inode table, indexed by inode number                  *)
(*   data        the data blocks written so far; a block outside DOMAIN    *)
(*               data has never been written and reads as zeros            *)
(*   next_block, next_inode    the static counters of ext2_alloc_*         *)
(*                                                                         *)
(* The block group descriptor table is never written by ext2_format, so    *)
(* its inode_table field is 0 (later the atime, also 0, of an inode that   *)
(* lands on it): inode n is in disk block (n-1) \div InodesPerBlock, and   *)
(* the superblock, in the middle of block 1, is in the slot of SbInode.    *)
(* Sizes, times, owners and permission bits of inodes are left out.        *)
(***************************************************************************)
EXTENDS FiniteSetsExt, Sequences

CONSTANTS
    Names,          \* names of directory entries
    Payloads,       \* texts that fit one block
    ShortPayloads,  \* those of at most four bytes
    Files,          \* the contents a file is given, as sequences of blocks
    NDirect,        \* direct block pointers of an inode (12)
    InodesPerBlock, \* inode slots of a table block (1024 / 128 = 8)
    FirstInode,     \* the first inode number handed out (11)
    FirstBlock,     \* the first block number handed out (10)
    MagicIndex,     \* the block pointer that overlays the magic number (6)
    SbPointers,     \* what the superblock's bytes say as block pointers
    MaxInode,       \* bound on inode numbers
    MaxBlock        \* bound on block numbers

Root == 2

Index == 0 .. NDirect - 1

Inodes == 1 .. MaxInode

\* The block of the inode table that holds inode n.
TableBlock(n) == (n - 1) \div InodesPerBlock

\* The inode slot in the middle of block 1, where ext2_format puts the
\* superblock (byte 512).
SbInode == InodesPerBlock + InodesPerBlock \div 2 + 1

\* MaxInode keeps the inode table below the data blocks: with the code's
\* constants inode 81 would be in block 10, the first data block.
ASSUME Ext2Assumption ==
    /\ NDirect \in Nat \ {0}
    /\ InodesPerBlock \in Nat /\ InodesPerBlock > 1
    /\ FirstInode \in Nat /\ FirstInode > Root
    /\ FirstBlock \in Nat \ {0}
    /\ MaxInode \in Nat /\ MaxInode >= FirstInode
    /\ MaxBlock \in Nat
    /\ SbInode \in Inodes
    /\ TableBlock(MaxInode) < FirstBlock
    /\ MagicIndex \in Index
    /\ SbPointers \in [Index -> Nat]
    /\ SbPointers[MagicIndex] > MaxBlock
    /\ ShortPayloads \subseteq Payloads
    /\ Files \subseteq Seq(Payloads)

-----------------------------------------------------------------------------
(* Inodes and block contents *)

Inode == [type : {"none", "reg", "dir"}, links : 0 .. 2, block : [Index -> Nat]]

NoBlocks == [k \in Index |-> 0]

ZeroInode == [type |-> "none", links |-> 0, block |-> NoBlocks]

\* The superblock read as an inode: inodes_count = 0x4000 is EXT2_S_IFDIR and
\* blocks_per_group, inodes_per_group and the magic are block pointers.
Superblock == [type |-> "dir", links |-> 0, block |-> SbPointers]

\* A block is all zeros, one directory entry (add_dirent gives an entry the
\* whole block), or text. Nothing tells the three apart but their bytes: read
\* as an entry, zeros and a short text have rec_len 0, and a text of six bytes
\* or more has a rec_len beyond the block and a name longer than any name in
\* use. (A text of exactly five bytes is left out.)
Zero == [kind |-> "zero"]

Dirent(n, name, ftype) ==
    [kind |-> "dirent", ino |-> n, name |-> name, ftype |-> ftype]

Data(p) == [kind |-> "data", pay |-> p]

NoRecLen(c) == c.kind = "zero" \/ (c.kind = "data" /\ c.pay \in ShortPayloads)

\* The blocks of a file of text.
Text(chunks) == [k \in 1 .. Len(chunks) |-> Data(chunks[k])]

Content ==
    {Zero}
      \cup [kind : {"dirent"}, ino : {0} \cup Inodes, name : Names,
            ftype : {"reg", "dir"}]
      \cup [kind : {"data"}, pay : Payloads]

ReadBlock(v, b) == IF b \in DOMAIN v.data THEN v.data[b] ELSE Zero

\* The data with block b set to c.
Store(data, b, c) ==
    [x \in DOMAIN data \cup {b} |-> IF x = b THEN c ELSE data[x]]

\* The inodes this boot has handed out, and the root.
Live(v) == {Root} \cup (FirstInode .. v.next_inode - 1)

-----------------------------------------------------------------------------
(* Directory entries *)

Named(c, name) == c.kind = "dirent" /\ c.ino # 0 /\ c.name = name

\* Fault: the last direct pointer is not visited.
VisitedButLast(ino) ==
    {k \in Index : k < NDirect - 1 /\ \A j \in 0 .. k : ino.block[j] # 0}

\* The pointers ext2_find_inode visits: it stops at the first zero pointer.
Visited(ino) == {k \in Index : \A j \in 0 .. k : ino.block[j] # 0}

FindHits(v, d, name) ==
    {k \in Visited(v.itab[d]) : Named(ReadBlock(v, v.itab[d].block[k]), name)}

\* The inode number name has in d, -1 if none.
ext2_find_inode(v, d, name) ==
    LET hits == FindHits(v, d, name)
    IN  IF hits = {} THEN -1
        ELSE ReadBlock(v, v.itab[d].block[Min(hits)]).ino

\* The pointers of d under which a new entry can go: a missing block, or a
\* block whose first rec_len is zero.
FreeSlots(v, d) ==
    {k \in Index : \/ v.itab[d].block[k] = 0
                   \/ NoRecLen(ReadBlock(v, v.itab[d].block[k]))}

\* In a full directory nothing is written; the callers ignore the -1.
ext2_add_dirent(v, d, name, n, ftype) ==
    IF FreeSlots(v, d) = {} THEN v
    ELSE LET k == Min(FreeSlots(v, d))
             new == v.itab[d].block[k] = 0
             b == IF new THEN v.next_block ELSE v.itab[d].block[k]
         IN  [v EXCEPT !.itab[d].block[k] = b,
                       !.data = Store(@, b, Dirent(n, name, ftype)),
                       !.next_block = IF new THEN @ + 1 ELSE @]

-----------------------------------------------------------------------------
(* The calls. Those that return an inode number return next_inode. *)

\* Fault: the entry of the parent goes into the new directory.
MkdirSwapped(v, d, name) ==
    LET n == v.next_inode
        made == [v EXCEPT
            !.itab[n] = [type |-> "dir", links |-> 2,
                         block |-> [NoBlocks EXCEPT ![0] = v.next_block]],
            !.next_block = @ + 1,
            !.next_inode = @ + 1]
    IN  ext2_add_dirent(made, n, name, d, "dir")

\* The first block of the new directory is allocated but not cleared.
ext2_mkdir(v, d, name) ==
    LET n == v.next_inode
        made == [v EXCEPT
            !.itab[n] = [type |-> "dir", links |-> 2,
                         block |-> [NoBlocks EXCEPT ![0] = v.next_block]],
            !.next_block = @ + 1,
            !.next_inode = @ + 1]
    IN  ext2_add_dirent(made, d, name, n, "dir")

ext2_create_file(v, d, name) ==
    LET n == v.next_inode
        made == [v EXCEPT
            !.itab[n] = [type |-> "reg", links |-> 1, block |-> NoBlocks],
            !.next_inode = @ + 1]
    IN  ext2_add_dirent(made, d, name, n, "reg")

\* The number of blocks ext2_write_file stores: at most NDirect.
Written(bytes) == IF Len(bytes) < NDirect THEN Len(bytes) ELSE NDirect

\* Fault: ext2_alloc_block returns its counter without advancing it.
WriteSameBlocks(v, i, bytes) ==
    LET m == Written(bytes)
        first == v.next_block
    IN  IF m = 0 THEN v
        ELSE [v EXCEPT
                !.itab[i].block = [k \in Index |-> IF k < m THEN first + k ELSE 0],
                !.data = [b \in DOMAIN @ \cup (first .. first + m - 1) |->
                            IF b >= first THEN bytes[b - first + 1] ELSE v.data[b]]]

\* Fault: the pointers past the end of a shorter text stay.
WriteKeepsTail(v, i, bytes) ==
    LET m == Written(bytes)
        first == v.next_block
        fresh == first .. first + m - 1
    IN  [v EXCEPT
            !.itab[i].block = [k \in Index |-> IF k < m THEN first + k
                                               ELSE v.itab[i].block[k]],
            !.data = [b \in DOMAIN @ \cup fresh |->
                        IF b \in fresh THEN bytes[b - first + 1] ELSE v.data[b]],
            !.next_block = @ + m]

\* ext2_write_file followed by the ext2_write_inode of its caller, which is
\* skipped when nothing was written. The old blocks are not reused.
ext2_write_file(v, i, bytes) ==
    LET m == Written(bytes)
        first == v.next_block
        fresh == first .. first + m - 1
    IN  IF m = 0 THEN v
        ELSE [v EXCEPT
                !.itab[i].block = [k \in Index |-> IF k < m THEN first + k ELSE 0],
                !.data = [b \in DOMAIN @ \cup fresh |->
                            IF b \in fresh THEN bytes[b - first + 1]
                            ELSE v.data[b]],
                !.next_block = @ + m]

\* What the blocks of i hold, up to the first missing block.
ext2_read_file(v, i) ==
    LET n == Cardinality(Visited(v.itab[i]))
    IN  [k \in 1 .. n |-> ReadBlock(v, v.itab[i].block[k - 1])]

\* The pointers ext2_unlink tries: it skips zero pointers.
UnlinkHits(v, d, name) ==
    {k \in Index : /\ v.itab[d].block[k] # 0
                   /\ Named(ReadBlock(v, v.itab[d].block[k]), name)}

UnlinkVictim(v, d, name) ==
    ReadBlock(v, v.itab[d].block[Min(UnlinkHits(v, d, name))]).ino

\* Fault: the entry keeps its inode number.
UnlinkKeepsEntry(v, d, name) ==
    IF UnlinkHits(v, d, name) = {} THEN v
    ELSE [v EXCEPT !.itab[UnlinkVictim(v, d, name)].block = NoBlocks,
                   !.itab[UnlinkVictim(v, d, name)].links = 0]

\* Fault: the block of the entry is taken from the directory.
UnlinkDropsBlock(v, d, name) ==
    IF UnlinkHits(v, d, name) = {} THEN v
    ELSE [v EXCEPT !.itab[UnlinkVictim(v, d, name)].block = NoBlocks,
                   !.itab[UnlinkVictim(v, d, name)].links = 0,
                   !.itab[d].block[Min(UnlinkHits(v, d, name))] = 0]

\* The victim loses its blocks and links (its type stays), the entry its
\* inode number. ext2_free_block and ext2_free_inode do nothing.
ext2_unlink(v, d, name) ==
    LET hits == UnlinkHits(v, d, name)
        b == v.itab[d].block[Min(hits)]
        victim == UnlinkVictim(v, d, name)
    IN  IF hits = {} THEN v
        ELSE [v EXCEPT !.itab[victim].block = NoBlocks,
                       !.itab[victim].links = 0,
                       !.data = Store(@, b, [ReadBlock(v, b) EXCEPT !.ino = 0])]

-----------------------------------------------------------------------------
(* Mounting *)

\* ext2_format writes block 1 only: zeros around the superblock.
ext2_format(v) ==
    [v EXCEPT !.itab = [n \in Inodes |->
        IF n = SbInode THEN Superblock
        ELSE IF TableBlock(n) = 1 THEN ZeroInode ELSE v.itab[n]]]

\* The disk is formatted when the magic number is not there; the counters are
\* static variables, so they start again at every boot.
ext2_mount(v) ==
    LET disk == IF v.itab[SbInode].block[MagicIndex] = SbPointers[MagicIndex]
                THEN v ELSE ext2_format(v)
    IN  [disk EXCEPT !.next_block = FirstBlock, !.next_inode = FirstInode]

\* The zero-filled image that "make disk" creates.
BlankDisk == [itab |-> [n \in Inodes |-> ZeroInode], data |-> <<>>,
              next_block |-> FirstBlock, next_inode |-> FirstInode]

-----------------------------------------------------------------------------
(* One boot of a new disk, driven by any sequence of calls. The layer above *)
(* passes inode numbers it has looked up or kept as the current directory,  *)
(* which may have been unlinked since.                                      *)

VARIABLE vol

InodeLeft == vol.next_inode <= MaxInode

BlocksLeft(n) == vol.next_block + n - 1 <= MaxBlock

Mkdir(d, name) ==
    /\ InodeLeft /\ BlocksLeft(2)
    /\ vol' = ext2_mkdir(vol, d, name)

CreateFile(d, name) ==
    /\ InodeLeft /\ BlocksLeft(1)
    /\ vol' = ext2_create_file(vol, d, name)

Unlink(d, name) == vol' = ext2_unlink(vol, d, name)

WriteFile(i, chunks) ==
    /\ BlocksLeft(Written(chunks))
    /\ vol' = ext2_write_file(vol, i, Text(chunks))

Init == vol = ext2_mount(BlankDisk)

Next ==
    \E i \in Live(vol) :
        \/ \E name \in Names : Mkdir(i, name) \/ CreateFile(i, name) \/ Unlink(i, name)
        \/ \E chunks \in Files : WriteFile(i, chunks)

Spec == Init /\ [][Next]_vol

-----------------------------------------------------------------------------
(* Properties. The invariants are predicates of a volume, so that they can be *)
(* stated of the volumes in the middle of a call too.                         *)

\* A well-formed volume: counters past the reserved numbers, typed inodes, and
\* no block written that was not handed out.
VolumeType(v) ==
    /\ v = [itab |-> v.itab, data |-> v.data,
            next_block |-> v.next_block, next_inode |-> v.next_inode]
    /\ v.itab \in [Inodes -> Inode]
    /\ v.data = [b \in DOMAIN v.data |-> v.data[b]]
    /\ DOMAIN v.data \subseteq FirstBlock .. v.next_block - 1
    /\ \A b \in DOMAIN v.data : v.data[b] \in Content
    /\ v.next_block \in Nat /\ v.next_block >= FirstBlock
    /\ v.next_inode \in FirstInode .. MaxInode + 1

\* Every pointer is a block that was handed out, and no block has two pointers.
PointersDisjoint(v) ==
    \A i \in Live(v), k \in Index : v.itab[i].block[k] # 0 =>
        /\ v.itab[i].block[k] \in FirstBlock .. v.next_block - 1
        /\ \A j \in Live(v), l \in Index :
              v.itab[j].block[l] = v.itab[i].block[k] => i = j /\ k = l

PointersDense(v) ==
    \A i \in Live(v), k \in Index, l \in Index :
        k < l /\ v.itab[i].block[k] = 0 => v.itab[i].block[l] = 0

\* The blocks, in use or abandoned, that hold an entry for an inode.
EntryBlocks(v) ==
    {b \in DOMAIN v.data : v.data[b].kind = "dirent" /\ v.data[b].ino # 0}

EntriesUnique(v) ==
    \A b, c \in EntryBlocks(v) : v.data[b].ino = v.data[c].ino => b = c

EntriesLive(v) ==
    \A b \in EntryBlocks(v) :
        /\ v.data[b].ino \in FirstInode .. v.next_inode - 1
        /\ v.itab[v.data[b].ino].links > 0

EntriesDescend(v) ==
    \A i \in Live(v), k \in Index :
        v.itab[i].block[k] \in EntryBlocks(v) =>
            v.data[v.itab[i].block[k]].ino > i

\* The type of the volume (kernel/ext2.c keeps no other state).
TypeOK == VolumeType(vol)

\* A tree: no inode has two names, no entry dangles, and every entry leads down.
TreeShaped(v) == EntriesUnique(v) /\ EntriesLive(v) /\ EntriesDescend(v)

\* ext2_alloc_block never repeats a number within a boot, so no block belongs
\* to two inodes, or twice to one: writing a file never changes another. And the
\* block pointers of an inode have no hole: ext2_find_inode and ext2_read_file
\* stop at the first zero pointer, ext2_add_dirent fills it and ext2_unlink skips
\* it.
BlocksSound == PointersDisjoint(vol) /\ PointersDense(vol)

\* The directories are a tree. An entry is written once, when its inode is made,
\* so no inode has two names; ext2_unlink clears the one entry of the inode it
\* empties, so none dangles; and an entry leads to an inode younger than its
\* directory, so every walk down ends.
TreeKept == TreeShaped(vol)

\* What ext2_find_inode finds is what ext2_unlink removes, though the two walk
\* the block pointers differently (one stops at a zero pointer, one skips it).
FindUnlinkAgree ==
    \A i \in Live(vol), name \in Names :
        ext2_find_inode(vol, i, name) =
            IF UnlinkHits(vol, i, name) = {} THEN -1
            ELSE UnlinkVictim(vol, i, name)

\* What each inode holds, slot by slot: the objects of module ObjectStore.
Objects ==
    [i \in Inodes |-> [k \in Index |->
        IF i \in Live(vol) /\ vol.itab[i].block[k] # 0
        THEN ReadBlock(vol, vol.itab[i].block[k]) ELSE Zero]]

OS == INSTANCE ObjectStore WITH obj <- Objects, next <- vol.next_inode

\* ext2.c keeps what it promises its callers: every call changes the slots of its
\* own objects and of no other, as if there were no blocks to share.
ImplementsObjectStore == OS!Spec
=============================================================================
