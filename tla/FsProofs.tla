------------------------------ MODULE FsProofs ------------------------------
(***************************************************************************)
(* Proofs about the file system, for every number of pointers, inodes and    *)
(* blocks and every set of names, files and paths. First the volume (module   *)
(* Ext2): its invariants hold, and it implements module ObjectStore; the      *)
(* lemmas on the calls do not suppose that the directories are a tree, which  *)
(* the commands of module Fs do not keep. Then these commands: they keep the  *)
(* volume sound, also those that write the blocks of a directory as if they   *)
(* were text, and the current directory is an inode of this boot. Last, what   *)
(* one command may do: to the tree, to names, to the file it was given and to  *)
(* the others.                                                               *)
(***************************************************************************)
EXTENDS Fs, FiniteSetTheorems, TLAPS

\* Of module Induction this part uses the lemma on least elements only: nothing is
\* folded.
Kept(e, x, y) == x

Always(e, x) == TRUE

N == INSTANCE Induction WITH Op <- Kept, Good <- Always

LEMMA MinIsLeast ==
    ASSUME NEW S \in SUBSET Nat, S # {}
    PROVE  /\ Min(S) \in S
           /\ \A x \in S : Min(S) <= x
BY N!MinIsLeast DEF Min, N!Min

\* Every entry names an inode that was handed out.
EntriesKnown(v) ==
    \A b \in EntryBlocks(v) : v.data[b].ino \in FirstInode .. v.next_inode - 1

\* What every sequence of calls keeps, also those that write the blocks of a
\* directory as if they were text.
SoundInv(v) ==
    VolumeType(v) /\ PointersDisjoint(v) /\ PointersDense(v) /\ EntriesKnown(v)

\* The inductive invariant of module Ext2: it is the conjunction of the
\* properties.
VolumeInv(v) == SoundInv(v) /\ TreeShaped(v)

\* A block that holds the entry of an inode.
IsEntry(c) == c.kind = "dirent" /\ c.ino # 0

\* What inode i holds in its slot k.
Slot(v, i, k) ==
    IF v.itab[i].block[k] = 0 THEN Zero ELSE ReadBlock(v, v.itab[i].block[k])

-----------------------------------------------------------------------------
\* Live inodes are inodes, and pointers are natural numbers.
LEMMA LiveTyped ==
    ASSUME NEW v, VolumeType(v)
    PROVE  /\ Live(v) \subseteq Inodes
           /\ FirstInode .. v.next_inode - 1 \subseteq Live(v)
           /\ \A i \in Inodes, k \in Index : v.itab[i].block[k] \in Nat
           /\ \A i \in Inodes : v.itab[i] \in Inode
           /\ Index \subseteq Nat
<1>1. Root \in Inodes /\ MaxInode \in Nat /\ FirstInode \in Nat /\ FirstInode > 2
  BY Ext2Assumption DEF Root, Inodes
<1>2. v.next_inode \in FirstInode .. MaxInode + 1 /\ v.itab \in [Inodes -> Inode]
  BY DEF VolumeType
<1>3. Live(v) \subseteq Inodes /\ FirstInode .. v.next_inode - 1 \subseteq Live(v)
  BY <1>1, <1>2 DEF Live, Inodes
<1>4. \A i \in Inodes, k \in Index : v.itab[i].block[k] \in Nat
  BY <1>2 DEF Inode
<1>5. Index \subseteq Nat
  BY Ext2Assumption DEF Index
<1> QED BY <1>2, <1>3, <1>4, <1>5

\* ext2_add_dirent keeps the volume sound. It keeps the tree when the inode it
\* names is older than nothing in the directory, and has no name yet. The entry
\* takes the first free slot, and nothing else changes.
LEMMA AddDirentInv ==
    ASSUME NEW v, SoundInv(v),
           NEW d \in Live(v), NEW name \in Names, NEW ftype \in {"reg", "dir"},
           NEW n \in FirstInode .. v.next_inode - 1
    PROVE  LET w == ext2_add_dirent(v, d, name, n, ftype)
               F == FreeSlots(v, d)
           IN  /\ SoundInv(w)
               /\ w.next_inode = v.next_inode
               /\ /\ TreeShaped(v) /\ n > d /\ v.itab[n].links > 0
                  /\ \A e \in EntryBlocks(v) : v.data[e].ino # n
                  => TreeShaped(w)
               /\ F = {} => w = v
               /\ F # {} =>
                     /\ Min(F) \in F
                     /\ \A i \in Live(v), j \in Index :
                           Slot(w, i, j) = IF i = d /\ j = Min(F) THEN Dirent(n, name, ftype)
                                           ELSE Slot(v, i, j)
<1> DEFINE F == FreeSlots(v, d)
           k == Min(F)
           new == v.itab[d].block[k] = 0
           b == IF new THEN v.next_block ELSE v.itab[d].block[k]
           w == ext2_add_dirent(v, d, name, n, ftype)
<1>1. CASE F = {}
  BY <1>1 DEF ext2_add_dirent
<1>2. CASE F # {}
  <2>a. /\ VolumeType(v) /\ PointersDisjoint(v) /\ PointersDense(v) /\ EntriesKnown(v)
    BY DEF SoundInv
  <2>b. /\ Live(v) \subseteq Inodes
        /\ \A i \in Inodes, j \in Index : v.itab[i].block[j] \in Nat
        /\ \A i \in Inodes : v.itab[i] \in Inode
        /\ Index \subseteq Nat /\ n \in Inodes
    BY <2>a, LiveTyped
  <2>1. /\ k \in Index /\ k \in F
        /\ \A j \in Index : j < k => j \notin F
    <3>1. F \in SUBSET Nat /\ F \subseteq Index
      BY <2>b DEF FreeSlots
    <3>2. k \in F /\ \A x \in F : k <= x
      <4> HIDE DEF F
      <4> QED BY <1>2, <3>1, MinIsLeast
    <3> QED BY <2>b, <3>1, <3>2
  <2>2. w = [v EXCEPT !.itab[d].block[k] = b,
                      !.data = Store(@, b, Dirent(n, name, ftype)),
                      !.next_block = IF new THEN @ + 1 ELSE @]
    BY <1>2 DEF ext2_add_dirent
  <2> HIDE DEF F, w, k
  <2>3. /\ w.itab = [v.itab EXCEPT ![d].block[k] = b]
        /\ w.data = Store(v.data, b, Dirent(n, name, ftype))
        /\ w.next_block = IF new THEN v.next_block + 1 ELSE v.next_block
        /\ w.next_inode = v.next_inode
        /\ w = [itab |-> w.itab, data |-> w.data,
                next_block |-> w.next_block, next_inode |-> w.next_inode]
    BY <2>2, <2>a DEF VolumeType
  <2>4. Live(w) = Live(v)
    BY <2>3 DEF Live
  <2>5. /\ v.next_block \in Nat /\ FirstBlock \in Nat \ {0}
        /\ w.next_block \in Nat /\ w.next_block >= v.next_block
        /\ v.next_block >= FirstBlock
        /\ b \in FirstBlock .. w.next_block - 1
    <3>1. /\ v.next_block \in Nat /\ FirstBlock \in Nat \ {0}
          /\ v.next_block >= FirstBlock
      BY <2>a, Ext2Assumption DEF VolumeType
    <3>2. CASE new
      BY <2>3, <3>1, <3>2
    <3>3. CASE ~new
      <4>1. v.itab[d].block[k] \in FirstBlock .. v.next_block - 1
        BY <2>1, <2>a, <3>3 DEF PointersDisjoint
      <4> QED BY <2>3, <3>1, <3>3, <4>1
    <3> QED BY <3>2, <3>3
  <2>6. \A i \in Live(v), l \in Index : v.itab[i].block[l] = b => i = d /\ l = k
    BY <2>1, <2>5, <2>a, <2>b DEF PointersDisjoint
  <2>7. b \notin EntryBlocks(v)
    <3>1. CASE new
      BY <3>1, <2>a, <2>5 DEF EntryBlocks, VolumeType
    <3>2. CASE ~new
      <4>1. ReadBlock(v, b).kind # "dirent"
        BY <3>2, <2>1 DEF F, FreeSlots, NoRecLen
      <4> QED BY <4>1 DEF ReadBlock, EntryBlocks
    <3> QED BY <3>1, <3>2
  <2> HIDE DEF new, b
  <2>8. /\ \A i \in Inodes : i # d => w.itab[i] = v.itab[i]
        /\ w.itab[d].links = v.itab[d].links
        /\ w.itab[d].block[k] = b
        /\ \A l \in Index : l # k => w.itab[d].block[l] = v.itab[d].block[l]
        /\ w.itab \in [Inodes -> Inode]
    <3>1. v.itab \in [Inodes -> Inode] /\ d \in Inodes /\ b \in Nat
      BY <2>a, <2>b, <2>5 DEF VolumeType
    <3> QED BY <2>1, <2>3, <3>1 DEF Inode
  <2>9. /\ DOMAIN w.data = DOMAIN v.data \cup {b}
        /\ w.data[b] = Dirent(n, name, ftype)
        /\ \A x \in DOMAIN v.data : x # b => w.data[x] = v.data[x]
        /\ w.data = [x \in DOMAIN w.data |-> w.data[x]]
    BY <2>3 DEF Store
  <2>10. EntryBlocks(w) = EntryBlocks(v) \cup {b}
    <3>1. n # 0
      BY Ext2Assumption DEF Root
    <3> QED BY <2>7, <2>9, <3>1 DEF EntryBlocks, Dirent
  <2>11. VolumeType(w)
    <3>1. Dirent(n, name, ftype) \in Content
      BY <2>b DEF Dirent, Content
    <3>2. DOMAIN w.data \subseteq FirstBlock .. w.next_block - 1
      BY <2>5, <2>9, <2>a DEF VolumeType
    <3>3. \A x \in DOMAIN w.data : w.data[x] \in Content
      BY <2>9, <2>a, <3>1 DEF VolumeType
    <3> QED BY <2>3, <2>5, <2>8, <2>9, <2>a, <3>2, <3>3 DEF VolumeType
  <2>12. PointersDisjoint(w)
    <3> SUFFICES ASSUME NEW i \in Live(v), NEW x \in Index,
                        w.itab[i].block[x] # 0
                 PROVE  /\ w.itab[i].block[x] \in FirstBlock .. w.next_block - 1
                        /\ \A j \in Live(v), l \in Index :
                             w.itab[j].block[l] = w.itab[i].block[x] => i = j /\ x = l
      BY <2>4 DEF PointersDisjoint
    <3>1. \A j \in Live(v), l \in Index :
            w.itab[j].block[l] = IF j = d /\ l = k THEN b ELSE v.itab[j].block[l]
      BY <2>8, <2>b
    <3>2. CASE i = d /\ x = k
      BY <2>5, <2>6, <3>1, <3>2
    <3>3. CASE ~(i = d /\ x = k)
      BY <2>5, <2>6, <3>1, <3>3, <2>a DEF PointersDisjoint
    <3> QED BY <3>2, <3>3
  <2>13. PointersDense(w)
    <3> SUFFICES ASSUME NEW i \in Live(v), NEW x \in Index, NEW l \in Index,
                        x < l, w.itab[i].block[x] = 0
                 PROVE  w.itab[i].block[l] = 0
      BY <2>4 DEF PointersDense
    <3>1. b # 0
      BY <2>5
    <3>2. CASE i # d
      <4>1. w.itab[i] = v.itab[i]
        BY <2>8, <2>b, <3>2
      <4> QED BY <4>1, <2>a DEF PointersDense
    <3>3. CASE i = d /\ l # k
      BY <2>8, <2>a, <3>1, <3>3 DEF PointersDense
    <3>4. CASE i = d /\ l = k
      <4>1. x # k /\ v.itab[d].block[x] = 0
        BY <2>8, <2>b, <3>4
      <4>2. x \in F
        BY <4>1 DEF F, FreeSlots
      <4> QED BY <2>1, <3>4, <4>2
    <3> QED BY <3>2, <3>3, <3>4
  <2>e. EntriesKnown(w)
    <3> SUFFICES ASSUME NEW e \in EntryBlocks(w)
                 PROVE  w.data[e].ino \in FirstInode .. v.next_inode - 1
      BY <2>3 DEF EntriesKnown
    <3>1. CASE e = b
      BY <2>9, <3>1 DEF Dirent
    <3>2. CASE e # b
      <4>1. e \in EntryBlocks(v) /\ w.data[e] = v.data[e]
        BY <2>9, <2>10, <3>2 DEF EntryBlocks
      <4> QED BY <4>1, <2>a DEF EntriesKnown
    <3> QED BY <3>1, <3>2
  <2>14. ASSUME TreeShaped(v), n > d, v.itab[n].links > 0,
                \A e \in EntryBlocks(v) : v.data[e].ino # n
         PROVE  TreeShaped(w)
    <3>a. EntriesUnique(v) /\ EntriesLive(v) /\ EntriesDescend(v)
      BY <2>14 DEF TreeShaped
    <3>1. EntriesUnique(w)
      BY <2>7, <2>9, <2>10, <2>14, <3>a DEF EntriesUnique, EntryBlocks, Dirent
    <3>2. EntriesLive(w)
      <4> SUFFICES ASSUME NEW e \in EntryBlocks(w)
                   PROVE  /\ w.data[e].ino \in FirstInode .. v.next_inode - 1
                          /\ w.itab[w.data[e].ino].links > 0
        BY <2>3 DEF EntriesLive
      <4>1. \A i \in Inodes : w.itab[i].links = v.itab[i].links
        BY <2>8
      <4>2. CASE e = b
        BY <2>9, <2>b, <2>14, <4>1, <4>2 DEF Dirent
      <4>3. CASE e # b
        <5>1. e \in EntryBlocks(v) /\ w.data[e] = v.data[e]
          BY <2>9, <2>10, <4>3 DEF EntryBlocks
        <5>2. w.data[e].ino \in FirstInode .. v.next_inode - 1
          BY <5>1, <3>a DEF EntriesLive
        <5>3. w.data[e].ino \in Inodes
          BY <5>2, <2>a, LiveTyped
        <5> QED BY <5>1, <5>2, <5>3, <4>1, <3>a DEF EntriesLive
      <4> QED BY <4>2, <4>3
    <3>3. EntriesDescend(w)
      <4> SUFFICES ASSUME NEW i \in Live(v), NEW x \in Index,
                          w.itab[i].block[x] \in EntryBlocks(w)
                   PROVE  w.data[w.itab[i].block[x]].ino > i
        BY <2>4 DEF EntriesDescend
      <4>1. CASE i = d /\ x = k
        BY <2>8, <2>9, <2>14, <4>1 DEF Dirent
      <4>2. CASE ~(i = d /\ x = k)
        <5>1. w.itab[i].block[x] = v.itab[i].block[x] /\ v.itab[i].block[x] # b
          BY <2>6, <2>8, <2>b, <4>2
        <5>2. v.itab[i].block[x] \in EntryBlocks(v)
          BY <5>1, <2>10
        <5> QED BY <5>1, <5>2, <2>9, <3>a DEF EntriesDescend, EntryBlocks
      <4> QED BY <4>1, <4>2
    <3> QED BY <3>1, <3>2, <3>3 DEF TreeShaped
  <2>15. ASSUME NEW i \in Live(v), NEW j \in Index
         PROVE  Slot(w, i, j) = IF i = d /\ j = k THEN Dirent(n, name, ftype)
                                ELSE Slot(v, i, j)
    <3>1. CASE i = d /\ j = k
      BY <2>5, <2>8, <2>9, <3>1 DEF Slot, ReadBlock
    <3>2. CASE ~(i = d /\ j = k)
      <4>1. w.itab[i].block[j] = v.itab[i].block[j] /\ v.itab[i].block[j] # b
        BY <2>6, <2>8, <2>b, <3>2
      <4> QED BY <2>9, <3>2, <4>1 DEF Slot, ReadBlock
    <3> QED BY <3>1, <3>2
  <2>16. SoundInv(w)
    BY <2>11, <2>12, <2>13, <2>e DEF SoundInv
  <2> QED BY <1>2, <2>1, <2>3, <2>14, <2>15, <2>16 DEF w, k, F
<1> QED BY <1>1, <1>2

-----------------------------------------------------------------------------
\* The first half of ext2_mkdir and ext2_create_file: the counters move and
\* the new inode is written, with no block or with the block just taken.
LEMMA NewInodeInv ==
    ASSUME NEW v, SoundInv(v), v.next_inode <= MaxInode,
           NEW w, w = [itab |-> w.itab, data |-> w.data,
                       next_block |-> w.next_block, next_inode |-> w.next_inode],
           w.itab \in [Inodes -> Inode],
           \A i \in Inodes : i # v.next_inode => w.itab[i] = v.itab[i],
           w.itab[v.next_inode].links > 0,
           w.data = v.data,
           w.next_block \in {v.next_block, v.next_block + 1},
           w.next_inode = v.next_inode + 1,
           \A k \in Index : \/ w.itab[v.next_inode].block[k] = 0
                            \/ /\ k = 0 /\ w.next_block = v.next_block + 1
                               /\ w.itab[v.next_inode].block[k] = v.next_block
    PROVE  /\ SoundInv(w)
           /\ TreeShaped(v) => TreeShaped(w)
           /\ Live(w) = Live(v) \cup {v.next_inode}
           /\ \A i \in Live(v), j \in Index : Slot(w, i, j) = Slot(v, i, j)
           /\ \A j \in Index : Slot(w, v.next_inode, j) = Zero
           /\ v.next_inode \in FirstInode .. w.next_inode - 1
           /\ \A i \in Live(v) : v.next_inode > i
           /\ \A e \in EntryBlocks(w) : w.data[e].ino # v.next_inode
<1> DEFINE n == v.next_inode
           nb == w.next_block
           ino == w.itab[n]
<1>a. /\ VolumeType(v) /\ PointersDisjoint(v) /\ PointersDense(v) /\ EntriesKnown(v)
  BY DEF SoundInv
<1>b. /\ Live(v) \subseteq Inodes
      /\ \A i \in Inodes, j \in Index : v.itab[i].block[j] \in Nat
      /\ Index \subseteq Nat
      /\ FirstInode .. n - 1 \subseteq Inodes
  BY <1>a, LiveTyped
<1>c. /\ n \in Nat /\ n \in Inodes /\ n >= FirstInode
      /\ FirstInode \in Nat /\ FirstInode > 2
      /\ v.next_block \in Nat /\ v.next_block >= FirstBlock /\ FirstBlock \in Nat \ {0}
  BY <1>a, Ext2Assumption DEF VolumeType, Inodes, Root
<1>1. w.data = v.data /\ w.next_block = nb /\ w.next_inode = n + 1
  OBVIOUS
<1>2. /\ Live(w) = Live(v) \cup {n}
      /\ \A i \in Live(v) : n > i
  BY <1>1, <1>c DEF Live, Root
<1>3. /\ w.itab \in [Inodes -> Inode]
      /\ w.itab[n] = ino
      /\ \A i \in Live(v) : w.itab[i] = v.itab[i]
      /\ \A i \in Inodes : i # n => w.itab[i] = v.itab[i]
  BY <1>2, <1>b, <1>c
<1>4. EntryBlocks(w) = EntryBlocks(v)
  BY <1>1 DEF EntryBlocks
<1>5. VolumeType(w)
  <2>a. nb \in {v.next_block, v.next_block + 1} /\ n <= MaxInode /\ MaxInode \in Nat
    BY <1>c, Ext2Assumption DEF Inodes
  <2>b. nb \in Nat /\ nb >= v.next_block
    BY ONLY <2>a, <1>c
  <2>c. n + 1 \in FirstInode .. MaxInode + 1
    BY ONLY <2>a, <1>c
  <2>1. /\ nb \in Nat /\ nb >= v.next_block /\ n + 1 \in FirstInode .. MaxInode + 1
    BY ONLY <2>b, <2>c
  <2>2. DOMAIN w.data \subseteq FirstBlock .. w.next_block - 1
    BY <1>1, <1>a, <1>c, <2>1 DEF VolumeType
  <2> QED BY <1>1, <1>3, <1>a, <1>c, <2>1, <2>2 DEF VolumeType
<1>6. PointersDisjoint(w)
  <2> SUFFICES ASSUME NEW i \in Live(w), NEW k \in Index, w.itab[i].block[k] # 0
               PROVE  /\ w.itab[i].block[k] \in FirstBlock .. w.next_block - 1
                      /\ \A j \in Live(w), l \in Index :
                           w.itab[j].block[l] = w.itab[i].block[k] => i = j /\ k = l
    BY DEF PointersDisjoint
  <2>1. \A j \in Live(v), l \in Index :
          v.itab[j].block[l] # 0 => v.itab[j].block[l] \in FirstBlock .. v.next_block - 1
    BY <1>a DEF PointersDisjoint
  <2>2. CASE i = n
    <3>1. /\ k = 0 /\ nb = v.next_block + 1 /\ w.itab[i].block[k] = v.next_block
      BY <1>3, <2>2
    <3>2. \A l \in Index : ino.block[l] = v.next_block => l = 0
      BY <1>c
    <3>3. \A j \in Live(v), l \in Index : v.itab[j].block[l] # v.next_block
      BY <2>1, <1>c
    <3> QED BY <3>1, <3>2, <3>3, <1>1, <1>2, <1>3, <1>c, <2>2
  <2>3. CASE i \in Live(v)
    <3>1. w.itab[i].block[k] = v.itab[i].block[k]
      BY <1>3, <2>3
    <3>2. v.itab[i].block[k] \in FirstBlock .. v.next_block - 1
      BY <2>1, <2>3, <3>1
    <3>3. \A l \in Index : ino.block[l] # v.itab[i].block[k]
      BY <3>1, <3>2, <1>c
    <3> QED BY <3>1, <3>2, <3>3, <1>1, <1>2, <1>3, <1>c, <1>a, <2>3
            DEF PointersDisjoint
  <2> QED BY <1>2, <2>2, <2>3
<1>7. PointersDense(w)
  <2> SUFFICES ASSUME NEW i \in Live(w), NEW k \in Index, NEW l \in Index,
                      k < l, w.itab[i].block[k] = 0
               PROVE  w.itab[i].block[l] = 0
    BY DEF PointersDense
  <2>1. CASE i = n
    BY <1>3, <1>b, <2>1
  <2>2. CASE i \in Live(v)
    <3>1. w.itab[i] = v.itab[i]
      BY <1>3, <2>2
    <3> QED BY <3>1, <1>a, <2>2 DEF PointersDense
  <2> QED BY <1>2, <2>1, <2>2
<1>8. \A e \in EntryBlocks(v) : /\ v.data[e].ino \in FirstInode .. n - 1
                                /\ v.data[e].ino # n
  BY <1>a, <1>c DEF EntriesKnown
<1>9. EntriesKnown(w)
  BY <1>1, <1>4, <1>8, <1>c DEF EntriesKnown
<1>10. ASSUME TreeShaped(v) PROVE TreeShaped(w)
  <2>a. EntriesUnique(v) /\ EntriesLive(v) /\ EntriesDescend(v)
    BY <1>10 DEF TreeShaped
  <2>1. EntriesUnique(w)
    BY <1>1, <1>4, <2>a DEF EntriesUnique
  <2>2. EntriesLive(w)
    <3> SUFFICES ASSUME NEW e \in EntryBlocks(v)
                 PROVE  /\ v.data[e].ino \in FirstInode .. n
                        /\ w.itab[v.data[e].ino].links > 0
      BY <1>1, <1>4, <1>c DEF EntriesLive
    <3>1. w.itab[v.data[e].ino] = v.itab[v.data[e].ino]
      BY <1>3, <1>8, <1>b
    <3> QED BY <3>1, <1>8, <1>c, <2>a DEF EntriesLive
  <2>3. EntriesDescend(w)
    <3> SUFFICES ASSUME NEW i \in Live(w), NEW k \in Index,
                        w.itab[i].block[k] \in EntryBlocks(v)
                 PROVE  v.data[w.itab[i].block[k]].ino > i
      BY <1>1, <1>4 DEF EntriesDescend
    <3>1. CASE i = n
      <4>1. \A e \in EntryBlocks(v) : e \in FirstBlock .. v.next_block - 1
        BY <1>a DEF EntryBlocks, VolumeType
      <4> QED BY <4>1, <1>3, <1>c, <3>1
    <3>2. CASE i \in Live(v)
      BY <1>3, <2>a, <3>2 DEF EntriesDescend
    <3> QED BY <1>2, <3>1, <3>2
  <2> QED BY <2>1, <2>2, <2>3 DEF TreeShaped
<1>11. \A i \in Live(v), j \in Index : Slot(w, i, j) = Slot(v, i, j)
  BY <1>1, <1>3 DEF Slot, ReadBlock
<1>12. \A j \in Index : Slot(w, n, j) = Zero
  <2>1. v.next_block \notin DOMAIN v.data
    BY <1>a, <1>c DEF VolumeType
  <2> QED BY <1>1, <2>1 DEF Slot, ReadBlock
<1>13. SoundInv(w)
  BY <1>5, <1>6, <1>7, <1>9 DEF SoundInv
<1> QED BY <1>1, <1>2, <1>3, <1>4, <1>8, <1>10, <1>11, <1>12, <1>13, <1>c

\* What making an inode n of a type with a name in d does to the slots: the entry
\* takes the first free slot of d, and the new inode is empty.
Made(v, w, d, name, ftype) ==
    LET n == v.next_inode
        F == FreeSlots(v, d)
    IN  /\ w.next_inode = n + 1
        /\ n \notin Live(v) /\ Live(w) = Live(v) \cup {n}
        /\ F # {} => Min(F) \in F
        /\ \A j \in Index : Slot(w, n, j) = Zero
        /\ \A i \in Live(v), j \in Index :
              Slot(w, i, j) = IF F # {} /\ i = d /\ j = Min(F) THEN Dirent(n, name, ftype)
                              ELSE Slot(v, i, j)

\* The free slots of a directory are the same before and after an inode is made.
LEMMA FreeSlotsAre ==
    ASSUME NEW v, NEW d
    PROVE  FreeSlots(v, d) = {k \in Index : NoRecLen(Slot(v, d, k))}
BY DEF FreeSlots, Slot, NoRecLen, Zero

\* The two halves together.
LEMMA MadeInv ==
    ASSUME NEW v, SoundInv(v), NEW made, SoundInv(made),
           NEW d \in Live(v), NEW name \in Names, NEW ftype \in {"reg", "dir"},
           NEW n, n = v.next_inode,
           TreeShaped(v) => TreeShaped(made),
           Live(made) = Live(v) \cup {n},
           \A i \in Live(v), j \in Index : Slot(made, i, j) = Slot(v, i, j),
           \A j \in Index : Slot(made, n, j) = Zero,
           made.itab[n].links > 0, made.next_inode = n + 1,
           n \in FirstInode .. made.next_inode - 1,
           \A i \in Live(v) : n > i,
           \A e \in EntryBlocks(made) : made.data[e].ino # n
    PROVE  LET w == ext2_add_dirent(made, d, name, n, ftype)
           IN  /\ SoundInv(w)
               /\ TreeShaped(v) => TreeShaped(w)
               /\ Made(v, w, d, name, ftype)
<1> DEFINE w == ext2_add_dirent(made, d, name, n, ftype)
           F == FreeSlots(v, d)
<1>1. F = FreeSlots(made, d)
  BY FreeSlotsAre
<1>2. d \in Live(made)
  OBVIOUS
<1>3. /\ SoundInv(w)
      /\ w.next_inode = made.next_inode
      /\ TreeShaped(v) => TreeShaped(w)
      /\ F = {} => w = made
      /\ F # {} =>
            /\ Min(F) \in F
            /\ \A i \in Live(made), j \in Index :
                  Slot(w, i, j) = IF i = d /\ j = Min(F) THEN Dirent(n, name, ftype)
                                  ELSE Slot(made, i, j)
  <2> DEFINE G == FreeSlots(made, d)
  <2>1. /\ SoundInv(w)
        /\ w.next_inode = made.next_inode
        /\ /\ TreeShaped(made) /\ n > d /\ made.itab[n].links > 0
           /\ \A e \in EntryBlocks(made) : made.data[e].ino # n
           => TreeShaped(w)
        /\ G = {} => w = made
        /\ G # {} =>
              /\ Min(G) \in G
              /\ \A i \in Live(made), j \in Index :
                    Slot(w, i, j) = IF i = d /\ j = Min(G) THEN Dirent(n, name, ftype)
                                    ELSE Slot(made, i, j)
    BY <1>2, AddDirentInv
  <2>2. F = G
    BY <1>1
  <2> HIDE DEF w, F, G
  <2> QED BY <2>1, <2>2
<1> HIDE DEF w, F
<1>4. n \notin Live(v)
  <2>1. n \in Int
    OBVIOUS
  <2> QED BY <2>1
<1>5. Live(w) = Live(made)
  BY <1>3 DEF Live
<1>6. d # n
  BY <1>4
<1>7. \A j \in Index : Slot(w, n, j) = Zero
  BY <1>3, <1>6
<1>8. \A i \in Live(v), j \in Index :
          Slot(w, i, j) = IF F # {} /\ i = d /\ j = Min(F) THEN Dirent(n, name, ftype)
                          ELSE Slot(v, i, j)
  BY <1>3
<1>9. Made(v, w, d, name, ftype)
  BY <1>3, <1>4, <1>5, <1>7, <1>8 DEF Made, F
<1> QED BY <1>3, <1>9 DEF w

\* ext2_mkdir preserves the invariant: a new inode with a fresh block, then its
\* entry in the parent.
LEMMA MkdirInv ==
    ASSUME NEW v, SoundInv(v), v.next_inode <= MaxInode,
           NEW d \in Live(v), NEW name \in Names
    PROVE  LET w == ext2_mkdir(v, d, name)
           IN  /\ SoundInv(w)
               /\ TreeShaped(v) => TreeShaped(w)
               /\ Made(v, w, d, name, "dir")
<1> DEFINE n == v.next_inode
           ino == [type |-> "dir", links |-> 2,
                   block |-> [NoBlocks EXCEPT ![0] = v.next_block]]
           made == [v EXCEPT !.itab[n] = ino, !.next_block = @ + 1, !.next_inode = @ + 1]
<1>1. /\ v = [itab |-> v.itab, data |-> v.data,
              next_block |-> v.next_block, next_inode |-> v.next_inode]
      /\ v.next_block \in Nat /\ v.itab \in [Inodes -> Inode] /\ n \in Inodes
  BY Ext2Assumption DEF SoundInv, VolumeType, Inodes, Root
<1>2. /\ ino \in Inode /\ ino.links > 0
      /\ \A k \in Index : ino.block[k] = 0 \/ (k = 0 /\ ino.block[k] = v.next_block)
  BY <1>1, Ext2Assumption DEF Inode, NoBlocks, Index
<1> HIDE DEF ino
<1>a. made = [v EXCEPT !.itab[n] = ino, !.next_block = @ + 1, !.next_inode = @ + 1]
  OBVIOUS
<1> HIDE DEF made
<1>3. /\ made = [itab |-> made.itab, data |-> made.data,
                 next_block |-> made.next_block, next_inode |-> made.next_inode]
      /\ made.itab = [v.itab EXCEPT ![n] = ino] /\ made.data = v.data
      /\ made.next_block = v.next_block + 1 /\ made.next_inode = n + 1
  BY <1>1, <1>a
<1>4. /\ made.itab \in [Inodes -> Inode]
      /\ made.itab[n] = ino
      /\ \A i \in Inodes : i # n => made.itab[i] = v.itab[i]
  BY <1>1, <1>2, <1>3
<1>5. /\ SoundInv(made)
      /\ TreeShaped(v) => TreeShaped(made)
      /\ Live(made) = Live(v) \cup {n}
      /\ \A i \in Live(v), j \in Index : Slot(made, i, j) = Slot(v, i, j)
      /\ \A j \in Index : Slot(made, n, j) = Zero
      /\ made.itab[n].links > 0
      /\ n \in FirstInode .. made.next_inode - 1
      /\ \A i \in Live(v) : n > i
      /\ \A e \in EntryBlocks(made) : made.data[e].ino # n
  BY <1>2, <1>3, <1>4, NewInodeInv
<1> DEFINE w == ext2_add_dirent(made, d, name, n, "dir")
<1>6. /\ SoundInv(w)
      /\ TreeShaped(v) => TreeShaped(w)
      /\ Made(v, w, d, name, "dir")
  <2>1. n = v.next_inode
    OBVIOUS
  <2> HIDE DEF n
  <2> QED BY <1>3, <1>5, <2>1, MadeInv
<1> QED BY <1>6 DEF ext2_mkdir, made, ino

\* ext2_create_file preserves the invariant: a new inode without blocks, then
\* its entry in the parent.
LEMMA CreateFileInv ==
    ASSUME NEW v, SoundInv(v), v.next_inode <= MaxInode,
           NEW d \in Live(v), NEW name \in Names
    PROVE  LET w == ext2_create_file(v, d, name)
           IN  /\ SoundInv(w)
               /\ TreeShaped(v) => TreeShaped(w)
               /\ Made(v, w, d, name, "reg")
<1> DEFINE n == v.next_inode
           ino == [type |-> "reg", links |-> 1, block |-> NoBlocks]
           made == [v EXCEPT !.itab[n] = ino, !.next_inode = @ + 1]
<1>1. /\ v = [itab |-> v.itab, data |-> v.data,
              next_block |-> v.next_block, next_inode |-> v.next_inode]
      /\ v.itab \in [Inodes -> Inode] /\ n \in Inodes
  BY Ext2Assumption DEF SoundInv, VolumeType, Inodes, Root
<1>2. ino \in Inode /\ ino.links > 0 /\ \A k \in Index : ino.block[k] = 0
  BY DEF Inode, NoBlocks
<1> HIDE DEF ino
<1>a. made = [v EXCEPT !.itab[n] = ino, !.next_inode = @ + 1]
  OBVIOUS
<1> HIDE DEF made
<1>3. /\ made = [itab |-> made.itab, data |-> made.data,
                 next_block |-> made.next_block, next_inode |-> made.next_inode]
      /\ made.itab = [v.itab EXCEPT ![n] = ino] /\ made.data = v.data
      /\ made.next_block = v.next_block /\ made.next_inode = n + 1
  BY <1>1, <1>a
<1>4. /\ made.itab \in [Inodes -> Inode]
      /\ made.itab[n] = ino
      /\ \A i \in Inodes : i # n => made.itab[i] = v.itab[i]
  BY <1>1, <1>2, <1>3
<1>5. /\ SoundInv(made)
      /\ TreeShaped(v) => TreeShaped(made)
      /\ Live(made) = Live(v) \cup {n}
      /\ \A i \in Live(v), j \in Index : Slot(made, i, j) = Slot(v, i, j)
      /\ \A j \in Index : Slot(made, n, j) = Zero
      /\ made.itab[n].links > 0
      /\ n \in FirstInode .. made.next_inode - 1
      /\ \A i \in Live(v) : n > i
      /\ \A e \in EntryBlocks(made) : made.data[e].ino # n
  BY <1>2, <1>3, <1>4, NewInodeInv
<1> DEFINE w == ext2_add_dirent(made, d, name, n, "reg")
<1>6. /\ SoundInv(w)
      /\ TreeShaped(v) => TreeShaped(w)
      /\ Made(v, w, d, name, "reg")
  <2>1. n = v.next_inode
    OBVIOUS
  <2> HIDE DEF n
  <2> QED BY <1>3, <1>5, <2>1, MadeInv
<1> QED BY <1>6 DEF ext2_create_file, made, ino

\* ext2_write_file only ever writes blocks it has just taken, and gives them to
\* the one inode. Of text it keeps the tree.
LEMMA WriteFileInv ==
    ASSUME NEW v, SoundInv(v), NEW i \in Live(v), NEW bytes, Len(bytes) \in Nat,
           \A k \in 1 .. Len(bytes) :
               /\ bytes[k] \in Content
               /\ bytes[k].kind = "dirent" /\ bytes[k].ino # 0 =>
                      bytes[k].ino \in FirstInode .. v.next_inode - 1
    PROVE  LET w == ext2_write_file(v, i, bytes)
               m == Written(bytes)
           IN  /\ SoundInv(w)
               /\ w.next_inode = v.next_inode
               /\ /\ TreeShaped(v)
                  /\ \A k \in 1 .. Len(bytes) : ~IsEntry(bytes[k])
                  => TreeShaped(w)
               /\ m = 0 => w = v
               /\ m # 0 => \A x \in Live(v), k \in Index :
                     Slot(w, x, k) = IF x # i THEN Slot(v, x, k)
                                     ELSE IF k < m THEN bytes[k + 1] ELSE Zero
<1> DEFINE m == Written(bytes)
           first == v.next_block
           fresh == first .. first + m - 1
           w == ext2_write_file(v, i, bytes)
<1>t. /\ Len(bytes) \in Nat
      /\ \A k \in 1 .. Len(bytes) :
             /\ bytes[k] \in Content
             /\ bytes[k].kind = "dirent" /\ bytes[k].ino # 0 =>
                    bytes[k].ino \in FirstInode .. v.next_inode - 1
  OBVIOUS
<1>a. /\ VolumeType(v) /\ PointersDisjoint(v) /\ PointersDense(v) /\ EntriesKnown(v)
  BY DEF SoundInv
<1>b. /\ Live(v) \subseteq Inodes
      /\ \A j \in Inodes, k \in Index : v.itab[j].block[k] \in Nat
      /\ FirstInode .. v.next_inode - 1 \subseteq Inodes
      /\ Index \subseteq Nat
  BY <1>a, LiveTyped
<1>c. /\ m \in Nat /\ m <= Len(bytes) /\ m <= NDirect
      /\ first \in Nat /\ first >= FirstBlock /\ FirstBlock \in Nat \ {0}
  BY <1>a, <1>t, Ext2Assumption DEF Written, VolumeType
<1>1. CASE m = 0
  BY <1>1 DEF ext2_write_file
<1>2. CASE m # 0
  <2> HIDE DEF m
  <2> DEFINE ptrs == [k \in Index |-> IF k < m THEN first + k ELSE 0]
             blocks == [b \in DOMAIN v.data \cup fresh |->
                          IF b \in fresh THEN bytes[b - first + 1] ELSE v.data[b]]
  <2>1. w = [v EXCEPT !.itab[i].block = ptrs, !.data = blocks, !.next_block = @ + m]
    BY <1>2 DEF ext2_write_file, m
  <2>2. /\ \A k \in Index : ptrs[k] = IF k < m THEN first + k ELSE 0
        /\ ptrs \in [Index -> Nat]
    BY <1>b, <1>c
  <2>3. /\ DOMAIN blocks = DOMAIN v.data \cup fresh
        /\ \A b \in fresh : blocks[b] = bytes[b - first + 1]
        /\ \A b \in DOMAIN v.data : b \notin fresh => blocks[b] = v.data[b]
        /\ blocks = [b \in DOMAIN blocks |-> blocks[b]]
    OBVIOUS
  <2>4. \A b \in fresh : b - first + 1 \in 1 .. Len(bytes)
    BY <1>c, <1>t
  <2> HIDE DEF w, ptrs, blocks
  <2>5. /\ w.itab = [v.itab EXCEPT ![i].block = ptrs]
        /\ w.data = blocks
        /\ w.next_block = first + m
        /\ w.next_inode = v.next_inode
        /\ w = [itab |-> w.itab, data |-> w.data,
                next_block |-> w.next_block, next_inode |-> w.next_inode]
    BY <2>1, <1>a DEF VolumeType
  <2>6. Live(w) = Live(v)
    BY <2>5 DEF Live
  <2>7. /\ w.itab \in [Inodes -> Inode]
        /\ w.itab[i].block = ptrs
        /\ \A j \in Inodes : j # i => w.itab[j] = v.itab[j]
        /\ \A j \in Inodes : w.itab[j].links = v.itab[j].links
    <3>1. v.itab \in [Inodes -> Inode] /\ i \in Inodes
      BY <1>a, <1>b DEF VolumeType
    <3>2. ptrs \in [Index -> Nat]
      BY <2>2
    <3>3. [v.itab[i] EXCEPT !.block = ptrs] \in Inode
      BY <3>1, <3>2 DEF Inode
    <3>4. [v.itab[i] EXCEPT !.block = ptrs].block = ptrs
      BY <3>1 DEF Inode
    <3>5. [v.itab[i] EXCEPT !.block = ptrs].links = v.itab[i].links
      BY <3>1 DEF Inode
    <3>6. w.itab = [v.itab EXCEPT ![i] = [v.itab[i] EXCEPT !.block = ptrs]]
      BY <2>5
    <3> QED BY <3>1, <3>3, <3>4, <3>5, <3>6
  <2>8. fresh \cap DOMAIN v.data = {}
    BY <1>a, <1>c DEF VolumeType
  <2>9. /\ EntryBlocks(v) \subseteq EntryBlocks(w)
        /\ EntryBlocks(w) \subseteq EntryBlocks(v) \cup fresh
        /\ \A e \in EntryBlocks(v) : w.data[e] = v.data[e] /\ e \notin fresh
        /\ \A b \in fresh : w.data[b] = bytes[b - first + 1]
    <3>2. \A b \in DOMAIN v.data : blocks[b] = v.data[b] /\ b \notin fresh
      BY <2>3, <2>8
    <3> HIDE DEF fresh
    <3> QED BY <2>3, <2>5, <3>2 DEF EntryBlocks
  <2>10. VolumeType(w)
    <3>1. \A b \in DOMAIN w.data : w.data[b] \in Content
      <4> SUFFICES ASSUME NEW b \in DOMAIN w.data
                   PROVE  w.data[b] \in Content
        OBVIOUS
      <4>1. CASE b \in fresh
        <5>1. bytes[b - first + 1] \in Content
          BY <1>t, <2>4, <4>1
        <5> QED BY <5>1, <2>3, <2>5, <4>1
      <4>2. CASE b \notin fresh
        BY <2>3, <2>5, <4>2, <1>a DEF VolumeType
      <4> QED BY <4>1, <4>2
    <3>2. DOMAIN w.data \subseteq FirstBlock .. w.next_block - 1
      BY <2>3, <2>5, <1>a, <1>c DEF VolumeType
    <3> QED BY <2>3, <2>5, <2>7, <3>1, <3>2, <1>a, <1>c DEF VolumeType
  <2>11. PointersDisjoint(w)
    <3> SUFFICES ASSUME NEW x \in Live(v), NEW k \in Index, w.itab[x].block[k] # 0
                 PROVE  /\ w.itab[x].block[k] \in FirstBlock .. w.next_block - 1
                        /\ \A j \in Live(v), l \in Index :
                             w.itab[j].block[l] = w.itab[x].block[k] => x = j /\ k = l
      BY <2>6 DEF PointersDisjoint
    <3>1. \A j \in Live(v), l \in Index : j # i =>
            /\ w.itab[j].block[l] = v.itab[j].block[l]
            /\ v.itab[j].block[l] # 0 => v.itab[j].block[l] \in FirstBlock .. first - 1
      BY <2>7, <1>a, <1>b DEF PointersDisjoint
    <3>2. \A l \in Index : w.itab[i].block[l] = IF l < m THEN first + l ELSE 0
      BY <2>2, <2>7
    <3>3. CASE x = i
      <4>1. k < m /\ w.itab[x].block[k] = first + k /\ k \in Nat
        BY <3>2, <3>3, <1>b
      <4>2. \A l \in Index : w.itab[i].block[l] = first + k => l = k
        BY <3>2, <4>1, <1>b, <1>c
      <4>3. \A j \in Live(v), l \in Index : j # i => w.itab[j].block[l] # first + k
        <5>1. first + k # 0 /\ first + k \notin FirstBlock .. first - 1
          BY <4>1, <1>c
        <5>2. \A j \in Live(v), l \in Index : j # i =>
                w.itab[j].block[l] = 0 \/ w.itab[j].block[l] \in FirstBlock .. first - 1
          BY <3>1
        <5> QED BY <5>1, <5>2
      <4>4. first + k \in FirstBlock .. first + m - 1
        BY <4>1, <1>c
      <4>5. w.next_block = first + m
        BY <2>5
      <4>6. w.itab[x].block[k] \in FirstBlock .. w.next_block - 1
        BY <4>1, <4>4, <4>5, <1>c
      <4>7. ASSUME NEW j \in Live(v), NEW l \in Index,
                   w.itab[j].block[l] = w.itab[x].block[k]
            PROVE  x = j /\ k = l
        BY <3>3, <4>1, <4>2, <4>3, <4>7
      <4> QED BY <4>6, <4>7
    <3>4. CASE x # i
      <4>1. /\ w.itab[x].block[k] = v.itab[x].block[k]
            /\ v.itab[x].block[k] \in FirstBlock .. first - 1
        BY <3>1, <3>4
      <4>2. \A l \in Index : w.itab[i].block[l] # w.itab[x].block[k]
        BY <4>1, <3>2, <1>b, <1>c
      <4> QED BY <3>1, <4>1, <4>2, <2>5, <1>a, <1>c DEF PointersDisjoint
    <3> QED BY <3>3, <3>4
  <2>12. PointersDense(w)
    <3> SUFFICES ASSUME NEW x \in Live(v), NEW k \in Index, NEW l \in Index,
                        k < l, w.itab[x].block[k] = 0
                 PROVE  w.itab[x].block[l] = 0
      BY <2>6 DEF PointersDense
    <3>1. CASE x = i
      BY <2>2, <2>7, <3>1, <1>b, <1>c
    <3>2. CASE x # i
      <4>1. w.itab[x] = v.itab[x]
        BY <2>7, <3>2, <1>b
      <4> QED BY <4>1, <1>a DEF PointersDense
    <3> QED BY <3>1, <3>2
  <2>13. EntriesKnown(w)
    <3> SUFFICES ASSUME NEW e \in EntryBlocks(w)
                 PROVE  w.data[e].ino \in FirstInode .. v.next_inode - 1
      BY <2>5 DEF EntriesKnown
    <3>1. CASE e \in fresh
      <4>1. w.data[e] = bytes[e - first + 1] /\ e - first + 1 \in 1 .. Len(bytes)
        BY <2>4, <2>9, <3>1
      <4>2. w.data[e].kind = "dirent" /\ w.data[e].ino # 0
        BY DEF EntryBlocks
      <4> QED BY <1>t, <4>1, <4>2
    <3>2. CASE e \in EntryBlocks(v)
      BY <2>9, <3>2, <1>a DEF EntriesKnown
    <3> QED BY <2>9, <3>1, <3>2
  <2>14. ASSUME TreeShaped(v), \A k \in 1 .. Len(bytes) : ~IsEntry(bytes[k])
         PROVE  TreeShaped(w)
    <3>a. EntriesUnique(v) /\ EntriesLive(v) /\ EntriesDescend(v)
      BY <2>14 DEF TreeShaped
    <3>0. EntryBlocks(w) = EntryBlocks(v)
      <4>1. \A b \in fresh : ~IsEntry(w.data[b])
        BY <2>4, <2>9, <2>14
      <4>2. \A b \in fresh : b \notin EntryBlocks(w)
        BY <4>1 DEF EntryBlocks, IsEntry
      <4> HIDE DEF fresh
      <4> QED BY <2>9, <4>2
    <3>1. EntriesUnique(w)
      BY <2>9, <3>0, <3>a DEF EntriesUnique
    <3>2. EntriesLive(w)
      <4>1. \A e \in EntryBlocks(v) : v.data[e].ino \in Inodes
        BY <3>a, <1>b DEF EntriesLive
      <4> QED BY <2>5, <2>7, <2>9, <3>0, <4>1, <3>a DEF EntriesLive
    <3>3. EntriesDescend(w)
      <4> SUFFICES ASSUME NEW x \in Live(v), NEW k \in Index,
                          w.itab[x].block[k] \in EntryBlocks(v)
                   PROVE  w.data[w.itab[x].block[k]].ino > x
        BY <2>6, <3>0 DEF EntriesDescend
      <4>1. CASE x = i
        <5>1. w.itab[i].block[k] \in fresh \/ w.itab[i].block[k] = 0
          BY <2>2, <2>7, <1>b, <1>c
        <5>2. 0 \notin EntryBlocks(v)
          BY <1>a, <1>c DEF EntryBlocks, VolumeType
        <5> QED BY <5>1, <5>2, <2>9, <4>1
      <4>2. CASE x # i
        BY <2>7, <2>9, <4>2, <3>a, <1>b DEF EntriesDescend
      <4> QED BY <4>1, <4>2
    <3> QED BY <3>1, <3>2, <3>3 DEF TreeShaped
  <2>15. ASSUME NEW x \in Live(v), NEW k \in Index
         PROVE  Slot(w, x, k) = IF x # i THEN Slot(v, x, k)
                                ELSE IF k < m THEN bytes[k + 1] ELSE Zero
    <3>1. CASE x = i /\ k < m
      <4>1. w.itab[x].block[k] = first + k /\ first + k # 0 /\ first + k \in fresh
        BY <2>2, <2>7, <3>1, <1>b, <1>c
      <4>2. first + k \in DOMAIN w.data /\ w.data[first + k] = bytes[(first + k) - first + 1]
        BY <2>3, <2>5, <2>9, <4>1
      <4>3. (first + k) - first + 1 = k + 1
        BY <1>b, <1>c
      <4> QED BY <3>1, <4>1, <4>2, <4>3 DEF Slot, ReadBlock
    <3>2. CASE x = i /\ ~(k < m)
      <4>1. w.itab[x].block[k] = 0
        BY <2>2, <2>7, <3>2
      <4> QED BY <3>2, <4>1 DEF Slot
    <3>3. CASE x # i
      <4>1. w.itab[x].block[k] = v.itab[x].block[k]
        BY <2>7, <3>3, <1>b
      <4>2. v.itab[x].block[k] # 0 => v.itab[x].block[k] \notin fresh
        BY <1>a, <1>c DEF PointersDisjoint
      <4>3. v.itab[x].block[k] \in DOMAIN w.data <=>
                v.itab[x].block[k] \in DOMAIN v.data \cup fresh
        BY <2>3, <2>5
      <4>4. v.itab[x].block[k] \in DOMAIN v.data =>
                w.data[v.itab[x].block[k]] = v.data[v.itab[x].block[k]]
        BY <2>3, <2>5, <2>8
      <4> HIDE DEF fresh
      <4> QED BY <3>3, <4>1, <4>2, <4>3, <4>4 DEF Slot, ReadBlock
    <3> QED BY <3>1, <3>2, <3>3
  <2>16. SoundInv(w)
    BY <2>10, <2>11, <2>12, <2>13 DEF SoundInv
  <2> QED BY <1>2, <2>5, <2>14, <2>15, <2>16 DEF w, m
<1> QED BY <1>1, <1>2

\* ext2_unlink empties the inode of the entry it clears; in a tree that entry
\* was the only one, so none is left dangling.
LEMMA UnlinkInv ==
    ASSUME NEW v, SoundInv(v), NEW d \in Live(v), NEW name \in Names
    PROVE  LET w == ext2_unlink(v, d, name)
               H == UnlinkHits(v, d, name)
               victim == UnlinkVictim(v, d, name)
           IN  /\ SoundInv(w)
               /\ w.next_inode = v.next_inode
               /\ TreeShaped(v) => TreeShaped(w)
               /\ H = {} => w = v
               /\ H # {} =>
                     /\ Min(H) \in H
                     /\ victim = Slot(v, d, Min(H)).ino
                     /\ victim \in FirstInode .. v.next_inode - 1
                     /\ TreeShaped(v) => victim > d
                     /\ \A i \in Live(v), j \in Index :
                           Slot(w, i, j) =
                               IF i = victim THEN Zero
                               ELSE IF i = d /\ j = Min(H)
                               THEN [Slot(v, d, j) EXCEPT !.ino = 0]
                               ELSE Slot(v, i, j)
<1> DEFINE H == UnlinkHits(v, d, name)
           k == Min(H)
           b == v.itab[d].block[k]
           victim == UnlinkVictim(v, d, name)
           w == ext2_unlink(v, d, name)
<1>a. VolumeType(v) /\ PointersDisjoint(v) /\ PointersDense(v) /\ EntriesKnown(v)
  BY DEF SoundInv
<1>b. /\ Live(v) \subseteq Inodes
      /\ FirstInode .. v.next_inode - 1 \subseteq Inodes
      /\ \A i \in Inodes : v.itab[i] \in Inode
      /\ Index \subseteq Nat
  BY <1>a, LiveTyped
<1>1. CASE H = {}
  BY <1>1 DEF ext2_unlink
<1>2. CASE H # {}
  <2>1. k \in H
    <3>1. H \in SUBSET Nat
      BY <1>b DEF UnlinkHits
    <3> HIDE DEF H
    <3> QED BY <1>2, <3>1, MinIsLeast
  <2>2. /\ b \in EntryBlocks(v) /\ k \in Index /\ b # 0
        /\ ReadBlock(v, b) = v.data[b] /\ victim = v.data[b].ino
        /\ Slot(v, d, k) = v.data[b]
    <3>1. k \in Index /\ Named(ReadBlock(v, b), name) /\ b # 0
      BY <2>1 DEF UnlinkHits
    <3>2. b \in DOMAIN v.data
      BY <3>1 DEF ReadBlock, Named, Zero
    <3> QED BY <3>1, <3>2 DEF ReadBlock, Named, EntryBlocks, UnlinkVictim, Slot
  <2>3. victim \in FirstInode .. v.next_inode - 1 /\ victim \in Inodes
    BY <2>2, <1>a, <1>b DEF EntriesKnown
  <2>4. w = [v EXCEPT !.itab[victim].block = NoBlocks,
                      !.itab[victim].links = 0,
                      !.data = Store(@, b, [ReadBlock(v, b) EXCEPT !.ino = 0])]
    BY <1>2 DEF ext2_unlink
  <2> DEFINE gone == [v.data[b] EXCEPT !.ino = 0]
  <2>5. /\ gone \in Content /\ gone.ino = 0 /\ gone.kind = "dirent"
    <3>1. v.data[b] \in Content /\ v.data[b].kind = "dirent"
      BY <2>2, <1>a DEF EntryBlocks, VolumeType
    <3>2. v.data[b] \in [kind : {"dirent"}, ino : {0} \cup Inodes, name : Names,
                         ftype : {"reg", "dir"}]
      BY <3>1 DEF Content, Zero
    <3> QED BY <3>2 DEF Content
  <2>g. gone = [Slot(v, d, k) EXCEPT !.ino = 0]
    BY <2>2
  <2> HIDE DEF w, gone, victim, k, H
  <2>6. /\ w.itab = [v.itab EXCEPT ![victim] =
                       [[v.itab[victim] EXCEPT !.block = NoBlocks] EXCEPT !.links = 0]]
        /\ w.data = Store(v.data, b, gone)
        /\ w.next_block = v.next_block
        /\ w.next_inode = v.next_inode
        /\ w = [itab |-> w.itab, data |-> w.data,
                next_block |-> w.next_block, next_inode |-> w.next_inode]
    BY <2>2, <2>3, <2>4, <1>a DEF VolumeType, gone
  <2>7. Live(w) = Live(v)
    BY <2>6 DEF Live
  <2>8. /\ w.itab \in [Inodes -> Inode]
        /\ \A j \in Index : w.itab[victim].block[j] = 0
        /\ \A i \in Inodes : i # victim => w.itab[i] = v.itab[i]
    <3>1. v.itab \in [Inodes -> Inode] /\ v.itab[victim] \in Inode
      BY <1>a, <2>3 DEF VolumeType
    <3>2. NoBlocks \in [Index -> Nat] /\ \A j \in Index : NoBlocks[j] = 0
      BY DEF NoBlocks
    <3> DEFINE c == [v.itab[victim] EXCEPT !.block = NoBlocks]
               e == [c EXCEPT !.links = 0]
    <3>a. c \in Inode /\ c.block = NoBlocks
      BY <3>1, <3>2 DEF Inode
    <3>4. w.itab = [v.itab EXCEPT ![victim] = e]
      BY <2>6
    <3> HIDE DEF c
    <3>3. e \in Inode /\ e.block = NoBlocks
      BY <3>a DEF Inode
    <3> HIDE DEF e
    <3> QED BY <2>3, <3>1, <3>2, <3>3, <3>4
  <2>9. /\ DOMAIN w.data = DOMAIN v.data
        /\ w.data[b] = gone
        /\ \A x \in DOMAIN v.data : x # b => w.data[x] = v.data[x]
        /\ w.data = [x \in DOMAIN w.data |-> w.data[x]]
    BY <2>2, <2>6 DEF Store, EntryBlocks
  <2>10. EntryBlocks(w) = EntryBlocks(v) \ {b}
    BY <2>2, <2>5, <2>9 DEF EntryBlocks
  <2>11. VolumeType(w)
    BY <2>5, <2>6, <2>8, <2>9, <1>a DEF VolumeType
  <2>12. PointersDisjoint(w)
    <3>1. \A i \in Live(v), l \in Index :
            w.itab[i].block[l] = IF i = victim THEN 0 ELSE v.itab[i].block[l]
      BY <2>8, <1>b
    <3>2. \A i \in Live(v), l \in Index : w.itab[i].block[l] # 0 =>
            i # victim /\ w.itab[i].block[l] = v.itab[i].block[l]
      BY <3>1
    <3>3. w.next_block = v.next_block
      BY <2>6
    <3> QED BY <2>7, <3>2, <3>3, <1>a DEF PointersDisjoint
  <2>13. PointersDense(w)
    <3> SUFFICES ASSUME NEW i \in Live(v), NEW x \in Index, NEW l \in Index,
                        x < l, w.itab[i].block[x] = 0
                 PROVE  w.itab[i].block[l] = 0
      BY <2>7 DEF PointersDense
    <3>1. CASE i = victim
      BY <2>8, <3>1
    <3>2. CASE i # victim
      <4>1. w.itab[i] = v.itab[i]
        BY <2>8, <1>b, <3>2
      <4> QED BY <4>1, <1>a DEF PointersDense
    <3> QED BY <3>1, <3>2
  <2>14. \A e \in EntryBlocks(w) : e \in EntryBlocks(v) /\ w.data[e] = v.data[e]
    BY <2>9, <2>10 DEF EntryBlocks
  <2>15. EntriesKnown(w)
    BY <2>6, <2>14, <1>a DEF EntriesKnown
  <2>16. SoundInv(w)
    BY <2>11, <2>12, <2>13, <2>15 DEF SoundInv
  <2>17. ASSUME TreeShaped(v)
         PROVE  TreeShaped(w) /\ victim > d
    <3>a. EntriesUnique(v) /\ EntriesLive(v) /\ EntriesDescend(v)
      BY <2>17 DEF TreeShaped
    <3>b. \A e \in EntryBlocks(w) : v.data[e].ino # victim
      BY <2>2, <2>10, <3>a DEF EntriesUnique
    <3>1. EntriesUnique(w)
      BY <2>14, <3>a DEF EntriesUnique
    <3>2. EntriesLive(w)
      <4> SUFFICES ASSUME NEW e \in EntryBlocks(w)
                   PROVE  /\ w.data[e].ino \in FirstInode .. v.next_inode - 1
                          /\ w.itab[w.data[e].ino].links > 0
        BY <2>6 DEF EntriesLive
      <4>1. /\ w.data[e].ino \in FirstInode .. v.next_inode - 1
            /\ v.itab[w.data[e].ino].links > 0
        BY <2>14, <3>a DEF EntriesLive
      <4>2. w.itab[w.data[e].ino] = v.itab[w.data[e].ino]
        BY <2>8, <2>14, <3>b, <4>1, <1>b
      <4> QED BY <4>1, <4>2
    <3>3. EntriesDescend(w)
      <4> SUFFICES ASSUME NEW i \in Live(v), NEW x \in Index,
                          w.itab[i].block[x] \in EntryBlocks(w)
                   PROVE  w.data[w.itab[i].block[x]].ino > i
        BY <2>7 DEF EntriesDescend
      <4>1. 0 \notin EntryBlocks(v)
        BY <1>a, Ext2Assumption DEF EntryBlocks, VolumeType
      <4>2. i # victim
        BY <2>8, <2>14, <4>1
      <4>3. w.itab[i] = v.itab[i]
        BY <2>8, <1>b, <4>2
      <4> QED BY <2>14, <4>3, <3>a DEF EntriesDescend
    <3>4. victim > d
      BY <2>2, <3>a DEF EntriesDescend
    <3> QED BY <3>1, <3>2, <3>3, <3>4 DEF TreeShaped
  <2>18. ASSUME NEW i \in Live(v), NEW j \in Index
         PROVE  Slot(w, i, j) = IF i = victim THEN Zero
                                ELSE IF i = d /\ j = k
                                THEN [Slot(v, d, j) EXCEPT !.ino = 0]
                                ELSE Slot(v, i, j)
    <3>1. CASE i = victim
      BY <2>8, <3>1 DEF Slot
    <3>2. CASE i # victim /\ i = d /\ j = k
      <4>1. w.itab[i].block[j] = b /\ b \in DOMAIN w.data /\ w.data[b] = gone
        BY <2>2, <2>8, <2>9, <1>b, <3>2 DEF EntryBlocks
      <4> QED BY <2>2, <2>g, <3>2, <4>1 DEF Slot, ReadBlock
    <3>3. CASE i # victim /\ ~(i = d /\ j = k)
      <4>1. w.itab[i].block[j] = v.itab[i].block[j]
        BY <2>8, <1>b, <3>3
      <4>2. v.itab[i].block[j] # b
        BY <2>2, <3>3, <1>a DEF PointersDisjoint
      <4> QED BY <2>9, <3>3, <4>1, <4>2 DEF Slot, ReadBlock
    <3> QED BY <3>1, <3>2, <3>3
  <2>19. victim = Slot(v, d, k).ino
    BY <2>2
  <2> QED BY <1>2, <2>1, <2>3, <2>6, <2>16, <2>17, <2>18, <2>19 DEF w, victim, k, H
<1> QED BY <1>1, <1>2

\* A new disk, formatted by its first mount.
LEMMA MountMakes ==
    LET w == ext2_mount(BlankDisk)
    IN  /\ VolumeInv(w)
        /\ w.next_inode = FirstInode
        /\ \A i \in Live(w), k \in Index : w.itab[i].block[k] = 0
<1> DEFINE w == ext2_mount(BlankDisk)
<1>1. /\ ZeroInode \in Inode /\ Superblock \in Inode
      /\ \A k \in Index : ZeroInode.block[k] = 0
  BY Ext2Assumption DEF ZeroInode, Superblock, Inode, NoBlocks
<1>2. /\ w = [itab |-> w.itab, data |-> w.data,
              next_block |-> w.next_block, next_inode |-> w.next_inode]
      /\ w.itab = [n \in Inodes |-> IF n = SbInode THEN Superblock ELSE ZeroInode]
      /\ w.data = <<>> /\ w.next_block = FirstBlock /\ w.next_inode = FirstInode
  <2>1. BlankDisk.itab[SbInode].block[MagicIndex] # SbPointers[MagicIndex]
    BY <1>1, Ext2Assumption DEF BlankDisk
  <2> DEFINE T == [n \in Inodes |-> IF n = SbInode THEN Superblock ELSE ZeroInode]
             disk == ext2_format(BlankDisk)
  <2>2. disk = [itab |-> T, data |-> <<>>, next_block |-> FirstBlock,
                next_inode |-> FirstInode]
    BY DEF ext2_format, BlankDisk
  <2>3. w = [disk EXCEPT !.next_block = FirstBlock, !.next_inode = FirstInode]
    BY <2>1 DEF ext2_mount
  <2> HIDE DEF w, disk, T
  <2>4. w = [itab |-> T, data |-> <<>>, next_block |-> FirstBlock,
             next_inode |-> FirstInode]
    BY <2>2, <2>3
  <2> QED BY <2>4 DEF T
<1> HIDE DEF w
<1>3. /\ w.itab \in [Inodes -> Inode] /\ w.itab[Root] = ZeroInode
      /\ DOMAIN w.data = {} /\ w.data = [b \in DOMAIN w.data |-> w.data[b]]
      /\ Live(w) = {Root} /\ EntryBlocks(w) = {}
  <2>1. Root \in Inodes /\ Root # SbInode
    BY Ext2Assumption DEF Root, Inodes, SbInode
  <2>2. DOMAIN w.data = {} /\ w.data = [b \in DOMAIN w.data |-> w.data[b]]
    BY <1>2
  <2>3. Live(w) = {Root}
    BY <1>2, Ext2Assumption DEF Live
  <2> QED BY <1>1, <1>2, <2>1, <2>2, <2>3 DEF EntryBlocks
<1>4. VolumeType(w)
  BY <1>2, <1>3, Ext2Assumption DEF VolumeType
<1>5. VolumeInv(w)
  BY <1>1, <1>3, <1>4 DEF VolumeInv, SoundInv, PointersDisjoint, PointersDense,
       EntriesKnown, TreeShaped, EntriesUnique, EntriesLive, EntriesDescend
<1> QED BY <1>1, <1>2, <1>3, <1>5 DEF w

LEMMA MountInv == VolumeInv(ext2_mount(BlankDisk))
BY MountMakes

LEMMA MountEmpty ==
    /\ ext2_mount(BlankDisk).next_inode = FirstInode
    /\ \A i \in Live(ext2_mount(BlankDisk)), k \in Index :
          ext2_mount(BlankDisk).itab[i].block[k] = 0
BY MountMakes

-----------------------------------------------------------------------------
\* With no hole in the pointers the loops of ext2_find_inode and ext2_unlink visit
\* the same blocks.
LEMMA HitsAgree ==
    ASSUME NEW v, SoundInv(v), NEW i \in Live(v), NEW name
    PROVE  /\ Visited(v.itab[i]) = {k \in Index : v.itab[i].block[k] # 0}
           /\ FindHits(v, i, name) = UnlinkHits(v, i, name)
<1>1. PointersDense(v)
  BY DEF SoundInv
<1>2. Index = 0 .. NDirect - 1 /\ NDirect \in Nat
  BY Ext2Assumption DEF Index
<1>3. \A k \in Index : v.itab[i].block[k] # 0 =>
         \A j \in 0 .. k : v.itab[i].block[j] # 0
  BY <1>1, <1>2 DEF PointersDense
<1>4. \A k \in Index : (\A j \in 0 .. k : v.itab[i].block[j] # 0)
         => v.itab[i].block[k] # 0
  BY <1>2
<1> QED BY <1>3, <1>4 DEF FindHits, UnlinkHits, Visited

\* ext2_find_inode finds the entry ext2_unlink would clear.
LEMMA FindIsUnlink ==
    ASSUME NEW v, SoundInv(v), NEW i \in Live(v), NEW name
    PROVE  ext2_find_inode(v, i, name) =
               IF UnlinkHits(v, i, name) = {} THEN -1 ELSE UnlinkVictim(v, i, name)
BY HitsAgree DEF ext2_find_inode, UnlinkVictim

\* Its answer is -1 or an inode of this boot.
LEMMA FindTyped ==
    ASSUME NEW v, SoundInv(v), NEW i \in Live(v), NEW name \in Names
    PROVE  ext2_find_inode(v, i, name) = -1 \/ ext2_find_inode(v, i, name) \in Live(v)
<1>1. UnlinkHits(v, i, name) # {} => UnlinkVictim(v, i, name) \in FirstInode .. v.next_inode - 1
  BY UnlinkInv
<1>2. FirstInode .. v.next_inode - 1 \subseteq Live(v)
  BY LiveTyped DEF SoundInv
<1> QED BY <1>1, <1>2, FindIsUnlink

\* The blocks of a text.
LEMMA TextTyped ==
    ASSUME NEW chunks \in Files
    PROVE  /\ Len(Text(chunks)) = Len(chunks) /\ Len(chunks) \in Nat
           /\ \A k \in 1 .. Len(chunks) :
                 /\ Text(chunks)[k] = Data(chunks[k])
                 /\ Text(chunks)[k] \in Content /\ Text(chunks)[k].kind = "data"
<1>1. chunks \in Seq(Payloads)
  BY Ext2Assumption
<1>2. Text(chunks) \in Seq(Content) /\ Len(Text(chunks)) = Len(chunks)
  BY <1>1 DEF Text, Data, Content
<1> QED BY <1>1, <1>2 DEF Text, Data, Content

\* A step of module Ext2 keeps the invariant.
LEMMA VolumeStep == VolumeInv(vol) /\ [Next]_vol => VolumeInv(vol')
<1> SUFFICES ASSUME VolumeInv(vol), [Next]_vol
             PROVE  VolumeInv(vol')
  OBVIOUS
<1>a. SoundInv(vol) /\ TreeShaped(vol)
  BY DEF VolumeInv
<1>1. ASSUME NEW i \in Live(vol), NEW name \in Names, Mkdir(i, name)
      PROVE  VolumeInv(vol')
  BY <1>a, <1>1, MkdirInv DEF Mkdir, InodeLeft, VolumeInv
<1>2. ASSUME NEW i \in Live(vol), NEW name \in Names, CreateFile(i, name)
      PROVE  VolumeInv(vol')
  BY <1>a, <1>2, CreateFileInv DEF CreateFile, InodeLeft, VolumeInv
<1>3. ASSUME NEW i \in Live(vol), NEW name \in Names, Unlink(i, name)
      PROVE  VolumeInv(vol')
  BY <1>a, <1>3, UnlinkInv DEF Unlink, VolumeInv
<1>4. ASSUME NEW i \in Live(vol), NEW chunks \in Files, WriteFile(i, chunks)
      PROVE  VolumeInv(vol')
  <2>1. \A k \in 1 .. Len(Text(chunks)) :
           /\ Text(chunks)[k] \in Content
           /\ Text(chunks)[k].kind = "data" /\ ~IsEntry(Text(chunks)[k])
    BY TextTyped DEF IsEntry
  <2>2. Len(Text(chunks)) \in Nat /\ vol' = ext2_write_file(vol, i, Text(chunks))
    BY <1>4, TextTyped DEF WriteFile
  <2> QED BY <1>a, <2>1, <2>2, WriteFileInv DEF VolumeInv
<1>5. CASE UNCHANGED vol
  BY <1>5
<1> QED BY <1>1, <1>2, <1>3, <1>4, <1>5 DEF Next

\* Every volume one boot can reach satisfies the invariant.
THEOREM VolumeInvariant == Spec => []VolumeInv(vol)
<1>1. Init => VolumeInv(vol)
  BY MountInv DEF Init
<1>2. VolumeInv(vol) /\ [Next]_vol => VolumeInv(vol)'
  BY VolumeStep
<1> QED BY <1>1, <1>2, PTL DEF Spec

\* The volume keeps its type.
THEOREM TypeCorrect == Spec => []TypeOK
<1>1. VolumeInv(vol) => TypeOK
  BY DEF VolumeInv, SoundInv, TypeOK
<1> QED BY <1>1, VolumeInvariant, PTL

\* No two block pointers of the volume are equal and none has a hole before it,
\* whatever is created, written and removed.
THEOREM BlocksStaySound == Spec => []BlocksSound
<1>1. VolumeInv(vol) => BlocksSound
  BY DEF VolumeInv, SoundInv, BlocksSound
<1> QED BY <1>1, VolumeInvariant, PTL

\* No inode ever has two names, no entry names an inode that was unlinked or not
\* yet made, and the directories never have a cycle.
THEOREM TreeStaysTree == Spec => []TreeKept
<1>1. VolumeInv(vol) => TreeKept
  BY DEF VolumeInv, TreeKept
<1> QED BY <1>1, VolumeInvariant, PTL

\* A name is found exactly when it can be removed, and both mean one inode:
\* with no hole in the pointers the two loops visit the same blocks.
THEOREM FindAgreesWithUnlink == Spec => []FindUnlinkAgree
<1>1. VolumeInv(vol) => FindUnlinkAgree
  BY FindIsUnlink DEF VolumeInv, FindUnlinkAgree
<1> QED BY <1>1, VolumeInvariant, PTL

-----------------------------------------------------------------------------
\* The objects of a volume.
State(v) ==
    [i \in Inodes |-> [k \in Index |-> IF i \in Live(v) THEN Slot(v, i, k) ELSE Zero]]

LEMMA ObjectsAre == Objects = State(vol)
BY DEF Objects, State, Slot

\* A slot holds a content, and what a live object shows is its slots.
LEMMA SlotTyped ==
    ASSUME NEW v, VolumeType(v)
    PROVE  /\ \A i, k : Slot(v, i, k) \in Content
           /\ \A i \in Live(v) : i \in Inodes /\ State(v)[i] = [k \in Index |-> Slot(v, i, k)]
           /\ \A i \in Inodes : i \notin Live(v) => State(v)[i] = [k \in Index |-> Zero]
<1>1. \A i, k : Slot(v, i, k) \in Content
  BY DEF Slot, ReadBlock, VolumeType, Content
<1>2. Live(v) \subseteq Inodes
  BY LiveTyped
<1>3. \A i \in Live(v) : i \in Inodes /\ State(v)[i] = [k \in Index |-> Slot(v, i, k)]
  BY <1>2 DEF State
<1>4. \A i \in Inodes : i \notin Live(v) => State(v)[i] = [k \in Index |-> Zero]
  BY DEF State
<1> QED BY <1>1, <1>3, <1>4

\* Making an inode is making an object.
LEMMA MadeState ==
    ASSUME NEW v, VolumeType(v), NEW w, NEW d \in Live(v), NEW name, NEW ftype,
           Made(v, w, d, name, ftype)
    PROVE  State(w) = IF FreeSlots(v, d) = {} THEN State(v)
                      ELSE [State(v) EXCEPT ![d][Min(FreeSlots(v, d))] =
                                Dirent(v.next_inode, name, ftype)]
<1> DEFINE F == FreeSlots(v, d)
           k == Min(F)
           n == v.next_inode
           e == Dirent(n, name, ftype)
<1>1. /\ Live(w) = Live(v) \cup {n} /\ n \notin Live(v)
      /\ F # {} => k \in F
      /\ \A j \in Index : Slot(w, n, j) = Zero
      /\ \A i \in Live(v), j \in Index :
            Slot(w, i, j) = IF F # {} /\ i = d /\ j = k THEN e ELSE Slot(v, i, j)
  BY DEF Made
<1>2. d \in Inodes
  BY LiveTyped
<1>3. F \subseteq Index
  BY DEF FreeSlots
<1> HIDE DEF F, k, n, e
<1>4. CASE F = {}
  BY <1>1, <1>4 DEF State, F
<1>5. CASE F # {}
  <2> DEFINE S == State(v)
             T == [S EXCEPT ![d][k] = e]
  <2>1. S = [i \in Inodes |-> S[i]] /\ \A i \in Inodes : S[i] = [j \in Index |-> S[i][j]]
    BY DEF State
  <2>2. k \in Index
    BY <1>1, <1>3, <1>5
  <2>3. \A i \in Inodes, j \in Index : S[i][j] = IF i \in Live(v) THEN Slot(v, i, j) ELSE Zero
    BY DEF State
  <2>4. \A i \in Inodes, j \in Index : State(w)[i][j] = IF i \in Live(w) THEN Slot(w, i, j) ELSE Zero
    BY DEF State
  <2>5. State(w) = [i \in Inodes |-> [j \in Index |-> State(w)[i][j]]]
    BY DEF State
  <2> HIDE DEF S
  <2>6. T = [i \in Inodes |-> [j \in Index |-> IF i = d /\ j = k THEN e ELSE S[i][j]]]
    <3>1. T = [i \in Inodes |-> IF i = d THEN [S[d] EXCEPT ![k] = e] ELSE S[i]]
      BY <2>1, <1>2
    <3>2. [S[d] EXCEPT ![k] = e] = [j \in Index |-> IF j = k THEN e ELSE S[d][j]]
      BY <2>1, <1>2, <2>2
    <3> HIDE DEF T
    <3> QED BY <3>1, <3>2, <2>1, <1>2
  <2>7. \A i \in Inodes, j \in Index :
          State(w)[i][j] = IF i = d /\ j = k THEN e ELSE S[i][j]
    BY <1>1, <1>5, <2>3, <2>4
  <2> HIDE DEF T
  <2>8. State(w) = T
    BY <2>5, <2>6, <2>7
  <2> QED BY <1>5, <2>8 DEF S, T, F, k, e, n
<1> QED BY <1>4, <1>5 DEF F

\* A state whose slots are those of another but for one object and one slot.
LEMMA RemovedState ==
    ASSUME NEW v, SoundInv(v), TreeShaped(v), NEW d \in Live(v), NEW name \in Names,
           UnlinkHits(v, d, name) # {}
    PROVE  LET k == Min(UnlinkHits(v, d, name))
           IN  State(ext2_unlink(v, d, name)) =
                   [State(v) EXCEPT ![d][k].ino = 0,
                                    ![State(v)[d][k].ino] = [j \in Index |-> Zero]]
<1> DEFINE H == UnlinkHits(v, d, name)
           k == Min(H)
           victim == UnlinkVictim(v, d, name)
           w == ext2_unlink(v, d, name)
           S == State(v)
           T == [S EXCEPT ![d][k].ino = 0]
           U == [T EXCEPT ![victim] = [j \in Index |-> Zero]]
<1>1. /\ w.next_inode = v.next_inode
      /\ k \in H /\ victim = Slot(v, d, k).ino
      /\ victim \in FirstInode .. v.next_inode - 1 /\ victim > d
      /\ \A i \in Live(v), j \in Index :
            Slot(w, i, j) = IF i = victim THEN Zero
                            ELSE IF i = d /\ j = k THEN [Slot(v, d, j) EXCEPT !.ino = 0]
                            ELSE Slot(v, i, j)
  BY UnlinkInv
<1>2. VolumeType(v) /\ H \subseteq Index
  BY DEF SoundInv, UnlinkHits
<1> HIDE DEF H, k, victim, w, S
<1>3. Live(w) = Live(v)
  BY <1>1 DEF Live
<1>4. d \in Inodes /\ victim \in Inodes /\ victim \in Live(v) /\ k \in Index /\ d # victim
  BY <1>1, <1>2, LiveTyped
<1>5. /\ S = [i \in Inodes |-> S[i]] /\ \A i \in Inodes : S[i] = [j \in Index |-> S[i][j]]
      /\ \A i \in Inodes, j \in Index : S[i][j] = IF i \in Live(v) THEN Slot(v, i, j) ELSE Zero
      /\ State(w) = [i \in Inodes |-> [j \in Index |-> State(w)[i][j]]]
      /\ \A i \in Inodes, j \in Index :
            State(w)[i][j] = IF i \in Live(w) THEN Slot(w, i, j) ELSE Zero
  BY DEF State, S
<1>6. T = [i \in Inodes |-> [j \in Index |->
              IF i = d /\ j = k THEN [S[d][k] EXCEPT !.ino = 0] ELSE S[i][j]]]
  <2>1. T = [i \in Inodes |->
                IF i = d THEN [S[d] EXCEPT ![k] = [S[d][k] EXCEPT !.ino = 0]] ELSE S[i]]
    BY <1>4, <1>5
  <2>2. [S[d] EXCEPT ![k] = [S[d][k] EXCEPT !.ino = 0]] =
            [j \in Index |-> IF j = k THEN [S[d][k] EXCEPT !.ino = 0] ELSE S[d][j]]
    BY <1>4, <1>5
  <2> HIDE DEF T
  <2> QED BY <2>1, <2>2, <1>4, <1>5
<1> HIDE DEF T
<1>7. U = [i \in Inodes |-> IF i = victim THEN [j \in Index |-> Zero] ELSE T[i]]
  BY <1>4, <1>6
<1>8. U = [i \in Inodes |-> [j \in Index |->
              IF i = victim THEN Zero
              ELSE IF i = d /\ j = k THEN [S[d][k] EXCEPT !.ino = 0] ELSE S[i][j]]]
  BY <1>6, <1>7
<1> HIDE DEF U
<1>9. S[d][k] = Slot(v, d, k)
  BY <1>4, <1>5
<1>10. \A i \in Inodes, j \in Index :
          State(w)[i][j] = IF i = victim THEN Zero
              ELSE IF i = d /\ j = k THEN [S[d][k] EXCEPT !.ino = 0] ELSE S[i][j]
  BY <1>1, <1>3, <1>4, <1>5, <1>9
<1>11. State(w) = U
  <2> DEFINE gone == [S[d][k] EXCEPT !.ino = 0]
  <2>1. \A i \in Inodes, j \in Index :
          State(w)[i][j] = IF i = victim THEN Zero
              ELSE IF i = d /\ j = k THEN gone ELSE S[i][j]
    BY <1>10
  <2>2. U = [i \in Inodes |-> [j \in Index |->
              IF i = victim THEN Zero
              ELSE IF i = d /\ j = k THEN gone ELSE S[i][j]]]
    BY <1>8
  <2> HIDE DEF gone
  <2> QED BY <1>5, <2>1, <2>2
<1>12. victim = S[d][k].ino
  BY <1>1, <1>9
<1> QED BY <1>11, <1>12 DEF U, T, S, w, k, H

\* Writing a file replaces what its object held.
LEMMA ReplacedState ==
    ASSUME NEW v, SoundInv(v), NEW i \in Live(v), NEW chunks \in Files,
           Written(Text(chunks)) # 0
    PROVE  State(ext2_write_file(v, i, Text(chunks))) =
               [State(v) EXCEPT ![i] = [k \in Index |->
                   IF k < Len(chunks) THEN Data(chunks[k + 1]) ELSE Zero]]
<1> DEFINE bytes == Text(chunks)
           m == Written(bytes)
           w == ext2_write_file(v, i, bytes)
           S == State(v)
           new == [k \in Index |-> IF k < Len(chunks) THEN Data(chunks[k + 1]) ELSE Zero]
<1>1. /\ Len(bytes) = Len(chunks) /\ Len(chunks) \in Nat
      /\ \A k \in 1 .. Len(bytes) :
            /\ bytes[k] = Data(chunks[k])
            /\ bytes[k] \in Content /\ bytes[k].kind = "data"
  BY TextTyped
<1> HIDE DEF bytes
<1>2. /\ w.next_inode = v.next_inode
      /\ \A x \in Live(v), k \in Index :
            Slot(w, x, k) = IF x # i THEN Slot(v, x, k)
                            ELSE IF k < m THEN bytes[k + 1] ELSE Zero
  BY <1>1, WriteFileInv DEF bytes
<1>3. \A k \in Index : (k < m <=> k < Len(chunks))
  BY <1>1, Ext2Assumption DEF Written, Index
<1>4. \A k \in Index : k < m => bytes[k + 1] = Data(chunks[k + 1])
  BY <1>1, <1>3 DEF Index
<1>5. i \in Inodes
  BY LiveTyped DEF SoundInv
<1> HIDE DEF w, S, m
<1>6. Live(w) = Live(v)
  BY <1>2 DEF Live
<1>7. /\ S = [x \in Inodes |-> S[x]] /\ \A x \in Inodes : S[x] = [j \in Index |-> S[x][j]]
      /\ \A x \in Inodes, j \in Index : S[x][j] = IF x \in Live(v) THEN Slot(v, x, j) ELSE Zero
      /\ State(w) = [x \in Inodes |-> [j \in Index |-> State(w)[x][j]]]
      /\ \A x \in Inodes, j \in Index :
            State(w)[x][j] = IF x \in Live(w) THEN Slot(w, x, j) ELSE Zero
  BY DEF State, S
<1>8. \A x \in Inodes, j \in Index : State(w)[x][j] = IF x = i THEN new[j] ELSE S[x][j]
  BY <1>2, <1>3, <1>4, <1>6, <1>7
<1>9. new = [j \in Index |-> new[j]]
  OBVIOUS
<1> HIDE DEF new
<1>10. [S EXCEPT ![i] = new] =
          [x \in Inodes |-> [j \in Index |-> IF x = i THEN new[j] ELSE S[x][j]]]
  BY <1>5, <1>7, <1>9
<1>11. State(w) = [S EXCEPT ![i] = new]
  BY <1>7, <1>8, <1>10
<1> QED BY <1>11 DEF new, S, w, bytes

\* The slots of the abstract store are the slots of the volume.
LEMMA StoreSlots ==
    ASSUME SoundInv(vol), NEW d \in Live(vol)
    PROVE  /\ OS!Objs = Live(vol) /\ OS!Index = Index
           /\ OS!EmptySlots(d) = FreeSlots(vol, d)
           /\ \A name \in Names : OS!Entries(d, name) = UnlinkHits(vol, d, name)
<1>1. OS!Objs = Live(vol) /\ OS!Index = Index
  BY DEF OS!Objs, OS!Index, Live, Index, Root
<1>2. VolumeType(vol)
  BY DEF SoundInv
<1>3. \A k \in Index : Objects[d][k] = Slot(vol, d, k) /\ Slot(vol, d, k) \in Content
  <2>1. /\ \A k \in Index : Slot(vol, d, k) \in Content
        /\ State(vol)[d] = [k \in Index |-> Slot(vol, d, k)]
    BY <1>2, SlotTyped
  <2> QED BY <2>1, ObjectsAre
<1>4. \A k \in Index :
        NoRecLen(Slot(vol, d, k)) <=>
            \/ Objects[d][k] = [kind |-> "zero"]
            \/ Objects[d][k].kind = "data" /\ Objects[d][k].pay \in ShortPayloads
  BY <1>3 DEF NoRecLen, Content, Zero
<1>5. OS!EmptySlots(d) = FreeSlots(vol, d)
  BY <1>1, <1>4, FreeSlotsAre DEF OS!EmptySlots, OS!Empty
<1>6. ASSUME NEW name \in Names
      PROVE  OS!Entries(d, name) = UnlinkHits(vol, d, name)
  <2>1. \A k \in Index :
          (/\ vol.itab[d].block[k] # 0
           /\ Named(ReadBlock(vol, vol.itab[d].block[k]), name))
          <=> Named(Objects[d][k], name)
    BY <1>3 DEF Slot, Named, Zero
  <2> QED BY <1>1, <2>1 DEF OS!Entries, UnlinkHits, Named
<1> QED BY <1>1, <1>5, <1>6

\* Every call is a step of the store.
LEMMA StoreStep ==
    VolumeInv(vol) /\ [Next]_vol => [OS!Next]_<<Objects, vol.next_inode>>
<1> SUFFICES ASSUME VolumeInv(vol), [Next]_vol
             PROVE  [OS!Next]_<<Objects, vol.next_inode>>
  OBVIOUS
<1>a. /\ SoundInv(vol) /\ TreeShaped(vol) /\ VolumeType(vol)
      /\ Objects = State(vol) /\ Objects' = State(vol')
  BY ObjectsAre DEF VolumeInv, SoundInv, Objects, State, Slot
<1>b. ASSUME NEW d \in Live(vol), NEW name \in Names, NEW ftype,
             vol.next_inode <= MaxInode, Made(vol, vol', d, name, ftype)
      PROVE  OS!Make(d, name, ftype)
  <2>1. vol'.next_inode = vol.next_inode + 1
    BY <1>b DEF Made
  <2>2. Objects' = IF FreeSlots(vol, d) = {} THEN Objects
                   ELSE [Objects EXCEPT ![d][Min(FreeSlots(vol, d))] =
                             Dirent(vol.next_inode, name, ftype)]
    BY <1>a, <1>b, MadeState
  <2>3. OS!EmptySlots(d) = FreeSlots(vol, d)
    BY <1>a, StoreSlots
  <2>4. OS!Entry(vol.next_inode, name, ftype) = Dirent(vol.next_inode, name, ftype)
    BY DEF OS!Entry, Dirent
  <2>5. OS!Min(FreeSlots(vol, d)) = Min(FreeSlots(vol, d))
    BY DEF OS!Min, Min
  <2>6. Objects' = IF OS!EmptySlots(d) = {} THEN Objects
                   ELSE [Objects EXCEPT ![d][OS!Min(OS!EmptySlots(d))] =
                             OS!Entry(vol.next_inode, name, ftype)]
    BY <2>2, <2>3, <2>4, <2>5, Zenon
  <2>7. vol.next_inode' = vol.next_inode + 1
    BY <2>1
  <2> QED BY <1>b, <2>6, <2>7 DEF OS!Make
<1>1. ASSUME NEW i \in Live(vol), NEW name \in Names, Mkdir(i, name)
      PROVE  OS!Next
  <2>1. OS!Make(i, name, "dir")
    BY <1>a, <1>b, <1>1, MkdirInv DEF Mkdir, InodeLeft
  <2> QED BY <1>a, <2>1, StoreSlots DEF OS!Next
<1>2. ASSUME NEW i \in Live(vol), NEW name \in Names, CreateFile(i, name)
      PROVE  OS!Next
  <2>1. OS!Make(i, name, "reg")
    BY <1>a, <1>b, <1>2, CreateFileInv DEF CreateFile, InodeLeft
  <2> QED BY <1>a, <2>1, StoreSlots DEF OS!Next
<1>3. ASSUME NEW i \in Live(vol), NEW name \in Names, Unlink(i, name)
      PROVE  OS!Next \/ UNCHANGED <<Objects, vol.next_inode>>
  <2>0. vol' = ext2_unlink(vol, i, name)
    BY <1>3 DEF Unlink
  <2>1. CASE UnlinkHits(vol, i, name) = {}
    <3>1. vol' = vol
      BY <1>a, <2>0, <2>1, UnlinkInv
    <3> QED BY <1>a, <3>1
  <2>2. CASE UnlinkHits(vol, i, name) # {}
    <3>1. vol'.next_inode = vol.next_inode
      BY <1>a, <2>0, UnlinkInv
    <3> DEFINE k == Min(UnlinkHits(vol, i, name))
    <3>2. Objects' = [Objects EXCEPT ![i][k].ino = 0,
                                     ![Objects[i][k].ino] = [j \in Index |-> Zero]]
      BY <1>a, <2>0, <2>2, RemovedState
    <3>3. OS!Entries(i, name) = UnlinkHits(vol, i, name) /\ OS!Index = Index
      BY <1>a, StoreSlots
    <3>4. OS!Remove(i, name)
      <4>1. OS!Min(UnlinkHits(vol, i, name)) = k
        BY DEF OS!Min, Min
      <4>2. Objects' = [Objects EXCEPT ![i][OS!Min(OS!Entries(i, name))].ino = 0,
                          ![Objects[i][OS!Min(OS!Entries(i, name))].ino] =
                              [j \in OS!Index |-> OS!Empty]]
        BY <3>2, <3>3, <4>1, Zenon DEF OS!Empty, Zero
      <4>3. vol.next_inode' = vol.next_inode /\ OS!Entries(i, name) # {}
        BY <2>2, <3>1, <3>3
      <4> HIDE DEF k
      <4> QED BY <4>2, <4>3 DEF OS!Remove
    <3> QED BY <1>a, <3>4, StoreSlots DEF OS!Next
  <2> QED BY <2>1, <2>2
<1>4. ASSUME NEW i \in Live(vol), NEW chunks \in Files, WriteFile(i, chunks)
      PROVE  OS!Next \/ UNCHANGED <<Objects, vol.next_inode>>
  <2>0. vol' = ext2_write_file(vol, i, Text(chunks))
    BY <1>4 DEF WriteFile
  <2>t. /\ Len(Text(chunks)) = Len(chunks) /\ Len(chunks) \in Nat
        /\ \A k \in 1 .. Len(chunks) :
               Text(chunks)[k] \in Content /\ Text(chunks)[k].kind = "data"
    BY TextTyped
  <2>1. CASE Written(Text(chunks)) = 0
    <3>1. vol' = vol
      BY <2>0, <2>1 DEF ext2_write_file
    <3> QED BY <1>a, <3>1
  <2>2. CASE Written(Text(chunks)) # 0
    <3>1. vol'.next_inode = vol.next_inode
      BY <1>a, <2>0, <2>t, WriteFileInv
    <3>2. Objects' = [Objects EXCEPT ![i] = [k \in Index |->
                         IF k < Len(chunks) THEN Data(chunks[k + 1]) ELSE Zero]]
      BY <1>a, <2>0, <2>2, ReplacedState
    <3>3. Len(chunks) > 0
      BY <2>2, <2>t, Ext2Assumption DEF Written
    <3>4. OS!Index = Index
      BY DEF OS!Index, Index
    <3>5. OS!Replace(i, chunks)
      BY <3>1, <3>2, <3>3, <3>4 DEF OS!Replace, OS!Empty, Zero, Data
    <3> QED BY <1>a, <3>5, StoreSlots DEF OS!Next
  <2> QED BY <2>1, <2>2
<1>5. CASE UNCHANGED vol
  BY <1>a, <1>5
<1> QED BY <1>1, <1>2, <1>3, <1>4, <1>5 DEF Next

\* The volume implements a store of objects that share nothing: what ext2.c writes
\* through block pointers shows in the one object it writes.
THEOREM VolumeRefinesStore == Spec => ImplementsObjectStore
<1>1. Init => VolumeInv(vol) /\ OS!Init
  <2> SUFFICES ASSUME Init PROVE VolumeInv(vol) /\ OS!Init
    OBVIOUS
  <2>1. VolumeInv(vol) /\ VolumeType(vol)
    BY MountInv DEF Init, VolumeInv, SoundInv
  <2>2. /\ vol.next_inode = FirstInode
        /\ \A i \in Live(vol), k \in Index : vol.itab[i].block[k] = 0
    BY MountEmpty DEF Init
  <2>3. Objects = [i \in Inodes |-> [k \in Index |-> Zero]]
    BY <2>2 DEF Objects
  <2> QED BY <2>1, <2>2, <2>3 DEF OS!Init, OS!Empty, OS!Index, Zero, Inodes, Index
<1>2. VolumeInv(vol) /\ [Next]_vol => VolumeInv(vol)'
  BY VolumeStep
<1> QED BY <1>1, <1>2, StoreStep, PTL DEF Spec, ImplementsObjectStore, OS!Spec

-----------------------------------------------------------------------------
(* Paths and commands *)

Comps == Names \cup {Blank}

\* The path walk as a fold: one component, and what the walk has reached.
Walk(v, i, c) == IF i < 0 \/ c = Blank THEN i ELSE ext2_find_inode(v, i, c)

Reached(v, i) == i = -1 \/ i \in Live(v)

P == INSTANCE Induction WITH Op <- Walk, Good <- Reached

LEMMA ResolveFolds ==
    ASSUME NEW v, NEW cur, NEW path
    PROVE  fs_resolve_inode(v, cur, path) =
               P!Fold(v, IF path.abs THEN Root ELSE cur, path.comps)
BY DEF fs_resolve_inode, P!Fold, FoldLeft, MapThenFoldSet, Max,
       P!FoldLeft, P!MapThenFoldSet, P!Max, Walk

\* The root is live, and live inodes are positive.
LEMMA LivePositive ==
    ASSUME NEW v, VolumeType(v)
    PROVE  Root \in Live(v) /\ \A i \in Live(v) : i \in Nat /\ i > 0
<1>1. Live(v) \subseteq Inodes
  BY LiveTyped
<1>2. \A i \in Inodes : i \in Nat /\ i > 0
  BY Ext2Assumption DEF Inodes
<1> QED BY <1>1, <1>2 DEF Live

\* A path leads to an inode of this boot or nowhere.
LEMMA ResolveTyped ==
    ASSUME NEW v, SoundInv(v), NEW cur \in Live(v),
           NEW path, path.comps \in Seq(Comps)
    PROVE  Reached(v, fs_resolve_inode(v, cur, path))
<1> DEFINE q == path.comps
           b == IF path.abs THEN Root ELSE cur
<1>1. VolumeType(v)
  BY DEF SoundInv
<1>2. Reached(v, b)
  BY <1>1, LivePositive DEF Reached
<1>3. Len(q) \in Nat /\ DOMAIN q = 1 .. Len(q) /\ \A k \in 1 .. Len(q) : q[k] \in Comps
  OBVIOUS
<1>4. ASSUME NEW k \in 1 .. Len(q), NEW i, Reached(v, i)
      PROVE  Reached(v, Walk(v, i, q[k]))
  <2>1. CASE i < 0 \/ q[k] = Blank
    BY <1>4, <2>1 DEF Walk
  <2>2. CASE ~(i < 0 \/ q[k] = Blank)
    <3>1. i \in Live(v) /\ q[k] \in Names
      BY <1>3, <1>4, <2>2 DEF Reached, Comps
    <3> QED BY <2>2, <3>1, FindTyped DEF Walk, Reached
  <2> QED BY <2>1, <2>2
<1> HIDE DEF q, b
<1>5. Reached(v, P!Fold(v, b, q))
  BY <1>2, <1>3, <1>4, P!FoldGood
<1> QED BY <1>5, ResolveFolds DEF b, q

\* What goes before the last component of a path.
LEMMA FrontTyped ==
    ASSUME NEW s \in Seq(Comps), s # <<>>
    PROVE  /\ Front(s) \in Seq(Comps) /\ Last(s) \in Comps
           /\ Len(s) \in Nat /\ Len(Front(s)) = Len(s) - 1
<1>1. Len(s) \in Nat \ {0} /\ Front(s) = [k \in 1 .. Len(s) - 1 |-> s[k]]
  BY DEF Front
<1>2. Front(s) \in Seq(Comps) /\ Len(Front(s)) = Len(s) - 1
  BY <1>1
<1> QED BY <1>1, <1>2 DEF Last

\* So does its parent, which has a name for the last component when HasParent.
LEMMA ParentTyped ==
    ASSUME NEW v, SoundInv(v), NEW cur \in Live(v), NEW path \in PathNames
    PROVE  /\ Reached(v, fs_get_parent(v, cur, path))
           /\ Reached(v, fs_resolve_inode(v, cur, path))
           /\ HasParent(v, cur, path) =>
                /\ fs_get_parent(v, cur, path) \in Live(v)
                /\ Last(path.comps) \in Names
<1>1. path.comps \in Seq(Comps) /\ path.comps # <<>>
  BY DEF PathNames, Comps
<1>2. Root \in Live(v) /\ \A i \in Live(v) : i \in Nat /\ i > 0
  BY LivePositive DEF SoundInv
<1>3. Reached(v, fs_get_parent(v, cur, path))
  <2>1. CASE Len(path.comps) = 1
    BY <1>2, <2>1 DEF fs_get_parent, Reached
  <2>2. CASE Len(path.comps) # 1
    <3> DEFINE up == [path EXCEPT !.comps = Front(@)]
    <3>1. up.comps = Front(path.comps)
      BY DEF PathNames
    <3>2. up.comps \in Seq(Comps)
      BY <1>1, <3>1, FrontTyped
    <3> HIDE DEF up
    <3>3. Reached(v, fs_resolve_inode(v, cur, up))
      BY <3>2, ResolveTyped
    <3> QED BY <2>2, <3>3 DEF fs_get_parent, up
  <2> QED BY <2>1, <2>2
<1>4. Reached(v, fs_resolve_inode(v, cur, path))
  BY <1>1, ResolveTyped
<1>5. Last(path.comps) \in Comps
  BY <1>1, FrontTyped
<1> QED BY <1>2, <1>3, <1>4, <1>5 DEF HasParent, Reached, Comps

\* fs_mkdir and fs_create keep the volume sound and forget no inode.
LEMMA MakeInv ==
    ASSUME NEW v, SoundInv(v), v.next_inode <= MaxInode,
           NEW cur \in Live(v), NEW path \in PathNames, HasParent(v, cur, path)
    PROVE  /\ SoundInv(fs_mkdir(v, cur, path)) /\ SoundInv(fs_create(v, cur, path))
           /\ fs_mkdir(v, cur, path).next_inode = v.next_inode + 1
           /\ fs_create(v, cur, path).next_inode = v.next_inode + 1
           /\ Live(v) \subseteq Live(fs_mkdir(v, cur, path))
           /\ Live(v) \subseteq Live(fs_create(v, cur, path))
           /\ TreeShaped(v) => /\ TreeShaped(fs_mkdir(v, cur, path))
                               /\ TreeShaped(fs_create(v, cur, path))
<1>1. fs_get_parent(v, cur, path) \in Live(v) /\ Last(path.comps) \in Names
  BY ParentTyped
<1>2. /\ SoundInv(fs_mkdir(v, cur, path))
      /\ TreeShaped(v) => TreeShaped(fs_mkdir(v, cur, path))
      /\ Made(v, fs_mkdir(v, cur, path), fs_get_parent(v, cur, path), Last(path.comps), "dir")
  BY <1>1, MkdirInv DEF fs_mkdir
<1>3. /\ SoundInv(fs_create(v, cur, path))
      /\ TreeShaped(v) => TreeShaped(fs_create(v, cur, path))
      /\ Made(v, fs_create(v, cur, path), fs_get_parent(v, cur, path), Last(path.comps), "reg")
  BY <1>1, CreateFileInv DEF fs_create
<1> QED BY <1>2, <1>3 DEF Made

\* Bytes that ext2_write_file can be given: texts, and the blocks of any inode.
Writable(v, bytes) ==
    /\ Len(bytes) \in Nat
    /\ \A k \in 1 .. Len(bytes) :
          /\ bytes[k] \in Content
          /\ bytes[k].kind = "dirent" /\ bytes[k].ino # 0 =>
                 bytes[k].ino \in FirstInode .. v.next_inode - 1

\* Bytes in which ext2_find_inode finds nothing.
Plain(bytes) == \A k \in 1 .. Len(bytes) : ~IsEntry(bytes[k])

\* Live inodes stay live when the counter does not fall.
LEMMA LiveGrows ==
    ASSUME NEW v, NEW w, SoundInv(v), SoundInv(w), v.next_inode <= w.next_inode
    PROVE  /\ Live(v) \subseteq Live(w)
           /\ FirstInode .. v.next_inode - 1 \subseteq FirstInode .. w.next_inode - 1
<1>1. /\ v.next_inode \in FirstInode .. MaxInode + 1
      /\ w.next_inode \in FirstInode .. MaxInode + 1
  BY DEF SoundInv, VolumeType
<1>2. FirstInode \in Nat /\ MaxInode \in Nat
  BY Ext2Assumption
<1>3. FirstInode .. v.next_inode - 1 \subseteq FirstInode .. w.next_inode - 1
  BY <1>1, <1>2
<1> QED BY <1>3 DEF Live

\* fs_write keeps the volume sound and forgets no inode.
LEMMA WriteInv ==
    ASSUME NEW v, SoundInv(v), v.next_inode <= MaxInode,
           NEW cur \in Live(v), NEW path \in PathNames, NEW bytes, Writable(v, bytes)
    PROVE  LET w == fs_write(v, cur, path, bytes)
           IN  /\ SoundInv(w.vol) /\ Live(v) \subseteq Live(w.vol)
               /\ w.ok \in BOOLEAN
               /\ TreeShaped(v) /\ Plain(bytes) => TreeShaped(w.vol)
<1> DEFINE made == IF fs_exists(v, cur, path) \/ ~HasParent(v, cur, path)
                   THEN v ELSE fs_create(v, cur, path)
           i == fs_resolve_inode(made, cur, path)
           w == fs_write(v, cur, path, bytes)
<1>0. v.next_inode \in Nat
  BY Ext2Assumption DEF SoundInv, VolumeType
<1>1. /\ SoundInv(made) /\ v.next_inode <= made.next_inode
      /\ TreeShaped(v) => TreeShaped(made)
  BY <1>0, MakeInv
<1>d. w = IF i < 0 THEN [vol |-> made, ok |-> FALSE]
          ELSE [vol |-> ext2_write_file(made, i, bytes), ok |-> TRUE]
  BY DEF fs_write
<1> HIDE DEF made, w
<1>2. /\ Live(v) \subseteq Live(made) /\ cur \in Live(made)
      /\ FirstInode .. v.next_inode - 1 \subseteq FirstInode .. made.next_inode - 1
  BY <1>1, LiveGrows
<1>3. Reached(made, i) /\ Root \in Live(made)
  BY <1>1, <1>2, ParentTyped, LivePositive DEF SoundInv
<1> HIDE DEF i
<1>4. ASSUME i < 0
      PROVE  /\ SoundInv(w.vol) /\ Live(v) \subseteq Live(w.vol) /\ w.ok \in BOOLEAN
             /\ TreeShaped(v) /\ Plain(bytes) => TreeShaped(w.vol)
  <2>1. w.vol = made /\ w.ok = FALSE
    BY <1>4, <1>d
  <2> QED BY <1>1, <1>2, <2>1
<1>5. ASSUME ~(i < 0)
      PROVE  /\ SoundInv(w.vol) /\ Live(v) \subseteq Live(w.vol) /\ w.ok \in BOOLEAN
             /\ TreeShaped(v) /\ Plain(bytes) => TreeShaped(w.vol)
  <2>1. i \in Live(made)
    BY <1>3, <1>5 DEF Reached
  <2>2. /\ Len(bytes) \in Nat
        /\ \A k \in 1 .. Len(bytes) :
              /\ bytes[k] \in Content
              /\ bytes[k].kind = "dirent" /\ bytes[k].ino # 0 =>
                     bytes[k].ino \in FirstInode .. made.next_inode - 1
    BY <1>2 DEF Writable
  <2> DEFINE u == ext2_write_file(made, i, bytes)
  <2>3. /\ SoundInv(u) /\ u.next_inode = made.next_inode
        /\ TreeShaped(made) /\ Plain(bytes) => TreeShaped(u)
    BY <1>1, <2>1, <2>2, WriteFileInv DEF Plain
  <2>4. w.vol = u /\ w.ok = TRUE
    BY <1>d, <1>5
  <2> HIDE DEF u
  <2>5. Live(u) = Live(made)
    BY <2>3 DEF Live
  <2> QED BY <1>1, <1>2, <2>3, <2>4, <2>5
<1> QED BY <1>4, <1>5 DEF w

\* What ext2_read_file and fs_read return.
LEMMA ReadTyped ==
    ASSUME NEW v, SoundInv(v), NEW i \in Live(v)
    PROVE  /\ Cardinality(Visited(v.itab[i])) \in Nat
           /\ Writable(v, ext2_read_file(v, i))
           /\ ext2_read_file(v, i) \in Seq(Content)
<1>1. IsFiniteSet(Visited(v.itab[i]))
  <2>1. IsFiniteSet(Index)
    BY FS_Interval, Ext2Assumption DEF Index
  <2>2. Visited(v.itab[i]) \subseteq Index
    BY DEF Visited
  <2> QED BY <2>1, <2>2, FS_Subset
<1> DEFINE n == Cardinality(Visited(v.itab[i]))
           bytes == ext2_read_file(v, i)
<1>2. n \in Nat
  BY <1>1, FS_CardinalityType
<1>3. bytes = [k \in 1 .. n |-> ReadBlock(v, v.itab[i].block[k - 1])]
  BY DEF ext2_read_file
<1> HIDE DEF n, bytes
<1>4. \A b : /\ ReadBlock(v, b) \in Content
             /\ ReadBlock(v, b).kind = "dirent" /\ ReadBlock(v, b).ino # 0 =>
                    ReadBlock(v, b).ino \in FirstInode .. v.next_inode - 1
  <2> SUFFICES ASSUME NEW b
               PROVE  /\ ReadBlock(v, b) \in Content
                      /\ ReadBlock(v, b).kind = "dirent" /\ ReadBlock(v, b).ino # 0 =>
                             ReadBlock(v, b).ino \in FirstInode .. v.next_inode - 1
    OBVIOUS
  <2>1. CASE b \in DOMAIN v.data
    BY <2>1 DEF ReadBlock, SoundInv, VolumeType, EntriesKnown, EntryBlocks
  <2>2. CASE b \notin DOMAIN v.data
    BY <2>2 DEF ReadBlock, Zero, Content
  <2> QED BY <2>1, <2>2
<1>5. bytes \in Seq(Content) /\ Len(bytes) = n
  BY <1>2, <1>3, <1>4
<1>6. Writable(v, bytes)
  BY <1>2, <1>3, <1>4, <1>5 DEF Writable
<1> QED BY <1>2, <1>5, <1>6 DEF n, bytes

\* A clipped block holds the entry it held, and no other.
LEMMA ClippedIs ==
    ASSUME NEW c \in Content
    PROVE  /\ Clipped(c) \in Content
           /\ (IsEntry(c) \/ IsEntry(Clipped(c))) => Clipped(c) = c
<1>1. CASE c.kind = "data"
  <2>1. c.pay \in Payloads
    BY <1>1 DEF Content, Zero
  <2>2. Clip[c.pay] \in Payloads
    BY <2>1, FsAssumption
  <2>3. Clipped(c) = Data(Clip[c.pay])
    BY <1>1 DEF Clipped
  <2> QED BY <1>1, <2>2, <2>3 DEF Data, Content, IsEntry
<1>2. CASE c.kind # "data"
  BY <1>2 DEF Clipped
<1> QED BY <1>1, <1>2

\* What fs_read returns: the first blocks of the file, the last of the buffer
\* clipped, with the entries of the file.
LEMMA FsReadIs ==
    ASSUME NEW v, SoundInv(v), NEW cur, NEW path,
           fs_resolve_inode(v, cur, path) \in Live(v)
    PROVE  LET i == fs_resolve_inode(v, cur, path)
               bytes == ext2_read_file(v, i)
               m == IF Len(bytes) < CopyBlocks THEN Len(bytes) ELSE CopyBlocks
               r == fs_read(v, cur, path, CopyBlocks)
           IN  /\ m \in Nat /\ m <= Len(bytes) /\ Len(bytes) \in Nat
               /\ Len(r) = m
               /\ r = [k \in 1 .. m |-> IF k = CopyBlocks THEN Clipped(bytes[k]) ELSE bytes[k]]
               /\ \A k \in 1 .. m : /\ r[k] \in Content
                                    /\ (IsEntry(r[k]) \/ IsEntry(bytes[k])) => r[k] = bytes[k]
<1> DEFINE bytes == ext2_read_file(v, fs_resolve_inode(v, cur, path))
           m == IF Len(bytes) < CopyBlocks THEN Len(bytes) ELSE CopyBlocks
           r == fs_read(v, cur, path, CopyBlocks)
<1>1. bytes \in Seq(Content) /\ Len(bytes) \in Nat
  BY ReadTyped DEF Writable
<1>2. r = [k \in 1 .. m |-> IF k = CopyBlocks THEN Clipped(bytes[k]) ELSE bytes[k]]
  BY DEF fs_read
<1> HIDE DEF bytes, r
<1>3. m \in Nat /\ m <= Len(bytes)
  BY <1>1, FsAssumption
<1>4. \A k \in 1 .. m : bytes[k] \in Content
  BY <1>1, <1>3
<1>5. Len(r) = m
  BY <1>2, <1>3
<1>6. \A k \in 1 .. m : /\ r[k] \in Content
                        /\ (IsEntry(r[k]) \/ IsEntry(bytes[k])) => r[k] = bytes[k]
  BY <1>2, <1>4, ClippedIs
<1> HIDE DEF m
<1>7. /\ m \in Nat /\ m <= Len(bytes) /\ Len(bytes) \in Nat
      /\ Len(r) = m
      /\ r = [k \in 1 .. m |-> IF k = CopyBlocks THEN Clipped(bytes[k]) ELSE bytes[k]]
      /\ \A k \in 1 .. m : /\ r[k] \in Content
                           /\ (IsEntry(r[k]) \/ IsEntry(bytes[k])) => r[k] = bytes[k]
  BY <1>1, <1>2, <1>3, <1>5, <1>6
<1> QED BY <1>7, Zenon DEF bytes, m, r

LEMMA FsReadTyped ==
    ASSUME NEW v, SoundInv(v), NEW cur, NEW path,
           fs_resolve_inode(v, cur, path) \in Live(v)
    PROVE  Writable(v, fs_read(v, cur, path, CopyBlocks))
<1> DEFINE bytes == ext2_read_file(v, fs_resolve_inode(v, cur, path))
           m == IF Len(bytes) < CopyBlocks THEN Len(bytes) ELSE CopyBlocks
           r == fs_read(v, cur, path, CopyBlocks)
<1>1. Writable(v, bytes)
  BY ReadTyped
<1>2. /\ m \in Nat /\ m <= Len(bytes) /\ Len(r) = m
      /\ \A k \in 1 .. m : /\ r[k] \in Content
                           /\ (IsEntry(r[k]) \/ IsEntry(bytes[k])) => r[k] = bytes[k]
  BY FsReadIs
<1> HIDE DEF bytes, m, r
<1> QED BY <1>1, <1>2 DEF Writable, IsEntry, r

\* The first blocks of an inode without entries hold none.
LEMMA EmptyReadsPlain ==
    ASSUME NEW v, SoundInv(v), NEW cur, NEW path,
           fs_resolve_inode(v, cur, path) \in Live(v),
           {c \in Range(ext2_read_file(v, fs_resolve_inode(v, cur, path))) :
                c.kind = "dirent" /\ c.ino # 0} = {}
    PROVE  Plain(fs_read(v, cur, path, CopyBlocks))
<1> DEFINE bytes == ext2_read_file(v, fs_resolve_inode(v, cur, path))
           m == IF Len(bytes) < CopyBlocks THEN Len(bytes) ELSE CopyBlocks
           r == fs_read(v, cur, path, CopyBlocks)
<1>1. bytes \in Seq(Content) /\ Len(bytes) \in Nat
  BY ReadTyped DEF Writable
<1>2. \A k \in 1 .. Len(bytes) : ~IsEntry(bytes[k])
  BY <1>1 DEF Range, IsEntry
<1>3. /\ m \in Nat /\ m <= Len(bytes) /\ Len(r) = m
      /\ \A k \in 1 .. m : IsEntry(r[k]) => r[k] = bytes[k]
  BY FsReadIs
<1> HIDE DEF bytes, m, r
<1> QED BY <1>1, <1>2, <1>3 DEF Plain, r

-----------------------------------------------------------------------------
(* The standard directories *)

\* A volume in the middle of fs_init: it is sound as long as the inodes last.
Growing(v) ==
    /\ v = [itab |-> v.itab, data |-> v.data,
            next_block |-> v.next_block, next_inode |-> v.next_inode]
    /\ v.next_inode \in Nat
    /\ v.next_inode <= MaxInode + 1 => SoundInv(v)

\* fs_mkdirp as a fold: the directory that the first k components name.
Dir(path, v, k) ==
    LET partial == Rooted(SubSeq(path.comps, 1, k))
    IN  IF ~fs_exists(v, Root, partial) /\ HasParent(v, Root, partial)
        THEN fs_mkdir(v, Root, partial) ELSE v

DirGood(path, v) == Growing(v)

D == INSTANCE Induction WITH Op <- Dir, Good <- DirGood

LEMMA MkdirpFolds ==
    ASSUME NEW v, NEW path
    PROVE  fs_mkdirp(v, path) = D!Fold(path, v, [k \in 1 .. Len(path.comps) |-> k])
BY DEF fs_mkdirp, D!Fold, FoldLeft, MapThenFoldSet, Max,
       D!FoldLeft, D!MapThenFoldSet, D!Max, Dir

\* ext2_mkdir takes one inode number, whatever becomes of it.
LEMMA MkdirTakesInode ==
    ASSUME NEW v, NEW d, NEW name,
           v = [itab |-> v.itab, data |-> v.data,
                next_block |-> v.next_block, next_inode |-> v.next_inode]
    PROVE  LET w == ext2_mkdir(v, d, name)
           IN  /\ w = [itab |-> w.itab, data |-> w.data,
                       next_block |-> w.next_block, next_inode |-> w.next_inode]
               /\ w.next_inode = v.next_inode + 1
<1> DEFINE n == v.next_inode
           ino == [type |-> "dir", links |-> 2,
                   block |-> [NoBlocks EXCEPT ![0] = v.next_block]]
           made == [v EXCEPT !.itab[n] = ino, !.next_block = @ + 1, !.next_inode = @ + 1]
           w == ext2_add_dirent(made, d, name, n, "dir")
<1>1. w = ext2_mkdir(v, d, name)
  BY DEF ext2_mkdir
<1> HIDE DEF ino
<1>2. /\ made = [itab |-> made.itab, data |-> made.data,
                 next_block |-> made.next_block, next_inode |-> made.next_inode]
      /\ made.next_inode = v.next_inode + 1
  <2> DEFINE t == [v.itab EXCEPT ![n] = ino]
  <2>1. made = [[[v EXCEPT !.itab = t] EXCEPT !.next_block = @ + 1] EXCEPT !.next_inode = @ + 1]
    OBVIOUS
  <2> HIDE DEF t, made
  <2>2. made = [itab |-> t, data |-> v.data, next_block |-> v.next_block + 1,
                next_inode |-> v.next_inode + 1]
    BY <2>1
  <2> QED BY <2>2
<1> HIDE DEF made
<1>3. /\ w = [itab |-> w.itab, data |-> w.data,
              next_block |-> w.next_block, next_inode |-> w.next_inode]
      /\ w.next_inode = made.next_inode
  <2>1. CASE FreeSlots(made, d) = {}
    BY <1>2, <2>1 DEF ext2_add_dirent
  <2>2. CASE FreeSlots(made, d) # {}
    <3> DEFINE k == Min(FreeSlots(made, d))
               new == made.itab[d].block[k] = 0
               b == IF new THEN made.next_block ELSE made.itab[d].block[k]
    <3>1. w = [made EXCEPT !.itab[d].block[k] = b,
                           !.data = Store(@, b, Dirent(n, name, "dir")),
                           !.next_block = IF new THEN @ + 1 ELSE @]
      BY <2>2 DEF ext2_add_dirent
    <3> HIDE DEF w, k, b, new
    <3> QED BY <1>2, <3>1
  <2> QED BY <2>1, <2>2
<1> HIDE DEF w
<1> QED BY <1>1, <1>2, <1>3

LEMMA DirGrows ==
    ASSUME NEW path \in PathNames, NEW k \in 1 .. Len(path.comps), NEW v, Growing(v)
    PROVE  Growing(Dir(path, v, k))
<1> DEFINE partial == Rooted(SubSeq(path.comps, 1, k))
<1>1. partial \in PathNames
  <2>1. path.comps \in Seq(Comps) /\ path.comps # <<>>
    BY DEF PathNames, Comps
  <2>2. /\ SubSeq(path.comps, 1, k) \in Seq(Comps)
        /\ Len(SubSeq(path.comps, 1, k)) = k /\ k # 0
    BY <2>1
  <2> QED BY <2>2 DEF PathNames, Rooted, Comps
<1> HIDE DEF partial
<1>2. CASE fs_exists(v, Root, partial) \/ ~HasParent(v, Root, partial)
  BY <1>2 DEF Dir, partial
<1>3. CASE ~fs_exists(v, Root, partial) /\ HasParent(v, Root, partial)
  <2> DEFINE w == fs_mkdir(v, Root, partial)
  <2>1. w = Dir(path, v, k)
    BY <1>3 DEF Dir, partial
  <2>2. /\ w = [itab |-> w.itab, data |-> w.data,
                next_block |-> w.next_block, next_inode |-> w.next_inode]
        /\ w.next_inode = v.next_inode + 1
    BY MkdirTakesInode DEF fs_mkdir, Growing
  <2>3. v.next_inode \in Nat /\ MaxInode \in Nat
    BY Ext2Assumption DEF Growing
  <2>4. ASSUME w.next_inode <= MaxInode + 1
        PROVE  SoundInv(w)
    <3>1. v.next_inode <= MaxInode /\ SoundInv(v)
      BY <2>2, <2>3, <2>4 DEF Growing
    <3>2. Root \in Live(v)
      BY DEF Live
    <3> QED BY <1>1, <1>3, <3>1, <3>2, MakeInv
  <2> HIDE DEF w
  <2>5. Growing(w)
    BY <2>2, <2>3, <2>4 DEF Growing
  <2> QED BY <2>1, <2>5
<1> QED BY <1>2, <1>3

LEMMA MkdirpGrows ==
    ASSUME NEW path \in PathNames, NEW v, Growing(v)
    PROVE  Growing(fs_mkdirp(v, path))
<1> DEFINE q == [k \in 1 .. Len(path.comps) |-> k]
<1>1. Len(path.comps) \in Nat /\ DOMAIN q = 1 .. Len(path.comps)
  BY DEF PathNames
<1>2. \A k \in 1 .. Len(path.comps) : q[k] = k
  OBVIOUS
<1> HIDE DEF q
<1>3. \A k \in 1 .. Len(path.comps) : \A w : DirGood(path, w) => DirGood(path, Dir(path, w, q[k]))
  BY <1>2, DirGrows DEF DirGood
<1>4. DirGood(path, v)
  BY DEF DirGood
<1>5. DirGood(path, D!Fold(path, v, q))
  BY <1>1, <1>3, <1>4, D!FoldGood
<1> QED BY <1>5, MkdirpFolds DEF DirGood, q

\* fs_init as a fold.
Ensure(e, v, path) == EnsureDir(v, path)

EnsureGood(e, v) == Growing(v)

E == INSTANCE Induction WITH Op <- Ensure, Good <- EnsureGood

LEMMA InitFolds ==
    fs_init(BlankDisk) = E!Fold(0, ext2_mount(BlankDisk), StdDirs)
BY DEF fs_init, E!Fold, FoldLeft, MapThenFoldSet, Max,
       E!FoldLeft, E!MapThenFoldSet, E!Max, Ensure

\* The disk that the shell starts on is sound.
LEMMA InitSound == SoundInv(fs_init(BlankDisk))
<1> DEFINE b == ext2_mount(BlankDisk)
           n == Len(StdDirs)
<1>1. n \in Nat /\ DOMAIN StdDirs = 1 .. n /\ \A k \in 1 .. n : StdDirs[k] \in PathNames
  BY FsAssumption
<1>2. EnsureGood(0, b)
  <2>1. SoundInv(b)
    BY MountInv DEF VolumeInv
  <2>2. b.next_inode \in Nat
    BY <2>1, Ext2Assumption DEF SoundInv, VolumeType
  <2> HIDE DEF b
  <2> QED BY <2>1, <2>2 DEF SoundInv, VolumeType, Growing, EnsureGood
<1> HIDE DEF b, n
<1>3. \A k \in 1 .. n : \A v : EnsureGood(0, v) => EnsureGood(0, Ensure(0, v, StdDirs[k]))
  BY <1>1, MkdirpGrows DEF Ensure, EnsureDir, EnsureGood
<1>4. EnsureGood(0, E!Fold(0, b, StdDirs))
  BY <1>1, <1>2, <1>3, E!FoldGood
<1>5. Growing(fs_init(BlankDisk))
  BY <1>4, InitFolds DEF EnsureGood, b
<1> QED BY <1>5, FsAssumption DEF Growing

-----------------------------------------------------------------------------
(* The commands *)

\* The inductive invariant of module Fs.
FsInv ==
    /\ SoundInv(vol)
    /\ cwd_inode \in Live(vol)
    /\ cwd \in Seq(Comps) /\ cwd # <<>>
    /\ status \in {"ok", "err"}

LEMMA FsInitInv == FsInit => FsInv
<1> SUFFICES ASSUME FsInit PROVE FsInv
  OBVIOUS
<1>1. RootPath.comps \in Seq(Comps) /\ RootPath.comps # <<>>
  <2>1. Blank \in Comps
    BY DEF Comps
  <2> HIDE DEF Blank
  <2> QED BY <2>1 DEF RootPath, Rooted
<1>2. Root \in Live(vol)
  BY DEF Live
<1> QED BY <1>1, <1>2, InitSound DEF FsInit, FsInv

\* A command that leaves the current directory alone.
LEMMA VolumeChanges ==
    ASSUME FsInv, SoundInv(vol'), Live(vol) \subseteq Live(vol'),
           UNCHANGED <<cwd_inode, cwd>>, status' \in {"ok", "err"}
    PROVE  FsInv'
BY DEF FsInv

LEMMA CopyInv ==
    ASSUME FsInv, vol.next_inode <= MaxInode, NEW p \in PathNames, NEW q \in PathNames
    PROVE  /\ SoundInv(Copy(p, q).vol) /\ Live(vol) \subseteq Live(Copy(p, q).vol)
           /\ Copy(p, q).ok \in BOOLEAN
           /\ TreeShaped(vol) /\ Entries(Resolve(p)) = {} => TreeShaped(Copy(p, q).vol)
<1>1. Reached(vol, fs_resolve_inode(vol, cwd_inode, p)) /\ SoundInv(vol) /\ cwd_inode \in Live(vol)
  BY ParentTyped DEF FsInv
<1>2. CASE ~fs_exists(vol, cwd_inode, p)
  BY <1>1, <1>2 DEF Copy
<1>3. CASE fs_exists(vol, cwd_inode, p)
  <2>1. fs_resolve_inode(vol, cwd_inode, p) \in Live(vol)
    BY <1>1, <1>3 DEF Reached, fs_exists
  <2>2. Writable(vol, fs_read(vol, cwd_inode, p, CopyBlocks))
    BY <1>1, <2>1, FsReadTyped
  <2>3. Copy(p, q) = fs_write(vol, cwd_inode, q, fs_read(vol, cwd_inode, p, CopyBlocks))
    BY <1>3 DEF Copy
  <2>4. ASSUME Entries(Resolve(p)) = {}
        PROVE  Plain(fs_read(vol, cwd_inode, p, CopyBlocks))
    BY <1>1, <2>1, <2>4, EmptyReadsPlain DEF Resolve, Entries, Bytes
  <2> QED BY <1>1, <2>2, <2>3, <2>4, WriteInv
<1> QED BY <1>2, <1>3

\* fs_delete keeps the volume sound, and every inode its number.
LEMMA DeleteInv ==
    ASSUME NEW v, SoundInv(v), NEW cur \in Live(v), NEW path \in PathNames,
           HasParent(v, cur, path)
    PROVE  LET w == ext2_unlink(v, fs_get_parent(v, cur, path), Last(path.comps))
           IN  SoundInv(w) /\ Live(w) = Live(v) /\ (TreeShaped(v) => TreeShaped(w))
<1> DEFINE w == ext2_unlink(v, fs_get_parent(v, cur, path), Last(path.comps))
<1>1. fs_get_parent(v, cur, path) \in Live(v) /\ Last(path.comps) \in Names
  BY ParentTyped
<1>2. SoundInv(w) /\ w.next_inode = v.next_inode /\ (TreeShaped(v) => TreeShaped(w))
  BY <1>1, UnlinkInv
<1> HIDE DEF w
<1>3. Live(w) = Live(v)
  BY <1>2 DEF Live
<1> QED BY <1>2, <1>3 DEF w

LEMMA HomeInv ==
    ASSUME NEW v, SoundInv(v), v.next_inode + 1 <= MaxInode, NEW cur, NEW user \in Names
    PROVE  /\ SoundInv(fs_create_home(v, cur, user))
           /\ Live(v) \subseteq Live(fs_create_home(v, cur, user))
           /\ TreeShaped(v) => TreeShaped(fs_create_home(v, cur, user))
<1> DEFINE home == [abs |-> FALSE, comps |-> <<"home">>]
           w == IF fs_exists(v, cur, home) THEN v ELSE ext2_mkdir(v, Root, "home")
           i == ext2_find_inode(w, Root, "home")
           r == fs_create_home(v, cur, user)
<1>1. r = IF user = "root" THEN v ELSE IF i <= 0 THEN w ELSE ext2_mkdir(w, i, user)
  BY DEF fs_create_home
<1>2. v.next_inode \in Nat /\ MaxInode \in Nat /\ Root \in Live(v) /\ "home" \in Names
  BY FsAssumption, Ext2Assumption DEF SoundInv, VolumeType, Live
<1>3. /\ SoundInv(w) /\ Live(v) \subseteq Live(w) /\ w.next_inode <= MaxInode /\ Root \in Live(w)
      /\ TreeShaped(v) => TreeShaped(w)
  <2>1. CASE fs_exists(v, cur, home)
    BY <1>2, <2>1
  <2>2. CASE ~fs_exists(v, cur, home)
    <3>1. v.next_inode <= MaxInode
      BY <1>2
    <3>2. SoundInv(w) /\ Made(v, w, Root, "home", "dir") /\ (TreeShaped(v) => TreeShaped(w))
      BY <1>2, <2>2, <3>1, MkdirInv
    <3> HIDE DEF w
    <3> QED BY <1>2, <3>2 DEF Made
  <2> QED BY <2>1, <2>2
<1> HIDE DEF w, r
<1>4. i = -1 \/ i \in Live(w)
  BY <1>2, <1>3, FindTyped
<1>5. CASE user = "root" \/ i <= 0
  BY <1>1, <1>3, <1>5 DEF r
<1>6. CASE ~(user = "root" \/ i <= 0)
  <2>1. i \in Live(w)
    BY <1>4, <1>6
  <2>2. /\ SoundInv(ext2_mkdir(w, i, user)) /\ Made(w, ext2_mkdir(w, i, user), i, user, "dir")
        /\ TreeShaped(w) => TreeShaped(ext2_mkdir(w, i, user))
    BY <1>3, <2>1, MkdirInv
  <2>3. r = ext2_mkdir(w, i, user)
    BY <1>1, <1>6
  <2>4. SoundInv(r) /\ Live(v) \subseteq Live(r) /\ (TreeShaped(v) => TreeShaped(r))
    BY <1>3, <2>2, <2>3 DEF Made
  <2> QED BY <2>4 DEF r
<1> QED BY <1>5, <1>6

LEMMA CdInv ==
    ASSUME FsInv, NEW path, path \in PathNames \cup {RootPath, DotDot}, cmd_cd(path)
    PROVE  FsInv'
<1>0. /\ SoundInv(vol) /\ cwd_inode \in Live(vol) /\ cwd \in Seq(Comps) /\ cwd # <<>>
      /\ Root \in Live(vol)
  BY DEF FsInv, Live
<1>1. /\ vol' = vol /\ status' \in {"ok", "err"}
  BY DEF cmd_cd, cd_up, cd_to, GoRoot, Report
<1>2. /\ cwd_inode' \in Live(vol)
      /\ cwd' \in Seq(Comps) /\ cwd' # <<>>
  <2>1. CASE GoRoot
    <3>1. RootPath.comps \in Seq(Comps) /\ RootPath.comps # <<>>
      <4>1. Blank \in Comps
        BY DEF Comps
      <4> HIDE DEF Blank
      <4> QED BY <4>1 DEF RootPath, Rooted
    <3> QED BY <1>0, <2>1, <3>1 DEF GoRoot
  <2>2. CASE cd_up /\ ~GoRoot
    <3> DEFINE i == fs_resolve_inode(vol, cwd_inode, Rooted(Front(cwd)))
    <3>1. ~(Len(cwd) = 1 \/ i < 0) /\ cwd_inode' = i /\ cwd' = Front(cwd)
      BY <2>2 DEF cd_up
    <3>2. Front(cwd) \in Seq(Comps) /\ Len(cwd) \in Nat /\ Len(Front(cwd)) = Len(cwd) - 1
      BY <1>0, FrontTyped
    <3>3. Len(cwd) # 0
      BY <1>0
    <3>4. Front(cwd) # <<>>
      BY <3>1, <3>2, <3>3
    <3>5. Rooted(Front(cwd)).comps = Front(cwd)
      BY DEF Rooted
    <3>6. Reached(vol, i)
      BY <1>0, <3>2, <3>5, ResolveTyped
    <3> HIDE DEF i
    <3> QED BY <3>1, <3>2, <3>4, <3>6 DEF Reached
  <2>3. CASE cd_to(path) /\ path \in PathNames
    <3> DEFINE i == fs_resolve_inode(vol, cwd_inode, path)
               joined == IF cwd = RootPath.comps THEN path.comps ELSE cwd \o path.comps
    <3>1. path.comps \in Seq(Comps) /\ path.comps # <<>>
      BY <2>3 DEF PathNames, Comps
    <3>2. joined \in Seq(Comps) /\ joined # <<>>
      BY <1>0, <3>1
    <3>3. Reached(vol, i)
      BY <1>0, <3>1, ResolveTyped
    <3> HIDE DEF i, joined
    <3>4. \/ /\ i >= 0 /\ cwd_inode' = i
             /\ cwd' \in {path.comps, joined, cwd}
          \/ cwd_inode' = cwd_inode /\ cwd' = cwd
      BY <2>3 DEF cd_to, i, joined
    <3>5. i >= 0 => i \in Live(vol)
      BY <3>3 DEF Reached
    <3> QED BY <1>0, <3>1, <3>2, <3>4, <3>5
  <2> QED BY <2>1, <2>2, <2>3 DEF cmd_cd
<1> QED BY <1>0, <1>1, <1>2 DEF FsInv

\* Every command keeps the invariant.
LEMMA FsStep == FsInv /\ [FsNext]_fsVars => FsInv'
<1> SUFFICES ASSUME FsInv, [FsNext]_fsVars
             PROVE  FsInv'
  OBVIOUS
<1>0. /\ SoundInv(vol) /\ cwd_inode \in Live(vol) /\ status \in {"ok", "err"}
      /\ vol.next_inode \in Nat /\ MaxInode \in Nat
  BY Ext2Assumption DEF FsInv, SoundInv, VolumeType
<1>p. Paths \subseteq PathNames
  BY FsAssumption
<1>r. \A m, n : Room(n, m) /\ n \in {1, 2} => vol.next_inode + n - 1 <= MaxInode
  BY DEF Room
<1>s. \A ok : Report(ok) => status' \in {"ok", "err"}
  BY DEF Report
<1>1. ASSUME NEW p \in PathNames, cmd_touch(p) PROVE FsInv'
  <2>1. vol.next_inode <= MaxInode
    BY <1>0, <1>1, <1>r DEF cmd_touch
  <2>2. /\ UNCHANGED <<cwd_inode, cwd>> /\ status' \in {"ok", "err"}
        /\ \/ vol' = vol
           \/ HasParent(vol, cwd_inode, p) /\ vol' = fs_create(vol, cwd_inode, p)
    BY <1>1, <1>s DEF cmd_touch
  <2>3. SoundInv(vol') /\ Live(vol) \subseteq Live(vol')
    BY <1>0, <2>1, <2>2, MakeInv
  <2> QED BY <2>2, <2>3, VolumeChanges
<1>2. ASSUME NEW p \in PathNames, cmd_mkdir(p) PROVE FsInv'
  <2>1. vol.next_inode <= MaxInode
    BY <1>0, <1>2, <1>r DEF cmd_mkdir
  <2>2. /\ UNCHANGED <<cwd_inode, cwd>> /\ status' \in {"ok", "err"}
        /\ \/ vol' = vol
           \/ HasParent(vol, cwd_inode, p) /\ vol' = fs_mkdir(vol, cwd_inode, p)
    BY <1>2, <1>s DEF cmd_mkdir
  <2>3. SoundInv(vol') /\ Live(vol) \subseteq Live(vol')
    BY <1>0, <2>1, <2>2, MakeInv
  <2> QED BY <2>2, <2>3, VolumeChanges
<1>3. ASSUME NEW p \in PathNames, cmd_rm(p) PROVE FsInv'
  <2>1. /\ UNCHANGED <<cwd_inode, cwd>> /\ status' \in {"ok", "err"}
        /\ \/ vol' = vol
           \/ /\ HasParent(vol, cwd_inode, p)
              /\ vol' = ext2_unlink(vol, fs_get_parent(vol, cwd_inode, p), Last(p.comps))
    BY <1>3, <1>s DEF cmd_rm
  <2>2. SoundInv(vol') /\ Live(vol) \subseteq Live(vol')
    BY <1>0, <2>1, DeleteInv
  <2> QED BY <2>1, <2>2, VolumeChanges
<1>4. ASSUME NEW p, cmd_chmod(p) PROVE FsInv'
  BY <1>0, <1>4, <1>s, VolumeChanges DEF cmd_chmod
<1>5. ASSUME NEW p \in PathNames, NEW q \in PathNames, cmd_cp(p, q) PROVE FsInv'
  <2>1. vol.next_inode <= MaxInode
    BY <1>0, <1>5, <1>r DEF cmd_cp
  <2>2. /\ UNCHANGED <<cwd_inode, cwd>> /\ status' \in {"ok", "err"}
        /\ vol' = Copy(p, q).vol
    BY <1>5, <1>s DEF cmd_cp
  <2>3. SoundInv(vol') /\ Live(vol) \subseteq Live(vol')
    BY <2>1, <2>2, CopyInv
  <2> QED BY <2>2, <2>3, VolumeChanges
<1>6. ASSUME NEW p \in PathNames, NEW q \in PathNames, cmd_mv(p, q) PROVE FsInv'
  <2>1. vol.next_inode <= MaxInode
    BY <1>0, <1>6, <1>r DEF cmd_mv
  <2> DEFINE c == Copy(p, q)
  <2>2. SoundInv(c.vol) /\ Live(vol) \subseteq Live(c.vol) /\ cwd_inode \in Live(c.vol)
    BY <1>0, <2>1, CopyInv
  <2>3. /\ UNCHANGED <<cwd_inode, cwd>> /\ status' \in {"ok", "err"}
        /\ \/ vol' = c.vol
           \/ /\ HasParent(c.vol, cwd_inode, p)
              /\ vol' = ext2_unlink(c.vol, fs_get_parent(c.vol, cwd_inode, p), Last(p.comps))
    BY <1>6, <1>s DEF cmd_mv
  <2> HIDE DEF c
  <2>4. SoundInv(vol') /\ Live(vol) \subseteq Live(vol')
    BY <2>2, <2>3, DeleteInv
  <2> QED BY <2>3, <2>4, VolumeChanges
<1>7. ASSUME NEW p \in PathNames, NEW text \in Files, kw_save(p, text) PROVE FsInv'
  <2>1. vol.next_inode <= MaxInode
    BY <1>0, <1>7, <1>r DEF kw_save
  <2>2. Writable(vol, Text(text))
    BY TextTyped DEF Writable
  <2> DEFINE w == fs_write(vol, cwd_inode, p, Text(text))
  <2>3. SoundInv(w.vol) /\ Live(vol) \subseteq Live(w.vol)
    BY <1>0, <2>1, <2>2, WriteInv
  <2>4. /\ UNCHANGED <<cwd_inode, cwd>> /\ status' \in {"ok", "err"}
        /\ vol' = w.vol
    BY <1>7, <1>s DEF kw_save
  <2> HIDE DEF w
  <2> QED BY <2>3, <2>4, VolumeChanges
<1>8. ASSUME NEW p \in PathNames \cup {RootPath, DotDot}, cmd_cd(p) PROVE FsInv'
  BY <1>8, CdInv
<1>9. ASSUME NEW user \in Names, create_home(user) PROVE FsInv'
  <2>1. vol.next_inode + 1 <= MaxInode
    BY <1>0, <1>9 DEF create_home, Room
  <2>2. /\ UNCHANGED <<cwd_inode, cwd, status>>
        /\ vol' = fs_create_home(vol, cwd_inode, user)
    BY <1>9 DEF create_home
  <2>3. SoundInv(vol') /\ Live(vol) \subseteq Live(vol')
    BY <1>0, <2>1, <2>2, HomeInv
  <2> QED BY <1>0, <2>2, <2>3, VolumeChanges
<1>10. CASE UNCHANGED fsVars
  BY <1>10 DEF fsVars, FsInv
<1> QED BY <1>1, <1>2, <1>3, <1>4, <1>5, <1>6, <1>7, <1>8, <1>9, <1>10, <1>p DEF FsNext

\* Whatever the commands do, the blocks belong to one inode each, without holes;
\* the loops of ext2_find_inode and ext2_unlink agree; and the current directory
\* is an inode of this boot.
THEOREM FsStaysSound == FsSpec => []FsSound
<1>1. FsInv => FsSound
  BY FindIsUnlink DEF FsInv, FsSound, FsTypeOK, BlocksSound, FindUnlinkAgree,
       SoundInv, Comps
<1> QED BY <1>1, FsInitInv, FsStep, PTL DEF FsSpec

-----------------------------------------------------------------------------
\* The pointers in use are the first ones, as many as ext2_read_file counts.
LEMMA VisitedAreFirst ==
    ASSUME NEW v, SoundInv(v), NEW i \in Live(v)
    PROVE  LET V == Visited(v.itab[i])
           IN  Cardinality(V) \in Nat /\ V = 0 .. Cardinality(V) - 1
<1> DEFINE V == Visited(v.itab[i])
           R == Index \ V
           m == IF R = {} THEN NDirect ELSE Min(R)
<1>1. /\ V \subseteq Index
      /\ \A k \in V, j \in Index : j < k => j \in V
  <2>1. \A k \in V, j \in Index : j < k => \A x \in 0 .. j : x \in 0 .. k
    BY DEF Index, Visited
  <2> QED BY <2>1 DEF Visited
<1>2. NDirect \in Nat /\ Index = 0 .. NDirect - 1
  BY Ext2Assumption DEF Index
<1> HIDE DEF V, R
<1>3. m \in Nat /\ V = 0 .. m - 1
  <2>1. CASE R = {}
    BY <1>1, <1>2, <2>1 DEF R
  <2>2. CASE R # {}
    <3>1. R \in SUBSET Nat
      BY <1>2 DEF R
    <3>2. m \in R /\ \A x \in R : m <= x
      BY <2>2, <3>1, MinIsLeast
    <3> HIDE DEF m
    <3>3. m \in Index /\ m \notin V
      BY <3>2 DEF R
    <3>4. \A x \in Index : x < m => x \in V
      BY <1>2, <3>2, <3>3 DEF R
    <3>5. \A x \in V : x < m
      BY <1>1, <1>2, <3>3
    <3>6. m \in Nat /\ m < NDirect
      BY <1>2, <3>3
    <3>7. \A x \in 0 .. m - 1 : x \in V
      BY <1>2, <3>4, <3>6
    <3>8. \A x \in V : x \in 0 .. m - 1
      BY <1>1, <1>2, <3>5, <3>6
    <3> QED BY <3>6, <3>7, <3>8
  <2> QED BY <2>1, <2>2
<1> HIDE DEF m
<1>4. Cardinality(0 .. m - 1) = m
  BY <1>3, FS_Interval
<1> QED BY <1>3, <1>4 DEF V

\* What a directory lists is what can be found in it, and garbage.
LEMMA ListFinds ==
    ASSUME NEW v, SoundInv(v), NEW i \in Live(v)
    PROVE  fs_list(v, i) \ {Garbage} =
               {name \in Names \ {".", ".."} : ext2_find_inode(v, i, name) >= 0}
<1> DEFINE bytes == ext2_read_file(v, i)
           n == Cardinality(Visited(v.itab[i]))
           blk(k) == ReadBlock(v, v.itab[i].block[k])
           entry(c) == c.kind = "dirent" /\ c.ino # 0
           dots == {".", ".."}
<1>1. n \in Nat /\ Visited(v.itab[i]) = 0 .. n - 1
  BY VisitedAreFirst
<1>2. Visited(v.itab[i]) \subseteq Index
  BY DEF Visited
<1>3. bytes = [k \in 1 .. n |-> blk(k - 1)]
  BY DEF ext2_read_file
<1>4. Range(bytes) = {blk(k) : k \in Visited(v.itab[i])}
  <2>1. \A k \in 1 .. n : k - 1 \in 0 .. n - 1
    BY <1>1
  <2>2. \A k \in 0 .. n - 1 : k + 1 \in 1 .. n /\ (k + 1) - 1 = k
    BY <1>1
  <2> HIDE DEF n, bytes, blk
  <2>3. \A k \in 0 .. n - 1 : bytes[k + 1] = blk(k)
    BY <1>3, <2>2
  <2>4. \A k \in 1 .. n : bytes[k] = blk(k - 1)
    BY <1>3
  <2> QED BY <1>1, <1>3, <2>1, <2>2, <2>3, <2>4 DEF Range
<1>5. \E more \in SUBSET {Garbage} :
          fs_list(v, i) =
              {c.name : c \in {x \in Range(bytes) : entry(x) /\ x.name \notin dots}} \cup more
  <2> DEFINE texts == {x \in Range(bytes) : x.kind = "data" /\ ~NoRecLen(x)}
  <2>1. fs_list(v, i) =
            {c.name : c \in {x \in Range(bytes) : x.kind = "dirent" /\ x.ino # 0
                                                  /\ x.name \notin {".", ".."}}}
              \cup {Garbage : c \in texts}
    BY DEF fs_list
  <2>2. {Garbage : c \in texts} \in SUBSET {Garbage}
    OBVIOUS
  <2> HIDE DEF texts, bytes
  <2> QED BY <2>1, <2>2
<1>8. Garbage \notin Names
  BY FsAssumption
<1>6. \A k \in Visited(v.itab[i]) : entry(blk(k)) => blk(k).name \in Names
  <2>1. \A k : blk(k) \in Content
    BY DEF ReadBlock, SoundInv, VolumeType, Content
  <2> HIDE DEF blk
  <2> QED BY <2>1 DEF Content, Zero
<1>7. ASSUME NEW name \in Names
      PROVE  ext2_find_inode(v, i, name) >= 0 <=>
                 \E k \in Visited(v.itab[i]) : entry(blk(k)) /\ blk(k).name = name
  <2>1. FindHits(v, i, name) = UnlinkHits(v, i, name)
    BY HitsAgree
  <2>2. FindHits(v, i, name) =
            {k \in Visited(v.itab[i]) : entry(blk(k)) /\ blk(k).name = name}
    BY DEF FindHits, Named
  <2>3. UnlinkHits(v, i, name) # {} => UnlinkVictim(v, i, name) \in FirstInode .. v.next_inode - 1
    BY UnlinkInv
  <2>4. UnlinkHits(v, i, name) # {} => UnlinkVictim(v, i, name) >= 0
    BY <2>3, Ext2Assumption DEF Root, SoundInv, VolumeType
  <2>5. ext2_find_inode(v, i, name) >= 0 <=> FindHits(v, i, name) # {}
    BY <2>1, <2>4, FindIsUnlink
  <2> HIDE DEF entry, blk
  <2> QED BY <2>2, <2>5
<1> HIDE DEF entry, blk, bytes, dots
<1> DEFINE listed == {c.name : c \in {x \in Range(bytes) : entry(x) /\ x.name \notin dots}}
<1>9. \A name : name \in listed <=>
                    \E k \in Visited(v.itab[i]) :
                        entry(blk(k)) /\ blk(k).name = name /\ name \notin dots
  BY <1>4
<1>10. \A name \in listed : name \in Names /\ name # Garbage
  BY <1>6, <1>8, <1>9
<1>11. listed = {name \in Names \ dots : ext2_find_inode(v, i, name) >= 0}
  BY <1>7, <1>9, <1>10
<1> HIDE DEF listed
<1> QED BY <1>5, <1>10, <1>11 DEF listed, dots

\* fs_list prints the names that ext2_find_inode finds and no other, but for what it
\* makes of a text saved over the directory.
THEOREM ListFindsAlways == FsSpec => []ListIsWhatIsFound
<1>1. FsInv => ListIsWhatIsFound
  BY ListFinds DEF FsInv, ListIsWhatIsFound
<1> QED BY <1>1, FsInitInv, FsStep, PTL DEF FsSpec

-----------------------------------------------------------------------------
(* What a command may do: the action properties. The walk of a path depends   *)
(* on the slots of the inodes it passes only (WalkInto), so the proofs compare *)
(* two volumes inode by inode.                                                 *)


\* The walk of a path does not depend on where it starts when it is absolute, and
\* that of two paths one after the other goes on where the first one ended.
LEMMA ResolveAbsolute ==
    ASSUME NEW v, NEW cur, NEW path, path.abs
    PROVE  fs_resolve_inode(v, cur, path) = P!Fold(v, Root, path.comps)
BY ResolveFolds

LEMMA ResolveJoined ==
    ASSUME NEW v, NEW s \in Seq(Comps), NEW t \in Seq(Comps), NEW b
    PROVE  P!Fold(v, b, s \o t) = P!Fold(v, P!Fold(v, b, s), t)
<1> DEFINE m == Len(s)
           n == Len(t)
           r == s \o t
<1>1. /\ m \in Nat /\ n \in Nat
      /\ DOMAIN s = 1 .. m /\ DOMAIN t = 1 .. n /\ DOMAIN r = 1 .. m + n
      /\ \A k \in 1 .. m : r[k] = s[k]
      /\ \A k \in 1 .. n : r[m + k] = t[k]
  OBVIOUS
<1> HIDE DEF m, n, r
<1>2. P!Fold(v, b, r) = P!Fold(v, P!Fold(v, b, s), t)
  BY ONLY <1>1, P!FoldConcat
<1> QED BY <1>2 DEF r

\* The path of the root leads to the root.
LEMMA RootResolves ==
    ASSUME NEW v, NEW cur
    PROVE  fs_resolve_inode(v, cur, RootPath) = Root
<1> DEFINE q == <<Blank>>
           n == 1
<1>1. n \in Nat /\ DOMAIN q = 1 .. n
  OBVIOUS
<1>a. n = 1 /\ q[1] = Blank
  OBVIOUS
<1> HIDE DEF q, n
<1>2. PICK f : P!Values(v, Root, q, n, f) /\ P!Fold(v, Root, q) = f[n]
  BY ONLY <1>1, P!FoldSteps, SMTT(30)
<1>3. f[0] = Root /\ f[1] = Walk(v, f[0], q[1])
  <2>1. 1 \in 1 .. n /\ 1 - 1 = 0
    BY <1>a
  <2> QED BY <1>2, <2>1 DEF P!Values
<1>4. f[1] = Root
  BY <1>a, <1>3 DEF Walk
<1>5. RootPath.abs /\ RootPath.comps = q
  BY DEF RootPath, Rooted, q
<1> QED BY <1>a, <1>2, <1>4, <1>5, ResolveAbsolute

\* A cd, relative or absolute, keeps the path that pwd shows in step with the
\* directory commands use.
PwdKept ==
    \A path \in Paths \cup {RootPath, DotDot} :
        /\ Resolve(Rooted(cwd)) = cwd_inode
        /\ path.abs \/ Len(cwd) + Len(path.comps) <= MaxCwd
        /\ cmd_cd(path)
        => Resolve(Rooted(cwd))' = cwd_inode'

LEMMA CdStep == FsInv => PwdKept
<1> SUFFICES ASSUME FsInv,
                    NEW path \in Paths \cup {RootPath, DotDot},
                    Resolve(Rooted(cwd)) = cwd_inode,
                    path.abs \/ Len(cwd) + Len(path.comps) <= MaxCwd,
                    cmd_cd(path)
             PROVE  Resolve(Rooted(cwd))' = cwd_inode'
  BY DEF PwdKept
<1> DEFINE w == cwd'
<1>1. vol' = vol
  BY DEF cmd_cd, cd_up, cd_to
<1>2. Resolve(Rooted(cwd))' = P!Fold(vol, Root, w)
  <2>1. Resolve(Rooted(cwd))' = fs_resolve_inode(vol, cwd_inode', Rooted(w))
    BY <1>1 DEF Resolve, Rooted
  <2>2. Rooted(w).abs /\ Rooted(w).comps = w
    BY DEF Rooted
  <2> QED BY <2>1, <2>2, ResolveAbsolute
<1>3. cwd_inode = P!Fold(vol, Root, cwd)
  <2>1. Rooted(cwd).abs /\ Rooted(cwd).comps = cwd
    BY DEF Rooted
  <2> QED BY <2>1, ResolveAbsolute DEF Resolve
<1>4. P!Fold(vol, Root, RootPath.comps) = Root
  <2>1. RootPath.abs
    BY DEF RootPath, Rooted
  <2> QED BY <2>1, RootResolves, ResolveAbsolute
<1>5. CASE GoRoot
  BY <1>2, <1>4, <1>5 DEF GoRoot
<1>6. CASE cd_up /\ ~GoRoot
  <2> DEFINE up == Front(cwd)
  <2>1. w = up /\ cwd_inode' = fs_resolve_inode(vol, cwd_inode, Rooted(up))
    BY <1>6 DEF cd_up
  <2>2. Rooted(up).abs /\ Rooted(up).comps = up
    BY DEF Rooted
  <2> QED BY <1>2, <2>1, <2>2, ResolveAbsolute
<1>7. CASE cd_to(path) /\ path \notin {RootPath, DotDot}
  <2> DEFINE i == fs_resolve_inode(vol, cwd_inode, path)
             joined == IF cwd = RootPath.comps THEN path.comps ELSE cwd \o path.comps
  <2>1. /\ path.abs \in BOOLEAN /\ path.comps \in Seq(Comps)
        /\ cwd \in Seq(Comps)
    BY <1>7, FsAssumption DEF PathNames, Comps, FsInv
  <2>2. \/ UNCHANGED <<cwd_inode, cwd>>
        \/ /\ cwd_inode' = i
           /\ w = IF path.abs THEN path.comps
                  ELSE IF Len(joined) <= MaxCwd THEN joined ELSE cwd
    BY <1>7 DEF cd_to
  <2>3. CASE UNCHANGED <<cwd_inode, cwd>>
    BY <1>2, <1>3, <2>3
  <2>4. CASE cwd_inode' = i /\ path.abs /\ w = path.comps
    BY <1>2, <2>4, ResolveAbsolute
  <2>5. CASE cwd_inode' = i /\ ~path.abs /\ w = joined
    <3>1. i = P!Fold(vol, cwd_inode, path.comps)
      BY <2>5, ResolveFolds
    <3>2. CASE cwd = RootPath.comps
      BY <1>2, <1>3, <1>4, <2>5, <3>1, <3>2
    <3>3. CASE cwd # RootPath.comps
      <4>1. w = cwd \o path.comps
        BY <2>5, <3>3
      <4>2. P!Fold(vol, Root, cwd \o path.comps) = P!Fold(vol, cwd_inode, path.comps)
        BY <1>3, <2>1, ResolveJoined
      <4> QED BY <1>2, <2>5, <3>1, <4>1, <4>2
    <3> QED BY <3>2, <3>3
  <2>6. ~path.abs => Len(joined) <= MaxCwd
    <3>1. Len(cwd) \in Nat /\ Len(path.comps) \in Nat /\ Len(cwd \o path.comps) = Len(cwd) + Len(path.comps)
      BY <2>1
    <3>2. CASE cwd = RootPath.comps
      <4>1. Len(cwd) = 1
        BY <3>2 DEF RootPath, Rooted
      <4>2. ~path.abs => 1 + Len(path.comps) <= MaxCwd
        BY <4>1
      <4> QED BY <3>1, <3>2, <4>2, FsAssumption
    <3>3. CASE cwd # RootPath.comps
      BY <3>1, <3>3
    <3> QED BY <3>2, <3>3
  <2> HIDE DEF i, joined
  <2> QED BY <2>1, <2>2, <2>3, <2>4, <2>5, <2>6
<1> QED BY <1>5, <1>6, <1>7 DEF cmd_cd

\* The string that pwd and the prompt show leads to the current directory after
\* every cd for which it has room, for every path, if it did before.
THEOREM PwdStaysTrue == FsSpec => CdKeepsPwd
<1>1. FsInit => FsInv
  BY FsInitInv
<1>2. FsInv /\ [FsNext]_fsVars => FsInv'
  BY FsStep
<1>3. FsInv /\ [FsNext]_fsVars => [PwdKept]_fsVars
  BY CdStep
<1> QED BY <1>1, <1>2, <1>3, PTL DEF FsSpec, CdKeepsPwd, PwdKept

-----------------------------------------------------------------------------
(* What becomes of the tree *)

\* A step of module Fs is one of its commands, all with paths the proofs know; none
\* but these change the volume.
LEMMA FsCommands ==
    ASSUME FsInv, FsNext
    PROVE  \/ vol' = vol
           \/ \E p \in Paths : cmd_touch(p) \/ cmd_mkdir(p) \/ cmd_rm(p)
           \/ \E p, q \in Paths : cmd_cp(p, q) \/ cmd_mv(p, q)
           \/ \E p \in Paths, text \in Files : kw_save(p, text)
           \/ \E user \in Names : create_home(user)
<1>1. \A p : cmd_cd(p) => vol' = vol
  BY DEF cmd_cd, cd_up, cd_to
<1>2. \A p : cmd_chmod(p) => vol' = vol
  BY DEF cmd_chmod
<1> QED BY <1>1, <1>2 DEF FsNext

LEMMA TextPlain ==
    ASSUME NEW text \in Files, NEW v
    PROVE  Plain(Text(text)) /\ Writable(v, Text(text))
BY TextTyped DEF Plain, IsEntry, Writable

\* The commands that keep a tree, and those that keep one when what they copy has no
\* entries.
TreeBroken ==
    TreeShaped(vol) /\ ~TreeShaped(vol') =>
        \E p, q \in Paths : /\ cmd_cp(p, q) \/ cmd_mv(p, q)
                            /\ Entries(Resolve(p)) # {}

LEMMA TreeStep == FsInv /\ [FsNext]_fsVars => [TreeBroken]_fsVars
<1> SUFFICES ASSUME FsInv, FsNext, TreeShaped(vol), ~TreeShaped(vol'),
                    \A p, q \in Paths : cmd_cp(p, q) \/ cmd_mv(p, q) =>
                        Entries(Resolve(p)) = {}
             PROVE  FALSE
  BY DEF TreeBroken
<1>0. /\ SoundInv(vol) /\ cwd_inode \in Live(vol) /\ Paths \subseteq PathNames
      /\ vol.next_inode \in Nat /\ MaxInode \in Nat
  BY FsAssumption, Ext2Assumption DEF FsInv, SoundInv, VolumeType
<1>r. \A m, n : Room(n, m) /\ n \in {1, 2} => vol.next_inode + n - 1 <= MaxInode
  BY DEF Room
<1>1. ASSUME NEW p \in Paths, cmd_touch(p) PROVE FALSE
  <2>1. vol.next_inode <= MaxInode
    BY <1>0, <1>1, <1>r DEF cmd_touch
  <2>2. \/ vol' = vol
        \/ HasParent(vol, cwd_inode, p) /\ vol' = fs_create(vol, cwd_inode, p)
    BY <1>1 DEF cmd_touch
  <2> QED BY <1>0, <2>1, <2>2, MakeInv
<1>2. ASSUME NEW p \in Paths, cmd_mkdir(p) PROVE FALSE
  <2>1. vol.next_inode <= MaxInode
    BY <1>0, <1>2, <1>r DEF cmd_mkdir
  <2>2. \/ vol' = vol
        \/ HasParent(vol, cwd_inode, p) /\ vol' = fs_mkdir(vol, cwd_inode, p)
    BY <1>2 DEF cmd_mkdir
  <2> QED BY <1>0, <2>1, <2>2, MakeInv
<1>3. ASSUME NEW p \in Paths, cmd_rm(p) PROVE FALSE
  <2>1. \/ vol' = vol
        \/ /\ HasParent(vol, cwd_inode, p)
           /\ vol' = ext2_unlink(vol, fs_get_parent(vol, cwd_inode, p), Last(p.comps))
    BY <1>3 DEF cmd_rm
  <2> QED BY <1>0, <2>1, DeleteInv
<1>4. ASSUME NEW p \in Paths, NEW q \in Paths, cmd_cp(p, q) \/ cmd_mv(p, q) PROVE FALSE
  <2>1. vol.next_inode <= MaxInode
    BY <1>0, <1>4, <1>r DEF cmd_cp, cmd_mv
  <2> DEFINE c == Copy(p, q)
  <2>2. /\ SoundInv(c.vol) /\ Live(vol) \subseteq Live(c.vol) /\ cwd_inode \in Live(c.vol)
        /\ TreeShaped(c.vol)
    BY <1>0, <1>4, <2>1, CopyInv
  <2>3. \/ vol' = c.vol
        \/ /\ HasParent(c.vol, cwd_inode, p)
           /\ vol' = ext2_unlink(c.vol, fs_get_parent(c.vol, cwd_inode, p), Last(p.comps))
    BY <1>4 DEF cmd_cp, cmd_mv
  <2> HIDE DEF c
  <2> QED BY <1>0, <2>2, <2>3, DeleteInv
<1>5. ASSUME NEW p \in Paths, NEW text \in Files, kw_save(p, text) PROVE FALSE
  <2>1. vol.next_inode <= MaxInode
    BY <1>0, <1>5, <1>r DEF kw_save
  <2>2. vol' = fs_write(vol, cwd_inode, p, Text(text)).vol
    BY <1>5 DEF kw_save
  <2> QED BY <1>0, <2>1, <2>2, TextPlain, WriteInv
<1>6. ASSUME NEW user \in Names, create_home(user) PROVE FALSE
  <2>1. vol.next_inode + 1 <= MaxInode
    BY <1>0, <1>6 DEF create_home, Room
  <2>2. vol' = fs_create_home(vol, cwd_inode, user)
    BY <1>6 DEF create_home
  <2> QED BY <1>0, <2>1, <2>2, HomeInv
<1> QED BY <1>1, <1>2, <1>3, <1>4, <1>5, <1>6, FsCommands

\* Only cp and mv, and only of something that holds entries, can turn the tree into
\* something else: no other command does, whatever it is given and however full the
\* directories are.
THEOREM OnlyCopiesBreakTree == FsSpec => OnlyCopiedDirsBreakTree
<1>1. FsInit => FsInv
  BY FsInitInv
<1>2. FsInv /\ [FsNext]_fsVars => FsInv'
  BY FsStep
<1>3. FsInv /\ [FsNext]_fsVars => [TreeBroken]_fsVars
  BY TreeStep
<1> QED BY <1>1, <1>2, <1>3, PTL DEF FsSpec, OnlyCopiedDirsBreakTree, TreeBroken

-----------------------------------------------------------------------------
(* Names *)

\* The entries of one name, slot by slot.
LEMMA HitsAre ==
    ASSUME NEW v, NEW d, NEW name
    PROVE  UnlinkHits(v, d, name) = {k \in Index : Named(Slot(v, d, k), name)}
BY DEF UnlinkHits, Slot, Named, Zero

\* The parent of a path is where the walk is before its last component.
LEMMA ParentFolds ==
    ASSUME NEW v, NEW cur, NEW path \in PathNames
    PROVE  fs_get_parent(v, cur, path) =
               P!Fold(v, IF path.abs THEN Root ELSE cur, Front(path.comps))
<1> DEFINE s == path.comps
           b == IF path.abs THEN Root ELSE cur
<1>1. s \in Seq(Comps) /\ s # <<>>
  BY DEF PathNames, Comps
<1>2. CASE Len(s) = 1
  <2>1. Front(s) = <<>>
    BY <1>1, <1>2 DEF Front
  <2>2. P!Fold(v, b, <<>>) = b
    BY P!FoldEmpty
  <2> QED BY <1>2, <2>1, <2>2 DEF fs_get_parent
<1>3. CASE Len(s) # 1
  <2> DEFINE up == [path EXCEPT !.comps = Front(@)]
  <2>1. up.comps = Front(s) /\ up.abs = path.abs
    BY DEF PathNames
  <2>2. fs_get_parent(v, cur, path) = fs_resolve_inode(v, cur, up)
    BY <1>3 DEF fs_get_parent
  <2> HIDE DEF up
  <2> QED BY <2>1, <2>2, ResolveFolds
<1> QED BY <1>2, <1>3

\* The walk of a path ends with a step from its parent.
LEMMA ResolveSplits ==
    ASSUME NEW v, NEW cur, NEW path \in PathNames
    PROVE  fs_resolve_inode(v, cur, path) =
               Walk(v, fs_get_parent(v, cur, path), Last(path.comps))
<1> DEFINE s == path.comps
           p == Front(s)
           n == Len(p)
           b == IF path.abs THEN Root ELSE cur
<1>1. s \in Seq(Comps) /\ s # <<>>
  BY DEF PathNames, Comps
<1>2. /\ n \in Nat /\ DOMAIN p = 1 .. n /\ DOMAIN s = 1 .. n + 1
      /\ \A k \in 1 .. n : p[k] = s[k]
      /\ Last(s) = s[n + 1]
  BY <1>1, FrontTyped DEF Front, Last
<1> HIDE DEF n, p, s
<1>3. P!Fold(v, b, s) = Walk(v, P!Fold(v, b, p), s[n + 1])
  BY ONLY <1>2, P!FoldLast
<1> QED BY <1>2, <1>3, ResolveFolds, ParentFolds DEF p, s

\* What find says of a directory without an entry of the name, and of one with.
LEMMA FindMisses ==
    ASSUME NEW v, SoundInv(v), NEW d \in Live(v), NEW name \in Names
    PROVE  /\ UnlinkHits(v, d, name) = {} <=> ext2_find_inode(v, d, name) = -1
           /\ UnlinkHits(v, d, name) = {} <=> ext2_find_inode(v, d, name) < 0
<1>1. UnlinkHits(v, d, name) # {} => UnlinkVictim(v, d, name) \in FirstInode .. v.next_inode - 1
  BY UnlinkInv
<1>2. FirstInode \in Nat /\ v.next_inode \in Nat
  BY Ext2Assumption DEF SoundInv, VolumeType
<1> QED BY <1>1, <1>2, FindIsUnlink

\* A path that does not exist, under a parent that does, names nothing there.
LEMMA MissingName ==
    ASSUME NEW v, SoundInv(v), NEW cur \in Live(v), NEW path \in PathNames,
           HasParent(v, cur, path), ~fs_exists(v, cur, path)
    PROVE  UnlinkHits(v, fs_get_parent(v, cur, path), Last(path.comps)) = {}
<1> DEFINE d == fs_get_parent(v, cur, path)
           name == Last(path.comps)
<1>1. d \in Live(v) /\ name \in Names /\ d >= 0 /\ name # Blank
  BY ParentTyped DEF HasParent
<1>2. Reached(v, fs_resolve_inode(v, cur, path))
  BY ParentTyped
<1>3. fs_resolve_inode(v, cur, path) = ext2_find_inode(v, d, name)
  BY <1>1, ResolveSplits, LivePositive DEF Walk, SoundInv
<1> HIDE DEF d, name
<1>4. fs_resolve_inode(v, cur, path) = -1
  BY <1>2, LivePositive DEF Reached, fs_exists, SoundInv
<1> QED BY <1>1, <1>3, <1>4, FindMisses DEF d, name

\* No directory has two entries of one name.
NamesOnce(v) ==
    \A i \in Live(v), k, l \in Index, name \in Names :
        Named(Slot(v, i, k), name) /\ Named(Slot(v, i, l), name) => k = l

LEMMA NamesOnceIs == NamesUnique <=> NamesOnce(vol)
<1>1. \A i, name : UnlinkHits(vol, i, name) = {k \in Index : Named(Slot(vol, i, k), name)}
  BY HitsAre
<1> QED BY <1>1 DEF NamesUnique, NamesOnce

\* An entry of a new name repeats none.
LEMMA MadeOnce ==
    ASSUME NEW v, NEW w, NEW d \in Live(v), NEW name, NEW ftype,
           Made(v, w, d, name, ftype), UnlinkHits(v, d, name) = {}, NamesOnce(v)
    PROVE  NamesOnce(w)
<1> DEFINE n == v.next_inode
           F == FreeSlots(v, d)
<1>1. /\ Live(w) = Live(v) \cup {n}
      /\ \A j \in Index : Slot(w, n, j) = Zero
      /\ \A i \in Live(v), j \in Index :
            Slot(w, i, j) = IF F # {} /\ i = d /\ j = Min(F) THEN Dirent(n, name, ftype)
                            ELSE Slot(v, i, j)
  BY DEF Made
<1>2. \A k \in Index : ~Named(Slot(v, d, k), name)
  BY HitsAre
<1> HIDE DEF n, F
<1>3. \A nm : ~Named(Zero, nm) /\ (Named(Dirent(n, name, ftype), nm) => nm = name)
  BY DEF Named, Zero, Dirent
<1> SUFFICES ASSUME NEW i \in Live(w), NEW k \in Index, NEW l \in Index, NEW nm \in Names,
                    Named(Slot(w, i, k), nm), Named(Slot(w, i, l), nm)
             PROVE  k = l
  BY DEF NamesOnce
<1>4. i \in Live(v)
  BY <1>1, <1>3
<1>5. CASE i # d
  BY <1>1, <1>4, <1>5 DEF NamesOnce
<1>6. CASE i = d
  BY <1>1, <1>2, <1>3, <1>4, <1>6 DEF NamesOnce
<1> QED BY <1>5, <1>6

\* Bytes in which no name is an entry twice.
BytesOnce(bytes) ==
    \A k, l \in 1 .. Len(bytes), name \in Names :
        Named(bytes[k], name) /\ Named(bytes[l], name) => k = l

LEMMA WrittenOnce ==
    ASSUME NEW v, SoundInv(v), NEW i \in Live(v), NEW bytes, Writable(v, bytes),
           BytesOnce(bytes), NamesOnce(v)
    PROVE  NamesOnce(ext2_write_file(v, i, bytes))
<1> DEFINE w == ext2_write_file(v, i, bytes)
           m == Written(bytes)
<1>1. /\ w.next_inode = v.next_inode
      /\ m = 0 => w = v
      /\ m # 0 => \A x \in Live(v), k \in Index :
            Slot(w, x, k) = IF x # i THEN Slot(v, x, k)
                            ELSE IF k < m THEN bytes[k + 1] ELSE Zero
  BY WriteFileInv DEF Writable
<1>2. m \in Nat /\ m <= Len(bytes) /\ Len(bytes) \in Nat /\ Index \subseteq Nat
  BY Ext2Assumption DEF Written, Writable, Index
<1> HIDE DEF w, m
<1>3. Live(w) = Live(v)
  BY <1>1 DEF Live
<1> SUFFICES ASSUME m # 0,
                    NEW x \in Live(v), NEW k \in Index, NEW l \in Index, NEW name \in Names,
                    Named(Slot(w, x, k), name), Named(Slot(w, x, l), name)
             PROVE  k = l
  BY <1>1, <1>3 DEF NamesOnce, w
<1>4. CASE x # i
  BY <1>1, <1>4 DEF NamesOnce
<1>5. CASE x = i
  <2>1. ~Named(Zero, name)
    BY DEF Named, Zero
  <2>2. k < m /\ l < m /\ Named(bytes[k + 1], name) /\ Named(bytes[l + 1], name)
    BY <1>1, <1>5, <2>1
  <2>3. k + 1 \in 1 .. Len(bytes) /\ l + 1 \in 1 .. Len(bytes)
    BY <1>2, <2>2
  <2>4. k + 1 = l + 1
    BY <2>2, <2>3 DEF BytesOnce
  <2> QED BY <1>2, <2>4
<1> QED BY <1>4, <1>5

\* A removed entry leaves the others as they are.
LEMMA RemovedOnce ==
    ASSUME NEW v, SoundInv(v), NEW d \in Live(v), NEW name \in Names, NamesOnce(v)
    PROVE  NamesOnce(ext2_unlink(v, d, name))
<1> DEFINE w == ext2_unlink(v, d, name)
           H == UnlinkHits(v, d, name)
           x == UnlinkVictim(v, d, name)
<1>1. /\ w.next_inode = v.next_inode
      /\ H = {} => w = v
      /\ H # {} => \A i \in Live(v), j \in Index :
            Slot(w, i, j) = IF i = x THEN Zero
                            ELSE IF i = d /\ j = Min(H) THEN [Slot(v, d, j) EXCEPT !.ino = 0]
                            ELSE Slot(v, i, j)
  BY UnlinkInv
<1>2. \A k : Slot(v, d, k) \in Content
  BY SlotTyped DEF SoundInv
<1> HIDE DEF w, H, x
<1>3. \A nm : ~Named(Zero, nm)
  BY DEF Named, Zero
<1>4. ASSUME NEW k, NEW nm PROVE ~Named([Slot(v, d, k) EXCEPT !.ino = 0], nm)
  <2> DEFINE c == Slot(v, d, k)
  <2>1. c \in Content
    BY <1>2
  <2> HIDE DEF c
  <2>2. CASE c.kind = "dirent"
    <3>1. [c EXCEPT !.ino = 0].ino = 0
      BY <2>1, <2>2 DEF Content, Zero
    <3> QED BY <3>1 DEF Named, c
  <2>3. CASE c.kind # "dirent"
    <3>1. [c EXCEPT !.ino = 0].kind # "dirent"
      BY <2>1, <2>3 DEF Content, Zero
    <3> QED BY <3>1 DEF Named, c
  <2> QED BY <2>2, <2>3
<1>5. Live(w) = Live(v)
  BY <1>1 DEF Live
<1> SUFFICES ASSUME H # {},
                    NEW i \in Live(v), NEW k \in Index, NEW l \in Index, NEW nm \in Names,
                    Named(Slot(w, i, k), nm), Named(Slot(w, i, l), nm)
             PROVE  k = l
  BY <1>1, <1>5 DEF NamesOnce, w
<1>6. Named(Slot(v, i, k), nm) /\ Named(Slot(v, i, l), nm)
  BY <1>1, <1>3, <1>4
<1> QED BY <1>6 DEF NamesOnce
\* The volume fs_write writes to: the one with the file.
MadeFor(v, cur, path) ==
    IF fs_exists(v, cur, path) \/ ~HasParent(v, cur, path) THEN v
    ELSE fs_create(v, cur, path)

LEMMA WriteIs ==
    ASSUME NEW v, NEW cur, NEW path, NEW bytes
    PROVE  LET u == MadeFor(v, cur, path)
               i == fs_resolve_inode(u, cur, path)
           IN  fs_write(v, cur, path, bytes) =
                   IF i < 0 THEN [vol |-> u, ok |-> FALSE]
                   ELSE [vol |-> ext2_write_file(u, i, bytes), ok |-> TRUE]
BY DEF fs_write, MadeFor

LEMMA MadeForInv ==
    ASSUME NEW v, SoundInv(v), v.next_inode <= MaxInode,
           NEW cur \in Live(v), NEW path \in PathNames
    PROVE  LET u == MadeFor(v, cur, path)
               i == fs_resolve_inode(u, cur, path)
           IN  /\ SoundInv(u) /\ Live(v) \subseteq Live(u) /\ cur \in Live(u)
               /\ TreeShaped(v) => TreeShaped(u)
               /\ NamesOnce(v) => NamesOnce(u)
               /\ \A bytes : Writable(v, bytes) => Writable(u, bytes)
               /\ (i \in Live(u) /\ i >= 0) \/ i = -1
<1> DEFINE u == MadeFor(v, cur, path)
           i == fs_resolve_inode(u, cur, path)
<1>0. v.next_inode \in Nat
  BY Ext2Assumption DEF SoundInv, VolumeType
<1>1. /\ SoundInv(u) /\ v.next_inode <= u.next_inode
      /\ TreeShaped(v) => TreeShaped(u)
  BY <1>0, MakeInv DEF MadeFor
<1>2. NamesOnce(v) => NamesOnce(u)
  <2> SUFFICES ASSUME NamesOnce(v), ~fs_exists(v, cur, path), HasParent(v, cur, path)
               PROVE  NamesOnce(u)
    BY DEF MadeFor
  <2> DEFINE d == fs_get_parent(v, cur, path)
             name == Last(path.comps)
  <2>1. d \in Live(v) /\ name \in Names /\ UnlinkHits(v, d, name) = {}
    BY ParentTyped, MissingName
  <2>2. u = ext2_create_file(v, d, name)
    BY DEF MadeFor, fs_create
  <2> HIDE DEF d, name, u
  <2>3. Made(v, u, d, name, "reg")
    BY <2>1, <2>2, CreateFileInv
  <2> QED BY <2>1, <2>3, MadeOnce
<1> HIDE DEF u
<1>3. /\ Live(v) \subseteq Live(u) /\ cur \in Live(u)
      /\ FirstInode .. v.next_inode - 1 \subseteq FirstInode .. u.next_inode - 1
  BY <1>1, LiveGrows
<1>4. \A bytes : Writable(v, bytes) => Writable(u, bytes)
  BY <1>3 DEF Writable
<1>5. Reached(u, i)
  BY <1>1, <1>3, ParentTyped
<1>6. (i \in Live(u) /\ i >= 0) \/ i = -1
  BY <1>1, <1>5, LivePositive DEF Reached, SoundInv
<1> QED BY <1>1, <1>2, <1>3, <1>4, <1>6 DEF u

\* fs_write repeats no name, unless its bytes do.
LEMMA WriteOnce ==
    ASSUME NEW v, SoundInv(v), v.next_inode <= MaxInode, NamesOnce(v),
           NEW cur \in Live(v), NEW path \in PathNames,
           NEW bytes, Writable(v, bytes), BytesOnce(bytes)
    PROVE  NamesOnce(fs_write(v, cur, path, bytes).vol)
<1> DEFINE u == MadeFor(v, cur, path)
           i == fs_resolve_inode(u, cur, path)
<1>1. /\ SoundInv(u) /\ NamesOnce(u) /\ Writable(u, bytes)
      /\ (i \in Live(u) /\ i >= 0) \/ i = -1
  BY MadeForInv
<1>2. fs_write(v, cur, path, bytes).vol = IF i < 0 THEN u ELSE ext2_write_file(u, i, bytes)
  BY WriteIs
<1> HIDE DEF u, i
<1> QED BY <1>1, <1>2, WrittenOnce

\* What ext2_read_file returns, slot by slot.
LEMMA ReadSlots ==
    ASSUME NEW v, SoundInv(v), NEW i \in Live(v)
    PROVE  LET bytes == ext2_read_file(v, i)
               n == Cardinality(Visited(v.itab[i]))
           IN  /\ n \in Nat /\ n <= NDirect /\ Len(bytes) = n
               /\ bytes = [k \in 1 .. n |-> Slot(v, i, k - 1)]
               /\ \A k \in 1 .. n : k - 1 \in Index
               /\ \A k \in Index : v.itab[i].block[k] # 0 <=> k < n
<1> DEFINE bytes == ext2_read_file(v, i)
           V == Visited(v.itab[i])
           n == Cardinality(V)
<1>1. n \in Nat /\ V = 0 .. n - 1
  BY VisitedAreFirst
<1>2. V = {k \in Index : v.itab[i].block[k] # 0}
  BY HitsAgree
<1>3. bytes = [k \in 1 .. n |-> ReadBlock(v, v.itab[i].block[k - 1])]
  BY DEF ext2_read_file
<1> HIDE DEF V, n, bytes
<1>4. NDirect \in Nat /\ Index = 0 .. NDirect - 1
  BY Ext2Assumption DEF Index
<1>5. \A k \in 1 .. n : k - 1 \in V /\ k - 1 \in Index /\ v.itab[i].block[k - 1] # 0
  BY <1>1, <1>2
<1>6. bytes = [k \in 1 .. n |-> Slot(v, i, k - 1)]
  BY <1>3, <1>5 DEF Slot
<1>7. n <= NDirect
  <2>1. n # 0 => n - 1 \in V
    BY <1>1
  <2> QED BY <1>1, <1>2, <1>4, <2>1
<1>8. \A k \in Index : v.itab[i].block[k] # 0 <=> k < n
  BY <1>1, <1>2, <1>4
<1> QED BY <1>1, <1>3, <1>5, <1>6, <1>7, <1>8 DEF n, V, bytes

\* A copied directory repeats no name that the original does not repeat.
LEMMA CopyOnce ==
    ASSUME FsInv, vol.next_inode <= MaxInode, NamesOnce(vol),
           NEW p \in PathNames, NEW q \in PathNames
    PROVE  NamesOnce(Copy(p, q).vol)
<1> DEFINE i == fs_resolve_inode(vol, cwd_inode, p)
           bytes == fs_read(vol, cwd_inode, p, CopyBlocks)
<1>1. SoundInv(vol) /\ cwd_inode \in Live(vol)
  BY DEF FsInv
<1>2. CASE ~fs_exists(vol, cwd_inode, p)
  BY <1>2 DEF Copy
<1>3. CASE fs_exists(vol, cwd_inode, p)
  <2>1. i \in Live(vol)
    BY <1>1, <1>3, ParentTyped DEF fs_exists, Reached
  <2>2. Writable(vol, bytes)
    BY <1>1, <2>1, FsReadTyped
  <2>3. BytesOnce(bytes)
    <3> DEFINE all == ext2_read_file(vol, i)
               n == Cardinality(Visited(vol.itab[i]))
               m == IF Len(all) < CopyBlocks THEN Len(all) ELSE CopyBlocks
    <3>1. /\ n \in Nat /\ Len(all) = n
          /\ all = [k \in 1 .. n |-> Slot(vol, i, k - 1)]
          /\ \A k \in 1 .. n : k - 1 \in Index
      BY <1>1, <2>1, ReadSlots
    <3>2. /\ m \in Nat /\ m <= Len(all) /\ Len(bytes) = m
          /\ \A k \in 1 .. m : IsEntry(bytes[k]) => bytes[k] = all[k]
      BY <1>1, <2>1, FsReadIs
    <3> HIDE DEF all, n, m, bytes
    <3>3. \A k \in 1 .. m : /\ IsEntry(bytes[k]) => bytes[k] = Slot(vol, i, k - 1)
                           /\ k - 1 \in Index
      BY <3>1, <3>2
    <3> SUFFICES ASSUME NEW k \in 1 .. m, NEW l \in 1 .. m, NEW name \in Names,
                        Named(bytes[k], name), Named(bytes[l], name)
                 PROVE  k = l
      BY <3>2 DEF BytesOnce
    <3>4. k - 1 = l - 1
      BY <2>1, <3>3 DEF NamesOnce, Named, IsEntry
    <3> QED BY <3>2, <3>4
  <2>4. Copy(p, q) = fs_write(vol, cwd_inode, q, bytes)
    BY <1>3 DEF Copy
  <2> HIDE DEF bytes
  <2> QED BY <1>1, <2>2, <2>3, <2>4, WriteOnce
<1> QED BY <1>2, <1>3
\* Every command but useradd keeps the names of a directory apart.
NamesRepeated == NamesUnique => NamesUnique' \/ \E user \in Names : create_home(user)

LEMMA NamesStep == FsInv /\ [FsNext]_fsVars => [NamesRepeated]_fsVars
<1> SUFFICES ASSUME FsInv, FsNext, NamesUnique, ~(\E user \in Names : create_home(user))
             PROVE  NamesUnique'
  BY DEF NamesRepeated
<1>0. /\ SoundInv(vol) /\ cwd_inode \in Live(vol) /\ Paths \subseteq PathNames
      /\ vol.next_inode \in Nat /\ MaxInode \in Nat /\ NamesOnce(vol)
  BY FsAssumption, Ext2Assumption, NamesOnceIs DEF FsInv, SoundInv, VolumeType
<1>r. \A m, n : Room(n, m) /\ n \in {1, 2} => vol.next_inode + n - 1 <= MaxInode
  BY DEF Room
<1>n. NamesOnce(vol') => NamesUnique'
  <2>1. \A i, name : UnlinkHits(vol', i, name) = {k \in Index : Named(Slot(vol', i, k), name)}
    BY HitsAre
  <2> QED BY <2>1 DEF NamesUnique, NamesOnce
<1>1. ASSUME NEW p \in Paths, cmd_touch(p) PROVE NamesOnce(vol')
  <2>1. vol.next_inode <= MaxInode
    BY <1>0, <1>1, <1>r DEF cmd_touch
  <2>2. vol' = MadeFor(vol, cwd_inode, p)
    BY <1>1 DEF cmd_touch, MadeFor
  <2> QED BY <1>0, <2>1, <2>2, MadeForInv
<1>2. ASSUME NEW p \in Paths, cmd_mkdir(p) PROVE NamesOnce(vol')
  <2> DEFINE d == fs_get_parent(vol, cwd_inode, p)
             name == Last(p.comps)
  <2>1. vol.next_inode <= MaxInode
    BY <1>0, <1>2, <1>r DEF cmd_mkdir
  <2>2. CASE vol' = vol
    BY <1>0, <2>2
  <2>3. CASE /\ HasParent(vol, cwd_inode, p) /\ ~fs_exists(vol, cwd_inode, p)
             /\ vol' = ext2_mkdir(vol, d, name)
    <3>1. d \in Live(vol) /\ name \in Names /\ UnlinkHits(vol, d, name) = {}
      BY <1>0, <2>3, ParentTyped, MissingName
    <3> HIDE DEF d, name
    <3>2. Made(vol, vol', d, name, "dir")
      BY <1>0, <2>1, <2>3, <3>1, MkdirInv
    <3> QED BY <1>0, <3>1, <3>2, MadeOnce
  <2> QED BY <1>2, <2>2, <2>3 DEF cmd_mkdir, fs_mkdir
<1>3. ASSUME NEW p \in Paths, cmd_rm(p) PROVE NamesOnce(vol')
  <2>1. \/ vol' = vol
        \/ /\ HasParent(vol, cwd_inode, p)
           /\ vol' = ext2_unlink(vol, fs_get_parent(vol, cwd_inode, p), Last(p.comps))
    BY <1>3 DEF cmd_rm
  <2> QED BY <1>0, <2>1, ParentTyped, RemovedOnce
<1>4. ASSUME NEW p \in Paths, NEW q \in Paths, cmd_cp(p, q) \/ cmd_mv(p, q)
      PROVE  NamesOnce(vol')
  <2>1. vol.next_inode <= MaxInode
    BY <1>0, <1>4, <1>r DEF cmd_cp, cmd_mv
  <2> DEFINE c == Copy(p, q)
  <2>2. /\ SoundInv(c.vol) /\ Live(vol) \subseteq Live(c.vol) /\ cwd_inode \in Live(c.vol)
        /\ NamesOnce(c.vol)
    BY <1>0, <2>1, CopyInv, CopyOnce
  <2>3. \/ vol' = c.vol
        \/ /\ HasParent(c.vol, cwd_inode, p)
           /\ vol' = ext2_unlink(c.vol, fs_get_parent(c.vol, cwd_inode, p), Last(p.comps))
    BY <1>4 DEF cmd_cp, cmd_mv
  <2> HIDE DEF c
  <2> QED BY <1>0, <2>2, <2>3, ParentTyped, RemovedOnce
<1>5. ASSUME NEW p \in Paths, NEW text \in Files, kw_save(p, text) PROVE NamesOnce(vol')
  <2>1. vol.next_inode <= MaxInode
    BY <1>0, <1>5, <1>r DEF kw_save
  <2>2. vol' = fs_write(vol, cwd_inode, p, Text(text)).vol
    BY <1>5 DEF kw_save
  <2>3. Writable(vol, Text(text)) /\ BytesOnce(Text(text))
    BY TextPlain, TextTyped DEF BytesOnce, Named
  <2> QED BY <1>0, <2>1, <2>2, <2>3, WriteOnce
<1> QED BY <1>0, <1>n, <1>1, <1>2, <1>3, <1>4, <1>5, FsCommands

\* The names in a directory stay apart under every command but useradd, whose
\* fs_create_home does not look first: for every path, and also for directories that
\* were copied as if they were text.
THEOREM OnlyUseraddRepeatsNames == FsSpec => OnlyHomeRepeatsNames
<1>1. FsInit => FsInv
  BY FsInitInv
<1>2. FsInv /\ [FsNext]_fsVars => FsInv'
  BY FsStep
<1>3. FsInv /\ [FsNext]_fsVars => [NamesRepeated]_fsVars
  BY NamesStep
<1> QED BY <1>1, <1>2, <1>3, PTL DEF FsSpec, OnlyHomeRepeatsNames, NamesRepeated

-----------------------------------------------------------------------------
(* What a walk and a read depend on *)

\* ext2_find_inode looks at the slots only.
LEMMA FindIs ==
    ASSUME NEW v, SoundInv(v), NEW x \in Live(v), NEW name
    PROVE  LET H == {k \in Index : Named(Slot(v, x, k), name)}
           IN  /\ H # {} => Min(H) \in H
               /\ ext2_find_inode(v, x, name) = IF H = {} THEN -1 ELSE Slot(v, x, Min(H)).ino
<1> DEFINE H == {k \in Index : Named(Slot(v, x, k), name)}
<1>1. H = UnlinkHits(v, x, name)
  BY HitsAre
<1>2. ASSUME H # {} PROVE Min(H) \in H
  <2>1. H \in SUBSET Nat
    BY Ext2Assumption DEF Index
  <2> HIDE DEF H
  <2> QED BY <1>2, <2>1, MinIsLeast
<1>3. ASSUME H # {} PROVE UnlinkVictim(v, x, name) = Slot(v, x, Min(H)).ino
  <2>1. Min(H) \in UnlinkHits(v, x, name)
    BY <1>1, <1>2, <1>3
  <2>2. v.itab[x].block[Min(H)] # 0
    BY <2>1 DEF UnlinkHits
  <2> HIDE DEF H
  <2> QED BY <1>1, <2>2 DEF UnlinkVictim, Slot
<1> HIDE DEF H
<1> QED BY <1>1, <1>2, <1>3, FindIsUnlink DEF H

\* Two volumes agree on an inode: on what its slots hold and which are missing.
Same(v, w, x) ==
    \A k \in Index : /\ w.itab[x].block[k] = 0 <=> v.itab[x].block[k] = 0
                     /\ Slot(w, x, k) = Slot(v, x, k)

\* Then they agree on what is found and what is read there.
LEMMA SameFinds ==
    ASSUME NEW v, SoundInv(v), NEW w, SoundInv(w), NEW x \in Live(v), x \in Live(w),
           \A k \in Index : Slot(w, x, k) = Slot(v, x, k), NEW name
    PROVE  ext2_find_inode(w, x, name) = ext2_find_inode(v, x, name)
<1> DEFINE H == {k \in Index : Named(Slot(v, x, k), name)}
<1>1. H = {k \in Index : Named(Slot(w, x, k), name)}
  OBVIOUS
<1>2. /\ H # {} => Min(H) \in H
      /\ ext2_find_inode(v, x, name) = IF H = {} THEN -1 ELSE Slot(v, x, Min(H)).ino
  BY FindIs
<1>3. ext2_find_inode(w, x, name) = IF H = {} THEN -1 ELSE Slot(w, x, Min(H)).ino
  BY <1>1, FindIs
<1>4. \A k \in H : k \in Index
  OBVIOUS
<1> HIDE DEF H
<1> QED BY <1>2, <1>3, <1>4

LEMMA SameReads ==
    ASSUME NEW v, SoundInv(v), NEW w, SoundInv(w), NEW x \in Live(v), x \in Live(w),
           Same(v, w, x)
    PROVE  ext2_read_file(w, x) = ext2_read_file(v, x)
<1> DEFINE n == Cardinality(Visited(v.itab[x]))
           m == Cardinality(Visited(w.itab[x]))
<1>1. /\ n \in Nat /\ n <= NDirect
      /\ ext2_read_file(v, x) = [k \in 1 .. n |-> Slot(v, x, k - 1)]
      /\ \A k \in 1 .. n : k - 1 \in Index
      /\ \A k \in Index : v.itab[x].block[k] # 0 <=> k < n
  BY ReadSlots
<1>2. /\ m \in Nat /\ m <= NDirect
      /\ ext2_read_file(w, x) = [k \in 1 .. m |-> Slot(w, x, k - 1)]
      /\ \A k \in Index : w.itab[x].block[k] # 0 <=> k < m
  BY ReadSlots
<1> HIDE DEF n, m
<1>3. \A k \in Index : k < n <=> k < m
  BY <1>1, <1>2 DEF Same
<1>4. m = n
  <2>1. NDirect \in Nat /\ \A k \in Nat : k < NDirect => k \in Index
    BY Ext2Assumption DEF Index
  <2>2. ~(m < n)
    BY <1>1, <1>2, <1>3, <2>1
  <2>3. ~(n < m)
    BY <1>1, <1>2, <1>3, <2>1
  <2> QED BY <1>1, <1>2, <2>2, <2>3
<1> QED BY <1>1, <1>2, <1>4 DEF Same

\* ext2_write_file changes the pointers of its inode only.
LEMMA WritePointers ==
    ASSUME NEW v, SoundInv(v), NEW i \in Live(v), NEW bytes, Writable(v, bytes),
           Written(bytes) # 0
    PROVE  LET w == ext2_write_file(v, i, bytes)
           IN  /\ Live(w) = Live(v)
               /\ \A x \in Live(v) : x # i => Same(v, w, x)
               /\ \A k \in Index : w.itab[i].block[k] # 0 <=> k < Written(bytes)
<1> DEFINE w == ext2_write_file(v, i, bytes)
           m == Written(bytes)
           first == v.next_block
           ptrs == [k \in Index |-> IF k < m THEN first + k ELSE 0]
<1>1. VolumeType(v) /\ Live(v) \subseteq Inodes /\ v.itab \in [Inodes -> Inode]
  BY LiveTyped DEF SoundInv, VolumeType
<1>2. first \in Nat /\ first > 0
  BY Ext2Assumption DEF SoundInv, VolumeType
<1>3. w.itab = [v.itab EXCEPT ![i].block = ptrs]
  BY <1>1 DEF ext2_write_file, VolumeType
<1>4. /\ w.next_inode = v.next_inode
      /\ \A x \in Live(v), k \in Index : x # i => Slot(w, x, k) = Slot(v, x, k)
  BY WriteFileInv DEF Writable
<1>5. \A k \in Index : ptrs[k] = IF k < m THEN first + k ELSE 0
  OBVIOUS
<1> HIDE DEF w, m, first, ptrs
<1>6. w.itab[i].block = ptrs
  BY <1>1, <1>3 DEF Inode
<1>7. \A x \in Live(v) : x # i => w.itab[x] = v.itab[x]
  BY <1>1, <1>3
<1>8. \A k \in Index : w.itab[i].block[k] # 0 <=> k < m
  BY <1>2, <1>5, <1>6, Ext2Assumption DEF Index
<1>9. \A x \in Live(v) : x # i => Same(v, w, x)
  BY <1>4, <1>7 DEF Same
<1>10. Live(w) = Live(v)
  BY <1>4 DEF Live
<1> QED BY <1>8, <1>9, <1>10 DEF w, m

\* What is read back after ext2_write_file.
LEMMA WrittenReads ==
    ASSUME NEW v, SoundInv(v), NEW i \in Live(v), NEW bytes, Writable(v, bytes),
           Written(bytes) # 0
    PROVE  ext2_read_file(ext2_write_file(v, i, bytes), i) =
               [k \in 1 .. Written(bytes) |-> bytes[k]]
<1> DEFINE w == ext2_write_file(v, i, bytes)
           m == Written(bytes)
           n == Cardinality(Visited(w.itab[i]))
<1>1. /\ SoundInv(w)
      /\ \A k \in Index : Slot(w, i, k) = IF k < m THEN bytes[k + 1] ELSE Zero
  BY WriteFileInv DEF Writable
<1>2. i \in Live(w) /\ \A k \in Index : w.itab[i].block[k] # 0 <=> k < m
  BY WritePointers
<1>3. m \in Nat /\ m <= NDirect /\ NDirect \in Nat
  BY Ext2Assumption DEF Written, Writable
<1> HIDE DEF w, m
<1>4. /\ n \in Nat /\ n <= NDirect
      /\ ext2_read_file(w, i) = [k \in 1 .. n |-> Slot(w, i, k - 1)]
      /\ \A k \in 1 .. n : k - 1 \in Index
      /\ \A k \in Index : w.itab[i].block[k] # 0 <=> k < n
  BY <1>1, <1>2, ReadSlots
<1> HIDE DEF n
<1>5. m = n
  <2>1. \A k \in Nat : k < NDirect => k \in Index
    BY <1>3 DEF Index
  <2>2. \A k \in Index : k < n <=> k < m
    BY <1>2, <1>4
  <2>3. ~(m < n)
    BY <1>3, <1>4, <2>1, <2>2
  <2>4. ~(n < m)
    BY <1>3, <1>4, <2>1, <2>2
  <2> QED BY <1>3, <1>4, <2>3, <2>4
<1>6. \A k \in 1 .. m : Slot(w, i, k - 1) = bytes[k]
  <2> SUFFICES ASSUME NEW k \in 1 .. m PROVE Slot(w, i, k - 1) = bytes[k]
    OBVIOUS
  <2>1. k - 1 \in Index /\ k - 1 < m /\ (k - 1) + 1 = k
    BY <1>3, <1>4, <1>5
  <2> QED BY <1>1, <2>1
<1> QED BY <1>4, <1>5, <1>6 DEF w, m
\* ext2_create_file changes the pointers of the directory only, and gives the new
\* inode none.
LEMMA CreatePointers ==
    ASSUME NEW v, SoundInv(v), v.next_inode <= MaxInode,
           NEW d \in Live(v), NEW name \in Names
    PROVE  LET w == ext2_create_file(v, d, name)
           IN  /\ \A x \in Live(v) : x # d => Same(v, w, x)
               /\ \A k \in Index : w.itab[v.next_inode].block[k] = 0
<1> DEFINE n == v.next_inode
           new == [type |-> "reg", links |-> 1, block |-> NoBlocks]
           made == [v EXCEPT !.itab[n] = new, !.next_inode = @ + 1]
           w == ext2_create_file(v, d, name)
<1>1. /\ VolumeType(v) /\ Live(v) \subseteq Inodes /\ v.itab \in [Inodes -> Inode]
  BY LiveTyped DEF SoundInv, VolumeType
<1>2. Made(v, w, d, name, "reg")
  BY CreateFileInv
<1>3. n \notin Live(v) /\ n \in Inodes /\ d # n
  <2>1. n \notin Live(v)
    BY <1>2 DEF Made
  <2>2. n \in FirstInode .. MaxInode + 1 /\ n <= MaxInode
    BY <1>1 DEF VolumeType
  <2>3. n \in Inodes
    BY <2>2, Ext2Assumption DEF Inodes, Root
  <2> QED BY <2>1, <2>3
<1>4. w = ext2_add_dirent(made, d, name, n, "reg")
  BY DEF ext2_create_file
<1>5. made.itab = [v.itab EXCEPT ![n] = new]
  BY <1>1 DEF VolumeType
<1>6. \A x \in Inodes : x # d => w.itab[x] = made.itab[x]
  <2>1. CASE FreeSlots(made, d) = {}
    BY <1>4, <2>1 DEF ext2_add_dirent
  <2>2. CASE FreeSlots(made, d) # {}
    <3> DEFINE k == Min(FreeSlots(made, d))
               b == IF made.itab[d].block[k] = 0 THEN made.next_block
                    ELSE made.itab[d].block[k]
    <3>0. v = [itab |-> v.itab, data |-> v.data,
               next_block |-> v.next_block, next_inode |-> v.next_inode]
      BY <1>1 DEF VolumeType
    <3> HIDE DEF new
    <3>1. made = [itab |-> made.itab, data |-> made.data,
                  next_block |-> made.next_block, next_inode |-> made.next_inode]
      <4> DEFINE t == [v.itab EXCEPT ![n] = new]
      <4>1. made = [[v EXCEPT !.itab = t] EXCEPT !.next_inode = @ + 1]
        OBVIOUS
      <4> HIDE DEF t, made
      <4>2. made = [itab |-> t, data |-> v.data, next_block |-> v.next_block,
                    next_inode |-> v.next_inode + 1]
        BY <3>0, <4>1
      <4> QED BY <4>2
    <3>2. made.itab = [x \in Inodes |-> made.itab[x]]
      BY <1>1, <1>5
    <3> HIDE DEF made
    <3>3. w.itab = [made.itab EXCEPT ![d].block[k] = b]
      BY <1>4, <2>2, <3>1 DEF ext2_add_dirent
    <3> HIDE DEF k, b, w
    <3> QED BY <3>2, <3>3
  <2> QED BY <2>1, <2>2
<1> HIDE DEF made, w
<1>7. \A x \in Live(v) : x # d => w.itab[x] = v.itab[x]
  BY <1>1, <1>3, <1>5, <1>6
<1>8. w.itab[n] = new
  BY <1>1, <1>3, <1>5, <1>6
<1>9. \A x \in Live(v), k \in Index : x # d => Slot(w, x, k) = Slot(v, x, k)
  BY <1>2 DEF Made
<1> QED BY <1>7, <1>8, <1>9 DEF Same, NoBlocks, w

\* A walk that ends in a set of inodes into which no entry leads from outside is the
\* same in a volume that agrees on the entries that lead into the set.
LEMMA WalkInto ==
    ASSUME NEW v, NEW w, NEW L, \A x \in L : x \in Nat,
           NEW b \in L, NEW s \in Seq(Comps), NEW G \in SUBSET L,
           \A x \in L, name \in Names :
               ext2_find_inode(v, x, name) \in L \cup {-1},
           \A x \in L, name \in Names :
               ext2_find_inode(v, x, name) \in G =>
                   x \in G /\ ext2_find_inode(w, x, name) = ext2_find_inode(v, x, name),
           P!Fold(v, b, s) \in G
    PROVE  P!Fold(w, b, s) = P!Fold(v, b, s)
<1> DEFINE n == Len(s)
<1>1. n \in Nat /\ DOMAIN s = 1 .. n /\ \A k \in 1 .. n : s[k] \in Comps
  OBVIOUS
<1> HIDE DEF n
<1>2. PICK f : P!Values(v, b, s, n, f) /\ P!Fold(v, b, s) = f[n]
  BY ONLY <1>1, P!FoldSteps, SMTT(30)
<1>3. f[0] = b /\ \A k \in 1 .. n : f[k] = Walk(v, f[k - 1], s[k])
  BY <1>2 DEF P!Values
<1> DEFINE S == {k \in Nat : k <= n => f[k] \in L \cup {-1}}
<1>4. 0 \in S
  BY <1>3
<1>5. ASSUME NEW k \in Nat, k \in S PROVE k + 1 \in S
  <2> SUFFICES ASSUME k + 1 <= n PROVE f[k + 1] \in L \cup {-1}
    OBVIOUS
  <2>1. k + 1 \in 1 .. n /\ (k + 1) - 1 = k /\ k <= n
    BY <1>1
  <2>2. /\ f[k + 1] = Walk(v, f[k], s[k + 1]) /\ s[k + 1] \in Comps
        /\ f[k] \in L \cup {-1}
    BY <1>1, <1>3, <1>5, <2>1
  <2>3. CASE f[k] < 0 \/ s[k + 1] = Blank
    BY <2>2, <2>3 DEF Walk
  <2>4. CASE ~(f[k] < 0 \/ s[k + 1] = Blank)
    <3>1. f[k] \in L /\ s[k + 1] \in Names
      BY <2>2, <2>4 DEF Comps
    <3>2. f[k + 1] = ext2_find_inode(v, f[k], s[k + 1])
      BY <2>2, <2>4 DEF Walk
    <3> QED BY <3>1, <3>2
  <2> QED BY <2>3, <2>4
<1> HIDE DEF S
<1>6. \A k \in 0 .. n : f[k] \in L \cup {-1}
  <2>1. \A k \in Nat : k \in S
    BY <1>4, <1>5, N!SetInduction
  <2> QED BY <1>1, <2>1 DEF S
<1> DEFINE T == {j \in Nat : j <= n => f[n - j] \in G}
<1>7. 0 \in T
  <2>1. n - 0 = n
    BY <1>1
  <2> QED BY <1>2, <2>1
<1>8. ASSUME NEW k \in 1 .. n, f[k] \in G
      PROVE  f[k - 1] \in G /\ f[k] = Walk(w, f[k - 1], s[k])
  <2>1. /\ f[k] = Walk(v, f[k - 1], s[k]) /\ s[k] \in Comps
        /\ f[k - 1] \in L \cup {-1} /\ f[k] \in L /\ f[k] \in Nat
    BY <1>1, <1>3, <1>6, <1>8
  <2>2. ~(f[k - 1] < 0) /\ f[k - 1] \in L
    BY <2>1 DEF Walk
  <2>3. CASE s[k] = Blank
    BY <1>8, <2>1, <2>2, <2>3 DEF Walk
  <2>4. CASE s[k] # Blank
    <3>1. s[k] \in Names /\ f[k] = ext2_find_inode(v, f[k - 1], s[k])
      BY <2>1, <2>2, <2>4 DEF Walk, Comps
    <3>2. f[k - 1] \in G /\ ext2_find_inode(w, f[k - 1], s[k]) = f[k]
      BY <1>8, <2>2, <3>1
    <3> QED BY <2>2, <2>4, <3>2 DEF Walk
  <2> QED BY <2>3, <2>4
<1>9. ASSUME NEW j \in Nat, j \in T PROVE j + 1 \in T
  <2> SUFFICES ASSUME j + 1 <= n PROVE f[n - (j + 1)] \in G
    OBVIOUS
  <2>1. n - j \in 1 .. n /\ (n - j) - 1 = n - (j + 1) /\ f[n - j] \in G
    BY <1>1, <1>9
  <2>2. f[(n - j) - 1] \in G
    BY <1>8, <2>1
  <2> QED BY <2>1, <2>2
<1> HIDE DEF T
<1>10. \A k \in 1 .. n : f[k] = Walk(w, f[k - 1], s[k])
  <2>1. \A j \in Nat : j \in T
    BY <1>7, <1>9, N!SetInduction
  <2> SUFFICES ASSUME NEW k \in 1 .. n PROVE f[k] = Walk(w, f[k - 1], s[k])
    OBVIOUS
  <2>2. n - k \in Nat /\ n - k <= n /\ n - (n - k) = k
    BY <1>1
  <2>3. f[n - (n - k)] \in G
    BY <2>1, <2>2 DEF T
  <2> QED BY <1>8, <2>2, <2>3
<1>11. P!Values(w, b, s, n, f)
  BY <1>3, <1>10 DEF P!Values
<1>12. P!Fold(w, b, s) = f[n]
  BY ONLY <1>1, <1>11, P!FoldUnique
<1> QED BY <1>2, <1>12
\* When fs_create makes a file where there was none, every path that led somewhere
\* still leads there, and its own leads to the file, or nowhere in a full directory.
LEMMA CreateFinds ==
    ASSUME NEW v, SoundInv(v), v.next_inode <= MaxInode,
           NEW cur \in Live(v), NEW path \in PathNames,
           HasParent(v, cur, path), ~fs_exists(v, cur, path)
    PROVE  LET w == fs_create(v, cur, path)
               d == fs_get_parent(v, cur, path)
           IN  /\ \A x \in Live(v), nm \in Names :
                     ext2_find_inode(v, x, nm) \in Live(v) =>
                        ext2_find_inode(w, x, nm) = ext2_find_inode(v, x, nm)
               /\ ext2_find_inode(w, d, Last(path.comps)) \in {-1, v.next_inode}
<1> DEFINE w == fs_create(v, cur, path)
           d == fs_get_parent(v, cur, path)
           name == Last(path.comps)
           n == v.next_inode
           F == FreeSlots(v, d)
<1>1. d \in Live(v) /\ name \in Names /\ UnlinkHits(v, d, name) = {}
  BY ParentTyped, MissingName
<1>2. w = ext2_create_file(v, d, name)
  BY DEF fs_create
<1> HIDE DEF w, d, name
<1>3. SoundInv(w) /\ Made(v, w, d, name, "reg")
  BY <1>1, <1>2, CreateFileInv
<1>4. /\ Live(v) \subseteq Live(w)
      /\ F # {} => Min(F) \in F
      /\ \A i \in Live(v), j \in Index :
            Slot(w, i, j) = IF F # {} /\ i = d /\ j = Min(F) THEN Dirent(n, name, "reg")
                            ELSE Slot(v, i, j)
  BY <1>3 DEF Made
<1>5. F = {k \in Index : NoRecLen(Slot(v, d, k))}
  BY FreeSlotsAre
<1> DEFINE k == Min(F)
<1>6. F # {} => k \in Index /\ \A nm : ~Named(Slot(v, d, k), nm)
  BY <1>4, <1>5 DEF NoRecLen, Named
<1> HIDE DEF F, k
<1>7. \A nm : Named(Dirent(n, name, "reg"), nm) => nm = name
  BY DEF Named, Dirent
<1>8. \A j \in Index : ~Named(Slot(v, d, j), name)
  BY <1>1, HitsAre
<1>9. -1 \notin Live(v)
  BY LivePositive DEF SoundInv
<1>10. ASSUME NEW x \in Live(v), NEW nm \in Names, ext2_find_inode(v, x, nm) \in Live(v)
       PROVE  ext2_find_inode(w, x, nm) = ext2_find_inode(v, x, nm)
  <2> DEFINE H == {j \in Index : Named(Slot(v, x, j), nm)}
             I == {j \in Index : Named(Slot(w, x, j), nm)}
  <2>1. /\ H # {} => Min(H) \in H
        /\ ext2_find_inode(v, x, nm) = IF H = {} THEN -1 ELSE Slot(v, x, Min(H)).ino
    BY FindIs
  <2>2. ext2_find_inode(w, x, nm) = IF I = {} THEN -1 ELSE Slot(w, x, Min(I)).ino
    BY <1>3, <1>4, FindIs
  <2>3. ~(x = d /\ nm = name)
    BY <1>8, <1>9, <1>10, <2>1
  <2>4. \A j \in Index : Named(Slot(w, x, j), nm) <=> Named(Slot(v, x, j), nm)
    BY <1>4, <1>6, <1>7, <2>3 DEF k
  <2>5. I = H
    BY <2>4
  <2>6. \A j \in H : Slot(w, x, j) = Slot(v, x, j)
    BY <1>4, <1>6 DEF k
  <2>7. H # {}
    BY <1>9, <1>10, <2>1
  <2> HIDE DEF H, I
  <2> QED BY <2>1, <2>2, <2>5, <2>6, <2>7
<1>11. ext2_find_inode(w, d, name) \in {-1, n}
  <2> DEFINE I == {j \in Index : Named(Slot(w, d, j), name)}
  <2>1. /\ I # {} => Min(I) \in I
        /\ ext2_find_inode(w, d, name) = IF I = {} THEN -1 ELSE Slot(w, d, Min(I)).ino
    BY <1>1, <1>3, <1>4, FindIs
  <2>2. \A j \in I : Slot(w, d, j) = Dirent(n, name, "reg")
    BY <1>1, <1>4, <1>8
  <2> HIDE DEF I
  <2> QED BY <2>1, <2>2 DEF Dirent
<1> QED BY <1>10, <1>11 DEF w, d, name

LEMMA CreateResolves ==
    ASSUME NEW v, SoundInv(v), v.next_inode <= MaxInode,
           NEW cur \in Live(v), NEW path \in PathNames,
           HasParent(v, cur, path), ~fs_exists(v, cur, path)
    PROVE  LET w == fs_create(v, cur, path)
           IN  /\ fs_resolve_inode(w, cur, path) \in {-1, v.next_inode}
               /\ \A p \in PathNames : fs_exists(v, cur, p) =>
                     fs_resolve_inode(w, cur, p) = fs_resolve_inode(v, cur, p)
<1> DEFINE w == fs_create(v, cur, path)
           d == fs_get_parent(v, cur, path)
           L == Live(v)
<1>1. /\ Root \in L /\ \A x \in L : x \in Nat /\ x > 0
      /\ d \in L /\ Last(path.comps) \in Names
  BY ParentTyped, LivePositive DEF SoundInv
<1>2. \A x \in L, nm \in Names : ext2_find_inode(v, x, nm) \in L \cup {-1}
  BY FindTyped
<1>3. /\ \A x \in L, nm \in Names : ext2_find_inode(v, x, nm) \in L =>
            x \in L /\ ext2_find_inode(w, x, nm) = ext2_find_inode(v, x, nm)
      /\ ext2_find_inode(w, d, Last(path.comps)) \in {-1, v.next_inode}
  BY CreateFinds
<1> HIDE DEF w, L
<1>4. ASSUME NEW s \in Seq(Comps), NEW b \in L, P!Fold(v, b, s) \in L
      PROVE  P!Fold(w, b, s) = P!Fold(v, b, s)
  BY <1>1, <1>2, <1>3, <1>4, WalkInto
<1>5. ASSUME NEW p \in PathNames, fs_exists(v, cur, p)
      PROVE  fs_resolve_inode(w, cur, p) = fs_resolve_inode(v, cur, p)
  <2> DEFINE b == IF p.abs THEN Root ELSE cur
  <2>1. p.comps \in Seq(Comps) /\ b \in L
    BY <1>1 DEF PathNames, Comps, L
  <2>2. fs_resolve_inode(v, cur, p) \in L
    BY <1>5, ParentTyped DEF fs_exists, Reached, L
  <2> QED BY <1>4, <2>1, <2>2, ResolveFolds
<1>6. fs_get_parent(w, cur, path) = d
  <2> DEFINE b == IF path.abs THEN Root ELSE cur
  <2>1. Front(path.comps) \in Seq(Comps) /\ b \in L
    BY <1>1, FrontTyped DEF PathNames, Comps, L
  <2> QED BY <1>1, <1>4, <2>1, ParentFolds
<1>7. fs_resolve_inode(w, cur, path) \in {-1, v.next_inode}
  <2>1. Last(path.comps) # Blank /\ ~(d < 0)
    BY <1>1 DEF HasParent
  <2> QED BY <1>3, <1>6, <2>1, ResolveSplits DEF Walk
<1> QED BY <1>5, <1>7 DEF w
\* In a tree an entry leads to an inode younger than its directory,
LEMMA TreeFinds ==
    ASSUME NEW v, SoundInv(v), TreeShaped(v), NEW x \in Live(v), NEW name \in Names,
           ext2_find_inode(v, x, name) # -1
    PROVE  ext2_find_inode(v, x, name) > x
<1>1. UnlinkHits(v, x, name) # {} /\ ext2_find_inode(v, x, name) = UnlinkVictim(v, x, name)
  BY FindIsUnlink
<1> QED BY <1>1, UnlinkInv

\* so a walk to an inode depends on older inodes only.
LEMMA TreeWalk ==
    ASSUME NEW v, SoundInv(v), TreeShaped(v), NEW w, SoundInv(w), Live(v) \subseteq Live(w),
           NEW b \in Live(v), NEW s \in Seq(Comps), P!Fold(v, b, s) \in Live(v),
           \A x \in Live(v), k \in Index :
               x < P!Fold(v, b, s) => Slot(w, x, k) = Slot(v, x, k)
    PROVE  P!Fold(w, b, s) = P!Fold(v, b, s)
<1> DEFINE L == Live(v)
           i == P!Fold(v, b, s)
           G == {x \in L : x <= i}
<1>1. /\ \A x \in L : x \in Nat /\ x > 0
      /\ i \in L /\ b \in L
  BY LivePositive DEF SoundInv
<1>2. \A x \in L, nm \in Names : ext2_find_inode(v, x, nm) \in L \cup {-1}
  BY FindTyped
<1>3. ASSUME NEW x \in L, NEW nm \in Names, ext2_find_inode(v, x, nm) \in G
      PROVE  x \in G /\ ext2_find_inode(w, x, nm) = ext2_find_inode(v, x, nm)
  <2> DEFINE y == ext2_find_inode(v, x, nm)
  <2>1. y \in L /\ y <= i
    BY <1>3
  <2>2. y # -1
    BY <1>1, <2>1
  <2>3. y > x
    BY <2>2, TreeFinds
  <2> HIDE DEF y
  <2>4. x \in Nat /\ y \in Nat /\ i \in Nat
    BY <1>1, <2>1
  <2>5. x < i
    BY <2>1, <2>3, <2>4
  <2>6. \A k \in Index : Slot(w, x, k) = Slot(v, x, k)
    BY <2>5
  <2> HIDE DEF i
  <2> QED BY <2>4, <2>5, <2>6, SameFinds
<1>4. i \in G
  BY <1>1
<1>5. G \in SUBSET L
  OBVIOUS
<1> HIDE DEF G, L
<1>6. P!Fold(w, b, s) = P!Fold(v, b, s)
  BY <1>1, <1>2, <1>3, <1>4, <1>5, WalkInto
<1> QED BY <1>6

\* A path still leads to the inode that was written through it.
LEMMA WriteResolves ==
    ASSUME NEW v, SoundInv(v), TreeShaped(v), NEW cur \in Live(v), NEW path \in PathNames,
           fs_resolve_inode(v, cur, path) \in Live(v), NEW bytes, Writable(v, bytes)
    PROVE  LET i == fs_resolve_inode(v, cur, path)
           IN  fs_resolve_inode(ext2_write_file(v, i, bytes), cur, path) = i
<1> DEFINE i == fs_resolve_inode(v, cur, path)
           w == ext2_write_file(v, i, bytes)
           b == IF path.abs THEN Root ELSE cur
           q == path.comps
<1>1. i = P!Fold(v, b, q) /\ b \in Live(v) /\ q \in Seq(Comps)
  BY ResolveFolds, LivePositive DEF SoundInv, PathNames, Comps
<1>2. CASE Written(bytes) = 0
  BY <1>2 DEF ext2_write_file
<1>3. CASE Written(bytes) # 0
  <2>1. /\ SoundInv(w)
        /\ \A x \in Live(v), k \in Index : x # i => Slot(w, x, k) = Slot(v, x, k)
    BY <1>3, WriteFileInv DEF Writable
  <2>2. Live(w) = Live(v)
    BY <1>3, WritePointers
  <2>3. \A x \in Live(v) : x \in Nat
    BY LivePositive DEF SoundInv
  <2>4. \A x \in Live(v), k \in Index : x < i => Slot(w, x, k) = Slot(v, x, k)
    BY <2>1, <2>3
  <2> HIDE DEF w, i, b, q
  <2>5. P!Fold(w, b, q) = i
    BY <1>1, <2>1, <2>2, <2>4, TreeWalk DEF i
  <2> QED BY <2>5, ResolveFolds DEF b, q, i, w
<1> QED BY <1>2, <1>3

\* A saved text is what is read back.
SaveRead ==
    vol' # vol /\ TreeShaped(vol) =>
        \A path \in Paths, text \in Files :
            status' = "ok" /\ kw_save(path, text) =>
                /\ Resolve(path)' >= 0
                /\ Bytes(Resolve(path))' = SubSeq(Text(text), 1, Written(text))

LEMMA SaveStep == FsInv => SaveRead
<1> SUFFICES ASSUME FsInv, vol' # vol, TreeShaped(vol),
                    NEW path \in Paths, NEW text \in Files,
                    status' = "ok", kw_save(path, text)
             PROVE  /\ Resolve(path)' >= 0
                    /\ Bytes(Resolve(path))' = SubSeq(Text(text), 1, Written(text))
  BY DEF SaveRead
<1> DEFINE bytes == Text(text)
           m == Written(text)
           u == MadeFor(vol, cwd_inode, path)
           i == fs_resolve_inode(u, cwd_inode, path)
           w == fs_write(vol, cwd_inode, path, bytes)
<1>0. /\ SoundInv(vol) /\ cwd_inode \in Live(vol) /\ path \in PathNames
      /\ vol.next_inode \in Nat /\ MaxInode \in Nat
  BY FsAssumption, Ext2Assumption DEF FsInv, SoundInv, VolumeType
<1>1. vol.next_inode <= MaxInode /\ vol' = w.vol /\ cwd_inode' = cwd_inode /\ Report(w.ok)
  BY <1>0 DEF kw_save, Room
<1>2. Writable(vol, bytes) /\ Len(bytes) = Len(text) /\ Len(text) \in Nat
  BY TextPlain, TextTyped
<1>3. /\ SoundInv(u) /\ cwd_inode \in Live(u) /\ TreeShaped(u) /\ Writable(u, bytes)
      /\ (i \in Live(u) /\ i >= 0) \/ i = -1
  BY <1>0, <1>1, <1>2, MadeForInv
<1>4. w = IF i < 0 THEN [vol |-> u, ok |-> FALSE]
          ELSE [vol |-> ext2_write_file(u, i, bytes), ok |-> TRUE]
  BY WriteIs
<1>m. /\ Written(bytes) = m /\ m \in Nat /\ m <= Len(bytes) /\ Len(bytes) \in Nat
      /\ SubSeq(bytes, 1, m) = [k \in 1 .. m |-> bytes[k]]
  BY <1>2, Ext2Assumption DEF Written
<1> HIDE DEF bytes, m, w
<1>5. i \in Live(u) /\ i >= 0 /\ vol' = ext2_write_file(u, i, bytes)
  BY <1>1, <1>3, <1>4 DEF Report
<1>6. fs_resolve_inode(vol', cwd_inode, path) = i
  BY <1>0, <1>3, <1>5, WriteResolves
<1>7. ext2_read_file(vol', i) = [k \in 1 .. m |-> bytes[k]]
  <2>1. CASE m # 0
    BY <1>3, <1>5, <1>m, <2>1, WrittenReads
  <2>2. CASE m = 0
    <3>1. vol' = u
      BY <1>5, <1>m, <2>2 DEF ext2_write_file
    <3>2. /\ ~fs_exists(vol, cwd_inode, path) /\ HasParent(vol, cwd_inode, path)
          /\ u = fs_create(vol, cwd_inode, path)
      BY <3>1 DEF MadeFor
    <3>3. i \in {-1, vol.next_inode}
      BY <1>0, <1>1, <3>2, CreateResolves
    <3>4. i = vol.next_inode
      BY <1>5, <3>3
    <3>5. \A k \in Index : u.itab[i].block[k] = 0
      BY <1>0, <1>1, <3>2, <3>4, ParentTyped, CreatePointers DEF fs_create
    <3> HIDE DEF u, i
    <3>6. Cardinality(Visited(u.itab[i])) = 0
      <4>1. Visited(u.itab[i]) = {k \in Index : u.itab[i].block[k] # 0}
        BY <1>3, <1>5, HitsAgree
      <4>2. Visited(u.itab[i]) = {}
        BY <3>5, <4>1
      <4> QED BY <4>2, FS_EmptySet
    <3> QED BY <2>2, <3>1, <3>6 DEF ext2_read_file
  <2> QED BY <2>1, <2>2
<1>8. Resolve(path)' = i /\ Bytes(Resolve(path))' = ext2_read_file(vol', i)
  BY <1>1, <1>6 DEF Resolve, Bytes
<1> QED BY <1>5, <1>7, <1>8, <1>m DEF bytes, m

\* The text that the editor saved, as far as a file can hold it, is what is read back
\* through the path it was saved under, also when the file had to be made first.
THEOREM SavedTextIsRead == FsSpec => SavedIsRead
<1>1. FsInit => FsInv
  BY FsInitInv
<1>2. FsInv /\ [FsNext]_fsVars => FsInv'
  BY FsStep
<1>3. FsInv /\ [FsNext]_fsVars => [SaveRead]_fsVars
  BY SaveStep
<1> QED BY <1>1, <1>2, <1>3, PTL DEF FsSpec, SavedIsRead, SaveRead

-----------------------------------------------------------------------------
(* A file that is not the target *)

\* fs_write leaves every inode but its target and the directory it makes it in.
LEMMA WriteSame ==
    ASSUME NEW v, SoundInv(v), v.next_inode <= MaxInode,
           NEW cur \in Live(v), NEW path \in PathNames, NEW bytes, Writable(v, bytes),
           NEW x \in Live(v), x # fs_resolve_inode(v, cur, path),
           x # fs_get_parent(v, cur, path)
    PROVE  Same(v, fs_write(v, cur, path, bytes).vol, x)
<1> DEFINE u == MadeFor(v, cur, path)
           i == fs_resolve_inode(u, cur, path)
           w == fs_write(v, cur, path, bytes).vol
           d == fs_get_parent(v, cur, path)
<1>1. /\ SoundInv(u) /\ Live(v) \subseteq Live(u) /\ Writable(u, bytes)
      /\ (i \in Live(u) /\ i >= 0) \/ i = -1
  BY MadeForInv
<1>2. w = IF i < 0 THEN u ELSE ext2_write_file(u, i, bytes)
  BY WriteIs
<1>3. Same(v, u, x) /\ x # i
  <2>1. CASE fs_exists(v, cur, path) \/ ~HasParent(v, cur, path)
    BY <2>1 DEF MadeFor, Same
  <2>2. CASE ~fs_exists(v, cur, path) /\ HasParent(v, cur, path)
    <3>1. d \in Live(v) /\ Last(path.comps) \in Names
      BY <2>2, ParentTyped
    <3>2. u = fs_create(v, cur, path)
      BY <2>2 DEF MadeFor
    <3>3. Same(v, u, x)
      BY <3>1, <3>2, CreatePointers DEF fs_create
    <3>4. i \in {-1, v.next_inode}
      BY <2>2, <3>2, CreateResolves
    <3>5. v.next_inode \notin Live(v)
      BY <3>1, CreateFileInv DEF Made
    <3>6. -1 \notin Live(v)
      BY LivePositive DEF SoundInv
    <3> QED BY <3>3, <3>4, <3>5, <3>6
  <2> QED BY <2>1, <2>2
<1> HIDE DEF u, i, w
<1>4. CASE i < 0 \/ Written(bytes) = 0
  BY <1>2, <1>3, <1>4 DEF ext2_write_file, w
<1>5. CASE ~(i < 0) /\ Written(bytes) # 0
  <2>1. i \in Live(u) /\ x \in Live(u) /\ w = ext2_write_file(u, i, bytes)
    BY <1>1, <1>2, <1>5
  <2>2. Same(u, w, x)
    BY <1>1, <1>3, <1>5, <2>1, WritePointers
  <2>3. Same(v, w, x)
    BY <1>3, <2>2 DEF Same
  <2> QED BY <2>3 DEF w
<1> QED BY <1>4, <1>5

\* What a save or a copy changes.
TargetChanges ==
    \A i \in Live(vol) : ext2_read_file(vol', i) # Bytes(i) =>
        \A path \in Paths :
            \/ i \in {Resolve(path), fs_get_parent(vol, cwd_inode, path)}
            \/ /\ \A text \in Files : ~kw_save(path, text)
               /\ \A src \in Paths : ~cmd_cp(src, path)

LEMMA TargetStep == FsInv /\ FsInv' => TargetChanges
<1> SUFFICES ASSUME FsInv, FsInv', NEW i \in Live(vol), NEW path \in Paths,
                    i # Resolve(path), i # fs_get_parent(vol, cwd_inode, path),
                    \/ \E text \in Files : kw_save(path, text)
                    \/ \E src \in Paths : cmd_cp(src, path)
             PROVE  ext2_read_file(vol', i) = Bytes(i)
  BY DEF TargetChanges
<1>s. SoundInv(vol) /\ SoundInv(vol') /\ cwd_inode \in Live(vol)
  BY DEF FsInv
<1>0. /\ SoundInv(vol) /\ cwd_inode \in Live(vol) /\ Paths \subseteq PathNames
      /\ vol.next_inode \in Nat /\ MaxInode \in Nat
  <2>1. vol.next_inode \in FirstInode .. MaxInode + 1
    BY <1>s DEF SoundInv, VolumeType
  <2> QED BY <1>s, <2>1, FsAssumption, Ext2Assumption
<1>1. vol.next_inode <= MaxInode
  BY <1>0 DEF kw_save, cmd_cp, Room
<1>2. \/ vol' = vol
      \/ \E bytes : /\ Writable(vol, bytes)
                    /\ vol' = fs_write(vol, cwd_inode, path, bytes).vol
  <2>1. ASSUME NEW text \in Files, kw_save(path, text)
        PROVE  \E bytes : /\ Writable(vol, bytes)
                          /\ vol' = fs_write(vol, cwd_inode, path, bytes).vol
    <3>1. Writable(vol, Text(text)) /\ vol' = fs_write(vol, cwd_inode, path, Text(text)).vol
      BY <2>1, TextPlain DEF kw_save
    <3> QED BY <3>1
  <2>2. ASSUME NEW src \in Paths, cmd_cp(src, path), fs_exists(vol, cwd_inode, src)
        PROVE  \E bytes : /\ Writable(vol, bytes)
                          /\ vol' = fs_write(vol, cwd_inode, path, bytes).vol
    <3> DEFINE bytes == fs_read(vol, cwd_inode, src, CopyBlocks)
    <3>1. fs_resolve_inode(vol, cwd_inode, src) \in Live(vol)
      BY <1>0, <2>2, ParentTyped DEF fs_exists, Reached
    <3>2. Writable(vol, bytes)
      BY <1>0, <3>1, FsReadTyped
    <3>3. vol' = fs_write(vol, cwd_inode, path, bytes).vol
      BY <2>2 DEF cmd_cp, Copy
    <3> QED BY <3>2, <3>3
  <2>3. ASSUME NEW src \in Paths, cmd_cp(src, path), ~fs_exists(vol, cwd_inode, src)
        PROVE  vol' = vol
    BY <2>3 DEF cmd_cp, Copy
  <2> QED BY <2>1, <2>2, <2>3
<1>3. CASE vol' = vol
  BY <1>3 DEF Bytes
<1>4. ASSUME NEW bytes, Writable(vol, bytes),
             vol' = fs_write(vol, cwd_inode, path, bytes).vol
      PROVE  ext2_read_file(vol', i) = Bytes(i)
  <2>1. Same(vol, vol', i)
    BY <1>0, <1>1, <1>4, WriteSame DEF Resolve
  <2>2. i \in Live(vol')
    BY <1>0, <1>1, <1>4, WriteInv
  <2> QED BY <1>0, <1>s, <2>1, <2>2, SameReads DEF Bytes
<1> QED BY <1>2, <1>3, <1>4

\* A save or a copy is seen in the file it names and in the directory it makes it in,
\* and nowhere else, in every volume the commands can make, a tree or not.
THEOREM OthersStayAsTheyAre == FsSpec => OnlyTargetChanges
<1>1. FsInit => FsInv
  BY FsInitInv
<1>2. FsInv /\ [FsNext]_fsVars => FsInv'
  BY FsStep
<1>3. FsInv /\ FsInv' /\ [FsNext]_fsVars => [TargetChanges]_fsVars
  BY TargetStep
<1> QED BY <1>1, <1>2, <1>3, PTL DEF FsSpec, OnlyTargetChanges, TargetChanges

-----------------------------------------------------------------------------
(* A moved file *)

\* Nothing is found in an inode without entries.
LEMMA NothingFound ==
    ASSUME NEW v, SoundInv(v), NEW x \in Live(v),
           \A k \in Index : ~IsEntry(Slot(v, x, k)), NEW name
    PROVE  ext2_find_inode(v, x, name) = -1
<1>1. {k \in Index : Named(Slot(v, x, k), name)} = {}
  BY DEF Named, IsEntry
<1> QED BY <1>1, FindIs

\* ext2_unlink takes the blocks of its victim only.
LEMMA UnlinkPointers ==
    ASSUME NEW v, SoundInv(v), NEW d \in Live(v), NEW name \in Names,
           UnlinkHits(v, d, name) # {}
    PROVE  \A x \in Live(v) : x # UnlinkVictim(v, d, name) =>
               ext2_unlink(v, d, name).itab[x] = v.itab[x]
<1> DEFINE g == UnlinkVictim(v, d, name)
           b == v.itab[d].block[Min(UnlinkHits(v, d, name))]
           w == ext2_unlink(v, d, name)
           data == Store(v.data, b, [ReadBlock(v, b) EXCEPT !.ino = 0])
<1>1. /\ VolumeType(v) /\ Live(v) \subseteq Inodes /\ v.itab \in [Inodes -> Inode]
  BY LiveTyped DEF SoundInv, VolumeType
<1>2. w = [v EXCEPT !.itab[g].block = NoBlocks, !.itab[g].links = 0, !.data = data]
  BY DEF ext2_unlink
<1> HIDE DEF g, b, data
<1>3. w.itab = [[v.itab EXCEPT ![g].block = NoBlocks] EXCEPT ![g].links = 0]
  BY <1>1, <1>2 DEF VolumeType
<1> HIDE DEF w
<1>4. \A x \in Inodes : x # g => w.itab[x] = v.itab[x]
  BY <1>1, <1>3
<1> QED BY <1>1, <1>4 DEF w, g

\* Something without entries is copied over j and then removed from where p leads: p
\* leads nowhere then, and q still to j, which holds what was copied.
LEMMA MovedAway ==
    ASSUME NEW u, SoundInv(u), TreeShaped(u), NamesOnce(u), NEW cur \in Live(u),
           NEW p \in PathNames, NEW q \in PathNames, NEW i \in Live(u), NEW j \in Live(u),
           fs_resolve_inode(u, cur, p) = i, fs_resolve_inode(u, cur, q) = j, i # j,
           Last(p.comps) # Blank, \A k \in Index : ~IsEntry(Slot(u, i, k)),
           NEW bytes, Writable(u, bytes), Plain(bytes), Written(bytes) # 0
    PROVE  LET c == ext2_write_file(u, j, bytes)
               w == IF HasParent(c, cur, p)
                    THEN ext2_unlink(c, fs_get_parent(c, cur, p), Last(p.comps)) ELSE c
           IN  /\ fs_resolve_inode(w, cur, p) < 0
               /\ fs_resolve_inode(w, cur, q) = j
               /\ ext2_read_file(w, j) = [k \in 1 .. Written(bytes) |-> bytes[k]]
<1> DEFINE c == ext2_write_file(u, j, bytes)
           d == fs_get_parent(c, cur, p)
           name == Last(p.comps)
           w == IF HasParent(c, cur, p) THEN ext2_unlink(c, d, name) ELSE c
           m == Written(bytes)
           L == Live(u)
           copied == [k \in 1 .. m |-> bytes[k]]
<1>m. m \in Nat /\ m <= Len(bytes) /\ Index \subseteq Nat /\ Len(bytes) \in Nat
  BY Ext2Assumption DEF Written, Writable, Index
<1>1. /\ SoundInv(c) /\ TreeShaped(c)
      /\ \A x \in L, k \in Index :
            Slot(c, x, k) = IF x # j THEN Slot(u, x, k)
                            ELSE IF k < m THEN bytes[k + 1] ELSE Zero
  BY WriteFileInv DEF Writable, Plain
<1>2. NamesOnce(c)
  <2>1. BytesOnce(bytes)
    BY DEF BytesOnce, Plain, Named, IsEntry
  <2> QED BY <2>1, WrittenOnce
<1>3. /\ Live(c) = L
      /\ ext2_read_file(c, j) = copied
      /\ fs_resolve_inode(c, cur, q) = j
  BY WritePointers, WrittenReads, WriteResolves
<1>4. cur \in Live(c) /\ j \in Live(c) /\ i \in Live(c)
  BY <1>3
<1> HIDE DEF c, m, copied
<1>5. \A k \in Index : ~IsEntry(Slot(c, i, k)) /\ ~IsEntry(Slot(c, j, k))
  <2>1. ~IsEntry(Zero)
    BY DEF IsEntry, Zero
  <2>2. \A k \in Index : k < m => k + 1 \in 1 .. Len(bytes)
    BY <1>m
  <2>3. \A k \in Index : k < m => ~IsEntry(bytes[k + 1])
    BY <2>2 DEF Plain
  <2> QED BY <1>1, <2>1, <2>3
<1>6. \A nm : ext2_find_inode(c, i, nm) = -1 /\ ext2_find_inode(c, j, nm) = -1
  BY <1>1, <1>4, <1>5, NothingFound
<1>7. \A x \in L : x \in Nat /\ x > 0
  BY LivePositive DEF SoundInv
<1>8. \A x \in L, nm \in Names : ext2_find_inode(c, x, nm) \in L \cup {-1}
  BY <1>1, <1>3, FindTyped
<1>p. /\ p.comps \in Seq(Comps) /\ Front(p.comps) \in Seq(Comps) /\ q.comps \in Seq(Comps)
      /\ \A path : (IF path.abs THEN Root ELSE cur) \in L
  <2>1. p.comps \in Seq(Comps) /\ p.comps # <<>> /\ q.comps \in Seq(Comps)
    BY DEF PathNames, Comps
  <2> QED BY <2>1, FrontTyped, LivePositive DEF SoundInv
<1>9. CASE ~HasParent(c, cur, p)
  <2>1. w = c
    BY <1>9
  <2>2. d < 0
    <3>1. d \in L \cup {-1}
      BY <1>1, <1>3, <1>4, ParentTyped DEF Reached
    <3> QED BY <1>7, <1>9, <3>1 DEF HasParent
  <2>3. fs_resolve_inode(c, cur, p) = d
    BY <2>2, ResolveSplits DEF Walk
  <2> HIDE DEF w, d
  <2> QED BY <1>3, <2>1, <2>2, <2>3 DEF c, d, w, copied, m, name
<1>10. CASE HasParent(c, cur, p)
  <2>1. d \in L /\ name \in Names /\ d \in Live(c)
    BY <1>1, <1>3, <1>4, <1>10, ParentTyped
  <2>2. fs_resolve_inode(c, cur, p) = ext2_find_inode(c, d, name)
    BY <1>7, <2>1, ResolveSplits DEF Walk
  <2>3. w = ext2_unlink(c, d, name)
    BY <1>10
  <2> HIDE DEF w
  <2>4. fs_get_parent(c, cur, p) = d
    OBVIOUS
  <2> HIDE DEF d, name
  <2> DEFINE H == UnlinkHits(c, d, name)
  <2>5. CASE H = {}
    <3>1. w = c /\ ext2_find_inode(c, d, name) = -1
      BY <1>1, <2>1, <2>3, <2>5, UnlinkInv, FindIsUnlink
    <3>2. /\ fs_resolve_inode(w, cur, p) < 0
          /\ fs_resolve_inode(w, cur, q) = j
          /\ ext2_read_file(w, j) = copied
      BY <1>3, <2>2, <3>1
    <3> QED BY <3>2 DEF c, d, w, copied, m, name
  <2>6. CASE H # {}
    <3> DEFINE h == Min(H)
    <3>1. ext2_find_inode(c, d, name) = UnlinkVictim(c, d, name)
      BY <1>1, <2>1, <2>6, FindIsUnlink
    <3>2. /\ SoundInv(w) /\ w.next_inode = c.next_inode
          /\ h \in H
          /\ UnlinkVictim(c, d, name) \in FirstInode .. c.next_inode - 1
          /\ UnlinkVictim(c, d, name) > d
          /\ \A x \in L, k \in Index :
                Slot(w, x, k) = IF x = UnlinkVictim(c, d, name) THEN Zero
                                ELSE IF x = d /\ k = h THEN [Slot(c, d, k) EXCEPT !.ino = 0]
                                ELSE Slot(c, x, k)
      BY <1>1, <1>3, <2>1, <2>3, <2>6, UnlinkInv
    <3>3. UnlinkVictim(c, d, name) = i
      <4> DEFINE b == IF p.abs THEN Root ELSE cur
                 s == p.comps
      <4>1. P!Fold(c, b, s) = UnlinkVictim(c, d, name) /\ P!Fold(u, b, s) = i
        BY <2>2, <3>1, ResolveFolds
      <4>2. UnlinkVictim(c, d, name) \in L
        <5>1. FirstInode .. c.next_inode - 1 \subseteq Live(c)
          BY <1>1, LiveTyped DEF SoundInv
        <5> QED BY <1>3, <3>2, <5>1
      <4>3. ASSUME NEW x \in L, NEW nm \in Names, ext2_find_inode(c, x, nm) \in L
            PROVE  x \in L /\ ext2_find_inode(u, x, nm) = ext2_find_inode(c, x, nm)
        <5>1. x # j
          BY <1>6, <1>7, <4>3
        <5>2. \A k \in Index : Slot(u, x, k) = Slot(c, x, k)
          BY <1>1, <5>1
        <5> QED BY <1>1, <1>3, <5>2, SameFinds
      <4>4. b \in L /\ s \in Seq(Comps)
        BY <1>p
      <4> HIDE DEF b, s, L
      <4> QED BY <1>7, <1>8, <4>1, <4>2, <4>3, <4>4, WalkInto
    <3>4. \A x \in L, k \in Index :
            Slot(w, x, k) = IF x = i THEN Zero
                            ELSE IF x = d /\ k = h THEN [Slot(c, d, k) EXCEPT !.ino = 0]
                            ELSE Slot(c, x, k)
      BY <3>2, <3>3
    <3>5. Live(w) = L /\ i > d
      BY <1>3, <3>2, <3>3 DEF Live
    <3>6. Named(Slot(c, d, h), name) /\ h \in Index
      BY <3>2, HitsAre
    <3>7. \A nm : ~Named([Slot(c, d, h) EXCEPT !.ino = 0], nm) /\ ~Named(Zero, nm)
      <4>1. Slot(c, d, h) \in Content /\ Slot(c, d, h).kind = "dirent"
        BY <1>1, <3>6, SlotTyped DEF SoundInv, Named
      <4>2. [Slot(c, d, h) EXCEPT !.ino = 0].ino = 0
        BY <4>1 DEF Content, Zero
      <4> QED BY <4>2 DEF Named, Zero
    <3> HIDE DEF h, H
    <3>8. fs_resolve_inode(w, cur, p) = -1
      <4> DEFINE b == IF p.abs THEN Root ELSE cur
                 s == Front(p.comps)
      <4>1. P!Fold(c, b, s) = d
        BY <2>4, ParentFolds
      <4>2. b \in Live(c) /\ s \in Seq(Comps)
        BY <1>3, <1>p
      <4>3. \A x \in Live(c), k \in Index : x < d => Slot(w, x, k) = Slot(c, x, k)
        BY <1>3, <1>7, <2>1, <3>4, <3>5
      <4> HIDE DEF b, s
      <4>4. P!Fold(w, b, s) = d
        BY <1>1, <1>3, <2>1, <3>2, <3>5, <4>1, <4>2, <4>3, TreeWalk
      <4>5. fs_get_parent(w, cur, p) = d
        BY <4>4, ParentFolds DEF b, s
      <4>6. \A k \in Index : ~Named(Slot(w, d, k), name)
        <5> SUFFICES ASSUME NEW k \in Index, Named(Slot(w, d, k), name) PROVE FALSE
          OBVIOUS
        <5>1. k # h /\ Named(Slot(c, d, k), name)
          BY <1>7, <2>1, <3>4, <3>7
        <5> QED BY <1>2, <2>1, <3>6, <5>1 DEF NamesOnce
      <4>7. ext2_find_inode(w, d, name) = -1
        <5>1. {k \in Index : Named(Slot(w, d, k), name)} = {}
          BY <4>6
        <5> QED BY <2>1, <3>2, <3>5, <5>1, FindIs
      <4>8. ~(d < 0) /\ name # Blank
        BY <1>7, <2>1 DEF name
      <4> QED BY <4>5, <4>7, <4>8, ResolveSplits DEF Walk, name
    <3>9. fs_resolve_inode(w, cur, q) = j
      <4> DEFINE b == IF q.abs THEN Root ELSE cur
                 s == q.comps
                 G == L \ {i}
      <4>1. P!Fold(c, b, s) = j /\ j \in G
        BY <1>3, ResolveFolds
      <4>2. ASSUME NEW x \in L, NEW nm \in Names, ext2_find_inode(c, x, nm) \in G
            PROVE  x \in G /\ ext2_find_inode(w, x, nm) = ext2_find_inode(c, x, nm)
        <5>1. x \in G
          BY <1>6, <1>7, <4>2
        <5>2. CASE x # d
          <6>1. \A k \in Index : Slot(w, x, k) = Slot(c, x, k)
            BY <3>4, <5>1, <5>2
          <6> QED BY <1>1, <1>3, <3>2, <3>5, <5>1, <6>1, SameFinds
        <5>3. CASE x = d
          <6> DEFINE K == {k \in Index : Named(Slot(c, d, k), nm)}
          <6>1. nm # name
            BY <3>1, <3>3, <4>2, <5>3
          <6>2. ~Named(Slot(c, d, h), nm)
            BY <3>6, <6>1 DEF Named
          <6>3. \A k \in Index : k # h => Slot(w, d, k) = Slot(c, d, k)
            BY <3>4, <5>1, <5>3
          <6>4. Slot(w, d, h) = [Slot(c, d, h) EXCEPT !.ino = 0]
            BY <3>4, <3>6, <5>1, <5>3
          <6>5. \A k \in Index : Named(Slot(w, d, k), nm) <=> Named(Slot(c, d, k), nm)
            BY <3>7, <6>2, <6>3, <6>4
          <6> DEFINE J == {k \in Index : Named(Slot(w, d, k), nm)}
          <6>6. J = K
            BY <6>5
          <6>7. /\ K # {} => Min(K) \in K
                /\ ext2_find_inode(c, d, nm) = IF K = {} THEN -1 ELSE Slot(c, d, Min(K)).ino
            BY <1>1, <2>1, FindIs
          <6>8. ext2_find_inode(w, d, nm) = IF J = {} THEN -1 ELSE Slot(w, d, Min(J)).ino
            BY <2>1, <3>2, <3>5, FindIs
          <6>9. \A k \in K : Slot(w, d, k) = Slot(c, d, k)
            BY <6>2, <6>3
          <6> HIDE DEF K, J
          <6> QED BY <5>1, <5>3, <6>6, <6>7, <6>8, <6>9
        <5> QED BY <5>2, <5>3
      <4>3. b \in L /\ s \in Seq(Comps) /\ G \in SUBSET L
        BY <1>p
      <4> HIDE DEF b, s, G, L
      <4>4. P!Fold(w, b, s) = j
        BY <1>7, <1>8, <4>1, <4>2, <4>3, WalkInto
      <4> QED BY <4>4, ResolveFolds DEF b, s
    <3>10. ext2_read_file(w, j) = copied
      <4>1. j # d
        BY <1>6, <1>7, <3>1, <3>3
      <4>2. w.itab[j] = c.itab[j]
        BY <1>1, <1>4, <2>1, <2>3, <2>6, <3>3, UnlinkPointers DEF H
      <4>3. Same(c, w, j)
        BY <3>4, <4>1, <4>2 DEF Same
      <4> QED BY <1>1, <1>3, <1>4, <3>2, <3>5, <4>3, SameReads
    <3> QED BY <3>8, <3>9, <3>10 DEF c, d, w, copied, m, name
  <2> QED BY <2>5, <2>6
<1> QED BY <1>9, <1>10
\* What mv does with a file that fits the buffer.
MoveSurvives ==
    vol' # vol /\ TreeShaped(vol) /\ NamesUnique =>
        \A p, q \in Paths :
            LET i == Resolve(p)
            IN  /\ i >= 0 /\ Last(p.comps) # Blank
                /\ Entries(i) = {} /\ FitsBuffer(i)
                /\ i \notin {Resolve(q), fs_get_parent(vol, cwd_inode, q)}
                /\ cmd_mv(p, q) /\ status' = "ok"
                => /\ Resolve(p)' < 0
                   /\ Resolve(q)' >= 0
                   /\ Bytes(Resolve(q))' = Bytes(i)

LEMMA MoveStep == FsInv => MoveSurvives
<1> SUFFICES ASSUME FsInv, TreeShaped(vol), NamesUnique,
                    NEW p \in Paths, NEW q \in Paths,
                    Resolve(p) >= 0, Last(p.comps) # Blank,
                    Entries(Resolve(p)) = {}, FitsBuffer(Resolve(p)),
                    Resolve(p) # Resolve(q),
                    Resolve(p) # fs_get_parent(vol, cwd_inode, q),
                    cmd_mv(p, q), status' = "ok"
             PROVE  /\ Resolve(p)' < 0
                    /\ Resolve(q)' >= 0
                    /\ Bytes(Resolve(q))' = Bytes(Resolve(p))
  BY DEF MoveSurvives
<1> DEFINE i == Resolve(p)
           all == Bytes(i)
           bytes == fs_read(vol, cwd_inode, p, CopyBlocks)
           u == MadeFor(vol, cwd_inode, q)
           j == fs_resolve_inode(u, cwd_inode, q)
           c == ext2_write_file(u, j, bytes)
<1>s. SoundInv(vol) /\ cwd_inode \in Live(vol) /\ NamesOnce(vol)
  BY NamesOnceIs DEF FsInv
<1>0. /\ p \in PathNames /\ q \in PathNames
      /\ vol.next_inode \in Nat /\ MaxInode \in Nat
  <2>1. vol.next_inode \in FirstInode .. MaxInode + 1
    BY <1>s DEF SoundInv, VolumeType
  <2> QED BY <2>1, FsAssumption, Ext2Assumption
<1>1. vol.next_inode <= MaxInode /\ cwd_inode' = cwd_inode
  BY <1>0 DEF cmd_mv, Room
<1>2. i \in Live(vol) /\ i = fs_resolve_inode(vol, cwd_inode, p)
  BY <1>0, <1>s, ParentTyped DEF Reached, Resolve
\* What is copied is the whole file.
<1>3. bytes = all /\ Len(bytes) = Len(all) /\ Writable(vol, bytes) /\ Written(bytes) = Len(all)
  <2> DEFINE n == Cardinality(Visited(vol.itab[i]))
             m == IF Len(all) < CopyBlocks THEN Len(all) ELSE CopyBlocks
  <2>1. /\ n \in Nat /\ n <= NDirect /\ Len(all) = n
        /\ all = [k \in 1 .. n |-> Slot(vol, i, k - 1)]
    BY <1>s, <1>2, ReadSlots DEF Bytes
  <2>2. /\ Len(bytes) = m
        /\ bytes = [k \in 1 .. m |-> IF k = CopyBlocks THEN Clipped(all[k]) ELSE all[k]]
    BY <1>s, <1>2, FsReadIs DEF Bytes
  <2>3. Writable(vol, bytes)
    BY <1>s, <1>2, FsReadTyped
  <2>6. /\ Len(all) \in 1 .. CopyBlocks
        /\ Len(all) = CopyBlocks => Clipped(all[CopyBlocks]) = all[CopyBlocks]
    BY DEF FitsBuffer
  <2>7. CopyBlocks \in Nat
    BY FsAssumption
  <2> HIDE DEF n, all, bytes
  <2>4. m = Len(all)
    BY <2>1, <2>6, <2>7
  <2>8. \A k \in 1 .. m : (IF k = CopyBlocks THEN Clipped(all[k]) ELSE all[k]) = all[k]
    BY <2>4, <2>6, <2>7
  <2> HIDE DEF m
  <2>9. bytes = [k \in 1 .. m |-> all[k]]
    BY <2>2, <2>8
  <2>5. bytes = all
    BY <2>1, <2>4, <2>9
  <2> QED BY <2>1, <2>2, <2>3, <2>4, <2>5, <2>6, Ext2Assumption DEF Written
<1>4. Plain(bytes) /\ Written(bytes) # 0
  BY <1>s, <1>2, <1>3, EmptyReadsPlain DEF Entries, Bytes, FitsBuffer
<1>5. \A k \in Index : ~IsEntry(Slot(vol, i, k))
  <2> DEFINE n == Cardinality(Visited(vol.itab[i]))
  <2>1. /\ n \in Nat /\ Len(all) = n
        /\ all = [k \in 1 .. n |-> Slot(vol, i, k - 1)]
        /\ \A k \in Index : vol.itab[i].block[k] # 0 <=> k < n
    BY <1>s, <1>2, ReadSlots DEF Bytes
  <2>2. \A k \in 1 .. n : ~IsEntry(all[k])
    BY <1>3, <1>4, <2>1 DEF Plain
  <2> HIDE DEF n, all, i
  <2> SUFFICES ASSUME NEW k \in Index PROVE ~IsEntry(Slot(vol, i, k))
    OBVIOUS
  <2>3. CASE k < n
    <3>1. k + 1 \in 1 .. n /\ (k + 1) - 1 = k
      BY <2>1, <2>3, Ext2Assumption DEF Index
    <3>2. all[k + 1] = Slot(vol, i, k)
      BY <2>1, <3>1
    <3> QED BY <2>2, <3>1, <3>2
  <2>4. CASE ~(k < n)
    BY <2>1, <2>4 DEF Slot, IsEntry, Zero
  <2> QED BY <2>3, <2>4
<1>6. /\ SoundInv(u) /\ Live(vol) \subseteq Live(u) /\ cwd_inode \in Live(u)
      /\ TreeShaped(u) /\ NamesOnce(u) /\ Writable(u, bytes)
      /\ (j \in Live(u) /\ j >= 0) \/ j = -1
  BY <1>0, <1>s, <1>1, <1>3, MadeForInv
<1>7. Copy(p, q) = IF j < 0 THEN [vol |-> u, ok |-> FALSE] ELSE [vol |-> c, ok |-> TRUE]
  <2>1. fs_exists(vol, cwd_inode, p)
    BY <1>2 DEF fs_exists
  <2> QED BY <2>1, WriteIs DEF Copy
<1>8. j \in Live(u) /\ j >= 0 /\ Copy(p, q).vol = c
  <2>1. Copy(p, q).ok
    BY DEF cmd_mv, Report
  <2> HIDE DEF j, u, c
  <2> QED BY <1>6, <1>7, <2>1
\* The target is another inode, and p still leads to the file.
<1>9. /\ i # j /\ fs_resolve_inode(u, cwd_inode, p) = i
      /\ \A k \in Index : ~IsEntry(Slot(u, i, k))
  <2>1. CASE fs_exists(vol, cwd_inode, q) \/ ~HasParent(vol, cwd_inode, q)
    <3>1. u = vol
      BY <2>1 DEF MadeFor
    <3> QED BY <1>2, <1>5, <3>1 DEF Resolve
  <2>2. CASE ~fs_exists(vol, cwd_inode, q) /\ HasParent(vol, cwd_inode, q)
    <3> DEFINE d == fs_get_parent(vol, cwd_inode, q)
               name == Last(q.comps)
    <3>1. u = fs_create(vol, cwd_inode, q)
      BY <2>2 DEF MadeFor
    <3>2. d \in Live(vol) /\ name \in Names /\ u = ext2_create_file(vol, d, name)
      BY <1>0, <1>s, <2>2, <3>1, ParentTyped DEF fs_create
    <3>3. /\ fs_resolve_inode(u, cwd_inode, p) = i
          /\ j \in {-1, vol.next_inode}
      BY <1>0, <1>s, <1>1, <1>2, <2>2, <3>1, CreateResolves DEF fs_exists
    <3>4. vol.next_inode \notin Live(vol)
      BY <1>s, <1>1, <3>2, CreateFileInv DEF Made
    <3>5. Same(vol, u, i)
      BY <1>s, <1>1, <1>2, <3>2, CreatePointers
    <3> HIDE DEF u, j, i
    <3> QED BY <1>2, <1>5, <1>8, <3>3, <3>4, <3>5 DEF Same
  <2> QED BY <2>1, <2>2
<1>10. vol' = IF HasParent(c, cwd_inode, p)
              THEN ext2_unlink(c, fs_get_parent(c, cwd_inode, p), Last(p.comps)) ELSE c
  <2>1. Copy(p, q).ok
    BY DEF cmd_mv, Report
  <2> QED BY <1>8, <2>1 DEF cmd_mv
<1>11. i \in Live(u)
  BY <1>2, <1>6
<1>12. [k \in 1 .. Written(bytes) |-> bytes[k]] = all
  <2> DEFINE n == Cardinality(Visited(vol.itab[i]))
  <2>1. Len(all) = n /\ all = [k \in 1 .. n |-> Slot(vol, i, k - 1)]
    BY <1>s, <1>2, ReadSlots DEF Bytes
  <2> HIDE DEF all, bytes, n
  <2> QED BY <1>3, <2>1
<1> HIDE DEF u, j, i, c, all, bytes
<1>13. /\ fs_resolve_inode(vol', cwd_inode, p) < 0
       /\ fs_resolve_inode(vol', cwd_inode, q) = j
       /\ ext2_read_file(vol', j) = all
  BY <1>0, <1>4, <1>6, <1>8, <1>9, <1>10, <1>11, <1>12, MovedAway DEF c, j
<1>14. /\ Resolve(p)' = fs_resolve_inode(vol', cwd_inode, p)
       /\ Resolve(q)' = fs_resolve_inode(vol', cwd_inode, q)
  BY <1>1 DEF Resolve
<1>15. Bytes(Resolve(q))' = ext2_read_file(vol', Resolve(q)')
  BY DEF Bytes
<1> QED BY <1>8, <1>13, <1>14, <1>15 DEF all, i

\* mv loses nothing that fits its buffer: the file is read back under the new path and
\* the old one leads nowhere, in every tree, whether the target had to be made, was
\* written over, or was a directory on the way to the file.
THEOREM MovedFilesSurvive == FsSpec => MovedFileSurvives
<1>1. FsInit => FsInv
  BY FsInitInv
<1>2. FsInv /\ [FsNext]_fsVars => FsInv'
  BY FsStep
<1>3. FsInv /\ [FsNext]_fsVars => [MoveSurvives]_fsVars
  BY MoveStep
<1> QED BY <1>1, <1>2, <1>3, PTL DEF FsSpec, MovedFileSurvives, MoveSurvives
=============================================================================
