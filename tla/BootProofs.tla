----------------------------- MODULE BootProofs -----------------------------
(***************************************************************************)
(* Proofs about the first boot and the work at its prompt (module Boot),   *)
(* for every layout of directories, files and users that its assumptions   *)
(* allow: the system files keep their text, /etc/passwd holds the user     *)
(* table, and every user has a home directory.                             *)
(***************************************************************************)
EXTENDS Boot, FsProofs, SequenceTheorems

\* What the names of the layout stand for: /etc, /home and a file of /etc.
EtcOf(v) == ext2_find_inode(v, Root, "etc")

HomeOf(v) == ext2_find_inode(v, Root, "home")

FileOf(v, name) == ext2_find_inode(v, EtcOf(v), name)

KeptFiles(v) == {FileOf(v, name) : name \in FileNames} \ {-1}

\* The inodes no command may change: these and the root.
Guarded(v) == {Root, EtcOf(v), HomeOf(v)} \cup KeptFiles(v)

\* The names of their entries.
Protected == {"etc", "home"} \cup FileNames

\* Slots are filled from the first to the last.
FreeLast(v, d) ==
    \A k, l \in Index : NoRecLen(Slot(v, d, k)) /\ ~NoRecLen(Slot(v, d, l)) => l < k

\* An entry of a guarded inode is in a guarded inode, and its name says so.
EntryGuarded(v, x, c) ==
    IsEntry(c) /\ c.ino \in Guarded(v) =>
        /\ x \in Guarded(v) /\ c.name \in Protected
        /\ c.ino \in KeptFiles(v) => c.name \in FileNames

Layout(v) ==
    /\ SoundInv(v)
    /\ EtcOf(v) \in Live(v) /\ HomeOf(v) \in Live(v)
    /\ KeptFiles(v) \cap {Root, EtcOf(v), HomeOf(v)} = {}
    /\ \A m, n \in FileNames : FileOf(v, m) = FileOf(v, n) /\ FileOf(v, m) # -1 => m = n
    /\ \A x \in KeptFiles(v), k \in Index : ~IsEntry(Slot(v, x, k))
    /\ \A x \in Live(v), k \in Index : EntryGuarded(v, x, Slot(v, x, k))
    /\ FreeLast(v, Root)

\* The names of the layout are names, and no file is called like a directory of it.
LEMMA NamesTyped ==
    /\ FileNames \subseteq Names /\ Protected \subseteq Names /\ Users \subseteq Names
    /\ "etc" \in Names /\ "home" \in Names /\ "passwd" \in FileNames
    /\ Blank \notin Protected /\ ".." \notin FileNames
    /\ "etc" \notin FileNames /\ "home" \notin FileNames
    /\ Users \cap FileNames = {} /\ "root" \notin Users
<1>1. \A f \in Range(SystemFiles) : Last(f.path.comps) \in Names
  <2> SUFFICES ASSUME NEW f \in Range(SystemFiles) PROVE Last(f.path.comps) \in Names
    OBVIOUS
  <2>1. f \in [path : {Rooted(<<"etc", name>>) : name \in Names}, text : Payloads]
    <3> DEFINE R == [path : {Rooted(<<"etc", name>>) : name \in Names}, text : Payloads]
    <3>1. SystemFiles \in Seq(R)
      BY BootAssumption
    <3> HIDE DEF R
    <3>2. PICK i \in DOMAIN SystemFiles : f = SystemFiles[i]
      BY DEF Range
    <3>3. SystemFiles[i] \in R
      BY <3>1
    <3> QED BY <3>2, <3>3 DEF R
  <2>2. PICK name \in Names : f.path = Rooted(<<"etc", name>>)
    BY <2>1
  <2> QED BY <2>2 DEF Rooted, Last
<1>2. FileNames \subseteq Names
  BY <1>1, BootAssumption DEF FileNames
<1>3. "etc" # Blank /\ "home" # Blank
  BY DEF Blank
<1> QED BY <1>2, <1>3, BootAssumption, FsAssumption DEF FileNames, Protected

\* Guarded inodes are live.
LEMMA GuardedLive ==
    ASSUME NEW v, Layout(v)
    PROVE  /\ Guarded(v) \subseteq Live(v) /\ KeptFiles(v) \subseteq Live(v)
           /\ \A name \in FileNames : FileOf(v, name) \in Live(v) \/ FileOf(v, name) = -1
           /\ \A x \in Live(v) : x \in Nat /\ x > 0
           /\ Root \in Live(v)
<1>1. \A name \in FileNames : FileOf(v, name) \in Live(v) \/ FileOf(v, name) = -1
  BY FindTyped, NamesTyped DEF Layout, FileOf
<1>2. Root \in Live(v) /\ \A x \in Live(v) : x \in Nat /\ x > 0
  BY LivePositive DEF Layout, SoundInv
<1> QED BY <1>1, <1>2 DEF Guarded, KeptFiles, Layout

\* What is found under a name is what an entry of that name says.
LEMMA FoundIsEntry ==
    ASSUME NEW v, SoundInv(v), NEW x \in Live(v), NEW name, ext2_find_inode(v, x, name) # -1
    PROVE  \E k \in Index : /\ IsEntry(Slot(v, x, k)) /\ Slot(v, x, k).name = name
                            /\ ext2_find_inode(v, x, name) = Slot(v, x, k).ino
<1> DEFINE H == {k \in Index : Named(Slot(v, x, k), name)}
<1>1. /\ H # {} => Min(H) \in H
      /\ ext2_find_inode(v, x, name) = IF H = {} THEN -1 ELSE Slot(v, x, Min(H)).ino
  BY FindIs
<1>2. PICK k \in H : ext2_find_inode(v, x, name) = Slot(v, x, k).ino
  BY <1>1
<1> QED BY <1>2 DEF Named, IsEntry

\* A name that some slot has is found.
LEMMA EntryIsFound ==
    ASSUME NEW v, SoundInv(v), NEW x \in Live(v), NEW name, NEW k \in Index,
           Named(Slot(v, x, k), name)
    PROVE  ext2_find_inode(v, x, name) # -1
<1> DEFINE H == {j \in Index : Named(Slot(v, x, j), name)}
<1>1. /\ H # {} => Min(H) \in H
      /\ ext2_find_inode(v, x, name) = IF H = {} THEN -1 ELSE Slot(v, x, Min(H)).ino
  BY FindIs
<1>2. PICK j \in H : ext2_find_inode(v, x, name) = Slot(v, x, j).ino
  BY <1>1
<1>3. Slot(v, x, j).ino # -1
  <2>1. Slot(v, x, j) \in Content /\ IsEntry(Slot(v, x, j))
    BY <1>2, SlotTyped DEF SoundInv, Named, IsEntry
  <2> QED BY <2>1 DEF Content, Zero, Inodes, IsEntry
<1> QED BY <1>2, <1>3

\* A walk that meets no name of a file meets no file.
LEMMA WalkAvoids ==
    ASSUME NEW v, Layout(v), NEW b \in Live(v) \ KeptFiles(v),
           NEW s \in Seq(Comps), Range(s) \cap FileNames = {}
    PROVE  P!Fold(v, b, s) \in (Live(v) \ KeptFiles(v)) \cup {-1}
<1> DEFINE n == Len(s)
           A == (Live(v) \ KeptFiles(v)) \cup {-1}
<1>1. /\ n \in Nat /\ DOMAIN s = 1 .. n
      /\ \A k \in 1 .. n : s[k] \in Comps /\ s[k] \in Range(s)
  BY DEF Range
<1> HIDE DEF n
<1>2. PICK f : P!Values(v, b, s, n, f) /\ P!Fold(v, b, s) = f[n]
  BY ONLY <1>1, P!FoldSteps, SMTT(30)
<1>3. f[0] = b /\ \A k \in 1 .. n : f[k] = Walk(v, f[k - 1], s[k])
  BY <1>2 DEF P!Values
<1>4. \A x \in A, c \in Comps \ FileNames : Walk(v, x, c) \in A
  <2> SUFFICES ASSUME NEW x \in A, NEW c \in Comps \ FileNames PROVE Walk(v, x, c) \in A
    OBVIOUS
  <2>1. CASE x < 0 \/ c = Blank
    BY <2>1 DEF Walk
  <2>2. CASE ~(x < 0 \/ c = Blank)
    <3>1. x \in Live(v) \ KeptFiles(v) /\ c \in Names /\ Walk(v, x, c) = ext2_find_inode(v, x, c)
      BY <2>2 DEF Walk, Comps
    <3>2. CASE ext2_find_inode(v, x, c) = -1
      BY <3>1, <3>2
    <3>3. CASE ext2_find_inode(v, x, c) # -1
      <4>1. PICK k \in Index : /\ IsEntry(Slot(v, x, k)) /\ Slot(v, x, k).name = c
                               /\ ext2_find_inode(v, x, c) = Slot(v, x, k).ino
        BY <3>1, <3>3, FoundIsEntry DEF Layout
      <4>2. EntryGuarded(v, x, Slot(v, x, k))
        BY <3>1 DEF Layout
      <4>3. ext2_find_inode(v, x, c) \notin KeptFiles(v)
        BY <4>1, <4>2 DEF EntryGuarded, Guarded
      <4>4. ext2_find_inode(v, x, c) \in Live(v)
        BY <3>1, <3>3, FindTyped DEF Layout
      <4> QED BY <3>1, <4>3, <4>4
    <3> QED BY <3>2, <3>3
  <2> QED BY <2>1, <2>2
<1> DEFINE S == {k \in Nat : k <= n => f[k] \in A}
<1>5. 0 \in S
  BY <1>3
<1>6. ASSUME NEW k \in Nat, k \in S PROVE k + 1 \in S
  <2> SUFFICES ASSUME k + 1 <= n PROVE f[k + 1] \in A
    OBVIOUS
  <2>1. k + 1 \in 1 .. n /\ (k + 1) - 1 = k /\ k <= n
    BY <1>1
  <2>2. f[k + 1] = Walk(v, f[k], s[k + 1]) /\ f[k] \in A
    BY <1>3, <1>6, <2>1
  <2>3. s[k + 1] \in Comps \ FileNames
    BY <1>1, <2>1
  <2> HIDE DEF A
  <2> QED BY <1>4, <2>2, <2>3
<1> HIDE DEF S
<1>7. n \in S
  BY <1>1, <1>5, <1>6, P!SetInduction
<1> QED BY <1>1, <1>2, <1>7 DEF S

LEMMA FrontRange ==
    ASSUME NEW s \in Seq(Comps), s # <<>>
    PROVE  Range(Front(s)) \subseteq Range(s)
<1>1. /\ Front(s) \in Seq(Comps) /\ Len(s) \in Nat /\ Len(Front(s)) = Len(s) - 1
      /\ DOMAIN s = 1 .. Len(s)
  BY FrontTyped
<1>2. \A k \in DOMAIN Front(s) : k \in DOMAIN s /\ Front(s)[k] = s[k]
  <2> SUFFICES ASSUME NEW k \in DOMAIN Front(s) PROVE k \in DOMAIN s /\ Front(s)[k] = s[k]
    OBVIOUS
  <2>1. k \in 1 .. Len(s) - 1
    BY <1>1
  <2>2. SubSeq(s, 1, Len(s) - 1)[k] = s[k]
    BY <1>1, <2>1
  <2> QED BY <1>1, <2>1, <2>2 DEF Front
<1> QED BY <1>2 DEF Range

\* The paths of commands lead to inodes that may be changed, and the directories
\* they are in are no files of the system.
LEMMA PathAvoids ==
    ASSUME NEW v, Layout(v), NEW cur \in Live(v) \ KeptFiles(v),
           NEW path \in PathNames, Range(path.comps) \cap FileNames = {}
    PROVE  /\ fs_resolve_inode(v, cur, path) \in (Live(v) \ KeptFiles(v)) \cup {-1}
           /\ fs_get_parent(v, cur, path) \in (Live(v) \ KeptFiles(v)) \cup {-1}
           /\ Last(path.comps) \notin Protected \cup {Blank} =>
                  fs_resolve_inode(v, cur, path) \notin Guarded(v)
<1> DEFINE b == IF path.abs THEN Root ELSE cur
           s == path.comps
           d == fs_get_parent(v, cur, path)
           i == fs_resolve_inode(v, cur, path)
<1>1. s \in Seq(Comps) /\ s # <<>> /\ Front(s) \in Seq(Comps) /\ Last(s) \in Comps
  <2>1. s \in Seq(Comps) /\ s # <<>>
    BY DEF PathNames, Comps
  <2> QED BY <2>1, FrontTyped
<1>2. b \in Live(v) \ KeptFiles(v)
  <2>1. Root \in Live(v) \ KeptFiles(v)
    BY GuardedLive DEF Layout
  <2> QED BY <2>1
<1>3. Range(Front(s)) \cap FileNames = {}
  BY <1>1, FrontRange
<1>4. i = P!Fold(v, b, s) /\ d = P!Fold(v, b, Front(s))
  BY ResolveFolds, ParentFolds
<1>5. i = Walk(v, d, Last(s))
  BY ResolveSplits
<1> HIDE DEF b, s, d, i
<1>6. i \in (Live(v) \ KeptFiles(v)) \cup {-1} /\ d \in (Live(v) \ KeptFiles(v)) \cup {-1}
  <2>1. Range(s) \cap FileNames = {}
    BY DEF s
  <2> QED BY <1>1, <1>2, <1>3, <1>4, <2>1, WalkAvoids
<1>7. ASSUME Last(s) \notin Protected \cup {Blank} PROVE i \notin Guarded(v)
  <2>1. -1 \notin Guarded(v)
    BY GuardedLive
  <2>2. CASE d < 0
    <3>1. i = d /\ d = -1
      BY <1>5, <1>6, <2>2, GuardedLive DEF Walk
    <3> QED BY <2>1, <3>1
  <2>3. CASE ~(d < 0)
    <3>1. d \in Live(v) /\ i = ext2_find_inode(v, d, Last(s))
      BY <1>5, <1>6, <1>7, <2>3 DEF Walk
    <3>2. CASE i = -1
      BY <2>1, <3>2
    <3>3. CASE i # -1
      <4>1. PICK k \in Index : /\ IsEntry(Slot(v, d, k)) /\ Slot(v, d, k).name = Last(s)
                               /\ i = Slot(v, d, k).ino
        BY <3>1, <3>3, FoundIsEntry DEF Layout
      <4>2. EntryGuarded(v, d, Slot(v, d, k))
        BY <3>1 DEF Layout
      <4> QED BY <1>7, <4>1, <4>2 DEF EntryGuarded
    <3> QED BY <3>2, <3>3
  <2> QED BY <2>2, <2>3
<1> QED BY <1>6, <1>7 DEF i, d, s

-----------------------------------------------------------------------------
(* What commands leave as it is *)

\* From v to w the layout stays, files of the system read the same, no home directory
\* is lost and /home has not got more room.
Steady(v, w) ==
    /\ Layout(w) /\ Live(v) \subseteq Live(w)
    /\ EtcOf(w) = EtcOf(v) /\ HomeOf(w) = HomeOf(v)
    /\ \A name \in FileNames : FileOf(w, name) = FileOf(v, name)
    /\ \A x \in KeptFiles(v) : Same(v, w, x)
    /\ \A user \in Users : ext2_find_inode(v, HomeOf(v), user) # -1 =>
                               ext2_find_inode(w, HomeOf(v), user) # -1
    /\ FreeSlots(w, HomeOf(v)) \subseteq FreeSlots(v, HomeOf(v))

\* What has to be found where for the names of the layout to stand for the same.
Needed(v, x, name) ==
    \/ x = Root /\ name \in {"etc", "home"}
    \/ x = EtcOf(v) /\ name \in FileNames

\* A volume in which the names of the layout lead to the same inodes, these hold their
\* entries and no other inode has got one, is steady.
LEMMA SteadyFrom ==
    ASSUME NEW v, Layout(v), NEW w, SoundInv(w), Live(v) \subseteq Live(w),
           \A x \in Guarded(v), name \in Protected : Needed(v, x, name) =>
               ext2_find_inode(w, x, name) = ext2_find_inode(v, x, name),
           \A x \in Live(w), k \in Index : EntryGuarded(v, x, Slot(w, x, k)),
           \A x \in KeptFiles(v) : Same(v, w, x),
           FreeLast(w, Root),
           \A user \in Users, k \in Index :
               Named(Slot(v, HomeOf(v), k), user) => Named(Slot(w, HomeOf(v), k), user),
           \A k \in Index : NoRecLen(Slot(w, HomeOf(v), k)) => NoRecLen(Slot(v, HomeOf(v), k))
    PROVE  Steady(v, w)
<1>1. EtcOf(w) = EtcOf(v) /\ HomeOf(w) = HomeOf(v)
  BY DEF EtcOf, HomeOf, Guarded, Protected, Needed
<1>2. \A name \in FileNames : FileOf(w, name) = FileOf(v, name)
  BY <1>1 DEF FileOf, Guarded, Protected, Needed
<1>3. KeptFiles(w) = KeptFiles(v)
  BY <1>2 DEF KeptFiles
<1>4. Guarded(w) = Guarded(v)
  BY <1>1, <1>3 DEF Guarded
<1>5. \A x \in Live(w), k \in Index : EntryGuarded(w, x, Slot(w, x, k))
  BY <1>3, <1>4 DEF EntryGuarded
<1>6. \A x \in KeptFiles(w), k \in Index : ~IsEntry(Slot(w, x, k))
  BY <1>3 DEF Layout, Same
<1>7. Layout(w)
  BY <1>1, <1>2, <1>3, <1>5, <1>6 DEF Layout
<1>8. \A user \in Users : ext2_find_inode(v, HomeOf(v), user) # -1 =>
                               ext2_find_inode(w, HomeOf(v), user) # -1
  <2> SUFFICES ASSUME NEW user \in Users, ext2_find_inode(v, HomeOf(v), user) # -1
               PROVE  ext2_find_inode(w, HomeOf(v), user) # -1
    OBVIOUS
  <2>1. HomeOf(v) \in Live(v) /\ HomeOf(v) \in Live(w)
    BY DEF Layout
  <2>2. PICK k \in Index : /\ IsEntry(Slot(v, HomeOf(v), k))
                           /\ Slot(v, HomeOf(v), k).name = user
    BY <2>1, FoundIsEntry DEF Layout
  <2>3. Named(Slot(w, HomeOf(v), k), user)
    BY <2>2 DEF Named, IsEntry
  <2> QED BY <2>1, <2>3, EntryIsFound
<1>9. FreeSlots(w, HomeOf(v)) \subseteq FreeSlots(v, HomeOf(v))
  BY FreeSlotsAre
<1> QED BY <1>1, <1>2, <1>7, <1>8, <1>9 DEF Steady

LEMMA SteadyKeeps ==
    ASSUME NEW v, Layout(v), NEW w, Steady(v, w)
    PROVE  KeptFiles(w) = KeptFiles(v) /\ Guarded(w) = Guarded(v)
<1>1. KeptFiles(w) = KeptFiles(v)
  BY DEF Steady, KeptFiles
<1> QED BY <1>1 DEF Steady, Guarded

LEMMA SteadySelf ==
    ASSUME NEW v, Layout(v)
    PROVE  Steady(v, v)
BY DEF Steady, Same

LEMMA SteadyTwice ==
    ASSUME NEW u, Layout(u), NEW v, Steady(u, v), NEW w, Steady(v, w)
    PROVE  Steady(u, w)
<1>1. KeptFiles(v) = KeptFiles(u)
  BY SteadyKeeps
<1>2. \A x \in KeptFiles(u) : Same(u, w, x)
  BY <1>1 DEF Steady, Same
<1> QED BY <1>2 DEF Steady

\* ext2_mkdir changes the pointers of the directory only.
LEMMA MkdirPointers ==
    ASSUME NEW v, SoundInv(v), v.next_inode <= MaxInode,
           NEW d \in Live(v), NEW name \in Names
    PROVE  \A x \in Live(v) : x # d => Same(v, ext2_mkdir(v, d, name), x)
<1> DEFINE n == v.next_inode
           new == [type |-> "dir", links |-> 2,
                   block |-> [NoBlocks EXCEPT ![0] = v.next_block]]
           made == [v EXCEPT !.itab[n] = new, !.next_block = @ + 1, !.next_inode = @ + 1]
           w == ext2_mkdir(v, d, name)
<1>1. /\ VolumeType(v) /\ Live(v) \subseteq Inodes /\ v.itab \in [Inodes -> Inode]
  BY LiveTyped DEF SoundInv, VolumeType
<1>2. Made(v, w, d, name, "dir")
  BY MkdirInv
<1>3. n \notin Live(v) /\ n \in Inodes /\ d # n
  <2>1. n \notin Live(v)
    BY <1>2 DEF Made
  <2>2. n \in FirstInode .. MaxInode + 1 /\ n <= MaxInode
    BY <1>1 DEF VolumeType
  <2>3. n \in Inodes
    BY <2>2, Ext2Assumption DEF Inodes, Root
  <2> QED BY <2>1, <2>3
<1>4. w = ext2_add_dirent(made, d, name, n, "dir")
  BY DEF ext2_mkdir
<1> HIDE DEF new
<1>5. /\ made.itab = [v.itab EXCEPT ![n] = new]
      /\ made = [itab |-> made.itab, data |-> made.data,
                 next_block |-> made.next_block, next_inode |-> made.next_inode]
  <2> DEFINE t == [v.itab EXCEPT ![n] = new]
  <2>0. v = [itab |-> v.itab, data |-> v.data,
             next_block |-> v.next_block, next_inode |-> v.next_inode]
    BY <1>1 DEF VolumeType
  <2>1. made = [[[v EXCEPT !.itab = t] EXCEPT !.next_block = @ + 1] EXCEPT !.next_inode = @ + 1]
    OBVIOUS
  <2> HIDE DEF t, made
  <2>2. made = [itab |-> t, data |-> v.data, next_block |-> v.next_block + 1,
                next_inode |-> v.next_inode + 1]
    BY <2>0, <2>1
  <2> QED BY <2>2 DEF t
<1>6. \A x \in Inodes : x # d => w.itab[x] = made.itab[x]
  <2>1. CASE FreeSlots(made, d) = {}
    BY <1>4, <2>1 DEF ext2_add_dirent
  <2>2. CASE FreeSlots(made, d) # {}
    <3> DEFINE k == Min(FreeSlots(made, d))
               b == IF made.itab[d].block[k] = 0 THEN made.next_block
                    ELSE made.itab[d].block[k]
    <3>2. made.itab = [x \in Inodes |-> made.itab[x]]
      BY <1>1, <1>5
    <3> HIDE DEF made
    <3>3. w.itab = [made.itab EXCEPT ![d].block[k] = b]
      BY <1>4, <1>5, <2>2 DEF ext2_add_dirent
    <3> HIDE DEF k, b, w
    <3> QED BY <3>2, <3>3
  <2> QED BY <2>1, <2>2
<1> HIDE DEF made, w
<1>7. \A x \in Live(v) : x # d => w.itab[x] = v.itab[x]
  BY <1>1, <1>3, <1>5, <1>6
<1>9. \A x \in Live(v), k \in Index : x # d => Slot(w, x, k) = Slot(v, x, k)
  BY <1>2 DEF Made
<1> QED BY <1>7, <1>9 DEF Same, w

\* What an inode that is made leaves as it is: its entry is in a slot that was free.
LEMMA MadeSlots ==
    ASSUME NEW v, SoundInv(v), NEW w, NEW d \in Live(v), NEW name, NEW ftype,
           Made(v, w, d, name, ftype)
    PROVE  /\ v.next_inode \notin Live(v) /\ v.next_inode \in Nat /\ v.next_inode # 0
           /\ Live(w) = Live(v) \cup {v.next_inode}
           /\ \A k \in Index : Slot(w, v.next_inode, k) = Zero
           /\ \A x \in Live(v), k \in Index :
                 \/ Slot(w, x, k) = Slot(v, x, k)
                 \/ /\ x = d /\ NoRecLen(Slot(v, d, k))
                    /\ Slot(w, d, k) = Dirent(v.next_inode, name, ftype)
                    /\ \A l \in Index : NoRecLen(Slot(v, d, l)) => k <= l
<1>1. FreeSlots(v, d) = {k \in Index : NoRecLen(Slot(v, d, k))}
  BY FreeSlotsAre
<1>2. FreeSlots(v, d) # {} => \A l \in FreeSlots(v, d) : Min(FreeSlots(v, d)) <= l
  <2>1. FreeSlots(v, d) \subseteq Nat
    BY <1>1, LiveTyped DEF SoundInv
  <2> QED BY <2>1, MinIsLeast
<1>3. v.next_inode \in Nat /\ v.next_inode # 0
  <2>1. v.next_inode \in FirstInode .. MaxInode + 1
    BY DEF SoundInv, VolumeType
  <2>2. FirstInode \in Nat /\ FirstInode > 2 /\ MaxInode \in Nat
    BY Ext2Assumption DEF Root
  <2> QED BY <2>1, <2>2
<1> QED BY <1>1, <1>2, <1>3 DEF Made

\* An entry is no free slot and no text.
LEMMA EntryKind ==
    /\ \A c : IsEntry(c) => ~NoRecLen(c)
    /\ ~IsEntry(Zero) /\ NoRecLen(Zero)
    /\ \A n \in Nat : \A name, ftype :
          /\ Dirent(n, name, ftype).kind = "dirent" /\ Dirent(n, name, ftype).name = name
          /\ Dirent(n, name, ftype).ino = n
          /\ ~NoRecLen(Dirent(n, name, ftype))
BY DEF IsEntry, NoRecLen, Zero, Dirent

\* What an entry leads to is not the root.
LEMMA FoundIsNew ==
    ASSUME NEW v, SoundInv(v), NEW x \in Live(v), NEW name \in Names,
           ext2_find_inode(v, x, name) # -1
    PROVE  ext2_find_inode(v, x, name) # Root
<1>1. UnlinkHits(v, x, name) # {} /\ ext2_find_inode(v, x, name) = UnlinkVictim(v, x, name)
  BY FindIsUnlink
<1>2. UnlinkVictim(v, x, name) \in FirstInode .. v.next_inode - 1
  BY <1>1, UnlinkInv
<1>3. FirstInode \in Nat /\ FirstInode > Root /\ v.next_inode \in Int
  <2>1. FirstInode \in Nat /\ FirstInode > Root /\ MaxInode \in Nat
    BY Ext2Assumption
  <2> QED BY <2>1 DEF SoundInv, VolumeType
<1> QED BY <1>1, <1>2, <1>3 DEF Root

\* An inode with a name that the layout does not use, a second /home, or a home
\* directory leaves the layout as it is.
LEMMA AddSteady ==
    ASSUME NEW v, Layout(v), NEW w, SoundInv(w), NEW d \in Live(v) \ KeptFiles(v),
           NEW name, \/ name \notin Protected
                     \/ name = "home" /\ d = Root
                     \/ d = HomeOf(v) /\ name \notin FileNames,
           NEW ftype, Made(v, w, d, name, ftype),
           \A x \in KeptFiles(v) : Same(v, w, x)
    PROVE  Steady(v, w)
<1> DEFINE n == v.next_inode
<1>1. /\ n \notin Live(v) /\ n \in Nat /\ n # 0 /\ Live(w) = Live(v) \cup {n}
      /\ \A k \in Index : Slot(w, n, k) = Zero
  BY MadeSlots DEF Layout
<1>2. \A x \in Live(v), k \in Index :
         \/ Slot(w, x, k) = Slot(v, x, k)
         \/ /\ x = d /\ NoRecLen(Slot(v, d, k))
            /\ Slot(w, d, k) = Dirent(n, name, ftype)
            /\ \A l \in Index : NoRecLen(Slot(v, d, l)) => k <= l
  BY MadeSlots DEF Layout
<1>3. Guarded(v) \subseteq Live(v) /\ Root \in Live(v) /\ HomeOf(v) \in Live(v)
  BY GuardedLive DEF Layout
<1>9. HomeOf(v) # Root
  BY <1>3, FoundIsNew, NamesTyped, GuardedLive DEF HomeOf, Layout
<1> HIDE DEF n
<1>4. ASSUME NEW x \in Guarded(v), NEW nm \in Protected, Needed(v, x, nm)
      PROVE  ext2_find_inode(w, x, nm) = ext2_find_inode(v, x, nm)
  <2> DEFINE H == {k \in Index : Named(Slot(v, x, k), nm)}
             G == {k \in Index : Named(Slot(w, x, k), nm)}
  <2>0. x \in Live(v) /\ x \in Live(w)
    BY <1>1, <1>3
  <2>1. /\ H # {} => Min(H) \in H
        /\ ext2_find_inode(v, x, nm) = IF H = {} THEN -1 ELSE Slot(v, x, Min(H)).ino
    BY <2>0, FindIs DEF Layout
  <2>2. /\ G # {} => Min(G) \in G
        /\ ext2_find_inode(w, x, nm) = IF G = {} THEN -1 ELSE Slot(w, x, Min(G)).ino
    BY <2>0, FindIs
  <2>3. \A k \in H : k \in G /\ Slot(w, x, k) = Slot(v, x, k)
    <3> SUFFICES ASSUME NEW k \in Index, Named(Slot(v, x, k), nm)
                 PROVE  Slot(w, x, k) = Slot(v, x, k)
      OBVIOUS
    <3>1. ~NoRecLen(Slot(v, x, k))
      BY EntryKind DEF Named, IsEntry
    <3> QED BY <1>2, <2>0, <3>1
  <2>4. CASE ~(x = Root /\ nm = "home" /\ name = "home")
    <3>1. \A k \in G : k \in H
      <4> SUFFICES ASSUME NEW k \in Index, Named(Slot(w, x, k), nm)
                   PROVE  Slot(w, x, k) = Slot(v, x, k)
        OBVIOUS
      <4>1. SUFFICES ASSUME x = d, Slot(w, d, k) = Dirent(n, name, ftype)
                     PROVE  FALSE
        BY <1>2, <2>0
      <4>2. name = nm
        BY <1>1, <4>1, EntryKind DEF Named
      <4> QED BY <1>4, <1>9, <2>4, <4>1, <4>2 DEF Needed
    <3>2. G = H
      BY <2>3, <3>1
    <3> HIDE DEF G, H
    <3> QED BY <2>1, <2>2, <2>3, <3>2
  <2>5. CASE x = Root /\ nm = "home" /\ name = "home"
    <3>1. H # {}
      <4>1. ext2_find_inode(v, Root, "home") # -1
        BY <1>3, GuardedLive DEF HomeOf
      <4> HIDE DEF H
      <4> QED BY <2>1, <2>5, <4>1
    <3>2. H \subseteq Nat /\ G \subseteq Nat
      BY LiveTyped DEF Layout, SoundInv
    <3>3. \A k \in G : k \in H \/ Min(H) < k
      <4> SUFFICES ASSUME NEW k \in G, k \notin H PROVE Min(H) < k
        OBVIOUS
      <4>1. NoRecLen(Slot(v, Root, k)) /\ k \in Index
        BY <1>2, <2>0, <2>5
      <4>2. Min(H) \in Index /\ ~NoRecLen(Slot(v, Root, Min(H)))
        BY <2>1, <2>5, <3>1, EntryKind DEF Named, IsEntry
      <4> QED BY <4>1, <4>2 DEF Layout, FreeLast
    <3> HIDE DEF G, H
    <3>4. Min(H) \in H /\ (\A k \in H : Min(H) <= k) /\ Min(H) \in G /\ Min(G) \in G
      BY <2>1, <2>2, <2>3, <3>1, <3>2, MinIsLeast
    <3>5. (\A k \in G : Min(G) <= k) /\ Min(G) \in Nat /\ Min(H) \in Nat
      BY <3>2, <3>4, MinIsLeast
    <3>6. Min(G) = Min(H)
      BY <3>3, <3>4, <3>5
    <3> QED BY <2>1, <2>2, <2>3, <3>1, <3>4, <3>6
  <2> QED BY <2>4, <2>5
<1>5. ASSUME NEW x \in Live(w), NEW k \in Index
      PROVE  EntryGuarded(v, x, Slot(w, x, k))
  <2>1. CASE x = n
    BY <1>1, <2>1, EntryKind DEF EntryGuarded
  <2>2. CASE x # n /\ Slot(w, x, k) = Slot(v, x, k)
    BY <1>1, <2>2 DEF Layout
  <2>3. CASE x # n /\ Slot(w, x, k) # Slot(v, x, k)
    <3>1. Slot(w, x, k) = Dirent(n, name, ftype)
      BY <1>1, <1>2, <2>3
    <3>2. Slot(w, x, k).ino \notin Guarded(v)
      BY <1>1, <1>3, <3>1, EntryKind
    <3> QED BY <3>2 DEF EntryGuarded
  <2> QED BY <2>1, <2>2, <2>3
<1>6. FreeLast(w, Root)
  <2> SUFFICES ASSUME NEW k \in Index, NEW l \in Index,
                      NoRecLen(Slot(w, Root, k)), ~NoRecLen(Slot(w, Root, l))
               PROVE  l < k
    BY DEF FreeLast
  <2>0. k \in Nat /\ l \in Nat /\ k # l
    BY LiveTyped DEF Layout, SoundInv
  <2>1. Slot(w, Root, k) = Slot(v, Root, k)
    BY <1>1, <1>2, <1>3, EntryKind
  <2>2. CASE Slot(w, Root, l) = Slot(v, Root, l)
    BY <2>1, <2>2 DEF Layout, FreeLast
  <2>3. CASE Slot(w, Root, l) # Slot(v, Root, l)
    BY <1>2, <1>3, <2>0, <2>1, <2>3
  <2> QED BY <2>2, <2>3
<1>7. ASSUME NEW user, NEW k \in Index, Named(Slot(v, HomeOf(v), k), user)
      PROVE  Named(Slot(w, HomeOf(v), k), user)
  BY <1>2, <1>3, <1>7, EntryKind DEF Named, IsEntry
<1>8. ASSUME NEW k \in Index, NoRecLen(Slot(w, HomeOf(v), k))
      PROVE  NoRecLen(Slot(v, HomeOf(v), k))
  BY <1>1, <1>2, <1>3, <1>8, EntryKind
<1> QED BY <1>1, <1>4, <1>5, <1>6, <1>7, <1>8, SteadyFrom

\* Bytes without an entry of an inode of the layout.
Clean(v, bytes) ==
    \A k \in 1 .. Len(bytes) : IsEntry(bytes[k]) => bytes[k].ino \notin Guarded(v)

LEMMA WriteSteady ==
    ASSUME NEW v, Layout(v), NEW i \in Live(v) \ Guarded(v),
           NEW bytes, Writable(v, bytes), Clean(v, bytes)
    PROVE  Steady(v, ext2_write_file(v, i, bytes))
<1> DEFINE w == ext2_write_file(v, i, bytes)
           m == Written(bytes)
<1>0. SoundInv(v) /\ Len(bytes) \in Nat
  BY DEF Layout, Writable
<1>1. /\ SoundInv(w) /\ w.next_inode = v.next_inode
      /\ m = 0 => w = v
      /\ m # 0 => \A x \in Live(v), k \in Index :
            Slot(w, x, k) = IF x # i THEN Slot(v, x, k)
                            ELSE IF k < m THEN bytes[k + 1] ELSE Zero
  BY <1>0, WriteFileInv DEF Writable
<1>2. m # 0 => \A x \in Live(v) : x # i => Same(v, w, x)
  BY <1>0, WritePointers
<1>3. \A k \in Index : k < m => k + 1 \in 1 .. Len(bytes)
  <2>1. Index \subseteq Nat /\ m \in Nat /\ m <= Len(bytes)
    BY <1>0, LiveTyped, Ext2Assumption DEF Written, SoundInv
  <2> HIDE DEF m
  <2> QED BY <1>0, <2>1
<1>4. Live(w) = Live(v)
  BY <1>1 DEF Live
<1>5. Guarded(v) \subseteq Live(v) /\ KeptFiles(v) \subseteq Guarded(v) /\ HomeOf(v) \in Guarded(v)
  BY GuardedLive DEF Guarded
<1> HIDE DEF w, m
<1>6. CASE m = 0
  BY <1>1, <1>6, SteadySelf DEF w
<1>7. CASE m # 0
  <2>1. \A x \in Live(v) \ {i}, k \in Index : Slot(w, x, k) = Slot(v, x, k)
    BY <1>1, <1>7
  <2>2. \A x \in Guarded(v), name \in Protected :
            ext2_find_inode(w, x, name) = ext2_find_inode(v, x, name)
    BY <1>0, <1>1, <1>4, <1>5, <2>1, SameFinds
  <2>3. ASSUME NEW x \in Live(w), NEW k \in Index
        PROVE  EntryGuarded(v, x, Slot(w, x, k))
    <3>1. CASE x # i
      BY <1>4, <2>1, <3>1 DEF Layout
    <3>2. CASE x = i /\ k < m
      <4>1. Slot(w, x, k) = bytes[k + 1] /\ k + 1 \in 1 .. Len(bytes)
        BY <1>1, <1>3, <1>7, <3>2
      <4> QED BY <4>1 DEF Clean, EntryGuarded
    <3>3. CASE x = i /\ ~(k < m)
      BY <1>1, <1>7, <3>3, EntryKind DEF EntryGuarded
    <3> QED BY <3>1, <3>2, <3>3
  <2>4. \A x \in KeptFiles(v) : Same(v, w, x)
    BY <1>2, <1>5, <1>7
  <2>5. FreeLast(w, Root)
    <3>1. Root \in Live(v) \ {i}
      BY <1>5 DEF Guarded
    <3> QED BY <2>1, <3>1 DEF Layout, FreeLast
  <2>6. \A k \in Index : Slot(w, HomeOf(v), k) = Slot(v, HomeOf(v), k)
    BY <1>5, <2>1
  <2>7. Steady(v, w)
    BY <1>1, <1>4, <2>2, <2>3, <2>4, <2>5, <2>6, SteadyFrom
  <2> QED BY <2>7 DEF w
<1> QED BY <1>6, <1>7

LEMMA UnlinkSteady ==
    ASSUME NEW v, Layout(v), NEW d \in Live(v),
           NEW name \in Names \ (Protected \cup Users)
    PROVE  Steady(v, ext2_unlink(v, d, name))
<1> DEFINE w == ext2_unlink(v, d, name)
           H == UnlinkHits(v, d, name)
           victim == UnlinkVictim(v, d, name)
           h == Min(H)
<1>0. SoundInv(v)
  BY DEF Layout
<1>1. /\ SoundInv(w) /\ w.next_inode = v.next_inode
      /\ H = {} => w = v
      /\ H # {} =>
            /\ h \in H /\ victim = Slot(v, d, h).ino
            /\ victim \in FirstInode .. v.next_inode - 1
            /\ \A x \in Live(v), k \in Index :
                  Slot(w, x, k) = IF x = victim THEN Zero
                                  ELSE IF x = d /\ k = h THEN [Slot(v, d, k) EXCEPT !.ino = 0]
                                  ELSE Slot(v, x, k)
  BY <1>0, UnlinkInv
<1>2. H # {} => \A x \in Live(v) : x # victim => w.itab[x] = v.itab[x]
  BY <1>0, UnlinkPointers
<1>3. H = {k \in Index : Named(Slot(v, d, k), name)}
  BY HitsAre
<1>4. Live(w) = Live(v)
  BY <1>1 DEF Live
<1>5. Guarded(v) \subseteq Live(v) /\ KeptFiles(v) \subseteq Guarded(v) /\ HomeOf(v) \in Guarded(v)
  BY GuardedLive DEF Guarded
<1> HIDE DEF w, H, victim, h
<1>6. CASE H = {}
  BY <1>1, <1>6, SteadySelf DEF w
<1>7. CASE H # {}
  <2>1. h \in Index /\ IsEntry(Slot(v, d, h)) /\ Slot(v, d, h).name = name
    BY <1>1, <1>3, <1>7 DEF Named, IsEntry
  <2>2. victim \notin Guarded(v) /\ victim \in Live(v)
    <3>1. EntryGuarded(v, d, Slot(v, d, h))
      BY <2>1 DEF Layout
    <3>2. FirstInode .. v.next_inode - 1 \subseteq Live(v)
      BY <1>0, LiveTyped DEF SoundInv
    <3> QED BY <1>1, <1>7, <2>1, <3>1, <3>2 DEF EntryGuarded
  <2>3. \A x \in Live(v), k \in Index :
           \/ Slot(w, x, k) = Slot(v, x, k)
           \/ x = victim /\ Slot(w, x, k) = Zero
           \/ /\ x = d /\ k = h
              /\ Slot(w, x, k) = [Slot(v, d, h) EXCEPT !.ino = 0]
    BY <1>1, <1>7
  <2>4. /\ ~IsEntry([Slot(v, d, h) EXCEPT !.ino = 0])
        /\ ~NoRecLen([Slot(v, d, h) EXCEPT !.ino = 0])
    <3>1. Slot(v, d, h) \in Content
      BY <1>0, SlotTyped DEF SoundInv
    <3>2. Slot(v, d, h) \in [kind : {"dirent"}, ino : {0} \cup Inodes, name : Names,
                             ftype : {"reg", "dir"}]
      BY <2>1, <3>1 DEF Content, IsEntry, Zero
    <3>3. /\ [Slot(v, d, h) EXCEPT !.ino = 0].ino = 0
          /\ [Slot(v, d, h) EXCEPT !.ino = 0].kind = "dirent"
      BY <3>2
    <3> QED BY <3>3 DEF IsEntry, NoRecLen
  <2>5. ASSUME NEW x \in Guarded(v), NEW k \in Index, NEW nm \in Protected \cup Users
        PROVE  /\ Named(Slot(v, x, k), nm) <=> Named(Slot(w, x, k), nm)
               /\ Named(Slot(v, x, k), nm) => Slot(w, x, k) = Slot(v, x, k)
               /\ NoRecLen(Slot(v, x, k)) <=> NoRecLen(Slot(w, x, k))
    <3>1. CASE Slot(w, x, k) = Slot(v, x, k)
      BY <3>1
    <3>2. CASE Slot(w, x, k) # Slot(v, x, k)
      <4>1. x = d /\ k = h /\ Slot(w, x, k) = [Slot(v, d, h) EXCEPT !.ino = 0]
        BY <1>5, <2>2, <2>3, <3>2
      <4>2. ~Named(Slot(v, x, k), nm) /\ ~NoRecLen(Slot(v, x, k))
        BY <2>1, <4>1, EntryKind DEF Named
      <4>3. ~Named(Slot(w, x, k), nm) /\ ~NoRecLen(Slot(w, x, k))
        BY <2>4, <4>1 DEF Named, IsEntry
      <4> QED BY <4>2, <4>3
    <3> QED BY <3>1, <3>2
  <2>6. ASSUME NEW x \in Guarded(v), NEW nm \in Protected
        PROVE  ext2_find_inode(w, x, nm) = ext2_find_inode(v, x, nm)
    <3> DEFINE A == {k \in Index : Named(Slot(v, x, k), nm)}
               B == {k \in Index : Named(Slot(w, x, k), nm)}
    <3>1. /\ A # {} => Min(A) \in A
          /\ ext2_find_inode(v, x, nm) = IF A = {} THEN -1 ELSE Slot(v, x, Min(A)).ino
      BY <1>0, <1>5, FindIs
    <3>2. ext2_find_inode(w, x, nm) = IF B = {} THEN -1 ELSE Slot(w, x, Min(B)).ino
      <4>1. SoundInv(w) /\ x \in Live(w)
        BY <1>1, <1>4, <1>5
      <4> HIDE DEF A
      <4> QED BY <4>1, FindIs
    <3>3. A = B /\ \A k \in A : Slot(w, x, k) = Slot(v, x, k)
      BY <2>5
    <3> HIDE DEF A, B
    <3> QED BY <3>1, <3>2, <3>3
  <2>7. ASSUME NEW x \in Live(w), NEW k \in Index
        PROVE  EntryGuarded(v, x, Slot(w, x, k))
    <3>1. CASE Slot(w, x, k) = Slot(v, x, k)
      BY <1>4, <3>1 DEF Layout
    <3>2. CASE Slot(w, x, k) # Slot(v, x, k)
      BY <1>4, <2>3, <2>4, <3>2, EntryKind DEF EntryGuarded
    <3> QED BY <3>1, <3>2
  <2>8. ASSUME NEW x \in KeptFiles(v) PROVE Same(v, w, x)
    <3>1. x \in Live(v) /\ x # victim
      BY <1>5, <2>2
    <3>2. \A k \in Index : ~IsEntry(Slot(v, x, k))
      BY DEF Layout
    <3>3. x # d
      BY <2>1, <3>2
    <3>4. \A k \in Index : Slot(w, x, k) = Slot(v, x, k)
      BY <2>3, <3>1, <3>3
    <3>5. w.itab[x] = v.itab[x]
      BY <1>2, <1>7, <3>1
    <3> QED BY <3>4, <3>5 DEF Same
  <2>9. FreeLast(w, Root)
    <3>1. Root \in Guarded(v) /\ "etc" \in Protected
      BY DEF Guarded, Protected
    <3> QED BY <2>5, <3>1 DEF Layout, FreeLast
  <2>10. \A k \in Index : NoRecLen(Slot(w, HomeOf(v), k)) => NoRecLen(Slot(v, HomeOf(v), k))
    <3>1. "etc" \in Protected
      BY DEF Protected
    <3> QED BY <1>5, <2>5, <3>1
  <2>11. Steady(v, w)
    <3>1. \A user \in Users, k \in Index :
             Named(Slot(v, HomeOf(v), k), user) => Named(Slot(w, HomeOf(v), k), user)
      BY <1>5, <2>5
    <3> QED BY <1>1, <1>4, <2>6, <2>7, <2>8, <2>9, <2>10, <3>1, SteadyFrom
  <2> QED BY <2>11 DEF w
<1> QED BY <1>6, <1>7

\* The paths that commands are typed with.
LEMMA TypedPaths ==
    ASSUME NEW path \in Paths
    PROVE  /\ path \in PathNames /\ Range(path.comps) \cap FileNames = {}
           /\ Last(path.comps) \notin Protected \cup Users \cup {Blank}
<1>1. path \in PathNames /\ path.comps \in Seq(Comps) /\ path.comps # <<>>
  BY FsAssumption DEF PathNames, Comps
<1>2. /\ Range(path.comps) \cap FileNames = {}
      /\ Last(path.comps) \notin {Blank, "etc", "home"} \cup Users
  BY TypedAssumption
<1>3. Last(path.comps) \in Range(path.comps)
  BY <1>1 DEF Last, Range
<1> QED BY <1>1, <1>2, <1>3 DEF Protected

\* A file that a command makes leaves the layout as it is.
LEMMA CreateSteady ==
    ASSUME NEW v, Layout(v), v.next_inode <= MaxInode, NEW cur \in Live(v) \ KeptFiles(v),
           NEW path \in PathNames, Range(path.comps) \cap FileNames = {},
           Last(path.comps) \notin Protected, HasParent(v, cur, path)
    PROVE  Steady(v, fs_create(v, cur, path)) /\ Steady(v, fs_mkdir(v, cur, path))
<1> DEFINE d == fs_get_parent(v, cur, path)
           name == Last(path.comps)
<1>0. SoundInv(v)
  BY DEF Layout
<1>1. d \in Live(v) \ KeptFiles(v) /\ name \in Names
  BY <1>0, ParentTyped, PathAvoids, GuardedLive
<1> HIDE DEF d, name
<1>2. Steady(v, ext2_create_file(v, d, name))
  <2> DEFINE w == ext2_create_file(v, d, name)
  <2>1. SoundInv(w) /\ Made(v, w, d, name, "reg")
    BY <1>0, <1>1, CreateFileInv
  <2>2. \A x \in Live(v) : x # d => Same(v, w, x)
    BY <1>0, <1>1, CreatePointers
  <2>3. \A x \in KeptFiles(v) : Same(v, w, x)
    BY <1>1, <2>2, GuardedLive
  <2> HIDE DEF w
  <2>4. Steady(v, w)
    BY <1>1, <2>1, <2>3, AddSteady DEF name
  <2> QED BY <2>4 DEF w
<1>3. Steady(v, ext2_mkdir(v, d, name))
  <2> DEFINE w == ext2_mkdir(v, d, name)
  <2>1. SoundInv(w) /\ Made(v, w, d, name, "dir")
    BY <1>0, <1>1, MkdirInv
  <2>2. \A x \in Live(v) : x # d => Same(v, w, x)
    BY <1>0, <1>1, MkdirPointers
  <2>3. \A x \in KeptFiles(v) : Same(v, w, x)
    BY <1>1, <2>2, GuardedLive
  <2> HIDE DEF w
  <2>4. Steady(v, w)
    BY <1>1, <2>1, <2>3, AddSteady DEF name
  <2> QED BY <2>4 DEF w
<1> QED BY <1>2, <1>3 DEF fs_create, fs_mkdir, d, name

LEMMA SaveSteady ==
    ASSUME NEW v, Layout(v), v.next_inode <= MaxInode, NEW cur \in Live(v) \ KeptFiles(v),
           NEW path \in PathNames, Range(path.comps) \cap FileNames = {},
           Last(path.comps) \notin Protected \cup {Blank},
           NEW bytes, Writable(v, bytes), Clean(v, bytes)
    PROVE  Steady(v, fs_write(v, cur, path, bytes).vol)
<1> DEFINE u == MadeFor(v, cur, path)
           i == fs_resolve_inode(u, cur, path)
<1>0. SoundInv(v)
  BY DEF Layout
<1>1. Steady(v, u)
  <2>1. CASE fs_exists(v, cur, path) \/ ~HasParent(v, cur, path)
    BY <2>1, SteadySelf DEF MadeFor
  <2>2. CASE ~(fs_exists(v, cur, path) \/ ~HasParent(v, cur, path))
    BY <2>2, CreateSteady DEF MadeFor
  <2> QED BY <2>1, <2>2
<1>2. Writable(u, bytes) /\ cur \in Live(u)
  BY <1>0, MadeForInv
<1>3. fs_write(v, cur, path, bytes) =
          IF i < 0 THEN [vol |-> u, ok |-> FALSE]
          ELSE [vol |-> ext2_write_file(u, i, bytes), ok |-> TRUE]
  BY WriteIs
<1> HIDE DEF u
<1>4. KeptFiles(u) = KeptFiles(v) /\ Guarded(u) = Guarded(v) /\ Layout(u)
  BY <1>1, SteadyKeeps DEF Steady
<1>5. i \notin Guarded(u) /\ i \in Live(u) \cup {-1}
  BY <1>2, <1>4, PathAvoids
<1>6. Clean(u, bytes)
  BY <1>4 DEF Clean
<1> HIDE DEF i
<1>7. CASE i < 0
  BY <1>1, <1>3, <1>7
<1>8. CASE ~(i < 0)
  <2>1. i \in Live(u) \ Guarded(u)
    BY <1>5, <1>8
  <2>2. Steady(u, ext2_write_file(u, i, bytes))
    BY <1>2, <1>4, <1>6, <2>1, WriteSteady
  <2>3. Steady(v, ext2_write_file(u, i, bytes))
    BY <1>1, <1>4, <2>2, SteadyTwice
  <2> QED BY <1>3, <1>8, <2>3
<1> QED BY <1>7, <1>8

\* What cp makes of a path that is typed leaves the layout as it is.
LEMMA CopySteady ==
    ASSUME FsInv, Layout(vol), cwd_inode \notin KeptFiles(vol), vol.next_inode <= MaxInode,
           NEW p \in Paths, NEW q \in Paths
    PROVE  Steady(vol, Copy(p, q).vol)
<1> DEFINE bytes == fs_read(vol, cwd_inode, p, CopyBlocks)
           i == fs_resolve_inode(vol, cwd_inode, p)
<1>0. SoundInv(vol) /\ cwd_inode \in Live(vol) \ KeptFiles(vol)
  BY DEF Layout, FsInv
<1>1. CASE ~fs_exists(vol, cwd_inode, p)
  BY <1>1, SteadySelf DEF Copy
<1>2. CASE fs_exists(vol, cwd_inode, p)
  <2>1. Copy(p, q).vol = fs_write(vol, cwd_inode, q, bytes).vol /\ i >= 0
    BY <1>2 DEF Copy, fs_exists
  <2>2. i \in Live(vol) \ Guarded(vol)
    BY <1>0, <2>1, TypedPaths, PathAvoids
  <2>3. Writable(vol, bytes)
    BY <1>0, <2>2, FsReadTyped
  <2>4. Clean(vol, bytes)
    <3> DEFINE all == ext2_read_file(vol, i)
               n == Cardinality(Visited(vol.itab[i]))
               m == Len(bytes)
    <3>1. /\ n \in Nat /\ Len(all) = n
          /\ all = [k \in 1 .. n |-> Slot(vol, i, k - 1)]
          /\ \A k \in 1 .. n : k - 1 \in Index
      BY <1>0, <2>2, ReadSlots
    <3>2. /\ m \in Nat /\ m <= n
          /\ \A k \in 1 .. m : IsEntry(bytes[k]) => bytes[k] = all[k]
      BY <1>0, <2>2, <3>1, FsReadIs
    <3> HIDE DEF all, n, m, bytes
    <3> SUFFICES ASSUME NEW k \in 1 .. m, IsEntry(bytes[k])
                 PROVE  bytes[k].ino \notin Guarded(vol)
      BY DEF Clean, m
    <3>3. k \in 1 .. n
      BY <3>1, <3>2
    <3>4. bytes[k] = Slot(vol, i, k - 1) /\ k - 1 \in Index
      BY <3>1, <3>2, <3>3
    <3>5. EntryGuarded(vol, i, Slot(vol, i, k - 1))
      BY <2>2, <3>4 DEF Layout
    <3> QED BY <2>2, <3>4, <3>5 DEF EntryGuarded
  <2> HIDE DEF bytes
  <2> QED BY <1>0, <2>1, <2>3, <2>4, TypedPaths, SaveSteady
<1> QED BY <1>1, <1>2

\* The commands of the shell leave the layout as it is.
LEMMA CommandSteady ==
    ASSUME FsInv, Layout(vol), cwd_inode \notin KeptFiles(vol),
           \/ \E p \in Paths : cmd_touch(p) \/ cmd_mkdir(p) \/ cmd_rm(p) \/ cmd_chmod(p)
           \/ \E p, q \in Paths : cmd_cp(p, q) \/ cmd_mv(p, q)
           \/ \E p \in Paths, text \in Files : kw_save(p, text)
    PROVE  Steady(vol, vol')
<1>0. SoundInv(vol) /\ cwd_inode \in Live(vol) \ KeptFiles(vol)
  BY DEF Layout, FsInv
<1>1. ASSUME NEW p \in Paths, cmd_touch(p) PROVE Steady(vol, vol')
  <2>1. CASE vol' = vol
    BY <2>1, SteadySelf
  <2>2. CASE vol' # vol
    <3>1. /\ HasParent(vol, cwd_inode, p) /\ vol' = fs_create(vol, cwd_inode, p)
          /\ vol.next_inode + 1 - 1 <= MaxInode
      BY <1>1, <2>2 DEF cmd_touch, Room
    <3>2. vol.next_inode <= MaxInode
      BY <1>0, <3>1 DEF SoundInv, VolumeType
    <3> QED BY <1>0, <3>1, <3>2, TypedPaths, CreateSteady
  <2> QED BY <2>1, <2>2
<1>2. ASSUME NEW p \in Paths, cmd_mkdir(p) PROVE Steady(vol, vol')
  <2>1. CASE vol' = vol
    BY <2>1, SteadySelf
  <2>2. CASE vol' # vol
    <3>1. /\ HasParent(vol, cwd_inode, p) /\ vol' = fs_mkdir(vol, cwd_inode, p)
          /\ vol.next_inode + 1 - 1 <= MaxInode
      BY <1>2, <2>2 DEF cmd_mkdir, Room
    <3>2. vol.next_inode <= MaxInode
      BY <1>0, <3>1 DEF SoundInv, VolumeType
    <3> QED BY <1>0, <3>1, <3>2, TypedPaths, CreateSteady
  <2> QED BY <2>1, <2>2
<1>3. ASSUME NEW p \in Paths, cmd_rm(p) PROVE Steady(vol, vol')
  <2>1. CASE vol' = vol
    BY <2>1, SteadySelf
  <2>2. CASE vol' # vol
    <3> DEFINE d == fs_get_parent(vol, cwd_inode, p)
    <3>1. /\ HasParent(vol, cwd_inode, p)
          /\ vol' = ext2_unlink(vol, d, Last(p.comps))
      BY <1>3, <2>2 DEF cmd_rm
    <3>2. d \in Live(vol) /\ Last(p.comps) \in Names \ (Protected \cup Users)
      BY <1>0, <3>1, TypedPaths, ParentTyped
    <3> QED BY <3>1, <3>2, UnlinkSteady
  <2> QED BY <2>1, <2>2
<1>4. ASSUME NEW p \in Paths, NEW q \in Paths, cmd_cp(p, q) PROVE Steady(vol, vol')
  <2>1. vol' = Copy(p, q).vol /\ vol.next_inode + 1 - 1 <= MaxInode
    BY <1>4 DEF cmd_cp, Room
  <2>2. vol.next_inode <= MaxInode
    BY <1>0, <2>1 DEF SoundInv, VolumeType
  <2> QED BY <2>1, <2>2, CopySteady
<1>6. ASSUME NEW p \in Paths, NEW q \in Paths, cmd_mv(p, q) PROVE Steady(vol, vol')
  <2> DEFINE c == Copy(p, q).vol
             d == fs_get_parent(c, cwd_inode, p)
             name == Last(p.comps)
  <2>1. /\ vol' = c \/ (HasParent(c, cwd_inode, p) /\ vol' = ext2_unlink(c, d, name))
        /\ vol.next_inode + 1 - 1 <= MaxInode
    BY <1>6 DEF cmd_mv, Room
  <2>2. vol.next_inode <= MaxInode
    BY <1>0, <2>1 DEF SoundInv, VolumeType
  <2>3. Steady(vol, c)
    BY <2>2, CopySteady
  <2> HIDE DEF c
  <2>4. Layout(c) /\ SoundInv(c) /\ cwd_inode \in Live(c)
    BY <1>0, <2>3 DEF Steady, Layout
  <2>5. ASSUME HasParent(c, cwd_inode, p) PROVE Steady(vol, ext2_unlink(c, d, name))
    <3>1. d \in Live(c) /\ name \in Names \ (Protected \cup Users)
      BY <2>4, <2>5, TypedPaths, ParentTyped
    <3>2. Steady(c, ext2_unlink(c, d, name))
      BY <2>4, <3>1, UnlinkSteady
    <3> QED BY <2>3, <2>4, <3>2, SteadyTwice
  <2> QED BY <2>1, <2>3, <2>5
<1>7. ASSUME NEW p \in Paths, cmd_chmod(p) PROVE Steady(vol, vol')
  BY <1>7, SteadySelf DEF cmd_chmod
<1>5. ASSUME NEW p \in Paths, NEW text \in Files, kw_save(p, text) PROVE Steady(vol, vol')
  <2>1. /\ vol' = fs_write(vol, cwd_inode, p, Text(text)).vol
        /\ vol.next_inode + 1 - 1 <= MaxInode
    BY <1>5 DEF kw_save, Room
  <2>2. vol.next_inode <= MaxInode
    BY <1>0, <2>1 DEF SoundInv, VolumeType
  <2>3. Writable(vol, Text(text)) /\ Clean(vol, Text(text))
    BY TextPlain DEF Plain, Clean
  <2> QED BY <1>0, <2>1, <2>2, <2>3, TypedPaths, SaveSteady
<1> QED BY <1>1, <1>2, <1>3, <1>4, <1>5, <1>6, <1>7

\* The home directory of a new user, found unless /home is full.
LEMMA HomeSteady ==
    ASSUME NEW v, Layout(v), v.next_inode + 1 <= MaxInode, NEW cur, NEW user \in Users
    PROVE  LET h == fs_create_home(v, cur, user)
           IN  /\ Steady(v, h)
               /\ h.next_inode <= v.next_inode + 2
               /\ FreeSlots(h, HomeOf(v)) # {} => ext2_find_inode(h, HomeOf(v), user) # -1
<1> DEFINE home == [abs |-> FALSE, comps |-> <<"home">>]
           w == IF fs_exists(v, cur, home) THEN v ELSE ext2_mkdir(v, Root, "home")
           i == ext2_find_inode(w, Root, "home")
           h == ext2_mkdir(w, i, user)
<1>0. /\ SoundInv(v) /\ v.next_inode \in Nat /\ v.next_inode <= MaxInode /\ MaxInode \in Nat
      /\ Root \in Live(v) \ KeptFiles(v) /\ "home" \in Names
      /\ user \in Names \ FileNames /\ user # "root"
  <2>1. SoundInv(v) /\ Root \in Live(v) \ KeptFiles(v)
    BY GuardedLive DEF Layout
  <2>2. MaxInode \in Nat /\ FirstInode \in Nat
    BY Ext2Assumption
  <2>3. v.next_inode \in Nat
    BY <2>1, <2>2 DEF SoundInv, VolumeType
  <2> QED BY <2>1, <2>2, <2>3, NamesTyped
<1>1. Steady(v, w) /\ w.next_inode \in Nat /\ w.next_inode <= v.next_inode + 1
  <2>1. CASE fs_exists(v, cur, home)
    BY <1>0, <2>1, SteadySelf
  <2>2. CASE ~fs_exists(v, cur, home)
    <3> DEFINE m == ext2_mkdir(v, Root, "home")
    <3>1. SoundInv(m) /\ Made(v, m, Root, "home", "dir")
      BY <1>0, MkdirInv
    <3>2. \A x \in Live(v) : x # Root => Same(v, m, x)
      BY <1>0, MkdirPointers
    <3>3. \A x \in KeptFiles(v) : Same(v, m, x)
      BY <1>0, <3>2, GuardedLive
    <3>4. m.next_inode = v.next_inode + 1
      BY <3>1 DEF Made
    <3> HIDE DEF m
    <3>5. Steady(v, m)
      BY <1>0, <3>1, <3>3, AddSteady
    <3> QED BY <1>0, <2>2, <3>4, <3>5 DEF m
  <2> QED BY <2>1, <2>2
<1> HIDE DEF w
<1>2. Layout(w) /\ SoundInv(w) /\ i = HomeOf(v) /\ HomeOf(w) = HomeOf(v)
  BY <1>1 DEF Steady, Layout, HomeOf
<1>3. i \in Live(w) \ KeptFiles(w) /\ i > 0 /\ ~(i <= 0)
  <2>1. i \in Live(w) \ KeptFiles(w)
    BY <1>2 DEF Layout
  <2>2. i \in Nat /\ i > 0
    BY <1>2, <2>1, GuardedLive
  <2> QED BY <2>1, <2>2
<1>4. fs_create_home(v, cur, user) = h
  BY <1>0, <1>3 DEF fs_create_home, w
<1> HIDE DEF i
<1>5. w.next_inode <= MaxInode
  BY <1>0, <1>1
<1>6. SoundInv(h) /\ Made(w, h, i, user, "dir")
  BY <1>0, <1>2, <1>3, <1>5, MkdirInv
<1>7. \A x \in KeptFiles(w) : Same(w, h, x)
  <2>1. \A x \in Live(w) : x # i => Same(w, h, x)
    BY <1>0, <1>2, <1>3, <1>5, MkdirPointers
  <2> QED BY <1>2, <1>3, <2>1, GuardedLive
<1> HIDE DEF h
<1>8. Steady(w, h)
  BY <1>0, <1>2, <1>3, <1>6, <1>7, AddSteady
<1>9. Steady(v, h)
  BY <1>1, <1>2, <1>8, SteadyTwice
<1>10. h.next_inode <= v.next_inode + 2
  BY <1>0, <1>1, <1>6 DEF Made
<1>11. ASSUME FreeSlots(h, i) # {} PROVE ext2_find_inode(h, i, user) # -1
  <2> DEFINE F == FreeSlots(w, i)
             k == Min(F)
  <2>1. F # {}
    BY <1>2, <1>8, <1>11 DEF Steady
  <2>2. k \in F /\ Slot(h, i, k) = Dirent(w.next_inode, user, "dir")
    <3>1. k \in F
      BY <1>6, <2>1 DEF Made
    <3>2. k \in Index
      BY <3>1 DEF FreeSlots
    <3> QED BY <1>3, <1>6, <2>1, <3>1, <3>2 DEF Made
  <2>3. k \in Index
    BY <2>2 DEF FreeSlots
  <2>4. w.next_inode \in Nat /\ w.next_inode # 0
    BY <1>2, <1>3, <1>6, MadeSlots
  <2> HIDE DEF k, F
  <2>5. Named(Slot(h, i, k), user)
    BY <2>2, <2>4, EntryKind DEF Named
  <2>6. i \in Live(h)
    BY <1>3, <1>8 DEF Steady
  <2> QED BY <1>6, <2>3, <2>5, <2>6, EntryIsFound
<1> QED BY <1>2, <1>4, <1>9, <1>10, <1>11

\* So user_add saves the table with that home directory.
LEMMA AddedUser ==
    ASSUME NEW v, Layout(v), v.next_inode + 1 <= MaxInode, NEW cur, NEW table,
           NEW user \in Users
    PROVE  user_add(v, cur, table, user) =
               users_save(fs_create_home(v, cur, user), Append(table, user))
<1> DEFINE h == fs_create_home(v, cur, user)
<1>1. Steady(v, h)
  BY HomeSteady
<1> HIDE DEF h
<1>2. HomeOf(h) \in Live(h) /\ Layout(h)
  BY <1>1 DEF Steady, Layout
<1>3. ext2_find_inode(h, Root, "home") > 0
  BY <1>2, GuardedLive DEF HomeOf
<1> QED BY <1>3 DEF user_add, h

-----------------------------------------------------------------------------
(* Writing one of the system's own files *)

LEMMA PathOne ==
    ASSUME NEW v, NEW cur, NEW a \in Comps
    PROVE  /\ Rooted(<<a>>) \in PathNames /\ Last(<<a>>) = a
           /\ fs_get_parent(v, cur, Rooted(<<a>>)) = Root
           /\ fs_resolve_inode(v, cur, Rooted(<<a>>)) = Walk(v, Root, a)
<1>1. Rooted(<<a>>) \in PathNames /\ Last(<<a>>) = a
  BY DEF Rooted, PathNames, Comps, Last
<1>2. fs_get_parent(v, cur, Rooted(<<a>>)) = Root
  BY DEF fs_get_parent, Rooted
<1>3. Rooted(<<a>>).comps = <<a>>
  BY DEF Rooted
<1> QED BY <1>1, <1>2, <1>3, ResolveSplits

LEMMA PathTwo ==
    ASSUME NEW v, NEW cur, NEW a \in Comps, NEW b \in Comps
    PROVE  /\ Rooted(<<a, b>>) \in PathNames /\ Last(<<a, b>>) = b
           /\ fs_get_parent(v, cur, Rooted(<<a, b>>)) = Walk(v, Root, a)
           /\ fs_resolve_inode(v, cur, Rooted(<<a, b>>)) = Walk(v, Walk(v, Root, a), b)
<1> DEFINE p == Rooted(<<a, b>>)
<1>1. p \in PathNames /\ Last(<<a, b>>) = b /\ p.comps = <<a, b>> /\ p.abs
  BY DEF Rooted, PathNames, Comps, Last
<1>2. Front(<<a, b>>) = <<a>>
  <2> DEFINE s == <<a, b>>
  <2>1. s \in Seq(Comps) /\ s # <<>> /\ Len(s) = 2 /\ s[1] = a
    OBVIOUS
  <2> HIDE DEF s
  <2>2. Front(s) \in Seq(Comps) /\ Len(Front(s)) = 1
    <3>1. Front(s) \in Seq(Comps) /\ Len(Front(s)) = Len(s) - 1
      BY <2>1, FrontTyped
    <3> QED BY <2>1, <3>1
  <2>3. Front(s)[1] = a
    BY <2>1 DEF Front
  <2>4. Front(s) = <<a>>
    BY <2>2, <2>3
  <2> QED BY <2>4 DEF s
<1>3. fs_get_parent(v, cur, p) = P!Fold(v, Root, <<a>>)
  BY <1>1, <1>2, ParentFolds
<1>4. fs_resolve_inode(v, cur, Rooted(<<a>>)) = P!Fold(v, Root, <<a>>)
  BY ResolveFolds DEF Rooted
<1>5. fs_get_parent(v, cur, p) = Walk(v, Root, a)
  BY <1>3, <1>4, PathOne
<1>6. fs_resolve_inode(v, cur, p) = Walk(v, fs_get_parent(v, cur, p), b)
  BY <1>1, ResolveSplits
<1> QED BY <1>1, <1>5, <1>6

\* Where the paths of the system lead.
LEMMA FilePath ==
    ASSUME NEW v, Layout(v), NEW cur, NEW name \in FileNames
    PROVE  LET path == Rooted(<<"etc", name>>)
           IN  /\ path \in PathNames /\ Last(path.comps) = name
               /\ fs_get_parent(v, cur, path) = EtcOf(v) /\ HasParent(v, cur, path)
               /\ fs_resolve_inode(v, cur, path) = FileOf(v, name)
               /\ fs_exists(v, cur, path) <=> FileOf(v, name) # -1
               /\ fs_resolve_inode(v, cur, Etc) = EtcOf(v) /\ fs_exists(v, cur, Etc)
<1> DEFINE path == Rooted(<<"etc", name>>)
<1>1. /\ "etc" \in Comps /\ name \in Comps /\ name # Blank /\ "etc" # Blank
      /\ path.comps = <<"etc", name>>
  BY NamesTyped DEF Comps, Rooted, Protected
<1>2. EtcOf(v) \in Nat /\ EtcOf(v) > 0 /\ Root >= 0
  BY GuardedLive DEF Layout, Root
<1>3. Walk(v, Root, "etc") = EtcOf(v)
  BY <1>1, <1>2 DEF Walk, EtcOf, Root
<1>4. Walk(v, EtcOf(v), name) = FileOf(v, name)
  BY <1>1, <1>2 DEF Walk, FileOf
<1>5. /\ path \in PathNames /\ Last(path.comps) = name
      /\ fs_get_parent(v, cur, path) = EtcOf(v)
      /\ fs_resolve_inode(v, cur, path) = FileOf(v, name)
  BY <1>1, <1>3, <1>4, PathTwo
<1>6. fs_resolve_inode(v, cur, Etc) = EtcOf(v)
  BY <1>1, <1>3, PathOne DEF Etc
<1>7. HasParent(v, cur, path)
  BY <1>1, <1>2, <1>5 DEF HasParent
<1>8. FileOf(v, name) = -1 \/ FileOf(v, name) >= 0
  BY GuardedLive
<1> HIDE DEF path
<1>9. fs_exists(v, cur, path) <=> FileOf(v, name) # -1
  BY <1>5, <1>8 DEF fs_exists
<1>10. fs_exists(v, cur, Etc)
  BY <1>2, <1>6 DEF fs_exists
<1> QED BY <1>5, <1>6, <1>7, <1>9, <1>10 DEF path

\* An entry is for an inode that was handed out.
LEMMA EntryKnown ==
    ASSUME NEW v, SoundInv(v), NEW x, NEW k, IsEntry(Slot(v, x, k))
    PROVE  Slot(v, x, k).ino \in FirstInode .. v.next_inode - 1
<1> DEFINE b == v.itab[x].block[k]
<1>1. b # 0 /\ Slot(v, x, k) = ReadBlock(v, b)
  BY EntryKind DEF Slot
<1>2. b \in DOMAIN v.data /\ Slot(v, x, k) = v.data[b]
  BY <1>1, EntryKind DEF ReadBlock
<1> HIDE DEF b
<1>3. b \in EntryBlocks(v)
  BY <1>2 DEF EntryBlocks, IsEntry
<1> QED BY <1>2, <1>3 DEF SoundInv, EntriesKnown

\* From v to w nothing changes for the layout but the file called name.
Updates(v, w, name) ==
    /\ Layout(w) /\ Live(v) \subseteq Live(w)
    /\ EtcOf(w) = EtcOf(v) /\ HomeOf(w) = HomeOf(v)
    /\ FileOf(w, name) # -1
    /\ \A nm \in FileNames \ {name} : FileOf(w, nm) = FileOf(v, nm)
    /\ KeptFiles(w) \subseteq KeptFiles(v) \cup {v.next_inode}
    /\ \A x \in KeptFiles(v) \ {FileOf(v, name)} : Same(v, w, x)
    /\ \A user \in Users : ext2_find_inode(v, HomeOf(v), user) # -1 =>
                               ext2_find_inode(w, HomeOf(v), user) # -1
    /\ FreeSlots(w, HomeOf(v)) \subseteq FreeSlots(v, HomeOf(v))
    /\ w.next_inode <= v.next_inode + 1

\* A missing file that is made is found, if /etc has a slot.
LEMMA FileMade ==
    ASSUME NEW v, Layout(v), v.next_inode <= MaxInode, NEW name \in FileNames,
           FileOf(v, name) = -1, FreeSlots(v, EtcOf(v)) # {}
    PROVE  LET w == ext2_create_file(v, EtcOf(v), name)
           IN  /\ Updates(v, w, name)
               /\ FileOf(w, name) = v.next_inode
               /\ FreeSlots(w, EtcOf(v)) =
                      FreeSlots(v, EtcOf(v)) \ {Min(FreeSlots(v, EtcOf(v)))}
<1> DEFINE w == ext2_create_file(v, EtcOf(v), name)
           n == v.next_inode
           d == EtcOf(v)
           F == FreeSlots(v, d)
           m == Min(F)
<1>0. /\ SoundInv(v) /\ d \in Live(v) /\ name \in Names /\ Root \in Live(v)
      /\ HomeOf(v) \in Live(v) /\ d # -1
  BY NamesTyped, GuardedLive DEF Layout
<1>1. SoundInv(w) /\ Made(v, w, d, name, "reg")
  BY <1>0, CreateFileInv
<1>2. \A x \in Live(v) : x # d => Same(v, w, x)
  BY <1>0, CreatePointers
<1>3. d # Root
  BY <1>0, FoundIsNew, NamesTyped DEF EtcOf
<1>4. F = {k \in Index : NoRecLen(Slot(v, d, k))} /\ F # {}
  BY FreeSlotsAre
<1> HIDE DEF w, d, F
<1>5. n \notin Live(v) /\ n \in Nat /\ n # 0
  BY <1>0, <1>1, MadeSlots
<1>6. /\ m \in F /\ m \in Index /\ Live(w) = Live(v) \cup {n} /\ w.next_inode = n + 1
      /\ \A j \in Index : Slot(w, n, j) = Zero
      /\ \A i \in Live(v), j \in Index :
            Slot(w, i, j) = IF i = d /\ j = m THEN Dirent(n, name, "reg") ELSE Slot(v, i, j)
  BY <1>1, <1>4 DEF Made, F
<1> HIDE DEF m, n
<1>7. NoRecLen(Slot(v, d, m)) /\ ~NoRecLen(Slot(w, d, m)) /\ Slot(w, d, m) = Dirent(n, name, "reg")
  BY <1>0, <1>4, <1>5, <1>6, EntryKind
<1>8. \A nm \in Names : ext2_find_inode(w, Root, nm) = ext2_find_inode(v, Root, nm)
  BY <1>0, <1>1, <1>3, <1>6, SameFinds
<1>9. EtcOf(w) = d /\ HomeOf(w) = HomeOf(v)
  BY <1>8, NamesTyped DEF EtcOf, HomeOf, d
<1>10. FileOf(w, name) = n
  <2> DEFINE H == {k \in Index : Named(Slot(w, d, k), name)}
  <2>1. /\ H # {} => Min(H) \in H
        /\ ext2_find_inode(w, d, name) = IF H = {} THEN -1 ELSE Slot(w, d, Min(H)).ino
    <3>1. d \in Live(w)
      BY <1>0, <1>6
    <3> QED BY <1>1, <3>1, FindIs
  <2>2. \A k \in Index : ~Named(Slot(v, d, k), name)
    BY <1>0, EntryIsFound DEF FileOf, d
  <2>3. Named(Slot(w, d, m), name)
    BY <1>5, <1>7, EntryKind DEF Named
  <2>4. H = {m}
    BY <1>0, <1>6, <2>2, <2>3
  <2> HIDE DEF H
  <2>5. ext2_find_inode(w, d, name) = Slot(w, d, m).ino
    BY <2>1, <2>4
  <2> QED BY <1>5, <1>7, <1>9, <2>5, EntryKind DEF FileOf
<1>11. ASSUME NEW nm \in FileNames \ {name} PROVE FileOf(w, nm) = FileOf(v, nm)
  <2> DEFINE H == {k \in Index : Named(Slot(v, d, k), nm)}
             G == {k \in Index : Named(Slot(w, d, k), nm)}
  <2>1. /\ H # {} => Min(H) \in H
        /\ ext2_find_inode(v, d, nm) = IF H = {} THEN -1 ELSE Slot(v, d, Min(H)).ino
    BY <1>0, FindIs
  <2>2. ext2_find_inode(w, d, nm) = IF G = {} THEN -1 ELSE Slot(w, d, Min(G)).ino
    <3>1. d \in Live(w)
      BY <1>0, <1>6
    <3> HIDE DEF H
    <3> QED BY <1>1, <3>1, FindIs
  <2>3. ~Named(Slot(v, d, m), nm) /\ ~Named(Slot(w, d, m), nm)
    BY <1>5, <1>7, EntryKind DEF Named, IsEntry
  <2>4. G = H /\ \A k \in H : Slot(w, d, k) = Slot(v, d, k)
    BY <1>0, <1>6, <2>3
  <2> HIDE DEF G, H
  <2> QED BY <1>9, <2>1, <2>2, <2>4 DEF FileOf, d
<1>12. KeptFiles(w) = KeptFiles(v) \cup {n}
  <2>1. n # -1
    BY <1>5
  <2> QED BY <1>10, <1>11, <2>1 DEF KeptFiles
<1>13. Guarded(w) = Guarded(v) \cup {n}
  BY <1>9, <1>12 DEF Guarded, d
<1>14. Guarded(v) \subseteq Live(v) /\ KeptFiles(v) \subseteq Guarded(v) /\ d \in Guarded(v)
       /\ KeptFiles(v) \cap {Root, d, HomeOf(v)} = {}
  BY GuardedLive DEF Guarded, d, Layout
<1>15. \A x \in Live(v), k \in Index : IsEntry(Slot(v, x, k)) => Slot(v, x, k).ino # n
  <2> SUFFICES ASSUME NEW x \in Live(v), NEW k \in Index, IsEntry(Slot(v, x, k))
               PROVE  Slot(v, x, k).ino # n
    OBVIOUS
  <2>1. Slot(v, x, k).ino \in FirstInode .. v.next_inode - 1
    BY <1>0, EntryKnown
  <2>2. FirstInode .. v.next_inode - 1 \subseteq Live(v)
    BY DEF Live
  <2> QED BY <1>5, <2>1, <2>2
<1>16. ASSUME NEW x \in Live(w), NEW k \in Index PROVE EntryGuarded(w, x, Slot(w, x, k))
  <2>1. CASE x = n
    BY <1>6, <2>1, EntryKind DEF EntryGuarded
  <2>2. CASE x = d /\ k = m
    <3>1. d \in Guarded(w) /\ name \in Protected
      BY <1>13, <1>14 DEF Protected
    <3> QED BY <1>5, <1>7, <2>2, <3>1, EntryKind DEF EntryGuarded
  <2>3. CASE x # n /\ ~(x = d /\ k = m)
    <3>1. x \in Live(v) /\ Slot(w, x, k) = Slot(v, x, k)
      BY <1>6, <2>3
    <3>2. EntryGuarded(v, x, Slot(v, x, k))
      BY <3>1 DEF Layout
    <3>3. IsEntry(Slot(v, x, k)) => Slot(v, x, k).ino # n
      BY <1>15, <3>1
    <3> QED BY <1>12, <1>13, <3>1, <3>2, <3>3 DEF EntryGuarded
  <2> QED BY <2>1, <2>2, <2>3
<1>17. ASSUME NEW x \in KeptFiles(w), NEW k \in Index PROVE ~IsEntry(Slot(w, x, k))
  <2>1. CASE x = n
    BY <1>6, <2>1, EntryKind
  <2>2. CASE x # n
    <3>1. x \in KeptFiles(v) /\ x # d /\ x \in Live(v)
      BY <1>12, <1>14, <2>2
    <3>2. Slot(w, x, k) = Slot(v, x, k)
      BY <1>6, <3>1
    <3> QED BY <3>1, <3>2 DEF Layout
  <2> QED BY <2>1, <2>2
<1>18. FreeLast(w, Root)
  <2>1. \A k \in Index : Slot(w, Root, k) = Slot(v, Root, k)
    BY <1>0, <1>3, <1>6
  <2> QED BY <2>1 DEF Layout, FreeLast
<1>19. \A p, q \in FileNames : FileOf(w, p) = FileOf(w, q) /\ FileOf(w, p) # -1 => p = q
  <2>1. \A p \in FileNames \ {name} : FileOf(w, p) # n
    <3>1. n # -1
      BY <1>5
    <3> QED BY <1>5, <1>11, <3>1, GuardedLive
  <2> QED BY <1>10, <1>11, <2>1 DEF Layout
<1>20. Layout(w)
  <2>1. EtcOf(w) \in Live(w) /\ HomeOf(w) \in Live(w)
    BY <1>0, <1>6, <1>9
  <2>2. KeptFiles(w) \cap {Root, EtcOf(w), HomeOf(w)} = {}
    BY <1>0, <1>5, <1>9, <1>12, <1>14
  <2> QED BY <1>1, <1>16, <1>17, <1>18, <1>19, <2>1, <2>2 DEF Layout
<1>21. \A user \in Users : ext2_find_inode(v, HomeOf(v), user) # -1 =>
                               ext2_find_inode(w, HomeOf(v), user) # -1
  <2> SUFFICES ASSUME NEW user \in Users, ext2_find_inode(v, HomeOf(v), user) # -1
               PROVE  ext2_find_inode(w, HomeOf(v), user) # -1
    OBVIOUS
  <2>1. PICK k \in Index : /\ IsEntry(Slot(v, HomeOf(v), k))
                           /\ Slot(v, HomeOf(v), k).name = user
    BY <1>0, FoundIsEntry
  <2>2. ~NoRecLen(Slot(v, HomeOf(v), k))
    BY <2>1, EntryKind
  <2>3. Slot(w, HomeOf(v), k) = Slot(v, HomeOf(v), k)
    BY <1>0, <1>6, <1>7, <2>2
  <2>4. Named(Slot(w, HomeOf(v), k), user)
    BY <2>1, <2>3 DEF Named, IsEntry
  <2>5. HomeOf(v) \in Live(w)
    BY <1>0, <1>6
  <2> QED BY <1>1, <2>4, <2>5, EntryIsFound
<1>22. \A x \in Live(v) : FreeSlots(w, x) = IF x = d THEN F \ {m} ELSE FreeSlots(v, x)
  <2> SUFFICES ASSUME NEW x \in Live(v)
               PROVE  FreeSlots(w, x) = IF x = d THEN F \ {m} ELSE FreeSlots(v, x)
    OBVIOUS
  <2>1. /\ FreeSlots(w, x) = {k \in Index : NoRecLen(Slot(w, x, k))}
        /\ FreeSlots(v, x) = {k \in Index : NoRecLen(Slot(v, x, k))}
    BY FreeSlotsAre
  <2>2. CASE x # d
    BY <1>6, <2>1, <2>2
  <2>3. CASE x = d
    <3>1. \A k \in Index : k # m => Slot(w, d, k) = Slot(v, d, k)
      BY <1>0, <1>6
    <3> QED BY <1>4, <1>7, <2>1, <2>3, <3>1
  <2> QED BY <2>2, <2>3
<1>23. FreeSlots(w, HomeOf(v)) \subseteq FreeSlots(v, HomeOf(v))
  BY <1>0, <1>22 DEF F
<1>24. \A x \in KeptFiles(v) \ {FileOf(v, name)} : Same(v, w, x)
  BY <1>2, <1>14
<1>25. FileOf(w, name) # -1 /\ w.next_inode <= n + 1
  BY <1>5, <1>6, <1>10
<1>26. Updates(v, w, name)
  BY <1>6, <1>9, <1>11, <1>12, <1>20, <1>21, <1>23, <1>24, <1>25 DEF Updates, d, n
<1> QED BY <1>0, <1>10, <1>22, <1>26 DEF d, F, m, n, w

\* One block of text is written whole.
LEMMA OneBlock ==
    ASSUME NEW v, NEW text \in Payloads
    PROVE  /\ Len(Text(<<text>>)) = 1 /\ Written(Text(<<text>>)) = 1
           /\ Text(<<text>>) = [k \in 1 .. 1 |-> Data(text)]
           /\ Writable(v, Text(<<text>>)) /\ ~IsEntry(Data(text))
<1>1. Text(<<text>>) = [k \in 1 .. 1 |-> Data(text)]
  BY DEF Text
<1>2. Len(Text(<<text>>)) = 1
  BY <1>1
<1>3. NDirect \in Nat \ {0}
  BY Ext2Assumption
<1>4. Written(Text(<<text>>)) = 1
  <2> DEFINE b == Text(<<text>>)
  <2>1. Len(b) = 1
    BY <1>2
  <2> HIDE DEF b
  <2>2. Written(b) = 1
    BY <1>3, <2>1 DEF Written
  <2> QED BY <2>2 DEF b
<1>5. Data(text) \in Content /\ Data(text).kind = "data" /\ ~IsEntry(Data(text))
  BY DEF Data, Content, IsEntry
<1>6. Writable(v, Text(<<text>>))
  BY <1>1, <1>2, <1>5 DEF Writable
<1> QED BY <1>1, <1>2, <1>4, <1>5, <1>6

\* A file that is there is written in its place.
LEMMA FileWritten ==
    ASSUME NEW v, Layout(v), NEW name \in FileNames, FileOf(v, name) # -1,
           NEW text \in Payloads
    PROVE  LET w == ext2_write_file(v, FileOf(v, name), Text(<<text>>))
           IN  /\ Updates(v, w, name) /\ w.next_inode = v.next_inode
               /\ FileOf(w, name) = FileOf(v, name)
               /\ KeptFiles(w) = KeptFiles(v)
               /\ FreeSlots(w, EtcOf(v)) = FreeSlots(v, EtcOf(v))
               /\ ext2_read_file(w, FileOf(w, name)) = Text(<<text>>)
<1> DEFINE i == FileOf(v, name)
           bytes == Text(<<text>>)
           w == ext2_write_file(v, i, bytes)
<1>0. /\ SoundInv(v) /\ i \in KeptFiles(v) /\ i \in Live(v)
      /\ EtcOf(v) \in Live(v) /\ HomeOf(v) \in Live(v) /\ Root \in Live(v)
      /\ i \notin {Root, EtcOf(v), HomeOf(v)}
  BY GuardedLive DEF Layout, KeptFiles
<1>1. /\ Len(bytes) = 1 /\ Written(bytes) = 1 /\ Writable(v, bytes)
      /\ bytes = [k \in 1 .. 1 |-> Data(text)] /\ ~IsEntry(Data(text))
  BY OneBlock
<1> HIDE DEF i, bytes
<1>2. /\ SoundInv(w) /\ w.next_inode = v.next_inode
      /\ \A x \in Live(v), k \in Index :
            Slot(w, x, k) = IF x # i THEN Slot(v, x, k)
                            ELSE IF k < 1 THEN bytes[k + 1] ELSE Zero
  BY <1>0, <1>1, WriteFileInv DEF Writable
<1>3. Live(w) = Live(v) /\ \A x \in Live(v) : x # i => Same(v, w, x)
  BY <1>0, <1>1, WritePointers
<1>4. ext2_read_file(w, i) = bytes
  <2>1. ext2_read_file(w, i) = [k \in 1 .. Written(bytes) |-> bytes[k]]
    BY <1>0, <1>1, WrittenReads
  <2> QED BY <1>1, <2>1
<1> HIDE DEF w
<1>5. \A x \in Live(v) \ {i}, k \in Index : Slot(w, x, k) = Slot(v, x, k)
  BY <1>2
<1>6. \A x \in Live(v) \ {i} : \A nm : ext2_find_inode(w, x, nm) = ext2_find_inode(v, x, nm)
  BY <1>0, <1>2, <1>3, <1>5, SameFinds
<1>7. EtcOf(w) = EtcOf(v) /\ HomeOf(w) = HomeOf(v)
  BY <1>0, <1>6 DEF EtcOf, HomeOf
<1>8. \A nm \in FileNames : FileOf(w, nm) = FileOf(v, nm)
  BY <1>0, <1>6, <1>7 DEF FileOf
<1>9. KeptFiles(w) = KeptFiles(v)
  BY <1>8 DEF KeptFiles
<1>10. Guarded(w) = Guarded(v)
  BY <1>7, <1>9 DEF Guarded
<1>11. \A k \in Index : ~IsEntry(Slot(w, i, k))
  <2> SUFFICES ASSUME NEW k \in Index PROVE ~IsEntry(Slot(w, i, k))
    OBVIOUS
  <2>1. k \in Nat
    BY <1>0, LiveTyped DEF SoundInv
  <2>2. CASE k = 0
    BY <1>0, <1>1, <1>2, <2>2
  <2>3. CASE k # 0
    BY <1>0, <1>2, <2>1, <2>3, EntryKind
  <2> QED BY <2>2, <2>3
<1>12. ASSUME NEW x \in Live(w), NEW k \in Index PROVE EntryGuarded(w, x, Slot(w, x, k))
  <2>1. CASE x = i
    BY <1>11, <2>1 DEF EntryGuarded
  <2>2. CASE x # i
    <3>1. x \in Live(v) /\ Slot(w, x, k) = Slot(v, x, k)
      BY <1>3, <1>5, <2>2
    <3>2. EntryGuarded(v, x, Slot(v, x, k))
      BY <3>1 DEF Layout
    <3> QED BY <1>9, <1>10, <3>1, <3>2 DEF EntryGuarded
  <2> QED BY <2>1, <2>2
<1>13. ASSUME NEW x \in KeptFiles(w), NEW k \in Index PROVE ~IsEntry(Slot(w, x, k))
  <2>1. CASE x = i
    BY <1>11, <2>1
  <2>2. CASE x # i
    <3>1. x \in KeptFiles(v) /\ x \in Live(v)
      BY <1>9, GuardedLive
    <3>2. Slot(w, x, k) = Slot(v, x, k)
      BY <1>5, <2>2, <3>1
    <3> QED BY <3>1, <3>2 DEF Layout
  <2> QED BY <2>1, <2>2
<1>14. FreeLast(w, Root)
  BY <1>0, <1>5 DEF Layout, FreeLast
<1>15. Layout(w)
  <2>1. \A p, q \in FileNames : FileOf(w, p) = FileOf(w, q) /\ FileOf(w, p) # -1 => p = q
    BY <1>8 DEF Layout
  <2>2. KeptFiles(w) \cap {Root, EtcOf(w), HomeOf(w)} = {}
    BY <1>7, <1>9 DEF Layout
  <2> QED BY <1>0, <1>2, <1>3, <1>7, <1>12, <1>13, <1>14, <2>1, <2>2 DEF Layout
<1>16. \A x \in Live(v) \ {i} : FreeSlots(w, x) = FreeSlots(v, x)
  BY <1>5, FreeSlotsAre
<1>17. \A x \in KeptFiles(v) \ {i} : Same(v, w, x)
  BY <1>3, GuardedLive
<1>18. \A user \in Users : ext2_find_inode(v, HomeOf(v), user) # -1 =>
                               ext2_find_inode(w, HomeOf(v), user) # -1
  BY <1>0, <1>6
<1>19. FileOf(w, name) = i /\ i # -1
  BY <1>8 DEF i
<1>20. w.next_inode <= v.next_inode + 1
  <2>1. v.next_inode \in Nat
    BY <1>0, Ext2Assumption DEF SoundInv, VolumeType
  <2> QED BY <1>2, <2>1
<1>21. Updates(v, w, name)
  <2>1. FreeSlots(w, HomeOf(v)) \subseteq FreeSlots(v, HomeOf(v))
    BY <1>0, <1>16
  <2> QED BY <1>3, <1>7, <1>8, <1>9, <1>15, <1>17, <1>18, <1>19, <1>20, <2>1 DEF Updates, i
<1>22. FreeSlots(w, EtcOf(v)) = FreeSlots(v, EtcOf(v))
  BY <1>0, <1>16
<1> QED BY <1>2, <1>4, <1>9, <1>19, <1>21, <1>22 DEF i, bytes, w

\* What fs_write of one of these files does.
LEMMA PutFile ==
    ASSUME NEW v, Layout(v), NEW name \in FileNames, NEW text \in Payloads,
           FileOf(v, name) = -1 => v.next_inode <= MaxInode /\ FreeSlots(v, EtcOf(v)) # {}
    PROVE  LET w == Put(v, Rooted(<<"etc", name>>), text)
           IN  /\ Updates(v, w, name)
               /\ ext2_read_file(w, FileOf(w, name)) = Text(<<text>>)
               /\ FileOf(v, name) # -1 => w.next_inode = v.next_inode
               /\ FreeSlots(w, EtcOf(v)) =
                      IF FileOf(v, name) # -1 THEN FreeSlots(v, EtcOf(v))
                      ELSE FreeSlots(v, EtcOf(v)) \ {Min(FreeSlots(v, EtcOf(v)))}
<1> DEFINE path == Rooted(<<"etc", name>>)
           u == MadeFor(v, Root, path)
           bytes == Text(<<text>>)
           w == ext2_write_file(u, FileOf(u, name), bytes)
           i == fs_resolve_inode(u, Root, path)
<1>1. u = IF FileOf(v, name) # -1 THEN v ELSE ext2_create_file(v, EtcOf(v), name)
  BY FilePath DEF MadeFor, fs_create
<1>2. Put(v, path, text) = (IF i < 0 THEN [vol |-> u, ok |-> FALSE]
                            ELSE [vol |-> ext2_write_file(u, i, bytes), ok |-> TRUE]).vol
  BY WriteIs DEF Put
<1> HIDE DEF u
<1>3. /\ Layout(u) /\ FileOf(u, name) # -1
      /\ FileOf(v, name) = -1 => Updates(v, u, name)
      /\ FreeSlots(u, EtcOf(v)) =
             IF FileOf(v, name) # -1 THEN FreeSlots(v, EtcOf(v))
             ELSE FreeSlots(v, EtcOf(v)) \ {Min(FreeSlots(v, EtcOf(v)))}
  <2>1. CASE FileOf(v, name) # -1
    BY <1>1, <2>1
  <2>2. CASE FileOf(v, name) = -1
    <3> DEFINE c == ext2_create_file(v, EtcOf(v), name)
    <3>1. /\ Updates(v, c, name)
          /\ FreeSlots(c, EtcOf(v)) =
                 FreeSlots(v, EtcOf(v)) \ {Min(FreeSlots(v, EtcOf(v)))}
      BY <2>2, FileMade
    <3>2. u = c
      BY <1>1, <2>2
    <3> HIDE DEF c
    <3> QED BY <2>2, <3>1, <3>2 DEF Updates
  <2> QED BY <2>1, <2>2
<1>4. i = FileOf(u, name) /\ ~(i < 0)
  <2>1. i = FileOf(u, name)
    BY <1>3, FilePath
  <2>2. i \in Live(u)
    BY <1>3, <2>1, GuardedLive
  <2>3. i \in Nat
    BY <1>3, <2>2, GuardedLive
  <2> QED BY <2>1, <2>3
<1>5. Put(v, path, text) = w
  BY <1>2, <1>4
<1>6. /\ Updates(u, w, name) /\ w.next_inode = u.next_inode
      /\ KeptFiles(w) = KeptFiles(u) /\ FileOf(w, name) = FileOf(u, name)
      /\ FreeSlots(w, EtcOf(u)) = FreeSlots(u, EtcOf(u))
      /\ ext2_read_file(w, FileOf(w, name)) = bytes
  BY <1>3, FileWritten
<1> HIDE DEF w, bytes, i
<1>7. CASE FileOf(v, name) # -1
  <2>1. u = v
    BY <1>1, <1>7
  <2> QED BY <1>5, <1>6, <1>7, <2>1 DEF bytes
<1>8. CASE FileOf(v, name) = -1
  <2>1. Updates(v, u, name)
    BY <1>3, <1>8
  <2>2. \A x \in KeptFiles(v) \ {FileOf(v, name)} : Same(v, w, x)
    <3> SUFFICES ASSUME NEW x \in KeptFiles(v) PROVE Same(v, w, x)
      OBVIOUS
    <3>1. PICK nm \in FileNames : x = FileOf(v, nm) /\ x # -1
      BY DEF KeptFiles
    <3>2. nm # name
      BY <1>8, <3>1
    <3>3. FileOf(u, nm) = x /\ FileOf(u, nm) # FileOf(u, name)
      BY <1>3, <2>1, <3>1, <3>2 DEF Updates, Layout
    <3>4. Same(v, u, x)
      BY <1>8, <2>1, <3>1 DEF Updates
    <3>5. x \in KeptFiles(u) \ {FileOf(u, name)}
      BY <3>1, <3>3 DEF KeptFiles
    <3>6. Same(u, w, x)
      BY <1>6, <3>5 DEF Updates
    <3> QED BY <3>4, <3>6 DEF Same
  <2>3. EtcOf(u) = EtcOf(v) /\ HomeOf(u) = HomeOf(v)
    BY <2>1 DEF Updates
  <2>4. Updates(v, w, name)
    BY <1>6, <2>1, <2>2, <2>3 DEF Updates
  <2> QED BY <1>3, <1>5, <1>6, <1>8, <2>3, <2>4 DEF bytes
<1> QED BY <1>7, <1>8

\* A file that reads a text with ext2_read_file reads it with fs_read.
LEMMA FileReads ==
    ASSUME NEW v, Layout(v), NEW name \in FileNames, FileOf(v, name) # -1,
           NEW text \in Payloads,
           ext2_read_file(v, FileOf(v, name)) = Text(<<text>>)
    PROVE  /\ fs_exists(v, Root, Rooted(<<"etc", name>>))
           /\ fs_read(v, Root, Rooted(<<"etc", name>>), CopyBlocks) = Text(<<text>>)
<1> DEFINE path == Rooted(<<"etc", name>>)
           bytes == Text(<<text>>)
           i == fs_resolve_inode(v, Root, path)
           r == fs_read(v, Root, path, CopyBlocks)
           m == IF Len(bytes) < CopyBlocks THEN Len(bytes) ELSE CopyBlocks
<1>1. fs_exists(v, Root, path) /\ i = FileOf(v, name)
  BY FilePath
<1>2. i \in Live(v) /\ SoundInv(v)
  BY <1>1, GuardedLive DEF Layout
<1>3. ext2_read_file(v, i) = bytes
  BY <1>1
<1>4. r = [k \in 1 .. m |-> IF k = CopyBlocks THEN Clipped(bytes[k]) ELSE bytes[k]]
  BY <1>2, <1>3, FsReadIs
<1>5. Len(bytes) = 1 /\ bytes = [k \in 1 .. 1 |-> Data(text)]
  BY OneBlock
<1>6. CopyBlocks \in Nat /\ CopyBlocks > 1
  BY FsAssumption, BootAssumption
<1> HIDE DEF bytes, r
<1>7. m = 1
  BY <1>5, <1>6
<1> HIDE DEF m
<1>9. \A k \in 1 .. m : k # CopyBlocks
  BY <1>6, <1>7
<1>8. r = bytes
  BY <1>4, <1>5, <1>7, <1>9
<1> QED BY <1>1, <1>8 DEF bytes, r

-----------------------------------------------------------------------------
(* The standard directories *)

LEMMA OneParent ==
    ASSUME NEW v, SoundInv(v), EntriesUnique(v), NEW x \in Live(v), NEW y \in Live(v),
           NEW j \in Index, NEW k \in Index,
           IsEntry(Slot(v, x, j)), IsEntry(Slot(v, y, k)),
           Slot(v, x, j).ino = Slot(v, y, k).ino
    PROVE  x = y /\ j = k
<1> DEFINE b == v.itab[x].block[j]
           c == v.itab[y].block[k]
<1>1. /\ b # 0 /\ Slot(v, x, j) = ReadBlock(v, b)
      /\ c # 0 /\ Slot(v, y, k) = ReadBlock(v, c)
  BY EntryKind DEF Slot
<1> HIDE DEF b, c
<1>2. /\ b \in DOMAIN v.data /\ Slot(v, x, j) = v.data[b]
      /\ c \in DOMAIN v.data /\ Slot(v, y, k) = v.data[c]
  BY <1>1, EntryKind DEF ReadBlock
<1>3. b \in EntryBlocks(v) /\ c \in EntryBlocks(v) /\ v.data[b].ino = v.data[c].ino
  BY <1>2 DEF EntryBlocks, IsEntry
<1>4. b = c
  BY <1>3 DEF EntriesUnique
<1> QED BY <1>1, <1>4 DEF SoundInv, PointersDisjoint, b, c

\* A directory whose entries have names of a finite set, none twice, has a slot for
\* each name that is left.
LEMMA SlotsLeft ==
    ASSUME NEW v, SoundInv(v), NamesOnce(v), NEW x \in Live(v),
           \A k \in Index : Slot(v, x, k) = Zero \/ IsEntry(Slot(v, x, k)),
           NEW H, IsFiniteSet(H),
           \A k \in Index : IsEntry(Slot(v, x, k)) => Slot(v, x, k).name \in H
    PROVE  /\ IsFiniteSet(FreeSlots(v, x))
           /\ Cardinality(FreeSlots(v, x)) \in Nat /\ Cardinality(H) \in Nat
           /\ Cardinality(FreeSlots(v, x)) >= NDirect - Cardinality(H)
<1> DEFINE U == {k \in Index : IsEntry(Slot(v, x, k))}
           f == [k \in U |-> Slot(v, x, k).name]
           F == FreeSlots(v, x)
<1>1. NDirect \in Nat
  BY Ext2Assumption
<1>2. IsFiniteSet(Index) /\ Cardinality(Index) = NDirect
  <2>1. 0 \in Int /\ NDirect - 1 \in Int
    BY <1>1
  <2>2. /\ IsFiniteSet(0 .. NDirect - 1)
        /\ Cardinality(0 .. NDirect - 1) = IF 0 > NDirect - 1 THEN 0 ELSE NDirect - 1 - 0 + 1
    BY ONLY <2>1, FS_Interval
  <2> QED BY <1>1, <2>2 DEF Index
<1>3. F = Index \ U
  BY FreeSlotsAre, EntryKind
<1>4. f \in Injection(U, H)
  <2>1. f \in [U -> H]
    OBVIOUS
  <2>2. \A k, l \in U : f[k] = f[l] => k = l
    <3> SUFFICES ASSUME NEW k \in U, NEW l \in U, f[k] = f[l] PROVE k = l
      OBVIOUS
    <3>1. Slot(v, x, k) \in Content /\ IsEntry(Slot(v, x, k))
      BY SlotTyped DEF SoundInv
    <3>2. Slot(v, x, k).name \in Names
      BY <3>1 DEF Content, Zero, IsEntry
    <3>3. Named(Slot(v, x, k), Slot(v, x, k).name) /\ Named(Slot(v, x, l), Slot(v, x, k).name)
      BY DEF Named, IsEntry
    <3> QED BY <3>2, <3>3 DEF NamesOnce
  <2> QED BY <2>1, <2>2 DEF Injection, IsInjective
<1> HIDE DEF f, U, F
<1>5. Cardinality(U) <= Cardinality(H)
  BY <1>4, FS_Injection
<1>6. U \subseteq Index /\ Index \cap U = U
  BY DEF U
<1>7. IsFiniteSet(U) /\ Cardinality(U) \in Nat /\ Cardinality(H) \in Nat
  BY <1>2, <1>6, FS_Subset, FS_CardinalityType
<1>8. IsFiniteSet(F) /\ Cardinality(F) = NDirect - Cardinality(U)
  BY <1>2, <1>3, <1>6, FS_Difference
<1>9. Cardinality(F) \in Nat
  BY <1>8, FS_CardinalityType
<1> QED BY <1>1, <1>5, <1>7, <1>8, <1>9 DEF F

LEMMA StdPath ==
    ASSUME NEW path \in Range(StdDirs)
    PROVE  /\ path \in PathNames /\ path.comps \in Seq(Comps) /\ path.comps # <<>>
           /\ Len(path.comps) \in Nat /\ Len(path.comps) > 0
           /\ \A j \in 1 .. Len(path.comps) : path.comps[j] \in Names \ FileNames
           /\ \A j \in 1 .. Len(path.comps) : path.comps[j] # Blank
           /\ path.comps[1] # Blank
<1> DEFINE s == path.comps
<1>1. PICK j \in DOMAIN StdDirs : path = StdDirs[j]
  BY DEF Range
<1>2. path \in PathNames
  BY <1>1, FsAssumption
<1>3. s \in Seq(Comps) /\ s # <<>>
  BY <1>2 DEF PathNames, Comps
<1>4. Range(s) \cap FileNames = {} /\ Blank \notin Range(s)
  BY BootAssumption, LayoutAssumption
<1> HIDE DEF s
<1>5. /\ Len(s) \in Nat /\ Len(s) > 0
      /\ \A i \in 1 .. Len(s) : s[i] \in Comps /\ s[i] \in Range(s)
  BY <1>3 DEF Range
<1>6. \A i \in 1 .. Len(s) : s[i] \in Names \ FileNames /\ s[i] # Blank
  BY <1>4, <1>5 DEF Comps
<1>7. 1 \in 1 .. Len(s)
  BY <1>5
<1> QED BY <1>2, <1>3, <1>5, <1>6, <1>7 DEF s

\* The directories that a standard directory is made in.
LEMMA StdParent ==
    ASSUME NEW v, SoundInv(v), NEW path \in Range(StdDirs), NEW k \in 1 .. Len(path.comps)
    PROVE  LET partial == Rooted(SubSeq(path.comps, 1, k))
               d == fs_get_parent(v, Root, partial)
           IN  /\ partial \in PathNames /\ Last(partial.comps) = path.comps[k]
               /\ path.comps[k] \in Names \ FileNames
               /\ Reached(v, d)
               /\ k = 1 => d = Root
               /\ k > 1 => /\ d # Root
                           /\ d \in Live(v) =>
                                 \E e \in Live(v) :
                                    /\ e = fs_get_parent(v, Root, Rooted(SubSeq(path.comps, 1, k - 1)))
                                    /\ d = ext2_find_inode(v, e, path.comps[k - 1])
<1> DEFINE s == path.comps
<1>1. s \in Seq(Comps) /\ s # <<>> /\ Len(s) \in Nat
  BY StdPath
<1>3. \A j \in 1 .. Len(s) : s[j] \in Names \ FileNames /\ s[j] # Blank
  BY StdPath
<1> HIDE DEF s
<1>4. ASSUME NEW j \in 1 .. Len(s)
      PROVE  /\ Rooted(SubSeq(s, 1, j)) \in PathNames /\ Rooted(SubSeq(s, 1, j)).abs
             /\ Rooted(SubSeq(s, 1, j)).comps = SubSeq(s, 1, j)
             /\ Len(SubSeq(s, 1, j)) = j /\ Last(SubSeq(s, 1, j)) = s[j]
  <2>1. /\ SubSeq(s, 1, j) \in Seq(Comps) /\ Len(SubSeq(s, 1, j)) = j
        /\ SubSeq(s, 1, j)[j] = s[j]
    BY <1>1
  <2>2. SubSeq(s, 1, j) # <<>>
    BY <2>1
  <2> QED BY <2>1, <2>2 DEF Rooted, PathNames, Comps, Last
<1> DEFINE partial == Rooted(SubSeq(s, 1, k))
           d == fs_get_parent(v, Root, partial)
<1>5. k \in 1 .. Len(s) /\ k \in Nat
  BY DEF s
<1>6. /\ partial \in PathNames /\ Last(partial.comps) = s[k] /\ s[k] \in Names \ FileNames
      /\ partial.comps = SubSeq(s, 1, k) /\ Len(partial.comps) = k /\ partial.abs
  BY <1>3, <1>4, <1>5
<1>7. Root \in Live(v)
  BY LivePositive DEF SoundInv
<1>8. Reached(v, d)
  BY <1>6, <1>7, ParentTyped
<1>9. k = 1 => d = Root
  BY <1>6 DEF fs_get_parent
<1> DEFINE before == Rooted(SubSeq(s, 1, k - 1))
           e == fs_get_parent(v, Root, before)
<1>10. ASSUME k > 1
       PROVE  d # Root /\ (d \in Live(v) => e \in Live(v) /\ d = ext2_find_inode(v, e, s[k - 1]))
  <2>1. k - 1 \in 1 .. Len(s)
    BY <1>1, <1>5, <1>10
  <2>2. /\ before \in PathNames /\ Last(before.comps) = s[k - 1] /\ before.abs
        /\ before.comps = SubSeq(s, 1, k - 1)
    BY <1>4, <2>1
  <2>3. d = fs_resolve_inode(v, Root, before)
    <3>1. Front(partial.comps) = before.comps
      <4> DEFINE p == SubSeq(s, 1, k)
      <4>1. p \in Seq(Comps) /\ Len(p) = k /\ \A i \in 1 .. k : p[i] = s[i]
        BY <1>1, <1>5
      <4>2. SubSeq(p, 1, k - 1) = SubSeq(s, 1, k - 1)
        BY <1>1, <1>5, <1>10, <4>1
      <4> HIDE DEF p
      <4>3. Front(p) = SubSeq(s, 1, k - 1)
        BY <4>1, <4>2 DEF Front
      <4> QED BY <1>6, <2>2, <4>3 DEF p
    <3>2. d = P!Fold(v, Root, Front(partial.comps))
      BY <1>6, ParentFolds
    <3>3. fs_resolve_inode(v, Root, before) = P!Fold(v, Root, before.comps)
      BY <2>2, ResolveFolds
    <3> QED BY <3>1, <3>2, <3>3
  <2>4. Reached(v, e)
    BY <1>7, <2>2, ParentTyped
  <2> HIDE DEF d, e, before
  <2>5. d = Walk(v, e, s[k - 1])
    BY <2>2, <2>3, ResolveSplits DEF e
  <2>6. s[k - 1] \in Names /\ s[k - 1] # Blank
    BY <1>3, <2>1
  <2>7. CASE e = -1
    <3>1. d = -1
      BY <2>5, <2>7 DEF Walk
    <3>2. -1 \notin Live(v)
      BY LivePositive DEF SoundInv
    <3> QED BY <1>7, <3>1, <3>2
  <2>8. CASE e \in Live(v)
    <3>1. d = ext2_find_inode(v, e, s[k - 1])
      <4>1. e \in Nat /\ e > 0
        BY <2>8, LivePositive DEF SoundInv
      <4> QED BY <2>5, <2>6, <4>1 DEF Walk
    <3>2. d # Root
      <4>1. -1 # Root
        BY DEF Root
      <4> QED BY <2>6, <2>8, <3>1, <4>1, FoundIsNew
    <3> QED BY <2>8, <3>1, <3>2
  <2> QED BY <2>4, <2>7, <2>8 DEF Reached
<1> QED BY <1>6, <1>8, <1>9, <1>10 DEF s

\* A volume of directories only: their first components are in H, what is in /etc is
\* in EtcDirs, and no name is one of a file.
Young(v, H) ==
    /\ SoundInv(v) /\ TreeShaped(v) /\ NamesOnce(v)
    /\ FreeLast(v, Root)
    /\ \A x \in Live(v), k \in Index :
          /\ Slot(v, x, k) = Zero \/ IsEntry(Slot(v, x, k))
          /\ IsEntry(Slot(v, x, k)) => Slot(v, x, k).name \notin FileNames
          /\ x = Root /\ IsEntry(Slot(v, x, k)) => Slot(v, x, k).name \in H
          /\ \A j \in Index : /\ Named(Slot(v, Root, j), "etc") /\ Slot(v, Root, j).ino = x
                              /\ IsEntry(Slot(v, x, k))
                              => Slot(v, x, k).name \in EtcDirs

\* What the root directory has stays.
RootKeeps(v, w) ==
    \A name \in Names : ext2_find_inode(v, Root, name) # -1 =>
                            ext2_find_inode(w, Root, name) # -1

\* One directory on the way to a standard directory, which is found in the root if
\* there are slots for all.
LEMMA DirYoung ==
    ASSUME NEW path \in Range(StdDirs), NEW k \in 1 .. Len(path.comps),
           NEW H, IsFiniteSet(H), path.comps[1] \in H,
           NEW v, Young(v, H), v.next_inode <= MaxInode
    PROVE  LET w == Dir(path, v, k)
           IN  /\ Young(w, H) /\ w.next_inode <= v.next_inode + 1
               /\ RootKeeps(v, w)
               /\ k = 1 /\ Cardinality(H) <= NDirect =>
                      ext2_find_inode(w, Root, path.comps[1]) # -1
<1> DEFINE partial == Rooted(SubSeq(path.comps, 1, k))
           d == fs_get_parent(v, Root, partial)
           name == path.comps[k]
           n == v.next_inode
<1>0. /\ SoundInv(v) /\ TreeShaped(v) /\ NamesOnce(v) /\ FreeLast(v, Root)
      /\ Root \in Live(v) /\ n \in Nat /\ n <= n + 1
  <2>1. SoundInv(v)
    BY DEF Young
  <2>2. n \in Nat
    BY <2>1, Ext2Assumption DEF SoundInv, VolumeType
  <2> QED BY <2>1, <2>2, LivePositive DEF Young, SoundInv
<1>1. /\ partial \in PathNames /\ Last(partial.comps) = name /\ name \in Names \ FileNames
      /\ Reached(v, d) /\ (k = 1 => d = Root)
  BY <1>0, StdParent
<1>2. /\ k > 1 => d # Root
      /\ k > 1 /\ d \in Live(v) =>
             \E e \in Live(v) :
                /\ e = fs_get_parent(v, Root, Rooted(SubSeq(path.comps, 1, k - 1)))
                /\ d = ext2_find_inode(v, e, path.comps[k - 1])
  BY <1>0, StdParent
<1>3. /\ Root >= 0 /\ -1 < 0
      /\ \A x \in Live(v) : x \in Nat /\ x > 0
  BY <1>0, LivePositive DEF SoundInv, Root
<1> HIDE DEF partial, d, name, n
<1>4. CASE ~(~fs_exists(v, Root, partial) /\ HasParent(v, Root, partial))
  <2>1. Dir(path, v, k) = v
    BY <1>4 DEF Dir, partial
  <2>2. ASSUME k = 1 PROVE ext2_find_inode(v, Root, path.comps[1]) # -1
    <3>1. d = Root /\ name = path.comps[1]
      BY <1>1, <2>2 DEF name
    <3>2. name # Blank
      <4> QED BY <3>1, StdPath
    <3>3. HasParent(v, Root, partial)
      BY <1>1, <1>3, <3>1, <3>2 DEF HasParent, d
    <3>4. fs_resolve_inode(v, Root, partial) >= 0
      BY <1>4, <3>3 DEF fs_exists
    <3>5. fs_resolve_inode(v, Root, partial) = Walk(v, Root, name)
      BY <1>1, <3>1, ResolveSplits DEF d
    <3>6. Walk(v, Root, name) = ext2_find_inode(v, Root, name)
      BY <3>2 DEF Walk, Root
    <3> QED BY <3>1, <3>4, <3>5, <3>6
  <2>3. RootKeeps(v, v) /\ v.next_inode <= v.next_inode + 1
    BY <1>0 DEF RootKeeps, n
  <2> QED BY <2>1, <2>2, <2>3
<1>5. CASE ~fs_exists(v, Root, partial) /\ HasParent(v, Root, partial)
  <2> DEFINE w == ext2_mkdir(v, d, name)
  <2>1. Dir(path, v, k) = w
    BY <1>1, <1>5 DEF Dir, fs_mkdir, partial, d
  <2>2. d \in Live(v)
    BY <1>0, <1>1, <1>5, ParentTyped DEF d
  <2>3. SoundInv(w) /\ TreeShaped(w) /\ Made(v, w, d, name, "dir")
    BY <1>0, <1>1, <2>2, MkdirInv
  <2>4. UnlinkHits(v, d, name) = {}
    BY <1>0, <1>1, <1>5, MissingName DEF d
  <2> HIDE DEF w
  <2>5. NamesOnce(w)
    BY <1>0, <2>2, <2>3, <2>4, MadeOnce
  <2>6. /\ n \notin Live(v) /\ n # 0 /\ Live(w) = Live(v) \cup {n}
        /\ \A j \in Index : Slot(w, n, j) = Zero
    BY <1>0, <2>2, <2>3, MadeSlots DEF n
  <2>7. \A x \in Live(v), j \in Index :
           \/ Slot(w, x, j) = Slot(v, x, j)
           \/ /\ x = d /\ NoRecLen(Slot(v, d, j))
              /\ Slot(w, d, j) = Dirent(n, name, "dir")
              /\ \A l \in Index : NoRecLen(Slot(v, d, l)) => j <= l
    BY <1>0, <2>2, <2>3, MadeSlots DEF n
  <2>8. /\ IsEntry(Dirent(n, name, "dir")) /\ Dirent(n, name, "dir").name = name
        /\ Dirent(n, name, "dir").ino = n /\ ~NoRecLen(Dirent(n, name, "dir"))
    BY <1>0, <2>6, EntryKind DEF IsEntry
  <2>9. FreeLast(w, Root)
    <3> SUFFICES ASSUME NEW j \in Index, NEW l \in Index,
                        NoRecLen(Slot(w, Root, j)), ~NoRecLen(Slot(w, Root, l))
                 PROVE  l < j
      BY DEF FreeLast
    <3>0. j \in Nat /\ l \in Nat /\ j # l
      BY <1>0, LiveTyped DEF SoundInv
    <3>1. Slot(w, Root, j) = Slot(v, Root, j)
      BY <1>0, <2>7, <2>8
    <3>2. CASE Slot(w, Root, l) = Slot(v, Root, l)
      BY <1>0, <3>1, <3>2 DEF FreeLast
    <3>3. CASE Slot(w, Root, l) # Slot(v, Root, l)
      BY <1>0, <2>7, <3>0, <3>1, <3>3
    <3> QED BY <3>2, <3>3
  <2>10. ASSUME d = Root PROVE name \in H
    <3>1. k = 1
      BY <1>2, <2>10
    <3> QED BY <3>1 DEF name
  <2>11. ASSUME NEW j \in Index, Named(Slot(v, Root, j), "etc"), Slot(v, Root, j).ino = d
         PROVE  name \in EtcDirs
    <3>1. d # Root
      <4>1. d \in FirstInode .. v.next_inode - 1
        <5>1. IsEntry(Slot(v, Root, j))
          BY <2>11 DEF Named, IsEntry
        <5> QED BY <1>0, <2>11, <5>1, EntryKnown
      <4>2. FirstInode \in Nat /\ FirstInode > Root
        BY Ext2Assumption
      <4> QED BY <1>0, <4>1, <4>2 DEF Root, n
    <3>2. k > 1
      BY <1>1, <3>1
    <3>3. PICK e \in Live(v) :
             /\ e = fs_get_parent(v, Root, Rooted(SubSeq(path.comps, 1, k - 1)))
             /\ d = ext2_find_inode(v, e, path.comps[k - 1])
      BY <1>2, <2>2, <3>2
    <3>4. PICK i \in Index : /\ IsEntry(Slot(v, e, i)) /\ Slot(v, e, i).name = path.comps[k - 1]
                             /\ d = Slot(v, e, i).ino
      <4>1. ext2_find_inode(v, e, path.comps[k - 1]) # -1
        BY <1>3, <2>2, <3>3
      <4> QED BY <1>0, <3>3, <4>1, FoundIsEntry
    <3>5. e = Root /\ i = j
      <4>1. IsEntry(Slot(v, Root, j)) /\ EntriesUnique(v)
        BY <1>0, <2>11 DEF Named, IsEntry, TreeShaped
      <4> QED BY <1>0, <2>11, <3>4, <4>1, OneParent
    <3>6. path.comps[k - 1] = "etc"
      BY <2>11, <3>4, <3>5 DEF Named
    <3>7. k - 1 \in 1 .. Len(path.comps) /\ (k - 1 > 1 => e # Root)
      <4>1. k - 1 \in 1 .. Len(path.comps)
        <5> QED BY <3>2, StdPath
      <4> QED BY <1>0, <3>3, <4>1, StdParent
    <3>8. k = 2
      BY <3>2, <3>5, <3>7
    <3>9. path.comps[1] = "etc" /\ Len(path.comps) > 1 /\ name = path.comps[2]
      BY <3>6, <3>7, <3>8 DEF name
    <3> QED BY <3>9 DEF EtcDirs
  <2>12. \A x \in Live(w), j \in Index :
            /\ Slot(w, x, j) = Zero \/ IsEntry(Slot(w, x, j))
            /\ IsEntry(Slot(w, x, j)) => Slot(w, x, j).name \notin FileNames
            /\ x = Root /\ IsEntry(Slot(w, x, j)) => Slot(w, x, j).name \in H
    <3> SUFFICES ASSUME NEW x \in Live(w), NEW j \in Index
                 PROVE  /\ Slot(w, x, j) = Zero \/ IsEntry(Slot(w, x, j))
                        /\ IsEntry(Slot(w, x, j)) => Slot(w, x, j).name \notin FileNames
                        /\ x = Root /\ IsEntry(Slot(w, x, j)) => Slot(w, x, j).name \in H
      OBVIOUS
    <3>1. CASE x = n
      BY <2>6, <3>1, EntryKind
    <3>2. CASE x # n /\ Slot(w, x, j) = Slot(v, x, j)
      BY <2>6, <3>2 DEF Young
    <3>3. CASE x # n /\ Slot(w, x, j) # Slot(v, x, j)
      BY <1>1, <2>6, <2>7, <2>8, <2>10, <3>3
    <3> QED BY <3>1, <3>2, <3>3
  <2>13. ASSUME NEW x \in Live(w), NEW j \in Index, NEW l \in Index,
                Named(Slot(w, Root, l), "etc"), Slot(w, Root, l).ino = x, IsEntry(Slot(w, x, j))
         PROVE  Slot(w, x, j).name \in EtcDirs
    <3>1. x # n /\ x \in Live(v)
      BY <2>6, <2>13, EntryKind
    <3>2. Slot(w, Root, l) = Slot(v, Root, l)
      BY <1>0, <2>7, <2>8, <2>13, <3>1
    <3>3. CASE Slot(w, x, j) = Slot(v, x, j)
      BY <2>13, <3>1, <3>2, <3>3 DEF Young
    <3>4. CASE Slot(w, x, j) # Slot(v, x, j)
      BY <2>7, <2>8, <2>11, <2>13, <3>1, <3>2, <3>4
    <3> QED BY <3>3, <3>4
  <2>14. Young(w, H)
    BY <2>3, <2>5, <2>9, <2>12, <2>13 DEF Young
  <2>15. RootKeeps(v, w)
    <3> SUFFICES ASSUME NEW nm \in Names, ext2_find_inode(v, Root, nm) # -1
                 PROVE  ext2_find_inode(w, Root, nm) # -1
      BY DEF RootKeeps
    <3>1. PICK j \in Index : IsEntry(Slot(v, Root, j)) /\ Slot(v, Root, j).name = nm
      BY <1>0, FoundIsEntry
    <3>2. ~NoRecLen(Slot(v, Root, j))
      BY <3>1, EntryKind
    <3>3. Named(Slot(w, Root, j), nm)
      <4>1. Slot(w, Root, j) = Slot(v, Root, j)
        BY <1>0, <2>7, <3>2
      <4> QED BY <3>1, <4>1 DEF Named, IsEntry
    <3>4. Root \in Live(w)
      BY <1>0, <2>6
    <3> QED BY <2>3, <3>3, <3>4, EntryIsFound
  <2>16. w.next_inode <= v.next_inode + 1
    BY <1>0, <2>3 DEF Made, n
  <2>17. ASSUME k = 1, Cardinality(H) <= NDirect
         PROVE  ext2_find_inode(w, Root, path.comps[1]) # -1
    <3> DEFINE F == FreeSlots(v, Root)
    <3>1. d = Root /\ name = path.comps[1] /\ name \in H
      BY <1>1, <2>10, <2>17 DEF name
    <3>2. \A j \in Index : IsEntry(Slot(v, Root, j)) => Slot(v, Root, j).name \in H \ {name}
      <4> SUFFICES ASSUME NEW j \in Index, IsEntry(Slot(v, Root, j))
                   PROVE  Slot(v, Root, j).name \in H \ {name}
        OBVIOUS
      <4>1. Slot(v, Root, j).name \in H
        BY <1>0 DEF Young
      <4>2. ~Named(Slot(v, Root, j), name)
        <5>1. UnlinkHits(v, Root, name) = {i \in Index : Named(Slot(v, Root, i), name)}
          BY HitsAre
        <5> QED BY <2>4, <3>1, <5>1
      <4> QED BY <4>1, <4>2 DEF Named, IsEntry
    <3>3. /\ IsFiniteSet(H \ {name}) /\ Cardinality(H \ {name}) = Cardinality(H) - 1
          /\ Cardinality(H) \in Nat
      BY <3>1, FS_RemoveElement, FS_CardinalityType
    <3>4. F # {}
      <4>1. \A j \in Index : Slot(v, Root, j) = Zero \/ IsEntry(Slot(v, Root, j))
        BY <1>0 DEF Young
      <4>2. Cardinality(F) >= NDirect - Cardinality(H \ {name}) /\ Cardinality(F) \in Nat
        BY <1>0, <3>2, <3>3, <4>1, SlotsLeft
      <4>3. NDirect \in Nat
        BY Ext2Assumption
      <4>4. Cardinality(F) # 0
        BY <2>17, <3>3, <4>2, <4>3
      <4> QED BY <4>4, FS_EmptySet
    <3>5. Min(F) \in Index /\ Slot(w, Root, Min(F)) = Dirent(n, name, "dir")
      <4>1. Min(F) \in F
        BY <2>3, <3>1, <3>4 DEF Made
      <4>2. Min(F) \in Index
        BY <4>1 DEF FreeSlots
      <4> QED BY <1>0, <2>3, <3>1, <3>4, <4>2 DEF Made, n
    <3> HIDE DEF F
    <3>6. Named(Slot(w, Root, Min(F)), name)
      BY <2>8, <3>5 DEF Named, IsEntry
    <3>7. Root \in Live(w)
      BY <1>0, <2>6
    <3> QED BY <2>3, <3>1, <3>5, <3>6, <3>7, EntryIsFound
  <2> QED BY <2>1, <2>14, <2>15, <2>16, <2>17
<1> QED BY <1>4, <1>5

\* What RootKeeps says of two steps.
LEMMA RootKeepsTwice ==
    ASSUME NEW u, NEW v, NEW w, RootKeeps(u, v), RootKeeps(v, w)
    PROVE  RootKeeps(u, w)
BY DEF RootKeeps

\* A standard directory is made.
LEMMA EnsureYoung ==
    ASSUME NEW path \in Range(StdDirs), NEW H, IsFiniteSet(H), path.comps[1] \in H,
           NEW v, Young(v, H), v.next_inode + Len(path.comps) - 1 <= MaxInode
    PROVE  LET w == EnsureDir(v, path)
           IN  /\ Young(w, H) /\ RootKeeps(v, w)
               /\ Len(path.comps) = 1 /\ Cardinality(H) <= NDirect =>
                      ext2_find_inode(w, Root, path.comps[1]) # -1
<1> DEFINE n == Len(path.comps)
           q == [k \in 1 .. n |-> k]
<1>0. /\ SoundInv(v) /\ v.next_inode \in Nat /\ MaxInode \in Nat
      /\ n \in Nat /\ n > 0 /\ 1 \in 1 .. n
  <2>1. SoundInv(v)
    BY DEF Young
  <2>2. FirstInode \in Nat /\ MaxInode \in Nat
    BY Ext2Assumption
  <2>3. v.next_inode \in Nat
    BY <2>1, <2>2 DEF SoundInv, VolumeType
  <2>4. n \in Nat /\ n > 0
    BY StdPath
  <2> HIDE DEF n
  <2>5. 1 \in 1 .. n
    BY <2>4
  <2> QED BY <2>1, <2>2, <2>3, <2>4, <2>5
<1>1. CASE fs_exists(v, Root, path)
  <2>1. EnsureDir(v, path) = v
    BY <1>1 DEF EnsureDir
  <2>2. ASSUME n = 1 PROVE ext2_find_inode(v, Root, path.comps[1]) # -1
    <3>1. path \in PathNames /\ path.comps[1] # Blank /\ Last(path.comps) = path.comps[1]
      BY <2>2, StdPath DEF Last
    <3>2. fs_get_parent(v, Root, path) = Root
      BY <2>2 DEF fs_get_parent
    <3>3. fs_resolve_inode(v, Root, path) = Walk(v, Root, path.comps[1])
      BY <3>1, <3>2, ResolveSplits
    <3>4. Walk(v, Root, path.comps[1]) = ext2_find_inode(v, Root, path.comps[1])
      BY <3>1 DEF Walk, Root
    <3>5. fs_resolve_inode(v, Root, path) >= 0
      BY <1>1 DEF fs_exists
    <3> QED BY <3>3, <3>4, <3>5
  <2>3. RootKeeps(v, v)
    BY DEF RootKeeps
  <2> QED BY <2>1, <2>2, <2>3
<1>2. CASE ~fs_exists(v, Root, path)
  <2>1. EnsureDir(v, path) = D!Fold(path, v, q)
    BY <1>2, MkdirpFolds DEF EnsureDir
  <2>2. DOMAIN q = 1 .. n
    OBVIOUS
  <2>3. \A k \in 1 .. n : q[k] = k
    OBVIOUS
  <2> HIDE DEF q
  <2>4. PICK f : D!Values(path, v, q, n, f) /\ D!Fold(path, v, q) = f[n]
    <3>1. n \in Nat /\ DOMAIN q = 1 .. n
      BY <1>0, <2>2
    <3> HIDE DEF n
    <3> QED BY ONLY <3>1, D!FoldSteps, SMTT(30)
  <2>5. f[0] = v /\ \A k \in 1 .. n : f[k] = Dir(path, f[k - 1], k)
    BY <2>3, <2>4 DEF D!Values
  <2> HIDE DEF n
  <2> DEFINE Fine(w, k) ==
                /\ Young(w, H) /\ RootKeeps(v, w) /\ w.next_inode <= v.next_inode + k
                /\ k > 0 /\ Cardinality(H) <= NDirect =>
                       ext2_find_inode(w, Root, path.comps[1]) # -1
             S == {k \in Nat : k <= n => Fine(f[k], k)}
  <2>6. 0 \in S
    <3>1. RootKeeps(v, v) /\ v.next_inode <= v.next_inode + 0
      BY <1>0 DEF RootKeeps
    <3> QED BY <2>5, <3>1
  <2>7. ASSUME NEW k \in Nat, k \in S PROVE k + 1 \in S
    <3> SUFFICES ASSUME k + 1 <= n PROVE Fine(f[k + 1], k + 1)
      OBVIOUS
    <3> DEFINE u == f[k]
               w == f[k + 1]
    <3>1. k + 1 \in 1 .. n /\ (k + 1) - 1 = k /\ k <= n
      BY <1>0
    <3>2. w = Dir(path, u, k + 1) /\ Fine(u, k)
      BY <2>5, <2>7, <3>1
    <3> HIDE DEF u, w
    <3>3. u.next_inode \in Nat
      <4>1. SoundInv(u)
        BY <3>2 DEF Young
      <4>2. FirstInode \in Nat
        BY Ext2Assumption
      <4> QED BY <4>1, <4>2 DEF SoundInv, VolumeType
    <3>4. u.next_inode <= MaxInode /\ k + 1 \in 1 .. Len(path.comps)
      BY <1>0, <3>1, <3>2, <3>3 DEF n
    <3>5. /\ Young(w, H) /\ w.next_inode <= u.next_inode + 1
          /\ RootKeeps(u, w)
          /\ k + 1 = 1 /\ Cardinality(H) <= NDirect =>
                 ext2_find_inode(w, Root, path.comps[1]) # -1
      BY <3>2, <3>4, DirYoung
    <3>6. RootKeeps(v, w)
      BY <3>2, <3>5, RootKeepsTwice
    <3>7. w.next_inode <= v.next_inode + (k + 1)
      <4>1. w.next_inode \in Int
        <5>1. SoundInv(w)
          BY <3>5 DEF Young
        <5>2. FirstInode \in Nat
          BY Ext2Assumption
        <5> QED BY <5>1, <5>2 DEF SoundInv, VolumeType
      <4> QED BY <1>0, <3>2, <3>3, <3>5, <4>1
    <3>8. Cardinality(H) <= NDirect => ext2_find_inode(w, Root, path.comps[1]) # -1
      <4>1. CASE k = 0
        BY <3>5, <4>1
      <4>2. CASE k # 0
        <5>1. path.comps[1] \in Names
          BY <1>0, StdPath DEF n
        <5> QED BY <3>2, <3>5, <4>2, <5>1 DEF RootKeeps
      <4> QED BY <4>1, <4>2
    <3> QED BY <3>5, <3>6, <3>7, <3>8 DEF w
  <2> HIDE DEF S
  <2>8. n \in S
    BY <1>0, <2>6, <2>7, D!SetInduction
  <2>9. Fine(f[n], n) /\ n > 0
    BY <1>0, <2>8 DEF S
  <2> QED BY <2>1, <2>4, <2>9
<1> QED BY <1>1, <1>2

\* The first components of the first k standard directories.
Heads(k) == {StdDirs[j].comps[1] : j \in 1 .. k}

LEMMA HeadsFinite ==
    /\ \A k \in Nat : k <= Len(StdDirs) => IsFiniteSet(Heads(k)) /\ Cardinality(Heads(k)) \in Nat
    /\ IsFiniteSet(EtcDirs) /\ Cardinality(EtcDirs) \in Nat
<1>1. ASSUME NEW S, IsFiniteSet(S), NEW f, f = [x \in S |-> f[x]]
      PROVE  LET T == {f[x] : x \in S} IN IsFiniteSet(T) /\ Cardinality(T) \in Nat
  <2> DEFINE T == {f[x] : x \in S}
  <2>1. f \in [S -> T]
    BY <1>1
  <2>2. f \in Surjection(S, T)
    BY <2>1 DEF Surjection
  <2> HIDE DEF T
  <2>3. IsFiniteSet(T)
    BY <1>1, <2>2, FS_Surjection
  <2>4. Cardinality(T) \in Nat
    BY <2>3, FS_CardinalityType
  <2> QED BY <2>3, <2>4 DEF T
<1>2. Len(StdDirs) \in Nat /\ DOMAIN StdDirs = 1 .. Len(StdDirs)
  BY FsAssumption
<1>3. ASSUME NEW k \in Nat, k <= Len(StdDirs)
      PROVE  IsFiniteSet(Heads(k)) /\ Cardinality(Heads(k)) \in Nat
  <2> DEFINE f == [j \in 1 .. k |-> StdDirs[j].comps[1]]
             S == 1 .. k
             T == {f[x] : x \in S}
  <2>1. IsFiniteSet(S)
    BY <1>2, <1>3, FS_Interval
  <2>2. Heads(k) = T
    BY DEF Heads
  <2>3. f = [x \in S |-> f[x]]
    OBVIOUS
  <2> HIDE DEF f, S
  <2>4. IsFiniteSet(T) /\ Cardinality(T) \in Nat
    BY <1>1, <2>1, <2>3
  <2> QED BY <2>2, <2>4
<1>4. IsFiniteSet(EtcDirs) /\ Cardinality(EtcDirs) \in Nat
  <2> DEFINE A == {j \in 1 .. Len(StdDirs) :
                      Len(StdDirs[j].comps) > 1 /\ StdDirs[j].comps[1] = "etc"}
             f == [j \in A |-> StdDirs[j].comps[2]]
             T == {f[x] : x \in A}
  <2>1. IsFiniteSet(A)
    <3>1. IsFiniteSet(1 .. Len(StdDirs))
      BY <1>2, FS_Interval
    <3> QED BY <3>1, FS_Subset
  <2>2. EtcDirs = T
    BY <1>2 DEF EtcDirs, Range
  <2>3. f = [x \in A |-> f[x]]
    OBVIOUS
  <2> HIDE DEF f, A
  <2>4. IsFiniteSet(T) /\ Cardinality(T) \in Nat
    BY <1>1, <2>1, <2>3
  <2> QED BY <2>2, <2>4
<1> QED BY <1>3, <1>4

\* The empty disk, mounted.
LEMMA NewYoung ==
    /\ Young(ext2_mount(BlankDisk), {})
    /\ \A name \in Names : ext2_find_inode(ext2_mount(BlankDisk), Root, name) = -1
<1> DEFINE v == ext2_mount(BlankDisk)
<1>1. VolumeInv(v) /\ \A x \in Live(v), k \in Index : v.itab[x].block[k] = 0
  BY MountMakes
<1> HIDE DEF v
<1>2. SoundInv(v) /\ TreeShaped(v)
  BY <1>1 DEF VolumeInv
<1>3. Root \in Live(v)
  BY <1>2, LivePositive DEF SoundInv
<1>4. \A x \in Live(v), k \in Index : Slot(v, x, k) = Zero
  BY <1>1 DEF Slot
<1>5. NamesOnce(v)
  BY <1>4, EntryKind DEF NamesOnce, Named, IsEntry
<1>6. FreeLast(v, Root)
  BY <1>3, <1>4, EntryKind DEF FreeLast
<1>7. Young(v, {})
  BY <1>2, <1>4, <1>5, <1>6, EntryKind DEF Young
<1>8. \A name \in Names : ext2_find_inode(v, Root, name) = -1
  BY <1>2, <1>3, <1>4, EntryKind, NothingFound
<1> QED BY <1>7, <1>8 DEF v

\* The volume after the first k standard directories.
Booted(v, k) ==
    /\ Young(v, Heads(k))
    /\ \A name \in {"etc", "home"}, j \in 1 .. k :
          StdDirs[j].comps = <<name>> /\ Cardinality(Heads(j)) <= NDirect =>
              ext2_find_inode(v, Root, name) # -1

LEMMA NewBooted == Booted(ext2_mount(BlankDisk), 0)
<1>1. Heads(0) = {}
  BY DEF Heads
<1> QED BY <1>1, NewYoung DEF Booted

LEMMA NextBooted ==
    ASSUME NEW v, NEW k \in 1 .. Len(StdDirs), Booted(v, k - 1),
           v.next_inode + Len(StdDirs[k].comps) - 1 <= MaxInode
    PROVE  Booted(EnsureDir(v, StdDirs[k]), k)
<1> DEFINE path == StdDirs[k]
           H == Heads(k)
           w == EnsureDir(v, path)
<1>0. Len(StdDirs) \in Nat /\ DOMAIN StdDirs = 1 .. Len(StdDirs) /\ k \in Nat /\ k \in 1 .. k
  BY FsAssumption
<1>1. path \in Range(StdDirs)
  BY <1>0 DEF Range
<1>2. IsFiniteSet(H) /\ path.comps[1] \in H /\ Heads(k - 1) \subseteq H
  <2>1. IsFiniteSet(H)
    BY <1>0, HeadsFinite
  <2>2. 1 .. k - 1 \subseteq 1 .. k
    BY <1>0
  <2> QED BY <1>0, <2>1, <2>2 DEF Heads
<1> HIDE DEF H, path
<1>3. Young(v, H)
  BY <1>2 DEF Booted, Young
<1>4. /\ Young(w, H) /\ RootKeeps(v, w)
      /\ Len(path.comps) = 1 /\ Cardinality(H) <= NDirect =>
             ext2_find_inode(w, Root, path.comps[1]) # -1
  BY <1>1, <1>2, <1>3, EnsureYoung DEF path
<1> HIDE DEF w
<1>5. ASSUME NEW name \in {"etc", "home"}, NEW j \in 1 .. k,
             StdDirs[j].comps = <<name>>, Cardinality(Heads(j)) <= NDirect
      PROVE  ext2_find_inode(w, Root, name) # -1
  <2>1. CASE j = k
    <3>1. path.comps = <<name>>
      BY <1>5, <2>1 DEF path
    <3>2. Len(path.comps) = 1 /\ path.comps[1] = name
      BY <3>1
    <3> QED BY <1>4, <1>5, <2>1, <3>2 DEF H
  <2>2. CASE j # k
    <3>1. j \in 1 .. k - 1
      BY <1>0, <2>2
    <3>2. ext2_find_inode(v, Root, name) # -1
      BY <1>5, <3>1 DEF Booted
    <3> QED BY <1>4, <3>2, NamesTyped DEF RootKeeps
  <2> QED BY <2>1, <2>2
<1>6. Booted(w, k)
  BY <1>4, <1>5 DEF Booted, H
<1> QED BY <1>6 DEF w, path

\* After the last of them: /etc and /home are there, and /etc has slots for the files.
LEMMA BootedLayout ==
    ASSUME NEW v, Booted(v, Len(StdDirs))
    PROVE  /\ Layout(v) /\ KeptFiles(v) = {}
           /\ \A name \in FileNames : FileOf(v, name) = -1
           /\ IsFiniteSet(FreeSlots(v, EtcOf(v)))
           /\ Cardinality(FreeSlots(v, EtcOf(v))) \in Nat
           /\ Cardinality(FreeSlots(v, EtcOf(v))) > Len(SystemFiles)
<1> DEFINE H == Heads(Len(StdDirs))
<1>0. /\ SoundInv(v) /\ EntriesUnique(v) /\ NamesOnce(v) /\ FreeLast(v, Root)
      /\ Root \in Live(v) /\ Young(v, H)
  <2>1. Young(v, H)
    BY DEF Booted
  <2>2. SoundInv(v) /\ EntriesUnique(v) /\ NamesOnce(v) /\ FreeLast(v, Root)
    BY <2>1 DEF Young, TreeShaped
  <2> QED BY <2>1, <2>2, LivePositive DEF SoundInv
<1>1. \A name \in {"etc", "home"} : ext2_find_inode(v, Root, name) # -1
  <2> SUFFICES ASSUME NEW name \in {"etc", "home"}
               PROVE  ext2_find_inode(v, Root, name) # -1
    OBVIOUS
  <2>1. PICK j \in DOMAIN StdDirs :
           /\ StdDirs[j].comps = <<name>>
           /\ Cardinality({StdDirs[i].comps[1] : i \in 1 .. j}) <= NDirect
    BY LayoutAssumption
  <2>2. j \in 1 .. Len(StdDirs) /\ Cardinality(Heads(j)) <= NDirect
    BY <2>1, FsAssumption DEF Heads
  <2> QED BY <2>1, <2>2 DEF Booted
<1> HIDE DEF H
<1>2. EtcOf(v) \in Live(v) /\ HomeOf(v) \in Live(v)
  BY <1>0, <1>1, FindTyped, NamesTyped DEF EtcOf, HomeOf
<1>3. \A name \in FileNames : FileOf(v, name) = -1
  <2> SUFFICES ASSUME NEW name \in FileNames, FileOf(v, name) # -1 PROVE FALSE
    OBVIOUS
  <2>1. PICK k \in Index : /\ IsEntry(Slot(v, EtcOf(v), k))
                           /\ Slot(v, EtcOf(v), k).name = name
    BY <1>0, <1>2, FoundIsEntry DEF FileOf
  <2> QED BY <1>0, <1>2, <2>1 DEF Young
<1>4. KeptFiles(v) = {}
  BY <1>3 DEF KeptFiles
<1>5. \A name \in {"etc", "home"} : \E k \in Index :
         /\ IsEntry(Slot(v, Root, k)) /\ Slot(v, Root, k).name = name
         /\ ext2_find_inode(v, Root, name) = Slot(v, Root, k).ino
  BY <1>0, <1>1, FoundIsEntry
<1>6. ASSUME NEW x \in Live(v), NEW k \in Index PROVE EntryGuarded(v, x, Slot(v, x, k))
  <2> SUFFICES ASSUME IsEntry(Slot(v, x, k)), Slot(v, x, k).ino \in {Root, EtcOf(v), HomeOf(v)}
               PROVE  x = Root /\ Slot(v, x, k).name \in {"etc", "home"}
    BY <1>4 DEF EntryGuarded, Guarded, Protected
  <2>1. Slot(v, x, k).ino # Root
    <3>1. Slot(v, x, k).ino \in FirstInode .. v.next_inode - 1
      BY <1>0, EntryKnown
    <3>2. FirstInode \in Nat /\ FirstInode > Root /\ v.next_inode \in Int
      <4>1. FirstInode \in Nat /\ FirstInode > Root
        BY Ext2Assumption
      <4> QED BY <1>0, <4>1 DEF SoundInv, VolumeType
    <3> QED BY <3>1, <3>2 DEF Root
  <2>2. PICK name \in {"etc", "home"} : Slot(v, x, k).ino = ext2_find_inode(v, Root, name)
    BY <2>1 DEF EtcOf, HomeOf
  <2>3. PICK i \in Index : /\ IsEntry(Slot(v, Root, i)) /\ Slot(v, Root, i).name = name
                           /\ ext2_find_inode(v, Root, name) = Slot(v, Root, i).ino
    BY <1>5
  <2>4. x = Root /\ k = i
    BY <1>0, <2>2, <2>3, OneParent
  <2> QED BY <2>3, <2>4
<1>7. Layout(v)
  BY <1>0, <1>2, <1>3, <1>4, <1>6 DEF Layout
<1>8. /\ IsFiniteSet(FreeSlots(v, EtcOf(v)))
      /\ Cardinality(FreeSlots(v, EtcOf(v))) \in Nat
      /\ Cardinality(FreeSlots(v, EtcOf(v))) >= NDirect - Cardinality(EtcDirs)
  <2>1. IsFiniteSet(EtcDirs)
    BY HeadsFinite
  <2>2. \A k \in Index : /\ Slot(v, EtcOf(v), k) = Zero \/ IsEntry(Slot(v, EtcOf(v), k))
                         /\ IsEntry(Slot(v, EtcOf(v), k)) => Slot(v, EtcOf(v), k).name \in EtcDirs
    <3>1. PICK j \in Index : Named(Slot(v, Root, j), "etc") /\ Slot(v, Root, j).ino = EtcOf(v)
      BY <1>5 DEF Named, IsEntry, EtcOf
    <3> QED BY <1>0, <1>2, <3>1 DEF Young
  <2> QED BY <1>0, <1>2, <2>1, <2>2, SlotsLeft
<1>9. Cardinality(FreeSlots(v, EtcOf(v))) > Len(SystemFiles)
  <2>1. Cardinality(EtcDirs) \in Nat /\ NDirect \in Nat /\ Len(SystemFiles) \in Nat
    BY HeadsFinite, Ext2Assumption, BootAssumption
  <2>2. Cardinality(EtcDirs) + Len(SystemFiles) < NDirect
    BY LayoutAssumption
  <2> QED BY <1>8, <2>1, <2>2
<1> QED BY <1>3, <1>4, <1>7, <1>8, <1>9

\* Before that no user table is read.
LEMMA BootedNoUsers ==
    ASSUME NEW v, NEW k, Booted(v, k)
    PROVE  ~fs_exists(v, Root, Passwd)
<1>0. SoundInv(v) /\ Root \in Live(v) /\ Young(v, Heads(k))
  <2>1. SoundInv(v) /\ Young(v, Heads(k))
    BY DEF Booted, Young
  <2> QED BY <2>1, LivePositive DEF SoundInv
<1>1. "etc" \in Comps /\ "passwd" \in Comps /\ "etc" # Blank /\ "passwd" # Blank
  BY NamesTyped DEF Comps, Protected
<1>2. fs_resolve_inode(v, Root, Passwd) = Walk(v, Walk(v, Root, "etc"), "passwd")
  BY <1>1, PathTwo DEF Passwd
<1>3. Walk(v, Root, "etc") = EtcOf(v)
  BY <1>1 DEF Walk, EtcOf, Root
<1>4. CASE EtcOf(v) = -1
  BY <1>2, <1>3, <1>4 DEF Walk, fs_exists
<1>5. CASE EtcOf(v) # -1
  <2>1. EtcOf(v) \in Live(v)
    BY <1>0, <1>5, FindTyped, NamesTyped DEF EtcOf
  <2>2. EtcOf(v) \in Nat /\ EtcOf(v) > 0
    BY <1>0, <2>1, LivePositive DEF SoundInv
  <2>3. Walk(v, EtcOf(v), "passwd") = ext2_find_inode(v, EtcOf(v), "passwd")
    BY <1>1, <2>2 DEF Walk
  <2>4. ext2_find_inode(v, EtcOf(v), "passwd") = -1
    <3> SUFFICES ASSUME ext2_find_inode(v, EtcOf(v), "passwd") # -1 PROVE FALSE
      OBVIOUS
    <3>1. PICK i \in Index : /\ IsEntry(Slot(v, EtcOf(v), i))
                             /\ Slot(v, EtcOf(v), i).name = "passwd"
      BY <1>0, <2>1, FoundIsEntry
    <3> QED BY <1>0, <2>1, <3>1, NamesTyped DEF Young
  <2> QED BY <1>2, <1>3, <2>3, <2>4 DEF fs_exists
<1> QED BY <1>4, <1>5

-----------------------------------------------------------------------------
(* Files and users *)

FileName(i) == Last(SystemFiles[i].path.comps)

LEMMA SystemFileIs ==
    /\ Len(SystemFiles) \in Nat /\ DOMAIN SystemFiles = 1 .. Len(SystemFiles)
    /\ \A i \in 1 .. Len(SystemFiles) :
          /\ FileName(i) \in FileNames /\ FileName(i) # "passwd"
          /\ SystemFiles[i].path = Rooted(<<"etc", FileName(i)>>)
          /\ SystemFiles[i].text \in Payloads
          /\ \A j \in 1 .. Len(SystemFiles) : FileName(i) = FileName(j) => i = j
<1> DEFINE R == [path : {Rooted(<<"etc", name>>) : name \in Names}, text : Payloads]
<1>1. SystemFiles \in Seq(R)
  BY BootAssumption
<1> HIDE DEF R
<1>2. /\ Len(SystemFiles) \in Nat /\ DOMAIN SystemFiles = 1 .. Len(SystemFiles)
      /\ \A i \in 1 .. Len(SystemFiles) : SystemFiles[i] \in R
                                          /\ SystemFiles[i] \in Range(SystemFiles)
  BY <1>1 DEF Range
<1>3. ASSUME NEW i \in 1 .. Len(SystemFiles)
      PROVE  /\ FileName(i) \in FileNames /\ FileName(i) # "passwd"
             /\ SystemFiles[i].path = Rooted(<<"etc", FileName(i)>>)
             /\ SystemFiles[i].text \in Payloads
  <2>1. SystemFiles[i] \in R
    BY <1>2
  <2>2. PICK name \in Names : SystemFiles[i].path = Rooted(<<"etc", name>>)
    BY <2>1 DEF R
  <2>3. FileName(i) = name
    BY <2>2 DEF FileName, Rooted, Last
  <2>4. SystemFiles[i].path # Passwd
    BY <1>2, BootAssumption
  <2>5. FileName(i) # "passwd"
    BY <2>2, <2>3, <2>4 DEF Passwd
  <2>6. FileName(i) \in FileNames
    BY <1>2 DEF FileNames, FileName
  <2>7. SystemFiles[i].text \in Payloads
    BY <2>1 DEF R
  <2> QED BY <2>2, <2>3, <2>5, <2>6, <2>7
<1>4. \A i, j \in 1 .. Len(SystemFiles) : FileName(i) = FileName(j) => i = j
  <2>1. \A i, j \in 1 .. Len(SystemFiles) :
           FileName(i) = FileName(j) => SystemFiles[i].path = SystemFiles[j].path
    BY <1>3
  <2> QED BY <1>2, <2>1, BootAssumption
<1> QED BY <1>2, <1>3, <1>4

FileHas(v, name, text) ==
    FileOf(v, name) # -1 /\ ext2_read_file(v, FileOf(v, name)) = Text(<<text>>)

LEMMA SteadyFiles ==
    ASSUME NEW v, Layout(v), NEW w, Steady(v, w), NEW name \in FileNames, NEW text,
           FileHas(v, name, text)
    PROVE  FileHas(w, name, text)
<1> DEFINE x == FileOf(v, name)
<1>1. x \in KeptFiles(v) /\ x \in Live(v) /\ x \in Live(w) /\ FileOf(w, name) = x
  BY GuardedLive DEF FileHas, KeptFiles, Steady
<1>2. Same(v, w, x) /\ SoundInv(v) /\ SoundInv(w)
  BY <1>1 DEF Steady, Layout
<1> HIDE DEF x
<1>3. ext2_read_file(w, x) = ext2_read_file(v, x)
  BY <1>1, <1>2, SameReads
<1> QED BY <1>1, <1>3 DEF FileHas, x

LEMMA UpdatesFiles ==
    ASSUME NEW v, Layout(v), NEW w, NEW name \in FileNames, Updates(v, w, name),
           NEW nm \in FileNames \ {name}, NEW text, FileHas(v, nm, text)
    PROVE  FileHas(w, nm, text)
<1> DEFINE x == FileOf(v, nm)
<1>1. x \in KeptFiles(v) /\ x \in Live(v) /\ x \in Live(w) /\ FileOf(w, nm) = x
  BY GuardedLive DEF FileHas, KeptFiles, Updates
<1>2. x # FileOf(v, name)
  BY DEF FileHas, Layout
<1>3. Same(v, w, x) /\ SoundInv(v) /\ SoundInv(w)
  BY <1>1, <1>2 DEF Updates, Layout
<1> HIDE DEF x
<1>4. ext2_read_file(w, x) = ext2_read_file(v, x)
  BY <1>1, <1>3, SameReads
<1> QED BY <1>1, <1>4 DEF FileHas, x

\* Every user of the table has a home directory, unless /home is full.
HomesKept(v, table) ==
    FreeSlots(v, HomeOf(v)) # {} =>
        \A user \in Range(table) \ {"root"} : ext2_find_inode(v, HomeOf(v), user) # -1

LEMMA HomesStay ==
    ASSUME NEW v, NEW w, NEW name, Steady(v, w) \/ Updates(v, w, name),
           NEW table, Range(table) \subseteq Users \cup {"root"}, HomesKept(v, table)
    PROVE  HomesKept(w, table)
BY DEF HomesKept, Steady, Updates

LEMMA TableTyped ==
    ASSUME NEW t \in Tables
    PROVE  /\ t \in Seq(Users \cup {"root"}) /\ t # <<>> /\ t[1] = "root" /\ t \in Payloads
           /\ Len(t) \in Nat /\ Len(t) > 0 /\ DOMAIN t = 1 .. Len(t)
           /\ Range(t) \subseteq Users \cup {"root"} /\ "root" \in Range(t)
           /\ \A i, j \in DOMAIN t : t[i] = t[j] => i = j
<1> DEFINE A == Users \cup {"root"}
<1>1. PICK n \in 1 .. Cardinality(Users) + 1 : t \in [1 .. n -> A]
  BY DEF Tables
<1>2. n \in Nat /\ n > 0
  BY <1>1, BootAssumption, FS_CardinalityType
<1> HIDE DEF A
<1>3. /\ t \in Seq(A) /\ Len(t) = n /\ DOMAIN t = 1 .. n
      /\ 1 \in DOMAIN t /\ \A i \in DOMAIN t : t[i] \in A
  BY <1>1, <1>2
<1>4. t[1] = "root" /\ \A i, j \in DOMAIN t : t[i] = t[j] => i = j
  BY DEF Tables
<1>5. t # <<>>
  BY <1>2, <1>3
<1> QED BY <1>2, <1>3, <1>4, <1>5, BootAssumption DEF A, Range

LEMMA TableMade ==
    ASSUME NEW t \in Seq(Users \cup {"root"}), t # <<>>, t[1] = "root",
           \A i, j \in DOMAIN t : t[i] = t[j] => i = j
    PROVE  t \in Tables
<1> DEFINE A == Users \cup {"root"}
           n == Len(t)
<1>1. IsFiniteSet(Users) /\ Cardinality(Users) \in Nat
  BY BootAssumption, FS_CardinalityType
<1>2. IsFiniteSet(A) /\ Cardinality(A) <= Cardinality(Users) + 1
  <2>1. /\ IsFiniteSet(Users \cup {"root"})
        /\ Cardinality(Users \cup {"root"}) =
               IF "root" \in Users THEN Cardinality(Users) ELSE Cardinality(Users) + 1
    BY <1>1, FS_AddElement
  <2> QED BY <1>1, <2>1
<1> HIDE DEF A
<1>3. n \in Nat /\ n > 0 /\ t \in [1 .. n -> A] /\ DOMAIN t = 1 .. n
  BY DEF A
<1> HIDE DEF n
<1>4. t \in Injection(1 .. n, A)
  BY <1>3 DEF Injection, IsInjective
<1>5. IsFiniteSet(1 .. n) /\ Cardinality(1 .. n) = n
  <2>1. 1 \in Int /\ n \in Int
    BY <1>3
  <2>2. IsFiniteSet(1 .. n) /\ Cardinality(1 .. n) = IF 1 > n THEN 0 ELSE n - 1 + 1
    BY ONLY <2>1, FS_Interval
  <2> QED BY <1>3, <2>2
<1>6. n <= Cardinality(A) /\ Cardinality(A) \in Nat
  <2>1. Cardinality(1 .. n) <= Cardinality(A)
    BY <1>2, <1>4, FS_Injection
  <2> QED BY <1>2, <1>5, <2>1, FS_CardinalityType
<1>7. n \in 1 .. Cardinality(Users) + 1
  BY <1>1, <1>2, <1>3, <1>6
<1> QED BY <1>3, <1>7 DEF Tables, A

\* What is read of a table that was saved.
LEMMA TableLoaded ==
    ASSUME NEW v, Layout(v), NEW t \in Tables, FileHas(v, "passwd", t)
    PROVE  users_load(v) = t
<1> DEFINE bytes == PasswdBytes(v)
<1>1. t \in Payloads /\ t # <<>> /\ t[1] = "root" /\ "passwd" \in FileNames
  BY TableTyped, NamesTyped
<1>2. bytes = Text(<<t>>)
  <2>1. /\ fs_exists(v, Root, Passwd)
        /\ fs_read(v, Root, Passwd, CopyBlocks) = Text(<<t>>)
    BY <1>1, FileReads DEF FileHas, Passwd
  <2> QED BY <2>1 DEF PasswdBytes
<1>3. Len(bytes) = 1 /\ bytes = [k \in 1 .. 1 |-> Data(t)]
  BY <1>1, <1>2, OneBlock
<1> HIDE DEF bytes
<1>4. bytes # <<>> /\ bytes[1] = Data(t)
  BY <1>3
<1>5. bytes[1].kind = "data" /\ bytes[1].pay = t
  BY <1>4 DEF Data
<1>6. Head(t) = "root"
  BY <1>1, TableTyped
<1> QED BY <1>4, <1>5, <1>6 DEF users_load, bytes

LEMMA NothingLoaded ==
    ASSUME NEW v, ~fs_exists(v, Root, Passwd)
    PROVE  PasswdBytes(v) = <<>> /\ users_load(v) = <<>>
<1>1. PasswdBytes(v) = <<>>
  BY DEF PasswdBytes
<1> QED BY <1>1 DEF users_load

-----------------------------------------------------------------------------
(* The boot, step by step *)

\* The first j system files have been written.
FilesHave(v, j) == \A i \in 1 .. j : FileHas(v, FileName(i), SystemFiles[i].text)

\* Nothing else has, and /etc has slots for the rest and the user table.
Fresh(v, j) ==
    /\ FilesHave(v, j)
    /\ \A i \in 1 .. Len(SystemFiles) : i > j => FileOf(v, FileName(i)) = -1
    /\ FileOf(v, "passwd") = -1
    /\ IsFiniteSet(FreeSlots(v, EtcOf(v)))
    /\ Cardinality(FreeSlots(v, EtcOf(v))) \in Nat
    /\ Cardinality(FreeSlots(v, EtcOf(v))) > Len(SystemFiles) - j

\* After the set-up.
InUse ==
    /\ FilesHave(vol, Len(SystemFiles))
    /\ users \in Tables /\ FileHas(vol, "passwd", users) /\ HomesKept(vol, users)
    /\ cwd_inode \notin KeptFiles(vol) /\ Range(cwd) \cap FileNames = {}

\* The invariant: the directories, then the files, then the users.
BootInv ==
    /\ FsInv /\ stage \in 1 .. AtPrompt
    /\ stage < FilesFrom => Booted(vol, stage - 1)
    /\ stage >= FilesFrom => Layout(vol)
    /\ stage >= FilesFrom /\ users = <<>> =>
          Fresh(vol, IF stage = AtPrompt THEN Len(SystemFiles) ELSE stage - FilesFrom)
    /\ users = <<>> => cwd_inode = Root /\ cwd = RootPath.comps
    /\ users # <<>> => stage = AtPrompt /\ InUse

\* The set-up asks its questions at the prompt, with the root account in the table.
QuestionInv == question # "none" => stage = AtPrompt /\ users # <<>>

LEMMA StagesAre ==
    /\ FilesFrom \in Nat /\ FilesFrom = Len(StdDirs) + 1 /\ Len(StdDirs) \in Nat
    /\ UserInitAt \in Nat /\ UserInitAt = FilesFrom + Len(SystemFiles)
    /\ AtPrompt \in Nat /\ AtPrompt = UserInitAt + 1 /\ Len(SystemFiles) \in Nat
    /\ Len(StdDirs) > 0
<1>1. Len(StdDirs) \in Nat /\ Len(SystemFiles) \in Nat
  BY FsAssumption, SystemFileIs
<1>2. Len(StdDirs) > 0
  <2>1. DOMAIN StdDirs # {}
    BY LayoutAssumption
  <2> QED BY <1>1, <2>1, FsAssumption
<1> QED BY <1>1, <1>2 DEF FilesFrom, UserInitAt, AtPrompt

LEMMA BootedFresh ==
    ASSUME NEW v, Booted(v, Len(StdDirs))
    PROVE  Layout(v) /\ Fresh(v, 0)
<1>1. /\ Layout(v) /\ \A name \in FileNames : FileOf(v, name) = -1
      /\ IsFiniteSet(FreeSlots(v, EtcOf(v)))
      /\ Cardinality(FreeSlots(v, EtcOf(v))) \in Nat
      /\ Cardinality(FreeSlots(v, EtcOf(v))) > Len(SystemFiles)
  BY BootedLayout
<1>2. FilesHave(v, 0)
  BY DEF FilesHave
<1>3. Len(SystemFiles) - 0 = Len(SystemFiles)
  BY SystemFileIs
<1> QED BY <1>1, <1>2, <1>3, SystemFileIs, NamesTyped DEF Fresh

LEMMA BootInitInv == BootInit => BootInv
<1> SUFFICES ASSUME BootInit PROVE BootInv
  OBVIOUS
<1>1. Booted(vol, 0)
  BY NewBooted DEF BootInit
<1>2. stage = 1 /\ users = <<>> /\ cwd_inode = Root /\ cwd = RootPath.comps /\ status = "ok"
  BY DEF BootInit
<1>3. SoundInv(vol) /\ Root \in Live(vol)
  <2>1. SoundInv(vol)
    BY <1>1 DEF Booted, Young
  <2> QED BY <2>1, LivePositive DEF SoundInv
<1>4. cwd \in Seq(Comps) /\ cwd # <<>>
  BY <1>2 DEF RootPath, Rooted, Comps
<1>5. FsInv
  BY <1>2, <1>3, <1>4 DEF FsInv
<1>6. stage < FilesFrom /\ stage - 1 = 0 /\ stage \in 1 .. AtPrompt
  BY <1>2, StagesAre
<1> QED BY <1>1, <1>2, <1>5, <1>6, StagesAre DEF BootInv

\* A step of the boot that changes the volume and not the session.
LEMMA DirStep ==
    ASSUME BootInv, fs_init_step
    PROVE  BootInv'
<1>1. /\ stage \in 1 .. Len(StdDirs) /\ stage # AtPrompt /\ stage < FilesFrom
      /\ stage' = stage + 1 /\ vol' = EnsureDir(vol, StdDirs[stage])
      /\ UNCHANGED <<cwd_inode, cwd, status, users>>
      /\ vol.next_inode + Len(StdDirs[stage].comps) - 1 <= MaxInode
  BY StagesAre DEF BootInv, fs_init_step, Room
<1>2. users = <<>> /\ Booted(vol, stage - 1) /\ cwd_inode = Root
  BY <1>1 DEF BootInv
<1>3. Booted(vol', stage)
  BY <1>1, <1>2, NextBooted
<1>4. SoundInv(vol') /\ Root \in Live(vol')
  <2>1. SoundInv(vol')
    BY <1>3 DEF Booted, Young
  <2> QED BY <2>1, LivePositive DEF SoundInv
<1>5. FsInv'
  BY <1>1, <1>2, <1>4 DEF BootInv, FsInv
<1>6. stage' \in 1 .. AtPrompt /\ stage' - 1 = stage /\ stage' # AtPrompt
  BY <1>1, StagesAre
<1>7. CASE stage' < FilesFrom
  BY <1>1, <1>2, <1>3, <1>5, <1>6, <1>7, StagesAre DEF BootInv
<1>8. CASE ~(stage' < FilesFrom)
  <2>1. stage = Len(StdDirs) /\ stage' - FilesFrom = 0
    BY <1>1, <1>8, StagesAre
  <2>2. Layout(vol') /\ Fresh(vol', 0)
    BY <1>3, <2>1, BootedFresh
  <2> QED BY <1>1, <1>2, <1>5, <1>6, <1>8, <2>1, <2>2 DEF BootInv
<1> QED BY <1>7, <1>8

LEMMA FileStep ==
    ASSUME BootInv, init_write_sysfiles
    PROVE  BootInv'
<1> DEFINE j == stage - FilesFrom
           i == j + 1
           name == FileName(i)
           F == FreeSlots(vol, EtcOf(vol))
           n == Len(SystemFiles)
<1>1. /\ stage \in FilesFrom .. UserInitAt - 1 /\ stage' = stage + 1
      /\ vol' = EnsureFile(vol, SystemFiles[i])
      /\ UNCHANGED <<cwd_inode, cwd, status, users>>
      /\ vol.next_inode + 1 - 1 <= MaxInode
  BY DEF init_write_sysfiles, Room
<1>2. /\ j \in Nat /\ i \in 1 .. n /\ stage # AtPrompt /\ stage' # AtPrompt
      /\ stage' \in 1 .. AtPrompt /\ stage' >= FilesFrom /\ ~(stage' < FilesFrom)
      /\ stage' - FilesFrom = i /\ stage >= FilesFrom /\ n \in Nat
  BY <1>1, StagesAre
<1>3. FsInv /\ users = <<>> /\ Layout(vol) /\ Fresh(vol, j)
  BY <1>2 DEF BootInv
<1>4. /\ name \in FileNames /\ name # "passwd" /\ SystemFiles[i].text \in Payloads
      /\ SystemFiles[i].path = Rooted(<<"etc", name>>)
      /\ \A k \in 1 .. n : FileName(k) = name => k = i
  BY <1>2, SystemFileIs
<1>5. FileOf(vol, name) = -1 /\ F # {} /\ IsFiniteSet(F) /\ Cardinality(F) \in Nat
      /\ Cardinality(F) > n - j
  <2>1. FileOf(vol, name) = -1
    BY <1>2, <1>3 DEF Fresh
  <2>2. Cardinality(F) \in Nat /\ Cardinality(F) > n - j /\ IsFiniteSet(F)
    BY <1>3 DEF Fresh
  <2>3. Cardinality(F) # 0
    BY <1>2, <2>2
  <2> QED BY <2>1, <2>2, <2>3, FS_EmptySet
<1>6. vol.next_inode <= MaxInode
  BY <1>1, <1>3 DEF FsInv, SoundInv, VolumeType
<1> HIDE DEF i, j, name, F, n
<1>7. vol' = Put(vol, Rooted(<<"etc", name>>), SystemFiles[i].text)
  <2>1. ~fs_exists(vol, Root, SystemFiles[i].path)
    BY <1>3, <1>4, <1>5, FilePath
  <2> QED BY <1>1, <1>4, <2>1 DEF EnsureFile
<1>8. /\ Updates(vol, vol', name)
      /\ ext2_read_file(vol', FileOf(vol', name)) = Text(<<SystemFiles[i].text>>)
      /\ FreeSlots(vol', EtcOf(vol)) = F \ {Min(F)}
  BY <1>3, <1>4, <1>5, <1>6, <1>7, PutFile DEF F
<1>9. Layout(vol') /\ Live(vol) \subseteq Live(vol') /\ EtcOf(vol') = EtcOf(vol)
  BY <1>8 DEF Updates
<1>10. FsInv'
  BY <1>1, <1>3, <1>9 DEF FsInv, Layout
<1>11. FilesHave(vol', i)
  <2> SUFFICES ASSUME NEW k \in 1 .. i
               PROVE  FileHas(vol', FileName(k), SystemFiles[k].text)
    BY DEF FilesHave
  <2>1. CASE k = i
    BY <1>8, <2>1 DEF FileHas, Updates, name
  <2>2. CASE k # i
    <3>1. k \in 1 .. j /\ k \in 1 .. n
      BY <1>2, <2>2 DEF i
    <3>2. FileHas(vol, FileName(k), SystemFiles[k].text)
      BY <1>3, <3>1 DEF Fresh, FilesHave
    <3>3. FileName(k) \in FileNames \ {name}
      BY <1>4, <2>2, <3>1, SystemFileIs DEF n
    <3> QED BY <1>3, <1>4, <1>8, <3>2, <3>3, UpdatesFiles
  <2> QED BY <2>1, <2>2
<1>12. \A k \in 1 .. n : k > i => FileOf(vol', FileName(k)) = -1
  <2> SUFFICES ASSUME NEW k \in 1 .. n, k > i PROVE FileOf(vol', FileName(k)) = -1
    OBVIOUS
  <2>1. k > j /\ k # i
    BY <1>2 DEF i
  <2>2. FileName(k) \in FileNames \ {name}
    BY <1>4, <2>1, SystemFileIs DEF n
  <2>3. FileOf(vol, FileName(k)) = -1
    BY <1>3, <2>1 DEF Fresh, n
  <2> QED BY <1>8, <2>2, <2>3 DEF Updates
<1>13. FileOf(vol', "passwd") = -1
  BY <1>3, <1>4, <1>8, NamesTyped DEF Updates, Fresh
<1>14. /\ IsFiniteSet(F \ {Min(F)}) /\ Cardinality(F \ {Min(F)}) \in Nat
       /\ Cardinality(F \ {Min(F)}) > n - i
  <2> DEFINE m == Min(F)
  <2>1. F \subseteq Nat
    <3>1. Index \subseteq Nat
      BY <1>3, LiveTyped DEF Layout, SoundInv
    <3> QED BY <3>1 DEF F, FreeSlots
  <2>2. m \in F
    BY <1>5, <2>1, MinIsLeast
  <2> HIDE DEF m
  <2>3. IsFiniteSet(F \ {m}) /\ Cardinality(F \ {m}) = Cardinality(F) - 1
    BY <1>5, <2>2, FS_RemoveElement
  <2>4. Cardinality(F \ {m}) \in Nat
    BY <2>3, FS_CardinalityType
  <2>5. Cardinality(F \ {m}) > n - i
    BY <1>2, <1>5, <2>3, <2>4 DEF i
  <2> QED BY <2>3, <2>4, <2>5 DEF m
<1>15. Fresh(vol', i)
  BY <1>8, <1>9, <1>11, <1>12, <1>13, <1>14 DEF Fresh, n
<1>16. cwd_inode = Root /\ cwd = RootPath.comps
  BY <1>3 DEF BootInv
<1> QED BY <1>1, <1>2, <1>3, <1>9, <1>10, <1>15, <1>16 DEF BootInv

-----------------------------------------------------------------------------
(* The user table *)

\* From v to w no inode that was not a file of the system has become one.
Serves(v, w) ==
    Layout(w) /\ Live(v) \subseteq Live(w) /\ KeptFiles(w) \cap Live(v) \subseteq KeptFiles(v)

LEMMA SteadyServes ==
    ASSUME NEW v, Layout(v), NEW w, Steady(v, w)
    PROVE  Serves(v, w)
BY SteadyKeeps DEF Serves, Steady

LEMMA UpdatesServes ==
    ASSUME NEW v, Layout(v), NEW w, NEW name, Updates(v, w, name)
    PROVE  Serves(v, w)
<1>1. v.next_inode \notin Live(v)
  <2>1. v.next_inode \in FirstInode .. MaxInode + 1
    BY DEF Layout, SoundInv, VolumeType
  <2>2. FirstInode \in Nat /\ FirstInode > 2 /\ MaxInode \in Nat
    BY Ext2Assumption DEF Root
  <2> QED BY <2>1, <2>2 DEF Live, Root
<1> QED BY <1>1 DEF Serves, Updates

LEMMA ServesTwice ==
    ASSUME NEW u, NEW v, NEW w, Serves(u, v), Serves(v, w)
    PROVE  Serves(u, w)
BY DEF Serves

\* The file of the table is saved.
LEMMA SavedTable ==
    ASSUME NEW v, Layout(v), NEW t \in Tables, FilesHave(v, Len(SystemFiles)),
           FileOf(v, "passwd") = -1 => v.next_inode <= MaxInode /\ FreeSlots(v, EtcOf(v)) # {}
    PROVE  LET w == users_save(v, t)
           IN  /\ Updates(v, w, "passwd") /\ Serves(v, w)
               /\ FileHas(w, "passwd", t) /\ FilesHave(w, Len(SystemFiles))
               /\ FileOf(v, "passwd") # -1 => w.next_inode = v.next_inode
<1> DEFINE w == users_save(v, t)
           n == Len(SystemFiles)
<1>1. "passwd" \in FileNames /\ t \in Payloads
  BY NamesTyped, TableTyped
<1>2. w = Put(v, Rooted(<<"etc", "passwd">>), t)
  BY DEF users_save, Passwd
<1> HIDE DEF w, n
<1>3. /\ Updates(v, w, "passwd")
      /\ ext2_read_file(w, FileOf(w, "passwd")) = Text(<<t>>)
      /\ FileOf(v, "passwd") # -1 => w.next_inode = v.next_inode
  BY <1>1, <1>2, PutFile
<1>4. FileHas(w, "passwd", t)
  BY <1>3 DEF Updates, FileHas
<1>5. FilesHave(w, n)
  <2> SUFFICES ASSUME NEW k \in 1 .. n
               PROVE  FileHas(w, FileName(k), SystemFiles[k].text)
    BY DEF FilesHave
  <2>1. FileHas(v, FileName(k), SystemFiles[k].text)
    BY DEF FilesHave, n
  <2>2. FileName(k) \in FileNames \ {"passwd"}
    BY SystemFileIs DEF n
  <2> QED BY <1>1, <1>3, <2>1, <2>2, UpdatesFiles
<1>6. Serves(v, w)
  BY <1>3, UpdatesServes
<1> QED BY <1>3, <1>4, <1>5, <1>6 DEF w, n

\* A user is added: its home directory, then the table.
LEMMA AddedTable ==
    ASSUME NEW v, Layout(v), NEW table \in Tables, NEW user \in Users,
           Append(table, user) \in Tables, NEW cur,
           FilesHave(v, Len(SystemFiles)), FileOf(v, "passwd") # -1, HomesKept(v, table),
           v.next_inode + 1 <= MaxInode
    PROVE  LET w == user_add(v, cur, table, user)
           IN  /\ Serves(v, w) /\ FileHas(w, "passwd", Append(table, user))
               /\ FilesHave(w, Len(SystemFiles)) /\ HomesKept(w, Append(table, user))
<1> DEFINE h == fs_create_home(v, cur, user)
           t == Append(table, user)
           w == users_save(h, t)
           n == Len(SystemFiles)
<1>1. user_add(v, cur, table, user) = w
  BY AddedUser
<1>2. Steady(v, h) /\ (FreeSlots(h, HomeOf(v)) # {} => ext2_find_inode(h, HomeOf(v), user) # -1)
  BY HomeSteady
<1> HIDE DEF h, t, w, n
<1>3. Layout(h) /\ HomeOf(h) = HomeOf(v) /\ Serves(v, h)
  BY <1>2, SteadyServes DEF Steady
<1>4. FilesHave(h, n)
  <2> SUFFICES ASSUME NEW k \in 1 .. n
               PROVE  FileHas(h, FileName(k), SystemFiles[k].text)
    BY DEF FilesHave
  <2>1. FileHas(v, FileName(k), SystemFiles[k].text)
    BY DEF FilesHave, n
  <2>2. FileName(k) \in FileNames
    BY SystemFileIs DEF n
  <2> QED BY <1>2, <2>1, <2>2, SteadyFiles
<1>5. FileOf(h, "passwd") # -1
  BY <1>2, NamesTyped DEF Steady
<1>6. Range(t) = Range(table) \cup {user} /\ Range(table) \subseteq Users \cup {"root"}
  <2>1. table \in Seq(Users \cup {"root"}) /\ Range(table) \subseteq Users \cup {"root"}
    BY TableTyped
  <2>2. Len(t) = Len(table) + 1 /\ Len(table) \in Nat /\ DOMAIN table = 1 .. Len(table)
        /\ DOMAIN t = 1 .. Len(t) /\ t[Len(t)] = user
        /\ \A i \in DOMAIN table : t[i] = table[i]
    BY <2>1 DEF t
  <2>3. \A i \in DOMAIN t : i = Len(t) \/ i \in DOMAIN table
    BY <2>2
  <2>4. DOMAIN table \subseteq DOMAIN t /\ Len(t) \in DOMAIN t
    BY <2>2
  <2> QED BY <2>1, <2>2, <2>3, <2>4 DEF Range
<1>7. HomesKept(h, t)
  <2>1. HomesKept(h, table)
    BY <1>2, <1>6, HomesStay
  <2> QED BY <1>2, <1>3, <1>6, <2>1 DEF HomesKept
<1>8. t \in Tables
  BY DEF t
<1>9. /\ Updates(h, w, "passwd") /\ Serves(h, w) /\ FileHas(w, "passwd", t) /\ FilesHave(w, n)
  BY <1>3, <1>4, <1>5, <1>8, SavedTable DEF w, n
<1>10. Range(t) \subseteq Users \cup {"root"}
  BY <1>8, TableTyped
<1>11. HomesKept(w, t)
  BY <1>7, <1>9, <1>10, HomesStay
<1>12. Serves(v, w)
  BY <1>3, <1>9, ServesTwice
<1> QED BY <1>1, <1>9, <1>11, <1>12 DEF t, n

\* user_init finds /etc, and no user table on a fresh volume.
LEMMA UserInitStep ==
    ASSUME BootInv, user_init
    PROVE  BootInv'
<1> DEFINE n == Len(SystemFiles)
<1>1. /\ stage = UserInitAt /\ stage' = AtPrompt
      /\ vol' = IF fs_exists(vol, Root, Etc) THEN vol ELSE fs_mkdir(vol, Root, Etc)
      /\ users' = users_load(vol')
      /\ UNCHANGED <<cwd_inode, cwd, status>>
  BY DEF user_init
<1>2. /\ stage >= FilesFrom /\ stage # AtPrompt /\ stage - FilesFrom = n
      /\ stage' \in 1 .. AtPrompt /\ ~(stage' < FilesFrom) /\ stage' >= FilesFrom
  BY <1>1, StagesAre
<1> HIDE DEF n
<1>3. FsInv /\ users = <<>> /\ Layout(vol) /\ Fresh(vol, n)
      /\ cwd_inode = Root /\ cwd = RootPath.comps
  BY <1>2 DEF BootInv
<1>4. vol' = vol
  BY <1>1, <1>3, FilePath, NamesTyped
<1>5. ~fs_exists(vol, Root, Passwd)
  BY <1>3, FilePath, NamesTyped DEF Fresh, Passwd
<1>6. users' = <<>>
  BY <1>1, <1>4, <1>5, NothingLoaded
<1>7. FsInv'
  BY <1>1, <1>3, <1>4 DEF FsInv
<1> QED BY <1>1, <1>2, <1>3, <1>4, <1>6, <1>7 DEF BootInv, n

\* The table of the root account alone.
LEMMA RootTable == <<"root">> \in Tables /\ Range(<<"root">>) = {"root"}
<1> DEFINE r == "root"
<1>1. <<r>> \in Seq(Users \cup {r}) /\ <<r>> # <<>> /\ <<r>>[1] = r
      /\ DOMAIN <<r>> = {1}
  OBVIOUS
<1>2. \A i, j \in DOMAIN <<r>> : <<r>>[i] = <<r>>[j] => i = j
  BY <1>1
<1>3. <<r>> \in Tables
  BY <1>1, <1>2, TableMade
<1>4. Range(<<r>>) = {r}
  BY <1>1 DEF Range
<1> QED BY <1>3, <1>4

\* The first answer of the set-up: /etc has room for the file.
LEMMA SetupRootStep ==
    ASSUME BootInv, setup_root
    PROVE  BootInv'
<1> DEFINE n == Len(SystemFiles)
           r == <<"root">>
<1>1. /\ stage = AtPrompt /\ users = <<>> /\ users' = r /\ vol' = users_save(vol, r)
      /\ vol.next_inode + 1 - 1 <= MaxInode
      /\ UNCHANGED <<cwd_inode, cwd, status, stage>>
  BY DEF setup_root, Room
<1>2. stage >= FilesFrom /\ ~(stage < FilesFrom) /\ stage' \in 1 .. AtPrompt
  BY <1>1, StagesAre
<1>3. r \in Tables /\ Range(r) = {"root"} /\ r # <<>>
  BY RootTable
<1> HIDE DEF n, r
<1>4. FsInv /\ Layout(vol) /\ Fresh(vol, n) /\ cwd_inode = Root /\ cwd = RootPath.comps
  BY <1>1, <1>2 DEF BootInv, n
<1>5. vol.next_inode <= MaxInode
  <2>1. vol.next_inode \in FirstInode .. MaxInode + 1
    BY <1>4 DEF FsInv, SoundInv, VolumeType
  <2>2. FirstInode \in Nat /\ MaxInode \in Nat
    BY Ext2Assumption
  <2> QED BY <1>1, <2>1, <2>2
<1>6. FreeSlots(vol, EtcOf(vol)) # {}
  <2>1. Cardinality(FreeSlots(vol, EtcOf(vol))) > n - n
        /\ Cardinality(FreeSlots(vol, EtcOf(vol))) \in Nat /\ n \in Nat
    BY <1>4, SystemFileIs DEF Fresh, n
  <2>2. Cardinality(FreeSlots(vol, EtcOf(vol))) # 0
    BY <2>1
  <2> QED BY <2>2, FS_EmptySet
<1>7. /\ Serves(vol, vol') /\ FileHas(vol', "passwd", r) /\ FilesHave(vol', n)
  <2>1. FilesHave(vol, n)
    BY <1>4 DEF Fresh
  <2> QED BY <1>1, <1>3, <1>4, <1>5, <1>6, <2>1, SavedTable DEF n
<1>8. HomesKept(vol', r)
  BY <1>3 DEF HomesKept
<1>9. Layout(vol') /\ FsInv'
  BY <1>1, <1>4, <1>7 DEF Serves, Layout, FsInv
<1>10. cwd_inode' \notin KeptFiles(vol') /\ Range(cwd') \cap FileNames = {}
  <2>1. Root \in Live(vol) /\ Root \notin KeptFiles(vol)
    BY <1>4, GuardedLive DEF Layout
  <2>2. cwd' = <<Blank>>
    BY <1>1, <1>4 DEF RootPath, Rooted
  <2>3. Range(cwd') = {Blank}
    BY <2>2 DEF Range
  <2>4. Blank \notin FileNames
    BY NamesTyped DEF Protected
  <2> QED BY <1>1, <1>4, <1>7, <2>1, <2>3, <2>4 DEF Serves
<1>11. InUse'
  BY <1>1, <1>3, <1>7, <1>8, <1>10 DEF InUse, n
<1> QED BY <1>1, <1>2, <1>3, <1>9, <1>11 DEF BootInv

\* An account is added, by the set-up or by useradd.
LEMMA AddStep ==
    ASSUME BootInv, NEW user \in Users, stage = AtPrompt, users # <<>>,
           user \notin Range(users), users' = Append(users, user),
           vol' = user_add(vol, cwd_inode, users, user),
           vol.next_inode + 2 - 1 <= MaxInode,
           UNCHANGED <<cwd_inode, cwd, status, stage>>
    PROVE  BootInv'
<1> DEFINE n == Len(SystemFiles)
           t == Append(users, user)
<1>1. /\ stage = AtPrompt /\ users # <<>> /\ users' = t /\ user \notin Range(users)
      /\ vol' = user_add(vol, cwd_inode, users, user)
      /\ vol.next_inode + 2 - 1 <= MaxInode
      /\ UNCHANGED <<cwd_inode, cwd, status, stage>>
  OBVIOUS
<1>2. stage >= FilesFrom /\ ~(stage < FilesFrom) /\ stage' \in 1 .. AtPrompt
  BY <1>1, StagesAre
<1>3. FsInv /\ Layout(vol) /\ InUse
  BY <1>1, <1>2 DEF BootInv
<1>4. vol.next_inode + 1 <= MaxInode
  <2>1. vol.next_inode \in FirstInode .. MaxInode + 1
    BY <1>3 DEF FsInv, SoundInv, VolumeType
  <2>2. FirstInode \in Nat /\ MaxInode \in Nat
    BY Ext2Assumption
  <2> QED BY <1>1, <2>1, <2>2
<1>5. t \in Tables /\ t # <<>>
  <2>1. /\ users \in Seq(Users \cup {"root"}) /\ users[1] = "root"
        /\ Len(users) \in Nat /\ Len(users) > 0 /\ DOMAIN users = 1 .. Len(users)
        /\ \A i, j \in DOMAIN users : users[i] = users[j] => i = j
    BY <1>3, TableTyped DEF InUse
  <2>2. /\ t \in Seq(Users \cup {"root"}) /\ Len(t) = Len(users) + 1 /\ t # <<>>
        /\ DOMAIN t = 1 .. Len(t) /\ t[Len(t)] = user
        /\ \A i \in DOMAIN users : t[i] = users[i]
    BY <2>1
  <2>3. \A i \in DOMAIN users : users[i] # user
    BY <1>1 DEF Range
  <2> HIDE DEF t
  <2>4. \A i \in DOMAIN t : i = Len(t) \/ i \in DOMAIN users
    BY <2>1, <2>2
  <2>5. t[1] = "root"
    BY <2>1, <2>2
  <2>6. \A i, j \in DOMAIN t : t[i] = t[j] => i = j
    <3> SUFFICES ASSUME NEW i \in DOMAIN t, NEW j \in DOMAIN t, t[i] = t[j] PROVE i = j
      OBVIOUS
    <3>1. CASE i \in DOMAIN users /\ j \in DOMAIN users
      BY <2>1, <2>2, <3>1
    <3>2. CASE i = Len(t) /\ j \in DOMAIN users
      BY <2>2, <2>3, <3>2
    <3>3. CASE j = Len(t) /\ i \in DOMAIN users
      BY <2>2, <2>3, <3>3
    <3> QED BY <2>4, <3>1, <3>2, <3>3
  <2> QED BY <2>2, <2>5, <2>6, TableMade
<1> HIDE DEF n, t
<1>6. FilesHave(vol, n) /\ FileOf(vol, "passwd") # -1 /\ HomesKept(vol, users)
      /\ users \in Tables
  BY <1>3 DEF InUse, FileHas, n
<1>7. /\ Serves(vol, vol') /\ FileHas(vol', "passwd", t)
      /\ FilesHave(vol', n) /\ HomesKept(vol', t)
  BY <1>1, <1>3, <1>4, <1>5, <1>6, AddedTable DEF n, t
<1>8. Layout(vol') /\ FsInv'
  BY <1>1, <1>3, <1>7 DEF Serves, Layout, FsInv
<1>9. cwd_inode' \notin KeptFiles(vol') /\ Range(cwd') \cap FileNames = {}
  BY <1>1, <1>3, <1>7 DEF InUse, Serves, FsInv
<1>10. InUse'
  BY <1>1, <1>5, <1>7, <1>9 DEF InUse, n
<1> QED BY <1>1, <1>2, <1>5, <1>8, <1>10 DEF BootInv

LEMMA SetupUserStep ==
    ASSUME BootInv, QuestionInv, NEW user \in Users, setup_user(user)
    PROVE  BootInv'
<1>1. /\ stage = AtPrompt /\ users # <<>> /\ user \notin Range(users)
      /\ users' = Append(users, user) /\ vol' = user_add(vol, cwd_inode, users, user)
      /\ vol.next_inode + 2 - 1 <= MaxInode
      /\ UNCHANGED <<cwd_inode, cwd, status, stage>>
  BY DEF setup_user, Room, QuestionInv
<1> QED BY <1>1, AddStep

LEMMA UseraddStep ==
    ASSUME BootInv, NEW user \in Users, cmd_useradd(user)
    PROVE  BootInv'
<1>1. /\ stage = AtPrompt /\ users # <<>> /\ user \notin Range(users)
      /\ users' = Append(users, user) /\ vol' = user_add(vol, cwd_inode, users, user)
      /\ vol.next_inode + 2 - 1 <= MaxInode
      /\ UNCHANGED <<cwd_inode, cwd, status, stage>>
  BY DEF cmd_useradd, Typed, Room
<1> QED BY <1>1, AddStep

\* The last answer: the table is saved once more, or not.
LEMMA SetupGroupStep ==
    ASSUME BootInv, QuestionInv, NEW sudo \in BOOLEAN, setup_group(sudo)
    PROVE  BootInv'
<1> DEFINE n == Len(SystemFiles)
<1>1. /\ stage = AtPrompt /\ users # <<>>
      /\ vol' = IF sudo THEN users_save(vol, users) ELSE vol
      /\ UNCHANGED <<cwd_inode, cwd, status, users, stage>>
  BY DEF setup_group, QuestionInv
<1>2. CASE ~sudo
  BY <1>1, <1>2 DEF BootInv, FsInv, InUse
<1>3. CASE sudo
  <2>1. stage >= FilesFrom /\ ~(stage < FilesFrom) /\ stage' \in 1 .. AtPrompt
    BY <1>1, StagesAre
  <2>2. FsInv /\ Layout(vol) /\ InUse
    BY <1>1, <2>1 DEF BootInv
  <2>3. users \in Tables /\ Range(users) \subseteq Users \cup {"root"}
    BY <2>2, TableTyped DEF InUse
  <2> HIDE DEF n
  <2>4. FilesHave(vol, n) /\ FileOf(vol, "passwd") # -1 /\ HomesKept(vol, users)
    BY <2>2 DEF InUse, FileHas, n
  <2>5. vol' = users_save(vol, users)
    BY <1>1, <1>3
  <2>6. /\ Updates(vol, vol', "passwd") /\ Serves(vol, vol') /\ FileHas(vol', "passwd", users)
        /\ FilesHave(vol', n)
    BY <2>2, <2>3, <2>4, <2>5, SavedTable DEF n
  <2>7. HomesKept(vol', users)
    BY <2>3, <2>4, <2>6, HomesStay
  <2>8. Layout(vol') /\ FsInv'
    BY <1>1, <2>2, <2>6 DEF Serves, Layout, FsInv
  <2>9. cwd_inode' \notin KeptFiles(vol') /\ Range(cwd') \cap FileNames = {}
    BY <1>1, <2>2, <2>6 DEF InUse, Serves, FsInv
  <2>10. InUse'
    BY <1>1, <2>3, <2>6, <2>7, <2>9 DEF InUse, n
  <2> QED BY <1>1, <2>1, <2>8, <2>10 DEF BootInv
<1> QED BY <1>2, <1>3

\* A table without one of its users, who is not the first.
LEMMA RemovedTable ==
    ASSUME NEW s \in Tables, NEW k \in DOMAIN s, s[k] # "root"
    PROVE  RemoveAt(s, k) \in Tables /\ Range(RemoveAt(s, k)) \subseteq Range(s)
<1> DEFINE t == RemoveAt(s, k)
           n == Len(s)
           f(i) == IF i < k THEN i ELSE i + 1
<1>1. /\ s \in Seq(Users \cup {"root"}) /\ s[1] = "root"
      /\ n \in Nat /\ n > 0 /\ DOMAIN s = 1 .. n
      /\ \A i, j \in DOMAIN s : s[i] = s[j] => i = j
  BY TableTyped
<1>2. k \in 1 .. n /\ k # 1
  BY <1>1
<1>3. /\ t \in Seq(Users \cup {"root"}) /\ Len(t) = n - 1
      /\ \A i \in 1 .. n - 1 : t[i] = s[f(i)]
  <2> DEFINE A == Users \cup {"root"}
             p == SubSeq(s, 1, k - 1)
             q == SubSeq(s, k + 1, n)
  <2>0. s \in Seq(A) /\ t = p \o q
    BY <1>1 DEF RemoveAt
  <2> HIDE DEF A, t, n
  <2>1. p \in Seq(A) /\ Len(p) = k - 1 /\ \A i \in 1 .. k - 1 : p[i] = s[i]
    BY <1>1, <1>2, <2>0 DEF n
  <2>2. q \in Seq(A) /\ Len(q) = n - k /\ \A i \in 1 .. n - k : q[i] = s[k + i]
    <3>1. n = Len(s) /\ n \in Nat /\ k \in Nat /\ k <= n
      BY <1>1, <1>2 DEF n
    <3>2. q \in Seq(A)
      BY <2>0, <3>1, SubSeqProperties
    <3>3. Len(q) = n - k
      BY <2>0, <3>1, SubSeqProperties
    <3>4. \A i \in 1 .. n - k : q[i] = s[k + i]
      <4>1. \A i \in 1 .. n - k : q[i] = s[k + 1 + i - 1]
        BY <2>0, <3>1, <3>3, SubSeqProperties
      <4>2. \A i \in 1 .. n - k : k + 1 + i - 1 = k + i
        BY <3>1
      <4> QED BY <4>1, <4>2
    <3> QED BY <3>2, <3>3, <3>4
  <2> HIDE DEF p, q
  <2>3. t \in Seq(A) /\ Len(t) = n - 1
    <3>1. t \in Seq(A) /\ Len(t) = Len(p) + Len(q)
      BY <2>0, <2>1, <2>2, ConcatProperties
    <3> QED BY <1>1, <1>2, <2>1, <2>2, <3>1
  <2>4. ASSUME NEW i \in 1 .. n - 1 PROVE t[i] = s[f(i)]
    <3>1. CASE i < k
      <4>1. i \in 1 .. Len(p)
        BY <1>1, <1>2, <2>1, <3>1
      <4>2. t[i] = p[i]
        BY <2>0, <2>1, <2>2, <4>1
      <4> QED BY <2>1, <3>1, <4>1, <4>2
    <3>2. CASE ~(i < k)
      <4>1. i \in Len(p) + 1 .. Len(p) + Len(q) /\ i - Len(p) \in 1 .. n - k
        BY <1>1, <1>2, <2>1, <2>2, <3>2
      <4>2. t[i] = q[i - Len(p)]
        <5>1. \A j \in 1 .. Len(p) + Len(q) :
                 t[j] = IF j <= Len(p) THEN p[j] ELSE q[j - Len(p)]
          BY <2>0, <2>1, <2>2, ConcatProperties
        <5>2. i \in 1 .. Len(p) + Len(q) /\ ~(i <= Len(p))
          BY <1>2, <2>1, <4>1
        <5> QED BY <5>1, <5>2
      <4>3. k + (i - Len(p)) = i + 1
        BY <1>2, <2>1
      <4> QED BY <2>2, <3>2, <4>1, <4>2, <4>3
    <3> QED BY <3>1, <3>2
  <2> QED BY <2>3, <2>4 DEF A
<1>4. DOMAIN t = 1 .. n - 1 /\ 1 \in DOMAIN t /\ \A i \in DOMAIN t : f(i) \in DOMAIN s
  BY <1>1, <1>2, <1>3
<1> HIDE DEF t, n
<1>5. t # <<>> /\ t[1] = "root"
  <2>1. 1 \in 1 .. n - 1 /\ f(1) = 1
    BY <1>1, <1>2
  <2> QED BY <1>1, <1>3, <1>4, <2>1
<1>6. \A i, j \in DOMAIN t : t[i] = t[j] => i = j
  <2> SUFFICES ASSUME NEW i \in DOMAIN t, NEW j \in DOMAIN t, t[i] = t[j] PROVE i = j
    OBVIOUS
  <2>1. f(i) = f(j)
    BY <1>1, <1>3, <1>4
  <2>2. i \in 1 .. n - 1 /\ j \in 1 .. n - 1
    BY <1>4
  <2> QED BY <1>1, <1>2, <2>1, <2>2
<1>7. t \in Tables
  BY <1>3, <1>5, <1>6, TableMade
<1>8. Range(t) \subseteq Range(s)
  BY <1>3, <1>4 DEF Range
<1> QED BY <1>7, <1>8 DEF t

LEMMA DelStep ==
    ASSUME BootInv, NEW user \in Users, cmd_userdel(user)
    PROVE  BootInv'
<1> DEFINE n == Len(SystemFiles)
<1>1. /\ stage = AtPrompt /\ users # <<>> /\ user # "root"
      /\ vol' = users_save(vol, users')
      /\ UNCHANGED <<cwd_inode, cwd, status, stage>>
  BY DEF cmd_userdel, Typed
<1>2. PICK k \in DOMAIN users : users[k] = user /\ users' = RemoveAt(users, k)
  BY DEF cmd_userdel
<1>3. stage >= FilesFrom /\ ~(stage < FilesFrom) /\ stage' \in 1 .. AtPrompt
  BY <1>1, StagesAre
<1>4. FsInv /\ Layout(vol) /\ InUse
  BY <1>1, <1>3 DEF BootInv
<1>5. users' \in Tables /\ Range(users') \subseteq Range(users) /\ users \in Tables
  BY <1>1, <1>2, <1>4, RemovedTable DEF InUse
<1>6. users' # <<>> /\ Range(users') \subseteq Users \cup {"root"}
  BY <1>5, TableTyped
<1> HIDE DEF n
<1>7. FilesHave(vol, n) /\ FileOf(vol, "passwd") # -1 /\ HomesKept(vol, users')
  BY <1>4, <1>5 DEF InUse, FileHas, HomesKept, n
<1>8. /\ Updates(vol, vol', "passwd") /\ Serves(vol, vol') /\ FileHas(vol', "passwd", users')
      /\ FilesHave(vol', n)
  BY <1>1, <1>4, <1>5, <1>7, SavedTable DEF n
<1>9. HomesKept(vol', users')
  BY <1>6, <1>7, <1>8, HomesStay
<1>10. Layout(vol') /\ FsInv'
  BY <1>1, <1>4, <1>8 DEF Serves, Layout, FsInv
<1>11. cwd_inode' \notin KeptFiles(vol') /\ Range(cwd') \cap FileNames = {}
  BY <1>1, <1>4, <1>8 DEF InUse, Serves, FsInv
<1>12. InUse'
  BY <1>5, <1>8, <1>9, <1>11 DEF InUse, n
<1> QED BY <1>1, <1>3, <1>6, <1>10, <1>12 DEF BootInv

-----------------------------------------------------------------------------
(* The current directory *)

\* A cd along a path without a name of a file does not go into a file.
LEMMA CdAvoids ==
    ASSUME FsInv, Layout(vol), cwd_inode \notin KeptFiles(vol), Range(cwd) \cap FileNames = {},
           NEW path, path \in PathNames \cup {RootPath, DotDot},
           Range(path.comps) \cap FileNames = {}, cmd_cd(path)
    PROVE  /\ vol' = vol /\ cwd_inode' \notin KeptFiles(vol)
           /\ Range(cwd') \cap FileNames = {}
<1>0. /\ cwd_inode \in Live(vol) \ KeptFiles(vol) /\ cwd \in Seq(Comps) /\ cwd # <<>>
      /\ Root \notin KeptFiles(vol)
  BY DEF FsInv, Layout
<1>1. vol' = vol
  BY DEF cmd_cd, cd_up, cd_to, GoRoot
<1>2. CASE GoRoot
  <2>1. cwd' = <<Blank>> /\ cwd_inode' = Root
    BY <1>2 DEF GoRoot, RootPath, Rooted
  <2>2. Range(cwd') = {Blank}
    BY <2>1 DEF Range
  <2> QED BY <1>0, <1>1, <2>1, <2>2, NamesTyped DEF Protected
<1>3. CASE cd_up /\ ~GoRoot
  <2> DEFINE p == Rooted(Front(cwd))
             i == fs_resolve_inode(vol, cwd_inode, p)
  <2>1. Len(cwd) # 1 /\ ~(i < 0) /\ cwd_inode' = i /\ cwd' = Front(cwd)
    BY <1>3 DEF cd_up
  <2>2. Front(cwd) \in Seq(Comps) /\ Len(cwd) \in Nat /\ Len(Front(cwd)) = Len(cwd) - 1
    BY <1>0, FrontTyped
  <2>3. Len(cwd) # 0
    BY <1>0
  <2>4. Front(cwd) # <<>>
    BY <2>1, <2>2, <2>3
  <2>5. p \in PathNames /\ p.comps = Front(cwd)
    BY <2>2, <2>4 DEF Rooted, PathNames, Comps
  <2>6. Range(Front(cwd)) \subseteq Range(cwd)
    BY <1>0, FrontRange
  <2> HIDE DEF p
  <2>7. i \in (Live(vol) \ KeptFiles(vol)) \cup {-1}
    BY <1>0, <2>5, <2>6, PathAvoids
  <2> HIDE DEF i
  <2>8. i # -1
    BY <2>1
  <2> QED BY <1>1, <2>1, <2>6, <2>7, <2>8
<1>4. CASE cd_to(path) /\ path \in PathNames
  <2> DEFINE i == fs_resolve_inode(vol, cwd_inode, path)
             joined == IF cwd = RootPath.comps THEN path.comps ELSE cwd \o path.comps
  <2>1. path.comps \in Seq(Comps)
    BY <1>4 DEF PathNames, Comps
  <2>2. Range(joined) \subseteq Range(cwd) \cup Range(path.comps)
    <3>1. Range(cwd \o path.comps) \subseteq Range(cwd) \cup Range(path.comps)
      BY <1>0, <2>1 DEF Range
    <3> QED BY <3>1
  <2>3. i \in (Live(vol) \ KeptFiles(vol)) \cup {-1}
    BY <1>0, <1>4, PathAvoids
  <2> HIDE DEF i, joined
  <2>4. \/ /\ i >= 0 /\ cwd_inode' = i
           /\ cwd' \in {path.comps, joined, cwd}
        \/ cwd_inode' = cwd_inode /\ cwd' = cwd
    BY <1>4 DEF cd_to, i, joined
  <2>5. i >= 0 => i \notin KeptFiles(vol)
    BY <2>3
  <2>6. Range(cwd') \cap FileNames = {}
    BY <2>2, <2>4
  <2> QED BY <1>0, <1>1, <2>4, <2>5, <2>6
<1> QED BY <1>2, <1>3, <1>4 DEF cmd_cd

LEMMA CdBoot ==
    ASSUME BootInv, stage = AtPrompt, users # <<>>,
           NEW path, path \in PathNames \cup {RootPath, DotDot},
           Range(path.comps) \cap FileNames = {}, cmd_cd(path), UNCHANGED <<users, stage>>
    PROVE  BootInv'
<1>1. stage >= FilesFrom /\ ~(stage < FilesFrom) /\ stage' \in 1 .. AtPrompt
  BY StagesAre
<1>2. FsInv /\ Layout(vol) /\ InUse
  BY <1>1 DEF BootInv
<1>3. /\ vol' = vol /\ cwd_inode' \notin KeptFiles(vol)
      /\ Range(cwd') \cap FileNames = {}
  BY <1>2, CdAvoids DEF InUse
<1>4. FsInv'
  BY <1>2, CdInv
<1>5. InUse'
  BY <1>2, <1>3 DEF InUse
<1> QED BY <1>1, <1>2, <1>3, <1>4, <1>5 DEF BootInv

LEMMA LoginStep ==
    ASSUME BootInv, user_login
    PROVE  BootInv'
<1>1. /\ stage = AtPrompt /\ UNCHANGED <<users, stage>>
      /\ \E user \in Range(users) :
            cmd_cd(IF user = "root" THEN RootPath ELSE Rooted(<<"home", user>>))
  BY DEF user_login
<1>2. PICK user \in Range(users) :
         cmd_cd(IF user = "root" THEN RootPath ELSE Rooted(<<"home", user>>))
  BY <1>1
<1>3. users # <<>>
  BY DEF Range
<1>4. user \in Users \cup {"root"}
  <2>1. users \in Tables
    BY <1>3 DEF BootInv, InUse
  <2> QED BY <2>1, TableTyped
<1> DEFINE path == IF user = "root" THEN RootPath ELSE Rooted(<<"home", user>>)
<1>5. path \in PathNames \cup {RootPath, DotDot} /\ Range(path.comps) \cap FileNames = {}
  <2>1. CASE user = "root"
    <3>1. path = RootPath /\ path.comps = <<Blank>>
      BY <2>1 DEF RootPath, Rooted
    <3>2. Range(path.comps) = {Blank}
      BY <3>1 DEF Range
    <3> QED BY <3>1, <3>2, NamesTyped DEF Protected
  <2>2. CASE user # "root"
    <3>1. path = Rooted(<<"home", user>>) /\ path.comps = <<"home", user>>
      BY <2>2 DEF Rooted
    <3>2. Range(path.comps) = {"home", user}
      BY <3>1 DEF Range
    <3>3. "home" \in Comps /\ user \in Comps /\ user \notin FileNames
          /\ "home" \notin FileNames
      BY <1>4, <2>2, NamesTyped DEF Comps
    <3>4. path \in PathNames
      BY <3>1, <3>3, PathTwo
    <3> QED BY <3>2, <3>3, <3>4
  <2> QED BY <2>1, <2>2
<1>6. cmd_cd(path)
  BY <1>2
<1> HIDE DEF path
<1> QED BY <1>1, <1>3, <1>5, <1>6, CdBoot

LEMMA VisitStep ==
    ASSUME BootInv, Visit
    PROVE  BootInv'
<1>1. /\ stage = AtPrompt /\ users # <<>> /\ UNCHANGED <<users, stage>>
      /\ \E p \in Visits : cmd_cd(p)
  BY DEF Visit
<1>2. PICK p \in Visits : cmd_cd(p)
  BY <1>1
<1>3. p \in PathNames \cup {RootPath, DotDot} /\ Range(p.comps) \cap FileNames = {}
  BY TypedAssumption
<1> QED BY <1>1, <1>2, <1>3, CdBoot

LEMMA CommandStep ==
    ASSUME BootInv, Command
    PROVE  BootInv'
<1>1. /\ stage = AtPrompt /\ users # <<>> /\ UNCHANGED <<users, stage>>
      /\ \/ \E p \in Paths : cmd_touch(p) \/ cmd_mkdir(p) \/ cmd_rm(p) \/ cmd_chmod(p)
         \/ \E p, q \in Paths : cmd_cp(p, q) \/ cmd_mv(p, q)
         \/ \E p \in Paths, text \in Files : kw_save(p, text)
  BY DEF Command, Typed
<1>2. stage >= FilesFrom /\ ~(stage < FilesFrom) /\ stage' \in 1 .. AtPrompt
  BY <1>1, StagesAre
<1>3. FsInv /\ Layout(vol) /\ InUse
  BY <1>1, <1>2 DEF BootInv
<1>4. FsInv'
  <2>1. FsNext
    BY <1>1 DEF FsNext
  <2> QED BY <1>3, <2>1, FsStep
<1>5. UNCHANGED <<cwd_inode, cwd>>
  BY <1>1 DEF cmd_touch, cmd_mkdir, cmd_rm, cmd_chmod, cmd_cp, cmd_mv, kw_save
<1>6. Steady(vol, vol')
  BY <1>1, <1>3, CommandSteady DEF InUse
<1>7. Layout(vol') /\ KeptFiles(vol') = KeptFiles(vol)
  BY <1>3, <1>6, SteadyKeeps DEF Steady
<1>8. FilesHave(vol', Len(SystemFiles))
  <2> SUFFICES ASSUME NEW k \in 1 .. Len(SystemFiles)
               PROVE  FileHas(vol', FileName(k), SystemFiles[k].text)
    BY DEF FilesHave
  <2>1. FileHas(vol, FileName(k), SystemFiles[k].text)
    BY <1>3 DEF FilesHave, InUse
  <2> QED BY <1>3, <1>6, <2>1, SystemFileIs, SteadyFiles
<1>9. FileHas(vol', "passwd", users)
  BY <1>3, <1>6, NamesTyped, SteadyFiles DEF InUse
<1>10. HomesKept(vol', users)
  BY <1>3, <1>6, TableTyped, HomesStay DEF InUse
<1>11. InUse'
  BY <1>1, <1>3, <1>5, <1>7, <1>8, <1>9, <1>10 DEF InUse
<1> QED BY <1>1, <1>2, <1>4, <1>7, <1>11 DEF BootInv

-----------------------------------------------------------------------------
(* The theorems *)

LEMMA QuestionStep == BootInv /\ QuestionInv /\ [FirstBootNext]_bootVars => QuestionInv'
<1> SUFFICES ASSUME QuestionInv, [FirstBootNext]_bootVars PROVE QuestionInv'
  OBVIOUS
<1>1. CASE fs_init_step \/ init_write_sysfiles \/ user_init
  <2>1. stage # AtPrompt /\ question' = question
    BY <1>1, StagesAre DEF fs_init_step, init_write_sysfiles, user_init
  <2> QED BY <2>1 DEF QuestionInv
<1>2. CASE setup_root
  BY <1>2 DEF QuestionInv, setup_root
<1>3. CASE \E user \in Users : setup_user(user)
  <2>1. PICK user \in Users : setup_user(user)
    BY <1>3
  <2>2. stage' = AtPrompt /\ users' = Append(users, user) /\ users # <<>>
    BY <2>1 DEF QuestionInv, setup_user
  <2> QED BY <2>2 DEF QuestionInv
<1>4. CASE \/ \E user \in Users : cmd_useradd(user) \/ cmd_userdel(user)
           \/ Command \/ Visit
  <2>1. question = "none" /\ question' = question
    BY <1>4 DEF cmd_useradd, cmd_userdel, Command, Visit, Typed
  <2> QED BY <2>1 DEF QuestionInv
<1>5. CASE \E sudo \in BOOLEAN : setup_group(sudo)
  BY <1>5 DEF QuestionInv, setup_group
<1>6. CASE user_login \/ UNCHANGED bootVars
  <2>1. UNCHANGED <<question, stage, users>>
    BY <1>6 DEF user_login, bootVars
  <2> QED BY <2>1 DEF QuestionInv
<1> QED BY <1>1, <1>2, <1>3, <1>4, <1>5, <1>6 DEF FirstBootNext

LEMMA BootStep == BootInv /\ QuestionInv /\ [FirstBootNext]_bootVars => BootInv'
<1> SUFFICES ASSUME BootInv, QuestionInv, [FirstBootNext]_bootVars PROVE BootInv'
  OBVIOUS
<1>1. CASE fs_init_step
  BY <1>1, DirStep
<1>2. CASE init_write_sysfiles
  BY <1>2, FileStep
<1>3. CASE user_init
  BY <1>3, UserInitStep
<1>4. CASE setup_root
  BY <1>4, SetupRootStep
<1>5. CASE \E user \in Users : setup_user(user) \/ cmd_useradd(user) \/ cmd_userdel(user)
  BY <1>5, SetupUserStep, UseraddStep, DelStep
<1>6. CASE \E sudo \in BOOLEAN : setup_group(sudo)
  BY <1>6, SetupGroupStep
<1>7. CASE user_login
  BY <1>7, LoginStep
<1>8. CASE Command
  BY <1>8, CommandStep
<1>9. CASE Visit
  BY <1>9, VisitStep
<1>10. CASE UNCHANGED bootVars
  <2>1. UNCHANGED <<vol, cwd_inode, cwd, status, users, stage>>
    BY <1>10 DEF bootVars
  <2> QED BY <2>1 DEF BootInv, FsInv, InUse
<1> QED BY <1>1, <1>2, <1>3, <1>4, <1>5, <1>6, <1>7, <1>8, <1>9, <1>10 DEF FirstBootNext

LEMMA BootAlways == FirstBootSpec => []BootInv
<1>1. BootInit => BootInv /\ QuestionInv
  BY BootInitInv DEF BootInit, QuestionInv
<1>2. BootInv /\ QuestionInv /\ [FirstBootNext]_bootVars => (BootInv /\ QuestionInv)'
  BY BootStep, QuestionStep
<1> QED BY <1>1, <1>2, PTL DEF FirstBootSpec

\* At the prompt the files of the system have been written.
LEMMA FilesAtPrompt ==
    ASSUME BootInv, stage > UserInitAt
    PROVE  Layout(vol) /\ FilesHave(vol, Len(SystemFiles))
<1>1. stage = AtPrompt /\ stage >= FilesFrom
  BY StagesAre DEF BootInv
<1>2. CASE users = <<>>
  BY <1>1, <1>2 DEF BootInv, Fresh
<1>3. CASE users # <<>>
  BY <1>1, <1>3 DEF BootInv, InUse
<1> QED BY <1>2, <1>3

LEMMA FilesHold == BootInv => SystemFilesIntact
<1> SUFFICES ASSUME BootInv, stage > UserInitAt, NEW f \in Range(SystemFiles)
             PROVE  /\ fs_exists(vol, Root, f.path)
                    /\ fs_read(vol, Root, f.path, CopyBlocks) = Text(<<f.text>>)
  BY DEF SystemFilesIntact
<1>1. PICK i \in 1 .. Len(SystemFiles) : f = SystemFiles[i]
  BY SystemFileIs DEF Range
<1>2. Layout(vol) /\ FileHas(vol, FileName(i), f.text)
  BY <1>1, FilesAtPrompt DEF FilesHave
<1>3. FileName(i) \in FileNames /\ f.path = Rooted(<<"etc", FileName(i)>>) /\ f.text \in Payloads
  BY <1>1, SystemFileIs
<1> QED BY <1>2, <1>3, FileReads DEF FileHas

LEMMA UsersHold == BootInv => UsersOnDisk
<1> SUFFICES ASSUME BootInv PROVE users_load(vol) = users
  BY DEF UsersOnDisk
<1>1. CASE stage < FilesFrom
  <2>1. users = <<>> /\ Booted(vol, stage - 1)
    BY <1>1, StagesAre DEF BootInv
  <2> QED BY <2>1, BootedNoUsers, NothingLoaded
<1>2. CASE ~(stage < FilesFrom) /\ users = <<>>
  <2>1. stage >= FilesFrom
    BY <1>2, StagesAre DEF BootInv
  <2>2. Layout(vol) /\ FileOf(vol, "passwd") = -1
    BY <1>2, <2>1 DEF BootInv, Fresh
  <2>3. ~fs_exists(vol, Root, Passwd)
    BY <2>2, FilePath, NamesTyped DEF Passwd
  <2> QED BY <1>2, <2>3, NothingLoaded
<1>3. CASE ~(stage < FilesFrom) /\ users # <<>>
  <2>1. stage >= FilesFrom
    BY <1>3, StagesAre DEF BootInv
  <2> QED BY <1>3, <2>1, TableLoaded DEF BootInv, InUse
<1> QED BY <1>1, <1>2, <1>3

LEMMA HomesHold == BootInv => HomesExist
<1> SUFFICES ASSUME BootInv, users # <<>>,
                    FreeSlots(vol, fs_resolve_inode(vol, Root, Rooted(<<"home">>))) # {},
                    NEW user \in Range(users) \ {"root"}
             PROVE  fs_exists(vol, Root, Rooted(<<"home", user>>))
  BY DEF HomesExist
<1>1. stage >= FilesFrom
  BY StagesAre DEF BootInv
<1>2. Layout(vol) /\ users \in Tables /\ HomesKept(vol, users)
  BY <1>1 DEF BootInv, InUse
<1>3. user \in Users
  BY <1>2, TableTyped
<1>4. "home" \in Comps /\ user \in Comps /\ "home" # Blank
  BY <1>3, NamesTyped DEF Comps, Protected
<1>5. Walk(vol, Root, "home") = HomeOf(vol)
  BY <1>4 DEF Walk, HomeOf, Root
<1>6. HomeOf(vol) \in Live(vol) /\ HomeOf(vol) \in Nat /\ HomeOf(vol) > 0
  BY <1>2, GuardedLive DEF Layout
<1>7. fs_resolve_inode(vol, Root, Rooted(<<"home">>)) = HomeOf(vol)
  BY <1>4, <1>5, PathOne
<1>8. ext2_find_inode(vol, HomeOf(vol), user) # -1
  BY <1>2, <1>3, <1>7 DEF HomesKept
<1>9. ext2_find_inode(vol, HomeOf(vol), user) >= 0
  <2>1. ext2_find_inode(vol, HomeOf(vol), user) \in Live(vol)
    BY <1>2, <1>3, <1>6, <1>8, FindTyped, NamesTyped DEF Layout
  <2> QED BY <1>2, <2>1, GuardedLive
<1>10. fs_resolve_inode(vol, Root, Rooted(<<"home", user>>)) = Walk(vol, HomeOf(vol), user)
  BY <1>4, <1>5, PathTwo
<1>11. Walk(vol, HomeOf(vol), user) >= 0
  BY <1>6, <1>9 DEF Walk
<1> QED BY <1>10, <1>11 DEF fs_exists

\* The system files that kmain writes after /etc is made keep their text, whatever
\* the set-up, useradd, userdel and the commands do.
THEOREM SystemFilesSafe == FirstBootSpec => []SystemFilesIntact
<1> QED BY BootAlways, FilesHold, PTL

\* users_load reads from /etc/passwd the table that the shell has, after every step, for
\* accounts whose lines fit one block and whose names have no ':'.
THEOREM UsersSafe == FirstBootSpec => []UsersOnDisk
<1> QED BY BootAlways, UsersHold, PTL

\* Every account has a home directory that its login goes to, while /home has slots.
THEOREM HomesSafe == FirstBootSpec => []HomesExist
<1> QED BY BootAlways, HomesHold, PTL
=============================================================================
