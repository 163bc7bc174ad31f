---------------------------- MODULE ObjectStore ----------------------------
(***************************************************************************)
(* What ext2.c promises its callers: every inode is an object of NDirect   *)
(* slots of its own. A slot is empty, holds one directory entry, or holds  *)
(* one block of file data. There are no blocks, pointers or tables here,   *)
(* so nothing done to one object can show in another.                      *)
(***************************************************************************)
EXTENDS FiniteSetsExt, Sequences

CONSTANTS Names, Files, ShortPayloads, NDirect, FirstInode, MaxInode

VARIABLES
    obj,    \* the slots of every inode
    next    \* the next inode number

Index == 0 .. NDirect - 1

Objs == {2} \cup (FirstInode .. next - 1)

Empty == [kind |-> "zero"]

Entry(n, name, ftype) ==
    [kind |-> "dirent", ino |-> n, name |-> name, ftype |-> ftype]

\* A slot with a short text counts as empty, and loses the text.
EmptySlots(d) ==
    {k \in Index : \/ obj[d][k] = Empty
                   \/ obj[d][k].kind = "data" /\ obj[d][k].pay \in ShortPayloads}

Entries(d, name) ==
    {k \in Index : /\ obj[d][k].kind = "dirent"
                   /\ obj[d][k].ino # 0 /\ obj[d][k].name = name}

\* A new object; its entry takes the first empty slot of d. In a full
\* directory the object is made all the same, and has no name.
Make(d, name, ftype) ==
    /\ next <= MaxInode
    /\ next' = next + 1
    /\ obj' = IF EmptySlots(d) = {} THEN obj
              ELSE [obj EXCEPT ![d][Min(EmptySlots(d))] = Entry(next, name, ftype)]

\* The first entry of that name goes, its slot stays taken, and the object
\* it named is emptied.
Remove(d, name) ==
    /\ Entries(d, name) # {}
    /\ LET k == Min(Entries(d, name))
       IN  obj' = [obj EXCEPT ![d][k].ino = 0,
                              ![obj[d][k].ino] = [j \in Index |-> Empty]]
    /\ UNCHANGED next

\* The object holds the first NDirect blocks of the file, and nothing else.
Replace(i, chunks) ==
    /\ Len(chunks) > 0
    /\ obj' = [obj EXCEPT ![i] = [k \in Index |->
                  IF k < Len(chunks) THEN [kind |-> "data", pay |-> chunks[k + 1]]
                  ELSE Empty]]
    /\ UNCHANGED next

Init ==
    /\ obj = [i \in 1 .. MaxInode |-> [k \in Index |-> Empty]]
    /\ next = FirstInode

Next ==
    \E d \in Objs :
        \/ \E name \in Names :
              Make(d, name, "reg") \/ Make(d, name, "dir") \/ Remove(d, name)
        \/ \E chunks \in Files : Replace(d, chunks)

Spec == Init /\ [][Next]_<<obj, next>>
=============================================================================
