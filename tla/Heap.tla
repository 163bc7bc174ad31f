-------------------------------- MODULE Heap --------------------------------
(***************************************************************************)
(* The kernel heap of kernel/memory.c: a list of blocks from Start to End, *)
(* first fit, split on allocation, joined with the next block on release.  *)
(*                                                                         *)
(* heap maps the address of every listed block to its header. The list is  *)
(* in address order (invariant Tiled), so the first block that fits is the *)
(* one at the least address. The header of a block that was joined to the  *)
(* one before it stays in memory but is no longer listed.                  *)
(***************************************************************************)
EXTENDS FiniteSetsExt

CONSTANTS
    Start,          \* heap_start: the end of the kernel, aligned
    End,            \* MEMORY_END
    Requests,       \* the sizes kmalloc is called with
    Word            \* 2^32, the range of a usize

Alignment == 8

HeaderSize == 16

\* The callers (ext2_mount and the string functions) ask for sizes of objects
\* in memory, far from where align_up wraps around.
ASSUME HeapAssumption ==
    /\ Start \in Nat \ {0} /\ End \in Nat /\ Word \in Nat
    /\ Start + HeaderSize <= End /\ End < Word
    /\ Requests \subseteq Nat
    /\ \A n \in Requests : n + Alignment <= Word

VARIABLES
    heap,           \* the listed blocks: address |-> header
    live            \* history: pointers handed out |-> bytes asked for

heapVars == <<heap, live>>

NULL == 0

\* Fault: rounds down.
AlignDown(n) == (n \div Alignment) * Alignment

align_up(n) ==
    IF n + Alignment > Word THEN 0 ELSE ((n + Alignment - 1) \div Alignment) * Alignment

\* The header of a block; magic says that it holds HEAP_MAGIC.
Header(size, next, free) ==
    [size |-> size, next |-> next, free |-> free, magic |-> TRUE]

mem_init == [b \in {Start} |-> Header(End - Start - HeaderSize, NULL, TRUE)]

-----------------------------------------------------------------------------

\* Fault: blocks in use are taken too.
FitsInUse(s) == {b \in DOMAIN heap : heap[b].size >= s}

Fits(s) == {b \in DOMAIN heap : heap[b].free /\ heap[b].size >= s}

\* The walk ends at a header without the magic number.
Broken(b) == \E c \in DOMAIN heap : c <= b /\ ~heap[c].magic

\* The block kmalloc takes for s bytes, NULL if none.
Pick(s) ==
    IF Fits(s) = {} \/ Broken(Min(Fits(s))) THEN NULL ELSE Min(Fits(s))

\* Taking block b for s bytes: what is left over becomes a block of its own if
\* it has room for a header and Alignment bytes.
Take(b, s) ==
    LET rest == b + HeaderSize + s
    IN  IF heap[b].size >= s + HeaderSize + Alignment
        THEN [x \in DOMAIN heap \cup {rest} |->
                IF x = b THEN Header(s, rest, FALSE)
                ELSE IF x = rest
                THEN Header(heap[b].size - s - HeaderSize, heap[b].next, TRUE)
                ELSE heap[x]]
        ELSE [heap EXCEPT ![b].free = FALSE]

\* An allocation of n bytes; when it returns NULL nothing changes.
kmalloc(n) ==
    LET b == Pick(align_up(n))
        p == b + HeaderSize
    IN  /\ n > 0 /\ b # NULL
        /\ heap' = Take(b, align_up(n))
        /\ live' = [q \in DOMAIN live \cup {p} |-> IF q = p THEN n ELSE live[q]]

\* Fault: the header of the next block is not counted.
JoinShort(b) ==
    LET c == heap[b].next
    IN  IF c # NULL /\ heap[c].free
        THEN [x \in DOMAIN heap \ {c} |->
                IF x = b
                THEN Header(heap[b].size + heap[c].size, heap[c].next, TRUE)
                ELSE heap[x]]
        ELSE [heap EXCEPT ![b].free = TRUE]

\* Releasing block b: joined with the next block when that is free.
Join(b) ==
    LET c == heap[b].next
    IN  IF c # NULL /\ heap[c].free
        THEN [x \in DOMAIN heap \ {c} |->
                IF x = b
                THEN [heap[b] EXCEPT !.size = @ + HeaderSize + heap[c].size,
                                     !.next = heap[c].next, !.free = TRUE]
                ELSE heap[x]]
        ELSE [heap EXCEPT ![b].free = TRUE]

\* A pointer that was handed out and not released since.
kfree(p) ==
    /\ p \in DOMAIN live
    /\ heap[p - HeaderSize].magic
    /\ heap' = Join(p - HeaderSize)
    /\ live' = [q \in DOMAIN live \ {p} |-> live[q]]

HeapInit == heap = mem_init /\ live = <<>>

HeapNext ==
    \/ \E n \in Requests : kmalloc(n)
    \/ \E p \in DOMAIN live : kfree(p)

HeapSpec == HeapInit /\ [][HeapNext]_heapVars

-----------------------------------------------------------------------------
(* Properties *)

Finish(b) == b + HeaderSize + heap[b].size

\* The types of the list and of the pointers handed out.
HeapTypeOK ==
    /\ heap = [b \in DOMAIN heap |-> heap[b]]
    /\ Start \in DOMAIN heap /\ DOMAIN heap \subseteq Start .. End
    /\ \A b \in DOMAIN heap :
        heap[b] \in [size : Nat, next : Nat, free : BOOLEAN, magic : BOOLEAN]
    /\ live = [p \in DOMAIN live |-> live[p]]
    /\ \A p \in DOMAIN live : p \in Nat /\ live[p] \in Requests

\* Splitting and joining keep the blocks end to end: every block reaches to the
\* header its next pointer names, the last one to End, and none overlaps
\* another, so no byte of the heap is lost or in two blocks.
Tiled ==
    /\ \A b \in DOMAIN heap :
        IF heap[b].next = NULL THEN Finish(b) = End
        ELSE heap[b].next \in DOMAIN heap /\ heap[b].next = Finish(b)
    /\ \A b, c \in DOMAIN heap : b < c => Finish(b) <= c

\* Every header that kmalloc walks over holds the magic number.
MagicIntact == \A b \in DOMAIN heap : heap[b].magic

\* A block is in use exactly while its pointer is with a caller, and it has
\* the bytes that were asked for, whatever was split or joined around it.
CallersOwnBlocks ==
    /\ \A p \in DOMAIN live :
        /\ p - HeaderSize \in DOMAIN heap
        /\ ~heap[p - HeaderSize].free
        /\ heap[p - HeaderSize].size >= live[p]
    /\ \A b \in DOMAIN heap : ~heap[b].free => b + HeaderSize \in DOMAIN live

\* Callers never share a byte, nor run into a header, nor out of the heap.
AllocationsDisjoint ==
    \A p \in DOMAIN live :
        /\ p + live[p] <= End
        /\ \A b \in DOMAIN heap :
            b # p - HeaderSize => p + live[p] <= b \/ b + HeaderSize <= p
        /\ \A q \in DOMAIN live : p < q => p + live[p] <= q

\* Every block is on the list: it is heap_start or some block's next.
AllListed ==
    \A c \in DOMAIN heap \ {Start} : \E b \in DOMAIN heap : heap[b].next = c

\* The list of blocks and the callers agree on every byte of the heap, through any
\* splitting by kmalloc and joining by kfree: sizes do not go negative, the blocks
\* lie end to end and are all listed, and those in use are the callers'.
HeapSound == HeapTypeOK /\ Tiled /\ AllListed /\ CallersOwnBlocks

A == INSTANCE Allocator

\* kmalloc and kfree implement the allocator of module Allocator.
ImplementsAllocator == A!AllocSpec
=============================================================================
