----------------------------- MODULE Allocator ------------------------------
(***************************************************************************)
(* What kmalloc and kfree (kernel/memory.c) promise their callers: every   *)
(* region handed out lies in the heap and is disjoint from the others.     *)
(***************************************************************************)
EXTENDS Integers

CONSTANTS Start, End, Requests

VARIABLE live       \* the regions handed out: start |-> bytes asked for

\* The bytes n of a region at p touch no region handed out.
Vacant(p, n) ==
    \A q \in DOMAIN live : p + n <= q \/ q + live[q] <= p

AllocInit == live = <<>>

Alloc(p, n) ==
    /\ Start <= p /\ p + n <= End
    /\ p \notin DOMAIN live /\ Vacant(p, n)
    /\ live' = [q \in DOMAIN live \cup {p} |-> IF q = p THEN n ELSE live[q]]

Release(p) ==
    /\ p \in DOMAIN live
    /\ live' = [q \in DOMAIN live \ {p} |-> live[q]]

AllocNext ==
    \/ \E p \in Start .. End, n \in Requests : Alloc(p, n)
    \/ \E p \in DOMAIN live : Release(p)

AllocSpec == AllocInit /\ [][AllocNext]_live
=============================================================================
