------------------------------ MODULE KeyQueue ------------------------------
(***************************************************************************)
(* What the input rings of the terminals promise: one bounded queue per      *)
(* terminal, in the order of the keys.                                      *)
(***************************************************************************)
EXTENDS Naturals, Sequences

CONSTANTS Ttys, Capacity, Items

VARIABLE queue

\* A key arrives and finds room. (In a full queue nothing changes.)
Put(t, c) == Len(queue[t]) < Capacity /\ queue' = [queue EXCEPT ![t] = Append(@, c)]

Get(t) == queue[t] # <<>> /\ queue' = [queue EXCEPT ![t] = Tail(@)]

QueueInit == queue = [t \in Ttys |-> <<>>]

QueueSpec == QueueInit /\ [][\E t \in Ttys : Get(t) \/ \E c \in Items : Put(t, c)]_queue
=============================================================================
