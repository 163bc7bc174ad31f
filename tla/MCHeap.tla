------------------------------- MODULE MCHeap -------------------------------
(* A heap with room for the headers of five blocks.                          *)
EXTENDS Heap

\* Sizes that are rounded up and sizes that are not; zero is refused.
MCRequests == {0, 1, 8, 20, 33}
=============================================================================
