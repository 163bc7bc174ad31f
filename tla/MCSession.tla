----------------------------- MODULE MCSession ------------------------------
(* Three accounts beside root, two terminals, and a set-up inside a set-up.   *)
EXTENDS Session, TLC

MCTtys == {0, 1}

\* Names are only ever compared.
NameSymmetry == Permutations(Names)
=============================================================================
