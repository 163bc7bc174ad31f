------------------------------- MODULE MCAta --------------------------------
(* Drives of three and two sectors, or what else can be on a channel; numbers  *)
(* of eight and addresses of four values; waits of two polls; transfers of up  *)
(* to two sectors, two of them one after the other.                            *)
EXTENDS Ata, TLC

MCKinds == [0 .. 1 -> {"none", "ata", "atapi"}] \cup {[d \in 0 .. 1 |-> "float"]}

MCContents == 0 :> [s \in 0 .. 2 |-> s] @@ 1 :> [s \in 0 .. 1 |-> 10 + s]

MCData == {<<100, 101>>}

MCCounts == 0 .. 2
=============================================================================
