----------------------------- MODULE MCHistory ------------------------------
(* A ring of three, lines of up to two characters and a prompt that leaves    *)
(* room for one or two of them, the blank among them.                         *)
EXTENDS History, TLC

MCWidths == {1, 2}

MCAliases == <<"a">> :> <<"b">>
=============================================================================
