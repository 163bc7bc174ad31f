----------------------------- MODULE MCProcess ------------------------------
(* Five processes and slices of two ticks. Entries take five characters and   *)
(* the name, the lines above them four each: one buffer ends in the second    *)
(* line, one holds the first two processes (25) and one up to two more; with  *)
(* certain names the table is just as long as it (42).                        *)
EXTENDS Process

MCSizes == {6, 26, 42}

MCNameLengths == {3, 4}
=============================================================================
