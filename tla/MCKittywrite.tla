---------------------------- MODULE MCKittywrite ----------------------------
(* Four lines in a window of three rows: the window moves, and after a join two  *)
(* rows may lie behind the text. Lines take two typed characters and three loaded  *)
(* ones. The files: one missing or empty, one with a line too long, a line too     *)
(* many and no last newline. A saved text of up to five characters fits the file.  *)
EXTENDS Kittywrite

MCFiles == {<<>>, <<"a", "a", "a", "a", NL, NL, NL, NL, "a">>}
=============================================================================
