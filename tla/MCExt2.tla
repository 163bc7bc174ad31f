------------------------------- MODULE MCExt2 -------------------------------
(* A volume with two pointers per inode, three inodes to hand out and a      *)
(* superblock that shares its slot with the second of them.                  *)
EXTENDS Ext2, TLC

CONSTANTS n1, n2, text, short

MCNames == {n1, n2}
MCPayloads == {text, short}
MCShortPayloads == {short}
MCFiles == {<<>>, <<text>>, <<short, text, text>>}
MCSbPointers == [k \in 0 .. 1 |-> IF k = 0 THEN 50 ELSE 99]
=============================================================================
