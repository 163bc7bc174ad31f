-------------------------------- MODULE MCFs --------------------------------
(* A tree with a home directory, two names and five ways to write a path;  *)
(* texts shorter than a block and of a whole one.                          *)
EXTENDS Fs

MCNames == {"a", "home"}
MCPayloads == {"p", "long", "q"}
MCShortPayloads == {"q"}
MCFiles == {<<"long">>, <<"q", "p", "p">>}

\* A text of a whole block, and what is left of it.
MCClip == [p \in MCPayloads |-> IF p = "long" THEN "p" ELSE p]
MCSbPointers == [k \in 0 .. 1 |-> IF k = 0 THEN 50 ELSE 99]

Rel(comps) == [abs |-> FALSE, comps |-> comps]

MCPaths == {Rooted(<<"a">>), Rel(<<"a">>), Rel(<<"a", "a">>), Rel(<<"a", Blank>>),
            Rooted(<<"home">>)}
MCStdDirs == <<Rooted(<<"home">>)>>
=============================================================================
