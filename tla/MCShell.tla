------------------------------ MODULE MCShell -------------------------------
(* Five names, two of them too long for the table and alike in what it keeps;  *)
(* a table with room for three aliases beside the one that is there, which can  *)
(* form a cycle or a chain; scripts that run a command, an alias, useradd       *)
(* through sudo, exit, themselves and each other, and that have a word in them  *)
(* that no message has room for; the sizes are the bytes of a build of the      *)
(* kernel.                                                                     *)
EXTENDS Shell, TLC

Names == {"x", "y", "z", "long1", "long2"}

All == Names \cup {"long", "alias", "unalias", "sudo", "sh", "exit", "cat", "ls", "cd", "useradd", "..",
                   "s", "./s", "r", "t", "u", "v", "#", "none", "big"}

MCCut == [w \in All |-> IF w \in {"long1", "long2"} THEN "long" ELSE w]

MCInitialAliases == <<[name |-> "..", value |-> <<"cd", " ", "..">>]>>

MCFiles ==
    LET s == <<<<"#", " ", "s">>, <<" ", "x", " ">>, <<>>, <<"cat", " ", "s">>>>
    IN  "s" :> s @@ "./s" :> s @@ "r" :> <<<<"sh", " ", "r">>>>
        @@ "t" :> <<<<"alias", " ", "y", " ", "ls">>, <<"sudo", " ", "useradd">>,
                     <<"sudo", " ", "y">>, <<"s">>>>
        @@ "u" :> <<<<"sudo", " ", "exit">>, <<"cd", " ", "big">>, <<"sudo", " ", "big">>>>
        @@ "v" :> <<<<"alias", " ", "z", " ", "big">>, <<"alias">>, <<"sh", " ", "big">>>>

MCExecutable == {"s", "./s", "t"}

MCReporting == {"cat", "cd", "useradd"}

MCNeed ==
    "cat" :> 6904 @@ "ls" :> 6568 @@ "cd" :> 2936 @@ "useradd" :> 7464
    @@ "alias" :> 524 @@ "unalias" :> 44 @@ "sudo" :> 3560 @@ "sh" :> 7224
    @@ "exit" :> 100 @@ "" :> 2648

MCTyped ==
    {<<"alias", " ", p[1], " ", p[2]>> :
        p \in {<<"x", "x">>, <<"x", "y">>, <<"y", "z">>, <<"y", "t">>,
                <<"z", "x">>, <<"long1", "ls">>, <<"long2", "y">>, <<"..", "y">>}}
    \cup {<<"unalias", " ", n>> : n \in {"x", "long1", "long"}}
    \cup {<<w>> : w \in {"x", "y", "z", "long1", "./s", "r", "none", "alias", "unalias", "sudo", "sh", "cat", "exit", " "}}
    \cup {<<"x", " ">>, <<" ", "x">>, <<"alias", " ", "x">>}
    \cup {<<"sh", " ", f>> : f \in {"s", "r", "t", "u", "v", "none"}}
    \cup {<<"sudo", " ", "x">>, <<"sudo", " ", "sudo", " ", "sh", " ", "s">>, <<"sudo", " ", "sudo", " ", "sudo", " ", "sudo", " ", "x">>}
=============================================================================
