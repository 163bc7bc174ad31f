----------------------------- MODULE MCTerminal -----------------------------
(* Two terminals of two rows of three columns, and rings of three. *)
EXTENDS Terminal, TLC

Plain(code) == [code |-> code, ext |-> FALSE]

MCChars == ("l" :> <<"l", "L">>) @@ ("c" :> <<"c", "C">>) @@ ("bs" :> <<BS, BS>>) @@
              ("enter" :> <<NL, NL>>)

MCTerminals == ("f1" :> 0) @@ ("f2" :> 1)

MCKeys == {Plain(c) : c \in
                {"lshift", "rshift", "ctrl", "alt", "caps", "l", "c", "bs", "enter", "f1", "f2"}}
             \cup {[code |-> c, ext |-> TRUE] : c \in {"ctrl", "up"}}

MCPrompt == <<"%">>

MCOutputs == {<<>>, <<"x", "x", "x">>}
=============================================================================
