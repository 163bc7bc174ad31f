------------------------------ MODULE Keyboard ------------------------------
(***************************************************************************)
(* read_key of kernel/keyboard.c: the bytes of the keyboard controller       *)
(* become modifiers, terminal switches and keys.                            *)
(*                                                                         *)
(* A key of the keyboard has a code, and some (the arrows, the right Ctrl    *)
(* and Alt) send the prefix E0 before it; a release sends the code with the  *)
(* top bit set. The prefix has that bit too, and read_key looks at the bit   *)
(* first: it takes E0 for the release of a key that does not exist, and      *)
(* what follows for a plain key. Its branch for the prefix is modelled and   *)
(* never reached; an arrow key sends a code that has no character.           *)
(*                                                                         *)
(* The E0 2A and E0 AA with which some keyboards surround PrintScreen and the *)
(* keypad's arrows, so that they look unshifted, are left out: read_key would *)
(* take them for a press and a release of the left Shift.                   *)
(***************************************************************************)
EXTENDS Integers

CONSTANTS
    Chars,      \* code |-> its character and the one with Shift
    Letters,    \* the codes of letters
    Terminal,   \* F1 ... F4 and 1 ... 4 |-> the terminal they stand for
    Arrow       \* codes that only have a meaning after the prefix

ASSUME KeyboardAssumption == \A c \in DOMAIN Terminal : Terminal[c] \in Int

Prefix == [code |-> "E0", top |-> TRUE]

NoKey == "none"

\* keymap_normal and keymap_shift; 0 where the table has no character.
keymap(code, shifted) ==
    IF code \in DOMAIN Chars THEN Chars[code][IF shifted THEN 2 ELSE 1] ELSE NoKey

\* The modifiers, whether the prefix was seen, the key that was typed and
\* whether it is a control character, and the terminal to switch to (-1: none).
Idle == [shift |-> FALSE, caps |-> FALSE, ctrl |-> FALSE, alt |-> FALSE,
         prefix |-> FALSE, key |-> NoKey, control |-> FALSE, switch |-> -1]

Released(k, code) ==
    [k EXCEPT !.shift = @ /\ code \notin {"lshift", "rshift"},
              !.ctrl = @ /\ code # "ctrl",
              !.alt = @ /\ code # "alt"]

\* The byte behind a prefix.
Extended(k, b) ==
    LET q == [k EXCEPT !.prefix = FALSE]
    IN  IF b.top THEN q
        ELSE IF b.code \in Arrow THEN [q EXCEPT !.key = b.code]
        ELSE [q EXCEPT !.ctrl = @ \/ b.code = "ctrl"]

\* A character; with Ctrl a letter is a control character.
Typed(k, code) ==
    [k EXCEPT !.key = keymap(code, k.shift # k.caps),
              !.control = k.ctrl /\ code \in Letters]

Pressed(k, code) ==
    IF code \in {"lshift", "rshift"} THEN [k EXCEPT !.shift = TRUE]
    ELSE IF code = "ctrl" THEN [k EXCEPT !.ctrl = TRUE]
    ELSE IF code = "alt" THEN [k EXCEPT !.alt = TRUE]
    ELSE IF code = "caps" THEN [k EXCEPT !.caps = ~@]
    ELSE IF k.alt /\ code \in DOMAIN Terminal THEN [k EXCEPT !.switch = Terminal[code]]
    ELSE Typed(k, code)

\* Fault: the prefix is looked for before the top bit, as it was meant; then
\* the release of the right Ctrl is thrown away with all extended releases.
PrefixFirst(k, b) ==
    IF k.prefix THEN Extended(k, b)
    ELSE IF b = Prefix THEN [k EXCEPT !.prefix = TRUE]
    ELSE IF b.top THEN Released(k, b.code)
    ELSE Pressed(k, b.code)

\* One byte, in the order of the code's tests.
Byte(k, b) ==
    IF k.prefix THEN Extended(k, b)
    ELSE IF b.top THEN Released(k, b.code)
    ELSE IF b = Prefix THEN [k EXCEPT !.prefix = TRUE]
    ELSE Pressed(k, b.code)

\* read_key on the bytes a key sends when it is pressed or released.
read_key(k, key, top) ==
    LET q == IF key.ext THEN Byte(k, Prefix) ELSE k
    IN  Byte(q, [code |-> key.code, top |-> top])

\* The static variables: what read_key found is gone when it returns.
Returned(k) == [k EXCEPT !.key = NoKey, !.control = FALSE, !.switch = -1]
=============================================================================
