------------------------------ MODULE Terminal ------------------------------
(***************************************************************************)
(* The virtual terminals of kernel/tty.c between the keyboard, the screen    *)
(* and the line that shell_run reads. There is one screen, one keyboard and   *)
(* one shell: a terminal is only a saved screen and an input ring, and a      *)
(* switch of terminals happens inside read_key, in the middle of the line     *)
(* (somebody is logged in here; module Session has the other case).          *)
(*                                                                         *)
(* One step is one press or release of a key and all that follows from it.    *)
(* The controller is taken to lose no byte.                                  *)
(***************************************************************************)
EXTENDS Keyboard, Screen, FiniteSets

CONSTANTS
    Ttys,           \* 0 .. MAX_TTYS - 1
    BufSize,        \* TTY_BUF_SIZE (1024)
    Keys,           \* the keys of the keyboard: [code, ext]
    Prompt,         \* what show_prompt prints
    Outputs,        \* what a command may print
    MaxHeld,        \* bound: how many modifiers are held down at a time
    MaxKeys         \* bound: how many keys are typed

VARIABLES
    kbd,            \* the static variables of read_key, and what it found
    held,           \* the modifier keys that are held down
    screen,         \* video memory and cursor
    saved,          \* screen_buf, cursor_x and cursor_y of every terminal
    current_tty,
    input,          \* input_buf, in_head and in_tail of every terminal
    line,           \* the line being read
    prompt_x, prompt_y,     \* where it begins
    moved,          \* history: the terminal was switched since the prompt
    typed           \* how many keys were typed, for the bound

ttyVars == <<kbd, held, screen, saved, current_tty, input, line, prompt_x, prompt_y, moved, typed>>

\* The prompt ends with a character that is seen.
ASSUME TerminalAssumption ==
    /\ BufSize \in Nat \ {0, 1} /\ 0 \in Ttys
    /\ Prompt \in Seq(STRING) /\ Prompt # <<>>
    /\ Last(Prompt) \notin {NL, CR, BS, TAB}
    /\ \A out \in Outputs : out \in Seq(STRING)

Modifiers == {"lshift", "rshift", "ctrl", "alt"}

Glyphs == UNION {{Chars[c][1], Chars[c][2]} : c \in DOMAIN Chars}

-----------------------------------------------------------------------------
(* The input rings *)

Ring == [buf : [0 .. BufSize - 1 -> Glyphs \cup {Blank}],
         head : 0 .. BufSize - 1, tail : 0 .. BufSize - 1]

EmptyRing == [buf |-> [i \in 0 .. BufSize - 1 |-> Blank], head |-> 0, tail |-> 0]

\* Fault: a full ring is not noticed.
FeedOverwrites(r, c) ==
    [r EXCEPT !.buf[r.head] = c, !.head = (r.head + 1) % BufSize]

\* A full ring drops the key.
tty_feed_key(r, c) ==
    LET next == (r.head + 1) % BufSize
    IN  IF next = r.tail THEN r ELSE [r EXCEPT !.buf[r.head] = c, !.head = next]

\* The oldest key. (The readers of tty.h; the shell reads its keys from
\* read_key, and nothing takes them from the ring.)
tty_getc(r) == [r EXCEPT !.tail = (@ + 1) % BufSize]

-----------------------------------------------------------------------------
(* The line of shell_run *)

max_len == LET room == Width - prompt_x - 1 IN IF room <= 0 THEN 1 ELSE room

\* REDRAW
Redraw(s, str, px, py, room) ==
    vga_set_pos(vga_draw_row(s, py, px, room, str), px + Len(str), py)

\* The line becomes str.
Edit(str) ==
    /\ line' = str
    /\ screen' = Redraw(screen, str, prompt_x, prompt_y, max_len)
    /\ UNCHANGED <<prompt_x, prompt_y, moved>>

\* A new prompt on screen s.
NewPrompt(s) ==
    /\ screen' = vga_write(s, Prompt)
    /\ prompt_x' = screen'.x /\ prompt_y' = screen'.y
    /\ line' = <<>> /\ moved' = FALSE

Nothing == UNCHANGED <<screen, line, prompt_x, prompt_y, moved>>

\* Fault: the place of the line is not looked up again.
ClearKeepsPlace ==
    /\ screen' = Redraw(vga_write(clear_screen(screen), Prompt), line, prompt_x, prompt_y, max_len)
    /\ moved' = FALSE /\ UNCHANGED <<line, prompt_x, prompt_y>>

\* Ctrl+L
ClearScreen ==
    LET s == vga_write(clear_screen(screen), Prompt)
    IN  /\ prompt_x' = s.x /\ prompt_y' = s.y
        /\ screen' = Redraw(s, line, s.x, s.y, max_len')
        /\ moved' = FALSE /\ UNCHANGED line

CtrlC == "^C"
CtrlL == "^L"

\* The control character of a letter: some are those of other keys, and some
\* mean nothing to the shell.
Control(key) ==
    CASE key \in {"c", "C"} -> CtrlC
      [] key \in {"l", "L"} -> CtrlL
      [] key \in {"h", "H"} -> BS
      [] key \in {"j", "J"} -> NL
      [] key \in {"m", "M"} -> CR
      [] OTHER -> NoKey

\* A key c that read_key returns. (The cursor stays at the end of the line: no
\* arrow key arrives.)
ShellKey(c) ==
    CASE c = CtrlL -> ClearScreen
      [] c = CtrlC -> NewPrompt(vga_write(screen, <<"^", "C", NL>>))
      [] c \in {NL, CR} ->
            \E out \in IF line = <<>> THEN {<<>>} ELSE Outputs :
                NewPrompt(vga_write(vga_write(screen, <<NL>>), out))
      [] c = BS /\ line # <<>> -> Edit(Front(line))
      [] c \notin {CtrlL, CtrlC, NL, CR, BS, TAB, NoKey} /\ Len(line) < max_len ->
            Edit(Append(line, c))
      [] OTHER -> Nothing

-----------------------------------------------------------------------------
(* Actions *)

\* tty_switch, with the shell_prompt_redraw at its end.
Switch(n) ==
    /\ saved' = [saved EXCEPT ![current_tty] = screen]
    /\ current_tty' = n
    /\ screen' = vga_write(vga_set_pos([screen EXCEPT !.cell = saved'[n].cell],
                                       saved'[n].x, saved'[n].y), <<NL>> \o Prompt)
    /\ moved' = TRUE
    /\ UNCHANGED <<input, line, prompt_x, prompt_y>>

\* What read_key found: a terminal to switch to, or a key for the shell, which
\* also goes to the ring unless it is a control character.
Handle(k) ==
    /\ typed' = IF k.key = NoKey /\ k.switch = -1 THEN typed ELSE typed + 1
    /\ typed' <= MaxKeys
    /\ IF k.switch \in Ttys \ {current_tty} THEN Switch(k.switch)
       ELSE /\ input' = IF k.key \notin Glyphs \/ k.control THEN input
                        ELSE [input EXCEPT ![current_tty] = tty_feed_key(@, k.key)]
            /\ ShellKey(IF k.control THEN Control(k.key) ELSE k.key)
            /\ UNCHANGED <<saved, current_tty>>

\* A key is pressed, or repeats while it is held down.
Press(key) ==
    LET k == read_key(kbd, key, FALSE)
    IN  /\ kbd' = Returned(k) /\ Handle(k)
        /\ held' = IF key.code \in Modifiers THEN held \cup {key} ELSE held
        /\ Cardinality(held') <= MaxHeld

\* A key is released; for one that is no modifier this changes nothing.
Release(key) ==
    LET k == read_key(kbd, key, TRUE)
    IN  kbd' = Returned(k) /\ Handle(k) /\ held' = held \ {key}

\* A reader takes a key from the ring of the current terminal.
Getc ==
    /\ input[current_tty].head # input[current_tty].tail
    /\ input' = [input EXCEPT ![current_tty] = tty_getc(@)]
    /\ UNCHANGED <<kbd, held, screen, saved, current_tty, line, prompt_x, prompt_y,
                   moved, typed>>

TtyInit ==
    /\ kbd = Idle /\ held = {}
    /\ screen = vga_write(Cleared, Prompt)
    /\ saved = [t \in Ttys |-> Cleared]
    /\ current_tty = 0
    /\ input = [t \in Ttys |-> EmptyRing]
    /\ line = <<>> /\ prompt_x = screen.x /\ prompt_y = screen.y
    /\ moved = FALSE /\ typed = 0

TtyNext ==
    \/ \E key \in Keys : Press(key)
    \/ \E key \in held : Release(key)
    \/ Getc

TtySpec == TtyInit /\ [][TtyNext]_ttyVars

-----------------------------------------------------------------------------
(* Properties *)

\* No modifier is stuck: Shift, Ctrl and Alt are only taken to be down while
\* one of their keys is, whichever of the two it is, across repeats and
\* switches of terminals. (The converse does not hold: with both Shift keys
\* down, the release of one is taken for the release of both.)
NoStuckModifier ==
    /\ kbd.shift => \E key \in held : key.code \in {"lshift", "rshift"}
    /\ kbd.ctrl => \E key \in held : key.code = "ctrl"
    /\ kbd.alt => \E key \in held : key.code = "alt"

\* What is in a ring, oldest first.
Contents(r) ==
    [i \in 1 .. (r.head - r.tail) % BufSize |-> r.buf[(r.tail + i - 1) % BufSize]]

Q == INSTANCE KeyQueue WITH queue <- [t \in Ttys |-> Contents(input[t])],
        Capacity <- BufSize - 1, Items <- Glyphs

\* Each ring, with its wrapping indexes, is a queue that holds BufSize - 1 keys
\* and drops what comes after them (tty_feed_key and tty_getc).
RingsAreQueues == Q!QueueSpec

\* putchar, vga_set_pos and tty_restore_screen leave the cursor on the screen,
\* so that no character is written outside video memory.
CursorOnScreen == OnScreen(screen) /\ \A t \in Ttys : OnScreen(saved[t])

\* What is typed is seen right behind the prompt, with nothing behind it and the
\* cursor at its end, also after the screen scrolled or was cleared. (Before the
\* first key a prompt may have older text behind it; and after a switch of
\* terminals the line goes on at its old place, away from the new prompt.)
LineBehindPrompt ==
    ~moved =>
        /\ screen.cell[At(prompt_x, prompt_y) - 1] = Last(Prompt)
        /\ line # <<>> =>
              \A i \in 0 .. max_len - 1 :
                  screen.cell[At(prompt_x, prompt_y) + i] =
                      IF i < Len(line) THEN line[i + 1] ELSE Blank
        /\ screen.x = Clamp(prompt_x + Len(line), Width) /\ screen.y = prompt_y
=============================================================================
