--------------------------- MODULE TerminalProofs ---------------------------
(***************************************************************************)
(* No modifier is ever stuck, the cursor stays on the screen, the line is     *)
(* shown behind its prompt, and the input rings are queues: for any keyboard  *)
(* whose keys have a code and may have a prefix, any number of keys held      *)
(* down, any terminals, and any size of the screen and of the rings.          *)
(***************************************************************************)
EXTENDS Terminal, TLAPS

\* The static variables of read_key, and what it found.
Kbd == [shift : BOOLEAN, caps : BOOLEAN, ctrl : BOOLEAN, alt : BOOLEAN,
        prefix : {FALSE}, key : Glyphs \cup {NoKey}, control : BOOLEAN, switch : Int]

\* A modifier is taken to be down only while one of its keys is among the keys
\* h held down.
Backed(k, h) ==
    /\ k.shift => \E key \in h : key.code \in {"lshift", "rshift"}
    /\ k.ctrl => \E key \in h : key.code = "ctrl"
    /\ k.alt => \E key \in h : key.code = "alt"

KbdInv == kbd \in Kbd /\ held \subseteq Keys /\ Backed(kbd, held)

\* The prefix is taken for a release of no key: it changes nothing.
LEMMA PrefixIsLost ==
    ASSUME NEW k \in Kbd
    PROVE  Byte(k, Prefix) = k
<1>1. Prefix.top /\ Prefix.code = "E0" /\ ~k.prefix
  BY DEF Prefix, Kbd
<1>2. Byte(k, Prefix) = Released(k, "E0")
  BY <1>1 DEF Byte
<1>3. Released(k, "E0") = [k EXCEPT !.shift = k.shift, !.ctrl = k.ctrl, !.alt = k.alt]
  BY DEF Released, Kbd
<1> QED BY <1>2, <1>3 DEF Kbd

\* So a key with the prefix does what the key without it does.
LEMMA OneByte ==
    ASSUME NEW k \in Kbd, NEW key, NEW top
    PROVE  read_key(k, key, top) = Byte(k, [code |-> key.code, top |-> top])
BY PrefixIsLost DEF read_key

\* What a character of the table is.
LEMMA KeymapType ==
    ASSUME NEW code, NEW shifted \in BOOLEAN
    PROVE  keymap(code, shifted) \in Glyphs \cup {NoKey}
BY DEF keymap, Glyphs

\* A press sets at most the modifier whose key it is.
LEMMA PressBacked ==
    ASSUME NEW k \in Kbd, NEW key \in Keys, NEW h, Backed(k, h)
    PROVE  LET q == read_key(k, key, FALSE)
           IN  /\ q \in Kbd
               /\ Backed(q, IF key.code \in Modifiers THEN h \cup {key} ELSE h)
<1> DEFINE code == key.code
           b == [code |-> code, top |-> FALSE]
           q == Pressed(k, code)
           g == IF code \in Modifiers THEN h \cup {key} ELSE h
<1>1. read_key(k, key, FALSE) = q
  <2>1. ~b.top /\ b.code = code /\ b # Prefix /\ ~k.prefix
    BY DEF Prefix, Kbd
  <2>2. Byte(k, b) = q
    BY <2>1 DEF Byte
  <2> QED BY <2>2, OneByte
<1>2. /\ "lshift" # "ctrl" /\ "lshift" # "alt" /\ "rshift" # "ctrl" /\ "rshift" # "alt"
      /\ "ctrl" # "alt"
  OBVIOUS
<1>3. h \subseteq g
  OBVIOUS
<1>4. Backed(k, g)
  BY <1>3 DEF Backed
<1> HIDE DEF g
<1>5. CASE code \in {"lshift", "rshift"}
  <2>1. q = [k EXCEPT !.shift = TRUE]
    BY <1>5 DEF Pressed
  <2>2. key \in g
    BY <1>5 DEF g, Modifiers
  <2>3. q \in Kbd /\ q.shift /\ q.ctrl = k.ctrl /\ q.alt = k.alt
    BY <2>1 DEF Kbd
  <2> QED BY <1>1, <1>4, <1>5, <2>2, <2>3 DEF Backed, g
<1>6. CASE code = "ctrl"
  <2>1. q = [k EXCEPT !.ctrl = TRUE]
    BY <1>2, <1>6 DEF Pressed
  <2>2. key \in g
    BY <1>6 DEF g, Modifiers
  <2>3. q \in Kbd /\ q.ctrl /\ q.shift = k.shift /\ q.alt = k.alt
    BY <2>1 DEF Kbd
  <2> QED BY <1>1, <1>4, <1>6, <2>2, <2>3 DEF Backed, g
<1>7. CASE code = "alt"
  <2>1. q = [k EXCEPT !.alt = TRUE]
    BY <1>2, <1>7 DEF Pressed
  <2>2. key \in g
    BY <1>7 DEF g, Modifiers
  <2>3. q \in Kbd /\ q.alt /\ q.shift = k.shift /\ q.ctrl = k.ctrl
    BY <2>1 DEF Kbd
  <2> QED BY <1>1, <1>4, <1>7, <2>2, <2>3 DEF Backed, g
<1>8. CASE code \notin Modifiers
  <2>1. q \in Kbd /\ q.shift = k.shift /\ q.ctrl = k.ctrl /\ q.alt = k.alt
    <3>0. code \notin {"lshift", "rshift"} /\ code # "ctrl" /\ code # "alt"
      BY <1>8 DEF Modifiers
    <3>1. CASE code = "caps"
      <4>1. q = [k EXCEPT !.caps = ~k.caps]
        BY <3>0, <3>1 DEF Pressed
      <4> QED BY <4>1 DEF Kbd
    <3>2. CASE code # "caps" /\ k.alt /\ code \in DOMAIN Terminal
      <4>1. q = [k EXCEPT !.switch = Terminal[code]]
        BY <3>0, <3>2 DEF Pressed
      <4> QED BY <3>2, <4>1, KeyboardAssumption DEF Kbd
    <3>3. CASE code # "caps" /\ ~(k.alt /\ code \in DOMAIN Terminal)
      <4>1. q = Typed(k, code)
        BY <3>0, <3>3 DEF Pressed
      <4>2. (k.shift # k.caps) \in BOOLEAN
        OBVIOUS
      <4>3. keymap(code, k.shift # k.caps) \in Glyphs \cup {NoKey}
        BY <4>2, KeymapType
      <4>4. (k.ctrl /\ code \in Letters) \in BOOLEAN
        OBVIOUS
      <4> QED BY <4>1, <4>3, <4>4 DEF Typed, Kbd
    <3> QED BY <3>1, <3>2, <3>3
  <2> QED BY <1>1, <1>4, <2>1 DEF Backed, g
<1> QED BY <1>5, <1>6, <1>7, <1>8 DEF Modifiers

\* A release clears the modifier whose key it is, whichever key it is.
LEMMA ReleaseBacked ==
    ASSUME NEW k \in Kbd, NEW key \in Keys, NEW h, Backed(k, h)
    PROVE  LET q == read_key(k, key, TRUE)
           IN  q \in Kbd /\ Backed(q, h \ {key})
<1> DEFINE code == key.code
           b == [code |-> code, top |-> TRUE]
           q == Released(k, code)
<1>1. read_key(k, key, TRUE) = q
  <2>1. b.top /\ b.code = code /\ ~k.prefix
    BY DEF Kbd
  <2>2. Byte(k, b) = q
    BY <2>1 DEF Byte
  <2> QED BY <2>2, OneByte
<1>2. /\ q \in Kbd
      /\ q.shift = (k.shift /\ code \notin {"lshift", "rshift"})
      /\ q.ctrl = (k.ctrl /\ code # "ctrl")
      /\ q.alt = (k.alt /\ code # "alt")
  BY DEF Released, Kbd
<1> HIDE DEF q
<1>3. Backed(q, h \ {key})
  BY <1>2 DEF Backed
<1> QED BY <1>1, <1>2, <1>3

\* read_key forgets what it found and keeps the modifiers.
LEMMA ReturnedBacked ==
    ASSUME NEW k \in Kbd, NEW h, Backed(k, h)
    PROVE  Returned(k) \in Kbd /\ Backed(Returned(k), h)
<1>1. -1 \in Int
  OBVIOUS
<1>2. Returned(k) \in Kbd
  BY <1>1 DEF Returned, Kbd
<1>3. Returned(k).shift = k.shift /\ Returned(k).ctrl = k.ctrl /\ Returned(k).alt = k.alt
  BY DEF Returned, Kbd
<1> QED BY <1>2, <1>3 DEF Backed

\* What is found by a step that handles a key, and the step's keyboard.
LEMMA KbdStep ==
    ASSUME KbdInv, [TtyNext]_ttyVars
    PROVE  /\ KbdInv'
           /\ \/ \E k \in Kbd : Handle(k)
              \/ Getc
              \/ UNCHANGED ttyVars
<1> USE DEF KbdInv
<1>1. ASSUME NEW key \in Keys, Press(key) PROVE KbdInv' /\ \E k \in Kbd : Handle(k)
  <2> DEFINE q == read_key(kbd, key, FALSE)
             g == IF key.code \in Modifiers THEN held \cup {key} ELSE held
  <2>1. kbd' = Returned(q) /\ held' = g /\ Handle(q)
    BY <1>1 DEF Press
  <2>2. q \in Kbd /\ Backed(q, g)
    BY PressBacked
  <2>3. g \subseteq Keys
    OBVIOUS
  <2> HIDE DEF q, g
  <2>4. Returned(q) \in Kbd /\ Backed(Returned(q), g)
    BY <2>2, ReturnedBacked
  <2> QED BY <2>1, <2>2, <2>3, <2>4 DEF Backed
<1>2. ASSUME NEW key \in held, Release(key) PROVE KbdInv' /\ \E k \in Kbd : Handle(k)
  <2> DEFINE q == read_key(kbd, key, TRUE)
             g == held \ {key}
  <2>1. kbd' = Returned(q) /\ held' = g /\ Handle(q)
    BY <1>2 DEF Release
  <2>2. q \in Kbd /\ Backed(q, g)
    BY ReleaseBacked
  <2>3. g \subseteq Keys
    OBVIOUS
  <2> HIDE DEF q, g
  <2>4. Returned(q) \in Kbd /\ Backed(Returned(q), g)
    BY <2>2, ReturnedBacked
  <2> QED BY <2>1, <2>2, <2>3, <2>4 DEF Backed
<1>3. CASE Getc
  BY <1>3 DEF Getc, Backed
<1>4. CASE UNCHANGED ttyVars
  BY <1>4 DEF ttyVars, Backed
<1> QED BY <1>1, <1>2, <1>3, <1>4 DEF TtyNext

\* Initially nothing is held down.
LEMMA KbdInit == TtyInit => KbdInv
BY DEF TtyInit, KbdInv, Idle, Kbd, Backed

\* Shift, Ctrl and Alt are never taken to be down while none of their keys is,
\* whatever is typed and however terminals are switched (keyboard.c, read_key).
THEOREM ModifiersNeverStick == TtySpec => []NoStuckModifier
<1>1. KbdInv /\ [TtyNext]_ttyVars => KbdInv'
  BY KbdStep
<1>2. KbdInv => NoStuckModifier
  BY DEF KbdInv, Backed, NoStuckModifier
<1> QED BY <1>1, <1>2, KbdInit, PTL DEF TtySpec

-----------------------------------------------------------------------------
(* The screen and the line *)

\* A screen: its cells, and the cursor on it.
ScreenOK(s) ==
    /\ s = [cell |-> s.cell, x |-> s.x, y |-> s.y]
    /\ s.cell = [i \in Cells |-> s.cell[i]]
    /\ OnScreen(s)

\* A cell of a row above n rows is one of the cells of n rows.
LEMMA RowsFit ==
    ASSUME NEW x \in 0 .. Width - 1, NEW n \in Nat, NEW y \in 0 .. n - 1
    PROVE  /\ y * Width + x \in Nat
           /\ y * Width + x < n * Width
<1>1. Width \in Nat /\ x \in Nat /\ y \in Nat
  BY ScreenAssumption
<1>2. y * Width \in Nat /\ n * Width \in Nat
  BY <1>1
<1>3. n * Width = y * Width + (n - y) * Width
  BY <1>1
<1>4. (n - y) * Width >= Width
  BY <1>1
<1> QED BY <1>1, <1>2, <1>3, <1>4

\* Every place of the cursor is a cell.
LEMMA CursorCell ==
    ASSUME NEW x \in 0 .. Width - 1, NEW y \in 0 .. Height - 1
    PROVE  At(x, y) \in Cells
<1>1. Height \in Nat /\ Width \in Nat
  BY ScreenAssumption
<1>2. y * Width + x \in Nat /\ y * Width + x < Height * Width
  BY <1>1, RowsFit
<1>3. Height * Width = Width * Height /\ Width * Height \in Nat
  BY <1>1
<1> QED BY <1>2, <1>3 DEF At, Cells

\* What a character leaves: a screen whose cursor may be one column or one row
\* beyond it.
LEMMA GlyphOK ==
    ASSUME NEW s, NEW c, ScreenOK(s)
    PROVE  LET g == Glyph(s, c)
           IN  /\ g = [cell |-> g.cell, x |-> g.x, y |-> g.y]
               /\ g.cell = [i \in Cells |-> g.cell[i]]
               /\ g.x \in Nat /\ g.y \in 0 .. Height
               /\ g.y = Height => g.x = 0
<1> DEFINE g == Glyph(s, c)
<1>0. /\ s = [cell |-> s.cell, x |-> s.x, y |-> s.y]
      /\ s.cell = [i \in Cells |-> s.cell[i]]
      /\ s.x \in 0 .. Width - 1 /\ s.y \in 0 .. Height - 1
      /\ Width \in Nat \ {0} /\ Height \in Nat \ {0, 1} /\ TabStop \in Nat \ {0}
  BY ScreenAssumption DEF ScreenOK, OnScreen
<1>d. NL # CR /\ NL # TAB /\ NL # BS /\ CR # TAB /\ CR # BS /\ TAB # BS
  BY DEF NL, CR, TAB, BS
<1>1. CASE c = NL
  <2>1. g = [cell |-> s.cell, x |-> 0, y |-> s.y + 1]
    BY <1>0, <1>1, <1>d DEF Glyph
  <2> QED BY <1>0, <2>1
<1>2. CASE c = CR
  <2>1. g = [cell |-> s.cell, x |-> 0, y |-> s.y]
    BY <1>0, <1>2, <1>d DEF Glyph
  <2> QED BY <1>0, <2>1
<1>3. CASE c = TAB
  <2>1. g = [cell |-> s.cell, x |-> (s.x + TabStop) - (s.x % TabStop), y |-> s.y]
    BY <1>0, <1>3, <1>d DEF Glyph
  <2>2. s.x % TabStop \in 0 .. TabStop - 1
    BY <1>0
  <2>3. (s.x + TabStop) - (s.x % TabStop) \in Nat
    BY <1>0, <2>2
  <2> QED BY <1>0, <2>1, <2>3
<1>4. CASE c = BS
  <2>1. CASE s.x = 0
    BY <1>0, <1>4, <1>d, <2>1 DEF Glyph
  <2>2. CASE s.x # 0
    <3>1. g = [cell |-> [s.cell EXCEPT ![At(s.x - 1, s.y)] = Blank], x |-> s.x - 1, y |-> s.y]
      BY <1>0, <1>4, <1>d, <2>2 DEF Glyph
    <3> QED BY <1>0, <2>2, <3>1
  <2> QED BY <2>1, <2>2
<1>5. CASE c \notin {NL, CR, TAB, BS}
  <2>1. g = [cell |-> [s.cell EXCEPT ![At(s.x, s.y)] = c], x |-> s.x + 1, y |-> s.y]
    BY <1>0, <1>5 DEF Glyph
  <2> QED BY <1>0, <2>1
<1> QED BY <1>1, <1>2, <1>3, <1>4, <1>5

\* putchar leaves the cursor on the screen.
LEMMA PutcharOK ==
    ASSUME NEW s, NEW c, ScreenOK(s)
    PROVE  ScreenOK(putchar(s, c))
<1> DEFINE g == Glyph(s, c)
           w == Wrap(g)
<1>0. Width \in Nat \ {0} /\ Height \in Nat \ {0, 1}
  BY ScreenAssumption
<1>1. /\ g = [cell |-> g.cell, x |-> g.x, y |-> g.y]
      /\ g.cell = [i \in Cells |-> g.cell[i]]
      /\ g.x \in Nat /\ g.y \in 0 .. Height
      /\ g.y = Height => g.x = 0
  BY GlyphOK
<1> HIDE DEF g
<1>2. /\ w = [cell |-> g.cell, x |-> w.x, y |-> w.y]
      /\ w.x \in 0 .. Width - 1 /\ w.y \in 0 .. Height
  <2>1. CASE g.x >= Width
    <3>1. w = [cell |-> g.cell, x |-> 0, y |-> g.y + 1]
      BY <1>1, <2>1 DEF Wrap
    <3> QED BY <1>0, <1>1, <2>1, <3>1
  <2>2. CASE g.x < Width
    <3>1. w = g
      BY <1>0, <1>1, <2>2 DEF Wrap
    <3> QED BY <1>0, <1>1, <2>2, <3>1
  <2> QED BY <1>0, <1>1, <2>1, <2>2
<1>3. w.cell = g.cell
  BY <1>2
<1>4. putchar(s, c) = IF w.y >= Height THEN scroll_up(w) ELSE w
  BY DEF putchar, g
<1> HIDE DEF w
<1>5. CASE w.y >= Height
  <2>1. putchar(s, c) = scroll_up(w)
    BY <1>4, <1>5
  <2>2. ScreenOK(scroll_up(w))
    BY <1>0, <1>2 DEF scroll_up, ScreenOK, OnScreen
  <2> QED BY <2>1, <2>2
<1>6. CASE w.y < Height
  <2>1. putchar(s, c) = w
    BY <1>0, <1>2, <1>4, <1>6
  <2>2. w.y \in 0 .. Height - 1
    BY <1>0, <1>2, <1>6
  <2>3. ScreenOK(w)
    BY <1>1, <1>2, <1>3, <2>2 DEF ScreenOK, OnScreen
  <2> QED BY <2>1, <2>3
<1> QED BY <1>0, <1>2, <1>5, <1>6

Putchar(e, s, c) == putchar(s, c)
IsScreen(e, s) == ScreenOK(s)

W == INSTANCE Induction WITH Op <- Putchar, Good <- IsScreen

LEMMA WriteFolds ==
    ASSUME NEW s, NEW str
    PROVE  vga_write(s, str) = W!Fold(0, s, str)
BY DEF vga_write, W!Fold, FoldLeft, MapThenFoldSet, Max, W!FoldLeft,
       W!MapThenFoldSet, W!Max, Putchar

\* vga_write leaves it there, whatever it writes.
LEMMA WriteOK ==
    ASSUME NEW s, ScreenOK(s), NEW T, NEW str \in Seq(T)
    PROVE  ScreenOK(vga_write(s, str))
<1> DEFINE n == Len(str)
<1>1. n \in Nat /\ DOMAIN str = 1 .. n
  OBVIOUS
<1>2. IsScreen(0, s)
  BY DEF IsScreen
<1>3. \A k \in 1 .. n : \A x : IsScreen(0, x) => IsScreen(0, Putchar(0, x, str[k]))
  BY PutcharOK DEF IsScreen, Putchar
<1>4. IsScreen(0, W!Fold(0, s, str))
  <2> HIDE DEF n
  <2> QED BY <1>1, <1>2, <1>3, W!FoldGood
<1> QED BY <1>4, WriteFolds DEF IsScreen

\* A character that is seen is right before the cursor, also when the row was
\* full or the screen scrolled.
LEMMA PutcharShown ==
    ASSUME NEW s, ScreenOK(s), NEW c, c \notin {NL, CR, TAB, BS}
    PROVE  LET t == putchar(s, c)
           IN  /\ At(t.x, t.y) - 1 \in Cells
               /\ t.cell[At(t.x, t.y) - 1] = c
<1> DEFINE a == At(s.x, s.y)
           f == [s.cell EXCEPT ![a] = c]
           g == [cell |-> f, x |-> s.x + 1, y |-> s.y]
           w == Wrap(g)
           t == putchar(s, c)
<1>0. /\ s = [cell |-> s.cell, x |-> s.x, y |-> s.y]
      /\ s.cell = [i \in Cells |-> s.cell[i]]
      /\ s.x \in 0 .. Width - 1 /\ s.y \in 0 .. Height - 1
      /\ Width \in Nat \ {0} /\ Height \in Nat \ {0, 1}
  BY ScreenAssumption DEF ScreenOK, OnScreen
<1>1. Glyph(s, c) = g
  BY <1>0 DEF Glyph
<1>2. a \in Cells /\ a = s.y * Width + s.x /\ s.y * Width \in Nat
  BY <1>0, CursorCell DEF At
<1>3. f[a] = c
  BY <1>0, <1>2
<1>4. t = IF w.y >= Height THEN scroll_up(w) ELSE w
  BY <1>1 DEF putchar
<1>5. g.cell = f /\ g.x = s.x + 1 /\ g.y = s.y
  OBVIOUS
<1> HIDE DEF f, g, a
<1>6. CASE s.x + 1 < Width
  <2>1. w = g
    BY <1>0, <1>5, <1>6 DEF Wrap
  <2>2. t = g
    BY <1>0, <1>4, <1>5, <2>1
  <2>3. At(t.x, t.y) - 1 = a
    BY <1>0, <1>2, <1>5, <2>2 DEF At
  <2> QED BY <1>2, <1>3, <1>5, <2>2, <2>3
<1>7. CASE s.x + 1 = Width
  <2>1. w = [cell |-> f, x |-> 0, y |-> s.y + 1]
    <3>1. Wrap(g) = [g EXCEPT !.x = 0, !.y = @ + 1]
      BY <1>0, <1>5, <1>7 DEF Wrap
    <3> QED BY <3>1 DEF g
  <2>2. (s.y + 1) * Width = s.y * Width + Width
    BY <1>0
  <2>3. CASE s.y + 1 < Height
    <3>1. t = w
      BY <1>0, <1>4, <2>1, <2>3
    <3>2. At(t.x, t.y) - 1 = a
      BY <1>0, <1>2, <1>7, <2>1, <2>2, <3>1 DEF At
    <3> QED BY <1>2, <1>3, <2>1, <3>1, <3>2
  <2>4. CASE s.y + 1 = Height
    <3>1. t = scroll_up(w)
      BY <1>0, <1>4, <2>1, <2>4
    <3>2. t.x = 0 /\ t.y = Height - 1
      BY <2>1, <3>1 DEF scroll_up
    <3> DEFINE i == At(t.x, t.y) - 1
    <3>3. i \in Int /\ i + Width = a
      BY <1>0, <1>2, <1>7, <2>4, <3>2 DEF At
    <3>4. i >= 0
      <4>1. (Height - 1) * Width >= 1
        BY <1>0
      <4> QED BY <1>0, <3>2, <4>1 DEF At
    <3>5. i \in Cells
      <4>1. i \in Nat /\ i <= a
        BY <1>0, <3>3, <3>4
      <4> HIDE DEF i
      <4> QED BY <1>0, <1>2, <4>1 DEF Cells
    <3>6. t.cell[i] = f[i + Width]
      BY <1>2, <2>1, <3>1, <3>3, <3>5 DEF scroll_up
    <3> QED BY <1>3, <3>3, <3>5, <3>6
  <2> QED BY <1>0, <2>3, <2>4
<1> QED BY <1>0, <1>6, <1>7

\* So the end of the prompt is right before the cursor once it is printed.
LEMMA PromptShown ==
    ASSUME NEW s, ScreenOK(s)
    PROVE  LET t == vga_write(s, Prompt)
           IN  /\ ScreenOK(t)
               /\ At(t.x, t.y) - 1 \in Cells
               /\ t.cell[At(t.x, t.y) - 1] = Last(Prompt)
<1> DEFINE n == Len(Prompt) - 1
           p == SubSeq(Prompt, 1, n)
           u == vga_write(s, p)
<1>1. n \in Nat /\ DOMAIN Prompt = 1 .. n + 1 /\ Last(Prompt) = Prompt[n + 1]
  BY TerminalAssumption DEF Last
<1>2. p \in Seq(STRING) /\ DOMAIN p = 1 .. n /\ \A k \in 1 .. n : p[k] = Prompt[k]
  BY <1>1, TerminalAssumption
<1>3. ScreenOK(vga_write(s, Prompt))
  BY WriteOK, TerminalAssumption
<1>4. ScreenOK(u)
  <2> HIDE DEF p
  <2> QED BY <1>2, WriteOK
<1> HIDE DEF p, n, u
<1>5. vga_write(s, Prompt) = putchar(u, Last(Prompt))
  <2>1. W!Fold(0, s, Prompt) = Putchar(0, W!Fold(0, s, p), Prompt[n + 1])
    BY <1>1, <1>2, W!FoldLast
  <2> QED BY <1>1, <2>1, WriteFolds DEF Putchar, u
<1> QED BY <1>3, <1>4, <1>5, PutcharShown, TerminalAssumption

-----------------------------------------------------------------------------

\* The room for the line behind a prompt that ends at column px.
Room(px) == IF Width - px - 1 <= 0 THEN 1 ELSE Width - px - 1

\* What the screen s shows of a line with its prompt.
Shows(s, str, px, py) ==
    /\ At(px, py) - 1 \in Cells
    /\ s.cell[At(px, py) - 1] = Last(Prompt)
    /\ str # <<>> =>
          \A i \in 0 .. Room(px) - 1 :
              s.cell[At(px, py) + i] = IF i < Len(str) THEN str[i + 1] ELSE Blank
    /\ s.x = Clamp(px + Len(str), Width) /\ s.y = py

\* vga_set_pos puts the cursor on the screen.
LEMMA SetPosOK ==
    ASSUME NEW u, NEW a, NEW b, NEW px \in Int, NEW py \in Int
    PROVE  LET s == vga_set_pos([cell |-> u, x |-> a, y |-> b], px, py)
           IN  /\ s = [cell |-> u, x |-> Clamp(px, Width), y |-> Clamp(py, Height)]
               /\ u = [i \in Cells |-> u[i]] => ScreenOK(s)
<1> DEFINE cx == Clamp(px, Width)
           cy == Clamp(py, Height)
<1>0. Width \in Nat \ {0} /\ Height \in Nat \ {0, 1}
  BY ScreenAssumption
<1>1. cx \in 0 .. Width - 1 /\ cy \in 0 .. Height - 1
  BY <1>0 DEF Clamp
<1>2. vga_set_pos([cell |-> u, x |-> a, y |-> b], px, py)
        = [[cell |-> u, x |-> a, y |-> b] EXCEPT !.x = cx, !.y = cy]
  BY Zenon DEF vga_set_pos
<1> HIDE DEF cx, cy
<1>3. [[cell |-> u, x |-> a, y |-> b] EXCEPT !.x = cx] = [cell |-> u, x |-> cx, y |-> b]
  OBVIOUS
<1>4. [[cell |-> u, x |-> cx, y |-> b] EXCEPT !.y = cy] = [cell |-> u, x |-> cx, y |-> cy]
  OBVIOUS
<1>5. vga_set_pos([cell |-> u, x |-> a, y |-> b], px, py) = [cell |-> u, x |-> cx, y |-> cy]
  BY <1>2, <1>3, <1>4, Zenon
<1>6. u = [i \in Cells |-> u[i]] => ScreenOK([cell |-> u, x |-> cx, y |-> cy])
  BY <1>1 DEF ScreenOK, OnScreen
<1> QED BY <1>5, <1>6, Zenon DEF cx, cy

\* REDRAW shows the line, and leaves the prompt before it.
LEMMA RedrawShows ==
    ASSUME NEW s, ScreenOK(s), NEW px \in 0 .. Width - 1, NEW py \in 0 .. Height - 1,
           NEW T, NEW str \in Seq(T)
    PROVE  LET t == Redraw(s, str, px, py, Room(px))
           IN  /\ ScreenOK(t)
               /\ (/\ At(px, py) - 1 \in Cells
                   /\ s.cell[At(px, py) - 1] = Last(Prompt)) => Shows(t, str, px, py)
<1> DEFINE a == At(px, py)
           t == Redraw(s, str, px, py, Room(px))
           f == [i \in Cells |->
                   IF i - a \notin 0 .. Room(px) - 1 THEN s.cell[i]
                   ELSE IF i - a < Len(str) THEN str[(i - a) + 1] ELSE Blank]
<1>0. /\ s = [cell |-> s.cell, x |-> s.x, y |-> s.y]
      /\ s.cell = [i \in Cells |-> s.cell[i]]
      /\ Width \in Nat \ {0} /\ Height \in Nat \ {0, 1}
      /\ Len(str) \in Nat
  BY ScreenAssumption DEF ScreenOK
<1>1. /\ Room(px) \in Nat /\ px + Room(px) <= Width
      /\ (IF px + Room(px) > Width THEN Width - px ELSE Room(px)) = Room(px)
  BY <1>0 DEF Room
<1>2. vga_draw_row(s, py, px, Room(px), str) = [cell |-> f, x |-> s.x, y |-> s.y]
  <2> DEFINE w == IF px + Room(px) > Width THEN Width - px ELSE Room(px)
  <2>1. w = Room(px)
    BY <1>1
  <2> HIDE DEF w
  <2>2. vga_draw_row(s, py, px, Room(px), str)
          = [s EXCEPT !.cell =
                [i \in Cells |->
                    LET k == i - a
                    IN  IF k \notin 0 .. w - 1 THEN s.cell[i]
                        ELSE IF k < Len(str) THEN str[k + 1] ELSE Blank]]
    BY DEF vga_draw_row, w
  <2> QED BY <1>0, <2>1, <2>2
<1> DEFINE d == [cell |-> f, x |-> s.x, y |-> s.y]
<1>3. f = [i \in Cells |-> f[i]]
  OBVIOUS
<1>4. t = vga_set_pos(d, px + Len(str), py)
  BY <1>2 DEF Redraw
<1>5. t = [cell |-> f, x |-> Clamp(px + Len(str), Width), y |-> Clamp(py, Height)]
  <2>1. px + Len(str) \in Int /\ py \in Int
    BY <1>0
  <2> HIDE DEF t, f
  <2> QED BY <1>3, <1>4, <2>1, SetPosOK
<1>6. Clamp(py, Height) = py
  BY <1>0 DEF Clamp
<1>7. ScreenOK(t)
  <2>1. px + Len(str) \in Int /\ py \in Int
    BY <1>0
  <2> HIDE DEF t, f
  <2> QED BY <1>3, <1>4, <2>1, SetPosOK
<1>8. ASSUME a - 1 \in Cells, s.cell[a - 1] = Last(Prompt)
      PROVE  Shows(t, str, px, py)
  <2>1. a \in Int
    BY <1>0 DEF At
  <2>2. t.cell[a - 1] = Last(Prompt)
    <3>1. f[a - 1] = IF (a - 1) - a \notin 0 .. Room(px) - 1 THEN s.cell[a - 1]
                     ELSE IF (a - 1) - a < Len(str) THEN str[((a - 1) - a) + 1] ELSE Blank
      BY <1>8
    <3>2. (a - 1) - a \notin 0 .. Room(px) - 1
      BY <2>1
    <3> HIDE DEF f, a
    <3> QED BY <1>5, <1>8, <3>1, <3>2
  <2>3. ASSUME NEW i \in 0 .. Room(px) - 1
        PROVE  t.cell[a + i] = IF i < Len(str) THEN str[i + 1] ELSE Blank
    <3>1. px + i \in 0 .. Width - 1
      BY <1>0, <1>1
    <3>2. At(px + i, py) \in Cells
      BY <3>1, CursorCell
    <3>3. At(px + i, py) = a + i
      BY <1>0, <1>1 DEF At
    <3>4. (a + i) - a = i
      BY <1>1, <2>1
    <3>5. f[a + i] = IF (a + i) - a \notin 0 .. Room(px) - 1 THEN s.cell[a + i]
                     ELSE IF (a + i) - a < Len(str) THEN str[((a + i) - a) + 1] ELSE Blank
      BY <3>2, <3>3
    <3> HIDE DEF f, a
    <3> QED BY <1>5, <3>4, <3>5
  <2> HIDE DEF f, t
  <2> QED BY <1>5, <1>6, <1>8, <2>2, <2>3 DEF Shows
<1> QED BY <1>7, <1>8

\* The screen and the line that is read.
LineInv ==
    /\ ScreenOK(screen)
    /\ prompt_x \in 0 .. Width - 1 /\ prompt_y \in 0 .. Height - 1
    /\ line \in Seq(Glyphs)
    /\ ~moved => Shows(screen, line, prompt_x, prompt_y)

\* The screens of the other terminals.
SavedInv ==
    /\ current_tty \in Ttys
    /\ saved = [t \in Ttys |-> saved[t]]
    /\ \A t \in Ttys : ScreenOK(saved[t])

\* An empty screen.
LEMMA ClearedOK == ScreenOK(Cleared)
BY ScreenAssumption DEF ScreenOK, OnScreen, Cleared

\* A column of the screen is where vga_set_pos puts it.
LEMMA ClampOn ==
    ASSUME NEW x \in 0 .. Width - 1
    PROVE  Clamp(x + 0, Width) = x
BY ScreenAssumption DEF Clamp

\* A fresh prompt is shown with the empty line behind it.
LEMMA NewPromptShows ==
    ASSUME NEW s, ScreenOK(s), NewPrompt(s)
    PROVE  LineInv'
<1> DEFINE t == vga_write(s, Prompt)
<1>1. /\ ScreenOK(t) /\ At(t.x, t.y) - 1 \in Cells
      /\ t.cell[At(t.x, t.y) - 1] = Last(Prompt)
  BY PromptShown
<1>2. screen' = t /\ prompt_x' = t.x /\ prompt_y' = t.y /\ line' = <<>>
  BY DEF NewPrompt
<1> HIDE DEF t
<1>3. t.x \in 0 .. Width - 1 /\ t.y \in 0 .. Height - 1
  BY <1>1 DEF ScreenOK, OnScreen
<1>4. Len(<<>>) = 0 /\ <<>> \in Seq(Glyphs)
  OBVIOUS
<1>5. Clamp(t.x + Len(<<>>), Width) = t.x
  BY <1>3, <1>4, ClampOn
<1>6. Shows(t, <<>>, t.x, t.y)
  BY <1>1, <1>5 DEF Shows
<1> QED BY <1>1, <1>2, <1>3, <1>4, <1>6 DEF LineInv

\* So is an edited line.
LEMMA EditShows ==
    ASSUME LineInv, NEW str \in Seq(Glyphs), Edit(str)
    PROVE  LineInv'
<1> DEFINE t == Redraw(screen, str, prompt_x, prompt_y, Room(prompt_x))
<1>1. max_len = Room(prompt_x)
  BY DEF max_len, Room
<1>2. /\ screen' = t /\ line' = str /\ prompt_x' = prompt_x /\ prompt_y' = prompt_y
      /\ moved' = moved
  BY <1>1 DEF Edit
<1>3. /\ ScreenOK(t)
      /\ (/\ At(prompt_x, prompt_y) - 1 \in Cells
          /\ screen.cell[At(prompt_x, prompt_y) - 1] = Last(Prompt))
              => Shows(t, str, prompt_x, prompt_y)
  BY RedrawShows DEF LineInv
<1> HIDE DEF t
<1>4. ~moved => Shows(t, str, prompt_x, prompt_y)
  BY <1>3 DEF LineInv, Shows
<1> QED BY <1>2, <1>3, <1>4 DEF LineInv

\* And the line after Ctrl+L, at its new place.
LEMMA ClearShows ==
    ASSUME LineInv, ClearScreen
    PROVE  LineInv'
<1> DEFINE s == vga_write(clear_screen(screen), Prompt)
           t == Redraw(s, line, s.x, s.y, Room(s.x))
<1>1. /\ ScreenOK(s) /\ At(s.x, s.y) - 1 \in Cells
      /\ s.cell[At(s.x, s.y) - 1] = Last(Prompt)
  BY ClearedOK, PromptShown DEF clear_screen
<1>2. /\ prompt_x' = s.x /\ prompt_y' = s.y /\ line' = line
      /\ screen' = Redraw(s, line, s.x, s.y, max_len')
  BY DEF ClearScreen
<1> HIDE DEF s
<1>3. max_len' = Room(s.x)
  BY <1>2 DEF max_len, Room
<1>4. s.x \in 0 .. Width - 1 /\ s.y \in 0 .. Height - 1 /\ line \in Seq(Glyphs)
  BY <1>1 DEF ScreenOK, OnScreen, LineInv
<1>5. ScreenOK(t) /\ Shows(t, line, s.x, s.y)
  BY <1>1, <1>4, RedrawShows
<1>6. screen' = t
  BY <1>2, <1>3
<1> HIDE DEF t
<1> QED BY <1>2, <1>4, <1>5, <1>6 DEF LineInv

\* Every key the shell reads leaves the line shown.
LEMMA ShellKeyShows ==
    ASSUME LineInv, NEW c \in Glyphs \cup {CtrlL, CtrlC, NL, CR, BS, NoKey}, ShellKey(c)
    PROVE  LineInv'
<1>0. ScreenOK(screen) /\ line \in Seq(Glyphs)
  BY DEF LineInv
<1>1. CASE c = CtrlL
  <2>1. ClearScreen
    BY <1>1 DEF ShellKey, CtrlL, CtrlC, NL, CR, BS
  <2> QED BY <2>1, ClearShows
<1>2. CASE c = CtrlC
  <2>1. NewPrompt(vga_write(screen, <<"^", "C", NL>>))
    BY <1>2 DEF ShellKey, CtrlL, CtrlC, NL, CR, BS
  <2>2. <<"^", "C", NL>> \in Seq({"^", "C", NL})
    OBVIOUS
  <2>3. ScreenOK(vga_write(screen, <<"^", "C", NL>>))
    BY <1>0, <2>2, WriteOK
  <2> QED BY <2>1, <2>3, NewPromptShows
<1>3. CASE c \in {NL, CR}
  <2>1. \E out \in IF line = <<>> THEN {<<>>} ELSE Outputs :
            NewPrompt(vga_write(vga_write(screen, <<NL>>), out))
    BY <1>3 DEF ShellKey, CtrlL, CtrlC, NL, CR, BS
  <2>2. PICK out \in IF line = <<>> THEN {<<>>} ELSE Outputs :
            NewPrompt(vga_write(vga_write(screen, <<NL>>), out))
    BY <2>1
  <2>3. out \in Seq(STRING)
    <3>1. CASE line = <<>>
      BY <3>1
    <3>2. CASE line # <<>>
      BY <3>2, TerminalAssumption
    <3> QED BY <3>1, <3>2
  <2>4. <<NL>> \in Seq({NL})
    OBVIOUS
  <2>5. ScreenOK(vga_write(screen, <<NL>>))
    BY <1>0, <2>4, WriteOK
  <2>6. ScreenOK(vga_write(vga_write(screen, <<NL>>), out))
    BY <2>3, <2>5, WriteOK
  <2> QED BY <2>2, <2>6, NewPromptShows
<1>4. CASE c = BS /\ line # <<>>
  <2>1. Edit(Front(line))
    BY <1>4 DEF ShellKey, CtrlL, CtrlC, NL, CR, BS
  <2>2. Front(line) \in Seq(Glyphs)
    BY <1>0, <1>4 DEF Front
  <2> QED BY <2>1, <2>2, EditShows
<1>5. CASE c \notin {CtrlL, CtrlC, NL, CR, BS, TAB, NoKey} /\ Len(line) < max_len
  <2>1. Edit(Append(line, c))
    BY <1>5 DEF ShellKey
  <2>2. Append(line, c) \in Seq(Glyphs)
    BY <1>0, <1>5
  <2> QED BY <2>1, <2>2, EditShows
<1>6. CASE /\ c \notin {CtrlL, CtrlC, NL, CR}
           /\ ~(c = BS /\ line # <<>>)
           /\ ~(c \notin {CtrlL, CtrlC, NL, CR, BS, TAB, NoKey} /\ Len(line) < max_len)
  <2>1. Nothing
    BY <1>6 DEF ShellKey
  <2> QED BY <2>1 DEF Nothing, LineInv
<1> QED BY <1>1, <1>2, <1>3, <1>4, <1>5, <1>6

\* A switch of terminals leaves every cursor on its screen.
LEMMA SwitchShows ==
    ASSUME LineInv, SavedInv, NEW n \in Ttys, Switch(n)
    PROVE  LineInv' /\ SavedInv'
<1> DEFINE b == saved'[n]
           r == vga_set_pos([screen EXCEPT !.cell = b.cell], b.x, b.y)
<1>1. /\ saved' = [saved EXCEPT ![current_tty] = screen] /\ current_tty' = n
      /\ screen' = vga_write(r, <<NL>> \o Prompt) /\ moved' = TRUE
      /\ line' = line /\ prompt_x' = prompt_x /\ prompt_y' = prompt_y
  BY DEF Switch
<1>2. saved' = [t \in Ttys |-> saved'[t]] /\ \A t \in Ttys : ScreenOK(saved'[t])
  BY <1>1 DEF SavedInv, LineInv
<1>3. ScreenOK(b)
  BY <1>2
<1> HIDE DEF b
<1>4. [screen EXCEPT !.cell = b.cell] = [cell |-> b.cell, x |-> screen.x, y |-> screen.y]
  <2> DEFINE u == b.cell
  <2>1. screen = [cell |-> screen.cell, x |-> screen.x, y |-> screen.y]
    BY DEF LineInv, ScreenOK
  <2> HIDE DEF u
  <2>2. [screen EXCEPT !.cell = u] = [cell |-> u, x |-> screen.x, y |-> screen.y]
    BY <2>1
  <2> QED BY <2>2 DEF u
<1>5. b.x \in Int /\ b.y \in Int /\ b.cell = [i \in Cells |-> b.cell[i]]
  BY <1>3 DEF ScreenOK, OnScreen
<1>6. ScreenOK(r)
  <2> DEFINE u == b.cell
  <2>1. u = [i \in Cells |-> u[i]]
    BY <1>5
  <2>2. r = vga_set_pos([cell |-> u, x |-> screen.x, y |-> screen.y], b.x, b.y)
    BY <1>4
  <2> HIDE DEF u, r
  <2> QED BY <1>5, <2>1, <2>2, SetPosOK
<1>7. <<NL>> \o Prompt \in Seq(STRING \cup {NL})
  <2>1. <<NL>> \in Seq(STRING \cup {NL}) /\ Prompt \in Seq(STRING \cup {NL})
    BY TerminalAssumption
  <2> QED BY <2>1
<1> HIDE DEF r
<1>8. ScreenOK(screen')
  BY <1>1, <1>6, <1>7, WriteOK
<1> QED BY <1>1, <1>2, <1>8 DEF LineInv, SavedInv

\* All that follows from a key.
LEMMA HandleShows ==
    ASSUME LineInv, SavedInv, NEW k \in Kbd, Handle(k)
    PROVE  LineInv' /\ SavedInv'
<1>1. CASE k.switch \in Ttys \ {current_tty}
  <2>1. Switch(k.switch)
    BY <1>1 DEF Handle
  <2> QED BY <1>1, <2>1, SwitchShows
<1>2. CASE k.switch \notin Ttys \ {current_tty}
  <2> DEFINE c == IF k.control THEN Control(k.key) ELSE k.key
  <2>1. ShellKey(c) /\ saved' = saved /\ current_tty' = current_tty
    BY <1>2 DEF Handle
  <2>2. Control(k.key) \in {CtrlL, CtrlC, NL, CR, BS, NoKey}
    BY DEF Control
  <2>3. k.key \in Glyphs \cup {NoKey}
    BY DEF Kbd
  <2>4. c \in Glyphs \cup {CtrlL, CtrlC, NL, CR, BS, NoKey}
    BY <2>2, <2>3
  <2> HIDE DEF c
  <2>5. LineInv'
    BY <2>1, <2>4, ShellKeyShows
  <2> QED BY <2>1, <2>5 DEF SavedInv
<1> QED BY <1>1, <1>2

\* The screens and the line are right in every reachable state.
LEMMA ScreensRight == TtySpec => [](KbdInv /\ LineInv /\ SavedInv)
<1>1. TtyInit => LineInv /\ SavedInv
  <2> SUFFICES ASSUME TtyInit PROVE LineInv /\ SavedInv
    OBVIOUS
  <2> DEFINE t == vga_write(Cleared, Prompt)
  <2>1. /\ ScreenOK(t) /\ At(t.x, t.y) - 1 \in Cells
        /\ t.cell[At(t.x, t.y) - 1] = Last(Prompt)
    BY ClearedOK, PromptShown
  <2>2. /\ screen = t /\ prompt_x = t.x /\ prompt_y = t.y /\ line = <<>>
        /\ saved = [u \in Ttys |-> Cleared] /\ current_tty = 0
    BY DEF TtyInit
  <2> HIDE DEF t
  <2>3. t.x \in 0 .. Width - 1 /\ t.y \in 0 .. Height - 1
    BY <2>1 DEF ScreenOK, OnScreen
  <2>4. Len(<<>>) = 0 /\ <<>> \in Seq(Glyphs)
    OBVIOUS
  <2>5. Clamp(t.x + Len(<<>>), Width) = t.x
    BY <2>3, <2>4, ClampOn
  <2>6. Shows(t, <<>>, t.x, t.y)
    BY <2>1, <2>5 DEF Shows
  <2>7. LineInv
    BY <2>1, <2>2, <2>3, <2>4, <2>6 DEF LineInv
  <2>8. SavedInv
    BY <2>2, ClearedOK, TerminalAssumption DEF SavedInv
  <2> QED BY <2>7, <2>8
<1>2. /\ KbdInv /\ LineInv /\ SavedInv
      /\ [TtyNext]_ttyVars
      => (KbdInv /\ LineInv /\ SavedInv)'
  <2> SUFFICES ASSUME KbdInv, LineInv, SavedInv, [TtyNext]_ttyVars
               PROVE  (KbdInv /\ LineInv /\ SavedInv)'
    OBVIOUS
  <2>1. KbdInv' /\ (\/ \E k \in Kbd : Handle(k)
                    \/ Getc
                    \/ UNCHANGED ttyVars)
    BY KbdStep
  <2>2. ASSUME NEW k \in Kbd, Handle(k) PROVE LineInv' /\ SavedInv'
    BY <2>2, HandleShows
  <2>3. ASSUME UNCHANGED <<screen, saved, current_tty, line, prompt_x, prompt_y, moved>>
        PROVE  LineInv' /\ SavedInv'
    <3>1. LineInv'
      BY <2>3 DEF LineInv
    <3>2. SavedInv'
      BY <2>3 DEF SavedInv
    <3> QED BY <3>1, <3>2
  <2>4. CASE Getc
    BY <2>1, <2>3, <2>4 DEF Getc
  <2>5. CASE UNCHANGED ttyVars
    BY <2>1, <2>3, <2>5 DEF ttyVars
  <2> QED BY <2>1, <2>2, <2>4, <2>5
<1> QED BY <1>1, <1>2, KbdInit, PTL DEF TtySpec

\* No character is ever written outside video memory: the cursor of the screen
\* and the saved cursor of every terminal are on the screen, for every size of
\* the screen and whatever is printed (vga.c, tty.c).
THEOREM CursorStaysOnScreen == TtySpec => []CursorOnScreen
<1>1. LineInv /\ SavedInv => CursorOnScreen
  BY DEF LineInv, SavedInv, ScreenOK, CursorOnScreen
<1> QED BY <1>1, ScreensRight, PTL

\* The line that is typed is what the screen shows behind the prompt, through
\* wrapping, scrolling and clearing, until the terminal is switched (shell_run).
THEOREM LineStaysBehindPrompt == TtySpec => []LineBehindPrompt
<1>1. LineInv => LineBehindPrompt
  <2>1. max_len = Room(prompt_x)
    BY DEF max_len, Room
  <2> QED BY <2>1 DEF LineInv, Shows, LineBehindPrompt
<1> QED BY <1>1, ScreensRight, PTL

-----------------------------------------------------------------------------
(* The input rings *)

\* How many keys are in a ring.
Held(r) == IF r.head >= r.tail THEN r.head - r.tail ELSE r.head - r.tail + BufSize

\* The place that comes j places behind place i.
Place(i, j) == IF i + j < BufSize THEN i + j ELSE i + j - BufSize

\* Remainders of numbers that are near.
LEMMA ModNear ==
    ASSUME NEW b \in Nat \ {0}, NEW i \in 0 .. b - 1
    PROVE  i % b = i /\ (i + b) % b = i /\ (i - b) % b = i
OBVIOUS

\* The way from place t to place h.
LEMMA Distance ==
    ASSUME BufSize \in Nat \ {0}, NEW h \in 0 .. BufSize - 1, NEW t \in 0 .. BufSize - 1
    PROVE  (h - t) % BufSize = IF h >= t THEN h - t ELSE h - t + BufSize
<1>1. CASE h >= t
  <2>1. h - t \in 0 .. BufSize - 1
    BY <1>1
  <2> QED BY <1>1, <2>1, ModNear
<1>2. CASE h < t
  <2> DEFINE i == h - t + BufSize
  <2>1. i \in 0 .. BufSize - 1 /\ i - BufSize = h - t /\ ~(h >= t)
    BY <1>2
  <2>2. (i - BufSize) % BufSize = i
    <3> HIDE DEF i
    <3> QED BY <2>1, ModNear
  <2> QED BY <2>1, <2>2
<1> QED BY <1>1, <1>2

\* The places are numbered modulo their number.
LEMMA PlaceIs ==
    ASSUME BufSize \in Nat \ {0}, NEW i \in 0 .. BufSize - 1, NEW j \in 0 .. BufSize
    PROVE  (i + j) % BufSize = Place(i, j) /\ Place(i, j) \in 0 .. BufSize - 1
<1>1. CASE i + j < BufSize
  <2>1. i + j \in 0 .. BufSize - 1
    BY <1>1
  <2> QED BY <1>1, <2>1, ModNear DEF Place
<1>2. CASE i + j >= BufSize
  <2> DEFINE k == i + j - BufSize
  <2>1. k \in 0 .. BufSize - 1 /\ k + BufSize = i + j /\ ~(i + j < BufSize)
    BY <1>2
  <2>2. (k + BufSize) % BufSize = k
    <3> HIDE DEF k
    <3> QED BY <2>1, ModNear
  <2> QED BY <2>1, <2>2 DEF Place
<1> QED BY <1>1, <1>2

\* The ring as a sequence.
LEMMA ContentsAre ==
    ASSUME NEW r \in Ring
    PROVE  /\ Contents(r) = [i \in 1 .. Held(r) |-> r.buf[Place(r.tail, i - 1)]]
           /\ Held(r) \in 0 .. BufSize - 1
           /\ Len(Contents(r)) = Held(r)
           /\ Contents(r) \in Seq(Glyphs \cup {Blank})
<1>0. BufSize \in Nat \ {0, 1} /\ r.head \in 0 .. BufSize - 1 /\ r.tail \in 0 .. BufSize - 1
      /\ r.buf \in [0 .. BufSize - 1 -> Glyphs \cup {Blank}]
  BY TerminalAssumption DEF Ring
<1>1. (r.head - r.tail) % BufSize = Held(r) /\ Held(r) \in 0 .. BufSize - 1
  <2>1. (r.head - r.tail) % BufSize = Held(r)
    BY <1>0, Distance DEF Held
  <2>2. Held(r) \in 0 .. BufSize - 1
    <3>1. CASE r.head >= r.tail
      BY <1>0, <3>1 DEF Held
    <3>2. CASE r.head < r.tail
      BY <1>0, <3>2 DEF Held
    <3> QED BY <1>0, <3>1, <3>2
  <2> QED BY <2>1, <2>2
<1> DEFINE n == Held(r)
           f == [i \in 1 .. n |-> r.buf[Place(r.tail, i - 1)]]
<1>2. n \in Nat /\ n \in 0 .. BufSize - 1
  BY <1>0, <1>1
<1> HIDE DEF n
<1>3. ASSUME NEW i \in 1 .. n
      PROVE  /\ (r.tail + i - 1) % BufSize = Place(r.tail, i - 1)
             /\ Place(r.tail, i - 1) \in 0 .. BufSize - 1
  <2>1. i - 1 \in 0 .. BufSize /\ r.tail + i - 1 = r.tail + (i - 1)
    BY <1>0, <1>2
  <2> QED BY <1>0, <2>1, PlaceIs
<1>4. Contents(r) = [i \in 1 .. n |-> r.buf[(r.tail + i - 1) % BufSize]]
  BY <1>1 DEF Contents, n
<1>5. Contents(r) = f
  BY <1>3, <1>4
<1>6. f \in [1 .. n -> Glyphs \cup {Blank}]
  BY <1>0, <1>3
<1>7. f \in Seq(Glyphs \cup {Blank})
  BY <1>2, <1>6
<1>8. Len(f) = n
  BY <1>2, <1>7
<1> QED BY <1>1, <1>5, <1>7, <1>8 DEF n

\* A key is put at the end of the queue, or dropped.
LEMMA FeedPuts ==
    ASSUME NEW r \in Ring, NEW c \in Glyphs
    PROVE  LET q == tty_feed_key(r, c)
           IN  /\ q \in Ring
               /\ \/ q = r
                  \/ /\ Len(Contents(r)) < BufSize - 1
                     /\ Contents(q) = Append(Contents(r), c)
<1> DEFINE next == (r.head + 1) % BufSize
           q == tty_feed_key(r, c)
           n == Held(r)
<1>0. BufSize \in Nat \ {0, 1} /\ r.head \in 0 .. BufSize - 1 /\ r.tail \in 0 .. BufSize - 1
      /\ r.buf \in [0 .. BufSize - 1 -> Glyphs \cup {Blank}]
  BY TerminalAssumption DEF Ring
<1>1. CASE next = r.tail
  BY <1>1 DEF tty_feed_key
<1>2. CASE next # r.tail
  <2>1. q = [r EXCEPT !.buf[r.head] = c, !.head = next]
    BY <1>2 DEF tty_feed_key
  <2>2. next \in 0 .. BufSize - 1 /\ next = Place(r.head, 1)
    <3>1. 1 \in 0 .. BufSize
      BY <1>0
    <3> QED BY <1>0, <3>1, PlaceIs
  <2> HIDE DEF next, q
  <2>3. q \in Ring /\ q.tail = r.tail /\ q.head = next /\ q.buf = [r.buf EXCEPT ![r.head] = c]
    BY <1>0, <2>1, <2>2 DEF Ring
  <2>4. n \in 0 .. BufSize - 1 /\ Len(Contents(r)) = n
    BY ContentsAre
  <2>5. Held(q) = n + 1 /\ n < BufSize - 1
    <3>1. CASE r.head + 1 < BufSize
      <4>1. next = r.head + 1
        BY <2>2, <3>1 DEF Place
      <4>2. CASE r.head >= r.tail
        <5>1. n = r.head - r.tail /\ Held(q) = (r.head + 1) - r.tail
          BY <1>0, <2>3, <4>1, <4>2 DEF Held
        <5> QED BY <1>0, <3>1, <5>1
      <4>3. CASE r.head < r.tail
        <5>1. r.head + 1 < r.tail
          BY <1>0, <1>2, <4>1, <4>3
        <5>2. n = r.head - r.tail + BufSize /\ Held(q) = (r.head + 1) - r.tail + BufSize
          BY <1>0, <2>3, <4>1, <4>3, <5>1 DEF Held
        <5> QED BY <1>0, <5>1, <5>2
      <4> QED BY <1>0, <4>2, <4>3
    <3>2. CASE r.head + 1 = BufSize
      <4>1. next = 0
        BY <1>0, <2>2, <3>2 DEF Place
      <4> QED BY <1>0, <1>2, <2>3, <3>2, <4>1 DEF Held
    <3> QED BY <1>0, <3>1, <3>2
  <2>6. Place(r.tail, n) = r.head
    BY <1>0 DEF Held, Place
  <2>7. ASSUME NEW i \in 1 .. n
        PROVE  Place(r.tail, i - 1) # r.head /\ Place(r.tail, i - 1) \in 0 .. BufSize - 1
    BY <1>0 DEF Held, Place
  <2>8. Contents(q) = [i \in 1 .. n + 1 |-> q.buf[Place(r.tail, i - 1)]]
    BY <2>3, <2>5, ContentsAre
  <2>9. Contents(r) = [i \in 1 .. n |-> r.buf[Place(r.tail, i - 1)]]
        /\ Contents(r) \in Seq(Glyphs \cup {Blank})
    BY ContentsAre
  <2> HIDE DEF n
  <2>10. ASSUME NEW i \in 1 .. n + 1
         PROVE  q.buf[Place(r.tail, i - 1)] = Append(Contents(r), c)[i]
    <3>1. CASE i = n + 1
      <4>1. q.buf[r.head] = c
        BY <1>0, <2>3
      <4> QED BY <2>4, <2>6, <2>9, <3>1, <4>1
    <3>2. CASE i # n + 1
      <4>0. i \in 1 .. n
        BY <2>4, <3>2
      <4>1. q.buf[Place(r.tail, i - 1)] = r.buf[Place(r.tail, i - 1)]
        BY <1>0, <2>3, <2>7, <4>0
      <4>2. Append(Contents(r), c)[i] = Contents(r)[i]
        BY <2>4, <2>9, <4>0
      <4> QED BY <2>9, <4>0, <4>1, <4>2
    <3> QED BY <3>1, <3>2
  <2>11. Append(Contents(r), c) = [i \in 1 .. n + 1 |-> Append(Contents(r), c)[i]]
    BY <2>4, <2>9
  <2>12. Contents(q) = Append(Contents(r), c)
    BY <2>8, <2>10, <2>11
  <2> QED BY <2>3, <2>4, <2>5, <2>12 DEF q
<1> QED BY <1>1, <1>2

\* The oldest key is taken from the front of the queue.
LEMMA GetcTakes ==
    ASSUME NEW r \in Ring, r.head # r.tail
    PROVE  LET q == tty_getc(r)
           IN  /\ q \in Ring
               /\ Contents(r) # <<>>
               /\ Contents(q) = Tail(Contents(r))
<1> DEFINE q == tty_getc(r)
           n == Held(r)
<1>0. BufSize \in Nat \ {0, 1} /\ r.head \in 0 .. BufSize - 1 /\ r.tail \in 0 .. BufSize - 1
      /\ r.buf \in [0 .. BufSize - 1 -> Glyphs \cup {Blank}]
  BY TerminalAssumption DEF Ring
<1>1. (r.tail + 1) % BufSize = Place(r.tail, 1) /\ Place(r.tail, 1) \in 0 .. BufSize - 1
  <2>1. 1 \in 0 .. BufSize
    BY <1>0
  <2> QED BY <1>0, <2>1, PlaceIs
<1>2. q \in Ring /\ q.tail = Place(r.tail, 1) /\ q.head = r.head /\ q.buf = r.buf
  BY <1>1 DEF tty_getc, Ring
<1>3. n \in 1 .. BufSize - 1 /\ Held(q) = n - 1
  <2> HIDE DEF q
  <2>1. CASE r.tail + 1 < BufSize
    <3>1. q.tail = r.tail + 1
      BY <1>2, <2>1 DEF Place
    <3> QED BY <1>0, <1>2, <2>1, <3>1 DEF Held
  <2>2. CASE r.tail + 1 = BufSize
    <3>1. q.tail = 0
      BY <1>0, <1>2, <2>2 DEF Place
    <3> QED BY <1>0, <1>2, <2>2, <3>1 DEF Held
  <2> QED BY <1>0, <2>1, <2>2
<1>4. /\ Contents(r) = [i \in 1 .. n |-> r.buf[Place(r.tail, i - 1)]]
      /\ Contents(r) \in Seq(Glyphs \cup {Blank}) /\ Len(Contents(r)) = n
  BY ContentsAre
<1> HIDE DEF q, n
<1>5. Contents(q) = [i \in 1 .. n - 1 |-> r.buf[Place(Place(r.tail, 1), i - 1)]]
  BY <1>2, <1>3, ContentsAre
<1>6. ASSUME NEW i \in 1 .. n - 1
      PROVE  Place(Place(r.tail, 1), i - 1) = Place(r.tail, (i + 1) - 1)
  BY <1>0, <1>3 DEF Place
<1>7. Tail(Contents(r)) = [i \in 1 .. n - 1 |-> Contents(r)[i + 1]]
  BY <1>3, <1>4
<1>8. ASSUME NEW i \in 1 .. n - 1
      PROVE  Contents(r)[i + 1] = r.buf[Place(r.tail, (i + 1) - 1)]
  <2>1. i + 1 \in 1 .. n
    BY <1>0, <1>3
  <2> QED BY <1>4, <2>1
<1>9. Contents(q) = Tail(Contents(r))
  BY <1>5, <1>6, <1>7, <1>8
<1>10. Contents(r) # <<>>
  BY <1>3, <1>4
<1> QED BY <1>2, <1>9, <1>10 DEF q

\* The rings of the terminals.
RingInv ==
    /\ current_tty \in Ttys
    /\ input \in [Ttys -> Ring]

\* What the queues are in a state.
LEMMA QueuesAre ==
    ASSUME NEW f \in [Ttys -> Ring], NEW g \in [Ttys -> Ring], NEW u \in Ttys, NEW r \in Ring,
           g = [f EXCEPT ![u] = r]
    PROVE  [t \in Ttys |-> Contents(g[t])]
              = [[t \in Ttys |-> Contents(f[t])] EXCEPT ![u] = Contents(r)]
OBVIOUS

\* Every step is a step of the queues.
LEMMA QueueStep ==
    ASSUME KbdInv, RingInv, [TtyNext]_ttyVars
    PROVE  /\ RingInv'
           /\ [\E t \in Ttys : Q!Get(t) \/ \E c \in Glyphs : Q!Put(t, c)]_
                  ([t \in Ttys |-> Contents(input[t])])
<1> DEFINE q == [t \in Ttys |-> Contents(input[t])]
<1>1. CASE input' = input /\ current_tty' \in Ttys
  BY <1>1 DEF RingInv
<1>2. ASSUME NEW k \in Kbd, Handle(k), input' # input
      PROVE  /\ current_tty' = current_tty /\ k.key \in Glyphs
             /\ input' = [input EXCEPT ![current_tty] = tty_feed_key(@, k.key)]
  <2>1. k.switch \notin Ttys \ {current_tty}
    BY <1>2 DEF Handle, Switch
  <2> QED BY <1>2, <2>1 DEF Handle
<1>3. ASSUME NEW k \in Kbd, Handle(k) PROVE current_tty' \in Ttys
  BY <1>3 DEF Handle, Switch, RingInv
<1>4. ASSUME NEW k \in Kbd, Handle(k), input' # input
      PROVE  RingInv' /\ \E c \in Glyphs : Q!Put(current_tty, c)
  <2> DEFINE u == current_tty
             r == input[u]
             p == tty_feed_key(r, k.key)
  <2>1. u \in Ttys /\ r \in Ring /\ k.key \in Glyphs
    BY <1>2, <1>4 DEF RingInv
  <2>2. input' = [input EXCEPT ![u] = p]
    BY <1>2, <1>4
  <2>3. /\ p \in Ring
        /\ \/ p = r
           \/ Len(Contents(r)) < BufSize - 1 /\ Contents(p) = Append(Contents(r), k.key)
    BY <2>1, FeedPuts
  <2> HIDE DEF p
  <2>4. p # r
    BY <1>4, <2>1, <2>2 DEF RingInv
  <2>5. input' \in [Ttys -> Ring]
    BY <2>1, <2>2, <2>3 DEF RingInv
  <2>6. q' = [q EXCEPT ![u] = Contents(p)]
    BY <2>1, <2>2, <2>3, <2>5, QueuesAre DEF RingInv
  <2>7. q[u] = Contents(r)
    BY <2>1
  <2>8. Q!Put(u, k.key)
    BY <2>3, <2>4, <2>6, <2>7 DEF Q!Put
  <2> QED BY <1>2, <1>4, <2>1, <2>5, <2>8 DEF RingInv
<1>5. CASE Getc
  <2> DEFINE u == current_tty
             r == input[u]
             p == tty_getc(r)
  <2>1. /\ u \in Ttys /\ r \in Ring /\ r.head # r.tail
        /\ input' = [input EXCEPT ![u] = p] /\ current_tty' = u
    BY <1>5 DEF RingInv, Getc
  <2>2. p \in Ring /\ Contents(r) # <<>> /\ Contents(p) = Tail(Contents(r))
    BY <2>1, GetcTakes
  <2> HIDE DEF p
  <2>3. input' \in [Ttys -> Ring]
    BY <2>1, <2>2 DEF RingInv
  <2>4. q' = [q EXCEPT ![u] = Contents(p)]
    BY <2>1, <2>2, <2>3, QueuesAre DEF RingInv
  <2>5. q[u] = Contents(r)
    BY <2>1
  <2>6. Q!Get(u)
    BY <2>2, <2>4, <2>5 DEF Q!Get
  <2> QED BY <2>1, <2>3, <2>6 DEF RingInv
<1>6. CASE UNCHANGED ttyVars
  BY <1>1, <1>6 DEF ttyVars, RingInv
<1>7. \/ \E k \in Kbd : Handle(k)
      \/ Getc
      \/ UNCHANGED ttyVars
  BY KbdStep
<1>8. ASSUME NEW k \in Kbd, Handle(k)
      PROVE  /\ RingInv'
             /\ [\E t \in Ttys : Q!Get(t) \/ \E c \in Glyphs : Q!Put(t, c)]_q
  <2>1. CASE input' = input
    BY <1>1, <1>3, <1>8, <2>1
  <2>2. CASE input' # input
    BY <1>4, <1>8, <2>2 DEF RingInv
  <2> QED BY <2>1, <2>2
<1> QED BY <1>5, <1>6, <1>7, <1>8 DEF RingInv

\* The input ring of each terminal, with its wrapping indexes, is a bounded
\* queue of the keys in their order, for every size of the ring (tty_feed_key,
\* tty_getc).
THEOREM RingsRefineQueues == TtySpec => RingsAreQueues
<1> DEFINE q == [t \in Ttys |-> Contents(input[t])]
<1>1. TtyInit => RingInv /\ Q!QueueInit
  <2> SUFFICES ASSUME TtyInit PROVE RingInv /\ Q!QueueInit
    OBVIOUS
  <2>0. BufSize \in Nat \ {0, 1}
    BY TerminalAssumption
  <2>1. EmptyRing \in Ring /\ EmptyRing.head = 0 /\ EmptyRing.tail = 0
    BY <2>0 DEF EmptyRing, Ring
  <2>2. Contents(EmptyRing) = <<>>
    <3>1. Held(EmptyRing) = 0
      BY <2>1 DEF Held
    <3>2. Len(Contents(EmptyRing)) = 0 /\ Contents(EmptyRing) \in Seq(Glyphs \cup {Blank})
      BY <2>1, <3>1, ContentsAre
    <3> QED BY <3>2
  <2>3. input = [t \in Ttys |-> EmptyRing] /\ current_tty = 0
    BY DEF TtyInit
  <2>4. RingInv
    BY <2>1, <2>3, TerminalAssumption DEF RingInv
  <2>5. q = [t \in Ttys |-> <<>>]
    BY <2>2, <2>3
  <2> QED BY <2>4, <2>5 DEF Q!QueueInit
<1>2. KbdInv /\ [TtyNext]_ttyVars => KbdInv'
  BY KbdStep
<1>3. /\ KbdInv /\ RingInv /\ [TtyNext]_ttyVars
      => /\ RingInv'
         /\ [\E t \in Ttys : Q!Get(t) \/ \E c \in Glyphs : Q!Put(t, c)]_q
  BY QueueStep
<1> QED BY <1>1, <1>2, <1>3, KbdInit, PTL DEF TtySpec, RingsAreQueues, Q!QueueSpec
=============================================================================
