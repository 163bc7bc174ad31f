------------------------------- MODULE Shell --------------------------------
(***************************************************************************)
(* The command interpreter of kernel/shell.c: execute_command, which calls    *)
(* itself for an alias, for sudo and for every line of a script, the login    *)
(* prompt that exit and logout call inside it, and the table of aliases. What *)
(* the other commands do is in modules Fs, Boot, Session and Process, what the *)
(* history keeps of the lines in module History, and which bytes of the kernel *)
(* stack a call needs is what a build of the Makefile (-O0) reserves.        *)
(*                                                                         *)
(* A line is a sequence of words and blanks (" "). Lines are short enough for *)
(* their buffers, as the name of the current directory is, but words need not *)
(* be: the table keeps 31 characters of a name, and what is said of a word is *)
(* first put into a buffer on the stack by snprintf, which never returns when *)
(* the text does not fit (module Process).                                   *)
(***************************************************************************)
EXTENDS Integers, SequencesExt, FiniteSets

CONSTANTS
    Cut,            \* what the table keeps of a word given as a name
    TooLong,        \* the words that no such buffer has room for
    InitialAliases, \* those of shell_init
    MaxAliases,     \* MAX_ALIASES (32)
    MaxArgs,        \* MAX_ARGS (20)
    Typed,          \* the lines that are typed
    Files,          \* the lines of every file that a word can name
    Executable,     \* those words whose file has the executable bit
    Need,           \* what every command needs of the stack beside the frame of
                    \* execute_command, and a word that is none ("")
    Reporting,      \* the other commands that can put a word of theirs into a buffer
    ExecSize, ScriptSize, SudoSize, LoginSize,  \* the frames of execute_command,
                    \* cmd_exec_script, cmd_sudo, login_prompt
    AgainSize,      \* those of a login_prompt inside another, with read_string,
                    \* read_key, tty_switch and shell_init between them
    ReadSize,       \* what cmd_exec_script needs beside its frame while it reads,
    AskSize,        \* cmd_sudo beside its frame and one more of execute_command
                    \* while it asks for the password,
    LoginNeed,      \* and login_prompt beside its frame
    Switches,       \* the terminal switches at a login prompt that there is room for
    StackSize       \* what shell_run leaves of the stack of boot.asm

VARIABLES
    aliases,        \* the table: names and values, in order
    stack,          \* the calls that are under way, the last one running
    logged_in,      \* what shell_run goes on for, and shell_init waits for
    dead            \* why nothing is known from then on: the stack has overflowed,
                    \* snprintf does not return, or the system was halted

shellVars == <<aliases, stack, logged_in, dead>>

Words == DOMAIN Cut

Blank == " "

Lines == Seq(Words \cup {Blank})

\* The commands that are modelled one by one, and a word that is none.
Own == {"alias", "unalias", "sudo", "sh", "exit", ""}

Commands == DOMAIN Need \ Own

Sizes == {ExecSize, ScriptSize, SudoSize, LoginSize, AgainSize, ReadSize, AskSize,
          LoginNeed, StackSize}

ASSUME ShellAssumption ==
    /\ MaxAliases \in Nat /\ MaxArgs \in Nat /\ MaxArgs > 3 /\ Switches \in Nat
    /\ Sizes \subseteq Nat \ {0}
    /\ Own \subseteq DOMAIN Need /\ Reporting \subseteq Commands
    /\ Executable \subseteq DOMAIN Files
    /\ TooLong \cap DOMAIN Files = {}
    /\ \A w \in Words : Cut[w] \in Words /\ Cut[Cut[w]] = Cut[w]
    /\ \A l \in Typed : l \in Lines
    /\ \A f \in DOMAIN Files : Files[f] \in Seq(Lines)
    /\ Len(InitialAliases) <= MaxAliases
    /\ InitialAliases \in Seq([name : {Cut[w] : w \in Words}, value : Lines])

\* What can be needed of the stack beside the frames of a command that runs: by the
\* command, by sudo for the password, and by the login prompt of exit when the
\* terminal is switched Switches times.
OwnNeeds ==
    {0, AskSize, LoginSize + Switches * AgainSize + LoginNeed}
        \cup {Need[c] : c \in DOMAIN Need}

\* What the stack has room for, whatever a command needs of it: five calls of
\* execute_command with four of cmd_sudo between them; three with one, and a
\* script; and, while a script is read, three with two.
ASSUME StackAssumption ==
    /\ \A own \in OwnNeeds :
          /\ own \in Nat
          /\ 5 * ExecSize + 4 * SudoSize + own <= StackSize
          /\ 3 * ExecSize + SudoSize + ScriptSize + own <= StackSize
    /\ 3 * ExecSize + 2 * SudoSize + ScriptSize + ReadSize <= StackSize

-----------------------------------------------------------------------------
(* Lines *)

Inked(l) == {i \in DOMAIN l : l[i] # Blank}

\* The line from its first word on.
Trimmed(l) == IF Inked(l) = {} THEN <<>> ELSE SubSeq(l, Min(Inked(l)), Len(l))

\* Also without the blanks behind its last word.
TrimmedBoth(l) ==
    IF Inked(l) = {} THEN <<>> ELSE SubSeq(l, Min(Inked(l)), Max(Inked(l)))

\* The words of the line; those behind the last place of args are left out.
parse_command(l) ==
    LET words == FoldLeft(LAMBDA ws, w : IF w = Blank THEN ws ELSE Append(ws, w), <<>>, l)
    IN  IF Len(words) < MaxArgs THEN words ELSE SubSeq(words, 1, MaxArgs - 1)

\* The line that sudo makes of its arguments.
Joined(words) ==
    [k \in 1 .. 2 * Len(words) - 1 |-> IF k % 2 = 1 THEN words[(k + 1) \div 2] ELSE Blank]

-----------------------------------------------------------------------------
(* The aliases *)

\* The place of the first alias with this name, or 0.
Find(t, word) == SelectInSeq(t, LAMBDA a : a.name = word)

\* The whole line has to be the name: blanks behind it make it something else.
expand_alias(t, l) ==
    IF Len(l) = 1 /\ Find(t, l[1]) # 0 THEN t[Find(t, l[1])].value ELSE <<>>

\* Fault: an alias that is there is not looked for.
AddAppends(t, name, value) ==
    IF Len(t) >= MaxAliases THEN t ELSE Append(t, [name |-> Cut[name], value |-> value])

\* A full table is left as it is, also when the name is already in it. A long
\* name is never found and is put in again every time.
add_alias(t, name, value) ==
    IF Len(t) >= MaxAliases THEN t
    ELSE IF Find(t, name) # 0 THEN [t EXCEPT ![Find(t, name)].value = value]
    ELSE Append(t, [name |-> Cut[name], value |-> value])

\* Only the first alias with the name is removed.
unalias(t, name) == IF Find(t, name) = 0 THEN t ELSE RemoveAt(t, Find(t, name))

-----------------------------------------------------------------------------
(* The calls *)

\* Calls: execute_command before it has looked at its line; execute_command when
\* all it has left is to return; cmd_sudo, the same; login_prompt ("again" when it
\* is inside another); cmd_exec_script with the lines it has not come to.
Exec(l) == [at |-> "exec", line |-> l, lines |-> <<>>]

Wait(at) == [at |-> at, line |-> <<>>, lines |-> <<>>]

Script(ls) == [at |-> "script", line |-> <<>>, lines |-> ls]

Count(s, kinds) == Cardinality({k \in DOMAIN s : s[k].at \in kinds})

\* Fault: another 4096 bytes in cmd_exec_script, for a second buffer.
UsedWithTwoBuffers(s) ==
    ExecSize * Count(s, {"exec", "return"}) + (ScriptSize + 4096) * Count(s, {"script"})
        + SudoSize * Count(s, {"sudo"})
        + LoginSize * Count(s, {"login"}) + AgainSize * Count(s, {"again"})

Used(s) ==
    ExecSize * Count(s, {"exec", "return"}) + ScriptSize * Count(s, {"script"})
        + SudoSize * Count(s, {"sudo"})
        + LoginSize * Count(s, {"login"}) + AgainSize * Count(s, {"again"})

Running == stack # <<>> /\ dead = ""

Top == Last(stack)

\* The calls become s; the last of them needs so much of the stack for its own, and
\* if there is so much, this comes of it.
Calls(s, own, end) ==
    stack' = s /\ dead' = IF Used(s) + own > StackSize THEN "overflow" ELSE end

Returns == stack' = Front(stack) /\ UNCHANGED dead

\* execute_command waits while the calls cs are made, and then returns.
Into(cs, own) == Calls(Front(stack) \o <<Wait("return")>> \o cs, own, "")

\* It calls what does not return.
Hangs(own) == Calls(Append(Front(stack), Wait("return")), own, "hang")

\* It runs a command that is done with its own, having put the words into a buffer.
Does(command, words) ==
    IF words \cap TooLong = {} THEN Into(<<>>, Need[command]) ELSE Hangs(Need[command])

-----------------------------------------------------------------------------
(* execute_command *)

\* The running call looks at this line.
Line == Trimmed(Top.line)

Args == parse_command(Top.line)

\* It is no alias, and its first word is one of these.
Runs(words) ==
    /\ Running /\ Top.at = "exec" /\ Line # <<>>
    /\ expand_alias(aliases, Line) = <<>>
    /\ Args[1] \in words

\* shell_run has read a line.
Enter(l) ==
    /\ stack = <<>> /\ dead = "" /\ logged_in
    /\ Calls(<<Exec(l)>>, 0, "")
    /\ UNCHANGED <<aliases, logged_in>>

NoLine ==
    /\ Running /\ Top.at = "exec" /\ Line = <<>>
    /\ Returns
    /\ UNCHANGED <<aliases, logged_in>>

Expand ==
    /\ Running /\ Top.at = "exec"
    /\ expand_alias(aliases, Line) # <<>>
    /\ Into(<<Exec(expand_alias(aliases, Line))>>, 0)
    /\ UNCHANGED <<aliases, logged_in>>

\* The words of the aliases' values.
Listed == UNION {{a.value[k] : k \in DOMAIN a.value} : a \in ToSet(aliases)}

\* With one argument it is used wrongly, with none it lists the aliases.
Alias ==
    /\ Runs({"alias"})
    /\ aliases' = IF Len(Args) >= 3 THEN add_alias(aliases, Args[2], <<Args[3]>>)
                  ELSE aliases
    /\ Does("alias", IF Len(Args) = 1 THEN Listed ELSE {})
    /\ UNCHANGED logged_in

Unalias ==
    /\ Runs({"unalias"})
    /\ aliases' = IF Len(Args) >= 2 THEN unalias(aliases, Args[2]) ELSE aliases
    /\ Does("unalias", {})
    /\ UNCHANGED logged_in

\* The user may be no sudoer, or give the wrong password. (sudo -i and sudo -l
\* run no command: module Session.)
Sudo ==
    /\ Runs({"sudo"})
    /\ \/ Does("sudo", {})
       \/ Len(Args) >= 2 /\ Into(<<Wait("sudo"), Exec(Joined(Tail(Args)))>>, AskSize)
    /\ UNCHANGED <<aliases, logged_in>>

\* cmd_exec_script, up to the first line. Without such a file it says so.
RunScript(name) ==
    IF name \in DOMAIN Files THEN Into(<<Script(Files[name])>>, ReadSize)
    ELSE Does("sh", {name})

\* sh and source.
Sh ==
    /\ Runs({"sh"})
    /\ IF Len(Args) >= 2 THEN RunScript(Args[2]) ELSE Does("sh", {})
    /\ UNCHANGED <<aliases, logged_in>>

\* exit and logout, which drop the elevation of sudo, or log out and ask for a
\* login until there is one.
Exit ==
    /\ Runs({"exit"})
    /\ \/ Does("exit", {}) /\ UNCHANGED logged_in
       \/ Into(<<Wait("login")>>, LoginNeed) /\ logged_in' = FALSE
    /\ UNCHANGED aliases

\* Any other command is done with its own; it may have something to say of a word.
Command ==
    /\ Runs(Commands)
    /\ \/ Does(Args[1], {})
       \/ Args[1] \in Reporting /\ Does(Args[1], ToSet(Tail(Args)))
    /\ UNCHANGED <<aliases, logged_in>>

\* The name of a file, with or without "./": it is run if the executable bit is
\* set. Any other name is an error.
Other ==
    /\ Runs(Words \ DOMAIN Need)
    /\ IF Args[1] \in Executable THEN RunScript(Args[1]) ELSE Does("", {Args[1]})
    /\ UNCHANGED <<aliases, logged_in>>

\* execute_command and cmd_sudo, when the call they made has returned.
Return ==
    /\ Running /\ Top.at \in {"return", "sudo"}
    /\ Returns
    /\ UNCHANGED <<aliases, logged_in>>

-----------------------------------------------------------------------------
(* cmd_exec_script *)


\* Empty lines and comments are passed over (the line #! is a comment).
ScriptLine ==
    /\ Running /\ Top.at = "script"
    /\ IF Top.lines = <<>> THEN Returns
       ELSE LET l == TrimmedBoth(Head(Top.lines))
                s == Append(Front(stack), Script(Tail(Top.lines)))
            IN  Calls(IF l = <<>> \/ l[1] = "#" THEN s ELSE Append(s, Exec(l)), 0, "")
    /\ UNCHANGED <<aliases, logged_in>>

-----------------------------------------------------------------------------
(* login_prompt *)

AtLogin == Running /\ Top.at \in {"login", "again"}

\* The right password, also for a prompt that waited while another was answered.
LoginOk == AtLogin /\ Returns /\ logged_in' = TRUE /\ UNCHANGED aliases

\* Three wrong ones.
LoginFailed == AtLogin /\ dead' = "halt" /\ UNCHANGED <<aliases, stack, logged_in>>

\* Alt and the key of another terminal: as long as nobody is logged in, tty_switch
\* calls shell_init, which puts its aliases in again and asks for a login, all
\* inside the read_key of the prompt that was waiting.
LoginSwitch ==
    /\ AtLogin /\ ~logged_in
    /\ aliases' = FoldLeft(LAMBDA t, a : add_alias(t, a.name, a.value),
                           aliases, InitialAliases)
    /\ Calls(Append(stack, Wait("again")), LoginNeed, "")
    /\ UNCHANGED logged_in

-----------------------------------------------------------------------------

\* After the first login.
ShellInit ==
    aliases = InitialAliases /\ stack = <<>> /\ logged_in = TRUE /\ dead = ""

Interpreter ==
    \/ NoLine \/ Expand \/ Alias \/ Unalias \/ Sudo \/ Sh \/ Exit \/ Command \/ Other
    \/ Return \/ ScriptLine

Login == LoginOk \/ LoginFailed \/ LoginSwitch

\* What happens then is not said.
Dead == dead # "" /\ UNCHANGED shellVars

ShellNext == (\E l \in Typed : Enter(l)) \/ Interpreter \/ Login \/ Dead

\* A call that is under way goes on; nobody has to type a line, or to log in.
ShellSpec == ShellInit /\ [][ShellNext]_shellVars /\ WF_shellVars(Interpreter)

-----------------------------------------------------------------------------
(* Properties *)


Value(t, w) == expand_alias(t, <<w>>)

\* After "alias n v" the line n stands for v, unless the table is full or n is
\* longer than the table's names, and every other line stands for what it did
\* (but for the one that the table keeps of a long name). "unalias n" changes what
\* n stands for, and no other line.
AliasTakesEffect ==
    [][ /\ Alias /\ Len(Args) >= 3 =>
              /\ Len(aliases) < MaxAliases /\ Cut[Args[2]] = Args[2] =>
                    Value(aliases', Args[2]) = <<Args[3]>>
              /\ \A w \in Words \ {Cut[Args[2]]} : Value(aliases', w) = Value(aliases, w)
        /\ Unalias /\ Len(Args) >= 2 =>
              \A w \in Words \ {Args[2]} : Value(aliases', w) = Value(aliases, w)
      ]_shellVars

\* The stack is large enough for a script and for a command that it runs through
\* sudo, or for what a line without scripts does through five aliases and sudos,
\* whatever the command needs, a login prompt after exit with Switches switches of
\* the terminal included. It takes a script run by a script, or an alias around a
\* script (the fourth execute_command), or a sixth execute_command, or one more
\* switch, to overflow it.
OneScriptFits ==
    dead = "overflow" =>
        \/ Count(stack, {"script"}) > 1
        \/ Count(stack, {"script"}) = 1 /\ Count(stack, {"exec", "return"}) >= 4
        \/ Count(stack, {"exec", "return"}) >= 6
        \/ Count(stack, {"again"}) > Switches
=============================================================================
