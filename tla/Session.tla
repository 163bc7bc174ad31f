------------------------------ MODULE Session -------------------------------
(***************************************************************************)
(* Accounts, login, sudo and the virtual terminals: kernel/user.c, the     *)
(* dialogues of kernel/shell.c and tty_switch of kernel/tty.c.             *)
(*                                                                         *)
(* There is one thread and one session, but read_key calls tty_switch from *)
(* inside any dialogue, and tty_switch calls shell_init when nobody is     *)
(* logged in: a second login prompt, or a second set-up, runs inside the   *)
(* first, on the same variables. stack is the C call stack, reduced to the *)
(* calls that still have something to do; its last element runs.           *)
(*                                                                         *)
(* A password is right or wrong; whether the user types the right one is   *)
(* an input. Home directories and /etc/passwd are module Boot's.           *)
(***************************************************************************)
EXTENDS Integers, SequencesExt

CONSTANTS
    Names,          \* the names of accounts, other than root
    MaxUsers,       \* MAX_USERS (50)
    Ttys,           \* 0 .. MAX_TTYS - 1
    MaxAttempts,    \* failed logins before the system halts (3)
    MaxDepth        \* bound on the depth of the call stack

ASSUME SessionAssumption ==
    /\ "root" \notin Names /\ 0 \in Ttys
    /\ MaxUsers \in Nat /\ MaxUsers > 1
    /\ MaxAttempts \in Nat \ {0} /\ MaxDepth \in Nat

VARIABLES
    users,          \* the slots of the user table, those past user_count too
    user_count,
    current_user,   \* the slot of the session's user, -1 if none
    sudo_elevated,
    first_boot,     \* no table was found on the disk
    logged_in,
    current_tty,
    stack,          \* the calls that are under way
    who,            \* history: the name that was last given at a login prompt
    proved,         \* history: root, or a sudoer, gave its password since then
    sudo_shell      \* history: sudo -i, and no exit or end of a sudo since

accounts == <<users, user_count>>

session == <<current_user, sudo_elevated, logged_in, who, proved, sudo_shell>>

sessionVars == <<accounts, session, first_boot, current_tty, stack>>

Accounts == Names \cup {"root"}

Slots == 0 .. MaxUsers - 1

Used == 0 .. user_count - 1

User(name, root, sudo) == [username |-> name, is_root |-> root, in_sudo |-> sudo]

NoUser == User("", FALSE, FALSE)

-----------------------------------------------------------------------------
(* The call stack *)

\* A call, at the point where it waits for input or for a call it made:
\*   run      shell_run, or a script, about to take the next command
\*   sudo     cmd_sudo, elevated, before its command; sudo_end: after it
\*   init     shell_init, in its loop around login_prompt
\*   login    login_prompt, after n failed attempts
\*   root, user, group   the three questions of first_boot_setup
Call(at, n, name) == [at |-> at, n |-> n, name |-> name]

Plain(at) == Call(at, 0, "")

Top == Last(stack)

Return == stack' = Front(stack)

Becomes(call) == stack' = Append(Front(stack), call)

\* What shell_init puts on the stack s.
ShellInit(s) ==
    IF first_boot /\ user_count = 0
    THEN s \o <<Plain("init"), Plain("root")>> ELSE s \o <<Plain("init")>>

-----------------------------------------------------------------------------
(* kernel/user.c *)

Known(name) == \E i \in Used : users[i].username = name

\* The first slot that has the name.
SlotOf(name) ==
    CHOOSE i \in Used : /\ users[i].username = name
                        /\ \A j \in 0 .. i - 1 : users[j].username # name

user_is_root ==
    sudo_elevated \/ (current_user >= 0 /\ users[current_user].is_root)

users_real_is_root == current_user >= 0 /\ users[current_user].is_root

user_is_sudo ==
    current_user >= 0 /\ (users[current_user].is_root \/ users[current_user].in_sudo)

CanAdd(name) == user_count < MaxUsers /\ ~Known(name)

\* user_add, and user_add_sudo when sudo is asked for.
user_add(name, root, sudo) ==
    /\ users' = [users EXCEPT ![user_count] = User(name, root, sudo)]
    /\ user_count' = user_count + 1

user_add_sudo(name) ==
    /\ users' = IF Known(name) THEN [users EXCEPT ![SlotOf(name)].in_sudo = TRUE]
                ELSE users
    /\ UNCHANGED user_count

\* Fault: the elevation outlives the login.
LogoutStaysElevated ==
    /\ current_user' = -1 /\ UNCHANGED sudo_elevated
    /\ who' = "nobody" /\ proved' = FALSE /\ sudo_shell' = FALSE

\* Fault: the slot of the user is kept.
LogoutKeepsUser ==
    /\ sudo_elevated' = FALSE /\ UNCHANGED current_user
    /\ who' = "nobody" /\ proved' = FALSE /\ sudo_shell' = FALSE

user_logout ==
    /\ current_user' = -1 /\ sudo_elevated' = FALSE
    /\ who' = "nobody" /\ proved' = FALSE /\ sudo_shell' = FALSE

\* Fault: the root account can be removed.
DelRootToo(name) ==
    LET i == SlotOf(name)
    IN  /\ Known(name)
        /\ users' = [k \in Slots |->
                        IF k >= i /\ k < user_count - 1 THEN users[k + 1] ELSE users[k]]
        /\ user_count' = user_count - 1
        /\ UNCHANGED session

\* The accounts behind the removed one move down a slot, the last slot keeps
\* what it held, and current_user stays as it is.
user_del(name) ==
    LET i == SlotOf(name)
    IN  /\ Known(name) /\ ~users[i].is_root
        /\ users' = [k \in Slots |->
                        IF k >= i /\ k < user_count - 1 THEN users[k + 1] ELSE users[k]]
        /\ user_count' = user_count - 1
        /\ IF i = current_user THEN user_logout /\ UNCHANGED logged_in
           ELSE UNCHANGED session

user_login(i) ==
    /\ current_user' = i /\ sudo_elevated' = FALSE
    /\ who' = users[i].username /\ proved' = users[i].is_root /\ sudo_shell' = FALSE

-----------------------------------------------------------------------------
(* first_boot_setup. The answers of user_add to the first question are not  *)
(* looked at.                                                               *)

setup_root ==
    /\ Top.at = "root"
    /\ IF CanAdd("root") THEN user_add("root", TRUE, FALSE) ELSE UNCHANGED accounts
    /\ Becomes(Plain("user"))
    /\ UNCHANGED <<session, first_boot, current_tty>>

\* The question is asked again until user_add succeeds.
setup_user(name) ==
    /\ Top.at = "user" /\ CanAdd(name)
    /\ user_add(name, FALSE, FALSE)
    /\ Becomes(Call("group", 0, name))
    /\ UNCHANGED <<session, first_boot, current_tty>>

setup_group(yes) ==
    /\ Top.at = "group"
    /\ IF yes THEN user_add_sudo(Top.name) ELSE UNCHANGED accounts
    /\ Return
    /\ UNCHANGED <<session, first_boot, current_tty>>

-----------------------------------------------------------------------------
(* Login *)

\* The loop of shell_init: another login prompt while nobody is logged in.
shell_init ==
    /\ Top.at = "init"
    /\ IF logged_in THEN Return
       ELSE stack' = Append(stack, Plain("login"))
    /\ UNCHANGED <<accounts, session, first_boot, current_tty>>

login_ok(i) ==
    /\ Top.at = "login" /\ i \in Used
    /\ user_login(i) /\ logged_in' = TRUE
    /\ Return
    /\ UNCHANGED <<accounts, first_boot, current_tty>>

\* Fault: login_prompt returns after the last attempt.
LoginGivesUp ==
    /\ Top.at = "login"
    /\ IF Top.n + 1 < MaxAttempts THEN Becomes([Top EXCEPT !.n = @ + 1]) ELSE Return
    /\ UNCHANGED <<accounts, session, first_boot, current_tty>>

\* "Too many failed attempts. System halted."
login_failed ==
    /\ Top.at = "login"
    /\ IF Top.n + 1 < MaxAttempts THEN Becomes([Top EXCEPT !.n = @ + 1])
       ELSE stack' = <<Plain("halted")>>
    /\ UNCHANGED <<accounts, session, first_boot, current_tty>>

-----------------------------------------------------------------------------
(* Commands: typed at the prompt, read from a script or given to sudo *)

\* A command runs. shell_run ends when nobody is logged in.
Running == Top.at = "sudo" \/ (Top.at = "run" /\ logged_in)

\* The stack under a command: cmd_sudo goes on after it.
Caller ==
    IF Top.at = "sudo" THEN Append(Front(stack), Plain("sudo_end")) ELSE stack

cmd_useradd(name, sudo) ==
    /\ Running /\ user_is_root /\ CanAdd(name)
    /\ user_add(name, FALSE, sudo)
    /\ stack' = Caller
    /\ UNCHANGED <<session, first_boot, current_tty>>

cmd_userdel(name) ==
    /\ Running /\ user_is_root
    /\ user_del(name)
    /\ stack' = Caller
    /\ UNCHANGED <<first_boot, current_tty>>

\* A sudoer gives the right password, or is root and is not asked.
Elevate ==
    /\ user_is_root \/ user_is_sudo
    /\ sudo_elevated' = TRUE
    /\ proved' = (proved \/ user_is_sudo)
    /\ UNCHANGED <<current_user, logged_in, who>>

sudo_i ==
    /\ Running /\ Elevate /\ sudo_shell' = TRUE
    /\ stack' = Caller
    /\ UNCHANGED <<accounts, first_boot, current_tty>>

\* "sudo command": cmd_sudo calls execute_command, then user_sudo_drop.
cmd_sudo ==
    /\ Running /\ Elevate
    /\ Len(stack) < MaxDepth
    /\ stack' = Append(Caller, Plain("sudo"))
    /\ UNCHANGED <<accounts, sudo_shell, first_boot, current_tty>>

\* Fault: the elevation is dropped at the prompt, and not in a script.
SudoDropLate ==
    /\ Top.at = "sudo_end"
    /\ sudo_elevated' = (sudo_elevated /\ Len(stack) > 2) /\ sudo_shell' = FALSE
    /\ Return
    /\ UNCHANGED <<accounts, current_user, logged_in, who, proved, first_boot, current_tty>>

sudo_drop ==
    /\ Top.at = "sudo_end"
    /\ sudo_elevated' = FALSE /\ sudo_shell' = FALSE
    /\ Return
    /\ UNCHANGED <<accounts, current_user, logged_in, who, proved, first_boot, current_tty>>

\* Any other command; and a script, whose lines run until it ends.
OtherCommand ==
    /\ Top.at = "sudo"
    /\ stack' = Caller
    /\ UNCHANGED <<accounts, session, first_boot, current_tty>>

cmd_exec_script ==
    /\ Running /\ Len(stack) < MaxDepth
    /\ stack' = Append(Caller, Plain("run"))
    /\ UNCHANGED <<accounts, session, first_boot, current_tty>>

script_end ==
    /\ Top.at = "run" /\ Len(stack) > 1
    /\ Return
    /\ UNCHANGED <<accounts, session, first_boot, current_tty>>

\* "exit" drops an elevation the account itself does not have; else it logs
\* out and calls login_prompt.
cmd_exit ==
    /\ Running
    /\ IF user_is_root /\ ~users_real_is_root
       THEN /\ sudo_elevated' = FALSE /\ sudo_shell' = FALSE
            /\ stack' = Caller
            /\ UNCHANGED <<current_user, logged_in, who, proved>>
       ELSE /\ Len(stack) < MaxDepth
            /\ user_logout /\ logged_in' = FALSE
            /\ stack' = Append(Caller, Plain("login"))
    /\ UNCHANGED <<accounts, first_boot, current_tty>>

-----------------------------------------------------------------------------

\* Every call that waits for a key may get Alt+F1 to Alt+F4 instead.
Waiting == Top.at \in {"login", "root", "user", "group"} \/ stack = <<Plain("run")>>

tty_switch(n) ==
    /\ Waiting /\ n # current_tty
    /\ current_tty' = n
    /\ IF logged_in THEN UNCHANGED stack
       ELSE Len(ShellInit(stack)) < MaxDepth /\ stack' = ShellInit(stack)
    /\ UNCHANGED <<accounts, session, first_boot>>

\* kmain, when it calls shell_init: the first boot, or a table with root and
\* one user.
SessionInit ==
    /\ \/ first_boot = TRUE /\ user_count = 0 /\ users = [i \in Slots |-> NoUser]
       \/ /\ first_boot = FALSE /\ user_count = 2
          /\ \E name \in Names, sudo \in BOOLEAN :
                users = [i \in Slots |-> CASE i = 0 -> User("root", TRUE, FALSE)
                                           [] i = 1 -> User(name, FALSE, sudo)
                                           [] OTHER -> NoUser]
    /\ current_user = -1 /\ sudo_elevated = FALSE /\ logged_in = FALSE
    /\ current_tty = 0
    /\ stack = ShellInit(<<Plain("run")>>)
    /\ who = "nobody" /\ proved = FALSE /\ sudo_shell = FALSE

SessionNext ==
    \/ setup_root \/ (\E yes \in BOOLEAN : setup_group(yes))
    \/ \E name \in Accounts : setup_user(name) \/ cmd_userdel(name)
    \/ \E name \in Accounts, sudo \in BOOLEAN : cmd_useradd(name, sudo)
    \/ shell_init \/ login_failed \/ (\E i \in Slots : login_ok(i))
    \/ sudo_i \/ cmd_sudo \/ sudo_drop \/ OtherCommand
    \/ cmd_exec_script \/ script_end \/ cmd_exit
    \/ \E n \in Ttys : tty_switch(n)

SessionSpec == SessionInit /\ [][SessionNext]_sessionVars

-----------------------------------------------------------------------------
(* Properties *)

Shells == {"run", "sudo", "sudo_end"}

Calls == [at : Shells \cup {"init", "login", "root", "user", "group", "halted"},
          n : 0 .. MaxAttempts - 1, name : Accounts \cup {""}]

\* The types of the table, the session and the calls.
SessionTypeOK ==
    /\ users \in [Slots -> [username : Accounts \cup {""},
                            is_root : BOOLEAN, in_sudo : BOOLEAN]]
    /\ user_count \in 0 .. MaxUsers
    /\ current_user \in -1 .. MaxUsers - 1
    /\ sudo_elevated \in BOOLEAN /\ first_boot \in BOOLEAN /\ logged_in \in BOOLEAN
    /\ current_tty \in Ttys
    /\ stack \in Seq(Calls) /\ stack # <<>>
    /\ who \in Accounts \cup {"nobody"}
    /\ proved \in BOOLEAN /\ sudo_shell \in BOOLEAN

\* "should never reach here" (kernel.c:82): shell_run never returns, and no
\* script or sudo goes on, without a login, however the dialogues are nested.
ShellNeverEnds == Top.at \in Shells => logged_in

\* There is one root account, in the first slot, from the set-up on: a second
\* set-up inside the first, or a userdel, neither adds nor removes one, and no
\* name is in the table twice.
OneRoot ==
    /\ \A i \in Used : users[i].is_root <=> i = 0
    /\ \A i, j \in Used : users[i].username = users[j].username => i = j
    /\ user_count > 0 => users[0].username = "root"

\* Nobody works as root who did not log in as root or give a sudoer's password
\* since the last login, whatever was nested, deleted or left by exit.
ElevationProved == user_is_root => proved

Identity == IF current_user < 0 THEN "nobody" ELSE users[current_user].username

\* The session is the user's who logged in until one of two things happens to its slot,
\* for current_user follows neither: a userdel moves the account out of it, which one
\* of an account in a slot before it does unless the slot is the last, or is past the
\* table already; and a new account takes it, when the table ends just before it.
\* No set-up, login prompt, script or exit does, wherever it is nested.
OnlySlotMovesSession ==
    [][Identity = who =>
        \/ Identity' = who'
        \/ \E name \in Accounts : /\ cmd_userdel(name)
                                  /\ SlotOf(name) < current_user
                                  /\ current_user < user_count - 1
        \/ user_count' = user_count + 1 /\ current_user = user_count]_sessionVars

\* The elevation that a sudo command needs ends with it, whatever the command is: a
\* script, another sudo, an exit and the login of somebody else. Only sudo -i leaves
\* a session elevated.
SudoEnds ==
    sudo_elevated =>
        sudo_shell \/ \E k \in DOMAIN stack : stack[k].at \in {"sudo", "sudo_end"}
=============================================================================
