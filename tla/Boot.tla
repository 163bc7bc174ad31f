-------------------------------- MODULE Boot --------------------------------
(***************************************************************************)
(* Power-on: what kmain (kernel/kernel.c) does to the disk before the      *)
(* shell runs, one step per directory or file so that the power can fail   *)
(* between them, the set-up dialogue of the first boot, the user database  *)
(* file, and work at the prompt. On top of module Fs.                      *)
(*                                                                         *)
(* Texts are sequences here: a user of the table is its name (what it may  *)
(* do is module Session's), and /etc/passwd is the text <<name, ...>>.     *)
(***************************************************************************)
EXTENDS Fs

CONSTANTS
    SystemFiles,    \* the records [path, text] of init_write_sysfiles, in order
    Users,          \* the names of accounts, other than root
    MaxUsers,       \* MAX_USERS (50)
    Visits,         \* the directories cd is given
    MaxCycles,      \* bound on power failures
    MaxOps          \* bound on commands

VARIABLES
    users,          \* the user table
    first_boot,     \* no /etc/passwd was read at boot
    stage,          \* the step of kmain to take next, AtPrompt after the last
    question,       \* what first_boot_setup waits for: "user", "group" or, before
                    \* and after it, "none"
    configured,     \* first_boot_setup has completed (history)
    cycles,         \* power failures so far
    ops             \* commands so far

bootVars == <<vol, cwd_inode, cwd, status, users, first_boot, stage, question, configured, cycles, ops>>

\* The steps of kmain: the directories, the system files, user_init.
FilesFrom == Len(StdDirs) + 1

UserInitAt == FilesFrom + Len(SystemFiles)

AtPrompt == UserInitAt + 1

Etc == Rooted(<<"etc">>)

Passwd == Rooted(<<"etc", "passwd">>)

\* kmain runs from the root directory.
Put(v, path, text) == fs_write(v, Root, path, Text(<<text>>)).vol

\* One of the files of init_write_sysfiles, written if it is missing.
EnsureFile(v, f) == IF fs_exists(v, Root, f.path) THEN v ELSE Put(v, f.path, f.text)

\* What users_load reads of /etc/passwd; nothing, and it is a first boot.
PasswdBytes(v) ==
    IF fs_exists(v, Root, Passwd) THEN fs_read(v, Root, Passwd, CopyBlocks) ELSE <<>>

\* The table it makes of it. What is not a saved table has no line of the form
\* name:password (but for /etc/os-release, which is not read in its place).
users_load(v) ==
    LET bytes == PasswdBytes(v)
    IN  IF bytes = <<>> THEN <<>>
        ELSE IF bytes[1].kind = "data" /\ Head(bytes[1].pay) = "root"
        THEN bytes[1].pay ELSE <<>>

users_save(v, table) == Put(v, Passwd, table)

\* Fault: the file is saved before the user is in the table.
SaveTooEarly(v, cur, table, user) == users_save(fs_create_home(v, cur, user), table)

\* user_add of a user that is not root: its home directory, made from the path
\* when fs_create_home fails, and the file of the longer table.
user_add(v, cur, table, user) ==
    LET home == Rooted(<<"home", user>>)
        h == fs_create_home(v, cur, user)
        made == IF user = "root" \/ ext2_find_inode(h, Root, "home") > 0
                   \/ ~HasParent(h, cur, home)
                THEN h ELSE fs_mkdir(h, cur, home)
    IN  users_save(made, Append(table, user))

-----------------------------------------------------------------------------

\* The files of /etc that the system itself reads or writes.
FileNames == {Last(f.path.comps) : f \in Range(SystemFiles)} \cup {"passwd"}

\* What the user table can be: the root account, then others, none twice.
Tables ==
    {t \in UNION {[1 .. n -> Users \cup {"root"}] : n \in 1 .. Cardinality(Users) + 1} :
        t[1] = "root" /\ \A i, j \in DOMAIN t : t[i] = t[j] => i = j}

\* Each file has a name of its own in /etc, and no directory has one of these names.
\* The accounts are few enough for every table to fit a block, and no name has a ':':
\* /etc/passwd separates its fields by it, and the buffers of users_load and users_save
\* hold four blocks, less than MaxUsers lines can be (past it snprintf never returns).
ASSUME BootAssumption ==
    /\ SystemFiles \in Seq([path : {Rooted(<<"etc", name>>) : name \in Names}, text : Payloads])
    /\ \A i, j \in DOMAIN SystemFiles : SystemFiles[i].path = SystemFiles[j].path => i = j
    /\ Passwd \notin {f.path : f \in Range(SystemFiles)}
    /\ {"etc", "passwd"} \subseteq Names
    /\ FileNames \cap {Blank, "..", "etc", "home"} = {}
    /\ \A d \in Range(StdDirs) : Range(d.comps) \cap FileNames = {}
    /\ IsFiniteSet(Users) /\ Users \subseteq Names \ ({"root"} \cup FileNames)
    /\ Tables \subseteq Payloads
    /\ CopyBlocks > 1

\* Commands do not name these files, nor /etc, /home and the home directories as
\* what they are to change.
ASSUME TypedAssumption ==
    /\ Visits \subseteq PathNames \cup {DotDot}
    /\ \A p \in Paths \cup Visits : Range(p.comps) \cap FileNames = {}
    /\ \A p \in Paths : Last(p.comps) \notin {Blank, "etc", "home"} \cup Users

\* The names that the standard directories put into /etc.
EtcDirs ==
    {d.comps[2] : d \in {x \in Range(StdDirs) : Len(x.comps) > 1 /\ x.comps[1] = "etc"}}

\* /etc and /home are made before the root directory is full, and /etc has slots for
\* the files and one more.
ASSUME LayoutAssumption ==
    /\ \A d \in Range(StdDirs) : Blank \notin Range(d.comps)
    /\ \A name \in {"etc", "home"} : \E k \in DOMAIN StdDirs :
          /\ StdDirs[k].comps = <<name>>
          /\ Cardinality({StdDirs[j].comps[1] : j \in 1 .. k}) <= NDirect
    /\ Cardinality(EtcDirs) + Len(SystemFiles) < NDirect

-----------------------------------------------------------------------------

\* fs_init, one standard directory at a time.
fs_init_step ==
    /\ stage < FilesFrom
    /\ Room(Len(StdDirs[stage].comps), 2 * Len(StdDirs[stage].comps))
    /\ vol' = EnsureDir(vol, StdDirs[stage])
    /\ stage' = stage + 1
    /\ UNCHANGED <<cwd_inode, cwd, status, users, first_boot, question, configured, cycles, ops>>

init_write_sysfiles ==
    /\ stage \in FilesFrom .. UserInitAt - 1
    /\ Room(1, 2)
    /\ vol' = EnsureFile(vol, SystemFiles[stage - FilesFrom + 1])
    /\ stage' = stage + 1
    /\ UNCHANGED <<cwd_inode, cwd, status, users, first_boot, question, configured, cycles, ops>>

\* /etc is made if it is missing, then the table is loaded.
user_init ==
    /\ stage = UserInitAt
    /\ Room(1, 2)
    /\ vol' = IF fs_exists(vol, Root, Etc) THEN vol ELSE fs_mkdir(vol, Root, Etc)
    /\ first_boot' = (PasswdBytes(vol') = <<>>)
    /\ users' = users_load(vol')
    /\ stage' = AtPrompt
    /\ UNCHANGED <<cwd_inode, cwd, status, question, configured, cycles, ops>>

\* first_boot_setup, a step for each answer; the file is saved after each. Between
\* two answers the power can fail, and a login on another terminal move the current
\* directory. (Set-ups nested in one another are module Session's.)
setup_root ==
    /\ stage = AtPrompt /\ first_boot /\ users = <<>>
    /\ Room(1, 2)
    /\ users' = <<"root">>
    /\ vol' = users_save(vol, users')
    /\ question' = "user"
    /\ UNCHANGED <<cwd_inode, cwd, status, first_boot, stage, configured, cycles, ops>>

\* The question is asked again until user_add succeeds. Room for a second /home, a
\* home directory, their entries, the file and its entry.
setup_user(user) ==
    /\ question = "user"
    /\ Len(users) < MaxUsers /\ user \notin Range(users)
    /\ Room(2, 6)
    /\ vol' = user_add(vol, cwd_inode, users, user)
    /\ users' = Append(users, user)
    /\ question' = "group"
    /\ UNCHANGED <<cwd_inode, cwd, status, first_boot, stage, configured, cycles, ops>>

\* The sudo group: a flag in the user's line of the file.
setup_group(sudo) ==
    /\ question = "group"
    /\ Room(1, 2)
    /\ vol' = IF sudo THEN users_save(vol, users) ELSE vol
    /\ question' = "none" /\ configured' = TRUE
    /\ UNCHANGED <<cwd_inode, cwd, status, users, first_boot, stage, cycles, ops>>

\* A command that writes is typed: after the set-up, within the bound.
Typed ==
    /\ stage = AtPrompt /\ users # <<>> /\ question = "none"
    /\ ops < MaxOps /\ ops' = ops + 1

\* A user that exists is refused.
cmd_useradd(user) ==
    /\ Typed
    /\ Len(users) < MaxUsers /\ user \notin Range(users)
    /\ Room(2, 6)
    /\ vol' = user_add(vol, cwd_inode, users, user)
    /\ users' = Append(users, user)
    /\ UNCHANGED <<cwd_inode, cwd, status, first_boot, stage, question, configured, cycles>>

\* The account goes from the table and the file; its home directory stays.
cmd_userdel(user) ==
    /\ Typed
    /\ user # "root"
    /\ Room(1, 2)
    /\ \E k \in DOMAIN users : users[k] = user /\ users' = RemoveAt(users, k)
    /\ vol' = users_save(vol, users')
    /\ UNCHANGED <<cwd_inode, cwd, status, first_boot, stage, question, configured, cycles>>

\* A login, at the first prompt, after exit or on another terminal, goes to the home
\* directory.
user_login ==
    /\ stage = AtPrompt
    /\ \E user \in Range(users) :
          cmd_cd(IF user = "root" THEN RootPath ELSE Rooted(<<"home", user>>))
    /\ UNCHANGED <<users, first_boot, stage, question, configured, cycles, ops>>

\* A command typed after login.
Command ==
    /\ Typed
    /\ \/ \E p \in Paths : cmd_touch(p) \/ cmd_mkdir(p) \/ cmd_rm(p) \/ cmd_chmod(p)
       \/ \E p, q \in Paths : cmd_cp(p, q) \/ cmd_mv(p, q)
       \/ \E p \in Paths, text \in Files : kw_save(p, text)
    /\ UNCHANGED <<users, first_boot, stage, question, configured, cycles>>

Visit ==
    /\ stage = AtPrompt /\ users # <<>> /\ question = "none"
    /\ \E p \in Visits : cmd_cd(p)
    /\ UNCHANGED <<users, first_boot, stage, question, configured, cycles, ops>>

\* The power goes, at any point of the boot or at the prompt, and comes back.
\* There is no shutdown: the disk is as the last write left it, and the static
\* variables start again.
PowerCycle ==
    /\ cycles < MaxCycles /\ cycles' = cycles + 1
    /\ vol' = ext2_mount(vol)
    /\ cwd_inode' = Root /\ cwd' = RootPath.comps /\ status' = "ok"
    /\ users' = <<>> /\ first_boot' = FALSE /\ stage' = 1 /\ question' = "none"
    /\ UNCHANGED <<configured, ops>>

BootInit ==
    /\ vol = ext2_mount(BlankDisk)
    /\ cwd_inode = Root /\ cwd = RootPath.comps /\ status = "ok"
    /\ users = <<>> /\ first_boot = FALSE /\ stage = 1 /\ question = "none"
    /\ configured = FALSE /\ cycles = 0 /\ ops = 0

FirstBootNext ==
    \/ fs_init_step \/ init_write_sysfiles \/ user_init \/ setup_root
    \/ \E user \in Users : setup_user(user) \/ cmd_useradd(user) \/ cmd_userdel(user)
    \/ \E sudo \in BOOLEAN : setup_group(sudo)
    \/ user_login \/ Command \/ Visit

\* One boot of a new disk, and boots one after the other.
FirstBootSpec == BootInit /\ [][FirstBootNext]_bootVars

BootSpec == BootInit /\ [][FirstBootNext \/ PowerCycle]_bootVars

-----------------------------------------------------------------------------
(* Properties *)

\* The system files written at boot keep their text under commands that do
\* not name them, at the code's own sizes: the twelfth entry of a directory,
\* the inode in the superblock's slot, and a full root directory included.
SystemFilesIntact ==
    stage > UserInitAt => \A f \in Range(SystemFiles) :
        /\ fs_exists(vol, Root, f.path)
        /\ fs_read(vol, Root, f.path, CopyBlocks) = Text(<<f.text>>)

\* After every change of the user table /etc/passwd holds all of it, wherever
\* the current directory is.
UsersOnDisk == users_load(vol) = users

\* Every user has a directory under /home to log in to, as long as /home has
\* never run out of slots (removed accounts keep theirs), wherever the account
\* was added from.
HomesExist ==
    /\ users # <<>>
    /\ FreeSlots(vol, fs_resolve_inode(vol, Root, Rooted(<<"home">>))) # {}
    => \A user \in Range(users) \ {"root"} : fs_exists(vol, Root, Rooted(<<"home", user>>))

\* The "first boot setup" (shell.c:93) is for the first boot.
FirstBootOnce == first_boot /\ users = <<>> => ~configured
=============================================================================
