--------------------------------- MODULE Fs ---------------------------------
(***************************************************************************)
(* Paths, the current directory and the file commands: kernel/fs.c on top  *)
(* of module Ext2, and the commands of kernel/shell.c that call it.        *)
(*                                                                         *)
(* A path is the sequence of what its slashes separate, so a trailing or a *)
(* doubled slash is a Blank component: "/" is <<Blank>>, "/a/" is          *)
(* <<"a", Blank>>. The strings ".." and "/" are only special to fs_chdir.  *)
(***************************************************************************)
EXTENDS Ext2, SequencesExt

CONSTANTS
    Clip,           \* for each text, the same without the 1024th byte of its block
    Paths,          \* the paths commands are given
    StdDirs,        \* the directories fs_init makes, in order
    CopyBlocks,     \* blocks of the 4096-byte buffer of cp and mv (4)
    MaxCwd          \* components that fit the 128-byte cwd string

VARIABLES
    cwd_inode,      \* the current directory
    cwd,            \* its path, absolute
    status          \* "err" when the last command printed an error

fsVars == <<vol, cwd_inode, cwd, status>>

Blank == ""

Rooted(comps) == [abs |-> TRUE, comps |-> comps]

RootPath == Rooted(<<Blank>>)

DotDot == [abs |-> FALSE, comps |-> <<"..">>]

-----------------------------------------------------------------------------
(* kernel/fs.c. The operators take the volume and the current directory.    *)

\* One component at a time, blanks skipped, -1 as soon as one is missing. A
\* component is looked up in whatever inode the walk has reached.
fs_resolve_inode(v, cur, path) ==
    FoldLeft(LAMBDA i, c : IF i < 0 \/ c = Blank THEN i ELSE ext2_find_inode(v, i, c),
             IF path.abs THEN Root ELSE cur, path.comps)

fs_get_parent(v, cur, path) ==
    IF Len(path.comps) = 1 THEN (IF path.abs THEN Root ELSE cur)
    ELSE fs_resolve_inode(v, cur, [path EXCEPT !.comps = Front(@)])

fs_exists(v, cur, path) == fs_resolve_inode(v, cur, path) >= 0

\* The condition under which fs_mkdir, fs_create and fs_delete go ahead.
HasParent(v, cur, path) ==
    fs_get_parent(v, cur, path) >= 0 /\ Last(path.comps) # Blank

fs_mkdir(v, cur, path) ==
    ext2_mkdir(v, fs_get_parent(v, cur, path), Last(path.comps))

fs_create(v, cur, path) ==
    ext2_create_file(v, fs_get_parent(v, cur, path), Last(path.comps))

\* What is left of a block that is read but for its last byte: zeros and entries
\* end in a zero.
Clipped(c) == IF c.kind = "data" THEN Data(Clip[c.pay]) ELSE c

\* The file, read into a buffer of n blocks: all callers ask for one byte less,
\* and so never get the last byte of the n-th block.
fs_read(v, cur, path, n) ==
    LET bytes == ext2_read_file(v, fs_resolve_inode(v, cur, path))
    IN  [k \in 1 .. (IF Len(bytes) < n THEN Len(bytes) ELSE n) |->
            IF k = n THEN Clipped(bytes[k]) ELSE bytes[k]]

\* The file is created when the path does not resolve, and the path resolved
\* again: in a full directory it still does not, and the new inode is lost.
fs_write(v, cur, path, bytes) ==
    LET made == IF fs_exists(v, cur, path) \/ ~HasParent(v, cur, path)
                THEN v ELSE fs_create(v, cur, path)
        i == fs_resolve_inode(made, cur, path)
    IN  IF i < 0 THEN [vol |-> made, ok |-> FALSE]
        ELSE [vol |-> ext2_write_file(made, i, bytes), ok |-> TRUE]

\* A name made of the bytes of a text.
Garbage == "(text)"

\* Fault: removed entries are printed too.
ListRemoved(v, cur) ==
    {c.name : c \in {x \in Range(ext2_read_file(v, cur)) : x.kind = "dirent"}}

\* The names fs_list prints for the current directory: of every entry but "." and
\* "..", and what a text saved over a directory looks like when it is read as one.
\* Its rec_len leads out of the block, so it is one name.
fs_list(v, cur) ==
    LET read == Range(ext2_read_file(v, cur))
    IN  {c.name : c \in {x \in read : /\ x.kind = "dirent" /\ x.ino # 0
                                     /\ x.name \notin {".", ".."}}}
          \cup {Garbage : c \in {x \in read : x.kind = "data" /\ ~NoRecLen(x)}}

\* Every missing directory along the path is made, from the root down.
fs_mkdirp(v, path) ==
    FoldLeft(LAMBDA w, k :
                LET partial == Rooted(SubSeq(path.comps, 1, k))
                IN  IF ~fs_exists(w, Root, partial) /\ HasParent(w, Root, partial)
                    THEN fs_mkdir(w, Root, partial) ELSE w,
             v, [k \in 1 .. Len(path.comps) |-> k])

\* One of the standard directories, made if it is missing.
EnsureDir(v, path) == IF fs_exists(v, Root, path) THEN v ELSE fs_mkdirp(v, path)

\* Mount the disk and make the standard directories. ata_get_primary never
\* returns NULL and ext2_mount never fails on a disk that answers.
fs_init(disk) == FoldLeft(EnsureDir, ext2_mount(disk), StdDirs)

\* Fault: the home directory goes into whatever "home" is from here.
CreateHomeHere(v, cur, user) ==
    LET i == ext2_find_inode(v, cur, "home")
    IN  IF user = "root" \/ i <= 0 THEN v ELSE ext2_mkdir(v, i, user)

\* "home" is looked up from the current directory and made in the root. The
\* user's directory is made whether it is there or not; root has none.
fs_create_home(v, cur, user) ==
    LET home == [abs |-> FALSE, comps |-> <<"home">>]
        w == IF fs_exists(v, cur, home) THEN v ELSE ext2_mkdir(v, Root, "home")
        i == ext2_find_inode(w, Root, "home")
    IN  IF user = "root" THEN v ELSE IF i <= 0 THEN w ELSE ext2_mkdir(w, i, user)

\* A path has at least one component, and MaxInode leaves room for the standard
\* directories.
PathNames == [abs : BOOLEAN, comps : Seq(Names \cup {Blank}) \ {<<>>}]

ASSUME FsAssumption ==
    /\ Paths \subseteq PathNames
    /\ StdDirs \in Seq(PathNames)
    /\ Clip \in [Payloads -> Payloads]
    /\ \A p \in Payloads : /\ Clip[Clip[p]] = Clip[p]
                         /\ Clip[p] \in ShortPayloads <=> p \in ShortPayloads
    /\ Garbage \notin Names
    /\ "home" \in Names
    /\ CopyBlocks \in Nat \ {0}
    /\ MaxCwd \in Nat
    /\ fs_init(BlankDisk).next_inode <= MaxInode + 1

-----------------------------------------------------------------------------
(* The commands of kernel/shell.c *)

\* Bounds: n inodes and m blocks are left.
Room(n, m) == vol.next_inode + n - 1 <= MaxInode /\ BlocksLeft(m)

Report(ok) == status' = IF ok THEN "ok" ELSE "err"

cmd_touch(path) ==
    /\ Room(1, 1)
    /\ IF fs_exists(vol, cwd_inode, path) THEN UNCHANGED vol /\ Report(TRUE)
       ELSE IF HasParent(vol, cwd_inode, path)
       THEN vol' = fs_create(vol, cwd_inode, path) /\ Report(TRUE)
       ELSE UNCHANGED vol /\ Report(FALSE)
    /\ UNCHANGED <<cwd_inode, cwd>>

\* Fault: fs_mkdir does not look whether the path exists.
MkdirUnchecked(path) ==
    /\ Room(1, 2)
    /\ IF HasParent(vol, cwd_inode, path)
       THEN vol' = fs_mkdir(vol, cwd_inode, path) /\ Report(TRUE)
       ELSE UNCHANGED vol /\ Report(FALSE)
    /\ UNCHANGED <<cwd_inode, cwd>>

cmd_mkdir(path) ==
    /\ Room(1, 2)
    /\ IF ~fs_exists(vol, cwd_inode, path) /\ HasParent(vol, cwd_inode, path)
       THEN vol' = fs_mkdir(vol, cwd_inode, path) /\ Report(TRUE)
       ELSE UNCHANGED vol /\ Report(FALSE)
    /\ UNCHANGED <<cwd_inode, cwd>>

\* Files and directories alike, empty or not.
cmd_rm(path) ==
    /\ LET d == fs_get_parent(vol, cwd_inode, path)
           name == Last(path.comps)
       IN  IF HasParent(vol, cwd_inode, path) /\ UnlinkHits(vol, d, name) # {}
           THEN vol' = ext2_unlink(vol, d, name) /\ Report(TRUE)
           ELSE UNCHANGED vol /\ Report(FALSE)
    /\ UNCHANGED <<cwd_inode, cwd>>

\* The source is read into the buffer and written out as it was read, whatever it
\* is: the blocks of a directory become the blocks of the copy.
Copy(src, dst) ==
    IF ~fs_exists(vol, cwd_inode, src) THEN [vol |-> vol, ok |-> FALSE]
    ELSE fs_write(vol, cwd_inode, dst, fs_read(vol, cwd_inode, src, CopyBlocks))

cmd_cp(src, dst) ==
    /\ Room(1, CopyBlocks + 1)
    /\ vol' = Copy(src, dst).vol /\ Report(Copy(src, dst).ok)
    /\ UNCHANGED <<cwd_inode, cwd>>

\* Fault: fs_delete is given the wrong one of the two paths.
MvDeletesTarget(src, dst) ==
    /\ Room(1, CopyBlocks + 1)
    /\ LET c == Copy(src, dst)
       IN  /\ Report(c.ok)
           /\ vol' = IF c.ok /\ HasParent(c.vol, cwd_inode, dst)
                     THEN ext2_unlink(c.vol, fs_get_parent(c.vol, cwd_inode, dst),
                                      Last(dst.comps))
                     ELSE c.vol
    /\ UNCHANGED <<cwd_inode, cwd>>

\* A copy, then fs_delete of the source, whose result is ignored.
cmd_mv(src, dst) ==
    /\ Room(1, CopyBlocks + 1)
    /\ LET c == Copy(src, dst)
       IN  /\ Report(c.ok)
           /\ vol' = IF c.ok /\ HasParent(c.vol, cwd_inode, src)
                     THEN ext2_unlink(c.vol, fs_get_parent(c.vol, cwd_inode, src),
                                      Last(src.comps))
                     ELSE c.vol
    /\ UNCHANGED <<cwd_inode, cwd>>

\* kittywrite's save: fs_write of the edited text.
kw_save(path, text) ==
    /\ Room(1, Len(text) + 1)
    /\ LET w == fs_write(vol, cwd_inode, path, Text(text))
       IN  vol' = w.vol /\ Report(w.ok)
    /\ UNCHANGED <<cwd_inode, cwd>>

\* fs_chmod returns what ext2_write_inode returns, the 1024 bytes it wrote;
\* the command takes anything but 0 for a failure. Only permission bits change.
fs_chmod(v, cur, path) == IF fs_exists(v, cur, path) THEN 1024 ELSE -1

cmd_chmod(path) ==
    /\ Report(fs_chmod(vol, cwd_inode, path) = 0)
    /\ UNCHANGED <<vol, cwd_inode, cwd>>

\* useradd: the home directory of the new user.
create_home(user) ==
    /\ Room(2, 4)
    /\ vol' = fs_create_home(vol, cwd_inode, user)
    /\ UNCHANGED <<cwd_inode, cwd, status>>

GoRoot == cwd_inode' = Root /\ cwd' = RootPath.comps /\ Report(TRUE)

\* "..": the last component goes from the string, and the rest is resolved
\* again, without a look at what it leads to.
cd_up ==
    LET up == Front(cwd)
        i == fs_resolve_inode(vol, cwd_inode, Rooted(up))
    IN  /\ IF Len(cwd) = 1 \/ i < 0 THEN GoRoot
           ELSE cwd_inode' = i /\ cwd' = up /\ Report(TRUE)
        /\ UNCHANGED vol

\* Fault: the result of the walk is not looked at.
CdUnchecked(path) ==
    /\ cwd_inode' = fs_resolve_inode(vol, cwd_inode, path)
    /\ cwd' = IF path.abs THEN path.comps ELSE cwd
    /\ Report(TRUE) /\ UNCHANGED vol

\* Fault: a relative path replaces the string.
CdForgetsPrefix(path) ==
    LET i == fs_resolve_inode(vol, cwd_inode, path)
    IN  /\ IF i >= 0 /\ vol.itab[i].type = "dir"
           THEN cwd_inode' = i /\ cwd' = path.comps /\ Report(TRUE)
           ELSE UNCHANGED <<cwd_inode, cwd>> /\ Report(FALSE)
        /\ UNCHANGED vol

\* cwd_inode always moves to the target, the string only when it has room.
cd_to(path) ==
    LET i == fs_resolve_inode(vol, cwd_inode, path)
        joined == IF cwd = RootPath.comps THEN path.comps ELSE cwd \o path.comps
    IN  /\ IF i >= 0 /\ vol.itab[i].type = "dir"
           THEN /\ cwd_inode' = i
                /\ cwd' = IF path.abs THEN path.comps
                          ELSE IF Len(joined) <= MaxCwd THEN joined ELSE cwd
                /\ Report(TRUE)
           ELSE UNCHANGED <<cwd_inode, cwd>> /\ Report(FALSE)
        /\ UNCHANGED vol

cmd_cd(path) ==
    \/ path = RootPath /\ GoRoot /\ UNCHANGED vol
    \/ path = DotDot /\ cd_up
    \/ path \notin {RootPath, DotDot} /\ cd_to(path)

-----------------------------------------------------------------------------

FsInit ==
    /\ vol = fs_init(BlankDisk)
    /\ cwd_inode = Root
    /\ cwd = RootPath.comps
    /\ status = "ok"

FsNext ==
    \/ \E p \in Paths : cmd_touch(p) \/ cmd_mkdir(p) \/ cmd_rm(p) \/ cmd_chmod(p)
    \/ \E p, q \in Paths : cmd_cp(p, q) \/ cmd_mv(p, q)
    \/ \E p \in Paths, text \in Files : kw_save(p, text)
    \/ \E p \in Paths \cup {RootPath, DotDot} : cmd_cd(p)
    \/ \E user \in Names : create_home(user)

FsSpec == FsInit /\ [][FsNext]_fsVars

-----------------------------------------------------------------------------
(* Properties *)

Resolve(path) == fs_resolve_inode(vol, cwd_inode, path)

Bytes(i) == ext2_read_file(vol, i)

Entries(i) == {c \in Range(Bytes(i)) : c.kind = "dirent" /\ c.ino # 0}

\* No directory has two entries of one name.
NamesUnique ==
    \A i \in Live(vol), k, l \in Index, name \in Names :
        k \in UnlinkHits(vol, i, name) /\ l \in UnlinkHits(vol, i, name) => k = l

\* The state of fs.c: the current directory is an inode of this boot even when
\* it has been removed, and its path is never empty (an absolute one may be longer
\* than what a relative cd can build).
FsTypeOK ==
    /\ VolumeType(vol)
    /\ cwd_inode \in Live(vol)
    /\ cwd \in Seq(Names \cup {Blank}) /\ cwd # <<>>
    /\ status \in {"ok", "err"}

\* Whatever the commands do, also to directories copied or overwritten as if
\* they were files, no block comes to belong to two inodes, no pointer of an inode
\* has a hole before it, and ext2_find_inode and ext2_unlink agree on every name in
\* every directory, so "rm p" removes what "cat p" shows.
FsSound == FsTypeOK /\ BlocksSound /\ FindUnlinkAgree

\* A cd whose path fits leaves cwd, which pwd and the prompt show, naming the
\* inode commands use, if it named it before.
CdKeepsPwd ==
    [][\A path \in Paths \cup {RootPath, DotDot} :
        /\ Resolve(Rooted(cwd)) = cwd_inode
        /\ path.abs \/ Len(cwd) + Len(path.comps) <= MaxCwd
        /\ cmd_cd(path)
        => Resolve(Rooted(cwd))' = cwd_inode']_fsVars

\* What the editor saved is what is read back, up to the NDirect blocks a file
\* can have, though fs_write resolves the path again after it made the file.
SavedIsRead ==
    [][vol' # vol /\ TreeShaped(vol) =>
        \A path \in Paths, text \in Files :
            status' = "ok" /\ kw_save(path, text) =>
                /\ Resolve(path)' >= 0
                /\ Bytes(Resolve(path))' = SubSeq(Text(text), 1, Written(text))]_fsVars

\* A save or a copy changes the contents of the file it names and of the
\* directory it makes it in, and of no other inode.
OnlyTargetChanges ==
    [][\A i \in Live(vol) : ext2_read_file(vol', i) # Bytes(i) =>
        \A path \in Paths :
            \/ i \in {Resolve(path), fs_get_parent(vol, cwd_inode, path)}
            \/ /\ \A text \in Files : ~kw_save(path, text)
               /\ \A src \in Paths : ~cmd_cp(src, path)]_fsVars

\* Every command but useradd looks a name up before it makes it, so only
\* fs_create_home can put a second entry of one name into a directory.
OnlyHomeRepeatsNames ==
    [][NamesUnique => NamesUnique' \/ \E user \in Names : create_home(user)]_fsVars

\* The tree stays a tree as long as nothing that holds entries is copied or
\* moved: cp and mv copy the entries of a directory as if they were text.
OnlyCopiedDirsBreakTree ==
    [][TreeShaped(vol) /\ ~TreeShaped(vol') =>
        \E p, q \in Paths : /\ cmd_cp(p, q) \/ cmd_mv(p, q)
                            /\ Entries(Resolve(p)) # {}]_fsVars

\* A file of inode i that is no longer than cp and mv read, a byte less than their
\* buffer.
FitsBuffer(i) ==
    /\ Len(Bytes(i)) \in 1 .. CopyBlocks
    /\ Len(Bytes(i)) = CopyBlocks => Clipped(Bytes(i)[CopyBlocks]) = Bytes(i)[CopyBlocks]

\* A file that fits the buffer survives mv under its new name, and only there,
\* unless it is moved onto or into itself. (A longer one is cut, and the original
\* is deleted all the same.)
MovedFileSurvives ==
    [][vol' # vol /\ TreeShaped(vol) /\ NamesUnique =>
        \A p, q \in Paths :
            LET i == Resolve(p)
            IN  /\ i >= 0 /\ Last(p.comps) # Blank
                /\ Entries(i) = {} /\ FitsBuffer(i)
                /\ i \notin {Resolve(q), fs_get_parent(vol, cwd_inode, q)}
                /\ cmd_mv(p, q) /\ status' = "ok"
                => /\ Resolve(p)' < 0
                   /\ Resolve(q)' >= 0
                   /\ Bytes(Resolve(q))' = Bytes(i)]_fsVars

\* fs_list walks the directory by itself, whatever the commands made of it: but for
\* what it takes for a name in a text saved over a directory, it prints every name
\* that ext2_find_inode finds and no other.
ListIsWhatIsFound ==
    fs_list(vol, cwd_inode) \ {Garbage} =
        {name \in Names \ {".", ".."} : ext2_find_inode(vol, cwd_inode, name) >= 0}
=============================================================================
