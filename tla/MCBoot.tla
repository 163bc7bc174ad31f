------------------------------- MODULE MCBoot -------------------------------
(* The disk at the code's own sizes: the standard directories, the system     *)
(* files, two accounts, and a user at work in /tmp, /etc and a full root.     *)
EXTENDS Boot

D(comps) == Rooted(comps)

MCStdDirs ==
    <<D(<<"bin">>), D(<<"sbin">>), D(<<"lib">>), D(<<"dev">>), D(<<"usr">>),
      D(<<"usr", "bin">>), D(<<"usr", "sbin">>), D(<<"usr", "lib">>),
      D(<<"usr", "include">>), D(<<"usr", "share">>), D(<<"etc">>),
      D(<<"etc", "init.d">>), D(<<"home">>), D(<<"root">>), D(<<"tmp">>),
      D(<<"var">>), D(<<"var", "log">>), D(<<"var", "run">>), D(<<"var", "tmp">>),
      D(<<"proc">>), D(<<"sys">>), D(<<"dev">>), D(<<"mnt">>), D(<<"opt">>),
      D(<<"run">>), D(<<"boot">>)>>

File(name) == [path |-> D(<<"etc", name>>), text |-> <<name>>]

MCSystemFiles == <<File("os-release"), File("hostname"), File("motd"), File("shells")>>

MCUsers == {"u", "w"}

MCNames == UNION {Range(d.comps) : d \in Range(MCStdDirs)}
             \cup {f.text[1] : f \in Range(MCSystemFiles)}
             \cup MCUsers \cup {"passwd", "a"}

AllTables == UNION {[1 .. n -> MCUsers \cup {"root"}] : n \in 1 .. 3}

MCPayloads == {f.text : f \in Range(MCSystemFiles)} \cup AllTables \cup {<<"note">>}

\* No text here is longer than a block less a byte.
MCClip == [p \in MCPayloads |-> p]

\* /etc/hostname is "ktty".
MCShortPayloads == {<<"hostname">>}

MCFiles == {<<<<"note">>>>}

MCPaths == {D(<<"tmp", "a">>), [abs |-> FALSE, comps |-> <<"a">>]}

\* For the runs about the boots themselves.
OneUser == {"u"}

OnePath == {D(<<"tmp", "a">>)}

MCVisits == {D(<<"etc">>), D(<<"tmp", "a">>), DotDot}

\* blocks_per_group, inodes_per_group and, with the half word that follows it,
\* the magic number.
MCSbPointers ==
    [k \in 0 .. 11 |-> CASE k = 0 -> 8192 [] k = 2 -> 2048 [] k = 6 -> 126803
                          [] OTHER -> 0]
=============================================================================
