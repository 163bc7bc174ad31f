-------------------------------- MODULE Ata ---------------------------------
(***************************************************************************)
(* The disk driver of kernel/ata.c on one channel with up to two drives:      *)
(* the probe of ata_init, and transfers that poll the drive and give up       *)
(* after ATA_TIMEOUT polls. The secondary channel is a second copy.           *)
(*                                                                         *)
(* The drive is external, and is modelled from what the driver sees of it. It *)
(* works at its own speed, may fail any sector, and may be ready with a       *)
(* transfer long after the driver has given it up. A command that reaches it  *)
(* while it asks for data is undefined in ATA: it is taken, or ignored.       *)
(***************************************************************************)
EXTENDS Integers, Sequences, FiniteSets

CONSTANTS
    Kinds,          \* what may be attached as drive 0 and 1: a set of functions
                    \* to "ata", "atapi", "none" or "float" (no controller)
    Contents,       \* what is on drive 0 and drive 1: their sectors, from 0
    Data,           \* what callers write: sequences of sectors
    Counts,         \* the numbers of sectors that are asked for
    Timeout,        \* ATA_TIMEOUT (100000)
    Wrap,           \* 2^32: lba + count is computed modulo this
    Addresses,      \* 2^28: what the registers hold of lba
    MaxCalls        \* bound: how many transfers are asked for

VARIABLES
    kind,           \* what is attached
    chan,           \* the channel: drive selected, state, command, next sector, sectors to go
    media,          \* the contents of the drives
    disk,           \* primary_disk: present, slave, sectors
    pc,             \* where the driver is
    call,           \* the transfer: op, lba, count, data (or the buffer)
    i,              \* the sector it is at, or the drive probed
    timeout,
    ret,            \* whether the last transfer returned a length
    calls,          \* how many transfers were begun, for the bound
    before,         \* history: the contents of the drives when it began
    stale,          \* history: its command met a drive that asked for data
    fault           \* history: the drive failed to store a sector of it

ataVars == <<kind, chan, media, disk, pc, call, i, timeout, ret, calls, before, stale, fault>>

history == <<before, stale, fault>>

Junk == -1

Capacity == [d \in 0 .. 1 |-> Cardinality(DOMAIN Contents[d])]

ASSUME AtaAssumption ==
    /\ Kinds \subseteq [0 .. 1 -> {"ata", "atapi", "none", "float"}]
    /\ \A d \in 0 .. 1 : /\ Capacity[d] \in Nat /\ Capacity[d] < Addresses
                         /\ Contents[d] \in [0 .. Capacity[d] - 1 -> Int]
    /\ Contents = [d \in 0 .. 1 |-> Contents[d]]
    /\ Data \subseteq Seq(Int) /\ Counts \subseteq Nat
    /\ \A c \in Counts : \A s \in Data : c <= Len(s)
    /\ Timeout \in Nat \ {0} /\ Addresses \in Nat /\ Wrap \in Nat /\ Addresses <= Wrap

-----------------------------------------------------------------------------
(* The drive *)

BSY == chan.state = "busy"

DRQ == chan.state = "drq"

\* A command begins.
Started(drive, cmd, at, left) ==
    [drive |-> drive, state |-> "busy", cmd |-> cmd, at |-> at, left |-> left]

\* It is done with what kept it busy: it asks for the next sector, or is idle, or
\* has failed, as it does where there is no such sector.
DriveReady ==
    /\ BSY /\ kind[chan.drive] \in {"ata", "atapi"}
    /\ \E s \in {"idle", "drq", "err"} :
          /\ s = "idle" => chan.left = 0
          /\ s = "drq" => chan.left > 0 /\ chan.at < Capacity[chan.drive]
          /\ s = "err" => chan.left > 0 \/ chan.cmd = "identify"
          /\ chan' = [chan EXCEPT !.state = s]
    /\ UNCHANGED <<kind, media, disk, pc, call, i, timeout, ret, calls, history>>

\* The channel when a sector has passed the data register.
Passed == [chan EXCEPT !.state = IF chan.cmd = "read" /\ chan.left = 1 THEN "idle" ELSE "busy",
                       !.at = @ + 1, !.left = @ - 1]

-----------------------------------------------------------------------------
(* ata_init *)

\* Probing goes from drive 0 to drive 1, and then ata_init returns.
NextProbe == IF i = 0 THEN pc' = "probe" /\ i' = 1 ELSE pc' = "ready" /\ i' = 0

\* ata_detect, up to the first look at the status: 0 if there is no drive.
Identify ==
    /\ pc = "probe"
    /\ IF kind[i] = "none"
       THEN chan' = [Started(i, "none", 0, 0) EXCEPT !.state = "idle"] /\ NextProbe
       ELSE chan' = Started(i, "identify", 0, 0) /\ pc' = "spin" /\ UNCHANGED i
    /\ UNCHANGED <<kind, media, disk, call, timeout, ret, calls, history>>

\* It waits, without a limit, until the drive is no longer busy.
Spin == pc = "spin" /\ BSY /\ UNCHANGED ataVars

\* Both drives have one record: the one that is found last is the disk.
Identified ==
    /\ pc = "spin" /\ ~BSY
    /\ disk' = IF kind[i] = "atapi" \/ chan.state = "err" THEN disk
               ELSE [present |-> TRUE, slave |-> i, sectors |-> Capacity[i]]
    /\ NextProbe
    /\ UNCHANGED <<kind, chan, media, call, timeout, ret, calls, history>>

-----------------------------------------------------------------------------
(* ata_wait *)

\* Fault: the polls are not counted.
PollUncounted(ready, done, failed) ==
    \/ ready /\ done
    \/ ~ready /\ timeout = 0 /\ failed
    \/ ~ready /\ timeout > 0 /\ UNCHANGED <<pc, i, timeout, ret>>

\* One look at the status: go on, give up, or look again.
Poll(ready, done, failed) ==
    \/ ready /\ done
    \/ ~ready /\ timeout = 1 /\ failed
    \/ ~ready /\ timeout > 1 /\ timeout' = timeout - 1 /\ UNCHANGED <<pc, i, ret>>

To(p) == pc' = p /\ timeout' = Timeout /\ UNCHANGED <<i, ret>>

Returns(ok) == pc' = "ready" /\ ret' = ok /\ UNCHANGED <<i, timeout>>

Waiting == UNCHANGED <<kind, chan, media, disk, call, calls, history>>

-----------------------------------------------------------------------------
(* ata_read_sectors and ata_write_sectors *)

\* The call, as far as its checks.
Call(op, lba, count, data) ==
    /\ pc = "ready"
    /\ call' = [op |-> op, lba |-> lba, count |-> count,
                data |-> IF op = "write" THEN SubSeq(data, 1, count)
                         ELSE [j \in 1 .. count |-> Junk]]
    /\ i' = 0 /\ before' = media /\ stale' = FALSE /\ fault' = FALSE /\ timeout' = Timeout
    /\ IF ~disk.present \/ count = 0 \/ (lba + count) % Wrap > disk.sectors
       THEN ret' = FALSE /\ UNCHANGED <<pc, calls>>
       ELSE /\ calls < MaxCalls /\ calls' = calls + 1
            /\ pc' = "wait" /\ UNCHANGED ret
    /\ UNCHANGED <<kind, chan, media, disk>>

Wait == pc = "wait" /\ Poll(~BSY, To("command"), Returns(FALSE)) /\ Waiting

\* The registers are written, the command last.
Command ==
    /\ pc = "command"
    /\ stale' = DRQ
    /\ \/ chan' = Started(disk.slave, call.op, call.lba % Addresses, call.count)
       \/ DRQ /\ UNCHANGED chan
    /\ To("wait_drq")
    /\ UNCHANGED <<kind, media, disk, call, calls, before, fault>>

\* Fault: it is enough that the drive is not busy.
WaitNotBusy == pc = "wait_drq" /\ Poll(~BSY, To("data"), Returns(FALSE)) /\ Waiting

WaitDrq == pc = "wait_drq" /\ Poll(DRQ, To("data"), Returns(FALSE)) /\ Waiting

\* The next sector, or the end.
Advance ==
    IF i + 1 < call.count THEN /\ pc' = "wait_drq" /\ i' = i + 1 /\ timeout' = Timeout
                               /\ UNCHANGED ret
    ELSE Returns(TRUE)

ReadData ==
    /\ pc = "data" /\ call.op = "read"
    /\ call' = [call EXCEPT !.data[i + 1] =
                   IF DRQ THEN media[chan.drive][chan.at] ELSE Junk]
    /\ chan' = IF DRQ THEN Passed ELSE chan
    /\ Advance
    /\ UNCHANGED <<kind, media, disk, calls, history>>

\* The drive stores the sector, or fails to.
WriteData ==
    /\ pc = "data" /\ call.op = "write"
    /\ \E ok \in BOOLEAN :
          /\ chan' = IF ~DRQ THEN chan
                     ELSE IF ok THEN Passed ELSE [chan EXCEPT !.state = "err"]
          /\ media' = IF DRQ /\ ok
                      THEN [media EXCEPT ![chan.drive][chan.at] = call.data[i + 1]]
                      ELSE media
          /\ fault' = (fault \/ (DRQ /\ ~ok))
    /\ To("flush")
    /\ UNCHANGED <<kind, disk, call, calls, before, stale>>

\* The flush behind every sector, also when the drive asks for the next one. A
\* drive that is busy does not take it.
Flush ==
    /\ pc = "flush"
    /\ \/ ~BSY /\ chan' = Started(chan.drive, "flush", chan.at, 0)
       \/ (BSY \/ DRQ) /\ UNCHANGED chan
    /\ To("wait_flush")
    /\ UNCHANGED <<kind, media, disk, call, calls, history>>

\* Nothing looks at how this wait ends.
WaitFlush == pc = "wait_flush" /\ Poll(~BSY, Advance, Advance) /\ Waiting

\* ata_reset, which any caller may use on a disk that was found: the drives drop
\* what they were doing, drive 0 is selected, and is waited for.
Reset ==
    /\ pc = "ready" /\ disk.present
    /\ chan' = [Started(0, "none", 0, 0) EXCEPT
                   !.state = IF kind[0] = "none" THEN "idle" ELSE "busy"]
    /\ To("wait_reset")
    /\ UNCHANGED <<kind, media, disk, call, calls, history>>

WaitReset ==
    /\ pc = "wait_reset"
    /\ LET Done == pc' = "ready" /\ UNCHANGED <<i, timeout, ret>>
       IN  Poll(~BSY, Done, Done)
    /\ Waiting

-----------------------------------------------------------------------------

AtaInit ==
    /\ kind \in Kinds
    /\ chan = [drive |-> 0, state |-> "idle", cmd |-> "none", at |-> 0, left |-> 0]
    /\ media = Contents
    /\ disk = [present |-> FALSE, slave |-> 0, sectors |-> 0]
    /\ pc = "probe" /\ i = 0 /\ timeout = 1 /\ ret = FALSE /\ calls = 0
    /\ call = [op |-> "read", lba |-> 0, count |-> 0, data |-> <<>>]
    /\ before = media /\ stale = FALSE /\ fault = FALSE

\* The driver's own steps.
Driver ==
    \/ Identify \/ Spin \/ Identified
    \/ Wait \/ Command \/ WaitDrq \/ ReadData \/ WriteData \/ Flush \/ WaitFlush \/ WaitReset

AtaNext ==
    \/ Driver
    \/ DriveReady
    \/ Reset
    \/ \E lba \in 0 .. Wrap - 1, n \in Counts, d \in Data :
          \E op \in {"read", "write"} : Call(op, lba, n, d)

\* The driver's thread keeps running. The drive need not answer.
AtaSpec == AtaInit /\ [][AtaNext]_ataVars /\ WF_ataVars(Driver)

-----------------------------------------------------------------------------
(* Properties *)

\* The contents m of the drives, with the first n sectors of the call c stored on
\* drive d.
Image(m, d, c, n) ==
    [m EXCEPT ![d] = [s \in DOMAIN @ |-> IF s \in c.lba .. c.lba + n - 1
                                         THEN c.data[s - c.lba + 1] ELSE @[s]]]

\* What the disk holds when n sectors of the present call are stored.
Stored(n) == Image(before, disk.slave, call, n)

Returned == pc = "ready" /\ calls > 0

\* The transfer is not one of the two kinds that are left out below.
Plain == ~stale /\ call.lba + call.count < Wrap

\* A read that returns a length has read the sectors that were asked for, all of
\* them on the disk; no read changes any.
ReadRight ==
    /\ media = before
    /\ ret => \A j \in 1 .. call.count : call.data[j] = media[disk.slave][call.lba + j - 1]

\* A write stores the sectors in order, so that one that gives up has stored the
\* first few of them, where they belong, and nothing else; one that returns a
\* length has stored them all, unless the drive failed on the last of them, which
\* the driver does not see.
WriteRight ==
    /\ \E n \in 0 .. call.count : media = Stored(n)
    /\ ret => \/ media = Stored(call.count)
              \/ fault /\ media = Stored(call.count - 1)

\* Transfers that are slow, fail half way or come after one that was given up do
\* what was asked for or a part of it. Left out are the transfers whose command
\* met a drive that was still asking for the data of an earlier one, and ranges
\* that pass the end of the 32-bit numbers.
TransfersRight ==
    Returned /\ Plain => IF call.op = "read" THEN ReadRight ELSE WriteRight

\* Every transfer returns, whatever the drive does: the waits have a limit. (The
\* probe at start-up has none.)
CallsReturn ==
    pc \in {"wait", "command", "wait_drq", "data", "flush", "wait_flush", "wait_reset"}
        ~> pc = "ready"
=============================================================================
