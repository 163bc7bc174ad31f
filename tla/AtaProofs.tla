----------------------------- MODULE AtaProofs ------------------------------
(***************************************************************************)
(* For drives of every size, every limit on the polls and any number of      *)
(* calls, transfers do what they return. The invariant ties the three parts    *)
(* that move at different speeds together: how far the driver is (i), where     *)
(* the drive is (chan.at), and what has reached the medium (Stored).            *)
(***************************************************************************)
EXTENDS Ata, TLAPS, SequenceTheorems

Transfer == {"wait", "command", "wait_drq", "data", "flush", "wait_flush"}

Volume(m) ==
    /\ m = [d \in 0 .. 1 |-> m[d]]
    /\ \A d \in 0 .. 1 : m[d] \in [0 .. Capacity[d] - 1 -> Int]

(* The types. A drive that asks for data has a sector to transfer. *)
AtaTypeOK ==
    /\ kind \in [0 .. 1 -> {"ata", "atapi", "none", "float"}]
    /\ chan \in [drive : 0 .. 1, state : {"idle", "busy", "drq", "err"},
                 cmd : {"none", "identify", "read", "write", "flush"}, at : Nat, left : Nat]
    /\ Volume(media) /\ Volume(before)
    /\ disk \in [present : BOOLEAN, slave : 0 .. 1, sectors : Nat]
    /\ disk.present => disk.sectors = Capacity[disk.slave]
    /\ pc \in Transfer \cup {"probe", "spin", "ready", "wait_reset"}
    /\ call \in [op : {"read", "write"}, lba : Nat, count : Nat, data : Seq(Int)]
    /\ Len(call.data) = call.count
    /\ i \in Nat /\ (pc \in {"probe", "spin"} => i \in 0 .. 1)
    /\ ret \in BOOLEAN /\ stale \in BOOLEAN /\ fault \in BOOLEAN
    /\ DRQ => chan.left > 0 /\ chan.at < Capacity[chan.drive]

(* A call that has passed its checks is at one of its sectors. *)
InRange ==
    /\ i < call.count /\ disk.present
    /\ pc \in {"wait", "command"} => i = 0 /\ media = before /\ ~fault /\ ~stale
    /\ pc = "data" => DRQ
    /\ call.op = "read" => pc \notin {"flush", "wait_flush"} /\ media = before
    /\ Plain => call.lba + call.count <= Capacity[disk.slave]

(* The sector the drive is at, while it still has one to transfer. *)
Next1 == IF pc \in {"flush", "wait_flush"} THEN i + 1 ELSE i

AtSector ==
    pc \in {"wait_drq", "data", "flush", "wait_flush"} /\ chan.left > 0 /\ (BSY \/ DRQ) =>
        chan.drive = disk.slave /\ chan.at = call.lba + Next1

(* What a read has got so far. *)
ReadSoFar ==
    call.op = "read" =>
        \A j \in 1 .. i : call.data[j] = media[disk.slave][call.lba + j - 1]

(* What a write has stored so far. After a fault the drive asks for no more. *)
WrittenSoFar ==
    call.op = "write" =>
        /\ ~fault => media = Stored(Next1)
        /\ fault /\ pc \in {"flush", "wait_flush"} => media = Stored(i)
        /\ fault /\ pc = "wait_drq" => i > 0 /\ media = Stored(i - 1)
        /\ fault /\ pc = "flush" => chan.state = "err"
        /\ fault /\ pc # "flush" => chan.left = 0

Result == Plain => IF call.op = "read" THEN ReadRight ELSE WriteRight

AtaInv ==
    /\ AtaTypeOK
    /\ pc \in Transfer => InRange /\ (Plain => AtSector /\ ReadSoFar /\ WrittenSoFar)
    /\ pc \notin Transfer => Result
    /\ pc \in {"probe", "spin"} => call.op = "read" /\ ~ret

-----------------------------------------------------------------------------
(* What is stored *)

(* Before the first sector the drives are as they were. *)
LEMMA StoredNone ==
    ASSUME NEW m, Volume(m), NEW s \in 0 .. 1, NEW c, c.lba \in Nat
    PROVE  Image(m, s, c, 0) = m
  <1>2. /\ m = [d \in 0 .. 1 |-> m[d]]
        /\ m[s] \in [0 .. Capacity[s] - 1 -> Int]
    BY DEF Volume
  <1>3. c.lba .. c.lba + 0 - 1 = {}
    OBVIOUS
  <1>4. [k \in DOMAIN m[s] |-> IF k \in c.lba .. c.lba + 0 - 1
                               THEN c.data[k - c.lba + 1] ELSE m[s][k]] = m[s]
    BY <1>2, <1>3
  <1> QED
    BY <1>2, <1>4 DEF Image

(* One sector more makes an interval one longer. *)
LEMMA OneMore ==
    ASSUME NEW a \in Nat, NEW n \in Nat, NEW k \in Int
    PROVE  k \in a .. a + (n + 1) - 1 <=> k = a + n \/ k \in a .. a + n - 1
  OBVIOUS

(* One sector of a drive changed. *)
Put(m, d, k, w) == [m EXCEPT ![d][k] = w]

(* Sector n, stored where it belongs, is one more. *)
LEMMA StoredNext ==
    ASSUME NEW m, Volume(m), NEW s \in 0 .. 1, NEW c, c.lba \in Nat, NEW n \in Nat,
           c.lba + n < Capacity[s]
    PROVE  Put(Image(m, s, c, n), s, c.lba + n, c.data[n + 1]) = Image(m, s, c, n + 1)
  <1> DEFINE Row(k) == [x \in DOMAIN m[s] |-> IF x \in c.lba .. c.lba + k - 1
                                              THEN c.data[x - c.lba + 1] ELSE m[s][x]]
             im == Image(m, s, c, n)
  <1>1. Capacity[s] \in Nat
    BY AtaAssumption
  <1>2. /\ m = [d \in 0 .. 1 |-> m[d]]
        /\ DOMAIN m[s] = 0 .. Capacity[s] - 1
    BY <1>1 DEF Volume
  <1>3. \A k : Image(m, s, c, k) = [m EXCEPT ![s] = Row(k)]
    BY DEF Image
  <1>4. im[s] = Row(n) /\ im = [m EXCEPT ![s] = Row(n)]
    BY <1>2, <1>3
  <1>5. c.lba + n \in DOMAIN m[s]
    BY <1>1, <1>2
  <1>6. [Row(n) EXCEPT ![c.lba + n] = c.data[n + 1]] = Row(n + 1)
    <2>1. ASSUME NEW k \in DOMAIN m[s]
          PROVE  k \in c.lba .. c.lba + (n + 1) - 1 <=>
                    k = c.lba + n \/ k \in c.lba .. c.lba + n - 1
      <3> k \in Int
        BY <1>1, <1>2
      <3> DEFINE a == c.lba
      <3> a \in Nat
        OBVIOUS
      <3> HIDE DEF a
      <3>1. k \in a .. a + (n + 1) - 1 <=> k = a + n \/ k \in a .. a + n - 1
        BY OneMore
      <3> QED
        BY <3>1 DEF a
    <2>2. (c.lba + n) - c.lba + 1 = n + 1
      OBVIOUS
    <2> QED
      BY <1>5, <2>1, <2>2
  <1> HIDE DEF im
  <1>7. [im EXCEPT ![s] = [im[s] EXCEPT ![c.lba + n] = c.data[n + 1]]] = [m EXCEPT ![s] = Row(n + 1)]
    <2> HIDE DEF Row
    <2> QED
      BY <1>2, <1>4, <1>6
  <1> QED
    BY <1>3, <1>7 DEF im, Put

-----------------------------------------------------------------------------
(* Types *)

(* The states that AtaInit allows satisfy the invariant. *)
LEMMA AtaInitInv == AtaInit => AtaInv
  <1> SUFFICES ASSUME AtaInit PROVE AtaInv
    OBVIOUS
  <1>1. Volume(media) /\ Volume(before)
    BY AtaAssumption DEF AtaInit, Volume
  <1>2. /\ call = [op |-> "read", lba |-> 0, count |-> 0, data |-> <<>>]
        /\ call \in [op : {"read", "write"}, lba : Nat, count : Nat, data : Seq(Int)]
        /\ Len(call.data) = call.count
    BY DEF AtaInit
  <1>3. chan.state = "idle"
    BY DEF AtaInit
  <1>4. AtaTypeOK
    <2>1. kind \in [0 .. 1 -> {"ata", "atapi", "none", "float"}]
      BY AtaAssumption DEF AtaInit
    <2>2. chan \in [drive : 0 .. 1, state : {"idle", "busy", "drq", "err"},
                    cmd : {"none", "identify", "read", "write", "flush"}, at : Nat, left : Nat]
      BY DEF AtaInit
    <2>3. disk \in [present : BOOLEAN, slave : 0 .. 1, sectors : Nat] /\ ~disk.present
      BY DEF AtaInit
    <2>4. pc \in Transfer \cup {"probe", "spin", "ready", "wait_reset"}
      BY DEF AtaInit
    <2>5. i \in Nat /\ i \in 0 .. 1
      BY DEF AtaInit
    <2>6. ret \in BOOLEAN /\ stale \in BOOLEAN /\ fault \in BOOLEAN
      BY Zenon DEF AtaInit
    <2>7. ~DRQ
      BY <1>3 DEF DRQ
    <2> QED
      BY <1>1, <1>2, <2>1, <2>2, <2>3, <2>4, <2>5, <2>6, <2>7, Zenon DEF AtaTypeOK
  <1>5. Result
    BY DEF AtaInit, Result, ReadRight
  <1> QED
    BY <1>4, <1>5 DEF AtaInit, AtaInv, Transfer

(* The part of the type that an action leaves alone when it changes only the     *)
(* driver's place.                                                               *)
LEMMA TypeByPlace ==
    ASSUME AtaTypeOK, UNCHANGED <<kind, chan, media, disk, call, history>>,
           pc' \in Transfer \cup {"probe", "spin", "ready", "wait_reset"},
           i' \in Nat, pc' \in {"probe", "spin"} => i' \in 0 .. 1, ret' \in BOOLEAN
    PROVE  AtaTypeOK'
  BY DEF AtaTypeOK, history, Volume, DRQ

(* The same when the channel moves as well. *)
LEMMA TypeByChannel ==
    ASSUME AtaTypeOK, UNCHANGED <<kind, media, disk, call, before, fault>>,
           stale' \in BOOLEAN,
           chan' \in [drive : 0 .. 1, state : {"idle", "busy", "drq", "err"},
                      cmd : {"none", "identify", "read", "write", "flush"}, at : Nat, left : Nat],
           chan'.state = "drq" => chan'.left > 0 /\ chan'.at < Capacity[chan'.drive],
           pc' \in Transfer \cup {"probe", "spin", "ready", "wait_reset"},
           i' \in Nat, pc' \in {"probe", "spin"} => i' \in 0 .. 1, ret' \in BOOLEAN
    PROVE  AtaTypeOK'
  BY DEF AtaTypeOK, Volume, DRQ

(* A look at the status moves the driver along, and nothing else. *)
LEMMA TypePoll ==
    ASSUME AtaTypeOK, Waiting, pc \in Transfer, NEW ready, NEW p \in Transfer,
           \/ Poll(ready, To(p), Returns(FALSE))
           \/ Poll(ready, Advance, Advance)
    PROVE  AtaTypeOK'
  <1>1. UNCHANGED <<kind, chan, media, disk, call, history>>
    BY DEF Waiting
  <1>2. i \in Nat /\ ret \in BOOLEAN /\ i + 1 \in Nat
    BY DEF AtaTypeOK
  <1>3. pc' \in Transfer \cup {"ready"} /\ i' \in Nat /\ ret' \in BOOLEAN
    <2>1. CASE Poll(ready, To(p), Returns(FALSE))
      BY <1>2, <2>1, Zenon DEF Poll, To, Returns
    <2>2. CASE Poll(ready, Advance, Advance)
      BY <1>2, <2>2, Zenon DEF Poll, Advance, Returns, Transfer
    <2> QED
      BY <2>1, <2>2
  <1> QED
    BY <1>1, <1>3, TypeByPlace DEF Transfer

-----------------------------------------------------------------------------
(* Steps outside a transfer *)

(* A result stays what it was while nothing it speaks of changes. *)
LEMMA ResultKept ==
    ASSUME Result, UNCHANGED <<media, before, call, ret, stale, fault, disk>>
    PROVE  Result'
  BY DEF Result, Plain, ReadRight, WriteRight, Stored

(* The probe of ata_init. *)
LEMMA ProbeInv ==
    ASSUME AtaInv, Identify \/ Spin \/ Identified
    PROVE  AtaInv'
  <1>0. /\ AtaTypeOK /\ pc \in {"probe", "spin"} /\ pc \notin Transfer /\ i \in 0 .. 1
        /\ call.op = "read" /\ ~ret /\ Result
    BY DEF AtaInv, AtaTypeOK, Identify, Spin, Identified, Transfer
  <1>1. ASSUME NextProbe
        PROVE  pc' \in {"probe", "ready"} /\ i' \in 0 .. 1
    BY <1>0, <1>1 DEF NextProbe
  <1>2. CASE Identify
    <2>1. UNCHANGED <<kind, media, disk, call, ret, before, stale, fault>>
      BY <1>2 DEF Identify, history
    <2>2. pc' \in {"probe", "spin", "ready"} /\ i' \in 0 .. 1
      BY <1>0, <1>1, <1>2 DEF Identify
    <2>3. /\ chan' \in [drive : 0 .. 1, state : {"idle", "busy", "drq", "err"},
                      cmd : {"none", "identify", "read", "write", "flush"}, at : Nat, left : Nat]
          /\ chan'.state # "drq"
      BY <1>0, <1>2 DEF Identify, Started
    <2>4. AtaTypeOK'
      BY <1>0, <2>1, <2>2, <2>3, TypeByChannel DEF AtaTypeOK
    <2>5. Result'
      BY <1>0, <2>1, ResultKept
    <2> QED
      BY <1>0, <2>1, <2>2, <2>4, <2>5 DEF AtaInv, Transfer
  <1>3. CASE Spin
    BY <1>3 DEF Spin, ataVars, AtaInv, AtaTypeOK, Result, Volume, DRQ, BSY, InRange, AtSector,
                ReadSoFar, WrittenSoFar, Next1, Plain, ReadRight, WriteRight, Stored, history
  <1>4. CASE Identified
    <2>1. UNCHANGED <<kind, chan, media, call, ret, before, stale, fault>>
      BY <1>4 DEF Identified, history
    <2>2. pc' \in {"probe", "ready"} /\ i' \in 0 .. 1
      BY <1>1, <1>4 DEF Identified
    <2>3. /\ disk' \in [present : BOOLEAN, slave : 0 .. 1, sectors : Nat]
          /\ disk'.present => disk'.sectors = Capacity[disk'.slave]
      BY <1>0, <1>4, AtaAssumption DEF Identified, AtaTypeOK
    <2>4. AtaTypeOK'
      BY <1>0, <2>1, <2>2, <2>3 DEF AtaTypeOK, Volume, DRQ, Transfer
    <2>5. Result'
      BY <1>0, <2>1 DEF Result, Plain, ReadRight
    <2> QED
      BY <1>0, <2>1, <2>2, <2>4, <2>5 DEF AtaInv, Transfer
  <1> QED
    BY <1>2, <1>3, <1>4

(* ata_reset. *)
LEMMA ResetInv ==
    ASSUME AtaInv, Reset \/ WaitReset
    PROVE  AtaInv'
  <1>0. AtaTypeOK /\ pc \in {"ready", "wait_reset"} /\ pc \notin Transfer /\ Result
    BY DEF AtaInv, Reset, WaitReset, Transfer
  <1>1. UNCHANGED <<kind, media, disk, call, before, stale, fault, i, ret>>
    BY DEF Reset, WaitReset, Waiting, history, To, Poll
  <1>2. pc' \in {"ready", "wait_reset"}
    BY <1>0 DEF Reset, WaitReset, To, Poll
  <1>3. /\ chan' \in [drive : 0 .. 1, state : {"idle", "busy", "drq", "err"},
                    cmd : {"none", "identify", "read", "write", "flush"}, at : Nat, left : Nat]
        /\ chan'.state = "drq" => chan'.left > 0 /\ chan'.at < Capacity[chan'.drive]
    <2>1. CASE Reset
      BY <2>1 DEF Reset, Started
    <2>2. CASE WaitReset
      BY <1>0, <2>2 DEF WaitReset, Waiting, AtaTypeOK, DRQ
    <2> QED
      BY <2>1, <2>2
  <1>4. AtaTypeOK'
    BY <1>0, <1>1, <1>2, <1>3, TypeByChannel DEF AtaTypeOK
  <1>5. Result'
    BY <1>0, <1>1, ResultKept
  <1> QED
    BY <1>2, <1>4, <1>5 DEF AtaInv, Transfer

(* The drive. *)
LEMMA DriveInv ==
    ASSUME AtaInv, DriveReady
    PROVE  AtaInv'
  <1>0. AtaTypeOK
    BY DEF AtaInv
  <1>1. UNCHANGED <<kind, media, disk, pc, call, i, ret, before, stale, fault>>
    BY DEF DriveReady, history
  <1>2. PICK s \in {"idle", "drq", "err"} :
            /\ s = "drq" => chan.left > 0 /\ chan.at < Capacity[chan.drive]
            /\ chan' = [chan EXCEPT !.state = s]
    BY DEF DriveReady
  <1>3. /\ chan' \in [drive : 0 .. 1, state : {"idle", "busy", "drq", "err"},
                    cmd : {"none", "identify", "read", "write", "flush"}, at : Nat, left : Nat]
        /\ chan'.drive = chan.drive /\ chan'.at = chan.at /\ chan'.left = chan.left
        /\ chan'.state = s
    BY <1>0, <1>2 DEF AtaTypeOK
  <1>4. AtaTypeOK'
    BY <1>0, <1>1, <1>2, <1>3, TypeByChannel DEF AtaTypeOK
  <1>5. ASSUME pc \notin Transfer PROVE Result'
    BY <1>1, <1>5, ResultKept DEF AtaInv
  <1>6. ASSUME pc \in Transfer
        PROVE  InRange' /\ (Plain => AtSector' /\ ReadSoFar' /\ WrittenSoFar')
    <2>0. InRange /\ (Plain => AtSector /\ ReadSoFar /\ WrittenSoFar) /\ BSY
      BY <1>6 DEF AtaInv, DriveReady
    <2>1. pc # "data"
      BY <2>0 DEF InRange, BSY, DRQ
    <2>2. InRange'
      BY <1>1, <2>0, <2>1 DEF InRange, Plain
    <2>3. Plain => AtSector'
      BY <1>1, <1>3, <2>0 DEF AtSector, BSY, DRQ, Next1
    <2>4. Plain => ReadSoFar'
      BY <1>1, <2>0 DEF ReadSoFar
    <2>5. Plain => WrittenSoFar'
      BY <1>1, <1>3, <2>0 DEF WrittenSoFar, Next1, Stored, BSY
    <2> QED
      BY <2>2, <2>3, <2>4, <2>5
  <1>7. Plain' <=> Plain
    BY <1>1 DEF Plain
  <1> QED
    BY <1>1, <1>4, <1>5, <1>6, <1>7 DEF AtaInv

-----------------------------------------------------------------------------
(* Steps of a transfer *)

(* A number that is not too large is not changed by the wrapping of 32 bits, or  *)
(* by the address registers.                                                     *)
LEMMA SmallMod ==
    ASSUME NEW a \in Nat, NEW m \in Nat, a < m
    PROVE  a % m = a
  OBVIOUS

(* The checks at the head of ata_read_sectors and ata_write_sectors. *)
LEMMA CallInv ==
    ASSUME AtaInv, NEW op \in {"read", "write"}, NEW lba \in 0 .. Wrap - 1, NEW n \in Counts,
           NEW d \in Data, Call(op, lba, n, d)
    PROVE  AtaInv'
  <1>0. AtaTypeOK /\ n \in Nat /\ lba \in Nat /\ Wrap \in Nat
    BY AtaAssumption DEF AtaInv
  <1> DEFINE data == IF op = "write" THEN SubSeq(d, 1, n) ELSE [j \in 1 .. n |-> Junk]
  <1>1. data \in Seq(Int) /\ Len(data) = n
    <2>1. d \in Seq(Int) /\ n <= Len(d)
      BY AtaAssumption
    <2>2. SubSeq(d, 1, n) \in Seq(Int) /\ Len(SubSeq(d, 1, n)) = n
      BY <1>0, <2>1
    <2>3. [j \in 1 .. n |-> Junk] \in Seq(Int) /\ Len([j \in 1 .. n |-> Junk]) = n
      BY <1>0 DEF Junk
    <2> QED
      BY <2>2, <2>3
  <1>2. /\ call' = [op |-> op, lba |-> lba, count |-> n, data |-> data]
        /\ i' = 0 /\ before' = media /\ stale' = FALSE /\ fault' = FALSE
        /\ UNCHANGED <<kind, chan, media, disk>>
    BY DEF Call
  <1> HIDE DEF data
  <1>3. /\ call' \in [op : {"read", "write"}, lba : Nat, count : Nat, data : Seq(Int)]
        /\ Len(call'.data) = call'.count
        /\ call'.op = op /\ call'.lba = lba /\ call'.count = n
    BY <1>0, <1>1, <1>2
  <1>1a. Image(before', disk.slave', call', 0) = before'
    BY <1>0, <1>2, <1>3, StoredNone DEF AtaTypeOK
  <1>4. CASE ~disk.present \/ n = 0 \/ (lba + n) % Wrap > disk.sectors
    <2>1. ret' = FALSE /\ pc' = "ready"
      BY <1>4 DEF Call
    <2>2. AtaTypeOK'
      BY <1>0, <1>2, <1>3, <2>1 DEF AtaTypeOK, Volume, DRQ
    <2>3. Stored(0)' = before'
      BY <1>1a DEF Stored
    <2>4. Result'
      BY <1>0, <1>2, <1>3, <2>1, <2>3 DEF Result, ReadRight, WriteRight
    <2> QED
      BY <2>1, <2>2, <2>4 DEF AtaInv, Transfer
  <1>5. CASE disk.present /\ n # 0 /\ ~((lba + n) % Wrap > disk.sectors)
    <2>1. ret' = ret /\ pc' = "wait"
      BY <1>5 DEF Call
    <2>2. AtaTypeOK'
      BY <1>0, <1>2, <1>3, <2>1 DEF AtaTypeOK, Volume, DRQ, Transfer
    <2>3. Plain' => lba + n <= Capacity[disk.slave]
      <3>1. disk.sectors = Capacity[disk.slave] /\ disk.sectors \in Nat
        BY <1>0, <1>5 DEF AtaTypeOK
      <3>2. Plain' => lba + n < Wrap
        BY <1>3 DEF Plain
      <3>3. lba + n < Wrap => (lba + n) % Wrap = lba + n
        BY <1>0, SmallMod
      <3> QED
        BY <1>0, <1>5, <3>1, <3>2, <3>3
    <2>4. InRange'
      BY <1>0, <1>2, <1>3, <1>5, <2>1, <2>3 DEF InRange
    <2>5. Stored(0)' = before'
      BY <1>1a DEF Stored
    <2>6. AtSector' /\ ReadSoFar'
      BY <1>2, <2>1 DEF AtSector, ReadSoFar
    <2>7. WrittenSoFar'
      BY <1>2, <2>1, <2>5 DEF WrittenSoFar, Next1
    <2> QED
      BY <2>1, <2>2, <2>4, <2>6, <2>7 DEF AtaInv, Transfer
  <1> QED
    BY <1>4, <1>5

(* Another look at the status changes nothing that the invariant speaks of. *)
LEMMA AgainInv ==
    ASSUME AtaInv, UNCHANGED <<kind, chan, media, disk, pc, call, i, ret, history>>
    PROVE  AtaInv'
  BY DEF AtaInv, AtaTypeOK, Result, Volume, DRQ, BSY, InRange, AtSector, ReadSoFar,
         WrittenSoFar, Next1, Plain, ReadRight, WriteRight, Stored, history

(* A transfer that gives up has done a part of what was asked for. *)
LEMMA GiveUpInv ==
    ASSUME AtaInv, pc \in {"wait", "wait_drq"}, Returns(FALSE), Waiting
    PROVE  AtaInv'
  <1>0. /\ AtaTypeOK /\ InRange /\ (Plain => AtSector /\ ReadSoFar /\ WrittenSoFar)
        /\ i \in Nat /\ call.count \in Nat
    BY DEF AtaInv, Transfer, AtaTypeOK
  <1>1. /\ UNCHANGED <<kind, chan, media, disk, call, before, stale, fault, history, i>>
        /\ pc' = "ready" /\ ret' = FALSE
    BY DEF Returns, Waiting, history
  <1>2. AtaTypeOK'
    BY <1>0, <1>1, TypeByPlace
  <1>3. Result'
    <2> SUFFICES ASSUME Plain PROVE IF call.op = "read" THEN ReadRight' ELSE WriteRight'
      BY <1>1 DEF Result, Plain
    <2>1. CASE call.op = "read"
      BY <1>0, <1>1, <2>1 DEF InRange, ReadRight
    <2>2. CASE call.op = "write"
      <3>1. Next1 = i
        BY DEF Next1
      <3>2. \E k \in 0 .. call.count : media = Stored(k)
        <4>1. i \in 0 .. call.count /\ (i > 0 => i - 1 \in 0 .. call.count)
          BY <1>0 DEF InRange
        <4>2. media = Stored(i) \/ (i > 0 /\ media = Stored(i - 1))
          BY <1>0, <2>2, <3>1 DEF WrittenSoFar, InRange
        <4> QED
          BY <4>1, <4>2
      <3> QED
        BY <1>1, <2>2, <3>2 DEF WriteRight, Stored
    <2> QED
      BY <1>0, <2>1, <2>2 DEF AtaTypeOK
  <1> QED
    BY <1>1, <1>2, <1>3 DEF AtaInv, Transfer

(* The wait before the command. *)
LEMMA WaitInv ==
    ASSUME AtaInv, Wait
    PROVE  AtaInv'
  <1>0. /\ AtaTypeOK /\ InRange /\ (Plain => AtSector /\ ReadSoFar /\ WrittenSoFar)
        /\ pc = "wait" /\ Waiting
    BY DEF AtaInv, Transfer, Wait
  <1>1. UNCHANGED <<kind, chan, media, disk, call, before, stale, fault, history>>
    BY <1>0 DEF Waiting, history
  <1>2. CASE To("command")
    <2>1. pc' = "command" /\ i' = i /\ ret' = ret
      BY <1>2 DEF To
    <2>2. AtaTypeOK'
      BY <1>0, <1>1, <2>1, TypeByPlace DEF AtaTypeOK, Transfer
    <2>3. InRange'
      BY <1>0, <1>1, <2>1 DEF InRange, Plain
    <2>4. Plain => AtSector' /\ ReadSoFar'
      BY <1>0, <1>1, <2>1 DEF AtSector, ReadSoFar
    <2>5. Plain => WrittenSoFar'
      BY <1>0, <1>1, <2>1 DEF WrittenSoFar, Next1, Stored, InRange
    <2> QED
      BY <1>1, <2>1, <2>2, <2>3, <2>4, <2>5 DEF AtaInv, Transfer, Plain
  <1>3. CASE Returns(FALSE)
    BY <1>0, <1>3, GiveUpInv
  <1>4. CASE UNCHANGED <<pc, i, ret>>
    BY <1>1, <1>4, AgainInv
  <1> QED
    BY <1>2, <1>3, <1>4, Zenon DEF Wait, Poll

(* The command. Where it is taken, the drive begins at the first sector. *)
LEMMA CommandInv ==
    ASSUME AtaInv, Command
    PROVE  AtaInv'
  <1>0. /\ AtaTypeOK /\ InRange /\ (Plain => AtSector /\ ReadSoFar /\ WrittenSoFar)
        /\ pc = "command" /\ ~stale /\ i = 0 /\ media = before /\ ~fault
    BY DEF AtaInv, Transfer, Command, InRange
  <1>1. /\ UNCHANGED <<kind, media, disk, call, before, fault, i, ret>>
        /\ pc' = "wait_drq" /\ stale' = DRQ
    BY DEF Command, To
  <1>2. /\ disk.slave \in 0 .. 1 /\ call.op \in {"read", "write"}
        /\ call.lba \in Nat /\ call.count \in Nat
        /\ Addresses \in Nat /\ Addresses > 0 /\ Capacity[disk.slave] \in Nat
        /\ Capacity[disk.slave] < Addresses
    BY <1>0, AtaAssumption DEF AtaTypeOK
  <1>3. call.lba % Addresses \in Nat
    BY <1>2
  <1> DEFINE new == Started(disk.slave, call.op, call.lba % Addresses, call.count)
  <1>4. /\ new \in [drive : 0 .. 1, state : {"idle", "busy", "drq", "err"},
                     cmd : {"none", "identify", "read", "write", "flush"}, at : Nat, left : Nat]
        /\ new.state = "busy" /\ new.drive = disk.slave /\ new.at = call.lba % Addresses
    BY <1>2, <1>3 DEF Started
  <1>5. chan' = new \/ (DRQ /\ chan' = chan)
    BY DEF Command
  <1> HIDE DEF new
  <1>6. AtaTypeOK'
    BY <1>0, <1>1, <1>4, <1>5, TypeByChannel DEF AtaTypeOK, DRQ, Transfer
  <1>7. InRange'
    BY <1>0, <1>1 DEF InRange, Plain
  <1>8. ASSUME Plain' PROVE AtSector' /\ ReadSoFar' /\ WrittenSoFar'
    <2>1. Plain /\ ~DRQ
      BY <1>0, <1>1, <1>8 DEF Plain
    <2>2. call.lba + call.count <= Capacity[disk.slave]
      BY <1>0, <2>1 DEF InRange
    <2>3. call.lba % Addresses = call.lba
      BY <1>2, <2>2, SmallMod
    <2>4. AtSector'
      BY <1>0, <1>1, <1>2, <1>4, <1>5, <2>1, <2>3 DEF AtSector, Next1
    <2>5. ReadSoFar'
      BY <1>0, <1>1 DEF ReadSoFar
    <2>6. WrittenSoFar'
      BY <1>0, <1>1, <2>1 DEF WrittenSoFar, Next1, Stored
    <2> QED
      BY <2>4, <2>5, <2>6
  <1> QED
    BY <1>1, <1>6, <1>7, <1>8 DEF AtaInv, Transfer

(* The wait for the drive to ask for a sector, or to have one. *)
LEMMA WaitDrqInv ==
    ASSUME AtaInv, WaitDrq
    PROVE  AtaInv'
  <1>0. /\ AtaTypeOK /\ InRange /\ (Plain => AtSector /\ ReadSoFar /\ WrittenSoFar)
        /\ pc = "wait_drq" /\ Waiting
    BY DEF AtaInv, Transfer, WaitDrq
  <1>1. UNCHANGED <<kind, chan, media, disk, call, before, stale, fault, history>>
    BY <1>0 DEF Waiting, history
  <1>2. CASE DRQ /\ To("data")
    <2>1. pc' = "data" /\ i' = i /\ ret' = ret
      BY <1>2 DEF To
    <2>2. AtaTypeOK'
      BY <1>0, <1>1, <2>1, TypeByPlace DEF AtaTypeOK, Transfer
    <2>3. InRange'
      BY <1>0, <1>1, <1>2, <2>1 DEF InRange, Plain, DRQ
    <2>4. Plain => AtSector' /\ ReadSoFar'
      BY <1>0, <1>1, <2>1 DEF AtSector, ReadSoFar, Next1, BSY, DRQ
    <2>5. Plain => WrittenSoFar'
      <3>1. Plain /\ call.op = "write" => ~fault
        BY <1>0, <1>2 DEF WrittenSoFar, AtaTypeOK
      <3> QED
        BY <1>0, <1>1, <2>1, <3>1 DEF WrittenSoFar, Next1, Stored
    <2> QED
      BY <1>1, <2>1, <2>2, <2>3, <2>4, <2>5 DEF AtaInv, Transfer, Plain
  <1>3. CASE Returns(FALSE)
    BY <1>0, <1>3, GiveUpInv
  <1>4. CASE UNCHANGED <<pc, i, ret>>
    BY <1>1, <1>4, AgainInv
  <1> QED
    BY <1>2, <1>3, <1>4, Zenon DEF WaitDrq, Poll

(* The channel after a sector has passed the data register. *)
LEMMA PassedChannel ==
    ASSUME AtaTypeOK, DRQ
    PROVE  /\ Passed \in [drive : 0 .. 1, state : {"idle", "busy", "drq", "err"},
                          cmd : {"none", "identify", "read", "write", "flush"}, at : Nat, left : Nat]
           /\ Passed.drive = chan.drive /\ Passed.at = chan.at + 1
           /\ Passed.left = chan.left - 1 /\ Passed.state \in {"idle", "busy"}
  <1>1. /\ chan \in [drive : 0 .. 1, state : {"idle", "busy", "drq", "err"},
                     cmd : {"none", "identify", "read", "write", "flush"}, at : Nat, left : Nat]
        /\ chan.left > 0
    BY DEF AtaTypeOK
  <1>2. chan.at + 1 \in Nat /\ chan.left - 1 \in Nat
    BY <1>1
  <1> QED
    BY <1>1, <1>2 DEF Passed

(* While a transfer is at its data, its drive is at the sector it is about. *)
LEMMA DataSector ==
    ASSUME AtaInv, pc = "data"
    PROVE  /\ AtaTypeOK /\ InRange /\ DRQ /\ (Plain => ReadSoFar /\ WrittenSoFar)
           /\ i \in Nat /\ call.count \in Nat /\ call.lba \in Nat /\ i < call.count
           /\ chan.drive \in 0 .. 1 /\ chan.at \in Nat /\ chan.at < Capacity[chan.drive]
           /\ Capacity[chan.drive] \in Nat
           /\ i + 1 \in 1 .. Len(call.data)
           /\ Plain => chan.drive = disk.slave /\ chan.at = call.lba + i
           /\ Plain /\ call.op = "write" => ~fault
  <1>1. /\ AtaTypeOK /\ InRange /\ DRQ
        /\ Plain => AtSector /\ ReadSoFar /\ WrittenSoFar
    BY DEF AtaInv, Transfer, InRange
  <1>2. /\ i \in Nat /\ call.count \in Nat /\ call.lba \in Nat /\ i < call.count
        /\ Len(call.data) = call.count
        /\ chan.drive \in 0 .. 1 /\ chan.at \in Nat
        /\ chan.at < Capacity[chan.drive] /\ chan.left > 0 /\ chan.left \in Nat
        /\ Capacity[chan.drive] \in Nat
    BY <1>1, AtaAssumption DEF AtaTypeOK, InRange
  <1>3. Plain => chan.drive = disk.slave /\ chan.at = call.lba + i
    BY <1>1, <1>2 DEF AtSector, Next1
  <1>4. Plain /\ call.op = "write" => ~fault
    BY <1>1, <1>2 DEF WrittenSoFar
  <1>5. i + 1 \in 1 .. Len(call.data)
    BY <1>2
  <1> QED
    BY <1>1, <1>2, <1>3, <1>4, <1>5

(* A sector is read: the next one of those that were asked for. *)
LEMMA ReadDataInv ==
    ASSUME AtaInv, ReadData
    PROVE  AtaInv'
  <1>0. /\ AtaTypeOK /\ InRange /\ DRQ /\ (Plain => ReadSoFar)
        /\ pc = "data" /\ call.op = "read"
        /\ i \in Nat /\ call.count \in Nat /\ call.lba \in Nat /\ i < call.count
        /\ chan.drive \in 0 .. 1 /\ chan.at \in Nat /\ chan.at < Capacity[chan.drive]
        /\ Capacity[chan.drive] \in Nat /\ i + 1 \in 1 .. Len(call.data)
        /\ Plain => chan.drive = disk.slave /\ chan.at = call.lba + i
    BY DataSector DEF ReadData
  <1> DEFINE word == media[chan.drive][chan.at]
  <1>1. /\ UNCHANGED <<kind, media, disk, before, stale, fault>>
        /\ call' = [call EXCEPT !.data[i + 1] = word]
        /\ chan' = Passed /\ Advance
    BY <1>0 DEF ReadData, history
  <1>2. word \in Int
    BY <1>0 DEF AtaTypeOK, Volume
  <1> HIDE DEF word
  <1>3. /\ call' \in [op : {"read", "write"}, lba : Nat, count : Nat, data : Seq(Int)]
        /\ Len(call'.data) = call'.count
        /\ call'.op = "read" /\ call'.lba = call.lba /\ call'.count = call.count
        /\ call'.data = [call.data EXCEPT ![i + 1] = word]
    <2>1. /\ call \in [op : {"read", "write"}, lba : Nat, count : Nat, data : Seq(Int)]
          /\ Len(call.data) = call.count
      BY <1>0 DEF AtaTypeOK
    <2>2. /\ [call.data EXCEPT ![i + 1] = word] \in Seq(Int)
          /\ Len([call.data EXCEPT ![i + 1] = word]) = Len(call.data)
      BY <1>0, <1>2, <2>1
    <2> QED
      BY <1>0, <1>1, <2>1, <2>2
  <1>4. /\ chan' \in [drive : 0 .. 1, state : {"idle", "busy", "drq", "err"},
                      cmd : {"none", "identify", "read", "write", "flush"}, at : Nat, left : Nat]
        /\ chan'.drive = chan.drive /\ chan'.at = chan.at + 1 /\ ~DRQ'
    BY <1>0, <1>1, PassedChannel DEF DRQ
  <1>5. Plain => \A j \in 1 .. i + 1 : call'.data[j] = media'[disk'.slave][call'.lba + j - 1]
    <2> SUFFICES ASSUME Plain, NEW j \in 1 .. i + 1
                 PROVE  call'.data[j] = media[disk.slave][call.lba + j - 1]
      BY <1>1, <1>3
    <2>1. call.data \in Seq(Int)
      BY <1>0 DEF AtaTypeOK
    <2>2. CASE j = i + 1
      <3>1. call.lba + j - 1 = call.lba + i
        BY <1>0, <2>2
      <3>2. call'.data[j] = word
        BY <1>0, <1>3, <2>1, <2>2
      <3> QED
        BY <1>0, <3>1, <3>2 DEF word
    <2>3. CASE j # i + 1
      <3>1. j \in 1 .. i /\ j \in 1 .. Len(call.data)
        BY <1>0, <2>3
      <3>2. call'.data[j] = call.data[j]
        BY <1>3, <2>1, <2>3, <3>1
      <3> QED
        BY <1>0, <3>1, <3>2 DEF ReadSoFar
    <2> QED
      BY <2>2, <2>3
  <1>6. Plain' <=> Plain
    BY <1>1, <1>3 DEF Plain
  <1>7. CASE i + 1 < call.count
    <2>1. pc' = "wait_drq" /\ i' = i + 1 /\ ret' = ret /\ i' \in Nat
      BY <1>0, <1>1, <1>7 DEF Advance
    <2>2. AtaTypeOK'
      BY <1>0, <1>1, <1>3, <1>4, <2>1 DEF AtaTypeOK, Volume, Transfer
    <2>3. InRange'
      BY <1>0, <1>1, <1>3, <1>6, <1>7, <2>1 DEF InRange
    <2>4. Plain => AtSector'
      <3>1. Plain => chan'.drive = disk.slave /\ chan'.at = call.lba + (i + 1)
        BY <1>0, <1>4
      <3> QED
        BY <1>1, <1>3, <2>1, <3>1 DEF AtSector, Next1
    <2>5. Plain => ReadSoFar'
      BY <1>5, <2>1 DEF ReadSoFar
    <2>6. WrittenSoFar'
      BY <1>3 DEF WrittenSoFar
    <2> QED
      BY <1>6, <2>1, <2>2, <2>3, <2>4, <2>5, <2>6 DEF AtaInv, Transfer
  <1>8. CASE ~(i + 1 < call.count)
    <2>1. pc' = "ready" /\ i' = i /\ ret' = TRUE /\ i + 1 = call.count
      BY <1>0, <1>1, <1>8 DEF Advance, Returns
    <2>2. AtaTypeOK'
      BY <1>0, <1>1, <1>3, <1>4, <2>1 DEF AtaTypeOK, Volume, Transfer
    <2>3. Plain => ReadRight'
      BY <1>0, <1>1, <1>3, <1>5, <2>1 DEF ReadRight, InRange
    <2>4. Result'
      BY <1>3, <1>6, <2>3 DEF Result
    <2> QED
      BY <2>1, <2>2, <2>4 DEF AtaInv, Transfer
  <1> QED
    BY <1>7, <1>8

(* A sector is written: the drive stores it where it belongs, or fails. *)
LEMMA WriteDataInv ==
    ASSUME AtaInv, WriteData
    PROVE  AtaInv'
  <1>0. /\ AtaTypeOK /\ InRange /\ DRQ /\ (Plain => WrittenSoFar)
        /\ pc = "data" /\ call.op = "write"
        /\ i \in Nat /\ call.count \in Nat /\ call.lba \in Nat /\ i < call.count
        /\ chan.drive \in 0 .. 1 /\ chan.at \in Nat /\ chan.at < Capacity[chan.drive]
        /\ Capacity[chan.drive] \in Nat /\ i + 1 \in 1 .. Len(call.data)
        /\ Plain => chan.drive = disk.slave /\ chan.at = call.lba + i
        /\ Plain => ~fault
    BY DataSector DEF WriteData
  <1>1. /\ UNCHANGED <<kind, disk, call, before, stale, i, ret>>
        /\ pc' = "flush"
    BY DEF WriteData, To
  <1> DEFINE word == call.data[i + 1]
  <1>2. word \in Int
    BY <1>0 DEF AtaTypeOK
  <1> HIDE DEF word
  <1>3. Plain' <=> Plain
    BY <1>1 DEF Plain
  <1>4. InRange'
    BY <1>0, <1>1, <1>3 DEF InRange
  <1>5. CASE chan' = Passed /\ media' = [media EXCEPT ![chan.drive][chan.at] = word] /\ fault' = fault
    <2>1. /\ chan' \in [drive : 0 .. 1, state : {"idle", "busy", "drq", "err"},
                      cmd : {"none", "identify", "read", "write", "flush"}, at : Nat, left : Nat]
          /\ chan'.drive = chan.drive /\ chan'.at = chan.at + 1 /\ ~DRQ'
      BY <1>0, <1>5, PassedChannel DEF DRQ
    <2>2. Volume(media')
      <3>1. /\ media = [d \in 0 .. 1 |-> media[d]]
            /\ \A d \in 0 .. 1 : media[d] \in [0 .. Capacity[d] - 1 -> Int]
        BY <1>0 DEF AtaTypeOK, Volume
      <3>2. media' = [d \in 0 .. 1 |-> IF d = chan.drive THEN [media[d] EXCEPT ![chan.at] = word]
                                                        ELSE media[d]]
        BY <1>5, <3>1
      <3>3. ASSUME NEW d \in 0 .. 1
            PROVE  [media[d] EXCEPT ![chan.at] = word] \in [0 .. Capacity[d] - 1 -> Int]
        BY <1>2, <3>1
      <3> QED
        BY <3>1, <3>2, <3>3 DEF Volume
    <2>3. AtaTypeOK'
      BY <1>0, <1>1, <1>5, <2>1, <2>2 DEF AtaTypeOK, Volume, Transfer
    <2>4. Plain => AtSector'
      <3>1. Plain => chan'.drive = disk.slave /\ chan'.at = call.lba + (i + 1)
        BY <1>0, <2>1
      <3> QED
        BY <1>1, <3>1 DEF AtSector, Next1
    <2>5. Plain => media' = Image(before, disk.slave, call, i + 1)
      <3> SUFFICES ASSUME Plain PROVE media' = Image(before, disk.slave, call, i + 1)
        OBVIOUS
      <3>1. media = Image(before, disk.slave, call, i)
        BY <1>0 DEF WrittenSoFar, Next1, Stored
      <3>2. call.lba + i < Capacity[disk.slave]
        BY <1>0
      <3>3. Volume(before) /\ disk.slave \in 0 .. 1
        BY <1>0 DEF AtaTypeOK
      <3>4. Put(Image(before, disk.slave, call, i), disk.slave, call.lba + i, word)
               = Image(before, disk.slave, call, i + 1)
        BY <1>0, <3>2, <3>3, StoredNext DEF word
      <3>5. media' = Put(media, disk.slave, call.lba + i, word)
        BY <1>0, <1>5 DEF Put
      <3> QED
        BY <3>1, <3>4, <3>5
    <2>6. Plain => WrittenSoFar'
      BY <1>0, <1>1, <1>5, <2>5 DEF WrittenSoFar, Next1, Stored
    <2> QED
      BY <1>0, <1>1, <1>3, <1>4, <2>3, <2>4, <2>6 DEF AtaInv, Transfer, ReadSoFar
  <1>6. CASE chan' = [chan EXCEPT !.state = "err"] /\ media' = media /\ fault' = TRUE
    <2>1. /\ chan' \in [drive : 0 .. 1, state : {"idle", "busy", "drq", "err"},
                      cmd : {"none", "identify", "read", "write", "flush"}, at : Nat, left : Nat]
          /\ chan'.state = "err" /\ ~DRQ' /\ ~BSY'
      BY <1>0, <1>6 DEF AtaTypeOK, DRQ, BSY
    <2>2. AtaTypeOK'
      BY <1>0, <1>1, <1>6, <2>1 DEF AtaTypeOK, Volume, Transfer
    <2>3. AtSector'
      BY <2>1 DEF AtSector
    <2>4. Plain => WrittenSoFar'
      BY <1>0, <1>1, <1>6, <2>1 DEF WrittenSoFar, Next1, Stored
    <2> QED
      BY <1>0, <1>1, <1>3, <1>4, <2>2, <2>3, <2>4 DEF AtaInv, Transfer, ReadSoFar
  <1> QED
    <2>1. PICK ok \in BOOLEAN :
            /\ chan' = IF ~DRQ THEN chan
                       ELSE IF ok THEN Passed ELSE [chan EXCEPT !.state = "err"]
            /\ media' = IF DRQ /\ ok
                        THEN [media EXCEPT ![chan.drive][chan.at] = call.data[i + 1]]
                        ELSE media
            /\ fault' = (fault \/ (DRQ /\ ~ok))
      BY DEF WriteData
    <2>2. CASE ok
      <3>1. fault' = fault
        BY <1>0, <2>1, <2>2 DEF AtaTypeOK
      <3> QED
        BY <1>0, <1>5, <2>1, <2>2, <3>1 DEF word
    <2>3. CASE ~ok
      BY <1>0, <1>6, <2>1, <2>3
    <2> QED
      BY <2>2, <2>3

(* The flush: a drive that takes it has no more sectors to ask for, and one that  *)
(* has failed takes it.                                                          *)
LEMMA FlushInv ==
    ASSUME AtaInv, Flush
    PROVE  AtaInv'
  <1>0. /\ AtaTypeOK /\ InRange /\ (Plain => AtSector /\ ReadSoFar /\ WrittenSoFar)
        /\ pc = "flush"
    BY DEF AtaInv, Transfer, Flush
  <1>1. /\ UNCHANGED <<kind, media, disk, call, before, stale, fault, i, ret>>
        /\ pc' = "wait_flush"
    BY DEF Flush, To, history
  <1> DEFINE new == Started(chan.drive, "flush", chan.at, 0)
  <1>2. /\ new \in [drive : 0 .. 1, state : {"idle", "busy", "drq", "err"},
                     cmd : {"none", "identify", "read", "write", "flush"}, at : Nat, left : Nat]
        /\ new.state = "busy" /\ new.left = 0
    BY <1>0 DEF Started, AtaTypeOK
  <1>3. chan' = new \/ ((BSY \/ DRQ) /\ chan' = chan)
    BY DEF Flush
  <1> HIDE DEF new
  <1>4. AtaTypeOK'
    BY <1>0, <1>1, <1>2, <1>3, TypeByChannel DEF AtaTypeOK, DRQ, Transfer
  <1>5. Plain' <=> Plain
    BY <1>1 DEF Plain
  <1>6. InRange'
    BY <1>0, <1>1, <1>5 DEF InRange
  <1>7. Plain => AtSector'
    BY <1>0, <1>1, <1>2, <1>3 DEF AtSector, Next1, BSY, DRQ
  <1>8. Plain => ReadSoFar'
    BY <1>0, <1>1 DEF ReadSoFar
  <1>9. Plain => WrittenSoFar'
    <2>1. Plain /\ call.op = "write" /\ fault => chan'.left = 0
      BY <1>0, <1>2, <1>3 DEF WrittenSoFar, BSY, DRQ
    <2> QED
      BY <1>0, <1>1, <2>1 DEF WrittenSoFar, Next1, Stored
  <1> QED
    BY <1>1, <1>4, <1>5, <1>6, <1>7, <1>8, <1>9 DEF AtaInv, Transfer

(* The wait for the flush, which goes on to the next sector however it ends. *)
LEMMA WaitFlushInv ==
    ASSUME AtaInv, WaitFlush
    PROVE  AtaInv'
  <1>0. /\ AtaTypeOK /\ InRange /\ (Plain => AtSector /\ ReadSoFar /\ WrittenSoFar)
        /\ pc = "wait_flush" /\ Waiting
        /\ i \in Nat /\ call.count \in Nat /\ i < call.count
        /\ call.op = "write"
    BY DEF AtaInv, Transfer, WaitFlush, InRange, AtaTypeOK
  <1>1. UNCHANGED <<kind, chan, media, disk, call, before, stale, fault, history>>
    BY <1>0 DEF Waiting, history
  <1>2. Plain' <=> Plain
    BY <1>1 DEF Plain
  <1>3. Plain => media = Stored(i + 1) \/ (fault /\ media = Stored(i))
    BY <1>0 DEF WrittenSoFar, Next1
  <1>4. CASE Advance /\ i + 1 < call.count
    <2>1. pc' = "wait_drq" /\ i' = i + 1 /\ ret' = ret /\ i' \in Nat /\ i' - 1 = i /\ i' > 0
      BY <1>0, <1>4 DEF Advance
    <2>2. AtaTypeOK'
      BY <1>0, <1>1, <2>1, TypeByPlace DEF AtaTypeOK, Transfer
    <2>3. InRange'
      BY <1>0, <1>1, <1>2, <1>4, <2>1 DEF InRange
    <2>4. Plain => AtSector'
      BY <1>0, <1>1, <2>1 DEF AtSector, Next1, BSY, DRQ
    <2>5. Plain => WrittenSoFar'
      BY <1>0, <1>1, <2>1 DEF WrittenSoFar, Next1, Stored
    <2> QED
      BY <1>0, <1>1, <1>2, <2>1, <2>2, <2>3, <2>4, <2>5 DEF AtaInv, Transfer, ReadSoFar
  <1>5. CASE Advance /\ ~(i + 1 < call.count)
    <2>1. pc' = "ready" /\ ret' = TRUE /\ i' = i
      BY <1>5 DEF Advance, Returns
    <2>2. i + 1 = call.count /\ i = call.count - 1
      BY <1>0, <1>5
    <2>3. AtaTypeOK'
      BY <1>0, <1>1, <2>1, TypeByPlace DEF AtaTypeOK
    <2>4. Plain => WriteRight'
      <3>1. i + 1 \in 0 .. call.count /\ i \in 0 .. call.count
        BY <1>0, <2>2
      <3> QED
        BY <1>1, <1>3, <2>1, <2>2, <3>1 DEF WriteRight, Stored
    <2>5. Result'
      BY <1>0, <1>1, <1>2, <2>4 DEF Result
    <2> QED
      BY <2>1, <2>3, <2>5 DEF AtaInv, Transfer
  <1>6. CASE UNCHANGED <<pc, i, ret>>
    BY <1>1, <1>6, AgainInv
  <1> QED
    BY <1>4, <1>5, <1>6, Zenon DEF WaitFlush, Poll

-----------------------------------------------------------------------------

(* Every step of the driver, of the drive and of the callers keeps the invariant. *)
LEMMA AtaNextInv == AtaInv /\ [AtaNext]_ataVars => AtaInv'
  <1> SUFFICES ASSUME AtaInv, [AtaNext]_ataVars PROVE AtaInv'
    OBVIOUS
  <1>1. CASE UNCHANGED ataVars
    BY <1>1, AgainInv DEF ataVars, history
  <1>2. CASE Identify \/ Spin \/ Identified
    BY <1>2, ProbeInv
  <1>3. CASE Wait
    BY <1>3, WaitInv
  <1>4. CASE Command
    BY <1>4, CommandInv
  <1>5. CASE WaitDrq
    BY <1>5, WaitDrqInv
  <1>6. CASE ReadData
    BY <1>6, ReadDataInv
  <1>7. CASE WriteData
    BY <1>7, WriteDataInv
  <1>8. CASE Flush
    BY <1>8, FlushInv
  <1>9. CASE WaitFlush
    BY <1>9, WaitFlushInv
  <1>10. CASE Reset \/ WaitReset
    BY <1>10, ResetInv
  <1>11. CASE DriveReady
    BY <1>11, DriveInv
  <1>12. ASSUME NEW lba \in 0 .. Wrap - 1, NEW n \in Counts, NEW d \in Data,
                NEW op \in {"read", "write"}, Call(op, lba, n, d)
         PROVE  AtaInv'
    BY <1>12, CallInv
  <1> QED
    BY <1>1, <1>2, <1>3, <1>4, <1>5, <1>6, <1>7, <1>8, <1>9, <1>10, <1>11, <1>12
       DEF AtaNext, Driver

(* A transfer that ata_read_sectors or ata_write_sectors reports as done is done,  *)
(* and one they give up is done in part, for drives of every size, whatever they   *)
(* answer and however late.                                                       *)
THEOREM TransfersAlwaysRight == AtaSpec => []TransfersRight
  <1>1. AtaInv => TransfersRight
    BY DEF AtaInv, TransfersRight, Returned, Result, Transfer
  <1> QED
    BY <1>1, AtaInitInv, AtaNextInv, PTL DEF AtaSpec
=============================================================================
