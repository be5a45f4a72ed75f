-------------------------------- MODULE Ata ---------------------------------
(* ata.c: the PIO driver and the drive it talks to.  The driver polls, sends *)
(* a command and moves a sector word by word while the drive, in its own     *)
(* time, raises and drops BSY and DRQ.  The drive is modelled as far as the  *)
(* driver relies on it; it may fail any command.                             *)
EXTENDS Integers, Sequences

CONSTANTS Words,       \* what a word of the disk can hold
          SectorWords, \* 256
          LbaSpan,     \* 2^28: what the four address registers hold
          DiskSize,    \* sectors of the disk
          Lbas         \* the sector numbers callers give

ASSUME AtaAssumption == /\ SectorWords \in Nat \ {0} /\ LbaSpan \in Nat \ {0}
                        /\ DiskSize \in 1..LbaSpan /\ Lbas \subseteq 0..(LbaSpan - 1)

Sector == [1..SectorWords -> Words]
Operations == {"read", "write"}

VARIABLES pc,    \* where the call stands, "idle" between calls
          req,   \* the call: operation, sector number, the caller's buffer
          moved, \* words moved by the loop of the call
          ret,   \* what the last call returned, 0 before the first
          dev,   \* the drive: status bits, command, address, words of the transfer
          disk

vars == <<pc, req, moved, ret, dev, disk>>

TypeOK == /\ pc \in {"idle", "ready", "done", "status", "transfer", "settle"}
          /\ req \in [op : Operations \cup {"none"}, lba : Lbas, buf : Seq(Words)]
          /\ Len(req.buf) <= SectorWords
          /\ moved \in 0..SectorWords
          /\ ret \in {-1, 0, 1}
          /\ dev \in [bsy : BOOLEAN, drq : BOOLEAN, err : BOOLEAN,
                      cmd : Operations \cup {"none"}, lba : 0..(LbaSpan - 1),
                      words : Seq(Words)]
          /\ Len(dev.words) <= SectorWords
          /\ disk \in [0..(DiskSize - 1) -> Sector]

Idle == [bsy |-> FALSE, drq |-> FALSE, err |-> FALSE, cmd |-> "none", lba |-> 0,
         words |-> <<>>]

\* The drive may still be busy with its power-on test.
Init == /\ pc = "idle" /\ req \in [op : {"none"}, lba : Lbas, buf : {<<>>}]
        /\ moved = 0 /\ ret = 0
        /\ dev \in {Idle, [Idle EXCEPT !.bsy = TRUE]}
        /\ disk \in [0..(DiskSize - 1) -> Sector]
-----------------------------------------------------------------------------
\* ata_read_sector and ata_write_sector are entered.
Call(op, lba, buf) ==
  /\ pc = "idle"
  /\ pc' = "ready"
  /\ req' = [op |-> op, lba |-> lba, buf |-> buf]
  /\ moved' = 0
  /\ UNCHANGED <<ret, dev, disk>>

\* Slip: the middle and high address registers get the bits of the next sector.
SendCommandNext ==
  /\ pc = "ready" /\ ~dev.bsy
  /\ pc' = "done"
  /\ dev' = [Idle EXCEPT !.bsy = TRUE, !.cmd = req.op, !.lba = (req.lba + 1) % LbaSpan]
  /\ UNCHANGED <<req, moved, ret, disk>>

\* Once BSY drops, the address and the command are written; the command raises BSY.
SendCommand ==
  /\ pc = "ready" /\ ~dev.bsy
  /\ pc' = "done"
  /\ dev' = [Idle EXCEPT !.bsy = TRUE, !.cmd = req.op, !.lba = req.lba % LbaSpan]
  /\ UNCHANGED <<req, moved, ret, disk>>

\* The second polling loop ends.
SeeDone ==
  /\ pc = "done" /\ ~dev.bsy
  /\ pc' = "status"
  /\ UNCHANGED <<req, moved, ret, dev, disk>>

\* Slip: the status is not looked at.
CheckStatusNot ==
  /\ pc = "status"
  /\ pc' = "transfer"
  /\ UNCHANGED <<req, moved, ret, dev, disk>>

\* Without DRQ the call fails.
CheckStatus ==
  /\ pc = "status"
  /\ IF dev.drq THEN pc' = "transfer" /\ UNCHANGED ret ELSE pc' = "idle" /\ ret' = -1
  /\ UNCHANGED <<req, moved, dev, disk>>

\* Slip: the read loop is one word long.
ReadWordLong(w) ==
  /\ pc = "transfer" /\ req.op = "read"
  /\ dev.drq /\ dev.words # <<>> => w = Head(dev.words)
  /\ req' = [req EXCEPT !.buf = Append(@, w)]
  /\ moved' = moved + 1
  /\ IF moved' > SectorWords THEN pc' = "idle" /\ ret' = 1 ELSE UNCHANGED <<pc, ret>>
  /\ dev' = IF Len(dev.words) > 1 THEN [dev EXCEPT !.words = Tail(@)]
            ELSE [dev EXCEPT !.words = <<>>, !.drq = FALSE, !.cmd = "none"]
  /\ UNCHANGED disk

\* One turn of the read loop: the data port gives the drive's next word, or anything
\* at all if the drive has none to give.
ReadWord(w) ==
  /\ pc = "transfer" /\ req.op = "read"
  /\ dev.drq /\ dev.words # <<>> => w = Head(dev.words)
  /\ req' = [req EXCEPT !.buf = Append(@, w)]
  /\ moved' = moved + 1
  /\ IF moved' = SectorWords THEN pc' = "idle" /\ ret' = 1 ELSE UNCHANGED <<pc, ret>>
  /\ dev' = IF Len(dev.words) > 1 THEN [dev EXCEPT !.words = Tail(@)]
            ELSE [dev EXCEPT !.words = <<>>, !.drq = FALSE, !.cmd = "none"]
  /\ UNCHANGED disk

\* One turn of the write loop.  The last word makes the drive busy.
WriteWord ==
  /\ pc = "transfer" /\ req.op = "write"
  /\ moved' = moved + 1
  /\ pc' = IF moved' = SectorWords THEN "settle" ELSE pc
  /\ dev' = IF ~dev.drq THEN dev
            ELSE LET full == Len(dev.words) + 1 = SectorWords
                 IN  [dev EXCEPT !.words = Append(@, req.buf[moved + 1]),
                                 !.drq = ~full, !.bsy = full]
  /\ UNCHANGED <<req, ret, disk>>

\* Slip: the last polling loop is forgotten.
SettleAtOnce ==
  /\ pc = "settle"
  /\ pc' = "idle" /\ ret' = 1
  /\ UNCHANGED <<req, moved, dev, disk>>

\* After a write the driver waits for BSY to drop, and looks at nothing else.
Settle ==
  /\ pc = "settle" /\ ~dev.bsy
  /\ pc' = "idle" /\ ret' = 1
  /\ UNCHANGED <<req, moved, dev, disk>>
-----------------------------------------------------------------------------
\* The drive: its power-on test ends.
DevReady ==
  /\ dev.bsy /\ dev.cmd = "none"
  /\ dev' = Idle
  /\ UNCHANGED <<pc, req, moved, ret, disk>>

Failed == [dev EXCEPT !.bsy = FALSE, !.drq = FALSE, !.err = TRUE, !.cmd = "none",
                      !.words = <<>>]

\* A command has been looked at: the sector to read is there, or the drive waits for
\* the one to write, or the command has failed.
DevAnswer(ok) ==
  /\ dev.bsy /\ dev.cmd \in Operations /\ dev.words = <<>>
  /\ dev' = IF ~ok \/ dev.lba >= DiskSize THEN Failed
            ELSE [dev EXCEPT !.bsy = FALSE, !.drq = TRUE,
                             !.words = IF dev.cmd = "read" THEN disk[dev.lba] ELSE <<>>]
  /\ UNCHANGED <<pc, req, moved, ret, disk>>

\* The sector received is written, or it is not.
DevCommit(ok) ==
  /\ dev.bsy /\ dev.cmd = "write" /\ Len(dev.words) = SectorWords
  /\ disk' = IF ok THEN [disk EXCEPT ![dev.lba] = dev.words] ELSE disk
  /\ dev' = IF ok THEN Idle ELSE Failed
  /\ UNCHANGED <<pc, req, moved, ret>>

Driver == \/ SendCommand \/ SeeDone \/ CheckStatus \/ WriteWord \/ Settle
          \/ \E w \in Words : ReadWord(w)
Drive == DevReady \/ \E ok \in BOOLEAN : DevAnswer(ok) \/ DevCommit(ok)

Next == \/ \E lba \in Lbas : \/ Call("read", lba, <<>>)
                             \/ \E buf \in Sector : Call("write", lba, buf)
        \/ Driver \/ Drive

\* The driver spins with nothing else to run, and the drive ends what it is busy with.
Spec == Init /\ [][Next]_vars /\ WF_vars(Driver) /\ WF_vars(Drive)
-----------------------------------------------------------------------------
\* The driver touches the data port only while the drive is in the same transfer, at
\* the same word: no stale status lets the two drift apart (ata.c:22-35,54-67).
TransferInStep ==
  pc = "transfer" =>
    /\ dev.drq /\ ~dev.bsy /\ dev.cmd = req.op
    /\ Len(dev.words) = IF req.op = "read" THEN SectorWords - moved ELSE moved

\* A call that returned 1 moved its sector, all of it: a read to the caller, a write to the
\* disk, unless the drive reported an error, which the driver does not look for
\* (ata.c:5-38,69-73).
SectorMoved ==
  pc = "idle" /\ ret = 1 =>
    /\ req.op = "read" => req.buf = disk[req.lba]
    /\ req.op = "write" /\ ~dev.err => disk[req.lba] = req.buf

\* The disk only ever changes in a write call, at the sector asked for, to the whole
\* buffer at once (ata.c:41-73).
WritesHitSector ==
  [][disk' # disk => /\ req.op = "write" /\ pc = "settle"
                     /\ disk' = [disk EXCEPT ![req.lba] = req.buf]]_vars
=============================================================================
