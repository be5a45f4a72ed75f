------------------------------ MODULE IrqProofs ------------------------------
(* Driver and drive stay in the same transfer at the same word, whatever the *)
(* drive answers and when; interrupts stay with the kernel's own gates, and  *)
(* the scancodes in their order, whenever the keys are pressed and the timer *)
(* ticks.                                                                    *)
EXTENDS Irq, SequenceTheorems, TLAPS

-----------------------------------------------------------------------------
(* Driver and drive.                                                         *)

Command == [bsy : BOOLEAN, drq : BOOLEAN, err : BOOLEAN, cmd : Operations \cup {"none"},
            lba : 0..(LbaSpan - 1), words : Seq(Words)]
Request == [op : Operations \cup {"none"}, lba : Lbas, buf : Seq(Words)]

\* What a call has, by how far it is.
CallInv ==
  /\ pc # "idle" => req.op \in Operations
  /\ pc # "idle" /\ req.op = "write" => req.buf \in Sector
  /\ pc \in {"ready", "done", "status"} => moved = 0
  /\ pc \in {"ready", "done", "status", "transfer"} /\ req.op = "read" => Len(req.buf) = moved
  /\ pc = "transfer" => moved < SectorWords
  /\ pc = "settle" => req.op = "write"

\* Both at the same word of the sector asked for: what was moved and what is left make it up.
SameWord ==
  /\ dev.drq /\ ~dev.bsy /\ dev.cmd = req.op /\ dev.lba = req.lba /\ req.lba < DiskSize
  /\ req.op = "read" =>
       /\ Len(dev.words) = SectorWords - moved
       /\ \A i \in 1..moved : req.buf[i] = disk[req.lba][i]
       /\ \A i \in 1..(SectorWords - moved) : dev.words[i] = disk[req.lba][moved + i]
  /\ req.op = "write" =>
       /\ Len(dev.words) = moved
       /\ \A i \in 1..moved : dev.words[i] = req.buf[i]

\* The drive has the command, and has not answered it.
Ordered == /\ dev.bsy /\ dev.cmd = req.op /\ dev.lba = req.lba /\ dev.words = <<>>

\* The drive has the sector to write, and has not written it.
Received == /\ dev.bsy /\ dev.cmd = "write" /\ dev.lba = req.lba /\ req.lba < DiskSize
            /\ dev.words = req.buf

DriveInv ==
  /\ pc \in {"idle", "ready"} /\ dev.bsy => dev.cmd = "none"
  /\ pc = "done" => Ordered \/ (~dev.bsy /\ (dev.drq => SameWord))
  /\ pc = "status" => ~dev.bsy /\ (dev.drq => SameWord)
  /\ pc = "transfer" => SameWord
  /\ pc = "settle" => Received \/ (~dev.bsy /\ (~dev.err => disk[req.lba] = req.buf))
  /\ pc = "idle" /\ ret = 1 => ~dev.bsy
  /\ SectorMoved

\* TypeOK, by parts.
AtaTypes ==
  /\ pc \in {"idle", "ready", "done", "status", "transfer", "settle"}
  /\ req \in Request /\ Len(req.buf) <= SectorWords
  /\ moved \in 0..SectorWords /\ ret \in {-1, 0, 1}
  /\ dev \in Command /\ Len(dev.words) <= SectorWords
  /\ disk \in [0..(DiskSize - 1) -> Sector]

AtaInv == AtaTypes /\ CallInv /\ DriveInv

\* A sector is a sequence of so many words.
LEMMA SectorIsSeq ==
  ASSUME NEW s \in Sector
  PROVE  s \in Seq(Words) /\ Len(s) = SectorWords /\ DOMAIN s = 1..SectorWords
  BY AtaAssumption DEF Sector

LEMMA IdleType == Idle \in Command
<1>1. 0 \in 0..(LbaSpan - 1) /\ <<>> \in Seq(Words)
  BY AtaAssumption
<1> QED
  BY <1>1 DEF Idle, Command

LEMMA AtaInit == Init => AtaInv
<1> SUFFICES ASSUME Init
             PROVE  AtaInv
  OBVIOUS
<1>1. SectorWords \in Nat /\ <<>> \in Seq(Words) /\ Len(<<>>) = 0
  BY AtaAssumption
<1>2. dev \in Command /\ dev.words = <<>> /\ dev.cmd = "none"
  <2>1. /\ [Idle EXCEPT !.bsy = TRUE] \in Command
        /\ [Idle EXCEPT !.bsy = TRUE].words = <<>> /\ [Idle EXCEPT !.bsy = TRUE].cmd = "none"
    BY IdleType DEF Command, Idle
  <2>2. Idle.words = <<>> /\ Idle.cmd = "none"
    BY DEF Idle
  <2> QED
    BY <2>1, <2>2, IdleType DEF Init
<1>3. req \in Request /\ req.buf = <<>>
  BY <1>1 DEF Init, Request
<1>4. AtaTypes
  BY <1>1, <1>2, <1>3 DEF Init, AtaTypes
<1>5. CallInv /\ DriveInv
  BY <1>2 DEF Init, CallInv, DriveInv, SectorMoved
<1> QED
  BY <1>4, <1>5 DEF AtaInv

LEMMA CallKeeps ==
  ASSUME AtaInv, NEW op \in Operations, NEW lba \in Lbas, NEW buf, Call(op, lba, buf),
         \/ op = "read" /\ buf = <<>>
         \/ op = "write" /\ buf \in Sector
  PROVE  AtaInv'
<1>1. buf \in Seq(Words) /\ Len(buf) <= SectorWords /\ (op = "read" => Len(buf) = 0)
  <2>1. CASE op = "read" /\ buf = <<>>
    BY <2>1, AtaAssumption
  <2>2. CASE op = "write" /\ buf \in Sector
    BY <2>2, SectorIsSeq, AtaAssumption
  <2> QED
    BY <2>1, <2>2
<1> DEFINE r == [op |-> op, lba |-> lba, buf |-> buf]
<1>2. r \in Request /\ r.op = op /\ r.buf = buf
  BY <1>1 DEF Request
<1>3. pc = "idle" /\ pc' = "ready" /\ req' = r /\ moved' = 0 /\ UNCHANGED <<ret, dev, disk>>
  BY DEF Call
<1> HIDE DEF r
<1>4. AtaTypes'
  BY <1>1, <1>2, <1>3, AtaAssumption DEF AtaInv, Request, AtaTypes
<1>5. CallInv'
  BY <1>1, <1>2, <1>3 DEF CallInv
<1>6. DriveInv'
  BY <1>3 DEF AtaInv, DriveInv, SectorMoved
<1> QED
  BY <1>4, <1>5, <1>6 DEF AtaInv

LEMMA SendCommandKeeps == AtaInv /\ SendCommand => AtaInv'
<1> SUFFICES ASSUME AtaInv, SendCommand
             PROVE  AtaInv'
  OBVIOUS
<1>1. /\ pc = "ready" /\ req \in Request /\ req.op \in Operations /\ req.lba \in Lbas
      /\ req.lba \in 0..(LbaSpan - 1)
  BY AtaAssumption DEF SendCommand, AtaInv, AtaTypes, CallInv, Request
<1>2. req.lba % LbaSpan = req.lba
  BY <1>1, AtaAssumption
<1> DEFINE d == [Idle EXCEPT !.bsy = TRUE, !.cmd = req.op, !.lba = req.lba]
<1>3. /\ d \in Command /\ d.bsy /\ d.cmd = req.op /\ d.lba = req.lba /\ d.words = <<>>
  BY <1>1, IdleType DEF Idle, Command
<1>4. pc' = "done" /\ dev' = d /\ UNCHANGED <<req, moved, ret, disk>>
  BY <1>2 DEF SendCommand
<1> HIDE DEF d
<1>5. AtaTypes'
  BY <1>3, <1>4, AtaAssumption DEF AtaInv, Command, AtaTypes
<1>6. CallInv'
  BY <1>1, <1>4 DEF AtaInv, CallInv
<1>7. DriveInv'
  BY <1>3, <1>4 DEF DriveInv, Ordered, SectorMoved
<1> QED
  BY <1>5, <1>6, <1>7 DEF AtaInv

LEMMA SeeDoneKeeps == AtaInv /\ SeeDone => AtaInv'
  BY DEF AtaInv, SeeDone, AtaTypes, CallInv, DriveInv, Ordered, SameWord, SectorMoved

LEMMA CheckStatusKeeps == AtaInv /\ CheckStatus => AtaInv'
<1> SUFFICES ASSUME AtaInv, CheckStatus
             PROVE  AtaInv'
  OBVIOUS
<1>1. CASE dev.drq
  <2>1. pc' = "transfer" /\ pc = "status" /\ UNCHANGED <<req, moved, ret, dev, disk>>
    BY <1>1 DEF CheckStatus
  <2> QED
    BY <1>1, <2>1, AtaAssumption DEF AtaInv, AtaTypes, CallInv, DriveInv, SameWord, SectorMoved
<1>2. CASE ~dev.drq
  <2>1. pc' = "idle" /\ pc = "status" /\ ret' = -1 /\ UNCHANGED <<req, moved, dev, disk>>
    BY <1>2 DEF CheckStatus
  <2> QED
    BY <1>2, <2>1 DEF AtaInv, AtaTypes, CallInv, DriveInv, SectorMoved
<1> QED
  BY <1>1, <1>2

LEMMA ReadWordKeeps == AtaInv /\ (\E w \in Words : ReadWord(w)) => AtaInv'
<1> SUFFICES ASSUME AtaInv, NEW w \in Words, ReadWord(w)
             PROVE  AtaInv'
  OBVIOUS
<1>1. /\ pc = "transfer" /\ req.op = "read" /\ req \in Request /\ dev \in Command
      /\ moved \in Nat /\ moved < SectorWords /\ SectorWords \in Nat
      /\ req.buf \in Seq(Words) /\ Len(req.buf) = moved
      /\ dev.words \in Seq(Words) /\ Len(dev.words) = SectorWords - moved
  BY AtaAssumption DEF ReadWord, AtaInv, CallInv, DriveInv, SameWord, AtaTypes, Request, Command
<1>2. /\ SameWord /\ disk \in [0..(DiskSize - 1) -> Sector]
      /\ req.lba \in 0..(DiskSize - 1) /\ disk[req.lba] \in Sector
  <2>1. SameWord /\ disk \in [0..(DiskSize - 1) -> Sector]
    BY <1>1 DEF AtaInv, DriveInv, AtaTypes
  <2>2. req.lba \in Lbas
    BY <1>1 DEF Request
  <2>3. req.lba \in 0..(DiskSize - 1)
    BY <2>1, <2>2, AtaAssumption DEF SameWord
  <2> QED
    BY <2>1, <2>3
<1>3. w = dev.words[1] /\ w = disk[req.lba][moved + 1]
  <2>1. dev.words # <<>>
    BY <1>1
  <2>2. w = Head(dev.words)
    BY <1>2, <2>1 DEF ReadWord, SameWord
  <2> QED
    BY <1>1, <1>2, <2>1, <2>2 DEF SameWord
<1> DEFINE r == [req EXCEPT !.buf = Append(req.buf, w)]
<1>4. /\ r \in Request /\ r.op = "read" /\ r.lba = req.lba
      /\ Len(r.buf) = moved + 1
      /\ \A i \in 1..(moved + 1) : r.buf[i] = IF i = moved + 1 THEN w ELSE req.buf[i]
  <2>1. /\ Append(req.buf, w) \in Seq(Words) /\ Len(Append(req.buf, w)) = moved + 1
        /\ \A i \in 1..(moved + 1) :
             Append(req.buf, w)[i] = IF i = moved + 1 THEN w ELSE req.buf[i]
    BY <1>1
  <2>2. r.op = "read" /\ r.lba = req.lba /\ r.buf = Append(req.buf, w)
    BY <1>1 DEF Request
  <2>3. r \in Request
    BY <1>1, <2>1 DEF Request
  <2> QED
    BY <2>1, <2>2, <2>3
<1>5. req' = r /\ moved' = moved + 1 /\ disk' = disk
  BY DEF ReadWord
<1> HIDE DEF r
<1>6. \A i \in 1..moved' : req'.buf[i] = disk'[req'.lba][i]
  <2> TAKE i \in 1..moved'
  <2>1. CASE i = moved + 1
    BY <1>1, <1>3, <1>4, <1>5, <2>1
  <2>2. CASE i # moved + 1
    <3>1. i \in 1..moved /\ i \in 1..(moved + 1)
      BY <1>1, <1>5, <2>2
    <3>2. req.buf[i] = disk[req.lba][i]
      BY <1>1, <1>2, <3>1 DEF SameWord
    <3> QED
      BY <1>4, <1>5, <2>2, <3>1, <3>2
  <2> QED
    BY <2>1, <2>2
<1>7. CASE moved + 1 = SectorWords
  <2> DEFINE d == [dev EXCEPT !.words = <<>>, !.drq = FALSE, !.cmd = "none"]
  <2>1. dev' = d /\ pc' = "idle" /\ ret' = 1
    BY <1>1, <1>7 DEF ReadWord
  <2>2. d \in Command /\ ~d.bsy /\ d.words = <<>>
    <3>1. <<>> \in Seq(Words)
      OBVIOUS
    <3> QED
      BY <1>1, <1>2, <3>1 DEF Command, SameWord
  <2> HIDE DEF d
  <2>3. req'.buf = disk'[req'.lba]
    BY <1>2, <1>4, <1>5, <1>6, <1>7, SectorIsSeq DEF Request
  <2>4. AtaTypes'
    BY <1>1, <1>2, <1>4, <1>5, <1>7, <2>1, <2>2 DEF AtaTypes
  <2>5. CallInv' /\ DriveInv'
    BY <1>4, <1>5, <2>1, <2>2, <2>3 DEF CallInv, DriveInv, SectorMoved, Operations
  <2> QED
    BY <2>4, <2>5 DEF AtaInv
<1>8. CASE moved + 1 # SectorWords
  <2> DEFINE d == [dev EXCEPT !.words = Tail(dev.words)]
  <2>1. dev' = d /\ pc' = "transfer" /\ ret' = ret
    BY <1>1, <1>8 DEF ReadWord
  <2>2. /\ d \in Command /\ d.bsy = dev.bsy /\ d.drq = dev.drq /\ d.cmd = dev.cmd
        /\ d.lba = dev.lba /\ d.words = Tail(dev.words)
    <3>1. Tail(dev.words) \in Seq(Words)
      BY <1>1, <1>8
    <3> QED
      BY <1>1, <3>1 DEF Command
  <2>3. /\ Len(d.words) = SectorWords - (moved + 1)
        /\ \A i \in 1..(SectorWords - (moved + 1)) : d.words[i] = dev.words[i + 1]
    BY <1>1, <1>8, <2>2
  <2> HIDE DEF d
  <2>4. \A i \in 1..(SectorWords - (moved + 1)) :
          d.words[i] = disk[req.lba][(moved + 1) + i]
    <3> TAKE i \in 1..(SectorWords - (moved + 1))
    <3>1. i + 1 \in 1..(SectorWords - moved) /\ moved + (i + 1) = (moved + 1) + i
      BY <1>1
    <3>2. dev.words[i + 1] = disk[req.lba][moved + (i + 1)]
      BY <1>1, <1>2, <3>1 DEF SameWord
    <3> QED
      BY <2>3, <3>1, <3>2
  <2>5. SameWord'
    <3>1. /\ dev'.drq /\ ~dev'.bsy /\ dev'.cmd = req'.op /\ dev'.lba = req'.lba
          /\ req'.lba < DiskSize /\ req'.op = "read"
      BY <1>1, <1>2, <1>4, <1>5, <2>1, <2>2 DEF SameWord
    <3>2. Len(dev'.words) = SectorWords - moved'
      BY <1>5, <2>1, <2>3
    <3>3. \A i \in 1..(SectorWords - moved') : dev'.words[i] = disk'[req'.lba][moved' + i]
      BY <1>4, <1>5, <2>1, <2>4
    <3> QED
      BY <1>6, <3>1, <3>2, <3>3 DEF SameWord
  <2>6. AtaTypes'
    BY <1>1, <1>2, <1>4, <1>5, <1>8, <2>1, <2>2, <2>3 DEF AtaInv, AtaTypes
  <2>7. CallInv' /\ DriveInv'
    BY <1>1, <1>4, <1>5, <1>8, <2>1, <2>5 DEF CallInv, DriveInv, SectorMoved, Operations
  <2> QED
    BY <2>6, <2>7 DEF AtaInv
<1> QED
  BY <1>7, <1>8

LEMMA WriteWordKeeps == AtaInv /\ WriteWord => AtaInv'
<1> SUFFICES ASSUME AtaInv, WriteWord
             PROVE  AtaInv'
  OBVIOUS
<1>1. /\ pc = "transfer" /\ req.op = "write" /\ req \in Request /\ dev \in Command
      /\ moved \in Nat /\ moved < SectorWords /\ SectorWords \in Nat
      /\ req.buf \in Sector
      /\ dev.words \in Seq(Words) /\ Len(dev.words) = moved /\ dev.drq
  BY AtaAssumption DEF WriteWord, AtaInv, CallInv, DriveInv, SameWord, AtaTypes, Request, Command
<1>2. SameWord /\ req.buf[moved + 1] \in Words
  BY <1>1 DEF AtaInv, DriveInv, Sector
<1> DEFINE last == moved + 1 = SectorWords
           d == [dev EXCEPT !.words = Append(dev.words, req.buf[moved + 1]),
                            !.drq = ~last, !.bsy = last]
<1>3. /\ dev' = d /\ moved' = moved + 1 /\ UNCHANGED <<req, ret, disk>>
      /\ pc' = IF last THEN "settle" ELSE "transfer"
  BY <1>1 DEF WriteWord
<1>4. last \in BOOLEAN
  OBVIOUS
<1> HIDE DEF last
<1>5. /\ d \in Command /\ d.bsy = last /\ d.drq = ~last /\ d.cmd = dev.cmd /\ d.lba = dev.lba
      /\ d.words = Append(dev.words, req.buf[moved + 1])
  <2>1. Append(dev.words, req.buf[moved + 1]) \in Seq(Words)
    BY <1>1, <1>2
  <2> QED
    BY <1>1, <1>4, <2>1 DEF Command
<1>6. /\ Len(d.words) = moved + 1 /\ d.words \in Seq(Words)
      /\ \A i \in 1..(moved + 1) : d.words[i] = req.buf[i]
  BY <1>1, <1>2, <1>5 DEF SameWord
<1> HIDE DEF d
<1>7. AtaTypes'
  BY <1>1, <1>3, <1>5, <1>6 DEF AtaInv, AtaTypes
<1>8. CASE last
  <2>1. d.words = req.buf
    BY <1>1, <1>6, <1>8, SectorIsSeq DEF last
  <2>2. Received'
    BY <1>1, <1>2, <1>3, <1>5, <1>8, <2>1 DEF Received, SameWord
  <2>3. CallInv' /\ DriveInv'
    BY <1>1, <1>3, <1>8, <2>2 DEF CallInv, DriveInv, SectorMoved, Operations
  <2> QED
    BY <1>7, <2>3 DEF AtaInv
<1>9. CASE ~last
  <2>1. SameWord'
    BY <1>1, <1>2, <1>3, <1>5, <1>6, <1>9 DEF SameWord
  <2>2. CallInv' /\ DriveInv'
    BY <1>1, <1>3, <1>9, <2>1 DEF CallInv, DriveInv, SectorMoved, Operations, last
  <2> QED
    BY <1>7, <2>2 DEF AtaInv
<1> QED
  BY <1>8, <1>9

LEMMA SettleKeeps == AtaInv /\ Settle => AtaInv'
  BY DEF AtaInv, Settle, AtaTypes, CallInv, DriveInv, Received, SectorMoved

LEMMA DevReadyKeeps == AtaInv /\ DevReady => AtaInv'
<1> SUFFICES ASSUME AtaInv, DevReady
             PROVE  AtaInv'
  OBVIOUS
<1>1. /\ dev.bsy /\ dev.cmd = "none" /\ dev' = Idle /\ UNCHANGED <<pc, req, moved, ret, disk>>
      /\ ~Idle.bsy /\ Idle.words = <<>>
  BY DEF DevReady, Idle
<1>2. pc \in {"idle", "ready"} /\ ~(pc = "idle" /\ ret = 1)
  BY <1>1 DEF AtaInv, CallInv, DriveInv, Ordered, SameWord, Received, AtaTypes, Operations
<1>3. AtaTypes'
  BY <1>1, IdleType, AtaAssumption DEF AtaInv, AtaTypes
<1>4. CallInv' /\ DriveInv'
  BY <1>1, <1>2 DEF AtaInv, CallInv, DriveInv, SectorMoved
<1> QED
  BY <1>3, <1>4 DEF AtaInv

LEMMA FailedType ==
  ASSUME dev \in Command
  PROVE  Failed \in Command /\ ~Failed.bsy /\ ~Failed.drq /\ Failed.err /\ Failed.words = <<>>
<1>1. <<>> \in Seq(Words)
  OBVIOUS
<1> QED
  BY <1>1 DEF Failed, Command

LEMMA DevAnswerKeeps == AtaInv /\ (\E ok \in BOOLEAN : DevAnswer(ok)) => AtaInv'
<1> SUFFICES ASSUME AtaInv, NEW ok \in BOOLEAN, DevAnswer(ok)
             PROVE  AtaInv'
  OBVIOUS
<1>1. /\ dev.bsy /\ dev.cmd \in Operations /\ dev.words = <<>>
      /\ UNCHANGED <<pc, req, moved, ret, disk>>
      /\ dev \in Command /\ req \in Request /\ SectorWords \in Nat \ {0}
  BY AtaAssumption DEF DevAnswer, AtaInv, AtaTypes
<1>2. pc = "done" /\ Ordered /\ moved = 0
  <2>1. pc # "settle"
    <3>1. ASSUME pc = "settle"
          PROVE  FALSE
      <4>1. req.op = "write" /\ dev.words = req.buf /\ req.buf \in Sector
        BY <1>1, <3>1 DEF AtaInv, CallInv, DriveInv, Received
      <4> QED
        BY <1>1, <4>1, SectorIsSeq
    <3> QED
      BY <3>1
  <2>2. pc = "done" /\ Ordered
    BY <1>1, <2>1 DEF AtaInv, CallInv, DriveInv, SameWord, AtaTypes, Operations
  <2> QED
    BY <2>2 DEF AtaInv, CallInv
<1>3. CASE ~ok \/ dev.lba >= DiskSize
  <2>1. dev' = Failed
    BY <1>3 DEF DevAnswer
  <2>2. AtaTypes'
    BY <1>1, <2>1, FailedType DEF AtaInv, AtaTypes
  <2>3. CallInv' /\ DriveInv'
    BY <1>1, <1>2, <2>1, FailedType DEF AtaInv, CallInv, DriveInv, SectorMoved
  <2> QED
    BY <2>2, <2>3 DEF AtaInv
<1>4. CASE ok /\ ~(dev.lba >= DiskSize)
  <2> DEFINE words == IF dev.cmd = "read" THEN disk[dev.lba] ELSE <<>>
             d == [dev EXCEPT !.bsy = FALSE, !.drq = TRUE, !.words = words]
  <2>1. dev' = d
    BY <1>4 DEF DevAnswer
  <2>2. /\ dev.lba \in 0..(DiskSize - 1) /\ disk[dev.lba] \in Sector /\ req.lba = dev.lba
        /\ req.lba < DiskSize
    BY <1>1, <1>2, <1>4, AtaAssumption DEF AtaInv, Command, Ordered, AtaTypes
  <2>3. words \in Seq(Words) /\ Len(words) <= SectorWords
    BY <1>1, <2>2, SectorIsSeq
  <2>4. d \in Command /\ ~d.bsy /\ d.drq /\ d.cmd = dev.cmd /\ d.lba = dev.lba /\ d.words = words
    BY <1>1, <2>3 DEF Command
  <2>5. dev.cmd = "read" => Len(words) = SectorWords
    BY <2>2, SectorIsSeq
  <2>6. dev.cmd = "write" => Len(words) = 0
    OBVIOUS
  <2>7. dev.cmd = "read" => words = disk[dev.lba]
    OBVIOUS
  <2> HIDE DEF words, d
  <2>8. SameWord'
    BY <1>1, <1>2, <2>1, <2>2, <2>4, <2>5, <2>6, <2>7 DEF SameWord, Ordered
  <2>9. AtaTypes'
    BY <1>1, <2>1, <2>3, <2>4 DEF AtaInv, AtaTypes
  <2>10. CallInv' /\ DriveInv'
    BY <1>1, <1>2, <2>1, <2>4, <2>8 DEF AtaInv, CallInv, DriveInv, SectorMoved
  <2> QED
    BY <2>9, <2>10 DEF AtaInv
<1> QED
  BY <1>3, <1>4

\* Only a write call that waits for the end lets the drive write, and then what it asked for.
LEMMA CommitInCall ==
  ASSUME AtaInv, NEW ok \in BOOLEAN, DevCommit(ok)
  PROVE  /\ pc = "settle" /\ Received /\ req.op = "write" /\ req.buf \in Sector
         /\ UNCHANGED <<pc, req, moved, ret>>
         /\ disk' = IF ok THEN [disk EXCEPT ![req.lba] = req.buf] ELSE disk
         /\ dev' = IF ok THEN Idle ELSE Failed
<1>1. /\ dev.bsy /\ dev.cmd = "write" /\ Len(dev.words) = SectorWords
      /\ SectorWords \in Nat \ {0} /\ pc \in {"idle", "ready", "done", "status", "transfer", "settle"}
  BY AtaAssumption DEF DevCommit, AtaInv, AtaTypes
<1>2. dev.words # <<>>
  BY <1>1
<1>3. pc = "settle" /\ Received
  BY <1>1, <1>2 DEF AtaInv, DriveInv, Ordered, SameWord
<1> QED
  BY <1>3 DEF DevCommit, AtaInv, CallInv, Received

LEMMA DevCommitKeeps == AtaInv /\ (\E ok \in BOOLEAN : DevCommit(ok)) => AtaInv'
<1> SUFFICES ASSUME AtaInv, NEW ok \in BOOLEAN, DevCommit(ok)
             PROVE  AtaInv'
  OBVIOUS
<1>1. /\ pc = "settle" /\ Received /\ req.op = "write" /\ req.buf \in Sector
      /\ UNCHANGED <<pc, req, moved, ret>>
      /\ disk' = IF ok THEN [disk EXCEPT ![req.lba] = req.buf] ELSE disk
      /\ dev' = IF ok THEN Idle ELSE Failed
  BY CommitInCall
<1>2. /\ dev \in Command /\ req \in Request /\ SectorWords \in Nat
      /\ disk \in [0..(DiskSize - 1) -> Sector] /\ req.lba \in 0..(DiskSize - 1)
  <2>1. /\ dev \in Command /\ req \in Request /\ SectorWords \in Nat
        /\ disk \in [0..(DiskSize - 1) -> Sector]
    BY AtaAssumption DEF AtaInv, AtaTypes
  <2>2. req.lba \in Lbas
    BY <2>1 DEF Request
  <2>3. req.lba \in 0..(DiskSize - 1)
    <3>1. req.lba < DiskSize
      BY <1>1 DEF Received
    <3>2. Lbas \subseteq Nat /\ DiskSize \in Nat
      BY AtaAssumption
    <3>3. req.lba \in Nat
      BY <2>2, <3>2
    <3> QED
      BY <3>1, <3>2, <3>3
  <2> QED
    BY <2>1, <2>3
<1>3. disk' \in [0..(DiskSize - 1) -> Sector] /\ (ok => disk'[req.lba] = req.buf)
  BY <1>1, <1>2
<1>4. dev' \in Command /\ ~dev'.bsy /\ dev'.words = <<>> /\ (~ok => dev'.err)
  BY <1>1, <1>2, IdleType, FailedType DEF Idle
<1>5. AtaTypes'
  BY <1>1, <1>2, <1>3, <1>4 DEF AtaInv, AtaTypes
<1>6. CallInv' /\ DriveInv'
  BY <1>1, <1>3, <1>4 DEF AtaInv, CallInv, DriveInv, SectorMoved
<1> QED
  BY <1>5, <1>6 DEF AtaInv

LEMMA AtaNext == AtaInv /\ (Driver \/ Drive) => AtaInv'
  BY SendCommandKeeps, SeeDoneKeeps, CheckStatusKeeps, ReadWordKeeps, WriteWordKeeps, SettleKeeps,
     DevReadyKeeps, DevAnswerKeeps, DevCommitKeeps DEF Driver, Drive
-----------------------------------------------------------------------------
(* Interrupts and keys.                                                      *)

\* The set-up, by how far kernel_main is.
GateInv ==
  /\ IF_ \/ handler # "none" => stage \in {"reset", "main"}
  /\ stage # "gates" => gates = {14, 33}
  /\ stage \in {"sti", "reset", "main"} => pic.base = 32 /\ pic.mask = {Timer}

Pic == [base : {8, 32}, mask : SUBSET Lines, irr : SUBSET Lines, isr : SUBSET Lines]

\* There is a scancode behind every request of the keyboard's line.
KeyInv ==
  /\ stage \in Stages /\ IF_ \in BOOLEAN /\ gates \subseteq 0..255
  /\ pic \in Pic
  /\ pressed \in 0..MaxKeys /\ sent \in 0..pressed /\ full \in BOOLEAN
  /\ handled \in Seq(1..MaxKeys)
  /\ drained \in 0..sent /\ raced \in BOOLEAN /\ handler \in Handlers
  /\ Keyboard \in pic.irr => sent > 0
  /\ handler = "scancode" => sent > 0

IrqInv == AtaInv /\ GateInv /\ KeyInv

LEMMA IrqInit == IInit => IrqInv
<1> SUFFICES ASSUME IInit
             PROVE  IrqInv
  OBVIOUS
<1>1. AtaInv
  BY AtaInit DEF IInit
<1>2. GateInv
  BY DEF IInit, GateInv
<1>3. pic \in Pic /\ pic.irr = {}
  BY DEF IInit, Pic, Lines
<1>4. KeyInv
  <2>1. /\ pressed = 0 /\ sent = 0 /\ drained = 0 /\ handled = <<>> /\ gates = {}
        /\ stage = "gates" /\ handler = "none" /\ IF_ = FALSE /\ full = FALSE /\ raced = FALSE
    BY DEF IInit
  <2>2. 0 \in 0..MaxKeys /\ <<>> \in Seq(1..MaxKeys) /\ 0 \in 0..0
    BY KeysAssumption
  <2> QED
    BY <1>3, <2>1, <2>2 DEF KeyInv, Stages, Handlers
<1> QED
  BY <1>1, <1>2, <1>4 DEF IrqInv

\* With interrupts on, only the keyboard's line is ever asked for.
LEMMA KeyboardAsks ==
  ASSUME GateInv, KeyInv, IF_
  PROVE  Asked \subseteq {Keyboard} /\ Vector(Keyboard) \in gates
<1>1. pic.mask = {Timer} /\ pic.base = 32 /\ gates = {14, 33} /\ pic.irr \subseteq Lines
  BY DEF GateInv, KeyInv, Pic
<1>2. Asked \subseteq {Keyboard}
  BY <1>1 DEF Asked, Lines
<1> QED
  BY <1>1, <1>2 DEF Vector, Keyboard

LEMMA AtaStep ==
  ASSUME AtaInv, INext
  PROVE  AtaInv'
<1>1. CASE Ata_
  BY <1>1, AtaNext DEF Ata_
<1>2. CASE WaitForDisk
  <2>1. PICK lba \in Lbas : \/ Call("read", lba, <<>>)
                            \/ \E buf \in Sector : Call("write", lba, buf)
    BY <1>2 DEF WaitForDisk
  <2>2. CASE Call("read", lba, <<>>)
    BY <2>2, CallKeeps DEF Operations
  <2>3. CASE \E buf \in Sector : Call("write", lba, buf)
    BY <2>3, CallKeeps DEF Operations
  <2> QED
    BY <2>1, <2>2, <2>3
<1>3. CASE UNCHANGED vars
  BY <1>3 DEF vars, AtaInv, AtaTypes, CallInv, DriveInv, SameWord, Ordered, Received, SectorMoved
<1> QED
  BY <1>1, <1>2, <1>3
     DEF INext, Loop, Press, Send, Tick, Interrupt, Main, SetGates, Icw1, Mask, Sti, ResetKeyboard,
         Goes, Handler, ReadScancode, ReadStatus, OtherKey, DiskDone, Eoi

LEMMA GateStep ==
  ASSUME GateInv, KeyInv, INext
  PROVE  GateInv'
<1> USE DEF GateInv, KeyInv
<1>1. CASE Loop \/ Ata_
  BY <1>1 DEF Loop, Ata_, ivars
<1>2. CASE Press
  BY <1>2 DEF Press
<1>3. CASE Send
  <2>1. pic'.base = pic.base /\ pic'.mask = pic.mask
    BY <1>3 DEF Send, Pic
  <2> QED
    BY <1>3, <2>1 DEF Send
<1>4. CASE Tick
  <2>1. pic'.base = pic.base /\ pic'.mask = pic.mask
    BY <1>4 DEF Tick, Pic
  <2> QED
    BY <1>4, <2>1 DEF Tick
<1>5. CASE Interrupt
  <2>1. pic'.base = pic.base /\ pic'.mask = pic.mask
    BY <1>5 DEF Interrupt, Pic
  <2> QED
    BY <1>5, <2>1 DEF Interrupt
<1>6. CASE SetGates \/ Icw1
  BY <1>6 DEF SetGates, Icw1, Goes
<1>7. CASE Mask
  <2>1. pic'.base = 32 /\ pic'.mask = {Timer}
    BY <1>7 DEF Mask, Pic
  <2> QED
    BY <1>7, <2>1 DEF Mask, Goes
<1>8. CASE Sti \/ ResetKeyboard
  BY <1>8 DEF Sti, ResetKeyboard, Goes
<1>9. CASE ReadScancode \/ ReadStatus \/ WaitForDisk \/ OtherKey \/ DiskDone
  BY <1>9 DEF ReadScancode, ReadStatus, WaitForDisk, OtherKey, DiskDone, Handles
<1>10. CASE Eoi
  <2>1. pic'.base = pic.base /\ pic'.mask = pic.mask
    BY <1>10 DEF Eoi, Pic
  <2> QED
    BY <1>10, <2>1 DEF Eoi, Handles
<1> QED
  BY <1>1, <1>2, <1>3, <1>4, <1>5, <1>6, <1>7, <1>8, <1>9, <1>10 DEF INext, Main, Handler

LEMMA KeyStep ==
  ASSUME GateInv, KeyInv, INext
  PROVE  KeyInv'
<1>1. CASE Loop \/ Ata_
  BY <1>1 DEF Loop, Ata_, ivars, kbd, KeyInv
<1>2. CASE Press
  BY <1>2, KeysAssumption DEF Press, KeyInv
<1>3. CASE Send
  <2>1. pic' \in Pic
    BY <1>3 DEF Send, KeyInv, Pic, Lines
  <2> QED
    BY <1>3, <2>1, KeysAssumption DEF Send, KeyInv
<1>4. CASE Tick
  <2>1. pic' \in Pic /\ (Keyboard \in pic'.irr => Keyboard \in pic.irr)
    BY <1>4 DEF Tick, KeyInv, Pic, Lines, Keyboard, Timer
  <2> QED
    BY <1>4, <2>1 DEF Tick, kbd, KeyInv
<1>5. CASE Interrupt
  <2>1. Keyboard \in pic.irr
    BY <1>5, KeyboardAsks DEF Interrupt, Asked
  <2>2. pic' \in Pic /\ (Keyboard \in pic'.irr => Keyboard \in pic.irr)
    <3>1. PICK line \in Asked :
            pic' = [pic EXCEPT !.irr = @ \ {line}, !.isr = @ \cup {line}]
      BY <1>5 DEF Interrupt
    <3>2. line \in Lines /\ pic \in Pic
      BY DEF Asked, KeyInv, Pic
    <3> QED
      BY <3>1, <3>2 DEF Pic
  <2> QED
    BY <1>5, <2>1, <2>2 DEF Interrupt, kbd, KeyInv, Handlers
<1>6. CASE SetGates
  BY <1>6 DEF SetGates, Goes, KeyInv, Stages
<1>7. CASE Icw1
  <2>1. pic' \in Pic /\ (Keyboard \in pic'.irr => Keyboard \in pic.irr)
    <3>1. PICK irr \in {{}, pic.irr} :
            pic' = [pic EXCEPT !.mask = {}, !.irr = irr, !.isr = {}]
      BY <1>7 DEF Icw1
    <3>2. irr \subseteq pic.irr /\ pic \in Pic
      BY DEF KeyInv
    <3> QED
      BY <3>1, <3>2 DEF Pic
  <2> QED
    BY <1>7, <2>1 DEF Icw1, Goes, KeyInv, Stages
<1>8. CASE Mask
  <2>1. pic' \in Pic /\ (Keyboard \in pic'.irr => Keyboard \in pic.irr)
    BY <1>8 DEF Mask, KeyInv, Pic, Lines
  <2> QED
    BY <1>8, <2>1 DEF Mask, Goes, KeyInv, Stages
<1>9. CASE Sti
  BY <1>9 DEF Sti, Goes, KeyInv, Stages
<1>13. CASE ResetKeyboard
  <2>1. sent \in Nat
    BY KeysAssumption DEF KeyInv
  <2>2. drained' \in 0..sent /\ full' \in BOOLEAN
    <3>1. drained' = sent /\ full' = FALSE
      BY <1>13, Zenon DEF ResetKeyboard
    <3>2. sent \in 0..sent
      BY <2>1
    <3>3. full' \in BOOLEAN
      BY <3>1, Zenon
    <3> QED
      BY <3>1, <3>2, <3>3, Zenon
  <2>4. raced' \in BOOLEAN
    <3>1. raced' = (Keyboard \in pic.irr)
      BY <1>13, Zenon DEF ResetKeyboard
    <3>2. CASE Keyboard \in pic.irr
      BY <3>1, <3>2, Zenon
    <3>3. CASE ~(Keyboard \in pic.irr)
      <4>1. (Keyboard \in pic.irr) = FALSE
        BY <3>3
      <4> QED
        BY <3>1, <4>1
    <3> QED
      BY <3>2, <3>3, Zenon
  <2>3. /\ stage' \in Stages
        /\ UNCHANGED <<IF_, gates, pic, pressed, sent, handled, handler>>
    BY <1>13 DEF ResetKeyboard, Goes, Stages
  <2> QED
    BY <2>2, <2>3, <2>4 DEF KeyInv
<1>10. CASE ReadScancode
  <2>1. sent \in 1..MaxKeys
    BY <1>10, KeysAssumption DEF ReadScancode, Handles, KeyInv
  <2>2. handled' \in Seq(1..MaxKeys)
    BY <1>10, <2>1 DEF ReadScancode, KeyInv
  <2> QED
    BY <1>10, <2>2 DEF ReadScancode, Handles, KeyInv, Handlers
<1>11. CASE ReadStatus \/ WaitForDisk \/ OtherKey \/ DiskDone
  <2>1. handler' \in {"key", "ata", "eoi"}
    BY <1>11 DEF ReadStatus, WaitForDisk, OtherKey, DiskDone, Handles
  <2>2. UNCHANGED <<stage, IF_, gates, pic, pressed, sent, full, handled, drained, raced>>
    BY <1>11 DEF ReadStatus, WaitForDisk, OtherKey, DiskDone, Handles
  <2> QED
    BY <2>1, <2>2 DEF KeyInv, Handlers
<1>12. CASE Eoi
  <2>1. pic' \in Pic /\ pic'.irr = pic.irr
    BY <1>12 DEF Eoi, KeyInv, Pic
  <2> QED
    BY <1>12, <2>1 DEF Eoi, Handles, KeyInv, Handlers
<1> QED
  BY <1>1, <1>2, <1>3, <1>4, <1>5, <1>6, <1>7, <1>8, <1>9, <1>10, <1>11, <1>12, <1>13
     DEF INext, Main, Handler

LEMMA IrqNext == IrqInv /\ [INext]_allvars => IrqInv'
<1> SUFFICES ASSUME IrqInv, [INext]_allvars
             PROVE  IrqInv'
  OBVIOUS
<1>1. CASE INext
  BY <1>1, AtaStep, GateStep, KeyStep DEF IrqInv
<1>2. CASE UNCHANGED allvars
  BY <1>2 DEF allvars, ivars, kbd, vars, IrqInv, AtaInv, AtaTypes, CallInv, DriveInv, SameWord,
              Ordered, Received, SectorMoved, GateInv, KeyInv
<1> QED
  BY <1>1, <1>2

LEMMA Invariant == ISpec => []IrqInv
  BY IrqInit, IrqNext, PTL DEF ISpec
-----------------------------------------------------------------------------
(* The order of the scancodes.                                               *)

Edge == Keyboard \in pic.irr
Reading == handler = "scancode"

\* A reading is to come, or under way, for which no scancode waits that is not yet read.
Surplus == IF full THEN Edge /\ Reading ELSE Edge \/ Reading

\* The last scancode that can have been read.
Top == IF full THEN sent - 1 ELSE sent

\* What waits in the buffer and what the interrupt controller and the handler are about to
\* read go together: a reading too many is only ever the one reset_keyboard was too early for.
ReadInv ==
  /\ IF_ => handler = "none"
  /\ full \/ ~(Edge /\ Reading)
  /\ Surplus => stage = "main" /\ raced /\ \A i \in DOMAIN handled : ~Again(i)
  /\ raced => stage = "main"
  /\ stage = "main" => drained <= Top /\ (full => Edge \/ Reading)
  /\ full => sent > 0
  /\ \A i \in DOMAIN handled : handled[i] <= Top
  /\ stage = "main" /\ drained < Top => handled # <<>> /\ handled[Len(handled)] = Top

OrderInv == ReadInv /\ KeysInOrder

LEMMA OrderInit == IInit => OrderInv
<1> SUFFICES ASSUME IInit
             PROVE  OrderInv
  OBVIOUS
<1>1. /\ stage = "gates" /\ IF_ = FALSE /\ sent = 0 /\ full = FALSE /\ handler = "none"
      /\ handled = <<>> /\ raced = FALSE
  BY DEF IInit
<1>2. ~Edge /\ ~Reading /\ ~Surplus
  <2>1. pic.irr = {}
    BY DEF IInit
  <2> QED
    BY <1>1, <2>1 DEF Edge, Reading, Surplus
<1>3. DOMAIN handled = {}
  BY <1>1
<1> QED
  BY <1>1, <1>2, <1>3 DEF OrderInv, ReadInv, KeysInOrder

\* A step that reads and sends nothing, and drops an edge only before kernel_main is through.
LEMMA NothingRead ==
  ASSUME OrderInv, UNCHANGED <<sent, full, handled, drained, raced>>,
         stage' = stage \/ (stage # "main" /\ stage' # "main"),
         Edge' => Edge, Edge' \/ ~Edge \/ stage # "main",
         Reading' <=> Reading, IF_' => handler' = "none"
  PROVE  OrderInv'
<1>1. Top' = Top
  BY DEF Top
<1>2. Surplus' => Surplus
  BY DEF Surplus
<1>3. KeysInOrder'
  BY DEF OrderInv, ReadInv, KeysInOrder, Again
<1>4. ReadInv'
  BY <1>1, <1>2 DEF OrderInv, ReadInv, Again
<1> QED
  BY <1>3, <1>4 DEF OrderInv

\* A scancode comes: it was not read before, and its edge is on its way.
LEMMA SendKeepsOrder ==
  ASSUME OrderInv, KeyInv, Send
  PROVE  OrderInv'
<1>1. /\ ~full /\ full' /\ sent' = sent + 1 /\ sent \in Nat
      /\ UNCHANGED <<stage, IF_, handled, drained, raced, handler>>
  BY KeysAssumption DEF Send, KeyInv
<1>2. Edge'
  BY DEF Send, KeyInv, Pic, Edge
<1>3. Top' = Top /\ (Surplus' => Surplus) /\ (Reading' <=> Reading)
  BY <1>1 DEF Top, Surplus, Reading
<1>4. KeysInOrder'
  BY <1>1 DEF OrderInv, KeysInOrder, Again
<1>5. ReadInv'
  BY <1>1, <1>2, <1>3 DEF OrderInv, ReadInv, Again
<1> QED
  BY <1>4, <1>5 DEF OrderInv

\* The edge is taken and the handler started: what was on its way is under way.
LEMMA InterruptKeepsOrder ==
  ASSUME OrderInv, GateInv, KeyInv, Interrupt
  PROVE  OrderInv'
<1>1. /\ IF_ /\ IF_' = FALSE /\ handler = "none" /\ handler' = "scancode"
      /\ UNCHANGED <<stage, sent, full, handled, drained, raced>>
  BY DEF Interrupt, OrderInv, ReadInv, kbd
<1>2. Edge /\ ~Edge'
  <2>1. PICK line \in Asked :
          pic' = [pic EXCEPT !.irr = @ \ {line}, !.isr = @ \cup {line}]
    BY DEF Interrupt
  <2>2. line = Keyboard /\ Keyboard \in pic.irr
    BY <1>1, <2>1, KeyboardAsks DEF Asked
  <2> QED
    BY <2>1, <2>2 DEF KeyInv, Pic, Edge
<1>3. ~Reading /\ Reading'
  BY <1>1 DEF Reading
<1>4. Top' = Top /\ (Surplus' => Surplus)
  BY <1>1, <1>2, <1>3 DEF Top, Surplus
<1>5. KeysInOrder'
  BY <1>1 DEF OrderInv, KeysInOrder, Again
<1>6. ReadInv'
  BY <1>1, <1>2, <1>3, <1>4 DEF OrderInv, ReadInv, Again
<1> QED
  BY <1>5, <1>6 DEF OrderInv

\* reset_keyboard empties the buffer: nothing read so far is behind what it took.
LEMMA ResetKeepsOrder ==
  ASSUME OrderInv, KeyInv, ResetKeyboard
  PROVE  OrderInv'
<1>1. /\ full' = FALSE /\ drained' = sent /\ stage = "reset" /\ stage' = "main"
      /\ UNCHANGED <<IF_, pic, sent, handled, handler>> /\ handler = "none"
  BY Zenon DEF ResetKeyboard, Goes
<1>2. raced' <=> Edge
  BY Zenon DEF ResetKeyboard, Edge
<1>3. (Edge' <=> Edge) /\ ~Reading /\ ~Reading'
  BY <1>1 DEF Edge, Reading
<1>4. sent \in Nat /\ full \in BOOLEAN /\ handled \in Seq(Nat)
  BY KeysAssumption DEF KeyInv
<1>5. ~raced /\ \A i \in DOMAIN handled : ~Again(i) /\ handled[i] <= sent
  <2>1. ~raced /\ \A i \in DOMAIN handled : ~Again(i)
    BY <1>1 DEF OrderInv, ReadInv, KeysInOrder
  <2>2. Top <= sent /\ Top \in Int
    BY <1>4 DEF Top
  <2>3. ASSUME NEW i \in DOMAIN handled
        PROVE  handled[i] <= sent
    <3>1. handled[i] <= Top /\ handled[i] \in Nat
      BY <1>4, <2>3 DEF OrderInv, ReadInv
    <3> QED
      BY <1>4, <2>2, <3>1
  <2> QED
    BY <2>1, <2>3
<1>6. Top' = sent /\ (Surplus' => raced')
  BY <1>1, <1>2, <1>3 DEF Top, Surplus
<1>7. \A i \in DOMAIN handled' : ~Again(i)' /\ handled'[i] <= drained'
  BY <1>1, <1>5 DEF Again
<1>8. KeysInOrder'
  <2>1. \A i \in DOMAIN handled' : i > 1 => Again(i)' \/ handled'[i - 1] < handled'[i]
    BY <1>1 DEF OrderInv, KeysInOrder, Again
  <2>2. \A i \in DOMAIN handled' : ~(handled'[i] > drained')
    <3> TAKE i \in DOMAIN handled'
    <3>1. handled'[i] <= drained' /\ handled'[i] \in Nat /\ drained' \in Nat
      BY <1>1, <1>4, <1>7
    <3> QED
      BY <3>1
  <2> QED
    BY <1>7, <2>1, <2>2 DEF KeysInOrder
<1>9. ReadInv'
  BY <1>1, <1>3, <1>4, <1>5, <1>6, <1>7 DEF OrderInv, ReadInv
<1> QED
  BY <1>8, <1>9 DEF OrderInv

\* A reading gives the next scancode, or the last one again and then it is the surplus one.
LEMMA ReadingKeepsOrder ==
  ASSUME OrderInv, KeyInv, ReadScancode
  PROVE  OrderInv'
<1>0. PICK k \in Nat : k = Len(handled)
  BY DEF KeyInv
<1>1. /\ handler = "scancode" /\ handler' = "status" /\ full' = FALSE
      /\ handled' = Append(handled, sent)
      /\ UNCHANGED <<stage, IF_, pic, sent, drained, raced>>
  BY DEF ReadScancode, Handles
<1>2. sent \in Nat /\ drained \in Nat /\ full \in BOOLEAN /\ handled \in Seq(Nat) /\ k \in Nat
  BY <1>0, KeysAssumption DEF KeyInv
<1>3. /\ DOMAIN handled = 1..k /\ DOMAIN handled' = 1..(k + 1) /\ Len(handled') = k + 1
      /\ handled'[k + 1] = sent /\ \A i \in 1..k : handled'[i] = handled[i]
      /\ \A i \in 1..k : handled[i] \in Nat
  BY <1>0, <1>1, <1>2
<1>4. Reading /\ ~Reading' /\ (Edge' <=> Edge) /\ Top' = sent /\ Top \in Int
  BY <1>1, <1>2 DEF Reading, Edge, Top
<1>5. \A i \in 1..k : Again(i)' <=> Again(i)
  <2> TAKE i \in 1..k
  <2>1. i > 1 => i - 1 \in 1..k
    BY <1>2
  <2> QED
    BY <1>3, <2>1 DEF Again
<1>6. Again(k + 1)' <=> k > 0 /\ handled[k] = sent
  <2>1. k > 0 => k \in 1..k
    BY <1>2
  <2> QED
    BY <1>2, <1>3, <2>1 DEF Again
<1>7. \A i \in 1..k : handled[i] <= Top
  BY <1>3 DEF OrderInv, ReadInv
<1>8. /\ full => ~Again(k + 1)' /\ (k > 0 => handled[k] < sent)
      /\ ~full => /\ stage = "main" /\ raced /\ \A i \in 1..k : ~Again(i)
                  /\ ~Again(k + 1)' => drained = sent /\ (k > 0 => handled[k] < sent)
  <2>1. k > 0 => k \in 1..k /\ handled[k] \in Nat /\ handled[k] <= Top
    BY <1>2, <1>3, <1>7
  <2>2. CASE full
    BY <1>2, <1>6, <2>1, <2>2 DEF Top
  <2>3. CASE ~full
    <3>1. stage = "main" /\ raced /\ \A i \in 1..k : ~Again(i)
      BY <1>3, <1>4, <2>3 DEF OrderInv, ReadInv, Surplus
    <3>2. Top = sent /\ drained <= sent
      BY <2>3, <3>1 DEF OrderInv, ReadInv, Top
    <3>3. drained < sent => k > 0 /\ handled[k] = sent
      <4>1. drained < sent => handled # <<>> /\ handled[k] = sent
        BY <1>0, <3>1, <3>2 DEF OrderInv, ReadInv
      <4>2. handled # <<>> => k > 0
        BY <1>0, <1>2
      <4> QED
        BY <4>1, <4>2
    <3> QED
      BY <1>2, <1>6, <2>1, <2>3, <3>1, <3>2, <3>3
  <2> QED
    BY <2>2, <2>3
<1>9. \A i \in 1..(k + 1) : i \in 1..k \/ i = k + 1
  BY <1>2
<1>10. \A i \in 1..(k + 1) : i > 1 => Again(i)' \/ handled'[i - 1] < handled'[i]
  <2> SUFFICES ASSUME NEW i \in 1..(k + 1), i > 1
               PROVE  Again(i)' \/ handled'[i - 1] < handled'[i]
    OBVIOUS
  <2>1. i - 1 \in 1..k
    BY <1>2
  <2>2. CASE i \in 1..k
    BY <1>3, <1>5, <2>1, <2>2 DEF OrderInv, KeysInOrder
  <2>3. CASE i = k + 1
    <3>1. k > 0 /\ handled'[i - 1] = handled[k] /\ handled'[i] = sent
      BY <1>2, <1>3, <2>1, <2>3
    <3> QED
      BY <1>8, <2>3, <3>1
  <2> QED
    BY <1>9, <2>2, <2>3
<1>11. \A i \in 1..(k + 1) :
         Again(i)' => raced /\ \A j \in 1..(k + 1) : Again(j)' => i = j
  <2>1. CASE Again(k + 1)'
    <3>1. raced /\ \A i \in 1..k : ~Again(i)'
      BY <1>2, <1>5, <1>8, <2>1
    <3> QED
      BY <1>9, <3>1
  <2>2. CASE ~Again(k + 1)'
    <3>1. \A i \in 1..k : Again(i)' => raced /\ \A j \in 1..k : Again(j)' => i = j
      BY <1>3, <1>5 DEF OrderInv, KeysInOrder
    <3> QED
      BY <1>9, <2>2, <3>1
  <2> QED
    BY <2>1, <2>2
<1>12. stage = "main" =>
         \A i \in 1..(k + 1) : handled'[i] > drained /\ ~Again(i)' =>
           handled'[i] = 1 + IF i > 1 /\ handled'[i - 1] > drained
                             THEN handled'[i - 1] ELSE drained
  <2> SUFFICES ASSUME stage = "main", NEW i \in 1..(k + 1), handled'[i] > drained, ~Again(i)'
               PROVE  handled'[i] = 1 + IF i > 1 /\ handled'[i - 1] > drained
                                        THEN handled'[i - 1] ELSE drained
    OBVIOUS
  <2>1. CASE i \in 1..k
    <3>1. i > 1 => i - 1 \in 1..k
      BY <1>2, <2>1
    <3>2. /\ handled'[i] = handled[i] /\ (i > 1 => handled'[i - 1] = handled[i - 1])
          /\ ~Again(i)
      BY <1>3, <1>5, <2>1, <3>1
    <3>3. handled[i] = 1 + IF i > 1 /\ handled[i - 1] > drained THEN handled[i - 1] ELSE drained
      BY <1>3, <2>1, <3>2 DEF OrderInv, KeysInOrder
    <3> QED
      BY <3>2, <3>3
  <2>2. CASE i = k + 1
    <3>1. handled'[i] = sent /\ sent > drained /\ full
      BY <1>2, <1>3, <1>8, <2>2
    <3>2. Top = sent - 1 /\ drained <= Top
      BY <3>1 DEF Top, OrderInv, ReadInv
    <3>3. (i > 1 <=> k > 0) /\ (k > 0 => handled'[i - 1] = handled[k] /\ handled[k] \in Nat)
      BY <1>2, <1>3, <2>2
    <3>4. CASE drained < Top
      <4>1. handled # <<>> /\ handled[k] = Top
        BY <1>0, <3>4 DEF OrderInv, ReadInv
      <4>2. k > 0
        BY <1>0, <1>2, <4>1
      <4> QED
        BY <1>2, <3>1, <3>2, <3>3, <3>4, <4>1, <4>2
    <3>5. CASE ~(drained < Top)
      <4>1. k > 0 => handled[k] <= Top
        BY <1>2, <1>7
      <4> QED
        BY <1>2, <3>1, <3>2, <3>3, <3>5, <4>1
    <3> QED
      BY <3>4, <3>5
  <2> QED
    BY <1>9, <2>1, <2>2
<1>13. KeysInOrder'
  BY <1>1, <1>3, <1>10, <1>11, <1>12 DEF KeysInOrder
<1>14. ReadInv'
  <2>1. (Surplus' <=> Edge) /\ (Edge => full) /\ (Edge => Surplus)
    BY <1>1, <1>4 DEF Surplus, OrderInv, ReadInv
  <2>2. Surplus' => stage = "main" /\ raced /\ \A i \in 1..(k + 1) : ~Again(i)'
    BY <1>3, <1>5, <1>8, <1>9, <2>1 DEF OrderInv, ReadInv
  <2>3. \A i \in 1..(k + 1) : handled'[i] <= sent
    <3>1. Top <= sent
      BY <1>2 DEF Top
    <3>2. \A i \in 1..k : handled[i] <= sent
      BY <1>2, <1>3, <1>4, <1>7, <3>1
    <3> QED
      BY <1>2, <1>3, <1>9, <3>2
  <2>4. stage = "main" => drained <= sent
    BY <1>2 DEF OrderInv, ReadInv, Top
  <2>5. handled' # <<>> /\ handled'[Len(handled')] = sent
    BY <1>2, <1>3
  <2>6. ~IF_'
    BY <1>1 DEF OrderInv, ReadInv
  <2> QED
    BY <1>1, <1>3, <1>4, <2>2, <2>3, <2>4, <2>5, <2>6 DEF OrderInv, ReadInv
<1> QED
  BY <1>13, <1>14 DEF OrderInv

LEMMA OrderStep ==
  ASSUME OrderInv, GateInv, KeyInv, INext
  PROVE  OrderInv'
<1>1. CASE Loop \/ Ata_ \/ Press
  <2>1. UNCHANGED <<stage, IF_, pic, sent, full, handled, drained, raced, handler>>
    BY <1>1 DEF Loop, Ata_, Press, ivars, kbd
  <2>2. (Edge' <=> Edge) /\ (Reading' <=> Reading) /\ (IF_' => handler' = "none")
    BY <2>1 DEF Edge, Reading, OrderInv, ReadInv
  <2> QED
    BY <2>1, <2>2, NothingRead
<1>2. CASE Send
  BY <1>2, SendKeepsOrder
<1>3. CASE Tick
  <2>1. UNCHANGED <<stage, IF_, sent, full, handled, drained, raced, handler>>
    BY <1>3 DEF Tick, kbd
  <2>2. Edge' <=> Edge
    BY <1>3 DEF Tick, Edge, KeyInv, Pic, Keyboard, Timer
  <2>3. (Reading' <=> Reading) /\ (IF_' => handler' = "none")
    BY <2>1 DEF Reading, OrderInv, ReadInv
  <2> QED
    BY <2>1, <2>2, <2>3, NothingRead
<1>4. CASE Interrupt
  BY <1>4, InterruptKeepsOrder
<1>5. CASE SetGates \/ Icw1 \/ Mask \/ Sti
  <2>1. /\ UNCHANGED <<sent, full, handled, drained, raced, handler>>
        /\ stage # "main" /\ stage' # "main" /\ handler = "none"
    BY <1>5 DEF SetGates, Icw1, Mask, Sti, Goes
  <2>2. Edge' => Edge
    <3>1. CASE SetGates \/ Sti
      BY <3>1 DEF SetGates, Sti, Edge
    <3>2. CASE Icw1
      <4>1. PICK irr \in {{}, pic.irr} :
              pic' = [pic EXCEPT !.mask = {}, !.irr = irr, !.isr = {}]
        BY <3>2 DEF Icw1
      <4> QED
        BY <4>1 DEF KeyInv, Pic, Edge
    <3>3. CASE Mask
      BY <3>3 DEF Mask, KeyInv, Pic, Edge
    <3> QED
      BY <1>5, <3>1, <3>2, <3>3
  <2>3. (Reading' <=> Reading) /\ handler' = "none"
    BY <2>1 DEF Reading
  <2> QED
    BY <2>1, <2>2, <2>3, NothingRead
<1>6. CASE ResetKeyboard
  BY <1>6, ResetKeepsOrder
<1>7. CASE ReadScancode
  BY <1>7, ReadingKeepsOrder
<1>8. CASE ReadStatus \/ WaitForDisk \/ OtherKey \/ DiskDone
  <2>1. /\ UNCHANGED <<stage, IF_, pic, sent, full, handled, drained, raced>>
        /\ handler \in {"status", "key", "ata"} /\ handler' \in {"key", "ata", "eoi"}
    BY <1>8 DEF ReadStatus, WaitForDisk, OtherKey, DiskDone, Handles
  <2>2. (Edge' <=> Edge) /\ (Reading' <=> Reading) /\ ~IF_'
    BY <2>1 DEF Edge, Reading, OrderInv, ReadInv
  <2> QED
    BY <2>1, <2>2, NothingRead
<1>9. CASE Eoi
  <2>1. /\ UNCHANGED <<stage, sent, full, handled, drained, raced>>
        /\ handler = "eoi" /\ handler' = "none"
    BY <1>9 DEF Eoi, Handles
  <2>2. Edge' <=> Edge
    BY <1>9 DEF Eoi, KeyInv, Pic, Edge
  <2>3. Reading' <=> Reading
    BY <2>1 DEF Reading
  <2> QED
    BY <2>1, <2>2, <2>3, NothingRead
<1> QED
  BY <1>1, <1>2, <1>3, <1>4, <1>5, <1>6, <1>7, <1>8, <1>9 DEF INext, Main, Handler

LEMMA OrderNext == IrqInv /\ OrderInv /\ [INext]_allvars => OrderInv'
<1> SUFFICES ASSUME IrqInv, OrderInv, [INext]_allvars
             PROVE  OrderInv'
  OBVIOUS
<1>1. CASE INext
  BY <1>1, OrderStep DEF IrqInv
<1>2. CASE UNCHANGED allvars
  <2>1. UNCHANGED <<stage, IF_, pic, sent, full, handled, drained, raced, handler>>
    BY <1>2 DEF allvars, ivars, kbd
  <2>2. (Edge' <=> Edge) /\ (Reading' <=> Reading) /\ (IF_' => handler' = "none")
    BY <2>1 DEF Edge, Reading, OrderInv, ReadInv
  <2> QED
    BY <2>1, <2>2, NothingRead
<1> QED
  BY <1>1, <1>2
-----------------------------------------------------------------------------
\* State stays in its types: in particular no scancode is read before one was sent.
THEOREM TypeCorrect == ISpec => []ITypeOK
<1>1. IrqInv => ITypeOK
  BY DEF IrqInv, AtaInv, AtaTypes, TypeOK, Request, Command, KeyInv, Pic, ITypeOK
<1> QED
  BY <1>1, Invariant, PTL

\* Whenever keys are pressed and the timer ticks, an interrupt is only ever taken through a
\* gate of the kernel's (kernel.c:80-99,425-443).
THEOREM VectorsStayOwn == ISpec => []OnlyOwnVectors
<1>1. IrqInv => OnlyOwnVectors
  BY KeyboardAsks DEF IrqInv, OnlyOwnVectors
<1> QED
  BY <1>1, Invariant, PTL

\* For any sector size and disk, and any answers of the drive in any time, the driver touches
\* the data port only while the drive is in the same transfer, at the same word
\* (ata.c:22-35,54-67).
THEOREM TransferStaysInStep == ISpec => []TransferInStep
<1>1. IrqInv => TransferInStep
  BY DEF IrqInv, AtaInv, DriveInv, CallInv, SameWord, TransferInStep, Operations
<1> QED
  BY <1>1, Invariant, PTL

\* A read that returned 1 has moved its sector, all of it; and so has a write, unless the drive
\* reports an error: a write it fails returns 1 as well, since the driver only waits for BSY
\* to fall (ata.c:5-38,69-73).
THEOREM SectorsAreMoved == ISpec => []SectorMoved
<1>1. IrqInv => SectorMoved
  BY DEF IrqInv, AtaInv, DriveInv
<1> QED
  BY <1>1, Invariant, PTL

\* The disk only ever changes in a write call, at the sector asked for, to the whole
\* buffer (ata.c:41-73).
THEOREM WritesOnlyHitTheirSector == ISpec => WritesHitSector
<1>1. ASSUME IrqInv, [INext]_allvars, disk' # disk
      PROVE  /\ req.op = "write" /\ pc = "settle"
             /\ disk' = [disk EXCEPT ![req.lba] = req.buf]
  <2>1. \E ok \in BOOLEAN : DevCommit(ok)
    BY <1>1 DEF allvars, vars, INext, Loop, Press, Send, Tick, Interrupt, Main, SetGates, Icw1, Mask,
      Sti, ResetKeyboard, Goes, Handler, ReadScancode, ReadStatus, OtherKey, DiskDone, Eoi,
      WaitForDisk, Call, Ata_, Driver, Drive, SendCommand, SeeDone, CheckStatus, ReadWord, WriteWord,
      Settle, DevReady, DevAnswer
  <2> QED
    BY <1>1, <2>1, CommitInCall DEF IrqInv
<1>2. IrqInv /\ [INext]_allvars =>
        [disk' # disk => /\ req.op = "write" /\ pc = "settle"
                         /\ disk' = [disk EXCEPT ![req.lba] = req.buf]]_vars
  BY <1>1
<1> QED
  BY <1>2, Invariant, PTL DEF ISpec, WritesHitSector

\* However many keys are pressed, and whenever: no scancode is handled after a later one,
\* none is lost from reset_keyboard on, and at most one in all is read twice
\* (kernel.c:267-268,386,491-500).
THEOREM KeysStayInOrder == ISpec => []KeysInOrder
<1>1. OrderInv => KeysInOrder
  BY DEF OrderInv
<1> QED
  BY <1>1, OrderInit, OrderNext, Invariant, PTL DEF ISpec
=============================================================================
