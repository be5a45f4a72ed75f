-------------------------------- MODULE Irq ---------------------------------
(* From a key to its handler: the keyboard controller with its one byte of   *)
(* output, the interrupt controller, kernel_main's set-up of both, and the   *)
(* handler, which may wait for the drive of Ata before it sends the end of   *)
(* interrupt.  The timer ticks all the while.                                *)
EXTENDS Ata

CONSTANT MaxKeys  \* bound: scancodes the keyboard sends

ASSUME KeysAssumption == MaxKeys \in Nat

Timer == 0
Keyboard == 1
Lines == {Timer, Keyboard}

VARIABLES stage,   \* what kernel_main does next, "main" once it is past reset_keyboard
          IF_,     \* the processor takes interrupts
          gates,   \* vectors of the loaded IDT that have a handler
          pic,     \* master: vector of line 0, mask, requests, lines in service
          pressed, \* scancodes are counted: so many came from the keys,
          sent,    \* so many reached the output buffer,
          full,    \* whose last one is still in there,
          handled, \* and these a handler has read, in this order
          drained, \* sent when reset_keyboard read the buffer,
          raced,   \* and whether an interrupt was on its way then
          handler  \* what the handler does next, "none" when it does not run

kbd == <<pressed, sent, full>>
ivars == <<stage, IF_, gates, pic, kbd, handled, drained, raced, handler>>

Stages == {"gates", "icw1", "mask", "sti", "reset", "main"}
Handlers == {"none", "scancode", "status", "key", "ata", "eoi"}

ITypeOK == /\ TypeOK
           /\ stage \in Stages /\ IF_ \in BOOLEAN /\ gates \subseteq 0..255
           /\ pic \in [base : {8, 32}, mask : SUBSET Lines, irr : SUBSET Lines,
                       isr : SUBSET Lines]
           /\ pressed \in 0..MaxKeys /\ sent \in 0..pressed /\ full \in BOOLEAN
           /\ handled \in Seq(1..MaxKeys)
           /\ drained \in 0..sent /\ raced \in BOOLEAN /\ handler \in Handlers

\* The boot loader turned interrupts off; the PIC is as the firmware left it.
IInit == /\ Init
         /\ stage = "gates" /\ IF_ = FALSE /\ gates = {}
         /\ pic = [base |-> 8, mask |-> {}, irr |-> {}, isr |-> {}]
         /\ pressed = 0 /\ sent = 0 /\ full = FALSE
         /\ handled = <<>> /\ drained = 0 /\ raced = FALSE /\ handler = "none"
-----------------------------------------------------------------------------
\* The hardware.  A byte moves on when the buffer is empty, and is an edge of the line.
Press == /\ pressed < MaxKeys
         /\ pressed' = pressed + 1
         /\ UNCHANGED <<stage, IF_, gates, pic, sent, full, handled, drained, raced, handler, vars>>

Send == /\ ~full /\ sent < pressed
        /\ sent' = sent + 1 /\ full' = TRUE
        /\ pic' = [pic EXCEPT !.irr = @ \cup {Keyboard}]
        /\ UNCHANGED <<stage, IF_, gates, pressed, handled, drained, raced, handler, vars>>

\* A masked request is forgotten here: nothing unmasks a line again.
Tick == /\ Timer \notin pic.mask
        /\ pic' = [pic EXCEPT !.irr = @ \cup {Timer}]
        /\ UNCHANGED <<stage, IF_, gates, kbd, handled, drained, raced, handler, vars>>

\* The lines the processor is asked to serve: not masked, and above all in service.
Asked == {line \in pic.irr \ pic.mask : \A l \in pic.isr : line < l}
Vector(line) == pic.base + line

Interrupt ==
  /\ IF_ /\ \E line \in Asked :
       /\ \A l \in Asked : line <= l
       /\ Vector(line) \in gates
       /\ pic' = [pic EXCEPT !.irr = @ \ {line}, !.isr = @ \cup {line}]
  /\ IF_' = FALSE /\ handler' = "scancode"
  /\ UNCHANGED <<stage, gates, kbd, handled, drained, raced, vars>>
-----------------------------------------------------------------------------
\* kernel_main, when the handler does not run.
Goes(here, there) == /\ stage = here /\ stage' = there /\ handler = "none"
                     /\ UNCHANGED <<pressed, sent, handled, handler, vars>>

SetGates == /\ Goes("gates", "icw1")
            /\ gates' = {14, 33}
            /\ UNCHANGED <<IF_, pic, full, drained, raced>>

\* ICW1 forgets mask and requests; a line that is high may count as an edge or not.
Icw1 == /\ Goes("icw1", "mask")
        /\ \E irr \in {{}, pic.irr} :
             pic' = [pic EXCEPT !.mask = {}, !.irr = irr, !.isr = {}]
        /\ UNCHANGED <<IF_, gates, full, drained, raced>>

\* Slip: the mask lets the timer through.
MaskNone == /\ Goes("mask", "sti")
            /\ pic' = [pic EXCEPT !.base = 32, !.mask = {}]
            /\ UNCHANGED <<IF_, gates, full, drained, raced>>

\* ICW2 to ICW4, and the mask.
Mask == /\ Goes("mask", "sti")
        /\ pic' = [pic EXCEPT !.base = 32, !.mask = {Timer}, !.irr = @ \ {Timer}]
        /\ UNCHANGED <<IF_, gates, full, drained, raced>>

Sti == /\ Goes("sti", "reset")
       /\ IF_' = TRUE
       /\ UNCHANGED <<gates, pic, full, drained, raced>>

\* Slip: the buffer is not read.
ResetKeyboardNoRead == /\ Goes("reset", "main")
                       /\ drained' = sent /\ raced' = (Keyboard \in pic.irr)
                       /\ UNCHANGED <<IF_, gates, pic, full>>

\* The command does nothing to the controller (no output line is pulsed); the read
\* empties the buffer, whether or not an interrupt for it is on its way.
ResetKeyboard == /\ Goes("reset", "main")
                 /\ full' = FALSE /\ drained' = sent /\ raced' = (Keyboard \in pic.irr)
                 /\ UNCHANGED <<IF_, gates, pic>>

Main == SetGates \/ Icw1 \/ Mask \/ Sti \/ ResetKeyboard
-----------------------------------------------------------------------------
\* keyboard_handler.
Handles(here, there) == /\ handler = here /\ handler' = there
                        /\ UNCHANGED <<stage, gates, pressed, sent, drained, raced>>

\* An empty buffer gives the last byte again.
ReadScancode == /\ Handles("scancode", "status")
                /\ full' = FALSE /\ handled' = Append(handled, sent)
                /\ UNCHANGED <<IF_, pic, vars>>

\* Slip: the status is read from the data port.
ReadStatusData == /\ Handles("status", "key")
                  /\ full' = FALSE
                  /\ UNCHANGED <<IF_, pic, handled, vars>>

ReadStatus == /\ Handles("status", "key")
              /\ UNCHANGED <<IF_, pic, full, handled, vars>>

\* 'w' and 'q' wait for the drive; other keys, and keys let go, wait for nothing.
WaitForDisk == /\ Handles("key", "ata")
               /\ \E lba \in Lbas : \/ Call("read", lba, <<>>)
                                    \/ \E buf \in Sector : Call("write", lba, buf)
               /\ UNCHANGED <<IF_, pic, full, handled>>
OtherKey == /\ Handles("key", "eoi")
            /\ UNCHANGED <<IF_, pic, full, handled, vars>>

DiskDone == /\ Handles("ata", "eoi") /\ pc = "idle"
            /\ UNCHANGED <<IF_, pic, full, handled, vars>>

\* The end of interrupt is for the highest line in service; iret turns interrupts on.
Eoi == /\ Handles("eoi", "none")
       /\ pic' = [pic EXCEPT !.isr = {l \in @ : \E m \in @ : m < l}]
       /\ IF_' = TRUE
       /\ UNCHANGED <<full, handled, vars>>

Handler == \/ ReadScancode \/ ReadStatus \/ WaitForDisk \/ OtherKey \/ DiskDone \/ Eoi
Ata_ == (Driver \/ Drive) /\ UNCHANGED ivars

\* The main loop does nothing.
Loop == stage = "main" /\ handler = "none" /\ UNCHANGED <<ivars, vars>>

INext == Loop \/ Press \/ Send \/ Tick \/ Interrupt \/ Main \/ Handler \/ Ata_

allvars == <<ivars, vars>>

\* The processor goes on, the controllers pass on what they hold, and the drive ends what it
\* is busy with.
ISpec == /\ IInit /\ [][INext]_allvars
         /\ WF_ivars(Send) /\ WF_ivars(Interrupt) /\ WF_ivars(Main) /\ WF_ivars(Handler)
         /\ WF_vars(Driver) /\ WF_vars(Drive)
-----------------------------------------------------------------------------
\* An interrupt is only ever taken through a gate of the kernel's, though the timer goes
\* on ticking and the firmware's vectors are other ones (kernel.c:80-99,425-443).
OnlyOwnVectors == IF_ => \A line \in Asked : Vector(line) \in gates

\* The i-th scancode a handler read is the one before it over again.
Again(i) == i > 1 /\ handled[i] = handled[i - 1]

\* No scancode is handled after a later one.  From reset_keyboard on the handler reads them
\* without a gap, also those that come while it runs; before, they may get lost.  None is
\* read twice, but a single one if reset_keyboard took a byte whose interrupt was on its way:
\* the handler is then ahead of the keys by one reading (kernel.c:267-268,386,491-500).
KeysInOrder ==
  /\ \A i \in DOMAIN handled : i > 1 => Again(i) \/ handled[i - 1] < handled[i]
  /\ \A i \in DOMAIN handled : Again(i) => raced /\ \A j \in DOMAIN handled : Again(j) => i = j
  /\ stage = "main" =>
       \A i \in DOMAIN handled : handled[i] > drained /\ ~Again(i) =>
         handled[i] = 1 + IF i > 1 /\ handled[i - 1] > drained THEN handled[i - 1] ELSE drained

\* Once kernel_main is past reset_keyboard, every key reaches the handler and the handler
\* returns: no edge lost before leaves the buffer full for good, no polling loop waits for
\* what an error or the end of a transfer never brings, and every way through the handler
\* sends the end of interrupt (kernel.c:272-386, ata.c:8,22,44,54,70).
EveryKeyHandled ==
  \A n \in 1..MaxKeys :
    stage = "main" /\ n > drained /\ n <= pressed ~>
      handler = "none" /\ \E i \in DOMAIN handled : handled[i] = n
=============================================================================
