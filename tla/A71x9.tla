------------------------------- MODULE A71x9 -------------------------------
(***************************************************************************)
(* drv/a71x9.c: a radio chip that tells by the edges of two pins that a    *)
(* packet is out or in, a preamble or a sync word seen, and not which: the *)
(* driver tells a packet sent from one received by the mode it has put the *)
(* chip in, which it notes after the command.  Interrupts are handled      *)
(* between any two steps of a call.                                        *)
(*                                                                         *)
(* Abstracted: the values of the configuration, which a fault stands for   *)
(* that a check of _reinitialize or _calibration finds.                    *)
(***************************************************************************)
EXTENDS Integers, SequencesExt

CONSTANTS
  MostBytes,   \* of a packet: 63, and the length
  A7Lengths, A7Heard,  \* environment: lengths written, and of packets of other stations
  A7BufLen,    \* environment: of the buffer read is given
  MaxHeard, MaxWritten,
  PinFunctions,   \* what the two pins may be configured for
  ReadLate,    \* environment: a packet is read after something else was begun,
  ServedLate,  \* an interrupt is handled after the call went on,
  SlowTask     \* a packet is out or in before the mode is noted

A71x9Assumption ==
  /\ MostBytes \in Nat \ {0} /\ A7Lengths \subseteq Nat \ {0} /\ A7Heard \subseteq 1 .. MostBytes
  /\ PinFunctions # {} /\ PinFunctions \subseteq {"packet", "sync", "preamble", "other"}
  /\ {ReadLate, ServedLate, SlowTask} \subseteq BOOLEAN

VARIABLES
  a7,       \* a71x9_describe_t: opened, state, gio; pc and op: the call, len: of the last packet written,
            \* got: what the last read has returned, works: the last _reinitialize did
  a7Chip,   \* mode, tx and rx: its FIFOs, first the length; out: the packet it sent;
            \* heard and written: how many packets came and were to be sent
  a7Pend,   \* per pin, what an edge not yet handled was for
  a7User    \* the caller: waits for a packet to be sent, has one to read;
            \* told: the last event and what it was for

a7Vars == <<a7, a7Chip, a7Pend, a7User>>

Pins == {"gio1", "gio2"}
Quiet == [p \in Pins |-> "none"]
Packet(who, n, len) == <<len>> \o [i \in 1 .. len |-> <<who, n, i>>]
Fewer(m, n) == IF m < n THEN m ELSE n

\* A caller that does something else before it reads a packet gives the packet up.
Anew == [sending |-> FALSE, unread |-> FALSE, event |-> "none", was |-> "none"]

A7Init ==
  /\ \E one, two \in PinFunctions :
       a7 = [opened |-> FALSE, state |-> "standby", gio |-> [p \in Pins |-> IF p = "gio1" THEN one ELSE two],
             pc |-> "idle", op |-> "none", len |-> 0, got |-> <<>>, works |-> FALSE]
  /\ a7Chip = [mode |-> "standby", tx |-> <<>>, rx |-> <<>>, out |-> <<>>, heard |-> 0, written |-> 0]
  /\ a7Pend = Quiet
  /\ a7User = Anew

-----------------------------------------------------------------------------
(* The calls.                                                              *)
Idle == a7.pc = "idle"
Served == ServedLate \/ a7Pend = Quiet
Begin(op, pc) == a7' = [a7 EXCEPT !.op = op, !.pc = pc]

\* CMD_RESET and the tables; the checks; standby.  Closed again if that fails on opening.
ReinitializeBegin ==
  /\ a7' = [a7 EXCEPT !.op = IF @ = "open" THEN @ ELSE "reinitialize", !.pc = "checks", !.works = FALSE]
  /\ a7Chip' = [a7Chip EXCEPT !.mode = "standby", !.tx = <<>>, !.rx = <<>>]
  /\ a7User' = Anew
  /\ UNCHANGED a7Pend
Open(works) == /\ Idle /\ ~a7.opened
               /\ IF works THEN Begin("open", "reset") ELSE UNCHANGED a7
               /\ UNCHANGED <<a7Chip, a7Pend, a7User>>
Reset == a7.pc = "reset" /\ ReinitializeBegin
Reinitialize == Idle /\ a7.opened /\ Served /\ ReinitializeBegin
Checks(works) ==
  /\ a7.pc = "checks" /\ Served
  /\ a7' = [a7 EXCEPT !.pc = "idle", !.op = "none", !.works = works,
                      !.state = IF works THEN "standby" ELSE @,
                      !.opened = IF a7.op = "open" THEN works ELSE @]
  /\ UNCHANGED <<a7Chip, a7Pend, a7User>>

\* deinit masks the interrupt.
Close == /\ Idle /\ a7.opened /\ a7' = [a7 EXCEPT !.opened = FALSE] /\ a7Pend' = Quiet
         /\ a7User' = Anew /\ UNCHANGED a7Chip

Ready == Idle /\ a7.opened /\ a7.works /\ Served /\ ~a7User.sending

Write(len) == /\ Ready /\ a7Chip.written < MaxWritten
              /\ a7' = [a7 EXCEPT !.op = "tx", !.len = len, !.pc = "standby"]
              /\ a7User' = [Anew EXCEPT !.sending = TRUE, !.unread = ReadLate /\ a7User.unread]
              /\ a7Chip' = [a7Chip EXCEPT !.written = @ + 1] /\ UNCHANGED a7Pend
StartReceiving == Ready /\ Begin("rx", "standby") /\ a7User' = [a7User EXCEPT !.unread = ReadLate /\ @] /\ UNCHANGED <<a7Chip, a7Pend>>

To(pc) == a7' = [a7 EXCEPT !.pc = pc]
Standby == /\ a7.pc = "standby" /\ Served /\ To("fill")
           /\ a7Chip' = [a7Chip EXCEPT !.mode = "standby"] /\ UNCHANGED <<a7Pend, a7User>>

\* Mutant: as many as there are.
AllOfThem(len) == len
Clipped(len) == Fewer(len, MostBytes)

\* The FIFO takes no more than it holds.
Fill ==
  LET packet == Packet("own", a7Chip.written, Clipped(a7.len)) IN
  /\ a7.pc = "fill" /\ Served /\ To("strobe")
  /\ a7Chip' = IF a7.op = "tx" THEN [a7Chip EXCEPT !.tx = SubSeq(packet, 1, Fewer(Len(packet), MostBytes + 1))]
               ELSE a7Chip
  /\ UNCHANGED <<a7Pend, a7User>>
Strobe == /\ a7.pc = "strobe" /\ Served /\ To("note")
          /\ a7Chip' = [a7Chip EXCEPT !.mode = a7.op] /\ UNCHANGED <<a7Pend, a7User>>

\* Mutant: only what is sent is noted.
OnlyTx(op) == IF op = "tx" THEN "tx" ELSE a7.state
Noted(op) == op
Note == /\ a7.pc = "note" /\ Served
        /\ a7' = [a7 EXCEPT !.pc = "idle", !.op = "none", !.state = Noted(a7.op)]
        /\ UNCHANGED <<a7Chip, a7Pend, a7User>>

\* Mutant: as many as the length says.
AsItSays(rx) == Tail(rx)
Taken(rx) == SubSeq(Tail(rx), 1, Fewer(Head(rx), A7BufLen))

\* The FIFO is read from its beginning, and the chip listens again.
Read == /\ Idle /\ a7.opened /\ Served /\ a7User.unread /\ a7Chip.rx # <<>>
        /\ a7' = [a7 EXCEPT !.op = "read", !.pc = "listen", !.got = Taken(a7Chip.rx)]
        /\ a7User' = [a7User EXCEPT !.unread = FALSE] /\ UNCHANGED <<a7Chip, a7Pend>>
Listen == /\ a7.pc = "listen" /\ Served
          /\ a7' = [a7 EXCEPT !.op = "none", !.pc = "idle"]
          /\ a7Chip' = [a7Chip EXCEPT !.mode = "rx"] /\ UNCHANGED <<a7Pend, a7User>>

\* What was read or written of a FIFO begins again.
ClearReceiver == /\ Ready /\ a7User' = [a7User EXCEPT !.unread = FALSE] /\ UNCHANGED <<a7, a7Chip, a7Pend>>
ClearTransmitter == /\ Ready /\ a7Chip' = [a7Chip EXCEPT !.tx = <<>>] /\ UNCHANGED <<a7, a7Pend, a7User>>

-----------------------------------------------------------------------------
(* The chip.  Leaving a mode by a command raises no edge.                  *)
Raised(function, what) == [p \in Pins |-> IF a7.gio[p] = function THEN what ELSE a7Pend[p]]
InTime == SlowTask \/ a7.pc # "note"

Sent == /\ a7Chip.mode = "tx" /\ InTime
        /\ a7Chip' = [a7Chip EXCEPT !.mode = "standby", !.out = a7Chip.tx]
        /\ a7Pend' = Raised("packet", "sent") /\ UNCHANGED <<a7, a7User>>
Arrives(len) == /\ a7Chip.mode = "rx" /\ InTime /\ a7Chip.heard < MaxHeard
                /\ a7Chip' = [a7Chip EXCEPT !.mode = "standby", !.heard = @ + 1,
                                            !.rx = Packet("other", a7Chip.heard + 1, len)]
                /\ a7Pend' = Raised("packet", "received") /\ UNCHANGED <<a7, a7User>>
Detects(what) == /\ a7Chip.mode = "rx" /\ InTime
                 /\ a7Pend' = Raised(what, what) /\ UNCHANGED <<a7, a7Chip, a7User>>

\* __tx_state_interrupt_handling and __rx_state_interrupt_handling.
EventOf(state, function) ==
  CASE state = "tx" /\ function = "packet" -> "sent"
    [] state = "rx" /\ function = "packet" -> "received"
    [] state = "rx" /\ function = "sync" -> "sync"
    [] state \in {"tx", "rx"} /\ function = "preamble" -> "preamble"
    [] OTHER -> "none"

InterruptHandling(p) ==
  LET event == EventOf(a7.state, a7.gio[p]) IN
  /\ a7Pend[p] # "none" /\ a7.opened
  /\ a7Pend' = [a7Pend EXCEPT ![p] = "none"]
  /\ a7User' = [a7User EXCEPT !.event = event, !.was = a7Pend[p], !.sending = @ /\ event # "sent",
                              !.unread = IF event = "received" THEN Idle \/ ReadLate ELSE @]
  /\ UNCHANGED <<a7, a7Chip>>

A7Next ==
  \/ \E works \in BOOLEAN : Open(works) \/ Checks(works)
  \/ Reset \/ Reinitialize \/ Close \/ StartReceiving \/ Standby \/ Fill \/ Strobe \/ Note
  \/ Read \/ Listen \/ ClearReceiver \/ ClearTransmitter
  \/ \E len \in A7Lengths : Write(len)
  \/ \E len \in A7Heard : Arrives(len)
  \/ \E what \in {"sync", "preamble"} : Detects(what)
  \/ \E p \in Pins : InterruptHandling(p)
  \/ Sent
A7Spec == A7Init /\ [][A7Next]_a7Vars

-----------------------------------------------------------------------------
(* What the caller is told is what happened, and a packet out or in is     *)
(* told: between the calls the mode the driver has noted is the chip's.    *)
A7EventsTrue ==
  /\ a7User.event # "none" => a7User.event = a7User.was
  /\ a7User.was \in {"sent", "received"} => a7User.event = a7User.was
  /\ Idle /\ a7Chip.mode \in {"tx", "rx"} => a7.state = a7Chip.mode \/ ~a7.opened

(* A packet told sent is the last one written, as much of it as fits, with *)
(* its length before it; what read returns is what came, as much of it as  *)
(* the buffer holds.                                                       *)
A7PacketsWhole ==
  /\ a7User.event = "sent" => a7Chip.out = Packet("own", a7Chip.written, Fewer(a7.len, MostBytes))
  /\ a7.pc = "listen" =>
       \E len \in A7Heard :
         /\ a7Chip.rx = Packet("other", a7Chip.heard, len)
         /\ a7.got = SubSeq(Tail(a7Chip.rx), 1, Fewer(len, A7BufLen))
=============================================================================
