------------------------------- MODULE W1Bus -------------------------------
(***************************************************************************)
(* drv/w1_bus.c: bits on one wire, told by how long it is low.  A call is  *)
(* a row of slots: a reset, bits written, bits read; every slot runs in a  *)
(* critical section with the delays of the table that is set.              *)
(*                                                                         *)
(* The device on the wire times by itself: it samples, answers and holds   *)
(* anywhere within the limits of its speed, may be plugged in and out, and *)
(* is at standard speed or, once told, at overdrive.                       *)
(***************************************************************************)
EXTENDS Naturals, Sequences

CONSTANTS
  RomIds,      \* what a device may have as its id: sequences of bits with a right CRC,
  W1Data,      \* what callers write: sequences of bits,
  MaxW1Calls, MaxPlugs, \* bounds on calls and on comings and goings
  ShortedBus   \* environment: the wire may be short-circuited

ReadRom == <<1, 1>>
SkipRom == <<0, 1>>
OverdriveSkipRom == <<1, 0>>

Bit == {0, 1}
\* Two bits and their CRC; like checksum_crc8_maxim's, that of zeros is zero.
Crc(b) == <<b[2], (b[1] + b[2]) % 2>>
CrcRight(rom) == SubSeq(rom, 3, 4) = Crc(rom)

W1BusAssumption == /\ \A rom \in RomIds : rom \in [1 .. 4 -> Bit] /\ CrcRight(rom)
                   /\ \A d \in W1Data : d \in Seq(Bit)
                   /\ MaxW1Calls \in Nat /\ MaxPlugs \in Nat /\ ShortedBus \in BOOLEAN

VARIABLES
  w1,     \* the driver: is it open, pdesc->speed, and the slot table by name
  w1Call, \* the call that runs: [op, todo: slots, got: bits read], and what the last one returned
  w1Dev,  \* the device: on the wire, its id and speed, what it is doing, the bits it took
  w1Sent  \* history: the bits written since a reset, a read being a 1, sure: all at the device's speed;
          \* quiet: nothing plugged since the last call; counts

w1Vars == <<w1, w1Call, w1Dev, w1Sent>>

-----------------------------------------------------------------------------
(* _set_standard_speed, _set_overdriver_speed; a table of the caller's.    *)
SlotTable(name) ==
  CASE name = "standard" -> [rstl |-> 500, rst_msp |-> 70, rsth |-> 430, rl |-> 6, r_msp |-> 9,
                             rh |-> 55, w0l |-> 60, w0h |-> 10, w1l |-> 6, w1h |-> 64]
    [] name = "overdrive" -> [rstl |-> 70, rst_msp |-> 9, rsth |-> 40, rl |-> 1, r_msp |-> 1,
                              rh |-> 7, w0l |-> 8, w0h |-> 3, w1l |-> 1, w1h |-> 8]
    [] name = "custom" -> [rstl |-> 600, rst_msp |-> 72, rsth |-> 600, rl |-> 5, r_msp |-> 8,
                           rh |-> 90, w0l |-> 90, w0h |-> 20, w1l |-> 5, w1h |-> 90]
SpeedOf(name) == IF name = "overdrive" THEN "overdrive" ELSE "standard"
t == SlotTable(w1.slot)

(* The device's limits, in microseconds.                                   *)
Limits(speed) ==
  IF speed = "standard"
  THEN [reset |-> 480, samples |-> {15, 60}, holds |-> {15, 60}, waits |-> {15, 60}, presence |-> {60, 240}, ready |-> 480]
  ELSE [reset |-> 48, samples |-> {2, 6}, holds |-> {2, 6}, waits |-> {2, 6}, presence |-> {8, 24}, ready |-> 48]

W1Init == /\ w1 \in [open : {FALSE}, speed : {"standard", "overdrive"}, slot : {"standard"}, short : {FALSE}]
          /\ w1Call = [op |-> "none", todo |-> <<>>, got |-> <<>>, last |-> "none", rom |-> <<>>]
          /\ w1Dev = [on |-> FALSE, id |-> <<>>, speed |-> "standard", does |-> "nothing", took |-> <<>>, late |-> FALSE]
          /\ w1Sent = [bits |-> <<>>, sure |-> FALSE, quiet |-> TRUE, calls |-> 0, plugs |-> 0]

-----------------------------------------------------------------------------
(* What the device makes of the wire, external.                            *)
Idle(d) == [d EXCEPT !.does = "nothing", !.took = <<>>]

\* A whole byte as a command.
Commanded(d) ==
  IF d.does # "rom" \/ Len(d.took) < Len(ReadRom) THEN d
  ELSE CASE d.took = ReadRom -> [d EXCEPT !.does = "send", !.took = <<>>]
         [] d.took = SkipRom -> [d EXCEPT !.does = "take", !.took = <<>>]
         [] d.took = OverdriveSkipRom -> [d EXCEPT !.does = "take", !.took = <<>>, !.speed = "overdrive"]
         [] OTHER -> Idle(d)

\* A low of the given length, and the time until the next one.
Felt(d, low, high, sample) ==
  LET limits == Limits(d.speed)
      rest == [d EXCEPT !.late = low + high <= sample]
  IN  IF ~d.on THEN d
      ELSE IF low >= limits.reset
        THEN [d EXCEPT !.does = "rom", !.took = <<>>, !.late = FALSE,
                       !.speed = IF low >= 480 THEN "standard" ELSE @]
      ELSE IF d.late THEN [d EXCEPT !.late = FALSE]
      ELSE CASE d.does \in {"rom", "take"} -> Commanded([rest EXCEPT !.took = Append(@, IF low >= sample THEN 0 ELSE 1)])
             [] d.does = "send" -> IF Len(d.took) + 1 = Len(d.id) THEN Idle(rest)
                                   ELSE [rest EXCEPT !.took = Append(@, d.id[Len(d.took) + 1])]
             [] OTHER -> rest

\* Does it hold the wire low, `at` after the wire fell, in a slot it answers?
Holds(d, at, hold) == /\ d.on /\ ~d.late /\ d.does = "send" /\ d.id[Len(d.took) + 1] = 0
                      /\ at <= hold

-----------------------------------------------------------------------------
(* The slots.                                                              *)
Seen(high) == IF high /\ ~w1.short THEN 1 ELSE 0
Got(bit) == w1Call' = [w1Call EXCEPT !.todo = Tail(@), !.got = Append(@, bit)]
Sure == w1Sent.sure /\ ~w1.short /\ w1Dev.speed = SpeedOf(w1.slot)
Pending == w1Call.todo # <<>> /\ UNCHANGED w1

\* Mutant: a microsecond too late.
ReadTooLate == t.rl + t.r_msp + 1
SampledAt == t.rl + t.r_msp
ReadBit ==
  /\ Pending /\ Head(w1Call.todo) = "read"
  /\ w1Sent' = [w1Sent EXCEPT !.bits = IF w1Dev.does = "send" THEN @ ELSE Append(@, 1), !.sure = Sure]
  /\ \E sample \in Limits(w1Dev.speed).samples, hold \in Limits(w1Dev.speed).holds :
       /\ w1Dev' = Felt(w1Dev, t.rl, t.r_msp + t.rh, sample)
       /\ Got(Seen(~Holds(w1Dev, SampledAt, hold)))

WriteBit ==
  /\ Pending
  /\ \E bit \in Bit, sample \in Limits(w1Dev.speed).samples :
       /\ Head(w1Call.todo) = IF bit = 1 THEN "write 1" ELSE "write 0"
       /\ w1Dev' = IF bit = 1 THEN Felt(w1Dev, t.w1l, t.w1h, sample) ELSE Felt(w1Dev, t.w0l, t.w0h, sample)
       /\ w1Sent' = [w1Sent EXCEPT !.bits = Append(@, bit),
                                   !.sure = Sure]
  /\ w1Call' = [w1Call EXCEPT !.todo = Tail(@)]

\* Without a presence pulse get_romid ends here, and a reset reports it.
Reset ==
  /\ Pending /\ Head(w1Call.todo) = "reset"
  /\ LET limits == Limits(IF t.rstl >= 480 THEN "standard" ELSE w1Dev.speed)
         present == w1Dev.on /\ t.rstl >= limits.reset
         d == Felt(w1Dev, t.rstl, t.rst_msp + t.rsth, 60)
     IN  \E wait \in limits.waits, p \in limits.presence :
           LET low == present /\ wait <= t.rst_msp /\ t.rst_msp < wait + p
           IN  /\ w1Dev' = [d EXCEPT !.late = present /\ t.rst_msp + t.rsth < limits.ready]
               /\ w1Sent' = [w1Sent EXCEPT !.bits = <<>>, !.sure = present]
               /\ w1Call' = IF Seen(~low) = 0 THEN [w1Call EXCEPT !.todo = Tail(@)]
                            ELSE [w1Call EXCEPT !.op = "none", !.todo = <<>>, !.got = <<>>, !.last = "absent"]

-----------------------------------------------------------------------------
(* The calls.                                                              *)
Open == /\ ~w1.open /\ UNCHANGED <<w1Dev, w1Sent>>
        /\ w1Call' = [w1Call EXCEPT !.last = "none"]
        /\ w1' = [w1 EXCEPT !.open = TRUE, !.slot = w1.speed]
Close == /\ w1.open /\ w1Call.op = "none" /\ w1' = [w1 EXCEPT !.open = FALSE]
         /\ UNCHANGED <<w1Call, w1Dev, w1Sent>>
SlotConfig(name) == /\ w1.open /\ w1Call.op = "none" /\ w1.slot # name
                    /\ w1' = [w1 EXCEPT !.slot = name]
                    /\ w1Call' = [w1Call EXCEPT !.last = "none"]
                    /\ UNCHANGED <<w1Dev, w1Sent>>

Written(data) == [i \in DOMAIN data |-> IF data[i] = 1 THEN "write 1" ELSE "write 0"]
Reads(n) == [i \in 1 .. n |-> "read"]
Call(op, todo) == /\ w1.open /\ w1Call.op = "none" /\ w1Sent.calls < MaxW1Calls
                  /\ w1Call' = [op |-> op, todo |-> todo, got |-> <<>>, last |-> "none", rom |-> <<>>]
                  /\ w1Sent' = [w1Sent EXCEPT !.calls = @ + 1, !.quiet = TRUE]
                  /\ UNCHANGED <<w1, w1Dev>>
BusReset == Call("reset", <<"reset">>)
Write(data) == Call("write", Written(data))
Read == Call("read", Reads(Len(ReadRom)))
GetRomId == Call("romid", <<"reset">> \o Written(ReadRom) \o Reads(4))

\* Mutant: every CRC is right.
Unchecked(rom) == TRUE
Checked(rom) == CrcRight(rom)
Return == /\ w1Call.op # "none" /\ w1Call.todo = <<>>
          /\ LET ok == w1Call.op # "romid" \/ Checked(w1Call.got)
             IN  w1Call' = [op |-> "none", todo |-> <<>>, got |-> <<>>,
                            last |-> IF ok THEN w1Call.op ELSE "wrong crc",
                            rom |-> IF ok THEN w1Call.got ELSE <<>>]
          /\ UNCHANGED <<w1, w1Dev, w1Sent>>

\* The device is plugged in or out, or the wire touches ground.
Plug(rom) ==
  /\ w1Sent.plugs < MaxPlugs
  /\ w1Dev' = [on |-> ~w1Dev.on, id |-> IF w1Dev.on THEN <<>> ELSE rom, speed |-> "standard",
               does |-> "nothing", took |-> <<>>, late |-> FALSE]
  /\ w1Sent' = [w1Sent EXCEPT !.plugs = @ + 1, !.sure = FALSE, !.quiet = FALSE]
  /\ w1Call' = [w1Call EXCEPT !.last = "none"]
  /\ w1' \in {w1} \cup IF ShortedBus THEN {[w1 EXCEPT !.short = ~@]} ELSE {}

W1Next == \/ Open \/ Close \/ ReadBit \/ WriteBit \/ Reset \/ BusReset \/ Read \/ GetRomId \/ Return
          \/ \E name \in {"standard", "overdrive", "custom"} : SlotConfig(name)
          \/ \E data \in W1Data : Write(data)
          \/ \E rom \in RomIds : Plug(rom)
W1Spec == W1Init /\ [][W1Next]_w1Vars

-----------------------------------------------------------------------------
(* Wherever within its limits the device samples and answers: an id that   *)
(* is reported is the id of the device on the wire, or of one that left    *)
(* meanwhile, and is found if the device stays; a presence is seen only of *)
(* a device, at the standard speed whatever speed it was left in; and it   *)
(* takes the very bits that are written at its own speed.                  *)
WireIsTrue ==
  /\ w1Call.last = "romid" => w1Call.rom \in RomIds
  /\ w1Sent.quiet => /\ w1Call.last = "romid" => w1Dev.on /\ w1Call.rom = w1Dev.id
                     /\ w1Call.last = "reset" => w1Dev.on
                     /\ w1Call.last \in {"absent", "wrong crc"} => ~w1Dev.on \/ w1.slot = "overdrive"
  /\ (w1Sent.sure /\ w1Dev.on /\ w1Dev.does \in {"rom", "take"}) =>
       \E n \in 0 .. Len(w1Sent.bits) : SubSeq(w1Sent.bits, n + 1, Len(w1Sent.bits)) = w1Dev.took
  /\ w1Sent.sure => ~w1Dev.late
=============================================================================
