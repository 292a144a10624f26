------------------------------- MODULE Drivers -------------------------------
(***************************************************************************)
(* The drivers under drv/: devices with a board behind their hooks, two    *)
(* buses, three memories, two radios and three modules on serial lines.    *)
(* Each is a module of its own; this one checks them side by side: `part`  *)
(* says which of them a behaviour is about, the others stay as they began. *)
(***************************************************************************)
EXTENDS Integers, Sequences, FiniteSets

CONSTANTS Kinds, Users, Freqs, Counts, Forever, OpenFails, ReinitFails, Interrupted, Preempt
VARIABLES dvKind, dv, dvHeld, dvCall, dvAsked
dvVars == <<dvKind, dv, dvHeld, dvCall, dvAsked>>
Dev == INSTANCE Devices

CONSTANTS ByteBits, RecoverClocks, Address, Lengths, Payload, StuckSlave
VARIABLES bus, msg, cells0
i2cVars == <<bus, msg, cells0>>
I2c == INSTANCE I2cBus

CONSTANTS RomIds, W1Data, MaxW1Calls, MaxPlugs, ShortedBus
VARIABLES w1, w1Call, w1Dev, w1Sent
w1Vars == <<w1, w1Call, w1Dev, w1Sent>>
W1 == INSTANCE W1Bus

CONSTANTS EeStart, EeEnd, BlockSize, AddrSpan, Worn, EeUsers, EeOffsets, EeLengths, EePreempt, EraseBeyond
VARIABLES ee, eeCall
eeVars == <<ee, eeCall>>
Ee == INSTANCE Eeprom

CONSTANTS NfEnd, PageSize, SectorSize, NfUsers, NfAddrs, NfLengths, NfIds, Supported, SlowChip
VARIABLES nf, nfCall
nfVars == <<nf, nfCall>>
Nf == INSTANCE NorFlash

CONSTANTS FifoSize, Threshold, LengthMod, LengthLimit, WriteLengths, PreambleBytes, RxLengths,
          RadioFreqs, Groups, ChipSilent, Slack, Overlapping, BufferReused, ShortLong, Oversized, WhileFixed
VARIABLES sf, chip, sfCall, sfAir, sfAsked
sfVars == <<sf, chip, sfCall, sfAir, sfAsked>>
Sf == INSTANCE Si446x

CONSTANTS SkCommands, PackLen, SkPolls, MaxRequests, MaxEvents, SkFaults, MaxBlock, Straddling, LateAnswers,
          Chatter
VARIABLES sk, skCall, skLine, skModule, skTold
skVars == <<sk, skCall, skLine, skModule, skTold>>
Sk == INSTANCE Silkid

CONSTANTS BufLen, MaxAsked, MaxNotes, Junk, MaxJunk, MaxUnread, ReopenStale, ResetAgain, TwoTasks
VARIABLES d1, d1Status, d1Call, d1Line, d1Module, d1Read
d1Vars == <<d1, d1Status, d1Call, d1Line, d1Module, d1Read>>
D1 == INSTANCE D100

CONSTANTS Cards, NoCard, MaxNoise, EmptyAnswers
VARIABLES ms, msCards, msLast, msNoise
msVars == <<ms, msCards, msLast, msNoise>>
Ms == INSTANCE Ms523

CONSTANTS TgSize, TgWord, TgUsers, NoUser, TgAddrs, TgLengths, MaxRf, TgPreempt
VARIABLES tg, tgCall
tgVars == <<tg, tgCall>>
Tg == INSTANCE NfcTag

CONSTANTS MostBytes, A7Lengths, A7Heard, A7BufLen, MaxHeard, MaxWritten, PinFunctions, ReadLate, ServedLate, SlowTask
VARIABLES a7, a7Chip, a7Pend, a7User
a7Vars == <<a7, a7Chip, a7Pend, a7User>>
A7 == INSTANCE A71x9

\* What every part assumes of its constants.
ASSUME PartsAssumption ==
  /\ Dev!DevicesAssumption /\ I2c!I2cAssumption /\ W1!W1BusAssumption /\ Ee!EepromAssumption /\ Nf!NorFlashAssumption
  /\ Sf!Si446xAssumption /\ Sk!SilkidAssumption /\ D1!D100Assumption /\ Ms!Ms523Assumption
  /\ Tg!NfcTagAssumption /\ A7!A71x9Assumption

VARIABLE part

-----------------------------------------------------------------------------
\* Ids with a right CRC, and what is written on the one-wire bus: commands, and no command.
Ids == {<<0, 1, 1, 1>>, <<1, 0, 0, 1>>}
Commands == {<<0, 1>>, <<1, 0>>, <<0, 0>>}

\* Receiver settings of the radio: within the FIFO, beyond it, and fixed.
Receivers == {<<"variable", 7>>, <<"variable", 9>>, <<"fixed", 2>>}

\* The commands of each call that the chip may leave unanswered: all but those the
\* driver does not find its way back from.  Either it does not look at the answer, or
\* it keeps the new setting, or it has reset the chip already.
SfCalls == {"open", "reinitialize", "receive", "clear", "clear tx", "clear rx", "start ldc", "stop ldc",
            "frequency", "length", "flags", "interrupt", "variable", "fixed", "long"}
SfCommands == {"reset", "get", "set", "read sync", "state", "ints", "clear tx", "clear rx",
               "start tx", "start rx"}
Unrepaired ==
  ({"open", "reinitialize"} \X {"set", "ints"}) \cup ({"reinitialize", "frequency"} \X {"get"})
  \cup ({"frequency", "long", "start ldc", "stop ldc", "flags", "interrupt", "variable"} \X {"set"})
  \cup {<<"long", "start tx">>}
Silent == (SfCalls \X SfCommands) \ Unrepaired

-----------------------------------------------------------------------------
Parts == {"devices", "i2c", "w1", "eeprom", "flash", "radio", "finger", "face", "card", "tag", "a71x9"}

\* Where a part has several initial states, one that is not looked at has one of them.
Init == /\ part \in Parts
        /\ Dev!DvInit /\ (part # "devices" => dvKind = CHOOSE k \in Kinds : TRUE)
        /\ I2c!I2cInit /\ (part # "i2c" => bus.dev = I2c!Chip)
        /\ W1!W1Init /\ (part # "w1" => w1.speed = "standard")
        /\ Sk!SkInit /\ (part # "finger" => skModule.when = CHOOSE c \in Chatter : TRUE)
        /\ Ee!EeInit /\ Nf!NfInit /\ Sf!SfInit /\ D1!D1Init /\ Ms!MsInit /\ Tg!TgInit
        /\ A7!A7Init /\ (part # "a71x9" => \A p \in A7!Pins : a7.gio[p] = CHOOSE f \in PinFunctions : TRUE)

Others == /\ UNCHANGED part
          /\ IF part = "devices" THEN TRUE ELSE UNCHANGED dvVars
          /\ IF part = "i2c" THEN TRUE ELSE UNCHANGED i2cVars
          /\ IF part = "w1" THEN TRUE ELSE UNCHANGED w1Vars
          /\ IF part = "eeprom" THEN TRUE ELSE UNCHANGED eeVars
          /\ IF part = "flash" THEN TRUE ELSE UNCHANGED nfVars
          /\ IF part = "radio" THEN TRUE ELSE UNCHANGED sfVars
          /\ IF part = "finger" THEN TRUE ELSE UNCHANGED skVars
          /\ IF part = "face" THEN TRUE ELSE UNCHANGED d1Vars
          /\ IF part = "card" THEN TRUE ELSE UNCHANGED msVars
          /\ IF part = "tag" THEN TRUE ELSE UNCHANGED tgVars
          /\ IF part = "a71x9" THEN TRUE ELSE UNCHANGED a7Vars

Next == \/ part = "devices" /\ Dev!DvNext /\ Others
        \/ part = "i2c" /\ I2c!I2cNext /\ Others
        \/ part = "w1" /\ W1!W1Next /\ Others
        \/ part = "eeprom" /\ Ee!EeNext /\ Others
        \/ part = "flash" /\ Nf!NfNext /\ Others
        \/ part = "radio" /\ Sf!SfNext /\ Others
        \/ part = "finger" /\ Sk!SkNext /\ Others
        \/ part = "face" /\ D1!D1Next /\ Others
        \/ part = "card" /\ Ms!MsNext /\ Others
        \/ part = "tag" /\ Tg!TgNext /\ Others
        \/ part = "a71x9" /\ A7!A7Next /\ Others

vars == <<part, dvVars, i2cVars, w1Vars, eeVars, nfVars, sfVars, skVars, d1Vars, msVars, tgVars, a7Vars>>
Spec == Init /\ [][Next]_vars

-----------------------------------------------------------------------------
(* device.c and the drivers over hooks: the hardware is up as long as a    *)
(* user holds the device and a hook did not fail, and an output changes as *)
(* often as was asked.                                                     *)
DevicesKept == part = "devices" => Dev!DvTypeOK /\ Dev!UpWhileHeld /\ Dev!BlinksAsAsked

(* i2c_bus.c, w1_bus.c, at24cxx.c, fm25qxx.c and fm13dt160.c: what a call  *)
(* reports when it returns is what the chip on the other side has done, no *)
(* cell beyond the request is changed, and the bus, or the radio side of   *)
(* the tag, is left as it is needed next.                                  *)
ReportedWasDone ==
  [][/\ part = "i2c" => I2c!I2cTypeOK' /\ I2c!BusFreeAfter /\ I2c!NeverLost /\ I2c!ReportedWasDone
     /\ part = "w1" => W1!WireIsTrue'
     /\ part = "eeprom" => Ee!EeTypeOK' /\ Ee!EeReportedIsStored
     /\ part = "flash" => Nf!NfTypeOK' /\ Nf!NfReportedIsStored
     /\ part = "tag" => Tg!TgReportedIsStored]_vars


(* silkid.c, d100.c and ms523.c: the answer a command reports is the one   *)
(* to it; what the modules tell unasked comes once and in order; a reply   *)
(* is waited for while it is due; and a card reported is the one there.    *)
ModulesKept == /\ part = "finger" => Sk!AnswerIsMine /\ Sk!EventsToldOnce
               /\ part = "face" => D1!PacketsReadInOrder /\ D1!WaitsWhileDue
               /\ part = "card" => Ms!CardIsTheOne
=============================================================================
