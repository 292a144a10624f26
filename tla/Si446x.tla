------------------------------- MODULE Si446x -------------------------------
(***************************************************************************)
(* drv/si446x.c: the driver of the radio chip the radio MAC sends through. *)
(* A call is a list of commands; the chip takes each or does not answer    *)
(* (the clear-to-send line stays low), and goes on sending meanwhile.  A   *)
(* packet longer than the chip's FIFO is refilled by the almost-empty      *)
(* interrupt, and a packet with a long preamble borrows the sync word.     *)
(*                                                                         *)
(* Abstracted: part info, rssi, gpios, signal events nobody acts on.  A    *)
(* sync word is the set of its bits that are 1.                            *)
(***************************************************************************)
EXTENDS Integers, FiniteSets, SequencesExt

CONSTANTS
  FifoSize,      \* 64
  Threshold,     \* configure.transmitter.threshold
  LengthMod,     \* 256: lengths are uint8_t
  LengthLimit,   \* 8191
  WriteLengths,  \* lengths the caller writes
  PreambleBytes, \* of a packet with a long preamble
  RxLengths,     \* receiver settings: <<"variable" or "fixed", length>>
  RadioFreqs,
  Groups,        \* of interrupts: packet, modem, chip
  ChipSilent,    \* environment: <<call, command>> pairs the chip may not answer
  Slack,         \* environment: bytes it sends before an interrupt is served
  Overlapping,   \* environment: calls are made while a packet is being sent
  BufferReused,  \* environment: the caller's buffer changes after write returns
  ShortLong,     \* environment: packets with a long preamble that the FIFO has room for,
  Oversized,     \* lengths beyond LengthMod, and
  WhileFixed     \* packets the chip is to read a length from while it has a fixed length

Si446xAssumption ==
  /\ FifoSize \in Nat \ {0} /\ Threshold \in 1 .. FifoSize /\ Slack < FifoSize
  /\ RxLengths # {} /\ RadioFreqs # {} 
  /\ {Overlapping, BufferReused, ShortLong, Oversized, WhileFixed} \subseteq BOOLEAN

VARIABLES
  sf,       \* si446x_describe_t
  chip,
  sfCall,   \* what is left of the call
  sfAir,    \* the packet on the air, and the bytes of it that are out
  sfAsked   \* history: the packet the last write was to send (its tag tells it from bytes
            \* still around from another), and whether field 2 is lent to one

sfVars == <<sf, chip, sfCall, sfAir, sfAsked>>

Own == {0}                       \* the sync word of the configuration,
Training == {0, 2}               \* and 0x55, which looks like a preamble
Mirror(word) == {3 - b : b \in word}
Garbage == <<"?">>
Data(tag, n) == [i \in 1 .. n |-> <<"data", tag, i>>]
Header(n) == <<"length", n>>

-----------------------------------------------------------------------------
(* Calls as lists of commands.  A command without an answer ends the call  *)
(* with an error, or after the settings are restored, or with the result   *)
(* that is there already ("stops"); or the call just goes on.              *)
Do(cmd, v, failing) == [do |-> cmd, v |-> v, failing |-> failing]
Must(cmd, v) == Do(cmd, v, "ends")
Just(cmd, v) == Do(cmd, v, "is nothing")
Impossible(failing) == <<Do("refused", 0, failing)>>

ReceiverConfigure(len, failing) ==
  LET Set(property, value) == Do("set", <<property, value>>, failing)
  IN  IF len[1] = "variable"
      THEN IF len[2] > LengthLimit THEN Impossible(failing)
           ELSE <<Set("pkt", 2), Set("f1", 1), Set("f2", len[2]), Set("f3", 0)>>
      ELSE IF len[2] > FifoSize THEN Impossible(failing)
           ELSE <<Set("pkt", 0), Set("f1", len[2]), Set("f2", 0)>>

SetFrequency(f, failing) == <<Just("state", "ready"), Do("get", "band", failing),
                              Do("set", <<"freq", f>>, failing)>>

StartWut == <<Just("get", "clk"), Just("set", <<"clk", TRUE>>),
              Just("get", "wut"), Just("set", <<"wut", TRUE>>)>>
StopWut == <<Just("get", "wut"), Just("set", <<"wut", FALSE>>),
             Just("get", "clk"), Just("set", <<"clk", FALSE>>)>>

\* From where the frequency is set on, a failure ends it with the true of
\* the configuration commands still in retval.
Reinitialize ==
  <<Must("reset", 0), Must("get", "part"), Must("set", <<"sync", Own>>)>>
    \o (IF sf.freq = "table" THEN <<>> ELSE SetFrequency(sf.freq, "stops"))
    \o <<Just("set", <<"threshold", Threshold>>)>>
    \o (IF sf.ldc THEN StartWut ELSE <<>>)
    \o <<Do("ints", 0, "stops")>> \o ReceiverConfigure(sf.len, "stops")

StartReceiving(ldc) ==
  <<Must("ints", 0), Must("clear rx", 0)>> \o ReceiverConfigure(sf.len, "ends")
    \o <<Must("start rx", IF ldc THEN "ldc" ELSE "rx")>>

\* The low duty cycle, and the receiver with it; nothing when it is so already.
StartLdc(receive) == IF sf.ldc THEN <<>>
                     ELSE StartWut \o (IF receive THEN StartReceiving(TRUE) ELSE <<>>)
StopLdc(receive) == IF ~sf.ldc THEN <<>>
                    ELSE StopWut \o (IF receive THEN StartReceiving(FALSE) ELSE <<>>)

Prologue == <<Must("clear tx", 0), Must("state", "ready"), Must("ints", 0)>>

\* _write_variable_length
WriteVariable(tag, n) ==
  LET short == n < FifoSize IN
  Prologue
    \o (IF short
        THEN <<Just("window", <<<<>>, n, n>>)>>
        ELSE <<Just("window", <<Data(tag, n), n, FifoSize - 1>>),
               Just("set", <<"f2", n>>)>>)
    \o <<Just("fill", <<Header(n)>> \o Data(tag, IF short THEN n ELSE FifoSize - 1)),
         Must("start tx", IF short THEN n + 1 ELSE 0)>>

\* _write_fixed_length
WriteFixed(tag, n) ==
  IF n > FifoSize THEN Impossible("ends")
  ELSE Prologue \o <<Just("fill", Data(tag, n)), Must("start tx", n)>>

LongPacket(word, tag, n) ==
  [i \in 1 .. PreambleBytes |-> <<"preamble", i>>] \o <<<<"sync", word>>, Header(n)>> \o Data(tag, n)

\* _write_long_preamble with one byte of sync word.
WriteLong(tag, n) ==
  LET size == PreambleBytes + 1 + n + 1 IN
  Prologue \o <<Must("read sync", 0), Just("set", <<"sync", Training>>),
                Just("set", <<"f2", size - 1>>), Just("long window", <<tag, n>>), Just("fill", <<>>),
                Just("type", "long"), Must("start tx", 0)>>

Writes(kind, tag, n) ==
  CASE kind = "variable" -> WriteVariable(tag, n)
    [] kind = "fixed" -> WriteFixed(tag, n)
    [] kind = "long" -> WriteLong(tag, n)

\* _ioctl_set_interrupt_flag: the bit of the group follows its flags.
SetFlags(g, on) ==
  <<Just("get", "ctl"), Just("set", <<"flags", <<g, on>>>>)>>
    \o (IF (g \in chip.ctl) = on THEN <<>> ELSE <<Just("set", <<"ctl", <<g, on>>>>)>>)

-----------------------------------------------------------------------------
(* The chip, and what a command makes of it and of the driver.             *)
Blank == [mode |-> "ready", tx |-> <<>>, rx |-> 0, left |-> 0, pend |-> {}, sync |-> Own, threshold |-> Threshold,
          pkt |-> 2, f1 |-> 1, f2 |-> 0, f3 |-> 0, clk |-> FALSE, wut |-> FALSE, freq |-> "table",
          ctl |-> {}, flags |-> {}]
Smaller(a, b) == IF a < b THEN a ELSE b
Flip(set, g, on) == IF on THEN set \cup {g} ELSE set \ {g}

\* Bytes beyond its FIFO are lost.
Filled(bytes) == LET all == chip.tx \o bytes IN SubSeq(all, 1, Smaller(Len(all), FifoSize))

\* The chip takes command x.
Chip(x) ==
  CASE x.do = "clear tx" -> [chip EXCEPT !.tx = <<>>]
    [] x.do \in {"clear rx", "read"} -> [chip EXCEPT !.rx = 0]
    [] x.do = "state" -> [chip EXCEPT !.mode = x.v, !.left = 0]
    [] x.do = "ints" -> [chip EXCEPT !.pend = {}]
    [] x.do = "reset" -> Blank
    [] x.do = "set" /\ x.v[1] \in {"ctl", "flags"} ->
         [chip EXCEPT ![x.v[1]] = Flip(@, x.v[2][1], x.v[2][2])]
    [] x.do = "set" /\ x.v[1] \notin {"ctl", "flags"} -> [chip EXCEPT ![x.v[1]] = x.v[2]]
    [] x.do = "fill" -> [chip EXCEPT !.tx = Filled(IF x.v # <<>> THEN x.v ELSE
                           [i \in 1 .. sf.off |-> IF sf.pbuf = <<>> THEN Garbage ELSE sf.pbuf[i]])]
    [] x.do = "start rx" -> [chip EXCEPT !.mode = "rx", !.left = 0]
    [] x.do = "start tx" -> [chip EXCEPT !.mode = "tx", !.left = IF x.v = 0 THEN chip.f1 + chip.f2
                                                                 ELSE x.v]
    [] OTHER -> chip

\* The window of the packet that the interrupt finds to go on with.
Window(pbuf, pos, off) == [sf EXCEPT !.pbuf = pbuf, !.pos = pos, !.off = off]
LongWindow(packet) == IF Len(packet) < FifoSize THEN Window(<<>>, Len(packet), Len(packet))
                      ELSE Window(packet, Len(packet), FifoSize)

Driver(x) ==
  CASE x.do = "ints" -> [sf EXCEPT !.got = chip.pend]
    [] x.do = "read sync" -> [sf EXCEPT !.sync = chip.sync, !.correct = @ \cup Mirror(chip.sync)]
    [] x.do = "window" -> Window(x.v[1], x.v[2], x.v[3])
    [] x.do = "long window" -> LongWindow(LongPacket(sf.correct, x.v[1], x.v[2]))
    [] x.do = "refilled" -> IF x.v = sf.pos THEN Window(<<>>, 0, 0) ELSE [sf EXCEPT !.off = x.v]
    [] x.do = "type" -> [sf EXCEPT !.type = x.v]
    [] OTHER -> sf

Refill ==
  IF "empty" \in sf.got /\ sf.pbuf # <<>> /\ sf.off < sf.pos
  THEN LET to == sf.off + Smaller(sf.pos - sf.off, Threshold)
       IN  <<Just("fill", SubSeq(sf.pbuf, sf.off + 1, to)), Just("refilled", to)>>
  ELSE <<>>
\* Mutant: the sync word is not given back.
StaysBorrowed == IF "sent" \in sf.got /\ sf.type = "long" THEN <<Just("type", "normal")>> ELSE <<>>
RestoreSync == IF "sent" \in sf.got /\ sf.type = "long"
               THEN <<Just("type", "normal"), Just("set", <<"sync", sf.sync>>)>> ELSE <<>>
Dispatch == Refill \o RestoreSync

-----------------------------------------------------------------------------
Idle == [what |-> "none", todo |-> <<>>, ok |-> TRUE, old |-> <<>>, faults |-> 0]
Begin(what, steps) ==
  sfCall' = [what |-> what, todo |-> steps, ok |-> TRUE, old |-> sf.len, faults |-> 0]

Nothing == [sync |-> Own, bytes |-> <<>>]
Unasked == [sfAsked EXCEPT !.ok = FALSE, !.sync = Own, !.bytes = <<>>]

SfInit ==
  /\ sf = [pbuf |-> <<>>, pos |-> 0, off |-> 0, sync |-> {}, correct |-> {}, type |-> "normal",
           got |-> {}, len |-> (CHOOSE l \in RxLengths : l[1] = "variable" /\ l[2] <= LengthLimit),
           freq |-> "table", ldc |-> FALSE, up |-> FALSE]
  /\ chip = Blank /\ sfCall = Idle
  /\ sfAir = Nothing
  /\ sfAsked = [tag |-> 0, sync |-> Own, bytes |-> <<>>, ok |-> FALSE, lent |-> FALSE]

\* Nothing of the last packet is left to be done.
Settled == chip.mode # "tx" /\ chip.pend = {}

Open == /\ sfCall = Idle /\ ~sf.up /\ Begin("open", Reinitialize)
        /\ UNCHANGED <<sf, chip, sfAir, sfAsked>>

\* What the caller may ask to be written: the driver looks at none of it.
Accepted(kind, length) ==
  LET n == length % LengthMod IN
  /\ length < LengthMod \/ Oversized
  /\ kind = "long" /\ PreambleBytes + n + 2 < FifoSize => ShortLong
  /\ (kind = "long" \/ (kind = "variable" /\ n >= FifoSize)) /\ sf.len[1] = "fixed" => WhileFixed

\* si446x_write
Write(kind, length) ==
  LET n == length % LengthMod
      tag == IF sf.pbuf = <<>> /\ chip.tx = <<>> THEN 0 ELSE 1 - sfAsked.tag
  IN  /\ sfCall = Idle /\ sf.up /\ (Settled \/ Overlapping)
      /\ Accepted(kind, length)
      /\ Begin(kind, Writes(kind, tag, n))
      /\ sfAsked' = [tag |-> tag, ok |-> FALSE, lent |-> sfAsked.lent,
                     sync |-> IF kind = "long" THEN Training ELSE Own,
                     bytes |-> CASE kind = "variable" -> <<Header(length)>> \o Data(tag, length)
                                 [] kind = "fixed" -> Data(tag, length)
                                 [] kind = "long" -> LongPacket(Mirror(Own), tag, length)]
      /\ sfAir' = IF Settled THEN Nothing ELSE sfAir
      /\ UNCHANGED <<sf, chip>>

\* The ioctls that give the chip commands, as the driver finds things now.
Ioctls ==
  {<<"reinitialize", sf, Reinitialize>>, <<"receive", sf, StartReceiving(sf.ldc)>>,
   <<"clear", sf, <<Must("ints", 0)>>>>,
   <<"clear tx", sf, <<Must("clear tx", 0)>>>>,
   <<"clear rx", sf, <<Must("clear rx", 0)>>>>,
   <<"start ldc", [sf EXCEPT !.ldc = TRUE], StartLdc(FALSE)>>,
   <<"start ldc", [sf EXCEPT !.ldc = TRUE], StartLdc(TRUE)>>,
   <<"stop ldc", [sf EXCEPT !.ldc = FALSE], StopLdc(FALSE)>>,
   <<"stop ldc", [sf EXCEPT !.ldc = FALSE], StopLdc(TRUE)>>}
    \cup {<<"frequency", [sf EXCEPT !.freq = f], SetFrequency(f, "ends")>> : f \in RadioFreqs}
    \cup {<<"length", [sf EXCEPT !.len = l], ReceiverConfigure(l, "is undone")>> : l \in RxLengths}
    \cup {<<"flags", sf, SetFlags(g, on)>> : g \in Groups, on \in BOOLEAN}

Ioctl(c) == /\ sfCall = Idle /\ sf.up /\ (Settled \/ Overlapping)
            /\ sf' = c[2] /\ Begin(c[1], c[3])
            /\ IF Settled THEN sfAir' = Nothing /\ sfAsked' = Unasked
               ELSE UNCHANGED <<sfAir, sfAsked>>
            /\ UNCHANGED chip

\* IOCTL_SI446X_INTERRUPT_HANDLING, once the pin has told of an interrupt.
Interrupt == /\ sfCall = Idle /\ sf.up /\ chip.pend # {}
             /\ Begin("interrupt", <<Must("ints", 0), Just("dispatch", 0)>>)
             /\ UNCHANGED <<sf, chip, sfAir, sfAsked>>

\* The next command of the call is taken.
Command ==
  LET x == Head(sfCall.todo) IN
  /\ sfCall.todo # <<>> /\ x.do # "refused"
  /\ chip' = Chip(x) /\ sf' = Driver(x)
  /\ sfCall' = [sfCall EXCEPT !.todo = IF x.do = "dispatch" THEN Dispatch ELSE Tail(@)]
  /\ sfAir' = IF x.do = "start tx" THEN [sync |-> chip.sync, bytes |-> <<>>] ELSE sfAir
  /\ sfAsked' = [sfAsked EXCEPT !.lent = IF x.do = "set" /\ x.v[1] = "f2"
                                          THEN sfCall.what \in {"variable", "long"} ELSE @]

\* The chip does not answer, or the driver does not even ask.
Unanswered ==
  LET x == Head(sfCall.todo) IN
  /\ sfCall.todo # <<>>
  /\ x.do = "refused" \/ (<<sfCall.what, x.do>> \in ChipSilent /\ sfCall.faults = 0)
  /\ sfCall' = [sfCall EXCEPT
       !.faults = @ + 1,
       !.ok = @ /\ x.failing \in {"stops", "is nothing"},
       !.todo = CASE x.failing = "is nothing" -> Tail(@)
                  [] x.failing = "is undone" -> ReceiverConfigure(sfCall.old, "ends")
                  [] x.failing \in {"ends", "stops"} -> <<>>]
  /\ sf' = IF x.failing = "is undone" THEN [sf EXCEPT !.len = sfCall.old] ELSE sf
  /\ UNCHANGED <<chip, sfAir, sfAsked>>

Return ==
  LET c == sfCall IN
  /\ c # Idle /\ c.todo = <<>>
  /\ sfCall' = Idle
  /\ sfAsked' = [sfAsked EXCEPT !.ok = IF c.what \in {"variable", "fixed", "long"} THEN c.ok
                                        ELSE @ /\ c.what # "reinitialize"]
  /\ \E b \in {sf.pbuf} \cup (IF BufferReused /\ c.what = "variable"
                             THEN {[i \in DOMAIN sf.pbuf |-> Garbage]} ELSE {}) :
       sf' = [sf EXCEPT !.pbuf = b, !.got = {}, !.up = IF c.what = "open" THEN c.ok ELSE @]
  /\ UNCHANGED <<chip, sfAir>>

\* The chip sends a byte: only Slack of them while an interrupt waits to refill.
Send ==
  LET room == FifoSize - (Len(chip.tx) - 1) IN
  /\ chip.mode = "tx" /\ chip.tx # <<>> /\ chip.left > 0
  /\ "empty" \in chip.pend \/ sfCall.what = "interrupt" =>
       sf.off >= sf.pos \/ room - Threshold <= Slack
  /\ sfAir' = [sfAir EXCEPT !.bytes = Append(@, Head(chip.tx))]
  /\ chip' = [chip EXCEPT
       !.tx = Tail(@), !.left = @ - 1, !.mode = IF chip.left = 1 THEN "rx" ELSE @,
       !.pend = @ \cup (IF room = chip.threshold THEN {"empty"} ELSE {})
                  \cup (IF chip.left = 1 THEN {"sent"} ELSE {})]
  /\ UNCHANGED <<sf, sfCall, sfAsked>>

\* si446x_read takes what the chip has, which IOCTL_SI446X_GET_RECEIVED_BYTES told.
Read == /\ sfCall = Idle /\ sf.up /\ chip.rx > 0 /\ Begin("read", <<Just("read", 0)>>)
        /\ UNCHANGED <<sf, chip, sfAir, sfAsked>>

\* It receives a packet and is ready for the next command, as start_rx asks.
Hear == /\ chip.mode = "rx" /\ chip.pend = {} /\ sfCall = Idle
        /\ chip' = [chip EXCEPT !.mode = "ready", !.rx = 1, !.pend = {"received"}]
        /\ UNCHANGED <<sf, sfCall, sfAir, sfAsked>>

SfNext == \/ Open \/ Read \/ Interrupt \/ Command \/ Unanswered \/ Return \/ Send \/ Hear
          \/ \E kind \in {"variable", "fixed", "long"}, n \in WriteLengths : Write(kind, n)
          \/ \E c \in Ioctls : Ioctl(c)

SfSpec == SfInit /\ [][SfNext]_sfVars

-----------------------------------------------------------------------------
SfTypeOK == /\ chip.mode \in {"ready", "rx", "tx"} /\ Len(chip.tx) <= FifoSize
            /\ sf.off <= sf.pos /\ sf.type \in {"normal", "long"}

(* What a write that returned CY_EOK was given is what goes over the air,  *)
(* behind the sync word it was meant for, however often the FIFO had to be *)
(* refilled; and while a call is not running there is always a byte to     *)
(* send or an interrupt that will bring it.                                *)
SentAsAsked ==
  sfAsked.ok /\ sfCall = Idle =>
    /\ chip.mode # "tx" => sfAir = [sync |-> sfAsked.sync, bytes |-> sfAsked.bytes]
    /\ chip.mode = "tx" => chip.tx # <<>> \/ "empty" \in chip.pend

\* The chip is set up as the driver believes.
SetUp ==
  /\ chip.sync = Own /\ sf.type = "normal"
  /\ chip.freq = sf.freq /\ chip.wut = sf.ldc /\ chip.clk = sf.ldc
  /\ IF sf.len[1] = "variable" THEN chip.pkt = 2 /\ chip.f1 = 1 ELSE chip.pkt = 0 /\ chip.f1 = sf.len[2]
  /\ ~sfAsked.lent => chip.f2 = IF sf.len[1] = "variable" THEN sf.len[2] ELSE 0
  /\ \A g \in Groups : (g \in chip.ctl) = (g \in chip.flags)

(* Between two calls, once nothing is pending, the chip is set up as the   *)
(* driver believes: it listens for its own sync word, on the frequency and *)
(* with the packet lengths of the settings (but for one a long packet has  *)
(* borrowed), and wakes up on its own exactly if it was told to; whichever *)
(* of the commands in ChipSilent was not answered, whatever was undone.    *)
HearsAsConfigured == sf.up /\ sfCall = Idle /\ Settled => SetUp
=============================================================================
