------------------------------- MODULE I2cBus -------------------------------
(***************************************************************************)
(* drv/i2c_bus.c: a master that drives the two wires of an i2c bus by      *)
(* hand, and a memory chip on it.  What the driver does to the wires is    *)
(* modelled edge by edge, each primitive of the driver being one step; the *)
(* chip reacts to the edges as the i2c standard has it (external).         *)
(*                                                                         *)
(* The chip may have been left in the middle of a byte by a master that    *)
(* was reset: that is where it starts from.                                *)
(***************************************************************************)
EXTENDS Naturals, SequencesExt

CONSTANTS
  ByteBits,       \* of a byte: 8
  RecoverClocks,  \* the clocks given to free the bus: 9
  Address,        \* the chip's address, without the R/W bit
  Lengths,        \* environment: how many bytes are read or written,
  Payload,        \* and which bytes are written
  StuckSlave      \* environment: a chip may hold sda down for good

I2cAssumption ==
  /\ ByteBits \in Nat \ {0} /\ RecoverClocks \in Nat
  /\ Address \in 0 .. 2^(ByteBits - 1) - 1
  /\ Lengths \subseteq Nat /\ Payload \subseteq 0 .. 2^ByteBits - 1 /\ StuckSlave \in BOOLEAN

VARIABLES
  bus,     \* scl, sda: what the master drives; dev: the chip
  msg,     \* i2c_bus_msg_t, what is left of it to do, and what was read
  cells0   \* history: the memory when the call began

i2cVars == <<bus, msg, cells0>>

Bytes == 0 .. 2^ByteBits - 1
Bit(byte, i) == (byte \div 2^i) % 2

-----------------------------------------------------------------------------
(* The chip.                                                               *)
Sda(b) == b.sda * b.dev.out

Drive(d, i) == [d EXCEPT !.mode = "send", !.n = i,
                         !.out = Bit(d.cells[d.ptr], ByteBits - 1 - i)]
Receive(d, want) == [d EXCEPT !.mode = "recv", !.want = want, !.n = 0, !.reg = 0, !.out = 1]
Idle(d) == [d EXCEPT !.mode = "idle", !.out = 1, !.want = "addr", !.n = 0, !.reg = 0]
Ack(d) == IF d.acks = 0 THEN Idle(d)
          ELSE [d EXCEPT !.mode = "ack", !.out = 0, !.acks = @ - 1]
Following(d) == [d EXCEPT !.ptr = (@ + 1) % 2^ByteBits]

\* The falling edge: after a byte, acknowledge it; after that, go on.
Fall(d) ==
  CASE d.mode = "recv" /\ d.n = ByteBits ->
         IF d.want = "addr" /\ d.reg \div 2 # Address THEN Idle(d) ELSE Ack(d)
    [] d.mode = "ack" ->
         (CASE d.want = "addr" /\ d.reg % 2 = 1 -> Drive(d, 0)
            [] d.want = "addr" /\ d.reg % 2 = 0 -> Receive(d, "mem")
            [] d.want = "mem"  -> Receive([d EXCEPT !.ptr = d.reg], "data")
            [] d.want = "data" -> Receive(Following([d EXCEPT !.cells[d.ptr] = d.reg]), "data"))
    [] d.mode = "send" ->
         IF d.n + 1 = ByteBits THEN [d EXCEPT !.mode = "wait", !.out = 1, !.reg = 1]
         ELSE Drive(d, d.n + 1)
    [] d.mode = "wait" -> IF d.reg = 0 THEN Drive(Following(d), 0) ELSE Idle(Following(d))
    [] OTHER -> d

Rise(d, sda) ==
  CASE d.mode = "recv" /\ d.n < ByteBits -> [d EXCEPT !.reg = 2 * @ + sda, !.n = @ + 1]
    [] d.mode = "wait" -> [d EXCEPT !.reg = sda]
    [] OTHER -> d

\* What the chip makes of a change of the wires from b to c.
Seen(b, c) ==
  LET d == IF b.dev.mode = "stuck" THEN b.dev
           ELSE CASE b.scl = 1 /\ c.scl = 1 /\ Sda(b) = 1 /\ Sda(c) = 0 -> Receive(b.dev, "addr")
                  [] b.scl = 1 /\ c.scl = 1 /\ Sda(b) = 0 /\ Sda(c) = 1 -> Idle(b.dev)
                  [] b.scl = 1 /\ c.scl = 0 -> Fall(b.dev)
                  [] b.scl = 0 /\ c.scl = 1 -> Rise(b.dev, Sda(c))
                  [] OTHER -> b.dev
  IN  [c EXCEPT !.dev = d]

-----------------------------------------------------------------------------
(* The primitives of the driver, as functions of the bus.                  *)
scl(v) == [wire |-> "scl", level |-> v]
sda(v) == [wire |-> "sda", level |-> v]
Set(b, edge) == Seen(b, [b EXCEPT ![edge.wire] = edge.level])
Edges(b, edges) == FoldLeft(Set, b, edges)

Start(b) == Edges(b, <<sda(0), scl(0)>>)
Stop(b) == Edges(b, <<scl(0), sda(0), scl(1), sda(1)>>)

\* Mutant: sda is not released first.
SdaStillDriven(b) == Sda(Edges(b, <<scl(1)>>)) = 0
Acked(b) == Sda(Edges(b, <<sda(1), scl(1)>>)) = 0
WaitAck(b) == Edges(b, <<sda(1), scl(1), scl(0)>>)

ByteEdges(byte) == FlattenSeq([i \in 1 .. ByteBits |-> <<scl(0), sda(Bit(byte, ByteBits - i)), scl(1)>>])
ShiftOut(b, byte) == Edges(b, ByteEdges(byte) \o <<scl(0)>>)

\* _i2c_bus_read_byte: the bits are sampled while scl is high.
ReadBits(b) ==
  FoldLeft(LAMBDA r, i : LET high == Set(r.bus, scl(1))
                         IN  [bus |-> Set(high, scl(0)), data |-> 2 * r.data + Sda(high)],
           [bus |-> Set(b, sda(1)), data |-> 0], [i \in 1 .. ByteBits |-> i])

\* Mutant: the last byte read is acknowledged too.
AlwaysAck(b, ack) == Edges(b, <<sda(0), scl(1), scl(0)>>)
SendAck(b, ack) == Edges(b, <<sda(IF ack THEN 0 ELSE 1), scl(1), scl(0)>>)

\* Mutant: the last clock is left out.
OneClockShort(b) ==
  LET clock[n \in 0 .. RecoverClocks] ==
        IF n = 0 THEN b
        ELSE IF n > 1 /\ Sda(clock[n - 1]) = 1 THEN clock[n - 1]
        ELSE IF n = RecoverClocks THEN clock[n - 1] ELSE Edges(clock[n - 1], <<scl(0), scl(1)>>)
  IN  clock[RecoverClocks]
\* Clocks until sda is free, at most RecoverClocks.
Recover(b) ==
  LET clock[n \in 0 .. RecoverClocks] ==
        IF n = 0 THEN b
        ELSE IF n > 1 /\ Sda(clock[n - 1]) = 1 THEN clock[n - 1]
        ELSE Edges(clock[n - 1], <<scl(0), scl(1)>>)
  IN  clock[RecoverClocks]

\* _i2c_bus_start succeeds from this bus.
Ready(b) == IF Sda(b) = 1 THEN b ELSE Recover(b)

-----------------------------------------------------------------------------
NoMsg == [type |-> "none", todo |-> <<>>, read |-> <<>>, result |-> "ok",
          addr |-> 0, data |-> <<>>]
Chip == [mode |-> "idle", want |-> "addr", n |-> 0, reg |-> 0, out |-> 1, ptr |-> 0,
         acks |-> 0, cells |-> [a \in Bytes |-> a]]

\* Where a reset of the master may have left the chip, scl being high.
LeftOver ==
  {Chip} \cup {Drive([Chip EXCEPT !.ptr = p], i) : p \in Bytes, i \in 0 .. ByteBits - 1}
    \cup {[Chip EXCEPT !.mode = "ack", !.want = "addr", !.reg = 2 * Address + 1, !.out = 0]}
    \cup {[Chip EXCEPT !.mode = "recv", !.want = "mem", !.n = i] : i \in 1 .. ByteBits}
    \cup (IF StuckSlave THEN {[Chip EXCEPT !.mode = "stuck", !.out = 0]} ELSE {})

\* i2c_bus_open leaves both wires high.
I2cInit == /\ bus \in {[scl |-> 1, sda |-> 1, dev |-> d] : d \in LeftOver}
           /\ msg = NoMsg /\ cells0 = Chip.cells

Do(what, byte) == [do |-> what, byte |-> byte]
Writes(bytes) == [i \in DOMAIN bytes |-> Do("write", bytes[i])]
Reads(len) == FlattenSeq([i \in 1 .. len |-> <<Do("read", 0), Do("ack", len - i)>>])
Device(rw) == <<Do("start", 0), Do("write", 2 * Address + rw)>>

\* What the three kinds of message do, until something fails.
Program(type, addr, data, len) ==
  CASE type = "write"  -> Device(0) \o Writes(<<addr>> \o data)
    [] type = "random" -> Device(0) \o Writes(<<addr>>) \o <<Do("scl", 1)>> \o Device(1) \o Reads(len)
    [] type = "sequential" -> Device(1) \o Reads(len)

\* The chip acknowledges only so many bytes of this call: it is busy, or full.
Call(type, addr, data, len, acks) ==
  /\ msg = NoMsg
  /\ msg' = [type |-> type, todo |-> Program(type, addr, data, len), read |-> <<>>,
             result |-> "ok", addr |-> addr, data |-> data]
  /\ bus' = [bus EXCEPT !.dev.acks = acks]
  /\ UNCHANGED cells0

Doing(what) == msg.type # "none" /\ msg.todo # <<>> /\ msg.todo[1].do = what
Done == msg' = [msg EXCEPT !.todo = Tail(@)] /\ UNCHANGED cells0
Failed == msg' = [msg EXCEPT !.todo = <<>>, !.result = "error"] /\ UNCHANGED cells0

DoStart == /\ Doing("start")
           /\ IF Sda(Ready(bus)) = 1 THEN bus' = Start(Ready(bus)) /\ Done
              ELSE bus' = Ready(bus) /\ Failed

DoScl == Doing("scl") /\ bus' = Set(bus, scl(1)) /\ Done

DoWrite == LET out == ShiftOut(bus, msg.todo[1].byte)
           IN  /\ Doing("write")
               /\ bus' = WaitAck(out)
               /\ IF Acked(out) THEN Done ELSE Failed

DoRead == /\ Doing("read")
          /\ bus' = ReadBits(bus).bus
          /\ msg' = [msg EXCEPT !.todo = Tail(@), !.read = Append(@, ReadBits(bus).data)]
          /\ UNCHANGED cells0

\* The last byte is not acknowledged.
DoAck == Doing("ack") /\ bus' = SendAck(bus, msg.todo[1].byte # 0) /\ Done

DoStop == /\ msg.type # "none" /\ msg.todo = <<>>
          /\ bus' = [Stop(bus) EXCEPT !.dev.acks = 0]
          /\ msg' = NoMsg /\ cells0' = bus'.dev.cells

I2cNext ==
  \/ \E addr \in Bytes, len \in Lengths, acks \in 0 .. 4 :
       \/ \E data \in [1 .. len -> Payload] : Call("write", addr, data, len, acks)
       \/ Call("random", addr, <<>>, len, acks)
       \/ addr = bus.dev.ptr /\ Call("sequential", addr, <<>>, len, acks)
  \/ DoStart \/ DoScl \/ DoWrite \/ DoRead \/ DoAck \/ DoStop

I2cSpec == I2cInit /\ [][I2cNext]_i2cVars

-----------------------------------------------------------------------------
I2cTypeOK == /\ bus.scl \in {0, 1} /\ bus.sda \in {0, 1} /\ bus.dev.out \in {0, 1}
             /\ bus.dev.cells \in [Bytes -> Bytes] /\ bus.dev.ptr \in Bytes
             /\ msg.read \in Seq(Bytes)

Put(cells, addr, data) ==
  FoldLeft(LAMBDA c, i : [c EXCEPT ![(addr + i - 1) % 2^ByteBits] = data[i]],
           cells, [i \in DOMAIN data |-> i])

(* However a call ends, refused address, refused byte or complete, the bus *)
(* is free afterwards: both wires up and the chip idle.                    *)
BusFreeAfter == DoStop /\ bus.dev.mode # "stuck" =>
                  bus'.scl = 1 /\ Sda(bus') = 1 /\ bus'.dev.mode = "idle"

(* Wherever a reset of the master had left the chip, in the middle of a    *)
(* byte it sends, acknowledging or listening, the clocks of Recover get    *)
(* sda back, and the start that needs it succeeds.                         *)
NeverLost == DoStart /\ bus.dev.mode # "stuck" => Sda(Ready(bus)) = 1

(* A call that reports success has written exactly its bytes to their      *)
(* addresses, or read what is there; one that fails has written a part of  *)
(* its own bytes, and nothing else is ever changed.                        *)
ReportedWasDone ==
  DoStop =>
    /\ msg.result = "ok" => /\ bus'.dev.cells = Put(cells0, msg.addr, msg.data)
                            /\ \A i \in DOMAIN msg.read :
                                 msg.read[i] = cells0[(msg.addr + i - 1) % 2^ByteBits]
    /\ \E n \in 0 .. Len(msg.data) :
         bus'.dev.cells = Put(cells0, msg.addr, SubSeq(msg.data, 1, n))

I2cKept == [][BusFreeAfter /\ NeverLost /\ ReportedWasDone]_i2cVars
=============================================================================
