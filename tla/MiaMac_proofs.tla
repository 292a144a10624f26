---------------------------- MODULE MiaMac_proofs ----------------------------
(***************************************************************************)
(* Machine-checked facts about MiaMac, for every silence, backoff, buffer  *)
(* size, message, and number of frames and faults.                         *)
(***************************************************************************)
EXTENDS MiaMac, Integers, SequenceTheorems, TLAPS

LEMMA Constants == /\ Disf \in Nat /\ Disf > 0 /\ FrameTicks \in Nat /\ FrameTicks > 0
                   /\ Capacity \in Nat /\ Capacity > 0
                   /\ EventDepth \in Nat /\ PollPeriod \in Nat /\ MaxFrames \in Nat
                   /\ MaxSends \in Nat /\ Backoffs \subseteq Nat /\ Retrans \subseteq Nat
BY MiaAssumption

-----------------------------------------------------------------------------
(* Types.                                                                  *)

Buses == [fault : BOOLEAN, state : {"idle", "busy"}, disf : 0 .. Disf, backoff : Nat]
Transmits == [state : {"idle", "ready", "busy", "wait_ack"}, pos : {0, 1}, count : Nat,
              max : Nat]
Phys == [mode : {"idle", "sending", "recving"}, monitor : BOOLEAN, frame : 0 .. MaxFrames,
         offset : 0 .. Capacity + 1, age : 0 .. FrameTicks,
         cut : SUBSET (1 .. MaxFrames)]
Receives == [Buffers -> [pos : 0 .. Capacity, bits : SUBSET (1 .. MaxFrames)]]
Events == {Received, TransmitterReady, BusFault, BusRecover}
MainPcs == {"idle", "copying", "copied", "parsing", "sending", "started", "direct", "replying"}

\* TypeOK, the ranges of the variables it does not name, and what they rest
\* on: a frame being received has a number, and the main loop restores a
\* state the transmitter had.
MainType ==
  /\ main = [pc |-> main.pc, ret |-> main.ret, old |-> main.old, src |-> main.src,
             first |-> main.first, second |-> main.second, len |-> main.len]
  /\ main.pc \in MainPcs /\ main.ret \in {"idle", "parsing"}
  /\ main.old \in {"idle", "ready", "wait_ack"}
BufferType == /\ pingpong \in Handlers /\ preceiver = pingpong.write
              /\ processer \in Buffers \cup {NoBuffer} /\ rxbuf \in Receives
TypeInv ==
  /\ bus \in Buses /\ tx \in Transmits /\ phy \in Phys /\ MainType /\ BufferType
  /\ events \in Seq(Events)
  /\ frames \in 0 .. MaxFrames /\ sends \in Nat /\ waited \in 0 .. PollPeriod
  /\ phy.mode = "recving" => phy.frame # 0

LEMMA BusOps ==
  ASSUME NEW b \in Buses
  PROVE  /\ Locked(b) \in Buses /\ Locked(b).state = "busy" /\ Locked(b).fault = b.fault
         /\ Locked(b).disf = b.disf
         /\ Recovered(b) \in Buses /\ Recovered(b).state = "idle"
         /\ Recovered(b).fault = b.fault /\ Recovered(b).disf = Disf
         /\ \A f \in BOOLEAN : /\ [b EXCEPT !.fault = f] \in Buses
                               /\ [b EXCEPT !.fault = f].fault = f
         /\ \A d \in 0 .. Disf, n \in Nat :
              /\ [b EXCEPT !.disf = d] \in Buses /\ [b EXCEPT !.disf = d].disf = d
              /\ [b EXCEPT !.disf = d].state = b.state /\ [b EXCEPT !.disf = d].fault = b.fault
              /\ [b EXCEPT !.disf = d, !.backoff = n] \in Buses
              /\ [b EXCEPT !.disf = d, !.backoff = n].disf = d
              /\ [b EXCEPT !.disf = d, !.backoff = n].state = b.state
              /\ [b EXCEPT !.disf = d, !.backoff = n].fault = b.fault
<1>1. /\ Locked(b) \in Buses /\ Locked(b).state = "busy" /\ Locked(b).fault = b.fault
      /\ Locked(b).disf = b.disf
      BY DEF Locked, Buses
<1>2. /\ Recovered(b) \in Buses /\ Recovered(b).state = "idle"
      /\ Recovered(b).fault = b.fault /\ Recovered(b).disf = Disf
  <2>1. Disf \in 0 .. Disf
        BY Constants
  <2>2. [b EXCEPT !.disf = Disf] \in Buses
        BY <2>1 DEF Buses
  <2>3. QED BY <2>2 DEF Recovered, Unlocked, Buses
<1>3. \A f \in BOOLEAN : [b EXCEPT !.fault = f] \in Buses /\ [b EXCEPT !.fault = f].fault = f
      BY DEF Buses
<1>4. \A d \in 0 .. Disf, n \in Nat :
         /\ [b EXCEPT !.disf = d] \in Buses /\ [b EXCEPT !.disf = d].disf = d
         /\ [b EXCEPT !.disf = d].state = b.state /\ [b EXCEPT !.disf = d].fault = b.fault
      BY DEF Buses
<1>5. \A d \in 0 .. Disf, n \in Nat :
         /\ [b EXCEPT !.disf = d, !.backoff = n] \in Buses
         /\ [b EXCEPT !.disf = d, !.backoff = n].disf = d
         /\ [b EXCEPT !.disf = d, !.backoff = n].state = b.state
         /\ [b EXCEPT !.disf = d, !.backoff = n].fault = b.fault
      BY DEF Buses
<1>6. QED BY <1>1, <1>2, <1>3, <1>4, <1>5

LEMMA TransmitOps ==
  ASSUME NEW t \in Transmits
  PROVE  /\ \A s \in {"idle", "ready", "busy", "wait_ack"} :
              /\ [t EXCEPT !.state = s] \in Transmits /\ [t EXCEPT !.state = s].state = s
              /\ [t EXCEPT !.state = s].pos = t.pos /\ [t EXCEPT !.state = s].count = t.count
              /\ [t EXCEPT !.state = s].max = t.max
         /\ \A r \in Nat : [state |-> "ready", pos |-> 1, count |-> 0, max |-> r] \in Transmits
         /\ ClearedTransmitter \in Transmits /\ ClearedTransmitter.state = "idle"
         /\ ClearedTransmitter.pos = 0
         /\ [t EXCEPT !.count = @ + 1, !.state = "ready"] \in Transmits
<1>1. t.count + 1 \in Nat
      BY DEF Transmits
<1>2. [t EXCEPT !.count = @ + 1, !.state = "ready"] \in Transmits
      BY <1>1 DEF Transmits
<1>3. QED BY <1>2 DEF Transmits, ClearedTransmitter

LEMMA PhyOps ==
  ASSUME phy \in Phys, phy.mode = "recving" => phy.frame # 0
  PROVE  /\ LET p == [Listening(phy) EXCEPT !.cut = {}]
            IN  p \in Phys /\ p.mode = "idle" /\ p.cut = {}
         /\ LET p == [Listening(phy) EXCEPT !.cut = CutOff(phy)]
            IN  p \in Phys /\ p.mode = "idle" /\ p.cut = CutOff(phy)
         /\ LET p == StartSending(phy)
            IN  /\ p \in Phys /\ p.mode = "sending" /\ p.monitor = phy.monitor
                /\ p.cut = CutOff(phy)
         /\ \A ok \in BOOLEAN : LET p == SendingOver(phy, ok)
                               IN  p \in Phys /\ p.mode = "idle" /\ p.cut = phy.cut
         /\ LET p == [phy EXCEPT !.monitor = FALSE]
            IN  /\ p \in Phys /\ p.mode = phy.mode /\ ~p.monitor /\ p.age = phy.age
                /\ p.frame = phy.frame /\ p.cut = phy.cut
<1>1. CutOff(phy) \in SUBSET (1 .. MaxFrames)
      BY DEF Phys, CutOff
<1>2. \A c \in SUBSET (1 .. MaxFrames) :
        /\ [Listening(phy) EXCEPT !.cut = c] \in Phys
        /\ [Listening(phy) EXCEPT !.cut = c].mode = "idle"
        /\ [Listening(phy) EXCEPT !.cut = c].cut = c
      BY DEF Phys, Listening
<1>3. /\ StartSending(phy) \in Phys /\ StartSending(phy).mode = "sending"
      /\ StartSending(phy).monitor = phy.monitor /\ StartSending(phy).cut = CutOff(phy)
      BY <1>1 DEF Phys, StartSending
<1>4. {} \in SUBSET (1 .. MaxFrames)
      OBVIOUS
<1>5. \A ok \in BOOLEAN : LET p == SendingOver(phy, ok)
                         IN  p \in Phys /\ p.mode = "idle" /\ p.cut = phy.cut
      BY DEF Phys, SendingOver
<1>6. LET p == [phy EXCEPT !.monitor = FALSE]
      IN  /\ p \in Phys /\ p.mode = phy.mode /\ ~p.monitor /\ p.age = phy.age
          /\ p.frame = phy.frame /\ p.cut = phy.cut
      BY DEF Phys
<1>7. QED BY <1>1, <1>2, <1>3, <1>4, <1>5, <1>6

LEMMA HandlerOps ==
  ASSUME NEW pp \in Handlers
  PROVE  /\ HandOver(pp) \in Handlers /\ HandOver(pp).read \in Buffers
         /\ HandOver(pp).write \in Buffers
         /\ SetReadDone(pp) \in Handlers /\ SetReadDone(pp).write = pp.write
         /\ SetReadDone(pp).read = pp.read
<1>1. \A q \in Handlers : /\ GetReadBuf(q) \in Handlers /\ GetWriteBuf(q) \in Handlers
                          /\ SetWriteDone(q) \in Handlers
  <2>1. SUFFICES ASSUME NEW q \in Handlers
                 PROVE  /\ GetReadBuf(q) \in Handlers /\ GetWriteBuf(q) \in Handlers
                        /\ SetWriteDone(q) \in Handlers
        OBVIOUS
  <2>2. GetReadBuf(q) \in Handlers /\ GetWriteBuf(q) \in Handlers
        BY DEF GetReadBuf, GetWriteBuf, Handlers, Buffers
  <2>3. [q.avail EXCEPT ![q.write] = TRUE] \in [Buffers -> BOOLEAN]
        BY DEF Handlers
  <2>4. 1 - q.write \in Buffers
        BY DEF Handlers, Buffers
  <2>5. QED BY <2>2, <2>3, <2>4 DEF SetWriteDone, Handlers
<1>2. HandOver(pp) \in Handlers
      BY <1>1 DEF HandOver
<1>3. [pp.avail EXCEPT ![pp.read] = FALSE] \in [Buffers -> BOOLEAN]
      BY DEF Handlers
<1>4. QED BY <1>2, <1>3 DEF SetReadDone, Handlers

\* What the types say of the fields, one by one.
LEMMA Ranges ==
  ASSUME TypeInv
  PROVE  /\ bus.fault \in BOOLEAN /\ bus.state \in {"idle", "busy"}
         /\ bus.disf \in Nat /\ bus.disf <= Disf /\ bus.backoff \in Nat
         /\ tx.state \in {"idle", "ready", "busy", "wait_ack"} /\ tx.pos \in {0, 1}
         /\ tx.count \in Nat /\ tx.max \in Nat
         /\ phy.mode \in {"idle", "sending", "recving"} /\ phy.monitor \in BOOLEAN
         /\ phy.frame \in 0 .. MaxFrames /\ phy.offset \in Nat /\ phy.offset <= Capacity + 1
         /\ phy.age \in Nat /\ phy.age <= FrameTicks
         /\ pingpong \in Handlers /\ preceiver \in Buffers
         /\ waited \in Nat /\ waited <= PollPeriod /\ sends \in Nat
BY Constants DEF TypeInv, BufferType, Buses, Transmits, Phys, Handlers

LEMMA InitTypes == Init => TypeInv
<1>1. SUFFICES ASSUME Init PROVE TypeInv
      OBVIOUS
<1>2. bus \in Buses /\ tx \in Transmits /\ phy \in Phys /\ phy.mode = "idle"
      BY <1>1, Constants DEF Init, Buses, Transmits, Phys, PhyIdle
<1>3. MainType
      BY <1>1 DEF Init, MainType, MainIdle, MainPcs
<1>4. BufferType
  <2>1. pingpong \in Handlers
    <3>1. NewHandler \in Handlers
          BY DEF NewHandler, Handlers, Buffers
    <3>2. \A q \in Handlers : GetWriteBuf(q) \in Handlers
          BY DEF GetWriteBuf, Handlers, Buffers
    <3>3. QED BY <1>1, <3>1, <3>2 DEF Init
  <2>2. rxbuf \in Receives
        BY <1>1, Constants DEF Init, Receives
  <2>3. QED BY <1>1, <2>1, <2>2 DEF Init, BufferType
<1>5. QED BY <1>1, <1>2, <1>3, <1>4, Constants DEF Init, TypeInv

\* The queue keeps its type; it may be full.
LEMMA EventTypes ==
  ASSUME events \in Seq(Events)
  PROVE  /\ \A e \in Events : EventPost(e) => events' \in Seq(Events)
         /\ \A e : Poll(e) => events' \in Seq(Events)
<1>1. \A e \in Events : EventPost(e) => events' \in Seq(Events)
      BY DEF EventPost
<1>2. \A e : Poll(e) => events' \in Seq(Events)
      BY DEF Poll
<1>3. QED BY <1>1, <1>2

LEMMA StartBitTypes == TypeInv /\ StartBitDetected => TypeInv'
<1>1. SUFFICES ASSUME TypeInv, StartBitDetected PROVE TypeInv'
      OBVIOUS
<1>2. frames' \in 0 .. MaxFrames /\ frames' # 0
      BY <1>1, Constants DEF TypeInv, StartBitDetected
<1>3. phy' \in Phys /\ phy'.frame # 0
  <2>1. phy' = StartRecving(phy, frames') /\ phy \in Phys
        BY <1>1 DEF TypeInv, StartBitDetected
  <2>2. 0 \in 0 .. Capacity + 1 /\ 0 \in 0 .. FrameTicks
        BY Constants
  <2>3. QED BY <1>2, <2>1, <2>2 DEF StartRecving, Phys
<1>4. bus' \in Buses
      BY <1>1, BusOps DEF TypeInv, StartBitDetected
<1>5. QED BY <1>1, <1>2, <1>3, <1>4 DEF TypeInv, MainType, BufferType, StartBitDetected

LEMMA TimerByteTypes == TypeInv /\ TimerByte => TypeInv'
<1>1. SUFFICES ASSUME TypeInv, TimerByte PROVE TypeInv'
      OBVIOUS
<1>2. phy \in Phys /\ phy.offset + 1 \in 0 .. Capacity + 1
      BY <1>1, Constants, Ranges DEF TypeInv, TimerByte
<1>3. phy' \in Phys /\ phy'.frame = phy.frame
  <2>1. phy' = [phy EXCEPT !.offset = @ + 1]
        BY <1>1 DEF TimerByte
  <2>2. QED BY <1>2, <2>1 DEF Phys
<1>4. rxbuf' \in Receives
  <2>1. /\ rxbuf \in Receives /\ preceiver \in Buffers /\ phy.frame \in 1 .. MaxFrames
        BY <1>1, Ranges, Constants DEF TypeInv, BufferType, TimerByte
  <2>2. rxbuf[preceiver].bits \cup {phy.frame} \in SUBSET (1 .. MaxFrames)
        BY <2>1 DEF Receives
  <2>3. rxbuf' = rxbuf
        \/ rxbuf' = [rxbuf EXCEPT ![preceiver].bits = rxbuf[preceiver].bits \cup {phy.frame}]
        BY <1>1 DEF TimerByte
  <2>4. QED BY <2>1, <2>2, <2>3 DEF Receives
<1>5. QED BY <1>1, <1>3, <1>4 DEF TypeInv, MainType, BufferType, TimerByte

LEMMA TimerRecvOkTypes == TypeInv /\ TimerRecvOk => TypeInv'
<1>1. SUFFICES ASSUME TypeInv, TimerRecvOk PROVE TypeInv'
      OBVIOUS
<1> DEFINE pp == HandOver(pingpong)
<1>2. pp \in Handlers /\ pp.read \in Buffers /\ pp.write \in Buffers
      BY <1>1, HandlerOps DEF TypeInv, BufferType
<1>3. /\ pingpong' = pp /\ processer' = pp.read /\ preceiver' = pp.write
      /\ rxbuf' = [rxbuf EXCEPT ![pp.read].pos = Length(phy), ![pp.write].bits = {}]
      BY <1>1 DEF TimerRecvOk
<1> HIDE DEF pp
<1>4. Length(phy) \in 0 .. Capacity
      BY <1>1, Ranges, Constants DEF Length
<1>5. rxbuf' \in Receives
  <2>1. rxbuf \in Receives
        BY <1>1 DEF TypeInv, BufferType
  <2>2. QED BY <1>2, <1>3, <1>4, <2>1 DEF Receives
<1>6. BufferType'
      BY <1>2, <1>3, <1>5 DEF BufferType
<1>7. bus' \in Buses /\ phy' \in Phys /\ phy'.mode = "idle"
      BY <1>1, BusOps, PhyOps DEF TypeInv, TimerRecvOk
<1>8. events' \in Seq(Events)
      BY <1>1, EventTypes DEF TypeInv, TimerRecvOk, Events
<1>9. QED BY <1>1, <1>6, <1>7, <1>8 DEF TypeInv, MainType, TimerRecvOk

LEMMA TimerOtherTypes ==
  /\ TypeInv /\ TimerRecvFault => TypeInv'
  /\ \A ok \in BOOLEAN : TypeInv /\ TimerSent(ok) => TypeInv'
<1>1. ASSUME TypeInv, TimerRecvFault PROVE TypeInv'
  <2>1. bus' \in Buses /\ phy' \in Phys /\ phy'.mode = "idle"
        BY <1>1, BusOps, PhyOps DEF TypeInv, TimerRecvFault
  <2>2. QED BY <1>1, <2>1 DEF TypeInv, MainType, BufferType, TimerRecvFault, recvVars
<1>2. ASSUME NEW ok \in BOOLEAN, TypeInv, TimerSent(ok) PROVE TypeInv'
  <2>1. bus' \in Buses /\ phy' \in Phys /\ phy'.mode = "idle" /\ tx' \in Transmits
        BY <1>2, BusOps, PhyOps, TransmitOps DEF TypeInv, TimerSent
  <2>2. QED BY <1>2, <2>1 DEF TypeInv, MainType, BufferType, TimerSent, recvVars
<1>3. QED BY <1>1, <1>2

LEMMA TimerFaultTypes == TypeInv /\ (TimerBusFault \/ TimerBusRecover) => TypeInv'
<1>1. SUFFICES ASSUME TypeInv, TimerBusFault \/ TimerBusRecover PROVE TypeInv'
      OBVIOUS
<1>2. \A f \in BOOLEAN : [bus EXCEPT !.fault = f] \in Buses
      BY <1>1, BusOps DEF TypeInv
<1>3. bus' \in Buses
  <2>1. \A b \in Buses : Locked(b) \in Buses /\ Recovered(b) \in Buses
        BY BusOps
  <2>2. \E f \in BOOLEAN : \/ bus' = Locked([bus EXCEPT !.fault = f])
                           \/ bus' = Recovered([bus EXCEPT !.fault = f])
        BY <1>1 DEF TimerBusFault, TimerBusRecover
  <2>3. QED BY <1>2, <2>1, <2>2
<1>4. events' \in Seq(Events)
      BY <1>1, EventTypes DEF TypeInv, TimerBusFault, TimerBusRecover, Events
<1>5. QED BY <1>1, <1>3, <1>4
          DEF TypeInv, MainType, BufferType, TimerBusFault, TimerBusRecover, recvVars

LEMMA TickTypes == TypeInv /\ Tick => TypeInv'
<1>1. SUFFICES ASSUME TypeInv, Tick PROVE TypeInv'
      OBVIOUS
<1>2. bus' \in Buses
  <2>1. bus \in Buses /\ NewDisf \in 0 .. Disf /\ 0 \in 0 .. Disf /\ 0 \in Nat
        BY <1>1, Ranges, Constants DEF TypeInv, NewDisf
  <2>2. ASSUME bus.backoff > 1 PROVE bus.backoff - 1 \in Nat
        BY <1>1, <2>2, Ranges
  <2>3. Backoffs \subseteq Nat
        BY Constants
  <2>4. CASE TickBackoff
    <3>1. \/ \E n \in Nat : bus' = [bus EXCEPT !.disf = 0, !.backoff = n]
          \/ bus' = Locked([bus EXCEPT !.disf = 0, !.backoff = 0])
          BY <2>2, <2>3, <2>4 DEF TickBackoff
    <3>2. \A n \in Nat : [bus EXCEPT !.disf = 0, !.backoff = n] \in Buses
          BY <2>1, BusOps
    <3>3. \A b \in Buses : Locked(b) \in Buses
          BY BusOps
    <3>4. QED BY <2>1, <3>1, <3>2, <3>3
  <2>5. CASE ~TickBackoff
    <3>1. bus' = bus \/ \E d \in 0 .. Disf : bus' = [bus EXCEPT !.disf = d]
          BY <1>1, <2>1, <2>5 DEF Tick, TickSuspended, TickSilence, TickGiveUp
    <3>2. \A d \in 0 .. Disf : [bus EXCEPT !.disf = d] \in Buses
          BY <2>1, BusOps
    <3>3. QED BY <2>1, <3>1, <3>2
  <2>6. QED BY <2>4, <2>5
<1>3. tx' \in Transmits
      BY <1>1, TransmitOps
      DEF TypeInv, Tick, TickSuspended, TickSilence, TickGiveUp, TickBackoff, TickedTx
<1>4. phy' \in Phys /\ phy'.mode = phy.mode /\ phy'.frame = phy.frame
  <2>1. phy \in Phys /\ (phy.mode = "recving" => phy.age + 1 \in 0 .. FrameTicks)
        BY <1>1, Ranges, Constants DEF TypeInv, Tick
  <2>2. phy' = phy \/ (phy.mode = "recving" /\ phy' = [phy EXCEPT !.age = phy.age + 1])
        BY <1>1 DEF Tick
  <2>3. QED BY <2>1, <2>2 DEF Phys
<1>5. events' \in Seq(Events)
      BY <1>1, EventTypes
      DEF TypeInv, Events, Tick, TickSuspended, TickSilence, TickGiveUp, TickBackoff
<1>6. waited' \in 0 .. PollPeriod
      BY <1>1, Ranges, Constants DEF TypeInv, Tick
<1>7. QED BY <1>1, <1>2, <1>3, <1>4, <1>5, <1>6 DEF TypeInv, MainType, BufferType, Tick, recvVars

LEMMA PollingTypes == TypeInv /\ Polling => TypeInv'
<1>1. SUFFICES ASSUME TypeInv, Polling PROVE TypeInv'
      OBVIOUS
<1>2. waited' \in 0 .. PollPeriod
      BY <1>1, Constants DEF TypeInv, Polling, PollReceived, PollCopied, PollParse, PollParsed,
         PollReady, PollStart, PollSent, PollFault
<1>3. events' \in Seq(Events)
      BY <1>1, EventTypes DEF TypeInv, Polling, PollReceived, PollCopied, PollParse, PollParsed,
         PollReady, PollStart, PollSent, PollFault, recvVars
<1>4. bus' \in Buses
  <2>1. Disf \in 0 .. Disf
        BY Constants
  <2>2. bus' = bus \/ bus' = [bus EXCEPT !.disf = Disf]
        BY <1>1 DEF Polling, PollReceived, PollCopied, PollParse, PollParsed, PollReady,
           PollStart, PollSent, PollFault
  <2>3. bus \in Buses
        BY <1>1 DEF TypeInv
  <2>4. \A d \in 0 .. Disf : [bus EXCEPT !.disf = d] \in Buses
        BY <2>3, BusOps
  <2>5. QED BY <2>1, <2>2, <2>3, <2>4
<1>5. tx' \in Transmits
      BY <1>1, TransmitOps DEF TypeInv, Polling, PollReceived, PollCopied, PollParse, PollParsed,
         PollReady, PollStart, PollSent, PollFault
<1>6. phy' \in Phys /\ (phy'.mode = "recving" => phy'.frame # 0)
      BY <1>1, PhyOps DEF TypeInv, Polling, PollReceived, PollCopied, PollParse,
         PollParsed, PollReady, PollStart, PollSent, PollFault
<1>7. sends' \in Nat
      BY <1>1 DEF TypeInv, Polling, PollReceived, PollCopied, PollParse,
         PollParsed, PollReady, PollStart, PollSent, PollFault
<1>8. BufferType' /\ frames' = frames
  <2>1. CASE PollParse
        BY <1>1, <2>1, HandlerOps DEF TypeInv, BufferType, PollParse
  <2>2. CASE ~PollParse
        BY <1>1, <2>2 DEF TypeInv, BufferType, Polling, PollReceived, PollCopied,
           PollParsed, PollReady, PollStart, PollSent, PollFault, recvVars
  <2>3. QED BY <2>1, <2>2
<1>9. MainType'
  <2>1. \/ main' = main \/ main' = MainIdle \/ main' = [MainIdle EXCEPT !.pc = "parsing"]
        \/ \E c \in {"sending", "started"} : main' = [main EXCEPT !.pc = c]
        \/ \E s, f : main' = [main EXCEPT !.pc = "copying", !.src = s, !.first = f]
        \/ \E s, n : main' = [main EXCEPT !.pc = "copied", !.second = s, !.len = n]
        BY <1>1 DEF Polling, PollReceived, PollCopied, PollParse, PollParsed,
           PollReady, PollStart, PollSent, PollFault
  <2>2. MainType
        BY <1>1 DEF TypeInv
  <2>3. CASE main' = main \/ main' = MainIdle \/ main' = [MainIdle EXCEPT !.pc = "parsing"]
        BY <2>2, <2>3 DEF MainType, MainIdle, MainPcs
  <2>4. CASE \E c \in {"sending", "started"} : main' = [main EXCEPT !.pc = c]
    <3>1. PICK c \in {"sending", "started"} : main' = [main EXCEPT !.pc = c]
          BY <2>4
    <3>2. QED BY <2>2, <3>1 DEF MainType, MainPcs
  <2>5. CASE \E s, f : main' = [main EXCEPT !.pc = "copying", !.src = s, !.first = f]
        BY <2>2, <2>5 DEF MainType, MainPcs
  <2>6. CASE \E s, n : main' = [main EXCEPT !.pc = "copied", !.second = s, !.len = n]
        BY <2>2, <2>6 DEF MainType, MainPcs
  <2>7. QED BY <2>1, <2>3, <2>4, <2>5, <2>6
<1>10. QED BY <1>1, <1>2, <1>3, <1>4, <1>5, <1>6, <1>7, <1>8, <1>9 DEF TypeInv

LEMMA ApplicationTypes == TypeInv /\ Application => TypeInv'
<1>1. SUFFICES ASSUME TypeInv, Application PROVE TypeInv'
      OBVIOUS
<1>2. bus' \in Buses
  <2>1. Disf \in 0 .. Disf
        BY Constants
  <2>2. bus' = bus \/ bus' = Locked(bus) \/ bus' = [bus EXCEPT !.disf = Disf]
        BY <1>1 DEF Application, SetTransmitter, DirectSend, DirectSent,
           SetTransmitterCache, ClearTransmitter
  <2>3. bus \in Buses
        BY <1>1 DEF TypeInv
  <2>4. Locked(bus) \in Buses /\ \A d \in 0 .. Disf : [bus EXCEPT !.disf = d] \in Buses
        BY <2>3, BusOps
  <2>5. QED BY <2>1, <2>2, <2>3, <2>4
<1>3. tx' \in Transmits
  <2>1. Retrans \subseteq Nat /\ main.old \in {"idle", "ready", "busy", "wait_ack"}
        BY <1>1, Constants DEF TypeInv, MainType
  <2>2. \/ tx' = tx \/ tx' = ClearedTransmitter
        \/ \E s \in {"idle", "ready", "busy", "wait_ack"} : tx' = [tx EXCEPT !.state = s]
        \/ \E r \in Nat : tx' = [state |-> "ready", pos |-> 1, count |-> 0, max |-> r]
        BY <1>1, <2>1 DEF Application, SetTransmitter, DirectSend, DirectSent,
           SetTransmitterCache, ClearTransmitter
  <2>3. tx \in Transmits
        BY <1>1 DEF TypeInv
  <2>4. \A s \in {"idle", "ready", "busy", "wait_ack"} : [tx EXCEPT !.state = s] \in Transmits
        BY <2>3, TransmitOps
  <2>5. /\ ClearedTransmitter \in Transmits
        /\ \A r \in Nat : [state |-> "ready", pos |-> 1, count |-> 0, max |-> r] \in Transmits
        BY <2>3, TransmitOps
  <2>6. QED BY <2>2, <2>3, <2>4, <2>5
<1>4. phy' \in Phys /\ (phy'.mode = "recving" => phy'.frame # 0)
      BY <1>1, PhyOps DEF TypeInv, Application, SetTransmitter, DirectSend, DirectSent,
         SetTransmitterCache, ClearTransmitter
<1>5. MainType'
  <2>1. MainType /\ tx.state \in {"idle", "ready", "busy", "wait_ack"}
        BY <1>1, Ranges DEF TypeInv
  <2>2. \/ main' = main \/ main' = [main EXCEPT !.pc = "replying"]
        \/ AppTurn /\ \E o \in {"idle", "ready", "wait_ack"} :
             main' = [main EXCEPT !.pc = "direct", !.ret = main.pc, !.old = o]
        \/ main' = [MainIdle EXCEPT !.pc = main.ret, !.ret = main.ret]
        BY <1>1, <2>1 DEF Application, SetTransmitter, DirectSend, DirectSent,
           SetTransmitterCache, ClearTransmitter
  <2>3. QED BY <2>1, <2>2 DEF MainType, MainIdle, MainPcs, AppTurn
<1>6. BufferType' /\ UNCHANGED <<frames, waited, events>> /\ sends' \in Nat
      BY <1>1 DEF TypeInv, BufferType, Application, SetTransmitter, DirectSend, DirectSent,
         SetTransmitterCache, ClearTransmitter, recvVars
<1>7. QED BY <1>1, <1>2, <1>3, <1>4, <1>5, <1>6 DEF TypeInv

LEMMA TypeStep == TypeInv /\ [Next]_vars => TypeInv'
<1>1. TypeInv /\ UNCHANGED vars => TypeInv'
      BY DEF TypeInv, MainType, BufferType, vars
<1>2. TypeInv /\ TimerExpired => TypeInv'
      BY TimerByteTypes, TimerRecvOkTypes, TimerOtherTypes, TimerFaultTypes DEF TimerExpired
<1>3. QED BY <1>1, <1>2, StartBitTypes, TickTypes, PollingTypes, ApplicationTypes DEF Next

\* Every field keeps its range: no byte is stored beyond recv_capacity, the
\* two counters of the bus never pass their limits, and the main loop, the
\* timer and the tick never leave a state the others do not know.
THEOREM TypeCorrect == Spec => []TypeOK
<1>1. TypeInv => TypeOK
  <2>1. SUFFICES ASSUME TypeInv PROVE TypeOK
        OBVIOUS
  <2>2. preceiver \in Buffers
        BY <2>1, Ranges
  <2>3. QED BY <2>1, <2>2
            DEF TypeInv, BufferType, TypeOK, Buses, Transmits, Phys, Receives, Events
<1>2. QED BY <1>1, InitTypes, TypeStep, PTL DEF Spec

-----------------------------------------------------------------------------
(* The station that keeps time.                                            *)

(* The timing and the caller under which it works: the caller replies once, *)
(* from the parser, and only when no message is cached that has its turn to  *)
(* come or is on the wire and no event waits, and neither sends nor clears during a transmission; no  *)
(* start bit falls between the last two statements of mia_phy_start_sending;*)
(* the main loop handles two events within the silence, and within the time *)
(* a frame takes; the queue holds three events.  The last clause is the     *)
(* bound of `sends`.                                                        *)
Timely == /\ CarefulCaller = TRUE /\ EarlyReplies = FALSE /\ StartBitRace = FALSE
          /\ Disf > 2 * PollPeriod /\ FrameTicks > 2 * PollPeriod
          /\ EventDepth >= 3
          /\ \A r \in Retrans : r < MaxSends

\* What the queue may hold: a fault and its recovery, a frame, the right to
\* send, and what comes after that one before it is used.
None == <<>>
Fault == <<BusFault>>
Recovery == <<BusRecover>>
Outage == <<BusFault, BusRecover>>
Frame == <<Received>>
Ready == <<TransmitterReady>>
ReadyFault == <<TransmitterReady, BusFault>>
ReadyOutage == <<TransmitterReady, BusFault, BusRecover>>
ReadyFrame == <<TransmitterReady, Received>>

Quiet == {None, Fault, Recovery, Outage, Frame}
SendWaits == events \in {Ready, ReadyFault, ReadyOutage, ReadyFrame}
FrameWaits == events \in {Frame, ReadyFrame}
Sending == main.pc \in {"sending", "started"}
Copying == main.pc \in {"copying", "copied"}
Handling == Copying \/ main.pc \in {"parsing", "direct", "replying"}

QueueInv ==
  /\ events \in Quiet \/ SendWaits
  /\ bus.fault => events \in {None, Fault, ReadyFault}
  /\ ~bus.fault => events \notin {Fault, ReadyFault}
  /\ SendWaits => tx.state = "ready" /\ main.pc = "idle" /\ phy.mode # "sending"
  /\ Handling => events = None /\ ~bus.fault

\* The ticks the main loop may still take until it has handled the events, or
\* the right to send, which ends every reception.
Due == (IF main.pc = "idle" /\ events = None THEN 0
        ELSE IF main.pc = "idle" /\ events = Outage THEN 2 * PollPeriod
        ELSE PollPeriod) - waited

\* Nothing is late: the events are handled before the silence is over, and
\* before the next frame is.
TimeInv ==
  /\ ~MainBehind => waited = 0
  /\ ~bus.fault /\ bus.state = "idle" /\ tx.state # "busy" => Due < bus.disf \/ Due = 0
  /\ phy.mode = "recving" /\ (events \notin {None, Ready} \/ Handling)
       => Due + phy.age < FrameTicks
  /\ phy.mode = "recving" /\ bus.fault => phy.age = 0

\* Who sends: the cached message, or the reply the parser made.
SenderInv ==
  /\ main.pc = "sending" => tx.state = "busy" /\ phy.mode # "sending"
  /\ main.pc \in {"started", "replying"} => phy.mode = "sending" /\ tx.state = "busy"
  /\ tx.state = "busy" => main.pc = "sending" \/ phy.mode = "sending"
  /\ phy.mode = "sending" /\ tx.state # "busy" =>
       /\ bus.state = "busy" /\ ~bus.fault /\ events = None
       /\ tx.state # "ready"
       /\ main.pc = "idle" \/ (main.pc = "parsing" /\ main.ret = "parsing")
  /\ phy.mode = "sending" /\ main.pc \notin {"started", "replying"} => ~phy.monitor
ReplyInv ==
  /\ main.pc \in {"direct", "replying"} => main.ret = "parsing" /\ main.old # "ready"
  /\ main.pc = "direct" => tx.state = main.old /\ phy.mode # "sending"
  /\ main.pc = "replying" => bus.state = "busy" /\ (tx.pos = 1 => main.old = "wait_ack")
  /\ main.pc \notin {"parsing", "direct", "replying"} => main.ret = "idle"

SendsInv ==
  tx.pos = 1 =>
    /\ tx.state # "idle" /\ tx.count <= tx.max /\ tx.max < MaxSends
    /\ sends = IF tx.state = "ready" \/ main.pc = "sending" THEN tx.count ELSE tx.count + 1

\* The frame on its way is the one in the buffer that poll reads.
Unparsed == FrameWaits \/ Copying
Waiting == Head(whole)
CopyInv ==
  /\ ~Unparsed => whole = <<>>
  /\ Unparsed => /\ whole = <<Waiting>> /\ processer = pingpong.read
                 /\ Waiting.frame \in rxbuf[processer].bits
                 /\ rxbuf[processer].bits \subseteq {Waiting.frame} \cup Waiting.cut
                 /\ Waiting.len = rxbuf[processer].pos
  /\ Copying => main.src = processer /\ main.first = rxbuf[processer].bits
  /\ main.pc = "copied" => main.second = rxbuf[processer].bits /\ main.len = Waiting.len
  /\ phy.mode = "recving" /\ phy.offset > 0 => phy.frame \in rxbuf[preceiver].bits
PingPongInv ==
  /\ pingpong.write # pingpong.read
  /\ \A b \in Buffers : pingpong.avail[b] => Unparsed /\ b = pingpong.read

\* What the buffer being filled holds: frames that broke off since it was
\* cleared, and the one on its way; no other starts in the middle of that.
BitsInv ==
  /\ rxbuf[preceiver].bits \subseteq CutOff(phy)
  /\ phy.mode = "recving" => ~phy.monitor

Parts == /\ QueueInv /\ TimeInv /\ SenderInv /\ ReplyInv /\ SendsInv /\ CopyInv /\ PingPongInv
IInv == TypeInv /\ Parts /\ BitsInv

-----------------------------------------------------------------------------
LEMMA Distinct ==
  /\ None \notin {Fault, Recovery, Outage, Frame, Ready, ReadyFault, ReadyOutage, ReadyFrame}
  /\ Fault \notin {Recovery, Outage, Frame, Ready, ReadyFault, ReadyOutage, ReadyFrame}
  /\ Recovery \notin {Outage, Frame, Ready, ReadyFault, ReadyOutage, ReadyFrame}
  /\ Outage \notin {Frame, Ready, ReadyFault, ReadyOutage, ReadyFrame}
  /\ Frame \notin {Ready, ReadyFault, ReadyOutage, ReadyFrame}
  /\ Ready \notin {ReadyFault, ReadyOutage, ReadyFrame}
  /\ ReadyFault \notin {ReadyOutage, ReadyFrame} /\ ReadyOutage # ReadyFrame
<1>1. /\ Len(None) = 0 /\ Len(Fault) = 1 /\ Len(Recovery) = 1 /\ Len(Frame) = 1
      /\ Len(Ready) = 1 /\ Len(Outage) = 2 /\ Len(ReadyFault) = 2 /\ Len(ReadyFrame) = 2
      /\ Len(ReadyOutage) = 3
      BY DEF None, Fault, Recovery, Outage, Frame, Ready, ReadyFault, ReadyOutage, ReadyFrame
<1>2. /\ Fault[1] = "bus_fault" /\ Recovery[1] = "bus_recover" /\ Frame[1] = "received"
      /\ Ready[1] = "transmitter_ready"
      BY DEF Fault, Recovery, Frame, Ready, BusFault, BusRecover, Received, TransmitterReady
<1>3. /\ Outage[1] = "bus_fault" /\ ReadyFault[1] = "transmitter_ready"
      /\ ReadyFrame[1] = "transmitter_ready"
      /\ ReadyFault[2] = "bus_fault" /\ ReadyFrame[2] = "received"
      BY DEF Outage, ReadyFault, ReadyFrame, BusFault, Received, TransmitterReady
<1>4. None \notin {Fault, Recovery, Outage, Frame, Ready, ReadyFault, ReadyOutage, ReadyFrame}
      BY <1>1
<1>5. /\ Fault \notin {Recovery, Frame, Ready} /\ Recovery \notin {Frame, Ready} /\ Frame # Ready
      BY <1>2
<1>6. /\ {Fault, Recovery, Frame, Ready} \cap {Outage, ReadyFault, ReadyFrame, ReadyOutage} = {}
      /\ ReadyOutage \notin {Outage, ReadyFault, ReadyFrame}
      BY <1>1
<1>7. Outage # ReadyFault /\ Outage # ReadyFrame
      BY <1>3
<1>8. ReadyFault # ReadyFrame
      BY <1>3
<1>9. QED BY <1>4, <1>5, <1>6, <1>7, <1>8

LEMMA Appended ==
  ASSUME NEW a, NEW b, NEW c
  PROVE  Append(<<a>>, b) = <<a, b>> /\ Append(<<a, b>>, c) = <<a, b, c>>
<1> DEFINE S == {a, b, c}
<1>1. /\ <<a>> \in Seq(S) /\ <<a, b>> \in Seq(S) /\ <<a, b, c>> \in Seq(S)
      /\ b \in S /\ c \in S
      OBVIOUS
<1>2. Append(<<a>>, b) = <<a, b>>
  <2>1. Append(<<a>>, b) \in Seq(S) /\ Len(Append(<<a>>, b)) = Len(<<a, b>>)
        BY <1>1
  <2>2. \A i \in 1 .. Len(<<a, b>>) : i = 1 \/ i = 2
        OBVIOUS
  <2>3. Append(<<a>>, b)[1] = <<a, b>>[1] /\ Append(<<a>>, b)[2] = <<a, b>>[2]
        BY <1>1
  <2>4. QED BY <1>1, <2>1, <2>2, <2>3, SeqEqual
<1>3. Append(<<a, b>>, c) = <<a, b, c>>
  <2>1. Append(<<a, b>>, c) \in Seq(S) /\ Len(Append(<<a, b>>, c)) = Len(<<a, b, c>>)
        BY <1>1
  <2>2. \A i \in 1 .. Len(<<a, b, c>>) : i = 1 \/ i = 2 \/ i = 3
        OBVIOUS
  <2>3. /\ Append(<<a, b>>, c)[1] = <<a, b, c>>[1]
        /\ Append(<<a, b>>, c)[2] = <<a, b, c>>[2]
        /\ Append(<<a, b>>, c)[3] = <<a, b, c>>[3]
        BY <1>1
  <2>4. QED BY <1>1, <2>1, <2>2, <2>3, SeqEqual
<1>4. QED BY <1>2, <1>3

\* A queue that is posted to has room.
LEMMA Posted ==
  ASSUME Timely
  PROVE  /\ events = None => /\ EventPost(BusFault) => events' = Fault
                             /\ EventPost(BusRecover) => events' = Recovery
                             /\ EventPost(Received) => events' = Frame
                             /\ EventPost(TransmitterReady) => events' = Ready
         /\ events = Fault /\ EventPost(BusRecover) => events' = Outage
         /\ events = Ready => /\ EventPost(BusFault) => events' = ReadyFault
                              /\ EventPost(Received) => events' = ReadyFrame
         /\ events = ReadyFault /\ EventPost(BusRecover) => events' = ReadyOutage
<1>1. EventDepth > 0 /\ EventDepth > 1 /\ EventDepth > 2
      BY Constants DEF Timely
<1>2. \A e, f, g : /\ Append(<<e>>, f) = <<e, f>> /\ Append(<<e, f>>, g) = <<e, f, g>>
                  /\ Len(<<e>>) = 1 /\ Len(<<e, f>>) = 2
      BY Appended
<1>3. ASSUME events = None
      PROVE  /\ EventPost(BusFault) => events' = Fault
             /\ EventPost(BusRecover) => events' = Recovery
             /\ EventPost(Received) => events' = Frame
             /\ EventPost(TransmitterReady) => events' = Ready
      BY <1>1, <1>3 DEF EventPost, None, Fault, Recovery, Frame, Ready
<1>4. events = Fault /\ EventPost(BusRecover) => events' = Outage
  <2>1. Len(Fault) = 1 /\ Append(Fault, BusRecover) = Outage
        BY <1>2 DEF Fault, Outage
  <2>2. QED BY <1>1, <2>1 DEF EventPost
<1>5. ASSUME events = Ready
      PROVE  /\ EventPost(BusFault) => events' = ReadyFault
             /\ EventPost(Received) => events' = ReadyFrame
  <2>1. /\ Len(Ready) = 1 /\ Append(Ready, BusFault) = ReadyFault
        /\ Append(Ready, Received) = ReadyFrame
        BY <1>2 DEF Ready, ReadyFault, ReadyFrame
  <2>2. QED BY <1>1, <1>5, <2>1 DEF EventPost
<1>6. events = ReadyFault /\ EventPost(BusRecover) => events' = ReadyOutage
  <2>1. Len(ReadyFault) = 2 /\ Append(ReadyFault, BusRecover) = ReadyOutage
        BY <1>2 DEF ReadyFault, ReadyOutage
  <2>2. QED BY <1>1, <2>1 DEF EventPost
<1>7. QED BY <1>3, <1>4, <1>5, <1>6

\* What a poll finds, and leaves.
LEMMA Polled ==
  ASSUME QueueInv
  PROVE  /\ Poll(Received) => events = Frame /\ events' = None
         /\ Poll(TransmitterReady) => \/ events = Ready /\ events' = None
                                      \/ events = ReadyFault /\ events' = Fault
                                      \/ events = ReadyOutage /\ events' = Outage
                                      \/ events = ReadyFrame /\ events' = Frame
         /\ Poll(BusFault) => \/ events = Fault /\ events' = None
                              \/ events = Outage /\ events' = Recovery
         /\ Poll(BusRecover) => events = Recovery /\ events' = None
<1>1. /\ Head(Fault) = "bus_fault" /\ Head(Recovery) = "bus_recover"
      /\ Head(Outage) = "bus_fault" /\ Head(Frame) = "received"
      /\ Head(Ready) = "transmitter_ready" /\ Head(ReadyFault) = "transmitter_ready"
      /\ Head(ReadyOutage) = "transmitter_ready" /\ Head(ReadyFrame) = "transmitter_ready"
      BY DEF Fault, Recovery, Outage, Frame, Ready, ReadyFault, ReadyOutage, ReadyFrame,
             BusFault, BusRecover, Received, TransmitterReady
<1>2. /\ Tail(Fault) = None /\ Tail(Recovery) = None /\ Tail(Outage) = Recovery
      /\ Tail(Frame) = None /\ Tail(Ready) = None
      BY DEF None, Fault, Recovery, Outage, Frame, Ready
<1>3. /\ Tail(ReadyFault) = Fault /\ Tail(ReadyOutage) = Outage /\ Tail(ReadyFrame) = Frame
      BY DEF Fault, Outage, Frame, ReadyFault, ReadyOutage, ReadyFrame
<1>4. /\ events \in {None, Fault, Recovery, Outage, Frame, Ready, ReadyFault, ReadyOutage,
                     ReadyFrame}
      BY DEF QueueInv, Quiet, SendWaits
<1>5. \A e : Poll(e) => events # None /\ Head(events) = e /\ events' = Tail(events)
      BY DEF Poll, None
<1>6. QED BY <1>1, <1>2, <1>3, <1>4, <1>5 DEF Received, TransmitterReady, BusFault, BusRecover

\* How long the main loop may still take.
LEMMA DueRange ==
  ASSUME TypeInv
  PROVE  /\ Due \in Int /\ Due <= 2 * PollPeriod - waited /\ Due <= 2 * PollPeriod
         /\ MainBehind => Due >= PollPeriod - waited
         /\ TimeInv => Due >= 0 /\ (~MainBehind => Due = 0)
<1>1. waited \in Nat /\ waited <= PollPeriod /\ PollPeriod \in Nat
      BY Ranges, Constants
<1>2. Due \in Int /\ Due <= 2 * PollPeriod - waited /\ Due <= 2 * PollPeriod
      BY <1>1 DEF Due
<1>3. MainBehind => Due >= PollPeriod - waited
      BY <1>1 DEF Due, MainBehind, None
<1>4. TimeInv => Due >= 0 /\ (~MainBehind => Due = 0)
      BY <1>1, <1>3 DEF Due, MainBehind, None, TimeInv
<1>5. QED BY <1>2, <1>3, <1>4

LEMMA PartsInit == Timely /\ Init => IInv
<1>1. SUFFICES ASSUME Timely, Init PROVE Parts
  <2>1. Init => BitsInv
    <3>1. SUFFICES ASSUME Init PROVE BitsInv
          OBVIOUS
    <3>2. TypeInv /\ phy.mode = "idle"
          BY <3>1, InitTypes DEF Init, PhyIdle
    <3>3. preceiver \in Buffers
          BY <3>2, Ranges
    <3>4. QED BY <3>1, <3>2, <3>3 DEF Init, BitsInv
  <2>2. QED BY <2>1, InitTypes DEF IInv
<1>2. /\ events = None /\ main.pc = "idle" /\ main.ret = "idle" /\ phy.mode = "idle"
      /\ ~bus.fault /\ tx.state = "idle" /\ tx.pos = 0 /\ waited = 0 /\ whole = <<>>
      BY <1>1 DEF Init, None, MainIdle, PhyIdle
<1>3. ~SendWaits /\ ~FrameWaits /\ ~Handling /\ ~Copying
      BY <1>2, Distinct DEF SendWaits, FrameWaits, Handling, Copying
<1>4. QueueInv
      BY <1>2, <1>3, Distinct DEF QueueInv, Quiet
<1>5. TimeInv
      BY <1>2, <1>3 DEF TimeInv, Due
<1>6. SenderInv /\ ReplyInv /\ SendsInv
      BY <1>2, <1>3 DEF SenderInv, ReplyInv, SendsInv
<1>7. CopyInv
      BY <1>2, <1>3 DEF CopyInv, Unparsed
<1>8. PingPongInv
      BY <1>1 DEF Init, PingPongInv, NewHandler, GetWriteBuf, Buffers
<1>9. QED BY <1>4, <1>5, <1>6, <1>7, <1>8 DEF Parts

-----------------------------------------------------------------------------
(* Every step keeps the parts.                                             *)

LEMMA Steady == /\ UNCHANGED <<main, events, waited>> => Due' = Due
                /\ UNCHANGED <<main, events>> =>
                     /\ (SendWaits)' = SendWaits /\ (FrameWaits)' = FrameWaits
                     /\ (Copying)' = Copying /\ (Handling)' = Handling
                     /\ (Unparsed)' = Unparsed /\ (MainBehind)' = MainBehind
BY DEF Due, SendWaits, FrameWaits, Copying, Handling, Unparsed, MainBehind

LEMMA StartBitParts ==
  ASSUME Timely, IInv, StartBitDetected
  PROVE  Parts'
<1>1. /\ phy.monitor /\ main.pc \notin {"started", "replying"}
      /\ UNCHANGED <<tx, rxbuf, pingpong, preceiver, processer, events, main, waited, whole,
                     sends>>
      BY DEF StartBitDetected, MayStart, Timely
<1>2. phy.mode # "sending"
      BY <1>1 DEF IInv, Parts, SenderInv
<1>3. /\ bus'.state = "busy" /\ bus'.fault = bus.fault
      /\ phy'.mode = "recving" /\ phy'.offset = 0 /\ phy'.age = 0
  <2>1. bus \in Buses /\ phy \in Phys /\ bus' = Locked(bus) /\ phy' = StartRecving(phy, frames')
        BY DEF IInv, TypeInv, StartBitDetected
  <2>2. QED BY <2>1, BusOps DEF StartRecving, Phys
<1>4. QueueInv'
      BY <1>1, <1>3, Steady DEF IInv, Parts, QueueInv, Quiet
<1>5. TimeInv'
  <2>1. Due' = Due /\ Due < FrameTicks /\ Due + 0 < FrameTicks
        BY <1>1, Steady, DueRange, Constants DEF IInv, Timely
  <2>2. QED BY <1>1, <1>3, <2>1, Steady DEF IInv, Parts, TimeInv
<1>6. SenderInv'
      BY <1>1, <1>2, <1>3 DEF IInv, Parts, SenderInv
<1>7. ReplyInv' /\ SendsInv'
      BY <1>1, <1>3 DEF IInv, Parts, ReplyInv, SendsInv
<1>8. CopyInv' /\ PingPongInv'
      BY <1>1, <1>3, Steady DEF IInv, Parts, CopyInv, PingPongInv, Waiting
<1>9. QED BY <1>4, <1>5, <1>6, <1>7, <1>8 DEF Parts

LEMMA TimerByteParts ==
  ASSUME Timely, IInv, TimerByte
  PROVE  Parts'
<1>1. /\ phy.mode = "recving"
      /\ UNCHANGED <<bus, tx, pingpong, preceiver, processer, events, main, waited, whole, sends>>
      BY DEF TimerByte
<1>2. phy'.mode = phy.mode /\ phy'.age = phy.age /\ phy'.frame = phy.frame
      /\ phy'.offset > 0
  <2>1. phy \in Phys /\ phy' = [phy EXCEPT !.offset = @ + 1] /\ phy.offset + 1 > 0
        BY Ranges DEF IInv, TypeInv, TimerByte
  <2>2. QED BY <2>1 DEF Phys
<1>3. QueueInv'
      BY <1>1, <1>2, Steady DEF IInv, Parts, QueueInv, Quiet
<1>4. TimeInv'
      BY <1>1, <1>2, Steady DEF IInv, Parts, TimeInv
<1>5. SenderInv'
      BY <1>1, <1>2 DEF IInv, Parts, SenderInv
<1>6. ReplyInv' /\ SendsInv'
      BY <1>1, <1>2 DEF IInv, Parts, ReplyInv, SendsInv
<1>7. PingPongInv'
      BY <1>1, Steady DEF IInv, Parts, PingPongInv
<1>8. CopyInv'
  <2>1. /\ rxbuf \in Receives /\ preceiver \in Buffers /\ phy.frame \in 1 .. MaxFrames
        BY <1>1, Ranges, Constants DEF IInv, TypeInv, BufferType
  <2>2. \/ rxbuf' = rxbuf /\ phy.offset > 0
        \/ rxbuf' = [rxbuf EXCEPT ![preceiver].bits = rxbuf[preceiver].bits \cup {phy.frame}]
        BY Ranges, Constants DEF IInv, TimerByte
  <2>3. \A b \in Buffers : /\ b # preceiver => rxbuf'[b].bits = rxbuf[b].bits
                           /\ rxbuf'[b].pos = rxbuf[b].pos
        BY <2>1, <2>2 DEF Receives
  <2>4. phy.frame \in rxbuf'[preceiver].bits
    <3>1. CASE rxbuf' = rxbuf /\ phy.offset > 0
          BY <1>1, <3>1 DEF IInv, Parts, CopyInv
    <3>2. CASE rxbuf' = [rxbuf EXCEPT ![preceiver].bits = rxbuf[preceiver].bits \cup {phy.frame}]
          BY <2>1, <3>2 DEF Receives
    <3>3. QED BY <2>2, <3>1, <3>2
  <2>5. Unparsed => processer \in Buffers /\ processer # preceiver
    <3>1. Unparsed => processer = pingpong.read
          BY DEF IInv, Parts, CopyInv
    <3>2. preceiver = pingpong.write /\ pingpong.write # pingpong.read
          BY DEF IInv, TypeInv, BufferType, Parts, PingPongInv
    <3>3. QED BY <3>1, <3>2, Ranges DEF IInv, Handlers
  <2>6. Copying => Unparsed
        BY DEF Unparsed
  <2>7. Unparsed => rxbuf'[processer].bits = rxbuf[processer].bits
                    /\ rxbuf'[processer].pos = rxbuf[processer].pos
        BY <2>3, <2>5
  <2>8. main.pc = "copied" => Copying
        BY DEF Copying
  <2>9. QED BY <1>1, <1>2, <2>4, <2>6, <2>7, <2>8, Steady DEF IInv, Parts, CopyInv, Waiting
<1>9. QED BY <1>3, <1>4, <1>5, <1>6, <1>7, <1>8 DEF Parts

\* The same bounds after a step.
LEMMA DueAfter ==
  ASSUME TypeInv'
  PROVE  /\ Due' \in Int /\ Due' <= 2 * PollPeriod - waited' /\ Due' <= 2 * PollPeriod
         /\ waited' \in Nat
<1>1. waited' \in Nat /\ waited' <= PollPeriod /\ PollPeriod \in Nat
      BY Constants DEF TypeInv
<1>2. \/ Due' = 0 - waited' \/ Due' = PollPeriod - waited' \/ Due' = 2 * PollPeriod - waited'
      BY DEF Due
<1>3. QED BY <1>1, <1>2

\* With nothing to read, the buffer just filled is read next.
LEMMA HandOverEmpty ==
  ASSUME NEW pp \in Handlers, \A b \in Buffers : ~pp.avail[b]
  PROVE  /\ HandOver(pp).read = pp.write /\ HandOver(pp).write # pp.write
         /\ \A b \in Buffers : HandOver(pp).avail[b] <=> b = pp.write
<1> DEFINE done == SetWriteDone(pp)
           taken == GetReadBuf(done)
<1>1. pp.write \in Buffers /\ 1 - pp.write \in Buffers /\ 1 - pp.write # pp.write
      BY DEF Handlers, Buffers
<1>2. /\ done \in Handlers /\ done.write = 1 - pp.write
      /\ \A b \in Buffers : done.avail[b] <=> b = pp.write
      BY <1>1 DEF SetWriteDone, Handlers
<1> HIDE DEF done
<1>3. /\ taken \in Handlers /\ taken.write = done.write /\ taken.avail = done.avail
      /\ taken.read = pp.write
  <2>1. SomethingToRead(done)
        BY <1>1, <1>2 DEF SomethingToRead
  <2>2. (IF done.avail[0] THEN 0 ELSE 1) = pp.write
        BY <1>1, <1>2 DEF Buffers
  <2>3. taken = [done EXCEPT !.read = pp.write]
        BY <2>1, <2>2 DEF GetReadBuf
  <2>4. QED BY <1>1, <1>2, <2>3 DEF Handlers
<1> HIDE DEF taken
<1>4. HandOver(pp) = taken
      BY <1>1, <1>2, <1>3 DEF HandOver, GetWriteBuf, done, taken
<1>5. QED BY <1>1, <1>2, <1>3, <1>4

LEMMA RecvOkParts ==
  ASSUME Timely, IInv, TimerRecvOk, TypeInv'
  PROVE  Parts'
<1>1. /\ phy.mode = "recving" /\ phy.offset > 0 /\ phy.age = FrameTicks
      /\ UNCHANGED <<tx, main, waited, sends>>
      BY DEF TimerRecvOk
<1>2. /\ bus'.state = "idle" /\ bus'.fault = bus.fault /\ bus'.disf = Disf
      /\ phy'.mode = "idle"
      BY BusOps, PhyOps DEF IInv, TypeInv, TimerRecvOk
<1>3. ~bus.fault /\ events \in {None, Ready} /\ ~Handling
  <2>1. Due \in Int /\ Due >= 0 /\ FrameTicks \in Nat /\ FrameTicks > 0
        BY DueRange, Constants DEF IInv, Parts
  <2>2. ~(Due + phy.age < FrameTicks)
        BY <1>1, <2>1
  <2>3. QED BY <1>1, <2>1, <2>2 DEF IInv, Parts, TimeInv
<1>4. ~Unparsed /\ whole = <<>>
      BY <1>3, Distinct DEF IInv, Parts, CopyInv, Unparsed, FrameWaits, Handling
<1>5. /\ events = None => events' = Frame
      /\ events = Ready => events' = ReadyFrame
      BY Posted DEF TimerRecvOk
<1>6. QueueInv'
      BY <1>1, <1>2, <1>3, <1>5, Distinct
      DEF IInv, Parts, QueueInv, Quiet, SendWaits, Handling, Copying
<1>7. TimeInv'
  <2>1. Due' < Disf
        BY DueAfter, Constants DEF Timely
  <2>2. (MainBehind)'
        BY <1>3, <1>5, Distinct DEF MainBehind, None
  <2>3. QED BY <1>2, <2>1, <2>2 DEF TimeInv
<1>8. SenderInv'
      BY <1>1, <1>2 DEF IInv, Parts, SenderInv
<1>9. ReplyInv' /\ SendsInv'
      BY <1>1, <1>2, <1>3 DEF IInv, Parts, ReplyInv, SendsInv, Handling
<1> DEFINE pp == HandOver(pingpong)
<1>10. /\ pp.read = pingpong.write /\ pp.write # pingpong.write
       /\ pp.read \in Buffers /\ pp.write \in Buffers
       /\ \A b \in Buffers : pp.avail[b] <=> b = pingpong.write
  <2>1. \A b \in Buffers : ~pingpong.avail[b]
        BY <1>4 DEF IInv, Parts, PingPongInv
  <2>2. QED BY <2>1, HandOverEmpty, HandlerOps, Ranges DEF IInv
<1>11. /\ pingpong' = pp /\ processer' = pp.read /\ preceiver' = pp.write
       /\ rxbuf' = [rxbuf EXCEPT ![pp.read].pos = Length(phy), ![pp.write].bits = {}]
       /\ whole' = Append(whole, [frame |-> phy.frame, len |-> Length(phy), cut |-> phy.cut])
       BY DEF TimerRecvOk
<1> HIDE DEF pp
<1>12. (FrameWaits)' /\ (Unparsed)' /\ ~(Copying)'
       BY <1>1, <1>3, <1>5 DEF FrameWaits, Unparsed, Handling, Copying
<1>13. CopyInv'
  <2>1. phy.frame \in rxbuf[pp.read].bits
        BY <1>1, <1>10 DEF IInv, TypeInv, BufferType, Parts, CopyInv
  <2>2. rxbuf'[pp.read].bits = rxbuf[pp.read].bits /\ rxbuf'[pp.read].pos = Length(phy)
    <3>1. rxbuf \in Receives
          BY DEF IInv, TypeInv, BufferType
    <3>2. QED BY <1>10, <1>11, <3>1 DEF Receives
  <2>3. whole' = <<[frame |-> phy.frame, len |-> Length(phy), cut |-> phy.cut]>>
        BY <1>4, <1>11
  <2>4. /\ whole' = <<Head(whole')>> /\ Head(whole').frame = phy.frame
        /\ Head(whole').len = Length(phy) /\ Head(whole').cut = phy.cut
        BY <2>3
  <2>5. main'.pc # "copied"
        BY <1>12 DEF Copying
  <2>6. rxbuf[pp.read].bits \subseteq {phy.frame} \cup phy.cut
        BY <1>1, <1>10 DEF IInv, TypeInv, BufferType, BitsInv, CutOff
  <2>7. QED BY <1>2, <1>11, <1>12, <2>1, <2>2, <2>4, <2>5, <2>6 DEF CopyInv, Waiting
<1>14. PingPongInv'
       BY <1>10, <1>11, <1>12 DEF PingPongInv
<1>15. QED BY <1>6, <1>7, <1>8, <1>9, <1>13, <1>14 DEF Parts

LEMMA RecvFaultParts ==
  ASSUME Timely, IInv, TimerRecvFault, TypeInv'
  PROVE  Parts'
<1>1. /\ phy.mode = "recving"
      /\ UNCHANGED <<tx, rxbuf, pingpong, preceiver, processer, events, main, waited, whole,
                     sends>>
      BY DEF TimerRecvFault, recvVars
<1>2. /\ bus'.state = "idle" /\ bus'.fault = bus.fault /\ bus'.disf = Disf
      /\ phy'.mode = "idle"
      BY BusOps, PhyOps DEF IInv, TypeInv, TimerRecvFault
<1>3. QueueInv'
      BY <1>1, <1>2, Steady DEF IInv, Parts, QueueInv, Quiet
<1>4. TimeInv'
  <2>1. Due' < Disf
        BY DueAfter, Constants DEF Timely
  <2>2. QED BY <1>1, <1>2, <2>1, Steady DEF IInv, Parts, TimeInv
<1>5. SenderInv'
      BY <1>1, <1>2 DEF IInv, Parts, SenderInv
<1>6. ReplyInv' /\ SendsInv'
  <2>1. main.pc # "replying"
        BY <1>1 DEF IInv, Parts, SenderInv
  <2>2. QED BY <1>1, <1>2, <2>1 DEF IInv, Parts, ReplyInv, SendsInv
<1>7. CopyInv' /\ PingPongInv'
      BY <1>1, <1>2, Steady DEF IInv, Parts, CopyInv, PingPongInv, Waiting
<1>8. QED BY <1>3, <1>4, <1>5, <1>6, <1>7 DEF Parts

LEMMA SentParts ==
  ASSUME Timely, IInv, NEW ok \in BOOLEAN, TimerSent(ok), TypeInv'
  PROVE  Parts'
<1>1. /\ phy.mode = "sending" /\ main.pc \notin {"started", "replying"}
      /\ UNCHANGED <<rxbuf, pingpong, preceiver, processer, events, main, waited, whole, sends>>
      BY DEF TimerSent, recvVars
<1>2. /\ bus'.state = "idle" /\ bus'.fault = bus.fault /\ bus'.disf = Disf
      /\ phy'.mode = "idle"
  <2>1. /\ bus \in Buses /\ phy \in Phys
        /\ bus' = Recovered(bus) /\ phy' = SendingOver(phy, ok)
        BY DEF IInv, TypeInv, TimerSent
  <2>2. SendingOver(phy, ok).mode = "idle"
        BY PhyOps DEF IInv, TypeInv
  <2>3. QED BY <2>1, <2>2, BusOps
<1>3. /\ tx'.state = "wait_ack" /\ tx'.pos = tx.pos /\ tx'.count = tx.count
      /\ tx'.max = tx.max
      BY TransmitOps DEF IInv, TypeInv, TimerSent
<1>4. main.pc # "sending" /\ main.pc # "direct" /\ tx.state # "ready"
      BY <1>1 DEF IInv, Parts, SenderInv, ReplyInv
<1>5. QueueInv'
      BY <1>1, <1>2, <1>3, <1>4, Steady DEF IInv, Parts, QueueInv, Quiet
<1>6. TimeInv'
  <2>1. Due' < Disf
        BY DueAfter, Constants DEF Timely
  <2>2. QED BY <1>1, <1>2, <2>1, Steady DEF IInv, Parts, TimeInv
<1>7. SenderInv'
      BY <1>1, <1>2, <1>3, <1>4 DEF SenderInv
<1>8. ReplyInv' /\ SendsInv'
      BY <1>1, <1>2, <1>3, <1>4 DEF IInv, Parts, ReplyInv, SendsInv
<1>9. CopyInv' /\ PingPongInv'
      BY <1>1, <1>2, Steady DEF IInv, Parts, CopyInv, PingPongInv, Waiting
<1>10. QED BY <1>5, <1>6, <1>7, <1>8, <1>9 DEF Parts

LEMMA BusFaultParts ==
  ASSUME Timely, IInv, TimerBusFault, TypeInv'
  PROVE  Parts'
<1>1. /\ phy.mode = "idle" /\ ~bus.fault /\ whole = <<>> /\ main.pc \in {"idle", "sending"}
      /\ UNCHANGED <<tx, phy, rxbuf, pingpong, preceiver, processer, main, waited, whole, sends>>
      BY DEF TimerBusFault, recvVars
<1>2. bus'.fault /\ bus'.state = "busy"
  <2>1. [bus EXCEPT !.fault = TRUE] \in Buses /\ [bus EXCEPT !.fault = TRUE].fault = TRUE
        BY BusOps DEF IInv, TypeInv
  <2>2. QED BY <2>1, BusOps DEF TimerBusFault
<1>3. events \in {None, Ready}
  <2>1. \A i \in DOMAIN events : events[i] = "transmitter_ready"
        BY DEF TimerBusFault, TransmitterReady
  <2>2. 1 \in DOMAIN Fault /\ 1 \in DOMAIN Recovery /\ 1 \in DOMAIN Outage /\ 1 \in DOMAIN Frame
        BY DEF Fault, Recovery, Outage, Frame
  <2>3. /\ Fault[1] = "bus_fault" /\ Recovery[1] = "bus_recover" /\ Outage[1] = "bus_fault"
        /\ Frame[1] = "received"
        BY DEF Fault, Recovery, Outage, Frame, BusFault, BusRecover, Received
  <2>4. 2 \in DOMAIN ReadyFault /\ 2 \in DOMAIN ReadyOutage /\ 2 \in DOMAIN ReadyFrame
        BY DEF ReadyFault, ReadyOutage, ReadyFrame
  <2>5. /\ ReadyFault[2] = "bus_fault" /\ ReadyOutage[2] = "bus_fault"
        /\ ReadyFrame[2] = "received"
        BY DEF ReadyFault, ReadyOutage, ReadyFrame, BusFault, Received
  <2>6. QED BY <2>1, <2>2, <2>3, <2>4, <2>5 DEF IInv, Parts, QueueInv, Quiet, SendWaits
<1>4. (events = None /\ events' = Fault) \/ (events = Ready /\ events' = ReadyFault)
      BY <1>3, Posted DEF TimerBusFault
<1>5. ~(Handling)' /\ ~(Copying)' /\ ~(FrameWaits)' /\ ~(Unparsed)' /\ ~Unparsed
      BY <1>1, <1>4, Distinct DEF Handling, Copying, FrameWaits, Unparsed
<1>6. QueueInv'
      BY <1>1, <1>2, <1>4, <1>5, Distinct DEF IInv, Parts, QueueInv, Quiet, SendWaits
<1>7. TimeInv'
  <2>1. (MainBehind)'
        BY <1>4, Distinct DEF MainBehind, None
  <2>2. QED BY <1>1, <1>2, <2>1 DEF TimeInv
<1>8. SenderInv' /\ ReplyInv' /\ SendsInv'
      BY <1>1, <1>2 DEF IInv, Parts, SenderInv, ReplyInv, SendsInv
<1>9. CopyInv' /\ PingPongInv'
      BY <1>1, <1>5 DEF IInv, Parts, CopyInv, PingPongInv, Copying
<1>10. QED BY <1>6, <1>7, <1>8, <1>9 DEF Parts

LEMMA BusRecoverParts ==
  ASSUME Timely, IInv, TimerBusRecover, TypeInv'
  PROVE  Parts'
<1>1. /\ bus.fault
      /\ UNCHANGED <<tx, phy, rxbuf, pingpong, preceiver, processer, main, waited, whole, sends>>
      BY DEF TimerBusRecover, recvVars
<1>2. ~bus'.fault /\ bus'.state = "idle" /\ bus'.disf = Disf
  <2>1. [bus EXCEPT !.fault = FALSE] \in Buses /\ [bus EXCEPT !.fault = FALSE].fault = FALSE
        BY BusOps DEF IInv, TypeInv
  <2>2. QED BY <2>1, BusOps DEF TimerBusRecover
<1>3. \/ events = None /\ events' = Recovery
      \/ events = Fault /\ events' = Outage
      \/ events = ReadyFault /\ events' = ReadyOutage
      BY <1>1, Posted DEF TimerBusRecover, IInv, Parts, QueueInv
<1>4. /\ ~Handling /\ ~(Handling)' /\ ~(Copying)' /\ ~(FrameWaits)' /\ ~(Unparsed)' /\ ~Unparsed
  <2>1. ~Handling
        BY <1>1 DEF IInv, Parts, QueueInv
  <2>2. QED BY <1>1, <1>3, <2>1, Distinct DEF Handling, Copying, FrameWaits, Unparsed
<1>5. QueueInv'
      BY <1>1, <1>2, <1>3, <1>4, Distinct DEF IInv, Parts, QueueInv, Quiet, SendWaits
<1>6. TimeInv'
  <2>1. (MainBehind)'
        BY <1>3, Distinct DEF MainBehind, None
  <2>2. Due' < Disf /\ Due' + 0 < FrameTicks
        BY DueAfter, Constants DEF Timely
  <2>3. phy'.mode = "recving" => phy'.age = 0
        BY <1>1 DEF IInv, Parts, TimeInv
  <2>4. QED BY <1>2, <2>1, <2>2, <2>3 DEF TimeInv
<1>7. SenderInv' /\ ReplyInv' /\ SendsInv'
      BY <1>1, <1>2, <1>4 DEF IInv, Parts, SenderInv, ReplyInv, SendsInv, Handling
<1>8. CopyInv' /\ PingPongInv'
      BY <1>1, <1>4 DEF IInv, Parts, CopyInv, PingPongInv, Copying
<1>9. QED BY <1>5, <1>6, <1>7, <1>8 DEF Parts

\* What a tick does, field by field.
LEMMA TickForms ==
  ASSUME IInv, Tick
  PROVE  /\ UNCHANGED <<rxbuf, pingpong, preceiver, processer, main, whole, sends>>
         /\ phy'.mode = phy.mode /\ phy'.frame = phy.frame /\ phy'.offset = phy.offset
         /\ phy'.monitor = phy.monitor
         /\ phy.mode = "recving" => phy'.age = phy.age + 1
         /\ bus'.fault = bus.fault
         /\ bus.fault => phy.mode = "idle"
         /\ MainBehind => waited < PollPeriod /\ waited' = waited + 1
         /\ ~MainBehind => waited' = waited
         /\ \/ Suspended /\ UNCHANGED <<bus, tx, events>>
            \/ /\ ~Suspended /\ bus'.disf = bus.disf - 1 /\ bus'.state = bus.state
               /\ UNCHANGED <<tx, events>>
            \/ /\ ~Suspended /\ bus.disf <= 1 /\ bus'.state = bus.state
               /\ tx'.state = "idle" /\ tx'.pos = 0 /\ UNCHANGED events
            \/ /\ ~Suspended /\ bus.disf <= 1 /\ tx' = TickedTx
               /\ tx.state = "wait_ack" => ~GivesUp
               /\ \/ bus'.state = bus.state /\ UNCHANGED events
                  \/ bus'.state = "busy" /\ EventPost(TransmitterReady)
<1>1. /\ UNCHANGED <<rxbuf, pingpong, preceiver, processer, main, whole, sends>>
      /\ bus.fault => phy.mode = "idle"
      /\ MainBehind => waited < PollPeriod /\ waited' = waited + 1
      /\ ~MainBehind => waited' = waited
      BY DEF Tick, recvVars
<1>2. /\ phy'.mode = phy.mode /\ phy'.frame = phy.frame /\ phy'.offset = phy.offset
      /\ phy'.monitor = phy.monitor
      /\ phy.mode = "recving" => phy'.age = phy.age + 1
  <2>1. phy \in Phys
        BY DEF IInv, TypeInv
  <2>2. phy' = IF phy.mode = "recving" THEN [phy EXCEPT !.age = phy.age + 1] ELSE phy
        BY DEF Tick
  <2>3. QED BY <2>1, <2>2 DEF Phys
<1>3. bus \in Buses /\ bus.disf \in Nat /\ 0 \in 0 .. Disf
      BY Ranges, Constants DEF IInv, TypeInv
<1>4. CASE TickSuspended
      BY <1>1, <1>2, <1>4 DEF TickSuspended
<1>5. CASE TickSilence
  <2>1. NewDisf = bus.disf - 1 /\ NewDisf \in 0 .. Disf /\ bus' = [bus EXCEPT !.disf = NewDisf]
        BY <1>3, <1>5, Constants, Ranges DEF TickSilence, NewDisf, IInv
  <2>2. bus'.disf = bus.disf - 1 /\ bus'.state = bus.state /\ bus'.fault = bus.fault
        BY <1>3, <2>1 DEF Buses
  <2>3. QED BY <1>1, <1>2, <1>5, <2>2 DEF TickSilence
<1>6. NewDisf = 0 => bus.disf <= 1
      BY <1>3 DEF NewDisf
<1>7. CASE TickGiveUp
  <2>1. bus' = [bus EXCEPT !.disf = 0]
        BY <1>7 DEF TickGiveUp
  <2>2. bus'.state = bus.state /\ bus'.fault = bus.fault
        BY <1>3, <2>1 DEF Buses
  <2>3. QED BY <1>1, <1>2, <1>6, <1>7, <2>2 DEF TickGiveUp, ClearedTransmitter
<1>8. CASE TickBackoff
  <2>1. \A n : /\ [bus EXCEPT !.disf = 0, !.backoff = n].state = bus.state
               /\ [bus EXCEPT !.disf = 0, !.backoff = n].fault = bus.fault
        BY <1>3 DEF Buses
  <2>2. /\ Locked([bus EXCEPT !.disf = 0, !.backoff = 0]).state = "busy"
        /\ Locked([bus EXCEPT !.disf = 0, !.backoff = 0]).fault = bus.fault
        BY <1>3 DEF Buses, Locked
  <2>3. \/ /\ \E n : bus' = [bus EXCEPT !.disf = 0, !.backoff = n]
           /\ UNCHANGED events
        \/ /\ bus' = Locked([bus EXCEPT !.disf = 0, !.backoff = 0])
           /\ EventPost(TransmitterReady)
        BY <1>8 DEF TickBackoff
  <2>4. /\ bus'.fault = bus.fault
        /\ \/ bus'.state = bus.state /\ UNCHANGED events
           \/ bus'.state = "busy" /\ EventPost(TransmitterReady)
        BY <2>1, <2>2, <2>3
  <2>5. /\ ~Suspended /\ bus.disf <= 1 /\ tx' = TickedTx
        /\ tx.state = "wait_ack" => ~GivesUp
        BY <1>6, <1>8 DEF TickBackoff
  <2>6. QED BY <1>1, <1>2, <2>4, <2>5
<1>9. QED BY <1>4, <1>5, <1>7, <1>8 DEF Tick

\* When the silence is over the main loop has caught up, and nobody sends.
LEMMA TickIsFree ==
  ASSUME IInv, Tick, ~Suspended, bus.disf <= 1
  PROVE  /\ events = None /\ main.pc = "idle" /\ ~bus.fault /\ bus.state = "idle"
         /\ tx.state \in {"ready", "wait_ack"} /\ phy.mode # "sending"
<1>1. ~bus.fault /\ bus.state = "idle" /\ tx.state \in {"ready", "wait_ack"}
      BY Ranges DEF IInv, Suspended
<1>2. Due \in Int /\ Due <= 0
  <2>1. Due \in Int /\ bus.disf \in Nat
        BY DueRange, Ranges DEF IInv
  <2>2. Due < bus.disf \/ Due = 0
        BY <1>1 DEF IInv, Parts, TimeInv
  <2>3. QED BY <2>1, <2>2
<1>3. ~MainBehind
  <2>1. /\ MainBehind => waited < PollPeriod /\ Due >= PollPeriod - waited
        /\ waited \in Nat /\ PollPeriod \in Nat
        BY TickForms, DueRange, Ranges, Constants DEF IInv
  <2>2. QED BY <1>2, <2>1
<1>4. QED BY <1>1, <1>3 DEF MainBehind, None, IInv, Parts, SenderInv

LEMMA TickTime ==
  ASSUME IInv, Tick, TypeInv', UNCHANGED events
  PROVE  /\ MainBehind => Due' = Due - 1 /\ Due > 0
         /\ ~MainBehind => Due' = Due /\ Due = 0
<1>1. main' = main /\ waited \in Nat /\ PollPeriod \in Nat /\ Due \in Int
      BY TickForms, Ranges, DueRange, Constants DEF IInv
<1>2. CASE MainBehind
  <2>1. waited < PollPeriod /\ waited' = waited + 1 /\ Due >= PollPeriod - waited
        BY <1>2, TickForms, DueRange DEF IInv
  <2>2. PICK d \in Nat : Due = d - waited /\ Due' = d - waited'
    <3>1. \E d \in Nat : Due = d - waited /\ Due' = d - waited'
      <4>1. 0 \in Nat /\ 2 * PollPeriod \in Nat
            BY <1>1
      <4>2. \/ Due = 0 - waited /\ Due' = 0 - waited'
            \/ Due = PollPeriod - waited /\ Due' = PollPeriod - waited'
            \/ Due = 2 * PollPeriod - waited /\ Due' = 2 * PollPeriod - waited'
            BY <1>1 DEF Due
      <4>3. QED BY <1>1, <4>1, <4>2
    <3>2. QED BY <3>1
  <2>3. QED BY <1>1, <1>2, <2>1, <2>2
<1>3. CASE ~MainBehind
  <2>1. Due = 0 /\ waited' = waited
        BY <1>3, TickForms, DueRange DEF IInv, Parts
  <2>2. QED BY <1>1, <1>3, <2>1, Steady
<1>4. QED BY <1>2, <1>3

LEMMA TickParts ==
  ASSUME Timely, IInv, Tick, TypeInv'
  PROVE  Parts'
<1>1. /\ UNCHANGED <<rxbuf, pingpong, preceiver, processer, main, whole, sends>>
      /\ phy'.mode = phy.mode /\ phy'.frame = phy.frame /\ phy'.offset = phy.offset
      /\ phy'.monitor = phy.monitor /\ bus'.fault = bus.fault
      BY TickForms
<1>2. CASE UNCHANGED <<tx, events>> /\ bus'.state = bus.state
                /\ ((Suspended /\ bus'.disf = bus.disf) \/ (~Suspended /\ bus'.disf = bus.disf - 1))
  <2>1. QueueInv'
        BY <1>1, <1>2, Steady DEF IInv, Parts, QueueInv, Quiet
  <2>2. TimeInv'
    <3>1. ~(MainBehind)' => waited' = 0
          BY <1>1, <1>2, Steady, TickForms DEF IInv, Parts, TimeInv
    <3>2. ~bus'.fault /\ bus'.state = "idle" /\ tx'.state # "busy" => Due' < bus'.disf \/ Due' = 0
      <4>1. /\ MainBehind => Due' = Due - 1 /\ Due > 0
            /\ ~MainBehind => Due' = 0
            BY <1>2, TickTime
      <4>2. ~bus.fault /\ bus.state = "idle" /\ tx.state # "busy" => Due < bus.disf \/ Due = 0
            BY DEF IInv, Parts, TimeInv
      <4>3. Due \in Int /\ bus.disf \in Nat
            BY DueRange, Ranges DEF IInv
      <4>4. MainBehind /\ Due < bus.disf => Due' < bus'.disf
            BY <1>2, <4>1, <4>3
      <4>5. ~MainBehind \/ Due > 0
            BY <4>1
      <4>6. QED BY <1>1, <1>2, <4>1, <4>2, <4>3, <4>4
    <3>3. ASSUME phy'.mode = "recving", events' \notin {None, Ready} \/ (Handling)'
          PROVE  Due' + phy'.age < FrameTicks
      <4>1. phy.mode = "recving" /\ (events \notin {None, Ready} \/ Handling)
            BY <1>1, <1>2, <3>3, Steady
      <4>2. MainBehind
            BY <4>1 DEF MainBehind, None, Handling, Copying
      <4>3. Due + phy.age < FrameTicks /\ Due' = Due - 1 /\ phy'.age = phy.age + 1
            BY <1>2, <4>1, <4>2, TickTime, TickForms DEF IInv, Parts, TimeInv
      <4>4. Due \in Int /\ phy.age \in Nat /\ FrameTicks \in Nat
            BY DueRange, Ranges, Constants DEF IInv
      <4>5. QED BY <4>3, <4>4
    <3>4. ~(phy'.mode = "recving" /\ bus'.fault)
          BY <1>1, TickForms
    <3>5. QED BY <3>1, <3>2, <3>3, <3>4 DEF TimeInv
  <2>3. SenderInv' /\ ReplyInv' /\ SendsInv'
        BY <1>1, <1>2 DEF IInv, Parts, SenderInv, ReplyInv, SendsInv
  <2>4. CopyInv' /\ PingPongInv'
        BY <1>1, <1>2, Steady DEF IInv, Parts, CopyInv, PingPongInv, Waiting
  <2>5. QED BY <2>1, <2>2, <2>3, <2>4 DEF Parts
<1>3. CASE ~Suspended /\ bus.disf <= 1 /\ bus'.state = bus.state
                /\ tx'.state = "idle" /\ tx'.pos = 0 /\ UNCHANGED events
  <2>1. /\ events = None /\ main.pc = "idle" /\ ~bus.fault /\ phy.mode # "sending"
        /\ Due' = 0 /\ ~MainBehind
    <3>1. events = None /\ main.pc = "idle" /\ ~bus.fault /\ phy.mode # "sending"
          BY <1>3, TickIsFree
    <3>2. ~MainBehind
          BY <3>1 DEF MainBehind, None
    <3>3. QED BY <1>3, <3>1, <3>2, TickTime
  <2>2. ~SendWaits /\ ~Handling
        BY <2>1, Distinct DEF SendWaits, Handling, Copying
  <2>3. QueueInv'
        BY <1>1, <1>3, <2>1, <2>2, Steady, Distinct DEF QueueInv, Quiet
  <2>4. TimeInv'
        BY <1>1, <1>3, <2>1, <2>2, Steady, TickForms DEF IInv, Parts, TimeInv
  <2>5. SenderInv' /\ ReplyInv' /\ SendsInv'
        BY <1>1, <1>3, <2>1 DEF IInv, Parts, SenderInv, ReplyInv, SendsInv
  <2>6. CopyInv' /\ PingPongInv'
        BY <1>1, <1>3, Steady DEF IInv, Parts, CopyInv, PingPongInv, Waiting
  <2>7. QED BY <2>3, <2>4, <2>5, <2>6 DEF Parts
<1>4. CASE /\ ~Suspended /\ bus.disf <= 1 /\ tx' = TickedTx
           /\ tx.state = "wait_ack" => ~GivesUp
           /\ \/ bus'.state = bus.state /\ UNCHANGED events
              \/ bus'.state = "busy" /\ EventPost(TransmitterReady)
  <2>1. /\ events = None /\ main.pc = "idle" /\ ~bus.fault /\ phy.mode # "sending"
        /\ tx.state \in {"ready", "wait_ack"} /\ ~MainBehind /\ ~Handling /\ ~Unparsed
    <3>1. /\ events = None /\ main.pc = "idle" /\ ~bus.fault /\ phy.mode # "sending"
          /\ tx.state \in {"ready", "wait_ack"}
          BY <1>4, TickIsFree
    <3>2. ~MainBehind
          BY <3>1 DEF MainBehind, None
    <3>3. ~Handling /\ ~Unparsed
          BY <3>1, Distinct DEF Handling, Copying, Unparsed, FrameWaits
    <3>4. QED BY <3>1, <3>2, <3>3
  <2>2. \/ bus'.state = bus.state /\ events' = None
        \/ bus'.state = "busy" /\ events' = Ready
        BY <1>4, <2>1, Posted
  <2>3. ~(Handling)' /\ ~(Copying)' /\ ~(FrameWaits)' /\ ~(Unparsed)'
        BY <1>1, <2>1, <2>2, Distinct DEF Handling, Copying, FrameWaits, Unparsed
  <2>4. /\ tx'.state = "ready" /\ tx'.pos = tx.pos /\ tx'.max = tx.max
        /\ tx.state = "ready" => tx'.count = tx.count
        /\ tx.state = "wait_ack" => tx'.count = tx.count + 1
    <3>1. tx \in Transmits
          BY DEF IInv, TypeInv
    <3>2. CASE tx.state = "ready"
          BY <1>4, <3>2 DEF TickedTx
    <3>3. CASE tx.state = "wait_ack"
      <4>1. tx' = [tx EXCEPT !.count = tx.count + 1, !.state = "ready"]
            BY <1>4, <3>3 DEF TickedTx
      <4>2. QED BY <3>1, <3>3, <4>1 DEF Transmits
    <3>4. QED BY <2>1, <3>2, <3>3
  <2>5. QueueInv'
        BY <1>1, <2>1, <2>2, <2>3, <2>4, Distinct DEF QueueInv, Quiet, SendWaits
  <2>6. TimeInv'
    <3>1. events' = None => Due' = 0 /\ waited' = 0
      <4>1. events' = None => Due' = 0
            BY <2>1, TickTime
      <4>2. waited' = 0
            BY <2>1, TickForms DEF IInv, Parts, TimeInv
      <4>3. QED BY <4>1, <4>2
    <3>2. events' = Ready => (MainBehind)'
          BY Distinct DEF MainBehind, None
    <3>3. QED BY <1>1, <2>1, <2>2, <2>3, <3>1, <3>2 DEF TimeInv
  <2>7. SenderInv' /\ ReplyInv'
        BY <1>1, <2>1, <2>4 DEF IInv, Parts, SenderInv, ReplyInv
  <2>8. SendsInv'
    <3>1. tx.count \in Nat /\ tx.max \in Nat
          BY Ranges DEF IInv
    <3>2. tx.state = "wait_ack" => tx.count + 1 <= tx.max
          BY <1>4, <3>1 DEF GivesUp
    <3>3. QED BY <1>1, <2>1, <2>4, <3>1, <3>2 DEF IInv, Parts, SendsInv
  <2>9. CopyInv' /\ PingPongInv'
        BY <1>1, <2>1, <2>3 DEF IInv, Parts, CopyInv, PingPongInv, Copying
  <2>10. QED BY <2>5, <2>6, <2>7, <2>8, <2>9 DEF Parts
<1>5. QED BY <1>2, <1>3, <1>4, TickForms

LEMMA PollReceivedParts ==
  ASSUME Timely, IInv, PollReceived, TypeInv'
  PROVE  Parts'
<1>1. /\ UNCHANGED <<bus, tx, phy, rxbuf, pingpong, preceiver, processer, waited, whole, sends>>
      /\ main' = [main EXCEPT !.pc = "copying", !.src = processer,
                              !.first = rxbuf[processer].bits]
      BY DEF PollReceived, recvVars
<1>2. events = Frame /\ events' = None /\ main.pc = "idle"
      BY Polled DEF PollReceived, Poll, IInv, Parts
<1>3. /\ main'.pc = "copying" /\ main'.src = processer /\ main'.first = rxbuf[processer].bits
      /\ main'.ret = main.ret
      BY <1>1 DEF IInv, TypeInv, MainType
<1>4. ~bus.fault /\ (FrameWaits /\ Unparsed) /\ (Copying /\ Handling /\ Unparsed)'
      BY <1>2, <1>3, Distinct DEF IInv, Parts, QueueInv, FrameWaits, Unparsed, Copying, Handling
<1>5. QueueInv'
      BY <1>1, <1>2, <1>3, <1>4, Distinct DEF QueueInv, Quiet, SendWaits
<1>6. TimeInv'
  <2>1. Due' = Due
        BY <1>1, <1>2, <1>3, Distinct DEF Due
  <2>2. (MainBehind)'
        BY <1>3 DEF MainBehind
  <2>3. events \notin {None, Ready}
        BY <1>2, Distinct
  <2>4. QED BY <1>1, <1>4, <2>1, <2>2, <2>3 DEF IInv, Parts, TimeInv
<1>7. SenderInv'
  <2>1. phy.mode = "sending" => tx.state = "busy"
        BY <1>2, Distinct DEF IInv, Parts, SenderInv
  <2>2. QED BY <1>1, <1>2, <1>3, <2>1 DEF IInv, Parts, SenderInv
<1>8. ReplyInv' /\ SendsInv'
      BY <1>1, <1>2, <1>3 DEF IInv, Parts, ReplyInv, SendsInv
<1>9. CopyInv' /\ PingPongInv'
      BY <1>1, <1>3, <1>4 DEF IInv, Parts, CopyInv, PingPongInv, Waiting
<1>10. QED BY <1>5, <1>6, <1>7, <1>8, <1>9 DEF Parts

LEMMA PollCopiedParts ==
  ASSUME Timely, IInv, PollCopied, TypeInv'
  PROVE  Parts'
<1>1. /\ main.pc = "copying"
      /\ UNCHANGED <<bus, tx, phy, rxbuf, pingpong, preceiver, processer, events, waited,
                     whole, sends>>
      /\ main' = [main EXCEPT !.pc = "copied", !.second = rxbuf[main.src].bits,
                              !.len = rxbuf[processer].pos]
      BY DEF PollCopied, recvVars
<1>2. /\ main'.pc = "copied" /\ main'.src = main.src /\ main'.first = main.first
      /\ main'.second = rxbuf[main.src].bits /\ main'.len = rxbuf[processer].pos
      /\ main'.ret = main.ret
      BY <1>1 DEF IInv, TypeInv, MainType
<1>3. Unparsed /\ Copying /\ Handling /\ (Copying /\ Handling /\ Unparsed)'
      BY <1>1, <1>2 DEF Unparsed, Copying, Handling
<1>4. events = None /\ ~bus.fault
      BY <1>3 DEF IInv, Parts, QueueInv
<1>5. QueueInv'
      BY <1>1, <1>4, Distinct DEF QueueInv, Quiet, SendWaits
<1>6. TimeInv'
  <2>1. Due' = Due
        BY <1>1, <1>2 DEF Due
  <2>2. (MainBehind)'
        BY <1>2 DEF MainBehind
  <2>3. QED BY <1>1, <1>3, <1>4, <2>1, <2>2 DEF IInv, Parts, TimeInv
<1>7. SenderInv' /\ ReplyInv' /\ SendsInv'
      BY <1>1, <1>2 DEF IInv, Parts, SenderInv, ReplyInv, SendsInv
<1>8. CopyInv' /\ PingPongInv'
      BY <1>1, <1>2, <1>3 DEF IInv, Parts, CopyInv, PingPongInv, Waiting
<1>9. QED BY <1>5, <1>6, <1>7, <1>8 DEF Parts

LEMMA PollParseParts ==
  ASSUME Timely, IInv, PollParse, TypeInv'
  PROVE  Parts'
<1>1. /\ main.pc = "copied"
      /\ pingpong' = SetReadDone(pingpong)
      /\ main' = [MainIdle EXCEPT !.pc = "parsing"]
      /\ whole' = IF whole = <<>> THEN whole ELSE Tail(whole)
      /\ UNCHANGED <<bus, tx, phy, rxbuf, preceiver, processer, events, waited, sends>>
      BY DEF PollParse
<1>2. main'.pc = "parsing" /\ main'.ret = "idle"
      BY <1>1 DEF MainIdle
<1>3. Unparsed /\ Handling
      BY <1>1 DEF Unparsed, Copying, Handling
<1>4. events = None /\ ~bus.fault
      BY <1>3 DEF IInv, Parts, QueueInv
<1>5. (Handling)' /\ ~(Copying)' /\ ~(Unparsed)'
      BY <1>1, <1>2, <1>4, Distinct DEF Unparsed, Copying, Handling, FrameWaits
<1>6. QueueInv'
      BY <1>1, <1>4, Distinct DEF QueueInv, Quiet, SendWaits
<1>7. TimeInv'
  <2>1. Due' = Due
        BY <1>1, <1>2 DEF Due
  <2>2. (MainBehind)'
        BY <1>2 DEF MainBehind
  <2>3. QED BY <1>1, <1>3, <1>4, <2>1, <2>2 DEF IInv, Parts, TimeInv
<1>8. SenderInv' /\ ReplyInv' /\ SendsInv'
      BY <1>1, <1>2 DEF IInv, Parts, SenderInv, ReplyInv, SendsInv
<1>9. CopyInv'
  <2>1. whole' = <<>>
    <3>1. whole = <<Waiting>>
          BY <1>3 DEF IInv, Parts, CopyInv
    <3>2. Tail(<<Waiting>>) = <<>> /\ <<Waiting>> # <<>>
          OBVIOUS
    <3>3. QED BY <1>1, <3>1, <3>2
  <2>2. main'.pc # "copied"
        BY <1>2
  <2>3. QED BY <1>1, <1>5, <2>1, <2>2 DEF IInv, Parts, CopyInv
<1>10. PingPongInv'
  <2>1. /\ pingpong \in Handlers
        /\ pingpong'.write = pingpong.write /\ pingpong'.read = pingpong.read
        BY <1>1, Ranges, HandlerOps DEF IInv
  <2>2. \A b \in Buffers : ~pingpong'.avail[b]
        BY <1>1, <2>1 DEF SetReadDone, Handlers, IInv, Parts, PingPongInv
  <2>3. QED BY <2>1, <2>2 DEF IInv, Parts, PingPongInv
<1>11. QED BY <1>6, <1>7, <1>8, <1>9, <1>10 DEF Parts

LEMMA PollParsedParts ==
  ASSUME Timely, IInv, PollParsed, TypeInv'
  PROVE  Parts'
<1>1. /\ main.pc = "parsing" /\ main' = MainIdle /\ waited' = 0
      /\ UNCHANGED <<bus, tx, phy, rxbuf, pingpong, preceiver, processer, events, whole, sends>>
      BY DEF PollParsed, recvVars
<1>2. main'.pc = "idle" /\ main'.ret = "idle"
      BY <1>1 DEF MainIdle
<1>3. Handling /\ ~Copying
      BY <1>1 DEF Copying, Handling
<1>4. events = None /\ ~bus.fault
      BY <1>3 DEF IInv, Parts, QueueInv
<1>5. ~(Handling)' /\ ~(Copying)' /\ ~(Unparsed)' /\ ~Unparsed
      BY <1>1, <1>2, <1>3, <1>4, Distinct DEF Unparsed, Copying, Handling, FrameWaits
<1>6. QueueInv'
      BY <1>1, <1>4, <1>5, Distinct DEF QueueInv, Quiet, SendWaits
<1>7. TimeInv'
  <2>1. Due' = 0
        BY <1>1, <1>2, <1>4 DEF Due
  <2>2. QED BY <1>1, <1>4, <1>5, <2>1 DEF TimeInv
<1>8. SenderInv' /\ ReplyInv' /\ SendsInv'
      BY <1>1, <1>2 DEF IInv, Parts, SenderInv, ReplyInv, SendsInv
<1>9. CopyInv' /\ PingPongInv'
      BY <1>1, <1>2, <1>5 DEF IInv, Parts, CopyInv, PingPongInv
<1>10. QED BY <1>6, <1>7, <1>8, <1>9 DEF Parts

LEMMA PollReadyParts ==
  ASSUME Timely, IInv, PollReady, TypeInv'
  PROVE  Parts'
<1>1. UNCHANGED <<phy, rxbuf, pingpong, preceiver, processer, whole, sends>>
      BY DEF PollReady, recvVars
<1>2. /\ main.pc = "idle"
      /\ \/ events = Ready /\ events' = None
         \/ events = ReadyFault /\ events' = Fault
         \/ events = ReadyOutage /\ events' = Outage
         \/ events = ReadyFrame /\ events' = Frame
      BY Polled DEF PollReady, Poll, IInv, Parts
<1>3. tx.state = "ready" /\ phy.mode # "sending"
      BY <1>2 DEF IInv, Parts, QueueInv, SendWaits
<1>4. CASE bus.fault
  <2>1. events = ReadyFault /\ events' = Fault
        BY <1>2, <1>4, Distinct DEF IInv, Parts, QueueInv
  <2>2. waited' = 0 /\ UNCHANGED <<bus, tx, main>>
        BY <1>4 DEF PollReady
  <2>3. /\ ~(Handling)' /\ ~(Copying)' /\ ~(FrameWaits)' /\ ~(Unparsed)' /\ ~Unparsed
        /\ ~(SendWaits)' /\ ~Copying
        BY <1>2, <2>1, <2>2, Distinct DEF Handling, Copying, FrameWaits, Unparsed, SendWaits
  <2>4. QueueInv'
        BY <1>4, <2>1, <2>2, <2>3, Distinct DEF QueueInv, Quiet
  <2>5. TimeInv'
    <3>1. phy.mode = "recving" => phy.age = 0
          BY <1>4 DEF IInv, Parts, TimeInv
    <3>2. Due' + 0 < FrameTicks
          BY DueAfter, Constants DEF Timely
    <3>3. QED BY <1>1, <1>4, <2>2, <3>1, <3>2 DEF TimeInv
  <2>6. SenderInv'
        BY <1>1, <1>2, <1>3, <2>2 DEF IInv, Parts, SenderInv
  <2>7. ReplyInv' /\ SendsInv'
        BY <1>1, <2>2 DEF IInv, Parts, ReplyInv, SendsInv
  <2>8. CopyInv' /\ PingPongInv'
        BY <1>1, <2>2, <2>3, Steady DEF IInv, Parts, CopyInv, PingPongInv, Copying
  <2>9. QED BY <2>4, <2>5, <2>6, <2>7, <2>8 DEF Parts
<1>5. CASE ~bus.fault
  <2>1. /\ \/ events = Ready /\ events' = None
           \/ events = ReadyOutage /\ events' = Outage
           \/ events = ReadyFrame /\ events' = Frame
        BY <1>2, <1>5 DEF IInv, Parts, QueueInv
  <2>2. /\ bus' = [bus EXCEPT !.disf = Disf] /\ tx' = [tx EXCEPT !.state = "busy"]
        /\ main' = [main EXCEPT !.pc = "sending"] /\ UNCHANGED waited
        BY <1>5 DEF PollReady
  <2>3. /\ bus'.fault = bus.fault /\ tx'.state = "busy" /\ tx'.pos = tx.pos
        /\ tx'.count = tx.count /\ tx'.max = tx.max
        /\ main'.pc = "sending" /\ main'.ret = main.ret
        BY <2>2 DEF IInv, TypeInv, Buses, Transmits, MainType
  <2>4. /\ ~(Handling)' /\ ~(Copying)' /\ ~Copying /\ (FrameWaits)' = FrameWaits
        /\ (Unparsed)' = Unparsed /\ ~(SendWaits)'
        BY <1>2, <2>1, <2>3, Distinct DEF Handling, Copying, FrameWaits, Unparsed, SendWaits
  <2>5. QueueInv'
        BY <1>5, <2>1, <2>3, <2>4, Distinct DEF QueueInv, Quiet
  <2>6. TimeInv'
    <3>1. (MainBehind)'
          BY <2>3 DEF MainBehind
    <3>2. ASSUME phy.mode = "recving", events' \notin {None, Ready}
          PROVE  Due' + phy.age < FrameTicks
      <4>1. events \notin {None, Ready}
            BY <2>1, <3>2, Distinct
      <4>2. Due + phy.age < FrameTicks
            BY <3>2, <4>1 DEF IInv, Parts, TimeInv
      <4>3. Due = PollPeriod - waited /\ Due' = PollPeriod - waited
            BY <1>2, <2>1, <2>2, <2>3, Distinct DEF Due
      <4>4. QED BY <4>2, <4>3
    <3>3. QED BY <1>1, <1>5, <2>3, <2>4, <3>1, <3>2 DEF TimeInv
  <2>7. SenderInv'
        BY <1>1, <1>3, <2>3 DEF SenderInv
  <2>8. ReplyInv' /\ SendsInv'
        BY <1>1, <1>2, <1>3, <2>3 DEF IInv, Parts, ReplyInv, SendsInv
  <2>9. CopyInv' /\ PingPongInv'
        BY <1>1, <2>3, <2>4 DEF IInv, Parts, CopyInv, PingPongInv, Waiting
  <2>10. QED BY <2>5, <2>6, <2>7, <2>8, <2>9 DEF Parts
<1>6. QED BY <1>4, <1>5

LEMMA PollStartParts ==
  ASSUME Timely, IInv, PollStart, TypeInv'
  PROVE  Parts'
<1>1. /\ main.pc = "sending" /\ main' = [main EXCEPT !.pc = "started"]
      /\ phy' = StartSending(phy)
      /\ sends' = IF sends < MaxSends THEN sends + 1 ELSE sends
      /\ UNCHANGED <<bus, tx, rxbuf, pingpong, preceiver, processer, events, waited, whole>>
      BY DEF PollStart, recvVars
<1>2. main'.pc = "started" /\ main'.ret = main.ret /\ phy'.mode = "sending"
      BY <1>1, PhyOps DEF IInv, TypeInv, MainType
<1>3. tx.state = "busy" /\ ~SendWaits
      BY <1>1 DEF IInv, Parts, SenderInv, QueueInv
<1>4. /\ ~Copying /\ ~(Copying)' /\ ~(Handling)' /\ (SendWaits)' = SendWaits
      /\ (Unparsed)' = Unparsed
      BY <1>1, <1>2 DEF Copying, Handling, SendWaits, Unparsed, FrameWaits
<1>5. QueueInv'
      BY <1>1, <1>3, <1>4 DEF IInv, Parts, QueueInv, Quiet
<1>6. TimeInv'
  <2>1. (MainBehind)'
        BY <1>2 DEF MainBehind
  <2>2. QED BY <1>1, <1>2, <1>3, <2>1 DEF TimeInv
<1>7. SenderInv' /\ ReplyInv'
      BY <1>1, <1>2, <1>3 DEF IInv, Parts, SenderInv, ReplyInv
<1>8. SendsInv'
  <2>1. /\ tx.count \in Nat /\ tx.max \in Nat /\ MaxSends \in Nat
        BY Ranges, Constants DEF IInv
  <2>2. tx.pos = 1 => /\ tx.state # "idle" /\ tx.count <= tx.max /\ tx.max < MaxSends
                      /\ sends = tx.count
        BY <1>1 DEF IInv, Parts, SendsInv
  <2>3. tx.pos = 1 => sends' = tx.count + 1
        BY <1>1, <2>1, <2>2
  <2>4. QED BY <1>1, <1>2, <1>3, <2>2, <2>3 DEF SendsInv
<1>9. CopyInv' /\ PingPongInv'
      BY <1>1, <1>2, <1>4 DEF IInv, Parts, CopyInv, PingPongInv, Waiting
<1>10. QED BY <1>5, <1>6, <1>7, <1>8, <1>9 DEF Parts

LEMMA PollSentParts ==
  ASSUME Timely, IInv, PollSent, TypeInv'
  PROVE  Parts'
<1>1. /\ main.pc = "started" /\ main' = MainIdle /\ waited' = 0
      /\ phy' = [phy EXCEPT !.monitor = FALSE]
      /\ UNCHANGED <<bus, tx, rxbuf, pingpong, preceiver, processer, events, whole, sends>>
      BY DEF PollSent, recvVars
<1>2. main'.pc = "idle" /\ main'.ret = "idle" /\ phy'.mode = phy.mode /\ ~phy'.monitor
      BY <1>1, PhyOps DEF IInv, TypeInv, MainIdle
<1>3. tx.state = "busy" /\ ~SendWaits /\ phy.mode = "sending"
      BY <1>1 DEF IInv, Parts, SenderInv, QueueInv
<1>4. /\ ~Copying /\ ~(Copying)' /\ ~(Handling)' /\ (SendWaits)' = SendWaits
      /\ (Unparsed)' = Unparsed
      BY <1>1, <1>2 DEF Copying, Handling, SendWaits, Unparsed, FrameWaits
<1>5. QueueInv'
      BY <1>1, <1>3, <1>4 DEF IInv, Parts, QueueInv, Quiet
<1>6. TimeInv'
      BY <1>1, <1>2, <1>3 DEF TimeInv
<1>7. SenderInv' /\ ReplyInv' /\ SendsInv'
      BY <1>1, <1>2, <1>3 DEF IInv, Parts, SenderInv, ReplyInv, SendsInv
<1>8. CopyInv' /\ PingPongInv'
      BY <1>1, <1>2, <1>3, <1>4 DEF IInv, Parts, CopyInv, PingPongInv, Waiting
<1>9. QED BY <1>5, <1>6, <1>7, <1>8 DEF Parts

LEMMA PollFaultParts ==
  ASSUME Timely, IInv, PollFault, TypeInv'
  PROVE  Parts'
<1>1. /\ main.pc = "idle" /\ waited' = 0
      /\ UNCHANGED <<bus, tx, phy, rxbuf, pingpong, preceiver, processer, main, whole, sends>>
      BY DEF PollFault, Poll, recvVars
<1>2. \/ events = Fault /\ events' = None
      \/ events = Recovery /\ events' = None
      \/ events = Outage /\ events' = Recovery
      BY Polled DEF PollFault, IInv, Parts
<1>3. /\ ~Unparsed /\ ~(Unparsed)' /\ ~(SendWaits)' /\ ~(Handling)' /\ ~(Copying)'
      BY <1>1, <1>2, Distinct DEF Unparsed, FrameWaits, SendWaits, Handling, Copying
<1>4. bus.fault => events' = None
      BY <1>2, Distinct DEF IInv, Parts, QueueInv
<1>5. QueueInv'
      BY <1>1, <1>2, <1>3, <1>4, Distinct DEF QueueInv, Quiet
<1>6. TimeInv'
  <2>1. PollPeriod \in Nat /\ waited \in Nat /\ waited <= PollPeriod /\ bus.disf \in Nat
        /\ phy.age \in Nat /\ FrameTicks \in Nat
        BY Ranges, Constants DEF IInv
  <2>2. events' = None => Due' = 0
        BY <1>1 DEF Due
  <2>3. events' = Recovery => /\ Due' = PollPeriod /\ Due = 2 * PollPeriod - waited
                              /\ events = Outage
        BY <1>1, <1>2, <2>1, Distinct DEF Due
  <2>4. events' = Recovery => Due' <= Due
        BY <2>1, <2>3
  <2>5. ~bus.fault /\ bus.state = "idle" /\ tx.state # "busy" => Due' < bus.disf \/ Due' = 0
    <3>1. ~bus.fault /\ bus.state = "idle" /\ tx.state # "busy" => Due < bus.disf \/ Due = 0
          BY DEF IInv, Parts, TimeInv
    <3>2. QED BY <1>2, <2>1, <2>2, <2>3, <2>4, <3>1
  <2>6. phy.mode = "recving" /\ events' \notin {None, Ready} => Due' + phy.age < FrameTicks
    <3>1. phy.mode = "recving" /\ events = Outage => Due + phy.age < FrameTicks
          BY Distinct DEF IInv, Parts, TimeInv
    <3>2. QED BY <1>2, <2>1, <2>3, <2>4, <3>1
  <2>7. QED BY <1>1, <1>3, <2>5, <2>6 DEF IInv, Parts, TimeInv
<1>7. SenderInv' /\ ReplyInv' /\ SendsInv'
      BY <1>1, <1>2, Distinct DEF IInv, Parts, SenderInv, ReplyInv, SendsInv
<1>8. CopyInv' /\ PingPongInv'
      BY <1>1, <1>3 DEF IInv, Parts, CopyInv, PingPongInv, Copying
<1>9. QED BY <1>5, <1>6, <1>7, <1>8 DEF Parts

LEMMA SetTransmitterParts ==
  ASSUME Timely, IInv, SetTransmitter, TypeInv'
  PROVE  Parts'
<1>1. /\ main.pc = "parsing" /\ main.ret = "idle" /\ tx.state \notin {"busy", "ready"}
      /\ events = None /\ ~bus.fault
      /\ main' = [main EXCEPT !.pc = "direct", !.ret = main.pc, !.old = tx.state]
      /\ UNCHANGED <<bus, tx, phy, rxbuf, pingpong, preceiver, processer, events, waited,
                     whole, sends>>
      BY DEF SetTransmitter, Timely, recvVars, None
<1>2. main'.pc = "direct" /\ main'.ret = "parsing" /\ main'.old = tx.state
      BY <1>1 DEF IInv, TypeInv, MainType
<1>3. phy.mode # "sending"
      BY <1>1 DEF IInv, Parts, SenderInv
<1>4. /\ ~Copying /\ ~(Copying)' /\ Handling /\ (Handling)' /\ ~(SendWaits)'
      /\ (Unparsed)' = Unparsed
      BY <1>1, <1>2, Distinct DEF Copying, Handling, SendWaits, Unparsed, FrameWaits
<1>5. QueueInv'
      BY <1>1, <1>4, Distinct DEF QueueInv, Quiet
<1>6. TimeInv'
  <2>1. (MainBehind)'
        BY <1>2 DEF MainBehind
  <2>2. Due' = Due
        BY <1>1, <1>2 DEF Due
  <2>3. QED BY <1>1, <1>4, <2>1, <2>2 DEF IInv, Parts, TimeInv
<1>7. SenderInv' /\ ReplyInv' /\ SendsInv'
      BY <1>1, <1>2, <1>3 DEF IInv, Parts, SenderInv, ReplyInv, SendsInv
<1>8. CopyInv' /\ PingPongInv'
      BY <1>1, <1>2, <1>4 DEF IInv, Parts, CopyInv, PingPongInv, Waiting
<1>9. QED BY <1>5, <1>6, <1>7, <1>8 DEF Parts

LEMMA DirectSendParts ==
  ASSUME Timely, IInv, DirectSend, TypeInv'
  PROVE  Parts'
<1>1. /\ main.pc = "direct" /\ bus' = Locked(bus) /\ tx' = [tx EXCEPT !.state = "busy"]
      /\ phy' = StartSending(phy) /\ main' = [main EXCEPT !.pc = "replying"]
      /\ UNCHANGED <<rxbuf, pingpong, preceiver, processer, events, waited, whole, sends>>
      BY DEF DirectSend, recvVars
<1>2. /\ main'.pc = "replying" /\ main'.ret = main.ret /\ main'.old = main.old
      /\ phy'.mode = "sending"
      /\ bus'.state = "busy" /\ bus'.fault = bus.fault
      /\ tx'.state = "busy" /\ tx'.pos = tx.pos /\ tx'.count = tx.count /\ tx'.max = tx.max
  <2>1. bus \in Buses /\ tx \in Transmits /\ phy \in Phys /\ MainType
        BY DEF IInv, TypeInv
  <2>2. main'.pc = "replying" /\ main'.ret = main.ret /\ main'.old = main.old
        BY <1>1, <2>1 DEF MainType
  <2>3. phy'.mode = "sending" /\ bus'.state = "busy" /\ bus'.fault = bus.fault
        BY <1>1, <2>1, PhyOps, BusOps DEF IInv, TypeInv
  <2>4. tx'.state = "busy" /\ tx'.pos = tx.pos /\ tx'.count = tx.count /\ tx'.max = tx.max
        BY <1>1, <2>1 DEF Transmits
  <2>5. QED BY <2>2, <2>3, <2>4
<1>3. tx.state = main.old /\ main.old \in {"idle", "wait_ack"} /\ main.ret = "parsing"
      BY <1>1 DEF IInv, TypeInv, MainType, Parts, ReplyInv
<1>4. /\ ~Copying /\ ~(Copying)' /\ Handling /\ (SendWaits)' = SendWaits
      /\ (Unparsed)' = Unparsed
      BY <1>1, <1>2 DEF Copying, Handling, SendWaits, Unparsed, FrameWaits
<1>5. events = None /\ ~bus.fault /\ ~SendWaits
      BY <1>1, <1>4 DEF IInv, Parts, QueueInv
<1>6. QueueInv'
      BY <1>1, <1>2, <1>4, <1>5, Distinct DEF QueueInv, Quiet
<1>7. TimeInv'
  <2>1. (MainBehind)'
        BY <1>2 DEF MainBehind
  <2>2. QED BY <1>2, <2>1 DEF TimeInv
<1>8. SenderInv' /\ ReplyInv' /\ SendsInv'
      BY <1>1, <1>2, <1>3 DEF IInv, Parts, SenderInv, ReplyInv, SendsInv
<1>9. CopyInv' /\ PingPongInv'
      BY <1>1, <1>2, <1>4 DEF IInv, Parts, CopyInv, PingPongInv, Waiting
<1>10. QED BY <1>6, <1>7, <1>8, <1>9 DEF Parts

LEMMA DirectSentParts ==
  ASSUME Timely, IInv, DirectSent, TypeInv'
  PROVE  Parts'
<1>1. /\ main.pc = "replying" /\ bus' = [bus EXCEPT !.disf = Disf]
      /\ tx' = [tx EXCEPT !.state = main.old] /\ phy' = [phy EXCEPT !.monitor = FALSE]
      /\ main' = [MainIdle EXCEPT !.pc = main.ret, !.ret = main.ret]
      /\ UNCHANGED <<rxbuf, pingpong, preceiver, processer, events, waited, whole, sends>>
      BY DEF DirectSent, recvVars
<1>2. /\ main.ret = "parsing" /\ main.old \in {"idle", "wait_ack"} /\ bus.state = "busy"
      /\ tx.pos = 1 => main.old = "wait_ack"
      /\ phy.mode = "sending" /\ tx.state = "busy"
      BY <1>1 DEF IInv, TypeInv, MainType, Parts, ReplyInv, SenderInv
<1>3. /\ main'.pc = "parsing" /\ main'.ret = "parsing"
      /\ phy'.mode = "sending" /\ ~phy'.monitor
      /\ bus'.state = "busy" /\ bus'.fault = bus.fault
  <2>1. main'.pc = "parsing" /\ main'.ret = "parsing"
        BY <1>1, <1>2 DEF MainIdle
  <2>2. phy'.mode = "sending" /\ ~phy'.monitor
        BY <1>1, <1>2, PhyOps DEF IInv, TypeInv
  <2>3. bus'.state = "busy" /\ bus'.fault = bus.fault
        BY <1>1, <1>2 DEF IInv, TypeInv, Buses
  <2>4. QED BY <2>1, <2>2, <2>3
<1>4. tx'.state = main.old /\ tx'.pos = tx.pos /\ tx'.count = tx.count /\ tx'.max = tx.max
  <2>1. tx \in Transmits
        BY DEF IInv, TypeInv
  <2>2. QED BY <1>1, <2>1 DEF Transmits
<1>5. /\ ~Copying /\ ~(Copying)' /\ Handling /\ (SendWaits)' = SendWaits
      /\ (Unparsed)' = Unparsed
      BY <1>1, <1>3 DEF Copying, Handling, SendWaits, Unparsed, FrameWaits
<1>6. events = None /\ ~bus.fault /\ ~SendWaits
      BY <1>1, <1>5 DEF IInv, Parts, QueueInv
<1>7. QueueInv'
      BY <1>1, <1>3, <1>5, <1>6, Distinct DEF QueueInv, Quiet
<1>8. TimeInv'
  <2>1. (MainBehind)'
        BY <1>3 DEF MainBehind
  <2>2. QED BY <1>3, <2>1 DEF TimeInv
<1>9. SenderInv' /\ ReplyInv'
      BY <1>1, <1>2, <1>3, <1>4, <1>6 DEF SenderInv, ReplyInv
<1>10. SendsInv'
      BY <1>1, <1>2, <1>3, <1>4 DEF IInv, Parts, SendsInv
<1>11. CopyInv' /\ PingPongInv'
      BY <1>1, <1>3, <1>5 DEF IInv, Parts, CopyInv, PingPongInv, Waiting
<1>12. QED BY <1>7, <1>8, <1>9, <1>10, <1>11 DEF Parts

LEMMA CacheParts ==
  ASSUME Timely, IInv, NEW r \in Retrans, SetTransmitterCache(r), TypeInv'
  PROVE  Parts'
<1>1. /\ main.pc \in {"idle", "parsing"} /\ phy.mode # "sending" /\ tx.state = "idle"
      /\ tx' = [state |-> "ready", pos |-> 1, count |-> 0, max |-> r] /\ sends' = 0
      /\ UNCHANGED <<bus, phy, rxbuf, pingpong, preceiver, processer, events, main, waited,
                     whole>>
      BY DEF SetTransmitterCache, AppTurn, Timely, recvVars
<1>2. tx'.state = "ready" /\ tx'.pos = 1 /\ tx'.count = 0 /\ tx'.max = r
      BY <1>1
<1>3. QueueInv'
      BY <1>1, <1>2, Steady DEF IInv, Parts, QueueInv, Quiet
<1>4. TimeInv'
      BY <1>1, <1>2, Steady DEF IInv, Parts, TimeInv
<1>5. SenderInv' /\ ReplyInv'
      BY <1>1, <1>2 DEF IInv, Parts, SenderInv, ReplyInv
<1>6. SendsInv'
  <2>1. r \in Nat /\ r < MaxSends
        BY Constants DEF Timely
  <2>2. QED BY <1>1, <1>2, <2>1 DEF SendsInv
<1>7. CopyInv' /\ PingPongInv'
      BY <1>1, Steady DEF IInv, Parts, CopyInv, PingPongInv, Waiting
<1>8. QED BY <1>3, <1>4, <1>5, <1>6, <1>7 DEF Parts

LEMMA ClearParts ==
  ASSUME Timely, IInv, ClearTransmitter, TypeInv'
  PROVE  Parts'
<1>1. /\ main.pc \in {"idle", "parsing"} /\ phy.mode # "sending" /\ events = None
      /\ tx' = ClearedTransmitter
      /\ UNCHANGED <<bus, phy, rxbuf, pingpong, preceiver, processer, events, main, waited,
                     whole, sends>>
      BY DEF ClearTransmitter, AppTurn, Timely, recvVars, None
<1>2. tx'.state = "idle" /\ tx'.pos = 0 /\ tx.state # "busy" /\ ~SendWaits
      BY <1>1, Distinct DEF ClearedTransmitter, IInv, Parts, SenderInv, SendWaits
<1>3. QueueInv'
      BY <1>1, <1>2, Steady DEF IInv, Parts, QueueInv, Quiet
<1>4. TimeInv'
      BY <1>1, <1>2, Steady DEF IInv, Parts, TimeInv
<1>5. SenderInv' /\ ReplyInv' /\ SendsInv'
      BY <1>1, <1>2 DEF IInv, Parts, SenderInv, ReplyInv, SendsInv
<1>6. CopyInv' /\ PingPongInv'
      BY <1>1, Steady DEF IInv, Parts, CopyInv, PingPongInv, Waiting
<1>7. QED BY <1>3, <1>4, <1>5, <1>6 DEF Parts

-----------------------------------------------------------------------------
\* A new reception begins in the buffer as it is; only a packet that ends
\* well brings a clean one.
LEMMA BitsStep == Timely /\ IInv /\ [Next]_vars => BitsInv'
<1>1. SUFFICES ASSUME Timely, IInv, [Next]_vars PROVE BitsInv'
      OBVIOUS
<1>2. /\ phy \in Phys /\ rxbuf \in Receives /\ preceiver \in Buffers
      /\ phy.mode = "recving" => phy.frame # 0 /\ ~phy.monitor
      /\ rxbuf[preceiver].bits \subseteq CutOff(phy)
      BY <1>1, Ranges DEF IInv, TypeInv, BufferType, BitsInv
<1>3. ASSUME StartBitDetected PROVE BitsInv'
  <2>1. /\ phy.monitor /\ phy' = StartRecving(phy, frames')
        /\ UNCHANGED <<rxbuf, preceiver>>
        BY <1>3 DEF StartBitDetected
  <2>2. CutOff(phy) = phy.cut /\ phy'.mode = "recving" /\ ~phy'.monitor /\ phy'.cut = phy.cut
        BY <1>2, <2>1 DEF CutOff, StartRecving, Phys
  <2>3. QED BY <1>2, <2>1, <2>2 DEF BitsInv, CutOff
<1>4. ASSUME TimerByte PROVE BitsInv'
  <2>1. /\ phy.mode = "recving" /\ phy' = [phy EXCEPT !.offset = @ + 1]
        /\ preceiver' = preceiver
        /\ \/ rxbuf' = rxbuf
           \/ rxbuf' = [rxbuf EXCEPT ![preceiver].bits = rxbuf[preceiver].bits \cup {phy.frame}]
        BY <1>4 DEF TimerByte
  <2>2. /\ CutOff(phy') = CutOff(phy) /\ phy.frame \in CutOff(phy)
        /\ phy'.mode = phy.mode /\ phy'.monitor = phy.monitor
        BY <1>2, <2>1 DEF CutOff, Phys
  <2>3. rxbuf'[preceiver].bits \subseteq rxbuf[preceiver].bits \cup {phy.frame}
        BY <1>2, <2>1 DEF Receives
  <2>4. QED BY <1>2, <2>1, <2>2, <2>3 DEF BitsInv
<1>5. ASSUME TimerRecvOk PROVE BitsInv'
  <2>1. /\ preceiver' = HandOver(pingpong).write
        /\ rxbuf' = [rxbuf EXCEPT ![HandOver(pingpong).read].pos = Length(phy),
                                  ![HandOver(pingpong).write].bits = {}]
        /\ phy' = [Listening(phy) EXCEPT !.cut = {}]
        BY <1>5 DEF TimerRecvOk
  <2>2. HandOver(pingpong).write \in Buffers /\ HandOver(pingpong).read \in Buffers
        BY <1>1, HandlerOps DEF IInv, TypeInv, BufferType
  <2>3. rxbuf'[preceiver'].bits = {}
        BY <1>2, <2>1, <2>2 DEF Receives
  <2>4. phy'.mode = "idle"
        BY <1>2, <2>1, PhyOps
  <2>5. QED BY <2>3, <2>4 DEF BitsInv
<1>6. ASSUME TimerRecvFault PROVE BitsInv'
  <2>1. phy' = [Listening(phy) EXCEPT !.cut = CutOff(phy)] /\ UNCHANGED <<rxbuf, preceiver>>
        BY <1>6 DEF TimerRecvFault, recvVars
  <2>2. phy'.mode = "idle" /\ phy'.cut = CutOff(phy)
        BY <1>2, <2>1, PhyOps
  <2>3. QED BY <1>2, <2>1, <2>2 DEF BitsInv, CutOff
<1>7. ASSUME NEW ok \in BOOLEAN, TimerSent(ok) PROVE BitsInv'
  <2>1. phy.mode = "sending" /\ phy' = SendingOver(phy, ok) /\ UNCHANGED <<rxbuf, preceiver>>
        BY <1>7 DEF TimerSent, recvVars
  <2>2. phy'.mode = "idle" /\ phy'.cut = phy.cut /\ CutOff(phy) = phy.cut
        BY <1>2, <2>1, PhyOps DEF CutOff
  <2>3. QED BY <1>2, <2>1, <2>2 DEF BitsInv, CutOff
<1>8. ASSUME PollStart \/ DirectSend PROVE BitsInv'
  <2>1. phy' = StartSending(phy) /\ UNCHANGED <<rxbuf, preceiver>>
        BY <1>8 DEF PollStart, DirectSend, recvVars
  <2>2. phy'.mode = "sending" /\ phy'.cut = CutOff(phy)
        BY <1>2, <2>1, PhyOps
  <2>3. QED BY <1>2, <2>1, <2>2 DEF BitsInv, CutOff
<1>9. ASSUME PollSent \/ DirectSent PROVE BitsInv'
  <2>1. phy' = [phy EXCEPT !.monitor = FALSE] /\ UNCHANGED <<rxbuf, preceiver>>
        BY <1>9 DEF PollSent, DirectSent, recvVars
  <2>2. /\ phy'.mode = phy.mode /\ phy'.cut = phy.cut /\ phy'.frame = phy.frame
        /\ ~phy'.monitor
        BY <1>2, <2>1, PhyOps
  <2>3. QED BY <1>2, <2>1, <2>2 DEF BitsInv, CutOff
<1>10. ASSUME UNCHANGED <<rxbuf, preceiver>>,
              phy' = phy \/ phy' = [phy EXCEPT !.age = phy.age + 1]
       PROVE  BitsInv'
  <2>1. /\ phy'.mode = phy.mode /\ phy'.monitor = phy.monitor
        /\ CutOff(phy') = CutOff(phy)
        BY <1>2, <1>10 DEF CutOff, Phys
  <2>2. QED BY <1>2, <1>10, <2>1 DEF BitsInv
<1>11. CASE TimerExpired
  <2>1. TimerBusFault \/ TimerBusRecover => UNCHANGED <<phy, rxbuf, preceiver>>
        BY DEF TimerBusFault, TimerBusRecover, recvVars
  <2>2. QED BY <1>4, <1>5, <1>6, <1>7, <1>10, <1>11, <2>1 DEF TimerExpired
<1>12. CASE Tick
  <2>1. /\ UNCHANGED <<rxbuf, preceiver>>
        /\ phy' = phy \/ phy' = [phy EXCEPT !.age = phy.age + 1]
        BY <1>12 DEF Tick, recvVars
  <2>2. QED BY <1>10, <2>1
<1>13. CASE Polling
  <2>1. ASSUME ~PollStart, ~PollSent PROVE UNCHANGED <<phy, rxbuf, preceiver>>
        BY <1>13, <2>1 DEF Polling, PollReceived, PollCopied, PollParse, PollParsed,
                          PollReady, PollFault, recvVars
  <2>2. QED BY <1>8, <1>9, <1>10, <2>1
<1>14. CASE Application
  <2>1. ASSUME ~DirectSend, ~DirectSent PROVE UNCHANGED <<phy, rxbuf, preceiver>>
        BY <1>14, <2>1 DEF Application, SetTransmitter, SetTransmitterCache,
                          ClearTransmitter, recvVars
  <2>2. QED BY <1>8, <1>9, <1>10, <2>1
<1>15. CASE UNCHANGED vars
       BY <1>10, <1>15 DEF vars
<1>16. QED BY <1>1, <1>3, <1>11, <1>12, <1>13, <1>14, <1>15 DEF Next

LEMMA InvStep == Timely /\ IInv /\ [Next]_vars => IInv'
<1>1. SUFFICES ASSUME Timely, IInv, [Next]_vars PROVE Parts'
      BY TypeStep, BitsStep DEF IInv
<1>2. TypeInv'
      BY <1>1, TypeStep DEF IInv
<1>3. CASE StartBitDetected
      BY <1>1, <1>3, StartBitParts
<1>4. CASE TimerExpired
  <2>1. (\E ok \in BOOLEAN : TimerSent(ok)) => Parts'
        BY <1>1, <1>2, SentParts
  <2>2. QED BY <1>1, <1>2, <1>4, <2>1, TimerByteParts, RecvOkParts, RecvFaultParts,
               BusFaultParts, BusRecoverParts DEF TimerExpired
<1>5. CASE Tick
      BY <1>1, <1>2, <1>5, TickParts
<1>6. CASE Polling
      BY <1>1, <1>2, <1>6, PollReceivedParts, PollCopiedParts, PollParseParts,
         PollParsedParts, PollReadyParts, PollStartParts, PollSentParts, PollFaultParts
      DEF Polling
<1>7. CASE Application
  <2>1. (\E r \in Retrans : SetTransmitterCache(r)) => Parts'
        BY <1>1, <1>2, CacheParts
  <2>2. QED BY <1>1, <1>2, <1>7, <2>1, SetTransmitterParts, DirectSendParts,
               DirectSentParts, ClearParts DEF Application
<1>8. CASE UNCHANGED vars
      BY <1>1, <1>8, Steady DEF vars, IInv, Parts, QueueInv, Quiet, TimeInv, SenderInv,
         ReplyInv, SendsInv, CopyInv, PingPongInv, Waiting
<1>9. QED BY <1>1, <1>3, <1>4, <1>5, <1>6, <1>7, <1>8 DEF Next

LEMMA AlwaysInv == Timely => (Spec => []IInv)
<1>1. SUFFICES ASSUME Timely PROVE Spec => []IInv
      OBVIOUS
<1>2. Init => IInv
      BY <1>1, PartsInit
<1>3. IInv /\ [Next]_vars => IInv'
      BY <1>1, InvStep
<1>4. QED BY <1>2, <1>3, PTL DEF Spec

\* Whatever is parsed has all the bits and the length of the one frame that
\* was received whole and waits, and no bits but those and what was left of
\* frames that broke off since the buffer was cleared: the next reception never
\* reaches the buffer that is copied, because the main loop is done with it
\* before that frame ends.
THEOREM EachFrameIsParsedOnce == Timely => (Spec => ParsedOnceInOrder)
<1>1. SUFFICES ASSUME Timely PROVE Spec => ParsedOnceInOrder
      OBVIOUS
<1> DEFINE Whole == /\ whole # <<>>
                    /\ Head(whole).frame \in main.first /\ main.first = main.second
                    /\ main.first \subseteq {Head(whole).frame} \cup Head(whole).cut
                    /\ main.len = Head(whole).len
<1>2. IInv /\ PollParse => Whole
  <2>1. SUFFICES ASSUME IInv, PollParse
                 PROVE  Whole
        OBVIOUS
  <2>2. main.pc = "copied" /\ Copying /\ Unparsed
        BY <2>1 DEF PollParse, Copying, Unparsed
  <2>3. whole = <<Waiting>>
        BY <2>1, <2>2 DEF IInv, Parts, CopyInv
  <2>4. <<Waiting>> # <<>>
        OBVIOUS
  <2>5. QED BY <2>1, <2>2, <2>3, <2>4 DEF IInv, Parts, CopyInv, Waiting
<1>3. IInv => [PollParse => Whole]_vars
      BY <1>2
<1>4. Spec => []IInv
      BY <1>1, AlwaysInv
<1>5. QED BY <1>3, <1>4, PTL DEF ParsedOnceInOrder

\* The tick drops a cached message only when it was sent once more than the
\* retransmissions the application asked for, whatever came in between.
THEOREM NoMessageIsDropped == Timely => (Spec => NoSilentDrop)
<1>1. SUFFICES ASSUME Timely PROVE Spec => NoSilentDrop
      OBVIOUS
<1>2. IInv /\ TickGiveUp /\ tx.pos = 1 => sends = tx.max + 1
  <2>1. SUFFICES ASSUME IInv, TickGiveUp, tx.pos = 1 PROVE sends = tx.max + 1
        OBVIOUS
  <2>2. tx.count \in Nat /\ tx.max \in Nat
        BY <2>1, Ranges DEF IInv
  <2>3. tx.state = "wait_ack" /\ (tx.max = 0 \/ tx.count + 1 > tx.max)
        BY <2>1 DEF TickGiveUp, GivesUp
  <2>4. main.pc # "sending"
        BY <2>1, <2>3 DEF IInv, Parts, SenderInv
  <2>5. tx.count <= tx.max /\ sends = tx.count + 1
        BY <2>1, <2>3, <2>4 DEF IInv, Parts, SendsInv
  <2>6. QED BY <2>2, <2>3, <2>5
<1>3. IInv => [TickGiveUp /\ tx.pos = 1 => sends = tx.max + 1]_vars
      BY <1>2
<1>4. Spec => []IInv
      BY <1>1, AlwaysInv
<1>5. QED BY <1>3, <1>4, PTL DEF NoSilentDrop
=============================================================================
