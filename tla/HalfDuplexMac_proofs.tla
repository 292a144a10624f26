------------------------ MODULE HalfDuplexMac_proofs ------------------------
(***************************************************************************)
(* Machine-checked facts about HalfDuplexMac, for every silence, timeout,  *)
(* backoff, capacity, queue depth and caller.                              *)
(***************************************************************************)
EXTENDS HalfDuplexMac, Integers, TLAPS

-----------------------------------------------------------------------------
(* The two buffers.                                                        *)

\* What FillsOtherBuffer rests on: the handler's write and read buffers
\* differ from the first frame on, the interrupt fills the one and poll
\* reads the other.
BufferInv == /\ pingpong \in Handlers
             /\ preceiver = pingpong.write
             /\ pingpong.write # pingpong.read
             /\ processer \in {pingpong.read, NoBuffer}

\* pingpong_buffer_get_write_buf never hands out the read buffer.
LEMMA WriteAvoidsRead ==
  ASSUME NEW pp \in Handlers
  PROVE  /\ GetWriteBuf(pp) \in Handlers
         /\ GetWriteBuf(pp).write # GetWriteBuf(pp).read
         /\ GetWriteBuf(pp).read = pp.read
BY DEF GetWriteBuf, Handlers, Buffers

\* The bookkeeping operations keep the handler a handler, and releasing a
\* buffer does not move the buffers.
LEMMA HandlerOps ==
  ASSUME NEW pp \in Handlers
  PROVE  /\ GetReadBuf(pp) \in Handlers
         /\ SetWriteDone(pp) \in Handlers
         /\ SetReadDone(pp) \in Handlers
         /\ SetReadDone(pp).write = pp.write
         /\ SetReadDone(pp).read = pp.read
<1>1. GetReadBuf(pp) \in Handlers
      BY DEF GetReadBuf, Handlers, Buffers
<1>2. SetWriteDone(pp) \in Handlers
  <2>1. [pp.avail EXCEPT ![pp.write] = TRUE] \in [Buffers -> BOOLEAN]
        BY DEF Handlers
  <2>2. 1 - pp.write \in Buffers
        BY DEF Handlers, Buffers
  <2>3. QED BY <2>1, <2>2 DEF SetWriteDone, Handlers
<1>3. /\ SetReadDone(pp) \in Handlers
      /\ SetReadDone(pp).write = pp.write
      /\ SetReadDone(pp).read = pp.read
  <2>1. [pp.avail EXCEPT ![pp.read] = FALSE] \in [Buffers -> BOOLEAN]
        BY DEF Handlers
  <2>2. QED BY <2>1 DEF SetReadDone, Handlers
<1>4. QED BY <1>1, <1>2, <1>3

LEMMA HandOverType ==
  ASSUME NEW pp \in Handlers
  PROVE  HandOver(pp) \in Handlers /\ HandOver(pp).read \in Buffers
<1>1. HandOver(pp) \in Handlers
      BY HandlerOps, WriteAvoidsRead DEF HandOver
<1>2. QED BY <1>1 DEF Handlers

LEMMA NewHandlerType == NewHandler \in Handlers
BY DEF NewHandler, Handlers, Buffers

LEMMA BufferInit == Init => BufferInv
<1>1. SUFFICES ASSUME Init PROVE BufferInv
      OBVIOUS
<1>2. /\ pingpong = GetWriteBuf(NewHandler)
      /\ preceiver = pingpong.write /\ processer = NoBuffer
      BY <1>1 DEF Init
<1>3. QED BY <1>2, NewHandlerType, WriteAvoidsRead DEF BufferInv

\* A completed frame: the buffers change roles.
LEMMA TimerBuffers == BufferInv /\ TimerExpired => BufferInv'
<1>1. SUFFICES ASSUME BufferInv, TimerExpired PROVE BufferInv'
      OBVIOUS
<1> DEFINE handed == GetReadBuf(SetWriteDone(pingpong))
           taken  == GetWriteBuf(handed)
<1>2. handed \in Handlers
      BY <1>1, HandlerOps DEF BufferInv
<1>3. /\ taken \in Handlers /\ taken.write # taken.read
      /\ taken.read = handed.read
      BY <1>2, WriteAvoidsRead
<1>4. /\ processer' = taken.read /\ preceiver' = taken.write
      /\ pingpong' = taken \/ pingpong' = SetReadDone(taken)
      BY <1>1 DEF TimerExpired, HandOver
<1>5. /\ SetReadDone(taken) \in Handlers
      /\ SetReadDone(taken).write = taken.write
      /\ SetReadDone(taken).read = taken.read
      BY <1>3, HandlerOps
<1> HIDE DEF handed, taken
<1>6. QED BY <1>3, <1>4, <1>5 DEF BufferInv

LEMMA BufferStep == BufferInv /\ [Next]_vars => BufferInv'
<1>1. SUFFICES ASSUME BufferInv, [Next]_vars PROVE BufferInv'
      OBVIOUS
<1>2. CASE TimerExpired
      BY <1>1, <1>2, TimerBuffers
<1>3. CASE PollParse
  <2>1. /\ pingpong' = SetReadDone(pingpong)
        /\ UNCHANGED <<preceiver, processer>>
        BY <1>3 DEF PollParse
  <2>2. QED BY <1>1, <2>1, HandlerOps DEF BufferInv
<1>4. CASE UNCHANGED <<pingpong, preceiver, processer>>
      BY <1>1, <1>4 DEF BufferInv
<1>5. Interrupt => TimerExpired \/ UNCHANGED <<pingpong, preceiver, processer>>
      BY DEF Interrupt, RecvByte, SendCompleted, Tick, rxVars
<1>6. Poll => PollParse \/ UNCHANGED <<pingpong, preceiver, processer>>
      BY DEF Poll, PollReceived, PollCopied, PollParsed, PollReady, PollSent, rxVars
<1>7. Application => UNCHANGED <<pingpong, preceiver, processer>>
      BY DEF Application, SetTransmitter, DirectSend, DirectSent,
             SetTransmitterCache, ClearTransmitter, rxVars
<1>8. UNCHANGED vars => UNCHANGED <<pingpong, preceiver, processer>>
      BY DEF vars
<1>9. QED BY <1>1, <1>2, <1>3, <1>4, <1>5, <1>6, <1>7, <1>8 DEF Next

\* The receive interrupt never fills the buffer that was handed to poll
\* last, however late the main loop is (pingpong_buffer_get_write_buf).
THEOREM NeverFillsTheReadBuffer == Spec => []FillsOtherBuffer
<1>1. BufferInv => FillsOtherBuffer
      BY DEF BufferInv, FillsOtherBuffer, NoBuffer, Handlers, Buffers
<1>2. QED BY <1>1, BufferInit, BufferStep, PTL DEF Spec

-----------------------------------------------------------------------------
(* Types.                                                                  *)

TypeInv == TypeOK /\ BufferInv

LEMMA Constants == /\ Difs \in Nat /\ Difs > 0 /\ T35 \in Nat /\ T35 > 0
                   /\ Capacity \in Nat /\ Capacity > 0
                   /\ EventDepth \in Nat /\ PollPeriod \in Nat
                   /\ MaxFrames \in Nat /\ MaxSends \in Nat
                   /\ Backoffs \subseteq Nat /\ Retrans \subseteq Nat
                   /\ Off = T35 + 1 /\ Off \in Nat
BY TimingAssumption DEF Off

LEMMA BusOps ==
  ASSUME NEW b \in Buses, NEW d \in 0 .. Difs, NEW n \in Nat
  PROVE  /\ Locked(b) \in Buses /\ Unlocked(b) \in Buses /\ Recovered(b) \in Buses
         /\ [b EXCEPT !.difs = d] \in Buses
         /\ [b EXCEPT !.difs = d, !.backoff = n] \in Buses
<1>1. Locked(b) \in Buses /\ Unlocked(b) \in Buses
      BY DEF Locked, Unlocked, Buses
<1>2. \A x \in 0 .. Difs : [b EXCEPT !.difs = x] \in Buses
      BY DEF Buses
<1>3. Difs \in 0 .. Difs
      BY Constants
<1>4. Recovered(b) \in Buses
  <2>1. [b EXCEPT !.difs = Difs] \in Buses
        BY <1>2, <1>3
  <2>2. \A c \in Buses : Unlocked(c) \in Buses
        BY DEF Unlocked, Buses
  <2>3. QED BY <2>1, <2>2 DEF Recovered
<1>5. [b EXCEPT !.difs = d, !.backoff = n] \in Buses
      BY DEF Buses
<1>6. QED BY <1>1, <1>2, <1>4, <1>5

LEMMA BusStep == TypeInv /\ [Next]_vars => BusType'
<1>1. SUFFICES ASSUME TypeInv, [Next]_vars PROVE bus' \in Buses
      BY DEF BusType
<1>2. bus \in Buses /\ bus.difs \in Nat /\ bus.backoff \in Nat /\ bus.difs <= Difs
      BY <1>1, Constants DEF TypeInv, TypeOK, BusType, Buses
<1>3. 0 \in 0 .. Difs /\ Difs \in 0 .. Difs
      BY Constants
<1>4. CASE Tick
  <2>1. CASE TickSuspended
        BY <1>2, <2>1 DEF TickSuspended
  <2>2. CASE TickSilence
    <3>1. NewDifs \in 0 .. Difs
          BY <1>2, Constants DEF NewDifs
    <3>2. QED BY <1>2, <2>2, <3>1, BusOps DEF TickSilence
  <2>3. CASE TickGiveUp
        BY <1>2, <1>3, <2>3, BusOps DEF TickGiveUp
  <2>4. CASE TickBackoff
    <3>1. CASE \E n \in Backoffs : bus' = [bus EXCEPT !.difs = 0, !.backoff = n]
          BY <1>2, <1>3, <3>1, BusOps, Constants
    <3>2. CASE bus.backoff > 1 /\ bus' = [bus EXCEPT !.difs = 0, !.backoff = @ - 1]
      <4>1. bus.backoff - 1 \in Nat
            BY <1>2, <3>2
      <4>2. QED BY <1>2, <1>3, <3>2, <4>1, BusOps
    <3>3. CASE bus' = Locked([bus EXCEPT !.difs = 0, !.backoff = 0])
          BY <1>2, <1>3, <3>3, BusOps
    <3>4. QED BY <2>4, <3>1, <3>2, <3>3 DEF TickBackoff
  <2>5. QED BY <1>4, <2>1, <2>2, <2>3, <2>4 DEF Tick
<1>5. CASE Interrupt /\ ~Tick
      BY <1>2, <1>3, <1>5, BusOps DEF Interrupt, RecvByte, TimerExpired, SendCompleted
<1>6. CASE Poll
  <2>1. \/ bus' = bus \/ bus' = Unlocked(bus) \/ bus' = [bus EXCEPT !.difs = Difs]
        BY <1>6 DEF Poll, PollReceived, PollCopied, PollParse, PollParsed, PollReady,
                    PollSent
  <2>2. QED BY <1>2, <1>3, <2>1, BusOps
<1>7. CASE Application
  <2>1. \/ bus' = bus \/ bus' = Locked(bus) \/ bus' = Recovered(bus)
        \/ bus' = [bus EXCEPT !.difs = Difs]
        \/ bus' = Locked([bus EXCEPT !.difs = Difs])
        BY <1>7 DEF Application, SetTransmitter, DirectSend, DirectSent,
                    SetTransmitterCache, ClearTransmitter
  <2>2. QED BY <1>2, <1>3, <2>1, BusOps
<1>8. CASE UNCHANGED vars
      BY <1>2, <1>8 DEF vars
<1>9. QED BY <1>1, <1>4, <1>5, <1>6, <1>7, <1>8 DEF Next

LEMMA TransmitOps ==
  ASSUME NEW t \in Transmits, NEW s \in TxStates, NEW d \in TxStates, NEW n \in Nat
  PROVE  /\ Cleared(t) \in Transmits
         /\ [t EXCEPT !.state = s] \in Transmits
         /\ [t EXCEPT !.state = s, !.dma = d] \in Transmits
         /\ [t EXCEPT !.count = @ + 1, !.state = s] \in Transmits
         /\ [state |-> s, pos |-> 1, count |-> 0, max |-> n, dma |-> d,
             type |-> t.type] \in Transmits
<1>1. Cleared(t) \in Transmits
      BY DEF Cleared, Transmits, TxStates
<1>2. [t EXCEPT !.state = s] \in Transmits
      BY DEF Transmits
<1>3. [t EXCEPT !.state = s, !.dma = d] \in Transmits
      BY DEF Transmits
<1>4. [t EXCEPT !.count = @ + 1, !.state = s] \in Transmits
  <2>1. t.count + 1 \in Nat
        BY DEF Transmits
  <2>2. QED BY <2>1 DEF Transmits
<1>5. [state |-> s, pos |-> 1, count |-> 0, max |-> n, dma |-> d,
       type |-> t.type] \in Transmits
      BY DEF Transmits
<1>6. QED BY <1>1, <1>2, <1>3, <1>4, <1>5

LEMMA TransmitStep == TypeInv /\ [Next]_vars => TransmitType'
<1>1. SUFFICES ASSUME TypeInv, [Next]_vars PROVE tx' \in Transmits
      BY DEF TransmitType
<1>2. /\ tx \in Transmits /\ main.old \in TxStates
      /\ tx.dma \in TxStates
      /\ "idle" \in TxStates /\ "ready" \in TxStates
      /\ "busy" \in TxStates /\ "wait_ack" \in TxStates
      BY <1>1 DEF TypeInv, TypeOK, TransmitType, MainType, Transmits, TxStates
<1>3. CASE Interrupt
  <2>1. CASE Tick
    <3>1. TickedTx \in Transmits
          BY <1>2, TransmitOps DEF TickedTx
    <3>2. QED BY <1>2, <2>1, <3>1, TransmitOps
              DEF Tick, TickSuspended, TickSilence, TickGiveUp, TickBackoff
  <2>2. CASE ~Tick
        BY <1>2, <1>3, <2>2, TransmitOps
        DEF Interrupt, RecvByte, TimerExpired, SendCompleted
  <2>3. QED BY <2>1, <2>2
<1>4. CASE Poll
  <2>1. \/ tx' = tx
        \/ tx' = [tx EXCEPT !.state = "busy"]
        \/ tx' = [tx EXCEPT !.state = "busy", !.dma = "wait_ack"]
        \/ tx' = [tx EXCEPT !.state = "wait_ack"]
        BY <1>4 DEF Poll, PollReceived, PollCopied, PollParse, PollParsed, PollReady,
                    PollSent
  <2>2. \A s, d \in TxStates : /\ [tx EXCEPT !.state = s] \in Transmits
                               /\ [tx EXCEPT !.state = s, !.dma = d] \in Transmits
        BY <1>2, TransmitOps, 0 \in Nat
  <2>3. QED BY <1>2, <2>1, <2>2
<1>5. CASE Application
  <2>1. CASE \E r \in Retrans : SetTransmitterCache(r)
    <3>1. PICK r \in Retrans :
            tx' = [state |-> "ready", pos |-> 1, count |-> 0, max |-> r,
                   dma |-> tx.dma, type |-> tx.type]
          BY <2>1 DEF SetTransmitterCache
    <3>2. r \in Nat
          BY Constants
    <3>3. QED BY <1>2, <3>1, <3>2, TransmitOps
  <2>2. \/ tx' = tx
        \/ tx' = Cleared(tx)
        \/ tx' = [tx EXCEPT !.state = "busy"]
        \/ tx' = [tx EXCEPT !.state = "busy", !.dma = main.old]
        \/ tx' = [tx EXCEPT !.state = main.old]
        \/ \E r \in Retrans : SetTransmitterCache(r)
        BY <1>5 DEF Application, SetTransmitter, DirectSend, DirectSent,
                    ClearTransmitter
  <2>3. \A s, d \in TxStates : /\ [tx EXCEPT !.state = s] \in Transmits
                               /\ [tx EXCEPT !.state = s, !.dma = d] \in Transmits
                               /\ Cleared(tx) \in Transmits
        BY <1>2, TransmitOps, 0 \in Nat
  <2>4. QED BY <1>2, <2>1, <2>2, <2>3
<1>6. CASE UNCHANGED vars
      BY <1>2, <1>6 DEF vars
<1>7. QED BY <1>1, <1>3, <1>4, <1>5, <1>6 DEF Next

\* The last byte of a frame is stored only while pos < recv_capacity.
LEMMA ReceiveStep == TypeInv /\ [Next]_vars => ReceiveType'
<1>1. SUFFICES ASSUME TypeInv, [Next]_vars PROVE ReceiveType'
      OBVIOUS
<1>2. ReceiveType /\ preceiver \in Buffers /\ frames \in 0 .. MaxFrames
      BY <1>1 DEF TypeInv, TypeOK, ReceiveType
<1>3. /\ pingpong' \in Handlers /\ preceiver' \in Buffers
      /\ processer' \in Buffers \cup {NoBuffer}
      BY <1>1, BufferStep DEF TypeInv, BufferInv, Handlers, NoBuffer
<1> DEFINE Receives == [state : {"idle", "busy", "error"}, pos : 0 .. Capacity,
                        frame : 0 .. MaxFrames]
<1>4. rxbuf \in [Buffers -> Receives]
      BY <1>2 DEF ReceiveType
<1>5. CASE RecvByte
  <2>1. CASE FirstByte
    <3>1. frames' \in 0 .. MaxFrames
          BY <1>2, <2>1, Constants DEF FirstByte
    <3>2. [state |-> "busy", pos |-> 1, frame |-> frames'] \in Receives
          BY <3>1, Constants
    <3>3. rxbuf' \in [Buffers -> Receives]
          BY <1>4, <2>1, <3>2 DEF FirstByte
    <3>4. QED BY <1>3, <2>1, <3>1, <3>3, Constants DEF FirstByte, Rearm, ReceiveType
  <2>2. CASE NextByte
    <3>1. \A b \in Buffers :
            /\ HasRoom /\ b = preceiver => [rxbuf[b] EXCEPT !.pos = @ + 1] \in Receives
            /\ [rxbuf[b] EXCEPT !.state = "error"] \in Receives
      <4>1. SUFFICES ASSUME NEW b \in Buffers
            PROVE /\ HasRoom /\ b = preceiver => [rxbuf[b] EXCEPT !.pos = @ + 1] \in Receives
                  /\ [rxbuf[b] EXCEPT !.state = "error"] \in Receives
            OBVIOUS
      <4>2. rxbuf[b] \in Receives
            BY <1>4
      <4>3. HasRoom /\ b = preceiver => rxbuf[b].pos + 1 \in 0 .. Capacity
            BY <4>2, Constants DEF HasRoom
      <4>4. QED BY <4>2, <4>3
    <3>2. rxbuf' \in [Buffers -> Receives]
      <4>1. CASE HasRoom
            BY <1>2, <1>4, <2>2, <3>1, <4>1 DEF NextByte
      <4>2. CASE ~HasRoom
            BY <1>2, <1>4, <2>2, <3>1, <4>2 DEF NextByte
      <4>3. QED BY <4>1, <4>2
    <3>3. QED BY <1>2, <1>3, <2>2, <3>2, Constants DEF NextByte, Rearm, ReceiveType
  <2>3. CASE DroppedByte
        BY <1>2, <1>3, <2>3, Constants DEF DroppedByte, Rearm, ReceiveType
  <2>4. QED BY <1>5, <2>1, <2>2, <2>3 DEF RecvByte
<1>6. CASE TimerExpired
  <2>1. \A f \in [Buffers -> Receives] : \A b : [f EXCEPT ![b].state = "idle"] \in [Buffers -> Receives]
        OBVIOUS
  <2>2. rxbuf' \in [Buffers -> Receives]
        BY <1>4, <1>6, <2>1 DEF TimerExpired
  <2>3. timer' = Off /\ frames' = frames
        BY <1>6 DEF TimerExpired
  <2>4. Off \in 0 .. Off
        BY Constants
  <2>5. QED BY <1>2, <1>3, <2>2, <2>3, <2>4 DEF ReceiveType
<1>7. CASE Tick
  <2>1. timer' \in 0 .. Off
        BY <1>2, <1>7, Constants DEF Tick, ReceiveType
  <2>2. QED BY <1>2, <1>3, <1>7, <2>1 DEF Tick, ReceiveType
<1>8. CASE UNCHANGED <<rxbuf, timer, frames>>
      BY <1>2, <1>3, <1>8 DEF ReceiveType
<1>9. Next => RecvByte \/ TimerExpired \/ Tick \/ UNCHANGED <<rxbuf, timer, frames>>
      BY DEF Next, Interrupt, SendCompleted, Poll, PollReceived, PollCopied, PollParse,
             PollParsed, PollReady, PollSent, Application, SetTransmitter, DirectSend,
             DirectSent, SetTransmitterCache, ClearTransmitter, rxVars
<1>10. UNCHANGED vars => UNCHANGED <<rxbuf, timer, frames>>
      BY DEF vars
<1>11. QED BY <1>1, <1>5, <1>6, <1>7, <1>8, <1>9, <1>10

\* The queue is extended only while it has room, and a RECEIVED event is
\* posted only when processer has been set.
LEMMA EventsStep == TypeInv /\ [Next]_vars => EventsType'
<1>1. SUFFICES ASSUME TypeInv, [Next]_vars PROVE EventsType'
      OBVIOUS
<1>2. EventsType /\ EventDepth \in Nat
      BY <1>1, Constants DEF TypeInv, TypeOK
<1>3. processer' = NoBuffer => processer = NoBuffer /\ ~TimerExpired
  <2>1. CASE TimerExpired
    <3>1. processer' = HandOver(pingpong).read /\ pingpong \in Handlers
          BY <1>1, <2>1 DEF TimerExpired, TypeInv, BufferInv
    <3>2. processer' \in Buffers
          BY <3>1, HandOverType
    <3>3. QED BY <3>2 DEF Buffers, NoBuffer
  <2>2. CASE ~TimerExpired
        BY <1>1, <2>2 DEF Next, Interrupt, RecvByte, SendCompleted, Tick, Poll,
             PollReceived, PollCopied, PollParse, PollParsed, PollReady, PollSent,
             Application, SetTransmitter, DirectSend, DirectSent, SetTransmitterCache,
             ClearTransmitter, rxVars, vars
  <2>3. QED BY <2>1, <2>2
<1>4. CASE events' = events
      BY <1>2, <1>3, <1>4 DEF EventsType
<1>5. CASE EventPost(TransmitterReady)
      BY <1>2, <1>3, <1>5 DEF EventPost, EventsType, Received, TransmitterReady
<1>6. CASE TimerExpired /\ EventPost(Received)
      BY <1>2, <1>3, <1>6 DEF EventPost, EventsType, Received, TransmitterReady
<1>7. CASE events # <<>> /\ events' = Tail(events)
      BY <1>2, <1>3, <1>7 DEF EventsType
<1>8. \/ events' = events \/ EventPost(TransmitterReady)
      \/ TimerExpired /\ EventPost(Received)
      \/ events # <<>> /\ events' = Tail(events)
  <2>1. CASE TimerExpired
        BY <2>1 DEF TimerExpired
  <2>2. CASE Interrupt /\ ~TimerExpired
        BY <2>2 DEF Interrupt, RecvByte, SendCompleted, Tick, TickSuspended,
                    TickSilence, TickGiveUp, TickBackoff
  <2>3. CASE Poll
        BY <2>3 DEF Poll, PollReceived, PollCopied, PollParse, PollParsed, PollReady,
                    PollSent
  <2>4. CASE Application
        BY <2>4 DEF Application, SetTransmitter, DirectSend, DirectSent,
                    SetTransmitterCache, ClearTransmitter
  <2>5. QED BY <1>1, <2>1, <2>2, <2>3, <2>4 DEF Next, vars
<1>9. QED BY <1>4, <1>5, <1>6, <1>7, <1>8

MainRecords == [pc : MainPcs, ret : {"idle", "parsing"}, old : TxStates, src : Buffers,
                first : Nat, second : Nat, len : Nat]

LEMMA MainStep == TypeInv /\ [Next]_vars => MainType'
<1>1. SUFFICES ASSUME TypeInv, [Next]_vars PROVE MainType'
      OBVIOUS
<1> USE DEF MainRecords
<1>2. /\ MainType /\ ReceiveType /\ EventsType /\ TransmitType
      BY <1>1 DEF TypeInv, TypeOK
<1>3. main \in MainRecords /\ (main.pc \in {"copying", "copied"} => processer # NoBuffer)
      BY <1>2 DEF MainType
<1>4. processer' = NoBuffer => processer = NoBuffer
  <2>1. CASE TimerExpired
    <3>1. processer' = HandOver(pingpong).read /\ pingpong \in Handlers
          BY <1>1, <2>1 DEF TimerExpired, TypeInv, BufferInv
    <3>2. processer' \in Buffers
          BY <3>1, HandOverType
    <3>3. QED BY <3>2 DEF Buffers, NoBuffer
  <2>2. CASE ~TimerExpired
        BY <1>1, <2>2 DEF Next, Interrupt, RecvByte, SendCompleted, Tick, Poll,
             PollReceived, PollCopied, PollParse, PollParsed, PollReady, PollSent,
             Application, SetTransmitter, DirectSend, DirectSent, SetTransmitterCache,
             ClearTransmitter, rxVars, vars
  <2>3. QED BY <2>1, <2>2
<1>5. MainIdle \in MainRecords
      BY DEF MainIdle, MainPcs, TxStates, Buffers
<1>6. ASSUME processer \in Buffers
      PROVE  /\ rxbuf[processer].frame \in Nat /\ rxbuf[processer].pos \in Nat
             /\ rxbuf[main.src].frame \in Nat
  <2>1. rxbuf[processer] \in [state : {"idle", "busy", "error"}, pos : 0 .. Capacity,
                              frame : 0 .. MaxFrames]
        BY <1>2, <1>6 DEF ReceiveType
  <2>2. rxbuf[main.src] \in [state : {"idle", "busy", "error"}, pos : 0 .. Capacity,
                              frame : 0 .. MaxFrames]
        BY <1>2, <1>3 DEF ReceiveType
  <2>3. QED BY <2>1, <2>2, Constants
<1>7. CASE PollReceived
  <2>1. processer # NoBuffer
    <3>1. Len(events) \in Nat /\ Len(events) # 0 /\ events[1] = Received
          BY <1>2, <1>7 DEF PollReceived, EventsType
    <3>2. QED BY <1>2, <3>1 DEF EventsType
  <2>2. processer \in Buffers
        BY <1>2, <2>1 DEF ReceiveType
  <2>3. /\ main' = [main EXCEPT !.pc = "copying", !.src = processer,
                                !.first = rxbuf[processer].frame]
        /\ processer' = processer
        BY <1>7 DEF PollReceived, rxVars
  <2>4. main' \in MainRecords
        BY <1>3, <1>6, <2>2, <2>3 DEF MainPcs
  <2>5. QED BY <2>1, <2>3, <2>4 DEF MainType
<1>8. CASE PollCopied
  <2>1. processer \in Buffers
        BY <1>2, <1>3, <1>8 DEF PollCopied, ReceiveType
  <2>2. /\ main' = [main EXCEPT !.pc = "copied", !.second = rxbuf[main.src].frame,
                                !.len = rxbuf[processer].pos]
        /\ processer' = processer
        BY <1>8 DEF PollCopied, rxVars
  <2>3. main' \in MainRecords
        BY <1>3, <1>6, <2>1, <2>2 DEF MainPcs
  <2>4. QED BY <2>1, <2>2, <2>3 DEF MainType, NoBuffer, Buffers
<1>9. CASE PollParse \/ PollParsed \/ PollSent
  <2>1. main' = MainIdle \/ main' = [MainIdle EXCEPT !.pc = "parsing"]
        BY <1>9 DEF PollParse, PollParsed, PollSent
  <2>2. main' \in MainRecords /\ main'.pc \notin {"copying", "copied"}
        BY <1>5, <2>1 DEF MainIdle, MainPcs
  <2>3. QED BY <2>2 DEF MainType
<1>10. CASE PollReady
  <2>1. main' = main \/ main' = [main EXCEPT !.pc = "sending"]
        BY <1>10 DEF PollReady
  <2>2. main' \in MainRecords
        BY <1>3, <2>1 DEF MainPcs
  <2>3. main'.pc \notin {"copying", "copied"}
        BY <1>3, <1>10, <2>1 DEF PollReady
  <2>4. QED BY <2>2, <2>3 DEF MainType
<1>11. CASE SetTransmitter
  <2>1. \E o \in TxStates : main' = [main EXCEPT !.pc = "direct", !.ret = main.pc, !.old = o]
        BY <1>2, <1>11 DEF SetTransmitter, TransmitType, Transmits, TxStates
  <2>2. main.pc \in {"idle", "parsing"}
        BY <1>11 DEF SetTransmitter, AppTurn
  <2>3. main' \in MainRecords /\ main'.pc = "direct"
        BY <1>3, <2>1, <2>2 DEF MainPcs
  <2>4. QED BY <2>3 DEF MainType
<1>12. CASE DirectSend \/ DirectSent
  <2>1. main' = BackTo(main.ret) \/ main' = [main EXCEPT !.pc = "replying"]
        BY <1>12 DEF DirectSend, DirectSent
  <2>2. \A r \in {"idle", "parsing"} : BackTo(r) \in MainRecords /\ BackTo(r).pc = r
        BY <1>5 DEF BackTo, MainIdle, MainPcs
  <2>3. main' \in MainRecords /\ main'.pc \notin {"copying", "copied"}
        BY <1>3, <2>1, <2>2 DEF MainPcs
  <2>4. QED BY <2>3 DEF MainType
<1>13. CASE main' = main
      BY <1>3, <1>4, <1>13, <1>1, BufferStep DEF MainType
<1>14. QED
  <2>1. Interrupt => main' = main
        BY DEF Interrupt, RecvByte, TimerExpired, SendCompleted, Tick
  <2>2. Application => SetTransmitter \/ DirectSend \/ DirectSent \/ main' = main
        BY DEF Application, SetTransmitterCache, ClearTransmitter
  <2>3. QED BY <1>1, <1>7, <1>8, <1>9, <1>10, <1>11, <1>12, <1>13, <2>1, <2>2
            DEF Next, Poll, vars

LEMMA CountsStep == TypeInv /\ [Next]_vars => CountsType'
<1>1. SUFFICES ASSUME TypeInv, [Next]_vars PROVE CountsType'
      OBVIOUS
<1>2. CountsType
      BY <1>1 DEF TypeInv, TypeOK
<1> USE <1>2, Constants DEF CountsType
<1>3. CASE Interrupt
      BY <1>3 DEF Interrupt, RecvByte, TimerExpired, SendCompleted, Tick
<1>4. CASE Poll
      BY <1>4 DEF Poll, PollReceived, PollCopied, PollParse, PollParsed, PollReady,
                  PollSent
<1>5. CASE Application
      BY <1>5 DEF Application, SetTransmitter, DirectSend, DirectSent,
                  SetTransmitterCache, ClearTransmitter
<1>6. CASE UNCHANGED vars
      BY <1>6 DEF vars
<1>7. QED BY <1>1, <1>3, <1>4, <1>5, <1>6 DEF Next

LEMMA TypeInit == Init => TypeInv
<1>1. SUFFICES ASSUME Init PROVE TypeOK
      BY BufferInit DEF TypeInv
<1>2. /\ bus = [state |-> "idle", difs |-> Difs, backoff |-> 0]
      /\ tx \in [state : {"idle"}, pos : {0}, count : {0}, max : {0}, dma : {"idle"},
                 type : TxTypes]
      /\ rxbuf = [b \in Buffers |-> [state |-> "idle", pos |-> 0, frame |-> 0]]
      /\ timer = Off /\ frames = 0 /\ events = <<>> /\ main = MainIdle
      /\ wire = 0 /\ waited = 0 /\ sends = 0 /\ silence = 0
      BY <1>1 DEF Init
<1>3. BusType /\ TransmitType
      BY <1>2, Constants DEF BusType, Buses, TransmitType, Transmits, TxStates
<1>4. ReceiveType
      BY <1>1, <1>2, BufferInit, Constants DEF BufferInv, Handlers, ReceiveType, NoBuffer
<1>5. EventsType /\ CountsType
      BY <1>2, Constants DEF EventsType, CountsType
<1>6. MainType
      BY <1>2 DEF MainType, MainIdle, MainPcs, TxStates, Buffers
<1>7. QED BY <1>3, <1>4, <1>5, <1>6 DEF TypeOK

LEMMA TypeStep == TypeInv /\ [Next]_vars => TypeInv'
BY BusStep, TransmitStep, ReceiveStep, EventsStep, MainStep, CountsStep, BufferStep
DEF TypeInv, TypeOK

\* Every field keeps its range: no byte is stored beyond recv_capacity, the
\* event queue does not overflow, and poll reads processer.preceiver only
\* when it designates a buffer.
THEOREM TypeCorrect == Spec => []TypeOK
<1>1. TypeInv => TypeOK
      BY DEF TypeInv
<1>2. QED BY <1>1, TypeInit, TypeStep, PTL DEF Spec

-----------------------------------------------------------------------------
(* The station that keeps time.                                            *)

(* The timing and the caller under which it works: the caller replies once, *)
(* from the parser, and neither sends nor clears during a transmission; a   *)
(* packet takes longer than t3.5 to send; the main loop parses a frame,     *)
(* replies, and handles the next event within the silence and within the    *)
(* time the next frame takes.  The last clause is the bound of `sends`.     *)
Timely == /\ CarefulCaller = TRUE /\ LongPackets = TRUE
          /\ Difs > 2 * PollPeriod /\ T35 > 2 * PollPeriod
          /\ EventDepth >= 1
          /\ \A r \in Retrans : r < MaxSends

\* The event queue: one event at most.
R == Received
T == TransmitterReady
FrameWaits == events = <<R>>
SendWaits == events = <<T>>
QueueInv == events = << >> \/ FrameWaits \/ SendWaits

Answers == main.pc \in {"direct", "replying"}
HandlesFrame == main.pc \in {"copying", "copied", "parsing"} \/ Answers
Sending == main.pc \in {"sending", "replying"}

\* Ticks until the received frame has been handled.
Work == (IF FrameWaits THEN PollPeriod ELSE 0) + (IF main.pc = "idle" THEN 0 ELSE PollPeriod)
          - waited

\* A received frame is handled before the line can be claimed, and before the
\* next frame can be complete.
FrameInv ==
  /\ (FrameWaits \/ HandlesFrame) /\ ~ Sending =>
       Work < bus.difs /\ (timer # Off => Work < timer)
  /\ FrameWaits /\ Sending => timer = Off
  /\ FrameWaits => main.pc \in {"idle", "sending", "replying", "parsing"}
  /\ FrameWaits /\ main.pc = "parsing" => main.ret = "parsing"

\* The line is free only while no frame runs, and has been silent for as long
\* as difs has been counting; a claim is used before a frame can end.
LineInv ==
  /\ bus.state = "idle" => timer = Off /\ bus.difs + silence >= Difs
  /\ main.pc = "sending" \/ wire > 0 => bus.difs = Difs
  /\ SendWaits => /\ main.pc = "idle" /\ bus.state = "busy" /\ tx.state = "ready"
                  /\ timer # Off => PollPeriod - waited < timer

\* The state the transmitter will have when what it is sending is out.
State == IF main.pc = "replying" THEN main.old
         ELSE IF main.pc = "sending" THEN "wait_ack"
         ELSE IF wire > 0 THEN tx.dma ELSE tx.state

TxInv ==
  /\ tx.state = "busy" <=> Sending \/ wire > 0
  /\ Sending => wire = 0
  /\ wire \in {0, 1}
  /\ main.pc = "direct" => wire = 0 /\ main.old = tx.state
  /\ Answers => main.ret = "parsing"
  /\ State # "busy"
  /\ tx.pos = 1 <=> State # "idle"
  /\ tx.count <= tx.max /\ tx.max \in Retrans \cup {0} /\ (tx.pos = 1 => tx.max \in Retrans)

SendsInv == tx.pos = 1 => sends = IF State = "ready" THEN tx.count ELSE tx.count + 1

\* The frame on its way is the one in the buffer that poll reads.
Unparsed == FrameWaits \/ main.pc \in {"copying", "copied"}
CopyInv ==
  /\ \A b \in Buffers : pingpong.avail[b] <=> Unparsed /\ b = pingpong.read
  /\ Unparsed => /\ processer = pingpong.read
                 /\ whole = <<[frame |-> rxbuf[processer].frame, len |-> rxbuf[processer].pos]>>
  /\ ~ Unparsed => whole = << >>
  /\ main.pc \in {"copying", "copied"} =>
       main.src = processer /\ main.first = rxbuf[processer].frame
  /\ main.pc = "copied" => main.second = rxbuf[processer].frame /\ main.len = rxbuf[processer].pos

Parts == QueueInv /\ FrameInv /\ LineInv /\ TxInv /\ SendsInv /\ CopyInv
IInv == TypeInv /\ Parts

-----------------------------------------------------------------------------
LEMMA OneEvent ==
  /\ R # T /\ <<R>> # <<T>> /\ <<R>> # << >> /\ <<T>> # << >>
  /\ \A e : /\ Append(<< >>, e) = <<e>> /\ Head(<<e>>) = e /\ Tail(<<e>>) = << >>
            /\ Len(<<e>>) = 1
  /\ Len(<< >>) = 0
<1>1. R # T
      BY DEF R, T, Received, TransmitterReady
<1>2. <<R>>[1] = R /\ <<T>>[1] = T
      OBVIOUS
<1>3. \A e : /\ Append(<< >>, e) = <<e>> /\ Head(<<e>>) = e /\ Tail(<<e>>) = << >>
             /\ Len(<<e>>) = 1
      OBVIOUS
<1>4. <<R>> # << >> /\ <<T>> # << >> /\ Len(<< >>) = 0
      OBVIOUS
<1>5. <<R>> # <<T>>
      BY <1>1, <1>2
<1>6. QED BY <1>1, <1>3, <1>4, <1>5

\* What the types say of the fields one by one.
LEMMA Ranges ==
  ASSUME TypeInv
  PROVE  /\ waited \in 0 .. PollPeriod /\ PollPeriod \in Nat /\ Difs \in Nat /\ T35 \in Nat
         /\ Off = T35 + 1 /\ timer \in 0 .. Off
         /\ bus \in Buses /\ bus.state \in {"idle", "busy"} /\ bus.difs \in 0 .. Difs
         /\ bus.backoff \in Nat
         /\ tx \in Transmits /\ tx.state \in TxStates /\ tx.dma \in TxStates
         /\ tx.count \in Nat /\ tx.max \in Nat /\ tx.pos \in {0, 1}
         /\ main.pc \in MainPcs /\ main.old \in TxStates /\ main.ret \in {"idle", "parsing"}
         /\ wire \in Nat /\ sends \in 0 .. MaxSends /\ silence \in 0 .. Difs
BY Constants DEF TypeInv, TypeOK, BusType, Buses, TransmitType, Transmits, ReceiveType, MainType,
   CountsType

LEMMA PartsInit == Timely /\ Init => IInv
<1>1. SUFFICES ASSUME Timely, Init PROVE Parts
      BY TypeInit DEF IInv
<1>2. /\ events = << >> /\ ~ FrameWaits /\ ~ SendWaits
      BY <1>1, OneEvent DEF Init, FrameWaits, SendWaits
<1>3. /\ main.pc = "idle" /\ wire = 0 /\ tx.state = "idle" /\ tx.pos = 0 /\ tx.count = 0
      /\ tx.max = 0 /\ bus.state = "idle" /\ bus.difs = Difs /\ timer = Off /\ silence = 0
      /\ whole = << >>
      BY <1>1 DEF Init, MainIdle
<1>4. \A b \in Buffers : ~ pingpong.avail[b]
      BY <1>1 DEF Init, GetWriteBuf, NewHandler
<1>5. QueueInv /\ FrameInv
      BY <1>2, <1>3 DEF QueueInv, FrameInv, HandlesFrame, Answers
<1>6. LineInv
      BY <1>2, <1>3, Constants DEF LineInv
<1>7. TxInv /\ SendsInv
      BY <1>2, <1>3 DEF TxInv, SendsInv, State, Sending, Answers
<1>8. CopyInv
      BY <1>2, <1>3, <1>4 DEF CopyInv, Unparsed
<1>9. QED BY <1>5, <1>6, <1>7, <1>8 DEF Parts

\* The copy is not touched by a step outside it that leaves the frames alone.
LEMMA CopyKept ==
  ASSUME CopyInv, FrameWaits' = FrameWaits,
         main.pc \notin {"copying", "copied"}, main'.pc \notin {"copying", "copied"},
         UNCHANGED <<rxbuf, pingpong, processer, whole>>
  PROVE  CopyInv'
<1>1. Unparsed' = Unparsed
      BY DEF Unparsed
<1>2. QED BY <1>1 DEF CopyInv

LEMMA BusFields ==
  ASSUME NEW b \in Buses
  PROVE  /\ Locked(b).state = "busy" /\ Locked(b).difs = b.difs /\ Locked(b).backoff = b.backoff
         /\ Unlocked(b).state = "idle" /\ Unlocked(b).difs = b.difs
         /\ Recovered(b).state = "idle" /\ Recovered(b).difs = Difs
         /\ \A d : /\ [b EXCEPT !.difs = d].state = b.state /\ [b EXCEPT !.difs = d].difs = d
                   /\ Locked([b EXCEPT !.difs = d]).state = "busy"
                   /\ Locked([b EXCEPT !.difs = d]).difs = d
BY DEF Locked, Unlocked, Recovered, Buses

\* A byte: the line is in use, and there is time for what is on its way.
LEMMA RecvByteParts ==
  ASSUME Timely, IInv, RecvByte
  PROVE  Parts'
<1>1. TypeInv /\ QueueInv /\ FrameInv /\ LineInv /\ TxInv /\ SendsInv /\ CopyInv
      BY DEF IInv, Parts
<1>2. /\ tx.state # "busy" /\ bus' = Locked(bus) /\ timer' = T35
      /\ UNCHANGED <<tx, pingpong, preceiver, processer, events, main, wire, waited, whole, sends>>
      BY DEF RecvByte, FirstByte, NextByte, DroppedByte, Rearm
<1>3. bus'.state = "busy" /\ bus'.difs = bus.difs
      BY <1>1, <1>2, Ranges, BusFields
<1>4. /\ UNCHANGED <<FrameWaits, SendWaits, HandlesFrame, Answers, Sending, Work, State, Unparsed>>
      /\ ~ Sending
      BY <1>1, <1>2 DEF FrameWaits, SendWaits, HandlesFrame, Answers, Sending, Work, State,
                        Unparsed, TxInv
<1>5. FrameInv'
  <2>1. Work < T35
        BY <1>1, Ranges DEF Work, Timely
  <2>2. QED BY <1>1, <1>2, <1>3, <1>4, <2>1 DEF FrameInv
<1>6. LineInv'
  <2>1. PollPeriod - waited < T35
        BY <1>1, Ranges DEF Timely
  <2>2. QED BY <1>1, <1>2, <1>3, <1>4, <2>1 DEF LineInv
<1>7. QueueInv' /\ TxInv' /\ SendsInv'
      BY <1>1, <1>2, <1>4 DEF QueueInv, TxInv, SendsInv
<1>8. CopyInv'
  <2>1. rxbuf \in [Buffers -> [state : {"idle", "busy", "error"}, pos : 0 .. Capacity,
                               frame : 0 .. MaxFrames]]
        BY <1>1 DEF TypeInv, TypeOK, ReceiveType
  <2>2. \A b \in Buffers : b # preceiver => rxbuf'[b] = rxbuf[b]
        BY <2>1 DEF RecvByte, FirstByte, NextByte, DroppedByte
  <2>3. Unparsed => processer \in Buffers /\ processer # preceiver
        BY <1>1 DEF CopyInv, TypeInv, BufferInv, Handlers
  <2>4. main.pc \in {"copying", "copied"} => Unparsed
        BY DEF Unparsed
  <2>5. QED BY <1>1, <1>2, <1>4, <2>2, <2>3, <2>4 DEF CopyInv
<1>9. QED BY <1>5, <1>6, <1>7, <1>8 DEF Parts

\* The buffers change roles: the one just filled is the one to be read.
LEMMA HandsOver ==
  ASSUME NEW pp \in Handlers, pp.write # pp.read, \A b \in Buffers : ~ pp.avail[b]
  PROVE  /\ HandOver(pp) \in Handlers /\ HandOver(pp).read = pp.write
         /\ \A b \in Buffers : HandOver(pp).avail[b] <=> b = HandOver(pp).read
         /\ \A b \in Buffers : ~ SetReadDone(HandOver(pp)).avail[b]
         /\ SetReadDone(HandOver(pp)).read = HandOver(pp).read
<1> DEFINE done  == SetWriteDone(pp)
           taken == GetReadBuf(done)
           next  == HandOver(pp)
<1>1. /\ done \in Handlers /\ done.write = 1 - pp.write /\ done.read = pp.read
      /\ \A b \in Buffers : done.avail[b] <=> b = pp.write
  <2>1. pp.avail \in [Buffers -> BOOLEAN] /\ pp.write \in Buffers /\ 1 - pp.write \in Buffers
        BY DEF Handlers, Buffers
  <2>2. [pp.avail EXCEPT ![pp.write] = TRUE] \in [Buffers -> BOOLEAN]
        BY <2>1
  <2>3. \A b \in Buffers : [pp.avail EXCEPT ![pp.write] = TRUE][b] <=> b = pp.write
        BY <2>1
  <2>4. QED BY <2>1, <2>2, <2>3 DEF SetWriteDone, Handlers
<1>2. next = GetWriteBuf(taken)
      BY DEF HandOver
<1>3. taken \in Handlers /\ taken.read = pp.write /\ taken.write = 1 - pp.write
      /\ taken.avail = done.avail
  <2> HIDE DEF done, next
  <2>1. SomethingToRead(done) /\ (IF done.avail[0] THEN 0 ELSE 1) = pp.write
        BY <1>1 DEF SomethingToRead, Handlers, Buffers
  <2>2. taken = [done EXCEPT !.read = pp.write]
        BY <2>1 DEF GetReadBuf
  <2>3. QED BY <1>1, <2>2 DEF Handlers
<1> HIDE DEF taken, done, next
<1>4. next = taken
  <2>1. taken.write # taken.read
        BY <1>3 DEF Handlers, Buffers
  <2>2. QED BY <1>2, <2>1 DEF GetWriteBuf
<1>5. next \in Handlers /\ next.read = pp.write /\ \A b \in Buffers : next.avail[b] <=> b = next.read
      BY <1>1, <1>3, <1>4
<1>6. SetReadDone(next).read = next.read /\ \A b \in Buffers : ~ SetReadDone(next).avail[b]
  <2>1. next.avail \in [Buffers -> BOOLEAN] /\ next.read \in Buffers
        BY <1>5 DEF Handlers
  <2>2. \A b \in Buffers : ~ [next.avail EXCEPT ![next.read] = FALSE][b]
        BY <1>5, <2>1
  <2>3. QED BY <1>5, <2>2 DEF SetReadDone, Handlers
<1>7. QED BY <1>5, <1>6 DEF next

\* The end of a frame: poll has handled the one before, and the line has not
\* been claimed.
LEMMA TimerExpiredParts ==
  ASSUME Timely, IInv, TimerExpired
  PROVE  Parts'
<1>1. TypeInv /\ QueueInv /\ FrameInv /\ LineInv /\ TxInv /\ SendsInv /\ CopyInv
      BY DEF IInv, Parts
<1>2. /\ timer = 0 /\ timer' = Off /\ bus' = Recovered(bus)
      /\ UNCHANGED <<tx, main, wire, waited, frames, sends, silence>>
      BY DEF TimerExpired
<1>3. bus'.state = "idle" /\ bus'.difs = Difs
      BY <1>1, <1>2, Ranges, BusFields
<1>4. timer # Off /\ Off # 0
      BY <1>1, <1>2, Ranges
<1>5. ~ FrameWaits /\ (HandlesFrame => main.pc = "replying")
  <2>1. FrameWaits \/ HandlesFrame => Work >= 0
        BY <1>1, Ranges DEF Work, HandlesFrame, Answers
  <2>2. Work \in Int
        BY <1>1, Ranges DEF Work
  <2>3. FrameWaits \/ HandlesFrame => Sending
        BY <1>1, <1>2, <1>4, <2>1, <2>2 DEF FrameInv
  <2>4. QED BY <1>1, <1>4, <2>3 DEF FrameInv, Sending, HandlesFrame, Answers
<1>6. ~ SendWaits /\ events = << >>
  <2>1. ~ SendWaits
        BY <1>1, <1>2, <1>4, Ranges DEF LineInv
  <2>2. QED BY <1>1, <1>5, <2>1 DEF QueueInv
<1>7. ~ Unparsed /\ main.pc \notin {"copying", "copied"}
      BY <1>5 DEF Unparsed, HandlesFrame
<1> DEFINE pp   == HandOver(pingpong)
           bufs == [rxbuf EXCEPT ![pp.write].state = "idle"]
           got  == [frame |-> rxbuf[preceiver].frame, len |-> rxbuf[preceiver].pos]
<1>8. /\ pingpong \in Handlers /\ pingpong.write # pingpong.read /\ preceiver = pingpong.write
      /\ \A b \in Buffers : ~ pingpong.avail[b]
      /\ whole = << >>
      BY <1>1, <1>7 DEF CopyInv, TypeInv, BufferInv
<1>9. /\ pp \in Handlers /\ pp.read = preceiver /\ pp.write # pp.read
      /\ \A b \in Buffers : pp.avail[b] <=> b = pp.read
      /\ \A b \in Buffers : ~ SetReadDone(pp).avail[b]
      /\ SetReadDone(pp).read = pp.read
  <2>1. pp.write # pp.read
        BY <1>8, HandlerOps, WriteAvoidsRead DEF HandOver
  <2>2. QED BY <1>8, <2>1, HandsOver
<1>10. /\ processer' = pp.read
       /\ rxbuf' = [bufs EXCEPT ![pp.read].state = "idle"]
       /\ IF Intact(bufs[pp.read]) THEN EventPost(R) /\ pingpong' = pp
          ELSE UNCHANGED events /\ pingpong' = SetReadDone(pp)
       /\ whole' = IF rxbuf[preceiver].state = "busy" THEN Append(whole, got) ELSE whole
      BY DEF TimerExpired, R
<1> HIDE DEF pp
<1>11. /\ pp.read \in Buffers /\ bufs[pp.read] = rxbuf[preceiver]
       /\ rxbuf'[pp.read].frame = got.frame /\ rxbuf'[pp.read].pos = got.len
  <2> DEFINE Receives == [state : {"idle", "busy", "error"}, pos : 0 .. Capacity,
                          frame : 0 .. MaxFrames]
  <2>1. pp.read \in Buffers /\ pp.write \in Buffers /\ rxbuf \in [Buffers -> Receives]
        BY <1>1, <1>9 DEF TypeInv, TypeOK, ReceiveType, Handlers
  <2>2. \A f \in [Buffers -> Receives], b \in Buffers :
          /\ [f EXCEPT ![b].state = "idle"] \in [Buffers -> Receives]
          /\ [f EXCEPT ![b].state = "idle"][b].frame = f[b].frame
          /\ [f EXCEPT ![b].state = "idle"][b].pos = f[b].pos
        OBVIOUS
  <2>3. bufs \in [Buffers -> Receives] /\ bufs[pp.read] = rxbuf[preceiver]
        BY <1>9, <2>1, <2>2
  <2> HIDE DEF bufs, Receives
  <2>4. rxbuf'[pp.read].frame = bufs[pp.read].frame /\ rxbuf'[pp.read].pos = bufs[pp.read].pos
        BY <1>10, <2>1, <2>2, <2>3
  <2>5. QED BY <2>1, <2>3, <2>4
<1> HIDE DEF got
<1>12. LineInv' /\ TxInv' /\ SendsInv' /\ QueueInv'
  <2>1. UNCHANGED <<State, Sending, Answers>>
        BY <1>2 DEF State, Sending, Answers
  <2>2. events' \in {<< >>, <<R>>}
        BY <1>6, <1>10, OneEvent DEF EventPost
  <2>3. ~ SendWaits' /\ QueueInv'
        BY <2>2, OneEvent DEF SendWaits, QueueInv, FrameWaits
  <2>4. bus'.difs + silence' >= Difs
        BY <1>1, <1>2, <1>3, Ranges
  <2>5. QED BY <1>1, <1>2, <1>3, <2>1, <2>3, <2>4 DEF LineInv, TxInv, SendsInv
<1>13. CASE rxbuf[preceiver].state = "busy"
  <2>1. EventPost(R) /\ pingpong' = pp /\ whole' = <<got>>
        BY <1>8, <1>10, <1>11, <1>13, OneEvent DEF Intact
  <2>2. events' = <<R>>
    <3>1. Len(events) = 0 /\ Append(events, R) = <<R>> /\ EventDepth \in Nat /\ EventDepth > 0
          BY <1>6, OneEvent, Constants DEF Timely
    <3>2. QED BY <2>1, <3>1 DEF EventPost
  <2>3. FrameWaits' /\ Unparsed'
        BY <2>2 DEF FrameWaits, Unparsed
  <2>4. FrameInv'
    <3>1. CASE Sending
          BY <1>2, <3>1, <2>3 DEF FrameInv, Sending
    <3>2. CASE ~ Sending
      <4>1. main.pc = "idle"
            BY <1>1, <1>5, <3>2, Ranges DEF HandlesFrame, Answers, Sending, MainPcs
      <4>2. Work' = PollPeriod - waited
            BY <1>1, <1>2, <2>3, <4>1, Ranges DEF Work
      <4>3. Work' < bus'.difs
            BY <1>1, <1>3, <4>2, Ranges DEF Timely
      <4>4. QED BY <1>2, <4>1, <4>3 DEF FrameInv, Sending
    <3>3. QED BY <3>1, <3>2
  <2>5. CopyInv'
        BY <1>2, <1>7, <1>9, <1>10, <1>11, <2>1, <2>3 DEF CopyInv, got
  <2>6. QED BY <1>12, <2>4, <2>5 DEF Parts
<1>14. CASE rxbuf[preceiver].state # "busy"
  <2>1. UNCHANGED events /\ pingpong' = SetReadDone(pp) /\ whole' = << >>
        BY <1>8, <1>10, <1>11, <1>14 DEF Intact
  <2>2. ~ FrameWaits' /\ ~ Unparsed'
        BY <1>2, <1>5, <1>7, <2>1 DEF FrameWaits, Unparsed
  <2>3. FrameInv'
        BY <1>2, <1>5, <2>2 DEF FrameInv, Sending, HandlesFrame, Answers
  <2>4. CopyInv'
        BY <1>2, <1>7, <1>9, <2>1, <2>2 DEF CopyInv
  <2>5. QED BY <1>12, <2>3, <2>4 DEF Parts
<1>15. QED BY <1>13, <1>14

\* A transfer is out: the gap before the next one has not begun to count.
LEMMA SendCompletedParts ==
  ASSUME Timely, IInv, SendCompleted
  PROVE  Parts'
<1>1. TypeInv /\ QueueInv /\ FrameInv /\ LineInv /\ TxInv /\ SendsInv /\ CopyInv
      BY DEF IInv, Parts
<1>2. /\ wire > 0 /\ timer = Off /\ wire' = wire - 1 /\ tx' = [tx EXCEPT !.state = tx.dma]
      /\ bus' = Unlocked(bus) /\ silence' = 0
      /\ UNCHANGED <<rxVars, events, main, waited, sends>>
      BY DEF SendCompleted, PacketOut, Timely
<1>3. /\ bus'.state = "idle" /\ bus'.difs = bus.difs /\ bus.difs = Difs
      BY <1>1, <1>2, Ranges, BusFields DEF LineInv
<1>4. /\ wire' = 0 /\ ~ Sending /\ main.pc # "direct" /\ ~ SendWaits
      BY <1>1, <1>2, Ranges DEF TxInv, LineInv
<1>5. /\ tx'.state = tx.dma /\ tx'.pos = tx.pos /\ tx'.count = tx.count /\ tx'.max = tx.max
      /\ State = tx.dma /\ State' = tx.dma
  <2>1. /\ tx'.state = tx.dma /\ tx'.pos = tx.pos /\ tx'.count = tx.count /\ tx'.max = tx.max
        BY <1>1, <1>2, Ranges DEF Transmits
  <2>2. State = tx.dma
        BY <1>2, <1>4 DEF State, Sending
  <2>3. State' = tx'.state
        BY <1>2, <1>4 DEF State, Sending
  <2>4. QED BY <2>1, <2>2, <2>3
<1>6. UNCHANGED <<FrameWaits, SendWaits, HandlesFrame, Answers, Sending, Work>>
      BY <1>2 DEF FrameWaits, SendWaits, HandlesFrame, Answers, Sending, Work
<1>7. QueueInv' /\ FrameInv' /\ LineInv'
      BY <1>1, <1>2, <1>3, <1>4, <1>6, Ranges DEF QueueInv, FrameInv, LineInv, Sending, rxVars
<1>8. TxInv' /\ SendsInv'
      BY <1>1, <1>2, <1>4, <1>5, <1>6 DEF TxInv, SendsInv, Answers, Sending
<1>9. CopyInv'
  <2>1. Unparsed' = Unparsed
        BY <1>2, <1>6 DEF Unparsed
  <2>2. QED BY <1>1, <1>2, <2>1 DEF CopyInv, rxVars
<1>10. QED BY <1>7, <1>8, <1>9 DEF Parts

\* What a tick meets: a station that does not send, and, once the silence is
\* over, neither a frame nor an event.
LEMMA TickMeets ==
  ASSUME Timely, IInv, Tick
  PROVE  /\ UNCHANGED <<rxbuf, pingpong, preceiver, processer, main, wire, frames, whole, sends>>
         /\ timer = Off => timer' = Off
         /\ timer # Off => timer' = timer - 1
         /\ silence' \in Nat /\ silence' >= silence
         /\ silence' < Difs => silence' = silence + 1
         /\ SendWaits \/ ((FrameWaits \/ HandlesFrame) /\ ~ Sending) =>
              waited < PollPeriod /\ waited' = waited + 1
         /\ ~ Suspended => /\ bus.state = "idle" /\ tx.state \in {"ready", "wait_ack"}
                           /\ ~ Sending /\ wire = 0 /\ ~ SendWaits /\ timer = Off
                           /\ State = tx.state
         /\ ~ Suspended /\ NewDifs = 0 =>
              ~ FrameWaits /\ main.pc = "idle" /\ events = << >> /\ bus.difs \in {0, 1}
<1>1. TypeInv /\ QueueInv /\ FrameInv /\ LineInv /\ TxInv
      BY DEF IInv, Parts
<1>2. /\ UNCHANGED <<rxbuf, pingpong, preceiver, processer, main, wire, frames, whole, sends>>
      /\ timer' = IF timer = Off THEN Off ELSE timer - 1
      /\ waited' = IF MainBehind THEN waited + 1 ELSE waited
      /\ silence' = IF silence < Difs THEN silence + 1 ELSE silence
      /\ MainBehind => waited < PollPeriod
      BY DEF Tick
<1>3. SendWaits \/ ((FrameWaits \/ HandlesFrame) /\ ~ Sending) => MainBehind
  <2>1. FrameWaits \/ SendWaits => events # << >>
        BY OneEvent DEF FrameWaits, SendWaits
  <2>2. SendWaits => main.pc = "idle"
        BY <1>1 DEF LineInv
  <2>3. QED BY <2>1, <2>2 DEF MainBehind, HandlesFrame, Answers, Sending
<1>4. ASSUME ~ Suspended
      PROVE  /\ bus.state = "idle" /\ tx.state \in {"ready", "wait_ack"}
             /\ ~ Sending /\ wire = 0 /\ ~ SendWaits /\ timer = Off /\ State = tx.state
  <2>1. bus.state = "idle" /\ tx.state \in {"ready", "wait_ack"}
        BY <1>1, <1>4, Ranges DEF Suspended, TxStates
  <2>2. ~ Sending /\ wire = 0 /\ ~ SendWaits /\ timer = Off
        BY <1>1, <2>1, Ranges DEF TxInv, LineInv
  <2>3. QED BY <2>1, <2>2 DEF State, Sending
<1>5. ASSUME ~ Suspended, NewDifs = 0
      PROVE  ~ FrameWaits /\ main.pc = "idle" /\ events = << >> /\ bus.difs \in {0, 1}
  <2>1. bus.difs \in {0, 1}
        BY <1>1, <1>5, Ranges DEF NewDifs
  <2>2. ~ (FrameWaits \/ HandlesFrame)
    <3>1. SUFFICES ASSUME FrameWaits \/ HandlesFrame PROVE FALSE
          OBVIOUS
    <3>2. Work < bus.difs /\ waited < PollPeriod
          BY <1>1, <1>2, <1>3, <1>4, <1>5, <3>1 DEF FrameInv
    <3>3. Work >= PollPeriod - waited
          BY <1>1, <3>1, Ranges DEF Work, HandlesFrame, Answers
    <3>4. Work \in Int
          BY <1>1, Ranges DEF Work
    <3>5. QED BY <1>1, <2>1, <3>2, <3>3, <3>4, Ranges
  <2>3. main.pc = "idle"
        BY <1>1, <1>4, <1>5, <2>2, Ranges DEF HandlesFrame, Answers, Sending, MainPcs
  <2>4. QED BY <1>1, <1>4, <1>5, <2>1, <2>2, <2>3 DEF QueueInv
<1>6. timer = Off => timer' = Off
      BY <1>2
<1>7. silence' \in Nat /\ silence' >= silence /\ (silence' < Difs => silence' = silence + 1)
      BY <1>1, <1>2, Ranges
<1>8. QED BY <1>2, <1>3, <1>4, <1>5, <1>6, <1>7

\* The passing of a tick, with the transmitter and the queue left alone.
LEMMA TickWaits ==
  ASSUME Timely, IInv, Tick, TickSuspended \/ TickSilence
  PROVE  Parts'
<1>1. TypeInv /\ QueueInv /\ FrameInv /\ LineInv /\ TxInv /\ SendsInv /\ CopyInv
      BY DEF IInv, Parts
<1>2. /\ UNCHANGED <<tx, events, rxbuf, pingpong, preceiver, processer, main, wire, whole, sends>>
      /\ bus'.state = bus.state
      /\ bus'.difs = bus.difs \/ (~ Suspended /\ bus'.difs = bus.difs - 1)
  <2>1. UNCHANGED <<tx, events>>
        BY DEF TickSuspended, TickSilence
  <2>2. CASE TickSuspended
        BY <2>1, <2>2, TickMeets DEF TickSuspended
  <2>3. CASE TickSilence
    <3>1. NewDifs = bus.difs - 1 /\ bus' = [bus EXCEPT !.difs = NewDifs] /\ ~ Suspended
          BY <1>1, <2>3, Ranges DEF TickSilence, NewDifs
    <3>2. QED BY <1>1, <2>1, <3>1, TickMeets, Ranges, BusFields
  <2>4. QED BY <2>2, <2>3
<1>3. UNCHANGED <<FrameWaits, SendWaits, HandlesFrame, Answers, Sending, State, Unparsed>>
      BY <1>2 DEF FrameWaits, SendWaits, HandlesFrame, Answers, Sending, State, Unparsed
<1>4. FrameInv'
  <2>1. Work \in Int /\ Work' \in Int
    <3>1. waited' \in Nat
          BY <1>1, Ranges DEF Tick
    <3>2. QED BY <1>1, <1>2, <3>1, Ranges DEF Work
  <2>2. (FrameWaits \/ HandlesFrame) /\ ~ Sending => Work' = Work - 1
    <3>1. SUFFICES ASSUME (FrameWaits \/ HandlesFrame) /\ ~ Sending PROVE Work' = Work - 1
          OBVIOUS
    <3>2. waited' = waited + 1 /\ waited \in Nat
          BY <1>1, <3>1, TickMeets, Ranges
    <3>3. QED BY <1>1, <1>2, <1>3, <3>2, Ranges DEF Work
  <2>3. timer \in 0 .. Off /\ bus.difs \in 0 .. Difs
        BY <1>1, Ranges
  <2>4. (timer' # Off => timer' = timer - 1 /\ timer # Off) /\ (timer = Off => timer' = Off)
        BY TickMeets
  <2>5. bus'.difs >= bus.difs - 1
        BY <1>2, <2>3, Ranges
  <2>6. (FrameWaits \/ HandlesFrame) /\ ~ Sending =>
          Work' < bus'.difs /\ (timer' # Off => Work' < timer')
    <3>1. bus'.difs \in Int
          BY <1>2, <2>3, Ranges
    <3>2. QED BY <1>1, <2>1, <2>2, <2>3, <2>4, <2>5, <3>1, Ranges DEF FrameInv
  <2>7. QED BY <1>1, <1>2, <1>3, <2>4, <2>6 DEF FrameInv
<1>5. LineInv'
  <2>1. bus'.state = "idle" => timer' = Off /\ bus'.difs + silence' >= Difs
    <3>1. SUFFICES ASSUME bus.state = "idle" PROVE timer' = Off /\ bus'.difs + silence' >= Difs
          BY <1>2
    <3>2. timer' = Off /\ bus.difs + silence >= Difs
          BY <1>1, <3>1, TickMeets DEF LineInv
    <3>3. silence' \in Nat /\ silence' >= silence /\ (silence' < Difs => silence' = silence + 1)
          BY TickMeets
    <3>4. bus'.difs \in Nat
          BY <1>1, <1>2, TypeStep, Ranges, BusStep DEF BusType, Buses, Next, Interrupt
    <3>5. CASE silence' >= Difs
          BY <1>1, <3>2, <3>3, <3>4, <3>5, Ranges
    <3>6. CASE silence' < Difs
          BY <1>1, <1>2, <3>2, <3>3, <3>4, <3>6, Ranges
    <3>7. QED BY <1>1, <3>3, <3>5, <3>6, Ranges
  <2>2. main'.pc = "sending" \/ wire' > 0 => bus'.difs = Difs
        BY <1>1, <1>2, TickMeets DEF LineInv, Sending
  <2>3. SendWaits' => (timer' # Off => PollPeriod - waited' < timer')
        BY <1>1, <1>3, TickMeets, Ranges DEF LineInv
  <2>4. QED BY <1>1, <1>2, <1>3, <2>1, <2>2, <2>3 DEF LineInv
<1>6. QueueInv' /\ TxInv' /\ SendsInv' /\ CopyInv'
      BY <1>1, <1>2, <1>3 DEF QueueInv, TxInv, SendsInv, CopyInv
<1>7. QED BY <1>4, <1>5, <1>6 DEF Parts

\* The silence is over: the message is given up, or the backoff counts, or
\* the line is claimed.
LEMMA TickActs ==
  ASSUME Timely, IInv, Tick, TickGiveUp \/ TickBackoff
  PROVE  Parts'
<1>1. TypeInv /\ QueueInv /\ FrameInv /\ LineInv /\ TxInv /\ SendsInv /\ CopyInv
      BY DEF IInv, Parts
<1>2. ~ Suspended /\ NewDifs = 0
      BY DEF TickGiveUp, TickBackoff
<1>3. /\ UNCHANGED <<rxbuf, pingpong, preceiver, processer, main, wire, whole, sends>>
      /\ bus.state = "idle" /\ tx.state \in {"ready", "wait_ack"} /\ State = tx.state
      /\ ~ Sending /\ wire = 0 /\ main.pc = "idle" /\ events = << >> /\ timer = Off /\ timer' = Off
      /\ bus.difs \in {0, 1} /\ ~ FrameWaits /\ ~ SendWaits
      BY <1>2, TickMeets
<1>4. silence' >= Difs /\ silence' \in Nat
  <2>1. silence' \in Nat /\ (silence' < Difs => silence' = silence + 1)
        BY TickMeets
  <2>2. QED BY <1>1, <1>3, <2>1, Ranges DEF LineInv
<1>5. /\ tx'.state \in {"idle", "ready"} /\ tx'.pos = (IF tx'.state = "idle" THEN 0 ELSE tx.pos)
      /\ tx'.state = "ready" => /\ tx'.max = tx.max
                                /\ tx'.count = (IF tx.state = "ready" THEN tx.count ELSE tx.count + 1)
                                /\ tx.state = "wait_ack" => tx.count + 1 <= tx.max
      /\ tx'.state = "idle" => tx'.max = 0 /\ tx'.count = 0
  <2>1. CASE TickGiveUp
        BY <1>1, <2>1, Ranges DEF TickGiveUp, Cleared, Transmits
  <2>2. CASE TickBackoff
    <3>1. tx' = TickedTx /\ ~ (tx.state = "wait_ack" /\ GivesUp)
          BY <2>2 DEF TickBackoff
    <3>2. CASE tx.state = "ready"
          BY <1>1, <3>1, <3>2, Ranges DEF TickedTx
    <3>3. CASE tx.state = "wait_ack"
      <4>1. tx.count + 1 <= tx.max
            BY <1>1, <3>1, <3>3, Ranges DEF GivesUp
      <4>2. tx' = [tx EXCEPT !.count = tx.count + 1, !.state = "ready"]
            BY <3>1, <3>3 DEF TickedTx
      <4>3. QED BY <1>1, <3>3, <4>1, <4>2, Ranges DEF Transmits
    <3>4. QED BY <1>3, <3>2, <3>3
  <2>3. QED BY <2>1, <2>2
<1>6. /\ events' \in {<< >>, <<T>>}
      /\ bus'.state = "idle" \/ bus'.state = "busy"
      /\ events' = <<T>> => bus'.state = "busy" /\ tx'.state = "ready"
      /\ bus'.difs \in Nat
  <2>1. CASE TickGiveUp
        BY <1>1, <1>3, <2>1, Ranges, BusFields, OneEvent DEF TickGiveUp
  <2>2. CASE TickBackoff
    <3>1. tx'.state = "ready"
          BY <1>1, <1>3, <2>2, Ranges DEF TickBackoff, TickedTx, Transmits
    <3>2. CASE events' = events
      <4>1. bus' \in Buses
            BY <1>1, BusStep DEF BusType, Next, Interrupt
      <4>2. QED BY <1>3, <3>2, <4>1, OneEvent, Constants DEF Buses
    <3>3. CASE EventPost(T) /\ bus' = Locked([bus EXCEPT !.difs = 0, !.backoff = 0])
      <4>1. events' \in {<< >>, <<T>>}
            BY <1>3, <3>3, OneEvent DEF EventPost
      <4>2. bus'.state = "busy" /\ bus'.difs = 0
            BY <1>1, <3>3, Ranges DEF Locked, Buses
      <4>3. QED BY <3>1, <4>1, <4>2
    <3>4. QED BY <2>2, <3>2, <3>3 DEF TickBackoff, T
  <2>3. QED BY <2>1, <2>2
<1>7. ~ FrameWaits' /\ QueueInv' /\ FrameInv'
  <2>1. ~ FrameWaits' /\ QueueInv'
        BY <1>6, OneEvent DEF QueueInv, FrameWaits, SendWaits
  <2>2. QED BY <1>3, <2>1 DEF FrameInv, HandlesFrame, Answers
<1>8. LineInv'
  <2>1. SendWaits' => events' = <<T>>
        BY DEF SendWaits
  <2>2. bus'.difs + silence' >= Difs
        BY <1>1, <1>4, <1>6, Ranges
  <2>3. QED BY <1>3, <1>6, <2>1, <2>2 DEF LineInv
<1>9. State' = tx'.state /\ ~ Sending' /\ ~ Answers' /\ main'.pc # "direct" /\ wire' = 0
      BY <1>3 DEF State, Sending, Answers
<1>10. TxInv' /\ SendsInv'
      BY <1>1, <1>3, <1>5, <1>9, Ranges DEF TxInv, SendsInv
<1>11. CopyInv'
  <2>1. FrameWaits' = FrameWaits
        BY <1>3, <1>7 DEF FrameWaits
  <2>2. QED BY <1>1, <1>3, <2>1, CopyKept
<1>12. QED BY <1>7, <1>8, <1>10, <1>11 DEF Parts

LEMMA TickParts ==
  ASSUME Timely, IInv, Tick
  PROVE  Parts'
BY TickWaits, TickActs DEF Tick

\* A step of the main loop that leaves the line and the transmitter alone.
LEMMA OnlyMain ==
  ASSUME TypeInv, LineInv, TxInv, SendsInv,
         UNCHANGED <<bus, tx, timer, wire, silence, sends>>, ~ SendWaits, ~ SendWaits',
         ~ Sending, ~ Sending',
         main'.pc = "direct" => wire = 0 /\ main'.old = tx.state /\ main'.ret = "parsing"
  PROVE  LineInv' /\ TxInv' /\ SendsInv'
<1>1. State = State'
      BY DEF State, Sending
<1>2. LineInv'
      BY DEF LineInv, Sending
<1>3. TxInv' /\ SendsInv'
      BY <1>1 DEF TxInv, SendsInv, Answers, Sending
<1>4. QED BY <1>2, <1>3

\* The steps of a received frame, up to the parser.
LEMMA PollReceivedParts ==
  ASSUME Timely, IInv, PollReceived
  PROVE  Parts'
<1>1. TypeInv /\ QueueInv /\ FrameInv /\ LineInv /\ TxInv /\ SendsInv /\ CopyInv
      BY DEF IInv, Parts
<1>2. /\ main.pc = "idle" /\ events # << >> /\ Head(events) = R /\ events' = Tail(events)
      /\ main' = [main EXCEPT !.pc = "copying", !.src = processer,
                              !.first = rxbuf[processer].frame]
      /\ UNCHANGED <<bus, tx, rxVars, wire, waited, sends, silence>>
      BY DEF PollReceived, R
<1>3. /\ FrameWaits /\ ~ SendWaits /\ events' = << >> /\ ~ FrameWaits' /\ ~ SendWaits'
  <2>1. FrameWaits /\ ~ SendWaits
        BY <1>1, <1>2, OneEvent DEF QueueInv, FrameWaits, SendWaits
  <2>2. events' = << >>
        BY <1>2, <2>1, OneEvent DEF FrameWaits
  <2>3. QED BY <2>1, <2>2, OneEvent DEF FrameWaits, SendWaits
<1>4. /\ main'.pc = "copying" /\ main'.src = processer /\ main'.first = rxbuf[processer].frame
      BY <1>1, <1>2 DEF TypeInv, TypeOK, MainType
<1>5. Work' = Work
      BY <1>1, <1>2, <1>3, <1>4, Ranges DEF Work
<1>6. FrameInv' /\ QueueInv'
      BY <1>1, <1>2, <1>3, <1>4, <1>5 DEF FrameInv, Sending, QueueInv, rxVars
<1>7. LineInv' /\ TxInv' /\ SendsInv'
      BY <1>1, <1>2, <1>3, <1>4, OnlyMain DEF Sending, rxVars
<1>8. CopyInv'
  <2>1. Unparsed /\ Unparsed'
        BY <1>3, <1>4 DEF Unparsed
  <2>2. QED BY <1>1, <1>2, <1>4, <2>1 DEF CopyInv, rxVars
<1>9. QED BY <1>6, <1>7, <1>8 DEF Parts

LEMMA PollCopiedParts ==
  ASSUME Timely, IInv, PollCopied
  PROVE  Parts'
<1>1. TypeInv /\ QueueInv /\ FrameInv /\ LineInv /\ TxInv /\ SendsInv /\ CopyInv
      BY DEF IInv, Parts
<1>2. /\ main.pc = "copying"
      /\ main' = [main EXCEPT !.pc = "copied", !.second = rxbuf[main.src].frame,
                              !.len = rxbuf[processer].pos]
      /\ UNCHANGED <<bus, tx, rxVars, events, wire, waited, sends, silence>>
      BY DEF PollCopied
<1>3. /\ main'.pc = "copied" /\ main'.src = main.src /\ main'.first = main.first
      /\ main'.second = rxbuf[main.src].frame /\ main'.len = rxbuf[processer].pos
      BY <1>1, <1>2 DEF TypeInv, TypeOK, MainType
<1>4. UNCHANGED <<FrameWaits, SendWaits>> /\ ~ SendWaits /\ ~ SendWaits'
      BY <1>1, <1>2 DEF FrameWaits, SendWaits, LineInv
<1>5. Work' = Work
      BY <1>2, <1>3, <1>4 DEF Work
<1>6. FrameInv' /\ QueueInv'
      BY <1>1, <1>2, <1>3, <1>4, <1>5 DEF FrameInv, Sending, HandlesFrame, Answers, QueueInv, rxVars
<1>7. LineInv' /\ TxInv' /\ SendsInv'
      BY <1>1, <1>2, <1>3, <1>4, OnlyMain DEF Sending, rxVars
<1>8. CopyInv'
  <2>1. Unparsed /\ Unparsed'
        BY <1>2, <1>3 DEF Unparsed
  <2>2. QED BY <1>1, <1>2, <1>3, <2>1 DEF CopyInv, rxVars
<1>9. QED BY <1>6, <1>7, <1>8 DEF Parts

LEMMA PollParseParts ==
  ASSUME Timely, IInv, PollParse
  PROVE  Parts'
<1>1. TypeInv /\ QueueInv /\ FrameInv /\ LineInv /\ TxInv /\ SendsInv /\ CopyInv
      BY DEF IInv, Parts
<1>2. /\ main.pc = "copied" /\ pingpong' = SetReadDone(pingpong)
      /\ main' = [MainIdle EXCEPT !.pc = "parsing"]
      /\ whole' = IF whole = << >> THEN whole ELSE Tail(whole)
      /\ UNCHANGED <<bus, tx, rxbuf, preceiver, processer, timer, events, wire, waited, frames,
                     sends, silence>>
      BY DEF PollParse
<1>3. main'.pc = "parsing"
      BY <1>2 DEF MainIdle
<1>4. ~ FrameWaits /\ ~ FrameWaits' /\ ~ SendWaits /\ ~ SendWaits'
      BY <1>1, <1>2 DEF FrameWaits, SendWaits, LineInv, FrameInv
<1>5. Work' = Work
      BY <1>2, <1>3, <1>4 DEF Work
<1>6. FrameInv' /\ QueueInv'
      BY <1>1, <1>2, <1>3, <1>4, <1>5
      DEF FrameInv, Sending, HandlesFrame, Answers, QueueInv, FrameWaits, SendWaits
<1>7. LineInv' /\ TxInv' /\ SendsInv'
      BY <1>1, <1>2, <1>3, <1>4, OnlyMain DEF Sending
<1>8. CopyInv'
  <2>1. Unparsed /\ ~ Unparsed'
        BY <1>2, <1>3, <1>4 DEF Unparsed
  <2>2. whole' = << >>
        BY <1>1, <1>2, <2>1, OneEvent DEF CopyInv
  <2>3. \A b \in Buffers : ~ pingpong'.avail[b]
    <3>1. pingpong.avail \in [Buffers -> BOOLEAN] /\ pingpong.read \in Buffers
          BY <1>1 DEF TypeInv, BufferInv, Handlers
    <3>2. \A b \in Buffers : ~ [pingpong.avail EXCEPT ![pingpong.read] = FALSE][b]
          BY <1>1, <3>1 DEF CopyInv
    <3>3. pingpong'.avail = [pingpong.avail EXCEPT ![pingpong.read] = FALSE]
          BY <1>1, <1>2 DEF SetReadDone, TypeInv, BufferInv, Handlers
    <3>4. QED BY <3>2, <3>3
  <2>4. QED BY <1>3, <2>1, <2>2, <2>3 DEF CopyInv
<1>9. QED BY <1>6, <1>7, <1>8 DEF Parts

LEMMA PollParsedParts ==
  ASSUME Timely, IInv, PollParsed
  PROVE  Parts'
<1>1. TypeInv /\ QueueInv /\ FrameInv /\ LineInv /\ TxInv /\ SendsInv /\ CopyInv
      BY DEF IInv, Parts
<1>2. /\ main.pc = "parsing" /\ main' = MainIdle /\ waited' = 0
      /\ UNCHANGED <<bus, tx, rxVars, events, wire, sends, silence>>
      BY DEF PollParsed
<1>3. main'.pc = "idle"
      BY <1>2 DEF MainIdle
<1>4. UNCHANGED <<FrameWaits, SendWaits>> /\ ~ SendWaits /\ ~ SendWaits'
      BY <1>1, <1>2 DEF FrameWaits, SendWaits, LineInv
<1>5. FrameInv' /\ QueueInv'
  <2>1. FrameWaits => Work' <= Work
    <3>1. FrameWaits => Work' = PollPeriod /\ Work = 2 * PollPeriod - waited
          BY <1>1, <1>2, <1>3, <1>4, Ranges DEF Work
    <3>2. QED BY <1>1, <3>1, Ranges
  <2>2. Work \in Int /\ Work' \in Int /\ bus.difs \in Nat /\ timer \in Nat
        BY <1>1, <1>2, Ranges DEF Work
  <2>3. QED BY <1>1, <1>2, <1>3, <1>4, <2>1, <2>2
            DEF FrameInv, Sending, HandlesFrame, Answers, QueueInv, rxVars
<1>6. LineInv' /\ TxInv' /\ SendsInv'
      BY <1>1, <1>2, <1>3, <1>4, OnlyMain DEF Sending, rxVars
<1>7. CopyInv'
      BY <1>1, <1>2, <1>3, <1>4, CopyKept DEF rxVars
<1>8. QED BY <1>5, <1>6, <1>7 DEF Parts

\* The claimed line is used: one event, one send.
LEMMA PollReadyParts ==
  ASSUME Timely, IInv, PollReady
  PROVE  Parts'
<1>1. TypeInv /\ QueueInv /\ FrameInv /\ LineInv /\ TxInv /\ SendsInv /\ CopyInv
      BY DEF IInv, Parts
<1>2. /\ main.pc = "idle" /\ events # << >> /\ Head(events) = T /\ events' = Tail(events)
      /\ bus' = [bus EXCEPT !.difs = Difs]
      /\ sends' = IF sends < MaxSends THEN sends + 1 ELSE sends
      /\ silence' = 0
      /\ UNCHANGED rxVars
      BY DEF PollReady, T
<1>3. SendWaits /\ ~ FrameWaits /\ ~ FrameWaits' /\ ~ SendWaits' /\ QueueInv'
  <2>1. SendWaits /\ ~ FrameWaits
        BY <1>1, <1>2, OneEvent DEF QueueInv, FrameWaits, SendWaits
  <2>2. events' = << >>
        BY <1>2, <2>1, OneEvent DEF SendWaits
  <2>3. QED BY <2>1, <2>2, OneEvent DEF FrameWaits, SendWaits, QueueInv
<1>4. /\ tx.state = "ready" /\ bus.state = "busy" /\ wire = 0 /\ State = "ready" /\ tx.pos = 1
  <2>1. tx.state = "ready" /\ bus.state = "busy" /\ wire = 0
        BY <1>1, <1>3, Ranges DEF LineInv, TxInv
  <2>2. State = "ready"
        BY <1>2, <2>1 DEF State
  <2>3. QED BY <1>1, <2>1, <2>2 DEF TxInv
<1>5. sends' = tx.count + 1
  <2>1. sends = tx.count /\ tx.count <= tx.max /\ tx.max < MaxSends
        BY <1>1, <1>4 DEF SendsInv, TxInv, Timely
  <2>2. QED BY <1>1, <1>2, <2>1, Ranges, Constants
<1>6. bus'.state = "busy" /\ bus'.difs = Difs
      BY <1>1, <1>2, <1>4, Ranges, BusFields
<1>7. /\ tx'.state = "busy" /\ tx'.pos = 1 /\ tx'.count = tx.count /\ tx'.max = tx.max
      /\ \/ main'.pc = "sending" /\ wire' = 0
         \/ main'.pc = "idle" /\ wire' = 1 /\ tx'.dma = "wait_ack"
  <2>1. CASE tx.type = "polling"
    <3>1. /\ tx' = [tx EXCEPT !.state = "busy"] /\ main' = [main EXCEPT !.pc = "sending"]
          /\ UNCHANGED wire
          BY <2>1 DEF PollReady
    <3>2. main'.pc = "sending"
          BY <1>1, <3>1 DEF TypeInv, TypeOK, MainType
    <3>3. QED BY <1>1, <1>4, <3>1, <3>2, Ranges DEF Transmits
  <2>2. CASE tx.type # "polling"
    <3>1. /\ tx' = [tx EXCEPT !.state = "busy", !.dma = "wait_ack"] /\ wire' = wire + 1
          /\ UNCHANGED main
          BY <2>2 DEF PollReady
    <3>2. QED BY <1>1, <1>2, <1>4, <3>1, Ranges DEF Transmits
  <2>3. QED BY <2>1, <2>2
<1>8. State' = "wait_ack" /\ ~ Answers' /\ main'.pc # "direct"
      BY <1>7 DEF State, Answers
<1>9. FrameInv' /\ LineInv'
      BY <1>3, <1>6, <1>7 DEF FrameInv, LineInv, HandlesFrame, Answers
<1>10. TxInv' /\ SendsInv'
      BY <1>1, <1>4, <1>5, <1>7, <1>8 DEF TxInv, SendsInv, Sending
<1>11. CopyInv'
  <2>1. FrameWaits' = FrameWaits
        BY <1>3 DEF FrameWaits
  <2>2. QED BY <1>1, <1>2, <1>7, <2>1, CopyKept DEF rxVars
<1>12. QED BY <1>3, <1>9, <1>10, <1>11 DEF Parts

LEMMA PollSentParts ==
  ASSUME Timely, IInv, PollSent
  PROVE  Parts'
<1>1. TypeInv /\ QueueInv /\ FrameInv /\ LineInv /\ TxInv /\ SendsInv /\ CopyInv
      BY DEF IInv, Parts
<1>2. /\ main.pc = "sending" /\ timer = Off /\ tx' = [tx EXCEPT !.state = "wait_ack"]
      /\ bus' = Unlocked(bus) /\ main' = MainIdle /\ waited' = 0 /\ silence' = 0
      /\ UNCHANGED <<rxVars, events, wire, sends>>
      BY DEF PollSent, PacketOut, Timely
<1>3. bus'.state = "idle" /\ bus'.difs = Difs /\ main'.pc = "idle"
      BY <1>1, <1>2, Ranges, BusFields DEF LineInv, MainIdle
<1>4. UNCHANGED <<FrameWaits, SendWaits>> /\ ~ SendWaits /\ ~ SendWaits'
      BY <1>1, <1>2 DEF FrameWaits, SendWaits, LineInv
<1>5. /\ tx'.state = "wait_ack" /\ tx'.pos = tx.pos /\ tx'.count = tx.count /\ tx'.max = tx.max
      /\ wire = 0 /\ wire' = 0 /\ State = "wait_ack" /\ State' = "wait_ack"
      /\ ~ Sending' /\ ~ Answers'
      BY <1>1, <1>2, <1>3, Ranges DEF Transmits, State, Sending, Answers, TxInv
<1>6. FrameInv' /\ QueueInv'
  <2>1. FrameWaits => Work' < bus'.difs
    <3>1. FrameWaits => Work' = PollPeriod
          BY <1>1, <1>2, <1>3, <1>4, Ranges DEF Work
    <3>2. QED BY <1>1, <1>3, <3>1, Ranges DEF Timely
  <2>2. QED BY <1>1, <1>2, <1>3, <1>4, <2>1
            DEF FrameInv, Sending, HandlesFrame, Answers, QueueInv, rxVars
<1>7. LineInv'
      BY <1>1, <1>2, <1>3, <1>4, <1>5, Ranges DEF LineInv, rxVars
<1>8. TxInv' /\ SendsInv'
      BY <1>1, <1>2, <1>3, <1>5 DEF TxInv, SendsInv
<1>9. CopyInv'
      BY <1>1, <1>2, <1>3, <1>4, CopyKept DEF rxVars
<1>10. QED BY <1>6, <1>7, <1>8, <1>9 DEF Parts

\* The parser replies: no frame and no claim waits behind it.
LEMMA SetTransmitterParts ==
  ASSUME Timely, IInv, SetTransmitter
  PROVE  Parts'
<1>1. TypeInv /\ QueueInv /\ FrameInv /\ LineInv /\ TxInv /\ SendsInv /\ CopyInv
      BY DEF IInv, Parts
<1>2. /\ main.pc = "parsing" /\ main.ret = "idle" /\ wire = 0 /\ tx.state # "busy"
      /\ main' = [main EXCEPT !.pc = "direct", !.ret = "parsing", !.old = tx.state]
      /\ UNCHANGED <<bus, tx, rxVars, events, wire, waited, sends, silence>>
      BY DEF SetTransmitter, MayDisturb, Timely
<1>3. main'.pc = "direct" /\ main'.ret = "parsing" /\ main'.old = tx.state
      BY <1>1, <1>2 DEF TypeInv, TypeOK, MainType
<1>4. ~ FrameWaits /\ ~ FrameWaits' /\ ~ SendWaits /\ ~ SendWaits'
      BY <1>1, <1>2 DEF FrameWaits, SendWaits, LineInv, FrameInv
<1>5. Work' = Work
      BY <1>2, <1>3, <1>4 DEF Work
<1>6. FrameInv' /\ QueueInv'
      BY <1>1, <1>2, <1>3, <1>4, <1>5
      DEF FrameInv, Sending, HandlesFrame, Answers, QueueInv, FrameWaits, SendWaits, rxVars
<1>7. LineInv' /\ TxInv' /\ SendsInv'
      BY <1>1, <1>2, <1>3, <1>4, OnlyMain DEF Sending, rxVars
<1>8. CopyInv'
  <2>1. FrameWaits' = FrameWaits
        BY <1>2 DEF FrameWaits
  <2>2. QED BY <1>1, <1>2, <1>3, <2>1, CopyKept DEF rxVars
<1>9. QED BY <1>6, <1>7, <1>8 DEF Parts

LEMMA BackToFields ==
  \A pc : BackTo(pc).pc = pc /\ BackTo(pc).ret = pc
BY DEF BackTo, MainIdle

LEMMA DirectSendParts ==
  ASSUME Timely, IInv, DirectSend
  PROVE  Parts'
<1>1. TypeInv /\ QueueInv /\ FrameInv /\ LineInv /\ TxInv /\ SendsInv /\ CopyInv
      BY DEF IInv, Parts
<1>2. main.pc = "direct" /\ UNCHANGED <<rxVars, events, waited, sends>>
      BY DEF DirectSend
<1>3. /\ ~ FrameWaits /\ ~ FrameWaits' /\ ~ SendWaits /\ ~ SendWaits' /\ QueueInv'
      BY <1>1, <1>2 DEF FrameWaits, SendWaits, LineInv, FrameInv, QueueInv
<1>4. /\ wire = 0 /\ main.old = tx.state /\ main.ret = "parsing" /\ tx.state # "busy"
      /\ State = tx.state
      BY <1>1, <1>2 DEF TxInv, Answers, Sending, State
<1>5. /\ bus'.state = "busy" /\ tx'.state = "busy" /\ tx'.pos = tx.pos /\ tx'.count = tx.count
      /\ tx'.max = tx.max
      /\ \/ main'.pc = "replying" /\ wire' = 0 /\ main'.old = tx.state /\ main'.ret = "parsing"
         \/ main'.pc = "parsing" /\ wire' = 1 /\ tx'.dma = tx.state /\ bus'.difs = Difs
  <2>1. CASE tx.type = "polling"
    <3>1. /\ bus' = Locked(bus) /\ tx' = [tx EXCEPT !.state = "busy"]
          /\ main' = [main EXCEPT !.pc = "replying"] /\ UNCHANGED wire
          BY <2>1 DEF DirectSend
    <3>2. main'.pc = "replying" /\ main'.old = main.old /\ main'.ret = main.ret
          BY <1>1, <3>1 DEF TypeInv, TypeOK, MainType
    <3>3. QED BY <1>1, <1>4, <3>1, <3>2, Ranges, BusFields DEF Transmits
  <2>2. CASE tx.type # "polling"
    <3>1. /\ bus' = Locked([bus EXCEPT !.difs = Difs])
          /\ tx' = [tx EXCEPT !.state = "busy", !.dma = main.old]
          /\ main' = BackTo(main.ret) /\ wire' = wire + 1
          BY <2>2 DEF DirectSend
    <3>2. main'.pc = "parsing"
          BY <1>4, <3>1, BackToFields
    <3>3. bus'.state = "busy" /\ bus'.difs = Difs
          BY <1>1, <3>1, Ranges, BusFields
    <3>4. QED BY <1>1, <1>4, <3>1, <3>2, <3>3, Ranges DEF Transmits
  <2>3. QED BY <2>1, <2>2
<1>6. State' = State
      BY <1>4, <1>5 DEF State
<1>7. FrameInv'
  <2>1. CASE main'.pc = "replying"
        BY <1>3, <2>1 DEF FrameInv, Sending
  <2>2. CASE main'.pc = "parsing" /\ bus'.difs = Difs
    <3>1. Work' = PollPeriod - waited /\ Work = PollPeriod - waited
          BY <1>1, <1>2, <1>3, <2>2, Ranges DEF Work
    <3>2. Work' < bus'.difs
          BY <1>1, <2>2, <3>1, Ranges DEF Timely
    <3>3. QED BY <1>1, <1>2, <1>3, <2>2, <3>1, <3>2
              DEF FrameInv, Sending, HandlesFrame, Answers, rxVars
  <2>3. QED BY <1>5, <2>1, <2>2
<1>8. LineInv'
      BY <1>3, <1>5 DEF LineInv
<1>9. TxInv' /\ SendsInv'
      BY <1>1, <1>2, <1>4, <1>5, <1>6 DEF TxInv, SendsInv, Sending, Answers
<1>10. CopyInv'
  <2>1. FrameWaits' = FrameWaits
        BY <1>2 DEF FrameWaits
  <2>2. QED BY <1>1, <1>2, <1>5, <2>1, CopyKept DEF rxVars
<1>11. QED BY <1>3, <1>7, <1>8, <1>9, <1>10 DEF Parts

LEMMA DirectSentParts ==
  ASSUME Timely, IInv, DirectSent
  PROVE  Parts'
<1>1. TypeInv /\ QueueInv /\ FrameInv /\ LineInv /\ TxInv /\ SendsInv /\ CopyInv
      BY DEF IInv, Parts
<1>2. /\ main.pc = "replying" /\ timer = Off /\ tx' = [tx EXCEPT !.state = main.old]
      /\ bus' = Recovered(bus) /\ main' = BackTo(main.ret)
      /\ UNCHANGED <<rxVars, events, wire, waited, sends>>
      BY DEF DirectSent, PacketOut, Timely
<1>3. /\ main'.pc = "parsing" /\ main'.ret = "parsing" /\ bus'.state = "idle" /\ bus'.difs = Difs
      BY <1>1, <1>2, Ranges, BusFields, BackToFields DEF TxInv, Answers
<1>4. UNCHANGED <<FrameWaits, SendWaits>> /\ ~ SendWaits /\ ~ SendWaits'
      BY <1>1, <1>2 DEF FrameWaits, SendWaits, LineInv
<1>5. /\ tx'.state = main.old /\ tx'.pos = tx.pos /\ tx'.count = tx.count /\ tx'.max = tx.max
      /\ wire = 0 /\ wire' = 0 /\ State = main.old /\ State' = main.old
      BY <1>1, <1>2, <1>3, Ranges DEF Transmits, State, Sending, TxInv
<1>6. FrameInv' /\ QueueInv'
  <2>1. Work' < bus'.difs
        BY <1>1, <1>2, <1>3, Ranges DEF Work, Timely
  <2>2. QED BY <1>1, <1>2, <1>3, <1>4, <2>1
            DEF FrameInv, Sending, HandlesFrame, Answers, QueueInv, rxVars
<1>7. LineInv'
  <2>1. silence' \in Nat
        BY DEF DirectSent
  <2>2. QED BY <1>1, <1>2, <1>3, <1>4, <1>5, <2>1, Ranges DEF LineInv, rxVars
<1>8. TxInv' /\ SendsInv'
      BY <1>1, <1>2, <1>3, <1>5 DEF TxInv, SendsInv, Sending, Answers
<1>9. CopyInv'
      BY <1>1, <1>2, <1>3, <1>4, CopyKept DEF rxVars
<1>10. QED BY <1>6, <1>7, <1>8, <1>9 DEF Parts

LEMMA SetTransmitterCacheParts ==
  ASSUME Timely, IInv, NEW r \in Retrans, SetTransmitterCache(r)
  PROVE  Parts'
<1>1. TypeInv /\ QueueInv /\ FrameInv /\ LineInv /\ TxInv /\ SendsInv /\ CopyInv
      BY DEF IInv, Parts
<1>2. /\ main.pc \in {"idle", "parsing"} /\ tx.state = "idle" /\ sends' = 0
      /\ bus' = [bus EXCEPT !.difs = Difs]
      /\ tx' = [state |-> "ready", pos |-> 1, count |-> 0, max |-> r, dma |-> tx.dma,
                type |-> tx.type]
      /\ UNCHANGED <<rxVars, events, main, wire, waited, silence>>
      BY DEF SetTransmitterCache, AppTurn
<1>3. bus'.state = bus.state /\ bus'.difs = Difs /\ r \in Nat
      BY <1>1, <1>2, Ranges, BusFields, Constants
<1>4. ~ Sending /\ wire = 0 /\ ~ SendWaits /\ ~ SendWaits' /\ State' = "ready"
      BY <1>1, <1>2, Ranges DEF TxInv, LineInv, SendWaits, State, Sending
<1>5. UNCHANGED <<FrameWaits, HandlesFrame, Answers, Sending, Work>>
      BY <1>2 DEF FrameWaits, HandlesFrame, Answers, Sending, Work
<1>6. FrameInv' /\ QueueInv'
  <2>1. Work \in Int /\ (Work < bus.difs => Work < bus'.difs)
        BY <1>1, <1>2, <1>3, Ranges DEF Work
  <2>2. QED BY <1>1, <1>2, <1>5, <2>1 DEF FrameInv, QueueInv, SendWaits, rxVars
<1>7. LineInv'
      BY <1>1, <1>2, <1>3, <1>4, Ranges DEF LineInv, rxVars
<1>8. TxInv' /\ SendsInv'
      BY <1>1, <1>2, <1>3, <1>4, <1>5 DEF TxInv, SendsInv
<1>9. CopyInv'
      BY <1>1, <1>2, <1>5, CopyKept DEF rxVars
<1>10. QED BY <1>6, <1>7, <1>8, <1>9 DEF Parts

LEMMA ClearTransmitterParts ==
  ASSUME Timely, IInv, ClearTransmitter
  PROVE  Parts'
<1>1. TypeInv /\ QueueInv /\ FrameInv /\ LineInv /\ TxInv /\ SendsInv /\ CopyInv
      BY DEF IInv, Parts
<1>2. /\ main.pc \in {"idle", "parsing"} /\ wire = 0 /\ tx.state # "busy"
      /\ main.pc = "idle" => events = << >>
      /\ tx' = Cleared(tx)
      /\ UNCHANGED <<bus, rxVars, events, main, wire, waited, sends, silence>>
      BY DEF ClearTransmitter, AppTurn, MayDisturb, Timely
<1>3. ~ SendWaits /\ ~ SendWaits'
      BY <1>1, <1>2, OneEvent DEF LineInv, SendWaits
<1>4. /\ tx'.state = "idle" /\ tx'.pos = 0 /\ tx'.count = 0 /\ tx'.max = 0
      BY <1>1, <1>2, Ranges DEF Cleared, Transmits
<1>5. UNCHANGED <<FrameWaits, HandlesFrame, Answers, Sending, Work>> /\ ~ Sending /\ State' = "idle"
      BY <1>2, <1>4 DEF FrameWaits, HandlesFrame, Answers, Sending, Work, State
<1>6. FrameInv' /\ QueueInv'
      BY <1>1, <1>2, <1>5 DEF FrameInv, QueueInv, SendWaits, rxVars
<1>7. LineInv'
      BY <1>1, <1>2, <1>3 DEF LineInv, rxVars
<1>8. TxInv' /\ SendsInv'
      BY <1>2, <1>4, <1>5 DEF TxInv, SendsInv, Answers
<1>9. CopyInv'
      BY <1>1, <1>2, <1>5, CopyKept DEF rxVars
<1>10. QED BY <1>6, <1>7, <1>8, <1>9 DEF Parts

LEMMA Stutter ==
  ASSUME IInv, UNCHANGED vars
  PROVE  Parts'
<1>1. UNCHANGED <<FrameWaits, SendWaits, HandlesFrame, Answers, Sending, Work, State, Unparsed>>
      BY DEF vars, FrameWaits, SendWaits, HandlesFrame, Answers, Sending, Work, State, Unparsed
<1>2. QueueInv' /\ FrameInv' /\ LineInv'
      BY <1>1 DEF IInv, Parts, vars, QueueInv, FrameInv, LineInv
<1>3. TxInv' /\ SendsInv' /\ CopyInv'
      BY <1>1 DEF IInv, Parts, vars, TxInv, SendsInv, CopyInv
<1>4. QED BY <1>2, <1>3 DEF Parts

LEMMA InvStep == Timely /\ IInv /\ [Next]_vars => IInv'
<1>1. SUFFICES ASSUME Timely, IInv, [Next]_vars PROVE Parts'
      BY TypeStep DEF IInv
<1>2. CASE Interrupt
      BY <1>1, <1>2, RecvByteParts, TimerExpiredParts, SendCompletedParts, TickParts DEF Interrupt
<1>3. CASE Poll
      BY <1>1, <1>3, PollReceivedParts, PollCopiedParts, PollParseParts, PollParsedParts,
         PollReadyParts, PollSentParts DEF Poll
<1>4. CASE Application
      BY <1>1, <1>4, SetTransmitterParts, DirectSendParts, DirectSentParts,
         SetTransmitterCacheParts, ClearTransmitterParts DEF Application
<1>5. CASE UNCHANGED vars
      BY <1>1, <1>5, Stutter
<1>6. QED BY <1>1, <1>2, <1>3, <1>4, <1>5 DEF Next

LEMMA AlwaysInv == Timely => (Spec => []IInv)
<1>1. SUFFICES ASSUME Timely PROVE Spec => []IInv
      OBVIOUS
<1>2. Init => IInv
      BY <1>1, PartsInit
<1>3. IInv /\ [Next]_vars => IInv'
      BY <1>1, InvStep
<1>4. QED BY <1>2, <1>3, PTL DEF Spec

-----------------------------------------------------------------------------
(* What follows from it.                                                   *)

\* A transmitter that waits for an answer has a message, and has sent it once
\* more than it was repeated.
LEMMA Awaited ==
  ASSUME IInv, tx.state = "wait_ack"
  PROVE  tx.pos = 1 /\ sends = tx.count + 1
<1>1. ~ Sending /\ wire = 0 /\ State = "wait_ack"
      BY Ranges DEF IInv, Parts, TxInv, State, Sending
<1>2. QED BY <1>1 DEF IInv, Parts, TxInv, SendsInv

\* A cached message goes out once and is repeated at most retrans_count times
\* (called_per_tick and poll against recv_byte, timer_expired and the calls of
\* the application).
THEOREM SendsAreBounded == Timely => (Spec => []SendsBounded)
<1>1. SUFFICES ASSUME Timely PROVE Spec => []SendsBounded
      OBVIOUS
<1>2. IInv => SendsBounded
  <2>1. SUFFICES ASSUME IInv, tx.pos = 1 PROVE sends <= tx.max + 1
        BY DEF SendsBounded
  <2>2. tx.count \in Nat /\ tx.max \in Nat /\ tx.count <= tx.max
        BY <2>1, Ranges DEF IInv, Parts, TxInv
  <2>3. sends \in {tx.count, tx.count + 1}
        BY <2>1 DEF IInv, Parts, SendsInv
  <2>4. QED BY <2>2, <2>3
<1>3. QED BY <1>1, <1>2, AlwaysInv, PTL

\* Every packet handed to the parser is the oldest frame received whole and not
\* parsed yet, unmixed and with its own length (poll's RECEIVED case against
\* recv_byte and timer_expired).
THEOREM EachFrameIsParsedOnce == Timely => (Spec => ParsedOnceInOrder)
<1>1. SUFFICES ASSUME Timely PROVE Spec => ParsedOnceInOrder
      OBVIOUS
<1> DEFINE P == /\ whole # <<>>
                /\ main.first = Head(whole).frame /\ main.second = Head(whole).frame
                /\ main.len = Head(whole).len
<1>2. IInv /\ PollParse => P
  <2>1. SUFFICES ASSUME IInv, PollParse PROVE P
        OBVIOUS
  <2> DEFINE f == [frame |-> rxbuf[processer].frame, len |-> rxbuf[processer].pos]
  <2>2. whole = <<f>> /\ main.first = f.frame /\ main.second = f.frame /\ main.len = f.len
        BY <2>1 DEF IInv, Parts, CopyInv, PollParse, Unparsed
  <2> HIDE DEF f
  <2>3. QED BY <2>2
<1>3. IInv /\ [Next]_vars => [PollParse => P]_vars
      BY <1>2
<1>4. QED BY <1>1, <1>3, AlwaysInv, PTL DEF Spec, ParsedOnceInOrder

\* The tick drops a cached message only when all its transmissions have been
\* made (called_per_tick).
THEOREM NoMessageIsDropped == Timely => (Spec => NoSilentDrop)
<1>1. SUFFICES ASSUME Timely PROVE Spec => NoSilentDrop
      OBVIOUS
<1>2. IInv /\ TickGiveUp /\ tx.pos = 1 => sends = tx.max + 1
  <2>1. SUFFICES ASSUME IInv, TickGiveUp, tx.pos = 1 PROVE sends = tx.max + 1
        OBVIOUS
  <2>2. sends = tx.count + 1
        BY <2>1, Awaited DEF TickGiveUp
  <2>3. tx.count \in Nat /\ tx.max \in Nat /\ tx.count <= tx.max
        BY <2>1, Ranges DEF IInv, Parts, TxInv
  <2>4. tx.count = tx.max
        BY <2>1, <2>3 DEF TickGiveUp, GivesUp
  <2>5. QED BY <2>2, <2>4
<1>3. IInv /\ [Next]_vars => [TickGiveUp /\ tx.pos = 1 => sends = tx.max + 1]_vars
      BY <1>2
<1>4. QED BY <1>1, <1>3, AlwaysInv, PTL DEF Spec, NoSilentDrop

\* A packet is presented as the answer to the cached message only when that
\* message is cached and has been sent (poll).
THEOREM AnswersMatchASend == Timely => (Spec => AckMatchesSend)
<1>1. SUFFICES ASSUME Timely PROVE Spec => AckMatchesSend
      OBVIOUS
<1>2. IInv /\ PollParse /\ tx.state = "wait_ack" => tx.pos = 1 /\ sends > 0
  <2>1. IInv => tx.count \in Nat
        BY Ranges DEF IInv
  <2>2. QED BY <2>1, Awaited
<1>3. IInv /\ [Next]_vars => [PollParse /\ tx.state = "wait_ack" => tx.pos = 1 /\ sends > 0]_vars
      BY <1>2
<1>4. QED BY <1>1, <1>3, AlwaysInv, PTL DEF Spec, AckMatchesSend

\* The right to send is claimed only after ops.difs ticks in which nobody used
\* the line (called_per_tick against every handler that hears or uses it).
THEOREM ClaimsKeepTheSilence == Timely => (Spec => ClaimsAfterSilence)
<1>1. SUFFICES ASSUME Timely PROVE Spec => ClaimsAfterSilence
      OBVIOUS
<1>2. IInv /\ bus.state = "idle" /\ Tick /\ bus'.state = "busy" => silence + 1 >= Difs
  <2>1. SUFFICES ASSUME IInv, bus.state = "idle", Tick, bus'.state = "busy"
        PROVE silence + 1 >= Difs
        OBVIOUS
  <2>2. bus.difs + silence >= Difs /\ bus.difs \in Nat /\ silence \in Nat /\ Difs \in Nat
        BY <2>1, Ranges DEF IInv, Parts, LineInv
  <2>3. NewDifs = 0
    <3>1. bus \in Buses
          BY <2>1, Ranges DEF IInv
    <3>2. ~ TickSuspended /\ ~ TickSilence
      <4>1. \A d : [bus EXCEPT !.difs = d].state = bus.state
            BY <3>1 DEF Buses
      <4>2. QED BY <2>1, <4>1 DEF TickSuspended, TickSilence
    <3>3. QED BY <2>1, <3>2 DEF Tick, TickGiveUp, TickBackoff
  <2>4. QED BY <2>2, <2>3 DEF NewDifs
<1>3. IInv /\ [Next]_vars =>
        [bus.state = "idle" /\ Tick /\ bus'.state = "busy" => silence + 1 >= Difs]_vars
      BY <1>2
<1>4. QED BY <1>1, <1>3, AlwaysInv, PTL DEF Spec, ClaimsAfterSilence
=============================================================================
