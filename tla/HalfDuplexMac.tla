---------------------------- MODULE HalfDuplexMac ----------------------------
(***************************************************************************)
(* common/media_access_control/serial/                                     *)
(*   halfduplex_serial_media_access_control.c: one station on a half-      *)
(* duplex serial line.  Three interrupt handlers (byte received, t3.5      *)
(* timer, system tick) and the transfer-complete handler run to completion *)
(* over a main loop that may be interrupted anywhere inside poll and       *)
(* inside the calls of the application.                                    *)
(*                                                                         *)
(* Time is counted in system ticks.  The wire, the timer hardware, the     *)
(* event queue and the application are the environment.                    *)
(***************************************************************************)
EXTENDS Naturals, Sequences, PingPong

CONSTANTS
  Difs,         \* ops.difs: ticks of silence before a transmission
  T35,          \* ticks from the last byte to the frame timer's interrupt
  Backoffs,     \* what _get_random_backoff may return
  Capacity,     \* recv_capacity
  Retrans,      \* the retrans_count arguments the application uses
  TxTypes,      \* the ops.tx_type a station may have been created with
  EventDepth,   \* environment: how many events the queue holds
  PollPeriod,   \* environment: an event waits at most this many ticks
  CarefulCaller,\* environment: no direct send and no clear during a send,
                \* no clear while an event waits, and a direct send
                \* only as the one reply receive_packet_parse makes
  LongPackets,  \* environment: a packet takes longer to send than t3.5
  MaxFrames,    \* bound: frames other stations put on the line
  MaxSends      \* bound: the sends of one message that are told apart

ASSUME TimingAssumption ==
  /\ {Difs, T35, Capacity} \subseteq Nat \ {0}
  /\ Backoffs # {} /\ Backoffs \subseteq Nat \ {0}
  /\ Retrans # {} /\ Retrans \subseteq Nat
  /\ TxTypes \subseteq {"polling", "dmaorint"}
  /\ CarefulCaller \in BOOLEAN /\ LongPackets \in BOOLEAN
  /\ {EventDepth, PollPeriod, MaxFrames, MaxSends} \subseteq Nat

VARIABLES
  bus,       \* struct mac_bus: state, difs, backoff_counter
  tx,        \* struct mac_transmit; pos is 1 while a message is cached, and
             \* type is ops.tx_type
  rxbuf,     \* the two struct mac_receive: state, pos, and whose frame it is
  pingpong,  \* struct pingpong_buffer
  preceiver, \* the buffer being filled
  processer, \* processer.preceiver: the buffer poll reads (NoBuffer at first)
  timer,     \* the t3.5 timer: ticks left, or Off
  events,    \* the event queue, oldest first
  main,      \* where the main loop is, and its locals
  wire,      \* transfers started and not completed (dmaorint)
  waited,    \* ticks since the main loop last finished an event
  frames,    \* how many frames have started on the line
  whole,     \* history: frames received whole and not yet parsed
  sends,     \* history: how often the cached message was sent
  silence    \* history: ticks since the line was last in use, up to Difs

vars == <<bus, tx, rxbuf, pingpong, preceiver, processer, timer, events, main,
          wire, waited, frames, whole, sends, silence>>
rxVars == <<rxbuf, pingpong, preceiver, processer, timer, frames, whole>>

NoBuffer == 2
Off == T35 + 1
Received == "received"
TransmitterReady == "transmitter_ready"

MainIdle == [pc |-> "idle", ret |-> "idle", old |-> "idle",
             src |-> 0, first |-> 0, second |-> 0, len |-> 0]

\* halfduplex_serial_media_access_controller_new
Init == /\ bus = [state |-> "idle", difs |-> Difs, backoff |-> 0]
        /\ tx \in [state : {"idle"}, pos : {0}, count : {0}, max : {0}, dma : {"idle"},
                  type : TxTypes]
        /\ rxbuf = [b \in Buffers |-> [state |-> "idle", pos |-> 0, frame |-> 0]]
        /\ pingpong = GetWriteBuf(NewHandler)
        /\ preceiver = pingpong.write
        /\ processer = NoBuffer
        /\ timer = Off
        /\ events = <<>>
        /\ main = MainIdle
        /\ wire = 0 /\ waited = 0 /\ frames = 0 /\ whole = <<>>
        /\ sends = 0 /\ silence = 0

\* ops.event_post: its result is ignored by every caller, so a full queue
\* loses the event.
EventPost(e) == events' = IF Len(events) < EventDepth THEN Append(events, e) ELSE events

ClearedBug(t) == [t EXCEPT !.pos = 0, !.count = 0, !.max = 0]
Cleared(t) == [t EXCEPT !.state = "idle", !.pos = 0, !.count = 0, !.max = 0]
UnlockedBug(b) == b
Unlocked(b) == [b EXCEPT !.state = "idle"]
Locked(b) == [b EXCEPT !.state = "busy"]
RecoveredBug(b) == Unlocked(b)
Recovered(b) == Unlocked([b EXCEPT !.difs = Difs])

\* The packet being sent is out: a frame it cut off has timed out by then.
PacketOut == LongPackets => timer = Off

-----------------------------------------------------------------------------
(* Interrupt handlers.                                                     *)

\* timer_ctrl(true): start the frame timer, from its reload value.
Rearm == timer' = T35

(* ..._recv_byte.  A byte heard while sending is the echo of the station's *)
(* own transmission: it is skipped and changes nothing here.               *)
FirstByte == /\ rxbuf[preceiver].state = "idle"
             /\ frames < MaxFrames
             /\ frames' = frames + 1
             /\ rxbuf' = [rxbuf EXCEPT ![preceiver] =
                            [state |-> "busy", pos |-> 1, frame |-> frames']]
             /\ Rearm

HasRoomBug == rxbuf[preceiver].pos <= Capacity
HasRoom == rxbuf[preceiver].pos < Capacity
NextByte == /\ rxbuf[preceiver].state = "busy"
            /\ rxbuf' = IF HasRoom
                        THEN [rxbuf EXCEPT ![preceiver].pos = @ + 1]
                        ELSE [rxbuf EXCEPT ![preceiver].state = "error"]
            /\ Rearm
            /\ UNCHANGED frames

DroppedByte == /\ rxbuf[preceiver].state = "error"
               /\ Rearm
               /\ UNCHANGED <<rxbuf, frames>>

RecvByte == /\ tx.state # "busy"
            /\ bus' = Locked(bus)
            /\ FirstByte \/ NextByte \/ DroppedByte
            /\ silence' = 0
            /\ UNCHANGED <<tx, pingpong, preceiver, processer, events, main, wire,
                           waited, whole, sends>>

\* The frame in r arrived without overflow.
IntactBug(r) == r.state # "idle"
Intact(r) == r.state = "busy"

\* The buffer just filled is handed to poll, then the other one is taken.
HandOverBug(pp) == GetReadBuf(GetWriteBuf(SetWriteDone(pp)))
HandOver(pp) == GetWriteBuf(GetReadBuf(SetWriteDone(pp)))

\* ..._timer_expired: the frame is complete.
TimerExpired ==
  /\ timer = 0
  /\ timer' = Off
  /\ LET pp   == HandOver(pingpong)
         bufs == [rxbuf EXCEPT ![pp.write].state = "idle"]
     IN  /\ processer' = pp.read
         /\ preceiver' = pp.write
         /\ rxbuf' = [bufs EXCEPT ![pp.read].state = "idle"]
         /\ IF Intact(bufs[pp.read]) THEN EventPost(Received) /\ pingpong' = pp
            ELSE UNCHANGED events /\ pingpong' = SetReadDone(pp)
  /\ whole' = IF rxbuf[preceiver].state = "busy"
              THEN Append(whole, [frame |-> rxbuf[preceiver].frame,
                                  len |-> rxbuf[preceiver].pos])
              ELSE whole
  /\ bus' = Recovered(bus)
  /\ UNCHANGED <<tx, main, wire, waited, frames, sends, silence>>

\* ..._dmaorint_send_completed
SendCompleted == /\ wire > 0 /\ PacketOut
                 /\ wire' = wire - 1
                 /\ tx' = [tx EXCEPT !.state = tx.dma]
                 /\ bus' = Unlocked(bus)
                 /\ silence' = 0
                 /\ UNCHANGED <<rxVars, events, main, waited, sends>>

(* ..._called_per_tick, in the order of its early exits.                   *)
SuspendedBug == bus.state = "busy" \/ tx.state = "idle"
Suspended == bus.state = "busy" \/ tx.state \in {"idle", "busy"}
NewDifs == IF bus.difs > 0 THEN bus.difs - 1 ELSE 0
\* Mutant: one send too many.
GivesUpLate == tx.max = 0 \/ tx.count > tx.max
\* Mutant: one send too few.
GivesUpEarly == tx.max = 0 \/ tx.count + 1 >= tx.max
GivesUp == tx.max = 0 \/ tx.count + 1 > tx.max
TickedTxBug == [tx EXCEPT !.state = "ready"]
TickedTx == IF tx.state = "wait_ack"
            THEN [tx EXCEPT !.count = @ + 1, !.state = "ready"] ELSE tx

TickSuspended == Suspended /\ UNCHANGED <<bus, tx, events>>
TickSilence == /\ ~Suspended /\ NewDifs > 0
               /\ bus' = [bus EXCEPT !.difs = NewDifs]
               /\ UNCHANGED <<tx, events>>
TickGiveUp == /\ ~Suspended /\ NewDifs = 0
              /\ tx.state = "wait_ack" /\ GivesUp
              /\ tx' = Cleared(tx)
              /\ bus' = [bus EXCEPT !.difs = 0]
              /\ UNCHANGED events
TickBackoff == /\ ~Suspended /\ NewDifs = 0
               /\ ~(tx.state = "wait_ack" /\ GivesUp)
               /\ tx' = TickedTx
               /\ \/ /\ bus.backoff = 0
                     /\ \E n \in Backoffs :
                          bus' = [bus EXCEPT !.difs = 0, !.backoff = n]
                     /\ UNCHANGED events
                  \/ /\ bus.backoff > 1
                     /\ bus' = [bus EXCEPT !.difs = 0, !.backoff = @ - 1]
                     /\ UNCHANGED events
                  \/ /\ bus.backoff = 1
                     /\ EventPost(TransmitterReady)
                     /\ bus' = Locked([bus EXCEPT !.difs = 0, !.backoff = 0])

\* The main loop has something to do and is not waiting for the wire.
MainBehind == /\ events # <<>> \/ main.pc # "idle"
              /\ main.pc \notin {"sending", "replying"}

Tick == /\ timer # 0
        /\ MainBehind => waited < PollPeriod
        /\ TickSuspended \/ TickSilence \/ TickGiveUp \/ TickBackoff
        /\ timer' = IF timer = Off THEN Off ELSE timer - 1
        /\ waited' = IF MainBehind THEN waited + 1 ELSE waited
        /\ silence' = IF silence < Difs THEN silence + 1 ELSE silence
        /\ UNCHANGED <<rxbuf, pingpong, preceiver, processer, main, wire, frames,
                       whole, sends>>

-----------------------------------------------------------------------------
(* ..._poll, received event: memcpy out of processer.preceiver in two      *)
(* halves, the length re-read, the buffer released, the packet parsed.     *)
PollReceived == /\ main.pc = "idle" /\ events # <<>> /\ Head(events) = Received
                /\ events' = Tail(events)
                /\ main' = [main EXCEPT !.pc = "copying", !.src = processer,
                                        !.first = rxbuf[processer].frame]
                /\ UNCHANGED <<bus, tx, rxVars, wire, waited, sends, silence>>

PollCopied == /\ main.pc = "copying"
              /\ main' = [main EXCEPT !.pc = "copied", !.second = rxbuf[main.src].frame,
                                      !.len = rxbuf[processer].pos]
              /\ UNCHANGED <<bus, tx, rxVars, events, wire, waited, sends, silence>>

PollParse == /\ main.pc = "copied"
             /\ pingpong' = SetReadDone(pingpong)
             /\ main' = [MainIdle EXCEPT !.pc = "parsing"]
             /\ whole' = IF whole = <<>> THEN whole ELSE Tail(whole)
             /\ UNCHANGED <<bus, tx, rxbuf, preceiver, processer, timer, events, wire,
                            waited, frames, sends, silence>>

\* receive_packet_parse returns.
PollParsed == /\ main.pc = "parsing"
              /\ main' = MainIdle
              /\ waited' = 0
              /\ UNCHANGED <<bus, tx, rxVars, events, wire, sends, silence>>

(* ..._poll, transmitter ready event.                                      *)
PollReady ==
  /\ main.pc = "idle" /\ events # <<>> /\ Head(events) = TransmitterReady
  /\ events' = Tail(events)
  /\ bus' = [bus EXCEPT !.difs = Difs]
  /\ sends' = IF sends < MaxSends THEN sends + 1 ELSE sends
  /\ silence' = 0
  /\ IF tx.type = "polling"
     THEN /\ tx' = [tx EXCEPT !.state = "busy"]
          /\ main' = [main EXCEPT !.pc = "sending"]
          /\ UNCHANGED <<wire, waited>>
     ELSE /\ tx' = [tx EXCEPT !.state = "busy", !.dma = "wait_ack"]
          /\ wire' = wire + 1
          /\ waited' = 0
          /\ UNCHANGED main
  /\ UNCHANGED rxVars

\* A polling serial_post returns: the packet is out.
PollSent == /\ main.pc = "sending" /\ PacketOut
            /\ tx' = [tx EXCEPT !.state = "wait_ack"]
            /\ bus' = Unlocked(bus)
            /\ main' = MainIdle
            /\ waited' = 0 /\ silence' = 0
            /\ UNCHANGED <<rxVars, events, wire, sends>>

-----------------------------------------------------------------------------
(* The application, in the main loop or inside receive_packet_parse.       *)

MaxTransfers == 2  \* bound: transfers the serial driver accepts at once
AppTurn == main.pc \in {"idle", "parsing"}
MayDisturb == CarefulCaller => /\ wire = 0 /\ tx.state # "busy"
                               /\ main.pc = "idle" => events = <<>>

(* ..._set_transmitter: the state is read, then overwritten, the packet    *)
(* sent, the state restored.                                               *)
SetTransmitter == /\ AppTurn /\ MayDisturb
                  /\ CarefulCaller => main.pc = "parsing" /\ main.ret = "idle"
                  /\ main' = [main EXCEPT !.pc = "direct", !.ret = main.pc,
                        !.old = IF tx.state = "busy" THEN "wait_ack" ELSE tx.state]
                  /\ UNCHANGED <<bus, tx, rxVars, events, wire, waited, sends, silence>>

\* Back in the caller; ret remembers that the parser has replied.
BackTo(pc) == [MainIdle EXCEPT !.pc = pc, !.ret = pc]

DirectSend ==
  /\ main.pc = "direct"
  /\ silence' = 0
  /\ IF tx.type = "polling"
     THEN /\ bus' = Locked(bus)
          /\ tx' = [tx EXCEPT !.state = "busy"]
          /\ main' = [main EXCEPT !.pc = "replying"]
          /\ UNCHANGED wire
     ELSE /\ wire < MaxTransfers
          /\ bus' = Locked([bus EXCEPT !.difs = Difs])
          /\ tx' = [tx EXCEPT !.state = "busy", !.dma = main.old]
          /\ main' = BackTo(main.ret)
          /\ wire' = wire + 1
  /\ UNCHANGED <<rxVars, events, waited, sends>>

DirectSent == /\ main.pc = "replying" /\ PacketOut
              /\ tx' = [tx EXCEPT !.state = main.old]
              /\ bus' = Recovered(bus)
              /\ main' = BackTo(main.ret)
              /\ silence' = 0
              /\ UNCHANGED <<rxVars, events, wire, waited, sends>>

\* ..._set_transmitter_cache; elsewhere it returns TRANS_BUSY and does nothing.
SetTransmitterCache(retrans) ==
  /\ AppTurn
  /\ tx.state = "idle"
  /\ bus' = [bus EXCEPT !.difs = Difs]
  /\ tx' = [state |-> "ready", pos |-> 1, count |-> 0, max |-> retrans,
            dma |-> tx.dma, type |-> tx.type]
  /\ sends' = 0
  /\ UNCHANGED <<rxVars, events, main, wire, waited, silence>>

\* ..._clear_transmitter
ClearTransmitter == /\ AppTurn /\ MayDisturb
                    /\ tx' = Cleared(tx)
                    /\ UNCHANGED <<bus, rxVars, events, main, wire, waited, sends, silence>>

-----------------------------------------------------------------------------
Interrupt == RecvByte \/ TimerExpired \/ SendCompleted \/ Tick
Poll == PollReceived \/ PollCopied \/ PollParse \/ PollParsed \/ PollReady \/ PollSent
Application == \/ SetTransmitter \/ DirectSend \/ DirectSent
               \/ \E r \in Retrans : SetTransmitterCache(r)
               \/ ClearTransmitter
Next == Interrupt \/ Poll \/ Application

Spec == Init /\ [][Next]_vars

(* The clock runs, armed interrupts fire, a transfer ends, and the main    *)
(* loop comes back to poll however often the application calls in between. *)
Fairness == /\ SF_vars(Tick) /\ WF_vars(TimerExpired) /\ WF_vars(SendCompleted)
            /\ SF_vars(PollReceived) /\ SF_vars(PollReady) /\ SF_vars(PollParsed)
            /\ WF_vars(PollCopied \/ PollParse \/ PollSent \/ DirectSend \/ DirectSent)
FairSpec == Spec /\ Fairness

-----------------------------------------------------------------------------
TxStates == {"idle", "ready", "busy", "wait_ack"}
MainPcs == {"idle", "copying", "copied", "parsing", "sending", "direct", "replying"}
Buses == [state : {"idle", "busy"}, difs : 0 .. Difs, backoff : Nat]
Transmits ==
  [state : TxStates, pos : {0, 1}, count : Nat, max : Nat, dma : TxStates, type : TxTypes]
BusType == bus \in Buses
TransmitType == tx \in Transmits
ReceiveType ==
  /\ rxbuf \in [Buffers -> [state : {"idle", "busy", "error"}, pos : 0 .. Capacity,
                            frame : 0 .. MaxFrames]]
  /\ pingpong \in Handlers
  /\ preceiver \in Buffers /\ processer \in Buffers \cup {NoBuffer}
  /\ timer \in 0 .. Off /\ frames \in 0 .. MaxFrames
EventsType ==
  /\ events \in Seq({Received, TransmitterReady}) /\ Len(events) <= EventDepth
  /\ processer = NoBuffer => \A i \in 1 .. Len(events) : events[i] # Received
MainType ==
  /\ main \in [pc : MainPcs, ret : {"idle", "parsing"}, old : TxStates, src : Buffers,
               first : Nat, second : Nat, len : Nat]
  /\ main.pc \in {"copying", "copied"} => processer # NoBuffer
CountsType == /\ wire \in Nat /\ waited \in 0 .. PollPeriod
              /\ sends \in 0 .. MaxSends /\ silence \in 0 .. Difs

\* Every field keeps its range; no byte is stored beyond recv_capacity, and
\* poll reads processer only when it designates a buffer.
TypeOK == BusType /\ TransmitType /\ ReceiveType /\ EventsType /\ MainType /\ CountsType

(* Every packet handed to receive_packet_parse is the oldest frame that    *)
(* was received whole and not yet parsed: unmixed although the receive     *)
(* interrupt fills the other buffer during the copy, with its own length,  *)
(* once (poll's RECEIVED case against timer_expired).                      *)
ParsedOnceInOrder ==
  [][PollParse => /\ whole # <<>>
                  /\ main.first = Head(whole).frame /\ main.second = Head(whole).frame
                  /\ main.len = Head(whole).len]_vars

(* The cached message goes out once and is repeated at most retrans_count  *)
(* times: no event is acted on twice, whatever interleaves.                *)
SendsBounded == tx.pos = 1 => sends <= tx.max + 1

(* The tick never drops a message the application cached and did not       *)
(* clear before all its transmissions have been made.                      *)
NoSilentDrop == [][TickGiveUp /\ tx.pos = 1 => sends = tx.max + 1]_vars

(* A packet is presented as the answer to the cached message (trans_buf    *)
(* not NULL) only when that message is cached and has been sent.           *)
AckMatchesSend == [][PollParse /\ tx.state = "wait_ack" => tx.pos = 1 /\ sends > 0]_vars

(* The right to send is claimed only after ops.difs ticks in which nobody, *)
(* this station included, used the line.                                   *)
ClaimsAfterSilence == [][bus.state = "idle" /\ Tick /\ bus'.state = "busy"
                          => silence + 1 >= Difs]_vars

(* The interrupt never fills the buffer that was handed to poll last,      *)
(* however late poll is (pingpong_buffer_get_write_buf).                   *)
FillsOtherBuffer == preceiver # processer

(* If other stations do not jam the line for ever, a cached message is     *)
(* settled: sent and answered, or sent as often as asked and dropped.  The *)
(* lock the tick takes on the bus is always given back.                    *)
LineFallsSilent == []<>(timer = Off)
MessageSettled == LineFallsSilent => (tx.state = "ready" ~> tx.state = "idle")
=============================================================================
