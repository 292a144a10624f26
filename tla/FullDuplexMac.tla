---------------------------- MODULE FullDuplexMac ----------------------------
(***************************************************************************)
(* common/media_access_control/serial/                                     *)
(*   fullduplex_serial_media_access_contorl.c: one station of a full-      *)
(* duplex serial link.  The byte, frame-timer, tick and transfer-complete  *)
(* interrupts run to completion over a main loop that may be interrupted   *)
(* anywhere inside poll and inside set_transmitter.  Receiving and sending *)
(* share no lock: only the tick paces the transmitter.                     *)
(*                                                                         *)
(* The link, the timer hardware, the event queue and the application are   *)
(* the environment.                                                        *)
(***************************************************************************)
EXTENDS Naturals, Sequences, PingPong

CONSTANTS
  Difs,         \* difs_default: ticks from one packet to the next
  AckTicks,     \* the wait_ack_ticks arguments the application uses
  Retrans,      \* the retrans_count arguments the application uses
  Capacity,     \* recv_capacity
  TxTypes,      \* the ops.tx_type a station may have been created with
  EventDepth,   \* environment: how many events the queue holds
  PollPeriod,   \* environment: an event waits at most this many ticks
  T35,          \* environment: ticks from the last byte to the timer interrupt
                \* (a blocking send included)
  DirectTypes,  \* environment: the tx_types with which the parser replies
                \* through set_transmitter
  TickMasked,   \* environment: no tick falls where set_transmitter has read the
                \* state and not yet set its own, or restored it and not yet
                \* restarted difs; the code masks nothing there
  MaxFrames,    \* bound: frames the peer sends
  MaxSends      \* bound: the sends of one message that are told apart

ASSUME ParameterAssumption ==
  /\ {Difs, T35, Capacity} \subseteq Nat \ {0}
  /\ AckTicks # {} /\ AckTicks \subseteq Nat
  /\ Retrans # {} /\ Retrans \subseteq Nat
  /\ TxTypes \subseteq {"polling", "dmaorint"} /\ DirectTypes \subseteq TxTypes
  /\ TickMasked \in BOOLEAN
  /\ {EventDepth, PollPeriod, MaxFrames, MaxSends} \subseteq Nat

VARIABLES
  difs,      \* mac.difs
  tx,        \* struct mac_transmit; pos is 1 while a message is cached, and
             \* type is ops.tx_type
  rxbuf,     \* the two struct mac_receive: state, pos, and whose frame it is
  pingpong,  \* struct pingpong_buffer
  preceiver, \* the buffer being filled
  processer, \* processer.preceiver (NoBuffer at first)
  timer,     \* the t3.5 timer: ticks left, or Off
  events,    \* the event queue, oldest first
  main,      \* where the main loop is, and its locals
  wire,      \* a transfer is running (dmaorint)
  waited,    \* ticks since the main loop last finished an event
  frames,    \* how many frames have started
  whole,     \* history: frames received whole and not yet parsed
  sends,     \* history: how often the cached message was sent
  since      \* history: ticks since the cached message was last sent, capped

vars == <<difs, tx, rxbuf, pingpong, preceiver, processer, timer, events, main,
          wire, waited, frames, whole, sends, since>>
rxVars == <<rxbuf, pingpong, preceiver, processer, timer, frames, whole>>

NoBuffer == 2
Off == T35 + 1
Received == "received"
TransmitterReady == "transmitter_ready"
MaxSince == 1 + CHOOSE n \in AckTicks : \A m \in AckTicks : m <= n

MainIdle == [pc |-> "idle", ret |-> "idle", old |-> "idle",
             src |-> 0, first |-> 0, second |-> 0, len |-> 0]

\* fullduplex_serial_media_access_controller_new
Init == /\ difs = Difs
        /\ tx \in [state : {"idle"}, pos : {0}, count : {0}, max : {0}, ack : {0},
                  cur : {0}, type : TxTypes]
        /\ rxbuf = [b \in Buffers |-> [state |-> "idle", pos |-> 0, frame |-> 0]]
        /\ pingpong = GetWriteBuf(NewHandler)
        /\ preceiver = pingpong.write
        /\ processer = NoBuffer
        /\ timer = Off
        /\ events = <<>>
        /\ main = MainIdle
        /\ wire = FALSE /\ waited = 0 /\ frames = 0 /\ whole = <<>>
        /\ sends = 0 /\ since = 0

\* ops.event_post: no caller looks at its result, a full queue loses the event.
EventPost(e) == events' = IF Len(events) < EventDepth THEN Append(events, e) ELSE events

\* _clear_transmitter
ClearedBug(t) == [t EXCEPT !.pos = 0, !.count = 0, !.max = 0, !.ack = 0, !.cur = 0]
Cleared(t) == [t EXCEPT !.pos = 0, !.count = 0, !.max = 0, !.ack = 0, !.cur = 0,
                        !.state = "idle"]

-----------------------------------------------------------------------------
(* The receive interrupts.                                                 *)

\* timer_ctrl(true)
Rearm == timer' = T35

\* ..._recv_byte, by the state of the buffer.
FirstByte == /\ rxbuf[preceiver].state = "idle"
             /\ frames < MaxFrames
             /\ frames' = frames + 1
             /\ rxbuf' = [rxbuf EXCEPT ![preceiver] =
                            [state |-> "busy", pos |-> 1, frame |-> frames']]
HasRoomBug == rxbuf[preceiver].pos <= Capacity
HasRoom == rxbuf[preceiver].pos < Capacity
NextByte == /\ rxbuf[preceiver].state = "busy"
            /\ rxbuf' = IF HasRoom
                        THEN [rxbuf EXCEPT ![preceiver].pos = @ + 1]
                        ELSE [rxbuf EXCEPT ![preceiver].state = "error"]
            /\ UNCHANGED frames
DroppedByte == /\ rxbuf[preceiver].state = "error"
               /\ UNCHANGED <<rxbuf, frames>>
RecvByte == /\ FirstByte \/ NextByte \/ DroppedByte
            /\ Rearm
            /\ UNCHANGED <<difs, tx, pingpong, preceiver, processer, events, main, wire,
                           waited, whole, sends, since>>

\* The frame in r arrived without overflow.
IntactBug(r) == r.state # "idle"
Intact(r) == r.state = "busy"

\* ..._timer_expired
TimerExpired ==
  /\ timer = 0
  /\ timer' = Off
  /\ LET pp   == GetWriteBuf(GetReadBuf(SetWriteDone(pingpong)))
         bufs == [rxbuf EXCEPT ![pp.write].state = "idle"]
     IN  /\ processer' = pp.read
         /\ preceiver' = pp.write
         /\ rxbuf' = [bufs EXCEPT ![pp.read].state = "idle"]
         /\ IF Intact(bufs[pp.read]) THEN EventPost(Received) /\ pingpong' = pp
            ELSE UNCHANGED events /\ pingpong' = SetReadDone(pp)
  /\ whole' = IF rxbuf[preceiver].state = "busy"
              THEN Append(whole, [frame |-> rxbuf[preceiver].frame,
                                  len |-> rxbuf[preceiver].pos])
              ELSE whole
  /\ UNCHANGED <<difs, tx, main, wire, waited, frames, sends, since>>

-----------------------------------------------------------------------------
(* The transmitter's interrupts.                                           *)

\* ..._dmaorint_send_completed
SendCompleted == /\ wire
                 /\ wire' = FALSE
                 /\ tx' = [tx EXCEPT !.state = "wait_ack"]
                 /\ difs' = Difs
                 /\ since' = 0
                 /\ UNCHANGED <<rxVars, events, main, waited, sends>>

\* ..._called_per_tick, in the order of its early exits.
SuspendedBug == tx.state = "idle"
Suspended == tx.state \in {"idle", "busy"}
NextCur == IF tx.cur < tx.ack THEN tx.cur + 1 ELSE tx.cur
StillWaiting == NextCur < tx.ack
\* Mutant: one send too many.
GivesUpLate == tx.max = 0 \/ tx.count > tx.max
\* Mutant: one send too few.
GivesUpEarly == tx.max = 0 \/ tx.count + 1 >= tx.max
GivesUp == tx.max = 0 \/ tx.count >= tx.max

TickSuspended == Suspended /\ UNCHANGED <<difs, tx, events>>
TickGap == /\ ~Suspended /\ difs > 0
           /\ difs' = difs - 1
           /\ UNCHANGED <<tx, events>>
TickReadyBug == /\ ~Suspended /\ difs = 0 /\ tx.state = "ready"
                /\ EventPost(TransmitterReady)
                /\ UNCHANGED <<difs, tx>>
TickReady == /\ ~Suspended /\ difs = 0 /\ tx.state = "ready"
             /\ tx' = [tx EXCEPT !.state = "busy"]
             /\ EventPost(TransmitterReady)
             /\ UNCHANGED difs
TickWait == /\ ~Suspended /\ difs = 0 /\ tx.state = "wait_ack" /\ StillWaiting
            /\ tx' = [tx EXCEPT !.cur = NextCur]
            /\ UNCHANGED <<difs, events>>
TickGiveUp == /\ ~Suspended /\ difs = 0 /\ tx.state = "wait_ack" /\ ~StillWaiting
              /\ GivesUp
              /\ tx' = Cleared(tx)
              /\ UNCHANGED <<difs, events>>
TickRetryBug == /\ ~Suspended /\ difs = 0 /\ tx.state = "wait_ack" /\ ~StillWaiting
                /\ ~GivesUp
                /\ tx' = [tx EXCEPT !.count = @ + 1, !.cur = NextCur, !.state = "ready"]
                /\ UNCHANGED <<difs, events>>
TickRetry == /\ ~Suspended /\ difs = 0 /\ tx.state = "wait_ack" /\ ~StillWaiting
             /\ ~GivesUp
             /\ tx' = [tx EXCEPT !.count = @ + 1, !.cur = 0, !.state = "ready"]
             /\ UNCHANGED <<difs, events>>

\* The main loop has something to do.
MainBehind == events # <<>> \/ main.pc # "idle"

Tick == /\ timer # 0
        /\ MainBehind => waited < PollPeriod
        /\ TickMasked => main.pc \notin {"direct", "replied"}
        /\ TickSuspended \/ TickGap \/ TickReady \/ TickWait \/ TickGiveUp \/ TickRetry
        /\ timer' = IF timer = Off THEN Off ELSE timer - 1
        /\ waited' = IF MainBehind THEN waited + 1 ELSE waited
        /\ since' = IF since < MaxSince THEN since + 1 ELSE since
        /\ UNCHANGED <<rxbuf, pingpong, preceiver, processer, main, wire, frames,
                       whole, sends>>

-----------------------------------------------------------------------------
(* ..._poll, received event: the copy in two halves, the length re-read,   *)
(* the buffer released, the packet parsed.                                 *)
PollReceived == /\ main.pc = "idle" /\ events # <<>> /\ Head(events) = Received
                /\ events' = Tail(events)
                /\ main' = [main EXCEPT !.pc = "copying", !.src = processer,
                                        !.first = rxbuf[processer].frame]
                /\ UNCHANGED <<difs, tx, rxVars, wire, waited, sends, since>>

PollCopied == /\ main.pc = "copying"
              /\ main' = [main EXCEPT !.pc = "copied", !.second = rxbuf[main.src].frame,
                                      !.len = rxbuf[processer].pos]
              /\ UNCHANGED <<difs, tx, rxVars, events, wire, waited, sends, since>>

PollParse == /\ main.pc = "copied"
             /\ pingpong' = SetReadDone(pingpong)
             /\ main' = [MainIdle EXCEPT !.pc = "parsing"]
             /\ whole' = IF whole = <<>> THEN whole ELSE Tail(whole)
             /\ UNCHANGED <<difs, tx, rxbuf, preceiver, processer, timer, events, wire,
                            waited, frames, sends, since>>

\* receive_packet_parse returns.
PollParsed == /\ main.pc = "parsing"
              /\ main' = MainIdle
              /\ waited' = 0
              /\ UNCHANGED <<difs, tx, rxVars, events, wire, sends, since>>

\* ..._poll, transmitter ready event.
PollReady ==
  /\ main.pc = "idle" /\ events # <<>> /\ Head(events) = TransmitterReady
  /\ ~wire
  /\ events' = Tail(events)
  /\ sends' = IF sends < MaxSends THEN sends + 1 ELSE sends
  /\ since' = 0
  /\ tx' = [tx EXCEPT !.state = "busy"]
  /\ IF tx.type = "polling"
     THEN main' = [main EXCEPT !.pc = "sending"] /\ UNCHANGED <<wire, waited>>
     ELSE wire' = TRUE /\ waited' = 0 /\ UNCHANGED main
  /\ UNCHANGED <<difs, rxVars>>

\* A polling serial_post returns; then difs is restarted.
PollSent == /\ main.pc = "sending"
            /\ tx' = [tx EXCEPT !.state = "wait_ack"]
            /\ main' = [main EXCEPT !.pc = "sent"]
            /\ since' = 0
            /\ UNCHANGED <<difs, rxVars, events, wire, waited, sends>>

PollGap == /\ main.pc = "sent"
           /\ difs' = Difs
           /\ main' = MainIdle
           /\ waited' = 0
           /\ UNCHANGED <<tx, rxVars, events, wire, sends, since>>

-----------------------------------------------------------------------------
(* The application, in the main loop or inside receive_packet_parse.       *)
AppTurn == main.pc \in {"idle", "parsing"}

\* ..._set_transmitter: the state is read and overwritten, the packet sent,
\* the state restored, difs restarted.
SetTransmitter == /\ main.pc = "parsing" /\ tx.type \in DirectTypes /\ ~wire
                  /\ main.ret = "idle"
                  /\ main' = [main EXCEPT !.pc = "direct", !.ret = main.pc,
                        !.old = IF tx.state = "busy" THEN "wait_ack" ELSE tx.state]
                  /\ UNCHANGED <<difs, tx, rxVars, events, wire, waited, sends, since>>

DirectSend == /\ main.pc = "direct"
              /\ tx' = [tx EXCEPT !.state = "busy"]
              /\ main' = [main EXCEPT !.pc = "replying"]
              /\ wire' = (tx.type = "dmaorint")
              /\ UNCHANGED <<difs, rxVars, events, waited, sends, since>>

\* serial_post returns: at once, or when the packet is out (polling).
DirectSent == /\ main.pc = "replying"
              /\ tx' = [tx EXCEPT !.state = main.old]
              /\ main' = [main EXCEPT !.pc = "replied"]
              /\ UNCHANGED <<difs, rxVars, events, wire, waited, sends, since>>

\* Back in the caller; ret remembers that the parser has replied.
DirectGap == /\ main.pc = "replied"
             /\ difs' = Difs
             /\ main' = [MainIdle EXCEPT !.pc = main.ret, !.ret = main.ret]
             /\ UNCHANGED <<tx, rxVars, events, wire, waited, sends, since>>

\* ..._set_transmitter_cache; elsewhere it returns TRANS_BUSY and does nothing.
SetTransmitterCache(retrans, ack) ==
  /\ AppTurn
  /\ tx.state = "idle"
  /\ difs' = Difs
  /\ tx' = [state |-> "ready", pos |-> 1, count |-> 0, max |-> retrans,
            ack |-> ack, cur |-> 0, type |-> tx.type]
  /\ sends' = 0 /\ since' = 0
  /\ UNCHANGED <<rxVars, events, main, wire, waited>>

\* ..._clear_transmitter; the application calls it outside a transmission
\* and not while a ready event waits, which the call would not withdraw.
ClearTransmitter == /\ AppTurn /\ tx.state # "busy" /\ ~wire
                    /\ \A i \in 1 .. Len(events) : events[i] # TransmitterReady
                    /\ tx' = Cleared(tx)
                    /\ UNCHANGED <<difs, rxVars, events, main, wire, waited, sends, since>>

-----------------------------------------------------------------------------
Interrupt == RecvByte \/ TimerExpired \/ SendCompleted \/ Tick
Poll == \/ PollReceived \/ PollCopied \/ PollParse \/ PollParsed
        \/ PollReady \/ PollSent \/ PollGap
Application == \/ SetTransmitter \/ DirectSend \/ DirectSent \/ DirectGap
               \/ \E r \in Retrans, a \in AckTicks : SetTransmitterCache(r, a)
               \/ ClearTransmitter
Next == Interrupt \/ Poll \/ Application

Spec == Init /\ [][Next]_vars

(* The clock runs, armed interrupts fire, a transfer ends, and the main    *)
(* loop comes back to poll however often the application calls in between. *)
Fairness == /\ SF_vars(Tick) /\ WF_vars(TimerExpired) /\ WF_vars(SendCompleted)
            /\ SF_vars(PollReceived) /\ SF_vars(PollReady) /\ SF_vars(PollParsed)
            /\ WF_vars(PollCopied \/ PollParse \/ PollSent \/ PollGap)
            /\ WF_vars(DirectSend \/ DirectSent \/ DirectGap)
FairSpec == Spec /\ Fairness

-----------------------------------------------------------------------------
TxStates == {"idle", "ready", "busy", "wait_ack"}
MainPcs == {"idle", "copying", "copied", "parsing", "sending", "sent",
            "direct", "replying", "replied"}

\* Every field keeps its range; no byte is stored beyond recv_capacity.
TypeOK ==
  /\ difs \in 0 .. Difs
  /\ tx \in [state : TxStates, pos : {0, 1}, count : Nat, max : Nat, ack : Nat, cur : Nat,
            type : TxTypes]
  /\ tx.cur <= tx.ack
  /\ rxbuf \in [Buffers -> [state : {"idle", "busy", "error"}, pos : 0 .. Capacity,
                            frame : 0 .. MaxFrames]]
  /\ pingpong \in Handlers
  /\ preceiver \in Buffers /\ processer \in Buffers \cup {NoBuffer}
  /\ timer \in 0 .. Off
  /\ events \in Seq({Received, TransmitterReady}) /\ Len(events) <= EventDepth
  /\ main.pc \in MainPcs /\ main.old \in TxStates
  /\ wire \in BOOLEAN /\ waited \in 0 .. PollPeriod

(* Every packet handed to receive_packet_parse is the oldest frame that    *)
(* was received whole and not yet parsed: unmixed, with its own length,    *)
(* once (poll's RECEIVED case against recv_byte and timer_expired).        *)
ParsedOnceInOrder ==
  [][PollParse => /\ whole # <<>>
                  /\ main.first = Head(whole).frame /\ main.second = Head(whole).frame
                  /\ main.len = Head(whole).len]_vars

(* The cached message goes out once and is repeated at most retrans_count  *)
(* times: one ready event is outstanding at a time.                        *)
SendsBounded == tx.pos = 1 => sends <= tx.max + 1

(* The tick never drops a message the application cached and did not       *)
(* clear before all its transmissions have been made.                      *)
NoSilentDrop == [][TickGiveUp /\ tx.pos = 1 => sends = tx.max + 1]_vars

(* A message is repeated or given up only after the answer had             *)
(* wait_ack_ticks to come, counted from the end of its last transmission.  *)
AnswerHasTime ==
  [][(TickRetry \/ TickGiveUp) /\ tx.pos = 1 => since + 1 >= tx.ack]_vars

(* A ready event in the queue always finds the transmitter it was posted   *)
(* for: with a message cached and suspended until the event is handled.    *)
EventHasMessage ==
  (\E i \in 1 .. Len(events) : events[i] = TransmitterReady)
     => tx.pos = 1 /\ tx.state # "ready"

(* The sends are sound: fields in their ranges, no byte beyond the         *)
(* capacity, one ready event for one send of the message it was posted for.*)
SendsSound == TypeOK /\ SendsBounded /\ EventHasMessage

\* A cached message is settled: answered and cleared, or sent as often as
\* asked and dropped (the tick's way round the states).
MessageSettled == tx.state = "ready" ~> tx.state = "idle"
=============================================================================
