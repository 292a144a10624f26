------------------------------- MODULE MiaMac -------------------------------
(***************************************************************************)
(* common/media_access_control/mia/mia_mac.c: one station's access to the  *)
(* wire that MiaPhy drives bit by bit.  The bit timer and the start bit    *)
(* interrupt move the PHY, which is seen here by its mode and its results; *)
(* the system tick contends for the wire; the main loop polls the events.  *)
(* Interrupt handlers run to completion, the main loop may be interrupted  *)
(* anywhere in a poll and in a call of the application.                    *)
(***************************************************************************)
EXTENDS Naturals, Sequences, PingPong

CONSTANTS
  Disf,         \* ops.disf: ticks of silence before a transmission
  FrameTicks,   \* ticks a frame of another station takes
  Backoffs,     \* what _get_random_backoff may return
  Capacity,     \* recv_capacity
  Retrans,      \* the retrans_count arguments the application uses
  EventDepth,   \* environment: how many events the queue holds
  PollPeriod,   \* environment: an event waits at most this many ticks
  CarefulCaller,\* environment: no clear while an event waits or the station
                \* sends; the only direct send is the reply the parser makes,
                \* one to a packet, and nothing is cached before that is out
  EarlyReplies, \* environment: the parser replies also while a cached message
                \* waits for its turn or is on the wire, or an event waits;
                \* the code looks at none of that
  StartBitRace, \* environment: a start bit may come between the two last
                \* statements of mia_phy_start_sending
  MaxFrames,    \* bound: frames other stations put on the wire
  MaxFaults,    \* bound: bus faults
  MaxSends      \* bound: the sends of one message that are told apart

ASSUME MiaAssumption ==
  /\ {Disf, FrameTicks, Capacity} \subseteq Nat \ {0}
  /\ Backoffs # {} /\ Backoffs \subseteq Nat \ {0}
  /\ Retrans # {} /\ Retrans \subseteq Nat
  /\ {CarefulCaller, EarlyReplies, StartBitRace} \subseteq BOOLEAN
  /\ {EventDepth, PollPeriod, MaxFrames, MaxFaults, MaxSends} \subseteq Nat

VARIABLES
  bus,       \* struct mac_bus: fault, state, disf, backoff_counter
  tx,        \* struct mac_transmit; pos is 1 while a message is cached
  phy,       \* struct mia_phy: mode, monitor, and the reception:
             \* whose frame, bytes so far (recv.offset), its age; and as a
             \* history `cut`, the frames of which only a part came since
             \* the buffer being filled was cleared
  rxbuf,     \* the two struct mac_receive: pos, and the frames that left bits
  pingpong,  \* struct pingpong_buffer
  preceiver, \* the buffer the PHY fills
  processer, \* processer.preceiver
  events,    \* the event queue, oldest first
  main,      \* where the main loop is, and its locals
  waited,    \* ticks since the main loop last finished an event
  frames,    \* how many frames have started on the wire
  faults,    \* how many bus faults there have been
  whole,     \* history: frames received whole and not yet parsed
  sends      \* history: how often the cached message was sent

vars == <<bus, tx, phy, rxbuf, pingpong, preceiver, processer, events, main, waited,
          frames, faults, whole, sends>>
recvVars == <<rxbuf, pingpong, preceiver, processer, frames, whole>>

NoBuffer == 2
Received == "received"
TransmitterReady == "transmitter_ready"
BusFault == "bus_fault"
BusRecover == "bus_recover"

PhyIdle == [mode |-> "idle", monitor |-> TRUE,
            frame |-> 0, offset |-> 0, age |-> 0, cut |-> {}]
MainIdle == [pc |-> "idle", ret |-> "idle", old |-> "idle", src |-> 0,
             first |-> {}, second |-> {}, len |-> 0]

\* mia_mac_new
Init == /\ bus = [fault |-> FALSE, state |-> "idle", disf |-> Disf, backoff |-> 0]
        /\ tx = [state |-> "idle", pos |-> 0, count |-> 0, max |-> 0]
        /\ phy = PhyIdle
        /\ rxbuf = [b \in Buffers |-> [pos |-> 0, bits |-> {}]]
        /\ pingpong = GetWriteBuf(NewHandler)
        /\ preceiver = pingpong.write
        /\ processer = NoBuffer
        /\ events = <<>> /\ main = MainIdle
        /\ waited = 0 /\ frames = 0 /\ faults = 0 /\ whole = <<>> /\ sends = 0

\* ops.event_post: the callers ignore its result, a full queue loses the event.
EventPost(e) == events' = IF Len(events) < EventDepth THEN Append(events, e) ELSE events

ClearedTransmitter == [state |-> "idle", pos |-> 0, count |-> 0, max |-> 0]
UnlockedBug(b) == b
Unlocked(b) == [b EXCEPT !.state = "idle"]
Locked(b) == [b EXCEPT !.state = "busy"]
Recovered(b) == Unlocked([b EXCEPT !.disf = Disf])

-----------------------------------------------------------------------------
(* The start bit interrupt.                                                *)
MayStart == main.pc \in {"started", "replying"} => StartBitRace

StartRecving(p, f) == [p EXCEPT !.mode = "recving", !.monitor = FALSE,
                                !.frame = f, !.offset = 0, !.age = 0]

\* mia_mac_start_bit_detected
StartBitDetected ==
  /\ phy.monitor /\ MayStart
  /\ frames < MaxFrames
  /\ frames' = frames + 1
  /\ bus' = Locked(bus)
  /\ phy' = StartRecving(phy, frames')
  /\ UNCHANGED <<tx, rxbuf, pingpong, preceiver, processer, events, main, waited, faults,
                 whole, sends>>

-----------------------------------------------------------------------------
(* mia_mac_timer_expired, by what the PHY answers.                         *)

\* Another byte begins: its bits are or-ed to what the buffer holds, if they fit.
TimerByte ==
  /\ phy.mode = "recving" /\ phy.offset <= Capacity
  /\ phy' = [phy EXCEPT !.offset = @ + 1]
  /\ rxbuf' = IF phy.offset < Capacity
              THEN [rxbuf EXCEPT ![preceiver].bits = @ \cup {phy.frame}] ELSE rxbuf
  /\ UNCHANGED <<bus, tx, pingpong, preceiver, processer, events, main, waited, frames,
                 faults, whole, sends>>

Listening(p) == [p EXCEPT !.mode = "idle", !.monitor = TRUE]
CutOff(p) == IF p.mode = "recving" THEN p.cut \cup {p.frame} ELSE p.cut

\* mia_phy_get_recv_buf: the length that fitted.
Length(p) == IF p.offset < Capacity THEN p.offset ELSE Capacity

\* The buffer just filled is handed to poll, then the other one is taken.
HandOverBug(pp) == GetReadBuf(GetWriteBuf(SetWriteDone(pp)))
HandOver(pp) == GetWriteBuf(GetReadBuf(SetWriteDone(pp)))

\* mia_phy_set_recv_buf clears the buffer the PHY fills next.
TimerRecvOk ==
  /\ phy.mode = "recving" /\ phy.offset > 0 /\ phy.age = FrameTicks
  /\ LET pp == HandOver(pingpong)
     IN  /\ pingpong' = pp
         /\ processer' = pp.read
         /\ preceiver' = pp.write
         /\ rxbuf' = [rxbuf EXCEPT ![pp.read].pos = Length(phy), ![pp.write].bits = {}]
  /\ EventPost(Received)
  /\ whole' = Append(whole, [frame |-> phy.frame, len |-> Length(phy), cut |-> phy.cut])
  /\ phy' = [Listening(phy) EXCEPT !.cut = {}]
  /\ bus' = Recovered(bus)
  /\ UNCHANGED <<tx, main, waited, frames, faults, sends>>

\* The edges stop too early or come too late: what came stays in the buffer.
TimerRecvFault ==
  /\ phy.mode = "recving"
  /\ phy' = [Listening(phy) EXCEPT !.cut = CutOff(phy)]
  /\ bus' = Recovered(bus)
  /\ UNCHANGED <<tx, recvVars, events, main, waited, faults, sends>>

\* SEND_OK and SEND_FAULT: only the first switches the monitor on again.  The
\* call that starts a transmission returns before it ends.
SendingOver(p, ok) == [p EXCEPT !.mode = "idle", !.monitor = ok]
TimerSent(ok) ==
  /\ phy.mode = "sending"
  /\ main.pc \notin {"started", "replying"}
  /\ phy' = SendingOver(phy, ok)
  /\ bus' = Recovered(bus)
  /\ tx' = [tx EXCEPT !.state = "wait_ack"]
  /\ UNCHANGED <<recvVars, events, main, waited, faults, sends>>

\* The wire has been low for 500 ms, counted anew after a recovery: what came
\* before, but for what the tick posts, has been polled and parsed by now.
TimerBusFault ==
  /\ phy.mode = "idle" /\ ~bus.fault /\ faults < MaxFaults
  /\ whole = <<>> /\ main.pc \in {"idle", "sending"}
  /\ \A i \in DOMAIN events : events[i] = TransmitterReady
  /\ faults' = faults + 1
  /\ bus' = Locked([bus EXCEPT !.fault = TRUE])
  /\ EventPost(BusFault)
  /\ UNCHANGED <<tx, phy, recvVars, main, waited, sends>>

\* The monitor answers NONE: the wire is high, or the PHY is not idle.
TimerBusRecover ==
  /\ bus.fault
  /\ bus' = Recovered([bus EXCEPT !.fault = FALSE])
  /\ EventPost(BusRecover)
  /\ UNCHANGED <<tx, phy, recvVars, main, waited, faults, sends>>

TimerExpired == \/ TimerByte \/ TimerRecvOk \/ TimerRecvFault
                \/ \E ok \in BOOLEAN : TimerSent(ok)
                \/ TimerBusFault \/ TimerBusRecover

-----------------------------------------------------------------------------
(* mia_mac_called_per_tick, in the order of its early exits.               *)
Suspended == \/ bus.fault \/ bus.state = "busy" \/ tx.state \in {"idle", "busy"}
NewDisf == IF bus.disf > 0 THEN bus.disf - 1 ELSE 0
GivesUpBug == tx.max = 0 \/ tx.count + 1 >= tx.max
GivesUp == tx.max = 0 \/ tx.count + 1 > tx.max
TickedTx == IF tx.state = "wait_ack"
            THEN [tx EXCEPT !.count = @ + 1, !.state = "ready"] ELSE tx

TickSuspended == Suspended /\ UNCHANGED <<bus, tx, events>>
TickSilence == /\ ~Suspended /\ NewDisf > 0
               /\ bus' = [bus EXCEPT !.disf = NewDisf]
               /\ UNCHANGED <<tx, events>>
TickGiveUp == /\ ~Suspended /\ NewDisf = 0
              /\ tx.state = "wait_ack" /\ GivesUp
              /\ tx' = ClearedTransmitter
              /\ bus' = [bus EXCEPT !.disf = 0]
              /\ UNCHANGED events
TickBackoff == /\ ~Suspended /\ NewDisf = 0
               /\ ~(tx.state = "wait_ack" /\ GivesUp)
               /\ tx' = TickedTx
               /\ \/ /\ bus.backoff = 0
                     /\ \E n \in Backoffs : bus' = [bus EXCEPT !.disf = 0, !.backoff = n]
                     /\ UNCHANGED events
                  \/ /\ bus.backoff > 1
                     /\ bus' = [bus EXCEPT !.disf = 0, !.backoff = @ - 1]
                     /\ UNCHANGED events
                  \/ /\ bus.backoff = 1
                     /\ EventPost(TransmitterReady)
                     /\ bus' = Locked([bus EXCEPT !.disf = 0, !.backoff = 0])

MainBehind == events # <<>> \/ main.pc # "idle"

\* A frame ends, whole or not, when its time is over; the bit timer has run,
\* and found the wire in use, before the next tick.
Tick == /\ phy.mode = "recving" => phy.age < FrameTicks
        /\ bus.fault => phy.mode = "idle"
        /\ MainBehind => waited < PollPeriod
        /\ TickSuspended \/ TickSilence \/ TickGiveUp \/ TickBackoff
        /\ phy' = IF phy.mode = "recving" THEN [phy EXCEPT !.age = @ + 1] ELSE phy
        /\ waited' = IF MainBehind THEN waited + 1 ELSE waited
        /\ UNCHANGED <<recvVars, main, faults, sends>>

-----------------------------------------------------------------------------
(* mia_mac_polling.  A received packet is copied in two halves out of      *)
(* processer.preceiver, which is read again for the length.                *)
Poll(e) == main.pc = "idle" /\ events # <<>> /\ Head(events) = e /\ events' = Tail(events)

PollReceived == /\ Poll(Received)
                /\ main' = [main EXCEPT !.pc = "copying", !.src = processer,
                                        !.first = rxbuf[processer].bits]
                /\ UNCHANGED <<bus, tx, phy, recvVars, waited, faults, sends>>

PollCopied == /\ main.pc = "copying"
              /\ main' = [main EXCEPT !.pc = "copied", !.second = rxbuf[main.src].bits,
                                      !.len = rxbuf[processer].pos]
              /\ UNCHANGED <<bus, tx, phy, recvVars, events, waited, faults, sends>>

PollParse == /\ main.pc = "copied"
             /\ pingpong' = SetReadDone(pingpong)
             /\ main' = [MainIdle EXCEPT !.pc = "parsing"]
             /\ whole' = IF whole = <<>> THEN whole ELSE Tail(whole)
             /\ UNCHANGED <<bus, tx, phy, rxbuf, preceiver, processer, events, waited,
                            frames, faults, sends>>

PollParsed == /\ main.pc = "parsing"
              /\ main' = MainIdle
              /\ waited' = 0
              /\ UNCHANGED <<bus, tx, phy, recvVars, events, faults, sends>>

\* The state is set, then the PHY started; a start bit may come in between.
PollReady == /\ Poll(TransmitterReady)
             /\ IF bus.fault
                THEN waited' = 0 /\ UNCHANGED <<bus, tx, main>>
                ELSE /\ bus' = [bus EXCEPT !.disf = Disf]
                     /\ tx' = [tx EXCEPT !.state = "busy"]
                     /\ main' = [main EXCEPT !.pc = "sending"]
                     /\ UNCHANGED waited
             /\ UNCHANGED <<phy, recvVars, faults, sends>>

\* mia_phy_start_sending but for its last statement, monitor_start_bit(false):
\* a reception that runs is cut off without a look.
StartSending(p) == [p EXCEPT !.mode = "sending", !.cut = CutOff(p)]
PollStart == /\ main.pc = "sending"
             /\ phy' = StartSending(phy)
             /\ sends' = IF sends < MaxSends THEN sends + 1 ELSE sends
             /\ main' = [main EXCEPT !.pc = "started"]
             /\ UNCHANGED <<bus, tx, recvVars, events, waited, faults>>

PollSent == /\ main.pc = "started"
            /\ phy' = [phy EXCEPT !.monitor = FALSE]
            /\ main' = MainIdle
            /\ waited' = 0
            /\ UNCHANGED <<bus, tx, recvVars, events, faults, sends>>

\* ops.bus_fault(true) and ops.bus_fault(false)
PollFault == /\ Poll(BusFault) \/ Poll(BusRecover)
             /\ waited' = 0
             /\ UNCHANGED <<bus, tx, phy, recvVars, main, faults, sends>>

-----------------------------------------------------------------------------
(* The application, in the main loop or inside receive_packet_parse.       *)
AppTurn == main.pc \in {"idle", "parsing"}

\* mia_mac_set_transmitter: the old state is kept and restored at once, the
\* sending goes on.
SetTransmitter ==
  /\ AppTurn /\ ~bus.fault
  /\ CarefulCaller => main.pc = "parsing" /\ main.ret = "idle"
  /\ ~EarlyReplies => tx.state \notin {"busy", "ready"} /\ events = <<>>
  /\ main' = [main EXCEPT !.pc = "direct", !.ret = main.pc,
                          !.old = IF tx.state = "busy" THEN "wait_ack" ELSE tx.state]
  /\ UNCHANGED <<bus, tx, phy, recvVars, events, waited, faults, sends>>

DirectSend == /\ main.pc = "direct"
              /\ bus' = Locked(bus)
              /\ tx' = [tx EXCEPT !.state = "busy"]
              /\ phy' = StartSending(phy)
              /\ main' = [main EXCEPT !.pc = "replying"]
              /\ UNCHANGED <<recvVars, events, waited, faults, sends>>

DirectSent == /\ main.pc = "replying"
              /\ phy' = [phy EXCEPT !.monitor = FALSE]
              /\ bus' = [bus EXCEPT !.disf = Disf]
              /\ tx' = [tx EXCEPT !.state = main.old]
              /\ main' = [MainIdle EXCEPT !.pc = main.ret, !.ret = main.ret]
              /\ UNCHANGED <<recvVars, events, waited, faults, sends>>

\* mia_mac_set_transmitter_cache; elsewhere it returns TRANS_BUSY.
SetTransmitterCache(retrans) ==
  /\ AppTurn
  /\ CarefulCaller => phy.mode # "sending"
  /\ tx.state = "idle"
  /\ tx' = [state |-> "ready", pos |-> 1, count |-> 0, max |-> retrans]
  /\ sends' = 0
  /\ UNCHANGED <<bus, phy, recvVars, events, main, waited, faults>>

\* mia_mac_clear_transmitter
ClearTransmitter == /\ AppTurn
                    /\ CarefulCaller => events = <<>> /\ phy.mode # "sending"
                    /\ tx' = ClearedTransmitter
                    /\ UNCHANGED <<bus, phy, recvVars, events, main, waited, faults, sends>>

-----------------------------------------------------------------------------
Polling == \/ PollReceived \/ PollCopied \/ PollParse \/ PollParsed
           \/ PollReady \/ PollStart \/ PollSent \/ PollFault
Application == \/ SetTransmitter \/ DirectSend \/ DirectSent
               \/ \E r \in Retrans : SetTransmitterCache(r)
               \/ ClearTransmitter
Next == StartBitDetected \/ TimerExpired \/ Tick \/ Polling \/ Application
Spec == Init /\ [][Next]_vars

(* The clocks run, what the PHY does ends, the wire recovers, and the main *)
(* loop comes back to poll however often the application calls in between. *)
Fairness == /\ SF_vars(Tick)
            /\ WF_vars(TimerRecvOk \/ TimerRecvFault)
            /\ WF_vars(\E ok \in BOOLEAN : TimerSent(ok))
            /\ WF_vars(TimerBusRecover)
            /\ SF_vars(PollReceived) /\ SF_vars(PollReady) /\ SF_vars(PollFault)
            /\ SF_vars(PollParsed)
            /\ WF_vars(PollCopied \/ PollParse \/ PollStart \/ PollSent \/ DirectSend
                       \/ DirectSent)
FairSpec == Spec /\ Fairness

-----------------------------------------------------------------------------
TypeOK ==
  /\ bus \in [fault : BOOLEAN, state : {"idle", "busy"}, disf : 0 .. Disf, backoff : Nat]
  /\ tx \in [state : {"idle", "ready", "busy", "wait_ack"}, pos : {0, 1}, count : Nat,
             max : Nat]
  /\ phy \in [mode : {"idle", "sending", "recving"}, monitor : BOOLEAN,
              frame : 0 .. MaxFrames,
              offset : 0 .. Capacity + 1, age : 0 .. FrameTicks,
              cut : SUBSET (1 .. MaxFrames)]
  /\ rxbuf \in [Buffers -> [pos : 0 .. Capacity, bits : SUBSET (1 .. MaxFrames)]]
  /\ pingpong \in Handlers /\ preceiver \in Buffers /\ processer \in Buffers \cup {NoBuffer}
  /\ events \in Seq({Received, TransmitterReady, BusFault, BusRecover})

(* Every packet handed to receive_packet_parse is the oldest frame that    *)
(* was received whole and not yet parsed: all its bits, its own length,    *)
(* and no bit of another frame, although the next reception runs during    *)
(* the copy (RECEIVED in mia_mac_polling against RECV_OK in                *)
(* mia_mac_timer_expired).  What may be mixed in is what came of frames    *)
(* that broke off after the buffer was last cleared.                       *)
ParsedOnceInOrder ==
  [][PollParse => /\ whole # <<>>
                  /\ Head(whole).frame \in main.first /\ main.first = main.second
                  /\ main.first \subseteq {Head(whole).frame} \cup Head(whole).cut
                  /\ main.len = Head(whole).len]_vars

(* The tick drops a message the application cached, and did not clear,     *)
(* only when all its transmissions were made, whatever start bits, faults  *)
(* and replies came in between.                                            *)
NoSilentDrop == [][TickGiveUp /\ tx.pos = 1 => sends = tx.max + 1]_vars

(* A cached message is settled: the bus lock the tick takes is given back  *)
(* after every transmission, reception and fault.                          *)
MessageSettled == tx.state = "ready" ~> tx.state = "idle"
=============================================================================
