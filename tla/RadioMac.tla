------------------------------ MODULE RadioMac -------------------------------
(***************************************************************************)
(* common/media_access_control/radio/radio_media_access_control.c: one     *)
(* station on a shared radio channel.  It listens for difs ticks and a     *)
(* random backoff, claims the bus in the tick interrupt and sends from the *)
(* main loop.  radio_post returns at once; the driver reports the end of a *)
(* transmission, and each reception, as events.                            *)
(*                                                                         *)
(* The channel, the driver, the event queue and the application are the    *)
(* environment.  Handlers of poll that only the tick could disturb while   *)
(* the bus is locked are one step: a tick then only counts the timeout.    *)
(***************************************************************************)
EXTENDS Naturals, Sequences, FiniteSets

CONSTANTS
  Difs, Bbte,    \* ops.difs and ops.bbte
  MaxBackoff,    \* _get_random_backoff returns 1 .. MaxBackoff
  Retrans,       \* the retrans_count arguments the application uses
  AirTicks,      \* environment: a packet is over by its AirTicks-th tick
  Gap,           \* environment: ticks between a packet and another station's
  PollPeriod,    \* environment: ticks while an event waits
  ParseTicks,    \* environment: ticks that fall into one call of the parser
  ShortPackets,  \* environment: a packet may come without a RECEIVING event
  Assesses,      \* ops.radio_clear_channel_assessment is given: init does not ask for it
  MaxReplies,    \* environment: set_transmitter calls per parsed packet
  MaxPackets     \* bound: packets of other stations

RadioAssumption ==
  /\ {Difs, Bbte, MaxBackoff, AirTicks} \subseteq Nat \ {0}
  /\ Retrans # {} /\ Retrans \subseteq Nat /\ Gap <= Difs
  /\ {Gap, PollPeriod, ParseTicks, MaxReplies, MaxPackets} \subseteq Nat
  /\ ShortPackets \in BOOLEAN /\ Assesses \in BOOLEAN

VARIABLES
  bus,      \* struct mac_bus
  tx,       \* struct mac_transmit; pos is 1 while a message is cached
  rsp,      \* mac.responder.state
  rx,       \* the packets with bytes in preceiver
  fifo,     \* the packets with bytes in the radio, not read yet
  events,   \* the event queue
  main,     \* the main loop: pc, the packets being parsed, replies so far
  own,      \* ticks the station's own transmission still takes; 0: none
  peer,     \* the packet of another station on the air: its number, the
            \* ticks it still takes, and the event posted for it so far
  waited,   \* ticks the main loop has been behind, or busy
  packets,  \* packets of other stations so far
  overlap,  \* history: radio_post was called during a transmission
  aborted,  \* history: a transmission cut off a reception
  silence   \* history: ticks since the channel was last used, capped

vars == <<bus, tx, rsp, rx, fifo, events, main, own, peer, waited, packets,
          overlap, aborted, silence>>
airVars == <<own, peer, packets, overlap, aborted, silence>>

NoPeer == [id |-> 0, ticks |-> 0, announced |-> "no"]
Loop == [pc |-> "loop", parsed |-> {}, answer |-> FALSE, replies |-> 0]
IdleTx == [state |-> "idle", pos |-> 0, count |-> 0, max |-> 0]

Init ==
  /\ bus = [state |-> "idle", difs |-> Difs, backoff |-> 0, timeout |-> 0]
  /\ tx = IdleTx /\ rsp = "idle"
  /\ rx = {} /\ fifo = {} /\ events = <<>> /\ main = Loop
  /\ own = 0 /\ peer = NoPeer /\ waited = 0 /\ packets = 0
  /\ overlap = FALSE /\ aborted = FALSE /\ silence = Difs

\* Mutant: the inter-frame space does not start again.
LockedBug(b) == [b EXCEPT !.state = "busy", !.timeout = Bbte]

Locked(b) == [b EXCEPT !.state = "busy", !.difs = Difs, !.timeout = Bbte]
Unlocked(b) == [b EXCEPT !.state = "idle", !.timeout = 0]

\* Mutant: pos is not reset.
ClearedBug == [tx EXCEPT !.state = "idle"]
Cleared == IdleTx

\* _mac_clear_channel_assessment: without the hook the channel passes for clear.
ClearChannel == Assesses => peer.id = 0

\* radio_post: starts sending, which cuts off a reception and empties the radio.
RadioPost ==
  /\ own' = AirTicks
  /\ overlap' = (overlap \/ own > 0)
  /\ aborted' = (aborted \/ peer.id # 0)
  /\ peer' = NoPeer
  /\ fifo' = fifo \ {peer.id}
  /\ silence' = 0
  /\ UNCHANGED packets

-----------------------------------------------------------------------------
(* radio_mac_poll, one event at a time *)

Take(e) ==
  /\ main.pc = "loop" /\ events # <<>> /\ Head(events) = e
  /\ events' = Tail(events) /\ waited' = 0

Parsing(content) ==
  [pc |-> "parsing", parsed |-> content, answer |-> tx.state = "wait_ack",
   replies |-> 0]

\* Mutant: pos is not reset, as if there were one buffer.
RestOfBufferBug == rx \union fifo

\* _get_recv_data clears the next buffer; nothing read, nothing parsed.
RestOfBuffer == {}

PollReceived ==
  /\ Take("RECEIVED")
  /\ bus' = Unlocked(bus)
  /\ LET content == rx \union fifo
     IN IF content = {} THEN UNCHANGED <<main, rx>>
        ELSE main' = Parsing(content) /\ rx' = RestOfBuffer
  /\ fifo' = {}
  /\ UNCHANGED <<tx, rsp, airVars>>

PollReceiving ==
  /\ Take("RECEIVING")
  /\ bus' = Locked(bus)
  /\ rx' = rx \union fifo /\ fifo' = {}
  /\ UNCHANGED <<tx, rsp, main, airVars>>

PollTransmitterReady ==
  /\ Take("TRANSMITTER_READY")
  /\ bus' = [bus EXCEPT !.difs = Difs]
  /\ tx' = [tx EXCEPT !.state = "busy"]
  /\ RadioPost
  /\ UNCHANGED <<rsp, rx, main>>

\* Mutant: the transmitter goes on waiting for the end of its transmission.
PollTransmittedBug ==
  /\ Take("TRANSMITTED")
  /\ bus' = Unlocked(bus)
  /\ UNCHANGED <<tx, rsp, rx, fifo, main, airVars>>

PollTransmitted ==
  /\ Take("TRANSMITTED")
  /\ tx' = IF tx.state = "busy" THEN [tx EXCEPT !.state = "wait_ack"] ELSE tx
  /\ bus' = Unlocked(bus)
  /\ UNCHANGED <<rsp, rx, fifo, main, airVars>>

\* Mutant: the bus is not locked.
SendNowBug == UNCHANGED <<bus, tx>> /\ RadioPost

\* _set_transmitter: sends at once and leaves the transmitter's state, except
\* that it stops waiting for a TRANSMITTED that this send will answer.
SendNow ==
  /\ bus' = Locked(bus)
  /\ tx' = IF tx.state = "busy" THEN [tx EXCEPT !.state = "wait_ack"] ELSE tx
  /\ RadioPost

PollResponderReady ==
  /\ Take("RESPONDER_READY")
  /\ SendNow
  /\ rsp' = "idle"
  /\ UNCHANGED <<rx, main>>

\* The driver's own view of the channel.
PollTryLock ==
  /\ Take("BUS_TRY_LOCK") /\ bus' = Locked(bus)
  /\ UNCHANGED <<tx, rsp, rx, fifo, main, airVars>>

PollTryUnlock ==
  /\ Take("BUS_TRY_UNLOCK") /\ bus' = Unlocked(bus)
  /\ UNCHANGED <<tx, rsp, rx, fifo, main, airVars>>

ParseReturns ==
  /\ main.pc = "parsing"
  /\ main' = Loop /\ waited' = 0
  /\ UNCHANGED <<bus, tx, rsp, rx, fifo, events, airVars>>

-----------------------------------------------------------------------------
(* The application *)

\* set_transmitter from the parser: looks at the bus ...
SetTransmitter ==
  /\ main.pc = "parsing" /\ main.replies < MaxReplies
  /\ IF bus.state = "idle"
     THEN main' = [main EXCEPT !.pc = "direct", !.replies = @ + 1] /\ rsp' = rsp
     ELSE /\ main' = [main EXCEPT !.replies = @ + 1]
          /\ rsp' = IF rsp = "idle" THEN "ready" ELSE rsp
  /\ UNCHANGED <<bus, tx, rx, fifo, events, waited, airVars>>

\* ... and sends
DirectSend ==
  /\ main.pc = "direct"
  /\ main' = [main EXCEPT !.pc = "parsing"]
  /\ SendNow
  /\ UNCHANGED <<rsp, rx, events, waited>>

SetTransmitterCache(retrans) ==
  /\ main.pc \in {"loop", "parsing"}
  /\ tx.state = "idle"
  /\ bus' = [bus EXCEPT !.difs = Difs]
  /\ tx' = [state |-> "ready", pos |-> 1, count |-> 0, max |-> retrans]
  /\ UNCHANGED <<rsp, rx, fifo, events, main, waited, airVars>>

\* The parser got the cached message along with the packet, and it is the answer.
ClearTransmitter ==
  /\ main.pc = "parsing" /\ main.answer
  /\ tx' = Cleared
  /\ main' = [main EXCEPT !.answer = FALSE]
  /\ UNCHANGED <<bus, rsp, rx, fifo, events, waited, airVars>>

-----------------------------------------------------------------------------
(* The tick interrupt.  A disjunct ends where the code leaves the handler. *)

BusyBus ==
  IF tx.state = "wait_post" THEN bus
  ELSE IF bus.timeout = 1 THEN Unlocked(bus) ELSE [bus EXCEPT !.timeout = @ - 1]

GivesUp == tx.count >= tx.max

\* transmitter.state is READY or WAIT_ACK
Listens == bus.state = "idle" /\ rsp # "ready" /\ tx.state \in {"ready", "wait_ack"}
DifsOver == bus.difs = 0 \/ (bus.difs = 1 /\ ClearChannel)
AfterDifs == [bus EXCEPT !.difs = 0]
Retried == IF tx.state = "wait_ack" THEN [tx EXCEPT !.count = @ + 1, !.state = "ready"]
           ELSE tx

TickBusy ==
  /\ bus.state = "busy" /\ bus' = BusyBus /\ UNCHANGED <<tx, rsp, events>>

TickResponder ==
  /\ bus.state = "idle" /\ rsp = "ready"
  /\ rsp' = "busy" /\ events' = Append(events, "RESPONDER_READY")
  /\ UNCHANGED <<bus, tx>>

TickSuspended ==
  /\ bus.state = "idle" /\ rsp # "ready" /\ ~Listens
  /\ UNCHANGED <<bus, tx, rsp, events>>

TickDifs ==
  /\ Listens /\ ~DifsOver
  /\ bus' = IF bus.difs > 1 THEN [bus EXCEPT !.difs = @ - 1] ELSE Locked(bus)
  /\ UNCHANGED <<tx, rsp, events>>

TickGiveUp ==
  /\ Listens /\ DifsOver /\ tx.state = "wait_ack" /\ GivesUp
  /\ bus' = AfterDifs /\ tx' = Cleared /\ UNCHANGED <<rsp, events>>

Contends == Listens /\ DifsOver /\ ~(tx.state = "wait_ack" /\ GivesUp)

TickBackoff ==
  /\ Contends /\ bus.backoff # 1
  /\ tx' = Retried
  /\ IF bus.backoff = 0
     THEN \E b \in 1 .. MaxBackoff : bus' = [AfterDifs EXCEPT !.backoff = b]
     ELSE bus' = [AfterDifs EXCEPT !.backoff = @ - 1]
  /\ UNCHANGED <<rsp, events>>

\* cca again before send
TickClaim ==
  /\ Contends /\ bus.backoff = 1
  /\ IF ClearChannel
     THEN /\ tx' = [Retried EXCEPT !.state = "wait_post"]
          /\ events' = Append(events, "TRANSMITTER_READY")
          /\ bus' = [Locked(bus) EXCEPT !.backoff = 0]
     ELSE tx' = Retried /\ bus' = Locked(bus) /\ UNCHANGED events
  /\ UNCHANGED rsp

\* Time passes: transmissions that are due end first, and the main loop keeps up.
Behind == events # <<>> \/ main.pc # "loop"
Tick ==
  /\ own # 1 /\ peer.ticks # 1
  /\ peer.ticks \in 1 .. AirTicks - 1 => ShortPackets \/ peer.announced # "no"
  /\ events # <<>> => waited < PollPeriod
  /\ main.pc # "loop" => waited < ParseTicks
  /\ \/ TickBusy \/ TickResponder \/ TickSuspended
     \/ TickDifs \/ TickGiveUp \/ TickBackoff \/ TickClaim
  /\ waited' = IF Behind THEN waited + 1 ELSE 0
  /\ own' = IF own = 0 THEN 0 ELSE own - 1
  /\ peer' = IF peer.id = 0 THEN peer ELSE [peer EXCEPT !.ticks = @ - 1]
  /\ silence' = IF own > 0 \/ peer.id # 0 THEN 0
                ELSE IF silence < Difs THEN silence + 1 ELSE silence
  /\ UNCHANGED <<rx, fifo, main, packets, overlap, aborted>>

-----------------------------------------------------------------------------
(* The channel and the driver's interrupts *)

PeerStarts ==
  /\ peer.id = 0 /\ own = 0 /\ silence >= Gap /\ packets < MaxPackets
  /\ packets' = packets + 1
  /\ peer' = [id |-> packets', ticks |-> AirTicks, announced |-> "no"]
  /\ silence' = 0
  /\ UNCHANGED <<bus, tx, rsp, rx, fifo, events, main, own, waited, overlap, aborted>>

\* A reception has begun: bytes are in the radio, or a preamble was detected.
Announced(event) ==
  /\ peer.id # 0 /\ peer.announced = "no"
  /\ peer' = [peer EXCEPT !.announced = event]
  /\ fifo' = IF event = "RECEIVING" THEN fifo \union {peer.id} ELSE fifo
  /\ events' = Append(events, event)
  /\ UNCHANGED <<bus, tx, rsp, rx, main, own, waited, packets, overlap, aborted, silence>>

\* It is over; a preamble may have been a false alarm.
PeerEnds(event) ==
  /\ peer.ticks = 1 /\ (ShortPackets \/ peer.announced # "no")
  /\ event = "BUS_TRY_UNLOCK" => peer.announced = "BUS_TRY_LOCK"
  /\ peer' = NoPeer
  /\ fifo' = IF event = "RECEIVED" THEN fifo \union {peer.id} ELSE fifo
  /\ events' = Append(events, event)
  /\ silence' = 0
  /\ UNCHANGED <<bus, tx, rsp, rx, main, own, waited, packets, overlap, aborted>>

Transmitted ==
  /\ own = 1
  /\ own' = 0
  /\ events' = Append(events, "TRANSMITTED")
  /\ silence' = 0
  /\ UNCHANGED <<bus, tx, rsp, rx, fifo, main, peer, waited, packets, overlap, aborted>>

-----------------------------------------------------------------------------
Announce == \E e \in {"RECEIVING", "BUS_TRY_LOCK"} : Announced(e)
PeerDone == \E e \in {"RECEIVED", "BUS_TRY_UNLOCK"} : PeerEnds(e)

Poll ==
  \/ PollReceived \/ PollReceiving \/ PollTransmitterReady \/ PollTransmitted
  \/ PollResponderReady \/ PollTryLock \/ PollTryUnlock
  \/ ParseReturns \/ DirectSend

Next ==
  \/ Poll
  \/ SetTransmitter \/ ClearTransmitter
  \/ \E n \in Retrans : SetTransmitterCache(n)
  \/ Tick
  \/ PeerStarts \/ Announce \/ PeerDone \/ Transmitted

Spec == Init /\ [][Next]_vars

FairSpec == Spec /\ WF_vars(Tick) /\ WF_vars(Poll)
            /\ WF_vars(Announce) /\ WF_vars(PeerDone) /\ WF_vars(Transmitted)

-----------------------------------------------------------------------------
(* Properties *)

Events == {"RECEIVED", "RECEIVING", "TRANSMITTER_READY", "TRANSMITTED",
           "RESPONDER_READY", "BUS_TRY_LOCK", "BUS_TRY_UNLOCK"}
MaxRetrans == CHOOSE n \in Retrans : \A m \in Retrans : m <= n

TypeOK ==
  /\ bus \in [state : {"idle", "busy"}, difs : 0 .. Difs, backoff : 0 .. MaxBackoff,
             timeout : 0 .. Bbte]
  /\ bus.state = "busy" <=> bus.timeout > 0
  /\ tx \in [state : {"idle", "ready", "wait_post", "busy", "wait_ack"}, pos : 0 .. 1,
            count : 0 .. MaxRetrans, max : Retrans \union {0}]
  /\ tx.pos = 0 <=> tx.state = "idle"
  /\ rsp \in {"idle", "ready", "busy"}
  /\ rx \subseteq 1 .. MaxPackets /\ fifo \subseteq 1 .. MaxPackets
  /\ events \in Seq(Events)
  /\ main \in [pc : {"loop", "parsing", "direct"}, parsed : SUBSET (1 .. MaxPackets),
              answer : BOOLEAN, replies : 0 .. MaxReplies]
  /\ own \in 0 .. AirTicks /\ silence \in 0 .. Difs
  /\ peer \in [id : 0 .. MaxPackets, ticks : 0 .. AirTicks, announced : Events \union {"no"}]
  /\ waited \in Nat /\ packets \in 0 .. MaxPackets
  /\ overlap \in BOOLEAN /\ aborted \in BOOLEAN

\* The station starts no transmission while one of its own is on the air: the
\* cached message, the queued reply and the direct reply are sent from three
\* places, and only the bus lock and the time after a send keep them apart.
OneOnAir == ~overlap

\* What the parser gets is one packet, never the bytes of two, although a packet
\* is read in pieces and the main loop may be late.
NoMixture == main.pc = "parsing" /\ ~aborted => Cardinality(main.parsed) = 1

\* A cached message is sent only after the channel was silent for difs ticks
\* ("silence bus for DISF ticks", radio_media_access_control.c:469).
ClaimsAfterSilence ==
  [][tx.state # "wait_post" /\ tx'.state = "wait_post" => silence' = Difs]_vars

\* If the other stations do not keep the channel busy for ever, which makes the
\* tick lock the bus again without counting, then no missing answer and no late
\* main loop keep a cached message for ever: it is answered or given up.
ChannelFallsSilent == <>[](peer.id = 0)
MessageSettled == ChannelFallsSilent => (tx.state # "idle" ~> tx.state = "idle")
=============================================================================
