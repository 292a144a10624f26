------------------------------- MODULE MiaPhy -------------------------------
(***************************************************************************)
(* common/media_access_control/mia/mia_phy.c: stations that share one      *)
(* wire, low as soon as one of them drives it low.  A bit lasts eight      *)
(* timer ticks, its second half has the level of the bit and its first     *)
(* half the opposite one, so that every bit has an edge in its middle.  A  *)
(* sender compares the wire with what it drives; a receiver takes the      *)
(* level after each edge that is far enough from the last one.             *)
(*                                                                         *)
(* The stations' timers run at one rate with any phase: each ticks once    *)
(* per round, in an order that stays.  A byte is the set of its one bits.  *)
(***************************************************************************)
EXTENDS Naturals, Sequences, SequencesExt

CONSTANTS
  Stations,
  Messages,   \* what the stations send: nonempty sequences of bytes
  Capacity,   \* of each receive buffer
  FaultTicks, \* ticks of a low wire that make a bus fault (500 ms)
  Gap,        \* environment: rounds of a high wire before a station takes the
              \* wire for free
  Latency,    \* environment: a station that found it free starts to send less
              \* than this many rounds later
  MaxSends    \* bound: transmissions in all

Bytes == SUBSET (0 .. 7)
PhyAssumption ==
  /\ Messages # {} /\ \A m \in Messages : m \in Seq(Bytes) /\ m # <<>>
  /\ Capacity \in Nat \ {0} /\ {FaultTicks, Gap, Latency, MaxSends} \subseteq Nat

VARIABLES
  phy,     \* [Stations -> struct mia_phy], with the monitor_start_bit switch
  drive,   \* [Stations -> the level each station puts on the wire]
  edge,    \* stations whose start bit interrupt is pending
  round,   \* the stations in the order in which their timers tick
  turn,    \* whose timer ticks next
  quiet,   \* rounds since the wire was last low, up to Gap
  busy,    \* rounds since the wire was last quiet, up to Latency
  starts,  \* how many transmissions have started
  sent,    \* history: messages whose last bit went out unopposed
  heard    \* history: buffers accepted with RECV_OK
vars == <<phy, drive, edge, round, turn, quiet, busy, starts, sent, heard>>

Low == FALSE
High == TRUE
wire == \A s \in Stations : drive[s]
NoByte == {}

\* mia_phy_new, after mia_phy_set_recv_buf
NewPhy == [mode |-> "idle", former |-> Low, bit |-> 0, tick |-> 0, monitor |-> TRUE,
           rbuf |-> [i \in 1 .. Capacity |-> NoByte], roff |-> 0,
           tbuf |-> <<>>, toff |-> 0]

Init == /\ phy = [s \in Stations |-> NewPhy]
        /\ drive = [s \in Stations |-> High]
        /\ edge = {} /\ round \in SetToSeqs(Stations)
        /\ turn = 1 /\ quiet = Gap /\ busy = 0
        /\ starts = 0 /\ sent = {} /\ heard = {}

-----------------------------------------------------------------------------
(* The functions of the file, on one struct mia_phy p.                     *)

StartRecving(p) == [p EXCEPT !.former = High, !.bit = 0, !.tick = 0, !.roff = 0,
                             !.mode = "recving", !.monitor = FALSE]

StartSending(p, m) == [p EXCEPT !.former = Low, !.bit = 0, !.tick = 0, !.tbuf = m,
                                !.toff = 0, !.mode = "sending", !.monitor = FALSE]

\* set_recv_buf hands over the other buffer, cleared.
SetRecvBuf(p) == [p EXCEPT !.rbuf = [i \in 1 .. Capacity |-> NoByte]]

\* get_recv_buf: the bytes that fitted.
GetRecvBuf(p) == SubSeq(p.rbuf, 1, IF p.roff < Capacity THEN p.roff ELSE Capacity)

(* mia_phy_recv_polling, with the level read from the wire: the new phy    *)
(* and the exception.                                                      *)
Stopped(p) == [p EXCEPT !.mode = "idle", !.tick = 0, !.monitor = TRUE]
Polled(p, err) == [phy |-> p, err |-> err]

\* The bit before which an edge announces it: numbered from the highest.
StoreBit(p, level) ==
  IF level /\ p.roff < Capacity
  THEN [p EXCEPT !.rbuf[p.roff + 1] = @ \cup {8 - p.bit}] ELSE p

RecvStart(p) == IF p.tick > 2 THEN [p EXCEPT !.tick = 0, !.bit = 1] ELSE p

FarEnoughBug(t) == t > 2
FarEnough(t) == t > 6
RecvData(p, level) ==
  IF FarEnough(p.tick)
  THEN [StoreBit(p, level) EXCEPT !.tick = 0, !.bit = IF @ = 8 THEN 1 ELSE @ + 1,
                                  !.roff = IF p.bit = 8 THEN @ + 1 ELSE @]
  ELSE p

\* No edge for too long: a start bit, a bit, or a low first stop bit.
RecvTooLong(p, level) == IF p.bit = 0 THEN p.tick = 8
                         ELSE p.tick = 10 /\ (p.bit # 1 \/ ~level)
RecvStopped(p) == p.bit # 0 /\ p.tick = 18

RecvPolling(p, level) ==
  LET q == [p EXCEPT !.former = level, !.tick = @ + 1]
  IN  IF p.mode # "recving" THEN Polled(p, "none")
      ELSE IF level # p.former
           THEN Polled(IF q.bit = 0 THEN RecvStart(q) ELSE RecvData(q, level), "none")
      ELSE IF RecvTooLong(q, level) THEN Polled(Stopped(q), "recv_fault")
      ELSE IF RecvStopped(q)
           THEN Polled(Stopped(q), IF q.roff > 0 THEN "recv_ok" ELSE "recv_fault")
      ELSE Polled(q, "none")

(* mia_phy_send_polling.  The wire is compared in the middle of each half  *)
(* bit; the level to drive changes every fourth tick.                      *)
SampleTickBug(t) == t = 2
SampleTick(t) == t % 4 = 2
DriveTick(t) == t % 4 = 0
Collided(p, level) == SampleTick(p.tick) /\ level # p.former
\* A sender that lost the wire does not listen for start bits again.
LostWire(p) == [p EXCEPT !.mode = "idle", !.tick = 0]

NextByte(p) == IF p.tick = 72
               THEN [p EXCEPT !.toff = @ + 1,
                              !.tick = IF p.toff + 1 < Len(p.tbuf) THEN 8 ELSE 72,
                              !.former = High]
               ELSE p

SendHalfBit(p) ==
  LET one == (7 - p.bit) \in p.tbuf[p.toff + 1]
  IN  IF p.tick % 8 = 0 THEN [p EXCEPT !.former = ~one]
      ELSE [p EXCEPT !.former = one, !.bit = (@ + 1) % 8]

NewLevel(p) ==
  CASE p.tick = 0 -> [p EXCEPT !.former = Low]
    [] p.tick = 4 -> [p EXCEPT !.former = High]
    [] p.tick \in 8 .. 72 -> LET q == NextByte(p)
                             IN  IF q.tick < 72 THEN SendHalfBit(q) ELSE q
    [] OTHER -> p

SendPolling(p, level) ==
  IF p.mode # "sending" THEN Polled(p, "none")
  ELSE IF Collided(p, level) THEN Polled(LostWire(p), "send_fault")
  ELSE IF p.tick = 88 THEN Polled(Stopped(p), "send_ok")
  ELSE LET q == IF DriveTick(p.tick) THEN NewLevel(p) ELSE p
       IN  Polled([q EXCEPT !.tick = @ + 1], "none")

\* mia_phy_monitor_polling
MonitorPolling(p, level) ==
  IF p.mode # "idle" THEN Polled(p, "none")
  ELSE IF level THEN Polled([p EXCEPT !.tick = 0], "none")
  ELSE IF p.tick > FaultTicks THEN Polled(p, "bus_fault")
  ELSE Polled([p EXCEPT !.tick = @ + 1], "none")

-----------------------------------------------------------------------------
(* A station's timer interrupt calls the three in order until one answers  *)
(* (mia_mac_timer_expired), each reading the wire anew; nothing changes it *)
(* in between.                                                             *)
Drives(p, q, err, s) ==
  IF err \in {"send_ok", "send_fault"} THEN High
  ELSE IF p.mode = "sending" THEN q.former ELSE drive[s]

\* The wire falls: every station that monitors it gets an interrupt.
Falling == wire /\ ~wire'
EdgeSeen == edge' = IF Falling THEN edge \cup {s \in Stations : phy'[s].monitor}
                    ELSE {s \in edge : phy'[s].monitor}

TimerTick(s) ==
  LET recv == RecvPolling(phy[s], wire)
      send == SendPolling(recv.phy, wire)
      mon  == MonitorPolling(send.phy, wire)
      last == IF recv.err # "none" THEN recv ELSE IF send.err # "none" THEN send ELSE mon
  IN  /\ phy' = [phy EXCEPT ![s] = IF last.err = "recv_ok" THEN SetRecvBuf(last.phy)
                                   ELSE last.phy]
      /\ drive' = [drive EXCEPT ![s] = Drives(phy[s], last.phy, last.err, s)]
      /\ heard' = IF last.err = "recv_ok"
                  THEN heard \cup {GetRecvBuf(last.phy)} ELSE heard
      /\ sent' = IF last.phy.mode = "sending" /\ last.phy.tick > 72
                 THEN sent \cup {phy[s].tbuf} ELSE sent

RoundOver == /\ quiet' = IF ~wire' THEN 0 ELSE IF quiet < Gap THEN quiet + 1 ELSE Gap
             /\ busy' = IF quiet' = Gap THEN 0 ELSE IF busy < Latency THEN busy + 1 ELSE busy

\* Every pending interrupt is served within a round.
Timer(s) == /\ s = round[turn]
            /\ turn = 1 => edge = {}
            /\ TimerTick(s)
            /\ turn' = IF turn = Len(round) THEN 1 ELSE turn + 1
            /\ IF turn = Len(round) THEN RoundOver ELSE UNCHANGED <<quiet, busy>>
            /\ UNCHANGED round
            /\ EdgeSeen
            /\ UNCHANGED starts

\* The start bit interrupt.
StartBit(s) == /\ s \in edge
               /\ phy' = [phy EXCEPT ![s] = StartRecving(@)]
               /\ edge' = edge \ {s}
               /\ UNCHANGED <<drive, round, turn, quiet, busy, starts, sent, heard>>

\* The main loop sends what it found the wire free for: a start bit may have
\* come in the meantime.
Send(s) == /\ starts < MaxSends
           /\ phy[s].mode # "sending"
           /\ busy < Latency
           /\ \E m \in Messages : phy' = [phy EXCEPT ![s] = StartSending(@, m)]
           /\ starts' = starts + 1
           /\ edge' = edge \ {s}
           /\ UNCHANGED <<drive, round, turn, quiet, busy, sent, heard>>

Next == \E s \in Stations : Timer(s) \/ StartBit(s) \/ Send(s)
Spec == Init /\ [][Next]_vars

-----------------------------------------------------------------------------
\* What the run sends: bytes with and without an edge between two bits, a
\* message and another one that begins like it.
Samples == {<<{0, 2, 5, 7}>>, <<{0, 2, 5, 7}, {7}>>, <<{}>>, <<{4, 5, 6, 7}>>}

Fitted(m) == SubSeq(m, 1, IF Len(m) < Capacity THEN Len(m) ELSE Capacity)

(* A buffer accepted with RECV_OK holds a message that some station sent   *)
(* to its last bit unopposed, as far as it fits, whatever the phase of the *)
(* two timers and although a transmission may cut a reception off          *)
(* (mia_phy_recv_polling against mia_phy_send_polling).                    *)
HeardWasSent == heard \subseteq {Fitted(m) : m \in sent}

(* Of two stations that send at once at most one believes that its message *)
(* went out, unless the messages are the same: every difference is seen by *)
(* the one that lost (the comparison in mia_phy_send_polling).             *)
OneWinner == \A s, t \in Stations :
  (\A u \in {s, t} : phy[u].mode = "sending" /\ phy[u].tick > 72) => phy[s].tbuf = phy[t].tbuf
=============================================================================
