------------------------ MODULE FullDuplexMac_proofs ------------------------
(***************************************************************************)
(* Machine-checked facts about FullDuplexMac, for every length of a frame, *)
(* number of frames and of retransmissions, and every timing in which the  *)
(* main loop keeps up.                                                     *)
(***************************************************************************)
EXTENDS FullDuplexMac, Integers, SequenceTheorems, TLAPS

(* The timing under which the station works.  An event is handled in       *)
(* PollPeriod ticks: a packet that comes next finds the last one parsed    *)
(* (three events may be before it), and a ready event that waits behind a  *)
(* direct reply is handled before the gap after that reply is over.  The   *)
(* queue has room for a received and a ready event.  Direct replies are    *)
(* polling ones, and no tick falls where they have read the state and not  *)
(* yet taken it, or given it back and not yet restarted the gap: the code  *)
(* does not see to that, its caller must mask the tick or make no such     *)
(* reply.  The last two clauses are the bounds of the histories.           *)
Timely ==
  /\ T35 >= 3 * PollPeriod /\ Difs >= 2 * PollPeriod
  /\ EventDepth >= 2
  /\ DirectTypes \subseteq {"polling"} /\ (TickMasked \/ DirectTypes = {})
  /\ \A r \in Retrans : r < MaxSends
  /\ \E n \in AckTicks : \A m \in AckTicks : m <= n

LEMMA Constants ==
  /\ Difs \in Nat /\ Difs > 0 /\ T35 \in Nat /\ T35 > 0 /\ Off = T35 + 1
  /\ Capacity \in Nat /\ Capacity > 0 /\ EventDepth \in Nat /\ PollPeriod \in Nat
  /\ MaxFrames \in Nat /\ MaxSends \in Nat
  /\ AckTicks \subseteq Nat /\ Retrans \subseteq Nat
  BY ParameterAssumption DEF Off

\* The cap of the history `since` is beyond every wait_ack_ticks.
LEMMA SinceCap ==
  ASSUME Timely
  PROVE  MaxSince \in Nat /\ \A a \in AckTicks \cup {0} : a < MaxSince
  <1>. DEFINE top == CHOOSE n \in AckTicks : \A m \in AckTicks : m <= n
  <1>1. top \in AckTicks /\ \A m \in AckTicks : m <= top
    BY DEF Timely
  <1>2. MaxSince = 1 + top
    BY DEF MaxSince
  <1>. HIDE DEF top
  <1>. QED  BY <1>1, <1>2, Constants

\* What n events take.
Share(n) == n * PollPeriod

LEMMA Shares ==
  /\ Share(0) = 0 /\ Share(1) = PollPeriod
  /\ Share(2) = 2 * PollPeriod /\ Share(3) = 3 * PollPeriod
  BY Constants DEF Share

-----------------------------------------------------------------------------
(* The event queue: at most one event of each kind, and where it is.       *)

R == Received
T == TransmitterReady
Queues == {<<>>, <<R>>, <<T>>, <<R, T>>, <<T, R>>}
ReadyIn(q) == IF q \in {<<T>>, <<T, R>>} THEN 1 ELSE IF q = <<R, T>> THEN 2 ELSE 0
ReceivedIn(q) == IF q \in {<<R>>, <<R, T>>} THEN 1 ELSE IF q = <<T, R>> THEN 2 ELSE 0

LEMMA ShortQueues ==
  ASSUME NEW a, NEW b
  PROVE  /\ Append(<< >>, a) = <<a>> /\ Append(<<a>>, b) = <<a, b>>
         /\ Head(<<a>>) = a /\ Tail(<<a>>) = << >> /\ Len(<<a>>) = 1
         /\ Head(<<a, b>>) = a /\ Tail(<<a, b>>) = <<b>> /\ Len(<<a, b>>) = 2
         /\ <<a>> # << >> /\ <<a, b>> # << >> /\ \A c : <<a, b>> # <<c>>
         /\ Len(<< >>) = 0
  <1>1. Append(<< >>, a) = <<a>>
    OBVIOUS
  <1>2. Append(<<a>>, b) = <<a, b>>
    <2>. DEFINE S == {a, b}
                s == <<a>>
                u == Append(s, b)
                v == <<a, b>>
    <2>1. s \in Seq(S) /\ b \in S /\ v \in Seq(S) /\ Len(v) = 2 /\ v[1] = a /\ v[2] = b
      OBVIOUS
    <2>2. Len(s) = 1 /\ s[1] = a
      OBVIOUS
    <2>. HIDE DEF S, s, v
    <2>3. u \in Seq(S) /\ Len(u) = 2 /\ u[1] = a /\ u[2] = b
      BY <2>1, <2>2, AppendProperties
    <2>. HIDE DEF u
    <2>4. u = v
      BY <2>1, <2>3, SeqEqual
    <2>. QED  BY <2>4 DEF u, s, v
  <1>3. Head(<<a>>) = a /\ Tail(<<a>>) = << >> /\ Len(<<a>>) = 1
    OBVIOUS
  <1>4. Head(<<a, b>>) = a /\ Tail(<<a, b>>) = <<b>> /\ Len(<<a, b>>) = 2
    OBVIOUS
  <1>5. <<a>> # << >> /\ <<a, b>> # << >> /\ \A c : <<a, b>> # <<c>>
    OBVIOUS
  <1>6. Len(<< >>) = 0
    OBVIOUS
  <1>. QED  BY <1>1, <1>2, <1>3, <1>4, <1>5, <1>6

LEMMA QueueOps ==
  ASSUME NEW q \in Queues
  PROVE  /\ q \in Seq({R, T}) /\ Len(q) <= 2
         /\ ReadyIn(q) \in 0 .. 2 /\ ReceivedIn(q) \in 0 .. 2
         /\ q = <<>> <=> ReadyIn(q) = 0 /\ ReceivedIn(q) = 0
         /\ ReadyIn(q) = 2 => ReceivedIn(q) = 1
         /\ ReceivedIn(q) = 2 => ReadyIn(q) = 1
         /\ ReadyIn(q) = 1 => ReceivedIn(q) # 1
         /\ (\E i \in 1 .. Len(q) : q[i] = T) <=> ReadyIn(q) > 0
  <1>1. R # T
    BY DEF R, T, Received, TransmitterReady
  <1>2. CASE q = << >>
    BY <1>1, <1>2, ShortQueues DEF ReadyIn, ReceivedIn
  <1>3. CASE q = <<R>>
    BY <1>1, <1>3, ShortQueues DEF ReadyIn, ReceivedIn
  <1>4. CASE q = <<T>>
    BY <1>1, <1>4, ShortQueues DEF ReadyIn, ReceivedIn
  <1>5. CASE q = <<R, T>>
    BY <1>1, <1>5, ShortQueues DEF ReadyIn, ReceivedIn
  <1>6. CASE q = <<T, R>>
    BY <1>1, <1>6, ShortQueues DEF ReadyIn, ReceivedIn
  <1>. QED  BY <1>2, <1>3, <1>4, <1>5, <1>6 DEF Queues

LEMMA QueuePosts ==
  ASSUME NEW q \in Queues
  PROVE  /\ ReadyIn(q) = 0 => /\ Len(q) < 2 /\ Append(q, T) \in Queues
                              /\ ReadyIn(Append(q, T)) = ReceivedIn(q) + 1
                              /\ ReceivedIn(Append(q, T)) = ReceivedIn(q)
         /\ ReceivedIn(q) = 0 => /\ Len(q) < 2 /\ Append(q, R) \in Queues
                                 /\ ReceivedIn(Append(q, R)) = ReadyIn(q) + 1
                                 /\ ReadyIn(Append(q, R)) = ReadyIn(q)
  <1>1. R # T
    BY DEF R, T, Received, TransmitterReady
  <1>2. CASE q = <<>>
    <2>1. Append(q, T) = <<T>> /\ Append(q, R) = <<R>>
      BY <1>2
    <2>. QED  BY <1>1, <1>2, <2>1, ShortQueues DEF Queues, ReadyIn, ReceivedIn
  <1>3. CASE q = <<R>>
    <2>1. Append(q, T) = <<R, T>>
      BY <1>3, ShortQueues
    <2>. QED  BY <1>1, <1>3, ShortQueues, <2>1 DEF Queues, ReadyIn, ReceivedIn
  <1>4. CASE q = <<T>>
    <2>1. Append(q, R) = <<T, R>>
      BY <1>4, ShortQueues
    <2>. QED  BY <1>1, <1>4, ShortQueues, <2>1 DEF Queues, ReadyIn, ReceivedIn
  <1>5. CASE q \in {<<R, T>>, <<T, R>>}
    BY <1>1, <1>5 DEF ReadyIn, ReceivedIn
  <1>. QED  BY <1>2, <1>3, <1>4, <1>5 DEF Queues

LEMMA QueueTakes ==
  ASSUME NEW q \in Queues, q # <<>>
  PROVE  /\ Tail(q) \in Queues
         /\ Head(q) = R => /\ ReceivedIn(q) = 1 /\ ReceivedIn(Tail(q)) = 0
                           /\ ReadyIn(q) \in {0, 2}
                           /\ ReadyIn(Tail(q)) = IF ReadyIn(q) = 0 THEN 0 ELSE 1
         /\ Head(q) = T => /\ ReadyIn(q) = 1 /\ ReadyIn(Tail(q)) = 0
                           /\ ReceivedIn(q) \in {0, 2}
                           /\ ReceivedIn(Tail(q)) = IF ReceivedIn(q) = 0 THEN 0 ELSE 1
  <1>1. R # T
    BY DEF R, T, Received, TransmitterReady
  <1>2. CASE q = <<R>>
    <2>1. Tail(q) = <<>> /\ Head(q) = R
      BY <1>2, ShortQueues
    <2>. QED  BY <1>1, <1>2, <2>1, ShortQueues DEF Queues, ReadyIn, ReceivedIn
  <1>5. CASE q = <<T>>
    <2>1. Tail(q) = <<>> /\ Head(q) = T
      BY <1>5, ShortQueues
    <2>. QED  BY <1>1, <1>5, <2>1, ShortQueues DEF Queues, ReadyIn, ReceivedIn
  <1>3. CASE q = <<R, T>>
    <2>1. Tail(q) = <<T>> /\ Head(q) = R
      BY <1>3, ShortQueues
    <2>. QED  BY <1>1, <1>3, ShortQueues, <2>1 DEF Queues, ReadyIn, ReceivedIn
  <1>4. CASE q = <<T, R>>
    <2>1. Tail(q) = <<R>> /\ Head(q) = T
      BY <1>4, ShortQueues
    <2>. QED  BY <1>1, <1>4, ShortQueues, <2>1 DEF Queues, ReadyIn, ReceivedIn
  <1>. QED  BY <1>2, <1>3, <1>4, <1>5 DEF Queues

-----------------------------------------------------------------------------
(* The inductive invariant.                                                *)

Transmits == [state : TxStates, pos : {0, 1}, count : Nat, max : Nat, ack : Nat, cur : Nat,
              type : TxTypes]
Receives == [state : {"idle", "busy", "error"}, pos : 0 .. Capacity, frame : 0 .. MaxFrames]
Mains == [pc : MainPcs, ret : {"idle", "parsing"}, old : TxStates, src : Buffers \cup {NoBuffer},
          first : 0 .. MaxFrames, second : 0 .. MaxFrames, len : 0 .. Capacity]

Types ==
  /\ difs \in 0 .. Difs /\ tx \in Transmits /\ rxbuf \in [Buffers -> Receives]
  /\ pingpong \in Handlers /\ processer \in Buffers \cup {NoBuffer}
  /\ timer \in 0 .. Off /\ events \in Queues /\ main \in Mains
  /\ wire \in BOOLEAN /\ waited \in 0 .. PollPeriod /\ frames \in 0 .. MaxFrames
  /\ sends \in Nat /\ since \in 0 .. MaxSince

\* Where the events are, and the ticks until the i-th of the queue is handled.
ReadyIndex == ReadyIn(events)
ReceivedIndex == ReceivedIn(events)
Queued == ReadyIndex > 0
Busy == IF main.pc = "idle" THEN 0 ELSE 1
Work(i) == Share(i + Busy) - waited

\* The main loop handles a received event, the reply of the parser included.
Answers == main.pc \in {"direct", "replying", "replied"}
HandlesFrame == main.pc \in {"copying", "copied", "parsing"} \/ Answers

\* One frame at a time is on its way to the parser, and it gets there before
\* the timer can expire for the next.
FrameInv ==
  /\ ReceivedIndex > 0 => ~ HandlesFrame
  /\ (ReceivedIndex > 0 \/ HandlesFrame) /\ timer # Off => Work(ReceivedIndex) < timer
  /\ ReceivedIndex = 2 => main.pc \in {"idle", "sent"}
  /\ main.pc = "sent" /\ Queued => waited >= 1
  /\ main.pc = "sending" => ~ Queued

\* The state the transmitter will have when a direct reply is out.
Replying == main.pc \in {"direct", "replying"}
State == IF Replying THEN main.old ELSE tx.state
Underway == main.pc = "sending" \/ wire

ReplyInv ==
  /\ Answers => main.ret = "parsing" /\ tx.type = "polling" /\ tx.type \in DirectTypes
  /\ main.pc = "direct" => main.old = IF tx.state = "busy" THEN "wait_ack" ELSE tx.state
  /\ main.pc = "replying" => tx.state = "busy" /\ main.old # "busy"
  /\ tx.type = "polling" => ~ wire
  /\ main.pc = "sending" => tx.type = "polling"

\* A transmitter that is busy is sending or has an event waiting; an event in
\* the queue has a message, and is handled before the tick acts again.
TxInv ==
  /\ tx.pos = 1 <=> State # "idle"
  /\ Underway => tx.state = "busy" /\ ~ Queued /\ tx.pos = 1
  /\ tx.state = "busy" => Underway \/ Queued \/ main.pc = "replying"
  /\ Queued => State \in {"busy", "wait_ack"}
  /\ Queued /\ State = "wait_ack" /\ ~ Answers => Work(ReadyIndex) <= difs
  /\ tx.max \in Retrans \cup {0} /\ tx.count <= tx.max /\ (tx.pos = 1 => tx.max \in Retrans)
  /\ tx.ack \in AckTicks \cup {0} /\ tx.cur <= tx.ack

\* How often the cached message was sent, and how long ago.
SendsInv == tx.pos = 1 =>
  /\ State = "ready" \/ Queued => sends = tx.count /\ tx.cur = 0
  /\ Underway \/ (State = "wait_ack" /\ ~ Queued) => sends = tx.count + 1
  /\ Underway => tx.cur = 0
  /\ tx.cur <= since

\* The frame on its way is the one in the buffer that poll reads, and the
\* interrupt fills the other.
Unparsed == ReceivedIndex > 0 \/ main.pc \in {"copying", "copied"}
BufferInv ==
  /\ preceiver = pingpong.write /\ pingpong.write # pingpong.read
  /\ \A b \in Buffers : pingpong.avail[b] <=> Unparsed /\ b = pingpong.read
  /\ Unparsed => /\ processer = pingpong.read
                 /\ whole = <<[frame |-> rxbuf[processer].frame, len |-> rxbuf[processer].pos]>>
  /\ ~ Unparsed => whole = << >>
  /\ main.pc \in {"copying", "copied"} =>
       main.src = processer /\ main.first = rxbuf[processer].frame
  /\ main.pc = "copied" => main.second = rxbuf[processer].frame /\ main.len = rxbuf[processer].pos

IInv == Types /\ FrameInv /\ ReplyInv /\ TxInv /\ SendsInv /\ BufferInv

-----------------------------------------------------------------------------
(* It holds at first, and is kept by each step.                            *)

LEMMA InvInit == Timely /\ Init => IInv
  <1>. SUFFICES ASSUME Timely, Init PROVE IInv
    OBVIOUS
  <1>1. events = << >> /\ << >> \in Queues /\ ReadyIndex = 0 /\ ReceivedIndex = 0
    <2>1. events = << >> /\ << >> \in Queues
      BY DEF Init, Queues
    <2>. QED  BY <2>1, QueueOps DEF ReadyIndex, ReceivedIndex
  <1>2. /\ tx \in Transmits /\ tx.state = "idle" /\ tx.pos = 0 /\ tx.count = 0 /\ tx.max = 0
        /\ tx.ack = 0 /\ tx.cur = 0
    BY DEF Init, Transmits, TxStates
  <1>3. main = MainIdle /\ main \in Mains /\ main.pc = "idle"
    BY Constants DEF Init, MainIdle, Mains, MainPcs, TxStates, Buffers
  <1>4. rxbuf \in [Buffers -> Receives]
    BY Constants DEF Init, Receives
  <1>5. /\ pingpong \in Handlers /\ pingpong.write # pingpong.read
        /\ \A b \in Buffers : ~ pingpong.avail[b]
    BY DEF Init, GetWriteBuf, NewHandler, Handlers, Buffers
  <1>6. /\ difs \in 0 .. Difs /\ timer \in 0 .. Off /\ timer = Off /\ waited \in 0 .. PollPeriod
        /\ frames \in 0 .. MaxFrames /\ sends \in Nat /\ since \in 0 .. MaxSince /\ wire = FALSE
        /\ processer \in Buffers \cup {NoBuffer} /\ preceiver = pingpong.write /\ whole = << >>
    BY Constants, SinceCap DEF Init
  <1>7. Types
    BY <1>1, <1>2, <1>3, <1>4, <1>5, <1>6 DEF Types
  <1>8. FrameInv /\ ReplyInv
    BY <1>1, <1>2, <1>3, <1>6 DEF FrameInv, ReplyInv, HandlesFrame, Answers, Queued
  <1>9. TxInv /\ SendsInv
    BY <1>1, <1>2, <1>3, <1>6
       DEF TxInv, SendsInv, State, Replying, Underway, Queued, Answers
  <1>10. BufferInv
    BY <1>1, <1>3, <1>5, <1>6 DEF BufferInv, Unparsed
  <1>. QED  BY <1>7, <1>8, <1>9, <1>10 DEF IInv

\* Three events at most are before the parser when a byte comes.
LEMMA WorkIsBounded ==
  ASSUME Timely, Types, FrameInv
  PROVE  (ReceivedIndex > 0 \/ HandlesFrame) => Work(ReceivedIndex) < T35
  <1>. SUFFICES ASSUME ReceivedIndex > 0 \/ HandlesFrame PROVE Work(ReceivedIndex) < T35
    OBVIOUS
  <1>1. /\ waited \in 0 .. PollPeriod /\ PollPeriod \in Nat /\ T35 \in Nat /\ T35 > 0
        /\ T35 >= 3 * PollPeriod
    BY Constants DEF Types, Timely
  <1>2. ReceivedIndex \in 0 .. 2 /\ (ReceivedIndex = 2 => ReadyIndex = 1)
    BY QueueOps DEF Types, ReceivedIndex, ReadyIndex
  <1>3. CASE ReceivedIndex + Busy \in {0, 1, 2}
    BY <1>1, <1>3, Shares DEF Work
  <1>4. CASE ReceivedIndex = 2 /\ Busy = 1
    <2>1. waited >= 1
      BY <1>2, <1>4 DEF FrameInv, Busy, Queued
    <2>. QED  BY <1>1, <1>4, <2>1, Shares DEF Work
  <1>. QED  BY <1>2, <1>3, <1>4 DEF Busy

LEMMA RecvByteStep ==
  ASSUME Timely, IInv, RecvByte
  PROVE  IInv'
  <1>1. Types /\ FrameInv /\ ReplyInv /\ TxInv /\ SendsInv /\ BufferInv
    BY DEF IInv
  <1>2. /\ timer' = T35
        /\ UNCHANGED <<difs, tx, pingpong, preceiver, processer, events, main, wire,
                       waited, whole, sends, since>>
    BY DEF RecvByte, Rearm
  <1>3. preceiver \in Buffers
    BY <1>1 DEF BufferInv, Types, Handlers
  <1>4. /\ frames' \in 0 .. MaxFrames /\ rxbuf' \in [Buffers -> Receives]
        /\ \A b \in Buffers : b # preceiver => rxbuf'[b] = rxbuf[b]
    <2>1. rxbuf \in [Buffers -> Receives] /\ frames \in 0 .. MaxFrames
      BY <1>1 DEF Types
    <2>2. rxbuf[preceiver] \in Receives
      BY <1>3, <2>1
    <2>3. CASE FirstByte
      <3>1. frames' \in 0 .. MaxFrames
        BY <2>1, <2>3, Constants DEF FirstByte
      <3>2. [state |-> "busy", pos |-> 1, frame |-> frames'] \in Receives
        BY <3>1, Constants DEF Receives
      <3>. QED  BY <1>3, <2>1, <2>3, <3>1, <3>2 DEF FirstByte
    <2>4. CASE NextByte
      <3>1. CASE HasRoom
        <4>1. rxbuf[preceiver].pos + 1 \in 0 .. Capacity
          BY <2>2, <3>1, Constants DEF HasRoom, Receives
        <4>2. [rxbuf[preceiver] EXCEPT !.pos = rxbuf[preceiver].pos + 1] \in Receives
          BY <2>2, <4>1 DEF Receives
        <4>. QED  BY <1>3, <2>1, <2>4, <3>1, <4>2 DEF NextByte
      <3>2. CASE ~ HasRoom
        <4>1. [rxbuf[preceiver] EXCEPT !.state = "error"] \in Receives
          BY <2>2 DEF Receives
        <4>. QED  BY <1>3, <2>1, <2>4, <3>2, <4>1 DEF NextByte
      <3>. QED  BY <3>1, <3>2
    <2>5. CASE DroppedByte
      BY <2>1, <2>5 DEF DroppedByte
    <2>. QED  BY <2>3, <2>4, <2>5 DEF RecvByte
  <1>5. Types'
    BY <1>1, <1>2, <1>4, Constants DEF Types
  <1>6. FrameInv'
    <2>1. (ReceivedIndex > 0 \/ HandlesFrame) => Work(ReceivedIndex) < T35
      BY <1>1, WorkIsBounded
    <2>. QED  BY <1>1, <1>2, <2>1
              DEF FrameInv, ReceivedIndex, ReadyIndex, Queued, HandlesFrame, Answers, Work, Busy
  <1>7. ReplyInv' /\ TxInv' /\ SendsInv'
    BY <1>1, <1>2 DEF ReplyInv, TxInv, SendsInv, Answers, State, Replying, Underway, Queued,
                      ReadyIndex, Work, Busy
  <1>8. BufferInv'
    <2>1. Unparsed => processer # preceiver /\ processer \in Buffers
      BY <1>1 DEF BufferInv, Types, Handlers
    <2>2. Unparsed' = Unparsed
      BY <1>2 DEF Unparsed, ReceivedIndex
    <2>3. main.pc \in {"copying", "copied"} => Unparsed
      BY DEF Unparsed
    <2>. QED  BY <1>1, <1>2, <1>4, <2>1, <2>2, <2>3 DEF BufferInv
  <1>. QED  BY <1>5, <1>6, <1>7, <1>8 DEF IInv

\* The buffers change roles: the one just filled is the one to be read.
LEMMA HandOver ==
  ASSUME NEW pp \in Handlers, pp.write # pp.read, \A b \in Buffers : ~ pp.avail[b],
         NEW next, next = GetWriteBuf(GetReadBuf(SetWriteDone(pp)))
  PROVE  /\ next \in Handlers /\ next.read = pp.write /\ next.write # next.read
         /\ \A b \in Buffers : next.avail[b] <=> b = next.read
         /\ SetReadDone(next) \in Handlers /\ SetReadDone(next).read = next.read
         /\ SetReadDone(next).write = next.write
         /\ \A b \in Buffers : ~ SetReadDone(next).avail[b]
  <1>. DEFINE done == SetWriteDone(pp)
              taken == GetReadBuf(done)
  <1>1. /\ done \in Handlers /\ done.write = 1 - pp.write /\ done.read = pp.read
        /\ \A b \in Buffers : done.avail[b] <=> b = pp.write
    <2>1. pp.avail \in [Buffers -> BOOLEAN] /\ pp.write \in Buffers /\ 1 - pp.write \in Buffers
      BY DEF Handlers, Buffers
    <2>2. [pp.avail EXCEPT ![pp.write] = TRUE] \in [Buffers -> BOOLEAN]
      BY <2>1
    <2>3. \A b \in Buffers : [pp.avail EXCEPT ![pp.write] = TRUE][b] <=> b = pp.write
      BY <2>1
    <2>. QED  BY <2>1, <2>2, <2>3 DEF SetWriteDone, Handlers
  <1>2. taken \in Handlers /\ taken.read = pp.write /\ taken.write = 1 - pp.write
        /\ taken.avail = done.avail
    <2>. HIDE DEF done
    <2>1. SomethingToRead(done) /\ (IF done.avail[0] THEN 0 ELSE 1) = pp.write
      BY <1>1 DEF SomethingToRead, Handlers, Buffers
    <2>2. taken = [done EXCEPT !.read = pp.write]
      BY <2>1 DEF GetReadBuf
    <2>. QED  BY <1>1, <2>2 DEF Handlers
  <1>3. taken.write # taken.read
    BY <1>2 DEF Handlers, Buffers
  <1>4. next = taken
    <2>. HIDE DEF taken
    <2>1. GetWriteBuf(taken) = taken
      BY <1>3 DEF GetWriteBuf
    <2>. QED  BY <2>1 DEF taken
  <1>. HIDE DEF taken, done
  <1>5. /\ next \in Handlers /\ next.read = pp.write /\ next.write # next.read
        /\ \A b \in Buffers : next.avail[b] <=> b = next.read
    BY <1>1, <1>2, <1>3, <1>4
  <1>6. /\ SetReadDone(next) \in Handlers /\ SetReadDone(next).read = next.read
        /\ SetReadDone(next).write = next.write
        /\ \A b \in Buffers : ~ SetReadDone(next).avail[b]
    <2>1. next.avail \in [Buffers -> BOOLEAN] /\ next.read \in Buffers
      BY <1>5 DEF Handlers
    <2>2. [next.avail EXCEPT ![next.read] = FALSE] \in [Buffers -> BOOLEAN]
      BY <2>1
    <2>3. \A b \in Buffers : ~ [next.avail EXCEPT ![next.read] = FALSE][b]
      BY <1>5, <2>1
    <2>. QED  BY <1>5, <2>2, <2>3 DEF SetReadDone, Handlers
  <1>. QED  BY <1>5, <1>6

LEMMA EventPosted ==
  ASSUME Timely, events \in Queues, NEW e, EventPost(e)
  PROVE  Len(events) < 2 => events' = Append(events, e)
  <1>1. Len(events) \in Nat /\ EventDepth \in Nat /\ EventDepth >= 2
    BY QueueOps, Constants DEF Timely
  <1>. QED  BY <1>1 DEF EventPost

LEMMA TimerExpiredStep ==
  ASSUME Timely, IInv, TimerExpired
  PROVE  IInv'
  <1>1. Types /\ FrameInv /\ ReplyInv /\ TxInv /\ SendsInv /\ BufferInv
    BY DEF IInv
  <1>2. /\ timer = 0 /\ timer' = Off
        /\ UNCHANGED <<difs, tx, main, wire, waited, frames, sends, since>>
    BY DEF TimerExpired
  <1>3. /\ ReceivedIndex \in 0 .. 2 /\ ReadyIndex \in 0 .. 2 /\ (ReceivedIndex = 0 => ReadyIndex < 2)
        /\ events \in Queues
    BY <1>1, QueueOps DEF Types, ReceivedIndex, ReadyIndex
  <1>4. ReceivedIndex = 0 /\ ~ HandlesFrame /\ ~ Unparsed
    <2>1. ReceivedIndex > 0 \/ HandlesFrame => ReceivedIndex + Busy \in 1 .. 3
      BY <1>3 DEF Busy, HandlesFrame, Answers
    <2>2. ReceivedIndex > 0 \/ HandlesFrame => Work(ReceivedIndex) >= 0
      BY <1>1, <2>1, Shares, Constants DEF Types, Work
    <2>3. ~ (ReceivedIndex > 0 \/ HandlesFrame)
      <3>1. timer # Off
        BY <1>2, Constants
      <3>2. (ReceivedIndex > 0 \/ HandlesFrame) => Work(ReceivedIndex) < timer
        BY <1>1, <3>1 DEF FrameInv
      <3>3. Work(ReceivedIndex) \in Int
        BY <1>1, <1>3, Shares, Constants DEF Types, Work, Busy
      <3>. QED  BY <1>2, <2>2, <3>2, <3>3
    <2>. QED  BY <1>3, <2>3 DEF Unparsed, HandlesFrame
  <1>. DEFINE pp == GetWriteBuf(GetReadBuf(SetWriteDone(pingpong)))
              bufs == [rxbuf EXCEPT ![pp.write].state = "idle"]
  <1>5. /\ pingpong \in Handlers /\ pingpong.write # pingpong.read /\ preceiver = pingpong.write
        /\ \A b \in Buffers : ~ pingpong.avail[b]
    BY <1>1, <1>4 DEF BufferInv, Types
  <1>6. /\ pp \in Handlers /\ pp.read = preceiver /\ pp.write # pp.read
        /\ \A b \in Buffers : pp.avail[b] <=> b = pp.read
        /\ SetReadDone(pp) \in Handlers /\ SetReadDone(pp).read = pp.read
        /\ SetReadDone(pp).write = pp.write
        /\ \A b \in Buffers : ~ SetReadDone(pp).avail[b]
    BY <1>5, HandOver
  <1>7. /\ processer' = pp.read /\ preceiver' = pp.write
        /\ rxbuf' = [bufs EXCEPT ![pp.read].state = "idle"]
        /\ IF Intact(bufs[pp.read]) THEN EventPost(R) /\ pingpong' = pp
           ELSE UNCHANGED events /\ pingpong' = SetReadDone(pp)
        /\ whole' = IF rxbuf[preceiver].state = "busy"
                    THEN Append(whole, [frame |-> rxbuf[preceiver].frame,
                                        len |-> rxbuf[preceiver].pos])
                    ELSE whole
    BY DEF TimerExpired, R
  <1>. HIDE DEF pp
  <1>8. /\ pp.read \in Buffers /\ pp.write \in Buffers
        /\ rxbuf \in [Buffers -> Receives] /\ rxbuf' \in [Buffers -> Receives]
        /\ bufs[pp.read] = rxbuf[preceiver]
        /\ rxbuf'[pp.read].frame = rxbuf[preceiver].frame
        /\ rxbuf'[pp.read].pos = rxbuf[preceiver].pos
    <2>1. pp.read \in Buffers /\ pp.write \in Buffers /\ rxbuf \in [Buffers -> Receives]
      BY <1>1, <1>6 DEF Types, Handlers
    <2>2. \A f \in [Buffers -> Receives], b \in Buffers :
            /\ [f EXCEPT ![b].state = "idle"] \in [Buffers -> Receives]
            /\ [f EXCEPT ![b].state = "idle"][b].frame = f[b].frame
            /\ [f EXCEPT ![b].state = "idle"][b].pos = f[b].pos
      BY DEF Receives
    <2>3. bufs \in [Buffers -> Receives] /\ bufs[pp.read] = rxbuf[preceiver]
      BY <1>6, <2>1, <2>2
    <2>. HIDE DEF bufs
    <2>4. /\ rxbuf' \in [Buffers -> Receives]
          /\ rxbuf'[pp.read].frame = bufs[pp.read].frame /\ rxbuf'[pp.read].pos = bufs[pp.read].pos
      BY <1>7, <2>1, <2>2, <2>3
    <2>. QED  BY <2>1, <2>3, <2>4
  <1>9. CASE rxbuf[preceiver].state = "busy"
    <2>1. EventPost(R) /\ pingpong' = pp
      BY <1>7, <1>8, <1>9 DEF Intact
    <2>2. events' = Append(events, R)
      BY <1>3, <1>4, <2>1, EventPosted, QueuePosts DEF ReceivedIndex
    <2>3. /\ events' \in Queues /\ ReceivedIndex' = ReadyIndex + 1 /\ ReadyIndex' = ReadyIndex
      BY <1>3, <1>4, <2>2, QueuePosts DEF ReceivedIndex, ReadyIndex
    <2>4. Types'
      BY <1>1, <1>2, <1>6, <1>7, <1>8, <2>1, <2>3, Constants DEF Types
    <2>5. FrameInv'
      <3>1. main.pc \in MainPcs
        BY <1>1 DEF Types, Mains
      <3>. QED  BY <1>1, <1>2, <1>3, <1>4, <2>3, <3>1
                DEF FrameInv, HandlesFrame, Answers, Queued, MainPcs
    <2>6. ReplyInv' /\ TxInv' /\ SendsInv'
      BY <1>1, <1>2, <2>3 DEF ReplyInv, TxInv, SendsInv, Answers, State, Replying, Underway,
                              Queued, Work, Busy
    <2>7. BufferInv'
      <3>1. Unparsed' /\ main.pc \notin {"copying", "copied"}
        BY <1>3, <1>4, <2>3 DEF Unparsed
      <3>2. whole' = <<[frame |-> rxbuf[preceiver].frame, len |-> rxbuf[preceiver].pos]>>
        BY <1>1, <1>4, <1>7, <1>9, ShortQueues DEF BufferInv
      <3>. QED  BY <1>2, <1>6, <1>7, <1>8, <2>1, <3>1, <3>2 DEF BufferInv
    <2>. QED  BY <2>4, <2>5, <2>6, <2>7 DEF IInv
  <1>10. CASE rxbuf[preceiver].state # "busy"
    <2>1. UNCHANGED events /\ pingpong' = SetReadDone(pp) /\ whole' = whole
      BY <1>7, <1>8, <1>10 DEF Intact
    <2>2. Types'
      BY <1>1, <1>2, <1>6, <1>7, <1>8, <2>1, Constants DEF Types
    <2>3. ReceivedIndex' = ReceivedIndex /\ ReadyIndex' = ReadyIndex /\ Unparsed' = Unparsed
      BY <1>2, <2>1 DEF ReceivedIndex, ReadyIndex, Unparsed
    <2>4. FrameInv'
      BY <1>1, <1>2, <2>3 DEF FrameInv, HandlesFrame, Answers, Queued
    <2>5. ReplyInv' /\ TxInv' /\ SendsInv'
      BY <1>1, <1>2, <2>3 DEF ReplyInv, TxInv, SendsInv, Answers, State, Replying, Underway,
                              Queued, Work, Busy
    <2>6. BufferInv'
      <3>1. main.pc \notin {"copying", "copied"} /\ whole = << >>
        BY <1>1, <1>4 DEF Unparsed, BufferInv
      <3>. QED  BY <1>2, <1>4, <1>6, <1>7, <2>1, <2>3, <3>1 DEF BufferInv
    <2>. QED  BY <2>2, <2>4, <2>5, <2>6 DEF IInv
  <1>. QED  BY <1>9, <1>10

LEMMA SendCompletedStep ==
  ASSUME Timely, IInv, SendCompleted
  PROVE  IInv'
  <1>1. Types /\ FrameInv /\ ReplyInv /\ TxInv /\ SendsInv /\ BufferInv
    BY DEF IInv
  <1>2. /\ wire /\ wire' = FALSE /\ tx' = [tx EXCEPT !.state = "wait_ack"] /\ difs' = Difs
        /\ since' = 0 /\ UNCHANGED <<rxVars, events, main, waited, sends>>
    BY DEF SendCompleted
  <1>3. /\ tx \in Transmits /\ tx' \in Transmits /\ tx'.state = "wait_ack" /\ tx'.pos = tx.pos
        /\ tx'.count = tx.count /\ tx'.max = tx.max /\ tx'.ack = tx.ack /\ tx'.cur = tx.cur
        /\ tx'.type = tx.type
    BY <1>1, <1>2 DEF Types, Transmits, TxStates
  <1>4. ~ Answers /\ ~ Replying /\ ~ Queued /\ tx.pos = 1 /\ tx.type # "polling"
    BY <1>1, <1>2 DEF ReplyInv, TxInv, Answers, Replying, Underway
  <1>5. Types'
    <2>1. difs' \in 0 .. Difs /\ since' \in 0 .. MaxSince
      BY <1>2, Constants, SinceCap
    <2>2. wire' \in BOOLEAN
      BY <1>2
    <2>. QED  BY <1>1, <1>2, <1>3, <2>1, <2>2 DEF Types, rxVars
  <1>6. FrameInv'
    BY <1>1, <1>2 DEF FrameInv, ReceivedIndex, ReadyIndex, Queued, HandlesFrame, Answers, Work, Busy,
                      rxVars
  <1>7. ReplyInv'
    BY <1>1, <1>2, <1>3, <1>4 DEF ReplyInv, Answers, Replying
  <1>8. main.pc # "sending"
    BY <1>1, <1>4 DEF ReplyInv
  <1>9. TxInv'
    BY <1>1, <1>2, <1>3, <1>4, <1>8
       DEF TxInv, Answers, State, Replying, Underway, Queued, ReadyIndex
  <1>10. SendsInv'
    BY <1>1, <1>2, <1>3, <1>4, <1>8
       DEF SendsInv, Answers, State, Replying, Underway, Queued, ReadyIndex
  <1>11. BufferInv'
    BY <1>1, <1>2 DEF BufferInv, Unparsed, ReceivedIndex, rxVars
  <1>. QED  BY <1>5, <1>6, <1>7, <1>9, <1>10, <1>11 DEF IInv

\* What a tick finds: when the transmitter may act, no event waits for it.
LEMMA TickFinds ==
  ASSUME Timely, IInv, Tick
  PROVE  /\ waited' \in 0 .. PollPeriod /\ since' \in 0 .. MaxSince
         /\ since < MaxSince => since' = since + 1
         /\ since = MaxSince => since' = MaxSince
         /\ MainBehind => waited < PollPeriod /\ waited' = waited + 1
         /\ ~ MainBehind => waited' = waited
         /\ timer' \in 0 .. Off /\ (timer = Off => timer' = Off)
         /\ (timer # Off => timer' = timer - 1 /\ timer' # Off)
         /\ UNCHANGED <<rxbuf, pingpong, preceiver, processer, main, wire, frames, whole, sends>>
         /\ main.pc \notin {"direct", "replied"}
         /\ ~ Suspended /\ difs = 0 => ~ Queued
         /\ ~ Suspended => ~ Replying /\ ~ Answers /\ ~ Underway
         /\ Queued \/ ReceivedIndex > 0 \/ main.pc # "idle" => MainBehind
  <1>1. Types /\ FrameInv /\ ReplyInv /\ TxInv
    BY DEF IInv
  <1>2. /\ waited' \in 0 .. PollPeriod
        /\ MainBehind => waited < PollPeriod /\ waited' = waited + 1
        /\ ~ MainBehind => waited' = waited
    BY <1>1, Constants DEF Tick, Types
  <1>3. /\ since' \in 0 .. MaxSince
        /\ since < MaxSince => since' = since + 1
        /\ since = MaxSince => since' = MaxSince
    BY <1>1, SinceCap DEF Tick, Types
  <1>4. /\ timer' \in 0 .. Off /\ (timer = Off => timer' = Off)
        /\ (timer # Off => timer' = timer - 1 /\ timer' # Off)
    BY <1>1, Constants DEF Tick, Types
  <1>5. main.pc \notin {"direct", "replied"}
    <2>1. CASE TickMasked
      BY <2>1 DEF Tick
    <2>2. CASE DirectTypes = {}
      BY <1>1, <2>2 DEF ReplyInv, Answers
    <2>. QED  BY <2>1, <2>2 DEF Timely
  <1>6. ~ Suspended => ~ Replying /\ ~ Answers /\ ~ Underway
    BY <1>1, <1>5 DEF Suspended, Replying, Answers, ReplyInv, TxInv, Types, Transmits, TxStates
  <1>7. Queued \/ ReceivedIndex > 0 \/ main.pc # "idle" => MainBehind
    BY <1>1, QueueOps DEF Types, Queued, ReadyIndex, ReceivedIndex, MainBehind
  <1>8. ~ Suspended /\ difs = 0 => ~ Queued
    <2>. SUFFICES ASSUME ~ Suspended, difs = 0, Queued PROVE FALSE
      OBVIOUS
    <2>1. State = "wait_ack"
      BY <1>1, <1>6 DEF State, Suspended, TxInv
    <2>2. Work(ReadyIndex) <= 0
      BY <1>1, <1>6, <2>1 DEF TxInv
    <2>3. ReadyIndex \in 1 .. 2 /\ Busy \in {0, 1}
      BY <1>1, QueueOps DEF Types, Queued, ReadyIndex, Busy
    <2>4. waited < PollPeriod /\ waited \in Nat
      BY <1>1, <1>2, <1>7 DEF Types
    <2>. QED  BY <2>2, <2>3, <2>4, Shares, Constants DEF Work
  <1>. QED  BY <1>2, <1>3, <1>4, <1>5, <1>6, <1>7, <1>8 DEF Tick

\* What time does to a frame on its way, whatever the transmitter does.
LEMMA TickFrames ==
  ASSUME Timely, IInv, Tick, events' \in Queues, ReceivedIndex' = ReceivedIndex
  PROVE  /\ FrameInv' /\ BufferInv'
         /\ Queued => Work(ReadyIndex)' = Share(ReadyIndex' + Busy) - (waited + 1)
  <1>1. Types /\ FrameInv /\ BufferInv
    BY DEF IInv
  <1>2. /\ UNCHANGED <<rxbuf, pingpong, preceiver, processer, main, whole>>
        /\ MainBehind => waited' = waited + 1
        /\ ~ MainBehind => waited' = waited
        /\ timer = Off => timer' = Off
        /\ timer # Off => timer' = timer - 1
        /\ Queued \/ ReceivedIndex > 0 \/ main.pc # "idle" => MainBehind
    BY TickFinds
  <1>3. main.pc = "sending" => ~ Queued'
    <2>. SUFFICES ASSUME main.pc = "sending" PROVE ~ Queued'
      OBVIOUS
    <2>1. Suspended
      BY TickFinds DEF Underway
    <2>2. UNCHANGED events
      BY <2>1 DEF Tick, TickSuspended, TickGap, TickReady, TickWait, TickGiveUp, TickRetry
    <2>3. ~ Queued
      BY <1>1 DEF FrameInv
    <2>. QED  BY <2>2, <2>3 DEF Queued, ReadyIndex
  <1>4. ReceivedIndex \in 0 .. 2
    BY <1>1, QueueOps DEF Types, ReceivedIndex
  <1>5. waited \in Nat /\ timer \in 0 .. Off /\ Off \in Nat
    BY <1>1, Constants DEF Types
  <1>6. (ReceivedIndex > 0 \/ HandlesFrame) /\ timer # Off =>
          Work(ReceivedIndex)' = Work(ReceivedIndex) - 1
    <2>1. (ReceivedIndex > 0 \/ HandlesFrame) => MainBehind
      BY <1>2 DEF HandlesFrame, Answers
    <2>2. \A n \in 0 .. 3 : Share(n) \in Nat
      BY Constants DEF Share
    <2>3. ReceivedIndex + Busy \in 0 .. 3
      BY <1>4 DEF Busy
    <2>. QED  BY <1>2, <1>5, <2>1, <2>2, <2>3 DEF Work, Busy
  <1>7. FrameInv'
    <2>1. ReceivedIndex' > 0 => ~ HandlesFrame'
      BY <1>1, <1>2 DEF FrameInv, HandlesFrame, Answers
    <2>2. (ReceivedIndex' > 0 \/ HandlesFrame') /\ timer' # Off => Work(ReceivedIndex)' < timer'
      <3>1. Work(ReceivedIndex) \in Int
        <4>1. \A n \in 0 .. 3 : Share(n) \in Nat
          BY Constants DEF Share
        <4>. QED  BY <1>4, <1>5, <4>1 DEF Work, Busy
      <3>2. HandlesFrame' = HandlesFrame
        BY <1>2 DEF HandlesFrame, Answers
      <3>. QED  BY <1>1, <1>2, <1>5, <1>6, <3>1, <3>2 DEF FrameInv
    <2>3. ReceivedIndex' = 2 => main'.pc \in {"idle", "sent"}
      BY <1>1, <1>2 DEF FrameInv
    <2>4. main'.pc = "sent" /\ Queued' => waited' >= 1
      BY <1>2, <1>5
    <2>. QED  BY <1>2, <1>3, <2>1, <2>2, <2>3, <2>4 DEF FrameInv
  <1>8. BufferInv'
    BY <1>1, <1>2 DEF BufferInv, Unparsed
  <1>. QED  BY <1>2, <1>7, <1>8 DEF Work, Busy

\* A tick that moves the transmitter, from one state it owns to another.
LEMMA TickStep ==
  ASSUME Timely, IInv, Tick
  PROVE  IInv'
  <1>1. Types /\ FrameInv /\ ReplyInv /\ TxInv /\ SendsInv
    BY DEF IInv
  <1>2. /\ waited' \in 0 .. PollPeriod /\ since' \in 0 .. MaxSince /\ timer' \in 0 .. Off
        /\ since \in 0 .. MaxSince /\ MaxSince \in Nat
        /\ since < MaxSince => since' = since + 1
        /\ since = MaxSince => since' = MaxSince
        /\ UNCHANGED <<rxbuf, pingpong, preceiver, processer, main, wire, frames, whole, sends>>
        /\ ~ Suspended => ~ Replying /\ ~ Answers /\ ~ Underway
        /\ ~ Suspended /\ difs = 0 => ~ Queued
    BY <1>1, TickFinds, SinceCap DEF Types
  <1>3. /\ tx \in Transmits /\ difs \in 0 .. Difs /\ Difs \in Nat /\ events \in Queues
        /\ tx.count \in Nat /\ tx.cur \in Nat /\ tx.ack \in Nat /\ tx.max \in Nat
        /\ (\A a \in AckTicks \cup {0} : a < MaxSince) /\ tx.ack \in AckTicks \cup {0}
    BY <1>1, Constants, SinceCap DEF Types, Transmits, TxInv
  <1>4. main \in Mains /\ main.old \in TxStates
    BY <1>1 DEF Types, Mains
  <1>. DEFINE OtherTypes == /\ rxbuf' \in [Buffers -> Receives] /\ pingpong' \in Handlers
                            /\ processer' \in Buffers \cup {NoBuffer} /\ timer' \in 0 .. Off
                            /\ main' \in Mains /\ wire' \in BOOLEAN /\ waited' \in 0 .. PollPeriod
                            /\ frames' \in 0 .. MaxFrames /\ sends' \in Nat
                            /\ since' \in 0 .. MaxSince
  <1>5. OtherTypes
    BY <1>1, <1>2 DEF Types
  <1>. HIDE DEF OtherTypes
  <1>6. SUFFICES ASSUME TRUE
                 PROVE  /\ difs' \in 0 .. Difs /\ tx' \in Transmits /\ events' \in Queues
                        /\ ReceivedIndex' = ReceivedIndex
                        /\ ReplyInv' /\ TxInv' /\ SendsInv'
    BY <1>5, TickFrames DEF IInv, Types, OtherTypes
  <1>7. CASE TickSuspended
    <2>1. UNCHANGED <<difs, tx, events>> /\ Suspended
      BY <1>7 DEF TickSuspended
    <2>2. ReplyInv'
      BY <1>1, <1>2, <2>1 DEF ReplyInv, Answers
    <2>3. TxInv'
      <3>1. Queued /\ State = "wait_ack" => Answers
        BY <1>1, <2>1 DEF State, Replying, Suspended, Answers
      <3>. QED  BY <1>1, <1>2, <2>1, <3>1
                DEF TxInv, State, Replying, Underway, Queued, ReadyIndex, Answers
    <2>4. SendsInv'
      BY <1>1, <1>2, <1>3, <2>1 DEF SendsInv, State, Replying, Underway, Queued, ReadyIndex
    <2>. QED  BY <1>3, <2>1, <2>2, <2>3, <2>4 DEF ReceivedIndex
  <1>8. CASE TickGap
    <2>1. UNCHANGED <<tx, events>> /\ difs' = difs - 1 /\ difs > 0 /\ ~ Suspended
      BY <1>8 DEF TickGap
    <2>2. ReplyInv'
      BY <1>1, <1>2, <2>1 DEF ReplyInv, Answers
    <2>3. TxInv'
      <3>1. Queued /\ State = "wait_ack" => Work(ReadyIndex)' <= difs'
        <4>. SUFFICES ASSUME Queued, State = "wait_ack" PROVE Work(ReadyIndex)' <= difs'
          OBVIOUS
        <4>1. Work(ReadyIndex) <= difs
          BY <1>1, <1>2, <2>1 DEF TxInv
        <4>2. waited' = waited + 1
          BY TickFinds
        <4>3. Share(ReadyIndex + Busy) \in Nat /\ waited \in Nat
          <5>1. ReadyIndex + Busy \in 0 .. 3
            BY <1>3, QueueOps DEF ReadyIndex, Busy
          <5>. QED  BY <1>1, <5>1, Constants DEF Share, Types
        <4>. QED  BY <1>2, <1>3, <2>1, <4>1, <4>2, <4>3 DEF Work, Busy, ReadyIndex
      <3>. QED  BY <1>1, <1>2, <2>1, <3>1
                DEF TxInv, State, Replying, Underway, Queued, ReadyIndex, Answers
    <2>4. SendsInv'
      BY <1>1, <1>2, <1>3, <2>1 DEF SendsInv, State, Replying, Underway, Queued, ReadyIndex
    <2>5. difs' \in 0 .. Difs
      BY <1>3, <2>1
    <2>. QED  BY <1>3, <2>1, <2>2, <2>3, <2>4, <2>5 DEF ReceivedIndex
  <1>9. CASE TickReady
    <2>1. /\ ~ Suspended /\ difs = 0 /\ difs' = 0 /\ tx.state = "ready"
          /\ tx' = [tx EXCEPT !.state = "busy"] /\ EventPost(T)
      BY <1>9 DEF TickReady, T
    <2>2. /\ tx' \in Transmits /\ tx'.state = "busy" /\ tx'.pos = tx.pos /\ tx'.count = tx.count
          /\ tx'.max = tx.max /\ tx'.ack = tx.ack /\ tx'.cur = tx.cur /\ tx'.type = tx.type
      BY <1>3, <2>1 DEF Transmits, TxStates
    <2>3. ReadyIn(events) = 0
      BY <1>2, <1>3, <2>1, QueueOps DEF Queued, ReadyIndex
    <2>4. events' = Append(events, T)
      BY <1>3, <2>1, <2>3, EventPosted, QueuePosts
    <2>5. events' \in Queues /\ ReceivedIndex' = ReceivedIndex /\ Queued'
      <3>1. ReceivedIn(events) \in 0 .. 2
        BY <1>3, QueueOps
      <3>. QED  BY <1>3, <2>3, <2>4, <3>1, QueuePosts DEF ReceivedIndex, ReadyIndex, Queued
    <2>6. ~ Replying /\ ~ Answers /\ ~ Underway /\ State = "ready" /\ State' = "busy"
      BY <1>2, <2>1, <2>2 DEF State, Replying
    <2>7. ReplyInv'
      BY <1>1, <1>2, <2>2, <2>6 DEF ReplyInv, Answers
    <2>8. TxInv'
      BY <1>1, <1>2, <2>2, <2>5, <2>6 DEF TxInv, Underway
    <2>9. SendsInv'
      BY <1>1, <1>2, <1>3, <2>2, <2>5, <2>6 DEF SendsInv, Underway
    <2>. QED  BY <1>3, <2>1, <2>2, <2>5, <2>7, <2>8, <2>9
  <1>10. CASE TickWait
    <2>1. /\ ~ Suspended /\ difs = 0 /\ UNCHANGED <<difs, events>> /\ tx.state = "wait_ack"
          /\ tx' = [tx EXCEPT !.cur = NextCur] /\ StillWaiting
      BY <1>10 DEF TickWait
    <2>2. NextCur \in Nat /\ NextCur <= tx.ack /\ NextCur <= tx.cur + 1
      BY <1>1, <1>3 DEF NextCur, TxInv
    <2>3. /\ tx' \in Transmits /\ tx'.state = tx.state /\ tx'.pos = tx.pos /\ tx'.count = tx.count
          /\ tx'.max = tx.max /\ tx'.ack = tx.ack /\ tx'.cur = NextCur /\ tx'.type = tx.type
      BY <1>3, <2>1, <2>2 DEF Transmits
    <2>4. /\ ~ Replying /\ ~ Answers /\ ~ Underway /\ ~ Queued /\ ~ Queued'
          /\ State = "wait_ack" /\ State' = "wait_ack"
      BY <1>2, <2>1, <2>3 DEF State, Replying, Queued, ReadyIndex
    <2>5. ReplyInv'
      BY <1>1, <1>2, <2>3, <2>4 DEF ReplyInv, Answers
    <2>6. TxInv'
      BY <1>1, <1>2, <2>1, <2>2, <2>3, <2>4 DEF TxInv, Underway
    <2>7. SendsInv'
      <3>1. tx.pos = 1 => NextCur <= since'
        BY <1>1, <1>2, <1>3, <2>2 DEF SendsInv
      <3>. QED  BY <1>1, <1>2, <2>3, <2>4, <3>1 DEF SendsInv, Underway
    <2>. QED  BY <1>3, <2>1, <2>3, <2>5, <2>6, <2>7 DEF ReceivedIndex
  <1>11. CASE TickGiveUp
    <2>1. /\ ~ Suspended /\ difs = 0 /\ UNCHANGED <<difs, events>> /\ tx.state = "wait_ack"
          /\ tx' = Cleared(tx)
      BY <1>11 DEF TickGiveUp
    <2>2. /\ tx' \in Transmits /\ tx'.state = "idle" /\ tx'.pos = 0 /\ tx'.count = 0
          /\ tx'.max = 0 /\ tx'.ack = 0 /\ tx'.cur = 0 /\ tx'.type = tx.type
      BY <1>3, <2>1 DEF Transmits, Cleared, TxStates
    <2>3. /\ ~ Replying /\ ~ Answers /\ ~ Underway /\ ~ Queued /\ ~ Queued'
          /\ State' = "idle"
      BY <1>2, <2>1, <2>2 DEF State, Replying, Queued, ReadyIndex
    <2>4. ReplyInv'
      BY <1>1, <1>2, <2>2, <2>3 DEF ReplyInv, Answers
    <2>5. TxInv' /\ SendsInv'
      BY <1>1, <1>2, <2>1, <2>2, <2>3 DEF TxInv, SendsInv, Underway
    <2>. QED  BY <1>3, <2>1, <2>2, <2>4, <2>5 DEF ReceivedIndex
  <1>12. CASE TickRetry
    <2>1. /\ ~ Suspended /\ difs = 0 /\ UNCHANGED <<difs, events>> /\ tx.state = "wait_ack"
          /\ tx' = [tx EXCEPT !.count = tx.count + 1, !.cur = 0, !.state = "ready"]
          /\ tx.count < tx.max
      BY <1>3, <1>12 DEF TickRetry, GivesUp
    <2>2. /\ tx' \in Transmits /\ tx'.state = "ready" /\ tx'.pos = tx.pos
          /\ tx'.count = tx.count + 1 /\ tx'.max = tx.max /\ tx'.ack = tx.ack /\ tx'.cur = 0
          /\ tx'.type = tx.type
      <3>. DEFINE n == tx.count + 1
      <3>1. n \in Nat /\ tx' = [tx EXCEPT !.count = n, !.cur = 0, !.state = "ready"]
        BY <1>3, <2>1
      <3>. HIDE DEF n
      <3>2. tx' \in Transmits
        BY <1>3, <3>1 DEF Transmits, TxStates
      <3>3. /\ tx'.state = "ready" /\ tx'.pos = tx.pos /\ tx'.count = n /\ tx'.max = tx.max
            /\ tx'.ack = tx.ack /\ tx'.cur = 0 /\ tx'.type = tx.type
        BY <1>3, <3>1 DEF Transmits
      <3>. QED  BY <3>2, <3>3 DEF n
    <2>3. /\ ~ Replying /\ ~ Answers /\ ~ Underway /\ ~ Queued /\ ~ Queued'
          /\ State = "wait_ack" /\ State' = "ready"
      BY <1>2, <2>1, <2>2 DEF State, Replying, Queued, ReadyIndex
    <2>4. ReplyInv'
      BY <1>1, <1>2, <2>2, <2>3 DEF ReplyInv, Answers
    <2>5. TxInv'
      BY <1>1, <1>2, <1>3, <2>1, <2>2, <2>3 DEF TxInv, Underway
    <2>6. SendsInv'
      BY <1>1, <1>2, <1>3, <2>2, <2>3 DEF SendsInv, Underway
    <2>. QED  BY <1>3, <2>1, <2>2, <2>4, <2>5, <2>6 DEF ReceivedIndex
  <1>. QED  BY <1>7, <1>8, <1>9, <1>10, <1>11, <1>12 DEF Tick

\* An assignment of poll or of the application to main.
LEMMA MainTypes ==
  ASSUME Types
  PROVE  /\ \A p \in MainPcs : [main EXCEPT !.pc = p] \in Mains
         /\ \A p \in MainPcs : [MainIdle EXCEPT !.pc = p] \in Mains
         /\ MainIdle \in Mains /\ MainIdle.pc = "idle"
         /\ main \in Mains /\ main.pc \in MainPcs
  <1>1. MainIdle \in Mains /\ MainIdle.pc = "idle"
    BY Constants DEF MainIdle, Mains, MainPcs, TxStates, Buffers
  <1>2. \A m \in Mains, p \in MainPcs : [m EXCEPT !.pc = p] \in Mains
    BY DEF Mains
  <1>. QED  BY <1>1, <1>2 DEF Types, Mains

\* The steps of a received event, up to the parser.
LEMMA PollReceivedStep ==
  ASSUME Timely, IInv, PollReceived
  PROVE  IInv'
  <1>1. Types /\ FrameInv /\ ReplyInv /\ TxInv /\ SendsInv /\ BufferInv
    BY DEF IInv
  <1>2. /\ main.pc = "idle" /\ events # << >> /\ Head(events) = R /\ events' = Tail(events)
        /\ main' = [main EXCEPT !.pc = "copying", !.src = processer,
                                !.first = rxbuf[processer].frame]
        /\ UNCHANGED <<difs, tx, rxVars, wire, waited, sends, since>>
    BY DEF PollReceived, R
  <1>3. /\ events' \in Queues /\ ReceivedIndex = 1 /\ ReceivedIndex' = 0
        /\ ReadyIndex \in {0, 2} /\ ReadyIndex' = IF ReadyIndex = 0 THEN 0 ELSE 1
    BY <1>1, <1>2, QueueTakes DEF Types, ReceivedIndex, ReadyIndex
  <1>4. /\ processer \in Buffers /\ rxbuf[processer].frame \in 0 .. MaxFrames
        /\ main \in Mains /\ pingpong.read = processer
    <2>1. processer \in Buffers /\ pingpong.read = processer
      BY <1>1, <1>3 DEF BufferInv, Unparsed, Types, Handlers
    <2>. QED  BY <1>1, <2>1 DEF Types, Receives
  <1>5. /\ main' \in Mains /\ main'.pc = "copying" /\ main'.src = processer
        /\ main'.first = rxbuf[processer].frame /\ main'.ret = main.ret /\ main'.old = main.old
    BY <1>2, <1>4 DEF Mains, MainPcs
  <1>6. Types'
    BY <1>1, <1>2, <1>3, <1>5 DEF Types, rxVars
  <1>7. FrameInv'
    BY <1>1, <1>2, <1>3, <1>5 DEF FrameInv, HandlesFrame, Answers, Queued, Work, Busy, rxVars
  <1>8. ReplyInv'
    BY <1>1, <1>2, <1>5 DEF ReplyInv, Answers
  <1>9. ~ Replying /\ ~ Replying' /\ (Queued' <=> Queued) /\ State' = State /\ (Underway' <=> Underway)
    BY <1>2, <1>3, <1>5 DEF Replying, Queued, State, Underway
  <1>10. TxInv'
    BY <1>1, <1>2, <1>3, <1>5, <1>9 DEF TxInv, Answers, Work, Busy, Queued
  <1>11. SendsInv'
    BY <1>1, <1>2, <1>9 DEF SendsInv
  <1>12. BufferInv'
    <2>1. Unparsed /\ Unparsed'
      BY <1>3, <1>5 DEF Unparsed
    <2>. QED  BY <1>1, <1>2, <1>5, <2>1 DEF BufferInv, rxVars
  <1>. QED  BY <1>6, <1>7, <1>8, <1>10, <1>11, <1>12 DEF IInv

LEMMA PollCopiedStep ==
  ASSUME Timely, IInv, PollCopied
  PROVE  IInv'
  <1>1. Types /\ FrameInv /\ ReplyInv /\ TxInv /\ SendsInv /\ BufferInv
    BY DEF IInv
  <1>2. /\ main.pc = "copying"
        /\ main' = [main EXCEPT !.pc = "copied", !.second = rxbuf[main.src].frame,
                                !.len = rxbuf[processer].pos]
        /\ UNCHANGED <<difs, tx, rxVars, events, wire, waited, sends, since>>
    BY DEF PollCopied
  <1>3. /\ processer \in Buffers /\ main.src = processer /\ main \in Mains
        /\ rxbuf[processer].frame \in 0 .. MaxFrames /\ rxbuf[processer].pos \in 0 .. Capacity
    <2>1. processer \in Buffers /\ main.src = processer
      BY <1>1, <1>2 DEF BufferInv, Unparsed, Types, Handlers
    <2>. QED  BY <1>1, <2>1 DEF Types, Receives
  <1>4. /\ main' \in Mains /\ main'.pc = "copied" /\ main'.src = main.src
        /\ main'.first = main.first /\ main'.second = rxbuf[processer].frame
        /\ main'.len = rxbuf[processer].pos /\ main'.ret = main.ret /\ main'.old = main.old
    BY <1>2, <1>3 DEF Mains, MainPcs
  <1>5. Types'
    BY <1>1, <1>2, <1>4 DEF Types, rxVars
  <1>6. FrameInv'
    BY <1>1, <1>2, <1>4 DEF FrameInv, HandlesFrame, Answers, Queued, Work, Busy, rxVars,
                            ReceivedIndex, ReadyIndex
  <1>7. ReplyInv'
    BY <1>1, <1>2, <1>4 DEF ReplyInv, Answers
  <1>8. ~ Replying /\ ~ Replying' /\ (Queued' <=> Queued) /\ State' = State /\ (Underway' <=> Underway)
    BY <1>2, <1>4 DEF Replying, Queued, State, Underway, ReadyIndex
  <1>9. TxInv'
    BY <1>1, <1>2, <1>4, <1>8 DEF TxInv, Answers, Work, Busy, Queued, ReadyIndex
  <1>10. SendsInv'
    BY <1>1, <1>2, <1>8 DEF SendsInv
  <1>11. BufferInv'
    <2>1. Unparsed /\ Unparsed'
      BY <1>2, <1>4 DEF Unparsed
    <2>. QED  BY <1>1, <1>2, <1>3, <1>4, <2>1 DEF BufferInv, rxVars
  <1>. QED  BY <1>5, <1>6, <1>7, <1>9, <1>10, <1>11 DEF IInv

LEMMA PollParseStep ==
  ASSUME Timely, IInv, PollParse
  PROVE  IInv'
  <1>1. Types /\ FrameInv /\ ReplyInv /\ TxInv /\ SendsInv /\ BufferInv
    BY DEF IInv
  <1>2. /\ main.pc = "copied" /\ pingpong' = SetReadDone(pingpong)
        /\ main' = [MainIdle EXCEPT !.pc = "parsing"]
        /\ whole' = IF whole = << >> THEN whole ELSE Tail(whole)
        /\ UNCHANGED <<difs, tx, rxbuf, preceiver, processer, timer, events, wire,
                       waited, frames, sends, since>>
    BY DEF PollParse
  <1>3. /\ main' \in Mains /\ main'.pc = "parsing"
    <2>1. "parsing" \in MainPcs
      BY DEF MainPcs
    <2>. QED  BY <1>1, <1>2, <2>1, MainTypes DEF MainIdle
  <1>4. /\ pingpong' \in Handlers /\ pingpong'.write = pingpong.write
        /\ pingpong'.read = pingpong.read /\ \A b \in Buffers : ~ pingpong'.avail[b]
    <2>1. /\ pingpong \in Handlers /\ pingpong.avail \in [Buffers -> BOOLEAN]
          /\ pingpong.read \in Buffers /\ \A b \in Buffers : pingpong.avail[b] => b = pingpong.read
      BY <1>1 DEF Types, Handlers, BufferInv
    <2>2. [pingpong.avail EXCEPT ![pingpong.read] = FALSE] \in [Buffers -> BOOLEAN]
      BY <2>1
    <2>3. \A b \in Buffers : ~ [pingpong.avail EXCEPT ![pingpong.read] = FALSE][b]
      BY <2>1
    <2>. QED  BY <1>2, <2>1, <2>2, <2>3 DEF SetReadDone, Handlers
  <1>5. ReceivedIndex \in 0 .. 2 /\ ReceivedIndex = 0
    <2>1. ReceivedIndex \in 0 .. 2
      BY <1>1, QueueOps DEF Types, ReceivedIndex
    <2>. QED  BY <1>1, <1>2, <2>1 DEF FrameInv, HandlesFrame
  <1>6. Types'
    BY <1>1, <1>2, <1>3, <1>4 DEF Types
  <1>7. FrameInv'
    BY <1>1, <1>2, <1>3 DEF FrameInv, HandlesFrame, Answers, Queued, Work, Busy,
                            ReceivedIndex, ReadyIndex
  <1>8. ReplyInv'
    BY <1>1, <1>2, <1>3 DEF ReplyInv, Answers
  <1>9. ~ Replying /\ ~ Replying' /\ (Queued' <=> Queued) /\ State' = State /\ (Underway' <=> Underway)
    BY <1>2, <1>3 DEF Replying, Queued, State, Underway, ReadyIndex
  <1>10. TxInv'
    BY <1>1, <1>2, <1>3, <1>9 DEF TxInv, Answers, Work, Busy, Queued, ReadyIndex
  <1>11. SendsInv'
    BY <1>1, <1>2, <1>9 DEF SendsInv
  <1>12. BufferInv'
    <2>1. ~ Unparsed'
      BY <1>2, <1>3, <1>5 DEF Unparsed, ReceivedIndex
    <2>2. whole' = << >>
      BY <1>1, <1>2, ShortQueues DEF BufferInv, Unparsed
    <2>. QED  BY <1>1, <1>2, <1>3, <1>4, <2>1, <2>2 DEF BufferInv
  <1>. QED  BY <1>6, <1>7, <1>8, <1>10, <1>11, <1>12 DEF IInv

LEMMA PollParsedStep ==
  ASSUME Timely, IInv, PollParsed
  PROVE  IInv'
  <1>1. Types /\ FrameInv /\ ReplyInv /\ TxInv /\ SendsInv /\ BufferInv
    BY DEF IInv
  <1>2. /\ main.pc = "parsing" /\ main' = MainIdle /\ waited' = 0
        /\ UNCHANGED <<difs, tx, rxVars, events, wire, sends, since>>
    BY DEF PollParsed
  <1>3. main' \in Mains /\ main'.pc = "idle" /\ waited' \in 0 .. PollPeriod
    BY <1>1, <1>2, MainTypes, Constants
  <1>4. ReceivedIndex \in 0 .. 2 /\ ReceivedIndex = 0 /\ ReadyIndex \in 0 .. 2
    <2>1. ReceivedIndex \in 0 .. 2 /\ ReadyIndex \in 0 .. 2
      BY <1>1, QueueOps DEF Types, ReceivedIndex, ReadyIndex
    <2>. QED  BY <1>1, <1>2, <2>1 DEF FrameInv, HandlesFrame
  <1>5. Types'
    BY <1>1, <1>2, <1>3 DEF Types, rxVars
  <1>6. FrameInv'
    BY <1>2, <1>3, <1>4 DEF FrameInv, HandlesFrame, Answers, ReceivedIndex
  <1>7. ReplyInv'
    BY <1>1, <1>2, <1>3 DEF ReplyInv, Answers
  <1>8. ~ Replying /\ ~ Replying' /\ (Queued' <=> Queued) /\ State' = State /\ (Underway' <=> Underway)
    BY <1>2, <1>3 DEF Replying, Queued, State, Underway, ReadyIndex
  <1>9. Queued /\ Work(ReadyIndex) <= difs => Work(ReadyIndex)' <= difs'
    <2>1. CASE ReadyIndex = 1
      <3>1. Work(ReadyIndex) = 2 * PollPeriod - waited /\ Work(ReadyIndex)' = PollPeriod - waited'
        BY <1>2, <1>3, <2>1, Shares DEF Work, Busy, ReadyIndex
      <3>. QED  BY <1>1, <1>2, <3>1, Constants DEF Types
    <2>2. CASE ReadyIndex = 2
      <3>1. Work(ReadyIndex) = 3 * PollPeriod - waited /\ Work(ReadyIndex)' = 2 * PollPeriod - waited'
        BY <1>2, <1>3, <2>2, Shares DEF Work, Busy, ReadyIndex
      <3>. QED  BY <1>1, <1>2, <3>1, Constants DEF Types
    <2>. QED  BY <1>4, <2>1, <2>2 DEF Queued
  <1>10. TxInv'
    BY <1>1, <1>2, <1>3, <1>8, <1>9 DEF TxInv, Answers
  <1>11. SendsInv'
    BY <1>1, <1>2, <1>8 DEF SendsInv
  <1>12. BufferInv'
    <2>1. Unparsed' = Unparsed
      BY <1>2, <1>3 DEF Unparsed, ReceivedIndex
    <2>. QED  BY <1>1, <1>2, <1>3, <2>1 DEF BufferInv, rxVars
  <1>. QED  BY <1>5, <1>6, <1>7, <1>10, <1>11, <1>12 DEF IInv

\* An assignment to transmitter.state.
LEMMA TxStateSet ==
  ASSUME NEW t \in Transmits, NEW s \in TxStates, NEW u, u = [t EXCEPT !.state = s]
  PROVE  /\ u \in Transmits /\ u.state = s /\ u.pos = t.pos /\ u.count = t.count
         /\ u.max = t.max /\ u.ack = t.ack /\ u.cur = t.cur /\ u.type = t.type
  BY DEF Transmits

\* The ready event: it was the oldest, so a received event moves up to be the
\* next, and the message's next transmission is under way.
LEMMA PollReadyStep ==
  ASSUME Timely, IInv, PollReady
  PROVE  IInv'
  <1>1. Types /\ FrameInv /\ ReplyInv /\ TxInv /\ SendsInv /\ BufferInv
    BY DEF IInv
  <1>2. /\ main.pc = "idle" /\ events # << >> /\ Head(events) = T /\ ~ wire
        /\ events' = Tail(events) /\ since' = 0 /\ tx' = [tx EXCEPT !.state = "busy"]
        /\ sends' = IF sends < MaxSends THEN sends + 1 ELSE sends
        /\ UNCHANGED <<difs, rxVars>>
    BY DEF PollReady, T
  <1>3. /\ events' \in Queues /\ ReadyIndex = 1 /\ ReadyIndex' = 0
        /\ ReceivedIndex \in {0, 2}
        /\ ReceivedIndex' = IF ReceivedIndex = 0 THEN 0 ELSE 1
    BY <1>1, <1>2, QueueTakes DEF Types, ReceivedIndex, ReadyIndex
  <1>4. /\ tx \in Transmits /\ tx' \in Transmits /\ tx'.state = "busy" /\ tx'.pos = tx.pos
        /\ tx'.count = tx.count /\ tx'.max = tx.max /\ tx'.ack = tx.ack /\ tx'.cur = tx.cur
        /\ tx'.type = tx.type
    BY <1>1, <1>2, TxStateSet DEF Types, TxStates
  <1>5. Queued /\ ~ Queued' /\ State = tx.state /\ tx.pos = 1
    BY <1>1, <1>2, <1>3 DEF Queued, State, Replying, TxInv
  <1>6. sends' = tx.count + 1 /\ sends' \in Nat
    <2>1. sends = tx.count /\ tx.count <= tx.max /\ tx.max \in Retrans
      BY <1>1, <1>5 DEF SendsInv, TxInv
    <2>2. tx.count \in Nat /\ tx.max \in Nat /\ tx.max < MaxSends /\ MaxSends \in Nat
      BY <1>4, <2>1, Constants DEF Transmits, Timely
    <2>. QED  BY <1>2, <2>1, <2>2
  <1>7. /\ main' \in Mains /\ main'.pc \in {"idle", "sending"} /\ main'.old = main.old
        /\ waited' \in 0 .. PollPeriod
        /\ main'.pc = "sending" => tx.type = "polling" /\ waited' = waited /\ wire' = FALSE
        /\ main'.pc = "idle" => tx.type # "polling" /\ waited' = 0 /\ wire' = TRUE
    <2>1. CASE tx.type = "polling"
      <3>1. main' = [main EXCEPT !.pc = "sending"] /\ UNCHANGED <<wire, waited>>
        BY <2>1 DEF PollReady
      <3>2. main' \in Mains /\ main'.pc = "sending" /\ main'.old = main.old
        BY <1>1, <3>1 DEF Types, Mains, MainPcs
      <3>. QED  BY <1>1, <1>2, <2>1, <3>1, <3>2 DEF Types
    <2>2. CASE tx.type # "polling"
      <3>1. wire' = TRUE /\ waited' = 0 /\ UNCHANGED main
        BY <2>2 DEF PollReady
      <3>. QED  BY <1>1, <1>2, <2>2, <3>1, Constants DEF Types
    <2>. QED  BY <2>1, <2>2
  <1>8. Types'
    <2>1. wire' \in BOOLEAN
      BY <1>7
    <2>2. since' \in 0 .. MaxSince
      BY <1>2, SinceCap
    <2>. QED  BY <1>1, <1>2, <1>3, <1>4, <1>6, <1>7, <2>1, <2>2 DEF Types, rxVars
  <1>9. FrameInv'
    <2>1. (ReceivedIndex' > 0 /\ timer' # Off) => Work(ReceivedIndex)' < timer'
      <3>. SUFFICES ASSUME ReceivedIndex' > 0, timer' # Off PROVE Work(ReceivedIndex)' < timer'
        OBVIOUS
      <3>1. ReceivedIndex = 2 /\ ReceivedIndex' = 1 /\ timer' = timer
        BY <1>2, <1>3 DEF rxVars
      <3>2. 2 * PollPeriod - waited < timer
        BY <1>1, <1>2, <3>1, Shares DEF FrameInv, Work, Busy
      <3>3. CASE main'.pc = "sending"
        <4>1. Work(ReceivedIndex)' = 2 * PollPeriod - waited
          BY <1>7, <3>1, <3>3, Shares DEF Work, Busy
        <4>. QED  BY <3>1, <3>2, <4>1
      <3>4. CASE main'.pc = "idle"
        <4>1. Work(ReceivedIndex)' = PollPeriod
          BY <1>7, <3>1, <3>4, Shares, Constants DEF Work, Busy
        <4>. QED  BY <1>1, <3>1, <3>2, <4>1, Constants DEF Types
      <3>. QED  BY <1>7, <3>3, <3>4
    <2>. QED  BY <1>3, <1>5, <1>7, <2>1 DEF FrameInv, HandlesFrame, Answers
  <1>10. ReplyInv'
    BY <1>4, <1>7 DEF ReplyInv, Answers
  <1>11. ~ Replying' /\ State' = "busy" /\ Underway'
    BY <1>4, <1>7 DEF Replying, State, Underway
  <1>12. TxInv'
    BY <1>1, <1>4, <1>5, <1>11 DEF TxInv
  <1>13. SendsInv'
    <2>1. tx.cur = 0
      BY <1>1, <1>5 DEF SendsInv
    <2>. QED  BY <1>2, <1>4, <1>5, <1>6, <1>11, <2>1 DEF SendsInv
  <1>14. BufferInv'
    <2>1. (Unparsed' <=> Unparsed) /\ main.pc \notin {"copying", "copied"}
          /\ main'.pc \notin {"copying", "copied"}
      BY <1>2, <1>3, <1>7 DEF Unparsed
    <2>. QED  BY <1>1, <1>2, <2>1 DEF BufferInv, rxVars
  <1>. QED  BY <1>8, <1>9, <1>10, <1>12, <1>13, <1>14 DEF IInv

LEMMA PollSentStep ==
  ASSUME Timely, IInv, PollSent
  PROVE  IInv'
  <1>1. Types /\ FrameInv /\ ReplyInv /\ TxInv /\ SendsInv /\ BufferInv
    BY DEF IInv
  <1>2. /\ main.pc = "sending" /\ tx' = [tx EXCEPT !.state = "wait_ack"]
        /\ main' = [main EXCEPT !.pc = "sent"] /\ since' = 0
        /\ UNCHANGED <<difs, rxVars, events, wire, waited, sends>>
    BY DEF PollSent
  <1>3. /\ tx \in Transmits /\ tx' \in Transmits /\ tx'.state = "wait_ack" /\ tx'.pos = tx.pos
        /\ tx'.count = tx.count /\ tx'.max = tx.max /\ tx'.ack = tx.ack /\ tx'.cur = tx.cur
        /\ tx'.type = tx.type
    BY <1>1, <1>2, TxStateSet DEF Types, TxStates
  <1>4. main' \in Mains /\ main'.pc = "sent"
    BY <1>1, <1>2 DEF Types, Mains, MainPcs
  <1>5. ~ Queued /\ ~ Queued' /\ ~ wire /\ ~ wire' /\ tx.pos = 1 /\ Underway /\ tx.type = "polling"
    BY <1>1, <1>2 DEF Queued, ReadyIndex, ReplyInv, TxInv, Underway
  <1>6. Types'
    <2>1. since' \in 0 .. MaxSince
      BY <1>2, SinceCap
    <2>. QED  BY <1>1, <1>2, <1>3, <1>4, <2>1 DEF Types, rxVars
  <1>7. FrameInv'
    BY <1>1, <1>2, <1>4, <1>5 DEF FrameInv, HandlesFrame, Answers, Work, Busy, ReceivedIndex, rxVars
  <1>8. ReplyInv'
    BY <1>3, <1>4, <1>5 DEF ReplyInv, Answers
  <1>9. ~ Replying' /\ State' = "wait_ack" /\ ~ Underway'
    BY <1>3, <1>4, <1>5 DEF Replying, State, Underway
  <1>10. TxInv' /\ SendsInv'
    BY <1>1, <1>2, <1>3, <1>5, <1>9 DEF TxInv, SendsInv
  <1>11. BufferInv'
    <2>1. (Unparsed' <=> Unparsed) /\ main.pc \notin {"copying", "copied"}
          /\ main'.pc \notin {"copying", "copied"}
      BY <1>2, <1>4 DEF Unparsed, ReceivedIndex
    <2>. QED  BY <1>1, <1>2, <2>1 DEF BufferInv, rxVars
  <1>. QED  BY <1>6, <1>7, <1>8, <1>10, <1>11 DEF IInv

LEMMA PollGapStep ==
  ASSUME Timely, IInv, PollGap
  PROVE  IInv'
  <1>1. Types /\ FrameInv /\ ReplyInv /\ TxInv /\ SendsInv /\ BufferInv
    BY DEF IInv
  <1>2. /\ main.pc = "sent" /\ difs' = Difs /\ main' = MainIdle /\ waited' = 0
        /\ UNCHANGED <<tx, rxVars, events, wire, sends, since>>
    BY DEF PollGap
  <1>3. main' \in Mains /\ main'.pc = "idle" /\ waited' \in 0 .. PollPeriod /\ difs' \in 0 .. Difs
    BY <1>1, <1>2, MainTypes, Constants
  <1>4. ReadyIndex \in 0 .. 2 /\ ReceivedIndex \in 0 .. 2
    BY <1>1, QueueOps DEF Types, ReadyIndex, ReceivedIndex
  <1>5. Types'
    BY <1>1, <1>2, <1>3 DEF Types, rxVars
  <1>6. FrameInv'
    <2>1. (ReceivedIndex > 0 /\ timer # Off) => Work(ReceivedIndex)' < timer
      <3>. SUFFICES ASSUME ReceivedIndex > 0, timer # Off PROVE Work(ReceivedIndex)' < timer
        OBVIOUS
      <3>1. Share(ReceivedIndex + 1) - waited < timer
        BY <1>1, <1>2 DEF FrameInv, Work, Busy
      <3>2. Work(ReceivedIndex)' = Share(ReceivedIndex)
        <4>1. Share(ReceivedIndex) \in Nat
          BY <1>4, Constants DEF Share
        <4>. QED  BY <1>2, <1>3, <1>4, <4>1 DEF Work, Busy, ReceivedIndex
      <3>3. CASE ReceivedIndex = 1
        BY <1>1, <3>1, <3>2, <3>3, Shares, Constants DEF Types
      <3>4. CASE ReceivedIndex = 2
        BY <1>1, <3>1, <3>2, <3>4, Shares, Constants DEF Types
      <3>. QED  BY <1>4, <3>3, <3>4
    <2>2. ReceivedIndex' = ReceivedIndex /\ timer' = timer
      BY <1>2 DEF ReceivedIndex, rxVars
    <2>. QED  BY <1>3, <2>1, <2>2 DEF FrameInv, HandlesFrame, Answers
  <1>7. ReplyInv'
    BY <1>1, <1>2, <1>3 DEF ReplyInv, Answers
  <1>8. ~ Replying /\ ~ Replying' /\ (Queued' <=> Queued) /\ State' = State /\ (Underway' <=> Underway)
    BY <1>2, <1>3 DEF Replying, Queued, State, Underway, ReadyIndex
  <1>9. Queued => Work(ReadyIndex)' <= difs'
    <2>1. ReadyIndex' = ReadyIndex
      BY <1>2 DEF ReadyIndex
    <2>. QED  BY <1>2, <1>3, <1>4, <2>1, Shares, Constants DEF Work, Busy, Timely
  <1>10. TxInv'
    BY <1>1, <1>2, <1>3, <1>8, <1>9 DEF TxInv, Answers
  <1>11. SendsInv'
    BY <1>1, <1>2, <1>8 DEF SendsInv
  <1>12. BufferInv'
    <2>1. (Unparsed' <=> Unparsed) /\ main.pc \notin {"copying", "copied"}
          /\ main'.pc \notin {"copying", "copied"}
      BY <1>2, <1>3 DEF Unparsed, ReceivedIndex
    <2>. QED  BY <1>1, <1>2, <2>1 DEF BufferInv, rxVars
  <1>. QED  BY <1>5, <1>6, <1>7, <1>10, <1>11, <1>12 DEF IInv

\* While the parser runs and replies, the frame and the buffers stay as they are.
InParser(pc) == pc \in {"parsing", "direct", "replying", "replied"}

LEMMA ParserKeeps ==
  ASSUME Types, FrameInv, BufferInv, InParser(main.pc), InParser(main'.pc),
         UNCHANGED <<rxVars, events, waited>>
  PROVE  FrameInv' /\ BufferInv'
  <1>1. HandlesFrame /\ HandlesFrame' /\ Busy' = Busy
    BY DEF HandlesFrame, Answers, Busy, InParser
  <1>2. FrameInv'
    BY <1>1 DEF FrameInv, InParser, Work, ReceivedIndex, ReadyIndex, Queued, rxVars
  <1>3. (Unparsed' <=> Unparsed) /\ main.pc \notin {"copying", "copied"}
        /\ main'.pc \notin {"copying", "copied"}
    BY DEF Unparsed, ReceivedIndex, InParser
  <1>4. BufferInv'
    BY <1>3 DEF BufferInv, rxVars
  <1>. QED  BY <1>2, <1>4

\* A direct reply begins: whatever is queued stays queued behind it.
LEMMA SetTransmitterStep ==
  ASSUME Timely, IInv, SetTransmitter
  PROVE  IInv'
  <1>1. Types /\ FrameInv /\ ReplyInv /\ TxInv /\ SendsInv /\ BufferInv
    BY DEF IInv
  <1>. DEFINE old == IF tx.state = "busy" THEN "wait_ack" ELSE tx.state
  <1>2. /\ main.pc = "parsing" /\ tx.type = "polling" /\ ~ wire /\ main.ret = "idle"
        /\ tx.type \in DirectTypes
        /\ main' = [main EXCEPT !.pc = "direct", !.ret = "parsing", !.old = old]
        /\ UNCHANGED <<difs, tx, rxVars, events, wire, waited, sends, since>>
    BY DEF SetTransmitter, Timely
  <1>3. tx \in Transmits /\ tx.state \in TxStates /\ old \in TxStates
    BY <1>1 DEF Types, Transmits, TxStates
  <1>4. /\ main' \in Mains /\ main'.pc = "direct" /\ main'.ret = "parsing" /\ main'.old = old
    <2>1. main \in Mains
      BY <1>1 DEF Types
    <2>. HIDE DEF old
    <2>. QED  BY <1>2, <1>3, <2>1 DEF Mains, MainPcs
  <1>5. Types'
    BY <1>1, <1>2, <1>4 DEF Types, rxVars
  <1>6. FrameInv' /\ BufferInv'
    BY <1>1, <1>2, <1>4, ParserKeeps DEF InParser
  <1>7. ReplyInv'
    BY <1>1, <1>2, <1>4 DEF ReplyInv, Answers
  <1>8. /\ State = tx.state /\ State' = old /\ ~ Underway /\ ~ Underway' /\ Answers'
        /\ (Queued' <=> Queued) /\ (tx.state = "busy" => Queued)
    BY <1>1, <1>2, <1>4 DEF State, Replying, Underway, Answers, Queued, ReadyIndex, TxInv
  <1>9. TxInv'
    BY <1>1, <1>2, <1>8 DEF TxInv
  <1>10. SendsInv'
    BY <1>1, <1>2, <1>8 DEF SendsInv
  <1>. QED  BY <1>5, <1>6, <1>7, <1>9, <1>10 DEF IInv

LEMMA DirectSendStep ==
  ASSUME Timely, IInv, DirectSend
  PROVE  IInv'
  <1>1. Types /\ FrameInv /\ ReplyInv /\ TxInv /\ SendsInv /\ BufferInv
    BY DEF IInv
  <1>2. /\ main.pc = "direct" /\ tx' = [tx EXCEPT !.state = "busy"]
        /\ main' = [main EXCEPT !.pc = "replying"] /\ wire' = (tx.type = "dmaorint")
        /\ UNCHANGED <<difs, rxVars, events, waited, sends, since>>
    BY DEF DirectSend
  <1>3. /\ tx \in Transmits /\ tx' \in Transmits /\ tx'.state = "busy" /\ tx'.pos = tx.pos
        /\ tx'.count = tx.count /\ tx'.max = tx.max /\ tx'.ack = tx.ack /\ tx'.cur = tx.cur
        /\ tx'.type = tx.type
    BY <1>1, <1>2, TxStateSet DEF Types, TxStates
  <1>4. main' \in Mains /\ main'.pc = "replying" /\ main'.ret = main.ret /\ main'.old = main.old
    BY <1>1, <1>2 DEF Types, Mains, MainPcs
  <1>5. /\ tx.type = "polling" /\ tx.type \in DirectTypes /\ main.ret = "parsing" /\ ~ wire
        /\ wire' = FALSE
        /\ main.old = IF tx.state = "busy" THEN "wait_ack" ELSE tx.state
    BY <1>1, <1>2 DEF ReplyInv, Answers
  <1>6. Types'
    BY <1>1, <1>2, <1>3, <1>4, <1>5 DEF Types, rxVars
  <1>7. FrameInv' /\ BufferInv'
    BY <1>1, <1>2, <1>4, ParserKeeps DEF InParser
  <1>8. ReplyInv'
    BY <1>3, <1>4, <1>5 DEF ReplyInv, Answers
  <1>9. /\ State' = State /\ ~ Underway /\ ~ Underway' /\ Answers' /\ (Queued' <=> Queued)
    BY <1>2, <1>4, <1>5 DEF State, Replying, Underway, Answers, Queued, ReadyIndex
  <1>10. TxInv'
    BY <1>1, <1>3, <1>4, <1>9 DEF TxInv
  <1>11. SendsInv'
    BY <1>1, <1>2, <1>3, <1>9 DEF SendsInv
  <1>. QED  BY <1>6, <1>7, <1>8, <1>10, <1>11 DEF IInv

LEMMA DirectSentStep ==
  ASSUME Timely, IInv, DirectSent
  PROVE  IInv'
  <1>1. Types /\ FrameInv /\ ReplyInv /\ TxInv /\ SendsInv /\ BufferInv
    BY DEF IInv
  <1>2. /\ main.pc = "replying" /\ tx' = [tx EXCEPT !.state = main.old]
        /\ main' = [main EXCEPT !.pc = "replied"]
        /\ UNCHANGED <<difs, rxVars, events, wire, waited, sends, since>>
    BY DEF DirectSent
  <1>3. main \in Mains /\ main.old \in TxStates
    BY <1>1 DEF Types, Mains
  <1>4. /\ tx \in Transmits /\ tx' \in Transmits /\ tx'.state = main.old /\ tx'.pos = tx.pos
        /\ tx'.count = tx.count /\ tx'.max = tx.max /\ tx'.ack = tx.ack /\ tx'.cur = tx.cur
        /\ tx'.type = tx.type
    BY <1>1, <1>2, <1>3, TxStateSet DEF Types
  <1>5. main' \in Mains /\ main'.pc = "replied" /\ main'.ret = main.ret /\ main'.old = main.old
    BY <1>2, <1>3 DEF Mains, MainPcs
  <1>6. /\ tx.type = "polling" /\ tx.type \in DirectTypes /\ main.ret = "parsing" /\ wire = FALSE
        /\ main.old # "busy"
    BY <1>1, <1>2 DEF ReplyInv, Answers, Types
  <1>7. Types'
    BY <1>1, <1>2, <1>4, <1>5 DEF Types, rxVars
  <1>8. FrameInv' /\ BufferInv'
    BY <1>1, <1>2, <1>5, ParserKeeps DEF InParser
  <1>9. ReplyInv'
    BY <1>2, <1>4, <1>5, <1>6 DEF ReplyInv, Answers
  <1>10. /\ State' = State /\ ~ Underway /\ ~ Underway' /\ Answers' /\ (Queued' <=> Queued)
    BY <1>2, <1>4, <1>5, <1>6 DEF State, Replying, Underway, Answers, Queued, ReadyIndex
  <1>11. TxInv'
    BY <1>1, <1>4, <1>6, <1>10 DEF TxInv
  <1>12. SendsInv'
    BY <1>1, <1>2, <1>4, <1>10 DEF SendsInv
  <1>. QED  BY <1>7, <1>8, <1>9, <1>11, <1>12 DEF IInv

\* The gap is restarted last: an event that waits is handled before it ends.
LEMMA DirectGapStep ==
  ASSUME Timely, IInv, DirectGap
  PROVE  IInv'
  <1>1. Types /\ FrameInv /\ ReplyInv /\ TxInv /\ SendsInv /\ BufferInv
    BY DEF IInv
  <1>2. /\ main.pc = "replied" /\ difs' = Difs
        /\ main' = [MainIdle EXCEPT !.pc = "parsing", !.ret = "parsing"]
        /\ UNCHANGED <<tx, rxVars, events, wire, waited, sends, since>>
    BY <1>1 DEF DirectGap, ReplyInv, Answers
  <1>3. main' \in Mains /\ main'.pc = "parsing" /\ difs' \in 0 .. Difs
    <2>1. MainIdle \in Mains /\ "parsing" \in MainPcs
      BY <1>1, MainTypes DEF MainPcs
    <2>2. \A m \in Mains, p \in MainPcs : /\ [m EXCEPT !.pc = p, !.ret = "parsing"] \in Mains
                                          /\ [m EXCEPT !.pc = p, !.ret = "parsing"].pc = p
      BY DEF Mains
    <2>3. difs' \in 0 .. Difs
      BY <1>2, Constants
    <2>. QED  BY <1>2, <2>1, <2>2, <2>3
  <1>4. Types'
    BY <1>1, <1>2, <1>3 DEF Types, rxVars
  <1>5. FrameInv' /\ BufferInv'
    BY <1>1, <1>2, <1>3, ParserKeeps DEF InParser
  <1>6. ReplyInv'
    BY <1>1, <1>2, <1>3 DEF ReplyInv, Answers
  <1>7. /\ State' = State /\ (Underway' <=> Underway) /\ (Queued' <=> Queued)
        /\ main.pc # "replying" /\ main'.pc # "replying"
    BY <1>2, <1>3 DEF State, Replying, Underway, Queued, ReadyIndex
  <1>8. Queued => Work(ReadyIndex)' <= difs'
    <2>. SUFFICES ASSUME Queued PROVE Work(ReadyIndex)' <= difs'
      OBVIOUS
    <2>1. ReadyIndex \in 0 .. 2 /\ ReceivedIndex \in 0 .. 2 /\ (ReadyIndex = 2 => ReceivedIndex = 1)
      BY <1>1, QueueOps DEF Types, ReadyIndex, ReceivedIndex
    <2>2. ReceivedIndex = 0
      BY <1>1, <1>2, <2>1 DEF FrameInv, HandlesFrame, Answers
    <2>3. ReadyIndex = 1 /\ ReadyIndex' = 1
      BY <1>2, <2>1, <2>2 DEF Queued, ReadyIndex
    <2>4. Work(ReadyIndex)' = 2 * PollPeriod - waited
      BY <1>2, <1>3, <2>3, Shares DEF Work, Busy
    <2>. QED  BY <1>1, <1>2, <2>4, Constants DEF Timely, Types
  <1>9. TxInv'
    BY <1>1, <1>2, <1>7, <1>8 DEF TxInv
  <1>10. SendsInv'
    BY <1>1, <1>2, <1>7 DEF SendsInv
  <1>. QED  BY <1>4, <1>5, <1>6, <1>9, <1>10 DEF IInv

\* A turn of the application outside a direct reply: it only writes tx.
LEMMA AppKeeps ==
  ASSUME Types, FrameInv, BufferInv, UNCHANGED <<rxVars, events, main, wire, waited>>
  PROVE  FrameInv' /\ BufferInv'
  BY DEF FrameInv, BufferInv, HandlesFrame, Answers, Queued, Work, Busy, Unparsed,
         ReceivedIndex, ReadyIndex, rxVars

LEMMA SetTransmitterCacheStep ==
  ASSUME Timely, IInv, NEW r \in Retrans, NEW a \in AckTicks, SetTransmitterCache(r, a)
  PROVE  IInv'
  <1>1. Types /\ FrameInv /\ ReplyInv /\ TxInv /\ SendsInv /\ BufferInv
    BY DEF IInv
  <1>2. /\ main.pc \in {"idle", "parsing"} /\ tx.state = "idle" /\ difs' = Difs
        /\ tx' = [state |-> "ready", pos |-> 1, count |-> 0, max |-> r, ack |-> a,
                  cur |-> 0, type |-> tx.type]
        /\ sends' = 0 /\ since' = 0
        /\ UNCHANGED <<rxVars, events, main, wire, waited>>
    BY DEF SetTransmitterCache, AppTurn
  <1>3. /\ tx' \in Transmits /\ tx'.state = "ready" /\ tx'.pos = 1 /\ tx'.count = 0
        /\ tx'.max = r /\ tx'.ack = a /\ tx'.cur = 0 /\ tx'.type = tx.type
    <2>1. tx.type \in TxTypes
      BY <1>1 DEF Types, Transmits
    <2>. QED  BY <1>2, <2>1, Constants DEF Transmits, TxStates
  <1>4. r \in Nat /\ a \in Nat
    BY Constants
  <1>5. Types'
    <2>1. since' \in 0 .. MaxSince /\ difs' \in 0 .. Difs /\ sends' \in Nat
      BY <1>2, SinceCap, Constants
    <2>. QED  BY <1>1, <1>2, <1>3, <2>1 DEF Types, rxVars
  <1>6. FrameInv' /\ BufferInv'
    BY <1>1, <1>2, AppKeeps
  <1>7. ReplyInv'
    BY <1>1, <1>2, <1>3 DEF ReplyInv, Answers
  <1>8. State = "idle" /\ State' = "ready" /\ ~ Queued /\ ~ Queued' /\ ~ Underway /\ ~ Underway'
    BY <1>1, <1>2, <1>3 DEF State, Replying, TxInv, Underway, Queued, ReadyIndex
  <1>9. TxInv'
    BY <1>3, <1>4, <1>8 DEF TxInv
  <1>10. SendsInv'
    BY <1>2, <1>3, <1>8 DEF SendsInv
  <1>. QED  BY <1>5, <1>6, <1>7, <1>9, <1>10 DEF IInv

\* _clear_transmitter.
LEMMA ClearedTypes ==
  ASSUME tx \in Transmits
  PROVE  /\ Cleared(tx) \in Transmits /\ Cleared(tx).state = "idle" /\ Cleared(tx).pos = 0
         /\ Cleared(tx).count = 0 /\ Cleared(tx).max = 0 /\ Cleared(tx).ack = 0
         /\ Cleared(tx).cur = 0 /\ Cleared(tx).type = tx.type
  BY DEF Transmits, Cleared, TxStates

LEMMA ClearTransmitterStep ==
  ASSUME Timely, IInv, ClearTransmitter
  PROVE  IInv'
  <1>1. Types /\ FrameInv /\ ReplyInv /\ TxInv /\ SendsInv /\ BufferInv
    BY DEF IInv
  <1>2. /\ main.pc \in {"idle", "parsing"} /\ tx.state # "busy" /\ ~ wire
        /\ \A i \in 1 .. Len(events) : events[i] # T
        /\ tx' = Cleared(tx)
        /\ UNCHANGED <<difs, rxVars, events, main, wire, waited, sends, since>>
    BY DEF ClearTransmitter, AppTurn, T
  <1>3. /\ tx' \in Transmits /\ tx'.state = "idle" /\ tx'.pos = 0 /\ tx'.count = 0
        /\ tx'.max = 0 /\ tx'.ack = 0 /\ tx'.cur = 0 /\ tx'.type = tx.type
    BY <1>1, <1>2, ClearedTypes DEF Types
  <1>4. Types'
    BY <1>1, <1>2, <1>3 DEF Types, rxVars
  <1>5. FrameInv' /\ BufferInv'
    BY <1>1, <1>2, AppKeeps
  <1>6. ReplyInv'
    BY <1>1, <1>2, <1>3 DEF ReplyInv, Answers
  <1>7. ~ Queued
    <2>1. events \in Queues
      BY <1>1 DEF Types
    <2>. QED  BY <1>2, <2>1, QueueOps DEF Queued, ReadyIndex
  <1>8. State' = "idle" /\ ~ Queued' /\ ~ Underway'
    BY <1>2, <1>3, <1>7 DEF State, Replying, Underway, Queued, ReadyIndex
  <1>9. TxInv' /\ SendsInv'
    BY <1>3, <1>8 DEF TxInv, SendsInv
  <1>. QED  BY <1>4, <1>5, <1>6, <1>9 DEF IInv

\* A step that changes nothing.
LEMMA Stutter ==
  ASSUME IInv, UNCHANGED vars
  PROVE  IInv'
  <1>1. UNCHANGED <<ReadyIndex, ReceivedIndex, Queued, Busy, Answers, HandlesFrame, Replying,
                    State, Underway, Unparsed>>
    BY DEF vars, ReadyIndex, ReceivedIndex, Queued, Busy, Answers, HandlesFrame, Replying,
           State, Underway, Unparsed
  <1>2. Types' /\ FrameInv'
    BY <1>1 DEF IInv, vars, Types, FrameInv, Work
  <1>3. ReplyInv' /\ TxInv' /\ SendsInv'
    BY <1>1 DEF IInv, vars, ReplyInv, TxInv, SendsInv, Work
  <1>4. BufferInv'
    BY <1>1 DEF IInv, vars, BufferInv
  <1>. QED  BY <1>2, <1>3, <1>4 DEF IInv

LEMMA InvStep == Timely /\ IInv /\ [Next]_vars => IInv'
  <1>. SUFFICES ASSUME Timely, IInv, [Next]_vars PROVE IInv'
    OBVIOUS
  <1>1. CASE Interrupt
    BY <1>1, RecvByteStep, TimerExpiredStep, SendCompletedStep, TickStep DEF Interrupt
  <1>2. CASE Poll
    BY <1>2, PollReceivedStep, PollCopiedStep, PollParseStep, PollParsedStep, PollReadyStep,
       PollSentStep, PollGapStep DEF Poll
  <1>3. CASE Application
    BY <1>3, SetTransmitterStep, DirectSendStep, DirectSentStep, DirectGapStep,
       SetTransmitterCacheStep, ClearTransmitterStep DEF Application
  <1>4. CASE UNCHANGED vars
    BY <1>4, Stutter
  <1>. QED  BY <1>1, <1>2, <1>3, <1>4 DEF Next

-----------------------------------------------------------------------------
(* What follows from it.                                                   *)

LEMMA AlwaysInv == Timely => (Spec => []IInv)
  <1>. SUFFICES ASSUME Timely PROVE Spec => []IInv
    OBVIOUS
  <1>1. Init => IInv
    BY InvInit
  <1>2. IInv /\ [Next]_vars => IInv'
    BY InvStep
  <1>. QED  BY <1>1, <1>2, PTL DEF Spec

\* The bound on the sends: those of the state the transmitter will have.
LEMMA SendsAreBounded ==
  ASSUME IInv
  PROVE  SendsBounded
  <1>. SUFFICES ASSUME tx.pos = 1 PROVE sends <= tx.max + 1
    BY DEF SendsBounded
  <1>1. Types /\ ReplyInv /\ TxInv /\ SendsInv
    BY DEF IInv
  <1>2. tx.count \in Nat /\ tx.max \in Nat /\ tx.count <= tx.max
    BY <1>1 DEF Types, Transmits, TxInv
  <1>3. State \in {"ready", "busy", "wait_ack"}
    BY <1>1 DEF Types, Transmits, Mains, TxStates, State, TxInv
  <1>4. State = "busy" => Underway \/ Queued
    BY <1>1 DEF State, Replying, ReplyInv, TxInv
  <1>5. sends \in {tx.count, tx.count + 1}
    BY <1>1, <1>3, <1>4 DEF SendsInv
  <1>. QED  BY <1>2, <1>5

(* Fields in their ranges and no byte beyond the capacity; a cached message *)
(* is sent at most retrans_count + 1 times; an event in the queue always    *)
(* finds the message it was posted for (called_per_tick, poll,              *)
(* set_transmitter, set_transmitter_cache, clear_transmitter).              *)
THEOREM SendsAreSound == Timely => (Spec => []SendsSound)
  <1>. SUFFICES ASSUME Timely PROVE Spec => []SendsSound
    OBVIOUS
  <1>1. IInv => SendsSound
    <2>. SUFFICES ASSUME IInv PROVE SendsSound
      OBVIOUS
    <2>1. Types /\ ReplyInv /\ TxInv /\ SendsInv /\ BufferInv
      BY DEF IInv
    <2>2. TypeOK
      <3>1. events \in Seq({Received, TransmitterReady}) /\ Len(events) <= EventDepth
        BY <2>1, QueueOps, Constants DEF Types, Timely, R, T
      <3>2. preceiver \in Buffers
        BY <2>1 DEF BufferInv, Types, Handlers
      <3>3. /\ tx \in [state : TxStates, pos : {0, 1}, count : Nat, max : Nat, ack : Nat,
                       cur : Nat, type : TxTypes]
            /\ tx.cur <= tx.ack
        BY <2>1 DEF Types, Transmits, TxInv
      <3>4. main.pc \in MainPcs /\ main.old \in TxStates
        BY <2>1 DEF Types, Mains
      <3>5. rxbuf \in [Buffers -> [state : {"idle", "busy", "error"}, pos : 0 .. Capacity,
                                   frame : 0 .. MaxFrames]]
        BY <2>1 DEF Types, Receives
      <3>. QED  BY <2>1, <3>1, <3>2, <3>3, <3>4, <3>5 DEF TypeOK, Types
    <2>3. SendsBounded
      BY SendsAreBounded
    <2>4. EventHasMessage
      <3>. SUFFICES ASSUME \E i \in 1 .. Len(events) : events[i] = TransmitterReady
                    PROVE  tx.pos = 1 /\ tx.state # "ready"
        BY DEF EventHasMessage
      <3>1. Queued
        <4>1. events \in Queues
          BY <2>1 DEF Types
        <4>. QED  BY <4>1, QueueOps DEF Queued, ReadyIndex, T
      <3>2. State \in {"busy", "wait_ack"} /\ tx.pos = 1
        BY <2>1, <3>1 DEF TxInv
      <3>3. tx.state # "ready"
        BY <2>1, <3>2 DEF State, Replying, ReplyInv
      <3>. QED  BY <3>2, <3>3
    <2>. QED  BY <2>2, <2>3, <2>4 DEF SendsSound
  <1>. QED  BY <1>1, AlwaysInv, PTL

(* Every packet handed to the parser is the oldest frame received whole and *)
(* not parsed yet, unmixed and with its own length.                         *)
THEOREM EachFrameIsParsedOnce == Timely => (Spec => ParsedOnceInOrder)
  <1>. SUFFICES ASSUME Timely PROVE Spec => ParsedOnceInOrder
    OBVIOUS
  <1>. DEFINE P == /\ whole # <<>>
                   /\ main.first = Head(whole).frame /\ main.second = Head(whole).frame
                   /\ main.len = Head(whole).len
  <1>1. IInv /\ PollParse => P
    <2>. SUFFICES ASSUME IInv, PollParse PROVE P
      OBVIOUS
    <2>. DEFINE f == [frame |-> rxbuf[processer].frame, len |-> rxbuf[processer].pos]
    <2>1. /\ whole = <<f>> /\ main.first = f.frame /\ main.second = f.frame /\ main.len = f.len
      BY DEF IInv, BufferInv, PollParse, Unparsed
    <2>. HIDE DEF f
    <2>2. <<f>> # << >> /\ Head(<<f>>) = f
      BY ShortQueues
    <2>. QED  BY <2>1, <2>2
  <1>2. IInv /\ [Next]_vars => [PollParse => P]_vars
    BY <1>1
  <1>. QED  BY <1>2, AlwaysInv, PTL DEF Spec, ParsedOnceInOrder

\* Only the tick and the application take a cached message out of the cache.
LEMMA OtherwiseCached ==
  ASSUME tx \in Transmits, tx.state # "idle", Next, tx'.pos # tx.pos
  PROVE  Tick \/ ClearTransmitter
  <1>1. CASE RecvByte \/ TimerExpired \/ SendCompleted
    BY <1>1 DEF RecvByte, TimerExpired, SendCompleted, Transmits
  <1>2. CASE Poll
    BY <1>2 DEF Poll, PollReceived, PollCopied, PollParse, PollParsed, PollReady, PollSent,
                PollGap, Transmits
  <1>3. CASE SetTransmitter \/ DirectSend \/ DirectSent \/ DirectGap
    BY <1>3 DEF SetTransmitter, DirectSend, DirectSent, DirectGap, Transmits
  <1>4. CASE \E r \in Retrans, a \in AckTicks : SetTransmitterCache(r, a)
    BY <1>4 DEF SetTransmitterCache
  <1>. QED  BY <1>1, <1>2, <1>3, <1>4 DEF Next, Interrupt, Application

(* The tick drops a cached message only when all its transmissions have     *)
(* been made.                                                               *)
THEOREM NoMessageIsDropped == Timely => (Spec => NoSilentDrop)
  <1>. SUFFICES ASSUME Timely PROVE Spec => NoSilentDrop
    OBVIOUS
  <1>1. IInv /\ [Next]_vars => [TickGiveUp /\ tx.pos = 1 => sends = tx.max + 1]_vars
    <2>. SUFFICES ASSUME IInv, Next, TickGiveUp, tx.pos = 1, ~ UNCHANGED vars
                  PROVE  sends = tx.max + 1
      OBVIOUS
    <2>1. Types /\ ReplyInv /\ TxInv /\ SendsInv
      BY DEF IInv
    <2>2. /\ tx.state = "wait_ack" /\ ~ Suspended /\ difs = 0 /\ GivesUp /\ tx' = Cleared(tx)
          /\ tx'.pos = 0
      BY <2>1, ClearedTypes DEF TickGiveUp, Types
    <2>3. Tick \/ ClearTransmitter
      BY <2>1, <2>2, OtherwiseCached DEF Types
    <2>4. ~ Queued /\ main.pc \notin {"direct", "replying"}
      <3>1. CASE Tick
        BY <2>1, <2>2, <3>1, TickFinds DEF Replying
      <3>2. CASE ClearTransmitter
        <4>1. events \in Queues /\ \A i \in 1 .. Len(events) : events[i] # T
          BY <2>1, <3>2 DEF Types, ClearTransmitter, T
        <4>. QED  BY <3>2, <4>1, QueueOps DEF ClearTransmitter, AppTurn, Queued, ReadyIndex
      <3>. QED  BY <2>3, <3>1, <3>2
    <2>5. sends = tx.count + 1
      BY <2>1, <2>2, <2>4 DEF SendsInv, State, Replying
    <2>6. tx.count = tx.max
      BY <2>1, <2>2 DEF GivesUp, Types, Transmits, TxInv
    <2>. QED  BY <2>5, <2>6
  <1>. QED  BY <1>1, AlwaysInv, PTL DEF Spec, NoSilentDrop

(* The tick repeats or drops a message only when the answer had             *)
(* wait_ack_ticks to come since the message's last transmission was out.    *)
THEOREM AnswersGetTheirTime == Timely => (Spec => AnswerHasTime)
  <1>. SUFFICES ASSUME Timely PROVE Spec => AnswerHasTime
    OBVIOUS
  <1>1. IInv /\ (TickRetry \/ TickGiveUp) /\ tx.pos = 1 => since + 1 >= tx.ack
    <2>. SUFFICES ASSUME IInv, TickRetry \/ TickGiveUp, tx.pos = 1 PROVE since + 1 >= tx.ack
      OBVIOUS
    <2>1. /\ tx.cur \in Nat /\ tx.ack \in Nat /\ since \in Nat /\ tx.cur <= since
      <3>1. MaxSince \in Nat
        BY SinceCap
      <3>. QED  BY <3>1 DEF IInv, Types, Transmits, SendsInv
    <2>2. ~ (NextCur < tx.ack)
      BY DEF TickRetry, TickGiveUp, StillWaiting
    <2>. QED  BY <2>1, <2>2 DEF NextCur
  <1>2. IInv /\ [Next]_vars =>
          [(TickRetry \/ TickGiveUp) /\ tx.pos = 1 => since + 1 >= tx.ack]_vars
    BY <1>1
  <1>. QED  BY <1>2, AlwaysInv, PTL DEF Spec, AnswerHasTime
=============================================================================
