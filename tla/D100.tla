-------------------------------- MODULE D100 --------------------------------
(***************************************************************************)
(* drv/d100.c: a face module on a serial line.  The interrupt puts packets *)
(* together byte by byte in one of two buffers; the application writes a   *)
(* request, may write no other until it has read the reply, and reads.     *)
(*                                                                         *)
(* A packet is sync word, id, size, data and parity.  Bytes are small      *)
(* numbers, and parity is their sum; the size is one byte, and data counts *)
(* the packets.                                                            *)
(***************************************************************************)
EXTENDS Naturals, SequencesExt, PingPong

CONSTANTS
  BufLen,       \* 256, of a buffer,
  MaxAsked, MaxNotes, \* bounds on requests and on what the module tells unasked,
  Junk,         \* environment: "plain" bytes between packets, "sync" those that are half
                \* a sync word, "garbled" bytes of a packet,
  MaxJunk,
  MaxUnread,    \* environment: packets sent and not read.  The buffer to write to is chosen
                \* by the one read last, so a second packet is written over one nobody has
                \* taken, and over one that is being read: 1 means the module does not send it
  ReopenStale,  \* the device is opened again with a packet left in the buffer it begins with,
  ResetAgain,   \* a reset before the reply to the last one,
  TwoTasks      \* one task reads while another one writes

D100Assumption ==
  /\ BufLen \in Nat /\ BufLen > 6 /\ MaxUnread \in Nat \ {0}
  /\ ResetAgain \in BOOLEAN /\ ReopenStale \in BOOLEAN /\ TwoTasks \in BOOLEAN
  /\ Junk \subseteq {"plain", "sync", "garbled"}

VARIABLES
  d1,       \* the receiver: its static state, cur_buffer, the buffers, the pingpong handler;
            \* over: a byte went past the end of a buffer
  d1Status, \* status.state and status.msgid
  d1Call,   \* [at, buffer, done] of _read, and the request being written
  d1Line,   \* the bytes on their way
  d1Module, \* the module: requests to answer, packets sent and not read, counts
  d1Read    \* history: the packets read, in their order

d1Vars == <<d1, d1Status, d1Call, d1Line, d1Module, d1Read>>

Hi == 9
Lo == 8
Other == 7
Sum(seq) == FoldLeft(LAMBDA a, b : a + b, 0, seq) % 16
Reply == 0
Note == 1

\* The packet number n: a reply to request id, or a note.  Its data is id and n.
Wire(kind, id, n) == LET body == <<kind, 2, id, n>> IN <<Hi, Lo>> \o body \o <<Sum(body)>>

FirstBuffer(r) == LET pp == GetWriteBuf(NewHandler) IN [r EXCEPT !.cur = pp.write, !.pp = pp]

D1Init == /\ d1 = [fsm |-> "sync", buf |-> [b \in Buffers |-> [i \in 1 .. BufLen |-> 0]],
                   offset |-> [b \in Buffers |-> 0], expected |-> [b \in Buffers |-> 0],
                   cur |-> GetWriteBuf(NewHandler).write, pp |-> GetWriteBuf(NewHandler), over |-> FALSE]
          /\ d1Status = [wait |-> FALSE, msgid |-> 0]
          /\ d1Call = [at |-> "idle", buffer |-> 0, packet |-> <<>>, writing |-> 0]
          /\ d1Line = <<>>
          /\ d1Module = [todo |-> <<>>, unread |-> 0, asked |-> 0, notes |-> 0, sent |-> 0, junk |-> 0, lost |-> FALSE]
          /\ d1Read = <<>>

-----------------------------------------------------------------------------
(* The interrupt: __recv_fsm_in_irq and _irq_handler.                      *)
Offset(r) == r.offset[r.cur]
Put(r, byte) == IF Offset(r) >= BufLen THEN [r EXCEPT !.over = TRUE]
                ELSE [r EXCEPT !.buf[r.cur][Offset(r) + 1] = byte, !.offset[r.cur] = @ + 1]
To(r, fsm) == [r EXCEPT !.fsm = fsm]
Drop(r) == [r EXCEPT !.offset[r.cur] = 0]

SyncWord(r, byte) ==
  CASE byte \notin {Hi, Lo} -> Drop(r)
    [] byte = Hi -> Put(r, byte)
    [] OTHER -> To(Put(r, byte), "msgid")

Size(r, byte) ==
  LET s == Put(r, byte)
  IN  IF Offset(s) # 4 THEN s
      ELSE CASE byte > BufLen -> To(Drop(s), "sync")
             [] byte = 0 -> To([s EXCEPT !.expected[r.cur] = 0], "parity")
             [] OTHER -> To([s EXCEPT !.expected[r.cur] = byte], "data")

\* Mutant: one byte too few.
OneLess(r) == Offset(r) >= 4 + r.expected[r.cur] - 1
Complete(r) == Offset(r) >= 4 + r.expected[r.cur]
DataByte(r, byte) == LET s == Put(r, byte) IN IF Complete(s) THEN To(s, "parity") ELSE s

\* Unlike the other failures a wrong parity leaves what was received in the buffer.
Parity(r, byte) == To(Put(r, byte), "sync")
Right(r) == r.buf[r.cur][Offset(r)] = Sum(SubSeq(r.buf[r.cur], 3, Offset(r) - 1))

Recv(r, byte) == CASE r.fsm = "sync" -> SyncWord(r, byte)
                   [] r.fsm = "msgid" -> To(Put(r, byte), "size")
                   [] r.fsm = "size" -> Size(r, byte)
                   [] r.fsm = "data" -> DataByte(r, byte)
                   [] r.fsm = "parity" -> Parity(r, byte)

NextBuffer(r) == LET pp == GetWriteBuf(SetWriteDone(r.pp))
                 IN  [r EXCEPT !.pp = pp, !.cur = pp.write, !.offset[pp.write] = 0, !.expected[pp.write] = 0]

Irq == /\ d1Line # <<>> /\ ~d1.over
       /\ LET r == Recv(d1, Head(d1Line))
          IN  d1' = IF d1.fsm = "parity" /\ Right(r) THEN NextBuffer(r) ELSE r
       /\ d1Line' = Tail(d1Line)
       /\ UNCHANGED <<d1Status, d1Call, d1Module, d1Read>>

-----------------------------------------------------------------------------
(* _write, of any of its messages.                                         *)
Free == d1Call.at = "idle" \/ TwoTasks
Request(id) ==
  /\ Free /\ d1Call.writing = 0 /\ d1Module.asked < MaxAsked
  /\ ~d1Status.wait
  /\ d1Call' = [d1Call EXCEPT !.writing = id]
  /\ d1Module' = [d1Module EXCEPT !.asked = @ + 1, !.todo = Append(@, id), !.lost = FALSE]
  /\ UNCHANGED <<d1, d1Status, d1Line, d1Read>>

\* A reset is written whatever is waited for.
Waits(id) == [wait |-> TRUE, msgid |-> id]
Reset(id) ==
  /\ d1Status # Waits(id) \/ ResetAgain
  /\ Free /\ d1Call.writing = 0 /\ d1Module.asked < MaxAsked
  /\ d1Call' = [d1Call EXCEPT !.writing = id]
  /\ d1Module' = [d1Module EXCEPT !.asked = @ + 1, !.todo = <<id>>, !.lost = FALSE]
  /\ UNCHANGED <<d1, d1Status, d1Line, d1Read>>

WrittenDone == /\ d1Call.writing # 0
               /\ d1Status' = Waits(d1Call.writing)
               /\ d1Call' = [d1Call EXCEPT !.writing = 0]
               /\ UNCHANGED <<d1, d1Line, d1Module, d1Read>>

\* IOCTL_D100_CLEAR_STATUS, when no reply is going to come.
ClearStatus == /\ Free /\ d1Status.wait /\ d1Module.lost
               /\ d1Status' = [d1Status EXCEPT !.wait = FALSE]
               /\ d1Module' = [d1Module EXCEPT !.lost = FALSE]
               /\ UNCHANGED <<d1, d1Call, d1Line, d1Read>>

-----------------------------------------------------------------------------
(* _read                                                                   *)
ReadBegin == /\ d1Call.at = "idle" /\ (TwoTasks \/ d1Call.writing = 0)
             /\ SomethingToRead(d1.pp)
             /\ d1' = [d1 EXCEPT !.pp = GetReadBuf(@)]
             /\ d1Call' = [d1Call EXCEPT !.at = "copy", !.buffer = d1'.pp.read]
             /\ UNCHANGED <<d1Status, d1Line, d1Module, d1Read>>

Copy == /\ d1Call.at = "copy"
        /\ d1Call' = [d1Call EXCEPT !.at = "done", !.packet = SubSeq(d1.buf[d1Call.buffer], 1, 5 + d1.buf[d1Call.buffer][4])]
        /\ UNCHANGED <<d1, d1Status, d1Line, d1Module, d1Read>>

\* Mutant: whichever request it answers.
AnyReply(packet) == packet[3] = Reply
Answers(packet) == packet[3] = Reply /\ d1Status.wait /\ packet[5] = d1Status.msgid
\* The message is taken from the buffer again after it was given back.
ReadDone ==
  LET packet == d1Call.packet
      answers == Answers(d1.buf[d1Call.buffer])
  IN  /\ d1Call.at = "done"
      /\ d1' = [d1 EXCEPT !.pp = SetReadDone(@)]
      /\ d1Call' = [d1Call EXCEPT !.at = "idle"]
      /\ d1Status' = IF answers THEN [wait |-> FALSE, msgid |-> 0] ELSE d1Status
      /\ d1Module' = [d1Module EXCEPT !.unread = @ - 1]
      /\ d1Read' = Append(d1Read, packet)
      /\ UNCHANGED d1Line

\* _close, power off and on, _open, or another baud rate: what the module knew and what
\* is on the line is gone; the receiver's state, the offsets and the status stay.
Reopen ==
  /\ d1Call.at = "idle" /\ d1Call.writing = 0 /\ d1Module.junk < MaxJunk
  /\ ReopenStale \/ (d1.fsm = "sync" /\ FirstBuffer(d1).offset[FirstBuffer(d1).cur] = 0)
  /\ d1' = FirstBuffer(d1) /\ d1Line' = <<>>
  /\ d1Module' = [d1Module EXCEPT !.todo = <<>>, !.unread = 0, !.lost = d1Status.wait, !.junk = @ + 1,
                                  !.sent = Len(d1Read)]
  /\ UNCHANGED <<d1Status, d1Call, d1Read>>

-----------------------------------------------------------------------------
(* The module and the line.                                                *)
Send(packet) == /\ d1Module.unread < MaxUnread
                /\ d1Line' = d1Line \o packet
                /\ UNCHANGED <<d1, d1Status, d1Call, d1Read>>

SendReply == /\ d1Module.todo # <<>>
             /\ Send(Wire(Reply, Head(d1Module.todo), d1Module.sent + 1))
             /\ d1Module' = [d1Module EXCEPT !.todo = Tail(@), !.unread = @ + 1, !.sent = @ + 1]
SendNote == /\ d1Module.notes < MaxNotes
            /\ Send(Wire(Note, 0, d1Module.sent + 1))
            /\ d1Module' = [d1Module EXCEPT !.notes = @ + 1, !.unread = @ + 1, !.sent = @ + 1]

LoseReply == /\ d1Module.todo # <<>> /\ d1Call.writing = 0 /\ d1Module.unread = 0
             /\ d1Module' = [d1Module EXCEPT !.todo = <<>>, !.lost = TRUE]
             /\ UNCHANGED <<d1, d1Status, d1Call, d1Line, d1Read>>

Noise == /\ d1Module.junk < MaxJunk
         /\ d1Module' = [d1Module EXCEPT !.junk = @ + 1]
         /\ \/ d1Line = <<>> /\ d1.fsm = "sync" /\ d1Line' = <<Other>> /\ "plain" \in Junk
            \/ d1Line = <<>> /\ d1Line' \in {<<Hi>>, <<Lo>>} /\ "sync" \in Junk
            \/ d1Line # <<>> /\ d1Line' = <<Other>> \o Tail(d1Line) /\ "garbled" \in Junk
         /\ UNCHANGED <<d1, d1Status, d1Call, d1Read>>

D1Next == \/ Irq \/ WrittenDone \/ ClearStatus \/ ReadBegin \/ Copy \/ ReadDone
          \/ Reopen \/ SendReply \/ SendNote \/ LoseReply \/ Noise
          \/ \E id \in {2, 3} : Request(id)
          \/ Reset(4)
D1Spec == D1Init /\ [][D1Next]_d1Vars

-----------------------------------------------------------------------------
(* What is read are packets the module sent, each once, whole and in their *)
(* order, and none of them is missing once nothing is on its way, through  *)
(* noise, reopening and requests that are given up; as long as the module  *)
(* sends no packet before the last one was read.                           *)
PacketsReadInOrder ==
  /\ \A i \in DOMAIN d1Read :
       \E kind \in {Reply, Note}, id \in {0, 2, 3, 4} : d1Read[i] = Wire(kind, id, i)
  /\ (d1Line = <<>> /\ d1Module.unread > 0) => SomethingToRead(d1.pp)
  /\ ~d1.over

(* The driver waits for a reply as long as one is due, and no longer: when *)
(* every reply was read it takes the next request.                         *)
WaitsWhileDue ==
  d1Call.writing = 0 =>
    /\ d1Module.todo # <<>> => d1Status.wait
    /\ (d1Module.todo = <<>> /\ d1Module.unread = 0) => d1Status.wait = d1Module.lost
=============================================================================
