------------------------------- MODULE Silkid -------------------------------
(***************************************************************************)
(* drv/silkid.c: a fingerprint module on a serial line.  One buffer holds  *)
(* the packet that goes out and the one that comes in: a command puts its  *)
(* packet together, writes it, and polls the buffer until an interrupt has *)
(* filled it or the time is up.  Interrupts bring bytes in blocks; a       *)
(* packet counts when start, end and checksum are right.                   *)
(*                                                                         *)
(* The module on the other side answers what it hears, answers a delete of *)
(* all in its own time, and tells of fingers unasked.                      *)
(***************************************************************************)
EXTENDS Naturals, SequencesExt

CONSTANTS
  SkCommands,   \* the commands used,
  PackLen,      \* SILKID_NORMAL_PACKET_LENGTH, scaled,
  SkPolls,      \* timeoutms, the polls of a command,
  MaxRequests, MaxEvents, SkFaults, \* bounds on commands, fingers, and bytes lost or garbled
  MaxBlock,     \* environment: bytes in one interrupt,
  Straddling,   \* one interrupt brings bytes of two packets,
  LateAnswers,  \* an answer comes after its command gave up,
  Chatter       \* when the module speaks unasked: "quiet" while no command runs,
                \* "waiting" also while one polls, "any" also while one is put together

SilkidAssumption ==
  /\ PackLen \in Nat /\ PackLen > 2 /\ SkPolls \in Nat \ {0} /\ MaxBlock \in Nat \ {0}
  /\ LateAnswers \in BOOLEAN /\ Straddling \in BOOLEAN /\ Chatter \subseteq {"quiet", "waiting", "any"}

VARIABLES
  sk,       \* silkid_normal_recv_t: buf up to offset, status BUSY, iswrite; over: past its end
  skCall,   \* the command that runs: [op, at, n, polls], and the result of the last one
  skLine,   \* the bytes on their way to the driver
  skModule, \* the module: what it still has to answer, and counts; when it speaks
  skTold    \* history: the packets the irq handler was told of

skVars == <<sk, skCall, skLine, skModule, skTold>>

Quiet == [buf |-> <<>>, busy |-> FALSE, iswrite |-> FALSE, over |-> FALSE]
NoResult == [op |-> "none", what |-> "none", got |-> <<>>]
SkInit == /\ sk = Quiet /\ skLine = <<>> /\ skTold = <<>>
          /\ skCall = [op |-> "none", at |-> "idle", polls |-> 0, last |-> NoResult]
          /\ \E when \in Chatter :
               skModule = [asked |-> 0, answers |-> {}, sent |-> 0, events |-> 0, faults |-> 0, when |-> when]

\* A packet: of request or event n; twin: a byte inside looks like a start.
Bytes(p) == [i \in 1 .. PackLen |-> [p |-> p, i |-> i, ok |-> TRUE]]
Packet(kind, n, flag, twin) == [kind |-> kind, n |-> n, flag |-> flag, twin |-> twin]

-----------------------------------------------------------------------------
(* The interrupt.                                                          *)
Starts(b) == b.ok /\ (b.i = 1 \/ (b.p.twin /\ b.i = 2))
Ends(b) == b.ok /\ b.i = PackLen
\* Mutant: every checksum is right.
Unchecked(buf) == TRUE
\* The checksum is right when all bytes are of one packet.
Sound(buf) == \A i \in DOMAIN buf : buf[i] = [p |-> buf[1].p, i |-> i, ok |-> TRUE]
\* What a receiver reads in it: number 0 is none that was sent.
Content(buf) == IF \A i \in DOMAIN buf : buf[i].ok THEN buf[1].p ELSE [buf[1].p EXCEPT !.n = 0]
Cleared(r) == [r EXCEPT !.buf = <<>>, !.busy = FALSE, !.iswrite = FALSE]

Take(r, b) == IF Len(r.buf) >= PackLen THEN [r EXCEPT !.over = TRUE]
              ELSE [r EXCEPT !.buf = Append(@, b)]
Checked(r) == IF Len(r.buf) # PackLen THEN r
              ELSE IF Ends(Last(r.buf)) /\ Sound(r.buf) THEN [r EXCEPT !.busy = TRUE]
                   ELSE Cleared(r)

\* silkid_irq_recv_pack: a packet nobody has taken makes room for the next one.
RecvPack(state, b) ==
  LET r == IF state.busy THEN Cleared(state) ELSE state
  IN  IF (state.busy /\ state.iswrite) \/ state.over THEN state
      ELSE IF r.buf = <<>> /\ ~Starts(b) THEN r
           ELSE IF Len(r.buf) >= PackLen THEN Take(r, b) ELSE Checked(Take(r, b))

\* silkid_irq_handler: a block of bytes, and then one look at what there is: of a packet
\* that ends inside the block the next one has left nothing.
Irq(n) ==
  LET r == FoldLeft(RecvPack, sk, SubSeq(skLine, 1, n))
      p == Content(r.buf)
      told == r.busy /\ p.kind \in {"finger", "all deleted"}
  IN  /\ n <= Len(skLine) /\ (Straddling \/ \A i \in 1 .. n : skLine[i].p = skLine[1].p)
      /\ skLine' = SubSeq(skLine, n + 1, Len(skLine))
      /\ sk' = IF told THEN Cleared(r) ELSE r
      /\ skTold' = IF told THEN Append(skTold, p) ELSE skTold
      /\ UNCHANGED <<skCall, skModule>>

-----------------------------------------------------------------------------
(* The commands.                                                           *)
Go(at) == skCall' = [skCall EXCEPT !.at = at]
Return(what, got) ==
  /\ skCall' = [op |-> "none", at |-> "idle", polls |-> 0,
                last |-> [op |-> skCall.op, what |-> what, got |-> got]]
  /\ sk' = Cleared(sk)

\* __silkid_make_general_packet writes over whatever the buffer holds.
Make(op) ==
  /\ skCall.at = "idle" /\ skModule.asked < MaxRequests
  /\ skModule.when # "any" => skLine = <<>>
  /\ skModule' = [skModule EXCEPT !.asked = @ + 1]
  /\ sk' = [sk EXCEPT !.buf = Bytes(Packet(op, skModule.asked + 1, TRUE, FALSE))]
  /\ skCall' = [skCall EXCEPT !.op = op, !.at = "made", !.polls = SkPolls]
  /\ UNCHANGED <<skLine, skTold>>

Write == /\ skCall.at = "made" /\ Go("writing")
         /\ sk' = [sk EXCEPT !.iswrite = TRUE]
         /\ UNCHANGED <<skLine, skModule, skTold>>

\* __silkid_write, __silkid_write_with_data: what the buffer holds goes out, and it is cleared.
Written ==
  /\ skCall.at = "writing" /\ sk' = Cleared(sk)
  /\ skModule' = IF Len(sk.buf) = PackLen /\ Sound(sk.buf)
                 THEN [skModule EXCEPT !.answers = @ \cup {[n |-> sk.buf[1].p.n, op |-> skCall.op]}]
                 ELSE skModule
  /\ IF skCall.op = "delete all"
     THEN skCall' = [op |-> "none", at |-> "idle", polls |-> 0,
                     last |-> [op |-> skCall.op, what |-> "written", got |-> <<>>]]
     ELSE Go("polling")
  /\ UNCHANGED <<skLine, skTold>>

\* Mutant: the flag is not looked at.
AlwaysOk(op, flag) == "ok"
\* delete_user_template begins with CY_EOK, and stays there when the flag is a failure.
Told(op, flag) == IF flag \/ op = "delete user" THEN "ok" ELSE "error"

\* A poll: the buffer has a packet, whichever it is, or another millisecond goes by.
Poll ==
  /\ skCall.at = "polling"
  /\ IF sk.busy THEN Return(Told(skCall.op, sk.buf[1].p.flag), Content(sk.buf))
     ELSE IF skCall.polls > 0
          THEN skCall' = [skCall EXCEPT !.polls = @ - 1] /\ UNCHANGED sk
          ELSE Return("timeout", <<>>) /\ (~LateAnswers => skLine = <<>>)
  /\ skModule' = IF ~sk.busy /\ skCall.polls = 0 /\ ~LateAnswers
                 THEN [skModule EXCEPT !.answers = {a \in @ : a.op = "delete all"}] ELSE skModule
  /\ UNCHANGED <<skLine, skTold>>

-----------------------------------------------------------------------------
(* The module and the line.                                                *)
May == \/ skCall.at = "idle"
       \/ skCall.at = "polling" /\ skModule.when # "quiet"
       \/ skModule.when = "any"

Answer(a, flag, twin) ==
  /\ a \in skModule.answers /\ \A b \in skModule.answers : b.op = a.op => a.n <= b.n
  /\ a.op = "delete all" => May
  /\ skModule' = [skModule EXCEPT !.answers = @ \ {a}, !.sent = IF a.op = "delete all" THEN @ + 1 ELSE @]
  /\ skLine' = skLine \o Bytes(Packet(IF a.op = "delete all" THEN "all deleted" ELSE "answer", a.n, flag, twin))
  /\ UNCHANGED <<sk, skCall, skTold>>

Finger(twin) ==
  /\ May /\ skModule.events < MaxEvents
  /\ skModule' = [skModule EXCEPT !.events = @ + 1, !.sent = @ + 1]
  /\ skLine' = skLine \o Bytes(Packet("finger", MaxRequests + skModule.events + 1, TRUE, twin))
  /\ UNCHANGED <<sk, skCall, skTold>>

\* The next byte is lost, or no byte of its packet any more.
Noise == /\ skLine # <<>> /\ skModule.faults < SkFaults
         /\ skModule' = [skModule EXCEPT !.faults = @ + 1]
         /\ skLine' \in {Tail(skLine), <<[skLine[1] EXCEPT !.ok = FALSE]>> \o Tail(skLine)}
         /\ UNCHANGED <<sk, skCall, skTold>>

\* silkid_close and silkid_open, or another baud rate: what is on the line is gone,
\* what the buffer has of it stays.
Reopen == /\ skCall.at = "idle" /\ skModule.faults < SkFaults
          /\ skLine' = <<>> /\ skModule' = [skModule EXCEPT !.faults = @ + 1]
          /\ UNCHANGED <<sk, skCall, skTold>>

SkNext == \/ \E op \in SkCommands : Make(op)
          \/ Write \/ Written \/ Poll \/ Noise \/ Reopen
          \/ \E n \in 1 .. MaxBlock : Irq(n)
          \/ \E twin \in BOOLEAN : \/ Finger(twin)
                                   \/ \E flag \in BOOLEAN, a \in skModule.answers : Answer(a, flag, twin)
SkSpec == SkInit /\ [][SkNext]_skVars

-----------------------------------------------------------------------------
(* A command that reports success was answered, and with success: by the   *)
(* module, to this very request; only delete_user_template cannot tell the *)
(* two answers apart.  The buffer is never run over.                       *)
AnswerIsMine ==
  /\ skCall.last.what = "ok" => /\ skCall.last.got.kind = "answer"
                                /\ skCall.last.op # "delete user" => skCall.last.got.flag
                                /\ skCall.at = "idle" => skCall.last.got.n = skModule.asked
  /\ ~sk.over

(* What the module tells unasked reaches the handler once and in order;    *)
(* all of it does when no byte was lost, it speaks between commands, and   *)
(* no interrupt brings the end of a packet together with the next one.     *)
EventsToldOnce ==
  /\ \A i \in DOMAIN skTold : skTold[i].n > 0
  /\ \A i, j \in DOMAIN skTold : i < j /\ skTold[i].kind = skTold[j].kind => skTold[i].n < skTold[j].n
  /\ (skModule.when = "quiet" /\ skModule.faults = 0 /\ skLine = <<>>) => Len(skTold) = skModule.sent
=============================================================================
