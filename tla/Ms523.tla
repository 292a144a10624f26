------------------------------- MODULE Ms523 -------------------------------
(***************************************************************************)
(* drv/ms523.c: a reader of ISO 14443 A cards.  A call writes the chip's   *)
(* registers, has it send a frame, and waits for the answer, the chip's    *)
(* timer or 25 ms.  How many bits of the last byte are sent is a register  *)
(* that request and anticoll set, and select and halt leave as it is.      *)
(*                                                                         *)
(* Cards in the field are those of the standard: idle, ready, active or    *)
(* halted; woken from halt they fall back to halt, otherwise to idle.      *)
(***************************************************************************)
EXTENDS Integers, FiniteSets

CONSTANTS
  Cards, NoCard,
  MaxNoise,     \* bound on frames that get lost and answers that get garbled
  EmptyAnswers  \* the chip ends a command without an error and without data

Ms523Assumption == /\ NoCard \notin Cards /\ MaxNoise \in Nat
                   /\ EmptyAnswers \in BOOLEAN

VARIABLES
  ms,      \* the reader: open, BIT_FRAMING, and card_id
  msCards, \* [Cards -> [at, woken: from halt]]
  msLast,  \* the last call: [op, result, id: what anticoll gave]
  msNoise  \* history: how much noise there was, and if there was any in the last call

msVars == <<ms, msCards, msLast, msNoise>>

Ok == 0        \* CY_EOK, and the negative codes
Error == -1
TimeOut == -2

Away == [at |-> "away", woken |-> FALSE]
MsInit == /\ ms = [open |-> FALSE, bits |-> "all", card |-> NoCard]
          /\ msCards = [c \in Cards |-> Away]
          /\ msLast = [op |-> "none", result |-> Ok, id |-> NoCard, used |-> NoCard]
          /\ msNoise = [n |-> 0, now |-> FALSE]

-----------------------------------------------------------------------------
(* The cards, external.                                                    *)
FallBack(card) == IF card.at \in {"ready", "active"}
                  THEN [card EXCEPT !.at = IF card.woken THEN "halt" ELSE "idle"] ELSE card

Understood(f) == f.bits = IF f.what \in {"idle", "all"} THEN "7" ELSE "all"

Hears(c, f) ==
  LET card == msCards[c]
      becomes(at) == [card EXCEPT !.at = at]
  IN  IF ~Understood(f) THEN FallBack(card)
      ELSE CASE f.what \in {"idle", "all"} /\ card.at = "idle" -> [at |-> "ready", woken |-> FALSE]
             [] f.what = "all" /\ card.at = "halt" -> [at |-> "ready", woken |-> TRUE]
             [] f.what = "anticoll" /\ card.at = "ready" -> card
             [] f.what = "select" /\ card.at = "ready" /\ c = f.card -> becomes("active")
             [] f.what = "halt" /\ card.at = "active" -> becomes("halt")
             [] OTHER -> FallBack(card)

Answer(c, f) == /\ Understood(f)
                /\ \/ f.what \in {"idle", "all"} /\ Hears(c, f).at = "ready"
                   \/ f.what = "anticoll" /\ msCards[c].at = "ready"
                   \/ f.what = "select" /\ Hears(c, f).at = "active"

-----------------------------------------------------------------------------
(* ms523_pcd_write_cmd: what it can return, with the cards that answer.    *)
Bits(f) == CASE f.what \in {"idle", "all"} -> 16 [] f.what = "anticoll" -> 40 [] OTHER -> 24

\* Mutant: a collision is taken for an answer.
CollisionUnseen(f, answers) == IF answers = {} THEN {TimeOut} ELSE {Bits(f)}

\* The answers of several cards are the same, or collide.
Received(f, answers) ==
  CASE answers = {} -> {TimeOut}
    [] Cardinality(answers) = 1 -> {Bits(f)}
    [] Cardinality(answers) > 1 /\ f.what = "anticoll" -> {Error}
    [] OTHER -> {Bits(f), Error}

Noisy(f, answers) == IF answers = {} THEN {TimeOut}
                     ELSE {TimeOut, Error} \cup IF EmptyAnswers THEN {Ok} ELSE {}

\* f is sent with r received: by all cards and well, lost before them, or garbled after them.
WriteCmd(f, r) ==
  LET answers == {c \in Cards : Answer(c, f)}
      heard == [c \in Cards |-> Hears(c, f)]
  IN  \/ /\ r \in Received(f, answers)
         /\ msCards' = heard /\ msNoise' = [msNoise EXCEPT !.now = FALSE]
      \/ /\ msNoise.n < MaxNoise /\ msNoise' = [n |-> msNoise.n + 1, now |-> TRUE]
         /\ \/ r = TimeOut /\ UNCHANGED msCards
            \/ r \in Noisy(f, answers) /\ msCards' = heard

Outcomes == {TimeOut, Error, Ok, 16, 24, 40}
Tell(op, result, id, used) == msLast' = [op |-> op, result |-> result, id |-> id, used |-> used]
Frame(what, bits, card) == [what |-> what, bits |-> bits, card |-> card]

-----------------------------------------------------------------------------
(* The commands.                                                           *)
\* ms523_open resets the chip and switches the antenna off for 100 ms: the cards begin again.
Open == /\ ~ms.open /\ ms' = [ms EXCEPT !.open = TRUE, !.bits = "all"]
        /\ msCards' = [c \in Cards |-> IF msCards[c].at = "away" THEN Away ELSE [Away EXCEPT !.at = "idle"]]
        /\ msLast' = [msLast EXCEPT !.op = "none"] /\ UNCHANGED msNoise
Close == /\ ms.open /\ ms' = [ms EXCEPT !.open = FALSE] /\ UNCHANGED <<msCards, msLast, msNoise>>

Request(type) ==
  /\ ms.open /\ ms' = [ms EXCEPT !.bits = "7"]
  /\ \E r \in Outcomes : /\ WriteCmd(Frame(type, "7", NoCard), r)
                         /\ Tell("request", IF r = 16 THEN Ok ELSE Error, NoCard, NoCard)

Result(r) == IF r = 40 THEN Ok ELSE r
\* Nothing received is 0, and CY_EOK is 0: card_id stays what it was.
Anticoll ==
  /\ ms.open
  /\ \E r \in Outcomes, c \in Cards :
       LET f == Frame("anticoll", "all", NoCard)
       IN  /\ WriteCmd(f, r) /\ (r = 40 => Answer(c, f))
           /\ ms' = [ms EXCEPT !.bits = "all", !.card = IF r = 40 THEN c ELSE @]
           /\ Tell("anticoll", Result(r), ms'.card, NoCard)

Select ==
  /\ ms.open /\ UNCHANGED ms
  /\ \E r \in Outcomes : /\ WriteCmd(Frame("select", ms.bits, ms.card), r)
                         /\ Tell("select", IF r = 24 THEN Ok ELSE Error, NoCard, ms.card)

\* Nobody answers a halt; the call reports success whatever happens.
Halt == /\ ms.open /\ UNCHANGED ms
        /\ \E r \in Outcomes : WriteCmd(Frame("halt", ms.bits, NoCard), r)
        /\ Tell("halt", Ok, NoCard, NoCard)

Move(c) == /\ msCards' = [msCards EXCEPT ![c] = IF @.at = "away" THEN [Away EXCEPT !.at = "idle"] ELSE Away]
           /\ msLast' = [msLast EXCEPT !.op = "none"]
           /\ UNCHANGED <<ms, msNoise>>

MsNext == \/ Open \/ Close \/ Anticoll \/ Select \/ Halt
          \/ \E type \in {"idle", "all"} : Request(type)
          \/ \E c \in Cards : Move(c)
MsSpec == MsInit /\ [][MsNext]_msVars

-----------------------------------------------------------------------------
(* However many cards come, go and answer at once: anticoll gives the id   *)
(* of a card that is there and the only one ready, select leaves exactly   *)
(* the card active whose id it used, and after a halt none is active.      *)
CardIsTheOne ==
  /\ msLast.op = "anticoll" /\ msLast.result = Ok =>
       {c \in Cards : msCards[c].at = "ready"} = {msLast.id}
  /\ msLast.op = "select" /\ msLast.result = Ok =>
       {c \in Cards : msCards[c].at = "active"} = {msLast.used}
  /\ msLast.op = "halt" /\ ~msNoise.now => \A c \in Cards : msCards[c].at # "active"
  /\ Cardinality({c \in Cards : msCards[c].at = "active"}) <= 1
=============================================================================
