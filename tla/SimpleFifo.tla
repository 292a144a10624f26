----------------------------- MODULE SimpleFifo -----------------------------
(***************************************************************************)
(* common/simple_fifo/simple_fifo.c: a lock-free byte ring between one     *)
(* producer and one consumer (an interrupt and the main loop, or two       *)
(* tasks).  Every access to a field the other side also touches is a step  *)
(* of its own, so a push may be interrupted between the store of a byte    *)
(* and the advance of head, and a pop between its loop test, the load and  *)
(* the advance of tail.                                                    *)
(*                                                                         *)
(* simple_fifo_reset writes head and tail without protection and is        *)
(* modelled only while neither side is inside a call.                      *)
(***************************************************************************)
EXTENDS Naturals, Sequences

CONSTANTS Byte,      \* the byte values
          Size,      \* the argument of simple_fifo_new
          MaxLength  \* bound: the longest push or pop a caller asks for

ASSUME SizeAssumption == Size \in Nat \ {0} /\ MaxLength \in Nat
ASSUME ByteAssumption == Byte # {}

VARIABLES pbuf, head, tail,  \* struct simple_fifo
          push,              \* the producer's call: pc, length - len, full_tail
          pop,               \* the consumer's call: pc, capacity - len
          taken              \* the byte the consumer copied out last

vars == <<pbuf, head, tail, push, pop, taken>>

\* The capacity field: one slot more than asked for, and never used.
Cells == Size + 1
Index == 0 .. Cells - 1

NextIndexBug(i) == IF i = Cells THEN 0 ELSE i + 1
NextIndex(i) == (i + 1) % Cells
FullTail == (tail + Cells - 1) % Cells

\* simple_fifo_get_available_size, simple_fifo_get_remaining_size
Available == (head + Cells - tail) % Cells
Remaining == (FullTail + Cells - head) % Cells

PushIdle == [pc |-> "idle", left |-> 0, full |-> 0]
PopIdle  == [pc |-> "idle", left |-> 0]

\* simple_fifo_new clears the buffer.
Init == /\ \E zero \in Byte : /\ pbuf = [i \in Index |-> zero]
                             /\ taken = zero
        /\ head = 0 /\ tail = 0
        /\ push = PushIdle /\ pop = PopIdle

-----------------------------------------------------------------------------
(* simple_fifo_push: full_tail is read once, at the call.                  *)

\* The producer's next loop test, on its own head and its stale full_tail.
PushTestBug(h, left, full) ==
  IF left > 0 THEN [pc |-> "store", left |-> left, full |-> full]
  ELSE [PushIdle EXCEPT !.left = left]
PushTest(h, left, full) ==
  IF h # full /\ left > 0 THEN [pc |-> "store", left |-> left, full |-> full]
  ELSE [PushIdle EXCEPT !.left = left]

PushCall(n) == /\ push.pc = "idle"
               /\ push' = PushTest(head, n, FullTail)
               /\ UNCHANGED <<pbuf, head, tail, pop, taken>>

PushStoreBug(b) == /\ push.pc = "store"
                   /\ pbuf' = [pbuf EXCEPT ![tail] = b]
                   /\ push' = [push EXCEPT !.pc = "advance"]
                   /\ UNCHANGED <<head, tail, pop, taken>>
PushStore(b) == /\ push.pc = "store"
                /\ pbuf' = [pbuf EXCEPT ![head] = b]
                /\ push' = [push EXCEPT !.pc = "advance"]
                /\ UNCHANGED <<head, tail, pop, taken>>

PushAdvance == /\ push.pc = "advance"
               /\ head' = NextIndex(head)
               /\ push' = PushTest(head', push.left - 1, push.full)
               /\ UNCHANGED <<pbuf, tail, pop, taken>>

-----------------------------------------------------------------------------
(* simple_fifo_pop                                                         *)

PopCall(n) == /\ pop.pc = "idle"
              /\ pop' = [pc |-> "test", left |-> n]
              /\ UNCHANGED <<pbuf, head, tail, push, taken>>

PopTestBug == /\ pop.pc = "test"
              /\ pop' = IF pop.left > 0 THEN [pop EXCEPT !.pc = "load"]
                        ELSE PopIdle
              /\ UNCHANGED <<pbuf, head, tail, push, taken>>

PopTest == /\ pop.pc = "test"
           /\ pop' = IF head # tail /\ pop.left > 0 THEN [pop EXCEPT !.pc = "load"]
                     ELSE [pop EXCEPT !.pc = "idle"]
           /\ UNCHANGED <<pbuf, head, tail, push, taken>>

PopLoad == /\ pop.pc = "load"
           /\ taken' = pbuf[tail]
           /\ pop' = [pop EXCEPT !.pc = "advance"]
           /\ UNCHANGED <<pbuf, head, tail, push>>

PopAdvance == /\ pop.pc = "advance"
              /\ tail' = NextIndex(tail)
              /\ pop' = [pc |-> "test", left |-> pop.left - 1]
              /\ UNCHANGED <<pbuf, head, push, taken>>

\* simple_fifo_reset, called while the ring is quiescent.
Reset == /\ push.pc = "idle" /\ pop.pc = "idle"
         /\ head' = 0 /\ tail' = 0
         /\ UNCHANGED <<pbuf, push, pop, taken>>

Producer == \/ \E n \in 0 .. MaxLength : PushCall(n)
            \/ \E b \in Byte : PushStore(b)
            \/ PushAdvance
Consumer == \/ \E n \in 0 .. MaxLength : PopCall(n)
            \/ PopTest \/ PopLoad \/ PopAdvance
Next == Producer \/ Consumer \/ Reset

Spec == Init /\ [][Next]_vars

-----------------------------------------------------------------------------
\* Every field keeps its range.
TypeOK == /\ pbuf \in [Index -> Byte]
          /\ head \in Index /\ tail \in Index
          /\ push \in [pc : {"idle", "store", "advance"}, left : Nat, full : Index]
          /\ pop \in [pc : {"idle", "test", "load", "advance"}, left : Nat]
          /\ taken \in Byte

(* The producer works on full_tail as it was when push began and the       *)
(* consumer moves tail meanwhile: the slot about to be filled must still   *)
(* never be the spare one, or head would run into tail and a full ring     *)
(* would read as an empty one (simple_fifo_push's loop condition).         *)
HeadNeverReachesTail == push.pc # "idle" => NextIndex(head) # tail

(* While a pop is between its loop test and its advance of tail there is   *)
(* a byte to take, however the push interleaves (simple_fifo_pop's loop).  *)
TakesOnlyWhatIsThere == pop.pc \in {"load", "advance"} => head # tail

\* The bytes pushed and not yet copied out, oldest first.
Unread ==
  LET first == IF pop.pc = "advance" THEN NextIndex(tail) ELSE tail
      n     == (head + Cells - first) % Cells
  IN  [i \in 1 .. n |-> pbuf[(first + i - 1) % Cells]]

(* The ring is a queue of at most Size bytes: what the consumer copies out *)
(* is what the producer stored, once, in order, whatever the interleaving. *)
Abstract == INSTANCE FifoSpec
              WITH Item <- Byte, Capacity <- Size, q <- Unread, last <- taken
ImplementsFifo == Abstract!Spec
=============================================================================
