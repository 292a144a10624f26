------------------------- MODULE SimpleQueues_proofs -------------------------
(***************************************************************************)
(* common/simple_fifo for every capacity and every interleaving of one     *)
(* producer and one consumer: first the byte ring, whatever the lengths of *)
(* the pushes and pops, then the queues, semaphores and message buffers    *)
(* that are built on it.                                                   *)
(***************************************************************************)
EXTENDS SimpleQueues, Integers, SequenceTheorems, TLAPS

\* The modular facts the ring arithmetic needs.
LEMMA WrapAround ==
  ASSUME NEW n \in Nat \ {0}, NEW a \in 0 .. n - 1, NEW b \in 0 .. n - 1
  PROVE  /\ (a + 1) % n = IF a + 1 = n THEN 0 ELSE a + 1
         /\ (a + n - b) % n = IF a >= b THEN a - b ELSE a + n - b
  OBVIOUS

LEMMA CellsPositive == Size \in Nat \ {0} /\ Cells = Size + 1 /\ Cells \in Nat \ {0}
  BY SizeAssumption DEF Cells

\* Successor and distances on the ring without the modulus.
LEMMA RingArithmetic ==
  ASSUME NEW a \in Index, NEW b \in Index
  PROVE  /\ NextIndex(a) = IF a + 1 = Cells THEN 0 ELSE a + 1
         /\ NextIndex(a) \in Index
         /\ (a + Cells - b) % Cells = IF a >= b THEN a - b ELSE a + Cells - b
  BY CellsPositive, WrapAround DEF NextIndex, Index

LEMMA FullTailValue ==
  ASSUME tail \in Index
  PROVE  FullTail = (IF tail = 0 THEN Cells - 1 ELSE tail - 1) /\ FullTail \in Index
  <1>1. 1 \in Index
    BY CellsPositive DEF Index
  <1>. QED  BY <1>1, CellsPositive, RingArithmetic DEF FullTail, Index

\* How far ahead of i the cell j lies on the ring.
Ahead(i, j) == IF j >= i THEN j - i ELSE j + Cells - i

LEMMA Distances ==
  ASSUME NEW a \in Index, NEW b \in Index
  PROVE  /\ Ahead(a, b) \in 0 .. Size
         /\ Ahead(a, b) > 0 <=> a # b
         /\ a # b => Ahead(NextIndex(a), b) = Ahead(a, b) - 1
         /\ NextIndex(b) # a => Ahead(a, NextIndex(b)) = Ahead(a, b) + 1
  <1>1. /\ NextIndex(a) = IF a + 1 = Cells THEN 0 ELSE a + 1
        /\ NextIndex(b) = IF b + 1 = Cells THEN 0 ELSE b + 1
    BY RingArithmetic
  <1>2. Ahead(a, b) \in 0 .. Size /\ (Ahead(a, b) > 0 <=> a # b)
    BY CellsPositive DEF Ahead, Index
  <1>3. a # b => Ahead(NextIndex(a), b) = Ahead(a, b) - 1
    BY <1>1, CellsPositive DEF Ahead, Index
  <1>4. NextIndex(b) # a => Ahead(a, NextIndex(b)) = Ahead(a, b) + 1
    BY <1>1, CellsPositive DEF Ahead, Index
  <1>. QED  BY <1>2, <1>3, <1>4

(* The inductive invariant: the full_tail a push works on is stale, yet it *)
(* is at most as far ahead of head as the true one, for the consumer only  *)
(* moves tail away; and an active push still has a cell to fill before it. *)
StaleFullTail ==
  push.pc # "idle" =>
    /\ push.left > 0
    /\ Ahead(head, push.full) > 0
    /\ Ahead(head, push.full) + Ahead(tail, head) <= Size

PopStillWanted == pop.pc \in {"load", "advance"} => pop.left > 0

IInv == TypeOK /\ StaleFullTail /\ TakesOnlyWhatIsThere /\ PopStillWanted

\* The steps of the ring, for a push or a pop of any length: those of Next, and
\* those that the calls of a queue, a semaphore or a message buffer make.
PushMove == \/ \E n \in Nat : PushCall(n)
            \/ \E b \in Byte : PushStore(b)
            \/ PushAdvance
PopMove == (\E n \in Nat : PopCall(n)) \/ PopTest \/ PopLoad \/ PopAdvance
Move == PushMove \/ PopMove \/ Reset

LEMMA NextIsAMove == [Next]_vars => [Move]_vars
  BY SizeAssumption DEF Next, Producer, Consumer, Move, PushMove, PopMove

LEMMA InitIInv == Init => IInv
  BY CellsPositive DEF Init, IInv, TypeOK, StaleFullTail, TakesOnlyWhatIsThere,
                       PopStillWanted, PushIdle, PopIdle, Index

LEMMA PushKeeps == ASSUME IInv, PushMove PROVE IInv'
  <1>. USE DEF IInv, TypeOK, PopStillWanted
  <1>1. ASSUME NEW n \in Nat, PushCall(n) PROVE IInv'
    <2>1. FullTail \in Index
      BY FullTailValue
    <2>2. TypeOK'
      BY <1>1, <2>1, CellsPositive DEF PushCall, PushTest, PushIdle, Index
    <2>3. head # FullTail => /\ Ahead(head, FullTail) > 0
                             /\ Ahead(head, FullTail) + Ahead(tail, head) <= Size
      BY FullTailValue, CellsPositive DEF Ahead, Index
    <2>4. StaleFullTail'
      BY <1>1, <2>1, <2>3 DEF PushCall, PushTest, PushIdle, StaleFullTail, Ahead
    <2>. QED  BY <1>1, <2>2, <2>4 DEF PushCall, TakesOnlyWhatIsThere
  <1>2. ASSUME NEW b \in Byte, PushStore(b) PROVE IInv'
    BY <1>2 DEF PushStore, StaleFullTail, TakesOnlyWhatIsThere, Ahead
  <1>3. CASE PushAdvance
    <2>1. NextIndex(head) \in Index
          /\ NextIndex(head) = IF head + 1 = Cells THEN 0 ELSE head + 1
      BY RingArithmetic
    <2>2. push.pc = "advance" /\ push.left > 0 /\ push.left - 1 \in Nat
      BY <1>3 DEF PushAdvance, StaleFullTail
    <2>3. TypeOK'
      BY <1>3, <2>1, <2>2, CellsPositive DEF PushAdvance, PushTest, PushIdle, Index
    <2>4. NextIndex(head) # tail
      BY <2>1, <2>2, CellsPositive DEF StaleFullTail, Ahead, Index
    <2>5. NextIndex(head) # push.full =>
            /\ Ahead(NextIndex(head), push.full) > 0
            /\ Ahead(NextIndex(head), push.full) + Ahead(tail, NextIndex(head)) <= Size
      BY <2>1, <2>2, <2>4, Distances, CellsPositive DEF StaleFullTail
    <2>6. StaleFullTail'
      BY <1>3, <2>2, <2>5 DEF PushAdvance, PushTest, PushIdle, StaleFullTail, Ahead
    <2>7. TakesOnlyWhatIsThere'
      BY <1>3, <2>4 DEF PushAdvance, TakesOnlyWhatIsThere
    <2>. QED  BY <1>3, <2>3, <2>6, <2>7 DEF PushAdvance
  <1>. QED  BY <1>1, <1>2, <1>3 DEF PushMove

LEMMA PopKeeps == ASSUME IInv, PopMove PROVE IInv'
  <1>. USE DEF IInv, TypeOK, PopStillWanted
  <1>1. ASSUME NEW n \in Nat, PopCall(n) PROVE IInv'
    BY <1>1 DEF PopCall, StaleFullTail, TakesOnlyWhatIsThere, Ahead
  <1>2. CASE PopTest
    BY <1>2 DEF PopTest, StaleFullTail, TakesOnlyWhatIsThere, Ahead
  <1>3. CASE PopLoad
    BY <1>3 DEF PopLoad, StaleFullTail, TakesOnlyWhatIsThere, Ahead
  <1>4. CASE PopAdvance
    <2>1. NextIndex(tail) \in Index
          /\ NextIndex(tail) = IF tail + 1 = Cells THEN 0 ELSE tail + 1
      BY RingArithmetic
    <2>2. head # tail
      BY <1>4 DEF PopAdvance, TakesOnlyWhatIsThere
    <2>3. Ahead(NextIndex(tail), head) = Ahead(tail, head) - 1
      BY <2>2, Distances
    <2>4. StaleFullTail'
      BY <1>4, <2>3, CellsPositive DEF PopAdvance, StaleFullTail, Ahead, Index
    <2>. QED  BY <1>4, <2>1, <2>4 DEF PopAdvance, TakesOnlyWhatIsThere
  <1>. QED  BY <1>1, <1>2, <1>3, <1>4 DEF PopMove

LEMMA MoveIInv == ASSUME IInv, [Move]_vars PROVE IInv'
  <1>1. CASE Reset
    BY <1>1, CellsPositive DEF IInv, TypeOK, StaleFullTail, TakesOnlyWhatIsThere,
                               PopStillWanted, Reset, Index
  <1>2. CASE UNCHANGED vars
    BY <1>2 DEF IInv, TypeOK, StaleFullTail, TakesOnlyWhatIsThere, PopStillWanted, vars, Ahead
  <1>. QED  BY <1>1, <1>2, PushKeeps, PopKeeps DEF Move

LEMMA StepIInv == IInv /\ [Next]_vars => IInv'
  BY NextIsAMove, MoveIInv

LEMMA RoomAhead == IInv => HeadNeverReachesTail
  <1>. SUFFICES ASSUME IInv, push.pc # "idle" PROVE NextIndex(head) # tail
    BY DEF HeadNeverReachesTail
  <1>1. NextIndex(head) = IF head + 1 = Cells THEN 0 ELSE head + 1
    BY RingArithmetic DEF IInv, TypeOK
  <1>. QED  BY <1>1, CellsPositive DEF IInv, TypeOK, StaleFullTail, Ahead, Index

\* The fields of the ring and of both calls keep their ranges.
THEOREM TypeCorrect == Spec => []TypeOK
  BY InitIInv, StepIInv, PTL DEF Spec, IInv

(* A push that works on an old full_tail never lets head run into tail: a  *)
(* full ring is never mistaken for an empty one.                           *)
THEOREM NeverOverrun == Spec => []HeadNeverReachesTail
  BY InitIInv, StepIInv, RoomAhead, PTL DEF Spec

\* A pop past its loop test always finds a byte, whatever the push does.
THEOREM NeverUnderrun == Spec => []TakesOnlyWhatIsThere
  BY InitIInv, StepIInv, PTL DEF Spec, IInv
-----------------------------------------------------------------------------
(* The ring implements the queue of FifoSpec.  What is unread is a window  *)
(* of the ring from the first cell not copied out up to head.              *)
First == IF pop.pc = "advance" THEN NextIndex(tail) ELSE tail
Cell(f, i) == IF f + i - 1 < Cells THEN f + i - 1 ELSE f + i - 1 - Cells
Window(buf, f, h) == [i \in 1 .. Ahead(f, h) |-> buf[Cell(f, i)]]

UnreadOf(buf, f, h) ==
  [i \in 1 .. (h + Cells - f) % Cells |-> buf[(f + i - 1) % Cells]]

LEMMA OneWrap ==
  ASSUME NEW n \in Nat \ {0}, NEW a \in 0 .. 2 * n - 1
  PROVE  a % n = IF a < n THEN a ELSE a - n
  OBVIOUS

LEMMA CellValue ==
  ASSUME NEW f \in Index, NEW i \in 1 .. Cells
  PROVE  (f + i - 1) % Cells = Cell(f, i) /\ Cell(f, i) \in Index
  <1>. DEFINE a == f + i - 1
  <1>1. a \in 0 .. 2 * Cells - 1 /\ Cells \in Nat \ {0}
    BY CellsPositive DEF Index
  <1>2. Cell(f, i) = IF a < Cells THEN a ELSE a - Cells
    BY CellsPositive DEF Cell, Index
  <1>. HIDE DEF a
  <1>3. a % Cells = IF a < Cells THEN a ELSE a - Cells
    BY <1>1, OneWrap
  <1>4. Cell(f, i) \in Index
    BY <1>1, <1>2 DEF Index
  <1>. QED  BY <1>2, <1>3, <1>4 DEF a

\* The cell that is filled next is outside the window.
LEMMA WindowCells ==
  ASSUME NEW f \in Index, NEW h \in Index, NEW i \in 1 .. Ahead(f, h)
  PROVE  i \in 1 .. Cells /\ Cell(f, i) \in Index /\ Cell(f, i) # h
  BY CellsPositive DEF Ahead, Cell, Index

LEMMA FirstIsACell == IInv => First \in Index
  BY RingArithmetic DEF IInv, TypeOK, First

LEMMA WindowValue ==
  ASSUME NEW buf \in [Index -> Byte], NEW f \in Index, NEW h \in Index
  PROVE  /\ UnreadOf(buf, f, h) = Window(buf, f, h)
         /\ Window(buf, f, h) \in Seq(Byte)
         /\ Len(Window(buf, f, h)) = Ahead(f, h)
  <1>1. (h + Cells - f) % Cells = Ahead(f, h) /\ Ahead(f, h) \in Nat
    BY RingArithmetic, Distances DEF Ahead
  <1>2. \A i \in 1 .. Ahead(f, h) :
          (f + i - 1) % Cells = Cell(f, i) /\ Cell(f, i) \in Index
    BY CellValue, WindowCells
  <1>3. UnreadOf(buf, f, h) = Window(buf, f, h)
    BY <1>1, <1>2 DEF UnreadOf, Window
  <1>4. Window(buf, f, h) \in [1 .. Ahead(f, h) -> Byte]
    BY <1>2 DEF Window
  <1>. QED  BY <1>1, <1>3, <1>4

LEMMA WindowOfNone ==
  ASSUME NEW buf, NEW f \in Index
  PROVE  Window(buf, f, f) = <<>>
  BY CellsPositive DEF Window, Ahead, Index

\* Filling the cell at h makes the window one longer at its end.
LEMMA WindowGrows ==
  ASSUME NEW buf \in [Index -> Byte], NEW f \in Index, NEW h \in Index, NextIndex(h) # f
  PROVE  /\ Window(buf, f, NextIndex(h)) = Append(Window(buf, f, h), buf[h])
         /\ Len(Window(buf, f, h)) < Size
  <1>. DEFINE s == Window(buf, f, h)
              t == Window(buf, f, NextIndex(h))
              u == Append(s, buf[h])
  <1>1. NextIndex(h) \in Index
    BY RingArithmetic
  <1>2. /\ Ahead(f, NextIndex(h)) = Ahead(f, h) + 1
        /\ Ahead(f, h) \in Nat /\ Ahead(f, NextIndex(h)) <= Size
    BY <1>1, Distances
  <1>3. s \in Seq(Byte) /\ Len(s) = Ahead(f, h) /\ t \in Seq(Byte) /\ Len(t) = Ahead(f, h) + 1
    BY <1>1, <1>2, WindowValue
  <1>4. /\ u \in Seq(Byte) /\ Len(u) = Ahead(f, h) + 1
        /\ \A i \in 1 .. Len(s) : u[i] = s[i]
        /\ u[Len(s) + 1] = buf[h]
    BY <1>3, AppendProperties
  <1>5. Cell(f, Ahead(f, h) + 1) = h
    BY <1>1, <1>2, CellsPositive DEF Ahead, Cell, Index
  <1>6. \A i \in 1 .. Len(t) : t[i] = u[i]
    <2>. SUFFICES ASSUME NEW i \in 1 .. Ahead(f, h) + 1 PROVE t[i] = u[i]
      BY <1>3
    <2>1. t[i] = buf[Cell(f, i)]
      BY <1>2 DEF Window
    <2>2. CASE i = Ahead(f, h) + 1
      BY <2>1, <2>2, <1>3, <1>4, <1>5
    <2>3. CASE i \in 1 .. Ahead(f, h)
      <3>1. s[i] = buf[Cell(f, i)]
        BY <2>3 DEF Window
      <3>. QED  BY <2>1, <2>3, <3>1, <1>3, <1>4
    <2>4. i = Ahead(f, h) + 1 \/ i \in 1 .. Ahead(f, h)
      <3>. HIDE DEF s, t, u
      <3>. QED  BY <1>2
    <2>. QED  BY <2>2, <2>3, <2>4
  <1>. HIDE DEF s, t, u
  <1>7. t = u
    BY <1>3, <1>4, <1>6, SeqEqual
  <1>8. Len(s) < Size
    BY <1>2, <1>3, CellsPositive
  <1>. QED  BY <1>7, <1>8 DEF s, t, u

\* Leaving the first cell behind drops the head of the window.
LEMMA WindowShrinks ==
  ASSUME NEW buf \in [Index -> Byte], NEW f \in Index, NEW h \in Index, f # h
  PROVE  /\ Window(buf, f, h) # <<>>
         /\ Head(Window(buf, f, h)) = buf[f]
         /\ Window(buf, NextIndex(f), h) = Tail(Window(buf, f, h))
  <1>. DEFINE s == Window(buf, f, h)
              t == Window(buf, NextIndex(f), h)
              n == Ahead(f, h)
  <1>1. NextIndex(f) \in Index /\ NextIndex(f) = IF f + 1 = Cells THEN 0 ELSE f + 1
    BY RingArithmetic
  <1>2. n \in Nat \ {0} /\ Ahead(NextIndex(f), h) = n - 1
    BY Distances
  <1>3. s \in Seq(Byte) /\ Len(s) = n /\ t \in Seq(Byte) /\ Len(t) = n - 1
    BY <1>1, <1>2, WindowValue
  <1>4. s # <<>> /\ Head(s) = s[1]
    BY <1>2, <1>3
  <1>5. s[1] = buf[f]
    BY <1>2, CellsPositive DEF Window, Cell, Index
  <1>6. /\ Tail(s) \in Seq(Byte) /\ Len(Tail(s)) = n - 1
        /\ \A i \in 1 .. Len(Tail(s)) : Tail(s)[i] = s[i + 1]
    BY <1>3, <1>4, HeadTailProperties
  <1>7. \A i \in 1 .. Len(t) : t[i] = Tail(s)[i]
    <2>. SUFFICES ASSUME NEW i \in 1 .. n - 1 PROVE t[i] = Tail(s)[i]
      BY <1>3
    <2>1. t[i] = buf[Cell(NextIndex(f), i)]
      BY <1>2 DEF Window
    <2>2. s[i + 1] = buf[Cell(f, i + 1)]
      BY <1>2 DEF Window
    <2>3. Cell(NextIndex(f), i) = Cell(f, i + 1)
      BY <1>1, <1>2, CellsPositive DEF Cell, Index, Ahead
    <2>4. Tail(s)[i] = s[i + 1]
      BY <1>6
    <2>. QED  BY <2>1, <2>2, <2>3, <2>4
  <1>. HIDE DEF s, t
  <1>8. t = Tail(s)
    BY <1>3, <1>6, <1>7, SeqEqual
  <1>. QED  BY <1>4, <1>5, <1>8 DEF s, t

LEMMA UnreadIsAWindow ==
  ASSUME IInv
  PROVE  /\ Unread = Window(pbuf, First, head)
         /\ Unread \in Seq(Byte) /\ Len(Unread) = Ahead(First, head)
  <1>1. Unread = UnreadOf(pbuf, First, head)
    BY DEF Unread, UnreadOf, First
  <1>. QED  BY <1>1, FirstIsACell, WindowValue DEF IInv, TypeOK

LEMMA UnreadStaysAWindow ==
  ASSUME IInv'
  PROVE  Unread' = Window(pbuf', First', head')
  <1>1. Unread' = UnreadOf(pbuf', First', head')
    BY DEF Unread, UnreadOf, First
  <1>2. First' \in Index
    BY RingArithmetic DEF IInv, TypeOK, First
  <1>. QED  BY <1>1, <1>2, WindowValue DEF IInv, TypeOK

LEMMA InitImplements == Init => Abstract!Init
  <1>. SUFFICES ASSUME Init PROVE Abstract!Init
    OBVIOUS
  <1>1. IInv
    BY InitIInv
  <1>2. First = 0 /\ head = 0 /\ 0 \in Index /\ taken \in Byte
    BY CellsPositive DEF Init, PopIdle, First, Index
  <1>3. Unread = <<>>
    BY <1>1, <1>2, UnreadIsAWindow, WindowOfNone
  <1>. QED  BY <1>2, <1>3 DEF Abstract!Init

\* A step that leaves First and head, and the cells between them.
LEMMA WindowStays ==
  ASSUME IInv, IInv', First' = First, head' = head, 
         \A c \in Index : c # head => pbuf'[c] = pbuf[c]
  PROVE  Unread' = Unread
  <1>1. Unread = Window(pbuf, First, head) /\ Unread' = Window(pbuf', First', head')
    BY UnreadIsAWindow, UnreadStaysAWindow
  <1>2. \A i \in 1 .. Ahead(First, head) : pbuf'[Cell(First, i)] = pbuf[Cell(First, i)]
    BY WindowCells, FirstIsACell DEF IInv, TypeOK
  <1>. QED  BY <1>1, <1>2 DEF Window

\* A byte becomes visible to the consumer when head moves past it.
LEMMA AdvanceAppends ==
  ASSUME IInv, IInv', PushAdvance
  PROVE  Unread' = Append(Unread, pbuf[head]) /\ Len(Unread) < Size
  <1>1. /\ head \in Index /\ tail \in Index /\ First \in Index
        /\ NextIndex(head) = IF head + 1 = Cells THEN 0 ELSE head + 1
        /\ NextIndex(tail) = IF tail + 1 = Cells THEN 0 ELSE tail + 1
        /\ pbuf \in [Index -> Byte]
    BY FirstIsACell, RingArithmetic DEF IInv, TypeOK
  <1>2. NextIndex(head) # tail
    BY RoomAhead DEF HeadNeverReachesTail, PushAdvance
  <1>3. NextIndex(head) # First
    BY <1>1, <1>2, CellsPositive DEF First, IInv, TakesOnlyWhatIsThere, Index
  <1>4. First' = First /\ head' = NextIndex(head) /\ pbuf' = pbuf
    BY DEF PushAdvance, First, NextIndex
  <1>5. /\ Unread = Window(pbuf, First, head)
        /\ Unread' = Window(pbuf, First, NextIndex(head))
    BY <1>4, UnreadIsAWindow, UnreadStaysAWindow
  <1>. QED  BY <1>1, <1>3, <1>5, WindowGrows

LEMMA LoadTakesHead ==
  ASSUME IInv, IInv', PopLoad
  PROVE  Unread # <<>> /\ taken' = Head(Unread) /\ Unread' = Tail(Unread)
  <1>1. head \in Index /\ tail \in Index /\ head # tail /\ pbuf \in [Index -> Byte]
    BY DEF IInv, TypeOK, TakesOnlyWhatIsThere, PopLoad
  <1>2. First = tail /\ First' = NextIndex(tail) /\ head' = head /\ pbuf' = pbuf
    BY DEF PopLoad, First, NextIndex, IInv, TypeOK
  <1>3. Unread = Window(pbuf, tail, head) /\ Unread' = Window(pbuf, NextIndex(tail), head)
    BY <1>2, UnreadIsAWindow, UnreadStaysAWindow
  <1>4. Unread # <<>> /\ Head(Unread) = pbuf[tail] /\ Unread' = Tail(Unread)
    BY <1>1, <1>3, WindowShrinks
  <1>. QED  BY <1>4 DEF PopLoad

\* The other steps of a push and a pop change nothing of what is unread.
QuietMove == \/ \E n \in Nat : PushCall(n) \/ PopCall(n)
             \/ \E b \in Byte : PushStore(b)
             \/ PopTest \/ PopAdvance \/ UNCHANGED vars

LEMMA QuietMoves ==
  ASSUME IInv, IInv', QuietMove
  PROVE  Unread' = Unread /\ taken' = taken
  <1>1. ASSUME NEW n \in Nat, PushCall(n) PROVE Unread' = Unread /\ taken' = taken
    BY <1>1, WindowStays DEF PushCall, First, NextIndex
  <1>2. ASSUME NEW b \in Byte, PushStore(b) PROVE Unread' = Unread /\ taken' = taken
    <2>1. \A c \in Index : c # head => pbuf'[c] = pbuf[c]
      BY <1>2 DEF PushStore, IInv, TypeOK
    <2>. QED  BY <1>2, <2>1, WindowStays DEF PushStore, First, NextIndex
  <1>3. ASSUME NEW n \in Nat, PopCall(n) PROVE Unread' = Unread /\ taken' = taken
    BY <1>3, WindowStays DEF PopCall, First, NextIndex
  <1>4. CASE PopTest
    BY <1>4, WindowStays DEF PopTest, First, NextIndex, IInv, TypeOK
  <1>5. CASE PopAdvance
    BY <1>5, WindowStays DEF PopAdvance, First, NextIndex
  <1>6. CASE UNCHANGED vars
    BY <1>6, WindowStays DEF vars, First, NextIndex
  <1>. QED  BY <1>1, <1>2, <1>3, <1>4, <1>5, <1>6 DEF QuietMove

LEMMA ResetEmpties ==
  ASSUME IInv', Reset
  PROVE  Unread' = <<>> /\ taken' = taken
  <1>1. First' = 0 /\ head' = 0 /\ taken' = taken /\ 0 \in Index
    BY CellsPositive DEF Reset, First, Index
  <1>. QED  BY <1>1, UnreadStaysAWindow, WindowOfNone

LEMMA MoveImplements ==
  ASSUME IInv, IInv', [Move]_vars
  PROVE  [Abstract!Next]_<<Unread, taken>>
  <1>1. CASE QuietMove
    BY <1>1, QuietMoves
  <1>2. CASE PushAdvance
    <2>1. pbuf[head] \in Byte /\ taken' = taken
      BY <1>2 DEF PushAdvance, IInv, TypeOK
    <2>2. Abstract!Put(pbuf[head])
      BY <1>2, <2>1, AdvanceAppends DEF Abstract!Put
    <2>. QED  BY <2>1, <2>2 DEF Abstract!Next
  <1>3. CASE PopLoad
    BY <1>3, LoadTakesHead DEF Abstract!Next, Abstract!Get
  <1>4. CASE Reset
    BY <1>4, ResetEmpties DEF Abstract!Next, Abstract!Reset
  <1>. QED  BY <1>1, <1>2, <1>3, <1>4 DEF Move, PushMove, PopMove, QuietMove

(* The ring is a queue of at most Size bytes that leave once, in order and *)
(* unchanged, however the two sides interleave.                            *)
THEOREM RingIsAQueue == Spec => ImplementsFifo
  <1>1. IInv /\ IInv' /\ [Next]_vars => [Abstract!Next]_<<Unread, taken>>
    BY NextIsAMove, MoveImplements
  <1>. QED  BY <1>1, InitIInv, StepIInv, InitImplements, PTL
            DEF Spec, ImplementsFifo, Abstract!Spec
-----------------------------------------------------------------------------
(* Lengths and the bytes they are sent as.                                 *)
LEMMA WordBytes ==
  ASSUME NEW w \in Words
  PROVE  w \in Seq(Byte) /\ Len(w) = LengthSize
  BY UsersAssumption, SizeAssumption DEF Words

LEMMA EncodedWord ==
  ASSUME NEW n, Fits(n)
  PROVE  /\ Encoded(n) \in Words /\ Length[Encoded(n)] = n
         /\ Encoded(n) \in Seq(Byte) /\ Len(Encoded(n)) = LengthSize
  <1>1. Encoded(n) \in Words /\ Length[Encoded(n)] = n
    BY DEF Fits, Encoded
  <1>. QED  BY <1>1, WordBytes

\* A length that was popped whole is the one that was pushed.
LEMMA DecodedEncoded ==
  ASSUME NEW n, Fits(n)
  PROVE  Decoded(Encoded(n)) = n
  <1>. DEFINE w == Encoded(n)
              padded == [i \in 1 .. LengthSize |-> IF i \in DOMAIN w THEN w[i] ELSE 0]
  <1>1. w \in Words /\ Length[w] = n
    BY EncodedWord
  <1>2. DOMAIN w = 1 .. LengthSize /\ w = [i \in 1 .. LengthSize |-> w[i]]
    BY <1>1 DEF Words
  <1>3. padded = w
    BY <1>2
  <1>. QED  BY <1>1, <1>3 DEF Decoded

-----------------------------------------------------------------------------
(* The inductive invariant of the users.  The members that wait are in     *)
(* three places: in the consumer's buffer, in the ring, and still with the *)
(* producer; together they are the bytes of sent.                          *)
Member == {m \in Seq(Byte) : /\ user = "queue" => Len(m) = MemberSize
                             /\ user = "semaphore" => Len(m) = LengthSize
                             /\ user = "message" => Fits(Len(m))}

\* What is left to push: the rest of the part that is being pushed, and the
\* parts that follow, two at most.
Joined(parts) == IF parts = <<>> THEN <<>>
                 ELSE IF Len(parts) = 1 THEN parts[1]
                 ELSE parts[1] \o parts[2]
Later == Joined(up.later)
Rest == SubSeq(up.now, Len(up.now) - push.left + 1, Len(up.now))
Pending == Rest \o Later

\* What was popped of the oldest member: PopLength empties the buffer.
Popped == IF user = "message" /\ down.pc \in {"body", "drop"}
          THEN Encoded(Len(Head(sent))) \o down.buf ELSE down.buf

Stream == Popped \o (Unread \o Pending)

\* The bytes the pop still copies out.
Taking == IF pop.pc = "advance" THEN pop.left - 1 ELSE pop.left

UserTypeOK ==
  /\ up \in [now : Seq(Byte), later : Seq(Seq(Byte))] /\ Len(up.later) <= 2
  /\ down \in [pc : {"idle", "length", "body", "drop"}, capacity : Nat, buf : Seq(Byte)]
  /\ sent \in Seq(Member)

\* A push stores all of its bytes: the room it was given is still there.
RoomForAll ==
  /\ push.left <= Len(up.now)
  /\ push.pc = "idle" => push.left = 0
  /\ push.pc # "idle" => push.left <= Ahead(head, push.full)
  /\ push.left + Len(Later) + Ahead(tail, head) <= Size
PushesItsBytes ==
  push.pc = "advance" => pbuf[head] = up.now[Len(up.now) - push.left + 1]

\* A pop gets all of its bytes, and they are those of one member.
BytesForAll ==
  /\ Taking <= Len(Unread)
  /\ pop.pc = "idle" => pop.left = 0
PopsOneMember ==
  /\ down.pc = "idle" => pop.pc = "idle" /\ down.buf = <<>>
  /\ down.pc # "idle" => sent # <<>>
  /\ down.pc = "length" => user = "message" /\ Len(down.buf) + Taking = LengthSize
  /\ down.pc \in {"body", "drop"} => Len(down.buf) + Taking = Len(Head(sent))
  /\ down.pc = "drop" => user = "message" /\ Len(Head(sent)) > down.capacity

HoldsTheMembers == Holds(Stream, sent)

UserInv == /\ UserTypeOK /\ RoomForAll /\ PushesItsBytes /\ BytesForAll
           /\ PopsOneMember /\ HoldsTheMembers

QInv == /\ IInv
        /\ user \in {"bytes", "queue", "semaphore", "message"}
        /\ user = "bytes" => down = NoPop
        /\ user # "bytes" => UserInv

-----------------------------------------------------------------------------
(* Sequences of members.                                                   *)
LEMMA FramedBytes ==
  ASSUME NEW m \in Member
  PROVE  /\ m \in Seq(Byte) /\ Framed(m) \in Seq(Byte)
         /\ Framed(m) = IF user = "message" THEN Encoded(Len(m)) \o m ELSE m
         /\ Len(Framed(m)) = (IF user = "message" THEN LengthSize ELSE 0) + Len(m)
         /\ user = "message" => /\ Encoded(Len(m)) \in Seq(Byte)
                                /\ Len(Encoded(Len(m))) = LengthSize
                                /\ Decoded(Encoded(Len(m))) = Len(m)
  <1>1. m \in Seq(Byte) /\ Len(m) \in Nat
    BY DEF Member
  <1>2. CASE user = "message"
    <2>1. Fits(Len(m))
      BY <1>2 DEF Member
    <2>2. /\ Encoded(Len(m)) \in Seq(Byte) /\ Len(Encoded(Len(m))) = LengthSize
          /\ Decoded(Encoded(Len(m))) = Len(m)
      BY <2>1, EncodedWord, DecodedEncoded
    <2>. QED  BY <1>1, <1>2, <2>2, ConcatProperties DEF Framed
  <1>3. CASE user # "message"
    BY <1>1, <1>3 DEF Framed
  <1>. QED  BY <1>2, <1>3

\* Holds, for a number of members that is known.
HoldsTo(s, ms, n) ==
  \E end \in [0 .. n -> 0 .. Len(s)] :
    /\ end[0] = 0 /\ end[n] = Len(s)
    /\ \A i \in 0 .. n : \A j \in 0 .. i : end[j] <= end[i]
    /\ \A i \in 1 .. n :
         /\ end[i] = end[i - 1] + Len(Framed(ms[i]))
         /\ \A k \in 1 .. Len(Framed(ms[i])) : s[end[i - 1] + k] = Framed(ms[i])[k]

LEMMA HoldsAll ==
  ASSUME NEW s, NEW ms, NEW n, Len(ms) = n
  PROVE  Holds(s, ms) <=> HoldsTo(s, ms, n)
  BY DEF Holds, HoldsTo

LEMMA HoldsNone == Holds(<<>>, <<>>)
  <1>. DEFINE end == [i \in 0 .. 0 |-> 0]
  <1>1. end \in [0 .. Len(<<>>) -> 0 .. Len(<<>>)] /\ end[0] = 0 /\ Len(<<>>) = 0
    BY EmptySeq
  <1>2. \A i \in 0 .. 0 : \A j \in 0 .. i : end[j] <= end[i]
    OBVIOUS
  <1>. HIDE DEF end
  <1>. QED  BY <1>1, <1>2 DEF Holds

LEMMA HoldsNothing ==
  ASSUME NEW s \in Seq(Byte), Holds(s, <<>>)
  PROVE  s = <<>>
  <1>1. Len(s) = 0
    BY EmptySeq DEF Holds
  <1>. QED  BY <1>1, EmptySeq

LEMMA HoldsAppend ==
  ASSUME NEW s \in Seq(Byte), NEW ms \in Seq(Member), NEW m \in Member, Holds(s, ms)
  PROVE  Holds(s \o Framed(m), Append(ms, m))
  <1>. DEFINE f == Framed(m)
              t == s \o f
              ns == Append(ms, m)
              n == Len(ms)
  <1>1. f \in Seq(Byte) /\ Len(f) \in Nat /\ Len(s) \in Nat /\ n \in Nat
    BY FramedBytes
  <1>2. /\ t \in Seq(Byte) /\ Len(t) = Len(s) + Len(f)
        /\ \A i \in 1 .. Len(s) : t[i] = s[i]
        /\ \A i \in 1 .. Len(f) : t[Len(s) + i] = f[i]
    <2>1. t \in Seq(Byte) /\ Len(t) = Len(s) + Len(f)
          /\ \A i \in 1 .. Len(s) + Len(f) : t[i] = IF i <= Len(s) THEN s[i] ELSE f[i - Len(s)]
      BY <1>1, ConcatProperties
    <2>. HIDE DEF t, f
    <2>2. ASSUME NEW i \in 1 .. Len(f) PROVE t[Len(s) + i] = f[i]
      <3>1. Len(s) + i \in 1 .. Len(s) + Len(f) /\ ~(Len(s) + i <= Len(s))
        BY <1>1
      <3>2. (Len(s) + i) - Len(s) = i
        BY <1>1
      <3>. QED  BY <2>1, <3>1, <3>2
    <2>3. ASSUME NEW i \in 1 .. Len(s) PROVE t[i] = s[i]
      BY <2>1, <1>1
    <2>. QED  BY <2>1, <2>2, <2>3
  <1>3. /\ Len(ns) = n + 1 /\ ns[n + 1] = m
        /\ \A i \in 1 .. n : ns[i] = ms[i]
    BY AppendProperties
  <1>4. PICK end \in [0 .. n -> 0 .. Len(s)] :
          /\ end[0] = 0 /\ end[n] = Len(s)
          /\ \A i \in 0 .. n : \A j \in 0 .. i : end[j] <= end[i]
          /\ \A i \in 1 .. n :
               /\ end[i] = end[i - 1] + Len(Framed(ms[i]))
               /\ \A k \in 1 .. Len(Framed(ms[i])) : s[end[i - 1] + k] = Framed(ms[i])[k]
    BY DEF Holds
  <1>. DEFINE end2 == [i \in 0 .. n + 1 |-> IF i = n + 1 THEN Len(t) ELSE end[i]]
  <1>5. /\ end2[n + 1] = Len(t) /\ \A i \in 0 .. n : end2[i] = end[i]
    BY <1>1
  <1>6. end2 \in [0 .. n + 1 -> 0 .. Len(t)]
    <2>. HIDE DEF t, f, n
    <2>. QED  BY <1>1, <1>2
  <1>. HIDE DEF f, t, ns, n, end2
  <1>7. end2[0] = 0 /\ end2[n + 1] = Len(t) /\ end2[n] = Len(s)
    BY <1>1, <1>4, <1>5
  <1>8. \A i \in 0 .. n + 1 : \A j \in 0 .. i : end2[j] <= end2[i]
    <2>. SUFFICES ASSUME NEW i \in 0 .. n + 1, NEW j \in 0 .. i PROVE end2[j] <= end2[i]
      OBVIOUS
    <2>1. CASE i = n + 1
      BY <2>1, <1>1, <1>6, <1>7
    <2>2. CASE i # n + 1
      <3>1. i \in 0 .. n /\ j \in 0 .. n
        BY <2>2, <1>1
      <3>. QED  BY <3>1, <1>4, <1>5
    <2>. QED  BY <2>1, <2>2
  <1>9. ASSUME NEW i \in 1 .. n + 1
        PROVE  /\ end2[i] = end2[i - 1] + Len(Framed(ns[i]))
               /\ \A k \in 1 .. Len(Framed(ns[i])) : t[end2[i - 1] + k] = Framed(ns[i])[k]
    <2>1. CASE i = n + 1
      <3>1. i - 1 = n /\ Framed(ns[i]) = f
        BY <2>1, <1>1, <1>3 DEF f
      <3>. QED  BY <2>1, <3>1, <1>2, <1>7
    <2>2. CASE i # n + 1
      <3>1. i \in 1 .. n /\ i - 1 \in 0 .. n /\ i \in 0 .. n
        BY <2>2, <1>1
      <3>2. ns[i] = ms[i] /\ end2[i] = end[i] /\ end2[i - 1] = end[i - 1]
        BY <3>1, <1>3, <1>5
      <3>3. end[i] = end[i - 1] + Len(Framed(ms[i]))
            /\ \A k \in 1 .. Len(Framed(ms[i])) : s[end[i - 1] + k] = Framed(ms[i])[k]
        BY <3>1, <1>4
      <3>4. ms[i] \in Member
        BY <3>1, ElementOfSeq DEF n
      <3>5. Len(Framed(ms[i])) \in Nat
        BY <3>4, FramedBytes
      <3>6. \A k \in 1 .. Len(Framed(ms[i])) : end[i - 1] + k \in 1 .. Len(s)
        <4>1. end[i] \in 0 .. Len(s) /\ end[i - 1] \in 0 .. Len(s)
          BY <3>1, <1>4
        <4>. QED  BY <4>1, <3>3, <3>5, <1>1
      <3>. QED  BY <3>2, <3>3, <3>6, <1>2
    <2>. QED  BY <2>1, <2>2
  <1>10. Len(ns) = n + 1
    BY <1>3
  <1>11. Holds(t, ns)
    <2>. SUFFICES HoldsTo(t, ns, n + 1)
      BY <1>10, HoldsAll
    <2>. SUFFICES \E e \in [0 .. n + 1 -> 0 .. Len(t)] :
                    /\ e[0] = 0 /\ e[n + 1] = Len(t)
                    /\ \A i \in 0 .. n + 1 : \A j \in 0 .. i : e[j] <= e[i]
                    /\ \A i \in 1 .. n + 1 :
                         /\ e[i] = e[i - 1] + Len(Framed(ns[i]))
                         /\ \A k \in 1 .. Len(Framed(ns[i])) :
                              t[e[i - 1] + k] = Framed(ns[i])[k]
      BY DEF HoldsTo
    <2>. WITNESS end2 \in [0 .. n + 1 -> 0 .. Len(t)]
    <2>. QED  BY <1>7, <1>8, <1>9
  <1>. QED  BY <1>11 DEF t, ns, f

LEMMA Shifted ==
  ASSUME NEW e \in Nat, NEW k \in Nat, NEW g \in Nat, NEW l \in Nat, k <= e, e + g <= l,
         NEW j \in 1 .. g
  PROVE  (e - k) + j \in 1 .. l - k /\ k + ((e - k) + j) = e + j
  OBVIOUS

LEMMA HoldsFirst ==
  ASSUME NEW s \in Seq(Byte), NEW ms \in Seq(Member), ms # <<>>, Holds(s, ms)
  PROVE  \E rest \in Seq(Byte) : s = Framed(Head(ms)) \o rest /\ Holds(rest, Tail(ms))
  <1>. DEFINE f == Framed(Head(ms))
              ns == Tail(ms)
              n == Len(ms)
              k == Len(f)
              rest == SubSeq(s, k + 1, Len(s))
  <1>1. /\ Head(ms) = ms[1] /\ Head(ms) \in Member
        /\ n \in Nat \ {0} /\ Len(s) \in Nat /\ Len(ns) = n - 1
        /\ \A i \in 1 .. n - 1 : ns[i] = ms[i + 1]
    BY EmptySeq, HeadTailProperties
  <1>2. f \in Seq(Byte) /\ k \in Nat
    BY <1>1, FramedBytes
  <1>3. PICK end \in [0 .. n -> 0 .. Len(s)] :
          /\ end[0] = 0 /\ end[n] = Len(s)
          /\ \A i \in 0 .. n : \A j \in 0 .. i : end[j] <= end[i]
          /\ \A i \in 1 .. n :
               /\ end[i] = end[i - 1] + Len(Framed(ms[i]))
               /\ \A j \in 1 .. Len(Framed(ms[i])) : s[end[i - 1] + j] = Framed(ms[i])[j]
    BY DEF Holds
  <1>4. Framed(ms[1]) = f
    BY <1>1
  <1>. DEFINE end2 == [i \in 0 .. n - 1 |-> end[i + 1] - k]
  <1>. HIDE DEF f, ns, n, k
  <1>5. /\ end[1] = k /\ k <= Len(s)
        /\ \A j \in 1 .. k : s[j] = f[j]
    <2>1. 1 \in 1 .. n /\ 1 - 1 = 0 /\ 1 \in 0 .. n
      BY <1>1
    <2>2. end[1] = end[0] + k /\ \A j \in 1 .. k : s[end[0] + j] = f[j]
      BY <2>1, <1>3, <1>4 DEF k
    <2>3. end[1] = k /\ end[1] \in 0 .. Len(s)
      BY <2>1, <2>2, <1>2, <1>3
    <2>. QED  BY <2>2, <2>3, <1>1, <1>2, <1>3
  <1>6. /\ rest \in Seq(Byte) /\ Len(rest) = Len(s) - k
        /\ \A i \in 1 .. Len(s) - k : rest[i] = s[k + i]
    <2>1. /\ k + 1 \in Int /\ Len(s) \in Int
          /\ \A i \in k + 1 .. Len(s) : s[i] \in Byte
      BY <1>1, <1>2, ElementOfSeq
    <2>. QED  BY <2>1, <1>1, <1>2, <1>5, SubSeqProperties
  <1>. HIDE DEF rest
  <1>7. s = f \o rest
    <2>1. /\ f \o rest \in Seq(Byte) /\ Len(f \o rest) = Len(s)
          /\ \A i \in 1 .. Len(s) : (f \o rest)[i] = IF i <= k THEN f[i] ELSE rest[i - k]
      <3>1. k + (Len(s) - k) = Len(s)
        BY <1>1, <1>2
      <3>2. Len(f) = k
        BY DEF k
      <3>3. /\ f \o rest \in Seq(Byte) /\ Len(f \o rest) = Len(f) + Len(rest)
            /\ \A i \in 1 .. Len(f) + Len(rest) :
                 (f \o rest)[i] = IF i <= Len(f) THEN f[i] ELSE rest[i - Len(f)]
        BY <1>2, <1>6, ConcatProperties
      <3>. QED  BY <3>1, <3>2, <3>3, <1>6
    <2>2. ASSUME NEW i \in 1 .. Len(s) PROVE s[i] = (f \o rest)[i]
      <3>1. CASE i <= k
        BY <3>1, <2>1, <1>2, <1>5
      <3>2. CASE ~(i <= k)
        <4>1. i - k \in 1 .. Len(s) - k /\ k + (i - k) = i
          BY <3>2, <1>1, <1>2
        <4>. QED  BY <3>2, <4>1, <2>1, <1>6
      <3>. QED  BY <3>1, <3>2
    <2>. QED  BY <2>1, <2>2, SeqEqual
  <1>8. /\ end2 \in [0 .. n - 1 -> 0 .. Len(rest)]
        /\ \A i \in 0 .. n - 1 : end2[i] = end[i + 1] - k
    <2>1. ASSUME NEW i \in 0 .. n - 1 PROVE end[i + 1] - k \in 0 .. Len(rest)
      <3>1. i + 1 \in 0 .. n /\ 1 \in 0 .. i + 1
        BY <1>1
      <3>2. end[i + 1] \in 0 .. Len(s) /\ end[1] <= end[i + 1]
        BY <3>1, <1>3
      <3>. QED  BY <3>2, <1>1, <1>2, <1>5, <1>6
    <2>. QED  BY <2>1
  <1>. HIDE DEF end2
  <1>9. end2[0] = 0 /\ end2[n - 1] = Len(rest)
    <2>1. 0 \in 0 .. n - 1 /\ n - 1 \in 0 .. n - 1 /\ 0 + 1 = 1 /\ (n - 1) + 1 = n
      BY <1>1
    <2>2. end2[0] = end[1] - k /\ end2[n - 1] = end[n] - k
      BY <2>1, <1>8
    <2>. QED  BY <2>2, <1>2, <1>3, <1>5, <1>6
  <1>10. ASSUME NEW i \in 0 .. n - 1, NEW j \in 0 .. i PROVE end2[j] <= end2[i]
    <2>1. i + 1 \in 0 .. n /\ j + 1 \in 0 .. i + 1 /\ j + 1 \in 0 .. n /\ j \in 0 .. n - 1
      BY <1>1
    <2>2. end[j + 1] <= end[i + 1] /\ end[j + 1] \in Nat /\ end[i + 1] \in Nat
      BY <2>1, <1>3
    <2>3. end2[j] = end[j + 1] - k /\ end2[i] = end[i + 1] - k
      BY <2>1, <1>8
    <2>. QED  BY <2>2, <2>3, <1>2
  <1>11. ASSUME NEW i \in 1 .. n - 1
         PROVE  /\ end2[i] = end2[i - 1] + Len(Framed(ns[i]))
                /\ \A j \in 1 .. Len(Framed(ns[i])) : rest[end2[i - 1] + j] = Framed(ns[i])[j]
    <2>. DEFINE g == Framed(ns[i])
    <2>1. /\ i + 1 \in 1 .. n /\ i \in 0 .. n /\ i + 1 \in 0 .. n /\ (i + 1) - 1 = i
          /\ i \in 0 .. n - 1 /\ i - 1 \in 0 .. n - 1 /\ (i - 1) + 1 = i /\ 1 \in 0 .. i
      BY <1>1
    <2>2. ns[i] = ms[i + 1]
      BY <1>1
    <2>3. ns[i] \in Member
      BY <2>1, <2>2, ElementOfSeq DEF n
    <2>4. Len(g) \in Nat
      BY <2>3, FramedBytes
    <2>. HIDE DEF g
    <2>5. g = Framed(ms[i + 1])
      BY <2>2 DEF g
    <2>6. end[i + 1] = end[i] + Len(g) /\ \A j \in 1 .. Len(g) : s[end[i] + j] = g[j]
      BY <2>1, <2>5, <1>3
    <2>7. end2[i] = end[i + 1] - k /\ end2[i - 1] = end[i] - k
      BY <2>1, <1>8
    <2>8. end[i] \in Nat /\ end[i + 1] \in 0 .. Len(s) /\ k <= end[i]
      <3>1. end[1] <= end[i] /\ end[i] \in 0 .. Len(s) /\ end[i + 1] \in 0 .. Len(s)
        BY <2>1, <1>3
      <3>. QED  BY <3>1, <1>1, <1>5
    <2>9. end2[i] = end2[i - 1] + Len(g)
      BY <2>4, <2>6, <2>7, <2>8, <1>2
    <2>10. ASSUME NEW j \in 1 .. Len(g) PROVE rest[end2[i - 1] + j] = g[j]
      <3>1. /\ end2[i - 1] + j \in 1 .. Len(s) - k
            /\ k + (end2[i - 1] + j) = end[i] + j
        <4>1. end[i + 1] = end[i] + Len(g) /\ end2[i - 1] = end[i] - k
          BY <2>6, <2>7
        <4>2. end[i] + Len(g) <= Len(s)
          BY <4>1, <2>8, <1>1
        <4>3. /\ (end[i] - k) + j \in 1 .. Len(s) - k
              /\ k + ((end[i] - k) + j) = end[i] + j
          <5>1. end[i] \in Nat /\ k \in Nat /\ k <= end[i] /\ Len(s) \in Nat /\ Len(g) \in Nat
            BY <2>4, <2>8, <1>1, <1>2
          <5>. QED  BY <4>2, <5>1, Shifted
        <4>. QED  BY <4>1, <4>3
      <3>. QED  BY <3>1, <2>6, <1>6
    <2>. QED  BY <2>9, <2>10 DEF g
  <1>12. Holds(rest, ns)
    <2>. SUFFICES HoldsTo(rest, ns, n - 1)
      BY <1>1, HoldsAll
    <2>. SUFFICES \E e \in [0 .. n - 1 -> 0 .. Len(rest)] :
                    /\ e[0] = 0 /\ e[n - 1] = Len(rest)
                    /\ \A i \in 0 .. n - 1 : \A j \in 0 .. i : e[j] <= e[i]
                    /\ \A i \in 1 .. n - 1 :
                         /\ e[i] = e[i - 1] + Len(Framed(ns[i]))
                         /\ \A j \in 1 .. Len(Framed(ns[i])) :
                              rest[e[i - 1] + j] = Framed(ns[i])[j]
      BY DEF HoldsTo
    <2>1. end2 \in [0 .. n - 1 -> 0 .. Len(rest)]
      BY <1>8
    <2>. QED  BY <2>1, <1>9, <1>10, <1>11
  <1>. QED  BY <1>6, <1>7, <1>12 DEF f, ns

-----------------------------------------------------------------------------
(* What the invariant says of a state.                                     *)
LEMMA SamePrefix ==
  ASSUME NEW a \in Seq(Byte), NEW b \in Seq(Byte), NEW x \in Seq(Byte), NEW y \in Seq(Byte),
         a \o x = b \o y, Len(a) = Len(b)
  PROVE  a = b /\ x = y
  <1>1. Len(a) \in Nat /\ Len(x) \in Nat /\ Len(y) \in Nat
    OBVIOUS
  <1>2. \A i \in 1 .. Len(a) : a[i] = (a \o x)[i] /\ b[i] = (b \o y)[i]
    <2>1. /\ \A i \in 1 .. Len(a) + Len(x) :
               (a \o x)[i] = IF i <= Len(a) THEN a[i] ELSE x[i - Len(a)]
          /\ \A i \in 1 .. Len(b) + Len(y) :
               (b \o y)[i] = IF i <= Len(b) THEN b[i] ELSE y[i - Len(b)]
      BY ConcatProperties
    <2>. QED  BY <2>1, <1>1
  <1>3. a = b
    BY <1>2, SeqEqual
  <1>. QED  BY <1>3, ConcatSimplifications

LEMMA AtMostTwo ==
  ASSUME NEW S, NEW p \in Seq(S), Len(p) <= 2
  PROVE  /\ Len(p) \in {0, 1, 2} /\ (Len(p) = 0 => p = <<>>)
         /\ Len(p) = 1 => p # <<>> /\ p[1] \in S /\ Head(p) = p[1] /\ Tail(p) = <<>>
         /\ Len(p) = 2 => /\ p # <<>> /\ p[1] \in S /\ p[2] \in S /\ Head(p) = p[1]
                          /\ Tail(p) \in Seq(S) /\ Len(Tail(p)) = 1
                          /\ Tail(p)[1] = p[2] /\ Tail(p) # <<>>
  <1>1. Len(p) \in Nat
    BY LenProperties
  <1>2. Len(p) \in {0, 1, 2}
    <2>. DEFINE n == Len(p)
    <2>. HIDE DEF n
    <2>1. n \in Nat /\ n <= 2
      BY <1>1 DEF n
    <2>2. n \in {0, 1, 2}
      BY <2>1
    <2>. QED  BY <2>2 DEF n
  <1>3. Len(p) = 0 <=> p = <<>>
    BY EmptySeq
  <1>4. \A i \in 1 .. Len(p) : p[i] \in S
    BY ElementOfSeq
  <1>5. p # <<>> => /\ Head(p) = p[1] /\ Tail(p) \in Seq(S) /\ Len(Tail(p)) = Len(p) - 1
                    /\ \A i \in 1 .. Len(Tail(p)) : Tail(p)[i] = p[i + 1]
    BY HeadTailProperties
  <1>6. CASE Len(p) = 1
    <2>1. p # <<>> /\ p[1] \in S
      BY <1>3, <1>4, <1>6
    <2>2. Tail(p) \in Seq(S) /\ Len(Tail(p)) = 0 /\ Head(p) = p[1]
      BY <2>1, <1>5, <1>6
    <2>3. Tail(p) = <<>>
      <3>1. \A t \in Seq(S) : Len(t) = 0 => t = <<>>
        BY EmptySeq
      <3>. QED  BY <3>1, <2>2
    <2>. QED  BY <2>1, <2>2, <2>3, <1>6
  <1>7. CASE Len(p) = 2
    <2>1. p # <<>> /\ p[1] \in S /\ p[2] \in S
      BY <1>3, <1>4, <1>7
    <2>2. Tail(p) \in Seq(S) /\ Len(Tail(p)) = 1 /\ Head(p) = p[1]
      BY <2>1, <1>5, <1>7
    <2>. DEFINE t == Tail(p)
    <2>3. Len(t) = 1 /\ \A i \in 1 .. Len(t) : t[i] = p[i + 1]
      BY <2>1, <2>2, <1>5
    <2>4. t[1] = p[2] /\ t # <<>>
      <3>. HIDE DEF t
      <3>1. 1 \in 1 .. Len(t) /\ 1 + 1 = 2
        BY <2>3
      <3>2. t[1] = p[1 + 1]
        BY <2>3, <3>1
      <3>3. t # <<>>
        BY <2>3, EmptySeq
      <3>. QED  BY <3>1, <3>2, <3>3
    <2>. QED  BY <2>1, <2>2, <2>3, <2>4, <1>7
  <1>. QED  BY <1>2, <1>3, <1>6, <1>7

LEMMA JoinedParts ==
  ASSUME NEW parts \in Seq(Seq(Byte)), Len(parts) <= 2
  PROVE  /\ Joined(parts) \in Seq(Byte)
         /\ parts # <<>> => /\ Head(parts) \in Seq(Byte)
                            /\ Tail(parts) \in Seq(Seq(Byte)) /\ Len(Tail(parts)) <= 2
                            /\ Joined(parts) = Head(parts) \o Joined(Tail(parts))
  <1>1. CASE parts = <<>>
    BY <1>1, EmptySeq DEF Joined
  <1>2. CASE Len(parts) = 1
    <2>1. /\ parts # <<>> /\ parts[1] \in Seq(Byte) /\ Head(parts) = parts[1]
          /\ Tail(parts) = <<>>
      BY <1>2, AtMostTwo
    <2>2. Joined(parts) = parts[1] /\ Joined(Tail(parts)) = <<>>
      BY <1>2, <2>1 DEF Joined
    <2>3. parts[1] \o <<>> = parts[1] /\ Tail(parts) \in Seq(Seq(Byte)) /\ Len(Tail(parts)) <= 2
      BY <2>1, ConcatEmptySeq, EmptySeq
    <2>. QED  BY <2>1, <2>2, <2>3
  <1>3. CASE Len(parts) = 2
    <2>1. /\ parts # <<>> /\ parts[1] \in Seq(Byte) /\ parts[2] \in Seq(Byte)
          /\ Head(parts) = parts[1]
          /\ Tail(parts) \in Seq(Seq(Byte)) /\ Len(Tail(parts)) = 1
          /\ Tail(parts)[1] = parts[2] /\ Tail(parts) # <<>>
      BY <1>3, AtMostTwo
    <2>2. Joined(parts) = parts[1] \o parts[2] /\ Joined(Tail(parts)) = parts[2]
      BY <1>3, <2>1 DEF Joined
    <2>3. parts[1] \o parts[2] \in Seq(Byte)
      BY <2>1, ConcatProperties
    <2>. QED  BY <2>1, <2>2, <2>3
  <1>4. Len(parts) \in {0, 1, 2} /\ (Len(parts) = 0 => parts = <<>>)
    BY AtMostTwo
  <1>. QED  BY <1>1, <1>2, <1>3, <1>4

LEMMA RingFacts ==
  ASSUME IInv
  PROVE  /\ head \in Index /\ tail \in Index /\ FullTail \in Index
         /\ Ahead(tail, head) \in 0 .. Size
         /\ Available = Ahead(tail, head) /\ Remaining = Size - Ahead(tail, head)
         /\ Ahead(head, FullTail) = Size - Ahead(tail, head)
         /\ head = FullTail <=> Ahead(tail, head) = Size
         /\ Unread \in Seq(Byte)
         /\ Len(Unread) = IF pop.pc = "advance" THEN Ahead(tail, head) - 1 ELSE Ahead(tail, head)
  <1>1. head \in Index /\ tail \in Index
    BY DEF IInv, TypeOK
  <1>2. Ahead(tail, head) \in 0 .. Size /\ Available = Ahead(tail, head)
    BY <1>1, Distances, RingArithmetic DEF Available, Ahead
  <1>3. FullTail \in Index /\ FullTail = IF tail = 0 THEN Cells - 1 ELSE tail - 1
    BY <1>1, FullTailValue
  <1>4. Remaining = IF FullTail >= head THEN FullTail - head ELSE FullTail + Cells - head
    BY <1>1, <1>3, RingArithmetic DEF Remaining
  <1>5. /\ Ahead(head, FullTail) = Size - Ahead(tail, head)
        /\ Remaining = Size - Ahead(tail, head)
        /\ head = FullTail <=> Ahead(tail, head) = Size
    BY <1>1, <1>3, <1>4, CellsPositive DEF Ahead, Index
  <1>6. Unread \in Seq(Byte) /\ Len(Unread) = Ahead(First, head)
    BY UnreadIsAWindow
  <1>7. pop.pc = "advance" => Ahead(First, head) = Ahead(tail, head) - 1
    BY <1>1, Distances DEF First, IInv, TakesOnlyWhatIsThere
  <1>8. pop.pc # "advance" => First = tail
    BY DEF First
  <1>. QED  BY <1>1, <1>2, <1>3, <1>5, <1>6, <1>7, <1>8

\* The ranges of the ring's fields, and what the pcs say of the counts.
LEMMA CallFacts ==
  ASSUME IInv
  PROVE  /\ push.left \in Nat /\ pop.left \in Nat /\ push.full \in Index
         /\ push.pc \in {"idle", "store", "advance"}
         /\ pop.pc \in {"idle", "test", "load", "advance"}
         /\ push.pc # "idle" => push.left > 0 /\ Ahead(head, push.full) > 0
         /\ pop.pc \in {"load", "advance"} => pop.left > 0
         /\ Taking \in Nat
  BY DEF IInv, TypeOK, StaleFullTail, PopStillWanted, Taking

LEMMA UserTypes ==
  ASSUME UserInv
  PROVE  /\ up.now \in Seq(Byte) /\ Len(up.now) \in Nat
         /\ up.later \in Seq(Seq(Byte)) /\ Len(up.later) <= 2
         /\ down.buf \in Seq(Byte) /\ down.capacity \in Nat
         /\ down.pc \in {"idle", "length", "body", "drop"}
         /\ sent \in Seq(Member)
         /\ sent # <<>> => Head(sent) \in Member /\ Tail(sent) \in Seq(Member)
  <1>1. /\ up.now \in Seq(Byte) /\ up.later \in Seq(Seq(Byte)) /\ Len(up.later) <= 2
        /\ down.buf \in Seq(Byte) /\ down.capacity \in Nat
        /\ down.pc \in {"idle", "length", "body", "drop"}
        /\ sent \in Seq(Member)
    BY DEF UserInv, UserTypeOK
  <1>. QED  BY <1>1, HeadTailProperties

LEMMA Places ==
  ASSUME IInv, UserInv
  PROVE  /\ Rest \in Seq(Byte) /\ Len(Rest) = push.left
         /\ Later \in Seq(Byte) /\ Pending \in Seq(Byte) /\ Unread \in Seq(Byte)
         /\ Popped \in Seq(Byte) /\ Unread \o Pending \in Seq(Byte) /\ Stream \in Seq(Byte)
         /\ push.left = 0 => Rest = <<>>
  <1>1. push.left \in Nat /\ push.left <= Len(up.now) /\ Len(up.now) \in Nat
    BY CallFacts, UserTypes DEF UserInv, RoomForAll
  <1>2. Rest \in Seq(Byte) /\ Len(Rest) = push.left
    <2>1. \A i \in Len(up.now) - push.left + 1 .. Len(up.now) : up.now[i] \in Byte
      BY <1>1, UserTypes, ElementOfSeq
    <2>2. /\ Rest \in Seq(Byte)
          /\ Len(Rest) = IF Len(up.now) - push.left + 1 <= Len(up.now)
                         THEN Len(up.now) - (Len(up.now) - push.left + 1) + 1 ELSE 0
      BY <1>1, <2>1, SubSeqProperties DEF Rest
    <2>. QED  BY <2>2, <1>1
  <1>3. Later \in Seq(Byte)
    BY UserTypes, JoinedParts DEF Later
  <1>4. Unread \in Seq(Byte)
    BY RingFacts
  <1>5. Popped \in Seq(Byte)
    <2>1. CASE user = "message" /\ down.pc \in {"body", "drop"}
      <3>1. Head(sent) \in Member
        BY <2>1, UserTypes DEF UserInv, PopsOneMember
      <3>. QED  BY <2>1, <3>1, FramedBytes, UserTypes, ConcatProperties DEF Popped
    <2>2. CASE ~(user = "message" /\ down.pc \in {"body", "drop"})
      BY <2>2, UserTypes DEF Popped
    <2>. QED  BY <2>1, <2>2
  <1>6. Pending \in Seq(Byte) /\ Unread \o Pending \in Seq(Byte) /\ Stream \in Seq(Byte)
    BY <1>2, <1>3, <1>4, <1>5, ConcatProperties DEF Pending, Stream
  <1>7. push.left = 0 => Rest = <<>>
    BY <1>2, EmptySeq
  <1>. QED  BY <1>2, <1>3, <1>4, <1>5, <1>6, <1>7

\* What is between two calls of the producer: nothing.
LEMMA NothingPending ==
  ASSUME IInv, UserInv, PushIsIdle
  PROVE  Pending = <<>> /\ Unread \o Pending = Unread /\ Later = <<>> /\ push.left = 0
  <1>1. push.left = 0 /\ Rest = <<>> /\ Later = <<>>
    BY Places DEF PushIsIdle, UserInv, RoomForAll, Later, Joined
  <1>. QED  BY <1>1, Places, EmptySeq, ConcatEmptySeq DEF Pending

\* The bytes of the oldest member lead the stream.
LEMMA OldestLeads ==
  ASSUME IInv, UserInv, sent # <<>>
  PROVE  /\ Head(sent) \in Member /\ Framed(Head(sent)) \in Seq(Byte)
         /\ \E rest \in Seq(Byte) : /\ Stream = Framed(Head(sent)) \o rest
                                    /\ Holds(rest, Tail(sent))
  BY UserTypes, Places, HoldsFirst, FramedBytes DEF UserInv, HoldsTheMembers

LEMMA BytesMeanMembers ==
  ASSUME IInv, UserInv, Len(Unread) > 0
  PROVE  sent # <<>>
  <1>. SUFFICES ASSUME sent = <<>> PROVE FALSE
    OBVIOUS
  <1>1. Stream = <<>>
    BY Places, HoldsNothing DEF UserInv, HoldsTheMembers
  <1>2. Unread \o Pending = <<>>
    BY <1>1, Places, ConcatSimplifications DEF Stream
  <1>3. Unread = <<>>
    BY <1>2, Places, ConcatSimplifications
  <1>. QED  BY <1>3, EmptySeq

\* The next state holds the members when its bytes are those of its members.
LEMMA HoldsNext ==
  ASSUME user' = user, Holds(Stream', sent')
  PROVE  HoldsTheMembers'
  BY DEF HoldsTheMembers, Holds, Framed

LEMMA StreamStays ==
  ASSUME UserInv, user' = user, sent' = sent, Stream' = Stream
  PROVE  HoldsTheMembers'
  BY HoldsNext DEF UserInv, HoldsTheMembers

LEMMA MemberStays == ASSUME user' = user PROVE Member' = Member
  BY DEF Member

-----------------------------------------------------------------------------
(* The steps of the producer.                                              *)

\* What only the consumer changes, and what only the producer changes.
LEMMA ConsumerStays ==
  ASSUME UserInv, UNCHANGED <<user, down, pop>>,
         sent # <<>> => sent' # <<>> /\ Head(sent') = Head(sent),
         Len(Unread) \in Nat, Len(Unread') \in Nat, Len(Unread) <= Len(Unread'), Taking \in Nat
  PROVE  BytesForAll' /\ PopsOneMember' /\ Popped' = Popped
  <1>1. BytesForAll'
    BY DEF UserInv, BytesForAll, Taking
  <1>2. PopsOneMember'
    BY DEF UserInv, PopsOneMember, Taking
  <1>3. Popped' = Popped
    BY DEF UserInv, PopsOneMember, Popped
  <1>. QED  BY <1>1, <1>2, <1>3

LEMMA PushPartsKeeps ==
  ASSUME IInv, UserInv, user' = user,
         NEW m \in Member, NEW parts \in Seq(Seq(Byte)), Len(parts) <= 2,
         Joined(parts) = Framed(m), Len(Framed(m)) <= Remaining, PushParts(m, parts)
  PROVE  IInv' /\ UserInv'
  <1>1. /\ UNCHANGED vars /\ down' = down /\ PushIsIdle
        /\ up' = [now |-> <<>>, later |-> parts] /\ sent' = Append(sent, m)
    BY DEF PushParts
  <1>2. IInv'
    BY <1>1, MoveIInv
  <1>3. Unread' = Unread
    BY <1>1, <1>2, QuietMoves DEF QuietMove
  <1>4. /\ push.pc = "idle" /\ push' = push /\ push.left = 0 /\ Later = <<>> /\ Pending = <<>>
        /\ head' = head /\ tail' = tail /\ pbuf' = pbuf /\ pop' = pop
    BY <1>1, NothingPending DEF vars, PushIsIdle
  <1>5. /\ up'.now = <<>> /\ up'.later = parts /\ <<>> \in Seq(Byte) /\ Len(<<>>) = 0
        /\ Later' = Framed(m) /\ Framed(m) \in Seq(Byte) /\ Len(Framed(m)) \in Nat
    BY <1>1, EmptySeq, FramedBytes DEF Later
  <1>6. Rest' = <<>>
    BY <1>4, <1>5, SubSeqEmpty DEF Rest
  <1>7. Pending' = Framed(m)
    BY <1>5, <1>6, ConcatEmptySeq DEF Pending
  <1>8. sent' \in Seq(Member) /\ sent' # <<>> /\ (sent # <<>> => Head(sent') = Head(sent))
    BY <1>1, UserTypes, AppendProperties, HeadTailAppend
  <1>9. BytesForAll' /\ PopsOneMember' /\ Popped' = Popped
    BY <1>1, <1>3, <1>4, <1>8, ConsumerStays, Places, CallFacts, LenProperties
  <1>10. UserTypeOK'
    BY <1>1, <1>5, <1>8, MemberStays DEF UserInv, UserTypeOK
  <1>11. RoomForAll'
    <2>1. Len(Later') <= Size - Ahead(tail, head)
      BY <1>5, RingFacts
    <2>. QED  BY <2>1, <1>4, <1>5, RingFacts, SizeAssumption DEF RoomForAll, Ahead
  <1>12. PushesItsBytes'
    BY <1>4 DEF PushesItsBytes
  <1>13. HoldsTheMembers'
    <2>1. Unread \o Pending = Unread /\ Unread' \o Pending' = Unread \o Framed(m)
      BY <1>1, <1>3, <1>7, NothingPending
    <2>2. Stream = Popped \o Unread /\ Stream' = Popped \o (Unread \o Framed(m))
      BY <2>1, <1>9 DEF Stream
    <2>3. Stream' = Stream \o Framed(m)
      <3>1. (Popped \o Unread) \o Framed(m) = Popped \o (Unread \o Framed(m))
        <4>1. Popped \in Seq(Byte) /\ Unread \in Seq(Byte) /\ Framed(m) \in Seq(Byte)
          BY <1>5, Places
        <4>. QED  BY <4>1, ConcatAssociative
      <3>. QED  BY <2>2, <3>1
    <2>4. Holds(Stream \o Framed(m), Append(sent, m))
      BY Places, UserTypes, HoldsAppend DEF UserInv, HoldsTheMembers
    <2>. QED  BY <2>3, <2>4, <1>1, HoldsNext
  <1>. QED  BY <1>2, <1>9, <1>10, <1>11, <1>12, <1>13 DEF UserInv

LEMMA PushPartKeeps ==
  ASSUME IInv, UserInv, PushPart
  PROVE  IInv' /\ UserInv' /\ user' = user
  <1>. DEFINE n == Len(Head(up.later))
  <1>1. /\ push.pc = "idle" /\ up.later # <<>> /\ PushCall(n)
        /\ up' = [now |-> Head(up.later), later |-> Tail(up.later)]
        /\ UNCHANGED <<user, down, sent>>
    BY DEF PushPart
  <1>2. /\ Head(up.later) \in Seq(Byte) /\ n \in Nat
        /\ Tail(up.later) \in Seq(Seq(Byte)) /\ Len(Tail(up.later)) <= 2
        /\ Joined(Tail(up.later)) \in Seq(Byte) /\ Len(Joined(Tail(up.later))) \in Nat
        /\ Later = Head(up.later) \o Joined(Tail(up.later))
    BY <1>1, UserTypes, JoinedParts, LenProperties DEF Later
  <1>3. IInv'
    BY <1>1, <1>2, MoveIInv DEF Move, PushMove
  <1>4. Unread' = Unread
    BY <1>1, <1>2, <1>3, QuietMoves DEF QuietMove
  <1>5. /\ up'.now = Head(up.later) /\ up'.later = Tail(up.later)
        /\ Later' = Joined(Tail(up.later)) /\ Len(Later) = n + Len(Later')
    BY <1>1, <1>2, ConcatProperties DEF Later
  <1>6. /\ push.left = 0 /\ n + Len(Later') + Ahead(tail, head) <= Size
        /\ Ahead(tail, head) \in Nat
    <2>1. push.left = 0 /\ push.left + Len(Later) + Ahead(tail, head) <= Size
      BY <1>1 DEF UserInv, RoomForAll
    <2>2. Ahead(tail, head) \in Nat /\ n \in Nat /\ Len(Later') \in Nat /\ Size \in Nat
      BY <1>2, <1>5, RingFacts, SizeAssumption
    <2>. HIDE DEF n
    <2>. QED  BY <2>1, <2>2, <1>5
  <1>7. /\ head' = head /\ tail' = tail /\ pbuf' = pbuf /\ pop' = pop
        /\ push' = PushTest(head, n, FullTail)
    BY <1>1 DEF PushCall
  <1>8. /\ push'.left = n
        /\ \/ push'.pc = "idle" /\ n = 0
           \/ push'.pc = "store" /\ push'.full = FullTail
    <2>1. CASE n = 0
      BY <2>1, <1>7 DEF PushTest, PushIdle
    <2>2. CASE n > 0
      <3>1. head # FullTail
        <4>1. Len(Later') \in Nat /\ Size \in Nat
          BY <1>2, <1>5, SizeAssumption
        <4>. HIDE DEF n
        <4>2. Ahead(tail, head) # Size
          BY <2>2, <4>1, <1>2, <1>6
        <4>. QED  BY <4>2, RingFacts
      <3>2. push' = [pc |-> "store", left |-> n, full |-> FullTail]
        BY <2>2, <3>1, <1>7 DEF PushTest
      <3>. QED  BY <3>2
    <2>. QED  BY <2>1, <2>2, <1>2
  <1>9. UserTypeOK'
    BY <1>1, <1>2, <1>5, MemberStays DEF UserInv, UserTypeOK
  <1>10. RoomForAll'
    <2>1. push'.left + Len(Later') + Ahead(tail', head') <= Size /\ push'.left <= Len(up'.now)
      <3>1. Ahead(tail', head') = Ahead(tail, head) /\ push'.left = n /\ Len(up'.now) = n
        BY <1>5, <1>7, <1>8 DEF Ahead
      <3>. HIDE DEF n
      <3>. QED  BY <3>1, <1>2, <1>6
    <2>2. push'.pc # "idle" => push'.left <= Ahead(head', push'.full)
      <3>1. n <= Size - Ahead(tail, head)
        <4>1. Len(Later') \in Nat /\ Size \in Nat
          BY <1>2, <1>5, SizeAssumption
        <4>. HIDE DEF n
        <4>. QED  BY <4>1, <1>2, <1>6
      <3>2. push'.pc # "idle" => Ahead(head', push'.full) = Ahead(head, FullTail)
        BY <1>7, <1>8 DEF Ahead
      <3>. QED  BY <3>1, <3>2, <1>8, RingFacts
    <2>3. push'.pc = "idle" => push'.left = 0
      BY <1>8
    <2>. QED  BY <2>1, <2>2, <2>3 DEF RoomForAll, Ahead
  <1>11. PushesItsBytes'
    BY <1>8 DEF PushesItsBytes
  <1>12. BytesForAll' /\ PopsOneMember' /\ Popped' = Popped
    BY <1>1, <1>4, <1>7, ConsumerStays, Places, CallFacts, LenProperties
  <1>13. Pending' = Pending
    <2>1. Rest' = SubSeq(up'.now, Len(up'.now) - push'.left + 1, Len(up'.now))
      BY DEF Rest
    <2>2. Len(up'.now) = n /\ n - n + 1 = 1
      BY <1>2, <1>5
    <2>3. Rest' = SubSeq(Head(up.later), 1, Len(Head(up.later)))
      BY <2>1, <2>2, <1>5, <1>8
    <2>4. Rest' = Head(up.later)
      BY <2>3, <1>2, SubSeqFull
    <2>5. Rest = <<>> /\ Pending = Later
      BY <1>6, Places, ConcatEmptySeq DEF Pending
    <2>. QED  BY <2>4, <2>5, <1>2, <1>5 DEF Pending
  <1>14. HoldsTheMembers'
    BY <1>1, <1>4, <1>12, <1>13, StreamStays DEF Stream
  <1>. QED  BY <1>1, <1>3, <1>9, <1>10, <1>11, <1>12, <1>14 DEF UserInv

LEMMA ByteToPush ==
  ASSUME IInv, UserInv, push.pc # "idle"
  PROVE  up.now[Len(up.now) - push.left + 1] \in Byte
  <1>1. /\ push.left \in Nat /\ push.left > 0 /\ push.left <= Len(up.now)
        /\ Len(up.now) \in Nat /\ up.now \in Seq(Byte)
    BY CallFacts, UserTypes DEF UserInv, RoomForAll
  <1>2. Len(up.now) - push.left + 1 \in 1 .. Len(up.now)
    BY <1>1
  <1>. QED  BY <1>1, <1>2, ElementOfSeq

LEMMA PushByteKeeps ==
  ASSUME IInv, UserInv, PushByte
  PROVE  IInv' /\ UserInv' /\ user' = user
  <1>. DEFINE b == up.now[Len(up.now) - push.left + 1]
  <1>1. push.pc = "store" /\ PushStore(b) /\ UNCHANGED <<user, up, down, sent>>
    BY DEF PushByte, queueVars
  <1>2. b \in Byte
    BY <1>1, ByteToPush
  <1>. HIDE DEF b
  <1>3. IInv'
    BY <1>1, <1>2, MoveIInv DEF Move, PushMove
  <1>4. Unread' = Unread
    BY <1>1, <1>2, <1>3, QuietMoves DEF QuietMove
  <1>5. /\ head' = head /\ tail' = tail /\ pop' = pop /\ pbuf' = [pbuf EXCEPT ![head] = b]
        /\ push' = [push EXCEPT !.pc = "advance"]
    BY <1>1 DEF PushStore
  <1>6. push'.pc = "advance" /\ push'.left = push.left /\ push'.full = push.full
    BY <1>5 DEF IInv, TypeOK
  <1>7. UserTypeOK'
    BY <1>1, MemberStays DEF UserInv, UserTypeOK
  <1>8. Later' = Later /\ Rest' = Rest /\ Pending' = Pending
    BY <1>1, <1>6 DEF Later, Rest, Pending
  <1>9. RoomForAll'
    BY <1>1, <1>5, <1>6, <1>8 DEF UserInv, RoomForAll, Ahead
  <1>10. PushesItsBytes'
    <2>1. pbuf'[head'] = b
      BY <1>5 DEF IInv, TypeOK
    <2>2. b = up'.now[Len(up'.now) - push'.left + 1]
      BY <1>1, <1>6 DEF b
    <2>. QED  BY <2>1, <2>2 DEF PushesItsBytes
  <1>11. BytesForAll' /\ PopsOneMember' /\ Popped' = Popped
    BY <1>1, <1>4, <1>5, ConsumerStays, Places, CallFacts, LenProperties
  <1>12. HoldsTheMembers'
    BY <1>1, <1>4, <1>8, <1>11, StreamStays DEF Stream
  <1>. QED  BY <1>1, <1>3, <1>7, <1>9, <1>10, <1>11, <1>12 DEF UserInv

LEMMA PushOnKeeps ==
  ASSUME IInv, UserInv, PushOn
  PROVE  IInv' /\ UserInv' /\ user' = user
  <1>. DEFINE k == Len(up.now) - push.left + 1
              b == up.now[k]
  <1>1. push.pc = "advance" /\ PushAdvance /\ UNCHANGED <<user, up, down, sent>>
    BY DEF PushOn, PushAdvance, queueVars
  <1>2. IInv'
    BY <1>1, MoveIInv DEF Move, PushMove
  <1>3. /\ push.left \in Nat /\ push.left > 0 /\ push.left <= Len(up.now)
        /\ push.left <= Ahead(head, push.full) /\ push.full \in Index
        /\ Len(up.now) \in Nat /\ up.now \in Seq(Byte)
        /\ push.left + Len(Later) + Ahead(tail, head) <= Size
    BY <1>1, CallFacts, UserTypes DEF UserInv, RoomForAll
  <1>4. k \in 1 .. Len(up.now) /\ b \in Byte /\ pbuf[head] = b
    <2>1. k \in 1 .. Len(up.now)
      BY <1>3
    <2>2. pbuf[head] = b
      BY <1>1 DEF UserInv, PushesItsBytes
    <2>. QED  BY <2>1, <2>2, <1>3, ElementOfSeq
  <1>5. /\ head' = NextIndex(head) /\ tail' = tail /\ pop' = pop
        /\ push' = PushTest(NextIndex(head), push.left - 1, push.full)
    BY <1>1 DEF PushAdvance, PushTest
  <1>6. /\ Ahead(tail, head') = Ahead(tail, head) + 1
        /\ Ahead(head', push.full) = Ahead(head, push.full) - 1
        /\ Ahead(head, push.full) \in Nat /\ Ahead(tail, head) \in Nat
        /\ Ahead(head', push.full) > 0 => head' # push.full
    <2>1. NextIndex(head) # tail
      BY <1>1, RoomAhead DEF HeadNeverReachesTail
    <2>2. head # push.full /\ NextIndex(head) \in Index /\ head \in Index /\ tail \in Index
      BY <1>1, <1>3, CallFacts, RingFacts, RingArithmetic, Distances
    <2>. QED  BY <2>1, <2>2, <1>3, <1>5, Distances
  <1>7. /\ push'.left = push.left - 1
        /\ \/ push'.pc = "idle" /\ push'.left = 0
           \/ push'.pc = "store" /\ push'.full = push.full
    <2>1. CASE push.left - 1 = 0
      BY <2>1, <1>5 DEF PushTest, PushIdle
    <2>2. CASE push.left - 1 > 0
      <3>1. NextIndex(head) # push.full
        BY <2>2, <1>3, <1>5, <1>6
      <3>2. push' = [pc |-> "store", left |-> push.left - 1, full |-> push.full]
        BY <2>2, <3>1, <1>5 DEF PushTest
      <3>. QED  BY <3>2
    <2>. QED  BY <2>1, <2>2, <1>3
  <1>. HIDE DEF k, b
  <1>8. UserTypeOK'
    BY <1>1, MemberStays DEF UserInv, UserTypeOK
  <1>9. Later' = Later /\ Later \in Seq(Byte) /\ Len(Later) \in Nat
    BY <1>1, Places, LenProperties DEF Later
  <1>10. RoomForAll'
    <2>1. push'.left <= Len(up'.now)
      BY <1>1, <1>3, <1>7
    <2>2. push'.left + Len(Later') + Ahead(tail', head') <= Size
      <3>1. Ahead(tail', head') = Ahead(tail, head) + 1
        BY <1>5, <1>6 DEF Ahead
      <3>. QED  BY <3>1, <1>3, <1>6, <1>7, <1>9, SizeAssumption
    <2>3. push'.pc # "idle" => push'.left <= Ahead(head', push'.full)
      <3>1. push'.left <= Ahead(head', push.full)
        BY <1>3, <1>6, <1>7
      <3>. QED  BY <3>1, <1>7 DEF Ahead
    <2>4. push'.pc = "idle" => push'.left = 0
      BY <1>7
    <2>. QED  BY <2>1, <2>2, <2>3, <2>4 DEF RoomForAll, Ahead
  <1>11. PushesItsBytes'
    BY <1>7 DEF PushesItsBytes
  <1>12. Unread' = Append(Unread, b) /\ Unread \in Seq(Byte)
    BY <1>1, <1>2, <1>4, AdvanceAppends, Places
  <1>13. BytesForAll' /\ PopsOneMember' /\ Popped' = Popped
    <2>1. Len(Unread') \in Nat /\ Len(Unread) \in Nat /\ Len(Unread) <= Len(Unread')
      <3>1. Len(Unread') = Len(Unread) + 1 /\ Len(Unread) \in Nat
        BY <1>4, <1>12, AppendProperties, LenProperties
      <3>. QED  BY <3>1
    <2>. QED  BY <2>1, <1>1, <1>5, ConsumerStays, CallFacts
  <1>14. Rest = <<b>> \o Rest' /\ Rest' \in Seq(Byte)
    <2>1. Rest = SubSeq(up.now, k, Len(up.now))
      BY DEF Rest, k
    <2>2. Rest' = SubSeq(up.now, k + 1, Len(up.now))
      <3>1. Len(up'.now) - push'.left + 1 = k + 1 /\ up'.now = up.now
        BY <1>1, <1>3, <1>7 DEF k
      <3>. QED  BY <3>1 DEF Rest
    <2>3. Rest = <<b>> \o Rest'
      <3>1. Len(up.now) \in k .. Len(up.now)
        BY <1>3, <1>4
      <3>. QED  BY <3>1, <2>1, <2>2, <1>3, <1>4, SubSeqRecursiveFirst DEF b
    <2>4. \A i \in k + 1 .. Len(up.now) : up.now[i] \in Byte
      BY <1>3, <1>4, ElementOfSeq
    <2>. QED  BY <2>2, <2>3, <2>4, <1>3, <1>4, SubSeqProperties
  <1>15. Stream' = Stream
    <2>1. Stream' = Popped \o (Append(Unread, b) \o (Rest' \o Later))
      BY <1>9, <1>12, <1>13 DEF Stream, Pending
    <2>2. Stream = Popped \o (Unread \o ((<<b>> \o Rest') \o Later))
      BY <1>14 DEF Stream, Pending
    <2>3. Popped \in Seq(Byte) /\ Unread \in Seq(Byte) /\ Later \in Seq(Byte)
      BY Places
    <2>4. /\ <<b>> \in Seq(Byte) /\ Rest' \in Seq(Byte) /\ Rest' \o Later \in Seq(Byte)
          /\ Append(Unread, b) = Unread \o <<b>>
      BY <1>4, <1>14, <2>3, AppendIsConcat, ConcatProperties
    <2>5. PICK c \in Seq(Byte) : c = <<b>>
      BY <2>4
    <2>6. PICK r \in Seq(Byte) : r = Rest'
      BY <2>4
    <2>7. (c \o r) \o Later = c \o (r \o Later)
      BY <2>3, ConcatAssociative
    <2>8. (Unread \o c) \o (r \o Later) = Unread \o (c \o (r \o Later))
      <3>1. \A x \in Seq(Byte) : (Unread \o c) \o x = Unread \o (c \o x)
        BY <2>3, ConcatAssociative
      <3>. QED  BY <3>1, <2>4, <2>6
    <2>. QED  BY <2>1, <2>2, <2>4, <2>5, <2>6, <2>7, <2>8
  <1>16. HoldsTheMembers'
    BY <1>1, <1>15, StreamStays
  <1>. QED  BY <1>1, <1>2, <1>8, <1>10, <1>11, <1>13, <1>16 DEF UserInv

-----------------------------------------------------------------------------
(* The steps of the consumer.                                              *)
LEMMA ProducerStays ==
  ASSUME IInv, UserInv, UNCHANGED <<push, up, head, pbuf>>,
         tail' = tail \/ Ahead(tail', head) <= Ahead(tail, head),
         Ahead(tail', head) \in Nat
  PROVE  RoomForAll' /\ PushesItsBytes' /\ Pending' = Pending
  <1>1. Later' = Later /\ Rest' = Rest
    BY DEF Later, Rest
  <1>2. RoomForAll'
    <2>1. push.left \in Nat /\ Len(Later) \in Nat /\ Ahead(tail, head) \in Nat
      BY CallFacts, Places, LenProperties, RingFacts
    <2>2. push.left + Len(Later) + Ahead(tail, head) <= Size
      BY DEF UserInv, RoomForAll
    <2>3. Ahead(tail', head') = Ahead(tail', head) /\ Ahead(tail', head) <= Ahead(tail, head)
      BY <2>1
    <2>4. push'.left + Len(Later') + Ahead(tail', head') <= Size
      BY <2>1, <2>2, <2>3, <1>1, SizeAssumption
    <2>5. /\ push'.left <= Len(up'.now)
          /\ push'.pc = "idle" => push'.left = 0
          /\ push'.pc # "idle" => push'.left <= Ahead(head', push'.full)
      BY DEF UserInv, RoomForAll, Ahead
    <2>. QED  BY <2>4, <2>5 DEF RoomForAll, Ahead
  <1>3. PushesItsBytes'
    BY DEF UserInv, PushesItsBytes
  <1>. QED  BY <1>1, <1>2, <1>3 DEF Pending

\* A pop of a queue or a semaphore, and the pop of a message's length.
LEMMA PopPartKeeps ==
  ASSUME IInv, UserInv, NEW size \in Nat, NEW pc, NEW capacity \in Nat,
         PopPart(size, pc, capacity), size > 0, size <= Available,
         \/ pc = "body" /\ user # "message" /\ \A m \in Member : Len(m) = size
         \/ pc = "length" /\ user = "message" /\ size = LengthSize
  PROVE  IInv' /\ UserInv' /\ user' = user
  <1>1. /\ down.pc = "idle" /\ PopCall(size)
        /\ down' = [pc |-> pc, capacity |-> capacity, buf |-> <<>>]
        /\ UNCHANGED <<user, up, sent>>
    BY DEF PopPart, PopIsIdle
  <1>2. IInv'
    BY <1>1, MoveIInv DEF Move, PopMove
  <1>3. Unread' = Unread
    BY <1>1, <1>2, QuietMoves DEF QuietMove
  <1>4. /\ UNCHANGED <<pbuf, head, tail, push>>
        /\ pop.pc = "idle" /\ pop' = [pc |-> "test", left |-> size]
    BY <1>1 DEF PopCall
  <1>5. RoomForAll' /\ PushesItsBytes' /\ Pending' = Pending
    BY <1>1, <1>4, ProducerStays, RingFacts
  <1>6. pop'.pc = "test" /\ pop'.left = size /\ Taking' = size
    BY <1>4 DEF Taking
  <1>7. down'.pc = pc /\ down'.capacity = capacity /\ down'.buf = <<>> /\ <<>> \in Seq(Byte)
        /\ Len(<<>>) = 0
    BY <1>1, EmptySeq
  <1>8. UserTypeOK'
    BY <1>1, <1>7, MemberStays DEF UserInv, UserTypeOK
  <1>9. size <= Len(Unread) /\ Len(Unread) > 0
    BY <1>4, RingFacts
  <1>10. BytesForAll'
    BY <1>3, <1>6, <1>9 DEF BytesForAll
  <1>11. sent # <<>> /\ Head(sent) \in Member
    BY <1>9, BytesMeanMembers, UserTypes
  <1>12. PopsOneMember'
    <2>1. pc = "length" => Len(down'.buf) + Taking' = LengthSize
      BY <1>6, <1>7
    <2>2. pc = "body" => Len(down'.buf) + Taking' = Len(Head(sent))
      BY <1>6, <1>7, <1>11
    <2>. QED  BY <2>1, <2>2, <1>1, <1>7, <1>11 DEF PopsOneMember
  <1>13. Popped' = Popped
    <2>1. Popped = <<>>
      BY <1>1 DEF UserInv, PopsOneMember, Popped
    <2>. QED  BY <2>1, <1>1, <1>7 DEF Popped
  <1>14. HoldsTheMembers'
    BY <1>1, <1>3, <1>5, <1>13, StreamStays DEF Stream
  <1>. QED  BY <1>1, <1>2, <1>5, <1>8, <1>10, <1>12, <1>14 DEF UserInv

LEMMA PopStepKeeps ==
  ASSUME IInv, UserInv, PopStep
  PROVE  IInv' /\ UserInv' /\ user' = user
  <1>1. /\ PopTest \/ PopAdvance
        /\ down.pc # "idle" /\ UNCHANGED <<user, up, down, sent>>
    BY DEF PopStep, PopIsIdle, queueVars
  <1>2. IInv'
    BY <1>1, MoveIInv DEF Move, PopMove
  <1>3. Unread' = Unread
    BY <1>1, <1>2, QuietMoves DEF QuietMove
  <1>4. UNCHANGED <<pbuf, head, push>>
    BY <1>1 DEF PopTest, PopAdvance
  <1>5. RoomForAll' /\ PushesItsBytes' /\ Pending' = Pending
    <2>1. CASE PopTest
      BY <2>1, <1>1, <1>4, ProducerStays, RingFacts DEF PopTest
    <2>2. CASE PopAdvance
      <3>1. tail' = NextIndex(tail) /\ head # tail /\ head \in Index /\ tail \in Index
        BY <2>2, RingFacts DEF PopAdvance, IInv, TakesOnlyWhatIsThere
      <3>2. Ahead(tail', head) = Ahead(tail, head) - 1 /\ Ahead(tail, head) \in Nat
            /\ Ahead(tail, head) > 0
        BY <3>1, Distances
      <3>3. Ahead(tail', head) \in Nat /\ Ahead(tail', head) <= Ahead(tail, head)
        BY <3>2
      <3>. QED  BY <3>3, <1>1, <1>4, ProducerStays
    <2>. QED  BY <2>1, <2>2, <1>1
  <1>6. Taking' = Taking /\ (pop'.pc = "idle" => pop'.left = 0)
    <2>1. CASE PopAdvance
      BY <2>1, CallFacts DEF PopAdvance, Taking
    <2>2. CASE PopTest
      <3>1. /\ pop.pc = "test" /\ tail' = tail
            /\ pop \in [pc : {"idle", "test", "load", "advance"}, left : Nat]
        BY <2>2 DEF PopTest, IInv, TypeOK
      <3>2. pop.left > 0 => head # tail
        <4>1. pop.left <= Ahead(tail, head)
          BY <3>1, RingFacts DEF UserInv, BytesForAll, Taking
        <4>. QED  BY <4>1, <3>1, RingFacts, Distances
      <3>3. CASE pop.left > 0
        <4>1. pop' = [pop EXCEPT !.pc = "load"]
          BY <2>2, <3>2, <3>3 DEF PopTest
        <4>. QED  BY <4>1, <3>1 DEF Taking
      <3>4. CASE pop.left = 0
        <4>1. pop' = [pop EXCEPT !.pc = "idle"]
          BY <2>2, <3>4 DEF PopTest
        <4>. QED  BY <4>1, <3>1, <3>4 DEF Taking
      <3>. QED  BY <3>1, <3>3, <3>4
    <2>. QED  BY <2>1, <2>2, <1>1
  <1>7. UserTypeOK'
    BY <1>1, MemberStays DEF UserInv, UserTypeOK
  <1>8. BytesForAll'
    BY <1>3, <1>6 DEF UserInv, BytesForAll
  <1>9. PopsOneMember'
    BY <1>1, <1>6 DEF UserInv, PopsOneMember
  <1>10. Popped' = Popped
    BY <1>1 DEF Popped
  <1>11. HoldsTheMembers'
    BY <1>1, <1>3, <1>5, <1>10, StreamStays DEF Stream
  <1>. QED  BY <1>1, <1>2, <1>5, <1>7, <1>8, <1>9, <1>11 DEF UserInv

\* A byte that is copied out stays where it is in the stream.
LEMMA ByteIsCopied ==
  ASSUME NEW p \in Seq(Byte), NEW u \in Seq(Byte), NEW r \in Seq(Byte), u # <<>>
  PROVE  Append(p, Head(u)) \o (Tail(u) \o r) = p \o (u \o r)
  <1>1. Head(u) \in Byte /\ Tail(u) \in Seq(Byte)
    BY HeadTailProperties
  <1>2. <<Head(u)>> \in Seq(Byte) /\ Tail(u) \o r \in Seq(Byte)
        /\ Append(p, Head(u)) = p \o <<Head(u)>>
    BY <1>1, AppendIsConcat, ConcatProperties
  <1>3. u = <<Head(u)>> \o Tail(u)
    <2>1. Len(u) \in 1 .. Len(u) /\ 1 \in 1 .. Len(u) /\ Head(u) = u[1]
      BY EmptySeq
    <2>2. SubSeq(u, 1, Len(u)) = <<u[1]>> \o SubSeq(u, 1 + 1, Len(u))
      BY <2>1, SubSeqRecursiveFirst
    <2>. QED  BY <2>1, <2>2, SubSeqFull, TailIsSubSeq
  <1>4. (<<Head(u)>> \o Tail(u)) \o r = <<Head(u)>> \o (Tail(u) \o r)
    BY <1>1, <1>2, ConcatAssociative
  <1>5. (p \o <<Head(u)>>) \o (Tail(u) \o r) = p \o (<<Head(u)>> \o (Tail(u) \o r))
    BY <1>2, ConcatAssociative
  <1>. QED  BY <1>2, <1>3, <1>4, <1>5

LEMMA PopByteKeeps ==
  ASSUME IInv, UserInv, PopByte
  PROVE  IInv' /\ UserInv' /\ user' = user
  <1>1. /\ down.pc # "idle" /\ PopLoad /\ UNCHANGED <<user, up, sent>>
        /\ down' = [down EXCEPT !.buf = Append(@, taken')]
    BY DEF PopByte, PopIsIdle
  <1>2. IInv'
    BY <1>1, MoveIInv DEF Move, PopMove
  <1>3. Unread # <<>> /\ taken' = Head(Unread) /\ Unread' = Tail(Unread)
    BY <1>1, <1>2, LoadTakesHead
  <1>4. UNCHANGED <<pbuf, head, tail, push>> /\ pop.pc = "load"
        /\ pop' = [pop EXCEPT !.pc = "advance"]
    BY <1>1 DEF PopLoad
  <1>5. RoomForAll' /\ PushesItsBytes' /\ Pending' = Pending
    BY <1>1, <1>4, ProducerStays, RingFacts
  <1>6. /\ pop.left \in Nat /\ pop.left > 0 /\ Taking = pop.left
        /\ pop'.pc = "advance" /\ Taking' = pop.left - 1
    <2>1. pop' = [pc |-> "advance", left |-> pop.left]
      BY <1>4 DEF IInv, TypeOK
    <2>. QED  BY <2>1, <1>4, CallFacts DEF Taking
  <1>7. /\ down'.pc = down.pc /\ down'.capacity = down.capacity
        /\ down'.buf = Append(down.buf, Head(Unread))
    BY <1>1, <1>3 DEF UserInv, UserTypeOK
  <1>8. /\ Head(Unread) \in Byte /\ Tail(Unread) \in Seq(Byte)
        /\ Len(Tail(Unread)) = Len(Unread) - 1 /\ Len(Unread) \in Nat
        /\ down'.buf \in Seq(Byte) /\ Len(down'.buf) = Len(down.buf) + 1 /\ Len(down.buf) \in Nat
    BY <1>3, <1>7, Places, UserTypes, HeadTailProperties, AppendProperties, LenProperties
  <1>9. UserTypeOK'
    <2>1. down' \in [pc : {"idle", "length", "body", "drop"}, capacity : Nat, buf : Seq(Byte)]
      BY <1>1, <1>7, <1>8 DEF UserInv, UserTypeOK
    <2>. QED  BY <2>1, <1>1, MemberStays DEF UserInv, UserTypeOK
  <1>10. BytesForAll'
    <2>1. pop.left <= Len(Unread)
      BY <1>6 DEF UserInv, BytesForAll
    <2>. QED  BY <2>1, <1>3, <1>6, <1>8 DEF BytesForAll
  <1>11. PopsOneMember'
    <2>1. Len(down'.buf) + Taking' = Len(down.buf) + Taking
      <3>1. Len(down.buf) \in Nat /\ Len(down'.buf) = Len(down.buf) + 1
        BY <1>8
      <3>2. pop.left \in Nat /\ Taking = pop.left /\ Taking' = pop.left - 1
        BY <1>6
      <3>. QED  BY <3>1, <3>2
    <2>. QED  BY <2>1, <1>1, <1>7 DEF UserInv, PopsOneMember
  <1>12. Popped' = Append(Popped, Head(Unread))
    <2>1. CASE user = "message" /\ down.pc \in {"body", "drop"}
      <3>. DEFINE e == Encoded(Len(Head(sent)))
      <3>1. e \in Seq(Byte)
        BY <2>1, FramedBytes, UserTypes DEF UserInv, PopsOneMember
      <3>2. Popped = e \o down.buf /\ Popped' = e \o Append(down.buf, Head(Unread))
        BY <2>1, <1>1, <1>7 DEF Popped
      <3>. HIDE DEF e
      <3>3. /\ down.buf \in Seq(Byte) /\ Head(Unread) \in Byte /\ <<Head(Unread)>> \in Seq(Byte)
            /\ e \o down.buf \in Seq(Byte)
        BY <3>1, <1>8, UserTypes, ConcatProperties
      <3>4. Append(down.buf, Head(Unread)) = down.buf \o <<Head(Unread)>>
        BY <3>3, AppendIsConcat
      <3>5. Append(e \o down.buf, Head(Unread)) = (e \o down.buf) \o <<Head(Unread)>>
        BY <3>3, AppendIsConcat
      <3>6. (e \o down.buf) \o <<Head(Unread)>> = e \o (down.buf \o <<Head(Unread)>>)
        <4>. DEFINE c == <<Head(Unread)>>
        <4>1. down.buf \in Seq(Byte) /\ c \in Seq(Byte)
          BY <3>3
        <4>2. (e \o down.buf) \o c = e \o (down.buf \o c)
          <5>. HIDE DEF c
          <5>1. \A x \in Seq(Byte) : (e \o x) \o c = e \o (x \o c)
            BY <4>1, <3>1, ConcatAssociative
          <5>. QED  BY <4>1, <5>1
        <4>. QED  BY <4>2
      <3>. QED  BY <3>2, <3>4, <3>5, <3>6
    <2>2. CASE ~(user = "message" /\ down.pc \in {"body", "drop"})
      BY <2>2, <1>1, <1>7 DEF Popped
    <2>. QED  BY <2>1, <2>2
  <1>13. Stream' = Stream
    <2>1. Popped \in Seq(Byte) /\ Unread \in Seq(Byte) /\ Pending \in Seq(Byte)
      BY Places
    <2>2. Append(Popped, Head(Unread)) \o (Tail(Unread) \o Pending) = Popped \o (Unread \o Pending)
      BY <2>1, <1>3, ByteIsCopied
    <2>. QED  BY <2>2, <1>3, <1>5, <1>12 DEF Stream
  <1>14. HoldsTheMembers'
    BY <1>1, <1>13, StreamStays
  <1>. QED  BY <1>1, <1>2, <1>5, <1>9, <1>10, <1>11, <1>14 DEF UserInv

\* With the length popped, the buffer holds that of the oldest member, and the
\* ring its body.
LEMMA LengthIsPopped ==
  ASSUME IInv, UserInv, down.pc = "length", pop.pc = "idle", MayPop
  PROVE  /\ user = "message" /\ sent # <<>> /\ Head(sent) \in Member
         /\ down.buf = Encoded(Len(Head(sent)))
         /\ Decoded(down.buf) = Len(Head(sent)) /\ Len(Head(sent)) \in Nat
         /\ Len(Head(sent)) <= Len(Unread)
  <1>. DEFINE h == Head(sent)
  <1>1. /\ user = "message" /\ sent # <<>> /\ Taking = 0
        /\ Len(down.buf) = LengthSize /\ Popped = down.buf
    BY LenProperties, UserTypes DEF UserInv, PopsOneMember, BytesForAll, Taking, Popped
  <1>2. PushIsIdle
    BY <1>1 DEF MayPop
  <1>3. Stream = down.buf \o Unread
    BY <1>1, <1>2, NothingPending DEF Stream
  <1>4. h \in Member
    BY <1>1, OldestLeads
  <1>. DEFINE e == Encoded(Len(h))
  <1>5. /\ h \in Seq(Byte) /\ Len(h) \in Nat /\ e \in Seq(Byte) /\ Len(e) = LengthSize
        /\ Decoded(e) = Len(h) /\ Framed(h) = e \o h
    BY <1>1, <1>4, FramedBytes, LenProperties
  <1>6. PICK rest \in Seq(Byte) : Stream = Framed(h) \o rest
    BY <1>1, OldestLeads
  <1>. HIDE DEF e, h
  <1>7. (e \o h) \o rest = e \o (h \o rest) /\ h \o rest \in Seq(Byte)
        /\ Len(h \o rest) = Len(h) + Len(rest)
    BY <1>5, ConcatAssociative, ConcatProperties
  <1>8. down.buf = e /\ Unread = h \o rest
    <2>1. down.buf \o Unread = e \o (h \o rest)
      BY <1>3, <1>5, <1>6, <1>7
    <2>2. PICK y \in Seq(Byte) : y = h \o rest
      BY <1>7
    <2>3. down.buf \o Unread = e \o y /\ Len(down.buf) = Len(e)
      BY <2>1, <2>2, <1>1, <1>5
    <2>4. down.buf \in Seq(Byte) /\ Unread \in Seq(Byte) /\ e \in Seq(Byte)
      BY <1>5, UserTypes, Places
    <2>5. down.buf = e /\ Unread = y
      BY <2>3, <2>4, SamePrefix
    <2>. QED  BY <2>2, <2>5
  <1>9. Len(h) <= Len(Unread)
    <2>1. Len(rest) \in Nat /\ Len(Unread) = Len(h) + Len(rest)
      BY <1>7, <1>8, LenProperties
    <2>. QED  BY <2>1, <1>5
  <1>. QED  BY <1>1, <1>4, <1>5, <1>8, <1>9 DEF e, h

\* With its body popped, or dropped, the buffer holds the oldest member.
LEMMA MemberIsPopped ==
  ASSUME IInv, UserInv, down.pc \in {"body", "drop"}, pop.pc = "idle"
  PROVE  /\ sent # <<>> /\ down.buf = Head(sent)
         /\ Holds(Unread \o Pending, Tail(sent))
  <1>. DEFINE h == Head(sent)
              e == Encoded(Len(h))
  <1>1. sent # <<>> /\ Taking = 0 /\ Len(down.buf) = Len(h)
    BY LenProperties, UserTypes DEF UserInv, PopsOneMember, BytesForAll, Taking
  <1>2. /\ h \in Member /\ h \in Seq(Byte) /\ Framed(h) \in Seq(Byte)
        /\ down.buf \in Seq(Byte) /\ Popped \in Seq(Byte) /\ Unread \o Pending \in Seq(Byte)
    BY <1>1, OldestLeads, FramedBytes, UserTypes, Places
  <1>3. PICK rest \in Seq(Byte) : Stream = Framed(h) \o rest /\ Holds(rest, Tail(sent))
    BY <1>1, OldestLeads
  <1>4. CASE user = "message"
    <2>1. e \in Seq(Byte) /\ Popped = e \o down.buf /\ Framed(h) = e \o h
      BY <1>2, <1>4, FramedBytes DEF Popped
    <2>. HIDE DEF e, h
    <2>2. Len(Popped) = Len(Framed(h))
      <3>1. Len(e \o down.buf) = Len(e) + Len(down.buf) /\ Len(e \o h) = Len(e) + Len(h)
        BY <2>1, <1>2, ConcatProperties
      <3>. QED  BY <2>1, <3>1, <1>1
    <2>3. Popped = Framed(h) /\ Unread \o Pending = rest
      <3>1. PICK x \in Seq(Byte) : x = Unread \o Pending
        BY <1>2
      <3>2. Popped \o x = Framed(h) \o rest
        BY <3>1, <1>3 DEF Stream
      <3>3. Popped = Framed(h) /\ x = rest
        BY <3>2, <2>2, <1>2, SamePrefix
      <3>. QED  BY <3>1, <3>3
    <2>4. down.buf = h
      BY <2>1, <2>3, <1>2, SamePrefix
    <2>. QED  BY <2>3, <2>4, <1>1, <1>3 DEF h
  <1>5. CASE user # "message"
    <2>1. Popped = down.buf /\ Framed(h) = h
      BY <1>2, <1>5, FramedBytes DEF Popped
    <2>. HIDE DEF e, h
    <2>2. Popped = Framed(h) /\ Unread \o Pending = rest
      <3>1. PICK x \in Seq(Byte) : x = Unread \o Pending
        BY <1>2
      <3>2. Popped \o x = Framed(h) \o rest /\ Len(Popped) = Len(Framed(h))
        BY <2>1, <3>1, <1>1, <1>3 DEF Stream
      <3>3. Popped = Framed(h) /\ x = rest
        BY <3>2, <1>2, SamePrefix
      <3>. QED  BY <3>1, <3>3
    <2>. QED  BY <2>1, <2>2, <1>1, <1>3 DEF h
  <1>. QED  BY <1>4, <1>5

LEMMA PopLengthKeeps ==
  ASSUME IInv, UserInv, PopLength
  PROVE  IInv' /\ UserInv' /\ user' = user
  <1>. DEFINE n == Decoded(down.buf)
  <1>1. /\ down.pc = "length" /\ pop.pc = "idle" /\ MayPop /\ PopCall(n)
        /\ down' = [down EXCEPT !.pc = IF n > down.capacity THEN "drop" ELSE "body",
                                !.buf = <<>>]
        /\ UNCHANGED <<user, up, sent>>
    BY DEF PopLength
  <1>2. /\ user = "message" /\ sent # <<>> /\ Head(sent) \in Member
        /\ down.buf = Encoded(Len(Head(sent)))
        /\ n = Len(Head(sent)) /\ n \in Nat /\ n <= Len(Unread)
    BY <1>1, LengthIsPopped
  <1>. HIDE DEF n
  <1>3. IInv'
    BY <1>1, <1>2, MoveIInv DEF Move, PopMove
  <1>4. Unread' = Unread
    BY <1>1, <1>2, <1>3, QuietMoves DEF QuietMove
  <1>5. UNCHANGED <<pbuf, head, tail, push>> /\ pop' = [pc |-> "test", left |-> n]
    BY <1>1 DEF PopCall
  <1>6. RoomForAll' /\ PushesItsBytes' /\ Pending' = Pending
    BY <1>1, <1>5, ProducerStays, RingFacts
  <1>7. pop'.pc = "test" /\ pop'.left = n /\ Taking' = n
    BY <1>5 DEF Taking
  <1>8. /\ down' = [pc |-> IF n > down.capacity THEN "drop" ELSE "body",
                    capacity |-> down.capacity, buf |-> <<>>]
        /\ <<>> \in Seq(Byte) /\ Len(<<>>) = 0
    BY <1>1, EmptySeq DEF UserInv, UserTypeOK
  <1>9. /\ down'.pc \in {"body", "drop"} /\ down'.capacity = down.capacity
        /\ down'.buf = <<>> /\ (down'.pc = "drop" => n > down.capacity)
    BY <1>8
  <1>10. UserTypeOK'
    <2>1. down' \in [pc : {"idle", "length", "body", "drop"}, capacity : Nat, buf : Seq(Byte)]
      BY <1>8, UserTypes
    <2>. QED  BY <2>1, <1>1, MemberStays DEF UserInv, UserTypeOK
  <1>11. BytesForAll'
    BY <1>2, <1>4, <1>7 DEF BytesForAll
  <1>12. PopsOneMember'
    <2>1. Len(down'.buf) + Taking' = Len(Head(sent))
      BY <1>2, <1>7, <1>8, <1>9
    <2>. QED  BY <2>1, <1>1, <1>2, <1>9 DEF PopsOneMember
  <1>13. Popped' = Popped
    <2>1. Popped' = Encoded(Len(Head(sent))) \o <<>>
      BY <1>1, <1>2, <1>9 DEF Popped
    <2>2. Encoded(Len(Head(sent))) \in Seq(Byte)
      BY <1>2, FramedBytes
    <2>3. Popped = down.buf
      BY <1>1 DEF Popped
    <2>. QED  BY <2>1, <2>2, <2>3, <1>2, ConcatEmptySeq
  <1>14. HoldsTheMembers'
    BY <1>1, <1>4, <1>6, <1>13, StreamStays DEF Stream
  <1>. QED  BY <1>1, <1>3, <1>6, <1>10, <1>11, <1>12, <1>14 DEF UserInv

LEMMA NoPopFacts == /\ NoPop.pc = "idle" /\ NoPop.buf = <<>> /\ NoPop.capacity = 0
                    /\ NoPop = [pc |-> "idle", capacity |-> 0, buf |-> <<>>]
  BY DEF NoPop

LEMMA MemberLeaves ==
  ASSUME IInv, UserInv, HandOut \/ DropMessage
  PROVE  IInv' /\ UserInv' /\ user' = user
  <1>1. /\ down.pc \in {"body", "drop"} /\ pop.pc = "idle"
        /\ down' = NoPop /\ sent' = Tail(sent) /\ UNCHANGED <<vars, user, up>>
    BY DEF HandOut, DropMessage
  <1>2. IInv'
    BY <1>1, MoveIInv
  <1>3. Unread' = Unread
    BY <1>1, <1>2, QuietMoves DEF QuietMove
  <1>4. UNCHANGED <<pbuf, head, tail, push, pop>>
    BY <1>1 DEF vars
  <1>5. RoomForAll' /\ PushesItsBytes' /\ Pending' = Pending
    BY <1>1, <1>4, ProducerStays, RingFacts
  <1>6. sent # <<>> /\ Holds(Unread \o Pending, Tail(sent))
    BY <1>1, MemberIsPopped
  <1>7. UserTypeOK'
    <2>1. down' \in [pc : {"idle", "length", "body", "drop"}, capacity : Nat, buf : Seq(Byte)]
      BY <1>1, EmptySeq DEF NoPop
    <2>2. sent' \in Seq(Member)
      BY <1>1, <1>6, UserTypes
    <2>. QED  BY <2>1, <2>2, <1>1, MemberStays DEF UserInv, UserTypeOK
  <1>8. BytesForAll'
    BY <1>3, <1>4 DEF UserInv, BytesForAll, Taking
  <1>9. PopsOneMember'
    BY <1>1, <1>4, NoPopFacts DEF PopsOneMember
  <1>10. Stream' = Unread \o Pending
    <2>1. Popped' = <<>>
      BY <1>1, NoPopFacts DEF Popped
    <2>. QED  BY <2>1, <1>3, <1>5, Places, ConcatEmptySeq DEF Stream
  <1>11. HoldsTheMembers'
    BY <1>1, <1>6, <1>10, HoldsNext
  <1>. QED  BY <1>1, <1>2, <1>5, <1>7, <1>8, <1>9, <1>11 DEF UserInv

LEMMA ResetKeeps ==
  ASSUME IInv, UserInv, ResetAll
  PROVE  IInv' /\ UserInv' /\ user' = user
  <1>1. /\ PushIsIdle /\ down.pc = "idle" /\ Reset
        /\ sent' = <<>> /\ UNCHANGED <<user, up, down>>
    BY DEF ResetAll, PopIsIdle
  <1>2. IInv'
    BY <1>1, MoveIInv DEF Move
  <1>3. Unread' = <<>> /\ <<>> \in Seq(Byte) /\ Len(<<>>) = 0
    BY <1>1, <1>2, ResetEmpties, EmptySeq
  <1>4. /\ head' = 0 /\ tail' = 0 /\ UNCHANGED <<pbuf, push, pop>> /\ push.pc = "idle"
        /\ pop.pc = "idle" /\ down.buf = <<>>
    BY <1>1 DEF Reset, UserInv, PopsOneMember
  <1>5. Pending' = <<>> /\ Later' = <<>> /\ push.left = 0
    <2>1. Later' = Later /\ Rest' = Rest
      BY <1>1, <1>4 DEF Later, Rest
    <2>. QED  BY <2>1, <1>1, NothingPending DEF Pending
  <1>6. UserTypeOK'
    <2>1. sent' \in Seq(Member')
      BY <1>1, EmptySeq
    <2>. QED  BY <2>1, <1>1 DEF UserInv, UserTypeOK
  <1>7. RoomForAll' /\ PushesItsBytes'
    <2>1. Ahead(tail', head') = 0
      BY <1>4 DEF Ahead
    <2>2. push'.left + Len(Later') + Ahead(tail', head') <= Size
      BY <2>1, <1>3, <1>4, <1>5, SizeAssumption
    <2>. QED  BY <2>2, <1>1, <1>4 DEF UserInv, RoomForAll, PushesItsBytes, Ahead
  <1>8. BytesForAll'
    <2>1. pop.left = 0 /\ Taking' = 0
      BY <1>4 DEF UserInv, BytesForAll, Taking
    <2>. QED  BY <2>1, <1>3, <1>4 DEF BytesForAll
  <1>9. PopsOneMember'
    BY <1>1, <1>4 DEF PopsOneMember
  <1>10. Stream' = <<>>
    <2>1. Popped' = <<>>
      BY <1>1, <1>4 DEF Popped
    <2>. QED  BY <2>1, <1>3, <1>5, ConcatEmptySeq DEF Stream
  <1>11. HoldsTheMembers'
    BY <1>1, <1>10, HoldsNone, HoldsNext
  <1>. QED  BY <1>1, <1>2, <1>6, <1>7, <1>8, <1>9, <1>11 DEF UserInv

-----------------------------------------------------------------------------
(* Every step keeps the invariant.                                         *)
LEMMA InitQInv == QueueInit => QInv
  <1>. SUFFICES ASSUME QueueInit PROVE QInv
    OBVIOUS
  <1>1. /\ Init /\ user \in Users /\ sent = <<>> /\ down = NoPop
        /\ up = [now |-> <<>>, later |-> <<>>]
    BY DEF QueueInit, NoPush
  <1>2. IInv
    BY <1>1, InitIInv
  <1>3. user \in {"bytes", "queue", "semaphore", "message"}
    BY <1>1, UsersAssumption
  <1>4. /\ head = 0 /\ tail = 0 /\ push.pc = "idle" /\ push.left = 0
        /\ pop.pc = "idle" /\ pop.left = 0
    BY <1>1 DEF Init, PushIdle, PopIdle
  <1>5. <<>> \in Seq(Byte) /\ Len(<<>>) = 0 /\ <<>> \in Seq(Seq(Byte)) /\ <<>> \in Seq(Member)
    BY EmptySeq
  <1>6. UserTypeOK
    <2>1. down \in [pc : {"idle", "length", "body", "drop"}, capacity : Nat, buf : Seq(Byte)]
      BY <1>1, <1>5 DEF NoPop
    <2>2. up \in [now : Seq(Byte), later : Seq(Seq(Byte))] /\ Len(up.later) <= 2
      BY <1>1, <1>5
    <2>. QED  BY <2>1, <2>2, <1>1, <1>5 DEF UserTypeOK
  <1>7. /\ up.now = <<>> /\ Later = <<>> /\ Ahead(tail, head) = 0 /\ Taking = 0
        /\ Rest = <<>> /\ Pending = <<>>
    <2>1. up.now = <<>> /\ up.later = <<>> /\ Ahead(tail, head) = 0 /\ Taking = 0
      BY <1>1, <1>4 DEF Ahead, Taking
    <2>2. Rest = <<>> /\ Later = <<>>
      BY <2>1, <1>4, <1>5, SubSeqEmpty DEF Rest, Later, Joined
    <2>. QED  BY <2>1, <2>2, <1>5, ConcatEmptySeq DEF Pending
  <1>8. RoomForAll /\ PushesItsBytes
    BY <1>4, <1>5, <1>7, SizeAssumption DEF RoomForAll, PushesItsBytes
  <1>9. Unread = <<>>
    <2>1. First = 0 /\ 0 \in Index
      BY <1>4, CellsPositive DEF First, Index
    <2>. QED  BY <2>1, <1>2, <1>4, UnreadIsAWindow, WindowOfNone
  <1>10. BytesForAll /\ PopsOneMember
    BY <1>1, <1>4, <1>5, <1>7, <1>9, NoPopFacts DEF BytesForAll, PopsOneMember
  <1>11. HoldsTheMembers
    <2>1. Popped = <<>>
      BY <1>1, NoPopFacts DEF Popped
    <2>2. Stream = <<>>
      BY <2>1, <1>5, <1>7, <1>9, ConcatEmptySeq DEF Stream
    <2>. QED  BY <2>2, <1>1, HoldsNone DEF HoldsTheMembers
  <1>. QED  BY <1>1, <1>2, <1>3, <1>6, <1>8, <1>10, <1>11 DEF QInv, UserInv

LEMMA PushKeepsUser ==
  ASSUME IInv, UserInv, NEW m \in Bodies, SimpleQueuePush(m) \/ SimpleMessagePush(m)
  PROVE  IInv' /\ UserInv' /\ user' = user
  <1>1. m \in Seq(Byte) /\ Len(m) \in Nat
    BY UsersAssumption, LenProperties
  <1>2. CASE SimpleQueuePush(m)
    <2>1. user = "queue" /\ Len(m) = MemberSize /\ Remaining >= MemberSize /\ PushParts(m, <<m>>)
      BY <1>2 DEF SimpleQueuePush
    <2>2. m \in Member
      BY <1>1, <2>1 DEF Member
    <2>3. Framed(m) = m
      BY <2>1 DEF Framed
    <2>4. <<m>> \in Seq(Seq(Byte)) /\ Len(<<m>>) = 1 /\ <<m>> # <<>> /\ <<m>>[1] = m
      BY <1>1
    <2>5. Joined(<<m>>) = Framed(m)
      BY <2>3, <2>4 DEF Joined
    <2>6. user' = user /\ Len(Framed(m)) <= Remaining
      BY <2>1, <2>3, <1>1, RingFacts, SizeAssumption DEF PushParts
    <2>7. PICK parts \in Seq(Seq(Byte)) : parts = <<m>>
      BY <2>4
    <2>8. /\ Len(parts) <= 2 /\ Joined(parts) = Framed(m) /\ PushParts(m, parts)
      BY <2>1, <2>4, <2>5, <2>7
    <2>. QED  BY <2>2, <2>6, <2>8, PushPartsKeeps
  <1>3. CASE SimpleMessagePush(m)
    <2>. DEFINE e == Encoded(Len(m))
    <2>1. /\ user = "message" /\ Fits(Len(m)) /\ Remaining >= Len(m) + LengthSize
          /\ PushParts(m, <<e, m>>)
      BY <1>3 DEF SimpleMessagePush
    <2>2. m \in Member
      BY <1>1, <2>1 DEF Member
    <2>3. e \in Seq(Byte) /\ Framed(m) = e \o m /\ Len(Framed(m)) = LengthSize + Len(m)
      BY <2>1, <2>2, FramedBytes
    <2>. HIDE DEF e
    <2>4. <<e, m>> \in Seq(Seq(Byte)) /\ Len(<<e, m>>) = 2
      BY <1>1, <2>3
    <2>5. Joined(<<e, m>>) = Framed(m)
      <3>1. <<e, m>> # <<>> /\ <<e, m>>[1] = e /\ <<e, m>>[2] = m
        OBVIOUS
      <3>. QED  BY <3>1, <2>3, <2>4 DEF Joined
    <2>6. user' = user /\ Len(Framed(m)) <= Remaining
      BY <2>1, <2>3, <1>1, RingFacts, SizeAssumption, UsersAssumption DEF PushParts
    <2>7. PICK parts \in Seq(Seq(Byte)) : parts = <<e, m>>
      BY <2>4
    <2>8. /\ Len(parts) <= 2 /\ Joined(parts) = Framed(m) /\ PushParts(m, parts)
      BY <2>1, <2>4, <2>5, <2>7
    <2>. QED  BY <2>2, <2>6, <2>8, PushPartsKeeps
  <1>. QED  BY <1>2, <1>3

LEMMA CountBytes == Count \in Seq(Byte) /\ Len(Count) = LengthSize
  <1>1. Count \in Words
    BY UsersAssumption DEF Count, Words
  <1>. QED  BY <1>1, WordBytes

LEMMA SemaphorePushKeeps ==
  ASSUME IInv, UserInv, SimpleSemaphorePush
  PROVE  IInv' /\ UserInv' /\ user' = user
  <1>1. user = "semaphore" /\ Remaining >= LengthSize /\ PushParts(Count, <<Count>>)
    BY DEF SimpleSemaphorePush
  <1>2. Count \in Member /\ Framed(Count) = Count
    BY <1>1, CountBytes DEF Member, Framed
  <1>3. /\ <<Count>> \in Seq(Seq(Byte)) /\ Len(<<Count>>) = 1
        /\ <<Count>> # <<>> /\ <<Count>>[1] = Count
    BY CountBytes
  <1>4. Joined(<<Count>>) = Framed(Count)
    BY <1>2, <1>3 DEF Joined
  <1>5. user' = user /\ Len(Framed(Count)) <= Remaining
    BY <1>1, <1>2, CountBytes, RingFacts, SizeAssumption, UsersAssumption DEF PushParts
  <1>6. PICK parts \in Seq(Seq(Byte)) : parts = <<Count>>
    BY <1>3
  <1>7. /\ Len(parts) <= 2 /\ Joined(parts) = Framed(Count) /\ PushParts(Count, parts)
    BY <1>1, <1>3, <1>4, <1>6
  <1>. QED  BY <1>2, <1>5, <1>7, PushPartsKeeps

LEMMA PopKeepsUser ==
  ASSUME IInv, UserInv,
         \/ SimpleQueuePop \/ SimpleSemaphorePop
         \/ \E c \in Capacities : SimpleMessagePop(c)
  PROVE  IInv' /\ UserInv' /\ user' = user
  <1>. USE UsersAssumption, SizeAssumption
  <1>1. Available \in Nat
    BY RingFacts
  <1>2. CASE SimpleQueuePop
    <2>1. /\ user = "queue" /\ MemberSize <= Available
          /\ PopPart(MemberSize, "body", MemberSize)
      BY <1>1, <1>2 DEF SimpleQueuePop
    <2>2. \A m \in Member : Len(m) = MemberSize
      BY <2>1 DEF Member
    <2>3. MemberSize \in Nat /\ MemberSize > 0 /\ user # "message"
      BY <2>1
    <2>. QED  BY <2>1, <2>2, <2>3, PopPartKeeps
  <1>3. CASE SimpleSemaphorePop
    <2>1. /\ user = "semaphore" /\ LengthSize <= Available
          /\ PopPart(LengthSize, "body", LengthSize)
      BY <1>1, <1>3 DEF SimpleSemaphorePop
    <2>2. \A m \in Member : Len(m) = LengthSize
      BY <2>1 DEF Member
    <2>3. LengthSize \in Nat /\ LengthSize > 0 /\ user # "message"
      BY <2>1
    <2>. QED  BY <2>1, <2>2, <2>3, PopPartKeeps
  <1>4. ASSUME NEW c \in Capacities, SimpleMessagePop(c) PROVE IInv' /\ UserInv' /\ user' = user
    <2>1. user = "message" /\ Available > LengthSize /\ PopPart(LengthSize, "length", c)
      BY <1>4 DEF SimpleMessagePop
    <2>2. LengthSize \in Nat /\ LengthSize > 0 /\ LengthSize <= Available /\ c \in Nat
      BY <2>1, <1>1
    <2>. QED  BY <2>1, <2>2, PopPartKeeps
  <1>. QED  BY <1>2, <1>3, <1>4

LEMMA UseQueueKeeps ==
  ASSUME IInv, UserInv, UseQueue
  PROVE  IInv' /\ UserInv' /\ user' = user
  <1>1. Producing => IInv' /\ UserInv' /\ user' = user
    BY PushKeepsUser, SemaphorePushKeeps, PushPartKeeps, PushByteKeeps, PushOnKeeps DEF Producing
  <1>2. Consuming => IInv' /\ UserInv' /\ user' = user
    BY PopKeepsUser, PopStepKeeps, PopByteKeeps, PopLengthKeeps, MemberLeaves DEF Consuming
  <1>. QED  BY <1>1, <1>2, ResetKeeps DEF UseQueue

\* The byte ring used by itself leaves the rest alone.
LEMMA UseBytesKeeps ==
  ASSUME QInv, UseBytes
  PROVE  QInv'
  <1>1. user = "bytes" /\ [Next]_vars /\ user' = user /\ down' = down
    BY DEF UseBytes, queueVars
  <1>. QED  BY <1>1, StepIInv DEF QInv

LEMMA NothingKeeps ==
  ASSUME QInv, UNCHANGED allVars
  PROVE  QInv'
  <1>1. UNCHANGED <<pbuf, head, tail, push, pop, taken, user, up, down, sent>> /\ UNCHANGED vars
    BY DEF allVars, vars, queueVars
  <1>2. IInv'
    BY <1>1, MoveIInv DEF QInv
  <1>3. ASSUME UserInv PROVE UserInv'
    <2>1. Unread' = Unread
      BY <1>1, <1>2, QuietMoves DEF QuietMove, QInv
    <2>2. Taking' = Taking /\ Later' = Later /\ Rest' = Rest /\ Popped' = Popped
      BY <1>1 DEF Taking, Later, Rest, Popped
    <2>3. Stream' = Stream
      BY <2>1, <2>2 DEF Stream, Pending
    <2>4. HoldsTheMembers'
      BY <2>3, <1>1, <1>3, StreamStays
    <2>5. UserTypeOK'
      BY <1>1, <1>3, MemberStays DEF UserInv, UserTypeOK
    <2>6. RoomForAll' /\ PushesItsBytes'
      BY <1>1, <1>3, <2>2 DEF UserInv, RoomForAll, PushesItsBytes, Ahead
    <2>7. BytesForAll' /\ PopsOneMember'
      BY <1>1, <1>3, <2>1, <2>2 DEF UserInv, BytesForAll, PopsOneMember
    <2>. QED  BY <2>4, <2>5, <2>6, <2>7 DEF UserInv
  <1>. QED  BY <1>1, <1>2, <1>3 DEF QInv

LEMMA StepQInv == QInv /\ [QueueNext]_allVars => QInv'
  <1>. SUFFICES ASSUME QInv, [QueueNext]_allVars PROVE QInv'
    OBVIOUS
  <1>1. CASE UseQueue
    <2>1. user # "bytes" /\ IInv /\ UserInv
      BY <1>1 DEF UseQueue, QInv
    <2>. QED  BY <1>1, <2>1, UseQueueKeeps DEF QInv
  <1>. QED  BY <1>1, UseBytesKeeps, NothingKeeps DEF QueueNext

(* With neither side inside a call, the ring of a queue, a semaphore or a  *)
(* message buffer holds exactly the members that were pushed and not       *)
(* handed out, whole and in order.                                         *)
THEOREM NoByteLeftBehind == QueueSpec => []NothingLeftBehind
  <1>1. QInv => NothingLeftBehind
    <2>. SUFFICES ASSUME QInv, user # "bytes", PushIsIdle, PopIsIdle PROVE Holds(Unread, sent)
      BY DEF NothingLeftBehind
    <2>1. IInv /\ UserInv /\ down.pc = "idle" /\ down.buf = <<>>
      BY DEF QInv, PopIsIdle, UserInv, PopsOneMember
    <2>2. Popped = <<>> /\ Unread \o Pending = Unread /\ Unread \in Seq(Byte)
      BY <2>1, NothingPending, Places DEF Popped
    <2>3. Stream = Unread
      BY <2>2, ConcatEmptySeq DEF Stream
    <2>. QED  BY <2>1, <2>3 DEF UserInv, HoldsTheMembers
  <1>. QED  BY <1>1, InitQInv, StepQInv, PTL DEF QueueSpec

(* A pop hands out the oldest member, whole and as it was pushed, and a    *)
(* message is dropped only when it is longer than the caller's capacity.   *)
THEOREM MembersLeaveWhole == QueueSpec => HandsOutWhole
  <1>1. ASSUME QInv PROVE /\ HandOut => sent # <<>> /\ down.buf = Head(sent)
                          /\ DropMessage => sent # <<>> /\ Len(Head(sent)) > down.capacity
    <2>1. ASSUME HandOut PROVE sent # <<>> /\ down.buf = Head(sent)
      <3>1. down.pc = "body" /\ pop.pc = "idle" /\ down # NoPop
        BY <2>1, NoPopFacts DEF HandOut
      <3>. QED  BY <3>1, <1>1, MemberIsPopped DEF QInv
    <2>2. ASSUME DropMessage PROVE sent # <<>> /\ Len(Head(sent)) > down.capacity
      <3>1. down.pc = "drop" /\ down # NoPop
        BY <2>2, NoPopFacts DEF DropMessage
      <3>. QED  BY <3>1, <1>1 DEF QInv, UserInv, PopsOneMember
    <2>. QED  BY <2>1, <2>2
  <1>2. QInv /\ [QueueNext]_allVars =>
          [/\ HandOut => sent # <<>> /\ down.buf = Head(sent)
           /\ DropMessage => sent # <<>> /\ Len(Head(sent)) > down.capacity]_allVars
    BY <1>1
  <1>. QED  BY <1>2, InitQInv, StepQInv, PTL DEF QueueSpec, HandsOutWhole

(* Used through a queue, a semaphore or a message buffer, the ring is      *)
(* still never overrun and never underrun.                                 *)
THEOREM UsersKeepTheRing == QueueSpec => []HeadNeverReachesTail /\ []TakesOnlyWhatIsThere
  <1>1. QInv => HeadNeverReachesTail /\ TakesOnlyWhatIsThere
    BY RoomAhead DEF QInv, IInv
  <1>. QED  BY <1>1, InitQInv, StepQInv, PTL DEF QueueSpec

\* What the users do to the ring are pushes and pops of it.
LEMMA UserStepIsAMove ==
  ASSUME QInv, QueueNext
  PROVE  [Move]_vars
  <1>1. CASE UseBytes
    BY <1>1, NextIsAMove DEF UseBytes
  <1>2. CASE UseQueue
    <2>1. IInv /\ UserInv
      BY <1>2 DEF UseQueue, QInv
    <2>2. CASE \/ \E m \in Bodies : SimpleQueuePush(m) \/ SimpleMessagePush(m)
               \/ SimpleSemaphorePush \/ HandOut \/ DropMessage
      BY <2>2 DEF SimpleQueuePush, SimpleMessagePush, SimpleSemaphorePush, PushParts,
                  HandOut, DropMessage
    <2>3. CASE PushPart
      <3>1. Len(Head(up.later)) \in Nat /\ PushCall(Len(Head(up.later)))
        BY <2>1, <2>3, UserTypes, JoinedParts, LenProperties DEF PushPart
      <3>. QED  BY <3>1 DEF Move, PushMove
    <2>4. CASE PushByte
      <3>1. up.now[Len(up.now) - push.left + 1] \in Byte
        BY <2>1, <2>4, ByteToPush DEF PushByte, PushStore
      <3>. QED  BY <2>4, <3>1 DEF PushByte, Move, PushMove
    <2>5. CASE PushOn \/ PopStep \/ PopByte
      BY <2>5 DEF PushOn, PopStep, PopByte, Move, PushMove, PopMove
    <2>6. CASE \/ SimpleQueuePop \/ SimpleSemaphorePop
               \/ \E c \in Capacities : SimpleMessagePop(c)
      <3>1. MemberSize \in Nat /\ LengthSize \in Nat
        BY UsersAssumption, SizeAssumption
      <3>2. PopCall(MemberSize) \/ PopCall(LengthSize)
        BY <2>6 DEF SimpleQueuePop, SimpleSemaphorePop, SimpleMessagePop, PopPart
      <3>. QED  BY <3>1, <3>2 DEF Move, PopMove
    <2>7. CASE PopLength
      <3>1. Decoded(down.buf) \in Nat
        BY <2>1, <2>7, LengthIsPopped DEF PopLength
      <3>. QED  BY <2>7, <3>1 DEF PopLength, Move, PopMove
    <2>8. CASE ResetAll
      BY <2>8 DEF ResetAll, Move
    <2>. QED  BY <1>2, <2>2, <2>3, <2>4, <2>5, <2>6, <2>7, <2>8
              DEF UseQueue, Producing, Consuming
  <1>. QED  BY <1>1, <1>2 DEF QueueNext

(* And it implements the queue of FifoSpec: whatever the calls are made    *)
(* for, a byte leaves once, in order and unchanged.                        *)
THEOREM UsersRingIsAQueue == QueueSpec => ImplementsFifo
  <1>1. QueueInit => Abstract!Init
    BY InitImplements DEF QueueInit
  <1>2. QInv /\ QInv' /\ [QueueNext]_allVars => [Abstract!Next]_<<Unread, taken>>
    <2>. SUFFICES ASSUME QInv, QInv', [QueueNext]_allVars PROVE [Abstract!Next]_<<Unread, taken>>
      OBVIOUS
    <2>1. [Move]_vars
      BY UserStepIsAMove DEF allVars, vars
    <2>. QED  BY <2>1, MoveImplements DEF QInv
  <1>. QED  BY <1>1, <1>2, InitQInv, StepQInv, PTL DEF QueueSpec, ImplementsFifo, Abstract!Spec
=============================================================================
