------------------------------ MODULE PingPong ------------------------------
(***************************************************************************)
(* common/pingpong_buffer/pingpong_buffer.c: the bookkeeping of two        *)
(* buffers, 0 and 1, one being filled while the other is read.  Each       *)
(* operator is a function of the handler; the modules that own a handler   *)
(* apply them in their actions.                                            *)
(***************************************************************************)
EXTENDS Naturals

Buffers == {0, 1}
Handlers == [write : Buffers, read : Buffers, avail : [Buffers -> BOOLEAN]]

\* pingpong_buffer_init
NewHandler == [write |-> 0, read |-> 0, avail |-> [b \in Buffers |-> FALSE]]

\* pingpong_buffer_get_read_buf: its result, and the handler afterwards.
SomethingToRead(pp) == \E b \in Buffers : pp.avail[b]
GetReadBuf(pp) ==
  IF SomethingToRead(pp)
  THEN [pp EXCEPT !.read = IF pp.avail[0] THEN 0 ELSE 1]
  ELSE pp

SetReadDoneBug(pp) == pp
SetReadDone(pp) == [pp EXCEPT !.avail[pp.read] = FALSE]

GetWriteBufBug(pp) == pp
GetWriteBuf(pp) ==
  IF pp.write = pp.read THEN [pp EXCEPT !.write = 1 - pp.read] ELSE pp

SetWriteDone(pp) == [pp EXCEPT !.avail[pp.write] = TRUE, !.write = 1 - @]
=============================================================================
