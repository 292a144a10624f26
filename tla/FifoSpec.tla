------------------------------ MODULE FifoSpec ------------------------------
(***************************************************************************)
(* What common/simple_fifo promises, seen from outside: a bounded queue of *)
(* items.  An item leaves in the order it entered, once, unchanged.  last  *)
(* is the item handed out most recently.                                   *)
(***************************************************************************)
EXTENDS Naturals, Sequences

CONSTANTS Item,      \* what is queued
          Capacity   \* how many items the queue holds

VARIABLES q,         \* the items waiting, oldest first
          last       \* the item taken most recently

Init == /\ q = <<>>
        /\ last \in Item

Put(x) == /\ Len(q) < Capacity
          /\ q' = Append(q, x)
          /\ UNCHANGED last

Get == /\ q # <<>>
       /\ last' = Head(q)
       /\ q' = Tail(q)

Reset == /\ q' = <<>>
         /\ UNCHANGED last

Next == (\E x \in Item : Put(x)) \/ Get \/ Reset

Spec == Init /\ [][Next]_<<q, last>>
=============================================================================
