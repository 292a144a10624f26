------------------------------ MODULE ListSpec ------------------------------
(***************************************************************************)
(* What inc/lists.h promises: heads with a sequence of nodes each, no node *)
(* in two places.  LinkedLists implements it with pointers.                *)
(***************************************************************************)
EXTENDS SequencesExt

CONSTANTS Heads, Nodes

VARIABLE lists   \* [Heads -> sequences of nodes]

On(h) == ToSet(lists[h])
Free == Nodes \ UNION {On(h) : h \in Heads}

LsInit == lists = [h \in Heads |-> <<>>]

AtEitherEnd(rest, h, seq) ==
  \E into \in {seq \o rest[h], rest[h] \o seq} : lists' = [g \in Heads |-> IF g = h THEN into ELSE rest[g]]
Place(n, h) == CHOOSE i \in DOMAIN lists[h] : lists[h][i] = n
Without(n, h) == [lists EXCEPT ![h] = RemoveAt(@, Place(n, h))]

Insert(n, h) == n \in Free /\ AtEitherEnd(lists, h, <<n>>)
Take(n, h) == n \in On(h) /\ lists' = Without(n, h)

\* A node goes from one list to the front or the end of one, maybe the same.
Transfer(n, g, h) == n \in On(g) /\ AtEitherEnd(Without(n, g), h, <<n>>)
Swap(old, new, h) ==
  /\ old \in On(h) /\ new \in Free
  /\ lists' = [lists EXCEPT ![h] = [i \in DOMAIN @ |-> IF @[i] = old THEN new ELSE @[i]]]

\* All of one list goes to the front or the end of another.
Join(g, h) ==
  /\ g # h
  /\ AtEitherEnd([lists EXCEPT ![g] = <<>>], h, lists[g])

\* The first k nodes of a list go to an empty one.
Cut(g, h, k) ==
  /\ g # h /\ lists[g] = <<>>
  /\ lists' = [lists EXCEPT ![g] = SubSeq(lists[h], 1, k), ![h] = SubSeq(@, k + 1, Len(@))]

LsNext == \E h \in Heads :
            \/ \E n \in Nodes : Insert(n, h) \/ Take(n, h)
            \/ \E n \in Nodes, g \in Heads : Transfer(n, g, h)
            \/ \E o, n \in Nodes : Swap(o, n, h)
            \/ \E g \in Heads : Join(g, h) \/ \E k \in 0 .. Len(lists[h]) : Cut(g, h, k)

LsSpec == LsInit /\ [][LsNext]_lists
=============================================================================
