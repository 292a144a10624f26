---------------------------- MODULE LinkedLists ----------------------------
(***************************************************************************)
(* inc/lists.h: circular lists of nodes with a pointer each way, through a *)
(* head.  Every function is here; a function is one step, since the lists  *)
(* are used under the locks of their owners.  Callers hand a node that is  *)
(* in no list to add, and one that is in a list to del, move and replace.  *)
(***************************************************************************)
EXTENDS Naturals, FiniteSets, SequencesExt

CONSTANTS Heads, Nodes, Nil

ListsAssumption == /\ Heads \cap Nodes = {} /\ Nil \notin Heads \cup Nodes

VARIABLES
  next, prev, \* the pointers of every head and node
  owner       \* history: the head of the list a node is in, itself when it is in none

listVars == <<next, prev, owner>>
Cells == Heads \cup Nodes
Listed == {n \in Nodes : owner[n] # n}
Off == {n \in Nodes : owner[n] = n}

LlInit == /\ next = [c \in Cells |-> IF c \in Heads THEN c ELSE Nil]
          /\ prev = [c \in Cells |-> IF c \in Heads THEN c ELSE Nil]
          /\ owner = [c \in Cells |-> c]

-----------------------------------------------------------------------------
\* The pointers after __list_add and __list_del, and those of a cell on its own.
\* p and q are the cells to be the neighbours of n.
\* Mutant: q does not learn of n.
OneWayAdded(l, n, p, q) == [next |-> [l.next EXCEPT ![n] = q, ![p] = n],
                            prev |-> [l.prev EXCEPT ![n] = p]]
Added(l, n, p, q) == [next |-> [l.next EXCEPT ![n] = q, ![p] = n],
                      prev |-> [l.prev EXCEPT ![n] = p, ![q] = n]]
Deleted(l, p, q) == [next |-> [l.next EXCEPT ![p] = q], prev |-> [l.prev EXCEPT ![q] = p]]
Alone(l, n, at) == [next |-> [l.next EXCEPT ![n] = at], prev |-> [l.prev EXCEPT ![n] = at]]
Here == [next |-> next, prev |-> prev]
Becomes(l) == next' = l.next /\ prev' = l.prev

ListAdd(n, h) == /\ n \in Off
                 /\ Becomes(Added(Here, n, h, next[h]))
                 /\ owner' = [owner EXCEPT ![n] = h]
ListAddTail(n, h) == /\ n \in Off
                     /\ Becomes(Added(Here, n, prev[h], h))
                     /\ owner' = [owner EXCEPT ![n] = h]

\* list_del leaves null pointers, list_del_init a list of one.
ListDel(n) == /\ n \in Listed
              /\ \E at \in {Nil, n} : Becomes(Alone(Deleted(Here, prev[n], next[n]), n, at))
              /\ owner' = [owner EXCEPT ![n] = n]

\* list_move and list_move_tail
ListMove(n, h) ==
  LET l == Deleted(Here, prev[n], next[n])
  IN  /\ n \in Listed
      /\ Becomes(Added(l, n, h, l.next[h])) \/ Becomes(Added(l, n, l.prev[h], h))
      /\ owner' = [owner EXCEPT ![n] = h]
ListRotateLeft(h) ==
  LET n == next[h]
      l == Deleted(Here, h, next[n])
  IN  /\ next[h] # h
      /\ Becomes(Added(l, n, l.prev[h], h))
      /\ UNCHANGED owner

\* list_replace_init; list_replace leaves old pointing into the list, as if it were there.
ListReplaceInit(old, new) ==
  /\ old \in Listed /\ new \in Off
  /\ Becomes(Alone([next |-> [next EXCEPT ![new] = next[old], ![prev[old]] = new],
                    prev |-> [prev EXCEPT ![new] = prev[old], ![next[old]] = new]], old, old))
  /\ owner' = [owner EXCEPT ![new] = owner[old], ![old] = old]

\* list_splice_init and its tail; without init list itself is left dangling.
ListSpliceInit(list, p, q) ==
  /\ next[list] # list
  /\ Becomes(Alone([next |-> [next EXCEPT ![p] = next[list], ![prev[list]] = q],
                    prev |-> [prev EXCEPT ![next[list]] = p, ![q] = prev[list]]], list, list))
  /\ owner' = [c \in Cells |-> IF owner[c] = list /\ c # list THEN owner[p] ELSE owner[c]]

\* The nodes of a list up to entry.
UpTo(entry, h, nodes) ==
  /\ next[h] \in nodes /\ entry \in nodes /\ next[entry] \notin nodes
  /\ \A n \in nodes : /\ owner[n] = h /\ n # h
                      /\ n # entry => next[n] \in nodes
                      /\ prev[n] = h \/ prev[n] \in nodes

\* list_cut_position, onto a list that is empty.
ListCutPosition(list, h, entry, nodes) ==
  /\ list # h /\ next[list] = list
  /\ entry \in Listed /\ owner[entry] = h /\ UpTo(entry, h, nodes)
  /\ LET rest == next[entry]
     IN  Becomes([next |-> [next EXCEPT ![list] = next[h], ![entry] = list, ![h] = rest],
                  prev |-> [prev EXCEPT ![next[h]] = list, ![list] = entry, ![rest] = h]])
  /\ owner' = [c \in Cells |-> IF c \in nodes THEN list ELSE owner[c]]

LlNext ==
  \/ \E n \in Nodes : \/ ListDel(n)
                      \/ \E h \in Heads : ListAdd(n, h) \/ ListAddTail(n, h) \/ ListMove(n, h)
                      \/ \E m \in Nodes : ListReplaceInit(n, m)
  \/ \E h \in Heads : ListRotateLeft(h)
  \/ \E g, h \in Heads :
       \/ g # h /\ (ListSpliceInit(g, h, next[h]) \/ ListSpliceInit(g, prev[h], h))
       \/ \E n \in Nodes : \E nodes \in SUBSET Nodes : ListCutPosition(g, h, n, nodes)

LlSpec == LlInit /\ [][LlNext]_listVars

-----------------------------------------------------------------------------
ListsTypeOK == /\ next \in [Cells -> Cells \cup {Nil}]
               /\ prev \in [Cells -> Cells \cup {Nil}]
               /\ owner \in [Cells -> Cells]

(* The two pointers of every cell that is in a list are inverse to each    *)
(* other, and lead to cells of the same list: no function ties two lists   *)
(* together or leaves a neighbour pointing at a node that is gone.         *)
InList(c) == c \in Heads \/ owner[c] # c
Linked ==
  /\ \A h \in Heads : owner[h] = h
  /\ \A c \in Cells : InList(c) =>
       /\ owner[c] \in Heads
       /\ next[c] \in Cells /\ InList(next[c]) /\ owner[next[c]] = owner[c] /\ prev[next[c]] = c
       /\ prev[c] \in Cells /\ InList(prev[c]) /\ owner[prev[c]] = owner[c] /\ next[prev[c]] = c

(* The pointers are the sequences ListSpec speaks of.                      *)
Reached(h) == LET at[i \in 0 .. Cardinality(Nodes) + 1] == IF i = 0 THEN h ELSE next[at[i - 1]] IN at
Sequence(h) == [i \in 1 .. Cardinality({n \in Nodes : owner[n] = h}) |-> Reached(h)[i]]
Sequences == [h \in Heads |-> Sequence(h)]
Abstract == INSTANCE ListSpec WITH lists <- Sequences
ImplementsStep == [Abstract!LsNext]_Sequences
ImplementsLists == Abstract!LsSpec
=============================================================================
