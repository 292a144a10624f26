------------------------ MODULE TransportLevel_proofs ------------------------
(***************************************************************************)
(* The list of blocked packets of the three transport levels, for every    *)
(* limit and any number of tasks that offer packets at the same time.      *)
(***************************************************************************)
EXTENDS TransportLevel, Integers, SequenceTheorems, FiniteSetTheorems, TLAPS

-----------------------------------------------------------------------------
(* Induction over the numbers, from the well-foundedness of <.             *)
LEMMA NatSetInduction ==
  ASSUME NEW S \in SUBSET Nat, 0 \in S, \A n \in S : n + 1 \in S
  PROVE  S = Nat
  <1>. DEFINE Less == OpToRel(<, Nat)
              T == Nat \ S
  <1>. SUFFICES ASSUME T # {} PROVE FALSE
    OBVIOUS
  <1>1. IsWellFoundedOn(Less, Nat)
    BY NatLessThanWellFounded
  <1>2. \A y, x \in Nat : y < x => <<y, x>> \in Less
    BY DEF OpToRel
  <1>. HIDE DEF Less
  <1>3. PICK x \in T : \A y \in T : <<y, x>> \notin Less
    BY <1>1, WFMin
  <1>4. x \in Nat /\ x # 0
    OBVIOUS
  <1>5. x - 1 \in Nat /\ x - 1 < x
    BY <1>4
  <1>6. x - 1 \notin T
    BY <1>2, <1>3, <1>4, <1>5
  <1>7. x - 1 \in S
    BY <1>5, <1>6
  <1>8. (x - 1) + 1 \in S
    BY <1>7
  <1>. QED  BY <1>4, <1>8

-----------------------------------------------------------------------------
(* A sequence of packets left when some of q's first n are taken out: its  *)
(* packets are q's, in the order they have there.                          *)
PartUpTo(r, q, n) ==
  /\ r \in Seq(Packets) /\ Len(r) <= n
  /\ \A i \in 1 .. Len(r) : \E k \in 1 .. n : r[i] = q[k]
  /\ \A i, j \in 1 .. Len(r) :
       i < j => \E k, l \in 1 .. n : k < l /\ r[i] = q[k] /\ r[j] = q[l]
Part(r, q) == PartUpTo(r, q, Len(q))

\* One turn of the loop of _del_repeat.
Kept(rest, n, kind) == IF n.kind = kind THEN rest ELSE Append(rest, n)

LEMMA KeptIsAPart ==
  ASSUME NEW q \in Seq(Packets), NEW n \in Nat, n + 1 <= Len(q), NEW r, PartUpTo(r, q, n), NEW kind
  PROVE  PartUpTo(Kept(r, q[n + 1], kind), q, n + 1)
  <1>. DEFINE x == q[n + 1]
              u == Append(r, x)
  <1>1. x \in Packets /\ r \in Seq(Packets) /\ Len(r) \in Nat /\ Len(r) <= n
    BY ElementOfSeq, LenProperties DEF PartUpTo
  <1>2. PartUpTo(r, q, n + 1)
    <2>1. 1 .. n \subseteq 1 .. n + 1 /\ Len(r) <= n + 1
      BY <1>1
    <2>. QED  BY <1>1, <2>1 DEF PartUpTo
  <1>3. /\ u \in Seq(Packets) /\ Len(u) = Len(r) + 1
        /\ \A i \in 1 .. Len(r) : u[i] = r[i]
        /\ u[Len(r) + 1] = x
    BY <1>1, AppendProperties
  <1>. HIDE DEF u
  <1>4. \A i \in 1 .. Len(r) : \E k \in 1 .. n : u[i] = q[k]
    BY <1>3 DEF PartUpTo
  <1>5. \A i \in 1 .. Len(u) : \E k \in 1 .. n + 1 : u[i] = q[k]
    <2>. SUFFICES ASSUME NEW i \in 1 .. Len(u) PROVE \E k \in 1 .. n + 1 : u[i] = q[k]
      OBVIOUS
    <2>1. CASE i = Len(r) + 1
      BY <2>1, <1>1, <1>3
    <2>2. CASE i \in 1 .. Len(r)
      BY <2>2, <1>1, <1>4
    <2>. QED  BY <2>1, <2>2, <1>1, <1>3
  <1>6. ASSUME NEW i \in 1 .. Len(u), NEW j \in 1 .. Len(u), i < j
        PROVE  \E k, l \in 1 .. n + 1 : k < l /\ u[i] = q[k] /\ u[j] = q[l]
    <2>1. CASE j = Len(r) + 1
      <3>1. i \in 1 .. Len(r)
        BY <1>1, <1>6, <2>1
      <3>2. PICK k \in 1 .. n : u[i] = q[k]
        BY <1>4, <3>1
      <3>3. k \in 1 .. n + 1 /\ n + 1 \in 1 .. n + 1 /\ k < n + 1
        BY <3>2
      <3>. QED  BY <1>3, <2>1, <3>2, <3>3
    <2>2. CASE j \in 1 .. Len(r)
      <3>1. i \in 1 .. Len(r) /\ u[i] = r[i] /\ u[j] = r[j]
        BY <1>1, <1>3, <1>6, <2>2
      <3>2. PICK k \in 1 .. n, l \in 1 .. n : k < l /\ r[i] = q[k] /\ r[j] = q[l]
        BY <1>6, <2>2, <3>1 DEF PartUpTo
      <3>3. k \in 1 .. n + 1 /\ l \in 1 .. n + 1
        BY <3>2
      <3>. QED  BY <3>1, <3>2, <3>3
    <2>. QED  BY <2>1, <2>2, <1>1, <1>3
  <1>7. PartUpTo(u, q, n + 1)
    BY <1>1, <1>3, <1>5, <1>6 DEF PartUpTo
  <1>. QED  BY <1>2, <1>7 DEF Kept, u

\* The function the loop computes exists, by induction, and yields a part.
IsLoop(g, q, kind, n) ==
  g = [i \in 0 .. n |-> IF i = 0 THEN <<>> ELSE Kept(g[i - 1], q[i], kind)]

LEMMA LoopExists ==
  ASSUME NEW q, NEW kind
  PROVE  \A n \in Nat : \E g : IsLoop(g, q, kind, n)
  <1>. DEFINE S == {n \in Nat : \E g : IsLoop(g, q, kind, n)}
  <1>1. 0 \in S
    <2>. DEFINE g == [i \in 0 .. 0 |-> <<>>]
    <2>1. IsLoop(g, q, kind, 0)
      BY DEF IsLoop
    <2>. QED  BY <2>1
  <1>2. ASSUME NEW n \in S PROVE n + 1 \in S
    <2>1. PICK g : IsLoop(g, q, kind, n)
      OBVIOUS
    <2>. DEFINE h == [i \in 0 .. n + 1 |-> IF i = n + 1 THEN Kept(g[n], q[n + 1], kind) ELSE g[i]]
    <2>2. \A i \in 0 .. n : h[i] = g[i] /\ g[i] = IF i = 0 THEN <<>> ELSE Kept(g[i - 1], q[i], kind)
      BY <2>1 DEF IsLoop
    <2>3. \A i \in 0 .. n + 1 : h[i] = IF i = 0 THEN <<>> ELSE Kept(h[i - 1], q[i], kind)
      <3>. SUFFICES ASSUME NEW i \in 0 .. n + 1
                    PROVE  h[i] = IF i = 0 THEN <<>> ELSE Kept(h[i - 1], q[i], kind)
        OBVIOUS
      <3>1. CASE i = n + 1
        <4>1. h[i] = Kept(g[n], q[n + 1], kind) /\ i # 0 /\ i - 1 = n /\ n \in 0 .. n
          BY <3>1
        <4>. QED  BY <4>1, <2>2, <3>1
      <3>2. CASE i \in 0 .. n
        <4>1. i # 0 => i - 1 \in 0 .. n
          BY <3>2
        <4>. QED  BY <4>1, <2>2, <3>2
      <3>. QED  BY <3>1, <3>2
    <2>4. IsLoop(h, q, kind, n + 1)
      BY <2>3 DEF IsLoop
    <2>. QED  BY <2>4
  <1>3. S = Nat
    BY <1>1, <1>2, NatSetInduction
  <1>. QED  BY <1>3

LEMMA SupersededIsAPart ==
  ASSUME NEW q \in Seq(Packets), NEW packet
  PROVE  Part(Superseded(q, packet), q)
  <1>. DEFINE kind == packet.kind
              g == CHOOSE f : IsLoop(f, q, kind, Len(q))
              S == {n \in Nat : n <= Len(q) => PartUpTo(g[n], q, n)}
  <1>1. Len(q) \in Nat
    BY LenProperties
  <1>2. IsLoop(g, q, kind, Len(q))
    BY <1>1, LoopExists
  <1>3. Superseded(q, packet) = g[Len(q)]
    BY DEF Superseded, IsLoop, Kept
  <1>. HIDE DEF g, kind
  <1>4. 0 \in S
    BY <1>1, <1>2, EmptySeq DEF IsLoop, PartUpTo
  <1>5. ASSUME NEW n \in S PROVE n + 1 \in S
    <2>. SUFFICES ASSUME n + 1 <= Len(q) PROVE PartUpTo(g[n + 1], q, n + 1)
      OBVIOUS
    <2>1. PartUpTo(g[n], q, n)
      BY <1>1
    <2>2. n + 1 \in 0 .. Len(q) /\ n + 1 # 0 /\ (n + 1) - 1 = n
      BY <1>1
    <2>3. g[n + 1] = Kept(g[n], q[n + 1], kind)
      BY <1>2, <2>2 DEF IsLoop
    <2>. QED  BY <2>1, <2>3, KeptIsAPart
  <1>6. S = Nat
    BY <1>4, <1>5, NatSetInduction
  <1>. QED  BY <1>1, <1>3, <1>6 DEF Part

LEMMA TailIsAPart ==
  ASSUME NEW q \in Seq(Packets), q # <<>>
  PROVE  Part(Tail(q), q) /\ Len(Tail(q)) = Len(q) - 1
  <1>1. /\ Tail(q) \in Seq(Packets) /\ Len(Tail(q)) = Len(q) - 1 /\ Len(q) \in Nat
        /\ \A i \in 1 .. Len(Tail(q)) : Tail(q)[i] = q[i + 1]
    BY HeadTailProperties, LenProperties
  <1>2. \A i \in 1 .. Len(Tail(q)) : i + 1 \in 1 .. Len(q)
    BY <1>1
  <1>. QED  BY <1>1, <1>2 DEF Part, PartUpTo

LEMMA NothingIsAPart ==
  ASSUME NEW q \in Seq(Packets)
  PROVE  Part(<<>>, q)
  BY EmptySeq, LenProperties DEF Part, PartUpTo

LEMMA RemoveAtIsAPart ==
  ASSUME NEW q \in Seq(Packets), NEW n \in 1 .. Len(q)
  PROVE  /\ Part(RemoveAt(q, n), q) /\ Len(RemoveAt(q, n)) = Len(q) - 1
         /\ \A i \in 1 .. Len(RemoveAt(q, n)) :
              RemoveAt(q, n)[i] = IF i < n THEN q[i] ELSE q[i + 1]
  <1>. DEFINE a == SubSeq(q, 1, n - 1)
              b == SubSeq(q, n + 1, Len(q))
              r == a \o b
  <1>1. Len(q) \in Nat /\ n \in Nat /\ \A i \in 1 .. Len(q) : q[i] \in Packets
    BY LenProperties, ElementOfSeq
  <1>2. /\ a \in Seq(Packets) /\ Len(a) = n - 1
        /\ \A i \in 1 .. n - 1 : a[i] = q[i]
    <2>1. \A i \in 1 .. n - 1 : q[i] \in Packets
      BY <1>1
    <2>2. /\ a \in Seq(Packets) /\ Len(a) = IF 1 <= n - 1 THEN (n - 1) - 1 + 1 ELSE 0
          /\ \A i \in 1 .. (n - 1) - 1 + 1 : a[i] = q[1 + i - 1]
      BY <1>1, <2>1, SubSeqProperties
    <2>. QED  BY <1>1, <2>2
  <1>3. /\ b \in Seq(Packets) /\ Len(b) = Len(q) - n
        /\ \A i \in 1 .. Len(q) - n : b[i] = q[n + i]
    <2>1. \A i \in n + 1 .. Len(q) : q[i] \in Packets
      BY <1>1
    <2>2. /\ b \in Seq(Packets) /\ Len(b) = IF n + 1 <= Len(q) THEN Len(q) - (n + 1) + 1 ELSE 0
          /\ \A i \in 1 .. Len(q) - (n + 1) + 1 : b[i] = q[n + 1 + i - 1]
      BY <1>1, <2>1, SubSeqProperties
    <2>. QED  BY <1>1, <2>2
  <1>. HIDE DEF a, b
  <1>4. /\ r \in Seq(Packets) /\ Len(r) = Len(q) - 1
        /\ \A i \in 1 .. Len(r) : r[i] = IF i <= n - 1 THEN a[i] ELSE b[i - (n - 1)]
    <2>1. /\ r \in Seq(Packets) /\ Len(r) = Len(a) + Len(b)
          /\ \A i \in 1 .. Len(a) + Len(b) : r[i] = IF i <= Len(a) THEN a[i] ELSE b[i - Len(a)]
      BY <1>2, <1>3, ConcatProperties
    <2>. HIDE DEF r
    <2>2. Len(a) = n - 1 /\ Len(a) + Len(b) = Len(q) - 1
      BY <1>1, <1>2, <1>3
    <2>. QED  BY <2>1, <2>2
  <1>. HIDE DEF r
  <1>5. \A i \in 1 .. Len(r) : r[i] = IF i < n THEN q[i] ELSE q[i + 1]
    <2>. SUFFICES ASSUME NEW i \in 1 .. Len(q) - 1
                  PROVE  r[i] = IF i < n THEN q[i] ELSE q[i + 1]
      BY <1>4
    <2>1. CASE i < n
      BY <1>1, <1>2, <1>4, <2>1
    <2>2. CASE i >= n
      <3>1. i - (n - 1) \in 1 .. Len(q) - n /\ n + (i - (n - 1)) = i + 1
        BY <1>1, <2>2
      <3>. QED  BY <1>1, <1>3, <1>4, <2>2, <3>1
    <2>3. i < n \/ i >= n
      BY <1>1
    <2>. QED  BY <2>1, <2>2, <2>3
  <1>6. \A i \in 1 .. Len(r) : \E k \in 1 .. Len(q) : k = (IF i < n THEN i ELSE i + 1) /\ r[i] = q[k]
    BY <1>1, <1>4, <1>5
  <1>7. Part(r, q)
    <2>1. ASSUME NEW i \in 1 .. Len(r), NEW j \in 1 .. Len(r), i < j
          PROVE  \E k, l \in 1 .. Len(q) : k < l /\ r[i] = q[k] /\ r[j] = q[l]
      <3>1. PICK k \in 1 .. Len(q) : k = (IF i < n THEN i ELSE i + 1) /\ r[i] = q[k]
        BY <1>6
      <3>2. PICK l \in 1 .. Len(q) : l = (IF j < n THEN j ELSE j + 1) /\ r[j] = q[l]
        BY <1>6
      <3>3. k < l
        BY <1>1, <1>4, <2>1, <3>1, <3>2
      <3>. QED  BY <3>1, <3>2, <3>3
    <2>. QED  BY <1>1, <1>4, <1>6, <2>1 DEF Part, PartUpTo
  <1>8. RemoveAt(q, n) = r
    BY DEF RemoveAt, r, a, b
  <1>. QED  BY <1>4, <1>5, <1>7, <1>8

-----------------------------------------------------------------------------
(* The inductive invariant.  Tasks that passed the test, or found the list *)
(* empty, and have not added yet each need a place beyond the limit.       *)
Pending == {p \in Producers : task[p].pc \in {"reset", "admitted", "allocated", "single"}}

Counted == /\ count <= Len(list)
           /\ ~stale => count = Len(list)
RoomForPending ==
  ~stale => Len(list) + Cardinality(Pending) <= Limit + Cardinality(Producers) - 1

\* A task carries the packet it offered last; what was offered before is
\* in the list, ahead of it, or gone.
Carries == \A p \in Producers : task[p].pc # "idle" =>
  /\ task[p].packet \in Packets /\ task[p].packet.from = p /\ task[p].packet.nr = (IF task[p].packet.high THEN 0 ELSE offers[p])
  /\ task[p].packet.high => level = "mia"
Newest(p) == IF task[p].pc = "idle" \/ task[p].packet.high THEN offers[p] ELSE offers[p] - 1

AddedIn(q) == \A i \in 1 .. Len(q) : q[i].nr <= Newest(q[i].from)
OrderedIn(q) == \A i, j \in 1 .. Len(q) :
  i < j /\ q[i].from = q[j].from /\ ~q[i].high /\ ~q[j].high => q[i].nr < q[j].nr
NotYetPassed(q) == \A i \in 1 .. Len(q) :
  ~q[i].high /\ q[i] # picked => last[q[i].from] < q[i].nr

InOrder == /\ AddedIn(list) /\ OrderedIn(list) /\ NotYetPassed(list)
           /\ \A p \in Producers : last[p] <= Newest(p)
PickedBlocked == picked # NoPacket =>
  /\ level = "mia" /\ \E i \in 1 .. Len(list) : list[i] = picked
  /\ ~picked.high => last[picked.from] = picked.nr

IInv == TypeOK /\ Counted /\ RoomForPending /\ Carries /\ InOrder /\ PickedBlocked

\* An ordinary packet is numbered from 1, so none is NoPacket.
LEMMA PacketFields ==
  ASSUME NEW n \in Packets
  PROVE  /\ n.from \in Producers /\ n.nr \in 0 .. MaxOffers /\ n.nr \in Nat
         /\ n.high \in BOOLEAN /\ n # NoPacket
  BY TransportAssumption DEF Packets, NoPacket

LEMMA ListFacts ==
  ASSUME TypeOK
  PROVE  /\ list \in Seq(Packets) /\ Len(list) \in Nat /\ DOMAIN list = 1 .. Len(list)
         /\ \A i \in 1 .. Len(list) : list[i] \in Packets
         /\ list # <<>> => Len(list) > 0 /\ Head(list) = list[1] /\ Head(list) \in Packets
         /\ list = <<>> => Len(list) = 0
  BY LenProperties, ElementOfSeq, EmptySeq, HeadTailProperties DEF TypeOK

LEMMA PartStaysInOrder ==
  ASSUME NEW r, NEW q \in Seq(Packets), Part(r, q)
  PROVE  /\ r \in Seq(Packets) /\ Len(r) \in Nat /\ Len(r) <= Len(q)
         /\ OrderedIn(q) => OrderedIn(r)
         /\ AddedIn(q) => AddedIn(r)
         /\ NotYetPassed(q) => NotYetPassed(r)
  <1>1. /\ r \in Seq(Packets) /\ Len(r) \in Nat /\ Len(r) <= Len(q)
        /\ \A i \in 1 .. Len(r) : \E k \in 1 .. Len(q) : r[i] = q[k]
        /\ \A i, j \in 1 .. Len(r) :
             i < j => \E k, l \in 1 .. Len(q) : k < l /\ r[i] = q[k] /\ r[j] = q[l]
    BY LenProperties DEF Part, PartUpTo
  <1>2. ASSUME OrderedIn(q) PROVE OrderedIn(r)
    <2>. SUFFICES ASSUME NEW i \in 1 .. Len(r), NEW j \in 1 .. Len(r), i < j, r[i].from = r[j].from
                  PROVE  ~r[i].high /\ ~r[j].high => r[i].nr < r[j].nr
      BY DEF OrderedIn
    <2>1. PICK k \in 1 .. Len(q), l \in 1 .. Len(q) : k < l /\ r[i] = q[k] /\ r[j] = q[l]
      BY <1>1
    <2>. QED  BY <1>2, <2>1 DEF OrderedIn
  <1>3. ASSUME AddedIn(q) PROVE AddedIn(r)
    BY <1>1, <1>3 DEF AddedIn
  <1>4. ASSUME NotYetPassed(q) PROVE NotYetPassed(r)
    BY <1>1, <1>4 DEF NotYetPassed
  <1>. QED  BY <1>1, <1>2, <1>3, <1>4

\* Where list_add_tail and list_add put a packet.
With(r, q, x) ==
  /\ r \in Seq(Packets) /\ Len(r) = Len(q) + 1
  /\ \A i \in 1 .. Len(r) : r[i] = x \/ \E k \in 1 .. Len(q) : r[i] = q[k]
  /\ \A k \in 1 .. Len(q) : \E i \in 1 .. Len(r) : r[i] = q[k]
  /\ \A i, j \in 1 .. Len(r) : i < j =>
       \/ \E k, l \in 1 .. Len(q) : k < l /\ r[i] = q[k] /\ r[j] = q[l]
       \/ ~x.high /\ r[j] = x /\ \E k \in 1 .. Len(q) : r[i] = q[k]
       \/ x.high /\ r[i] = x /\ \E k \in 1 .. Len(q) : r[j] = q[k]

LEMMA InsertedPlaces ==
  ASSUME NEW q \in Seq(Packets), NEW x \in Packets, NEW r, r = Inserted(q, x)
  PROVE  With(r, q, x)
  <1>1. Len(q) \in Nat /\ x.high \in BOOLEAN
    BY LenProperties, PacketFields
  <1>2. CASE x.high
    <2>1. /\ <<x>> \in Seq(Packets) /\ Len(<<x>>) = 1 /\ <<x>>[1] = x /\ r = <<x>> \o q
      BY <1>2 DEF Inserted
    <2>2. /\ r \in Seq(Packets) /\ Len(r) = 1 + Len(q)
          /\ \A i \in 1 .. 1 + Len(q) : r[i] = IF i <= 1 THEN <<x>>[i] ELSE q[i - 1]
      BY <2>1, ConcatProperties
    <2>3. r[1] = x /\ \A i \in 2 .. Len(r) : i - 1 \in 1 .. Len(q) /\ r[i] = q[i - 1]
      BY <1>1, <2>1, <2>2
    <2>4. \A i \in 1 .. Len(r) : i = 1 \/ i \in 2 .. Len(r)
      BY <1>1, <2>2
    <2>5. \A k \in 1 .. Len(q) : k + 1 \in 1 .. Len(r) /\ r[k + 1] = q[k]
      BY <1>1, <2>2, <2>3
    <2>6. ASSUME NEW i \in 1 .. Len(r), NEW j \in 1 .. Len(r), i < j
          PROVE  \/ \E k, l \in 1 .. Len(q) : k < l /\ r[i] = q[k] /\ r[j] = q[l]
                 \/ r[i] = x /\ \E k \in 1 .. Len(q) : r[j] = q[k]
      <3>1. j \in 2 .. Len(r) /\ j - 1 \in 1 .. Len(q) /\ r[j] = q[j - 1]
        BY <1>1, <2>2, <2>3, <2>6
      <3>2. CASE i = 1
        BY <2>3, <3>1, <3>2
      <3>3. CASE i \in 2 .. Len(r)
        <4>1. i - 1 \in 1 .. Len(q) /\ r[i] = q[i - 1] /\ i - 1 < j - 1
          BY <1>1, <2>2, <2>3, <2>6, <3>1, <3>3
        <4>. QED  BY <3>1, <4>1
      <3>. QED  BY <2>4, <3>2, <3>3
    <2>7. Len(r) = Len(q) + 1
      BY <1>1, <2>2
    <2>8. \A i \in 1 .. Len(r) : r[i] = x \/ \E k \in 1 .. Len(q) : r[i] = q[k]
      BY <2>3, <2>4
    <2>. QED  BY <1>2, <2>2, <2>5, <2>6, <2>7, <2>8 DEF With
  <1>3. CASE ~x.high
    <2>1. r = Append(q, x)
      BY <1>3 DEF Inserted
    <2>2. /\ r \in Seq(Packets) /\ Len(r) = Len(q) + 1
          /\ \A i \in 1 .. Len(q) : r[i] = q[i]
          /\ r[Len(q) + 1] = x
      BY <2>1, AppendProperties
    <2>3. \A i \in 1 .. Len(r) : i = Len(q) + 1 \/ i \in 1 .. Len(q)
      BY <1>1, <2>2
    <2>4. \A k \in 1 .. Len(q) : k \in 1 .. Len(r)
      BY <1>1, <2>2
    <2>5. ASSUME NEW i \in 1 .. Len(r), NEW j \in 1 .. Len(r), i < j
          PROVE  \/ \E k, l \in 1 .. Len(q) : k < l /\ r[i] = q[k] /\ r[j] = q[l]
                 \/ r[j] = x /\ \E k \in 1 .. Len(q) : r[i] = q[k]
      <3>1. i \in 1 .. Len(q)
        BY <1>1, <2>2, <2>5
      <3>. QED  BY <2>2, <2>3, <2>5, <3>1
    <2>. QED  BY <1>3, <2>2, <2>3, <2>4, <2>5 DEF With
  <1>. QED  BY <1>1, <1>2, <1>3

LEMMA WholeIsAPart ==
  ASSUME NEW q \in Seq(Packets)
  PROVE  Part(q, q)
  BY LenProperties DEF Part, PartUpTo

LEMMA NewestType == TypeOK => \A p \in Producers : Newest(p) \in Int /\ offers[p] \in Nat
  BY TransportAssumption DEF TypeOK, Newest

-----------------------------------------------------------------------------
(* The order of the packets: one lemma per way the list changes.           *)

\* Packets are only taken out, and nothing is passed on.
LEMMA FewerStayInOrder ==
  ASSUME IInv, Part(list', list), last' = last, picked' = picked,
         \A p \in Producers : Newest(p)' \in Int /\ Newest(p) <= Newest(p)'
  PROVE  InOrder'
  <1>1. list \in Seq(Packets) /\ \A p \in Producers : Newest(p) \in Int /\ last[p] \in Nat
    BY NewestType, TransportAssumption DEF IInv, TypeOK
  <1>2. /\ list' \in Seq(Packets) /\ Len(list') \in Nat
        /\ OrderedIn(list') /\ AddedIn(list') /\ NotYetPassed(list')
    BY <1>1, PartStaysInOrder DEF IInv, InOrder
  <1>3. \A i \in 1 .. Len(list') : list'[i].from \in Producers /\ list'[i].nr \in Nat
    BY <1>2, ElementOfSeq, PacketFields
  <1>4. AddedIn(list)'
    BY <1>1, <1>2, <1>3 DEF AddedIn
  <1>5. OrderedIn(list)' /\ NotYetPassed(list)'
    BY <1>2 DEF OrderedIn, NotYetPassed
  <1>6. \A p \in Producers : last'[p] <= Newest(p)'
    BY <1>1 DEF IInv, InOrder
  <1>. QED  BY <1>4, <1>5, <1>6 DEF InOrder

\* The first packet is passed on and may stay until it is removed.
LEMMA PassedStaysInOrder ==
  ASSUME IInv, list # <<>>, picked = NoPacket, last' = Passed(Head(list)),
         \/ list' = Tail(list) /\ picked' = picked
         \/ list' = list /\ picked' = Head(list),
         \A p \in Producers : Newest(p)' = Newest(p)
  PROVE  InOrder' /\ (~Head(list).high => last'[Head(list).from] = Head(list).nr)
         /\ \A p \in Producers : last'[p] >= last[p]
  <1>. DEFINE n == Head(list)
  <1>1. /\ list \in Seq(Packets) /\ Len(list) \in Nat /\ Len(list) > 0 /\ n = list[1]
        /\ n \in Packets /\ n.from \in Producers /\ n.nr \in Nat /\ n # picked
        /\ \A i \in 1 .. Len(list) : list[i].from \in Producers /\ list[i].nr \in Nat /\ list[i].high \in BOOLEAN
        /\ last \in [Producers -> Nat]
    BY ListFacts, PacketFields, TransportAssumption DEF IInv, TypeOK
  <1>2. /\ AddedIn(list) /\ OrderedIn(list) /\ NotYetPassed(list)
        /\ \A p \in Producers : last[p] <= Newest(p) /\ Newest(p) \in Int
    BY NewestType DEF IInv, InOrder
  <1>3. /\ ~n.high => last' = [last EXCEPT ![n.from] = n.nr] /\ last[n.from] < n.nr
        /\ n.high => last' = last
        /\ n.nr <= Newest(n.from)
    <2>1. 1 \in 1 .. Len(list)
      BY <1>1
    <2>2. ~n.high => last[n.from] < n.nr
      BY <1>1, <1>2, <2>1 DEF NotYetPassed
    <2>3. n.nr <= Newest(n.from)
      BY <1>1, <1>2, <2>1 DEF AddedIn
    <2>. QED  BY <2>2, <2>3 DEF Passed
  <1>. HIDE DEF n
  <1>4. /\ \A p \in Producers : last'[p] >= last[p] /\ last'[p] <= Newest(p)'
        /\ ~n.high => last'[n.from] = n.nr
    BY <1>1, <1>2, <1>3
  <1>5. \A i \in 2 .. Len(list) : ~list[i].high => last'[list[i].from] < list[i].nr \/ list[i] = picked
    <2>. SUFFICES ASSUME NEW i \in 2 .. Len(list), ~list[i].high, list[i] # picked
                  PROVE  last'[list[i].from] < list[i].nr
      OBVIOUS
    <2>1. i \in 1 .. Len(list) /\ 1 \in 1 .. Len(list) /\ 1 < i
      BY <1>1
    <2>2. last[list[i].from] < list[i].nr
      BY <1>2, <2>1 DEF NotYetPassed
    <2>3. ~n.high /\ n.from = list[i].from => n.nr < list[i].nr
      BY <1>1, <1>2, <2>1 DEF OrderedIn
    <2>. QED  BY <1>1, <1>3, <2>1, <2>2, <2>3
  <1>6. CASE list' = list /\ picked' = n
    <2>1. AddedIn(list)' /\ OrderedIn(list)'
      BY <1>2, <1>1, <1>6 DEF AddedIn, OrderedIn
    <2>2. NotYetPassed(list)'
      <3>. SUFFICES ASSUME NEW i \in 1 .. Len(list), ~list[i].high, list[i] # n
                    PROVE  last'[list[i].from] < list[i].nr
        BY <1>6 DEF NotYetPassed
      <3>1. i \in 2 .. Len(list)
        BY <1>1
      <3>2. list[i] # picked
        BY <1>1, PacketFields, ElementOfSeq
      <3>. QED  BY <1>5, <3>1, <3>2
    <2>. QED  BY <1>4, <2>1, <2>2 DEF InOrder, n
  <1>7. CASE list' = Tail(list) /\ picked' = picked
    <2>1. /\ Part(list', list) /\ list' \in Seq(Packets) /\ Len(list') = Len(list) - 1
          /\ \A i \in 1 .. Len(list') : list'[i] = list[i + 1]
      BY <1>1, <1>7, TailIsAPart, HeadTailProperties
    <2>2. OrderedIn(list') /\ AddedIn(list')
      BY <1>1, <1>2, <2>1, PartStaysInOrder
    <2>3. \A i \in 1 .. Len(list') : list'[i].from \in Producers /\ i + 1 \in 2 .. Len(list)
                                   /\ i + 1 \in 1 .. Len(list)
      BY <1>1, <2>1
    <2>4. AddedIn(list)' /\ OrderedIn(list)'
      BY <2>2, <2>3 DEF AddedIn, OrderedIn
    <2>5. NotYetPassed(list)'
      BY <1>5, <1>7, <2>1, <2>3 DEF NotYetPassed
    <2>. QED  BY <1>4, <2>4, <2>5 DEF InOrder, n
  <1>. QED  BY <1>6, <1>7 DEF n

\* mia: the packet passed on leaves, and no other one is the same.
LEMMA RemovedStaysInOrder ==
  ASSUME IInv, PollRemove
  PROVE  InOrder' /\ Part(list', list) /\ Len(list') = Len(list) - 1
  <1>1. /\ list \in Seq(Packets) /\ Len(list) \in Nat /\ DOMAIN list = 1 .. Len(list)
        /\ \A i \in 1 .. Len(list) : list[i].from \in Producers /\ list[i].nr \in Nat
    BY ListFacts, PacketFields DEF IInv
  <1>2. PICK i \in 1 .. Len(list) : list[i] = picked /\ list' = RemoveAt(list, i)
    BY <1>1 DEF PollRemove
  <1>3. /\ Part(list', list) /\ Len(list') = Len(list) - 1
        /\ \A j \in 1 .. Len(list') : list'[j] = IF j < i THEN list[j] ELSE list[j + 1]
    BY <1>1, <1>2, RemoveAtIsAPart
  <1>4. /\ AddedIn(list) /\ OrderedIn(list) /\ NotYetPassed(list)
        /\ \A p \in Producers : last[p] <= Newest(p) 
    BY DEF IInv, InOrder
  <1>5. OrderedIn(list') /\ AddedIn(list')
    BY <1>1, <1>3, <1>4, PartStaysInOrder
  <1>6. /\ last' = last /\ \A p \in Producers : Newest(p)' = Newest(p)
    BY DEF PollRemove, Newest
  <1>7. \A j \in 1 .. Len(list') : ~list'[j].high => last[list'[j].from] < list'[j].nr
    <2>. SUFFICES ASSUME NEW j \in 1 .. Len(list'), ~list'[j].high
                  PROVE  last[list'[j].from] < list'[j].nr
      OBVIOUS
    <2>. DEFINE k == IF j < i THEN j ELSE j + 1
    <2>1. k \in 1 .. Len(list) /\ list'[j] = list[k] /\ (k < i \/ i < k)
      BY <1>1, <1>3
    <2>. HIDE DEF k
    <2>2. list[k] # picked
      BY <1>1, <1>2, <1>4, <2>1 DEF OrderedIn
    <2>. QED  BY <1>4, <2>1, <2>2 DEF NotYetPassed
  <1>8. \A j \in 1 .. Len(list') : list'[j].from \in Producers
    BY <1>1, <1>3, PartStaysInOrder, ElementOfSeq, PacketFields
  <1>9. AddedIn(list)' /\ OrderedIn(list)' /\ NotYetPassed(list)'
    BY <1>5, <1>6, <1>7, <1>8 DEF AddedIn, OrderedIn, NotYetPassed
  <1>. QED  BY <1>3, <1>4, <1>6, <1>9 DEF InOrder

\* A task adds the packet it carries, newer than all that is there of it.
LEMMA AddedStaysInOrder ==
  ASSUME IInv, NEW p \in Producers, Add(p)
  PROVE  InOrder' /\ PickedBlocked' /\ list' \in Seq(Packets) /\ Len(list') = Len(list) + 1
  <1>. DEFINE x == task[p].packet
  <1>1. /\ x \in Packets /\ x.from = p /\ x.nr = (IF x.high THEN 0 ELSE offers[p]) /\ x.nr \in Nat /\ x.high \in BOOLEAN
        /\ task[p].pc = "single"
    BY PacketFields DEF IInv, Carries, Add, At
  <1>2. /\ list \in Seq(Packets) /\ Len(list) \in Nat
        /\ \A i \in 1 .. Len(list) : list[i].from \in Producers /\ list[i].nr \in Nat
    BY ListFacts, PacketFields DEF IInv
  <1>3. /\ AddedIn(list) /\ OrderedIn(list) /\ NotYetPassed(list)
        /\ \A o \in Producers : last[o] <= Newest(o) /\ last[o] \in Nat /\ offers[o] \in Nat
    BY NewestType, TransportAssumption DEF IInv, InOrder, TypeOK
  <1>4. /\ Newest(p) = IF x.high THEN offers[p] ELSE offers[p] - 1
        /\ \A o \in Producers : Newest(o)' = IF o = p THEN offers[p] ELSE Newest(o)
    <2>1. /\ task \in [Producers -> [pc : PcsOf(level), packet : Packets \union {NoPacket}]]
          /\ task' = [task EXCEPT ![p] = Idle] /\ offers' = offers
      BY DEF Add, Goto, IInv, TypeOK
    <2>. QED  BY <1>1, <2>1 DEF Newest, Idle
  <1>5. list' = Inserted(list, x) /\ last' = last /\ picked' = picked /\ level' = level
    BY DEF Add
  <1>. HIDE DEF x
  <1>6. /\ list' \in Seq(Packets) /\ Len(list') = Len(list) + 1
        /\ \A i \in 1 .. Len(list') : list'[i] = x \/ \E k \in 1 .. Len(list) : list'[i] = list[k]
        /\ \A k \in 1 .. Len(list) : \E i \in 1 .. Len(list') : list'[i] = list[k]
        /\ \A i, j \in 1 .. Len(list') : i < j =>
             \/ \E k, l \in 1 .. Len(list) : k < l /\ list'[i] = list[k] /\ list'[j] = list[l]
             \/ ~x.high /\ list'[j] = x /\ \E k \in 1 .. Len(list) : list'[i] = list[k]
             \/ x.high /\ list'[i] = x /\ \E k \in 1 .. Len(list) : list'[j] = list[k]
    <2>1. With(list', list, x)
      BY <1>1, <1>2, <1>5, InsertedPlaces
    <2>. QED  BY <2>1 DEF With
  <1>7. \A k \in 1 .. Len(list) : list[k].from = p => x.high \/ list[k].nr < x.nr
    BY <1>1, <1>2, <1>3, <1>4 DEF AddedIn
  <1>8. AddedIn(list)'
    <2>. DEFINE Bound(o) == IF o = p THEN offers[p] ELSE Newest(o)
    <2>. SUFFICES ASSUME NEW i \in 1 .. Len(list') PROVE list'[i].nr <= Bound(list'[i].from)
      <3>1. \A i \in 1 .. Len(list') : list'[i].from \in Producers
        BY <1>6, ElementOfSeq, PacketFields
      <3>. QED  BY <1>4, <3>1 DEF AddedIn
    <2>1. CASE list'[i] = x
      <3>1. x.nr <= offers[p] /\ list'[i].from = p
        BY <1>1, <1>3, <2>1
      <3>. QED  BY <2>1, <3>1
    <2>2. ASSUME NEW k \in 1 .. Len(list), list'[i] = list[k] PROVE list'[i].nr <= Bound(list'[i].from)
      BY <1>1, <1>2, <1>3, <1>4, <1>7, <2>2 DEF AddedIn
    <2>. QED  BY <1>6, <2>1, <2>2
  <1>9. OrderedIn(list)'
    <2>. SUFFICES ASSUME NEW i \in 1 .. Len(list'), NEW j \in 1 .. Len(list'), i < j,
                         list'[i].from = list'[j].from
                  PROVE  ~list'[i].high /\ ~list'[j].high => list'[i].nr < list'[j].nr
      BY DEF OrderedIn
    <2>1. ASSUME NEW k \in 1 .. Len(list), NEW l \in 1 .. Len(list), k < l,
                 list'[i] = list[k], list'[j] = list[l]
          PROVE  ~list'[i].high /\ ~list'[j].high => list'[i].nr < list'[j].nr
      BY <1>3, <2>1 DEF OrderedIn
    <2>2. ASSUME ~x.high, list'[j] = x, NEW k \in 1 .. Len(list), list'[i] = list[k]
          PROVE  list'[i].nr < list'[j].nr
      BY <1>1, <1>2, <1>7, <2>2
    <2>3. ASSUME x.high, list'[i] = x, NEW k \in 1 .. Len(list), list'[j] = list[k]
          PROVE  list'[i].high
      BY <1>1, <1>2, <1>7, <2>3
    <2>. QED  BY <1>6, <2>1, <2>2, <2>3
  <1>10. NotYetPassed(list)'
    <2>1. x.high \/ last[p] < x.nr
      BY <1>1, <1>3, <1>4
    <2>2. \A k \in 1 .. Len(list) : ~list[k].high /\ list[k] # picked => last[list[k].from] < list[k].nr
      BY <1>3 DEF NotYetPassed
    <2>3. \A i \in 1 .. Len(list') : ~list'[i].high /\ list'[i] # picked => last[list'[i].from] < list'[i].nr
      <3>. SUFFICES ASSUME NEW i \in 1 .. Len(list'), ~list'[i].high, list'[i] # picked
                    PROVE  last[list'[i].from] < list'[i].nr
        OBVIOUS
      <3>1. CASE list'[i] = x
        <4>1. ~x.high /\ list'[i].from = p
          BY <1>1, <3>1
        <4>. QED  BY <2>1, <3>1, <4>1
      <3>2. ASSUME NEW k \in 1 .. Len(list), list'[i] = list[k]
            PROVE  last[list'[i].from] < list'[i].nr
        BY <2>2, <3>2
      <3>. QED  BY <1>6, <3>1, <3>2
    <2>. QED  BY <1>5, <2>3 DEF NotYetPassed
  <1>11. \A o \in Producers : last'[o] <= Newest(o)'
    BY <1>1, <1>3, <1>4, <1>5
  <1>12. PickedBlocked'
    BY <1>5, <1>6 DEF IInv, PickedBlocked
  <1>. QED  BY <1>6, <1>8, <1>9, <1>10, <1>11, <1>12 DEF InOrder

-----------------------------------------------------------------------------
(* How many tasks are pending, and what a call leaves in the task.         *)
LEMMA PendingBounds ==
  /\ Cardinality(Pending) \in Nat /\ Cardinality(Pending) <= Cardinality(Producers)
  /\ Cardinality(Producers) \in Nat /\ IsFiniteSet(Pending)
  <1>1. Pending \subseteq Producers
    BY DEF Pending
  <1>. QED  BY <1>1, FS_Subset, FS_CardinalityType, TransportAssumption

LEMMA LimitType == Limit \in Nat \ {0} /\ MaxBlocked \in Nat /\ (MaxBlocked > 0 => Limit = MaxBlocked)
  BY TransportAssumption DEF Limit

\* An empty list has room for every task.
LEMMA EmptyHasRoom == Cardinality(Pending) <= Limit + Cardinality(Producers) - 1
  BY PendingBounds, LimitType

LEMMA Goes ==
  ASSUME IInv, NEW p \in Producers, NEW pc \in PcsOf(level), Goto(p, pc),
         offers' = offers, level' = level, task[p].pc # "idle"
  PROVE  /\ task' \in [Producers -> [pc : PcsOf(level), packet : Packets \union {NoPacket}]]
         /\ task'[p].pc = pc /\ \A o \in Producers : o # p => task'[o] = task[o]
         /\ Carries'
         /\ \A o \in Producers : Newest(o)' \in Int /\ Newest(o) <= Newest(o)'
  <1>1. /\ task \in [Producers -> [pc : PcsOf(level), packet : Packets \union {NoPacket}]]
        /\ \A o \in Producers : offers[o] \in Nat
    BY NewestType DEF IInv, TypeOK
  <1>2. CASE pc = "idle"
    <2>1. task' = [task EXCEPT ![p] = Idle]
      BY <1>2 DEF Goto
    <2>2. /\ task' \in [Producers -> [pc : PcsOf(level), packet : Packets \union {NoPacket}]]
          /\ task'[p].pc = pc /\ \A o \in Producers : o # p => task'[o] = task[o]
      BY <1>1, <1>2, <2>1 DEF Idle
    <2>. QED  BY <1>1, <1>2, <2>2 DEF Carries, Newest, IInv
  <1>3. CASE pc # "idle"
    <2>1. task' = [task EXCEPT ![p] = [@ EXCEPT !.pc = pc]]
      BY <1>3 DEF Goto
    <2>2. /\ task' \in [Producers -> [pc : PcsOf(level), packet : Packets \union {NoPacket}]]
          /\ task'[p].pc = pc /\ \A o \in Producers : o # p => task'[o] = task[o]
          /\ task'[p].packet = task[p].packet
      BY <1>1, <2>1
    <2>. QED  BY <1>1, <1>3, <2>2 DEF Carries, Newest, IInv
  <1>. QED  BY <1>2, <1>3

\* A task that goes from pending to pending, or leaves, takes no more room.
LEMMA PendingStays ==
  ASSUME NEW p \in Producers, p \in Pending, \A o \in Producers : o # p => task'[o] = task[o]
  PROVE  Cardinality(Pending)' <= Cardinality(Pending) /\ Cardinality(Pending)' \in Nat
  <1>1. Pending' \subseteq Pending
    BY DEF Pending
  <1>2. IsFiniteSet(Pending) /\ Cardinality(Pending) \in Nat
    BY PendingBounds
  <1>. QED  BY <1>1, <1>2, FS_Subset, FS_CardinalityType

LEMMA PendingBecomes ==
  Cardinality(Pending)' \in Nat /\ Cardinality(Pending)' <= Cardinality(Producers)
  <1>1. Pending' \subseteq Producers
    BY DEF Pending
  <1>. QED  BY <1>1, FS_Subset, FS_CardinalityType, TransportAssumption

LEMMA SameTasks ==
  ASSUME IInv, UNCHANGED <<level, task, offers>>
  PROVE  /\ Carries' /\ Pending' = Pending
         /\ \A o \in Producers : Newest(o)' = Newest(o) /\ Newest(o) \in Int
  BY NewestType DEF IInv, Carries, Pending, Newest

-----------------------------------------------------------------------------
(* One lemma per action.                                                   *)
LEMMA OfferStep ==
  ASSUME IInv, NEW p \in Producers, NEW kind \in Kinds, NEW high \in BOOLEAN, Offer(p, kind, high)
  PROVE  IInv'
  <1>. DEFINE x == [from |-> p, nr |-> IF high THEN 0 ELSE offers[p] + 1, kind |-> kind, high |-> high]
              pc == IF AtLimit THEN "full" ELSE "admitted"
  <1>1. /\ task[p].pc = "idle" /\ (~high => offers[p] < MaxOffers) /\ (high => level = "mia")
        /\ offers' = IF high THEN offers ELSE [offers EXCEPT ![p] = @ + 1]
        /\ UNCHANGED <<level, list, count, mac, picked, last, stale>>
    BY DEF Offer, At
  <1>2. /\ task \in [Producers -> [pc : PcsOf(level), packet : Packets \union {NoPacket}]]
        /\ offers \in [Producers -> 0 .. MaxOffers] /\ level \in {"serial", "radio", "mia"}
        /\ MaxOffers \in Nat /\ MaxBlocked \in Nat
    BY TransportAssumption DEF IInv, TypeOK
  <1>3. /\ offers' \in [Producers -> 0 .. MaxOffers]
        /\ \A o \in Producers : offers'[o] = IF o = p /\ ~high THEN offers[p] + 1 ELSE offers[o]
        /\ x \in Packets
    BY <1>1, <1>2 DEF Packets
  <1>4. /\ task' \in [Producers -> [pc : PcsOf(level), packet : Packets \union {NoPacket}]]
        /\ \A o \in Producers : o # p => task'[o] = task[o]
        /\ IF AtLimit /\ level = "mia" THEN task'[p].pc = "idle"
           ELSE task'[p].pc = pc /\ task'[p].packet = x
    <2>1. CASE AtLimit /\ level = "mia"
      <3>1. task' = [task EXCEPT ![p] = Idle]
        BY <2>1 DEF Offer
      <3>. QED  BY <1>2, <2>1, <3>1 DEF Idle, PcsOf
    <2>2. CASE ~(AtLimit /\ level = "mia")
      <3>1. task' = [task EXCEPT ![p] = [pc |-> pc, packet |-> x]]
        BY <1>2, <1>3, <2>2 DEF Offer
      <3>2. pc \in PcsOf(level)
        BY <1>2, <2>2 DEF PcsOf
      <3>. QED  BY <1>2, <1>3, <2>2, <3>1, <3>2
    <2>. QED  BY <2>1, <2>2
  <1>. HIDE DEF x, pc
  <1>5. TypeOK'
    BY <1>1, <1>3, <1>4 DEF IInv, TypeOK
  <1>6. Carries'
    BY <1>1, <1>3, <1>4 DEF IInv, Carries, x
  <1>7. \A o \in Producers : Newest(o)' \in Int /\ Newest(o) <= Newest(o)'
    BY <1>1, <1>2, <1>3, <1>4 DEF Newest, pc, x
  <1>8. Part(list', list)
    BY <1>1, WholeIsAPart DEF IInv, TypeOK
  <1>9. InOrder'
    BY <1>1, <1>7, <1>8, FewerStayInOrder
  <1>10. RoomForPending'
    <2>. SUFFICES ASSUME ~stale
                  PROVE  Len(list) + Cardinality(Pending)' <= Limit + Cardinality(Producers) - 1
      BY <1>1 DEF RoomForPending, Limit
    <2>1. Len(list) = count /\ Len(list) \in Nat
      BY ListFacts DEF IInv, Counted
    <2>2. CASE AtLimit
      <3>1. Pending' = Pending
        BY <1>1, <1>4, <2>2 DEF Pending, pc
      <3>. QED  BY <3>1 DEF IInv, RoomForPending
    <2>3. CASE ~AtLimit
      <3>1. Len(list) < MaxBlocked /\ Limit = MaxBlocked
        BY <1>2, <2>1, <2>3, LimitType DEF AtLimit
      <3>. QED  BY <1>2, <2>1, <3>1, PendingBecomes, PendingBounds
    <2>. QED  BY <2>2, <2>3
  <1>. QED  BY <1>1, <1>5, <1>6, <1>9, <1>10 DEF IInv, Counted, PickedBlocked

LEMMA FullStep ==
  ASSUME IInv, NEW p \in Producers, Full(p)
  PROVE  IInv'
  <1>1. /\ task[p].pc = "full" /\ UNCHANGED <<level, list, count, offers, mac, picked, last, stale>>
        /\ Goto(p, IF list # <<>> THEN "idle" ELSE "reset")
        /\ (IF list # <<>> THEN "idle" ELSE "reset") \in PcsOf(level)
    BY DEF Full, At, IInv, TypeOK, PcsOf
  <1>2. /\ task' \in [Producers -> [pc : PcsOf(level), packet : Packets \union {NoPacket}]]
        /\ task'[p].pc = (IF list # <<>> THEN "idle" ELSE "reset")
        /\ \A o \in Producers : o # p => task'[o] = task[o]
        /\ Carries' /\ \A o \in Producers : Newest(o)' \in Int /\ Newest(o) <= Newest(o)'
    BY <1>1, Goes
  <1>3. TypeOK'
    BY <1>1, <1>2 DEF IInv, TypeOK
  <1>4. InOrder'
    BY <1>1, <1>2, WholeIsAPart, FewerStayInOrder DEF IInv, TypeOK
  <1>5. RoomForPending'
    <2>1. CASE list = <<>>
      <3>1. Len(list) = 0
        BY <2>1, ListFacts DEF IInv
      <3>. QED  BY <1>1, <3>1, PendingBecomes, LimitType, PendingBounds DEF RoomForPending, Limit
    <2>2. CASE list # <<>>
      <3>1. Pending' = Pending
        BY <1>1, <1>2, <2>2 DEF Pending
      <3>. QED  BY <1>1, <3>1 DEF IInv, RoomForPending, Limit
    <2>. QED  BY <2>1, <2>2
  <1>. QED  BY <1>1, <1>2, <1>3, <1>4, <1>5 DEF IInv, Counted, PickedBlocked

LEMMA ResetStep ==
  ASSUME IInv, NEW p \in Producers, Reset(p)
  PROVE  IInv'
  <1>1. /\ task[p].pc = "reset" /\ UNCHANGED <<level, list, offers, mac, picked, last>>
        /\ Goto(p, "admitted") /\ count' = 0 /\ stale' = (stale \/ list # <<>>)
        /\ "admitted" \in PcsOf(level)
    BY DEF Reset, At, PcsOf
  <1>2. /\ task' \in [Producers -> [pc : PcsOf(level), packet : Packets \union {NoPacket}]]
        /\ task'[p].pc = "admitted" /\ \A o \in Producers : o # p => task'[o] = task[o]
        /\ Carries' /\ \A o \in Producers : Newest(o)' \in Int /\ Newest(o) <= Newest(o)'
    BY <1>1, Goes
  <1>3. TypeOK'
    BY <1>1, <1>2 DEF IInv, TypeOK
  <1>4. InOrder'
    BY <1>1, <1>2, WholeIsAPart, FewerStayInOrder DEF IInv, TypeOK
  <1>5. Len(list) \in Nat /\ (list = <<>> => Len(list) = 0)
    BY ListFacts DEF IInv
  <1>6. Counted'
    <2>1. list' = list /\ count' = 0 /\ (~stale' => list = <<>>)
      BY <1>1 DEF IInv, TypeOK
    <2>. QED  BY <1>5, <2>1 DEF Counted
  <1>7. Pending' = Pending
    BY <1>1, <1>2 DEF Pending
  <1>8. RoomForPending'
    BY <1>1, <1>7 DEF IInv, RoomForPending, Limit
  <1>. QED  BY <1>1, <1>2, <1>3, <1>4, <1>6, <1>8 DEF IInv, PickedBlocked

LEMMA AllocStep ==
  ASSUME IInv, NEW p \in Producers, Alloc(p)
  PROVE  IInv'
  <1>1. /\ task[p].pc = "admitted" /\ UNCHANGED <<level, list, count, offers, mac, picked, last, stale>>
        /\ level \in {"serial", "radio", "mia"}
    BY TransportAssumption DEF Alloc, At, IInv, TypeOK
  <1>2. PICK pc \in {"idle", IF level = "radio" THEN "allocated" ELSE "single"} : Goto(p, pc)
    BY DEF Alloc
  <1>3. pc \in PcsOf(level)
    BY <1>1, <1>2 DEF PcsOf
  <1>4. /\ task' \in [Producers -> [pc : PcsOf(level), packet : Packets \union {NoPacket}]]
        /\ \A o \in Producers : o # p => task'[o] = task[o]
        /\ Carries' /\ \A o \in Producers : Newest(o)' \in Int /\ Newest(o) <= Newest(o)'
    BY <1>1, <1>2, <1>3, Goes
  <1>5. TypeOK'
    BY <1>1, <1>4 DEF IInv, TypeOK
  <1>6. InOrder'
    BY <1>1, <1>4, WholeIsAPart, FewerStayInOrder DEF IInv, TypeOK
  <1>7. p \in Pending
    BY <1>1 DEF Pending
  <1>8. RoomForPending'
    <2>1. Cardinality(Pending)' <= Cardinality(Pending) /\ Cardinality(Pending)' \in Nat
      BY <1>4, <1>7, PendingStays
    <2>2. Len(list) \in Nat
      BY ListFacts DEF IInv
    <2>. QED  BY <1>1, <2>1, <2>2, PendingBounds, LimitType DEF IInv, RoomForPending, Limit
  <1>. QED  BY <1>1, <1>4, <1>5, <1>6, <1>8 DEF IInv, Counted, PickedBlocked

\* What is taken out of the list is taken off the counter, as long as it counts.
LEMMA LessIsCounted ==
  ASSUME IInv, list' \in Seq(Packets), Len(list') <= Len(list), StillStale,
         count' = IF count > Len(list) - Len(list') THEN count - (Len(list) - Len(list')) ELSE 0,
         Cardinality(Pending)' <= Cardinality(Pending), Cardinality(Pending)' \in Nat
  PROVE  Counted' /\ RoomForPending' /\ count' \in Nat /\ stale' \in BOOLEAN
  <1>1. /\ Len(list) \in Nat /\ Len(list') \in Nat /\ count \in Nat /\ stale \in BOOLEAN
        /\ list' = <<>> => Len(list') = 0
    BY LenProperties, EmptySeq DEF IInv, TypeOK
  <1>2. /\ count <= Len(list) /\ (~stale => count = Len(list)) /\ stale' = (stale /\ list' # <<>>)
    BY DEF IInv, Counted, StillStale
  <1>3. Counted' /\ count' \in Nat /\ stale' \in BOOLEAN
    BY <1>1, <1>2 DEF Counted
  <1>4. RoomForPending'
    BY <1>1, <1>2, PendingBounds, PendingBecomes, LimitType DEF IInv, RoomForPending, Limit
  <1>. QED  BY <1>3, <1>4

LEMMA DelRepeatStep ==
  ASSUME IInv, NEW p \in Producers, DelRepeat(p)
  PROVE  IInv'
  <1>1. /\ task[p].pc = "allocated" /\ UNCHANGED <<level, offers, mac, picked, last>>
        /\ Goto(p, "single") /\ "single" \in PcsOf(level) /\ StillStale
        /\ list' = Superseded(list, task[p].packet)
    BY DEF DelRepeat, At, PcsOf
  <1>2. level = "radio"
    BY <1>1 DEF IInv, TypeOK, PcsOf
  <1>3. picked = NoPacket
    BY <1>2 DEF IInv, PickedBlocked
  <1>4. /\ task' \in [Producers -> [pc : PcsOf(level), packet : Packets \union {NoPacket}]]
        /\ task'[p].pc = "single" /\ \A o \in Producers : o # p => task'[o] = task[o]
        /\ Carries' /\ \A o \in Producers : Newest(o)' \in Int /\ Newest(o) <= Newest(o)'
    BY <1>1, Goes
  <1>5. Part(list', list) /\ list' \in Seq(Packets) /\ Len(list') <= Len(list)
    BY <1>1, SupersededIsAPart, PartStaysInOrder DEF IInv, TypeOK
  <1>6. InOrder'
    BY <1>1, <1>4, <1>5, FewerStayInOrder
  <1>7. p \in Pending
    BY <1>1 DEF Pending
  <1>8. Cardinality(Pending)' <= Cardinality(Pending) /\ Cardinality(Pending)' \in Nat
    BY <1>4, <1>7, PendingStays
  <1>9. Counted' /\ RoomForPending' /\ count' \in Nat /\ stale' \in BOOLEAN
    BY <1>1, <1>5, <1>8, LessIsCounted DEF DelRepeat
  <1>10. TypeOK'
    BY <1>1, <1>4, <1>5, <1>9 DEF IInv, TypeOK
  <1>. QED  BY <1>1, <1>3, <1>4, <1>6, <1>9, <1>10 DEF IInv, PickedBlocked

LEMMA AddStep ==
  ASSUME IInv, NEW p \in Producers, Add(p)
  PROVE  IInv'
  <1>1. /\ task[p].pc = "single" /\ UNCHANGED <<level, offers, mac, picked, last>>
        /\ Goto(p, "idle") /\ "idle" \in PcsOf(level) /\ StillStale /\ count' = count + 1
    BY DEF Add, At, PcsOf
  <1>2. /\ task' \in [Producers -> [pc : PcsOf(level), packet : Packets \union {NoPacket}]]
        /\ task'[p].pc = "idle" /\ \A o \in Producers : o # p => task'[o] = task[o]
        /\ Carries'
    BY <1>1, Goes
  <1>3. InOrder' /\ PickedBlocked' /\ list' \in Seq(Packets) /\ Len(list') = Len(list) + 1
    BY AddedStaysInOrder
  <1>4. Len(list) \in Nat /\ count \in Nat /\ list' # <<>>
    BY <1>3, ListFacts, EmptySeq DEF IInv, TypeOK
  <1>5. stale' = stale
    BY <1>1, <1>4 DEF StillStale, IInv, TypeOK
  <1>6. Counted' /\ count' \in Nat
    BY <1>1, <1>3, <1>4, <1>5 DEF IInv, Counted
  <1>7. Cardinality(Pending)' = Cardinality(Pending) - 1
    <2>1. Pending' = Pending \ {p} /\ p \in Pending
      BY <1>1, <1>2 DEF Pending
    <2>. QED  BY <2>1, FS_RemoveElement, PendingBounds
  <1>8. RoomForPending'
    BY <1>3, <1>4, <1>5, <1>7, PendingBounds, LimitType DEF IInv, RoomForPending, Limit
  <1>9. TypeOK'
    BY <1>1, <1>2, <1>3, <1>5, <1>6 DEF IInv, TypeOK
  <1>. QED  BY <1>2, <1>3, <1>6, <1>8, <1>9 DEF IInv

\* One packet less.
LEMMA DecrementedIsCounted ==
  ASSUME IInv, Len(list') = Len(list) - 1, count' = Decremented(count)
  PROVE  count' = IF count > Len(list) - Len(list') THEN count - (Len(list) - Len(list')) ELSE 0
  <1>1. Len(list) \in Nat /\ count \in Nat
    BY ListFacts DEF IInv, TypeOK
  <1>. QED  BY <1>1 DEF Decremented

LEMMA PollStep ==
  ASSUME IInv, Poll
  PROVE  IInv' /\ \A p \in Producers : last'[p] >= last[p]
  <1>1. /\ UNCHANGED <<level, task, offers, picked>> /\ list # <<>> /\ list' = Tail(list)
        /\ last' = Passed(Head(list)) /\ StillStale /\ count' = Decremented(count)
        /\ mac' \in BOOLEAN /\ level # "mia"
    BY DEF Poll, Cached
  <1>2. picked = NoPacket
    BY <1>1 DEF IInv, PickedBlocked
  <1>3. /\ Carries' /\ Pending' = Pending
        /\ \A o \in Producers : Newest(o)' = Newest(o)
    BY <1>1, SameTasks
  <1>4. InOrder' /\ \A p \in Producers : last'[p] >= last[p]
    BY <1>1, <1>2, <1>3, PassedStaysInOrder
  <1>5. list' \in Seq(Packets) /\ Len(list') = Len(list) - 1 /\ Len(list) \in Nat
    BY <1>1, HeadTailProperties, ListFacts DEF IInv, TypeOK
  <1>6. Counted' /\ RoomForPending' /\ count' \in Nat /\ stale' \in BOOLEAN
    BY <1>1, <1>3, <1>5, DecrementedIsCounted, LessIsCounted, PendingBounds
  <1>7. last' \in [Producers -> 0 .. MaxOffers]
    <2>1. Head(list) \in Packets
      BY <1>1, ListFacts DEF IInv
    <2>. QED  BY <1>1, <2>1, PacketFields, TransportAssumption DEF Passed, IInv, TypeOK
  <1>8. TypeOK'
    BY <1>1, <1>5, <1>6, <1>7 DEF IInv, TypeOK
  <1>. QED  BY <1>1, <1>2, <1>3, <1>4, <1>6, <1>8 DEF IInv, PickedBlocked

LEMMA PollPickStep ==
  ASSUME IInv, PollPick
  PROVE  IInv' /\ \A p \in Producers : last'[p] >= last[p]
  <1>1. /\ UNCHANGED <<level, list, count, task, offers, stale>> /\ list # <<>>
        /\ picked = NoPacket /\ picked' = Head(list)
        /\ last' = Passed(Head(list)) /\ mac' \in BOOLEAN /\ level = "mia"
    BY DEF PollPick, Cached
  <1>2. /\ Carries' /\ Pending' = Pending
        /\ \A o \in Producers : Newest(o)' = Newest(o)
    BY <1>1, SameTasks
  <1>3. /\ InOrder' /\ \A p \in Producers : last'[p] >= last[p]
        /\ ~Head(list).high => last'[Head(list).from] = Head(list).nr
    BY <1>1, <1>2, PassedStaysInOrder
  <1>4. Head(list) \in Packets /\ Head(list) = list[1] /\ 1 \in 1 .. Len(list)
    BY <1>1, ListFacts DEF IInv
  <1>5. last' \in [Producers -> 0 .. MaxOffers]
    BY <1>1, <1>4, PacketFields, TransportAssumption DEF Passed, IInv, TypeOK
  <1>6. TypeOK'
    BY <1>1, <1>4, <1>5 DEF IInv, TypeOK
  <1>7. PickedBlocked'
    BY <1>1, <1>3, <1>4 DEF PickedBlocked
  <1>. QED  BY <1>1, <1>2, <1>3, <1>6, <1>7 DEF IInv, Counted, RoomForPending, Limit

LEMMA PollRemoveStep ==
  ASSUME IInv, PollRemove
  PROVE  IInv'
  <1>1. /\ UNCHANGED <<level, task, offers, mac, last>> /\ picked' = NoPacket
        /\ StillStale /\ count' = Decremented(count)
    BY DEF PollRemove
  <1>2. InOrder' /\ Part(list', list) /\ Len(list') = Len(list) - 1
    BY RemovedStaysInOrder
  <1>3. Carries' /\ Pending' = Pending
    BY <1>1, SameTasks
  <1>4. list' \in Seq(Packets) /\ Len(list') <= Len(list)
    BY <1>2, PartStaysInOrder DEF IInv, TypeOK
  <1>5. Counted' /\ RoomForPending' /\ count' \in Nat /\ stale' \in BOOLEAN
    BY <1>1, <1>2, <1>3, <1>4, DecrementedIsCounted, LessIsCounted, PendingBounds
  <1>6. TypeOK'
    BY <1>1, <1>4, <1>5 DEF IInv, TypeOK
  <1>. QED  BY <1>1, <1>2, <1>3, <1>5, <1>6 DEF IInv, PickedBlocked

LEMMA DropStep ==
  ASSUME IInv, DropTransmitterCache
  PROVE  IInv'
  <1>1. /\ UNCHANGED <<level, task, offers, mac, picked, last>> /\ list' = <<>> /\ level # "mia"
        /\ StillStale /\ count' = IF count > Len(list) THEN count - Len(list) ELSE 0
    BY DEF DropTransmitterCache
  <1>2. picked = NoPacket
    BY <1>1 DEF IInv, PickedBlocked
  <1>3. /\ Carries' /\ Pending' = Pending
        /\ \A o \in Producers : Newest(o)' = Newest(o) /\ Newest(o) \in Int
    BY <1>1, SameTasks
  <1>4. Part(list', list) /\ list' \in Seq(Packets) /\ Len(list') = 0 /\ Len(list) \in Nat
    BY <1>1, NothingIsAPart, EmptySeq, ListFacts DEF IInv, TypeOK
  <1>5. InOrder'
    BY <1>1, <1>3, <1>4, FewerStayInOrder
  <1>6. Counted' /\ RoomForPending' /\ count' \in Nat /\ stale' \in BOOLEAN
    BY <1>1, <1>3, <1>4, LessIsCounted, PendingBounds
  <1>7. TypeOK'
    BY <1>1, <1>4, <1>6 DEF IInv, TypeOK
  <1>. QED  BY <1>1, <1>2, <1>3, <1>5, <1>6, <1>7 DEF IInv, PickedBlocked

\* Nothing of the list changes: the controller settles, or a stutter.
LEMMA QuietStep ==
  ASSUME IInv, UNCHANGED <<level, list, count, task, offers, picked, last, stale>>, mac' \in BOOLEAN
  PROVE  IInv'
  <1>1. /\ Carries' /\ Pending' = Pending
        /\ \A o \in Producers : Newest(o)' = Newest(o) /\ Newest(o) \in Int
    BY SameTasks
  <1>2. InOrder'
    BY <1>1, WholeIsAPart, FewerStayInOrder DEF IInv, TypeOK
  <1>3. TypeOK'
    BY DEF IInv, TypeOK
  <1>. QED  BY <1>1, <1>2, <1>3 DEF IInv, Counted, RoomForPending, PickedBlocked, Limit

LEMMA InitIInv == Init => IInv
  <1>. SUFFICES ASSUME Init PROVE IInv
    OBVIOUS
  <1>1. TypeOK
    <2>1. list \in Seq(Packets) /\ MaxOffers \in Nat
      BY EmptySeq, TransportAssumption DEF Init
    <2>2. task \in [Producers -> [pc : PcsOf(level), packet : Packets \union {NoPacket}]]
      BY DEF Init, Idle, PcsOf
    <2>3. offers \in [Producers -> 0 .. MaxOffers] /\ last \in [Producers -> 0 .. MaxOffers]
      BY <2>1 DEF Init
    <2>4. mac \in BOOLEAN /\ stale \in BOOLEAN
      BY DEF Init
    <2>5. level \in Levels /\ count \in Nat /\ picked \in Packets \union {NoPacket}
      BY DEF Init
    <2>. QED  BY <2>1, <2>2, <2>3, <2>4, <2>5 DEF TypeOK
  <1>2. Len(list) = 0 /\ list = <<>>
    BY EmptySeq DEF Init
  <1>3. Carries /\ \A p \in Producers : last[p] <= Newest(p)
    BY DEF Init, Idle, Carries, Newest
  <1>4. InOrder
    BY <1>2, <1>3 DEF InOrder, AddedIn, OrderedIn, NotYetPassed
  <1>5. Counted /\ RoomForPending
    BY <1>2, EmptyHasRoom, PendingBounds, LimitType DEF Init, Counted, RoomForPending
  <1>. QED  BY <1>1, <1>3, <1>4, <1>5 DEF IInv, PickedBlocked, Init

\* A step keeps the invariant, and passes nothing on out of order.
LEMMA StepIInv ==
  IInv /\ [Next]_vars => IInv' /\ (~UNCHANGED vars => \A p \in Producers : last'[p] >= last[p])
  <1>. SUFFICES ASSUME IInv, [Next]_vars
                PROVE  IInv' /\ (~UNCHANGED vars => \A p \in Producers : last'[p] >= last[p])
    OBVIOUS
  <1>1. \A p \in Producers : last[p] \in Nat
    BY TransportAssumption DEF IInv, TypeOK
  <1>2. ASSUME NEW p \in Producers, Caller(p) PROVE IInv' /\ last' = last
    BY <1>2, FullStep, ResetStep, AllocStep, DelRepeatStep, AddStep
    DEF Caller, Full, Reset, Alloc, DelRepeat, Add
  <1>3. ASSUME NEW p \in Producers, NEW kind \in Kinds, NEW high \in BOOLEAN, Offer(p, kind, high)
        PROVE  IInv' /\ last' = last
    BY <1>3, OfferStep DEF Offer
  <1>4. CASE MainLoop
    BY <1>1, <1>4, PollStep, PollPickStep, PollRemoveStep DEF MainLoop, PollRemove
  <1>5. CASE DropTransmitterCache
    BY <1>1, <1>5, DropStep DEF DropTransmitterCache
  <1>6. CASE MacSettles
    <2>1. UNCHANGED <<level, list, count, task, offers, picked, last, stale>> /\ mac' \in BOOLEAN
      BY <1>6 DEF MacSettles
    <2>2. IInv'
      BY <2>1, QuietStep
    <2>. QED  BY <1>1, <2>1, <2>2
  <1>7. CASE UNCHANGED vars
    BY <1>7, QuietStep DEF vars, IInv, TypeOK
  <1>. QED  BY <1>1, <1>2, <1>3, <1>4, <1>5, <1>6, <1>7 DEF Next

-----------------------------------------------------------------------------
(* No packet that is gone goes on counting, and the list keeps its limit,  *)
(* one packet per further task aside, unless a reset of the counter came   *)
(* late: for every limit, any number of tasks and any mix of the calls.    *)
THEOREM BlockedListSound == Spec => []ListSound
  <1>1. IInv => ListSound
    <2>. SUFFICES ASSUME IInv PROVE ListSound
      OBVIOUS
    <2>1. Len(list) \in Nat
      BY ListFacts DEF IInv
    <2>2. LimitKept
      BY <2>1, PendingBounds, LimitType DEF IInv, Counted, RoomForPending, LimitKept
    <2>. QED  BY <2>2 DEF IInv, Counted, ListSound, NoPhantom
  <1>. QED  BY <1>1, InitIInv, StepIInv, PTL DEF Spec

(* The packets of one task reach the controller in the order it offered    *)
(* them, however tasks, the main loop and the removal of repeats           *)
(* interleave.                                                             *)
THEOREM NoOvertaking == Spec => PassedInOrder
  <1>1. IInv /\ [Next]_vars => [\A p \in Producers : last'[p] >= last[p]]_vars
    BY StepIInv
  <1>2. IInv /\ [Next]_vars => IInv'
    BY StepIInv
  <1>. QED  BY <1>1, <1>2, InitIInv, PTL DEF Spec, PassedInOrder
=============================================================================
