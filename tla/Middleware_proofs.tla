-------------------------- MODULE Middleware_proofs --------------------------
(***************************************************************************)
(* What is proved of the parameter store, of the radio MAC and of the soft *)
(* timers, next to each other: a part's invariant is one of the            *)
(* composition, for the other parts leave its variables alone.  The store  *)
(* comes first: the parameter block in flash, for every number of slots,   *)
(* every size of an erase block and any sequence of saves, losses of power *)
(* and faults.                                                             *)
(***************************************************************************)
EXTENDS Middleware, TLAPS, FiniteSetTheorems, SequenceTheorems, WellFoundedInduction

-----------------------------------------------------------------------------
(* Numbers.                                                                *)

\* A set of numbers that is not empty has a least one.
LEMMA LeastNumber ==
  ASSUME NEW S \in SUBSET Nat, S # {}
  PROVE  \E n \in S : \A m \in S : n <= m
  <1>. DEFINE Less == OpToRel(<, Nat)
  <1>1. IsWellFoundedOn(Less, Nat)
    BY NatLessThanWellFounded
  <1>2. \A y, x \in Nat : y < x => <<y, x>> \in Less
    BY DEF OpToRel
  <1>. HIDE DEF Less
  <1>3. PICK x \in S : \A y \in S : <<y, x>> \notin Less
    BY <1>1, WFMin
  <1>4. ASSUME NEW m \in S PROVE x <= m
    <2>1. ~ (m < x)
      BY <1>2, <1>3
    <2>. QED  BY <2>1
  <1>. QED  BY <1>4

\* A slot and its place in its erase block.
LEMMA Division ==
  ASSUME NEW p \in Nat \ {0}, NEW s \in Nat
  PROVE  /\ s \div p \in Nat /\ s % p \in 0 .. p - 1
         /\ s = p * (s \div p) + (s % p)
  OBVIOUS

LEMMA Quotient ==
  ASSUME NEW p \in Nat \ {0}, NEW q \in Nat, NEW r \in 0 .. p - 1, NEW s \in Nat, s = p * q + r
  PROVE  s \div p = q /\ s % p = r
  OBVIOUS

\* The slot after s is in the same erase block, or begins the next one.
LEMMA NextInBlock ==
  ASSUME NEW p \in Nat \ {0}, NEW s \in Nat
  PROVE  \/ (s + 1) \div p = s \div p
         \/ (s + 1) \div p = (s \div p) + 1 /\ (s + 1) % p = 0
  <1>. DEFINE q == s \div p
              r == s % p
              t == s + 1
  <1>1. q \in Nat /\ r \in 0 .. p - 1 /\ s = p * q + r
    BY Division
  <1>2. t \in Nat /\ t = s + 1
    OBVIOUS
  <1>. HIDE DEF q, r, t
  <1>. SUFFICES \/ t \div p = q
                \/ t \div p = q + 1 /\ t % p = 0
    BY DEF q, t
  <1>3. CASE r + 1 < p
    <2>. DEFINE k == r + 1
    <2>1. k \in 0 .. p - 1 /\ t = p * q + k
      BY <1>1, <1>2, <1>3
    <2>. HIDE DEF k
    <2>. QED  BY <1>1, <1>2, <2>1, Quotient
  <1>4. CASE r + 1 = p
    <2>. DEFINE j == q + 1
    <2>1. j \in Nat /\ t = p * j + 0 /\ 0 \in 0 .. p - 1
      BY <1>1, <1>2, <1>4
    <2>. HIDE DEF j
    <2>2. t \div p = j /\ t % p = 0
      BY <1>2, <2>1, Quotient
    <2>. QED  BY <2>2 DEF j
  <1>. QED  BY <1>1, <1>3, <1>4

\* A slot of an erase block is not before the first of the block.
LEMMA StartIsFirst ==
  ASSUME NEW p \in Nat \ {0}, NEW s \in Nat, NEW t \in Nat, t % p = 0, s \div p = t \div p
  PROVE  t <= s
  <1>. DEFINE q == s \div p
  <1>1. q \in Nat /\ s % p \in 0 .. p - 1 /\ s = p * q + (s % p) /\ t = p * q + 0
    BY Division
  <1>. QED  BY <1>1

\* The last of the slots is not in the first erase block.
LEMMA TwoBlocks ==
  ASSUME NEW p \in Nat \ {0}, NEW n \in Nat, n >= 2 * p
  PROVE  (n - 1) \div p # 0 \div p /\ 0 % p = 0
  <1>. DEFINE s == n - 1
  <1>1. s \in Nat /\ s >= p
    OBVIOUS
  <1>. HIDE DEF s
  <1>2. s \div p \in Nat /\ s % p \in 0 .. p - 1 /\ s = p * (s \div p) + (s % p)
    BY <1>1, Division
  <1>3. s \div p # 0
    BY <1>1, <1>2
  <1>4. 0 \div p = 0 /\ 0 % p = 0
    BY Quotient
  <1>. QED  BY <1>3, <1>4 DEF s

InBlock(s, t) == s \div PerBlock = t \div PerBlock

\* Where parameters_save goes from a slot: to the next of the erase block, or
\* to the first of another one.
LEMMA NextSlotIs ==
  ASSUME Store!ParametersAssumption, NEW s \in Store!Slots
  PROVE  /\ Store!NextSlot(s) \in Store!Slots
         /\ \/ Store!NextSlot(s) = s + 1 /\ InBlock(Store!NextSlot(s), s)
            \/ Store!BlockStart(Store!NextSlot(s)) /\ ~ InBlock(Store!NextSlot(s), s)
  <1>. DEFINE n == Store!NextSlot(s)
  <1>1. /\ PerBlock \in Nat \ {0} /\ NSlots \in Nat /\ NSlots >= 2 * PerBlock
        /\ NSlots > 0 /\ s \in Nat /\ s < NSlots
    BY DEF Store!ParametersAssumption, Store!Slots
  <1>2. CASE s + 1 < NSlots
    <2>1. n = s + 1
      <3>1. /\ s + 1 \in 0 .. NSlots - 1 /\ NSlots \in Nat \ {0} /\ s + 1 \in Nat
            /\ s + 1 = NSlots * 0 + (s + 1)
        BY <1>1, <1>2
      <3>. DEFINE m == s + 1
      <3>2. m \in 0 .. NSlots - 1 /\ m = NSlots * 0 + m /\ m \in Nat
        BY <3>1
      <3>. HIDE DEF m
      <3>3. m % NSlots = m
        BY <3>1, <3>2
      <3>. QED  BY <3>3 DEF m, Store!NextSlot
    <2>2. n \in Store!Slots
      BY <1>1, <1>2, <2>1 DEF Store!Slots
    <2>3. \/ n \div PerBlock = s \div PerBlock
          \/ n \div PerBlock = (s \div PerBlock) + 1 /\ n % PerBlock = 0
      BY <1>1, <2>1, NextInBlock
    <2>4. s \div PerBlock \in Nat
      BY <1>1, Division
    <2>. HIDE DEF n
    <2>5. \/ n = s + 1 /\ InBlock(n, s)
          \/ Store!BlockStart(n) /\ ~ InBlock(n, s)
      BY <2>1, <2>3, <2>4 DEF InBlock, Store!BlockStart
    <2>. QED  BY <2>2, <2>5 DEF n
  <1>3. CASE s = NSlots - 1
    <2>1. n = 0
      <3>1. NSlots % NSlots = 0
        BY <1>1
      <3>2. s + 1 = NSlots
        BY <1>1, <1>3
      <3>. QED  BY <3>1, <3>2 DEF Store!NextSlot
    <2>2. s \div PerBlock # 0 \div PerBlock /\ 0 % PerBlock = 0
      BY <1>1, <1>3, TwoBlocks
    <2>. HIDE DEF n
    <2>3. n \in Store!Slots /\ Store!BlockStart(n) /\ ~ InBlock(n, s)
      BY <1>1, <2>1, <2>2 DEF Store!Slots, Store!BlockStart, InBlock
    <2>. QED  BY <2>3 DEF n
  <1>. QED  BY <1>1, <1>2, <1>3

\* A slot at the start of an erase block is the first of its block.
LEMMA StartOfBlock ==
  ASSUME Store!ParametersAssumption, NEW s \in Store!Slots, NEW t \in Store!Slots,
    Store!BlockStart(t), InBlock(t, s)
  PROVE  t <= s
  <1>1. PerBlock \in Nat \ {0} /\ s \in Nat /\ t \in Nat
    BY DEF Store!ParametersAssumption, Store!Slots
  <1>. QED  BY <1>1, StartIsFirst DEF Store!BlockStart, InBlock

LEMMA ZeroIsAStart ==
  ASSUME Store!ParametersAssumption
  PROVE  0 \in Store!Slots /\ Store!BlockStart(0)
  <1>1. PerBlock \in Nat \ {0} /\ NSlots \in Nat /\ NSlots >= 2 * PerBlock
    BY DEF Store!ParametersAssumption
  <1>2. 0 % PerBlock = 0
    BY <1>1, TwoBlocks
  <1>. QED  BY <1>1, <1>2 DEF Store!Slots, Store!BlockStart

-----------------------------------------------------------------------------
(* What the slots hold, and the one that parameters_init picks.            *)

Contents == Store!Blocks \cup {Store!Blank, Store!Dirty}
Before(f, t, s) == \/ f[t].seq < f[s].seq
                   \/ f[t].seq = f[s].seq /\ t <= s
IsBlock(f, t) == f[t].kind = "block"
Top(f, s) == s \in Store!Slots /\ IsBlock(f, s) /\ \A t \in Store!Slots : IsBlock(f,
  t) => Before(f, t, s)
LatestOf(f) == LET V == {s \in Store!Slots : IsBlock(f, s)} IN
  IF V = {} THEN -1 ELSE CHOOSE s \in V : \A t \in V : Before(f, t, s)

LEMMA LatestIs == Store!Latest = LatestOf(flash) /\ Store!Latest' = LatestOf(flash')
  BY DEF Store!Latest, LatestOf, Store!Valid, IsBlock, Before

LEMMA Kinds ==
  /\ \A b \in Store!Blocks : /\ b.kind = "block" /\ b.seq \in 0 .. Word - 1
                             /\ b # Store!Blank /\ b # Store!Dirty /\ b # Store!None
  /\ Store!Blank.kind = "blank" /\ Store!Dirty.kind = "dirty" /\ Store!None.kind = "none"
  /\ Store!Blank # Store!Dirty /\ Store!Blank # Store!None /\ Store!Dirty # Store!None
  <1>1. ASSUME NEW b \in Store!Blocks
        PROVE  b.kind = "block" /\ b.seq \in 0 .. Word - 1
    BY DEF Store!Blocks, Store!Block
  <1>2. Store!Blank.kind = "blank" /\ Store!Dirty.kind = "dirty" /\ Store!None.kind = "none"
    BY DEF Store!Blank, Store!Dirty, Store!None
  <1>3. "block" # "blank" /\ "block" # "dirty" /\ "block" # "none"
        /\ "blank" # "dirty" /\ "blank" # "none" /\ "dirty" # "none"
    OBVIOUS
  <1>. QED  BY <1>1, <1>2, <1>3

\* A block in a slot is a block.
LEMMA BlockIn ==
  ASSUME NEW f \in [Store!Slots -> Contents], NEW s \in Store!Slots, IsBlock(f, s)
  PROVE  f[s] \in Store!Blocks /\ f[s].seq \in 0 .. Word - 1
  <1>1. f[s] \in Contents
    OBVIOUS
  <1>2. f[s] # Store!Blank /\ f[s] # Store!Dirty
    BY Kinds DEF IsBlock
  <1>. QED  BY <1>1, <1>2, Kinds DEF Contents

\* Of the blocks there is one that comes before none, unless there are none.
LEMMA TopExists ==
  ASSUME Store!ParametersAssumption, NEW f \in [Store!Slots -> Contents],
         NEW v \in Store!Slots, IsBlock(f, v)
  PROVE  \E s \in Store!Slots : Top(f, s)
  <1>. DEFINE V == {s \in Store!Slots : IsBlock(f, s)}
              Left(s) == Word - f[s].seq
              L == {Left(s) : s \in V}
  <1>0. Word \in Nat /\ NSlots \in Nat
    BY DEF Store!ParametersAssumption
  <1>1. \A s \in V : f[s].seq \in 0 .. Word - 1 /\ Left(s) \in Nat
    BY <1>0, BlockIn
  <1>2. L \in SUBSET Nat /\ L # {}
    BY <1>1
  <1>3. PICK n \in L : \A m \in L : n <= m
    <2>. HIDE DEF L
    <2>. QED  BY <1>2, LeastNumber
  <1>. DEFINE H == {s \in V : Left(s) = n}
              Rest(s) == NSlots - s
              R == {Rest(s) : s \in H}
  <1>4. R \in SUBSET Nat /\ R # {}
    BY <1>0, <1>3 DEF Store!Slots
  <1>5. PICK k \in R : \A m \in R : k <= m
    <2>. HIDE DEF R
    <2>. QED  BY <1>4, LeastNumber
  <1>6. PICK s \in H : Rest(s) = k
    BY <1>5
  <1>7. ASSUME NEW t \in V PROVE Before(f, t, s)
    <2>1. /\ f[t].seq \in 0 .. Word - 1 /\ f[s].seq \in 0 .. Word - 1
          /\ s \in Store!Slots /\ t \in Store!Slots
      BY <1>1
    <2>2. Left(s) <= Left(t)
      BY <1>3, <1>6
    <2>3. f[t].seq <= f[s].seq
      BY <1>0, <2>1, <2>2
    <2>4. CASE f[t].seq = f[s].seq
      <3>1. t \in H
        BY <2>4
      <3>2. Rest(s) <= Rest(t)
        BY <1>5, <1>6, <3>1
      <3>3. t <= s
        BY <1>0, <2>1, <3>2 DEF Store!Slots
      <3>. QED  BY <2>4, <3>3 DEF Before
    <2>. QED  BY <2>1, <2>3, <2>4 DEF Before
  <1>. QED  BY <1>7 DEF Top

\* The scan of parameters_init finds it, and finds nothing only if nothing is there.
LEMMA LatestIsTop ==
  ASSUME Store!ParametersAssumption, NEW f \in [Store!Slots -> Contents]
  PROVE  /\ (\A s \in Store!Slots : ~ IsBlock(f, s)) => LatestOf(f) = -1
         /\ (\E s \in Store!Slots : IsBlock(f, s)) => Top(f, LatestOf(f))
         /\ \A s : Top(f, s) => LatestOf(f) = s /\ s # -1
  <1>. DEFINE V == {s \in Store!Slots : IsBlock(f, s)}
  <1>1. (\A s \in Store!Slots : ~ IsBlock(f, s)) => LatestOf(f) = -1
    BY DEF LatestOf
  <1>2. ASSUME NEW v \in Store!Slots, IsBlock(f, v) PROVE Top(f, LatestOf(f))
    <2>1. \E s \in V : \A t \in V : Before(f, t, s)
      BY <1>2, TopExists DEF Top
    <2>2. LatestOf(f) = CHOOSE s \in V : \A t \in V : Before(f, t, s)
      BY <1>2 DEF LatestOf
    <2>3. LatestOf(f) \in V /\ \A t \in V : Before(f, t, LatestOf(f))
      BY <2>1, <2>2
    <2>. QED  BY <2>3 DEF Top
  <1>3. ASSUME NEW s, Top(f, s) PROVE LatestOf(f) = s /\ s # -1
    <2>1. Top(f, LatestOf(f))
      BY <1>2, <1>3 DEF Top
    <2>. DEFINE l == LatestOf(f)
    <2>2. l \in Store!Slots /\ s \in Store!Slots /\ Before(f, l, s) /\ Before(f, s, l)
      BY <1>3, <2>1 DEF Top
    <2>3. f[l].seq \in 0 .. Word - 1 /\ f[s].seq \in 0 .. Word - 1
      BY <1>3, <2>1, BlockIn DEF Top
    <2>4. Word \in Nat /\ NSlots \in Nat
      BY DEF Store!ParametersAssumption
    <2>. HIDE DEF l
    <2>5. l = s /\ s # -1
      BY <2>2, <2>3, <2>4 DEF Before, Store!Slots
    <2>. QED  BY <2>5 DEF l
  <1>. QED  BY <1>1, <1>2, <1>3

-----------------------------------------------------------------------------
(* The types.                                                              *)

LEMMA StoredIs ==
  ASSUME NEW b \in Store!Blocks \cup {Store!None}
  PROVE  \/ /\ Store!Stored(b) = b /\ Store!Readable(b) = b
            /\ b = Store!None => Store!Readable(b) = Store!None
         \/ /\ Store!Stored(b) = Store!Blank /\ Store!Readable(b) = Store!None
            /\ b = Store!Block(0, Zeros) /\ erased = "zero"
  <1>1. b # Store!Blank
    BY Kinds
  <1>. QED  BY <1>1 DEF Store!Stored, Store!Readable

LEMMA TypeInit == Store!ParametersAssumption /\ Store!Init => Store!TypeOK
  <1>. SUFFICES ASSUME Store!ParametersAssumption, Store!Init PROVE Store!TypeOK
    OBVIOUS
  <1>1. flash \in [Store!Slots -> Store!Blocks \cup {Store!Blank, Store!Dirty}]
    BY DEF Store!Init
  <1>2. para \in Store!Slots \cup {-1} /\ offset \in Store!Slots
    BY ZeroIsAStart DEF Store!Init
  <1>3. saves \in 0 .. MaxSaves /\ faults \in 0 .. MaxFaults
    BY DEF Store!Init, Store!ParametersAssumption
  <1>4. new \in Store!Blocks \cup {Store!None} /\ saved \in Store!Blocks \cup {Store!None}
    BY DEF Store!Init
  <1>5. /\ erased \in {"zero", "one"} /\ pc \in {"idle", "search", "write", "verify", "down"}
        /\ worn \subseteq {s \in Store!Slots : Store!BlockStart(s)}
        /\ pc = "down" => para = -1
        /\ pc \in {"search", "write", "verify"} => new # Store!None
    BY DEF Store!Init
  <1>. QED  BY <1>1, <1>2, <1>3, <1>4, <1>5 DEF Store!TypeOK

LEMMA SeqsAreNumbers ==
  ASSUME Store!ParametersAssumption, Store!TypeOK, saves < MaxSaves, NEW s \in Store!Slots,
    NEW q \in Store!SeqsAt(s)
  PROVE  q \in 0 .. Word - 1 /\ Store!NextSeq(q) \in 0 .. Word - 1
  <1>1. Word \in Nat /\ Word > 0
    BY DEF Store!ParametersAssumption, Store!TypeOK
  <1>2. CASE Store!Valid(s)
    <2>1. IsBlock(flash, s) /\ flash \in [Store!Slots -> Contents]
      BY <1>2 DEF Store!Valid, IsBlock, Store!TypeOK, Contents
    <2>2. flash[s].seq \in 0 .. Word - 1
      BY <2>1, BlockIn
    <2>. QED  BY <1>1, <1>2, <2>2 DEF Store!SeqsAt, Store!NextSeq
  <1>3. CASE ~ Store!Valid(s)
    BY <1>1, <1>3 DEF Store!SeqsAt, Store!NextSeq
  <1>. QED  BY <1>2, <1>3

LEMMA SaveBeginType ==
  ASSUME Store!ParametersAssumption, Store!TypeOK, NEW value \in Values, Store!SaveBegin(value)
  PROVE  Store!TypeOK'
  <1>1. Word \in Nat /\ Word > 0 /\ saves < MaxSaves /\ saves' \in 0 .. MaxSaves
    BY DEF Store!ParametersAssumption, Store!TypeOK, Store!SaveBegin
  <1>2. new' \in Store!Blocks
    <2>1. PICK seq \in IF para = -1 THEN {0} ELSE {Store!NextSeq(q) : q \in Store!SeqsAt(para)} :
            new' = Store!Block(seq, value)
      BY DEF Store!SaveBegin
    <2>2. seq \in 0 .. Word - 1
      <3>1. CASE para = -1
        BY <1>1, <2>1, <3>1
      <3>2. CASE para # -1
        <4>1. para \in Store!Slots
          BY <3>2 DEF Store!TypeOK
        <4>. QED  BY <1>1, <2>1, <3>2, <4>1, SeqsAreNumbers
      <3>. QED  BY <3>1, <3>2
    <2>. QED  BY <2>1, <2>2 DEF Store!Blocks
  <1>3. offset' \in Store!Slots
    <2>1. CASE para = -1
      BY <2>1, ZeroIsAStart DEF Store!SaveBegin, Store!FirstSlot
    <2>2. CASE para # -1
      <3>1. para \in Store!Slots
        BY <2>2 DEF Store!TypeOK
      <3>. QED  BY <2>2, <3>1, NextSlotIs DEF Store!SaveBegin, Store!FirstSlot
    <2>. QED  BY <2>1, <2>2
  <1>4. new' # Store!None
    BY <1>2, Kinds
  <1>. QED  BY <1>1, <1>2, <1>3, <1>4 DEF Store!SaveBegin, Store!TypeOK

LEMMA EraseType ==
  ASSUME Store!ParametersAssumption, Store!TypeOK, Store!Erase
  PROVE  /\ flash' \in [Store!Slots -> Contents]
         /\ worn' \subseteq {s \in Store!Slots : Store!BlockStart(s)} /\ worn \subseteq worn'
         /\ faults' \in 0 .. MaxFaults
         /\ worn' = {} =>
              IF Store!BlockStart(offset)
              THEN flash' = [s \in Store!Slots |->
                               IF s \in Store!EraseBlock(offset) THEN Store!Blank ELSE flash[s]]
              ELSE flash' = flash
  <1>1. CASE ~ Store!BlockStart(offset) \/ offset \in worn
    BY <1>1 DEF Store!Erase, Store!TypeOK, Contents
  <1>2. CASE Store!BlockStart(offset) /\ offset \notin worn
    <2>1. CASE /\ flash' = [s \in Store!Slots |->
                              IF s \in Store!EraseBlock(offset) THEN Store!Blank ELSE flash[s]]
               /\ UNCHANGED <<worn, faults>>
      <3>1. flash' \in [Store!Slots -> Contents]
        BY <2>1 DEF Store!TypeOK, Contents
      <3>. QED  BY <1>2, <2>1, <3>1 DEF Store!TypeOK
    <2>2. CASE /\ faults < MaxFaults /\ faults' = faults + 1
               /\ worn' = worn \cup {offset} /\ UNCHANGED flash
      BY <1>2, <2>2 DEF Store!ParametersAssumption, Store!TypeOK, Contents
    <2>. QED  BY <1>2, <2>1, <2>2 DEF Store!Erase
  <1>. QED  BY <1>1, <1>2

LEMMA SearchType ==
  ASSUME Store!ParametersAssumption, Store!TypeOK, Store!Search
  PROVE  Store!TypeOK'
  <1>1. /\ flash' \in [Store!Slots -> Contents]
        /\ worn' \subseteq {s \in Store!Slots : Store!BlockStart(s)}
        /\ faults' \in 0 .. MaxFaults
    BY EraseType DEF Store!Search
  <1>2. Store!NextSlot(offset) \in Store!Slots
    BY NextSlotIs DEF Store!TypeOK
  <1>3. /\ offset' \in Store!Slots /\ pc' \in {"search", "write", "idle"}
        /\ new' \in Store!Blocks \cup {Store!None} /\ (pc' # "idle" => new' # Store!None)
    BY <1>2 DEF Store!Search, Store!Returns, Store!TypeOK
  <1>. QED  BY <1>1, <1>3 DEF Store!Search, Store!TypeOK, Contents

LEMMA WriteType ==
  ASSUME Store!ParametersAssumption, Store!TypeOK, Store!Write
  PROVE  Store!TypeOK'
  <1>1. Store!Stored(new) \in Contents
    <2>1. new \in Store!Blocks
      BY DEF Store!TypeOK, Store!Write
    <2>. QED  BY <2>1, StoredIs DEF Contents
  <1>2. flash' \in [Store!Slots -> Contents]
    BY <1>1 DEF Store!TypeOK, Store!Write, Contents
  <1>3. faults' \in 0 .. MaxFaults
    BY DEF Store!ParametersAssumption, Store!TypeOK, Store!Write
  <1>. QED  BY <1>2, <1>3 DEF Store!Write, Store!TypeOK, Contents

LEMMA VerifyType ==
  ASSUME Store!TypeOK, Store!Verify
  PROVE  Store!TypeOK'
  BY DEF Store!TypeOK, Store!Verify, Store!Returns

\* What a loss of power leaves in flash.
LEMMA CutShortLeaves ==
  ASSUME Store!TypeOK, Store!CutShort
  PROVE  /\ flash' \in [Store!Slots -> Contents]
         /\ \A s \in Store!Slots :
              \/ flash'[s] \in {flash[s], Store!Blank, Store!Dirty}
                 /\ (flash'[s] # flash[s] =>
                       \/ /\ pc = "search" /\ Store!BlockStart(offset)
                          /\ s \in Store!EraseBlock(offset)
                       \/ pc = "write" /\ s = offset)
              \/ pc = "write" /\ s = offset /\ flash'[s] = Store!Stored(new)
  <1>1. CASE pc = "search" /\ Store!BlockStart(offset) /\ offset \notin worn
    <2>1. flash' \in {f \in [Store!Slots -> {flash[s] : s \in Store!Slots} \cup {Store!Blank,
      Store!Dirty}] :
           \A s \in Store!Slots : f[s] \in {flash[s]} \cup
             (IF s \in Store!EraseBlock(offset) THEN {Store!Blank, Store!Dirty} ELSE {})}
      BY <1>1 DEF Store!CutShort
    <2>2. flash' \in [Store!Slots -> {flash[s] : s \in Store!Slots} \cup {Store!Blank, Store!Dirty}]
      BY <2>1
    <2>3. {flash[s] : s \in Store!Slots} \cup {Store!Blank, Store!Dirty} \subseteq Contents
      BY DEF Store!TypeOK, Contents
    <2>4. flash' \in [Store!Slots -> Contents]
      BY <2>2, <2>3
    <2>. QED  BY <1>1, <2>1, <2>4
  <1>2. CASE pc = "write"
    <2>1. flash' \in {[flash EXCEPT ![offset] = c] : c \in {Store!Blank, Store!Dirty,
      Store!Stored(new)}}
      BY <1>2 DEF Store!CutShort
    <2>2. Store!Stored(new) \in Contents
      <3>1. new \in Store!Blocks
        BY <1>2 DEF Store!TypeOK
      <3>. QED  BY <3>1, StoredIs DEF Contents
    <2>3. PICK c \in {Store!Blank, Store!Dirty,
      Store!Stored(new)} : flash' = [flash EXCEPT ![offset] = c]
      BY <2>1
    <2>4. c \in Contents
      BY <2>2 DEF Contents
    <2>. QED  BY <1>2, <2>3, <2>4 DEF Store!TypeOK, Contents
  <1>3. CASE pc # "write" /\ ~ (pc = "search" /\ Store!BlockStart(offset) /\ offset \notin worn)
    <2>1. flash' = flash
      BY <1>3 DEF Store!CutShort
    <2>. QED  BY <2>1 DEF Store!TypeOK, Contents
  <1>. QED  BY <1>1, <1>2, <1>3

LEMMA PowerLossType ==
  ASSUME Store!ParametersAssumption, Store!TypeOK, Store!PowerLoss
  PROVE  Store!TypeOK'
  <1>1. flash' \in [Store!Slots -> Contents]
    BY CutShortLeaves DEF Store!PowerLoss
  <1>2. offset' \in Store!Slots
    BY ZeroIsAStart DEF Store!PowerLoss
  <1>3. faults' \in 0 .. MaxFaults
    BY DEF Store!ParametersAssumption, Store!TypeOK, Store!PowerLoss
  <1>. QED  BY <1>1, <1>2, <1>3 DEF Store!PowerLoss, Store!TypeOK, Contents

LEMMA PowerUpType ==
  ASSUME Store!ParametersAssumption, Store!TypeOK, Store!PowerUp
  PROVE  Store!TypeOK'
  <1>1. flash \in [Store!Slots -> Contents] /\ Store!Latest = LatestOf(flash)
    BY LatestIs DEF Store!TypeOK, Contents
  <1>2. CASE \A s \in Store!Slots : ~ IsBlock(flash, s)
    <2>1. Store!Latest = -1
      BY <1>1, <1>2, LatestIsTop
    <2>. QED  BY <2>1 DEF Store!TypeOK, Store!PowerUp, Store!Returns
  <1>3. CASE \E s \in Store!Slots : IsBlock(flash, s)
    <2>1. Top(flash, Store!Latest)
      BY <1>1, <1>3, LatestIsTop
    <2>2. Store!Latest \in Store!Slots /\ flash[Store!Latest] \in Store!Blocks
      BY <1>1, <2>1, BlockIn DEF Top
    <2>3. Store!Latest # -1
      BY <2>2 DEF Store!Slots
    <2>. QED  BY <2>2, <2>3 DEF Store!TypeOK, Store!PowerUp, Store!Returns
  <1>. QED  BY <1>2, <1>3

LEMMA TypeStep == Store!ParametersAssumption /\ Store!TypeOK /\ [Store!Next]_(Store!vars) => Store!TypeOK'
  <1>. SUFFICES ASSUME Store!ParametersAssumption, Store!TypeOK,
    [Store!Next]_(Store!vars) PROVE Store!TypeOK'
    OBVIOUS
  <1>1. CASE UNCHANGED Store!vars
    BY <1>1 DEF Store!vars, Store!TypeOK
  <1>. QED  BY <1>1, SaveBeginType, SearchType, WriteType, VerifyType, PowerLossType, PowerUpType
            DEF Store!Next

-----------------------------------------------------------------------------
(* The inductive invariant, as long as no erase block is worn out.         *)

Powered == pc # "down"
Saving == pc \in {"search", "write", "verify"}

\* The blocks that are older than the one being saved.
Older(t) == IsBlock(flash, t) /\ ~ (pc = "verify" /\ t = offset)

\* No block reads as a blank slot, and numbers are not used before their save.
FlashOk == \A t \in Store!Slots : IsBlock(flash,
  t) => Store!Stored(flash[t]) = flash[t] /\ flash[t].seq < saves

\* With power the current slot holds the block saved last, the latest of all;
\* or nothing was ever saved; or it was saved as all zeros, and reads blank.
NothingSaved == para = -1 /\ saved = Store!None /\ \A t \in Store!Slots : ~ Older(t)
SavedIsLatest == /\ para \in Store!Slots /\ IsBlock(flash, para) /\ flash[para] = saved
                 /\ \A t \in Store!Slots : Older(t) => Before(flash, t, para)
SavedIsBlank == /\ para \in Store!Slots /\ erased = "zero" /\ flash[para] = Store!Blank
                /\ saved = Store!Block(0, Zeros) /\ saves > 0
                /\ \A t \in Store!Slots : ~ Older(t)
CurrentOk == Powered => NothingSaved \/ SavedIsLatest \/ SavedIsBlank

\* The block being saved is later than all that are there.
NewOk == Saving => /\ new.seq < saves
                   /\ new.seq = 0 => para = -1
                   /\ \A t \in Store!Slots : Older(t) => flash[t].seq < new.seq

\* Where the save is: behind the current slot in its erase block, or at the
\* start of another one; once it found a slot, not at the current one.
PlaceOk ==
  /\ pc = "search" => IF para = -1 THEN offset = 0
                      ELSE \/ InBlock(offset, para) /\ para < offset
                           \/ Store!BlockStart(offset) /\ ~ InBlock(offset, para)
  /\ pc = "write" => flash[offset] = Store!Blank /\ offset # para
  /\ pc = "verify" => flash[offset] \in {Store!Blank, Store!Dirty,
    Store!Stored(new)} /\ offset # para
  /\ pc = "idle" => new = Store!None

DownOk == pc = "down" => Store!Found \in {Store!Readable(saved), Store!Readable(new)}

Unworn == FlashOk /\ CurrentOk /\ NewOk /\ PlaceOk /\ DownOk
IInv == Store!TypeOK /\ (worn = {} => Unworn)

-----------------------------------------------------------------------------
(* What a start would find.                                                *)

FoundIn(f) == IF LatestOf(f) = -1 THEN Store!None ELSE f[LatestOf(f)]

\* As long as the current slot keeps its block, and nothing but the new block
\* comes to those that are there, a start finds the saved block or the new one.
LEMMA Survives ==
  ASSUME Store!ParametersAssumption, Store!TypeOK, FlashOk, CurrentOk, NewOk, Powered,
         NEW f \in [Store!Slots -> Contents],
         \A t \in Store!Slots : IsBlock(f, t) =>
            \/ Older(t) /\ f[t] = flash[t]
            \/ pc \in {"write", "verify"} /\ t = offset /\ f[t] = Store!Stored(new),
         para # -1 => f[para] = flash[para]
  PROVE  FoundIn(f) \in {Store!Readable(saved), Store!Readable(new)}
  <1>0. saved \in Store!Blocks \cup {Store!None} /\ offset \in Store!Slots
    BY DEF Store!TypeOK
  <1>1. CASE pc \in {"write", "verify"} /\ IsBlock(f, offset) /\ f[offset] = Store!Stored(new)
    <2>1. new \in Store!Blocks
      BY <1>1 DEF Store!TypeOK
    <2>2. f[offset] = new /\ Store!Readable(new) = new
      BY <1>1, <2>1, StoredIs, Kinds DEF IsBlock
    <2>3. ASSUME NEW t \in Store!Slots, IsBlock(f, t) PROVE Before(f, t, offset)
      <3>1. CASE t = offset
        BY <3>1, <1>0 DEF Before, Store!Slots
      <3>2. CASE t # offset
        <4>1. Older(t) /\ f[t] = flash[t]
          BY <2>3, <3>2
        <4>. QED  BY <1>1, <2>2, <4>1 DEF Before, NewOk, Saving
      <3>. QED  BY <3>1, <3>2
    <2>4. Top(f, offset)
      BY <1>0, <1>1, <2>3 DEF Top
    <2>. QED  BY <2>2, <2>4, LatestIsTop DEF FoundIn
  <1>2. CASE ~ (pc \in {"write", "verify"} /\ IsBlock(f, offset) /\ f[offset] = Store!Stored(new))
    <2>1. \A t \in Store!Slots : IsBlock(f, t) => Older(t) /\ f[t] = flash[t]
      BY <1>2
    <2>2. CASE NothingSaved
      <3>1. FoundIn(f) = Store!None
        BY <2>1, <2>2, LatestIsTop DEF NothingSaved, FoundIn
      <3>2. Store!Readable(saved) = Store!None
        BY <2>2, StoredIs DEF NothingSaved
      <3>. QED  BY <3>1, <3>2
    <2>3. CASE SavedIsLatest
      <3>1. para \in Store!Slots /\ para # -1 /\ f[para] = flash[para] /\ IsBlock(f, para)
        BY <2>3 DEF SavedIsLatest, Store!Slots, IsBlock
      <3>2. Top(f, para)
        BY <2>1, <2>3, <3>1 DEF SavedIsLatest, Top, Before
      <3>3. FoundIn(f) = saved
        BY <2>3, <3>1, <3>2, LatestIsTop DEF FoundIn, SavedIsLatest
      <3>4. Store!Stored(saved) = saved /\ saved.kind = "block"
        BY <2>3, <3>1 DEF FlashOk, SavedIsLatest, IsBlock
      <3>5. Store!Readable(saved) = saved
        BY <3>4, Kinds DEF Store!Readable
      <3>. QED  BY <3>3, <3>5
    <2>4. CASE SavedIsBlank
      <3>1. FoundIn(f) = Store!None
        BY <2>1, <2>4, LatestIsTop DEF SavedIsBlank, FoundIn
      <3>2. saved # Store!None
        BY <2>4, Kinds, <1>0 DEF SavedIsBlank, Store!Block, Store!None
      <3>3. Store!Stored(saved) = Store!Blank
        BY <2>4, <3>2 DEF SavedIsBlank, Store!Stored
      <3>. QED  BY <3>1, <3>3 DEF Store!Readable
    <2>. QED  BY <2>2, <2>3, <2>4 DEF CurrentOk
  <1>. QED  BY <1>1, <1>2

LEMMA FoundIs == Store!Found = FoundIn(flash) /\ Store!Found' = FoundIn(flash')
  BY LatestIs DEF Store!Found, FoundIn

\* At any moment, whether there is power or not.
LEMMA InvariantIsDurable ==
  ASSUME Store!ParametersAssumption, IInv
  PROVE  Store!Durable
  <1>. SUFFICES ASSUME worn = {} PROVE Store!Found \in {Store!Readable(saved), Store!Readable(new)}
    BY DEF Store!Durable
  <1>1. Store!TypeOK /\ FlashOk /\ CurrentOk /\ NewOk /\ PlaceOk /\ DownOk
    BY DEF IInv, Unworn
  <1>2. CASE Powered
    <2>1. flash \in [Store!Slots -> Contents]
      BY <1>1 DEF Store!TypeOK, Contents
    <2>2. ASSUME NEW t \in Store!Slots, IsBlock(flash, t), ~ Older(t)
          PROVE  pc \in {"write", "verify"} /\ t = offset /\ flash[t] = Store!Stored(new)
      <3>1. pc = "verify" /\ t = offset
        BY <2>2 DEF Older
      <3>2. flash[offset] \in {Store!Blank, Store!Dirty, Store!Stored(new)}
        BY <1>1, <3>1 DEF PlaceOk
      <3>. QED  BY <2>2, <3>1, <3>2, Kinds DEF IsBlock
    <2>3. FoundIn(flash) \in {Store!Readable(saved), Store!Readable(new)}
      BY <1>1, <1>2, <2>1, <2>2, Survives
    <2>. QED  BY <2>3, FoundIs
  <1>3. CASE ~ Powered
    BY <1>1, <1>3 DEF DownOk, Powered
  <1>. QED  BY <1>2, <1>3

LEMMA InvariantGetsSaved ==
  ASSUME IInv
  PROVE  Store!GetsSaved
  <1>. SUFFICES ASSUME Powered, worn = {} PROVE Store!Get = Store!Readable(saved)
    BY DEF Store!GetsSaved, Powered
  <1>1. Store!TypeOK /\ FlashOk /\ (NothingSaved \/ SavedIsLatest \/ SavedIsBlank)
    BY DEF IInv, Unworn, CurrentOk
  <1>2. CASE NothingSaved
    <2>1. Store!Get = Store!None
      BY <1>2 DEF NothingSaved, Store!Get
    <2>. QED  BY <1>2, <2>1, StoredIs DEF NothingSaved
  <1>3. CASE SavedIsLatest
    <2>1. Store!Get = saved /\ Store!Stored(saved) = saved /\ saved.kind = "block"
      BY <1>1, <1>3 DEF SavedIsLatest, Store!Get, Store!Valid, IsBlock, FlashOk, Store!Slots
    <2>. QED  BY <2>1, Kinds DEF Store!Readable
  <1>4. CASE SavedIsBlank
    <2>1. Store!Get = Store!None
      BY <1>4, Kinds DEF SavedIsBlank, Store!Get, Store!Valid
    <2>2. saved # Store!None
      BY <1>1, <1>4, Kinds DEF SavedIsBlank, Store!TypeOK, Store!Block, Store!None
    <2>3. Store!Stored(saved) = Store!Blank
      BY <1>4, <2>2 DEF SavedIsBlank, Store!Stored
    <2>. QED  BY <2>1, <2>3 DEF Store!Readable
  <1>. QED  BY <1>1, <1>2, <1>3, <1>4

-----------------------------------------------------------------------------
(* The invariant is kept by each step.                                     *)

LEMMA UnwornInit == Store!ParametersAssumption /\ Store!Init => IInv
  <1>. SUFFICES ASSUME Store!ParametersAssumption, Store!Init PROVE IInv
    OBVIOUS
  <1>1. Store!TypeOK
    BY TypeInit
  <1>2. \A t \in Store!Slots : ~ IsBlock(flash, t)
    BY Kinds DEF Store!Init, IsBlock
  <1>3. FlashOk /\ CurrentOk
    BY <1>2 DEF Store!Init, FlashOk, CurrentOk, NothingSaved, Older
  <1>4. NewOk /\ PlaceOk /\ DownOk
    BY DEF Store!Init, NewOk, PlaceOk, DownOk, Saving
  <1>. QED  BY <1>1, <1>3, <1>4 DEF IInv, Unworn

LEMMA SaveBeginUnworn ==
  ASSUME Store!ParametersAssumption, Store!TypeOK, Unworn, NEW value \in Values,
    Store!SaveBegin(value)
  PROVE  Unworn'
  <1>1. /\ pc = "idle" /\ pc' = "search" /\ saves < MaxSaves /\ saves' = saves + 1
        /\ saves \in Nat /\ flash' = flash /\ para' = para /\ saved' = saved /\ erased' = erased
    BY DEF Store!SaveBegin, Store!TypeOK, Store!ParametersAssumption
  <1>2. \A t \in Store!Slots : (Older(t) <=> IsBlock(flash, t)) /\ (Older(t)' <=> IsBlock(flash, t))
    BY <1>1 DEF Older
  <1>3. \A t \in Store!Slots : IsBlock(flash, t) => flash[t].seq \in 0 .. Word - 1
    BY BlockIn DEF Store!TypeOK, Contents
  <1>4. FlashOk'
    <2>1. \A t \in Store!Slots : IsBlock(flash,
      t) => Store!Stored(flash[t]) = flash[t] /\ flash[t].seq < saves + 1
      BY <1>1, <1>3 DEF Unworn, FlashOk
    <2>. QED  BY <1>1, <2>1 DEF FlashOk, Store!Stored
  <1>5. CurrentOk'
    <2>1. NothingSaved \/ SavedIsLatest \/ SavedIsBlank
      BY <1>1 DEF Unworn, CurrentOk, Powered
    <2>2. NothingSaved => NothingSaved'
      BY <1>1, <1>2 DEF NothingSaved
    <2>3. SavedIsLatest => SavedIsLatest'
      BY <1>1, <1>2 DEF SavedIsLatest
    <2>4. SavedIsBlank => SavedIsBlank'
      BY <1>1, <1>2 DEF SavedIsBlank
    <2>. QED  BY <2>1, <2>2, <2>3, <2>4 DEF CurrentOk
  <1>6. NewOk'
    <2>1. PICK seq \in IF para = -1 THEN {0} ELSE {Store!NextSeq(q) : q \in Store!SeqsAt(para)} :
            new' = Store!Block(seq, value)
      BY DEF Store!SaveBegin
    <2>2. new'.seq = seq
      BY <2>1 DEF Store!Block
    <2>3. CASE NothingSaved
      <3>1. seq = 0 /\ \A t \in Store!Slots : ~ Older(t)'
        BY <2>1, <2>3, <1>2 DEF NothingSaved
      <3>. QED  BY <1>1, <2>2, <2>3, <3>1 DEF NewOk, NothingSaved
    <2>4. CASE SavedIsLatest
      <3>1. para \in Store!Slots /\ para # -1 /\ IsBlock(flash, para) /\ Store!Valid(para)
        BY <2>4 DEF SavedIsLatest, Store!Slots, Store!Valid, IsBlock
      <3>2. seq = Store!NextSeq(flash[para].seq)
        <4>1. Store!SeqsAt(para) = {flash[para].seq}
          BY <3>1, Kinds DEF Store!SeqsAt, Store!Valid
        <4>. QED  BY <2>1, <3>1, <4>1
      <3>3. /\ flash[para].seq \in 0 .. Word - 1 /\ flash[para].seq < saves
            /\ Word \in Nat /\ MaxSaves <= Word /\ MaxSaves \in Nat
        BY <1>3, <3>1 DEF Unworn, FlashOk, Store!ParametersAssumption
      <3>4. seq = flash[para].seq + 1
        <4>. DEFINE n == flash[para].seq + 1
        <4>1. n \in 0 .. Word - 1
          BY <1>1, <3>3
        <4>. HIDE DEF n
        <4>2. n % Word = n
          BY <3>3, <4>1
        <4>. QED  BY <3>2, <4>2 DEF n, Store!NextSeq
      <3>5. \A t \in Store!Slots : IsBlock(flash, t) => flash[t].seq < seq
        <4>1. \A t \in Store!Slots : IsBlock(flash, t) => Before(flash, t, para)
          BY <1>2, <2>4 DEF SavedIsLatest
        <4>. QED  BY <1>3, <3>3, <3>4, <4>1 DEF Before
      <3>6. seq < saves + 1 /\ seq # 0
        BY <1>1, <3>3, <3>4
      <3>. QED  BY <1>1, <1>2, <2>2, <3>5, <3>6 DEF NewOk
    <2>5. CASE SavedIsBlank
      <3>1. para \in Store!Slots /\ para # -1 /\ ~ Store!Valid(para)
        BY <2>5, Kinds DEF SavedIsBlank, Store!Slots, Store!Valid
      <3>2. seq = Store!NextSeq(0)
        BY <2>1, <2>5, <3>1 DEF Store!SeqsAt, SavedIsBlank
      <3>3. Word \in Nat /\ MaxSaves <= Word /\ saves > 0 /\ MaxSaves \in Nat
        BY <2>5 DEF Store!ParametersAssumption, SavedIsBlank
      <3>4. seq = 1
        <4>1. Word > 1
          BY <1>1, <3>3
        <4>2. 1 % Word = 1
          BY <3>3, <4>1
        <4>. QED  BY <3>2, <4>2 DEF Store!NextSeq
      <3>5. seq < saves + 1 /\ seq # 0 /\ \A t \in Store!Slots : ~ Older(t)'
        BY <1>1, <1>2, <3>3, <3>4, <2>5 DEF SavedIsBlank
      <3>. QED  BY <1>1, <2>2, <3>5 DEF NewOk
    <2>. QED  BY <1>1, <2>3, <2>4, <2>5 DEF Unworn, CurrentOk, Powered
  <1>7. PlaceOk'
    <2>1. CASE para = -1
      BY <1>1, <2>1 DEF Store!SaveBegin, Store!FirstSlot, PlaceOk
    <2>2. CASE para # -1
      <3>1. para \in Store!Slots /\ offset' = Store!NextSlot(para)
        BY <2>2 DEF Store!TypeOK, Store!SaveBegin, Store!FirstSlot
      <3>2. \/ offset' = para + 1 /\ InBlock(offset', para)
            \/ Store!BlockStart(offset') /\ ~ InBlock(offset', para)
        BY <3>1, NextSlotIs
      <3>3. para < para + 1
        BY <3>1 DEF Store!Slots
      <3>. QED  BY <1>1, <2>2, <3>2, <3>3 DEF PlaceOk
    <2>. QED  BY <2>1, <2>2
  <1>8. DownOk'
    BY <1>1 DEF DownOk
  <1>. QED  BY <1>4, <1>5, <1>6, <1>7, <1>8 DEF Unworn

\* An erase does not reach the current slot.
LEMMA CurrentIsKept ==
  ASSUME Store!ParametersAssumption, Store!TypeOK, PlaceOk, pc = "search",
    Store!BlockStart(offset), para # -1
  PROVE  para \in Store!Slots /\ para \notin Store!EraseBlock(offset)
  <1>1. para \in Store!Slots /\ offset \in Store!Slots
    BY DEF Store!TypeOK
  <1>2. ASSUME InBlock(offset, para), para < offset PROVE FALSE
    <2>1. offset <= para
      BY <1>1, <1>2, StartOfBlock
    <2>. QED  BY <1>1, <1>2, <2>1 DEF Store!Slots
  <1>3. ~ InBlock(offset, para)
    BY <1>2 DEF PlaceOk
  <1>. QED  BY <1>1, <1>3 DEF Store!EraseBlock, InBlock

\* What the state of the flash says of the saved block goes on, when slots that
\* are not current are blanked and no block is added.
LEMMA CurrentStays ==
  ASSUME Store!TypeOK, CurrentOk, Powered, erased' = erased, para' = para, saved' = saved,
    saves' = saves,
         \A t \in Store!Slots : Older(t)' => Older(t) /\ flash'[t] = flash[t],
         para # -1 => flash'[para] = flash[para]
  PROVE  CurrentOk'
  <1>0. \A t \in Store!Slots : t # -1
    BY DEF Store!Slots
  <1>1. NothingSaved => NothingSaved'
    BY DEF NothingSaved
  <1>2. SavedIsLatest => SavedIsLatest'
    BY <1>0 DEF SavedIsLatest, IsBlock, Before
  <1>3. SavedIsBlank => SavedIsBlank'
    BY <1>0 DEF SavedIsBlank
  <1>. QED  BY <1>1, <1>2, <1>3 DEF CurrentOk

LEMMA SearchUnworn ==
  ASSUME Store!ParametersAssumption, Store!TypeOK, Unworn, Store!Search, worn' = {}
  PROVE  Unworn'
  <1>1. /\ flash' \in [Store!Slots -> Contents] /\ flash \in [Store!Slots -> Contents]
        /\ IF Store!BlockStart(offset)
           THEN flash' = [s \in Store!Slots |->
                            IF s \in Store!EraseBlock(offset) THEN Store!Blank ELSE flash[s]]
           ELSE flash' = flash
    BY EraseType DEF Store!Search, Store!TypeOK, Contents
  <1>2. /\ pc = "search" /\ erased' = erased /\ para' = para /\ saved' = saved /\ saves' = saves
        /\ pc' \in {"search", "write", "idle"} /\ offset \in Store!Slots
    BY DEF Store!Search, Store!Returns, Store!TypeOK
  <1>3. FlashOk /\ CurrentOk /\ NewOk /\ PlaceOk
    BY DEF Unworn
  <1>4. \A t \in Store!Slots : IsBlock(flash', t) => IsBlock(flash, t) /\ flash'[t] = flash[t]
    BY <1>1, Kinds DEF IsBlock
  <1>5. \A t \in Store!Slots : Older(t)' => Older(t) /\ flash'[t] = flash[t]
    BY <1>2, <1>4 DEF Older
  <1>6. para # -1 => flash'[para] = flash[para]
    <2>1. CASE Store!BlockStart(offset)
      BY <1>1, <1>2, <1>3, <2>1, CurrentIsKept
    <2>2. CASE ~ Store!BlockStart(offset)
      BY <1>1, <2>2
    <2>. QED  BY <2>1, <2>2
  <1>7. FlashOk'
    BY <1>2, <1>3, <1>4 DEF FlashOk, Store!Stored
  <1>8. CurrentOk'
    BY <1>2, <1>3, <1>5, <1>6, CurrentStays DEF Powered
  <1>9. NewOk'
    <2>1. Saving' => new' = new
      BY DEF Store!Search, Store!Returns, Saving
    <2>2. Saving
      BY <1>2 DEF Saving
    <2>. QED  BY <1>2, <1>3, <1>5, <2>1, <2>2 DEF NewOk
  <1>10. PlaceOk'
    <2>1. CASE flash'[offset] = Store!Blank /\ pc' = "write" /\ UNCHANGED <<offset, new>>
      <3>1. offset # para
        BY <1>2, <1>3 DEF PlaceOk, Store!Slots, InBlock
      <3>. QED  BY <1>2, <2>1, <3>1 DEF PlaceOk
    <2>2. CASE /\ flash'[offset] # Store!Blank /\ offset' = Store!NextSlot(offset)
               /\ IF Store!Round(offset') THEN Store!Returns ELSE UNCHANGED <<pc, new>>
      <3>1. ~ Store!BlockStart(offset)
        BY <1>1, <1>2, <2>2 DEF Store!EraseBlock
      <3>2. para # -1
        BY <1>2, <1>3, <3>1, ZeroIsAStart DEF PlaceOk
      <3>3. InBlock(offset, para) /\ para < offset /\ para \in Store!Slots
        BY <1>2, <1>3, <3>1, <3>2 DEF PlaceOk, Store!TypeOK
      <3>4. \/ offset' = offset + 1 /\ InBlock(offset', offset)
            \/ Store!BlockStart(offset') /\ ~ InBlock(offset', offset)
        BY <1>2, <2>2, NextSlotIs
      <3>5. \/ InBlock(offset', para) /\ para < offset'
            \/ Store!BlockStart(offset') /\ ~ InBlock(offset', para)
        BY <1>2, <3>3, <3>4 DEF InBlock, Store!Slots
      <3>6. CASE Store!Round(offset')
        BY <2>2, <3>6 DEF Store!Returns, PlaceOk
      <3>7. CASE ~ Store!Round(offset')
        BY <1>2, <2>2, <3>2, <3>5, <3>7 DEF PlaceOk
      <3>. QED  BY <3>6, <3>7
    <2>. QED  BY <2>1, <2>2 DEF Store!Search
  <1>11. DownOk'
    BY <1>2 DEF DownOk
  <1>. QED  BY <1>7, <1>8, <1>9, <1>10, <1>11 DEF Unworn

LEMMA WriteUnworn ==
  ASSUME Store!ParametersAssumption, Store!TypeOK, Unworn, Store!Write
  PROVE  Unworn'
  <1>1. /\ pc = "write" /\ pc' = "verify" /\ offset \in Store!Slots /\ new \in Store!Blocks
        /\ UNCHANGED <<erased, para, offset, new, saved, saves>>
    BY DEF Store!Write, Store!TypeOK
  <1>2. FlashOk /\ CurrentOk /\ NewOk /\ flash[offset] = Store!Blank /\ offset # para
    BY <1>1 DEF Unworn, PlaceOk
  <1>3. /\ flash'[offset] \in {Store!Blank, Store!Dirty, Store!Stored(new)}
        /\ \A t \in Store!Slots : t # offset => flash'[t] = flash[t]
    BY <1>1, <1>2 DEF Store!Write, Store!TypeOK
  <1>4. \A t \in Store!Slots : Older(t)' => Older(t) /\ flash'[t] = flash[t]
    BY <1>1, <1>3 DEF Older, IsBlock
  <1>5. FlashOk'
    <2>1. ASSUME NEW t \in Store!Slots, IsBlock(flash', t)
          PROVE  Store!Stored(flash'[t]) = flash'[t] /\ flash'[t].seq < saves
      <3>1. CASE t # offset
        BY <1>2, <1>3, <2>1, <3>1 DEF FlashOk, IsBlock
      <3>2. CASE t = offset
        <4>1. flash'[t] = Store!Stored(new) /\ Store!Stored(new) = new
          BY <1>1, <1>3, <2>1, <3>2, StoredIs, Kinds DEF IsBlock
        <4>2. new.seq < saves
          BY <1>1, <1>2 DEF NewOk, Saving
        <4>. QED  BY <4>1, <4>2
      <3>. QED  BY <3>1, <3>2
    <2>. QED  BY <1>1, <2>1 DEF FlashOk, Store!Stored
  <1>6. CurrentOk'
    <2>1. para # -1 => flash'[para] = flash[para]
      BY <1>2, <1>3 DEF Store!TypeOK
    <2>. QED  BY <1>1, <1>2, <1>4, <2>1, CurrentStays DEF Powered
  <1>7. NewOk'
    BY <1>1, <1>2, <1>4 DEF NewOk, Saving
  <1>8. PlaceOk'
    BY <1>1, <1>2, <1>3 DEF PlaceOk, Store!Stored
  <1>9. DownOk'
    BY <1>1 DEF DownOk
  <1>. QED  BY <1>5, <1>6, <1>7, <1>8, <1>9 DEF Unworn

LEMMA VerifyUnworn ==
  ASSUME Store!ParametersAssumption, Store!TypeOK, Unworn, Store!Verify
  PROVE  Unworn'
  <1>1. /\ pc = "verify" /\ pc' = "idle" /\ offset \in Store!Slots /\ new \in Store!Blocks
        /\ new' = Store!None /\ UNCHANGED <<erased, flash, offset, saves>>
    BY DEF Store!Verify, Store!Returns, Store!TypeOK
  <1>2. /\ FlashOk /\ CurrentOk /\ NewOk
        /\ flash[offset] \in {Store!Blank, Store!Dirty, Store!Stored(new)} /\ offset # para
    BY <1>1 DEF Unworn, PlaceOk
  <1>3. FlashOk'
    BY <1>1, <1>2 DEF FlashOk, Store!Stored
  <1>4. CurrentOk'
    <2>1. /\ \A t \in Store!Slots : Older(t)' <=> IsBlock(flash, t)
          /\ \A t \in Store!Slots : Older(t) => flash[t].seq < new.seq
          /\ \A t \in Store!Slots : t # offset /\ IsBlock(flash, t) => Older(t)
          /\ new.seq < saves /\ (new.seq = 0 => para = -1)
      BY <1>1, <1>2 DEF Older, NewOk, Saving
    <2>2. CASE Store!Verified /\ Store!Stored(new) = new
      <3>1. /\ flash[offset] = new /\ new.kind = "block" /\ para' = offset /\ saved' = new
            /\ new.seq \in 0 .. Word - 1
        BY <1>1, <2>2, Kinds DEF Store!Verify, Store!Verified
      <3>2. \A t \in Store!Slots : IsBlock(flash, t) => Before(flash, t, offset)
        BY <1>1, <2>1, <3>1 DEF Before, Store!Slots
      <3>3. SavedIsLatest'
        BY <1>1, <2>1, <3>1, <3>2 DEF SavedIsLatest, IsBlock, Before
      <3>. QED  BY <3>3 DEF CurrentOk
    <2>3. CASE Store!Verified /\ Store!Stored(new) # new
      <3>1. flash[offset] = Store!Blank /\ new = Store!Block(0, Zeros) /\ erased = "zero"
            /\ para' = offset /\ saved' = new
        BY <1>1, <2>3, StoredIs DEF Store!Verify, Store!Verified
      <3>2. new.seq = 0
        BY <3>1 DEF Store!Block
      <3>3. para = -1 /\ saves > 0
        BY <2>1, <3>2
      <3>4. NothingSaved
        BY <1>1, <1>2, <3>3 DEF CurrentOk, Powered, SavedIsLatest, SavedIsBlank, Store!Slots
      <3>5. \A t \in Store!Slots : ~ Older(t)'
        BY <2>1, <3>1, <3>4, Kinds DEF NothingSaved, IsBlock
      <3>6. SavedIsBlank'
        BY <1>1, <3>1, <3>3, <3>5 DEF SavedIsBlank
      <3>. QED  BY <3>6 DEF CurrentOk
    <2>4. CASE ~ Store!Verified
      <3>1. ~ IsBlock(flash, offset) /\ UNCHANGED <<para, saved>>
        BY <1>2, <2>4, Kinds DEF Store!Verify, Store!Verified, IsBlock
      <3>2. \A t \in Store!Slots : Older(t)' => Older(t) /\ flash'[t] = flash[t]
        BY <1>1, <2>1, <3>1
      <3>. QED  BY <1>1, <1>2, <3>1, <3>2, CurrentStays DEF Powered
    <2>. QED  BY <2>2, <2>3, <2>4
  <1>5. NewOk' /\ PlaceOk' /\ DownOk'
    BY <1>1 DEF NewOk, PlaceOk, DownOk, Saving
  <1>. QED  BY <1>3, <1>4, <1>5 DEF Unworn

LEMMA PowerLossUnworn ==
  ASSUME Store!ParametersAssumption, Store!TypeOK, Unworn, Store!PowerLoss
  PROVE  Unworn'
  <1>1. /\ pc # "down" /\ pc' = "down" /\ offset \in Store!Slots
        /\ UNCHANGED <<erased, new, saved, worn, saves>>
    BY DEF Store!PowerLoss, Store!TypeOK
  <1>2. FlashOk /\ CurrentOk /\ NewOk /\ PlaceOk /\ Powered
    BY <1>1 DEF Unworn, Powered
  <1>3. /\ flash' \in [Store!Slots -> Contents]
        /\ \A s \in Store!Slots :
             \/ flash'[s] \in {flash[s], Store!Blank, Store!Dirty}
                /\ (flash'[s] # flash[s] =>
                      \/ pc = "search" /\ Store!BlockStart(offset) /\ s \in Store!EraseBlock(offset)
                      \/ pc = "write" /\ s = offset)
             \/ pc = "write" /\ s = offset /\ flash'[s] = Store!Stored(new)
    BY CutShortLeaves DEF Store!PowerLoss
  <1>4. ASSUME NEW t \in Store!Slots, IsBlock(flash', t)
        PROVE  \/ Older(t) /\ flash'[t] = flash[t]
               \/ pc \in {"write", "verify"} /\ t = offset /\ flash'[t] = Store!Stored(new)
    <2>1. CASE pc = "write" /\ t = offset /\ flash'[t] = Store!Stored(new)
      BY <2>1
    <2>2. CASE flash'[t] = flash[t]
      <3>1. CASE Older(t)
        BY <2>2, <3>1
      <3>2. CASE ~ Older(t)
        <4>1. pc = "verify" /\ t = offset
          BY <1>4, <2>2, <3>2 DEF Older, IsBlock
        <4>2. flash[offset] \in {Store!Blank, Store!Dirty, Store!Stored(new)}
          BY <1>2, <4>1 DEF PlaceOk
        <4>. QED  BY <1>4, <2>2, <4>1, <4>2, Kinds DEF IsBlock
      <3>. QED  BY <3>1, <3>2
    <2>. QED  BY <1>3, <1>4, <2>1, <2>2, Kinds DEF IsBlock
  <1>5. para # -1 => flash'[para] = flash[para]
    <2>. SUFFICES ASSUME para # -1 PROVE flash'[para] = flash[para]
      OBVIOUS
    <2>1. para \in Store!Slots
      BY DEF Store!TypeOK
    <2>2. pc = "search" /\ Store!BlockStart(offset) => para \notin Store!EraseBlock(offset)
      BY <1>2, CurrentIsKept
    <2>3. pc = "write" => para # offset
      BY <1>2 DEF PlaceOk
    <2>. QED  BY <1>3, <2>1, <2>2, <2>3
  <1>6. FoundIn(flash') \in {Store!Readable(saved), Store!Readable(new)}
    BY <1>2, <1>3, <1>4, <1>5, Survives
  <1>7. DownOk'
    <2>1. /\ Store!Readable(saved)' = Store!Readable(saved)
          /\ Store!Readable(new)' = Store!Readable(new)
      BY <1>1 DEF Store!Readable, Store!Stored
    <2>. QED  BY <1>6, <2>1, FoundIs DEF DownOk
  <1>8. FlashOk'
    <2>1. ASSUME NEW t \in Store!Slots, IsBlock(flash', t)
          PROVE  Store!Stored(flash'[t]) = flash'[t] /\ flash'[t].seq < saves
      <3>1. CASE Older(t) /\ flash'[t] = flash[t]
        BY <1>2, <3>1 DEF FlashOk, Older
      <3>2. CASE pc \in {"write", "verify"} /\ flash'[t] = Store!Stored(new)
        <4>1. new \in Store!Blocks /\ new.seq < saves
          BY <1>2, <3>2 DEF Store!TypeOK, NewOk, Saving
        <4>2. flash'[t] = new /\ Store!Stored(new) = new
          BY <2>1, <3>2, <4>1, StoredIs, Kinds DEF IsBlock
        <4>. QED  BY <4>1, <4>2
      <3>. QED  BY <1>4, <2>1, <3>1, <3>2
    <2>. QED  BY <1>1, <2>1 DEF FlashOk, Store!Stored
  <1>9. CurrentOk' /\ NewOk' /\ PlaceOk'
    BY <1>1 DEF CurrentOk, NewOk, PlaceOk, Powered, Saving
  <1>. QED  BY <1>7, <1>8, <1>9 DEF Unworn

LEMMA PowerUpUnworn ==
  ASSUME Store!ParametersAssumption, Store!TypeOK, Unworn, Store!PowerUp
  PROVE  Unworn'
  <1>1. /\ pc = "down" /\ pc' = "idle" /\ new' = Store!None /\ para' = LatestOf(flash)
        /\ saved' = FoundIn(flash) /\ UNCHANGED <<erased, flash, offset, saves>>
    BY LatestIs DEF Store!PowerUp, Store!Returns, FoundIn
  <1>2. flash \in [Store!Slots -> Contents] /\ FlashOk
    BY DEF Store!TypeOK, Contents, Unworn
  <1>3. \A t \in Store!Slots : Older(t)' <=> IsBlock(flash, t)
    BY <1>1 DEF Older
  <1>4. FlashOk'
    BY <1>1, <1>2 DEF FlashOk, Store!Stored
  <1>5. CurrentOk'
    <2>1. CASE \A s \in Store!Slots : ~ IsBlock(flash, s)
      <3>1. LatestOf(flash) = -1
        BY <1>2, <2>1, LatestIsTop
      <3>2. NothingSaved'
        BY <1>1, <1>3, <2>1, <3>1 DEF NothingSaved, FoundIn
      <3>. QED  BY <3>2 DEF CurrentOk
    <2>2. CASE \E s \in Store!Slots : IsBlock(flash, s)
      <3>1. Top(flash, LatestOf(flash)) /\ LatestOf(flash) # -1
        BY <1>2, <2>2, LatestIsTop
      <3>2. SavedIsLatest'
        BY <1>1, <1>3, <3>1 DEF SavedIsLatest, FoundIn, Top
      <3>. QED  BY <3>2 DEF CurrentOk
    <2>. QED  BY <2>1, <2>2
  <1>6. NewOk' /\ PlaceOk' /\ DownOk'
    BY <1>1 DEF NewOk, PlaceOk, DownOk, Saving
  <1>. QED  BY <1>4, <1>5, <1>6 DEF Unworn

LEMMA IInvStep == Store!ParametersAssumption /\ IInv /\ [Store!Next]_(Store!vars) => IInv'
  <1>. SUFFICES ASSUME Store!ParametersAssumption, IInv, [Store!Next]_(Store!vars) PROVE IInv'
    OBVIOUS
  <1>1. Store!TypeOK /\ Store!TypeOK'
    BY TypeStep DEF IInv
  <1>. SUFFICES ASSUME worn' = {} PROVE Unworn'
    BY <1>1 DEF IInv
  <1>2. worn \subseteq worn'
    <2>1. CASE Store!Search
      BY <1>1, <2>1, EraseType DEF Store!Search
    <2>2. CASE ~ Store!Search
      BY <2>2 DEF Store!Next, Store!vars, Store!SaveBegin, Store!Write, Store!Verify,
                  Store!PowerLoss, Store!PowerUp
    <2>. QED  BY <2>1, <2>2
  <1>3. Unworn
    BY <1>2 DEF IInv
  <1>4. CASE UNCHANGED Store!vars
    <2>1. FoundIn(flash') = FoundIn(flash)
      BY <1>4 DEF Store!vars
    <2>2. \A t : Older(t)' <=> Older(t)
      BY <1>4 DEF Store!vars, Older
    <2>3. \A b : Store!Stored(b)' = Store!Stored(b) /\ Store!Readable(b)' = Store!Readable(b)
      BY <1>4 DEF Store!vars, Store!Stored, Store!Readable
    <2>4. FlashOk' /\ NewOk' /\ PlaceOk'
      BY <1>3, <1>4, <2>2, <2>3 DEF Unworn, Store!vars, FlashOk, NewOk, PlaceOk, Saving
    <2>5. CurrentOk'
      BY <1>3, <1>4, <2>2 DEF Unworn, Store!vars, CurrentOk, Powered, NothingSaved,
                              SavedIsLatest, SavedIsBlank
    <2>6. DownOk'
      BY <1>3, <1>4, <2>1, <2>3, FoundIs DEF Unworn, Store!vars, DownOk
    <2>. QED  BY <2>4, <2>5, <2>6 DEF Unworn
  <1>. QED  BY <1>1, <1>3, <1>4, SaveBeginUnworn, SearchUnworn, WriteUnworn, VerifyUnworn,
               PowerLossUnworn, PowerUpUnworn DEF Store!Next

\* Whatever saves, losses of power and wrong writes come: as long as no erase
\* block is worn out, a start finds the block that was saved last or the one
\* being saved, and parameters_get answers with the one saved last.
THEOREM ParametersSurvive ==
  Store!ParametersAssumption => (Store!Spec => [](Store!TypeOK /\ Store!Durable /\ Store!GetsSaved))
  <1>. SUFFICES ASSUME Store!ParametersAssumption
                PROVE  Store!Spec => [](Store!TypeOK /\ Store!Durable /\ Store!GetsSaved)
    OBVIOUS
  <1>1. Store!Init => IInv
    BY UnwornInit
  <1>2. IInv /\ [Store!Next]_(Store!vars) => IInv'
    BY IInvStep
  <1>3. IInv => Store!TypeOK /\ Store!Durable /\ Store!GetsSaved
    BY InvariantIsDurable, InvariantGetsSaved DEF IInv
  <1>. QED  BY <1>1, <1>2, <1>3, PTL DEF Store!Spec

-----------------------------------------------------------------------------
(* The store next to the other parts                                       *)

\* A step of the composition is one of the store, or leaves it alone.
LEMMA StepOfStore == [Next]_vars => [Store!Next]_(Store!vars)
  <1>. SUFFICES ASSUME [Next]_vars PROVE [Store!Next]_(Store!vars)
    OBVIOUS
  <1>1. CASE part # "store" /\ Others
    BY <1>1 DEF Others, storeVars, Store!vars
  <1>2. CASE UNCHANGED vars
    BY <1>2 DEF vars, storeVars, Store!vars
  <1>. QED  BY <1>1, <1>2 DEF Next

\* Of the parameter block, next to the other parts: whatever saves, losses of
\* power and wrong writes come, a start finds the block that was saved last or
\* the one being saved, and parameters_get answers with the one saved last.
THEOREM StoreSurvives == Spec => []StoreSound
  <1>1. Init => IInv
    BY PartsAssumption, UnwornInit DEF Init
  <1>2. IInv /\ [Next]_vars => IInv'
    BY PartsAssumption, StepOfStore, IInvStep
  <1>3. IInv => StoreSound
    BY PartsAssumption, InvariantIsDurable, InvariantGetsSaved DEF IInv, StoreSound
  <1>. QED  BY <1>1, <1>2, <1>3, PTL DEF Spec

-----------------------------------------------------------------------------
(* The radio MAC                                                           *)

(* What the radio's promises need of the clock, the channel and the main   *)
(* loop.  The hook that assesses the channel is given, which init does not *)
(* ask for; every packet is announced; an event waits, and the parser runs,*)
(* for less time than lies between two packets and than a packet or the    *)
(* inter-frame space lasts; the bus stays locked for at least a packet and *)
(* the time its end may wait in the queue.                                 *)
Timely ==
  /\ ~ ShortPackets /\ Assesses
  /\ PollPeriod < Gap /\ PollPeriod + ParseTicks <= Gap /\ ParseTicks < Difs
  /\ PollPeriod + 2 <= AirTicks /\ ParseTicks < AirTicks
  /\ AirTicks + PollPeriod <= Bbte
  /\ \E n \in Retrans : \A m \in Retrans : m <= n

\* What is assumed of the constants, one by one.
LEMMA RadioConstants ==
  /\ Difs \in Nat /\ Difs > 0 /\ Bbte \in Nat /\ Bbte > 0 /\ MaxBackoff \in Nat /\ MaxBackoff > 0
  /\ AirTicks \in Nat /\ AirTicks > 0 /\ Gap \in Nat /\ Gap <= Difs /\ PollPeriod \in Nat
  /\ ParseTicks \in Nat /\ MaxReplies \in Nat /\ MaxPackets \in Nat
  BY PartsAssumption DEF Radio!RadioAssumption
LEMMA Corners ==
  /\ 0 \in 0 .. Difs /\ Difs \in 0 .. Difs /\ 0 \in 0 .. Bbte /\ Bbte \in 0 .. Bbte
  /\ 0 \in 0 .. AirTicks /\ AirTicks \in 0 .. AirTicks /\ 0 \in 0 .. MaxPackets /\ 0 \in 0 .. MaxBackoff
  BY RadioConstants
LEMMA RetransAre == \A m \in Retrans : m \in Nat
  BY PartsAssumption DEF Radio!RadioAssumption

LEMMA MostRetrans ==
  ASSUME Timely
  PROVE  /\ Radio!MaxRetrans \in Retrans /\ Radio!MaxRetrans \in Nat
         /\ \A m \in Retrans : m <= Radio!MaxRetrans
  <1>1. Radio!MaxRetrans \in Retrans /\ \A m \in Retrans : m <= Radio!MaxRetrans
    BY DEF Timely, Radio!MaxRetrans
  <1>. QED  BY <1>1, RetransAre

\* The types of the variables.
Buses == [state : {"idle", "busy"}, difs : 0 .. Difs, backoff : 0 .. MaxBackoff,
          timeout : 0 .. Bbte]
Transmits == [state : {"idle", "ready", "wait_post", "busy", "wait_ack"}, pos : 0 .. 1,
              count : 0 .. Radio!MaxRetrans, max : Retrans \union {0}]
Mains == [pc : {"loop", "parsing", "direct"}, parsed : SUBSET (1 .. MaxPackets),
          answer : BOOLEAN, replies : 0 .. MaxReplies]
Peers == [id : 0 .. MaxPackets, ticks : 0 .. AirTicks, announced : Radio!Events \union {"no"}]
IsBus(b) == b \in Buses /\ (b.state = "busy" <=> b.timeout > 0)
IsTransmit(t) == t \in Transmits /\ (t.pos = 0 <=> t.state = "idle")
AirTypes ==
  /\ rx \subseteq 1 .. MaxPackets /\ fifo \subseteq 1 .. MaxPackets
  /\ own \in 0 .. AirTicks /\ silence \in 0 .. Difs
  /\ waited \in Nat /\ packets \in 0 .. MaxPackets
  /\ overlap \in BOOLEAN /\ aborted \in BOOLEAN
RadioTypes == IsBus(bus) /\ IsTransmit(tx) /\ rsp \in {"idle", "ready", "busy"}
              /\ events \in Seq(Radio!Events) /\ main \in Mains /\ peer \in Peers /\ AirTypes

LEMMA RadioTypesAre == Radio!TypeOK <=> RadioTypes
  BY DEF Radio!TypeOK, RadioTypes, IsBus, IsTransmit, AirTypes, Buses, Transmits, Mains, Peers

LEMMA RadioTypeInit == Timely /\ Radio!Init => RadioTypes
  <1>. SUFFICES ASSUME Timely, Radio!Init PROVE RadioTypes
    OBVIOUS
  <1>1. IsBus(bus)
    BY RadioConstants DEF Radio!Init, IsBus, Buses
  <1>2. IsTransmit(tx)
    BY RadioConstants, MostRetrans DEF Radio!Init, Radio!IdleTx, IsTransmit, Transmits
  <1>3. main \in Mains /\ peer \in Peers
    BY RadioConstants DEF Radio!Init, Radio!Loop, Radio!NoPeer, Mains, Peers
  <1>4. events \in Seq(Radio!Events)
    BY DEF Radio!Init
  <1>5. AirTypes /\ rsp \in {"idle", "ready", "busy"}
    <2>1. /\ rx = {} /\ fifo = {} /\ own = 0 /\ silence = Difs /\ waited = 0 /\ packets = 0
          /\ overlap = FALSE /\ aborted = FALSE /\ rsp = "idle"
      BY DEF Radio!Init
    <2>. QED  BY <2>1, Corners DEF AirTypes
  <1>. QED  BY <1>1, <1>2, <1>3, <1>4, <1>5 DEF RadioTypes

\* What locking and unlocking the bus, and starting difs again, make of it.
LEMMA LockedIs ==
  ASSUME IsBus(bus)
  PROVE  /\ IsBus(Radio!Locked(bus)) /\ Radio!Locked(bus).state = "busy"
         /\ Radio!Locked(bus).difs = Difs /\ Radio!Locked(bus).timeout = Bbte
         /\ Radio!Locked(bus).backoff = bus.backoff
  <1>1. Radio!Locked(bus) = [bus EXCEPT !.state = "busy", !.difs = Difs, !.timeout = Bbte]
    BY DEF Radio!Locked
  <1>. DEFINE c == Radio!Locked(bus)
  <1>2. c.state = "busy" /\ c.difs = Difs /\ c.timeout = Bbte /\ c.backoff = bus.backoff
    BY <1>1 DEF IsBus, Buses
  <1>3. c \in Buses
    BY <1>1, Corners DEF IsBus, Buses
  <1>. QED  BY <1>2, <1>3, RadioConstants DEF IsBus

LEMMA UnlockedIs ==
  ASSUME IsBus(bus)
  PROVE  /\ IsBus(Radio!Unlocked(bus)) /\ Radio!Unlocked(bus).state = "idle"
         /\ Radio!Unlocked(bus).difs = bus.difs /\ Radio!Unlocked(bus).timeout = 0
  <1>1. Radio!Unlocked(bus) = [bus EXCEPT !.state = "idle", !.timeout = 0]
    BY DEF Radio!Unlocked
  <1>. DEFINE c == Radio!Unlocked(bus)
  <1>2. c.state = "idle" /\ c.difs = bus.difs /\ c.timeout = 0
    BY <1>1 DEF IsBus, Buses
  <1>3. c \in Buses
    BY <1>1, Corners DEF IsBus, Buses
  <1>. QED  BY <1>2, <1>3 DEF IsBus

LEMMA DifsAgainIs ==
  ASSUME IsBus(bus)
  PROVE  LET b == [bus EXCEPT !.difs = Difs]
         IN  IsBus(b) /\ b.state = bus.state /\ b.difs = Difs /\ b.timeout = bus.timeout
  BY RadioConstants DEF IsBus, Buses

LEMMA EventsTaken ==
  ASSUME NEW e, Radio!Take(e), events \in Seq(Radio!Events)
  PROVE  events' \in Seq(Radio!Events) /\ waited' = 0
  BY HeadTailProperties DEF Radio!Take
LEMMA EventsPosted ==
  ASSUME NEW e \in Radio!Events, events \in Seq(Radio!Events), events' = Append(events, e)
  PROVE  events' \in Seq(Radio!Events)
  BY AppendProperties

\* What the tick makes of the bus, the transmitter and the events.
BusTicked == \/ bus' = bus
             \/ /\ bus.state = "busy" /\ tx.state # "wait_post" /\ bus.timeout > 1
                /\ bus'.state = "busy" /\ bus'.difs = bus.difs /\ bus'.timeout = bus.timeout - 1
             \/ /\ bus.state = "busy" /\ tx.state # "wait_post" /\ bus.timeout = 1
                /\ bus'.state = "idle" /\ bus'.difs = bus.difs

LEMMA TickBusyIs ==
  ASSUME IsBus(bus), Radio!TickBusy
  PROVE  /\ IsBus(bus') /\ BusTicked /\ bus.state = "busy"
         /\ tx' = tx /\ rsp' = rsp /\ events' = events
  <1>1. CASE tx.state = "wait_post"
    BY <1>1 DEF Radio!TickBusy, Radio!BusyBus, BusTicked
  <1>2. CASE tx.state # "wait_post" /\ bus.timeout = 1
    BY <1>2, UnlockedIs DEF Radio!TickBusy, Radio!BusyBus, BusTicked
  <1>3. CASE tx.state # "wait_post" /\ bus.timeout # 1
    <2>1. bus' = [bus EXCEPT !.timeout = @ - 1] /\ bus.timeout > 1
      BY <1>3, RadioConstants DEF Radio!TickBusy, Radio!BusyBus, IsBus, Buses
    <2>. QED  BY <1>3, <2>1, RadioConstants DEF Radio!TickBusy, IsBus, Buses, BusTicked
  <1>. QED  BY <1>1, <1>2, <1>3

LEMMA RetriedIs ==
  ASSUME Timely, IsTransmit(tx), Radio!Contends
  PROVE  /\ IsTransmit(Radio!Retried) /\ Radio!Retried.state = "ready"
         /\ IsTransmit([Radio!Retried EXCEPT !.state = "wait_post"])
         /\ [Radio!Retried EXCEPT !.state = "wait_post"].state = "wait_post"
  <1>1. tx.state \in {"ready", "wait_ack"} /\ tx \in Transmits
    BY DEF Radio!Contends, Radio!Listens, IsTransmit
  <1>2. CASE tx.state = "wait_ack"
    <2>1. tx.count + 1 \in 0 .. Radio!MaxRetrans
      <3>1. tx.count < tx.max /\ tx.count \in Nat /\ tx.max \in Retrans \union {0}
        <4>1. tx.count \in 0 .. Radio!MaxRetrans /\ tx.max \in Retrans \union {0}
          BY <1>1 DEF Transmits
        <4>2. tx.count \in Nat /\ tx.max \in Nat
          BY <4>1, RetransAre, MostRetrans
        <4>3. ~ (tx.count >= tx.max)
          BY <1>2 DEF Radio!Contends, Radio!GivesUp
        <4>. QED  BY <4>1, <4>2, <4>3
      <3>2. tx.max <= Radio!MaxRetrans /\ tx.max \in Nat
        BY <3>1, RetransAre, MostRetrans
      <3>. QED  BY <3>1, <3>2, MostRetrans
    <2>2. Radio!Retried = [tx EXCEPT !.count = @ + 1, !.state = "ready"]
      BY <1>2 DEF Radio!Retried
    <2>. QED  BY <1>1, <1>2, <2>1, <2>2 DEF IsTransmit, Transmits
  <1>3. CASE tx.state = "ready"
    <2>1. Radio!Retried = tx
      BY <1>3 DEF Radio!Retried
    <2>. QED  BY <1>1, <1>3, <2>1 DEF IsTransmit, Transmits
  <1>. QED  BY <1>1, <1>2, <1>3

LEMMA AfterDifsIs ==
  ASSUME IsBus(bus), Radio!DifsOver
  PROVE  /\ IsBus(Radio!AfterDifs) /\ Radio!AfterDifs.state = bus.state
         /\ Radio!AfterDifs.difs = 0 /\ bus.difs <= 1
         /\ \A b \in 0 .. MaxBackoff :
              LET c == [Radio!AfterDifs EXCEPT !.backoff = b]
              IN  IsBus(c) /\ c.state = bus.state /\ c.difs = 0
  <1>. DEFINE a == Radio!AfterDifs
  <1>1. a = [bus EXCEPT !.difs = 0]
    BY DEF Radio!AfterDifs
  <1>2. a \in Buses /\ a.state = bus.state /\ a.difs = 0 /\ a.timeout = bus.timeout
    BY <1>1, RadioConstants DEF IsBus, Buses
  <1>3. bus.difs <= 1
    BY RadioConstants DEF Radio!DifsOver
  <1>. HIDE DEF a
  <1>4. ASSUME NEW b \in 0 .. MaxBackoff
        PROVE  LET c == [a EXCEPT !.backoff = b]
               IN  IsBus(c) /\ c.state = bus.state /\ c.difs = 0
    <2>. DEFINE c == [a EXCEPT !.backoff = b]
    <2>1. c \in Buses /\ c.state = a.state /\ c.difs = a.difs /\ c.timeout = a.timeout
      BY <1>2, <1>4 DEF Buses
    <2>. QED  BY <1>2, <2>1 DEF IsBus
  <1>5. IsBus(a)
    BY <1>2 DEF IsBus
  <1>. QED  BY <1>2, <1>3, <1>4, <1>5 DEF a

-----------------------------------------------------------------------------
(* The inductive invariant.  Two events at most wait in the queue, and what *)
(* they are tells how far the two ends of the channel are: who is on the   *)
(* air, for how long yet, and what the bus, the transmitter and the        *)
(* responder are about to do.                                              *)

First == IF events = << >> THEN "none" ELSE events[1]
Second == IF Len(events) < 2 THEN "none" ELSE events[2]

Announces == {"RECEIVING", "BUS_TRY_LOCK"}
Endings == {"RECEIVED", "BUS_TRY_UNLOCK"}
Sends == {"RESPONDER_READY", "TRANSMITTER_READY"}

\* Which event can follow which.
QueueInv ==
  /\ Len(events) <= 2
  /\ First = "none" => Second = "none"
  /\ First \in Announces => Second \in Endings \union {"none"}
  /\ First \in Sends => Second \in Announces \union {"none"}
  /\ First \in Endings \union {"TRANSMITTED"} => Second = "none"

Polls == main.pc = "loop"
NoneOnAir == own = 0 /\ peer.id = 0

\* While the station sends, the bus is locked, and longer than the packet lasts; an
\* event that waits has waited since the packet began.
OwnInv == own > 0 =>
  /\ peer.id = 0
  /\ First \in Announces \union {"none"} /\ Second = "none"
  /\ bus.state = "busy" /\ bus.timeout >= own + PollPeriod
  /\ First # "none" \/ ~ Polls => own + waited >= AirTicks
  /\ First # "none" /\ ~ Polls => own = AirTicks

\* The packet of another station is announced by its second tick; once the station
\* has seen that, the bus is locked for longer than the packet lasts.
PeerInv == peer.id # 0 =>
  /\ peer.ticks > 0
  /\ ~ Polls => waited >= ParseTicks /\ peer.ticks = AirTicks
  /\ peer.announced = "no" => /\ peer.ticks + 1 >= AirTicks
                              /\ First \in Sends \union {"none"} /\ Second = "none"
  /\ peer.announced # "no" =>
       /\ peer.announced \in Announces
       /\ \/ First = peer.announced /\ Second = "none"
          \/ First \in Sends /\ Second = peer.announced
          \/ First = "none" /\ bus.state = "busy" /\ bus.timeout >= peer.ticks + PollPeriod
  /\ First \in Sends => peer.ticks + waited >= AirTicks
  /\ First \in Announces => peer.ticks + waited + 1 >= AirTicks

\* How long the first event has waited, and what it says of the channel: an
\* announcement is of a packet on the air, or of one that has just ended; after the
\* end of a packet the bus is still locked and the channel silent since.
WaitInv ==
  /\ Polls /\ First # "none" => waited <= PollPeriod
  /\ Polls /\ First = "none" => waited = 0
  /\ First \in Announces => /\ own > 0 \/ peer.id # 0 \/ Second # "none"
                            /\ ~ Polls => waited >= ParseTicks
  /\ First \in Sends /\ Second # "none" => peer.id # 0
  /\ First \in Announces /\ Second # "none" => NoneOnAir /\ Polls /\ waited >= PollPeriod /\ silence = 0
  /\ First \in Endings => /\ NoneOnAir /\ Polls /\ silence <= waited
                          /\ bus.state = "busy" /\ bus.timeout + waited > PollPeriod
  /\ First = "TRANSMITTED" =>
       /\ NoneOnAir /\ bus.state = "busy"
       /\ Polls => silence <= waited /\ bus.timeout + waited > PollPeriod
       /\ ~ Polls => waited >= ParseTicks /\ silence = 0 /\ bus.timeout > PollPeriod

\* A send that waits in the queue finds nothing of its own on the air: the message's
\* has locked the bus, and the reply's waits for less than the inter-frame space.
SendInv ==
  /\ tx.state = "wait_post" <=> First = "TRANSMITTER_READY"
  /\ rsp = "busy" <=> First = "RESPONDER_READY"
  /\ First = "TRANSMITTER_READY" =>
       Polls /\ own = 0 /\ bus.state = "busy" /\ bus.timeout = Bbte /\ rsp = "idle"
  /\ First = "RESPONDER_READY" =>
       Polls /\ own = 0 /\ bus.state = "idle" /\ bus.difs + waited >= Difs
  /\ rsp = "ready" => \/ own > 0 \/ First = "TRANSMITTED"
                      \/ /\ First = "none" /\ Polls /\ NoneOnAir
                         /\ bus.state = "idle" /\ bus.difs = Difs /\ silence <= PollPeriod

\* While the parser runs the bus is locked only by a send of its own, so that a
\* reply that looks at an idle bus can be sent.
ParseInv == ~ Polls =>
  /\ waited <= ParseTicks
  /\ First \in Announces \union {"none", "TRANSMITTED"}
  /\ NoneOnAir /\ First = "none" => silence <= PollPeriod + waited
  /\ bus.state = "idle" => /\ rsp = "idle" /\ own = 0 /\ First # "TRANSMITTED"
                           /\ bus.difs + waited >= Difs
  /\ bus.state = "busy" => own > 0 \/ First = "TRANSMITTED"
  /\ main.pc = "direct" => bus.state = "idle"

\* The ticks the inter-frame space has run are ticks of a silent channel.
SilenceInv ==
  /\ bus.state = "busy" => bus.difs = Difs
  /\ bus.state = "idle" /\ NoneOnAir /\ Second \notin Endings => bus.difs + silence >= Difs

\* The bytes held, in the radio or read from it, are of one packet, that on the air
\* or that whose end waits in the queue.
PacketWaits == First = "RECEIVED" \/ Second = "RECEIVED"
Held == rx \union fifo
BytesInv == ~ aborted =>
  /\ ~ Polls => Cardinality(main.parsed) = 1
  /\ peer.id # 0 => Held = IF peer.announced = "RECEIVING" THEN {peer.id} ELSE {}
  /\ peer.id = 0 => IF PacketWaits THEN \E id \in 1 .. MaxPackets : Held = {id} ELSE Held = {}

NoPeerInv == peer.id = 0 => peer.ticks = 0

RadioInv == /\ QueueInv /\ OwnInv /\ PeerInv /\ WaitInv /\ SendInv /\ ParseInv /\ SilenceInv
            /\ BytesInv /\ NoPeerInv /\ Radio!OneOnAir

-----------------------------------------------------------------------------
(* The numbers, and the queue through its first two events                 *)

LEMMA TimelyIs ==
  ASSUME Timely
  PROVE  /\ PollPeriod < Gap /\ PollPeriod + ParseTicks <= Gap /\ ParseTicks < Difs /\ Gap <= Difs
         /\ PollPeriod + 2 <= AirTicks /\ ParseTicks < AirTicks /\ AirTicks + PollPeriod <= Bbte
         /\ ParseTicks \in Nat /\ PollPeriod \in Nat /\ AirTicks \in Nat /\ Gap \in Nat
         /\ Difs \in Nat /\ Bbte \in Nat
  BY RadioConstants DEF Timely

LEMMA RadioNumbers ==
  ASSUME RadioTypes
  PROVE  /\ own \in Nat /\ own <= AirTicks /\ waited \in Nat
         /\ silence \in Nat /\ silence <= Difs
         /\ peer.ticks \in Nat /\ peer.ticks <= AirTicks /\ peer.id \in Nat
         /\ bus.difs \in Nat /\ bus.difs <= Difs /\ bus.timeout \in Nat /\ bus.timeout <= Bbte
         /\ bus.state \in {"idle", "busy"} /\ (bus.state = "busy" <=> bus.timeout > 0)
         /\ main.pc \in {"loop", "parsing", "direct"} /\ rsp \in {"idle", "ready", "busy"}
  BY RadioConstants DEF RadioTypes, AirTypes, IsBus, Buses, Peers, Mains

\* The queue in terms of its first two events.
LEMMA QueueIs ==
  ASSUME NEW q, q \in Seq(Radio!Events)
  PROVE  /\ Len(q) \in Nat /\ (q = << >> <=> Len(q) = 0)
         /\ \A i \in 1 .. Len(q) : q[i] \in Radio!Events /\ q[i] # "none"
  <1>1. /\ Len(q) \in Nat /\ (q = << >> <=> Len(q) = 0)
        /\ \A i \in 1 .. Len(q) : q[i] \in Radio!Events
    BY LenProperties, EmptySeq, ElementOfSeq
  <1>2. "none" \notin Radio!Events
    BY DEF Radio!Events
  <1>. QED  BY <1>1, <1>2

LEMMA QueueTaken ==
  ASSUME RadioTypes, QueueInv, NEW e, Radio!Take(e)
  PROVE  /\ First = e /\ First' = Second /\ Second' = "none" /\ Len(events') <= 2
         /\ events' \in Seq(Radio!Events) /\ waited' = 0 /\ main.pc = "loop"
  <1>1. /\ events \in Seq(Radio!Events) /\ events # << >> /\ Head(events) = e
        /\ events' = Tail(events) /\ waited' = 0 /\ main.pc = "loop" /\ Len(events) <= 2
    BY DEF RadioTypes, QueueInv, Radio!Take
  <1>. DEFINE q == Tail(events)
  <1>2. /\ q \in Seq(Radio!Events) /\ Len(q) = Len(events) - 1 /\ Head(events) = events[1]
        /\ \A i \in 1 .. Len(q) : q[i] = events[i + 1]
    BY <1>1, HeadTailProperties
  <1>. HIDE DEF q
  <1>3. /\ Len(events) \in Nat /\ Len(events) > 0 /\ Len(q) \in Nat /\ (q = << >> <=> Len(q) = 0)
    BY <1>1, <1>2, QueueIs
  <1>4. Len(q) = 1 => q[1] = events[2]
    <2>1. Len(q) = 1 => 1 \in 1 .. Len(q) /\ 1 + 1 = 2
      BY <1>3
    <2>. QED  BY <1>2, <2>1
  <1>5. First' = Second
    BY <1>1, <1>2, <1>3, <1>4 DEF First, Second, q
  <1>6. Second' = "none"
    BY <1>1, <1>2, <1>3 DEF Second, q
  <1>. QED  BY <1>1, <1>2, <1>3, <1>5, <1>6 DEF First, q

LEMMA QueuePosted ==
  ASSUME RadioTypes, QueueInv, NEW e \in Radio!Events, Second = "none", events' = Append(events, e)
  PROVE  /\ First = "none" => First' = e /\ Second' = "none"
         /\ First # "none" => First' = First /\ Second' = e
         /\ Len(events') <= 2 /\ events' \in Seq(Radio!Events)
  <1>1. events \in Seq(Radio!Events) /\ Len(events) <= 2
    BY DEF RadioTypes, QueueInv
  <1>. DEFINE q == Append(events, e)
  <1>2. /\ q \in Seq(Radio!Events) /\ Len(q) = Len(events) + 1 /\ q[Len(events) + 1] = e
        /\ \A i \in 1 .. Len(events) : q[i] = events[i]
    BY <1>1, AppendProperties
  <1>. HIDE DEF q
  <1>3. /\ Len(events) \in Nat /\ (events = << >> <=> Len(events) = 0)
        /\ \A i \in 1 .. Len(events) : events[i] # "none"
    BY <1>1, QueueIs
  <1>4. Len(events) < 2
    <2>1. Len(events) >= 2 => events[2] # "none"
      BY <1>3
    <2>. QED  BY <1>1, <1>3, <2>1 DEF Second
  <1>5. CASE Len(events) = 0
    BY <1>2, <1>3, <1>5 DEF First, Second, q
  <1>6. CASE Len(events) = 1
    <2>1. events[1] # "none" /\ q[1] = events[1] /\ q[2] = e /\ Len(q) = 2 /\ q # << >> /\ events # << >>
      BY <1>2, <1>3, <1>6, QueueIs
    <2>. QED  BY <1>2, <1>6, <2>1 DEF First, Second, q
  <1>7. Len(events) = 0 \/ Len(events) = 1
    <2>1. Len(events) \in Nat
      BY <1>3
    <2>2. \A n \in Nat : n < 2 => n = 0 \/ n = 1
      OBVIOUS
    <2>. QED  BY <1>4, <2>1, <2>2
  <1>8. Len(events') <= 2
    BY <1>2, <1>7 DEF q
  <1>9. Len(events) = 0 <=> First = "none"
    BY <1>3, <1>6, <1>7 DEF First
  <1>. QED  BY <1>2, <1>5, <1>6, <1>7, <1>8, <1>9 DEF q

LEMMA QueueSame ==
  ASSUME events' = events
  PROVE  First' = First /\ Second' = Second /\ Len(events') = Len(events)
  BY DEF First, Second

LEMMA FirstKinds ==
  ASSUME RadioTypes
  PROVE  First \in Sends \union Announces \union Endings \union {"TRANSMITTED", "none"}
  <1>1. /\ Len(events) \in Nat /\ (events = << >> <=> Len(events) = 0)
        /\ \A i \in 1 .. Len(events) : events[i] \in Radio!Events
    BY QueueIs DEF RadioTypes
  <1>2. CASE events = << >>
    BY <1>2 DEF First
  <1>3. CASE events # << >>
    <2>1. 1 \in 1 .. Len(events)
      BY <1>1, <1>3
    <2>. QED  BY <1>1, <1>3, <2>1 DEF First, Radio!Events, Sends, Announces, Endings
  <1>. QED  BY <1>2, <1>3

-----------------------------------------------------------------------------
(* The main loop: one lemma per event, and one per call of the application  *)

LEMMA PollReceivedKeeps ==
  ASSUME Timely, RadioTypes, RadioInv, Radio!PollReceived
  PROVE  RadioTypes' /\ RadioInv'
  <1>1. /\ First = "RECEIVED" /\ First' = Second /\ Second' = "none" /\ Len(events') <= 2
        /\ events' \in Seq(Radio!Events) /\ waited' = 0 /\ main.pc = "loop"
    BY QueueTaken DEF Radio!PollReceived, RadioInv
  <1>2. IsBus(bus') /\ bus'.state = "idle" /\ bus'.difs = bus.difs /\ bus'.timeout = 0
    BY UnlockedIs DEF Radio!PollReceived, RadioTypes
  <1>3. UNCHANGED <<tx, rsp, own, peer, packets, overlap, aborted, silence>>
    BY DEF Radio!PollReceived, Radio!airVars
  <1>4. /\ Held = {} => main' = main /\ rx' = rx
        /\ Held # {} => main' \in Mains /\ main'.pc = "parsing" /\ main'.parsed = Held /\ rx' = {}
        /\ fifo' = {}
    <2>1. Held # {} => main' = Radio!Parsing(Held) /\ rx' = {}
      BY DEF Radio!PollReceived, Held, Radio!RestOfBuffer
    <2>2. Held \subseteq 1 .. MaxPackets
      BY DEF RadioTypes, AirTypes, Held
    <2>3. Radio!Parsing(Held) \in Mains /\ Radio!Parsing(Held).pc = "parsing" /\ Radio!Parsing(Held).parsed = Held
      BY <2>2, RadioConstants DEF Radio!Parsing, Mains
    <2>. QED  BY <2>1, <2>3 DEF Radio!PollReceived, Held
  <1>5. RadioTypes'
    BY <1>1, <1>2, <1>3, <1>4 DEF RadioTypes, AirTypes
  <1>6. (QueueInv /\ OwnInv /\ PeerInv /\ WaitInv /\ SendInv /\ ParseInv /\ SilenceInv
         /\ NoPeerInv)'
    <2>1. QueueInv'
      BY <1>1 DEF RadioInv, QueueInv
    <2>2. OwnInv'
      BY <1>1, <1>3 DEF RadioInv, Announces, OwnInv
    <2>3. PeerInv'
      BY <1>1, <1>3 DEF RadioInv, Announces, Sends, PeerInv
    <2>4. WaitInv'
      BY <1>1 DEF RadioInv, Announces, Endings, WaitInv, QueueInv
    <2>5. SendInv'
      BY <1>1, <1>3 DEF RadioInv, Endings, SendInv, QueueInv
    <2>6. ParseInv'
      BY <1>1, <1>2, <1>3, TimelyIs, RadioNumbers DEF RadioInv, Endings, NoneOnAir, QueueInv,
         WaitInv, SendInv, ParseInv, SilenceInv
    <2>7. SilenceInv'
      BY <1>1, <1>2, <1>3, RadioNumbers DEF RadioInv, Endings, SilenceInv, WaitInv
    <2>8. NoPeerInv'
      BY <1>3 DEF RadioInv, NoPeerInv
    <2>. QED BY <2>1, <2>2, <2>3, <2>4, <2>5, <2>6, <2>7, <2>8
  <1>7. BytesInv'
    <2>. SUFFICES ASSUME ~ aborted PROVE BytesInv'
      BY <1>3 DEF BytesInv
    <2>1. NoneOnAir
      BY <1>1 DEF RadioInv, WaitInv, Endings
    <2>2. PICK id \in 1 .. MaxPackets : Held = {id}
      BY <1>1, <2>1 DEF RadioInv, BytesInv, PacketWaits, NoneOnAir
    <2>3. main'.parsed = {id} /\ Held' = {}
      BY <1>4, <2>2 DEF Held
    <2>4. Cardinality(main'.parsed) = 1
      BY <2>3, FS_Singleton
    <2>5. ~ PacketWaits'
      BY <1>1, <2>1 DEF PacketWaits, RadioInv, QueueInv, Endings
    <2>. QED  BY <1>3, <2>1, <2>3, <2>4, <2>5 DEF BytesInv, NoneOnAir
  <1>8. Radio!OneOnAir'
    BY <1>3 DEF RadioInv, Radio!OneOnAir
  <1>. QED  BY <1>5, <1>6, <1>7, <1>8 DEF RadioInv

LEMMA WaitsAckIs ==
  ASSUME IsTransmit(tx)
  PROVE  LET t == IF tx.state = "busy" THEN [tx EXCEPT !.state = "wait_ack"] ELSE tx
         IN  IsTransmit(t) /\ (t.state = "wait_post" <=> tx.state = "wait_post")
  BY DEF IsTransmit, Transmits

LEMMA BusyIs ==
  ASSUME IsTransmit(tx), tx.state = "wait_post"
  PROVE  IsTransmit([tx EXCEPT !.state = "busy"]) /\ [tx EXCEPT !.state = "busy"].state = "busy"
  BY DEF IsTransmit, Transmits

LEMMA ClearedIs ==
  ASSUME Timely
  PROVE  IsTransmit(Radio!IdleTx) /\ Radio!IdleTx.state = "idle"
  BY MostRetrans DEF IsTransmit, Transmits, Radio!IdleTx

LEMMA RadioPostIs ==
  ASSUME RadioTypes, Radio!RadioPost
  PROVE  /\ own' = AirTicks /\ peer' \in Peers /\ peer'.id = 0 /\ peer'.ticks = 0 /\ silence' = 0
         /\ aborted' = (aborted \/ peer.id # 0) /\ overlap' = (overlap \/ own > 0) /\ packets' = packets
         /\ fifo' = fifo \ {peer.id}
  BY Corners DEF Radio!RadioPost, Radio!NoPeer, Peers, RadioTypes, AirTypes

LEMMA PollReceivingKeeps ==
  ASSUME Timely, RadioTypes, RadioInv, Radio!PollReceiving
  PROVE  RadioTypes' /\ RadioInv'
  <1>1. /\ First = "RECEIVING" /\ First' = Second /\ Second' = "none" /\ Len(events') <= 2
        /\ events' \in Seq(Radio!Events) /\ waited' = 0 /\ main.pc = "loop"
    BY QueueTaken DEF Radio!PollReceiving, RadioInv
  <1>2. IsBus(bus') /\ bus'.state = "busy" /\ bus'.difs = Difs /\ bus'.timeout = Bbte
    BY LockedIs DEF Radio!PollReceiving, RadioTypes
  <1>3. UNCHANGED <<tx, rsp, main, own, peer, packets, overlap, aborted, silence>> /\ rx' = Held /\ fifo' = {}
    BY DEF Radio!PollReceiving, Radio!airVars, Held
  <1>4. rx' \subseteq 1 .. MaxPackets /\ Held' = Held
    BY <1>3 DEF RadioTypes, AirTypes, Held
  <1>5. /\ Bbte >= peer.ticks + PollPeriod /\ Bbte > PollPeriod
        /\ Second = "none" \/ (Second \in Endings /\ NoneOnAir /\ silence = 0)
    <2>1. Bbte >= peer.ticks + PollPeriod /\ Bbte > PollPeriod
      BY TimelyIs, RadioNumbers
    <2>2. Second = "none" \/ (Second \in Endings /\ NoneOnAir /\ silence = 0)
      BY <1>1 DEF RadioInv, QueueInv, WaitInv, Announces
    <2>. QED  BY <2>1, <2>2
  <1>6. RadioTypes'
    BY <1>1, <1>2, <1>3, <1>4, <1>5, RadioConstants, Corners DEF RadioTypes, AirTypes
  <1>7. (QueueInv /\ OwnInv /\ PeerInv /\ WaitInv /\ SendInv /\ ParseInv /\ SilenceInv
         /\ NoPeerInv)'
    <2>1. QueueInv'
      BY <1>1 DEF RadioInv, QueueInv
    <2>2. OwnInv'
      BY <1>1, <1>2, <1>3, TimelyIs, RadioNumbers DEF RadioInv, Polls, OwnInv
    <2>3. PeerInv'
      BY <1>1, <1>2, <1>3, <1>5 DEF RadioInv, Announces, Sends, Polls, PeerInv
    <2>4. WaitInv'
      BY <1>1, <1>2, <1>3, <1>5, TimelyIs DEF RadioInv, Announces, Endings, Polls, NoneOnAir,
         WaitInv
    <2>5. SendInv'
      BY <1>1, <1>3, <1>5 DEF RadioInv, Endings, SendInv
    <2>6. ParseInv'
      BY <1>1, <1>3 DEF RadioInv, Polls, ParseInv
    <2>7. SilenceInv'
      BY <1>2 DEF RadioInv, SilenceInv
    <2>8. NoPeerInv'
      BY <1>3 DEF RadioInv, NoPeerInv
    <2>. QED  BY <2>1, <2>2, <2>3, <2>4, <2>5, <2>6, <2>7, <2>8
  <1>8. BytesInv'
    BY <1>1, <1>3, <1>4 DEF RadioInv, BytesInv, PacketWaits, Polls
  <1>9. Radio!OneOnAir'
    BY <1>1, <1>2, <1>3, <1>4, <1>5 DEF RadioInv, Radio!OneOnAir
  <1>. QED  BY <1>6, <1>7, <1>8, <1>9 DEF RadioInv

LEMMA PollTryLockKeeps ==
  ASSUME Timely, RadioTypes, RadioInv, Radio!PollTryLock
  PROVE  RadioTypes' /\ RadioInv'
  <1>1. /\ First = "BUS_TRY_LOCK" /\ First' = Second /\ Second' = "none" /\ Len(events') <= 2
        /\ events' \in Seq(Radio!Events) /\ waited' = 0 /\ main.pc = "loop"
    BY QueueTaken DEF Radio!PollTryLock, RadioInv
  <1>2. IsBus(bus') /\ bus'.state = "busy" /\ bus'.difs = Difs /\ bus'.timeout = Bbte
    BY LockedIs DEF Radio!PollTryLock, RadioTypes
  <1>3. UNCHANGED <<tx, rsp, rx, fifo, main, own, peer, packets, overlap, aborted, silence>>
    BY DEF Radio!PollTryLock, Radio!airVars
  <1>4. /\ Bbte >= peer.ticks + PollPeriod /\ Bbte > PollPeriod
        /\ Second = "none" \/ (Second \in Endings /\ NoneOnAir /\ silence = 0)
    <2>1. Bbte >= peer.ticks + PollPeriod /\ Bbte > PollPeriod
      BY TimelyIs, RadioNumbers
    <2>2. Second = "none" \/ (Second \in Endings /\ NoneOnAir /\ silence = 0)
      BY <1>1 DEF RadioInv, QueueInv, WaitInv, Announces
    <2>. QED  BY <2>1, <2>2
  <1>5. RadioTypes'
    BY <1>1, <1>2, <1>3, <1>4, RadioConstants, Corners DEF RadioTypes, AirTypes
  <1>6. (QueueInv /\ OwnInv /\ PeerInv /\ WaitInv /\ SendInv /\ ParseInv /\ SilenceInv
         /\ NoPeerInv)'
    <2>1. QueueInv'
      BY <1>1 DEF RadioInv, QueueInv
    <2>2. OwnInv'
      BY <1>1, <1>2, <1>3, TimelyIs, RadioNumbers DEF RadioInv, Polls, OwnInv
    <2>3. PeerInv'
      BY <1>1, <1>2, <1>3, <1>4 DEF RadioInv, Announces, Sends, Polls, PeerInv
    <2>4. WaitInv'
      BY <1>1, <1>2, <1>3, <1>4, TimelyIs DEF RadioInv, Announces, Endings, Polls, NoneOnAir,
         WaitInv
    <2>5. SendInv'
      BY <1>1, <1>3, <1>4 DEF RadioInv, Endings, SendInv
    <2>6. ParseInv'
      BY <1>1, <1>3 DEF RadioInv, Polls, ParseInv
    <2>7. SilenceInv'
      BY <1>2 DEF RadioInv, SilenceInv
    <2>8. NoPeerInv'
      BY <1>3 DEF RadioInv, NoPeerInv
    <2>. QED  BY <2>1, <2>2, <2>3, <2>4, <2>5, <2>6, <2>7, <2>8
  <1>7. BytesInv'
    BY <1>1, <1>3 DEF RadioInv, BytesInv, PacketWaits, Polls, Held
  <1>8. Radio!OneOnAir'
    BY <1>1, <1>2, <1>3, <1>4 DEF RadioInv, Radio!OneOnAir
  <1>. QED  BY <1>5, <1>6, <1>7, <1>8 DEF RadioInv

LEMMA PollTryUnlockKeeps ==
  ASSUME Timely, RadioTypes, RadioInv, Radio!PollTryUnlock
  PROVE  RadioTypes' /\ RadioInv'
  <1>1. /\ First = "BUS_TRY_UNLOCK" /\ First' = Second /\ Second' = "none" /\ Len(events') <= 2
        /\ events' \in Seq(Radio!Events) /\ waited' = 0 /\ main.pc = "loop"
    BY QueueTaken DEF Radio!PollTryUnlock, RadioInv
  <1>2. IsBus(bus') /\ bus'.state = "idle" /\ bus'.difs = bus.difs /\ bus'.timeout = 0
    BY UnlockedIs DEF Radio!PollTryUnlock, RadioTypes
  <1>3. UNCHANGED <<tx, rsp, rx, fifo, main, own, peer, packets, overlap, aborted, silence>>
    BY DEF Radio!PollTryUnlock, Radio!airVars
  <1>4. RadioTypes'
    BY <1>1, <1>2, <1>3, RadioConstants, Corners DEF RadioTypes, AirTypes
  <1>5. (QueueInv /\ OwnInv /\ PeerInv /\ WaitInv /\ SendInv /\ ParseInv /\ SilenceInv
         /\ NoPeerInv)'
    <2>1. QueueInv'
      BY <1>1 DEF RadioInv, QueueInv
    <2>2. OwnInv'
      BY <1>1, <1>3 DEF RadioInv, Announces, OwnInv
    <2>3. PeerInv'
      BY <1>1, <1>3 DEF RadioInv, Announces, Sends, PeerInv
    <2>4. WaitInv'
      BY <1>1 DEF RadioInv, Announces, Endings, WaitInv, QueueInv
    <2>5. SendInv'
      BY <1>1, <1>3 DEF RadioInv, Endings, SendInv, QueueInv
    <2>6. ParseInv'
      BY <1>1, <1>3 DEF RadioInv, Polls, ParseInv
    <2>7. SilenceInv'
      BY <1>1, <1>2, <1>3, RadioNumbers DEF RadioInv, Endings, SilenceInv, WaitInv
    <2>8. NoPeerInv'
      BY <1>3 DEF RadioInv, NoPeerInv
    <2>. QED  BY <2>1, <2>2, <2>3, <2>4, <2>5, <2>6, <2>7, <2>8
  <1>6. BytesInv'
    BY <1>1, <1>3 DEF RadioInv, BytesInv, PacketWaits, Polls, Held
  <1>7. Radio!OneOnAir'
    BY <1>1, <1>2, <1>3 DEF RadioInv, Radio!OneOnAir
  <1>. QED  BY <1>4, <1>5, <1>6, <1>7 DEF RadioInv

LEMMA PollTransmittedKeeps ==
  ASSUME Timely, RadioTypes, RadioInv, Radio!PollTransmitted
  PROVE  RadioTypes' /\ RadioInv'
  <1>1. /\ First = "TRANSMITTED" /\ First' = Second /\ Second' = "none" /\ Len(events') <= 2
        /\ events' \in Seq(Radio!Events) /\ waited' = 0 /\ main.pc = "loop"
    BY QueueTaken DEF Radio!PollTransmitted, RadioInv
  <1>2. IsBus(bus') /\ bus'.state = "idle" /\ bus'.difs = bus.difs /\ bus'.timeout = 0
    BY UnlockedIs DEF Radio!PollTransmitted, RadioTypes
  <1>3. IsTransmit(tx') /\ (tx'.state = "wait_post" <=> tx.state = "wait_post")
    BY WaitsAckIs DEF Radio!PollTransmitted, RadioTypes
  <1>4. UNCHANGED <<rsp, rx, fifo, main, own, peer, packets, overlap, aborted, silence>>
    BY DEF Radio!PollTransmitted, Radio!airVars
  <1>5. RadioTypes'
    BY <1>1, <1>2, <1>3, <1>4, RadioConstants, Corners DEF RadioTypes, AirTypes
  <1>6. (QueueInv /\ OwnInv /\ PeerInv /\ WaitInv /\ SendInv /\ ParseInv /\ SilenceInv
         /\ NoPeerInv)'
    <2>1. QueueInv'
      BY <1>1 DEF RadioInv, QueueInv
    <2>2. OwnInv'
      BY <1>1, <1>4 DEF RadioInv, Announces, OwnInv
    <2>3. PeerInv'
      BY <1>1, <1>4 DEF RadioInv, Announces, Sends, PeerInv
    <2>4. WaitInv'
      BY <1>1 DEF RadioInv, Announces, Endings, WaitInv, QueueInv
    <2>5. SendInv'
      BY <1>1, <1>2, <1>3, <1>4, TimelyIs, RadioNumbers DEF RadioInv, Polls, NoneOnAir, QueueInv,
         WaitInv, SendInv, SilenceInv
    <2>6. ParseInv'
      BY <1>1, <1>4 DEF RadioInv, Polls, ParseInv
    <2>7. SilenceInv'
      BY <1>1, <1>2, <1>4, RadioNumbers DEF RadioInv, SilenceInv, WaitInv
    <2>8. NoPeerInv'
      BY <1>4 DEF RadioInv, NoPeerInv
    <2>. QED  BY <2>1, <2>2, <2>3, <2>4, <2>5, <2>6, <2>7, <2>8
  <1>7. BytesInv'
    BY <1>1, <1>4 DEF RadioInv, BytesInv, PacketWaits, Polls, Held
  <1>8. Radio!OneOnAir'
    BY <1>1, <1>2, <1>3, <1>4 DEF RadioInv, Radio!OneOnAir
  <1>. QED  BY <1>5, <1>6, <1>7, <1>8 DEF RadioInv

LEMMA PollTransmitterReadyKeeps ==
  ASSUME Timely, RadioTypes, RadioInv, Radio!PollTransmitterReady
  PROVE  RadioTypes' /\ RadioInv'
  <1>1. /\ First = "TRANSMITTER_READY" /\ First' = Second /\ Second' = "none" /\ Len(events') <= 2
        /\ events' \in Seq(Radio!Events) /\ waited' = 0 /\ main.pc = "loop"
    BY QueueTaken DEF Radio!PollTransmitterReady, RadioInv
  <1>2. IsBus(bus') /\ bus'.state = bus.state /\ bus'.difs = Difs /\ bus'.timeout = bus.timeout
    BY DifsAgainIs DEF Radio!PollTransmitterReady, RadioTypes
  <1>3. IsTransmit(tx') /\ tx'.state = "busy"
    BY <1>1, BusyIs DEF Radio!PollTransmitterReady, RadioTypes, RadioInv, SendInv
  <1>4. /\ own' = AirTicks /\ peer' \in Peers /\ peer'.id = 0 /\ peer'.ticks = 0 /\ silence' = 0
        /\ aborted' = (aborted \/ peer.id # 0) /\ overlap' = (overlap \/ own > 0) /\ packets' = packets
        /\ fifo' = fifo \ {peer.id}
    BY RadioPostIs DEF Radio!PollTransmitterReady
  <1>5. UNCHANGED <<rsp, rx, main>>
    BY DEF Radio!PollTransmitterReady
  <1>6. RadioTypes'
    BY <1>1, <1>2, <1>3, <1>4, <1>5, RadioConstants, Corners DEF RadioTypes, AirTypes
  <1>7. (QueueInv /\ OwnInv /\ PeerInv /\ WaitInv /\ SendInv /\ ParseInv /\ SilenceInv
         /\ NoPeerInv)'
    <2>1. QueueInv'
      BY <1>1 DEF RadioInv, QueueInv
    <2>2. OwnInv'
      BY <1>1, <1>2, <1>4, TimelyIs DEF RadioInv, Sends, OwnInv, PeerInv, WaitInv, SendInv
    <2>3. PeerInv'
      BY <1>4 DEF RadioInv, PeerInv
    <2>4. WaitInv'
      BY <1>1, <1>4, <1>5, TimelyIs DEF RadioInv, Announces, Endings, Sends, Polls, WaitInv, PeerInv
    <2>5. SendInv'
      BY <1>1, <1>3, <1>5 DEF RadioInv, Announces, Sends, SendInv, QueueInv
    <2>6. ParseInv'
      BY <1>1, <1>5 DEF RadioInv, Polls, ParseInv
    <2>7. SilenceInv'
      BY <1>2, <1>4, TimelyIs DEF RadioInv, SilenceInv
    <2>8. NoPeerInv'
      BY <1>4 DEF RadioInv, NoPeerInv
    <2>. QED  BY <2>1, <2>2, <2>3, <2>4, <2>5, <2>6, <2>7, <2>8
  <1>8. BytesInv'
    <2>1. PacketWaits => PacketWaits'
      BY <1>1 DEF PacketWaits
    <2>. QED  BY <1>1, <1>4, <1>5 DEF RadioInv, QueueInv, BytesInv, PacketWaits, Held, Polls,
                 Sends, Announces, RadioTypes, AirTypes
  <1>9. Radio!OneOnAir'
    <2>1. own = 0
      BY <1>1, <1>2, <1>3, <1>4, <1>5 DEF RadioInv, SendInv
    <2>2. ~ (own > 0)
      BY <2>1
    <2>. QED  BY <1>1, <1>2, <1>3, <1>4, <1>5, <2>2 DEF RadioInv, Radio!OneOnAir
  <1>. QED  BY <1>6, <1>7, <1>8, <1>9 DEF RadioInv

LEMMA PollResponderReadyKeeps ==
  ASSUME Timely, RadioTypes, RadioInv, Radio!PollResponderReady
  PROVE  RadioTypes' /\ RadioInv'
  <1>1. /\ First = "RESPONDER_READY" /\ First' = Second /\ Second' = "none" /\ Len(events') <= 2
        /\ events' \in Seq(Radio!Events) /\ waited' = 0 /\ main.pc = "loop"
    BY QueueTaken DEF Radio!PollResponderReady, RadioInv
  <1>2. IsBus(bus') /\ bus'.state = "busy" /\ bus'.difs = Difs /\ bus'.timeout = Bbte
    BY LockedIs DEF Radio!PollResponderReady, Radio!SendNow, RadioTypes
  <1>3. IsTransmit(tx') /\ (tx'.state = "wait_post" <=> tx.state = "wait_post")
    BY WaitsAckIs DEF Radio!PollResponderReady, Radio!SendNow, RadioTypes
  <1>4. /\ own' = AirTicks /\ peer' \in Peers /\ peer'.id = 0 /\ peer'.ticks = 0 /\ silence' = 0
        /\ aborted' = (aborted \/ peer.id # 0) /\ overlap' = (overlap \/ own > 0) /\ packets' = packets
        /\ fifo' = fifo \ {peer.id}
    BY RadioPostIs DEF Radio!PollResponderReady, Radio!SendNow
  <1>5. rsp' = "idle" /\ UNCHANGED <<rx, main>>
    BY DEF Radio!PollResponderReady
  <1>6. Second \in Announces \union {"none"} /\ own' > 0
    BY <1>1, <1>4, TimelyIs DEF RadioInv, QueueInv, Sends
  <1>7. RadioTypes'
    BY <1>1, <1>2, <1>3, <1>4, <1>5, <1>6, RadioConstants, Corners DEF RadioTypes, AirTypes
  <1>8. (QueueInv /\ OwnInv /\ PeerInv /\ WaitInv /\ SendInv /\ ParseInv /\ SilenceInv
         /\ NoPeerInv)'
    <2>1. QueueInv'
      BY <1>1 DEF RadioInv, QueueInv
    <2>2. OwnInv'
      BY <1>1, <1>2, <1>4, <1>6, TimelyIs DEF RadioInv, OwnInv
    <2>3. PeerInv'
      BY <1>4 DEF RadioInv, PeerInv
    <2>4. WaitInv'
      BY <1>1, <1>5, <1>6, TimelyIs DEF RadioInv, Announces, Endings, Polls, WaitInv
    <2>5. SendInv'
      BY <1>1, <1>3, <1>5, <1>6 DEF RadioInv, Announces, SendInv
    <2>6. ParseInv'
      BY <1>1, <1>5 DEF RadioInv, Polls, ParseInv
    <2>7. SilenceInv'
      BY <1>2 DEF RadioInv, SilenceInv
    <2>8. NoPeerInv'
      BY <1>4 DEF RadioInv, NoPeerInv
    <2>. QED  BY <2>1, <2>2, <2>3, <2>4, <2>5, <2>6, <2>7, <2>8
  <1>9. BytesInv'
    BY <1>1, <1>4, <1>5 DEF RadioInv, QueueInv, BytesInv, PacketWaits, Held, Polls, Sends,
       Announces, RadioTypes, AirTypes
  <1>10. Radio!OneOnAir'
    <2>1. own = 0
      BY <1>1, <1>2, <1>3, <1>4, <1>5, <1>6 DEF RadioInv, SendInv
    <2>2. ~ (own > 0)
      BY <2>1
    <2>. QED  BY <1>1, <1>2, <1>3, <1>4, <1>5, <1>6, <2>2 DEF RadioInv, Radio!OneOnAir
  <1>. QED  BY <1>7, <1>8, <1>9, <1>10 DEF RadioInv

LEMMA DirectSendKeeps ==
  ASSUME Timely, RadioTypes, RadioInv, Radio!DirectSend
  PROVE  RadioTypes' /\ RadioInv'
  <1>1. First' = First /\ Second' = Second /\ Len(events') = Len(events) /\ events' = events
    BY QueueSame DEF Radio!DirectSend
  <1>2. main.pc = "direct" /\ main' \in Mains /\ main'.pc = "parsing" /\ main'.parsed = main.parsed
    BY DEF Radio!DirectSend, RadioTypes, Mains
  <1>3. IsBus(bus') /\ bus'.state = "busy" /\ bus'.difs = Difs /\ bus'.timeout = Bbte
    BY LockedIs DEF Radio!DirectSend, Radio!SendNow, RadioTypes
  <1>4. IsTransmit(tx') /\ (tx'.state = "wait_post" <=> tx.state = "wait_post")
    BY WaitsAckIs DEF Radio!DirectSend, Radio!SendNow, RadioTypes
  <1>5. /\ own' = AirTicks /\ peer' \in Peers /\ peer'.id = 0 /\ peer'.ticks = 0 /\ silence' = 0
        /\ aborted' = (aborted \/ peer.id # 0) /\ overlap' = (overlap \/ own > 0) /\ packets' = packets
        /\ fifo' = fifo \ {peer.id}
    BY RadioPostIs DEF Radio!DirectSend, Radio!SendNow
  <1>6. UNCHANGED <<rsp, rx, waited>>
    BY DEF Radio!DirectSend
  <1>7. RadioTypes'
    BY <1>1, <1>2, <1>3, <1>4, <1>5, <1>6, RadioConstants, Corners DEF RadioTypes, AirTypes
  <1>8. (QueueInv /\ OwnInv /\ PeerInv /\ WaitInv /\ SendInv /\ ParseInv /\ SilenceInv
         /\ NoPeerInv)'
    <2>1. QueueInv'
      BY <1>1 DEF RadioInv, QueueInv
    <2>2. OwnInv'
      BY <1>1, <1>2, <1>3, <1>5, <1>6, TimelyIs, RadioNumbers DEF RadioInv, Polls, QueueInv,
         OwnInv, WaitInv, ParseInv
    <2>3. PeerInv'
      BY <1>5 DEF RadioInv, PeerInv
    <2>4. WaitInv'
      BY <1>1, <1>2, <1>5, <1>6, TimelyIs DEF RadioInv, Sends, Polls, WaitInv, ParseInv
    <2>5. SendInv'
      BY <1>1, <1>2, <1>4, <1>5, <1>6, TimelyIs DEF RadioInv, Polls, SendInv
    <2>6. ParseInv'
      BY <1>1, <1>2, <1>3, <1>5, <1>6, TimelyIs DEF RadioInv, Polls, NoneOnAir, ParseInv
    <2>7. SilenceInv'
      BY <1>3 DEF RadioInv, SilenceInv
    <2>8. NoPeerInv'
      BY <1>5 DEF RadioInv, NoPeerInv
    <2>. QED  BY <2>1, <2>2, <2>3, <2>4, <2>5, <2>6, <2>7, <2>8
  <1>9. BytesInv'
    <2>1. peer.id = 0 => fifo' = fifo
      BY <1>5 DEF RadioTypes, AirTypes
    <2>. QED  BY <1>1, <1>2, <1>5, <1>6, <2>1 DEF RadioInv, BytesInv, PacketWaits, Held, Polls
  <1>10. Radio!OneOnAir'
    <2>1. own = 0
      BY <1>1, <1>2, <1>3, <1>4, <1>5, <1>6 DEF RadioInv, ParseInv, Polls
    <2>2. ~ (own > 0)
      BY <2>1
    <2>. QED  BY <1>1, <1>2, <1>3, <1>4, <1>5, <1>6, <2>2 DEF RadioInv, Radio!OneOnAir
  <1>. QED  BY <1>7, <1>8, <1>9, <1>10 DEF RadioInv

LEMMA ParseReturnsKeeps ==
  ASSUME Timely, RadioTypes, RadioInv, Radio!ParseReturns
  PROVE  RadioTypes' /\ RadioInv'
  <1>1. First' = First /\ Second' = Second /\ Len(events') = Len(events) /\ events' = events
    BY QueueSame DEF Radio!ParseReturns
  <1>2. main.pc = "parsing" /\ main' \in Mains /\ main'.pc = "loop" /\ waited' = 0
    BY RadioConstants DEF Radio!ParseReturns, Radio!Loop, Mains
  <1>3. UNCHANGED <<bus, tx, rsp, rx, fifo, own, peer, packets, overlap, aborted, silence>>
    BY DEF Radio!ParseReturns, Radio!airVars
  <1>4. RadioTypes'
    BY <1>1, <1>2, <1>3, RadioConstants, Corners DEF RadioTypes, AirTypes
  <1>5. (QueueInv /\ OwnInv /\ PeerInv /\ WaitInv /\ SendInv /\ ParseInv /\ SilenceInv
         /\ NoPeerInv)'
    <2>1. QueueInv'
      BY <1>1 DEF RadioInv, QueueInv
    <2>2. OwnInv'
      BY <1>1, <1>2, <1>3, RadioNumbers DEF RadioInv, Polls, OwnInv
    <2>3. PeerInv'
      BY <1>1, <1>2, <1>3, RadioNumbers DEF RadioInv, Polls, PeerInv
    <2>4. WaitInv'
      BY <1>1, <1>2, <1>3, TimelyIs, RadioNumbers DEF RadioInv, Polls, NoneOnAir, WaitInv
    <2>5. SendInv'
      BY <1>1, <1>2, <1>3 DEF RadioInv, Polls, SendInv
    <2>6. ParseInv'
      BY <1>2 DEF RadioInv, Polls, ParseInv
    <2>7. SilenceInv'
      BY <1>1, <1>3 DEF RadioInv, NoneOnAir, SilenceInv
    <2>8. NoPeerInv'
      BY <1>3 DEF RadioInv, NoPeerInv
    <2>. QED  BY <2>1, <2>2, <2>3, <2>4, <2>5, <2>6, <2>7, <2>8
  <1>6. BytesInv'
    BY <1>1, <1>2, <1>3 DEF RadioInv, BytesInv, PacketWaits, Held, Polls
  <1>7. Radio!OneOnAir'
    BY <1>1, <1>2, <1>3 DEF RadioInv, Radio!OneOnAir
  <1>. QED  BY <1>4, <1>5, <1>6, <1>7 DEF RadioInv

LEMMA SetTransmitterKeeps ==
  ASSUME Timely, RadioTypes, RadioInv, Radio!SetTransmitter
  PROVE  RadioTypes' /\ RadioInv'
  <1>1. First' = First /\ Second' = Second /\ Len(events') = Len(events) /\ events' = events
    BY QueueSame DEF Radio!SetTransmitter
  <1>2. /\ main.pc = "parsing" /\ main' \in Mains /\ main'.parsed = main.parsed /\ main'.pc \in {"parsing", "direct"}
        /\ main'.pc = "direct" => bus.state = "idle" /\ rsp' = rsp
        /\ main'.pc = "parsing" => bus.state # "idle" /\ rsp' \in {rsp, "ready"} /\ (rsp' # rsp => rsp = "idle")
    <2>1. main.replies + 1 \in 0 .. MaxReplies /\ main.pc = "parsing"
      BY RadioConstants DEF Radio!SetTransmitter, RadioTypes, Mains
    <2>2. CASE bus.state = "idle"
      BY <2>1, <2>2 DEF Radio!SetTransmitter, RadioTypes, Mains
    <2>3. CASE bus.state # "idle"
      BY <2>1, <2>3 DEF Radio!SetTransmitter, RadioTypes, Mains
    <2>. QED  BY <2>2, <2>3
  <1>3. UNCHANGED <<bus, tx, rx, fifo, waited, own, peer, packets, overlap, aborted, silence>>
    BY DEF Radio!SetTransmitter, Radio!airVars
  <1>4. RadioTypes'
    BY <1>1, <1>2, <1>3, RadioConstants, Corners DEF RadioTypes, AirTypes
  <1>5. (QueueInv /\ OwnInv /\ PeerInv /\ WaitInv /\ SendInv /\ ParseInv /\ SilenceInv
         /\ NoPeerInv)'
    <2>1. QueueInv'
      BY <1>1 DEF RadioInv, QueueInv
    <2>2. OwnInv'
      BY <1>1, <1>2, <1>3 DEF RadioInv, Polls, OwnInv
    <2>3. PeerInv'
      BY <1>1, <1>2, <1>3 DEF RadioInv, Polls, PeerInv
    <2>4. WaitInv'
      BY <1>1, <1>2, <1>3 DEF RadioInv, Polls, NoneOnAir, WaitInv
    <2>5. SendInv'
      BY <1>1, <1>2, <1>3, RadioNumbers DEF RadioInv, Polls, SendInv, ParseInv
    <2>6. ParseInv'
      BY <1>1, <1>2, <1>3 DEF RadioInv, Polls, NoneOnAir, ParseInv
    <2>7. SilenceInv'
      BY <1>1, <1>3 DEF RadioInv, NoneOnAir, SilenceInv
    <2>8. NoPeerInv'
      BY <1>3 DEF RadioInv, NoPeerInv
    <2>. QED  BY <2>1, <2>2, <2>3, <2>4, <2>5, <2>6, <2>7, <2>8
  <1>6. BytesInv'
    BY <1>1, <1>2, <1>3 DEF RadioInv, BytesInv, PacketWaits, Held, Polls
  <1>7. Radio!OneOnAir'
    BY <1>1, <1>2, <1>3 DEF RadioInv, Radio!OneOnAir
  <1>. QED  BY <1>4, <1>5, <1>6, <1>7 DEF RadioInv

LEMMA ClearTransmitterKeeps ==
  ASSUME Timely, RadioTypes, RadioInv, Radio!ClearTransmitter
  PROVE  RadioTypes' /\ RadioInv'
  <1>1. First' = First /\ Second' = Second /\ Len(events') = Len(events) /\ events' = events
    BY QueueSame DEF Radio!ClearTransmitter
  <1>2. main.pc = "parsing" /\ main' \in Mains /\ main'.pc = "parsing" /\ main'.parsed = main.parsed
    BY DEF Radio!ClearTransmitter, RadioTypes, Mains
  <1>3. IsTransmit(tx') /\ tx'.state = "idle"
    BY ClearedIs DEF Radio!ClearTransmitter, Radio!Cleared
  <1>4. UNCHANGED <<bus, rsp, rx, fifo, waited, own, peer, packets, overlap, aborted, silence>>
    BY DEF Radio!ClearTransmitter, Radio!airVars
  <1>5. RadioTypes'
    BY <1>1, <1>2, <1>3, <1>4, RadioConstants, Corners DEF RadioTypes, AirTypes
  <1>6. (QueueInv /\ OwnInv /\ PeerInv /\ WaitInv /\ SendInv /\ ParseInv /\ SilenceInv
         /\ NoPeerInv)'
    <2>1. QueueInv'
      BY <1>1 DEF RadioInv, QueueInv
    <2>2. OwnInv'
      BY <1>1, <1>2, <1>4 DEF RadioInv, Polls, OwnInv
    <2>3. PeerInv'
      BY <1>1, <1>2, <1>4 DEF RadioInv, Polls, PeerInv
    <2>4. WaitInv'
      BY <1>1, <1>2, <1>4 DEF RadioInv, Polls, NoneOnAir, WaitInv
    <2>5. SendInv'
      BY <1>1, <1>2, <1>3, <1>4 DEF RadioInv, Polls, SendInv
    <2>6. ParseInv'
      BY <1>1, <1>2, <1>4 DEF RadioInv, Polls, NoneOnAir, ParseInv
    <2>7. SilenceInv'
      BY <1>1, <1>4 DEF RadioInv, NoneOnAir, SilenceInv
    <2>8. NoPeerInv'
      BY <1>4 DEF RadioInv, NoPeerInv
    <2>. QED  BY <2>1, <2>2, <2>3, <2>4, <2>5, <2>6, <2>7, <2>8
  <1>7. BytesInv'
    BY <1>1, <1>2, <1>3, <1>4 DEF RadioInv, BytesInv, PacketWaits, Held, Polls
  <1>8. Radio!OneOnAir'
    BY <1>1, <1>2, <1>3, <1>4 DEF RadioInv, Radio!OneOnAir
  <1>. QED  BY <1>5, <1>6, <1>7, <1>8 DEF RadioInv

LEMMA SetTransmitterCacheKeeps ==
  ASSUME Timely, RadioTypes, RadioInv, NEW n \in Retrans, Radio!SetTransmitterCache(n)
  PROVE  RadioTypes' /\ RadioInv'
  <1>1. First' = First /\ Second' = Second /\ Len(events') = Len(events) /\ events' = events
    BY QueueSame DEF Radio!SetTransmitterCache
  <1>2. IsBus(bus') /\ bus'.state = bus.state /\ bus'.difs = Difs /\ bus'.timeout = bus.timeout
    BY DifsAgainIs DEF Radio!SetTransmitterCache, RadioTypes
  <1>3. tx.state = "idle" /\ IsTransmit(tx') /\ tx'.state = "ready"
    BY MostRetrans, RadioConstants DEF Radio!SetTransmitterCache, IsTransmit, Transmits
  <1>4. UNCHANGED <<rsp, rx, fifo, main, waited, own, peer, packets, overlap, aborted, silence>>
    BY DEF Radio!SetTransmitterCache, Radio!airVars
  <1>5. RadioTypes'
    BY <1>1, <1>2, <1>3, <1>4, RadioConstants, Corners DEF RadioTypes, AirTypes
  <1>6. (QueueInv /\ OwnInv /\ PeerInv /\ WaitInv /\ SendInv /\ ParseInv /\ SilenceInv
         /\ NoPeerInv)'
    <2>1. QueueInv'
      BY <1>1 DEF RadioInv, QueueInv
    <2>2. OwnInv'
      BY <1>1, <1>2, <1>4 DEF RadioInv, Polls, OwnInv
    <2>3. PeerInv'
      BY <1>1, <1>2, <1>4 DEF RadioInv, Polls, PeerInv
    <2>4. WaitInv'
      BY <1>1, <1>2, <1>4 DEF RadioInv, Polls, NoneOnAir, WaitInv
    <2>5. SendInv'
      BY <1>1, <1>2, <1>3, <1>4, TimelyIs, RadioNumbers DEF RadioInv, Polls, NoneOnAir, SendInv
    <2>6. ParseInv'
      BY <1>1, <1>2, <1>4, TimelyIs, RadioNumbers DEF RadioInv, Polls, NoneOnAir, ParseInv
    <2>7. SilenceInv'
      BY <1>2, <1>4, TimelyIs, RadioNumbers DEF RadioInv, SilenceInv
    <2>8. NoPeerInv'
      BY <1>4 DEF RadioInv, NoPeerInv
    <2>. QED  BY <2>1, <2>2, <2>3, <2>4, <2>5, <2>6, <2>7, <2>8
  <1>7. BytesInv'
    BY <1>1, <1>2, <1>3, <1>4 DEF RadioInv, BytesInv, PacketWaits, Held, Polls
  <1>8. Radio!OneOnAir'
    BY <1>1, <1>2, <1>3, <1>4 DEF RadioInv, Radio!OneOnAir
  <1>. QED  BY <1>5, <1>6, <1>7, <1>8 DEF RadioInv

-----------------------------------------------------------------------------
(* The channel and the driver's interrupts                                 *)

LEMMA PeerStartsKeeps ==
  ASSUME Timely, RadioTypes, RadioInv, Radio!PeerStarts
  PROVE  RadioTypes' /\ RadioInv'
  <1>1. First' = First /\ Second' = Second /\ Len(events') = Len(events) /\ events' = events
    BY QueueSame DEF Radio!PeerStarts
  <1>2. peer.id = 0 /\ own = 0 /\ silence >= Gap /\ silence' = 0
    BY DEF Radio!PeerStarts
  <1>3. /\ packets' \in 1 .. MaxPackets /\ peer' \in Peers /\ peer'.id = packets' /\ peer'.ticks = AirTicks
        /\ peer'.announced = "no"
    <2>1. packets + 1 \in 1 .. MaxPackets
      BY RadioConstants DEF Radio!PeerStarts, RadioTypes, AirTypes
    <2>2. packets' = packets + 1 /\ peer' = [id |-> packets', ticks |-> AirTicks, announced |-> "no"]
      BY DEF Radio!PeerStarts
    <2>. QED  BY <2>1, <2>2, Corners DEF Peers
  <1>4. UNCHANGED <<bus, tx, rsp, rx, fifo, main, own, waited, overlap, aborted>>
    BY DEF Radio!PeerStarts
  <1>5. First \in Sends \union {"none"} /\ Second = "none"
    <2>1. silence > PollPeriod /\ silence # 0
      BY <1>2, TimelyIs, RadioNumbers
    <2>2. First \in Sends \union Announces \union Endings \union {"TRANSMITTED", "none"}
      BY FirstKinds
    <2>3. First \notin Endings /\ First # "TRANSMITTED"
      <3>1. First \in Endings => Polls /\ silence <= waited
        BY DEF RadioInv, WaitInv
      <3>2. First = "TRANSMITTED" => silence = 0 \/ (Polls /\ silence <= waited)
        BY DEF RadioInv, WaitInv
      <3>3. Polls /\ First # "none" => waited <= PollPeriod
        BY DEF RadioInv, WaitInv
      <3>. QED  BY <2>1, <3>1, <3>2, <3>3, TimelyIs, RadioNumbers DEF Endings
    <2>4. First \in Announces => Second # "none"
      BY <1>2 DEF RadioInv, WaitInv
    <2>5. First \in Announces => Second = "none"
      BY <2>1 DEF RadioInv, WaitInv
    <2>6. First \in Sends \union {"none"} => Second = "none"
      BY <1>2 DEF RadioInv, WaitInv, QueueInv
    <2>. QED  BY <2>2, <2>3, <2>4, <2>5, <2>6
  <1>6. RadioTypes'
    BY <1>1, <1>2, <1>3, <1>4, <1>5, RadioConstants, Corners DEF RadioTypes, AirTypes
  <1>7. (QueueInv /\ OwnInv /\ PeerInv /\ WaitInv /\ SendInv /\ ParseInv /\ SilenceInv
         /\ NoPeerInv)'
    <2>1. QueueInv'
      BY <1>1 DEF RadioInv, QueueInv
    <2>2. OwnInv'
      BY <1>2, <1>4 DEF RadioInv, OwnInv
    <2>3. PeerInv'
      BY <1>1, <1>2, <1>3, <1>4, <1>5, TimelyIs, RadioNumbers DEF RadioInv, Announces, Sends,
         Polls, NoneOnAir, PeerInv, ParseInv
    <2>4. WaitInv'
      BY <1>1, <1>4, <1>5 DEF RadioInv, Announces, Endings, Sends, Polls, WaitInv
    <2>5. SendInv'
      BY <1>1, <1>2, <1>4, TimelyIs, RadioNumbers DEF RadioInv, Polls, SendInv
    <2>6. ParseInv'
      BY <1>1, <1>3, <1>4 DEF RadioInv, Polls, NoneOnAir, ParseInv
    <2>7. SilenceInv'
      BY <1>3, <1>4 DEF RadioInv, NoneOnAir, SilenceInv
    <2>8. NoPeerInv'
      BY <1>3 DEF RadioInv, NoPeerInv
    <2>. QED  BY <2>1, <2>2, <2>3, <2>4, <2>5, <2>6, <2>7, <2>8
  <1>8. BytesInv'
    <2>1. ~ PacketWaits
      BY <1>5 DEF PacketWaits, Sends
    <2>. QED  BY <1>1, <1>2, <1>3, <1>4, <2>1 DEF RadioInv, BytesInv, PacketWaits, Held, Polls
  <1>9. Radio!OneOnAir'
    BY <1>1, <1>2, <1>3, <1>4, <1>5 DEF RadioInv, Radio!OneOnAir
  <1>. QED  BY <1>6, <1>7, <1>8, <1>9 DEF RadioInv

LEMMA AnnouncedKeeps ==
  ASSUME Timely, RadioTypes, RadioInv, NEW e \in Announces, Radio!Announced(e)
  PROVE  RadioTypes' /\ RadioInv'
  <1>1. peer.id # 0 /\ peer.announced = "no" /\ First \in Sends \union {"none"} /\ Second = "none"
    BY DEF Radio!Announced, RadioInv, PeerInv
  <1>2. /\ First = "none" => First' = e /\ Second' = "none"
        /\ First # "none" => First' = First /\ Second' = e
        /\ Len(events') <= 2 /\ events' \in Seq(Radio!Events)
    BY <1>1, QueuePosted DEF Radio!Announced, RadioInv, Announces, Radio!Events
  <1>3. peer' \in Peers /\ peer'.id = peer.id /\ peer'.ticks = peer.ticks /\ peer'.announced = e
    BY DEF Radio!Announced, RadioTypes, Peers, Announces, Radio!Events
  <1>4. fifo' = IF e = "RECEIVING" THEN fifo \union {peer.id} ELSE fifo
    BY DEF Radio!Announced
  <1>5. peer.id \in 1 .. MaxPackets
    BY <1>1, RadioConstants DEF RadioTypes, Peers
  <1>6. UNCHANGED <<bus, tx, rsp, rx, main, own, waited, packets, overlap, aborted, silence>>
    BY DEF Radio!Announced
  <1>7. RadioTypes'
    BY <1>1, <1>2, <1>3, <1>4, <1>5, <1>6, RadioConstants, Corners DEF RadioTypes, AirTypes
  <1>8. (QueueInv /\ OwnInv /\ PeerInv /\ WaitInv /\ SendInv /\ ParseInv /\ SilenceInv
         /\ NoPeerInv)'
    <2>1. QueueInv'
      BY <1>1, <1>2 DEF RadioInv, Announces, Endings, Sends, QueueInv
    <2>2. OwnInv'
      BY <1>5, <1>6 DEF RadioInv, OwnInv
    <2>3. PeerInv'
      <3>1. peer.ticks > 0 /\ (~ Polls => waited >= ParseTicks /\ peer.ticks = AirTicks)
        BY <1>1 DEF RadioInv, PeerInv
      <3>2. First \in Sends => First' = First /\ Second' = e /\ peer.ticks + waited >= AirTicks
        BY <1>1, <1>2 DEF RadioInv, PeerInv, Sends
      <3>3. First = "none" => First' = e /\ Second' = "none" /\ peer.ticks + waited + 1 >= AirTicks
        <4>1. peer.ticks + 1 >= AirTicks
          BY <1>1 DEF RadioInv, PeerInv
        <4>2. peer.ticks + waited + 1 >= AirTicks
          BY <4>1, TimelyIs, RadioNumbers
        <4>. QED  BY <1>2, <4>2
      <3>. QED  BY <1>1, <1>3, <1>6, <3>1, <3>2, <3>3 DEF PeerInv, Polls, Announces, Sends
    <2>4. WaitInv'
      BY <1>1, <1>2, <1>3, <1>6, TimelyIs DEF RadioInv, Announces, Endings, Sends, Polls, WaitInv,
         PeerInv
    <2>5. SendInv'
      BY <1>2, <1>5, <1>6 DEF RadioInv, Announces, Polls, NoneOnAir, SendInv
    <2>6. ParseInv'
      BY <1>2, <1>6 DEF RadioInv, Announces, Polls, ParseInv
    <2>7. SilenceInv'
      BY <1>3, <1>5, <1>6 DEF RadioInv, NoneOnAir, SilenceInv
    <2>8. NoPeerInv'
      BY <1>3 DEF RadioInv, NoPeerInv
    <2>. QED  BY <2>1, <2>2, <2>3, <2>4, <2>5, <2>6, <2>7, <2>8
  <1>9. BytesInv'
    BY <1>1, <1>2, <1>3, <1>4, <1>6 DEF RadioInv, BytesInv, PacketWaits, Held, Polls, Announces,
       Sends
  <1>10. Radio!OneOnAir'
    BY <1>1, <1>2, <1>3, <1>4, <1>5, <1>6 DEF RadioInv, Radio!OneOnAir
  <1>. QED  BY <1>7, <1>8, <1>9, <1>10 DEF RadioInv

LEMMA PeerEndsKeeps ==
  ASSUME Timely, RadioTypes, RadioInv, NEW e \in Endings, Radio!PeerEnds(e)
  PROVE  RadioTypes' /\ RadioInv'
  <1>1. /\ peer.ticks = 1 /\ peer.id # 0 /\ peer.announced # "no" /\ own = 0
        /\ e = "BUS_TRY_UNLOCK" => peer.announced = "BUS_TRY_LOCK"
    BY RadioNumbers DEF Radio!PeerEnds, RadioInv, NoPeerInv, OwnInv, Timely
  <1>2. Polls
    BY <1>1, TimelyIs DEF RadioInv, PeerInv
  <1>3. /\ Second = "none"
        /\ \/ First = peer.announced /\ First \in Announces /\ waited >= PollPeriod
           \/ First = "none" /\ bus.state = "busy" /\ bus.timeout > PollPeriod
    <2>1. First \notin Sends
      BY <1>1, <1>2, TimelyIs, RadioNumbers DEF RadioInv, PeerInv, WaitInv, Sends
    <2>. QED  BY <1>1, <1>2, <2>1, TimelyIs, RadioNumbers DEF RadioInv, PeerInv, QueueInv
  <1>4. /\ First = "none" => First' = e /\ Second' = "none"
        /\ First # "none" => First' = First /\ Second' = e
        /\ Len(events') <= 2 /\ events' \in Seq(Radio!Events)
    BY <1>3, QueuePosted DEF Radio!PeerEnds, RadioInv, Endings, Radio!Events
  <1>5. peer' \in Peers /\ peer'.id = 0 /\ peer'.ticks = 0 /\ silence' = 0
    BY Corners DEF Radio!PeerEnds, Radio!NoPeer, Peers
  <1>6. fifo' = IF e = "RECEIVED" THEN fifo \union {peer.id} ELSE fifo
    BY DEF Radio!PeerEnds
  <1>7. peer.id \in 1 .. MaxPackets
    BY <1>1, RadioConstants DEF RadioTypes, Peers
  <1>8. UNCHANGED <<bus, tx, rsp, rx, main, own, waited, packets, overlap, aborted>>
    BY DEF Radio!PeerEnds
  <1>9. RadioTypes'
    BY <1>1, <1>2, <1>3, <1>4, <1>5, <1>6, <1>7, <1>8, RadioConstants, Corners DEF RadioTypes,
       AirTypes
  <1>10. (QueueInv /\ OwnInv /\ PeerInv /\ WaitInv /\ SendInv /\ ParseInv /\ SilenceInv
         /\ NoPeerInv)'
    <2>1. QueueInv'
      BY <1>3, <1>4 DEF RadioInv, Announces, Endings, Sends, QueueInv
    <2>2. OwnInv'
      BY <1>7, <1>8 DEF RadioInv, OwnInv
    <2>3. PeerInv'
      BY <1>5 DEF RadioInv, PeerInv
    <2>4. WaitInv'
      BY <1>1, <1>2, <1>3, <1>4, <1>5, <1>7, <1>8, TimelyIs, RadioNumbers DEF RadioInv, Announces,
         Endings, Sends, Polls, NoneOnAir, WaitInv
    <2>5. SendInv'
      BY <1>4, <1>7, <1>8 DEF RadioInv, Endings, Polls, NoneOnAir, SendInv
    <2>6. ParseInv'
      BY <1>2, <1>8 DEF RadioInv, Polls, ParseInv
    <2>7. SilenceInv'
      BY <1>3, <1>4, <1>8 DEF RadioInv, Announces, SilenceInv
    <2>8. NoPeerInv'
      BY <1>5 DEF RadioInv, NoPeerInv
    <2>. QED  BY <2>1, <2>2, <2>3, <2>4, <2>5, <2>6, <2>7, <2>8
  <1>11. BytesInv'
    BY <1>1, <1>3, <1>4, <1>5, <1>6, <1>7, <1>8 DEF RadioInv, BytesInv, PacketWaits, Held, Polls,
       Announces, Endings
  <1>12. Radio!OneOnAir'
    BY <1>1, <1>2, <1>3, <1>4, <1>5, <1>6, <1>7, <1>8 DEF RadioInv, Radio!OneOnAir
  <1>. QED  BY <1>9, <1>10, <1>11, <1>12 DEF RadioInv

LEMMA TransmittedKeeps ==
  ASSUME Timely, RadioTypes, RadioInv, Radio!Transmitted
  PROVE  RadioTypes' /\ RadioInv'
  <1>1. own = 1 /\ own' = 0 /\ silence' = 0 /\ peer.id = 0
    BY DEF Radio!Transmitted, RadioInv, OwnInv
  <1>2. First = "none" /\ Second = "none"
    BY <1>1, TimelyIs, RadioNumbers DEF RadioInv, OwnInv, WaitInv, QueueInv
  <1>3. First' = "TRANSMITTED" /\ Second' = "none" /\ Len(events') <= 2 /\ events' \in Seq(Radio!Events)
    BY <1>2, QueuePosted DEF Radio!Transmitted, RadioInv, Radio!Events
  <1>4. UNCHANGED <<bus, tx, rsp, rx, fifo, main, peer, waited, packets, overlap, aborted>>
    BY DEF Radio!Transmitted
  <1>5. RadioTypes'
    BY <1>1, <1>2, <1>3, <1>4, RadioConstants, Corners DEF RadioTypes, AirTypes
  <1>6. (QueueInv /\ OwnInv /\ PeerInv /\ WaitInv /\ SendInv /\ ParseInv /\ SilenceInv
         /\ NoPeerInv)'
    <2>1. QueueInv'
      BY <1>3 DEF RadioInv, QueueInv
    <2>2. OwnInv'
      BY <1>1 DEF RadioInv, OwnInv
    <2>3. PeerInv'
      BY <1>1, <1>4 DEF RadioInv, PeerInv
    <2>4. WaitInv'
      BY <1>1, <1>3, <1>4, TimelyIs, RadioNumbers DEF RadioInv, Announces, Endings, Polls,
         NoneOnAir, WaitInv, OwnInv
    <2>5. SendInv'
      BY <1>2, <1>3, <1>4 DEF RadioInv, SendInv
    <2>6. ParseInv'
      BY <1>1, <1>3, <1>4 DEF RadioInv, Polls, ParseInv
    <2>7. SilenceInv'
      BY <1>1, <1>4 DEF RadioInv, SilenceInv, OwnInv
    <2>8. NoPeerInv'
      BY <1>4 DEF RadioInv, NoPeerInv
    <2>. QED  BY <2>1, <2>2, <2>3, <2>4, <2>5, <2>6, <2>7, <2>8
  <1>7. BytesInv'
    BY <1>1, <1>2, <1>3, <1>4 DEF RadioInv, BytesInv, PacketWaits, Held, Polls
  <1>8. Radio!OneOnAir'
    BY <1>1, <1>2, <1>3, <1>4 DEF RadioInv, Radio!OneOnAir
  <1>. QED  BY <1>5, <1>6, <1>7, <1>8 DEF RadioInv

-----------------------------------------------------------------------------
(* The tick, by what it does to the bus                                    *)

LEMMA FirstIs == RadioTypes => (First = "none" <=> events = << >>)
  <1>. SUFFICES ASSUME RadioTypes PROVE First = "none" <=> events = << >>
    OBVIOUS
  <1>1. /\ Len(events) \in Nat /\ (events = << >> <=> Len(events) = 0)
        /\ \A i \in 1 .. Len(events) : events[i] # "none"
    BY QueueIs DEF RadioTypes
  <1>2. events # << >> => 1 \in 1 .. Len(events)
    BY <1>1
  <1>. QED  BY <1>1, <1>2 DEF First

LEMMA Sums ==
  /\ \A a, b \in Nat : a + b >= a
  /\ \A a, b, v, w \in Nat : a + 1 = b /\ w = v + 1 => a + w = b + v
  /\ \A a, b, c, d, e \in Nat : (a = b \/ a + 1 = b) /\ b >= c + e /\ d + 1 = c => a >= d + e
  OBVIOUS

\* Time passes, whatever the tick does with the bus and the transmitter.
TimePasses ==
  /\ own # 1 /\ own' \in Nat /\ (own = 0 => own' = 0) /\ (own > 0 => own' + 1 = own)
  /\ peer.ticks # 1 /\ peer'.id = peer.id /\ peer'.announced = peer.announced /\ peer'.ticks \in Nat
  /\ peer.id # 0 => peer'.ticks + 1 = peer.ticks
  /\ peer.id = 0 => peer'.ticks = 0
  /\ peer.id # 0 /\ peer.announced = "no" => peer.ticks = AirTicks
  /\ First # "none" => waited < PollPeriod
  /\ ~ Polls => waited < ParseTicks
  /\ First # "none" \/ ~ Polls => waited' = waited + 1
  /\ First = "none" /\ Polls => waited' = 0
  /\ ~ NoneOnAir => silence' = 0
  /\ NoneOnAir => silence' = IF silence < Difs THEN silence + 1 ELSE silence
  /\ main' = main

LEMMA TimePassesInTick ==
  ASSUME Timely, RadioTypes, RadioInv, Radio!Tick
  PROVE  /\ TimePasses /\ UNCHANGED <<rx, fifo, main, packets, overlap, aborted>>
         /\ own' \in 0 .. AirTicks /\ peer' \in Peers /\ silence' \in 0 .. Difs /\ waited' \in Nat
  <1>1. /\ own # 1 /\ peer.ticks # 1
        /\ peer.ticks \in 1 .. AirTicks - 1 => peer.announced # "no"
        /\ events # << >> => waited < PollPeriod
        /\ main.pc # "loop" => waited < ParseTicks
        /\ waited' = IF events # << >> \/ main.pc # "loop" THEN waited + 1 ELSE 0
        /\ own' = IF own = 0 THEN 0 ELSE own - 1
        /\ peer' = IF peer.id = 0 THEN peer ELSE [peer EXCEPT !.ticks = @ - 1]
        /\ silence' = IF own > 0 \/ peer.id # 0 THEN 0
                      ELSE IF silence < Difs THEN silence + 1 ELSE silence
        /\ UNCHANGED <<rx, fifo, main, packets, overlap, aborted>>
    BY DEF Radio!Tick, Radio!Behind, Timely
  <1>2. own' \in 0 .. AirTicks /\ (own = 0 => own' = 0) /\ (own > 0 => own' + 1 = own)
    <2>1. own' = IF own = 0 THEN 0 ELSE own - 1
      BY <1>1
    <2>2. own \in 0 .. AirTicks /\ AirTicks \in Nat
      BY RadioConstants DEF RadioTypes, AirTypes
    <2>. QED  BY <2>1, <2>2
  <1>3. silence' \in 0 .. Difs
    <2>1. \/ silence' = 0
          \/ silence' = IF silence < Difs THEN silence + 1 ELSE silence
      BY <1>1
    <2>2. silence \in 0 .. Difs /\ Difs \in Nat
      BY RadioConstants DEF RadioTypes, AirTypes
    <2>. QED  BY <2>1, <2>2
  <1>4. waited' \in Nat
    <2>1. waited' = waited + 1 \/ waited' = 0
      BY <1>1
    <2>2. waited \in Nat
      BY DEF RadioTypes, AirTypes
    <2>. QED  BY <2>1, <2>2
  <1>5. peer' \in Peers /\ peer'.id = peer.id /\ peer'.announced = peer.announced /\ peer'.ticks \in Nat
        /\ (peer.id # 0 => peer'.ticks + 1 = peer.ticks) /\ (peer.id = 0 => peer'.ticks = 0)
        /\ (peer.id # 0 /\ peer.announced = "no" => peer.ticks = AirTicks)
    <2>1. CASE peer.id = 0
      BY <1>1, <2>1 DEF RadioInv, NoPeerInv, RadioTypes
    <2>2. CASE peer.id # 0
      <3>1. peer.ticks > 0 /\ peer.ticks \in 0 .. AirTicks /\ AirTicks \in Nat
        BY <2>2, RadioConstants DEF RadioInv, PeerInv, RadioTypes, Peers
      <3>2. peer.ticks - 1 \in 0 .. AirTicks
        BY <3>1
      <3>3. peer.announced = "no" => peer.ticks = AirTicks
        <4>1. peer.announced = "no" => peer.ticks \notin 1 .. AirTicks - 1
          BY <1>1
        <4>. QED  BY <3>1, <4>1
      <3>4. peer' \in Peers /\ peer'.id = peer.id /\ peer'.announced = peer.announced
            /\ peer'.ticks = peer.ticks - 1
        BY <1>1, <2>2, <3>2 DEF RadioTypes, Peers
      <3>5. peer'.ticks + 1 = peer.ticks /\ peer'.ticks \in Nat
        BY <3>1, <3>2, <3>4
      <3>. QED  BY <2>2, <3>3, <3>4, <3>5
    <2>. QED  BY <2>1, <2>2
  <1>6. own \in Nat
    BY RadioNumbers
  <1>7. NoneOnAir <=> ~ (own > 0 \/ peer.id # 0)
    BY <1>6 DEF NoneOnAir
  <1>8. /\ First # "none" => waited < PollPeriod
        /\ ~ Polls => waited < ParseTicks
        /\ First # "none" \/ ~ Polls => waited' = waited + 1
        /\ First = "none" /\ Polls => waited' = 0
    BY <1>1, FirstIs DEF Polls
  <1>9. /\ ~ NoneOnAir => silence' = 0
        /\ NoneOnAir => silence' = IF silence < Difs THEN silence + 1 ELSE silence
    BY <1>1, <1>7
  <1>10. own' \in Nat /\ own # 1 /\ peer.ticks # 1
    BY <1>1, <1>2, RadioConstants
  <1>11. TimePasses
    BY <1>1, <1>2, <1>5, <1>8, <1>9, <1>10 DEF TimePasses
  <1>. QED  BY <1>1, <1>2, <1>3, <1>4, <1>5, <1>11

LEMMA TimeKeepsTypes ==
  ASSUME Timely, RadioTypes, RadioInv, Radio!Tick, IsBus(bus'), IsTransmit(tx'),
         rsp' \in {"idle", "ready", "busy"}, events' \in Seq(Radio!Events)
  PROVE  RadioTypes'
  BY TimePassesInTick DEF RadioTypes, AirTypes

LEMMA TimeKeepsBytes ==
  ASSUME Timely, RadioTypes, RadioInv, Radio!Tick, PacketWaits' <=> PacketWaits
  PROVE  BytesInv' /\ Radio!OneOnAir' /\ NoPeerInv'
  <1>1. TimePasses /\ UNCHANGED <<rx, fifo, main, packets, overlap, aborted>>
    BY TimePassesInTick
  <1>2. peer'.id = peer.id /\ peer'.announced = peer.announced /\ (peer.id = 0 => peer'.ticks = 0)
    BY <1>1 DEF TimePasses
  <1>3. BytesInv'
    BY <1>1, <1>2 DEF RadioInv, BytesInv, Held, Polls
  <1>. QED  BY <1>1, <1>2, <1>3 DEF RadioInv, Radio!OneOnAir, NoPeerInv

\* A tick of a locked bus: either the timeout of the bus runs, or a message is
\* about to be posted.
LEMMA BusyTickKeeps ==
  ASSUME Timely, RadioTypes, RadioInv, TimePasses, BusTicked, IsBus(bus'), bus.state = "busy",
         First' = First, Second' = Second, Len(events') = Len(events), tx' = tx, rsp' = rsp
  PROVE  (QueueInv /\ OwnInv /\ PeerInv /\ WaitInv /\ SendInv /\ ParseInv /\ SilenceInv)'
  <1>0. /\ Polls' = Polls /\ (own > 0 => own > 1 /\ own' > 0) /\ (own = 0 => own' = 0)
        /\ NoneOnAir' = NoneOnAir
    <2>1. (own > 0 => own > 1 /\ own' > 0) /\ (own = 0 <=> own' = 0)
      BY RadioNumbers DEF TimePasses
    <2>. QED  BY <2>1 DEF TimePasses, Polls, NoneOnAir
  <1>1. bus.timeout > 1 => bus'.state = "busy" /\ (bus'.timeout = bus.timeout \/ bus'.timeout + 1 = bus.timeout)
    <2>1. CASE bus' = bus
      BY <2>1
    <2>2. CASE bus'.state = "busy" /\ bus'.timeout = bus.timeout - 1
      BY <2>2, RadioNumbers
    <2>3. CASE bus.timeout = 1
      BY <2>3
    <2>. QED  BY <2>1, <2>2, <2>3 DEF BusTicked
  <1>2. bus'.difs = bus.difs /\ bus.difs = Difs
    BY DEF BusTicked, RadioInv, SilenceInv
  <1>3. ~ Polls => First \notin Announces \union {"TRANSMITTED"}
    BY TimelyIs, RadioNumbers DEF RadioInv, WaitInv, TimePasses
  <1>4. QueueInv'
    BY DEF RadioInv, QueueInv
  <1>5. OwnInv'
    <2>. SUFFICES ASSUME own' > 0 PROVE OwnInv'
      BY DEF OwnInv
    <2>1. own > 1 /\ own' + 1 = own /\ own > 0
      BY <1>0, RadioNumbers DEF TimePasses
    <2>2. /\ peer.id = 0 /\ First \in Announces \union {"none"} /\ Second = "none"
          /\ bus.timeout >= own + PollPeriod
          /\ First # "none" \/ ~ Polls => own + waited >= AirTicks
      BY <2>1 DEF RadioInv, OwnInv
    <2>3. bus'.state = "busy" /\ bus'.timeout >= own' + PollPeriod
      <3>1. bus.timeout \in Nat /\ bus'.timeout \in Nat /\ own \in Nat /\ own' \in Nat /\ PollPeriod \in Nat
        BY RadioNumbers, TimelyIs DEF TimePasses, IsBus, Buses
      <3>2. bus.timeout > 1
        BY <2>1, <2>2, <3>1
      <3>3. bus'.state = "busy" /\ (bus'.timeout = bus.timeout \/ bus'.timeout + 1 = bus.timeout)
        BY <1>1, <3>2
      <3>4. bus.timeout >= own + PollPeriod
        BY <2>2
      <3>5. bus'.timeout >= own' + PollPeriod
        BY <2>1, <3>1, <3>3, <3>4, Sums
      <3>. QED  BY <3>3, <3>5
    <2>4. First # "none" \/ ~ Polls => own' + waited' >= AirTicks
      BY <2>1, <2>2, RadioNumbers, TimelyIs DEF TimePasses
    <2>5. ~ (First # "none" /\ ~ Polls)
      BY <1>3, <2>2
    <2>. QED  BY <1>0, <2>2, <2>3, <2>4, <2>5 DEF OwnInv, TimePasses
  <1>6. PeerInv'
    <2>. SUFFICES ASSUME peer.id # 0 PROVE PeerInv'
      BY DEF PeerInv, TimePasses
    <2>1. peer'.ticks + 1 = peer.ticks /\ peer'.ticks \in Nat /\ peer.ticks > 1 /\ peer'.ticks > 0
      BY RadioNumbers DEF TimePasses, RadioInv, PeerInv
    <2>2. Polls
      BY RadioNumbers, TimelyIs DEF TimePasses, RadioInv, PeerInv
    <2>3. peer.announced = "no" => /\ peer'.ticks + 1 >= AirTicks
                                   /\ First \in Sends \union {"none"} /\ Second = "none"
      BY <2>1, RadioNumbers, TimelyIs DEF TimePasses, RadioInv, PeerInv
    <2>4. ASSUME First = "none", bus.state = "busy", bus.timeout >= peer.ticks + PollPeriod
          PROVE  bus'.state = "busy" /\ bus'.timeout >= peer'.ticks + PollPeriod
      <3>1. bus.timeout \in Nat /\ bus'.timeout \in Nat /\ peer.ticks \in Nat /\ PollPeriod \in Nat
        BY RadioNumbers, TimelyIs DEF IsBus, Buses
      <3>2. bus.timeout > 1
        BY <2>1, <2>4, <3>1
      <3>. QED  BY <1>1, <2>1, <2>4, <3>1, <3>2
    <2>5. First # "none" => peer'.ticks + waited' = peer.ticks + waited
      <3>1. First # "none" => waited' = waited + 1
        BY DEF TimePasses
      <3>2. First # "none" => waited' \in Nat
        BY <3>1, RadioNumbers
      <3>3. peer.ticks \in Nat /\ waited \in Nat
        BY RadioNumbers
      <3>4. \A a, b, v, w \in Nat : a + 1 = b /\ w = v + 1 => a + w = b + v
        BY Sums
      <3>. QED  BY <2>1, <3>1, <3>2, <3>3, <3>4
    <2>6. /\ First \in Sends => peer'.ticks + waited' >= AirTicks
          /\ First \in Announces => peer'.ticks + waited' + 1 >= AirTicks
      <3>1. "none" \notin Sends /\ "none" \notin Announces
        BY DEF Sends, Announces
      <3>. QED  BY <2>5, <3>1 DEF RadioInv, PeerInv
    <2>7. peer.announced # "no" =>
            /\ peer.announced \in Announces
            /\ \/ First = peer.announced /\ Second = "none"
               \/ First \in Sends /\ Second = peer.announced
               \/ First = "none" /\ bus'.state = "busy" /\ bus'.timeout >= peer'.ticks + PollPeriod
      BY <2>4 DEF RadioInv, PeerInv
    <2>. QED  BY <1>0, <2>1, <2>2, <2>3, <2>6, <2>7 DEF PeerInv, TimePasses
  <1>7. WaitInv'
    <2>1. Polls /\ First # "none" => waited' <= PollPeriod
      BY RadioNumbers, TimelyIs DEF TimePasses
    <2>2. Polls /\ First = "none" => waited' = 0
      BY DEF TimePasses
    <2>3. First \in Announces => own' > 0 \/ peer.id # 0 \/ Second # "none"
      BY <1>0, RadioNumbers DEF RadioInv, WaitInv
    <2>4. ~ (First \in Announces /\ Second # "none")
      <3>1. First \in Announces => First # "none"
        BY DEF Announces
      <3>. QED  BY <3>1, RadioNumbers, TimelyIs DEF TimePasses, RadioInv, WaitInv
    <2>5. First \in Sends /\ Second # "none" => peer.id # 0
      BY DEF RadioInv, WaitInv
    <2>6. ASSUME Polls, First # "none", NoneOnAir, silence <= waited, bus.timeout + waited > PollPeriod
          PROVE  silence' <= waited' /\ bus'.state = "busy" /\ bus'.timeout + waited' > PollPeriod
      <3>1. waited' = waited + 1 /\ waited < PollPeriod /\ waited \in Nat /\ PollPeriod \in Nat
            /\ silence \in Nat
        BY <2>6, RadioNumbers, TimelyIs DEF TimePasses
      <3>2. silence' = silence + 1 \/ silence' = silence
        BY <2>6 DEF TimePasses
      <3>3. bus.timeout \in Nat /\ bus'.timeout \in Nat
        BY RadioNumbers DEF IsBus, Buses
      <3>4. bus.timeout > 1
        BY <2>6, <3>1, <3>3
      <3>5. bus'.state = "busy" /\ (bus'.timeout = bus.timeout \/ bus'.timeout + 1 = bus.timeout)
        BY <1>1, <3>4
      <3>6. bus'.timeout + waited' > PollPeriod
        BY <2>6, <3>1, <3>3, <3>5
      <3>7. silence' <= waited'
        BY <2>6, <3>1, <3>2
      <3>. QED  BY <3>5, <3>6, <3>7
    <2>7. First \in Endings => /\ NoneOnAir /\ Polls /\ silence' <= waited'
                               /\ bus'.state = "busy" /\ bus'.timeout + waited' > PollPeriod
      <3>1. First \in Endings => First # "none"
        BY DEF Endings
      <3>. QED  BY <2>6, <3>1 DEF RadioInv, WaitInv
    <2>8. First = "TRANSMITTED" => /\ NoneOnAir /\ Polls /\ bus'.state = "busy"
                                   /\ silence' <= waited' /\ bus'.timeout + waited' > PollPeriod
      BY <1>3, <2>6 DEF RadioInv, WaitInv
    <2>9. peer'.id = peer.id
      BY DEF TimePasses
    <2>. QED  BY <1>0, <1>3, <2>1, <2>2, <2>3, <2>4, <2>5, <2>7, <2>8, <2>9 DEF WaitInv
  <1>8. SendInv'
    <2>1. First = "TRANSMITTER_READY" => bus' = bus /\ bus.timeout = Bbte /\ own' = 0 /\ Polls /\ rsp = "idle"
      BY <1>0 DEF RadioInv, SendInv, BusTicked
    <2>2. First # "RESPONDER_READY"
      BY DEF RadioInv, SendInv
    <2>3. rsp = "ready" => own' > 0 \/ First = "TRANSMITTED"
      BY <1>0, RadioNumbers DEF RadioInv, SendInv
    <2>. QED  BY <1>0, <2>1, <2>2, <2>3 DEF RadioInv, SendInv
  <1>9. ParseInv'
    <2>. SUFFICES ASSUME ~ Polls PROVE ParseInv'
      BY <1>0 DEF ParseInv
    <2>1. waited' = waited + 1 /\ waited' <= ParseTicks
      <3>1. waited' = waited + 1 /\ waited < ParseTicks
        BY DEF TimePasses
      <3>. QED  BY <3>1, RadioNumbers, TimelyIs
    <2>2. First = "none" /\ own > 0 /\ main.pc # "direct"
      BY <1>3, FirstKinds DEF RadioInv, ParseInv
    <2>3. bus'.state = "busy"
      BY <1>0, <1>5, <2>2 DEF OwnInv
    <2>. QED  BY <1>0, <2>1, <2>2, <2>3 DEF ParseInv, NoneOnAir, TimePasses
  <1>10. SilenceInv'
    <2>1. bus'.difs = Difs /\ Difs \in Nat /\ silence' \in Nat
      BY <1>2, RadioConstants, RadioNumbers DEF TimePasses
    <2>2. bus'.difs + silence' >= Difs
      BY <2>1, Sums
    <2>. QED  BY <2>1, <2>2 DEF SilenceInv
  <1>. QED  BY <1>4, <1>5, <1>6, <1>7, <1>8, <1>9, <1>10

\* A tick of an idle bus, with nothing to send for the responder: the inter-frame
\* space runs, or the bus is locked because the channel is busy.
Listened ==
  /\ bus.state = "idle" /\ rsp # "ready" /\ rsp' = rsp /\ IsBus(bus') /\ IsTransmit(tx')
  /\ tx'.state = "wait_post" <=> tx.state = "wait_post"
  /\ events' = events
  /\ \/ bus'.state = "idle" /\ bus'.difs + 1 >= bus.difs
     \/ bus.difs <= 1 /\ bus'.state = "busy" /\ bus'.difs = Difs /\ bus'.timeout = Bbte

LEMMA IdleTickKeeps ==
  ASSUME Timely, RadioTypes, RadioInv, TimePasses, Listened,
         First' = First, Second' = Second, Len(events') = Len(events)
  PROVE  (QueueInv /\ OwnInv /\ PeerInv /\ WaitInv /\ SendInv /\ ParseInv /\ SilenceInv)'
  <1>0. /\ Polls' = Polls /\ own = 0 /\ own' = 0 /\ NoneOnAir' = NoneOnAir
        /\ peer'.id = peer.id /\ peer'.announced = peer.announced
    <2>1. own = 0 /\ own' = 0
      BY RadioNumbers DEF TimePasses, RadioInv, OwnInv, Listened
    <2>. QED  BY <2>1 DEF TimePasses, Polls, NoneOnAir
  <1>1. bus.difs \in Nat /\ bus'.difs \in Nat /\ waited \in Nat
    BY RadioNumbers, RadioConstants DEF Listened, IsBus, Buses
  <1>2. First \notin Endings \union {"TRANSMITTED", "TRANSMITTER_READY"}
    BY DEF RadioInv, WaitInv, SendInv, Listened
  <1>3. ~ Polls => First = "none" /\ bus.difs + waited >= Difs
    BY <1>2, TimelyIs, RadioNumbers DEF RadioInv, WaitInv, ParseInv, TimePasses, Listened, Endings
  <1>4. QueueInv'
    BY DEF RadioInv, QueueInv
  <1>5. OwnInv'
    BY <1>0 DEF OwnInv
  <1>6. PeerInv'
    <2>. SUFFICES ASSUME peer.id # 0 PROVE PeerInv'
      BY <1>0 DEF PeerInv
    <2>1. peer'.ticks + 1 = peer.ticks /\ peer'.ticks \in Nat /\ peer.ticks > 1 /\ peer'.ticks > 0
      BY RadioNumbers DEF TimePasses, RadioInv, PeerInv
    <2>2. Polls
      BY RadioNumbers, TimelyIs DEF TimePasses, RadioInv, PeerInv
    <2>3. peer.announced = "no" => /\ peer'.ticks + 1 >= AirTicks
                                   /\ First \in Sends \union {"none"} /\ Second = "none"
      BY <2>1, RadioNumbers, TimelyIs DEF TimePasses, RadioInv, PeerInv
    <2>5. First # "none" => peer'.ticks + waited' = peer.ticks + waited
      <3>1. First # "none" => waited' = waited + 1
        BY DEF TimePasses
      <3>2. First # "none" => waited' \in Nat
        BY <3>1, RadioNumbers
      <3>3. peer.ticks \in Nat /\ waited \in Nat
        BY RadioNumbers
      <3>4. \A a, b, v, w \in Nat : a + 1 = b /\ w = v + 1 => a + w = b + v
        BY Sums
      <3>. QED  BY <2>1, <3>1, <3>2, <3>3, <3>4
    <2>6. /\ First \in Sends => peer'.ticks + waited' >= AirTicks
          /\ First \in Announces => peer'.ticks + waited' + 1 >= AirTicks
      <3>1. "none" \notin Sends /\ "none" \notin Announces
        BY DEF Sends, Announces
      <3>. QED  BY <2>5, <3>1 DEF RadioInv, PeerInv
    <2>7. peer.announced # "no" =>
            /\ peer.announced \in Announces
            /\ \/ First = peer.announced /\ Second = "none"
               \/ First \in Sends /\ Second = peer.announced
      BY DEF RadioInv, PeerInv, Listened
    <2>. QED  BY <1>0, <2>1, <2>2, <2>3, <2>6, <2>7 DEF PeerInv
  <1>7. WaitInv'
    <2>1. Polls /\ First # "none" => waited' <= PollPeriod
      BY RadioNumbers, TimelyIs DEF TimePasses
    <2>2. Polls /\ First = "none" => waited' = 0
      BY DEF TimePasses
    <2>3. First \in Announces => peer.id # 0 \/ Second # "none"
      BY <1>0 DEF RadioInv, WaitInv
    <2>4. ~ (First \in Announces /\ Second # "none")
      <3>1. First \in Announces => First # "none"
        BY DEF Announces
      <3>. QED  BY <3>1, RadioNumbers, TimelyIs DEF TimePasses, RadioInv, WaitInv
    <2>5. First \in Sends /\ Second # "none" => peer.id # 0
      BY DEF RadioInv, WaitInv
    <2>6. First \in Announces => Polls
      BY <1>3 DEF Announces
    <2>. QED  BY <1>0, <1>2, <2>1, <2>2, <2>3, <2>4, <2>5, <2>6 DEF WaitInv
  <1>8. SendInv'
    <2>1. First = "RESPONDER_READY" =>
            Polls /\ bus'.state = "idle" /\ bus'.difs + waited' >= Difs /\ rsp = "busy"
      <3>. SUFFICES ASSUME First = "RESPONDER_READY"
                    PROVE  Polls /\ bus'.state = "idle" /\ bus'.difs + waited' >= Difs /\ rsp = "busy"
        OBVIOUS
      <3>1. Polls /\ bus.difs + waited >= Difs /\ rsp = "busy"
        BY DEF RadioInv, SendInv
      <3>2. waited' = waited + 1 /\ waited < PollPeriod
        BY DEF TimePasses
      <3>3. ~ (bus.difs <= 1)
        BY <1>1, <3>1, <3>2, TimelyIs
      <3>4. bus'.state = "idle" /\ bus'.difs + 1 >= bus.difs
        BY <3>3 DEF Listened
      <3>. QED  BY <1>1, <3>1, <3>2, <3>4, TimelyIs
    <2>2. (tx'.state = "wait_post" <=> First = "TRANSMITTER_READY") /\ (rsp = "busy" <=> First = "RESPONDER_READY")
      BY DEF RadioInv, SendInv, Listened
    <2>. QED  BY <1>0, <1>2, <2>1, <2>2 DEF SendInv, Listened
  <1>9. ParseInv'
    <2>. SUFFICES ASSUME ~ Polls PROVE ParseInv'
      BY <1>0 DEF ParseInv
    <2>1. waited' = waited + 1 /\ waited' <= ParseTicks /\ waited < ParseTicks
      BY RadioNumbers, TimelyIs DEF TimePasses
    <2>2. First = "none" /\ bus.difs + waited >= Difs /\ rsp = "idle"
      BY <1>3 DEF RadioInv, ParseInv, Listened
    <2>3. ~ (bus.difs <= 1)
      BY <1>1, <2>1, <2>2, TimelyIs
    <2>4. bus'.state = "idle" /\ bus'.difs + 1 >= bus.difs
      BY <2>3 DEF Listened
    <2>5. bus'.difs + waited' >= Difs
      BY <1>1, <2>1, <2>2, <2>4, TimelyIs
    <2>6. NoneOnAir => silence' <= PollPeriod + waited'
      <3>1. NoneOnAir => silence <= PollPeriod + waited
        BY <2>2 DEF RadioInv, ParseInv
      <3>2. NoneOnAir => silence' = silence + 1 \/ silence' = silence
        <4>1. NoneOnAir => silence' = IF silence < Difs THEN silence + 1 ELSE silence
          BY DEF TimePasses
        <4>. QED  BY <4>1
      <3>. QED  BY <1>1, <2>1, <3>1, <3>2, RadioNumbers, TimelyIs
    <2>. QED  BY <1>0, <2>1, <2>2, <2>4, <2>5, <2>6 DEF ParseInv, Listened
  <1>10. SilenceInv'
    <2>1. bus'.state = "busy" => bus'.difs = Difs
      BY DEF Listened
    <2>2. ASSUME bus'.state = "idle", NoneOnAir, Second \notin Endings
          PROVE  bus'.difs + silence' >= Difs
      <3>1. bus.difs + silence >= Difs
        BY <2>2 DEF RadioInv, SilenceInv, Listened
      <3>2. bus'.difs + 1 >= bus.difs
        BY <2>2 DEF Listened
      <3>3. silence' = silence + 1 \/ (silence' = silence /\ ~ (silence < Difs))
        BY <2>2 DEF TimePasses
      <3>. QED  BY <1>1, <3>1, <3>2, <3>3, RadioNumbers, RadioConstants
    <2>. QED  BY <1>0, <2>1, <2>2 DEF SilenceInv
  <1>. QED  BY <1>4, <1>5, <1>6, <1>7, <1>8, <1>9, <1>10

-----------------------------------------------------------------------------
(* The tick, by what it finds *)

LEMMA TickBusyKeeps ==
  ASSUME Timely, RadioTypes, RadioInv, Radio!Tick, Radio!TickBusy
  PROVE  RadioTypes' /\ RadioInv'
  <1>1. /\ IsBus(bus') /\ BusTicked /\ bus.state = "busy"
        /\ tx' = tx /\ rsp' = rsp /\ events' = events
    BY TickBusyIs DEF RadioTypes
  <1>2. First' = First /\ Second' = Second /\ Len(events') = Len(events)
    BY <1>1, QueueSame
  <1>3. TimePasses
    BY TimePassesInTick
  <1>4. (QueueInv /\ OwnInv /\ PeerInv /\ WaitInv /\ SendInv /\ ParseInv /\ SilenceInv)'
    BY <1>1, <1>2, <1>3, BusyTickKeeps
  <1>5. BytesInv' /\ Radio!OneOnAir' /\ NoPeerInv'
    BY <1>2, TimeKeepsBytes DEF PacketWaits
  <1>6. RadioTypes'
    <2>1. IsTransmit(tx') /\ rsp' \in {"idle", "ready", "busy"} /\ events' \in Seq(Radio!Events)
      BY <1>1 DEF RadioTypes
    <2>. QED  BY <1>1, <2>1, TimeKeepsTypes
  <1>. QED  BY <1>4, <1>5, <1>6 DEF RadioInv

LEMMA ListenedKeeps ==
  ASSUME Timely, RadioTypes, RadioInv, Radio!Tick, Listened
  PROVE  RadioTypes' /\ RadioInv'
  <1>1. events' = events /\ rsp' = rsp /\ IsBus(bus') /\ IsTransmit(tx')
    BY DEF Listened
  <1>2. First' = First /\ Second' = Second /\ Len(events') = Len(events)
    BY <1>1, QueueSame
  <1>3. TimePasses
    BY TimePassesInTick
  <1>4. (QueueInv /\ OwnInv /\ PeerInv /\ WaitInv /\ SendInv /\ ParseInv /\ SilenceInv)'
    BY <1>2, <1>3, IdleTickKeeps
  <1>5. BytesInv' /\ Radio!OneOnAir' /\ NoPeerInv'
    BY <1>2, TimeKeepsBytes DEF PacketWaits
  <1>6. RadioTypes'
    <2>1. rsp' \in {"idle", "ready", "busy"} /\ events' \in Seq(Radio!Events)
      BY <1>1 DEF RadioTypes
    <2>. QED  BY <1>1, <2>1, TimeKeepsTypes
  <1>. QED  BY <1>4, <1>5, <1>6 DEF RadioInv

LEMMA TickSuspendedListens ==
  ASSUME RadioTypes, Radio!TickSuspended
  PROVE  Listened
  <1>1. bus.state = "idle" /\ rsp # "ready" /\ UNCHANGED <<bus, tx, rsp, events>>
    BY DEF Radio!TickSuspended
  <1>2. bus'.difs + 1 >= bus.difs
    BY <1>1, RadioNumbers
  <1>. QED  BY <1>1, <1>2 DEF Listened, RadioTypes

LEMMA TickDifsListens ==
  ASSUME RadioTypes, Radio!TickDifs
  PROVE  Listened
  <1>1. bus.state = "idle" /\ rsp # "ready" /\ UNCHANGED <<tx, rsp, events>>
    BY DEF Radio!TickDifs, Radio!Listens
  <1>2. CASE bus.difs > 1
    <2>1. bus' = [bus EXCEPT !.difs = @ - 1]
      BY <1>2 DEF Radio!TickDifs
    <2>2. bus.difs - 1 \in 0 .. Difs /\ bus.difs - 1 + 1 >= bus.difs
      BY <1>2, RadioNumbers, RadioConstants
    <2>3. bus'.difs = bus.difs - 1 /\ bus'.state = bus.state /\ IsBus(bus')
      BY <2>1, <2>2 DEF RadioTypes, IsBus, Buses
    <2>. QED  BY <1>1, <2>2, <2>3 DEF Listened, RadioTypes
  <1>3. CASE ~ (bus.difs > 1)
    <2>1. bus' = Radio!Locked(bus)
      BY <1>3 DEF Radio!TickDifs
    <2>2. bus.difs <= 1
      BY <1>3, RadioNumbers
    <2>3. IsBus(bus') /\ bus'.state = "busy" /\ bus'.difs = Difs /\ bus'.timeout = Bbte
      BY <2>1, LockedIs DEF RadioTypes
    <2>. QED  BY <1>1, <2>2, <2>3 DEF Listened, RadioTypes
  <1>. QED  BY <1>2, <1>3

LEMMA TickGiveUpListens ==
  ASSUME Timely, RadioTypes, Radio!TickGiveUp
  PROVE  Listened
  <1>1. /\ bus.state = "idle" /\ rsp # "ready" /\ UNCHANGED <<rsp, events>>
        /\ tx.state = "wait_ack" /\ tx' = Radio!IdleTx /\ Radio!DifsOver /\ bus' = Radio!AfterDifs
    BY DEF Radio!TickGiveUp, Radio!Listens, Radio!Cleared
  <1>2. IsTransmit(tx') /\ tx'.state = "idle"
    BY <1>1, ClearedIs
  <1>3. IsBus(bus') /\ bus'.state = "idle" /\ bus'.difs = 0 /\ bus.difs <= 1
    BY <1>1, AfterDifsIs DEF RadioTypes
  <1>4. bus'.difs + 1 >= bus.difs
    BY <1>3, RadioNumbers
  <1>. QED  BY <1>1, <1>2, <1>3, <1>4 DEF Listened

LEMMA TickBackoffListens ==
  ASSUME Timely, RadioTypes, Radio!TickBackoff
  PROVE  Listened
  <1>1. /\ bus.state = "idle" /\ rsp # "ready" /\ UNCHANGED <<rsp, events>>
        /\ tx.state \in {"ready", "wait_ack"} /\ tx' = Radio!Retried /\ Radio!DifsOver
        /\ Radio!Contends /\ IsBus(bus) /\ IsTransmit(tx)
    BY DEF Radio!TickBackoff, Radio!Contends, Radio!Listens, RadioTypes
  <1>2. IsTransmit(tx') /\ tx'.state = "ready"
    BY <1>1, RetriedIs
  <1>3. PICK b \in 0 .. MaxBackoff : bus' = [Radio!AfterDifs EXCEPT !.backoff = b]
    <2>1. CASE bus.backoff = 0
      BY <2>1, RadioConstants DEF Radio!TickBackoff
    <2>2. CASE bus.backoff # 0
      <3>1. bus.backoff - 1 \in 0 .. MaxBackoff /\ Radio!AfterDifs.backoff = bus.backoff
        BY <1>1, <2>2, RadioConstants DEF IsBus, Buses, Radio!AfterDifs
      <3>2. bus' = [Radio!AfterDifs EXCEPT !.backoff = bus.backoff - 1]
        BY <2>2, <3>1 DEF Radio!TickBackoff
      <3>. QED  BY <3>1, <3>2
    <2>. QED  BY <2>1, <2>2
  <1>4. IsBus(bus') /\ bus'.state = "idle" /\ bus'.difs = 0 /\ bus.difs <= 1
    BY <1>1, <1>3, AfterDifsIs
  <1>5. bus'.difs + 1 >= bus.difs
    BY <1>4, RadioNumbers
  <1>. QED  BY <1>1, <1>2, <1>4, <1>5 DEF Listened

\* What a claim makes of the bus, whether or not the channel is clear.
LEMMA ClaimIs ==
  ASSUME Timely, RadioTypes, Radio!TickClaim
  PROVE  /\ bus.state = "idle" /\ rsp # "ready" /\ rsp' = rsp /\ bus.difs <= 1 /\ tx.state # "wait_post"
         /\ IsBus(bus') /\ bus'.state = "busy" /\ bus'.difs = Difs /\ bus'.timeout = Bbte
         /\ IsTransmit(tx')
         /\ peer.id = 0 => tx'.state = "wait_post" /\ events' = Append(events, "TRANSMITTER_READY")
         /\ peer.id # 0 => tx'.state = "ready" /\ events' = events
  <1>1. /\ bus.state = "idle" /\ rsp # "ready" /\ rsp' = rsp /\ tx.state # "wait_post"
        /\ Radio!Contends /\ Radio!DifsOver /\ IsBus(bus) /\ IsTransmit(tx)
    BY DEF Radio!TickClaim, Radio!Contends, Radio!Listens, RadioTypes
  <1>2. IsBus(bus') /\ bus'.state = "busy" /\ bus'.difs = Difs /\ bus'.timeout = Bbte
    <2>. DEFINE b == Radio!Locked(bus)
    <2>1. IsBus(b) /\ b.state = "busy" /\ b.difs = Difs /\ b.timeout = Bbte
      BY <1>1, LockedIs
    <2>2. bus' = b \/ bus' = [b EXCEPT !.backoff = 0]
      BY DEF Radio!TickClaim
    <2>. HIDE DEF b
    <2>. QED  BY <2>1, <2>2, Corners DEF IsBus, Buses
  <1>3. bus.difs <= 1
    BY <1>1, AfterDifsIs
  <1>4. /\ IsTransmit(tx')
        /\ peer.id = 0 => tx'.state = "wait_post" /\ events' = Append(events, "TRANSMITTER_READY")
        /\ peer.id # 0 => tx'.state = "ready" /\ events' = events
    BY <1>1, RetriedIs DEF Radio!TickClaim, Radio!ClearChannel, Timely
  <1>. QED  BY <1>1, <1>2, <1>3, <1>4

\* A message is posted when no event waits, no transmission runs and the channel
\* has been silent.
LEMMA PostedFromRest ==
  ASSUME Timely, RadioTypes, RadioInv, TimePasses, bus.state = "idle", rsp # "ready",
         bus.difs <= 1, peer.id = 0
  PROVE  /\ Polls /\ First = "none" /\ Second = "none" /\ own = 0 /\ rsp = "idle"
         /\ silence' = Difs
  <1>1. own = 0 /\ bus.difs \in Nat /\ NoneOnAir
    BY RadioNumbers DEF RadioInv, OwnInv, NoneOnAir
  <1>2. Polls
    <2>1. ~ Polls => bus.difs + waited >= Difs /\ waited < ParseTicks
      BY DEF RadioInv, ParseInv, TimePasses
    <2>. QED  BY <1>1, <2>1, TimelyIs, RadioNumbers
  <1>3. First \notin Endings \union {"TRANSMITTED", "TRANSMITTER_READY"}
    BY DEF RadioInv, WaitInv, SendInv
  <1>4. First # "RESPONDER_READY"
    <2>1. First = "RESPONDER_READY" => bus.difs + waited >= Difs /\ waited < PollPeriod
      BY DEF RadioInv, SendInv, TimePasses
    <2>. QED  BY <1>1, <2>1, TimelyIs, RadioNumbers
  <1>5. First \notin Announces
    <2>1. First \in Announces => Second # "none"
      BY <1>1, RadioNumbers DEF RadioInv, WaitInv
    <2>2. First \in Announces /\ Second # "none" => waited >= PollPeriod /\ waited < PollPeriod
      BY DEF RadioInv, WaitInv, TimePasses, Announces
    <2>. QED  BY <2>1, <2>2, TimelyIs, RadioNumbers
  <1>6. First = "none" /\ Second = "none"
    BY <1>3, <1>4, <1>5, FirstKinds DEF RadioInv, QueueInv, Sends
  <1>7. rsp = "idle"
    BY <1>4, RadioNumbers DEF RadioInv, SendInv
  <1>8. silence' = Difs
    <2>1. bus.difs + silence >= Difs
      BY <1>1, <1>6 DEF RadioInv, SilenceInv, Endings
    <2>2. silence' = IF silence < Difs THEN silence + 1 ELSE silence
      BY <1>1 DEF TimePasses
    <2>. QED  BY <1>1, <2>1, <2>2, RadioNumbers, RadioConstants
  <1>. QED  BY <1>1, <1>2, <1>6, <1>7, <1>8

LEMMA TickClaimKeeps ==
  ASSUME Timely, RadioTypes, RadioInv, Radio!Tick, Radio!TickClaim
  PROVE  RadioTypes' /\ RadioInv'
  <1>1. CASE peer.id # 0
    <2>1. Listened
      BY <1>1, ClaimIs DEF Listened
    <2>. QED  BY <2>1, ListenedKeeps
  <1>2. CASE peer.id = 0
    <2>1. /\ bus.state = "idle" /\ rsp # "ready" /\ rsp' = rsp /\ bus.difs <= 1
          /\ IsBus(bus') /\ bus'.state = "busy" /\ bus'.difs = Difs /\ bus'.timeout = Bbte
          /\ IsTransmit(tx') /\ tx'.state = "wait_post" /\ events' = Append(events, "TRANSMITTER_READY")
      BY <1>2, ClaimIs
    <2>2. TimePasses
      BY TimePassesInTick
    <2>3. Polls /\ First = "none" /\ Second = "none" /\ own = 0 /\ rsp = "idle" /\ silence' = Difs
      BY <1>2, <2>1, <2>2, PostedFromRest
    <2>4. First' = "TRANSMITTER_READY" /\ Second' = "none" /\ Len(events') <= 2 /\ events' \in Seq(Radio!Events)
      BY <2>1, <2>3, QueuePosted DEF RadioInv, Radio!Events
    <2>5. peer'.id = 0 /\ own' = 0 /\ main' = main /\ waited' = 0 /\ waited' <= PollPeriod
      BY <1>2, <2>2, <2>3, RadioConstants DEF TimePasses
    <2>6. QueueInv' /\ OwnInv' /\ PeerInv' /\ ParseInv'
      BY <2>3, <2>4, <2>5 DEF QueueInv, OwnInv, PeerInv, ParseInv, Polls, Announces, Sends, Endings
    <2>7. WaitInv'
      BY <2>3, <2>4, <2>5 DEF WaitInv, Polls, Announces, Sends, Endings
    <2>8. SendInv' /\ SilenceInv'
      BY <2>1, <2>3, <2>4, <2>5 DEF SendInv, SilenceInv, Polls
    <2>9. BytesInv' /\ Radio!OneOnAir' /\ NoPeerInv'
      BY <2>3, <2>4, TimeKeepsBytes DEF PacketWaits
    <2>10. RadioTypes'
      <3>1. rsp' \in {"idle", "ready", "busy"}
        BY <2>1 DEF RadioTypes
      <3>. QED  BY <2>1, <2>4, <3>1, TimeKeepsTypes
    <2>. QED  BY <2>6, <2>7, <2>8, <2>9, <2>10 DEF RadioInv
  <1>. QED  BY <1>1, <1>2

LEMMA TickResponderKeeps ==
  ASSUME Timely, RadioTypes, RadioInv, Radio!Tick, Radio!TickResponder
  PROVE  RadioTypes' /\ RadioInv'
  <1>1. /\ bus.state = "idle" /\ rsp = "ready" /\ rsp' = "busy" /\ bus' = bus /\ tx' = tx
        /\ events' = Append(events, "RESPONDER_READY")
    BY DEF Radio!TickResponder
  <1>2. First = "none" /\ Polls /\ NoneOnAir /\ bus.difs = Difs
    <2>1. own = 0 /\ First # "TRANSMITTED"
      BY <1>1, RadioNumbers DEF RadioInv, OwnInv, WaitInv
    <2>2. ~ (own > 0)
      BY <2>1
    <2>. QED  BY <1>1, <2>1, <2>2 DEF RadioInv, SendInv
  <1>3. Second = "none"
    BY <1>2 DEF RadioInv, QueueInv
  <1>4. First' = "RESPONDER_READY" /\ Second' = "none" /\ Len(events') <= 2 /\ events' \in Seq(Radio!Events)
    BY <1>1, <1>2, <1>3, QueuePosted DEF RadioInv, Radio!Events
  <1>5. TimePasses
    BY TimePassesInTick
  <1>6. peer'.id = 0 /\ own' = 0 /\ main' = main /\ waited' = 0 /\ waited' <= PollPeriod
    BY <1>2, <1>5, RadioConstants DEF TimePasses, NoneOnAir
  <1>7. QueueInv' /\ OwnInv' /\ PeerInv' /\ ParseInv'
    BY <1>2, <1>4, <1>6 DEF QueueInv, OwnInv, PeerInv, ParseInv, Polls, Announces, Sends, Endings
  <1>8. WaitInv'
    BY <1>2, <1>4, <1>6 DEF WaitInv, Polls, Announces, Sends, Endings
  <1>9. bus'.difs + waited' >= Difs
    BY <1>1, <1>2, <1>6, RadioConstants
  <1>10. SendInv'
    BY <1>1, <1>2, <1>4, <1>6, <1>9 DEF SendInv, Polls, RadioInv
  <1>11. SilenceInv'
    <2>1. bus'.difs + silence' >= Difs
      <3>1. silence' \in Nat
        BY RadioConstants, TimePassesInTick
      <3>2. bus'.difs = Difs /\ Difs \in Nat
        BY <1>1, <1>2, RadioConstants
      <3>. QED  BY <3>1, <3>2, Sums
    <2>. QED  BY <1>1, <2>1 DEF SilenceInv
  <1>12. BytesInv' /\ Radio!OneOnAir' /\ NoPeerInv'
    BY <1>2, <1>3, <1>4, TimeKeepsBytes DEF PacketWaits
  <1>13. RadioTypes'
    <2>1. IsBus(bus') /\ IsTransmit(tx') /\ rsp' \in {"idle", "ready", "busy"}
      BY <1>1 DEF RadioTypes
    <2>. QED  BY <1>4, <2>1, TimeKeepsTypes
  <1>. QED  BY <1>7, <1>8, <1>10, <1>11, <1>12, <1>13 DEF RadioInv

LEMMA TickKeeps ==
  ASSUME Timely, RadioTypes, RadioInv, Radio!Tick
  PROVE  RadioTypes' /\ RadioInv'
  <1>1. \/ Radio!TickBusy \/ Radio!TickResponder \/ Radio!TickSuspended
        \/ Radio!TickDifs \/ Radio!TickGiveUp \/ Radio!TickBackoff \/ Radio!TickClaim
    BY DEF Radio!Tick
  <1>2. CASE Radio!TickBusy
    BY <1>2, TickBusyKeeps
  <1>3. CASE Radio!TickResponder
    BY <1>3, TickResponderKeeps
  <1>4. CASE Radio!TickClaim
    BY <1>4, TickClaimKeeps
  <1>5. CASE Radio!TickSuspended \/ Radio!TickDifs \/ Radio!TickGiveUp \/ Radio!TickBackoff
    <2>1. Listened
      BY <1>5, TickSuspendedListens, TickDifsListens, TickGiveUpListens, TickBackoffListens
    <2>. QED  BY <2>1, ListenedKeeps
  <1>. QED  BY <1>1, <1>2, <1>3, <1>4, <1>5

-----------------------------------------------------------------------------
(* The radio, next to the other parts                                      *)

LEMMA RadioInit == Timely /\ Radio!Init => RadioTypes /\ RadioInv
  <1>. SUFFICES ASSUME Timely, Radio!Init PROVE RadioTypes /\ RadioInv
    OBVIOUS
  <1>1. RadioTypes
    BY RadioTypeInit
  <1>2. First = "none" /\ Second = "none" /\ Len(events) <= 2
    BY DEF First, Second, Radio!Init
  <1>3. /\ own = 0 /\ peer.id = 0 /\ peer.ticks = 0 /\ waited = 0 /\ silence = Difs
        /\ bus.state = "idle" /\ bus.difs = Difs /\ tx.state = "idle" /\ rsp = "idle"
        /\ main.pc = "loop" /\ rx = {} /\ fifo = {} /\ overlap = FALSE
    BY DEF Radio!Init, Radio!NoPeer, Radio!Loop, Radio!IdleTx
  <1>4. bus.difs + silence >= Difs
    BY <1>3, RadioConstants
  <1>5. QueueInv /\ OwnInv /\ PeerInv /\ SendInv /\ ParseInv /\ SilenceInv /\ NoPeerInv
    BY <1>2, <1>3, <1>4 DEF QueueInv, OwnInv, PeerInv, SendInv, ParseInv, SilenceInv, NoPeerInv,
       Polls, Announces, Endings, Sends
  <1>6. WaitInv
    BY <1>2, <1>3, RadioConstants DEF WaitInv, Polls, Announces, Endings, Sends
  <1>7. BytesInv /\ Radio!OneOnAir
    BY <1>2, <1>3 DEF BytesInv, PacketWaits, Held, Polls, Radio!OneOnAir
  <1>. QED  BY <1>1, <1>5, <1>6, <1>7 DEF RadioInv

LEMMA RadioStep ==
  ASSUME Timely, RadioTypes, RadioInv, Radio!Next
  PROVE  RadioTypes' /\ RadioInv'
  <1>1. CASE Radio!Poll
    <2>1. \/ Radio!PollReceived \/ Radio!PollReceiving \/ Radio!PollTransmitterReady
          \/ Radio!PollTransmitted \/ Radio!PollResponderReady \/ Radio!PollTryLock
          \/ Radio!PollTryUnlock \/ Radio!ParseReturns \/ Radio!DirectSend
      BY <1>1 DEF Radio!Poll
    <2>. QED  BY <2>1, PollReceivedKeeps, PollReceivingKeeps, PollTransmitterReadyKeeps,
                 PollTransmittedKeeps, PollResponderReadyKeeps, PollTryLockKeeps,
                 PollTryUnlockKeeps, ParseReturnsKeeps, DirectSendKeeps
  <1>2. CASE Radio!SetTransmitter
    BY <1>2, SetTransmitterKeeps
  <1>3. CASE Radio!ClearTransmitter
    BY <1>3, ClearTransmitterKeeps
  <1>4. ASSUME NEW n \in Retrans, Radio!SetTransmitterCache(n)
        PROVE  RadioTypes' /\ RadioInv'
    BY <1>4, SetTransmitterCacheKeeps
  <1>5. CASE Radio!Tick
    BY <1>5, TickKeeps
  <1>6. CASE Radio!PeerStarts
    BY <1>6, PeerStartsKeeps
  <1>7. ASSUME NEW e \in Announces, Radio!Announced(e)
        PROVE  RadioTypes' /\ RadioInv'
    BY <1>7, AnnouncedKeeps
  <1>8. ASSUME NEW e \in Endings, Radio!PeerEnds(e)
        PROVE  RadioTypes' /\ RadioInv'
    BY <1>8, PeerEndsKeeps
  <1>9. CASE Radio!Transmitted
    BY <1>9, TransmittedKeeps
  <1>10. Radio!Announce => \E e \in Announces : Radio!Announced(e)
    BY DEF Radio!Announce, Announces
  <1>11. Radio!PeerDone => \E e \in Endings : Radio!PeerEnds(e)
    BY DEF Radio!PeerDone, Endings
  <1>. QED  BY <1>1, <1>2, <1>3, <1>4, <1>5, <1>6, <1>7, <1>8, <1>9, <1>10, <1>11 DEF Radio!Next

LEMMA SameKeepsRadio ==
  ASSUME RadioTypes, RadioInv, UNCHANGED radioVars
  PROVE  RadioTypes' /\ RadioInv'
  <1>1. UNCHANGED <<bus, tx, rsp, rx, fifo, events, main, own, peer, waited, packets,
                    overlap, aborted, silence>>
    BY DEF radioVars
  <1>2. RadioTypes'
    BY <1>1 DEF RadioTypes, AirTypes
  <1>3. First' = First /\ Second' = Second /\ Len(events') = Len(events)
    BY <1>1, QueueSame
  <1>4. RadioInv'
    BY <1>1, <1>3 DEF RadioInv, QueueInv, OwnInv, PeerInv, WaitInv, SendInv, ParseInv, SilenceInv,
       BytesInv, NoPeerInv, Radio!OneOnAir, PacketWaits, Held, Polls, NoneOnAir
  <1>. QED  BY <1>2, <1>4

LEMMA RadioNextStep ==
  ASSUME Timely, RadioTypes, RadioInv, [Next]_vars
  PROVE  RadioTypes' /\ RadioInv'
  <1>1. CASE Radio!Next
    BY <1>1, RadioStep
  <1>2. CASE UNCHANGED radioVars
    BY <1>2, SameKeepsRadio
  <1>3. Radio!Next \/ UNCHANGED radioVars
    BY DEF Next, Others, vars
  <1>. QED  BY <1>1, <1>2, <1>3

\* Of the radio MAC, next to the other parts: radio_post is never called while a
\* transmission of the station's own runs, whichever of the three places sends,
\* and the parser gets the bytes of one packet, never of two.
THEOREM RadioIsSound == Timely => (Spec => []RadioSound)
  <1>. SUFFICES ASSUME Timely PROVE Spec => []RadioSound
    OBVIOUS
  <1>. DEFINE I == RadioTypes /\ RadioInv
  <1>1. Init => I
    BY RadioInit DEF Init
  <1>2. I /\ [Next]_vars => I'
    BY RadioNextStep
  <1>3. I => RadioSound
    <2>1. RadioTypes => Radio!TypeOK
      BY RadioTypesAre
    <2>2. RadioInv => Radio!OneOnAir /\ BytesInv
      BY DEF RadioInv
    <2>3. BytesInv => Radio!NoMixture
      <3>1. ASSUME BytesInv, main.pc = "parsing", ~ aborted
            PROVE  Cardinality(main.parsed) = 1
        <4>1. ~ Polls
          BY <3>1 DEF Polls
        <4>. QED  BY <3>1, <4>1 DEF BytesInv
      <3>. QED  BY <3>1 DEF Radio!NoMixture, Radio!Cardinality, Cardinality
    <2>. QED  BY <2>1, <2>2, <2>3 DEF RadioSound
  <1>. QED  BY <1>1, <1>2, <1>3, PTL DEF Spec

\* Only a claim of the tick makes the transmitter wait for its post.
LEMMA PostIsSilent ==
  ASSUME Timely, RadioTypes, RadioInv, [Next]_vars, tx.state # "wait_post", tx'.state = "wait_post"
  PROVE  silence' = Difs
  <1>1. Radio!Next
    BY DEF Next, Others, vars, radioVars
  <1>2. ~ (UNCHANGED tx)
    OBVIOUS
  <1>3. ~ Radio!Poll
    <2>1. Radio!SendNow => (tx'.state = "wait_post" <=> tx.state = "wait_post")
      BY WaitsAckIs DEF Radio!SendNow, RadioTypes
    <2>2. Radio!PollTransmitted => (tx'.state = "wait_post" <=> tx.state = "wait_post")
      BY WaitsAckIs DEF Radio!PollTransmitted, RadioTypes
    <2>3. ~ Radio!PollTransmitterReady
      BY QueueTaken DEF Radio!PollTransmitterReady, RadioInv, SendInv
    <2>. QED  BY <1>2, <2>1, <2>2, <2>3 DEF Radio!Poll, Radio!PollReceived, Radio!PollReceiving,
                 Radio!PollResponderReady, Radio!PollTryLock, Radio!PollTryUnlock,
                 Radio!ParseReturns, Radio!DirectSend
  <1>4. ~ Radio!ClearTransmitter
    BY DEF Radio!ClearTransmitter, Radio!Cleared, Radio!IdleTx
  <1>5. ASSUME NEW n \in Retrans, Radio!SetTransmitterCache(n) PROVE FALSE
    BY <1>5 DEF Radio!SetTransmitterCache
  <1>6. Radio!Tick
    BY <1>1, <1>2, <1>3, <1>4, <1>5 DEF Radio!Next, Radio!SetTransmitter, Radio!PeerStarts,
       Radio!Announce, Radio!Announced, Radio!PeerDone, Radio!PeerEnds, Radio!Transmitted
  <1>7. Radio!TickClaim
    <2>1. ~ Radio!TickGiveUp
      BY DEF Radio!TickGiveUp, Radio!Cleared, Radio!IdleTx
    <2>2. ~ Radio!TickBackoff
      BY RetriedIs DEF Radio!TickBackoff, RadioTypes
    <2>. QED  BY <1>2, <1>6, <2>1, <2>2 DEF Radio!Tick, Radio!TickBusy, Radio!TickResponder,
                 Radio!TickSuspended, Radio!TickDifs
  <1>8. peer.id = 0
    BY <1>7, ClaimIs
  <1>. QED  BY <1>6, <1>7, <1>8, ClaimIs, TimePassesInTick, PostedFromRest

\* Of the radio MAC, next to the other parts: a cached message is posted only when
\* the channel has been silent for difs ticks, which is what the tick's counting
\* down of bus.difs is for.
THEOREM ClaimsAreSilent == Timely => (Spec => ClaimsAfterSilence)
  <1>. SUFFICES ASSUME Timely PROVE Spec => ClaimsAfterSilence
    OBVIOUS
  <1>. DEFINE I == RadioTypes /\ RadioInv
  <1>1. Init => I
    BY RadioInit DEF Init
  <1>2. I /\ [Next]_vars => I'
    BY RadioNextStep
  <1>3. I /\ [Next]_vars =>
        [part = "radio" /\ tx.state # "wait_post" /\ tx'.state = "wait_post" => silence' = Difs]_vars
    BY PostIsSilent
  <1>. QED  BY <1>1, <1>2, <1>3, PTL DEF Spec, ClaimsAfterSilence

-----------------------------------------------------------------------------
(***************************************************************************)
(* Of the soft timers: the two lists and the counter stay sound whoever    *)
(* interrupts whom, and the delta list keeps the deadline of every timer,  *)
(* which is the refinement of TimerSpec.                                   *)
(*                                                                         *)
(* A list is looked at through its sums: Sum(l, i), the ticks until the    *)
(* i-th timer expires.  For each of the list's operations a lemma says     *)
(* which sums the new list has; the ticks left of every timer follow.      *)
(***************************************************************************)

-----------------------------------------------------------------------------
\* The natural numbers are the set that has 0 and every successor.
LEMMA Induction ==
  ASSUME NEW S \in SUBSET Nat, 0 \in S, \A n \in S : n + 1 \in S
  PROVE  S = Nat
  <1>. SUFFICES ASSUME Nat \ S # {} PROVE FALSE
    OBVIOUS
  <1>1. PICK x \in Nat \ S : \A y \in Nat \ S : x <= y
    BY LeastNumber
  <1>2. x # 0 /\ x - 1 \in Nat /\ ~ (x <= x - 1)
    OBVIOUS
  <1>3. x - 1 \in S
    BY <1>1, <1>2
  <1>4. (x - 1) + 1 \in S
    BY <1>3
  <1>. QED  BY <1>2, <1>4

-----------------------------------------------------------------------------
(* The sums of the delta list.                                             *)
IsSum(g, l, n) == g = [i \in 0 .. n |-> IF i = 0 THEN 0 ELSE g[i - 1] + l[i].remaining]

\* There is a function of the sums, for every length.
LEMMA SumExists ==
  ASSUME NEW l
  PROVE  \A n \in Nat : \E g : IsSum(g, l, n)
  <1>. DEFINE S == {n \in Nat : \E g : IsSum(g, l, n)}
  <1>1. 0 \in S
    <2>. DEFINE g == [i \in 0 .. 0 |-> 0]
    <2>1. IsSum(g, l, 0)
      BY DEF IsSum
    <2>. QED  BY <2>1
  <1>2. ASSUME NEW n \in S PROVE n + 1 \in S
    <2>1. PICK g : IsSum(g, l, n)
      OBVIOUS
    <2>. DEFINE h == [i \in 0 .. n + 1 |-> IF i = n + 1 THEN g[n] + l[n + 1].remaining ELSE g[i]]
    <2>2. \A i \in 0 .. n : h[i] = g[i] /\ g[i] = IF i = 0 THEN 0 ELSE g[i - 1] + l[i].remaining
      <3>1. \A i \in 0 .. n : g[i] = IF i = 0 THEN 0 ELSE g[i - 1] + l[i].remaining
        BY <2>1 DEF IsSum
      <3>2. \A i \in 0 .. n : h[i] = g[i]
        OBVIOUS
      <3>. QED  BY <3>1, <3>2
    <2>3. ASSUME NEW i \in 0 .. n + 1
          PROVE  h[i] = IF i = 0 THEN 0 ELSE h[i - 1] + l[i].remaining
      <3>1. CASE i = n + 1
        <4>1. h[i] = g[n] + l[n + 1].remaining /\ i # 0 /\ i - 1 = n /\ n \in 0 .. n
          BY <3>1
        <4>. QED  BY <4>1, <2>2, <3>1
      <3>2. CASE i \in 0 .. n
        <4>1. i # 0 => i - 1 \in 0 .. n
          BY <3>2
        <4>. QED  BY <4>1, <2>2, <3>2
      <3>. QED  BY <3>1, <3>2
    <2>4. h = [i \in 0 .. n + 1 |-> h[i]]
      OBVIOUS
    <2>. HIDE DEF h
    <2>5. IsSum(h, l, n + 1)
      BY <2>3, <2>4, Zenon DEF IsSum
    <2>. QED  BY <2>5
  <1>3. S = Nat
    BY <1>1, <1>2, Induction
  <1>. QED  BY <1>3

\* Sums of different lengths agree.
LEMMA SumsAgree ==
  ASSUME NEW l, NEW n \in Nat, NEW m \in Nat, NEW g, IsSum(g, l, n), NEW h, IsSum(h, l, m)
  PROVE  \A i \in Nat : i <= n /\ i <= m => g[i] = h[i]
  <1>. DEFINE S == {i \in Nat : i <= n /\ i <= m => g[i] = h[i]}
  <1>1. 0 \in S
    BY DEF IsSum
  <1>2. ASSUME NEW i \in S PROVE i + 1 \in S
    <2>. SUFFICES ASSUME i + 1 <= n, i + 1 <= m PROVE g[i + 1] = h[i + 1]
      OBVIOUS
    <2>. DEFINE j == i + 1
    <2>1. /\ j \in 0 .. n /\ j \in 0 .. m /\ j # 0 /\ j - 1 = i
          /\ g[i] = h[i]
      OBVIOUS
    <2>. HIDE DEF j
    <2>2. g[j] = g[j - 1] + l[j].remaining /\ h[j] = h[j - 1] + l[j].remaining
      BY <2>1 DEF IsSum
    <2>3. g[j] = h[j]
      BY <2>1, <2>2
    <2>. QED  BY <2>3 DEF j
  <1>3. S = Nat
    BY <1>1, <1>2, Induction
  <1>. QED  BY <1>3

\* What the recursive function of Sum computes, step by step.
LEMMA SumRule ==
  ASSUME NEW l
  PROVE  /\ Timer!Sum(l, 0) = 0
         /\ \A i \in Nat : Timer!Sum(l, i + 1) = Timer!Sum(l, i) + l[i + 1].remaining
  <1>. DEFINE G(n) == CHOOSE g : IsSum(g, l, n)
  <1>1. \A n \in Nat : IsSum(G(n), l, n)
    BY SumExists
  <1>2. \A n : Timer!Sum(l, n) = G(n)[n]
    BY DEF Timer!Sum, IsSum
  <1>. HIDE DEF G
  <1>3. Timer!Sum(l, 0) = 0
    BY <1>1, <1>2 DEF IsSum
  <1>4. ASSUME NEW i \in Nat
        PROVE  Timer!Sum(l, i + 1) = Timer!Sum(l, i) + l[i + 1].remaining
    <2>. DEFINE j == i + 1
    <2>1. j \in Nat /\ j \in 0 .. j /\ j # 0 /\ j - 1 = i /\ i <= j /\ i <= i
      OBVIOUS
    <2>. HIDE DEF j
    <2>2. IsSum(G(j), l, j) /\ IsSum(G(i), l, i)
      BY <1>1, <2>1
    <2>3. G(j)[j] = G(j)[i] + l[j].remaining
      BY <2>1, <2>2 DEF IsSum
    <2>4. G(j)[i] = G(i)[i]
      BY <2>1, <2>2, SumsAgree
    <2>5. Timer!Sum(l, j) = Timer!Sum(l, i) + l[j].remaining
      BY <1>2, <2>3, <2>4
    <2>. QED  BY <2>5 DEF j
  <1>. QED  BY <1>3, <1>4

\* A function that adds up the list is its sum.
AddsUp(f, l, n) == f[0] = 0 /\ \A i \in 1 .. n : f[i] = f[i - 1] + l[i].remaining

\* Induction over the length: the function is the one that Sum computes.
LEMMA SumIs ==
  ASSUME NEW l, NEW n \in Nat, NEW f, AddsUp(f, l, n)
  PROVE  \A i \in 0 .. n : Timer!Sum(l, i) = f[i]
  <1>. DEFINE S == {i \in Nat : i <= n => Timer!Sum(l, i) = f[i]}
  <1>1. 0 \in S
    BY SumRule DEF AddsUp
  <1>2. ASSUME NEW i \in S PROVE i + 1 \in S
    <2>. SUFFICES ASSUME i + 1 <= n PROVE Timer!Sum(l, i + 1) = f[i + 1]
      OBVIOUS
    <2>1. Timer!Sum(l, i + 1) = Timer!Sum(l, i) + l[i + 1].remaining
      BY SumRule
    <2>2. i + 1 \in 1 .. n /\ (i + 1) - 1 = i /\ Timer!Sum(l, i) = f[i]
      OBVIOUS
    <2>. QED  BY <2>1, <2>2 DEF AddsUp
  <1>3. S = Nat
    BY <1>1, <1>2, Induction
  <1>. QED  BY <1>3

\* What a list of timers is made of, whatever the width of the counter.
Entries == [tcb : Timers, remaining : Nat]

\* The sums are natural numbers, and never fall along the list.
LEMMA SumsGrow ==
  ASSUME NEW l \in Seq(Entries)
  PROVE  /\ Timer!Sum(l, 0) = 0
         /\ \A i \in 0 .. Len(l) : Timer!Sum(l, i) \in Nat
         /\ \A i \in 1 .. Len(l) :
              /\ l[i].remaining \in Nat
              /\ Timer!Sum(l, i) = Timer!Sum(l, i - 1) + l[i].remaining
         /\ \A i, j \in 0 .. Len(l) : i <= j => Timer!Sum(l, i) <= Timer!Sum(l, j)
  <1>0. Len(l) \in Nat /\ \A i \in 1 .. Len(l) : l[i].remaining \in Nat
    <2>1. Len(l) \in Nat /\ \A i \in 1 .. Len(l) : l[i] \in Entries
      BY LenProperties, ElementOfSeq
    <2>. QED  BY <2>1 DEF Entries
  <1>1. \A i \in 1 .. Len(l) : Timer!Sum(l, i) = Timer!Sum(l, i - 1) + l[i].remaining
    <2>. TAKE i \in 1 .. Len(l)
    <2>1. i - 1 \in Nat /\ (i - 1) + 1 = i
      BY <1>0
    <2>2. Timer!Sum(l, (i - 1) + 1) = Timer!Sum(l, i - 1) + l[(i - 1) + 1].remaining
      BY <2>1, SumRule
    <2>. QED  BY <2>1, <2>2
  <1>. DEFINE S == {i \in Nat : i <= Len(l) =>
                      \A j \in 0 .. i : Timer!Sum(l, j) \in Nat /\ Timer!Sum(l, j) <= Timer!Sum(l, i)}
  <1>2. 0 \in S
    BY SumRule
  <1>3. ASSUME NEW n \in S PROVE n + 1 \in S
    <2>. SUFFICES ASSUME n + 1 <= Len(l), NEW j \in 0 .. n + 1
                  PROVE  Timer!Sum(l, j) \in Nat /\ Timer!Sum(l, j) <= Timer!Sum(l, n + 1)
      OBVIOUS
    <2>1. /\ n \in 0 .. n /\ Timer!Sum(l, n) \in Nat
          /\ j # n + 1 => Timer!Sum(l, j) <= Timer!Sum(l, n) /\ Timer!Sum(l, j) \in Nat
      BY <1>0
    <2>2. Timer!Sum(l, n + 1) = Timer!Sum(l, n) + l[n + 1].remaining /\ l[n + 1].remaining \in Nat
      BY <1>0, SumRule
    <2>3. Timer!Sum(l, n + 1) \in Nat /\ Timer!Sum(l, n) <= Timer!Sum(l, n + 1)
      BY <2>1, <2>2
    <2>. QED  BY <2>1, <2>3
  <1>4. S = Nat
    BY <1>2, <1>3, Induction
  <1>5. ASSUME NEW i \in 0 .. Len(l), NEW j \in 0 .. i
        PROVE  Timer!Sum(l, j) \in Nat /\ Timer!Sum(l, j) <= Timer!Sum(l, i)
    <2>1. i \in S /\ i <= Len(l)
      BY <1>0, <1>4
    <2>. QED  BY <2>1
  <1>6. \A i \in 0 .. Len(l) : Timer!Sum(l, i) \in Nat
    BY <1>0, <1>5
  <1>7. ASSUME NEW i \in 0 .. Len(l), NEW j \in 0 .. Len(l), i <= j
        PROVE  Timer!Sum(l, i) <= Timer!Sum(l, j)
    BY <1>0, <1>5, <1>7
  <1>. QED  BY <1>0, <1>1, <1>6, <1>7, SumRule

\* The delta list itself: every timer once.
Distinct(l) == \A i, j \in 1 .. Len(l) : l[i].tcb = l[j].tcb => i = j
Delta(l) == l \in Seq(Entries) /\ Distinct(l)

\* Every timer of the list has one place, and IndexOf finds it.
LEMMA PlaceIs ==
  ASSUME NEW l, Delta(l)
  PROVE  /\ \A i \in 1 .. Len(l) :
              l[i].tcb \in Timer!Names(l) /\ Timer!IndexOf(l, l[i].tcb) = i /\ l[i].tcb \in Timers
         /\ \A t \in Timer!Names(l) :
              /\ t \in Timers /\ Timer!IndexOf(l, t) \in 1 .. Len(l)
              /\ l[Timer!IndexOf(l, t)].tcb = t
  <1>1. DOMAIN l = 1 .. Len(l) /\ \A i \in 1 .. Len(l) : l[i].tcb \in Timers
    <2>1. l \in Seq(Entries)
      BY DEF Delta
    <2>2. DOMAIN l = 1 .. Len(l) /\ \A i \in 1 .. Len(l) : l[i] \in Entries
      BY <2>1, LenProperties, ElementOfSeq
    <2>. QED  BY <2>2 DEF Entries
  <1>2. ASSUME NEW t \in Timer!Names(l)
        PROVE  /\ t \in Timers /\ Timer!IndexOf(l, t) \in 1 .. Len(l)
               /\ l[Timer!IndexOf(l, t)].tcb = t
    <2>1. PICK i \in 1 .. Len(l) : l[i].tcb = t
      BY <1>1 DEF Timer!Names
    <2>. QED  BY <1>1, <2>1 DEF Timer!IndexOf
  <1>3. ASSUME NEW i \in 1 .. Len(l)
        PROVE  l[i].tcb \in Timer!Names(l) /\ Timer!IndexOf(l, l[i].tcb) = i
    <2>1. l[i].tcb \in Timer!Names(l)
      BY <1>1 DEF Timer!Names
    <2>. QED  BY <1>2, <2>1 DEF Delta, Distinct
  <1>. QED  BY <1>1, <1>2, <1>3

\* The ticks that the deltas give a timer.
Due(l, t) == Timer!Sum(l, Timer!IndexOf(l, t))

\* A list whose timers have their sums in another one.
LEMMA SumsMove ==
  ASSUME NEW l, Delta(l), NEW m, Delta(m),
         \A j \in 1 .. Len(m) : \E i \in 1 .. Len(l) :
           m[j].tcb = l[i].tcb /\ Timer!Sum(m, j) = Timer!Sum(l, i)
  PROVE  \A t \in Timer!Names(m) : t \in Timer!Names(l) /\ Due(m, t) = Due(l, t)
  <1>. TAKE t \in Timer!Names(m)
  <1>. DEFINE j == Timer!IndexOf(m, t)
  <1>1. j \in 1 .. Len(m) /\ m[j].tcb = t
    BY PlaceIs
  <1>. HIDE DEF j
  <1>2. PICK i \in 1 .. Len(l) : l[i].tcb = t /\ Timer!Sum(m, j) = Timer!Sum(l, i)
    BY <1>1
  <1>3. t \in Timer!Names(l) /\ Timer!IndexOf(l, t) = i
    BY <1>2, PlaceIs
  <1>. QED  BY <1>2, <1>3 DEF Due, j

\* A timer is taken out of the middle, and its time goes to the next one.
TakenOut(l, i) ==
  Timer!RemoveAt(IF i < Len(l) THEN [l EXCEPT ![i + 1].remaining = @ + l[i].remaining] ELSE l, i)

\* The other timers keep their sums when one is taken out.
LEMMA TakenOutKeepsTheSums ==
  ASSUME NEW l, Delta(l), NEW i \in 1 .. Len(l), NEW m, m = TakenOut(l, i)
  PROVE  /\ Delta(m) /\ Len(m) = Len(l) - 1
         /\ Timer!Names(m) = Timer!Names(l) \ {l[i].tcb}
         /\ \A t \in Timer!Names(m) : Due(m, t) = Due(l, t)
         /\ \A j \in 1 .. Len(m) :
              Timer!Sum(m, j) = IF j < i THEN Timer!Sum(l, j) ELSE Timer!Sum(l, j + 1)
  <1>0. l \in Seq(Entries) /\ Len(l) \in Nat /\ \A j \in 1 .. Len(l) : l[j] \in Entries
    <2>1. l \in Seq(Entries)
      BY DEF Delta
    <2>. QED  BY <2>1, LenProperties, ElementOfSeq
  <1>. DEFINE n == Len(l)
              k == IF i < n THEN [l EXCEPT ![i + 1].remaining = @ + l[i].remaining] ELSE l
  <1>1. /\ k \in Seq(Entries) /\ Len(k) = n
        /\ \A j \in 1 .. n : /\ k[j].tcb = l[j].tcb
                             /\ k[j].remaining = IF j = i + 1 THEN l[j].remaining + l[i].remaining
                                                 ELSE l[j].remaining
    <2>1. CASE i < n
      <3>. DEFINE e == [l[i + 1] EXCEPT !.remaining = @ + l[i].remaining]
      <3>1. i + 1 \in 1 .. n /\ l[i + 1] \in Entries /\ l[i] \in Entries
        BY <1>0, <2>1
      <3>2. e \in Entries /\ e.tcb = l[i + 1].tcb /\ e.remaining = l[i + 1].remaining + l[i].remaining
        BY <3>1 DEF Entries
      <3>3. k = [l EXCEPT ![i + 1] = e]
        BY <2>1
      <3>. HIDE DEF e, k
      <3>4. /\ k \in Seq(Entries) /\ Len(k) = n
            /\ \A j \in 1 .. n : k[j] = IF j = i + 1 THEN e ELSE l[j]
        BY <1>0, <3>1, <3>2, <3>3, ExceptSeq
      <3>. QED  BY <3>1, <3>2, <3>4
    <2>2. CASE ~ (i < n)
      BY <1>0, <2>2
    <2>. QED  BY <2>1, <2>2
  <1>2. m = SubSeq(k, 1, i - 1) \o SubSeq(k, i + 1, Len(k))
    BY DEF TakenOut, Timer!RemoveAt
  <1>. HIDE DEF k, n
  <1>3. n = Len(l) /\ n \in Nat /\ i \in 1 .. n /\ \A j \in 1 .. n : k[j] \in Entries
    BY <1>0, <1>1, ElementOfSeq DEF n
  <1>4. /\ SubSeq(k, 1, i - 1) \in Seq(Entries) /\ Len(SubSeq(k, 1, i - 1)) = i - 1
        /\ \A j \in 1 .. i - 1 : SubSeq(k, 1, i - 1)[j] = k[j]
    <2>1. \A j \in 1 .. i - 1 : k[j] \in Entries
      BY <1>3
    <2>2. /\ SubSeq(k, 1, i - 1) \in Seq(Entries)
          /\ Len(SubSeq(k, 1, i - 1)) = IF 1 <= i - 1 THEN (i - 1) - 1 + 1 ELSE 0
          /\ \A j \in 1 .. (i - 1) - 1 + 1 : SubSeq(k, 1, i - 1)[j] = k[1 + j - 1]
      BY <1>3, <2>1, SubSeqProperties
    <2>. QED  BY <1>3, <2>2
  <1>5. /\ SubSeq(k, i + 1, n) \in Seq(Entries) /\ Len(SubSeq(k, i + 1, n)) = n - i
        /\ \A j \in 1 .. n - i : SubSeq(k, i + 1, n)[j] = k[i + j]
    <2>1. \A j \in i + 1 .. n : k[j] \in Entries
      BY <1>3
    <2>2. /\ SubSeq(k, i + 1, n) \in Seq(Entries)
          /\ Len(SubSeq(k, i + 1, n)) = IF i + 1 <= n THEN n - (i + 1) + 1 ELSE 0
          /\ \A j \in 1 .. n - (i + 1) + 1 : SubSeq(k, i + 1, n)[j] = k[(i + 1) + j - 1]
      BY <1>3, <2>1, SubSeqProperties
    <2>3. \A j \in 1 .. n - i : j \in 1 .. n - (i + 1) + 1 /\ (i + 1) + j - 1 = i + j
      BY <1>3
    <2>. QED  BY <1>3, <2>2, <2>3
  <1>6. /\ m \in Seq(Entries) /\ Len(m) = n - 1
        /\ \A j \in 1 .. n - 1 : m[j] = IF j < i THEN k[j] ELSE k[j + 1]
    <2>1. /\ m \in Seq(Entries) /\ Len(m) = (i - 1) + (n - i)
          /\ \A j \in 1 .. (i - 1) + (n - i) :
               m[j] = IF j <= i - 1 THEN SubSeq(k, 1, i - 1)[j] ELSE SubSeq(k, i + 1, n)[j - (i - 1)]
      BY <1>1, <1>2, <1>4, <1>5, ConcatProperties
    <2>2. \A j \in 1 .. n - 1 :
            /\ j \in 1 .. (i - 1) + (n - i)
            /\ j < i <=> j <= i - 1
            /\ j < i => j \in 1 .. i - 1
            /\ ~ (j < i) => j - (i - 1) \in 1 .. n - i /\ i + (j - (i - 1)) = j + 1
      BY <1>3
    <2>. QED  BY <1>3, <1>4, <1>5, <2>1, <2>2
  <1>. DEFINE from == [j \in 1 .. n - 1 |-> IF j < i THEN j ELSE j + 1]
  <1>7. \A j \in 1 .. n - 1 : /\ from[j] \in 1 .. n /\ from[j] # i
                              /\ m[j].tcb = l[from[j]].tcb
                              /\ \A h \in 1 .. n - 1 : from[h] = from[j] => h = j
    BY <1>1, <1>3, <1>6
  <1>8. Delta(m)
    <2>1. \A j, h \in 1 .. n - 1 : l[from[j]].tcb = l[from[h]].tcb => from[j] = from[h]
      BY <1>3, <1>7 DEF Delta, Distinct
    <2>. HIDE DEF from
    <2>. QED  BY <1>6, <1>7, <2>1 DEF Delta, Distinct
  <1>9. \A j \in 0 .. n - 1 :
          Timer!Sum(m, j) = IF j < i THEN Timer!Sum(l, j) ELSE Timer!Sum(l, j + 1)
    <2>. DEFINE f == [j \in 0 .. n - 1 |-> IF j < i THEN Timer!Sum(l, j) ELSE Timer!Sum(l, j + 1)]
    <2>1. f[0] = 0
      BY <1>0, <1>3, SumsGrow
    <2>2. ASSUME NEW j \in 1 .. n - 1
          PROVE  f[j] = f[j - 1] + m[j].remaining
      <3>1. \A h \in 1 .. n : /\ Timer!Sum(l, h) = Timer!Sum(l, h - 1) + l[h].remaining
                              /\ l[h].remaining \in Nat /\ Timer!Sum(l, h - 1) \in Nat
        <4>1. \A h \in 1 .. n : h - 1 \in 0 .. Len(l)
          BY <1>3
        <4>. QED  BY <1>0, <1>3, <4>1, SumsGrow
      <3>2. CASE j < i
        <4>1. j \in 1 .. n /\ j # i + 1 /\ m[j] = k[j] /\ f[j] = Timer!Sum(l, j) /\ f[j - 1] = Timer!Sum(l, j - 1)
          BY <1>3, <1>6, <3>2
        <4>. QED  BY <1>1, <3>1, <4>1
      <3>3. CASE j = i
        <4>1. /\ j + 1 \in 1 .. n /\ j \in 1 .. n /\ m[j] = k[j + 1] /\ f[j] = Timer!Sum(l, j + 1)
              /\ f[j - 1] = Timer!Sum(l, j - 1)
          BY <1>3, <1>6, <3>3
        <4>2. m[j].remaining = l[j + 1].remaining + l[j].remaining
          BY <1>1, <3>3, <4>1
        <4>3. /\ Timer!Sum(l, j + 1) = Timer!Sum(l, j) + l[j + 1].remaining
              /\ Timer!Sum(l, j) = Timer!Sum(l, j - 1) + l[j].remaining
              /\ Timer!Sum(l, j - 1) \in Nat /\ l[j].remaining \in Nat /\ l[j + 1].remaining \in Nat
          <5>1. (j + 1) - 1 = j
            BY <1>3
          <5>. QED  BY <3>1, <4>1, <5>1
        <4>. QED  BY <4>1, <4>2, <4>3
      <3>4. CASE j > i
        <4>1. /\ j + 1 \in 1 .. n /\ j + 1 # i + 1 /\ m[j] = k[j + 1] /\ f[j] = Timer!Sum(l, j + 1)
              /\ f[j - 1] = Timer!Sum(l, j) /\ (j + 1) - 1 = j
          <5>1. /\ j + 1 \in 1 .. n /\ j + 1 # i + 1 /\ ~ (j < i) /\ ~ (j - 1 < i)
                /\ (j - 1) + 1 = j /\ (j + 1) - 1 = j /\ j \in 0 .. n - 1 /\ j - 1 \in 0 .. n - 1
            BY <1>3, <3>4
          <5>2. f[j - 1] = Timer!Sum(l, (j - 1) + 1)
            BY <5>1
          <5>. QED  BY <1>6, <5>1, <5>2
        <4>2. m[j].remaining = l[j + 1].remaining
          BY <1>1, <4>1
        <4>. QED  BY <3>1, <4>1, <4>2
      <3>. QED  BY <1>3, <3>2, <3>3, <3>4
    <2>3. \A j \in 0 .. n - 1 : Timer!Sum(m, j) = f[j]
      <3>1. n - 1 \in Nat
        BY <1>3
      <3>. HIDE DEF f
      <3>2. AddsUp(f, m, n - 1)
        BY <2>1, <2>2 DEF AddsUp
      <3>. QED  BY <3>1, <3>2, SumIs
    <2>. QED  BY <2>3
  <1>10. \A t \in Timer!Names(m) : t \in Timer!Names(l) /\ Due(m, t) = Due(l, t)
    <2>1. \A j \in 1 .. Len(m) : /\ from[j] \in 1 .. Len(l) /\ m[j].tcb = l[from[j]].tcb
                                 /\ Timer!Sum(m, j) = Timer!Sum(l, from[j])
      BY <1>3, <1>6, <1>7, <1>9
    <2>. HIDE DEF from
    <2>2. \A j \in 1 .. Len(m) : \E h \in 1 .. Len(l) :
            m[j].tcb = l[h].tcb /\ Timer!Sum(m, j) = Timer!Sum(l, h)
      BY <2>1
    <2>. QED  BY <1>8, <2>2, SumsMove
  <1>11. Timer!Names(m) = Timer!Names(l) \ {l[i].tcb}
    <2>1. ASSUME NEW t \in Timer!Names(m) PROVE t # l[i].tcb
      <3>1. PICK j \in 1 .. n - 1 : m[j].tcb = t
        BY <1>6, <1>8, <2>1, PlaceIs
      <3>. QED  BY <1>3, <1>7, <3>1 DEF Delta, Distinct
    <2>2. ASSUME NEW t \in Timer!Names(l), t # l[i].tcb PROVE t \in Timer!Names(m)
      <3>1. PICK j \in 1 .. n : l[j].tcb = t /\ j # i
        BY <1>3, <2>2, PlaceIs
      <3>2. PICK h \in 1 .. n - 1 : from[h] = j
        <4>1. CASE j < i
          <5>1. j \in 1 .. n - 1 /\ from[j] = j
            BY <1>3, <3>1, <4>1
          <5>. QED  BY <5>1
        <4>2. CASE j > i
          <5>1. j - 1 \in 1 .. n - 1 /\ from[j - 1] = j
            BY <1>3, <3>1, <4>2
          <5>. QED  BY <5>1
        <4>. QED  BY <1>3, <3>1, <4>1, <4>2
      <3>. HIDE DEF from
      <3>3. m[h].tcb = t /\ h \in 1 .. Len(m)
        BY <1>6, <1>7, <3>1, <3>2
      <3>. QED  BY <1>8, <3>3, PlaceIs
    <2>. QED  BY <1>10, <2>1, <2>2
  <1>. QED  BY <1>3, <1>6, <1>8, <1>9, <1>10, <1>11

\* A timer is put in before another one, which gives it a part of its time.
PutIn(l, t, at, period) ==
  LET delta == period - Timer!Sum(l, at - 1)
  IN Timer!InsertAt(IF at = Len(l) + 1 THEN l ELSE [l EXCEPT ![at].remaining = @ - delta],
                    at, [tcb |-> t, remaining |-> delta])

\* The other timers keep their sums when one is put in, and it gets its period.
LEMMA PutInKeepsTheSums ==
  ASSUME NEW l, Delta(l), NEW t \in Timers, t \notin Timer!Names(l), NEW period \in Nat,
         NEW at \in 1 .. Len(l) + 1, Timer!Sum(l, at - 1) <= period,
         at # Len(l) + 1 => Timer!Sum(l, at) >= period,
         NEW m, m = PutIn(l, t, at, period)
  PROVE  /\ Delta(m) /\ Len(m) = Len(l) + 1
         /\ Timer!Names(m) = Timer!Names(l) \union {t}
         /\ Due(m, t) = period /\ \A u \in Timer!Names(l) : Due(m, u) = Due(l, u)
         /\ \A j \in 0 .. Len(l) + 1 :
              Timer!Sum(m, j) = IF j < at THEN Timer!Sum(l, j)
                                ELSE IF j = at THEN period ELSE Timer!Sum(l, j - 1)
  <1>0. l \in Seq(Entries) /\ Len(l) \in Nat /\ \A j \in 1 .. Len(l) : l[j] \in Entries
    <2>1. l \in Seq(Entries)
      BY DEF Delta
    <2>. QED  BY <2>1, LenProperties, ElementOfSeq
  <1>. DEFINE n == Len(l)
              delta == period - Timer!Sum(l, at - 1)
              k == IF at = n + 1 THEN l ELSE [l EXCEPT ![at].remaining = @ - delta]
              x == [tcb |-> t, remaining |-> delta]
  <1>1. at - 1 \in 0 .. n /\ Timer!Sum(l, at - 1) \in Nat /\ delta \in Nat /\ x \in Entries
    <2>1. at - 1 \in 0 .. n
      BY <1>0
    <2>2. Timer!Sum(l, at - 1) \in Nat
      BY <1>0, <2>1, SumsGrow
    <2>. QED  BY <2>1, <2>2 DEF Entries
  <1>2. at # n + 1 => /\ at \in 1 .. n /\ l[at].remaining - delta \in Nat
                      /\ Timer!Sum(l, at) = Timer!Sum(l, at - 1) + l[at].remaining
                      /\ l[at].remaining \in Nat
    <2>. SUFFICES ASSUME at # n + 1
                  PROVE  /\ at \in 1 .. n /\ l[at].remaining - delta \in Nat
                         /\ Timer!Sum(l, at) = Timer!Sum(l, at - 1) + l[at].remaining
                         /\ l[at].remaining \in Nat
      OBVIOUS
    <2>1. at \in 1 .. n
      BY <1>0
    <2>2. Timer!Sum(l, at) = Timer!Sum(l, at - 1) + l[at].remaining /\ l[at].remaining \in Nat
      BY <1>0, <2>1, SumsGrow
    <2>. QED  BY <1>1, <2>1, <2>2
  <1>3. /\ k \in Seq(Entries) /\ Len(k) = n
        /\ \A j \in 1 .. n : /\ k[j].tcb = l[j].tcb
                             /\ k[j].remaining = IF j = at THEN l[j].remaining - delta
                                                 ELSE l[j].remaining
    <2>1. CASE at # n + 1
      <3>. DEFINE e == [l[at] EXCEPT !.remaining = @ - delta]
      <3>1. at \in 1 .. n /\ l[at] \in Entries /\ l[at].remaining - delta \in Nat
        BY <1>0, <1>2, <2>1
      <3>2. k = [l EXCEPT ![at] = e]
        BY <2>1
      <3>. HIDE DEF k, delta
      <3>3. e \in Entries /\ e.tcb = l[at].tcb /\ e.remaining = l[at].remaining - delta
        BY <3>1 DEF Entries
      <3>. HIDE DEF e
      <3>4. /\ k \in Seq(Entries) /\ Len(k) = n
            /\ \A j \in 1 .. n : k[j] = IF j = at THEN e ELSE l[j]
        BY <1>0, <3>1, <3>2, <3>3, ExceptSeq
      <3>. QED  BY <3>1, <3>3, <3>4
    <2>2. CASE at = n + 1
      BY <1>0, <2>2
    <2>. QED  BY <2>1, <2>2
  <1>4. m = (SubSeq(k, 1, at - 1) \o <<x>>) \o SubSeq(k, at, Len(k))
    BY DEF PutIn, Timer!InsertAt
  <1>. HIDE DEF k, n, x
  <1>5. /\ n = Len(l) /\ n \in Nat /\ at \in 1 .. n + 1 /\ \A j \in 1 .. n : k[j] \in Entries
        /\ x.tcb = t /\ x.remaining = delta
    BY <1>0, <1>3, ElementOfSeq DEF n, x
  <1>. HIDE DEF delta
  <1>6. /\ SubSeq(k, 1, at - 1) \in Seq(Entries) /\ Len(SubSeq(k, 1, at - 1)) = at - 1
        /\ \A j \in 1 .. at - 1 : SubSeq(k, 1, at - 1)[j] = k[j]
    <2>1. \A j \in 1 .. at - 1 : k[j] \in Entries
      BY <1>5
    <2>2. /\ SubSeq(k, 1, at - 1) \in Seq(Entries)
          /\ Len(SubSeq(k, 1, at - 1)) = IF 1 <= at - 1 THEN (at - 1) - 1 + 1 ELSE 0
          /\ \A j \in 1 .. (at - 1) - 1 + 1 : SubSeq(k, 1, at - 1)[j] = k[1 + j - 1]
      BY <1>5, <2>1, SubSeqProperties
    <2>. QED  BY <1>5, <2>2
  <1>7. /\ SubSeq(k, at, n) \in Seq(Entries) /\ Len(SubSeq(k, at, n)) = n - at + 1
        /\ \A j \in 1 .. n - at + 1 : SubSeq(k, at, n)[j] = k[at + j - 1]
    <2>1. \A j \in at .. n : k[j] \in Entries
      BY <1>5
    <2>2. /\ SubSeq(k, at, n) \in Seq(Entries)
          /\ Len(SubSeq(k, at, n)) = IF at <= n THEN n - at + 1 ELSE 0
          /\ \A j \in 1 .. n - at + 1 : SubSeq(k, at, n)[j] = k[at + j - 1]
      BY <1>5, <2>1, SubSeqProperties
    <2>. QED  BY <1>5, <2>2
  <1>8. /\ <<x>> \in Seq(Entries) /\ Len(<<x>>) = 1 /\ <<x>>[1] = x
    BY <1>1
  <1>. DEFINE p == SubSeq(k, 1, at - 1) \o <<x>>
  <1>9. /\ p \in Seq(Entries) /\ Len(p) = at /\ p[at] = x
        /\ \A j \in 1 .. at - 1 : p[j] = k[j]
    <2>1. /\ p \in Seq(Entries) /\ Len(p) = (at - 1) + 1
          /\ \A j \in 1 .. (at - 1) + 1 :
               p[j] = IF j <= at - 1 THEN SubSeq(k, 1, at - 1)[j] ELSE <<x>>[j - (at - 1)]
      BY <1>6, <1>8, ConcatProperties
    <2>. HIDE DEF p
    <2>2. /\ (at - 1) + 1 = at /\ at \in 1 .. at /\ ~ (at <= at - 1) /\ at - (at - 1) = 1
          /\ \A j \in 1 .. at - 1 : j \in 1 .. at /\ j <= at - 1
      BY <1>5
    <2>. QED  BY <1>6, <1>8, <2>1, <2>2
  <1>. HIDE DEF p
  <1>10. /\ m \in Seq(Entries) /\ Len(m) = n + 1
         /\ \A j \in 1 .. n + 1 : m[j] = IF j < at THEN k[j] ELSE IF j = at THEN x ELSE k[j - 1]
    <2>1. /\ m \in Seq(Entries) /\ Len(m) = at + (n - at + 1)
          /\ \A j \in 1 .. at + (n - at + 1) :
               m[j] = IF j <= at THEN p[j] ELSE SubSeq(k, at, n)[j - at]
      <3>1. m = p \o SubSeq(k, at, n)
        BY <1>3, <1>4 DEF p
      <3>. QED  BY <3>1, <1>7, <1>9, ConcatProperties
    <2>2. \A j \in 1 .. n + 1 :
            /\ j \in 1 .. at + (n - at + 1)
            /\ j < at => j <= at /\ j \in 1 .. at - 1
            /\ j > at => ~ (j <= at) /\ j - at \in 1 .. n - at + 1 /\ at + (j - at) - 1 = j - 1
            /\ j < at \/ j = at \/ j > at
      BY <1>5
    <2>3. at + (n - at + 1) = n + 1
      BY <1>5
    <2>4. ASSUME NEW j \in 1 .. n + 1
          PROVE  m[j] = IF j < at THEN k[j] ELSE IF j = at THEN x ELSE k[j - 1]
      <3>1. CASE j < at
        BY <1>9, <2>1, <2>2, <3>1
      <3>2. CASE j = at
        <4>1. at <= at /\ ~ (at < at)
          BY <1>5
        <4>. QED  BY <1>9, <2>1, <2>2, <3>2, <4>1
      <3>3. CASE j > at
        <4>1. ~ (j < at) /\ j # at
          BY <1>5, <3>3
        <4>. QED  BY <1>7, <2>1, <2>2, <3>3, <4>1
      <3>. QED  BY <2>2, <3>1, <3>2, <3>3
    <2>. QED  BY <2>1, <2>3, <2>4
  <1>. DEFINE to(j) == IF j < at THEN j ELSE j + 1
  <1>11. /\ \A j \in 1 .. n : to(j) \in 1 .. n + 1 /\ to(j) # at /\ m[to(j)].tcb = l[j].tcb
         /\ \A i \in 1 .. n + 1 : i = at \/ \E j \in 1 .. n : i = to(j)
         /\ m[at].tcb = t
    <2>1. \A j \in 1 .. n : to(j) \in 1 .. n + 1 /\ to(j) # at /\ m[to(j)].tcb = l[j].tcb
      <3>. SUFFICES ASSUME NEW j \in 1 .. n
                    PROVE  to(j) \in 1 .. n + 1 /\ to(j) # at /\ m[to(j)].tcb = l[j].tcb
        OBVIOUS
      <3>1. CASE j < at
        BY <1>3, <1>5, <1>10, <3>1
      <3>2. CASE ~ (j < at)
        <4>1. j + 1 \in 1 .. n + 1 /\ ~ (j + 1 < at) /\ j + 1 # at /\ (j + 1) - 1 = j
          BY <1>5, <3>2
        <4>2. m[j + 1] = k[(j + 1) - 1]
          BY <1>10, <4>1
        <4>. QED  BY <1>3, <3>2, <4>1, <4>2
      <3>. QED  BY <3>1, <3>2
    <2>2. ASSUME NEW i \in 1 .. n + 1, i # at PROVE \E j \in 1 .. n : i = to(j)
      <3>1. CASE i < at
        <4>1. i \in 1 .. n /\ to(i) = i
          BY <1>5, <3>1
        <4>. QED  BY <4>1
      <3>2. CASE i > at
        <4>1. i - 1 \in 1 .. n /\ to(i - 1) = i
          BY <1>5, <3>2
        <4>. QED  BY <4>1
      <3>. QED  BY <1>5, <2>2, <3>1, <3>2
    <2>3. m[at].tcb = t
      BY <1>5, <1>10
    <2>. QED  BY <2>1, <2>2, <2>3
  <1>12. \A j, h \in 1 .. n : to(j) = to(h) => j = h
    BY <1>5
  <1>13. Delta(m)
    <2>. SUFFICES ASSUME NEW i \in 1 .. n + 1, NEW h \in 1 .. n + 1, m[i].tcb = m[h].tcb PROVE i = h
      BY <1>10 DEF Delta, Distinct
    <2>1. \A j \in 1 .. n : l[j].tcb # t
      BY <1>5, PlaceIs
    <2>. HIDE DEF to
    <2>2. CASE i = at
      BY <1>11, <2>1, <2>2
    <2>3. CASE h = at
      BY <1>11, <2>1, <2>3
    <2>4. CASE i # at /\ h # at
      <3>1. PICK j \in 1 .. n : i = to(j)
        BY <1>11, <2>4
      <3>2. PICK g \in 1 .. n : h = to(g)
        BY <1>11, <2>4
      <3>3. l[j].tcb = l[g].tcb
        BY <1>11, <3>1, <3>2
      <3>4. j = g
        BY <1>5, <3>3 DEF Delta, Distinct
      <3>. QED  BY <3>1, <3>2, <3>4
    <2>. QED  BY <2>2, <2>3, <2>4
  <1>14. \A j \in 0 .. n + 1 :
           Timer!Sum(m, j) = IF j < at THEN Timer!Sum(l, j)
                             ELSE IF j = at THEN period ELSE Timer!Sum(l, j - 1)
    <2>. DEFINE f == [j \in 0 .. n + 1 |-> IF j < at THEN Timer!Sum(l, j)
                                           ELSE IF j = at THEN period ELSE Timer!Sum(l, j - 1)]
    <2>1. f[0] = 0
      BY <1>0, <1>5, SumsGrow
    <2>2. ASSUME NEW j \in 1 .. n + 1
          PROVE  f[j] = f[j - 1] + m[j].remaining
      <3>1. \A h \in 1 .. n : /\ Timer!Sum(l, h) = Timer!Sum(l, h - 1) + l[h].remaining
                              /\ l[h].remaining \in Nat /\ Timer!Sum(l, h - 1) \in Nat
        <4>1. \A h \in 1 .. n : h - 1 \in 0 .. Len(l)
          BY <1>5
        <4>. QED  BY <1>0, <1>5, <4>1, SumsGrow
      <3>2. CASE j < at
        <4>1. j \in 1 .. n /\ j # at /\ m[j] = k[j] /\ f[j] = Timer!Sum(l, j) /\ f[j - 1] = Timer!Sum(l, j - 1)
          BY <1>5, <1>10, <3>2
        <4>. QED  BY <1>3, <3>1, <4>1
      <3>3. CASE j = at
        <4>1. m[j] = x /\ f[j] = period /\ f[j - 1] = Timer!Sum(l, at - 1)
          BY <1>5, <1>10, <3>3
        <4>. QED  BY <1>1, <1>5, <4>1 DEF delta
      <3>4. CASE j = at + 1
        <4>1. /\ at \in 1 .. n /\ at # n + 1 /\ j - 1 = at /\ ~ (j < at) /\ j # at /\ ~ (at < at)
              /\ at \in 0 .. n + 1
          BY <1>5, <3>4
        <4>2. /\ m[j] = k[at] /\ f[j] = Timer!Sum(l, at) /\ f[j - 1] = period
          BY <1>10, <4>1
        <4>3. m[j].remaining = l[at].remaining - delta
          BY <1>3, <4>1, <4>2
        <4>. QED  BY <1>1, <1>2, <4>1, <4>2, <4>3 DEF delta
      <3>5. CASE j > at + 1
        <4>1. /\ j - 1 \in 1 .. n /\ j - 1 # at /\ ~ (j < at) /\ j # at /\ ~ (j - 1 < at)
              /\ j - 1 \in 0 .. n + 1
          BY <1>5, <3>5
        <4>2. /\ m[j] = k[j - 1] /\ f[j] = Timer!Sum(l, j - 1) /\ f[j - 1] = Timer!Sum(l, (j - 1) - 1)
          BY <1>10, <4>1
        <4>3. m[j].remaining = l[j - 1].remaining
          BY <1>3, <4>1, <4>2
        <4>. QED  BY <3>1, <4>1, <4>2, <4>3
      <3>. QED  BY <1>5, <3>2, <3>3, <3>4, <3>5
    <2>3. \A j \in 0 .. n + 1 : Timer!Sum(m, j) = f[j]
      <3>1. n + 1 \in Nat
        BY <1>5
      <3>. HIDE DEF f
      <3>2. AddsUp(f, m, n + 1)
        BY <2>1, <2>2 DEF AddsUp
      <3>. QED  BY <3>1, <3>2, SumIs
    <2>. QED  BY <2>3
  <1>15. \A u \in Timer!Names(l) : u \in Timer!Names(m) /\ Due(l, u) = Due(m, u)
    <2>1. ASSUME NEW j \in 1 .. n PROVE Timer!Sum(l, j) = Timer!Sum(m, to(j))
      <3>1. CASE j < at
        <4>1. j \in 0 .. n + 1
          BY <1>5
        <4>. QED  BY <1>14, <3>1, <4>1
      <3>2. CASE ~ (j < at)
        <4>1. j + 1 \in 0 .. n + 1 /\ ~ (j + 1 < at) /\ j + 1 # at /\ (j + 1) - 1 = j
          BY <1>5, <3>2
        <4>2. Timer!Sum(m, j + 1) = Timer!Sum(l, (j + 1) - 1)
          BY <1>14, <4>1
        <4>. QED  BY <3>2, <4>1, <4>2
      <3>. QED  BY <3>1, <3>2
    <2>. HIDE DEF to
    <2>2. \A j \in 1 .. Len(l) : \E h \in 1 .. Len(m) :
            l[j].tcb = m[h].tcb /\ Timer!Sum(l, j) = Timer!Sum(m, h)
      BY <1>5, <1>10, <1>11, <2>1
    <2>. QED  BY <1>13, <2>2, SumsMove
  <1>16. t \in Timer!Names(m) /\ Due(m, t) = period
    <2>1. at \in 1 .. Len(m) /\ m[at].tcb = t /\ at \in 0 .. n + 1 /\ ~ (at < at)
      BY <1>5, <1>10, <1>11
    <2>2. t \in Timer!Names(m) /\ Timer!IndexOf(m, t) = at
      BY <1>13, <2>1, PlaceIs
    <2>. QED  BY <1>14, <2>1, <2>2 DEF Due
  <1>17. Timer!Names(m) \subseteq Timer!Names(l) \union {t}
    <2>. SUFFICES ASSUME NEW u \in Timer!Names(m), u # t PROVE u \in Timer!Names(l)
      OBVIOUS
    <2>1. PICK i \in 1 .. n + 1 : m[i].tcb = u
      BY <1>10, <1>13, PlaceIs
    <2>. HIDE DEF to
    <2>2. PICK j \in 1 .. n : i = to(j)
      BY <1>11, <2>1
    <2>. QED  BY <1>5, <1>11, <2>1, <2>2, PlaceIs
  <1>. QED  BY <1>5, <1>10, <1>13, <1>14, <1>15, <1>16, <1>17

\* The first timers are cut off, and what time was left goes to the next one.
CutOff(l, e, time) == LET m == SubSeq(l, e + 1, Len(l))
                      IN IF m = <<>> THEN m ELSE [m EXCEPT ![1].remaining = @ + time]

\* The same, entry by entry.
IsCutOff(m, l, e, time) ==
  /\ m \in Seq(Entries) /\ Len(m) = Len(l) - e
  /\ \A j \in 1 .. Len(l) - e :
       /\ m[j].tcb = l[e + j].tcb
       /\ m[j].remaining = IF j = 1 THEN l[e + 1].remaining + time
                           ELSE l[e + j].remaining

\* What SubSeq and the addition make of the list.
LEMMA CutOffIs ==
  ASSUME NEW l, Delta(l), NEW e \in 1 .. Len(l), NEW time \in Nat
  PROVE  IsCutOff(CutOff(l, e, time), l, e, time)
  <1>. DEFINE m == CutOff(l, e, time)
  <1>0. l \in Seq(Entries) /\ Len(l) \in Nat /\ \A j \in 1 .. Len(l) : l[j] \in Entries
    <2>1. l \in Seq(Entries)
      BY DEF Delta
    <2>. QED  BY <2>1, LenProperties, ElementOfSeq
  <1>. DEFINE n == Len(l)
              r == SubSeq(l, e + 1, n)
  <1>1. /\ n \in Nat /\ e \in 1 .. n /\ l[1] \in Entries /\ l[1].remaining \in Nat
        /\ \A i \in 1 .. n : l[i].remaining \in Nat
    BY <1>0 DEF Entries
  <1>2. /\ r \in Seq(Entries) /\ Len(r) = n - e
        /\ \A j \in 1 .. n - e : r[j] = l[e + j]
    <2>1. \A j \in e + 1 .. n : l[j] \in Entries
      BY <1>0
    <2>2. /\ r \in Seq(Entries)
          /\ Len(r) = IF e + 1 <= n THEN n - (e + 1) + 1 ELSE 0
          /\ \A j \in 1 .. n - (e + 1) + 1 : r[j] = l[(e + 1) + j - 1]
      BY <1>1, <2>1, SubSeqProperties
    <2>3. \A j \in 1 .. n - e : j \in 1 .. n - (e + 1) + 1 /\ (e + 1) + j - 1 = e + j
      BY <1>1
    <2>4. Len(r) = n - e
      BY <1>1, <2>2
    <2>. HIDE DEF r
    <2>. QED  BY <2>2, <2>3, <2>4
  <1>3. /\ m \in Seq(Entries) /\ Len(m) = n - e
        /\ \A j \in 1 .. n - e :
             /\ m[j].tcb = l[e + j].tcb
             /\ m[j].remaining = IF j = 1 THEN l[e + 1].remaining + time
                                 ELSE l[e + j].remaining
    <2>1. m = IF r = <<>> THEN r ELSE [r EXCEPT ![1].remaining = @ + time]
      BY DEF CutOff
    <2>. HIDE DEF m
    <2>. HIDE DEF r
    <2>2. CASE r = <<>>
      <3>1. n - e = 0
        BY <1>1, <1>2, <2>2
      <3>. QED  BY <1>2, <2>1, <2>2, <3>1
    <2>3. CASE r # <<>>
      <3>. DEFINE x == [r[1] EXCEPT !.remaining = @ + time]
      <3>1. 1 \in 1 .. Len(r) /\ r[1] \in Entries /\ 1 \in 1 .. n - e
        <4>1. Len(r) \in Nat \ {0}
          BY <1>2, <2>3, EmptySeq
        <4>. QED  BY <1>2, <4>1, ElementOfSeq
      <3>2. m = [r EXCEPT ![1] = x]
        BY <2>1, <2>3
      <3>5. r[1].remaining + time \in Nat
        BY <3>1 DEF Entries
      <3>3. x \in Entries /\ x.tcb = r[1].tcb /\ x.remaining = r[1].remaining + time
        BY <3>1, <3>5 DEF Entries
      <3>. HIDE DEF x
      <3>4. /\ m \in Seq(Entries) /\ Len(m) = Len(r)
            /\ \A j \in 1 .. Len(r) : m[j] = IF j = 1 THEN x ELSE r[j]
        BY <1>2, <3>1, <3>2, <3>3, ExceptSeq
      <3>. QED  BY <1>2, <3>1, <3>3, <3>4
    <2>. QED  BY <2>2, <2>3
  <1>. QED  BY <1>3 DEF IsCutOff

\* The first e timers expire together.
Together(l, e) == \A i \in 2 .. e : l[i].remaining = 0
Firsts(l, e) == {l[i].tcb : i \in 1 .. e}

\* The timers that stay keep their sums when the first ones, which expire together, go.
LEMMA CutOffKeepsTheSums ==
  ASSUME NEW l, Delta(l), NEW e \in 1 .. Len(l), Together(l, e),
         NEW m, IsCutOff(m, l, e, l[1].remaining)
  PROVE  /\ Delta(m) /\ Len(m) = Len(l) - e
         /\ Timer!Names(m) = Timer!Names(l) \ Firsts(l, e)
         /\ \A t \in Timer!Names(m) : Due(m, t) = Due(l, t)
         /\ \A i \in 1 .. e : Timer!Sum(l, i) = l[1].remaining
         /\ \A j \in 1 .. Len(m) : Timer!Sum(m, j) = Timer!Sum(l, e + j)
  <1>0. l \in Seq(Entries) /\ Len(l) \in Nat /\ \A j \in 1 .. Len(l) : l[j] \in Entries
    <2>1. l \in Seq(Entries)
      BY DEF Delta
    <2>. QED  BY <2>1, LenProperties, ElementOfSeq
  <1>. DEFINE n == Len(l)
  <1>1. /\ n \in Nat /\ e \in 1 .. n /\ l[1] \in Entries /\ l[1].remaining \in Nat
        /\ \A i \in 1 .. n : l[i].remaining \in Nat
    BY <1>0 DEF Entries
  <1>3. /\ m \in Seq(Entries) /\ Len(m) = n - e
        /\ \A j \in 1 .. n - e :
             /\ m[j].tcb = l[e + j].tcb
             /\ m[j].remaining = IF j = 1 THEN l[e + 1].remaining + l[1].remaining
                                 ELSE l[e + j].remaining
    BY DEF IsCutOff
  <1>. HIDE DEF n
  <1>4. \A j, h \in 1 .. n - e : e + j \in 1 .. n /\ (e + j = e + h => j = h)
    BY <1>1
  <1>5. n = Len(l)
    BY DEF n
  <1>6. Delta(m)
    <2>. SUFFICES ASSUME NEW j \in 1 .. n - e, NEW h \in 1 .. n - e, m[j].tcb = m[h].tcb PROVE j = h
      BY <1>3 DEF Delta, Distinct
    <2>1. l[e + j].tcb = l[e + h].tcb /\ e + j \in 1 .. Len(l) /\ e + h \in 1 .. Len(l)
      BY <1>3, <1>4, <1>5
    <2>2. e + j = e + h
      BY <2>1 DEF Delta, Distinct
    <2>. QED  BY <1>4, <2>2
  <1>7. \A i \in 1 .. n : /\ Timer!Sum(l, i) = Timer!Sum(l, i - 1) + l[i].remaining
                          /\ Timer!Sum(l, i) \in Nat /\ Timer!Sum(l, i - 1) \in Nat
    <2>1. \A i \in 1 .. n : i - 1 \in 0 .. Len(l) /\ i \in 0 .. Len(l)
      BY <1>1, <1>5
    <2>. QED  BY <1>0, <1>5, <2>1, SumsGrow
  <1>8. \A i \in 1 .. e : Timer!Sum(l, i) = l[1].remaining
    <2>. DEFINE S == {i \in Nat : i + 1 <= e => Timer!Sum(l, i + 1) = l[1].remaining}
    <2>1. 0 \in S
      <3>1. 1 - 1 = 0 /\ 0 + 1 = 1 /\ 1 \in 1 .. n
        BY <1>1
      <3>2. Timer!Sum(l, 1) = Timer!Sum(l, 0) + l[1].remaining /\ Timer!Sum(l, 0) = 0
        BY <1>7, <3>1, SumRule
      <3>. QED  BY <1>1, <3>2
    <2>2. ASSUME NEW i \in S PROVE i + 1 \in S
      <3>. SUFFICES ASSUME (i + 1) + 1 <= e PROVE Timer!Sum(l, (i + 1) + 1) = l[1].remaining
        OBVIOUS
      <3>. DEFINE h == (i + 1) + 1
      <3>1. /\ h \in 1 .. n /\ h \in 2 .. e /\ h - 1 = i + 1
            /\ Timer!Sum(l, i + 1) = l[1].remaining
        BY <1>1
      <3>. HIDE DEF h
      <3>2. Timer!Sum(l, h) = Timer!Sum(l, h - 1) + l[h].remaining /\ l[h].remaining = 0
        BY <1>7, <3>1 DEF Together
      <3>3. Timer!Sum(l, h) = l[1].remaining
        BY <1>1, <3>1, <3>2
      <3>. QED  BY <3>3 DEF h
    <2>3. S = Nat
      BY <2>1, <2>2, Induction
    <2>. TAKE i \in 1 .. e
    <2>4. i - 1 \in Nat /\ (i - 1) + 1 = i /\ i <= e
      BY <1>1
    <2>5. Timer!Sum(l, (i - 1) + 1) = l[1].remaining
      BY <2>3, <2>4
    <2>. QED  BY <2>4, <2>5
  <1>9. \A j \in 1 .. n - e : Timer!Sum(m, j) = Timer!Sum(l, e + j)
    <2>. DEFINE f == [j \in 0 .. n - e |-> IF j = 0 THEN 0 ELSE Timer!Sum(l, e + j)]
    <2>1. f[0] = 0
      BY <1>1
    <2>2. ASSUME NEW j \in 1 .. n - e
          PROVE  f[j] = f[j - 1] + m[j].remaining
      <3>1. CASE j = 1
        <4>1. /\ f[j] = Timer!Sum(l, e + 1) /\ f[j - 1] = 0 /\ e + 1 \in 1 .. n /\ (e + 1) - 1 = e
              /\ e \in 1 .. e
          BY <1>1, <3>1
        <4>2. /\ Timer!Sum(l, e + 1) = Timer!Sum(l, (e + 1) - 1) + l[e + 1].remaining
              /\ Timer!Sum(l, e) = l[1].remaining
              /\ m[j].remaining = l[e + 1].remaining + l[1].remaining
          BY <1>3, <1>7, <1>8, <3>1, <4>1
        <4>. QED  BY <1>1, <4>1, <4>2
      <3>2. CASE j # 1
        <4>0. e + j \in 1 .. n
          BY <1>4
        <4>1. /\ e + j \in 1 .. n /\ e + (j - 1) = (e + j) - 1 /\ j # 0 /\ j - 1 # 0
              /\ j - 1 \in 0 .. n - e
          <5>1. n \in Nat /\ e \in Nat
            BY <1>1
          <5>. QED  BY <3>2, <4>0, <5>1
        <4>2. f[j] = Timer!Sum(l, e + j) /\ f[j - 1] = Timer!Sum(l, (e + j) - 1)
          BY <4>1
        <4>. QED  BY <1>3, <1>7, <3>2, <4>1, <4>2
      <3>. QED  BY <3>1, <3>2
    <2>3. \A j \in 0 .. n - e : Timer!Sum(m, j) = f[j]
      <3>1. n - e \in Nat
        BY <1>1
      <3>. HIDE DEF f
      <3>2. AddsUp(f, m, n - e)
        BY <2>1, <2>2 DEF AddsUp
      <3>. QED  BY <3>1, <3>2, SumIs
    <2>. QED  BY <2>3
  <1>10. \A t \in Timer!Names(m) : t \in Timer!Names(l) /\ Due(m, t) = Due(l, t)
    <2>1. \A j \in 1 .. Len(m) : \E h \in 1 .. Len(l) :
            m[j].tcb = l[h].tcb /\ Timer!Sum(m, j) = Timer!Sum(l, h)
      BY <1>3, <1>4, <1>5, <1>9
    <2>. QED  BY <1>6, <2>1, SumsMove
  <1>11. Timer!Names(m) = Timer!Names(l) \ Firsts(l, e)
    <2>1. ASSUME NEW t \in Timer!Names(m), NEW i \in 1 .. e PROVE t # l[i].tcb
      <3>1. PICK j \in 1 .. n - e : m[j].tcb = t
        BY <1>3, <1>6, <2>1, PlaceIs
      <3>2. e + j \in 1 .. Len(l) /\ i \in 1 .. Len(l) /\ e + j # i /\ l[e + j].tcb = t
        BY <1>1, <1>3, <1>5, <3>1
      <3>. QED  BY <3>2 DEF Delta, Distinct
    <2>2. ASSUME NEW t \in Timer!Names(l), t \notin Firsts(l, e)
          PROVE  t \in Timer!Names(m)
      <3>1. PICK h \in 1 .. n : l[h].tcb = t /\ ~ (h \in 1 .. e)
        BY <1>5, <2>2, PlaceIs DEF Firsts
      <3>2. h - e \in 1 .. n - e /\ e + (h - e) = h
        BY <1>1, <3>1
      <3>3. m[h - e].tcb = t /\ h - e \in 1 .. Len(m)
        BY <1>3, <3>1, <3>2
      <3>. QED  BY <1>6, <3>3, PlaceIs
    <2>. QED  BY <1>10, <2>1, <2>2 DEF Firsts
  <1>. QED  BY <1>3, <1>5, <1>6, <1>8, <1>9, <1>10, <1>11

-----------------------------------------------------------------------------
(* A list with its counter, as the operators of the model take it.         *)

\* The ticks left of every timer.
Ticks(q) == [t \in Timer!Names(q.active) |->
               q.count + Due(q.active, t) - q.active[1].remaining]

Total(l) == Timer!Sum(l, Len(l))
Width == 0 .. CountWord - 1

\* A counter that does not overflow, whichever timers follow.
Sound(q) ==
  /\ Delta(q.active)
  /\ \A i \in 1 .. Len(q.active) : q.active[i].remaining \in Width
  /\ q.count \in Width
  /\ q.active # <<>> => q.count + Total(q.active) - q.active[1].remaining \in Width
Awake(q) == q.active # <<>> => q.count > 0

\* What the timers assume of their constants.
LEMMA WordIs == CountWord \in Nat \ {0} /\ Periods \subseteq 1 .. CountWord - 1
  BY PartsAssumption DEF Timer!TimerAssumption

\* What every delta list is.
LEMMA DeltaIs ==
  ASSUME NEW l, Delta(l)
  PROVE  /\ l \in Seq(Entries) /\ Len(l) \in Nat /\ DOMAIN l = 1 .. Len(l)
         /\ \A j \in 1 .. Len(l) : /\ l[j] \in Entries /\ l[j].tcb \in Timers /\ l[j].remaining \in Nat
                                   /\ Timer!Sum(l, j) \in Nat /\ Timer!Sum(l, j) <= Total(l)
                                   /\ l[j].remaining <= Timer!Sum(l, j)
         /\ l = <<>> <=> Len(l) = 0
         /\ l # <<>> => Len(l) \in 1 .. Len(l) /\ 1 \in 1 .. Len(l) /\ Timer!Sum(l, 1) = l[1].remaining
         /\ \A t \in Timer!Names(l) : Due(l, t) \in Nat /\ Due(l, t) <= Total(l) /\ l # <<>>
                                      /\ l[1].remaining <= Due(l, t)
  <1>1. l \in Seq(Entries)
    BY DEF Delta
  <1>2. Len(l) \in Nat /\ DOMAIN l = 1 .. Len(l) /\ \A j \in 1 .. Len(l) : l[j] \in Entries
    BY <1>1, LenProperties, ElementOfSeq
  <1>3. l = <<>> <=> Len(l) = 0
    BY <1>1, <1>2, EmptySeq
  <1>4. \A j \in 1 .. Len(l) : j \in 0 .. Len(l) /\ j - 1 \in 0 .. Len(l) /\ Len(l) \in 0 .. Len(l) /\ j <= Len(l)
                               /\ 1 <= j /\ 1 \in 0 .. Len(l)
    BY <1>2
  <1>5. \A j \in 1 .. Len(l) : l[j].tcb \in Timers /\ l[j].remaining \in Nat
    BY <1>2 DEF Entries
  <1>6. \A j \in 1 .. Len(l) : /\ Timer!Sum(l, j) \in Nat /\ Timer!Sum(l, j) <= Total(l)
                               /\ Timer!Sum(l, 1) <= Timer!Sum(l, j)
                               /\ l[j].remaining <= Timer!Sum(l, j)
    <2>. TAKE j \in 1 .. Len(l)
    <2>1. /\ Timer!Sum(l, j) \in Nat /\ Timer!Sum(l, j - 1) \in Nat
          /\ Timer!Sum(l, j) = Timer!Sum(l, j - 1) + l[j].remaining
          /\ Timer!Sum(l, j) <= Timer!Sum(l, Len(l))
          /\ Timer!Sum(l, 1) <= Timer!Sum(l, j)
      BY <1>1, <1>4, SumsGrow
    <2>. QED  BY <1>5, <2>1 DEF Total
  <1>7. l # <<>> => Len(l) \in 1 .. Len(l) /\ 1 \in 1 .. Len(l) /\ Timer!Sum(l, 1) = l[1].remaining
    <2>1. l # <<>> => Len(l) \in 1 .. Len(l) /\ 1 \in 1 .. Len(l)
      BY <1>2, <1>3
    <2>2. 1 \in 1 .. Len(l) => /\ Timer!Sum(l, 1) = Timer!Sum(l, 1 - 1) + l[1].remaining /\ 1 - 1 = 0
                               /\ Timer!Sum(l, 0) = 0
      BY <1>1, SumsGrow
    <2>. QED  BY <1>5, <2>1, <2>2
  <1>8. \A t \in Timer!Names(l) : Due(l, t) \in Nat /\ Due(l, t) <= Total(l) /\ l # <<>>
                                  /\ l[1].remaining <= Due(l, t)
    <2>. TAKE t \in Timer!Names(l)
    <2>1. Timer!IndexOf(l, t) \in 1 .. Len(l)
      BY PlaceIs
    <2>2. l # <<>>
      BY <1>2, <1>3, <2>1
    <2>. QED  BY <1>6, <1>7, <2>1, <2>2 DEF Due
  <1>. QED  BY <1>1, <1>2, <1>3, <1>5, <1>6, <1>7, <1>8

\* What _timer_count = list_first_entry(...)->remaining leaves behind.
LEMMA CountedIsSound ==
  ASSUME NEW m, Delta(m), m # <<>> => Total(m) \in Width, NEW garbage \in Width
  PROVE  /\ Sound(Timer!Counted(m, garbage)) /\ Timer!Counted(m, garbage).active = m
         /\ Ticks(Timer!Counted(m, garbage)) = [t \in Timer!Names(m) |-> Due(m, t)]
         /\ m # <<>> => Timer!Counted(m, garbage).count = m[1].remaining
  <1>. DEFINE r == Timer!Counted(m, garbage)
  <1>1. r.active = m /\ r.count = IF m = <<>> THEN garbage ELSE m[1].remaining
    BY DEF Timer!Counted
  <1>. HIDE DEF r
  <1>2. \A i \in 1 .. Len(m) : m[i].remaining \in Width
    <2>. TAKE i \in 1 .. Len(m)
    <2>1. /\ m # <<>> /\ m[i].remaining \in Nat /\ m[i].remaining <= Timer!Sum(m, i)
          /\ Timer!Sum(m, i) \in Nat /\ Timer!Sum(m, i) <= Total(m)
      BY DeltaIs
    <2>. QED  BY <2>1, WordIs DEF Width
  <1>3. r.count \in Width /\ (m # <<>> => r.count \in Nat)
    BY <1>1, <1>2, DeltaIs
  <1>4. m # <<>> => r.count + Total(m) - m[1].remaining = Total(m)
    <2>1. m # <<>> => Total(m) \in Nat
      BY WordIs DEF Width
    <2>. QED  BY <1>1, <1>3, <2>1
  <1>5. Sound(r)
    BY <1>1, <1>2, <1>3, <1>4 DEF Sound
  <1>6. \A t \in Timer!Names(m) : r.count + Due(m, t) - m[1].remaining = Due(m, t)
    <2>1. \A t \in Timer!Names(m) : m # <<>> /\ Due(m, t) \in Nat
      BY DeltaIs
    <2>. QED  BY <1>1, <1>3, <2>1
  <1>. QED  BY <1>1, <1>5, <1>6 DEF Ticks, r

\* What list_first_entry(...)->remaining = _timer_count does.
LEMMA SyncedIs ==
  ASSUME NEW q, Sound(q), q.active # <<>>, NEW s, s = Timer!Synced(q)
  PROVE  /\ Delta(s) /\ Len(s) = Len(q.active) /\ s # <<>>
         /\ s[1].remaining = q.count
         /\ \A i \in 1 .. Len(s) : s[i].tcb = q.active[i].tcb
         /\ \A i \in 2 .. Len(s) : s[i] = q.active[i]
         /\ Timer!Names(s) = Timer!Names(q.active)
         /\ \A t \in Timer!Names(s) : Timer!IndexOf(s, t) = Timer!IndexOf(q.active, t)
         /\ Ticks(q) = [t \in Timer!Names(s) |-> Due(s, t)]
         /\ Total(s) \in Width
  <1>. DEFINE l == q.active
              n == Len(l)
              e == [l[1] EXCEPT !.remaining = q.count]
  <1>1. /\ Delta(l) /\ l \in Seq(Entries) /\ n \in Nat /\ 1 \in 1 .. n
        /\ \A j \in 1 .. n : l[j] \in Entries /\ l[j].remaining \in Nat
        /\ q.count \in Nat /\ l # <<>> /\ n \in 1 .. n /\ Timer!Sum(l, 1) = l[1].remaining
    <2>1. Delta(l) /\ l # <<>> /\ q.count \in Nat
      BY WordIs DEF Sound, Width
    <2>. HIDE DEF l
    <2>. QED  BY <2>1, DeltaIs
  <1>2. s = [l EXCEPT ![1] = e]
    BY DEF Timer!Synced
  <1>3. e \in Entries /\ e.tcb = l[1].tcb /\ e.remaining = q.count
    BY <1>1 DEF Entries
  <1>. HIDE DEF e, n, l
  <1>4. s \in Seq(Entries) /\ Len(s) = n /\ \A j \in 1 .. n : s[j] = IF j = 1 THEN e ELSE l[j]
    BY <1>1, <1>2, <1>3, ExceptSeq DEF n
  <1>5. \A j \in 1 .. n : s[j].tcb = l[j].tcb
    BY <1>3, <1>4
  <1>6. Delta(s)
    BY <1>1, <1>4, <1>5 DEF Delta, Distinct, n
  <1>7. \A j \in 1 .. n : Timer!Sum(s, j) = q.count + Timer!Sum(l, j) - l[1].remaining
    <2>. DEFINE f == [j \in 0 .. n |-> IF j = 0 THEN 0 ELSE q.count + Timer!Sum(l, j) - l[1].remaining]
    <2>1. f[0] = 0
      BY <1>1
    <2>2. \A j \in 1 .. n : /\ Timer!Sum(l, j) = Timer!Sum(l, j - 1) + l[j].remaining
                            /\ Timer!Sum(l, j) \in Nat /\ Timer!Sum(l, j - 1) \in Nat
      <3>1. \A j \in 1 .. n : j \in 0 .. Len(l) /\ j - 1 \in 0 .. Len(l) /\ j \in 1 .. Len(l)
        BY <1>1 DEF n
      <3>. QED  BY <1>1, <3>1, SumsGrow
    <2>3. ASSUME NEW j \in 1 .. n PROVE f[j] = f[j - 1] + s[j].remaining
      <3>1. CASE j = 1
        <4>1. /\ f[j] = q.count + Timer!Sum(l, 1) - l[1].remaining /\ f[j - 1] = 0
              /\ s[j].remaining = q.count
          BY <1>1, <1>3, <1>4, <3>1
        <4>. QED  BY <1>1, <4>1
      <3>2. CASE j # 1
        <4>1. j - 1 \in 0 .. n /\ j - 1 # 0 /\ j # 0 /\ j \in 0 .. n
          BY <1>1, <3>2
        <4>2. /\ f[j] = q.count + Timer!Sum(l, j) - l[1].remaining
              /\ f[j - 1] = q.count + Timer!Sum(l, j - 1) - l[1].remaining
              /\ s[j].remaining = l[j].remaining
          BY <1>4, <3>2, <4>1
        <4>3. /\ Timer!Sum(l, j) = Timer!Sum(l, j - 1) + l[j].remaining
              /\ Timer!Sum(l, j - 1) \in Nat /\ l[j].remaining \in Nat /\ l[1].remaining \in Nat
              /\ q.count \in Nat
          BY <1>1, <2>2
        <4>. HIDE DEF f
        <4>. QED  BY <4>2, <4>3
      <3>. QED  BY <3>1, <3>2
    <2>4. AddsUp(f, s, n)
      BY <2>1, <2>3 DEF AddsUp
    <2>5. \A j \in 0 .. n : Timer!Sum(s, j) = f[j]
      BY <1>1, <2>4, SumIs
    <2>. QED  BY <1>1, <2>5
  <1>8. Timer!Names(s) = Timer!Names(l)
    <2>1. DOMAIN s = 1 .. n /\ DOMAIN l = 1 .. n
      BY <1>1, <1>4, <1>6, DeltaIs DEF n
    <2>. QED  BY <1>5, <2>1 DEF Timer!Names
  <1>9. \A t \in Timer!Names(s) : Timer!IndexOf(s, t) = Timer!IndexOf(l, t)
                                  /\ Timer!IndexOf(l, t) \in 1 .. n
    <2>. TAKE t \in Timer!Names(s)
    <2>. DEFINE i == Timer!IndexOf(l, t)
    <2>1. i \in 1 .. n /\ l[i].tcb = t
      BY <1>1, <1>8, PlaceIs DEF n
    <2>. HIDE DEF i
    <2>2. i \in 1 .. Len(s) /\ s[i].tcb = t
      BY <1>4, <1>5, <2>1
    <2>3. Timer!IndexOf(s, t) = i
      BY <1>6, <2>2, PlaceIs
    <2>. QED  BY <2>1, <2>3 DEF i
  <1>10. \A t \in Timer!Names(s) : Due(s, t) = q.count + Due(l, t) - l[1].remaining
    BY <1>7, <1>9 DEF Due
  <1>11. Ticks(q) = [t \in Timer!Names(s) |-> Due(s, t)]
    BY <1>8, <1>10 DEF Ticks, l
  <1>12. Total(s) \in Width
    <2>1. Total(s) = q.count + Total(l) - l[1].remaining
      BY <1>1, <1>4, <1>7 DEF Total, n
    <2>. QED  BY <2>1 DEF Sound, l
  <1>13. s # <<>>
    BY <1>1, <1>4, <1>6, DeltaIs
  <1>14. s[1].remaining = q.count /\ \A i \in 2 .. n : s[i] = l[i]
    BY <1>1, <1>3, <1>4
  <1>. QED  BY <1>1, <1>4, <1>5, <1>6, <1>8, <1>9, <1>11, <1>12, <1>13, <1>14 DEF l, n

\* RemoveFromActive takes one timer's ticks away, and no other's.
LEMMA RemoveIsSound ==
  ASSUME NEW q, Sound(q), NEW t \in Timer!Names(q.active), NEW garbage \in Width,
         NEW r, r = Timer!RemoveFromActive(q, t, garbage)
  PROVE  /\ Sound(r) /\ (Awake(q) => Awake(r))
         /\ Timer!Names(r.active) = Timer!Names(q.active) \ {t}
         /\ Ticks(r) = [u \in Timer!Names(q.active) \ {t} |-> Ticks(q)[u]]
  <1>0. Delta(q.active) /\ q.active # <<>>
    BY DeltaIs DEF Sound
  <1>. DEFINE s == Timer!Synced(q)
              i == Timer!IndexOf(s, t)
              m == TakenOut(s, i)
  <1>1. /\ Delta(s) /\ s # <<>> /\ s[1].remaining = q.count
        /\ Timer!Names(s) = Timer!Names(q.active)
        /\ Ticks(q) = [u \in Timer!Names(s) |-> Due(s, u)]
        /\ Total(s) \in Width
    BY <1>0, SyncedIs
  <1>2. r = Timer!Counted(m, garbage)
    BY DEF Timer!RemoveFromActive, TakenOut
  <1>. HIDE DEF s
  <1>3. i \in 1 .. Len(s) /\ s[i].tcb = t
    BY <1>1, PlaceIs
  <1>. HIDE DEF i
  <1>4. /\ Delta(m) /\ Len(m) = Len(s) - 1
        /\ Timer!Names(m) = Timer!Names(s) \ {t}
        /\ \A u \in Timer!Names(m) : Due(m, u) = Due(s, u)
        /\ \A j \in 1 .. Len(m) :
             Timer!Sum(m, j) = IF j < i THEN Timer!Sum(s, j) ELSE Timer!Sum(s, j + 1)
    BY <1>1, <1>3, TakenOutKeepsTheSums
  <1>. HIDE DEF m
  <1>5. ASSUME m # <<>>
        PROVE  /\ Total(m) \in Nat /\ Total(m) <= Total(s)
               /\ s[1].remaining <= m[1].remaining
    <2>1. /\ Len(s) \in Nat /\ Len(m) \in 1 .. Len(m) /\ 1 \in 1 .. Len(m)
          /\ Timer!Sum(m, 1) = m[1].remaining /\ Timer!Sum(s, 1) = s[1].remaining
      BY <1>1, <1>4, <1>5, DeltaIs
    <2>2. \A j \in 1 .. Len(s) : Timer!Sum(s, j) \in Nat /\ Timer!Sum(s, j) <= Total(s)
      BY <1>1, DeltaIs
    <2>3. /\ Len(m) \in 1 .. Len(s) /\ Len(m) + 1 \in 1 .. Len(s)
          /\ 1 \in 0 .. Len(s) /\ 1 + 1 \in 0 .. Len(s)
      BY <1>4, <2>1
    <2>4. Total(m) \in Nat /\ Total(m) <= Total(s)
      BY <1>4, <2>1, <2>2, <2>3 DEF Total
    <2>5. Timer!Sum(s, 1) <= Timer!Sum(s, 1) /\ Timer!Sum(s, 1) <= Timer!Sum(s, 1 + 1)
      <3>1. s \in Seq(Entries)
        BY <1>1, DeltaIs
      <3>2. 1 <= 1 /\ 1 <= 1 + 1
        OBVIOUS
      <3>. QED  BY <2>3, <3>1, <3>2, SumsGrow
    <2>. QED  BY <1>4, <2>1, <2>4, <2>5
  <1>6. m # <<>> => Total(m) \in Width
    BY <1>1, <1>5, WordIs DEF Width
  <1>. DEFINE c == Timer!Counted(m, garbage)
  <1>c. Delta(m)
    BY <1>4
  <1>d. /\ Sound(c) /\ c.active = m
        /\ Ticks(c) = [u \in Timer!Names(m) |-> Due(m, u)]
        /\ m # <<>> => c.count = m[1].remaining
    BY <1>c, <1>6, CountedIsSound
  <1>. HIDE DEF c
  <1>e. r = c
    BY <1>2 DEF c
  <1>7. /\ Sound(r) /\ r.active = m
        /\ Ticks(r) = [u \in Timer!Names(m) |-> Due(m, u)]
        /\ m # <<>> => r.count = m[1].remaining
    BY <1>d, <1>e
  <1>8. Awake(q) => Awake(r)
    <2>. SUFFICES ASSUME q.count > 0, m # <<>> PROVE r.count > 0
      BY <1>0, <1>7 DEF Awake
    <2>1. q.count \in Nat /\ m[1].remaining \in Nat
      BY <1>4, WordIs, DeltaIs DEF Sound, Width
    <2>. QED  BY <1>1, <1>5, <1>7, <2>1
  <1>9. Ticks(r) = [u \in Timer!Names(q.active) \ {t} |-> Ticks(q)[u]]
    BY <1>1, <1>4, <1>7
  <1>. QED  BY <1>1, <1>4, <1>7, <1>8, <1>9

\* InsertToActive gives the timer its period, and takes nothing from the others.
LEMMA InsertIsSound ==
  ASSUME NEW q, Sound(q), NEW t \in Timers, t \notin Timer!Names(q.active),
         NEW period \in 1 .. CountWord - 1, NEW r, r = Timer!InsertToActive(q, t, period)
  PROVE  /\ Sound(r) /\ (Awake(q) => Awake(r))
         /\ Timer!Names(r.active) = Timer!Names(q.active) \union {t}
         /\ Ticks(r) = [u \in Timer!Names(q.active) \union {t} |->
                          IF u = t THEN period ELSE Ticks(q)[u]]
  <1>0. period \in Nat /\ period \in Width /\ 0 \in Width /\ period > 0
    BY WordIs DEF Width
  <1>1. CASE q.active = <<>>
    <2>. DEFINE x == [tcb |-> t, remaining |-> period]
                m == <<x>>
    <2>1. r = Timer!Counted(m, 0)
      BY <1>1 DEF Timer!InsertToActive
    <2>2. /\ m \in Seq(Entries) /\ Len(m) = 1 /\ DOMAIN m = 1 .. 1 /\ m[1] = x /\ m # <<>>
          /\ x \in Entries /\ x.tcb = t /\ x.remaining = period
      BY <1>0 DEF Entries
    <2>. HIDE DEF m, x
    <2>3. Delta(m)
      BY <2>2 DEF Delta, Distinct
    <2>4. Timer!Sum(m, 1) = period /\ Total(m) = period
      BY <2>2, <2>3, DeltaIs DEF Total
    <2>5. Timer!Names(m) = {t}
      BY <2>2 DEF Timer!Names
    <2>6. Due(m, t) = period
      <3>1. Timer!IndexOf(m, t) = 1
        BY <2>2, <2>3, PlaceIs
      <3>. QED  BY <2>4, <3>1 DEF Due
    <2>7. /\ Sound(r) /\ r.active = m /\ Ticks(r) = [u \in Timer!Names(m) |-> Due(m, u)]
          /\ r.count = period
      BY <1>0, <2>1, <2>2, <2>3, <2>4, CountedIsSound
    <2>8. Timer!Names(q.active) = {}
      BY <1>1 DEF Timer!Names
    <2>. QED  BY <1>0, <2>5, <2>6, <2>7, <2>8 DEF Awake
  <1>2. CASE q.active # <<>>
    <2>. DEFINE s == Timer!Synced(q)
                n == Len(s)
                later == {i \in DOMAIN s : Timer!Sum(s, i) > period}
                at == IF later = {} THEN n + 1
                      ELSE CHOOSE i \in later : \A j \in later : i <= j
                m == PutIn(s, t, at, period)
    <2>1. /\ Delta(s) /\ s # <<>> /\ s[1].remaining = q.count
          /\ Timer!Names(s) = Timer!Names(q.active)
          /\ Ticks(q) = [u \in Timer!Names(s) |-> Due(s, u)]
          /\ Total(s) \in Width
      BY <1>2, SyncedIs
    <2>2. r.active = m /\ r = Timer!Counted(m, 0)
      <3>1. later # {} => at # n + 1
        <4>1. DOMAIN s = 1 .. n /\ n \in Nat
          BY <2>1, DeltaIs
        <4>. HIDE DEF s, n
        <4>2. later # {} => \E i \in later : \A j \in later : i <= j
          <5>1. later \in SUBSET Nat
            BY <4>1
          <5>. HIDE DEF later
          <5>. QED  BY <5>1, LeastNumber
        <4>3. later # {} => at \in later
          BY <4>2
        <4>. QED  BY <4>1, <4>3
      <3>2. r = Timer!Counted(Timer!InsertAt(IF later = {} THEN s
                                 ELSE [s EXCEPT ![at].remaining = @ - (period - Timer!Sum(s, at - 1))],
                               at, [tcb |-> t, remaining |-> period - Timer!Sum(s, at - 1)]), 0)
        BY <1>2 DEF Timer!InsertToActive
      <3>. HIDE DEF later
      <3>3. r = Timer!Counted(m, 0)
        BY <3>1, <3>2 DEF PutIn
      <3>. QED  BY <3>3 DEF Timer!Counted
    <2>. HIDE DEF s, n, m
    <2>3. /\ s \in Seq(Entries) /\ DOMAIN s = 1 .. n /\ n \in Nat /\ 1 \in 1 .. n /\ n \in 1 .. n
          /\ \A i \in 1 .. n : Timer!Sum(s, i) \in Nat /\ Timer!Sum(s, i) <= Total(s)
          /\ Timer!Sum(s, 1) = s[1].remaining
      BY <2>1, DeltaIs DEF n
    <2>4. /\ at \in 1 .. n + 1
          /\ at # n + 1 => Timer!Sum(s, at) > period
          /\ \A j \in 1 .. n : j < at => ~ (Timer!Sum(s, j) > period)
      <3>1. CASE later = {}
        BY <2>3, <3>1
      <3>2. CASE later # {}
        <4>1. later \in SUBSET Nat /\ later \subseteq 1 .. n
          BY <2>3
        <4>2. \E i \in later : \A j \in later : i <= j
          <5>. HIDE DEF later
          <5>. QED  BY <3>2, <4>1, LeastNumber
        <4>3. at \in later /\ \A j \in later : at <= j
          BY <3>2, <4>2
        <4>4. at \in 1 .. n /\ Timer!Sum(s, at) > period
          BY <2>3, <4>3
        <4>. HIDE DEF at
        <4>5. \A j \in 1 .. n : j < at => j \notin later
          BY <4>1, <4>3, <4>4
        <4>. QED  BY <2>3, <4>4, <4>5
      <3>. QED  BY <3>1, <3>2
    <2>. HIDE DEF at
    <2>5. Timer!Sum(s, at - 1) <= period
      <3>1. CASE at = 1
        <4>1. at - 1 = 0 /\ Timer!Sum(s, 0) = 0
          BY <3>1, SumRule
        <4>. QED  BY <1>0, <4>1
      <3>2. CASE at # 1
        <4>1. at - 1 \in 1 .. n /\ at - 1 < at
          BY <2>3, <2>4, <3>2
        <4>. QED  BY <1>0, <2>3, <2>4, <4>1
      <3>. QED  BY <3>1, <3>2
    <2>6. /\ Delta(m) /\ Len(m) = n + 1
          /\ Timer!Names(m) = Timer!Names(s) \union {t}
          /\ Due(m, t) = period /\ \A u \in Timer!Names(s) : Due(m, u) = Due(s, u)
          /\ \A j \in 0 .. n + 1 :
               Timer!Sum(m, j) = IF j < at THEN Timer!Sum(s, j)
                                 ELSE IF j = at THEN period ELSE Timer!Sum(s, j - 1)
      <3>1. at # Len(s) + 1 => Timer!Sum(s, at) >= period
        <4>1. at # n + 1 => at \in 1 .. n
          BY <2>3, <2>4
        <4>. QED  BY <1>0, <2>3, <2>4, <4>1 DEF n
      <3>2. at \in 1 .. Len(s) + 1 /\ t \notin Timer!Names(s)
        BY <2>1, <2>4 DEF n
      <3>. QED  BY <1>0, <2>1, <2>5, <3>1, <3>2, PutInKeepsTheSums DEF m, n
    <2>7. Total(m) \in Width /\ m # <<>>
      <3>1. n + 1 \in 0 .. n + 1 /\ ~ (n + 1 < at) /\ (n + 1) - 1 = n
        BY <2>3, <2>4
      <3>2. Total(m) = period \/ Total(m) = Timer!Sum(s, n)
        BY <2>6, <3>1 DEF Total
      <3>3. Timer!Sum(s, n) \in Width
        BY <2>1 DEF Total, n
      <3>4. m # <<>>
        BY <2>3, <2>6, DeltaIs
      <3>. QED  BY <1>0, <3>2, <3>3, <3>4
    <2>. DEFINE c == Timer!Counted(m, 0)
    <2>c. Delta(m) /\ (m # <<>> => Total(m) \in Width)
      BY <2>6, <2>7
    <2>d. Sound(c) /\ Ticks(c) = [u \in Timer!Names(m) |-> Due(m, u)] /\ c.count = m[1].remaining
      BY <1>0, <2>c, <2>7, CountedIsSound
    <2>. HIDE DEF c
    <2>e. r = c
      BY <2>2 DEF c
    <2>8. /\ Sound(r) /\ Ticks(r) = [u \in Timer!Names(m) |-> Due(m, u)]
          /\ r.count = m[1].remaining
      BY <2>d, <2>e
    <2>9. Awake(q) => Awake(r)
      <3>. SUFFICES ASSUME q.count > 0 PROVE m[1].remaining > 0
        BY <1>2, <2>8 DEF Awake
      <3>1. Timer!Sum(m, 1) = m[1].remaining
        BY <2>6, <2>7, DeltaIs
      <3>2. 1 \in 0 .. n + 1 /\ (1 < at \/ 1 = at)
        BY <2>3, <2>4
      <3>3. Timer!Sum(m, 1) = period \/ Timer!Sum(m, 1) = s[1].remaining
        BY <2>3, <2>6, <3>2
      <3>. QED  BY <1>0, <2>1, <3>1, <3>3
    <2>10. Ticks(r) = [u \in Timer!Names(q.active) \union {t} |->
                        IF u = t THEN period ELSE Ticks(q)[u]]
      BY <2>1, <2>6, <2>8
    <2>. QED  BY <2>1, <2>2, <2>6, <2>8, <2>9, <2>10
  <1>. QED  BY <1>1, <1>2

\* How many timers the tick takes off the active list.
LEMMA ExpiredIs ==
  ASSUME Delta(active), active # <<>>
  PROVE  /\ Timer!Expired \in 1 .. Len(active)
         /\ count = 0 => /\ \A i \in 2 .. Timer!Expired : active[i].remaining = 0
                         /\ Timer!Expired < Len(active) =>
                              active[Timer!Expired + 1].remaining # 0
         /\ count # 0 => Timer!Expired = 1
  <1>. DEFINE n == Len(active)
              S == {k \in 1 .. n : k < n => active[k + 1].remaining # 0}
              P(k) == /\ \A i \in 2 .. k : active[i].remaining = 0
                      /\ k < n => active[k + 1].remaining # 0
  <1>1. n \in Nat /\ n \in 1 .. n /\ 1 \in 1 .. n
    BY DeltaIs
  <1>. HIDE DEF n
  <1>2. \E k \in 1 .. n : P(k)
    <2>1. S \in SUBSET Nat /\ n \in S
      BY <1>1
    <2>. HIDE DEF S
    <2>2. PICK k \in S : \A j \in S : k <= j
      BY <2>1, LeastNumber
    <2>3. k \in 1 .. n /\ (k < n => active[k + 1].remaining # 0)
      BY <2>2 DEF S
    <2>4. ASSUME NEW i \in 2 .. k PROVE active[i].remaining = 0
      <3>1. i - 1 \in 1 .. n /\ i - 1 < n /\ (i - 1) + 1 = i /\ ~ (k <= i - 1)
        BY <1>1, <2>3
      <3>2. i - 1 \notin S
        BY <2>2, <3>1
      <3>3. active[(i - 1) + 1].remaining = 0
        BY <3>1, <3>2 DEF S
      <3>. QED  BY <3>1, <3>3
    <2>. QED  BY <2>3, <2>4
  <1>3. Timer!Expired = IF count # 0 THEN 1 ELSE CHOOSE k \in 1 .. n : P(k)
    BY DEF Timer!Expired, n
  <1>. HIDE DEF P
  <1>4. count = 0 => Timer!Expired \in 1 .. n /\ P(Timer!Expired)
    BY <1>2, <1>3
  <1>5. count # 0 => Timer!Expired = 1
    BY <1>3
  <1>. QED  BY <1>1, <1>4, <1>5 DEF P, n

\* The timers that the tick takes off the active list.
Gone == {active[i].tcb : i \in 1 .. Timer!Expired}

\* The tick takes off the timers with no ticks left, and leaves the others theirs.
LEMMA ExpireIsSound ==
  ASSUME Sound(Timer!Q), active # <<>>, NEW garbage \in Width,
         NEW r, r = Timer!Counted(CutOff(active, Timer!Expired, count), garbage)
  PROVE  /\ Sound(r) /\ Awake(r)
         /\ Timer!Names(r.active) = Timer!Names(active) \ Gone
         /\ Ticks(r) = [u \in Timer!Names(active) \ Gone |-> Ticks(Timer!Q)[u]]
         /\ Gone \subseteq Timer!Names(active)
         /\ \A t \in Gone : Ticks(Timer!Q)[t] = count
         /\ count = 0 => \A t \in Timer!Names(active) \ Gone : Ticks(Timer!Q)[t] > 0
  <1>. DEFINE e == Timer!Expired
              m == CutOff(active, e, count)
              s == Timer!Synced(Timer!Q)
              n == Len(active)
  <1>1. /\ Timer!Q.active = active /\ Timer!Q.count = count
        /\ Delta(active) /\ count \in Nat /\ n \in Nat /\ count \in Width
    BY WordIs, DeltaIs DEF Timer!Q, Sound, Width
  <1>2. /\ e \in 1 .. n
        /\ \A i \in 2 .. e : active[i].remaining = 0
        /\ count = 0 => (e < n => active[e + 1].remaining # 0)
    <2>1. /\ e \in 1 .. n
          /\ count = 0 => /\ \A i \in 2 .. e : active[i].remaining = 0
                          /\ e < n => active[e + 1].remaining # 0
          /\ count # 0 => e = 1
      BY <1>1, ExpiredIs
    <2>. HIDE DEF e, n
    <2>2. count # 0 => \A i \in 2 .. e : FALSE
      BY <2>1
    <2>. QED  BY <2>1, <2>2
  <1>3. /\ Delta(s) /\ Len(s) = n /\ s # <<>>
        /\ s[1].remaining = count
        /\ \A i \in 1 .. n : s[i].tcb = active[i].tcb
        /\ \A i \in 2 .. n : s[i] = active[i]
        /\ Timer!Names(s) = Timer!Names(active)
        /\ Ticks(Timer!Q) = [t \in Timer!Names(s) |-> Due(s, t)]
        /\ Total(s) \in Width
    BY <1>1, SyncedIs
  <1>. HIDE DEF e, s, n
  <1>4. /\ m \in Seq(Entries) /\ Len(m) = n - e
        /\ \A j \in 1 .. n - e :
             /\ m[j].tcb = active[e + j].tcb
             /\ m[j].remaining = IF j = 1 THEN active[e + 1].remaining + count
                                 ELSE active[e + j].remaining
    <2>1. e \in 1 .. Len(active) /\ n = Len(active)
      BY <1>2 DEF n
    <2>2. IsCutOff(m, active, e, count)
      BY <1>1, <2>1, CutOffIs
    <2>. HIDE DEF m
    <2>. QED  BY <2>1, <2>2 DEF IsCutOff
  <1>. HIDE DEF m
  <1>5. \A j \in 1 .. n - e : e + j \in 2 .. n /\ e + j \in 1 .. n /\ (j = 1 => e + 1 \in 2 .. n)
    BY <1>1, <1>2
  <1>6. \A j \in 1 .. n - e :
          /\ m[j].tcb = s[e + j].tcb
          /\ m[j].remaining = IF j = 1 THEN s[e + 1].remaining + s[1].remaining
                              ELSE s[e + j].remaining
    BY <1>3, <1>4, <1>5
  <1>7. e \in 1 .. Len(s) /\ \A i \in 2 .. e : s[i].remaining = 0
    <2>1. \A i \in 2 .. e : i \in 2 .. n
      BY <1>1, <1>2
    <2>. QED  BY <1>2, <1>3, <2>1
  <1>8. /\ Delta(m)
        /\ Timer!Names(m) = Timer!Names(s) \ Firsts(s, e)
        /\ \A t \in Timer!Names(m) : Due(m, t) = Due(s, t)
        /\ \A i \in 1 .. e : Timer!Sum(s, i) = s[1].remaining
        /\ \A j \in 1 .. Len(m) : Timer!Sum(m, j) = Timer!Sum(s, e + j)
    <2>1. IsCutOff(m, s, e, s[1].remaining)
      BY <1>3, <1>4, <1>6 DEF IsCutOff
    <2>2. Delta(s) /\ e \in 1 .. Len(s)
      BY <1>3, <1>7
    <2>3. Together(s, e)
      BY <1>7 DEF Together
    <2>. QED  BY <2>1, <2>2, <2>3, CutOffKeepsTheSums
  <1>9. /\ Firsts(s, e) = Gone /\ Gone \subseteq Timer!Names(active)
    <2>1. \A i \in 1 .. e : i \in 1 .. n
      BY <1>1, <1>2
    <2>2. \A i \in 1 .. n : active[i].tcb \in Timer!Names(active)
      BY <1>1, PlaceIs DEF n
    <2>. QED  BY <1>3, <2>1, <2>2 DEF Gone, Firsts, e
  <1>10. m # <<>> => Total(m) \in Width
    <2>. SUFFICES ASSUME m # <<>> PROVE Total(m) \in Width
      OBVIOUS
    <2>1. Len(m) \in 1 .. Len(m) /\ Len(m) = n - e
      BY <1>4, <1>8, DeltaIs
    <2>2. Total(m) = Timer!Sum(s, e + Len(m)) /\ e + Len(m) = n
      BY <1>1, <1>2, <1>8, <2>1 DEF Total
    <2>. QED  BY <1>3, <2>2 DEF Total
  <1>. DEFINE c == Timer!Counted(m, garbage)
  <1>11. /\ Sound(c) /\ c.active = m
         /\ Ticks(c) = [t \in Timer!Names(m) |-> Due(m, t)]
         /\ m # <<>> => c.count = m[1].remaining
    <2>1. Delta(m)
      BY <1>8
    <2>. QED  BY <1>10, <2>1, CountedIsSound
  <1>12. r = c
    BY DEF m, e
  <1>. HIDE DEF c
  <1>13. m # <<>> => m[1].remaining \in Nat /\ m[1].remaining > 0
    <2>. SUFFICES ASSUME m # <<>> PROVE m[1].remaining \in Nat /\ m[1].remaining > 0
      OBVIOUS
    <2>1. 1 \in 1 .. Len(m) /\ Len(m) = n - e
      BY <1>4, <1>8, DeltaIs
    <2>2. e + 1 \in 1 .. n /\ e < n
      BY <1>1, <1>2, <2>1
    <2>3. m[1].remaining = active[e + 1].remaining + count /\ active[e + 1].remaining \in Nat
      BY <1>1, <1>4, <2>1, <2>2, DeltaIs DEF n
    <2>. QED  BY <1>1, <1>2, <2>2, <2>3
  <1>14. \A t \in Gone : Ticks(Timer!Q)[t] = count
    <2>. TAKE t \in Gone
    <2>1. PICK i \in 1 .. e : s[i].tcb = t
      BY <1>9 DEF Firsts
    <2>2. i \in 1 .. Len(s) /\ Timer!Sum(s, i) = count
      BY <1>1, <1>2, <1>3, <1>8
    <2>3. Timer!IndexOf(s, t) = i /\ t \in Timer!Names(s)
      BY <1>3, <2>1, <2>2, PlaceIs
    <2>. QED  BY <1>3, <2>2, <2>3 DEF Due
  <1>15. \A t \in Timer!Names(m) : Due(m, t) > 0
    <2>. TAKE t \in Timer!Names(m)
    <2>1. Due(m, t) \in Nat /\ m # <<>> /\ m[1].remaining <= Due(m, t)
      BY <1>8, DeltaIs
    <2>. QED  BY <1>13, <2>1
  <1>16. Timer!Names(m) = Timer!Names(active) \ Gone
    BY <1>3, <1>8, <1>9
  <1>17. \A t \in Timer!Names(m) : Ticks(Timer!Q)[t] = Due(m, t)
    BY <1>3, <1>8
  <1>18. Ticks(r) = [u \in Timer!Names(active) \ Gone |-> Ticks(Timer!Q)[u]]
    BY <1>11, <1>12, <1>16, <1>17
  <1>19. Awake(r)
    BY <1>11, <1>12, <1>13 DEF Awake
  <1>. QED  BY <1>9, <1>11, <1>12, <1>14, <1>15, <1>16, <1>17, <1>18, <1>19

-----------------------------------------------------------------------------
(* The list of the timers whose callback is due.                           *)
Line(l) == l \in Seq(Timers) /\ \A i, j \in 1 .. Len(l) : l[i] = l[j] => i = j

\* What the list of due timers is.
LEMMA LineIs ==
  ASSUME NEW l, Line(l)
  PROVE  /\ l \in Seq(Timers) /\ Len(l) \in Nat /\ DOMAIN l = 1 .. Len(l)
         /\ \A i \in 1 .. Len(l) : l[i] \in Timers /\ l[i] \in Timer!ToSet(l)
         /\ \A t \in Timer!ToSet(l) : t \in Timers /\ \E i \in 1 .. Len(l) : l[i] = t
  <1>1. l \in Seq(Timers)
    BY DEF Line
  <1>2. Len(l) \in Nat /\ DOMAIN l = 1 .. Len(l) /\ \A i \in 1 .. Len(l) : l[i] \in Timers
    BY <1>1, LenProperties, ElementOfSeq
  <1>. QED  BY <1>1, <1>2 DEF Timer!ToSet

\* A timer is removed from the list.
LEMMA LineRemoves ==
  ASSUME NEW l, Line(l), NEW t \in Timer!ToSet(l),
         NEW m, m = Timer!RemoveAt(l, CHOOSE i \in DOMAIN l : l[i] = t)
  PROVE  Line(m) /\ Timer!ToSet(m) = Timer!ToSet(l) \ {t}
  <1>. DEFINE n == Len(l)
              i == CHOOSE h \in DOMAIN l : l[h] = t
  <1>0. /\ l \in Seq(Timers) /\ n \in Nat /\ DOMAIN l = 1 .. n
        /\ \A j \in 1 .. n : l[j] \in Timers
        /\ \A j, h \in 1 .. n : l[j] = l[h] => j = h
    BY LineIs DEF Line
  <1>1. i \in 1 .. n /\ l[i] = t
    BY <1>0, LineIs
  <1>2. m = SubSeq(l, 1, i - 1) \o SubSeq(l, i + 1, Len(l))
    BY DEF Timer!RemoveAt
  <1>3. n = Len(l)
    OBVIOUS
  <1>. HIDE DEF i, n
  <1>4. /\ SubSeq(l, 1, i - 1) \in Seq(Timers) /\ Len(SubSeq(l, 1, i - 1)) = i - 1
        /\ \A j \in 1 .. i - 1 : SubSeq(l, 1, i - 1)[j] = l[j]
    <2>1. \A j \in 1 .. i - 1 : l[j] \in Timers
      BY <1>0, <1>1
    <2>2. /\ SubSeq(l, 1, i - 1) \in Seq(Timers)
          /\ Len(SubSeq(l, 1, i - 1)) = IF 1 <= i - 1 THEN (i - 1) - 1 + 1 ELSE 0
          /\ \A j \in 1 .. (i - 1) - 1 + 1 : SubSeq(l, 1, i - 1)[j] = l[1 + j - 1]
      BY <1>0, <1>1, <2>1, SubSeqProperties
    <2>. QED  BY <1>0, <1>1, <2>2
  <1>5. /\ SubSeq(l, i + 1, n) \in Seq(Timers) /\ Len(SubSeq(l, i + 1, n)) = n - i
        /\ \A j \in 1 .. n - i : SubSeq(l, i + 1, n)[j] = l[i + j]
    <2>1. \A j \in i + 1 .. n : l[j] \in Timers
      BY <1>0, <1>1
    <2>2. /\ SubSeq(l, i + 1, n) \in Seq(Timers)
          /\ Len(SubSeq(l, i + 1, n)) = IF i + 1 <= n THEN n - (i + 1) + 1 ELSE 0
          /\ \A j \in 1 .. n - (i + 1) + 1 : SubSeq(l, i + 1, n)[j] = l[(i + 1) + j - 1]
      BY <1>0, <1>1, <2>1, SubSeqProperties
    <2>3. \A j \in 1 .. n - i : j \in 1 .. n - (i + 1) + 1 /\ (i + 1) + j - 1 = i + j
      BY <1>0, <1>1
    <2>. QED  BY <1>0, <1>1, <2>2, <2>3
  <1>6. /\ m \in Seq(Timers) /\ Len(m) = n - 1
        /\ \A j \in 1 .. n - 1 : m[j] = IF j < i THEN l[j] ELSE l[j + 1]
    <2>1. /\ m \in Seq(Timers) /\ Len(m) = (i - 1) + (n - i)
          /\ \A j \in 1 .. (i - 1) + (n - i) :
               m[j] = IF j <= i - 1 THEN SubSeq(l, 1, i - 1)[j] ELSE SubSeq(l, i + 1, n)[j - (i - 1)]
      <3>. DEFINE a == SubSeq(l, 1, i - 1)
                  b == SubSeq(l, i + 1, n)
      <3>1. m = a \o b
        BY <1>2, <1>3
      <3>2. a \in Seq(Timers) /\ b \in Seq(Timers) /\ Len(a) = i - 1 /\ Len(b) = n - i
        BY <1>4, <1>5
      <3>. HIDE DEF a, b
      <3>3. /\ a \o b \in Seq(Timers) /\ Len(a \o b) = Len(a) + Len(b)
            /\ \A j \in 1 .. Len(a) + Len(b) :
                 (a \o b)[j] = IF j <= Len(a) THEN a[j] ELSE b[j - Len(a)]
        BY <3>2, ConcatProperties
      <3>. QED  BY <3>1, <3>2, <3>3 DEF a, b
    <2>2. \A j \in 1 .. n - 1 :
            /\ j \in 1 .. (i - 1) + (n - i)
            /\ j < i <=> j <= i - 1
            /\ j < i => j \in 1 .. i - 1
            /\ ~ (j < i) => j - (i - 1) \in 1 .. n - i /\ i + (j - (i - 1)) = j + 1
      BY <1>0, <1>1
    <2>3. (i - 1) + (n - i) = n - 1
      BY <1>0, <1>1
    <2>4. m \in Seq(Timers) /\ Len(m) = n - 1
      BY <2>1, <2>3
    <2>5. ASSUME NEW j \in 1 .. n - 1 PROVE m[j] = IF j < i THEN l[j] ELSE l[j + 1]
      <3>1. CASE j < i
        BY <1>4, <2>1, <2>2, <3>1
      <3>2. CASE ~ (j < i)
        <4>1. j - (i - 1) \in 1 .. n - i /\ i + (j - (i - 1)) = j + 1
          BY <2>2, <3>2
        <4>2. m[j] = SubSeq(l, i + 1, n)[j - (i - 1)]
          BY <2>1, <2>2, <3>2
        <4>3. SubSeq(l, i + 1, n)[j - (i - 1)] = l[j + 1]
          BY <1>5, <4>1
        <4>. QED  BY <3>2, <4>2, <4>3
      <3>. QED  BY <3>1, <3>2
    <2>. QED  BY <2>4, <2>5
  <1>7. Line(m)
    <2>. SUFFICES ASSUME NEW j \in 1 .. n - 1, NEW h \in 1 .. n - 1, m[j] = m[h] PROVE j = h
      BY <1>6 DEF Line
    <2>1. /\ j \in 1 .. n /\ h \in 1 .. n /\ j + 1 \in 1 .. n /\ h + 1 \in 1 .. n
      BY <1>0
    <2>2. (IF j < i THEN j ELSE j + 1) = (IF h < i THEN h ELSE h + 1)
      BY <1>0, <1>6, <2>1
    <2>. QED  BY <1>0, <1>1, <2>2
  <1>8. Timer!ToSet(m) = Timer!ToSet(l) \ {t}
    <2>1. ASSUME NEW u \in Timer!ToSet(m) PROVE u \in Timer!ToSet(l) \ {t}
      <3>1. PICK j \in 1 .. n - 1 : m[j] = u
        BY <1>6, <1>7, LineIs
      <3>2. PICK h \in 1 .. n : l[h] = u /\ h # i
        <4>1. j \in 1 .. n /\ j + 1 \in 1 .. n /\ (j < i => j # i) /\ (~ (j < i) => j + 1 # i)
          BY <1>0, <1>1
        <4>. QED  BY <1>6, <3>1, <4>1
      <3>. QED  BY <1>0, <1>1, <3>2, LineIs
    <2>2. ASSUME NEW u \in Timer!ToSet(l), u # t PROVE u \in Timer!ToSet(m)
      <3>1. PICK j \in 1 .. n : l[j] = u /\ j # i
        BY <1>1, <1>3, <2>2, LineIs
      <3>2. CASE j < i
        <4>1. j \in 1 .. n - 1
          BY <1>0, <1>1, <3>2
        <4>. QED  BY <1>6, <1>7, <3>1, <3>2, <4>1, LineIs
      <3>3. CASE j > i
        <4>1. j - 1 \in 1 .. n - 1 /\ ~ (j - 1 < i) /\ (j - 1) + 1 = j
          BY <1>0, <1>1, <3>3
        <4>2. m[j - 1] = l[(j - 1) + 1]
          BY <1>6, <4>1
        <4>. QED  BY <1>6, <1>7, <3>1, <4>1, <4>2, LineIs
      <3>. QED  BY <1>0, <1>1, <3>1, <3>2, <3>3
    <2>. QED  BY <2>1, <2>2
  <1>. QED  BY <1>7, <1>8

\* The first timer is taken from the list.
LEMMA LineAdvances ==
  ASSUME NEW l, Line(l), l # <<>>
  PROVE  /\ Head(l) \in Timer!ToSet(l) /\ Head(l) \in Timers
         /\ Line(Tail(l)) /\ Timer!ToSet(Tail(l)) = Timer!ToSet(l) \ {Head(l)}
  <1>. DEFINE n == Len(l)
              m == Tail(l)
  <1>1. /\ l \in Seq(Timers) /\ n \in Nat
        /\ \A j, h \in 1 .. n : l[j] = l[h] => j = h
    BY LineIs DEF Line
  <1>2. /\ Head(l) = l[1] /\ m \in Seq(Timers) /\ Len(m) = n - 1 /\ n \in Nat \ {0}
        /\ \A i \in 1 .. Len(m) : m[i] = l[i + 1]
    BY <1>1, HeadTailProperties, EmptySeq
  <1>. HIDE DEF m
  <1>3. \A j \in 1 .. n - 1 : j + 1 \in 1 .. n /\ j + 1 # 1
    BY <1>1
  <1>4. 1 \in 1 .. n
    BY <1>2
  <1>5. Line(m)
    <2>. SUFFICES ASSUME NEW j \in 1 .. n - 1, NEW h \in 1 .. n - 1, m[j] = m[h] PROVE j = h
      BY <1>2 DEF Line
    <2>1. j + 1 = h + 1
      BY <1>1, <1>2, <1>3
    <2>. QED  BY <2>1
  <1>6. ASSUME NEW u \in Timer!ToSet(m) PROVE u \in Timer!ToSet(l) \ {l[1]}
    <2>1. PICK j \in 1 .. n - 1 : m[j] = u
      BY <1>2, <1>5, <1>6, LineIs
    <2>2. l[j + 1] = u /\ j + 1 \in 1 .. n /\ j + 1 # 1
      BY <1>2, <1>3, <2>1
    <2>. QED  BY <1>1, <1>4, <2>2, LineIs
  <1>7. ASSUME NEW u \in Timer!ToSet(l), u # l[1] PROVE u \in Timer!ToSet(m)
    <2>1. PICK j \in 1 .. n : l[j] = u /\ j # 1
      BY <1>7, LineIs
    <2>2. j - 1 \in 1 .. n - 1 /\ (j - 1) + 1 = j
      BY <1>1, <2>1
    <2>3. m[j - 1] = l[(j - 1) + 1]
      BY <1>2, <2>2
    <2>. QED  BY <1>2, <1>5, <2>1, <2>2, <2>3, LineIs
  <1>8. l[1] \in Timer!ToSet(l) /\ l[1] \in Timers
    BY <1>4, LineIs
  <1>. QED  BY <1>2, <1>5, <1>6, <1>7, <1>8 DEF m

\* Two such lists with no timer in common, one after the other.
LEMMA LineGrows ==
  ASSUME NEW l, Line(l), NEW x, Line(x), Timer!ToSet(l) \cap Timer!ToSet(x) = {}
  PROVE  Line(l \o x) /\ Timer!ToSet(l \o x) = Timer!ToSet(l) \union Timer!ToSet(x)
  <1>. DEFINE m == l \o x
              n == Len(l)
              k == Len(x)
  <1>1. /\ l \in Seq(Timers) /\ n \in Nat /\ x \in Seq(Timers) /\ k \in Nat
        /\ \A j, h \in 1 .. n : l[j] = l[h] => j = h
        /\ \A j, h \in 1 .. k : x[j] = x[h] => j = h
    BY LineIs DEF Line
  <1>2. /\ m \in Seq(Timers) /\ Len(m) = n + k
        /\ \A j \in 1 .. n + k : m[j] = IF j <= n THEN l[j] ELSE x[j - n]
    BY <1>1, ConcatProperties
  <1>. HIDE DEF m
  <1>3. \A j \in 1 .. n, h \in 1 .. k : l[j] # x[h]
    BY LineIs
  <1>. HIDE DEF n, k
  <1>4. \A j \in 1 .. n + k : (j <= n => j \in 1 .. n) /\ (~ (j <= n) => j - n \in 1 .. k)
    BY <1>1
  <1>5. Line(m)
    <2>. SUFFICES ASSUME NEW j \in 1 .. n + k, NEW h \in 1 .. n + k, m[j] = m[h] PROVE j = h
      BY <1>2 DEF Line
    <2>1. (j <= n <=> h <= n) /\ (j <= n => j = h) /\ (~ (j <= n) => j - n = h - n)
      BY <1>1, <1>2, <1>3, <1>4
    <2>. QED  BY <1>1, <2>1
  <1>6. ASSUME NEW u \in Timer!ToSet(m) PROVE u \in Timer!ToSet(l) \union Timer!ToSet(x)
    <2>1. PICK j \in 1 .. n + k : m[j] = u
      BY <1>2, <1>5, <1>6, LineIs
    <2>2. (j <= n => l[j] = u) /\ (~ (j <= n) => x[j - n] = u)
      BY <1>2, <2>1
    <2>. QED  BY <1>4, <2>2, LineIs DEF n, k
  <1>7. ASSUME NEW u \in Timer!ToSet(l) PROVE u \in Timer!ToSet(m)
    <2>1. PICK j \in 1 .. n : l[j] = u
      BY <1>7, LineIs DEF n
    <2>2. j \in 1 .. n + k /\ j <= n
      BY <1>1
    <2>. QED  BY <1>2, <1>5, <2>1, <2>2, LineIs
  <1>8. ASSUME NEW u \in Timer!ToSet(x) PROVE u \in Timer!ToSet(m)
    <2>1. PICK j \in 1 .. k : x[j] = u
      BY <1>8, LineIs DEF k
    <2>2. n + j \in 1 .. n + k /\ ~ (n + j <= n) /\ (n + j) - n = j
      BY <1>1
    <2>3. m[n + j] = x[(n + j) - n]
      BY <1>2, <2>2
    <2>. QED  BY <1>2, <1>5, <2>1, <2>2, <2>3, LineIs
  <1>. QED  BY <1>5, <1>6, <1>7, <1>8 DEF m

\* What the tick appends: the timers it took off, in their order.
LEMMA GoneIsALine ==
  ASSUME Delta(active), active # <<>>,
         NEW g, g = [i \in DOMAIN SubSeq(active, 1, Timer!Expired) |->
                       SubSeq(active, 1, Timer!Expired)[i].tcb]
  PROVE  Line(g) /\ Timer!ToSet(g) = Gone
  <1>. DEFINE e == Timer!Expired
              l == SubSeq(active, 1, e)
  <1>1. e \in 1 .. Len(active) /\ e \in Nat
    <2>1. e \in 1 .. Len(active) /\ Len(active) \in Nat
      BY ExpiredIs, DeltaIs
    <2>. QED  BY <2>1
  <1>2. /\ active \in Seq(Entries) /\ Len(active) \in Nat
        /\ \A i \in 1 .. Len(active) : active[i] \in Entries /\ active[i].tcb \in Timers
    BY DeltaIs
  <1>. HIDE DEF e
  <1>3. DOMAIN l = 1 .. e /\ \A i \in 1 .. e : l[i] = active[i]
    <2>1. \A i \in 1 .. e : active[i] \in Entries
      BY <1>1, <1>2
    <2>2. /\ l \in Seq(Entries) /\ Len(l) = IF 1 <= e THEN e - 1 + 1 ELSE 0
          /\ \A i \in 1 .. e - 1 + 1 : l[i] = active[1 + i - 1]
      BY <1>1, <1>2, <2>1, SubSeqProperties
    <2>3. DOMAIN l = 1 .. Len(l)
      BY <2>2, LenProperties
    <2>. HIDE DEF l
    <2>4. Len(l) = e /\ \A i \in 1 .. e : i \in 1 .. e - 1 + 1 /\ 1 + i - 1 = i
      BY <1>1, <2>2
    <2>. QED  BY <2>2, <2>3, <2>4
  <1>4. g = [i \in 1 .. e |-> active[i].tcb]
    <2>1. g = [i \in DOMAIN l |-> l[i].tcb]
      BY DEF e
    <2>. HIDE DEF l
    <2>. QED  BY <1>3, <2>1
  <1>5. \A i \in 1 .. e : i \in 1 .. Len(active)
    BY <1>1, <1>2
  <1>6. /\ g \in Seq(Timers) /\ Len(g) = e /\ DOMAIN g = 1 .. e
        /\ \A i \in 1 .. e : g[i] = active[i].tcb
    <2>1. \A i \in 1 .. e : active[i].tcb \in Timers
      BY <1>2, <1>5
    <2>. DEFINE h == [i \in 1 .. e |-> active[i].tcb]
    <2>2. h \in Seq(Timers)
      BY <1>1, <2>1, IsASeq
    <2>3. DOMAIN h = 1 .. e /\ \A i \in 1 .. e : h[i] = active[i].tcb
      OBVIOUS
    <2>. HIDE DEF h
    <2>4. Len(h) = e
      BY <1>1, <2>2, <2>3, LenProperties
    <2>5. g = h
      BY <1>4 DEF h
    <2>. QED  BY <2>2, <2>3, <2>4, <2>5
  <1>7. Line(g)
    <2>. SUFFICES ASSUME NEW i \in 1 .. e, NEW j \in 1 .. e, g[i] = g[j] PROVE i = j
      BY <1>6 DEF Line
    <2>1. i \in 1 .. Len(active) /\ j \in 1 .. Len(active) /\ active[i].tcb = active[j].tcb
      BY <1>5, <1>6
    <2>. QED  BY <2>1 DEF Delta, Distinct
  <1>. QED  BY <1>6, <1>7 DEF Timer!ToSet, Gone, e

\* Cardinality, in this module and in its instances.
LEMMA SameCardinality ==
  ASSUME NEW S
  PROVE  /\ Timer!Cardinality(S) = Cardinality(S)
         /\ Timer!Deadlines!Cardinality(S) = Cardinality(S)
  BY DEF Timer!Cardinality, Cardinality, Timer!Deadlines!Cardinality,
         Timer!IsFiniteSet, Timer!Deadlines!IsFiniteSet, IsFiniteSet

\* A list of n different things has n of them.
LEMMA AsManyAsPlaces ==
  ASSUME NEW n \in Nat, NEW S, NEW f \in [1 .. n -> S],
         \A i, j \in 1 .. n : f[i] = f[j] => i = j,
         \A x \in S : \E i \in 1 .. n : f[i] = x
  PROVE  Cardinality(S) = n
  <1>1. f \in Bijection(1 .. n, S)
    BY DEF Bijection, Injection, Surjection, IsInjective
  <1>2. ExistsBijection(1 .. n, S)
    BY <1>1 DEF ExistsBijection
  <1>. QED BY <1>2, FS_CountingElements, FS_NatBijection

-----------------------------------------------------------------------------
(* The invariant of the timers.                                            *)
ConfigInv ==
  /\ Timer!Created \subseteq Timers
  /\ \A t \in Timer!Created : config[t] \in [period : Periods, repeat : BOOLEAN]

\* The lists, and the counter: it is the time of the first timer, and the times
\* of all of them together are within its width.
DelayInv ==
  /\ Sound(Timer!Q)
  /\ tick = "idle" => Awake(Timer!Q)
  /\ Timer!Names(active) \subseteq Timer!Created

ReadyInv ==
  /\ Line(ready)
  /\ Timer!ToSet(ready) \subseteq Timer!Created
  /\ Timer!Names(active) \cap Timer!ToSet(ready) = {}

LoopInv ==
  /\ tick \in {"idle", "counted"}
  /\ loop \in [op : {"none", "stop", "destroy"}, on : Timers \union {"none"},
               cb : Timers \union {"none"}, at : {"loop", "taken", "callback"}]
  /\ loop.op # "none" => loop.on \in Timers
  /\ calls \in 0 .. MaxCalls

TimerInv == ConfigInv /\ DelayInv /\ ReadyInv /\ LoopInv

\* When no handler of a higher priority comes in between, the tick has counted
\* to zero when it takes the lock.
TickInv == tick = "counted" => active # <<>> /\ count = 0

\* The fields of the record.
LEMMA QIs == Timer!Q.active = active /\ Timer!Q.count = count
  BY DEF Timer!Q

\* Only the two fields count.
LEMMA OnlyFieldsCount ==
  ASSUME NEW q, NEW r, q.active = r.active, q.count = r.count
  PROVE  (Sound(q) <=> Sound(r)) /\ (Awake(q) <=> Awake(r)) /\ Ticks(q) = Ticks(r)
  BY DEF Sound, Awake, Ticks

\* A running timer has ticks left, and more than none while the counter is not zero.
LEMMA TicksAre ==
  ASSUME NEW q, Sound(q)
  PROVE  /\ DOMAIN Ticks(q) = Timer!Names(q.active)
         /\ \A t \in Timer!Names(q.active) : Ticks(q)[t] \in Nat /\ (Awake(q) => Ticks(q)[t] > 0)
  <1>1. DOMAIN Ticks(q) = Timer!Names(q.active)
    BY DEF Ticks
  <1>2. ASSUME NEW t \in Timer!Names(q.active)
        PROVE  Ticks(q)[t] \in Nat /\ (Awake(q) => Ticks(q)[t] > 0)
    <2>1. Delta(q.active) /\ q.count \in Nat
      BY WordIs DEF Sound, Width
    <2>2. /\ Due(q.active, t) \in Nat /\ q.active # <<>> /\ q.active[1].remaining <= Due(q.active, t)
          /\ q.active[1].remaining \in Nat
      BY <2>1, DeltaIs
    <2>3. Ticks(q)[t] = q.count + Due(q.active, t) - q.active[1].remaining
      BY DEF Ticks
    <2>. QED  BY <2>1, <2>2, <2>3 DEF Awake
  <1>. QED  BY <1>1, <1>2

-----------------------------------------------------------------------------
(* What the operations leave behind.                                       *)
\* tcb->ops.remove, when the timer is on the active list.
LEMMA RemovedIs ==
  ASSUME DelayInv, NEW t \in Timers, NEW garbage \in Width,
         NEW r, r = Timer!Removed(t, garbage)
  PROVE  /\ Sound(r) /\ (Awake(Timer!Q) => Awake(r))
         /\ Timer!Names(r.active) = Timer!Names(active) \ {t}
         /\ Ticks(r) = [u \in Timer!Names(active) \ {t} |-> Ticks(Timer!Q)[u]]
  <1>1. CASE t \in Timer!Names(active)
    <2>. DEFINE m == Timer!RemoveFromActive(Timer!Q, t, garbage)
    <2>1. r = m
      BY <1>1 DEF Timer!Removed
    <2>2. Sound(Timer!Q) /\ t \in Timer!Names(Timer!Q.active)
      BY <1>1, QIs DEF DelayInv
    <2>3. /\ Sound(m) /\ (Awake(Timer!Q) => Awake(m))
          /\ Timer!Names(m.active) = Timer!Names(Timer!Q.active) \ {t}
          /\ Ticks(m) = [u \in Timer!Names(Timer!Q.active) \ {t} |-> Ticks(Timer!Q)[u]]
      BY <2>2, RemoveIsSound
    <2>. HIDE DEF m
    <2>. QED  BY <2>1, <2>3, QIs
  <1>2. CASE t \notin Timer!Names(active)
    <2>1. r = Timer!Q
      BY <1>2 DEF Timer!Removed
    <2>2. Ticks(Timer!Q) = [u \in Timer!Names(active) |-> Ticks(Timer!Q)[u]]
      BY QIs DEF Ticks
    <2>3. Timer!Names(active) \ {t} = Timer!Names(active)
      BY <1>2
    <2>. QED  BY <2>1, <2>2, <2>3, QIs DEF DelayInv
  <1>. QED  BY <1>1, <1>2

\* The list of due timers without a timer that may be on it.
LEMMA ReadyWithout ==
  ASSUME ReadyInv, NEW t
  PROVE  /\ Line(Timer!RemoveFromReady(t))
         /\ Timer!ToSet(Timer!RemoveFromReady(t)) = Timer!ToSet(ready) \ {t}
  <1>1. CASE t \in Timer!ToSet(ready)
    <2>1. Timer!RemoveFromReady(t)
            = Timer!RemoveAt(ready, CHOOSE i \in DOMAIN ready : ready[i] = t)
      BY <1>1 DEF Timer!RemoveFromReady
    <2>. QED  BY <1>1, <2>1, LineRemoves DEF ReadyInv
  <1>2. CASE t \notin Timer!ToSet(ready)
    BY <1>2 DEF Timer!RemoveFromReady, ReadyInv
  <1>. QED  BY <1>1, <1>2

\* A timer is taken off both lists, and the others keep their ticks.
LEMMA UnlistIs ==
  ASSUME DelayInv, ReadyInv, NEW t \in Timers, Timer!Unlist(t)
  PROVE  /\ Sound(Timer!Q)' /\ (Awake(Timer!Q) => Awake(Timer!Q)')
         /\ Timer!Names(active)' = Timer!Names(active) \ {t}
         /\ Ticks(Timer!Q)' = [u \in Timer!Names(active) \ {t} |-> Ticks(Timer!Q)[u]]
         /\ Line(ready)' /\ Timer!ToSet(ready)' = Timer!ToSet(ready) \ {t}
         /\ ready' = Timer!RemoveFromReady(t)
  <1>1. PICK garbage \in Width : /\ active' = Timer!Removed(t, garbage).active
                                 /\ count' = Timer!Removed(t, garbage).count
    BY DEF Timer!Unlist, Width
  <1>. DEFINE r == Timer!Removed(t, garbage)
  <1>2. /\ Sound(r) /\ (Awake(Timer!Q) => Awake(r))
        /\ Timer!Names(r.active) = Timer!Names(active) \ {t}
        /\ Ticks(r) = [u \in Timer!Names(active) \ {t} |-> Ticks(Timer!Q)[u]]
    BY RemovedIs
  <1>3. (Timer!Q)'.active = r.active /\ (Timer!Q)'.count = r.count /\ active' = r.active
    BY <1>1 DEF Timer!Q
  <1>. HIDE DEF r
  <1>4. (Sound((Timer!Q)') <=> Sound(r)) /\ (Awake((Timer!Q)') <=> Awake(r)) /\ Ticks((Timer!Q)') = Ticks(r)
    BY <1>3, OnlyFieldsCount
  <1>5. ready' = Timer!RemoveFromReady(t)
    BY DEF Timer!Unlist
  <1>6. Line(ready)' /\ Timer!ToSet(ready)' = Timer!ToSet(ready) \ {t}
    BY <1>5, ReadyWithout
  <1>. QED  BY <1>2, <1>3, <1>4, <1>5, <1>6

\* A timer runs from here on, wherever it was.
LEMMA StartWithIs ==
  ASSUME ConfigInv, DelayInv, ReadyInv, NEW t \in Timer!Created, NEW period \in Periods,
         Timer!StartWith(t, period)
  PROVE  /\ Sound(Timer!Q)' /\ (Awake(Timer!Q) => Awake(Timer!Q)')
         /\ Timer!Names(active)' = Timer!Names(active) \union {t}
         /\ Ticks(Timer!Q)' = [u \in Timer!Names(active) \union {t} |->
                                 IF u = t THEN period ELSE Ticks(Timer!Q)[u]]
         /\ Line(ready)' /\ Timer!ToSet(ready)' = Timer!ToSet(ready) \ {t}
         /\ ready' = Timer!RemoveFromReady(t)
  <1>. DEFINE r == Timer!Removed(t, 0)
              s == Timer!InsertToActive(r, t, period)
  <1>0. t \in Timers /\ 0 \in Width /\ period \in 1 .. CountWord - 1
    BY WordIs DEF ConfigInv, Width
  <1>1. active' = s.active /\ count' = s.count
    BY DEF Timer!StartWith
  <1>2. /\ Sound(r) /\ (Awake(Timer!Q) => Awake(r))
        /\ Timer!Names(r.active) = Timer!Names(active) \ {t}
        /\ Ticks(r) = [u \in Timer!Names(active) \ {t} |-> Ticks(Timer!Q)[u]]
    BY <1>0, RemovedIs
  <1>. HIDE DEF r
  <1>3. /\ Sound(s) /\ (Awake(r) => Awake(s))
        /\ Timer!Names(s.active) = Timer!Names(r.active) \union {t}
        /\ Ticks(s) = [u \in Timer!Names(r.active) \union {t} |->
                          IF u = t THEN period ELSE Ticks(r)[u]]
    <2>1. t \notin Timer!Names(r.active)
      BY <1>2
    <2>2. Sound(r)
      BY <1>2
    <2>. QED  BY <1>0, <2>1, <2>2, InsertIsSound
  <1>. HIDE DEF s
  <1>4. (Timer!Q)'.active = s.active /\ (Timer!Q)'.count = s.count
    BY <1>1 DEF Timer!Q
  <1>5. (Sound((Timer!Q)') <=> Sound(s)) /\ (Awake((Timer!Q)') <=> Awake(s)) /\ Ticks((Timer!Q)') = Ticks(s)
    BY <1>4, OnlyFieldsCount
  <1>6. ready' = Timer!RemoveFromReady(t)
    BY DEF Timer!StartWith
  <1>7. Line(ready)' /\ Timer!ToSet(ready)' = Timer!ToSet(ready) \ {t}
    BY <1>6, ReadyWithout
  <1>8. Timer!Names(r.active) \union {t} = Timer!Names(active) \union {t}
    BY <1>2
  <1>9. Ticks(s) = [u \in Timer!Names(active) \union {t} |->
                      IF u = t THEN period ELSE Ticks(Timer!Q)[u]]
    <2>1. \A u \in Timer!Names(active) \union {t} : u # t => Ticks(r)[u] = Ticks(Timer!Q)[u]
      BY <1>2
    <2>. QED  BY <1>3, <1>8, <2>1
  <1>. QED  BY <1>1, <1>2, <1>3, <1>5, <1>6, <1>7, <1>8, <1>9

\* The oldest due timer is taken, and runs again when it repeats.
LEMMA PollTakeIs ==
  ASSUME ConfigInv, DelayInv, ReadyInv, Timer!PollTake
  PROVE  /\ ready # <<>> /\ Head(ready) \in Timer!Created /\ Head(ready) \in Timers
         /\ Head(ready) \notin Timer!Names(active)
         /\ Sound(Timer!Q)' /\ (Awake(Timer!Q) => Awake(Timer!Q)')
         /\ Timer!Names(active)' = IF config[Head(ready)].repeat
                                   THEN Timer!Names(active) \union {Head(ready)}
                                   ELSE Timer!Names(active)
         /\ Ticks(Timer!Q)' = IF config[Head(ready)].repeat
                              THEN [u \in Timer!Names(active) \union {Head(ready)} |->
                                      IF u = Head(ready) THEN config[u].period ELSE Ticks(Timer!Q)[u]]
                              ELSE Ticks(Timer!Q)
         /\ Line(ready)' /\ Timer!ToSet(ready)' = Timer!ToSet(ready) \ {Head(ready)}
         /\ ready' = Tail(ready)
  <1>. DEFINE t == Head(ready)
              s == Timer!InsertToActive(Timer!Q, t, config[t].period)
  <1>1. /\ ready # <<>> /\ ready' = Tail(ready)
        /\ config[t].repeat => active' = s.active /\ count' = s.count
        /\ ~ config[t].repeat => active' = active /\ count' = count
    BY QIs DEF Timer!PollTake
  <1>2. /\ t \in Timer!ToSet(ready) /\ t \in Timers
        /\ Line(ready)' /\ Timer!ToSet(ready)' = Timer!ToSet(ready) \ {t}
    BY <1>1, LineAdvances DEF ReadyInv
  <1>. HIDE DEF t
  <1>3. /\ t \in Timer!Created /\ t \notin Timer!Names(active)
    BY <1>2 DEF ReadyInv
  <1>4. config[t].period \in Periods /\ config[t].repeat \in BOOLEAN
    BY <1>3 DEF ConfigInv
  <1>5. CASE config[t].repeat
    <2>1. /\ Sound(s) /\ (Awake(Timer!Q) => Awake(s))
          /\ Timer!Names(s.active) = Timer!Names(Timer!Q.active) \union {t}
          /\ Ticks(s) = [u \in Timer!Names(Timer!Q.active) \union {t} |->
                            IF u = t THEN config[t].period ELSE Ticks(Timer!Q)[u]]
      <3>1. t \notin Timer!Names(Timer!Q.active) /\ Sound(Timer!Q)
        BY <1>3, QIs DEF DelayInv
      <3>2. config[t].period \in 1 .. CountWord - 1
        BY <1>4, WordIs
      <3>. QED  BY <1>2, <3>1, <3>2, InsertIsSound
    <2>. HIDE DEF s
    <2>2. (Timer!Q)'.active = s.active /\ (Timer!Q)'.count = s.count
      BY <1>1, <1>5 DEF Timer!Q
    <2>3. (Sound((Timer!Q)') <=> Sound(s)) /\ (Awake((Timer!Q)') <=> Awake(s)) /\ Ticks((Timer!Q)') = Ticks(s)
      BY <2>2, OnlyFieldsCount
    <2>4. Ticks(s) = [u \in Timer!Names(active) \union {t} |->
                        IF u = t THEN config[u].period ELSE Ticks(Timer!Q)[u]]
      BY <2>1, QIs
    <2>. QED  BY <1>1, <1>2, <1>3, <1>5, <2>1, <2>3, <2>4, QIs DEF t
  <1>6. CASE ~ config[t].repeat
    <2>2. (Timer!Q)'.active = (Timer!Q).active /\ (Timer!Q)'.count = (Timer!Q).count
      BY <1>1, <1>6 DEF Timer!Q
    <2>3. /\ Sound((Timer!Q)') <=> Sound(Timer!Q)
          /\ Awake((Timer!Q)') <=> Awake(Timer!Q)
          /\ Ticks((Timer!Q)') = Ticks(Timer!Q)
      BY <2>2, OnlyFieldsCount
    <2>. QED  BY <1>1, <1>2, <1>3, <1>6, <2>3 DEF DelayInv, t
  <1>. QED  BY <1>5, <1>6

\* One tick is taken from every timer.
LEMMA TickCountIs ==
  ASSUME DelayInv, Timer!TickCount
  PROVE  /\ tick = "idle" /\ Sound(Timer!Q)' /\ active' = active
         /\ active # <<>> => count > 0 /\ count' = count - 1
         /\ Ticks(Timer!Q)' = [t \in Timer!Names(active) |-> Ticks(Timer!Q)[t] - 1]
         /\ tick' = "idle" => Awake(Timer!Q)'
         /\ tick' = "counted" => active' # <<>> /\ count' = 0
         /\ tick' \in {"idle", "counted"}
  <1>1. /\ tick = "idle" /\ active' = active /\ count' = (count + CountWord - 1) % CountWord
        /\ tick' = IF count' = 0 /\ active # <<>> THEN "counted" ELSE "idle"
    BY DEF Timer!TickCount
  <1>2. /\ Sound(Timer!Q) /\ Awake(Timer!Q) /\ count \in Width /\ Delta(active)
        /\ active # <<>> => /\ count > 0
                            /\ count + Total(active) - active[1].remaining \in Width
    <2>1. Sound(Timer!Q) /\ Awake(Timer!Q)
      BY <1>1 DEF DelayInv
    <2>. QED  BY <2>1, QIs DEF Sound, Awake
  <1>3. count \in Nat /\ CountWord \in Nat \ {0} /\ count < CountWord
    BY <1>2, WordIs DEF Width
  <1>4. count' \in Width /\ (count > 0 => count' = count - 1)
    <2>1. (count + CountWord - 1) % CountWord \in 0 .. CountWord - 1
      BY <1>3
    <2>2. ASSUME count > 0 PROVE (count + CountWord - 1) % CountWord = count - 1
      <3>. DEFINE x == count + CountWord - 1
                  y == x % CountWord
                  z == x \div CountWord
      <3>1. x \in Nat /\ x = (count - 1) + CountWord
        BY <1>3, <2>2
      <3>2. y \in 0 .. CountWord - 1 /\ z \in Int /\ x = z * CountWord + y
        BY <1>3, <3>1
      <3>. HIDE DEF x, y, z
      <3>3. ~ (z <= 0) /\ ~ (z >= 2)
        <4>1. ASSUME z <= 0 PROVE FALSE
          <5>1. z * CountWord <= 0
            BY <1>3, <3>2, <4>1
          <5>. QED  BY <1>3, <2>2, <3>1, <3>2, <5>1
        <4>2. ASSUME z >= 2 PROVE FALSE
          <5>1. z * CountWord >= 2 * CountWord
            BY <1>3, <3>2, <4>2
          <5>. QED  BY <1>3, <2>2, <3>1, <3>2, <5>1
        <4>. QED  BY <4>1, <4>2
      <3>4. z = 1
        BY <3>2, <3>3
      <3>5. y = count - 1
        BY <1>3, <3>1, <3>2, <3>4
      <3>. QED  BY <3>5 DEF y, x
    <2>. QED  BY <1>1, <2>1, <2>2 DEF Width
  <1>5. (Timer!Q)'.active = active /\ (Timer!Q)'.count = count'
    BY <1>1 DEF Timer!Q
  <1>6. Sound((Timer!Q)')
    <2>1. \A i \in 1 .. Len(active) : active[i].remaining \in Width
      BY <1>2, QIs DEF Sound
    <2>2. active # <<>> => count' + Total(active) - active[1].remaining \in Width
      <3>. SUFFICES ASSUME active # <<>>
                    PROVE  count' + Total(active) - active[1].remaining \in Width
        OBVIOUS
      <3>1. /\ Total(active) \in Nat /\ active[1].remaining \in Nat
            /\ active[1].remaining <= Total(active)
        <4>1. 1 \in 1 .. Len(active) /\ Len(active) \in 1 .. Len(active)
          BY <1>2, DeltaIs
        <4>2. /\ Timer!Sum(active, Len(active)) \in Nat /\ active[1].remaining \in Nat
              /\ Timer!Sum(active, 1) <= Total(active) /\ Timer!Sum(active, 1) = active[1].remaining
          BY <1>2, <4>1, DeltaIs
        <4>. QED  BY <4>2 DEF Total
      <3>. QED  BY <1>2, <1>3, <1>4, <3>1 DEF Width
    <2>. QED  BY <1>2, <1>4, <1>5, <2>1, <2>2 DEF Sound
  <1>7. Ticks((Timer!Q)') = [t \in Timer!Names(active) |-> Ticks(Timer!Q)[t] - 1]
    <2>1. ASSUME NEW t \in Timer!Names(active)
          PROVE  count' + Due(active, t) - active[1].remaining = Ticks(Timer!Q)[t] - 1
      <3>1. /\ active # <<>> /\ Due(active, t) \in Nat /\ active[1].remaining \in Nat
        BY <1>2, DeltaIs
      <3>2. Ticks(Timer!Q)[t] = count + Due(active, t) - active[1].remaining
        BY QIs DEF Ticks
      <3>. QED  BY <1>2, <1>3, <1>4, <3>1, <3>2
    <2>. QED  BY <1>5, <2>1 DEF Ticks
  <1>8. tick' = "idle" => Awake((Timer!Q)')
    <2>1. count' \in Nat
      BY <1>3, <1>4 DEF Width
    <2>. QED  BY <1>1, <1>5, <2>1 DEF Awake
  <1>. QED  BY <1>1, <1>2, <1>4, <1>6, <1>7, <1>8

\* The timers that the tick takes off, one after the other.
Leaving == [i \in DOMAIN SubSeq(active, 1, Timer!Expired) |->
              SubSeq(active, 1, Timer!Expired)[i].tcb]

\* The timers with no ticks left become due, in their order.
LEMMA TickExpireIs ==
  ASSUME DelayInv, ReadyInv, Timer!TickExpire, active # <<>>
  PROVE  /\ Sound(Timer!Q)' /\ Awake(Timer!Q)'
         /\ Timer!Names(active)' = Timer!Names(active) \ Gone
         /\ Ticks(Timer!Q)' = [u \in Timer!Names(active) \ Gone |-> Ticks(Timer!Q)[u]]
         /\ Gone \subseteq Timer!Names(active)
         /\ \A t \in Gone : Ticks(Timer!Q)[t] = count
         /\ count = 0 => \A t \in Timer!Names(active) \ Gone : Ticks(Timer!Q)[t] > 0
         /\ ready' = ready \o Leaving
         /\ Line(Leaving) /\ Timer!ToSet(Leaving) = Gone
         /\ Line(ready)' /\ Timer!ToSet(ready)' = Timer!ToSet(ready) \union Gone
  <1>1. PICK garbage \in Width :
          /\ active' = Timer!Counted(CutOff(active, Timer!Expired, count), garbage).active
          /\ count' = Timer!Counted(CutOff(active, Timer!Expired, count), garbage).count
    BY DEF Timer!TickExpire, CutOff, Width
  <1>2. ready' = ready \o Leaving
    BY DEF Timer!TickExpire, Timer!InsertToReady, Leaving
  <1>3. Sound(Timer!Q) /\ Delta(active)
    BY QIs DEF DelayInv, Sound
  <1>. DEFINE r == Timer!Counted(CutOff(active, Timer!Expired, count), garbage)
  <1>4. /\ Sound(r) /\ Awake(r)
        /\ Timer!Names(r.active) = Timer!Names(active) \ Gone
        /\ Ticks(r) = [u \in Timer!Names(active) \ Gone |-> Ticks(Timer!Q)[u]]
        /\ Gone \subseteq Timer!Names(active)
        /\ \A t \in Gone : Ticks(Timer!Q)[t] = count
        /\ count = 0 => \A t \in Timer!Names(active) \ Gone : Ticks(Timer!Q)[t] > 0
    BY <1>3, ExpireIsSound
  <1>5. (Timer!Q)'.active = r.active /\ (Timer!Q)'.count = r.count /\ active' = r.active
    BY <1>1 DEF Timer!Q
  <1>. HIDE DEF r
  <1>6. (Sound((Timer!Q)') <=> Sound(r)) /\ (Awake((Timer!Q)') <=> Awake(r)) /\ Ticks((Timer!Q)') = Ticks(r)
    BY <1>5, OnlyFieldsCount
  <1>7. Line(Leaving) /\ Timer!ToSet(Leaving) = Gone
    BY <1>3, GoneIsALine DEF Leaving
  <1>8. Line(ready)' /\ Timer!ToSet(ready)' = Timer!ToSet(ready) \union Gone
    <2>1. Timer!ToSet(ready) \cap Timer!ToSet(Leaving) = {} /\ Line(ready)
      BY <1>4, <1>7 DEF ReadyInv
    <2>2. /\ Line(ready \o Leaving)
          /\ Timer!ToSet(ready \o Leaving) = Timer!ToSet(ready) \union Timer!ToSet(Leaving)
      BY <1>7, <2>1, LineGrows
    <2>. QED  BY <1>2, <1>7, <2>2
  <1>. QED  BY <1>2, <1>4, <1>5, <1>6, <1>7, <1>8

-----------------------------------------------------------------------------
(* Every action keeps the invariant.                                       *)
\* The invariant holds at the start.
LEMMA TimerInit == Timer!Init => TimerInv
  <1>. SUFFICES ASSUME Timer!Init PROVE TimerInv
    OBVIOUS
  <1>1. /\ config = <<>> /\ active = <<>> /\ ready = <<>> /\ count = 0 /\ tick = "idle"
        /\ loop = [op |-> "none", on |-> "none", cb |-> "none", at |-> "loop"] /\ calls = 0
    BY DEF Timer!Init, Timer!None
  <1>2. DOMAIN config = {} /\ Timer!Created = {}
    BY <1>1 DEF Timer!Created
  <1>3. Delta(active) /\ Len(active) = 0 /\ Timer!Names(active) = {}
    <2>1. active \in Seq(Entries) /\ Len(active) = 0 /\ DOMAIN active = {}
      BY <1>1
    <2>. QED  BY <2>1 DEF Delta, Distinct, Timer!Names
  <1>4. Sound(Timer!Q) /\ Awake(Timer!Q)
    <2>1. 0 \in Width
      BY WordIs DEF Width
    <2>2. \A i \in 1 .. Len(active) : FALSE
      BY <1>3
    <2>. QED  BY <1>1, <1>3, <2>1, <2>2, QIs DEF Sound, Awake
  <1>5. Line(ready) /\ Timer!ToSet(ready) = {}
    <2>1. ready \in Seq(Timers) /\ Len(ready) = 0 /\ DOMAIN ready = {}
      BY <1>1
    <2>. QED  BY <2>1 DEF Line, Timer!ToSet
  <1>6. LoopInv
    <2>1. calls \in 0 .. MaxCalls
      BY <1>1, PartsAssumption DEF Timer!TimerAssumption
    <2>. QED  BY <1>1, <2>1 DEF LoopInv
  <1>7. ConfigInv
    BY <1>2 DEF ConfigInv
  <1>. QED  BY <1>2, <1>3, <1>4, <1>5, <1>6, <1>7 DEF TimerInv, DelayInv, ReadyInv

\* An action that leaves the lists alone, and forgets no timer that is on one.
LEMMA ListsStay ==
  ASSUME DelayInv, ReadyInv, UNCHANGED <<active, ready, count, tick>>,
         Timer!Names(active) \subseteq Timer!Created', Timer!ToSet(ready) \subseteq Timer!Created'
  PROVE  DelayInv' /\ ReadyInv'
  <1>1. (Timer!Q)' = Timer!Q /\ Timer!Names(active)' = Timer!Names(active)
    BY DEF Timer!Q
  <1>. QED  BY <1>1 DEF DelayInv, ReadyInv

\* A call is counted.
LEMMA CallsGrow ==
  ASSUME LoopInv, NEW t, Timer!Turn(t)
  PROVE  calls' \in 0 .. MaxCalls
  BY PartsAssumption DEF LoopInv, Timer!Turn, Timer!TimerAssumption

\* soft_timer_create
LEMMA CreateKeeps ==
  ASSUME TimerInv, NEW t \in Timers, NEW p \in Periods, NEW r \in Modes,
         Timer!SoftTimerCreate(t, p, r)
  PROVE  TimerInv'
  <1>1. /\ config' = [u \in Timer!Created \union {t} |->
                        IF u = t THEN [period |-> p, repeat |-> r] ELSE config[u]]
        /\ UNCHANGED <<active, ready, count, tick, loop, calls>>
    BY DEF Timer!SoftTimerCreate
  <1>2. Timer!Created' = Timer!Created \union {t}
    BY <1>1 DEF Timer!Created
  <1>3. r \in BOOLEAN
    BY PartsAssumption DEF Timer!TimerAssumption
  <1>4. ConfigInv'
    <2>1. \A u \in Timer!Created \union {t} :
            config'[u] = IF u = t THEN [period |-> p, repeat |-> r] ELSE config[u]
      BY <1>1
    <2>2. \A u \in Timer!Created \union {t} : config'[u] \in [period : Periods, repeat : BOOLEAN]
      BY <1>3, <2>1 DEF TimerInv, ConfigInv
    <2>. QED  BY <1>2, <2>2 DEF TimerInv, ConfigInv
  <1>5. DelayInv' /\ ReadyInv'
    BY <1>1, <1>2, ListsStay DEF TimerInv, DelayInv, ReadyInv
  <1>6. LoopInv'
    BY <1>1 DEF TimerInv, LoopInv
  <1>. QED  BY <1>4, <1>5, <1>6 DEF TimerInv

\* soft_timer_set_reload_mode
LEMMA SetReloadModeKeeps ==
  ASSUME TimerInv, NEW t \in Timers, NEW r \in BOOLEAN, Timer!SoftTimerSetReloadMode(t, r)
  PROVE  TimerInv'
  <1>1. /\ t \in Timer!Created /\ Timer!Turn(t)
        /\ config' = [config EXCEPT ![t].repeat = r]
        /\ UNCHANGED <<active, ready, count, tick, loop>>
    BY DEF Timer!SoftTimerSetReloadMode
  <1>2. Timer!Created' = Timer!Created
    BY <1>1 DEF Timer!Created
  <1>4. ConfigInv'
    BY <1>1, <1>2 DEF TimerInv, ConfigInv, Timer!Created
  <1>5. DelayInv' /\ ReadyInv'
    BY <1>1, <1>2, ListsStay DEF TimerInv, DelayInv, ReadyInv
  <1>6. LoopInv'
    <2>1. calls' \in 0 .. MaxCalls
      BY <1>1, CallsGrow DEF TimerInv
    <2>. QED  BY <1>1, <2>1 DEF TimerInv, LoopInv
  <1>. QED  BY <1>4, <1>5, <1>6 DEF TimerInv

\* soft_timer_start and soft_timer_change_period
LEMMA StartWithKeeps ==
  ASSUME TimerInv, NEW t \in Timers, NEW p \in Periods, Timer!StartWith(t, p)
  PROVE  TimerInv'
  <1>1. /\ t \in Timer!Created /\ Timer!Turn(t)
        /\ config' = [config EXCEPT ![t].period = p]
        /\ UNCHANGED <<tick, loop>>
    BY DEF Timer!StartWith
  <1>2. Timer!Created' = Timer!Created
    BY <1>1 DEF Timer!Created
  <1>3. /\ Sound(Timer!Q)' /\ (Awake(Timer!Q) => Awake(Timer!Q)')
        /\ Timer!Names(active)' = Timer!Names(active) \union {t}
        /\ Line(ready)' /\ Timer!ToSet(ready)' = Timer!ToSet(ready) \ {t}
    BY <1>1, StartWithIs DEF TimerInv
  <1>4. ConfigInv'
    BY <1>1, <1>2 DEF TimerInv, ConfigInv, Timer!Created
  <1>5. DelayInv'
    BY <1>1, <1>2, <1>3 DEF TimerInv, DelayInv
  <1>6. ReadyInv'
    BY <1>1, <1>2, <1>3 DEF TimerInv, ReadyInv
  <1>7. LoopInv'
    <2>1. calls' \in 0 .. MaxCalls
      BY <1>1, CallsGrow DEF TimerInv
    <2>. QED  BY <1>1, <2>1 DEF TimerInv, LoopInv
  <1>. QED  BY <1>4, <1>5, <1>6, <1>7 DEF TimerInv

\* The timer that is taken off may be forgotten as well.
LEMMA UnlistKeeps ==
  ASSUME TimerInv, NEW t \in Timers, Timer!Unlist(t), UNCHANGED tick,
         Timer!Created \ {t} \subseteq Timer!Created'
  PROVE  DelayInv' /\ ReadyInv'
  <1>1. /\ Sound(Timer!Q)' /\ (Awake(Timer!Q) => Awake(Timer!Q)')
        /\ Timer!Names(active)' = Timer!Names(active) \ {t}
        /\ Line(ready)' /\ Timer!ToSet(ready)' = Timer!ToSet(ready) \ {t}
    BY UnlistIs DEF TimerInv
  <1>2. DelayInv'
    BY <1>1 DEF TimerInv, DelayInv
  <1>3. ReadyInv'
    BY <1>1 DEF TimerInv, ReadyInv
  <1>. QED  BY <1>2, <1>3

\* soft_timer_stop in an interrupt handler
LEMMA IsrStopKeeps ==
  ASSUME TimerInv, NEW t \in Timers, Timer!IsrStop(t)
  PROVE  TimerInv'
  <1>1. Timer!Turn(t) /\ Timer!Unlist(t) /\ UNCHANGED <<config, tick, loop>>
    BY DEF Timer!IsrStop
  <1>2. Timer!Created' = Timer!Created
    BY <1>1 DEF Timer!Created
  <1>3. ConfigInv'
    BY <1>1, <1>2 DEF TimerInv, ConfigInv
  <1>4. DelayInv' /\ ReadyInv'
    BY <1>1, <1>2, UnlistKeeps
  <1>5. LoopInv'
    <2>1. calls' \in 0 .. MaxCalls
      BY <1>1, CallsGrow DEF TimerInv
    <2>. QED  BY <1>1, <2>1 DEF TimerInv, LoopInv
  <1>. QED  BY <1>3, <1>4, <1>5 DEF TimerInv

\* config without a timer
LEMMA Forgets ==
  ASSUME ConfigInv, NEW t, config' = [u \in Timer!Created \ {t} |-> config[u]]
  PROVE  ConfigInv' /\ Timer!Created' = Timer!Created \ {t}
  <1>1. config' = [u \in Timer!Created \ {t} |-> config[u]]
    OBVIOUS
  <1>2. Timer!Created' = Timer!Created \ {t}
    BY <1>1 DEF Timer!Created
  <1>3. \A u \in Timer!Created \ {t} : config'[u] = config[u]
    BY <1>1
  <1>. QED  BY <1>2, <1>3 DEF ConfigInv

\* soft_timer_stop and soft_timer_destroy, before they take the lock
LEMMA StopCheckKeeps ==
  ASSUME TimerInv, NEW t \in Timers, NEW op \in {"stop", "destroy"}, Timer!StopCheck(t, op)
  PROVE  TimerInv'
  <1>1. /\ Timer!Turn(t) /\ UNCHANGED <<active, ready, count, tick>>
        /\ t \notin Timer!Names(active) \union Timer!ToSet(ready) =>
             loop' = loop /\ \/ config' = config
                             \/ config' = [u \in Timer!Created \ {t} |-> config[u]]
        /\ t \in Timer!Names(active) \union Timer!ToSet(ready) =>
             loop' = [loop EXCEPT !.op = op, !.on = t] /\ config' = config
    BY DEF Timer!StopCheck, Timer!Listed, Timer!RestrictDomain, Timer!Restrict, Timer!Created
  <1>2. ConfigInv' /\ Timer!Names(active) \subseteq Timer!Created'
                   /\ Timer!ToSet(ready) \subseteq Timer!Created'
    <2>1. CASE config' = config
      BY <2>1 DEF TimerInv, ConfigInv, DelayInv, ReadyInv, Timer!Created
    <2>2. CASE config' = [u \in Timer!Created \ {t} |-> config[u]]
               /\ t \notin Timer!Names(active) \union Timer!ToSet(ready)
      <3>1. ConfigInv' /\ Timer!Created' = Timer!Created \ {t}
        BY <2>2, Forgets DEF TimerInv
      <3>. QED  BY <2>2, <3>1 DEF TimerInv, DelayInv, ReadyInv
    <2>. QED  BY <1>1, <2>1, <2>2
  <1>3. DelayInv' /\ ReadyInv'
    BY <1>1, <1>2, ListsStay DEF TimerInv
  <1>4. LoopInv'
    <2>1. calls' \in 0 .. MaxCalls
      BY <1>1, CallsGrow DEF TimerInv
    <2>. QED  BY <1>1, <2>1 DEF TimerInv, LoopInv
  <1>. QED  BY <1>2, <1>3, <1>4 DEF TimerInv

\* The same, with the lock taken; the timer is one of the application's.
LEMMA StopRemoveKeeps ==
  ASSUME TimerInv, Timer!StopRemove
  PROVE  TimerInv' /\ loop.on \in Timers
  <1>1. /\ loop.op # "none" /\ Timer!Unlist(loop.on)
        /\ config' = config \/ config' = [u \in Timer!Created \ {loop.on} |-> config[u]]
        /\ loop' = [loop EXCEPT !.op = "none", !.on = "none"]
        /\ UNCHANGED <<tick, calls>>
    BY DEF Timer!StopRemove, Timer!None, Timer!RestrictDomain, Timer!Restrict, Timer!Created
  <1>2. loop.on \in Timers
    BY <1>1 DEF TimerInv, LoopInv
  <1>3. ConfigInv' /\ Timer!Created \ {loop.on} \subseteq Timer!Created'
    <2>1. CASE config' = config
      BY <2>1 DEF TimerInv, ConfigInv, Timer!Created
    <2>2. CASE config' = [u \in Timer!Created \ {loop.on} |-> config[u]]
      BY <2>2, Forgets DEF TimerInv
    <2>. QED  BY <1>1, <2>1, <2>2
  <1>4. DelayInv' /\ ReadyInv'
    BY <1>1, <1>2, <1>3, UnlistKeeps
  <1>5. LoopInv'
    BY <1>1 DEF TimerInv, LoopInv
  <1>. QED  BY <1>2, <1>3, <1>4, <1>5 DEF TimerInv

\* soft_timer_poll takes a timer.
LEMMA PollTakeKeeps ==
  ASSUME TimerInv, Timer!PollTake
  PROVE  TimerInv'
  <1>1. /\ loop' = [loop EXCEPT !.cb = Head(ready), !.at = "taken"]
        /\ UNCHANGED <<config, tick, calls>>
    BY DEF Timer!PollTake
  <1>2. /\ Head(ready) \in Timer!Created /\ Head(ready) \in Timers
        /\ Head(ready) \notin Timer!Names(active)
        /\ Sound(Timer!Q)' /\ (Awake(Timer!Q) => Awake(Timer!Q)')
        /\ Timer!Names(active)' \subseteq Timer!Names(active) \union {Head(ready)}
        /\ Line(ready)' /\ Timer!ToSet(ready)' = Timer!ToSet(ready) \ {Head(ready)}
    BY PollTakeIs DEF TimerInv
  <1>3. Timer!Created' = Timer!Created
    BY <1>1 DEF Timer!Created
  <1>4. ConfigInv'
    BY <1>1, <1>3 DEF TimerInv, ConfigInv
  <1>5. DelayInv'
    BY <1>1, <1>2, <1>3 DEF TimerInv, DelayInv
  <1>6. ReadyInv'
    BY <1>2, <1>3 DEF TimerInv, ReadyInv
  <1>7. LoopInv'
    BY <1>1, <1>2 DEF TimerInv, LoopInv
  <1>. QED  BY <1>4, <1>5, <1>6, <1>7 DEF TimerInv

\* The callback is entered and left.
LEMMA PollGoesOn ==
  ASSUME TimerInv, Timer!PollCall \/ Timer!PollReturn
  PROVE  TimerInv'
  <1>1. /\ UNCHANGED <<config, active, ready, count, tick, calls>>
        /\ \/ loop' = [loop EXCEPT !.at = "callback"]
           \/ loop' = [loop EXCEPT !.at = "loop", !.cb = "none"]
    BY DEF Timer!PollCall, Timer!PollReturn, Timer!None
  <1>2. Timer!Created' = Timer!Created
    BY <1>1 DEF Timer!Created
  <1>3. ConfigInv'
    BY <1>1, <1>2 DEF TimerInv, ConfigInv
  <1>4. DelayInv' /\ ReadyInv'
    BY <1>1, <1>2, ListsStay DEF TimerInv, DelayInv, ReadyInv
  <1>5. LoopInv'
    BY <1>1 DEF TimerInv, LoopInv
  <1>. QED  BY <1>3, <1>4, <1>5 DEF TimerInv

\* soft_timer_tick counts.
LEMMA TickCountKeeps ==
  ASSUME TimerInv, Timer!TickCount
  PROVE  TimerInv' /\ TickInv'
  <1>1. UNCHANGED <<config, active, ready, loop, calls>>
    BY DEF Timer!TickCount
  <1>2. /\ Sound(Timer!Q)' /\ (tick' = "idle" => Awake(Timer!Q)')
        /\ tick' = "counted" => active' # <<>> /\ count' = 0
        /\ tick' \in {"idle", "counted"}
    BY TickCountIs DEF TimerInv
  <1>3. Timer!Created' = Timer!Created /\ Timer!Names(active)' = Timer!Names(active)
    BY <1>1 DEF Timer!Created
  <1>4. ConfigInv'
    BY <1>1, <1>3 DEF TimerInv, ConfigInv
  <1>5. DelayInv'
    BY <1>1, <1>2, <1>3 DEF TimerInv, DelayInv
  <1>6. ReadyInv'
    BY <1>1, <1>3 DEF TimerInv, ReadyInv
  <1>7. LoopInv'
    BY <1>1, <1>2 DEF TimerInv, LoopInv
  <1>. QED  BY <1>2, <1>4, <1>5, <1>6, <1>7 DEF TimerInv, TickInv

\* soft_timer_tick expires timers.
LEMMA TickExpireKeeps ==
  ASSUME TimerInv, Timer!TickExpire
  PROVE  TimerInv' /\ TickInv'
  <1>1. /\ UNCHANGED <<config, loop, calls>> /\ tick' = "idle"
        /\ active = <<>> => UNCHANGED <<active, ready, count>>
    BY DEF Timer!TickExpire
  <1>2. Timer!Created' = Timer!Created
    BY <1>1 DEF Timer!Created
  <1>3. ConfigInv'
    BY <1>1, <1>2 DEF TimerInv, ConfigInv
  <1>4. LoopInv'
    BY <1>1 DEF TimerInv, LoopInv
  <1>5. CASE active = <<>>
    <2>1. (Timer!Q)' = Timer!Q /\ Timer!Names(active)' = Timer!Names(active) /\ Awake((Timer!Q)')
      BY <1>1, <1>5, QIs DEF Timer!Q, Awake
    <2>2. DelayInv' /\ ReadyInv'
      BY <1>1, <1>2, <1>5, <2>1 DEF TimerInv, DelayInv, ReadyInv
    <2>. QED  BY <1>1, <1>3, <1>4, <2>2 DEF TimerInv, TickInv
  <1>6. CASE active # <<>>
    <2>1. /\ Sound(Timer!Q)' /\ Awake(Timer!Q)'
          /\ Timer!Names(active)' = Timer!Names(active) \ Gone
          /\ Gone \subseteq Timer!Names(active)
          /\ Line(ready)' /\ Timer!ToSet(ready)' = Timer!ToSet(ready) \union Gone
      BY <1>6, TickExpireIs DEF TimerInv
    <2>2. DelayInv'
      BY <1>2, <2>1 DEF TimerInv, DelayInv
    <2>3. ReadyInv'
      BY <1>2, <2>1 DEF TimerInv, DelayInv, ReadyInv
    <2>. QED  BY <1>1, <1>3, <1>4, <2>2, <2>3 DEF TimerInv, TickInv
  <1>. QED  BY <1>5, <1>6

\* Every action of the timers keeps the invariant.
LEMMA TimerNextKeeps ==
  ASSUME TimerInv, Timer!Next
  PROVE  TimerInv'
  <1>1. ASSUME NEW t \in Timers, NEW p \in Periods, Timer!SoftTimerChangePeriod(t, p)
        PROVE  TimerInv'
    BY <1>1, StartWithKeeps DEF Timer!SoftTimerChangePeriod
  <1>2. ASSUME NEW t \in Timers, Timer!SoftTimerStart(t)
        PROVE  TimerInv'
    <2>1. Timer!StartWith(t, config[t].period) /\ t \in Timer!Created
      BY <1>2 DEF Timer!SoftTimerStart
    <2>2. PICK p \in Periods : p = config[t].period
      BY <2>1 DEF TimerInv, ConfigInv
    <2>3. Timer!StartWith(t, p)
      BY <2>1, <2>2 DEF Timer!StartWith
    <2>. QED  BY <2>3, StartWithKeeps
  <1>3. ASSUME Timer!MainLoop PROVE TimerInv'
    BY <1>3, StopRemoveKeeps, PollTakeKeeps, PollGoesOn DEF Timer!MainLoop
  <1>4. ASSUME Timer!Tick PROVE TimerInv'
    BY <1>4, TickCountKeeps, TickExpireKeeps DEF Timer!Tick
  <1>. QED  BY <1>1, <1>2, <1>3, <1>4, CreateKeeps, SetReloadModeKeeps, IsrStopKeeps, StopCheckKeeps
            DEF Timer!Next

\* So does a step that leaves the timers alone.
LEMMA TimerUnchanged ==
  ASSUME TimerInv, UNCHANGED timerVars
  PROVE  TimerInv'
  <1>1. (Timer!Q)' = Timer!Q /\ Timer!Created' = Timer!Created
        /\ Timer!Names(active)' = Timer!Names(active)
    BY DEF timerVars, Timer!Q, Timer!Created
  <1>2. ConfigInv'
    BY <1>1 DEF timerVars, TimerInv, ConfigInv
  <1>3. DelayInv'
    BY <1>1 DEF timerVars, TimerInv, DelayInv
  <1>4. ReadyInv'
    BY <1>1 DEF timerVars, TimerInv, ReadyInv
  <1>5. LoopInv'
    BY <1>1 DEF timerVars, TimerInv, LoopInv
  <1>. QED  BY <1>2, <1>3, <1>4, <1>5 DEF TimerInv

\* A step of the composition is one of the timers, or leaves them alone.
LEMMA StepOfTimer == [Next]_vars => Timer!Next \/ UNCHANGED timerVars
  BY DEF Next, Others, vars

\* The invariant is inductive, for the composition as well.
LEMMA TimerStep == TimerInv /\ [Next]_vars => TimerInv'
  BY StepOfTimer, TimerNextKeeps, TimerUnchanged

\* The invariant says what the run checks.
LEMMA InvariantIsSound ==
  ASSUME TimerInv
  PROVE  Timer!TypeOK /\ Timer!ListsSound
  <1>1. /\ Delta(active) /\ count \in Width
        /\ \A i \in 1 .. Len(active) : active[i].remaining \in Width
        /\ tick = "idle" => (active # <<>> => count > 0)
    BY QIs DEF TimerInv, DelayInv, Sound, Awake
  <1>2. /\ active \in Seq(Entries) /\ Len(active) \in Nat /\ DOMAIN active = 1 .. Len(active)
        /\ \A i \in 1 .. Len(active) : /\ active[i] \in Entries
                                       /\ active[i].tcb \in Timer!Names(active)
    BY <1>1, DeltaIs, PlaceIs
  <1>3. active \in Seq([tcb : Timer!Created, remaining : 0 .. CountWord - 1])
    <2>. DEFINE S == [tcb : Timer!Created, remaining : 0 .. CountWord - 1]
                h == [i \in 1 .. Len(active) |-> active[i]]
    <2>1. \A i \in 1 .. Len(active) : active[i] \in S
      <3>1. \A i \in 1 .. Len(active) : active[i].tcb \in Timer!Created
        BY <1>2 DEF TimerInv, DelayInv
      <3>. QED  BY <1>1, <1>2, <3>1 DEF Entries, Width
    <2>. HIDE DEF S
    <2>2. h \in Seq(S)
      BY <1>2, <2>1, IsASeq
    <2>3. active = h
      BY <1>2
    <2>. QED  BY <2>2, <2>3 DEF S
  <1>4. /\ ready \in Seq(Timers) /\ Len(ready) \in Nat /\ DOMAIN ready = 1 .. Len(ready)
        /\ \A i \in 1 .. Len(ready) : ready[i] \in Timer!Created /\ ready[i] \in Timer!ToSet(ready)
        /\ \A i, j \in 1 .. Len(ready) : ready[i] = ready[j] => i = j
        /\ \A t \in Timer!ToSet(ready) : \E i \in 1 .. Len(ready) : ready[i] = t
    <2>1. Line(ready) /\ Timer!ToSet(ready) \subseteq Timer!Created
      BY DEF TimerInv, ReadyInv
    <2>. QED  BY <2>1, LineIs DEF Line
  <1>5. ready \in Seq(Timer!Created)
    <2>. DEFINE h == [i \in 1 .. Len(ready) |-> ready[i]]
    <2>1. h \in Seq(Timer!Created)
      BY <1>4, IsASeq
    <2>2. ready = h
      BY <1>4
    <2>. QED  BY <2>1, <2>2
  <1>6. Timer!TypeOK
    BY <1>1, <1>3, <1>5 DEF TimerInv, ConfigInv, LoopInv, Timer!TypeOK, Timer!None, Width
  <1>7. Cardinality(Timer!Names(active)) = Len(active)
    <2>. DEFINE f == [i \in 1 .. Len(active) |-> active[i].tcb]
    <2>1. f \in [1 .. Len(active) -> Timer!Names(active)]
      BY <1>2
    <2>2. \A i, j \in 1 .. Len(active) : f[i] = f[j] => i = j
      BY <1>1 DEF Delta, Distinct
    <2>3. \A t \in Timer!Names(active) : \E i \in 1 .. Len(active) : f[i] = t
      BY <1>2 DEF Timer!Names
    <2>. HIDE DEF f
    <2>. QED  BY <1>2, <2>1, <2>2, <2>3, AsManyAsPlaces
  <1>8. Cardinality(Timer!ToSet(ready)) = Len(ready)
    <2>1. ready \in [1 .. Len(ready) -> Timer!ToSet(ready)]
      BY <1>4
    <2>. QED  BY <1>4, <2>1, AsManyAsPlaces
  <1>9. Timer!ListsSound
    BY <1>1, <1>7, <1>8, SameCardinality DEF TimerInv, ReadyInv, Timer!ListsSound
  <1>. QED  BY <1>6, <1>9

\* Of the soft timers, next to the other parts: a timer hangs on one list, once,
\* and _timer_count is the time of the first whenever the tick is not about to
\* expire it, also with handlers that interrupt the tick.
THEOREM TimersAreSound == Spec => []TimerSound
  <1>1. Init => TimerInv
    BY TimerInit DEF Init
  <1>2. TimerInv => TimerSound
    BY InvariantIsSound DEF TimerSound
  <1>. QED  BY <1>1, <1>2, TimerStep, PTL DEF Spec

-----------------------------------------------------------------------------
(* The delta list keeps the deadlines.                                     *)

\* Only the tick itself runs between its two halves.
LEMMA TickStep ==
  ASSUME ~ Preempt, TimerInv, TickInv, Timer!Next
  PROVE  TickInv'
  <1>1. ASSUME NEW t, Timer!Turn(t) PROVE tick = "idle"
    BY <1>1 DEF Timer!Turn, Timer!IsrTurn, Timer!MainTurn
  <1>2. ASSUME NEW t, NEW p, Timer!StartWith(t, p) PROVE tick = "idle" /\ tick' = tick
    BY <1>1, <1>2 DEF Timer!StartWith
  <1>3. ASSUME NEW t \in Timers, ~ Timer!MainLoop, ~ Timer!Tick,
               \/ \E p \in Periods : \/ \E r \in Modes : Timer!SoftTimerCreate(t, p, r)
                                     \/ Timer!SoftTimerChangePeriod(t, p)
               \/ \E r \in BOOLEAN : Timer!SoftTimerSetReloadMode(t, r)
               \/ Timer!SoftTimerStart(t)
               \/ Timer!IsrStop(t)
               \/ Timer!StopCheck(t, "stop") \/ Timer!StopCheck(t, "destroy")
        PROVE  tick = "idle" /\ tick' = tick
    <2>1. CASE \E p \in Periods, r \in Modes : Timer!SoftTimerCreate(t, p, r)
      BY <2>1 DEF Timer!SoftTimerCreate, Timer!MainTurn
    <2>2. CASE \E p \in Periods : Timer!SoftTimerChangePeriod(t, p)
      BY <1>2, <2>2 DEF Timer!SoftTimerChangePeriod
    <2>3. CASE \E r \in BOOLEAN : Timer!SoftTimerSetReloadMode(t, r)
      BY <1>1, <2>3 DEF Timer!SoftTimerSetReloadMode
    <2>4. CASE Timer!SoftTimerStart(t)
      BY <2>4, <1>1 DEF Timer!SoftTimerStart, Timer!StartWith
    <2>5. CASE Timer!IsrStop(t)
      BY <1>1, <2>5 DEF Timer!IsrStop
    <2>6. CASE Timer!StopCheck(t, "stop") \/ Timer!StopCheck(t, "destroy")
      BY <1>1, <2>6 DEF Timer!StopCheck
    <2>. QED  BY <1>3, <2>1, <2>2, <2>3, <2>4, <2>5, <2>6
  <1>4. ASSUME Timer!MainLoop PROVE tick = "idle" /\ tick' = tick
    BY <1>4 DEF Timer!MainLoop, Timer!StopRemove, Timer!PollTake, Timer!PollCall, Timer!PollReturn,
                Timer!MainTurn
  <1>5. ASSUME Timer!Tick PROVE TickInv'
    BY <1>5, TickCountKeeps, TickExpireKeeps DEF Timer!Tick
  <1>. QED  BY <1>3, <1>4, <1>5 DEF Timer!Next, TickInv

\* The ticks left of every running timer, as the specification counts them.
Lefts == [t \in Timer!Names(active) |-> Timer!Left(Timer!IndexOf(active, t))]

\* These are the ticks that the lemmas above speak of.
LEMMA LeftsAre == Lefts = Ticks(Timer!Q) /\ Lefts' = Ticks(Timer!Q)'
  BY DEF Lefts, Timer!Left, Ticks, Due, Timer!Q

\* What the actions of the specification say of the lists.
LEMMA TheirInit ==
  ASSUME config = <<>>, Lefts = <<>>, ready = <<>>
  PROVE  Timer!Deadlines!Init
  BY DEF Timer!Deadlines!Init, Lefts

\* Configure, from its conjuncts.
LEMMA TheirConfigure ==
  ASSUME NEW t, NEW p \in Periods, NEW m \in BOOLEAN,
         config' = [u \in DOMAIN config \union {t} |->
                      IF u = t THEN [period |-> p, repeat |-> m] ELSE config[u]],
         Lefts' = Lefts, ready' = ready
  PROVE  Timer!Deadlines!Configure(t)
  BY DEF Timer!Deadlines!Configure, Lefts

\* Both remove a timer from the list of due timers in the same way.
LEMMA TheirRemoval ==
  ASSUME NEW t
  PROVE  Timer!Deadlines!NotDue(t) = Timer!RemoveFromReady(t)
  BY DEF Timer!Deadlines!NotDue, Timer!RemoveFromReady, Timer!ToSet, Timer!Deadlines!ToSet,
         Timer!RemoveAt, Timer!Deadlines!RemoveAt

\* Start, from its conjuncts.
LEMMA TheirStart ==
  ASSUME NEW t \in DOMAIN config, NEW p \in Periods,
         config' = [config EXCEPT ![t].period = p],
         Lefts' = [u \in DOMAIN Lefts \union {t} |-> IF u = t THEN p ELSE Lefts[u]],
         ready' = Timer!RemoveFromReady(t)
  PROVE  Timer!Deadlines!Start(t)
  BY TheirRemoval DEF Timer!Deadlines!Start, Lefts

\* Stop, from its conjuncts.
LEMMA TheirStop ==
  ASSUME NEW t,
         \/ config' = config
         \/ config' = [u \in DOMAIN config \ {t} |-> config[u]],
         Lefts' = [u \in DOMAIN Lefts \ {t} |-> Lefts[u]],
         ready' = Timer!RemoveFromReady(t)
  PROVE  Timer!Deadlines!Stop(t)
  <1>1. config' \in {config, Timer!Deadlines!RestrictDomain(config, LAMBDA u : u # t)}
    BY DEF Timer!Deadlines!RestrictDomain, Timer!Deadlines!Restrict
  <1>2. Lefts' = Timer!Deadlines!Without(t)
    BY DEF Timer!Deadlines!Without, Timer!Deadlines!RestrictDomain, Timer!Deadlines!Restrict, Lefts
  <1>3. ready' = Timer!Deadlines!NotDue(t)
    BY TheirRemoval
  <1>. QED  BY <1>1, <1>2, <1>3 DEF Timer!Deadlines!Stop, Lefts

\* Tick, from its conjuncts.
LEMMA TheirTick ==
  ASSUME \A t \in DOMAIN Lefts : Lefts[t] > 0,
         Lefts' = [t \in DOMAIN Lefts |-> Lefts[t] - 1],
         config' = config, ready' = ready
  PROVE  Timer!Deadlines!Tick
  BY DEF Timer!Deadlines!Tick, Lefts

\* The timers with no ticks left.
Elapsed == {t \in DOMAIN Lefts : Lefts[t] = 0}

\* Expire, from its conjuncts.
LEMMA TheirExpire ==
  ASSUME Elapsed # {},
         Lefts' = [t \in DOMAIN Lefts \ Elapsed |-> Lefts[t]],
         NEW order \in Timer!Deadlines!SetToSeqs(Elapsed), ready' = ready \o order,
         config' = config
  PROVE  Timer!Deadlines!Expire
  <1>1. Lefts' = Timer!Deadlines!RestrictDomain(Lefts, LAMBDA t : t \notin Elapsed)
    BY DEF Timer!Deadlines!RestrictDomain, Timer!Deadlines!Restrict
  <1>2. \E o \in Timer!Deadlines!SetToSeqs(Elapsed) : ready' = ready \o o
    OBVIOUS
  <1>3. Timer!Deadlines!Expire <=>
          /\ Elapsed # {}
          /\ Lefts' = Timer!Deadlines!RestrictDomain(Lefts, LAMBDA t : t \notin Elapsed)
          /\ \E o \in Timer!Deadlines!SetToSeqs(Elapsed) : ready' = ready \o o
          /\ UNCHANGED config
    BY DEF Timer!Deadlines!Expire, Lefts, Elapsed
  <1>. QED  BY <1>1, <1>2, <1>3

\* Take, from its conjuncts.
LEMMA TheirTake ==
  ASSUME ready # <<>>, ready' = Tail(ready), config' = config,
         Lefts' = IF config[Head(ready)].repeat
                  THEN [u \in DOMAIN Lefts \union {Head(ready)} |->
                          IF u = Head(ready) THEN config[u].period ELSE Lefts[u]]
                  ELSE Lefts
  PROVE  Timer!Deadlines!Take
  BY DEF Timer!Deadlines!Take, Lefts

\* The running timers are the ones on the active list.
LEMMA LeftsRange ==
  /\ DOMAIN Lefts = Timer!Names(active) /\ DOMAIN (Lefts') = Timer!Names(active)'
  /\ Lefts = [t \in Timer!Names(active) |-> Lefts[t]]
  BY DEF Lefts

\* soft_timer_create configures.
LEMMA CreateIsAStep ==
  ASSUME NEW t \in Timers, NEW p \in Periods, NEW r \in Modes, Timer!SoftTimerCreate(t, p, r)
  PROVE  Timer!Deadlines!Configure(t)
  <1>1. /\ config' = [u \in DOMAIN config \union {t} |->
                        IF u = t THEN [period |-> p, repeat |-> r] ELSE config[u]]
        /\ UNCHANGED <<active, ready, count>>
    BY DEF Timer!SoftTimerCreate, Timer!Created
  <1>2. Lefts' = Lefts
    BY <1>1 DEF Lefts, Timer!Left
  <1>3. r \in BOOLEAN
    BY PartsAssumption DEF Timer!TimerAssumption
  <1>. QED  BY <1>1, <1>2, <1>3, TheirConfigure

\* soft_timer_set_reload_mode configures.
LEMMA SetReloadModeIsAStep ==
  ASSUME TimerInv, NEW t \in Timers, NEW r \in BOOLEAN, Timer!SoftTimerSetReloadMode(t, r)
  PROVE  Timer!Deadlines!Configure(t)
  <1>1. /\ t \in DOMAIN config /\ config' = [config EXCEPT ![t].repeat = r]
        /\ UNCHANGED <<active, ready, count>>
    BY DEF Timer!SoftTimerSetReloadMode, Timer!Created
  <1>2. Lefts' = Lefts
    BY <1>1 DEF Lefts, Timer!Left
  <1>3. config[t] \in [period : Periods, repeat : BOOLEAN]
    BY <1>1 DEF TimerInv, ConfigInv, Timer!Created
  <1>4. PICK p \in Periods : p = config[t].period
    BY <1>3
  <1>. DEFINE e == [config[t] EXCEPT !.repeat = r]
  <1>5. e = [period |-> p, repeat |-> r]
    BY <1>3, <1>4
  <1>6. config' = [config EXCEPT ![t] = e]
    BY <1>1
  <1>. HIDE DEF e
  <1>7. config' = [u \in DOMAIN config \union {t} |-> IF u = t THEN e ELSE config[u]]
    BY <1>1, <1>6
  <1>. QED  BY <1>1, <1>2, <1>5, <1>7, TheirConfigure

\* soft_timer_start and soft_timer_change_period start.
LEMMA StartWithIsAStep ==
  ASSUME TimerInv, NEW t \in Timers, NEW p \in Periods, Timer!StartWith(t, p)
  PROVE  Timer!Deadlines!Start(t)
  <1>1. t \in DOMAIN config /\ t \in Timer!Created /\ config' = [config EXCEPT ![t].period = p]
    BY DEF Timer!StartWith, Timer!Created
  <1>2. /\ Ticks(Timer!Q)' = [u \in Timer!Names(active) \union {t} |->
                                 IF u = t THEN p ELSE Ticks(Timer!Q)[u]]
        /\ ready' = Timer!RemoveFromReady(t)
    BY <1>1, StartWithIs DEF TimerInv
  <1>3. Lefts' = [u \in DOMAIN Lefts \union {t} |-> IF u = t THEN p ELSE Lefts[u]]
    BY <1>2, LeftsAre, LeftsRange
  <1>. QED  BY <1>1, <1>2, <1>3, TheirStart

\* The locked part of stop and destroy stops.
LEMMA UnlistIsAStep ==
  ASSUME TimerInv, NEW t \in Timers, Timer!Unlist(t),
         \/ config' = config
         \/ config' = [u \in DOMAIN config \ {t} |-> config[u]]
  PROVE  Timer!Deadlines!Stop(t)
  <1>1. /\ Ticks(Timer!Q)' = [u \in Timer!Names(active) \ {t} |-> Ticks(Timer!Q)[u]]
        /\ ready' = Timer!RemoveFromReady(t)
    BY UnlistIs DEF TimerInv
  <1>2. Lefts' = [u \in DOMAIN Lefts \ {t} |-> Lefts[u]]
    BY <1>1, LeftsAre, LeftsRange
  <1>. QED  BY <1>1, <1>2, TheirStop

\* A timer that is on no list: it may be forgotten.
LEMMA StopCheckIsAStep ==
  ASSUME TimerInv, NEW t \in Timers, NEW op \in {"stop", "destroy"}, Timer!StopCheck(t, op)
  PROVE  Timer!Deadlines!Stop(t) \/ UNCHANGED <<config, Lefts, ready>>
  <1>1. /\ UNCHANGED <<active, ready, count>>
        /\ \/ config' = config
           \/ /\ t \notin Timer!Names(active) \union Timer!ToSet(ready)
              /\ config' = [u \in DOMAIN config \ {t} |-> config[u]]
    BY DEF Timer!StopCheck, Timer!Listed, Timer!RestrictDomain, Timer!Restrict
  <1>2. Lefts' = Lefts
    BY <1>1 DEF Lefts, Timer!Left
  <1>3. ASSUME t \notin Timer!Names(active) \union Timer!ToSet(ready)
        PROVE  /\ Lefts' = [u \in DOMAIN Lefts \ {t} |-> Lefts[u]]
               /\ ready' = Timer!RemoveFromReady(t)
    <2>1. DOMAIN Lefts \ {t} = Timer!Names(active)
      BY <1>3, LeftsRange
    <2>. QED  BY <1>1, <1>2, <1>3, <2>1, LeftsRange DEF Timer!RemoveFromReady
  <1>. QED  BY <1>1, <1>2, <1>3, TheirStop

\* soft_timer_poll takes.
LEMMA PollTakeIsAStep ==
  ASSUME TimerInv, Timer!PollTake
  PROVE  Timer!Deadlines!Take
  <1>1. config' = config
    BY DEF Timer!PollTake
  <1>2. /\ ready # <<>> /\ ready' = Tail(ready)
        /\ Ticks(Timer!Q)' = IF config[Head(ready)].repeat
                             THEN [u \in Timer!Names(active) \union {Head(ready)} |->
                                     IF u = Head(ready) THEN config[u].period ELSE Ticks(Timer!Q)[u]]
                             ELSE Ticks(Timer!Q)
    BY PollTakeIs DEF TimerInv
  <1>3. Lefts' = IF config[Head(ready)].repeat
                 THEN [u \in DOMAIN Lefts \union {Head(ready)} |->
                         IF u = Head(ready) THEN config[u].period ELSE Lefts[u]]
                 ELSE Lefts
    BY <1>2, LeftsAre, LeftsRange
  <1>. QED  BY <1>1, <1>2, <1>3, TheirTake

\* The first half of soft_timer_tick is the specification's tick.
LEMMA TickCountIsAStep ==
  ASSUME TimerInv, Timer!TickCount
  PROVE  Timer!Deadlines!Tick
  <1>1. config' = config /\ ready' = ready
    BY DEF Timer!TickCount
  <1>2. /\ tick = "idle"
        /\ Ticks(Timer!Q)' = [t \in Timer!Names(active) |-> Ticks(Timer!Q)[t] - 1]
    BY TickCountIs DEF TimerInv
  <1>3. \A t \in DOMAIN Lefts : Lefts[t] > 0
    <2>1. Sound(Timer!Q) /\ Awake(Timer!Q)
      BY <1>2 DEF TimerInv, DelayInv
    <2>2. \A t \in Timer!Names(active) : Ticks(Timer!Q)[t] > 0
      BY <2>1, TicksAre, QIs
    <2>. QED  BY <2>2, LeftsAre, LeftsRange
  <1>4. Lefts' = [t \in DOMAIN Lefts |-> Lefts[t] - 1]
    BY <1>2, LeftsAre, LeftsRange
  <1>. QED  BY <1>1, <1>3, <1>4, TheirTick

\* Its second half is the specification's expiry.
LEMMA TickExpireIsAStep ==
  ASSUME TimerInv, TickInv, Timer!TickExpire
  PROVE  Timer!Deadlines!Expire
  <1>1. config' = config /\ active # <<>> /\ count = 0
    BY DEF Timer!TickExpire, TickInv
  <1>2. /\ Ticks(Timer!Q)' = [u \in Timer!Names(active) \ Gone |-> Ticks(Timer!Q)[u]]
        /\ Gone \subseteq Timer!Names(active)
        /\ \A t \in Gone : Ticks(Timer!Q)[t] = count
        /\ \A t \in Timer!Names(active) \ Gone : Ticks(Timer!Q)[t] > 0
        /\ ready' = ready \o Leaving
        /\ Line(Leaving) /\ Timer!ToSet(Leaving) = Gone
    BY <1>1, TickExpireIs DEF TimerInv
  <1>3. Elapsed = Gone
    BY <1>1, <1>2, LeftsAre, LeftsRange DEF Elapsed
  <1>4. Lefts' = [t \in DOMAIN Lefts \ Elapsed |-> Lefts[t]]
    BY <1>2, <1>3, LeftsAre, LeftsRange
  <1>5. Elapsed # {}
    <2>1. Delta(active)
      BY QIs DEF TimerInv, DelayInv, Sound
    <2>2. 1 \in 1 .. Timer!Expired
      BY <1>1, <2>1, ExpiredIs, DeltaIs
    <2>. QED  BY <1>3, <2>2 DEF Gone
  <1>6. Leaving \in Timer!Deadlines!SetToSeqs(Elapsed)
    <2>1. /\ Len(Leaving) \in Nat /\ Leaving \in Seq(Timers) /\ DOMAIN Leaving = 1 .. Len(Leaving)
          /\ \A i \in 1 .. Len(Leaving) : Leaving[i] \in Gone
          /\ \A t \in Gone : \E i \in 1 .. Len(Leaving) : Leaving[i] = t
          /\ \A i, j \in 1 .. Len(Leaving) : Leaving[i] = Leaving[j] => i = j
      BY <1>2, LineIs DEF Line
    <2>. DEFINE l == Leaving
    <2>. HIDE DEF l
    <2>2. l = Leaving
      BY DEF l
    <2>3. l \in [1 .. Len(l) -> Gone]
      BY <2>1, <2>2
    <2>4. Cardinality(Gone) = Len(l)
      BY <2>1, <2>2, <2>3, AsManyAsPlaces
    <2>. QED  BY <1>3, <2>1, <2>2, <2>3, <2>4, SameCardinality DEF Timer!Deadlines!SetToSeqs
  <1>. QED  BY <1>1, <1>2, <1>4, <1>5, <1>6, TheirExpire

\* Every step of the timers is one of the specification, or none.
LEMMA TimersStep ==
  ASSUME TimerInv, TickInv, Timer!Next
  PROVE  Timer!Deadlines!Next \/ UNCHANGED <<config, Lefts, ready>>
  <1>1. ASSUME NEW t \in Timers, NEW p \in Periods, Timer!SoftTimerChangePeriod(t, p)
        PROVE  Timer!Deadlines!Start(t)
    BY <1>1, StartWithIsAStep DEF Timer!SoftTimerChangePeriod
  <1>2. ASSUME NEW t \in Timers, Timer!SoftTimerStart(t)
        PROVE  Timer!Deadlines!Start(t)
    <2>1. Timer!StartWith(t, config[t].period) /\ t \in Timer!Created
      BY <1>2 DEF Timer!SoftTimerStart
    <2>2. PICK p \in Periods : p = config[t].period
      BY <2>1 DEF TimerInv, ConfigInv
    <2>3. Timer!StartWith(t, p)
      BY <2>1, <2>2 DEF Timer!StartWith
    <2>. QED  BY <2>3, StartWithIsAStep
  <1>3. ASSUME NEW t \in Timers, Timer!IsrStop(t)
        PROVE  Timer!Deadlines!Stop(t)
    BY <1>3, UnlistIsAStep DEF Timer!IsrStop
  <1>4. ASSUME Timer!StopRemove
        PROVE  \E t \in Timers : Timer!Deadlines!Stop(t)
    <2>1. PICK t \in Timers : t = loop.on
      BY <1>4, StopRemoveKeeps
    <2>2. /\ Timer!Unlist(t)
          /\ \/ config' = config
             \/ config' = [u \in DOMAIN config \ {t} |-> config[u]]
      BY <1>4, <2>1 DEF Timer!StopRemove, Timer!RestrictDomain, Timer!Restrict
    <2>. QED  BY <2>2, UnlistIsAStep
  <1>5. ASSUME Timer!PollCall \/ Timer!PollReturn
        PROVE  UNCHANGED <<config, Lefts, ready>>
    BY <1>5 DEF Timer!PollCall, Timer!PollReturn, Lefts, Timer!Left
  <1>6. ASSUME Timer!MainLoop
        PROVE  Timer!Deadlines!Next \/ UNCHANGED <<config, Lefts, ready>>
    BY <1>4, <1>5, <1>6, PollTakeIsAStep DEF Timer!MainLoop, Timer!Deadlines!Next
  <1>7. ASSUME Timer!Tick
        PROVE  Timer!Deadlines!Next
    BY <1>7, TickCountIsAStep, TickExpireIsAStep DEF Timer!Tick, Timer!Deadlines!Next
  <1>8. ASSUME NEW t \in Timers, Timer!StopCheck(t, "stop") \/ Timer!StopCheck(t, "destroy")
        PROVE  Timer!Deadlines!Stop(t) \/ UNCHANGED <<config, Lefts, ready>>
    BY <1>8, StopCheckIsAStep
  <1>. QED  BY <1>1, <1>2, <1>3, <1>6, <1>7, <1>8, CreateIsAStep, SetReloadModeIsAStep
            DEF Timer!Next, Timer!Deadlines!Next

\* The detailed timers implement the abstract ones, when no handler runs between
\* the two halves of the tick: whatever is inserted, taken out and expired, in
\* whatever order, every running timer keeps its ticks, and timers become due
\* when theirs are over, in the order in which they are taken later.
THEOREM TimersKeepTheirDeadlines == ~ Preempt => (Spec => ImplementsDeadlines)
  <1>. SUFFICES ASSUME ~ Preempt PROVE Spec => ImplementsDeadlines
    OBVIOUS
  <1>1. Init => TimerInv /\ TickInv
    BY TimerInit DEF Init, TickInv, Timer!Init
  <1>2. TimerInv /\ TickInv /\ [Next]_vars => (TimerInv /\ TickInv)'
    <2>1. UNCHANGED timerVars /\ TickInv => TickInv'
      BY DEF timerVars, TickInv
    <2>. QED  BY <2>1, TimerStep, StepOfTimer, TickStep
  <1>3. Init => Timer!Deadlines!Init
    <2>. SUFFICES ASSUME Init PROVE Timer!Deadlines!Init
      OBVIOUS
    <2>1. config = <<>> /\ ready = <<>> /\ active = <<>>
      BY DEF Init, Timer!Init
    <2>2. DOMAIN active = {} /\ Timer!Names(active) = {}
      BY <2>1 DEF Timer!Names
    <2>3. Lefts = <<>>
      BY <2>2 DEF Lefts
    <2>. QED  BY <2>1, <2>3, TheirInit
  <1>4. TimerInv /\ TickInv /\ [Next]_vars => [Timer!Deadlines!Next]_(Timer!Deadlines!vars)
    <2>1. UNCHANGED timerVars => UNCHANGED <<config, Lefts, ready>>
      BY DEF timerVars, Lefts, Timer!Left
    <2>2. UNCHANGED <<config, Lefts, ready>> => UNCHANGED (Timer!Deadlines!vars)
      BY DEF Timer!Deadlines!vars, Lefts
    <2>. QED  BY <2>1, <2>2, StepOfTimer, TimersStep
  <1>. QED  BY <1>1, <1>2, <1>3, <1>4, PTL
            DEF Spec, ImplementsDeadlines, Timer!ImplementsDeadlines, Timer!Deadlines!Spec
=============================================================================
