------------------------------ MODULE Parameters ------------------------------
(***************************************************************************)
(* common/parameters/parameters.c: a parameter block kept in flash that is *)
(* to survive a loss of power at any moment.  The flash is a ring of slots,*)
(* several to an erase block; parameters_save writes a block with the next *)
(* sequence number into the next slot, parameters_init picks the slot with *)
(* the highest number whose checksum holds.                                *)
(*                                                                         *)
(* The flash is external.  It may lose power in the middle of an erase or  *)
(* of a write, a write may go wrong, and a worn block may keep what it     *)
(* holds.  A half written or half erased slot is taken to fail the         *)
(* checksum: the sum of 8 bits can miss one in 256, and this is not        *)
(* modelled.                                                               *)
(***************************************************************************)
EXTENDS Integers, FiniteSets

CONSTANTS
  NSlots,      \* (end_address - start_address) / para_size
  PerBlock,    \* erase_block_size / para_size
  Word,        \* 2^32: where a sequence number wraps
  Values,      \* contents of a parameter block
  Zeros,       \* the one whose bytes are all zero
  MaxSaves,    \* bound: calls of parameters_save
  MaxFaults    \* bound: losses of power, wrong writes and failed erases

\* "at least two erase blocks", "an integral divisor of the size of an erase
\* block" (parameters.h); and fewer saves than there are sequence numbers:
\* parameters_init compares them without regard to the wrap.
ParametersAssumption ==
  /\ PerBlock \in Nat \ {0} /\ NSlots \in Nat
  /\ NSlots % PerBlock = 0 /\ NSlots >= 2 * PerBlock
  /\ MaxFaults \in Nat /\ MaxSaves \in Nat /\ Word \in Nat /\ MaxSaves <= Word

Slots == 0 .. NSlots - 1
None == [kind |-> "none"]
Blank == [kind |-> "blank"]
Dirty == [kind |-> "dirty"]
Block(seq, value) == [kind |-> "block", seq |-> seq, value |-> value]
Blocks == {Block(seq, value) : seq \in 0 .. Word - 1, value \in Values}

VARIABLES
  erased,    \* FLASH_TYPE_ZERO or FLASH_TYPE_ONE: what an erased byte reads
  flash,     \* what each slot holds
  para,      \* para_address, para_valid: a slot, or -1
  pc,        \* where in parameters_save; "down" without power
  offset,    \* offset of parameters_save
  new,       \* the block to be saved, None outside parameters_save
  saved,     \* history: the last block that was saved or found by init
  worn,      \* the erase blocks, by their first slot, that erase no more
  saves, faults

vars == <<erased, flash, para, pc, offset, new, saved, worn, saves, faults>>

\* How a block reads once it is in flash: of all zeros it is, where an erased
\* byte reads zero, a blank slot.
Stored(block) ==
  IF erased = "zero" /\ block # None /\ block = Block(0, Zeros) THEN Blank ELSE block

\* _parameter_is_vailed: the checksum holds and the slot is not blank.
Valid(s) == flash[s].kind = "block"

\* Mutant: no turn at end_address.
NextSlotBug(s) == s + 1

NextSlot(s) == (s + 1) % NSlots
BlockStart(s) == s % PerBlock = 0
EraseBlock(s) == {t \in Slots : t \div PerBlock = s \div PerBlock}

\* Mutant: the last valid slot, whatever its number.
LatestBug == LET V == {s \in Slots : Valid(s)} IN
  IF V = {} THEN -1 ELSE CHOOSE s \in V : \A t \in V : t <= s

\* The scan of parameters_init: of the valid slots the one with the highest
\* number, of equal ones the last.
Latest == LET V == {s \in Slots : Valid(s)} IN
  IF V = {} THEN -1
  ELSE CHOOSE s \in V : \A t \in V : \/ flash[t].seq < flash[s].seq
                                     \/ flash[t].seq = flash[s].seq /\ t <= s

Init ==
  /\ erased \in {"zero", "one"}
  /\ flash = [s \in Slots |-> Blank]
  /\ para = -1 /\ pc = "idle" /\ offset = 0
  /\ new = None /\ saved = None /\ worn = {}
  /\ saves = 0 /\ faults = 0

-----------------------------------------------------------------------------
(* parameters_save *)

Returns == pc' = "idle" /\ new' = None

\* Mutant: the search starts at the block that is current.
FirstSlotBug == IF para = -1 THEN 0 ELSE para

FirstSlot == IF para = -1 THEN 0 ELSE NextSlot(para)

\* The number of the current block, read from flash, and one.
NextSeq(seq) == (seq + 1) % Word

\* What the first four bytes of the current slot read, also when it is no
\* longer a block.
SeqsAt(s) ==
  CASE Valid(s) -> {flash[s].seq}
    [] flash[s] = Blank -> {IF erased = "zero" THEN 0 ELSE Word - 1}
    [] OTHER -> 0 .. Word - 1

SaveBegin(value) ==
  /\ pc = "idle" /\ saves < MaxSaves
  /\ saves' = saves + 1
  /\ new' \in {Block(seq, value) :
       seq \in IF para = -1 THEN {0} ELSE {NextSeq(q) : q \in SeqsAt(para)}}
  /\ offset' = FirstSlot
  /\ pc' = "search"
  /\ UNCHANGED <<erased, flash, para, saved, worn, faults>>

\* What erase answers is not looked at; a block may wear out, and keep what
\* it holds.
Erase ==
  IF ~BlockStart(offset) \/ offset \in worn THEN UNCHANGED <<flash, worn, faults>>
  ELSE \/ /\ flash' = [s \in Slots |-> IF s \in EraseBlock(offset) THEN Blank ELSE flash[s]]
          /\ UNCHANGED <<worn, faults>>
       \/ /\ faults < MaxFaults /\ faults' = faults + 1
          /\ worn' = worn \cup {offset} /\ UNCHANGED flash

\* Mutant: with no current block, the search is never given up.
RoundBug(s) == s = para

\* Once round without a blank slot.
Round(s) == s = (IF para = -1 THEN 0 ELSE para)

\* One turn of the loop: erase at the start of an erase block, then look.
Search ==
  /\ pc = "search"
  /\ Erase
  /\ \/ /\ flash'[offset] = Blank
        /\ pc' = "write" /\ UNCHANGED <<offset, new>>
     \/ /\ flash'[offset] # Blank
        /\ offset' = NextSlot(offset)
        /\ IF Round(offset') THEN Returns ELSE UNCHANGED <<pc, new>>
  /\ UNCHANGED <<erased, para, saved, saves>>

\* The slot gets the block, or a part of it, or nothing.
Write ==
  /\ pc = "write"
  /\ \/ flash' = [flash EXCEPT ![offset] = Stored(new)] /\ UNCHANGED faults
     \/ /\ faults < MaxFaults /\ faults' = faults + 1
        /\ flash' \in {[flash EXCEPT ![offset] = Dirty], flash}
  /\ pc' = "verify"
  /\ UNCHANGED <<erased, para, offset, new, saved, worn, saves>>

\* Mutant: nothing is read back.
VerifiedBug == TRUE

Verified == flash[offset] = Stored(new)

Verify ==
  /\ pc = "verify"
  /\ IF Verified THEN para' = offset /\ saved' = new ELSE UNCHANGED <<para, saved>>
  /\ Returns
  /\ UNCHANGED <<erased, flash, offset, worn, saves, faults>>

-----------------------------------------------------------------------------
(* Loss of power, and parameters_init when it is back *)

\* An erase cut short leaves every slot of the block as it was, spoiled or
\* blank; a write leaves the slot blank, spoiled or written.
CutShort ==
  CASE pc = "search" /\ BlockStart(offset) /\ offset \notin worn ->
         flash' \in {f \in [Slots -> {flash[s] : s \in Slots} \cup {Blank, Dirty}] :
           \A s \in Slots : f[s] \in {flash[s]} \cup
             (IF s \in EraseBlock(offset) THEN {Blank, Dirty} ELSE {})}
    [] pc = "write" ->
         flash' \in {[flash EXCEPT ![offset] = c] : c \in {Blank, Dirty, Stored(new)}}
    [] OTHER -> UNCHANGED flash

PowerLoss ==
  /\ pc # "down" /\ faults < MaxFaults
  /\ faults' = faults + 1
  /\ CutShort
  /\ pc' = "down" /\ para' = -1 /\ offset' = 0
  /\ UNCHANGED <<erased, new, saved, worn, saves>>

\* The block that was being saved may have got through.
PowerUp ==
  /\ pc = "down"
  /\ para' = Latest
  /\ saved' = IF Latest = -1 THEN None ELSE flash[Latest]
  /\ Returns
  /\ UNCHANGED <<erased, flash, offset, worn, saves, faults>>

Next ==
  \/ \E value \in Values : SaveBegin(value)
  \/ Search \/ Write \/ Verify
  \/ PowerLoss \/ PowerUp

Spec == Init /\ [][Next]_vars

\* parameters_save runs on once it is called, and power comes back.
FairSpec == Spec /\ WF_vars(Search \/ Write \/ Verify \/ PowerUp)

-----------------------------------------------------------------------------
(* Properties *)

\* The variables hold what the code can put in them, and the current slot is
\* known only while there is power.
TypeOK ==
  /\ erased \in {"zero", "one"}
  /\ flash \in [Slots -> Blocks \cup {Blank, Dirty}]
  /\ para \in Slots \cup {-1} /\ offset \in Slots
  /\ pc \in {"idle", "search", "write", "verify", "down"}
  /\ new \in Blocks \cup {None} /\ saved \in Blocks \cup {None}
  /\ worn \subseteq {s \in Slots : BlockStart(s)} /\ saves \in 0 .. MaxSaves /\ faults \in 0 .. MaxFaults
  /\ pc = "down" => para = -1
  /\ pc \in {"search", "write", "verify"} => new # None

\* What a start at this moment would find.
Found == IF Latest = -1 THEN None ELSE flash[Latest]
Readable(block) == IF Stored(block) = Blank THEN None ELSE block

\* "By this process, there is always a valid parameter block in flash": at any
\* moment, a start of the program would find the block that was saved last, or
\* the one that parameters_save is writing; a save that failed, or was cut
\* short, leaves the old block and nothing else to be found.  A block saved as
\* all zeros on a flash that erases to zero is never found, and for this the
\* property allows.  A worn block is excepted: the search goes on past it, and
\* may erase the block in use.
Durable == worn = {} => Found \in {Readable(saved), Readable(new)}

\* parameters_get, with power: it answers with the block saved last, also while
\* the next one is searched a place, written and read back.
Get == IF para # -1 /\ Valid(para) THEN flash[para] ELSE None
GetsSaved == pc # "down" /\ worn = {} => Get = Readable(saved)

\* parameters_save returns, however bad the flash: the search goes round once.
SaveReturns == (pc # "idle") ~> (pc = "idle")

=============================================================================
