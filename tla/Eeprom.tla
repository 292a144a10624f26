------------------------------- MODULE Eeprom -------------------------------
(***************************************************************************)
(* drv/at24cxx.c: an eeprom behind an i2c bus that others use as well.  A  *)
(* write goes page by page, each page is read back and compared, and the   *)
(* chip is write protected again at the end.  The bus is locked message by *)
(* message, so every message is one step, and with two users the messages  *)
(* of two calls may mix.                                                   *)
(*                                                                         *)
(* The bus (I2cBus) and the chip are what the driver sees of them: a       *)
(* message that fails has written a part of its bytes, and a worn cell     *)
(* keeps its old value.                                                    *)
(***************************************************************************)
EXTENDS Naturals, SequencesExt

CONSTANTS
  EeStart, EeEnd,  \* info.start and info.end
  BlockSize,       \* info.block_size, the page of the chip
  AddrSpan,        \* what mem_addr_counts bytes can address
  Worn,            \* environment: cells that may keep their value
  EeUsers,         \* the callers,
  EeOffsets, EeLengths,  \* and what they ask for
  EePreempt,       \* environment: a second call may begin while one runs
  EraseBeyond      \* environment: an erase may be asked for at or beyond the end

EepromAssumption ==
  /\ BlockSize \in Nat \ {0} /\ EeStart \in Nat /\ EeEnd \in Nat /\ EeStart < EeEnd
  /\ EeStart % BlockSize = 0 /\ EeEnd % BlockSize = 0
  /\ EePreempt \in BOOLEAN /\ EraseBeyond \in BOOLEAN
  /\ AddrSpan \in Nat \ {0} /\ EeOffsets \subseteq Nat /\ EeLengths \subseteq Nat

VARIABLES
  ee,      \* cells, protect: the chip; blk: pdesc->blk_buf
  eeCall   \* the call of each user, and the cells when it began

eeVars == <<ee, eeCall>>

FF == 1
Values == {0, FF}
Cells == 0 .. AddrSpan - 1

-----------------------------------------------------------------------------
(* A message: n bytes from an address, as far as the address reaches, and  *)
(* round and round in one page of the chip.                                *)
Wire(addr) == addr % AddrSpan
InPage(addr, i) == Wire((addr \div BlockSize) * BlockSize + ((addr + i - 1) % BlockSize))
Taken(c, addr, bytes, n, worn) ==
  [a \in Cells |->
     LET at == {i \in 1 .. n : InPage(addr, i) = a}
     IN  IF at = {} \/ a \in worn THEN c[a] ELSE bytes[CHOOSE i \in at : \A j \in at : j <= i]]
There(c, addr, len) == [i \in 1 .. len |-> c[Wire(addr + i - 1)]]

\* The next page of a call: up to the end of the block or of the call.
BlockOf(addr) == addr \div BlockSize
PageLen(addr, left) ==
  IF BlockOf(addr + left) # BlockOf(addr) THEN (BlockOf(addr) + 1) * BlockSize - addr ELSE left

-----------------------------------------------------------------------------
Free == [op |-> "none", pc |-> "idle", addr |-> 0, off |-> 0, len |-> 0, actual |-> 0,
         data |-> <<>>, err |-> FALSE, evt |-> FALSE, cells0 |-> <<>>]

EeInit == /\ ee = [cells |-> [a \in Cells |-> FF], protect |-> TRUE, blk |-> <<>>]
          /\ eeCall = [u \in EeUsers |-> Free]

Calling == {u \in EeUsers : eeCall[u] # Free}
To(u, c) == eeCall' = [eeCall EXCEPT ![u] = c]
Begin(u, c) == /\ eeCall[u] = Free /\ (Calling = {} \/ EePreempt)
               /\ To(u, [c EXCEPT !.cells0 = ee.cells])

\* What of the request lies before the end.
Clamped(off, len) ==
  IF EeStart + off >= EeEnd THEN 0
  ELSE IF EeStart + off + len > EeEnd THEN EeEnd - (EeStart + off) ELSE len

Write(u, off, data) ==
  /\ Begin(u, [Free EXCEPT !.op = "write", !.pc = "page", !.addr = EeStart + off, !.off = off,
                           !.len = Clamped(off, Len(data)), !.data = data])
  /\ ee' = [ee EXCEPT !.protect = FALSE]

Read(u, off, len) ==
  /\ Begin(u, [Free EXCEPT !.op = "read", !.addr = EeStart + off, !.off = off,
                           !.len = Clamped(off, len),
                           !.pc = IF Clamped(off, len) = 0 THEN "end" ELSE "read"])
  /\ UNCHANGED ee

\* The offset is not looked at.
EraseBlock(u, off) ==
  /\ EeStart + off < EeEnd \/ EraseBeyond
  /\ Begin(u, [Free EXCEPT !.op = "erase", !.pc = "page", !.off = off, !.len = BlockSize,
                           !.addr = BlockOf(off + EeStart) * BlockSize])
  /\ ee' = [ee EXCEPT !.blk = [i \in 1 .. BlockSize |-> FF], !.protect = FALSE]

\* IOCTL_FLASH_ERASE_CHIP has a buffer of its own.
EraseChip(u) ==
  /\ Begin(u, [Free EXCEPT !.op = "erase chip", !.pc = "page", !.addr = EeStart,
                           !.len = EeEnd - EeStart, !.data = [i \in 1 .. EeEnd - EeStart |-> FF]])
  /\ ee' = [ee EXCEPT !.protect = FALSE]

\* The bytes of the page at hand.
Page(c) == IF c.op = "erase" THEN ee.blk
           ELSE SubSeq(c.data, c.actual + 1, c.actual + PageLen(c.addr, c.len - c.actual))

\* One message on the locked bus; n bytes of it are taken.
WritePage(u) ==
  LET c == eeCall[u] IN
  /\ c.pc = "page" /\ c.actual < c.len
  /\ \E n \in 0 .. Len(Page(c)), worn \in SUBSET Worn :
       /\ ee' = [ee EXCEPT !.cells = IF ee.protect THEN @ ELSE Taken(@, c.addr, Page(c), n, worn)]
       /\ \/ n = Len(Page(c)) /\ To(u, [c EXCEPT !.pc = "read back"])
          \/ To(u, [c EXCEPT !.pc = "end", !.err = TRUE, !.evt = TRUE])

\* After the write cycle time, a second message, into blk_buf.
ReadBack(u, ok) ==
  LET c == eeCall[u] IN
  /\ c.pc = "read back"
  /\ ee' = IF ok THEN [ee EXCEPT !.blk = There(ee.cells, c.addr, Len(Page(c)))] ELSE ee
  /\ To(u, IF ok THEN [c EXCEPT !.pc = "compare"] ELSE [c EXCEPT !.pc = "end", !.err = TRUE, !.evt = TRUE])

\* Mutant: what was read back is not compared.
Unchecked(u) ==
  LET c == eeCall[u] IN
  /\ c.pc = "compare"
  /\ To(u, [c EXCEPT !.pc = "page", !.actual = @ + Len(Page(c)), !.addr = @ + Len(Page(c))])
  /\ UNCHANGED ee
Compare(u) ==
  LET c == eeCall[u]
      n == Len(Page(c))
      same == IF c.op = "erase" THEN \A i \in 1 .. n : ee.blk[i] = FF ELSE ee.blk = Page(c)
  IN  /\ c.pc = "compare"
      /\ To(u, IF same THEN [c EXCEPT !.pc = "page", !.actual = @ + n, !.addr = @ + n]
                ELSE [c EXCEPT !.pc = "end", !.err = TRUE, !.evt = TRUE])
      /\ UNCHANGED ee

ReadMessage(u, ok) ==
  LET c == eeCall[u] IN
  /\ c.pc = "read"
  /\ To(u, IF ok THEN [c EXCEPT !.pc = "end", !.actual = c.len, !.data = There(ee.cells, c.addr, c.len)]
            ELSE [c EXCEPT !.pc = "end", !.evt = TRUE])
  /\ UNCHANGED ee

\* The chip is protected again, the event is given, and the call returns.
Return(u) ==
  LET c == eeCall[u] IN
  /\ c.pc = "end" \/ (c.pc = "page" /\ c.actual >= c.len)
  /\ ee' = IF c.op = "read" THEN ee ELSE [ee EXCEPT !.protect = TRUE]
  /\ To(u, Free)

EeNext ==
  \E u \in EeUsers :
    \/ \E off \in EeOffsets, len \in EeLengths :
         \/ Read(u, off, len)
         \/ \E data \in [1 .. len -> Values] : Write(u, off, data)
    \/ \E off \in EeOffsets : EraseBlock(u, off)
    \/ EraseChip(u)
    \/ \E ok \in BOOLEAN : ReadBack(u, ok) \/ ReadMessage(u, ok)
    \/ WritePage(u) \/ Compare(u) \/ Return(u)

EeSpec == EeInit /\ [][EeNext]_eeVars

-----------------------------------------------------------------------------
EeTypeOK == ee.cells \in [Cells -> Values] /\ ee.protect \in BOOLEAN /\ ee.blk \in Seq(Values)

(* What a call reports is true of the chip: the bytes it counts are stored *)
(* or were read, it counts less than was asked exactly when it has told    *)
(* the failure event, nothing outside the request has changed, and the     *)
(* chip is protected again; whatever message fails, whatever cell is worn, *)
(* and wherever the request begins and ends among the blocks before the    *)
(* end.                                                                    *)
Asked(c) == IF c.op = "erase" THEN BlockOf(c.off + EeStart) * BlockSize
            ELSE IF c.op = "erase chip" THEN EeStart ELSE EeStart + c.off
Want(c, i) == IF c.op = "write" THEN c.data[i] ELSE FF
EeReportedIsStored ==
  \A u \in EeUsers :
    LET c == eeCall[u]
        first == Asked(c)
    IN  Return(u) =>
          /\ c.evt <=> c.actual < c.len
          /\ c.op # "read" =>
               /\ ee'.protect
               /\ \A i \in 1 .. c.actual : ee.cells[Wire(first + i - 1)] = Want(c, i)
               /\ \A a \in Cells : ee.cells[a] # c.cells0[a] => a \in first .. first + c.len - 1
          /\ c.op = "read" /\ c.actual > 0 => c.data = There(ee.cells, first, c.len)
EeKept == [][EeReportedIsStored]_eeVars
=============================================================================
