------------------------------ MODULE NorFlash ------------------------------
(***************************************************************************)
(* drv/fm25qxx.c: a serial NOR flash that programs a page or erases a      *)
(* sector by itself while the driver polls its status, each poll loop with *)
(* a limit.  A call locks the flash by a hook for all its pages.           *)
(*                                                                         *)
(* The chip: a program or an erase takes a while; until it is done the     *)
(* chip answers the status with WIP and WEL and ignores every other        *)
(* command.  Programming clears bits, erasing sets them.                   *)
(***************************************************************************)
EXTENDS Naturals, SequencesExt

CONSTANTS
  NfEnd,       \* flash.end, and the size of the chip
  PageSize,    \* FM25QXX_PAGE_SIZE
  SectorSize,  \* flash.block_size
  NfUsers, NfAddrs, NfLengths,  \* the callers, and what they ask for
  NfIds,       \* environment: the idcodes that may be read,
  Supported,   \* and the ones in the tables of the driver
  SlowChip,    \* environment: the chip may outlast a poll loop
  EraseBeyond  \* environment: an erase may be asked for at or beyond the end

NorFlashAssumption ==
  /\ PageSize \in Nat \ {0} /\ SectorSize \in Nat \ {0} /\ NfEnd \in Nat \ {0}
  /\ NfEnd % SectorSize = 0 /\ NfAddrs \subseteq Nat /\ NfLengths \subseteq Nat
  /\ SlowChip \in BOOLEAN /\ EraseBeyond \in BOOLEAN

VARIABLES
  nf,      \* cells, wip, wel: the chip; up, lock: what the hooks were told
  nfCall   \* the call of each user

nfVars == <<nf, nfCall>>

FF == 1
Values == {0, FF}
Cells == 0 .. NfEnd - 1

-----------------------------------------------------------------------------
(* The chip.                                                               *)
Accepts(c) == ~c.wip /\ c.wel
WriteEnabled(c) == IF c.wip THEN c ELSE [c EXCEPT !.wel = TRUE]
\* Round and round in one page: the last byte sent to an address counts.
InPage(addr, i) == (addr \div PageSize) * PageSize + ((addr + i - 1) % PageSize)
Programmed(c, addr, bytes) ==
  IF Accepts(c)
  THEN [c EXCEPT !.wip = TRUE,
                 !.cells = [a \in Cells |->
                   LET at == {i \in DOMAIN bytes : InPage(addr, i) = a}
                   IN  IF at # {} /\ bytes[CHOOSE i \in at : \A j \in at : j <= i] = 0 THEN 0 ELSE @[a]]]
  ELSE c
Erased(c, first, len) ==
  IF Accepts(c)
  THEN [c EXCEPT !.wip = TRUE,
                 !.cells = [a \in Cells |-> IF a \in first .. first + len - 1 THEN FF ELSE @[a]]]
  ELSE c
Settled(c) == [c EXCEPT !.wip = FALSE, !.wel = FALSE]

-----------------------------------------------------------------------------
Free == [op |-> "none", pc |-> "idle", addr |-> 0, len |-> 0, data |-> <<>>, done |-> 0,
         page |-> 0, cells0 |-> <<>>]

NfInit == /\ nf = [cells |-> [a \in Cells |-> FF], wip |-> FALSE, wel |-> FALSE,
                   up |-> FALSE, lock |-> FALSE]
          /\ nfCall = [u \in NfUsers |-> Free]

To(u, c) == nfCall' = [nfCall EXCEPT ![u] = c]

\* fm25qxx_open: a chip the tables do not know is shut down again.
Open(id) == /\ ~nf.up /\ UNCHANGED nfCall
            /\ nf' = [nf EXCEPT !.up = id \in Supported]
Close == /\ nf.up /\ (\A u \in NfUsers : nfCall[u] = Free) /\ UNCHANGED nfCall
         /\ nf' = [nf EXCEPT !.up = FALSE]

\* The range of a write and a read is checked before the lock is taken; that of an
\* erase is up to the caller.
Call(u, op, addr, len, data) ==
  /\ nf.up /\ nfCall[u] = Free
  /\ op = "write" => addr + len <= NfEnd
  /\ op = "read" => addr <= NfEnd
  /\ op = "erase" => addr < NfEnd \/ EraseBeyond
  /\ To(u, [Free EXCEPT !.op = op, !.pc = "lock", !.addr = addr, !.data = data,
                        !.len = IF op = "read" /\ addr + len > NfEnd THEN NfEnd - addr ELSE len])
  /\ UNCHANGED nf

Lock(u) == LET c == nfCall[u] IN
           /\ c.pc = "lock" /\ ~nf.lock
           /\ nf' = [nf EXCEPT !.lock = TRUE]
           /\ To(u, [c EXCEPT !.pc = IF c.op = "read" THEN "read" ELSE "enable",
                              !.cells0 = nf.cells])

\* Mutant: pages are not told apart.
ToTheEnd(addr, left) == left
PageLeft(addr, left) ==
  LET page == PageSize - (addr % PageSize) IN IF page < left THEN page ELSE left

\* fm25qxx_write_enable: WEL is polled, 100 times.
WriteEnable(u) ==
  LET c == nfCall[u]
      chip == WriteEnabled(nf)
  IN  /\ c.pc = "enable"
      /\ nf' = chip
      /\ To(u, IF chip.wel THEN [c EXCEPT !.pc = "command", !.page = PageLeft(c.addr + c.done, c.len - c.done)]
               ELSE [c EXCEPT !.pc = "unlock"])

\* The command, and what the chip makes of it.  Address lines it does not have count for
\* nothing.
SectorOf(addr) == (addr % NfEnd) \div SectorSize
WritePage(u) ==
  LET c == nfCall[u] IN
  /\ c.pc = "command" /\ c.op = "write"
  /\ nf' = Programmed(nf, c.addr + c.done, SubSeq(c.data, c.done + 1, c.done + c.page))
  /\ To(u, [c EXCEPT !.pc = "poll"])
EraseSector(u) ==
  LET c == nfCall[u] IN
  /\ c.pc = "command" /\ c.op = "erase"
  /\ nf' = Erased(nf, SectorOf(c.addr) * SectorSize, SectorSize)
  /\ To(u, [c EXCEPT !.pc = "poll"])
EraseChip(u) ==
  LET c == nfCall[u] IN
  /\ c.pc = "command" /\ c.op = "erase chip"
  /\ nf' = Erased(nf, 0, NfEnd)
  /\ To(u, [c EXCEPT !.pc = "poll"])

\* The chip finishes on its own.
Finish == nf.wip /\ nf' = Settled(nf) /\ UNCHANGED nfCall

\* Mutant: WIP is not looked at.
UnseenBusy(u) ==
  LET c == nfCall[u]
      all == c.op # "write" \/ c.done + c.page = c.len
  IN  /\ c.pc = "poll"
      /\ To(u, [c EXCEPT !.done = IF c.op = "write" THEN @ + c.page ELSE c.len,
                         !.pc = IF all THEN "unlock" ELSE "enable"])
      /\ UNCHANGED nf
\* The poll loop saw WIP cleared: the page counts, and the next one begins.  It gives up
\* on a slow chip.
PollDone(u) ==
  LET c == nfCall[u]
      all == c.op # "write" \/ c.done + c.page = c.len
  IN  /\ c.pc = "poll" /\ (nf.wip => SlowChip)
      /\ To(u, IF nf.wip THEN [c EXCEPT !.pc = "unlock"]
               ELSE [c EXCEPT !.done = IF c.op = "write" THEN @ + c.page ELSE c.len,
                              !.pc = IF all THEN "unlock" ELSE "enable"])
      /\ UNCHANGED nf
Read(u) ==
  LET c == nfCall[u] IN
  /\ c.pc = "read"
  /\ \E data \in (IF nf.wip THEN [1 .. c.len -> Values]
                  ELSE {[i \in 1 .. c.len |-> nf.cells[c.addr + i - 1]]}) :
       To(u, [c EXCEPT !.pc = "unlock", !.data = data, !.done = c.len])
  /\ UNCHANGED nf

Unlock(u) == /\ nfCall[u].pc = "unlock"
             /\ nf' = [nf EXCEPT !.lock = FALSE] /\ To(u, Free)

NfNext ==
  \/ Close \/ Finish \/ \E id \in NfIds : Open(id)
  \/ \E u \in NfUsers :
       \/ \E addr \in NfAddrs, len \in NfLengths :
            \/ \E data \in [1 .. len -> Values] : Call(u, "write", addr, len, data)
            \/ Call(u, "read", addr, len, <<>>)
       \/ \E addr \in NfAddrs : Call(u, "erase", addr, SectorSize, <<>>)
       \/ Call(u, "erase chip", 0, NfEnd, <<>>)
       \/ Lock(u) \/ WriteEnable(u) \/ WritePage(u) \/ EraseSector(u) \/ EraseChip(u)
       \/ PollDone(u) \/ Read(u) \/ Unlock(u)

NfSpec == NfInit /\ [][NfNext]_nfVars

-----------------------------------------------------------------------------
NfTypeOK == /\ nf.cells \in [Cells -> Values] /\ nf.wip \in BOOLEAN /\ nf.wel \in BOOLEAN
            /\ nf.up \in BOOLEAN /\ nf.lock \in BOOLEAN

(* What a call reports when it gives up the lock is what happened, with    *)
(* two callers at once: the bytes it counts are programmed over what was   *)
(* there, a sector reported erased is erased, the bytes read are the ones  *)
(* stored, and nothing outside the request has changed, for requests of    *)
(* cells the chip has.                                                     *)
After(c, a) ==
  CASE c.op = "write" -> IF c.data[a - c.addr + 1] = 0 THEN 0 ELSE c.cells0[a]
    [] c.op \in {"erase", "erase chip"} -> FF
    [] OTHER -> c.cells0[a]
Touched(c, len) == IF c.op = "erase" THEN {a \in Cells : a \div SectorSize = c.addr \div SectorSize}
                   ELSE c.addr .. c.addr + len - 1
NfReportedIsStored ==
  \A u \in NfUsers :
    LET c == nfCall[u] IN
    Unlock(u) => /\ c.done > 0 => \A a \in Touched(c, c.done) : nf.cells[a] = After(c, a)
                 /\ \A a \in Cells \ Touched(c, c.len) : nf.cells[a] = c.cells0[a]
                 /\ c.op = "read" => \A i \in 1 .. c.len : c.data[i] = nf.cells[c.addr + i - 1]

(* flash.h:45: the block the address is in will be erased, and its size is *)
(* returned if it was; no other block is.                                  *)
NfKept == [][NfReportedIsStored]_nfVars
=============================================================================
