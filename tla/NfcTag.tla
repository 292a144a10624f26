------------------------------- MODULE NfcTag -------------------------------
(***************************************************************************)
(* drv/fm13dt160.c: a tag whose memory is reached over the i2c bus and by  *)
(* radio.  A call powers the tag, closes its radio side by a register,     *)
(* sends commands on the locked bus, each answered by a status, opens the  *)
(* radio side and powers the tag off.  Memory is written word by word.     *)
(*                                                                         *)
(* The tag does a command whose frame came through, or refuses it.  A      *)
(* write that passes the end of a word goes on at its beginning.           *)
(***************************************************************************)
EXTENDS Integers, Sequences

CONSTANTS
  TgSize, TgWord,      \* bytes of memory, and of a word: 4
  TgUsers, NoUser,
  TgAddrs, TgLengths,  \* environment: what callers ask for,
  MaxRf,               \* bytes written by radio,
  TgPreempt            \* a second call may begin while one runs

NfcTagAssumption == /\ TgSize \in Nat /\ TgWord \in Nat \ {0} /\ TgSize % TgWord = 0
                    /\ NoUser \notin TgUsers /\ TgPreempt \in BOOLEAN
                    /\ \A a \in TgAddrs, n \in TgLengths : a \in Nat /\ n \in Nat

VARIABLES
  tg,      \* opened, the lock of the bus; the tag: cells, power, rf: is its radio side
           \* open, irq; rfs: bytes written by radio
  tgCall   \* the call of each user; cells0: the memory when its radio side was closed

tgVars == <<tg, tgCall>>

Cells == 0 .. TgSize - 1
Bytes == {0, 1}
ByRadio == 2

NoCall == [op |-> "none", pc |-> "idle", addr |-> 0, len |-> 0, data |-> <<>>, actual |-> 0,
           refused |-> FALSE, closed |-> FALSE, reopened |-> FALSE, cells0 |-> <<>>]
TgInit == /\ tg = [opened |-> FALSE, lock |-> NoUser, cells |-> [a \in Cells |-> 0], power |-> FALSE,
                   rf |-> TRUE, irq |-> FALSE, rfs |-> 0]
          /\ tgCall = [u \in TgUsers |-> NoCall]

At(u, pc) == tgCall[u].pc = pc
To(u, c) == tgCall' = [tgCall EXCEPT ![u] = c]
Calling == {u \in TgUsers : ~At(u, "idle")}

\* The hook init, then the bus; deinit again if that is not there.
Open(works) == /\ ~tg.opened /\ tg' = [tg EXCEPT !.opened = works] /\ UNCHANGED tgCall
Close == tg.opened /\ Calling = {} /\ tg' = [tg EXCEPT !.opened = FALSE] /\ UNCHANGED tgCall

Begin(u, op, addr, data, len) ==
  /\ tg.opened /\ At(u, "idle") /\ (Calling = {} \/ TgPreempt)
  /\ To(u, [NoCall EXCEPT !.op = op, !.pc = "close rf", !.addr = addr, !.data = data, !.len = len])
  /\ tg' = [tg EXCEPT !.power = TRUE]

Write(u, addr, data) == data # <<>> /\ Begin(u, "write", addr, data, Len(data))
\* len: the bytes of memory asked for; the caller names four more, for the frame around them.
Read(u, addr, len) == len > 0 /\ addr % TgWord = 0 /\ len % TgWord = 0 /\ Begin(u, "read", addr, <<>>, len)
InitRegfile(u) == Begin(u, "regfile", 0, <<>>, 0)
ClearInterrupt(u) == Begin(u, "clear", 0, <<>>, 0)

\* __fm13dt160_reg_write, a locked section of its own: whether the tag did it,
\* and whether the status said so.
Register(did, ok) == tg.lock = NoUser /\ (ok => did) /\ (did => tg.power)

\* What it returns is not looked at.
CloseRf(u, did, ok) ==
  /\ At(u, "close rf") /\ Register(did, ok)
  /\ tg' = [tg EXCEPT !.rf = IF did THEN FALSE ELSE @]
  /\ To(u, [tgCall[u] EXCEPT !.pc = IF tgCall[u].op = "clear" THEN "clear irq" ELSE "lock",
                             !.closed = ok, !.cells0 = tg.cells])
ClearIrq(u, did, ok) ==
  /\ At(u, "clear irq") /\ Register(did, ok)
  /\ tg' = [tg EXCEPT !.irq = IF did THEN FALSE ELSE @]
  /\ To(u, [tgCall[u] EXCEPT !.pc = "open rf"])
OpenRf(u, did, ok) ==
  /\ At(u, "open rf") /\ Register(did, ok)
  /\ tg' = [tg EXCEPT !.rf = IF did THEN TRUE ELSE @]
  /\ To(u, [tgCall[u] EXCEPT !.pc = "off", !.reopened = ok])

Lock(u) == /\ At(u, "lock") /\ tg.lock = NoUser
           /\ tg' = [tg EXCEPT !.lock = u] /\ To(u, [tgCall[u] EXCEPT !.pc = "command"])
Unlock(u) == /\ At(u, "unlock")
             /\ tg' = [tg EXCEPT !.lock = NoUser] /\ To(u, [tgCall[u] EXCEPT !.pc = "open rf"])

\* Mutant: all that is left in one command.
AllThatIsLeft(c) == c.len - c.actual

\* As far as the end of the word or of the request.
Chunk(c) ==
  LET addr == c.addr + c.actual
      left == c.len - c.actual
  IN  IF (addr + left) \div TgWord # addr \div TgWord THEN (addr \div TgWord + 1) * TgWord - addr ELSE left

InWord(addr, i) == (addr \div TgWord) * TgWord + ((addr + i - 1) % TgWord)
Stored(cells, c) ==
  [a \in Cells |->
     LET hits == {i \in 1 .. Chunk(c) : InWord(c.addr + c.actual, i) = a}
     IN  IF hits = {} THEN cells[a] ELSE c.data[c.actual + CHOOSE i \in hits : \A j \in hits : j <= i]]

\* The command: it fails on the bus, or the tag does it or refuses.
CommandFails(u) == At(u, "command") /\ To(u, [tgCall[u] EXCEPT !.pc = "unlock"]) /\ UNCHANGED tg
Command(u, refused) ==
  LET c == tgCall[u] IN
  /\ At(u, "command") /\ tg.power
  /\ tg' = [tg EXCEPT !.cells = IF c.op = "write" /\ ~refused THEN Stored(@, c) ELSE @]
  /\ To(u, [c EXCEPT !.pc = "status", !.refused = refused])

\* Mutant: only that there was a status counts.
AnyStatus(c) == TRUE
Accepted(c) == ~c.refused

StatusLost(u) == At(u, "status") /\ To(u, [tgCall[u] EXCEPT !.pc = "unlock"]) /\ UNCHANGED tg
Status(u) ==
  LET c == tgCall[u]
      done == [c EXCEPT !.actual = @ + (IF c.op = "write" THEN Chunk(c) ELSE c.len),
                        !.data = IF c.op = "read" THEN [i \in 1 .. c.len |-> tg.cells[c.addr + i - 1]] ELSE @]
  IN  /\ At(u, "status") /\ tg.power
      /\ To(u, IF ~Accepted(c) THEN [c EXCEPT !.pc = "unlock"]
               ELSE [done EXCEPT !.pc = IF done.actual < c.len THEN "command" ELSE "unlock"])
      /\ UNCHANGED tg

Return(u) == At(u, "off") /\ tg' = [tg EXCEPT !.power = FALSE] /\ To(u, NoCall)

\* A reader in the field of the tag writes a byte; a field or a reader raises the interrupt.
RfWrite(a) == /\ tg.rf /\ tg.rfs < MaxRf
              /\ tg' = [tg EXCEPT !.cells[a] = ByRadio, !.rfs = @ + 1, !.irq = TRUE] /\ UNCHANGED tgCall

TgNext ==
  \/ \E works \in BOOLEAN : Open(works)
  \/ Close
  \/ \E a \in Cells : RfWrite(a)
  \/ \E u \in TgUsers :
       \/ \E addr \in TgAddrs, len \in TgLengths :
            /\ addr + len <= TgSize
            /\ Read(u, addr, len) \/ \E data \in [1 .. len -> Bytes] : Write(u, addr, data)
       \/ InitRegfile(u) \/ ClearInterrupt(u)
       \/ \E did, ok \in BOOLEAN : CloseRf(u, did, ok) \/ ClearIrq(u, did, ok) \/ OpenRf(u, did, ok)
       \/ Lock(u) \/ Unlock(u)
       \/ CommandFails(u) \/ StatusLost(u) \/ Status(u)
       \/ \E refused \in BOOLEAN : Command(u, refused)
       \/ Return(u)

TgSpec == TgInit /\ [][TgNext]_tgVars

-----------------------------------------------------------------------------
(* Until the radio side is opened again the memory is as the call reports  *)
(* it, unless closing it failed: bytes counted as written are stored,      *)
(* bytes read are the ones there, nothing beyond the request has changed.  *)
(* At the end the tag is off, and open to the radio unless that failed.    *)
TgReportedIsStored ==
  \A u \in TgUsers :
    LET c == tgCall[u] IN
    /\ At(u, "open rf") /\ tgCall'[u].pc = "off" /\ c.closed =>
         /\ c.op = "write" =>
              /\ \A i \in 1 .. c.actual : tg.cells[c.addr + i - 1] = c.data[i]
              /\ \A a \in Cells \ (c.addr .. c.addr + c.len - 1) : tg.cells[a] = c.cells0[a]
         /\ c.op = "read" /\ c.actual > 0 => \A i \in 1 .. c.len : tg.cells[c.addr + i - 1] = c.data[i]
    /\ At(u, "off") /\ tgCall'[u].pc = "idle" => ~tg'.power /\ tg'.lock # u /\ (c.reopened => tg'.rf)
TgKept == [][TgReportedIsStored]_tgVars
=============================================================================
