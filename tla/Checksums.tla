------------------------------ MODULE Checksums ------------------------------
(***************************************************************************)
(* common/checksum/checksum.c: eleven cyclic redundancy checks and three   *)
(* sums over a row of bytes.  Each function keeps a register and takes a   *)
(* byte per turn of its loop; the turns of all of them are one step here.  *)
(*                                                                         *)
(* A register, and a byte, is the set of its bits that are 1.              *)
(***************************************************************************)
EXTENDS Integers, SequencesExt

CONSTANTS
  SumBytes,  \* the bytes fed
  MaxBytes   \* bound on their count

ChecksumsAssumption == SumBytes \subseteq 0 .. 255 /\ MaxBytes \in Nat

VARIABLES
  fed,   \* the bytes so far
  sums   \* [Functions -> the register]

sumVars == <<fed, sums>>

Bits(n) == {i \in 0 .. 16 : (n \div 2^i) % 2 = 1}
Number(bits) == SumSet({2^i : i \in bits})
Long(high, low) == Bits(low) \cup {16 + i : i \in Bits(high)}
All(width) == 0 .. width - 1
Xor(a, b) == (a \ b) \cup (b \ a)

-----------------------------------------------------------------------------
(* What the functions begin with, xor into the register when a bit falls   *)
(* out of it, and xor at the end; and to which side they shift.            *)
Crc(width, side, poly, init, out) ==
  [kind |-> "crc", width |-> width, side |-> side, poly |-> Bits(poly), init |-> Bits(init), out |-> Bits(out)]

checksum_crc16_modbus == Crc(16, "right", \hA001, \hFFFF, 0)
checksum_crc16_xmodem == Crc(16, "left",  \h1021, 0, 0)
checksum_crc16_maxim  == Crc(16, "right", \hA001, 0, \hFFFF)
checksum_crc16_ibm    == Crc(16, "right", \hA001, 0, 0)
checksum_crc16_ccitt  == Crc(16, "right", \h8408, 0, 0)
checksum_crc8         == Crc(8, "left",  \h07, 0, 0)
checksum_crc8_rohc    == Crc(8, "right", \hE0, \hFF, 0)
checksum_crc8_itu     == Crc(8, "left",  \h07, 0, \h55)
checksum_crc8_maxim   == Crc(8, "right", \h8C, 0, 0)
checksum_crc8_moorgen == Crc(8, "left",  \h31, 0, 0)
checksum_crc32_moorgen == [kind |-> "table", width |-> 32, init |-> All(32), out |-> All(32)]
checksum_xor         == [kind |-> "xor", width |-> 8, init |-> {}, out |-> {}]
checksum_revert_sum8 == [kind |-> "revert", width |-> 8, init |-> {}, out |-> {}]
checksum_sum16       == [kind |-> "sum", width |-> 16, init |-> {}, out |-> {}]

Crc16 == {checksum_crc16_modbus, checksum_crc16_xmodem, checksum_crc16_maxim, checksum_crc16_ibm, checksum_crc16_ccitt}
Crc8 == {checksum_crc8, checksum_crc8_rohc, checksum_crc8_itu, checksum_crc8_maxim, checksum_crc8_moorgen}
Crcs == Crc16 \cup Crc8 \cup {checksum_crc32_moorgen}
Sums == Crcs \cup {checksum_xor, checksum_revert_sum8, checksum_sum16}

\* crc32_moorgen_table: its entries 1, 2, 4 and so on to 128; the others are sums of these.
Powers == <<Long(\h7707, \h3096), Long(\hEE0E, \h612C), Long(\h076D, \hC419), Long(\h0EDB, \h8832),
            Long(\h1DB7, \h1064), Long(\h3B6E, \h20C8), Long(\h76DC, \h4190), Long(\hEDB8, \h8320)>>
Table(index) == FoldSet(LAMBDA i, entry : Xor(Powers[i + 1], entry), {}, index)

-----------------------------------------------------------------------------
Shifted(f, crc) == IF f.side = "right" THEN {i - 1 : i \in crc \ {0}}
                   ELSE {i + 1 : i \in crc \ {f.width - 1}}
FallsOut(f, crc) == (IF f.side = "right" THEN 0 ELSE f.width - 1) \in crc

\* Mutant: what falls out is lost.
NoFeedback(f, crc) == Shifted(f, crc)

OneBit(f, crc) == IF FallsOut(f, crc) THEN Xor(Shifted(f, crc), f.poly) ELSE Shifted(f, crc)

\* Mutant: at the low end, whichever way the register moves.
EnteredLow(f, crc, byte) == Xor(crc, byte)

\* Bits go in where they will fall out first.
Entered(f, crc, byte) ==
  Xor(crc, IF f.side = "right" THEN byte ELSE {i + f.width - 8 : i \in byte})

\* One turn of the loop.
Turn(f, crc, byte) ==
  CASE f.kind = "crc" ->
         FoldLeft(LAMBDA c, i : OneBit(f, c), Entered(f, crc, byte), [i \in 1 .. 8 |-> i])
    [] f.kind = "table" ->
         Xor({i - 8 : i \in crc \ All(8)}, Table(Xor(crc \cap All(8), byte)))
    [] f.kind = "xor" -> Xor(crc, byte)
    [] f.kind = "revert" -> Bits((Number(crc) + 255 - Number(byte)) % 2^8)
    [] f.kind = "sum" -> Bits((Number(crc) + Number(byte)) % 2^16)

SumInit == fed = <<>> /\ sums = [f \in Sums |-> f.init]
Feed(byte) == /\ Len(fed) < MaxBytes
              /\ fed' = Append(fed, Bits(byte))
              /\ sums' = [f \in Sums |-> Turn(f, sums[f], Bits(byte))]
SumNext == \E byte \in SumBytes : Feed(byte)
SumSpec == SumInit /\ [][SumNext]_sumVars

\* What a function returns, for the bytes so far and for others.
Result(f, crc) == Xor(crc, f.out)
Of(f, bytes) == Result(f, FoldLeft(LAMBDA c, b : Turn(f, c, b), f.init, bytes))

-----------------------------------------------------------------------------
SumTypeOK == fed \in Seq(SUBSET All(8)) /\ \A f \in Sums : sums[f] \subseteq All(f.width)

(* The check each function is documented as: the remainder of the bytes,   *)
(* width zero bits behind them and init in front, by a polynomial.  A      *)
(* polynomial is the set of its exponents.  refin: a byte's lowest bit is  *)
(* the first, refout: so is the remainder's.  crc32 names no polynomial:   *)
(* it is the one of IEEE 802.3.                                            *)
Stated ==
  LET Is(poly, init, refin, out) == [poly |-> poly, init |-> init, refin |-> refin, out |-> out]
  IN  (checksum_crc16_modbus :> Is({16, 15, 2, 0}, All(16), TRUE, {})) @@
      (checksum_crc16_xmodem :> Is({16, 12, 5, 0}, {}, FALSE, {})) @@
      (checksum_crc16_maxim :> Is({16, 15, 2, 0}, {}, TRUE, All(16))) @@
      (checksum_crc16_ibm :> Is({16, 15, 2, 0}, {}, TRUE, {})) @@
      (checksum_crc16_ccitt :> Is({16, 12, 5, 0}, {}, TRUE, {})) @@
      (checksum_crc8 :> Is({8, 2, 1, 0}, {}, FALSE, {})) @@
      (checksum_crc8_rohc :> Is({8, 2, 1, 0}, All(8), TRUE, {})) @@
      (checksum_crc8_itu :> Is({8, 2, 1, 0}, {}, FALSE, Bits(\h55))) @@
      (checksum_crc8_maxim :> Is({8, 5, 4, 0}, {}, TRUE, {})) @@
      (checksum_crc8_moorgen :> Is({8, 5, 4, 0}, {}, FALSE, {})) @@
      (checksum_crc32_moorgen :> Is({32, 26, 23, 22, 16, 12, 11, 10, 8, 7, 5, 4, 2, 1, 0}, All(32), TRUE, All(32)))

Times(poly, k) == {i + k : i \in poly}
Remainder(dividend, poly, width) ==
  LET Step(rest, k) == IF width + k \in rest THEN Xor(rest, Times(poly, k)) ELSE rest
      n == 8 * MaxBytes
  IN  FoldLeft(Step, dividend, [j \in 1 .. n + 1 |-> n + 1 - j])

Reference(s, width) ==
  LET n == Len(fed)
      Place(k, i) == 8 * (n - k) + (IF s.refin THEN 7 - i ELSE i)
      message == UNION {{Place(k, i) : i \in fed[k]} : k \in 1 .. n}
      rest == Remainder(Xor(Times(message, width), Times(s.init, 8 * n)), s.poly, width)
  IN  Xor(IF s.refin THEN {width - 1 - i : i \in rest} ELSE rest, s.out)

SumsAreTheStated == \A f \in Crcs : Result(f, sums[f]) = Reference(Stated[f], f.width)

(* What callers use the sums for: a byte that is garbled shows in every    *)
(* one of them, two bytes that changed places show in the longer crcs, and *)
(* bytes followed by their crc8_maxim, and by nothing else, have the sum   *)
(* 0, as w1_bus.c has it.                                                  *)
ErrorsShow ==
  /\ \A k \in DOMAIN fed, other \in SumBytes, f \in Sums :
       Bits(other) # fed[k] => Of(f, [fed EXCEPT ![k] = Bits(other)]) # Result(f, sums[f])
  /\ \A k \in 1 .. Len(fed) - 1, f \in Crc16 \cup {checksum_crc32_moorgen} :
       fed[k] # fed[k + 1] =>
         Of(f, [fed EXCEPT ![k] = fed[k + 1], ![k + 1] = fed[k]]) # Result(f, sums[f])
  /\ \A last \in 0 .. 255 :
       (Turn(checksum_crc8_maxim, sums[checksum_crc8_maxim], Bits(last)) = {})
         <=> Bits(last) = sums[checksum_crc8_maxim]
=============================================================================
