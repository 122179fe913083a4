--------------------------- MODULE LaneArithmetic ---------------------------
(***************************************************************************)
(* The numbers of one output lane, in the widths the hardware gives them:  *)
(* rtl/PE.v adds ArrayRows products to a partial sum that wraps,           *)
(* rtl/Signed_adder.v adds the partial sums of all K blocks to an          *)
(* accumulator that saturates, and rtl/Right_shifter.v rounds and          *)
(* saturates the accumulator to one output byte.                           *)
(*                                                                         *)
(* The other modules keep these sums symbolic; here they are signed        *)
(* integers, and a register of w bits holds -Pow2[w-1] .. Pow2[w-1]-1.     *)
(***************************************************************************)
EXTENDS Integers

CONSTANTS
  DataWidth,      \* P_DATA_WIDTH
  RowIndexWidth,  \* P_ROW_INDEX_WIDTH
  AccumWidth,     \* P_ACCUM_WIDTH
  ArrayRows,      \* P_ARRAY_ROWS
  MaxKBlocks,     \* the largest k_block_count the register holds
  MaxShift,       \* the largest shift the register holds
  Pow2            \* Pow2[i] is 2^i

PSumWidth == 2 * DataWidth + RowIndexWidth

\* A signed register of w bits, by its half range.
Half(w) == Pow2[w - 1]
Signed(w) == -Half(w) .. Half(w) - 1

ASSUME WidthAssumption ==
  /\ DataWidth \in Nat \ {0} /\ RowIndexWidth \in Nat /\ AccumWidth \in Nat \ {0, 1}
  /\ ArrayRows \in Nat \ {0} /\ MaxKBlocks \in Nat \ {0} /\ MaxShift \in Nat
  /\ DataWidth <= AccumWidth /\ AccumWidth <= MaxShift /\ PSumWidth <= MaxShift

ASSUME Pow2Assumption ==
  /\ Pow2 \in [0..MaxShift -> Nat \ {0}]
  /\ Pow2[0] = 1
  /\ \A i \in 1..MaxShift : Pow2[i] = 2 * Pow2[i - 1]

\* The widths fit the largest job: 32 * 2^14 < 2^20 and 31 * 32 * 2^14 < 2^31.
ASSUME CapacityAssumption ==
  /\ Half(DataWidth) * Half(DataWidth) < Half(2 * DataWidth)
  /\ ArrayRows * (Half(DataWidth) * Half(DataWidth)) < Half(PSumWidth)
  /\ MaxKBlocks * (ArrayRows * (Half(DataWidth) * Half(DataWidth))) < Half(AccumWidth)

VARIABLES
  lane,    \* array rows the partial sum has passed
  psum,    \* o_partial_sum of the last of them
  blocks,  \* K blocks accumulated
  acc,     \* the lane of the accumulator word
  out,     \* the lane of o_result_data
  shift,   \* i_cfg_shift of the result
  done,    \* the result is out
  exact    \* history: the sum of all products so far, as an integer

vars == <<lane, psum, blocks, acc, out, shift, done, exact>>

Init ==
  /\ lane = 0 /\ psum = 0 /\ blocks = 0 /\ acc = 0
  /\ out = 0 /\ shift = 0 /\ done = FALSE /\ exact = 0

-----------------------------------------------------------------------------
(* What the hardware computes *)

\* The low w bits of v, read as a signed number.
Wrap(v, w) == ((v + Half(w)) % (2 * Half(w))) - Half(w)

Saturate(v, w) == IF v < -Half(w) THEN -Half(w)
                  ELSE IF v > Half(w) - 1 THEN Half(w) - 1 ELSE v

\* mult_IP, sign-extended.
Product(f, w) == Wrap(f * w, 2 * DataWidth)

\* Mutant: the partial sum has no room for the number of rows.
AddProductNarrow(p, f, w) == Wrap(p + Product(f, w), 2 * DataWidth)

\* o_partial_sum of a processing element.
AddProduct(p, f, w) == Wrap(p + Product(f, w), PSumWidth)

SignedAdder(a, b) == Saturate(a + b, AccumWidth)

\* Bit i of v in two's complement, extended with the sign.
Bit(v, i) == (v \div Pow2[i]) % 2

\* Mutant: the shifted value is truncated.
RoundBitNone(v, s) == 0

\* r_round_bit
RoundBit(v, s) == IF s = 0 \/ s >= AccumWidth THEN 0 ELSE Bit(v, s - 1)

\* An arithmetic shift divides towards minus infinity.
ShiftedValue(v, s) == v \div Pow2[s]

\* Mutant: only values above the range saturate.
RightShifterNoMin(v, s) ==
  LET r == ShiftedValue(v, s) + RoundBit(v, s)
  IN  IF r > Half(DataWidth) - 1 THEN Half(DataWidth) - 1 ELSE r

RightShifter(v, s) == Saturate(ShiftedValue(v, s) + RoundBit(v, s), DataWidth)

-----------------------------------------------------------------------------
(* One product per array row, one accumulation per K block, one result *)

MultiplyAdd(f, w) ==
  /\ lane < ArrayRows
  /\ blocks < MaxKBlocks
  /\ ~done
  /\ psum' = AddProduct(psum, f, w)
  /\ lane' = lane + 1
  /\ exact' = exact + f * w
  /\ UNCHANGED <<blocks, acc, out, shift, done>>

Accumulate ==
  /\ lane = ArrayRows
  /\ ~done
  /\ acc' = SignedAdder(psum, acc)
  /\ blocks' = blocks + 1
  /\ lane' = 0
  /\ psum' = 0
  /\ UNCHANGED <<out, shift, done, exact>>

Quantize(s) ==
  /\ lane = 0 /\ blocks > 0
  /\ ~done
  /\ out' = RightShifter(acc, s)
  /\ shift' = s
  /\ done' = TRUE
  /\ UNCHANGED <<lane, psum, blocks, acc, exact>>

Next == \/ \E f, w \in Signed(DataWidth) : MultiplyAdd(f, w)
        \/ Accumulate
        \/ \E s \in 0..MaxShift : Quantize(s)

Spec == Init /\ [][Next]_vars

-----------------------------------------------------------------------------
(* Properties *)

(* The registers hold numbers of their width.                              *)
TypeOK ==
  /\ lane \in 0..ArrayRows /\ blocks \in 0..MaxKBlocks
  /\ psum \in Signed(PSumWidth) /\ acc \in Signed(AccumWidth)
  /\ out \in Signed(DataWidth)
  /\ shift \in 0..MaxShift /\ done \in BOOLEAN /\ exact \in Int

(* No product, partial sum or accumulation of any job the registers can    *)
(* express wraps or saturates: the accumulator and the partial sum         *)
(* together are the exact sum of the products (PE.v, Signed_adder.v).      *)
ExactDotProduct == acc + psum = exact

\* q is v / 2^s rounded to the nearest integer, a tie towards plus infinity.
IsRounded(q, v, s) ==
  /\ 2 * (Pow2[s] * q) - Pow2[s] <= 2 * v
  /\ 2 * v < 2 * (Pow2[s] * q) + Pow2[s]

(* The result byte is the exact sum divided by 2^shift, rounded to nearest *)
(* and saturated, for every shift less than the accumulator width          *)
(* (Right_shifter.v).                                                      *)
ResultRounded ==
  done /\ shift < AccumWidth =>
    \E q \in Signed(AccumWidth + 1) : /\ IsRounded(q, exact, shift)
                                      /\ out = Saturate(q, DataWidth)

-----------------------------------------------------------------------------
(* The inductive strengthening: how far the sums can have got.             *)

MaxProduct == Half(DataWidth) * Half(DataWidth)
Within(v, bound) == -bound <= v /\ v <= bound

SumsBounded == /\ Within(psum, lane * MaxProduct)
               /\ Within(acc, blocks * (ArrayRows * MaxProduct))
               /\ lane > 0 => blocks < MaxKBlocks
               /\ done => lane = 0 /\ psum = 0

ResultIsShifted == done => out = RightShifter(acc, shift)

IInv == TypeOK /\ ExactDotProduct /\ SumsBounded /\ ResultIsShifted

=============================================================================
