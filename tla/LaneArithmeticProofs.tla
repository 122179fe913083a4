------------------------ MODULE LaneArithmeticProofs ------------------------
(***************************************************************************)
(* No job the registers can express overflows, and the result byte is the  *)
(* rounded quotient, for every choice of the widths that satisfies the     *)
(* assumptions of LaneArithmetic.                                          *)
(***************************************************************************)
EXTENDS LaneArithmetic, TLAPS

-----------------------------------------------------------------------------
(* Numbers *)

LEMMA HalfIsPositive ==
  ASSUME NEW w \in 1..MaxShift
  PROVE  Half(w) \in Nat \ {0}
  BY WidthAssumption, Pow2Assumption DEF Half

(* The widths used are those of registers that exist.                      *)
LEMMA WidthsInRange ==
  /\ DataWidth \in 1..MaxShift
  /\ 2 * DataWidth \in 1..MaxShift
  /\ PSumWidth \in 1..MaxShift
  /\ AccumWidth \in 1..MaxShift
  BY WidthAssumption DEF PSumWidth

LEMMA Division ==
  ASSUME NEW v \in Int, NEW d \in Nat \ {0}
  PROVE  /\ v \div d \in Int /\ v % d \in 0..d-1
         /\ v = (d * (v \div d)) + (v % d)
<1>1. v \div d \in Int
  OBVIOUS
<1>2. v % d \in 0..d-1
  OBVIOUS
<1>3. v = (d * (v \div d)) + (v % d)
  OBVIOUS
<1> QED
  BY <1>1, <1>2, <1>3

LEMMA QuotientUnique ==
  ASSUME NEW v \in Int, NEW d \in Nat \ {0}, NEW q \in Int,
         d * q <= v, v < (d * q) + d
  PROVE  v \div d = q
  OBVIOUS

LEMMA SmallRemainder ==
  ASSUME NEW n \in Nat \ {0}, NEW a \in 0..n-1
  PROVE  a % n = a
  OBVIOUS

(* A number that fits w bits is not changed by keeping its low w bits.     *)
LEMMA WrapKeeps ==
  ASSUME NEW w \in 1..MaxShift, NEW v \in Int, Within(v, Half(w) - 1)
  PROVE  Wrap(v, w) = v
<1>1. Half(w) \in Nat \ {0}
  BY HalfIsPositive
<1>2. v + Half(w) \in 0..(2 * Half(w)) - 1
  BY <1>1 DEF Within
<1>3. (v + Half(w)) % (2 * Half(w)) = v + Half(w)
  BY <1>1, <1>2, SmallRemainder
<1> QED
  BY <1>1, <1>3 DEF Wrap

LEMMA SaturateRange ==
  ASSUME NEW w \in 1..MaxShift, NEW v \in Int
  PROVE  Saturate(v, w) \in Signed(w)
  BY HalfIsPositive DEF Saturate, Signed

LEMMA SaturateKeeps ==
  ASSUME NEW w \in 1..MaxShift, NEW v \in Int, Within(v, Half(w) - 1)
  PROVE  Saturate(v, w) = v
  BY HalfIsPositive DEF Saturate, Within

(* The product of two numbers of at most h in size is at most h * h.       *)
LEMMA ProductBound ==
  ASSUME NEW h \in Nat, NEW f \in Int, NEW w \in Int, Within(f, h), Within(w, h)
  PROVE  Within(f * w, h * h)
<1>1. CASE f >= 0 /\ w >= 0
  BY <1>1 DEF Within
<1>2. CASE f >= 0 /\ w < 0
  BY <1>2 DEF Within
<1>3. CASE f < 0 /\ w >= 0
  BY <1>3 DEF Within
<1>4. CASE f < 0 /\ w < 0
  BY <1>4 DEF Within
<1> QED
  BY <1>1, <1>2, <1>3, <1>4

LEMMA MultiplesGrow ==
  ASSUME NEW m \in Nat, NEW n \in Nat, NEW top \in Nat, n <= top
  PROVE  n * m \in Nat /\ n * m <= top * m /\ (n + 1) * m = n * m + m
<1>1. PICK d \in Nat : top = n + d
  OBVIOUS
<1>2. top * m = n * m + d * m
  BY <1>1
<1>3. d * m \in Nat /\ n * m \in Nat
  OBVIOUS
<1> QED
  BY <1>2, <1>3

-----------------------------------------------------------------------------
(* The sums *)

LEMMA MaxProductIsNat == MaxProduct \in Nat /\ ArrayRows * MaxProduct \in Nat
<1>1. Half(DataWidth) \in Nat \ {0}
  BY HalfIsPositive, WidthsInRange
<1>2. MaxProduct \in Nat
  BY <1>1 DEF MaxProduct
<1> QED
  BY <1>2, WidthAssumption

LEMMA ProductExact ==
  ASSUME NEW f \in Signed(DataWidth), NEW w \in Signed(DataWidth)
  PROVE  f * w \in Int /\ Within(f * w, MaxProduct) /\ Product(f, w) = f * w
<1>1. Half(DataWidth) \in Nat \ {0} /\ Half(2 * DataWidth) \in Nat \ {0}
  BY HalfIsPositive, WidthsInRange
<1>2. f \in Int /\ w \in Int /\ Within(f, Half(DataWidth)) /\ Within(w, Half(DataWidth))
  BY <1>1 DEF Signed, Within
<1>3. f * w \in Int
  BY <1>2
<1>4. Within(f * w, MaxProduct)
  BY <1>1, <1>2, ProductBound DEF MaxProduct
<1>5. MaxProduct <= Half(2 * DataWidth) - 1
  BY <1>1, CapacityAssumption, MaxProductIsNat DEF MaxProduct
<1>6. Within(f * w, Half(2 * DataWidth) - 1)
  BY <1>1, <1>3, <1>4, <1>5, MaxProductIsNat DEF Within
<1> QED
  BY <1>3, <1>4, <1>6, WrapKeeps, WidthsInRange DEF Product

(* One more product keeps the partial sum exact.                           *)
LEMMA AddProductExact ==
  ASSUME NEW f \in Signed(DataWidth), NEW w \in Signed(DataWidth),
         NEW p \in Int, NEW l \in 0..ArrayRows-1, Within(p, l * MaxProduct)
  PROVE  /\ AddProduct(p, f, w) = p + f * w
         /\ Within(p + f * w, (l + 1) * MaxProduct)
         /\ Within(p + f * w, Half(PSumWidth) - 1)
<1> DEFINE M == MaxProduct
<1>1. M \in Nat /\ Half(PSumWidth) \in Nat \ {0}
  BY MaxProductIsNat, HalfIsPositive, WidthsInRange
<1>2. f * w \in Int /\ Within(f * w, M) /\ Product(f, w) = f * w
  BY ProductExact
<1>3. l * M \in Int /\ (l + 1) * M = l * M + M
  BY <1>1, WidthAssumption, MultiplesGrow
<1>4. (l + 1) * M <= ArrayRows * M
  BY <1>1, WidthAssumption, MultiplesGrow
<1>5. ArrayRows * M < Half(PSumWidth)
  BY CapacityAssumption DEF MaxProduct
<1> HIDE DEF M
<1>6. Within(p + f * w, (l + 1) * M)
  BY <1>1, <1>2, <1>3 DEF Within, M
<1>7. ArrayRows * M \in Int
  BY <1>1, WidthAssumption
<1>8. Within(p + f * w, Half(PSumWidth) - 1)
  BY <1>1, <1>2, <1>3, <1>4, <1>5, <1>6, <1>7 DEF Within
<1>9. AddProduct(p, f, w) = p + f * w
  BY <1>2, <1>8, WrapKeeps, WidthsInRange DEF AddProduct
<1> QED
  BY <1>6, <1>8, <1>9 DEF M

(* One more K block keeps the accumulator exact.                           *)
LEMMA AccumulationExact ==
  ASSUME NEW p \in Int, NEW a \in Int, NEW b \in 0..MaxKBlocks-1,
         Within(p, ArrayRows * MaxProduct), Within(a, b * (ArrayRows * MaxProduct))
  PROVE  /\ SignedAdder(p, a) = p + a
         /\ Within(p + a, (b + 1) * (ArrayRows * MaxProduct))
         /\ Within(p + a, Half(AccumWidth) - 1)
<1> DEFINE R == ArrayRows * MaxProduct
<1>1. R \in Nat /\ Half(AccumWidth) \in Nat \ {0}
  BY MaxProductIsNat, HalfIsPositive, WidthsInRange
<1>2. MaxKBlocks * R < Half(AccumWidth)
  BY CapacityAssumption DEF MaxProduct
<1> HIDE DEF R
<1>3. b * R \in Int /\ (b + 1) * R = b * R + R /\ (b + 1) * R <= MaxKBlocks * R
  BY <1>1, WidthAssumption, MultiplesGrow
<1>4. MaxKBlocks * R \in Int
  BY <1>1, WidthAssumption
<1>5. Within(p + a, (b + 1) * R)
  BY <1>1, <1>3 DEF Within, R
<1>6. Within(p + a, Half(AccumWidth) - 1)
  BY <1>1, <1>2, <1>3, <1>4, <1>5 DEF Within
<1>7. SignedAdder(p, a) = p + a
  BY <1>6, SaturateKeeps, WidthsInRange DEF SignedAdder
<1> QED
  BY <1>5, <1>6, <1>7 DEF R

-----------------------------------------------------------------------------
(* The inductive invariant *)

LEMMA InitIInv == Init => IInv
<1> SUFFICES ASSUME Init PROVE IInv
  OBVIOUS
<1>1. \A w \in 1..MaxShift : 0 \in Signed(w)
  BY HalfIsPositive DEF Signed
<1>2. TypeOK
  <2>1. 0 \in Signed(PSumWidth) /\ 0 \in Signed(AccumWidth) /\ 0 \in Signed(DataWidth)
    BY <1>1, WidthsInRange
  <2>2. 0 \in 0..ArrayRows /\ 0 \in 0..MaxKBlocks /\ 0 \in 0..MaxShift
    BY WidthAssumption
  <2>3. 0 \in Int /\ FALSE \in BOOLEAN
    OBVIOUS
  <2> QED
    BY <2>1, <2>2, <2>3 DEF Init, TypeOK
<1>3. 0 * MaxProduct = 0 /\ 0 * (ArrayRows * MaxProduct) = 0
  BY MaxProductIsNat
<1>4. SumsBounded
  BY <1>3 DEF Init, SumsBounded, Within
<1> QED
  BY <1>2, <1>4 DEF Init, IInv, ExactDotProduct, ResultIsShifted

LEMMA InSigned ==
  ASSUME NEW w \in 1..MaxShift, NEW v \in Int, Within(v, Half(w) - 1)
  PROVE  v \in Signed(w)
  BY HalfIsPositive DEF Signed, Within

LEMMA SignedIsInt ==
  ASSUME NEW w \in 1..MaxShift, NEW v \in Signed(w)
  PROVE  v \in Int
  BY HalfIsPositive DEF Signed

LEMMA MultiplyAddIInv ==
  ASSUME IInv, NEW f \in Signed(DataWidth), NEW w \in Signed(DataWidth), MultiplyAdd(f, w)
  PROVE  IInv'
<1>1. lane \in 0..ArrayRows-1 /\ psum \in Int /\ acc \in Int /\ exact \in Int
  BY WidthAssumption, WidthsInRange, SignedIsInt DEF IInv, TypeOK, MultiplyAdd
<1>2. Within(psum, lane * MaxProduct)
  BY DEF IInv, SumsBounded
<1>3. /\ psum' = psum + f * w
      /\ Within(psum', (lane + 1) * MaxProduct)
      /\ Within(psum', Half(PSumWidth) - 1)
  BY <1>1, <1>2, AddProductExact DEF MultiplyAdd
<1>4. f * w \in Int
  BY ProductExact
<1>5. TypeOK'
  <2>1. psum' \in Signed(PSumWidth)
    BY <1>1, <1>3, <1>4, InSigned, WidthsInRange
  <2>2. lane' \in 0..ArrayRows /\ exact' \in Int
    BY <1>1, <1>4, WidthAssumption DEF MultiplyAdd
  <2> QED
    BY <2>1, <2>2 DEF IInv, TypeOK, MultiplyAdd
<1>6. ExactDotProduct'
  BY <1>1, <1>3, <1>4 DEF IInv, ExactDotProduct, MultiplyAdd
<1>7. SumsBounded'
  BY <1>1, <1>3 DEF IInv, SumsBounded, MultiplyAdd
<1>8. ResultIsShifted'
  BY DEF IInv, ResultIsShifted, MultiplyAdd
<1> QED
  BY <1>5, <1>6, <1>7, <1>8 DEF IInv

LEMMA AccumulateIInv ==
  ASSUME IInv, Accumulate
  PROVE  IInv'
<1>1. blocks \in 0..MaxKBlocks-1 /\ psum \in Int /\ acc \in Int /\ exact \in Int
  BY WidthAssumption, WidthsInRange, SignedIsInt DEF IInv, TypeOK, SumsBounded, Accumulate
<1>2. Within(psum, ArrayRows * MaxProduct) /\ Within(acc, blocks * (ArrayRows * MaxProduct))
  BY DEF IInv, SumsBounded, Accumulate
<1>3. /\ acc' = psum + acc
      /\ Within(acc', (blocks + 1) * (ArrayRows * MaxProduct))
      /\ Within(acc', Half(AccumWidth) - 1)
  BY <1>1, <1>2, AccumulationExact DEF Accumulate
<1>4. TypeOK'
  <2>1. acc' \in Signed(AccumWidth)
    BY <1>1, <1>3, InSigned, WidthsInRange
  <2>2. psum' \in Signed(PSumWidth)
    BY HalfIsPositive, WidthsInRange DEF Accumulate, Signed
  <2>3. blocks' \in 0..MaxKBlocks /\ lane' \in 0..ArrayRows
    BY <1>1, WidthAssumption DEF Accumulate
  <2> QED
    BY <2>1, <2>2, <2>3 DEF IInv, TypeOK, Accumulate
<1>5. ExactDotProduct'
  BY <1>1, <1>3 DEF IInv, ExactDotProduct, Accumulate
<1>6. SumsBounded'
  <2>1. 0 * MaxProduct = 0
    BY MaxProductIsNat
  <2> QED
    BY <1>3, <2>1 DEF SumsBounded, Within, Accumulate
<1>7. ResultIsShifted'
  BY DEF IInv, ResultIsShifted, Accumulate
<1> QED
  BY <1>4, <1>5, <1>6, <1>7 DEF IInv

LEMMA RightShifterRange ==
  ASSUME NEW v \in Int, NEW s \in 0..MaxShift
  PROVE  RightShifter(v, s) \in Signed(DataWidth)
<1>1. \A i \in 0..MaxShift : Pow2[i] \in Nat \ {0}
  BY Pow2Assumption
<1>2. ShiftedValue(v, s) \in Int
  BY <1>1 DEF ShiftedValue
<1>3. RoundBit(v, s) \in Int
  <2>1. CASE s = 0 \/ s >= AccumWidth
    BY <2>1 DEF RoundBit
  <2>2. CASE ~(s = 0 \/ s >= AccumWidth)
    <3>1. Pow2[s - 1] \in Nat \ {0}
      BY <1>1, <2>2, WidthAssumption
    <3>2. v \div Pow2[s - 1] \in Int
      BY <3>1, Division
    <3> QED
      BY <2>2, <3>2 DEF RoundBit, Bit
  <2> QED
    BY <2>1, <2>2
<1> QED
  BY <1>2, <1>3, SaturateRange, WidthsInRange DEF RightShifter

LEMMA QuantizeIInv ==
  ASSUME IInv, NEW s \in 0..MaxShift, Quantize(s)
  PROVE  IInv'
<1>1. acc \in Int
  BY WidthsInRange, SignedIsInt DEF IInv, TypeOK
<1>2. TypeOK'
  BY <1>1, RightShifterRange DEF IInv, TypeOK, Quantize
<1>3. ExactDotProduct'
  BY DEF IInv, ExactDotProduct, Quantize
<1>4. psum = 0
  <2>1. 0 * MaxProduct = 0
    BY MaxProductIsNat
  <2> QED
    BY <2>1, WidthsInRange, SignedIsInt DEF IInv, TypeOK, SumsBounded, Within, Quantize
<1>5. SumsBounded'
  BY <1>4 DEF IInv, SumsBounded, Quantize
<1>6. ResultIsShifted'
  BY DEF ResultIsShifted, Quantize
<1> QED
  BY <1>2, <1>3, <1>5, <1>6 DEF IInv

LEMMA IInvHolds == Spec => []IInv
<1>1. IInv /\ [Next]_vars => IInv'
  <2> SUFFICES ASSUME IInv, [Next]_vars PROVE IInv'
    OBVIOUS
  <2>1. CASE UNCHANGED vars
    BY <2>1 DEF vars, IInv, TypeOK, ExactDotProduct, SumsBounded, ResultIsShifted
  <2>2. ASSUME NEW f \in Signed(DataWidth), NEW w \in Signed(DataWidth), MultiplyAdd(f, w)
        PROVE  IInv'
    BY <2>2, MultiplyAddIInv
  <2>3. CASE Accumulate
    BY <2>3, AccumulateIInv
  <2>4. ASSUME NEW s \in 0..MaxShift, Quantize(s) PROVE IInv'
    BY <2>4, QuantizeIInv
  <2> QED
    BY <2>1, <2>2, <2>3, <2>4 DEF Next
<1> QED
  BY <1>1, InitIInv, PTL DEF Spec

(* No width is ever too small: neither the wrapping partial sums nor the   *)
(* saturating accumulator lose anything of a job the registers can express *)
(* (PE.v, Signed_adder.v).                                                 *)
THEOREM DotProductIsExact == Spec => []ExactDotProduct
<1>1. IInv => ExactDotProduct
  BY DEF IInv
<1> QED
  BY <1>1, IInvHolds, PTL

(* Partial sum, accumulator and output byte stay within their widths, and  *)
(* lane, K block and shift within what the registers can express (PE.v,    *)
(* Signed_adder.v, Right_shifter.v).                                       *)
THEOREM LaneTypeCorrect == Spec => []TypeOK
<1>1. IInv => TypeOK
  BY DEF IInv
<1> QED
  BY <1>1, IInvHolds, PTL

-----------------------------------------------------------------------------
(* The quotient *)

(* Adding the highest discarded bit rounds to nearest.                     *)
LEMMA RoundBitRounds ==
  ASSUME NEW v \in Int, NEW h \in Nat \ {0},
         NEW q \in Int, q = (v \div (2 * h)) + ((v \div h) % 2)
  PROVE  /\ 2 * ((2 * h) * q) - (2 * h) <= 2 * v
         /\ 2 * v < (2 * ((2 * h) * q)) + (2 * h)
<1> DEFINE a == v \div (2 * h)
           r == v % (2 * h)
<1>1. 2 * h \in Nat \ {0}
  OBVIOUS
<1>2. a \in Int /\ r \in 0..(2 * h) - 1 /\ v = ((2 * h) * a) + r
  BY <1>1, Division
<1>3. q = a + ((v \div h) % 2)
  OBVIOUS
<1> HIDE DEF a, r
<1>4. (2 * h) * a = h * (2 * a)
  BY <1>2
<1>5. CASE r < h
  <2>1. v \div h = 2 * a
    <3>1. 2 * a \in Int /\ h * (2 * a) \in Int
      BY <1>2
    <3>2. h * (2 * a) <= v /\ v < (h * (2 * a)) + h
      BY <1>2, <1>4, <1>5, <3>1
    <3> QED
      BY <3>1, <3>2, QuotientUnique
  <2>2. (2 * a) % 2 = 0
    BY <1>2
  <2>3. q = a
    BY <1>2, <1>3, <2>1, <2>2
  <2> QED
    BY <1>2, <1>5, <2>3
<1>6. CASE r >= h
  <2>1. v \div h = (2 * a) + 1
    <3>1. (2 * a) + 1 \in Int /\ h * (2 * a) \in Int
      BY <1>2
    <3>2. h * ((2 * a) + 1) = (h * (2 * a)) + h
      BY <1>2
    <3>3. h * ((2 * a) + 1) <= v /\ v < (h * ((2 * a) + 1)) + h
      BY <1>2, <1>4, <1>6, <3>1, <3>2
    <3> QED
      BY <3>1, <3>3, QuotientUnique
  <2>2. ((2 * a) + 1) % 2 = 1
    BY <1>2
  <2>3. q = a + 1
    BY <1>2, <1>3, <2>1, <2>2
  <2>4. (2 * h) * q = ((2 * h) * a) + (2 * h)
    BY <1>2, <2>3
  <2> QED
    BY <1>2, <1>6, <2>4
<1> QED
  BY <1>2, <1>5, <1>6

LEMMA FactorGrows ==
  ASSUME NEW h \in Nat \ {0}, NEW m \in Nat
  PROVE  m <= h * m
<1>1. PICK d \in Nat : h = d + 1
  OBVIOUS
<1>2. h * m = (d * m) + m /\ d * m \in Nat
  BY <1>1
<1> QED
  BY <1>2

(* A rounded quotient is no larger than the number it comes from.          *)
LEMMA RoundedIsSmall ==
  ASSUME NEW h \in Nat \ {0}, NEW top \in Nat \ {0}, NEW q \in Int,
         NEW v \in Int, Within(v, top),
         2 * ((2 * h) * q) - (2 * h) <= 2 * v,
         2 * v < (2 * ((2 * h) * q)) + (2 * h)
  PROVE  q \in -(2 * top) .. (2 * top) - 1
<1>1. -top <= v /\ v <= top
  BY DEF Within
<1>2. CASE q >= 1
  <2>1. h * ((2 * q) - 1) = ((2 * h) * q) - h
    OBVIOUS
  <2>2. (2 * q) - 1 <= h * ((2 * q) - 1)
    BY <1>2, FactorGrows
  <2>3. (2 * h) * q \in Int
    OBVIOUS
  <2>4. (2 * q) - 1 <= top
    BY <1>1, <2>1, <2>2, <2>3
  <2> QED
    BY <1>2, <2>4
<1>3. CASE q = 0
  BY <1>3
<1>4. CASE q <= -1
  <2>1. h * (-(2 * q) - 1) = -((2 * h) * q) - h
    OBVIOUS
  <2>2. -(2 * q) - 1 <= h * (-(2 * q) - 1)
    BY <1>4, FactorGrows
  <2>3. (2 * h) * q \in Int
    OBVIOUS
  <2>4. -(2 * q) - 1 <= top
    BY <1>1, <2>1, <2>2, <2>3
  <2> QED
    BY <1>4, <2>4
<1> QED
  BY <1>2, <1>3, <1>4

LEMMA RightShifterRounds ==
  ASSUME NEW v \in Signed(AccumWidth), NEW s \in 0..AccumWidth-1
  PROVE  \E q \in Signed(AccumWidth + 1) : /\ IsRounded(q, v, s)
                                           /\ RightShifter(v, s) = Saturate(q, DataWidth)
<1> DEFINE q == ShiftedValue(v, s) + RoundBit(v, s)
           top == Half(AccumWidth)
<1>1. s \in 0..MaxShift /\ AccumWidth \in 1..MaxShift
  BY WidthAssumption
<1>2. top \in Nat \ {0} /\ v \in Int /\ Within(v, top)
  BY <1>1, HalfIsPositive DEF Signed, Within
<1>3. Half(AccumWidth + 1) = 2 * top
  BY <1>1, Pow2Assumption, WidthAssumption DEF Half
<1>4. Signed(AccumWidth + 1) = -(2 * top) .. (2 * top) - 1
  BY <1>3 DEF Signed
<1>5. RightShifter(v, s) = Saturate(q, DataWidth)
  BY DEF RightShifter
<1>6. CASE s = 0
  <2>1. Pow2[0] = 1
    BY Pow2Assumption
  <2>2. v \div 1 = v
    BY <1>2
  <2>3. q = v
    BY <1>2, <1>6, <2>1, <2>2 DEF ShiftedValue, RoundBit
  <2>4. IsRounded(v, v, 0)
    BY <1>2, <2>1 DEF IsRounded
  <2>5. v \in -(2 * top) .. (2 * top) - 1
    <3>1. v \in -top .. top - 1
      BY DEF Signed
    <3> HIDE DEF top
    <3> QED
      BY <1>2, <3>1
  <2> QED
    BY <1>4, <1>5, <1>6, <2>3, <2>4, <2>5
<1>7. CASE s # 0
  <2> DEFINE h == Pow2[s - 1]
  <2>1. h \in Nat \ {0} /\ Pow2[s] = 2 * h
    <3>1. s \in 1..MaxShift /\ s - 1 \in 0..MaxShift
      BY <1>1, <1>7, WidthAssumption
    <3> QED
      BY <3>1, Pow2Assumption
  <2>2. q = (v \div (2 * h)) + ((v \div h) % 2)
    <3>1. ~(s >= AccumWidth)
      BY <1>1
    <3>2. RoundBit(v, s) = (v \div h) % 2
      BY <1>7, <3>1 DEF RoundBit, Bit
    <3>3. ShiftedValue(v, s) = v \div (2 * h)
      BY <2>1 DEF ShiftedValue
    <3> QED
      BY <3>2, <3>3
  <2>3. v \div (2 * h) \in Int /\ v \div h \in Int
    <3>1. 2 * h \in Nat \ {0}
      BY <2>1
    <3> QED
      BY <1>2, <2>1, <3>1, Division
  <2>4. q \in Int
    BY <2>2, <2>3
  <2> HIDE DEF h, q
  <2>5. /\ 2 * ((2 * h) * q) - (2 * h) <= 2 * v
        /\ 2 * v < (2 * ((2 * h) * q)) + (2 * h)
    BY <1>2, <2>1, <2>2, <2>4, RoundBitRounds
  <2>6. IsRounded(q, v, s)
    BY <2>1, <2>5 DEF IsRounded
  <2>7. q \in Signed(AccumWidth + 1)
    BY <1>2, <1>4, <2>1, <2>4, <2>5, RoundedIsSmall
  <2> QED
    BY <1>5, <2>6, <2>7
<1> QED
  BY <1>6, <1>7

(* The byte that leaves the lane is the exact sum of products divided by   *)
(* 2^shift, rounded to nearest and saturated (Right_shifter.v).            *)
THEOREM ResultIsRounded == Spec => []ResultRounded
<1>1. IInv => ResultRounded
  <2> SUFFICES ASSUME IInv, done, shift < AccumWidth
               PROVE  \E q \in Signed(AccumWidth + 1) :
                        IsRounded(q, exact, shift) /\ out = Saturate(q, DataWidth)
    BY DEF ResultRounded
  <2>1. acc = exact
    BY WidthsInRange, SignedIsInt DEF IInv, TypeOK, ExactDotProduct, SumsBounded
  <2>2. acc \in Signed(AccumWidth) /\ shift \in 0..AccumWidth-1
    BY WidthAssumption DEF IInv, TypeOK
  <2>3. out = RightShifter(acc, shift)
    BY DEF IInv, ResultIsShifted
  <2> QED
    BY <2>1, <2>2, <2>3, RightShifterRounds
<1> QED
  BY <1>1, IInvHolds, PTL

=============================================================================
