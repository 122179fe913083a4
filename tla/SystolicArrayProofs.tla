------------------------ MODULE SystolicArrayProofs ------------------------
(***************************************************************************)
(* The array computes exact dot products for every size, every set of rows *)
(* and tiles and every spacing of the rows.  IInv says of every register   *)
(* from which row in flight its content comes; a clock moves each content  *)
(* one register on while in_flight moves by one, and a load happens only   *)
(* when no row is in flight.                                               *)
(***************************************************************************)
EXTENDS SystolicArray, SequenceTheorems, TLAPS

LEMMA TupleIsSeq ==
  ASSUME NEW S, NEW n \in Nat, NEW s \in [1..n -> S]
  PROVE  s \in Seq(S) /\ Len(s) = n
<1>1. s \in Seq(S)
  BY SeqDef
<1>2. Len(s) \in Nat /\ DOMAIN s = 1..Len(s)
  BY <1>1, LenProperties
<1> QED
  BY <1>1, <1>2

(* The closed form of a partial sum starts empty ...                       *)
LEMMA PrefixSumZero ==
  ASSUME NEW r, NEW j
  PROVE  PrefixSum(r, j, 0) = << >>
<1>1. PrefixSum(r, j, 0) \in [1..0 -> {}]
  BY DEF PrefixSum
<1>2. PrefixSum(r, j, 0) \in Seq({}) /\ Len(PrefixSum(r, j, 0)) = 0
  BY <1>1, TupleIsSeq
<1> QED
  BY <1>2, EmptySeq

(* ... and grows by one product per array row.                             *)
LEMMA PrefixSumAppend ==
  ASSUME NEW r, NEW j, NEW m \in Nat
  PROVE  PrefixSum(r, j, m + 1)
           = Append(PrefixSum(r, j, m), <<r[m], weight_value[m][j]>>)
<1> DEFINE e(l) == <<r[l - 1], weight_value[l - 1][j]>>
           s == [l \in 1..m |-> e(l)]
<1>1. s = PrefixSum(r, j, m)
  BY DEF PrefixSum
<1>2. s \in Seq({e(l) : l \in 1..m}) /\ Len(s) = m
  <2>1. s \in [1..m -> {e(l) : l \in 1..m}]
    OBVIOUS
  <2> QED
    BY <2>1, TupleIsSeq
<1>3. Append(s, e(m + 1)) = [l \in 1..m + 1 |-> e(l)]
  BY <1>2
<1>4. e(m + 1) = <<r[m], weight_value[m][j]>>
  OBVIOUS
<1> QED
  BY <1>1, <1>3, <1>4 DEF PrefixSum

LEMMA Indices ==
  /\ ArrayRows \in Nat /\ ArrayCols \in Nat /\ ResultLatency \in Nat
  /\ 0 \in Lanes /\ ArrayRows - 1 \in Lanes /\ ArrayCols - 1 \in Columns
  /\ \A i \in Lanes : /\ i \in Nat /\ i < ArrayRows
                      /\ i # 0 => i - 1 \in Lanes
                      /\ Skew(i) \in Nat /\ Skew(i) = 2 * i
  /\ \A j \in Columns : /\ j \in Nat /\ j < ArrayCols
                        /\ j # 0 => j - 1 \in Columns
                        /\ Alignment(j) \in Nat
  /\ Skew(ArrayRows) = 2 * ArrayRows
  /\ ResultLatency = 2 * ArrayRows + ArrayCols
  BY ArrayAssumption DEF ResultLatency, PELatency, Lanes, Columns, Skew, Alignment

LEMMA Stages ==
  ASSUME NEW i \in Lanes, NEW j \in Columns
  PROVE  /\ Skew(i) + j \in 0..ResultLatency-1
         /\ Skew(i) + j + 1 \in 0..ResultLatency-1
         /\ Skew(i) + j + 1 + 1 = Skew(i) + j + 2
  BY ArrayAssumption DEF ResultLatency, PELatency, Lanes, Columns, Skew

(* While rows are in flight the weights stay: after a clock that loads a   *)
(* tile, only the entry of the pipe can hold a row (Drained).              *)
LEMMA WeightsKept ==
  ASSUME NEW r, NEW w \in NextWeights, Clock(r, w),
         NEW d \in 0..ResultLatency-1
  PROVE  /\ in_flight'[d + 1] = in_flight[d]
         /\ in_flight'[d + 1] # Bubble => weight_value' = weight_value
<1>0. d + 1 \in 0..ResultLatency /\ d \in 0..ResultLatency /\ d + 1 # 0 /\ d + 1 - 1 = d
  BY Indices
<1>1. in_flight'[d + 1] = in_flight[d]
  BY <1>0 DEF Clock
<1>2. ASSUME in_flight'[d + 1] # Bubble PROVE weight_value' = weight_value
  <2>1. ~Drained
    BY <1>0, <1>1, <1>2 DEF Drained
  <2> QED
    BY <2>1 DEF NextWeights, Clock
<1> QED
  BY <1>1, <1>2

(* The feature that reaches a processing element entered the array as many *)
(* clocks ago as its skew and its column say.                              *)
LEMMA FeatureInIs ==
  ASSUME FeatureInv, NEW i \in Lanes, NEW j \in Columns
  PROVE  FeatureIn(i, j) = in_flight[Skew(i) + j][i]
<1>1. RowInput(i) = in_flight[Skew(i)][i]
  <2>1. CASE i = 0
    BY <2>1, Indices DEF RowInput, FeatureVector
  <2>2. CASE i # 0
    <3>1. Skew(i) - 1 \in 0..Skew(i)-1 /\ Skew(i) - 1 + 1 = Skew(i)
      BY <2>2, Indices
    <3> QED
      BY <2>2, <3>1 DEF RowInput, FeatureInv
  <2> QED
    BY <2>1, <2>2
<1>2. CASE j = 0
  BY <1>1, <1>2, Indices DEF FeatureIn
<1>3. CASE j # 0
  <2>1. j - 1 \in Columns /\ Skew(i) + (j - 1) + 1 = Skew(i) + j
    BY <1>3, Indices
  <2> QED
    BY <1>3, <2>1 DEF FeatureIn, FeatureInv
<1> QED
  BY <1>2, <1>3

-----------------------------------------------------------------------------
(* A clock preserves each part of IInv. *)

LEMMA FeatureStep ==
  ASSUME FeatureInv, NEW r, NEW w \in NextWeights, Clock(r, w)
  PROVE  FeatureInv'
<1> SUFFICES ASSUME NEW i \in Lanes
             PROVE  /\ \A d \in 0..Skew(i)-1 : feature_delay'[i][d] = in_flight'[d + 1][i]
                    /\ \A j \in Columns :
                         feature_value'[i][j] = in_flight'[Skew(i) + j + 1][i]
  BY DEF FeatureInv, Skew, PELatency, Lanes, Columns
<1>1. ASSUME NEW d \in 0..Skew(i)-1
      PROVE  feature_delay'[i][d] = in_flight'[d + 1][i]
  <2>1. in_flight'[d + 1] = in_flight[d]
    <3>1. d \in 0..ResultLatency-1
      BY Indices
    <3> QED
      BY <3>1, WeightsKept
  <2>2. feature_delay'[i][d] = IF d = 0 THEN FeatureVector[i] ELSE feature_delay[i][d - 1]
    BY DEF Clock
  <2>3. ASSUME d # 0 PROVE feature_delay[i][d - 1] = in_flight[d][i]
    <3>1. d - 1 \in 0..Skew(i)-1 /\ d - 1 + 1 = d
      BY <2>3, Indices
    <3> QED
      BY <3>1 DEF FeatureInv
  <2> QED
    BY <2>1, <2>2, <2>3 DEF FeatureVector
<1>2. ASSUME NEW j \in Columns
      PROVE  feature_value'[i][j] = in_flight'[Skew(i) + j + 1][i]
  <2>1. in_flight'[Skew(i) + j + 1] = in_flight[Skew(i) + j]
    BY Stages, WeightsKept
  <2>2. feature_value'[i][j] = FeatureIn(i, j)
    BY DEF Clock
  <2> QED
    BY <2>1, <2>2, FeatureInIs
<1> QED
  BY <1>1, <1>2

LEMMA ProductStep ==
  ASSUME FeatureInv, NEW r, NEW w \in NextWeights, Clock(r, w)
  PROVE  ProductInv'
<1> SUFFICES ASSUME NEW i \in Lanes, NEW j \in Columns,
                    in_flight'[Skew(i) + j + 1] # Bubble
             PROVE  product'[i][j]
                      = <<in_flight'[Skew(i) + j + 1][i], weight_value'[i][j]>>
  BY DEF ProductInv, Skew, PELatency, Lanes, Columns
<1>1. /\ in_flight'[Skew(i) + j + 1] = in_flight[Skew(i) + j]
      /\ weight_value' = weight_value
  BY Stages, WeightsKept
<1>2. product'[i][j] = <<FeatureIn(i, j), weight_value[i][j]>>
  BY DEF Clock
<1> QED
  BY <1>1, <1>2, FeatureInIs

LEMMA PartialSumStep ==
  ASSUME ProductInv, PartialSumInv, NEW r, NEW w \in NextWeights, Clock(r, w)
  PROVE  PartialSumInv'
<1> SUFFICES ASSUME NEW i \in Lanes, NEW j \in Columns
             PROVE  /\ in_flight'[Skew(i) + j + 1] # Bubble =>
                         partial_sum_d1'[i][j]
                           = PrefixSum(in_flight[Skew(i) + j + 1], j, i)'
                    /\ in_flight'[Skew(i) + j + 2] # Bubble =>
                         partial_sum'[i][j]
                           = PrefixSum(in_flight[Skew(i) + j + 2], j, i + 1)'
  BY DEF PartialSumInv, Skew, PELatency, Lanes, Columns
<1>1. ASSUME in_flight'[Skew(i) + j + 1] # Bubble
      PROVE  partial_sum_d1'[i][j] = PrefixSum(in_flight[Skew(i) + j + 1], j, i)'
  <2>1. /\ in_flight'[Skew(i) + j + 1] = in_flight[Skew(i) + j]
        /\ weight_value' = weight_value
    BY <1>1, Stages, WeightsKept
  <2>2. PartialSumIn(i, j) = PrefixSum(in_flight[Skew(i) + j], j, i)
    <3>1. CASE i = 0
      BY <3>1, PrefixSumZero DEF PartialSumIn
    <3>2. CASE i # 0
      <4>1. i - 1 \in Lanes /\ Skew(i - 1) + j + 2 = Skew(i) + j /\ i - 1 + 1 = i
        BY <3>2, ArrayAssumption DEF PELatency, Lanes, Columns, Skew
      <4>2. partial_sum[i - 1][j] = PrefixSum(in_flight[Skew(i) + j], j, i)
        BY <4>1, <1>1, <2>1 DEF PartialSumInv
      <4> QED
        BY <3>2, <4>2 DEF PartialSumIn
    <3> QED
      BY <3>1, <3>2
  <2>3. partial_sum_d1'[i][j] = PartialSumIn(i, j)
    BY DEF Clock
  <2> QED
    BY <2>1, <2>2, <2>3 DEF PrefixSum
<1>2. ASSUME in_flight'[Skew(i) + j + 2] # Bubble
      PROVE  partial_sum'[i][j] = PrefixSum(in_flight[Skew(i) + j + 2], j, i + 1)'
  <2>1. /\ in_flight'[Skew(i) + j + 2] = in_flight[Skew(i) + j + 1]
        /\ weight_value' = weight_value
    BY <1>2, Stages, WeightsKept
  <2> DEFINE q == in_flight[Skew(i) + j + 1]
  <2>2. partial_sum'[i][j] = Append(partial_sum_d1[i][j], product[i][j])
    BY DEF Clock
  <2>3. /\ partial_sum_d1[i][j] = PrefixSum(q, j, i)
        /\ product[i][j] = <<q[i], weight_value[i][j]>>
    BY <1>2, <2>1 DEF PartialSumInv, ProductInv
  <2>4. partial_sum'[i][j] = PrefixSum(q, j, i + 1)
    BY <2>2, <2>3, PrefixSumAppend, Indices
  <2> QED
    BY <2>1, <2>4 DEF PrefixSum
<1> QED
  BY <1>1, <1>2

(* What the bottom array row hands to the output alignment.                *)
LEMMA BottomSumIs ==
  ASSUME PartialSumInv, NEW j \in Columns, in_flight[Skew(ArrayRows) + j] # Bubble
  PROVE  BottomSum(j) = PrefixSum(in_flight[Skew(ArrayRows) + j], j, ArrayRows)
<1>1. /\ ArrayRows - 1 \in Lanes
      /\ Skew(ArrayRows - 1) + j + 2 = Skew(ArrayRows) + j
      /\ ArrayRows - 1 + 1 = ArrayRows
  BY ArrayAssumption DEF PELatency, Lanes, Columns, Skew
<1> QED
  BY <1>1 DEF PartialSumInv, BottomSum

LEMMA AlignmentStep ==
  ASSUME PartialSumInv, AlignmentInv, NEW r, NEW w \in NextWeights, Clock(r, w)
  PROVE  AlignmentInv'
<1> SUFFICES ASSUME NEW j \in Columns, NEW d \in 0..Alignment(j)-1,
                    in_flight'[Skew(ArrayRows) + j + d + 1] # Bubble
             PROVE  output_delay'[j][d]
                      = PrefixSum(in_flight[Skew(ArrayRows) + j + d + 1], j, ArrayRows)'
  BY DEF AlignmentInv, Alignment, Skew, PELatency, Columns
<1> DEFINE q == in_flight[Skew(ArrayRows) + j + d]
<1>1. Skew(ArrayRows) + j + d \in 0..ResultLatency-1
  BY ArrayAssumption DEF Alignment, Skew, PELatency, ResultLatency, Columns
<1>2. in_flight'[Skew(ArrayRows) + j + d + 1] = q /\ weight_value' = weight_value
  BY <1>1, WeightsKept
<1>3. output_delay'[j][d] = IF d = 0 THEN BottomSum(j) ELSE output_delay[j][d - 1]
  BY DEF Clock
<1>4. output_delay'[j][d] = PrefixSum(q, j, ArrayRows)
  <2>1. CASE d = 0
    <3>1. Skew(ArrayRows) + j + d = Skew(ArrayRows) + j
      BY <2>1, Indices
    <3> QED
      BY <1>2, <1>3, <2>1, <3>1, BottomSumIs
  <2>2. CASE d # 0
    <3>1. /\ d - 1 \in 0..Alignment(j)-1
          /\ Skew(ArrayRows) + j + (d - 1) + 1 = Skew(ArrayRows) + j + d
      BY <2>2, Indices
    <3> QED
      BY <1>2, <1>3, <2>2, <3>1 DEF AlignmentInv
  <2> QED
    BY <2>1, <2>2
<1> QED
  BY <1>2, <1>4 DEF PrefixSum

LEMMA ExactStep ==
  ASSUME PartialSumInv, AlignmentInv, NEW r, NEW w \in NextWeights, Clock(r, w)
  PROVE  PartialSumsExact'
<1> SUFFICES ASSUME in_flight'[ResultLatency] # Bubble, NEW j \in Columns
             PROVE  data_out'[j] = PrefixSum(in_flight[ResultLatency], j, ArrayRows)'
  BY DEF PartialSumsExact, ResultLatency, PELatency, Columns
<1> DEFINE q == in_flight[ResultLatency - 1]
<1>1. ResultLatency - 1 \in 0..ResultLatency-1 /\ ResultLatency - 1 + 1 = ResultLatency
  BY ArrayAssumption DEF ResultLatency, PELatency
<1>2. in_flight'[ResultLatency] = q /\ weight_value' = weight_value
  BY <1>1, WeightsKept
<1>3. data_out'[j] = AlignedSum(j)
  BY DEF Clock
<1>4. AlignedSum(j) = PrefixSum(q, j, ArrayRows)
  <2>1. CASE j = ArrayCols - 1
    <3>1. Skew(ArrayRows) + j = ResultLatency - 1
      BY <2>1, Indices
    <3> QED
      BY <1>2, <2>1, <3>1, BottomSumIs DEF AlignedSum
  <2>2. CASE j # ArrayCols - 1
    <3>1. /\ Alignment(j) - 1 \in 0..Alignment(j)-1
          /\ Skew(ArrayRows) + j + (Alignment(j) - 1) + 1 = ResultLatency - 1
      BY <2>2, ArrayAssumption DEF Alignment, Skew, PELatency, ResultLatency, Columns
    <3> QED
      BY <1>2, <2>2, <3>1 DEF AlignedSum, AlignmentInv
  <2> QED
    BY <2>1, <2>2
<1> QED
  BY <1>2, <1>3, <1>4 DEF PrefixSum

-----------------------------------------------------------------------------
(* The theorems. *)

LEMMA InitIInv == Init => IInv
<1> SUFFICES ASSUME Init PROVE IInv
  OBVIOUS
<1>1. \A d \in 0..ResultLatency : in_flight[d] = Bubble
  BY DEF Init
<1>2. FeatureInv
  <2>1. ASSUME NEW i \in Lanes, NEW d \in 0..Skew(i)-1
        PROVE  d + 1 \in 0..ResultLatency
    BY Indices
  <2>2. ASSUME NEW i \in Lanes, NEW j \in Columns
        PROVE  Skew(i) + j + 1 \in 0..ResultLatency
    BY ArrayAssumption DEF ResultLatency, PELatency, Lanes, Columns, Skew
  <2> QED
    BY <1>1, <2>1, <2>2 DEF FeatureInv, Init
<1>3. ProductInv /\ PartialSumInv
  <2>1. ASSUME NEW i \in Lanes, NEW j \in Columns
        PROVE  /\ Skew(i) + j + 1 \in 0..ResultLatency
               /\ Skew(i) + j + 2 \in 0..ResultLatency
    BY ArrayAssumption DEF ResultLatency, PELatency, Lanes, Columns, Skew
  <2> QED
    BY <1>1, <2>1 DEF ProductInv, PartialSumInv
<1>4. AlignmentInv
  <2>1. ASSUME NEW j \in Columns, NEW d \in 0..Alignment(j)-1
        PROVE  Skew(ArrayRows) + j + d + 1 \in 0..ResultLatency
    BY ArrayAssumption DEF Alignment, Skew, PELatency, ResultLatency, Columns
  <2> QED
    BY <1>1, <2>1 DEF AlignmentInv
<1>5. PartialSumsExact
  BY <1>1, Indices DEF PartialSumsExact
<1> QED
  BY <1>2, <1>3, <1>4, <1>5 DEF IInv

LEMMA NextIInv == IInv /\ [Next]_vars => IInv'
<1> SUFFICES ASSUME IInv, [Next]_vars PROVE IInv'
  OBVIOUS
<1>1. CASE Next
  <2> PICK r \in Rows \cup {Bubble}, w \in NextWeights : Clock(r, w)
    BY <1>1 DEF Next
  <2>1. FeatureInv'
    BY FeatureStep DEF IInv
  <2>2. ProductInv'
    BY ProductStep DEF IInv
  <2>3. PartialSumInv'
    BY PartialSumStep DEF IInv
  <2>4. AlignmentInv'
    BY AlignmentStep DEF IInv
  <2>5. PartialSumsExact'
    BY ExactStep DEF IInv
  <2> QED
    BY <2>1, <2>2, <2>3, <2>4, <2>5 DEF IInv
<1>2. CASE UNCHANGED vars
  <2> USE <1>2 DEF vars
  <2>1. FeatureInv' /\ ProductInv'
    BY DEF IInv, FeatureInv, ProductInv, Lanes, Columns, Skew, PELatency
  <2>2. PartialSumInv'
    <3> SUFFICES ASSUME NEW i \in Lanes, NEW j \in Columns
                 PROVE  /\ in_flight'[Skew(i) + j + 1] # Bubble =>
                             partial_sum_d1'[i][j]
                               = PrefixSum(in_flight[Skew(i) + j + 1], j, i)'
                        /\ in_flight'[Skew(i) + j + 2] # Bubble =>
                             partial_sum'[i][j]
                               = PrefixSum(in_flight[Skew(i) + j + 2], j, i + 1)'
      BY DEF PartialSumInv, Skew, PELatency, Lanes, Columns
    <3>1. /\ PrefixSum(in_flight[Skew(i) + j + 1], j, i)'
               = PrefixSum(in_flight[Skew(i) + j + 1], j, i)
          /\ PrefixSum(in_flight[Skew(i) + j + 2], j, i + 1)'
               = PrefixSum(in_flight[Skew(i) + j + 2], j, i + 1)
      BY DEF PrefixSum
    <3> QED
      BY <3>1 DEF IInv, PartialSumInv
  <2>3. AlignmentInv'
    BY DEF IInv, AlignmentInv, PrefixSum, Columns, Alignment, Skew, PELatency
  <2>4. PartialSumsExact'
    BY DEF IInv, PartialSumsExact, PrefixSum, Columns, ResultLatency, PELatency
  <2> QED
    BY <2>1, <2>2, <2>3, <2>4 DEF IInv
<1> QED
  BY <1>1, <1>2

(* For every array size, whatever rows are streamed with whatever gaps and *)
(* tiles loaded between them: the sum that leaves the array with a row's   *)
(* valid flag is that row's complete dot product with the loaded tile      *)
(* (PE_array.v and Gemm_compute_core.v).                                   *)
THEOREM ArrayComputesExactSums == Spec => []PartialSumsExact
<1>1. IInv => PartialSumsExact
  BY DEF IInv
<1> QED
  BY <1>1, InitIInv, NextIInv, PTL DEF Spec

-----------------------------------------------------------------------------
(* Type correctness. *)

LEMMA InitTypeOK == Init => TypeOK
<1> SUFFICES ASSUME Init PROVE TypeOK
  OBVIOUS
<1>1. Bubble \in [Lanes -> Features]
  BY RowsAssumption
<1>2. NoTile \in [Lanes -> [Columns -> Weights]]
  BY TilesAssumption
<1>3. << >> \in Seq(Features \X Weights) /\ Len(<< >>) = 0
  BY EmptySeq
<1>4. /\ in_flight \in [0..ResultLatency -> Rows \cup {Bubble}]
      /\ weight_value \in [Lanes -> [Columns -> Weights]]
  BY <1>2 DEF Init
<1>5. /\ \A i \in Lanes : feature_delay[i] \in [0..Skew(i)-1 -> Features]
      /\ feature_value \in [Lanes -> [Columns -> Features]]
      /\ product \in [Lanes -> [Columns -> Features \X Weights]]
  BY <1>1, <1>2 DEF Init
<1>6. \A i \in Lanes, j \in Columns :
        /\ partial_sum_d1[i][j] = << >> /\ partial_sum[i][j] = << >>
        /\ 0 <= i /\ 0 <= i + 1
  BY Indices DEF Init
<1>7. \A j \in Columns :
        /\ output_delay[j] \in [0..Alignment(j)-1 -> Seq(Features \X Weights)]
        /\ data_out[j] \in Seq(Features \X Weights)
  BY <1>3 DEF Init
<1> QED
  BY <1>3, <1>4, <1>5, <1>6, <1>7 DEF TypeOK

LEMMA WireTypes ==
  ASSUME TypeOK
  PROVE  /\ FeatureVector \in [Lanes -> Features]
         /\ \A i \in Lanes, j \in Columns :
              /\ FeatureIn(i, j) \in Features
              /\ PartialSumIn(i, j) \in Seq(Features \X Weights)
              /\ Len(PartialSumIn(i, j)) <= i
         /\ \A j \in Columns : /\ BottomSum(j) \in Seq(Features \X Weights)
                               /\ AlignedSum(j) \in Seq(Features \X Weights)
<1>1. FeatureVector \in [Lanes -> Features]
  BY RowsAssumption, Indices DEF TypeOK, FeatureVector
<1>2. ASSUME NEW i \in Lanes, NEW j \in Columns
      PROVE  FeatureIn(i, j) \in Features
  <2>1. RowInput(i) \in Features
    <3>1. CASE i = 0
      BY <1>1, <3>1 DEF RowInput
    <3>2. CASE i # 0
      <4>1. Skew(i) - 1 \in 0..Skew(i)-1
        BY <3>2, Indices
      <4> QED
        BY <3>2, <4>1 DEF RowInput, TypeOK
    <3> QED
      BY <3>1, <3>2
  <2> QED
    BY <2>1, Indices DEF FeatureIn, TypeOK
<1>3. ASSUME NEW i \in Lanes, NEW j \in Columns
      PROVE  /\ PartialSumIn(i, j) \in Seq(Features \X Weights)
             /\ Len(PartialSumIn(i, j)) <= i
  <2>1. CASE i = 0
    BY <2>1, EmptySeq DEF PartialSumIn
  <2>2. CASE i # 0
    <3>1. i - 1 \in Lanes /\ i - 1 + 1 = i
      BY <2>2, Indices
    <3>2. /\ partial_sum[i - 1][j] \in Seq(Features \X Weights)
          /\ Len(partial_sum[i - 1][j]) <= i
      BY <3>1 DEF TypeOK
    <3> QED
      BY <2>2, <3>2 DEF PartialSumIn
  <2> QED
    BY <2>1, <2>2
<1>4. ASSUME NEW j \in Columns
      PROVE  /\ BottomSum(j) \in Seq(Features \X Weights)
             /\ AlignedSum(j) \in Seq(Features \X Weights)
  <2>1. BottomSum(j) \in Seq(Features \X Weights)
    BY Indices DEF BottomSum, TypeOK
  <2>2. ASSUME j # ArrayCols - 1 PROVE Alignment(j) - 1 \in 0..Alignment(j)-1
    BY <2>2, ArrayAssumption DEF Alignment, Columns
  <2> QED
    BY <2>1, <2>2 DEF AlignedSum, TypeOK
<1> QED
  BY <1>1, <1>2, <1>3, <1>4

LEMMA ClockTypeOK ==
  ASSUME TypeOK, NEW r \in Rows \cup {Bubble}, NEW w \in NextWeights, Clock(r, w)
  PROVE  TypeOK'
<1>1. in_flight' \in [0..ResultLatency -> Rows \cup {Bubble}]
  <2>1. ASSUME NEW d \in 0..ResultLatency, d # 0
        PROVE  d - 1 \in 0..ResultLatency
    BY <2>1, Indices
  <2> QED
    BY <2>1 DEF TypeOK, Clock
<1>2. weight_value' \in [Lanes -> [Columns -> Weights]]
  BY TilesAssumption DEF TypeOK, Clock, NextWeights
<1>3. ASSUME NEW i \in Lanes
      PROVE  feature_delay'[i] \in [0..Skew(i)-1 -> Features]
  <2>1. ASSUME NEW d \in 0..Skew(i)-1, d # 0
        PROVE  d - 1 \in 0..Skew(i)-1
    BY <2>1, Indices
  <2>2. feature_delay'[i] = [d \in 0..Skew(i)-1 |->
                               IF d = 0 THEN FeatureVector[i] ELSE feature_delay[i][d - 1]]
    BY DEF Clock
  <2>3. ASSUME NEW d \in 0..Skew(i)-1
        PROVE  (IF d = 0 THEN FeatureVector[i] ELSE feature_delay[i][d - 1]) \in Features
    BY <2>1, WireTypes DEF TypeOK
  <2> QED
    BY <2>2, <2>3
<1>4. /\ feature_value' \in [Lanes -> [Columns -> Features]]
      /\ product' \in [Lanes -> [Columns -> Features \X Weights]]
  BY WireTypes DEF TypeOK, Clock
<1>5. ASSUME NEW i \in Lanes, NEW j \in Columns
      PROVE  /\ partial_sum_d1'[i][j] \in Seq(Features \X Weights)
             /\ partial_sum'[i][j] \in Seq(Features \X Weights)
             /\ Len(partial_sum_d1'[i][j]) <= i
             /\ Len(partial_sum'[i][j]) <= i + 1
  <2>1. /\ partial_sum_d1'[i][j] = PartialSumIn(i, j)
        /\ partial_sum'[i][j] = Append(partial_sum_d1[i][j], product[i][j])
    BY DEF Clock
  <2>2. /\ partial_sum_d1[i][j] \in Seq(Features \X Weights)
        /\ Len(partial_sum_d1[i][j]) <= i
        /\ product[i][j] \in Features \X Weights
    BY DEF TypeOK
  <2>3. /\ Append(partial_sum_d1[i][j], product[i][j]) \in Seq(Features \X Weights)
        /\ Len(Append(partial_sum_d1[i][j], product[i][j])) = Len(partial_sum_d1[i][j]) + 1
    BY <2>2
  <2>4. Len(partial_sum_d1[i][j]) \in Nat /\ i \in Nat
    BY <2>2, LenProperties, Indices
  <2>5. Len(partial_sum'[i][j]) <= i + 1
    BY <2>1, <2>2, <2>3, <2>4
  <2>6. /\ PartialSumIn(i, j) \in Seq(Features \X Weights)
        /\ Len(PartialSumIn(i, j)) <= i
    BY WireTypes
  <2> QED
    BY <2>1, <2>3, <2>5, <2>6
<1>6. ASSUME NEW j \in Columns
      PROVE  /\ output_delay'[j] \in [0..Alignment(j)-1 -> Seq(Features \X Weights)]
             /\ data_out'[j] \in Seq(Features \X Weights)
  <2>1. ASSUME NEW d \in 0..Alignment(j)-1, d # 0
        PROVE  d - 1 \in 0..Alignment(j)-1
    BY <2>1, Indices
  <2>2. /\ output_delay'[j] = [d \in 0..Alignment(j)-1 |->
                                 IF d = 0 THEN BottomSum(j) ELSE output_delay[j][d - 1]]
        /\ data_out'[j] = AlignedSum(j)
    BY DEF Clock
  <2>3. ASSUME NEW d \in 0..Alignment(j)-1
        PROVE  (IF d = 0 THEN BottomSum(j) ELSE output_delay[j][d - 1])
                 \in Seq(Features \X Weights)
    BY <2>1, WireTypes DEF TypeOK
  <2> QED
    BY <2>2, <2>3, WireTypes
<1> QED
  BY <1>1, <1>2, <1>3, <1>4, <1>5, <1>6
  DEF TypeOK, Lanes, Columns, Skew, Alignment, PELatency, ResultLatency

(* Type correctness, with the reach of every partial sum (PE.v).           *)
THEOREM TypeCorrect == Spec => []TypeOK
<1>1. TypeOK /\ UNCHANGED vars => TypeOK'
  BY DEF TypeOK, vars, Lanes, Columns, Skew, Alignment, PELatency, ResultLatency
<1>2. TypeOK /\ [Next]_vars => TypeOK'
  BY <1>1, ClockTypeOK DEF Next
<1> QED
  BY <1>2, InitTypeOK, PTL DEF Spec

=============================================================================
