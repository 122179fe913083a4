---------------------------- MODULE SystolicArray ----------------------------
(***************************************************************************)
(* rtl/PE.v, PE_row.v and PE_array.v inside rtl/Gemm_compute_core.v: the   *)
(* weight-stationary array that BufferFeeder treats as a delay line.       *)
(*                                                                         *)
(* Lane i of a feature row is delayed by 2 * i clocks before it enters     *)
(* array row i, moves one processing element to the right per clock, and   *)
(* column j of the output is delayed by ArrayCols - 1 - j clocks, so that  *)
(* all columns of one feature row leave together, when its valid flag does.*)
(*                                                                         *)
(* A product is the pair <<feature value, weight>>, a partial sum the      *)
(* sequence of the products added to it: a product that is missing, of     *)
(* another row, lane or tile, or added twice is visible.                   *)
(***************************************************************************)
EXTENDS Integers, Sequences

CONSTANTS
  ArrayRows,   \* P_ARRAY_ROWS
  ArrayCols,   \* P_ARRAY_COLS
  Features,    \* values of a feature lane
  Weights,     \* values of a weight
  Rows,        \* the feature rows that may be streamed
  Tiles,       \* the weight tiles that may be loaded
  Bubble,      \* what enters the array on a clock without a valid row
  NoTile       \* the weights after reset

Lanes == 0..ArrayRows-1
Columns == 0..ArrayCols-1

ASSUME ArrayAssumption == ArrayRows \in Nat \ {0} /\ ArrayCols \in Nat \ {0}
ASSUME RowsAssumption == /\ Rows \subseteq [Lanes -> Features]
                         /\ Bubble \in [Lanes -> Features] \ Rows
ASSUME TilesAssumption == /\ Tiles \subseteq [Lanes -> [Columns -> Weights]]
                          /\ NoTile \in [Lanes -> [Columns -> Weights]]

VARIABLES
  in_flight,      \* r_result_valid_pipe, naming the row whose flag it carries
  weight_value,   \* r_weight_value of every processing element
  feature_delay,  \* r_feature_delay, the skew in front of array row i
  feature_value,  \* o_feature_value
  product,        \* w_product_raw, the registered output of the multiplier
  partial_sum_d1, \* r_partial_sum_d1
  partial_sum,    \* o_partial_sum
  output_delay,   \* r_output_delay, the alignment behind column j
  data_out        \* data_out_reg1

vars == <<in_flight, weight_value, feature_delay, feature_value, product,
          partial_sum_d1, partial_sum, output_delay, data_out>>

\* LP_PE_TOTAL_LATENCY and LP_RESULT_LATENCY.
PELatency == 2
ResultLatency == PELatency * ArrayRows + ArrayCols

\* The registers of the skew of array row i and of the alignment of column j.
Skew(i) == PELatency * i
Alignment(j) == ArrayCols - 1 - j

Init ==
  /\ in_flight = [d \in 0..ResultLatency |-> Bubble]
  /\ weight_value = NoTile
  /\ feature_delay = [i \in Lanes |-> [d \in 0..Skew(i)-1 |-> Bubble[i]]]
  /\ feature_value = [i \in Lanes |-> [j \in Columns |-> Bubble[i]]]
  /\ product = [i \in Lanes |-> [j \in Columns |-> <<Bubble[i], NoTile[i][j]>>]]
  /\ partial_sum_d1 = [i \in Lanes |-> [j \in Columns |-> << >>]]
  /\ partial_sum = [i \in Lanes |-> [j \in Columns |-> << >>]]
  /\ output_delay = [j \in Columns |-> [d \in 0..Alignment(j)-1 |-> << >>]]
  /\ data_out = [j \in Columns |-> << >>]

-----------------------------------------------------------------------------
(* Wires *)

\* i_feature_vector: feature_in_reg1 holds the row whose flag entered last.
FeatureVector == in_flight[0]

\* i_feature_value of array row i.
RowInput(i) == IF i = 0 THEN FeatureVector[0] ELSE feature_delay[i][Skew(i) - 1]

FeatureIn(i, j) == IF j = 0 THEN RowInput(i) ELSE feature_value[i][j - 1]

\* Mutant: a processing element adds to its own sum.
PartialSumInOwn(i, j) == partial_sum[i][j]

PartialSumIn(i, j) == IF i = 0 THEN << >> ELSE partial_sum[i - 1][j]

\* w_partial_sum_aligned, and o_partial_sum_vector behind the alignment.
BottomSum(j) == partial_sum[ArrayRows - 1][j]
AlignedSum(j) == IF j = ArrayCols - 1 THEN BottomSum(j)
                                      ELSE output_delay[j][Alignment(j) - 1]

-----------------------------------------------------------------------------
(* Registers *)

Drained == \A d \in 0..ResultLatency : in_flight[d] = Bubble

\* Mutant: a tile may be loaded while rows are in the array.
NextWeightsAnytime == {weight_value} \cup Tiles

\* The processing elements keep their weights or all take those of one tile;
\* the feeder loads a tile only after the last row has left the array.
NextWeights == {weight_value} \cup (IF Drained THEN Tiles ELSE {})

\* r is the row that comes with a valid flag on this clock, or Bubble; w is
\* what the weights become.
Clock(r, w) ==
  /\ in_flight' = [d \in 0..ResultLatency |-> IF d = 0 THEN r ELSE in_flight[d - 1]]
  /\ weight_value' = w
  /\ feature_delay' = [i \in Lanes |-> [d \in 0..Skew(i)-1 |->
                         IF d = 0 THEN FeatureVector[i] ELSE feature_delay[i][d - 1]]]
  /\ feature_value' = [i \in Lanes |-> [j \in Columns |-> FeatureIn(i, j)]]
  /\ product' = [i \in Lanes |-> [j \in Columns |->
                   <<FeatureIn(i, j), weight_value[i][j]>>]]
  /\ partial_sum_d1' = [i \in Lanes |-> [j \in Columns |-> PartialSumIn(i, j)]]
  /\ partial_sum' = [i \in Lanes |-> [j \in Columns |->
                       Append(partial_sum_d1[i][j], product[i][j])]]
  /\ output_delay' = [j \in Columns |-> [d \in 0..Alignment(j)-1 |->
                        IF d = 0 THEN BottomSum(j) ELSE output_delay[j][d - 1]]]
  /\ data_out' = [j \in Columns |-> AlignedSum(j)]

Next == \E r \in Rows \cup {Bubble}, w \in NextWeights : Clock(r, w)

Spec == Init /\ [][Next]_vars

-----------------------------------------------------------------------------
(* Properties *)

\* The first m products of row r in column j, in lane order.
PrefixSum(r, j, m) == [l \in 1..m |-> <<r[l - 1], weight_value[l - 1][j]>>]

(* Every register of the array holds a value of its kind; the reach of a   *)
(* partial sum never exceeds the array row it has passed (PE.v: its width  *)
(* is that of ArrayRows products).                                         *)
TypeOK ==
  /\ in_flight \in [0..ResultLatency -> Rows \cup {Bubble}]
  /\ weight_value \in [Lanes -> [Columns -> Weights]]
  /\ \A i \in Lanes : feature_delay[i] \in [0..Skew(i)-1 -> Features]
  /\ feature_value \in [Lanes -> [Columns -> Features]]
  /\ product \in [Lanes -> [Columns -> Features \X Weights]]
  /\ \A i \in Lanes, j \in Columns :
       /\ partial_sum_d1[i][j] \in Seq(Features \X Weights)
       /\ partial_sum[i][j] \in Seq(Features \X Weights)
       /\ Len(partial_sum_d1[i][j]) <= i
       /\ Len(partial_sum[i][j]) <= i + 1
  /\ \A j \in Columns :
       /\ output_delay[j] \in [0..Alignment(j)-1 -> Seq(Features \X Weights)]
       /\ data_out[j] \in Seq(Features \X Weights)

(* When the valid flag of a row leaves the pipe, every column of the output*)
(* is the complete dot product of this row with the loaded tile: skew,     *)
(* multiplier latency and output alignment cancel out, for every size of   *)
(* the array and every spacing of the rows (PE_array.v, o_partial_valid of *)
(* Gemm_compute_core.v).                                                   *)
PartialSumsExact ==
  in_flight[ResultLatency] # Bubble =>
    \A j \in Columns : data_out[j] = PrefixSum(in_flight[ResultLatency], j, ArrayRows)

-----------------------------------------------------------------------------
(* The inductive strengthening: where each register's content came from.   *)

FeatureInv ==
  \A i \in Lanes :
    /\ \A d \in 0..Skew(i)-1 : feature_delay[i][d] = in_flight[d + 1][i]
    /\ \A j \in Columns : feature_value[i][j] = in_flight[Skew(i) + j + 1][i]

ProductInv ==
  \A i \in Lanes, j \in Columns :
    in_flight[Skew(i) + j + 1] # Bubble =>
      product[i][j] = <<in_flight[Skew(i) + j + 1][i], weight_value[i][j]>>

PartialSumInv ==
  \A i \in Lanes, j \in Columns :
    /\ in_flight[Skew(i) + j + 1] # Bubble =>
         partial_sum_d1[i][j] = PrefixSum(in_flight[Skew(i) + j + 1], j, i)
    /\ in_flight[Skew(i) + j + 2] # Bubble =>
         partial_sum[i][j] = PrefixSum(in_flight[Skew(i) + j + 2], j, i + 1)

AlignmentInv ==
  \A j \in Columns : \A d \in 0..Alignment(j)-1 :
    in_flight[Skew(ArrayRows) + j + d + 1] # Bubble =>
      output_delay[j][d] = PrefixSum(in_flight[Skew(ArrayRows) + j + d + 1], j, ArrayRows)

(* IInv is inductive; PartialSumsExact alone is not.                       *)
IInv == /\ FeatureInv /\ ProductInv
        /\ PartialSumInv /\ AlignmentInv /\ PartialSumsExact

=============================================================================
