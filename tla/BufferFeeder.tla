---------------------------- MODULE BufferFeeder ----------------------------
(***************************************************************************)
(* rtl/Buffer_feeder.v with rtl/Gemm_compute_core.v: the scheduler of one  *)
(* K block.  It stores the replayed features and weights, then for each N  *)
(* block shifts ArraySize weight words into the tile register, loads them  *)
(* into the processing elements and streams all feature rows through the   *)
(* array; the last row of the last N block ends the K block.               *)
(*                                                                         *)
(* The processing-element array is a delay line here: a feature row enters *)
(* with the weights held by the processing elements and leaves, as one     *)
(* partial sum <<row, tile>>, ResultLatency + 1 clocks later together with *)
(* its valid and last flags.                                               *)
(***************************************************************************)
EXTENDS InputBuffer, Sequences

VARIABLES
  bf_state,          \* state: IDLE, SET_WEIGHT, SET_FEATURE
  start,
  weight_loaded_d1,  \* r_weight_loaded_d1
  w_end,             \* the tile of the last N block has been addressed
  weight_flag_up,    \* one clock after the last row of a tile left the array
  total_words,       \* r_cfg_row_count_latched, r_total_weight_words
  tile_count,        \* feature_buffer_cnt, weight_buffer_cnt
  tile_addr,         \* feature_buffer_in_addr, weight_buffer_in_addr
  tile_mem,          \* feature_buffer, weight_buffer
  both_full_d1,
  input_valid,       \* input_feature_valid, input_weight_valid
  input_data,        \* input_feature_data, input_weight_data
  input_cnt,         \* feature_cnt, weight_cnt
  feature_addr,      \* input_feature_addr
  weight_row,        \* input_weight_row
  weight_col,        \* input_weight_col
  shift_reg,         \* GemmComputeCore.weight_buffer, oldest word first
  shift_cnt,         \* GemmComputeCore.weight_buffer_cnt
  loading_weights,   \* r_loading_weights
  pe_weights,        \* r_weight_value of all processing elements
  pipe               \* r_result_valid_pipe, r_result_last_pipe and the array

bfVars == <<bf_state, start, weight_loaded_d1, w_end, weight_flag_up,
            total_words, tile_count, tile_addr, tile_mem, both_full_d1,
            input_valid, input_data, input_cnt, feature_addr, weight_row,
            weight_col, shift_reg, shift_cnt, loading_weights, pe_weights, pipe>>

\* LP_RESULT_LATENCY: two clocks per array row and one per array column.
ResultLatency == 2 * ArraySize + ArraySize

Bubble == [valid |-> FALSE, last |-> FALSE, sum |-> NoWord]
NoTile == [i \in 1..ArraySize |-> NoWord]

BFInit ==
  /\ bf_state = "IDLE"
  /\ start = FALSE /\ weight_loaded_d1 = FALSE /\ both_full_d1 = FALSE
  /\ w_end = TRUE /\ weight_flag_up = FALSE /\ loading_weights = FALSE
  /\ total_words = [ch \in Channels |-> 0]
  /\ tile_count = [ch \in Channels |-> 0]
  /\ tile_addr = [ch \in Channels |-> 0]
  /\ tile_mem = [ch \in Channels |-> [a \in 0..InputDepth-1 |-> NoWord]]
  /\ input_valid = [ch \in Channels |-> FALSE]
  /\ input_data = [ch \in Channels |-> NoWord]
  /\ input_cnt = [ch \in Channels |-> 0]
  /\ feature_addr = 0 /\ weight_row = 0 /\ weight_col = 0 /\ shift_cnt = 0
  /\ shift_reg = NoTile /\ pe_weights = NoTile
  /\ pipe = [i \in 0..ResultLatency |-> Bubble]

-----------------------------------------------------------------------------
(* Combinational wires *)

TileReady(ch) == total_words[ch] # 0 /\ tile_count[ch] < total_words[ch]
FeederReady == [ch \in Channels |-> TileReady(ch)]
TileAccept(ch) == buffer_valid[ch] /\ TileReady(ch)

BothFull == \A ch \in Channels : tile_count[ch] = total_words[ch]
StartAhead == /\ \A ch \in Channels : total_words[ch] # 0
              /\ BothFull /\ ~both_full_d1

LoadWeightPhase == start \/ (weight_flag_up /\ bf_state # "IDLE")
InputLast(ch) == IF ch = "weight" THEN input_cnt[ch] = ArraySize - 1
                                  ELSE input_cnt[ch] = total_words[ch] - 1
WeightAddr(c) == weight_row * c.n + weight_col

\* The stream into the compute core, selected by the state.
StreamChannel == IF bf_state = "SET_WEIGHT" THEN "weight" ELSE "feature"
ComputeValid == bf_state # "IDLE" /\ input_valid[StreamChannel]
ComputeLast == bf_state # "IDLE" /\ InputLast(StreamChannel)
ComputeData == input_data[StreamChannel]

TileLoaded == shift_cnt = ArraySize
PartialOut == pipe[ResultLatency]
PartialValid == PartialOut.valid

\* total_last: the last row of the last N block leaves the array.
PartialLast == PartialOut.last /\ w_end

-----------------------------------------------------------------------------
(* Registers of BufferFeeder *)

NextBFState ==
  IF bf_state = "IDLE"
  THEN IF start THEN "SET_WEIGHT" ELSE "IDLE"
  ELSE CASE weight_flag_up /\ ~weight_loaded_d1 /\ ~PartialLast -> "SET_WEIGHT"
         [] ~weight_flag_up /\ weight_loaded_d1 /\ ~PartialLast -> "SET_FEATURE"
         [] ~weight_flag_up /\ ~weight_loaded_d1 /\ PartialLast -> "IDLE"
         [] OTHER                                               -> bf_state

\* Mutant: the stored tile is not released at the end of the K block.
NextTileCountNoRelease(ch) == IF TileAccept(ch) THEN tile_count[ch] + 1 ELSE tile_count[ch]

NextTileCount(ch) ==
  IF TileAccept(ch) THEN tile_count[ch] + 1
  ELSE IF PartialLast THEN 0 ELSE tile_count[ch]

NextTileAddr(c, ch) ==
  IF ~TileAccept(ch) THEN tile_addr[ch]
  ELSE IF BufferLast(c, ch) THEN 0 ELSE tile_addr[ch] + 1

NextTileMem(ch) ==
  IF TileAccept(ch) THEN [tile_mem[ch] EXCEPT ![tile_addr[ch]] = buffer_data[ch]]
                    ELSE tile_mem[ch]

NextWEnd(c) == ~start /\ (w_end \/ WeightAddr(c) = total_words["weight"] - 1)

\* Mutant: the next tile is requested when the last row enters the array.
NextWeightFlagUpEarly == ~weight_flag_up /\ bf_state = "SET_FEATURE" /\ ComputeLast

NextWeightFlagUp == ~weight_flag_up /\ PartialOut.last

\* A phase starts on LoadWeightPhase or on a loaded tile and ends on its last beat.
NextInputValid(ch) ==
  \/ IF ch = "weight" THEN LoadWeightPhase ELSE weight_loaded_d1
  \/ input_valid[ch] /\ ~InputLast(ch)

PhaseBeats(ch) == IF ch = "weight" THEN ArraySize ELSE total_words["feature"]
PhaseState(ch) == IF ch = "weight" THEN "SET_WEIGHT" ELSE "SET_FEATURE"

NextInputCnt(ch) ==
  IF input_cnt[ch] = PhaseBeats(ch) THEN 0
  ELSE IF bf_state = PhaseState(ch) /\ input_valid[ch]
       THEN input_cnt[ch] + 1 ELSE input_cnt[ch]

NextFeatureAddr ==
  IF feature_addr = total_words["feature"] - 1 THEN 0
  ELSE IF weight_loaded_d1 THEN 1
  ELSE IF bf_state = "SET_FEATURE" /\ input_valid["feature"] /\ feature_addr # 0
       THEN feature_addr + 1 ELSE feature_addr

NextWeightRow ==
  IF weight_row = ArraySize - 1 THEN 0
  ELSE IF LoadWeightPhase THEN 1
  ELSE IF weight_row # 0 THEN weight_row + 1 ELSE 0

NextWeightCol(c) ==
  IF weight_col = c.n THEN 0
  ELSE IF InputLast("weight") THEN weight_col + 1 ELSE weight_col

TileWord(ch, a) == IF a \in 0..InputDepth-1 THEN tile_mem[ch][a] ELSE NoWord

-----------------------------------------------------------------------------
(* Registers of GemmComputeCore *)

ShiftIn == loading_weights /\ ComputeValid

NextLoadingWeights ==
  CASE LoadWeightPhase /\ ~ComputeLast -> TRUE
    [] ~LoadWeightPhase /\ ComputeLast -> FALSE
    [] OTHER                           -> loading_weights

\* A complete tile enters all processing elements on one clock.
NextPEWeights == IF TileLoaded THEN shift_reg ELSE pe_weights

\* The last flag is not qualified by the valid flag.
PipeIn == [valid |-> ComputeValid /\ ~loading_weights,
           last  |-> ComputeLast /\ ~loading_weights,
           sum   |-> IF ComputeValid /\ ~loading_weights
                     THEN <<ComputeData, NextPEWeights>> ELSE NoWord]

BFClock(c) ==
  /\ bf_state' = NextBFState
  /\ start' = StartAhead
  /\ both_full_d1' = BothFull
  /\ weight_loaded_d1' = TileLoaded
  /\ w_end' = NextWEnd(c)
  /\ weight_flag_up' = NextWeightFlagUp
  /\ total_words' = [feature |-> c.rows, weight |-> c.n * ArraySize]
  /\ tile_count' = [ch \in Channels |-> NextTileCount(ch)]
  /\ tile_addr' = [ch \in Channels |-> NextTileAddr(c, ch)]
  /\ tile_mem' = [ch \in Channels |-> NextTileMem(ch)]
  /\ input_valid' = [ch \in Channels |-> NextInputValid(ch)]
  /\ input_data' = [feature |-> TileWord("feature", feature_addr),
                    weight  |-> TileWord("weight", WeightAddr(c))]
  /\ input_cnt' = [ch \in Channels |-> NextInputCnt(ch)]
  /\ feature_addr' = NextFeatureAddr
  /\ weight_row' = NextWeightRow
  /\ weight_col' = NextWeightCol(c)
  /\ shift_cnt' = IF TileLoaded THEN 0 ELSE IF ShiftIn THEN shift_cnt + 1 ELSE shift_cnt
  /\ shift_reg' = IF ShiftIn THEN Append(Tail(shift_reg), ComputeData) ELSE shift_reg
  /\ loading_weights' = NextLoadingWeights
  /\ pe_weights' = NextPEWeights
  /\ pipe' = [i \in 0..ResultLatency |-> IF i = 0 THEN PipeIn ELSE pipe[i-1]]

=============================================================================
