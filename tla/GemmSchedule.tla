---------------------------- MODULE GemmSchedule ----------------------------
(***************************************************************************)
(* The schedule of a job, clock by clock: what every register of the       *)
(* accelerator holds while the job is loaded, while a K block is replayed  *)
(* into the tile memories, at each clock of each weight tile, and while    *)
(* the result is read out.  It is the inductive strengthening of the       *)
(* properties of GemmJobs, for jobs of at least two rows.                  *)
(*                                                                         *)
(* c is the configuration of the running job; its shift is the job's       *)
(* number.  b counts K blocks, nb N blocks (weight tiles), m rows.         *)
(***************************************************************************)
EXTENDS GemmJobs

Beats(c, ch) == ReplayBeats(c, ch)
StreamWords(c, ch) == c.k * Beats(c, ch)
ResultWords(c) == c.rows * c.n

\* Every job has two rows or more, and its configuration has at least one
\* clock to reach the word counters before the first beat is offered.
PlainJobs == (\A s \in Shapes : s.rows >= 2) /\ SettleClocks >= 1

\* What the host may ask for and the memories can hold.
IsConfig(c) ==
  /\ c \in [rows : Nat \ {0, 1}, k : Nat \ {0}, n : Nat \ {0}, shift : 1..Jobs]
  /\ \A ch \in Channels : StreamWords(c, ch) <= InputDepth
  /\ ResultWords(c) <= OutputDepth

-----------------------------------------------------------------------------
(* InputBuffer *)

Memories ==
  /\ DOMAIN buffer_mem = Channels /\ \A ch \in Channels : DOMAIN buffer_mem[ch] = 0..InputDepth-1
  /\ DOMAIN tile_mem = Channels /\ \A ch \in Channels : DOMAIN tile_mem[ch] = 0..InputDepth-1
  /\ DOMAIN accum_mem = 0..OutputDepth-1
  /\ shift_reg = [i \in 1..ArraySize |-> shift_reg[i]]

\* The first n words of a stream are in the memory.
Stored(c, ch, n) == \A a \in 0..n-1 : buffer_mem[ch][a] = <<c.shift, a>>

NothingReplayed ==
  /\ \A ch \in Channels : ~buffer_valid[ch] /\ buffer_count[ch] = 0
  /\ read_row = 0

NothingWritten == \A ch \in Channels : write_count[ch] = 0 /\ write_addr[ch] = 0

Sized(c) ==
  /\ words_expected["feature"] = c.rows * c.k /\ k_elements = c.k * ArraySize
  /\ total_words["feature"] = c.rows /\ total_words["weight"] = c.n * ArraySize
  /\ results_expected = c.rows * c.n

Loading(c) ==
  /\ ib_state = "IN_DATA"
  /\ \A ch \in Channels :
       /\ write_count[ch] = sent[ch] /\ sent[ch] \in 0..StreamWords(c, ch)
       /\ write_addr[ch] = IF sent[ch] = StreamWords(c, ch) THEN 0 ELSE sent[ch]
       /\ Stored(c, ch, sent[ch])
  /\ NothingReplayed /\ read_k_block = 0 /\ weight_read_addr = 0

AllStored(c) ==
  /\ NothingWritten
  /\ \A ch \in Channels : sent[ch] = StreamWords(c, ch) /\ Stored(c, ch, sent[ch])

WrapWeights(c, a) == IF a = StreamWords(c, "weight") THEN 0 ELSE a

\* Clock i of the replay of K block b.
Replaying(c, b, i) ==
  /\ ib_state = "CAL"
  /\ \A ch \in Channels :
       /\ buffer_valid[ch] <=> i < Beats(c, ch)
       /\ buffer_count[ch] = IF i <= Beats(c, ch) THEN i ELSE 0
  /\ i < c.rows => buffer_data["feature"] = <<c.shift, i * c.k + b>>
  /\ i < Beats(c, "weight") => buffer_data["weight"] = <<c.shift, b * Beats(c, "weight") + i>>
  /\ read_row = IF i < c.rows - 1 THEN i + 1 ELSE 0
  /\ read_k_block = IF i < c.rows THEN b ELSE b + 1
  /\ weight_read_addr =
       WrapWeights(c, b * Beats(c, "weight")
                        + (IF i < Beats(c, "weight") THEN i + 1 ELSE Beats(c, "weight")))

Replayed(c, b) ==
  /\ ib_state = "CAL" /\ NothingReplayed
  /\ read_k_block = b + 1
  /\ weight_read_addr = WrapWeights(c, (b + 1) * Beats(c, "weight"))

-----------------------------------------------------------------------------
(* BufferFeeder *)

FeederAtRest(flag) ==
  /\ bf_state = "IDLE" /\ ~start /\ ~weight_loaded_d1 /\ w_end /\ ~loading_weights
  /\ weight_flag_up <=> flag
  /\ \A ch \in Channels : ~input_valid[ch] /\ input_cnt[ch] = 0
  /\ feature_addr = 0 /\ weight_row = 0 /\ weight_col = 0 /\ shift_cnt = 0
  /\ \A d \in 0..ResultLatency : pipe[d] = Bubble

NoTileStored == \A ch \in Channels : tile_count[ch] = 0 /\ tile_addr[ch] = 0

\* The word of the input stream that belongs at address a of a tile memory.
TileSource(c, b, ch, a) ==
  IF ch = "feature" THEN a * c.k + b ELSE b * Beats(c, "weight") + a

TileStored(c, b, ch, n) ==
  \A a \in 0..n-1 : tile_mem[ch][a] = <<c.shift, TileSource(c, b, ch, a)>>

FillClocks(c) == IF c.rows > Beats(c, "weight") THEN c.rows ELSE Beats(c, "weight")

Filling(c, b, i) ==
  /\ FeederAtRest(i = 0 /\ b > 0)
  /\ both_full_d1 <=> i = 0 /\ b > 0
  /\ \A ch \in Channels :
       LET n == IF i < Beats(c, ch) THEN i ELSE Beats(c, ch)
       IN  /\ tile_count[ch] = n
           /\ tile_addr[ch] = IF n = Beats(c, ch) THEN 0 ELSE n
           /\ TileStored(c, b, ch, n)

TileClocks(c) == ArraySize + 4 + c.rows + ResultLatency

\* The weights of K block b and N block nb; row m with them; its sums so far.
WeightWord(c, b, nb, i) == <<c.shift, b * Beats(c, "weight") + (i - 1) * c.n + nb>>
Tile(c, b, nb) == [i \in 1..ArraySize |-> WeightWord(c, b, nb, i)]
RowSum(c, b, nb, m) == <<<<c.shift, m * c.k + b>>, Tile(c, b, nb)>>
Sums(c, nb, m, blocks) == [t \in 1..blocks |-> RowSum(c, t - 1, nb, m)]

\* Clock q of the tile (b, nb): ArraySize words are shifted in from clock 1
\* on, the rows enter the array from clock ArraySize + 3 on.
Shifting(q) == 1 <= q /\ q <= ArraySize
RowEntering(q) == q - (ArraySize + 3)
InArray(q, d) == q - (ArraySize + 4) - d

StreamControl(c, nb, q) ==
  /\ bf_state = IF q = 0 /\ nb = 0 THEN "IDLE"
                ELSE IF 1 <= q /\ q <= ArraySize + 2 THEN "SET_WEIGHT" ELSE "SET_FEATURE"
  /\ start <=> q = 0 /\ nb = 0
  /\ weight_flag_up <=> q = 0 /\ nb > 0
  /\ weight_loaded_d1 <=> q = ArraySize + 2
  /\ w_end <=> (q = 0 /\ nb = 0) \/ (nb = c.n - 1 /\ q >= ArraySize)
  /\ both_full_d1

TilesHeld(c, b) ==
  \A ch \in Channels : /\ tile_count[ch] = Beats(c, ch) /\ tile_addr[ch] = 0
                       /\ TileStored(c, b, ch, Beats(c, ch))

StreamWeights(c, b, nb, q) ==
  /\ input_valid["weight"] <=> Shifting(q)
  /\ input_cnt["weight"] = IF 1 <= q /\ q <= ArraySize + 1 THEN q - 1 ELSE 0
  /\ Shifting(q) => input_data["weight"] = WeightWord(c, b, nb, q)
  /\ weight_row = IF q < ArraySize THEN q ELSE 0
  /\ weight_col = IF q <= ArraySize THEN nb
                  ELSE IF q > ArraySize + 1 /\ nb = c.n - 1 THEN 0 ELSE nb + 1
  /\ loading_weights <=> Shifting(q)
  /\ shift_cnt = IF 1 <= q /\ q <= ArraySize + 1 THEN q - 1 ELSE 0
  /\ q <= ArraySize + 1 =>
       \A i \in 1..q-1 : shift_reg[ArraySize - (q - 1) + i] = WeightWord(c, b, nb, i)
  /\ q >= ArraySize + 2 => pe_weights = Tile(c, b, nb)

StreamRows(c, b, q) ==
  /\ input_valid["feature"] <=> RowEntering(q) \in 0..c.rows-1
  /\ input_cnt["feature"] = IF RowEntering(q) \in 0..c.rows THEN RowEntering(q) ELSE 0
  /\ RowEntering(q) \in 0..c.rows-1 =>
       input_data["feature"] = <<c.shift, RowEntering(q) * c.k + b>>
  /\ feature_addr = IF RowEntering(q) \in 0..c.rows-2 THEN RowEntering(q) + 1 ELSE 0

StreamArray(c, b, nb, q) ==
  \A d \in 0..ResultLatency :
    pipe[d] = IF InArray(q, d) \in 0..c.rows-1
              THEN [valid |-> TRUE, last |-> InArray(q, d) = c.rows - 1,
                    sum |-> RowSum(c, b, nb, InArray(q, d))]
              ELSE Bubble

Streaming(c, b, nb, q) ==
  /\ StreamControl(c, nb, q) /\ TilesHeld(c, b)
  /\ StreamWeights(c, b, nb, q) /\ StreamRows(c, b, q) /\ StreamArray(c, b, nb, q)

-----------------------------------------------------------------------------
(* OutputBuffer *)

ReadoutAtRest ==
  /\ ~start_result /\ ~mem_valid /\ ~mem_valid_d1 /\ ~mem_valid_d2 /\ ~result_valid
  /\ mem_count = 0 /\ mem_count_d1 = 0 /\ result_col = 0 /\ result_row = 0

AllZero == \A a \in 0..OutputDepth-1 : accum_mem[a] = Zero

OutputAtRest ==
  /\ ReadoutAtRest /\ AllZero /\ received = 0
  /\ result_count = 0 \/ result_count = results_expected
  /\ k_block_done = 0 /\ accum_write_addr = 0 /\ read_data = Zero

\* Row m of N block nb: its address in the memory, its place in the result.
WordAddr(c, m, nb) == nb * c.rows + m
WordIndex(c, m, nb) == m * c.n + nb
Unused(c) == \A a \in 0..OutputDepth-1 : a >= ResultWords(c) => accum_mem[a] = Zero

\* Of K block b the first done words have been added.
Accumulated(c, b, done) ==
  /\ \A m \in 0..c.rows-1, nb \in 0..c.n-1 :
       accum_mem[WordAddr(c, m, nb)] =
         Sums(c, nb, m, IF WordAddr(c, m, nb) < done THEN b + 1 ELSE b)
  /\ Unused(c)

Accumulating(c, b, done) ==
  /\ ReadoutAtRest /\ result_count = 0 /\ received = 0
  /\ k_block_done = b /\ accum_write_addr = done
  /\ Accumulated(c, b, done)

\* The request is kept until the result stream is ready.
ReadoutAwaited(c) ==
  /\ start_result /\ ~mem_valid /\ ~mem_valid_d1 /\ ~mem_valid_d2 /\ ~result_valid
  /\ mem_count = 0 /\ mem_count_d1 = 0 /\ result_col = 0 /\ result_row = 0
  /\ result_count = 0 /\ received = 0 /\ k_block_done = 0 /\ accum_write_addr = 0
  /\ Accumulated(c, c.k, 0)

PrefetchFresh == read_data = AccumWord(accum_write_addr)

RowsOut(q) == IF InArray(q, ResultLatency) < 0 THEN 0 ELSE InArray(q, ResultLatency)

\* acc is word y of the result; a is the address of that word.
Complete(c, y, acc) ==
  \A m \in 0..c.rows-1, nb \in 0..c.n-1 :
    y = WordIndex(c, m, nb) => acc = Sums(c, nb, m, c.k)
AddrOfWord(c, y, a) ==
  \E m \in 0..c.rows-1, nb \in 0..c.n-1 : y = WordIndex(c, m, nb) /\ a = WordAddr(c, m, nb)

AtMost(x, y) == IF x < y THEN x ELSE y

\* x is the number of clocks on which the readout has advanced: one word of
\* the memory is read on each of the first ResultWords(c) of them.
ReadoutFlags(c, x) ==
  /\ start_result => x = 0
  /\ mem_valid <=> x < ResultWords(c)
  /\ mem_valid_d1 <=> x \in 1..ResultWords(c)
  /\ mem_valid_d2 <=> x \in 2..ResultWords(c)+1
  /\ result_valid <=> x >= 3

ReadoutCounters(c, x) ==
  /\ \/ mem_count = x /\ x <= ResultWords(c)
     \/ mem_count = 0 /\ x >= ResultWords(c)
  /\ result_count = IF x < 3 THEN 0 ELSE x - 3
  /\ received = result_count
  /\ k_block_done = 0 /\ accum_write_addr = 0

\* Before and after the end of the memory readout has been seen.
ReadoutAddresses(c, x) ==
  \/ /\ x <= ResultWords(c) + 1
     /\ mem_count_d1 = IF x = 0 THEN 0 ELSE x - 1
     /\ result_row \in 0..c.rows-1 /\ result_col \in 0..c.n-1
     /\ WordIndex(c, result_row, result_col) = AtMost(x, ResultWords(c) - 1)
     /\ x > 0 => AddrOfWord(c, AtMost(x - 1, ResultWords(c) - 2), clear_addr)
  \/ /\ x > ResultWords(c)
     /\ mem_count_d1 = 0 /\ result_row = 0 /\ result_col = 0
     /\ clear_addr = ResultWords(c) - 1

ReadoutData(c, x) ==
  /\ x \in 1..ResultWords(c) => Complete(c, x - 1, read_data)
  /\ x \in 2..ResultWords(c)+1 => Complete(c, x - 2, mem_data_d1)
  /\ x >= 3 => /\ result_data = [acc |-> result_data.acc, shift |-> c.shift]
               /\ Complete(c, x - 3, result_data.acc)

\* The words still to be read are complete, those behind the readout are zero.
ReadoutMemory(c, x) ==
  /\ \A m \in 0..c.rows-1, nb \in 0..c.n-1 :
       /\ x <= ResultWords(c) /\ WordIndex(c, m, nb) >= AtMost(x, ResultWords(c) - 1)
            => accum_mem[WordAddr(c, m, nb)] = Sums(c, nb, m, c.k)
       /\ WordIndex(c, m, nb) <= AtMost(x, ResultWords(c)) - 2
            => accum_mem[WordAddr(c, m, nb)] = Zero
  /\ Unused(c)

ReadingOut(c, x) ==
  /\ ReadoutFlags(c, x) /\ ReadoutCounters(c, x) /\ ReadoutAddresses(c, x)
  /\ ReadoutData(c, x) /\ ReadoutMemory(c, x)

-----------------------------------------------------------------------------
(* The phases *)

\* From the first beat of a job to its last.
Running(c) ==
  /\ cfg = c /\ core_active /\ job_busy /\ settled = 0
  /\ Sized(c) /\ words_expected["weight"] = c.n * (c.k * ArraySize)

\* Between two jobs.
Resting ==
  /\ ~core_active /\ ~job_busy
  /\ \A ch \in Channels : sent[ch] = 0
  /\ ib_state \in {"IDLE", "IN_DATA"}
  /\ NothingWritten /\ NothingReplayed /\ read_k_block = 0 /\ weight_read_addr = 0
  /\ FeederAtRest(FALSE) /\ NoTileStored
  /\ OutputAtRest
  /\ settled > 0 => written = 4 /\ cfg = JobConfig(job)
  /\ ib_state = "IN_DATA" =>
       /\ job <= Jobs /\ settled > 0 /\ Sized(JobConfig(job)) /\ result_count = 0

LoadPhase(c) ==
  /\ Loading(c) /\ FeederAtRest(FALSE) /\ NoTileStored /\ ~both_full_d1
  /\ JobStarted
  /\ Accumulating(c, 0, 0) /\ PrefetchFresh

FillPhase(c, b, i) ==
  /\ AllStored(c) /\ Replaying(c, b, i) /\ Filling(c, b, i)
  /\ Accumulating(c, b, 0) /\ (i = 0 \/ PrefetchFresh)

TilePhase(c, b, nb, q) ==
  /\ AllStored(c) /\ Replayed(c, b) /\ Streaming(c, b, nb, q)
  /\ Accumulating(c, b, nb * c.rows + RowsOut(q)) /\ PrefetchFresh

\* After the last K block.
Computed(c, flag) ==
  /\ AllStored(c) /\ ib_state = "IDLE" /\ NothingReplayed
  /\ read_k_block = 0 /\ weight_read_addr = 0
  /\ FeederAtRest(flag) /\ NoTileStored

\* Clock 0 counts the block, then the readout waits for the result stream.
EndPhase(c) == Computed(c, TRUE) /\ Accumulating(c, c.k, 0)
AwaitPhase(c) == Computed(c, FALSE) /\ ReadoutAwaited(c)
ReadoutPhase(c, x) == Computed(c, FALSE) /\ ReadingOut(c, x)

\* The registers written so far are those of the coming job.
HostInv ==
  /\ job \in 1..Jobs+1 /\ written \in 0..4 /\ settled \in 0..SettleClocks
  /\ shapes \in [1..Jobs -> Shapes]
  /\ written > 0 => NextToWrite <= Jobs
  /\ regs = [r \in {"rows", "k", "n", "shift"} |-> regs[r]]
  /\ \A i \in 1..written : regs[RegisterOrder[i]] = JobConfig(NextToWrite)[RegisterOrder[i]]

RunPhase(c) ==
  \/ LoadPhase(c)
  \/ \E b \in 0..c.k-1, i \in 0..FillClocks(c) : FillPhase(c, b, i)
  \/ \E b \in 0..c.k-1, nb \in 0..c.n-1, q \in 0..TileClocks(c)-1 : TilePhase(c, b, nb, q)
  \/ EndPhase(c) \/ AwaitPhase(c)
  \/ \E x \in 0..ResultWords(c)+2 : ReadoutPhase(c, x)

(* Every register follows the schedule of the running job, clock by clock; *)
(* between two jobs every counter, flag, address and accumulator is back   *)
(* where it started and the registers hold only values of the coming job,  *)
(* so that no job sees what the one before it left (nothing is reset       *)
(* between jobs: In_buffer.v, Buffer_feeder.v, Out_buffer.v, GEMM_core.v). *)
Scheduled ==
  /\ HostInv /\ Memories
  /\ Resting \/ (job <= Jobs /\ Running(JobConfig(job)) /\ RunPhase(JobConfig(job)))

=============================================================================
