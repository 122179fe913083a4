---------------------------- MODULE OutputBuffer ----------------------------
(***************************************************************************)
(* rtl/Out_buffer.v: accumulates the partial sums of every K block in a    *)
(* result memory, then reads the memory in row order through a three-stage *)
(* pipeline (memory read, stage register, quantizer) to the result stream  *)
(* and clears it for the next job.                                         *)
(*                                                                         *)
(* An accumulator is the sequence of the partial sums added to it, so the  *)
(* empty sequence is zero and a missing, doubled, misplaced or stale sum   *)
(* is visible.  The quantizer of a beat is the shift amount it used.       *)
(*                                                                         *)
(* c is the frozen configuration, p the partial sum leaving the feeder,    *)
(* p_last its last flag and rdy the port i_result_ready.                   *)
(***************************************************************************)
EXTENDS Integers, Sequences

CONSTANT OutputDepth  \* P_OUTPUT_BUFFER_DEPTH

ASSUME OutputDepthAssumption == OutputDepth \in Nat \ {0}

VARIABLES
  accum_mem,          \* r_output_buffer_mem
  read_data,          \* r_output_mem_read_data
  results_expected,   \* r_result_words_expected
  accum_write_addr,   \* r_accum_write_addr
  k_block_done,       \* r_k_block_done_count
  start_result,       \* r_start_result_stream
  mem_valid,          \* r_output_mem_valid
  mem_valid_d1,       \* r_output_mem_valid_d1
  mem_valid_d2,       \* r_output_mem_valid_d2
  mem_count,          \* r_output_mem_count
  mem_count_d1,       \* r_output_mem_count_d1
  mem_data_d1,        \* r_output_mem_data_d1
  result_col,         \* r_result_col_block
  result_row,         \* r_result_row
  clear_addr,         \* r_clear_addr
  result_valid,       \* o_result_valid
  result_data,        \* o_result_data
  result_count        \* r_result_word_count

obVars == <<accum_mem, read_data, results_expected, accum_write_addr,
            k_block_done, start_result, mem_valid, mem_valid_d1, mem_valid_d2,
            mem_count, mem_count_d1, mem_data_d1, result_col, result_row,
            clear_addr, result_valid, result_data, result_count>>

Zero == << >>

OBInit ==
  /\ accum_mem = [a \in 0..OutputDepth-1 |-> Zero]
  /\ read_data = Zero /\ mem_data_d1 = Zero
  /\ results_expected = 0 /\ accum_write_addr = 0 /\ k_block_done = 0
  /\ start_result = FALSE
  /\ mem_valid = FALSE /\ mem_valid_d1 = FALSE /\ mem_valid_d2 = FALSE
  /\ mem_count = 0 /\ mem_count_d1 = 0
  /\ result_col = 0 /\ result_row = 0 /\ clear_addr = 0
  /\ result_valid = FALSE /\ result_count = 0
  /\ result_data = [acc |-> Zero, shift |-> 0]

-----------------------------------------------------------------------------
(* Combinational wires *)

ResultLast == result_valid /\ result_count = results_expected - 1

\* The memory pipeline advances only while the result stream is ready.
MemAdvance(rdy) == mem_valid /\ rdy

OutputEnd == mem_count_d1 = results_expected          \* w_output_mem_last_d2
AtLastWord(c) == result_col = c.n - 1 /\ result_row = c.rows - 1

\* Mutant: the memory is read in the order it would have if it were row-major.
ResultReadAddrRowMajor(c) == result_row * c.n + result_col

ResultReadAddr(c) == result_col * c.rows + result_row
AllKBlocksDone(c) == c.k # 0 /\ k_block_done = c.k

\* Mutant: no prefetch of the following accumulator.
AccumReadAddrNoPrefetch(p) == accum_write_addr

AccumReadAddr(p) == IF p.valid THEN accum_write_addr + 1 ELSE accum_write_addr
MemReadAddr(c, p) == IF mem_valid_d2 \/ mem_valid THEN ResultReadAddr(c)
                                                  ELSE AccumReadAddr(p)

\* Mutant: words are cleared only behind the read stage.
ClearWordReadStage(rdy) == mem_valid_d1

ClearWord(rdy) == mem_valid_d1 \/ (result_valid /\ rdy)

AccumWord(a) == IF a \in 0..OutputDepth-1 THEN accum_mem[a] ELSE Zero

-----------------------------------------------------------------------------
(* Accumulation and clearing share the write port of the memory. *)

NextAccumMem(p, rdy) ==
  CASE p.valid -> [accum_mem EXCEPT ![accum_write_addr] = Append(read_data, p.sum)]
    [] ~p.valid /\ ClearWord(rdy) -> [accum_mem EXCEPT ![clear_addr] = Zero]
    [] OTHER -> accum_mem

NextReadData(c, p, rdy) ==
  IF mem_valid /\ ~rdy THEN read_data ELSE AccumWord(MemReadAddr(c, p))

NextAccumWriteAddr(p, p_last) ==
  IF p_last THEN 0
  ELSE IF p.valid THEN accum_write_addr + 1 ELSE accum_write_addr

NextKBlockDone(c, p_last) ==
  IF AllKBlocksDone(c) THEN 0
  ELSE IF p_last THEN k_block_done + 1 ELSE k_block_done

NextStartResult(c) == ~mem_valid /\ (start_result \/ AllKBlocksDone(c))

-----------------------------------------------------------------------------
(* The result pipeline *)

NextMemValid(rdy) ==
  \/ start_result /\ rdy
  \/ mem_valid /\ ~(mem_count = results_expected - 1 /\ rdy)

NextMemValidD1(rdy) ==
  /\ ~(mem_count_d1 = results_expected - 1 /\ mem_valid_d1 /\ rdy)
  /\ mem_valid_d1 \/ MemAdvance(rdy)

NextMemCount(rdy) ==
  IF mem_count = results_expected THEN 0
  ELSE IF MemAdvance(rdy) THEN mem_count + 1 ELSE mem_count

NextMemCountD1(rdy) ==
  IF OutputEnd THEN 0
  ELSE IF mem_valid_d1 /\ rdy THEN mem_count_d1 + 1 ELSE mem_count_d1

NextResultCol(c, rdy) ==
  IF OutputEnd THEN 0
  ELSE IF AtLastWord(c) \/ ~MemAdvance(rdy) THEN result_col
  ELSE IF result_col = c.n - 1 THEN 0 ELSE result_col + 1

NextResultRow(c, rdy) ==
  IF OutputEnd THEN 0
  ELSE IF /\ result_row # c.rows - 1
          /\ MemAdvance(rdy) /\ (result_col = c.n - 1 \/ c.n = 1)
       THEN result_row + 1 ELSE result_row

\* While no job is configured -1 stands for the all-ones address.
NextClearAddr(c, rdy) ==
  IF OutputEnd THEN results_expected - 1
  ELSE IF MemAdvance(rdy) /\ ~AtLastWord(c) THEN ResultReadAddr(c) ELSE clear_addr

NextResultCount(rdy) ==
  IF result_count = results_expected THEN 0
  ELSE IF result_valid /\ rdy THEN result_count + 1 ELSE result_count

\* Mutant: the beat is dropped although it was not taken.
NextResultValidUnheld(rdy) == mem_valid_d2

NextResultValid(rdy) == IF rdy THEN mem_valid_d2 ELSE result_valid

OBClock(c, p, p_last, rdy) ==
  /\ accum_mem' = NextAccumMem(p, rdy)
  /\ read_data' = NextReadData(c, p, rdy)
  /\ results_expected' = c.rows * c.n
  /\ accum_write_addr' = NextAccumWriteAddr(p, p_last)
  /\ k_block_done' = NextKBlockDone(c, p_last)
  /\ start_result' = NextStartResult(c)
  /\ mem_valid' = NextMemValid(rdy)
  /\ mem_valid_d1' = NextMemValidD1(rdy)
  /\ mem_valid_d2' = IF rdy THEN mem_valid_d1 ELSE mem_valid_d2
  /\ mem_count' = NextMemCount(rdy)
  /\ mem_count_d1' = NextMemCountD1(rdy)
  /\ mem_data_d1' = IF mem_valid_d1 /\ rdy THEN read_data ELSE mem_data_d1
  /\ result_col' = NextResultCol(c, rdy)
  /\ result_row' = NextResultRow(c, rdy)
  /\ clear_addr' = NextClearAddr(c, rdy)
  /\ result_valid' = NextResultValid(rdy)
  /\ result_data' = IF mem_valid_d2 /\ rdy
                    THEN [acc |-> mem_data_d1, shift |-> c.shift] ELSE result_data
  /\ result_count' = NextResultCount(rdy)

=============================================================================
