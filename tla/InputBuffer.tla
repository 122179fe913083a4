---------------------------- MODULE InputBuffer ----------------------------
(***************************************************************************)
(* rtl/In_buffer.v: the two on-chip stream memories of the accelerator.    *)
(* Feature and weight beats are accepted independently; once every         *)
(* expected beat of the job is stored, the features of one K block and     *)
(* the weights of one K tile are replayed to BufferFeeder, and again each  *)
(* time the feeder reports that the K block is finished.                   *)
(*                                                                         *)
(* One value per register, one operator per always block; the feature and  *)
(* weight copies of a register are one function of the channel.  The       *)
(* arguments of the operators are the module's input ports: c is the       *)
(* frozen configuration, in the two stream inputs, partial_last the port   *)
(* i_compute_partial_last and ready the two i_buffer_*_ready ports.        *)
(***************************************************************************)
EXTENDS Integers

CONSTANTS
  ArraySize,     \* P_ARRAY_SIZE: lanes of a beat, rows and columns of the array
  InputDepth,    \* P_FEATURE_BUFFER_DEPTH and P_WEIGHT_BUFFER_DEPTH
  NoWord         \* the content of a memory word that was never written

ASSUME ArraySizeAssumption == ArraySize \in Nat \ {0, 1}
ASSUME InputDepthAssumption == InputDepth \in Nat \ {0}

Channels == {"feature", "weight"}

VARIABLES
  ib_state,           \* state: IDLE, IN_DATA, CAL
  words_expected,     \* r_feature_words_expected, r_weight_words_expected
  k_elements,         \* r_k_elements_per_n_block
  write_count,        \* r_feature_write_count, r_weight_write_count
  write_addr,         \* r_feature_write_addr, r_weight_write_addr
  buffer_mem,         \* r_feature_buffer_mem, r_weight_buffer_mem
  buffer_valid,       \* o_buffer_feature_valid, o_buffer_weight_valid
  buffer_count,       \* r_buffer_feature_count, r_buffer_weight_count
  buffer_data,        \* o_buffer_feature_data, o_buffer_weight_data
  read_row,           \* r_feature_read_row
  read_k_block,       \* r_feature_read_k_block
  weight_read_addr    \* r_weight_read_addr

ibVars == <<ib_state, words_expected, k_elements, write_count, write_addr,
            buffer_mem, buffer_valid, buffer_count, buffer_data,
            read_row, read_k_block, weight_read_addr>>

IBInit ==
  /\ ib_state = "IDLE"
  /\ words_expected = [ch \in Channels |-> 0]
  /\ k_elements = 0
  /\ write_count = [ch \in Channels |-> 0]
  /\ write_addr = [ch \in Channels |-> 0]
  /\ buffer_mem = [ch \in Channels |-> [a \in 0..InputDepth-1 |-> NoWord]]
  /\ buffer_valid = [ch \in Channels |-> FALSE]
  /\ buffer_count = [ch \in Channels |-> 0]
  /\ buffer_data = [ch \in Channels |-> NoWord]
  /\ read_row = 0
  /\ read_k_block = 0
  /\ weight_read_addr = 0

-----------------------------------------------------------------------------
(* Combinational wires *)

StreamReady(ch) == /\ write_count[ch] < words_expected[ch]
                   /\ ib_state = "IN_DATA"

StreamAccept(in, ch) == in[ch].valid /\ StreamReady(ch)

\* Beats replayed for one K block: all rows of the features, ArraySize words
\* per N block of the weights.
ReplayBeats(c, ch) == IF ch = "feature" THEN c.rows ELSE c.n * ArraySize

BufferLast(c, ch) == buffer_count[ch] = ReplayBeats(c, ch) - 1

BufferAccept(ready, ch) == buffer_valid[ch] /\ ready[ch]

AllWordsStored == \A ch \in Channels : /\ words_expected[ch] # 0
                                       /\ write_count[ch] = words_expected[ch]

\* Mutant: the end of a K block does not start the replay of the next.
StartReadoutOnce(c, partial_last) ==
  /\ AllWordsStored
  /\ c.k # 0
  /\ read_k_block # c.k

\* Readout starts when the job is stored, and again after each K block until
\* the last one.
StartReadout(c, partial_last) ==
  /\ AllWordsStored \/ partial_last
  /\ c.k # 0
  /\ read_k_block # c.k

LastKBlockDone(c, partial_last) == partial_last /\ read_k_block = c.k

ReadAddr(c, ch) == IF ch = "feature" THEN read_row * c.k + read_k_block
                                     ELSE weight_read_addr

\* A read outside the memory returns no word of the job.
Word(ch, a) == IF a \in 0..InputDepth-1 THEN buffer_mem[ch][a] ELSE NoWord

-----------------------------------------------------------------------------
(* Registers *)

NextIBState(c, in, partial_last) ==
  CASE ib_state = "IDLE" /\ (\E ch \in Channels : in[ch].valid)  -> "IN_DATA"
    [] ib_state = "IN_DATA" /\ StartReadout(c, partial_last)     -> "CAL"
    [] ib_state = "CAL" /\ LastKBlockDone(c, partial_last)       -> "IDLE"
    [] OTHER                                                     -> ib_state

NextWriteCount(c, in, partial_last, ch) ==
  IF StartReadout(c, partial_last) THEN 0
  ELSE IF StreamAccept(in, ch) THEN write_count[ch] + 1 ELSE write_count[ch]

\* Mutant: TLAST no longer resets the write address.
NextWriteAddrNoReset(in, ch) ==
  IF StreamAccept(in, ch) THEN write_addr[ch] + 1 ELSE write_addr[ch]

\* TLAST of the input stream, not the count, brings the address back to 0.
NextWriteAddr(in, ch) ==
  IF ~StreamAccept(in, ch) THEN write_addr[ch]
  ELSE IF in[ch].last THEN 0 ELSE write_addr[ch] + 1

NextBufferMem(in, ch) ==
  IF StreamAccept(in, ch)
  THEN [buffer_mem[ch] EXCEPT ![write_addr[ch]] = in[ch].data]
  ELSE buffer_mem[ch]

NextBufferValid(c, partial_last, ready, ch) ==
  \/ StartReadout(c, partial_last)
  \/ buffer_valid[ch] /\ ~(BufferAccept(ready, ch) /\ BufferLast(c, ch))

NextBufferCount(c, ready, ch) ==
  IF buffer_count[ch] = ReplayBeats(c, ch) THEN 0
  ELSE IF BufferAccept(ready, ch) THEN buffer_count[ch] + 1 ELSE buffer_count[ch]

NextReadRow(c, partial_last, ready) ==
  IF StartReadout(c, partial_last) THEN 1
  ELSE IF read_row = c.rows - 1 THEN 0
  ELSE IF read_row # 0 /\ BufferAccept(ready, "feature") THEN read_row + 1
  ELSE read_row

NextReadKBlock(c, partial_last, ready) ==
  IF LastKBlockDone(c, partial_last) THEN 0
  ELSE IF BufferAccept(ready, "feature") /\ BufferLast(c, "feature")
       THEN read_k_block + 1 ELSE read_k_block

\* Mutant: the weight address is not brought back at the end of the stream.
NextWeightReadAddrNoWrap(c, partial_last, ready) ==
  IF /\ StartReadout(c, partial_last) \/ BufferAccept(ready, "weight")
     /\ ~BufferLast(c, "weight")
  THEN weight_read_addr + 1 ELSE weight_read_addr

NextWeightReadAddr(c, partial_last, ready) ==
  IF weight_read_addr = words_expected["weight"] - 1 THEN 0
  ELSE IF /\ StartReadout(c, partial_last) \/ BufferAccept(ready, "weight")
          /\ ~BufferLast(c, "weight")
       THEN weight_read_addr + 1 ELSE weight_read_addr

\* One rising clock edge.  The word counts follow the configuration with a
\* latency of one clock (features) and two clocks (weights); the read data
\* registers load on every clock, whether or not the feeder took the beat.
IBClock(c, in, partial_last, ready) ==
  /\ ib_state' = NextIBState(c, in, partial_last)
  /\ words_expected' = [feature |-> c.rows * c.k, weight |-> c.n * k_elements]
  /\ k_elements' = c.k * ArraySize
  /\ write_count' = [ch \in Channels |-> NextWriteCount(c, in, partial_last, ch)]
  /\ write_addr' = [ch \in Channels |-> NextWriteAddr(in, ch)]
  /\ buffer_mem' = [ch \in Channels |-> NextBufferMem(in, ch)]
  /\ buffer_valid' = [ch \in Channels |-> NextBufferValid(c, partial_last, ready, ch)]
  /\ buffer_count' = [ch \in Channels |-> NextBufferCount(c, ready, ch)]
  /\ buffer_data' = [ch \in Channels |-> Word(ch, ReadAddr(c, ch))]
  /\ read_row' = NextReadRow(c, partial_last, ready)
  /\ read_k_block' = NextReadKBlock(c, partial_last, ready)
  /\ weight_read_addr' = NextWeightReadAddr(c, partial_last, ready)

=============================================================================
