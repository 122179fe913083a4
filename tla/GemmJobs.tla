------------------------------ MODULE GemmJobs ------------------------------
(***************************************************************************)
(* The accelerator under the jobs software gives it: Jobs jobs one after   *)
(* the other, without a reset between them.  For each job the host writes  *)
(* the four configuration registers, waits, lets the two MM2S channels     *)
(* offer the job's beats with any gaps, and takes the result beats with    *)
(* any back-pressure.  A job starts only when the previous one delivered   *)
(* its last beat, but its registers may be written while that job is still *)
(* active.                                                                 *)
(*                                                                         *)
(* A stream word is <<job, index in the stream>>, so that a result beat    *)
(* names every word that went into it.                                     *)
(***************************************************************************)
EXTENDS GemmAccelerator

CONSTANTS
  Shapes,        \* the job shapes [rows, k, n] the host may ask for
  Jobs,          \* number of jobs run one after the other
  SettleClocks   \* clocks between the last register write and the first beat

ASSUME ShapesAssumption ==
  /\ Shapes \subseteq [rows : Nat \ {0}, k : Nat \ {0}, n : Nat \ {0}]
  /\ \A s \in Shapes : /\ s.rows * s.k <= InputDepth
                       /\ s.k * ArraySize * s.n <= InputDepth
                       /\ s.rows * s.n <= OutputDepth
ASSUME JobsAssumption == Jobs \in Nat \ {0}
ASSUME SettleClocksAssumption == SettleClocks \in Nat

VARIABLES
  shapes,      \* the shape of every job, chosen at the start
  job,         \* the job the host is running; Jobs + 1 when all are complete
  regs,        \* slv_reg0 (shift), slv_reg1..3
  written,     \* how many of the next job's registers are written: 0..4
  settled,     \* clocks since the configuration was complete
  sent,        \* beats of this job accepted, per channel
  offered,     \* tvalid was high on the last clock and the beat not taken
  received     \* result beats of this job the host took

hostVars == <<shapes, job, regs, written, settled, sent, offered, received>>
vars == <<ibVars, bfVars, obVars, topVars, hostVars>>

-----------------------------------------------------------------------------
(* What a job consists of *)

\* The shift of a job is its number: it tells configurations of equal shape apart.
JobConfig(j) == [rows |-> shapes[j].rows, k |-> shapes[j].k, n |-> shapes[j].n, shift |-> j]

\* Beats of the two input streams and of the result stream.
StreamBeats(j, ch) == IF ch = "feature" THEN shapes[j].rows * shapes[j].k
                                        ELSE shapes[j].k * ArraySize * shapes[j].n
ResultBeats(j) == shapes[j].rows * shapes[j].n

\* The weights of K block kb and N block nb, in the order they are loaded.
TileOf(j, kb, nb) ==
  [i \in 1..ArraySize |-> <<j, (kb * ArraySize + i - 1) * shapes[j].n + nb>>]

\* Row m of N block nb: one partial sum per K block, in K order.
ExactSum(j, m, nb) ==
  [b \in 1..shapes[j].k |-> <<<<j, m * shapes[j].k + b - 1>>, TileOf(j, b - 1, nb)>>]

\* Beat i of the result stream, row-major.
ExactBeat(j, i) ==
  [acc |-> ExactSum(j, i \div shapes[j].n, i % shapes[j].n), shift |-> j]

-----------------------------------------------------------------------------
(* The host *)

Init ==
  /\ TopInit
  /\ shapes \in [1..Jobs -> Shapes]
  /\ job = 1
  /\ regs = ResetConfig
  /\ written = 0
  /\ settled = 0
  /\ sent = [ch \in Channels |-> 0]
  /\ offered = [ch \in Channels |-> FALSE]
  /\ received = 0

RegisterOrder == <<"shift", "rows", "k", "n">>

\* All four registers hold the running job's configuration.
Configured == regs = JobConfig(job)
JobStarted == \E ch \in Channels : sent[ch] > 0
MayStream == job <= Jobs /\ (JobStarted \/ settled = SettleClocks)

\* The job whose registers the host writes next: while a job runs, the one after.
NextToWrite == IF JobStarted THEN job + 1 ELSE job

\* The registers are written in the driver's order, one write at a time; the
\* write of register 0 may carry the done-clear bit.
WriteRegister(clear, jobStarts) ==
  \/ /\ ~clear
     /\ regs' = regs
     /\ written' = IF jobStarts THEN 0 ELSE written
  \/ /\ NextToWrite <= Jobs
     /\ written < 4
     /\ clear => written = 0
     /\ LET r == RegisterOrder[written + 1]
        IN  regs' = [regs EXCEPT ![r] = JobConfig(NextToWrite)[r]]
     /\ written' = written + 1

\* A beat once offered stays on the stream until it is taken (AXI4-Stream).
MayOffer(v, ch) ==
  /\ offered[ch] => v[ch]
  /\ v[ch] => MayStream /\ sent[ch] < StreamBeats(job, ch)

InputStreams(v) ==
  [ch \in Channels |-> [valid |-> v[ch],
                        last  |-> v[ch] /\ sent[ch] = StreamBeats(job, ch) - 1,
                        data  |-> IF v[ch] THEN <<job, sent[ch]>> ELSE NoWord]]

\* v: the channels whose tvalid is high; rdy: the tready of the result channel.
Clock(v, rdy, clear) ==
  LET in == InputStreams(v)
      endOfJob == FinalResultAccept(rdy)
      jobStarts == ~JobStarted /\ InputAccept(in)
  IN  /\ \A ch \in Channels : MayOffer(v, ch)
      /\ TopClock(in, rdy, regs, clear)
      /\ WriteRegister(clear, jobStarts)
      /\ settled' = IF jobStarts THEN 0
                    ELSE IF written = 4 /\ ~JobStarted /\ settled < SettleClocks
                         THEN settled + 1 ELSE settled
      /\ offered' = [ch \in Channels |-> v[ch] /\ ~StreamAccept(in, ch)]
      /\ sent' = [ch \in Channels |-> IF endOfJob THEN 0
                                        ELSE IF StreamAccept(in, ch) THEN sent[ch] + 1
                                        ELSE sent[ch]]
      /\ received' = IF endOfJob THEN 0
                     ELSE IF result_valid /\ rdy THEN received + 1 ELSE received
      /\ job' = IF endOfJob THEN job + 1 ELSE job
      /\ UNCHANGED shapes

Next == \E v \in [Channels -> BOOLEAN], rdy, clear \in BOOLEAN : Clock(v, rdy, clear)

Spec == Init /\ [][Next]_vars

(* A clock on which the host offers a beat of channel ch, takes a result    *)
(* beat, or writes a register.                                              *)
OfferClock(ch) == \E v \in [Channels -> BOOLEAN], rdy, clear \in BOOLEAN :
                    v[ch] /\ Clock(v, rdy, clear)
TakeClock == \E v \in [Channels -> BOOLEAN], clear \in BOOLEAN : Clock(v, TRUE, clear)
WriteClock == \E v \in [Channels -> BOOLEAN], rdy, clear \in BOOLEAN :
                Clock(v, rdy, clear) /\ written' = written + 1

\* The clock never stops and the DMA engines and the driver finish what they
\* began: beats that remain are offered, result beats are taken, registers of
\* the coming job are written.
FairSpec == /\ Spec
            /\ WF_vars(Next)
            /\ \A ch \in Channels : WF_vars(OfferClock(ch))
            /\ WF_vars(TakeClock)
            /\ WF_vars(WriteClock)

-----------------------------------------------------------------------------
(* Properties *)

IsWord(w) == w = NoWord \/ w \in (1..Jobs) \X Nat
IsTile(t) == DOMAIN t = 1..ArraySize /\ \A i \in 1..ArraySize : IsWord(t[i])
IsSum(s) == Len(s) = 2 /\ IsWord(s[1]) /\ IsTile(s[2])
IsAccum(a) == \A b \in DOMAIN a : IsSum(a[b])

IBTypeOK ==
  /\ ib_state \in {"IDLE", "IN_DATA", "CAL"}
  /\ words_expected \in [Channels -> Nat] /\ k_elements \in Nat
  /\ write_count \in [Channels -> 0..InputDepth]
  /\ write_addr \in [Channels -> 0..InputDepth-1]
  /\ \A ch \in Channels, a \in 0..InputDepth-1 : IsWord(buffer_mem[ch][a])
  /\ buffer_valid \in [Channels -> BOOLEAN]
  /\ buffer_count \in [Channels -> 0..InputDepth]
  /\ \A ch \in Channels : IsWord(buffer_data[ch])
  /\ read_row \in 0..InputDepth /\ read_k_block \in 0..InputDepth
  /\ weight_read_addr \in 0..InputDepth-1

BFTypeOK ==
  /\ bf_state \in {"IDLE", "SET_WEIGHT", "SET_FEATURE"}
  /\ {start, weight_loaded_d1, w_end, weight_flag_up, both_full_d1,
      loading_weights} \subseteq BOOLEAN
  /\ total_words \in [Channels -> Nat]
  /\ tile_count \in [Channels -> 0..InputDepth]
  /\ tile_addr \in [Channels -> 0..InputDepth-1]
  /\ input_valid \in [Channels -> BOOLEAN]
  /\ input_cnt \in [Channels -> 0..InputDepth]
  /\ feature_addr \in 0..InputDepth /\ weight_row \in 0..ArraySize-1
  /\ weight_col \in 0..InputDepth /\ shift_cnt \in 0..ArraySize
  /\ IsTile(shift_reg) /\ IsTile(pe_weights)
  /\ \A i \in 0..ResultLatency : pipe[i].valid => IsSum(pipe[i].sum)

OBTypeOK ==
  /\ \A a \in 0..OutputDepth-1 : IsAccum(accum_mem[a])
  /\ IsAccum(read_data) /\ IsAccum(mem_data_d1) /\ IsAccum(result_data.acc)
  /\ {accum_write_addr, mem_count, mem_count_d1, result_count} \subseteq 0..OutputDepth
  /\ {results_expected, k_block_done, result_col, result_row} \subseteq Nat
  /\ clear_addr \in -1..OutputDepth-1
  /\ {start_result, mem_valid, mem_valid_d1, mem_valid_d2, result_valid} \subseteq BOOLEAN

(* Every register holds a value of its kind and every address that is      *)
(* written stays inside its memory (rtl/In_buffer.v, Buffer_feeder.v,      *)
(* Out_buffer.v, GEMM_core.v, GEMM_top.v).  The expected sizes alone are   *)
(* not bounded by a depth: between jobs they follow registers that hold    *)
(* parts of two configurations.                                            *)
TypeOK ==
  /\ IBTypeOK /\ BFTypeOK /\ OBTypeOK
  /\ {core_active, job_busy, job_done, clear_accepted, clear_busy_error} \subseteq BOOLEAN
  /\ job \in 1..Jobs+1 /\ written \in 0..4 /\ settled \in 0..SettleClocks
  /\ \A ch \in Channels : sent[ch] \in 0..InputDepth

(* Every beat on the result stream is the next one of the running job: it  *)
(* holds, for its row and N block, the partial sum of every K block exactly*)
(* once and in order, quantized with the job's own shift; TLAST is on the  *)
(* final beat and only there, and no beat follows it (the whole path from  *)
(* In_buffer.v to Out_buffer.v).                                           *)
ResultBeatsExact ==
  result_valid =>
    /\ job <= Jobs
    /\ received < ResultBeats(job)
    /\ result_data = ExactBeat(job, received)
    /\ ResultLast <=> received = ResultBeats(job) - 1

(* When a job has delivered its last beat, every accumulator has been      *)
(* cleared, whatever the back-pressure was: nothing of it can leak into    *)
(* the next job (write port of Out_buffer.v, lines 236-241).               *)
NothingLeftInAccumulators ==
  ~JobStarted => \A a \in 0..OutputDepth-1 : accum_mem[a] = Zero

(* The accumulator prefetched for a partial sum is the current content of  *)
(* the word the sum is added to: the read-modify-write of Out_buffer.v     *)
(* never works on a stale read (lines 207-212 and 250-257).                *)
AccumulatorReadIsFresh ==
  PartialValid => read_data = AccumWord(accum_write_addr)

(* A row in flight in the array meets the weights it entered with until it *)
(* leaves: no tile is loaded over a row still in the array (the schedule   *)
(* of Buffer_feeder.v, lines 236-262).                                     *)
WeightsStationary ==
  \A i \in 0..ResultLatency : pipe[i].valid => pipe[i].sum[2] = pe_weights

(* The feeder takes every beat InputBuffer replays on the clock it is      *)
(* shown.  The read address of In_buffer.v is not held for a beat that is  *)
(* not taken (lines 125-131), so a refused beat would be lost.             *)
ReplayNeverStalls == \A ch \in Channels : buffer_valid[ch] => TileReady(ch)

(* From its first beat to its last, a job runs under the configuration     *)
(* software wrote for it, although the registers may already hold parts of *)
(* the next job's (GEMM_core.v, lines 69-109).                             *)
ConfigFrozen == JobStarted => cfg = JobConfig(job)

(* The status software polls: from the first beat of a job to its last the *)
(* job is busy and not done, also while the done flag of the previous job  *)
(* was still set or is being cleared; busy and done are never both set     *)
(* (GEMM_top.v).                                                           *)
StatusTruthful ==
  /\ JobStarted => job_busy /\ ~job_done
  /\ ~(job_busy /\ job_done)

(* A result beat that is not taken stays on the stream unchanged, as       *)
(* AXI4-Stream requires of a master (Out_buffer.v, o_result_valid,         *)
(* o_result_data and o_result_last).                                       *)
ResultHeld ==
  [][result_valid /\ received' = received /\ job' = job
     => result_valid' /\ result_data' = result_data /\ ResultLast' = ResultLast]_vars

(* Every job the host configures is delivered completely, also the ones    *)
(* after the first: no lost last flag, stuck counter or missed start.      *)
EveryJobCompletes == <>(job = Jobs + 1 /\ job_done)

(* docs/programming-model.md:221 says "result_beats = row_count x          *)
(* n_block_count" and :225 "The result stream asserts `TLAST` on the final *)
(* beat", for every row_count of its encoded range but zero (:99, :103):   *)
(* the result stream is silent unless beats of the running job remain.  A  *)
(* job of one row breaks this: ComputeLast is true on every clock in which *)
(* the feature counter is zero, the last flag enters the array without a   *)
(* row, and the output is started again from each of these flags.          *)
OnlyConfiguredBeats ==
  result_valid => job <= Jobs /\ JobStarted /\ received < ResultBeats(job)

-----------------------------------------------------------------------------
(* What the accelerator promises, seen from the host. *)

JobStatus == IF job_done THEN "done" ELSE IF job_busy THEN "busy" ELSE "idle"

Service == INSTANCE GemmService WITH status <- JobStatus,
                                     InputBeats <- [j \in 1..Jobs |->
                                        [ch \in Channels |-> StreamBeats(j, ch)]],
                                     OutputBeats <- [j \in 1..Jobs |-> ResultBeats(j)]

(* The accelerator implements the service: it takes each input beat once,  *)
(* delivers only after it has all of them, reports busy from the first     *)
(* beat on and done only once the last result beat is taken, and clears    *)
(* done only on request or when the next job starts.                       *)
ImplementsService == Service!Spec

=============================================================================
