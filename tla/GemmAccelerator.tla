-------------------------- MODULE GemmAccelerator --------------------------
(***************************************************************************)
(* rtl/GEMM_core.v and the job status of rtl/GEMM_top.v: InputBuffer,      *)
(* BufferFeeder and OutputBuffer wired together on one clock, the          *)
(* configuration that is frozen while a job is active, and the busy and    *)
(* done flags software polls.                                              *)
(***************************************************************************)
EXTENDS BufferFeeder, OutputBuffer

VARIABLES
  core_active,        \* r_core_active
  cfg,                \* r_cfg_row_count, r_cfg_k_block_count, ...
  job_busy,           \* r_job_busy
  job_done,           \* r_job_done
  clear_accepted,     \* r_job_clear_accepted
  clear_busy_error    \* r_job_clear_busy_error

topVars == <<core_active, cfg, job_busy, job_done, clear_accepted, clear_busy_error>>

ResetConfig == [rows |-> 0, k |-> 0, n |-> 0, shift |-> 0]

TopInit ==
  /\ IBInit /\ BFInit /\ OBInit
  /\ core_active = FALSE
  /\ cfg = ResetConfig
  /\ job_busy = FALSE /\ job_done = FALSE
  /\ clear_accepted = FALSE /\ clear_busy_error = FALSE

-----------------------------------------------------------------------------
(* in: the beats offered by the two stream slaves; rdy: tready of the      *)
(* result stream; regs: the register file; clear: o_job_start_clear.       *)

InputAccept(in) == \E ch \in Channels : StreamAccept(in, ch)
FinalResultAccept(rdy) == result_valid /\ rdy /\ ResultLast

CoreActivity(in) == \/ InputAccept(in)
                    \/ \E ch \in Channels : buffer_valid[ch]
                    \/ PartialValid
                    \/ result_valid

NextCoreActive(in, rdy) == ~FinalResultAccept(rdy) /\ (core_active \/ CoreActivity(in))

\* Mutant: the configuration follows the registers at all times.
NextCfgTransparent(in, regs) == regs

NextCfg(in, regs) == IF core_active \/ CoreActivity(in) THEN cfg ELSE regs

\* The final beat takes precedence over activity, activity over the clear.
NextJobBusy(in, rdy) ==
  ~FinalResultAccept(rdy) /\ (job_busy \/ InputAccept(in) \/ result_valid)

\* Mutant: done is raised when the final beat is offered, not when it is taken.
NextJobDoneEarly(in, rdy, clear) ==
  \/ ResultLast
  \/ job_done /\ ~InputAccept(in) /\ ~(clear /\ ~job_busy)

\* Mutant: done stays until software clears it, also when the next job starts.
NextJobDoneSticky(in, rdy, clear) ==
  \/ FinalResultAccept(rdy)
  \/ job_done /\ ~(clear /\ ~job_busy)

NextJobDone(in, rdy, clear) ==
  \/ FinalResultAccept(rdy)
  \/ job_done /\ ~(InputAccept(in) \/ result_valid) /\ ~(clear /\ ~job_busy)

TopClock(in, rdy, regs, clear) ==
  /\ IBClock(cfg, in, PartialLast, FeederReady)
  /\ BFClock(cfg)
  /\ OBClock(cfg, PartialOut, PartialLast, rdy)
  /\ core_active' = NextCoreActive(in, rdy)
  /\ cfg' = NextCfg(in, regs)
  /\ job_busy' = NextJobBusy(in, rdy)
  /\ job_done' = NextJobDone(in, rdy, clear)
  /\ clear_accepted' = (clear /\ ~job_busy)
  /\ clear_busy_error' = (clear /\ job_busy)

=============================================================================
