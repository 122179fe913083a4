---------------------------- MODULE FpgaRuntime ----------------------------
(***************************************************************************)
(* The Linux runtime on the board (software/FPGA/FPGA_GEMM.cpp): a caller  *)
(* makes sure that the board is ready, then fpga_gemm_run packs the        *)
(* operands, configures the accelerator, starts three DMA channels, waits  *)
(* for them and unpacks the result.  The channels move beats between       *)
(* memory and the accelerator, which is the one of GemmService: that holds *)
(* of jobs of two rows and more (RowsAssumption).                          *)
(*                                                                         *)
(* The control flow of the caller is pc; step counts the channels inside   *)
(* a sequence of calls.  One fault may strike: a channel stops with an     *)
(* error, or without; mapping a region, resetting a channel or reading     *)
(* back a register fails.                                                  *)
(***************************************************************************)
EXTENDS WeightCache, Sequences

CONSTANTS
  BufferDepth,     \* IP_BUFFER_DEPTH
  WindowSize,      \* DDR_FEAT_SIZE and DDR_RSLT_SIZE
  RowLimit,        \* 2 ^ width of the row count register
  BlockLimit,      \* 2 ^ width of the block count registers
  Requests,        \* what may be asked: address, quantization, m rows, a K by N weight
  MaxCalls,        \* calls of fpga_gemm_run
  Faults,          \* faults that may strike
  ReloadAnytime    \* tensors are also replaced while their weights are cached

Channels == {"feature", "weight", "result"}
FaultKinds == [kind : {"error", "stuck", "reset"}, ch : Channels]
                \cup [kind : {"map", "readback"}, ch : {"feature"}]

ASSUME RuntimeAssumption ==
  /\ Requests \subseteq [a : Addresses, quant : {"supported", "unknown"},
                         m : Nat, K : Nat, N : Nat]
  /\ MaxCalls \in Nat
  /\ Faults \subseteq FaultKinds
  /\ ReloadAnytime \in BOOLEAN
  /\ {BufferDepth, WindowSize, RowLimit, BlockLimit} \subseteq Nat \ {0}
  /\ BufferDepth <= WindowSize

(* No request has a single row.  The code launches those too, but then the *)
(* accelerator is not the one of GemmService: it takes any clock without a *)
(* feature for the last row (Buffer_feeder.v:104) and goes on after its    *)
(* last beat, as MCGemmJobsSingleRow shows.                                *)
ASSUME RowsAssumption == \A r \in Requests : r.m # 1

VARIABLES
  pc, step,              \* the caller
  call, t_call,          \* the request of the call, and the tensor it is about
  calls,                 \* number of the call
  outcome, C,            \* how the call ended, and the caller's output
  g_ready,               \* fpga_gemm_init has succeeded
  ok, saw_busy,          \* of the waits
  ddr_feat, ddr_rslt,    \* packed features, result
  regs,                  \* the registers: rows and blocks
  dma,                   \* the channels
  config, loaded,        \* the accelerator: configuration and beats of the job,
  job, sent, received, status,     \* and the variables of GemmService
  fault                  \* the fault that has struck

callVars == <<call, t_call, calls, outcome, C>>
memVars == <<ddr_feat, ddr_rslt>>
gemmVars == <<config, loaded, job, sent, received, status>>
vars == <<cacheVars, pc, step, callVars, g_ready, ok, saw_busy, memVars, regs, dma,
          gemmVars, fault>>

NoFault == [kind |-> "none", ch |-> "feature"]
NoConfig == [m |-> 0, k |-> 0, n |-> 0]

\* A request with its extents in blocks: K_pad and N_pad.
Padded(r) == [a |-> r.a, quant |-> r.quant, m |-> r.m, K |-> r.K, N |-> r.N,
              k |-> Blocks(r.K), n |-> Blocks(r.N)]
PaddedRequests == {Padded(r) : r \in Requests}

FeatureBeats(s) == s.m * s.k
ResultBeats(s) == s.m * s.n

\* The configuration of a job: of the running one, or what the next will latch.
JobConfig == IF sent["feature"] + sent["weight"] = 0 THEN regs ELSE config

Gemm == INSTANCE GemmService
  WITH Jobs <- MaxCalls,
       InputBeats <- [j \in 1..MaxCalls |->
                        [feature |-> FeatureBeats(JobConfig),
                         weight |-> WeightBeats(JobConfig.k, JobConfig.n)]],
       OutputBeats <- [j \in 1..MaxCalls |-> ResultBeats(JobConfig)]

Halted == [state |-> "halted", ioc |-> FALSE, addr |-> 0, left |-> 0]
NoOutput == <<>>

Init ==
  /\ CacheInit
  /\ Gemm!Init
  /\ pc = "caller" /\ step = 1
  /\ call \in PaddedRequests /\ t_call = tensors[call.a] /\ calls = 0
  /\ outcome = "none" /\ C = NoOutput
  /\ g_ready = FALSE /\ ok = TRUE /\ saw_busy = FALSE
  /\ ddr_feat = [x \in 0..WindowSize-1 |-> Junk]
  /\ ddr_rslt = [x \in 0..WindowSize-1 |-> Junk]
  /\ regs = NoConfig
  /\ dma = [ch \in Channels |-> Halted]
  /\ config = NoConfig
  /\ loaded = [feature |-> <<>>, weight |-> <<>>]
  /\ fault = NoFault

-----------------------------------------------------------------------------
(* Control flow *)

Goto(label) == pc' = label /\ step' = 1

\* The call ends without touching the output.
Return(how) == Goto("caller") /\ outcome' = how /\ UNCHANGED <<call, t_call, calls, C>>

\* The next of three channels, or on to label after the third.
NextChannel(label) ==
  IF step < 3 THEN step' = step + 1 /\ pc' = pc ELSE Goto(label)

\* A fault strikes, at most once.
Strikes(f) == f \in Faults /\ fault = NoFault /\ fault' = f

-----------------------------------------------------------------------------
(* fpga_gemm_is_ready and fpga_gemm_init *)

\* The hook calls: a ready board runs, any other is initialised first.
Call(r) ==
  /\ pc = "caller" /\ calls < MaxCalls
  /\ call' = Padded(r) /\ t_call' = tensors[r.a] /\ calls' = calls + 1
  /\ outcome' = "none" /\ C' = NoOutput
  /\ Goto(IF g_ready THEN "checks" ELSE "open")
  /\ UNCHANGED <<cacheVars, g_ready, ok, saw_busy, memVars, regs, dma, gemmVars, fault>>

\* Open /dev/mem and map the registers and the memory windows.
OpenAndMap ==
  /\ pc = "open"
  /\ \/ Goto("reset") /\ UNCHANGED <<callVars, fault>>
     \/ Strikes([kind |-> "map", ch |-> "feature"]) /\ Return("not_ready")
  /\ UNCHANGED <<cacheVars, g_ready, ok, saw_busy, memVars, regs, dma, gemmVars>>

ResetOrder == <<"feature", "weight", "result">>

\* dma_reset_channel; the last reset ends the initialisation.
ResetChannel ==
  LET ch == ResetOrder[step] IN
  /\ pc = "reset"
  /\ \/ /\ dma' = [dma EXCEPT ![ch] = Halted]
        /\ NextChannel("checks")
        /\ IF step = 3 THEN ResetPool /\ g_ready' = TRUE
                       ELSE UNCHANGED <<g_weight_cache, g_wpool_offset, g_ready>>
        /\ UNCHANGED <<callVars, fault>>
     \/ /\ Strikes([kind |-> "reset", ch |-> ch])
        /\ Return("not_ready")
        /\ UNCHANGED <<dma, g_weight_cache, g_wpool_offset, g_ready>>
  /\ UNCHANGED <<tensors, ddr_wght, ok, saw_busy, memVars, regs, gemmVars>>

\* fpga_gemm_cleanup; neither the channels nor the accelerator are reset.
Cleanup ==
  /\ pc = "caller" /\ g_ready
  /\ ClearCache
  /\ g_ready' = FALSE
  /\ UNCHANGED <<tensors, g_wpool_offset, ddr_wght, pc, step, callVars, ok, saw_busy,
                 memVars, regs, dma, gemmVars, fault>>

\* The caller frees a tensor and loads another at its address.
Reload(a, t) ==
  /\ pc = "caller" /\ (ReloadAnytime \/ ~g_ready)
  /\ LoadTensor(a, t)
  /\ UNCHANGED <<pc, step, callVars, g_ready, ok, saw_busy, memVars, regs, dma, gemmVars, fault>>

-----------------------------------------------------------------------------
(* fpga_gemm_run: checks, packing, weights *)

\* Mutant: a row count too wide for its register is let through.
ShapeOKWithoutRowLimit(r) ==
  /\ r.m > 0 /\ r.K > 0 /\ r.N > 0
  /\ r.k < BlockLimit /\ r.n < BlockLimit
  /\ FeatureBeats(r) <= BufferDepth /\ WeightBeats(r.k, r.n) <= BufferDepth
  /\ ResultBeats(r) <= BufferDepth
  /\ WeightBeats(r.k, r.n) <= PoolSize

\* The registers can hold the shape, the buffers and the windows its streams.
ShapeOK(r) ==
  /\ r.m > 0 /\ r.K > 0 /\ r.N > 0
  /\ r.m < RowLimit /\ r.k < BlockLimit /\ r.n < BlockLimit
  /\ FeatureBeats(r) <= BufferDepth /\ WeightBeats(r.k, r.n) <= BufferDepth
  /\ ResultBeats(r) <= BufferDepth
  /\ FeatureBeats(r) <= WindowSize /\ ResultBeats(r) <= WindowSize
  /\ WeightBeats(r.k, r.n) <= PoolSize

CheckShape ==
  /\ pc = "checks"
  /\ IF ShapeOK(call) THEN Goto("pack") /\ UNCHANGED callVars ELSE Return("refused")
  /\ UNCHANGED <<cacheVars, g_ready, ok, saw_busy, memVars, regs, dma, gemmVars, fault>>

\* A beat of the activation of call c.
FeatureBeat(c, i) == [call |-> c, beat |-> i]

\* Beat i of the result of a job, and what is there before it.
Product(cfg, f, w, i) == [config |-> cfg, features |-> f, weights |-> w, beat |-> i]
Zero == Product(NoConfig, <<>>, <<>>, 0)

\* Quantize the activation into ddr_feat, clear as much of ddr_rslt as will be read.
Pack ==
  /\ pc = "pack"
  /\ ddr_feat' = [x \in 0..WindowSize-1 |-> IF x < FeatureBeats(call)
                                            THEN FeatureBeat(calls, x) ELSE ddr_feat[x]]
  /\ ddr_rslt' = [x \in 0..WindowSize-1 |-> IF x < ResultBeats(call)
                                            THEN Zero ELSE ddr_rslt[x]]
  /\ Goto("weight")
  /\ UNCHANGED <<cacheVars, callVars, g_ready, ok, saw_busy, regs, dma, gemmVars, fault>>

\* The weight is not cached and cannot be: its type is unknown, or the pool is full.
WeightFails ==
  /\ pc = "weight" /\ ~Cached(call.a)
  /\ call.quant = "unknown" \/ PoolFull(WeightBeats(call.k, call.n))
  /\ Return("refused")
  /\ UNCHANGED <<cacheVars, g_ready, ok, saw_busy, memVars, regs, dma, gemmVars, fault>>

CacheWeight ==
  /\ pc = "weight" /\ ~Cached(call.a)
  /\ call.quant # "unknown"
  /\ StoreWeight(call.a, call.K, call.N)
  /\ Goto("padding")
  /\ UNCHANGED <<callVars, g_ready, ok, saw_busy, memVars, regs, dma, gemmVars, fault>>

FindWeight ==
  /\ pc = "weight" /\ Cached(call.a)
  /\ Goto("padding")
  /\ UNCHANGED <<cacheVars, callVars, g_ready, ok, saw_busy, memVars, regs, dma, gemmVars,
                 fault>>

\* The entry of the call: nobody else changes the cache.
we == g_weight_cache[call.a]

\* Mutant: only the size of the entry is compared, not its shape.
SamePaddingBySize == we.size = WeightBeats(call.k, call.n)

\* The padded extents and the size are compared, not the extents that were packed.
SamePadding == we.k = call.k /\ we.n = call.n /\ we.size = WeightBeats(call.k, call.n)

CheckPadding ==
  /\ pc = "padding"
  /\ IF SamePadding THEN Goto("wait_idle") /\ UNCHANGED callVars ELSE Return("refused")
  /\ UNCHANGED <<cacheVars, g_ready, ok, saw_busy, memVars, regs, dma, gemmVars, fault>>

-----------------------------------------------------------------------------
(* The DMA channels and the accelerator *)

\* What the next beat of an input channel is read from.
BeatAt(ch) == IF ch = "feature" THEN ddr_feat[dma[ch].addr] ELSE ddr_wght[dma[ch].addr]

CanFeed(ch) ==
  /\ dma[ch].state = "running" /\ dma[ch].left > 0
  /\ job <= MaxCalls
  /\ sent[ch] < (IF ch = "feature" THEN FeatureBeats(JobConfig)
                                   ELSE WeightBeats(JobConfig.k, JobConfig.n))

\* An MM2S channel reads a beat and the accelerator takes it.
Feed(ch) ==
  /\ CanFeed(ch)
  /\ Gemm!Load({ch})
  /\ config' = JobConfig
  /\ loaded' = [loaded EXCEPT ![ch] = Append(@, BeatAt(ch))]
  /\ dma' = [dma EXCEPT ![ch].addr = @ + 1, ![ch].left = @ - 1]
  /\ UNCHANGED <<cacheVars, pc, step, callVars, g_ready, ok, saw_busy, memVars, regs, fault>>

CanDeliver == status = "busy" /\ Gemm!Loaded /\ dma["result"].state = "running"
              /\ dma["result"].left > 0 /\ job <= MaxCalls

\* The accelerator delivers a beat and the S2MM channel writes it; TLAST ends the transfer.
Deliver ==
  LET last == received = ResultBeats(config) - 1 IN
  /\ CanDeliver
  /\ Gemm!Deliver \/ Gemm!DeliverLast
  /\ ddr_rslt' = [ddr_rslt EXCEPT ![dma["result"].addr] =
                    Product(config, loaded.feature, loaded.weight, received)]
  /\ dma' = [dma EXCEPT !["result"].addr = @ + 1, !["result"].left = IF last THEN 0 ELSE @ - 1]
  /\ loaded' = IF last THEN [feature |-> <<>>, weight |-> <<>>] ELSE loaded
  /\ UNCHANGED <<cacheVars, pc, step, callVars, g_ready, ok, saw_busy, ddr_feat, regs, config,
                 fault>>

CanComplete(ch) == dma[ch].state = "running" /\ dma[ch].left = 0

\* Some time after its last beat the channel reports it.
Complete(ch) ==
  /\ CanComplete(ch)
  /\ dma' = [dma EXCEPT ![ch].state = "idle", ![ch].ioc = TRUE]
  /\ UNCHANGED <<cacheVars, pc, step, callVars, g_ready, ok, saw_busy, memVars, regs, gemmVars,
                 fault>>

\* A running channel stops, with an error or silently.
ChannelFault(ch, kind) ==
  /\ dma[ch].state = "running"
  /\ Strikes([kind |-> kind, ch |-> ch])
  /\ dma' = [dma EXCEPT ![ch].state = kind]
  /\ UNCHANGED <<cacheVars, pc, step, callVars, g_ready, ok, saw_busy, memVars, regs, gemmVars>>

\* A time-out (millions of polls) outlasts everything the hardware can still do.
HardwareAtRest ==
  /\ \A ch \in {"feature", "weight"} : ~CanFeed(ch)
  /\ \A ch \in Channels : ~CanComplete(ch)
  /\ ~CanDeliver

\* Mutant: the waits have no time-out.
NeverTimesOut == FALSE

TimesOut == HardwareAtRest

\* Mutant: dma_mm2s_start and dma_s2mm_start leave a stale completion bit set.
StaleDoneAfterStart(d) == d.ioc

\* IOC after a start: the bit is written with one to clear it.
DoneAfterStart(d) == FALSE

(* A start takes effect on a stopped channel.  On a running one the effect *)
(* of a new length is undefined: it is ignored, or starts a new transfer.  *)
AfterStart(d, addr, beats) ==
  LET started == [state |-> "running", ioc |-> DoneAfterStart(d), addr |-> addr, left |-> beats]
      cleared == [d EXCEPT !.ioc = DoneAfterStart(d)]
  IN  CASE d.state \in {"halted", "idle"} -> {started}
        [] d.state = "running" -> {started, cleared}
        [] OTHER -> {cleared}

-----------------------------------------------------------------------------
(* fpga_gemm_run: configure, start, wait, unpack *)

\* gemm_wait_idle: the call is given up after a time-out.
WaitIdle ==
  /\ pc = "wait_idle"
  /\ \/ status # "busy" /\ Goto("configure") /\ UNCHANGED callVars
     \/ status = "busy" /\ TimesOut /\ Return("hardware")
  /\ UNCHANGED <<cacheVars, g_ready, ok, saw_busy, memVars, regs, dma, gemmVars, fault>>

\* The request as the registers can hold it.
Registers(r) == [m |-> r.m % RowLimit, k |-> r.k % BlockLimit, n |-> r.n % BlockLimit]

\* gemm_configure: clear a done that is set, write the registers, read them back.
Configure ==
  /\ pc = "configure"
  /\ IF status = "done" THEN Gemm!ClearDone ELSE UNCHANGED <<job, sent, received, status>>
  /\ regs' = Registers(call)
  /\ \/ /\ IF regs' = [m |-> call.m, k |-> call.k, n |-> call.n]
           THEN Goto("start") /\ UNCHANGED callVars ELSE Return("hardware")
        /\ UNCHANGED fault
     \/ Strikes([kind |-> "readback", ch |-> "feature"]) /\ Return("hardware")
  /\ UNCHANGED <<cacheVars, g_ready, ok, saw_busy, memVars, dma, config, loaded>>

StartOrder == <<"result", "feature", "weight">>

\* The transfer of each channel: where it starts in its memory, and its beats.
StartAddr(ch) == IF ch = "weight" THEN we.off ELSE 0
StartBeats(ch) == CASE ch = "weight"  -> we.size
                    [] ch = "feature" -> FeatureBeats(call)
                    [] ch = "result"  -> ResultBeats(call)

StartChannel ==
  LET ch == StartOrder[step] IN
  /\ pc = "start"
  /\ \E d \in AfterStart(dma[ch], StartAddr(ch), StartBeats(ch)) : dma' = [dma EXCEPT ![ch] = d]
  /\ NextChannel("wait")
  /\ ok' = TRUE /\ saw_busy' = FALSE
  /\ UNCHANGED <<cacheVars, callVars, g_ready, memVars, regs, gemmVars, fault>>

\* Mutant: the weight channel is not waited for.
WaitOrderWithoutWeight == <<"feature", "feature", "result">>

WaitOrder == <<"feature", "weight", "result">>

\* One wait has ended; all three are waited for before any failure is acted on.
Waited(success) ==
  /\ ok' = (ok /\ success)
  /\ saw_busy' = FALSE
  /\ NextChannel("waited")

\* One poll of dma_wait_done, or its time-out.
Poll ==
  LET d == dma[WaitOrder[step]] IN
  /\ pc = "wait"
  /\ \/ d.state = "error" /\ Waited(FALSE)
     \/ d.state # "error" /\ (d.ioc \/ (d.state = "idle" /\ saw_busy)) /\ Waited(TRUE)
     \/ d.state \notin {"error", "idle"} /\ ~d.ioc /\ saw_busy' = TRUE /\ UNCHANGED <<pc, step, ok>>
     \/ d.state # "error" /\ ~d.ioc /\ TimesOut /\ Waited(FALSE)
  /\ UNCHANGED <<cacheVars, callVars, g_ready, memVars, regs, dma, gemmVars, fault>>

\* Element x of the output of a call: the beat of the result and the lane it is in.
BeatOf(x) == (x \div call.N) * call.n + (x % call.N) \div ArraySize
LaneOf(x) == (x % call.N) % ArraySize

\* A byte times a scale: its own gives back the element of the tensor, up to rounding.
Scaled(byte, scale) ==
  CASE byte = Padding      -> Padding
    [] byte.view = scale   -> [byte EXCEPT !.view = <<scale[1]>>]
    [] OTHER               -> [byte EXCEPT !.view = <<byte.view, scale>>]

\* One lane of a result beat, as a number: the features by a column of scaled weights.
Element(beat, lane, scale) ==
  [ beat |-> beat.beat, features |-> beat.features, lane |-> lane,
    weights |-> [k \in 0..beat.config.k * ArraySize - 1 |->
                   LET i == k * beat.config.n + (beat.beat % beat.config.n)
                   IN  Scaled(beat.weights[i + 1][lane], scale)] ]

\* The columns below N are copied out, or the call is given up.
Unpack ==
  /\ pc = "waited"
  /\ IF ~ok THEN Return("hardware")
     ELSE /\ C' = [x \in 0..call.m * call.N - 1 |->
                     Element(ddr_rslt[BeatOf(x)], LaneOf(x), we.scale)]
          /\ outcome' = "product"
          /\ Goto("caller")
          /\ UNCHANGED <<call, t_call, calls>>
  /\ UNCHANGED <<cacheVars, g_ready, ok, saw_busy, memVars, regs, dma, gemmVars, fault>>

-----------------------------------------------------------------------------
Caller ==
  \/ OpenAndMap \/ ResetChannel
  \/ CheckShape \/ Pack \/ WeightFails \/ CacheWeight \/ FindWeight \/ CheckPadding
  \/ WaitIdle \/ Configure \/ StartChannel \/ Poll \/ Unpack

Board == \/ \E ch \in {"feature", "weight"} : Feed(ch)
         \/ Deliver
         \/ \E ch \in Channels : Complete(ch)

Environment ==
  \/ \E r \in Requests : Call(r)
  \/ Cleanup
  \/ \E a \in Addresses, t \in Tensors : Reload(a, t)
  \/ \E ch \in Channels, kind \in {"error", "stuck"} : ChannelFault(ch, kind)

Next == Caller \/ Board \/ Environment

Spec == Init /\ [][Next]_vars

(* The thread that called runs, and the hardware finishes what it can.  A  *)
(* call, a clean-up or a fault need never come.                            *)
FairSpec == Spec /\ WF_vars(Caller) /\ WF_vars(Board)

-----------------------------------------------------------------------------
(* Properties *)

TypeOK ==
  /\ CacheTypeOK
  /\ pc \in {"caller", "open", "reset", "checks", "pack", "weight", "padding", "wait_idle",
             "configure", "start", "wait", "waited"}
  /\ step \in 1..3
  /\ call \in PaddedRequests /\ t_call \in Tensors /\ calls \in 0..MaxCalls
  /\ outcome \in {"none", "not_ready", "refused", "hardware", "product"}
  /\ {g_ready, ok, saw_busy} \subseteq BOOLEAN
  /\ {regs, config} \subseteq [m : 0..RowLimit-1, k : 0..BlockLimit-1, n : 0..BlockLimit-1]
  /\ dma \in [Channels -> [state : {"halted", "running", "idle", "error", "stuck"},
                           ioc : BOOLEAN, addr : Nat, left : Nat]]
  /\ status \in {"idle", "busy", "done"} /\ fault \in Faults \cup {NoFault}

\* What beat i of the result of the current call must be.
OwnBeat(i) ==
  Product([m |-> call.m, k |-> call.k, n |-> call.n],
          [j \in 1..FeatureBeats(call) |-> FeatureBeat(calls, j - 1)],
          [j \in 1..WeightBeats(call.k, call.n) |-> PackedBeat(t_call, call.K, call.N, j - 1)],
          i)

OwnProduct == [x \in 0..call.m * call.N - 1 |->
                 Element(OwnBeat(BeatOf(x)), LaneOf(x), <<t_call, call.K, call.N>>)]

(* Hypothesis of ResultsAreTheCalls: no two views of an address are padded *)
(* to the same shape.  SamePadding cannot tell such views apart.           *)
OneViewPerPadding ==
  \A r, s \in PaddedRequests :
    r.a = s.a /\ r.k = s.k /\ r.n = s.n => r.K = s.K /\ r.N = s.N

(* A call that fills the caller's output fills all of it with the product  *)
(* of its own activation and its own tensor, in every row and column it    *)
(* asked for, after any history of views, refused and failed calls and     *)
(* clean-ups; any other call leaves it alone                               *)
(* (FPGA_GEMM.cpp:512-524, "acc[m,n] = sum_k feat_q[m,k]*wght_q[k,n]").     *)
ProductIsOwn == C = IF outcome = "product" THEN OwnProduct ELSE NoOutput

(* While no fault strikes, no call fails for the hardware: no wait times   *)
(* out, no register reads back wrong (the shape checks, gemm_configure,    *)
(* dma_wait_done).  It speaks of jobs of two rows or more: what follows a  *)
(* job of a single row is left out by RowsAssumption.                      *)
HealthyRunsDeliver == fault = NoFault => outcome # "hardware"

(* No channel that is still moving a transfer is started again, not after  *)
(* a failed call either (dma_s2mm_start, dma_mm2s_start).                  *)
ChannelsFreeAtStart ==
  pc = "start" => \A i \in step..3 : dma[StartOrder[i]].state # "running"

(* Every call returns, also when a channel never answers (the time-outs of *)
(* wait_reg_clear, gemm_wait_idle and dma_wait_done).                      *)
EveryRunReturns == pc # "caller" ~> pc = "caller"
=============================================================================
