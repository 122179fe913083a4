# A verification project for the 32x32 GEMM accelerator core

TLA+ models, TLC runs and TLAPS proofs for the GEMM accelerator in this repository: the RTL core under `src/rtl`, the AXI
wrappers under `src/axi_ip`, and the Linux software that drives it. Every definition is translated from the source;
`PROJECT.json` maps each one to the lines it stands for.

## 1. The system

A host multiplies an M x K matrix of signed bytes (features) by a K x N matrix (weights). Both are streamed into the
accelerator once; it computes in tiles of 32 x 32, accumulates over K blocks, shifts, rounds and saturates each sum to a byte, and
streams the result out in row-major order. A job is configured by four registers: shift, rows, K blocks, N blocks.

| Component | State it keeps | Operations | Talks to |
|---|---|---|---|
| InputBuffer (`rtl/In_buffer.v`) | one memory per stream, write counts and addresses, replay addresses, three-state machine | store a beat; replay all features and one tile of weights per K block and N block | streams in, BufferFeeder out; `total_last` comes back from the compute core |
| BufferFeeder (`rtl/Buffer_feeder.v`) | one tile memory per stream, counts, scheduler state, stream counters | take replayed beats; stream a weight tile, then the rows | InputBuffer, GemmComputeCore |
| GemmComputeCore (`rtl/Gemm_compute_core.v`) | weight shift register, valid and last pipes | load a tile; push a row; emit partial sums with their flags | array, OutputBuffer |
| ProcessingElementArray (`rtl/PE*.v`) | weights, products, partial sums, skew and alignment registers | one multiply-add per element and clock | GemmComputeCore |
| OutputBuffer (`rtl/Out_buffer.v`) | accumulator memory, prefetch register, three-stage read pipeline, counters | add a partial sum; count K blocks; stream, quantize and clear | compute core, result stream |
| SignedAdder, RightShifter | none (combinational) | saturating add; rounding, saturating shift | OutputBuffer |
| GEMMCore, GEMM_top (`rtl/GEMM_core.v`, `GEMM_top.v`) | frozen configuration, activity flag, busy, done, clear flags | freeze registers while active; start, finish, clear a job | all of the above, registers |
| Control registers (`axi_ip/Control_register_file.v`) | four registers, AXI-Lite handshake flags | write, read, pulse a clear | host, GEMM_top |
| Stream slaves and master (`axi_ip/*axis*.v`) | none | wires, with a filter on partial TSTRB | DMA, core |
| Linux runtime (`software/FPGA/FPGA_GEMM.cpp`) | mutex, ready flag, mapped regions, weight cache and its pool | init, cleanup, is_ready, run (pack, configure, start two input DMAs and one output DMA, wait, unpack) | registers, DMA engines, kernel driver |
| ggml hook and barrier (`software/ggml-cpu/ggml-cpu.c`) | per-thread control flow, barrier counters | thread 0 offloads a product, the others wait at a barrier; CPU fallback | runtime |
| DMA buffer driver (`linux/ubuntu/kernel_for_dma_buf.c`) | three coherent regions, a misc device | init, exit, ioctl, mmap | runtime |

**What is hard.** Every RTL block registers its inputs and outputs, so state is one to three clocks old wherever it is used; the streams may
pause at any clock and the result may be held at any clock; registers are written while a job runs; nothing is reset between
jobs, so whatever a job leaves behind changes the next one; the flags of a row travel beside the array in a separate shift
register; and sums wrap where the width is short. In software, threads meet at barriers, one of them calls the runtime, and
every failure of the runtime is a return without a status.

**What makes each component correct.**

* InputBuffer: every stored word is replayed in the order the schedule asks for, once per time it is needed, and none is lost to a feeder that is busy.
* BufferFeeder and compute core: a row meets the weights of its own tile and no others; every row of a tile leaves once, with its flags.
* Array: the sums that leave with a row's flag are that row's dot products.
* OutputBuffer: a result beat is the sum of exactly its K blocks; the last flag is on the last beat only; the memory is zero for the next job.
* Arithmetic: nothing wraps or saturates for any job the registers can express; the byte is the rounded, saturated quotient.
* GEMMCore, GEMM_top: a job runs under one configuration; status never lies; every job ends.
* Hook and barrier: all threads leave every barrier; every chunk of a product is computed once, from a complete input; a failed run is seen.
* Control registers: a write lands at its own address whatever the delays of the channels, is answered once, and a clear bit is one pulse; a read is answered and not stale.
* Runtime: what is returned as a product is the product of this call's activation and this call's tensor; a channel is not started while it moves a transfer; packed weights survive; a healthy board fails no call; every call returns.
* Driver: nothing leaks, whichever allocation fails; memory a process has mapped, and addresses it has been given, exist.

`PROJECT.json` lists the hazards of the code at their lines, each with the properties that cover it, or with the reason why none does.

## 2. Modules

    InputBuffer -> BufferFeeder -> OutputBuffer -> GemmAccelerator -> GemmJobs -> GemmSchedule -> MCGemmJobs, GemmJobsProofs
    (each EXTENDS the one before)                  GemmService  <-- refinement --  GemmJobs
    SystolicArray  -> MCSystolicArray,  SystolicArrayProofs
    LaneArithmetic -> MCLaneArithmetic, LaneArithmeticProofs
    ThreadBarrier -> OffloadHook -> MCOffloadHook,  ThreadBarrierProofs -> OffloadHookProofs
    ControlRegisterFile -> MCControlRegisterFile, ControlRegisterFileProofs
    WeightCache -> FpgaRuntime -> MCFpgaRuntime, FpgaRuntimeProofs      (FpgaRuntime INSTANCEs GemmService: the accelerator)
    DmaBufDriver -> MCDmaBufDriver, DmaBufDriverProofs

### The accelerator: InputBuffer, BufferFeeder, OutputBuffer, GemmAccelerator, GemmJobs

Synchronous logic is modelled the way it is written. Each module declares the registers of one Verilog module as VARIABLES; each wire
is an operator on the current state; each `always` block becomes `Next<register>`, the value on the next clock, with the branches
in the order of the source; and one operator (`IBClock`, `BFClock`, `OBClock`, `TopClock`) is the clock edge of the module.
The feature and weight halves of the buffers are the same text twice in the source, so they are one definition over
`Channels == {"feature", "weight"}`. `GemmJobs!Clock` is the whole step: all modules on one edge together with what the host does
on it. The nondeterminism is the environment: which of the two streams is valid, whether the result is taken, and whether the
host writes its next register or a clear.

Data is symbolic. A stream word is `<<job, index>>`; a row meeting a tile becomes the pair of the row and the tile;
a sum is the sequence of the pairs added to it; quantization pairs a sum with the shift. A wrong, missing,
repeated or stale word, tile, accumulator or configuration therefore always shows in the result, never cancels out. Two modules
justify the symbols: `SystolicArray` (in the compute core of `BufferFeeder`, the array is a pipe of `ResultLatency` clocks) and
`LaneArithmetic` (sums are exact integers).

`GemmJobs` is also the host as the accelerator sees it, after `fpga_gemm_run`: it writes the registers in the order of `gemm_configure`,
starts the streams, each with TLAST on its last beat, and takes the result. It is more permissive than the runtime, which waits for
idle first: the registers of the next job may be written, and a clear issued, at any clock of a running job.

Left out of these modules: the TSTRB filter of the stream slaves (the host sends full beats), the reset during a job (the
system resets once, at the start), and the width of addresses and counters, which a job that fits
the memories never exceeds (`TypeOK` bounds each by its depth). The four expected sizes alone are only numbers in `TypeOK`: between jobs they are computed from
registers that may hold parts of two configurations, and only the result counter and the clear address look at them then; both are set again in the job.

`GemmSchedule` adds no behaviour. It says, in the terms of the RTL, what every register holds at each clock of a job (`Scheduled`): it is the
invariant the proofs of section 4 rest on, checked by TLC on the small instance like any other, and the description of the timing
that the source leaves implicit.

### SystolicArray

The registers of all processing elements of an array of any size: skewed feature inputs (`Skew`), feature and partial-sum pipes, the multiplier register, the
output alignment (`Alignment`), and the valid shift register of the compute core. A product is the pair of its operands. Weights may be loaded when no row is in flight,
which is what `WeightsStationary` shows of the feeder. The history variable `in_flight` holds the row each stage of the valid pipe stands for.

### LaneArithmetic

One output lane as signed integers of the widths of the hardware: products of two bytes, a partial sum of 21 bits that wraps, an
accumulator of 32 bits that saturates, a shift with rounding to nearest and saturation. `Pow2` is a constant characterised by an assumption
(`Pow2[i]` is 2^i), which lets the same module be proved about. The history variable `exact` is the mathematical sum.

### GemmService

The accelerator as software may rely on it: take each beat once, be busy from the first, deliver only when all input is in, be
done when the last beat is taken, clear on request. `GemmJobs` implements it under `JobStatus` and the beat counts of its shapes, and
`FpgaRuntime` uses it as its accelerator: the runtime is checked over what the RTL was shown to implement.

### ControlRegisterFile

The AXI4-Lite slave, register by register like the RTL core: two flags admit a write when address and data are both on the bus (`awready`,
`aw_en`), the address is latched, the data written a clock later, and the response held until taken; a read has an address and a data
phase. The master drives the channels with any delay on each, as AXI allows, and keeps VALID and its payload until READY. It may have `Outstanding`
reads waiting for data. The value of a write is its number, so a lost, misplaced or stale value shows. A read is compared with `read_floor`, the value the register had
when the read was offered, and may return that or a newer one. Writes are full words, as the programming model requires; the bits of
register 0 that are wires from `GEMM_top` are left out (`GemmJobs` models them).

### ThreadBarrier and OffloadHook

`ThreadBarrier` is `ggml_barrier` with a step per atomic access (the accesses that matter are sequentially consistent in the source).
`OffloadHook` puts it into the threads of a pool that compute a chain of matrix products: each thread asks whether the
accelerator is ready (an unlocked read, then the locked retry of initialisation), takes the hook's path (thread 0 runs, all
meet at a barrier) or the CPU's (convert a part of the input, barrier, take chunks from a shared counter), and meets the others at the
end of the product. The program counter `pc` names the place in `ggml_compute_forward_mul_mat`, `bpc` the place inside a barrier.
The value of a chunk is whether it is right: computed once, from an input that was complete and converted by all threads.

The variable `board` is the environment: initialisation and runs succeed (`works`), initialisation fails (`broken`), it fails or
succeeds from one attempt to the next (`late`: each attempt opens /dev/mem, maps, and resets three DMA engines with a time-out), or runs fail at times (`faulty`).
Whether a product is eligible (type, shape, layout) is a function of the product and the same for all threads. Left out: the OpenMP barrier and the
llamafile kernels, which other builds use in the same places, a pool of one thread (`ggml_barrier` returns at once), abort, and
the other operators of a graph.

### WeightCache and FpgaRuntime

`FpgaRuntime` is `fpga_gemm_init`, `fpga_gemm_is_ready`, `fpga_gemm_cleanup` and `fpga_gemm_run` for one caller, together with what they drive. `pc` is the place
in the code and `step` counts the three channels inside a sequence of calls (three resets, three starts, three waits). A DMA channel has the state its
status register shows (halted, running, idle, error; `stuck` is a running channel that never goes on), the completion bit `ioc`, an address and a
count of beats left. The channels move beats one at a time between `ddr_feat`, `ddr_wght`, `ddr_rslt` and the accelerator, and complete some time after their last
beat, at any point of the caller's control flow. So the polls of `dma_wait_done` see a stale completion bit, an idle channel that has not started, or an error,
if the code lets them. Starting a channel that is still running is undefined for the AXI DMA: it is ignored or starts a new transfer
(`AfterStart`). The accelerator is `GemmService`; which words it was given is kept in `loaded`, and a result beat is the configuration, the
words and its index, so a stale buffer, a wrong packing, a wrong register or a job mixed from two calls shows in the result. An element of the caller's output is one lane of
a result beat with the column of weights it was summed from, each scaled by the cache entry's `scale_W`: padding scales to padding, a byte scaled by the scale it was quantized with to the element of
the tensor, and any other combination to a value that is nobody's (`Scaled`, `Element`).

`WeightCache` is the pool and the map of `alloc_weight`, `store_weight_f32` and the three `cache_*` functions. Memory is counted in beats of ARRAY_SIZE bytes. Extents
are element counts, and `align32` (`Blocks`) pads them to whole blocks. What is packed is a view, that is a tensor with the K and N of the request that filled the cache: a byte is an element of the tensor below
both extents and padding outside (`PackedByte`), and a beat has ARRAY_SIZE of these. The entry keeps the padded sizes, as in the code, and the scale, which is a value of the view. The numbers
of quantization and the shift are left out (`LaneArithmetic` has the shift).

*Faults.* At most one, anywhere: a channel stops with an error or silently, mapping a region fails, a reset does not end, a register reads back wrong. After it the board
stays as it is, and further calls, clean-ups and initialisations meet what was left: a halted job in the accelerator, a stopped channel, a half-filled pool. A poll loop ends with
a time-out only when the hardware can do nothing more (`HardwareAtRest`): the loops poll up to 200 million times, and a transfer takes at most 2400 beats.
A channel that answers after its time-out is outside the model.

*Requests.* A request is an address, a type, M rows, and a weight of K by N elements, any of them possibly zero. The code launches M = 1 too, but for one row the accelerator is not the `GemmService` the
model is composed with (`single_row`), so `FpgaRuntime` excludes it by the named assumption `RowsAssumption`, and all that is checked and proved of the runtime is about requests of two rows or more. A request may
see a cached tensor in another shape (a view): with another number of packed bytes, with the same number, or padded to the same shape. The last is the subject of the run `runtime_view`. Tensors are replaced while the runtime is not initialised; `ReloadAnytime` also lets that happen while their weights are cached (`runtime_reload`).

### DmaBufDriver

The kernel module, with a step per effect that a process can observe: registration, the two halves of `alloc_region` (the size is entered before the memory), `free_region`,
deregistration. Each allocation can fail. Processes open, call either ioctl (addresses first, then sizes), map and unmap at any time the device exists. An open file keeps the module from being unloaded
(`.owner = THIS_MODULE`), but not a load from failing: its files are then "left behind", and only what was obtained from a module that had finished loading is promised to exist. An
address is the number of the allocation that returned it.

## 3. Runs

| Run | Shows |
|---|---|
| `jobs` | two jobs back to back, each of any of four shapes, with every gap, back-pressure, early register write and clear: every result beat exact and held until taken, accumulators clean, prefetch fresh, weights stationary, no replayed beat refused, configuration frozen, status truthful, every register on the schedule of its job (`Scheduled`), `GemmService` implemented, and both jobs delivered completely |
| `single_row` | (expected violation) a job of one row emits beats after its last |
| `systolic` | the sums leaving a 2 x 3 array with a row's flag are its dot products |
| `lane_arithmetic` | no sum of a lane wraps or saturates, and the byte is the exact sum rounded and saturated |
| `registers` | every write lands at its own address and is answered once; a clear bit is one pulse; every read is answered, with a value no older than its offer |
| `offload` | threads stay together and always finish, on every board and on whichever paths; products are right on a board that behaves the same every time |
| `offload_error` | (expected violation) after a failed run the product is left uncomputed, and nobody computes it |
| `offload_late` | (expected violation) threads of one product take different paths |
| `runtime` | two calls after any history of initialisation, clean-up and reloads, with one fault anywhere: products are the call's own, weights stay packed, no running channel is started, a healthy board fails no call, every call returns |
| `runtime_view` | (expected violation) a view padded to the shape of the one that was packed gets zeros in the columns the other did not have |
| `runtime_reload` | (expected violation) a tensor replaced at the same address is multiplied with the old weights |
| `driver` | two processes against a module that loads, fails to load or is unloaded: no leak, mappings backed, ioctl answers true |

**Bounds, and why they are enough.** `jobs`: an array of 2, so that a tile has several rows of weights and the load takes several clocks; four shapes,
1..2 K blocks by 1..2 N blocks, so that each block loop of the schedule is run once and more than once, in all combinations, with two rows, and three in the largest (the theorems of section 4 have every shape); two jobs of
independent shapes, because a third job starts from the same state as the second (`NothingLeftInAccumulators`, and all counters back at 0). `InputDepth = 8` is exactly the largest weight
stream and `OutputDepth = 6` exactly the largest result, so that the memories are full in the largest job. `SettleClocks = 1`: the clock the frozen configuration needs to follow the last
register write; with 0 `ConfigFrozen` fails, and on the board the first DMA beat comes tens of clocks after the write. The tile memories of BufferFeeder are
abstracted to `InputDepth` words; in the source the feature tile has 512 words and row_count is a 9-bit register, so a row count never exceeds it.
`systolic`: every row, lane, tile and element is a value of its own; two rows and two tiles suffice to mix any two.
`lane_arithmetic`: operands of 3 bits, 2 rows, up to 3 K blocks and an 8-bit accumulator meet the capacity assumption with
no slack to spare (one bit less in the partial sum overflows), and shifts up to 10 pass the accumulator width. A lane stops when its result is out, hence no deadlock check there.

`offload`: three threads, so that the last to enter a barrier differs from both a fast and a slow one; two products, so that the second reads the first and four
barriers follow each other; as many chunks as threads or four times as many, the two schedules of the source. The barrier counters are not bounded by hand: two products end the run.

`registers`: two registers (one with the clear bit) and three writes, so that a write can follow one to the same register or to another, with a third waiting; two reads, one at a time as a
CPU load does them.

`runtime`: two addresses and two tensors; eight requests, of which two share the pool, one sees a weight in a larger shape, one in another shape of the same size, and four are refused (rows, weights, no columns,
type); extents of 1 and 3 are padded, to one and two blocks; no two are padded to the same shape at one address (`runtime_view` has those); two calls, so that the second meets whatever the first left; an array of 2. `PoolSize = 6` holds both weights or not, depending on which shape is
packed first. `RowLimit = 4` and `BlockLimit = 3` put the register widths within reach of a request. All fault kinds, one fault per behaviour. `MaxCalls` bounds calls, not clean-ups or reloads.
`driver`: one load, because a second starts from the state the first left, which `NothingLeaks` shows to be the initial one; two processes, interchangeable (symmetry); the second region is larger, as in the driver.
Both runs may stop (no call or load need come), hence no deadlock check; that a call does not hang is `EveryRunReturns`.

**Fairness.** `FairSpec` assumes that the clock runs (`WF_vars(Next)`), that a DMA engine with beats left keeps offering them, that the S2MM
engine keeps taking them and that the driver finishes writing the registers. The first is the hardware; the others are what
`fpga_gemm_run` sets in motion before it waits and what the DMA engines do with buffers that are already in memory. No fairness is
assumed of any part of the accelerator. In `OffloadHook` every thread is scheduled (`WF_vars(Step(t))` for each t), and a run or an
initialisation returns, which its time-outs guarantee. In `ControlRegisterFile` the clock runs, the master goes on offering the address and data of writes it still has to
make, and takes its responses; the slave gets no fairness beyond its clock. In `FpgaRuntime` the calling thread runs and the hardware does what it can (`WF_vars(Caller)`, `WF_vars(Board)`); calls,
clean-ups, reloads and faults need never come.

**The divergences.** `single_row`: with row_count = 1 the expression for the last row (`Buffer_feeder.v:104`) is true whenever the
counter is zero, and the last flag enters its shift register without a valid flag (`Gemm_compute_core.v:160`), so `total_last` pulses more than once
per K block. The documents allow a row count of 1 and the runtime sends it (M = 1 is a product with one token).
`offload_error`: the integration guide promises a fallback to the CPU on a hardware error; `fpga_gemm_run` returns void and the hook returns after it.
`offload_late`: the guide calls the fallback deterministic; each thread of a product decides for itself, and a failed initialisation is retried by the
next thread that asks. The threads still meet the same number of barriers (`ThreadsTogether`, `AllThreadsFinish`), but the product is wrong.
`runtime_view`: the cached entry is compared with the call by padded sizes only (`FPGA_GEMM.cpp:631`). At one address a view of 33 columns is packed with zeros in the columns 33..63 (371-381), a view of 64 is
padded to the same shape, passes the check, and those columns of its product are zero. In the other order the product is right, up to rounding. Through the hook K is a multiple of the
quantization block and hence of 32, so only N can differ in this way.
`runtime_reload`: the cache is looked up by the address of the tensor's data (`FPGA_GEMM.cpp:606`) and nothing removes an entry when the tensor is freed.

## 4. Proofs

| Theorem | Says | Rests on |
|---|---|---|
| `SystolicArrayProofs!ArrayComputesExactSums` | for every array size, the sums with a row's flag are its exact dot products | `IInv` |
| `SystolicArrayProofs!TypeCorrect` | every register keeps its kind, a partial sum its length | inductive by itself |
| `LaneArithmeticProofs!DotProductIsExact` | for all widths that meet `CapacityAssumption` nothing wraps or saturates | `IInv` |
| `LaneArithmeticProofs!LaneTypeCorrect` | sums, accumulator and byte stay in their widths | `IInv` |
| `LaneArithmeticProofs!ResultIsRounded` | the byte is the exact sum rounded to nearest and saturated | `IInv`, and arithmetic of the two shifts |
| `GemmJobsProofs!StatusIsTruthful` | for every shape, number of jobs and schedule, status never lies | `StatusInv` |
| `GemmJobsProofs!JobsAreScheduled` | for all `PlainJobs`, every register follows the schedule of the running job | `Scheduled`, inductive |
| `GemmJobsProofs!ResultsAreExact` | for the same, each result beat is the exact next one of its job | `Scheduled` |
| `GemmJobsProofs!AccumulatorsAreCleared` | no accumulator keeps anything of a job | `Scheduled` |
| `GemmJobsProofs!PrefetchIsFresh` | no sum is added to a stale accumulator | `Scheduled` |
| `GemmJobsProofs!RowsMeetTheirWeights` | no tile is loaded over a row in the array | `Scheduled` |
| `GemmJobsProofs!ReplayIsTaken` | no replayed beat is refused | `Scheduled` |
| `GemmJobsProofs!ConfigurationIsFrozen` | a job keeps its configuration to its last beat | `Scheduled` |
| `GemmJobsProofs!ResultsAreHeld` | an offered beat stays, TLAST included, until it is taken | `Scheduled` (action property) |
| `GemmJobsProofs!ServiceIsImplemented` | the RTL implements `GemmService`, step by step | `Scheduled`, `StatusInv` |
| `GemmJobsProofs!AcceleratorTypeCorrect` | every register keeps its kind, every written address and every counter stays within its depth | `Scheduled`, `StatusInv`, `Kinds`, `LastWordBounds` |
| `ControlRegisterFileProofs!RegistersHoldWrites` | for all registers and delays, each register holds the last write addressed to it | `IInv` |
| `ControlRegisterFileProofs!WritesAnsweredOnce` | every accepted write is answered once, before the next is accepted | `IInv` |
| `ControlRegisterFileProofs!ClearIsOnePulse` | every write of the clear bit is one pulse | `IInv` |
| `ControlRegisterFileProofs!WritesInOrder` | the strengthening itself: where each write is in its life | inductive |
| `ControlRegisterFileProofs!SingleReadsAreFresh` | with one read at a time, no read is older than its offer | `IInv` and `ReadInv` |
| `ControlRegisterFileProofs!SingleReadsAnswered` | with one read at a time, every accepted address has its data offered | `ReadInv` |
| `ControlRegisterFileProofs!ResponsesAreHeld` | a response stays unchanged until it is taken, for any number of outstanding reads | type of the read counter, `IInv` |
| `ControlRegisterFileProofs!RegisterFileTypeCorrect` | no channel has more handshakes than requests; registers show numbers of writes | `TypeInv`, `IInv` |
| `ThreadBarrierProofs!BarrierIsSafe` | for every number of threads, no thread leaves a barrier another has not entered | `BarrierIInv` |
| `OffloadHookProofs!ThreadsStayTogether` | for every pool, graph and board, no thread passes a product before all are at its end | `IInv` |
| `OffloadHookProofs!PathsMeetSameBarriers` | the strengthening itself: a thread's place tells how many barriers it has left | inductive |
| `OffloadHookProofs!ProductsAreRight` | for every pool and graph, on a board that always works or never does, each passed product was computed once per chunk, from a complete input | `ProductInv`, `IInv` |
| `OffloadHookProofs!HookTypeCorrect` | threads stay in the code, chunks are unwritten, right or wrong | `HookTypeInv` |
| `FpgaRuntimeProofs!WeightsStayPacked` | for every pool, alignment and history, cached regions are disjoint and keep their contents | `CacheInv` |
| `FpgaRuntimeProofs!StartsAreSafe` | for every history, failed calls among it, transfers are started on stopped channels only (requests of two rows or more) | `RunInv`, `CacheInv` |
| `FpgaRuntimeProofs!HealthyBoardDelivers` | for requests of two rows or more, without a fault no wait times out and every register reads back right | `RunInv`, `CacheInv` |
| `FpgaRuntimeProofs!ResultsAreTheCalls` | for the same, if tensors are replaced only while nothing is cached and no two views of an address are padded to the same shape (`OneViewPerPadding`), a returned result is the call's own product | `DataInv`, `RunInv`, `CacheInv` |
| `FpgaRuntimeProofs!RuntimeTypeCorrect` | caller, channels and registers keep their kinds and widths | `RunInv`, `CacheInv`, `OtherTypes` |
| `DmaBufDriverProofs!DriverLeaksNothing` | for all processes, loads and failures, allocated memory is that of the regions | `DriverInv` |
| `DmaBufDriverProofs!DriverTypeCorrect` | allocations have addresses given out before and never NULL | `DriverInv`, `HeldByUsers` |
| `DmaBufDriverProofs!MappingsAreBacked` | what was mapped of a loaded module stays backed | `DriverInv`, `HeldByUsers` |
| `DmaBufDriverProofs!AnswersAreTrue` | what an ioctl of a loaded module returned is allocated | `DriverInv`, `HeldByUsers` |

*The array.* `PartialSumsExact` speaks of the outputs only, so it is not inductive. `IInv` gives each feature, product, partial-sum and alignment
register the content it has as a function of the row in flight at its stage: a clock moves each content one register on while `in_flight`
moves by one stage, and a weight load happens only when nothing is in flight. There is one lemma per kind of register.

*The lane.* `ExactDotProduct` is not inductive: a sum is exact only if it did not wrap. `IInv` adds how far sums can have got
(`SumsBounded`): `lane` products and `blocks` times `ArrayRows` products. `CapacityAssumption` puts these below the half range, so wrapping
and saturating are the identity. The assumption holds of the hardware: 32 * 2^14 = 2^19 < 2^20 and, as k_block_count is a 5-bit register,
31 * 2^19 < 2^31. Rounding is proved from the uniqueness of quotient and remainder: a shift by s drops 2h = 2^s, bit s-1 is the parity of the quotient by h, and
the two together are the rounded quotient.

*The status.* Inductive with the type of the beat counts; the cases are the last branches of `GEMM_top.v` in their order.

*The schedule.* None of the properties of the data path is inductive, and no small strengthening is: whether an accumulator read is fresh depends on the spacing of the rows, that on
the clock the weight tile was complete, that on the clock the tile memories were full, and that on the replay. So `Scheduled` fixes everything. A job is `Resting` between two jobs, then in one of six phases:
`LoadPhase` (beats in any order, so each stream has its own count), `FillPhase(b, i)` (clock `i` of the replay of K block `b`), `TilePhase(b, nb, q)` (clock `q` of weight tile `nb`: `ArraySize` clocks of
shifting in, two of loading, the rows one per clock, and `ResultLatency` until the last is out), `EndPhase`, `AwaitPhase` (the request for the result stream is up) and `ReadoutPhase(x)` (`x` words read;
back-pressure holds `x`). Each phase gives every register its value: which sums an accumulator holds (`Accumulated`), which word a tile memory holds (`TileStored`), which row is at each
stage of the array (`StreamArray`). The proof has lemmas for each `always` block within each phase (`IBReplays`, `FeederFills`, `StreamWeightsNext`, `TileAccumulates`, `ReadoutAddressesNext` ...), then one per
phase for the whole clock (`LoadNext`, `FillNext`, `TileNext`, `BlockNext`, `EndNext`, `AwaitNext`, `ReadoutPhaseNext`), and three for the job: it runs on, it ends (`RunEnds`), it starts (`JobStarts`).
The only arithmetic that is not linear is the place of a word in a matrix (`PlaceInMatrix`, `PlaceInjective`, `ResultPlacesCover`): two places of a result never share an accumulator, and reading by rows what was written by columns
reaches each once. Only `LoadPhase` and `ReadoutPhase` wait for the environment, and they hold everything else still while they do; this is why gaps and back-pressure cannot be seen in the data.

The theorems hold for `PlainJobs`: every shape has two rows or more, and `SettleClocks >= 1`. The first excludes what `single_row` shows the code does wrong. The second says that the configuration is complete for one clock before the first beat; the
runtime reads the status register and starts two DMA engines in between (`fpga_gemm_run`, lines 645 to 652), each a bus access of several clocks. Both hold in the instance of the run `jobs`. Everything else is free: array size, depths,
number of jobs, shapes that fill the memories exactly, register writes and clears at any clock of a running job.

*The refinement.* The host sees a job through `JobStatus`, the beats taken and the beats given. An accepted beat is `Load` (`ServiceLoads`), the final beat `DeliverLast`, another one `Deliver`, and these need `Scheduled`: the readout starts only when both
streams are complete, and TLAST is on the last beat (`ServiceRuns`). Between two jobs a clock is `ClearDone` or a stutter (`ServiceRests`).

*The types.* What the memories and pipelines hold (words, tiles, sums) is inductive by itself (`Kinds`), whatever the schedule. The bounds of counters and addresses are not:
they are read off `Scheduled`, phase by phase (`BoundsHold`), except those of `result_count` and `clear_addr`, which keep what the last job left and are inductive given the schedule (`LastWordBounds`).

*The registers.* `IInv` adds `WriteLife`: a write is on the bus, accepted (`awready`, and then the latched address is the one on the bus) or being answered
(`bvalid`), and `aw_en` is up exactly when no write is accepted or answered. So both channels accept on the same clock (`AcceptTogether`), which keeps address and data paired.
For reads, `ReadInv` says that an address and a response are never in the slave at once, which needs a master that waits (`Outstanding = 1`, an assumption of the two theorems), and that the latched address is the
one on the bus; a register only gets newer, so what is read is at least as new as what was there at the offer.

`TypeInv` adds the bounds that make `TypeOK` inductive: a channel offers only requests that remain, a clear bit is an accepted write, and reads answered are reads accepted.

*The barrier.* `BarrierIInv` says that the counter `n_barrier_passed` is the number of completed barriers, that every thread has left exactly that many or
waits with the previous value in hand, that `n_barrier` counts those waiting for the current one, and that the last to enter is alone with it until it has released the others.
The count argument uses the cardinality theorems of the library. *The hook.* `IInv` adds that the program counter determines how many barriers a
thread has left, two per product on either path; that, not the agreement of the threads, is why they cannot block each other.
`ProductInv` says what the chunks of a product hold while no thread is past it. On the accelerator: all are written by thread 0 between its run and the barrier. On the CPU: a chunk is unwritten exactly
while it is pending, that is, while a thread owns it (its own number before it computes, then the chunk it drew) or the counter has not come to it; owners differ, and nobody reaches the last barrier before the counter is past
the last chunk. That the counter is set before anyone draws from it, and that no owner is left when a thread goes on, are the two places that need the barriers (`NextMeets`).

*The cache.* Seen from the cache, every step of the runtime is one of five (`StepIsCacheStep`): nothing, emptying it with or without the pool, storing a weight, replacing a tensor. A weight is stored from the
aligned end of the pool on, and all cached regions end before it. The theorem needs no assumption on requests.

*The run.* All of it rests on `GemmService`, which `GemmJobs` implements for jobs of two rows or more (`PlainJobs`); `RowsAssumption` is the same condition on the requests. None of the three properties is inductive: that a channel is free when it is started depends on how the call before ended. `RunInv` says what each place of `fpga_gemm_run` has established;
that between two calls nothing moves, or a fault has left a job behind that can move no further (`QuietOutsideJobs`); that in a job each channel is where the accelerator's counts put it
(`Progress`); and that a wait has ended because its channel stopped or nothing can move (`WaitInv`). The heart is `RestInJob`: once all three transfers were started, hardware at rest without a fault has
finished the job, so a time-out proves a fault; and if status is not busy, no channel runs. Conversely a job that is still busy makes the next call give up before it starts a channel. `DataInv` follows the beats: from the
activation and the cached weight into memory, through the streams in order, to the result window and the caller's output. An entry that passes the check for padding was packed from the call's own view (`EntryIsOwn`); this is the one place that needs
`OneViewPerPadding`, and without it the theorem is false (`runtime_view`). Then every element of the output is the lane of a beat inside the result (`BeatOfOK`).

*The driver.* `DriverInv` says that the allocated memory is exactly the records of the regions with an address, that no two regions share one, and how far loading or freeing has got (`Progress`). `HeldByUsers` says that a
mapping, a running ioctl or an answer marked live belongs to an open file of a module that is loaded now, and names its present regions. Open files bar unloading and a load step happens only when
none is live (`NothingLive`), so every step keeps it.

Assumptions on constants are named in the modules that declare them and evaluated by TLC in every run. The strengthenings `IInv` of `SystolicArray`, `LaneArithmetic` and `ControlRegisterFile` are proved inductive and not repeated as properties of their runs.

**Only model-checked:** all liveness properties (`EveryJobCompletes`, `AllThreadsFinish`, `EveryWriteAnswered`, `EveryRunReturns`), which are out of TLAPS's reach together with ENABLED; every other property of a passing run is a theorem. The functions in these modules are not recursive.

## 5. Not modelled

* llama.cpp under `src/software/llama.cpp`: vendored, and almost all of the lines of the repository. It holds a copy of the runtime and of `ggml-cpu.c`; the models map the
  project's own files under `src/software`. Of `ggml-cpu.c` only the hook, the barrier, the matrix product's CPU path and the graph loop are modelled.
* In the runtime: several thread pools in one process (it takes no lock in `fpga_gemm_run`; this repository runs one pool), a channel that answers after its time-out, the
  descriptors and mappings a failed initialisation leaves open, the arithmetic of (de)quantization, the Windows mock path.
* In the driver: what an mmap made before the module has finished loading sees; the DMA mask, whose failure the driver ignores.
* In the register file: byte strobes, a reset while in use. In the stream slaves: the filter on partial TSTRB, which is never used.
* Shifts of the accumulator width or more: `LaneArithmetic` computes them as the code does, but `ResultRounded` speaks of smaller ones; the runtime writes at most 24.
* Vivado scripts, block design, address map: build data.
* Testbench, golden model, the Windows mock and the host test program: tests.
* The bare-metal example `src/vitis/src/main.cpp`: the register and DMA calls of the runtime in a straight line, for one board test.
* Timing, clock domains, physical memory.

## 6. What could follow

Jobs of one row, for which the accelerator needs a repair before anything can be proved; the widths of the counters, which
`TypeOK` bounds by the depths of the memories; a second pool in `FpgaRuntime`.
