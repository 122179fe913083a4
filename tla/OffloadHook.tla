---------------------------- MODULE OffloadHook ----------------------------
(***************************************************************************)
(* The threads of a ggml pool compute a chain of matrix products           *)
(* (ggml_graph_compute_thread and ggml_compute_forward_mul_mat of          *)
(* software/ggml-cpu/ggml-cpu.c).  Each decides by itself whether the      *)
(* accelerator is ready (fpga_gemm_is_ready of FPGA_GEMM.cpp); if so,      *)
(* thread 0 runs the product on it, otherwise all convert the input and    *)
(* compute chunks of the product.  Product m reads product m - 1.          *)
(***************************************************************************)
EXTENDS ThreadBarrier

CONSTANTS
  Products,  \* products of the graph
  Boards     \* how the board behaves; one of them is chosen at the start

ASSUME OffloadAssumption ==
  /\ Products \in Nat \ {0}
  /\ Boards \subseteq {"works", "broken", "late", "faulty"}

VARIABLES
  board,          \* works; initialisation fails; ... fails at times; runs fail at times
  eligible,       \* products whose shape, type and layout the hook accepts
  nchunk,         \* chunks of each product
  g_ready,        \* fpga_gemm_init has succeeded
  pc, node,       \* where each thread is, and in which product
  my_chunk,       \* current_chunk of a thread
  current_chunk,  \* of the pool
  wdata,          \* the product each thread's part of wdata was converted for
  run_input,      \* the accelerator was given a complete input
  dst             \* the value of every chunk of every product

hookVars == <<board, eligible, nchunk, g_ready, pc, node, my_chunk,
              current_chunk, wdata, run_input, dst>>
vars == <<barrierVars, hookVars>>

\* One chunk per thread, or at least four.
ChunkCounts == {NThreads, 4 * NThreads}
Chunks(m) == 0..nchunk[m]-1

Init ==
  /\ BarrierInit
  /\ board \in Boards
  /\ eligible \in SUBSET (1..Products)
  /\ nchunk \in [1..Products -> ChunkCounts]
  /\ g_ready = FALSE
  /\ pc = [t \in Threads |-> "is_ready"] /\ node = [t \in Threads |-> 1]
  /\ my_chunk = [t \in Threads |-> t] /\ current_chunk = 0
  /\ wdata = [t \in Threads |-> 0] /\ run_input = FALSE
  /\ dst = [m \in 1..Products |-> [c \in Chunks(m) |-> "unwritten"]]

-----------------------------------------------------------------------------

Jump(t, label) == pc' = [pc EXCEPT ![t] = label]
\* The input of product m has been computed and is complete.
InputRight(m) == m = 1 \/ \A c \in Chunks(m - 1) : dst[m - 1][c] = "right"

\* The hook, once the thread knows whether the accelerator is ready.
Hook(t, ready) ==
  Jump(t, IF ready /\ node[t] \in eligible
          THEN IF t = 0 THEN "run" ELSE "offload_barrier"
          ELSE "convert")

\* The unlocked read of g_ready.
ReadReady(t) ==
  /\ pc[t] = "is_ready"
  /\ IF g_ready THEN Hook(t, TRUE) ELSE Jump(t, "lock")
  /\ UNCHANGED <<barrierVars, board, eligible, nchunk, g_ready, node, my_chunk,
                 current_chunk, wdata, run_input, dst>>

InitResult == CASE board \in {"works", "faulty"} -> {TRUE}
                [] board = "broken" -> {FALSE}
                [] board = "late" -> BOOLEAN

\* The part of fpga_gemm_is_ready under g_init_mutex.
LockAndInit(t) ==
  /\ pc[t] = "lock"
  /\ g_ready' \in (IF g_ready THEN {TRUE} ELSE InitResult)
  /\ Hook(t, g_ready')
  /\ UNCHANGED <<barrierVars, board, eligible, nchunk, node, my_chunk,
                 current_chunk, wdata, run_input, dst>>

\* fpga_gemm_run reads src1 first and writes dst last.
RunStart(t) ==
  /\ pc[t] = "run"
  /\ run_input' = InputRight(node[t])
  /\ Jump(t, "running")
  /\ UNCHANGED <<barrierVars, board, eligible, nchunk, g_ready, node, my_chunk,
                 current_chunk, wdata, dst>>

\* Mutant: thread 0 does not meet the others in the hook's barrier.
AfterRunNoBarrier == "node_barrier"

AfterRun == "offload_barrier"

\* A run that fails returns without writing, and without telling.
RunEnd(t) ==
  /\ pc[t] = "running"
  /\ \/ dst' = [dst EXCEPT ![node[t]] =
                  [c \in Chunks(node[t]) |->
                     IF run_input /\ @[c] = "unwritten" THEN "right" ELSE "wrong"]]
     \/ board = "faulty" /\ dst' = dst
  /\ Jump(t, AfterRun)
  /\ UNCHANGED <<barrierVars, board, eligible, nchunk, g_ready, node, my_chunk,
                 current_chunk, wdata, run_input>>

\* Each thread converts its part of src1 into wdata.
Convert(t) ==
  /\ pc[t] = "convert"
  /\ wdata' = [wdata EXCEPT ![t] = IF InputRight(node[t]) THEN node[t] ELSE 0]
  /\ my_chunk' = [my_chunk EXCEPT ![t] = t]
  /\ Jump(t, IF t = 0 THEN "set_chunk" ELSE "convert_barrier")
  /\ UNCHANGED <<barrierVars, board, eligible, nchunk, g_ready, node,
                 current_chunk, run_input, dst>>

\* Mutant: the chunks that threads start with are given out again.
FirstFreeChunkZero == 0

\* The first chunk no thread starts with.
FirstFreeChunk == NThreads

SetChunk(t) ==
  /\ pc[t] = "set_chunk"
  /\ current_chunk' = FirstFreeChunk
  /\ Jump(t, "convert_barrier")
  /\ UNCHANGED <<barrierVars, board, eligible, nchunk, g_ready, node, my_chunk,
                 wdata, run_input, dst>>

\* One chunk is computed and the next is taken from the pool.
ComputeChunk(t) ==
  LET m == node[t]
      right == (\A u \in Threads : wdata[u] = m) /\ dst[m][my_chunk[t]] = "unwritten"
  IN  /\ pc[t] = "chunks"
      /\ my_chunk[t] < nchunk[m]
      /\ dst' = [dst EXCEPT ![m][my_chunk[t]] = IF right THEN "right" ELSE "wrong"]
      /\ IF NThreads >= nchunk[m]
         THEN Jump(t, "node_barrier") /\ UNCHANGED <<my_chunk, current_chunk>>
         ELSE /\ my_chunk' = [my_chunk EXCEPT ![t] = current_chunk]
              /\ current_chunk' = current_chunk + 1
              /\ pc' = pc
      /\ UNCHANGED <<barrierVars, board, eligible, nchunk, g_ready, node, wdata, run_input>>

NoChunkLeft(t) ==
  /\ pc[t] = "chunks"
  /\ my_chunk[t] >= nchunk[node[t]]
  /\ Jump(t, "node_barrier")
  /\ UNCHANGED <<barrierVars, board, eligible, nchunk, g_ready, node, my_chunk,
                 current_chunk, wdata, run_input, dst>>

BarrierCalls == {"offload_barrier", "convert_barrier", "node_barrier"}

InBarrier(t) ==
  /\ pc[t] \in BarrierCalls
  /\ Arrive(t) \/ Enter(t) \/ ResetCount(t)
  /\ UNCHANGED hookVars

\* Where a thread goes on after a barrier; the one after a product also ends the graph.
OutOfBarrier(t) ==
  LET last == node[t] = Products IN
  /\ pc[t] \in BarrierCalls
  /\ Release(t) \/ Leave(t)
  /\ Jump(t, CASE pc[t] = "offload_barrier" -> "node_barrier"
               [] pc[t] = "convert_barrier" -> "chunks"
               [] OTHER -> IF last THEN "done" ELSE "is_ready")
  /\ node' = IF pc[t] = "node_barrier" /\ ~last
             THEN [node EXCEPT ![t] = node[t] + 1] ELSE node
  /\ UNCHANGED <<board, eligible, nchunk, g_ready, my_chunk, current_chunk, wdata,
                 run_input, dst>>

Step(t) ==
  \/ ReadReady(t) \/ LockAndInit(t)
  \/ RunStart(t) \/ RunEnd(t)
  \/ Convert(t) \/ SetChunk(t) \/ ComputeChunk(t) \/ NoChunkLeft(t)
  \/ InBarrier(t) \/ OutOfBarrier(t)

Finished == (\A t \in Threads : pc[t] = "done") /\ UNCHANGED vars

Next == (\E t \in Threads : Step(t)) \/ Finished

Spec == Init /\ [][Next]_vars

\* The operating system runs every thread, initialisation and runs return.
FairSpec == Spec /\ \A t \in Threads : WF_vars(Step(t))

-----------------------------------------------------------------------------
(* Properties *)

Labels == {"is_ready", "lock", "run", "running", "convert", "set_chunk", "chunks", "done"}
            \cup BarrierCalls

TypeOK ==
  /\ BarrierTypeOK
  /\ pc \in [Threads -> Labels]
  /\ board \in Boards /\ eligible \subseteq 1..Products
  /\ node \in [Threads -> 1..Products]
  /\ wdata \in [Threads -> 0..Products]
  /\ current_chunk \in Nat /\ my_chunk \in [Threads -> Nat]
  /\ {g_ready, run_input} \subseteq BOOLEAN
  /\ \A m \in 1..Products : dst[m] \in [Chunks(m) -> {"unwritten", "right", "wrong"}]

\* Product m is behind thread t.
Past(t, m) == node[t] > m \/ pc[t] = "done"
Computed(m) == \A c \in Chunks(m) : dst[m][c] = "right"

(* On a board whose initialisation and runs always end the same way, a     *)
(* thread goes on only when every chunk of the product has been computed,  *)
(* exactly once, from a completely converted input (the barriers of the    *)
(* hook and of the CPU path, and the chunk counter).                       *)
ProductsRight ==
  board \in {"works", "broken"} =>
    \A t \in Threads, m \in 1..Products : Past(t, m) => Computed(m)

(* No thread overtakes another by more than one barrier, whichever of the  *)
(* two paths each has taken: both paths have one barrier of their own.     *)
ThreadsTogether ==
  /\ BarrierSeparates
  /\ \A t, u \in Threads : Past(t, node[u]) => pc[u] = "node_barrier" \/ pc[u] = "done"

(* Every thread finishes the graph, on every board, also when threads have *)
(* decided differently.                                                    *)
AllThreadsFinish == <>(\A t \in Threads : pc[t] = "done")

(* docs/linux-llama-integration.md:119 says the runtime "Falls back to the *)
(* normal CPU implementation on any unsupported condition or recoverable   *)
(* hardware error": a product is computed by one or the other.             *)
FallsBackOnError ==
  board = "faulty" => \A t \in Threads, m \in 1..Products : Past(t, m) => Computed(m)

(* docs/linux-llama-integration.md:186 says "Unsupported shapes take a     *)
(* deterministic CPU fallback path and record the reason: shape, type,     *)
(* layout, scope, shift, or hardware readiness": the threads of a product  *)
(* take one path.                                                          *)
FallbackDeterministic ==
  \A t, u \in Threads :
    node[t] = node[u] =>
      ~(pc[t] \in {"run", "running", "offload_barrier"} /\ pc[u] \in {"convert", "chunks"})

-----------------------------------------------------------------------------
(* The inductive strengthening: the program counter of a thread tells how  *)
(* many barriers it has left, two per product on either path.              *)

BarriersBehind(t) ==
  2 * (node[t] - 1) + (IF pc[t] \in {"chunks", "node_barrier"} THEN 1
                       ELSE IF pc[t] = "done" THEN 2 ELSE 0)

PathsAgree == \A t \in Threads :
  /\ left[t] = BarriersBehind(t)
  /\ bpc[t] # "outside" => pc[t] \in BarrierCalls
  /\ pc[t] = "done" => node[t] = Products

IInv == /\ BarrierIInv
        /\ node \in [Threads -> 1..Products] /\ pc \in [Threads -> Labels]
        /\ PathsAgree
=============================================================================
