------------------------- MODULE OffloadHookProofs -------------------------
(***************************************************************************)
(* The threads of a pool stay together whichever path each of them takes   *)
(* through a product, for every number of threads, products and chunks and *)
(* every behaviour of the board; when the board always behaves the same    *)
(* way, every product a thread has passed is right.                        *)
(***************************************************************************)
EXTENDS OffloadHook, ThreadBarrierProofs

LEMMA InitIInv == Init => IInv
<1> SUFFICES ASSUME Init PROVE IInv
  OBVIOUS
<1>1. BarrierIInv
  BY InitBarrierIInv DEF Init
<1>2. node \in [Threads -> 1..Products] /\ pc \in [Threads -> Labels]
  BY OffloadAssumption DEF Init, Labels
<1>3. PathsAgree
  BY DEF Init, BarrierInit, PathsAgree, BarriersBehind
<1> QED
  BY <1>1, <1>2, <1>3 DEF IInv

(* A jump between labels with the same number of barriers behind them.     *)
LEMMA JumpIInv ==
  ASSUME IInv, NEW t \in Threads, NEW label \in Labels,
         Jump(t, label), UNCHANGED <<barrierVars, node>>,
         pc[t] \in Labels \ {"done"}, label # "done",
         label \in {"chunks", "node_barrier"} <=> pc[t] \in {"chunks", "node_barrier"},
         bpc[t] = "outside"
  PROVE  IInv'
<1>1. BarrierIInv'
  BY StutterIInv DEF IInv
<1>2. node' \in [Threads -> 1..Products] /\ pc' \in [Threads -> Labels]
  BY DEF IInv, Jump
<1>3. PathsAgree'
  BY DEF IInv, Jump, PathsAgree, BarriersBehind, barrierVars
<1> QED
  BY <1>1, <1>2, <1>3 DEF IInv

LEMMA HookLabels ==
  ASSUME NEW t \in Threads, NEW ready, Hook(t, ready)
  PROVE  \E label \in {"run", "offload_barrier", "convert"} : Jump(t, label)
  BY DEF Hook

(* The steps outside the barrier.                                          *)
LEMMA LocalStepIInv ==
  ASSUME IInv, NEW t \in Threads,
         \/ ReadReady(t) \/ LockAndInit(t) \/ RunStart(t)
         \/ Convert(t) \/ SetChunk(t) \/ ComputeChunk(t) \/ NoChunkLeft(t)
  PROVE  IInv'
<1>1. pc[t] \notin BarrierCalls => bpc[t] = "outside"
  BY DEF IInv, PathsAgree
<1>2. CASE ReadReady(t)
  <2>1. \E label \in {"run", "offload_barrier", "convert", "lock"} : Jump(t, label)
    BY <1>2, HookLabels DEF ReadReady
  <2> QED
    BY <1>1, <1>2, <2>1, JumpIInv DEF ReadReady, Labels, BarrierCalls
<1>3. CASE LockAndInit(t)
  <2>1. \E label \in {"run", "offload_barrier", "convert"} : Jump(t, label)
    BY <1>3, HookLabels DEF LockAndInit
  <2> QED
    BY <1>1, <1>3, <2>1, JumpIInv DEF LockAndInit, Labels, BarrierCalls
<1>4. CASE RunStart(t)
  BY <1>1, <1>4, JumpIInv DEF RunStart, Labels, BarrierCalls
<1>5. CASE Convert(t)
  <2>1. \E label \in {"set_chunk", "convert_barrier"} : Jump(t, label)
    BY <1>5 DEF Convert
  <2> QED
    BY <1>1, <1>5, <2>1, JumpIInv DEF Convert, Labels, BarrierCalls
<1>6. CASE SetChunk(t)
  BY <1>1, <1>6, JumpIInv DEF SetChunk, Labels, BarrierCalls
<1>7. CASE ComputeChunk(t)
  <2>1. \E label \in {"node_barrier", "chunks"} : Jump(t, label)
    BY <1>7 DEF ComputeChunk, Jump, IInv
  <2> QED
    BY <1>1, <1>7, <2>1, JumpIInv DEF ComputeChunk, Labels, BarrierCalls
<1>8. CASE NoChunkLeft(t)
  BY <1>1, <1>8, JumpIInv DEF NoChunkLeft, Labels, BarrierCalls
<1> QED
  BY <1>2, <1>3, <1>4, <1>5, <1>6, <1>7, <1>8

LEMMA RunEndIInv ==
  ASSUME IInv, NEW t \in Threads, RunEnd(t)
  PROVE  IInv'
<1>1. bpc[t] = "outside"
  BY DEF IInv, PathsAgree, RunEnd, BarrierCalls
<1> QED
  BY <1>1, JumpIInv DEF RunEnd, AfterRun, Labels, BarrierCalls

LEMMA InBarrierIInv ==
  ASSUME IInv, NEW t \in Threads, InBarrier(t)
  PROVE  IInv'
<1>1. BarrierIInv'
  BY BarrierStepIInv DEF IInv, InBarrier
<1>2. UNCHANGED <<pc, node, left>>
  BY DEF InBarrier, hookVars, Arrive, Enter, ResetCount
<1>3. \A u \in Threads : bpc'[u] # "outside" => pc[u] \in BarrierCalls
  BY DEF InBarrier, Arrive, Enter, ResetCount, Goto, IInv, PathsAgree, BarrierIInv,
         BarrierTypeOK
<1>4. PathsAgree'
  BY <1>2, <1>3 DEF IInv, PathsAgree, BarriersBehind
<1> QED
  BY <1>1, <1>2, <1>4 DEF IInv

LEMMA OutOfBarrierIInv ==
  ASSUME IInv, NEW t \in Threads, OutOfBarrier(t)
  PROVE  IInv'
<1>1. BarrierIInv'
  BY BarrierStepIInv DEF IInv, OutOfBarrier
<1>2. /\ left' = [left EXCEPT ![t] = left[t] + 1]
      /\ bpc' = [bpc EXCEPT ![t] = "outside"]
  BY DEF OutOfBarrier, Release, Leave, Goto
<1>3. /\ left \in [Threads -> Nat] /\ DOMAIN bpc = Threads
      /\ node \in [Threads -> 1..Products] /\ pc \in [Threads -> Labels]
      /\ Products \in Nat
  BY OffloadAssumption DEF IInv, BarrierIInv, BarrierTypeOK
<1>4. \A u \in Threads \ {t} : /\ left'[u] = left[u] /\ bpc'[u] = bpc[u]
                               /\ node'[u] = node[u] /\ pc'[u] = pc[u]
  BY <1>2, <1>3 DEF OutOfBarrier, Jump
<1>5. left'[t] = left[t] + 1 /\ bpc'[t] = "outside"
  BY <1>2, <1>3
<1>6. /\ node' \in [Threads -> 1..Products] /\ pc' \in [Threads -> Labels]
      /\ pc'[t] = "done" => node'[t] = Products
      /\ BarriersBehind(t)' = BarriersBehind(t) + 1
  <2>1. CASE pc[t] = "offload_barrier"
    BY <1>3, <2>1 DEF OutOfBarrier, Jump, BarriersBehind, Labels, BarrierCalls
  <2>2. CASE pc[t] = "convert_barrier"
    BY <1>3, <2>2 DEF OutOfBarrier, Jump, BarriersBehind, Labels, BarrierCalls
  <2>3. CASE pc[t] = "node_barrier" /\ node[t] = Products
    BY <1>3, <2>3 DEF OutOfBarrier, Jump, BarriersBehind, Labels, BarrierCalls
  <2>4. CASE pc[t] = "node_barrier" /\ node[t] # Products
    BY <1>3, <2>4 DEF OutOfBarrier, Jump, BarriersBehind, Labels, BarrierCalls
  <2> QED
    BY <2>1, <2>2, <2>3, <2>4 DEF OutOfBarrier, BarrierCalls
<1>7. PathsAgree'
  <2>1. \A u \in Threads \ {t} : BarriersBehind(u)' = BarriersBehind(u)
    BY <1>4 DEF BarriersBehind
  <2> QED
    BY <1>4, <1>5, <1>6, <2>1 DEF IInv, PathsAgree
<1> QED
  BY <1>1, <1>6, <1>7 DEF IInv

LEMMA NextIInv == IInv /\ [Next]_vars => IInv'
<1> SUFFICES ASSUME IInv, [Next]_vars PROVE IInv'
  OBVIOUS
<1>1. ASSUME NEW t \in Threads, Step(t) PROVE IInv'
  BY <1>1, LocalStepIInv, RunEndIInv, InBarrierIInv, OutOfBarrierIInv DEF Step
<1>2. CASE UNCHANGED vars
  <2>1. BarrierIInv'
    BY <1>2, StutterIInv DEF IInv, vars
  <2>2. UNCHANGED <<node, pc, left, bpc>>
    BY <1>2 DEF vars, hookVars, barrierVars
  <2> QED
    BY <2>1, <2>2 DEF IInv, PathsAgree, BarriersBehind
<1> QED
  BY <1>1, <1>2 DEF Next, Finished

(* A thread that has left both barriers of a product has met every other   *)
(* thread at the end of it.                                                *)
LEMMA IInvTogether == IInv => ThreadsTogether
<1> SUFFICES ASSUME IInv PROVE ThreadsTogether
  OBVIOUS
<1>1. BarrierSeparates
  BY IInvSeparates DEF IInv
<1>2. ASSUME NEW t \in Threads, NEW u \in Threads, Past(t, node[u])
      PROVE  pc[u] = "node_barrier" \/ pc[u] = "done"
  <2>1. /\ node[t] \in 1..Products /\ node[u] \in 1..Products /\ Products \in Nat
        /\ left[t] \in Nat /\ left[u] \in Nat
    BY OffloadAssumption DEF IInv, BarrierIInv, BarrierTypeOK
  <2>2. left[t] >= 2 * node[u]
    BY <1>2, <2>1 DEF IInv, PathsAgree, BarriersBehind, Past
  <2>3. left[t] <= Entered(u)
    BY <1>1 DEF BarrierSeparates
  <2>4. CASE bpc[u] = "outside"
    <3>1. left[u] >= 2 * node[u]
      BY <2>1, <2>2, <2>3, <2>4 DEF Entered
    <3> QED
      BY <2>1, <3>1 DEF IInv, PathsAgree, BarriersBehind
  <2>5. CASE bpc[u] # "outside"
    <3>1. left[u] + 1 >= 2 * node[u]
      BY <2>1, <2>2, <2>3 DEF Entered
    <3>2. pc[u] \in BarrierCalls
      BY <2>5 DEF IInv, PathsAgree
    <3> QED
      BY <2>1, <3>1, <3>2 DEF IInv, PathsAgree, BarriersBehind, BarrierCalls
  <2> QED
    BY <2>4, <2>5
<1> QED
  BY <1>1, <1>2 DEF ThreadsTogether

(* No thread passes a product before all have reached its end, also when   *)
(* some of them offload it and others compute it (the barriers of          *)
(* ggml_compute_forward_mul_mat and ggml_graph_compute_thread).            *)
THEOREM ThreadsStayTogether == Spec => []ThreadsTogether
  BY InitIInv, NextIInv, IInvTogether, PTL DEF Spec

(* The strengthening: on either path a thread meets two barriers in each   *)
(* product.                                                                *)
THEOREM PathsMeetSameBarriers == Spec => []IInv
  BY InitIInv, NextIInv, PTL DEF Spec

-----------------------------------------------------------------------------
(* The products, on a board that always behaves the same way.  All threads *)
(* of a product then take the same path.                                   *)

Steady == board \in {"works", "broken"}
Offloads(m) == board = "works" /\ m \in eligible

\* No thread has gone on from product m.
Open(m) == \A t \in Threads : ~Past(t, m)

HookTypes ==
  /\ nchunk \in [1..Products -> ChunkCounts]
  /\ g_ready \in BOOLEAN
  /\ my_chunk \in [Threads -> Nat] /\ current_chunk \in Nat
  /\ DOMAIN wdata = Threads
  /\ DOMAIN dst = 1..Products /\ \A m \in 1..Products : DOMAIN dst[m] = Chunks(m)

\* Where the program counter can be, and what the thread has done by then.
PlaceInv ==
  /\ board = "broken" => ~g_ready
  /\ \A t \in Threads :
       /\ pc[t] \in {"run", "running", "set_chunk"} => t = 0
       /\ pc[t] \in {"run", "running", "offload_barrier"} => Offloads(node[t])
       /\ pc[t] \in {"convert", "set_chunk", "convert_barrier", "chunks"} => ~Offloads(node[t])
       /\ pc[t] = "running" => run_input
       /\ pc[t] \in {"set_chunk", "convert_barrier"} => my_chunk[t] = t
       /\ pc[t] = "chunks" => my_chunk[t] < current_chunk
       /\ pc[t] \in {"set_chunk", "convert_barrier", "chunks", "node_barrier"}
            /\ ~Offloads(node[t]) => wdata[t] = node[t]

\* An offloaded product is written at once, by thread 0.
OffloadedInv == \A m \in 1..Products : Offloads(m) /\ Open(m) =>
  \A c \in Chunks(m) :
    dst[m][c] = IF node[0] = m /\ pc[0] \in {"offload_barrier", "node_barrier"}
                THEN "right" ELSE "unwritten"

\* Otherwise every chunk that was handed out has one owner until it is written.
HandingOut(m) == node[0] = m /\ pc[0] \in {"convert_barrier", "chunks", "node_barrier"}
Owns(t, m) == node[t] < m \/ (node[t] = m /\ pc[t] # "node_barrier")
Owned(t, m) == IF node[t] = m /\ pc[t] = "chunks" THEN my_chunk[t] ELSE t
Pending(m, c) == \/ \E t \in Threads : Owns(t, m) /\ Owned(t, m) = c
                 \/ c >= NThreads /\ ~(HandingOut(m) /\ c < current_chunk)

ChunksInv == \A m \in 1..Products : ~Offloads(m) /\ Open(m) =>
  /\ \A c \in Chunks(m) : dst[m][c] = IF Pending(m, c) THEN "unwritten" ELSE "right"
  /\ \A t, u \in Threads : t # u /\ Owns(t, m) /\ Owns(u, m) => Owned(t, m) # Owned(u, m)
  /\ HandingOut(m) => current_chunk >= NThreads
  /\ \A t \in Threads : node[t] = m /\ pc[t] = "node_barrier" => current_chunk >= nchunk[m]

PastInv == \A t \in Threads, m \in 1..Products : Past(t, m) => Computed(m)

ProductInv == Steady /\ HookTypes /\ PlaceInv /\ OffloadedInv /\ ChunksInv /\ PastInv

LEMMA HookTyping ==
  ASSUME IInv
  PROVE  /\ node \in [Threads -> 1..Products] /\ pc \in [Threads -> Labels]
         /\ left \in [Threads -> Nat] /\ Products \in Nat /\ NThreads \in Nat /\ 0 \in Threads
         /\ Threads \subseteq Nat /\ \A t \in Threads : t < NThreads
  BY OffloadAssumption, NThreadsAssumption DEF IInv, BarrierIInv, BarrierTypeOK, Threads

\* Nobody is past a product while a thread is in the middle of it.
LEMMA OpenHere ==
  ASSUME IInv, NEW t \in Threads, pc[t] # "node_barrier", pc[t] # "done"
  PROVE  Open(node[t])
  BY IInvTogether DEF ThreadsTogether, Open

\* Who computes chunks, or has computed them all while nobody is past the
\* product, has met the others in its first barrier.
LEMMA Separated ==
  ASSUME IInv, NEW t \in Threads, pc[t] \in {"chunks", "node_barrier"}, Open(node[t]),
         NEW u \in Threads
  PROVE  /\ node[u] = node[t]
         /\ pc[u] \in {"chunks", "node_barrier", "convert_barrier", "offload_barrier"}
<1>1. /\ node[t] \in 1..Products /\ node[u] \in 1..Products /\ Products \in Nat
      /\ left[t] \in Nat /\ left[u] \in Nat
  BY HookTyping
<1>2. left[t] = 2 * node[t] - 1
  BY <1>1 DEF IInv, PathsAgree, BarriersBehind
<1>3. left[t] <= Entered(u)
  BY IInvSeparates DEF IInv, BarrierSeparates
<1>4. node[u] <= node[t] /\ pc[u] # "done"
  BY <1>1 DEF Open, Past
<1>5. CASE bpc[u] = "outside"
  <2>1. left[u] >= 2 * node[t] - 1
    BY <1>1, <1>2, <1>3, <1>5 DEF Entered
  <2>. QED
    BY <1>1, <1>4, <2>1 DEF IInv, PathsAgree, BarriersBehind
<1>6. CASE bpc[u] # "outside"
  <2>1. left[u] + 1 >= 2 * node[t] - 1
    BY <1>1, <1>2, <1>3 DEF Entered
  <2>2. pc[u] \in BarrierCalls
    BY <1>6 DEF IInv, PathsAgree
  <2>. QED
    BY <1>1, <1>4, <2>1, <2>2 DEF IInv, PathsAgree, BarriersBehind, BarrierCalls
<1>. QED
  BY <1>5, <1>6

\* The input of the product a thread is in is complete.
LEMMA InputComplete ==
  ASSUME IInv, PastInv, NEW t \in Threads
  PROVE  InputRight(node[t])
<1>1. node[t] \in 1..Products /\ Products \in Nat
  BY HookTyping
<1>2. CASE node[t] # 1
  <2>1. node[t] - 1 \in 1..Products /\ Past(t, node[t] - 1)
    BY <1>1, <1>2 DEF Past
  <2>. QED
    BY <2>1 DEF PastInv, Computed, InputRight
<1>. QED
  BY <1>2 DEF InputRight

\* Steps that neither write chunks nor hand any out.
LEMMA ProductsKept ==
  ASSUME IInv, OffloadedInv, ChunksInv, PastInv,
         UNCHANGED <<board, eligible, nchunk, node, dst, current_chunk>>,
         \A u \in Threads :
           \/ pc'[u] = pc[u] /\ (pc[u] = "chunks" => my_chunk'[u] = my_chunk[u])
           \/ /\ {pc[u], pc'[u]} \cap {"chunks", "node_barrier", "done"} = {}
              /\ u = 0 => {pc[u], pc'[u]} \cap {"convert_barrier", "offload_barrier"} = {}
  PROVE  OffloadedInv' /\ ChunksInv' /\ PastInv'
<1>. DEFINE late == {"chunks", "node_barrier", "done"}
<1>0. 0 \in Threads
  BY HookTyping
<1>1. \A u \in Threads : \A x \in late : pc'[u] = x <=> pc[u] = x
  OBVIOUS
<1>2. \A x \in {"convert_barrier", "offload_barrier"} : pc'[0] = x <=> pc[0] = x
  BY <1>0
<1>3. \A u \in Threads : pc[u] = "chunks" => my_chunk'[u] = my_chunk[u]
  OBVIOUS
<1>4. \A m : /\ \A u \in Threads : /\ Past(u, m)' <=> Past(u, m)
                                   /\ Owns(u, m)' <=> Owns(u, m)
                                   /\ Owned(u, m)' = Owned(u, m)
             /\ HandingOut(m)' <=> HandingOut(m)
  BY <1>0, <1>1, <1>2, <1>3 DEF Past, Owns, Owned, HandingOut
<1>5. \A m : /\ Open(m)' <=> Open(m)
             /\ Computed(m)' <=> Computed(m)
             /\ Offloads(m)' <=> Offloads(m)
             /\ Chunks(m)' = Chunks(m)
             /\ \A c : Pending(m, c)' <=> Pending(m, c)
  BY <1>4 DEF Open, Computed, Offloads, Chunks, Pending
<1>6. OffloadedInv'
  <2>1. \A m : (node[0] = m /\ pc[0] \in {"offload_barrier", "node_barrier"})' <=>
               (node[0] = m /\ pc[0] \in {"offload_barrier", "node_barrier"})
    BY <1>0, <1>1, <1>2
  <2>. QED
    BY <1>5, <2>1 DEF OffloadedInv
<1>7. ChunksInv'
  <2>. SUFFICES ASSUME NEW m \in 1..Products, ~Offloads(m), Open(m)
                PROVE  /\ \A c \in Chunks(m) :
                            dst'[m][c] = IF Pending(m, c)' THEN "unwritten" ELSE "right"
                       /\ \A t, u \in Threads : t # u /\ Owns(t, m)' /\ Owns(u, m)' =>
                            Owned(t, m)' # Owned(u, m)'
                       /\ HandingOut(m)' => current_chunk' >= NThreads
                       /\ \A t \in Threads : node'[t] = m /\ pc'[t] = "node_barrier" =>
                            current_chunk' >= nchunk'[m]
    BY <1>5 DEF ChunksInv
  <2>1. \A c \in Chunks(m) : dst'[m][c] = IF Pending(m, c)' THEN "unwritten" ELSE "right"
    BY <1>5 DEF ChunksInv
  <2>2. \A t, u \in Threads : t # u /\ Owns(t, m)' /\ Owns(u, m)' => Owned(t, m)' # Owned(u, m)'
    BY <1>4 DEF ChunksInv
  <2>3. HandingOut(m)' => current_chunk' >= NThreads
    BY <1>4 DEF ChunksInv
  <2>4. \A t \in Threads : node'[t] = m /\ pc'[t] = "node_barrier" => current_chunk' >= nchunk'[m]
    BY <1>1 DEF ChunksInv
  <2>. QED
    BY <2>1, <2>2, <2>3, <2>4
<1>8. PastInv'
  BY <1>4, <1>5 DEF PastInv
<1>. QED
  BY <1>6, <1>7, <1>8

\* The hook takes the path of the product.
LEMMA HookTakesPath ==
  ASSUME IInv, NEW t \in Threads, NEW ready, Hook(t, ready), Steady,
         pc[t] \in {"is_ready", "lock"}, ready <=> board = "works", eligible' = eligible
  PROVE  /\ pc'[t] \in {"run", "offload_barrier", "convert"}
         /\ pc'[t] = "run" => t = 0
         /\ pc'[t] = "offload_barrier" => t # 0
         /\ pc'[t] = "convert" <=> ~Offloads(node[t])
         /\ \A u \in Threads \ {t} : pc'[u] = pc[u]
  BY HookTyping DEF Hook, Jump, Offloads

LEMMA DecideInv ==
  ASSUME IInv, ProductInv, NEW t \in Threads, ReadReady(t) \/ LockAndInit(t)
  PROVE  ProductInv'
<1>1. /\ pc[t] \in {"is_ready", "lock"}
      /\ UNCHANGED <<board, eligible, nchunk, node, my_chunk, current_chunk, wdata,
                     run_input, dst>>
  BY DEF ReadReady, LockAndInit
<1>2. /\ g_ready' \in BOOLEAN /\ (board = "broken" => ~g_ready')
      /\ \/ pc'[t] = "lock" /\ \A u \in Threads \ {t} : pc'[u] = pc[u]
         \/ Hook(t, board = "works")
  <2>1. CASE ReadReady(t)
    <3>1. g_ready' = g_ready /\ (g_ready => board = "works")
      BY <2>1 DEF ReadReady, ProductInv, PlaceInv, Steady
    <3>2. CASE g_ready
      <4>1. Hook(t, TRUE) /\ (board = "works") = TRUE
        BY <2>1, <3>1, <3>2 DEF ReadReady
      <4>2. Hook(t, board = "works")
        BY <4>1
      <4>. QED
        BY <3>1, <4>2 DEF ProductInv, HookTypes, PlaceInv
    <3>3. CASE ~g_ready
      BY <2>1, <3>1, <3>3, HookTyping DEF ReadReady, Jump, ProductInv, HookTypes, PlaceInv
    <3>. QED
      BY <3>2, <3>3
  <2>2. CASE LockAndInit(t)
    <3>1. g_ready \in BOOLEAN /\ (board = "broken" => ~g_ready)
          /\ (board = "works" \/ board = "broken")
      BY DEF ProductInv, HookTypes, PlaceInv, Steady
    <3>2. g_ready' \in (IF g_ready THEN {TRUE} ELSE InitResult) /\ Hook(t, g_ready')
      BY <2>2 DEF LockAndInit
    <3>3. CASE board = "works"
      <4>1. g_ready' = TRUE /\ (board = "works") = TRUE
        BY <3>2, <3>3 DEF InitResult
      <4>. QED
        BY <3>2, <3>3, <4>1
    <3>4. CASE board = "broken"
      <4>1. g_ready' = FALSE /\ (board = "works") = FALSE
        BY <3>1, <3>2, <3>4 DEF InitResult
      <4>. QED
        BY <3>2, <4>1
    <3>. QED
      BY <3>1, <3>3, <3>4
  <2>. QED
    BY <2>1, <2>2
<1>3. /\ pc'[t] \in {"lock", "run", "offload_barrier", "convert"}
      /\ pc'[t] = "run" => t = 0
      /\ pc'[t] = "offload_barrier" => t # 0
      /\ pc'[t] \in {"run", "offload_barrier"} => Offloads(node[t])
      /\ pc'[t] = "convert" => ~Offloads(node[t])
      /\ \A u \in Threads \ {t} : pc'[u] = pc[u]
  <2>1. CASE pc'[t] = "lock" /\ \A u \in Threads \ {t} : pc'[u] = pc[u]
    BY <2>1
  <2>2. CASE Hook(t, board = "works")
    BY <1>1, <2>2, HookTakesPath DEF ProductInv
  <2>. QED
    BY <1>2, <2>1, <2>2
<1>4. HookTypes' /\ Steady'
  BY <1>1, <1>2 DEF ProductInv, HookTypes, Steady, Chunks
<1>5. PlaceInv'
  <2>1. \A u \in Threads : Offloads(node[u])' <=> Offloads(node[u])
    BY <1>1 DEF Offloads
  <2>. QED
    BY <1>1, <1>2, <1>3, <2>1 DEF ProductInv, PlaceInv
<1>6. OffloadedInv' /\ ChunksInv' /\ PastInv'
  BY <1>1, <1>3, ProductsKept DEF ProductInv
<1>. QED
  BY <1>4, <1>5, <1>6 DEF ProductInv

LEMMA RunStartInv ==
  ASSUME IInv, ProductInv, NEW t \in Threads, RunStart(t)
  PROVE  ProductInv'
<1>1. /\ pc[t] = "run" /\ pc'[t] = "running" /\ \A u \in Threads \ {t} : pc'[u] = pc[u]
      /\ UNCHANGED <<board, eligible, nchunk, g_ready, node, my_chunk, current_chunk, wdata, dst>>
      /\ run_input' = InputRight(node[t])
  BY HookTyping DEF RunStart, Jump
<1>2. run_input' /\ t = 0 /\ \A u \in Threads \ {t} : pc[u] # "running"
  <2>1. t = 0 /\ \A u \in Threads : pc[u] = "running" => u = 0
    BY <1>1 DEF ProductInv, PlaceInv
  <2>2. InputRight(node[t])
    BY InputComplete DEF ProductInv
  <2>. QED
    BY <1>1, <2>1, <2>2
<1>3. HookTypes' /\ Steady'
  BY <1>1 DEF ProductInv, HookTypes, Steady, Chunks
<1>4. PlaceInv'
  <2>1. \A u \in Threads : Offloads(node[u])' <=> Offloads(node[u])
    BY <1>1 DEF Offloads
  <2>. QED
    BY <1>1, <1>2, <2>1 DEF ProductInv, PlaceInv
<1>5. OffloadedInv' /\ ChunksInv' /\ PastInv'
  BY <1>1, ProductsKept DEF ProductInv
<1>. QED
  BY <1>3, <1>4, <1>5 DEF ProductInv

LEMMA ConvertInv ==
  ASSUME IInv, ProductInv, NEW t \in Threads, Convert(t)
  PROVE  ProductInv'
<1>1. /\ pc[t] = "convert" /\ \A u \in Threads \ {t} : pc'[u] = pc[u]
      /\ pc'[t] = IF t = 0 THEN "set_chunk" ELSE "convert_barrier"
      /\ UNCHANGED <<board, eligible, nchunk, g_ready, node, current_chunk, run_input, dst>>
      /\ my_chunk' = [my_chunk EXCEPT ![t] = t]
      /\ wdata' = [wdata EXCEPT ![t] = IF InputRight(node[t]) THEN node[t] ELSE 0]
  BY HookTyping DEF Convert, Jump
<1>2. /\ my_chunk'[t] = t /\ wdata'[t] = node[t]
      /\ \A u \in Threads \ {t} : my_chunk'[u] = my_chunk[u] /\ wdata'[u] = wdata[u]
      /\ my_chunk' \in [Threads -> Nat] /\ DOMAIN wdata' = Threads
  <2>1. InputRight(node[t]) /\ t \in Nat
    BY InputComplete, HookTyping DEF ProductInv
  <2>. QED
    BY <1>1, <2>1 DEF ProductInv, HookTypes
<1>3. HookTypes' /\ Steady'
  BY <1>1, <1>2 DEF ProductInv, HookTypes, Steady, Chunks
<1>4. PlaceInv'
  <2>1. \A u \in Threads : Offloads(node[u])' <=> Offloads(node[u])
    BY <1>1 DEF Offloads
  <2>. QED
    BY <1>1, <1>2, <2>1 DEF ProductInv, PlaceInv
<1>5. OffloadedInv' /\ ChunksInv' /\ PastInv'
  BY <1>1, <1>2, ProductsKept DEF ProductInv
<1>. QED
  BY <1>3, <1>4, <1>5 DEF ProductInv

\* A step inside the barrier, or none.
LEMMA HookKept ==
  ASSUME IInv, ProductInv, UNCHANGED hookVars
  PROVE  ProductInv'
<1>1. UNCHANGED <<board, eligible, nchunk, g_ready, pc, node, my_chunk, current_chunk, wdata,
                  run_input, dst>>
  BY DEF hookVars
<1>2. HookTypes' /\ Steady'
  BY <1>1 DEF ProductInv, HookTypes, Steady, Chunks
<1>3. PlaceInv'
  <2>1. \A u \in Threads : Offloads(node[u])' <=> Offloads(node[u])
    BY <1>1 DEF Offloads
  <2>. QED
    BY <1>1, <2>1 DEF ProductInv, PlaceInv
<1>4. OffloadedInv' /\ ChunksInv' /\ PastInv'
  BY <1>1, ProductsKept DEF ProductInv
<1>. QED
  BY <1>2, <1>3, <1>4 DEF ProductInv

LEMMA RunEndInv ==
  ASSUME IInv, ProductInv, NEW t \in Threads, RunEnd(t)
  PROVE  ProductInv'
<1>. DEFINE m == node[t]
<1>1. /\ pc[t] = "running" /\ pc'[t] = "offload_barrier" /\ \A u \in Threads \ {t} : pc'[u] = pc[u]
      /\ UNCHANGED <<board, eligible, nchunk, g_ready, node, my_chunk, current_chunk, wdata,
                     run_input>>
      /\ dst' = [dst EXCEPT ![m] = [c \in Chunks(m) |->
                   IF run_input /\ @[c] = "unwritten" THEN "right" ELSE "wrong"]]
  BY HookTyping DEF RunEnd, AfterRun, Jump, ProductInv, Steady
<1>2. t = 0 /\ run_input /\ Offloads(m) /\ Open(m) /\ m \in 1..Products
  BY <1>1, OpenHere, HookTyping DEF ProductInv, PlaceInv
<1>. HIDE DEF m
<1>3. \A c \in Chunks(m) : dst[m][c] = "unwritten"
  BY <1>1, <1>2 DEF ProductInv, OffloadedInv
<1>4. /\ \A c \in Chunks(m) : dst'[m][c] = "right"
      /\ \A x \in 1..Products : x # m => dst'[x] = dst[x]
      /\ DOMAIN dst' = 1..Products /\ DOMAIN dst'[m] = Chunks(m)
  BY <1>1, <1>2, <1>3 DEF ProductInv, HookTypes
<1>5. \A x : Chunks(x)' = Chunks(x) /\ (Offloads(x)' <=> Offloads(x))
  BY <1>1 DEF Chunks, Offloads
<1>6. HookTypes' /\ Steady'
  BY <1>1, <1>4, <1>5 DEF ProductInv, HookTypes, Steady
<1>7. PlaceInv'
  BY <1>1, <1>2, <1>5 DEF ProductInv, PlaceInv, m
<1>8. \A x \in 1..Products : /\ \A u \in Threads : Past(u, x)' <=> Past(u, x)
                             /\ Open(x)' <=> Open(x)
  BY <1>1 DEF Past, Open
<1>9. OffloadedInv'
  <2>1. \A x \in 1..Products : x # m => node'[0] # x
    BY <1>1, <1>2 DEF m
  <2>. QED
    BY <1>1, <1>2, <1>4, <1>5, <1>8, <2>1 DEF ProductInv, OffloadedInv, m
<1>10. ChunksInv'
  <2>. SUFFICES ASSUME NEW x \in 1..Products, ~Offloads(x), Open(x)
                PROVE  /\ \A c \in Chunks(x) :
                            dst'[x][c] = IF Pending(x, c)' THEN "unwritten" ELSE "right"
                       /\ \A v, w \in Threads : v # w /\ Owns(v, x)' /\ Owns(w, x)' =>
                            Owned(v, x)' # Owned(w, x)'
                       /\ HandingOut(x)' => current_chunk' >= NThreads
                       /\ \A v \in Threads : node'[v] = x /\ pc'[v] = "node_barrier" =>
                            current_chunk' >= nchunk'[x]
    BY <1>5, <1>8 DEF ChunksInv
  <2>1. x # m /\ dst'[x] = dst[x]
    BY <1>2, <1>4
  <2>2. /\ \A v \in Threads : (Owns(v, x)' <=> Owns(v, x)) /\ Owned(v, x)' = Owned(v, x)
        /\ HandingOut(x)' <=> HandingOut(x)
    BY <1>1, <1>2, <2>1 DEF Owns, Owned, HandingOut, m
  <2>3. \A c : Pending(x, c)' <=> Pending(x, c)
    BY <1>1, <2>2 DEF Pending
  <2>4. \A v \in Threads : pc'[v] = "node_barrier" <=> pc[v] = "node_barrier"
    BY <1>1
  <2>. QED
    BY <1>1, <2>1, <2>2, <2>3, <2>4 DEF ProductInv, ChunksInv
<1>11. PastInv'
  <2>1. ASSUME NEW x \in 1..Products, Computed(x), ~Open(x) PROVE Computed(x)'
    BY <1>2, <1>4, <1>5, <2>1 DEF Computed
  <2>. QED
    BY <1>8, <2>1 DEF ProductInv, PastInv, Open
<1>. QED
  BY <1>6, <1>7, <1>9, <1>10, <1>11 DEF ProductInv

LEMMA SetChunkInv ==
  ASSUME IInv, ProductInv, NEW t \in Threads, SetChunk(t)
  PROVE  ProductInv'
<1>1. /\ pc[t] = "set_chunk" /\ pc'[t] = "convert_barrier"
      /\ \A u \in Threads \ {t} : pc'[u] = pc[u]
      /\ UNCHANGED <<board, eligible, nchunk, g_ready, node, my_chunk, wdata, run_input, dst>>
      /\ current_chunk' = NThreads
  BY HookTyping DEF SetChunk, FirstFreeChunk, Jump
<1>2. t = 0 /\ ~Offloads(node[t]) /\ NThreads \in Nat
  BY <1>1, HookTyping DEF ProductInv, PlaceInv
<1>3. \A u \in Threads : pc[u] \in {"chunks", "node_barrier"} => ~Open(node[u])
  BY <1>1, Separated
<1>4. \A u \in Threads : pc[u] # "chunks"
  BY <1>3, OpenHere
<1>5. \A x : Chunks(x)' = Chunks(x) /\ (Offloads(x)' <=> Offloads(x))
  BY <1>1 DEF Chunks, Offloads
<1>6. HookTypes' /\ Steady'
  BY <1>1, <1>2, <1>5 DEF ProductInv, HookTypes, Steady
<1>7. PlaceInv'
  BY <1>1, <1>2, <1>4, <1>5 DEF ProductInv, PlaceInv
<1>8. \A x \in 1..Products : /\ \A u \in Threads : Past(u, x)' <=> Past(u, x)
                             /\ Open(x)' <=> Open(x)
                             /\ Computed(x)' <=> Computed(x)
  BY <1>1, <1>5 DEF Past, Open, Computed
<1>9. OffloadedInv'
  BY <1>1, <1>2, <1>5, <1>8 DEF ProductInv, OffloadedInv
<1>10. ChunksInv'
  <2>. SUFFICES ASSUME NEW x \in 1..Products, ~Offloads(x), Open(x)
                PROVE  /\ \A c \in Chunks(x) :
                            dst'[x][c] = IF Pending(x, c)' THEN "unwritten" ELSE "right"
                       /\ \A v, w \in Threads : v # w /\ Owns(v, x)' /\ Owns(w, x)' =>
                            Owned(v, x)' # Owned(w, x)'
                       /\ HandingOut(x)' => current_chunk' >= NThreads
                       /\ \A v \in Threads : node'[v] = x /\ pc'[v] = "node_barrier" =>
                            current_chunk' >= nchunk'[x]
    BY <1>5, <1>8 DEF ChunksInv
  <2>1. \A v \in Threads : (Owns(v, x)' <=> Owns(v, x)) /\ Owned(v, x)' = Owned(v, x)
    BY <1>1 DEF Owns, Owned
  <2>2. ~HandingOut(x)
    <3>1. HandingOut(x) => node[0] = x /\ pc[0] # "set_chunk"
      BY DEF HandingOut
    <3>. QED
      BY <1>1, <1>2, <3>1
  <2>3. \A c \in Chunks(x) : Pending(x, c)' <=> Pending(x, c)
    <3>1. \A c \in Chunks(x) : c >= NThreads => ~(c < NThreads)
      BY <1>2 DEF Chunks
    <3>. QED
      BY <1>1, <2>1, <2>2, <3>1 DEF Pending
  <2>4. \A v \in Threads : node'[v] = x => pc'[v] # "node_barrier"
    BY <1>1, <1>3
  <2>. QED
    BY <1>1, <1>2, <2>1, <2>3, <2>4 DEF ProductInv, ChunksInv
<1>11. PastInv'
  BY <1>8 DEF ProductInv, PastInv
<1>. QED
  BY <1>6, <1>7, <1>9, <1>10, <1>11 DEF ProductInv

\* While t computes chunks, all have converted, and thread 0 has set the counter.
LEMMA WhileComputing ==
  ASSUME IInv, ProductInv, NEW t \in Threads, pc[t] = "chunks"
  PROVE  /\ node[t] \in 1..Products /\ ~Offloads(node[t]) /\ Open(node[t]) /\ HandingOut(node[t])
         /\ \A u \in Threads : node[u] = node[t] /\ wdata[u] = node[t]
         /\ my_chunk[t] \in Nat /\ my_chunk[t] < current_chunk
         /\ current_chunk \in Nat /\ current_chunk >= NThreads
         /\ \A c : dst[node[t]][c] = "unwritten" \/ c \notin Chunks(node[t]) \/ ~Pending(node[t], c)
<1>1. /\ node[t] \in 1..Products /\ ~Offloads(node[t]) /\ Open(node[t]) /\ 0 \in Threads
      /\ my_chunk[t] \in Nat /\ my_chunk[t] < current_chunk /\ current_chunk \in Nat
  BY HookTyping, OpenHere DEF ProductInv, PlaceInv, HookTypes
<1>2. ASSUME NEW u \in Threads
      PROVE  node[u] = node[t] /\ pc[u] \in {"chunks", "node_barrier", "convert_barrier"}
  <2>1. /\ node[u] = node[t]
        /\ pc[u] \in {"chunks", "node_barrier", "convert_barrier", "offload_barrier"}
    BY <1>1, Separated
  <2>2. pc[u] # "offload_barrier"
    BY <1>1, <2>1 DEF ProductInv, PlaceInv
  <2>. QED
    BY <2>1, <2>2
<1>3. \A u \in Threads : wdata[u] = node[t]
  BY <1>1, <1>2 DEF ProductInv, PlaceInv
<1>4. HandingOut(node[t])
  BY <1>1, <1>2 DEF HandingOut
<1>5. current_chunk >= NThreads
  BY <1>1, <1>4 DEF ProductInv, ChunksInv
<1>6. \A c \in Chunks(node[t]) : Pending(node[t], c) => dst[node[t]][c] = "unwritten"
  BY <1>1 DEF ProductInv, ChunksInv
<1>. QED
  BY <1>1, <1>2, <1>3, <1>4, <1>5, <1>6

LEMMA ComputeChunkInv ==
  ASSUME IInv, ProductInv, NEW t \in Threads, ComputeChunk(t)
  PROVE  ProductInv'
<1>0. PICK m, a, k : m = node[t] /\ a = my_chunk[t] /\ k = current_chunk
  OBVIOUS
<1>1. /\ m \in 1..Products /\ ~Offloads(m) /\ Open(m) /\ HandingOut(m) /\ pc[t] = "chunks"
      /\ \A u \in Threads : node[u] = m /\ wdata[u] = m
      /\ a \in Nat /\ a < k /\ k \in Nat /\ k >= NThreads
      /\ \A c : dst[m][c] = "unwritten" \/ c \notin Chunks(m) \/ ~Pending(m, c)
  BY <1>0, WhileComputing DEF ComputeChunk
<1>2. NThreads \in Nat /\ 0 \in Threads /\ \A u \in Threads : u \in Nat /\ u < NThreads
  BY HookTyping
<1>3. nchunk[m] \in Nat /\ a < nchunk[m] /\ a \in Chunks(m)
  <2>1. nchunk[m] \in ChunkCounts
    BY <1>1 DEF ProductInv, HookTypes
  <2>2. nchunk[m] \in Nat
    BY <1>2, <2>1 DEF ChunkCounts
  <2>3. a < nchunk[m]
    BY <1>0 DEF ComputeChunk
  <2>. QED
    BY <1>1, <2>2, <2>3 DEF Chunks
<1>4. Owns(t, m) /\ Owned(t, m) = a
  BY <1>0, <1>1 DEF Owns, Owned
<1>5. dst[m][a] = "unwritten"
  BY <1>1, <1>3, <1>4 DEF Pending
<1>6. /\ UNCHANGED <<board, eligible, nchunk, g_ready, node, wdata, run_input>>
      /\ dst' = [dst EXCEPT ![m][a] = "right"]
      /\ \/ /\ NThreads >= nchunk[m] /\ pc' = [pc EXCEPT ![t] = "node_barrier"]
            /\ my_chunk' = my_chunk /\ current_chunk' = k
         \/ /\ ~(NThreads >= nchunk[m]) /\ pc' = pc
            /\ my_chunk' = [my_chunk EXCEPT ![t] = k] /\ current_chunk' = k + 1
  BY <1>0, <1>1, <1>5 DEF ComputeChunk, Jump
<1>7. /\ dst'[m][a] = "right" /\ \A c \in Chunks(m) : c # a => dst'[m][c] = dst[m][c]
      /\ \A x \in 1..Products : x # m => dst'[x] = dst[x]
      /\ DOMAIN dst' = 1..Products /\ DOMAIN dst'[m] = Chunks(m)
  BY <1>1, <1>3, <1>6 DEF ProductInv, HookTypes
<1>8. \A u \in Threads \ {t} : pc'[u] = pc[u] /\ my_chunk'[u] = my_chunk[u]
  BY <1>6, HookTyping DEF ProductInv, HookTypes
<1>9. \/ NThreads >= nchunk[m] /\ pc'[t] = "node_barrier" /\ my_chunk'[t] = a /\ current_chunk' = k
      \/ ~(NThreads >= nchunk[m]) /\ pc'[t] = "chunks" /\ my_chunk'[t] = k /\ current_chunk' = k + 1
  BY <1>0, <1>1, <1>6, HookTyping DEF ProductInv, HookTypes
<1>10. current_chunk' \in Nat /\ current_chunk' >= k
  BY <1>0, <1>1, <1>9
<1>11. \A x : Chunks(x)' = Chunks(x) /\ (Offloads(x)' <=> Offloads(x))
  BY <1>6 DEF Chunks, Offloads
<1>12. HookTypes' /\ Steady'
  <2>1. my_chunk' \in [Threads -> Nat]
    BY <1>1, <1>6 DEF ProductInv, HookTypes
  <2>. QED
    BY <1>6, <1>7, <1>10, <1>11, <2>1 DEF ProductInv, HookTypes, Steady
<1>13. PlaceInv'
  <2>1. \A u \in Threads \ {t} : pc[u] = "chunks" => my_chunk'[u] < current_chunk'
    <3>1. \A u \in Threads : pc[u] = "chunks" => my_chunk[u] \in Nat /\ my_chunk[u] < k
      BY <1>0 DEF ProductInv, PlaceInv, HookTypes
    <3>. QED
      BY <1>1, <1>8, <1>10, <3>1
  <2>2. pc'[t] = "chunks" => my_chunk'[t] < current_chunk'
    BY <1>0, <1>1, <1>9
  <2>3. pc'[t] \in {"chunks", "node_barrier"} /\ wdata'[t] = node'[t] /\ ~Offloads(node[t])
    BY <1>0, <1>1, <1>6, <1>9
  <2>. QED
    BY <1>6, <1>8, <1>11, <2>1, <2>2, <2>3 DEF ProductInv, PlaceInv
<1>14. \A x : /\ \A u \in Threads : Past(u, x)' <=> Past(u, x)
              /\ Open(x)' <=> Open(x)
  <2>1. \A u \in Threads : pc'[u] = "done" <=> pc[u] = "done"
    BY <1>1, <1>8, <1>9
  <2>. QED
    BY <1>6, <2>1 DEF Past, Open
<1>15. OffloadedInv'
  <2>1. \A x \in 1..Products : x # m => ~(node'[0] = x)
    BY <1>1, <1>2, <1>6
  <2>. QED
    BY <1>1, <1>2, <1>6, <1>7, <1>11, <1>14, <2>1 DEF ProductInv, OffloadedInv
<1>16. ChunksInv'
  <2>. SUFFICES ASSUME NEW x \in 1..Products, ~Offloads(x), Open(x)
                PROVE  /\ \A c \in Chunks(x) :
                            dst'[x][c] = IF Pending(x, c)' THEN "unwritten" ELSE "right"
                       /\ \A v, w \in Threads : v # w /\ Owns(v, x)' /\ Owns(w, x)' =>
                            Owned(v, x)' # Owned(w, x)'
                       /\ HandingOut(x)' => current_chunk' >= NThreads
                       /\ \A v \in Threads : node'[v] = x /\ pc'[v] = "node_barrier" =>
                            current_chunk' >= nchunk'[x]
    BY <1>11, <1>14 DEF ChunksInv
  <2>1. /\ \A c \in Chunks(x) : dst[x][c] = IF Pending(x, c) THEN "unwritten" ELSE "right"
        /\ \A v, w \in Threads : v # w /\ Owns(v, x) /\ Owns(w, x) => Owned(v, x) # Owned(w, x)
        /\ \A v \in Threads : node[v] = x /\ pc[v] = "node_barrier" => k >= nchunk[x]
    BY <1>0 DEF ProductInv, ChunksInv
  <2>2. HandingOut(x)' => current_chunk' >= NThreads
    BY <1>0, <1>1, <1>2, <1>10
  <2>3. nchunk'[x] = nchunk[x] /\ nchunk[x] \in Nat
    BY <1>2, <1>6 DEF ProductInv, HookTypes, ChunkCounts
  <2>4. \A v \in Threads \ {t} : (Owns(v, x)' <=> Owns(v, x)) /\ Owned(v, x)' = Owned(v, x)
    BY <1>6, <1>8 DEF Owns, Owned
  <2>5. CASE x # m
    <3>1. (Owns(t, x)' <=> Owns(t, x)) /\ Owned(t, x)' = Owned(t, x)
          /\ ~HandingOut(x) /\ ~HandingOut(x)'
      BY <1>1, <1>2, <1>6, <2>5 DEF Owns, Owned, HandingOut
    <3>2. \A v \in Threads : (Owns(v, x)' <=> Owns(v, x)) /\ Owned(v, x)' = Owned(v, x)
      BY <2>4, <3>1
    <3>3. \A c : Pending(x, c)' <=> Pending(x, c)
      BY <3>1, <3>2 DEF Pending
    <3>4. \A v \in Threads : node'[v] # x
      BY <1>1, <1>6, <2>5
    <3>. QED
      BY <1>7, <2>1, <2>2, <2>5, <3>2, <3>3, <3>4
  <2>6. CASE x = m
    <3>1. HandingOut(m)'
      <4>1. pc'[0] \in {"convert_barrier", "chunks", "node_barrier"}
        BY <1>1, <1>2, <1>8, <1>9 DEF HandingOut
      <4>. QED
        BY <1>1, <1>2, <1>6, <4>1 DEF HandingOut
    <3>2. \A v \in Threads \ {t} : Owns(v, m) => Owned(v, m) # a /\ Owned(v, m) \in Nat /\ Owned(v, m) < k
      <4>1. \A v \in Threads \ {t} : Owns(v, m) => Owned(v, m) # a
        BY <1>4, <2>1, <2>6
      <4>2. \A v \in Threads : my_chunk[v] \in Nat /\ (pc[v] = "chunks" => my_chunk[v] < k)
        BY <1>0 DEF ProductInv, PlaceInv, HookTypes
      <4>3. \A v \in Threads : v \in Nat /\ v < k
        BY <1>1, <1>2
      <4>. QED
        BY <4>1, <4>2, <4>3 DEF Owned
    <3>3. CASE NThreads >= nchunk[m] /\ pc'[t] = "node_barrier" /\ current_chunk' = k
      <4>1. ~Owns(t, m)'
        BY <1>1, <1>6, <3>3, HookTyping DEF Owns
      <4>2. \A c \in Chunks(m) : c < NThreads
        BY <1>2, <1>3, <3>3 DEF Chunks
      <4>3. \A c \in Chunks(m) : /\ Pending(m, c) <=> \E v \in Threads : Owns(v, m) /\ Owned(v, m) = c
                                 /\ Pending(m, c)' <=> \E v \in Threads : Owns(v, m)' /\ Owned(v, m)' = c
        <5>1. \A c \in Chunks(m) : ~(c >= NThreads)
          BY <1>2, <1>3, <4>2 DEF Chunks
        <5>. QED
          BY <5>1 DEF Pending
      <4>4. \A c \in Chunks(m) : Pending(m, c)' <=> (Pending(m, c) /\ c # a)
        BY <1>4, <2>4, <2>6, <3>2, <4>1, <4>3
      <4>5. \A c \in Chunks(m) : dst'[m][c] = IF Pending(m, c)' THEN "unwritten" ELSE "right"
        BY <1>7, <2>1, <2>6, <4>4
      <4>6. \A v, w \in Threads : v # w /\ Owns(v, m)' /\ Owns(w, m)' => Owned(v, m)' # Owned(w, m)'
        BY <2>1, <2>4, <2>6, <4>1
      <4>7. current_chunk' >= nchunk'[m]
        BY <1>1, <1>2, <1>3, <2>3, <2>6, <3>3
      <4>. QED
        BY <2>2, <2>6, <4>5, <4>6, <4>7
    <3>4. CASE pc'[t] = "chunks" /\ my_chunk'[t] = k /\ current_chunk' = k + 1
      <4>1. Owns(t, m)' /\ Owned(t, m)' = k
        BY <1>1, <1>6, <3>4 DEF Owns, Owned
      <4>2. \A c \in Chunks(m) : c \in Nat /\ (c < k + 1 <=> (c < k \/ c = k))
        BY <1>1, <1>3 DEF Chunks
      <4>3. \A c \in Chunks(m) : Pending(m, c)' <=> (Pending(m, c) /\ c # a)
        <5>. TAKE c \in Chunks(m)
        <5>1. Pending(m, c) <=> \/ c = a \/ \E v \in Threads \ {t} : Owns(v, m) /\ Owned(v, m) = c
                                \/ c >= NThreads /\ ~(c < k)
          BY <1>0, <1>1, <1>4 DEF Pending
        <5>2. Pending(m, c)' <=> \/ c = k \/ \E v \in Threads \ {t} : Owns(v, m) /\ Owned(v, m) = c
                                 \/ c >= NThreads /\ ~(c < k + 1)
          BY <2>4, <2>6, <3>1, <3>4, <4>1 DEF Pending
        <5>3. c = a => ~(c >= NThreads /\ ~(c < k + 1)) /\ c # k
          BY <1>1, <4>2
        <5>4. c = k => c >= NThreads /\ ~(c < k)
          BY <1>1, <1>2
        <5>. QED
          BY <3>2, <4>2, <5>1, <5>2, <5>3, <5>4
      <4>4. \A c \in Chunks(m) : dst'[m][c] = IF Pending(m, c)' THEN "unwritten" ELSE "right"
        BY <1>7, <2>1, <2>6, <4>3
      <4>5. \A v \in Threads \ {t} : Owns(v, m)' => Owned(v, m)' # k
        BY <1>1, <2>4, <2>6, <3>2
      <4>6. \A v, w \in Threads : v # w /\ Owns(v, m)' /\ Owns(w, m)' => Owned(v, m)' # Owned(w, m)'
        BY <2>1, <2>4, <2>6, <4>1, <4>5
      <4>7. \A v \in Threads : node'[v] = m /\ pc'[v] = "node_barrier" => current_chunk' >= nchunk'[m]
        <5>1. \A v \in Threads : pc'[v] = "node_barrier" => pc[v] = "node_barrier" /\ node'[v] = node[v]
          BY <1>6, <1>8, <3>4
        <5>. QED
          BY <1>1, <1>10, <2>1, <2>3, <2>6, <5>1
      <4>. QED
        BY <2>2, <2>6, <4>4, <4>6, <4>7
    <3>. QED
      BY <1>9, <3>3, <3>4
  <2>. QED
    BY <2>5, <2>6
<1>17. PastInv'
  <2>1. ASSUME NEW x \in 1..Products, Computed(x), ~Open(x) PROVE Computed(x)'
    BY <1>1, <1>7, <1>11, <2>1 DEF Computed
  <2>. QED
    BY <1>14, <2>1 DEF ProductInv, PastInv, Open
<1>. QED
  BY <1>12, <1>13, <1>15, <1>16, <1>17 DEF ProductInv

LEMMA NoChunkLeftInv ==
  ASSUME IInv, ProductInv, NEW t \in Threads, NoChunkLeft(t)
  PROVE  ProductInv'
<1>0. PICK m, a, k : m = node[t] /\ a = my_chunk[t] /\ k = current_chunk
  OBVIOUS
<1>1. /\ m \in 1..Products /\ ~Offloads(m) /\ Open(m) /\ HandingOut(m) /\ pc[t] = "chunks"
      /\ \A u \in Threads : node[u] = m /\ wdata[u] = m
      /\ a \in Nat /\ a < k /\ k \in Nat /\ k >= NThreads
  BY <1>0, WhileComputing DEF NoChunkLeft
<1>2. /\ pc'[t] = "node_barrier" /\ \A u \in Threads \ {t} : pc'[u] = pc[u]
      /\ UNCHANGED <<board, eligible, nchunk, g_ready, node, my_chunk, current_chunk, wdata,
                     run_input, dst>>
  BY HookTyping DEF NoChunkLeft, Jump
<1>3. NThreads \in Nat /\ 0 \in Threads /\ \A u \in Threads : u \in Nat /\ u < NThreads
  BY HookTyping
<1>4. nchunk[m] \in Nat /\ a >= nchunk[m] /\ k >= nchunk[m] /\ \A c \in Chunks(m) : c # a
  <2>1. nchunk[m] \in ChunkCounts
    BY <1>1 DEF ProductInv, HookTypes
  <2>2. nchunk[m] \in Nat
    BY <1>3, <2>1 DEF ChunkCounts
  <2>3. a >= nchunk[m]
    BY <1>0 DEF NoChunkLeft
  <2>. QED
    BY <1>1, <2>2, <2>3 DEF Chunks
<1>5. \A x : Chunks(x)' = Chunks(x) /\ (Offloads(x)' <=> Offloads(x))
  BY <1>2 DEF Chunks, Offloads
<1>6. \A x : /\ \A u \in Threads : Past(u, x)' <=> Past(u, x)
             /\ Open(x)' <=> Open(x)
             /\ Computed(x)' <=> Computed(x)
  <2>1. \A u \in Threads : pc'[u] = "done" <=> pc[u] = "done"
    BY <1>1, <1>2
  <2>. QED
    BY <1>2, <1>5, <2>1 DEF Past, Open, Computed
<1>7. HookTypes' /\ Steady'
  BY <1>2, <1>5 DEF ProductInv, HookTypes, Steady
<1>8. PlaceInv'
  <2>1. wdata'[t] = node'[t]
    BY <1>0, <1>1, <1>2
  <2>. QED
    BY <1>2, <1>5, <2>1 DEF ProductInv, PlaceInv
<1>9. OffloadedInv'
  <2>1. \A x \in 1..Products : x # m => ~(node'[0] = x) /\ ~(node[0] = x)
    BY <1>1, <1>2, <1>3
  <2>. QED
    BY <1>1, <1>2, <1>5, <1>6, <2>1 DEF ProductInv, OffloadedInv
<1>10. HandingOut(m)' /\ \A x : x # m => ~HandingOut(x) /\ ~HandingOut(x)'
  <2>1. pc'[0] \in {"convert_barrier", "chunks", "node_barrier"}
    BY <1>1, <1>2, <1>3 DEF HandingOut
  <2>. QED
    BY <1>1, <1>2, <1>3, <2>1 DEF HandingOut
<1>11. ChunksInv'
  <2>. SUFFICES ASSUME NEW x \in 1..Products, ~Offloads(x), Open(x)
                PROVE  /\ \A c \in Chunks(x) :
                            dst'[x][c] = IF Pending(x, c)' THEN "unwritten" ELSE "right"
                       /\ \A v, w \in Threads : v # w /\ Owns(v, x)' /\ Owns(w, x)' =>
                            Owned(v, x)' # Owned(w, x)'
                       /\ HandingOut(x)' => current_chunk' >= NThreads
                       /\ \A v \in Threads : node'[v] = x /\ pc'[v] = "node_barrier" =>
                            current_chunk' >= nchunk'[x]
    BY <1>5, <1>6 DEF ChunksInv
  <2>1. /\ \A c \in Chunks(x) : dst[x][c] = IF Pending(x, c) THEN "unwritten" ELSE "right"
        /\ \A v, w \in Threads : v # w /\ Owns(v, x) /\ Owns(w, x) => Owned(v, x) # Owned(w, x)
        /\ \A v \in Threads : node[v] = x /\ pc[v] = "node_barrier" => k >= nchunk[x]
    BY <1>0 DEF ProductInv, ChunksInv
  <2>2. HandingOut(x)' => current_chunk' >= NThreads
    BY <1>0, <1>1, <1>2
  <2>3. \A v \in Threads \ {t} : (Owns(v, x)' <=> Owns(v, x)) /\ Owned(v, x)' = Owned(v, x)
    BY <1>2 DEF Owns, Owned
  <2>4. /\ Owns(t, x)' => Owns(t, x) /\ Owned(t, x)' = Owned(t, x)
        /\ Owns(t, x) /\ ~Owns(t, x)' => x = m /\ Owned(t, x) = a
    BY <1>0, <1>1, <1>2 DEF Owns, Owned
  <2>5. \A c \in Chunks(x) : Pending(x, c)' <=> Pending(x, c)
    <3>1. HandingOut(x)' <=> HandingOut(x)
      BY <1>1, <1>10
    <3>2. ASSUME NEW c \in Chunks(x), NEW v \in Threads
          PROVE  (Owns(v, x) /\ Owned(v, x) = c) <=> (Owns(v, x)' /\ Owned(v, x)' = c)
      <4>1. CASE v # t
        BY <2>3, <4>1
      <4>2. CASE v = t
        BY <1>4, <2>4, <4>2
      <4>. QED
        BY <4>1, <4>2
    <3>. QED
      BY <1>2, <3>1, <3>2 DEF Pending
  <2>6. \A v, w \in Threads : v # w /\ Owns(v, x)' /\ Owns(w, x)' => Owned(v, x)' # Owned(w, x)'
    BY <2>1, <2>3, <2>4
  <2>7. \A v \in Threads : node'[v] = x /\ pc'[v] = "node_barrier" => current_chunk' >= nchunk'[x]
    BY <1>0, <1>1, <1>2, <1>4, <2>1
  <2>. QED
    BY <1>2, <2>1, <2>2, <2>5, <2>6, <2>7
<1>12. PastInv'
  BY <1>6 DEF ProductInv, PastInv
<1>. QED
  BY <1>7, <1>8, <1>9, <1>11, <1>12 DEF ProductInv

\* The threads that have met in the first barrier of an open product.
Met == \A t, u \in Threads :
  pc[t] \in {"chunks", "node_barrier"} /\ Open(node[t]) =>
    /\ node[u] = node[t]
    /\ pc[u] \in {"chunks", "node_barrier", "convert_barrier", "offload_barrier"}

LEMMA NextMeets == IInv /\ [Next]_vars => Met' /\ ThreadsTogether'
<1>1. IInv => Met /\ ThreadsTogether
  BY Separated, IInvTogether DEF Met
<1>. QED
  BY <1>1, NextIInv, PTL

\* A step that leaves the chunks of product x, and who computes them, alone.
LEMMA ChunksKept ==
  ASSUME ProductInv, NEW x \in 1..Products, ~Offloads(x), Open(x),
         UNCHANGED <<nchunk, dst, current_chunk>>,
         \A v \in Threads : (Owns(v, x)' <=> Owns(v, x)) /\ Owned(v, x)' = Owned(v, x),
         HandingOut(x)' <=> HandingOut(x),
         \A v \in Threads : node'[v] = x /\ pc'[v] = "node_barrier" =>
                              node[v] = x /\ pc[v] = "node_barrier"
  PROVE  /\ \A c \in Chunks(x) : dst'[x][c] = IF Pending(x, c)' THEN "unwritten" ELSE "right"
         /\ \A v, w \in Threads : v # w /\ Owns(v, x)' /\ Owns(w, x)' =>
              Owned(v, x)' # Owned(w, x)'
         /\ HandingOut(x)' => current_chunk' >= NThreads
         /\ \A v \in Threads : node'[v] = x /\ pc'[v] = "node_barrier" =>
              current_chunk' >= nchunk'[x]
<1>1. \A c : Pending(x, c)' <=> Pending(x, c)
  BY DEF Pending
<1>. QED
  BY <1>1 DEF ProductInv, ChunksInv

LEMMA OffloadBarrierInv ==
  ASSUME IInv, ProductInv, NEW t \in Threads, OutOfBarrier(t), pc[t] = "offload_barrier"
  PROVE  ProductInv'
<1>0. PICK m : m = node[t]
  OBVIOUS
<1>1. /\ pc'[t] = "node_barrier" /\ \A u \in Threads \ {t} : pc'[u] = pc[u]
      /\ UNCHANGED <<board, eligible, nchunk, g_ready, node, my_chunk, current_chunk, wdata,
                     run_input, dst>>
  BY HookTyping DEF OutOfBarrier, Jump
<1>2. Offloads(m) /\ 0 \in Threads
  BY <1>0, HookTyping DEF ProductInv, PlaceInv
<1>3. \A x : Chunks(x)' = Chunks(x) /\ (Offloads(x)' <=> Offloads(x))
  BY <1>1 DEF Chunks, Offloads
<1>4. \A x : /\ \A u \in Threads : Past(u, x)' <=> Past(u, x)
             /\ Open(x)' <=> Open(x)
             /\ Computed(x)' <=> Computed(x)
  <2>1. \A u \in Threads : pc'[u] = "done" <=> pc[u] = "done"
    BY <1>1
  <2>. QED
    BY <1>1, <1>3, <2>1 DEF Past, Open, Computed
<1>5. HookTypes' /\ Steady'
  BY <1>1, <1>3 DEF ProductInv, HookTypes, Steady
<1>6. PlaceInv'
  BY <1>0, <1>1, <1>2, <1>3 DEF ProductInv, PlaceInv
<1>7. OffloadedInv'
  <2>1. pc'[0] \in {"offload_barrier", "node_barrier"} <=> pc[0] \in {"offload_barrier", "node_barrier"}
    BY <1>1, <1>2
  <2>. QED
    BY <1>1, <1>3, <1>4, <2>1 DEF ProductInv, OffloadedInv
<1>8. ChunksInv'
  <2>1. ASSUME NEW x \in 1..Products, ~Offloads(x), Open(x)
        PROVE  /\ \A v \in Threads : (Owns(v, x)' <=> Owns(v, x)) /\ Owned(v, x)' = Owned(v, x)
               /\ HandingOut(x)' <=> HandingOut(x)
               /\ \A v \in Threads : node'[v] = x /\ pc'[v] = "node_barrier" =>
                                       node[v] = x /\ pc[v] = "node_barrier"
    <3>1. node[t] # x
      BY <1>0, <1>2, <2>1
    <3>. QED
      BY <1>1, <1>2, <3>1 DEF Owns, Owned, HandingOut
  <2>2. UNCHANGED <<nchunk, dst, current_chunk>>
    BY <1>1
  <2>. QED
    BY <1>3, <1>4, <2>1, <2>2, ChunksKept DEF ChunksInv
<1>9. PastInv'
  BY <1>4 DEF ProductInv, PastInv
<1>. QED
  BY <1>5, <1>6, <1>7, <1>8, <1>9 DEF ProductInv

\* All have converted, and thread 0 has set the counter.
LEMMA ConvertBarrierInv ==
  ASSUME IInv, ProductInv, NEW t \in Threads, OutOfBarrier(t), pc[t] = "convert_barrier"
  PROVE  ProductInv'
<1>0. PICK m : m = node[t]
  OBVIOUS
<1>1. /\ pc'[t] = "chunks" /\ \A u \in Threads \ {t} : pc'[u] = pc[u]
      /\ UNCHANGED <<board, eligible, nchunk, g_ready, node, my_chunk, current_chunk, wdata,
                     run_input, dst>>
  BY HookTyping DEF OutOfBarrier, Jump
<1>2. /\ ~Offloads(m) /\ Open(m) /\ 0 \in Threads /\ m \in 1..Products /\ my_chunk[t] = t
      /\ wdata[t] = m /\ t \in Nat /\ t < NThreads /\ NThreads \in Nat
      /\ current_chunk \in Nat
  BY <1>0, OpenHere, HookTyping DEF ProductInv, PlaceInv, HookTypes
<1>3. \A x : Chunks(x)' = Chunks(x) /\ (Offloads(x)' <=> Offloads(x))
  BY <1>1 DEF Chunks, Offloads
<1>4. \A x : /\ \A u \in Threads : Past(u, x)' <=> Past(u, x)
             /\ Open(x)' <=> Open(x)
             /\ Computed(x)' <=> Computed(x)
  <2>1. \A u \in Threads : pc'[u] = "done" <=> pc[u] = "done"
    BY <1>1
  <2>. QED
    BY <1>1, <1>3, <2>1 DEF Past, Open, Computed
<1>5. HandingOut(m)
  <2>1. Met'
    BY NextMeets DEF Next, Step
  <2>2. /\ node'[0] = m
        /\ pc'[0] \in {"chunks", "node_barrier", "convert_barrier", "offload_barrier"}
    <3>1. node'[t] = m /\ Open(m)'
      BY <1>0, <1>1, <1>2, <1>4
    <3>2. Open(node[t])'
      BY <1>0, <1>1, <3>1 DEF Open
    <3>. QED
      BY <1>1, <1>2, <2>1, <3>1, <3>2 DEF Met
  <2>3. CASE t = 0
    BY <1>0, <2>3 DEF HandingOut
  <2>4. CASE t # 0
    <3>1. node[0] = m /\ pc'[0] = pc[0]
      BY <1>1, <1>2, <2>2, <2>4
    <3>2. pc[0] # "offload_barrier"
      BY <1>2, <3>1 DEF ProductInv, PlaceInv
    <3>. QED
      BY <2>2, <3>1, <3>2 DEF HandingOut
  <2>. QED
    BY <2>3, <2>4
<1>6. current_chunk >= NThreads
  BY <1>2, <1>5 DEF ProductInv, ChunksInv
<1>7. HookTypes' /\ Steady'
  BY <1>1, <1>3 DEF ProductInv, HookTypes, Steady
<1>8. PlaceInv'
  <2>1. my_chunk'[t] < current_chunk'
    BY <1>1, <1>2, <1>6
  <2>. QED
    BY <1>0, <1>1, <1>2, <1>3, <2>1 DEF ProductInv, PlaceInv
<1>9. OffloadedInv'
  <2>1. pc'[0] \in {"offload_barrier", "node_barrier"} <=> pc[0] \in {"offload_barrier", "node_barrier"}
    BY <1>1, <1>2
  <2>. QED
    BY <1>1, <1>3, <1>4, <2>1 DEF ProductInv, OffloadedInv
<1>10. ChunksInv'
  <2>1. ASSUME NEW x \in 1..Products, ~Offloads(x), Open(x)
        PROVE  /\ \A v \in Threads : (Owns(v, x)' <=> Owns(v, x)) /\ Owned(v, x)' = Owned(v, x)
               /\ HandingOut(x)' <=> HandingOut(x)
               /\ \A v \in Threads : node'[v] = x /\ pc'[v] = "node_barrier" =>
                                       node[v] = x /\ pc[v] = "node_barrier"
    BY <1>1, <1>2 DEF Owns, Owned, HandingOut
  <2>2. UNCHANGED <<nchunk, dst, current_chunk>>
    BY <1>1
  <2>. QED
    BY <1>3, <1>4, <2>1, <2>2, ChunksKept DEF ChunksInv
<1>11. PastInv'
  BY <1>4 DEF ProductInv, PastInv
<1>. QED
  BY <1>7, <1>8, <1>9, <1>10, <1>11 DEF ProductInv

\* A thread goes on from a product.
LEMMA NodeBarrierInv ==
  ASSUME IInv, ProductInv, NEW t \in Threads, OutOfBarrier(t), pc[t] = "node_barrier"
  PROVE  ProductInv'
<1>0. PICK m : m = node[t]
  OBVIOUS
<1>1. /\ pc'[t] \in {"is_ready", "done"} /\ \A u \in Threads \ {t} : pc'[u] = pc[u]
      /\ \A u \in Threads \ {t} : node'[u] = node[u]
      /\ pc'[t] = "done" => m = Products /\ node'[t] = m
      /\ pc'[t] = "is_ready" => node'[t] = m + 1
      /\ UNCHANGED <<board, eligible, nchunk, g_ready, my_chunk, current_chunk, wdata,
                     run_input, dst>>
  BY <1>0, HookTyping DEF OutOfBarrier, Jump
<1>2. 0 \in Threads /\ m \in 1..Products /\ Products \in Nat /\ NThreads \in Nat
      /\ \A u \in Threads : node[u] \in 1..Products
  BY <1>0, HookTyping
<1>3. \A x : Chunks(x)' = Chunks(x) /\ (Offloads(x)' <=> Offloads(x)) /\ (Computed(x)' <=> Computed(x))
  BY <1>1 DEF Chunks, Offloads, Computed
<1>4. Open(m) => \A u \in Threads : node[u] = m /\ pc[u] = "node_barrier"
  <2>1. ASSUME Open(m), NEW u \in Threads \ {t} PROVE node[u] = m /\ pc[u] = "node_barrier"
    <3>1. node[u] = m /\ pc[u] # "done"
      BY <1>0, <2>1, Separated
    <3>2. Past(t, m)' /\ node'[u] = m
      BY <1>1, <1>2, <2>1, <3>1 DEF Past
    <3>3. ThreadsTogether'
      BY NextMeets DEF Next, Step
    <3>4. Past(t, node[u])'
      BY <3>2 DEF Past
    <3>5. pc'[u] = "node_barrier" \/ pc'[u] = "done"
      BY <3>3, <3>4 DEF ThreadsTogether
    <3>. QED
      BY <1>1, <3>1, <3>5
  <2>. QED
    BY <1>0, <2>1
<1>5. Computed(m)
  <2>1. CASE ~Open(m)
    BY <1>2, <2>1 DEF ProductInv, PastInv, Open
  <2>2. CASE Open(m) /\ Offloads(m)
    BY <1>2, <1>4, <2>2 DEF ProductInv, OffloadedInv, Computed
  <2>3. CASE Open(m) /\ ~Offloads(m)
    <3>1. HandingOut(m) /\ \A u \in Threads : ~Owns(u, m)
      BY <1>2, <1>4, <2>3 DEF HandingOut, Owns
    <3>2. current_chunk >= nchunk[m]
      BY <1>0, <1>2, <2>3 DEF ProductInv, ChunksInv
    <3>3. nchunk[m] \in Nat /\ current_chunk \in Nat
      <4>1. nchunk[m] \in ChunkCounts /\ current_chunk \in Nat
        BY <1>2 DEF ProductInv, HookTypes
      <4>. QED
        BY <1>2, <4>1 DEF ChunkCounts
    <3>4. \A c \in Chunks(m) : c < current_chunk
      BY <3>2, <3>3 DEF Chunks
    <3>5. \A c \in Chunks(m) : ~Pending(m, c)
      BY <3>1, <3>4 DEF Pending
    <3>. QED
      BY <1>2, <2>3, <3>5 DEF ProductInv, ChunksInv, Computed
  <2>. QED
    BY <2>1, <2>2, <2>3
<1>6. ASSUME NEW x \in 1..Products
      PROVE  /\ \A u \in Threads \ {t} : Past(u, x)' <=> Past(u, x)
             /\ Past(t, x)' => (x < m /\ Past(t, x)) \/ x = m
             /\ Past(t, x) => Past(t, x)'
  BY <1>0, <1>1, <1>2 DEF Past
<1>7. ASSUME NEW x \in 1..Products, Open(x)'
      PROVE  Open(x) /\ m < x /\ pc'[t] = "is_ready" /\ node'[t] <= x
  <2>1. ~Past(t, x)' /\ Open(x)
    BY <1>6, <1>7 DEF Open
  <2>. QED
    BY <1>1, <1>2, <2>1 DEF Past
<1>8. HookTypes' /\ Steady'
  BY <1>1, <1>3 DEF ProductInv, HookTypes, Steady
<1>9. PlaceInv'
  <2>1. \A u \in Threads \ {t} : Offloads(node[u])' <=> Offloads(node[u])
    BY <1>1 DEF Offloads
  <2>. QED
    BY <1>1, <2>1 DEF ProductInv, PlaceInv
<1>10. OffloadedInv'
  <2>1. ASSUME NEW x \in 1..Products, Open(x)'
        PROVE  (node'[0] = x /\ pc'[0] \in {"offload_barrier", "node_barrier"}) <=>
               (node[0] = x /\ pc[0] \in {"offload_barrier", "node_barrier"})
    BY <1>0, <1>1, <1>2, <1>7, <2>1
  <2>. QED
    BY <1>1, <1>3, <1>7, <2>1 DEF ProductInv, OffloadedInv
<1>11. ChunksInv'
  <2>1. ASSUME NEW x \in 1..Products, ~Offloads(x), Open(x)'
        PROVE  /\ \A v \in Threads : (Owns(v, x)' <=> Owns(v, x)) /\ Owned(v, x)' = Owned(v, x)
               /\ HandingOut(x)' <=> HandingOut(x)
               /\ \A v \in Threads : node'[v] = x /\ pc'[v] = "node_barrier" =>
                                       node[v] = x /\ pc[v] = "node_barrier"
    <3>1. m < x /\ pc'[t] = "is_ready" /\ node'[t] <= x /\ node'[t] = m + 1
      BY <1>1, <1>7, <2>1
    <3>2. (Owns(t, x)' <=> Owns(t, x)) /\ Owned(t, x)' = Owned(t, x)
      BY <1>0, <1>2, <3>1 DEF Owns, Owned
    <3>3. \A v \in Threads \ {t} : (Owns(v, x)' <=> Owns(v, x)) /\ Owned(v, x)' = Owned(v, x)
      BY <1>1 DEF Owns, Owned
    <3>4. HandingOut(x)' <=> HandingOut(x)
      BY <1>0, <1>1, <1>2, <3>1 DEF HandingOut
    <3>. QED
      BY <1>1, <3>1, <3>2, <3>3, <3>4
  <2>2. UNCHANGED <<nchunk, dst, current_chunk>>
    BY <1>1
  <2>. QED
    BY <1>3, <1>7, <2>1, <2>2, ChunksKept DEF ChunksInv
<1>12. PastInv'
  BY <1>3, <1>5, <1>6 DEF ProductInv, PastInv
<1>. QED
  BY <1>8, <1>9, <1>10, <1>11, <1>12 DEF ProductInv

LEMMA InitProductInv == Init /\ Steady => ProductInv
<1>. SUFFICES ASSUME Init, Steady PROVE ProductInv
  OBVIOUS
<1>1. /\ nchunk \in [1..Products -> ChunkCounts] /\ g_ready = FALSE /\ current_chunk = 0
      /\ pc = [t \in Threads |-> "is_ready"] /\ node = [t \in Threads |-> 1]
      /\ my_chunk = [t \in Threads |-> t] /\ wdata = [t \in Threads |-> 0]
      /\ dst = [m \in 1..Products |-> [c \in Chunks(m) |-> "unwritten"]]
  BY DEF Init
<1>2. 0 \in Threads /\ Threads \subseteq Nat /\ NThreads \in Nat
  BY NThreadsAssumption DEF Threads
<1>3. HookTypes /\ PlaceInv /\ PastInv /\ OffloadedInv
  <2>1. \A t \in Threads : pc[t] = "is_ready" /\ node[t] = 1
    BY <1>1
  <2>2. HookTypes
    <3>1. my_chunk \in [Threads -> Nat] /\ current_chunk \in Nat
      BY <1>1, <1>2
    <3>2. \A m \in 1..Products : DOMAIN dst[m] = Chunks(m)
      BY <1>1
    <3>. QED
      BY <1>1, <3>1, <3>2 DEF HookTypes
  <2>3. PlaceInv
    BY <1>1, <2>1 DEF PlaceInv
  <2>4. PastInv
    BY <2>1 DEF PastInv, Past
  <2>5. OffloadedInv
    BY <1>1, <1>2, <2>1 DEF OffloadedInv
  <2>. QED
    BY <2>2, <2>3, <2>4, <2>5
<1>4. ChunksInv
  <2>1. ASSUME NEW m \in 1..Products
        PROVE  /\ ~HandingOut(m)
               /\ \A t \in Threads : Owns(t, m) /\ Owned(t, m) = t
    BY <1>1, <1>2 DEF HandingOut, Owns, Owned
  <2>2. ASSUME NEW m \in 1..Products, NEW c \in Chunks(m)
        PROVE  Pending(m, c)
    <3>1. nchunk[m] \in ChunkCounts
      BY <1>1
    <3>2. nchunk[m] \in Nat
      BY <1>2, <3>1 DEF ChunkCounts
    <3>3. c \in Threads \/ c >= NThreads
      BY <1>2, <3>2 DEF Chunks, Threads
    <3>. QED
      BY <2>1, <3>3 DEF Pending
  <2>. QED
    BY <1>1, <2>1, <2>2 DEF ChunksInv
<1>. QED
  BY <1>3, <1>4 DEF ProductInv

LEMMA NextProductInv ==
  IInv /\ (Steady => ProductInv) /\ [Next]_vars => (Steady => ProductInv)'
<1>. SUFFICES ASSUME IInv, Steady => ProductInv, [Next]_vars, Steady' PROVE ProductInv'
  OBVIOUS
<1>1. board' = board
  BY DEF Next, Step, Finished, vars, hookVars, ReadReady, LockAndInit, RunStart, RunEnd,
         Convert, SetChunk, ComputeChunk, NoChunkLeft, InBarrier, OutOfBarrier
<1>2. ProductInv
  BY <1>1 DEF Steady
<1>3. ASSUME NEW t \in Threads, Step(t) PROVE ProductInv'
  <2>1. CASE OutOfBarrier(t)
    BY <1>2, <2>1, OffloadBarrierInv, ConvertBarrierInv, NodeBarrierInv
       DEF OutOfBarrier, BarrierCalls
  <2>2. CASE InBarrier(t)
    BY <1>2, <2>2, HookKept DEF InBarrier
  <2>. QED
    BY <1>2, <1>3, <2>1, <2>2, DecideInv, RunStartInv, RunEndInv, ConvertInv, SetChunkInv,
       ComputeChunkInv, NoChunkLeftInv DEF Step
<1>4. CASE UNCHANGED vars
  BY <1>2, <1>4, HookKept DEF vars, hookVars
<1>. QED
  BY <1>3, <1>4 DEF Next, Finished

(* On a board whose initialisation and runs always end the same way, every *)
(* chunk of a product that a thread has passed was computed exactly once,  *)
(* from a complete input (the hook, the conversion, the chunk counter and  *)
(* the barriers of ggml_compute_forward_mul_mat).                          *)
THEOREM ProductsAreRight == Spec => []ProductsRight
<1>1. Init => IInv /\ (Steady => ProductInv)
  BY InitIInv, InitProductInv
<1>2. IInv /\ (Steady => ProductInv) /\ [Next]_vars => (IInv /\ (Steady => ProductInv))'
  BY NextIInv, NextProductInv
<1>3. (Steady => ProductInv) => ProductsRight
  BY DEF Steady, ProductInv, PastInv, ProductsRight
<1>. QED
  BY <1>1, <1>2, <1>3, PTL DEF Spec

-----------------------------------------------------------------------------
\* TypeOK is inductive with the chunk counts and the places of IInv.
HookTypeInv ==
  /\ IInv /\ TypeOK
  /\ nchunk \in [1..Products -> ChunkCounts]
  /\ DOMAIN dst = 1..Products

LEMMA InitHookTypeInv == Init => HookTypeInv
<1> SUFFICES ASSUME Init PROVE HookTypeInv
  OBVIOUS
<1>1. IInv
  BY InitIInv
<1>2. /\ Threads \subseteq Nat /\ Products \in Nat
      /\ pc \in [Threads -> Labels] /\ node \in [Threads -> 1..Products]
  BY <1>1, HookTyping DEF IInv
<1>3. BarrierTypeOK
  BY <1>1 DEF IInv, BarrierIInv
<1>4. wdata \in [Threads -> 0..Products] /\ my_chunk \in [Threads -> Nat] /\ current_chunk \in Nat
  BY <1>2 DEF Init
<1>5. {g_ready, run_input} \subseteq BOOLEAN
  BY DEF Init
<1>6. \A m \in 1..Products : dst[m] \in [Chunks(m) -> {"unwritten", "right", "wrong"}]
  BY DEF Init
<1> QED
  BY <1>1, <1>2, <1>3, <1>4, <1>5, <1>6 DEF Init, TypeOK, HookTypeInv

LEMMA StepHookTypeInv ==
  ASSUME HookTypeInv, NEW t \in Threads, Step(t), IInv'
  PROVE  HookTypeInv'
<1>t. /\ BarrierTypeOK /\ pc \in [Threads -> Labels]
      /\ board \in Boards /\ eligible \subseteq 1..Products
      /\ node \in [Threads -> 1..Products] /\ wdata \in [Threads -> 0..Products]
      /\ current_chunk \in Nat /\ my_chunk \in [Threads -> Nat]
      /\ g_ready \in BOOLEAN /\ run_input \in BOOLEAN
      /\ \A m \in 1..Products : dst[m] \in [Chunks(m) -> {"unwritten", "right", "wrong"}]
      /\ nchunk \in [1..Products -> ChunkCounts] /\ DOMAIN dst = 1..Products
      /\ Threads \subseteq Nat /\ Products \in Nat /\ NThreads \in Nat
  BY HookTyping DEF HookTypeInv, TypeOK
<1>1. board' = board /\ eligible' = eligible /\ nchunk' = nchunk
  BY DEF Step, ReadReady, LockAndInit, RunStart, RunEnd, Convert, SetChunk, ComputeChunk,
         NoChunkLeft, InBarrier, OutOfBarrier, hookVars
<1>2. BarrierTypeOK' /\ pc' \in [Threads -> Labels] /\ node' \in [Threads -> 1..Products]
  BY DEF IInv, BarrierIInv
<1>3. g_ready' \in BOOLEAN
  <2>1. CASE LockAndInit(t)
    <3>1. InitResult \subseteq BOOLEAN
      BY <1>t, OffloadAssumption DEF InitResult
    <3> QED
      BY <2>1, <3>1 DEF LockAndInit
  <2>2. CASE ~LockAndInit(t)
    BY <2>2, <1>t DEF Step, ReadReady, RunStart, RunEnd, Convert, SetChunk, ComputeChunk,
                      NoChunkLeft, InBarrier, OutOfBarrier, hookVars
  <2> QED
    BY <2>1, <2>2
<1>4. run_input' \in BOOLEAN
  <2>1. CASE RunStart(t)
    <3>1. InputRight(node[t]) \in BOOLEAN
      BY DEF InputRight
    <3> QED
      BY <2>1, <3>1 DEF RunStart
  <2>2. CASE ~RunStart(t)
    BY <2>2, <1>t DEF Step, ReadReady, LockAndInit, RunEnd, Convert, SetChunk, ComputeChunk,
                      NoChunkLeft, InBarrier, OutOfBarrier, hookVars
  <2> QED
    BY <2>1, <2>2
<1>5. wdata' \in [Threads -> 0..Products]
  <2>1. CASE Convert(t)
    <3>1. (IF InputRight(node[t]) THEN node[t] ELSE 0) \in 0..Products
      BY <1>t
    <3> QED
      BY <2>1, <3>1, <1>t DEF Convert
  <2>2. CASE ~Convert(t)
    BY <2>2, <1>t DEF Step, ReadReady, LockAndInit, RunStart, RunEnd, SetChunk, ComputeChunk,
                      NoChunkLeft, InBarrier, OutOfBarrier, hookVars
  <2> QED
    BY <2>1, <2>2
<1>6. my_chunk' \in [Threads -> Nat] /\ current_chunk' \in Nat
  <2>1. CASE Convert(t) \/ SetChunk(t) \/ ComputeChunk(t)
    BY <2>1, <1>t DEF Convert, SetChunk, FirstFreeChunk, ComputeChunk
  <2>2. CASE ~(Convert(t) \/ SetChunk(t) \/ ComputeChunk(t))
    BY <2>2, <1>t DEF Step, ReadReady, LockAndInit, RunStart, RunEnd, NoChunkLeft, InBarrier,
                      OutOfBarrier, hookVars
  <2> QED
    BY <2>1, <2>2
<1>7. /\ DOMAIN dst' = 1..Products
      /\ \A m \in 1..Products : dst'[m] \in [Chunks(m)' -> {"unwritten", "right", "wrong"}]
  <2>c. \A m : Chunks(m)' = Chunks(m)
    BY <1>1 DEF Chunks
  <2>1. CASE RunEnd(t)
    <3>1. \/ dst' = [dst EXCEPT ![node[t]] =
                       [c \in Chunks(node[t]) |->
                          IF run_input /\ dst[node[t]][c] = "unwritten" THEN "right" ELSE "wrong"]]
          \/ dst' = dst
      BY <2>1, <1>t DEF RunEnd
    <3> DEFINE g == [c \in Chunks(node[t]) |->
                       IF run_input /\ dst[node[t]][c] = "unwritten" THEN "right" ELSE "wrong"]
    <3>2. node[t] \in 1..Products
      BY <1>t
    <3>3. g \in [Chunks(node[t]) -> {"unwritten", "right", "wrong"}]
      OBVIOUS
    <3>4. CASE dst' = dst
      BY <3>4, <2>c, <1>t
    <3>5. CASE dst' = [dst EXCEPT ![node[t]] = g]
      <4> HIDE DEF g
      <4>1. /\ DOMAIN dst' = DOMAIN dst
            /\ dst'[node[t]] = g
            /\ \A m \in 1..Products : m # node[t] => dst'[m] = dst[m]
        BY <3>5, <3>2, <1>t
      <4>2. ASSUME NEW m \in 1..Products
            PROVE  dst'[m] \in [Chunks(m) -> {"unwritten", "right", "wrong"}]
        <5>1. CASE m = node[t]
          BY <5>1, <3>3, <4>1
        <5>2. CASE m # node[t]
          BY <5>2, <4>1, <1>t
        <5> QED
          BY <5>1, <5>2
      <4> QED
        BY <4>1, <4>2, <2>c, <1>t
    <3> QED
      BY <3>1, <3>4, <3>5
  <2>2. CASE ComputeChunk(t)
    <3>1. PICK v \in {"right", "wrong"} :
            dst' = [dst EXCEPT ![node[t]] = [dst[node[t]] EXCEPT ![my_chunk[t]] = v]]
      BY <2>2 DEF ComputeChunk
    <3>2. node[t] \in 1..Products
      BY <1>t
    <3>3. [dst[node[t]] EXCEPT ![my_chunk[t]] = v]
            \in [Chunks(node[t]) -> {"unwritten", "right", "wrong"}]
      <4>1. dst[node[t]] \in [Chunks(node[t]) -> {"unwritten", "right", "wrong"}]
        BY <3>2, <1>t
      <4>2. \A S, V, x, y : \A f \in [S -> V] : y \in V => [f EXCEPT ![x] = y] \in [S -> V]
        OBVIOUS
      <4> QED
        BY <4>1, <4>2
    <3>4. /\ DOMAIN dst' = DOMAIN dst
          /\ dst'[node[t]] = [dst[node[t]] EXCEPT ![my_chunk[t]] = v]
          /\ \A m \in 1..Products : m # node[t] => dst'[m] = dst[m]
      BY <3>1, <3>2, <1>t
    <3>5. ASSUME NEW m \in 1..Products
          PROVE  dst'[m] \in [Chunks(m) -> {"unwritten", "right", "wrong"}]
      <4>1. CASE m = node[t]
        BY <4>1, <3>3, <3>4
      <4>2. CASE m # node[t]
        BY <4>2, <3>4, <1>t
      <4> QED
        BY <4>1, <4>2
    <3> QED
      BY <3>4, <3>5, <2>c, <1>t
  <2>3. CASE ~(RunEnd(t) \/ ComputeChunk(t))
    <3>1. dst' = dst
      BY <2>3 DEF Step, ReadReady, LockAndInit, RunStart, Convert, SetChunk, NoChunkLeft,
                  InBarrier, OutOfBarrier, hookVars
    <3> QED
      BY <3>1, <2>c, <1>t
  <2> QED
    BY <2>1, <2>2, <2>3
<1> QED
  BY <1>t, <1>1, <1>2, <1>3, <1>4, <1>5, <1>6, <1>7 DEF HookTypeInv, TypeOK, ChunkCounts

(* For every pool and graph threads stay in the code of the hook and of    *)
(* ggml_barrier, in products of the graph, and a chunk of a product is     *)
(* unwritten, right or wrong (ggml_compute_forward_mul_mat).               *)
THEOREM HookTypeCorrect == Spec => []TypeOK
<1>1. HookTypeInv /\ [Next]_vars => HookTypeInv'
  <2> SUFFICES ASSUME HookTypeInv, [Next]_vars PROVE HookTypeInv'
    OBVIOUS
  <2>1. IInv'
    BY NextIInv DEF HookTypeInv
  <2>2. CASE UNCHANGED vars
    BY <2>1, <2>2 DEF HookTypeInv, TypeOK, BarrierTypeOK, Chunks, ChunkCounts, vars, barrierVars,
                      hookVars
  <2>3. CASE \E t \in Threads : Step(t)
    BY <2>1, <2>3, StepHookTypeInv
  <2> QED
    BY <2>2, <2>3 DEF Next, Finished
<1>2. HookTypeInv => TypeOK
  BY DEF HookTypeInv
<1> QED
  BY <1>1, <1>2, InitHookTypeInv, PTL DEF Spec

=============================================================================
