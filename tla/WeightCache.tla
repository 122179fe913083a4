---------------------------- MODULE WeightCache ----------------------------
(***************************************************************************)
(* The weight cache of the Linux runtime (software/FPGA/FPGA_GEMM.cpp): a  *)
(* weight is dequantized, quantized to bytes and packed into a reserved    *)
(* region of memory when it is first used, and found again by the address  *)
(* of its tensor.  The pool is filled from the bottom and only emptied as  *)
(* a whole, by fpga_gemm_init.                                             *)
(*                                                                         *)
(* A weight of K by N elements is padded with zeros to whole blocks of     *)
(* ArraySize, and memory is counted in beats of ArraySize bytes.  What is  *)
(* packed depends on the tensor and on K and N: a view, <<t, K, N>>.       *)
(***************************************************************************)
EXTENDS Integers

CONSTANTS
  ArraySize,   \* ARRAY_SIZE
  PoolSize,    \* DDR_WGHT_SIZE
  Align,       \* 64 bytes
  Addresses,   \* where ggml keeps weight tensors
  Tensors      \* the tensors that may be at an address

ASSUME CacheAssumption ==
  /\ ArraySize \in Nat \ {0}
  /\ PoolSize \in Nat
  /\ Align \in Nat \ {0}

VARIABLES
  tensors,         \* the tensor at every address
  g_weight_cache,  \* the entry of every address
  g_wpool_offset,  \* end of the used part of the pool
  ddr_wght         \* the packed beats in the pool

cacheVars == <<tensors, g_weight_cache, g_wpool_offset, ddr_wght>>

Pool == 0..PoolSize-1
Junk == <<>>                                   \* whatever memory holds at first
NoEntry == [off |-> 0, size |-> 0, k |-> 0, n |-> 0, scale |-> <<>>]
Cached(a) == g_weight_cache[a] # NoEntry

\* align32, counted in blocks.
Blocks(x) == (x + ArraySize - 1) \div ArraySize

\* The beats of a weight of k by n blocks.
WeightBeats(k, n) == k * ArraySize * n

(* The byte of row k, column n of a view: padding, or an element of the    *)
(* tensor, quantized with the scale of the view.                           *)
Padding == [view |-> <<>>, element |-> 0]
PackedByte(t, K, N, k, n) ==
  IF k < K /\ n < N THEN [view |-> <<t, K, N>>, element |-> n * K + k] ELSE Padding

\* Beat i of a packed view, in the order the hardware reads them.
PackedBeat(t, K, N, i) ==
  [lane \in 0..ArraySize-1 |->
     PackedByte(t, K, N, i \div Blocks(N), (i % Blocks(N)) * ArraySize + lane)]

CacheInit ==
  /\ tensors \in [Addresses -> Tensors]
  /\ g_weight_cache = [a \in Addresses |-> NoEntry]
  /\ g_wpool_offset = 0
  /\ ddr_wght = [x \in Pool |-> Junk]

\* fpga_gemm_init empties the pool with the cache, fpga_gemm_cleanup the cache alone.
ClearCache == g_weight_cache' = [a \in Addresses |-> NoEntry]
ResetPool == ClearCache /\ g_wpool_offset' = 0

AlignUp(x) == ((x + Align - 1) \div Align) * Align

\* Mutant: what is already in the pool is forgotten.
PoolFullBySizeAlone(size) == size > PoolSize

\* alloc_weight has no room for size beats.
PoolFull(size) == AlignUp(g_wpool_offset) + size > PoolSize

\* Mutant: the pool never advances past the weight just stored.
OffsetNotAdvanced(size) == AlignUp(g_wpool_offset)

\* The end of the pool once alloc_weight has handed out size beats.
OffsetAfter(size) == AlignUp(g_wpool_offset) + size

\* cache_q5_0, cache_q8_0 and cache_q4_K: allocate, pack, and enter into the cache
\* with the scale of what was packed.
StoreWeight(a, K, N) ==
  LET size == WeightBeats(Blocks(K), Blocks(N))
      off  == AlignUp(g_wpool_offset)
  IN  /\ ~PoolFull(size)
      /\ g_wpool_offset' = OffsetAfter(size)
      /\ ddr_wght' = [x \in Pool |-> IF x >= off /\ x < off + size
                                     THEN PackedBeat(tensors[a], K, N, x - off)
                                     ELSE ddr_wght[x]]
      /\ g_weight_cache' = [g_weight_cache EXCEPT
                              ![a] = [off |-> off, size |-> size, k |-> Blocks(K), n |-> Blocks(N),
                                      scale |-> <<tensors[a], K, N>>]]
      /\ UNCHANGED tensors

\* The caller puts tensor t at address a.
LoadTensor(a, t) ==
  /\ tensors' = [tensors EXCEPT ![a] = t]
  /\ UNCHANGED <<g_weight_cache, g_wpool_offset, ddr_wght>>

-----------------------------------------------------------------------------
(* Properties *)

CacheTypeOK ==
  /\ tensors \in [Addresses -> Tensors]
  /\ g_weight_cache \in [Addresses -> [off : Nat, size : Nat, k : Nat, n : Nat,
                                        scale : (Tensors \X Nat \X Nat) \cup {<<>>}]]
  /\ g_wpool_offset \in 0..PoolSize

End(a) == g_weight_cache[a].off + g_weight_cache[a].size

(* The regions of the cached weights (alloc_weight) start aligned, lie in  *)
(* the used part of the pool, and no two of them overlap.                  *)
RegionsDisjoint ==
  \A a \in Addresses : Cached(a) =>
    /\ g_weight_cache[a].off % Align = 0
    /\ End(a) <= g_wpool_offset
    /\ \A b \in Addresses \ {a} :
         Cached(b) => End(a) <= g_weight_cache[b].off \/ End(b) <= g_weight_cache[a].off

(* Every cached region still holds, beat by beat, the view that the scale  *)
(* of its entry is of, whatever was packed later (store_weight_f32).       *)
RegionsIntact ==
  \A a \in Addresses : Cached(a) =>
    LET view == g_weight_cache[a].scale IN
    \A i \in 0..g_weight_cache[a].size-1 :
      ddr_wght[g_weight_cache[a].off + i] = PackedBeat(view[1], view[2], view[3], i)

WeightsPacked == RegionsDisjoint /\ RegionsIntact
=============================================================================
