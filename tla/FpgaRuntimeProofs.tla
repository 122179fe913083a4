------------------------- MODULE FpgaRuntimeProofs -------------------------
(***************************************************************************)
(* Proofs about FpgaRuntime, for every value of its constants: weights     *)
(* that were packed stay packed; transfers are started on stopped channels *)
(* only, and none fails without a fault; results are the call's own.       *)
(*                                                                         *)
(* What is proved of the accelerator rests on GemmService, which GemmJobs  *)
(* implements for jobs of two rows or more (PlainJobs); RowsAssumption of  *)
(* FpgaRuntime keeps the requests to those.                                *)
(***************************************************************************)
EXTENDS FpgaRuntime, TLAPS

-----------------------------------------------------------------------------
(* The pool.  Two facts of arithmetic: the next multiple of Align.         *)

(* A sum of a multiple of Align and a remainder is that far from it.       *)
LEMMA MultipleOfAlign ==
  ASSUME NEW q \in Int, NEW d \in Nat \ {0}
  PROVE  (q * d) % d = 0
  OBVIOUS

(* AlignUp goes up, and ends at a multiple of Align.                       *)
LEMMA AlignUpOK ==
  ASSUME NEW x \in Nat
  PROVE  /\ AlignUp(x) \in Nat
         /\ x <= AlignUp(x)
         /\ AlignUp(x) % Align = 0
<1>1. Align \in Nat \ {0}
  BY CacheAssumption
<1>2. PICK q \in Int : q = (x + Align - 1) \div Align
  BY <1>1
<1>3. q * Align <= x + Align - 1 /\ x + Align - 1 < (q + 1) * Align
  BY <1>1, <1>2
<1>. QED
  BY <1>1, <1>2, <1>3, MultipleOfAlign DEF AlignUp

(* Extents are padded up, to a whole number of blocks.                     *)
LEMMA BlocksOK ==
  ASSUME NEW x \in Nat
  PROVE  /\ Blocks(x) \in Nat
         /\ x > 0 => Blocks(x) > 0
         /\ \A y \in Nat : y < x => y \div ArraySize \in 0..Blocks(x)-1
<1>1. ArraySize \in Nat \ {0}
  BY CacheAssumption
<1>2. PICK q \in Int : q = (x + ArraySize - 1) \div ArraySize
  BY <1>1
<1>3. q * ArraySize <= x + ArraySize - 1 /\ x + ArraySize - 1 < (q + 1) * ArraySize
  BY <1>1, <1>2
<1>4. q \in Nat /\ (x > 0 => q > 0)
  <2>1. (q + 1) * ArraySize > 0 /\ (x > 0 => (q + 1) * ArraySize > ArraySize)
    BY <1>1, <1>3
  <2>. QED
    BY <1>1, <2>1
<1>5. ASSUME NEW y \in Nat, y < x PROVE y \div ArraySize \in 0..q-1
  <2>1. PICK p \in Int : p = y \div ArraySize
    BY <1>1
  <2>2. p * ArraySize <= y /\ y < (p + 1) * ArraySize
    BY <1>1, <2>1
  <2>3. p >= 0
    BY <1>1, <2>2
  <2>4. p * ArraySize < q * ArraySize
    <3>1. p * ArraySize < x
      BY <1>1, <1>5, <2>2
    <3>2. x < q * ArraySize + 1
      BY <1>1, <1>3
    <3>. QED
      BY <1>1, <3>1, <3>2
  <2>. QED
    BY <1>1, <2>1, <2>3, <2>4
<1>. QED
  BY <1>2, <1>4, <1>5 DEF Blocks

(* The size of a weight is a number of beats, positive when it is.         *)
LEMMA WeightBeatsType ==
  ASSUME NEW k \in Nat, NEW n \in Nat
  PROVE  WeightBeats(k, n) \in Nat /\ (k > 0 /\ n > 0 => WeightBeats(k, n) > 0)
<1>1. k * ArraySize \in Nat /\ (k > 0 => k * ArraySize > 0)
  BY CacheAssumption
<1>2. \A x \in Nat : x * n \in Nat /\ (x > 0 /\ n > 0 => x * n > 0)
  OBVIOUS
<1>. QED
  BY <1>1, <1>2 DEF WeightBeats

(* What a step of the runtime may do to the cache.                         *)
CacheStep ==
  \/ UNCHANGED cacheVars
  \/ ResetPool /\ UNCHANGED <<tensors, ddr_wght>>
  \/ ClearCache /\ UNCHANGED <<tensors, g_wpool_offset, ddr_wght>>
  \/ \E a \in Addresses, K, N \in Nat : StoreWeight(a, K, N)
  \/ \E a \in Addresses, t \in Tensors : LoadTensor(a, t)

CacheInv == CacheTypeOK /\ WeightsPacked

LEMMA CacheInvInit == CacheInit => CacheInv
<1>. SUFFICES ASSUME CacheInit PROVE CacheInv
  OBVIOUS
<1>1. \A a \in Addresses : ~Cached(a)
  BY DEF CacheInit, Cached, NoEntry
<1>2. CacheTypeOK
  BY CacheAssumption DEF CacheInit, CacheTypeOK, NoEntry
<1>. QED
  BY <1>1, <1>2 DEF CacheInv, WeightsPacked, RegionsDisjoint, RegionsIntact

(* An emptied cache has nothing to keep.                                   *)
LEMMA EmptyCache ==
  ASSUME ClearCache, CacheTypeOK, tensors' = tensors,
         g_wpool_offset' \in 0..PoolSize
  PROVE  CacheInv'
<1>1. \A a \in Addresses : ~Cached(a)'
  BY DEF ClearCache, Cached, NoEntry
<1>2. CacheTypeOK'
  BY DEF ClearCache, CacheTypeOK, NoEntry
<1>. QED
  BY <1>1, <1>2 DEF CacheInv, WeightsPacked, RegionsDisjoint, RegionsIntact

(* A weight stored at the end of the pool leaves the others as they are.   *)
LEMMA StoreKeepsCacheInv ==
  ASSUME CacheInv, NEW a \in Addresses, NEW K \in Nat, NEW N \in Nat, StoreWeight(a, K, N)
  PROVE  CacheInv'
<1>. DEFINE k == Blocks(K)
            n == Blocks(N)
            size == WeightBeats(k, n)
            off  == AlignUp(g_wpool_offset)
            new  == [off |-> off, size |-> size, k |-> k, n |-> n, scale |-> <<tensors[a], K, N>>]
<1>0. k \in Nat /\ n \in Nat
  BY BlocksOK
<1>1. size \in Nat
  BY <1>0, WeightBeatsType
<1>2. g_wpool_offset \in 0..PoolSize /\ PoolSize \in Nat
  BY CacheAssumption DEF CacheInv, CacheTypeOK
<1>3. off \in Nat /\ g_wpool_offset <= off /\ off % Align = 0
  BY <1>2, AlignUpOK
<1>4. off + size <= PoolSize /\ g_wpool_offset' = off + size
  BY <1>1, <1>2, <1>3 DEF StoreWeight, PoolFull, OffsetAfter
<1>5. g_weight_cache' = [g_weight_cache EXCEPT ![a] = new] /\ tensors' = tensors
  BY DEF StoreWeight
<1>6. ddr_wght' = [x \in Pool |-> IF x >= off /\ x < off + size
                                  THEN PackedBeat(tensors[a], K, N, x - off)
                                  ELSE ddr_wght[x]]
  BY DEF StoreWeight
<1>. HIDE DEF size, off, k, n
<1>7. CacheTypeOK'
  <2>1. <<tensors[a], K, N>> \in (Tensors \X Nat \X Nat) \cup {<<>>}
    BY DEF CacheInv, CacheTypeOK
  <2>. QED
    BY <1>0, <1>1, <1>2, <1>3, <1>4, <1>5, <2>1 DEF CacheInv, CacheTypeOK
<1>8. /\ g_weight_cache'[a] = new
      /\ \A b \in Addresses \ {a} : g_weight_cache'[b] = g_weight_cache[b]
  BY <1>5 DEF CacheInv, CacheTypeOK
<1>9. \A b \in Addresses \ {a} : Cached(b)' =>
        /\ Cached(b) /\ End(b)' = End(b) /\ End(b) <= g_wpool_offset
        /\ g_weight_cache[b].off \in Nat /\ g_weight_cache[b].size \in Nat
        /\ g_weight_cache[b].off % Align = 0
  BY <1>8 DEF CacheInv, CacheTypeOK, WeightsPacked, RegionsDisjoint, Cached, End
<1>10. RegionsDisjoint'
  <2>. SUFFICES ASSUME NEW b \in Addresses, Cached(b)'
                PROVE  /\ g_weight_cache'[b].off % Align = 0
                       /\ End(b)' <= g_wpool_offset'
                       /\ \A c \in Addresses \ {b} : Cached(c)' =>
                            \/ End(b)' <= g_weight_cache'[c].off
                            \/ End(c)' <= g_weight_cache'[b].off
    BY DEF RegionsDisjoint
  <2>1. CASE b = a
    BY <2>1, <1>1, <1>2, <1>3, <1>4, <1>8, <1>9 DEF End
  <2>2. CASE b # a
    <3>1. g_weight_cache'[b].off % Align = 0 /\ End(b)' <= g_wpool_offset'
      BY <2>2, <1>1, <1>2, <1>3, <1>4, <1>8, <1>9 DEF End
    <3>2. ASSUME NEW c \in Addresses \ {b}, Cached(c)'
          PROVE  End(b)' <= g_weight_cache'[c].off \/ End(c)' <= g_weight_cache'[b].off
      <4>1. CASE c = a
        BY <4>1, <2>2, <1>2, <1>3, <1>8, <1>9 DEF End
      <4>2. CASE c # a
        BY <4>2, <3>2, <2>2, <1>8, <1>9 DEF CacheInv, WeightsPacked, RegionsDisjoint, End
      <4>. QED
        BY <4>1, <4>2
    <3>. QED
      BY <3>1, <3>2
  <2>. QED
    BY <2>1, <2>2
<1>11. RegionsIntact'
  <2>. DEFINE Intact(b) ==
         LET view == g_weight_cache[b].scale IN
         \A i \in 0..g_weight_cache[b].size-1 :
           ddr_wght[g_weight_cache[b].off + i] = PackedBeat(view[1], view[2], view[3], i)
  <2>. SUFFICES ASSUME NEW b \in Addresses, Cached(b)' PROVE Intact(b)'
    BY DEF RegionsIntact
  <2>1. CASE b = a
    <3>1. ASSUME NEW i \in 0..size-1 PROVE ddr_wght'[off + i] = PackedBeat(tensors[a], K, N, i)
      <4>1. off + i \in Pool /\ off + i >= off /\ off + i < off + size /\ (off + i) - off = i
        BY <1>1, <1>2, <1>3, <1>4 DEF Pool
      <4>. QED
        BY <4>1, <1>6
    <3>2. /\ new.scale[1] = tensors[a] /\ new.scale[2] = K /\ new.scale[3] = N
          /\ new.off = off /\ new.size = size
      OBVIOUS
    <3>. QED
      BY <2>1, <3>1, <3>2, <1>8 DEF PackedBeat
  <2>2. CASE b # a
    <3>1. Intact(b)
      BY <2>2, <1>9 DEF CacheInv, WeightsPacked, RegionsIntact
    <3>2. ASSUME NEW i \in 0..g_weight_cache[b].size-1
          PROVE  ddr_wght'[g_weight_cache[b].off + i] = ddr_wght[g_weight_cache[b].off + i]
      <4>1. g_weight_cache[b].off \in Nat /\ g_weight_cache[b].size \in Nat
            /\ g_weight_cache[b].off + g_weight_cache[b].size <= g_wpool_offset
        BY <2>2, <1>9 DEF End
      <4>2. g_weight_cache[b].off + i \in 0..PoolSize-1 /\ ~(g_weight_cache[b].off + i >= off)
        BY <4>1, <1>2, <1>3
      <4>. QED
        BY <4>2, <1>6 DEF Pool
    <3>. QED
      BY <2>2, <3>1, <3>2, <1>8 DEF PackedBeat
  <2>. QED
    BY <2>1, <2>2
<1>. QED
  BY <1>7, <1>10, <1>11 DEF CacheInv, WeightsPacked

LEMMA CacheInvStep == CacheInv /\ CacheStep => CacheInv'
<1>. SUFFICES ASSUME CacheInv, CacheStep PROVE CacheInv'
  OBVIOUS
<1>1. CASE UNCHANGED cacheVars
  BY <1>1 DEF cacheVars, CacheInv, CacheTypeOK, WeightsPacked, RegionsDisjoint, RegionsIntact,
              Cached, End
<1>2. CASE ResetPool /\ UNCHANGED <<tensors, ddr_wght>>
  BY <1>2, EmptyCache, CacheAssumption DEF ResetPool, CacheInv
<1>3. CASE ClearCache /\ UNCHANGED <<tensors, g_wpool_offset, ddr_wght>>
  BY <1>3, EmptyCache DEF CacheInv, CacheTypeOK
<1>4. CASE \E a \in Addresses, K, N \in Nat : StoreWeight(a, K, N)
  BY <1>4, StoreKeepsCacheInv
<1>5. ASSUME NEW a \in Addresses, NEW t \in Tensors, LoadTensor(a, t) PROVE CacheInv'
  BY <1>5 DEF LoadTensor, CacheInv, CacheTypeOK, WeightsPacked, RegionsDisjoint,
              RegionsIntact, Cached, End
<1>. QED
  BY <1>1, <1>2, <1>3, <1>4, <1>5 DEF CacheStep

(* Every step of the runtime is one of these for the cache.                *)
LEMMA StepIsCacheStep ==
  ASSUME call \in PaddedRequests, [Next]_vars
  PROVE  CacheStep /\ call' \in PaddedRequests
<1>1. call.a \in Addresses /\ call.K \in Nat /\ call.N \in Nat
  BY RuntimeAssumption DEF PaddedRequests, Padded
<1>2. CASE CacheWeight
  BY <1>1, <1>2 DEF CacheWeight, CacheStep, callVars
<1>3. CASE ResetChannel
  BY <1>3 DEF ResetChannel, CacheStep, callVars, Return, ResetPool, cacheVars
<1>4. CASE Cleanup
  BY <1>4 DEF Cleanup, CacheStep, callVars
<1>5. CASE \E a \in Addresses, t \in Tensors : Reload(a, t)
  BY <1>5 DEF Reload, CacheStep, callVars
<1>6. CASE \E r \in Requests : Call(r)
  BY <1>6 DEF Call, CacheStep, PaddedRequests
<1>7. CASE UNCHANGED vars
  BY <1>7 DEF vars, CacheStep, callVars
<1>8. CASE OpenAndMap \/ CheckShape \/ Pack \/ WeightFails \/ FindWeight \/ CheckPadding
  BY <1>8 DEF OpenAndMap, CheckShape, Pack, WeightFails, FindWeight, CheckPadding, CacheStep,
              callVars, Return
<1>9. CASE WaitIdle \/ Configure \/ StartChannel \/ Poll \/ Unpack
  BY <1>9 DEF WaitIdle, Configure, StartChannel, Poll, Unpack, CacheStep, callVars, Return
<1>10. CASE Board
  BY <1>10 DEF Board, Feed, Deliver, Complete, CacheStep, callVars
<1>11. CASE \E ch \in Channels, kind \in {"error", "stuck"} : ChannelFault(ch, kind)
  BY <1>11 DEF ChannelFault, CacheStep, callVars
<1>. QED
  BY <1>2, <1>3, <1>4, <1>5, <1>6, <1>7, <1>8, <1>9, <1>10, <1>11
     DEF Next, Caller, Environment

(* WeightsPacked for every pool, alignment, set of tensors and sequence of *)
(* calls, faults, clean-ups and reloads (alloc_weight, store_weight_f32).  *)
THEOREM WeightsStayPacked == Spec => []WeightsPacked
<1>. DEFINE Inv == CacheInv /\ call \in PaddedRequests
<1>1. Init => Inv
  BY CacheInvInit DEF Init
<1>2. Inv /\ [Next]_vars => Inv'
  BY CacheInvStep, StepIsCacheStep
<1>3. Inv => WeightsPacked
  BY DEF CacheInv
<1>. QED
  BY <1>1, <1>2, <1>3, PTL DEF Spec

-----------------------------------------------------------------------------
(* The run.  RunInv is about control: it holds also when tensors are       *)
(* replaced while their weights are cached.                                *)

Inputs == {"feature", "weight"}
States == {"halted", "running", "idle", "error", "stuck"}
Dead == {"error", "stuck"}
Transfers == [state : States, ioc : BOOLEAN, addr : Nat, left : Nat]
Labels == {"caller", "open", "reset", "checks", "pack", "weight", "padding", "wait_idle",
           "configure", "start", "wait", "waited"}

\* The transfers of the call are being started, running or waited for.
InJob == pc \in {"start", "wait", "waited"}
Shape == [m |-> call.m, k |-> call.k, n |-> call.n]

RunTypes ==
  /\ pc \in Labels /\ step \in 1..3
  /\ call \in PaddedRequests /\ calls \in 0..MaxCalls
  /\ g_ready \in BOOLEAN /\ ok \in BOOLEAN /\ saw_busy \in BOOLEAN
  /\ status \in {"idle", "busy", "done"}
  /\ job \in Nat \ {0} /\ received \in Nat
  /\ sent \in [Inputs -> Nat]
  /\ dma \in [Channels -> Transfers]

\* What has been established before the code reaches a place.
Established ==
  /\ pc \in {"open", "reset"} => ~g_ready
  /\ pc \notin {"caller", "open", "reset"} => g_ready
  /\ pc \notin {"caller", "open", "reset", "checks"} => ShapeOK(call)
  /\ pc \in {"padding", "wait_idle", "configure"} \/ InJob => Cached(call.a)
  /\ pc \in {"wait_idle", "configure"} \/ InJob => SamePadding
  /\ pc = "configure" => status # "busy"
  /\ pc # "caller" => outcome = "none"

\* A dead channel is the one fault, and only an idle one has completed.
ChannelStates ==
  /\ \A ch \in Channels : dma[ch].state \in Dead => fault = [kind |-> dma[ch].state, ch |-> ch]
  /\ \A ch \in Channels : dma[ch].ioc => dma[ch].state = "idle"

\* The accelerator between jobs and in one; each call completes one at most.
JobStates ==
  /\ status # "busy" => sent = [ch \in Inputs |-> 0] /\ received = 0
  /\ status = "busy" => sent["feature"] + sent["weight"] > 0
  /\ job <= calls + 1
  /\ pc # "caller" /\ ~(InJob /\ status = "done") => job <= calls

\* Between two jobs nothing moves, also when a failed call left a job behind.
QuietOutsideJobs ==
  ~InJob => /\ status # "busy" => \A ch \in Channels : dma[ch].state # "running"
            /\ status = "busy" => HardwareAtRest /\ fault # NoFault

Started(ch) ==
  \/ pc \in {"wait", "waited"}
  \/ pc = "start" /\ ch = "result" /\ step > 1
  \/ pc = "start" /\ ch = "feature" /\ step > 2

\* Where the transfer of a channel is, by what the accelerator has moved.
Moved(ch) == IF ch = "result" THEN received ELSE sent[ch]
Progress(ch) ==
  /\ ~Started(ch) => dma[ch].state # "running" /\ status # "done" /\ Moved(ch) = 0
  /\ Started(ch) /\ dma[ch].state \notin Dead =>
       /\ dma[ch].state \in {"running", "idle"}
       /\ dma[ch].state = "idle" => dma[ch].ioc /\ dma[ch].left = 0
       /\ status = "done" => dma[ch].left = 0
       /\ status # "done" => /\ dma[ch].addr = StartAddr(ch) + Moved(ch)
                             /\ dma[ch].left = StartBeats(ch) - Moved(ch)
  /\ status # "done" => Moved(ch) <= StartBeats(ch)

JobInv ==
  InJob => /\ regs = Shape
           /\ status = "busy" => config = Shape
           /\ received < StartBeats("result")
           /\ \A ch \in Channels : Progress(ch)

\* A wait ends when the channel has stopped or nothing can move any more.
WaitInv ==
  /\ pc = "wait" => \A i \in 1..step-1 : dma[WaitOrder[i]].state # "running" \/ HardwareAtRest
  /\ pc = "waited" => \A ch \in Channels : dma[ch].state # "running" \/ HardwareAtRest
  /\ pc = "wait" /\ ok => \A i \in 1..step-1 : dma[WaitOrder[i]].state = "idle"
  /\ pc = "waited" /\ ok => \A ch \in Channels : dma[ch].state = "idle"
  /\ pc \in {"wait", "waited"} /\ ~ok => fault # NoFault

RunInv == /\ RunTypes /\ Established /\ ChannelStates /\ JobStates /\ QuietOutsideJobs
          /\ JobInv /\ WaitInv /\ HealthyRunsDeliver

-----------------------------------------------------------------------------
(* The data, when tensors are replaced only while nothing is cached.       *)

\* The beats of the call, as they are in memory and as they were loaded.
OwnFeatures(i) == FeatureBeat(calls, i)
OwnWeights(i) == PackedBeat(t_call, call.K, call.N, i)

WeightsCurrent ==
  /\ ~g_ready => \A a \in Addresses : ~Cached(a)
  /\ \A a \in Addresses : Cached(a) =>
       \E r \in PaddedRequests :
         /\ r.a = a /\ g_weight_cache[a].k = r.k /\ g_weight_cache[a].n = r.n
         /\ g_weight_cache[a].scale = <<tensors[a], r.K, r.N>>

OperandsInMemory ==
  /\ pc # "caller" => t_call = tensors[call.a]
  /\ DOMAIN ddr_rslt = 0..WindowSize-1
  /\ pc \in {"weight", "padding", "wait_idle", "configure"} \/ InJob =>
       \A i \in 0..FeatureBeats(call)-1 : ddr_feat[i] = OwnFeatures(i)

Loading ==
  /\ status # "busy" => loaded = [feature |-> <<>>, weight |-> <<>>]
  /\ InJob /\ status = "busy" =>
       loaded = [feature |-> [j \in 1..sent["feature"] |-> OwnFeatures(j - 1)],
                 weight |-> [j \in 1..sent["weight"] |-> OwnWeights(j - 1)]]

Delivered ==
  InJob => \A i \in 0..(IF status = "done" THEN StartBeats("result") ELSE received)-1 :
             ddr_rslt[i] = OwnBeat(i)

DataInv == WeightsCurrent /\ OperandsInMemory /\ Loading /\ Delivered /\ ProductIsOwn

-----------------------------------------------------------------------------
(* What the beats of a request are.                                        *)

LEMMA RequestTypes ==
  ASSUME NEW r \in PaddedRequests
  PROVE  /\ r.a \in Addresses /\ r.m \in Nat /\ r.K \in Nat /\ r.N \in Nat
         /\ r.k \in Nat /\ r.k = Blocks(r.K) /\ r.n \in Nat /\ r.n = Blocks(r.N)
         /\ FeatureBeats(r) \in Nat /\ ResultBeats(r) \in Nat
         /\ WeightBeats(r.k, r.n) \in Nat
         /\ r.m > 0 /\ r.K > 0 /\ r.N > 0 =>
              FeatureBeats(r) > 0 /\ ResultBeats(r) > 0 /\ WeightBeats(r.k, r.n) > 0
<1>1. /\ r.a \in Addresses /\ r.m \in Nat /\ r.K \in Nat /\ r.N \in Nat
      /\ r.k = Blocks(r.K) /\ r.n = Blocks(r.N)
  BY RuntimeAssumption DEF PaddedRequests, Padded
<1>2. r.k \in Nat /\ r.n \in Nat /\ (r.K > 0 => r.k > 0) /\ (r.N > 0 => r.n > 0)
  BY <1>1, BlocksOK
<1>3. WeightBeats(r.k, r.n) \in Nat /\ (r.k > 0 /\ r.n > 0 => WeightBeats(r.k, r.n) > 0)
  BY <1>2, WeightBeatsType
<1>4. \A x, y \in Nat : x * y \in Nat /\ (x > 0 /\ y > 0 => x * y > 0)
  OBVIOUS
<1>. QED
  BY <1>1, <1>2, <1>3, <1>4 DEF FeatureBeats, ResultBeats

LEMMA CheckedBeats ==
  ASSUME RunTypes, ShapeOK(call), SamePadding
  PROVE  /\ StartBeats("feature") = FeatureBeats(call) /\ StartBeats("feature") \in Nat \ {0}
         /\ StartBeats("weight") = WeightBeats(call.k, call.n) /\ StartBeats("weight") \in Nat \ {0}
         /\ StartBeats("result") = ResultBeats(call) /\ StartBeats("result") \in Nat \ {0}
         /\ StartBeats("result") <= WindowSize
<1>1. call \in PaddedRequests
  BY DEF RunTypes
<1>2. call.m > 0 /\ call.K > 0 /\ call.N > 0 /\ ResultBeats(call) <= WindowSize
  BY DEF ShapeOK
<1>. QED
  BY <1>1, <1>2, RequestTypes DEF StartBeats, SamePadding

LEMMA StartBeatsOK ==
  ASSUME RunTypes, Established, InJob
  PROVE  /\ StartBeats("feature") = FeatureBeats(call) /\ StartBeats("feature") \in Nat \ {0}
         /\ StartBeats("weight") = WeightBeats(call.k, call.n) /\ StartBeats("weight") \in Nat \ {0}
         /\ StartBeats("result") = ResultBeats(call) /\ StartBeats("result") \in Nat \ {0}
         /\ StartBeats("result") <= WindowSize
<1>1. ShapeOK(call) /\ SamePadding
  BY DEF Established, InJob
<1>. QED
  BY <1>1, CheckedBeats

(* The job in the accelerator has the shape of the call.                   *)
LEMMA JobShape ==
  ASSUME RunInv, InJob
  PROVE  /\ JobConfig = Shape
         /\ status = "busy" => config = Shape
         /\ FeatureBeats(Shape) = StartBeats("feature")
         /\ WeightBeats(Shape.k, Shape.n) = StartBeats("weight")
         /\ ResultBeats(Shape) = StartBeats("result")
<1>1. JobConfig = Shape /\ (status = "busy" => config = Shape)
  BY DEF RunInv, JobInv, JobStates, RunTypes, JobConfig, Inputs
<1>. QED
  BY <1>1, StartBeatsOK DEF RunInv, Shape, FeatureBeats, ResultBeats

\* What the accelerator of GemmService takes and gives, in its variables.
LEMMA InputsOfService == Gemm!Channels = Inputs
  BY DEF Gemm!Channels, Inputs

LEMMA LoadedMeans ==
  ASSUME job \in 1..MaxCalls
  PROVE  Gemm!Loaded <=> sent = [feature |-> FeatureBeats(JobConfig),
                                 weight |-> WeightBeats(JobConfig.k, JobConfig.n)]
  BY DEF Gemm!Loaded

LEMMA FeedEffect ==
  ASSUME RunTypes, NEW ch \in Inputs, Feed(ch)
  PROVE  /\ dma[ch].state = "running" /\ dma[ch].left > 0
         /\ sent' = [sent EXCEPT ![ch] = sent[ch] + 1]
         /\ status' = "busy" /\ job' = job /\ received' = received
         /\ config' = JobConfig /\ job <= MaxCalls
         /\ dma' = [dma EXCEPT ![ch] = [state |-> "running", ioc |-> dma[ch].ioc,
                                        addr |-> dma[ch].addr + 1, left |-> dma[ch].left - 1]]
         /\ dma' \in [Channels -> Transfers]
<1>1. /\ dma[ch].state = "running" /\ dma[ch].left > 0 /\ job <= MaxCalls
      /\ config' = JobConfig
      /\ dma' = [dma EXCEPT ![ch].addr = @ + 1, ![ch].left = @ - 1]
  BY DEF Feed, CanFeed
<1>2. /\ sent' = [c \in Gemm!Channels |-> IF c \in {ch} THEN sent[c] + 1 ELSE sent[c]]
      /\ status' = "busy" /\ job' = job /\ received' = received
  BY DEF Feed, Gemm!Load
<1>3. sent' = [sent EXCEPT ![ch] = sent[ch] + 1]
  BY <1>2, InputsOfService DEF RunTypes
<1>4. dma[ch] \in Transfers /\ ch \in Channels /\ dma \in [Channels -> Transfers]
  BY DEF RunTypes, Inputs, Channels
<1>5. dma' = [dma EXCEPT ![ch] = [state |-> "running", ioc |-> dma[ch].ioc,
                                  addr |-> dma[ch].addr + 1, left |-> dma[ch].left - 1]]
  BY <1>1, <1>4 DEF Transfers
<1>6. [state |-> "running", ioc |-> dma[ch].ioc, addr |-> dma[ch].addr + 1,
       left |-> dma[ch].left - 1] \in Transfers
  BY <1>1, <1>4 DEF Transfers, States
<1>. QED
  BY <1>1, <1>2, <1>3, <1>4, <1>5, <1>6

LEMMA DeliverEffect ==
  ASSUME RunTypes, JobStates, Deliver
  PROVE  /\ status = "busy" /\ job \in 1..MaxCalls
         /\ dma["result"].state = "running" /\ dma["result"].left > 0
         /\ sent = [feature |-> FeatureBeats(JobConfig),
                    weight |-> WeightBeats(JobConfig.k, JobConfig.n)]
         /\ config' = config
         /\ \/ /\ received # ResultBeats(config) - 1
               /\ received < ResultBeats(JobConfig) - 1
               /\ received' = received + 1 /\ UNCHANGED <<job, sent, status>>
               /\ dma' = [dma EXCEPT !["result"] =
                            [state |-> "running", ioc |-> dma["result"].ioc,
                             addr |-> dma["result"].addr + 1, left |-> dma["result"].left - 1]]
            \/ /\ received = ResultBeats(JobConfig) - 1
               /\ received' = 0 /\ sent' = [c \in Inputs |-> 0] /\ job' = job + 1
               /\ status' = "done"
               /\ dma' = [dma EXCEPT !["result"] =
                            [state |-> "running", ioc |-> dma["result"].ioc,
                             addr |-> dma["result"].addr + 1, left |-> 0]]
         /\ dma' \in [Channels -> Transfers]
<1>1. /\ status = "busy" /\ job <= MaxCalls /\ Gemm!Loaded
      /\ dma["result"].state = "running" /\ dma["result"].left > 0
      /\ config' = config
  BY DEF Deliver, CanDeliver
<1>2. job \in 1..MaxCalls /\ MaxCalls \in Nat
  BY <1>1, RuntimeAssumption DEF RunTypes
<1>3. sent = [feature |-> FeatureBeats(JobConfig),
              weight |-> WeightBeats(JobConfig.k, JobConfig.n)]
  BY <1>1, <1>2, LoadedMeans
<1>4. dma["result"] \in Transfers /\ "result" \in Channels /\ dma \in [Channels -> Transfers]
  BY DEF RunTypes, Channels
<1>5. JobConfig = config
  <2>1. sent \in [Inputs -> Nat] /\ sent["feature"] + sent["weight"] > 0
    BY <1>1 DEF RunTypes, JobStates
  <2>. QED
    BY <2>1 DEF JobConfig, Inputs
<1>6. \/ /\ received < ResultBeats(JobConfig) - 1
         /\ received' = received + 1 /\ UNCHANGED <<job, sent, status>>
      \/ /\ received = ResultBeats(JobConfig) - 1
         /\ received' = 0 /\ sent' = [c \in Inputs |-> 0] /\ job' = job + 1
         /\ status' = "done"
  <2>1. CASE Gemm!Deliver
    BY <1>2, <2>1 DEF Gemm!Deliver
  <2>2. CASE Gemm!DeliverLast
    BY <1>2, <2>2, InputsOfService DEF Gemm!DeliverLast
  <2>. QED
    BY <2>1, <2>2 DEF Deliver
<1>7. dma' = [dma EXCEPT !["result"].addr = @ + 1,
                         !["result"].left = IF received = ResultBeats(config) - 1 THEN 0 ELSE @ - 1]
  BY DEF Deliver
<1>. DEFINE next(left) == [state |-> "running", ioc |-> dma["result"].ioc,
                           addr |-> dma["result"].addr + 1, left |-> left]
<1>8. dma' = [dma EXCEPT !["result"] =
                next(IF received = ResultBeats(config) - 1 THEN 0 ELSE dma["result"].left - 1)]
  BY <1>1, <1>4, <1>7 DEF Transfers
<1>9. \A left \in Nat : next(left) \in Transfers
  BY <1>4 DEF Transfers, States
<1>10. dma["result"].left - 1 \in Nat /\ 0 \in Nat
  BY <1>1, <1>4 DEF Transfers
<1>11. dma' \in [Channels -> Transfers]
  BY <1>4, <1>8, <1>9, <1>10
<1>12. CASE received < ResultBeats(JobConfig) - 1
  <2>1. received # ResultBeats(JobConfig) - 1
    BY <1>12 DEF RunTypes
  <2>. QED
    BY <1>1, <1>2, <1>3, <1>5, <1>6, <1>8, <1>11, <2>1
<1>13. CASE received = ResultBeats(JobConfig) - 1
  <2>1. ~(received < ResultBeats(JobConfig) - 1)
    BY <1>13 DEF RunTypes
  <2>. QED
    BY <1>1, <1>2, <1>3, <1>5, <1>6, <1>8, <1>11, <1>13, <2>1
<1>. QED
  BY <1>6, <1>12, <1>13

LEMMA CompleteEffect ==
  ASSUME RunTypes, NEW ch \in Channels, Complete(ch)
  PROVE  /\ dma[ch].state = "running" /\ dma[ch].left = 0
         /\ dma'[ch].state = "idle" /\ dma'[ch].ioc
         /\ dma'[ch].addr = dma[ch].addr /\ dma'[ch].left = dma[ch].left
         /\ \A c \in Channels \ {ch} : dma'[c] = dma[c]
         /\ dma' \in [Channels -> Transfers]
<1>1. dma \in [Channels -> Transfers] /\ "idle" \in States
  BY DEF RunTypes, States
<1>2. dma[ch].state = "running" /\ dma[ch].left = 0
      /\ dma' = [dma EXCEPT ![ch].state = "idle", ![ch].ioc = TRUE]
  BY DEF Complete, CanComplete
<1>3. dma' \in [Channels -> Transfers] /\ dma'[ch].ioc
  BY <1>1, <1>2 DEF Transfers
<1>4. /\ dma'[ch].state = "idle"
      /\ dma'[ch].addr = dma[ch].addr /\ dma'[ch].left = dma[ch].left
      /\ \A c \in Channels \ {ch} : dma'[c] = dma[c]
  BY <1>1, <1>2 DEF Transfers
<1>. QED
  BY <1>2, <1>3, <1>4

LEMMA FaultEffect ==
  ASSUME RunTypes, NEW ch \in Channels, NEW kind \in Dead, ChannelFault(ch, kind)
  PROVE  /\ dma[ch].state = "running" /\ fault = NoFault
         /\ fault' = [kind |-> kind, ch |-> ch] /\ fault' # NoFault
         /\ dma'[ch].state = kind /\ dma'[ch].ioc = dma[ch].ioc
         /\ \A c \in Channels \ {ch} : dma'[c] = dma[c]
         /\ dma' \in [Channels -> Transfers]
<1>1. dma \in [Channels -> Transfers] /\ kind \in States
  BY DEF RunTypes, States, Dead
<1>2. /\ dma[ch].state = "running" /\ fault = NoFault /\ fault' = [kind |-> kind, ch |-> ch]
      /\ dma' = [dma EXCEPT ![ch].state = kind]
  BY DEF ChannelFault, Strikes
<1>3. fault' # NoFault
  <2>1. fault'.kind = kind /\ NoFault.kind = "none"
    BY <1>2 DEF NoFault
  <2>. QED
    BY <2>1 DEF Dead
<1>4. dma' \in [Channels -> Transfers]
  BY <1>1, <1>2 DEF Transfers
<1>5. /\ dma'[ch].state = kind /\ dma'[ch].ioc = dma[ch].ioc
      /\ \A c \in Channels \ {ch} : dma'[c] = dma[c]
  BY <1>1, <1>2 DEF Transfers
<1>. QED
  BY <1>2, <1>3, <1>4, <1>5

-----------------------------------------------------------------------------
(* The hardware at rest.                                                   *)

LEMMA HealthyChannels ==
  ASSUME ChannelStates, fault = NoFault, NEW ch \in Channels
  PROVE  dma[ch].state \notin Dead
<1>1. SUFFICES ASSUME dma[ch].state \in Dead PROVE FALSE
  OBVIOUS
<1>2. fault.kind = dma[ch].state /\ fault.kind = "none"
  BY <1>1 DEF ChannelStates, NoFault
<1>. QED
  BY <1>1, <1>2 DEF Dead

\* When every transfer was started, rest means that none is running, and
\* without a fault that all are done.
LEMMA RestInJob ==
  ASSUME RunInv, pc \in {"wait", "waited"}, HardwareAtRest
  PROVE  /\ status # "busy" => \A ch \in Channels : dma[ch].state # "running"
         /\ fault = NoFault => \A ch \in Channels : dma[ch].ioc
         /\ fault = NoFault => status = "done"
<1>1. InJob /\ \A ch \in Channels : Started(ch)
  BY DEF InJob, Started
<1>2. /\ JobConfig = Shape
      /\ FeatureBeats(JobConfig) = StartBeats("feature")
      /\ WeightBeats(JobConfig.k, JobConfig.n) = StartBeats("weight")
      /\ \A ch \in Channels : StartBeats(ch) \in Nat \ {0}
  BY <1>1, JobShape, StartBeatsOK DEF RunInv, Channels
<1>3. \A ch \in Channels : dma[ch] \in Transfers /\ dma[ch].left \in Nat
  BY DEF RunInv, RunTypes, Transfers
<1>4. sent \in [Inputs -> Nat] /\ received \in Nat /\ status \in {"idle", "busy", "done"}
  BY DEF RunInv, RunTypes
<1>5. \A ch \in Channels : dma[ch].state = "running" => dma[ch].left # 0
  BY DEF HardwareAtRest, CanComplete
<1>6. CASE status = "done"
  <2>1. \A ch \in Channels : dma[ch].state \notin Dead =>
          dma[ch].state = "idle" /\ dma[ch].ioc
    BY <1>1, <1>5, <1>6 DEF RunInv, JobInv, Progress
  <2>2. fault = NoFault => \A ch \in Channels : dma[ch].state \notin Dead
    BY HealthyChannels DEF RunInv
  <2>. QED
    BY <1>6, <2>1, <2>2 DEF Dead
<1>7. CASE status # "done"
  <2>1. job \in 1..MaxCalls /\ job <= MaxCalls
    BY <1>1, <1>7, RuntimeAssumption DEF RunInv, RunTypes, JobStates
  <2>2. \A ch \in Channels : dma[ch].state \notin Dead =>
          /\ dma[ch].state \in {"running", "idle"}
          /\ dma[ch].state = "idle" => dma[ch].ioc
          /\ dma[ch].state = "running" <=> Moved(ch) < StartBeats(ch)
          /\ dma[ch].state = "idle" <=> Moved(ch) = StartBeats(ch)
          /\ dma[ch].state = "running" => dma[ch].left > 0
    BY <1>1, <1>2, <1>3, <1>4, <1>5, <1>7 DEF RunInv, JobInv, Progress, Moved, Channels, Inputs
  <2>3. \A ch \in Inputs : dma[ch].state # "running"
    <3>1. ASSUME NEW ch \in Inputs, dma[ch].state = "running" PROVE CanFeed(ch)
      <4>1. dma[ch].left > 0 /\ Moved(ch) < StartBeats(ch) /\ ch \in Channels
        BY <2>2, <3>1 DEF Inputs, Channels, Dead
      <4>. QED
        BY <1>2, <2>1, <3>1, <4>1 DEF CanFeed, Moved, Inputs
    <3>. QED
      BY <3>1 DEF HardwareAtRest, Inputs
  <2>4. CASE fault = NoFault
    <3>1. \A ch \in Channels : dma[ch].state \notin Dead
      BY <2>4, HealthyChannels DEF RunInv
    <3>2. \A ch \in Inputs : sent[ch] = StartBeats(ch)
      BY <2>2, <2>3, <3>1 DEF Inputs, Channels, Moved
    <3>3. sent["feature"] # 0 /\ status = "busy"
      <4>1. sent["feature"] # 0
        BY <1>2, <3>2 DEF Inputs, Channels
      <4>. QED
        BY <1>4, <1>7, <4>1 DEF RunInv, JobStates, Inputs
    <3>4. Gemm!Loaded
      <4>1. sent = [feature |-> StartBeats("feature"), weight |-> StartBeats("weight")]
        BY <1>4, <3>2 DEF Inputs
      <4>. QED
        BY <1>2, <2>1, <4>1, LoadedMeans
    <3>5. dma["result"].state = "running" /\ dma["result"].left > 0
      BY <1>1, <2>2, <3>1 DEF RunInv, JobInv, Moved, Channels, RunTypes
    <3>. QED
      BY <2>1, <3>3, <3>4, <3>5 DEF HardwareAtRest, CanDeliver
  <2>5. CASE fault # NoFault
    <3>1. ASSUME status = "idle" PROVE dma["result"].state # "running"
      <4>1. \A ch \in Inputs : Moved(ch) = 0
        BY <3>1 DEF RunInv, JobStates, Moved, Inputs
      <4>2. dma["feature"].state \in Dead /\ dma["weight"].state \in Dead
        BY <1>2, <2>2, <2>3, <4>1 DEF Inputs, Channels
      <4>. QED
        BY <4>2 DEF RunInv, ChannelStates, Channels
    <3>. QED
      BY <1>4, <1>7, <2>3, <2>5, <3>1 DEF Inputs, Channels
  <2>. QED
    BY <2>4, <2>5
<1>. QED
  BY <1>6, <1>7

-----------------------------------------------------------------------------
(* Steps of the board.                                                     *)

\* They leave the caller, its call and the weight cache alone.
CallerKept ==
  /\ pc' = pc /\ step' = step /\ call' = call /\ calls' = calls /\ outcome' = outcome
  /\ g_ready' = g_ready /\ ok' = ok /\ saw_busy' = saw_busy
  /\ g_weight_cache' = g_weight_cache /\ regs' = regs

LEMMA BoardKeepsCaller ==
  Board \/ (\E ch \in Channels, kind \in Dead : ChannelFault(ch, kind)) => CallerKept
  BY DEF Board, Feed, Deliver, Complete, ChannelFault, CallerKept, callVars, cacheVars

LEMMA CallKept ==
  ASSUME CallerKept
  PROVE  /\ InJob' <=> InJob
         /\ Shape' = Shape
         /\ \A ch \in Channels : /\ StartBeats(ch)' = StartBeats(ch)
                                 /\ StartAddr(ch)' = StartAddr(ch)
                                 /\ Started(ch)' <=> Started(ch)
  BY DEF CallerKept, InJob, Shape, StartBeats, StartAddr, Started, we, FeatureBeats, ResultBeats

LEMMA EstablishedKept ==
  ASSUME Established, CallerKept, InJob \/ status' = status
  PROVE  Established'
<1>1. /\ ShapeOK(call)' <=> ShapeOK(call)
      /\ Cached(call.a)' <=> Cached(call.a)
      /\ SamePadding' <=> SamePadding
  BY DEF CallerKept, ShapeOK, Cached, SamePadding, we, FeatureBeats, ResultBeats, WeightBeats
<1>2. pc = "configure" => status' = status
  BY DEF InJob
<1>. QED
  BY <1>1, <1>2, CallKept DEF Established, CallerKept

\* While nothing is at rest, a channel already waited for has stopped.
LEMMA WaitKept ==
  ASSUME RunTypes, WaitInv, CallerKept, ~HardwareAtRest \/ HardwareAtRest',
         dma' \in [Channels -> Transfers], fault # NoFault => fault' # NoFault,
         \A ch \in Channels : dma[ch].state # "running" => dma'[ch].state = dma[ch].state
  PROVE  WaitInv'
<1>1. \A i \in 1..3 : WaitOrder[i] \in Channels
  BY DEF WaitOrder, Channels
<1>2. \A ch \in Channels : dma[ch].state = "idle" => dma'[ch].state = "idle"
  OBVIOUS
<1>3. \A ch \in Channels : dma[ch].state # "running" \/ HardwareAtRest
        => dma'[ch].state # "running" \/ HardwareAtRest'
  OBVIOUS
<1>4. step \in 1..3 /\ \A i \in 1..step-1 : i \in 1..3
  BY DEF RunTypes
<1>. QED
  BY <1>1, <1>2, <1>3, <1>4 DEF WaitInv, CallerKept, WaitOrder

LEMMA StartAddrType ==
  ASSUME CacheInv, RunTypes, NEW ch \in Channels
  PROVE  StartAddr(ch) \in Nat
<1>1. call.a \in Addresses
  BY RequestTypes DEF RunTypes
<1>2. we.off \in Nat
  BY <1>1 DEF we, CacheInv, CacheTypeOK
<1>. QED
  BY <1>2 DEF StartAddr

LEMMA FeedInJob ==
  ASSUME RunInv, NEW ch \in Inputs, Feed(ch)
  PROVE  /\ InJob /\ Started(ch) /\ ~HardwareAtRest /\ status # "done"
         /\ Moved(ch) < StartBeats(ch)
<1>1. dma[ch].state = "running" /\ dma[ch].left > 0 /\ ch \in Channels
  BY FeedEffect DEF RunInv, Inputs, Channels
<1>2. ~HardwareAtRest
  BY DEF Feed, HardwareAtRest, Inputs
<1>3. InJob
  BY <1>1, <1>2 DEF RunInv, QuietOutsideJobs
<1>4. Progress(ch)
  BY <1>1, <1>3 DEF RunInv, JobInv
<1>5. Started(ch) /\ status # "done" /\ dma[ch].left = StartBeats(ch) - Moved(ch)
  BY <1>1, <1>4 DEF Progress, Dead
<1>6. StartBeats(ch) \in Nat /\ Moved(ch) \in Nat
  BY <1>3, StartBeatsOK DEF RunInv, RunTypes, Moved, Inputs
<1>. QED
  BY <1>1, <1>2, <1>3, <1>5, <1>6

LEMMA FeedInv == ASSUME CacheInv, RunInv, NEW ch \in Inputs, Feed(ch) PROVE RunInv'
<1>0. CallerKept /\ fault' = fault
  BY BoardKeepsCaller DEF Board, Feed, Inputs
<1>1. /\ InJob /\ Started(ch) /\ ~HardwareAtRest /\ status # "done"
      /\ Moved(ch) < StartBeats(ch) /\ ch \in Channels
  BY FeedInJob DEF Inputs, Channels
<1>2. /\ dma[ch].state = "running" /\ dma[ch].left > 0
      /\ sent' = [sent EXCEPT ![ch] = sent[ch] + 1]
      /\ status' = "busy" /\ job' = job /\ received' = received
      /\ config' = JobConfig
      /\ dma' \in [Channels -> Transfers]
  BY FeedEffect DEF RunInv
<1>3. /\ dma'[ch].state = "running" /\ dma'[ch].ioc = dma[ch].ioc
      /\ dma'[ch].addr = dma[ch].addr + 1 /\ dma'[ch].left = dma[ch].left - 1
      /\ \A c \in Channels \ {ch} : dma'[c] = dma[c]
  BY <1>1, FeedEffect DEF RunInv, RunTypes
<1>4. RunTypes'
  BY <1>0, <1>2 DEF RunInv, RunTypes, CallerKept, Inputs
<1>5. Established'
  BY <1>0, <1>1, EstablishedKept DEF RunInv
<1>6. ChannelStates'
  BY <1>0, <1>2, <1>3 DEF RunInv, ChannelStates, Dead
<1>7. JobStates'
  <2>1. sent \in [Inputs -> Nat]
    BY DEF RunInv, RunTypes
  <2>2. sent'["feature"] + sent'["weight"] > 0
    BY <1>2, <2>1 DEF Inputs
  <2>. QED
    BY <1>0, <1>1, <1>2, <2>2, CallKept DEF RunInv, JobStates, CallerKept
<1>8. QuietOutsideJobs'
  BY <1>0, <1>1, CallKept DEF QuietOutsideJobs
<1>9. JobInv'
  <2>1. JobConfig = Shape
    BY <1>1, JobShape
  <2>2. ASSUME NEW c \in Channels PROVE Progress(c)'
    <3>1. Progress(c)
      BY <1>1 DEF RunInv, JobInv
    <3>2. /\ StartBeats(c)' = StartBeats(c) /\ StartAddr(c)' = StartAddr(c)
          /\ Started(c)' <=> Started(c)
      BY <1>0, CallKept
    <3>3. CASE c = ch
      <4>1. /\ Moved(c)' = Moved(c) + 1 /\ Moved(c) \in Nat /\ StartBeats(c) \in Nat
            /\ StartAddr(c) \in Nat
        <5>1. sent \in [Inputs -> Nat] /\ ch # "result"
          BY DEF RunInv, RunTypes, Inputs
        <5>2. StartAddr(c) \in Nat
          BY StartAddrType DEF RunInv
        <5>. QED
          BY <1>1, <1>2, <3>3, <5>1, <5>2, StartBeatsOK DEF Moved, RunInv, Inputs
      <4>. QED
        BY <1>1, <1>2, <1>3, <3>1, <3>2, <3>3, <4>1 DEF Progress, Dead
    <3>4. CASE c # ch
      <4>1. Moved(c)' = Moved(c)
        BY <1>2, <3>4 DEF Moved, RunInv, RunTypes, Inputs, Channels
      <4>. QED
        BY <1>1, <1>2, <1>3, <3>1, <3>2, <3>4, <4>1 DEF Progress
    <3>. QED
      BY <3>3, <3>4
  <2>3. StartBeats("result")' = StartBeats("result") /\ regs' = regs /\ Shape' = Shape
    BY <1>0, CallKept DEF CallerKept, Channels
  <2>. QED
    BY <1>1, <1>2, <2>1, <2>2, <2>3 DEF RunInv, JobInv
<1>10. WaitInv'
  BY <1>0, <1>1, <1>2, <1>3, WaitKept DEF RunInv
<1>11. HealthyRunsDeliver'
  BY <1>0 DEF RunInv, HealthyRunsDeliver, CallerKept
<1>. QED
  BY <1>4, <1>5, <1>6, <1>7, <1>8, <1>9, <1>10, <1>11 DEF RunInv

LEMMA CompleteInv == ASSUME CacheInv, RunInv, NEW ch \in Channels, Complete(ch) PROVE RunInv'
<1>0. CallerKept /\ fault' = fault /\ UNCHANGED <<config, job, sent, received, status>>
  BY BoardKeepsCaller DEF Board, Complete, gemmVars
<1>1. /\ dma[ch].state = "running" /\ dma[ch].left = 0
      /\ dma'[ch].state = "idle" /\ dma'[ch].ioc
      /\ dma'[ch].addr = dma[ch].addr /\ dma'[ch].left = dma[ch].left
      /\ \A c \in Channels \ {ch} : dma'[c] = dma[c]
      /\ dma' \in [Channels -> Transfers]
  BY CompleteEffect DEF RunInv
<1>2. ~HardwareAtRest
  BY <1>1 DEF Complete, HardwareAtRest
<1>3. InJob /\ Started(ch)
  <2>1. InJob
    BY <1>1, <1>2 DEF RunInv, QuietOutsideJobs
  <2>2. Progress(ch)
    BY <2>1 DEF RunInv, JobInv
  <2>. QED
    BY <1>1, <2>1, <2>2 DEF Progress
<1>4. RunTypes'
  BY <1>0, <1>1 DEF RunInv, RunTypes, CallerKept
<1>5. Established'
  BY <1>0, EstablishedKept DEF RunInv
<1>6. ChannelStates'
  BY <1>0, <1>1 DEF RunInv, ChannelStates, Dead
<1>7. JobStates'
  BY <1>0, CallKept DEF RunInv, JobStates, CallerKept
<1>8. QuietOutsideJobs'
  BY <1>0, <1>3, CallKept DEF QuietOutsideJobs
<1>9. JobInv'
  <2>1. ASSUME NEW c \in Channels PROVE Progress(c)'
    <3>1. Progress(c)
      BY <1>3 DEF RunInv, JobInv
    <3>2. /\ StartBeats(c)' = StartBeats(c) /\ StartAddr(c)' = StartAddr(c)
          /\ (Started(c)' <=> Started(c)) /\ Moved(c)' = Moved(c)
      BY <1>0, CallKept DEF Moved
    <3>3. CASE c = ch
      BY <1>0, <1>1, <1>3, <3>1, <3>2, <3>3 DEF Progress, Dead
    <3>4. CASE c # ch
      BY <1>0, <1>1, <3>1, <3>2, <3>4 DEF Progress
    <3>. QED
      BY <3>3, <3>4
  <2>2. StartBeats("result")' = StartBeats("result") /\ regs' = regs /\ Shape' = Shape
    BY <1>0, CallKept DEF CallerKept, Channels
  <2>. QED
    BY <1>0, <1>3, <2>1, <2>2 DEF RunInv, JobInv
<1>10. WaitInv'
  BY <1>0, <1>1, <1>2, WaitKept DEF RunInv
<1>11. HealthyRunsDeliver'
  BY <1>0 DEF RunInv, HealthyRunsDeliver, CallerKept
<1>. QED
  BY <1>4, <1>5, <1>6, <1>7, <1>8, <1>9, <1>10, <1>11 DEF RunInv

(* Hardware at rest stays so when channels only stop.                      *)
LEMMA RestKept ==
  ASSUME HardwareAtRest, UNCHANGED <<regs, config, job, sent, received, status>>,
         \A c \in Channels : dma'[c] = dma[c] \/ dma'[c].state # "running"
  PROVE  HardwareAtRest'
<1>1. \A c \in Inputs : CanFeed(c)' => CanFeed(c)
  BY DEF CanFeed, JobConfig, Inputs, Channels
<1>2. \A c \in Channels : CanComplete(c)' => CanComplete(c)
  BY DEF CanComplete
<1>3. CanDeliver' => CanDeliver
  <2>1. Gemm!Loaded' <=> Gemm!Loaded
    BY DEF Gemm!Loaded, JobConfig
  <2>. QED
    BY <2>1 DEF CanDeliver, Channels
<1>. QED
  BY <1>1, <1>2, <1>3 DEF HardwareAtRest, Inputs

LEMMA FaultInv ==
  ASSUME CacheInv, RunInv, NEW ch \in Channels, NEW kind \in Dead, ChannelFault(ch, kind)
  PROVE  RunInv'
<1>0. CallerKept /\ UNCHANGED <<config, job, sent, received, status>>
  BY BoardKeepsCaller DEF ChannelFault, gemmVars
<1>1. /\ dma[ch].state = "running" /\ fault = NoFault
      /\ fault' = [kind |-> kind, ch |-> ch] /\ fault' # NoFault
      /\ dma'[ch].state = kind /\ dma'[ch].ioc = dma[ch].ioc
      /\ \A c \in Channels \ {ch} : dma'[c] = dma[c]
      /\ dma' \in [Channels -> Transfers]
  BY FaultEffect DEF RunInv
<1>2. ~HardwareAtRest \/ HardwareAtRest'
  <2>1. regs' = regs /\ \A c \in Channels : dma'[c] = dma[c] \/ dma'[c].state # "running"
    BY <1>0, <1>1 DEF Dead, CallerKept
  <2>. QED
    BY <1>0, <2>1, RestKept
<1>3. InJob /\ Started(ch)
  <2>1. InJob
    BY <1>1 DEF RunInv, QuietOutsideJobs
  <2>2. Progress(ch)
    BY <2>1 DEF RunInv, JobInv
  <2>. QED
    BY <1>1, <2>1, <2>2 DEF Progress
<1>4. RunTypes'
  BY <1>0, <1>1 DEF RunInv, RunTypes, CallerKept
<1>5. Established'
  BY <1>0, EstablishedKept DEF RunInv
<1>6. ChannelStates'
  <2>1. \A c \in Channels : dma[c].state \notin Dead
    BY <1>1, HealthyChannels DEF RunInv
  <2>2. ~dma[ch].ioc
    BY <1>1 DEF RunInv, ChannelStates
  <2>. QED
    BY <1>1, <2>1, <2>2 DEF RunInv, ChannelStates
<1>7. JobStates'
  BY <1>0, CallKept DEF RunInv, JobStates, CallerKept
<1>8. QuietOutsideJobs'
  BY <1>0, <1>3, CallKept DEF QuietOutsideJobs
<1>9. JobInv'
  <2>1. ASSUME NEW c \in Channels PROVE Progress(c)'
    <3>1. Progress(c)
      BY <1>3 DEF RunInv, JobInv
    <3>2. /\ StartBeats(c)' = StartBeats(c) /\ StartAddr(c)' = StartAddr(c)
          /\ (Started(c)' <=> Started(c)) /\ Moved(c)' = Moved(c)
      BY <1>0, CallKept DEF Moved
    <3>3. CASE c = ch
      BY <1>0, <1>1, <1>3, <3>1, <3>2, <3>3 DEF Progress, Dead
    <3>4. CASE c # ch
      BY <1>0, <1>1, <3>1, <3>2, <3>4 DEF Progress
    <3>. QED
      BY <3>3, <3>4
  <2>2. StartBeats("result")' = StartBeats("result") /\ regs' = regs /\ Shape' = Shape
    BY <1>0, CallKept DEF CallerKept, Channels
  <2>. QED
    BY <1>0, <1>3, <2>1, <2>2 DEF RunInv, JobInv
<1>10. WaitInv'
  BY <1>0, <1>1, <1>2, WaitKept DEF RunInv
<1>11. HealthyRunsDeliver'
  BY <1>1 DEF HealthyRunsDeliver
<1>. QED
  BY <1>4, <1>5, <1>6, <1>7, <1>8, <1>9, <1>10, <1>11 DEF RunInv

\* A result is delivered to the call that runs, when all its transfers were started.
LEMMA DeliverInJob ==
  ASSUME RunInv, Deliver
  PROVE  /\ InJob /\ ~HardwareAtRest /\ \A ch \in Channels : Started(ch)
         /\ sent = [ch \in Inputs |-> StartBeats(ch)]
         /\ dma["result"].left = StartBeats("result") - received
         /\ JobConfig = Shape /\ config = Shape /\ ResultBeats(JobConfig) = StartBeats("result")
<1>1. /\ status = "busy" /\ dma["result"].state = "running"
      /\ sent = [feature |-> FeatureBeats(JobConfig),
                 weight |-> WeightBeats(JobConfig.k, JobConfig.n)]
  BY DeliverEffect DEF RunInv
<1>2. ~HardwareAtRest
  BY DEF Deliver, HardwareAtRest
<1>3. InJob
  BY <1>1, <1>2 DEF RunInv, QuietOutsideJobs
<1>4. /\ JobConfig = Shape /\ config = Shape
      /\ FeatureBeats(JobConfig) = StartBeats("feature")
      /\ WeightBeats(JobConfig.k, JobConfig.n) = StartBeats("weight")
      /\ ResultBeats(JobConfig) = StartBeats("result")
  BY <1>1, <1>3, JobShape
<1>5. sent = [ch \in Inputs |-> StartBeats(ch)]
  BY <1>1, <1>4 DEF Inputs
<1>6. StartBeats("feature") > 0 /\ StartBeats("weight") > 0
  BY <1>3, StartBeatsOK DEF RunInv
<1>7. \A ch \in Channels : Progress(ch)
  BY <1>3 DEF RunInv, JobInv
<1>8. \A ch \in Channels : Started(ch)
  <2>1. Started("result")
    BY <1>1, <1>7 DEF Progress, Channels
  <2>2. Started("feature")
    BY <1>5, <1>6, <1>7 DEF Progress, Channels, Moved, Inputs
  <2>3. Started("weight")
    BY <1>5, <1>6, <1>7 DEF Progress, Channels, Moved, Inputs
  <2>. QED
    BY <2>1, <2>2, <2>3 DEF Channels
<1>9. dma["result"].left = StartBeats("result") - received
  BY <1>1, <1>7, <1>8 DEF Progress, Channels, Moved, Dead
<1>. QED
  BY <1>2, <1>3, <1>4, <1>5, <1>8, <1>9

LEMMA DeliverInv == ASSUME CacheInv, RunInv, Deliver PROVE RunInv'
<1>0. CallerKept /\ fault' = fault
  BY BoardKeepsCaller DEF Board, Deliver
<1>1. /\ InJob /\ ~HardwareAtRest /\ \A ch \in Channels : Started(ch)
      /\ sent = [ch \in Inputs |-> StartBeats(ch)]
      /\ dma["result"].left = StartBeats("result") - received
      /\ config = Shape /\ ResultBeats(JobConfig) = StartBeats("result")
  BY DeliverInJob
<1>2. /\ status = "busy" /\ job \in 1..MaxCalls
      /\ dma["result"].state = "running" /\ dma["result"].left > 0
      /\ config' = config
      /\ dma' \in [Channels -> Transfers]
  BY DeliverEffect DEF RunInv
<1>3. \/ /\ received < StartBeats("result") - 1
         /\ received' = received + 1 /\ UNCHANGED <<job, sent, status>>
         /\ dma'["result"].left = dma["result"].left - 1
      \/ /\ received' = 0 /\ sent' = [c \in Inputs |-> 0] /\ job' = job + 1
         /\ status' = "done"
         /\ dma'["result"].left = 0
  BY <1>1, DeliverEffect DEF RunInv, RunTypes, Channels
<1>4. /\ dma'["result"].state = "running" /\ dma'["result"].ioc = dma["result"].ioc
      /\ dma'["result"].addr = dma["result"].addr + 1
      /\ dma'["feature"] = dma["feature"] /\ dma'["weight"] = dma["weight"]
  BY DeliverEffect DEF RunInv, RunTypes, Channels
<1>5. \A ch \in Channels : dma'[ch].state = dma[ch].state /\ dma'[ch].ioc = dma[ch].ioc
  BY <1>2, <1>4 DEF Channels
<1>6. job \in Nat \ {0} /\ received \in Nat /\ sent \in [Inputs -> Nat]
  BY DEF RunInv, RunTypes
<1>7. RunTypes'
  <2>1. job' \in Nat \ {0} /\ received' \in Nat /\ sent' \in [Inputs -> Nat]
        /\ status' \in {"idle", "busy", "done"}
    BY <1>2, <1>3, <1>6
  <2>. QED
    BY <1>0, <1>2, <2>1 DEF RunInv, RunTypes, CallerKept
<1>8. Established'
  BY <1>0, <1>1, EstablishedKept DEF RunInv
<1>9. ChannelStates'
  BY <1>0, <1>5 DEF RunInv, ChannelStates
<1>10. JobStates'
  <2>1. job <= calls /\ calls \in Nat /\ calls' = calls /\ InJob'
    BY <1>0, <1>1, <1>2, CallKept DEF RunInv, JobStates, RunTypes, CallerKept, InJob
  <2>2. CASE UNCHANGED <<job, sent, status>>
    BY <1>2, <1>6, <2>1, <2>2 DEF RunInv, JobStates
  <2>3. CASE sent' = [c \in Inputs |-> 0] /\ received' = 0 /\ job' = job + 1 /\ status' = "done"
    BY <1>6, <2>1, <2>3 DEF JobStates
  <2>. QED
    BY <1>3, <2>2, <2>3
<1>11. QuietOutsideJobs'
  BY <1>0, <1>1, CallKept DEF QuietOutsideJobs
<1>12. JobInv'
  <2>1. StartBeats("result") \in Nat \ {0} /\ received < StartBeats("result")
    BY <1>1, StartBeatsOK DEF RunInv, JobInv
  <2>2. ASSUME NEW c \in Channels PROVE Progress(c)'
    <3>1. Progress(c) /\ Started(c)
      BY <1>1 DEF RunInv, JobInv
    <3>2. /\ StartBeats(c)' = StartBeats(c) /\ StartAddr(c)' = StartAddr(c)
          /\ (Started(c)' <=> Started(c))
      BY <1>0, CallKept
    <3>3. CASE c = "result"
      <4>1. StartAddr(c) = 0 /\ StartAddr(c)' = 0
        BY <3>3 DEF StartAddr
      <4>2. Moved(c) = received /\ Moved(c)' = received'
        BY <3>3 DEF Moved
      <4>3. dma[c].addr = received /\ dma[c].left = StartBeats(c) - received
        BY <1>1, <1>2, <1>6, <3>1, <3>3, <4>1, <4>2 DEF Progress, Dead
      <4>4. CASE status' = "done"
        BY <1>2, <1>3, <1>4, <3>1, <3>2, <3>3, <4>4 DEF Progress, Dead
      <4>5. CASE status' # "done"
        <5>1. received' = received + 1 /\ received + 1 <= StartBeats(c)
              /\ dma'[c].left = dma[c].left - 1
          BY <1>3, <1>6, <2>1, <3>3, <4>5
        <5>. QED
          BY <1>4, <1>6, <2>1, <3>1, <3>2, <3>3, <4>1, <4>2, <4>3, <4>5, <5>1 DEF Progress, Dead
      <4>. QED
        BY <4>4, <4>5
    <3>4. CASE c # "result"
      <4>1. c \in Inputs /\ dma'[c] = dma[c] /\ Moved(c) = StartBeats(c)
        BY <1>1, <1>4, <3>4 DEF Channels, Inputs, Moved
      <4>2. StartBeats(c) \in Nat
        BY <1>1, <4>1, StartBeatsOK DEF RunInv, Inputs
      <4>3. CASE status' = "done"
        BY <1>2, <3>1, <3>2, <4>1, <4>2, <4>3 DEF Progress
      <4>4. CASE status' # "done"
        <5>1. Moved(c)' = Moved(c)
          BY <1>3, <4>4, <4>1 DEF Moved, Inputs
        <5>. QED
          BY <1>2, <3>1, <3>2, <4>1, <4>4, <5>1 DEF Progress
      <4>. QED
        BY <4>3, <4>4
    <3>. QED
      BY <3>3, <3>4
  <2>3. StartBeats("result")' = StartBeats("result") /\ regs' = regs /\ Shape' = Shape
    BY <1>0, CallKept DEF CallerKept, Channels
  <2>4. received' < StartBeats("result")
    BY <1>3, <1>6, <2>1
  <2>. QED
    BY <1>1, <1>2, <2>2, <2>3, <2>4 DEF RunInv, JobInv
<1>13. WaitInv'
  <2>1. \A ch \in Channels : dma[ch].state # "running" => dma'[ch].state = dma[ch].state
    BY <1>5
  <2>. QED
    BY <1>0, <1>1, <1>2, <2>1, WaitKept DEF RunInv
<1>14. HealthyRunsDeliver'
  BY <1>0 DEF RunInv, HealthyRunsDeliver, CallerKept
<1>. QED
  BY <1>7, <1>8, <1>9, <1>10, <1>11, <1>12, <1>13, <1>14 DEF RunInv

-----------------------------------------------------------------------------
(* Steps between jobs.                                                     *)

\* They leave the accelerator alone, and at most stop channels.
LEMMA QuietStep ==
  ASSUME RunInv, ~InJob, ~InJob', UNCHANGED <<regs, config, job, sent, received, status>>,
         \A c \in Channels : dma'[c] = dma[c] \/ dma'[c] = Halted,
         fault' = fault \/ (fault = NoFault /\ fault' # NoFault),
         calls' \in Nat, calls' = calls + 1 \/ (calls' = calls /\ (pc' # "caller" => pc # "caller"))
  PROVE  ChannelStates' /\ JobStates' /\ QuietOutsideJobs' /\ JobInv' /\ WaitInv'
<1>1. Halted.state = "halted" /\ Halted.ioc = FALSE
  BY DEF Halted
<1>2. \A c \in Channels : dma'[c] = dma[c] \/ dma'[c].state # "running"
  BY <1>1
<1>3. ChannelStates'
  <2>1. \A c \in Channels : dma'[c].state \in Dead => dma'[c] = dma[c] /\ fault' = fault
    BY <1>1, HealthyChannels DEF RunInv, Dead
  <2>2. \A c \in Channels : dma'[c].ioc => dma'[c] = dma[c]
    BY <1>1
  <2>. QED
    BY <2>1, <2>2 DEF RunInv, ChannelStates
<1>4. JobStates'
  <2>1. job \in Nat /\ calls \in Nat /\ job <= calls + 1
        /\ (pc # "caller" => job <= calls)
    BY DEF RunInv, RunTypes, JobStates
  <2>2. job' = job /\ calls' \in Nat
    OBVIOUS
  <2>3. job' <= calls' + 1 /\ (pc' # "caller" => job' <= calls')
    <3>1. CASE calls' = calls + 1
      BY <2>1, <2>2, <3>1
    <3>2. CASE calls' = calls /\ (pc' # "caller" => pc # "caller")
      BY <2>1, <2>2, <3>2
    <3>. QED
      BY <3>1, <3>2
  <2>. QED
    BY <2>3 DEF RunInv, JobStates
<1>5. QuietOutsideJobs'
  <2>1. CASE status # "busy"
    BY <1>2, <2>1 DEF RunInv, QuietOutsideJobs
  <2>2. CASE status = "busy"
    <3>1. HardwareAtRest /\ fault # NoFault
      BY <2>2 DEF RunInv, QuietOutsideJobs
    <3>2. HardwareAtRest'
      BY <1>2, <3>1, RestKept
    <3>. QED
      BY <2>2, <3>1, <3>2 DEF QuietOutsideJobs
  <2>. QED
    BY <2>1, <2>2
<1>6. JobInv' /\ WaitInv'
  BY DEF JobInv, WaitInv, InJob
<1>. QED
  BY <1>3, <1>4, <1>5, <1>6

\* What most steps of the caller leave alone.
BoardKept == UNCHANGED <<regs, dma, config, job, sent, received, status>>

LEMMA CallInv == ASSUME RunInv, NEW r \in Requests, Call(r) PROVE RunInv'
<1>1. /\ pc = "caller" /\ pc' \in {"checks", "open"} /\ step' = 1
      /\ pc' = IF g_ready THEN "checks" ELSE "open"
      /\ call' = Padded(r) /\ calls' = calls + 1 /\ calls < MaxCalls /\ outcome' = "none"
      /\ UNCHANGED <<g_ready, ok, saw_busy, fault>> /\ BoardKept
  BY DEF Call, Goto, gemmVars, BoardKept
<1>2. RunTypes'
  BY <1>1, RuntimeAssumption DEF RunInv, RunTypes, Labels, BoardKept, PaddedRequests
<1>3. Established'
  BY <1>1 DEF RunInv, RunTypes, Established, InJob
<1>4. ChannelStates' /\ JobStates' /\ QuietOutsideJobs' /\ JobInv' /\ WaitInv'
  BY <1>1, <1>2, QuietStep DEF InJob, BoardKept, RunTypes
<1>5. HealthyRunsDeliver'
  BY <1>1 DEF HealthyRunsDeliver
<1>. QED
  BY <1>2, <1>3, <1>4, <1>5 DEF RunInv

LEMMA OpenAndMapInv == ASSUME RunInv, OpenAndMap PROVE RunInv'
<1>1. /\ pc = "open" /\ step' = 1 /\ UNCHANGED <<call, calls>>
      /\ \/ pc' = "reset" /\ UNCHANGED <<outcome, fault>>
         \/ pc' = "caller" /\ outcome' = "not_ready" /\ fault = NoFault
            /\ fault' = [kind |-> "map", ch |-> "feature"]
      /\ UNCHANGED <<g_ready, ok, saw_busy>> /\ BoardKept
  BY DEF OpenAndMap, Goto, Return, Strikes, callVars, gemmVars, BoardKept
<1>2. fault' = fault \/ (fault = NoFault /\ fault' # NoFault)
  BY <1>1 DEF NoFault
<1>3. RunTypes'
  <2>1. pc' \in Labels /\ step' \in 1..3 /\ call' = call /\ calls' = calls
    BY <1>1 DEF Labels
  <2>. QED
    BY <1>1, <2>1 DEF RunInv, RunTypes, BoardKept
<1>4. Established'
  BY <1>1 DEF RunInv, RunTypes, Established, InJob
<1>5. ChannelStates' /\ JobStates' /\ QuietOutsideJobs' /\ JobInv' /\ WaitInv'
  <2>1. ~InJob /\ ~InJob' /\ calls' = calls /\ pc # "caller" /\ calls' \in Nat
    BY <1>1, <1>3 DEF InJob, RunTypes
  <2>. QED
    BY <1>1, <1>2, <2>1, QuietStep DEF BoardKept
<1>6. HealthyRunsDeliver'
  BY <1>1 DEF RunInv, HealthyRunsDeliver
<1>. QED
  BY <1>3, <1>4, <1>5, <1>6 DEF RunInv

LEMMA ResetChannelInv == ASSUME RunInv, ResetChannel PROVE RunInv'
<1>. DEFINE ch == ResetOrder[step]
<1>1. /\ pc = "reset" /\ UNCHANGED <<call, calls, ok, saw_busy>>
      /\ UNCHANGED <<regs, config, job, sent, received, status>>
      /\ \/ /\ dma' = [dma EXCEPT ![ch] = Halted]
            /\ \/ step < 3 /\ step' = step + 1 /\ pc' = pc /\ g_ready' = g_ready
               \/ ~(step < 3) /\ step' = 1 /\ pc' = "checks" /\ g_ready' = TRUE
            /\ UNCHANGED <<outcome, fault>>
         \/ /\ step' = 1 /\ pc' = "caller" /\ outcome' = "not_ready" /\ fault = NoFault
            /\ fault' = [kind |-> "reset", ch |-> ch]
            /\ UNCHANGED <<dma, g_ready>>
  <2>1. step \in 1..3
    BY DEF RunInv, RunTypes
  <2>2. step = 3 <=> ~(step < 3)
    BY <2>1
  <2>. QED
    BY <2>2 DEF ResetChannel, NextChannel, Goto, Return, Strikes, callVars, gemmVars
<1>2. step \in 1..3 /\ ch \in Channels /\ Halted \in Transfers
  BY DEF RunInv, RunTypes, ResetOrder, Channels, Halted, Transfers, States
<1>3. fault' = fault \/ (fault = NoFault /\ fault' # NoFault)
  <2>1. [kind |-> "reset", ch |-> ch] # NoFault
    <3>1. [kind |-> "reset", ch |-> ch].kind = "reset" /\ NoFault.kind = "none"
      BY DEF NoFault
    <3>. QED
      BY <3>1
  <2>. QED
    BY <1>1, <2>1
<1>4. dma' \in [Channels -> Transfers] /\ \A c \in Channels : dma'[c] = dma[c] \/ dma'[c] = Halted
  BY <1>1, <1>2 DEF RunInv, RunTypes
<1>5. RunTypes'
  <2>1. pc' = "reset" \/ pc' = "checks" \/ pc' = "caller"
    BY <1>1
  <2>2. (step < 3 /\ step' = step + 1) \/ step' = 1
    BY <1>1
  <2>3. step' \in 1..3
    BY <1>2, <2>2
  <2>4. g_ready' = g_ready \/ g_ready' = TRUE
    BY <1>1
  <2>5. pc' \in Labels
    BY <2>1 DEF Labels
  <2>. QED
    BY <1>1, <1>4, <2>3, <2>4, <2>5 DEF RunInv, RunTypes
<1>6. Established'
  BY <1>1 DEF RunInv, RunTypes, Established, InJob
<1>7. ChannelStates' /\ JobStates' /\ QuietOutsideJobs' /\ JobInv' /\ WaitInv'
  <2>1. ~InJob /\ ~InJob' /\ calls' = calls /\ pc # "caller" /\ calls' \in Nat
    BY <1>1, <1>5 DEF InJob, RunTypes
  <2>. QED
    BY <1>1, <1>3, <1>4, <2>1, QuietStep
<1>8. HealthyRunsDeliver'
  BY <1>1 DEF RunInv, HealthyRunsDeliver
<1>. QED
  BY <1>5, <1>6, <1>7, <1>8 DEF RunInv

\* A step inside a call that keeps the hardware.
LEMMA CallerStep ==
  ASSUME RunInv, ~InJob, ~InJob', BoardKept, UNCHANGED <<fault, call, calls, ok, saw_busy>>,
         pc' \in Labels, step' \in 1..3, pc # "caller" \/ pc' = "caller",
         g_ready' \in BOOLEAN, Established',
         outcome' = outcome \/ outcome' = "refused" \/ fault # NoFault
  PROVE  RunInv'
<1>1. RunTypes'
  BY DEF RunInv, RunTypes, BoardKept
<1>2. ChannelStates' /\ JobStates' /\ QuietOutsideJobs' /\ JobInv' /\ WaitInv'
  BY <1>1, QuietStep DEF BoardKept, RunTypes
<1>3. HealthyRunsDeliver'
  BY DEF RunInv, HealthyRunsDeliver
<1>. QED
  BY <1>1, <1>2, <1>3 DEF RunInv

\* What CallerStep asks of most steps.
PlainStep ==
  /\ BoardKept /\ UNCHANGED <<fault, call, calls, ok, saw_busy, g_ready>>
  /\ step' \in 1..3

LEMMA BetweenCallsInv ==
  ASSUME RunInv, Cleanup \/ \E a \in Addresses, t \in Tensors : Reload(a, t)
  PROVE  RunInv'
<1>1. /\ pc = "caller" /\ UNCHANGED <<pc, step, fault, call, calls, ok, saw_busy, outcome>>
      /\ BoardKept
      /\ g_ready' = g_ready \/ g_ready' = FALSE
  BY DEF Cleanup, Reload, callVars, gemmVars, BoardKept
<1>2. Established'
  BY <1>1 DEF RunInv, RunTypes, Established, InJob
<1>. QED
  BY <1>1, <1>2, CallerStep DEF RunInv, RunTypes, InJob

\* The cache is the same and so is the request, so what was checked still holds.
LEMMA CheckedKept ==
  ASSUME call' = call, g_weight_cache' = g_weight_cache
  PROVE  /\ ShapeOK(call)' <=> ShapeOK(call)
         /\ Cached(call.a)' <=> Cached(call.a)
         /\ SamePadding' <=> SamePadding
  BY DEF ShapeOK, Cached, SamePadding, we, FeatureBeats, ResultBeats, WeightBeats

\* A call that is refused, or given up before its job.
LEMMA ReturnInv ==
  ASSUME RunInv, ~InJob, pc # "caller", PlainStep, pc' = "caller",
         outcome' = "refused" \/ fault # NoFault
  PROVE  RunInv'
<1>1. Established'
  BY DEF Established, InJob
<1>. QED
  BY <1>1, CallerStep DEF PlainStep, Labels, InJob, RunInv, RunTypes

\* A call that goes on from one check to the next.
LEMMA GoOnInv ==
  ASSUME RunInv, ~InJob, PlainStep, pc \notin {"caller", "open", "reset"}, outcome' = outcome,
         pc' \in {"pack", "weight", "padding", "wait_idle", "configure"},
         ShapeOK(call)',
         pc' # "pack" /\ pc' # "weight" => Cached(call.a)',
         pc' \in {"wait_idle", "configure"} => SamePadding',
         pc' = "configure" => status # "busy"
  PROVE  RunInv'
<1>1. pc' \in Labels /\ ~InJob'
  BY DEF Labels, InJob
<1>2. g_ready /\ outcome = "none"
  BY DEF RunInv, Established
<1>3. Established'
  BY <1>1, <1>2 DEF Established, PlainStep, BoardKept
<1>. QED
  BY <1>1, <1>3, CallerStep DEF PlainStep, RunInv, RunTypes

LEMMA CheckShapeInv == ASSUME RunInv, CheckShape PROVE RunInv'
<1>1. /\ pc = "checks" /\ PlainStep /\ g_weight_cache' = g_weight_cache
      /\ \/ pc' = "pack" /\ outcome' = outcome /\ ShapeOK(call)
         \/ pc' = "caller" /\ outcome' = "refused"
  BY DEF CheckShape, Goto, Return, callVars, cacheVars, gemmVars, BoardKept, PlainStep
<1>2. ShapeOK(call)' <=> ShapeOK(call)
  BY <1>1, CheckedKept DEF PlainStep
<1>3. CASE pc' = "pack"
  BY <1>1, <1>2, <1>3, GoOnInv DEF InJob
<1>4. CASE pc' = "caller"
  BY <1>1, <1>4, ReturnInv DEF InJob
<1>. QED
  BY <1>1, <1>3, <1>4

LEMMA PackInv == ASSUME RunInv, Pack PROVE RunInv'
<1>1. /\ pc = "pack" /\ PlainStep /\ g_weight_cache' = g_weight_cache
      /\ pc' = "weight" /\ outcome' = outcome
  BY DEF Pack, Goto, callVars, cacheVars, gemmVars, BoardKept, PlainStep
<1>2. ShapeOK(call)'
  BY <1>1, CheckedKept DEF PlainStep, RunInv, Established
<1>. QED
  BY <1>1, <1>2, GoOnInv DEF InJob

LEMMA WeightFailsInv == ASSUME RunInv, WeightFails PROVE RunInv'
<1>1. pc = "weight" /\ PlainStep /\ pc' = "caller" /\ outcome' = "refused"
  BY DEF WeightFails, Goto, Return, callVars, cacheVars, gemmVars, BoardKept, PlainStep
<1>. QED
  BY <1>1, ReturnInv DEF InJob

LEMMA FindWeightInv == ASSUME RunInv, FindWeight PROVE RunInv'
<1>1. /\ pc = "weight" /\ PlainStep /\ g_weight_cache' = g_weight_cache
      /\ pc' = "padding" /\ outcome' = outcome /\ Cached(call.a)
  BY DEF FindWeight, Goto, callVars, cacheVars, gemmVars, BoardKept, PlainStep
<1>2. ShapeOK(call)' /\ Cached(call.a)'
  BY <1>1, CheckedKept DEF PlainStep, RunInv, Established
<1>. QED
  BY <1>1, <1>2, GoOnInv DEF InJob

LEMMA CacheWeightInv == ASSUME CacheInv, RunInv, CacheWeight PROVE RunInv'
<1>1. /\ pc = "weight" /\ PlainStep /\ pc' = "padding" /\ outcome' = outcome
      /\ StoreWeight(call.a, call.K, call.N)
  BY DEF CacheWeight, Goto, callVars, gemmVars, BoardKept, PlainStep
<1>2. Cached(call.a)'
  <2>1. call \in PaddedRequests /\ call' = call /\ ShapeOK(call)
    BY <1>1 DEF RunInv, RunTypes, PlainStep, Established
  <2>2. /\ call.a \in Addresses /\ WeightBeats(call.k, call.n) > 0
        /\ call.k = Blocks(call.K) /\ call.n = Blocks(call.N)
    BY <2>1, RequestTypes DEF ShapeOK
  <2>3. g_weight_cache'[call.a].size = WeightBeats(call.k, call.n)
    BY <1>1, <2>2 DEF StoreWeight, CacheInv, CacheTypeOK
  <2>. QED
    BY <2>1, <2>2, <2>3 DEF Cached, NoEntry
<1>3. ShapeOK(call)'
  BY <1>1 DEF PlainStep, RunInv, Established, ShapeOK, FeatureBeats, ResultBeats, WeightBeats
<1>. QED
  BY <1>1, <1>2, <1>3, GoOnInv DEF InJob

LEMMA CheckPaddingInv == ASSUME RunInv, CheckPadding PROVE RunInv'
<1>1. /\ pc = "padding" /\ PlainStep /\ g_weight_cache' = g_weight_cache
      /\ \/ pc' = "wait_idle" /\ outcome' = outcome /\ SamePadding
         \/ pc' = "caller" /\ outcome' = "refused"
  BY DEF CheckPadding, Goto, Return, callVars, cacheVars, gemmVars, BoardKept, PlainStep
<1>2. CASE pc' = "wait_idle"
  <2>1. ShapeOK(call)' /\ Cached(call.a)' /\ SamePadding'
    BY <1>1, <1>2, CheckedKept DEF PlainStep, RunInv, Established
  <2>. QED
    BY <1>1, <1>2, <2>1, GoOnInv DEF InJob
<1>3. CASE pc' = "caller"
  BY <1>1, <1>3, ReturnInv DEF InJob
<1>. QED
  BY <1>1, <1>2, <1>3

\* The wait for an idle accelerator times out only on a job that a fault left behind.
LEMMA WaitIdleInv == ASSUME RunInv, WaitIdle PROVE RunInv'
<1>1. /\ pc = "wait_idle" /\ PlainStep /\ g_weight_cache' = g_weight_cache
      /\ \/ pc' = "configure" /\ outcome' = outcome /\ status # "busy"
         \/ pc' = "caller" /\ status = "busy"
  BY DEF WaitIdle, Goto, Return, callVars, cacheVars, gemmVars, BoardKept, PlainStep
<1>2. CASE pc' = "configure"
  <2>1. ShapeOK(call)' /\ Cached(call.a)' /\ SamePadding'
    BY <1>1, <1>2, CheckedKept DEF PlainStep, RunInv, Established
  <2>. QED
    BY <1>1, <1>2, <2>1, GoOnInv DEF InJob
<1>3. CASE pc' = "caller"
  <2>1. fault # NoFault
    BY <1>1, <1>3 DEF RunInv, QuietOutsideJobs, InJob
  <2>. QED
    BY <1>1, <1>3, <2>1, ReturnInv DEF InJob
<1>. QED
  BY <1>1, <1>2, <1>3

-----------------------------------------------------------------------------
(* Steps of the caller in its job.                                         *)

LEMMA ConfigureInv == ASSUME CacheInv, RunInv, Configure PROVE RunInv'
<1>1. /\ ~InJob /\ status # "busy" /\ pc = "configure"
      /\ sent = [ch \in Inputs |-> 0] /\ received = 0
      /\ \A ch \in Channels : dma[ch].state # "running"
      /\ job <= calls /\ outcome = "none" /\ g_ready
      /\ ShapeOK(call) /\ Cached(call.a) /\ SamePadding
  BY DEF Configure, InJob, RunInv, Established, JobStates, QuietOutsideJobs
<1>2. /\ status' = "idle" /\ UNCHANGED <<job, sent, received, config, dma, g_weight_cache>>
      /\ UNCHANGED <<call, calls, g_ready, ok, saw_busy>> /\ step' = 1
      /\ regs' = Registers(call)
      /\ \/ pc' = "start" /\ UNCHANGED <<outcome, fault>>
         \/ pc' = "caller" /\ outcome' = "hardware" /\ UNCHANGED fault
            /\ ~(regs' = [m |-> call.m, k |-> call.k, n |-> call.n])
         \/ pc' = "caller" /\ outcome' = "hardware" /\ fault = NoFault
            /\ fault' = [kind |-> "readback", ch |-> "feature"]
  BY <1>1 DEF Configure, Gemm!ClearDone, Goto, Return, Strikes, callVars, cacheVars, RunInv,
              RunTypes
<1>3. regs' = Shape
  <2>1. /\ call.m \in Nat /\ call.k \in Nat /\ call.n \in Nat
        /\ call.m < RowLimit /\ call.k < BlockLimit /\ call.n < BlockLimit
    BY <1>1, RequestTypes DEF RunInv, RunTypes, ShapeOK
  <2>2. \A x \in Nat, y \in Nat \ {0} : x < y => x % y = x
    OBVIOUS
  <2>3. RowLimit \in Nat \ {0} /\ BlockLimit \in Nat \ {0}
    BY RuntimeAssumption
  <2>. QED
    BY <1>2, <2>1, <2>2, <2>3 DEF Registers, Shape
<1>4. \/ pc' = "start" /\ UNCHANGED <<outcome, fault>>
      \/ pc' = "caller" /\ outcome' = "hardware" /\ fault = NoFault /\ fault' # NoFault
  BY <1>2, <1>3 DEF Shape, NoFault
<1>5. RunTypes'
  <2>1. pc' \in Labels /\ step' \in 1..3
    BY <1>2, <1>4 DEF Labels
  <2>. QED
    BY <1>2, <2>1 DEF RunInv, RunTypes
<1>6. Established'
  <2>1. ShapeOK(call)' /\ Cached(call.a)' /\ SamePadding'
    BY <1>1, <1>2, CheckedKept
  <2>. QED
    BY <1>1, <1>2, <1>4, <2>1 DEF Established
<1>7. ChannelStates'
  <2>1. fault = NoFault => \A ch \in Channels : dma[ch].state \notin Dead
    BY HealthyChannels DEF RunInv
  <2>2. fault' = fault \/ fault = NoFault
    BY <1>4
  <2>. QED
    BY <1>2, <2>1, <2>2 DEF RunInv, ChannelStates
<1>8. JobStates'
  BY <1>1, <1>2, <1>5 DEF RunInv, RunTypes, JobStates
<1>9. QuietOutsideJobs'
  BY <1>1, <1>2 DEF QuietOutsideJobs
<1>10. CASE pc' = "start"
  <2>1. InJob'
    BY <1>10 DEF InJob
  <2>2. \A ch \in Channels : StartBeats(ch)' \in Nat \ {0}
    <3>1. \A ch \in Channels : StartBeats(ch) \in Nat \ {0}
      BY <1>1, CheckedBeats DEF Channels, RunInv
    <3>. QED
      BY <1>2, <3>1 DEF StartBeats, we, FeatureBeats, ResultBeats
  <2>3. \A ch \in Channels : Progress(ch)'
    <3>1. \A ch \in Channels : ~Started(ch)' /\ Moved(ch)' = 0
      BY <1>1, <1>2, <1>10 DEF Started, Moved, Channels, Inputs
    <3>. QED
      BY <1>1, <1>2, <2>2, <3>1 DEF Progress
  <2>4. Shape' = Shape
    BY <1>2 DEF Shape
  <2>5. JobInv'
    BY <1>1, <1>2, <1>3, <2>2, <2>3, <2>4 DEF JobInv, Channels
  <2>6. WaitInv' /\ HealthyRunsDeliver'
    BY <1>1, <1>4, <1>10 DEF WaitInv, HealthyRunsDeliver
  <2>. QED
    BY <1>5, <1>6, <1>7, <1>8, <1>9, <2>5, <2>6 DEF RunInv
<1>11. CASE pc' = "caller"
  <2>1. JobInv' /\ WaitInv' /\ HealthyRunsDeliver'
    BY <1>4, <1>11 DEF JobInv, WaitInv, InJob, HealthyRunsDeliver
  <2>. QED
    BY <1>5, <1>6, <1>7, <1>8, <1>9, <2>1 DEF RunInv
<1>. QED
  BY <1>4, <1>10, <1>11

\* A start of a stopped channel begins the transfer, that of a dead one does nothing.
LEMMA StartEffect ==
  ASSUME NEW d \in Transfers, d.state # "running", NEW addr \in Nat, NEW beats \in Nat,
         NEW e \in AfterStart(d, addr, beats)
  PROVE  /\ e \in Transfers /\ ~e.ioc
         /\ \/ e.state = "running" /\ e.addr = addr /\ e.left = beats /\ d.state \notin Dead
            \/ d.state \in Dead /\ e.state = d.state
<1>. DEFINE started == [state |-> "running", ioc |-> FALSE, addr |-> addr, left |-> beats]
            cleared == [d EXCEPT !.ioc = FALSE]
<1>1. started \in Transfers /\ cleared \in Transfers /\ ~started.ioc /\ ~cleared.ioc
  BY DEF Transfers, States
<1>2. cleared.state = d.state
  BY DEF Transfers
<1>3. started.state = "running" /\ started.addr = addr /\ started.left = beats
  OBVIOUS
<1>4. DoneAfterStart(d) = FALSE
  BY DEF DoneAfterStart
<1>5. CASE d.state \in {"halted", "idle"}
  <2>1. e = started
    BY <1>4, <1>5 DEF AfterStart
  <2>. QED
    BY <1>1, <1>3, <1>5, <2>1 DEF Dead
<1>6. CASE d.state \in Dead
  <2>1. e = cleared
    BY <1>4, <1>6 DEF AfterStart, Dead
  <2>. QED
    BY <1>1, <1>2, <1>6, <2>1
<1>7. d.state \in {"halted", "idle"} \/ d.state \in Dead
  BY DEF Transfers, States, Dead
<1>. QED
  BY <1>5, <1>6, <1>7

LEMMA StartChannelInv == ASSUME CacheInv, RunInv, StartChannel PROVE RunInv'
<1>. DEFINE ch == StartOrder[step]
<1>1. /\ pc = "start" /\ ok' = TRUE /\ saw_busy' = FALSE
      /\ UNCHANGED <<call, calls, outcome, g_ready, g_weight_cache, regs, fault>>
      /\ UNCHANGED <<config, job, sent, received, status>>
      /\ \/ step < 3 /\ step' = step + 1 /\ pc' = "start"
         \/ ~(step < 3) /\ step' = 1 /\ pc' = "wait"
  BY DEF StartChannel, NextChannel, Goto, callVars, cacheVars, gemmVars
<1>2. step \in 1..3 /\ ch \in Channels
  BY DEF RunInv, RunTypes, StartOrder, Channels
<1>3. InJob /\ InJob'
  BY <1>1 DEF InJob
<1>4. /\ ~Started(ch) /\ \A c \in Channels : Started(c)' <=> (Started(c) \/ c = ch)
  BY <1>1, <1>2 DEF Started, StartOrder, Channels
<1>5. /\ dma[ch].state # "running" /\ status # "done" /\ Moved(ch) = 0
  BY <1>2, <1>3, <1>4 DEF RunInv, JobInv, Progress
<1>6. PICK d \in AfterStart(dma[ch], StartAddr(ch), StartBeats(ch)) : dma' = [dma EXCEPT ![ch] = d]
  BY DEF StartChannel
<1>7. StartAddr(ch) \in Nat /\ StartBeats(ch) \in Nat \ {0} /\ dma[ch] \in Transfers
      /\ dma \in [Channels -> Transfers]
  BY <1>2, <1>3, StartAddrType, StartBeatsOK DEF RunInv, RunTypes, Channels
<1>. HIDE DEF ch
<1>8. /\ dma' \in [Channels -> Transfers] /\ ~dma'[ch].ioc
      /\ \/ /\ dma'[ch].state = "running" /\ dma'[ch].addr = StartAddr(ch)
            /\ dma'[ch].left = StartBeats(ch)
         \/ dma[ch].state \in Dead /\ dma'[ch].state = dma[ch].state
      /\ \A c \in Channels \ {ch} : dma'[c] = dma[c]
  BY <1>2, <1>5, <1>6, <1>7, StartEffect
<1>9. RunTypes'
  <2>1. (step < 3 /\ step' = step + 1) \/ step' = 1
    BY <1>1
  <2>2. step' \in 1..3
    BY <1>2, <2>1
  <2>3. pc' \in Labels
    BY <1>1 DEF Labels
  <2>. QED
    BY <1>1, <1>8, <2>2, <2>3 DEF RunInv, RunTypes
<1>10. Established'
  <2>1. ShapeOK(call)' /\ Cached(call.a)' /\ SamePadding'
    BY <1>1, CheckedKept DEF RunInv, Established, InJob
  <2>. QED
    BY <1>1, <2>1 DEF RunInv, Established, InJob
<1>11. ChannelStates'
  <2>1. "running" \notin Dead
    BY DEF Dead
  <2>. QED
    BY <1>1, <1>2, <1>8, <2>1 DEF RunInv, ChannelStates
<1>12. JobStates'
  <2>1. job <= calls
    BY <1>1, <1>5 DEF RunInv, JobStates
  <2>. QED
    BY <1>1, <1>3, <2>1 DEF RunInv, JobStates
<1>13. QuietOutsideJobs'
  BY <1>3 DEF QuietOutsideJobs
<1>14. JobInv'
  <2>1. ASSUME NEW c \in Channels PROVE Progress(c)'
    <3>1. Progress(c)
      BY <1>3 DEF RunInv, JobInv
    <3>2. /\ StartBeats(c)' = StartBeats(c) /\ StartAddr(c)' = StartAddr(c)
          /\ Moved(c)' = Moved(c)
      BY <1>1 DEF StartBeats, StartAddr, Moved, we, FeatureBeats, ResultBeats
    <3>3. CASE c = ch
      <4>1. Started(c)' /\ status' # "done" /\ Moved(c)' = 0
        BY <1>1, <1>4, <1>5, <3>2, <3>3
      <4>2. dma'[c].state \notin Dead =>
              /\ dma'[c].state = "running"
              /\ dma'[c].addr = StartAddr(c) + 0 /\ dma'[c].left = StartBeats(c) - 0
        BY <1>7, <1>8, <3>3
      <4>. QED
        BY <1>7, <3>2, <3>3, <4>1, <4>2 DEF Progress
    <3>4. CASE c # ch
      BY <1>1, <1>4, <1>8, <3>1, <3>2, <3>4 DEF Progress
    <3>. QED
      BY <3>3, <3>4
  <2>2. Shape' = Shape /\ StartBeats("result")' = StartBeats("result")
    BY <1>1 DEF Shape, StartBeats, ResultBeats
  <2>. QED
    BY <1>1, <1>3, <2>1, <2>2 DEF RunInv, JobInv
<1>15. WaitInv'
  BY <1>1 DEF WaitInv
<1>16. HealthyRunsDeliver'
  BY <1>1 DEF RunInv, HealthyRunsDeliver
<1>. QED
  BY <1>9, <1>10, <1>11, <1>12, <1>13, <1>14, <1>15, <1>16 DEF RunInv

\* What one wait, of channel d, may conclude.
LEMMA PollEffect ==
  ASSUME RunInv, Poll
  PROVE  LET ch == WaitOrder[step] IN
         /\ pc = "wait" /\ pc' \in {"wait", "waited"}
         /\ \/ UNCHANGED <<pc, step, ok>>
            \/ /\ \/ step < 3 /\ step' = step + 1 /\ pc' = "wait"
                  \/ ~(step < 3) /\ step' = 1 /\ pc' = "waited"
               /\ dma[ch].state # "running" \/ HardwareAtRest
               /\ \/ ok' = ok /\ dma[ch].state = "idle"
                  \/ ok' = FALSE /\ fault # NoFault
<1>. DEFINE ch == WaitOrder[step]
<1>1. pc = "wait" /\ step \in 1..3 /\ ch \in Channels
  BY DEF Poll, RunInv, RunTypes, WaitOrder, Channels
<1>2. ASSUME NEW success \in BOOLEAN, Waited(success)
      PROVE  /\ ok' = (ok /\ success) /\ pc' \in {"wait", "waited"}
             /\ \/ step < 3 /\ step' = step + 1 /\ pc' = "wait"
                \/ ~(step < 3) /\ step' = 1 /\ pc' = "waited"
  BY <1>1, <1>2 DEF Waited, NextChannel, Goto
<1>3. ok \in BOOLEAN
  BY DEF RunInv, RunTypes
<1>. HIDE DEF ch
<1>4. CASE dma[ch].state = "error" /\ Waited(FALSE)
  <2>1. fault # NoFault /\ dma[ch].state # "running"
    BY <1>1, <1>4, HealthyChannels DEF RunInv, Dead
  <2>2. ok' = FALSE
    BY <1>2, <1>4
  <2>. QED
    BY <1>1, <1>2, <1>4, <2>1, <2>2 DEF ch
<1>5. CASE (dma[ch].ioc \/ (dma[ch].state = "idle" /\ saw_busy)) /\ Waited(TRUE)
  <2>1. dma[ch].state = "idle"
    BY <1>1, <1>5 DEF RunInv, ChannelStates
  <2>2. ok' = ok
    BY <1>2, <1>3, <1>5
  <2>. QED
    BY <1>1, <1>2, <1>5, <2>1, <2>2 DEF ch
<1>6. CASE UNCHANGED <<pc, step, ok>>
  BY <1>1, <1>6
<1>7. CASE ~dma[ch].ioc /\ TimesOut /\ Waited(FALSE)
  <2>1. HardwareAtRest
    BY <1>7 DEF TimesOut
  <2>2. fault # NoFault
    BY <1>1, <1>7, <2>1, RestInJob
  <2>3. ok' = FALSE
    BY <1>2, <1>7
  <2>. QED
    BY <1>1, <1>2, <1>7, <2>1, <2>2, <2>3 DEF ch
<1>. QED
  BY <1>4, <1>5, <1>6, <1>7 DEF Poll, ch

LEMMA PollInv == ASSUME RunInv, Poll PROVE RunInv'
<1>. DEFINE ch == WaitOrder[step]
<1>1. /\ UNCHANGED <<call, calls, outcome, g_ready, g_weight_cache, regs, dma, fault>>
      /\ UNCHANGED <<config, loaded, job, sent, received, status>>
      /\ saw_busy' \in BOOLEAN
  BY DEF Poll, Waited, callVars, cacheVars, gemmVars, RunInv, RunTypes
<1>2. /\ pc = "wait" /\ pc' \in {"wait", "waited"}
      /\ \/ UNCHANGED <<pc, step, ok>>
         \/ /\ \/ step < 3 /\ step' = step + 1 /\ pc' = "wait"
               \/ ~(step < 3) /\ step' = 1 /\ pc' = "waited"
            /\ dma[ch].state # "running" \/ HardwareAtRest
            /\ \/ ok' = ok /\ dma[ch].state = "idle"
               \/ ok' = FALSE /\ fault # NoFault
  BY PollEffect
<1>3. InJob /\ InJob' /\ \A c \in Channels : Started(c) /\ Started(c)'
  BY <1>2 DEF InJob, Started
<1>4. step \in 1..3 /\ ok \in BOOLEAN
  BY DEF RunInv, RunTypes
<1>. HIDE DEF ch
<1>5. RunTypes'
  <2>1. UNCHANGED <<pc, step, ok>> \/ (step < 3 /\ step' = step + 1) \/ step' = 1
    BY <1>2
  <2>2. step' \in 1..3
    BY <1>4, <2>1
  <2>3. ok' = ok \/ ok' = FALSE
    BY <1>2
  <2>4. pc' \in Labels
    BY <1>2 DEF Labels
  <2>. QED
    BY <1>1, <1>4, <2>2, <2>3, <2>4 DEF RunInv, RunTypes
<1>6. Established'
  <2>1. ShapeOK(call)' /\ Cached(call.a)' /\ SamePadding'
    <3>1. ShapeOK(call) /\ Cached(call.a) /\ SamePadding
      <4>1. pc = "wait"
        BY <1>2
      <4>. QED
        BY <4>1 DEF RunInv, Established, InJob
    <3>. QED
      BY <1>1, <3>1, CheckedKept
  <2>. QED
    BY <1>1, <1>2, <2>1 DEF RunInv, Established
<1>7. ChannelStates'
  BY <1>1 DEF RunInv, ChannelStates
<1>8. JobStates'
  BY <1>1, <1>2, <1>3 DEF RunInv, JobStates
<1>9. QuietOutsideJobs'
  BY <1>3 DEF QuietOutsideJobs
<1>10. JobInv'
  <2>1. ASSUME NEW c \in Channels PROVE Progress(c)'
    <3>1. Progress(c) /\ Started(c) /\ Started(c)'
      BY <1>3 DEF RunInv, JobInv
    <3>2. /\ StartBeats(c)' = StartBeats(c) /\ StartAddr(c)' = StartAddr(c)
          /\ Moved(c)' = Moved(c)
      BY <1>1 DEF StartBeats, StartAddr, Moved, we, FeatureBeats, ResultBeats
    <3>. QED
      BY <1>1, <3>1, <3>2 DEF Progress
  <2>2. Shape' = Shape /\ StartBeats("result")' = StartBeats("result")
    BY <1>1 DEF Shape, StartBeats, ResultBeats
  <2>. QED
    BY <1>1, <1>3, <2>1, <2>2 DEF RunInv, JobInv
<1>11. WaitInv'
  <2>1. HardwareAtRest' <=> HardwareAtRest
    <3>1. Gemm!Loaded' <=> Gemm!Loaded
      BY <1>1 DEF Gemm!Loaded, JobConfig
    <3>. QED
      BY <1>1, <3>1 DEF HardwareAtRest, CanFeed, CanComplete, CanDeliver, JobConfig
  <2>2. WaitInv
    BY DEF RunInv
  <2>3. CASE UNCHANGED <<pc, step, ok>>
    BY <1>1, <1>2, <2>1, <2>2, <2>3 DEF WaitInv
  <2>4. CASE step < 3 /\ step' = step + 1 /\ pc' = "wait" /\ ~UNCHANGED <<pc, step, ok>>
    <3>1. \A i \in 1..step'-1 : i \in 1..step-1 \/ i = step
      BY <1>4, <2>4
    <3>. QED
      BY <1>1, <1>2, <2>1, <2>2, <2>4, <3>1 DEF WaitInv, ch
  <2>5. CASE ~(step < 3) /\ pc' = "waited" /\ ~UNCHANGED <<pc, step, ok>>
    <3>1. \A c \in Channels : c = ch \/ \E i \in 1..step-1 : c = WaitOrder[i]
      <4>1. step = 3
        BY <1>4, <2>5
      <4>2. 1 \in 1..step-1 /\ 2 \in 1..step-1
        BY <4>1
      <4>. QED
        BY <4>1, <4>2 DEF ch, WaitOrder, Channels
    <3>. QED
      BY <1>1, <1>2, <2>1, <2>2, <2>5, <3>1 DEF WaitInv
  <2>. QED
    BY <1>2, <2>3, <2>4, <2>5
<1>12. HealthyRunsDeliver'
  BY <1>1 DEF RunInv, HealthyRunsDeliver
<1>. QED
  BY <1>5, <1>6, <1>7, <1>8, <1>9, <1>10, <1>11, <1>12 DEF RunInv

\* After the waits the board is quiet, and after three good ones the job is done.
LEMMA QuietAfterWaits ==
  ASSUME RunInv, pc = "waited"
  PROVE  /\ status # "busy" => \A ch \in Channels : dma[ch].state # "running"
         /\ status = "busy" => HardwareAtRest /\ fault # NoFault
         /\ ok => status = "done"
<1>1. \A ch \in Channels : dma[ch].state # "running" \/ HardwareAtRest
  BY DEF RunInv, WaitInv
<1>2. ok => status = "done"
  <2>. SUFFICES ASSUME ok, status # "done" PROVE FALSE
    OBVIOUS
  <2>1. dma["result"].state = "idle" /\ Progress("result") /\ received < StartBeats("result")
        /\ Started("result")
    BY DEF RunInv, WaitInv, JobInv, InJob, Channels, Started
  <2>2. StartBeats("result") - received = 0
    BY <2>1 DEF Progress, Moved, Dead
  <2>3. StartBeats("result") \in Nat /\ received \in Nat
    BY StartBeatsOK DEF RunInv, RunTypes, InJob
  <2>. QED
    BY <2>1, <2>2, <2>3
<1>3. CASE HardwareAtRest
  <2>1. status # "busy" => \A ch \in Channels : dma[ch].state # "running"
    BY <1>3, RestInJob
  <2>2. status = "busy" => fault # NoFault
    BY <1>3, RestInJob
  <2>. QED
    BY <1>2, <1>3, <2>1, <2>2
<1>4. CASE ~HardwareAtRest
  <2>1. \A ch \in Channels : dma[ch].state # "running"
    BY <1>1, <1>4
  <2>2. HardwareAtRest
    BY <2>1 DEF HardwareAtRest, CanFeed, CanComplete, CanDeliver, Channels
  <2>. QED
    BY <1>4, <2>2
<1>. QED
  BY <1>3, <1>4

LEMMA UnpackInv == ASSUME RunInv, Unpack PROVE RunInv'
<1>1. /\ pc = "waited" /\ pc' = "caller" /\ step' = 1
      /\ UNCHANGED <<call, calls, g_ready, ok, saw_busy, regs, dma, fault>>
      /\ UNCHANGED <<config, loaded, job, sent, received, status>>
      /\ outcome' = IF ok THEN "product" ELSE "hardware"
  BY DEF Unpack, Return, Goto, gemmVars, RunInv, RunTypes
<1>2. RunTypes'
  BY <1>1 DEF RunInv, RunTypes, Labels
<1>3. Established'
  BY <1>1 DEF Established, InJob
<1>4. ChannelStates'
  BY <1>1 DEF RunInv, ChannelStates
<1>5. JobStates'
  BY <1>1 DEF RunInv, JobStates
<1>6. QuietOutsideJobs'
  <2>1. HardwareAtRest => HardwareAtRest'
    BY <1>1, RestKept
  <2>. QED
    BY <1>1, <2>1, QuietAfterWaits DEF QuietOutsideJobs
<1>7. JobInv' /\ WaitInv'
  BY <1>1 DEF JobInv, WaitInv, InJob
<1>8. HealthyRunsDeliver'
  BY <1>1 DEF RunInv, WaitInv, HealthyRunsDeliver
<1>. QED
  BY <1>2, <1>3, <1>4, <1>5, <1>6, <1>7, <1>8 DEF RunInv

-----------------------------------------------------------------------------
(* The invariant of the run.                                               *)

LEMMA RunInvInit == Init => RunInv
<1>. SUFFICES ASSUME Init PROVE RunInv
  OBVIOUS
<1>1. /\ pc = "caller" /\ step = 1 /\ call \in PaddedRequests /\ calls = 0
      /\ outcome = "none" /\ g_ready = FALSE /\ ok = TRUE /\ saw_busy = FALSE
      /\ fault = NoFault /\ job = 1 /\ sent = [ch \in Inputs |-> 0] /\ received = 0
      /\ status = "idle"
  BY InputsOfService DEF Init, Gemm!Init
<1>2. Halted \in Transfers /\ Halted.state = "halted" /\ ~Halted.ioc
  BY DEF Halted, Transfers, States
<1>3. dma \in [Channels -> Transfers]
      /\ \A ch \in Channels : dma[ch].state = "halted" /\ ~dma[ch].ioc
  BY <1>2 DEF Init
<1>4. ~InJob
  BY <1>1 DEF InJob
<1>5. RunTypes
  <2>1. pc \in Labels /\ step \in 1..3 /\ calls \in 0..MaxCalls
    BY <1>1, RuntimeAssumption DEF Labels
  <2>2. sent \in [Inputs -> Nat]
    BY <1>1
  <2>3. job \in Nat \ {0} /\ received \in Nat /\ status \in {"idle", "busy", "done"}
    BY <1>1
  <2>4. g_ready \in BOOLEAN /\ ok \in BOOLEAN /\ saw_busy \in BOOLEAN
    BY <1>1
  <2>5. call \in PaddedRequests /\ dma \in [Channels -> Transfers]
    BY <1>1, <1>3
  <2>. QED
    BY <2>1, <2>2, <2>3, <2>4, <2>5 DEF RunTypes
<1>6. Established
  BY <1>1, <1>4 DEF Established
<1>7. ChannelStates
  BY <1>3 DEF ChannelStates, Dead
<1>8. JobStates
  BY <1>1 DEF JobStates
<1>9. QuietOutsideJobs
  BY <1>1, <1>3 DEF QuietOutsideJobs
<1>10. JobInv /\ WaitInv /\ HealthyRunsDeliver
  BY <1>1, <1>4 DEF JobInv, WaitInv, HealthyRunsDeliver
<1>. QED
  BY <1>5, <1>6, <1>7, <1>8, <1>9, <1>10 DEF RunInv

LEMMA RunInvStutter == RunInv /\ UNCHANGED vars => RunInv'
<1>. SUFFICES ASSUME RunInv, UNCHANGED vars PROVE RunInv'
  OBVIOUS
<1>1. CallerKept /\ UNCHANGED <<config, loaded, job, sent, received, status, dma, fault>>
  BY DEF vars, callVars, cacheVars, gemmVars, CallerKept
<1>2. RunTypes' /\ Established' /\ ChannelStates'
  BY <1>1, EstablishedKept DEF RunInv, RunTypes, ChannelStates, CallerKept
<1>3. JobStates'
  BY <1>1, CallKept DEF RunInv, JobStates, CallerKept
<1>4. HardwareAtRest' <=> HardwareAtRest
  <2>1. (Gemm!Loaded' <=> Gemm!Loaded) /\ regs' = regs
    BY <1>1 DEF Gemm!Loaded, JobConfig, CallerKept
  <2>. QED
    BY <1>1, <2>1 DEF HardwareAtRest, CanFeed, CanComplete, CanDeliver, JobConfig
<1>5. QuietOutsideJobs'
  BY <1>1, <1>4, CallKept DEF RunInv, QuietOutsideJobs
<1>6. JobInv'
  <2>1. ASSUME NEW c \in Channels, Progress(c) PROVE Progress(c)'
    <3>1. /\ StartBeats(c)' = StartBeats(c) /\ StartAddr(c)' = StartAddr(c)
          /\ (Started(c)' <=> Started(c)) /\ Moved(c)' = Moved(c)
      BY <1>1, CallKept DEF Moved
    <3>. QED
      BY <1>1, <2>1, <3>1 DEF Progress
  <2>2. StartBeats("result")' = StartBeats("result") /\ regs' = regs /\ Shape' = Shape
        /\ (InJob' <=> InJob)
    BY <1>1, CallKept DEF CallerKept, Channels
  <2>. QED
    BY <1>1, <2>1, <2>2 DEF RunInv, JobInv
<1>7. WaitInv'
  BY <1>1, <1>2, <1>4, WaitKept DEF RunInv, RunTypes
<1>8. HealthyRunsDeliver'
  BY <1>1 DEF RunInv, HealthyRunsDeliver, CallerKept
<1>. QED
  BY <1>2, <1>3, <1>5, <1>6, <1>7, <1>8 DEF RunInv

LEMMA RunInvStep == CacheInv /\ RunInv /\ [Next]_vars => RunInv'
<1>. SUFFICES ASSUME CacheInv, RunInv, [Next]_vars PROVE RunInv'
  OBVIOUS
<1>1. CASE Caller
  BY <1>1, OpenAndMapInv, ResetChannelInv, CheckShapeInv, PackInv, WeightFailsInv,
     CacheWeightInv, FindWeightInv, CheckPaddingInv, WaitIdleInv, ConfigureInv,
     StartChannelInv, PollInv, UnpackInv DEF Caller
<1>2. CASE Board
  BY <1>2, FeedInv, DeliverInv, CompleteInv DEF Board, Inputs
<1>3. CASE Environment
  BY <1>3, CallInv, BetweenCallsInv, FaultInv DEF Environment, Dead
<1>4. CASE UNCHANGED vars
  BY <1>4, RunInvStutter
<1>. QED
  BY <1>1, <1>2, <1>3, <1>4 DEF Next

LEMMA RunInvAlways == Spec => [](CacheInv /\ RunInv)
<1>1. Init => CacheInv /\ RunInv
  BY CacheInvInit, RunInvInit DEF Init
<1>2. CacheInv /\ RunInv /\ [Next]_vars => (CacheInv /\ RunInv)'
  <2>1. CacheInv /\ RunInv /\ [Next]_vars => CacheInv'
    BY CacheInvStep, StepIsCacheStep DEF RunInv, RunTypes
  <2>. QED
    BY <2>1, RunInvStep
<1>. QED
  BY <1>1, <1>2, PTL DEF Spec

(* ChannelsFreeAtStart for every pool, window, set of faults and set of    *)
(* requests of two rows or more (RowsAssumption), with any number of       *)
(* calls, failed ones among them: a transfer is started on stopped         *)
(* channels only (dma_s2mm_start, dma_mm2s_start).                         *)
THEOREM StartsAreSafe == Spec => []ChannelsFreeAtStart
<1>1. RunInv => ChannelsFreeAtStart
  <2>. SUFFICES ASSUME RunInv, pc = "start", NEW i \in step..3
                PROVE  dma[StartOrder[i]].state # "running"
    BY DEF ChannelsFreeAtStart
  <2>1. step \in 1..3
    BY DEF RunInv, RunTypes
  <2>2. i \in 1..3 /\ StartOrder[i] \in Channels
    BY <2>1 DEF StartOrder, Channels
  <2>3. ~Started(StartOrder[i])
    BY <2>1, <2>2 DEF Started, StartOrder
  <2>. QED
    BY <2>2, <2>3 DEF RunInv, JobInv, InJob, Progress
<1>. QED
  BY <1>1, RunInvAlways, PTL

(* HealthyRunsDeliver for the same: as long as every request has two rows  *)
(* or more (RowsAssumption) and no fault strikes, no wait of               *)
(* gemm_wait_idle or dma_wait_done times out, and every register reads     *)
(* back what gemm_configure wrote.  It says nothing of a board that was    *)
(* asked for a single row: MCGemmJobsSingleRow shows what such a job does. *)
THEOREM HealthyBoardDelivers == Spec => []HealthyRunsDeliver
<1>1. RunInv => HealthyRunsDeliver
  BY DEF RunInv
<1>. QED
  BY <1>1, RunInvAlways, PTL

-----------------------------------------------------------------------------
(* The data of a call keep their values while the call and memory do.      *)

WeightsKept == UNCHANGED <<tensors, g_weight_cache, ddr_wght>>
DataKept == WeightsKept /\ UNCHANGED <<ddr_feat, ddr_rslt, loaded, call, t_call, calls, C>>

LEMMA OwnKept ==
  ASSUME UNCHANGED <<call, t_call, calls>>
  PROVE  \A i : /\ OwnFeatures(i)' = OwnFeatures(i) /\ OwnWeights(i)' = OwnWeights(i)
                /\ OwnBeat(i)' = OwnBeat(i)
  BY DEF OwnFeatures, OwnWeights, OwnBeat, FeatureBeat, PackedBeat, FeatureBeats, WeightBeats,
         Product

LEMMA OwnProductKept ==
  ASSUME UNCHANGED <<call, t_call, calls>>
  PROVE  OwnProduct' = OwnProduct
<1>1. /\ call.m' = call.m /\ call.N' = call.N /\ <<t_call, call.K, call.N>>' = <<t_call, call.K, call.N>>
  OBVIOUS
<1>2. ASSUME NEW x
      PROVE  /\ BeatOf(x)' = BeatOf(x) /\ LaneOf(x)' = LaneOf(x)
             /\ OwnBeat(BeatOf(x))' = OwnBeat(BeatOf(x))
  BY OwnKept DEF BeatOf, LaneOf, OwnBeat, Product, PackedBeat, FeatureBeat, FeatureBeats,
                 WeightBeats
<1>. QED
  BY <1>1, <1>2 DEF OwnProduct

LEMMA WeightsCurrentKept ==
  ASSUME WeightsCurrent, WeightsKept, ~g_ready' => ~g_ready
  PROVE  WeightsCurrent'
<1>1. \A a \in Addresses : /\ Cached(a)' <=> Cached(a)
                           /\ g_weight_cache'[a] = g_weight_cache[a]
                           /\ tensors'[a] = tensors[a]
  BY DEF WeightsKept, Cached
<1>2. ddr_wght' = ddr_wght
  BY DEF WeightsKept
<1>. QED
  BY <1>1, <1>2 DEF WeightsCurrent

\* Steps between jobs that keep the data.
LEMMA QuietData ==
  ASSUME RunInv, DataInv, DataKept, ~InJob', g_ready' = g_ready,
         status' # "busy" => status # "busy",
         pc' = "caller" \/ pc # "caller",
         pc' \in {"weight", "padding", "wait_idle", "configure"} =>
           pc \in {"weight", "padding", "wait_idle", "configure"},
         outcome' = outcome \/ (outcome # "product" /\ outcome' # "product")
  PROVE  DataInv'
<1>1. WeightsCurrent'
  BY WeightsCurrentKept DEF DataInv, DataKept
<1>2. OperandsInMemory'
  BY OwnKept DEF DataInv, DataKept, WeightsKept, OperandsInMemory, InJob, FeatureBeats
<1>3. Loading' /\ Delivered'
  BY DEF DataInv, DataKept, Loading, Delivered
<1>4. ProductIsOwn'
  <2>1. OwnProduct' = OwnProduct
    BY OwnProductKept DEF DataKept
  <2>2. C' = C /\ ProductIsOwn /\ NoOutput' = NoOutput
    BY DEF DataKept, DataInv, NoOutput
  <2>. QED
    BY <2>1, <2>2 DEF ProductIsOwn
<1>. QED
  BY <1>1, <1>2, <1>3, <1>4 DEF DataInv

LEMMA StraightData ==
  ASSUME RunInv, DataInv,
         \/ OpenAndMap \/ CheckShape \/ WeightFails \/ FindWeight \/ CheckPadding \/ WaitIdle
         \/ Configure /\ pc' = "caller"
  PROVE  DataInv'
<1>1. /\ DataKept /\ g_ready' = g_ready
      /\ pc \notin {"caller", "start", "wait", "waited", "pack"}
      /\ pc' \in {"caller", "reset", "pack", "padding", "wait_idle", "configure"}
      /\ outcome' = outcome \/ outcome' \in {"not_ready", "refused", "hardware"}
      /\ pc' \in {"weight", "padding", "wait_idle", "configure"} =>
           pc \in {"weight", "padding", "wait_idle", "configure"}
      /\ status' # "busy" => status # "busy"
  <2>1. CASE OpenAndMap
    BY <2>1 DEF OpenAndMap, Goto, Return, callVars, cacheVars, memVars, gemmVars, DataKept,
                WeightsKept
  <2>2. CASE CheckShape
    BY <2>2 DEF CheckShape, Goto, Return, callVars, cacheVars, memVars, gemmVars, DataKept,
                WeightsKept
  <2>3. CASE WeightFails
    BY <2>3 DEF WeightFails, Goto, Return, callVars, cacheVars, memVars, gemmVars, DataKept,
                WeightsKept
  <2>4. CASE FindWeight
    BY <2>4 DEF FindWeight, Goto, Return, callVars, cacheVars, memVars, gemmVars, DataKept,
                WeightsKept
  <2>5. CASE CheckPadding
    BY <2>5 DEF CheckPadding, Goto, Return, callVars, cacheVars, memVars, gemmVars, DataKept,
                WeightsKept
  <2>6. CASE WaitIdle
    BY <2>6 DEF WaitIdle, Goto, Return, callVars, cacheVars, memVars, gemmVars, DataKept,
                WeightsKept
  <2>7. CASE Configure /\ pc' = "caller"
    BY <2>7 DEF Configure, Goto, Return, callVars, cacheVars, memVars, DataKept, WeightsKept,
                RunInv, Established
  <2>. QED
    BY <2>1, <2>2, <2>3, <2>4, <2>5, <2>6, <2>7
<1>2. outcome = "none"
  BY <1>1 DEF RunInv, Established
<1>3. ~InJob'
  BY <1>1 DEF InJob
<1>. QED
  BY <1>1, <1>2, <1>3, QuietData

LEMMA BetweenCallsData ==
  ASSUME RunInv, DataInv, ReloadAnytime = FALSE,
         \/ \E r \in Requests : Call(r)
         \/ Cleanup
         \/ \E a \in Addresses, t \in Tensors : Reload(a, t)
  PROVE  DataInv'
<1>1. ASSUME NEW r \in Requests, Call(r) PROVE DataInv'
  <2>1. /\ WeightsKept /\ UNCHANGED <<g_ready, ddr_feat, ddr_rslt, loaded, status>>
        /\ pc = "caller" /\ pc' \in {"checks", "open"} /\ call'.a = r.a /\ t_call' = tensors[r.a]
        /\ outcome' = "none" /\ C' = NoOutput
    BY <1>1 DEF Call, Goto, Padded, cacheVars, memVars, gemmVars, WeightsKept
  <2>2. ~InJob'
    BY <2>1 DEF InJob
  <2>3. WeightsCurrent'
    BY <2>1, WeightsCurrentKept DEF DataInv
  <2>4. OperandsInMemory'
    BY <2>1, <2>2 DEF DataInv, OperandsInMemory, WeightsKept
  <2>5. Loading' /\ Delivered' /\ ProductIsOwn'
    BY <2>1, <2>2 DEF DataInv, Loading, Delivered, ProductIsOwn, NoOutput
  <2>. QED
    BY <2>3, <2>4, <2>5 DEF DataInv
<1>2. ASSUME pc' = "caller", UNCHANGED <<ddr_feat, ddr_rslt, loaded, status, call, t_call,
                                         calls, outcome, C>>, WeightsCurrent'
      PROVE  DataInv'
  <2>1. ~InJob'
    BY <1>2 DEF InJob
  <2>2. OperandsInMemory' /\ Loading' /\ Delivered'
    BY <1>2, <2>1 DEF DataInv, OperandsInMemory, Loading, Delivered
  <2>3. ProductIsOwn'
    <3>1. OwnProduct' = OwnProduct
      BY <1>2, OwnProductKept
    <3>. QED
      BY <1>2, <3>1 DEF DataInv, ProductIsOwn, NoOutput
  <2>. QED
    BY <1>2, <2>2, <2>3 DEF DataInv
<1>3. CASE Cleanup
  <2>1. \A a \in Addresses : ~Cached(a)'
    BY <1>3 DEF Cleanup, ClearCache, Cached, NoEntry
  <2>. QED
    BY <1>2, <1>3, <2>1 DEF Cleanup, callVars, memVars, gemmVars, WeightsCurrent
<1>4. ASSUME NEW a \in Addresses, NEW t \in Tensors, Reload(a, t) PROVE DataInv'
  <2>1. ~g_ready /\ g_weight_cache' = g_weight_cache
    BY <1>4 DEF Reload, LoadTensor
  <2>2. \A b \in Addresses : ~Cached(b)'
    BY <2>1 DEF DataInv, WeightsCurrent, Cached
  <2>. QED
    BY <1>2, <1>4, <2>2 DEF Reload, callVars, memVars, gemmVars, WeightsCurrent
<1>. QED
  BY <1>1, <1>3, <1>4

LEMMA ResetChannelData == ASSUME RunInv, DataInv, ResetChannel PROVE DataInv'
<1>1. /\ UNCHANGED <<tensors, ddr_wght, ddr_feat, ddr_rslt, loaded, status>>
      /\ UNCHANGED <<call, t_call, calls, C>> /\ pc = "reset"
      /\ pc' \in {"reset", "checks", "caller"}
      /\ outcome' = outcome \/ outcome' = "not_ready"
      /\ \/ UNCHANGED <<g_weight_cache, g_ready>>
         \/ ClearCache
  BY DEF ResetChannel, NextChannel, Goto, Return, ResetPool, callVars, memVars, gemmVars
<1>2. WeightsCurrent'
  <2>1. CASE UNCHANGED <<g_weight_cache, g_ready>>
    BY <1>1, <2>1, WeightsCurrentKept DEF DataInv, WeightsKept
  <2>2. CASE ClearCache
    <3>1. \A a \in Addresses : ~Cached(a)'
      BY <2>2 DEF ClearCache, Cached, NoEntry
    <3>. QED
      BY <3>1 DEF WeightsCurrent
  <2>. QED
    BY <1>1, <2>1, <2>2
<1>3. ~InJob' /\ outcome = "none"
  BY <1>1 DEF InJob, RunInv, Established
<1>4. OperandsInMemory' /\ Loading' /\ Delivered'
  BY <1>1, <1>3 DEF DataInv, OperandsInMemory, Loading, Delivered
<1>5. ProductIsOwn'
  BY <1>1, <1>3 DEF DataInv, ProductIsOwn, NoOutput
<1>. QED
  BY <1>2, <1>4, <1>5 DEF DataInv

LEMMA PackData == ASSUME RunInv, DataInv, Pack PROVE DataInv'
<1>1. /\ WeightsKept /\ UNCHANGED <<g_ready, loaded, status, call, t_call, calls, C, outcome>>
      /\ pc = "pack" /\ pc' = "weight"
      /\ ddr_feat' = [x \in 0..WindowSize-1 |-> IF x < FeatureBeats(call)
                                                THEN FeatureBeat(calls, x) ELSE ddr_feat[x]]
      /\ DOMAIN ddr_rslt' = 0..WindowSize-1
  BY DEF Pack, Goto, callVars, cacheVars, memVars, gemmVars, WeightsKept
<1>2. ~InJob' /\ outcome = "none"
  BY <1>1 DEF InJob, RunInv, Established
<1>3. WeightsCurrent'
  BY <1>1, WeightsCurrentKept DEF DataInv
<1>4. \A i \in 0..FeatureBeats(call)-1 : ddr_feat'[i] = OwnFeatures(i)
  <2>1. FeatureBeats(call) \in Nat /\ WindowSize \in Nat /\ FeatureBeats(call) <= WindowSize
    BY <1>1, RequestTypes, RuntimeAssumption DEF RunInv, RunTypes, Established, ShapeOK, InJob
  <2>. QED
    BY <1>1, <2>1 DEF OwnFeatures
<1>5. OperandsInMemory'
  <2>1. FeatureBeats(call)' = FeatureBeats(call) /\ \A i : OwnFeatures(i)' = OwnFeatures(i)
    BY <1>1, OwnKept DEF FeatureBeats
  <2>2. t_call' = tensors'[call'.a]
    BY <1>1 DEF DataInv, OperandsInMemory, WeightsKept
  <2>. QED
    BY <1>1, <1>4, <2>1, <2>2 DEF OperandsInMemory
<1>6. Loading' /\ Delivered' /\ ProductIsOwn'
  BY <1>1, <1>2 DEF DataInv, Loading, Delivered, ProductIsOwn, NoOutput
<1>. QED
  BY <1>3, <1>5, <1>6 DEF DataInv

LEMMA CacheWeightData == ASSUME CacheInv, RunInv, DataInv, CacheWeight PROVE DataInv'
<1>1. /\ UNCHANGED <<g_ready, ddr_feat, ddr_rslt, loaded, status, call, t_call, calls, C, outcome>>
      /\ pc = "weight" /\ pc' = "padding" /\ StoreWeight(call.a, call.K, call.N)
  BY DEF CacheWeight, Goto, callVars, memVars, gemmVars
<1>2. ~InJob' /\ outcome = "none" /\ g_ready
  BY <1>1 DEF InJob, RunInv, Established
<1>3. /\ call \in PaddedRequests /\ call.a \in Addresses
      /\ call.k = Blocks(call.K) /\ call.n = Blocks(call.N)
  BY RequestTypes DEF RunInv, RunTypes
<1>4. /\ tensors' = tensors
      /\ \A b \in Addresses \ {call.a} : g_weight_cache'[b] = g_weight_cache[b]
      /\ g_weight_cache'[call.a].k = call.k /\ g_weight_cache'[call.a].n = call.n
      /\ g_weight_cache'[call.a].scale = <<tensors[call.a], call.K, call.N>>
  BY <1>1, <1>3 DEF StoreWeight, CacheInv, CacheTypeOK
<1>5. WeightsCurrent'
  <2>1. \A b \in Addresses \ {call.a} : Cached(b)' => Cached(b)
    BY <1>4 DEF Cached
  <2>. QED
    BY <1>1, <1>2, <1>3, <1>4, <2>1 DEF DataInv, WeightsCurrent
<1>6. OperandsInMemory'
  <2>1. FeatureBeats(call)' = FeatureBeats(call) /\ \A i : OwnFeatures(i)' = OwnFeatures(i)
    BY <1>1, OwnKept DEF FeatureBeats
  <2>2. t_call' = tensors'[call'.a]
    BY <1>1, <1>4 DEF DataInv, OperandsInMemory
  <2>. QED
    BY <1>1, <2>1, <2>2 DEF DataInv, OperandsInMemory
<1>7. Loading' /\ Delivered' /\ ProductIsOwn'
  BY <1>1, <1>2 DEF DataInv, Loading, Delivered, ProductIsOwn, NoOutput
<1>. QED
  BY <1>5, <1>6, <1>7 DEF DataInv

\* Steps that keep the data and what the accelerator has moved, in a job or not.
LEMMA KeptData ==
  ASSUME RunInv, DataInv, DataKept, UNCHANGED <<g_ready, sent, received, status, outcome>>,
         InJob' <=> InJob, pc' = "caller" <=> pc = "caller",
         pc' \in {"weight", "padding", "wait_idle", "configure"} =>
           pc \in {"weight", "padding", "wait_idle", "configure"}
  PROVE  DataInv'
<1>1. WeightsCurrent'
  BY WeightsCurrentKept DEF DataInv, DataKept
<1>2. \A i : /\ OwnFeatures(i)' = OwnFeatures(i) /\ OwnWeights(i)' = OwnWeights(i)
             /\ OwnBeat(i)' = OwnBeat(i)
  BY OwnKept DEF DataKept
<1>3. /\ FeatureBeats(call)' = FeatureBeats(call) /\ ResultBeats(call)' = ResultBeats(call)
      /\ StartBeats("result")' = StartBeats("result")
  BY DEF DataKept, FeatureBeats, ResultBeats, StartBeats
<1>4. OperandsInMemory'
  BY <1>2, <1>3 DEF DataInv, DataKept, WeightsKept, OperandsInMemory
<1>5. Loading'
  <2>1. [feature |-> [j \in 1..sent["feature"] |-> OwnFeatures(j - 1)],
         weight |-> [j \in 1..sent["weight"] |-> OwnWeights(j - 1)]]' =
        [feature |-> [j \in 1..sent["feature"] |-> OwnFeatures(j - 1)],
         weight |-> [j \in 1..sent["weight"] |-> OwnWeights(j - 1)]]
    BY <1>2
  <2>. QED
    BY <2>1 DEF DataInv, DataKept, Loading
<1>6. Delivered'
  BY <1>2, <1>3 DEF DataInv, DataKept, Delivered
<1>7. ProductIsOwn'
  <2>1. OwnProduct' = OwnProduct
    BY OwnProductKept DEF DataKept
  <2>. QED
    BY <2>1 DEF DataInv, DataKept, ProductIsOwn, NoOutput
<1>. QED
  BY <1>1, <1>4, <1>5, <1>6, <1>7 DEF DataInv

LEMMA MeanwhileData ==
  ASSUME RunInv, DataInv,
         \/ StartChannel \/ Poll \/ UNCHANGED vars
         \/ \E ch \in Channels : Complete(ch)
         \/ \E ch \in Channels, kind \in Dead : ChannelFault(ch, kind)
  PROVE  DataInv'
<1>1. /\ DataKept /\ UNCHANGED <<g_ready, sent, received, status, outcome>>
      /\ \/ pc' = pc
         \/ pc \in {"start", "wait"} /\ pc' \in {"start", "wait", "waited"}
  <2>1. CASE StartChannel
    BY <2>1 DEF StartChannel, NextChannel, Goto, callVars, cacheVars, memVars, gemmVars, DataKept,
                WeightsKept
  <2>2. CASE Poll
    BY <2>2 DEF Poll, Waited, NextChannel, Goto, callVars, cacheVars, memVars, gemmVars, DataKept,
                WeightsKept
  <2>3. CASE UNCHANGED vars
    BY <2>3 DEF vars, callVars, cacheVars, memVars, gemmVars, DataKept, WeightsKept
  <2>4. CASE \E ch \in Channels : Complete(ch)
    BY <2>4 DEF Complete, callVars, cacheVars, memVars, gemmVars, DataKept, WeightsKept
  <2>5. CASE \E ch \in Channels, kind \in Dead : ChannelFault(ch, kind)
    BY <2>5 DEF ChannelFault, callVars, cacheVars, memVars, gemmVars, DataKept, WeightsKept
  <2>. QED
    BY <2>1, <2>2, <2>3, <2>4, <2>5
<1>2. (InJob' <=> InJob) /\ (pc' = "caller" <=> pc = "caller")
      /\ (pc' \in {"weight", "padding", "wait_idle", "configure"} =>
            pc \in {"weight", "padding", "wait_idle", "configure"})
  BY <1>1 DEF InJob
<1>. QED
  BY <1>1, <1>2, KeptData

LEMMA ConfigureData == ASSUME RunInv, DataInv, Configure, pc' = "start" PROVE DataInv'
<1>1. /\ DataKept /\ UNCHANGED <<g_ready, received, outcome>> /\ pc = "configure"
      /\ ~InJob
  BY DEF Configure, Goto, Return, callVars, cacheVars, memVars, DataKept, WeightsKept,
         Gemm!ClearDone, InJob
<1>2. status # "busy" /\ received = 0 /\ outcome = "none"
  BY <1>1 DEF RunInv, Established, JobStates
<1>3. status' = "idle"
  BY <1>2 DEF Configure, Gemm!ClearDone, RunInv, RunTypes
<1>4. WeightsCurrent'
  BY <1>1, WeightsCurrentKept DEF DataInv, DataKept
<1>5. OperandsInMemory'
  <2>1. FeatureBeats(call)' = FeatureBeats(call) /\ \A i : OwnFeatures(i)' = OwnFeatures(i)
    BY <1>1, OwnKept DEF FeatureBeats, DataKept
  <2>. QED
    BY <1>1, <2>1 DEF DataInv, DataKept, WeightsKept, OperandsInMemory
<1>6. Loading'
  BY <1>1, <1>2, <1>3 DEF DataInv, DataKept, Loading
<1>7. Delivered'
  BY <1>1, <1>2, <1>3 DEF Delivered
<1>8. ProductIsOwn'
  BY <1>1, <1>2 DEF DataInv, DataKept, ProductIsOwn, NoOutput
<1>. QED
  BY <1>4, <1>5, <1>6, <1>7, <1>8 DEF DataInv

\* The entry that passed the padding check is of the call's own view.
LEMMA EntryIsOwn ==
  ASSUME OneViewPerPadding, RunInv, DataInv, InJob
  PROVE  we.scale = <<t_call, call.K, call.N>>
<1>1. Cached(call.a) /\ SamePadding /\ t_call = tensors[call.a]
  BY DEF RunInv, Established, DataInv, OperandsInMemory, InJob
<1>2. call \in PaddedRequests /\ call.a \in Addresses
  BY RequestTypes DEF RunInv, RunTypes
<1>3. PICK r \in PaddedRequests : /\ r.a = call.a /\ we.k = r.k /\ we.n = r.n
                                  /\ we.scale = <<tensors[call.a], r.K, r.N>>
  BY <1>1, <1>2 DEF DataInv, WeightsCurrent, we
<1>4. r.K = call.K /\ r.N = call.N
  BY <1>1, <1>2, <1>3 DEF SamePadding, OneViewPerPadding
<1>. QED
  BY <1>1, <1>3, <1>4

\* Every element of the output is in a beat of the result.
LEMMA BeatOfOK ==
  ASSUME NEW r \in PaddedRequests, call = r, NEW x \in 0..call.m * call.N - 1, call.N > 0
  PROVE  BeatOf(x) \in 0..ResultBeats(call)-1
<1>1. /\ call.m \in Nat /\ call.N \in Nat \ {0} /\ call.n \in Nat /\ call.n = Blocks(call.N)
  BY RequestTypes
<1>2. x \in Nat /\ x < call.m * call.N
  BY <1>1
<1>3. x % call.N \in 0..call.N-1
  BY <1>1, <1>2
<1>4. (x % call.N) \div ArraySize \in 0..call.n-1
  BY <1>1, <1>3, BlocksOK
<1>5. PICK q \in Int : q = x \div call.N
  BY <1>1, <1>2
<1>6. q * call.N <= x /\ x < (q + 1) * call.N
  BY <1>1, <1>2, <1>5
<1>7. q \in 0..call.m-1
  <2>1. q * call.N < call.m * call.N /\ 0 < (q + 1) * call.N
    BY <1>1, <1>2, <1>6
  <2>. QED
    BY <1>1, <2>1
<1>8. ASSUME NEW b \in 0..call.n-1 PROVE q * call.n + b \in 0..call.m * call.n - 1
  <2>1. q * call.n \in Nat /\ (q + 1) * call.n <= call.m * call.n
    BY <1>1, <1>7
  <2>2. (q + 1) * call.n = q * call.n + call.n
    BY <1>1, <1>7
  <2>. QED
    BY <1>1, <2>1, <2>2
<1>. QED
  BY <1>4, <1>5, <1>8 DEF BeatOf, ResultBeats

LEMMA UnpackData == ASSUME OneViewPerPadding, RunInv, DataInv, Unpack PROVE DataInv'
<1>. DEFINE output == [x \in 0..call.m * call.N - 1 |->
                         Element(ddr_rslt[BeatOf(x)], LaneOf(x), we.scale)]
<1>1. /\ WeightsKept /\ UNCHANGED <<g_ready, ddr_feat, ddr_rslt, loaded, status>>
      /\ UNCHANGED <<call, t_call, calls>> /\ pc = "waited" /\ pc' = "caller"
      /\ \/ ok /\ outcome' = "product" /\ C' = output
         \/ outcome' = "hardware" /\ C' = C
  BY DEF Unpack, Return, Goto, cacheVars, memVars, gemmVars, WeightsKept
<1>. HIDE DEF output
<1>2. ~InJob' /\ InJob /\ outcome = "none"
  BY <1>1 DEF InJob, RunInv, Established
<1>3. WeightsCurrent'
  BY <1>1, WeightsCurrentKept DEF DataInv
<1>4. OperandsInMemory' /\ Loading' /\ Delivered'
  BY <1>1, <1>2 DEF DataInv, OperandsInMemory, Loading, Delivered
<1>5. ProductIsOwn'
  <2>1. CASE ok /\ outcome' = "product" /\ C' = output
    <3>1. status = "done" /\ StartBeats("result") = ResultBeats(call)
      BY <1>1, <1>2, <2>1, QuietAfterWaits, StartBeatsOK DEF RunInv
    <3>2. \A i \in 0..ResultBeats(call)-1 : ddr_rslt[i] = OwnBeat(i)
      BY <1>2, <3>1 DEF DataInv, Delivered
    <3>3. call \in PaddedRequests /\ call.N > 0
      BY <1>1 DEF RunInv, RunTypes, Established, ShapeOK
    <3>4. \A x \in 0..call.m * call.N - 1 : ddr_rslt[BeatOf(x)] = OwnBeat(BeatOf(x))
      BY <3>2, <3>3, BeatOfOK
    <3>5. output = OwnProduct
      BY <1>2, <3>4, EntryIsOwn DEF output, OwnProduct
    <3>. QED
      BY <1>1, <2>1, <3>5, OwnProductKept DEF ProductIsOwn
  <2>2. CASE outcome' = "hardware" /\ C' = C
    BY <1>2, <2>2 DEF DataInv, ProductIsOwn, NoOutput
  <2>. QED
    BY <1>1, <2>1, <2>2
<1>. QED
  BY <1>3, <1>4, <1>5 DEF DataInv

\* A tabulated sequence grows by its next entry.
LEMMA AppendNext ==
  ASSUME NEW f, NEW n \in Nat
  PROVE  Append([j \in 1..n |-> f[j]], f[n + 1]) = [j \in 1..n+1 |-> f[j]]
<1>. DEFINE s == [j \in 1..n |-> f[j]]
            t == [j \in 1..n+1 |-> f[j]]
<1>1. s \in Seq({f[j] : j \in 1..n}) /\ Len(s) = n
  OBVIOUS
<1>2. DOMAIN Append(s, f[n + 1]) = 1..n+1
  BY <1>1
<1>3. \A j \in 1..n+1 : Append(s, f[n + 1])[j] = f[j]
  BY <1>1
<1>4. Append(s, f[n + 1]) = [j \in 1..n+1 |-> Append(s, f[n + 1])[j]]
  BY <1>1, <1>2
<1>. QED
  BY <1>3, <1>4

\* The beat that is fed next is the call's own.
LEMMA FeedsOwn ==
  ASSUME OneViewPerPadding, CacheInv, RunInv, DataInv, NEW ch \in Inputs, Feed(ch)
  PROVE  /\ sent[ch] \in Nat
         /\ ch = "feature" => BeatAt(ch) = OwnFeatures(sent[ch])
         /\ ch = "weight" => BeatAt(ch) = OwnWeights(sent[ch])
<1>1. /\ InJob /\ Started(ch) /\ status # "done" /\ Moved(ch) < StartBeats(ch)
      /\ dma[ch].state = "running" /\ ch \in Channels
  BY FeedInJob, FeedEffect DEF RunInv, Inputs, Channels
<1>2. sent[ch] \in Nat /\ Moved(ch) = sent[ch]
  BY DEF RunInv, RunTypes, Moved, Inputs
<1>3. dma[ch].addr = StartAddr(ch) + sent[ch] /\ sent[ch] < StartBeats(ch)
  BY <1>1, <1>2 DEF RunInv, JobInv, Progress, Dead
<1>4. StartBeats(ch) \in Nat
  BY <1>1, StartBeatsOK DEF RunInv, Inputs
<1>5. sent[ch] \in 0..StartBeats(ch)-1
  BY <1>2, <1>3, <1>4
<1>6. CASE ch = "feature"
  <2>1. dma[ch].addr = sent[ch]
    BY <1>2, <1>3, <1>6 DEF StartAddr
  <2>2. sent[ch] \in 0..FeatureBeats(call)-1
    BY <1>5, <1>6 DEF StartBeats
  <2>3. ddr_feat[sent[ch]] = OwnFeatures(sent[ch])
    BY <1>1, <2>2 DEF DataInv, OperandsInMemory
  <2>. QED
    BY <1>2, <1>6, <2>1, <2>3 DEF BeatAt
<1>7. CASE ch = "weight"
  <2>1. Cached(call.a) /\ call.a \in Addresses
    BY <1>1, RequestTypes DEF RunInv, RunTypes, Established, InJob
  <2>2. dma[ch].addr = we.off + sent[ch] /\ sent[ch] \in 0..we.size-1
    BY <1>3, <1>5, <1>7 DEF StartAddr, StartBeats
  <2>3. ddr_wght[we.off + sent[ch]] = PackedBeat(we.scale[1], we.scale[2], we.scale[3], sent[ch])
    BY <2>1, <2>2 DEF CacheInv, WeightsPacked, RegionsIntact, we
  <2>4. ddr_wght[we.off + sent[ch]] = OwnWeights(sent[ch])
    BY <1>1, <2>3, EntryIsOwn DEF OwnWeights
  <2>. QED
    BY <1>2, <1>7, <2>2, <2>4 DEF BeatAt
<1>. QED
  BY <1>2, <1>6, <1>7 DEF Inputs

LEMMA FeedData ==
  ASSUME OneViewPerPadding, CacheInv, RunInv, DataInv, NEW ch \in Inputs, Feed(ch)
  PROVE  DataInv'
<1>1. /\ WeightsKept /\ UNCHANGED <<g_ready, ddr_feat, ddr_rslt, call, t_call, calls, C, outcome>>
      /\ pc' = pc
      /\ loaded' = [loaded EXCEPT ![ch] = Append(@, BeatAt(ch))]
  BY DEF Feed, callVars, cacheVars, memVars, WeightsKept
<1>2. /\ sent' = [sent EXCEPT ![ch] = sent[ch] + 1] /\ status' = "busy" /\ received' = received
  BY FeedEffect DEF RunInv
<1>3. InJob /\ InJob' /\ status # "done"
  BY <1>1, FeedInJob DEF InJob
<1>4. \A i : /\ OwnFeatures(i)' = OwnFeatures(i) /\ OwnWeights(i)' = OwnWeights(i)
             /\ OwnBeat(i)' = OwnBeat(i)
  BY <1>1, OwnKept
<1>5. FeatureBeats(call)' = FeatureBeats(call) /\ ResultBeats(call)' = ResultBeats(call)
  BY <1>1 DEF FeatureBeats, ResultBeats
<1>6. WeightsCurrent'
  BY <1>1, WeightsCurrentKept DEF DataInv
<1>7. OperandsInMemory'
  BY <1>1, <1>3, <1>4, <1>5 DEF DataInv, WeightsKept, OperandsInMemory, InJob
<1>. DEFINE feats(n) == [j \in 1..n |-> OwnFeatures(j - 1)]
            wghts(n) == [j \in 1..n |-> OwnWeights(j - 1)]
<1>8. Loading'
  <2>1. sent \in [Inputs -> Nat]
    BY DEF RunInv, RunTypes
  <2>2. loaded = [feature |-> feats(sent["feature"]), weight |-> wghts(sent["weight"])]
    <3>1. CASE status = "busy"
      BY <1>3, <3>1 DEF DataInv, Loading
    <3>2. CASE status # "busy"
      <4>1. sent["feature"] = 0 /\ sent["weight"] = 0
        BY <3>2 DEF RunInv, JobStates, Inputs
      <4>2. feats(0) = <<>> /\ wghts(0) = <<>>
        OBVIOUS
      <4>. QED
        BY <3>2, <4>1, <4>2 DEF DataInv, Loading
    <3>. QED
      BY <3>1, <3>2
  <2>3. \A n \in Nat : Append(feats(n), OwnFeatures(n)) = feats(n + 1)
    <3>. TAKE n \in Nat
    <3>. DEFINE f == [j \in 1..n+1 |-> OwnFeatures(j - 1)]
    <3>1. f[n + 1] = OwnFeatures(n)
      OBVIOUS
    <3>2. [j \in 1..n |-> f[j]] = feats(n) /\ [j \in 1..n+1 |-> f[j]] = feats(n + 1)
      OBVIOUS
    <3>. HIDE DEF f
    <3>. QED
      BY <3>1, <3>2, AppendNext
  <2>4. \A n \in Nat : Append(wghts(n), OwnWeights(n)) = wghts(n + 1)
    <3>. TAKE n \in Nat
    <3>. DEFINE f == [j \in 1..n+1 |-> OwnWeights(j - 1)]
    <3>1. f[n + 1] = OwnWeights(n)
      OBVIOUS
    <3>2. [j \in 1..n |-> f[j]] = wghts(n) /\ [j \in 1..n+1 |-> f[j]] = wghts(n + 1)
      OBVIOUS
    <3>. HIDE DEF f
    <3>. QED
      BY <3>1, <3>2, AppendNext
  <2>. HIDE DEF feats, wghts
  <2>5. loaded' = [feature |-> feats(sent'["feature"]), weight |-> wghts(sent'["weight"])]
    <3>1. CASE ch = "feature"
      <4>1. sent'["feature"] = sent["feature"] + 1 /\ sent'["weight"] = sent["weight"]
            /\ sent["feature"] \in Nat
        BY <1>2, <2>1, <3>1 DEF Inputs
      <4>2. Append(loaded[ch], BeatAt(ch)) = feats(sent["feature"] + 1)
        BY <2>2, <2>3, <3>1, <4>1, FeedsOwn
      <4>. QED
        BY <1>1, <2>2, <3>1, <4>1, <4>2
    <3>2. CASE ch = "weight"
      <4>1. sent'["weight"] = sent["weight"] + 1 /\ sent'["feature"] = sent["feature"]
            /\ sent["weight"] \in Nat
        BY <1>2, <2>1, <3>2 DEF Inputs
      <4>2. Append(loaded[ch], BeatAt(ch)) = wghts(sent["weight"] + 1)
        BY <2>2, <2>4, <3>2, <4>1, FeedsOwn
      <4>. QED
        BY <1>1, <2>2, <3>2, <4>1, <4>2
    <3>. QED
      BY <3>1, <3>2 DEF Inputs
  <2>6. /\ [j \in 1..sent'["feature"] |-> OwnFeatures(j - 1)'] = feats(sent'["feature"])
        /\ [j \in 1..sent'["weight"] |-> OwnWeights(j - 1)'] = wghts(sent'["weight"])
    BY <1>4 DEF feats, wghts
  <2>. QED
    BY <1>2, <2>5, <2>6 DEF Loading
<1>9. Delivered'
  <2>1. StartBeats("result")' = StartBeats("result")
    BY <1>1 DEF StartBeats, ResultBeats
  <2>. QED
    BY <1>1, <1>2, <1>3, <1>4, <2>1 DEF DataInv, Delivered
<1>10. ProductIsOwn'
  <2>1. OwnProduct' = OwnProduct
    BY <1>1, OwnProductKept
  <2>. QED
    BY <1>1, <2>1 DEF DataInv, ProductIsOwn, NoOutput
<1>. QED
  BY <1>6, <1>7, <1>8, <1>9, <1>10 DEF DataInv

LEMMA DeliverData == ASSUME RunInv, DataInv, Deliver PROVE DataInv'
<1>1. /\ WeightsKept /\ UNCHANGED <<g_ready, ddr_feat, call, t_call, calls, C, outcome>>
      /\ pc' = pc
      /\ ddr_rslt' = [ddr_rslt EXCEPT ![dma["result"].addr] =
                        Product(config, loaded.feature, loaded.weight, received)]
      /\ loaded' = IF received = ResultBeats(config) - 1
                   THEN [feature |-> <<>>, weight |-> <<>>] ELSE loaded
  BY DEF Deliver, callVars, cacheVars, WeightsKept
<1>2. /\ InJob /\ \A ch \in Channels : Started(ch)
      /\ sent = [ch \in Inputs |-> StartBeats(ch)]
      /\ JobConfig = Shape /\ config = Shape /\ ResultBeats(JobConfig) = StartBeats("result")
  BY DeliverInJob
<1>3. status = "busy" /\ dma["result"].state = "running"
  BY DeliverEffect DEF RunInv
<1>4. \/ received # StartBeats("result") - 1 /\ received' = received + 1
         /\ UNCHANGED <<sent, status, loaded>>
      \/ received = StartBeats("result") - 1 /\ status' = "done"
         /\ loaded' = [feature |-> <<>>, weight |-> <<>>]
  BY <1>1, <1>2, DeliverEffect DEF RunInv
<1>5. InJob'
  BY <1>1, <1>2 DEF InJob
<1>6. \A i : /\ OwnFeatures(i)' = OwnFeatures(i) /\ OwnWeights(i)' = OwnWeights(i)
             /\ OwnBeat(i)' = OwnBeat(i)
  BY <1>1, OwnKept
<1>7. /\ FeatureBeats(call)' = FeatureBeats(call) /\ ResultBeats(call)' = ResultBeats(call)
      /\ StartBeats("result")' = StartBeats("result")
  BY <1>1 DEF FeatureBeats, ResultBeats, StartBeats
<1>8. WeightsCurrent'
  BY <1>1, WeightsCurrentKept DEF DataInv
<1>9. received \in Nat /\ StartBeats("result") \in Nat /\ received < StartBeats("result")
      /\ StartBeats("result") <= WindowSize /\ WindowSize \in Nat
  BY <1>2, StartBeatsOK, RuntimeAssumption DEF RunInv, RunTypes, JobInv
<1>10. dma["result"].addr = received /\ received \in 0..WindowSize-1
  <2>1. Progress("result") /\ Started("result")
    BY <1>2 DEF RunInv, JobInv, Channels
  <2>2. dma["result"].addr = StartAddr("result") + Moved("result")
    BY <1>3, <2>1 DEF Progress, Dead
  <2>3. StartAddr("result") = 0 /\ Moved("result") = received
    BY DEF StartAddr, Moved
  <2>. QED
    BY <1>9, <2>2, <2>3
<1>11. Product(config, loaded.feature, loaded.weight, received) = OwnBeat(received)
  <2>1. loaded = [feature |-> [j \in 1..sent["feature"] |-> OwnFeatures(j - 1)],
                  weight |-> [j \in 1..sent["weight"] |-> OwnWeights(j - 1)]]
    BY <1>2, <1>3 DEF DataInv, Loading
  <2>2. sent["feature"] = FeatureBeats(call) /\ sent["weight"] = WeightBeats(call.k, call.n)
    BY <1>2, StartBeatsOK DEF RunInv, Inputs
  <2>. QED
    BY <1>2, <2>1, <2>2 DEF OwnBeat, Shape, OwnFeatures, OwnWeights
<1>12. DOMAIN ddr_rslt = 0..WindowSize-1
  BY DEF DataInv, OperandsInMemory
<1>13. DOMAIN ddr_rslt' = 0..WindowSize-1
  BY <1>1, <1>12
<1>14. OperandsInMemory'
  BY <1>1, <1>2, <1>5, <1>6, <1>7, <1>13 DEF DataInv, OperandsInMemory, WeightsKept, InJob
<1>15. ddr_rslt'[received] = OwnBeat(received)
       /\ \A i \in 0..WindowSize-1 : i # received => ddr_rslt'[i] = ddr_rslt[i]
  BY <1>1, <1>10, <1>11, <1>12
<1>16. \A i \in 0..received : ddr_rslt'[i] = OwnBeat(i)
  <2>1. \A i \in 0..received-1 : ddr_rslt[i] = OwnBeat(i)
    BY <1>2, <1>3 DEF DataInv, Delivered
  <2>2. \A i \in 0..received : i = received \/ (i \in 0..received-1 /\ i # received
                                                /\ i \in 0..WindowSize-1)
    BY <1>9
  <2>. QED
    BY <1>15, <2>1, <2>2
<1>17. Loading' /\ Delivered'
  <2>1. CASE received # StartBeats("result") - 1 /\ received' = received + 1
             /\ UNCHANGED <<sent, status, loaded>>
    <3>1. [feature |-> [j \in 1..sent["feature"] |-> OwnFeatures(j - 1)],
           weight |-> [j \in 1..sent["weight"] |-> OwnWeights(j - 1)]]' =
          [feature |-> [j \in 1..sent["feature"] |-> OwnFeatures(j - 1)],
           weight |-> [j \in 1..sent["weight"] |-> OwnWeights(j - 1)]]
      BY <1>6, <2>1
    <3>2. Loading'
      BY <1>2, <1>3, <2>1, <3>1 DEF DataInv, Loading
    <3>3. \A i : i \in 0..received'-1 => i \in 0..received
      BY <1>9, <2>1
    <3>4. Delivered'
      BY <1>3, <1>6, <1>16, <2>1, <3>3 DEF Delivered
    <3>. QED
      BY <3>2, <3>4
  <2>2. CASE received = StartBeats("result") - 1 /\ status' = "done"
             /\ loaded' = [feature |-> <<>>, weight |-> <<>>]
    <3>1. Loading'
      BY <2>2 DEF Loading
    <3>2. Delivered'
      BY <1>6, <1>7, <1>16, <2>2 DEF Delivered
    <3>. QED
      BY <3>1, <3>2
  <2>. QED
    BY <1>4, <2>1, <2>2
<1>18. ProductIsOwn'
  <2>1. OwnProduct' = OwnProduct
    BY <1>1, OwnProductKept
  <2>. QED
    BY <1>1, <2>1 DEF DataInv, ProductIsOwn, NoOutput
<1>. QED
  BY <1>8, <1>14, <1>17, <1>18 DEF DataInv

LEMMA DataInvInit == Init => DataInv
<1>. SUFFICES ASSUME Init PROVE DataInv
  OBVIOUS
<1>1. \A a \in Addresses : ~Cached(a)
  BY DEF Init, CacheInit, Cached, NoEntry
<1>2. pc = "caller" /\ status = "idle" /\ outcome = "none" /\ C = NoOutput
      /\ loaded = [feature |-> <<>>, weight |-> <<>>] /\ DOMAIN ddr_rslt = 0..WindowSize-1
  BY DEF Init, Gemm!Init
<1>3. WeightsCurrent
  BY <1>1 DEF WeightsCurrent
<1>4. OperandsInMemory /\ Loading /\ Delivered /\ ProductIsOwn
  BY <1>2 DEF OperandsInMemory, Loading, Delivered, ProductIsOwn, InJob
<1>. QED
  BY <1>3, <1>4 DEF DataInv

LEMMA DataInvStep ==
  ASSUME ReloadAnytime = FALSE, OneViewPerPadding, CacheInv, RunInv, DataInv, [Next]_vars
  PROVE  DataInv'
<1>1. CASE Caller
  <2>1. ASSUME Configure PROVE DataInv'
    <3>1. pc' = "start" \/ pc' = "caller"
      BY <2>1 DEF Configure, Goto, Return
    <3>. QED
      BY <2>1, <3>1, ConfigureData, StraightData
  <2>. QED
    BY <1>1, <2>1, StraightData, ResetChannelData, PackData, CacheWeightData, MeanwhileData,
       UnpackData DEF Caller
<1>2. CASE Board
  BY <1>2, FeedData, DeliverData, MeanwhileData DEF Board, Inputs
<1>3. CASE Environment
  BY <1>3, BetweenCallsData, MeanwhileData DEF Environment, Dead
<1>4. CASE UNCHANGED vars
  BY <1>4, MeanwhileData
<1>. QED
  BY <1>1, <1>2, <1>3, <1>4 DEF Next

(* ProductIsOwn for requests of two rows or more, when tensors are         *)
(* replaced only while nothing is cached, and no two views of an address   *)
(* are padded to one shape: a call that returns a result returns, in every *)
(* row and column, the product of its own activation and its own tensor    *)
(* (fpga_gemm_run).                                                        *)
THEOREM ResultsAreTheCalls ==
  ASSUME ReloadAnytime = FALSE, OneViewPerPadding
  PROVE  Spec => []ProductIsOwn
<1>1. Init => DataInv
  BY DataInvInit
<1>2. CacheInv /\ RunInv /\ DataInv /\ [Next]_vars => DataInv'
  BY DataInvStep
<1>3. DataInv => ProductIsOwn
  BY DEF DataInv
<1>. QED
  BY <1>1, <1>2, <1>3, RunInvAlways, PTL DEF Spec

-----------------------------------------------------------------------------
(* Types *)

RegisterValues == [m : 0..RowLimit-1, k : 0..BlockLimit-1, n : 0..BlockLimit-1]

\* What RunTypes leaves out of the type of the runtime.
OtherTypes ==
  /\ t_call \in Tensors
  /\ outcome \in {"none", "not_ready", "refused", "hardware", "product"}
  /\ regs \in RegisterValues /\ config \in RegisterValues
  /\ fault \in Faults \cup {NoFault}

LEMMA OtherTypesInit == Init => OtherTypes
<1> SUFFICES ASSUME Init PROVE OtherTypes
  OBVIOUS
<1>1. call.a \in Addresses
  BY RequestTypes DEF Init
<1>2. NoConfig \in RegisterValues
  BY RuntimeAssumption DEF NoConfig, RegisterValues
<1> QED
  BY <1>1, <1>2 DEF Init, CacheInit, OtherTypes

LEMMA OtherTypesStep ==
  ASSUME CacheInv, RunInv, OtherTypes, Next
  PROVE  OtherTypes'
<1>t. /\ tensors \in [Addresses -> Tensors] /\ t_call \in Tensors
      /\ outcome \in {"none", "not_ready", "refused", "hardware", "product"}
      /\ regs \in RegisterValues /\ config \in RegisterValues
      /\ fault \in Faults \cup {NoFault}
      /\ call \in PaddedRequests
  BY DEF CacheInv, CacheTypeOK, RunInv, RunTypes, OtherTypes
<1>1. t_call' \in Tensors
  <2>1. ASSUME NEW r \in Requests, Call(r) PROVE t_call' \in Tensors
    <3>1. r.a \in Addresses
      BY RuntimeAssumption
    <3> QED
      BY <2>1, <3>1, <1>t DEF Call
  <2>2. t_call' = t_call \/ \E r \in Requests : Call(r)
    BY DEF Next, Caller, Board, Environment, OpenAndMap, ResetChannel, CheckShape, Pack,
           WeightFails, CacheWeight, FindWeight, CheckPadding, WaitIdle, Configure, StartChannel,
           Poll, Unpack, Feed, Deliver, Complete, Cleanup, Reload, ChannelFault, Return, callVars
  <2> QED
    BY <2>1, <2>2, <1>t
<1>2. outcome' \in {"none", "not_ready", "refused", "hardware", "product"}
  <2>1. \/ outcome' = outcome
        \/ outcome' \in {"none", "not_ready", "refused", "hardware", "product"}
    BY DEF Next, Caller, Board, Environment, OpenAndMap, ResetChannel, CheckShape, Pack,
           WeightFails, CacheWeight, FindWeight, CheckPadding, WaitIdle, Configure, StartChannel,
           Poll, Unpack, Feed, Deliver, Complete, Cleanup, Reload, ChannelFault, Return, callVars,
           Call
  <2> QED
    BY <2>1, <1>t
<1>3. regs' \in RegisterValues
  <2>1. CASE Configure
    <3>1. regs' = Registers(call)
      BY <2>1 DEF Configure
    <3>2. call.m \in Nat /\ call.k \in Nat /\ call.n \in Nat
      BY <1>t, RequestTypes
    <3>3. RowLimit \in Nat \ {0} /\ BlockLimit \in Nat \ {0}
      BY RuntimeAssumption
    <3>4. \A x \in Nat, y \in Nat \ {0} : x % y \in 0..y-1
      OBVIOUS
    <3> QED
      BY <3>1, <3>2, <3>3, <3>4 DEF Registers, RegisterValues
  <2>2. CASE ~Configure
    <3>1. regs' = regs
      BY <2>2 DEF Next, Caller, Board, Environment, OpenAndMap, ResetChannel, CheckShape, Pack,
           WeightFails, CacheWeight, FindWeight, CheckPadding, WaitIdle, StartChannel,
           Poll, Unpack, Feed, Deliver, Complete, Cleanup, Reload, ChannelFault, Call
    <3> QED
      BY <3>1, <1>t
  <2> QED
    BY <2>1, <2>2
<1>4. config' \in RegisterValues
  <2>1. config' \in {regs, config}
    BY DEF Next, Caller, Board, Environment, OpenAndMap, ResetChannel, CheckShape, Pack,
           WeightFails, CacheWeight, FindWeight, CheckPadding, WaitIdle, Configure, StartChannel,
           Poll, Unpack, Feed, Deliver, Complete, Cleanup, Reload, ChannelFault, Call, gemmVars,
           JobConfig
  <2> QED
    BY <2>1, <1>t
<1>5. fault' \in Faults \cup {NoFault}
  <2>1. fault' = fault \/ fault' \in Faults
    BY DEF Next, Caller, Board, Environment, OpenAndMap, ResetChannel, CheckShape, Pack,
           WeightFails, CacheWeight, FindWeight, CheckPadding, WaitIdle, Configure, StartChannel,
           Poll, Unpack, Feed, Deliver, Complete, Cleanup, Reload, ChannelFault, Call, Strikes
  <2> QED
    BY <2>1, <1>t
<1> QED
  BY <1>1, <1>2, <1>3, <1>4, <1>5 DEF OtherTypes

(* The caller stays in the code of fpga_gemm_run, every DMA channel in a   *)
(* state its status register can show, and the registers hold no value     *)
(* wider than they are: what gemm_configure writes passed the checks before*)
(* it (FPGA_GEMM.cpp, fpga_gemm_run and the dma_* functions).              *)
THEOREM RuntimeTypeCorrect == Spec => []TypeOK
<1>1. CacheInv /\ RunInv /\ OtherTypes /\ [Next]_vars => OtherTypes'
  <2> SUFFICES ASSUME CacheInv, RunInv, OtherTypes, [Next]_vars PROVE OtherTypes'
    OBVIOUS
  <2>1. CASE UNCHANGED vars
    BY <2>1 DEF OtherTypes, vars, callVars, gemmVars
  <2> QED
    BY <2>1, OtherTypesStep
<1>2. CacheInv /\ RunInv /\ OtherTypes => TypeOK
  <2> SUFFICES ASSUME CacheInv, RunInv, OtherTypes PROVE TypeOK
    OBVIOUS
  <2>1. CacheTypeOK
    BY DEF CacheInv
  <2>2. RunTypes
    BY DEF RunInv
  <2> QED
    BY <2>1, <2>2 DEF OtherTypes, RunTypes, TypeOK, Labels, Transfers, States, RegisterValues
<1> QED
  BY <1>1, <1>2, OtherTypesInit, RunInvAlways, PTL DEF Spec

=============================================================================
