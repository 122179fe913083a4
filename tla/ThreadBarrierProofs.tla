------------------------ MODULE ThreadBarrierProofs ------------------------
(***************************************************************************)
(* ggml_barrier separates the phases of a pool of any number of threads,   *)
(* over any number of barriers.                                            *)
(***************************************************************************)
EXTENDS ThreadBarrier, FiniteSetTheorems, TLAPS

LEMMA ThreadsFinite ==
  /\ IsFiniteSet(Threads) /\ Cardinality(Threads) = NThreads
  /\ \A t \in Threads : /\ IsFiniteSet(Threads \ {t})
                        /\ Cardinality(Threads \ {t}) = NThreads - 1
<1>1. IsFiniteSet(Threads) /\ Cardinality(Threads) = NThreads
  <2>1. NThreads \in Nat /\ ~(0 > NThreads - 1) /\ NThreads - 1 \in Int
    BY NThreadsAssumption
  <2> QED
    BY <2>1, FS_Interval DEF Threads
<1> QED
  BY <1>1, FS_RemoveElement

(* The waiting threads are a finite set, without t when t is not waiting.  *)
LEMMA WaitersFinite ==
  /\ IsFiniteSet(Waiters) /\ Cardinality(Waiters) \in Nat
  /\ \A t \in Threads : ~Waiting(t) =>
       /\ Waiters \subseteq Threads \ {t}
       /\ Cardinality(Waiters) <= NThreads - 1
       /\ Cardinality(Waiters) = NThreads - 1 => \A u \in Threads \ {t} : Waiting(u)
<1>1. IsFiniteSet(Waiters)
  BY ThreadsFinite, FS_Subset DEF Waiters
<1>2. Cardinality(Waiters) \in Nat
  BY <1>1, FS_CardinalityType
<1>3. ASSUME NEW t \in Threads, ~Waiting(t)
      PROVE  /\ Waiters \subseteq Threads \ {t}
             /\ Cardinality(Waiters) <= NThreads - 1
             /\ Cardinality(Waiters) = NThreads - 1 => \A u \in Threads \ {t} : Waiting(u)
  <2>1. Waiters \subseteq Threads \ {t}
    BY <1>3 DEF Waiters
  <2>2. /\ Cardinality(Waiters) <= NThreads - 1
        /\ NThreads - 1 = Cardinality(Waiters) => Threads \ {t} = Waiters
    <3>1. Waiters \in SUBSET (Threads \ {t}) /\ IsFiniteSet(Threads \ {t})
      BY <2>1, ThreadsFinite
    <3>2. /\ Cardinality(Waiters) <= Cardinality(Threads \ {t})
          /\ Cardinality(Threads \ {t}) = Cardinality(Waiters) => Threads \ {t} = Waiters
      BY <3>1, FS_Subset
    <3> QED
      BY <3>2, ThreadsFinite
  <2> QED
    BY <2>1, <2>2 DEF Waiters
<1> QED
  BY <1>1, <1>2, <1>3

LEMMA InitBarrierIInv == BarrierInit => BarrierIInv
<1> SUFFICES ASSUME BarrierInit PROVE BarrierIInv
  OBVIOUS
<1>1. BarrierTypeOK
  BY NThreadsAssumption DEF BarrierInit, BarrierTypeOK
<1>2. PlacesOK /\ LastIsAlone
  BY DEF BarrierInit, PlacesOK, LastIsAlone, IsLast, Current
<1>3. Waiters = {}
  BY DEF BarrierInit, Waiters, Waiting
<1>4. CountOK
  BY <1>3, FS_EmptySet DEF BarrierInit, CountOK
<1> QED
  BY <1>1, <1>2, <1>4 DEF BarrierIInv

(* A thread that is not waiting for the current barrier keeps the last     *)
(* thread from having entered.                                             *)
LEMMA NobodyIsLast ==
  ASSUME BarrierIInv, NEW t \in Threads, ~IsLast(t), ~Waiting(t)
  PROVE  \A u \in Threads : ~IsLast(u)
  BY DEF BarrierIInv, LastIsAlone

LEMMA ArriveIInv ==
  ASSUME BarrierIInv, NEW t \in Threads, Arrive(t)
  PROVE  BarrierIInv'
<1>1. ~IsLast(t) /\ ~Waiting(t)
  BY DEF Arrive, IsLast, Waiting
<1>2. \A u \in Threads : ~IsLast(u)
  BY <1>1, NobodyIsLast
<1>3. \A u \in Threads : ~IsLast(u)' /\ (Waiting(u)' <=> Waiting(u))
  BY <1>1, <1>2 DEF Arrive, Goto, IsLast, Waiting, Current, BarrierIInv, BarrierTypeOK
<1>4. BarrierTypeOK'
  BY DEF Arrive, Goto, BarrierIInv, BarrierTypeOK
<1>5. PlacesOK'
  BY DEF Arrive, Goto, BarrierIInv, BarrierTypeOK, PlacesOK, Current
<1>6. LastIsAlone'
  BY <1>3 DEF LastIsAlone
<1>7. CountOK'
  <2>1. Waiters' = Waiters
    BY <1>3 DEF Waiters
  <2> QED
    BY <1>2, <2>1 DEF Arrive, BarrierIInv, CountOK
<1> QED
  BY <1>4, <1>5, <1>6, <1>7 DEF BarrierIInv

LEMMA EnterIInv ==
  ASSUME BarrierIInv, NEW t \in Threads, Enter(t)
  PROVE  BarrierIInv'
<1>1. ~IsLast(t) /\ ~Waiting(t)
  BY DEF Enter, IsLast, Waiting
<1>2. \A u \in Threads : ~IsLast(u)
  BY <1>1, NobodyIsLast
<1>3. n_barrier = Cardinality(Waiters) /\ n_barrier \in 0..NThreads - 1
  BY <1>1, <1>2, WaitersFinite, NThreadsAssumption DEF BarrierIInv, CountOK
<1>4. BarrierTypeOK'
  BY <1>3, NThreadsAssumption DEF Enter, Goto, AfterEnter, BarrierIInv, BarrierTypeOK
<1>5. PlacesOK'
  BY DEF Enter, Goto, AfterEnter, BarrierIInv, BarrierTypeOK, PlacesOK, Current
<1>6. \A u \in Threads \ {t} : ~IsLast(u)' /\ (Waiting(u)' <=> Waiting(u))
  BY <1>2 DEF Enter, Goto, IsLast, Waiting, Current, BarrierIInv, BarrierTypeOK
<1>7. CASE n_barrier = NThreads - 1
  <2>1. bpc'[t] = "reset" /\ n_barrier' = NThreads
    BY <1>3, <1>7, NThreadsAssumption DEF Enter, Goto, AfterEnter, BarrierIInv, BarrierTypeOK
  <2>2. \A u \in Threads \ {t} : Waiting(u)'
    BY <1>1, <1>3, <1>6, <1>7, WaitersFinite
  <2>3. LastIsAlone'
    BY <1>6, <2>1, <2>2 DEF LastIsAlone
  <2>4. CountOK'
    BY <2>1 DEF CountOK, IsLast
  <2> QED
    BY <1>4, <1>5, <2>3, <2>4 DEF BarrierIInv
<1>8. CASE n_barrier # NThreads - 1
  <2>1. ~IsLast(t)' /\ Waiting(t)'
    BY <1>8 DEF Enter, Goto, AfterEnter, IsLast, Waiting, Current, BarrierIInv, BarrierTypeOK,
                PlacesOK
  <2>2. LastIsAlone'
    BY <1>6, <2>1 DEF LastIsAlone
  <2>3. Waiters' = Waiters \cup {t} /\ t \notin Waiters
    BY <1>1, <1>6, <2>1 DEF Waiters
  <2>4. Cardinality(Waiters') = Cardinality(Waiters) + 1
    BY <2>3, WaitersFinite, FS_AddElement
  <2>5. CountOK'
    BY <1>3, <2>4 DEF Enter, CountOK
  <2> QED
    BY <1>4, <1>5, <2>2, <2>5 DEF BarrierIInv
<1> QED
  BY <1>7, <1>8

LEMMA ResetCountIInv ==
  ASSUME BarrierIInv, NEW t \in Threads, ResetCount(t)
  PROVE  BarrierIInv'
<1>1. IsLast(t) /\ \A u \in Threads \ {t} : Waiting(u)
  BY DEF ResetCount, IsLast, BarrierIInv, LastIsAlone
<1>2. \A u \in Threads \ {t} : Waiting(u)' /\ ~IsLast(u)'
  BY <1>1 DEF ResetCount, Goto, Waiting, IsLast, Current, BarrierIInv, BarrierTypeOK
<1>3. bpc'[t] = "release" /\ n_barrier' = 0
  BY DEF ResetCount, Goto, BarrierIInv, BarrierTypeOK
<1>4. BarrierTypeOK'
  BY NThreadsAssumption DEF ResetCount, Goto, BarrierIInv, BarrierTypeOK
<1>5. PlacesOK'
  BY DEF ResetCount, Goto, BarrierIInv, BarrierTypeOK, PlacesOK, Current
<1>6. LastIsAlone'
  BY <1>2, <1>3 DEF LastIsAlone
<1>7. CountOK'
  BY <1>3 DEF CountOK, IsLast
<1> QED
  BY <1>4, <1>5, <1>6, <1>7 DEF BarrierIInv

LEMMA ReleaseIInv ==
  ASSUME BarrierIInv, NEW t \in Threads, Release(t)
  PROVE  BarrierIInv'
<1>1. n_barrier = 0 /\ \A u \in Threads \ {t} : Waiting(u)
  BY DEF Release, IsLast, BarrierIInv, LastIsAlone
<1>2. \A u \in Threads \ {t} : bpc'[u] = "wait" /\ n_passed'[u] = Current' - 1
  BY <1>1 DEF Release, Goto, Waiting, Current, BarrierIInv, BarrierTypeOK
<1>3. bpc'[t] = "outside" /\ left'[t] = Current'
  BY DEF Release, Goto, Current, BarrierIInv, BarrierTypeOK, PlacesOK
<1>4. BarrierTypeOK'
  BY DEF Release, Goto, BarrierIInv, BarrierTypeOK
<1>5. Current' \in Nat
  BY <1>4 DEF BarrierTypeOK, Current
<1>6. \A u \in Threads : ~IsLast(u)' /\ ~Waiting(u)'
  BY <1>2, <1>3, <1>5 DEF IsLast, Waiting
<1>7. PlacesOK'
  <2>1. \A u \in Threads \ {t} : left'[u] = n_passed'[u]
    BY <1>1 DEF Release, Waiting, BarrierIInv, BarrierTypeOK, PlacesOK
  <2> QED
    BY <1>2, <1>3, <1>5, <2>1 DEF PlacesOK
<1>8. LastIsAlone'
  BY <1>6 DEF LastIsAlone
<1>9. CountOK'
  <2>1. Waiters' = {}
    BY <1>6 DEF Waiters
  <2> QED
    BY <1>1, <2>1, FS_EmptySet DEF Release, CountOK
<1> QED
  BY <1>4, <1>7, <1>8, <1>9 DEF BarrierIInv

LEMMA LeaveIInv ==
  ASSUME BarrierIInv, NEW t \in Threads, Leave(t)
  PROVE  BarrierIInv'
<1>1. ~IsLast(t) /\ ~Waiting(t)
  BY DEF Leave, IsLast, Waiting, Current
<1>2. \A u \in Threads : ~IsLast(u)
  BY <1>1, NobodyIsLast
<1>3. \A u \in Threads : ~IsLast(u)' /\ (Waiting(u)' <=> Waiting(u))
  BY <1>1, <1>2 DEF Leave, Goto, IsLast, Waiting, Current, BarrierIInv, BarrierTypeOK
<1>4. BarrierTypeOK'
  BY DEF Leave, Goto, BarrierIInv, BarrierTypeOK
<1>5. bpc'[t] = "outside" /\ left'[t] = Current'
  <2>1. left[t] = Current - 1
    BY DEF Leave, BarrierIInv, PlacesOK, Current
  <2> QED
    BY <2>1 DEF Leave, Goto, Current, BarrierIInv, BarrierTypeOK
<1>6. PlacesOK'
  BY <1>5 DEF Leave, Goto, BarrierIInv, BarrierTypeOK, PlacesOK, Current
<1>7. LastIsAlone'
  BY <1>3 DEF LastIsAlone
<1>8. CountOK'
  <2>1. Waiters' = Waiters
    BY <1>3 DEF Waiters
  <2> QED
    BY <1>2, <2>1 DEF Leave, BarrierIInv, CountOK
<1> QED
  BY <1>4, <1>6, <1>7, <1>8 DEF BarrierIInv

LEMMA BarrierStepIInv ==
  ASSUME BarrierIInv, NEW t \in Threads,
         Arrive(t) \/ Enter(t) \/ ResetCount(t) \/ Release(t) \/ Leave(t)
  PROVE  BarrierIInv'
  BY ArriveIInv, EnterIInv, ResetCountIInv, ReleaseIInv, LeaveIInv

LEMMA StutterIInv ==
  ASSUME BarrierIInv, UNCHANGED barrierVars
  PROVE  BarrierIInv'
<1>1. \A u \in Threads : (Waiting(u)' <=> Waiting(u)) /\ (IsLast(u)' <=> IsLast(u))
  BY DEF barrierVars, Waiting, IsLast, Current
<1>2. Waiters' = Waiters
  BY <1>1 DEF Waiters
<1>3. BarrierTypeOK' /\ PlacesOK'
  BY DEF barrierVars, BarrierIInv, BarrierTypeOK, PlacesOK, Current
<1>4. LastIsAlone'
  BY <1>1 DEF barrierVars, BarrierIInv, LastIsAlone
<1>5. CountOK'
  BY <1>1, <1>2 DEF barrierVars, BarrierIInv, CountOK
<1> QED
  BY <1>3, <1>4, <1>5 DEF BarrierIInv

LEMMA IInvSeparates == BarrierIInv => BarrierSeparates
<1> SUFFICES ASSUME BarrierIInv, NEW t \in Threads, NEW u \in Threads
             PROVE  left[t] <= Entered(u)
  BY DEF BarrierSeparates
<1>1. Current \in Nat /\ left[t] \in Nat /\ left[u] \in Nat
  BY DEF BarrierIInv, BarrierTypeOK, Current
<1>2. left[t] <= Current
  BY <1>1 DEF BarrierIInv, PlacesOK
<1>3. Current <= Entered(u)
  BY <1>1 DEF BarrierIInv, PlacesOK, Entered
<1>4. Entered(u) \in Nat
  BY <1>1 DEF Entered
<1> QED
  BY <1>1, <1>2, <1>3, <1>4

(* For every number of threads, none leaves a barrier before all others    *)
(* have entered it (ggml_barrier).                                         *)
THEOREM BarrierIsSafe == BarrierSpec => []BarrierSeparates
<1>1. BarrierIInv /\ [BarrierNext]_barrierVars => BarrierIInv'
  BY BarrierStepIInv, StutterIInv DEF BarrierNext
<1> QED
  BY <1>1, InitBarrierIInv, IInvSeparates, PTL DEF BarrierSpec

=============================================================================
