--------------------------- MODULE ThreadBarrier ---------------------------
(***************************************************************************)
(* ggml_barrier of software/ggml-cpu/ggml-cpu.c: the threads of a pool     *)
(* wait until all of them have arrived.  Every atomic access is a step.    *)
(* A pool of one thread returns at once and is not modelled.               *)
(***************************************************************************)
EXTENDS Integers, FiniteSets

CONSTANT NThreads

ASSUME NThreadsAssumption == NThreads \in Nat \ {0, 1}

Threads == 0..NThreads-1

VARIABLES
  n_barrier,         \* threads that have entered
  n_barrier_passed,  \* barriers completed
  n_passed,          \* each thread's copy, taken before it enters
  bpc,               \* where in ggml_barrier each thread is
  left               \* history: barriers each thread has left

barrierVars == <<n_barrier, n_barrier_passed, n_passed, bpc, left>>

BarrierInit ==
  /\ n_barrier = 0 /\ n_barrier_passed = 0
  /\ n_passed = [t \in Threads |-> 0]
  /\ bpc = [t \in Threads |-> "outside"]
  /\ left = [t \in Threads |-> 0]

Goto(t, place) == bpc' = [bpc EXCEPT ![t] = place]

Arrive(t) ==
  /\ bpc[t] = "outside"
  /\ n_passed' = [n_passed EXCEPT ![t] = n_barrier_passed]
  /\ Goto(t, "arrived")
  /\ UNCHANGED <<n_barrier, n_barrier_passed, left>>

\* Mutant: the last but one is taken for the last.
AfterEnterEarly(n) == IF n >= NThreads - 2 THEN "reset" ELSE "wait"

\* The last thread to enter resets the count and releases the others.
AfterEnter(n) == IF n = NThreads - 1 THEN "reset" ELSE "wait"

Enter(t) ==
  /\ bpc[t] = "arrived"
  /\ n_barrier' = n_barrier + 1
  /\ Goto(t, AfterEnter(n_barrier))
  /\ UNCHANGED <<n_barrier_passed, n_passed, left>>

\* Mutant: the count is not reset for the next barrier.
ResetCountLost(t) ==
  /\ bpc[t] = "reset"
  /\ Goto(t, "release")
  /\ UNCHANGED <<n_barrier, n_barrier_passed, n_passed, left>>

ResetCount(t) ==
  /\ bpc[t] = "reset"
  /\ n_barrier' = 0
  /\ Goto(t, "release")
  /\ UNCHANGED <<n_barrier_passed, n_passed, left>>

Release(t) ==
  /\ bpc[t] = "release"
  /\ n_barrier_passed' = n_barrier_passed + 1
  /\ left' = [left EXCEPT ![t] = left[t] + 1]
  /\ Goto(t, "outside")
  /\ UNCHANGED <<n_barrier, n_passed>>

Leave(t) ==
  /\ bpc[t] = "wait"
  /\ n_barrier_passed # n_passed[t]
  /\ left' = [left EXCEPT ![t] = left[t] + 1]
  /\ Goto(t, "outside")
  /\ UNCHANGED <<n_barrier, n_barrier_passed, n_passed>>

BarrierNext == \E t \in Threads :
  Arrive(t) \/ Enter(t) \/ ResetCount(t) \/ Release(t) \/ Leave(t)

BarrierSpec == BarrierInit /\ [][BarrierNext]_barrierVars

-----------------------------------------------------------------------------
(* Properties *)

BarrierTypeOK ==
  /\ n_barrier \in 0..NThreads /\ n_barrier_passed \in Nat
  /\ n_passed \in [Threads -> Nat] /\ left \in [Threads -> Nat]
  /\ bpc \in [Threads -> {"outside", "arrived", "reset", "release", "wait"}]

\* Barriers a thread has entered.
Entered(t) == left[t] + (IF bpc[t] \in {"reset", "release", "wait"} THEN 1 ELSE 0)

(* No thread has left a barrier that another has not entered               *)
(* (ggml_barrier).                                                         *)
BarrierSeparates == \A t, u \in Threads : left[t] <= Entered(u)

-----------------------------------------------------------------------------
(* The inductive strengthening: n_barrier_passed counts the completed      *)
(* barriers, and n_barrier the threads waiting for the current one.        *)

Current == n_barrier_passed
Waiting(t) == bpc[t] = "wait" /\ n_passed[t] = Current
Waiters == {t \in Threads : Waiting(t)}
\* The thread that entered last, while it has not yet released the others.
IsLast(t) == bpc[t] \in {"reset", "release"}

PlacesOK == \A t \in Threads :
  /\ bpc[t] # "wait" => left[t] = Current
  /\ bpc[t] = "arrived" => n_passed[t] = Current
  /\ bpc[t] = "wait" => left[t] = n_passed[t] /\ n_passed[t] \in {Current, Current - 1}

LastIsAlone == \A t \in Threads : IsLast(t) =>
  /\ n_barrier = IF bpc[t] = "reset" THEN NThreads ELSE 0
  /\ \A u \in Threads \ {t} : Waiting(u)

CountOK == (\A t \in Threads : ~IsLast(t)) => n_barrier = Cardinality(Waiters)

BarrierIInv == BarrierTypeOK /\ PlacesOK /\ LastIsAlone /\ CountOK
=============================================================================
