----------------------------- MODULE MCGemmJobs -----------------------------
(* Small instances of GemmJobs for TLC. *)
EXTENDS GemmSchedule

\* Each block loop of the schedule once or twice, in all combinations, and a job of three rows
\* that fills the memories.
MCShapes == {s \in [rows : 2..3, k : 1..2, n : 1..2] : s.rows = 3 <=> s.k = 2 /\ s.n = 2}
MCSingleRow == [rows : {1}, k : 1..2, n : 1..2]
MCNoWord == <<0, 0>>
=============================================================================
