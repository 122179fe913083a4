-------------------------- MODULE MCDmaBufDriver --------------------------
(***************************************************************************)
(* Two processes; the second region is the largest, as in the driver.      *)
(***************************************************************************)
EXTENDS DmaBufDriver, TLC

BufferSizes == [r \in Regions |-> IF r = "b" THEN 2 ELSE 1]
\* No property tells the processes apart.
UserSymmetry == Permutations(Users)
=============================================================================
