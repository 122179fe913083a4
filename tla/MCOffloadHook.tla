--------------------------- MODULE MCOffloadHook ---------------------------
(* A small pool for TLC. *)
EXTENDS OffloadHook

MCBoards == {"works", "broken", "late", "faulty"}
=============================================================================
