--------------------------- MODULE MCFpgaRuntime ---------------------------
(***************************************************************************)
(* Instances of FpgaRuntime.  Two weights of different shapes share a pool *)
(* that is too small when the first is packed in the shape of its view;    *)
(* each is also asked for in another shape, and four requests are refused  *)
(* before anything else happens.  Extents of 3 are padded to two blocks.   *)
(***************************************************************************)
EXTENDS FpgaRuntime

CONSTANTS a1, a2, t1, t2

Request(a, quant, m, K, N) == [a |-> a, quant |-> quant, m |-> m, K |-> K, N |-> N]

AllRequests ==
  { Request(a1, "supported", 2, 2, 1),
    Request(a2, "supported", 2, 4, 1),
    Request(a1, "supported", 2, 3, 1),    \* a view of another size
    Request(a2, "supported", 3, 2, 3),    \* a view of the same size
    Request(a1, "supported", 4, 2, 1),    \* more rows than the register holds
    Request(a1, "supported", 2, 3, 3),    \* more weights than the buffer holds
    Request(a2, "supported", 2, 4, 0),    \* no columns
    Request(a2, "unknown", 2, 4, 1) }

AllFaults == FaultKinds

TwoRequests == { Request(a1, "supported", 2, 2, 1), Request(a2, "supported", 2, 4, 1) }

\* Two views of one address that are padded to the same shape.
TwoViews == { Request(a1, "supported", 2, 2, 1), Request(a1, "supported", 2, 2, 2) }
=============================================================================
