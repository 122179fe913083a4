--------------------------- MODULE MCSystolicArray ---------------------------
(* A small array: every row, lane, tile and processing element has a value  *)
(* of its own.                                                              *)
EXTENDS SystolicArray

Elements == {"r1", "r2", "none"} \X (0..ArrayRows-1)
MCFeatures == Elements
MCWeights == {"t1", "t2", "none"} \X (0..ArrayRows-1) \X (0..ArrayCols-1)
Row(name) == [i \in 0..ArrayRows-1 |-> <<name, i>>]
Tile(name) == [i \in 0..ArrayRows-1 |-> [j \in 0..ArrayCols-1 |-> <<name, i, j>>]]
MCRows == {Row("r1"), Row("r2")}
MCTiles == {Tile("t1"), Tile("t2")}
MCBubble == Row("none")
MCNoTile == Tile("none")
=============================================================================
