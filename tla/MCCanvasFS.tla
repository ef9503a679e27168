----------------------------- MODULE MCCanvasFS -----------------------------
(* Values of the constants of CanvasFS that a configuration cannot write. *)
EXTENDS CanvasFS

CONSTANTS p, q

ChunksVal == {p, q}
LargesVal == {<<q, p>>, <<p, q, p>>}
=============================================================================
