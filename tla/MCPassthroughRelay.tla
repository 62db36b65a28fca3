------------------------- MODULE MCPassthroughRelay -------------------------
(* One turn of every shape, and a drain that may begin at any moment. *)
EXTENDS PassthroughRelay

CONSTANT request

MCTurns == {request}
MCShapes == {"tee", "native", "eager"}
MCTee == {"tee", "native"}
=============================================================================
