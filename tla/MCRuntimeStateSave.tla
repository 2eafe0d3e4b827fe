------------------------- MODULE MCRuntimeStateSave -------------------------
(* A response's ids and a turn-state owner (both hot and journaled, the    *)
(* first saving the scores too) and a probed usage snapshot, beside two    *)
(* other processes: a command that saves state.json and one that prunes    *)
(* the continuations.                                                      *)
EXTENDS RuntimeStateSave

CONSTANTS turn, reply, usage, cli, prune

MCKind == [m \in Mutations |->
  CASE m = turn -> 9 [] m = reply -> 4 [] m = usage -> 23]

MCOtherSection ==
  [x \in Others |-> IF x = cli THEN "core" ELSE "continuations"]
=============================================================================
