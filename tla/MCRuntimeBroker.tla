--------------------------- MODULE MCRuntimeBroker ---------------------------
(* Two launchers of different versions and one from another key.           *)
EXTENDS RuntimeBroker

CONSTANTS l1, l2, l3

MCVersion == [l \in Launchers |-> IF l = l1 THEN 1 ELSE 2]
=============================================================================
