-------------------------- MODULE MCInflightRelief --------------------------
(* Requests of weight 2 (responses, websocket) and 1 (standard, compact)   *)
(* on two profiles; the third request may be bound to the first profile.   *)
EXTENDS InflightRelief

CONSTANTS r1, r2, r3, main, second

MCWeight == [r \in Requests |-> IF r = r2 THEN 1 ELSE 2]
ThirdBound == [r \in Requests |-> IF r = r3 THEN main ELSE NoProfile]
=============================================================================
