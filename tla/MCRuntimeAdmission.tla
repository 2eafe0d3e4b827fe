------------------------- MODULE MCRuntimeAdmission -------------------------
(* Three requests in two lanes and one state writer.                       *)
EXTENDS RuntimeAdmission

CONSTANTS r1, r2, r3, responses, standard

MCRequests == {r1, r2, r3}
MCLanes == {responses, standard}
(* Two requests share the responses lane.                                  *)
MCLaneOf == [r \in MCRequests |-> IF r = r3 THEN standard ELSE responses]

TightLanes == [l \in MCLanes |-> 1]
=============================================================================
