--------------------------- MODULE MCResponseStream ---------------------------
(* Six pieces in five chunks: small ones that fill the slots, an empty     *)
(* one, and some larger than the limit, the last of them before the end.   *)
EXTENDS ResponseStream

MCSize == <<1, 0, 1, 3, 1, 3>>
=============================================================================
