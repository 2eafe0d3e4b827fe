-------------------------- MODULE MCSessionOwnership --------------------------
(* Two proxies, a command, two requests that may fail over between two     *)
(* profiles, and a clock of two seconds.                                   *)
EXTENDS SessionOwnership, TLC

Symmetric == Permutations(Proxies) \cup Permutations(Requests) \cup Permutations(Profiles)
=============================================================================
