-------------------------- MODULE CommittedStream --------------------------
(***************************************************************************)
(* What the proxy promises about the body of a streamed response.  Nothing *)
(* reaches the client before the response is committed; from then on it    *)
(* gets the pieces the upstream sent, each once and in order; and it is    *)
(* told that the body is complete only when the upstream ended it and the  *)
(* client has all of it.  A body may break at any time, with an error.     *)
(***************************************************************************)
EXTENDS Naturals, Sequences

CONSTANT Pieces  \* how many pieces the upstream has to send

VARIABLES
  upstream,   \* "open", "ended" or "failed"
  produced,   \* how many pieces it has sent
  client,     \* what the client has been told
  delivered   \* the pieces the client has got

vars == <<upstream, produced, client, delivered>>

FirstPieces(n) == [i \in 1..n |-> i]

Init ==
  /\ upstream = "open"
  /\ produced = 0
  /\ client = "uncommitted"
  /\ delivered = <<>>

Produce ==
  /\ upstream = "open"
  /\ \E n \in produced+1..Pieces : produced' = n
  /\ UNCHANGED <<upstream, client, delivered>>

Finish ==
  /\ upstream = "open"
  /\ upstream' \in {"ended", "failed"}
  /\ UNCHANGED <<produced, client, delivered>>

Commit ==
  /\ client = "uncommitted"
  /\ client' = "streaming"
  /\ UNCHANGED <<upstream, produced, delivered>>

Deliver ==
  /\ client = "streaming"
  /\ \E n \in Len(delivered)+1..produced : delivered' = FirstPieces(n)
  /\ UNCHANGED <<upstream, produced, client>>

Complete ==
  /\ client = "streaming"
  /\ upstream = "ended"
  /\ Len(delivered) = produced
  /\ client' = "complete"
  /\ UNCHANGED <<upstream, produced, delivered>>

Break ==
  /\ client \in {"uncommitted", "streaming"}
  /\ client' = "broken"
  /\ UNCHANGED <<upstream, produced, delivered>>

Next == Produce \/ Finish \/ Commit \/ Deliver \/ Complete \/ Break

Spec == Init /\ [][Next]_vars
=============================================================================
