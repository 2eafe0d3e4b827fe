--------------------------- MODULE MCProxyIngress ---------------------------
(* Four WebSocket requests for two handshake workers and a control request.*)
EXTENDS ProxyIngress

CONSTANTS w1, w2, w3, w4, c1, websocket, standard

MCRequests == {w1, w2, w3, w4, c1}
MCLaneOf == [r \in MCRequests |-> IF r = c1 THEN standard ELSE websocket]
MCServedBy == [t \in Takers |-> websocket]
=============================================================================
