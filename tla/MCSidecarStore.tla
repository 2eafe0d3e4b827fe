--------------------------- MODULE MCSidecarStore ---------------------------
(* Two proxies that save the journal, and a command that removes it.       *)
EXTENDS SidecarStore

CONSTANTS first, second, command, u1, u2, u3
=============================================================================
