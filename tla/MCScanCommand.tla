--------------------------- MODULE MCScanCommand ---------------------------
(* One command, or two that run at the same time, and two connections: the *)
(* one that ends and the one that takes the session over.                  *)
EXTENDS ScanCommand, TLC

CONSTANTS a, b, c1, c2

OneClient == {a}
TwoClients == {a, b}
TwoConns == {c1, c2}
=============================================================================
