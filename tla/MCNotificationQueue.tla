------------------------ MODULE MCNotificationQueue -------------------------
(* Small instances of NotificationQueue. *)
EXTENDS NotificationQueue

CONSTANTS n1, n2, n3, c1, c2, g1, g2, h1, h2

(* n1 and n3 are about the same binary. *)
TwoBinaries == [n \in Notes |-> IF n = n2 THEN h2 ELSE h1]
TwoUsers == (c1 :> g1) @@ (c2 :> g2)
=============================================================================
