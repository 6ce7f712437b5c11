---------------------------- MODULE MCServicePath ----------------------------
(* Two instances of one service and a third process with another service,  *)
(* a client of the first; the third process belongs to another user.       *)
EXTENDS ServicePath

CONSTANTS p1, p2, q, c, pong, net, u1, u2

MCServer == {p1, p2, q}
MCClient == {c}
MCServes == [x \in {p1, p2, q, c} |-> IF x = q THEN net ELSE pong]
MCUserOf == [x \in {p1, p2, q, c} |-> IF x = q THEN u2 ELSE u1]
=============================================================================
