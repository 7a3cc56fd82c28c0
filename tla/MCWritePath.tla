----------------------------- MODULE MCWritePath ----------------------------
(* A small instance of WritePath: one agent sends two requests, one of them *)
(* of two sub-batches, and another agent a third.                           *)
EXTENDS WritePath

CONSTANTS r1, r2, r3, a1, a2, h1, h2

MCAgentOf  == [r \in Req |-> IF r = r3 THEN a2 ELSE a1]
MCChunksOf == [r \in Req |-> IF r = r1 THEN <<h1, h2, h1>> ELSE IF r = r2 THEN <<h2>> ELSE <<h1>>]
MCSize     == [h \in Hash |-> 1]
=============================================================================
