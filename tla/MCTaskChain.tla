----------------------------- MODULE MCTaskChain -----------------------------
(* Two questions, two flights, hops of up to two calls. *)
EXTENDS TaskChain

CONSTANTS g1, g2
=============================================================================
