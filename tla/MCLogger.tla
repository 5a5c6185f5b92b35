------------------------------ MODULE MCLogger ------------------------------
(* Two writers, a waiter and a log stream; channels of one slot, so that    *)
(* notifications are dropped, and a log of two entries, so that it trims.   *)
EXTENDS Logger, TLC

CONSTANTS m1, m2, q, sse

MCWatched == (q :> m1)
MCWant == (q :> 2)
WriterSymmetry == Permutations(Writers)
=============================================================================
