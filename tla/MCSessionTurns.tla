---------------------------- MODULE MCSessionTurns ----------------------------
(* SessionTurns for TLC: two messages, an observer, and a Stop. *)
EXTENDS SessionTurns, TLC

Symmetric == Permutations(Posts)
=============================================================================
