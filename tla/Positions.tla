----------------------------- MODULE Positions -----------------------------
(***************************************************************************)
(* What a sequence has at some of its positions, in its order: the list    *)
(* comprehensions of the Python code, written so that they can be proved   *)
(* about.                                                                  *)
(***************************************************************************)
EXTENDS Integers, FiniteSets

(* The n-th of a set of positions.                                         *)
Nth(at, n) == CHOOSE i \in at : Cardinality({j \in at : j <= i}) = n

Listed(s, at) == [n \in 1..Cardinality(at) |-> s[Nth(at, n)]]
=============================================================================
