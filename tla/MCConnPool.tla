----------------------------- MODULE MCConnPool -----------------------------
(* Instances of ConnPool for TLC: interchangeable callers. *)
EXTENDS ConnPool, TLC

Symmetry == Permutations(Callers)
=============================================================================
