------------------------------ MODULE MCFakeIP ------------------------------
(* FakeIP for model checking. *)
EXTENDS FakeIP, TLC

(* 0.0.0.3/29 hands out two addresses, 0.0.0.0/30 and ::/126 one. *)
Wide == [net |-> 0, addr |-> 3, size |-> 8]
Narrow == [net |-> 0, addr |-> 0, size |-> 4]

(* The IPv4 range is changed and IPv6 added, or the reverse. *)
OneMoved == {(4 :> Wide) @@ (6 :> None), (4 :> Narrow) @@ (6 :> Narrow)}
Symmetry == Permutations(Callers) \cup Permutations(Domains)
=============================================================================
