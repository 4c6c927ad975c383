--------------------------- MODULE MCUDPTransport ---------------------------
(* UDPTransport for model checking. *)
EXTENDS UDPTransport

(* IDs that are used again, and more callers than IDs with two sizes. *)
TwoLimits == {[ids |-> 3, sizes |-> {1}, queries |-> 3],
              [ids |-> 1, sizes |-> {1, 2}, queries |-> 2]}
=============================================================================
