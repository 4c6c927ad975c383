----------------------- MODULE MCDNSTransportManager -----------------------
(* Instances of DNSTransportManager for model checking. *)
EXTENDS DNSTransportManager

(* No dependency, one that exists or not, a mutual one. *)
SomeDeps == {<<>>, <<"a">>, <<"local">>}
NoDeps == {<<>>}
=============================================================================
