---------------------------- MODULE MCDNSClient ----------------------------
(* DNSClient for model checking. *)
EXTENDS DNSClient

(* The option record in which exactly the named options are on. *)
Opt(on) == [cache |-> "cache" \in on, simple |-> "simple" \in on,
            lookup |-> "lookup" \in on, checked |-> "checked" \in on,
            strict |-> "strict" \in on, loop |-> "loop" \in on]

(* Plain, checked and strict queries; lookups, simple and not; a query that  *)
(* bypasses the cache, and one that loops.                                   *)
AllOptions ==
    {Opt({"cache", "simple"}), Opt({"cache", "simple", "checked"}),
     Opt({"cache", "simple", "strict"}), Opt({"cache", "simple", "lookup", "strict"}),
     Opt({"cache", "lookup"}), Opt({"simple"}), Opt({"cache", "simple", "loop"})}
=============================================================================
