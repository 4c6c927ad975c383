---------------------------- MODULE MCStartOrder ----------------------------
(* StartOrder for model checking.  Every dependency relation is *)
(* tried, so one order of the members stands for all of them.                *)
EXTENDS StartOrder

ThreeMembers == <<"a", "b", "c">>
=============================================================================
