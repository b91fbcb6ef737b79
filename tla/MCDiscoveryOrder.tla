---------------------------- MODULE MCDiscoveryOrder ----------------------------
(* The small instances of Discovery, with the history. *)
EXTENDS MCDiscovery, DiscoveryOrder
=============================================================================
