------------------------------ MODULE MCDiscovery ------------------------------
(* Small instances of Discovery for TLC. *)
EXTENDS Discovery, TLC

CONSTANTS user, other, key1, key2, key3, h1, h2, bad

UserKeys == key1 :> user @@ key2 :> user
MixedKeys == key1 :> user @@ key2 :> user @@ key3 :> other
=============================================================================
