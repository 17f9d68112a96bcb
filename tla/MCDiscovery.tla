----------------------------- MODULE MCDiscovery -----------------------------
(***************************************************************************)
(* Two devices that announce http and one place in the table, and one      *)
(* address to spare: either device can leave its address to the other.  Only the   *)
(* first device stays.                                                     *)
(***************************************************************************)
EXTENDS Discovery, TLC

CONSTANTS d1, d2, a1, a2, a3

MCDevices == {d1, d2}
MCAddresses == {a1, a2, a3}
MCPlain == {d1, d2}
MCStaying == {d1}
MCHome == d1 :> a1 @@ d2 :> a2
=============================================================================
