--------------------------- MODULE MCInstallSelect ---------------------------
(***************************************************************************)
(* Two of the three versions of a ZIP have the same size and time.         *)
(***************************************************************************)
EXTENDS InstallSelect, TLC

CONSTANTS v1, v2, v3, s, t

MCVersions == {v1, v2, v3}
MCStamps == {s, t}
MCStampOf == v1 :> s @@ v2 :> s @@ v3 :> t

Symmetry == Permutations(Procs) \cup Permutations({v1, v2})
=============================================================================
