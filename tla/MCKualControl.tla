----------------------------- MODULE MCKualControl -----------------------------
(* Small instances of KualControl for TLC: the values are in the .cfg files. *)
EXTENDS KualControl
=============================================================================
