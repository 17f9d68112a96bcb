---------------------------- MODULE MCDaemonLock ----------------------------
(* Small instances of DaemonLock for TLC. *)
EXTENDS DaemonLock, TLC

Symmetry == Permutations(Procs) \cup Permutations(Pids)
=============================================================================
