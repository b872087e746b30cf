--------------------------- MODULE MCDaemonControl ---------------------------
(* Instances of DaemonControl for TLC. Invocations of one kind are alike.   *)
EXTENDS DaemonControl, TLC

StarterSymmetry == Permutations(Starters)
=============================================================================
