----------------------------- MODULE MCIndexSwap -----------------------------
(* Symmetric instances of IndexSwap for TLC. *)
EXTENDS IndexSwap, TLC

\* No row differs from another, and no key.
IndexSymmetry == Permutations(Rows) \cup Permutations(Keys)
=============================================================================
