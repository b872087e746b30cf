------------------------------ MODULE MCLifecycle ------------------------------
(* Instances of Lifecycle for TLC. *)
EXTENDS Lifecycle

\* The first screenshot is one the model fails on.
PoisonScreenshots == {<<"chunk", 1>>}
=============================================================================
