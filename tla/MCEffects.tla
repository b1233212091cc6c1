----------------------------- MODULE MCEffects ------------------------------
(***************************************************************************)
(* Instances of Effects for TLC.  The keys are interchangeable.            *)
(***************************************************************************)
EXTENDS Effects

KeySymmetry == Permutations(Keys)
=============================================================================
