----------------------------- MODULE MCCppClient -----------------------------
(***************************************************************************)
(* Instances of module CppClient for TLC.                                  *)
(***************************************************************************)
EXTENDS CppClient, TLC

\* Callbacks are interchangeable.
Symmetric == Permutations(Callback)

=============================================================================
