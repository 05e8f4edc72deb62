----------------------------- MODULE MCWhiteBell -----------------------------
(***************************************************************************)
(* Instances of module WhiteBell for TLC.                                  *)
(***************************************************************************)
EXTENDS WhiteBell, TLC

\* Clients and Namespace objects are interchangeable.
Symmetric == Permutations(Client) \cup Permutations(NsObj)

=============================================================================
