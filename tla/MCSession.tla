------------------------------ MODULE MCSession ------------------------------
(***************************************************************************)
(* Instances of module Session for TLC.                                    *)
(***************************************************************************)
EXTENDS Session

\* There are no events in Session.
MCEvent == {}

=============================================================================
