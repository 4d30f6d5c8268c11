----------------------------- MODULE MCFederation -----------------------------
(***************************************************************************)
(* Instances of Federation for TLC.                                        *)
(***************************************************************************)
EXTENDS FederationHome
=============================================================================
