---------------------------- MODULE MCNdFramework ----------------------------
(***************************************************************************)
(* Every provider is of the version the sessions open, so that any two of    *)
(* them can serve one address.                                               *)
(***************************************************************************)
EXTENDS NdFramework

AllV2 == [p \in Providers |-> 2]

=============================================================================
