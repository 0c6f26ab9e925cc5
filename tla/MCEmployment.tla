---------------------------- MODULE MCEmployment ----------------------------
(***************************************************************************)
(* Every workplace is the only one of its kind.                            *)
(***************************************************************************)
EXTENDS Employment

MCKind == [w \in Workplace |-> w]
=============================================================================
