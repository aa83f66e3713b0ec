-------------------------- MODULE MCWirepasGateway --------------------------
(***************************************************************************)
(* Small instances of WirepasGateway.                                      *)
(***************************************************************************)
EXTENDS WirepasGateway

NodeSymmetry == Permutations(Node)
=============================================================================
