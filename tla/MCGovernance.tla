----------------------------- MODULE MCGovernance -----------------------------
(* A small instance of Governance alone.                                      *)
EXTENDS Governance, TLC

Symmetric == Permutations(Changes)
=============================================================================
