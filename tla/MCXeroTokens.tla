---------------------------- MODULE MCXeroTokens ----------------------------
(* Small instances of XeroTokens.                                           *)
EXTENDS XeroTokens, TLC

MCSymmetry == Permutations(Processes)
=============================================================================
