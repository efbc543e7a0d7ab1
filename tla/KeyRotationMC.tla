----------------------------- MODULE KeyRotationMC -----------------------------
(* Small instances of KeyRotation for TLC.                                  *)
EXTENDS KeyRotation, TLC

Symmetry == Permutations(Kids)
================================================================================
