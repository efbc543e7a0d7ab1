----------------------------- MODULE DeviceGrantMC -----------------------------
(* The instance of DeviceGrant for TLC.  It uses no symmetry: the run checks *)
(* a liveness property.                                                      *)
EXTENDS DeviceGrant
================================================================================
