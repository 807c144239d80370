--------------------------- MODULE MCUpdaterCycle ---------------------------
(* The three tracked LSTs for TLC, in the workflow's order. *)
EXTENDS UpdaterCycle

CONSTANTS msol, jitosol, bsol

ThreeLsts == <<msol, jitosol, bsol>>
=============================================================================
