----------------------------- MODULE MC_SysTopic -----------------------------
EXTENDS SysTopic

CONSTANTS k1, k2
=============================================================================
