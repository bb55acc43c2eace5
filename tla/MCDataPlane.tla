---------------------------- MODULE MCDataPlane -----------------------------
EXTENDS DataPlaneProperties

MCSwitches == 1..4
=============================================================================
