----------------------------- MODULE MCTorFleet -----------------------------
EXTENDS TorFleet
=============================================================================
