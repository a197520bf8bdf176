-------------------------- MODULE MCCircuitRenewer --------------------------
EXTENDS CircuitRenewer
=============================================================================
