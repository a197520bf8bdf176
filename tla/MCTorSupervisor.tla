-------------------------- MODULE MCTorSupervisor --------------------------
EXTENDS TorSupervisor
=============================================================================
