-------------------------- MODULE MCReputationCache --------------------------
EXTENDS ReputationCache
=============================================================================
