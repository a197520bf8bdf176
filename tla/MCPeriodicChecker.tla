-------------------------- MODULE MCPeriodicChecker --------------------------
EXTENDS PeriodicChecker
=============================================================================
