---------------------------- MODULE MCBootCycle ----------------------------
EXTENDS BootCycle, TLC
CONSTANTS b1, weather, tempest
=============================================================================
