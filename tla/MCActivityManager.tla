-------------------------- MODULE MCActivityManager --------------------------
EXTENDS ActivityManager, TLC
CONSTANTS h, p, x, a, b
=============================================================================
