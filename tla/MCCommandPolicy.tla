-------------------------- MODULE MCCommandPolicy --------------------------
EXTENDS CommandPolicy
CONSTANTS r1, r2
MCRequest == {r1, r2}
============================================================================
