---------------------------- MODULE MCSpscQueue ----------------------------
EXTENDS SpscQueue

CONSTANTS a, b

MCValues == {a, b}
=============================================================================
