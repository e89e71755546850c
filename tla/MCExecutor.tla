----------------------------- MODULE MCExecutor -----------------------------
EXTENDS Executor, TLC

CONSTANTS h1, h2

MCHandles == {h1, h2}
MCOneHandle == {h1}
MCSymmetry == Permutations(MCHandles)
=============================================================================
