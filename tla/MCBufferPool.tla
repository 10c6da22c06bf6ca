---------------------------- MODULE MCBufferPool ----------------------------
EXTENDS BufferPool, TLC

CallerSymmetry == Permutations(Caller)
=============================================================================
