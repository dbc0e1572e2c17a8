----------------------------- MODULE MCTcMalloc -----------------------------
EXTENDS TcMalloc, SizeClass, TLC
MCClassSize == <<1, 2>>
MCPagesFor == <<1, 2>>
MCBatch == <<2, 2>>
MCMaxRanges == <<1, 1>>
ThreadSymmetry == Permutations(Threads)
=============================================================================
