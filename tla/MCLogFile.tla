------------------------------ MODULE MCLogFile ------------------------------
EXTENDS LogFile, TLC

Symmetric == Permutations(Thread)

===============================================================================
