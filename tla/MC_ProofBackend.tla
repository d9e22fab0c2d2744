-------------------------- MODULE MC_ProofBackend --------------------------
EXTENDS ProofBackend, TLC

CONSTANTS t1, t2, t3

MC_Threads == {t1, t2, t3}
=============================================================================
