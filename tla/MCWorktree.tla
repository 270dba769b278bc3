----------------------------- MODULE MCWorktree -----------------------------
EXTENDS WorkdirGC
=============================================================================
