----------------------------- MODULE MCRestart -----------------------------
EXTENDS Restart
=============================================================================
