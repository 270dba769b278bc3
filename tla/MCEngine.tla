---- MODULE MCEngine ----
EXTENDS Engine
CONSTANTS k1, k2
====
