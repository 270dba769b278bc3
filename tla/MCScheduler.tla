---- MODULE MCScheduler ----
EXTENDS Scheduler
CONSTANTS k1, k2
====
