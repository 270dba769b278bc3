------------------------------- MODULE MCSync -------------------------------
EXTENDS Sync
\* the first comment is on issue 2, the others on issue 1
OnIssue == [c \in Comments |-> IF c = 1 THEN 2 ELSE 1]
=============================================================================
