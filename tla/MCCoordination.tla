--------------------------- MODULE MCCoordination ---------------------------
EXTENDS Coordination
CONSTANTS h1, h2, nohost, gone, i1, i2
\* comments 1 and 2 on the first issue, 3 on the second
OnIssue == [m \in Msgs |-> IF m = 3 THEN i2 ELSE i1]
\* one comment on each issue
OnOwnIssue == [m \in Msgs |-> IF m = 1 THEN i1 ELSE i2]
=============================================================================
