------------------------------ MODULE MCIntake ------------------------------
EXTENDS Intake
CONSTANTS admin, listed, opener, stranger
\* comments 1 and 2 by the opener, 3 by a listed user, 4 by a stranger
By4 == [c \in Comments |-> CASE c \in {1, 2} -> opener [] c = 3 -> listed [] OTHER -> stranger]
=============================================================================
