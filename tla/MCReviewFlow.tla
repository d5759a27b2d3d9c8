---------------------------- MODULE MCReviewFlow ----------------------------
\* What TLC needs for one instance of ReviewFlow: its configurations show where
\* the code does otherwise than a comment of it says.
EXTENDS ReviewFlow

\* A constraint: one actor at a time, for a trace that needs no race.
OneActor == Cardinality(Busy) + Cardinality(Live) + (IF pub > 0 THEN 1 ELSE 0) <= 1

=============================================================================
