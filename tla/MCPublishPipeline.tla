------------------------- MODULE MCPublishPipeline -------------------------
\* The instances of PublishPipeline that TLC checks.
EXTENDS PublishPipeline, TLC

CONSTANTS i1, i2

\* i1 is gated by every scope, any other item by the global flag alone.
MCScopesOf == [i \in Items |-> IF i = i1 THEN Scopes ELSE {}]

TaskSymmetry == Permutations(Tasks)
ProcTaskSymmetry == Permutations(Tasks) \cup Permutations(Procs)
=============================================================================
