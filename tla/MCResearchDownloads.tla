------------------------ MODULE MCResearchDownloads ------------------------
EXTENDS ResearchDownloads

CONSTANTS d1, d2

\* Two downloads fit the byte quota of the cfg only if both are the small one.
UnequalSizes == [d \in {d1, d2} |-> IF d = d1 THEN 1 ELSE 2]

=============================================================================
