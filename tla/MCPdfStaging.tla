---------------------------- MODULE MCPdfStaging ----------------------------
EXTENDS PdfStaging

CONSTANTS a, s1, s2, s3

\* Three calls of stage() with the same bytes.
SameBytes == [s \in {s1, s2, s3} |-> a]

=============================================================================
