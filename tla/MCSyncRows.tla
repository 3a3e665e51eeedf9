----------------------------- MODULE MCSyncRows -----------------------------
EXTENDS SyncRows, TLC

=============================================================================
