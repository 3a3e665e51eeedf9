-------------------------- MODULE MCCloseLifecycle --------------------------
EXTENDS CloseLifecycle, TLC

=============================================================================
