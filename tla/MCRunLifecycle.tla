--------------------------- MODULE MCRunLifecycle ---------------------------
\* RunLifecycle for TLC: the runs' configurations give the constants their values.
EXTENDS RunLifecycle
=============================================================================
