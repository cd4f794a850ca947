---------------------------- MODULE MCEventLog ----------------------------
EXTENDS EventLog

TheSecond == {2}
=============================================================================
