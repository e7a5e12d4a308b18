---------------------------- MODULE MCLogFormat ----------------------------
EXTENDS LogFormat
=============================================================================
