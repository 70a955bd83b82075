---------------------------- MODULE MCLogStream ----------------------------
EXTENDS LogStream, TLC

=============================================================================
