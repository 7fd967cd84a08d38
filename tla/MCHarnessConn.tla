---- MODULE MCHarnessConn ----
EXTENDS HarnessConn, TLC
====
