---- MODULE MCSync ----
EXTENDS CircuitSync
====
