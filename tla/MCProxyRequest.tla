--------------------------- MODULE MCProxyRequest ---------------------------
(***************************************************************************)
(* Small instances of ProxyRequest for TLC.                                *)
(***************************************************************************)
EXTENDS ProxyRequest, TLC

CONSTANTS b1, b2, q1, q2

\* The first backend takes one connection, the others any number.
OneCapped == [be \in Backend |-> IF be = b1 THEN 1 ELSE 0]

AllOutcomes == Outcomes
=============================================================================
