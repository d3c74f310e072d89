--------------------------- MODULE MCHealthFlag ---------------------------
(* Every part around one backend; outlier detection over two; slow start   *)
(* with concurrent requests.                                               *)
EXTENDS HealthFlag

MCSetups == {
    [fleet |-> {"b1"}, parts |-> {"breaker", "outlier"}, clients |-> {"r1"},
     admin |-> 1, turns |-> 2],
    [fleet |-> {"b1", "b2"}, parts |-> {"outlier"}, clients |-> {"r1"},
     admin |-> 0, turns |-> 2],
    [fleet |-> {"b1"}, parts |-> {"slow"}, clients |-> {"r1", "r2"},
     admin |-> 1, turns |-> 1]}
===========================================================================
