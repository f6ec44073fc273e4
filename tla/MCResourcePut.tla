-------------------------- MODULE MCResourcePut --------------------------
(* The label and one geo resource: the geo handlers differ in nothing but *)
(* the key, and never touch each other's.                                 *)
EXTENDS ResourcePut

CONSTANTS lat

OneGeo == {lat}

\* mbed_app.json names a default label and no default position
NoPosition == [r \in Resources |-> IF r = Label THEN CHOOSE v \in Values : TRUE ELSE Blank]
==========================================================================
