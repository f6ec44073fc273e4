----------------------------- MODULE MCDisplay -----------------------------
(* An instance of Display for TLC: one sensor of dht_read() and the label   *)
(* have two statuses, so that one can be out of date.                       *)
EXTENDS Display

MCStatuses == [s \in Names |-> IF s \in {"Temp", "Label"} THEN {1, 2} ELSE {1}]
=============================================================================
