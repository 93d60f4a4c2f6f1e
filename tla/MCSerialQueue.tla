--------------------------- MODULE MCSerialQueue ---------------------------
(* The hosts of the runs: one that waits for the device, and ones that do   *)
(* not.                                                                     *)
EXTENDS SerialQueue

PacedHost == [window |-> 1, packets |-> 5, kinds |-> {"DATA"}, preempts |-> TRUE]
FloodHost == [window |-> 6, packets |-> 6, kinds |-> Kind, preempts |-> FALSE]
MCHosts   == {PacedHost, FloodHost}
MCWindow4 == {[window |-> 4, packets |-> 12, kinds |-> {"DATA"}, preempts |-> FALSE]}
=============================================================================
