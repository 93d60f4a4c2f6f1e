--------------------------- MODULE MCHciTransport ---------------------------
(* Small instances of HciTransport for TLC.                                *)
EXTENDS HciTransport

Packets(d, h) == [device |-> d, host |-> h]
\* A host that sends until the numbers wrap, and two ends that both send.
MCUses == {[load |-> Packets(0, 5), preempts |-> FALSE],
           [load |-> Packets(1, 2), preempts |-> FALSE],
           [load |-> Packets(1, 1), preempts |-> TRUE]}
=============================================================================
