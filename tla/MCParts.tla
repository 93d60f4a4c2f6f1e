------------------------------- MODULE MCParts -------------------------------
(***************************************************************************)
(* Small instances of the components of Parts, in one run.                 *)
(***************************************************************************)
EXTENDS Parts

CONSTANT t1
OneTimer == {t1}

\* hci_slip.c: the frames and sizes of MCSlip.
LineData == {<<"x", "END", "ESC">>, <<"ESC_END", "x", "ESC_ESC">>}
LineAcks == {<<"x">>}

\* dfu_dual_bank.c: two banks of two chunks, an image that does not fit, and no
\* two images with one beginning in common but for a SoftDevice.
OldImage == <<1, 2>>
MCUpdates == {[kind |-> "APP", image |-> <<2, 1>>], [kind |-> "APP", image |-> <<2, 2, 2>>],
              [kind |-> "BL", image |-> <<1, 1>>], [kind |-> "SD", image |-> <<2, 2, 1>>]}
=============================================================================
