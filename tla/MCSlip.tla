------------------------------- MODULE MCSlip -------------------------------
\* Two data frames with every byte that the encoding knows, and one
\* acknowledgement; the sizes keep their order (ACK < ack buffer < data <
\* buffer < two data frames).
EXTENDS Slip
TwoData == {<<"x", "END", "ESC">>, <<"ESC_END", "x", "ESC_ESC">>}
OneAck == {<<"x">>}
=============================================================================
