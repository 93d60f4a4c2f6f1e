--------------------------- MODULE MCDfuSingleBank ---------------------------
(* Small instances of DfuSingleBank for TLC.                               *)
EXTENDS DfuSingleBank

Packet(m, s, b, a) == [mode |-> m, sd |-> s, bl |-> b, app |-> a, words |-> TRUE]

MCWord   == {1, 2}
MCImages == {<<1, 2>>, <<2, 1, 1>>}
MCSwd    == {<<2>>}
\* Application updates: both images, one that is too large, one that is refused.
MCAppPackets ==
  {Packet({"APP"}, 0, 0, 2), Packet({"APP"}, 0, 0, 3), Packet({"APP"}, 0, 0, 5),
   [Packet({"APP"}, 0, 0, 2) EXCEPT !.words = FALSE]}
MCAllPackets == MCAppPackets \cup
  {Packet({"SD"}, 2, 0, 0), Packet({"BL"}, 0, 2, 0), Packet({"BL"}, 0, 3, 0),
   Packet({"SD", "BL"}, 1, 2, 0), Packet({"SD"}, 0, 0, 2), Packet({"SD", "APP"}, 0, 0, 2)}
\* One small image, for liveness.
MCOneImage   == {<<1, 2>>}
MCOnePacket  == {Packet({"APP"}, 0, 0, 2)}
MCLoopPackets == {Packet({"APP"}, 0, 0, 2), Packet({"SD"}, 2, 0, 0)}
=============================================================================
