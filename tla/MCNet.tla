------------------------------- MODULE MCNet -------------------------------
\* A small instance of NetChannel for TLC: bytes are bits, so the largest frame
\* holds 7 bytes and packet numbers wrap around after two frames.
EXTENDS NetChannel

\* A packet of each length given, with contents that show a shift.
Lengths == {0, 1, 3, 6, 7, 8, 15}
MCPackets == { SubSeq(<<1, 0, 0, 1, 1, 1, 0, 1, 1, 0, 0, 1, 0, 1, 1>>, 1, n) : n \in Lengths }
=============================================================================
