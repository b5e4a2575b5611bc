-------------------------- MODULE MCFrameHeader --------------------------
(* FrameHeader with every low byte, and every kind of byte above it.       *)
EXTENDS FrameHeader

\* Every low byte; zero, white space and newline in the bytes above it.
MCLengths == {16777216 * a + 65536 * b + 256 * h + l :
                a \in {0, 10}, b \in {0, 10}, h \in {0, 9, 10, 32}, l \in 0..255}
=============================================================================
