--------------------------- MODULE MCConnections ---------------------------
EXTENDS Connections

CONSTANTS s1, s2, s3

ThreeConns == {s1, s2, s3}
=============================================================================
