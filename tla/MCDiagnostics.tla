--------------------------- MODULE MCDiagnostics ---------------------------
EXTENDS Diagnostics, TLC

CONSTANTS m1, m2, m3, m4, count

MCMessage == {m1, m2, m3, m4}
MCCount == count
=============================================================================
