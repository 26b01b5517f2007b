------------------------------ MODULE MCCalls ------------------------------
EXTENDS Calls

CONSTANTS c1, c2

MCCall == {c1, c2}
=============================================================================
