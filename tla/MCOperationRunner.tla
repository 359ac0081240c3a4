------------------------- MODULE MCOperationRunner -------------------------
EXTENDS OperationRunner

CONSTANTS c1, c2
=============================================================================
