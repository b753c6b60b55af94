----------------------------- MODULE MCWorldStop -----------------------------
EXTENDS WorldStop

CONSTANT c1
=============================================================================
