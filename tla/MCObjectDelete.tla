--------------------------- MODULE MCObjectDelete ---------------------------
EXTENDS ObjectDelete

MCKeys == 1..5
=============================================================================
