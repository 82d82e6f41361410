--------------------------- MODULE MCManualEdits ---------------------------
EXTENDS ManualEdits

CONSTANTS s1, s2
=============================================================================
