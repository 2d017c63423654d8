--------------------------- MODULE MCSuperVersion ---------------------------
EXTENDS SuperVersion, TLC
=============================================================================
