--------------------------- MODULE MCTempRootsFile ---------------------------
EXTENDS TempRootsFile
=============================================================================
