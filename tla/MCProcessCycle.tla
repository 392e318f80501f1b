--------------------------- MODULE MCProcessCycle ---------------------------
\* Constants of ProcessCycle for TLC are given in the .cfg files.
EXTENDS ProcessCycle
=============================================================================
