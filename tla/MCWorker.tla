------------------------------ MODULE MCWorker ------------------------------
\* Constants of Worker for TLC are given in the .cfg file.
EXTENDS Worker
=============================================================================
