---------------------------- MODULE MCWorkQueue ----------------------------
\* WorkQueue for TLC.
EXTENDS WorkQueue
=============================================================================
