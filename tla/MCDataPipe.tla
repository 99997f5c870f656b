------------------------------ MODULE MCDataPipe ------------------------------
EXTENDS DataPipe

CONSTANTS t1, t2
===============================================================================
