------------------------------ MODULE MCSniCores ------------------------------
EXTENDS SniCores
=============================================================================
