------------------------------- MODULE MC_Heap -------------------------------
EXTENDS Heap
==============================================================================
