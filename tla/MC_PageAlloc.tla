---------------------------- MODULE MC_PageAlloc ----------------------------
EXTENDS PageAlloc
=============================================================================
