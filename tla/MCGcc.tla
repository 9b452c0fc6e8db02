------------------------------- MODULE MCGcc -------------------------------
EXTENDS Gcc, GccBlocks
=============================================================================
