------------------------------ MODULE MCLinks ------------------------------
EXTENDS Links
=============================================================================
