------------------------------ MODULE MCBSPage ------------------------------
EXTENDS BSPage
=============================================================================
