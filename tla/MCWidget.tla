------------------------------- MODULE MCWidget -------------------------------
EXTENDS Widget, TLC
CONSTANTS i1, o1
=============================================================================
