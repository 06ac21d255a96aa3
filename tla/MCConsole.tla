------------------------------- MODULE MCConsole -------------------------------
EXTENDS Console
CONSTANTS w1, w2, s1, s2, c1, c2, d1, d2
MCHome == [i \in Sessions \union Contacts \union Documents |-> w1]
=============================================================================
