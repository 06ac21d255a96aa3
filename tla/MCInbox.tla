------------------------------- MODULE MCInbox -------------------------------
EXTENDS Inbox, TLC
CONSTANTS k1, k2, w1
MCOf == k1 :> w1 @@ k2 :> w1
=============================================================================
