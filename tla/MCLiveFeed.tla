------------------------------ MODULE MCLiveFeed ------------------------------
(* Small instances of LiveFeed for TLC. *)
EXTENDS LiveFeed

CONSTANTS s1, s2, b1

\* Bars of the first symbol.
BarsOfFirst == [b \in Bars |-> s1]
=============================================================================
