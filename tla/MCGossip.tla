------------------------------ MODULE MCGossip ------------------------------
EXTENDS Gossip

\* Any draw.
AllDraws == [1..Slots -> Node]
=============================================================================
