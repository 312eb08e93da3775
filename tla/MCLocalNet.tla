----------------------------- MODULE MCLocalNet -----------------------------
(* A small instance of LocalNet for TLC. *)
EXTENDS LocalNet

CONSTANTS h1, h2, h3, w1, k1, x1, z1

MCHomes == <<h2, h1, h3>>
MCSorted == <<h1, h2, h3>>
MCDraws == {<<h1, h2, h1, h3>>}
\* k1 as it is pinned, the same object in bytes that are not canonical, and one
\* that cannot be put again.
MCNamed == <<k1, x1, z1>>
MCStoredAs == [o \in {k1, x1, z1} |-> IF o = z1 THEN "raises" ELSE k1]
=============================================================================
