------------------------------ MODULE MCAgent ------------------------------
(* A small instance of Agent for TLC. *)
EXTENDS Agent

CONSTANTS f1, c1, o1, o2, p1

MCKernelCode == [n \in Kernel |-> c1]
MCReleaseOf == [a \in Artifact |-> p1]
=============================================================================
