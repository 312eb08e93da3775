----------------------------- MODULE MCUpgrade -----------------------------
(***************************************************************************)
(* Values of Upgrade's constants for model checking.  The law beyond any   *)
(* vote is g.1.  p registers code and amends law 14; q hides a law's name  *)
(* in a nested value, after law 14's, in capitals and with another         *)
(* separator.                                                              *)
(***************************************************************************)
EXTENDS Upgrade, Legality

CONSTANTS seed, kernelCode, x, y, p, q

OwnSeat == [s \in Seat |-> s]
SeedCode == [n \in {seed} |-> kernelCode]
OwnCode == [r \in Proposal |-> IF r = p THEN x ELSE y]

MCPattern == {<<"g", ".", "1">>}
MCLowerCase == [c \in {"g", "G", ".", "_", "1", "4"} |-> IF c = "G" THEN "g" ELSE c]
MCChanges == [r \in Proposal |->
    IF r = p THEN {[path |-> <<"g", ".", "1", "4">>, value |-> {<< <<"4">> >>}]}
    ELSE {[path |-> <<"4">>, value |-> {<< <<"_">>, <<"g", ".", "1", "4", "G", "_", "1">> >>}]}]
MCLegal == Lawful
=============================================================================
