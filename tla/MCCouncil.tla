----------------------------- MODULE MCCouncil -----------------------------
(***************************************************************************)
(* Values of Council's constants for model checking.  Every caller         *)
(* registers one seat per identity, so a seat is named after its identity. *)
(***************************************************************************)
EXTENDS Council

OwnSeat == [s \in Seat |-> s]
=============================================================================
