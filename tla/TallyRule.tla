----------------------------- MODULE TallyRule -----------------------------
(***************************************************************************)
(* The tally rule of COUNCIL.md 6, as CouncilState.tally computes it from  *)
(* a vote's eligibility snapshot and its ballots.                          *)
(***************************************************************************)
EXTENDS Integers, FiniteSetsExt

CONSTANTS
    Seat,
    WeightNum, WeightDen   \* COUNCIL_APPROVE_WEIGHT_NUM / _DEN

ASSUME ThresholdAssumption == WeightNum \in Nat /\ WeightDen \in Nat \ {0}

Votes == {"yes", "no", "abstain"}
Settled == {"approved", "rejected", "expired", "invalid"}
Ballots == [Seat -> Votes \cup {"none"}]

\* w maps a seat to its eligible weight (0: not eligible), b to its vote.
Weight(w, S) == SumFunctionOnSet(w, S)

Cast(b) == {s \in Seat : b[s] # "none"}
Yes(b) == {s \in Seat : b[s] = "yes"}

\* Both thresholds are measured against the eligible totals.
Carries(w, b) ==
    /\ Weight(w, Yes(b)) * WeightDen >= Weight(w, Seat) * WeightNum
    /\ Cardinality(Yes(b)) * 2 > Cardinality({s \in Seat : w[s] > 0})

\* (Slip: the thresholds are measured against the votes cast.)
OutcomeOf_VotesCast(w, b, legal, late) ==
    LET carried == Carries([s \in Seat |-> IF s \in Cast(b) THEN w[s] ELSE 0], b)
    IN  CASE carried /\ legal -> "approved"
          [] carried /\ ~legal -> "invalid"
          [] ~carried /\ late /\ Cast(b) = {} -> "expired"
          [] OTHER -> "rejected"

\* legal: check_legality passes; late: the deadline has passed.
OutcomeOf(w, b, legal, late) ==
    CASE Carries(w, b) /\ legal -> "approved"
      [] Carries(w, b) /\ ~legal -> "invalid"
      [] ~Carries(w, b) /\ late /\ Cast(b) = {} -> "expired"
      [] OTHER -> "rejected"
=============================================================================
