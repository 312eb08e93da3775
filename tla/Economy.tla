------------------------------ MODULE Economy ------------------------------
(***************************************************************************)
(* What a won slot pays and what compute is payable (rewards.py and        *)
(* compute.py of chronarch_core), as operators: LocalNet wins the slots    *)
(* and keeps the credits.                                                  *)
(***************************************************************************)
EXTENDS Naturals, FiniteSets, Functions

CONSTANTS
    SpaceShare, PinShare, ComputeShare, TreasuryShare,   \* chronons
    Treasury                                             \* the sink account

ASSUME ShareAssumption ==
    SpaceShare \in Nat /\ PinShare \in Nat /\ ComputeShare \in Nat /\ TreasuryShare \in Nat

SlotReward == SpaceShare + PinShare + ComputeShare + TreasuryShare

Credit(account, amount, reason) ==
    [account |-> account, amount |-> amount, reason |-> reason]
Total(credits) == SumFunctionOnSet([c \in credits |-> c.amount], credits)

\* A pot is split evenly over distinct accounts; what nobody gets, the whole
\* pot or the dust, is the treasury's.
Each(accounts, pot) == pot \div Cardinality(accounts)
Split(accounts, pot, reason) ==
    {Credit(a, Each(accounts, pot), reason) : a \in accounts}

\* (Slip: the dust of a pot is nobody's.)
Unpaid_NoDust(accounts, pot) == IF accounts = {} THEN pot ELSE 0

Unpaid(accounts, pot) ==
    IF accounts = {} THEN pot ELSE pot - Each(accounts, pot) * Cardinality(accounts)

RewardSlot(leader, pinOk, workers) ==
    {Credit(leader, SpaceShare, "space")}
        \cup Split(pinOk, PinShare, "pin")
        \cup Split(workers, ComputeShare, "compute")
        \cup {Credit(Treasury,
                     TreasuryShare + Unpaid(pinOk, PinShare) + Unpaid(workers, ComputeShare),
                     "treasury")}

----------------------------------------------------------------------------
\* A receipt by what attest_compute finds out about it: the job it names, if
\* it is a closed-schema receipt; whether that job runs here (a live faculty
\* on an input in the store, a gym case of the catalog whose oracle passes);
\* whether the output it commits to is the one the job gives.
Receipt(Worker) ==
    {r \in [worker : Worker, job : {"malformed", "dummymind", "gym"}, runs : BOOLEAN, genuine : BOOLEAN] :
        r.genuine => r.job # "malformed" /\ r.runs}

\* make_compute_receipt does the work, so what it builds attests.
Made(worker) == [worker |-> worker, job |-> "dummymind", runs |-> TRUE, genuine |-> TRUE]

\* (Slip: the output hash is taken on trust.)
Attested_Trusting(r) == r.job # "malformed" /\ r.runs

Attested(r) == r.job # "malformed" /\ r.runs /\ r.genuine
=============================================================================
