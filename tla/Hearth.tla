------------------------------- MODULE Hearth -------------------------------
(***************************************************************************)
(* The Hearth (chronarch_hearth.HearthState): one lock split into a        *)
(* slashable bond leg and a liquidity leg, delay-gated unbonding, slashes, *)
(* quarantine, and the vote liens that keep a position in place while one  *)
(* of its ballots is open.                                                 *)
(*                                                                         *)
(* The code passes the current slot to every operation; here the callers'  *)
(* clock is the variable slot, which Tick advances up to MaxSlot.          *)
(*                                                                         *)
(* Operators marked "Slip" are not part of the model: each is a plausible  *)
(* bug in the definition after it, by which the properties are shown able  *)
(* to fail (the mutants of PROJECT.json).                                  *)
(***************************************************************************)
EXTENDS Integers, FiniteSetsExt

CONSTANTS
    Identity,       \* owners of positions
    Proposal,       \* open obligations: a lien's tag is "ballot:<proposal>"
    Amounts,        \* the chronons a lock may carry
    BondLegBps,     \* HEARTH_BOND_LEG_BPS
    UnbondDelay,    \* UNBOND_DELAY_SLOTS
    Leavers,        \* identities whose owner may want to unbond
    Suspects,       \* identities the immune layer may quarantine or slash
    MaxSlot         \* bound on the clock

Bps == 10000

BondOf(chronons) == (chronons * BondLegBps) \div Bps

ASSUME AmountsAssumption ==
    /\ Amounts \subseteq Nat \ {0}
    /\ \A a \in Amounts : BondOf(a) \in 0..a
ASSUME DelayAssumption == UnbondDelay \in Nat /\ MaxSlot \in Nat
\* Identities are hashes of a fixed length.
ASSUME IdentityAssumption ==
    /\ IsFiniteSet(Identity)
    /\ Leavers \subseteq Identity /\ Suspects \subseteq Identity

NoRequest == -1

Position == [held : BOOLEAN, bond : Nat, liquidity : Nat,
             unbond : Nat \cup {NoRequest},
             slashed : BOOLEAN, quarantined : BOOLEAN]

\* What an identity without a position is recorded as.
NoPosition == [held |-> FALSE, bond |-> 0, liquidity |-> 0,
               unbond |-> NoRequest, slashed |-> FALSE, quarantined |-> FALSE]

VARIABLES
    slot,
    position,   \* identity -> its position, or NoPosition
    liens,      \* identity -> its open obligations
    lp,         \* lp_chronos, the liquidity inventory
    treasury    \* identity -> chronons slashed from it: treasury_chronons is
                \* the sum of this function

hearthVars == <<position, liens, lp, treasury>>

HearthTypeOK ==
    /\ slot \in 0..MaxSlot
    /\ position \in [Identity -> Position]
    /\ liens \in [Identity -> SUBSET Proposal]
    /\ lp \in Int
    /\ treasury \in [Identity -> Nat]

HearthInit ==
    /\ slot = 0
    /\ position = [i \in Identity |-> NoPosition]
    /\ liens = [i \in Identity |-> {}]
    /\ lp = 0
    /\ treasury = [i \in Identity |-> 0]

-----------------------------------------------------------------------------
Held(i) == position[i].held

Liabilities(i) == position[i].bond + position[i].liquidity

TotalLiquidity ==
    SumFunctionOnSet([i \in Identity |-> position[i].liquidity], Identity)

\* (Slip: the position is marked but keeps its bond.)
Slashed_KeepsBond(pos, S) ==
    [i \in Identity |->
        IF i \in S /\ pos[i].held THEN [pos[i] EXCEPT !.slashed = TRUE] ELSE pos[i]]

(***************************************************************************)
(* Slashing a set of identities: each one that has a position loses its    *)
(* whole bond leg to the treasury, whatever it was, and is marked.         *)
(***************************************************************************)
Slashed(pos, S) ==
    [i \in Identity |->
        IF i \in S /\ pos[i].held
        THEN [pos[i] EXCEPT !.bond = 0, !.slashed = TRUE]
        ELSE pos[i]]

\* (Slip: the liquidity leg is credited too.)
Seized_BothLegs(S) ==
    [i \in Identity |-> treasury[i] + IF i \in S THEN Liabilities(i) ELSE 0]

Seized(S) ==
    [i \in Identity |-> treasury[i] + IF i \in S THEN position[i].bond ELSE 0]

SlashAll(S) ==
    /\ position' = Slashed(position, S)
    /\ treasury' = Seized(S)

\* (Slip: the liens are not cleared.)
Unliened_Forgotten(S, p) == liens

Unliened(S, p) ==
    [i \in Identity |-> IF i \in S THEN liens[i] \ {p} ELSE liens[i]]

-----------------------------------------------------------------------------
Tick ==
    /\ slot < MaxSlot
    /\ slot' = slot + 1
    /\ UNCHANGED hearthVars

\* (Slip: the legs are subtracted the wrong way round.)
Lock_Inverted(i, chronons) ==
    /\ chronons > 0
    /\ ~Held(i)
    /\ position' = [position EXCEPT ![i] =
           [NoPosition EXCEPT !.held = TRUE,
                              !.bond = BondOf(chronons),
                              !.liquidity = BondOf(chronons) - chronons]]
    /\ lp' = lp + (chronons - BondOf(chronons))
    /\ UNCHANGED <<slot, liens, treasury>>

Lock(i, chronons) ==
    /\ chronons > 0
    /\ ~Held(i)
    /\ position' = [position EXCEPT ![i] =
           [NoPosition EXCEPT !.held = TRUE,
                              !.bond = BondOf(chronons),
                              !.liquidity = chronons - BondOf(chronons)]]
    /\ lp' = lp + (chronons - BondOf(chronons))
    /\ UNCHANGED <<slot, liens, treasury>>

\* A repeated request restarts the delay.
RequestUnbond(i) ==
    /\ Held(i)
    /\ position' = [position EXCEPT ![i].unbond = slot]
    /\ UNCHANGED <<slot, liens, lp, treasury>>

\* (Slip: release before there were liens.)
Releasable_Unliened(i) ==
    /\ Held(i)
    /\ position[i].unbond >= 0
    /\ slot >= position[i].unbond + UnbondDelay
    /\ ~position[i].quarantined

Releasable(i) ==
    /\ Held(i)
    /\ position[i].unbond >= 0
    /\ slot >= position[i].unbond + UnbondDelay
    /\ liens[i] = {}
    /\ ~position[i].quarantined

\* (Slip: the pool is not debited.)
Release_KeepsPool(i) ==
    /\ Releasable(i)
    /\ position' = [position EXCEPT ![i] = NoPosition]
    /\ UNCHANGED <<slot, liens, lp, treasury>>

Release(i) ==
    /\ Releasable(i)
    /\ lp' = lp - position[i].liquidity
    /\ position' = [position EXCEPT ![i] = NoPosition]
    /\ UNCHANGED <<slot, liens, treasury>>

Slash(i) ==
    /\ Held(i)
    /\ SlashAll({i})
    /\ UNCHANGED <<slot, liens, lp>>

Quarantine(i) ==
    /\ Held(i)
    /\ position' = [position EXCEPT ![i].quarantined = TRUE]
    /\ UNCHANGED <<slot, liens, lp, treasury>>

LiftQuarantine(i) ==
    /\ Held(i)
    /\ position' = [position EXCEPT ![i].quarantined = FALSE]
    /\ UNCHANGED <<slot, liens, lp, treasury>>

AddLien(i, p) ==
    /\ Held(i)
    /\ liens' = [liens EXCEPT ![i] = @ \cup {p}]
    /\ UNCHANGED <<slot, position, lp, treasury>>

ClearLien(i, p) ==
    /\ liens' = Unliened({i}, p)
    /\ UNCHANGED <<slot, position, lp, treasury>>

-----------------------------------------------------------------------------
\* What owners do to their positions, and what the immune layer (gym
\* findings, admission of an override claim) does to those of its suspects.
PositionStep ==
    \/ \E i \in Identity, a \in Amounts : Lock(i, a)
    \/ \E i \in Leavers : RequestUnbond(i) \/ Release(i)
    \/ \E i \in Suspects : Quarantine(i) \/ LiftQuarantine(i) \/ Slash(i)

HearthNext ==
    \/ Tick
    \/ PositionStep
    \/ \E i \in Identity, p \in Proposal : AddLien(i, p) \/ ClearLien(i, p)

HearthSpec == HearthInit /\ [][HearthNext]_<<slot, hearthVars>>

-----------------------------------------------------------------------------
(***************************************************************************)
(* G14: a lien pins the position it was taken on.  No path (release,       *)
(* slash to nothing, re-lock) leaves an open lien on an identity that has  *)
(* no position for the slash to land on.                                   *)
(***************************************************************************)
LienPinsPosition == \A i \in Identity : liens[i] # {} => Held(i)

(***************************************************************************)
(* I9: the pool holds exactly the liquidity the open positions can         *)
(* reclaim, over every order of locks, slashes and releases (solvency():   *)
(* inventory equals liabilities to the chronon).                           *)
(***************************************************************************)
Solvent == lp = TotalLiquidity

(***************************************************************************)
(* A slashed position has no bond left and does not get it back while it   *)
(* is held: neither quarantine nor an unbond request launders a slash.     *)
(***************************************************************************)
SlashedHasNoBond ==
    \A i \in Identity : position[i].slashed => Held(i) /\ position[i].bond = 0

(***************************************************************************)
(* Chronons are neither minted nor burnt inside the Hearth: what an        *)
(* identity can reclaim plus what was seized from it changes only when it  *)
(* locks (from nothing) or is released (to nothing), and a release leaves  *)
(* the treasury alone (slash never raids the liquidity leg, G13).          *)
(***************************************************************************)
ConservesValue ==
    \A i \in Identity :
        IF position'[i].held = position[i].held
        THEN Liabilities(i)' + treasury'[i] = Liabilities(i) + treasury[i]
        ELSE treasury'[i] = treasury[i]

ValueConserved == [][ConservesValue]_<<position, treasury>>
=============================================================================
