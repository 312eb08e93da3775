--------------------------- MODULE CouncilProofs ---------------------------
(***************************************************************************)
(* Proofs about the Hearth and the Council over it, for every finite set   *)
(* of identities, every set of seats and proposals and every value of the  *)
(* charter's numbers.  The lemmas about the Hearth are about single steps, *)
(* so that they serve its own specification and the Council's.             *)
(***************************************************************************)
EXTENDS Council, Induction


(***************************************************************************)
(* LienPinsPosition is inductive once positions have their type; slashes   *)
(* stay put because a release forgets the whole position.  That nothing    *)
(* is left where no position is held is what conservation and solvency     *)
(* rest on.                                                                *)
(***************************************************************************)
UnheldIsEmpty == \A i \in Identity : ~Held(i) => position[i] = NoPosition

HearthInv ==
    HearthTypeOK /\ LienPinsPosition /\ SlashedHasNoBond /\ UnheldIsEmpty /\ Solvent

\* What the assumptions say of the constants.
LEMMA ConstantTypes ==
    /\ MaxSlot \in Nat /\ UnbondDelay \in Nat
    /\ IsFiniteSet(Identity)
    /\ Leavers \subseteq Identity /\ Suspects \subseteq Identity
    /\ NoPosition \in Position
BY DelayAssumption, IdentityAssumption DEF NoPosition, Position, NoRequest

(***************************************************************************)
(* What slashing a set of identities does to one position: nothing, or the *)
(* bond goes and the mark comes.                                           *)
(***************************************************************************)
LEMMA SlashedFacts ==
    ASSUME position \in [Identity -> Position], NEW S
    PROVE  /\ Slashed(position, S) \in [Identity -> Position]
           /\ \A i \in Identity :
                 LET pos == Slashed(position, S)[i]
                 IN  /\ pos.held = position[i].held
                     /\ pos.liquidity = position[i].liquidity
                     /\ pos.unbond = position[i].unbond
                     /\ pos.quarantined = position[i].quarantined
                     /\ i \in S /\ position[i].held => pos.slashed /\ pos.bond = 0
                     /\ ~(i \in S /\ position[i].held) => pos = position[i]
BY DEF Slashed, Position

\* A seizure takes numbers.
LEMMA SeizedType ==
    ASSUME HearthTypeOK, NEW S
    PROVE  Seized(S) \in [Identity -> Nat]
BY DEF HearthTypeOK, Seized, Position

(***************************************************************************)
(* Solvency.  The sum over the positions follows the one position that     *)
(* changes its liquidity, and does not see any other change.               *)
(***************************************************************************)
LEMMA PoolFollows ==
    ASSUME HearthTypeOK, HearthTypeOK', Solvent, NEW i \in Identity,
           \A j \in Identity \ {i} : position'[j].liquidity = position[j].liquidity,
           lp' = lp + (position'[i].liquidity - position[i].liquidity)
    PROVE  Solvent'
<1> DEFINE f == [j \in Identity |-> position[j].liquidity]
           g == [j \in Identity |-> position'[j].liquidity]
<1>1. \A j \in Identity : f[j] \in Int /\ g[j] \in Int
    BY DEF HearthTypeOK, Position
<1>2. \A j \in Identity \ {i} : f[j] = g[j]
    OBVIOUS
<1>3. TotalLiquidity = SumFunctionOnSet(f, Identity)
      /\ TotalLiquidity' = SumFunctionOnSet(g, Identity)
      /\ f[i] = position[i].liquidity /\ g[i] = position'[i].liquidity
    BY DEF TotalLiquidity
<1> HIDE DEF f, g
<1>4. SumFunctionOnSet(g, Identity) = SumFunctionOnSet(f, Identity) + (g[i] - f[i])
    BY <1>1, <1>2, ConstantTypes, SumUpdate
<1> QED BY <1>3, <1>4 DEF Solvent

\* The pool stays solvent while it and what is withdrawable are untouched.
LEMMA PoolStays ==
    ASSUME Solvent, lp' = lp,
           \A j \in Identity : position'[j].liquidity = position[j].liquidity
    PROVE  Solvent'
<1>1. [j \in Identity |-> position'[j].liquidity] = [j \in Identity |-> position[j].liquidity]
    OBVIOUS
<1>2. TotalLiquidity' = TotalLiquidity
    BY <1>1 DEF TotalLiquidity
<1> QED BY <1>2 DEF Solvent

\* A slot passes.
LEMMA TickKeeps == HearthInv /\ Tick => HearthInv'
BY ConstantTypes DEF HearthInv, HearthTypeOK, LienPinsPosition, SlashedHasNoBond, UnheldIsEmpty,
    Solvent, TotalLiquidity, Tick, hearthVars, Held

\* A position is opened.
LEMMA LockKeeps ==
    ASSUME HearthInv, NEW i \in Identity, NEW a \in Amounts, Lock(i, a)
    PROVE  HearthInv'
<1>1. BondOf(a) \in Nat /\ a - BondOf(a) \in Nat /\ a \in Nat
    BY AmountsAssumption
<1>2. position' \in [Identity -> Position]
    BY <1>1 DEF HearthInv, HearthTypeOK, Lock, NoPosition, Position, NoRequest
<1>3. HearthTypeOK'
    BY <1>1, <1>2 DEF HearthInv, HearthTypeOK, Lock
<1>4. LienPinsPosition' /\ SlashedHasNoBond' /\ UnheldIsEmpty'
    BY <1>1 DEF HearthInv, HearthTypeOK, LienPinsPosition, SlashedHasNoBond, UnheldIsEmpty,
        Lock, NoPosition, Position, Held
<1>5. Solvent'
    <2>1. /\ position'[i].liquidity = a - BondOf(a)
          /\ \A j \in Identity \ {i} : position'[j].liquidity = position[j].liquidity
          /\ lp' = lp + (a - BondOf(a))
        BY DEF HearthInv, HearthTypeOK, Lock, NoPosition
    <2>2. position[i].liquidity = 0
        BY DEF HearthInv, UnheldIsEmpty, Lock, NoPosition
    <2> QED BY <1>1, <1>3, <2>1, <2>2, PoolFollows DEF HearthInv
<1> QED BY <1>3, <1>4, <1>5 DEF HearthInv

\* An unbond is requested.
LEMMA RequestUnbondKeeps ==
    ASSUME HearthInv, NEW i \in Identity, RequestUnbond(i)
    PROVE  HearthInv'
<1>1. HearthTypeOK' /\ LienPinsPosition' /\ SlashedHasNoBond' /\ UnheldIsEmpty'
    BY ConstantTypes DEF HearthInv, HearthTypeOK, LienPinsPosition, SlashedHasNoBond,
        UnheldIsEmpty, RequestUnbond, Position, Held
<1>2. Solvent'
    <2>1. \A j \in Identity : position'[j].liquidity = position[j].liquidity
        BY DEF HearthInv, HearthTypeOK, RequestUnbond, Position
    <2> QED BY <2>1, PoolStays DEF HearthInv, RequestUnbond
<1> QED BY <1>1, <1>2 DEF HearthInv

\* A released position is forgotten whole.
LEMMA ReleaseKeeps ==
    ASSUME HearthInv, NEW i \in Identity, Release(i)
    PROVE  HearthInv'
<1>1. HearthTypeOK'
    BY ConstantTypes DEF HearthInv, HearthTypeOK, Release, Releasable, Position
<1>2. LienPinsPosition' /\ SlashedHasNoBond' /\ UnheldIsEmpty'
    BY DEF HearthInv, HearthTypeOK, LienPinsPosition, SlashedHasNoBond, UnheldIsEmpty,
        Release, Releasable, NoPosition, Position, Held
<1>3. Solvent'
    <2>1. /\ position'[i].liquidity = 0
          /\ \A j \in Identity \ {i} : position'[j].liquidity = position[j].liquidity
          /\ lp' = lp - position[i].liquidity
        BY DEF HearthInv, HearthTypeOK, Release, NoPosition
    <2>2. lp \in Int /\ position[i].liquidity \in Int
        BY DEF HearthInv, HearthTypeOK, Position
    <2> QED BY <1>1, <2>1, <2>2, PoolFollows DEF HearthInv
<1> QED BY <1>1, <1>2, <1>3 DEF HearthInv

\* A quarantine is set or lifted, and moves nothing.
LEMMA QuarantineKeeps ==
    ASSUME HearthInv, NEW i \in Identity, Quarantine(i) \/ LiftQuarantine(i)
    PROVE  HearthInv'
<1>1. PICK b \in BOOLEAN : position' = [position EXCEPT ![i].quarantined = b]
    BY DEF Quarantine, LiftQuarantine
<1>2. Held(i) /\ UNCHANGED <<slot, liens, lp, treasury>>
    BY DEF Quarantine, LiftQuarantine
<1>3. HearthTypeOK'
    BY <1>1, <1>2 DEF HearthInv, HearthTypeOK, Position
<1>4. LienPinsPosition' /\ SlashedHasNoBond' /\ UnheldIsEmpty'
    BY <1>1, <1>2 DEF HearthInv, HearthTypeOK, LienPinsPosition, SlashedHasNoBond, UnheldIsEmpty,
        Position, Held
<1>5. Solvent'
    <2>1. \A j \in Identity : position'[j].liquidity = position[j].liquidity
        BY <1>1 DEF HearthInv, HearthTypeOK, Position
    <2> QED BY <1>2, <2>1, PoolStays DEF HearthInv
<1> QED BY <1>3, <1>4, <1>5 DEF HearthInv

\* A slash takes every bond of those it strikes.
LEMMA SlashAllKeeps ==
    ASSUME HearthInv, NEW S, SlashAll(S), slot' \in 0..MaxSlot, lp' = lp,
           liens' \in [Identity -> SUBSET Proposal],
           \A i \in Identity : liens'[i] # {} => Held(i)
    PROVE  HearthInv'
<1>1. position' = Slashed(position, S) /\ treasury' = Seized(S)
    BY DEF SlashAll
<1>2. HearthTypeOK'
    BY <1>1, SlashedFacts, SeizedType DEF HearthInv, HearthTypeOK
<1>3. LienPinsPosition' /\ SlashedHasNoBond' /\ UnheldIsEmpty'
    BY <1>1, SlashedFacts DEF HearthInv, HearthTypeOK, LienPinsPosition,
        SlashedHasNoBond, UnheldIsEmpty, Held
<1>4. Solvent'
    <2>1. \A j \in Identity : position'[j].liquidity = position[j].liquidity
        BY <1>1, SlashedFacts DEF HearthInv, HearthTypeOK
    <2> QED BY <2>1, PoolStays DEF HearthInv
<1> QED BY <1>2, <1>3, <1>4 DEF HearthInv

\* One is slashed.
LEMMA SlashKeeps ==
    ASSUME HearthInv, NEW i \in Identity, Slash(i)
    PROVE  HearthInv'
BY SlashAllKeeps DEF Slash, HearthInv, HearthTypeOK, LienPinsPosition

\* What an operator or the clock does to positions.
LEMMA PositionStepKeeps == HearthInv /\ PositionStep => HearthInv'
BY LockKeeps, RequestUnbondKeeps, ReleaseKeeps, QuarantineKeeps, SlashKeeps,
    ConstantTypes DEF PositionStep

\* Liens come and go; positions stay.
LEMMA LienStepKeeps ==
    ASSUME HearthInv, NEW i \in Identity, NEW p \in Proposal,
           AddLien(i, p) \/ ClearLien(i, p)
    PROVE  HearthInv'
BY DEF HearthInv, HearthTypeOK, LienPinsPosition, SlashedHasNoBond, UnheldIsEmpty,
    Solvent, TotalLiquidity, AddLien, ClearLien, Unliened, Held

\* Nobody holds anything at first.
LEMMA HearthInitInv == HearthInit => HearthInv
<1> SUFFICES ASSUME HearthInit PROVE HearthInv
    OBVIOUS
<1>1. HearthTypeOK /\ LienPinsPosition /\ SlashedHasNoBond /\ UnheldIsEmpty
    BY ConstantTypes DEF HearthInit, HearthTypeOK, LienPinsPosition,
        SlashedHasNoBond, UnheldIsEmpty, NoPosition
<1>2. Solvent
    <2>1. \A j \in Identity : position[j].liquidity = 0
        BY DEF HearthInit, NoPosition
    <2>2. TotalLiquidity = 0
        BY <2>1, ConstantTypes, SumZero DEF TotalLiquidity
    <2> QED BY <2>2 DEF HearthInit, Solvent
<1> QED BY <1>1, <1>2 DEF HearthInv

\* Nothing happens to the Hearth.
LEMMA HearthStutter == HearthInv /\ UNCHANGED <<slot, hearthVars>> => HearthInv'
BY DEF HearthInv, HearthTypeOK, LienPinsPosition, SlashedHasNoBond, UnheldIsEmpty,
    Solvent, TotalLiquidity, hearthVars, Held

\* The strengthened invariant holds of the Hearth by itself.
LEMMA HearthInvariant == HearthSpec => []HearthInv
<1>1. HearthInv /\ [HearthNext]_<<slot, hearthVars>> => HearthInv'
    BY TickKeeps, PositionStepKeeps, LienStepKeeps, HearthStutter DEF HearthNext
<1> QED BY HearthInitInv, <1>1, PTL DEF HearthSpec

(***************************************************************************)
(* Type correctness of the Hearth.                                         *)
(***************************************************************************)
THEOREM HearthTypeCorrect == HearthSpec => []HearthTypeOK
<1>1. HearthInv => HearthTypeOK
    BY DEF HearthInv
<1> QED BY HearthInvariant, <1>1, PTL

(***************************************************************************)
(* G14: an open lien always has a position under it.                       *)
(***************************************************************************)
THEOREM LiensPin == HearthSpec => []LienPinsPosition
<1>1. HearthInv => LienPinsPosition
    BY DEF HearthInv
<1> QED BY HearthInvariant, <1>1, PTL

(***************************************************************************)
(* A slash is not undone while the position is held.                       *)
(***************************************************************************)
THEOREM SlashSticks == HearthSpec => []SlashedHasNoBond
<1>1. HearthInv => SlashedHasNoBond
    BY DEF HearthInv
<1> QED BY HearthInvariant, <1>1, PTL

(***************************************************************************)
(* I9: the pool is what the open positions can reclaim, for any number of  *)
(* identities and any order of locks, slashes and releases.                *)
(***************************************************************************)
THEOREM HearthIsSolvent == HearthSpec => []Solvent
<1>1. HearthInv => Solvent
    BY DEF HearthInv
<1> QED BY HearthInvariant, <1>1, PTL

\* What a slash takes, the treasury gets.
LEMMA SlashAllConserves ==
    ASSUME HearthInv, NEW S, SlashAll(S)
    PROVE  ConservesValue
<1> SUFFICES ASSUME NEW i \in Identity
             PROVE  /\ position'[i].held = position[i].held
                    /\ Liabilities(i)' + treasury'[i] = Liabilities(i) + treasury[i]
    BY DEF ConservesValue
<1>1. position' = Slashed(position, S) /\ position[i] \in Position /\ treasury[i] \in Nat
    BY DEF SlashAll, HearthInv, HearthTypeOK
<1>2. position[i].bond \in Nat /\ position[i].liquidity \in Nat
    BY <1>1 DEF Position
<1>3. treasury'[i] = treasury[i] + IF i \in S THEN position[i].bond ELSE 0
    BY DEF SlashAll, Seized
<1>4. /\ position'[i].held = position[i].held
      /\ position'[i].liquidity = position[i].liquidity
      /\ i \in S /\ position[i].held => position'[i].bond = 0
      /\ ~(i \in S /\ position[i].held) => position'[i] = position[i]
    BY <1>1, SlashedFacts DEF HearthInv, HearthTypeOK
<1>5. CASE i \in S /\ position[i].held
    BY <1>1, <1>2, <1>3, <1>4, <1>5 DEF Liabilities
<1>6. CASE i \in S /\ ~position[i].held
    <2>1. position[i].bond = 0
        BY <1>6 DEF HearthInv, UnheldIsEmpty, Held, NoPosition
    <2> QED BY <1>1, <1>2, <1>3, <1>4, <1>6, <2>1 DEF Liabilities
<1>7. CASE i \notin S
    BY <1>1, <1>2, <1>3, <1>4, <1>7 DEF Liabilities
<1> QED BY <1>5, <1>6, <1>7

\* No step on a position makes or loses value.
LEMMA PositionStepConserves ==
    ASSUME HearthInv, PositionStep
    PROVE  ConservesValue
<1>1. position \in [Identity -> Position] /\ treasury \in [Identity -> Nat]
    BY DEF HearthInv, HearthTypeOK
<1>2. ASSUME NEW j \in Identity, NEW a \in Amounts, Lock(j, a)
      PROVE  ConservesValue
    <2>1. ~Held(j) /\ position'[j].held /\ treasury' = treasury
          /\ \A i \in Identity : i # j => position'[i] = position[i]
        BY <1>1, <1>2 DEF Lock, NoPosition, Position
    <2> QED BY <1>1, <2>1 DEF ConservesValue, Liabilities, Held
<1>3. ASSUME NEW j \in Identity, Release(j)
      PROVE  ConservesValue
    <2>1. Held(j) /\ ~position'[j].held /\ treasury' = treasury
          /\ \A i \in Identity : i # j => position'[i] = position[i]
        BY <1>1, <1>3 DEF Release, Releasable, NoPosition, Position
    <2> QED BY <1>1, <2>1 DEF ConservesValue, Liabilities, Held
<1>4. ASSUME NEW j \in Identity, RequestUnbond(j) \/ Quarantine(j) \/ LiftQuarantine(j)
      PROVE  ConservesValue
    <2>1. treasury' = treasury
          /\ \A i \in Identity : /\ position'[i].held = position[i].held
                                 /\ position'[i].bond = position[i].bond
                                 /\ position'[i].liquidity = position[i].liquidity
        BY <1>1, <1>4 DEF RequestUnbond, Quarantine, LiftQuarantine, Position
    <2> QED BY <1>1, <2>1 DEF ConservesValue, Liabilities
<1>5. ASSUME NEW j \in Identity, Slash(j)
      PROVE  ConservesValue
    BY <1>5, SlashAllConserves DEF Slash
<1> QED BY <1>2, <1>3, <1>4, <1>5, ConstantTypes DEF PositionStep

(***************************************************************************)
(* Chronons are neither minted nor burnt inside the Hearth, for any        *)
(* history of locks, releases and slashes.                                 *)
(***************************************************************************)
THEOREM HearthConservesValue == HearthSpec => ValueConserved
<1>1. HearthInv /\ [HearthNext]_<<slot, hearthVars>> => [ConservesValue]_<<position, treasury>>
    <2> SUFFICES ASSUME HearthInv, HearthNext,
                        ~ UNCHANGED <<position, treasury>>
                 PROVE  ConservesValue
        BY DEF hearthVars
    <2>1. PositionStep
        BY DEF HearthNext, Tick, hearthVars, AddLien, ClearLien
    <2> QED BY <2>1, PositionStepConserves
<1> QED BY HearthInvariant, <1>1, PTL DEF HearthSpec, ValueConserved

-----------------------------------------------------------------------------

(***************************************************************************)
(* The invariant.  Liens can be matched with open ballots only if ballots  *)
(* exist in no other status, their rings name seats that voted, and a      *)
(* scar's proposal (whose yes voters the log must hold) is settled.        *)
(***************************************************************************)
BallotsNeedVoting ==
    \A p \in Proposal : status[p] \in {"none", "proposed"} => Voters(p) = {}

RingedBallotsAreCast ==
    \A p \in Proposal, s \in Seat :
        SealedBy("ballot", p, s) \in rings => s \in Voters(p)

ScarredIsInvalid ==
    \A p \in Proposal : Sealed("scar_I8", p) \in rings => status[p] = "invalid"

OnlySettledActivates ==
    \A p \in Proposal : status[p] \notin Settled => activation[p] = NoSlot

VoteInv ==
    /\ VoteTypeOK
    /\ BallotsNeedVoting
    /\ RingedBallotsAreCast
    /\ ScarredIsInvalid
    /\ OnlySettledActivates

CouncilInv ==
    /\ HearthInv
    /\ VoteInv
    /\ LiensAreOpenBallots
    /\ RecountAgrees
    /\ SlashesAreScarred

(***************************************************************************)
(* Rings of different kinds or of different subjects are different.        *)
(***************************************************************************)
LEMMA RingFacts ==
    ASSUME NEW t1 \in RingTypes, NEW p1 \in Proposal, NEW b1 \in Seat \cup {NoSeat},
           NEW t2 \in RingTypes, NEW p2 \in Proposal, NEW b2 \in Seat \cup {NoSeat}
    PROVE  /\ SealedBy(t1, p1, b1) \in Ring
           /\ SealedBy(t1, p1, b1) = SealedBy(t2, p2, b2) <=>
                 t1 = t2 /\ p1 = p2 /\ b1 = b2
BY DEF SealedBy, Ring

\* What an outcome says of the count and of the law.
LEMMA OutcomeFacts ==
    ASSUME NEW p \in Proposal
    PROVE  /\ Outcome(p) \in Settled
           /\ Outcome(p) = "approved" <=> Carried(p) /\ p \in Legal
           /\ Outcome(p) = "invalid" <=> Carried(p) /\ p \notin Legal
           /\ Outcome(p) = "expired" => Voters(p) = {}
<1>1. CASE Carried(p) /\ p \in Legal
    BY <1>1 DEF Outcome, OutcomeOf, Carried, Voters, Settled
<1>2. CASE Carried(p) /\ p \notin Legal
    BY <1>2 DEF Outcome, OutcomeOf, Carried, Voters, Settled
<1>3. CASE ~Carried(p) /\ slot > deadline[p] /\ Voters(p) = {}
    BY <1>3 DEF Outcome, OutcomeOf, Carried, Voters, Settled
<1>4. CASE ~Carried(p) /\ ~(slot > deadline[p] /\ Voters(p) = {})
    BY <1>4 DEF Outcome, OutcomeOf, Carried, Voters, Settled
<1> QED BY <1>1, <1>2, <1>3, <1>4

-----------------------------------------------------------------------------
\* No proposal is open at first.
LEMMA InitInv == Init => CouncilInv
<1> SUFFICES ASSUME Init PROVE CouncilInv
    OBVIOUS
<1>1. HearthInv
    BY HearthInitInv DEF Init
<1>2. VoteTypeOK
    BY DEF Init, VoteTypeOK, SeatInfo, Unregistered, Status, Ballots
<1>3. BallotsNeedVoting /\ RingedBallotsAreCast /\ ScarredIsInvalid
      /\ OnlySettledActivates
    BY DEF Init, BallotsNeedVoting, RingedBallotsAreCast, ScarredIsInvalid,
        OnlySettledActivates, Voters, Cast
<1>4. LiensAreOpenBallots /\ SlashesAreScarred
    BY DEF Init, HearthInit, LiensAreOpenBallots, SlashesAreScarred
<1>5. RecountAgrees
    BY DEF Init, RecountAgrees, Settled
<1> QED BY <1>1, <1>2, <1>3, <1>4, <1>5 DEF CouncilInv, VoteInv

-----------------------------------------------------------------------------
\* Owners, the immune layer and the clock touch no lien and no vote.
LEMMA HearthStepFrame == HearthStep => UNCHANGED <<liens, voteVars>>
BY DEF HearthStep, Tick, PositionStep, Lock, RequestUnbond, Release, Quarantine,
    LiftQuarantine, Slash, hearthVars

\* What leaves the votes and the liens alone.
LEMMA VoteFrame ==
    ASSUME VoteInv, LiensAreOpenBallots, RecountAgrees, SlashesAreScarred,
           UNCHANGED <<liens, voteVars>>
    PROVE  VoteInv' /\ LiensAreOpenBallots' /\ RecountAgrees' /\ SlashesAreScarred'
<1>1. VoteInv'
    BY DEF VoteInv, VoteTypeOK, BallotsNeedVoting, RingedBallotsAreCast,
        ScarredIsInvalid, OnlySettledActivates, Voters, Cast, voteVars
<1>2. LiensAreOpenBallots' /\ SlashesAreScarred'
    BY DEF LiensAreOpenBallots, SlashesAreScarred, Owners, YesSeats, Yes, voteVars
<1>3. RecountAgrees'
    BY DEF RecountAgrees, Carried, Voters, Cast, voteVars
<1> QED BY <1>1, <1>2, <1>3

\* The Hearth moves under the Council.
LEMMA HearthStepKeeps == CouncilInv /\ HearthStep => CouncilInv'
BY HearthStepFrame, VoteFrame, TickKeeps, PositionStepKeeps DEF CouncilInv, HearthStep

\* Nothing happens.
LEMMA StutterKeeps == CouncilInv /\ UNCHANGED vars => CouncilInv'
<1> SUFFICES ASSUME CouncilInv, UNCHANGED vars PROVE CouncilInv'
    OBVIOUS
<1>1. UNCHANGED <<slot, hearthVars>> /\ UNCHANGED <<liens, voteVars>>
    BY DEF vars, hearthVars
<1> QED BY <1>1, HearthStutter, VoteFrame DEF CouncilInv

-----------------------------------------------------------------------------
\* A seat is registered.
LEMMA RegisterSeatKeeps ==
    ASSUME CouncilInv, NEW s \in Seat, RegisterSeat(s)
    PROVE  CouncilInv'
<1>1. HearthInv'
    BY HearthStutter DEF CouncilInv, RegisterSeat
<1>2. VoteTypeOK'
    BY FloorAssumption DEF CouncilInv, HearthInv, HearthTypeOK, VoteInv, VoteTypeOK,
        RegisterSeat, SeatInfo
<1>3. VoteInv'
    BY <1>2 DEF CouncilInv, VoteInv, BallotsNeedVoting, RingedBallotsAreCast,
        ScarredIsInvalid, OnlySettledActivates, Voters, Cast, RegisterSeat
<1>4. LiensAreOpenBallots' /\ SlashesAreScarred' /\ RecountAgrees'
    BY DEF CouncilInv, LiensAreOpenBallots, SlashesAreScarred, RecountAgrees, Owners,
        YesSeats, Yes, Voters, Cast, Carried, RegisterSeat, hearthVars
<1> QED BY <1>1, <1>3, <1>4 DEF CouncilInv

\* A proposal comes in.
LEMMA SubmitProposalKeeps ==
    ASSUME CouncilInv, NEW p \in Proposal, SubmitProposal(p)
    PROVE  CouncilInv'
<1>1. HearthInv'
    BY HearthStutter DEF CouncilInv, SubmitProposal
<1>2. /\ status' \in [Proposal -> Status]
      /\ \A q \in Proposal : status'[q] = IF q = p THEN "proposed" ELSE status[q]
      /\ status[p] = "none"
      /\ UNCHANGED <<liens, seats, deadline, snapshot, ballots, activation, slashLog>>
    BY DEF CouncilInv, VoteInv, VoteTypeOK, SubmitProposal, Status, hearthVars
<1>3. /\ rings' \subseteq Ring
      /\ \A t \in RingTypes \ {"proposal"}, q \in Proposal, b \in Seat \cup {NoSeat} :
            SealedBy(t, q, b) \in rings' <=> SealedBy(t, q, b) \in rings
    BY RingFacts DEF CouncilInv, VoteInv, VoteTypeOK, SubmitProposal, Sealed, RingTypes
<1>4. VoteInv'
    <2>1. VoteTypeOK' /\ BallotsNeedVoting' /\ OnlySettledActivates'
        BY <1>2, <1>3 DEF CouncilInv, VoteInv, VoteTypeOK, BallotsNeedVoting,
            OnlySettledActivates, Voters, Cast, Settled
    <2>2. RingedBallotsAreCast'
        BY <1>2, <1>3 DEF CouncilInv, VoteInv, RingedBallotsAreCast, Voters, Cast, RingTypes
    <2>3. ScarredIsInvalid'
        BY <1>2, <1>3 DEF CouncilInv, VoteInv, ScarredIsInvalid, Sealed, RingTypes
    <2> QED BY <2>1, <2>2, <2>3 DEF VoteInv
<1>5. LiensAreOpenBallots' /\ SlashesAreScarred'
    BY <1>2, <1>3 DEF CouncilInv, LiensAreOpenBallots, SlashesAreScarred, Owners,
        YesSeats, Yes, Sealed, RingTypes
<1>6. RecountAgrees'
    BY <1>2 DEF CouncilInv, RecountAgrees, Voters, Cast, Carried, Settled
<1> QED BY <1>1, <1>4, <1>5, <1>6 DEF CouncilInv

\* Voting opens on a snapshot of the seats.
LEMMA AttachReportsKeeps ==
    ASSUME CouncilInv, NEW p \in Proposal, AttachReports(p)
    PROVE  CouncilInv'
<1>1. HearthInv'
    BY HearthStutter DEF CouncilInv, AttachReports
<1>2. /\ status' \in [Proposal -> Status]
      /\ \A q \in Proposal : status'[q] = IF q = p THEN "voting" ELSE status[q]
      /\ status[p] = "proposed"
      /\ UNCHANGED <<liens, seats, ballots, activation, slashLog>>
    BY DEF CouncilInv, VoteInv, VoteTypeOK, AttachReports, Status, hearthVars
<1>3. /\ rings' \subseteq Ring
      /\ \A t \in RingTypes \ {"voting_open"}, q \in Proposal, b \in Seat \cup {NoSeat} :
            SealedBy(t, q, b) \in rings' <=> SealedBy(t, q, b) \in rings
    BY RingFacts DEF CouncilInv, VoteInv, VoteTypeOK, AttachReports, Sealed, RingTypes
<1>4. EligibleSeats \in [Seat -> Nat]
    BY SeatAssumption DEF CouncilInv, HearthInv, HearthTypeOK, EligibleSeats, Position
<1>5. /\ snapshot' \in [Proposal -> [Seat -> Nat]]
      /\ deadline' \in [Proposal -> Nat \cup {NoSlot}]
      /\ \A q \in Proposal : q # p => snapshot'[q] = snapshot[q]
    BY <1>4, ConstantTypes, FloorAssumption DEF CouncilInv, HearthInv, HearthTypeOK,
        VoteInv, VoteTypeOK, AttachReports
<1>6. VoteInv'
    <2>1. VoteTypeOK' /\ BallotsNeedVoting' /\ OnlySettledActivates'
        BY <1>2, <1>3, <1>5 DEF CouncilInv, VoteInv, VoteTypeOK, BallotsNeedVoting,
            OnlySettledActivates, Voters, Cast, Settled
    <2>2. RingedBallotsAreCast'
        BY <1>2, <1>3 DEF CouncilInv, VoteInv, RingedBallotsAreCast, Voters, Cast, RingTypes
    <2>3. ScarredIsInvalid'
        BY <1>2, <1>3 DEF CouncilInv, VoteInv, ScarredIsInvalid, Sealed, RingTypes
    <2> QED BY <2>1, <2>2, <2>3 DEF VoteInv
<1>7. LiensAreOpenBallots'
    <2>1. \A s \in Seat : SealedBy("ballot", p, s) \notin rings
        BY <1>2 DEF CouncilInv, VoteInv, BallotsNeedVoting, RingedBallotsAreCast
    <2> QED BY <1>2, <1>3, <2>1 DEF CouncilInv, LiensAreOpenBallots, RingTypes
<1>8. SlashesAreScarred'
    BY <1>2, <1>3 DEF CouncilInv, SlashesAreScarred, Owners, YesSeats, Yes, Sealed, RingTypes
<1>9. RecountAgrees'
    BY <1>2, <1>5 DEF CouncilInv, RecountAgrees, Voters, Cast, Carried, Settled
<1> QED BY <1>1, <1>6, <1>7, <1>8, <1>9 DEF CouncilInv

\* A ballot is cast and its lien taken.
LEMMA CastBallotKeeps ==
    ASSUME CouncilInv, NEW p \in Proposal, NEW s \in Seat, NEW v \in Votes,
           CastBallot(p, s, v)
    PROVE  CouncilInv'
<1> DEFINE i == IdentityOf[s]
<1>1. i \in Identity
    BY SeatAssumption
<1>2. /\ status[p] = "voting" /\ s \notin Voters(p)
      /\ UNCHANGED <<slot, position, lp, treasury, seats, status, deadline,
                     snapshot, activation, slashLog>>
    BY DEF CastBallot, BallotOpen
<1>3. /\ ballots' \in [Proposal -> [Seat -> Votes \cup {"none"}]]
      /\ \A q \in Proposal, r \in Seat :
            ballots'[q][r] = IF q = p /\ r = s THEN v ELSE ballots[q][r]
      /\ \A q \in Proposal : q # p => ballots'[q] = ballots[q]
    BY DEF CouncilInv, VoteInv, VoteTypeOK, CastBallot, Ballots
<1>4. /\ liens' \in [Identity -> SUBSET Proposal]
      /\ \A j \in Identity, q \in Proposal :
            q \in liens'[j] <=> q \in liens[j] \/ (q = p /\ j = i /\ Held(i))
    BY <1>1 DEF CouncilInv, HearthInv, HearthTypeOK, CastBallot
<1>5. HearthInv'
    BY <1>1, <1>2, <1>4 DEF CouncilInv, HearthInv, HearthTypeOK, LienPinsPosition,
        SlashedHasNoBond, UnheldIsEmpty, Solvent, TotalLiquidity, Held
<1>6. /\ rings' \subseteq Ring
      /\ \A t \in RingTypes, q \in Proposal, b \in Seat \cup {NoSeat} :
            SealedBy(t, q, b) \in rings' <=>
                \/ SealedBy(t, q, b) \in rings
                \/ t = "ballot" /\ q = p /\ b = s /\ Held(i)
    BY RingFacts DEF CouncilInv, VoteInv, VoteTypeOK, CastBallot, RingTypes
<1>7. VoteInv'
    <2>1. VoteTypeOK'
        BY <1>2, <1>3, <1>6 DEF CouncilInv, VoteInv, VoteTypeOK, Ballots
    <2>2. RingedBallotsAreCast'
        BY <1>3, <1>6 DEF CouncilInv, VoteInv, RingedBallotsAreCast, Voters, Cast, RingTypes, Votes
    <2>3. ScarredIsInvalid'
        BY <1>2, <1>6 DEF CouncilInv, VoteInv, ScarredIsInvalid, Sealed, RingTypes
    <2>4. BallotsNeedVoting'
        BY <1>2, <1>3 DEF CouncilInv, VoteInv, BallotsNeedVoting, Voters, Cast
    <2>5. OnlySettledActivates'
        BY <1>2 DEF CouncilInv, VoteInv, OnlySettledActivates
    <2> QED BY <2>1, <2>2, <2>3, <2>4, <2>5 DEF VoteInv
<1>8. LiensAreOpenBallots'
    BY <1>1, <1>2, <1>4, <1>6 DEF CouncilInv, LiensAreOpenBallots, RingTypes
<1>9. SlashesAreScarred'
    <2>1. \A q \in Proposal : Sealed("scar_I8", q) \in rings => ballots'[q] = ballots[q]
        BY <1>2, <1>3 DEF CouncilInv, VoteInv, ScarredIsInvalid
    <2>2. \A q \in Proposal :
              Sealed("scar_I8", q) \in rings' <=> Sealed("scar_I8", q) \in rings
        BY <1>6 DEF Sealed, RingTypes
    <2>3. \A q \in Proposal, r \in Seat :
              SealedBy("scar_I10", q, r) \in rings' <=> SealedBy("scar_I10", q, r) \in rings
        BY <1>6 DEF RingTypes
    <2> QED BY <1>2, <2>1, <2>2, <2>3 DEF CouncilInv, SlashesAreScarred, Owners, YesSeats, Yes
<1>10. RecountAgrees'
    BY <1>2, <1>3 DEF CouncilInv, RecountAgrees, Voters, Cast, Carried, Settled
<1> QED BY <1>5, <1>7, <1>8, <1>9, <1>10 DEF CouncilInv

\* A second ballot slashes and leaves its scar.
LEMMA DoubleBallotKeeps ==
    ASSUME CouncilInv, NEW p \in Proposal, NEW s \in Seat, DoubleBallot(p, s)
    PROVE  CouncilInv'
<1> DEFINE i == IdentityOf[s]
<1>1. i \in Identity
    BY SeatAssumption
<1>2. UNCHANGED <<slot, liens, lp, seats, status, deadline, snapshot, ballots, activation>>
      /\ status[p] = "voting" /\ s \in Voters(p)
    BY DEF DoubleBallot, BallotOpen
<1>3. HearthInv'
    BY <1>2, SlashAllKeeps DEF CouncilInv, HearthInv, HearthTypeOK, LienPinsPosition,
        DoubleBallot
<1>4. /\ slashLog' \subseteq [identity : Identity, reason : Reasons]
      /\ \A j \in Identity :
            [identity |-> j, reason |-> "double_ballot"] \in slashLog' <=>
                [identity |-> j, reason |-> "double_ballot"] \in slashLog \/ j = i
      /\ \A j \in Identity :
            [identity |-> j, reason |-> "illegal_ratification"] \in slashLog' <=>
                [identity |-> j, reason |-> "illegal_ratification"] \in slashLog
    BY <1>1 DEF CouncilInv, VoteInv, VoteTypeOK, DoubleBallot, Reasons
<1>5. /\ rings' \subseteq Ring
      /\ \A t \in RingTypes, q \in Proposal, b \in Seat \cup {NoSeat} :
            SealedBy(t, q, b) \in rings' <=>
                SealedBy(t, q, b) \in rings \/ (t = "scar_I10" /\ q = p /\ b = s)
    BY RingFacts DEF CouncilInv, VoteInv, VoteTypeOK, DoubleBallot, RingTypes
<1>6. VoteInv'
    <2>1. VoteTypeOK'
        BY <1>2, <1>4, <1>5 DEF CouncilInv, VoteInv, VoteTypeOK
    <2>2. RingedBallotsAreCast'
        BY <1>2, <1>5 DEF CouncilInv, VoteInv, RingedBallotsAreCast, Voters, Cast, RingTypes
    <2>3. ScarredIsInvalid'
        BY <1>2, <1>5 DEF CouncilInv, VoteInv, ScarredIsInvalid, Sealed, RingTypes
    <2>4. BallotsNeedVoting' /\ OnlySettledActivates'
        BY <1>2 DEF CouncilInv, VoteInv, BallotsNeedVoting, OnlySettledActivates, Voters, Cast
    <2> QED BY <2>1, <2>2, <2>3, <2>4 DEF VoteInv
<1>7. LiensAreOpenBallots'
    BY <1>2, <1>5 DEF CouncilInv, LiensAreOpenBallots, RingTypes
<1>8. SlashesAreScarred'
    <2>1. \A q \in Proposal :
              Sealed("scar_I8", q) \in rings' <=> Sealed("scar_I8", q) \in rings
        BY <1>5 DEF Sealed, RingTypes
    <2>2. \A q \in Proposal, r \in Seat :
              SealedBy("scar_I10", q, r) \in rings' <=>
                  SealedBy("scar_I10", q, r) \in rings \/ (q = p /\ r = s)
        BY <1>5 DEF RingTypes
    <2> QED BY <1>2, <1>4, <2>1, <2>2 DEF CouncilInv, SlashesAreScarred, Owners, YesSeats, Yes
<1>9. RecountAgrees'
    BY <1>2 DEF CouncilInv, RecountAgrees, Voters, Cast, Carried
<1> QED BY <1>3, <1>6, <1>7, <1>8, <1>9 DEF CouncilInv

\* The log entries of an illegal ratification that strikes S.
Strikes(S) == {[identity |-> j, reason |-> "illegal_ratification"] : j \in S}

\* Who a tally of illegal yes votes strikes, and for what.
LEMMA StrikingFacts ==
    ASSUME NEW S \in SUBSET Identity
    PROVE  /\ Strikes(S) \subseteq [identity : Identity, reason : Reasons]
           /\ \A j \in Identity :
                 [identity |-> j, reason |-> "double_ballot"] \notin Strikes(S)
           /\ \A j \in Identity :
                 [identity |-> j, reason |-> "illegal_ratification"] \in Strikes(S) <=> j \in S
<1> DEFINE entry(j) == [identity |-> j, reason |-> "illegal_ratification"]
<1>1. Strikes(S) \subseteq [identity : Identity, reason : Reasons]
    BY DEF Strikes, Reasons
<1>2. \A j \in Identity : entry(j) \in {entry(k) : k \in S} <=> j \in S
    <2> SUFFICES ASSUME NEW j \in Identity, NEW k \in S, entry(j) = entry(k)
                 PROVE  j = k
        OBVIOUS
    <2>1. entry(j).identity = j /\ entry(k).identity = k
        OBVIOUS
    <2> QED BY <2>1
<1>3. \A j \in Identity :
          [identity |-> j, reason |-> "double_ballot"] \notin {entry(k) : k \in S}
    <2> SUFFICES ASSUME NEW j \in Identity, NEW k \in S,
                        [identity |-> j, reason |-> "double_ballot"] = entry(k)
                 PROVE  FALSE
        OBVIOUS
    <2>1. [identity |-> j, reason |-> "double_ballot"].reason = "double_ballot"
          /\ entry(k).reason = "illegal_ratification"
        OBVIOUS
    <2> QED BY <2>1
<1> QED BY <1>1, <1>2, <1>3 DEF Strikes

(***************************************************************************)
(* The tally: what it does to liens, log and rings, whatever the outcome.  *)
(***************************************************************************)
LEMMA TallyKeeps ==
    ASSUME CouncilInv, NEW p \in Proposal, Tally(p)
    PROVE  CouncilInv'
<1> DEFINE struck == IF Outcome(p) = "invalid" THEN Owners(YesSeats(p)) ELSE {}
<1>1. /\ status[p] = "voting"
      /\ UNCHANGED <<slot, lp, seats, deadline, snapshot, ballots>>
      /\ SlashAll(struck)
    BY DEF Tally, Tallyable
<1>2. /\ status' \in [Proposal -> Status]
      /\ \A q \in Proposal : status'[q] = IF q = p THEN Outcome(p) ELSE status[q]
    BY OutcomeFacts DEF CouncilInv, VoteInv, VoteTypeOK, Tally, Status
<1>3. /\ liens' \in [Identity -> SUBSET Proposal]
      /\ \A j \in Identity, q \in Proposal :
            q \in liens'[j] <=> q \in liens[j] /\ ~(q = p /\ j \in Owners(Voters(p)))
    BY DEF CouncilInv, HearthInv, HearthTypeOK, Tally, Unliened
<1>4. HearthInv'
    BY <1>1, <1>3, SlashAllKeeps DEF CouncilInv, HearthInv, HearthTypeOK, LienPinsPosition
<1>5. struck \subseteq Identity
    BY SeatAssumption DEF Owners, YesSeats, Yes
<1>6. /\ slashLog' \subseteq [identity : Identity, reason : Reasons]
      /\ \A j \in Identity :
            [identity |-> j, reason |-> "double_ballot"] \in slashLog' <=>
                [identity |-> j, reason |-> "double_ballot"] \in slashLog
      /\ \A j \in Identity :
            [identity |-> j, reason |-> "illegal_ratification"] \in slashLog' <=>
                [identity |-> j, reason |-> "illegal_ratification"] \in slashLog \/ j \in struck
    <2>1. slashLog' = slashLog \cup Strikes(struck)
        BY DEF Tally, Strikes
    <2>2. struck \in SUBSET Identity
        BY <1>5
    <2> HIDE DEF struck
    <2>3. Strikes(struck) \subseteq [identity : Identity, reason : Reasons]
          /\ \A j \in Identity :
                 /\ [identity |-> j, reason |-> "double_ballot"] \notin Strikes(struck)
                 /\ [identity |-> j, reason |-> "illegal_ratification"] \in Strikes(struck)
                        <=> j \in struck
        BY <2>2, StrikingFacts
    <2> QED BY <2>1, <2>3 DEF CouncilInv, VoteInv, VoteTypeOK
<1>7. /\ rings' \subseteq Ring
      /\ \A t \in RingTypes, q \in Proposal, b \in Seat \cup {NoSeat} :
            SealedBy(t, q, b) \in rings' <=>
                \/ SealedBy(t, q, b) \in rings
                \/ q = p /\ b = NoSeat /\ t = "result"
                \/ q = p /\ b = NoSeat /\ t = "scar_I8" /\ Outcome(p) = "invalid"
    BY RingFacts DEF CouncilInv, VoteInv, VoteTypeOK, Tally, Sealed, RingTypes
<1>8. /\ activation' \in [Proposal -> Nat \cup {NoSlot}]
      /\ \A q \in Proposal : q # p => activation'[q] = activation[q]
      /\ activation[p] = NoSlot
      /\ activation'[p] # NoSlot <=> Outcome(p) = "approved"
    <2>1. slot + ActivationDelay \in Nat
        BY ConstantTypes, FloorAssumption DEF CouncilInv, HearthInv, HearthTypeOK
    <2>2. activation[p] = NoSlot
        BY <1>1 DEF CouncilInv, VoteInv, OnlySettledActivates, Settled
    <2> QED BY <2>1, <2>2 DEF CouncilInv, VoteInv, VoteTypeOK, Tally, NoSlot
<1>9. VoteInv'
    <2>1. VoteTypeOK'
        BY <1>1, <1>2, <1>6, <1>7, <1>8 DEF CouncilInv, VoteInv, VoteTypeOK
    <2>4. BallotsNeedVoting'
        BY <1>1, <1>2, OutcomeFacts DEF CouncilInv, VoteInv, BallotsNeedVoting, Voters, Cast, Settled
    <2>5. OnlySettledActivates'
        BY <1>2, <1>8, OutcomeFacts DEF CouncilInv, VoteInv, OnlySettledActivates
    <2>2. RingedBallotsAreCast'
        BY <1>1, <1>7, SeatAssumption DEF CouncilInv, VoteInv, RingedBallotsAreCast, Voters, Cast,
            RingTypes
    <2>3. ScarredIsInvalid'
        BY <1>1, <1>2, <1>7 DEF CouncilInv, VoteInv, ScarredIsInvalid, Sealed, RingTypes
    <2> QED BY <2>1, <2>2, <2>3, <2>4, <2>5 DEF VoteInv
<1>10. LiensAreOpenBallots'
    <2>1. \A q \in Proposal, r \in Seat :
              SealedBy("ballot", q, r) \in rings' <=> SealedBy("ballot", q, r) \in rings
        BY <1>7 DEF RingTypes
    <2>2. \A j \in Identity : p \in liens[j] => j \in Owners(Voters(p))
        BY DEF CouncilInv, LiensAreOpenBallots, VoteInv, RingedBallotsAreCast, Owners
    <2>3. \A j \in Identity : p \notin liens'[j]
        BY <1>3, <2>2
    <2>4. status'[p] # "voting"
        BY <1>2, OutcomeFacts DEF Settled
    <2>5. \A j \in Identity, q \in Proposal : q # p =>
              /\ q \in liens'[j] <=> q \in liens[j]
              /\ status'[q] = status[q]
        BY <1>2, <1>3
    <2> QED BY <2>1, <2>3, <2>4, <2>5 DEF CouncilInv, LiensAreOpenBallots
<1>11. SlashesAreScarred'
    <2>1. \A q \in Proposal :
              Sealed("scar_I8", q) \in rings' <=>
                  Sealed("scar_I8", q) \in rings \/ (q = p /\ Outcome(p) = "invalid")
        BY <1>7 DEF Sealed, RingTypes
    <2>2. \A q \in Proposal, r \in Seat :
              SealedBy("scar_I10", q, r) \in rings' <=> SealedBy("scar_I10", q, r) \in rings
        BY <1>7, SeatAssumption DEF RingTypes
    <2>3. \A q \in Proposal : Owners(YesSeats(q))' = Owners(YesSeats(q))
        BY <1>1 DEF Owners, YesSeats, Yes
    <2> QED BY <1>6, <2>1, <2>2, <2>3 DEF CouncilInv, SlashesAreScarred
<1>12. RecountAgrees'
    <2>1. \A q \in Proposal : Carried(q)' = Carried(q) /\ Voters(q)' = Voters(q)
        BY <1>1 DEF Carried, Voters, Cast
    <2> QED BY <1>2, <1>8, <2>1, OutcomeFacts DEF CouncilInv, RecountAgrees
<1> QED BY <1>4, <1>9, <1>10, <1>11, <1>12 DEF CouncilInv

-----------------------------------------------------------------------------
\* Every step of the Council keeps the invariant.
LEMMA NextKeeps == CouncilInv /\ [Next]_vars => CouncilInv'
BY StutterKeeps, HearthStepKeeps, RegisterSeatKeeps, SubmitProposalKeeps,
    AttachReportsKeeps, CastBallotKeeps, DoubleBallotKeeps, TallyKeeps
    DEF Next, CouncilStep

\* So it always holds.
LEMMA CouncilInvariant == Spec => []CouncilInv
BY InitInv, NextKeeps, PTL DEF Spec

(***************************************************************************)
(* Type correctness of the Council over the Hearth.                        *)
(***************************************************************************)
THEOREM CouncilTypeCorrect == Spec => []TypeOK
<1>1. CouncilInv => TypeOK
    BY DEF CouncilInv, HearthInv, VoteInv, TypeOK
<1> QED BY CouncilInvariant, <1>1, PTL

(***************************************************************************)
(* G14: the open liens are exactly the sealed ballots of open votes, and   *)
(* each has a position under it.                                           *)
(***************************************************************************)
THEOREM LiensMatchBallots == Spec => []LiensAreOpenBallots
<1>1. CouncilInv => LiensAreOpenBallots
    BY DEF CouncilInv
<1> QED BY CouncilInvariant, <1>1, PTL

(***************************************************************************)
(* I9 under the Council: no tally, double ballot or settled vote takes     *)
(* from the pool, or leaves it more than the open positions can reclaim.   *)
(***************************************************************************)
THEOREM CouncilIsSolvent == Spec => []Solvent
<1>1. CouncilInv => Solvent
    BY DEF CouncilInv, HearthInv
<1> QED BY CouncilInvariant, <1>1, PTL

(***************************************************************************)
(* A recount of the stored ballots reproduces every recorded outcome.      *)
(***************************************************************************)
THEOREM RecountsAgree == Spec => []RecountAgrees
<1>1. CouncilInv => RecountAgrees
    BY DEF CouncilInv
<1> QED BY CouncilInvariant, <1>1, PTL

(***************************************************************************)
(* The slash log and the scars tell the same story.                        *)
(***************************************************************************)
THEOREM SlashesLeaveScars == Spec => []SlashesAreScarred
<1>1. CouncilInv => SlashesAreScarred
    BY DEF CouncilInv
<1> QED BY CouncilInvariant, <1>1, PTL

-----------------------------------------------------------------------------
(***************************************************************************)
(* Only a tally makes a proposal invalid.                                  *)
(***************************************************************************)
LEMMA OnlyTallySettles ==
    ASSUME CouncilInv, [Next]_vars, NEW p \in Proposal,
           status[p] # status'[p], status'[p] \in Settled
    PROVE  Tally(p)
<1> USE DEF CouncilInv, VoteInv, VoteTypeOK
<1>1. ASSUME HearthStep \/ UNCHANGED vars
      PROVE  status'[p] = status[p]
    BY <1>1, HearthStepFrame DEF voteVars, vars
<1>2. ASSUME NEW s \in Seat, RegisterSeat(s)
      PROVE  status'[p] = status[p]
    BY <1>2 DEF RegisterSeat
<1>3. ASSUME NEW q \in Proposal, SubmitProposal(q) \/ AttachReports(q)
      PROVE  status'[p] = status[p] \/ status'[p] \notin Settled
    BY <1>3 DEF SubmitProposal, AttachReports, Settled
<1>4. ASSUME NEW q \in Proposal, NEW s \in Seat,
             DoubleBallot(q, s) \/ \E v \in Votes : CastBallot(q, s, v)
      PROVE  status'[p] = status[p]
    BY <1>4 DEF DoubleBallot, CastBallot
<1>5. ASSUME NEW q \in Proposal, q # p, Tally(q)
      PROVE  status'[p] = status[p]
    BY <1>5 DEF Tally
<1> QED BY <1>1, <1>2, <1>3, <1>4, <1>5 DEF Next, CouncilStep

(***************************************************************************)
(* G16 bites: ratifying an illegal proposal costs every yes voter whose    *)
(* ballot is sealed its whole bond, in the same step.  The lien taken with *)
(* the ballot is still open (LiensAreOpenBallots), so the position is      *)
(* still there (LienPinsPosition).                                         *)
(***************************************************************************)
THEOREM IllegalYesCostsBond == Spec => IllegalYesIsSlashed
<1>1. CouncilInv /\ [Next]_vars => [SlashesIllegalYes]_vars
    <2> SUFFICES ASSUME CouncilInv, [Next]_vars,
                        NEW p \in Proposal, status[p] # "invalid", status'[p] = "invalid",
                        NEW s \in YesSeats(p), SealedBy("ballot", p, s) \in rings
                 PROVE  LET pos == position'[IdentityOf[s]]
                        IN  pos.held /\ pos.slashed /\ pos.bond = 0
        BY DEF SlashesIllegalYes
    <2>1. Tally(p)
        BY OnlyTallySettles DEF Settled
    <2>2. s \in Seat /\ IdentityOf[s] \in Identity
        BY SeatAssumption DEF YesSeats, Yes
    <2>3. status[p] = "voting" /\ Outcome(p) = "invalid"
        BY <2>1 DEF Tally, Tallyable, CouncilInv, VoteInv, VoteTypeOK
    <2>4. position' = Slashed(position, Owners(YesSeats(p)))
        BY <2>1, <2>3 DEF Tally, SlashAll
    <2>5. position[IdentityOf[s]].held
        BY <2>2, <2>3 DEF CouncilInv, LiensAreOpenBallots, HearthInv, LienPinsPosition, Held
    <2>6. IdentityOf[s] \in Owners(YesSeats(p))
        BY DEF Owners
    <2>7. position \in [Identity -> Position]
        BY DEF CouncilInv, HearthInv, HearthTypeOK
    <2> QED BY <2>2, <2>4, <2>5, <2>6, <2>7, SlashedFacts
<1> QED BY CouncilInvariant, <1>1, PTL DEF Spec, IllegalYesIsSlashed

\* No step disturbs a settled vote, an electorate or a cast ballot.
LEMMA StepFreezes == CouncilInv /\ [Next]_vars => [FreezesVotes]_vars
<1> SUFFICES ASSUME CouncilInv, Next, NEW p \in Proposal
             PROVE  /\ status[p] \in Settled =>
                          UNCHANGED <<status[p], ballots[p], activation[p]>>
                    /\ status[p] \notin {"none", "proposed"} =>
                          UNCHANGED <<snapshot[p], deadline[p]>>
                    /\ \A s \in Voters(p) : ballots'[p][s] = ballots[p][s]
    BY DEF FreezesVotes
<1> USE DEF CouncilInv, VoteInv, VoteTypeOK, Settled, Voters, Cast
<1>1. CASE HearthStep
    BY <1>1, HearthStepFrame DEF voteVars
<1>2. ASSUME NEW s \in Seat, RegisterSeat(s)
      PROVE  UNCHANGED <<status, ballots, activation, snapshot, deadline>>
    BY <1>2 DEF RegisterSeat
<1>3. CASE \E q \in Proposal : SubmitProposal(q)
    BY <1>3 DEF SubmitProposal
<1>4. CASE \E q \in Proposal : AttachReports(q)
    BY <1>4 DEF AttachReports
<1>5. CASE \E q \in Proposal, r \in Seat : DoubleBallot(q, r)
    BY <1>5 DEF DoubleBallot
<1>6. CASE \E q \in Proposal, r \in Seat, v \in Votes : CastBallot(q, r, v)
    BY <1>6 DEF CastBallot, BallotOpen
<1>7. CASE \E q \in Proposal : Tally(q)
    BY <1>7 DEF Tally, Tallyable
<1> QED BY <1>1, <1>2, <1>3, <1>4, <1>5, <1>6, <1>7 DEF Next, CouncilStep

(***************************************************************************)
(* Outcomes, electorates and cast ballots are final.                       *)
(***************************************************************************)
THEOREM VotesAreFinal == Spec => VoteIsFrozen
BY CouncilInvariant, StepFreezes, PTL DEF Spec, VoteIsFrozen
=============================================================================
