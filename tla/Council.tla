------------------------------ MODULE Council ------------------------------
(***************************************************************************)
(* The Council proposal state machine (chronarch_council.CouncilState)     *)
(* over the Hearth: seats, proposals, the voting window, ballots and their *)
(* liens, the tally with its slashes, and the rings each step seals.       *)
(*                                                                         *)
(* A proposal's fixed attributes (its class, whether check_legality passes *)
(* it, whether its deposit reaches the floor) are constants.  A seat's     *)
(* identity is fixed too: every caller registers a seat for one identity.  *)
(***************************************************************************)
EXTENDS Hearth, TallyRule

CONSTANTS
    NoSeat,                \* the author of a ring no seat is named in
    IdentityOf,            \* seat -> identity
    Legal,                 \* the proposals check_legality accepts
    Funded,                \* the proposals whose deposit meets the floor
    Renewed,               \* the seats that may be registered more than once
    PinsetSizes,           \* pinset sizes a seat may be registered with
    MinBond,               \* MIN_COUNCIL_BOND_CHRONONS
    MinPinset,             \* MIN_PINSET_SIZE
    MaxChallengeGap,       \* MAX_CHALLENGE_GAP_SLOTS
    VotingWindow,          \* VOTING_WINDOW_SLOTS
    ActivationDelay        \* ACTIVATION_DELAY_SLOTS

ASSUME SeatAssumption == IdentityOf \in [Seat -> Identity] /\ NoSeat \notin Seat
ASSUME ProposalAssumption == Legal \subseteq Proposal /\ Funded \subseteq Proposal
ASSUME FloorAssumption ==
    /\ MinBond \in Nat \ {0}
    /\ MinPinset \in Nat /\ PinsetSizes \subseteq Nat
    /\ MaxChallengeGap \in Nat
    /\ VotingWindow \in Nat /\ ActivationDelay \in Nat

Status == {"none", "proposed", "voting"} \cup Settled
Reasons == {"double_ballot", "illegal_ratification"}
NoSlot == -1

\* A ring, by what the properties tell apart: its type, its proposal and,
\* for a ballot or an I10 scar, its seat.
RingTypes == {"proposal", "voting_open", "ballot", "result", "scar_I8", "scar_I10"}
Ring == [type : RingTypes, of : Proposal, by : Seat \cup {NoSeat}]

SeatInfo == [registered : BOOLEAN, pinset : Nat, lastPass : Nat]
Unregistered == [registered |-> FALSE, pinset |-> 0, lastPass |-> 0]

VARIABLES
    seats,        \* seat -> what it was registered with
    status,       \* proposal -> status ("none": not submitted)
    deadline,     \* proposal -> voting_deadline_slot
    snapshot,     \* proposal -> seat -> eligible weight (0: not eligible)
    ballots,      \* proposal -> seat -> vote ("none": not cast)
    activation,   \* proposal -> activation_slot of its result
    slashLog,     \* the slash log, without repetitions
    rings         \* the rings sealed so far

voteVars == <<seats, status, deadline, snapshot, ballots, activation, slashLog, rings>>
vars == <<slot, hearthVars, voteVars>>

VoteTypeOK ==
    /\ seats \in [Seat -> SeatInfo]
    /\ status \in [Proposal -> Status]
    /\ deadline \in [Proposal -> Nat \cup {NoSlot}]
    /\ snapshot \in [Proposal -> [Seat -> Nat]]
    /\ ballots \in [Proposal -> Ballots]
    /\ activation \in [Proposal -> Nat \cup {NoSlot}]
    /\ slashLog \subseteq [identity : Identity, reason : Reasons]
    /\ rings \subseteq Ring

TypeOK == HearthTypeOK /\ VoteTypeOK

Init ==
    /\ HearthInit
    /\ seats = [s \in Seat |-> Unregistered]
    /\ status = [p \in Proposal |-> "none"]
    /\ deadline = [p \in Proposal |-> NoSlot]
    /\ snapshot = [p \in Proposal |-> [s \in Seat |-> 0]]
    /\ ballots = [p \in Proposal |-> [s \in Seat |-> "none"]]
    /\ activation = [p \in Proposal |-> NoSlot]
    /\ slashLog = {}
    /\ rings = {}

-----------------------------------------------------------------------------
SealedBy(type, p, s) == [type |-> type, of |-> p, by |-> s]
Sealed(type, p) == SealedBy(type, p, NoSeat)

Electorate(p) == {s \in Seat : snapshot[p][s] > 0}
Voters(p) == Cast(ballots[p])
YesSeats(p) == Yes(ballots[p])
Owners(S) == {IdentityOf[s] : s \in S}

\* COUNCIL.md membership floors (HearthState.council_eligible).
CouncilEligible(s) ==
    LET pos == position[IdentityOf[s]]
    IN  /\ seats[s].registered
        /\ pos.held /\ ~pos.slashed /\ ~pos.quarantined
        /\ pos.unbond = NoRequest
        /\ pos.bond >= MinBond
        /\ seats[s].pinset >= MinPinset
        /\ slot - seats[s].lastPass <= MaxChallengeGap

EligibleSeats ==
    [s \in Seat |-> IF CouncilEligible(s) THEN position[IdentityOf[s]].bond ELSE 0]

Carried(p) == Carries(snapshot[p], ballots[p])

Outcome(p) == OutcomeOf(snapshot[p], ballots[p], p \in Legal, slot > deadline[p])

-----------------------------------------------------------------------------
\* Registering a seat again replaces what it was registered with; which seats
\* that happens to is bounded by Renewed.  Callers pass the current slot as
\* the seat's last challenge pass.
RegisterSeat(s) ==
    /\ seats[s].registered => s \in Renewed
    /\ \E n \in PinsetSizes :
           seats' = [seats EXCEPT ![s] =
                        [registered |-> TRUE, pinset |-> n, lastPass |-> slot]]
    /\ UNCHANGED <<slot, hearthVars, status, deadline, snapshot, ballots,
                   activation, slashLog, rings>>

SubmitProposal(p) ==
    /\ status[p] = "none"
    /\ p \in Funded
    /\ status' = [status EXCEPT ![p] = "proposed"]
    /\ rings' = rings \cup {Sealed("proposal", p)}
    /\ UNCHANGED <<slot, hearthVars, seats, deadline, snapshot, ballots,
                   activation, slashLog>>

\* (Slip: the deadline lies a window back.)
AttachReports_PastDeadline(p) ==
    /\ status[p] = "proposed"
    /\ slot + VotingWindow < MaxSlot
    /\ status' = [status EXCEPT ![p] = "voting"]
    /\ deadline' = [deadline EXCEPT ![p] = slot - VotingWindow]
    /\ snapshot' = [snapshot EXCEPT ![p] = EligibleSeats]
    /\ rings' = IF \E s \in Seat : CouncilEligible(s)
                THEN rings \cup {Sealed("voting_open", p)}
                ELSE rings
    /\ UNCHANGED <<slot, hearthVars, seats, ballots, activation, slashLog>>

\* The entry is updated before the empty snapshot is refused: with nobody
\* eligible the call raises, the proposal is in "voting" all the same, and
\* no voting_open ring is sealed.  The guard on MaxSlot keeps the deadline
\* within the clock's bound.
AttachReports(p) ==
    /\ status[p] = "proposed"
    /\ slot + VotingWindow < MaxSlot
    /\ status' = [status EXCEPT ![p] = "voting"]
    /\ deadline' = [deadline EXCEPT ![p] = slot + VotingWindow]
    /\ snapshot' = [snapshot EXCEPT ![p] = EligibleSeats]
    /\ rings' = IF \E s \in Seat : CouncilEligible(s)
                THEN rings \cup {Sealed("voting_open", p)}
                ELSE rings
    /\ UNCHANGED <<slot, hearthVars, seats, ballots, activation, slashLog>>

BallotOpen(p, s) ==
    /\ status[p] = "voting"
    /\ slot <= deadline[p]
    /\ s \in Electorate(p)

\* The ballot is stored before the lien is taken.  When the voter's position
\* is already released add_lien raises: the ballot stays, with neither a lien
\* nor a ballot ring.
CastBallot(p, s, v) ==
    /\ BallotOpen(p, s)
    /\ s \notin Voters(p)
    /\ ballots' = [ballots EXCEPT ![p][s] = v]
    /\ IF Held(IdentityOf[s])
       THEN /\ liens' = [liens EXCEPT ![IdentityOf[s]] = @ \cup {p}]
            /\ rings' = rings \cup {SealedBy("ballot", p, s)}
       ELSE UNCHANGED <<liens, rings>>
    /\ UNCHANGED <<slot, position, lp, treasury, seats, status, deadline,
                   snapshot, activation, slashLog>>

\* (Slip: the slash leaves no scar.)
DoubleBallot_Unscarred(p, s) ==
    /\ BallotOpen(p, s)
    /\ s \in Voters(p)
    /\ SlashAll({IdentityOf[s]})
    /\ slashLog' = slashLog \cup
           {[identity |-> IdentityOf[s], reason |-> "double_ballot"]}
    /\ UNCHANGED <<slot, liens, lp, rings, seats, status, deadline, snapshot,
                   ballots, activation>>

\* A second ballot is refused, and slashes; the first one still counts.
DoubleBallot(p, s) ==
    /\ BallotOpen(p, s)
    /\ s \in Voters(p)
    /\ SlashAll({IdentityOf[s]})
    /\ slashLog' = slashLog \cup
           {[identity |-> IdentityOf[s], reason |-> "double_ballot"]}
    /\ rings' = rings \cup {SealedBy("scar_I10", p, s)}
    /\ UNCHANGED <<slot, liens, lp, seats, status, deadline, snapshot,
                   ballots, activation>>

\* (Slip: the tally waits for every seat.)
Tallyable_AllMustVote(p) == status[p] = "voting" /\ Voters(p) = Electorate(p)

\* (Slip: the status is not asked.)
Tallyable_Again(p) ==
    /\ status[p] # "none"
    /\ slot > deadline[p] \/ Voters(p) = Electorate(p)

Tallyable(p) ==
    /\ status[p] = "voting"
    /\ slot > deadline[p] \/ Voters(p) = Electorate(p)

\* An approved but illegal proposal is invalid: every yes voter is slashed
\* and an I8 scar is sealed.  Whatever the outcome, the voters' liens on this
\* proposal are cleared and the result ring is sealed.
Tally(p) ==
    LET outcome == Outcome(p)
        struck == IF outcome = "invalid" THEN Owners(YesSeats(p)) ELSE {}
    IN  /\ Tallyable(p)
        /\ SlashAll(struck)
        /\ slashLog' = slashLog \cup
               {[identity |-> i, reason |-> "illegal_ratification"] : i \in struck}
        /\ status' = [status EXCEPT ![p] = outcome]
        /\ liens' = Unliened(Owners(Voters(p)), p)
        /\ activation' = IF outcome = "approved"
                         THEN [activation EXCEPT ![p] = slot + ActivationDelay]
                         ELSE activation
        /\ rings' = rings \cup {Sealed("result", p)} \cup
               IF outcome = "invalid" THEN {Sealed("scar_I8", p)} ELSE {}
        /\ UNCHANGED <<slot, lp, seats, deadline, snapshot, ballots>>

-----------------------------------------------------------------------------
\* The Council's own operations.
CouncilStep ==
    \/ \E s \in Seat : RegisterSeat(s)
    \/ \E p \in Proposal :
          \/ SubmitProposal(p)
          \/ AttachReports(p)
          \/ Tally(p)
          \/ \E s \in Seat : DoubleBallot(p, s) \/ \E v \in Votes : CastBallot(p, s, v)

\* What happens to the Hearth under it: the clock, the owners, the immune
\* layer.
HearthStep == (Tick \/ PositionStep) /\ UNCHANGED voteVars

Next == CouncilStep \/ HearthStep

Spec == Init /\ [][Next]_vars

\* The slot clock advances and, once a proposal can be tallied, somebody
\* eventually calls tally; nothing else is owed.
Fairness == WF_vars(Tick /\ UNCHANGED voteVars) /\ \A p \in Proposal : WF_vars(Tally(p))

FairSpec == Spec /\ Fairness

-----------------------------------------------------------------------------
(***************************************************************************)
(* G14: the open liens are exactly the ballots that are sealed and not yet *)
(* tallied.  No lien outlives its vote (tally clears every voter's, on     *)
(* every outcome), and no sealed ballot of an open vote is without one.    *)
(***************************************************************************)
LiensAreOpenBallots ==
    \A i \in Identity, p \in Proposal :
        p \in liens[i] <=>
            /\ status[p] = "voting"
            /\ \E s \in Seat : IdentityOf[s] = i /\ SealedBy("ballot", p, s) \in rings

(***************************************************************************)
(* G16: when an illegal proposal is ratified, every yes voter whose ballot *)
(* is sealed is still in the Hearth and loses its bond in that very step,  *)
(* whatever it requested, released or re-locked during the window.         *)
(***************************************************************************)
SlashesIllegalYes ==
    \A p \in Proposal : status[p] # "invalid" /\ status'[p] = "invalid" =>
        \A s \in YesSeats(p) : SealedBy("ballot", p, s) \in rings =>
            LET pos == position'[IdentityOf[s]]
            IN  pos.held /\ pos.slashed /\ pos.bond = 0

IllegalYesIsSlashed == [][SlashesIllegalYes]_vars

(***************************************************************************)
(* A recount of the stored ballots against the stored snapshot gives the   *)
(* recorded outcome at any later time: a proposal stands approved iff it   *)
(* carried and is legal, invalid iff it carried and is not, and only an    *)
(* approved one has an activation slot.                                    *)
(***************************************************************************)
RecountAgrees ==
    \A p \in Proposal : status[p] \in Settled =>
        /\ status[p] = "approved" <=> Carried(p) /\ p \in Legal
        /\ status[p] = "invalid" <=> Carried(p) /\ p \notin Legal
        /\ status[p] = "expired" => Voters(p) = {}
        /\ activation[p] # NoSlot <=> status[p] = "approved"

(***************************************************************************)
(* A settled proposal is never reopened, re-counted or re-dated, the       *)
(* electorate is fixed when voting opens, and a cast ballot is never       *)
(* replaced, not even by the double ballot that gets its caster slashed.   *)
(***************************************************************************)
FreezesVotes ==
    \A p \in Proposal :
        /\ status[p] \in Settled =>
              UNCHANGED <<status[p], ballots[p], activation[p]>>
        /\ status[p] \notin {"none", "proposed"} =>
              UNCHANGED <<snapshot[p], deadline[p]>>
        /\ \A s \in Voters(p) : ballots'[p][s] = ballots[p][s]

VoteIsFrozen == [][FreezesVotes]_vars

(***************************************************************************)
(* Every entry of the slash log has its scar, and every scar its entry     *)
(* (HEARTH.md 4): a double ballot an I10 scar, an illegal ratification an  *)
(* I8 scar with every one of its yes voters in the log.                    *)
(***************************************************************************)
SlashesAreScarred ==
    /\ \A i \in Identity :
          [identity |-> i, reason |-> "double_ballot"] \in slashLog <=>
              \E s \in Seat, p \in Proposal :
                  IdentityOf[s] = i /\ SealedBy("scar_I10", p, s) \in rings
    /\ \A i \in Identity :
          [identity |-> i, reason |-> "illegal_ratification"] \in slashLog <=>
              \E p \in Proposal : Sealed("scar_I8", p) \in rings /\ i \in Owners(YesSeats(p))

(***************************************************************************)
(* Every vote that opens is settled, whatever happens to its voters'       *)
(* positions meanwhile (G16 is not wedgeable), and so no lien holds a      *)
(* position for ever.                                                      *)
(***************************************************************************)
EveryVoteSettles ==
    \A p \in Proposal : status[p] = "voting" ~> status[p] \in Settled

LiensAreCleared ==
    \A i \in Identity : liens[i] # {} ~> liens[i] = {}

-----------------------------------------------------------------------------
(***************************************************************************)
(* COUNCIL.md 7, "every ballot has skin": a ballot in an open vote is      *)
(* backed by a lien on its voter's position.  (Not so: see README.)        *)
(***************************************************************************)
EveryBallotHasSkin ==
    \A p \in Proposal : status[p] = "voting" =>
        \A s \in Voters(p) : p \in liens[IdentityOf[s]]
=============================================================================
