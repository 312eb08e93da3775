---------------------------- MODULE CouncilHome ----------------------------
(***************************************************************************)
(* The Council kept on a home between commands (council_home.py), and the  *)
(* ratification of a peer change over several homes (net.py).              *)
(*                                                                         *)
(* Every command is a session of its own process: it loads council.json    *)
(* and the fleet of peers.json, rebuilds bonds, slashes and liens from     *)
(* them, performs one operation of the Council machine on what it loaded,  *)
(* and writes the file back whole.  No lock is held in between.  Seats are *)
(* "seat:<identity>", so a seat stands for its steward.                    *)
(***************************************************************************)
EXTENDS TallyRule, Sequences

CONSTANTS
    Proposal,
    Legal,            \* the proposals check_legality accepts
    Change,           \* proposal -> the PeerChange it carries, or NoChange
    Home,
    Office,           \* the home whose council.json this is
    FirstFleet,       \* home -> fleet: peers.json, NoFleet where there is none
    Operator,         \* the operators, each with at most one command running
    HomeLists,        \* the --homes lists a tally may be given
    StewardBond,      \* the bond leg of a STEWARD_LOCK_CHRONONS position
    Kills             \* may a command be killed half way?

\* A fleet is a space table: a steward's units, 0 when it is not a peer.
Fleet == [Seat -> Nat]
NoFleet == [s \in Seat |-> 0]
Stewards(f) == {s \in Seat : f[s] > 0}

PeerChange == [kind : {"peer_add", "peer_remove"}, identity : Seat, units : Nat \ {0}]
NoChange == [kind |-> "none"]

ASSUME HomeAssumption ==
    /\ Office \in Home /\ FirstFleet \in [Home -> Fleet] /\ FirstFleet[Office] # NoFleet
    /\ Legal \subseteq Proposal /\ Change \in [Proposal -> PeerChange \cup {NoChange}]
    /\ HomeLists \subseteq Seq(Home)
    /\ StewardBond \in Nat \ {0} /\ Kills \in BOOLEAN

CouncilFile == [status : [Proposal -> {"none", "voting"} \cup Settled],
                snapshot : [Proposal -> [Seat -> Nat]],
                ballots : [Proposal -> Ballots],
                slashLog : SUBSET Seat]

EmptyFile == [status |-> [p \in Proposal |-> "none"],
              snapshot |-> [p \in Proposal |-> NoFleet],
              ballots |-> [p \in Proposal |-> [s \in Seat |-> "none"]],
              slashLog |-> {}]

Idle == [phase |-> "idle"]
Loaded(f, t) == [phase |-> "loaded", file |-> f, fleet |-> t]
Ratifying(p, todo) == [phase |-> "ratifying", of |-> p, todo |-> todo]

VARIABLES
    peers,      \* home -> fleet
    file,       \* council.json
    session,    \* operator -> what its running command holds in memory
    killed      \* history: was a ratification killed half way?

vars == <<peers, file, session, killed>>

\* Types; and a vote on file always has an electorate.
TypeOK ==
    /\ peers \in [Home -> Fleet]
    /\ file \in CouncilFile
    /\ \A p \in Proposal : file.status[p] # "none" => file.snapshot[p] # NoFleet
    /\ \A o \in Operator :
          \/ session[o] = Idle
          \/ session[o].phase = "loaded" /\ session[o].file \in CouncilFile
                                         /\ session[o].fleet \in Fleet
          \/ session[o].phase = "ratifying" /\ Change[session[o].of] \in PeerChange
                                            /\ session[o].todo \in Seq(Home)

Init ==
    /\ peers = FirstFleet
    /\ file = EmptyFile
    /\ session = [o \in Operator |-> Idle]
    /\ killed = FALSE

-----------------------------------------------------------------------------
Running(o, phase) == session[o].phase = phase
End(o, next) == session' = [session EXCEPT ![o] = next]

\* load_council reads the two files.
Load(o) ==
    /\ Running(o, "idle")
    /\ peers[Office] # NoFleet
    /\ End(o, Loaded(file, peers[Office]))
    /\ UNCHANGED <<peers, file, killed>>

\* (Slip: the bonds are rebuilt and the slash log is not applied to them.)
Eligible_Reborn(m) == [s \in Seat |-> IF m.fleet[s] > 0 THEN StewardBond ELSE 0]

\* The seats attach_reports finds eligible in a rebuilt Hearth: every steward
\* has just locked and passed, and those of the slash log are slashed again.
Eligible(m) ==
    [s \in Seat |-> IF m.fleet[s] > 0 /\ s \notin m.file.slashLog THEN StewardBond ELSE 0]

\* (Slip: a proposal may be submitted again under its identifier.)
Propose_Again(o, p) ==
    LET m == session[o]
    IN  /\ Running(o, "loaded")
        /\ m.file.status[p] \in {"none", "rejected"}
        /\ Eligible(m) # NoFleet
        /\ file' = [m.file EXCEPT !.status[p] = "voting", !.snapshot[p] = Eligible(m)]
        /\ End(o, Idle)
        /\ UNCHANGED <<peers, killed>>

\* submit_proposal and attach_reports; with nobody eligible the latter raises
\* and nothing is saved.
Propose(o, p) ==
    LET m == session[o]
    IN  /\ Running(o, "loaded")
        /\ m.file.status[p] = "none"
        /\ Eligible(m) # NoFleet
        /\ file' = [m.file EXCEPT !.status[p] = "voting", !.snapshot[p] = Eligible(m)]
        /\ End(o, Idle)
        /\ UNCHANGED <<peers, killed>>

\* A steward of the loaded fleet and of the vote's snapshot.
MayCast(m, p, s) == m.fleet[s] > 0 /\ m.file.snapshot[p][s] > 0

CastBallot(o, p, s, v) ==
    LET m == session[o]
    IN  /\ Running(o, "loaded")
        /\ m.file.status[p] = "voting"
        /\ MayCast(m, p, s)
        /\ m.file.ballots[p][s] = "none"
        /\ file' = [m.file EXCEPT !.ballots[p][s] = v]
        /\ End(o, Idle)
        /\ UNCHANGED <<peers, killed>>

\* A second ballot is refused, and the slash it costs is saved.
DoubleBallot(o, p, s) ==
    LET m == session[o]
    IN  /\ Running(o, "loaded")
        /\ m.file.status[p] = "voting"
        /\ MayCast(m, p, s)
        /\ m.file.ballots[p][s] # "none"
        /\ file' = [m.file EXCEPT !.slashLog = @ \cup {s}]
        /\ End(o, Idle)
        /\ UNCHANGED <<peers, killed>>

\* A ballot on a settled vote is refused, and what was loaded is saved.
LateBallot(o, p, s) ==
    LET m == session[o]
    IN  /\ Running(o, "loaded")
        /\ m.file.status[p] \in Settled
        /\ MayCast(m, p, s)
        /\ file' = m.file
        /\ End(o, Idle)
        /\ UNCHANGED <<peers, killed>>

-----------------------------------------------------------------------------
\* The tally's slot lies past the deadline of every vote of a home.
Outcome(m, p) == OutcomeOf(m.file.snapshot[p], m.file.ballots[p], p \in Legal, TRUE)

\* Clearing the liens looks every voter's seat up: a voter no longer in the
\* fleet has none, the call raises and nothing is saved.
VotersSeated(m, p) == Cast(m.file.ballots[p]) \subseteq Stewards(m.fleet)

\* (Slip: the command ratifies whatever carried, legal or not.)
Ratifies_Carried(m, p, todo) ==
    /\ Carries(m.file.snapshot[p], m.file.ballots[p])
    /\ Change[p] # NoChange /\ todo # <<>>

\* make_peer_grant: an approved M6 proposal that carries one peer change and
\* nothing else.  (An at_slot before the activation raises with the result
\* saved, and leaves what a tally given no homes leaves.)
MakePeerGrant(m, p) == Outcome(m, p) = "approved" /\ Change[p] # NoChange

\* An approved peer change is ratified on the homes named on the command line.
Ratifies(m, p, todo) == MakePeerGrant(m, p) /\ todo # <<>>

\* (Slip: the result is saved, the slashes are not.)
Tallied_Unslashed(m, p) == [m.file EXCEPT !.status[p] = Outcome(m, p)]

\* What tally leaves: the outcome, and each yes voter of an illegal proposal
\* in the slash log.
Tallied(m, p) ==
    [m.file EXCEPT
        !.status[p] = Outcome(m, p),
        !.slashLog = @ \cup (IF Outcome(m, p) = "invalid"
                             THEN Yes(m.file.ballots[p]) ELSE {})]

\* The result is saved before the first home is amended.
Tally(o, p, todo) ==
    LET m == session[o]
    IN  /\ Running(o, "loaded")
        /\ m.file.status[p] = "voting"
        /\ VotersSeated(m, p)
        /\ file' = Tallied(m, p)
        /\ End(o, IF Ratifies(m, p, todo) THEN Ratifying(p, todo) ELSE Idle)
        /\ UNCHANGED <<peers, killed>>

-----------------------------------------------------------------------------
\* apply_peer_change; a list with no peers is not written.
Fits(f, c) ==
    CASE c.kind = "peer_add" -> f[c.identity] = 0
      [] c.kind = "peer_remove" -> f[c.identity] = c.units /\ Stewards(f) # {c.identity}
Amended(f, c) ==
    [f EXCEPT ![c.identity] = IF c.kind = "peer_add" THEN c.units ELSE 0]

\* (Slip: the first home is amended and the command is done.)
Amend_FirstOnly(o) ==
    /\ Running(o, "ratifying")
    /\ LET c == Change[session[o].of]
           h == Head(session[o].todo)
       IN  /\ peers[h] # NoFleet /\ Fits(peers[h], c)
           /\ peers' = [peers EXCEPT ![h] = Amended(@, c)]
           /\ End(o, Idle)
    /\ UNCHANGED <<file, killed>>

\* ratify_peer_change, one home of the list after the other: each home's
\* peers.json is read, amended and written before the next is looked at.
Amend(o) ==
    /\ Running(o, "ratifying")
    /\ LET c == Change[session[o].of]
           h == Head(session[o].todo)
           rest == Tail(session[o].todo)
       IN  /\ peers[h] # NoFleet /\ Fits(peers[h], c)
           /\ peers' = [peers EXCEPT ![h] = Amended(@, c)]
           /\ End(o, IF rest = <<>> THEN Idle ELSE Ratifying(session[o].of, rest))
    /\ UNCHANGED <<file, killed>>

\* The first home the change does not fit stops the command; the homes before
\* it stay amended.
Mismatch(o) ==
    /\ Running(o, "ratifying")
    /\ LET h == Head(session[o].todo)
       IN  peers[h] = NoFleet \/ ~Fits(peers[h], Change[session[o].of])
    /\ End(o, Idle)
    /\ UNCHANGED <<peers, file, killed>>

\* A command refused before it saves (an unknown or settled proposal, a seat
\* that may not vote, a tally that raises) ends like one that only looked.
EndUnsaved(o) ==
    /\ Running(o, "loaded")
    /\ End(o, Idle)
    /\ UNCHANGED <<peers, file, killed>>

Kill(o) ==
    /\ Kills /\ Running(o, "ratifying")
    /\ End(o, Idle) /\ killed' = TRUE
    /\ UNCHANGED <<peers, file>>

-----------------------------------------------------------------------------
Command(o) ==
    \/ Load(o) \/ EndUnsaved(o) \/ Amend(o) \/ Mismatch(o) \/ Kill(o)
    \/ \E p \in Proposal :
          \/ Propose(o, p)
          \/ \E s \in Seat :
                \/ \E v \in Votes : CastBallot(o, p, s, v)
                \/ DoubleBallot(o, p, s)
                \/ LateBallot(o, p, s)
          \/ \E todo \in HomeLists \cup {<<>>} : Tally(o, p, todo)

Next == \E o \in Operator : Command(o)

\* Operators come back, let a ratification run on, and tally every open vote
\* over and over.
Fairness ==
    \A o \in Operator :
        /\ WF_vars(Load(o)) /\ WF_vars(Amend(o)) /\ WF_vars(Mismatch(o))
        /\ \A p \in Proposal : SF_vars(\E todo \in HomeLists : Tally(o, p, todo))

Spec == Init /\ [][Next]_vars
FairSpec == Spec /\ Fairness

-----------------------------------------------------------------------------
Open(p) == file.status[p] = "voting"

\* A command that saves knows what it loaded.  When commands overlap, that
\* may be older than what it overwrites: nothing locks council.json.
Saved(o) == Running(o, "loaded") /\ session'[o] # session[o] /\ file' # file

\* A steward slashed on the file a command reads, for a double ballot or an
\* illegal ratification, sits in no electorate that command opens, whatever
\* fleets it has left and rejoined and whatever runs beside the command.
SlashedNeverSit ==
    [][\A o \in Operator, p \in Proposal :
          (Saved(o) /\ session[o].file.status[p] # "voting" /\ Open(p)') =>
              \A s \in session[o].file.slashLog : file'.snapshot[p][s] = 0]_vars

\* What g keeps of the file f: its slash log, the electorate and the ballots
\* of its open votes, everything of those that are settled.
Keeps(f, g) ==
    /\ f.slashLog \subseteq g.slashLog
    /\ \A p \in Proposal : f.status[p] # "none" =>
          /\ g.snapshot[p] = f.snapshot[p]
          /\ \A s \in Cast(f.ballots[p]) : g.ballots[p][s] = f.ballots[p][s]
          /\ f.status[p] \in Settled =>
                g.status[p] = f.status[p] /\ g.ballots[p] = f.ballots[p]

\* council.json changes only by commands that keep all they have read.  So a
\* command that saves over the file it read loses nothing of it, and one that
\* another overtook loses at most what was saved since it read.
RecordIsDurable ==
    [][file' # file => \E o \in Operator : Saved(o) /\ Keeps(session[o].file, file')]_vars

\* Whoever voted yes on a proposal settled as invalid is in the slash log.
IllegalYesIsLogged ==
    \A p \in Proposal : file.status[p] = "invalid" =>
        Yes(file.ballots[p]) \subseteq file.slashLog

\* A fleet is only ever amended by an approved, legal peer change, on file
\* before the first home is touched.
FleetsChangeByVote ==
    [][\A h \in Home : peers[h] # peers'[h] =>
          \E p \in Legal : /\ file.status[p] = "approved"
                           /\ Change[p] # NoChange
                           /\ peers'[h] = Amended(peers[h], Change[p])]_vars

\* When no ratification is under way, and none was ever killed half way, the
\* homes with a fleet have the same one (specs/PEERS.md: "identical bytes on
\* all of them"): no sequence of votes meets a change that fits some only.
FleetsAgree ==
    (~killed /\ \A o \in Operator : ~Running(o, "ratifying")) =>
        \A h \in Home : peers[h] # NoFleet => peers[h] = peers[Office]

\* Every vote that opened settles ("the tally must finish and the scar must
\* seal regardless", machine.py).
EveryVoteSettles == \A p \in Proposal : Open(p) ~> file.status[p] \in Settled
=============================================================================
