----------------------------- MODULE HomeProofs -----------------------------
(***************************************************************************)
(* The Council on a home and its peer changes, for any seats, proposals,   *)
(* homes, fleets and lists.                                                *)
(*                                                                         *)
(* What one file must satisfy (HomeInv), and what relates the file that a  *)
(* command reads to the one it saves, hold for any number of operators     *)
(* whose commands overlap: whatever they overwrite, every file written was *)
(* made by one operation on a file of that kind.  Only what relates the    *)
(* fleets to the file on disk needs that no command runs beside another    *)
(* (OneOperator), as an approval on disk may be lost to a command that     *)
(* read the file before it.                                                *)
(***************************************************************************)
EXTENDS CouncilHome, TLAPS, SequenceTheorems

\* What a command holds in memory.
Session == {Idle} \cup {Loaded(f, t) : f \in CouncilFile, t \in Fleet}
                  \cup {Ratifying(p, todo) : p \in Proposal, todo \in Seq(Home)}

\* What a council.json in use satisfies, on disk or in memory.
FileInv(f) ==
    /\ f \in CouncilFile
    /\ \A p \in Proposal : f.status[p] # "none" => f.snapshot[p] # NoFleet
    /\ \A p \in Proposal : f.status[p] = "invalid" => Yes(f.ballots[p]) \subseteq f.slashLog
    /\ \A p \in Proposal : f.status[p] = "approved" => p \in Legal

\* A command in memory: a file of that kind, or a change the vote adopted.
SessionInv(s) ==
    /\ s.phase = "loaded" => FileInv(s.file)
    /\ s.phase = "ratifying" => /\ s.of \in Legal /\ Change[s.of] \in PeerChange
                                /\ s.todo # <<>>

HomeInv ==
    /\ peers \in [Home -> Fleet]
    /\ FileInv(file)
    /\ session \in [Operator -> Session]
    /\ \A o \in Operator : SessionInv(session[o])

-----------------------------------------------------------------------------
\* Having no peers is a fleet.
LEMMA NoFleetTyped == NoFleet \in Fleet
BY DEF NoFleet, Fleet

\* What a session in either phase holds.
LEMMA SessionTyped ==
    ASSUME NEW s \in Session
    PROVE  /\ s.phase = "loaded" => s.file \in CouncilFile /\ s.fleet \in Fleet
                                    /\ s = Loaded(s.file, s.fleet)
           /\ s.phase = "ratifying" => s.of \in Proposal /\ s.todo \in Seq(Home)
           /\ s.phase = "idle" => s = Idle
           /\ s.phase \in {"idle", "loaded", "ratifying"}
BY DEF Session, Idle, Loaded, Ratifying

\* And what the actions put there is of its kind.
LEMMA SessionsMade ==
    /\ Idle \in Session /\ SessionInv(Idle)
    /\ \A f \in CouncilFile, t \in Fleet :
          /\ Loaded(f, t) \in Session /\ (FileInv(f) => SessionInv(Loaded(f, t)))
    /\ \A p \in Proposal, todo \in Seq(Home) :
          /\ Ratifying(p, todo) \in Session
          /\ p \in Legal /\ Change[p] \in PeerChange /\ todo # <<>> =>
                SessionInv(Ratifying(p, todo))
<1>1. Idle \in Session /\ SessionInv(Idle)
    BY DEF Session, SessionInv, Idle
<1>2. ASSUME NEW f \in CouncilFile, NEW t \in Fleet
      PROVE  Loaded(f, t) \in Session /\ (FileInv(f) => SessionInv(Loaded(f, t)))
    <2>1. Loaded(f, t) \in Session
        BY DEF Session
    <2>2. Loaded(f, t).phase = "loaded" /\ Loaded(f, t).file = f
        BY DEF Loaded
    <2> QED
        BY <2>1, <2>2 DEF SessionInv
<1>3. ASSUME NEW p \in Proposal, NEW todo \in Seq(Home)
      PROVE  /\ Ratifying(p, todo) \in Session
             /\ p \in Legal /\ Change[p] \in PeerChange /\ todo # <<>> =>
                   SessionInv(Ratifying(p, todo))
    <2>1. Ratifying(p, todo) \in Session
        BY DEF Session
    <2>2. /\ Ratifying(p, todo).phase = "ratifying"
          /\ Ratifying(p, todo).of = p /\ Ratifying(p, todo).todo = todo
        BY DEF Ratifying
    <2> QED
        BY <2>1, <2>2 DEF SessionInv
<1> QED
    BY <1>1, <1>2, <1>3

\* One operator's command leaves the others alone.
LEMMA Ends ==
    ASSUME session \in [Operator -> Session], \A q \in Operator : SessionInv(session[q]),
           NEW o \in Operator, NEW next \in Session, SessionInv(next), End(o, next)
    PROVE  /\ session' \in [Operator -> Session]
           /\ \A q \in Operator : SessionInv(session'[q])
           /\ session'[o] = next /\ \A q \in Operator \ {o} : session'[q] = session[q]
BY DEF End

\* A slash log cannot outgrow the seats, nor an electorate the loaded fleet.
LEMMA EligibleTyped ==
    ASSUME NEW m
    PROVE  Eligible(m) \in Fleet /\ \A s \in m.file.slashLog \cap Seat : Eligible(m)[s] = 0
BY HomeAssumption DEF Eligible, Fleet

\* A tally settles, and approves only what is legal.
LEMMA Outcomes ==
    ASSUME NEW m, NEW p \in Proposal
    PROVE  /\ Outcome(m, p) \in Settled
           /\ Outcome(m, p) = "approved" => p \in Legal
BY DEF Outcome, OutcomeOf, Settled

-----------------------------------------------------------------------------
\* Each operation that saves, on what it loaded.
LEMMA ProposedFile ==
    ASSUME NEW f, FileInv(f), NEW p \in Proposal, f.status[p] = "none",
           NEW w \in Fleet, w # NoFleet
    PROVE  FileInv([f EXCEPT !.status[p] = "voting", !.snapshot[p] = w])
BY DEF FileInv, CouncilFile, Fleet

\* A ballot on an open vote.
LEMMA CastFile ==
    ASSUME NEW f, FileInv(f), NEW p \in Proposal, f.status[p] = "voting",
           NEW s \in Seat, NEW v \in Votes
    PROVE  FileInv([f EXCEPT !.ballots[p][s] = v])
<1> DEFINE g == [f EXCEPT !.ballots[p][s] = v]
<1>1. f.ballots[p] \in Ballots /\ [f.ballots[p] EXCEPT ![s] = v] \in Ballots
    BY DEF FileInv, CouncilFile, Ballots
<1>2. /\ g \in CouncilFile
      /\ g.status = f.status /\ g.snapshot = f.snapshot /\ g.slashLog = f.slashLog
      /\ \A q \in Proposal \ {p} : g.ballots[q] = f.ballots[q]
    BY <1>1 DEF FileInv, CouncilFile
<1> QED
    BY <1>2 DEF FileInv

\* A seat more on the slash log.
LEMMA SlashedFile ==
    ASSUME NEW f, FileInv(f), NEW s \in Seat
    PROVE  FileInv([f EXCEPT !.slashLog = @ \cup {s}])
BY DEF FileInv, CouncilFile

\* A tally: the outcome, and the slashes it logs.
LEMMA TalliedFile ==
    ASSUME NEW m, FileInv(m.file), NEW p \in Proposal, m.file.status[p] = "voting"
    PROVE  FileInv(Tallied(m, p))
<1> DEFINE f == m.file
           g == Tallied(m, p)
           more == IF Outcome(m, p) = "invalid" THEN Yes(f.ballots[p]) ELSE {}
<1>1. more \subseteq Seat
    BY DEF Yes
<1>2. /\ g \in CouncilFile
      /\ g.status = [f.status EXCEPT ![p] = Outcome(m, p)] /\ g.snapshot = f.snapshot
      /\ g.ballots = f.ballots /\ g.slashLog = f.slashLog \cup more
    BY <1>1, Outcomes DEF FileInv, CouncilFile, Tallied
<1>3. f.status \in [Proposal -> {"none", "voting"} \cup Settled]
    BY DEF FileInv, CouncilFile
<1>4. \A q \in Proposal : g.status[q] = IF q = p THEN Outcome(m, p) ELSE f.status[q]
    BY <1>2, <1>3
<1>5. \A q \in Proposal : g.status[q] # "none" => g.snapshot[q] # NoFleet
    BY <1>2, <1>4 DEF FileInv
<1>6. \A q \in Proposal : g.status[q] = "invalid" => Yes(g.ballots[q]) \subseteq g.slashLog
    BY <1>2, <1>4 DEF FileInv
<1>7. \A q \in Proposal : g.status[q] = "approved" => q \in Legal
    BY <1>4, Outcomes DEF FileInv
<1> QED
    BY <1>2, <1>5, <1>6, <1>7 DEF FileInv

-----------------------------------------------------------------------------
\* What a command may do to the file: nothing, or write back what it loaded,
\* changed by one operation.  The file it leaves is again one in use.
Edit(f, g) ==
    \/ g = f
    \/ \E p \in Proposal, w \in Fleet :
          /\ f.status[p] = "none" /\ w # NoFleet /\ \A s \in f.slashLog : w[s] = 0
          /\ g = [f EXCEPT !.status[p] = "voting", !.snapshot[p] = w]
    \/ \E p \in Proposal, s \in Seat, v \in Votes :
          /\ f.status[p] = "voting" /\ f.ballots[p][s] = "none"
          /\ g = [f EXCEPT !.ballots[p][s] = v]
    \/ \E s \in Seat : g = [f EXCEPT !.slashLog = @ \cup {s}]
    \/ \E p \in Proposal, v \in Settled, more \in SUBSET Seat :
          /\ f.status[p] = "voting"
          /\ g = [f EXCEPT !.status[p] = v, !.slashLog = @ \cup more]

\* The commands that write council.json.
Saving(o) ==
    \/ \E p \in Proposal : Propose(o, p)
    \/ \E p \in Proposal, s \in Seat, v \in Votes : CastBallot(o, p, s, v)
    \/ \E p \in Proposal, s \in Seat : DoubleBallot(o, p, s) \/ LateBallot(o, p, s)
    \/ \E p \in Proposal, todo \in HomeLists \cup {<<>>} : Tally(o, p, todo)

\* What such a command writes.
LEMMA Saves ==
    ASSUME HomeInv, NEW o \in Operator, Saving(o)
    PROVE  /\ Running(o, "loaded")
           /\ FileInv(file') /\ Edit(session[o].file, file')
           /\ UNCHANGED <<peers, killed>>
<1> DEFINE m == session[o]
           f == m.file
<1>1. Running(o, "loaded") /\ UNCHANGED <<peers, killed>>
    BY DEF Saving, Propose, CastBallot, DoubleBallot, LateBallot, Tally
<1>2. FileInv(f) /\ f \in CouncilFile /\ f.slashLog \subseteq Seat
    BY <1>1 DEF HomeInv, SessionInv, Running, FileInv, CouncilFile
<1>3. CASE \E p \in Proposal : Propose(o, p)
    <2>1. PICK p \in Proposal : Propose(o, p)
        BY <1>3
    <2>2. /\ f.status[p] = "none" /\ Eligible(m) # NoFleet /\ Eligible(m) \in Fleet
          /\ \A s \in f.slashLog : Eligible(m)[s] = 0
          /\ file' = [f EXCEPT !.status[p] = "voting", !.snapshot[p] = Eligible(m)]
        BY <1>2, <2>1, EligibleTyped DEF Propose
    <2> HIDE DEF m, f
    <2> QED
        BY <1>1, <1>2, <2>2, ProposedFile DEF Edit, f, m
<1>4. CASE \E p \in Proposal, s \in Seat, v \in Votes : CastBallot(o, p, s, v)
    <2>1. PICK p \in Proposal, s \in Seat, v \in Votes : CastBallot(o, p, s, v)
        BY <1>4
    <2>2. /\ f.status[p] = "voting" /\ f.ballots[p][s] = "none"
          /\ file' = [f EXCEPT !.ballots[p][s] = v]
        BY <2>1 DEF CastBallot
    <2> HIDE DEF f
    <2>3. FileInv(file') /\ Edit(f, file')
        BY <1>2, <2>2, CastFile DEF Edit
    <2> QED
        BY <1>1, <2>3 DEF f
<1>5. CASE \E p \in Proposal, s \in Seat : DoubleBallot(o, p, s) \/ LateBallot(o, p, s)
    <2>1. file' = f \/ \E s \in Seat : file' = [f EXCEPT !.slashLog = @ \cup {s}]
        BY <1>5 DEF DoubleBallot, LateBallot
    <2> HIDE DEF f
    <2>2. FileInv(file') /\ Edit(f, file')
        BY <1>2, <2>1, SlashedFile DEF Edit
    <2> QED
        BY <1>1, <2>2 DEF f
<1>6. CASE \E p \in Proposal, todo \in HomeLists \cup {<<>>} : Tally(o, p, todo)
    <2>1. PICK p \in Proposal, todo \in HomeLists \cup {<<>>} : Tally(o, p, todo)
        BY <1>6
    <2>2. f.status[p] = "voting" /\ file' = Tallied(m, p)
        BY <2>1 DEF Tally
    <2>3. FileInv(file')
        BY <1>2, <2>2, TalliedFile
    <2>4. \E v \in Settled, more \in SUBSET Seat :
              file' = [f EXCEPT !.status[p] = v, !.slashLog = @ \cup more]
        BY <2>2, Outcomes DEF Tallied, Yes
    <2> HIDE DEF f
    <2>5. PICK v \in Settled, more \in SUBSET Seat :
              file' = [f EXCEPT !.status[p] = v, !.slashLog = @ \cup more]
        BY <2>4
    <2>6. Edit(f, file')
        BY <2>2, <2>5, Zenon DEF Edit
    <2> QED
        BY <1>1, <2>3, <2>6 DEF f
<1> QED
    BY <1>3, <1>4, <1>5, <1>6 DEF Saving

\* What a command leaves its own session: done, with a copy of the two files,
\* or about to amend the homes by a change the file it just wrote approves.
LEMMA Leaves ==
    ASSUME HomeInv, NEW o \in Operator, Command(o)
    PROVE  \E next \in Session : SessionInv(next) /\ End(o, next)
<1> USE SessionsMade
<1>1. CASE Load(o)
    BY <1>1, HomeAssumption DEF Load, HomeInv, FileInv
<1>2. CASE EndUnsaved(o) \/ Mismatch(o) \/ Kill(o)
    BY <1>2 DEF EndUnsaved, Mismatch, Kill
<1>3. CASE Amend(o)
    <2> DEFINE p == session[o].of
               todo == session[o].todo
    <2>1. /\ p \in Legal /\ Change[p] \in PeerChange /\ todo \in Seq(Home) /\ todo # <<>>
          /\ p \in Proposal
        BY <1>3, SessionTyped DEF Amend, Running, HomeInv, SessionInv
    <2>2. Tail(todo) \in Seq(Home)
        BY <2>1, HeadTailProperties
    <2>3. End(o, Idle) \/ (Tail(todo) # <<>> /\ End(o, Ratifying(p, Tail(todo))))
        BY <1>3 DEF Amend
    <2> HIDE DEF p, todo
    <2> QED
        BY <2>1, <2>2, <2>3
<1>4. CASE \E p \in Proposal : Propose(o, p)
    BY <1>4 DEF Propose
<1>5. CASE \E p \in Proposal, s \in Seat, v \in Votes : CastBallot(o, p, s, v)
    BY <1>5 DEF CastBallot
<1>6. CASE \E p \in Proposal, s \in Seat : DoubleBallot(o, p, s) \/ LateBallot(o, p, s)
    BY <1>6 DEF DoubleBallot, LateBallot
<1>7. CASE \E p \in Proposal, todo \in HomeLists \cup {<<>>} : Tally(o, p, todo)
    <2>1. PICK p \in Proposal, todo \in HomeLists \cup {<<>>} : Tally(o, p, todo)
        BY <1>7
    <2>2. todo \in Seq(Home)
        BY HomeAssumption, EmptySeq
    <2>3. CASE Ratifies(session[o], p, todo)
        <3>1. p \in Legal /\ Change[p] \in PeerChange /\ todo # <<>>
            BY <2>3, Outcomes, HomeAssumption DEF Ratifies, MakePeerGrant
        <3>2. End(o, Ratifying(p, todo))
            BY <2>1, <2>3 DEF Tally
        <3> QED
            BY <2>2, <3>1, <3>2
    <2>4. CASE ~Ratifies(session[o], p, todo)
        BY <2>1, <2>4 DEF Tally
    <2> QED
        BY <2>3, <2>4
<1> QED
    BY <1>1, <1>2, <1>3, <1>4, <1>5, <1>6, <1>7 DEF Command

\* A fleet that a change fits, amended, is a fleet with a steward left.
LEMMA AmendedFleet ==
    ASSUME NEW t \in Fleet, NEW c \in PeerChange, Fits(t, c)
    PROVE  Amended(t, c) \in Fleet /\ Amended(t, c) # NoFleet
<1>1. c.identity \in Seat /\ c.units \in Nat \ {0} /\ c.kind \in {"peer_add", "peer_remove"}
    BY DEF PeerChange
<1>2. Amended(t, c) \in Fleet
    BY <1>1 DEF Amended, Fleet
<1>3. CASE c.kind = "peer_add"
    <2>1. Amended(t, c)[c.identity] = c.units
        BY <1>1, <1>3 DEF Amended, Fleet
    <2> QED
        BY <1>1, <1>2, <2>1 DEF NoFleet
<1>4. CASE c.kind = "peer_remove"
    <2>1. /\ t[c.identity] = c.units /\ Stewards(t) # {c.identity}
        BY <1>4 DEF Fits
    <2>2. PICK s \in Stewards(t) : s # c.identity
        BY <1>1, <2>1 DEF Stewards
    <2>3. Amended(t, c)[s] > 0
        BY <1>1, <2>2 DEF Amended, Stewards, Fleet
    <2> QED
        BY <1>2, <2>2, <2>3 DEF NoFleet, Stewards
<1> QED
    BY <1>1, <1>2, <1>3, <1>4

\* A command writes council.json, or one peers.json, or neither.
LEMMA Splits ==
    ASSUME NEW o \in Operator, Command(o)
    PROVE  \/ Saving(o)
           \/ Amend(o)
           \/ (Load(o) \/ EndUnsaved(o) \/ Mismatch(o) \/ Kill(o)) /\ UNCHANGED <<peers, file>>
BY DEF Command, Saving, Load, EndUnsaved, Mismatch, Kill

\* An empty file, and commands not yet run.
THEOREM HomeStarts == Init => HomeInv
BY SessionsMade, HomeAssumption, NoFleetTyped
   DEF Init, HomeInv, FileInv, EmptyFile, CouncilFile, Ballots, Votes, Settled, Fleet, Yes

\* Every command of every operator keeps HomeInv.
THEOREM HomeSteps == HomeInv /\ [Next]_vars => HomeInv'
<1> SUFFICES ASSUME HomeInv, [Next]_vars
             PROVE  HomeInv'
    OBVIOUS
<1>1. ASSUME NEW o \in Operator, Command(o)
      PROVE  HomeInv'
    <2>1. session' \in [Operator -> Session] /\ \A q \in Operator : SessionInv(session'[q])
        BY <1>1, Leaves, Ends DEF HomeInv
    <2>2. FileInv(file') /\ peers' \in [Home -> Fleet]
        <3>1. CASE Saving(o)
            BY <3>1, Saves DEF HomeInv
        <3>2. CASE Amend(o)
            <4> DEFINE c == Change[session[o].of]
                       h == Head(session[o].todo)
            <4>1. c \in PeerChange /\ session[o].todo # <<>> /\ session[o].todo \in Seq(Home)
                BY <3>2, SessionTyped DEF Amend, Running, HomeInv, SessionInv
            <4>2. h \in Home
                BY <4>1, HeadTailProperties
            <4>3. /\ Fits(peers[h], c) /\ peers' = [peers EXCEPT ![h] = Amended(@, c)]
                  /\ UNCHANGED file
                BY <3>2 DEF Amend
            <4>4. Amended(peers[h], c) \in Fleet
                BY <4>1, <4>2, <4>3, AmendedFleet DEF HomeInv
            <4> HIDE DEF c, h
            <4> QED
                BY <4>2, <4>3, <4>4 DEF HomeInv
        <3> QED
            BY <1>1, <3>1, <3>2, Splits DEF HomeInv
    <2> QED
        BY <2>1, <2>2 DEF HomeInv
<1>2. CASE UNCHANGED vars
    BY <1>2 DEF vars, HomeInv
<1> QED
    BY <1>1, <1>2 DEF Next

\* Whoever voted yes on a proposal settled as invalid is in the slash log,
\* also when commands of several operators overwrite each other's files
\* (council_home.save_council, CouncilState.tally).
THEOREM IllegalYesMustBeLogged == Spec => []IllegalYesIsLogged
<1>1. HomeInv => IllegalYesIsLogged
    BY DEF HomeInv, FileInv, IllegalYesIsLogged
<1> QED
    BY <1>1, HomeStarts, HomeSteps, PTL DEF Spec

\* Types; and a vote on file always has an electorate (attach_reports).
THEOREM HomeTypeCorrect == Spec => []TypeOK
<1>1. HomeInv => TypeOK
    <2> SUFFICES ASSUME HomeInv, NEW o \in Operator
                 PROVE  \/ session[o] = Idle
                        \/ session[o].phase = "loaded" /\ session[o].file \in CouncilFile
                                                       /\ session[o].fleet \in Fleet
                        \/ session[o].phase = "ratifying" /\ Change[session[o].of] \in PeerChange
                                                          /\ session[o].todo \in Seq(Home)
        BY DEF HomeInv, FileInv, TypeOK
    <2>1. session[o] \in Session /\ SessionInv(session[o])
        BY DEF HomeInv
    <2> QED
        BY <2>1, SessionTyped DEF SessionInv
<1> QED
    BY <1>1, HomeStarts, HomeSteps, PTL DEF Spec

-----------------------------------------------------------------------------
\* What an edit does to the columns of the file.
LEMMA Edits ==
    ASSUME NEW f \in CouncilFile, NEW g, Edit(f, g)
    PROVE  /\ f.slashLog \subseteq g.slashLog
           /\ \A p \in Proposal :
                 \/ /\ g.status[p] = f.status[p] /\ g.snapshot[p] = f.snapshot[p]
                    /\ \/ g.ballots[p] = f.ballots[p]
                       \/ /\ f.status[p] = "voting"
                          /\ \A s \in Cast(f.ballots[p]) : g.ballots[p][s] = f.ballots[p][s]
                 \/ /\ f.status[p] = "none" /\ g.ballots[p] = f.ballots[p]
                    /\ \A s \in f.slashLog : g.snapshot[p][s] = 0
                 \/ /\ f.status[p] = "voting" /\ g.status[p] \in Settled
                    /\ g.snapshot[p] = f.snapshot[p] /\ g.ballots[p] = f.ballots[p]
<1> USE DEF CouncilFile
<1>1. CASE g = f
    BY <1>1
<1>2. CASE \E p \in Proposal, w \in Fleet :
              /\ f.status[p] = "none" /\ w # NoFleet /\ \A s \in f.slashLog : w[s] = 0
              /\ g = [f EXCEPT !.status[p] = "voting", !.snapshot[p] = w]
    <2>1. PICK p \in Proposal, w \in Fleet :
              /\ f.status[p] = "none" /\ \A s \in f.slashLog : w[s] = 0
              /\ g = [f EXCEPT !.status[p] = "voting", !.snapshot[p] = w]
        BY <1>2
    <2>2. /\ g.slashLog = f.slashLog /\ g.ballots = f.ballots
          /\ g.status = [f.status EXCEPT ![p] = "voting"]
          /\ g.snapshot = [f.snapshot EXCEPT ![p] = w]
        BY <2>1
    <2> QED
        BY <2>1, <2>2
<1>3. CASE \E p \in Proposal, s \in Seat, v \in Votes :
              /\ f.status[p] = "voting" /\ f.ballots[p][s] = "none"
              /\ g = [f EXCEPT !.ballots[p][s] = v]
    <2>1. PICK p \in Proposal, s \in Seat, v \in Votes :
              /\ f.status[p] = "voting" /\ f.ballots[p][s] = "none"
              /\ g = [f EXCEPT !.ballots[p][s] = v]
        BY <1>3
    <2>2. /\ g.slashLog = f.slashLog /\ g.status = f.status /\ g.snapshot = f.snapshot
          /\ g.ballots = [f.ballots EXCEPT ![p][s] = v]
        BY <2>1
    <2>3. \A r \in Cast(f.ballots[p]) : g.ballots[p][r] = f.ballots[p][r]
        BY <2>1, <2>2 DEF Cast, Ballots
    <2> QED
        BY <2>1, <2>2, <2>3
<1>4. CASE \E s \in Seat : g = [f EXCEPT !.slashLog = @ \cup {s}]
    BY <1>4
<1>5. CASE \E p \in Proposal, v \in Settled, more \in SUBSET Seat :
              /\ f.status[p] = "voting"
              /\ g = [f EXCEPT !.status[p] = v, !.slashLog = @ \cup more]
    <2>1. PICK p \in Proposal, v \in Settled, more \in SUBSET Seat :
              /\ f.status[p] = "voting"
              /\ g = [f EXCEPT !.status[p] = v, !.slashLog = @ \cup more]
        BY <1>5
    <2>2. /\ g.slashLog = f.slashLog \cup more /\ g.snapshot = f.snapshot
          /\ g.ballots = f.ballots /\ g.status = [f.status EXCEPT ![p] = v]
        BY <2>1
    <2> QED
        BY <2>1, <2>2
<1> QED
    BY <1>1, <1>2, <1>3, <1>4, <1>5 DEF Edit

\* Only a command that saves changes the file, and what it saves is an edit
\* of what it read.
LEMMA StepSaves ==
    ASSUME HomeInv, [Next]_vars, file' # file
    PROVE  \E o \in Operator :
              /\ Running(o, "loaded") /\ session[o].file \in CouncilFile
              /\ Edit(session[o].file, file')
              /\ \A q \in Operator : session'[q] # session[q] => q = o
<1>1. PICK o \in Operator : Command(o)
    BY DEF Next, vars
<1>2. Saving(o)
    BY <1>1, Splits DEF Amend
<1>3. /\ Running(o, "loaded") /\ Edit(session[o].file, file')
      /\ session[o].file \in CouncilFile
    BY <1>2, Saves DEF HomeInv, SessionInv, FileInv, Running
<1>4. \A q \in Operator : session'[q] # session[q] => q = o
    BY <1>1, Leaves DEF HomeInv, End
<1> QED
    BY <1>3, <1>4

\* A command that saves is done with its session, or ratifies.
LEMMA SaveEnds ==
    ASSUME HomeInv, NEW o \in Operator, Saving(o)
    PROVE  session'[o] # session[o]
<1>1. End(o, Idle) \/ \E p, todo : End(o, Ratifying(p, todo))
    BY DEF Saving, Propose, CastBallot, DoubleBallot, LateBallot, Tally
<1>2. \A next : End(o, next) => session'[o] = next
    BY DEF HomeInv, End
<1>3. session[o].phase = "loaded"
    BY Saves DEF Running
<1>4. Idle.phase # "loaded" /\ \A p, todo : Ratifying(p, todo).phase # "loaded"
    BY DEF Idle, Ratifying
<1> QED
    BY <1>1, <1>2, <1>3, <1>4

\* council.json changes only by commands that keep all they have read, for
\* any number of operators whose commands overlap in any way, so a record is
\* lost only to a command that read the file before it was made
\* (council_home.load_council, save_council).
THEOREM RecordStaysDurable == Spec => RecordIsDurable
<1>1. HomeInv /\ [Next]_vars =>
          [file' # file => \E o \in Operator : Saved(o) /\ Keeps(session[o].file, file')]_vars
    <2> SUFFICES ASSUME HomeInv, [Next]_vars, file' # file
                 PROVE  \E o \in Operator : Saved(o) /\ Keeps(session[o].file, file')
        OBVIOUS
    <2>1. PICK o \in Operator : Saving(o)
        BY Splits DEF Next, vars, Amend
    <2>2. Saved(o)
        BY <2>1, Saves, SaveEnds DEF Saved
    <2>3. session[o].file \in CouncilFile /\ Edit(session[o].file, file')
        BY <2>1, Saves DEF HomeInv, SessionInv, FileInv, Running
    <2>4. Keeps(session[o].file, file')
        BY <2>3, Edits DEF Keeps, Settled
    <2> QED
        BY <2>2, <2>4
<1> QED
    BY <1>1, HomeStarts, HomeSteps, PTL DEF Spec, RecordIsDurable

\* Nor does a seat on the slash log a command reads come into an electorate
\* it opens, also after it left and rejoined the fleet, and whatever commands
\* run beside it (rebuild of the Hearth in load_council, attach_reports).
THEOREM TheSlashedNeverSit == Spec => SlashedNeverSit
<1> DEFINE A == \A o \in Operator, p \in Proposal :
                   (Saved(o) /\ session[o].file.status[p] # "voting" /\ Open(p)') =>
                       \A s \in session[o].file.slashLog : file'.snapshot[p][s] = 0
<1>1. HomeInv /\ [Next]_vars => [A]_vars
    <2> SUFFICES ASSUME HomeInv, [Next]_vars, NEW o \in Operator, NEW p \in Proposal,
                        Saved(o), session[o].file.status[p] # "voting", Open(p)',
                        NEW s \in session[o].file.slashLog
                 PROVE  file'.snapshot[p][s] = 0
        OBVIOUS
    <2>1. session[o].file \in CouncilFile /\ Edit(session[o].file, file')
        BY StepSaves DEF Saved
    <2> QED
        BY <2>1, Edits DEF Open, Settled
<1> QED
    BY <1>1, HomeStarts, HomeSteps, PTL DEF Spec, SlashedNeverSit

-----------------------------------------------------------------------------
\* One operator: what a command holds is what is on disk.
OneOperator == \A o, q \in Operator : o = q

UpToDate ==
    \A o \in Operator :
        /\ Running(o, "loaded") => session[o].file = file /\ session[o].fleet = peers[Office]
        /\ Running(o, "ratifying") => file.status[session[o].of] = "approved"

OneInv == HomeInv /\ UpToDate

\* Nobody has loaded anything yet.
LEMMA OneStarts == Init => OneInv
<1>1. Init => UpToDate
    BY DEF Init, UpToDate, Running, Idle
<1> QED
    BY <1>1, HomeStarts DEF OneInv

\* The fields of what a command holds.
LEMMA PhaseOf ==
    /\ Idle.phase = "idle"
    /\ \A f, t : /\ Loaded(f, t).phase = "loaded"
                 /\ Loaded(f, t).file = f /\ Loaded(f, t).fleet = t
    /\ \A p, todo : /\ Ratifying(p, todo).phase = "ratifying"
                    /\ Ratifying(p, todo).of = p /\ Ratifying(p, todo).todo = todo
BY DEF Idle, Loaded, Ratifying

\* A command leaves its memory in step with the disk.
LEMMA OneKeeps ==
    ASSUME OneOperator, OneInv, NEW o \in Operator, Command(o)
    PROVE  UpToDate'
<1>1. session' \in [Operator -> Session] /\ \A next : End(o, next) => session'[o] = next
    BY Leaves, Ends DEF OneInv, HomeInv, End
<1>2. SUFFICES /\ session'[o].phase = "loaded" =>
                     session'[o].file = file' /\ session'[o].fleet = peers'[Office]
               /\ session'[o].phase = "ratifying" => file'.status[session'[o].of] = "approved"
    BY DEF UpToDate, Running, OneOperator
<1>3. CASE End(o, Idle)
    BY <1>1, <1>3, PhaseOf
<1>4. CASE Load(o)
    <2>1. session'[o] = Loaded(file, peers[Office]) /\ file' = file /\ peers' = peers
        BY <1>1, <1>4 DEF Load
    <2> QED
        BY <2>1, PhaseOf
<1>5. CASE Amend(o)
    <2>1. /\ session'[o] = Idle \/ session'[o] = Ratifying(session[o].of, Tail(session[o].todo))
          /\ file' = file /\ file.status[session[o].of] = "approved"
        BY <1>1, <1>5 DEF Amend, OneInv, UpToDate
    <2> QED
        BY <2>1, PhaseOf
<1>6. CASE \E p \in Proposal, todo \in HomeLists \cup {<<>>} : Tally(o, p, todo)
    <2>1. PICK p \in Proposal, todo \in HomeLists \cup {<<>>} : Tally(o, p, todo)
        BY <1>6
    <2>2. CASE Ratifies(session[o], p, todo)
        <3>1. session'[o] = Ratifying(p, todo) /\ file' = Tallied(session[o], p)
            BY <1>1, <2>1, <2>2 DEF Tally
        <3>2. Outcome(session[o], p) = "approved"
            BY <2>2 DEF Ratifies, MakePeerGrant
        <3>3. session[o].file \in CouncilFile
            BY <2>1 DEF Tally, Running, OneInv, HomeInv, SessionInv, FileInv
        <3>4. file'.status[p] = "approved"
            BY <3>1, <3>2, <3>3 DEF Tallied, CouncilFile
        <3> QED
            BY <3>1, <3>4, PhaseOf
    <2>3. CASE ~Ratifies(session[o], p, todo)
        BY <1>3, <2>1, <2>3 DEF Tally
    <2> QED
        BY <2>2, <2>3
<1> QED
    BY <1>3, <1>4, <1>5, <1>6 DEF Command, EndUnsaved, Mismatch, Kill, Propose, CastBallot,
       DoubleBallot, LateBallot

\* So does every step.
LEMMA OneSteps ==
    ASSUME OneOperator
    PROVE  OneInv /\ [Next]_vars => OneInv'
<1> SUFFICES ASSUME OneInv, [Next]_vars
             PROVE  UpToDate'
    BY HomeSteps DEF OneInv
<1>1. CASE UNCHANGED vars
    BY <1>1 DEF vars, OneInv, UpToDate, Running
<1> QED
    BY <1>1, OneKeeps DEF Next

\* A fleet changes by an approved, legal peer change that is on file
\* (ratify_peer_change).
THEOREM FleetsMustChangeByVote ==
    ASSUME OneOperator
    PROVE  Spec => FleetsChangeByVote
<1> DEFINE A == \A h \in Home : peers[h] # peers'[h] =>
                   \E p \in Legal : /\ file.status[p] = "approved"
                                    /\ Change[p] # NoChange
                                    /\ peers'[h] = Amended(peers[h], Change[p])
<1>1. OneInv /\ [Next]_vars => [A]_vars
    <2> SUFFICES ASSUME OneInv, NEW o \in Operator, Amend(o), NEW h \in Home, peers[h] # peers'[h]
                 PROVE  \E p \in Legal : /\ file.status[p] = "approved"
                                         /\ Change[p] # NoChange
                                         /\ peers'[h] = Amended(peers[h], Change[p])
        BY Splits, Saves DEF Next, OneInv
    <2> DEFINE p == session[o].of
               g == Head(session[o].todo)
    <2>1. Running(o, "ratifying") /\ peers' = [peers EXCEPT ![g] = Amended(@, Change[p])]
        BY DEF Amend
    <2>2. p \in Legal /\ Change[p] \in PeerChange /\ file.status[p] = "approved"
        BY <2>1 DEF OneInv, UpToDate, HomeInv, SessionInv, Running
    <2>3. Change[p] # NoChange
        BY <2>2 DEF PeerChange, NoChange
    <2>4. peers'[h] = Amended(peers[h], Change[p])
        BY <2>1 DEF OneInv, HomeInv
    <2> QED
        BY <2>2, <2>3, <2>4
<1> QED
    BY <1>1, OneStarts, OneSteps, PTL DEF Spec, FleetsChangeByVote
=============================================================================
