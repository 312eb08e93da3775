------------------------------ MODULE LocalNet ------------------------------
(***************************************************************************)
(* Durable homes driven by one process at a time: net_run takes them all   *)
(* through some slots over the in-process bus, pulse takes one of them     *)
(* alone, and between the runs only the homes remain.  Each home keeps its *)
(* chains, its credits and a lane of pinned objects.                       *)
(*                                                                         *)
(* A ring, a slot header and a header each extend a chain of their own and *)
(* are named by slot and leader; a message carries the chain its entry was *)
(* made on (see Gossip).  A run may be killed between any two deliveries,  *)
(* offers or writes of the leader; what a torn line leaves is DurableHome's.*)
(***************************************************************************)
EXTENDS Economy, Sequences, SequencesExt

CONSTANTS
    Homes,         \* the identities, as net_run is given them
    Sorted,        \* the same, in the bus's order
    Draws,         \* the possible draws: slot -> leader, all being eligible
    Gap,           \* MAX_CHALLENGE_GAP_SLOTS
    Worker,        \* accounts besides the homes that hand in receipts
    Named,         \* the objects a lane may come to hold, in the order of their names
    Pins,          \* those every home's cas_root commits to
    StoredAs,      \* object -> the name its bytes get when put again, if they do
    MaxSlot,       \* bound: heights, and so slot numbers
    RunLengths,    \* bound: slots of one run
    MaxRuns,       \* bound: runs of the net or of a home
    MaxFaults,     \* bound: kills, faults of pins and space files (between
                   \*   slots only) and homes pulsed alone
    MaxReceipts    \* bound: genuine receipts a worker hands in

Home == ToSet(Homes)
Objects == ToSet(Named)

ASSUME HomesAssumption ==
    /\ Homes \in Seq(Home) \ {<<>>} /\ Sorted \in Seq(Home)
    /\ IsInjective(Sorted) /\ ToSet(Sorted) = Home
    /\ {"idle", "net"} \cap Home = {}
ASSUME DrawsAssumption == Draws \subseteq [1..MaxSlot -> Home]
\* Bytes that name a forbidden key are declined; an object whose bytes are not
\* canonical is stored under its canonical name; one that has none raises.
ASSUME ObjectsAssumption ==
    /\ Named \in Seq(Objects) /\ Pins \subseteq Objects
    /\ StoredAs \in [Objects -> Objects \cup {"declined", "raises"}]
ASSUME BoundsAssumption == Gap \in Nat /\ MaxSlot \in Nat /\ RunLengths \subseteq Nat \ {0}

First == Homes[1]
Ring == [slot : 1..MaxSlot, leader : Home]

VARIABLES
    leader,        \* the draw
    \* the homes
    chain, proofs, headers,
    credits,       \* home -> the credits of each slot it won
    lane,          \* home -> object -> "absent", "intact" or "tampered"
    badSeal,       \* the homes whose .cseal does not verify
    \* the running process
    mode,          \* "idle", "net", or the home that is pulsed alone
    lastPass,
    slot, left,    \* the loop's next slot and how many are left
    bus,           \* deliveries still to be made, and then the offers
    buffer,        \* home -> the attested receipts' workers
    \* history
    handedIn,      \* account -> genuine receipts handed in for it, the same
                   \*   one again counted again
    faults, runs,
    disturbed,     \* was a run killed inside a slot, or a home pulsed alone?
    rotted,        \* the objects of homes that a fault tampered with
    cut            \* home -> slots it was killed in after it had sealed their ring

chains == <<chain, proofs, headers>>
homes == <<chains, credits, lane, badSeal>>
process == <<mode, lastPass, slot, left, bus, buffer>>
history == <<handedIn, faults, runs, disturbed, rotted, cut>>
vars == <<leader, homes, process, history>>

Init ==
    /\ leader \in Draws
    /\ chain = [h \in Home |-> <<>>] /\ proofs = chain /\ headers = chain
    /\ credits = [h \in Home |-> <<>>]
    /\ lane = [h \in Home |-> [o \in Objects |-> IF o \in Pins THEN "intact" ELSE "absent"]]
    /\ badSeal = {}
    /\ mode = "idle" /\ lastPass = [h \in Home |-> 0] /\ slot = 1 /\ left = 0
    /\ bus = <<>> /\ buffer = [h \in Home |-> {}]
    /\ handedIn = [a \in Home \cup Worker |-> 0]
    /\ faults = 0 /\ runs = 0 /\ disturbed = FALSE
    /\ rotted = {} /\ cut = [h \in Home |-> 0]

----------------------------------------------------------------------------
\* The process.  What it only held in memory goes with it.
Height(h) == Len(chain[h])
Ended ==
    /\ mode' = "idle" /\ slot' = 1 /\ left' = 0 /\ bus' = <<>>
    /\ lastPass' = [h \in Home |-> 0] /\ buffer' = [h \in Home |-> {}]

\* (Slip: only the home that counts the slots refreshes its cadence.)
Refreshed_First == [h \in Home |-> IF h = First THEN Height(h) + 1 ELSE 0]

\* Every home that is opened challenges itself, at its own height.
Refreshed == [h \in Home |-> Height(h) + 1]

Fault == faults < MaxFaults /\ faults' = faults + 1

\* A home whose .cseal cannot be read is not opened, and the run does not start.
SealReads(h) == h \notin badSeal

Open(m, counting, opened, slots) ==
    /\ mode = "idle" /\ runs < MaxRuns /\ runs' = runs + 1
    /\ \A h \in Home : Height(h) + slots <= MaxSlot
    /\ \A h \in opened : SealReads(h)
    /\ mode' = m /\ slot' = Height(counting) + 1 /\ left' = slots
    /\ lastPass' = Refreshed
    /\ UNCHANGED <<leader, homes, bus, buffer, handedIn, rotted, cut>>

StartNet(slots) == Open("net", First, Home, slots) /\ UNCHANGED <<faults, disturbed>>
StartPulse(h, slots) == Open(h, h, {h}, slots) /\ Fault /\ disturbed' = TRUE

Stop ==
    /\ mode # "idle" /\ left = 0 /\ bus = <<>>
    /\ Ended /\ UNCHANGED <<leader, homes, history>>

\* Killed between two slots, or between two deliveries of one.
Crash ==
    /\ mode # "idle" /\ Fault /\ Ended
    /\ disturbed' = (disturbed \/ bus # <<>>)
    /\ UNCHANGED <<leader, homes, handedIn, runs, rotted, cut>>

----------------------------------------------------------------------------
\* Slots.  The cadence a node knows is its own, and it holds it against every
\* identity: all are eligible to it, or none.
Fresh(h) == slot <= lastPass[h] + Gap

NextSlot == slot' = slot + 1 /\ left' = left - 1

\* verify_pins: no object whose bytes are not its name's, and the set that is
\* there is the set committed to.
PinsOk(h) ==
    /\ \A o \in Objects : lane[h][o] # "tampered"
    /\ {o \in Objects : lane[h][o] # "absent"} = Pins

\* (Slip: the ring goes out before the proof it needs.)
SlotMessages_RingFirst(h) ==
    LET entry == [slot |-> slot, leader |-> h]
    IN  <<[kind |-> "ring", entry |-> entry, on |-> chain[h]],
          [kind |-> "slot_header", entry |-> entry, on |-> proofs[h]],
          [kind |-> "header", entry |-> entry, on |-> headers[h]]>>

SlotMessages(h) ==
    LET entry == [slot |-> slot, leader |-> h]
    IN  <<[kind |-> "slot_header", entry |-> entry, on |-> proofs[h]],
          [kind |-> "ring", entry |-> entry, on |-> chain[h]],
          [kind |-> "header", entry |-> entry, on |-> headers[h]]>>

\* bus.broadcast of each message in turn, to the others in sorted order.
Others(h) == RemoveAt(Sorted, CHOOSE k \in DOMAIN Sorted : Sorted[k] = h)
Broadcast(h, m) ==
    [p \in DOMAIN Others(h) |-> [to |-> Others(h)[p], message |-> m]]
Deliveries(h) ==
    LET messages == SlotMessages(h)
    IN  Broadcast(h, messages[1]) \o Broadcast(h, messages[2]) \o Broadcast(h, messages[3])

\* The leader's part of a slot: the receipt for its own job is buffered
\* first, and stays so if the slot is then not produced.
Pay(h) == RewardSlot(h, IF PinsOk(h) THEN {h} ELSE {}, buffer[h] \cup {h})
Lead(h, produces) ==
    LET entry == [slot |-> slot, leader |-> h]
    IN  /\ handedIn' = [handedIn EXCEPT ![h] = @ + 1]
        /\ IF produces
           THEN /\ chain' = [chain EXCEPT ![h] = Append(@, entry)]
                /\ proofs' = [proofs EXCEPT ![h] = Append(@, entry)]
                /\ headers' = [headers EXCEPT ![h] = Append(@, entry)]
                /\ credits' = [credits EXCEPT ![h] = Append(@, Pay(h))]
                /\ buffer' = [buffer EXCEPT ![h] = {}]
           ELSE /\ buffer' = [buffer EXCEPT ![h] = @ \cup {h}]
                /\ UNCHANGED <<chains, credits>>

\* The net's loop draws by the first home's view; the leader draws again by
\* its own, and looks at its .cseal.
NetSlot ==
    /\ mode = "net" /\ left > 0 /\ bus = <<>>
    /\ NextSlot
    /\ LET h == leader[slot]
           produces == Fresh(h) /\ h \notin badSeal
       IN  IF Fresh(First)
           THEN /\ Lead(h, produces)
                /\ bus' = IF produces
                          THEN Append(Deliveries(h), [to |-> h, message |-> [kind |-> "offers"]])
                          ELSE <<>>
           ELSE UNCHANGED <<chains, credits, buffer, handedIn, bus>>
    /\ UNCHANGED <<leader, lane, badSeal, mode, lastPass, faults, runs, disturbed,
                   rotted, cut>>

\* A home pulsed alone is the only one with a bond: it leads every slot.
PulseSlot ==
    /\ mode \in Home /\ left > 0
    /\ NextSlot
    /\ IF mode \in badSeal
       THEN UNCHANGED <<chains, credits, buffer, handedIn>>
       ELSE Lead(mode, Fresh(mode))
    /\ UNCHANGED <<leader, lane, badSeal, mode, lastPass, bus, faults, runs, disturbed,
                   rotted, cut>>

\* Killed while it leads.  On disk are the ring, then its proof, then the
\* header, then the credits one by one; nothing is sent before all are there.
Rank(c) == CHOOSE k \in 1..4 : <<"space", "pin", "compute", "treasury">>[k] = c.reason
CutShort(pay) ==
    {paid \in SUBSET pay : /\ paid # pay
                           /\ \A c \in paid, d \in pay : Rank(d) < Rank(c) => d \in paid}
KilledInSlot ==
    /\ mode # "idle" /\ left > 0 /\ bus = <<>>
    /\ LET h     == IF mode = "net" THEN leader[slot] ELSE mode
           entry == [slot |-> slot, leader |-> h]
       IN  /\ (mode = "net" => Fresh(First)) /\ Fresh(h) /\ h \notin badSeal
           /\ \E written \in 1..3 :
                 /\ chain' = [chain EXCEPT ![h] = Append(@, entry)]
                 /\ proofs' = IF written >= 2 THEN [proofs EXCEPT ![h] = Append(@, entry)] ELSE proofs
                 /\ headers' = IF written >= 3 THEN [headers EXCEPT ![h] = Append(@, entry)] ELSE headers
                 /\ \E paid \in IF written = 3 THEN CutShort(Pay(h)) ELSE {{}} :
                       credits' = [credits EXCEPT ![h] = Append(@, paid)]
           /\ handedIn' = [handedIn EXCEPT ![h] = @ + 1]
           /\ cut' = [cut EXCEPT ![h] = @ + 1]
    /\ Fault /\ Ended /\ disturbed' = TRUE
    /\ UNCHANGED <<leader, lane, badSeal, runs, rotted>>

----------------------------------------------------------------------------
\* Deliveries.  A follower that raises ends net_run: nothing further is sent.
Arrives(kind) == bus # <<>> /\ Head(bus).message.kind = kind
Raised == Ended /\ UNCHANGED <<chains, lane>>
Taken == bus' = Tail(bus) /\ UNCHANGED <<mode, lastPass, slot, left, buffer>>
Delivered == UNCHANGED <<leader, credits, badSeal, history>>

ApplySlotHeader ==
    /\ Arrives("slot_header")
    /\ LET h == Head(bus).to  m == Head(bus).message
       IN  IF m.on # proofs[h] THEN Raised
           ELSE /\ proofs' = [proofs EXCEPT ![h] = Append(@, m.entry)]
                /\ Taken /\ UNCHANGED <<chain, headers, lane>>
    /\ Delivered

\* A ring of another height is ignored; one that does not re-seal to the same
\* hash raises, before it is on disk.
ApplyRing ==
    /\ Arrives("ring")
    /\ LET h == Head(bus).to  m == Head(bus).message
       IN  IF Len(m.on) # Height(h) THEN Taken /\ UNCHANGED <<chains, lane>>
           ELSE IF m.on # chain[h] THEN Raised
           ELSE /\ chain' = [chain EXCEPT ![h] = Append(@, m.entry)]
                /\ Taken /\ UNCHANGED <<proofs, headers, lane>>
    /\ Delivered

\* The follower draws the leader by its own view.
DrawnBy(h, m) == m.entry.slot <= lastPass[h] + Gap
ApplyHeader ==
    /\ Arrives("header")
    /\ LET h == Head(bus).to  m == Head(bus).message
       IN  IF m.on # headers[h] THEN Taken /\ UNCHANGED <<chains, lane>>
           ELSE IF ~DrawnBy(h, m) THEN Raised
           ELSE /\ headers' = [headers EXCEPT ![h] = Append(@, m.entry)]
                /\ Taken /\ UNCHANGED <<chain, proofs, lane>>
    /\ Delivered

\* (Slip: the bytes are stored under the name offered.)
Offered_Blind(h, n, o, status) ==
    IF \E k \in 1..n : Named[k] = o /\ lane[h][o] # "absent" THEN lane[h][o] ELSE status

\* A follower's object after the leader h made its first n offers.  Bytes that
\* are not their name's are declined; others are stored under the name they
\* have, over whatever was there.
Offered(h, n, o, status) ==
    IF \E k \in 1..n : lane[h][Named[k]] = "intact" /\ StoredAs[Named[k]] = o
    THEN "intact" ELSE status

\* A follower raises at intact bytes of an object that has no canonical form.
Raises(h, o) == lane[h][o] = "intact" /\ StoredAs[o] = "raises" /\ Home # {h}

\* The offers go out one by one, each to all others, until there are no more,
\* a follower raises, or the run is killed between two of them.
OfferPins ==
    /\ Arrives("offers")
    /\ LET h == Head(bus).to
       IN  \E n \in 0..Len(Named) :
             /\ \A k \in 1..n : ~Raises(h, Named[k])
             /\ lane' = [p \in Home |->
                   IF p = h THEN lane[h] ELSE [o \in Objects |-> Offered(h, n, o, lane[p][o])]]
             /\ \/ n = Len(Named) /\ Taken /\ UNCHANGED faults
                \/ n < Len(Named) /\ Raises(h, Named[n + 1]) /\ Ended /\ UNCHANGED faults
                \/ n < Len(Named) /\ Fault /\ Ended
    /\ UNCHANGED <<leader, chains, credits, badSeal, handedIn, runs, disturbed, rotted, cut>>

----------------------------------------------------------------------------
\* What a caller in the process, an operator or the disk may do.
\* Nothing remembers a receipt once its slot is paid: the same one attests
\* again, and waits for the next.
SubmitReceipt(h, r) ==
    /\ mode \in {"net", h} /\ bus = <<>> /\ handedIn[r.worker] < MaxReceipts
    /\ buffer' = IF Attested(r) THEN [buffer EXCEPT ![h] = @ \cup {r.worker}] ELSE buffer
    /\ handedIn' = IF r.genuine THEN [handedIn EXCEPT ![r.worker] = @ + 1] ELSE handedIn
    /\ UNCHANGED <<leader, homes, mode, lastPass, slot, left, bus, faults, runs, disturbed, rotted, cut>>

LaneFault(h, o, as) ==
    /\ Fault /\ bus = <<>>
    /\ lane[h][o] # as /\ (as = "tampered" => lane[h][o] = "intact")
    /\ (as = "intact" => o \notin Pins)
    /\ lane' = [lane EXCEPT ![h][o] = as]
    /\ rotted' = IF as = "tampered" THEN rotted \cup {<<h, o>>} ELSE rotted
    /\ UNCHANGED <<leader, chains, credits, badSeal, process, handedIn, runs, disturbed, cut>>
\* A space file goes bad, or the operator puts it back.
SealFault(h) ==
    /\ Fault /\ bus = <<>>
    /\ badSeal' = IF h \in badSeal THEN badSeal \ {h} ELSE badSeal \cup {h}
    /\ UNCHANGED <<leader, chains, credits, lane, process, handedIn, runs, disturbed,
                   rotted, cut>>

Next ==
    \/ \E slots \in RunLengths : StartNet(slots) \/ \E h \in Home : StartPulse(h, slots)
    \/ NetSlot \/ PulseSlot
    \/ ApplySlotHeader \/ ApplyRing \/ ApplyHeader \/ OfferPins
    \/ Stop \/ Crash \/ KilledInSlot
    \/ \E h \in Home, r \in Receipt(Worker) : SubmitReceipt(h, r)
    \/ \E h \in Home, o \in Objects, as \in {"absent", "intact", "tampered"} : LaneFault(h, o, as)
    \/ \E h \in Home : SealFault(h)

Spec == Init /\ [][Next]_vars

----------------------------------------------------------------------------
TypeOK ==
    /\ leader \in Draws
    /\ chain \in [Home -> Seq(Ring)] /\ proofs \in [Home -> Seq(Ring)]
    /\ headers \in [Home -> Seq(Ring)]
    /\ lane \in [Home -> [Objects -> {"absent", "intact", "tampered"}]]
    /\ badSeal \subseteq Home /\ mode \in {"idle", "net"} \cup Home
    /\ buffer \in [Home -> SUBSET (Home \cup Worker)]
    /\ slot \in 1..(MaxSlot + 1) /\ left \in 0..MaxSlot

Wins(h) == Cardinality({i \in DOMAIN chain[h] : chain[h][i].leader = h})

Blood(h) == SumFunctionOnSet([i \in DOMAIN credits[h] |-> Total(credits[h][i])], DOMAIN credits[h])

\* The blood of a home is the reward of the slots it won, whatever slots were
\* skipped, refused or won alone and however many workers shared a pot; what a
\* follower applies pays it nothing (K12, reward_slot and _issue_slot_reward).
\* Never a chronon more; and none less, but in slots a kill cut short, each of
\* which a resume leaves unpaid for good.
CreditsAreEarned ==
    \A h \in Home : /\ Blood(h) <= SlotReward * Wins(h)
                    /\ SlotReward * Wins(h) <= Blood(h) + SlotReward * cut[h]

PaidBy(h, a) == Cardinality({i \in DOMAIN credits[h] :
                    \E c \in credits[h][i] : c.account = a /\ c.reason = "compute"})
PaidCompute(a) == SumFunctionOnSet([h \in Home |-> PaidBy(h, a)], Home)

\* Handing a genuine receipt in pays its worker in one slot at the most:
\* receipts wait through slots nobody produced, pile up, share a pot or die
\* with the process, and none pays in two slots or on two homes, nor does one
\* that does not attest (_issue_slot_reward takes the buffer whole).  Handed in
\* again, the same receipt does pay again.
HandInsPayOnce == \A a \in Home \cup Worker : PaidCompute(a) <= handedIn[a]

\* A home never follows a ring without its proof of space, wherever the runs
\* died and whatever the next ones made of it ("a follower verifies the proof
\* before applying the slot ring", produce_slot).  Its own ring may lack it,
\* when it was killed between the two writes; so may a header, when a follower
\* that missed a ring ignores the next one and takes its header.
RingsAreProven ==
    \A h \in Home : {r \in ToSet(chain[h]) : r.leader # h} \subseteq ToSet(proofs[h])

\* Homes that were only ever run together, by runs not killed inside a
\* slot, agree whenever no slot is under way, across restarts and through
\* faults of pins and space files, also when a pin offer ends a run
\* (net_run's "converged").
NetAgrees ==
    (~disturbed /\ bus = <<>>) =>
        \A g, h \in Home : /\ chain[g] = chain[h] /\ proofs[g] = proofs[h]
                           /\ headers[g] = headers[h] /\ chain[h] = headers[h]

\* Rot stays where it is: an object of a home holds bytes that are not its
\* name's only where a fault of that home's disk once put them, however often
\* homes that hold such bytes lead and offer them (Phase 22: _apply_pin_offer
\* hashes before it stores).
RotStaysPut ==
    \A h \in Home, o \in Objects : lane[h][o] = "tampered" => <<h, o>> \in rotted
=============================================================================
