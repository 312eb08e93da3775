------------------------------- MODULE Gossip -------------------------------
(***************************************************************************)
(* The slot loops of a net over sockets (tcpnet.py) and what a node does   *)
(* with the three messages of a slot (node.py): each node walks the slots, *)
(* produces the ones it leads and waits for the others, while its listener *)
(* applies what arrives, in its own thread, under the node's lock.  The    *)
(* net does not wait for ever: loops are joined for a while, and then the  *)
(* listeners are closed, whether the loops have ended or not.              *)
(*                                                                         *)
(* A ring, a slot header (proof of space) and a header each extend a chain *)
(* of their own.  An entry is its slot, as the slot determines its leader; *)
(* its hash commits to the chain before it, so a message carries the chain *)
(* its entry was made on, and two chains agree iff the sequences do.       *)
(***************************************************************************)
EXTENDS Naturals, SequencesExt

CONSTANTS
    Node,
    Slots,          \* the slots of the run
    Draws,          \* the possible draws: slot -> leader
    MaxFaults       \* bound: lines lost, doubled or overtaken

ASSUME SlotsAssumption == Slots \in Nat
ASSUME FaultAssumption == MaxFaults \in Nat
ASSUME DrawAssumption == Draws \subseteq [1..Slots -> Node]

Slot == 1..Slots
Kinds == {"slot_header", "ring", "header"}
Message == [kind : Kinds, slot : Slot, on : Seq(Slot)]

VARIABLES
    leader,         \* the draw: slot_leader is a function of the slot
    at,             \* node -> the slot its loop is at
    ledger,         \* node -> the rings above Ring 0
    slotHeaders,    \* node -> the infusion chain
    headers,        \* node -> the header chain
    wire,           \* <<m, n>> -> the lines from m to n that n has not read
    listening,      \* the nodes whose listener is open
    faults,
    hasty           \* did anything end early: a wait for a slot that was to
                    \* come, a send, or a listener?

chains == <<ledger, slotHeaders, headers>>
vars == <<leader, at, chains, wire, listening, faults, hasty>>

Pairs == {e \in Node \X Node : e[1] # e[2]}

TypeOK ==
    /\ leader \in [Slot -> Node]
    /\ at \in [Node -> 1..(Slots + 1)]
    /\ ledger \in [Node -> Seq(Slot)]
    /\ slotHeaders \in [Node -> Seq(Slot)]
    /\ headers \in [Node -> Seq(Slot)]
    /\ wire \in [Pairs -> Seq(Message)]
    /\ listening \subseteq Node
    /\ faults \in 0..MaxFaults /\ hasty \in BOOLEAN

Init ==
    /\ leader \in Draws
    /\ at = [n \in Node |-> 1]
    /\ ledger = [n \in Node |-> <<>>]
    /\ slotHeaders = [n \in Node |-> <<>>]
    /\ headers = [n \in Node |-> <<>>]
    /\ wire = [e \in Pairs |-> <<>>]
    /\ listening = Node
    /\ faults = 0
    /\ hasty = FALSE

-----------------------------------------------------------------------------
\* The slot loop.
Leads(n) == at[n] <= Slots /\ leader[at[n]] = n
Follows(n) == at[n] <= Slots /\ leader[at[n]] # n

NextSlot(n) == at' = [at EXCEPT ![n] = @ + 1]

\* The messages of the slot n leads, in the order they are sent.
SlotMessages(n) ==
    <<[kind |-> "slot_header", slot |-> at[n], on |-> slotHeaders[n]],
      [kind |-> "ring", slot |-> at[n], on |-> ledger[n]],
      [kind |-> "header", slot |-> at[n], on |-> headers[n]]>>

\* The leader's own entries, made before anything is sent.
Extend(n) ==
    /\ ledger' = [ledger EXCEPT ![n] = Append(@, at[n])]
    /\ slotHeaders' = [slotHeaders EXCEPT ![n] = Append(@, at[n])]
    /\ headers' = [headers EXCEPT ![n] = Append(@, at[n])]

\* Lines to every peer; one whose listener is closed will not read them.
Send(n, messages) ==
    wire' = [e \in Pairs |-> IF e[1] = n THEN wire[e] \o messages ELSE wire[e]]

\* produce_slot, and its messages to every peer.
ProduceSlot(n) ==
    /\ Leads(n)
    /\ Extend(n) /\ Send(n, SlotMessages(n))
    /\ NextSlot(n)
    /\ UNCHANGED <<leader, listening, faults, hasty>>

\* A send that does not reach its peer (not up yet, or closed) raises after
\* its retries and ends the loop; so do the offers that follow the messages.
SendFails(n) ==
    /\ Leads(n)
    /\ Extend(n)
    /\ \E k \in 0..3 : Send(n, SubSeq(SlotMessages(n), 1, k))
    /\ at' = [at EXCEPT ![n] = Slots + 1]
    /\ hasty' = TRUE
    /\ UNCHANGED <<leader, listening, faults>>

\* The leader has no valid .cseal or its last challenge is too old.
SkipSlot(n) ==
    /\ Leads(n)
    /\ NextSlot(n)
    /\ UNCHANGED <<leader, chains, wire, listening, faults, hasty>>

\* (Slip: the wait ends one ring early.)
Arrived_Early(n) == Len(ledger[n]) + 1 >= at[n]

\* What the loop waits for: the height, not the slot's ring.
Arrived(n) == Len(ledger[n]) >= at[n]

SlotArrived(n) ==
    /\ Follows(n) /\ Arrived(n)
    /\ NextSlot(n)
    /\ UNCHANGED <<leader, chains, wire, listening, faults, hasty>>

\* The slot's ring is still to be produced or to be read.
Coming(n) ==
    \/ at[leader[at[n]]] <= at[n]
    \/ \E m \in Node \ {n} : \E k \in DOMAIN wire[<<m, n>>] :
          wire[<<m, n>>][k].kind = "ring" /\ wire[<<m, n>>][k].slot = at[n]

\* The wait times out.
GiveUp(n) ==
    /\ Follows(n) /\ ~Arrived(n)
    /\ hasty' = (hasty \/ Coming(n))
    /\ NextSlot(n)
    /\ UNCHANGED <<leader, chains, wire, listening, faults>>

-----------------------------------------------------------------------------
\* The listener.
Reads(m, n, kind) ==
    /\ n \in listening
    /\ wire[<<m, n>>] # <<>> /\ Head(wire[<<m, n>>]).kind = kind
Read(m, n) == wire' = [wire EXCEPT ![<<m, n>>] = Tail(@)]

\* (Slip: the infused challenge is not recomputed.)
Infuses_Newer(n, msg) == \A k \in DOMAIN slotHeaders[n] : slotHeaders[n][k] < msg.slot

\* verify_slot_header against this follower's last slot header.
Infuses(n, msg) == msg.on = slotHeaders[n]

ApplySlotHeader(m, n) ==
    /\ Reads(m, n, "slot_header")
    /\ LET msg == Head(wire[<<m, n>>])
       IN  slotHeaders' = IF Infuses(n, msg)
                          THEN [slotHeaders EXCEPT ![n] = Append(@, msg.slot)]
                          ELSE slotHeaders
    /\ Read(m, n)
    /\ UNCHANGED <<leader, at, ledger, headers, listening, faults, hasty>>

\* Only the next height is taken; whether the ring extends this chain is not
\* asked here.
IsNext(n, msg) == Len(msg.on) = Len(ledger[n])

\* The ring is sealed again on this node's chain, and only then compared with
\* the leader's: a mismatch raises, and the ring stays.
ApplyRing(m, n) ==
    /\ Reads(m, n, "ring")
    /\ LET msg == Head(wire[<<m, n>>])
       IN  ledger' = IF IsNext(n, msg)
                     THEN [ledger EXCEPT ![n] = Append(@, msg.slot)]
                     ELSE ledger
    /\ Read(m, n)
    /\ UNCHANGED <<leader, at, slotHeaders, headers, listening, faults, hasty>>

\* (Slip: a header is linked to by its height alone.)
Links_ByHeight(n, msg) == Len(msg.on) = Len(headers[n])
Links(n, msg) == msg.on = headers[n]

\* A header that does not extend the last one is ignored.
ApplyHeader(m, n) ==
    /\ Reads(m, n, "header")
    /\ LET msg == Head(wire[<<m, n>>])
       IN  headers' = IF Links(n, msg)
                      THEN [headers EXCEPT ![n] = Append(@, msg.slot)]
                      ELSE headers
    /\ Read(m, n)
    /\ UNCHANGED <<leader, at, ledger, slotHeaders, listening, faults, hasty>>

Deliver(m, n) == ApplySlotHeader(m, n) \/ ApplyRing(m, n) \/ ApplyHeader(m, n)

\* What can befall the next line: it arrives garbled or goes down with its
\* connection; it came through and is sent again on a new connection; it is
\* the last of the old connection and the first of the new one is read before.
Fault(m, n) ==
    /\ faults < MaxFaults
    /\ faults' = faults + 1
    /\ LET w == wire[<<m, n>>]
       IN  /\ w # <<>>
           /\ \/ wire' = [wire EXCEPT ![<<m, n>>] = Tail(w)]
              \/ wire' = [wire EXCEPT ![<<m, n>>] = <<Head(w)>> \o w]
              \/ /\ Len(w) > 1
                 /\ wire' = [wire EXCEPT ![<<m, n>>] = [w EXCEPT ![1] = w[2], ![2] = w[1]]]
    /\ UNCHANGED <<leader, at, chains, listening, hasty>>

-----------------------------------------------------------------------------
Done == (\A n \in Node : at[n] > Slots) /\ \A e \in Pairs : wire[e] = <<>>

\* tcp_net_run closes the listeners when it has waited long enough for the
\* loops, tcp_serve its own when its loop ends or raises: in either case with
\* what it likes still unread, or to come.
Close(n) ==
    /\ n \in listening
    /\ listening' = listening \ {n}
    /\ hasty' = (hasty \/ ~Done)
    /\ UNCHANGED <<leader, at, chains, wire, faults>>

Loop(n) == ProduceSlot(n) \/ SendFails(n) \/ SkipSlot(n) \/ SlotArrived(n) \/ GiveUp(n)

Next ==
    \/ \E n \in Node : Loop(n) \/ Close(n)
    \/ \E e \in Pairs : Deliver(e[1], e[2]) \/ Fault(e[1], e[2])

Spec == Init /\ [][Next]_vars

-----------------------------------------------------------------------------
\* Two chains that hold the same slot hold it at the same place, after the
\* same history.
SameHistory(c, d) ==
    \A j \in DOMAIN c, k \in DOMAIN d : c[j] = d[k] =>
        j = k /\ \A i \in 1..j : c[i] = d[i]

\* Whatever is lost, doubled, late or out of order, nodes that hold the same
\* proof of space hold the same infusion chain before it, and never one slot
\* twice.
ProofsAgree == \A m, n \in Node : SameHistory(slotHeaders[m], slotHeaders[n])

\* The same of headers, which are linked by the header before them.
HeadersAgree == \A m, n \in Node : SameHistory(headers[m], headers[n])

Timely == faults = 0 /\ ~hasty

\* Between two nodes (tcp_net_run takes no more), when every line arrives and
\* nothing ends early, leaders that skip included, there is one chain: of any two
\* ledgers one is a part of the other, a ring is never without its proof, and
\* in the end both are equal ("converged").  With a third node it is not so: a
\* ring can come before the proof of an earlier one from another sender.
OneChain ==
    Timely =>
        /\ \A m, n \in Node : IsPrefix(ledger[m], ledger[n]) \/ IsPrefix(ledger[n], ledger[m])
        /\ \A n \in Node : IsPrefix(ledger[n], slotHeaders[n])
        /\ Done => \A m, n \in Node : ledger[m] = ledger[n]

-----------------------------------------------------------------------------
\* "Followers re-seal identically and reject anything whose hash does not
\* match" (specs/NET.md): what holds of proofs and headers holds of rings.
LedgersAgree == \A m, n \in Node : SameHistory(ledger[m], ledger[n])
=============================================================================
