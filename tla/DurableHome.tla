---------------------------- MODULE DurableHome ----------------------------
(***************************************************************************)
(* A node with a home directory (node.py, home.py) driven by pulse or      *)
(* serve: what it holds in memory, what is on disk, the order in which one *)
(* becomes the other, and what a resume makes of a disk that a crash left  *)
(* between two writes or in the middle of one.                             *)
(*                                                                         *)
(* A handler changes memory and queues its disk writes; the process does   *)
(* nothing else until they are done, and may die before or in any of them. *)
(* A hash commits to all it was computed over, so a head hash is the       *)
(* sequence of rings itself, and an entry's link is the sequence it        *)
(* extends.                                                                *)
(***************************************************************************)
EXTENDS Integers, SequencesExt

CONSTANTS
    MaxHeight,      \* bound: rings above Ring 0
    MaxSlot,        \* bound: slots of the slot loop
    MaxChallenges   \* bound: challenge entries in the log

ASSUME BoundAssumption == MaxHeight \in Nat /\ MaxSlot \in Nat /\ MaxChallenges \in Nat

\* A ring by the handler that sealed it: the slot loop, the seal RPC, or one
\* that does not log what it seals.
Ring == [kind : {"slot", "seal", "unlogged"}, slot : 0..MaxSlot]
Reasons == {"space", "treasury"}   \* for the two to four credits of a slot
Credit == [slot : 1..MaxSlot, reason : Reasons]
Files == {"identity", "space_units", "boot", "head"}

\* A ledger entry and what it extends: the rings, headers or slot headers
\* before it (nothing, for a challenge).
Entry(t, item, on) == [t |-> t, item |-> item, on |-> on]

VARIABLES
    \* the disk
    files,        \* the files of the home written so far
    log,          \* the complete lines of ledger/log.jsonl
    tail,         \* how the log ends: "whole", "open" (no newline), "broken"
    head,         \* the rings head.json commits to
    rewards,      \* rewards.jsonl, and how it ends
    rewardsTail,
    \* the process; what it held stays here when it is gone, and a resume
    \* replaces it
    up,
    todo,         \* the disk writes its running handler still has to do
    ledger, slotHeaders, headers,
    lastPass,     \* last_challenge_pass_slot
    credits,
    next          \* the slot loop's next slot

disk == <<files, log, tail, head, rewards, rewardsTail>>
memory == <<ledger, slotHeaders, headers, lastPass, credits, next>>
vars == <<disk, up, todo, memory>>

Writes == {"file", "head", "log", "reward"}

\* The lines of one type, in order.
Items(entries, t) ==
    LET upTo[n \in 0..Len(entries)] ==
          IF n = 0 THEN <<>>
          ELSE IF entries[n].t = t THEN Append(upTo[n - 1], entries[n].item)
          ELSE upTo[n - 1]
    IN  upTo[Len(entries)]

TypeOK ==
    /\ files \subseteq Files
    /\ \A n \in DOMAIN log : log[n].t \in {"ring", "slot_header", "header", "challenge"}
    /\ tail \in {"whole", "open", "broken"} /\ rewardsTail \in {"whole", "open", "broken"}
    /\ head \in Seq(Ring) /\ ledger \in Seq(Ring)
    /\ rewards \in Seq(Credit) /\ credits \in Seq(Credit)
    /\ slotHeaders \in Seq(1..MaxSlot) /\ headers \in Seq(1..MaxSlot)
    /\ up \in BOOLEAN /\ lastPass \in Nat /\ next \in 1..(MaxSlot + 1)
    /\ \A n \in DOMAIN todo : todo[n].what \in Writes

Init ==
    /\ files = {} /\ log = <<>> /\ tail = "whole" /\ head = <<>>
    /\ rewards = <<>> /\ rewardsTail = "whole"
    /\ up = FALSE /\ todo = <<>>
    /\ ledger = <<>> /\ slotHeaders = <<>> /\ headers = <<>>
    /\ lastPass = 0 /\ credits = <<>> /\ next = 1

-----------------------------------------------------------------------------
\* The writes a handler queues.
File(f) == [what |-> "file", file |-> f]
HeadTo(chain) == [what |-> "head", chain |-> chain]
Line(e) == [what |-> "log", entry |-> e]
Reward(c) == [what |-> "reward", credit |-> c]

\* (Slip: the head is committed before its ring is in the log.)
RingLines_HeadFirst(r) ==
    <<HeadTo(Append(ledger, r)), Line(Entry("ring", r, ledger))>>

RingLines(r) == <<Line(Entry("ring", r, ledger)), HeadTo(Append(ledger, r))>>

\* Appending after a line that lost its newline makes one line of the two.
Appended(lines, end, line) == IF end = "whole" THEN Append(lines, line) ELSE lines
EndAfter(end) == IF end = "whole" THEN "whole" ELSE "broken"

\* The first write of the queue reaches the disk.
Write ==
    /\ up /\ todo # <<>>
    /\ LET w == Head(todo)
       IN  \/ /\ w.what = "file"
              /\ files' = files \cup {w.file}
              /\ UNCHANGED <<log, tail, head, rewards, rewardsTail>>
           \/ /\ w.what = "head"
              /\ files' = files \cup {"head"}
              /\ head' = w.chain
              /\ UNCHANGED <<log, tail, rewards, rewardsTail>>
           \/ /\ w.what = "log"
              /\ log' = Appended(log, tail, w.entry)
              /\ tail' = EndAfter(tail)
              /\ UNCHANGED <<files, head, rewards, rewardsTail>>
           \/ /\ w.what = "reward"
              /\ rewards' = Appended(rewards, rewardsTail, w.credit)
              /\ rewardsTail' = EndAfter(rewardsTail)
              /\ UNCHANGED <<files, log, tail, head>>
    /\ todo' = Tail(todo)
    /\ UNCHANGED <<up, memory>>

\* The process stops or dies.  An append it was in the middle of leaves
\* nothing, a part of a line, or a line without its newline; the other files
\* are replaced whole.
Crash ==
    /\ up
    /\ up' = FALSE /\ todo' = <<>>
    /\ \/ UNCHANGED disk
       \/ /\ todo # <<>> /\ Head(todo).what = "log"
          /\ \/ tail' = "broken" /\ UNCHANGED log
             \/ tail = "whole" /\ tail' = "open" /\ log' = Append(log, Head(todo).entry)
          /\ UNCHANGED <<files, head, rewards, rewardsTail>>
       \/ /\ todo # <<>> /\ Head(todo).what = "reward"
          /\ \/ rewardsTail' = "broken" /\ UNCHANGED rewards
             \/ /\ rewardsTail = "whole" /\ rewardsTail' = "open"
                /\ rewards' = Append(rewards, Head(todo).credit)
          /\ UNCHANGED <<files, log, tail, head>>
    /\ UNCHANGED memory

-----------------------------------------------------------------------------
\* First boot of an empty directory; the home counts as initialised as soon
\* as the identity is written.
Boot ==
    /\ ~up /\ "identity" \notin files
    /\ up' = TRUE
    /\ todo' = <<File("identity"), File("space_units"), File("boot"), HeadTo(<<>>)>>
    /\ UNCHANGED <<disk, memory>>

\* (Slip: a line's link is not checked.)
Replays_AnyOrder ==
    /\ {"space_units", "boot"} \subseteq files
    /\ tail # "broken" /\ rewardsTail # "broken"
    /\ "head" \in files => Len(head) <= Len(Items(log, "ring"))

\* The replay accepts the log: every ring, header and slot header extends the
\* ones before it, and the committed head is among the replayed rings.
Replays ==
    /\ {"space_units", "boot"} \subseteq files
    /\ tail # "broken" /\ rewardsTail # "broken"
    /\ \A n \in DOMAIN log :
          log[n].t # "challenge" => log[n].on = Items(SubSeq(log, 1, n - 1), log[n].t)
    /\ "head" \in files => IsPrefix(head, Items(log, "ring"))

ReplayedPass == Max({0} \cup ToSet(Items(log, "challenge")))

\* (Slip: the reward ledger is not reloaded.)
Reloaded_Afresh == <<>>
Reloaded == rewards

\* Node(home=DIR): replay, or raise and leave everything as it is.
Resume ==
    /\ ~up /\ "identity" \in files
    /\ Replays
    /\ up' = TRUE
    /\ ledger' = Items(log, "ring")
    /\ slotHeaders' = Items(log, "slot_header")
    /\ headers' = Items(log, "header")
    /\ lastPass' = ReplayedPass
    /\ credits' = Reloaded
    /\ next' = IF Len(ledger') < MaxSlot THEN Len(ledger') + 1 ELSE MaxSlot + 1
    /\ UNCHANGED <<disk, todo>>

-----------------------------------------------------------------------------
Ready == up /\ todo = <<>>

SlotCredits(n) == <<[slot |-> n, reason |-> "space"], [slot |-> n, reason |-> "treasury"]>>
SlotRing(n) == [kind |-> "slot", slot |-> n]

\* (Slip: the slot is paid for before its ring is on disk.)
SlotWrites_PaidFirst ==
    <<Reward(SlotCredits(next)[1]), Reward(SlotCredits(next)[2])>>
        \o RingLines(SlotRing(next))
        \o <<Line(Entry("slot_header", next, slotHeaders)),
             Line(Entry("header", next, headers))>>

\* (Slip: the slot header, which goes out first, is also written first.)
SlotWrites_HeaderFirst ==
    <<Line(Entry("slot_header", next, slotHeaders))>>
        \o RingLines(SlotRing(next))
        \o <<Line(Entry("header", next, headers)),
             Reward(SlotCredits(next)[1]), Reward(SlotCredits(next)[2])>>

\* The order in which produce_slot writes: the ring, its head, the slot
\* header, the header, the credits.
SlotWrites ==
    RingLines(SlotRing(next))
        \o <<Line(Entry("slot_header", next, slotHeaders)),
             Line(Entry("header", next, headers)),
             Reward(SlotCredits(next)[1]), Reward(SlotCredits(next)[2])>>

\* A slot this node leads.
ProduceSlot ==
    /\ Ready
    /\ next <= MaxSlot /\ Len(ledger) < MaxHeight
    /\ ledger' = Append(ledger, SlotRing(next))
    /\ slotHeaders' = Append(slotHeaders, next)
    /\ headers' = Append(headers, next)
    /\ credits' = credits \o SlotCredits(next)
    /\ todo' = SlotWrites
    /\ next' = next + 1
    /\ UNCHANGED <<disk, up, lastPass>>

\* A slot without a leader, or whose .cseal does not verify.
SkipSlot ==
    /\ Ready
    /\ next <= MaxSlot
    /\ next' = next + 1
    /\ UNCHANGED <<disk, up, todo, ledger, slotHeaders, headers, lastPass, credits>>

SealRpc ==
    /\ Ready
    /\ Len(ledger) < MaxHeight
    /\ LET r == [kind |-> "seal", slot |-> 0]
       IN  ledger' = Append(ledger, r) /\ todo' = RingLines(r)
    /\ UNCHANGED <<disk, up, slotHeaders, headers, lastPass, credits, next>>

\* Rings sealed into the ledger without _persist_ring: the proposal and ballot
\* RPCs, the scar of a rejected transaction, and a gossiped ring whose hash
\* turns out wrong once it is sealed.
SealUnlogged ==
    /\ Ready
    /\ Len(ledger) < MaxHeight
    /\ ledger' = Append(ledger, [kind |-> "unlogged", slot |-> 0])
    /\ UNCHANGED <<disk, up, todo, slotHeaders, headers, lastPass, credits, next>>

\* A passed challenge, at the slot loop's next slot or, by default, at the
\* ledger's height.
ChallengeRpc ==
    /\ Ready
    /\ Len(Items(log, "challenge")) < MaxChallenges
    /\ \E slot \in {Len(ledger), Len(ledger) + 1} :
          /\ lastPass' = slot
          /\ todo' = <<Line(Entry("challenge", slot, <<>>))>>
    /\ UNCHANGED <<disk, up, ledger, slotHeaders, headers, credits, next>>

Next ==
    \/ Boot \/ Resume \/ Write \/ Crash
    \/ ProduceSlot \/ SkipSlot \/ SealRpc \/ SealUnlogged \/ ChallengeRpc

Spec == Init /\ [][Next]_vars

-----------------------------------------------------------------------------
AllLogged == Items(log, "ring") = ledger

\* At rest, and whatever crashes came before, the files hold what the process
\* holds: a node that logged every ring it sealed loses nothing when it stops.
HomeMirrorsMemory ==
    (Ready /\ AllLogged /\ tail = "whole" /\ rewardsTail = "whole") =>
        /\ slotHeaders = Items(log, "slot_header")
        /\ headers = Items(log, "header")
        /\ credits = rewards
        /\ lastPass <= ReplayedPass

\* A process may die before any write: only a torn line, a first boot that did
\* not get to its receipt, or a ring that was not logged keeps a home from
\* being resumed.
CrashIsSurvivable ==
    (/\ {"space_units", "boot"} \subseteq files
     /\ tail # "broken" /\ rewardsTail # "broken"
     /\ \A k \in DOMAIN ledger : ledger[k].kind # "unlogged") => Replays

\* A resume never invents or reorders: what it rebuilds is where the process
\* had got to when it died, less a suffix, and holds the head on disk.
ResumeIsPast ==
    [][(~up /\ up' /\ files # {}) =>
          /\ IsPrefix(ledger', ledger) /\ IsPrefix(head, ledger')
          /\ IsPrefix(slotHeaders', slotHeaders) /\ IsPrefix(headers', headers)
          /\ IsPrefix(credits', credits)]_vars

SlotsOf(chain, n) == Cardinality({k \in DOMAIN chain : chain[k] = SlotRing(n)})
Paid(n, reason) ==
    Cardinality({k \in DOMAIN rewards : rewards[k] = [slot |-> n, reason |-> reason]})

\* In a home whose log can be read, a slot is only paid for, in full or in
\* part, when its ring is in the log, and a slot produced twice as often as that.
CreditsAreBacked ==
    tail # "broken" =>
        \A n \in 1..MaxSlot, reason \in Reasons :
            Paid(n, reason) <= SlotsOf(Items(log, "ring"), n)

\* The line a slot header, or a header, must be written right after.
Follows(before, line) ==
    /\ line.t = "slot_header" => before.t = "ring" /\ before.item = SlotRing(line.item)
    /\ line.t = "header" => before.t = "slot_header" /\ before.item = line.item

\* Each production leaves its lines in order and unmixed: every slot header in
\* the log stands right after the ring of its slot, every header right after
\* its slot header, also in a log that crashes cut short and resumes went on
\* with, and where a slot is produced again.
HeadersFollowRings ==
    \A k \in DOMAIN log : log[k].t \in {"slot_header", "header"} =>
        k > 1 /\ Follows(log[k - 1], log[k])

\* "A stopped node must come back as the same organism: same identity, same
\* ledger height, same head hash" (specs/HOME.md).
SameOrganism == (Ready /\ tail = "whole" /\ rewardsTail = "whole") => Replays /\ AllLogged
=============================================================================
