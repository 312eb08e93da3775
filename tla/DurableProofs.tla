--------------------------- MODULE DurableProofs ---------------------------
(***************************************************************************)
(* What TLAPS proves of DurableHome, for any bounds on rings, slots and    *)
(* challenges and any sequence of crashes.                                 *)
(*                                                                         *)
(* A line that is still to be written commits to what the memory held      *)
(* before it (Owed), and as long as the log can be read it holds just that *)
(* (Caught): so what a write adds always extends the log.                  *)
(***************************************************************************)
EXTENDS DurableHome, Induction

\* The lines a log can hold, and the writes a handler can queue.
RingEntry == [t : {"ring"}, item : Ring, on : Seq(Ring)]
HeaderEntry == [t : {"slot_header", "header"}, item : 1..MaxSlot, on : Seq(1..MaxSlot)]
ChallengeEntry == [t : {"challenge"}, item : Nat, on : {<<>>}]
Entries == RingEntry \cup HeaderEntry \cup ChallengeEntry

FileWrite == [what : {"file"}, file : Files]
HeadWrite == [what : {"head"}, chain : Seq(Ring)]
LogWrite == [what : {"log"}, entry : Entries]
RewardWrite == [what : {"reward"}, credit : Credit]
WriteSet == FileWrite \cup HeadWrite \cup LogWrite \cup RewardWrite

Ends == {"whole", "open", "broken"}

Types ==
    /\ files \subseteq Files
    /\ log \in Seq(Entries) /\ tail \in Ends
    /\ head \in Seq(Ring) /\ ledger \in Seq(Ring)
    /\ rewards \in Seq(Credit) /\ credits \in Seq(Credit) /\ rewardsTail \in Ends
    /\ slotHeaders \in Seq(1..MaxSlot) /\ headers \in Seq(1..MaxSlot)
    /\ up \in BOOLEAN /\ lastPass \in Nat /\ next \in 1..(MaxSlot + 1)
    /\ todo \in Seq(WriteSet)

Rings == Items(log, "ring")
Linked == {"ring", "slot_header", "header"}

\* What the memory holds of a linked kind.
Held(t) == IF t = "ring" THEN ledger ELSE IF t = "slot_header" THEN slotHeaders ELSE headers

IsLine(w, t) == w.what = "log" /\ w.entry.t = t
LineDue(t) == \E k \in DOMAIN todo : IsLine(todo[k], t)
RingDue == todo # <<>> /\ IsLine(Head(todo), "ring")

\* No ring of the ledger was sealed without being logged.
Logged == \A k \in DOMAIN ledger : ledger[k].kind # "unlogged"

\* Before a first boot has written the identity there is nothing.
Blank ==
    /\ files = {} /\ log = <<>> /\ tail = "whole" /\ head = <<>>
    /\ rewards = <<>> /\ rewardsTail = "whole"
    /\ ledger = <<>> /\ slotHeaders = <<>> /\ headers = <<>>
    /\ lastPass = 0 /\ credits = <<>> /\ next = 1

BootOrder ==
    /\ "identity" \notin files =>
          Blank /\ (up => todo # <<>> /\ Head(todo) = File("identity"))
    /\ "head" \notin files => head = <<>>
    /\ ~up => todo = <<>>

\* What is queued brings the disk to what the memory holds; a ring goes first
\* and no kind of line, and no credit, is queued twice.
Owed ==
    /\ \A k \in DOMAIN todo, t \in Linked :
          IsLine(todo[k], t) => Append(todo[k].entry.on, todo[k].entry.item) = Held(t)
    /\ \A k \in DOMAIN todo : todo[k].what = "head" => todo[k].chain = ledger
    /\ \A k \in DOMAIN todo : IsLine(todo[k], "ring") => k = 1
    /\ \A j, k \in DOMAIN todo, t \in Linked :
          IsLine(todo[j], t) /\ IsLine(todo[k], t) => j = k
    /\ \A j, k \in DOMAIN todo : todo[j].what = "reward" /\ todo[j] = todo[k] => j = k

\* A queued ring is that of the slot whose header lines and credits follow it.
OfOneSlot ==
    RingDue => \A k \in DOMAIN todo :
        /\ \A t \in {"slot_header", "header"} :
              IsLine(todo[k], t) => Head(todo).entry.item = SlotRing(todo[k].entry.item)
        /\ todo[k].what = "reward" => Head(todo).entry.item = SlotRing(todo[k].credit.slot)

\* Up to the queued line, the readable log has what the memory has.
CaughtUp(t) ==
    /\ \A k \in DOMAIN todo : IsLine(todo[k], t) => todo[k].entry.on = Items(log, t)
    /\ ~LineDue(t) => Items(log, t) = Held(t)

Caught ==
    up /\ tail # "broken" =>
        /\ CaughtUp("slot_header") /\ CaughtUp("header")
        /\ Logged => CaughtUp("ring")

PassKept ==
    up /\ tail # "broken" =>
        \/ lastPass \in {0} \cup ToSet(Items(log, "challenge"))
        \/ \E k \in DOMAIN todo : todo[k] = Line(Entry("challenge", lastPass, <<>>))

Links == \A n \in DOMAIN log :
    log[n].t # "challenge" => log[n].on = Items(SubSeq(log, 1, n - 1), log[n].t)

\* A log whose links hold has a past of the memory, and as long as every ring
\* was logged they hold.
LogIsPast == Links => \A t \in Linked : IsPrefix(Items(log, t), Held(t))
LogReplays == Logged /\ tail # "broken" => Links /\ IsPrefix(head, Rings)

\* The credits that R lacks of C are the last writes of q.
Behind(R, C, q) ==
    \E n \in 0..Len(q) :
        /\ Len(C) = Len(R) + (Len(q) - n)
        /\ \A k \in 1..n : q[k].what # "reward"
        /\ \A k \in (n + 1)..Len(q) : q[k] = Reward(C[Len(R) + (k - n)])

CreditsQueued ==
    /\ IsPrefix(rewards, credits)
    /\ up /\ rewardsTail # "broken" => Behind(rewards, credits, todo)

\* A log that is whole ends with the line that the given one follows.
Awaits(lines, end, e) == end = "whole" => lines # <<>> /\ Follows(lines[Len(lines)], e)

\* A queued header line has the line it follows before it: in the queue (with
\* the head between a ring and its slot header), or at the end of the log.
HeadersInTurn ==
    \A k \in DOMAIN todo :
        /\ IsLine(todo[k], "header") =>
              IF k = 1 THEN Awaits(log, tail, todo[k].entry)
              ELSE todo[k - 1].what = "log" /\ Follows(todo[k - 1].entry, todo[k].entry)
        /\ IsLine(todo[k], "slot_header") =>
              \/ k = 1 /\ Awaits(log, tail, todo[k].entry)
              \/ k = 2 /\ todo[1].what = "head" /\ Awaits(log, tail, todo[k].entry)
              \/ /\ k = 3 /\ todo[2].what = "head" /\ todo[1].what = "log"
                 /\ Follows(todo[1].entry, todo[k].entry)

RoomForCredit ==
    up /\ ~RingDue /\ tail # "broken" =>
        \A k \in DOMAIN todo : todo[k].what = "reward" =>
            Paid(todo[k].credit.slot, todo[k].credit.reason) + 1
                <= SlotsOf(Rings, todo[k].credit.slot)

DurableInv ==
    /\ Types /\ BootOrder /\ Owed /\ OfOneSlot
    /\ Caught /\ PassKept /\ LogIsPast /\ LogReplays
    /\ CreditsQueued /\ HeadersInTurn /\ RoomForCredit
    /\ HeadersFollowRings /\ CreditsAreBacked

-----------------------------------------------------------------------------
\* The recursion behind Items, on the first N lines.
UpTo(s, t, N) ==
    CHOOSE f : f = [n \in 0..N |->
        IF n = 0 THEN <<>>
        ELSE IF s[n].t = t THEN Append(f[n - 1], s[n].item) ELSE f[n - 1]]
UpToIs(s, t, N, f) ==
    f = [n \in 0..N |->
        IF n = 0 THEN <<>>
        ELSE IF s[n].t = t THEN Append(f[n - 1], s[n].item) ELSE f[n - 1]]

\* Items is that recursion at the last line.
LEMMA ItemsUpTo == \A s, t : Items(s, t) = UpTo(s, t, Len(s))[Len(s)]
  BY DEF Items, UpTo

\* The recursion has a solution.
LEMMA UpToExists ==
    ASSUME NEW s, NEW t, NEW N \in Nat
    PROVE  UpToIs(s, t, N, UpTo(s, t, N))
<1> DEFINE Solved == {n \in Nat : \E f : UpToIs(s, t, n, f)}
<1>1. 0 \in Solved
  <2>1. UpToIs(s, t, 0, [n \in 0..0 |-> <<>>])
    BY DEF UpToIs
  <2> QED
    BY <2>1
<1>2. ASSUME NEW n \in Nat, n \in Solved PROVE n + 1 \in Solved
  <2>1. PICK f : UpToIs(s, t, n, f)
    BY <1>2
  <2> DEFINE h == [m \in 0..(n + 1) |->
                     IF m = 0 THEN <<>>
                     ELSE IF s[m].t = t THEN Append(f[m - 1], s[m].item) ELSE f[m - 1]]
  <2>2. ASSUME NEW m \in 0..n PROVE h[m] = f[m]
    <3>1. m \in 0..(n + 1)
      OBVIOUS
    <3>2. f[m] = IF m = 0 THEN <<>>
                 ELSE IF s[m].t = t THEN Append(f[m - 1], s[m].item) ELSE f[m - 1]
      BY <2>1 DEF UpToIs
    <3> QED
      BY <3>1, <3>2
  <2>3. UpToIs(s, t, n + 1, h)
    <3>1. \A m \in 0..(n + 1) : m # 0 => m - 1 \in 0..n
      OBVIOUS
    <3> QED
      BY <2>2, <3>1 DEF UpToIs
  <2> HIDE DEF h
  <2> QED
    BY <2>3
<1>3. N \in Solved
  <2> HIDE DEF Solved
  <2> QED
    BY <1>1, <1>2, NatSets
<1>4. PICK f : UpToIs(s, t, N, f)
  BY <1>3
<1> QED
  BY <1>4 DEF UpToIs, UpTo

\* It depends on nothing but the lines so far.
LEMMA UpToAgree ==
    ASSUME NEW s, NEW u, NEW t, NEW N \in Nat, NEW M \in Nat,
           NEW K \in Nat, K <= N, K <= M, \A k \in 1..K : s[k] = u[k]
    PROVE  UpTo(s, t, N)[K] = UpTo(u, t, M)[K]
<1> DEFINE f == UpTo(s, t, N)
           g == UpTo(u, t, M)
           Same == {n \in Nat : n <= K => f[n] = g[n]}
<1>1. UpToIs(s, t, N, f) /\ UpToIs(u, t, M, g)
  BY UpToExists
<1> HIDE DEF f, g
<1>2. 0 \in Same
  BY <1>1 DEF UpToIs
<1>3. ASSUME NEW n \in Nat, n \in Same PROVE n + 1 \in Same
  <2> SUFFICES ASSUME n + 1 <= K PROVE f[n + 1] = g[n + 1]
    OBVIOUS
  <2>1. n + 1 \in 0..N /\ n + 1 \in 0..M /\ n + 1 \in 1..K /\ (n + 1) - 1 = n /\ n + 1 # 0
    OBVIOUS
  <2>2. f[n] = g[n] /\ s[n + 1] = u[n + 1]
    BY <1>3, <2>1
  <2>3. f[n + 1] = IF s[n + 1].t = t THEN Append(f[n], s[n + 1].item) ELSE f[n]
    BY <1>1, <2>1 DEF UpToIs
  <2>4. g[n + 1] = IF u[n + 1].t = t THEN Append(g[n], u[n + 1].item) ELSE g[n]
    BY <1>1, <2>1 DEF UpToIs
  <2> QED
    BY <2>2, <2>3, <2>4
<1>4. K \in Same
  <2> HIDE DEF Same
  <2> QED
    BY <1>2, <1>3, NatSets
<1> QED
  BY <1>4 DEF f, g

\* An empty log has no lines.
LEMMA ItemsEmpty == \A t : Items(<<>>, t) = <<>>
<1> TAKE t
<1>1. UpToIs(<<>>, t, 0, UpTo(<<>>, t, 0))
  BY UpToExists
<1>2. UpTo(<<>>, t, 0)[0] = <<>>
  BY <1>1 DEF UpToIs
<1>3. Len(<<>>) = 0
  BY EmptySeq
<1> QED
  BY <1>2, <1>3, ItemsUpTo

\* A line more is an item more of its type.
LEMMA ItemsAppend ==
    ASSUME NEW E, NEW s \in Seq(E), NEW e \in E, NEW t
    PROVE  Items(Append(s, e), t) =
              IF e.t = t THEN Append(Items(s, t), e.item) ELSE Items(s, t)
<1> DEFINE u == Append(s, e)
           n == Len(s)
           f == UpTo(u, t, n + 1)
<1>1. n \in Nat /\ Len(u) = n + 1 /\ u[n + 1] = e /\ \A k \in 1..n : u[k] = s[k]
  BY LenProperties, AppendProperties
<1> HIDE DEF u, n
<1>2. UpToIs(u, t, n + 1, f)
  BY <1>1, UpToExists
<1>3. UpTo(s, t, n)[n] = f[n]
  BY <1>1, UpToAgree
<1>4. f[n + 1] = IF u[n + 1].t = t THEN Append(f[n], u[n + 1].item) ELSE f[n]
  <2>1. n + 1 \in 0..(n + 1) /\ n + 1 # 0 /\ (n + 1) - 1 = n
    BY <1>1
  <2> HIDE DEF f
  <2> QED
    BY <1>2, <2>1 DEF UpToIs
<1>5. Items(u, t) = f[n + 1] /\ Items(s, t) = UpTo(s, t, n)[n]
  BY <1>1, ItemsUpTo DEF n
<1> QED
  BY <1>1, <1>3, <1>4, <1>5 DEF u

\* The lines of a type are items of that type.
LEMMA ItemsType ==
    ASSUME NEW E, NEW s \in Seq(E), NEW t, NEW I,
           \A e \in E : e.t = t => e.item \in I
    PROVE  Items(s, t) \in Seq(I)
<1> DEFINE n == Len(s)
           f == UpTo(s, t, n)
           Typed == {m \in Nat : m <= n => f[m] \in Seq(I)}
<1>1. n \in Nat /\ \A k \in 1..n : s[k] \in E
  BY LenProperties, ElementOfSeq
<1>2. UpToIs(s, t, n, f)
  BY <1>1, UpToExists
<1>a. Items(s, t) = f[n]
  BY ItemsUpTo
<1> HIDE DEF n, f
<1>3. 0 \in Typed
  BY <1>1, <1>2, EmptySeq DEF UpToIs
<1>4. ASSUME NEW m \in Nat, m \in Typed PROVE m + 1 \in Typed
  <2> SUFFICES ASSUME m + 1 <= n PROVE f[m + 1] \in Seq(I)
    OBVIOUS
  <2>1. m + 1 \in 0..n /\ m + 1 \in 1..n /\ (m + 1) - 1 = m /\ m + 1 # 0
    BY <1>1
  <2>2. f[m] \in Seq(I) /\ s[m + 1] \in E
    BY <1>1, <1>4, <2>1
  <2>3. f[m + 1] = IF s[m + 1].t = t THEN Append(f[m], s[m + 1].item) ELSE f[m]
    BY <1>2, <2>1 DEF UpToIs
  <2> QED
    BY <2>2, <2>3, AppendProperties
<1>5. n \in Typed
  <2> HIDE DEF Typed
  <2> QED
    BY <1>1, <1>3, <1>4, NatSets
<1> QED
  BY <1>1, <1>5, <1>a

-----------------------------------------------------------------------------
\* What an item of a linked kind is.
ItemSet(t) == IF t = "ring" THEN Ring ELSE 1..MaxSlot

\* What each kind of log line carries.
LEMMA EntryKinds ==
    ASSUME NEW e \in Entries
    PROVE  /\ e.t \in Linked \cup {"challenge"}
           /\ \A t \in Linked : e.t = t =>
                 e.item \in ItemSet(t) /\ e.on \in Seq(ItemSet(t))
           /\ e.t = "challenge" => e.item \in Nat
  BY DEF Entries, RingEntry, HeaderEntry, ChallengeEntry, Linked, ItemSet

\* What each kind of write carries.
LEMMA WriteKinds ==
    ASSUME NEW w \in WriteSet
    PROVE  /\ w.what \in {"file", "head", "log", "reward"}
           /\ w.what = "file" => w.file \in Files
           /\ w.what = "head" => w.chain \in Seq(Ring)
           /\ w.what = "log" => w.entry \in Entries
           /\ w.what = "reward" => w.credit \in Credit
  BY DEF WriteSet, FileWrite, HeadWrite, LogWrite, RewardWrite

\* The lines of a log, by type.
LEMMA LogItems ==
    ASSUME NEW l \in Seq(Entries)
    PROVE  /\ \A t \in Linked : Items(l, t) \in Seq(ItemSet(t))
           /\ Items(l, "ring") \in Seq(Ring)
           /\ Items(l, "slot_header") \in Seq(1..MaxSlot)
           /\ Items(l, "header") \in Seq(1..MaxSlot)
           /\ Items(l, "challenge") \in Seq(Nat)
<1>1. ASSUME NEW t \in Linked PROVE Items(l, t) \in Seq(ItemSet(t))
  <2>1. \A e \in Entries : e.t = t => e.item \in ItemSet(t)
    BY EntryKinds
  <2> QED
    BY <2>1, ItemsType
<1>2. Items(l, "challenge") \in Seq(Nat)
  <2>1. \A e \in Entries : e.t = "challenge" => e.item \in Nat
    BY EntryKinds
  <2> QED
    BY <2>1, ItemsType
<1>3. /\ "ring" \in Linked /\ "slot_header" \in Linked /\ "header" \in Linked
      /\ ItemSet("ring") = Ring
      /\ ItemSet("slot_header") = 1..MaxSlot /\ ItemSet("header") = 1..MaxSlot
  BY DEF Linked, ItemSet
<1>4. Items(l, "ring") \in Seq(Ring)
  BY <1>1, <1>3
<1>5. Items(l, "slot_header") \in Seq(1..MaxSlot)
  BY <1>1, <1>3
<1>6. Items(l, "header") \in Seq(1..MaxSlot)
  BY <1>1, <1>3
<1> QED
  BY <1>1, <1>2, <1>4, <1>5, <1>6

\* Links and HeadersFollowRings of any log, and of one with a line more.
LinksOf(l) == \A n \in DOMAIN l :
    l[n].t # "challenge" => l[n].on = Items(SubSeq(l, 1, n - 1), l[n].t)

FollowsOf(l) == \A k \in DOMAIN l : l[k].t \in {"slot_header", "header"} =>
    k > 1 /\ Follows(l[k - 1], l[k])

\* A sequence before its last member.
LEMMA Before ==
    ASSUME NEW E, NEW l \in Seq(E), NEW e \in E
    PROVE  /\ DOMAIN Append(l, e) = DOMAIN l \cup {Len(l) + 1}
           /\ Len(l) + 1 \notin DOMAIN l
           /\ Append(l, e)[Len(l) + 1] = e
           /\ SubSeq(Append(l, e), 1, Len(l)) = l
           /\ \A n \in DOMAIN l : /\ Append(l, e)[n] = l[n]
                                  /\ SubSeq(Append(l, e), 1, n - 1) = SubSeq(l, 1, n - 1)
<1> DEFINE w == Append(l, e)
<1>1. /\ w \in Seq(E) /\ DOMAIN w = 1..(Len(l) + 1) /\ DOMAIN l = 1..Len(l)
      /\ Len(l) \in Nat /\ w[Len(l) + 1] = e /\ Len(w) = Len(l) + 1
      /\ \A k \in 1..Len(l) : w[k] = l[k] /\ l[k] \in E
  BY LenProperties, AppendProperties, ElementOfSeq
<1> HIDE DEF w
<1>2. ASSUME NEW m \in 0..Len(l) PROVE SubSeq(w, 1, m) = SubSeq(l, 1, m)
  <2>0. /\ m \in Int /\ 1 \in Int
        /\ (\A i \in 1..m : w[i] \in E) /\ (\A i \in 1..m : l[i] \in E)
    BY <1>1
  <2>1. /\ SubSeq(w, 1, m) \in Seq(E)
        /\ Len(SubSeq(w, 1, m)) = IF 1 <= m THEN m - 1 + 1 ELSE 0
        /\ \A i \in 1..(m - 1 + 1) : SubSeq(w, 1, m)[i] = w[1 + i - 1]
    BY <2>0, SubSeqProperties
  <2>2. /\ SubSeq(l, 1, m) \in Seq(E)
        /\ Len(SubSeq(l, 1, m)) = IF 1 <= m THEN m - 1 + 1 ELSE 0
        /\ \A i \in 1..(m - 1 + 1) : SubSeq(l, 1, m)[i] = l[1 + i - 1]
    BY <2>0, SubSeqProperties
  <2>3. \A i \in 1..Len(SubSeq(w, 1, m)) : SubSeq(w, 1, m)[i] = SubSeq(l, 1, m)[i]
    BY <1>1, <2>1, <2>2
  <2> QED
    BY <2>1, <2>2, <2>3, SeqEqual
<1>3. SubSeq(w, 1, Len(l)) = l
  BY <1>1, <1>2, SubSeqFull
<1>4. \A n \in DOMAIN l : n - 1 \in 0..Len(l)
  BY <1>1
<1>5. DOMAIN w = DOMAIN l \cup {Len(l) + 1} /\ Len(l) + 1 \notin DOMAIN l
  BY <1>1
<1> QED
  BY <1>1, <1>2, <1>3, <1>4, <1>5 DEF w

\* The links of a log and one line more.
LEMMA LinksAppend ==
    ASSUME NEW l \in Seq(Entries), NEW e \in Entries
    PROVE  LinksOf(Append(l, e)) <=>
              LinksOf(l) /\ (e.t # "challenge" => e.on = Items(l, e.t))
<1> DEFINE w == Append(l, e)
           m == Len(l) + 1
<1>1. /\ DOMAIN w = DOMAIN l \cup {m} /\ m \notin DOMAIN l /\ m - 1 = Len(l)
      /\ w[m] = e /\ SubSeq(w, 1, m - 1) = l
      /\ \A n \in DOMAIN l : w[n] = l[n] /\ SubSeq(w, 1, n - 1) = SubSeq(l, 1, n - 1)
  BY Before, LenProperties
<1> HIDE DEF w, m
<1>2. LinksOf(w) <=> LinksOf(l) /\ (e.t # "challenge" => e.on = Items(l, e.t))
  BY <1>1 DEF LinksOf
<1> QED
  BY <1>2 DEF w

\* A line more still follows its own.
LEMMA FollowsAppend ==
    ASSUME NEW l \in Seq(Entries), NEW e \in Entries, FollowsOf(l),
           e.t \in {"slot_header", "header"} => l # <<>> /\ Follows(l[Len(l)], e)
    PROVE  FollowsOf(Append(l, e))
<1> DEFINE w == Append(l, e)
           m == Len(l) + 1
<1>1. /\ DOMAIN w = DOMAIN l \cup {m} /\ w[m] = e
      /\ \A n \in DOMAIN l : w[n] = l[n]
  BY Before, LenProperties
<1>2. /\ DOMAIN l = 1..Len(l) /\ Len(l) \in Nat /\ m - 1 = Len(l)
      /\ l # <<>> => m > 1 /\ Len(l) \in DOMAIN l
      /\ \A n \in DOMAIN l : n > 1 => n - 1 \in DOMAIN l
  BY LenProperties, EmptySeq
<1> HIDE DEF w, m
<1>3. ASSUME NEW n \in DOMAIN l, l[n].t \in {"slot_header", "header"}
      PROVE  n > 1 /\ Follows(w[n - 1], w[n])
  BY <1>1, <1>2, <1>3 DEF FollowsOf
<1>4. ASSUME e.t \in {"slot_header", "header"}
      PROVE  m > 1 /\ Follows(w[m - 1], w[m])
  BY <1>1, <1>2, <1>4
<1>5. FollowsOf(w)
  BY <1>1, <1>3, <1>4 DEF FollowsOf
<1> QED
  BY <1>5 DEF w

\* The invariants in terms of the log and of counts.
LEMMA NamedParts ==
    /\ Links <=> LinksOf(log)
    /\ HeadersFollowRings <=> FollowsOf(log)
    /\ \A n, reason : Paid(n, reason) = Occurrences(rewards, [slot |-> n, reason |-> reason])
    /\ \A chain, n : SlotsOf(chain, n) = Occurrences(chain, SlotRing(n))
  BY DEF Links, LinksOf, HeadersFollowRings, FollowsOf, Paid, SlotsOf, Occurrences

-----------------------------------------------------------------------------
\* The queue without its first write.
LEMMA TailOfQueue ==
    ASSUME NEW E, NEW q \in Seq(E), q # <<>>
    PROVE  /\ DOMAIN q = 1..Len(q) /\ Len(q) \in Nat \ {0}
           /\ Head(q) = q[1] /\ 1 \in DOMAIN q /\ Head(q) \in E
           /\ Tail(q) \in Seq(E) /\ Len(Tail(q)) = Len(q) - 1
           /\ DOMAIN Tail(q) = 1..(Len(q) - 1)
           /\ \A k \in DOMAIN Tail(q) : k + 1 \in DOMAIN q /\ Tail(q)[k] = q[k + 1]
           /\ Tail(q) # <<>> => Head(Tail(q)) = q[2] /\ 2 \in DOMAIN q
<1>1. DOMAIN q = 1..Len(q) /\ Len(q) \in Nat \ {0}
  BY LenProperties, EmptySeq
<1>2. Head(q) = q[1] /\ Head(q) \in E
  BY <1>1, HeadTailProperties
<1>3. Tail(q) \in Seq(E) /\ Len(Tail(q)) = Len(q) - 1
      /\ \A i \in 1..Len(Tail(q)) : Tail(q)[i] = q[i + 1]
  BY HeadTailProperties
<1>4. DOMAIN Tail(q) = 1..(Len(q) - 1)
  BY <1>3, LenProperties
<1>5. \A k \in DOMAIN Tail(q) : k + 1 \in DOMAIN q /\ Tail(q)[k] = q[k + 1]
  BY <1>1, <1>3, <1>4
<1>6. ASSUME Tail(q) # <<>> PROVE Head(Tail(q)) = q[2] /\ 2 \in DOMAIN q
  <2>1. Len(Tail(q)) \in Nat \ {0}
    BY <1>3, <1>6, EmptySeq
  <2>2. 1 \in DOMAIN Tail(q)
    BY <1>3, <1>4, <2>1
  <2>3. Head(Tail(q)) = Tail(q)[1]
    BY <1>3, <1>6, HeadTailProperties
  <2> QED
    BY <1>5, <2>2, <2>3
<1> QED
  BY <1>1, <1>2, <1>3, <1>4, <1>5, <1>6

\* A slot's writes, one by one.
LEMMA SlotWritesAre ==
    ASSUME Types
    PROVE  SlotWrites =
             <<Line(Entry("ring", SlotRing(next), ledger)),
               HeadTo(Append(ledger, SlotRing(next))),
               Line(Entry("slot_header", next, slotHeaders)),
               Line(Entry("header", next, headers)),
               Reward(SlotCredits(next)[1]), Reward(SlotCredits(next)[2])>>
<1> DEFINE a == Line(Entry("ring", SlotRing(next), ledger))
           b == HeadTo(Append(ledger, SlotRing(next)))
           c == Line(Entry("slot_header", next, slotHeaders))
           d == Line(Entry("header", next, headers))
           x == Reward(SlotCredits(next)[1])
           y == Reward(SlotCredits(next)[2])
<1>1. SlotWrites = <<a, b>> \o <<c, d, x, y>>
  BY DEF SlotWrites, RingLines
<1> HIDE DEF a, b, c, d, x, y
<1>2. <<a, b>> \o <<c, d, x, y>> = <<a, b, c, d, x, y>>
  <2> DEFINE E == {a, b, c, d, x, y}
             s == <<a, b>>
             u == <<c, d, x, y>>
             v == <<a, b, c, d, x, y>>
  <2>1. /\ s \in Seq(E) /\ Len(s) = 2 /\ s[1] = a /\ s[2] = b
        /\ u \in Seq(E) /\ Len(u) = 4 /\ u[1] = c /\ u[2] = d /\ u[3] = x /\ u[4] = y
        /\ v \in Seq(E) /\ Len(v) = 6 /\ v[1] = a /\ v[2] = b
        /\ v[3] = c /\ v[4] = d /\ v[5] = x /\ v[6] = y
    OBVIOUS
  <2> HIDE DEF E, s, u, v
  <2>2. /\ s \o u \in Seq(E) /\ Len(s \o u) = 6
        /\ \A i \in 1..6 : (s \o u)[i] = IF i <= 2 THEN s[i] ELSE u[i - 2]
    <3>1. /\ s \o u \in Seq(E) /\ Len(s \o u) = Len(s) + Len(u)
          /\ \A i \in 1..(Len(s) + Len(u)) :
                (s \o u)[i] = IF i <= Len(s) THEN s[i] ELSE u[i - Len(s)]
      BY <2>1, ConcatProperties
    <3> QED
      BY <2>1, <3>1
  <2>3. \A i \in 1..6 : (s \o u)[i] = v[i]
    <3>1. \A i \in 1..6 : i = 1 \/ i = 2 \/ i = 3 \/ i = 4 \/ i = 5 \/ i = 6
      OBVIOUS
    <3>2. /\ (s \o u)[1] = a /\ (s \o u)[2] = b /\ (s \o u)[3] = c
          /\ (s \o u)[4] = d /\ (s \o u)[5] = x /\ (s \o u)[6] = y
      BY <2>1, <2>2
    <3> QED
      BY <2>1, <3>1, <3>2
  <2>4. s \o u = v
    BY <2>1, <2>2, <2>3, SeqEqual
  <2> QED
    BY <2>4 DEF s, u, v
<1> QED
  BY <1>1, <1>2 DEF a, b, c, d, x, y

-----------------------------------------------------------------------------
\* The kinds of write, and what each one does.
WriteFile(w) ==
    /\ w.what = "file"
    /\ files' = files \cup {w.file}
    /\ UNCHANGED <<log, tail, head, rewards, rewardsTail>>
WriteHead(w) ==
    /\ w.what = "head"
    /\ files' = files \cup {"head"}
    /\ head' = w.chain
    /\ UNCHANGED <<log, tail, rewards, rewardsTail>>
WriteLine(w) ==
    /\ w.what = "log"
    /\ log' = Appended(log, tail, w.entry)
    /\ tail' = EndAfter(tail)
    /\ UNCHANGED <<files, head, rewards, rewardsTail>>
WriteReward(w) ==
    /\ w.what = "reward"
    /\ rewards' = Appended(rewards, rewardsTail, w.credit)
    /\ rewardsTail' = EndAfter(rewardsTail)
    /\ UNCHANGED <<files, log, tail, head>>

\* What a crash leaves of the write it interrupts.
TearLine ==
    /\ todo # <<>> /\ Head(todo).what = "log"
    /\ \/ tail' = "broken" /\ UNCHANGED log
       \/ tail = "whole" /\ tail' = "open" /\ log' = Append(log, Head(todo).entry)
    /\ UNCHANGED <<files, head, rewards, rewardsTail>>
TearReward ==
    /\ todo # <<>> /\ Head(todo).what = "reward"
    /\ \/ rewardsTail' = "broken" /\ UNCHANGED rewards
       \/ /\ rewardsTail = "whole" /\ rewardsTail' = "open"
          /\ rewards' = Append(rewards, Head(todo).credit)
    /\ UNCHANGED <<files, log, tail, head>>

\* What a write does, whichever file it goes to.
LEMMA WriteCases ==
    ASSUME Write
    PROVE  /\ up /\ todo # <<>> /\ todo' = Tail(todo) /\ UNCHANGED <<up, memory>>
           /\ \/ WriteFile(Head(todo)) \/ WriteHead(Head(todo))
              \/ WriteLine(Head(todo)) \/ WriteReward(Head(todo))
  BY DEF Write, WriteFile, WriteHead, WriteLine, WriteReward

\* What a crash does, and that it may tear a last line.
LEMMA CrashCases ==
    ASSUME Crash
    PROVE  /\ up /\ up' = FALSE /\ todo' = <<>> /\ UNCHANGED memory
           /\ UNCHANGED disk \/ TearLine \/ TearReward
  BY DEF Crash, TearLine, TearReward

\* What the disk can come to in a step: no ledger file changes, a whole log
\* gets the line at the head of the queue, or it stops being readable.
LogSteps ==
    \/ UNCHANGED <<log, tail>>
    \/ /\ up /\ todo # <<>> /\ Head(todo).what = "log" /\ tail = "whole"
       /\ log' = Append(log, Head(todo).entry) /\ tail' \in {"whole", "open"}
       /\ tail' = "open" => ~up'
       /\ UNCHANGED memory /\ head' = head
       /\ todo' = <<>> \/ todo' = Tail(todo)
    \/ UNCHANGED log /\ tail' = "broken"

\* The ways the log changes.
LEMMA LogStep ==
    ASSUME Types, [Next]_vars
    PROVE  LogSteps
<1>1. CASE Write
  <2>1. CASE WriteLine(Head(todo))
    <3>1. tail = "whole" \/ tail \in {"open", "broken"}
      BY DEF Types, Ends
    <3> QED
      BY <1>1, <2>1, <3>1, WriteCases DEF WriteLine, LogSteps, Appended, EndAfter
  <2> QED
    BY <1>1, <2>1, WriteCases DEF WriteFile, WriteHead, WriteReward, LogSteps
<1>2. CASE Crash
  BY <1>2, CrashCases DEF TearLine, TearReward, LogSteps, disk
<1> QED
  BY <1>1, <1>2 DEF Next, vars, disk, memory, Boot, Resume, ProduceSlot, SkipSlot,
        SealRpc, SealUnlogged, ChallengeRpc, LogSteps

\* The same of the reward ledger.
RewardSteps ==
    \/ UNCHANGED <<rewards, rewardsTail>>
    \/ /\ up /\ todo # <<>> /\ Head(todo).what = "reward" /\ rewardsTail = "whole"
       /\ rewards' = Append(rewards, Head(todo).credit) /\ rewardsTail' \in {"whole", "open"}
       /\ rewardsTail' = "open" => ~up'
       /\ UNCHANGED memory
       /\ todo' = <<>> \/ todo' = Tail(todo)
    \/ UNCHANGED rewards /\ rewardsTail' = "broken"

\* The ways the reward file changes.
LEMMA RewardStep ==
    ASSUME Types, [Next]_vars
    PROVE  RewardSteps
<1>1. CASE Write
  <2>1. CASE WriteReward(Head(todo))
    <3>1. rewardsTail = "whole" \/ rewardsTail \in {"open", "broken"}
      BY DEF Types, Ends
    <3> QED
      BY <1>1, <2>1, <3>1, WriteCases DEF WriteReward, RewardSteps, Appended, EndAfter
  <2> QED
    BY <1>1, <2>1, WriteCases DEF WriteFile, WriteHead, WriteLine, RewardSteps
<1>2. CASE Crash
  BY <1>2, CrashCases DEF TearLine, TearReward, RewardSteps, disk
<1> QED
  BY <1>1, <1>2 DEF Next, vars, disk, memory, Boot, Resume, ProduceSlot, SkipSlot,
        SealRpc, SealUnlogged, ChallengeRpc, RewardSteps

-----------------------------------------------------------------------------
\* The items a log gets from the line at the head of the queue.
LEMMA QueuedLine ==
    ASSUME Types, todo # <<>>
    PROVE  /\ Head(todo) \in WriteSet /\ Head(todo) = todo[1] /\ 1 \in DOMAIN todo
           /\ Head(todo).what = "log" => Head(todo).entry \in Entries
           /\ Head(todo).what = "reward" => Head(todo).credit \in Credit
<1>1. todo \in Seq(WriteSet)
  BY DEF Types
<1>2. Head(todo) \in WriteSet /\ Head(todo) = todo[1] /\ 1 \in DOMAIN todo
  BY <1>1, TailOfQueue
<1> QED
  BY <1>2, WriteKinds

\* Tuples as sequences.
LEMMA Tuple4 ==
    ASSUME NEW S, NEW a \in S, NEW b \in S, NEW c \in S, NEW d \in S
    PROVE  <<a, b, c, d>> \in Seq(S)
  OBVIOUS

\* Six members make a sequence.
LEMMA Tuple6 ==
    ASSUME NEW S, NEW a \in S, NEW b \in S, NEW c \in S, NEW d \in S,
           NEW x \in S, NEW y \in S
    PROVE  <<a, b, c, d, x, y>> \in Seq(S)
  OBVIOUS

\* Whatever is queued is a write.
LEMMA QueueType ==
    ASSUME Types, [Next]_vars
    PROVE  todo' \in Seq(WriteSet)
<1> USE DEF Types
<1>e. <<>> \in Seq(WriteSet)
  BY EmptySeq
<1>f. \A f \in Files : File(f) \in WriteSet
  BY DEF File, WriteSet, FileWrite
<1>h. \A c \in Seq(Ring) : HeadTo(c) \in WriteSet
  BY DEF HeadTo, WriteSet, HeadWrite
<1>l. \A e \in Entries : Line(e) \in WriteSet
  BY DEF Line, WriteSet, LogWrite
<1>r. \A c \in Credit : Reward(c) \in WriteSet
  BY DEF Reward, WriteSet, RewardWrite
<1>1. CASE Boot
  <2>1. HeadTo(<<>>) \in WriteSet
    BY <1>h, EmptySeq
  <2>2. /\ File("identity") \in WriteSet /\ File("space_units") \in WriteSet
        /\ File("boot") \in WriteSet
    BY <1>f DEF Files
  <2>3. todo' = <<File("identity"), File("space_units"), File("boot"), HeadTo(<<>>)>>
    BY <1>1 DEF Boot
  <2> HIDE DEF Types
  <2>4. <<File("identity"), File("space_units"), File("boot"), HeadTo(<<>>)>> \in Seq(WriteSet)
    BY <2>1, <2>2, Tuple4
  <2> QED
    BY <2>3, <2>4
<1>2. CASE Write
  <2>1. todo # <<>> /\ todo' = Tail(todo) /\ todo \in Seq(WriteSet)
    BY <1>2, WriteCases
  <2> HIDE DEF Types
  <2> QED
    BY <2>1, TailOfQueue
<1>3. CASE Crash
  BY <1>3, <1>e, CrashCases
<1>4. CASE ProduceSlot
  <2>1. next \in 1..MaxSlot /\ SlotRing(next) \in Ring
    BY <1>4, BoundAssumption DEF ProduceSlot, SlotRing, Ring
  <2>2. Append(ledger, SlotRing(next)) \in Seq(Ring)
    BY <2>1, AppendProperties
  <2>3. /\ Entry("ring", SlotRing(next), ledger) \in Entries
        /\ Entry("slot_header", next, slotHeaders) \in Entries
        /\ Entry("header", next, headers) \in Entries
    BY <2>1 DEF Entry, Entries, RingEntry, HeaderEntry
  <2>4. SlotCredits(next)[1] \in Credit /\ SlotCredits(next)[2] \in Credit
    BY <2>1 DEF SlotCredits, Credit, Reasons
  <2>5. /\ Line(Entry("ring", SlotRing(next), ledger)) \in WriteSet
        /\ HeadTo(Append(ledger, SlotRing(next))) \in WriteSet
        /\ Line(Entry("slot_header", next, slotHeaders)) \in WriteSet
        /\ Line(Entry("header", next, headers)) \in WriteSet
        /\ Reward(SlotCredits(next)[1]) \in WriteSet
        /\ Reward(SlotCredits(next)[2]) \in WriteSet
    BY <1>h, <1>l, <1>r, <2>2, <2>3, <2>4
  <2>6. todo' = SlotWrites
    BY <1>4 DEF ProduceSlot
  <2>7. SlotWrites =
             <<Line(Entry("ring", SlotRing(next), ledger)),
               HeadTo(Append(ledger, SlotRing(next))),
               Line(Entry("slot_header", next, slotHeaders)),
               Line(Entry("header", next, headers)),
               Reward(SlotCredits(next)[1]), Reward(SlotCredits(next)[2])>>
    BY SlotWritesAre
  <2> HIDE DEF Types
  <2> QED
    BY <2>5, <2>6, <2>7, Tuple6
<1>5. CASE SealRpc
  <2> DEFINE r == [kind |-> "seal", slot |-> 0]
  <2>1. r \in Ring
    BY BoundAssumption DEF Ring
  <2>2. Append(ledger, r) \in Seq(Ring)
    BY <2>1, AppendProperties
  <2>3. Entry("ring", r, ledger) \in Entries
    BY <2>1 DEF Entry, Entries, RingEntry
  <2>4. todo' = RingLines(r)
    BY <1>5 DEF SealRpc
  <2> HIDE DEF r
  <2>5. Line(Entry("ring", r, ledger)) \in WriteSet /\ HeadTo(Append(ledger, r)) \in WriteSet
    BY <1>h, <1>l, <2>2, <2>3
  <2> HIDE DEF Types
  <2> QED
    BY <2>4, <2>5 DEF RingLines
<1>6. CASE ChallengeRpc
  <2>1. PICK slot \in {Len(ledger), Len(ledger) + 1} :
           todo' = <<Line(Entry("challenge", slot, <<>>))>>
    BY <1>6 DEF ChallengeRpc
  <2>2. slot \in Nat
    BY LenProperties
  <2>3. Entry("challenge", slot, <<>>) \in Entries
    BY <2>2 DEF Entry, Entries, ChallengeEntry
  <2> QED
    BY <1>l, <2>1, <2>3
<1> QED
  BY <1>1, <1>2, <1>3, <1>4, <1>5, <1>6
     DEF Next, vars, Resume, SkipSlot, SealUnlogged

\* The last pass read from a log is one of its own, or none.
LEMMA PassType ==
    ASSUME NEW l \in Seq(Entries)
    PROVE  /\ Max({0} \cup ToSet(Items(l, "challenge"))) \in Nat
           /\ Max({0} \cup ToSet(Items(l, "challenge")))
                 \in {0} \cup ToSet(Items(l, "challenge"))
           /\ \A p \in {0} \cup ToSet(Items(l, "challenge")) :
                 p <= Max({0} \cup ToSet(Items(l, "challenge")))
<1> DEFINE S == ToSet(Items(l, "challenge"))
<1>1. S \in SUBSET Nat /\ IsFiniteSet(S)
  BY LogItems, ToSetFinite
<1> HIDE DEF S
<1>2. Max({0} \cup S) \in {0} \cup S /\ \A p \in {0} \cup S : p <= Max({0} \cup S)
  BY <1>1, MaxIsBound
<1>3. Max({0} \cup S) \in Nat
  <2>1. {0} \cup S \subseteq Nat
    BY <1>1
  <2> QED
    BY <1>2, <2>1
<1> QED
  BY <1>2, <1>3 DEF S

\* What the memory can come to in a step.
LEMMA MemoryType ==
    ASSUME Types, [Next]_vars
    PROVE  /\ ledger' \in Seq(Ring) /\ credits' \in Seq(Credit)
           /\ slotHeaders' \in Seq(1..MaxSlot) /\ headers' \in Seq(1..MaxSlot)
           /\ lastPass' \in Nat /\ next' \in 1..(MaxSlot + 1)
<1> USE DEF Types
<1>1. CASE Resume
  <2>1. /\ Items(log, "ring") \in Seq(Ring)
        /\ Items(log, "slot_header") \in Seq(1..MaxSlot)
        /\ Items(log, "header") \in Seq(1..MaxSlot)
    BY LogItems
  <2>2. ReplayedPass \in Nat
    BY PassType DEF ReplayedPass
  <2>3. Len(ledger') \in Nat
    BY <1>1, <2>1, LenProperties DEF Resume
  <2>4. next' \in 1..(MaxSlot + 1)
    BY <1>1, <2>3, BoundAssumption DEF Resume
  <2> QED
    BY <1>1, <2>1, <2>2, <2>4 DEF Resume, Reloaded
<1>2. CASE ProduceSlot
  <2>1. next \in 1..MaxSlot /\ SlotRing(next) \in Ring
    BY <1>2, BoundAssumption DEF ProduceSlot, SlotRing, Ring
  <2>2. SlotCredits(next) \in Seq(Credit)
    <3>1. /\ [slot |-> next, reason |-> "space"] \in Credit
          /\ [slot |-> next, reason |-> "treasury"] \in Credit
      BY <2>1 DEF Credit, Reasons
    <3> QED
      BY <3>1 DEF SlotCredits
  <2>3. /\ ledger' = Append(ledger, SlotRing(next)) /\ credits' = credits \o SlotCredits(next)
        /\ slotHeaders' = Append(slotHeaders, next) /\ headers' = Append(headers, next)
        /\ lastPass' = lastPass /\ next' = next + 1
    BY <1>2 DEF ProduceSlot
  <2>4. credits' \in Seq(Credit)
    BY <2>2, <2>3, ConcatProperties
  <2>5. /\ ledger' \in Seq(Ring) /\ slotHeaders' \in Seq(1..MaxSlot)
        /\ headers' \in Seq(1..MaxSlot)
    BY <2>1, <2>3, AppendProperties
  <2> QED
    BY <2>1, <2>3, <2>4, <2>5, BoundAssumption
<1>3. CASE SkipSlot
  BY <1>3, BoundAssumption DEF SkipSlot
<1>4. CASE SealRpc
  <2>1. [kind |-> "seal", slot |-> 0] \in Ring
    BY BoundAssumption DEF Ring
  <2>2. ledger' = Append(ledger, [kind |-> "seal", slot |-> 0])
    BY <1>4 DEF SealRpc
  <2>3. ledger' \in Seq(Ring)
    BY <2>1, <2>2, AppendProperties
  <2> QED
    BY <1>4, <2>3 DEF SealRpc
<1>5. CASE SealUnlogged
  <2>1. [kind |-> "unlogged", slot |-> 0] \in Ring
    BY BoundAssumption DEF Ring
  <2>2. ledger' = Append(ledger, [kind |-> "unlogged", slot |-> 0])
    BY <1>5 DEF SealUnlogged
  <2>3. ledger' \in Seq(Ring)
    BY <2>1, <2>2, AppendProperties
  <2> QED
    BY <1>5, <2>3 DEF SealUnlogged
<1>6. CASE ChallengeRpc
  <2>1. Len(ledger) \in Nat
    BY LenProperties
  <2> QED
    BY <1>6, <2>1 DEF ChallengeRpc
<1>7. CASE UNCHANGED memory
  BY <1>7 DEF memory
<1> QED
  BY <1>1, <1>2, <1>3, <1>4, <1>5, <1>6, <1>7, WriteCases, CrashCases
     DEF Next, vars, Boot

\* The types are kept.
LEMMA TypesStep ==
    ASSUME Types, [Next]_vars
    PROVE  Types'
<1>1. log' \in Seq(Entries) /\ tail' \in Ends
  <2>1. CASE UNCHANGED <<log, tail>>
    BY <2>1 DEF Types
  <2>2. CASE UNCHANGED log /\ tail' = "broken"
    BY <2>2 DEF Types, Ends
  <2>3. CASE /\ up /\ todo # <<>> /\ Head(todo).what = "log" /\ tail = "whole"
             /\ log' = Append(log, Head(todo).entry) /\ tail' \in {"whole", "open"}
    <3>1. Head(todo).entry \in Entries /\ log \in Seq(Entries)
      BY <2>3, QueuedLine DEF Types
    <3>2. log' \in Seq(Entries)
      BY <2>3, <3>1, AppendProperties
    <3> QED
      BY <2>3, <3>2 DEF Ends
  <2> QED
    BY <2>1, <2>2, <2>3, LogStep DEF LogSteps
<1>2. rewards' \in Seq(Credit) /\ rewardsTail' \in Ends
  <2>1. CASE UNCHANGED <<rewards, rewardsTail>>
    BY <2>1 DEF Types
  <2>2. CASE UNCHANGED rewards /\ rewardsTail' = "broken"
    BY <2>2 DEF Types, Ends
  <2>3. CASE /\ up /\ todo # <<>> /\ Head(todo).what = "reward" /\ rewardsTail = "whole"
             /\ rewards' = Append(rewards, Head(todo).credit)
             /\ rewardsTail' \in {"whole", "open"}
    <3>1. Head(todo).credit \in Credit /\ rewards \in Seq(Credit)
      BY <2>3, QueuedLine DEF Types
    <3>2. rewards' \in Seq(Credit)
      BY <2>3, <3>1, AppendProperties
    <3> QED
      BY <2>3, <3>2 DEF Ends
  <2> QED
    BY <2>1, <2>2, <2>3, RewardStep DEF RewardSteps
<1>3. files' \subseteq Files /\ head' \in Seq(Ring) /\ up' \in BOOLEAN
  <2>1. CASE Write
    <3>1. Head(todo) \in WriteSet
      BY <2>1, WriteCases, QueuedLine
    <3>2. /\ Head(todo).what = "file" => Head(todo).file \in Files
          /\ Head(todo).what = "head" => Head(todo).chain \in Seq(Ring)
      BY <3>1, WriteKinds
    <3>3. files \subseteq Files /\ head \in Seq(Ring) /\ up \in BOOLEAN /\ "head" \in Files
      BY DEF Types, Files
    <3> QED
      BY <2>1, <3>2, <3>3, WriteCases DEF WriteFile, WriteHead, WriteLine, WriteReward
  <2>2. CASE Crash
    BY <2>2, CrashCases DEF TearLine, TearReward, disk, Types
  <2>3. CASE ~Write /\ ~Crash
    <3>1. UNCHANGED disk
      BY <2>3 DEF Next, vars, Boot, Resume, ProduceSlot, SkipSlot,
            SealRpc, SealUnlogged, ChallengeRpc
    <3>2. up' = up \/ (up' <=> TRUE)
      BY <2>3 DEF Ready, Next, vars, Boot, Resume, ProduceSlot, SkipSlot,
            SealRpc, SealUnlogged, ChallengeRpc
    <3> QED
      BY <3>1, <3>2 DEF disk, Types
  <2> QED
    BY <2>1, <2>2, <2>3
<1> QED
  BY <1>1, <1>2, <1>3, QueueType, MemoryType DEF Types

-----------------------------------------------------------------------------
\* What becomes of the queue: it is empty, as it was, one write shorter, or
\* a handler's new one.
QueueSteps ==
    \/ todo' = <<>>
    \/ UNCHANGED <<todo, memory>>
    \/ todo # <<>> /\ todo' = Tail(todo) /\ UNCHANGED memory
    \/ Boot \/ ProduceSlot \/ SealRpc \/ ChallengeRpc

\* The ways the queue changes.
LEMMA QueueStep ==
    ASSUME BootOrder, [Next]_vars
    PROVE  QueueSteps
<1>1. CASE Resume
  BY <1>1 DEF Resume, BootOrder, QueueSteps
<1>2. CASE SkipSlot \/ SealUnlogged
  BY <1>2 DEF SkipSlot, SealUnlogged, Ready, QueueSteps
<1>3. CASE Write
  BY <1>3, WriteCases DEF QueueSteps
<1>4. CASE Crash
  BY <1>4, CrashCases DEF QueueSteps
<1> QED
  BY <1>1, <1>2, <1>3, <1>4 DEF Next, vars, QueueSteps

\* An empty queue has no place.
LEMMA NoQueue == DOMAIN <<>> = {}
  OBVIOUS

\* What the names of writes and lines say.
LEMMA WriteNames ==
    /\ \A f : File(f).what = "file" /\ File(f).file = f
    /\ \A c : HeadTo(c).what = "head" /\ HeadTo(c).chain = c
    /\ \A e : Line(e).what = "log" /\ Line(e).entry = e
    /\ \A c : Reward(c).what = "reward" /\ Reward(c).credit = c
    /\ \A t, i, on : /\ Entry(t, i, on).t = t /\ Entry(t, i, on).item = i
                     /\ Entry(t, i, on).on = on
  BY DEF File, HeadTo, Line, Reward, Entry

\* What a handler's new queue is, write by write.
LEMMA BootQueue ==
    ASSUME Boot
    PROVE  /\ UNCHANGED memory /\ DOMAIN todo' = 1..4 /\ Len(todo') = 4
           /\ \A k \in 1..3 : todo'[k].what = "file"
           /\ todo'[4] = HeadTo(<<>>) /\ todo' # <<>>
           /\ Head(todo') = File("identity")
<1> DEFINE q == <<File("identity"), File("space_units"), File("boot"), HeadTo(<<>>)>>
<1>1. todo' = q /\ UNCHANGED memory
  BY DEF Boot
<1>2. /\ DOMAIN q = 1..4 /\ Len(q) = 4 /\ q[1].what = "file" /\ q[2].what = "file" /\ q[3].what = "file"
      /\ q[4] = HeadTo(<<>>) /\ q # <<>> /\ Head(q) = File("identity")
  BY DEF File
<1>3. \A k \in 1..3 : k = 1 \/ k = 2 \/ k = 3
  OBVIOUS
<1> HIDE DEF q
<1> QED
  BY <1>1, <1>2, <1>3

SlotQueue(q) ==
    /\ DOMAIN q = 1..6 /\ Len(q) = 6 /\ q # <<>> /\ Head(q) = q[1]
    /\ q[1] = Line(Entry("ring", SlotRing(next), ledger))
    /\ q[2] = HeadTo(Append(ledger, SlotRing(next)))
    /\ q[3] = Line(Entry("slot_header", next, slotHeaders))
    /\ q[4] = Line(Entry("header", next, headers))
    /\ q[5] = Reward([slot |-> next, reason |-> "space"])
    /\ q[6] = Reward([slot |-> next, reason |-> "treasury"])

\* What a produced slot queues.
LEMMA NewSlotQueue ==
    ASSUME Types, ProduceSlot
    PROVE  SlotQueue(todo')
<1> DEFINE a == Line(Entry("ring", SlotRing(next), ledger))
           b == HeadTo(Append(ledger, SlotRing(next)))
           c == Line(Entry("slot_header", next, slotHeaders))
           d == Line(Entry("header", next, headers))
           x == Reward(SlotCredits(next)[1])
           y == Reward(SlotCredits(next)[2])
<1>1. todo' = <<a, b, c, d, x, y>>
  BY SlotWritesAre DEF ProduceSlot
<1>2. /\ x = Reward([slot |-> next, reason |-> "space"])
      /\ y = Reward([slot |-> next, reason |-> "treasury"])
  BY DEF SlotCredits
<1>3. ASSUME NEW q, q = <<a, b, c, d, x, y>>
      PROVE  /\ DOMAIN q = 1..6 /\ Len(q) = 6 /\ q # <<>> /\ Head(q) = q[1]
             /\ q[1] = a /\ q[2] = b /\ q[3] = c /\ q[4] = d /\ q[5] = x /\ q[6] = y
  <2> HIDE DEF a, b, c, d, x, y
  <2> QED
    BY <1>3
<1> QED
  BY <1>1, <1>2, <1>3 DEF SlotQueue

\* And what its writes carry.
LEMMA SlotQueueFields ==
    ASSUME NEW q, SlotQueue(q)
    PROVE  /\ q[1].entry.on = ledger /\ q[1].entry.item = SlotRing(next)
           /\ q[3].entry.on = slotHeaders /\ q[3].entry.item = next
           /\ q[4].entry.on = headers /\ q[4].entry.item = next
           /\ q[2].chain = Append(ledger, SlotRing(next))
<1>1. q[1].entry.on = ledger /\ q[1].entry.item = SlotRing(next)
  BY WriteNames DEF SlotQueue
<1>2. q[3].entry.on = slotHeaders /\ q[3].entry.item = next
  BY WriteNames DEF SlotQueue
<1>3. q[4].entry.on = headers /\ q[4].entry.item = next
  BY WriteNames DEF SlotQueue
<1>4. q[2].chain = Append(ledger, SlotRing(next))
  BY WriteNames DEF SlotQueue
<1> QED
  BY <1>1, <1>2, <1>3, <1>4

SealQueue(q) ==
    /\ DOMAIN q = 1..2 /\ Len(q) = 2 /\ q # <<>> /\ Head(q) = q[1]
    /\ q[1] = Line(Entry("ring", [kind |-> "seal", slot |-> 0], ledger))
    /\ q[2] = HeadTo(Append(ledger, [kind |-> "seal", slot |-> 0]))

\* What a sealed ring queues.
LEMMA NewSealQueue ==
    ASSUME SealRpc
    PROVE  SealQueue(todo') /\ ledger' = Append(ledger, [kind |-> "seal", slot |-> 0])
<1> DEFINE r == [kind |-> "seal", slot |-> 0]
           a == Line(Entry("ring", r, ledger))
           b == HeadTo(Append(ledger, r))
<1>1. todo' = <<a, b>> /\ ledger' = Append(ledger, r)
  BY DEF SealRpc, RingLines
<1>2. ASSUME NEW q, q = <<a, b>>
      PROVE  DOMAIN q = 1..2 /\ Len(q) = 2 /\ q # <<>> /\ Head(q) = q[1] /\ q[1] = a /\ q[2] = b
  <2> HIDE DEF a, b
  <2> QED
    BY <1>2
<1> QED
  BY <1>1, <1>2 DEF SealQueue

\* And what its writes carry.
LEMMA SealQueueFields ==
    ASSUME NEW q, SealQueue(q)
    PROVE  /\ q[1].entry.on = ledger /\ q[1].entry.item = [kind |-> "seal", slot |-> 0]
           /\ q[2].chain = Append(ledger, [kind |-> "seal", slot |-> 0])
<1>1. q[1].entry.on = ledger
  BY WriteNames DEF SealQueue
<1>2. q[1].entry.item = [kind |-> "seal", slot |-> 0]
  BY WriteNames DEF SealQueue
<1>3. q[2].chain = Append(ledger, [kind |-> "seal", slot |-> 0])
  BY WriteNames DEF SealQueue
<1> QED
  BY <1>1, <1>2, <1>3

\* What a passed challenge queues.
LEMMA NewChallengeQueue ==
    ASSUME ChallengeRpc
    PROVE  /\ DOMAIN todo' = {1} /\ Len(todo') = 1 /\ todo' # <<>> /\ Head(todo') = todo'[1]
           /\ todo'[1] = Line(Entry("challenge", lastPass', <<>>))
  BY DEF ChallengeRpc

\* The identity file comes first.
LEMMA BootOrderStep ==
    ASSUME Types, BootOrder, [Next]_vars
    PROVE  BootOrder'
<1>1. CASE Boot
  <2>1. "identity" \notin files /\ UNCHANGED disk /\ Blank /\ up'
    BY <1>1 DEF Boot, BootOrder
  <2>2. Blank'
    BY <1>1, <2>1 DEF Boot, Blank, disk, memory
  <2> QED
    BY <1>1, <2>1, <2>2, BootQueue DEF BootOrder, Blank, disk
<1>2. CASE Write
  <2>1. /\ up /\ up' /\ todo # <<>> /\ UNCHANGED memory
        /\ \/ WriteFile(Head(todo)) \/ WriteHead(Head(todo))
           \/ WriteLine(Head(todo)) \/ WriteReward(Head(todo))
    BY <1>2, WriteCases
  <2>2. CASE "identity" \notin files
    <3>1. Head(todo) = File("identity")
      BY <2>1, <2>2 DEF BootOrder
    <3>2. WriteFile(Head(todo)) /\ Head(todo).file = "identity"
      BY <2>1, <3>1, WriteNames DEF WriteFile, WriteHead, WriteLine, WriteReward
    <3>3. "identity" \in files' /\ head' = <<>>
      BY <2>2, <3>2 DEF WriteFile, BootOrder, Blank
    <3> QED
      BY <2>1, <3>3 DEF BootOrder
  <2>3. CASE "identity" \in files
    BY <2>1, <2>3 DEF WriteFile, WriteHead, WriteLine, WriteReward, BootOrder
  <2> QED
    BY <2>2, <2>3
<1>3. CASE Crash
  <2>1. /\ up /\ up' = FALSE /\ todo' = <<>> /\ UNCHANGED memory /\ files' = files /\ head' = head
        /\ UNCHANGED disk \/ TearLine \/ TearReward
    BY <1>3, CrashCases DEF TearLine, TearReward, disk
  <2>2. CASE "identity" \notin files
    <3>1. Head(todo) = File("identity") /\ Blank
      BY <2>1, <2>2 DEF BootOrder
    <3>2. UNCHANGED disk
      BY <2>1, <3>1, WriteNames DEF TearLine, TearReward
    <3>3. Blank'
      BY <2>1, <3>1, <3>2 DEF Blank, disk, memory
    <3> QED
      BY <2>1, <3>3 DEF BootOrder
  <2> QED
    BY <2>1, <2>2 DEF BootOrder
<1>4. CASE Resume
  BY <1>4 DEF Resume, BootOrder, disk
<1>5. CASE ProduceSlot \/ SkipSlot \/ SealRpc \/ SealUnlogged \/ ChallengeRpc
  <2>1. Ready /\ up' /\ UNCHANGED disk
    BY <1>5 DEF ProduceSlot, SkipSlot, SealRpc, SealUnlogged, ChallengeRpc, Ready
  <2>2. "identity" \in files
    BY <2>1 DEF Ready, BootOrder
  <2> QED
    BY <2>1, <2>2 DEF disk, BootOrder
<1>6. CASE UNCHANGED vars
  BY <1>6 DEF vars, disk, memory, BootOrder, Blank
<1> QED
  BY <1>1, <1>2, <1>3, <1>4, <1>5, <1>6 DEF Next

\* What is queued still brings the disk to the memory.
LEMMA OwedStep ==
    ASSUME Types, BootOrder, Owed, [Next]_vars
    PROVE  Owed'
<1>1. CASE todo' = <<>>
  BY <1>1, NoQueue DEF Owed
<1>2. CASE UNCHANGED <<todo, memory>>
  BY <1>2 DEF Owed, memory, Held
<1>3. CASE todo # <<>> /\ todo' = Tail(todo) /\ UNCHANGED memory
  <2>1. /\ \A k \in DOMAIN todo' : k + 1 \in DOMAIN todo /\ todo'[k] = todo[k + 1]
        /\ DOMAIN todo' \subseteq Nat \ {0}
    BY <1>3, TailOfQueue DEF Types
  <2>2. \A t : Held(t)' = Held(t)
    BY <1>3 DEF memory, Held
  <2>3. ledger' = ledger
    BY <1>3 DEF memory
  <2>4. \A j, k \in DOMAIN todo' : j + 1 = k + 1 => j = k
    BY <2>1
  <2>5. \A k \in DOMAIN todo' : k + 1 # 1
    BY <2>1
  <2> QED
    BY <2>1, <2>2, <2>3, <2>4, <2>5 DEF Owed, IsLine
<1>4. CASE Boot
  <2>1. /\ DOMAIN todo' = 1..4 /\ todo'[4] = HeadTo(<<>>) /\ UNCHANGED memory
        /\ \A k \in 1..3 : todo'[k].what = "file"
    BY <1>4, BootQueue
  <2>2. ledger = <<>>
    BY <1>4 DEF Boot, BootOrder, Blank
  <2>3. \A k \in 1..4 : k = 4 \/ k \in 1..3
    OBVIOUS
  <2>4. todo'[4].what = "head" /\ todo'[4].chain = <<>>
    BY <2>1, WriteNames
  <2>5. \A k \in DOMAIN todo' : /\ todo'[k].what \notin {"log", "reward"}
                                /\ todo'[k].what = "head" => todo'[k].chain = ledger'
    BY <2>1, <2>2, <2>3, <2>4 DEF memory
  <2> QED
    BY <2>5 DEF Owed, IsLine
<1>5. CASE ProduceSlot
  <2> DEFINE q == todo'
  <2>1. SlotQueue(q)
    BY <1>5, NewSlotQueue
  <2>2. /\ ledger' = Append(ledger, SlotRing(next)) /\ slotHeaders' = Append(slotHeaders, next)
        /\ headers' = Append(headers, next)
    BY <1>5 DEF ProduceSlot
  <2> HIDE DEF q
  <2>3. \A k \in DOMAIN q : k = 1 \/ k = 2 \/ k = 3 \/ k = 4 \/ k = 5 \/ k = 6
    BY <2>1 DEF SlotQueue
  <2>4. /\ \A t : IsLine(q[1], t) <=> t = "ring"
        /\ \A t : ~IsLine(q[2], t) /\ ~IsLine(q[5], t) /\ ~IsLine(q[6], t)
        /\ \A t : IsLine(q[3], t) <=> t = "slot_header"
        /\ \A t : IsLine(q[4], t) <=> t = "header"
    BY <2>1, WriteNames DEF SlotQueue, IsLine
  <2>5. /\ Append(q[1].entry.on, q[1].entry.item) = ledger'
        /\ Append(q[3].entry.on, q[3].entry.item) = slotHeaders'
        /\ Append(q[4].entry.on, q[4].entry.item) = headers'
        /\ q[2].chain = ledger'
    <3>1. /\ q[1].entry.on = ledger /\ q[1].entry.item = SlotRing(next)
          /\ q[3].entry.on = slotHeaders /\ q[3].entry.item = next
          /\ q[4].entry.on = headers /\ q[4].entry.item = next
          /\ q[2].chain = Append(ledger, SlotRing(next))
      BY <2>1, SlotQueueFields
    <3> QED
      BY <2>2, <3>1
  <2>6. /\ q[1].what = "log" /\ q[2].what = "head" /\ q[3].what = "log" /\ q[4].what = "log"
        /\ q[5] # q[6]
    BY <2>1, WriteNames DEF SlotQueue
  <2>7. \A k \in DOMAIN q, t \in Linked :
          IsLine(q[k], t) => Append(q[k].entry.on, q[k].entry.item) = Held(t)'
    BY <2>3, <2>4, <2>5 DEF Held
  <2>8. \A k \in DOMAIN q : /\ q[k].what = "head" => q[k].chain = ledger'
                            /\ IsLine(q[k], "ring") => k = 1
    BY <2>3, <2>4, <2>5, <2>6, WriteNames, <2>1 DEF SlotQueue
  <2>9. \A j, k \in DOMAIN q, t \in Linked : IsLine(q[j], t) /\ IsLine(q[k], t) => j = k
    BY <2>3, <2>4
  <2>10. \A j, k \in DOMAIN q : q[j].what = "reward" /\ q[j] = q[k] => j = k
    BY <2>3, <2>6
  <2> QED
    BY <2>7, <2>8, <2>9, <2>10 DEF Owed, q
<1>6. CASE SealRpc
  <2> DEFINE q == todo'
  <2>1. SealQueue(q) /\ ledger' = Append(ledger, [kind |-> "seal", slot |-> 0])
    BY <1>6, NewSealQueue
  <2> HIDE DEF q
  <2>2. \A k \in DOMAIN q : k = 1 \/ k = 2
    BY <2>1 DEF SealQueue
  <2>3. /\ \A t : IsLine(q[1], t) <=> t = "ring"
        /\ \A t : ~IsLine(q[2], t)
        /\ q[1].what = "log" /\ q[2].what = "head"
    BY <2>1, WriteNames DEF SealQueue, IsLine
  <2>4. /\ q[1].entry.on = ledger /\ q[1].entry.item = [kind |-> "seal", slot |-> 0]
        /\ q[2].chain = Append(ledger, [kind |-> "seal", slot |-> 0])
    BY <2>1, SealQueueFields
  <2>5. Append(q[1].entry.on, q[1].entry.item) = ledger' /\ q[2].chain = ledger'
    BY <2>1, <2>4
  <2> QED
    BY <2>2, <2>3, <2>5 DEF Owed, Held, q
<1>7. CASE ChallengeRpc
  BY <1>7, NewChallengeQueue, WriteNames DEF Owed, IsLine, Linked
<1> QED
  BY <1>1, <1>2, <1>3, <1>4, <1>5, <1>6, <1>7, QueueStep DEF QueueSteps

\* A queue is still of one slot.
LEMMA OfOneSlotStep ==
    ASSUME Types, BootOrder, Owed, OfOneSlot, [Next]_vars
    PROVE  OfOneSlot'
<1>1. CASE todo' = <<>>
  BY <1>1 DEF OfOneSlot, RingDue
<1>2. CASE UNCHANGED <<todo, memory>>
  BY <1>2 DEF OfOneSlot, RingDue
<1>3. CASE todo # <<>> /\ todo' = Tail(todo) /\ UNCHANGED memory
  <2>1. todo' # <<>> => Head(todo') = todo[2] /\ 2 \in DOMAIN todo
    BY <1>3, TailOfQueue DEF Types
  <2>2. ~RingDue'
    BY <2>1 DEF RingDue, Owed
  <2> QED
    BY <2>2 DEF OfOneSlot
<1>4. CASE Boot \/ ChallengeRpc
  <2>1. ~RingDue'
    BY <1>4, BootQueue, NewChallengeQueue, WriteNames DEF RingDue, IsLine
  <2> QED
    BY <2>1 DEF OfOneSlot
<1>5. CASE ProduceSlot
  <2> DEFINE q == todo'
  <2>1. SlotQueue(q)
    BY <1>5, NewSlotQueue
  <2> HIDE DEF q
  <2>2. \A k \in DOMAIN q : k = 1 \/ k = 2 \/ k = 3 \/ k = 4 \/ k = 5 \/ k = 6
    BY <2>1 DEF SlotQueue
  <2>3. /\ Head(q).entry.item = SlotRing(next)
        /\ q[1].entry.t = "ring" /\ q[2].what = "head"
        /\ q[3].entry.item = next /\ q[4].entry.item = next
        /\ q[1].what = "log" /\ q[3].what = "log" /\ q[4].what = "log"
        /\ q[5].what = "reward" /\ q[6].what = "reward"
        /\ q[5].credit.slot = next /\ q[6].credit.slot = next
    BY <2>1, WriteNames DEF SlotQueue
  <2> QED
    BY <2>2, <2>3 DEF OfOneSlot, IsLine, q
<1>6. CASE SealRpc
  <2> DEFINE q == todo'
  <2>1. SealQueue(q)
    BY <1>6, NewSealQueue
  <2> HIDE DEF q
  <2>2. \A k \in DOMAIN q : k = 1 \/ k = 2
    BY <2>1 DEF SealQueue
  <2>3. q[1].what = "log" /\ q[1].entry.t = "ring" /\ q[2].what = "head"
    BY <2>1, WriteNames DEF SealQueue
  <2> QED
    BY <2>2, <2>3 DEF OfOneSlot, IsLine, q
<1> QED
  BY <1>1, <1>2, <1>3, <1>4, <1>5, <1>6, QueueStep DEF QueueSteps

-----------------------------------------------------------------------------
\* The lines queued after a write are the others that were.
LEMMA LinesLeft ==
    ASSUME Types, todo # <<>>, todo' = Tail(todo)
    PROVE  /\ \A k \in DOMAIN todo' :
                 k + 1 \in DOMAIN todo /\ k + 1 # 1 /\ todo'[k] = todo[k + 1]
           /\ \A k \in DOMAIN todo : k # 1 =>
                 k - 1 \in DOMAIN todo' /\ todo'[k - 1] = todo[k]
           /\ 1 \in DOMAIN todo /\ Head(todo) = todo[1]
<1>1. /\ DOMAIN todo = 1..Len(todo) /\ Len(todo) \in Nat \ {0}
      /\ DOMAIN todo' = 1..(Len(todo) - 1)
      /\ \A k \in DOMAIN todo' : k + 1 \in DOMAIN todo /\ todo'[k] = todo[k + 1]
      /\ 1 \in DOMAIN todo /\ Head(todo) = todo[1]
  BY TailOfQueue DEF Types
<1>2. ASSUME NEW k \in DOMAIN todo, k # 1
      PROVE  k - 1 \in DOMAIN todo' /\ todo'[k - 1] = todo[k]
  <2>1. k - 1 \in DOMAIN todo' /\ (k - 1) + 1 = k
    BY <1>1, <1>2
  <2> QED
    BY <1>1, <2>1
<1>3. \A k \in DOMAIN todo' : k + 1 # 1
  BY <1>1
<1> QED
  BY <1>1, <1>2, <1>3

\* A kind that was caught up stays so when the queue's first write is done.
LEMMA CaughtWrite ==
    ASSUME Types, Owed, Write, tail' # "broken", tail # "broken",
           NEW t \in Linked, CaughtUp(t)
    PROVE  CaughtUp(t)'
<1>1. /\ todo # <<>> /\ todo' = Tail(todo) /\ UNCHANGED memory
      /\ \/ WriteFile(Head(todo)) \/ WriteHead(Head(todo))
         \/ WriteLine(Head(todo)) \/ WriteReward(Head(todo))
  BY WriteCases
<1>2. /\ \A k \in DOMAIN todo' :
            k + 1 \in DOMAIN todo /\ k + 1 # 1 /\ todo'[k] = todo[k + 1]
      /\ \A k \in DOMAIN todo : k # 1 =>
            k - 1 \in DOMAIN todo' /\ todo'[k - 1] = todo[k]
      /\ 1 \in DOMAIN todo /\ Head(todo) = todo[1]
  BY <1>1, LinesLeft
<1>3. Held(t)' = Held(t)
  BY <1>1 DEF memory, Held
<1>4. CASE ~IsLine(Head(todo), t)
  <2>1. Items(log, t)' = Items(log, t)
    <3>1. CASE Head(todo).what = "log"
      <4>1. log' = Append(log, Head(todo).entry) \/ log' = log
        BY <1>1, <3>1 DEF WriteFile, WriteHead, WriteLine, WriteReward, Appended
      <4>2. Head(todo).entry \in Entries /\ log \in Seq(Entries) /\ Head(todo).entry.t # t
        BY <1>1, <1>4, <3>1, QueuedLine DEF Types, IsLine
      <4>3. Items(Append(log, Head(todo).entry), t) = Items(log, t)
        BY <4>2, ItemsAppend
      <4> QED
        BY <4>1, <4>3
    <3>2. CASE Head(todo).what # "log"
      BY <1>1, <3>2 DEF WriteFile, WriteHead, WriteLine, WriteReward
    <3> QED
      BY <3>1, <3>2
  <2>2. LineDue(t)' <=> LineDue(t)
    BY <1>2, <1>4 DEF LineDue
  <2>3. \A k \in DOMAIN todo' : IsLine(todo'[k], t) => todo'[k].entry.on = Items(log, t)
    BY <1>2 DEF CaughtUp
  <2> QED
    BY <1>3, <2>1, <2>2, <2>3 DEF CaughtUp
<1>5. CASE IsLine(Head(todo), t)
  <2> DEFINE e == Head(todo).entry
  <2>1. e.t = t /\ e.on = Items(log, t) /\ Append(e.on, e.item) = Held(t)
    BY <1>2, <1>5 DEF CaughtUp, Owed, IsLine
  <2>2. log' = Append(log, e)
    BY <1>1, <1>5 DEF WriteFile, WriteHead, WriteLine, WriteReward, Appended, EndAfter, IsLine
  <2>3. e \in Entries /\ log \in Seq(Entries)
    BY <1>1, <1>5, QueuedLine DEF Types, IsLine
  <2> HIDE DEF e
  <2>4. Items(Append(log, e), t) = Append(Items(log, t), e.item)
    BY <2>1, <2>3, ItemsAppend
  <2>5. Items(log, t)' = Held(t)
    BY <2>1, <2>2, <2>4
  <2>6. \A k \in DOMAIN todo' : ~IsLine(todo'[k], t)
    BY <1>2, <1>5 DEF Owed
  <2> QED
    BY <1>3, <2>5, <2>6 DEF CaughtUp, LineDue
<1> QED
  BY <1>4, <1>5

\* With nothing queued before, a new line extends what is in the log.
LEMMA CaughtNew ==
    ASSUME NEW t, todo = <<>>, CaughtUp(t), log' = log,
           \A k \in DOMAIN todo' : IsLine(todo'[k], t) => todo'[k].entry.on = Held(t),
           ~LineDue(t)' => Held(t)' = Held(t)
    PROVE  CaughtUp(t)'
<1>1. Items(log, t) = Held(t)
  BY NoQueue DEF CaughtUp, LineDue
<1> QED
  BY <1>1 DEF CaughtUp

\* But for a resume, the memory only grows.
LEMMA MemoryGrows ==
    ASSUME Types, [Next]_vars, ~Resume, NEW t \in Linked
    PROVE  /\ Held(t) \in Seq(ItemSet(t))
           /\ Held(t)' = Held(t) \/ \E e \in ItemSet(t) : Held(t)' = Append(Held(t), e)
<1>1. /\ t = "ring" => Held(t) = ledger /\ Held(t)' = ledger' /\ ItemSet(t) = Ring
      /\ t = "slot_header" =>
            Held(t) = slotHeaders /\ Held(t)' = slotHeaders' /\ ItemSet(t) = 1..MaxSlot
      /\ t = "header" => Held(t) = headers /\ Held(t)' = headers' /\ ItemSet(t) = 1..MaxSlot
      /\ t \in {"ring", "slot_header", "header"}
  BY DEF Held, ItemSet, Linked
<1>2. Held(t) \in Seq(ItemSet(t))
  BY <1>1 DEF Types
<1>3. CASE ProduceSlot
  <2>1. next \in 1..MaxSlot
    BY <1>3, BoundAssumption DEF ProduceSlot, Types
  <2>2. SlotRing(next) \in Ring
    BY <2>1, BoundAssumption DEF SlotRing, Ring
  <2>3. /\ ledger' = Append(ledger, SlotRing(next)) /\ slotHeaders' = Append(slotHeaders, next)
        /\ headers' = Append(headers, next)
    BY <1>3 DEF ProduceSlot
  <2> QED
    BY <1>1, <1>2, <2>1, <2>2, <2>3
<1>4. CASE SealRpc \/ SealUnlogged
  <2>1. [kind |-> "seal", slot |-> 0] \in Ring /\ [kind |-> "unlogged", slot |-> 0] \in Ring
    BY BoundAssumption DEF Ring
  <2>2. /\ \/ ledger' = Append(ledger, [kind |-> "seal", slot |-> 0])
           \/ ledger' = Append(ledger, [kind |-> "unlogged", slot |-> 0])
        /\ slotHeaders' = slotHeaders /\ headers' = headers
    BY <1>4 DEF SealRpc, SealUnlogged
  <2> QED
    BY <1>1, <1>2, <2>1, <2>2
<1>5. CASE SkipSlot \/ ChallengeRpc \/ UNCHANGED memory
  BY <1>1, <1>2, <1>5 DEF SkipSlot, ChallengeRpc, memory
<1>6. CASE Boot \/ Write \/ Crash \/ UNCHANGED vars
  <2>1. UNCHANGED memory
    BY <1>6, WriteCases, CrashCases DEF Boot, vars
  <2> QED
    BY <1>5, <2>1
<1> QED
  BY <1>3, <1>4, <1>5, <1>6 DEF Next

\* Only a resume makes an unlogged ring go away.
LEMMA LoggedBefore ==
    ASSUME Types, [Next]_vars, ~Resume, Logged'
    PROVE  Logged
<1>1. /\ ledger \in Seq(Ring)
      /\ ledger' = ledger \/ \E r \in Ring : ledger' = Append(ledger, r)
  <2>1. "ring" \in Linked
    BY DEF Linked
  <2>2. /\ Held("ring") \in Seq(ItemSet("ring"))
        /\ \/ Held("ring")' = Held("ring")
           \/ \E e \in ItemSet("ring") : Held("ring")' = Append(Held("ring"), e)
    BY <2>1, MemoryGrows
  <2> QED
    BY <2>2 DEF Held, ItemSet
<1>2. DOMAIN ledger \subseteq DOMAIN ledger' /\ \A k \in DOMAIN ledger : ledger'[k] = ledger[k]
  <2>1. CASE ledger' = ledger
    BY <2>1
  <2>2. CASE ledger' # ledger
    <3>1. PICK r \in Ring : ledger' = Append(ledger, r)
      BY <1>1, <2>2
    <3> QED
      BY <1>1, <3>1, Before
  <2> QED
    BY <2>1, <2>2
<1> QED
  BY <1>2 DEF Logged

\* The log still catches up with the memory.
LEMMA CaughtStep ==
    ASSUME Types, BootOrder, Owed, Caught, [Next]_vars
    PROVE  Caught'
<1> SUFFICES ASSUME up', tail' # "broken"
             PROVE  /\ CaughtUp("slot_header")' /\ CaughtUp("header")'
                    /\ Logged' => CaughtUp("ring")'
  BY DEF Caught
<1>k. "slot_header" \in Linked /\ "header" \in Linked /\ "ring" \in Linked
  BY DEF Linked
<1>h. /\ Held("slot_header") = slotHeaders /\ Held("header") = headers /\ Held("ring") = ledger
      /\ Held("slot_header")' = slotHeaders' /\ Held("header")' = headers'
      /\ Held("ring")' = ledger'
  BY DEF Held
<1>1. CASE Boot
  <2>1. /\ DOMAIN todo' = 1..4 /\ todo'[4].what = "head" /\ UNCHANGED memory
        /\ \A k \in 1..3 : todo'[k].what = "file"
    BY <1>1, BootQueue, WriteNames
  <2>2. \A k \in DOMAIN todo' : todo'[k].what # "log"
    <3>1. \A k \in 1..4 : k = 4 \/ k \in 1..3
      OBVIOUS
    <3> QED
      BY <2>1, <3>1
  <2>3. log' = <<>> /\ \A t \in Linked : Held(t)' = <<>>
    BY <1>1, <2>1 DEF Boot, BootOrder, Blank, disk, memory, Held
  <2> QED
    BY <1>k, <2>2, <2>3, ItemsEmpty DEF CaughtUp, IsLine, LineDue
<1>2. CASE Resume
  <2>1. /\ todo' = <<>> /\ log' = log /\ ledger' = Items(log, "ring")
        /\ slotHeaders' = Items(log, "slot_header") /\ headers' = Items(log, "header")
    BY <1>2 DEF Resume, BootOrder, disk
  <2> QED
    BY <1>h, <2>1, NoQueue DEF CaughtUp
<1>3. CASE Write
  <2>1. up /\ tail # "broken" /\ ledger' = ledger
    BY <1>3, WriteCases DEF WriteFile, WriteHead, WriteLine, WriteReward, EndAfter, memory
  <2>2. Logged' => Logged
    BY <2>1 DEF Logged
  <2> QED
    BY <1>3, <1>k, <2>1, <2>2, CaughtWrite DEF Caught
<1>4. CASE Crash
  BY <1>4, CrashCases
<1>5. CASE ProduceSlot \/ SkipSlot \/ SealRpc \/ SealUnlogged \/ ChallengeRpc
  <2>1. up /\ todo = <<>> /\ log' = log /\ tail' = tail
    BY <1>5 DEF ProduceSlot, SkipSlot, SealRpc, SealUnlogged, ChallengeRpc, Ready, disk
  <2>2. CaughtUp("slot_header") /\ CaughtUp("header") /\ (Logged => CaughtUp("ring"))
    BY <2>1 DEF Caught
  <2>3. Logged' => Logged
    <3>1. ~Resume
      BY <2>1 DEF Resume
    <3> QED
      BY <3>1, LoggedBefore
  <2>4. CASE ProduceSlot
    <3> DEFINE q == todo'
    <3>1. SlotQueue(q)
      BY <2>4, NewSlotQueue
    <3> HIDE DEF q
    <3>2. \A k \in DOMAIN q : k = 1 \/ k = 2 \/ k = 3 \/ k = 4 \/ k = 5 \/ k = 6
      BY <3>1 DEF SlotQueue
    <3>3. /\ q[1].what = "log" /\ q[1].entry.t = "ring" /\ q[2].what = "head"
          /\ q[3].what = "log" /\ q[3].entry.t = "slot_header"
          /\ q[4].what = "log" /\ q[4].entry.t = "header"
          /\ q[5].what = "reward" /\ q[6].what = "reward"
          /\ 1 \in DOMAIN q /\ 3 \in DOMAIN q /\ 4 \in DOMAIN q
      BY <3>1, WriteNames DEF SlotQueue
    <3>4. \A k \in DOMAIN q, t \in Linked : IsLine(q[k], t) => q[k].entry.on = Held(t)
      BY <1>h, <3>1, <3>2, <3>3, SlotQueueFields DEF IsLine, Linked
    <3>5. \A t \in Linked : LineDue(t)'
      BY <3>3 DEF LineDue, IsLine, Linked, q
    <3> QED
      BY <1>k, <2>1, <2>2, <2>3, <3>4, <3>5, CaughtNew DEF q
  <2>5. CASE SealRpc
    <3> DEFINE q == todo'
    <3>1. SealQueue(q)
      BY <2>5, NewSealQueue
    <3> HIDE DEF q
    <3>2. \A k \in DOMAIN q : k = 1 \/ k = 2
      BY <3>1 DEF SealQueue
    <3>3. /\ q[1].what = "log" /\ q[1].entry.t = "ring" /\ q[2].what = "head"
          /\ 1 \in DOMAIN q
      BY <3>1, WriteNames DEF SealQueue
    <3>4. \A k \in DOMAIN q, t \in Linked : IsLine(q[k], t) => q[k].entry.on = Held(t)
      BY <1>h, <3>1, <3>2, <3>3, SealQueueFields DEF IsLine, Linked
    <3>5. LineDue("ring")'
      BY <3>3 DEF LineDue, IsLine, q
    <3>6. slotHeaders' = slotHeaders /\ headers' = headers
      BY <2>5 DEF SealRpc
    <3> QED
      BY <1>h, <1>k, <2>1, <2>2, <2>3, <3>4, <3>5, <3>6, CaughtNew DEF q
  <2>6. CASE SkipSlot
    BY <1>h, <2>1, <2>2, <2>3, <2>6, CaughtNew, NoQueue DEF SkipSlot
  <2>7. CASE SealUnlogged
    <3>1. /\ todo' = <<>> /\ slotHeaders' = slotHeaders /\ headers' = headers
          /\ ledger' = Append(ledger, [kind |-> "unlogged", slot |-> 0])
      BY <2>1, <2>7 DEF SealUnlogged
    <3>2. ~Logged'
      <4>1. ledger \in Seq(Ring) /\ [kind |-> "unlogged", slot |-> 0] \in Ring
        BY BoundAssumption DEF Types, Ring
      <4>2. Len(ledger) + 1 \in DOMAIN ledger' /\ ledger'[Len(ledger) + 1].kind = "unlogged"
        BY <3>1, <4>1, Before
      <4> QED
        BY <4>2 DEF Logged
    <3> QED
      BY <1>h, <2>1, <2>2, <3>1, <3>2, CaughtNew, NoQueue
  <2>8. CASE ChallengeRpc
    <3>1. \A k \in DOMAIN todo', t \in Linked : ~IsLine(todo'[k], t)
      BY <2>8, NewChallengeQueue, WriteNames DEF IsLine, Linked
    <3>2. slotHeaders' = slotHeaders /\ headers' = headers /\ ledger' = ledger
      BY <2>8 DEF ChallengeRpc
    <3> QED
      BY <1>h, <1>k, <2>1, <2>2, <2>3, <3>1, <3>2, CaughtNew
  <2> QED
    BY <1>5, <2>4, <2>5, <2>6, <2>7, <2>8
<1>6. CASE UNCHANGED vars
  BY <1>6 DEF vars, disk, memory, Caught, CaughtUp, LineDue, Held, Logged
<1> QED
  BY <1>1, <1>2, <1>3, <1>4, <1>5, <1>6 DEF Next

-----------------------------------------------------------------------------
\* The last pass is still in the log or on its way.
LEMMA PassKeptStep ==
    ASSUME Types, BootOrder, PassKept, [Next]_vars
    PROVE  PassKept'
<1> DEFINE C == Items(log, "challenge")
<1> SUFFICES ASSUME up', tail' # "broken"
             PROVE  \/ lastPass' \in {0} \cup ToSet(C')
                    \/ \E k \in DOMAIN todo' :
                          todo'[k] = Line(Entry("challenge", lastPass', <<>>))
  BY DEF PassKept
<1>1. C \in Seq(Nat)
  BY LogItems DEF Types
<1>2. ToSet(C) \subseteq ToSet(C')
  <2>1. CASE log' = log
    BY <2>1
  <2>2. CASE log' # log
    <3>1. todo # <<>> /\ Head(todo).what = "log" /\ log' = Append(log, Head(todo).entry)
      BY <2>2, LogStep DEF LogSteps
    <3>2. Head(todo).entry \in Entries /\ log \in Seq(Entries)
      BY <3>1, QueuedLine DEF Types
    <3>3. C' = IF Head(todo).entry.t = "challenge" THEN Append(C, Head(todo).entry.item) ELSE C
      BY <3>1, <3>2, ItemsAppend
    <3>4. CASE Head(todo).entry.t = "challenge"
      <4> DEFINE p == Head(todo).entry.item
      <4>1. p \in Nat
        BY <3>2, <3>4, EntryKinds
      <4>2. C' = Append(C, p)
        BY <3>3, <3>4
      <4> HIDE DEF p, C
      <4>3. ToSet(Append(C, p)) = ToSet(C) \cup {p}
        BY <1>1, <4>1, ToSetAppend
      <4> QED
        BY <4>2, <4>3
    <3> QED
      BY <3>3, <3>4
  <2> QED
    BY <2>1, <2>2
<1>3. CASE Write
  <2>1. /\ up /\ todo # <<>> /\ todo' = Tail(todo) /\ lastPass' = lastPass
        /\ \/ WriteFile(Head(todo)) \/ WriteHead(Head(todo))
           \/ WriteLine(Head(todo)) \/ WriteReward(Head(todo))
    BY <1>3, WriteCases DEF memory
  <2>2. tail # "broken"
    BY <2>1 DEF WriteFile, WriteHead, WriteLine, WriteReward, EndAfter
  <2>3. CASE lastPass \in {0} \cup ToSet(C)
    BY <1>2, <2>1, <2>3
  <2>4. ASSUME NEW k \in DOMAIN todo, todo[k] = Line(Entry("challenge", lastPass, <<>>))
        PROVE  \/ lastPass' \in {0} \cup ToSet(C')
               \/ \E j \in DOMAIN todo' :
                     todo'[j] = Line(Entry("challenge", lastPass', <<>>))
    <3>1. CASE k # 1
      BY <2>1, <2>4, <3>1, LinesLeft
    <3>2. CASE k = 1
      <4> DEFINE e == Entry("challenge", lastPass, <<>>)
      <4>1. Head(todo) = Line(e)
        BY <2>1, <2>4, <3>2, QueuedLine
      <4>2. Head(todo).what = "log" /\ Head(todo).entry = e
        BY <4>1, WriteNames
      <4>3. log' = Append(log, e)
        BY <2>1, <4>2 DEF WriteFile, WriteHead, WriteLine, WriteReward, Appended, EndAfter
      <4>4. e \in Entries /\ log \in Seq(Entries)
        BY <2>1, <4>2, QueuedLine DEF Types
      <4>5. e.t = "challenge" /\ e.item = lastPass
        BY WriteNames
      <4> HIDE DEF e
      <4>6. C' = Append(C, lastPass)
        BY <4>3, <4>4, <4>5, ItemsAppend
      <4>7. ToSet(Append(C, lastPass)) = ToSet(C) \cup {lastPass}
        <5>1. lastPass \in Nat
          BY DEF Types
        <5> HIDE DEF C
        <5> QED
          BY <1>1, <5>1, ToSetAppend
      <4> QED
        BY <2>1, <4>6, <4>7
    <3> QED
      BY <3>1, <3>2
  <2> QED
    BY <2>1, <2>2, <2>3, <2>4 DEF PassKept
<1>4. CASE Crash
  BY <1>4, CrashCases
<1>5. CASE Boot
  BY <1>5, BootQueue DEF Boot, BootOrder, Blank, memory
<1>6. CASE Resume
  <2>1. log' = log /\ lastPass' = ReplayedPass
    BY <1>6 DEF Resume, disk
  <2> QED
    BY <2>1, PassType DEF ReplayedPass, Types
<1>7. CASE ChallengeRpc
  BY <1>7, NewChallengeQueue
<1>8. CASE ProduceSlot \/ SkipSlot \/ SealRpc \/ SealUnlogged
  <2>1. up /\ todo = <<>> /\ log' = log /\ tail' = tail /\ lastPass' = lastPass
    BY <1>8 DEF ProduceSlot, SkipSlot, SealRpc, SealUnlogged, Ready, disk
  <2> QED
    BY <2>1, NoQueue DEF PassKept
<1>9. CASE UNCHANGED vars
  BY <1>9 DEF vars, disk, memory, PassKept
<1> QED
  BY <1>3, <1>4, <1>5, <1>6, <1>7, <1>8, <1>9 DEF Next

\* A linked log is still a past of the memory.
LEMMA LogIsPastStep ==
    ASSUME Types, BootOrder, Owed, LogIsPast, [Next]_vars
    PROVE  LogIsPast'
<1> SUFFICES ASSUME Links', NEW t \in Linked PROVE IsPrefix(Items(log', t), Held(t)')
  BY DEF LogIsPast
<1>0. log \in Seq(Entries) /\ Items(log, t) \in Seq(ItemSet(t))
  BY LogItems DEF Types
<1>1. CASE Resume
  <2>1. log' = log /\ Held(t)' = Items(log, t)
    BY <1>1 DEF Resume, disk, Held, Linked
  <2> QED
    BY <1>0, <2>1, PrefixRefl
<1>2. CASE ~Resume /\ log' = log
  <2>1. Links
    BY <1>2, NamedParts DEF Links
  <2>2. IsPrefix(Items(log, t), Held(t))
    BY <2>1 DEF LogIsPast
  <2>3. /\ Held(t) \in Seq(ItemSet(t))
        /\ Held(t)' = Held(t) \/ \E e \in ItemSet(t) : Held(t)' = Append(Held(t), e)
    BY <1>2, MemoryGrows
  <2>4. IsPrefix(Items(log, t), Held(t)')
    BY <1>0, <2>2, <2>3, PrefixAppend
  <2> QED
    BY <1>2, <2>4
<1>3. CASE log' # log
  <2> DEFINE e == Head(todo).entry
  <2>1. /\ todo # <<>> /\ Head(todo).what = "log" /\ log' = Append(log, e)
        /\ UNCHANGED memory
    BY <1>3, LogStep DEF LogSteps
  <2>2. e \in Entries /\ Head(todo) = todo[1] /\ 1 \in DOMAIN todo
    BY <2>1, QueuedLine
  <2>3. Held(t)' = Held(t)
    BY <2>1 DEF memory, Held
  <2>4. LinksOf(Append(log, e))
    BY <2>1 DEF Links, LinksOf
  <2>5. IsLine(todo[1], t) <=> e.t = t
    BY <2>1, <2>2 DEF IsLine
  <2>6. IsLine(todo[1], t) => Append(e.on, e.item) = Held(t)
    BY <2>2 DEF Owed
  <2> HIDE DEF e
  <2>7. LinksOf(log) /\ (e.t # "challenge" => e.on = Items(log, e.t))
    BY <1>0, <2>2, <2>4, LinksAppend
  <2>8. Items(log', t) = IF e.t = t THEN Append(Items(log, t), e.item) ELSE Items(log, t)
    BY <1>0, <2>1, <2>2, ItemsAppend
  <2>9. Held(t) \in Seq(ItemSet(t))
    BY DEF Types, Held, ItemSet
  <2>10. CASE e.t = t
    <3>1. e.on = Items(log, t)
      BY <2>7, <2>10 DEF Linked
    <3>2. Items(log', t) = Held(t)
      BY <2>5, <2>6, <2>8, <2>10, <3>1
    <3> QED
      BY <2>3, <2>9, <3>2, PrefixRefl
  <2>11. CASE e.t # t
    <3>1. IsPrefix(Items(log, t), Held(t))
      BY <2>7, NamedParts DEF LogIsPast
    <3> QED
      BY <2>3, <2>8, <2>11, <3>1
  <2> QED
    BY <2>10, <2>11
<1> QED
  BY <1>1, <1>2, <1>3

\* A log of logged rings still replays.
LEMMA LogReplaysStep ==
    ASSUME Types, BootOrder, Owed, Caught, LogReplays, [Next]_vars
    PROVE  LogReplays'
<1> SUFFICES ASSUME Logged', tail' # "broken"
             PROVE  Links' /\ IsPrefix(head', Rings')
  BY DEF LogReplays
<1>0. log \in Seq(Entries) /\ Rings \in Seq(Ring) /\ head \in Seq(Ring)
  BY LogItems DEF Types, Rings
<1>1. CASE Resume
  <2>1. UNCHANGED disk /\ Replays
    BY <1>1 DEF Resume
  <2>2. Links /\ ("head" \in files => IsPrefix(head, Rings))
    BY <2>1 DEF Replays, Links, Rings
  <2>3. IsPrefix(head, Rings)
    BY <1>0, <2>2, PrefixEmpty DEF BootOrder
  <2> QED
    BY <2>1, <2>2, <2>3 DEF disk, Links, Rings
<1>2. CASE ~Resume
  <2>1. Logged
    BY <1>2, LoggedBefore
  <2>2. tail # "broken"
    BY LogStep DEF LogSteps
  <2>3. Links /\ IsPrefix(head, Rings)
    BY <2>1, <2>2 DEF LogReplays
  <2>4. CASE log' = log
    <3>1. CASE Write /\ WriteHead(Head(todo))
      <4>1. up /\ todo # <<>> /\ head' = Head(todo).chain /\ Head(todo).what = "head"
        BY <3>1, WriteCases DEF WriteHead
      <4>2. Head(todo) = todo[1] /\ 1 \in DOMAIN todo
        BY <4>1, QueuedLine
      <4>3. head' = ledger
        BY <4>1, <4>2 DEF Owed
      <4>4. ~LineDue("ring")
        BY <4>1, <4>2 DEF LineDue, Owed, IsLine
      <4>5. Rings = ledger
        BY <2>1, <2>2, <4>1, <4>4 DEF Caught, CaughtUp, Rings, Held
      <4> QED
        BY <1>0, <2>3, <2>4, <4>3, <4>5, PrefixRefl DEF Links, Rings
    <3>2. CASE ~(Write /\ WriteHead(Head(todo)))
      <4>1. head' = head
        <5>1. CASE Write
          BY <5>1, <3>2, WriteCases DEF WriteFile, WriteLine, WriteReward
        <5>2. CASE Crash
          BY <5>2, CrashCases DEF TearLine, TearReward, disk
        <5> QED
          BY <5>1, <5>2, <1>2 DEF Next, vars, disk, Boot, ProduceSlot, SkipSlot,
                SealRpc, SealUnlogged, ChallengeRpc
      <4> QED
        BY <2>3, <2>4, <4>1 DEF Links, Rings
    <3> QED
      BY <3>1, <3>2
  <2>5. CASE log' # log
    <3> DEFINE e == Head(todo).entry
    <3>1. /\ up /\ todo # <<>> /\ Head(todo).what = "log" /\ log' = Append(log, e)
          /\ head' = head
      BY <2>5, LogStep DEF LogSteps
    <3>2. e \in Entries /\ Head(todo) = todo[1] /\ 1 \in DOMAIN todo
      BY <3>1, QueuedLine
    <3>3. e.t # "challenge" => e.t \in Linked
      BY <3>2, EntryKinds
    <3>4. \A t \in Linked : CaughtUp(t)
      BY <2>1, <2>2, <3>1 DEF Caught, Linked
    <3>5. e.t # "challenge" => e.on = Items(log, e.t)
      BY <3>1, <3>2, <3>3, <3>4 DEF CaughtUp, IsLine
    <3> HIDE DEF e
    <3>6. LinksOf(log')
      BY <1>0, <2>3, <3>1, <3>2, <3>5, NamedParts, LinksAppend
    <3>7. Items(log', "ring") =
             IF e.t = "ring" THEN Append(Items(log, "ring"), e.item) ELSE Items(log, "ring")
      BY <1>0, <3>1, <3>2, ItemsAppend
    <3>8. e.t = "ring" => e.item \in Ring
      BY <3>2, EntryKinds DEF Linked, ItemSet
    <3>9. IsPrefix(head, Items(log', "ring"))
      BY <1>0, <2>3, <3>7, <3>8, PrefixAppend DEF Rings
    <3> QED
      BY <3>1, <3>6, <3>9 DEF Links, LinksOf, Rings
  <2> QED
    BY <2>4, <2>5
<1> QED
  BY <1>1, <1>2

-----------------------------------------------------------------------------
\* With nothing queued no credit is lacking.
LEMMA BehindNothing ==
    ASSUME NEW R \in Seq(Credit), NEW C \in Seq(Credit), Behind(R, C, <<>>), IsPrefix(R, C)
    PROVE  R = C
<1>1. Len(R) \in Nat /\ Len(C) \in Nat /\ Len(<<>>) = 0
  BY LenProperties, EmptySeq
<1>2. Len(C) = Len(R)
  BY <1>1 DEF Behind
<1>3. \A k \in 1..Len(R) : R[k] = C[k]
  BY PrefixMembers
<1> QED
  BY <1>2, <1>3, SeqEqual

\* With no credit queued none is lacking at first.
LEMMA BehindStart ==
    ASSUME NEW R \in Seq(Credit), NEW q \in Seq(WriteSet),
           \A k \in 1..Len(q) : q[k].what # "reward"
    PROVE  Behind(R, R, q)
<1>1. Len(R) \in Nat /\ Len(q) \in Nat
  BY LenProperties
<1>2. Len(q) \in 0..Len(q) /\ Len(R) = Len(R) + (Len(q) - Len(q))
  BY <1>1
<1>3. (Len(q) + 1)..Len(q) = {}
  BY <1>1
<1> QED
  BY <1>2, <1>3 DEF Behind

\* A write that is no credit is done.
LEMMA BehindSkip ==
    ASSUME NEW R \in Seq(Credit), NEW C \in Seq(Credit), NEW q \in Seq(WriteSet),
           q # <<>>, Head(q).what # "reward", Behind(R, C, q)
    PROVE  Behind(R, C, Tail(q))
<1>1. PICK n \in 0..Len(q) :
         /\ Len(C) = Len(R) + (Len(q) - n)
         /\ \A k \in 1..n : q[k].what # "reward"
         /\ \A k \in (n + 1)..Len(q) : q[k] = Reward(C[Len(R) + (k - n)])
  BY DEF Behind
<1>2. /\ Len(q) \in Nat \ {0} /\ Head(q) = q[1] /\ Len(Tail(q)) = Len(q) - 1
      /\ \A k \in 1..(Len(q) - 1) : Tail(q)[k] = q[k + 1]
      /\ Len(R) \in Nat /\ Len(C) \in Nat
  BY TailOfQueue, LenProperties
<1>3. n # 0
  <2> SUFFICES ASSUME n = 0 PROVE FALSE
    OBVIOUS
  <2>1. 1 \in (n + 1)..Len(q)
    BY <1>2
  <2>2. q[1].what = "reward"
    BY <1>1, <2>1, WriteNames
  <2> QED
    BY <1>2, <2>2
<1>4. n - 1 \in 0..Len(Tail(q)) /\ Len(C) = Len(R) + (Len(Tail(q)) - (n - 1))
  BY <1>1, <1>2, <1>3
<1>5. ASSUME NEW k \in 1..(n - 1) PROVE Tail(q)[k].what # "reward"
  <2>1. k \in 1..(Len(q) - 1) /\ k + 1 \in 1..n
    BY <1>2, <1>3
  <2> QED
    BY <1>1, <1>2, <2>1
<1>6. ASSUME NEW k \in ((n - 1) + 1)..Len(Tail(q))
      PROVE  Tail(q)[k] = Reward(C[Len(R) + (k - (n - 1))])
  <2>1. k \in 1..(Len(q) - 1) /\ k + 1 \in (n + 1)..Len(q) /\ (k + 1) - n = k - (n - 1)
    BY <1>2, <1>3
  <2> QED
    BY <1>1, <1>2, <2>1
<1> QED
  BY <1>4, <1>5, <1>6 DEF Behind

\* A credit is written.
LEMMA BehindTake ==
    ASSUME NEW R \in Seq(Credit), NEW C \in Seq(Credit), NEW q \in Seq(WriteSet),
           q # <<>>, Head(q).what = "reward", Behind(R, C, q), IsPrefix(R, C)
    PROVE  /\ Behind(Append(R, Head(q).credit), C, Tail(q))
           /\ IsPrefix(Append(R, Head(q).credit), C)
<1> DEFINE c == Head(q).credit
           S == Append(R, c)
<1>1. PICK n \in 0..Len(q) :
         /\ Len(C) = Len(R) + (Len(q) - n)
         /\ \A k \in 1..n : q[k].what # "reward"
         /\ \A k \in (n + 1)..Len(q) : q[k] = Reward(C[Len(R) + (k - n)])
  BY DEF Behind
<1>2. /\ Len(q) \in Nat \ {0} /\ Head(q) = q[1] /\ Len(Tail(q)) = Len(q) - 1
      /\ \A k \in 1..(Len(q) - 1) : Tail(q)[k] = q[k + 1]
      /\ Len(R) \in Nat /\ Len(C) \in Nat
  BY TailOfQueue, LenProperties
<1>3. c \in Credit
  BY TailOfQueue, WriteKinds
<1>4. n = 0
  BY <1>1, <1>2
<1>5. c = C[Len(R) + 1]
  <2>1. 1 \in (n + 1)..Len(q) /\ 1 - n = 1
    BY <1>2, <1>4
  <2> QED
    BY <1>1, <1>2, <2>1, WriteNames
<1>6. /\ S \in Seq(Credit) /\ Len(S) = Len(R) + 1 /\ S[Len(R) + 1] = c
      /\ \A k \in 1..Len(R) : S[k] = R[k]
  BY <1>3, AppendProperties
<1> HIDE DEF c, S
<1>7. IsPrefix(S, C)
  <2>1. \A k \in 1..Len(R) : R[k] = C[k]
    BY PrefixMembers
  <2>2. \A k \in 1..(Len(R) + 1) : k \in 1..Len(R) \/ k = Len(R) + 1
    BY <1>2
  <2>3. Len(S) <= Len(C)
    BY <1>1, <1>2, <1>4, <1>6
  <2>4. \A k \in 1..Len(S) : S[k] = C[k]
    BY <1>5, <1>6, <2>1, <2>2
  <2> QED
    BY <1>6, <2>3, <2>4, PrefixMembers
<1>8. 0 \in 0..Len(Tail(q)) /\ Len(C) = Len(S) + (Len(Tail(q)) - 0)
  BY <1>1, <1>2, <1>4, <1>6
<1>9. ASSUME NEW k \in (0 + 1)..Len(Tail(q))
      PROVE  Tail(q)[k] = Reward(C[Len(S) + (k - 0)])
  <2>1. k \in 1..(Len(q) - 1) /\ k + 1 \in (n + 1)..Len(q)
        /\ Len(R) + ((k + 1) - n) = Len(S) + (k - 0)
    BY <1>2, <1>4, <1>6
  <2> QED
    BY <1>1, <1>2, <2>1
<1>10. Behind(S, C, Tail(q))
  <2>1. \A k \in 1..0 : Tail(q)[k].what # "reward"
    <3>1. \A k \in 1..0 : FALSE
      OBVIOUS
    <3> QED
      BY <3>1
  <2>2. \A k \in (0 + 1)..Len(Tail(q)) : Tail(q)[k] = Reward(C[Len(S) + (k - 0)])
    BY <1>9
  <2> QED
    BY <1>8, <2>1, <2>2 DEF Behind
<1> QED
  BY <1>7, <1>10 DEF S, c

\* The two credits of a slot, queued last.
LEMMA BehindSlot ==
    ASSUME NEW R \in Seq(Credit), NEW u \in Seq(Credit), Len(u) = 2,
           NEW q, Len(q) = 6, \A k \in 1..4 : q[k].what # "reward",
           q[5] = Reward(u[1]), q[6] = Reward(u[2])
    PROVE  Behind(R, R \o u, q) /\ IsPrefix(R, R \o u)
<1> DEFINE C == R \o u
<1>1. Len(R) \in Nat
  BY LenProperties
<1>2. /\ C \in Seq(Credit) /\ Len(C) = Len(R) + Len(u)
      /\ \A i \in 1..(Len(R) + Len(u)) : C[i] = IF i <= Len(R) THEN R[i] ELSE u[i - Len(R)]
  BY ConcatProperties
<1> HIDE DEF C
<1>3. C[Len(R) + 1] = u[1] /\ C[Len(R) + 2] = u[2]
  <2>1. /\ Len(R) + 1 \in 1..(Len(R) + 2) /\ ~(Len(R) + 1 <= Len(R))
        /\ Len(R) + 2 \in 1..(Len(R) + 2) /\ ~(Len(R) + 2 <= Len(R))
        /\ (Len(R) + 1) - Len(R) = 1 /\ (Len(R) + 2) - Len(R) = 2
    BY <1>1
  <2> QED
    BY <1>2, <2>1
<1>4. IsPrefix(R, C)
  <2>1. Len(R) <= Len(C) /\ \A k \in 1..Len(R) : R[k] = C[k]
    BY <1>1, <1>2
  <2> QED
    BY <1>2, <2>1, PrefixMembers
<1>5. 4 \in 0..Len(q) /\ Len(C) = Len(R) + (Len(q) - 4)
  BY <1>1, <1>2
<1>6. \A k \in (4 + 1)..Len(q) : q[k] = Reward(C[Len(R) + (k - 4)])
  <2>1. \A k \in (4 + 1)..Len(q) : (k = 5 /\ k - 4 = 1) \/ (k = 6 /\ k - 4 = 2)
    OBVIOUS
  <2> QED
    BY <1>3, <2>1
<1>7. Behind(R, C, q)
  BY <1>5, <1>6 DEF Behind
<1> QED
  BY <1>4, <1>7 DEF C

\* The credits lacking on disk are still queued, in order.
LEMMA CreditsQueuedStep ==
    ASSUME Types, Types', BootOrder, CreditsQueued, [Next]_vars
    PROVE  CreditsQueued'
<1>0. /\ rewards \in Seq(Credit) /\ credits \in Seq(Credit) /\ todo \in Seq(WriteSet)
      /\ rewards' \in Seq(Credit) /\ credits' \in Seq(Credit) /\ todo' \in Seq(WriteSet)
  BY DEF Types
<1>1. CASE Write
  <2>1. /\ up /\ todo # <<>> /\ todo' = Tail(todo) /\ credits' = credits
        /\ \/ WriteFile(Head(todo)) \/ WriteHead(Head(todo))
           \/ WriteLine(Head(todo)) \/ WriteReward(Head(todo))
    BY <1>1, WriteCases DEF memory
  <2>2. CASE Head(todo).what # "reward"
    <3>1. rewards' = rewards /\ rewardsTail' = rewardsTail
      BY <2>1, <2>2 DEF WriteFile, WriteHead, WriteLine, WriteReward
    <3> QED
      BY <1>0, <2>1, <2>2, <3>1, BehindSkip DEF CreditsQueued
  <2>3. CASE Head(todo).what = "reward" /\ rewardsTail = "whole"
    <3>1. rewards' = Append(rewards, Head(todo).credit)
      BY <2>1, <2>3 DEF WriteFile, WriteHead, WriteLine, WriteReward, Appended
    <3>2. Behind(rewards, credits, todo) /\ IsPrefix(rewards, credits)
      BY <2>1, <2>3 DEF CreditsQueued
    <3>3. /\ Behind(Append(rewards, Head(todo).credit), credits, Tail(todo))
          /\ IsPrefix(Append(rewards, Head(todo).credit), credits)
      BY <1>0, <2>1, <2>3, <3>2, BehindTake
    <3> QED
      BY <2>1, <3>1, <3>3 DEF CreditsQueued
  <2>4. CASE Head(todo).what = "reward" /\ rewardsTail # "whole"
    <3>1. rewards' = rewards /\ rewardsTail' = "broken"
      BY <2>1, <2>4 DEF WriteFile, WriteHead, WriteLine, WriteReward, Appended, EndAfter
    <3> QED
      BY <2>1, <3>1 DEF CreditsQueued
  <2> QED
    BY <2>2, <2>3, <2>4
<1>2. CASE Crash
  <2>1. up /\ up' = FALSE /\ credits' = credits
    BY <1>2, CrashCases DEF memory
  <2>2. CASE rewards' = rewards
    BY <2>1, <2>2 DEF CreditsQueued
  <2>3. CASE rewards' # rewards
    <3>1. /\ todo # <<>> /\ Head(todo).what = "reward" /\ rewardsTail = "whole"
          /\ rewards' = Append(rewards, Head(todo).credit)
      BY <2>3, RewardStep DEF RewardSteps
    <3>2. Behind(rewards, credits, todo) /\ IsPrefix(rewards, credits)
      BY <2>1, <3>1 DEF CreditsQueued
    <3>3. IsPrefix(Append(rewards, Head(todo).credit), credits)
      BY <1>0, <3>1, <3>2, BehindTake
    <3> QED
      BY <2>1, <3>1, <3>3 DEF CreditsQueued
  <2> QED
    BY <2>2, <2>3
<1>3. CASE Boot
  <2>1. /\ rewards' = <<>> /\ credits' = <<>> /\ Len(todo') = 4
        /\ todo'[4].what = "head" /\ \A k \in 1..3 : todo'[k].what = "file"
    BY <1>3, BootQueue, WriteNames DEF Boot, BootOrder, Blank, disk, memory
  <2>2. \A k \in 1..4 : k = 4 \/ k \in 1..3
    OBVIOUS
  <2>3. \A k \in 1..Len(todo') : todo'[k].what # "reward"
    BY <2>1, <2>2
  <2>4. credits' = rewards'
    BY <2>1
  <2> QED
    BY <1>0, <2>3, <2>4, BehindStart, PrefixRefl DEF CreditsQueued
<1>4. CASE Resume
  <2>1. credits' = rewards' /\ todo' = <<>>
    BY <1>4 DEF Resume, BootOrder, disk, Reloaded
  <2>2. \A k \in 1..Len(todo') : todo'[k].what # "reward"
    BY <2>1, EmptySeq
  <2> QED
    BY <1>0, <2>1, <2>2, BehindStart, PrefixRefl DEF CreditsQueued
<1>5. CASE ProduceSlot \/ SkipSlot \/ SealRpc \/ SealUnlogged \/ ChallengeRpc
  <2>1. up /\ todo = <<>> /\ rewards' = rewards /\ rewardsTail' = rewardsTail
    BY <1>5 DEF ProduceSlot, SkipSlot, SealRpc, SealUnlogged, ChallengeRpc, Ready, disk
  <2>2. rewardsTail # "broken" => rewards = credits
    BY <1>0, <2>1, BehindNothing DEF CreditsQueued
  <2>3. CASE ProduceSlot
    <3> DEFINE q == todo'
               u == SlotCredits(next)
    <3>1. SlotQueue(q) /\ credits' = credits \o u
      BY <2>3, NewSlotQueue DEF ProduceSlot
    <3>2. /\ Len(u) = 2 /\ u[1] = [slot |-> next, reason |-> "space"]
          /\ u[2] = [slot |-> next, reason |-> "treasury"]
      BY DEF SlotCredits
    <3>3. u \in Seq(Credit)
      <4>1. next \in 1..MaxSlot
        BY <2>3, BoundAssumption DEF ProduceSlot, Types
      <4>2. u[1] \in Credit /\ u[2] \in Credit
        BY <3>2, <4>1 DEF Credit, Reasons
      <4> QED
        BY <4>2 DEF SlotCredits
    <3> HIDE DEF q, u
    <3>4. q[1].what = "log" /\ q[2].what = "head" /\ q[3].what = "log" /\ q[4].what = "log"
      BY <3>1, WriteNames DEF SlotQueue
    <3>5. \A k \in 1..4 : q[k].what # "reward"
      <4>1. \A k \in 1..4 : k = 1 \/ k = 2 \/ k = 3 \/ k = 4
        OBVIOUS
      <4> QED
        BY <3>4, <4>1
    <3>6. Len(q) = 6 /\ q[5] = Reward(u[1]) /\ q[6] = Reward(u[2])
      BY <3>1, <3>2 DEF SlotQueue
    <3>7. Behind(credits, credits \o u, q) /\ IsPrefix(credits, credits \o u)
      BY <1>0, <3>2, <3>3, <3>5, <3>6, BehindSlot
    <3>8. IsPrefix(rewards, credits \o u)
      <4>1. /\ Len(rewards) <= Len(credits) /\ Len(rewards) \in Nat /\ Len(credits) \in Nat
            /\ \A k \in 1..Len(rewards) : rewards[k] = credits[k]
        BY <1>0, PrefixMembers, LenProperties DEF CreditsQueued
      <4>2. /\ Len(credits) <= Len(credits')
            /\ \A k \in 1..Len(credits) : credits[k] = credits'[k]
        BY <1>0, <3>1, <3>7, PrefixMembers
      <4>3. Len(credits') \in Nat
        BY <1>0, LenProperties
      <4>4. Len(rewards) <= Len(credits') /\ \A k \in 1..Len(rewards) : rewards[k] = credits'[k]
        BY <4>1, <4>2, <4>3
      <4>5. IsPrefix(rewards, credits')
        BY <1>0, <4>4, PrefixMembers
      <4> QED
        BY <3>1, <4>5
    <3> QED
      BY <2>1, <2>2, <3>1, <3>7, <3>8 DEF CreditsQueued, q
  <2>4. CASE ~ProduceSlot
    <3>1. credits' = credits
      BY <1>5, <2>4 DEF SkipSlot, SealRpc, SealUnlogged, ChallengeRpc
    <3>2. \A k \in 1..Len(todo') : todo'[k].what # "reward"
      <4>1. CASE SealRpc
        <5> DEFINE q == todo'
        <5>1. SealQueue(q)
          BY <4>1, NewSealQueue
        <5> HIDE DEF q
        <5>2. Len(q) = 2 /\ q[1].what = "log" /\ q[2].what = "head"
          BY <5>1, WriteNames DEF SealQueue
        <5>3. \A k \in 1..2 : k = 1 \/ k = 2
          OBVIOUS
        <5> QED
          BY <5>2, <5>3 DEF q
      <4>2. CASE ChallengeRpc
        <5>1. Len(todo') = 1 /\ todo'[1].what = "log"
          BY <4>2, NewChallengeQueue, WriteNames
        <5> QED
          BY <5>1
      <4>3. CASE SkipSlot \/ SealUnlogged
        <5>1. Len(todo') = 0
          BY <2>1, <4>3, EmptySeq DEF SkipSlot, SealUnlogged
        <5> QED
          BY <5>1
      <4> QED
        BY <1>5, <2>4, <4>1, <4>2, <4>3
    <3> QED
      BY <1>0, <2>1, <2>2, <3>1, <3>2, BehindStart DEF CreditsQueued
  <2> QED
    BY <2>3, <2>4
<1>6. CASE UNCHANGED vars
  BY <1>6 DEF vars, disk, memory, CreditsQueued
<1> QED
  BY <1>1, <1>2, <1>3, <1>4, <1>5, <1>6 DEF Next

-----------------------------------------------------------------------------
\* The rings of the log stay, and with them what was counted and what was in
\* them.
LEMMA RingsGrow ==
    ASSUME Types, [Next]_vars
    PROVE  /\ ToSet(Rings) \subseteq ToSet(Rings')
           /\ \A n : /\ SlotsOf(Rings, n) \in Nat /\ SlotsOf(Rings', n) \in Nat
                     /\ SlotsOf(Rings, n) <= SlotsOf(Rings', n)
<1>0. log \in Seq(Entries) /\ Rings \in Seq(Ring)
  BY LogItems DEF Types, Rings
<1>1. Rings' = Rings \/ \E r \in Ring : Rings' = Append(Rings, r)
  <2>1. CASE log' = log
    BY <2>1 DEF Rings
  <2>2. CASE log' # log
    <3>1. todo # <<>> /\ Head(todo).what = "log" /\ log' = Append(log, Head(todo).entry)
      BY <2>2, LogStep DEF LogSteps
    <3>2. Head(todo).entry \in Entries
      BY <3>1, QueuedLine
    <3>3. Rings' = IF Head(todo).entry.t = "ring" THEN Append(Rings, Head(todo).entry.item)
                   ELSE Rings
      BY <1>0, <3>1, <3>2, ItemsAppend DEF Rings
    <3>4. Head(todo).entry.t = "ring" => Head(todo).entry.item \in Ring
      BY <3>2, EntryKinds DEF Linked, ItemSet
    <3> QED
      BY <3>3, <3>4
  <2> QED
    BY <2>1, <2>2
<1>2. \A n : SlotsOf(Rings, n) = Occurrences(Rings, SlotRing(n))
             /\ SlotsOf(Rings', n) = Occurrences(Rings', SlotRing(n))
  BY DEF SlotsOf, Occurrences
<1>3. \A n : Occurrences(Rings, SlotRing(n)) \in Nat
  BY <1>0, OccurrencesType
<1>4. CASE Rings' = Rings
  BY <1>2, <1>3, <1>4
<1>5. CASE \E r \in Ring : Rings' = Append(Rings, r)
  <2>1. PICK r \in Ring : Rings' = Append(Rings, r)
    BY <1>5
  <2>2. ToSet(Rings') = ToSet(Rings) \cup {r}
    BY <1>0, <2>1, ToSetAppend
  <2>3. \A n : Occurrences(Rings', SlotRing(n)) =
           Occurrences(Rings, SlotRing(n)) + (IF r = SlotRing(n) THEN 1 ELSE 0)
    BY <1>0, <2>1, OccurrencesAppend
  <2>4. ASSUME NEW a \in Nat, NEW b, NEW c, b = a + (IF c THEN 1 ELSE 0)
        PROVE  b \in Nat /\ a <= b
    BY <2>4
  <2> QED
    BY <1>2, <1>3, <2>2, <2>3, <2>4
<1> QED
  BY <1>1, <1>4, <1>5

\* A ring's line that is written to a whole log adds the ring.
LEMMA RingWritten ==
    ASSUME Types, Write, RingDue, tail' # "broken"
    PROVE  /\ tail # "broken" /\ rewards' = rewards
           /\ Head(todo).entry.item \in ToSet(Rings')
           /\ \A n : Head(todo).entry.item = SlotRing(n) =>
                 SlotsOf(Rings', n) = SlotsOf(Rings, n) + 1
<1>0. log \in Seq(Entries) /\ Rings \in Seq(Ring)
  BY LogItems DEF Types, Rings
<1>1. todo # <<>> /\ Head(todo).what = "log" /\ Head(todo).entry.t = "ring"
  BY DEF RingDue, IsLine
<1>2. WriteLine(Head(todo))
  BY <1>1, WriteCases DEF WriteFile, WriteHead, WriteReward
<1>3. tail = "whole" /\ log' = Append(log, Head(todo).entry) /\ rewards' = rewards
  BY <1>2 DEF WriteLine, Appended, EndAfter
<1>4. Head(todo).entry \in Entries /\ Head(todo).entry.item \in Ring
  BY <1>1, QueuedLine, EntryKinds DEF Linked, ItemSet
<1>5. Rings' = Append(Rings, Head(todo).entry.item)
  BY <1>0, <1>1, <1>3, <1>4, ItemsAppend DEF Rings
<1>6. ToSet(Rings') = ToSet(Rings) \cup {Head(todo).entry.item}
  BY <1>0, <1>4, <1>5, ToSetAppend
<1>7. ASSUME NEW n, Head(todo).entry.item = SlotRing(n)
      PROVE  SlotsOf(Rings', n) = SlotsOf(Rings, n) + 1
  <2>1. Occurrences(Rings', SlotRing(n)) = Occurrences(Rings, SlotRing(n)) + 1
    BY <1>0, <1>4, <1>5, <1>7, OccurrencesAppend
  <2> QED
    BY <2>1 DEF SlotsOf, Occurrences
<1> QED
  BY <1>3, <1>6, <1>7

\* A step that leaves the process running writes, queues a ring first, queues
\* nothing that needs one, or changes neither queue nor disk.
NeedsNoRing(w) ==
    w.what # "reward" /\ ~IsLine(w, "slot_header") /\ ~IsLine(w, "header")

\* The ways a running home goes on.
LEMMA RunningSteps ==
    ASSUME Types, BootOrder, [Next]_vars, up'
    PROVE  \/ Write
           \/ RingDue'
           \/ UNCHANGED <<up, todo, disk>>
           \/ \A k \in DOMAIN todo' : NeedsNoRing(todo'[k])
<1>1. CASE Boot
  <2>1. /\ DOMAIN todo' = 1..4 /\ todo'[4].what = "head"
        /\ \A k \in 1..3 : todo'[k].what = "file"
    BY <1>1, BootQueue, WriteNames
  <2>2. \A k \in 1..4 : k = 4 \/ k \in 1..3
    OBVIOUS
  <2> QED
    BY <2>1, <2>2 DEF NeedsNoRing, IsLine
<1>2. CASE ChallengeRpc
  <2>1. /\ DOMAIN todo' = {1} /\ todo'[1].what = "log" /\ todo'[1].entry.t = "challenge"
    BY <1>2, NewChallengeQueue, WriteNames
  <2> QED
    BY <2>1 DEF NeedsNoRing, IsLine
<1>3. CASE ProduceSlot
  <2>1. SlotQueue(todo')
    BY <1>3, NewSlotQueue
  <2> DEFINE q == todo'
  <2>2. SlotQueue(q)
    BY <2>1
  <2> HIDE DEF q
  <2>3. q # <<>> /\ Head(q).what = "log" /\ Head(q).entry.t = "ring"
    BY <2>2, WriteNames DEF SlotQueue
  <2> QED
    BY <2>3 DEF q, RingDue, IsLine
<1>4. CASE SealRpc
  <2>1. SealQueue(todo')
    BY <1>4, NewSealQueue
  <2> DEFINE q == todo'
  <2>2. SealQueue(q)
    BY <2>1
  <2> HIDE DEF q
  <2>3. q # <<>> /\ Head(q).what = "log" /\ Head(q).entry.t = "ring"
    BY <2>2, WriteNames DEF SealQueue
  <2> QED
    BY <2>3 DEF q, RingDue, IsLine
<1>5. CASE Resume
  <2>1. todo' = <<>>
    BY <1>5 DEF Resume, BootOrder
  <2> QED
    BY <2>1, NoQueue
<1>6. CASE Crash
  BY <1>6, CrashCases
<1>7. CASE SkipSlot \/ SealUnlogged \/ UNCHANGED vars
  BY <1>7 DEF SkipSlot, SealUnlogged, vars
<1> QED
  BY <1>1, <1>2, <1>3, <1>4, <1>5, <1>6, <1>7 DEF Next

\* Appending a line to a whole log, or leaving log and queue alone, keeps
\* header lines behind the ones they follow.
LEMMA HeadersInTurnStep ==
    ASSUME Types, BootOrder, HeadersInTurn, [Next]_vars
    PROVE  HeadersInTurn'
<1>0. log \in Seq(Entries)
  BY DEF Types
<1>1. CASE todo' = <<>>
  BY <1>1, NoQueue DEF HeadersInTurn
<1>2. CASE todo' # <<>> /\ UNCHANGED todo
  <2>1. UNCHANGED <<log, tail>> \/ tail' = "broken"
    <3>1. CASE /\ todo # <<>> /\ todo' = Tail(todo)
      <4>1. Len(Tail(todo)) = Len(todo) - 1 /\ Len(todo) \in Nat
        BY <3>1, TailOfQueue DEF Types
      <4> QED
        BY <1>2, <3>1, <4>1
    <3> QED
      BY <1>2, <3>1, LogStep DEF LogSteps
  <2> QED
    BY <1>2, <2>1 DEF HeadersInTurn, Awaits
<1>3. CASE Write
  <2>1. todo # <<>> /\ todo' = Tail(todo)
    BY <1>3, WriteCases
  <2>2. /\ \A k \in DOMAIN todo' : k + 1 \in DOMAIN todo /\ todo'[k] = todo[k + 1] /\ k \in Nat \ {0}
        /\ Head(todo) = todo[1] /\ DOMAIN todo = 1..Len(todo) /\ Len(todo) \in Nat
        /\ DOMAIN todo' = 1..(Len(todo) - 1)
    BY <2>1, TailOfQueue DEF Types
  <2>3. ASSUME todo[1].what = "head", NEW e, Awaits(log, tail, e)
        PROVE  Awaits(log', tail', e)
    BY <1>3, <2>2, <2>3, WriteCases
       DEF WriteFile, WriteHead, WriteLine, WriteReward, Awaits
  <2>4. ASSUME todo[1].what = "log", NEW e, Follows(todo[1].entry, e)
        PROVE  Awaits(log', tail', e)
    <3>1. todo[1].entry \in Entries
      BY <2>1, <2>2, <2>4, QueuedLine
    <3>2. log' = Appended(log, tail, todo[1].entry) /\ tail' = EndAfter(tail)
      BY <1>3, <2>2, <2>4, WriteCases DEF WriteFile, WriteHead, WriteLine, WriteReward
    <3>3. tail' = "whole" => log' = Append(log, todo[1].entry)
      BY <3>2 DEF Appended, EndAfter
    <3>4. LET w == Append(log, todo[1].entry)
          IN  w # <<>> /\ w[Len(w)] = todo[1].entry
      BY <1>0, <3>1, AppendProperties, LenProperties
    <3> QED
      BY <2>4, <3>3, <3>4 DEF Awaits
  <2>5. ASSUME NEW k \in DOMAIN todo', IsLine(todo'[k], "header")
        PROVE  IF k = 1 THEN Awaits(log', tail', todo'[k].entry)
               ELSE todo'[k - 1].what = "log" /\ Follows(todo'[k - 1].entry, todo'[k].entry)
    <3>1. k + 1 \in DOMAIN todo /\ todo'[k] = todo[k + 1] /\ k \in Nat /\ k + 1 # 1 /\ (k + 1) - 1 = k
      BY <2>2
    <3>2. todo[k].what = "log" /\ Follows(todo[k].entry, todo[k + 1].entry)
      BY <2>5, <3>1 DEF HeadersInTurn
    <3>3. k # 1 => k - 1 \in DOMAIN todo' /\ todo'[k - 1] = todo[k]
      BY <2>2
    <3> QED
      BY <2>4, <3>1, <3>2, <3>3
  <2>6. ASSUME NEW k \in DOMAIN todo', IsLine(todo'[k], "slot_header")
        PROVE  \/ k = 1 /\ Awaits(log', tail', todo'[k].entry)
               \/ k = 2 /\ todo'[1].what = "head" /\ Awaits(log', tail', todo'[k].entry)
    <3>1. k + 1 \in DOMAIN todo /\ todo'[k] = todo[k + 1] /\ k \in Nat \ {0}
      BY <2>2
    <3>2. \/ k = 1 /\ todo[1].what = "head" /\ Awaits(log, tail, todo[k + 1].entry)
          \/ /\ k = 2 /\ todo[2].what = "head" /\ todo[1].what = "log"
             /\ Follows(todo[1].entry, todo[k + 1].entry)
      BY <2>6, <3>1 DEF HeadersInTurn
    <3>3. k = 2 => todo'[1] = todo[2]
      BY <2>2
    <3> QED
      BY <2>3, <2>4, <3>1, <3>2, <3>3
  <2> QED
    BY <2>5, <2>6 DEF HeadersInTurn
<1>4. CASE Boot \/ ChallengeRpc \/ SealRpc
  <2>1. \A k \in DOMAIN todo' : ~IsLine(todo'[k], "slot_header") /\ ~IsLine(todo'[k], "header")
    <3>1. CASE Boot
      <4>1. /\ DOMAIN todo' = 1..4 /\ todo'[4].what = "head"
            /\ \A k \in 1..3 : todo'[k].what = "file"
        BY <3>1, BootQueue, WriteNames
      <4>2. \A k \in 1..4 : k = 4 \/ k \in 1..3
        OBVIOUS
      <4> QED
        BY <4>1, <4>2 DEF IsLine
    <3>2. CASE ChallengeRpc
      BY <3>2, NewChallengeQueue, WriteNames DEF IsLine
    <3>3. CASE SealRpc
      <4> DEFINE q == todo'
      <4>1. SealQueue(q)
        BY <3>3, NewSealQueue
      <4> HIDE DEF q
      <4>2. \A k \in DOMAIN q : k = 1 \/ k = 2
        BY <4>1 DEF SealQueue
      <4>3. q[1].entry.t = "ring" /\ q[2].what = "head"
        BY <4>1, WriteNames DEF SealQueue
      <4> QED
        BY <4>2, <4>3 DEF IsLine, q
    <3> QED
      BY <1>4, <3>1, <3>2, <3>3
  <2> QED
    BY <2>1 DEF HeadersInTurn
<1>5. CASE ProduceSlot
  <2> DEFINE q == todo'
  <2>1. SlotQueue(q)
    BY <1>5, NewSlotQueue
  <2> HIDE DEF q
  <2>2. \A k \in DOMAIN q : k = 1 \/ k = 2 \/ k = 3 \/ k = 4 \/ k = 5 \/ k = 6
    BY <2>1 DEF SlotQueue
  <2>3. /\ q[1].what = "log" /\ q[1].entry.t = "ring" /\ q[1].entry.item = SlotRing(next)
        /\ q[2].what = "head"
        /\ q[3].what = "log" /\ q[3].entry.t = "slot_header" /\ q[3].entry.item = next
        /\ q[4].what = "log" /\ q[4].entry.t = "header" /\ q[4].entry.item = next
        /\ q[5].what = "reward" /\ q[6].what = "reward"
    BY <2>1, WriteNames DEF SlotQueue
  <2>4. Follows(q[1].entry, q[3].entry) /\ Follows(q[3].entry, q[4].entry)
    BY <2>3 DEF Follows
  <2>5. ASSUME NEW k \in DOMAIN q
        PROVE  /\ IsLine(q[k], "header") => k = 4
               /\ IsLine(q[k], "slot_header") => k = 3
    BY <2>2, <2>3 DEF IsLine
  <2> QED
    BY <2>3, <2>4, <2>5 DEF HeadersInTurn, q
<1>6. CASE todo' = todo
  BY <1>1, <1>2, <1>6
<1> QED
  BY <1>1, <1>3, <1>4, <1>5, <1>6, CrashCases
     DEF Next, vars, Resume, BootOrder, SkipSlot, SealUnlogged

\* So a logged header follows its line.
LEMMA HeadersFollowRingsStep ==
    ASSUME Types, HeadersInTurn, HeadersFollowRings, [Next]_vars
    PROVE  HeadersFollowRings'
<1>0. log \in Seq(Entries) /\ FollowsOf(log)
  BY NamedParts DEF Types
<1>1. CASE log' = log
  BY <1>1 DEF HeadersFollowRings
<1>2. CASE log' # log
  <2>1. /\ up /\ todo # <<>> /\ Head(todo).what = "log" /\ tail = "whole"
        /\ log' = Append(log, Head(todo).entry)
    BY <1>2, LogStep DEF LogSteps
  <2>2. Head(todo).entry \in Entries /\ 1 \in DOMAIN todo /\ Head(todo) = todo[1]
    BY <2>1, QueuedLine
  <2>3. Head(todo).entry.t \in {"slot_header", "header"} =>
           log # <<>> /\ Follows(log[Len(log)], Head(todo).entry)
    BY <2>1, <2>2 DEF HeadersInTurn, IsLine, Awaits
  <2>4. FollowsOf(log')
    BY <1>0, <2>1, <2>2, <2>3, FollowsAppend
  <2> QED
    BY <2>4 DEF HeadersFollowRings, FollowsOf
<1> QED
  BY <1>1, <1>2

\* A credit is its slot and reason, and a queued one the write of it.
LEMMA CreditParts ==
    /\ \A c \in Credit : /\ c.slot \in 1..MaxSlot /\ c.reason \in Reasons
                         /\ c = [slot |-> c.slot, reason |-> c.reason]
    /\ \A v, w \in WriteSet :
          v.what = "reward" /\ w.what = "reward" /\ v.credit = w.credit => v = w
<1>1. ASSUME NEW c \in Credit
      PROVE  /\ c.slot \in 1..MaxSlot /\ c.reason \in Reasons
             /\ c = [slot |-> c.slot, reason |-> c.reason]
  BY DEF Credit
<1>2. ASSUME NEW w \in WriteSet, w.what = "reward"
      PROVE  w = [what |-> "reward", credit |-> w.credit]
  BY <1>2 DEF WriteSet, FileWrite, HeadWrite, LogWrite, RewardWrite
<1> QED
  BY <1>1, <1>2

\* What is paid after a credit more, and after none.
LEMMA PaidAfter ==
    ASSUME Types, NEW n, NEW reason
    PROVE  /\ Paid(n, reason) \in Nat
           /\ rewards' = rewards => Paid(n, reason)' = Paid(n, reason)
           /\ \A c \in Credit : rewards' = Append(rewards, c) =>
                 Paid(n, reason)' = Paid(n, reason)
                    + (IF c = [slot |-> n, reason |-> reason] THEN 1 ELSE 0)
<1>1. rewards \in Seq(Credit)
  BY DEF Types
<1> DEFINE v == [slot |-> n, reason |-> reason]
<1>2. Paid(n, reason) = Occurrences(rewards, v) /\ Paid(n, reason)' = Occurrences(rewards', v)
  BY DEF Paid, Occurrences
<1> HIDE DEF v
<1>3. Occurrences(rewards, v) \in Nat
  BY <1>1, OccurrencesType
<1>4. ASSUME NEW c \in Credit, rewards' = Append(rewards, c)
      PROVE  Occurrences(rewards', v) = Occurrences(rewards, v) + (IF c = v THEN 1 ELSE 0)
  BY <1>1, <1>4, OccurrencesAppend
<1> QED
  BY <1>2, <1>3, <1>4 DEF v

\* A queued credit still has a ring to itself.
LEMMA RoomForCreditStep ==
    ASSUME Types, BootOrder, Owed, OfOneSlot, RoomForCredit, CreditsAreBacked, [Next]_vars
    PROVE  RoomForCredit'
<1> SUFFICES ASSUME up', ~RingDue', tail' # "broken", NEW k \in DOMAIN todo',
                    todo'[k].what = "reward",
                    NEW n, n = todo'[k].credit.slot,
                    NEW reason, reason = todo'[k].credit.reason
             PROVE  Paid(n, reason)' + 1 <= SlotsOf(Rings', n)
  BY DEF RoomForCredit, Paid, SlotsOf
<1>1. CASE Write
  <2>1. up /\ todo # <<>> /\ todo' = Tail(todo)
        /\ \/ WriteFile(Head(todo)) \/ WriteHead(Head(todo))
           \/ WriteLine(Head(todo)) \/ WriteReward(Head(todo))
    BY <1>1, WriteCases
  <2>2. /\ k + 1 \in DOMAIN todo /\ k + 1 # 1 /\ todo'[k] = todo[k + 1]
        /\ 1 \in DOMAIN todo /\ Head(todo) = todo[1]
    BY <2>1, LinesLeft
  <2>3. todo[k + 1] \in WriteSet /\ todo[1] \in WriteSet
    BY <2>2, ElementOfSeq, LenProperties DEF Types
  <2>4. n \in 1..MaxSlot /\ reason \in Reasons
        /\ todo[k + 1].credit \in Credit
        /\ todo[k + 1].credit = [slot |-> n, reason |-> reason]
    BY <2>2, <2>3, WriteKinds, CreditParts
  <2>5. tail # "broken"
    BY <2>1 DEF WriteFile, WriteHead, WriteLine, WriteReward, EndAfter
  <2>6. /\ Paid(n, reason) \in Nat
        /\ SlotsOf(Rings, n) \in Nat /\ SlotsOf(Rings', n) \in Nat
        /\ SlotsOf(Rings, n) <= SlotsOf(Rings', n)
    BY PaidAfter, RingsGrow
  <2>7. CASE RingDue
    <3>1. rewards' = rewards
          /\ \A m : Head(todo).entry.item = SlotRing(m) =>
                SlotsOf(Rings', m) = SlotsOf(Rings, m) + 1
      BY <1>1, <2>7, RingWritten
    <3>2. Head(todo).entry.item = SlotRing(n)
      BY <2>2, <2>7 DEF OfOneSlot
    <3>3. Paid(n, reason)' = Paid(n, reason)
      BY <3>1, PaidAfter
    <3>4. Paid(n, reason) <= SlotsOf(Rings, n)
      BY <2>4, <2>5 DEF CreditsAreBacked, Rings
    <3> QED
      BY <2>6, <3>1, <3>2, <3>3, <3>4
  <2>8. CASE ~RingDue
    <3>1. Paid(n, reason) + 1 <= SlotsOf(Rings, n)
      BY <2>1, <2>2, <2>5, <2>8 DEF RoomForCredit
    <3>2. Paid(n, reason)' = Paid(n, reason)
      <4>1. CASE Head(todo).what = "reward"
        <5>1. Head(todo).credit # [slot |-> n, reason |-> reason]
          BY <2>2, <2>3, <2>4, <4>1, CreditParts DEF Owed
        <5>2. rewards' = rewards \/ rewards' = Append(rewards, Head(todo).credit)
          BY <2>1, <4>1 DEF WriteFile, WriteHead, WriteLine, WriteReward, Appended
        <5>3. Head(todo).credit \in Credit
          BY <2>1, <4>1, QueuedLine
        <5>4. rewards' = Append(rewards, Head(todo).credit) =>
                 Paid(n, reason)' = Paid(n, reason) + 0
          BY <5>1, <5>3, PaidAfter
        <5> QED
          BY <2>6, <5>2, <5>4, PaidAfter
      <4>2. CASE Head(todo).what # "reward"
        <5>1. rewards' = rewards
          BY <2>1, <4>2 DEF WriteFile, WriteHead, WriteLine, WriteReward
        <5> QED
          BY <5>1, PaidAfter
      <4> QED
        BY <4>1, <4>2
    <3> QED
      BY <2>6, <3>1, <3>2
  <2> QED
    BY <2>7, <2>8
<1>2. CASE UNCHANGED <<up, todo, disk>>
  <2>2. up /\ ~RingDue /\ tail # "broken" /\ k \in DOMAIN todo /\ todo[k].what = "reward"
    BY <1>2 DEF RingDue, disk
  <2>3. Paid(n, reason) + 1 <= SlotsOf(Rings, n)
    BY <1>2, <2>2 DEF RoomForCredit
  <2> QED
    BY <1>2, <2>3 DEF disk, Rings, Paid, SlotsOf
<1>3. CASE \A j \in DOMAIN todo' : NeedsNoRing(todo'[j])
  BY <1>3 DEF NeedsNoRing
<1> QED
  BY <1>1, <1>2, <1>3, RunningSteps

\* So a written credit has one.
LEMMA CreditsAreBackedStep ==
    ASSUME Types, RoomForCredit, CreditsAreBacked, [Next]_vars
    PROVE  CreditsAreBacked'
<1> SUFFICES ASSUME tail' # "broken", NEW n \in 1..MaxSlot, NEW reason \in Reasons
             PROVE  Paid(n, reason)' <= SlotsOf(Rings', n)
  BY DEF CreditsAreBacked, Rings, Paid, SlotsOf
<1>1. tail # "broken"
  BY LogStep DEF LogSteps
<1>2. Paid(n, reason) <= SlotsOf(Rings, n)
  BY <1>1 DEF CreditsAreBacked, Rings
<1>3. /\ Paid(n, reason) \in Nat
      /\ SlotsOf(Rings, n) \in Nat /\ SlotsOf(Rings', n) \in Nat
      /\ SlotsOf(Rings, n) <= SlotsOf(Rings', n)
  BY PaidAfter, RingsGrow
<1>4. CASE rewards' = rewards
  BY <1>2, <1>3, <1>4, PaidAfter
<1>5. CASE rewards' # rewards
  <2> DEFINE c == Head(todo).credit
  <2>1. up /\ todo # <<>> /\ Head(todo).what = "reward" /\ rewards' = Append(rewards, c)
    BY <1>5, RewardStep DEF RewardSteps
  <2>2. c \in Credit /\ 1 \in DOMAIN todo /\ Head(todo) = todo[1]
    BY <2>1, QueuedLine
  <2>3. Paid(c.slot, c.reason) + 1 <= SlotsOf(Rings, c.slot)
    BY <1>1, <2>1, <2>2 DEF RoomForCredit, RingDue, IsLine
  <2> HIDE DEF c
  <2>4. Paid(n, reason)' = Paid(n, reason)
           + (IF c = [slot |-> n, reason |-> reason] THEN 1 ELSE 0)
    BY <2>1, <2>2, PaidAfter
  <2>5. CASE c = [slot |-> n, reason |-> reason]
    <3>1. c.slot = n /\ c.reason = reason
      BY <2>5
    <3> QED
      BY <1>3, <2>3, <2>4, <2>5, <3>1
  <2>6. CASE c # [slot |-> n, reason |-> reason]
    BY <1>2, <1>3, <2>4, <2>6
  <2> QED
    BY <2>5, <2>6
<1> QED
  BY <1>4, <1>5

-----------------------------------------------------------------------------
\* A blank home.
LEMMA InitInv == Init => DurableInv
<1> SUFFICES ASSUME Init PROVE DurableInv
  OBVIOUS
<1>1. Types
  <2>1. \A S : <<>> \in Seq(S)
    BY EmptySeq
  <2>2. /\ log \in Seq(Entries) /\ head \in Seq(Ring) /\ ledger \in Seq(Ring)
        /\ rewards \in Seq(Credit) /\ credits \in Seq(Credit) /\ todo \in Seq(WriteSet)
        /\ slotHeaders \in Seq(1..MaxSlot) /\ headers \in Seq(1..MaxSlot)
    BY <2>1 DEF Init
  <2>3. next \in 1..(MaxSlot + 1) /\ lastPass \in Nat
    BY BoundAssumption DEF Init
  <2> QED
    BY <2>2, <2>3 DEF Init, Types, Ends
<1>2. DOMAIN todo = {} /\ DOMAIN log = {} /\ DOMAIN rewards = {} /\ ~RingDue
  BY NoQueue DEF Init, RingDue
<1>3. \A t : Items(log, t) = <<>>
  BY ItemsEmpty DEF Init
<1>4. BootOrder /\ Owed /\ OfOneSlot /\ Caught /\ PassKept /\ HeadersInTurn /\ RoomForCredit
  BY <1>2 DEF Init, BootOrder, Blank, Owed, OfOneSlot, Caught, PassKept, HeadersInTurn, RoomForCredit
<1>5. IsPrefix(<<>>, <<>>)
  <2>1. <<>> \in Seq({})
    BY EmptySeq
  <2> QED
    BY <2>1, PrefixEmpty
<1>6. LogIsPast /\ LogReplays
  BY <1>2, <1>3, <1>5 DEF Init, LogIsPast, LogReplays, Links, Held, Rings
<1>7. CreditsQueued
  BY <1>5 DEF Init, CreditsQueued
<1>8. HeadersFollowRings
  BY <1>2 DEF HeadersFollowRings
<1>9. CreditsAreBacked
  <2> SUFFICES ASSUME NEW n, NEW reason
               PROVE  Paid(n, reason) <= SlotsOf(Items(log, "ring"), n)
    BY DEF CreditsAreBacked
  <2>1. Paid(n, reason) = 0
    BY <1>2, FS_EmptySet DEF Paid
  <2>2. SlotsOf(Items(log, "ring"), n) = 0
    BY <1>3, NoQueue, FS_EmptySet DEF SlotsOf
  <2> QED
    BY <2>1, <2>2
<1> QED
  BY <1>1, <1>4, <1>6, <1>7, <1>8, <1>9 DEF DurableInv

\* Every step keeps the invariant.
LEMMA StepInv == DurableInv /\ [Next]_vars => DurableInv'
<1> SUFFICES ASSUME DurableInv, [Next]_vars PROVE DurableInv'
  OBVIOUS
<1>1. /\ Types /\ BootOrder /\ Owed /\ OfOneSlot
      /\ Caught /\ PassKept /\ LogIsPast /\ LogReplays
      /\ CreditsQueued /\ HeadersInTurn /\ RoomForCredit
      /\ HeadersFollowRings /\ CreditsAreBacked
  BY DEF DurableInv
<1>2. Types' /\ BootOrder' /\ Owed' /\ OfOneSlot'
  BY <1>1, TypesStep, BootOrderStep, OwedStep, OfOneSlotStep
<1>3. Caught' /\ PassKept' /\ LogIsPast' /\ LogReplays'
  BY <1>1, CaughtStep, PassKeptStep, LogIsPastStep, LogReplaysStep
<1>4. CreditsQueued' /\ HeadersInTurn' /\ RoomForCredit'
  BY <1>1, <1>2, CreditsQueuedStep, HeadersInTurnStep, RoomForCreditStep
<1>5. HeadersFollowRings' /\ CreditsAreBacked'
  BY <1>1, HeadersFollowRingsStep, CreditsAreBackedStep
<1> QED
  BY <1>2, <1>3, <1>4, <1>5 DEF DurableInv

\* So it always holds.
LEMMA InvAlways == Spec => []DurableInv
  BY InitInv, StepInv, PTL DEF Spec

\* Disk and memory hold values of their types: the log lines of the four types
\* home.py writes, and only the writes the handlers of node.py queue.
THEOREM DurableTypeCorrect == Spec => []TypeOK
<1>1. ASSUME DurableInv PROVE TypeOK
  <2>1. Types
    BY <1>1 DEF DurableInv
  <2>2. ASSUME NEW n \in DOMAIN log
        PROVE  log[n].t \in {"ring", "slot_header", "header", "challenge"}
    <3>1. log[n] \in Entries
      BY <2>1, ElementOfSeq, LenProperties DEF Types
    <3> QED
      BY <3>1, EntryKinds DEF Linked
  <2>3. ASSUME NEW n \in DOMAIN todo PROVE todo[n].what \in Writes
    <3>1. todo[n] \in WriteSet
      BY <2>1, ElementOfSeq, LenProperties DEF Types
    <3> QED
      BY <3>1, WriteKinds DEF Writes
  <2> QED
    BY <2>1, <2>2, <2>3 DEF Types, Ends, TypeOK
<1> QED
  BY <1>1, InvAlways, PTL

\* At rest the files hold what the process holds, whatever crashes came before:
\* every append to a list of node.py is followed by the write of its line.
THEOREM HomeIsTheMemory == Spec => []HomeMirrorsMemory
<1>1. ASSUME DurableInv, Ready, AllLogged, tail = "whole", rewardsTail = "whole"
      PROVE  /\ slotHeaders = Items(log, "slot_header")
             /\ headers = Items(log, "header")
             /\ credits = rewards
             /\ lastPass <= ReplayedPass
  <2>1. up /\ todo = <<>> /\ Types /\ Caught /\ PassKept /\ CreditsQueued
    BY <1>1 DEF DurableInv, Ready
  <2>2. \A t : ~LineDue(t)
    BY <2>1, NoQueue DEF LineDue
  <2>3. slotHeaders = Items(log, "slot_header") /\ headers = Items(log, "header")
    BY <1>1, <2>1, <2>2 DEF Caught, CaughtUp, Held
  <2>4. credits = rewards
    BY <1>1, <2>1, BehindNothing DEF CreditsQueued, Types
  <2>5. lastPass <= ReplayedPass
    <3>1. lastPass \in {0} \cup ToSet(Items(log, "challenge"))
      BY <1>1, <2>1, NoQueue DEF PassKept
    <3> QED
      BY <2>1, <3>1, PassType DEF ReplayedPass, Types
  <2> QED
    BY <2>3, <2>4, <2>5
<1>2. DurableInv => HomeMirrorsMemory
  BY <1>1 DEF HomeMirrorsMemory
<1> QED
  BY <1>2, InvAlways, PTL

\* A process may die before or in any write: with its boot files there, its
\* lines whole and every ring logged, the home replays (replay_home).
THEOREM CrashesAreSurvivable == Spec => []CrashIsSurvivable
<1>1. ASSUME DurableInv PROVE CrashIsSurvivable
  BY <1>1 DEF DurableInv, CrashIsSurvivable, LogReplays, Logged, Links, Rings, Replays
<1> QED
  BY <1>1, InvAlways, PTL

\* A resume rebuilds a past of the process that died, and nothing else: the
\* links replay_home checks leave it no other choice.
THEOREM ResumeRebuildsThePast == Spec => ResumeIsPast
<1> DEFINE PastResumed ==
      (~up /\ up' /\ files # {}) =>
          /\ IsPrefix(ledger', ledger) /\ IsPrefix(head, ledger')
          /\ IsPrefix(slotHeaders', slotHeaders) /\ IsPrefix(headers', headers)
          /\ IsPrefix(credits', credits)
<1>1. ASSUME DurableInv, [Next]_vars, ~up, up', files # {} PROVE PastResumed
  <2>1. Types /\ BootOrder /\ LogIsPast /\ CreditsQueued
    BY <1>1 DEF DurableInv
  <2>2. Resume
    BY <1>1, <2>1, WriteCases, CrashCases
       DEF Next, vars, Boot, BootOrder, Blank, Ready, ProduceSlot, SkipSlot, SealRpc,
           SealUnlogged, ChallengeRpc
  <2>3. /\ Links /\ ("head" \in files => IsPrefix(head, Items(log, "ring")))
        /\ ledger' = Items(log, "ring") /\ slotHeaders' = Items(log, "slot_header")
        /\ headers' = Items(log, "header") /\ credits' = rewards
    BY <2>2 DEF Resume, Replays, Links, Reloaded
  <2>4. /\ IsPrefix(Items(log, "ring"), ledger)
        /\ IsPrefix(Items(log, "slot_header"), slotHeaders)
        /\ IsPrefix(Items(log, "header"), headers)
    BY <2>1, <2>3 DEF LogIsPast, Held, Linked
  <2>5. IsPrefix(head, Items(log, "ring"))
    <3>1. Items(log, "ring") \in Seq(Ring)
      BY <2>1, LogItems DEF Types
    <3>2. IsPrefix(<<>>, Items(log, "ring"))
      BY <3>1, PrefixEmpty
    <3> QED
      BY <2>1, <2>3, <3>2 DEF BootOrder
  <2>6. IsPrefix(rewards, credits)
    BY <2>1 DEF CreditsQueued
  <2> QED
    BY <2>3, <2>4, <2>5, <2>6
<1>2. DurableInv /\ [Next]_vars => [PastResumed]_vars
  BY <1>1
<1> QED
  BY <1>2, InvAlways, PTL DEF Spec, ResumeIsPast

\* A slot is credited at most as often as its ring is in a log that can be
\* read: produce_slot writes the ring first and the rewards last.
THEOREM CreditsHaveRings == Spec => []CreditsAreBacked
<1>1. DurableInv => CreditsAreBacked
  BY DEF DurableInv
<1> QED
  BY <1>1, InvAlways, PTL

\* Every slot header of the log stands right after the ring of its slot, and
\* every header right after its slot header, wherever crashes cut the log and
\* however often a slot is produced (produce_slot, Home.append_log).
THEOREM RingsComeFirst == Spec => []HeadersFollowRings
<1>1. DurableInv => HeadersFollowRings
  BY DEF DurableInv
<1> QED
  BY <1>1, InvAlways, PTL
=============================================================================
