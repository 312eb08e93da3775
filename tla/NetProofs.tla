------------------------------ MODULE NetProofs ------------------------------
(***************************************************************************)
(* Homes run together and alone, for any homes, draws, lanes and bounds.   *)
(*                                                                         *)
(* The bus is what the invariants are about: a ring on it has its proof    *)
(* ahead of it (RingsInv), and what it still holds for a home is just what *)
(* keeps that home's chain from being the others' (AgreeInv), so a slot    *)
(* may be cut anywhere and its proofs still come first, and one that is    *)
(* not cut ends with the homes alike.                                      *)
(***************************************************************************)
EXTENDS LocalNet, Induction

\* What travels on the bus.
Message == [kind : {"slot_header", "ring", "header"}, entry : Ring, on : Seq(Ring)]
              \cup {[kind |-> "offers"]}
Delivery == [to : Home, message : Message]

ProcessType ==
    /\ mode \in {"idle", "net"} \cup Home
    /\ lastPass \in [Home -> Nat]
    /\ slot \in 1..(MaxSlot + 1) /\ left \in 0..MaxSlot /\ slot + left <= MaxSlot + 1
    /\ bus \in Seq(Delivery) /\ (mode # "net" => bus = <<>>)
    /\ buffer \in [Home -> SUBSET (Home \cup Worker)]

HomesType ==
    /\ chain \in [Home -> Seq(Ring)] /\ proofs \in [Home -> Seq(Ring)]
    /\ headers \in [Home -> Seq(Ring)]
    /\ lane \in [Home -> [Objects -> {"absent", "intact", "tampered"}]]
    /\ badSeal \subseteq Home

NetType == leader \in Draws /\ HomesType /\ ProcessType

-----------------------------------------------------------------------------
\* A chain extended.
LEMMA Extended ==
    ASSUME NEW S, NEW s \in Seq(S), NEW e \in S
    PROVE  Append(s, e) \in Seq(S) /\ ToSet(Append(s, e)) = ToSet(s) \cup {e}
<1>1. /\ Append(s, e) \in Seq(S) /\ Len(Append(s, e)) = Len(s) + 1
      /\ Len(s) \in Nat /\ DOMAIN s = 1..Len(s)
      /\ \A i \in 1..Len(s) : Append(s, e)[i] = s[i]
      /\ Append(s, e)[Len(s) + 1] = e
    BY AppendProperties
<1>2. DOMAIN Append(s, e) = 1..(Len(s) + 1)
    BY <1>1
<1>3. ToSet(Append(s, e)) \subseteq ToSet(s) \cup {e}
    BY <1>1, <1>2 DEF ToSet
<1>4. ToSet(s) \cup {e} \subseteq ToSet(Append(s, e))
    BY <1>1, <1>2 DEF ToSet
<1> QED
    BY <1>1, <1>3, <1>4

\* What is left of a queue when its head is taken.
LEMMA Taking ==
    ASSUME NEW S, NEW s \in Seq(S), s # <<>>
    PROVE  /\ Len(s) \in Nat \ {0} /\ DOMAIN s = 1..Len(s) /\ Head(s) = s[1] /\ Head(s) \in S
           /\ Tail(s) \in Seq(S) /\ DOMAIN Tail(s) = 1..(Len(s) - 1)
           /\ \A i \in 1..(Len(s) - 1) : Tail(s)[i] = s[i + 1]
BY HeadTailProperties, LenProperties, EmptySeq

\* The homes a message goes to: every other one, once.
LEMMA OthersFacts ==
    ASSUME NEW h \in Home
    PROVE  /\ Others(h) \in Seq(Home \ {h}) /\ IsInjective(Others(h))
           /\ \A g \in Home \ {h} : \E i \in DOMAIN Others(h) : Others(h)[i] = g
<1> DEFINE n == Len(Sorted)
           k == CHOOSE k \in DOMAIN Sorted : Sorted[k] = h
<1>1. /\ n \in Nat /\ DOMAIN Sorted = 1..n /\ \A i \in 1..n : Sorted[i] \in Home
      /\ \A i, j \in 1..n : Sorted[i] = Sorted[j] => i = j
      /\ \A g \in Home : \E i \in 1..n : Sorted[i] = g
    BY HomesAssumption, LenProperties DEF ToSet, IsInjective
<1>2. k \in 1..n /\ Sorted[k] = h
    BY <1>1
<1> HIDE DEF k
<1> DEFINE u == SubSeq(Sorted, 1, k - 1)
           v == SubSeq(Sorted, k + 1, n)
<1>3. u \in Seq(Home) /\ Len(u) = k - 1 /\ \A i \in 1..(k - 1) : u[i] = Sorted[i]
    BY <1>1, <1>2, SubSeqProperties
<1>4. v \in Seq(Home) /\ Len(v) = n - k /\ \A i \in 1..(n - k) : v[i] = Sorted[i + k]
    <2>1. /\ v \in Seq(Home) /\ Len(v) = IF k + 1 <= n THEN n - (k + 1) + 1 ELSE 0
          /\ \A i \in 1..(n - (k + 1) + 1) : v[i] = Sorted[k + 1 + i - 1]
        <3>1. k + 1 \in Int /\ n \in Int /\ \A i \in (k + 1)..n : Sorted[i] \in Home
            BY <1>1, <1>2
        <3> QED
            BY <3>1, SubSeqProperties
    <2> HIDE DEF v
    <2>2. Len(v) = n - k
        <3>1. \A x \in Nat : \A y \in 1..x :
                 (IF y + 1 <= x THEN x - (y + 1) + 1 ELSE 0) = x - y
            OBVIOUS
        <3>2. (IF k + 1 <= n THEN n - (k + 1) + 1 ELSE 0) = n - k
            BY <1>1, <1>2, <3>1, Zenon
        <3> QED
            BY <2>1, <3>2
    <2>3. ASSUME NEW i \in 1..(n - k)
          PROVE  v[i] = Sorted[i + k]
        <3>1. i \in 1..(n - (k + 1) + 1) /\ k + 1 + i - 1 = i + k
            BY <1>1, <1>2
        <3> QED
            BY <2>1, <3>1
    <2> QED
        BY <2>1, <2>2, <2>3
<1>5. /\ Others(h) \in Seq(Home) /\ DOMAIN Others(h) = 1..(n - 1)
      /\ \A i \in 1..(n - 1) : Others(h)[i] = IF i < k THEN Sorted[i] ELSE Sorted[i + 1]
    <2>1. Others(h) = u \o v
        BY DEF Others, RemoveAt, k
    <2> HIDE DEF u, v
    <2>2. /\ Others(h) \in Seq(Home) /\ Len(Others(h)) = n - 1
          /\ \A i \in 1..(n - 1) : Others(h)[i] = IF i <= k - 1 THEN u[i] ELSE v[i - (k - 1)]
        <3>1. /\ u \o v \in Seq(Home) /\ Len(u \o v) = Len(u) + Len(v)
              /\ \A i \in 1..(Len(u) + Len(v)) :
                    (u \o v)[i] = IF i <= Len(u) THEN u[i] ELSE v[i - Len(u)]
            BY <1>3, <1>4, ConcatProperties
        <3>2. Len(u) = k - 1 /\ Len(u) + Len(v) = n - 1
            BY <1>1, <1>2, <1>3, <1>4
        <3> QED
            BY <2>1, <3>1, <3>2
    <2>3. ASSUME NEW i \in 1..(n - 1)
          PROVE  Others(h)[i] = IF i < k THEN Sorted[i] ELSE Sorted[i + 1]
        <3>1. CASE i < k
            BY <1>1, <1>2, <1>3, <2>2, <3>1
        <3>2. CASE i >= k
            <4>1. i - (k - 1) \in 1..(n - k) /\ (i - (k - 1)) + k = i + 1
                BY <1>1, <1>2, <3>2
            <4> QED
                BY <1>1, <1>2, <1>4, <2>2, <3>2, <4>1
        <3> QED
            BY <1>1, <1>2, <3>1, <3>2
    <2> QED
        BY <2>2, <2>3, LenProperties
<1>6. \A i \in 1..(n - 1) : Others(h)[i] \in Home \ {h}
    BY <1>1, <1>2, <1>5
<1>7. Others(h) \in Seq(Home \ {h})
    BY <1>5, <1>6
<1>8. IsInjective(Others(h))
    <2> SUFFICES ASSUME NEW i \in 1..(n - 1), NEW j \in 1..(n - 1), Others(h)[i] = Others(h)[j]
                 PROVE  i = j
        BY <1>5 DEF IsInjective
    <2>1. ASSUME NEW p \in 1..(n - 1)
          PROVE  \E q \in 1..n : /\ Others(h)[p] = Sorted[q]
                                 /\ q = IF p < k THEN p ELSE p + 1
        <3>1. (IF p < k THEN p ELSE p + 1) \in 1..n
            BY <1>1, <1>2
        <3> QED
            BY <1>5, <3>1
    <2>2. PICK p \in 1..n : Others(h)[i] = Sorted[p] /\ p = IF i < k THEN i ELSE i + 1
        BY <2>1
    <2>3. PICK q \in 1..n : Others(h)[j] = Sorted[q] /\ q = IF j < k THEN j ELSE j + 1
        BY <2>1
    <2>4. p = q
        BY <1>1, <2>2, <2>3
    <2> QED
        BY <1>1, <1>2, <2>2, <2>3, <2>4
<1>9. ASSUME NEW g \in Home \ {h}
      PROVE  \E i \in DOMAIN Others(h) : Others(h)[i] = g
    <2>1. PICK j \in 1..n : Sorted[j] = g
        BY <1>1
    <2>2. j # k
        BY <1>2, <2>1
    <2>3. CASE j < k
        <3>1. j \in 1..(n - 1)
            BY <1>1, <1>2, <2>3
        <3> QED
            BY <1>5, <2>1, <2>3, <3>1
    <2>4. CASE j > k
        <3>1. j - 1 \in 1..(n - 1) /\ ~(j - 1 < k) /\ (j - 1) + 1 = j
            BY <1>1, <1>2, <2>4
        <3> QED
            BY <1>5, <2>1, <3>1
    <2> QED
        BY <1>1, <1>2, <2>2, <2>3, <2>4
<1> QED
    BY <1>7, <1>8, <1>9

\* What a produced slot puts on the bus: to each other home the proof, then
\* the ring, then the header; then the leader's offers.
SlotSent(b, h) ==
    LET m == SlotMessages(h)
    IN  /\ b \in Seq(Delivery) /\ b # <<>>
        /\ \A i \in DOMAIN b :
              \/ b[i].message.kind = "offers" /\ b[i].to = h
              \/ b[i].to # h /\ b[i].message \in {m[1], m[2], m[3]}
        /\ \A i, j \in DOMAIN b :
              b[i].to = b[j].to /\ b[i].message = b[j].message => i = j
        /\ \A i, j \in DOMAIN b : b[i].message.kind = "offers" => j <= i
        /\ \A i \in DOMAIN b : b[i].message = m[2] =>
              \E j \in 1..(i - 1) : b[j].to = b[i].to /\ b[j].message = m[1]
        /\ \A g \in Home \ {h}, k \in 1..3 :
              \E i \in DOMAIN b : b[i].to = g /\ b[i].message = m[k]

\* The three messages of a slot, as Message types them.
LEMMA MessagesTyped ==
    ASSUME NetType, slot \in 1..MaxSlot, NEW h \in Home
    PROVE  LET m == SlotMessages(h)
               entry == [slot |-> slot, leader |-> h]
           IN  /\ entry \in Ring
               /\ m[1] = [kind |-> "slot_header", entry |-> entry, on |-> proofs[h]]
               /\ m[2] = [kind |-> "ring", entry |-> entry, on |-> chain[h]]
               /\ m[3] = [kind |-> "header", entry |-> entry, on |-> headers[h]]
               /\ m[1] \in Message /\ m[2] \in Message /\ m[3] \in Message
BY DEF SlotMessages, Ring, Message, NetType, HomesType

\* A broadcast puts one delivery on the bus for each of the others, in order.
LEMMA BroadcastFacts ==
    ASSUME NEW h \in Home, NEW m \in Message
    PROVE  LET b == Broadcast(h, m)  n == Len(Others(h))
           IN  /\ b \in Seq(Delivery) /\ Len(b) = n
               /\ \A i \in 1..n : b[i].to = Others(h)[i] /\ b[i].message = m
<1>1. /\ Len(Others(h)) \in Nat /\ DOMAIN Others(h) = 1..Len(Others(h))
      /\ \A i \in 1..Len(Others(h)) : Others(h)[i] \in Home
    <2>1. Others(h) \in Seq(Home \ {h})
        BY OthersFacts
    <2> QED
        BY <2>1, LenProperties
<1>2. /\ DOMAIN Broadcast(h, m) = 1..Len(Others(h))
      /\ \A i \in 1..Len(Others(h)) : /\ Broadcast(h, m)[i] \in Delivery
                                      /\ Broadcast(h, m)[i].to = Others(h)[i]
                                      /\ Broadcast(h, m)[i].message = m
    BY <1>1 DEF Broadcast, Delivery
<1>3. Broadcast(h, m) \in [1..Len(Others(h)) -> Delivery]
    BY <1>2 DEF Broadcast
<1> QED
    BY <1>1, <1>2, <1>3

\* Two messages' worth of deliveries, one after the other.
LEMMA Joined ==
    ASSUME NEW s \in Seq(Delivery), NEW t \in Seq(Delivery)
    PROVE  /\ s \o t \in Seq(Delivery) /\ Len(s \o t) = Len(s) + Len(t)
           /\ \A i \in 1..Len(s) : (s \o t)[i] = s[i]
           /\ \A i \in 1..Len(t) : (s \o t)[Len(s) + i] = t[i]
<1>1. /\ s \o t \in Seq(Delivery) /\ Len(s \o t) = Len(s) + Len(t)
      /\ \A i \in 1..(Len(s) + Len(t)) :
            (s \o t)[i] = IF i <= Len(s) THEN s[i] ELSE t[i - Len(s)]
      /\ Len(s) \in Nat /\ Len(t) \in Nat
    BY ConcatProperties, LenProperties
<1>2. ASSUME NEW i \in 1..Len(s)
      PROVE  (s \o t)[i] = s[i]
    BY <1>1
<1>3. ASSUME NEW i \in 1..Len(t)
      PROVE  (s \o t)[Len(s) + i] = t[i]
    <2>1. /\ Len(s) + i \in 1..(Len(s) + Len(t)) /\ ~(Len(s) + i <= Len(s))
          /\ (Len(s) + i) - Len(s) = i
        BY <1>1
    <2> QED
        BY <1>1, <2>1
<1> QED
    BY <1>1, <1>2, <1>3

\* One message after the other, and the offers at the end.

Queue(h, a, b, c, last) ==
    Append(Broadcast(h, a) \o Broadcast(h, b) \o Broadcast(h, c), last)
Peers(h) == Len(Others(h))

Laid(q, h, a, b, c, last) ==
    LET n == Peers(h)
    IN  /\ n \in Nat /\ q \in Seq(Delivery) /\ Len(q) = 3 * n + 1 /\ q[3 * n + 1] = last
        /\ \A i \in 1..n : /\ q[i].to = Others(h)[i] /\ q[i].message = a
                           /\ q[n + i].to = Others(h)[i] /\ q[n + i].message = b
                           /\ q[2 * n + i].to = Others(h)[i] /\ q[2 * n + i].message = c

\* The queue of a slot is laid out so, whatever the three messages are.
LEMMA Layout ==
    ASSUME NEW h \in Home, NEW a \in Message, NEW b \in Message, NEW c \in Message,
           NEW last \in Delivery
    PROVE  Laid(Queue(h, a, b, c, last), h, a, b, c, last)
<1> DEFINE q == Queue(h, a, b, c, last)
           n == Peers(h)
<1>20. q = Append(Broadcast(h, a) \o Broadcast(h, b) \o Broadcast(h, c), last)
    BY DEF Queue
<1>21. n = Len(Others(h))
    BY DEF Peers
<1> HIDE DEF q, n
<1> DEFINE x == Broadcast(h, a)
           y == Broadcast(h, b)
           z == Broadcast(h, c)
           xy == x \o y
<1>1. n \in Nat
    <2>1. Others(h) \in Seq(Home \ {h})
        BY OthersFacts
    <2> QED
        BY <2>1, <1>21, LenProperties
<1>2. /\ x \in Seq(Delivery) /\ Len(x) = n
      /\ \A i \in 1..n : x[i].to = Others(h)[i] /\ x[i].message = a
    BY <1>21, BroadcastFacts
<1>3. /\ y \in Seq(Delivery) /\ Len(y) = n
      /\ \A i \in 1..n : y[i].to = Others(h)[i] /\ y[i].message = b
    BY <1>21, BroadcastFacts
<1>4. /\ z \in Seq(Delivery) /\ Len(z) = n
      /\ \A i \in 1..n : z[i].to = Others(h)[i] /\ z[i].message = c
    BY <1>21, BroadcastFacts
<1> HIDE DEF x, y, z
<1>5. /\ xy \in Seq(Delivery) /\ Len(xy) = n + n
      /\ \A i \in 1..n : xy[i] = x[i] /\ xy[n + i] = y[i]
    <2>1. /\ xy \in Seq(Delivery) /\ Len(xy) = Len(x) + Len(y)
          /\ \A i \in 1..Len(x) : xy[i] = x[i]
          /\ \A i \in 1..Len(y) : xy[Len(x) + i] = y[i]
        BY <1>2, <1>3, Joined
    <2> QED
        BY <1>2, <1>3, <2>1
<1> HIDE DEF xy
<1>6. /\ xy \o z \in Seq(Delivery) /\ Len(xy \o z) = (n + n) + n
      /\ \A i \in 1..(n + n) : (xy \o z)[i] = xy[i]
      /\ \A i \in 1..n : (xy \o z)[(n + n) + i] = z[i]
    <2>1. /\ xy \o z \in Seq(Delivery) /\ Len(xy \o z) = Len(xy) + Len(z)
          /\ \A i \in 1..Len(xy) : (xy \o z)[i] = xy[i]
          /\ \A i \in 1..Len(z) : (xy \o z)[Len(xy) + i] = z[i]
        BY <1>4, <1>5, Joined
    <2> QED
        BY <1>4, <1>5, <2>1
<1>10. q = Append(xy \o z, last)
    BY <1>20 DEF x, y, z, xy
<1>7. /\ q \in Seq(Delivery) /\ Len(q) = ((n + n) + n) + 1 /\ q[((n + n) + n) + 1] = last
      /\ \A i \in 1..((n + n) + n) : q[i] = (xy \o z)[i]
    <2> DEFINE xyz == xy \o z
    <2>1. xyz \in Seq(Delivery) /\ Len(xyz) = (n + n) + n /\ (n + n) + n \in Nat
        BY <1>1, <1>6
    <2>2. q = Append(xyz, last)
        BY <1>10
    <2> HIDE DEF xyz
    <2>3. /\ q \in Seq(Delivery) /\ Len(q) = Len(xyz) + 1 /\ q[Len(xyz) + 1] = last
          /\ \A i \in 1..Len(xyz) : q[i] = xyz[i]
        BY <2>1, <2>2, AppendProperties
    <2> QED
        BY <2>1, <2>3 DEF xyz
<1>8. ASSUME NEW i \in 1..n
      PROVE  q[i] = x[i] /\ q[n + i] = y[i] /\ q[2 * n + i] = z[i]
    <2>1. /\ i \in 1..((n + n) + n) /\ i \in 1..(n + n)
          /\ n + i \in 1..((n + n) + n) /\ n + i \in 1..(n + n)
          /\ (n + n) + i \in 1..((n + n) + n) /\ (n + n) + i = 2 * n + i
        BY <1>1
    <2> QED
        BY <1>5, <1>6, <1>7, <2>1
<1>9. ((n + n) + n) + 1 = 3 * n + 1
    BY <1>1
<1>11. q \in Seq(Delivery) /\ Len(q) = 3 * n + 1 /\ q[3 * n + 1] = last
    BY <1>7, <1>9
<1>12. \A i \in 1..n : /\ q[i].to = Others(h)[i] /\ q[i].message = a
                        /\ q[n + i].to = Others(h)[i] /\ q[n + i].message = b
                        /\ q[2 * n + i].to = Others(h)[i] /\ q[2 * n + i].message = c
    BY <1>2, <1>3, <1>4, <1>8
<1> QED
    BY <1>1, <1>11, <1>12 DEF q, n, Laid

\* The deliveries of a slot, as a set of who gets what and in which order.
LEMMA Sends ==
    ASSUME NetType, slot \in 1..MaxSlot, NEW h \in Home
    PROVE  SlotSent(Append(Deliveries(h), [to |-> h, message |-> [kind |-> "offers"]]), h)
<1> DEFINE m == SlotMessages(h)
           n == Peers(h)
           last == [to |-> h, message |-> [kind |-> "offers"]]
           q == Append(Deliveries(h), last)
<1>1. /\ m[1] \in Message /\ m[2] \in Message /\ m[3] \in Message
      /\ m[1].kind = "slot_header" /\ m[2].kind = "ring" /\ m[3].kind = "header"
    <2>1. /\ m[1] \in Message /\ m[2] \in Message /\ m[3] \in Message
          /\ m[1] = [kind |-> "slot_header", entry |-> [slot |-> slot, leader |-> h], on |-> proofs[h]]
          /\ m[2] = [kind |-> "ring", entry |-> [slot |-> slot, leader |-> h], on |-> chain[h]]
          /\ m[3] = [kind |-> "header", entry |-> [slot |-> slot, leader |-> h], on |-> headers[h]]
        BY MessagesTyped, Zenon
    <2> HIDE DEF m
    <2> QED
        BY <2>1
<1>11. last \in Delivery /\ last.message.kind = "offers" /\ last.to = h
    BY DEF Delivery, Message
<1>12. Deliveries(h) = Broadcast(h, m[1]) \o Broadcast(h, m[2]) \o Broadcast(h, m[3])
    BY DEF Deliveries
<1> HIDE DEF m, last
<1>13. /\ m[1] # m[2] /\ m[1] # m[3] /\ m[2] # m[3]
      /\ last.message # m[1] /\ last.message # m[2] /\ last.message # m[3]
    BY <1>1, <1>11
<1>2. /\ n \in Nat /\ q \in Seq(Delivery) /\ Len(q) = 3 * n + 1 /\ q[3 * n + 1] = last
      /\ \A i \in 1..n : /\ q[i].to = Others(h)[i] /\ q[i].message = m[1]
                         /\ q[n + i].to = Others(h)[i] /\ q[n + i].message = m[2]
                         /\ q[2 * n + i].to = Others(h)[i] /\ q[2 * n + i].message = m[3]
    <2>1. q = Queue(h, m[1], m[2], m[3], last)
        BY <1>12 DEF Queue
    <2> HIDE DEF q
    <2>2. Laid(q, h, m[1], m[2], m[3], last)
        BY <1>1, <1>11, <2>1, Layout, Zenon
    <2> QED
        BY <2>2 DEF Laid
<1>3. /\ \A i \in 1..n : Others(h)[i] \in Home \ {h}
      /\ \A i, j \in 1..n : Others(h)[i] = Others(h)[j] => i = j
      /\ \A g \in Home \ {h} : \E i \in 1..n : Others(h)[i] = g
    <2>1. Others(h) \in Seq(Home \ {h})
        BY OthersFacts
    <2> QED
        BY <2>1, OthersFacts, LenProperties DEF IsInjective, Peers
<1> HIDE DEF n, q
<1>4. DOMAIN q = 1..(3 * n + 1) /\ q # <<>>
    BY <1>2, LenProperties, EmptySeq
\* Where a delivery stands tells what it is.
<1>5. ASSUME NEW i \in 1..(3 * n + 1)
      PROVE  \/ i = 3 * n + 1
             \/ i \in 1..n
             \/ i - n \in 1..n /\ n + (i - n) = i
             \/ i - 2 * n \in 1..n /\ 2 * n + (i - 2 * n) = i
    BY <1>2
<1>6. ASSUME NEW i \in 1..(3 * n + 1)
      PROVE  \/ i = 3 * n + 1 /\ q[i] = last
             \/ \E p \in 1..n : i = p /\ q[i].to = Others(h)[p] /\ q[i].message = m[1]
             \/ \E p \in 1..n : i = n + p /\ q[i].to = Others(h)[p] /\ q[i].message = m[2]
             \/ \E p \in 1..n : i = 2 * n + p /\ q[i].to = Others(h)[p] /\ q[i].message = m[3]
    BY <1>2, <1>5
<1>7. ASSUME NEW i \in DOMAIN q
      PROVE  \/ q[i].message.kind = "offers" /\ q[i].to = h
             \/ q[i].to # h /\ q[i].message \in {m[1], m[2], m[3]}
    BY <1>3, <1>4, <1>6, <1>11
<1>8. ASSUME NEW i \in DOMAIN q, NEW j \in DOMAIN q,
             q[i].to = q[j].to, q[i].message = q[j].message
      PROVE  i = j
    BY <1>3, <1>4, <1>6, <1>8, <1>13
<1>9. ASSUME NEW i \in DOMAIN q, q[i].message = m[2]
      PROVE  \E j \in 1..(i - 1) : q[j].to = q[i].to /\ q[j].message = m[1]
    <2>1. PICK p \in 1..n : i = n + p /\ q[i].to = Others(h)[p]
        BY <1>4, <1>6, <1>9, <1>13
    <2>2. p \in 1..(i - 1)
        BY <1>2, <2>1
    <2> QED
        BY <1>2, <2>1, <2>2
<1>14. ASSUME NEW i \in DOMAIN q, NEW j \in DOMAIN q, q[i].message.kind = "offers"
       PROVE  j <= i
    <2>1. i = 3 * n + 1
        BY <1>1, <1>4, <1>6, <1>14
    <2> QED
        BY <1>2, <1>4, <2>1
<1>10. ASSUME NEW g \in Home \ {h}, NEW k \in 1..3
       PROVE  \E i \in DOMAIN q : q[i].to = g /\ q[i].message = m[k]
    <2>1. PICK p \in 1..n : Others(h)[p] = g
        BY <1>3
    <2>2. p \in DOMAIN q /\ n + p \in DOMAIN q /\ 2 * n + p \in DOMAIN q
        BY <1>2, <1>4
    <2>3. CASE k = 1
        BY <1>2, <2>1, <2>2, <2>3
    <2>4. CASE k = 2
        BY <1>2, <2>1, <2>2, <2>4
    <2>5. CASE k = 3
        BY <1>2, <2>1, <2>2, <2>5
    <2> QED
        BY <2>3, <2>4, <2>5
<1> QED
    BY <1>2, <1>4, <1>7, <1>8, <1>9, <1>10, <1>14 DEF SlotSent, m, q, last

-----------------------------------------------------------------------------
\* Types.  A run never outgrows the bound: what is left of it is counted.
LEMMA NetStarts == Init => NetType
<1> SUFFICES ASSUME Init
             PROVE  NetType
    OBVIOUS
<1>1. HomesType
    <2>1. <<>> \in Seq(Ring)
        OBVIOUS
    <2> QED
        BY <2>1 DEF Init, HomesType
<1>2. ProcessType
    BY BoundsAssumption DEF Init, ProcessType
<1> QED
    BY <1>1, <1>2 DEF Init, NetType

\* What is delivered next, and that only a run of the net delivers.
LEMMA HeadTyped ==
    ASSUME NetType, bus # <<>>
    PROVE  /\ Head(bus) \in Delivery /\ Tail(bus) \in Seq(Delivery) /\ mode = "net"
           /\ Head(bus).to \in Home
           /\ Head(bus).message.kind # "offers" =>
                 Head(bus).message.entry \in Ring /\ Head(bus).message.on \in Seq(Ring)
<1>1. bus \in Seq(Delivery) /\ mode = "net"
    BY DEF NetType, ProcessType
<1>2. Head(bus) \in Delivery /\ Tail(bus) \in Seq(Delivery)
    BY <1>1, Taking
<1> QED
    BY <1>1, <1>2 DEF Delivery, Message

\* One home's chain grows; the others' stay.
LEMMA Grown ==
    ASSUME NEW f \in [Home -> Seq(Ring)], NEW h \in Home, NEW e \in Ring
    PROVE  [f EXCEPT ![h] = Append(@, e)] \in [Home -> Seq(Ring)]
<1>1. Append(f[h], e) \in Seq(Ring)
    BY Extended
<1> QED
    BY <1>1

\* Every step keeps the types.
LEMMA NetTyped ==
    ASSUME NetType, [Next]_vars
    PROVE  NetType'
<1> USE DEF NetType
<1>1. ASSUME NEW m \in {"net"} \cup Home, NEW h \in Home, NEW opened, NEW n \in RunLengths,
             Open(m, h, opened, n)
      PROVE  NetType'
    <2>1. n \in Nat \ {0} /\ \A g \in Home : Height(g) \in Nat
        BY BoundsAssumption, LenProperties DEF Height, HomesType
    <2>2. Height(h) + n <= MaxSlot
        BY <1>1 DEF Open
    <2>3. ProcessType'
        BY <1>1, <2>1, <2>2, BoundsAssumption DEF Open, Refreshed, ProcessType
    <2>4. HomesType'
        BY <1>1 DEF Open, homes, chains, HomesType
    <2> QED
        BY <1>1, <2>3, <2>4 DEF Open
<1>2. ASSUME Ended
      PROVE  ProcessType'
    BY <1>2, BoundsAssumption DEF Ended, ProcessType
<1>3. ASSUME NEW h \in Home, NEW b \in BOOLEAN, Lead(h, b), slot \in 1..MaxSlot
      PROVE  /\ chain' \in [Home -> Seq(Ring)] /\ proofs' \in [Home -> Seq(Ring)]
             /\ headers' \in [Home -> Seq(Ring)]
             /\ buffer' \in [Home -> SUBSET (Home \cup Worker)]
    <2>1. [slot |-> slot, leader |-> h] \in Ring
        BY <1>3 DEF Ring
    <2>2. CASE b
        <3>1. /\ chain' = [chain EXCEPT ![h] = Append(@, [slot |-> slot, leader |-> h])]
              /\ proofs' = [proofs EXCEPT ![h] = Append(@, [slot |-> slot, leader |-> h])]
              /\ headers' = [headers EXCEPT ![h] = Append(@, [slot |-> slot, leader |-> h])]
              /\ buffer' = [buffer EXCEPT ![h] = {}]
            BY <1>3, <2>2 DEF Lead
        <3> QED
            BY <2>1, <3>1, Grown DEF HomesType, ProcessType
    <2>3. CASE ~b
        <3>1. /\ chain' = chain /\ proofs' = proofs /\ headers' = headers
              /\ buffer' = [buffer EXCEPT ![h] = buffer[h] \cup {h}]
            BY <1>3, <2>3 DEF Lead, chains
        <3> QED
            BY <3>1 DEF HomesType, ProcessType
    <2> QED
        BY <2>2, <2>3
<1>4. CASE NetSlot
    <2> DEFINE h == leader[slot]
               b == Fresh(h) /\ h \notin badSeal
               q == Append(Deliveries(h), [to |-> h, message |-> [kind |-> "offers"]])
    <2>1. slot \in 1..MaxSlot /\ left \in 1..MaxSlot
        BY <1>4, BoundsAssumption DEF NetSlot, ProcessType
    <2>2. h \in Home
        BY <2>1, DrawsAssumption
    <2>3. q \in Seq(Delivery)
        BY <2>1, <2>2, Sends DEF SlotSent
    <2>4. /\ chain' \in [Home -> Seq(Ring)] /\ proofs' \in [Home -> Seq(Ring)]
          /\ headers' \in [Home -> Seq(Ring)]
          /\ buffer' \in [Home -> SUBSET (Home \cup Worker)]
          /\ bus' \in Seq(Delivery)
        <3>1. CASE Fresh(First)
            <4>1. Lead(h, b) /\ bus' = IF b THEN q ELSE <<>>
                BY <1>4, <3>1 DEF NetSlot
            <4>2. b \in BOOLEAN
                OBVIOUS
            <4> HIDE DEF h, b, q
            <4>3. bus' \in Seq(Delivery)
                BY <4>1, <2>3
            <4> QED
                BY <1>3, <2>1, <2>2, <4>1, <4>2, <4>3
        <3>2. CASE ~Fresh(First)
            BY <1>4, <3>2 DEF NetSlot, chains, HomesType, ProcessType
        <3> QED
            BY <3>1, <3>2
    <2>5. /\ mode' = "net" /\ slot' = slot + 1 /\ left' = left - 1
          /\ leader' = leader /\ lane' = lane /\ badSeal' = badSeal /\ lastPass' = lastPass
        BY <1>4 DEF NetSlot, NextSlot
    <2>6. slot' \in 1..(MaxSlot + 1) /\ left' \in 0..MaxSlot /\ slot' + left' <= MaxSlot + 1
        BY <2>1, <2>5, BoundsAssumption DEF ProcessType
    <2> QED
        BY <2>4, <2>5, <2>6 DEF HomesType, ProcessType
<1>5. CASE PulseSlot
    <2>1. slot \in 1..MaxSlot /\ left \in 1..MaxSlot /\ mode \in Home
        BY <1>5, BoundsAssumption DEF PulseSlot, ProcessType
    <2>2. /\ chain' \in [Home -> Seq(Ring)] /\ proofs' \in [Home -> Seq(Ring)]
          /\ headers' \in [Home -> Seq(Ring)]
          /\ buffer' \in [Home -> SUBSET (Home \cup Worker)]
        <3>1. CASE mode \in badSeal
            BY <1>5, <3>1 DEF PulseSlot, chains, HomesType, ProcessType
        <3>2. CASE mode \notin badSeal
            <4>1. Lead(mode, Fresh(mode)) /\ Fresh(mode) \in BOOLEAN
                BY <1>5, <3>2 DEF PulseSlot, Fresh
            <4> QED
                BY <1>3, <2>1, <4>1
        <3> QED
            BY <3>1, <3>2
    <2>3. /\ mode' = mode /\ slot' = slot + 1 /\ left' = left - 1 /\ bus' = bus
          /\ leader' = leader /\ lane' = lane /\ badSeal' = badSeal /\ lastPass' = lastPass
        BY <1>5 DEF PulseSlot, NextSlot
    <2>4. slot' \in 1..(MaxSlot + 1) /\ left' \in 0..MaxSlot /\ slot' + left' <= MaxSlot + 1
        BY <2>1, <2>3, BoundsAssumption DEF ProcessType
    <2> QED
        BY <2>2, <2>3, <2>4 DEF HomesType, ProcessType
<1>6. ASSUME bus # <<>>, Raised, Delivered
      PROVE  NetType'
    BY <1>2, <1>6 DEF Raised, Delivered, chains, HomesType
<1>7. ASSUME bus # <<>>, Taken
      PROVE  ProcessType'
    BY <1>7, HeadTyped DEF Taken, ProcessType
<1>8. CASE ApplySlotHeader
    <2>1. bus # <<>> /\ Head(bus).message.kind = "slot_header" /\ Delivered
        BY <1>8 DEF ApplySlotHeader, Arrives
    <2>2. CASE Raised
        BY <1>6, <2>1, <2>2
    <2>3. CASE ~Raised
        <3>1. /\ proofs' = [proofs EXCEPT ![Head(bus).to] = Append(@, Head(bus).message.entry)]
              /\ Taken /\ UNCHANGED <<chain, headers, lane>>
            BY <1>8, <2>3 DEF ApplySlotHeader
        <3> QED
            BY <1>7, <2>1, <3>1, HeadTyped, Grown DEF Delivered, HomesType
    <2> QED
        BY <2>2, <2>3
<1>9. CASE ApplyRing
    <2>1. bus # <<>> /\ Head(bus).message.kind = "ring" /\ Delivered
        BY <1>9 DEF ApplyRing, Arrives
    <2>2. CASE Raised
        BY <1>6, <2>1, <2>2
    <2>3. CASE Taken /\ UNCHANGED <<chains, lane>>
        BY <1>7, <2>1, <2>3 DEF Delivered, HomesType, chains
    <2>4. CASE /\ chain' = [chain EXCEPT ![Head(bus).to] = Append(@, Head(bus).message.entry)]
               /\ Taken /\ UNCHANGED <<proofs, headers, lane>>
        BY <1>7, <2>1, <2>4, HeadTyped, Grown DEF Delivered, HomesType
    <2> QED
        BY <1>9, <2>2, <2>3, <2>4 DEF ApplyRing
<1>10. CASE ApplyHeader
    <2>1. bus # <<>> /\ Head(bus).message.kind = "header" /\ Delivered
        BY <1>10 DEF ApplyHeader, Arrives
    <2>2. CASE Raised
        BY <1>6, <2>1, <2>2
    <2>3. CASE Taken /\ UNCHANGED <<chains, lane>>
        BY <1>7, <2>1, <2>3 DEF Delivered, HomesType, chains
    <2>4. CASE /\ headers' = [headers EXCEPT ![Head(bus).to] = Append(@, Head(bus).message.entry)]
               /\ Taken /\ UNCHANGED <<chain, proofs, lane>>
        BY <1>7, <2>1, <2>4, HeadTyped, Grown DEF Delivered, HomesType
    <2> QED
        BY <1>10, <2>2, <2>3, <2>4 DEF ApplyHeader
<1>11. CASE OfferPins
    <2>1. bus # <<>> /\ (Taken \/ Ended) /\ UNCHANGED <<leader, chains, badSeal>>
        BY <1>11 DEF OfferPins, Arrives
    <2>2. lane' \in [Home -> [Objects -> {"absent", "intact", "tampered"}]]
        <3>1. PICK n \in 0..Len(Named) :
                 lane' = [p \in Home |->
                    IF p = Head(bus).to THEN lane[Head(bus).to]
                    ELSE [o \in Objects |-> Offered(Head(bus).to, n, o, lane[p][o])]]
            BY <1>11 DEF OfferPins
        <3>2. \A p \in Home, o \in Objects :
                 Offered(Head(bus).to, n, o, lane[p][o]) \in {"absent", "intact", "tampered"}
            BY DEF Offered, HomesType
        <3>3. Head(bus).to \in Home
            BY <2>1, HeadTyped
        <3> QED
            BY <3>1, <3>2, <3>3 DEF HomesType
    <2> QED
        BY <1>2, <1>7, <2>1, <2>2 DEF HomesType, chains
<1>18. CASE KilledInSlot
    <2>1. slot \in 1..MaxSlot /\ mode \in {"net"} \cup Home
        BY <1>18, BoundsAssumption DEF KilledInSlot, ProcessType
    <2>2. (IF mode = "net" THEN leader[slot] ELSE mode) \in Home
        BY <2>1, DrawsAssumption
    <2>3. PICK h \in Home :
             /\ chain' = [chain EXCEPT ![h] = Append(@, [slot |-> slot, leader |-> h])]
             /\ proofs' \in {[proofs EXCEPT ![h] = Append(@, [slot |-> slot, leader |-> h])], proofs}
             /\ headers' \in {[headers EXCEPT ![h] = Append(@, [slot |-> slot, leader |-> h])], headers}
        BY <1>18, <2>2 DEF KilledInSlot
    <2>4. [slot |-> slot, leader |-> h] \in Ring
        BY <2>1 DEF Ring
    <2> DEFINE e == [slot |-> slot, leader |-> h]
    <2>6. /\ chain' = [chain EXCEPT ![h] = Append(@, e)]
          /\ proofs' = [proofs EXCEPT ![h] = Append(@, e)] \/ proofs' = proofs
          /\ headers' = [headers EXCEPT ![h] = Append(@, e)] \/ headers' = headers
        BY <2>3
    <2>7. e \in Ring
        BY <2>4
    <2>8. /\ chain \in [Home -> Seq(Ring)] /\ proofs \in [Home -> Seq(Ring)]
          /\ headers \in [Home -> Seq(Ring)]
        BY DEF HomesType
    <2> HIDE DEF e
    <2>9. /\ [chain EXCEPT ![h] = Append(@, e)] \in [Home -> Seq(Ring)]
          /\ [proofs EXCEPT ![h] = Append(@, e)] \in [Home -> Seq(Ring)]
          /\ [headers EXCEPT ![h] = Append(@, e)] \in [Home -> Seq(Ring)]
        BY <2>7, <2>8, Grown
    <2>5. /\ chain' \in [Home -> Seq(Ring)] /\ proofs' \in [Home -> Seq(Ring)]
          /\ headers' \in [Home -> Seq(Ring)]
        BY <2>6, <2>8, <2>9
    <2> QED
        BY <1>2, <1>18, <2>5 DEF KilledInSlot, HomesType
<1>12. CASE Stop \/ Crash
    BY <1>2, <1>12 DEF Stop, Crash, homes, chains, HomesType
<1>13. ASSUME NEW h \in Home, NEW r \in Receipt(Worker), SubmitReceipt(h, r)
       PROVE  NetType'
    <2>1. r.worker \in Worker
        BY DEF Receipt
    <2>2. buffer' \in [Home -> SUBSET (Home \cup Worker)]
        BY <1>13, <2>1 DEF SubmitReceipt, ProcessType
    <2> QED
        BY <1>13, <2>2 DEF SubmitReceipt, homes, chains, HomesType, ProcessType
<1>14. ASSUME NEW h \in Home, NEW o \in Objects, NEW as \in {"absent", "intact", "tampered"},
              LaneFault(h, o, as)
       PROVE  NetType'
    <2>1. lane' \in [Home -> [Objects -> {"absent", "intact", "tampered"}]]
        BY <1>14 DEF LaneFault, HomesType
    <2> QED
        BY <1>14, <2>1 DEF LaneFault, chains, process, HomesType, ProcessType
<1>15. ASSUME NEW h \in Home, SealFault(h)
       PROVE  NetType'
    BY <1>15 DEF SealFault, chains, process, HomesType, ProcessType
<1>16. CASE UNCHANGED vars
    BY <1>16 DEF vars, homes, chains, process, HomesType, ProcessType
<1>17. First \in Home
    BY HomesAssumption, EmptySeq, LenProperties DEF First
<1> QED
    BY <1>1, <1>4, <1>5, <1>8, <1>9, <1>10, <1>11, <1>12, <1>13, <1>14, <1>15, <1>16, <1>17,
       <1>18
       DEF Next, StartNet, StartPulse

\* Leaders, chains, lanes, buffers and the loop's counters keep their types:
\* slots are counted from a home's height, and never past the bound the runs
\* were opened under (the loop of net_run and pulse).
THEOREM NetTypeCorrect == Spec => []TypeOK
<1>1. NetType => TypeOK
    BY DEF NetType, HomesType, ProcessType, TypeOK
<1> QED
    BY <1>1, NetStarts, NetTyped, PTL DEF Spec

-----------------------------------------------------------------------------
\* Rings and their proofs.  A ring still under way is no worse: its proof has
\* arrived, or is on the bus before it.
ProofAhead(i) ==
    \E j \in 1..(i - 1) :
        /\ bus[j].to = bus[i].to /\ bus[j].message.kind = "slot_header"
        /\ bus[j].message.entry = bus[i].message.entry

RingsInv ==
    /\ RingsAreProven
    /\ \A i \in DOMAIN bus :
          bus[i].message.kind = "ring" =>
             bus[i].message.entry \in ToSet(proofs[bus[i].to]) \/ ProofAhead(i)

\* No ring, and none under way, before the first run.
LEMMA RingsStart == Init => RingsInv
<1>1. ToSet(<<>>) = {}
    BY DEF ToSet
<1> QED
    BY <1>1 DEF Init, RingsInv, RingsAreProven

\* The head is delivered: what was ahead of a ring still is, or has arrived.
LEMMA RingsTaken ==
    ASSUME NetType, RingsInv, bus # <<>>, bus' = Tail(bus), RingsAreProven',
           \A g \in Home : ToSet(proofs[g]) \subseteq ToSet(proofs'[g]),
           Head(bus).message.kind = "slot_header" =>
              Head(bus).message.entry \in ToSet(proofs'[Head(bus).to])
    PROVE  RingsInv'
<1>1. /\ Len(bus) \in Nat \ {0} /\ DOMAIN bus = 1..Len(bus) /\ Head(bus) = bus[1]
      /\ DOMAIN bus' = 1..(Len(bus) - 1)
      /\ \A i \in 1..(Len(bus) - 1) : bus'[i] = bus[i + 1]
      /\ \A i \in 1..Len(bus) : bus[i].to \in Home
    <2>1. bus \in Seq(Delivery)
        BY DEF NetType, ProcessType
    <2>2. \A i \in 1..Len(bus) : bus[i] \in Delivery
        BY <2>1
    <2>3. \A i \in 1..Len(bus) : bus[i].to \in Home
        BY <2>2 DEF Delivery
    <2> QED
        BY <2>1, <2>3, Taking
<1>2. ASSUME NEW i \in 1..(Len(bus) - 1), bus'[i].message.kind = "ring"
      PROVE  bus'[i].message.entry \in ToSet(proofs'[bus'[i].to]) \/ ProofAhead(i)'
    <2>1. i + 1 \in 1..Len(bus) /\ bus'[i] = bus[i + 1]
        BY <1>1
    <2>2. CASE bus[i + 1].message.entry \in ToSet(proofs[bus[i + 1].to])
        BY <1>1, <2>1, <2>2
    <2>3. CASE ProofAhead(i + 1)
        <3>1. PICK j \in 1..i : /\ bus[j].to = bus[i + 1].to
                                /\ bus[j].message.kind = "slot_header"
                                /\ bus[j].message.entry = bus[i + 1].message.entry
            BY <1>1, <2>3 DEF ProofAhead
        <3>2. CASE j = 1
            BY <1>1, <2>1, <3>1, <3>2
        <3>3. CASE j > 1
            <4>1. j - 1 \in 1..(i - 1) /\ j - 1 \in 1..(Len(bus) - 1) /\ (j - 1) + 1 = j
                BY <1>1, <3>3
            <4>2. bus'[j - 1] = bus[j]
                BY <1>1, <4>1
            <4> QED
                BY <2>1, <3>1, <4>1, <4>2 DEF ProofAhead
        <3> QED
            BY <3>1, <3>2, <3>3
    <2> QED
        BY <1>1, <1>2, <2>1, <2>2, <2>3 DEF RingsInv
<1> QED
    BY <1>1, <1>2 DEF RingsInv

\* A home leads: its ring and its proof are kept together.
LEMMA RingsLed ==
    ASSUME NetType, RingsInv, slot \in 1..MaxSlot, NEW h \in Home, NEW b \in BOOLEAN,
           Lead(h, b)
    PROVE  RingsAreProven'
<1>1. [slot |-> slot, leader |-> h] \in Ring
    BY DEF Ring
<1>2. CASE b
    <2>1. /\ chain' = [chain EXCEPT ![h] = Append(@, [slot |-> slot, leader |-> h])]
          /\ proofs' = [proofs EXCEPT ![h] = Append(@, [slot |-> slot, leader |-> h])]
        BY <1>2 DEF Lead
    <2> DEFINE e == [slot |-> slot, leader |-> h]
    <2> HIDE DEF e
    <2>2. \A s \in {proofs[h], chain[h]} : ToSet(Append(s, e)) = ToSet(s) \cup {e}
        BY <1>1, Extended DEF NetType, HomesType, e
    <2>3. chain' = [chain EXCEPT ![h] = Append(@, e)] /\ proofs' = [proofs EXCEPT ![h] = Append(@, e)]
        BY <2>1 DEF e
    <2>4. e.leader = h
        BY DEF e
    <2> QED
        BY <2>2, <2>3, <2>4 DEF NetType, HomesType, RingsInv, RingsAreProven
<1>3. CASE ~b
    BY <1>3 DEF Lead, chains, RingsInv, RingsAreProven
<1> QED
    BY <1>2, <1>3

\* Every step keeps rings behind their proofs, on the homes and on the bus.
LEMMA RingsStep ==
    ASSUME NetType, RingsInv, [Next]_vars
    PROVE  RingsInv'
<1>1. ASSUME UNCHANGED chains, UNCHANGED bus
      PROVE  RingsInv'
    BY <1>1 DEF chains, RingsInv, RingsAreProven, ProofAhead
<1>2. ASSUME UNCHANGED chains, Ended
      PROVE  RingsInv'
    BY <1>2 DEF chains, Ended, RingsInv, RingsAreProven
<1>3. ASSUME RingsAreProven', bus' = <<>>
      PROVE  RingsInv'
    BY <1>3 DEF RingsInv
<1>4. CASE NetSlot
    <2> DEFINE h == leader[slot]
               b == Fresh(h) /\ h \notin badSeal
               q == Append(Deliveries(h), [to |-> h, message |-> [kind |-> "offers"]])
               m == SlotMessages(h)
    <2>1. slot \in 1..MaxSlot /\ bus = <<>>
        BY <1>4, BoundsAssumption DEF NetSlot, NetType, ProcessType
    <2>2. h \in Home /\ b \in BOOLEAN
        BY <2>1, DrawsAssumption DEF NetType
    <2>3. CASE ~Fresh(First)
        BY <1>1, <1>4, <2>3 DEF NetSlot
    <2>4. CASE Fresh(First)
        <3>1. Lead(h, b) /\ bus' = IF b THEN q ELSE <<>>
            BY <1>4, <2>4 DEF NetSlot
        <3>2. SlotSent(q, h)
            BY <2>1, <2>2, Sends
        <3>3. /\ m[1].kind = "slot_header" /\ m[2].kind = "ring" /\ m[3].kind = "header"
              /\ m[1].entry = m[2].entry
            <4> DEFINE e == [slot |-> slot, leader |-> h]
            <4>1. /\ m[1] = [kind |-> "slot_header", entry |-> e, on |-> proofs[h]]
                  /\ m[2] = [kind |-> "ring", entry |-> e, on |-> chain[h]]
                  /\ m[3] = [kind |-> "header", entry |-> e, on |-> headers[h]]
                BY <2>1, <2>2, MessagesTyped, Zenon
            <4> HIDE DEF m, e
            <4> QED
                BY <4>1
        <3>4. /\ \A i \in DOMAIN q : \/ q[i].message.kind = "offers" /\ q[i].to = h
                                     \/ q[i].to # h /\ q[i].message \in {m[1], m[2], m[3]}
              /\ \A i \in DOMAIN q : q[i].message = m[2] =>
                    \E j \in 1..(i - 1) : q[j].to = q[i].to /\ q[j].message = m[1]
            BY <3>2 DEF SlotSent
        <3> HIDE DEF h, b, q, m
        <3>5. RingsAreProven'
            BY <2>1, <2>2, <3>1, RingsLed
        <3>6. CASE b
            <4>1. bus' = q
                BY <3>1, <3>6
            <4>2. ASSUME NEW i \in DOMAIN q, q[i].message.kind = "ring"
                  PROVE  \E j \in 1..(i - 1) : /\ q[j].to = q[i].to
                                               /\ q[j].message.kind = "slot_header"
                                               /\ q[j].message.entry = q[i].message.entry
                <5>1. q[i].message = m[2]
                    BY <3>3, <3>4, <4>2
                <5> QED
                    BY <3>3, <3>4, <5>1
            <4> QED
                BY <3>5, <4>1, <4>2 DEF RingsInv, ProofAhead
        <3>7. CASE ~b
            BY <1>3, <3>1, <3>5, <3>7
        <3> QED
            BY <3>6, <3>7
    <2> QED
        BY <2>3, <2>4
<1>5. CASE PulseSlot
    <2>1. slot \in 1..MaxSlot /\ mode \in Home /\ bus' = bus
        BY <1>5, BoundsAssumption DEF PulseSlot, NetType, ProcessType
    <2>2. CASE mode \in badSeal
        BY <1>1, <1>5, <2>2 DEF PulseSlot
    <2>3. CASE mode \notin badSeal
        <3>1. Lead(mode, Fresh(mode)) /\ Fresh(mode) \in BOOLEAN
            BY <1>5, <2>3 DEF PulseSlot, Fresh
        <3>2. bus = <<>>
            BY <2>1, HomesAssumption DEF NetType, ProcessType
        <3> QED
            BY <1>3, <2>1, <3>1, <3>2, RingsLed
    <2> QED
        BY <2>2, <2>3
<1>6. ASSUME bus # <<>>, Taken, UNCHANGED chain, UNCHANGED proofs,
             Head(bus).message.kind # "slot_header"
      PROVE  RingsInv'
    <2>1. RingsAreProven'
        BY <1>6 DEF RingsInv, RingsAreProven
    <2> QED
        BY <1>6, <2>1, RingsTaken DEF Taken
<1>7. CASE ApplySlotHeader
    <2> DEFINE h == Head(bus).to
               e == Head(bus).message.entry
    <2>1. bus # <<>> /\ Head(bus).message.kind = "slot_header"
        BY <1>7 DEF ApplySlotHeader, Arrives
    <2>2. CASE Raised
        BY <1>2, <2>2 DEF Raised
    <2>3. CASE ~Raised
        <3>1. /\ proofs' = [proofs EXCEPT ![h] = Append(@, e)] /\ chain' = chain /\ Taken
            BY <1>7, <2>3 DEF ApplySlotHeader
        <3>2. h \in Home /\ e \in Ring
            BY <2>1, HeadTyped
        <3>3. ToSet(Append(proofs[h], e)) = ToSet(proofs[h]) \cup {e}
            BY <3>2, Extended DEF NetType, HomesType
        <3> HIDE DEF h, e
        <3>4. /\ RingsAreProven' /\ e \in ToSet(proofs'[h])
              /\ \A g \in Home : ToSet(proofs[g]) \subseteq ToSet(proofs'[g])
            BY <3>1, <3>2, <3>3 DEF NetType, HomesType, RingsInv, RingsAreProven
        <3> QED
            BY <2>1, <3>1, <3>4, RingsTaken DEF Taken, h, e
    <2> QED
        BY <2>2, <2>3
<1>8. CASE ApplyRing
    <2> DEFINE h == Head(bus).to
               e == Head(bus).message.entry
    <2>1. bus # <<>> /\ Head(bus).message.kind = "ring"
        BY <1>8 DEF ApplyRing, Arrives
    <2>2. CASE Raised
        BY <1>2, <2>2 DEF Raised
    <2>3. CASE Taken /\ UNCHANGED <<chains, lane>>
        BY <1>6, <2>1, <2>3 DEF chains
    <2>4. CASE /\ chain' = [chain EXCEPT ![h] = Append(@, e)]
               /\ Taken /\ UNCHANGED <<proofs, headers, lane>>
        <3>1. h \in Home /\ e \in Ring
            BY <2>1, HeadTyped
        <3>2. ToSet(Append(chain[h], e)) = ToSet(chain[h]) \cup {e}
            BY <3>1, Extended DEF NetType, HomesType
        <3>3. e \in ToSet(proofs[h])
            <4>1. bus \in Seq(Delivery)
                BY DEF NetType, ProcessType
            <4>2. 1 \in DOMAIN bus /\ Head(bus) = bus[1]
                BY <2>1, <4>1, Taking
            <4>3. ~ProofAhead(1)
                BY DEF ProofAhead
            <4> QED
                BY <2>1, <4>2, <4>3 DEF RingsInv
        <3> HIDE DEF h, e
        <3>4. RingsAreProven'
            BY <2>4, <3>1, <3>2, <3>3 DEF NetType, HomesType, RingsInv, RingsAreProven
        <3> QED
            BY <2>1, <2>4, <3>4, RingsTaken DEF Taken
    <2> QED
        BY <1>8, <2>2, <2>3, <2>4 DEF ApplyRing
<1>9. CASE ApplyHeader
    <2>1. bus # <<>> /\ Head(bus).message.kind = "header"
        BY <1>9 DEF ApplyHeader, Arrives
    <2>2. CASE Raised
        BY <1>2, <2>2 DEF Raised
    <2>3. CASE Taken /\ UNCHANGED <<chain, proofs>>
        BY <1>6, <2>1, <2>3
    <2> QED
        BY <1>9, <2>2, <2>3 DEF ApplyHeader, chains
<1>10. CASE OfferPins
    <2>1. /\ bus # <<>> /\ Head(bus).message.kind = "offers" /\ UNCHANGED chains
          /\ Taken \/ Ended
        BY <1>10 DEF OfferPins, Arrives
    <2> QED
        BY <1>2, <1>6, <2>1 DEF chains
<1>13. CASE KilledInSlot
    <2>1. slot \in 1..MaxSlot /\ mode \in {"net"} \cup Home
        BY <1>13, BoundsAssumption DEF KilledInSlot, NetType, ProcessType
    <2>2. (IF mode = "net" THEN leader[slot] ELSE mode) \in Home
        BY <2>1, DrawsAssumption DEF NetType
    <2>3. PICK h \in Home :
             /\ chain' = [chain EXCEPT ![h] = Append(@, [slot |-> slot, leader |-> h])]
             /\ proofs' \in {[proofs EXCEPT ![h] = Append(@, [slot |-> slot, leader |-> h])], proofs}
        BY <1>13, <2>2 DEF KilledInSlot
    <2> DEFINE e == [slot |-> slot, leader |-> h]
    <2>4. e \in Ring /\ e.leader = h
        BY <2>1 DEF Ring
    <2>5. /\ chain' = [chain EXCEPT ![h] = Append(@, e)]
          /\ proofs' \in {[proofs EXCEPT ![h] = Append(@, e)], proofs}
        BY <2>3
    <2> HIDE DEF e
    <2>6. \A s \in {proofs[h], chain[h]} : ToSet(Append(s, e)) = ToSet(s) \cup {e}
        BY <2>4, Extended DEF NetType, HomesType
    <2>7. RingsAreProven'
        BY <2>4, <2>5, <2>6 DEF NetType, HomesType, RingsInv, RingsAreProven
    <2> QED
        BY <1>3, <1>13, <2>7 DEF KilledInSlot, Ended
<1>11. CASE Stop \/ Crash
    BY <1>2, <1>11 DEF Stop, Crash, homes
<1>12. CASE \/ \E m, h, opened, n : Open(m, h, opened, n)
            \/ \E h \in Home, r \in Receipt(Worker) : SubmitReceipt(h, r)
            \/ \E h \in Home, o \in Objects, as \in {"absent", "intact", "tampered"} : LaneFault(h, o, as)
            \/ \E h \in Home : SealFault(h)
            \/ UNCHANGED vars
    BY <1>1, <1>12 DEF Open, SubmitReceipt, LaneFault, SealFault, vars, homes, process
<1> QED
    BY <1>4, <1>5, <1>7, <1>8, <1>9, <1>10, <1>11, <1>12, <1>13 DEF Next, StartNet, StartPulse

\* A home never follows a ring without its proof of space (_apply_ring after
\* _apply_slot_header, produce_slot's order of broadcasts), whatever runs died
\* and whatever was written, or under way, when they did.
THEOREM RingsMustBeProven == Spec => []RingsAreProven
<1>1. RingsInv => RingsAreProven
    BY DEF RingsInv
<1> QED
    BY <1>1, NetStarts, NetTyped, RingsStart, RingsStep, PTL DEF Spec

-----------------------------------------------------------------------------
\* Homes that only ever run together.  Between slots they are alike; inside
\* one, a home's chain is the common one, already extended by the slot's entry
\* where nothing of that kind is still on its way to it.
Kinds == {"slot_header", "ring", "header"}
Waits(h, k) == \E i \in DOMAIN bus : bus[i].to = h /\ bus[i].message.kind = k

Alike ==
    \A g, h \in Home : /\ chain[g] = chain[h] /\ proofs[g] = proofs[h]
                       /\ headers[g] = headers[h] /\ chain[h] = headers[h]

Once ==
    \A i, j \in DOMAIN bus :
        (/\ bus[i].to = bus[j].to /\ bus[i].message.kind \in Kinds
         /\ bus[i].message.kind = bus[j].message.kind) => i = j

OffersLast == \A i, j \in DOMAIN bus : bus[i].message.kind = "offers" => j <= i

Along(c, p, e) ==
    /\ \A h \in Home :
          /\ chain[h] = IF Waits(h, "ring") THEN c ELSE Append(c, e)
          /\ proofs[h] = IF Waits(h, "slot_header") THEN p ELSE Append(p, e)
          /\ headers[h] = IF Waits(h, "header") THEN c ELSE Append(c, e)
          /\ e.slot <= lastPass[h] + Gap
    /\ \A i \in DOMAIN bus :
          bus[i].message.kind \in Kinds =>
             /\ bus[i].message.entry = e
             /\ bus[i].message.on = IF bus[i].message.kind = "slot_header" THEN p ELSE c
    /\ Once /\ OffersLast

AgreeInv ==
    ~disturbed =>
        /\ mode \in {"idle", "net"}
        /\ \A g, h \in Home : lastPass[g] = lastPass[h]
        /\ IF bus = <<>> THEN Alike ELSE \E c, p \in Seq(Ring), e \in Ring : Along(c, p, e)

\* Empty chains are alike.
LEMMA AgreeStarts == Init => AgreeInv
BY DEF Init, AgreeInv, Alike

\* The head is what its home waits for, and the only one of its kind.
LEMMA WaitsTaken ==
    ASSUME NetType, bus # <<>>, bus' = Tail(bus), Once
    PROVE  /\ Waits(Head(bus).to, Head(bus).message.kind)
           /\ \A g \in Home, k \in Kinds :
                 Waits(g, k)' <=> /\ Waits(g, k)
                                  /\ ~(g = Head(bus).to /\ k = Head(bus).message.kind)
           /\ Once'
           /\ \A i \in DOMAIN bus' : \E j \in DOMAIN bus : bus'[i] = bus[j]
           /\ \E j \in DOMAIN bus : Head(bus) = bus[j]
<1> DEFINE n == Len(bus)
<1>1. /\ n \in Nat \ {0} /\ DOMAIN bus = 1..n /\ Head(bus) = bus[1]
      /\ DOMAIN bus' = 1..(n - 1) /\ \A i \in 1..(n - 1) : bus'[i] = bus[i + 1]
    BY Taking DEF NetType, ProcessType
<1> HIDE DEF n
<1>2. 1 \in DOMAIN bus
    BY <1>1
<1>3. \A i \in 1..(n - 1) : i + 1 \in DOMAIN bus /\ i + 1 # 1
    BY <1>1
<1>4. Once'
    <2> SUFFICES ASSUME NEW i \in 1..(n - 1), NEW j \in 1..(n - 1),
                        bus'[i].to = bus'[j].to, bus'[i].message.kind \in Kinds,
                        bus'[i].message.kind = bus'[j].message.kind
                 PROVE  i = j
        BY <1>1 DEF Once
    <2>1. i + 1 = j + 1
        BY <1>1, <1>3 DEF Once
    <2> QED
        BY <1>1, <2>1
<1>5. ASSUME NEW g \in Home, NEW k \in Kinds, Waits(g, k)'
      PROVE  Waits(g, k) /\ ~(g = Head(bus).to /\ k = Head(bus).message.kind)
    <2>1. PICK i \in 1..(n - 1) : bus'[i].to = g /\ bus'[i].message.kind = k
        BY <1>1, <1>5 DEF Waits
    <2>2. i + 1 \in DOMAIN bus /\ i + 1 # 1 /\ bus[i + 1].to = g /\ bus[i + 1].message.kind = k
        BY <1>1, <1>3, <2>1
    <2> QED
        BY <1>1, <1>2, <2>2 DEF Waits, Once
<1>6. ASSUME NEW g \in Home, NEW k \in Kinds, Waits(g, k),
             ~(g = Head(bus).to /\ k = Head(bus).message.kind)
      PROVE  Waits(g, k)'
    <2>1. PICK i \in 1..n : bus[i].to = g /\ bus[i].message.kind = k
        BY <1>1, <1>6 DEF Waits
    <2>2. i # 1
        BY <1>1, <1>6, <2>1
    <2>3. i - 1 \in 1..(n - 1) /\ (i - 1) + 1 = i
        BY <1>1, <2>2
    <2>4. bus'[i - 1] = bus[i]
        BY <1>1, <2>3
    <2> QED
        BY <1>1, <2>1, <2>3, <2>4 DEF Waits
<1> QED
    BY <1>1, <1>2, <1>3, <1>4, <1>5, <1>6 DEF Waits

\* One delivery of a slot under way.
LEMMA AlongTaken ==
    ASSUME NetType, NEW c \in Seq(Ring), NEW p \in Seq(Ring), NEW e \in Ring, Along(c, p, e),
           bus # <<>>, bus' = Tail(bus), lastPass' = lastPass,
           \/ /\ Head(bus).message.kind = "slot_header"
              /\ proofs' = [proofs EXCEPT ![Head(bus).to] = Append(@, e)]
              /\ chain' = chain /\ headers' = headers
           \/ /\ Head(bus).message.kind = "ring"
              /\ chain' = [chain EXCEPT ![Head(bus).to] = Append(@, e)]
              /\ proofs' = proofs /\ headers' = headers
           \/ /\ Head(bus).message.kind = "header"
              /\ headers' = [headers EXCEPT ![Head(bus).to] = Append(@, e)]
              /\ chain' = chain /\ proofs' = proofs
           \/ /\ Head(bus).message.kind = "offers"
              /\ UNCHANGED chains
    PROVE  Along(c, p, e)'
<1> DEFINE t == Head(bus).to
           k == Head(bus).message.kind
<1>1. /\ Waits(t, k) /\ Once'
      /\ \A g \in Home, x \in Kinds : Waits(g, x)' <=> Waits(g, x) /\ ~(g = t /\ x = k)
      /\ \A i \in DOMAIN bus' : \E j \in DOMAIN bus : bus'[i] = bus[j]
    BY WaitsTaken, Zenon DEF Along
<1>2. \A i \in DOMAIN bus' :
          bus'[i].message.kind \in Kinds =>
             /\ bus'[i].message.entry = e
             /\ bus'[i].message.on = IF bus'[i].message.kind = "slot_header" THEN p ELSE c
    BY <1>1 DEF Along
<1>3. t \in Home
    BY HeadTyped
<1>5. OffersLast'
    <2>1. /\ Len(bus) \in Nat \ {0} /\ DOMAIN bus = 1..Len(bus)
          /\ DOMAIN bus' = 1..(Len(bus) - 1)
          /\ \A i \in 1..(Len(bus) - 1) : bus'[i] = bus[i + 1]
        BY Taking DEF NetType, ProcessType
    <2>2. ASSUME NEW i \in DOMAIN bus', NEW j \in DOMAIN bus', bus'[i].message.kind = "offers"
          PROVE  j <= i
        <3>1. i + 1 \in DOMAIN bus /\ j + 1 \in DOMAIN bus /\ bus[i + 1].message.kind = "offers"
            BY <2>1, <2>2
        <3>2. j + 1 <= i + 1
            BY <3>1 DEF Along, OffersLast
        <3> QED
            BY <2>1, <3>2
    <2> QED
        BY <2>2 DEF OffersLast
<1> HIDE DEF t, k
<1>4. ASSUME NEW h \in Home
      PROVE  /\ chain'[h] = IF Waits(h, "ring")' THEN c ELSE Append(c, e)
             /\ proofs'[h] = IF Waits(h, "slot_header")' THEN p ELSE Append(p, e)
             /\ headers'[h] = IF Waits(h, "header")' THEN c ELSE Append(c, e)
             /\ e.slot <= lastPass'[h] + Gap
    <2>1. /\ chain[h] = IF Waits(h, "ring") THEN c ELSE Append(c, e)
          /\ proofs[h] = IF Waits(h, "slot_header") THEN p ELSE Append(p, e)
          /\ headers[h] = IF Waits(h, "header") THEN c ELSE Append(c, e)
          /\ e.slot <= lastPass[h] + Gap
        BY DEF Along
    <2>2. \A x \in Kinds : Waits(h, x)' <=> Waits(h, x) /\ ~(h = t /\ x = k)
        BY <1>1
    <2>3. /\ chain'[h] = IF h = t /\ k = "ring" THEN Append(chain[h], e) ELSE chain[h]
          /\ proofs'[h] = IF h = t /\ k = "slot_header" THEN Append(proofs[h], e) ELSE proofs[h]
          /\ headers'[h] = IF h = t /\ k = "header" THEN Append(headers[h], e) ELSE headers[h]
        BY <1>3 DEF t, k, chains, NetType, HomesType
    <2>4. h = t => Waits(h, k)
        BY <1>1
    <2> QED
        BY <2>1, <2>2, <2>3, <2>4 DEF Kinds
<1> QED
    BY <1>1, <1>2, <1>4, <1>5 DEF Along

\* A slot begins: the leader has extended its own, the others wait for it all.
LEMMA AlongStarts ==
    ASSUME NetType, Alike, slot \in 1..MaxSlot, NEW h \in Home, Lead(h, TRUE),
           bus' = Append(Deliveries(h), [to |-> h, message |-> [kind |-> "offers"]]),
           \A g \in Home : slot <= lastPass[g] + Gap, lastPass' = lastPass
    PROVE  bus' # <<>> /\ \E c, p \in Seq(Ring), e \in Ring : Along(c, p, e)'
<1> DEFINE m == SlotMessages(h)
           entry == [slot |-> slot, leader |-> h]
<1>1. /\ entry \in Ring
      /\ m[1] = [kind |-> "slot_header", entry |-> entry, on |-> proofs[h]]
      /\ m[2] = [kind |-> "ring", entry |-> entry, on |-> chain[h]]
      /\ m[3] = [kind |-> "header", entry |-> entry, on |-> headers[h]]
    BY MessagesTyped, Zenon
<1>2. SlotSent(bus', h)
    BY Sends
<1>3. /\ chain' = [chain EXCEPT ![h] = Append(@, entry)]
      /\ proofs' = [proofs EXCEPT ![h] = Append(@, entry)]
      /\ headers' = [headers EXCEPT ![h] = Append(@, entry)]
      /\ entry.slot = slot
    BY DEF Lead
<1>4. /\ bus' # <<>>
      /\ \A i \in DOMAIN bus' : \/ bus'[i].message.kind = "offers" /\ bus'[i].to = h
                                \/ bus'[i].to # h /\ bus'[i].message \in {m[1], m[2], m[3]}
      /\ \A i, j \in DOMAIN bus' :
            bus'[i].to = bus'[j].to /\ bus'[i].message = bus'[j].message => i = j
      /\ \A g \in Home \ {h}, k \in 1..3 :
            \E i \in DOMAIN bus' : bus'[i].to = g /\ bus'[i].message = m[k]
    BY <1>2 DEF SlotSent
<1> HIDE DEF m, entry
<1>5. /\ m[1].kind = "slot_header" /\ m[2].kind = "ring" /\ m[3].kind = "header"
      /\ m[1].entry = entry /\ m[2].entry = entry /\ m[3].entry = entry
      /\ m[1].on = proofs[h] /\ m[2].on = chain[h] /\ m[3].on = chain[h]
    BY <1>1 DEF Alike
<1>6. chain[h] \in Seq(Ring) /\ proofs[h] \in Seq(Ring)
    BY DEF NetType, HomesType
<1>7. PICK c \in Seq(Ring), p \in Seq(Ring), e \in Ring : c = chain[h] /\ p = proofs[h] /\ e = entry
    BY <1>1, <1>6
<1>8. \A i \in DOMAIN bus' :
          bus'[i].message.kind \in Kinds =>
             /\ bus'[i].to # h /\ bus'[i].message \in {m[1], m[2], m[3]}
             /\ bus'[i].message.entry = e
             /\ bus'[i].message.on = IF bus'[i].message.kind = "slot_header" THEN p ELSE c
    BY <1>4, <1>5, <1>7 DEF Kinds
<1>9. Once'
    <2>1. ASSUME NEW i \in DOMAIN bus', NEW j \in DOMAIN bus',
                 bus'[i].to = bus'[j].to, bus'[i].message.kind \in Kinds,
                 bus'[i].message.kind = bus'[j].message.kind
          PROVE  i = j
        <3>1. bus'[j].message.kind \in Kinds
            BY <2>1
        <3>2. /\ bus'[i].message \in {m[1], m[2], m[3]}
              /\ bus'[j].message \in {m[1], m[2], m[3]}
            BY <1>8, <2>1, <3>1
        <3>3. bus'[i].message = bus'[j].message
            BY <1>5, <2>1, <3>2
        <3> QED
            BY <1>4, <2>1, <3>3
    <2> QED
        BY <2>1 DEF Once
<1>10. ASSUME NEW g \in Home \ {h}
       PROVE  Waits(g, "slot_header")' /\ Waits(g, "ring")' /\ Waits(g, "header")'
    <2>1. ASSUME NEW k \in 1..3
          PROVE  \E i \in DOMAIN bus' : bus'[i].to = g /\ bus'[i].message.kind = m[k].kind
        BY <1>4
    <2>2. 1 \in 1..3 /\ 2 \in 1..3 /\ 3 \in 1..3
        OBVIOUS
    <2> QED
        BY <1>5, <2>1, <2>2 DEF Waits
<1>11. ~Waits(h, "slot_header")' /\ ~Waits(h, "ring")' /\ ~Waits(h, "header")'
    BY <1>8 DEF Waits, Kinds
<1>12. ASSUME NEW g \in Home
       PROVE  /\ chain'[g] = IF Waits(g, "ring")' THEN c ELSE Append(c, e)
              /\ proofs'[g] = IF Waits(g, "slot_header")' THEN p ELSE Append(p, e)
              /\ headers'[g] = IF Waits(g, "header")' THEN c ELSE Append(c, e)
              /\ e.slot <= lastPass'[g] + Gap
    <2>1. chain[g] = c /\ proofs[g] = p /\ headers[g] = c
        BY <1>7 DEF Alike
    <2>2. /\ chain'[g] = IF g = h THEN Append(c, e) ELSE c
          /\ proofs'[g] = IF g = h THEN Append(p, e) ELSE p
          /\ headers'[g] = IF g = h THEN Append(c, e) ELSE c
        BY <1>3, <1>7, <2>1 DEF NetType, HomesType
    <2>3. e.slot <= lastPass'[g] + Gap
        BY <1>3, <1>7
    <2> QED
        BY <1>10, <1>11, <2>2, <2>3
<1>14. OffersLast'
    BY <1>2 DEF SlotSent, OffersLast
<1>13. Along(c, p, e)'
    BY <1>8, <1>9, <1>12, <1>14 DEF Along
<1> QED
    BY <1>4, <1>13

\* Every step that does not disturb keeps the homes alike, or on the way to it.
LEMMA AgreeStep ==
    ASSUME NetType, AgreeInv, [Next]_vars
    PROVE  AgreeInv'
<1> SUFFICES ASSUME ~disturbed'
             PROVE  AgreeInv'
    BY DEF AgreeInv
<1>1. disturbed' = disturbed \/ disturbed' = TRUE \/ Crash
    BY DEF Next, StartNet, StartPulse, Stop, NetSlot, PulseSlot, KilledInSlot, ApplySlotHeader,
           ApplyRing, ApplyHeader, OfferPins, Delivered, SubmitReceipt, LaneFault, SealFault,
           history, vars
<1>2. /\ ~disturbed /\ mode \in {"idle", "net"} /\ \A g, h \in Home : lastPass[g] = lastPass[h]
      /\ IF bus = <<>> THEN Alike ELSE \E c, p \in Seq(Ring), e \in Ring : Along(c, p, e)
    <2>1. ~disturbed
        <3>1. Crash => (disturbed' <=> disturbed \/ bus # <<>>)
            BY DEF Crash
        <3> QED
            BY <1>1, <3>1
    <2> QED
        BY <2>1 DEF AgreeInv
<1>3. ASSUME UNCHANGED <<chains, bus, lastPass, mode>>
      PROVE  AgreeInv'
    <2>1. CASE bus = <<>>
        BY <1>2, <1>3, <2>1 DEF AgreeInv, Alike, chains
    <2>2. CASE bus # <<>>
        <3>1. PICK c \in Seq(Ring), p \in Seq(Ring), e \in Ring : Along(c, p, e)
            BY <1>2, <2>2
        <3>2. Along(c, p, e)'
                BY <1>3, <3>1 DEF Along, Once, OffersLast, Waits, chains
        <3> QED
            BY <1>2, <1>3, <2>2, <3>2 DEF AgreeInv
    <2> QED
        BY <2>1, <2>2
<1>4. ASSUME UNCHANGED chains, Ended, bus = <<>>
      PROVE  AgreeInv'
    BY <1>2, <1>4 DEF AgreeInv, Alike, chains, Ended
<1>5. ASSUME NEW m, NEW h, NEW opened, NEW n, Open(m, h, opened, n), m = "net"
      PROVE  AgreeInv'
    <2>1. bus = <<>>
        BY <1>5 DEF Open, NetType, ProcessType
    <2>2. Alike
        BY <1>2, <2>1
    <2>3. /\ mode' = "net" /\ bus' = bus /\ lastPass' = [g \in Home |-> Len(chain[g]) + 1]
          /\ UNCHANGED chains
        BY <1>5 DEF Open, Refreshed, Height, homes
    <2>4. \A g, x \in Home : lastPass'[g] = lastPass'[x]
        BY <2>2, <2>3 DEF Alike
    <2> QED
        BY <2>1, <2>2, <2>3, <2>4 DEF AgreeInv, Alike, chains
<1>6. CASE NetSlot
    <2> DEFINE h == leader[slot]
               q == Append(Deliveries(h), [to |-> h, message |-> [kind |-> "offers"]])
    <2>1. /\ slot \in 1..MaxSlot /\ bus = <<>> /\ lastPass' = lastPass /\ mode' = mode
        BY <1>6, BoundsAssumption DEF NetSlot, NetType, ProcessType
    <2>2. h \in Home
        BY <2>1, DrawsAssumption DEF NetType
    <2>3. CASE ~Fresh(First)
        BY <1>3, <1>6, <2>1, <2>3 DEF NetSlot
    <2>4. CASE Fresh(First) /\ Fresh(h) /\ h \notin badSeal
        <3>1. Lead(h, TRUE) /\ bus' = q
            BY <1>6, <2>4 DEF NetSlot
        <3>2. \A g \in Home : slot <= lastPass[g] + Gap
            BY <1>2, <2>2, <2>4 DEF Fresh
        <3>3. Alike
            BY <1>2, <2>1
        <3> HIDE DEF h
        <3>4. bus' # <<>> /\ \E c, p \in Seq(Ring), e \in Ring : Along(c, p, e)'
            BY <2>1, <2>2, <3>1, <3>2, <3>3, AlongStarts
        <3> QED
            BY <1>2, <2>1, <3>4 DEF AgreeInv
    <2>5. CASE Fresh(First) /\ ~(Fresh(h) /\ h \notin badSeal)
        <3>1. Lead(h, FALSE) /\ bus' = <<>>
            BY <1>6, <2>5 DEF NetSlot
        <3> QED
            BY <1>3, <2>1, <3>1 DEF Lead
    <2> QED
        BY <2>3, <2>4, <2>5
<1>7. ASSUME PulseSlot
      PROVE  FALSE
    BY <1>2, <1>7, HomesAssumption DEF PulseSlot
<1>8. ASSUME NEW c \in Seq(Ring), NEW p \in Seq(Ring), NEW e \in Ring, Along(c, p, e)', Taken
      PROVE  AgreeInv'
    <2>1. CASE bus' = <<>>
        <3>1. Alike'
            <4>1. \A h \in Home, k \in Kinds : ~Waits(h, k)'
                BY <2>1 DEF Waits
            <4> QED
                BY <1>8, <4>1 DEF Along, Alike, Kinds
        <3> QED
            BY <1>2, <1>8, <2>1, <3>1 DEF AgreeInv, Taken
    <2>2. CASE bus' # <<>>
        BY <1>2, <1>8, <2>2 DEF AgreeInv, Taken
    <2> QED
        BY <2>1, <2>2
\* Inside a slot, no delivery finds anything amiss.
<1>9. ASSUME bus # <<>>, NEW c \in Seq(Ring), NEW p \in Seq(Ring), NEW e \in Ring, Along(c, p, e)
      PROVE  /\ Head(bus).to \in Home
             /\ Head(bus).message.kind \in Kinds =>
                  /\ Head(bus).message.entry = e
                  /\ Head(bus).message.on = IF Head(bus).message.kind = "slot_header" THEN p ELSE c
             /\ Head(bus).message.kind = "slot_header" => proofs[Head(bus).to] = p
             /\ Head(bus).message.kind = "ring" => chain[Head(bus).to] = c
             /\ Head(bus).message.kind = "header" => headers[Head(bus).to] = c
             /\ e.slot <= lastPass[Head(bus).to] + Gap
    <2>1. Waits(Head(bus).to, Head(bus).message.kind) /\ \E j \in DOMAIN bus : Head(bus) = bus[j]
        <3>1. 1 \in DOMAIN bus /\ Head(bus) = bus[1]
            BY <1>9, Taking DEF NetType, ProcessType
        <3> QED
            BY <3>1 DEF Waits
    <2>2. Head(bus).to \in Home
        BY <1>9, HeadTyped
    <2> QED
        BY <1>9, <2>1, <2>2 DEF Along
<1>10. CASE ApplySlotHeader
    <2>1. bus # <<>> /\ Head(bus).message.kind = "slot_header"
        BY <1>10 DEF ApplySlotHeader, Arrives
    <2>2. PICK c \in Seq(Ring), p \in Seq(Ring), e \in Ring : Along(c, p, e)
        BY <1>2, <2>1
    <2>3. /\ Head(bus).message.entry = e /\ Head(bus).message.on = proofs[Head(bus).to]
        BY <1>9, <2>1, <2>2 DEF Kinds
    <2>4. /\ proofs' = [proofs EXCEPT ![Head(bus).to] = Append(@, e)]
          /\ Taken /\ chain' = chain /\ headers' = headers
        BY <1>10, <2>3 DEF ApplySlotHeader
    <2>5. Along(c, p, e)'
        BY <2>1, <2>2, <2>4, AlongTaken DEF Taken
    <2> QED
        BY <1>8, <2>4, <2>5
<1>11. CASE ApplyRing
    <2>1. bus # <<>> /\ Head(bus).message.kind = "ring"
        BY <1>11 DEF ApplyRing, Arrives
    <2>2. PICK c \in Seq(Ring), p \in Seq(Ring), e \in Ring : Along(c, p, e)
        BY <1>2, <2>1
    <2>3. /\ Head(bus).message.entry = e /\ Head(bus).message.on = chain[Head(bus).to]
        BY <1>9, <2>1, <2>2 DEF Kinds
    <2>4. /\ chain' = [chain EXCEPT ![Head(bus).to] = Append(@, e)]
          /\ Taken /\ proofs' = proofs /\ headers' = headers
        BY <1>11, <2>3 DEF ApplyRing, Height
    <2>5. Along(c, p, e)'
        BY <2>1, <2>2, <2>4, AlongTaken DEF Taken
    <2> QED
        BY <1>8, <2>4, <2>5
<1>12. CASE ApplyHeader
    <2>1. bus # <<>> /\ Head(bus).message.kind = "header"
        BY <1>12 DEF ApplyHeader, Arrives
    <2>2. PICK c \in Seq(Ring), p \in Seq(Ring), e \in Ring : Along(c, p, e)
        BY <1>2, <2>1
    <2>3. /\ Head(bus).message.entry = e /\ Head(bus).message.on = headers[Head(bus).to]
          /\ e.slot <= lastPass[Head(bus).to] + Gap
        BY <1>9, <2>1, <2>2 DEF Kinds
    <2>4. /\ headers' = [headers EXCEPT ![Head(bus).to] = Append(@, e)]
          /\ Taken /\ proofs' = proofs /\ chain' = chain
        BY <1>12, <2>3 DEF ApplyHeader, DrawnBy
    <2>5. Along(c, p, e)'
        BY <2>1, <2>2, <2>4, AlongTaken DEF Taken
    <2> QED
        BY <1>8, <2>4, <2>5
<1>13. CASE OfferPins
    <2>1. /\ bus # <<>> /\ Head(bus).message.kind = "offers" /\ UNCHANGED chains
          /\ Taken \/ Ended
        BY <1>13 DEF OfferPins, Arrives
    <2>2. PICK c \in Seq(Ring), p \in Seq(Ring), e \in Ring : Along(c, p, e)
        BY <1>2, <2>1
    <2>3. CASE Taken
        <3>1. Along(c, p, e)'
            BY <2>1, <2>2, <2>3, AlongTaken DEF Taken
        <3> QED
            BY <1>8, <2>3, <3>1
\* The run is over: by now nobody waits for anything.
    <2>4. CASE Ended
        <3>1. \A h \in Home, k \in Kinds : ~Waits(h, k)
            <4>1. /\ Len(bus) \in Nat \ {0} /\ DOMAIN bus = 1..Len(bus) /\ Head(bus) = bus[1]
                BY <2>1, Taking DEF NetType, ProcessType
            <4>2. \A j \in DOMAIN bus : j <= 1
                BY <2>1, <2>2, <4>1 DEF Along, OffersLast
            <4>3. \A j \in DOMAIN bus : bus[j] = Head(bus)
                BY <4>1, <4>2
            <4> QED
                BY <2>1, <4>3 DEF Waits, Kinds
        <3>2. Alike
            BY <2>2, <3>1 DEF Along, Alike, Kinds
        <3> QED
            BY <1>2, <2>1, <2>4, <3>2 DEF AgreeInv, Alike, chains, Ended
    <2> QED
        BY <2>1, <2>3, <2>4
<1>14. CASE Stop
    BY <1>4, <1>14 DEF Stop, homes
<1>15. CASE Crash
    BY <1>4, <1>15 DEF Crash, homes
<1>18. CASE KilledInSlot
    BY <1>18 DEF KilledInSlot
<1>16. CASE \/ \E h \in Home, r \in Receipt(Worker) : SubmitReceipt(h, r)
            \/ \E h \in Home, o \in Objects, as \in {"absent", "intact", "tampered"} : LaneFault(h, o, as)
            \/ \E h \in Home : SealFault(h)
            \/ UNCHANGED vars
    BY <1>3, <1>16 DEF SubmitReceipt, LaneFault, SealFault, vars, homes, process
<1>17. ASSUME NEW h \in Home, NEW n \in RunLengths, StartPulse(h, n)
       PROVE  FALSE
    BY <1>17 DEF StartPulse
<1> QED
    BY <1>5, <1>6, <1>7, <1>10, <1>11, <1>12, <1>13, <1>14, <1>15, <1>16, <1>17,
       <1>18
       DEF Next, StartNet

\* Homes that only ever ran together agree whenever no slot is under way
\* (net_run's "converged"), for any number of homes, draws and slots.
THEOREM NetMustAgree == Spec => []NetAgrees
<1>1. AgreeInv => NetAgrees
    BY DEF AgreeInv, Alike, NetAgrees
<1> QED
    BY <1>1, NetStarts, NetTyped, AgreeStarts, AgreeStep, PTL DEF Spec

-----------------------------------------------------------------------------
\* Rot.  Only a fault of its own disk makes a home's object rot.
LEMMA RotStarts == Init => RotStaysPut
BY DEF Init, RotStaysPut

\* Every step keeps rot where faults put it: offers decline bytes that are not
\* their name's, and what they store is its name's.
LEMMA RotStep ==
    ASSUME NetType, RotStaysPut, [Next]_vars
    PROVE  RotStaysPut'
<1>1. ASSUME UNCHANGED <<lane, rotted>>
      PROVE  RotStaysPut'
    BY <1>1 DEF RotStaysPut
<1>2. CASE OfferPins
    <2>1. PICK n \in 0..Len(Named) :
             lane' = [p \in Home |->
                IF p = Head(bus).to THEN lane[Head(bus).to]
                ELSE [o \in Objects |-> Offered(Head(bus).to, n, o, lane[p][o])]]
        BY <1>2 DEF OfferPins
    <2>2. rotted' = rotted
        BY <1>2 DEF OfferPins
    <2>3. ASSUME NEW p \in Home, NEW o \in Objects, lane'[p][o] = "tampered"
          PROVE  lane[p][o] = "tampered"
        BY <2>1, <2>3 DEF Offered
    <2> QED
        BY <2>2, <2>3 DEF RotStaysPut
<1>3. ASSUME NEW h \in Home, NEW o \in Objects, NEW as \in {"absent", "intact", "tampered"},
             LaneFault(h, o, as)
      PROVE  RotStaysPut'
    <2>1. /\ lane' = [lane EXCEPT ![h][o] = as] /\ rotted \subseteq rotted'
          /\ as = "tampered" => <<h, o>> \in rotted'
        BY <1>3 DEF LaneFault
    <2>2. ASSUME NEW g \in Home, NEW p \in Objects, lane'[g][p] = "tampered"
          PROVE  <<g, p>> \in rotted'
        <3>1. CASE g = h /\ p = o
            BY <2>1, <2>2, <3>1 DEF NetType, HomesType
        <3>2. CASE ~(g = h /\ p = o)
            <4>1. lane[g][p] = "tampered"
                BY <2>1, <2>2, <3>2 DEF NetType, HomesType
            <4> QED
                BY <2>1, <4>1 DEF RotStaysPut
        <3> QED
            BY <3>1, <3>2
    <2> QED
        BY <2>2 DEF RotStaysPut
<1>4. CASE Stop \/ Crash \/ NetSlot \/ PulseSlot \/ KilledInSlot \/ UNCHANGED vars
    BY <1>1, <1>4 DEF Stop, Crash, NetSlot, PulseSlot, KilledInSlot, vars, homes, history
<1>5. ASSUME NEW n \in RunLengths, StartNet(n) \/ \E h \in Home : StartPulse(h, n)
      PROVE  RotStaysPut'
    BY <1>1, <1>5 DEF StartNet, StartPulse, Open, homes
<1>6. CASE ApplySlotHeader \/ ApplyRing \/ ApplyHeader
    BY <1>1, <1>6 DEF ApplySlotHeader, ApplyRing, ApplyHeader, Raised, Delivered, history
<1>7. CASE \/ \E h \in Home, r \in Receipt(Worker) : SubmitReceipt(h, r)
           \/ \E h \in Home : SealFault(h)
    BY <1>1, <1>7 DEF SubmitReceipt, SealFault, homes
<1> QED
    BY <1>2, <1>3, <1>4, <1>5, <1>6, <1>7 DEF Next

\* Bytes that are not their name's are found only where a fault put them,
\* however many homes that hold some lead and offer (_apply_pin_offer hashes
\* before it stores), for any objects and any names they are stored under.
THEOREM RotMustStayPut == Spec => []RotStaysPut
BY NetStarts, NetTyped, RotStarts, RotStep, PTL DEF Spec

-----------------------------------------------------------------------------
\* What a slot pays.  An even part of a pot is a number.
LEMMA EachTyped ==
    ASSUME NEW A, IsFiniteSet(A), A # {}, NEW pot \in Nat
    PROVE  /\ Cardinality(A) \in Nat \ {0} /\ Each(A, pot) \in Nat
           /\ Each(A, pot) * Cardinality(A) <= pot
<1>1. Cardinality(A) \in Nat \ {0}
    BY FS_EmptySet, FS_CardinalityType
<1>2. \A k \in Nat \ {0} : pot \div k \in Nat /\ (pot \div k) * k <= pot
    OBVIOUS
<1> QED
    BY <1>1, <1>2 DEF Each

\* And so is what is left over.
LEMMA UnpaidTyped ==
    ASSUME NEW A, IsFiniteSet(A), NEW pot \in Nat
    PROVE  Unpaid(A, pot) \in Nat
<1>1. CASE A # {}
    <2> DEFINE n == Cardinality(A)
               each == Each(A, pot)
    <2>1. n \in Nat /\ each \in Nat /\ each * n <= pot
        BY <1>1, EachTyped
    <2>2. Unpaid(A, pot) = pot - each * n
        BY <1>1 DEF Unpaid
    <2> HIDE DEF n, each
    <2>3. each * n \in Nat
        BY <2>1
    <2>4. \A x \in Nat : x <= pot => pot - x \in Nat
        OBVIOUS
    <2> QED
        BY <2>1, <2>2, <2>3, <2>4
<1> QED
    BY <1>1 DEF Unpaid

\* The parts of a pot are as many as the accounts that share it.
LEMMA SplitTyped ==
    ASSUME NEW A, IsFiniteSet(A), NEW pot \in Nat, NEW reason
    PROVE  /\ IsFiniteSet(Split(A, pot, reason))
           /\ Cardinality(Split(A, pot, reason)) = Cardinality(A)
           /\ \A c \in Split(A, pot, reason) : /\ c.amount = Each(A, pot) /\ c.amount \in Nat
                                               /\ c.reason = reason /\ c.account \in A
           /\ \A a \in A : \E c \in Split(A, pot, reason) : c.account = a /\ c.reason = reason
<1> DEFINE S == Split(A, pot, reason)
           part == [a \in A |-> Credit(a, Each(A, pot), reason)]
<1>1. S = {part[a] : a \in A}
    BY DEF Split
<1>2. \A a \in A : part[a].account = a /\ part[a].amount = Each(A, pot) /\ part[a].reason = reason
    BY DEF Credit
<1>3. part \in Bijection(A, S)
    <2>1. part \in [A -> S] /\ \A c \in S : \E a \in A : part[a] = c
        BY <1>1
    <2> HIDE DEF part, S
    <2> QED
        BY <1>2, <2>1 DEF Bijection, Injection, Surjection, IsInjective
<1> HIDE DEF S, part
<1>4. IsFiniteSet(S) /\ Cardinality(S) = Cardinality(A)
    BY <1>3, FS_Bijection DEF ExistsBijection
<1>5. A # {} => Each(A, pot) \in Nat
    BY EachTyped
<1> QED
    BY <1>1, <1>2, <1>4, <1>5 DEF S

\* A pot is paid out in full: the even parts and what is left of them.
LEMMA SplitPays ==
    ASSUME NEW A, IsFiniteSet(A), NEW pot \in Nat, NEW reason, NEW f,
           \A c \in Split(A, pot, reason) : f[c] = c.amount
    PROVE  SumFunctionOnSet(f, Split(A, pot, reason)) + Unpaid(A, pot) = pot
<1> DEFINE S == Split(A, pot, reason)
           n == Cardinality(A)
           each == Each(A, pot)
<1>1. CASE A = {}
    <2>1. S = {}
        BY <1>1 DEF Split
    <2> QED
        BY <1>1, <2>1, SumEmpty DEF Unpaid
<1>2. CASE A # {}
    <2>1. n \in Nat /\ each \in Int
        BY <1>2, EachTyped
    <2>2. IsFiniteSet(S) /\ Cardinality(S) = n /\ \A c \in S : f[c] = each
        BY SplitTyped
    <2> HIDE DEF S, n, each
    <2>3. SumFunctionOnSet(f, S) = each * n
        BY <2>1, <2>2, SumConstant
    <2>4. Unpaid(A, pot) = pot - each * n
        BY <1>2 DEF Unpaid, each, n
    <2>5. each * n \in Int
        BY <2>1
    <2>6. \A x \in Int : x + (pot - x) = pot
        OBVIOUS
    <2> QED
        BY <2>3, <2>4, <2>5, <2>6 DEF S
<1> QED
    BY <1>1, <1>2

\* A won slot pays SlotReward, whoever shares the pots (reward_slot, K12).
THEOREM SlotsPayInFull ==
    ASSUME NEW h, NEW pinOk, NEW workers, IsFiniteSet(pinOk), IsFiniteSet(workers)
    PROVE  Total(RewardSlot(h, pinOk, workers)) = SlotReward
<1> DEFINE R == RewardSlot(h, pinOk, workers)
           f == [c \in R |-> c.amount]
           space == Credit(h, SpaceShare, "space")
           pin == Split(pinOk, PinShare, "pin")
           compute == Split(workers, ComputeShare, "compute")
           p == Unpaid(pinOk, PinShare)
           q == Unpaid(workers, ComputeShare)
           sink == Credit(Treasury, TreasuryShare + p + q, "treasury")
<1>1. R = (({space} \cup pin) \cup compute) \cup {sink}
    BY DEF RewardSlot
<1>2. \A c \in R : f[c] = c.amount
    OBVIOUS
<1>3. Total(R) = SumFunctionOnSet(f, R)
    BY DEF Total
<1>4. /\ SpaceShare \in Nat /\ PinShare \in Nat /\ ComputeShare \in Nat /\ TreasuryShare \in Nat
    BY ShareAssumption
<1>5. /\ space.amount = SpaceShare /\ space.reason = "space"
      /\ sink.amount = TreasuryShare + p + q /\ sink.reason = "treasury"
    BY DEF Credit
<1> HIDE DEF R, f
<1>6. /\ IsFiniteSet(pin) /\ \A c \in pin : c.amount \in Int /\ c.reason = "pin"
      /\ p \in Int /\ SumFunctionOnSet(f, pin) + p = PinShare
    <2>1. \A c \in Split(pinOk, PinShare, "pin") : f[c] = c.amount
        BY <1>1, <1>2
    <2>2. /\ IsFiniteSet(Split(pinOk, PinShare, "pin"))
          /\ \A c \in Split(pinOk, PinShare, "pin") : c.amount \in Int /\ c.reason = "pin"
        BY <1>4, SplitTyped
    <2>3. Unpaid(pinOk, PinShare) \in Int
        BY <1>4, UnpaidTyped
    <2>4. SumFunctionOnSet(f, Split(pinOk, PinShare, "pin")) + Unpaid(pinOk, PinShare) = PinShare
        BY <1>4, <2>1, SplitPays
    <2> QED
        BY <2>2, <2>3, <2>4
<1>7. /\ IsFiniteSet(compute) /\ \A c \in compute : c.amount \in Int /\ c.reason = "compute"
      /\ q \in Int /\ SumFunctionOnSet(f, compute) + q = ComputeShare
    <2>1. \A c \in Split(workers, ComputeShare, "compute") : f[c] = c.amount
        BY <1>1, <1>2
    <2>2. /\ IsFiniteSet(Split(workers, ComputeShare, "compute"))
          /\ \A c \in Split(workers, ComputeShare, "compute") : c.amount \in Int /\ c.reason = "compute"
        BY <1>4, SplitTyped
    <2>3. Unpaid(workers, ComputeShare) \in Int
        BY <1>4, UnpaidTyped
    <2>4. SumFunctionOnSet(f, Split(workers, ComputeShare, "compute")) + Unpaid(workers, ComputeShare) = ComputeShare
        BY <1>4, <2>1, SplitPays
    <2> QED
        BY <2>2, <2>3, <2>4
<1> HIDE DEF space, pin, compute, p, q, sink
<1>8. /\ space \in R /\ sink \in R /\ pin \subseteq R /\ compute \subseteq R
      /\ f[space] = SpaceShare /\ f[sink] = TreasuryShare + p + q
      /\ f[space] \in Int /\ f[sink] \in Int
      /\ \A c \in pin \cup compute : f[c] \in Int
    BY <1>1, <1>2, <1>4, <1>5, <1>6, <1>7
<1>9. SumFunctionOnSet(f, {space}) = SpaceShare /\ IsFiniteSet({space})
    <2>1. IsFiniteSet({space}) /\ Cardinality({space}) = 1
        BY FS_Singleton
    <2>2. \A c \in {space} : f[c] = SpaceShare
        BY <1>8
    <2>3. SumFunctionOnSet(f, {space}) = SpaceShare * Cardinality({space})
        BY <1>4, <2>1, <2>2, SumConstant
    <2> QED
        BY <1>4, <2>1, <2>3
<1>10. /\ IsFiniteSet({space} \cup pin)
       /\ SumFunctionOnSet(f, {space} \cup pin) = SpaceShare + SumFunctionOnSet(f, pin)
    <2>1. {space} \cap pin = {} /\ \A c \in {space} \cup pin : f[c] \in Int
        BY <1>5, <1>6, <1>8
    <2>2. IsFiniteSet({space} \cup pin)
        BY <1>6, <1>9, FS_Union
    <2> QED
        BY <1>6, <1>9, <2>1, <2>2, SumUnion
<1> DEFINE sp == {space} \cup pin
<1>11. /\ IsFiniteSet(sp \cup compute)
       /\ SumFunctionOnSet(f, sp \cup compute) = SumFunctionOnSet(f, sp) + SumFunctionOnSet(f, compute)
    <2>1. sp \cap compute = {} /\ \A c \in sp \cup compute : f[c] \in Int
        BY <1>5, <1>6, <1>7, <1>8
    <2> HIDE DEF sp
    <2>2. IsFiniteSet(sp \cup compute)
        BY <1>7, <1>10, FS_Union DEF sp
    <2> QED
        BY <1>7, <1>10, <2>1, <2>2, SumUnion DEF sp
<1> DEFINE spc == sp \cup compute
<1>12. SumFunctionOnSet(f, R) = SumFunctionOnSet(f, spc) + f[sink]
    <2>1. sink \notin spc /\ \A c \in spc : f[c] \in Int
        BY <1>5, <1>6, <1>7, <1>8
    <2>2. R = spc \cup {sink} /\ IsFiniteSet(spc)
        BY <1>1, <1>11
    <2> HIDE DEF spc
    <2> QED
        BY <1>8, <2>1, <2>2, SumAdd
<1>13. SumFunctionOnSet(f, pin) \in Int /\ SumFunctionOnSet(f, compute) \in Int
    BY <1>6, <1>7, <1>8, SumType
<1>14. Total(R) = ((SpaceShare + SumFunctionOnSet(f, pin)) + SumFunctionOnSet(f, compute))
                    + (TreasuryShare + p + q)
    BY <1>3, <1>8, <1>10, <1>11, <1>12
<1>15. Total(R) = SpaceShare + PinShare + ComputeShare + TreasuryShare
    <2> HIDE DEF sp, spc
    <2>1. \A a, b, x, y, s, t, u, v \in Int :
             x + a = s /\ y + b = t => ((u + x) + y) + (v + a + b) = u + s + t + v
        OBVIOUS
    <2> DEFINE x == SumFunctionOnSet(f, pin)
               y == SumFunctionOnSet(f, compute)
    <2>2. x \in Int /\ y \in Int /\ x + p = PinShare /\ y + q = ComputeShare
        BY <1>6, <1>7, <1>13
    <2>3. Total(R) = ((SpaceShare + x) + y) + (TreasuryShare + p + q)
        BY <1>14
    <2> HIDE DEF x, y
    <2> QED
        BY <1>4, <1>6, <1>7, <2>1, <2>2, <2>3
<1> QED
    BY <1>15 DEF SlotReward, R

-----------------------------------------------------------------------------
\* Credits.  What a home has been paid goes with the rings it won, slot by
\* slot, and what a follower is sent is never a ring of its own.
Account == Home \cup Worker \cup {Treasury}
Reward ==
    SUBSET [account : Account, amount : Nat, reason : {"space", "pin", "compute", "treasury"}]
Won(h) == {e \in Ring : e.leader = h}

BloodOf(s) == SumFunctionOnSet([i \in DOMAIN s |-> Total(s[i])], DOMAIN s)

CreditInv ==
    /\ credits \in [Home -> Seq(Reward)] /\ cut \in [Home -> Nat]
    /\ \A h \in Home : Len(credits[h]) = CountIn(chain[h], Won(h)) /\ IsFiniteSet(buffer[h])
    /\ \A h \in Home : \A i \in DOMAIN credits[h] : Total(credits[h][i]) \in 0..SlotReward
    /\ \A h \in Home : /\ BloodOf(credits[h]) <= SlotReward * Len(credits[h])
                       /\ SlotReward * Len(credits[h]) <= BloodOf(credits[h]) + SlotReward * cut[h]
    /\ \A i \in DOMAIN bus :
          bus[i].message.kind = "ring" => bus[i].message.entry.leader # bus[i].to

\* A slot's credits are credits, and those for compute go to its workers.
LEMMA RewardFacts ==
    ASSUME NEW h \in Home, NEW P \in SUBSET Home, IsFiniteSet(P),
           NEW W \in SUBSET (Home \cup Worker), IsFiniteSet(W)
    PROVE  /\ RewardSlot(h, P, W) \in Reward /\ IsFiniteSet(RewardSlot(h, P, W))
           /\ \A a : (\E c \in RewardSlot(h, P, W) : c.account = a /\ c.reason = "compute")
                        <=> a \in W
<1> DEFINE p == Unpaid(P, PinShare)
           q == Unpaid(W, ComputeShare)
           sink == Credit(Treasury, TreasuryShare + p + q, "treasury")
           space == Credit(h, SpaceShare, "space")
           credit == [account : Account, amount : Nat, reason : {"space", "pin", "compute", "treasury"}]
<1>1. /\ SpaceShare \in Nat /\ PinShare \in Nat /\ ComputeShare \in Nat /\ TreasuryShare \in Nat
    BY ShareAssumption
<1>2. p \in Nat /\ q \in Nat
    BY <1>1, UnpaidTyped
<1>3. RewardSlot(h, P, W) =
         {space} \cup Split(P, PinShare, "pin") \cup Split(W, ComputeShare, "compute") \cup {sink}
    BY DEF RewardSlot
<1> HIDE DEF p, q
<1>4. /\ space \in credit /\ space.reason = "space"
      /\ sink \in credit /\ sink.reason = "treasury"
    BY <1>1, <1>2 DEF Credit, Account
<1> HIDE DEF sink, space
<1>5. /\ Split(P, PinShare, "pin") \subseteq credit
      /\ \A c \in Split(P, PinShare, "pin") : c.reason = "pin"
    <2>1. \A a \in P : Each(P, PinShare) \in Nat
        BY <1>1, EachTyped
    <2> QED
        BY <2>1 DEF Split, Credit, Account
<1>6. /\ Split(W, ComputeShare, "compute") \subseteq credit
      /\ \A a : (\E c \in Split(W, ComputeShare, "compute") : c.account = a /\ c.reason = "compute")
                   <=> a \in W
    <2>1. \A a \in W : Each(W, ComputeShare) \in Nat
        BY <1>1, EachTyped
    <2>2. Split(W, ComputeShare, "compute") \subseteq credit
        BY <2>1 DEF Split, Credit, Account
    <2>3. /\ \A c \in Split(W, ComputeShare, "compute") : c.account \in W
          /\ \A a \in W : \E c \in Split(W, ComputeShare, "compute") :
                c.account = a /\ c.reason = "compute"
        BY <1>1, SplitTyped
    <2> QED
        BY <2>2, <2>3
<1>7. RewardSlot(h, P, W) \in Reward
    BY <1>3, <1>4, <1>5, <1>6 DEF Reward
<1>8. IsFiniteSet(RewardSlot(h, P, W))
    <2>1. /\ IsFiniteSet(Split(P, PinShare, "pin")) /\ IsFiniteSet(Split(W, ComputeShare, "compute"))
          /\ IsFiniteSet({space}) /\ IsFiniteSet({sink})
        BY <1>1, SplitTyped, FS_Singleton
    <2> DEFINE A == Split(P, PinShare, "pin")
               B == Split(W, ComputeShare, "compute")
               X == {space}
               Y == {sink}
    <2>2. IsFiniteSet(A) /\ IsFiniteSet(B) /\ IsFiniteSet(X) /\ IsFiniteSet(Y)
        BY <2>1
    <2>3. RewardSlot(h, P, W) = ((X \cup A) \cup B) \cup Y
        BY <1>3
    <2> HIDE DEF A, B, X, Y
    <2>4. IsFiniteSet(X \cup A)
        BY <2>2, FS_Union
    <2>5. IsFiniteSet((X \cup A) \cup B)
        BY <2>2, <2>4, FS_Union
    <2>6. IsFiniteSet(((X \cup A) \cup B) \cup Y)
        BY <2>2, <2>5, FS_Union
    <2> QED
        BY <2>3, <2>6
<1> HIDE DEF credit
<1> QED
    BY <1>3, <1>4, <1>5, <1>6, <1>7, <1>8

\* Part of a slot's credits pays part of its reward.
LEMMA PartPays ==
    ASSUME NEW h \in Home, NEW P \in SUBSET Home, IsFiniteSet(P),
           NEW W \in SUBSET (Home \cup Worker), IsFiniteSet(W),
           NEW paid \in SUBSET RewardSlot(h, P, W)
    PROVE  paid \in Reward /\ Total(paid) \in 0..SlotReward
<1> DEFINE R == RewardSlot(h, P, W)
           f == [c \in R |-> c.amount]
           g == [c \in paid |-> c.amount]
<1>1. R \in Reward /\ IsFiniteSet(R)
    BY RewardFacts
<1>2. Total(R) = SlotReward
    BY SlotsPayInFull
<1>3. \A c \in R : f[c] \in Nat
    BY <1>1 DEF Reward
<1>4. /\ IsFiniteSet(paid) /\ IsFiniteSet(R \ paid)
      /\ paid \cap (R \ paid) = {} /\ R = paid \cup (R \ paid)
    <2>1. paid \subseteq R
        OBVIOUS
    <2> HIDE DEF R
    <2> QED
        BY <1>1, <2>1, FS_Subset
<1>5. \A c \in paid : f[c] = g[c]
    OBVIOUS
<1>6. Total(R) = SumFunctionOnSet(f, R) /\ Total(paid) = SumFunctionOnSet(g, paid)
    BY DEF Total
<1>7. paid \in Reward
    BY <1>1 DEF Reward
<1>11. paid \subseteq R
    OBVIOUS
<1> HIDE DEF R, f, g
<1>8. SumFunctionOnSet(f, paid) = SumFunctionOnSet(g, paid)
    BY <1>4, <1>5, SumAgree
<1>9. SumFunctionOnSet(f, paid) \in Nat /\ SumFunctionOnSet(f, R \ paid) \in Nat
    <2>1. (\A c \in paid : f[c] \in Int /\ f[c] \in Nat) /\ (\A c \in R \ paid : f[c] \in Int /\ f[c] \in Nat)
        BY <1>3, <1>11
    <2> QED
        BY <1>4, <2>1, SumType
<1>10. SumFunctionOnSet(f, R) = SumFunctionOnSet(f, paid) + SumFunctionOnSet(f, R \ paid)
    <2>1. \A c \in paid \cup (R \ paid) : f[c] \in Int
        BY <1>3, <1>4
    <2>2. SumFunctionOnSet(f, paid \cup (R \ paid)) =
             SumFunctionOnSet(f, paid) + SumFunctionOnSet(f, R \ paid)
        BY <1>4, <2>1, SumUnion
    <2> QED
        BY <1>4, <2>2
<1>12. SlotReward \in Nat
    BY ShareAssumption DEF SlotReward
<1> QED
    BY <1>2, <1>6, <1>7, <1>8, <1>9, <1>10, <1>12

\* What a slot, paid in full or in part, adds to its leader's credits.
LEMMA LedPays ==
    ASSUME NetType, CreditInv, NEW h \in Home, NEW paid \in SUBSET Pay(h)
    PROVE  /\ paid \in Reward /\ Total(paid) \in 0..SlotReward
           /\ paid = Pay(h) => Total(paid) = SlotReward
           /\ \A a : (\E c \in paid : c.account = a /\ c.reason = "compute") => a \in buffer[h] \cup {h}
<1> DEFINE P == IF PinsOk(h) THEN {h} ELSE {}
           W == buffer[h] \cup {h}
<1>1. Pay(h) = RewardSlot(h, P, W)
    BY DEF Pay
<1>2. P \in SUBSET Home /\ W \in SUBSET (Home \cup Worker)
    BY DEF NetType, ProcessType
<1>3. IsFiniteSet(P)
    BY FS_EmptySet, FS_Singleton
<1>4. IsFiniteSet(W)
    BY FS_AddElement DEF CreditInv
<1> HIDE DEF P, W
<1>5. \A a : (\E c \in Pay(h) : c.account = a /\ c.reason = "compute") <=> a \in W
    BY <1>1, <1>2, <1>3, <1>4, RewardFacts
<1>6. Total(Pay(h)) = SlotReward
    BY <1>1, <1>3, <1>4, SlotsPayInFull
<1>7. paid \in Reward /\ Total(paid) \in 0..SlotReward
    BY <1>1, <1>2, <1>3, <1>4, PartPays
<1> QED
    BY <1>5, <1>6, <1>7 DEF W

\* A home's blood grows by what it is credited.
LEMMA BloodGrows ==
    ASSUME NEW s \in Seq(Reward), \A i \in DOMAIN s : Total(s[i]) \in Int,
           NEW r \in Reward, Total(r) \in Int
    PROVE  BloodOf(s) \in Int /\ BloodOf(Append(s, r)) = BloodOf(s) + Total(r)
<1> DEFINE n == Len(s)
           t == Append(s, r)
           f == [i \in DOMAIN s |-> Total(s[i])]
           g == [i \in DOMAIN t |-> Total(t[i])]
<1>1. /\ n \in Nat /\ DOMAIN s = 1..n /\ DOMAIN t = 1..(n + 1)
      /\ \A i \in 1..n : t[i] = s[i]
      /\ t[n + 1] = r
    BY AppendProperties, LenProperties
<1>2. BloodOf(s) = SumFunctionOnSet(f, 1..n) /\ BloodOf(t) = SumFunctionOnSet(g, 1..(n + 1))
    BY <1>1 DEF BloodOf
<1> HIDE DEF n, t
<1>3. /\ \A i \in 1..n : f[i] \in Int /\ g[i] = f[i]
      /\ g[n + 1] = Total(r)
    BY <1>1
<1> HIDE DEF f, g
<1>4. IsFiniteSet(1..n)
    BY <1>1, FS_Interval
<1>5. SumFunctionOnSet(f, 1..n) \in Int
    BY <1>3, <1>4, SumType
<1>6. SumFunctionOnSet(g, 1..n) = SumFunctionOnSet(f, 1..n)
    BY <1>3, <1>4, SumAgree
<1>7. 1..(n + 1) = (1..n) \cup {n + 1} /\ n + 1 \notin 1..n
    BY <1>1
<1>8. SumFunctionOnSet(g, (1..n) \cup {n + 1}) = SumFunctionOnSet(g, 1..n) + g[n + 1]
    <2> DEFINE x == n + 1
               S == 1..n
    <2>1. /\ g[x] \in Int /\ \A i \in S : g[i] \in Int
          /\ IsFiniteSet(S) /\ x \notin S
        BY <1>3, <1>4, <1>7
    <2> HIDE DEF x, S
    <2>2. SumFunctionOnSet(g, S \cup {x}) = SumFunctionOnSet(g, S) + g[x]
        BY <2>1, SumAdd
    <2> QED
        BY <2>2 DEF x, S
<1> QED
    BY <1>2, <1>3, <1>5, <1>6, <1>7, <1>8 DEF t

\* A leader's rings and its credits grow together.
LEMMA CreditsGrow ==
    ASSUME NetType, CreditInv, slot \in 1..MaxSlot, NEW h \in Home,
           NEW r \in Reward, Total(r) \in 0..SlotReward,
           chain' = [chain EXCEPT ![h] = Append(@, [slot |-> slot, leader |-> h])],
           credits' = [credits EXCEPT ![h] = Append(@, r)],
           \/ Total(r) = SlotReward /\ cut' = cut
           \/ cut' = [cut EXCEPT ![h] = @ + 1],
           \A g \in Home : IsFiniteSet(buffer'[g]),
           \A i \in DOMAIN bus' :
              bus'[i].message.kind = "ring" => bus'[i].message.entry.leader # bus'[i].to
    PROVE  CreditInv'
<1> DEFINE e == [slot |-> slot, leader |-> h]
<1>1. e \in Ring /\ e.leader = h
    BY DEF Ring
<1>2. chain' = [chain EXCEPT ![h] = Append(@, e)]
    OBVIOUS
<1>12. SlotReward \in Nat
    BY ShareAssumption DEF SlotReward
<1> HIDE DEF e
<1>3. /\ credits[h] \in Seq(Reward) /\ chain[h] \in Seq(Ring)
      /\ credits'[h] = Append(credits[h], r) /\ chain'[h] = Append(chain[h], e)
      /\ \A g \in Home \ {h} : credits'[g] = credits[g] /\ chain'[g] = chain[g]
    BY <1>2 DEF CreditInv, NetType, HomesType
<1>4. /\ credits'[h] \in Seq(Reward) /\ Len(credits'[h]) = Len(credits[h]) + 1
      /\ DOMAIN credits'[h] = 1..(Len(credits[h]) + 1)
      /\ DOMAIN credits[h] = 1..Len(credits[h])
      /\ \A i \in 1..Len(credits[h]) : credits'[h][i] = credits[h][i]
      /\ credits'[h][Len(credits[h]) + 1] = r
      /\ Len(credits[h]) \in Nat
    BY <1>3, AppendProperties, LenProperties
<1>5. CountIn(chain'[h], Won(h)) = CountIn(chain[h], Won(h)) + 1
    <2>1. e \in Won(h)
        BY <1>1 DEF Won
    <2>2. \A A : CountIn(Append(chain[h], e), A) = CountIn(chain[h], A) + (IF e \in A THEN 1 ELSE 0)
        BY <1>1, <1>3, CountAppend
    <2> QED
        BY <1>3, <2>1, <2>2
<1>13. \/ Total(r) = SlotReward /\ cut' = cut
       \/ cut' = [cut EXCEPT ![h] = @ + 1]
    OBVIOUS
<1>6. credits' \in [Home -> Seq(Reward)] /\ cut' \in [Home -> Nat]
    <2>1. credits' \in [Home -> Seq(Reward)]
        <3>1. credits' = [credits EXCEPT ![h] = Append(credits[h], r)]
            OBVIOUS
        <3>2. Append(credits[h], r) \in Seq(Reward)
            BY <1>3, <1>4
        <3> HIDE DEF Reward
        <3> QED
            BY <3>1, <3>2 DEF CreditInv
    <2>2. cut \in [Home -> Nat]
        BY DEF CreditInv
    <2>3. CASE cut' = cut
        BY <2>1, <2>2, <2>3
    <2>4. CASE cut' = [cut EXCEPT ![h] = @ + 1]
        BY <2>1, <2>2, <2>4
    <2> QED
        BY <1>13, <2>1, <2>3, <2>4
<1>7. ASSUME NEW g \in Home
      PROVE  Len(credits'[g]) = CountIn(chain'[g], Won(g))
    <2>1. CASE g = h
        BY <1>3, <1>4, <1>5, <2>1 DEF CreditInv
    <2>2. CASE g # h
        BY <1>3, <2>2 DEF CreditInv
    <2> QED
        BY <2>1, <2>2
<1>8. ASSUME NEW g \in Home, NEW i \in DOMAIN credits'[g]
      PROVE  Total(credits'[g][i]) \in 0..SlotReward
    <2>1. CASE g = h
        <3>1. i \in 1..Len(credits[h]) \/ i = Len(credits[h]) + 1
            BY <1>4, <2>1
        <3>2. ASSUME i \in 1..Len(credits[h])
              PROVE  credits'[h][i] = credits[h][i] /\ Total(credits[h][i]) \in 0..SlotReward
            BY <1>4, <3>2 DEF CreditInv
        <3> QED
            BY <1>4, <2>1, <3>1, <3>2
    <2>2. CASE g # h
        BY <1>3, <2>2 DEF CreditInv
    <2> QED
        BY <2>1, <2>2
<1>9. ASSUME NEW g \in Home
      PROVE  /\ BloodOf(credits'[g]) <= SlotReward * Len(credits'[g])
             /\ SlotReward * Len(credits'[g]) <= BloodOf(credits'[g]) + SlotReward * cut'[g]
    <2>1. /\ BloodOf(credits[g]) <= SlotReward * Len(credits[g])
          /\ SlotReward * Len(credits[g]) <= BloodOf(credits[g]) + SlotReward * cut[g]
        BY DEF CreditInv
    <2>2. CASE g # h
        BY <1>3, <2>1, <2>2 DEF CreditInv
    <2>3. CASE g = h
        <3> DEFINE n == Len(credits[h])
                   b == BloodOf(credits[h])
                   k == cut[h]
                   x == Total(r)
        <3>1. \A i \in DOMAIN credits[h] : Total(credits[h][i]) \in Int
            BY <1>12 DEF CreditInv
        <3>7. x \in Int /\ credits[h] \in Seq(Reward)
            BY <1>3, <1>12
        <3>8. /\ BloodOf(credits[h]) \in Int
              /\ BloodOf(Append(credits[h], r)) = BloodOf(credits[h]) + Total(r)
            BY <3>1, <3>7, BloodGrows
        <3>2. b \in Int /\ BloodOf(credits'[h]) = b + x /\ Len(credits'[h]) = n + 1
            BY <1>3, <1>4, <3>8
        <3>3. /\ n \in Nat /\ k \in Nat /\ x \in 0..SlotReward
              /\ b <= SlotReward * n /\ SlotReward * n <= b + SlotReward * k
            BY <1>4, <2>1, <2>3 DEF CreditInv
        <3>4. (x = SlotReward /\ cut'[h] = k) \/ cut'[h] = k + 1
            BY <1>13 DEF CreditInv
        <3> HIDE DEF n, b, k, x
        <3>5. \A y \in Nat : SlotReward * (y + 1) = SlotReward * y + SlotReward /\ SlotReward * y \in Nat
            BY <1>12
        <3>6. /\ b + x <= SlotReward * (n + 1)
              /\ SlotReward * (n + 1) <= (b + x) + SlotReward * cut'[h]
            <4> DEFINE sn == SlotReward * n
                       sk == SlotReward * k
            <4>1. /\ sn \in Nat /\ sk \in Nat /\ SlotReward * (n + 1) = sn + SlotReward
                  /\ SlotReward * (k + 1) = sk + SlotReward /\ b <= sn /\ sn <= b + sk
                BY <3>3, <3>5
            <4> HIDE DEF sn, sk
            <4>2. CASE x = SlotReward /\ cut'[h] = k
                <5>1. SlotReward * cut'[h] = sk
                    BY <4>2 DEF sk
                <5> QED
                    BY <1>12, <3>2, <3>3, <4>1, <4>2, <5>1
            <4>3. CASE cut'[h] = k + 1
                <5>1. SlotReward * cut'[h] = sk + SlotReward
                    BY <4>1, <4>3
                <5> QED
                    BY <1>12, <3>2, <3>3, <4>1, <5>1
            <4> QED
                BY <3>4, <4>2, <4>3
        <3> QED
            BY <2>3, <3>2, <3>6
    <2> QED
        BY <2>2, <2>3
<1> QED
    BY <1>6, <1>7, <1>8, <1>9 DEF CreditInv

\* A home leads.
LEMMA CreditsLed ==
    ASSUME NetType, CreditInv, slot \in 1..MaxSlot, NEW h \in Home, NEW b \in BOOLEAN,
           Lead(h, b), cut' = cut,
           \A i \in DOMAIN bus' :
              bus'[i].message.kind = "ring" => bus'[i].message.entry.leader # bus'[i].to
    PROVE  CreditInv'
<1>1. CASE b
    <2>1. /\ credits' = [credits EXCEPT ![h] = Append(@, Pay(h))]
          /\ chain' = [chain EXCEPT ![h] = Append(@, [slot |-> slot, leader |-> h])]
          /\ buffer' = [buffer EXCEPT ![h] = {}]
        BY <1>1 DEF Lead
    <2>2. Pay(h) \in Reward /\ Total(Pay(h)) = SlotReward /\ Total(Pay(h)) \in 0..SlotReward
        BY LedPays
    <2>3. \A g \in Home : IsFiniteSet(buffer'[g])
        <3>1. \A g \in Home : buffer'[g] = buffer[g] \/ buffer'[g] = {}
            BY <2>1 DEF NetType, ProcessType
        <3> QED
            BY <3>1, FS_EmptySet DEF CreditInv
    <2> QED
        BY <2>1, <2>2, <2>3, CreditsGrow
<1>2. CASE ~b
    <2>1. /\ chain' = chain /\ credits' = credits
          /\ buffer' = [buffer EXCEPT ![h] = buffer[h] \cup {h}]
        BY <1>2 DEF Lead, chains
    <2>2. \A g \in Home : buffer'[g] = buffer[g] \/ buffer'[g] = buffer[g] \cup {h}
        BY <2>1 DEF NetType, ProcessType
    <2>3. ASSUME NEW g \in Home
          PROVE  IsFiniteSet(buffer'[g])
        <3>1. IsFiniteSet(buffer[g]) /\ IsFiniteSet(buffer[g] \cup {h})
            BY FS_AddElement DEF CreditInv
        <3> QED
            BY <2>2, <3>1
    <2> QED
        BY <2>1, <2>3 DEF CreditInv
<1> QED
    BY <1>1, <1>2

\* Nobody has won or been paid anything at first.
LEMMA CreditsStart == Init => CreditInv
<1> SUFFICES ASSUME Init
             PROVE  CreditInv
    OBVIOUS
<1>1. /\ <<>> \in Seq(Reward) /\ Len(<<>>) = 0 /\ DOMAIN <<>> = {} /\ IsFiniteSet({})
    BY FS_EmptySet
<1>2. \A A : CountIn(<<>>, A) = 0
    <2>1. \A A : {k \in DOMAIN <<>> : <<>>[k] \in A} = {}
        BY <1>1
    <2> QED
        BY <2>1, FS_EmptySet DEF CountIn
<1>3. /\ \A h \in Home : credits[h] = <<>> /\ chain[h] = <<>> /\ buffer[h] = {}
      /\ bus = <<>> /\ credits = [h \in Home |-> <<>>]
    BY DEF Init
<1> DEFINE e == <<>>
<1>4. \A h \in Home : Len(credits[h]) = CountIn(chain[h], Won(h)) /\ IsFiniteSet(buffer[h])
    BY <1>1, <1>2, <1>3
<1>5. credits \in [Home -> Seq(Reward)]
    BY <1>1, <1>3
<1>6. \A h \in Home : DOMAIN credits[h] = {}
    BY <1>1, <1>3
<1>7. DOMAIN bus = {}
    BY <1>1, <1>3
<1>8. cut = [h \in Home |-> 0] /\ cut \in [Home -> Nat]
    BY DEF Init
<1>9. ASSUME NEW h \in Home
      PROVE  /\ BloodOf(credits[h]) <= SlotReward * Len(credits[h])
             /\ SlotReward * Len(credits[h]) <= BloodOf(credits[h]) + SlotReward * cut[h]
    <2>1. BloodOf(credits[h]) = 0
        BY <1>1, <1>3, SumEmpty DEF BloodOf
    <2>2. SlotReward \in Nat
        BY ShareAssumption DEF SlotReward
    <2>3. Len(credits[h]) = 0 /\ cut[h] = 0
        BY <1>1, <1>3, <1>8
    <2>4. SlotReward * Len(credits[h]) = 0 /\ SlotReward * cut[h] = 0
        BY <2>2, <2>3
    <2> QED
        BY <2>1, <2>4
<1> QED
    BY <1>4, <1>5, <1>6, <1>7, <1>8, <1>9 DEF CreditInv

\* Every step keeps credits and rings won together.
LEMMA CreditsStep ==
    ASSUME NetType, CreditInv, [Next]_vars
    PROVE  CreditInv'
<1>1. ASSUME UNCHANGED <<chain, credits, cut>>,
             \A h \in Home : IsFiniteSet(buffer'[h]),
             \A i \in DOMAIN bus' : \E j \in DOMAIN bus : bus'[i] = bus[j]
      PROVE  CreditInv'
    BY <1>1 DEF CreditInv
<1>2. ASSUME UNCHANGED <<chain, credits, cut>>, Ended
      PROVE  CreditInv'
    <2>1. \A h \in Home : IsFiniteSet(buffer'[h])
        BY <1>2, FS_EmptySet DEF Ended
    <2>2. DOMAIN bus' = {}
        BY <1>2 DEF Ended
    <2> QED
        BY <1>1, <1>2, <2>1, <2>2
<1>3. ASSUME UNCHANGED <<chain, credits, cut, bus, buffer>>
      PROVE  CreditInv'
    BY <1>3 DEF CreditInv
<1>4. CASE NetSlot
    <2> DEFINE h == leader[slot]
               b == Fresh(h) /\ h \notin badSeal
               q == Append(Deliveries(h), [to |-> h, message |-> [kind |-> "offers"]])
               m == SlotMessages(h)
    <2>1. slot \in 1..MaxSlot /\ bus = <<>>
        BY <1>4, BoundsAssumption DEF NetSlot, NetType, ProcessType
    <2>2. h \in Home /\ b \in BOOLEAN
        BY <2>1, DrawsAssumption DEF NetType
    <2>3. CASE ~Fresh(First)
        BY <1>3, <1>4, <2>1, <2>3 DEF NetSlot, chains
    <2>4. CASE Fresh(First)
        <3>1. Lead(h, b) /\ (bus' = IF b THEN q ELSE <<>>) /\ cut' = cut
            BY <1>4, <2>4 DEF NetSlot
        <3>2. \A i \in DOMAIN q : \/ q[i].message.kind = "offers" /\ q[i].to = h
                                  \/ q[i].to # h /\ q[i].message \in {m[1], m[2], m[3]}
            BY <2>1, <2>2, Sends DEF SlotSent
        <3>3. m[1].entry.leader = h /\ m[2].entry.leader = h /\ m[3].entry.leader = h
            <4> DEFINE e == [slot |-> slot, leader |-> h]
            <4>1. /\ m[1] = [kind |-> "slot_header", entry |-> e, on |-> proofs[h]]
                  /\ m[2] = [kind |-> "ring", entry |-> e, on |-> chain[h]]
                  /\ m[3] = [kind |-> "header", entry |-> e, on |-> headers[h]]
                BY <2>1, <2>2, MessagesTyped, Zenon
            <4>2. e.leader = h
                OBVIOUS
            <4> HIDE DEF m, e
            <4> QED
                BY <4>1, <4>2
        <3> HIDE DEF h, b, q, m
        <3>4. \A i \in DOMAIN q :
                 q[i].message.kind = "ring" => q[i].message.entry.leader # q[i].to
            BY <3>2, <3>3
        <3>5. \A i \in DOMAIN bus' :
                 bus'[i].message.kind = "ring" => bus'[i].message.entry.leader # bus'[i].to
            BY <3>1, <3>4
        <3> QED
            BY <2>1, <2>2, <3>1, <3>5, CreditsLed
    <2> QED
        BY <2>3, <2>4
<1>5. CASE PulseSlot
    <2>1. slot \in 1..MaxSlot /\ mode \in Home /\ bus' = bus
        BY <1>5, BoundsAssumption DEF PulseSlot, NetType, ProcessType
    <2>2. CASE mode \in badSeal
        BY <1>3, <1>5, <2>2 DEF PulseSlot, chains
    <2>3. CASE mode \notin badSeal
        <3>1. Lead(mode, Fresh(mode)) /\ Fresh(mode) \in BOOLEAN /\ cut' = cut
            BY <1>5, <2>3 DEF PulseSlot, Fresh
        <3>2. \A i \in DOMAIN bus' :
                 bus'[i].message.kind = "ring" => bus'[i].message.entry.leader # bus'[i].to
            BY <2>1 DEF CreditInv
        <3> QED
            BY <2>1, <3>1, <3>2, CreditsLed
    <2> QED
        BY <2>2, <2>3
<1>6. ASSUME bus # <<>>, Taken
      PROVE  \A i \in DOMAIN bus' : \E j \in DOMAIN bus : bus'[i] = bus[j]
    <2>1. bus \in Seq(Delivery) /\ bus' = Tail(bus)
        BY <1>6 DEF Taken, NetType, ProcessType
    <2>2. /\ Len(bus) \in Nat \ {0} /\ DOMAIN bus = 1..Len(bus)
          /\ DOMAIN Tail(bus) = 1..(Len(bus) - 1)
          /\ \A i \in 1..(Len(bus) - 1) : Tail(bus)[i] = bus[i + 1]
        BY <1>6, <2>1, Taking
    <2>3. \A i \in 1..(Len(bus) - 1) : i + 1 \in DOMAIN bus
        BY <2>2
    <2> QED
        BY <2>1, <2>2, <2>3
<1>7. ASSUME bus # <<>>, Taken, UNCHANGED <<chain, credits, cut>>
      PROVE  CreditInv'
    BY <1>1, <1>6, <1>7 DEF Taken, CreditInv
<1>8. CASE ApplySlotHeader
    BY <1>2, <1>7, <1>8 DEF ApplySlotHeader, Arrives, Raised, Delivered, chains, history
<1>9. CASE ApplyHeader
    BY <1>2, <1>7, <1>9 DEF ApplyHeader, Arrives, Raised, Delivered, chains, history
<1>10. CASE OfferPins
    <2>1. bus # <<>> /\ UNCHANGED <<chain, credits, cut>> /\ (Taken \/ Ended)
        BY <1>10 DEF OfferPins, Arrives, chains
    <2> QED
        BY <1>2, <1>7, <2>1
<1>15. CASE KilledInSlot
    <2> DEFINE h == IF mode = "net" THEN leader[slot] ELSE mode
    <2>1. slot \in 1..MaxSlot /\ mode \in {"net"} \cup Home
        BY <1>15, BoundsAssumption DEF KilledInSlot, NetType, ProcessType
    <2>2. h \in Home
        BY <2>1, DrawsAssumption DEF NetType
    <2>3. /\ chain' = [chain EXCEPT ![h] = Append(@, [slot |-> slot, leader |-> h])]
          /\ cut' = [cut EXCEPT ![h] = @ + 1]
          /\ \E paid : /\ paid \in CutShort(Pay(h)) \/ paid = {}
                       /\ credits' = [credits EXCEPT ![h] = Append(@, paid)]
        BY <1>15 DEF KilledInSlot
    <2>4. PICK paid \in SUBSET Pay(h) : credits' = [credits EXCEPT ![h] = Append(@, paid)]
        BY <2>3 DEF CutShort
    <2>5. Ended
        BY <1>15 DEF KilledInSlot
    <2> HIDE DEF h
    <2>6. paid \in Reward /\ Total(paid) \in 0..SlotReward
        BY <2>2, LedPays
    <2>7. (\A g \in Home : IsFiniteSet(buffer'[g])) /\ DOMAIN bus' = {}
        BY <2>5, FS_EmptySet DEF Ended
    <2> QED
        BY <2>1, <2>2, <2>3, <2>4, <2>6, <2>7, CreditsGrow
<1>11. CASE ApplyRing
    <2> DEFINE h == Head(bus).to
               e == Head(bus).message.entry
    <2>1. bus # <<>> /\ Head(bus).message.kind = "ring" /\ credits' = credits /\ cut' = cut
        BY <1>11 DEF ApplyRing, Arrives, Delivered, history
    <2>2. CASE UNCHANGED chain
        BY <1>2, <1>7, <1>11, <2>1, <2>2 DEF ApplyRing, Raised
    <2>3. CASE Taken /\ chain' = [chain EXCEPT ![h] = Append(@, e)]
        <3>1. h \in Home /\ e \in Ring
            BY <2>1, HeadTyped
        <3>2. e.leader # h
            <4>1. bus \in Seq(Delivery)
                BY DEF NetType, ProcessType
            <4>2. 1 \in DOMAIN bus /\ Head(bus) = bus[1]
                BY <2>1, <4>1, Taking
            <4> QED
                BY <2>1, <4>2 DEF CreditInv
        <3>3. \A i \in DOMAIN bus' : \E j \in DOMAIN bus : bus'[i] = bus[j]
            BY <1>6, <2>1, <2>3
        <3> HIDE DEF h, e
        <3>4. chain[h] \in Seq(Ring) /\ chain'[h] = Append(chain[h], e)
              /\ \A g \in Home \ {h} : chain'[g] = chain[g]
            BY <2>3, <3>1 DEF NetType, HomesType
        <3>5. CountIn(chain'[h], Won(h)) = CountIn(chain[h], Won(h))
            <4>1. e \notin Won(h)
                BY <3>2 DEF Won
            <4>2. CountIn(Append(chain[h], e), Won(h)) =
                     CountIn(chain[h], Won(h)) + (IF e \in Won(h) THEN 1 ELSE 0)
                BY <3>1, <3>4, CountAppend
            <4>3. CountIn(chain[h], Won(h)) \in Nat
                BY <3>4, CountType
            <4> QED
                BY <3>4, <4>1, <4>2, <4>3
        <3>6. buffer' = buffer
            BY <2>3 DEF Taken
        <3>7. \A g \in Home : CountIn(chain'[g], Won(g)) = CountIn(chain[g], Won(g))
            BY <3>4, <3>5
        <3> QED
            BY <2>1, <3>3, <3>6, <3>7 DEF CreditInv
    <2> QED
        BY <1>11, <2>1, <2>2, <2>3 DEF ApplyRing, Raised, chains
<1>12. CASE Stop \/ Crash
    BY <1>2, <1>12 DEF Stop, Crash, homes, chains, history
<1>13. ASSUME NEW h \in Home, NEW r \in Receipt(Worker), SubmitReceipt(h, r)
       PROVE  CreditInv'
    <2>1. \A g \in Home : buffer'[g] = buffer[g] \/ buffer'[g] = buffer[g] \cup {r.worker}
        BY <1>13 DEF SubmitReceipt, NetType, ProcessType
    <2>2. ASSUME NEW g \in Home
          PROVE  IsFiniteSet(buffer'[g])
        <3>1. IsFiniteSet(buffer[g]) /\ IsFiniteSet(buffer[g] \cup {r.worker})
            BY FS_AddElement DEF CreditInv
        <3> QED
            BY <2>1, <3>1
    <2>3. UNCHANGED <<chain, credits, cut, bus>>
        BY <1>13 DEF SubmitReceipt, homes, chains
    <2> QED
        BY <1>1, <2>2, <2>3
<1>14. CASE \/ \E m, h, opened, n : Open(m, h, opened, n)
            \/ \E h \in Home, o \in Objects, as \in {"absent", "intact", "tampered"} : LaneFault(h, o, as)
            \/ \E h \in Home : SealFault(h)
            \/ UNCHANGED vars
    BY <1>3, <1>14 DEF Open, LaneFault, SealFault, vars, homes, process, chains, history
<1> QED
    BY <1>4, <1>5, <1>8, <1>9, <1>10, <1>11, <1>12, <1>13, <1>14, <1>15 DEF Next, StartNet, StartPulse

\* A home's credits never exceed the reward of the slots it won, and fall
\* short of it only by slots a kill cut short (reward_slot, _issue_slot_reward;
\* followers are paid nothing), for any shares, homes, draws and receipts.
THEOREM CreditsMustBeEarned == Spec => []CreditsAreEarned
<1>1. ASSUME NetType, CreditInv, NEW h \in Home
      PROVE  Len(credits[h]) = Wins(h) /\ BloodOf(credits[h]) = Blood(h)
    <2>1. Len(credits[h]) = CountIn(chain[h], Won(h))
        BY <1>1 DEF CreditInv
    <2>2. \A i \in DOMAIN chain[h] : chain[h][i] \in Ring
        BY <1>1 DEF NetType, HomesType
    <2>3. {i \in DOMAIN chain[h] : chain[h][i] \in Won(h)} =
             {i \in DOMAIN chain[h] : chain[h][i].leader = h}
        BY <2>2 DEF Won
    <2>4. BloodOf(credits[h]) = Blood(h)
        BY DEF BloodOf, Blood
    <2> QED
        BY <2>1, <2>3, <2>4 DEF CountIn, Wins
<1>2. ASSUME NetType, CreditInv
      PROVE  CreditsAreEarned
    <2> SUFFICES ASSUME NEW h \in Home
                 PROVE  /\ Blood(h) <= SlotReward * Wins(h)
                        /\ SlotReward * Wins(h) <= Blood(h) + SlotReward * cut[h]
        BY DEF CreditsAreEarned
    <2>1. /\ BloodOf(credits[h]) <= SlotReward * Len(credits[h])
          /\ SlotReward * Len(credits[h]) <= BloodOf(credits[h]) + SlotReward * cut[h]
        BY <1>2 DEF CreditInv
    <2>2. Len(credits[h]) = Wins(h) /\ BloodOf(credits[h]) = Blood(h)
        BY <1>1, <1>2
    <2> QED
        BY <2>1, <2>2
<1> QED
    BY <1>2, NetStarts, NetTyped, CreditsStart, CreditsStep, PTL DEF Spec

-----------------------------------------------------------------------------
\* Work.  What an account was paid for compute, and what it may still be paid
\* for receipts that wait, was handed in for it.
Owed(h, a) == PaidBy(h, a) + (IF a \in buffer[h] THEN 1 ELSE 0)
Due(a) == [h \in Home |-> Owed(h, a)]
WorkInv ==
    /\ handedIn \in [Home \cup Worker -> Nat]
    /\ \A a \in Home \cup Worker : SumFunctionOnSet(Due(a), Home) <= handedIn[a]

\* The homes are the members of a list.
LEMMA HomesAreFinite == IsFiniteSet(Home)
BY HomesAssumption, ToSetFinite DEF Home

\* Payments are counted on a home's list of credits.
ComputeFor(a) == {r \in Reward : \E c \in r : c.account = a /\ c.reason = "compute"}
\* What an author was paid for compute counts credits.
LEMMA PaidCounts ==
    ASSUME CreditInv, NEW h \in Home, NEW a
    PROVE  PaidBy(h, a) = CountIn(credits[h], ComputeFor(a)) /\ PaidBy(h, a) \in Nat
<1>1. credits[h] \in Seq(Reward) /\ \A i \in DOMAIN credits[h] : credits[h][i] \in Reward
    BY DEF CreditInv
<1>2. {i \in DOMAIN credits[h] : credits[h][i] \in ComputeFor(a)} =
         {i \in DOMAIN credits[h] : \E c \in credits[h][i] : c.account = a /\ c.reason = "compute"}
    BY <1>1 DEF ComputeFor
<1>3. PaidBy(h, a) = CountIn(credits[h], ComputeFor(a))
    BY <1>2 DEF PaidBy, CountIn
<1> QED
    BY <1>1, <1>3, CountType

\* And after a step.
LEMMA PaidCountsNext ==
    ASSUME CreditInv', NEW h \in Home, NEW a
    PROVE  PaidBy(h, a)' = CountIn(credits'[h], ComputeFor(a)) /\ PaidBy(h, a)' \in Nat
<1>1. credits'[h] \in Seq(Reward) /\ \A i \in DOMAIN credits'[h] : credits'[h][i] \in Reward
    BY DEF CreditInv
<1>2. {i \in DOMAIN credits'[h] : credits'[h][i] \in ComputeFor(a)} =
         {i \in DOMAIN credits'[h] : \E c \in credits'[h][i] : c.account = a /\ c.reason = "compute"}
    BY <1>1 DEF ComputeFor
<1>3. PaidBy(h, a)' = CountIn(credits'[h], ComputeFor(a))
    BY <1>2 DEF PaidBy, CountIn
<1> QED
    BY <1>1, <1>3, CountType

\* No home owes more, and no work is taken back.
LEMMA WorkKept ==
    ASSUME CreditInv, CreditInv', WorkInv, handedIn' \in [Home \cup Worker -> Nat],
           \A a \in Home \cup Worker : handedIn[a] <= handedIn'[a],
           \A a \in Home \cup Worker, h \in Home : Owed(h, a)' <= Owed(h, a)
    PROVE  WorkInv'
<1> SUFFICES ASSUME NEW a \in Home \cup Worker
             PROVE  SumFunctionOnSet(Due(a)', Home) <= handedIn'[a]
    BY DEF WorkInv
<1>1. \A h \in Home : PaidBy(h, a) \in Nat /\ PaidBy(h, a)' \in Nat
    BY PaidCounts, PaidCountsNext
<1> DEFINE f == Due(a)
           g == Due(a)'
<1>2. \A h \in Home : f[h] \in Int /\ g[h] \in Int /\ g[h] <= f[h]
    BY <1>1 DEF Due, Owed
<1> HIDE DEF f, g
<1>3. SumFunctionOnSet(g, Home) <= SumFunctionOnSet(f, Home)
    BY <1>2, HomesAreFinite, SumLeq
<1>4. SumFunctionOnSet(g, Home) \in Int /\ SumFunctionOnSet(f, Home) \in Int
    BY <1>2, HomesAreFinite, SumType
<1>5. SumFunctionOnSet(f, Home) <= handedIn[a] /\ handedIn[a] \in Nat /\ handedIn'[a] \in Nat
      /\ handedIn[a] <= handedIn'[a]
    BY DEF WorkInv, f
<1>6. SumFunctionOnSet(g, Home) <= handedIn'[a]
    BY <1>3, <1>4, <1>5
<1> QED
    BY <1>6 DEF g

\* One home owes more, for what was just handed in.
LEMMA WorkDone ==
    ASSUME CreditInv, CreditInv', WorkInv, handedIn' \in [Home \cup Worker -> Nat],
           NEW h \in Home,
           \A a \in Home \cup Worker, g \in Home \ {h} : Owed(g, a)' <= Owed(g, a),
           \A a \in Home \cup Worker : Owed(h, a)' - Owed(h, a) <= handedIn'[a] - handedIn[a]
    PROVE  WorkInv'
<1> SUFFICES ASSUME NEW a \in Home \cup Worker
             PROVE  SumFunctionOnSet(Due(a)', Home) <= handedIn'[a]
    BY DEF WorkInv
<1>1. \A g \in Home : PaidBy(g, a) \in Nat /\ PaidBy(g, a)' \in Nat
    BY PaidCounts, PaidCountsNext
<1> DEFINE f == Due(a)
           g == Due(a)'
           k == [x \in Home |-> IF x = h THEN g[x] ELSE f[x]]
<1>2. /\ \A x \in Home : f[x] \in Int /\ g[x] \in Int
      /\ \A x \in Home \ {h} : g[x] <= f[x]
      /\ g[h] - f[h] <= handedIn'[a] - handedIn[a]
    BY <1>1 DEF Due, Owed
<1> HIDE DEF f, g
<1>7. /\ \A x \in Home : k[x] \in Int /\ g[x] <= k[x]
      /\ \A x \in Home \ {h} : f[x] = k[x]
      /\ k[h] = g[h]
    BY <1>2
<1> HIDE DEF k
<1>8. SumFunctionOnSet(g, Home) <= SumFunctionOnSet(k, Home)
    BY <1>2, <1>7, HomesAreFinite, SumLeq
<1>3. SumFunctionOnSet(k, Home) = SumFunctionOnSet(f, Home) + (g[h] - f[h])
    BY <1>2, <1>7, HomesAreFinite, SumUpdate
<1>4. /\ SumFunctionOnSet(f, Home) \in Int /\ SumFunctionOnSet(g, Home) \in Int
      /\ SumFunctionOnSet(k, Home) \in Int
    BY <1>2, <1>7, HomesAreFinite, SumType
<1>5. SumFunctionOnSet(f, Home) <= handedIn[a] /\ handedIn[a] \in Nat /\ handedIn'[a] \in Nat
    BY DEF WorkInv, f
<1>6. SumFunctionOnSet(g, Home) <= handedIn'[a]
    BY <1>2, <1>3, <1>4, <1>5, <1>8
<1> QED
    BY <1>6 DEF g

\* Nothing handed in, no pay.
LEMMA WorkStarts == Init => WorkInv
<1> SUFFICES ASSUME Init
             PROVE  WorkInv
    OBVIOUS
<1>1. \A h \in Home : credits[h] = <<>> /\ buffer[h] = {}
    BY DEF Init
<1>2. handedIn = [a \in Home \cup Worker |-> 0]
    BY DEF Init
<1>3. ASSUME NEW a \in Home \cup Worker
      PROVE  SumFunctionOnSet(Due(a), Home) = 0
    <2>1. ASSUME NEW h \in Home
          PROVE  PaidBy(h, a) = 0
        <3>1. {i \in DOMAIN credits[h] : \E c \in credits[h][i] : c.account = a /\ c.reason = "compute"} = {}
            BY <1>1
        <3> QED
            BY <3>1, FS_EmptySet DEF PaidBy
    <2>2. \A h \in Home : Due(a)[h] = 0
        BY <1>1, <2>1 DEF Due, Owed
    <2> QED
        BY <2>2, HomesAreFinite, SumZero
<1> QED
    BY <1>2, <1>3 DEF WorkInv

\* What a slot, paid in full or in part, adds to what an account was paid for.
LEMMA PaidByLeading ==
    ASSUME NetType, CreditInv, CreditInv', NEW h \in Home, NEW paid \in SUBSET Pay(h),
           credits' = [credits EXCEPT ![h] = Append(@, paid)], NEW a
    PROVE  PaidBy(h, a)' <= PaidBy(h, a) + (IF a \in buffer[h] \cup {h} THEN 1 ELSE 0)
<1>1. /\ paid \in Reward
      /\ (\E c \in paid : c.account = a /\ c.reason = "compute") => a \in buffer[h] \cup {h}
    BY LedPays
<1>2. credits[h] \in Seq(Reward) /\ credits'[h] = Append(credits[h], paid)
    BY DEF CreditInv
<1>3. paid \in ComputeFor(a) => a \in buffer[h] \cup {h}
    BY <1>1 DEF ComputeFor
<1>4. \A A : CountIn(Append(credits[h], paid), A) =
               CountIn(credits[h], A) + (IF paid \in A THEN 1 ELSE 0)
    BY <1>1, <1>2, CountAppend
<1>5. /\ PaidBy(h, a) = CountIn(credits[h], ComputeFor(a)) /\ PaidBy(h, a) \in Nat
      /\ PaidBy(h, a)' = CountIn(credits'[h], ComputeFor(a)) /\ PaidBy(h, a)' \in Nat
    BY PaidCounts, PaidCountsNext
<1> QED
    BY <1>2, <1>3, <1>4, <1>5

\* A leader pays its slot's workers once, itself for the job it just did.
LEMMA WorkLed ==
    ASSUME NetType, CreditInv, CreditInv', WorkInv, NEW h \in Home, NEW b \in BOOLEAN,
           Lead(h, b)
    PROVE  WorkInv'
<1>1. handedIn' = [handedIn EXCEPT ![h] = @ + 1] /\ handedIn' \in [Home \cup Worker -> Nat]
    BY DEF Lead, WorkInv
<1>2. \A a \in Home \cup Worker : /\ handedIn[a] \in Nat
                                   /\ handedIn'[a] - handedIn[a] = IF a = h THEN 1 ELSE 0
    BY <1>1 DEF WorkInv
<1>3. \A g \in Home : \A a : PaidBy(g, a) \in Nat
    BY PaidCounts
<1>4. CASE b
    <2>1. credits' = [credits EXCEPT ![h] = Append(@, Pay(h))] /\ buffer' = [buffer EXCEPT ![h] = {}]
        BY <1>4 DEF Lead
    <2>2. /\ buffer'[h] = {}
          /\ \A g \in Home \ {h} : credits'[g] = credits[g] /\ buffer'[g] = buffer[g]
        BY <2>1 DEF CreditInv, NetType, ProcessType
    <2>3. \A a : PaidBy(h, a)' <= PaidBy(h, a) + (IF a \in buffer[h] \cup {h} THEN 1 ELSE 0)
        BY <2>1, PaidByLeading
    <2>4. \A a : PaidBy(h, a)' \in Nat
        BY PaidCountsNext
    <2>5. \A a \in Home \cup Worker : Owed(h, a)' - Owed(h, a) <= handedIn'[a] - handedIn[a]
        BY <1>2, <1>3, <2>2, <2>3, <2>4 DEF Owed
    <2>7. \A g \in Home \ {h} : \A a : PaidBy(g, a)' = PaidBy(g, a)
        BY <2>2 DEF PaidBy
    <2>6. \A a \in Home \cup Worker, g \in Home \ {h} : Owed(g, a)' <= Owed(g, a)
        BY <1>3, <2>2, <2>7 DEF Owed
    <2> QED
        BY <1>1, <2>5, <2>6, WorkDone
<1>5. CASE ~b
    <2>1. credits' = credits /\ buffer' = [buffer EXCEPT ![h] = buffer[h] \cup {h}]
        BY <1>5 DEF Lead
    <2>2. /\ buffer'[h] = buffer[h] \cup {h}
          /\ \A g \in Home \ {h} : buffer'[g] = buffer[g]
        BY <2>1 DEF NetType, ProcessType
    <2>3. \A g \in Home : \A a : PaidBy(g, a)' = PaidBy(g, a)
        BY <2>1 DEF PaidBy
    <2>4. \A a \in Home \cup Worker : Owed(h, a)' - Owed(h, a) <= handedIn'[a] - handedIn[a]
        BY <1>2, <1>3, <2>2, <2>3 DEF Owed
    <2>5. \A a \in Home \cup Worker, g \in Home \ {h} : Owed(g, a)' <= Owed(g, a)
        BY <1>3, <2>2, <2>3 DEF Owed
    <2> QED
        BY <1>1, <2>4, <2>5, WorkDone
<1> QED
    BY <1>4, <1>5

\* Every step keeps pay within work.
LEMMA WorkStep ==
    ASSUME NetType, CreditInv, CreditInv', WorkInv, [Next]_vars
    PROVE  WorkInv'
<1>0. \A g \in Home : \A a : PaidBy(g, a) \in Nat
    BY PaidCounts
<1>1. ASSUME UNCHANGED <<credits, handedIn>>, UNCHANGED buffer \/ Ended
      PROVE  WorkInv'
    <2>1. handedIn' \in [Home \cup Worker -> Nat] /\ \A a \in Home \cup Worker : handedIn[a] <= handedIn'[a]
        BY <1>1 DEF WorkInv
    <2>2. \A g \in Home : \A a : PaidBy(g, a)' = PaidBy(g, a)
        BY <1>1 DEF PaidBy
    <2>3. \A g \in Home : buffer'[g] = buffer[g] \/ buffer'[g] = {}
        BY <1>1 DEF Ended
    <2>4. \A a \in Home \cup Worker, g \in Home : Owed(g, a)' <= Owed(g, a)
        BY <1>0, <2>2, <2>3 DEF Owed
    <2> QED
        BY <2>1, <2>4, WorkKept
<1>2. CASE NetSlot
    <2> DEFINE h == leader[slot]
               b == Fresh(h) /\ h \notin badSeal
    <2>1. h \in Home /\ b \in BOOLEAN
        BY <1>2, BoundsAssumption, DrawsAssumption DEF NetSlot, NetType, ProcessType
    <2>2. CASE ~Fresh(First)
        BY <1>1, <1>2, <2>2 DEF NetSlot
    <2>3. CASE Fresh(First)
        <3>1. Lead(h, b)
            BY <1>2, <2>3 DEF NetSlot
        <3> HIDE DEF h, b
        <3> QED
            BY <2>1, <3>1, WorkLed
    <2> QED
        BY <2>2, <2>3
<1>3. CASE PulseSlot
    <2>1. CASE mode \in badSeal
        BY <1>1, <1>3, <2>1 DEF PulseSlot
    <2>2. CASE mode \notin badSeal
        <3>1. mode \in Home /\ Lead(mode, Fresh(mode)) /\ Fresh(mode) \in BOOLEAN
            BY <1>3, <2>2 DEF PulseSlot, Fresh
        <3> QED
            BY <3>1, WorkLed
    <2> QED
        BY <2>1, <2>2
<1>4. CASE ApplySlotHeader \/ ApplyRing \/ ApplyHeader \/ OfferPins
    BY <1>1, <1>4 DEF ApplySlotHeader, ApplyRing, ApplyHeader, OfferPins, Raised, Taken, Delivered,
                      history
<1>8. CASE KilledInSlot
    <2>10. (IF mode = "net" THEN leader[slot] ELSE mode) \in Home
        BY <1>8, BoundsAssumption, DrawsAssumption DEF KilledInSlot, NetType, ProcessType
    <2>1. PICK h \in Home : h = IF mode = "net" THEN leader[slot] ELSE mode
        BY <2>10
    <2>2. /\ handedIn' = [handedIn EXCEPT ![h] = @ + 1]
          /\ \E paid : /\ paid \in CutShort(Pay(h)) \/ paid = {}
                       /\ credits' = [credits EXCEPT ![h] = Append(@, paid)]
        BY <1>8, <2>1 DEF KilledInSlot
    <2>3. PICK paid \in SUBSET Pay(h) : credits' = [credits EXCEPT ![h] = Append(@, paid)]
        BY <2>2 DEF CutShort
    <2>4. \A g \in Home : buffer'[g] = {}
        BY <1>8 DEF KilledInSlot, Ended
    <2>5. /\ handedIn' \in [Home \cup Worker -> Nat]
          /\ \A a \in Home \cup Worker : /\ handedIn[a] \in Nat
                                         /\ handedIn'[a] - handedIn[a] = IF a = h THEN 1 ELSE 0
        BY <2>1, <2>2 DEF WorkInv
    <2>6. ASSUME NEW a
          PROVE  PaidBy(h, a)' <= PaidBy(h, a) + (IF a \in buffer[h] \cup {h} THEN 1 ELSE 0)
        BY <2>1, <2>3, PaidByLeading
    <2>7. \A g \in Home : \A a : PaidBy(g, a)' \in Nat
        BY PaidCountsNext
    <2>8. \A a \in Home \cup Worker : Owed(h, a)' - Owed(h, a) <= handedIn'[a] - handedIn[a]
        <3> SUFFICES ASSUME NEW a \in Home \cup Worker
                     PROVE  Owed(h, a)' - Owed(h, a) <= handedIn'[a] - handedIn[a]
            OBVIOUS
        <3>1. /\ PaidBy(h, a) \in Nat /\ PaidBy(h, a)' \in Nat
              /\ PaidBy(h, a)' <= PaidBy(h, a) + (IF a \in buffer[h] \cup {h} THEN 1 ELSE 0)
            BY <1>0, <2>1, <2>6, <2>7
        <3>2. Owed(h, a)' = PaidBy(h, a)'
            BY <2>1, <2>4, <3>1 DEF Owed
        <3> QED
            BY <2>5, <3>1, <3>2 DEF Owed
    <2>9. \A a \in Home \cup Worker, g \in Home \ {h} : Owed(g, a)' <= Owed(g, a)
        <3>1. \A g \in Home \ {h} : credits'[g] = credits[g]
            BY <2>1, <2>3 DEF CreditInv
        <3>2. \A g \in Home \ {h} : \A a : PaidBy(g, a)' = PaidBy(g, a)
            BY <3>1 DEF PaidBy
        <3> QED
            BY <1>0, <2>4, <3>2 DEF Owed
    <2> QED
        BY <2>1, <2>5, <2>8, <2>9, WorkDone
<1>5. CASE Stop \/ Crash
    BY <1>1, <1>5 DEF Stop, Crash, homes, history
<1>6. ASSUME NEW h \in Home, NEW r \in Receipt(Worker), SubmitReceipt(h, r)
      PROVE  WorkInv'
    <2>1. r.worker \in Home \cup Worker /\ r.genuine \in BOOLEAN
        BY DEF Receipt
    <2>2. Attested(r) => r.genuine
        BY DEF Attested
    <2>3. /\ buffer' = IF Attested(r) THEN [buffer EXCEPT ![h] = @ \cup {r.worker}] ELSE buffer
          /\ handedIn' = IF r.genuine THEN [handedIn EXCEPT ![r.worker] = @ + 1] ELSE handedIn
          /\ credits' = credits
        BY <1>6 DEF SubmitReceipt, homes
    <2>4. handedIn' \in [Home \cup Worker -> Nat]
        BY <2>1, <2>3 DEF WorkInv
    <2>5. \A a \in Home \cup Worker :
             /\ handedIn[a] \in Nat
             /\ handedIn'[a] - handedIn[a] = IF r.genuine /\ a = r.worker THEN 1 ELSE 0
        BY <2>1, <2>3 DEF WorkInv
    <2>6. /\ buffer'[h] = IF Attested(r) THEN buffer[h] \cup {r.worker} ELSE buffer[h]
          /\ \A g \in Home \ {h} : buffer'[g] = buffer[g]
        BY <2>3 DEF NetType, ProcessType
    <2>7. \A g \in Home : \A a : PaidBy(g, a)' = PaidBy(g, a)
        BY <2>3 DEF PaidBy
    <2>8. \A a \in Home \cup Worker : Owed(h, a)' - Owed(h, a) <= handedIn'[a] - handedIn[a]
        BY <1>0, <2>2, <2>5, <2>6, <2>7 DEF Owed
    <2>9. \A a \in Home \cup Worker, g \in Home \ {h} : Owed(g, a)' <= Owed(g, a)
        BY <1>0, <2>6, <2>7 DEF Owed
    <2> QED
        BY <2>4, <2>8, <2>9, WorkDone
<1>7. CASE \/ \E m, h, opened, n : Open(m, h, opened, n)
           \/ \E h \in Home, o \in Objects, as \in {"absent", "intact", "tampered"} : LaneFault(h, o, as)
           \/ \E h \in Home : SealFault(h)
           \/ UNCHANGED vars
    BY <1>1, <1>7 DEF Open, LaneFault, SealFault, vars, homes, process, history
<1> QED
    BY <1>2, <1>3, <1>4, <1>5, <1>6, <1>7, <1>8 DEF Next, StartNet, StartPulse

\* No account is paid for compute in more slots, on all homes together, than
\* genuine receipts were handed in for it (submit_compute_receipt,
\* _issue_slot_reward), for any workers, receipts, draws and runs: receipts may
\* be lost with the process or share a slot, never pay in two.
THEOREM HandInsMustPayOnce == Spec => []HandInsPayOnce
<1>1. ASSUME CreditInv, WorkInv
      PROVE  HandInsPayOnce
    <2> SUFFICES ASSUME NEW a \in Home \cup Worker
                 PROVE  PaidCompute(a) <= handedIn[a]
        BY DEF HandInsPayOnce
    <2> DEFINE f == Due(a)
               g == [h \in Home |-> PaidBy(h, a)]
    <2>1. \A h \in Home : PaidBy(h, a) \in Nat
        BY <1>1, PaidCounts
    <2>2. \A h \in Home : f[h] \in Int /\ g[h] \in Int /\ g[h] <= f[h]
        BY <2>1 DEF Due, Owed
    <2>3. PaidCompute(a) = SumFunctionOnSet(g, Home)
        BY DEF PaidCompute
    <2>4. SumFunctionOnSet(f, Home) <= handedIn[a] /\ handedIn[a] \in Nat
        BY <1>1 DEF WorkInv
    <2> HIDE DEF f, g
    <2>5. SumFunctionOnSet(g, Home) <= SumFunctionOnSet(f, Home)
        BY <2>2, HomesAreFinite, SumLeq
    <2>6. SumFunctionOnSet(g, Home) \in Int /\ SumFunctionOnSet(f, Home) \in Int
        BY <2>2, HomesAreFinite, SumType
    <2> QED
        BY <2>3, <2>4, <2>5, <2>6
<1> QED
    BY <1>1, NetStarts, NetTyped, CreditsStart, CreditsStep, WorkStarts, WorkStep, PTL DEF Spec
=============================================================================
