---------------------------- MODULE GossipProofs ----------------------------
(***************************************************************************)
(* What the link in an entry buys: nodes that hold the same proof of space *)
(* (or the same header) hold the same history before it, for any number of *)
(* nodes and slots and any number of lost, doubled or overtaken lines.     *)
(*                                                                         *)
(* The argument: an entry for a slot is made once, by the slot's leader,   *)
(* on the one chain it holds then, and is only ever added to an equal      *)
(* chain.  The invariant speaks of every chain made so far, held or still  *)
(* on the wire.                                                            *)
(***************************************************************************)
EXTENDS Gossip, Induction

Lines == UNION {{wire[e][k] : k \in DOMAIN wire[e]} : e \in Pairs}

\* The chains of one kind that exist: a node's own, or one on the wire.
Made(own, lines, kind) ==
    {own[n] : n \in Node} \cup
    {Append(msg.on, msg.slot) : msg \in {l \in lines : l.kind = kind}}

Agree(S) == \A c, d \in S : SameHistory(c, d)

\* Only a slot its leader is past is in a chain.
Passed(S, a) == \A c \in S : \A k \in DOMAIN c : c[k] < a[leader[c[k]]]

ChainInv(own, kind) ==
    Agree(Made(own, Lines, kind)) /\ Passed(Made(own, Lines, kind), at)

GossipInv == TypeOK /\ ChainInv(slotHeaders, "slot_header") /\ ChainInv(headers, "header")

-----------------------------------------------------------------------------
\* A chain extended by a slot that is in none of them agrees with all of them.
LEMMA ExtensionAgrees ==
    ASSUME NEW S, \A c \in S : c \in Seq(Slot), Agree(S), NEW c \in S,
           NEW x \in Slot, \A d \in S : \A k \in DOMAIN d : d[k] # x
    PROVE  Agree(S \cup {Append(c, x)})
<1> DEFINE e == Append(c, x)
<1>1. /\ e \in Seq(Slot) /\ Len(e) = Len(c) + 1 /\ Len(c) \in Nat
      /\ DOMAIN e = 1..Len(e) /\ DOMAIN c = 1..Len(c)
      /\ \A i \in 1..Len(c) : e[i] = c[i]
      /\ e[Len(c) + 1] = x
    BY AppendProperties
<1>2. \A d \in S : SameHistory(e, d) /\ SameHistory(d, e)
    <2> TAKE d \in S
    <2>1. SameHistory(c, d) /\ SameHistory(d, c)
        BY DEF Agree
    <2>2. d \in Seq(Slot) /\ DOMAIN d = 1..Len(d) /\ Len(d) \in Nat
        OBVIOUS
    <2>3. ASSUME NEW j \in DOMAIN e, NEW k \in DOMAIN d, e[j] = d[k]
          PROVE  j = k /\ \A i \in 1..j : e[i] = d[i]
        <3>1. j \in 1..Len(c)
            BY <1>1, <2>3
        <3>2. c[j] = d[k] /\ j \in DOMAIN c
            BY <1>1, <2>3, <3>1
        <3>3. j = k /\ \A i \in 1..j : c[i] = d[i]
            BY <2>1, <3>2 DEF SameHistory
        <3> QED
            BY <1>1, <3>1, <3>3
    <2>4. SameHistory(e, d)
        BY <2>3 DEF SameHistory
    <2>5. ASSUME NEW j \in DOMAIN d, NEW k \in DOMAIN e, d[j] = e[k]
          PROVE  j = k /\ \A i \in 1..j : d[i] = e[i]
        BY <2>2, <2>3, <2>5
    <2>6. SameHistory(d, e)
        BY <2>5 DEF SameHistory
    <2> QED
        BY <2>4, <2>6
<1>3. SameHistory(e, e)
    <2>1. ASSUME NEW j \in DOMAIN e, NEW k \in DOMAIN e, e[j] = e[k]
          PROVE  j = k
        <3>1. SameHistory(c, c)
            BY DEF Agree
        <3>2. CASE j \in 1..Len(c) /\ k \in 1..Len(c)
            BY <1>1, <2>1, <3>1, <3>2 DEF SameHistory
        <3>3. CASE j = Len(c) + 1 /\ k \in 1..Len(c)
            BY <1>1, <2>1, <3>3
        <3>4. CASE j \in 1..Len(c) /\ k = Len(c) + 1
            BY <1>1, <2>1, <3>4
        <3>5. CASE j = Len(c) + 1 /\ k = Len(c) + 1
            BY <3>5
        <3> QED
            BY <1>1, <3>2, <3>3, <3>4, <3>5
    <2> QED
        BY <2>1 DEF SameHistory
<1> QED
    BY <1>2, <1>3 DEF Agree

-----------------------------------------------------------------------------
\* A slot's lines are messages.
LEMMA MessagesTyped ==
    ASSUME TypeOK, NEW n \in Node, at[n] \in Slot
    PROVE  SlotMessages(n) \in Seq(Message)
BY DEF TypeOK, SlotMessages, Message, Kinds

\* Reading or disturbing a line keeps the types and adds no line.
LEMMA ReadKeeps ==
    ASSUME TypeOK, NEW m \in Node, NEW n \in Node, m # n,
           wire[<<m, n>>] # <<>>, Read(m, n)
    PROVE  /\ wire' \in [Pairs -> Seq(Message)]
           /\ Lines' \subseteq Lines
           /\ Head(wire[<<m, n>>]) \in Lines
           /\ Head(wire[<<m, n>>]) \in Message
<1> DEFINE w == wire[<<m, n>>]
<1>1. <<m, n>> \in Pairs /\ w \in Seq(Message)
    BY DEF TypeOK, Pairs
<1>2. /\ Tail(w) \in Seq(Message) /\ Len(Tail(w)) = Len(w) - 1 /\ Len(w) \in Nat \ {0}
      /\ \A k \in 1..Len(Tail(w)) : Tail(w)[k] = w[k + 1]
      /\ Head(w) \in Message /\ Head(w) = w[1]
    BY <1>1, HeadTailProperties, EmptySeq
<1>3. wire' = [wire EXCEPT ![<<m, n>>] = Tail(w)]
    BY DEF Read
<1>4. wire' \in [Pairs -> Seq(Message)]
    BY <1>1, <1>2, <1>3 DEF TypeOK
<1>5. \A e \in Pairs : \A k \in DOMAIN wire'[e] :
          \E j \in DOMAIN wire[e] : wire'[e][k] = wire[e][j]
    <2> TAKE e \in Pairs
    <2> TAKE k \in DOMAIN wire'[e]
    <2>1. CASE e = <<m, n>>
        <3>1. wire'[e] = Tail(w) /\ k \in 1..Len(Tail(w)) /\ wire[e] = w
            BY <1>1, <1>2, <1>3, <2>1 DEF TypeOK
        <3>2. k + 1 \in DOMAIN wire[e] /\ wire'[e][k] = wire[e][k + 1]
            BY <1>1, <1>2, <3>1
        <3> QED
            BY <3>2
    <2>2. CASE e # <<m, n>>
        BY <1>3, <2>2 DEF TypeOK
    <2> QED
        BY <2>1, <2>2
<1>6. Lines' \subseteq Lines
    BY <1>5 DEF Lines
<1>7. Head(w) \in Lines
    <2>1. 1 \in DOMAIN w /\ Head(w) = w[1]
        BY <1>1, <1>2
    <2>2. Head(w) \in {wire[<<m, n>>][k] : k \in DOMAIN wire[<<m, n>>]}
        BY <2>1
    <2> QED
        BY <1>1, <2>2 DEF Lines
<1> QED
    BY <1>2, <1>4, <1>6, <1>7

\* A line lost, doubled or overtaken makes no new line.
LEMMA FaultKeeps ==
    ASSUME TypeOK, NEW m \in Node, NEW n \in Node, m # n, Fault(m, n)
    PROVE  /\ wire' \in [Pairs -> Seq(Message)]
           /\ Lines' \subseteq Lines
<1> DEFINE w == wire[<<m, n>>]
<1>1. <<m, n>> \in Pairs /\ w \in Seq(Message) /\ w # <<>>
    BY DEF TypeOK, Pairs, Fault
<1>2. Len(w) \in Nat \ {0} /\ DOMAIN w = 1..Len(w)
    BY <1>1, EmptySeq
<1>3. PICK v : /\ wire' = [wire EXCEPT ![<<m, n>>] = v]
               /\ v \in Seq(Message)
               /\ \A k \in DOMAIN v : \E j \in DOMAIN w : v[k] = w[j]
    <2>1. CASE wire' = [wire EXCEPT ![<<m, n>>] = Tail(w)]
        <3>1. /\ Tail(w) \in Seq(Message) /\ Len(Tail(w)) = Len(w) - 1
              /\ \A k \in 1..Len(Tail(w)) : Tail(w)[k] = w[k + 1]
            BY <1>1, HeadTailProperties
        <3>2. \A k \in DOMAIN Tail(w) : k + 1 \in DOMAIN w /\ Tail(w)[k] = w[k + 1]
            BY <1>2, <3>1
        <3> QED
            BY <2>1, <3>1, <3>2
    <2>2. CASE wire' = [wire EXCEPT ![<<m, n>>] = <<Head(w)>> \o w]
        <3> DEFINE h == <<Head(w)>>
                   v == h \o w
        <3>1. Head(w) \in Message /\ Head(w) = w[1]
            BY <1>1, HeadTailProperties
        <3>2. h \in Seq(Message) /\ Len(h) = 1 /\ h[1] = w[1]
            BY <3>1
        <3> HIDE DEF h
        <3>3. /\ v \in Seq(Message) /\ DOMAIN v = 1..(Len(w) + 1)
              /\ v[1] = w[1]
              /\ \A k \in 2..(Len(w) + 1) : v[k] = w[k - 1]
            BY <1>1, <1>2, <3>2, ConcatProperties
        <3>4. \A k \in DOMAIN v : \E j \in DOMAIN w : v[k] = w[j]
            <4> TAKE k \in DOMAIN v
            <4>1. CASE k = 1
                BY <1>2, <3>3, <4>1
            <4>2. CASE k # 1
                <5>1. k \in 2..(Len(w) + 1) /\ k - 1 \in DOMAIN w
                    BY <1>2, <3>3, <4>2
                <5> QED
                    BY <3>3, <5>1
            <4> QED
                BY <4>1, <4>2
        <3>5. wire' = [wire EXCEPT ![<<m, n>>] = v]
            BY <2>2 DEF h
        <3> QED
            BY <3>3, <3>4, <3>5
    <2>3. CASE /\ Len(w) > 1
               /\ wire' = [wire EXCEPT ![<<m, n>>] = [w EXCEPT ![1] = w[2], ![2] = w[1]]]
        <3> DEFINE v == [w EXCEPT ![1] = w[2], ![2] = w[1]]
        <3>1. v \in Seq(Message)
            BY <1>1, <1>2, <2>3
        <3>6. DOMAIN v = DOMAIN w /\ \A k \in DOMAIN w : k # 1 /\ k # 2 => v[k] = w[k]
            OBVIOUS
        <3>7. 1 \in DOMAIN w /\ 2 \in DOMAIN w /\ 1 # 2
            BY <1>2, <2>3
        <3>2. /\ DOMAIN v = DOMAIN w /\ 1 \in DOMAIN w /\ 2 \in DOMAIN w /\ 1 # 2
              /\ \A k \in DOMAIN w : k # 1 /\ k # 2 => v[k] = w[k]
            BY <3>6, <3>7
        <3>3. v[1] = w[2] /\ v[2] = w[1]
            BY <3>2
        <3>4. wire' = [wire EXCEPT ![<<m, n>>] = v]
            BY <2>3
        <3> HIDE DEF v
        <3>5. \A k \in DOMAIN v : \E j \in DOMAIN w : v[k] = w[j]
            BY <3>2, <3>3
        <3> QED
            BY <3>1, <3>4, <3>5
    <2> QED
        BY <2>1, <2>2, <2>3 DEF Fault
<1>4. wire' \in [Pairs -> Seq(Message)]
    BY <1>1, <1>3 DEF TypeOK
<1>5. \A e \in Pairs : \A k \in DOMAIN wire'[e] :
          \E j \in DOMAIN wire[e] : wire'[e][k] = wire[e][j]
    BY <1>1, <1>3 DEF TypeOK
<1> QED
    BY <1>4, <1>5 DEF Lines

-----------------------------------------------------------------------------
\* Chains are made of slots.
LEMMA MadeTyped ==
    ASSUME TypeOK, NEW own \in [Node -> Seq(Slot)], NEW kind
    PROVE  \A c \in Made(own, Lines, kind) : c \in Seq(Slot)
<1>1. \A l \in Lines : l \in Message
    BY DEF TypeOK, Lines
<1>2. \A l \in Lines : l.on \in Seq(Slot) /\ l.slot \in Slot
    BY <1>1 DEF Message
<1>3. \A l \in Lines : Append(l.on, l.slot) \in Seq(Slot)
    BY <1>2, AppendProperties
<1> QED
    BY <1>3 DEF Made

\* No new chain: what agreed still does.
LEMMA NothingMade ==
    ASSUME TypeOK, NEW S, \A c \in S : c \in Seq(Slot), Agree(S), Passed(S, at),
           NEW T \in SUBSET S, NEW b \in [Node -> Nat], \A n \in Node : at[n] <= b[n]
    PROVE  Agree(T) /\ Passed(T, b)
<1>1. Agree(T)
    BY DEF Agree
<1>2. ASSUME NEW c \in T, NEW k \in DOMAIN c
      PROVE  c[k] < b[leader[c[k]]]
    <2>1. c \in Seq(Slot) /\ c[k] \in Slot
        OBVIOUS
    <2>2. leader[c[k]] \in Node
        BY <2>1 DEF TypeOK
    <2>3. c[k] < at[leader[c[k]]]
        BY DEF Passed
    <2> QED
        BY <2>1, <2>2, <2>3 DEF TypeOK, Slot
<1> QED
    BY <1>1, <1>2 DEF Passed

\* One new chain, by the leader of a slot it was not past.
LEMMA OneMade ==
    ASSUME TypeOK, NEW S, \A c \in S : c \in Seq(Slot), Agree(S), Passed(S, at),
           NEW n \in Node, Leads(n), at' \in [Node -> Nat],
           \A m \in Node : at[m] <= at'[m], at[n] < at'[n], NEW c \in S,
           NEW T \in SUBSET (S \cup {Append(c, at[n])})
    PROVE  Agree(T) /\ Passed(T, at')
<1> DEFINE x == at[n]
           e == Append(c, x)
<1>1. x \in Slot /\ leader[x] = n
    BY SlotsAssumption DEF TypeOK, Leads, Slot
<1>2. at' \in [Node -> Nat] /\ (\A m \in Node : at[m] <= at'[m]) /\ x < at'[n]
    OBVIOUS
<1>3. \A d \in S : \A k \in DOMAIN d : d[k] # x
    <2> SUFFICES ASSUME NEW d \in S, NEW k \in DOMAIN d, d[k] = x
                 PROVE  FALSE
        OBVIOUS
    <2>1. x < x
        BY <1>1 DEF Passed
    <2> QED
        BY <1>1, <2>1 DEF Slot
<1>4. Agree(S \cup {e})
    BY <1>1, <1>3, ExtensionAgrees
<1>5. Passed(S, at')
    BY <1>2, NothingMade
<1>6. \A k \in DOMAIN e : e[k] < at'[leader[e[k]]]
    <2> TAKE k \in DOMAIN e
    <2>1. /\ DOMAIN e = 1..(Len(c) + 1) /\ Len(c) \in Nat /\ DOMAIN c = 1..Len(c)
          /\ \A i \in 1..Len(c) : e[i] = c[i]
          /\ e[Len(c) + 1] = x
        BY <1>1, AppendProperties
    <2>2. CASE k \in 1..Len(c)
        BY <1>5, <2>1, <2>2 DEF Passed
    <2>3. CASE k = Len(c) + 1
        BY <1>1, <1>2, <2>1, <2>3 DEF Slot
    <2> QED
        BY <2>1, <2>2, <2>3
<1> QED
    BY <1>4, <1>5, <1>6 DEF Agree, Passed

-----------------------------------------------------------------------------
\* What a leader does, its messages sent to the end or not.
Writes(n) ==
    /\ Leads(n) /\ Extend(n) /\ leader' = leader
    /\ at' \in [Node -> 1..(Slots + 1)] /\ (\A m \in Node : at[m] <= at'[m]) /\ at[n] < at'[n]
    /\ \E s \in Seq(Message) :
           Send(n, s) /\ \A i \in DOMAIN s : \E j \in 1..3 : s[i] = SlotMessages(n)[j]
    /\ hasty' \in BOOLEAN /\ UNCHANGED <<listening, faults>>

LEMMA LeaderWrites ==
    ASSUME TypeOK, NEW n \in Node, ProduceSlot(n) \/ SendFails(n)
    PROVE  Writes(n)
<1> DEFINE s == SlotMessages(n)
<1>1. /\ Leads(n) /\ at[n] \in Slot /\ at[n] \in Nat /\ at[n] <= Slots
      /\ at \in [Node -> 1..(Slots + 1)] /\ Slots \in Nat
    BY SlotsAssumption DEF TypeOK, ProduceSlot, SendFails, Leads, Slot
<1>2. s \in Seq(Message) /\ Len(s) = 3 /\ DOMAIN s = 1..3
    BY <1>1, MessagesTyped DEF SlotMessages
<1> HIDE DEF s
<1>3. CASE ProduceSlot(n)
    <2>1. at' = [at EXCEPT ![n] = @ + 1] /\ at[n] + 1 \in 1..(Slots + 1)
        BY <1>1, <1>3 DEF ProduceSlot, NextSlot
    <2>2. /\ at' \in [Node -> 1..(Slots + 1)] /\ (\A m \in Node : at[m] <= at'[m])
          /\ at[n] < at'[n]
        BY <1>1, <2>1
    <2>3. Send(n, s)
        BY <1>3 DEF ProduceSlot, s
    <2>4. \A i \in DOMAIN s : \E j \in 1..3 : s[i] = SlotMessages(n)[j]
        BY <1>2 DEF s
    <2> QED
        BY <1>1, <1>2, <1>3, <2>2, <2>3, <2>4 DEF Writes, ProduceSlot, TypeOK
<1>4. CASE SendFails(n)
    <2>1. at' = [at EXCEPT ![n] = Slots + 1]
        BY <1>4 DEF SendFails
    <2>2. /\ at' \in [Node -> 1..(Slots + 1)] /\ (\A m \in Node : at[m] <= at'[m])
          /\ at[n] < at'[n]
        BY <1>1, <2>1
    <2>3. PICK k \in 0..3 : Send(n, SubSeq(s, 1, k))
        BY <1>4 DEF SendFails, s
    <2> DEFINE t == SubSeq(s, 1, k)
    <2>4. t \in Seq(Message) /\ DOMAIN t = 1..k /\ \A i \in 1..k : t[i] = s[i] /\ i \in 1..3
        <3>1. 1 \in Int /\ k \in Nat /\ \A i \in 1..k : i \in 1..3
            OBVIOUS
        <3>2. \A i \in 1..k : s[i] \in Message
            BY <1>2, <3>1
        <3>3. t = [i \in 1..k |-> s[i]]
            BY <1>2, <3>1
        <3>4. \A i \in 1..k : t[i] = s[i]
            BY <3>3
        <3> QED
            BY <3>1, <3>2, <3>3, <3>4
    <2>5. \A i \in DOMAIN t : \E j \in 1..3 : t[i] = SlotMessages(n)[j]
        BY <2>4 DEF s
    <2>6. Send(n, t)
        BY <2>3
    <2> HIDE DEF t
    <2> QED
        BY <1>1, <1>4, <2>2, <2>4, <2>5, <2>6 DEF Writes, SendFails
<1> QED
    BY <1>3, <1>4

\* The lines on the wire after a slot are those before it and its messages.
LEMMA ProduceLines ==
    ASSUME TypeOK, NEW n \in Node, Writes(n)
    PROVE  /\ wire' \in [Pairs -> Seq(Message)]
           /\ Lines' \subseteq Lines \cup {SlotMessages(n)[i] : i \in 1..3}
<1>1. PICK s \in Seq(Message) :
          Send(n, s) /\ \A i \in DOMAIN s : \E j \in 1..3 : s[i] = SlotMessages(n)[j]
    BY DEF Writes
<1>2. s \in Seq(Message) /\ DOMAIN s = 1..Len(s) /\ Len(s) \in Nat
    OBVIOUS
<1>4. wire' = [e \in Pairs |-> IF e[1] = n THEN wire[e] \o s ELSE wire[e]]
    BY <1>1 DEF Send
<1>5. \A e \in Pairs : wire[e] \in Seq(Message)
    BY DEF TypeOK
<1>6. \A e \in Pairs : wire[e] \o s \in Seq(Message)
    BY <1>2, <1>5, ConcatProperties
<1>7. wire' \in [Pairs -> Seq(Message)]
    BY <1>4, <1>5, <1>6
<1>8. \A e \in Pairs : \A k \in DOMAIN wire'[e] :
          \/ \E j \in DOMAIN wire[e] : wire'[e][k] = wire[e][j]
          \/ \E i \in DOMAIN s : wire'[e][k] = s[i]
    <2> TAKE e \in Pairs
    <2> TAKE k \in DOMAIN wire'[e]
    <2>1. CASE e[1] = n
        <3>1. /\ wire'[e] = wire[e] \o s
              /\ DOMAIN wire[e] = 1..Len(wire[e]) /\ Len(wire[e]) \in Nat
            BY <1>4, <1>5, <2>1
        <3>2. /\ k \in 1..(Len(wire[e]) + Len(s))
              /\ k <= Len(wire[e]) => wire'[e][k] = wire[e][k]
              /\ k > Len(wire[e]) => wire'[e][k] = s[k - Len(wire[e])]
            BY <1>2, <1>5, <3>1, ConcatProperties
        <3>3. CASE k <= Len(wire[e])
            BY <3>1, <3>2, <3>3
        <3>4. CASE k > Len(wire[e])
            <4>1. k - Len(wire[e]) \in DOMAIN s
                BY <1>2, <3>1, <3>2, <3>4
            <4> QED
                BY <3>2, <3>4, <4>1
        <3> QED
            BY <3>1, <3>2, <3>3, <3>4
    <2>2. CASE e[1] # n
        BY <1>4, <2>2
    <2> QED
        BY <2>1, <2>2
<1>9. Lines' \subseteq Lines \cup {SlotMessages(n)[i] : i \in 1..3}
    BY <1>1, <1>8 DEF Lines
<1> QED
    BY <1>7, <1>9

\* The leader's new entry is the only chain a slot makes, of either kind.
LEMMA ProduceMakes ==
    ASSUME TypeOK, NEW n \in Node, Writes(n),
           NEW own \in [Node -> Seq(Slot)], NEW kind,
           \A i \in 1..3 : SlotMessages(n)[i].kind = kind =>
               SlotMessages(n)[i].on = own[n] /\ SlotMessages(n)[i].slot = at[n]
    PROVE  Made([own EXCEPT ![n] = Append(@, at[n])], Lines', kind)
               \subseteq Made(own, Lines, kind) \cup {Append(own[n], at[n])}
<1>1. Lines' \subseteq Lines \cup {SlotMessages(n)[i] : i \in 1..3}
    BY ProduceLines
<1>2. \A l \in Lines' : l.kind = kind =>
          l \in Lines \/ (l.on = own[n] /\ l.slot = at[n])
    BY <1>1
<1> QED
    BY <1>2 DEF Made

\* An entry is added to a chain it was made on: the result was made before.
LEMMA ApplyMakes ==
    ASSUME TypeOK, NEW n \in Node, NEW own \in [Node -> Seq(Slot)], NEW kind,
           NEW msg \in Lines, msg.kind = kind, msg.on = own[n],
           Lines' \subseteq Lines
    PROVE  Made([own EXCEPT ![n] = Append(@, msg.slot)], Lines', kind)
               \subseteq Made(own, Lines, kind)
BY DEF Made

\* Fewer lines, fewer chains made.
LEMMA FewerMade ==
    ASSUME Lines' \subseteq Lines, NEW own, NEW kind
    PROVE  Made(own, Lines', kind) \subseteq Made(own, Lines, kind)
BY DEF Made

\* What agreed and was past its slots still does when loops go on.
LEMMA ChainKept ==
    ASSUME TypeOK, NEW own \in [Node -> Seq(Slot)], NEW kind, ChainInv(own, kind),
           NEW T \in SUBSET Made(own, Lines, kind),
           at' \in [Node -> Nat], \A n \in Node : at[n] <= at'[n]
    PROVE  Agree(T) /\ Passed(T, at')
<1>1. \A c \in Made(own, Lines, kind) : c \in Seq(Slot)
    BY MadeTyped
<1> QED
    BY <1>1, NothingMade DEF ChainInv

-----------------------------------------------------------------------------
\* No chain is made at first.
LEMMA InitKeeps == Init => GossipInv
<1> SUFFICES ASSUME Init PROVE GossipInv
    OBVIOUS
<1>1. TypeOK
    <2>1. leader \in [Slot -> Node]
        BY DrawAssumption DEF Init, Slot
    <2>2. at \in [Node -> 1..(Slots + 1)] /\ faults \in 0..MaxFaults
        BY SlotsAssumption, FaultAssumption DEF Init
    <2>3. \A A : <<>> \in Seq(A)
        BY EmptySeq
    <2>4. wire \in [Pairs -> Seq(Message)]
        BY <2>3 DEF Init
    <2> QED
        BY <2>1, <2>2, <2>3, <2>4 DEF Init, TypeOK
<1>2. Lines = {}
    BY DEF Init, Lines
<1>3. ASSUME NEW own, own = [n \in Node |-> <<>>], NEW kind
      PROVE  ChainInv(own, kind)
    <2>1. \A c \in Made(own, Lines, kind) : c = <<>>
        BY <1>2, <1>3 DEF Made
    <2>2. \A c \in Made(own, Lines, kind) : DOMAIN c = {}
        BY <2>1
    <2> QED
        BY <2>2 DEF ChainInv, Agree, Passed, SameHistory
<1> QED
    BY <1>1, <1>3 DEF GossipInv, Init

\* A leader makes one chain of each kind.
LEMMA ProduceSlotKeeps ==
    ASSUME GossipInv, NEW n \in Node, Writes(n)
    PROVE  GossipInv'
<1>1. /\ at[n] \in Slot /\ Leads(n) /\ leader' = leader
      /\ at' \in [Node -> Nat] /\ (\A m \in Node : at[m] <= at'[m]) /\ at[n] < at'[n]
    BY SlotsAssumption DEF GossipInv, TypeOK, Writes, Leads, Slot
<1>2. TypeOK'
    <2>1. wire' \in [Pairs -> Seq(Message)]
        BY ProduceLines DEF GossipInv
    <2>2. at' \in [Node -> 1..(Slots + 1)]
        BY DEF Writes
    <2>3. \A own \in [Node -> Seq(Slot)] :
              [own EXCEPT ![n] = Append(@, at[n])] \in [Node -> Seq(Slot)]
        BY <1>1, AppendProperties
    <2> QED
        BY <2>1, <2>2, <2>3 DEF GossipInv, TypeOK, Writes, Extend
<1>3. ASSUME NEW own \in [Node -> Seq(Slot)], NEW kind, ChainInv(own, kind),
             \A i \in 1..3 : SlotMessages(n)[i].kind = kind =>
                 SlotMessages(n)[i].on = own[n] /\ SlotMessages(n)[i].slot = at[n]
      PROVE  LET T == Made([own EXCEPT ![n] = Append(@, at[n])], Lines', kind)
             IN  Agree(T) /\ Passed(T, at')
    <2> DEFINE T == Made([own EXCEPT ![n] = Append(@, at[n])], Lines', kind)
               S == Made(own, Lines, kind)
    <2>1. T \subseteq S \cup {Append(own[n], at[n])}
        BY <1>3, ProduceMakes DEF GossipInv
    <2>2. own[n] \in S
        BY DEF Made
    <2>3. \A c \in S : c \in Seq(Slot)
        BY MadeTyped DEF GossipInv
    <2>4. Agree(S) /\ Passed(S, at)
        BY <1>3 DEF ChainInv
    <2> HIDE DEF S, T
    <2>5. Agree(T) /\ Passed(T, at')
        BY <1>1, <2>1, <2>2, <2>3, <2>4, OneMade DEF GossipInv
    <2> QED
        BY <2>5 DEF T
<1>4. \A i \in 1..3 :
          /\ SlotMessages(n)[i].slot = at[n]
          /\ SlotMessages(n)[i].kind = "slot_header" => SlotMessages(n)[i].on = slotHeaders[n]
          /\ SlotMessages(n)[i].kind = "header" => SlotMessages(n)[i].on = headers[n]
    BY DEF SlotMessages
<1>5. ChainInv(slotHeaders, "slot_header")'
    <2>1. /\ slotHeaders \in [Node -> Seq(Slot)] /\ ChainInv(slotHeaders, "slot_header")
          /\ slotHeaders' = [slotHeaders EXCEPT ![n] = Append(@, at[n])]
        BY DEF GossipInv, TypeOK, Writes, Extend
    <2> QED
        BY <1>1, <1>3, <1>4, <2>1 DEF ChainInv, Passed
<1>6. ChainInv(headers, "header")'
    <2>1. /\ headers \in [Node -> Seq(Slot)] /\ ChainInv(headers, "header")
          /\ headers' = [headers EXCEPT ![n] = Append(@, at[n])]
        BY DEF GossipInv, TypeOK, Writes, Extend
    <2> QED
        BY <1>1, <1>3, <1>4, <2>1 DEF ChainInv, Passed
<1> QED
    BY <1>2, <1>5, <1>6 DEF GossipInv

\* The loop's other steps make nothing.
LEMMA LoopKeeps ==
    ASSUME GossipInv, NEW n \in Node, at[n] <= Slots, NextSlot(n),
           UNCHANGED <<leader, chains, wire, listening, faults>>, hasty' \in BOOLEAN
    PROVE  GossipInv'
<1>1. at' \in [Node -> 1..(Slots + 1)] /\ \A m \in Node : at[m] <= at'[m]
    <2>1. at \in [Node -> 1..(Slots + 1)] /\ at' = [at EXCEPT ![n] = @ + 1]
        BY DEF GossipInv, TypeOK, NextSlot
    <2>2. at[n] + 1 \in 1..(Slots + 1)
        BY <2>1, SlotsAssumption
    <2> QED
        BY <2>1, <2>2, SlotsAssumption
<1>2. TypeOK'
    BY <1>1 DEF GossipInv, TypeOK, chains
<1>3. at' \in [Node -> Nat]
    BY <1>1, SlotsAssumption
<1>4. Lines' = Lines
    BY DEF Lines
<1>5. ASSUME NEW own \in [Node -> Seq(Slot)], NEW kind, ChainInv(own, kind)
      PROVE  LET T == Made(own, Lines', kind) IN Agree(T) /\ Passed(T, at')
    BY <1>1, <1>3, <1>4, <1>5, ChainKept DEF GossipInv
<1>6. ChainInv(slotHeaders, "slot_header")' /\ ChainInv(headers, "header")'
    BY <1>5 DEF GossipInv, TypeOK, ChainInv, Passed, chains
<1> QED
    BY <1>2, <1>6 DEF GossipInv

\* The listener's steps, and what happens to the lines, make nothing either.
LEMMA WireKeeps ==
    ASSUME GossipInv, TypeOK', UNCHANGED <<leader, at>>, Lines' \subseteq Lines,
           Made(slotHeaders', Lines', "slot_header")
               \subseteq Made(slotHeaders, Lines, "slot_header"),
           Made(headers', Lines', "header") \subseteq Made(headers, Lines, "header")
    PROVE  GossipInv'
<1>1. at' \in [Node -> Nat] /\ \A n \in Node : at[n] <= at'[n]
    BY SlotsAssumption DEF GossipInv, TypeOK
<1>2. ASSUME NEW own \in [Node -> Seq(Slot)], NEW kind, ChainInv(own, kind),
             NEW T \in SUBSET Made(own, Lines, kind)
      PROVE  Agree(T) /\ Passed(T, at')
    BY <1>1, <1>2, ChainKept DEF GossipInv
<1>3. ChainInv(slotHeaders, "slot_header")' /\ ChainInv(headers, "header")'
    BY <1>2 DEF GossipInv, TypeOK, ChainInv, Passed
<1> QED
    BY <1>3 DEF GossipInv

\* A listener makes none.
LEMMA DeliverKeeps ==
    ASSUME GossipInv, NEW m \in Node, NEW n \in Node, m # n, Deliver(m, n)
    PROVE  GossipInv'
<1> DEFINE msg == Head(wire[<<m, n>>])
<1>1. wire[<<m, n>>] # <<>> /\ Read(m, n)
    BY DEF Deliver, Reads, ApplySlotHeader, ApplyRing, ApplyHeader
<1>2. /\ wire' \in [Pairs -> Seq(Message)] /\ Lines' \subseteq Lines
      /\ msg \in Lines /\ msg.slot \in Slot
    BY <1>1, ReadKeeps DEF GossipInv, Message
<1>3. \A own \in [Node -> Seq(Slot)] :
          [own EXCEPT ![n] = Append(@, msg.slot)] \in [Node -> Seq(Slot)]
    BY <1>2, AppendProperties
<1>4. \A own, kind : Made(own, Lines', kind) \subseteq Made(own, Lines, kind)
    BY <1>2, FewerMade
<1> HIDE DEF msg
<1>5. CASE ApplySlotHeader(m, n)
    <2>1. /\ msg.kind = "slot_header"
          /\ \/ slotHeaders' = slotHeaders
             \/ /\ msg.on = slotHeaders[n]
                /\ slotHeaders' = [slotHeaders EXCEPT ![n] = Append(@, msg.slot)]
          /\ UNCHANGED <<leader, at, ledger, headers, listening, faults, hasty>>
        BY <1>5 DEF ApplySlotHeader, Reads, Infuses, msg
    <2>2. TypeOK'
        BY <1>2, <1>3, <2>1 DEF GossipInv, TypeOK
    <2>3. Made(slotHeaders', Lines', "slot_header")
              \subseteq Made(slotHeaders, Lines, "slot_header")
        BY <1>2, <1>4, <2>1, ApplyMakes DEF GossipInv, TypeOK
    <2> QED
        BY <1>2, <1>4, <2>1, <2>2, <2>3, WireKeeps
<1>6. CASE ApplyRing(m, n)
    <2>1. /\ \/ ledger' = ledger
             \/ ledger' = [ledger EXCEPT ![n] = Append(@, msg.slot)]
          /\ UNCHANGED <<leader, at, slotHeaders, headers, listening, faults, hasty>>
        BY <1>6 DEF ApplyRing, msg
    <2>2. TypeOK'
        BY <1>2, <1>3, <2>1 DEF GossipInv, TypeOK
    <2> QED
        BY <1>2, <1>4, <2>1, <2>2, WireKeeps
<1>7. CASE ApplyHeader(m, n)
    <2>1. /\ msg.kind = "header"
          /\ \/ headers' = headers
             \/ /\ msg.on = headers[n]
                /\ headers' = [headers EXCEPT ![n] = Append(@, msg.slot)]
          /\ UNCHANGED <<leader, at, ledger, slotHeaders, listening, faults, hasty>>
        BY <1>7 DEF ApplyHeader, Reads, Links, msg
    <2>2. TypeOK'
        BY <1>2, <1>3, <2>1 DEF GossipInv, TypeOK
    <2>3. Made(headers', Lines', "header") \subseteq Made(headers, Lines, "header")
        BY <1>2, <1>4, <2>1, ApplyMakes DEF GossipInv, TypeOK
    <2> QED
        BY <1>2, <1>4, <2>1, <2>2, <2>3, WireKeeps
<1> QED
    BY <1>5, <1>6, <1>7 DEF Deliver

-----------------------------------------------------------------------------
\* Every step keeps the invariant.
LEMMA StepKeeps == GossipInv /\ [Next]_vars => GossipInv'
<1> SUFFICES ASSUME GossipInv, [Next]_vars PROVE GossipInv'
    OBVIOUS
<1>1. ASSUME NEW n \in Node, ProduceSlot(n) \/ SendFails(n) PROVE GossipInv'
    BY <1>1, LeaderWrites, ProduceSlotKeeps DEF GossipInv
<1>2. ASSUME NEW n \in Node, SkipSlot(n) \/ SlotArrived(n) \/ GiveUp(n)
      PROVE  GossipInv'
    <2>1. /\ at[n] <= Slots /\ NextSlot(n)
          /\ UNCHANGED <<leader, chains, wire, listening, faults>>
        BY <1>2 DEF SkipSlot, SlotArrived, GiveUp, Leads, Follows
    <2>2. hasty' \in BOOLEAN
        <3>1. CASE GiveUp(n)
            BY <3>1 DEF GossipInv, TypeOK, GiveUp
        <3>2. CASE SkipSlot(n) \/ SlotArrived(n)
            BY <3>2 DEF GossipInv, TypeOK, SkipSlot, SlotArrived
        <3> QED
            BY <1>2, <3>1, <3>2
    <2> QED
        BY <2>1, <2>2, LoopKeeps
<1>3. ASSUME NEW e \in Pairs, Deliver(e[1], e[2]) PROVE GossipInv'
    BY <1>3, DeliverKeeps DEF Pairs
<1>4. ASSUME NEW e \in Pairs, Fault(e[1], e[2]) PROVE GossipInv'
    <2>1. e[1] \in Node /\ e[2] \in Node /\ e[1] # e[2]
        BY DEF Pairs
    <2>2. wire' \in [Pairs -> Seq(Message)] /\ Lines' \subseteq Lines
        BY <1>4, <2>1, FaultKeeps DEF GossipInv
    <2>3. faults' \in 0..MaxFaults /\ UNCHANGED <<leader, at, chains, listening, hasty>>
        BY <1>4, FaultAssumption DEF GossipInv, TypeOK, Fault
    <2>4. TypeOK'
        BY <2>2, <2>3 DEF GossipInv, TypeOK, chains
    <2> QED
        BY <2>2, <2>3, <2>4, FewerMade, WireKeeps DEF chains
<1>5. CASE UNCHANGED vars
    <2>1. TypeOK' /\ Lines' = Lines /\ UNCHANGED <<leader, at, slotHeaders, headers>>
        BY <1>5 DEF GossipInv, TypeOK, vars, chains, Lines
    <2> QED
        BY <2>1, WireKeeps
<1>6. ASSUME NEW n \in Node, Close(n) PROVE GossipInv'
    <2>1. /\ TypeOK' /\ Lines' = Lines
          /\ UNCHANGED <<leader, at, slotHeaders, headers>>
        BY <1>6 DEF GossipInv, TypeOK, Close, chains, Lines
    <2> QED
        BY <2>1, WireKeeps
<1> QED
    BY <1>1, <1>2, <1>3, <1>4, <1>5, <1>6 DEF Next, Loop

\* So it always holds.
LEMMA InvAlways == Spec => []GossipInv
BY InitKeeps, StepKeeps, PTL DEF Spec

-----------------------------------------------------------------------------
\* The types of the state, for every number of nodes, slots and faults.
THEOREM GossipTypeCorrect == Spec => []TypeOK
<1>1. GossipInv => TypeOK
    BY DEF GossipInv
<1> QED
    BY <1>1, InvAlways, PTL

\* Nodes that hold the same proof of space hold the same infusion chain before
\* it: verify_slot_header recomputes the challenge from the last slot header.
THEOREM ProofsMustAgree == Spec => []ProofsAgree
<1>1. GossipInv => ProofsAgree
    BY DEF GossipInv, ChainInv, Agree, Made, ProofsAgree
<1> QED
    BY <1>1, InvAlways, PTL

\* The same of headers: _apply_header takes only one that links to its last.
THEOREM HeadersMustAgree == Spec => []HeadersAgree
<1>1. GossipInv => HeadersAgree
    BY DEF GossipInv, ChainInv, Agree, Made, HeadersAgree
<1> QED
    BY <1>1, InvAlways, PTL

-----------------------------------------------------------------------------
\* A net of two nodes, as tcp_net_run makes it, whose lines all arrive and
\* whose waits end in time.  Of the rings (and of the proofs) the wire holds
\* what the reader lacks, in order: Behind.  Nobody is past a slot whose ring
\* is to come, so a leader has read all there is.
Begins(c, d) == Len(c) <= Len(d) /\ \A i \in 1..Len(c) : c[i] = d[i]

\* A reader with chain d of a writer with chain c, and the lines w between.
Behind(c, d, w, kind) ==
    /\ Begins(c, d) \/ Begins(d, c)
    /\ \A k \in 1..Len(w) : w[k].kind = kind =>
          Begins(Append(w[k].on, w[k].slot), c) /\ Len(d) <= Len(w[k].on)
    /\ \A j, k \in 1..Len(w) : w[j].kind = kind /\ w[k].kind = kind /\ j < k =>
          Len(w[j].on) < Len(w[k].on)
    /\ \A p \in Nat : Len(d) <= p /\ p < Len(c) =>
          \E k \in 1..Len(w) : w[k].kind = kind /\ Len(w[k].on) = p

\* The head of a line's worth of messages, and the rest.
LEMMA Unread ==
    ASSUME NEW w \in Seq(Message), w # <<>>
    PROVE  /\ Len(w) \in Nat \ {0} /\ Head(w) = w[1] /\ Tail(w) \in Seq(Message)
           /\ Len(Tail(w)) = Len(w) - 1
           /\ \A k \in 1..(Len(w) - 1) : Tail(w)[k] = w[k + 1] /\ k + 1 \in 1..Len(w)
           /\ \A k \in 1..Len(w) : k # 1 => k - 1 \in 1..(Len(w) - 1) /\ Tail(w)[k - 1] = w[k]
           /\ \A k \in 1..Len(w) : w[k].on \in Seq(Slot) /\ w[k].slot \in Slot
<1>1. /\ Len(w) \in Nat \ {0} /\ Head(w) = w[1] /\ Tail(w) \in Seq(Message)
      /\ Len(Tail(w)) = Len(w) - 1
      /\ \A k \in 1..(Len(w) - 1) : Tail(w)[k] = w[k + 1]
    BY HeadTailProperties, LenProperties, EmptySeq
<1>2. ASSUME NEW k \in 1..Len(w), k # 1
      PROVE  k - 1 \in 1..(Len(w) - 1) /\ (k - 1) + 1 = k
    BY <1>1, <1>2
<1>3. \A k \in 1..Len(w) : w[k] \in Message
    BY ElementOfSeq
<1>4. \A k \in 1..(Len(w) - 1) : k + 1 \in 1..Len(w)
    BY <1>1
<1>5. ASSUME NEW k \in 1..Len(w), k # 1
      PROVE  Tail(w)[k - 1] = w[k]
    BY <1>1, <1>2, <1>5
<1> QED
    BY <1>1, <1>2, <1>3, <1>4, <1>5 DEF Message

\* A chain and one slot more.
LEMMA Longer ==
    ASSUME NEW c \in Seq(Slot), NEW x \in Slot
    PROVE  /\ Append(c, x) \in Seq(Slot) /\ Len(c) \in Nat /\ Len(Append(c, x)) = Len(c) + 1
           /\ \A i \in 1..Len(c) : Append(c, x)[i] = c[i]
           /\ Append(c, x)[Len(c) + 1] = x
           /\ Begins(c, Append(c, x))
BY AppendProperties, LenProperties DEF Begins

\* A line of another kind is read.
LEMMA BehindOther ==
    ASSUME NEW c \in Seq(Slot), NEW d \in Seq(Slot), NEW w \in Seq(Message), w # <<>>, NEW kind,
           Behind(c, d, w, kind), Head(w).kind # kind
    PROVE  Behind(c, d, Tail(w), kind)
<1>1. /\ Len(w) \in Nat \ {0} /\ w[1].kind # kind /\ Len(Tail(w)) = Len(w) - 1
      /\ \A k \in 1..(Len(w) - 1) : Tail(w)[k] = w[k + 1] /\ k + 1 \in 1..Len(w)
      /\ \A k \in 1..Len(w) : k # 1 => k - 1 \in 1..(Len(w) - 1) /\ Tail(w)[k - 1] = w[k]
    BY Unread
<1>2. \A k \in 1..(Len(w) - 1) : Tail(w)[k].kind = kind =>
          Begins(Append(Tail(w)[k].on, Tail(w)[k].slot), c) /\ Len(d) <= Len(Tail(w)[k].on)
    BY <1>1 DEF Behind
<1>3. \A j, k \in 1..(Len(w) - 1) :
          Tail(w)[j].kind = kind /\ Tail(w)[k].kind = kind /\ j < k =>
              Len(Tail(w)[j].on) < Len(Tail(w)[k].on)
    <2> SUFFICES ASSUME NEW j \in 1..(Len(w) - 1), NEW k \in 1..(Len(w) - 1),
                        Tail(w)[j].kind = kind, Tail(w)[k].kind = kind, j < k
                 PROVE  Len(Tail(w)[j].on) < Len(Tail(w)[k].on)
        OBVIOUS
    <2>1. j + 1 < k + 1
        OBVIOUS
    <2> QED
        BY <1>1, <2>1 DEF Behind
<1>4. ASSUME NEW p \in Nat, Len(d) <= p, p < Len(c)
      PROVE  \E k \in 1..(Len(w) - 1) : Tail(w)[k].kind = kind /\ Len(Tail(w)[k].on) = p
    <2>1. PICK k \in 1..Len(w) : w[k].kind = kind /\ Len(w[k].on) = p
        BY <1>4 DEF Behind
    <2> QED
        BY <1>1, <2>1
<1> QED
    BY <1>1, <1>2, <1>3, <1>4 DEF Behind

\* A line of the kind is read: it is made on the very chain the reader holds.
LEMMA BehindRead ==
    ASSUME NEW c \in Seq(Slot), NEW d \in Seq(Slot), NEW w \in Seq(Message), w # <<>>, NEW kind,
           Behind(c, d, w, kind), Head(w).kind = kind
    PROVE  /\ Head(w).on = d /\ Begins(Append(d, Head(w).slot), c)
           /\ Behind(c, Append(d, Head(w).slot), Tail(w), kind)
<1> DEFINE h == w[1]
           e == Append(d, h.slot)
<1>1. /\ Len(w) \in Nat \ {0} /\ Head(w) = h /\ h.kind = kind /\ Len(Tail(w)) = Len(w) - 1
      /\ \A k \in 1..(Len(w) - 1) : Tail(w)[k] = w[k + 1] /\ k + 1 \in 1..Len(w)
      /\ \A k \in 1..Len(w) : k # 1 => k - 1 \in 1..(Len(w) - 1) /\ Tail(w)[k - 1] = w[k]
      /\ \A k \in 1..Len(w) : w[k].on \in Seq(Slot) /\ w[k].slot \in Slot
      /\ 1 \in 1..Len(w)
    BY Unread
<1>2. h.on \in Seq(Slot) /\ h.slot \in Slot
    BY <1>1
<1> HIDE DEF h
<1>3. /\ Len(Append(h.on, h.slot)) = Len(h.on) + 1 /\ Len(h.on) \in Nat
      /\ \A i \in 1..Len(h.on) : Append(h.on, h.slot)[i] = h.on[i]
      /\ Append(h.on, h.slot)[Len(h.on) + 1] = h.slot
    BY <1>2, Longer
<1>4. e \in Seq(Slot) /\ Len(e) = Len(d) + 1 /\ Len(d) \in Nat /\ Len(c) \in Nat
      /\ (\A i \in 1..Len(d) : e[i] = d[i]) /\ e[Len(d) + 1] = h.slot
    BY <1>2, Longer, LenProperties
<1> HIDE DEF e
<1>5. Len(h.on) + 1 <= Len(c) /\ Len(d) <= Len(h.on)
    <2>1. Begins(Append(h.on, h.slot), c) /\ Len(d) <= Len(h.on)
        BY <1>1 DEF Behind, h
    <2> QED
        BY <1>3, <2>1 DEF Begins
<1>6. /\ \A i \in 1..Len(h.on) : h.on[i] = c[i]
      /\ c[Len(h.on) + 1] = h.slot
    <2>1. Begins(Append(h.on, h.slot), c)
        BY <1>1 DEF Behind, h
    <2>2. \A i \in 1..(Len(h.on) + 1) : Append(h.on, h.slot)[i] = c[i]
        BY <1>3, <2>1 DEF Begins
    <2>3. ASSUME NEW i \in 1..Len(h.on) PROVE h.on[i] = c[i]
        BY <1>3, <2>2
    <2>4. c[Len(h.on) + 1] = h.slot
        BY <1>3, <2>2
    <2> QED
        BY <2>3, <2>4
<1>7. Len(h.on) = Len(d)
    <2>1. PICK k \in 1..Len(w) : w[k].kind = kind /\ Len(w[k].on) = Len(d)
        <3>1. Len(d) < Len(c)
            BY <1>3, <1>4, <1>5
        <3> QED
            BY <1>4, <3>1 DEF Behind
    <2>2. k # 1 => Len(h.on) < Len(w[k].on)
        BY <1>1, <2>1 DEF Behind, h
    <2> QED
        BY <1>3, <1>4, <1>5, <2>1, <2>2 DEF h
<1>8. \A i \in 1..Len(d) : d[i] = c[i]
    <2>1. CASE Begins(d, c)
        BY <2>1 DEF Begins
    <2>2. CASE Begins(c, d)
        BY <1>3, <1>4, <1>5, <2>2 DEF Begins
    <2> QED
        BY <2>1, <2>2 DEF Behind
<1>9. h.on = d
    BY <1>2, <1>6, <1>7, <1>8, SeqEqual
<1>10. Begins(e, c)
    <2>1. \A i \in 1..(Len(d) + 1) : e[i] = c[i]
        BY <1>4, <1>6, <1>7, <1>8
    <2> QED
        BY <1>4, <1>5, <1>7, <2>1 DEF Begins
<1>11. \A k \in 1..(Len(w) - 1) : Tail(w)[k].kind = kind =>
          Begins(Append(Tail(w)[k].on, Tail(w)[k].slot), c) /\ Len(e) <= Len(Tail(w)[k].on)
    <2> SUFFICES ASSUME NEW k \in 1..(Len(w) - 1), Tail(w)[k].kind = kind
                 PROVE  Begins(Append(Tail(w)[k].on, Tail(w)[k].slot), c) /\ Len(e) <= Len(Tail(w)[k].on)
        OBVIOUS
    <2>1. 1 < k + 1 /\ k + 1 \in 1..Len(w) /\ Tail(w)[k] = w[k + 1]
        BY <1>1
    <2>2. Len(h.on) < Len(w[k + 1].on) /\ Begins(Append(w[k + 1].on, w[k + 1].slot), c)
        BY <1>1, <2>1 DEF Behind, h
    <2>3. Len(w[k + 1].on) \in Nat
        BY <1>1, <2>1, LenProperties
    <2> QED
        BY <1>3, <1>4, <1>7, <2>1, <2>2, <2>3
<1>12. \A j, k \in 1..(Len(w) - 1) :
          Tail(w)[j].kind = kind /\ Tail(w)[k].kind = kind /\ j < k =>
              Len(Tail(w)[j].on) < Len(Tail(w)[k].on)
    <2> SUFFICES ASSUME NEW j \in 1..(Len(w) - 1), NEW k \in 1..(Len(w) - 1),
                        Tail(w)[j].kind = kind, Tail(w)[k].kind = kind, j < k
                 PROVE  Len(Tail(w)[j].on) < Len(Tail(w)[k].on)
        OBVIOUS
    <2>1. j + 1 < k + 1
        OBVIOUS
    <2> QED
        BY <1>1, <2>1 DEF Behind
<1>13. ASSUME NEW p \in Nat, Len(e) <= p, p < Len(c)
       PROVE  \E k \in 1..(Len(w) - 1) : Tail(w)[k].kind = kind /\ Len(Tail(w)[k].on) = p
    <2>1. Len(d) <= p /\ p # Len(d)
        BY <1>4, <1>13
    <2>2. PICK k \in 1..Len(w) : w[k].kind = kind /\ Len(w[k].on) = p
        BY <1>13, <2>1 DEF Behind
    <2>3. k # 1
        BY <1>7, <2>1, <2>2 DEF h
    <2> QED
        BY <1>1, <2>2, <2>3
<1>14. Behind(c, e, Tail(w), kind)
    BY <1>1, <1>10, <1>11, <1>12, <1>13 DEF Behind
<1> QED
    BY <1>1, <1>9, <1>10, <1>14 DEF e

\* A part of a part is a part.
LEMMA BeginsThrough ==
    ASSUME NEW c \in Seq(Slot), NEW d \in Seq(Slot), NEW e \in Seq(Slot),
           Begins(c, d), Begins(d, e)
    PROVE  Begins(c, e)
<1>1. Len(c) \in Nat /\ Len(d) \in Nat /\ Len(e) \in Nat /\ Len(c) <= Len(d) /\ Len(d) <= Len(e)
    BY LenProperties DEF Begins
<1>2. ASSUME NEW i \in 1..Len(c) PROVE c[i] = e[i]
    <2>1. i \in 1..Len(d)
        BY <1>1
    <2> QED
        BY <2>1 DEF Begins
<1> QED
    BY <1>1, <1>2 DEF Begins

\* A writer that lacks nothing its reader holds writes no more than it had.
LEMMA BehindBack ==
    ASSUME NEW c \in Seq(Slot), NEW d \in Seq(Slot), NEW e \in Seq(Slot),
           NEW w \in Seq(Message), NEW kind,
           Behind(c, d, w, kind), Begins(c, e), Begins(e, d)
    PROVE  Behind(e, d, w, kind)
<1>1. Len(c) \in Nat /\ Len(d) \in Nat /\ Len(e) \in Nat /\ Len(c) <= Len(e) /\ Len(e) <= Len(d)
    BY LenProperties DEF Begins
<1>2. ASSUME NEW k \in 1..Len(w), w[k].kind = kind
      PROVE  Begins(Append(w[k].on, w[k].slot), e) /\ Len(d) <= Len(w[k].on)
    <2>1. w[k] \in Message
        BY ElementOfSeq
    <2>2. w[k].on \in Seq(Slot) /\ w[k].slot \in Slot
        BY <2>1 DEF Message
    <2> DEFINE x == Append(w[k].on, w[k].slot)
    <2>3. Len(x) \in Nat
        BY <2>2, Longer, LenProperties
    <2>4. Begins(x, c) /\ Len(d) <= Len(w[k].on)
        BY <1>2 DEF Behind
    <2> HIDE DEF x
    <2>5. Begins(x, e)
        BY <1>1, <2>3, <2>4 DEF Begins
    <2> QED
        BY <2>4, <2>5 DEF x
<1>3. \A p \in Nat : ~(Len(d) <= p /\ p < Len(e))
    BY <1>1
<1>4. \A j, k \in 1..Len(w) : w[j].kind = kind /\ w[k].kind = kind /\ j < k =>
          Len(w[j].on) < Len(w[k].on)
    BY DEF Behind
<1> QED
    BY <1>2, <1>3, <1>4 DEF Behind

\* With nothing of the kind on the wire the reader lacks nothing.
LEMMA BehindAll ==
    ASSUME NEW c \in Seq(Slot), NEW d \in Seq(Slot), NEW w \in Seq(Message), NEW kind,
           Behind(c, d, w, kind), \A k \in 1..Len(w) : w[k].kind # kind
    PROVE  Len(c) <= Len(d) /\ Begins(c, d)
<1>1. Len(c) \in Nat /\ Len(d) \in Nat
    BY LenProperties
<1>2. Len(c) <= Len(d)
    <2> SUFFICES ASSUME Len(d) < Len(c) PROVE FALSE
        BY <1>1
    <2> QED
        BY <1>1 DEF Behind
<1>3. CASE Begins(c, d)
    BY <1>2, <1>3
<1>4. CASE Begins(d, c)
    <2>1. Len(c) = Len(d)
        BY <1>1, <1>2, <1>4 DEF Begins
    <2> QED
        BY <1>4, <2>1 DEF Begins
<1> QED
    BY <1>3, <1>4 DEF Behind

\* The reader makes entries of its own when nothing of the kind is on the wire.
LEMMA BehindAlone ==
    ASSUME NEW c \in Seq(Slot), NEW d \in Seq(Slot), NEW e \in Seq(Slot),
           NEW w \in Seq(Message), NEW kind,
           Behind(c, d, w, kind), \A k \in 1..Len(w) : w[k].kind # kind, Begins(d, e)
    PROVE  Behind(c, e, w, kind)
<1>1. Len(c) \in Nat /\ Len(d) \in Nat /\ Len(e) \in Nat
    BY LenProperties
<1>2. Len(c) <= Len(d) /\ Begins(c, d)
    BY BehindAll
<1>3. Begins(c, e)
    BY <1>1, <1>2 DEF Begins
<1>4. \A p \in Nat : ~(Len(e) <= p /\ p < Len(c))
    BY <1>1, <1>3 DEF Begins
<1> QED
    BY <1>3, <1>4 DEF Behind

\* The wire after three lines more.
LEMMA Written ==
    ASSUME NEW w \in Seq(Message), NEW s \in Seq(Message), Len(s) = 3
    PROVE  /\ w \o s \in Seq(Message) /\ Len(w) \in Nat /\ Len(w \o s) = Len(w) + 3
           /\ \A k \in 1..Len(w) : (w \o s)[k] = w[k] /\ k \in 1..Len(w \o s)
           /\ \A i \in 1..3 : (w \o s)[Len(w) + i] = s[i] /\ Len(w) + i \in 1..Len(w \o s)
           /\ \A k \in 1..Len(w \o s) : k \notin 1..Len(w) =>
                 k - Len(w) \in 1..3 /\ (w \o s)[k] = s[k - Len(w)]
<1>1. /\ w \o s \in Seq(Message) /\ Len(w) \in Nat /\ Len(w \o s) = Len(w) + 3
      /\ \A k \in 1..(Len(w) + 3) : (w \o s)[k] = IF k <= Len(w) THEN w[k] ELSE s[k - Len(w)]
    <2>1. /\ w \o s \in Seq(Message) /\ Len(w \o s) = Len(w) + Len(s)
          /\ \A k \in 1..(Len(w) + Len(s)) :
                (w \o s)[k] = IF k <= Len(w) THEN w[k] ELSE s[k - Len(w)]
        BY ConcatProperties
    <2>2. Len(w) \in Nat
        BY LenProperties
    <2> QED
        BY <2>1, <2>2
<1>2. \A k \in 1..Len(w) : (w \o s)[k] = w[k] /\ k \in 1..Len(w \o s)
    BY <1>1
<1>3. ASSUME NEW i \in 1..3
      PROVE  (w \o s)[Len(w) + i] = s[i] /\ Len(w) + i \in 1..Len(w \o s)
    <2>1. Len(w) + i \in 1..(Len(w) + 3) /\ ~(Len(w) + i <= Len(w)) /\ (Len(w) + i) - Len(w) = i
        BY <1>1
    <2> QED
        BY <1>1, <2>1
<1>4. ASSUME NEW k \in 1..Len(w \o s), k \notin 1..Len(w)
      PROVE  k - Len(w) \in 1..3 /\ (w \o s)[k] = s[k - Len(w)]
    BY <1>1, <1>4
<1> QED
    BY <1>1, <1>2, <1>3, <1>4

\* A slot's lines are written, one of them of the kind, made on the chain.
LEMMA BehindWritten ==
    ASSUME NEW c \in Seq(Slot), NEW d \in Seq(Slot), NEW x \in Slot,
           NEW w \in Seq(Message), NEW s \in Seq(Message), Len(s) = 3, NEW kind,
           Behind(c, d, w, kind), Begins(d, c),
           \E i \in 1..3 : /\ s[i].kind = kind /\ s[i].on = c /\ s[i].slot = x
                           /\ \A j \in 1..3 : s[j].kind = kind => j = i
    PROVE  Behind(Append(c, x), d, w \o s, kind)
<1> DEFINE e == Append(c, x)
           v == w \o s
<1>0. PICK i \in 1..3 : /\ s[i].kind = kind /\ s[i].on = c /\ s[i].slot = x
                        /\ \A j \in 1..3 : s[j].kind = kind => j = i
    OBVIOUS
<1>1. /\ e \in Seq(Slot) /\ Len(c) \in Nat /\ Len(d) \in Nat /\ Len(e) = Len(c) + 1
      /\ \A j \in 1..Len(c) : e[j] = c[j]
      /\ Begins(c, e)
    BY Longer, LenProperties
<1>2. /\ v \in Seq(Message) /\ Len(w) \in Nat /\ Len(v) = Len(w) + 3
      /\ \A k \in 1..Len(w) : v[k] = w[k] /\ k \in 1..Len(v)
      /\ \A j \in 1..3 : v[Len(w) + j] = s[j] /\ Len(w) + j \in 1..Len(v)
      /\ \A k \in 1..Len(v) : k \notin 1..Len(w) => k - Len(w) \in 1..3 /\ v[k] = s[k - Len(w)]
    BY Written
<1> HIDE DEF e, v
<1>3. Begins(d, e) /\ Len(d) <= Len(c)
    BY <1>1 DEF Begins
<1>4. \A k \in 1..Len(w) : w[k].on \in Seq(Slot) /\ w[k].slot \in Slot
    <2>1. \A k \in 1..Len(w) : w[k] \in Message
        BY ElementOfSeq
    <2> QED
        BY <2>1 DEF Message
<1>5. ASSUME NEW k \in 1..Len(v), v[k].kind = kind, k \notin 1..Len(w)
      PROVE  k = Len(w) + i /\ v[k].on = c /\ v[k].slot = x
    <2> DEFINE j == k - Len(w)
    <2>1. j = i
        <3>1. j \in 1..3 /\ v[k] = s[j]
            BY <1>2, <1>5
        <3> HIDE DEF j
        <3> QED
            BY <1>0, <1>5, <3>1
    <2> QED
        BY <1>0, <1>2, <1>5, <2>1
<1>6. ASSUME NEW k \in 1..Len(w), w[k].kind = kind
      PROVE  /\ Begins(Append(w[k].on, w[k].slot), e) /\ Len(d) <= Len(w[k].on)
             /\ Len(w[k].on) \in Nat /\ Len(w[k].on) < Len(c)
    <2> DEFINE o == w[k].on
               y == Append(o, w[k].slot)
    <2>1. y \in Seq(Slot) /\ Len(o) \in Nat /\ Len(y) = Len(o) + 1
        BY <1>4, Longer
    <2>2. Begins(y, c) /\ Len(d) <= Len(o)
        BY <1>6 DEF Behind
    <2> HIDE DEF o, y
    <2>3. Len(y) <= Len(c)
        BY <2>2 DEF Begins
    <2>4. ASSUME NEW j \in 1..Len(y) PROVE y[j] = e[j]
        <3>1. Len(y) \in Nat
            BY <2>1, LenProperties
        <3>2. j \in 1..Len(c) /\ y[j] = c[j]
            BY <1>1, <2>2, <2>3, <3>1 DEF Begins
        <3> QED
            BY <1>1, <3>2
    <2>5. Len(y) <= Len(e) /\ Len(o) < Len(c)
        BY <1>1, <2>1, <2>3
    <2>6. Begins(y, e)
        BY <2>4, <2>5 DEF Begins
    <2> QED
        BY <2>1, <2>2, <2>5, <2>6 DEF o, y
<1>7. ASSUME NEW k \in 1..Len(v), v[k].kind = kind
      PROVE  Begins(Append(v[k].on, v[k].slot), e) /\ Len(d) <= Len(v[k].on)
    <2>1. CASE k \in 1..Len(w)
        BY <1>2, <1>6, <1>7, <2>1
    <2>2. CASE k \notin 1..Len(w)
        <3>1. v[k].on = c /\ v[k].slot = x
            BY <1>5, <1>7, <2>2
        <3>2. Begins(e, e)
            BY <1>1 DEF Begins
        <3> QED
            BY <1>3, <3>1, <3>2 DEF e
    <2> QED
        BY <2>1, <2>2
<1>8. ASSUME NEW j \in 1..Len(v), NEW k \in 1..Len(v), v[j].kind = kind, v[k].kind = kind, j < k
      PROVE  Len(v[j].on) < Len(v[k].on)
    <2>1. CASE k \in 1..Len(w)
        <3>1. j \in 1..Len(w)
            BY <1>2, <1>8, <2>1
        <3> QED
            BY <1>2, <1>8, <2>1, <3>1 DEF Behind
    <2>2. CASE k \notin 1..Len(w) /\ j \in 1..Len(w)
        <3>1. v[k].on = c
            BY <1>5, <1>8, <2>2
        <3>2. Len(w[j].on) < Len(c) /\ v[j] = w[j]
            BY <1>2, <1>6, <1>8, <2>2
        <3> QED
            BY <3>1, <3>2
    <2>3. CASE k \notin 1..Len(w) /\ j \notin 1..Len(w)
        <3>1. k = Len(w) + i /\ j = Len(w) + i
            BY <1>5, <1>8, <2>3
        <3> QED
            BY <1>2, <1>8, <3>1
    <2> QED
        BY <2>1, <2>2, <2>3
<1>9. ASSUME NEW p \in Nat, Len(d) <= p, p < Len(e)
      PROVE  \E k \in 1..Len(v) : v[k].kind = kind /\ Len(v[k].on) = p
    <2>1. CASE p < Len(c)
        <3>1. PICK k \in 1..Len(w) : w[k].kind = kind /\ Len(w[k].on) = p
            BY <1>9, <2>1 DEF Behind
        <3> QED
            BY <1>2, <3>1
    <2>2. CASE p = Len(c)
        BY <1>0, <1>2, <2>2
    <2> QED
        BY <1>1, <1>9, <2>1, <2>2
<1>10. Behind(c, d, w, kind) => Behind(e, d, v, kind)
    BY <1>3, <1>7, <1>8, <1>9 DEF Behind
<1> QED
    BY <1>10 DEF e, v
-----------------------------------------------------------------------------
\* The ring of a height is on the wire.
HasRing(w, p) == \E k \in 1..Len(w) : w[k].kind = "ring" /\ Len(w[k].on) = p

\* Behind every proof on the wire comes the ring of its height.
ProofFirst(w) ==
    \A k \in 1..Len(w) : w[k].kind = "slot_header" =>
        \E j \in 1..Len(w) : k < j /\ w[j].kind = "ring" /\ Len(w[j].on) = Len(w[k].on)

\* A reader with ledger d whose infusion chain f is longer is owed the rings.
Owed(d, f, w) == \A p \in Nat : Len(d) <= p /\ p < Len(f) => HasRing(w, p)

\* A ledger's slots ascend, and their leaders are past them.
Rising(c, a) ==
    /\ \A i, j \in 1..Len(c) : i < j => c[i] < c[j]
    /\ \A i \in 1..Len(c) : c[i] < a[leader[c[i]]]

\* A line that is not the last ring of its height is read: what is owed still
\* comes, and every proof still has its ring behind it.
LEMMA OwedRead ==
    ASSUME NEW w \in Seq(Message), w # <<>>, ProofFirst(w)
    PROVE  /\ ProofFirst(Tail(w))
           /\ \A p \in Nat : HasRing(w, p) /\ ~(w[1].kind = "ring" /\ Len(w[1].on) = p) =>
                 HasRing(Tail(w), p)
           /\ w[1].kind = "slot_header" => HasRing(w, Len(w[1].on))
<1>1. /\ Len(w) \in Nat \ {0} /\ Len(Tail(w)) = Len(w) - 1
      /\ \A k \in 1..(Len(w) - 1) : Tail(w)[k] = w[k + 1] /\ k + 1 \in 1..Len(w)
      /\ \A k \in 1..Len(w) : k # 1 => k - 1 \in 1..(Len(w) - 1) /\ Tail(w)[k - 1] = w[k]
      /\ 1 \in 1..Len(w)
    BY Unread
<1>2. ASSUME NEW k \in 1..(Len(w) - 1), Tail(w)[k].kind = "slot_header"
      PROVE  \E j \in 1..(Len(w) - 1) : k < j /\ Tail(w)[j].kind = "ring"
                                       /\ Len(Tail(w)[j].on) = Len(Tail(w)[k].on)
    <2>1. PICK j \in 1..Len(w) : /\ k + 1 < j /\ w[j].kind = "ring"
                                 /\ Len(w[j].on) = Len(w[k + 1].on)
        BY <1>1, <1>2 DEF ProofFirst
    <2>2. j # 1 /\ k < j - 1
        BY <2>1
    <2> QED
        BY <1>1, <2>1, <2>2
<1>3. ASSUME NEW p \in Nat, HasRing(w, p), ~(w[1].kind = "ring" /\ Len(w[1].on) = p)
      PROVE  HasRing(Tail(w), p)
    <2>1. PICK k \in 1..Len(w) : w[k].kind = "ring" /\ Len(w[k].on) = p
        BY <1>3 DEF HasRing
    <2>2. k # 1
        BY <1>3, <2>1
    <2> QED
        BY <1>1, <2>1, <2>2 DEF HasRing
<1>4. w[1].kind = "slot_header" => HasRing(w, Len(w[1].on))
    BY <1>1 DEF ProofFirst, HasRing
<1> QED
    BY <1>1, <1>2, <1>3, <1>4 DEF ProofFirst

\* A slot's lines are written: the proof, then the ring of the same height.
LEMMA OwedWritten ==
    ASSUME NEW w \in Seq(Message), NEW s \in Seq(Message), Len(s) = 3, ProofFirst(w),
           s[1].kind = "slot_header", s[2].kind = "ring", s[3].kind = "header",
           Len(s[1].on) = Len(s[2].on)
    PROVE  /\ ProofFirst(w \o s)
           /\ \A p \in Nat : HasRing(w, p) => HasRing(w \o s, p)
<1> DEFINE v == w \o s
<1>1. /\ Len(w) \in Nat /\ Len(v) = Len(w) + 3
      /\ \A k \in 1..Len(w) : v[k] = w[k] /\ k \in 1..Len(v)
      /\ \A j \in 1..3 : v[Len(w) + j] = s[j] /\ Len(w) + j \in 1..Len(v)
      /\ \A k \in 1..Len(v) : k \notin 1..Len(w) => k - Len(w) \in 1..3 /\ v[k] = s[k - Len(w)]
    BY Written
<1> HIDE DEF v
<1>2. ASSUME NEW k \in 1..Len(v), v[k].kind = "slot_header"
      PROVE  \E j \in 1..Len(v) : k < j /\ v[j].kind = "ring" /\ Len(v[j].on) = Len(v[k].on)
    <2>1. CASE k \in 1..Len(w)
        <3>1. PICK j \in 1..Len(w) : k < j /\ w[j].kind = "ring" /\ Len(w[j].on) = Len(w[k].on)
            BY <1>1, <1>2, <2>1 DEF ProofFirst
        <3> QED
            BY <1>1, <2>1, <3>1
    <2>2. CASE k \notin 1..Len(w)
        <3>1. k - Len(w) \in 1..3 /\ v[k] = s[k - Len(w)]
            BY <1>1, <2>2
        <3>2. k - Len(w) # 2 /\ k - Len(w) # 3
            BY <1>2, <3>1
        <3>3. k = Len(w) + 1 /\ v[k] = s[1]
            BY <1>1, <3>1, <3>2
        <3>4. v[Len(w) + 2] = s[2] /\ Len(w) + 2 \in 1..Len(v) /\ k < Len(w) + 2
            BY <1>1, <3>3
        <3> QED
            BY <3>3, <3>4
    <2> QED
        BY <2>1, <2>2
<1>3. \A p \in Nat : HasRing(w, p) => HasRing(v, p)
    BY <1>1 DEF HasRing
<1>4. ProofFirst(v)
    BY <1>2 DEF ProofFirst
<1> QED
    BY <1>3, <1>4 DEF v

\* The part of a rising ledger rises, and rises still when the loops go on.
LEMMA RisesOn ==
    ASSUME NEW c \in Seq(Slot), NEW e \in Seq(Slot), Begins(e, c),
           NEW l \in [Slot -> Node], NEW a \in [Node -> Nat], NEW b \in [Node -> Nat],
           \A n \in Node : a[n] <= b[n],
           \A i, j \in 1..Len(c) : i < j => c[i] < c[j],
           \A i \in 1..Len(c) : c[i] < a[l[c[i]]]
    PROVE  /\ \A i, j \in 1..Len(e) : i < j => e[i] < e[j]
           /\ \A i \in 1..Len(e) : e[i] < b[l[e[i]]]
<1>1. Len(c) \in Nat /\ Len(e) \in Nat
    BY LenProperties
<1>2. \A i \in 1..Len(e) : i \in 1..Len(c) /\ e[i] = c[i]
    BY <1>1 DEF Begins
<1>3. ASSUME NEW i \in 1..Len(e) PROVE e[i] < b[l[e[i]]]
    <2>1. c[i] \in Slot /\ c[i] < a[l[c[i]]]
        BY <1>2, ElementOfSeq
    <2>2. l[c[i]] \in Node /\ c[i] \in Nat
        BY <2>1 DEF Slot
    <2>3. a[l[c[i]]] \in Nat /\ b[l[c[i]]] \in Nat /\ a[l[c[i]]] <= b[l[c[i]]]
        BY <2>2
    <2> QED
        BY <1>2, <2>1, <2>2, <2>3
<1> QED
    BY <1>2, <1>3

\* In a rising ledger the k-th ring is of slot k or later.
LEMMA RisesFast ==
    ASSUME NEW c \in Seq(Slot), \A i, j \in 1..Len(c) : i < j => c[i] < c[j]
    PROVE  \A i \in 1..Len(c) : i <= c[i]
<1> DEFINE low == {i \in Nat : i \in 1..Len(c) => i <= c[i]}
<1>1. Len(c) \in Nat /\ \A i \in 1..Len(c) : c[i] \in Nat /\ 1 <= c[i]
    <2>1. \A i \in 1..Len(c) : c[i] \in Slot
        BY ElementOfSeq
    <2> QED
        BY <2>1, LenProperties DEF Slot
<1>2. 0 \in low
    OBVIOUS
<1>3. ASSUME NEW i \in low PROVE i + 1 \in low
    <2>1. CASE i + 1 \in 1..Len(c) /\ i # 0
        <3>1. i \in 1..Len(c) /\ i < i + 1
            BY <2>1, <1>1
        <3>2. i <= c[i] /\ c[i] < c[i + 1]
            BY <2>1, <3>1
        <3>3. c[i] \in Nat /\ c[i + 1] \in Nat
            BY <1>1, <2>1, <3>1
        <3> QED
            BY <3>2, <3>3
    <2>2. CASE i = 0
        BY <1>1, <2>2
    <2> QED
        BY <2>1, <2>2
<1> HIDE DEF low
<1>4. Nat \subseteq low
    BY <1>2, <1>3, NatSets
<1> QED
    BY <1>1, <1>4 DEF low
-----------------------------------------------------------------------------
\* No reader is past a slot whose ring is on its way.
RingsAhead(m, n) ==
    \A k \in 1..Len(wire[<<m, n>>]) : wire[<<m, n>>][k].kind = "ring" =>
        LET s == wire[<<m, n>>][k].slot
        IN  leader[s] = m /\ s < at[m] /\ at[n] <= s

\* Nor past a slot whose leader is not.
NotPast(m, n) == \A s \in Slot : s < at[n] /\ leader[s] = m => s < at[m]

Follow(m, n) ==
    LET w == wire[<<m, n>>]
    IN  /\ Behind(ledger[m], ledger[n], w, "ring")
        /\ Behind(slotHeaders[m], slotHeaders[n], w, "slot_header")
        /\ ProofFirst(w)
        /\ Owed(ledger[n], slotHeaders[n], w)
        /\ RingsAhead(m, n)
        /\ NotPast(m, n)

\* A node has no ring without its proof.
Sound(n) == Begins(ledger[n], slotHeaders[n]) /\ Rising(ledger[n], at)

PairInv == (\A e \in Pairs : Follow(e[1], e[2])) /\ \A n \in Node : Sound(n)

\* The two wires of two nodes.
LEMMA TwoWires ==
    ASSUME NEW m \in Node, NEW n \in Node, m # n, Node = {m, n}
    PROVE  /\ Pairs = {<<m, n>>, <<n, m>>}
           /\ PairInv <=> Follow(m, n) /\ Follow(n, m) /\ Sound(m) /\ Sound(n)
           /\ PairInv' <=> Follow(m, n)' /\ Follow(n, m)' /\ Sound(m)' /\ Sound(n)'
<1>1. Pairs = {<<m, n>>, <<n, m>>}
    BY DEF Pairs
<1>2. <<m, n>>[1] = m /\ <<m, n>>[2] = n /\ <<n, m>>[1] = n /\ <<n, m>>[2] = m
    OBVIOUS
<1>3. PairInv <=> Follow(m, n) /\ Follow(n, m) /\ Sound(m) /\ Sound(n)
    BY <1>1, <1>2 DEF PairInv
<1>4. PairInv' <=> Follow(m, n)' /\ Follow(n, m)' /\ Sound(m)' /\ Sound(n)'
    BY <1>1, <1>2 DEF PairInv
<1> QED
    BY <1>1, <1>3, <1>4

\* What a node's state consists of.
LEMMA StateTyped ==
    ASSUME TypeOK, NEW n \in Node
    PROVE  /\ ledger[n] \in Seq(Slot) /\ slotHeaders[n] \in Seq(Slot)
           /\ Len(ledger[n]) \in Nat /\ Len(slotHeaders[n]) \in Nat
           /\ at[n] \in 1..(Slots + 1) /\ at[n] \in Nat
BY SlotsAssumption, LenProperties DEF TypeOK

\* What a line consists of.
LEMMA LineTyped ==
    ASSUME TypeOK, NEW m \in Node, NEW n \in Node, m # n
    PROVE  /\ wire[<<m, n>>] \in Seq(Message) /\ Len(wire[<<m, n>>]) \in Nat
           /\ \A k \in 1..Len(wire[<<m, n>>]) :
                 /\ wire[<<m, n>>][k].slot \in Slot /\ wire[<<m, n>>][k].slot \in Nat
                 /\ leader[wire[<<m, n>>][k].slot] \in Node
<1>1. wire[<<m, n>>] \in Seq(Message)
    BY DEF TypeOK, Pairs
<1>2. \A k \in 1..Len(wire[<<m, n>>]) : wire[<<m, n>>][k] \in Message
    BY <1>1, ElementOfSeq
<1>3. \A k \in 1..Len(wire[<<m, n>>]) : wire[<<m, n>>][k].slot \in Slot
    BY <1>2 DEF Message
<1>4. \A s \in Slot : s \in Nat
    BY DEF Slot
<1>5. \A s \in Slot : leader[s] \in Node
    BY DEF TypeOK
<1> QED
    BY <1>1, <1>3, <1>4, <1>5, LenProperties

\* The node whose slot it is has read every ring and every proof there is, and
\* the other is not ahead of it.
LEMMA LeaderIsLast ==
    ASSUME TypeOK, NEW m \in Node, NEW n \in Node, m # n,
           Follow(m, n), Follow(n, m), Leads(n)
    PROVE  /\ at[n] \in Slot /\ at[m] <= at[n]
           /\ \A k \in 1..Len(wire[<<m, n>>]) :
                 wire[<<m, n>>][k].kind # "ring" /\ wire[<<m, n>>][k].kind # "slot_header"
<1> DEFINE w == wire[<<m, n>>]
<1>1. at[n] \in Slot /\ leader[at[n]] = n /\ at[n] \in Nat /\ at[m] \in Nat
    BY StateTyped DEF Leads, Slot
<1>2. at[m] <= at[n]
    <2>1. ~(at[n] < at[m])
        BY <1>1 DEF Follow, NotPast
    <2> QED
        BY <1>1, <2>1
<1>3. ASSUME NEW k \in 1..Len(w), w[k].kind = "ring" PROVE FALSE
    <2>1. leader[w[k].slot] = m /\ w[k].slot < at[m] /\ at[n] <= w[k].slot
        BY <1>3 DEF Follow, RingsAhead
    <2>2. w[k].slot \in Nat
        BY LineTyped
    <2> QED
        BY <1>1, <1>2, <2>1, <2>2
<1>4. ASSUME NEW k \in 1..Len(w), w[k].kind = "slot_header" PROVE FALSE
    <2>1. PICK j \in 1..Len(w) : w[j].kind = "ring"
        BY <1>4 DEF Follow, ProofFirst
    <2> QED
        BY <1>3, <2>1
<1> QED
    BY <1>1, <1>2, <1>3, <1>4

\* A loop goes on to the next slot when the slot's ring is not to come.
LEMMA LoopOn ==
    ASSUME TypeOK, NEW m \in Node, NEW n \in Node, m # n, Node = {m, n}, PairInv,
           at[n] <= Slots, NextSlot(n), UNCHANGED <<leader, chains, wire>>,
           leader[at[n]] = m => at[n] < at[m],
           \A k \in 1..Len(wire[<<m, n>>]) : wire[<<m, n>>][k].kind = "ring" =>
               wire[<<m, n>>][k].slot # at[n]
    PROVE  PairInv'
<1>1. Follow(m, n) /\ Follow(n, m) /\ Sound(m) /\ Sound(n)
    BY TwoWires
<1>2. /\ at[n] \in Nat /\ at[m] \in Nat
      /\ at'[n] = at[n] + 1 /\ at'[m] = at[m]
    BY StateTyped DEF TypeOK, NextSlot
<1>3. UNCHANGED <<leader, ledger, slotHeaders, wire>>
    BY DEF chains
<1>4. RingsAhead(m, n)'
    <2>1. ASSUME NEW k \in 1..Len(wire[<<m, n>>]), wire[<<m, n>>][k].kind = "ring"
          PROVE  LET s == wire[<<m, n>>][k].slot
                 IN  leader[s] = m /\ s < at'[m] /\ at'[n] <= s
        <3> DEFINE s == wire[<<m, n>>][k].slot
        <3>1. leader[s] = m /\ s < at[m] /\ at[n] <= s
            BY <1>1, <2>1 DEF Follow, RingsAhead
        <3>2. s \in Nat /\ s # at[n]
            BY <2>1, LineTyped
        <3> QED
            BY <1>2, <3>1, <3>2
    <2> QED
        BY <1>3, <2>1 DEF RingsAhead
<1>5. RingsAhead(n, m)'
    <2>1. ASSUME NEW k \in 1..Len(wire[<<n, m>>]), wire[<<n, m>>][k].kind = "ring"
          PROVE  LET s == wire[<<n, m>>][k].slot
                 IN  leader[s] = n /\ s < at'[n] /\ at'[m] <= s
        <3> DEFINE s == wire[<<n, m>>][k].slot
        <3>1. leader[s] = n /\ s < at[n] /\ at[m] <= s
            BY <1>1, <2>1 DEF Follow, RingsAhead
        <3>2. s \in Nat
            BY LineTyped
        <3> QED
            BY <1>2, <3>1, <3>2
    <2> QED
        BY <1>3, <2>1 DEF RingsAhead
<1>6. NotPast(m, n)'
    <2>1. ASSUME NEW s \in Slot, s < at[n] + 1, leader[s] = m PROVE s < at[m]
        <3>1. s \in Nat
            BY DEF Slot
        <3>2. s = at[n] \/ s < at[n]
            BY <1>2, <2>1, <3>1
        <3> QED
            BY <1>1, <2>1, <3>2 DEF Follow, NotPast
    <2> QED
        BY <1>2, <1>3, <2>1 DEF NotPast
<1>7. NotPast(n, m)'
    <2>1. ASSUME NEW s \in Slot, s < at[m], leader[s] = n PROVE s < at[n] + 1
        <3>1. s \in Nat /\ s < at[n]
            BY <1>1, <2>1 DEF Follow, NotPast, Slot
        <3> QED
            BY <1>2, <3>1
    <2> QED
        BY <1>2, <1>3, <2>1 DEF NotPast
<1>8. Follow(m, n)' /\ Follow(n, m)'
    BY <1>1, <1>3, <1>4, <1>5, <1>6, <1>7 DEF Follow
<1>9. Sound(m)' /\ Sound(n)'
    <2>1. ASSUME NEW q \in Node PROVE Sound(q)'
        <3>1. /\ ledger[q] \in Seq(Slot) /\ leader \in [Slot -> Node]
              /\ at \in [Node -> Nat] /\ at' \in [Node -> Nat]
              /\ \A x \in Node : at[x] <= at'[x]
            BY <1>2, StateTyped DEF TypeOK, NextSlot
        <3>2. Begins(ledger[q], ledger[q]) /\ Rising(ledger[q], at)
              /\ Begins(ledger[q], slotHeaders[q])
            BY <1>1, <3>1, LenProperties DEF Begins, Sound
        <3>3. Rising(ledger[q], at')
            BY <3>1, <3>2, RisesOn DEF Rising
        <3> QED
            BY <1>3, <3>2, <3>3 DEF Sound, Rising
    <2> QED
        BY <2>1
<1> QED
    BY <1>8, <1>9, TwoWires

\* A leader leaves its slot out.
LEMMA SkipOn ==
    ASSUME TypeOK, NEW m \in Node, NEW n \in Node, m # n, Node = {m, n}, PairInv, SkipSlot(n)
    PROVE  PairInv'
<1>1. /\ Leads(n) /\ at[n] <= Slots /\ leader[at[n]] = n /\ NextSlot(n)
      /\ UNCHANGED <<leader, chains, wire>>
    BY DEF SkipSlot, Leads
<1>2. \A k \in 1..Len(wire[<<m, n>>]) : wire[<<m, n>>][k].kind # "ring"
    BY <1>1, TwoWires, LeaderIsLast
<1> QED
    BY <1>1, <1>2, LoopOn

\* The height tells that the slot's ring has come: every ring of a ledger is of
\* a slot of its own, so a ledger as long as the slot is past it.
LEMMA ArrivedOn ==
    ASSUME TypeOK, NEW m \in Node, NEW n \in Node, m # n, Node = {m, n}, PairInv, SlotArrived(n)
    PROVE  PairInv'
<1> DEFINE x == at[n]
           c == ledger[m]
           d == ledger[n]
           w == wire[<<m, n>>]
<1>1. /\ x <= Slots /\ leader[x] # n /\ x <= Len(d) /\ NextSlot(n)
      /\ UNCHANGED <<leader, chains, wire>>
    BY DEF SlotArrived, Follows, Arrived
<1>2. Follow(m, n) /\ Follow(n, m) /\ Sound(m) /\ Sound(n)
    BY TwoWires
<1>3. /\ c \in Seq(Slot) /\ d \in Seq(Slot) /\ Len(c) \in Nat /\ Len(d) \in Nat
      /\ x \in Nat /\ 1 <= x /\ at[m] \in Nat
    BY StateTyped
<1>4. (\A i \in 1..Len(c) : i <= c[i]) /\ (\A i \in 1..Len(d) : i <= d[i])
    BY <1>2, <1>3, RisesFast DEF Sound, Rising
<1>5. x < at[m]
    <2> DEFINE y == d[x]
    <2>1. x \in 1..Len(d)
        BY <1>1, <1>3
    <2>2. y \in Slot /\ x <= y /\ y < at[leader[y]]
        BY <1>2, <1>3, <1>4, <2>1, ElementOfSeq DEF Sound, Rising
    <2>3. y \in Nat /\ leader[y] \in Node
        <3>1. y \in Nat
            BY <2>2 DEF Slot
        <3>2. leader[y] \in Node
            BY <2>2 DEF TypeOK
        <3> QED
            BY <3>1, <3>2
    <2>4. leader[y] # n
        BY <1>3, <2>2, <2>3
    <2> QED
        BY <1>3, <2>2, <2>3, <2>4
<1>6. ASSUME NEW k \in 1..Len(w), w[k].kind = "ring" PROVE w[k].slot # x
    <2> DEFINE o == w[k].on
               e == Append(o, w[k].slot)
    <2>1. o \in Seq(Slot) /\ w[k].slot \in Slot
        <3>1. w[k] \in Message
            BY LineTyped, ElementOfSeq
        <3> QED
            BY <3>1 DEF Message
    <2>2. /\ Len(o) \in Nat /\ Len(e) = Len(o) + 1 /\ e[Len(o) + 1] = w[k].slot
        BY <2>1, Longer
    <2>3. Begins(e, c) /\ Len(d) <= Len(o)
        BY <1>2, <1>6 DEF Follow, Behind
    <2> HIDE DEF o, e
    <2>4. Len(o) + 1 \in 1..Len(c) /\ c[Len(o) + 1] = w[k].slot
        BY <1>3, <2>2, <2>3 DEF Begins
    <2>5. Len(o) + 1 <= w[k].slot
        BY <1>4, <2>4
    <2>6. w[k].slot \in Nat
        BY <2>1 DEF Slot
    <2> QED
        BY <1>1, <1>3, <2>2, <2>3, <2>5, <2>6
<1> QED
    BY <1>1, <1>5, <1>6, LoopOn

\* The wait that is not hasty ends for a slot that was left out.
LEMMA GiveUpOn ==
    ASSUME TypeOK, NEW m \in Node, NEW n \in Node, m # n, Node = {m, n}, PairInv,
           GiveUp(n), ~hasty'
    PROVE  PairInv'
<1>1. /\ at[n] <= Slots /\ leader[at[n]] # n /\ NextSlot(n) /\ ~Coming(n)
      /\ UNCHANGED <<leader, chains, wire>>
    BY DEF GiveUp, Follows
<1>2. leader[at[n]] = m => at[n] < at[m]
    BY <1>1, StateTyped DEF Coming
<1>3. ASSUME NEW k \in 1..Len(wire[<<m, n>>]), wire[<<m, n>>][k].kind = "ring"
      PROVE  wire[<<m, n>>][k].slot # at[n]
    <2>1. DOMAIN wire[<<m, n>>] = 1..Len(wire[<<m, n>>])
        BY LineTyped, LenProperties
    <2> QED
        BY <1>1, <1>3, <2>1 DEF Coming
<1> QED
    BY <1>1, <1>2, <1>3, LoopOn

\* The three lines of a slot.
LEMMA SlotLines ==
    ASSUME TypeOK, NEW n \in Node, at[n] \in Slot
    PROVE  /\ SlotMessages(n) \in Seq(Message) /\ Len(SlotMessages(n)) = 3
           /\ SlotMessages(n)[1].kind = "slot_header" /\ SlotMessages(n)[1].on = slotHeaders[n]
           /\ SlotMessages(n)[2].kind = "ring" /\ SlotMessages(n)[2].on = ledger[n]
           /\ SlotMessages(n)[3].kind = "header"
           /\ SlotMessages(n)[1].slot = at[n] /\ SlotMessages(n)[2].slot = at[n]
<1>1. SlotMessages(n) \in Seq(Message)
    BY MessagesTyped
<1> QED
    BY <1>1 DEF SlotMessages

\* A leader makes its slot's entries on all that was made before, and writes
\* the proof before the ring.
LEMMA ProduceOn ==
    ASSUME TypeOK, NEW m \in Node, NEW n \in Node, m # n, Node = {m, n}, PairInv,
           ProduceSlot(n)
    PROVE  PairInv'
<1> DEFINE x == at[n]
           s == SlotMessages(n)
           c == ledger[n]
           f == slotHeaders[n]
           w == wire[<<n, m>>]
           v == wire[<<m, n>>]
<1>1. Follow(m, n) /\ Follow(n, m) /\ Sound(m) /\ Sound(n)
    BY TwoWires
<1>2. Leads(n) /\ leader[x] = n
    BY DEF ProduceSlot, Leads
<1>3. /\ x \in Slot /\ x \in Nat /\ at[m] \in Nat /\ at[m] <= x
      /\ \A k \in 1..Len(v) : v[k].kind # "ring" /\ v[k].kind # "slot_header"
    BY <1>1, <1>2, LeaderIsLast, StateTyped
<1>4. /\ c \in Seq(Slot) /\ f \in Seq(Slot) /\ Len(c) \in Nat /\ Len(f) \in Nat
      /\ ledger[m] \in Seq(Slot) /\ slotHeaders[m] \in Seq(Slot)
      /\ Len(ledger[m]) \in Nat /\ Len(slotHeaders[m]) \in Nat
      /\ v \in Seq(Message) /\ w \in Seq(Message)
    BY StateTyped, LineTyped
<1>5. /\ s \in Seq(Message) /\ Len(s) = 3
      /\ s[1].kind = "slot_header" /\ s[1].on = f
      /\ s[2].kind = "ring" /\ s[2].on = c
      /\ s[3].kind = "header"
      /\ s[1].slot = x /\ s[2].slot = x
    BY <1>3, SlotLines
<1>6. /\ ledger'[n] = Append(c, x) /\ ledger'[m] = ledger[m]
      /\ slotHeaders'[n] = Append(f, x) /\ slotHeaders'[m] = slotHeaders[m]
      /\ at'[n] = x + 1 /\ at'[m] = at[m] /\ leader' = leader
      /\ at \in [Node -> Nat] /\ at' \in [Node -> Nat]
    BY StateTyped DEF TypeOK, ProduceSlot, Extend, NextSlot
<1>7. wire'[<<n, m>>] = w \o s /\ wire'[<<m, n>>] = v
    BY TwoWires DEF ProduceSlot, Send
<1> HIDE DEF s
<1>8. /\ Append(c, x) \in Seq(Slot) /\ Len(Append(c, x)) = Len(c) + 1
      /\ Append(f, x) \in Seq(Slot) /\ Len(Append(f, x)) = Len(f) + 1
      /\ (\A i \in 1..Len(c) : Append(c, x)[i] = c[i]) /\ Append(c, x)[Len(c) + 1] = x
      /\ (\A i \in 1..Len(f) : Append(f, x)[i] = f[i]) /\ Append(f, x)[Len(f) + 1] = x
      /\ Begins(c, Append(c, x)) /\ Begins(f, Append(f, x))
    BY <1>3, <1>4, Longer
<1>9. /\ Begins(ledger[m], c) /\ Len(ledger[m]) <= Len(c)
      /\ Begins(slotHeaders[m], f) /\ Len(slotHeaders[m]) <= Len(f)
    BY <1>1, <1>3, <1>4, BehindAll DEF Follow
<1>10. Len(f) = Len(c) /\ Begins(c, f)
    <2>1. ~HasRing(v, Len(c))
        BY <1>3 DEF HasRing
    <2>2. ~(Len(c) < Len(f))
        <3> SUFFICES ASSUME Len(c) < Len(f) PROVE FALSE
            OBVIOUS
        <3>1. Owed(c, f, v)
            BY <1>1 DEF Follow
        <3>2. Len(c) <= Len(c)
            BY <1>4
        <3>3. HasRing(v, Len(c))
            BY <1>4, <3>1, <3>2 DEF Owed
        <3> QED
            BY <2>1, <3>3
    <2> QED
        BY <1>1, <1>4, <2>2 DEF Sound, Begins
<1>11. Follow(n, m)'
    <2>1. Behind(Append(c, x), ledger[m], w \o s, "ring")
        <3>1. Behind(c, ledger[m], w, "ring")
            BY <1>1 DEF Follow
        <3>2. \E i \in 1..3 : /\ s[i].kind = "ring" /\ s[i].on = c /\ s[i].slot = x
                              /\ \A j \in 1..3 : s[j].kind = "ring" => j = i
            <4>1. \A j \in 1..3 : s[j].kind = "ring" => j = 2
                BY <1>5
            <4> QED
                BY <1>5, <4>1
        <3> QED
            BY <1>3, <1>4, <1>5, <1>9, <3>1, <3>2, BehindWritten
    <2>2. Behind(Append(f, x), slotHeaders[m], w \o s, "slot_header")
        <3>1. Behind(f, slotHeaders[m], w, "slot_header")
            BY <1>1 DEF Follow
        <3>2. \E i \in 1..3 : /\ s[i].kind = "slot_header" /\ s[i].on = f /\ s[i].slot = x
                              /\ \A j \in 1..3 : s[j].kind = "slot_header" => j = i
            <4>1. \A j \in 1..3 : s[j].kind = "slot_header" => j = 1
                BY <1>5
            <4> QED
                BY <1>5, <4>1
        <3> QED
            BY <1>3, <1>4, <1>5, <1>9, <3>1, <3>2, BehindWritten
    <2>3. ProofFirst(w \o s) /\ \A p \in Nat : HasRing(w, p) => HasRing(w \o s, p)
        BY <1>1, <1>4, <1>5, <1>10, OwedWritten DEF Follow
    <2>4. Owed(ledger[m], slotHeaders[m], w \o s)
        BY <1>1, <2>3 DEF Follow, Owed
    <2>5. RingsAhead(n, m)'
        <3>1. /\ Len(w) \in Nat /\ Len(w \o s) = Len(w) + 3
              /\ \A k \in 1..Len(w) : (w \o s)[k] = w[k]
              /\ \A k \in 1..Len(w \o s) : k \notin 1..Len(w) =>
                    k - Len(w) \in 1..3 /\ (w \o s)[k] = s[k - Len(w)]
            BY <1>4, <1>5, Written
        <3>2. ASSUME NEW k \in 1..Len(w \o s), (w \o s)[k].kind = "ring"
              PROVE  LET y == (w \o s)[k].slot
                     IN  leader[y] = n /\ y < x + 1 /\ at[m] <= y
            <4>1. CASE k \in 1..Len(w)
                <5> DEFINE y == w[k].slot
                <5>1. leader[y] = n /\ y < x /\ at[m] <= y
                    BY <1>1, <3>1, <3>2, <4>1 DEF Follow, RingsAhead
                <5>2. y \in Nat
                    BY <4>1, LineTyped
                <5> HIDE DEF y
                <5>3. y < x + 1
                    BY <1>3, <5>1, <5>2
                <5> QED
                    BY <3>1, <4>1, <5>1, <5>3 DEF y
            <4>2. CASE k \notin 1..Len(w)
                <5>1. (w \o s)[k] = s[2]
                    <6> DEFINE i == k - Len(w)
                    <6>1. i \in 1..3 /\ (w \o s)[k] = s[i]
                        BY <3>1, <4>2
                    <6> HIDE DEF i
                    <6>2. i # 1 /\ i # 3
                        BY <1>5, <3>2, <6>1
                    <6>3. i = 2
                        BY <6>1, <6>2
                    <6> QED
                        BY <6>1, <6>3
                <5> QED
                    BY <1>2, <1>3, <1>5, <5>1
            <4> QED
                BY <4>1, <4>2
        <3> QED
            BY <1>6, <1>7, <3>2 DEF RingsAhead
    <2>6. NotPast(n, m)'
        <3>1. ASSUME NEW y \in Slot, y < at[m] PROVE y < x + 1
            BY <1>3, <3>1 DEF Slot
        <3> QED
            BY <1>6, <3>1 DEF NotPast
    <2> QED
        BY <1>6, <1>7, <2>1, <2>2, <2>3, <2>4, <2>5, <2>6 DEF Follow
<1>12. Follow(m, n)'
    <2>1. Behind(ledger[m], Append(c, x), v, "ring")
        BY <1>1, <1>3, <1>4, <1>8, BehindAlone DEF Follow
    <2>2. Behind(slotHeaders[m], Append(f, x), v, "slot_header")
        BY <1>1, <1>3, <1>4, <1>8, BehindAlone DEF Follow
    <2>3. Owed(Append(c, x), Append(f, x), v)
        <3>1. \A p \in Nat : ~(Len(Append(c, x)) <= p /\ p < Len(Append(f, x)))
            BY <1>4, <1>8, <1>10
        <3> QED
            BY <3>1 DEF Owed
    <2>4. RingsAhead(m, n)'
        BY <1>3, <1>7 DEF RingsAhead
    <2>5. NotPast(m, n)'
        <3>1. ASSUME NEW y \in Slot, y < x + 1, leader[y] = m PROVE y < at[m]
            <4>1. y \in Nat /\ y # x
                BY <1>2, <3>1 DEF Slot
            <4>2. y < x
                BY <1>3, <3>1, <4>1
            <4> QED
                BY <1>1, <3>1, <4>2 DEF Follow, NotPast
        <3> QED
            BY <1>6, <3>1 DEF NotPast
    <2>6. ProofFirst(v)
        BY <1>1 DEF Follow
    <2> QED
        BY <1>6, <1>7, <2>1, <2>2, <2>3, <2>4, <2>5, <2>6 DEF Follow
<1>13. \A q \in Node : at[q] <= at'[q]
    BY <1>3, <1>6
<1>14. leader \in [Slot -> Node]
    BY DEF TypeOK
<1>15. Sound(m)'
    <2>1. Begins(ledger[m], ledger[m])
        BY DEF Begins
    <2>2. Rising(ledger[m], at')
        BY <1>1, <1>4, <1>6, <1>13, <1>14, <2>1, RisesOn DEF Sound, Rising
    <2> QED
        BY <1>1, <1>6, <2>2 DEF Sound, Rising
<1>16. Sound(n)'
    <2> DEFINE e == Append(c, x)
    <2>1. /\ \A i, j \in 1..Len(c) : i < j => c[i] < c[j]
          /\ \A i \in 1..Len(c) : c[i] < at[leader[c[i]]] /\ c[i] < at'[leader[c[i]]]
        <3>1. Begins(c, c)
            BY <1>4 DEF Begins
        <3> QED
            BY <1>1, <1>4, <1>6, <1>13, <1>14, <3>1, RisesOn DEF Sound, Rising
    <2>2. \A i \in 1..Len(c) : c[i] \in Nat /\ c[i] < x
        <3> TAKE i \in 1..Len(c)
        <3>1. c[i] \in Slot
            BY <1>4, ElementOfSeq
        <3>2. c[i] \in Nat
            BY <3>1 DEF Slot
        <3>3. leader[c[i]] \in Node
            BY <1>14, <3>1
        <3> QED
            BY <1>3, <2>1, <3>2, <3>3
    <2>3. Len(e) = Len(c) + 1 /\ (\A i \in 1..Len(c) : e[i] = c[i]) /\ e[Len(c) + 1] = x
        BY <1>8
    <2>4. Begins(e, Append(f, x))
        <3>1. ASSUME NEW i \in 1..(Len(c) + 1) PROVE e[i] = Append(f, x)[i]
            <4>1. CASE i = Len(c) + 1
                BY <1>8, <1>10, <4>1
            <4>2. CASE i \in 1..Len(c)
                BY <1>8, <1>10, <4>2 DEF Begins
            <4>3. i = Len(c) + 1 \/ i \in 1..Len(c)
                BY <1>4
            <4> QED
                BY <4>1, <4>2, <4>3
        <3> QED
            BY <1>8, <1>10, <3>1 DEF Begins
    <2> HIDE DEF e
    <2>5. ASSUME NEW i \in 1..Len(e), NEW j \in 1..Len(e), i < j PROVE e[i] < e[j]
        <3>1. i \in 1..Len(c)
            BY <1>4, <2>3, <2>5
        <3>2. j \in 1..Len(c) \/ j = Len(c) + 1
            BY <1>4, <2>3
        <3> QED
            BY <2>1, <2>2, <2>3, <2>5, <3>1, <3>2
    <2>6. ASSUME NEW i \in 1..Len(e) PROVE e[i] < at'[leader[e[i]]]
        <3>1. CASE i \in 1..Len(c)
            BY <2>1, <2>3, <3>1
        <3>2. CASE i = Len(c) + 1
            BY <1>2, <1>3, <1>6, <2>3, <3>2
        <3> QED
            BY <1>4, <2>3, <3>1, <3>2
    <2>7. ledger'[n] = e /\ leader' = leader
        BY <1>6 DEF e
    <2> QED
        BY <1>6, <2>4, <2>5, <2>6, <2>7 DEF Sound, Rising, e
<1> QED
    BY <1>11, <1>12, <1>15, <1>16, TwoWires

\* A line is read from one wire: what it says of the loops stands, and the
\* other wire is as it was.
LEMMA ReadOn ==
    ASSUME TypeOK, NEW m \in Node, NEW n \in Node, m # n, Node = {m, n}, PairInv,
           wire[<<m, n>>] # <<>>, Read(m, n), UNCHANGED <<leader, at>>
    PROVE  /\ wire'[<<m, n>>] = Tail(wire[<<m, n>>]) /\ wire'[<<n, m>>] = wire[<<n, m>>]
           /\ RingsAhead(m, n)' /\ RingsAhead(n, m)' /\ NotPast(m, n)' /\ NotPast(n, m)'
<1> DEFINE w == wire[<<m, n>>]
<1>1. wire'[<<m, n>>] = Tail(w) /\ wire'[<<n, m>>] = wire[<<n, m>>]
    BY TwoWires DEF TypeOK, Read
<1>2. Follow(m, n) /\ Follow(n, m)
    BY TwoWires
<1>3. /\ Len(Tail(w)) = Len(w) - 1
      /\ \A k \in 1..(Len(w) - 1) : Tail(w)[k] = w[k + 1] /\ k + 1 \in 1..Len(w)
    BY LineTyped, Unread
<1>4. RingsAhead(m, n)'
    <2>1. ASSUME NEW k \in 1..(Len(w) - 1), Tail(w)[k].kind = "ring"
          PROVE  LET s == Tail(w)[k].slot
                 IN  leader[s] = m /\ s < at[m] /\ at[n] <= s
        <3>1. Tail(w)[k] = w[k + 1] /\ k + 1 \in 1..Len(w)
            BY <1>3
        <3> QED
            BY <1>2, <2>1, <3>1 DEF Follow, RingsAhead
    <2> QED
        BY <1>1, <1>3, <2>1 DEF RingsAhead
<1>5. RingsAhead(n, m)'
    BY <1>1, <1>2 DEF Follow, RingsAhead
<1>6. NotPast(m, n)' /\ NotPast(n, m)'
    BY <1>2 DEF Follow, NotPast
<1> QED
    BY <1>1, <1>4, <1>5, <1>6

\* A proof comes on the chain it was made on, and its ring is still to come.
LEMMA ProofOn ==
    ASSUME TypeOK, NEW m \in Node, NEW n \in Node, m # n, Node = {m, n}, PairInv,
           ApplySlotHeader(m, n)
    PROVE  PairInv'
<1> DEFINE w == wire[<<m, n>>]
           v == wire[<<n, m>>]
           h == Head(w)
           d == ledger[n]
           f == slotHeaders[n]
           e == Append(f, h.slot)
<1>1. Follow(m, n) /\ Follow(n, m) /\ Sound(m) /\ Sound(n)
    BY TwoWires
<1>2. /\ w # <<>> /\ h.kind = "slot_header" /\ Read(m, n)
      /\ UNCHANGED <<leader, at, ledger>>
    BY DEF ApplySlotHeader, Reads
<1>3. /\ w \in Seq(Message) /\ v \in Seq(Message) /\ d \in Seq(Slot) /\ f \in Seq(Slot)
      /\ ledger[m] \in Seq(Slot) /\ slotHeaders[m] \in Seq(Slot)
      /\ Len(d) \in Nat /\ Len(f) \in Nat
    BY StateTyped, LineTyped
<1>4. h = w[1] /\ h.slot \in Slot /\ h.on \in Seq(Slot) /\ Tail(w) \in Seq(Message)
    <2>1. 1 \in 1..Len(w) /\ h = w[1] /\ Tail(w) \in Seq(Message)
        BY <1>2, <1>3, Unread
    <2> QED
        BY <1>2, <1>3, <2>1, Unread
<1> HIDE DEF h
<1>5. h.on = f /\ Begins(e, slotHeaders[m]) /\ Behind(slotHeaders[m], e, Tail(w), "slot_header")
    BY <1>1, <1>2, <1>3, BehindRead DEF Follow, h
<1>6. slotHeaders'[n] = e /\ slotHeaders'[m] = slotHeaders[m]
    BY <1>5 DEF TypeOK, ApplySlotHeader, Infuses, h
<1>7. e \in Seq(Slot) /\ Len(e) = Len(f) + 1 /\ Begins(f, e)
    BY <1>3, <1>4, Longer
<1> HIDE DEF e
<1>8. /\ wire'[<<m, n>>] = Tail(w) /\ wire'[<<n, m>>] = v
      /\ RingsAhead(m, n)' /\ RingsAhead(n, m)' /\ NotPast(m, n)' /\ NotPast(n, m)'
    BY <1>2, ReadOn
<1>9. /\ ProofFirst(Tail(w)) /\ HasRing(w, Len(f))
      /\ \A p \in Nat : HasRing(w, p) => HasRing(Tail(w), p)
    <2>1. ProofFirst(w)
        BY <1>1 DEF Follow
    <2>2. w[1].kind = "slot_header" /\ w[1].on = f
        BY <1>2, <1>4, <1>5
    <2> QED
        BY <1>2, <1>3, <2>1, <2>2, OwedRead
<1>10. Owed(d, e, Tail(w))
    <2>1. ASSUME NEW p \in Nat, Len(d) <= p, p < Len(e) PROVE HasRing(Tail(w), p)
        <3>1. CASE p = Len(f)
            BY <1>9, <3>1
        <3>2. CASE p < Len(f)
            <4>1. Owed(d, f, w)
                BY <1>1 DEF Follow
            <4>2. HasRing(w, p)
                BY <2>1, <3>2, <4>1 DEF Owed
            <4> QED
                BY <1>9, <4>2
        <3> QED
            BY <1>3, <1>7, <2>1, <3>1, <3>2
    <2> QED
        BY <2>1 DEF Owed
<1>11. Behind(ledger[m], d, Tail(w), "ring")
    <2>1. Head(w).kind # "ring"
        BY <1>2 DEF h
    <2> QED
        BY <1>1, <1>2, <1>3, <2>1, BehindOther DEF Follow
<1>12. Behind(e, slotHeaders[m], v, "slot_header")
    BY <1>1, <1>3, <1>5, <1>7, BehindBack DEF Follow
<1>13. Follow(m, n)'
    BY <1>2, <1>5, <1>6, <1>8, <1>9, <1>10, <1>11 DEF Follow
<1>14. Follow(n, m)'
    BY <1>1, <1>2, <1>6, <1>8, <1>12 DEF Follow
<1>15. Sound(m)'
    BY <1>1, <1>2, <1>6 DEF Sound, Rising
<1>16. Sound(n)'
    <2>1. Begins(d, e)
        <3>1. Begins(d, f) /\ Begins(f, e)
            BY <1>1, <1>7 DEF Sound
        <3>2. Len(e) \in Nat
            BY <1>7, LenProperties
        <3> QED
            BY <1>3, <3>1, <3>2 DEF Begins
    <2> QED
        BY <1>1, <1>2, <1>6, <2>1 DEF Sound, Rising
<1> QED
    BY <1>13, <1>14, <1>15, <1>16, TwoWires

\* A ring comes on the ledger it was made on, and its proof has come before it.
LEMMA RingOn ==
    ASSUME TypeOK, NEW m \in Node, NEW n \in Node, m # n, Node = {m, n}, PairInv,
           ApplyRing(m, n)
    PROVE  PairInv'
<1> DEFINE w == wire[<<m, n>>]
           v == wire[<<n, m>>]
           h == Head(w)
           d == ledger[n]
           f == slotHeaders[n]
           e == Append(d, h.slot)
<1>1. Follow(m, n) /\ Follow(n, m) /\ Sound(m) /\ Sound(n)
    BY TwoWires
<1>2. /\ w # <<>> /\ h.kind = "ring" /\ Read(m, n)
      /\ UNCHANGED <<leader, at, slotHeaders>>
    BY DEF ApplyRing, Reads
<1>3. /\ w \in Seq(Message) /\ v \in Seq(Message) /\ d \in Seq(Slot) /\ f \in Seq(Slot)
      /\ ledger[m] \in Seq(Slot) /\ slotHeaders[m] \in Seq(Slot)
      /\ Len(d) \in Nat /\ Len(f) \in Nat
      /\ Len(ledger[m]) \in Nat /\ Len(slotHeaders[m]) \in Nat
    BY StateTyped, LineTyped
<1>4. h = w[1] /\ h.slot \in Slot /\ h.on \in Seq(Slot) /\ Tail(w) \in Seq(Message)
    <2>1. 1 \in 1..Len(w) /\ h = w[1] /\ Tail(w) \in Seq(Message)
        BY <1>2, <1>3, Unread
    <2> QED
        BY <1>2, <1>3, <2>1, Unread
<1> HIDE DEF h
<1>5. h.on = d /\ Begins(e, ledger[m]) /\ Behind(ledger[m], e, Tail(w), "ring")
    BY <1>1, <1>2, <1>3, BehindRead DEF Follow, h
<1>6. ledger'[n] = e /\ ledger'[m] = ledger[m]
    BY <1>5 DEF TypeOK, ApplyRing, IsNext, h
<1>7. /\ e \in Seq(Slot) /\ Len(e) = Len(d) + 1 /\ Begins(d, e)
      /\ (\A i \in 1..Len(d) : e[i] = d[i]) /\ e[Len(d) + 1] = h.slot
    BY <1>3, <1>4, Longer
<1> HIDE DEF e
<1>8. /\ wire'[<<m, n>>] = Tail(w) /\ wire'[<<n, m>>] = v
      /\ RingsAhead(m, n)' /\ RingsAhead(n, m)' /\ NotPast(m, n)' /\ NotPast(n, m)'
    BY <1>2, ReadOn
<1>9. /\ ProofFirst(Tail(w))
      /\ \A p \in Nat : HasRing(w, p) /\ p # Len(d) => HasRing(Tail(w), p)
    <2>1. ProofFirst(w)
        BY <1>1 DEF Follow
    <2>2. w[1].kind = "ring" /\ w[1].on = d
        BY <1>2, <1>4, <1>5
    <2> QED
        BY <1>2, <1>3, <2>1, <2>2, OwedRead
<1>10. Owed(e, f, Tail(w))
    <2>1. ASSUME NEW p \in Nat, Len(e) <= p, p < Len(f) PROVE HasRing(Tail(w), p)
        <3>1. Len(d) <= p /\ p # Len(d)
            BY <1>3, <1>7, <2>1
        <3>2. Owed(d, f, w)
            BY <1>1 DEF Follow
        <3>3. HasRing(w, p)
            BY <2>1, <3>1, <3>2 DEF Owed
        <3> QED
            BY <1>9, <3>1, <3>3
    <2> QED
        BY <2>1 DEF Owed
<1>11. Behind(slotHeaders[m], f, Tail(w), "slot_header")
    <2>1. Head(w).kind # "slot_header"
        BY <1>2 DEF h
    <2> QED
        BY <1>1, <1>2, <1>3, <2>1, BehindOther DEF Follow
<1>12. Behind(e, ledger[m], v, "ring")
    BY <1>1, <1>3, <1>5, <1>7, BehindBack DEF Follow
<1>13. Follow(m, n)'
    BY <1>2, <1>5, <1>6, <1>8, <1>9, <1>10, <1>11 DEF Follow
<1>14. Follow(n, m)'
    BY <1>1, <1>2, <1>6, <1>8, <1>12 DEF Follow
<1>15. Sound(m)'
    BY <1>1, <1>2, <1>6 DEF Sound, Rising
<1>16. Begins(e, slotHeaders[m])
    <2>1. Begins(ledger[m], slotHeaders[m])
        BY <1>1 DEF Sound
    <2> QED
        BY <1>3, <1>5, <1>7, <2>1, BeginsThrough
<1>17. Len(d) < Len(f)
    <2> SUFFICES ASSUME ~(Len(d) < Len(f)) PROVE FALSE
        OBVIOUS
    <2>1. Len(f) = Len(d)
        <3>1. Len(d) <= Len(f)
            BY <1>1 DEF Sound, Begins
        <3> QED
            BY <1>3, <3>1
    <2>2. Len(f) <= Len(d) /\ Len(d) < Len(slotHeaders[m])
        BY <1>3, <1>7, <1>16, <2>1 DEF Begins
    <2>3. Behind(slotHeaders[m], f, w, "slot_header") /\ Behind(ledger[m], d, w, "ring")
          /\ ProofFirst(w)
        BY <1>1 DEF Follow
    <2>4. PICK k \in 1..Len(w) : w[k].kind = "slot_header" /\ Len(w[k].on) = Len(d)
        BY <1>3, <2>2, <2>3 DEF Behind
    <2>5. PICK j \in 1..Len(w) : k < j /\ w[j].kind = "ring" /\ Len(w[j].on) = Len(d)
        BY <2>3, <2>4 DEF ProofFirst
    <2>6. 1 \in 1..Len(w) /\ w[1].kind = "ring" /\ w[1].on = d /\ 1 < j
        BY <1>2, <1>3, <1>4, <1>5, <2>5, LineTyped
    <2>7. Len(w[1].on) < Len(w[j].on)
        BY <2>3, <2>5, <2>6 DEF Behind
    <2> QED
        BY <1>3, <2>5, <2>6, <2>7
<1>18. Begins(e, f)
    <2>1. Begins(slotHeaders[m], f) \/ Begins(f, slotHeaders[m])
        BY <1>1 DEF Follow, Behind
    <2>2. Len(e) <= Len(f) /\ Len(e) <= Len(slotHeaders[m]) /\ Len(e) \in Nat
        BY <1>3, <1>7, <1>16, <1>17 DEF Begins
    <2>3. ASSUME NEW i \in 1..Len(e) PROVE e[i] = f[i]
        <3>1. e[i] = slotHeaders[m][i] /\ i \in 1..Len(f) /\ i \in 1..Len(slotHeaders[m])
            BY <1>3, <1>16, <2>2 DEF Begins
        <3> QED
            BY <2>1, <3>1 DEF Begins
    <2> QED
        BY <2>2, <2>3 DEF Begins
<1>19. Sound(n)'
    <2>1. leader \in [Slot -> Node] /\ at \in [Node -> Nat]
        BY StateTyped DEF TypeOK
    <2>2. \A q \in Node : at[q] <= at[q]
        BY <2>1
    <2>3. Rising(e, at)
        BY <1>1, <1>3, <1>5, <1>7, <2>1, <2>2, RisesOn DEF Sound, Rising
    <2> QED
        BY <1>2, <1>6, <1>18, <2>3 DEF Sound, Rising
<1> QED
    BY <1>13, <1>14, <1>15, <1>19, TwoWires

\* A header says nothing of proofs and rings.
LEMMA HeaderOn ==
    ASSUME TypeOK, NEW m \in Node, NEW n \in Node, m # n, Node = {m, n}, PairInv,
           ApplyHeader(m, n)
    PROVE  PairInv'
<1> DEFINE w == wire[<<m, n>>]
<1>1. Follow(m, n) /\ Follow(n, m) /\ Sound(m) /\ Sound(n)
    BY TwoWires
<1>2. /\ w # <<>> /\ Head(w).kind = "header" /\ Read(m, n)
      /\ UNCHANGED <<leader, at, ledger, slotHeaders>>
    BY DEF ApplyHeader, Reads
<1>3. w \in Seq(Message) /\ Head(w) = w[1]
    BY <1>2, LineTyped, Unread
<1>4. /\ wire'[<<m, n>>] = Tail(w) /\ wire'[<<n, m>>] = wire[<<n, m>>]
      /\ RingsAhead(m, n)' /\ RingsAhead(n, m)' /\ NotPast(m, n)' /\ NotPast(n, m)'
    BY <1>2, ReadOn
<1>5. ProofFirst(Tail(w)) /\ \A p \in Nat : HasRing(w, p) => HasRing(Tail(w), p)
    <2>1. ProofFirst(w) /\ w[1].kind = "header"
        BY <1>1, <1>2, <1>3 DEF Follow
    <2> QED
        BY <1>2, <1>3, <2>1, OwedRead
<1>6. Owed(ledger[n], slotHeaders[n], Tail(w))
    BY <1>1, <1>5 DEF Follow, Owed
<1>7. /\ Behind(ledger[m], ledger[n], Tail(w), "ring")
      /\ Behind(slotHeaders[m], slotHeaders[n], Tail(w), "slot_header")
    <2>1. Head(w).kind # "ring" /\ Head(w).kind # "slot_header"
        BY <1>2
    <2> QED
        BY <1>1, <1>2, <1>3, <2>1, StateTyped, BehindOther DEF Follow
<1>8. Follow(m, n)'
    BY <1>2, <1>4, <1>5, <1>6, <1>7 DEF Follow
<1>9. Follow(n, m)' /\ Sound(m)' /\ Sound(n)'
    BY <1>1, <1>2, <1>4 DEF Follow, Sound, Rising
<1> QED
    BY <1>8, <1>9, TwoWires

-----------------------------------------------------------------------------
\* A net of two nodes.
TwoNodes == \E m, n : m # n /\ Node = {m, n}

\* Two nodes start level, with nothing between them.
LEMMA InitPairs == ASSUME TwoNodes, Init PROVE PairInv
<1>1. PICK m, n : m # n /\ Node = {m, n}
    BY DEF TwoNodes
<1>2. ASSUME NEW q \in Node PROVE ledger[q] = <<>> /\ slotHeaders[q] = <<>> /\ at[q] = 1
    BY DEF Init
<1>3. <<>> \in Seq(Slot) /\ <<>> \in Seq(Message) /\ Len(<<>>) = 0
    OBVIOUS
<1>4. ASSUME NEW e \in Pairs PROVE wire[e] = <<>>
    BY DEF Init
<1>5. Begins(<<>>, <<>>)
    BY <1>3 DEF Begins
<1>6. \A kind : Behind(<<>>, <<>>, <<>>, kind)
    BY <1>3, <1>5 DEF Behind
<1>7. ProofFirst(<<>>) /\ Owed(<<>>, <<>>, <<>>)
    BY <1>3 DEF ProofFirst, Owed
<1>8. ASSUME NEW e \in Pairs PROVE Follow(e[1], e[2])
    <2>1. e[1] \in Node /\ e[2] \in Node /\ e = <<e[1], e[2]>>
        BY DEF Pairs
    <2>2. wire[<<e[1], e[2]>>] = <<>>
        BY <1>4, <2>1
    <2>3. RingsAhead(e[1], e[2])
        BY <1>3, <2>2 DEF RingsAhead
    <2>4. NotPast(e[1], e[2])
        BY <1>2, <2>1 DEF NotPast, Slot
    <2> QED
        BY <1>2, <1>6, <1>7, <2>1, <2>2, <2>3, <2>4 DEF Follow
<1>9. ASSUME NEW q \in Node PROVE Sound(q)
    BY <1>2, <1>3, <1>5 DEF Sound, Rising
<1> QED
    BY <1>8, <1>9 DEF PairInv

\* Every step that is timely keeps them in line.
LEMMA PairsKept == ASSUME TwoNodes, TypeOK, Timely => PairInv, [Next]_vars, Timely' PROVE PairInv'
<1>1. PICK m, n : m # n /\ Node = {m, n}
    BY DEF TwoNodes
<1> DEFINE other(q) == IF q = m THEN n ELSE m
<1>2. \A q \in Node : other(q) \in Node /\ other(q) # q /\ Node = {other(q), q}
    BY <1>1
<1> HIDE DEF other
<1>3. ASSUME NEW q \in Node, Loop(q) PROVE PairInv'
    <2>1. Timely
        BY <1>3 DEF Timely, TypeOK, Loop, ProduceSlot, SendFails, SkipSlot, SlotArrived, GiveUp
    <2>2. PairInv /\ other(q) \in Node /\ other(q) # q /\ Node = {other(q), q}
        BY <1>2, <2>1
    <2>3. CASE ProduceSlot(q)
        BY <2>2, <2>3, ProduceOn
    <2>4. CASE SkipSlot(q)
        BY <2>2, <2>4, SkipOn
    <2>5. CASE SlotArrived(q)
        BY <2>2, <2>5, ArrivedOn
    <2>6. CASE GiveUp(q)
        BY <2>2, <2>6, GiveUpOn DEF Timely
    <2>7. CASE SendFails(q)
        BY <2>7 DEF SendFails, Timely
    <2> QED
        BY <1>3, <2>3, <2>4, <2>5, <2>6, <2>7 DEF Loop
<1>4. ASSUME NEW e \in Pairs, Deliver(e[1], e[2]) PROVE PairInv'
    <2> DEFINE p == e[1]
               q == e[2]
    <2>1. p \in Node /\ q \in Node /\ p # q /\ Node = {p, q}
        BY <1>1 DEF Pairs
    <2> HIDE DEF p, q
    <2>2. Deliver(p, q)
        BY <1>4 DEF p, q
    <2>3. Timely
        BY <2>2 DEF Timely, Deliver, ApplySlotHeader, ApplyRing, ApplyHeader
    <2>4. PairInv
        BY <2>3
    <2> QED
        BY <2>1, <2>2, <2>4, ProofOn, RingOn, HeaderOn DEF Deliver
<1>5. ASSUME NEW e \in Pairs, Fault(e[1], e[2]) PROVE PairInv'
    <2>1. faults' = faults + 1 /\ faults \in Nat
        BY <1>5, FaultAssumption DEF Fault, TypeOK
    <2> QED
        BY <2>1 DEF Timely
<1>6. CASE UNCHANGED vars \/ \E q \in Node : Close(q)
    <2>1. /\ UNCHANGED <<leader, at, ledger, slotHeaders, headers, wire, faults>>
          /\ ~hasty' => ~hasty
        BY <1>6 DEF vars, chains, Close, TypeOK
    <2>2. PairInv
        BY <2>1 DEF Timely
    <2>3. \A p, q : Follow(p, q) => Follow(p, q)'
        BY <2>1 DEF Follow, RingsAhead, NotPast
    <2>4. \A q : Sound(q) => Sound(q)'
        BY <2>1 DEF Sound, Rising
    <2> QED
        BY <2>2, <2>3, <2>4 DEF PairInv
<1> QED
    BY <1>3, <1>4, <1>5, <1>6 DEF Next

\* The chains that begin one another are IsPrefix of one another.
LEMMA BeginsIsPrefix ==
    ASSUME NEW c \in Seq(Slot), NEW d \in Seq(Slot), Begins(c, d)
    PROVE  IsPrefix(c, d)
<1>1. Len(c) \in Nat /\ Len(d) \in Nat /\ DOMAIN c = 1..Len(c) /\ Len(c) <= Len(d)
    BY LenProperties DEF Begins
<1>2. SubSeq(d, 1, Len(c)) \in Seq(Slot) /\ Len(SubSeq(d, 1, Len(c))) = Len(c)
      /\ \A i \in 1..Len(c) : SubSeq(d, 1, Len(c))[i] = d[i]
    BY <1>1, SubSeqProperties
<1>3. c = SubSeq(d, 1, Len(c))
    BY <1>1, <1>2, SeqEqual DEF Begins
<1> QED
    BY <1>1, <1>3 DEF IsPrefix

\* Nodes in line hold one chain.
LEMMA PairsAgree ==
    ASSUME TwoNodes, TypeOK, PairInv
    PROVE  /\ \A m, n \in Node : IsPrefix(ledger[m], ledger[n]) \/ IsPrefix(ledger[n], ledger[m])
           /\ \A n \in Node : IsPrefix(ledger[n], slotHeaders[n])
           /\ Done => \A m, n \in Node : ledger[m] = ledger[n]
<1>1. \A n \in Node : ledger[n] \in Seq(Slot) /\ slotHeaders[n] \in Seq(Slot)
                      /\ Len(ledger[n]) \in Nat
    BY StateTyped
<1>2. ASSUME NEW m \in Node, NEW n \in Node, m # n
      PROVE  /\ Behind(ledger[m], ledger[n], wire[<<m, n>>], "ring")
             /\ Behind(ledger[n], ledger[m], wire[<<n, m>>], "ring")
             /\ <<m, n>> \in Pairs /\ <<n, m>> \in Pairs
    <2>1. <<m, n>> \in Pairs /\ <<n, m>> \in Pairs
        BY <1>2 DEF Pairs
    <2>2. Follow(m, n) /\ Follow(n, m)
        BY <2>1 DEF PairInv
    <2> QED
        BY <2>1, <2>2 DEF Follow
<1>3. ASSUME NEW m \in Node, NEW n \in Node
      PROVE  IsPrefix(ledger[m], ledger[n]) \/ IsPrefix(ledger[n], ledger[m])
    <2>1. Begins(ledger[m], ledger[n]) \/ Begins(ledger[n], ledger[m])
        <3>1. CASE m = n
            BY <1>1, <3>1 DEF Begins
        <3>2. CASE m # n
            BY <1>2, <3>2 DEF Behind
        <3> QED
            BY <3>1, <3>2
    <2> QED
        BY <1>1, <2>1, BeginsIsPrefix
<1>4. \A n \in Node : IsPrefix(ledger[n], slotHeaders[n])
    BY <1>1, BeginsIsPrefix DEF PairInv, Sound
<1>5. ASSUME Done, NEW m \in Node, NEW n \in Node PROVE ledger[m] = ledger[n]
    <2>1. CASE m = n
        BY <2>1
    <2>2. CASE m # n
        <3> DEFINE c == ledger[m]
                   d == ledger[n]
        <3>1. wire[<<m, n>>] = <<>> /\ wire[<<n, m>>] = <<>>
            BY <1>2, <1>5, <2>2 DEF Done
        <3>2. Behind(c, d, <<>>, "ring") /\ Behind(d, c, <<>>, "ring")
            BY <1>2, <2>2, <3>1
        <3>3. c \in Seq(Slot) /\ d \in Seq(Slot) /\ Len(c) \in Nat /\ Len(d) \in Nat
            BY <1>1
        <3> HIDE DEF c, d
        <3>4. <<>> \in Seq(Message) /\ \A k \in 1..Len(<<>>) : <<>>[k].kind # "ring"
            OBVIOUS
        <3>5. Len(c) <= Len(d) /\ Begins(c, d) /\ Len(d) <= Len(c)
            BY <3>2, <3>3, <3>4, BehindAll
        <3>6. c = d
            BY <3>3, <3>5, SeqEqual DEF Begins
        <3> QED
            BY <3>6 DEF c, d
    <2> QED
        BY <2>1, <2>2
<1> QED
    BY <1>3, <1>4, <1>5

\* Between two nodes, as tcp_net_run makes a net, there is one chain whatever
\* the draw, leaders that skip included, when no line goes astray and no wait
\* ends before the slot's ring: what the loop waits for is only a height.
THEOREM TwoNodesOneChain == ASSUME TwoNodes PROVE Spec => []OneChain
<1>1. Init => (Timely => PairInv)
    BY InitPairs
<1>2. TypeOK /\ (Timely => PairInv) /\ [Next]_vars => (Timely => PairInv)'
    BY PairsKept
<1>3. TypeOK /\ (Timely => PairInv) => OneChain
    BY PairsAgree DEF OneChain
<1> QED
    BY <1>1, <1>2, <1>3, GossipTypeCorrect, PTL DEF Spec
=============================================================================
