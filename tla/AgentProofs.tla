---------------------------- MODULE AgentProofs ----------------------------
(***************************************************************************)
(* What an agent's calls may do, for any objects, faculties, silos, tasks  *)
(* and drafts, and calls citing any number of objects.                     *)
(*                                                                         *)
(* The types carry more than shape: a ring cites objects only, so a vector *)
(* over all objects covers the history, and nobody is answered before the  *)
(* node is up.  The rest reads each verb's checks in their order.          *)
(***************************************************************************)
EXTENDS Agent, TLAPS, SequenceTheorems

BootRing == {"economic", "scar_I8", "scar_I5", "immune", "gym", "boot"}

\* Boot decides by what it remembers, and its chain has no boot ring before
\* it served.
BootInv ==
    /\ boot \in Seq(BootRing)
    /\ step = "S0" => failed = {}
    /\ step \notin {"up", "down"} => (sound <=> failed = {})
    /\ step # "up" => "boot" \notin ToSet(boot) /\ answer = "none"
    /\ BootTells

AgentInv == TypeOK /\ BootInv

-----------------------------------------------------------------------------
\* A chain extended ends in what was added, and holds nothing else new.
LEMMA Extended ==
    ASSUME NEW S, NEW s \in Seq(S), NEW e \in S
    PROVE  /\ Append(s, e) \in Seq(S) /\ Last(Append(s, e)) = e
           /\ ToSet(Append(s, e)) = ToSet(s) \cup {e}
           /\ Append(s, e) # s
<1>1. /\ Append(s, e) \in Seq(S) /\ Len(Append(s, e)) = Len(s) + 1
      /\ Len(s) \in Nat /\ DOMAIN s = 1..Len(s)
      /\ \A i \in 1..Len(s) : Append(s, e)[i] = s[i]
      /\ Append(s, e)[Len(s) + 1] = e
    BY AppendProperties
<1>2. Last(Append(s, e)) = e
    BY <1>1 DEF Last
<1>3. DOMAIN Append(s, e) = 1..(Len(s) + 1)
    BY <1>1
<1>4. ToSet(Append(s, e)) \subseteq ToSet(s) \cup {e}
    BY <1>1, <1>3 DEF ToSet
<1>5. ToSet(s) \cup {e} \subseteq ToSet(Append(s, e))
    BY <1>1, <1>3 DEF ToSet
<1>6. Append(s, e) # s
    <2>1. \A n \in Nat : n + 1 # n
        OBVIOUS
    <2> QED
        BY <1>1, <2>1, Zenon
<1> QED
    BY <1>1, <1>2, <1>4, <1>5, <1>6

\* Boot seals its types in a row.
LEMMA SealsBoot ==
    ASSUME boot \in Seq(BootRing), NEW types \in Seq(BootRing), types # <<>>, SealBoot(types)
    PROVE  /\ boot' \in Seq(BootRing) /\ Last(boot') = Last(types)
           /\ ToSet(boot') = ToSet(boot) \cup ToSet(types)
<1>1. /\ boot' \in Seq(BootRing) /\ Len(boot') = Len(boot) + Len(types)
      /\ Len(boot) \in Nat /\ Len(types) \in Nat \ {0}
      /\ DOMAIN boot = 1..Len(boot) /\ DOMAIN types = 1..Len(types) /\ DOMAIN boot' = 1..Len(boot')
      /\ \A i \in 1..Len(boot') :
            boot'[i] = IF i <= Len(boot) THEN boot[i] ELSE types[i - Len(boot)]
    BY ConcatProperties, EmptySeq DEF SealBoot
<1>2. Last(boot') = Last(types)
    BY <1>1 DEF Last
<1>3. ToSet(boot') \subseteq ToSet(boot) \cup ToSet(types)
    <2> SUFFICES ASSUME NEW i \in 1..Len(boot')
                 PROVE  boot'[i] \in ToSet(boot) \cup ToSet(types)
        BY <1>1 DEF ToSet
    <2>1. CASE i <= Len(boot)
        <3>1. i \in 1..Len(boot) /\ boot'[i] = boot[i]
            BY <1>1, <2>1
        <3> QED
            BY <1>1, <3>1 DEF ToSet
    <2>2. CASE i > Len(boot)
        <3>1. i - Len(boot) \in 1..Len(types) /\ boot'[i] = types[i - Len(boot)]
            BY <1>1, <2>2
        <3> QED
            BY <1>1, <3>1 DEF ToSet
    <2> QED
        BY <1>1, <2>1, <2>2
<1>4. ToSet(boot) \subseteq ToSet(boot')
    BY <1>1 DEF ToSet
<1>5. ToSet(types) \subseteq ToSet(boot')
    <2> SUFFICES ASSUME NEW i \in 1..Len(types)
                 PROVE  types[i] \in ToSet(boot')
        BY <1>1 DEF ToSet
    <2>1. i + Len(boot) \in 1..Len(boot') /\ boot'[i + Len(boot)] = types[i]
        BY <1>1
    <2> QED
        BY <1>1, <2>1 DEF ToSet
<1> QED
    BY <1>1, <1>2, <1>3, <1>4, <1>5

\* What is sealed is a ring, and the ledger's last one.
LEMMA Seals ==
    ASSUME rings \in Seq(Ring), NEW r \in Ring, Seal(r)
    PROVE  rings' \in Seq(Ring) /\ Last(rings') = r /\ rings' # rings
BY Extended DEF Seal

\* What boot seals at a time, as sets.
LEMMA Single ==
    ASSUME NEW e \in BootRing
    PROVE  <<e>> \in Seq(BootRing) /\ <<e>> # <<>> /\ ToSet(<<e>>) = {e} /\ Last(<<e>>) = e
<1>1. Len(<<e>>) = 1 /\ DOMAIN <<e>> = 1..1 /\ <<e>>[1] = e
    OBVIOUS
<1>2. e \in ToSet(<<e>>)
    BY <1>1 DEF ToSet
<1>3. ASSUME NEW x \in ToSet(<<e>>)
      PROVE  x = e
    BY <1>1 DEF ToSet
<1>4. <<e>> \in Seq(BootRing)
    OBVIOUS
<1>5. <<e>> # <<>>
    OBVIOUS
<1>6. Last(<<e>>) = e
    BY <1>1 DEF Last
<1> QED
    BY <1>2, <1>3, <1>4, <1>5, <1>6

\* So is the smoke's row.
LEMMA SmokeSeals ==
    Smoke \in Seq(BootRing) /\ Smoke # <<>> /\ ToSet(Smoke) = {"scar_I8", "immune", "gym"}
<1>1. DOMAIN Smoke = 1..4 /\ Len(Smoke) = 4
    BY DEF Smoke
<1>2. Smoke[1] = "scar_I8" /\ Smoke[2] = "scar_I8" /\ Smoke[3] = "immune" /\ Smoke[4] = "gym"
    BY DEF Smoke
<1>3. 1..4 = {1, 2, 3, 4}
    OBVIOUS
<1>4. ToSet(Smoke) = {"scar_I8", "immune", "gym"}
    BY <1>1, <1>2, <1>3, Zenon DEF ToSet
<1>5. Smoke \in Seq(BootRing)
    BY DEF Smoke, BootRing
<1>6. Smoke # <<>>
    BY <1>1, Len(<<>>) = 0
<1> QED
    BY <1>4, <1>5, <1>6

\* The three kinds of ring a call seals.  One that names nobody,
LEMMA PlainRings ==
    \A type \in {"experience", "task_head", "scar_I6", "scar_I8", "proposal"} :
        Sealed(type) \in Ring /\ Sealed(type).faculty = None
BY DEF Sealed, Ring

\* one that points at a task,
LEMMA Pointers ==
    \A t \in Task \cup {None}, type \in {"experience", "task_head"} :
        /\ [Sealed(type) EXCEPT !.task = t] \in Ring
        /\ [Sealed(type) EXCEPT !.task = t].faculty = None
BY DEF Sealed, Ring

\* one that a faculty's turn leaves.
LEMMA Turns ==
    \A n \in Faculty, cites \in SUBSET Object :
        /\ [Sealed("experience") EXCEPT !.faculty = n, !.cites = cites] \in Ring
        /\ [Sealed("experience") EXCEPT !.faculty = n, !.cites = cites].faculty = n
        /\ [Sealed("experience") EXCEPT !.faculty = n, !.cites = cites].cites = cites
BY DEF Sealed, Ring

-----------------------------------------------------------------------------
\* The registry's operations keep its records records.
LEMMA RegistryMovesKeepType ==
    ASSUME RegistryTypeOK, NEW n \in Faculty
    PROVE  /\ (\E c \in Code : RegisterAuthored(n, c)) => RegistryTypeOK'
           /\ ActivateAuthored(n, TRUE) \/ Hibernate(n) => RegistryTypeOK'
BY DEF RegistryTypeOK, RegisterAuthored, ActivateAuthored, Hibernate, Known, Record

\* What a call that was refused, or one of the rest, did to the organism.
LEMMA RefusalTypes ==
    ASSUME TypeOK, Refuse \/ RefuseScarred
    PROVE  TypeOK'
<1>1. UNCHANGED <<core, cas, agent>> /\ answer' \in Envelope
    BY DEF Refuse, RefuseScarred, Envelope
<1>2. rings' \in Seq(Ring)
    <2>1. CASE Refuse
        BY <2>1 DEF Refuse, TypeOK, OrganismTypeOK
    <2>2. CASE RefuseScarred
        BY <2>2, Seals, PlainRings DEF RefuseScarred, ScarI6, TypeOK, OrganismTypeOK
    <2> QED
        BY <2>1, <2>2
<1> QED
    BY <1>1, <1>2 DEF TypeOK, OrganismTypeOK, RegistryTypeOK, core, booting, agent, store

\* A call that cites what it cannot use is a refusal.
LEMMA EvidenceRefuses ==
    ASSUME NEW refs, EvidenceRefused(refs)
    PROVE  Refuse \/ RefuseScarred
BY DEF EvidenceRefused

\* A call that cites only what it can use cites intact objects, none of them
\* shaped like a tool call.
LEMMA UsableIsIntact ==
    ASSUME NEW refs \in Refs, Usable(refs)
    PROVE  /\ ToSet(refs) \in SUBSET Object
           /\ \A o \in ToSet(refs) : cas[o] = "intact" /\ o \notin ToolShaped
BY DEF Refs, SeqOf, Usable, Verdict, ToSet

\* Every call is a refusal, or one that pinned and could not say where, or it
\* is answered.
LEMMA CallAnswers ==
    ASSUME Call
    PROVE  \/ Refuse \/ RefuseScarred
           \/ answer' = "refused" /\ UNCHANGED <<core, rings, agent>>
           \/ answer' = "ok"
<1> USE EvidenceRefuses
<1>1. CASE \E call \in Flawed : Screen(call)
    BY <1>1 DEF Screen
<1>2. CASE Health
    BY <1>2 DEF Health, Answer
<1>3. CASE \E refs \in Refs : Recall(refs)
    BY <1>3 DEF Recall, Answer
<1>4. CASE \E o \in Object, numeric \in BOOLEAN : Pin(o, numeric)
    BY <1>4 DEF Pin, PutObject
<1>5. CASE \E t \in Task \cup {None} : SealAny(t)
    BY <1>5 DEF SealAny, Answer
<1>6. CASE \E p \in Draft : Propose(p)
    BY <1>6 DEF Propose, Answer
<1>7. CASE \E refs \in Refs, n \in Faculty : Turn(refs, n)
    BY <1>7 DEF Turn, Answer
<1>8. CASE \E refs \in Refs, n \in Faculty, p \in Draft : TurnPropose(refs, n, p)
    BY <1>8 DEF TurnPropose, Propose, Answer
<1>9. CASE \E s \in Silo : SiloOpen(s)
    BY <1>9 DEF SiloOpen, Answer
<1>10. CASE \E s \in Silo, a \in Artifact, c \in Content : SiloPut(s, a, c)
    BY <1>10 DEF SiloPut, Answer
<1>11. CASE \E role \in Role, foreign \in BOOLEAN, a \in Artifact, c \in Content \cup {None} :
               HatRun(role, foreign, a, c)
    BY <1>11 DEF HatRun, Answer
<1>12. CASE \E a \in Artifact, p \in ProposalId : ProposeRelease(a, p)
    BY <1>12 DEF ProposeRelease, Answer
<1>13. CASE \E t \in Task : TaskOpen(t) \/ TaskResume(t)
    BY <1>13 DEF TaskOpen, TaskResume, Answer
<1> QED
    BY <1>1, <1>2, <1>3, <1>4, <1>5, <1>6, <1>7, <1>8, <1>9, <1>10, <1>11, <1>12, <1>13 DEF Call

\* What a call may add to the ledger: nothing, or one ring that a live faculty
\* warrants or that names no faculty.
LEMMA CallSeals ==
    ASSUME Call
    PROVE  \/ UNCHANGED rings
           \/ \E r \in Ring : Seal(r) /\ Warranted(r)
<1> USE EvidenceRefuses
<1>0. /\ Refuse => UNCHANGED rings
      /\ RefuseScarred => \E r \in Ring : Seal(r) /\ Warranted(r)
    BY PlainRings DEF Refuse, RefuseScarred, ScarI6, Warranted
<1>1. CASE \E call \in Flawed : Screen(call)
    BY <1>0, <1>1 DEF Screen
<1>2. CASE Health
    BY <1>2 DEF Health, organism
<1>3. CASE \E refs \in Refs : Recall(refs)
    BY <1>0, <1>3 DEF Recall
<1>4. CASE \E o \in Object, numeric \in BOOLEAN : Pin(o, numeric)
    BY <1>4 DEF Pin, PutObject
<1>5. CASE \E t \in Task \cup {None} : SealAny(t)
    BY <1>5, Pointers DEF SealAny, Warranted
<1>6. CASE \E p \in Draft : Propose(p)
    BY <1>0, <1>6, PlainRings DEF Propose, Submit, Warranted
<1>7. CASE \E refs \in Refs, n \in Faculty : Turn(refs, n)
    <2>1. PICK refs \in Refs, n \in Faculty : Turn(refs, n)
        BY <1>7
    <2>2. CASE EvidenceRefused(refs) \/ Refuse
        BY <1>0, <2>2
    <2>3. CASE /\ Usable(refs) /\ Runs(n)
               /\ Seal([Sealed("experience") EXCEPT !.faculty = n, !.cites = ToSet(refs)])
        <3> DEFINE r == [Sealed("experience") EXCEPT !.faculty = n, !.cites = ToSet(refs)]
        <3>1. ToSet(refs) \in SUBSET Object
            BY <2>3, UsableIsIntact
        <3>2. r \in Ring /\ r.faculty = n /\ r.cites = ToSet(refs)
            BY <3>1, Turns
        <3>3. Warranted(r)
            BY <2>3, <3>2, UsableIsIntact DEF Warranted
        <3> QED
            BY <2>3, <3>2, <3>3
    <2> QED
        BY <2>1, <2>2, <2>3 DEF Turn
<1>8. CASE \E refs \in Refs, n \in Faculty, p \in Draft : TurnPropose(refs, n, p)
    BY <1>0, <1>8, PlainRings DEF TurnPropose, Propose, Submit, Warranted
<1>9. CASE \E s \in Silo : SiloOpen(s)
    BY <1>9 DEF SiloOpen
<1>10. CASE \E s \in Silo, a \in Artifact, c \in Content : SiloPut(s, a, c)
    BY <1>0, <1>10 DEF SiloPut
<1>11. CASE \E role \in Role, foreign \in BOOLEAN, a \in Artifact, c \in Content \cup {None} :
               HatRun(role, foreign, a, c)
    BY <1>0, <1>11 DEF HatRun
<1>12. CASE \E a \in Artifact, p \in ProposalId : ProposeRelease(a, p)
    BY <1>0, <1>12, PlainRings DEF ProposeRelease, Submit, Warranted
<1>13. CASE \E t \in Task : TaskOpen(t) \/ TaskResume(t)
    BY <1>0, <1>13, Pointers DEF TaskOpen, TaskResume, Warranted
<1> QED
    BY <1>1, <1>2, <1>3, <1>4, <1>5, <1>6, <1>7, <1>8, <1>9, <1>10, <1>11, <1>12, <1>13 DEF Call

\* What a call leaves of the content store, the silos, hats, tasks and
\* proposals.
LEMMA CallTypes ==
    ASSUME TypeOK, Call
    PROVE  /\ UNCHANGED core
           /\ cas' \in [Object -> {"absent", "intact", "tampered"}]
           /\ opened' \subseteq Silo /\ items' \in [Silo -> [Artifact -> Content \cup {None}]]
           /\ passes' \in [Artifact -> SUBSET Role]
           /\ tasks' \in [Task -> 0 .. MaxTaskHeight]
           /\ proposals' \subseteq ProposalId
           /\ answer' \in Envelope
<1> DEFINE Kept == UNCHANGED <<core, cas, agent>> /\ answer' \in Envelope
<1> USE EvidenceRefuses DEF TypeOK, OrganismTypeOK, Envelope
<1>0. /\ Refuse \/ RefuseScarred => Kept
      /\ Answer => answer' \in Envelope
    BY DEF Refuse, RefuseScarred, Answer
<1> HIDE DEF Kept
<1>K. CASE Kept
    BY <1>K DEF Kept, agent, store
<1>1. CASE \E call \in Flawed : Screen(call)
    BY <1>0, <1>1, <1>K DEF Screen
<1>2. CASE Health
    BY <1>0, <1>2, <1>K DEF Kept, Health, organism
<1>3. CASE \E refs \in Refs : Recall(refs)
    BY <1>0, <1>3, <1>K DEF Kept, Recall
<1>4. CASE \E o \in Object, numeric \in BOOLEAN : Pin(o, numeric)
    BY <1>4 DEF Pin, PutObject, agent, store
<1>5. CASE \E t \in Task \cup {None} : SealAny(t)
    BY <1>0, <1>5, <1>K DEF Kept, SealAny
<1>S. ASSUME NEW p \in ProposalId, Submit(p), Answer, UNCHANGED <<core, cas, store, passes, tasks>>
      PROVE  /\ proposals' \subseteq ProposalId /\ answer' \in Envelope
             /\ UNCHANGED <<core, cas, opened, items, passes, tasks>>
    BY <1>0, <1>S DEF Submit, store
<1>6. CASE \E p \in Draft : Propose(p)
    BY <1>0, <1>6, <1>K, <1>S DEF Propose, ProposalId
<1>7. CASE \E refs \in Refs, n \in Faculty : Turn(refs, n)
    BY <1>0, <1>7, <1>K DEF Kept, Turn
<1>8. CASE \E refs \in Refs, n \in Faculty, p \in Draft : TurnPropose(refs, n, p)
    BY <1>0, <1>8, <1>K, <1>S DEF TurnPropose, Propose, ProposalId
<1>9. CASE \E s \in Silo : SiloOpen(s)
    BY <1>0, <1>9 DEF SiloOpen
<1>10. CASE \E s \in Silo, a \in Artifact, c \in Content : SiloPut(s, a, c)
    <2>1. PICK s \in Silo, a \in Artifact, c \in Content : SiloPut(s, a, c)
        BY <1>10
    <2>2. CASE Refuse
        BY <1>0, <1>K, <2>2
    <2>3. CASE /\ items' = [items EXCEPT ![s][a] = c] /\ Answer
               /\ UNCHANGED <<core, rings, cas, opened, passes, tasks, proposals>>
        <3>1. [items[s] EXCEPT ![a] = c] \in [Artifact -> Content \cup {None}]
            BY <2>1
        <3>2. items' \in [Silo -> [Artifact -> Content \cup {None}]]
            BY <2>1, <2>3, <3>1
        <3> QED
            BY <1>0, <2>3, <3>2
    <2> QED
        BY <2>1, <2>2, <2>3 DEF SiloPut
<1>11. CASE \E role \in Role, foreign \in BOOLEAN, a \in Artifact, c \in Content \cup {None} :
               HatRun(role, foreign, a, c)
    BY <1>0, <1>11, <1>K DEF HatRun, store
<1>12. CASE \E a \in Artifact, p \in ProposalId : ProposeRelease(a, p)
    BY <1>0, <1>12, <1>K, <1>S DEF ProposeRelease
<1>13. CASE \E t \in Task : TaskOpen(t) \/ TaskResume(t)
    <2>1. PICK t \in Task : TaskOpen(t) \/ TaskResume(t)
        BY <1>13
    <2>2. CASE Refuse
        BY <1>0, <1>K, <2>2
    <2>3. CASE \E h \in 0 .. MaxTaskHeight :
                  /\ tasks' = [tasks EXCEPT ![t] = h] /\ Answer
                  /\ UNCHANGED <<core, cas, store, passes, proposals>>
        BY <1>0, <2>3 DEF store
    <2>4. tasks[t] \in 0 .. MaxTaskHeight
        BY <2>1
    <2> QED
        BY <1>0, <2>1, <2>2, <2>3, <2>4, HeightAssumption DEF TaskOpen, TaskResume
<1> QED
    BY <1>1, <1>2, <1>3, <1>4, <1>5, <1>6, <1>7, <1>8, <1>9, <1>10, <1>11, <1>12, <1>13 DEF Call

\* The ledger stays a ledger when nothing, or one ring, is added.
LEMMA LedgerTypes ==
    ASSUME rings \in Seq(Ring), UNCHANGED rings \/ \E r \in Ring : Seal(r)
    PROVE  rings' \in Seq(Ring)
BY Seals

\* A call keeps the types, and does not touch the boot.
LEMMA CallStep ==
    ASSUME AgentInv, Up, Call
    PROVE  AgentInv'
<1>1. UNCHANGED core
    BY CallTypes DEF AgentInv
<1>2. rings' \in Seq(Ring)
    BY CallSeals, LedgerTypes DEF AgentInv, TypeOK, OrganismTypeOK
<1>3. TypeOK'
    BY <1>1, <1>2, CallTypes
    DEF AgentInv, TypeOK, OrganismTypeOK, RegistryTypeOK, core, booting
<1>4. BootInv'
    BY <1>1 DEF AgentInv, BootInv, BootTells, core, booting, Up
<1> QED
    BY <1>3, <1>4 DEF AgentInv

\* So does the node between calls.
LEMMA NodeStep ==
    ASSUME AgentInv, NodeMoves
    PROVE  AgentInv'
<1>1. /\ UNCHANGED <<booting, agent>> /\ answer' = "none"
      /\ RegistryTypeOK' /\ broken' \subseteq Faculty
      /\ cas' \in [Object -> {"absent", "intact", "tampered"}]
      /\ UNCHANGED rings \/ \E r \in Ring : Seal(r)
    <2> USE DEF AgentInv, TypeOK, OrganismTypeOK
    <2>1. CASE \E tx \in TxKind : AdmitTx(tx)
        BY <2>1, PlainRings DEF NodeMoves, AdmitTx, core, RegistryTypeOK
    <2>2. CASE \E o \in Object, as \in {"absent", "tampered"} : Rot(o, as)
        BY <2>2 DEF NodeMoves, Rot, core, RegistryTypeOK
    <2>3. CASE \E n \in Faculty : Break(n)
        BY <2>3 DEF NodeMoves, Break, RegistryTypeOK
    <2>4. CASE \E n \in Faculty : RegistryMoves(n)
        BY <2>4, RegistryMovesKeepType DEF NodeMoves, RegistryMoves
    <2> QED
        BY <2>1, <2>2, <2>3, <2>4 DEF NodeMoves
<1>2. rings' \in Seq(Ring)
    BY <1>1, LedgerTypes DEF AgentInv, TypeOK, OrganismTypeOK
<1>3. TypeOK'
    BY <1>1, <1>2 DEF AgentInv, TypeOK, OrganismTypeOK, booting, agent, store
<1>4. BootInv'
    BY <1>1 DEF AgentInv, BootInv, BootTells, booting
<1> QED
    BY <1>3, <1>4 DEF AgentInv

\* A step of the boot, one by one.
LEMMA BootStep ==
    ASSUME AgentInv, Bootstrap, UNCHANGED <<agent, answer>>
    PROVE  AgentInv'
<1>1. /\ step \notin {"up", "down"} /\ answer = "none" /\ "boot" \notin ToSet(boot)
      /\ boot \in Seq(BootRing) /\ failed \subseteq {"S0", "S4", "S6"}
      /\ sound \in BOOLEAN /\ (sound <=> failed = {}) /\ (step = "S0" => failed = {})
    BY DEF AgentInv, TypeOK, OrganismTypeOK, BootInv, Bootstrap, VerifyKernel, CommitSpace,
           Announce, SmokeTest, FinishBoot, Step
<1>2. /\ step' \in Step /\ sound' \in BOOLEAN /\ failed' \subseteq {"S0", "S4", "S6"}
      /\ boot' \in Seq(BootRing) /\ step' # "S0"
      /\ step' \notin {"up", "down"} => (sound' <=> failed' = {})
      /\ step' # "up" => "boot" \notin ToSet(boot')
      /\ step' = "up" => failed' = {} /\ Last(boot') = "boot"
      /\ step' = "down" => /\ failed' # {}
                           /\ Last(boot') = IF "S0" \in failed' THEN "scar_I8" ELSE "scar_I5"
    <2>1. CASE \E ok \in BOOLEAN : VerifyKernel(ok) \/ CommitSpace(ok)
        <3>1. PICK ok \in BOOLEAN : VerifyKernel(ok) \/ CommitSpace(ok)
            BY <2>1
        <3>2. CASE VerifyKernel(ok)
            BY <1>1, <3>2 DEF VerifyKernel, Held, Step
        <3>3. CASE CommitSpace(ok)
            BY <1>1, <3>3 DEF CommitSpace, Held, Step
        <3> QED
            BY <3>1, <3>2, <3>3
    <2>2. CASE Announce
        <3>1. /\ <<"economic">> \in Seq(BootRing) /\ <<"economic">> # <<>>
              /\ ToSet(<<"economic">>) = {"economic"}
            BY Single DEF BootRing
        <3>2. boot' \in Seq(BootRing) /\ ToSet(boot') = ToSet(boot) \cup {"economic"}
            BY <1>1, <2>2, <3>1, SealsBoot DEF Announce
        <3> QED
            BY <1>1, <2>2, <3>2 DEF Announce, Step
    <2>3. CASE SmokeTest
        <3>2. boot' \in Seq(BootRing) /\ ToSet(boot') = ToSet(boot) \cup {"scar_I8", "immune", "gym"}
            BY <1>1, <2>3, SmokeSeals, SealsBoot DEF SmokeTest
        <3>3. Detected \in BOOLEAN
            BY DEF Detected
        <3> QED
            BY <1>1, <2>3, <3>2, <3>3 DEF SmokeTest, Held, Step
    <2>4. CASE FinishBoot
        <3> DEFINE type == IF sound THEN "boot" ELSE IF "S0" \in failed THEN "scar_I8" ELSE "scar_I5"
        <3>1. /\ <<type>> \in Seq(BootRing) /\ <<type>> # <<>>
              /\ ToSet(<<type>>) = {type} /\ Last(<<type>>) = type
            BY Single DEF BootRing
        <3>2. SealBoot(<<type>>)
            BY <2>4 DEF FinishBoot, SealBoot
        <3>3. /\ boot' \in Seq(BootRing) /\ ToSet(boot') = ToSet(boot) \cup {type}
              /\ Last(boot') = type
            BY <1>1, <3>1, <3>2, SealsBoot
        <3> QED
            BY <1>1, <2>4, <3>3 DEF FinishBoot, Step
    <2> QED
        BY <2>1, <2>2, <2>3, <2>4 DEF Bootstrap
<1>3. RegistryTypeOK'
    <2>1. CASE \E c \in Code : RegisterAuthored(Sneak, c)
        BY <2>1, RegistryMovesKeepType, SneakAssumption DEF AgentInv, TypeOK, OrganismTypeOK
    <2>2. CASE UNCHANGED records
        BY <2>2 DEF AgentInv, TypeOK, OrganismTypeOK, RegistryTypeOK
    <2> QED
        BY <2>1, <2>2 DEF Bootstrap, VerifyKernel, CommitSpace, Announce, SmokeTest, FinishBoot
<1>4. UNCHANGED <<broken, rings, cas>>
    BY DEF Bootstrap, VerifyKernel, CommitSpace, Announce, SmokeTest, FinishBoot
<1>5. TypeOK'
    BY <1>2, <1>3, <1>4 DEF AgentInv, TypeOK, OrganismTypeOK, agent, store
<1>6. BootInv'
    BY <1>1, <1>2 DEF BootInv, BootTells
<1> QED
    BY <1>5, <1>6 DEF AgentInv

-----------------------------------------------------------------------------
\* Every organism starts with its types in place, serving nobody.
THEOREM Initially == Init => AgentInv
BY EmptySeq, HeightAssumption, KernelAssumption
   DEF Init, OrganismInit, RegistryInit, AgentInv, TypeOK, OrganismTypeOK, RegistryTypeOK, Record,
       BootInv, BootTells, Step, ToSet

\* Every step of the boot, of a call and of the node keeps AgentInv.
THEOREM Inductive == AgentInv /\ [Next]_vars => AgentInv'
<1> SUFFICES ASSUME AgentInv, [Next]_vars
             PROVE  AgentInv'
    OBVIOUS
<1>1. CASE Bootstrap /\ UNCHANGED <<agent, answer>>
    BY <1>1, BootStep
<1>2. CASE Up /\ Call
    BY <1>2, CallStep
<1>3. CASE NodeMoves
    BY <1>3, NodeStep
<1>4. CASE UNCHANGED vars
    BY <1>4 DEF AgentInv, TypeOK, OrganismTypeOK, RegistryTypeOK, BootInv, BootTells,
                vars, organism, core, booting, agent, store
<1> QED
    BY <1>1, <1>2, <1>3, <1>4 DEF Next

\* Every state is typed: rings cite stored names and faculties only, and a
\* task chain never outgrows its bound (Agent, Node.ledger).
THEOREM AgentTypeCorrect == Spec => []TypeOK
<1>1. AgentInv => TypeOK
    BY DEF AgentInv
<1> QED
    BY <1>1, Initially, Inductive, PTL DEF Spec

\* A boot that serves held every step; one that failed a step never serves
\* and its chain ends in one scar (bootstrap, Node.__init__).
THEOREM BootIsTold == Spec => []BootTells
<1>1. AgentInv => BootTells
    BY DEF AgentInv, BootInv
<1> QED
    BY <1>1, Initially, Inductive, PTL DEF Spec

\* What a step of the rest answers: nothing, or what was answered before.
LEMMA OthersAnswer ==
    ASSUME AgentInv, [Next]_vars, ~(Up /\ Call)
    PROVE  answer' = "none" \/ UNCHANGED vars
BY DEF AgentInv, BootInv, Next, NodeMoves, Bootstrap, VerifyKernel, CommitSpace, Announce,
       SmokeTest, FinishBoot

\* A refused call changes nothing its answer does not tell of, whatever the
\* organism holds and whatever was called before (agent.handle, _scar_i6).
THEOREM RefusalsScarAtMost == Spec => RefusalsOnlyScar
<1>1. AgentInv /\ [Next]_vars => [Refusal]_vars
    <2> SUFFICES ASSUME AgentInv, [Next]_vars, ~UNCHANGED vars, answer' \in {"refused", "scarred"}
                 PROVE  Refusal
        BY DEF Refusal
    <2>1. Call
        BY OthersAnswer
    <2>2. CASE Refuse
        BY <2>2 DEF Refuse, Refusal
    <2>3. CASE RefuseScarred
        BY <2>3 DEF RefuseScarred, ScarI6, Seal, Refusal
    <2>4. CASE answer' = "refused" /\ UNCHANGED <<core, rings, agent>>
        BY <2>4 DEF Refusal
    <2> QED
        BY <2>1, <2>2, <2>3, <2>4, CallAnswers
<1> QED
    BY <1>1, Initially, Inductive, PTL DEF Spec, RefusalsOnlyScar

\* Whatever reaches the ledger with a faculty's name on it, that faculty was
\* live and whole when it ran, and what the ring cites was intact
\* (_verb_turn, recall_evidence, run_faculty).
THEOREM SealedTurnsAreWarranted == Spec => TurnsAreWarranted
<1>1. AgentInv /\ [Next]_vars => [rings' # rings => Warranted(Last(rings'))]_vars
    <2> SUFFICES ASSUME AgentInv, [Next]_vars, rings' # rings
                 PROVE  Warranted(Last(rings'))
        OBVIOUS
    <2>1. \E r \in Ring : Seal(r) /\ Warranted(r)
        <3>1. CASE Up /\ Call
            BY <3>1, CallSeals
        <3>2. CASE NodeMoves
            BY <3>2, PlainRings
            DEF NodeMoves, AdmitTx, Rot, Break, RegistryMoves, Warranted
        <3>3. CASE Bootstrap \/ UNCHANGED vars
            BY <3>3 DEF Bootstrap, VerifyKernel, CommitSpace, Announce, SmokeTest, FinishBoot,
                        vars, organism
        <3> QED
            BY <3>1, <3>2, <3>3 DEF Next
    <2>2. rings \in Seq(Ring)
        BY DEF AgentInv, TypeOK, OrganismTypeOK
    <2> QED
        BY <2>1, <2>2, Seals
<1> QED
    BY <1>1, Initially, Inductive, PTL DEF Spec, TurnsAreWarranted
=============================================================================
