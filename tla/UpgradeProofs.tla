--------------------------- MODULE UpgradeProofs ---------------------------
(***************************************************************************)
(* Proofs about the upgrade path: authored code on the protocol path was   *)
(* ratified, and the whole path implements Ratification.  Both rest on the *)
(* Council's invariant: an approved proposal is a legal one                *)
(* (RecountAgrees) and stays approved (StepFreezes).                       *)
(***************************************************************************)
EXTENDS Upgrade, Legality, CouncilProofs

UpgradeInv == CouncilInv /\ RegistryTypeOK /\ LiveIsRatified

-----------------------------------------------------------------------------
\* Nothing authored is live at first.
LEMMA UpgradeInitInv == UpgradeInit => UpgradeInv
<1> SUFFICES ASSUME UpgradeInit PROVE UpgradeInv
    OBVIOUS
<1>1. CouncilInv
    BY InitInv DEF UpgradeInit
<1>2. (CHOOSE c \in Code : TRUE) \in Code
    BY KernelAssumption
<1>3. RegistryTypeOK
    BY <1>2, KernelAssumption DEF UpgradeInit, RegistryInit, RegistryTypeOK, Record
<1>4. LiveIsRatified
    BY DEF UpgradeInit, RegistryInit, LiveIsRatified, LiveAuthored, Live
<1> QED BY <1>1, <1>3, <1>4 DEF UpgradeInv

\* Registering code makes nothing live.
LEMMA RegisterKeeps ==
    ASSUME UpgradeInv, UNCHANGED vars,
           NEW n \in Faculty, NEW c \in Code, RegisterAuthored(n, c)
    PROVE  RegistryTypeOK' /\ LiveIsRatified'
<1>1. RegistryTypeOK'
    BY DEF UpgradeInv, RegistryTypeOK, Record, RegisterAuthored
<1>2. LiveAuthored' = LiveAuthored \ {n}
    BY DEF UpgradeInv, RegistryTypeOK, RegisterAuthored, LiveAuthored, Live
<1>3. \A m \in LiveAuthored' : records'[m].code = records[m].code
    BY <1>2 DEF UpgradeInv, RegistryTypeOK, RegisterAuthored, LiveAuthored
<1> QED BY <1>1, <1>2, <1>3 DEF UpgradeInv, LiveIsRatified, vars, voteVars

\* Nor does a hibernation.
LEMMA HibernateKeeps ==
    ASSUME UpgradeInv, UNCHANGED vars, NEW n \in Faculty, Hibernate(n)
    PROVE  RegistryTypeOK' /\ LiveIsRatified'
<1>1. RegistryTypeOK'
    BY DEF UpgradeInv, RegistryTypeOK, Record, Hibernate
<1>2. LiveAuthored' = LiveAuthored \ {n}
    BY DEF UpgradeInv, RegistryTypeOK, Record, Hibernate, LiveAuthored, Live
<1>3. \A m \in LiveAuthored' : records'[m].code = records[m].code
    BY <1>2 DEF UpgradeInv, RegistryTypeOK, Hibernate, LiveAuthored
<1> QED BY <1>1, <1>2, <1>3 DEF UpgradeInv, LiveIsRatified, vars, voteVars

\* What a verified grant says of the code it is for.
LEMMA VerifiedIsRatified ==
    ASSUME UpgradeInv, NEW g \in Grant, NEW code, VerifyActivationGrant(g, code)
    PROVE  /\ g.proposal \in M3 \cap Legal
           /\ status[g.proposal] = "approved"
           /\ FacultyCode[g.proposal] = code
BY DEF UpgradeInv, CouncilInv, RecountAgrees, VerifyActivationGrant, Grant, Settled

\* What an activation does: one faculty goes live, on a grant that passed.
LEMMA ActivateFacts ==
    ASSUME UpgradeInv, NEW n \in Faculty, NEW g \in Grant,
           ActivateAuthored(n, VerifyActivationGrant(g, records[n].code))
    PROVE  /\ LiveAuthored' = LiveAuthored \cup {n}
           /\ \A m \in Faculty : records'[m].code = records[m].code
           /\ VerifyActivationGrant(g, records[n].code)
BY DEF UpgradeInv, RegistryTypeOK, Record, ActivateAuthored, LiveAuthored, Live

\* What it makes live was ratified.
LEMMA ActivateKeeps ==
    ASSUME UpgradeInv, UNCHANGED vars, NEW n \in Faculty, NEW g \in Grant,
           ActivateAuthored(n, VerifyActivationGrant(g, records[n].code))
    PROVE  RegistryTypeOK' /\ LiveIsRatified'
<1>1. RegistryTypeOK'
    BY DEF UpgradeInv, RegistryTypeOK, Record, ActivateAuthored
<1>2. LiveAuthored' \subseteq Faculty
    BY DEF LiveAuthored
<1> QED BY <1>1, <1>2, ActivateFacts, VerifiedIsRatified
        DEF UpgradeInv, LiveIsRatified, vars, voteVars

\* Every step of the upgrade path keeps the invariant.
LEMMA UpgradeNextKeeps == UpgradeInv /\ [UpgradeNext]_upgradeVars => UpgradeInv'
<1> SUFFICES ASSUME UpgradeInv, [UpgradeNext]_upgradeVars PROVE UpgradeInv'
    OBVIOUS
<1>1. [Next]_vars
    BY DEF UpgradeNext, RegistryStep, upgradeVars
<1>2. CouncilInv'
    BY <1>1, NextKeeps DEF UpgradeInv
<1>3. CASE RegistryStep
    BY <1>2, <1>3, RegisterKeeps, HibernateKeeps, ActivateKeeps DEF RegistryStep, UpgradeInv
<1>4. CASE UNCHANGED records
    <2>1. LiveAuthored' = LiveAuthored /\ RegistryTypeOK'
        BY <1>4 DEF LiveAuthored, Live, RegistryTypeOK, UpgradeInv
    <2>2. \A p \in Proposal : status[p] = "approved" => status'[p] = "approved"
        BY <1>1, StepFreezes DEF UpgradeInv, FreezesVotes, Settled, vars, voteVars
    <2>3. LiveIsRatified'
        BY <1>4, <2>1, <2>2, UpgradeAssumption DEF UpgradeInv, LiveIsRatified
    <2> QED BY <1>2, <2>1, <2>3 DEF UpgradeInv
<1> QED BY <1>3, <1>4 DEF UpgradeNext, upgradeVars

\* So it always holds.
LEMMA UpgradeInvariant == UpgradeSpec => []UpgradeInv
BY UpgradeInitInv, UpgradeNextKeeps, PTL DEF UpgradeSpec

(***************************************************************************)
(* G4: whatever is registered, hibernated or granted, and whatever the     *)
(* Council does meanwhile, live authored code was ratified for exactly the *)
(* code it now has, by a legal M3 proposal.                                *)
(***************************************************************************)
THEOREM LiveCodeIsRatified == UpgradeSpec => []LiveIsRatified
<1>1. UpgradeInv => LiveIsRatified
    BY DEF UpgradeInv
<1> QED BY UpgradeInvariant, <1>1, PTL

-----------------------------------------------------------------------------
(***************************************************************************)
(* The refinement.                                                         *)
(***************************************************************************)
LEMMA RegistryRefines ==
    ASSUME UpgradeInv, RegistryStep
    PROVE  Promise!RNext \/ UNCHANGED <<Verdicts, LiveCodes>>
<1>1. Verdicts' = Verdicts
    BY DEF RegistryStep, Verdicts, Verdict, vars, voteVars
<1>2. ASSUME NEW n \in Faculty, LiveAuthored' = LiveAuthored \ {n},
             \A m \in LiveAuthored' : records'[m].code = records[m].code
      PROVE  Promise!RNext \/ UNCHANGED <<Verdicts, LiveCodes>>
    <2>1. LiveCodes' = LiveCodes \/ LiveCodes' = LiveCodes \ {records[n].code}
        BY <1>2 DEF LiveCodes
    <2>2. records[n].code \in Code
        BY DEF UpgradeInv, RegistryTypeOK, Record
    <2> QED BY <1>1, <2>1, <2>2 DEF Promise!RNext, Promise!Retire, Verdicts, LiveCodes
<1>3. ASSUME NEW n \in Faculty, NEW c \in Code, RegisterAuthored(n, c)
      PROVE  Promise!RNext \/ UNCHANGED <<Verdicts, LiveCodes>>
    <2>1. LiveAuthored' = LiveAuthored \ {n}
        BY <1>3 DEF UpgradeInv, RegistryTypeOK, RegisterAuthored, LiveAuthored, Live
    <2>2. \A m \in LiveAuthored' : records'[m].code = records[m].code
        BY <1>3, <2>1 DEF UpgradeInv, RegistryTypeOK, RegisterAuthored, LiveAuthored
    <2> QED BY <1>2, <2>1, <2>2
<1>4. ASSUME NEW n \in Faculty, Hibernate(n)
      PROVE  Promise!RNext \/ UNCHANGED <<Verdicts, LiveCodes>>
    <2>1. LiveAuthored' = LiveAuthored \ {n}
        BY <1>4 DEF UpgradeInv, RegistryTypeOK, Record, Hibernate, LiveAuthored, Live
    <2>2. \A m \in LiveAuthored' : records'[m].code = records[m].code
        BY <1>4, <2>1 DEF UpgradeInv, RegistryTypeOK, Hibernate, LiveAuthored
    <2> QED BY <1>2, <2>1, <2>2
<1>5. ASSUME NEW n \in Faculty, NEW g \in Grant,
             ActivateAuthored(n, VerifyActivationGrant(g, records[n].code))
      PROVE  Promise!RNext
    <2>1. LiveCodes' = LiveCodes \cup {records[n].code}
        <3>1. LiveAuthored \subseteq Faculty
            BY DEF LiveAuthored
        <3> QED BY <1>5, <3>1, ActivateFacts DEF LiveCodes
    <2>2. /\ g.proposal \in M3 \cap Legal
          /\ Verdicts[g.proposal] = "approved"
          /\ FacultyCode[g.proposal] = records[n].code
        BY <1>5, ActivateFacts, VerifiedIsRatified, UpgradeAssumption DEF Verdicts, Verdict
    <2>3. g.proposal \in Proposal /\ records[n].code \in Code
        BY DEF UpgradeInv, RegistryTypeOK, Record, Grant
    <2> QED BY <1>1, <2>1, <2>2, <2>3 DEF Promise!RNext, Promise!Enact, Verdicts, LiveCodes
<1> QED BY <1>3, <1>4, <1>5 DEF RegistryStep

\* A step of the Council alone ratifies what the promise allows, and undoes nothing.
LEMMA CouncilRefines ==
    ASSUME UpgradeInv, [Next]_vars, UNCHANGED records
    PROVE  Promise!RNext \/ UNCHANGED <<Verdicts, LiveCodes>>
<1>1. LiveCodes' = LiveCodes
    BY DEF LiveCodes, LiveAuthored, Live
<1>2. CASE \A p \in Proposal : Verdict(p)' = Verdict(p)
    BY <1>1, <1>2 DEF Verdicts
<1>3. CASE \E p \in Proposal : Verdict(p)' # Verdict(p)
    <2>1. PICK p \in Proposal : Verdict(p)' # Verdict(p)
        BY <1>3
    <2>2. status[p] # status'[p] /\ status[p] \notin Settled /\ status'[p] \in Settled
        BY <2>1, StepFreezes, NextKeeps
            DEF UpgradeInv, CouncilInv, VoteInv, VoteTypeOK, Verdict, FreezesVotes, Status,
                Settled, vars, voteVars
    <2>3. Tally(p)
        BY <2>2, OnlyTallySettles DEF UpgradeInv
    <2>4. \A q \in Proposal : q # p => Verdict(q)' = Verdict(q)
        BY <2>3 DEF Tally, Verdict, UpgradeInv, CouncilInv, VoteInv, VoteTypeOK
    <2>5. status'[p] = Outcome(p)
        BY <2>3 DEF Tally, UpgradeInv, CouncilInv, VoteInv, VoteTypeOK
    <2>6. Verdict(p)' = IF status'[p] = "approved" THEN "approved" ELSE "refused"
        BY <2>2 DEF Verdict, Settled
    <2>7. Verdict(p) = "open"
        BY <2>2 DEF Verdict, Settled
    <2>8. status'[p] = "approved" => p \in Legal
        BY <2>5, OutcomeFacts
    <2>9. Verdicts' = [Verdicts EXCEPT ![p] = Verdict(p)']
        BY <2>4 DEF Verdicts
    <2> QED BY <1>1, <2>6, <2>7, <2>8, <2>9
            DEF Promise!RNext, Promise!Decide, Verdicts, LiveCodes
<1> QED BY <1>2, <1>3

(***************************************************************************)
(* The upgrade path, seats, slots, bonds, names and forged grants          *)
(* included, implements Ratification.                                      *)
(***************************************************************************)
THEOREM UpgradeRefinesRatification == UpgradeSpec => ImplementsRatification
<1>1. UpgradeInit => Promise!RInit
    <2> SUFFICES ASSUME UpgradeInit PROVE Promise!RInit
        OBVIOUS
    <2>1. \A p \in Proposal : Verdict(p) = "open"
        BY DEF UpgradeInit, Init, Verdict
    <2>2. LiveAuthored = {}
        BY DEF UpgradeInit, RegistryInit, LiveAuthored, Live
    <2> QED BY <2>1, <2>2 DEF Promise!RInit, Verdicts, LiveCodes
<1>2. UpgradeInv /\ [UpgradeNext]_upgradeVars =>
          Promise!RNext \/ UNCHANGED <<Verdicts, LiveCodes>>
    <2> SUFFICES ASSUME UpgradeInv, [UpgradeNext]_upgradeVars
                 PROVE  Promise!RNext \/ UNCHANGED <<Verdicts, LiveCodes>>
        OBVIOUS
    <2>1. CASE RegistryStep
        BY <2>1, RegistryRefines
    <2>2. CASE [Next]_vars /\ UNCHANGED records
        BY <2>2, CouncilRefines
    <2> QED BY <2>1, <2>2 DEF UpgradeNext, upgradeVars
<1>3. UpgradeInv /\ [UpgradeNext]_upgradeVars =>
          [Promise!RNext]_<<Verdicts, LiveCodes>>
    BY <1>2
<1> QED BY UpgradeInvariant, <1>1, <1>3, PTL
        DEF UpgradeSpec, ImplementsRatification, Promise!RSpec

-----------------------------------------------------------------------------
(***************************************************************************)
(* What check_legality's scan finds.  _pattern_in looks from place to      *)
(* place; a law is named where its pattern stands and does not run on.     *)
(***************************************************************************)
Stands(pattern, text, i) == Occurs(pattern, text, i) /\ ~RunsOn(pattern, text, i)

\* The recursion behind PatternIn.
SeekIs(pattern, text, f) ==
    f = [start \in 1 .. Len(text) + 1 |->
            LET at == {i \in start .. Len(text) : Occurs(pattern, text, i)}
                i  == CHOOSE j \in at : \A k \in at : j <= k
            IN  at # {} /\ (~RunsOn(pattern, text, i) \/ f[i + 1])]
Seek(pattern, text) == CHOOSE f : SeekIs(pattern, text, f)

\* PatternIn is that recursion from the first place on.
LEMMA PatternInSeeks ==
    \A pattern, text : PatternIn(pattern, text) <=> Seek(pattern, text)[1]
BY DEF PatternIn, Seek, SeekIs

\* The scan has a result at every place: it finds what stands from there on.
LEMMA SeekFinds ==
    ASSUME NEW pattern, NEW text \in Text
    PROVE  Seek(pattern, text)[1] <=> \E i \in 1 .. Len(text) : Stands(pattern, text, i)
<1> DEFINE N == Len(text)
           O(start) == {i \in start .. N : Occurs(pattern, text, i)}
           first(start) == CHOOSE j \in O(start) : \A k \in O(start) : j <= k
           g == [start \in 1 .. N + 1 |-> \E i \in start .. N : Stands(pattern, text, i)]
<1>1. N \in Nat
    BY LenProperties
<1>2. ASSUME NEW start \in 1 .. N + 1, O(start) # {}
      PROVE  first(start) \in O(start) /\ \A k \in O(start) : first(start) <= k
    <2>1. O(start) \in SUBSET Nat
        BY <1>1
    <2>2. \E j \in O(start) : \A k \in O(start) : j <= k
        <3> HIDE DEF O
        <3> QED
            BY <1>2, <2>1, LeastExists
    <2> QED
        BY <2>2
<1>3. ASSUME NEW f, \A start \in 1 .. N + 1 :
                        f[start] <=> /\ O(start) # {}
                                     /\ ~RunsOn(pattern, text, first(start)) \/ f[first(start) + 1]
      PROVE  \A start \in 1 .. N + 1 :
                 f[start] <=> \E i \in start .. N : Stands(pattern, text, i)
    <2> DEFINE Right == {m \in Nat : \A start \in 1 .. N + 1 : N + 1 - start <= m =>
                            (f[start] <=> \E i \in start .. N : Stands(pattern, text, i))}
    <2>1. ASSUME NEW start \in 1 .. N + 1,
                 \A next \in 1 .. N + 1 : start < next =>
                    (f[next] <=> \E i \in next .. N : Stands(pattern, text, i))
          PROVE  f[start] <=> \E i \in start .. N : Stands(pattern, text, i)
        <3>1. CASE O(start) = {}
            <4>1. ~f[start]
                BY <1>3, <3>1
            <4>2. \A i \in start .. N : ~Stands(pattern, text, i)
                BY <3>1 DEF Stands
            <4> QED
                BY <4>1, <4>2
        <3>2. CASE O(start) # {}
            <4> DEFINE j == first(start)
            <4>1. j \in start .. N /\ Occurs(pattern, text, j) /\ \A k \in O(start) : j <= k
                BY <1>2, <3>2
            <4>2. f[start] <=> ~RunsOn(pattern, text, j) \/ f[j + 1]
                BY <1>3, <3>2
            <4> HIDE DEF j
            <4>3. j + 1 \in 1 .. N + 1 /\ start < j + 1
                BY <1>1, <4>1
            <4>4. f[j + 1] <=> \E i \in j + 1 .. N : Stands(pattern, text, i)
                BY <2>1, <4>3
            <4>5. ASSUME NEW i \in start .. N, Stands(pattern, text, i), i # j
                  PROVE  i \in j + 1 .. N
                <5>1. i \in O(start)
                    BY <4>5 DEF Stands
                <5>2. j <= i
                    BY <4>1, <5>1
                <5> QED
                    BY <1>1, <4>1, <4>5, <5>2
            <4>6. \A i \in j + 1 .. N : i \in start .. N
                BY <1>1, <4>1
            <4>7. Stands(pattern, text, j) <=> ~RunsOn(pattern, text, j)
                BY <4>1 DEF Stands
            <4>8. (\E i \in start .. N : Stands(pattern, text, i))
                    <=> Stands(pattern, text, j) \/ \E i \in j + 1 .. N : Stands(pattern, text, i)
                BY <4>1, <4>5, <4>6
            <4> QED
                BY <4>2, <4>4, <4>7, <4>8
        <3> QED
            BY <3>1, <3>2
    <2>2. 0 \in Right
        <3>1. ASSUME NEW start \in 1 .. N + 1, N + 1 - start <= 0
              PROVE  f[start] <=> \E i \in start .. N : Stands(pattern, text, i)
            <4>1. \A next \in 1 .. N + 1 : ~(start < next)
                BY <1>1, <3>1
            <4> QED
                BY <2>1, <4>1
        <3> QED
            BY <3>1
    <2>3. ASSUME NEW m \in Nat, m \in Right PROVE m + 1 \in Right
        <3>1. ASSUME NEW start \in 1 .. N + 1, N + 1 - start <= m + 1
              PROVE  f[start] <=> \E i \in start .. N : Stands(pattern, text, i)
            <4>1. \A next \in 1 .. N + 1 : start < next => N + 1 - next <= m
                BY <1>1, <3>1
            <4> QED
                BY <2>1, <2>3, <4>1
        <3> QED
            BY <3>1
    <2>4. Nat \subseteq Right
        <3> HIDE DEF Right
        <3> QED
            BY <2>2, <2>3, NatSets
    <2>5. ASSUME NEW start \in 1 .. N + 1
          PROVE  f[start] <=> \E i \in start .. N : Stands(pattern, text, i)
        <3>1. N + 1 - start \in Nat
            BY <1>1
        <3>2. N + 1 - start \in Right
            BY <2>4, <3>1
        <3> QED
            BY <3>1, <3>2
    <2> QED
        BY <2>5
<1>4. SeekIs(pattern, text, g)
    <2>1. \A start \in 1 .. N + 1 :
             g[start] <=> /\ O(start) # {}
                          /\ ~RunsOn(pattern, text, first(start)) \/ g[first(start) + 1]
        <3> TAKE start \in 1 .. N + 1
        <3>1. CASE O(start) = {}
            BY <3>1 DEF Stands
        <3>2. CASE O(start) # {}
            <4> DEFINE j == first(start)
            <4>1. j \in start .. N /\ Occurs(pattern, text, j) /\ \A k \in O(start) : j <= k
                BY <1>2, <3>2
            <4> HIDE DEF j
            <4>3. j + 1 \in 1 .. N + 1 /\ start < j + 1
                BY <1>1, <4>1
            <4>4. g[j + 1] <=> \E i \in j + 1 .. N : Stands(pattern, text, i)
                BY <4>3
            <4>5. ASSUME NEW i \in start .. N, Stands(pattern, text, i), i # j
                  PROVE  i \in j + 1 .. N
                <5>1. i \in O(start)
                    BY <4>5 DEF Stands
                <5>2. j <= i
                    BY <4>1, <5>1
                <5> QED
                    BY <1>1, <4>1, <4>5, <5>2
            <4>6. \A i \in j + 1 .. N : i \in start .. N
                BY <1>1, <4>1
            <4>7. Stands(pattern, text, j) <=> ~RunsOn(pattern, text, j)
                BY <4>1 DEF Stands
            <4>8. g[start]
                    <=> Stands(pattern, text, j) \/ \E i \in j + 1 .. N : Stands(pattern, text, i)
                BY <4>1, <4>5, <4>6
            <4> HIDE DEF g
            <4> QED
                BY <3>2, <4>4, <4>7, <4>8 DEF j
        <3> QED
            BY <3>1, <3>2
    <2>2. \A start \in 1 .. N + 1 : g[start] \in BOOLEAN
        OBVIOUS
    <2>3. g = [start \in 1 .. N + 1 |-> g[start]]
        OBVIOUS
    <2> HIDE DEF g, O, first
    <2>4. \A start \in 1 .. N + 1 :
             g[start] = (/\ O(start) # {}
                         /\ ~RunsOn(pattern, text, first(start)) \/ g[first(start) + 1])
        BY <2>1, <2>2
    <2>5. g = [start \in 1 .. N + 1 |->
                  /\ O(start) # {}
                  /\ ~RunsOn(pattern, text, first(start)) \/ g[first(start) + 1]]
        BY <2>3, <2>4
    <2> QED
        BY <2>5 DEF SeekIs, O, first
<1>5. SeekIs(pattern, text, Seek(pattern, text))
    <2> HIDE DEF g
    <2> QED
        BY <1>4 DEF Seek
<1>6. \A start \in 1 .. N + 1 :
         Seek(pattern, text)[start]
            <=> /\ O(start) # {}
                /\ ~RunsOn(pattern, text, first(start)) \/ Seek(pattern, text)[first(start) + 1]
    <2> DEFINE f == Seek(pattern, text)
    <2>1. f = [start \in 1 .. N + 1 |->
                  /\ O(start) # {}
                  /\ ~RunsOn(pattern, text, first(start)) \/ f[first(start) + 1]]
        BY <1>5 DEF SeekIs
    <2> HIDE DEF f, O, first
    <2>2. \A start \in 1 .. N + 1 :
             f[start] <=> /\ O(start) # {}
                          /\ ~RunsOn(pattern, text, first(start)) \/ f[first(start) + 1]
        BY <2>1
    <2> QED
        BY <2>2 DEF f
<1>7. 1 \in 1 .. N + 1
    BY <1>1
<1> QED
    BY <1>3, <1>6, <1>7

\* The recursion behind Stripped, on the first N characters.
KeptIs(text, N, f) ==
    f = [n \in 0 .. N |->
            IF n = 0 THEN <<>>
            ELSE IF text[n] \in Separator THEN f[n - 1] ELSE Append(f[n - 1], text[n])]
Kept(text, N) == CHOOSE f : KeptIs(text, N, f)

\* Stripped is that recursion at the last character.
LEMMA StrippedKeeps == \A text : Stripped(text) = Kept(text, Len(text))[Len(text)]
BY DEF Stripped, Kept, KeptIs

\* The recursion has a solution.
LEMMA KeptExists ==
    ASSUME NEW text, NEW N \in Nat
    PROVE  KeptIs(text, N, Kept(text, N))
<1> DEFINE Solved == {n \in Nat : \E f : KeptIs(text, n, f)}
<1>1. 0 \in Solved
    <2>1. KeptIs(text, 0, [n \in 0 .. 0 |-> <<>>])
        BY DEF KeptIs
    <2> QED
        BY <2>1
<1>2. ASSUME NEW n \in Nat, n \in Solved PROVE n + 1 \in Solved
    <2>1. PICK f : KeptIs(text, n, f)
        BY <1>2
    <2> DEFINE h == [m \in 0 .. (n + 1) |->
                        IF m = 0 THEN <<>>
                        ELSE IF text[m] \in Separator THEN f[m - 1]
                             ELSE Append(f[m - 1], text[m])]
    <2>2. ASSUME NEW m \in 0 .. n PROVE h[m] = f[m]
        <3>1. m \in 0 .. (n + 1)
            OBVIOUS
        <3>2. f[m] = IF m = 0 THEN <<>>
                     ELSE IF text[m] \in Separator THEN f[m - 1]
                          ELSE Append(f[m - 1], text[m])
            BY <2>1 DEF KeptIs
        <3> QED
            BY <3>1, <3>2
    <2>3. KeptIs(text, n + 1, h)
        <3>1. \A m \in 0 .. (n + 1) : m # 0 => m - 1 \in 0 .. n
            OBVIOUS
        <3> QED
            BY <2>2, <3>1 DEF KeptIs
    <2> HIDE DEF h
    <2> QED
        BY <2>3
<1>3. N \in Solved
    <2> HIDE DEF Solved
    <2> QED
        BY <1>1, <1>2, NatSets
<1>4. PICK f : KeptIs(text, N, f)
    BY <1>3
<1> QED
    BY <1>4 DEF KeptIs, Kept

\* A text without its separators is a text.
LEMMA StrippedType == ASSUME NEW text \in Text PROVE Stripped(text) \in Text
<1> DEFINE N == Len(text)
           f == Kept(text, N)
           Typed == {n \in Nat : n <= N => f[n] \in Text}
<1>1. N \in Nat /\ \A n \in 1 .. N : text[n] \in Char
    BY LenProperties, ElementOfSeq DEF Text
<1>2. KeptIs(text, N, f) /\ Stripped(text) = f[N]
    BY <1>1, KeptExists, StrippedKeeps
<1> HIDE DEF N, f
<1>3. 0 \in Typed
    BY <1>1, <1>2, EmptySeq DEF KeptIs, Text
<1>4. ASSUME NEW n \in Nat, n \in Typed PROVE n + 1 \in Typed
    <2> SUFFICES ASSUME n + 1 <= N PROVE f[n + 1] \in Text
        OBVIOUS
    <2>1. n + 1 \in 0 .. N /\ n + 1 \in 1 .. N /\ (n + 1) - 1 = n /\ n + 1 # 0 /\ n <= N
        BY <1>1
    <2>2. f[n + 1] = IF text[n + 1] \in Separator THEN f[n] ELSE Append(f[n], text[n + 1])
        BY <1>2, <2>1 DEF KeptIs
    <2>3. f[n] \in Seq(Char) /\ text[n + 1] \in Char
        BY <1>1, <1>4, <2>1 DEF Text
    <2>4. Append(f[n], text[n + 1]) \in Seq(Char)
        BY <2>3, AppendProperties
    <2> QED
        BY <2>2, <2>3, <2>4 DEF Text
<1>5. N \in Typed
    <2> HIDE DEF Typed
    <2> QED
        BY <1>1, <1>3, <1>4, NatSets
<1> QED
    BY <1>1, <1>2, <1>5

\* So is a text in lower case, as long as it was.
LEMMA LoweredType == ASSUME NEW text \in Text PROVE Lowered(text) \in Text
<1>1. Len(text) \in Nat /\ DOMAIN text = 1 .. Len(text)
    BY LenProperties DEF Text
<1>2. \A k \in 1 .. Len(text) : text[k] \in Char
    BY ElementOfSeq DEF Text
<1>3. \A k \in 1 .. Len(text) : LowerCase[text[k]] \in Char
    BY <1>2, LegalityAssumption
<1>4. [k \in 1 .. Len(text) |-> LowerCase[text[k]]] \in Seq(Char)
    BY <1>1, <1>3
<1> QED
    BY <1>1, <1>4 DEF Lowered, Text

\* A pattern stands at a place, by its characters and the one that follows.
SaidAt(pattern, text, i) ==
    /\ \A k \in DOMAIN pattern : i + k - 1 \in DOMAIN text /\ text[i + k - 1] = pattern[k]
    /\ ~({Last(pattern), (text \o <<"">>)[i + Len(pattern)]} \subseteq Digit)

\* And the scan sees it so.
LEMMA StandsIs ==
    ASSUME NEW pattern \in Text, pattern # <<>>, NEW text \in Text, NEW i \in 1 .. Len(text)
    PROVE  Stands(pattern, text, i) <=> SaidAt(pattern, text, i)
<1> DEFINE n == Len(pattern)
           N == Len(text)
           part == SubSeq(text, i, i + n - 1)
           after == (text \o <<"">>)[i + n]
<1>1. /\ n \in Nat \ {0} /\ N \in Nat
      /\ DOMAIN pattern = 1 .. n /\ DOMAIN text = 1 .. N
    BY LenProperties, EmptySeq DEF Text
<1>2. Occurs(pattern, text, i) <=>
          \A k \in DOMAIN pattern : i + k - 1 \in DOMAIN text /\ text[i + k - 1] = pattern[k]
    <2>1. ASSUME i + n - 1 <= N
          PROVE  part \in Text /\ Len(part) = n /\ \A k \in 1 .. n : part[k] = text[i + k - 1]
        <3>1. \A k \in i .. i + n - 1 : text[k] \in Char
            BY <1>1, <2>1, ElementOfSeq DEF Text
        <3>2. /\ part \in Seq(Char)
              /\ Len(part) = IF i <= i + n - 1 THEN i + n - 1 - i + 1 ELSE 0
              /\ \A k \in 1 .. (i + n - 1 - i + 1) : part[k] = text[i + k - 1]
            BY <1>1, <2>1, <3>1, SubSeqProperties DEF Text
        <3> QED
            BY <1>1, <3>2 DEF Text
    <2>2. ASSUME i + n - 1 <= N
          PROVE  part = pattern <=> \A k \in 1 .. n : text[i + k - 1] = pattern[k]
        <3> HIDE DEF part
        <3>1. part \in Seq(Char) /\ pattern \in Seq(Char) /\ Len(part) = Len(pattern)
            BY <2>1, <2>2 DEF Text
        <3>2. part = pattern <=> \A k \in 1 .. n : part[k] = pattern[k]
            BY <3>1, SeqEqual
        <3> QED
            BY <2>1, <2>2, <3>2
    <2>3. (\A k \in 1 .. n : i + k - 1 \in 1 .. N) <=> i + n - 1 <= N
        <3>1. n \in 1 .. n
            BY <1>1
        <3> QED
            BY <1>1, <3>1
    <2> QED
        BY <1>1, <2>2, <2>3 DEF Occurs
<1>3. ASSUME Occurs(pattern, text, i)
      PROVE  RunsOn(pattern, text, i) <=> {Last(pattern), after} \subseteq Digit
    <2>1. i + n <= N + 1 /\ i + n \in 1 .. N + 1
        BY <1>1, <1>3 DEF Occurs
    <2> DEFINE end == <<"">>
    <2>2. /\ end \in Seq(Char \cup {""}) /\ Len(end) = 1 /\ end[1] = ""
          /\ text \in Seq(Char \cup {""})
        <3>1. "" \in Char \cup {""}
            OBVIOUS
        <3>2. end \in Seq(Char \cup {""}) /\ Len(end) = 1 /\ end[1] = ""
            BY <3>1
        <3>3. text \in Seq(Char \cup {""})
            BY SeqMonotonic DEF Text
        <3> QED
            BY <3>2, <3>3
    <2> HIDE DEF end
    <2>3. after = IF i + n <= N THEN text[i + n] ELSE ""
        <3>1. (text \o end)[i + n] = IF i + n <= N THEN text[i + n] ELSE end[i + n - N]
            <4>1. \A k \in 1 .. (N + Len(end)) :
                     (text \o end)[k] = IF k <= N THEN text[k] ELSE end[k - N]
                BY <2>2, ConcatProperties
            <4> DEFINE k == i + n
            <4>2. k \in 1 .. (N + Len(end))
                BY <2>1, <2>2
            <4> HIDE DEF k
            <4>3. (text \o end)[k] = IF k <= N THEN text[k] ELSE end[k - N]
                BY <4>1, <4>2
            <4> QED
                BY <4>3 DEF k
        <3>2. ~(i + n <= N) => i + n - N = 1
            BY <1>1, <2>1
        <3> QED
            BY <2>2, <3>1, <3>2 DEF end
    <2> HIDE DEF after
    <2> QED
        BY <1>1, <2>1, <2>3, LegalityAssumption DEF RunsOn
<1> QED
    BY <1>2, <1>3 DEF Stands, SaidAt

\* The scan reads a text as it is said.
LEMMA MatchesSays ==
    ASSUME NEW pattern \in Pattern, NEW text \in Text
    PROVE  Matches(pattern, text) <=> Says(text, pattern)
<1> DEFINE low == Lowered(text)
           bare == Stripped(low)
           short == Stripped(pattern)
           Named(r) == \E i \in DOMAIN r[1] :
               /\ \A k \in DOMAIN r[2] : i + k - 1 \in DOMAIN r[1] /\ r[1][i + k - 1] = r[2][k]
               /\ ~({Last(r[2]), (r[1] \o <<"">>)[i + Len(r[2])]} \subseteq Digit)
<1>1. /\ pattern \in Text /\ pattern # <<>>
      /\ low \in Text /\ bare \in Text /\ short \in Text
    BY LegalityAssumption, LoweredType, StrippedType
<1>2. ASSUME NEW pat \in Text, pat # <<>>, NEW txt \in Text
      PROVE  PatternIn(pat, txt) <=> Named(<<txt, pat>>)
    <2>1. DOMAIN txt = 1 .. Len(txt)
        BY LenProperties DEF Text
    <2>2. PatternIn(pat, txt) <=> \E i \in DOMAIN txt : Stands(pat, txt, i)
        BY <2>1, SeekFinds, PatternInSeeks
    <2>3. \A i \in DOMAIN txt : Stands(pat, txt, i) <=> SaidAt(pat, txt, i)
        <3> TAKE i \in DOMAIN txt
        <3>1. i \in 1 .. Len(txt)
            BY <2>1
        <3> QED
            BY <1>2, <3>1, StandsIs
    <2>4. PatternIn(pat, txt) <=> \E i \in DOMAIN txt : SaidAt(pat, txt, i)
        BY <2>2, <2>3
    <2>5. <<txt, pat>>[1] = txt /\ <<txt, pat>>[2] = pat
        OBVIOUS
    <2> QED
        BY <2>4, <2>5 DEF SaidAt
<1>3. Len(short) >= MinBare => short # <<>>
    <2>1. MinBare \in Nat \ {0}
        BY LegalityAssumption
    <2>2. Len(<<>>) = 0
        OBVIOUS
    <2>3. ~(0 >= MinBare)
        BY <2>1
    <2> HIDE DEF short
    <2> QED
        BY <2>2, <2>3
<1>4. Says(text, pattern) <=>
          Named(<<low, pattern>>) \/ (Len(short) >= MinBare /\ Named(<<bare, short>>))
    <2>1. Says(text, pattern) <=> \E r \in Reading(text, pattern) : Named(r)
        BY DEF Says
    <2>2. Reading(text, pattern) =
              {<<low, pattern>>} \cup (IF Len(short) >= MinBare THEN {<<bare, short>>} ELSE {})
        BY DEF Reading
    <2> HIDE DEF Named, low, bare, short
    <2> QED
        BY <2>1, <2>2
<1>5. PatternIn(pattern, low) <=> Named(<<low, pattern>>)
    <2> HIDE DEF Named, low
    <2> QED
        BY <1>1, <1>2
<1>6. Len(short) >= MinBare => (PatternIn(short, bare) <=> Named(<<bare, short>>))
    <2> HIDE DEF Named, bare, short
    <2> QED
        BY <1>1, <1>2, <1>3
<1> QED
    <2> HIDE DEF Named
    <2> QED
        BY <1>4, <1>5, <1>6 DEF Matches

\* check_legality refuses the proposals that name a law or a foreign gym.
LEMMA LegalityReads ==
    ASSUME NEW p \in Proposal
    PROVE  CheckLegality(p) <=> p \notin NamingLaw /\ ~ForeignGym(p)
<1>1. ASSUME NEW c \in Changes[p], NEW text \in {c.path} \cup IterChangeStrings(c.value)
      PROVE  text \in Text
    <2>1. c.path \in Text /\ \A way \in c.value : way \in Seq(Text)
        BY LegalityAssumption
    <2>2. ASSUME NEW way \in c.value, text \in ToSet(way) PROVE text \in Text
        BY <2>1, <2>2, ToSetFinite
    <2> QED
        BY <2>1, <2>2 DEF IterChangeStrings
<1>2. \A c \in Changes[p], pattern \in Pattern :
         \A text \in {c.path} \cup IterChangeStrings(c.value) :
            Matches(pattern, text) <=> Says(text, pattern)
    BY <1>1, MatchesSays
<1>3. p \in NamingLaw <=>
         \E c \in Changes[p], pattern \in Pattern :
            \E text \in {c.path} \cup IterChangeStrings(c.value) : Says(text, pattern)
    BY DEF NamingLaw, IterChangeStrings
<1> QED
    BY <1>2, <1>3 DEF CheckLegality

(***************************************************************************)
(* No vote adopts a proposal that names a law beyond any vote, and none is *)
(* invalid for less, whatever the laws are called and however long and     *)
(* deep the changes: check_legality's scan misses no place where a name    *)
(* stands, and takes none for another's beginning.                         *)
(***************************************************************************)
THEOREM LawsMustStand == ASSUME Legal = Lawful PROVE UpgradeSpec => []LawsStand
<1>1. UpgradeInv => LawsStand
    <2> SUFFICES ASSUME UpgradeInv, NEW p \in Proposal
                 PROVE  /\ status[p] = "approved" => p \notin NamingLaw
                        /\ status[p] = "invalid" => p \in NamingLaw \/ ForeignGym(p)
        BY DEF LawsStand
    <2>1. /\ status[p] = "approved" => p \in Legal
          /\ status[p] = "invalid" => p \notin Legal
        BY DEF UpgradeInv, CouncilInv, RecountAgrees, Settled
    <2>2. p \in Legal <=> CheckLegality(p)
        BY DEF Lawful
    <2> QED
        BY <2>1, <2>2, LegalityReads
<1> QED
    BY <1>1, UpgradeInvariant, PTL
=============================================================================
