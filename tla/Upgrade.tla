------------------------------ MODULE Upgrade ------------------------------
(***************************************************************************)
(* The upgrade path: the Council and the faculty registry, bridged by      *)
(* activation grants (make_activation_grant, verify_activation_grant).     *)
(* A grant is a plain dict anyone can write, so any grant may be presented *)
(* to the registry, forged ones included.                                  *)
(***************************************************************************)
EXTENDS Council, Registry

CONSTANTS
    M3,            \* proposals of major class M3
    FacultyCode    \* proposal -> its changes' faculty_code_hash

ASSUME UpgradeAssumption == M3 \subseteq Proposal /\ FacultyCode \in [Proposal -> Code]

upgradeVars == <<vars, records>>

\* The result ring's hash is either the one the tally sealed or another.
Grant == [proposal : Proposal, ring : {"sealed", "forged"},
          granted : 0..(MaxSlot + ActivationDelay)]

\* (Slip: any tallied proposal will do.)
VerifyActivationGrant_AnyOutcome(g, code) ==
    /\ status[g.proposal] \in Settled
    /\ g.ring = "sealed"
    /\ g.proposal \in M3
    /\ FacultyCode[g.proposal] = code
    /\ g.granted >= activation[g.proposal]

\* The slot is the grant's own word: it is compared with the activation slot on
\* file, and never with the clock.
VerifyActivationGrant(g, code) ==
    /\ status[g.proposal] = "approved"
    /\ g.ring = "sealed"
    /\ g.proposal \in M3
    /\ FacultyCode[g.proposal] = code
    /\ g.granted >= activation[g.proposal]

-----------------------------------------------------------------------------
RegistryStep ==
    /\ \E n \in Faculty :
          \/ \E c \in Code : RegisterAuthored(n, c)
          \/ Hibernate(n)
          \/ \E g \in Grant :
                ActivateAuthored(n, VerifyActivationGrant(g, records[n].code))
    /\ UNCHANGED vars

UpgradeInit == Init /\ RegistryInit

UpgradeNext == RegistryStep \/ (Next /\ UNCHANGED records)

UpgradeSpec == UpgradeInit /\ [][UpgradeNext]_upgradeVars

-----------------------------------------------------------------------------
(***************************************************************************)
(* G4/G15: authored code on the protocol path was ratified for exactly the *)
(* code now registered, by a legal M3 proposal: no re-registration,        *)
(* hibernation or second activation leaves other code live.                *)
(***************************************************************************)
LiveIsRatified ==
    \A n \in LiveAuthored : \E p \in M3 \cap Legal :
        status[p] = "approved" /\ FacultyCode[p] = records[n].code

(***************************************************************************)
(* The upgrade path implements Ratification.                               *)
(***************************************************************************)
Verdict(p) ==
    CASE status[p] = "approved" -> "approved"
      [] status[p] \in {"rejected", "expired", "invalid"} -> "refused"
      [] OTHER -> "open"

Verdicts == [p \in Proposal |-> Verdict(p)]
LiveCodes == {records[n].code : n \in LiveAuthored}

Promise == INSTANCE Ratification WITH
    Activates <- [p \in Proposal |-> IF p \in M3 THEN {FacultyCode[p]} ELSE {}],
    verdict <- Verdicts,
    live <- LiveCodes

ImplementsRatification == Promise!RSpec

=============================================================================
