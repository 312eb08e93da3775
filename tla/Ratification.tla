---------------------------- MODULE Ratification ----------------------------
(***************************************************************************)
(* What the Council and the registry promise together (G4, G14, G16),      *)
(* without seats, slots, bonds or names: each proposal gets at most one    *)
(* verdict, an illegal one is never approved, and authored code becomes    *)
(* live only by an approved proposal for that very code.                   *)
(***************************************************************************)
CONSTANTS
    Proposal, Code,
    Legal,           \* the proposals that violate no genesis law
    Activates        \* proposal -> the codes it would activate

VARIABLES
    verdict,         \* proposal -> "open", "approved" or "refused"
    live             \* the authored codes on the protocol path

RInit ==
    /\ verdict = [p \in Proposal |-> "open"]
    /\ live = {}

Decide(p) ==
    /\ verdict[p] = "open"
    /\ \/ p \in Legal /\ verdict' = [verdict EXCEPT ![p] = "approved"]
       \/ verdict' = [verdict EXCEPT ![p] = "refused"]
    /\ UNCHANGED live

Enact(c) ==
    /\ \E p \in Proposal : verdict[p] = "approved" /\ c \in Activates[p]
    /\ live' = live \cup {c}
    /\ UNCHANGED verdict

Retire(c) ==
    /\ live' = live \ {c}
    /\ UNCHANGED verdict

RNext ==
    \/ \E p \in Proposal : Decide(p)
    \/ \E c \in Code : Enact(c) \/ Retire(c)

RSpec == RInit /\ [][RNext]_<<verdict, live>>
=============================================================================
