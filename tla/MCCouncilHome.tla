--------------------------- MODULE MCCouncilHome ---------------------------
EXTENDS CouncilHome

CONSTANTS a, b, h1, h2, leave, join, crime, motion

MCChange(p) ==
    CASE p = leave -> [kind |-> "peer_remove", identity |-> a, units |-> 1]
      [] p = join -> [kind |-> "peer_add", identity |-> a, units |-> 1]
      [] p = crime -> [kind |-> "peer_remove", identity |-> b, units |-> 1]
      [] OTHER -> NoChange
MCChanges == [p \in Proposal |-> MCChange(p)]

MCFleet(h) == IF h \in {h1, h2} THEN [s \in Seat |-> 1] ELSE NoFleet
MCFirstFleet == [h \in Home |-> MCFleet(h)]

\* Every established member, in this order.
MCFull == {<<h1, h2>>}
=============================================================================
