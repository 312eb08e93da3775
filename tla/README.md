# Chronarch in TLA+

Chronarch keeps an append-only *timechain* of rings.  Nodes admit
transactions, judge claims by K-of-n challenges, produce one slot after
another, and gossip rings and slot headers.  What the system is may change only
by a *Council*: a proposal, mandatory reports, a voting window, ballots backed
by slashable bonds in the *Hearth*, a tally, and, for code, an activation grant
that the *faculty registry* verifies.  The laws G1..G18 (specs/GENESIS.md) say
what no vote can change.

This directory models that code in TLA+.  TLC checks the models on small
instances; TLAPS proves what matters most for every instance.  Everything is
translated from the Python sources under `src/packages/*/src`; the map from
definitions to lines is in `PROJECT.json`.

## Inventory

| Part | State | Operations | What makes it hard | What makes it correct |
|---|---|---|---|---|
| Hearth (`chronarch_hearth/hearth.py`) | positions (bond and liquidity leg, unbond request, slashed, quarantined), liens, `lp_chronos`, `treasury_chronons` | lock, request_unbond, release, slash, quarantine, lift_quarantine, add_lien, clear_lien | any order of owner, immune-layer and Council calls over a delay; the caller passes the slot | a lien pins its position; a slash cannot be escaped or laundered; the pool covers what can be reclaimed |
| Council (`chronarch_council/machine.py`) | seats, proposals with status, deadline, eligibility snapshot and ballots, results, slash log | register_seat, submit_proposal, attach_reports, cast_ballot, tally, make/verify grants, export/import | a snapshot trusted over a long window while positions move; handlers that change state and then raise | a yes for an illegal proposal costs its bond; a settled vote stays settled; every vote settles |
| Registry (`chronarch_core/registry.py`) | records by name: origin, status, code hash | load_kernel_faculty, register_authored, hibernate, activate_authored, get_live | names reused with other code; grants are plain dicts | live authored code was ratified for that code |
| Council home (`chronarch_node/council_home.py`) | `council.json` on a node's home, rebuilt seats and Hearth | load, propose, ballot, tally, ratify | every CLI call is a session: load, act, save; the fleet changes between sessions | a session's slashes and liens survive the next load |
| Timechain, CAS, challenge, admission (`chronarch_core`) | ring list and hash list, CAS objects, last passed challenge | seal, seal_scar, verify_full, admit_tx, put_object, challenge | several parts seal on one chain, and boot on another; objects rot under their names | what is sealed was warranted when it was sealed; a refusal leaves its scar and nothing else |
| Pins, rewards, compute (`chronarch_core`) | pin lanes, credits, buffered receipts | offer, split, attest, buffer | dust, pots with nobody to go to, receipts that outlive their slot, rot offered to others | a won slot pays its reward and no chronon more; handing a receipt in pays once at the most; rot does not spread |
| Bootstrap, executor (`chronarch_core`) | boot report, boot chain | S0..S8, run_faculty, epoch_tick | the boot goes on after a failed step | a failed boot never serves and says why |
| Nervous system, gym | health vector, gym results | prestress_ok, build_health_vector, run_case | cadence is each node's own | the vector shows what rotted |
| Node, leader, headers, transport (`chronarch_node`) | ledger, headers, pending messages, credits | produce_slot, receive ring/header, run_slots | messages in another order, gaps, forks | nodes that applied the same messages agree |
| Durable home, journal (`chronarch_node/home.py`, `journal.py`) | files written one after another | append, resume | a crash between two writes | resume gives a prefix of what was produced |
| Multi-home net, TCP net, peers (`net.py`, `tcpnet.py`, `peers.py`) | peer tables, sockets, per-node loops | run, broadcast, ratify_peer_change | threads, timeouts, homes at different heights | homes converge |
| Agent (`chronarch_agent`) | silos, hat passes, task chains, over a node's ledger and store | one JSON call at a time: evidence, turn, silo, hat, propose, task | evidence, programs and the registry move between calls; a verb raises half way | a turn is sealed only on what is live and intact; a refusal leaves nothing but its scar |
| Farm, CLI, sim, spec, web | see `PROJECT.json` "components" | | | |

How they interact: the Council reads the Hearth (`council_eligible`,
`position`) and changes it (`slash`, `add_lien`, `clear_lien`); it seals rings
on whatever chain the caller passes.  The registry calls back into the Council
(`verify_activation_grant`).  Nodes call admission, the Council and the
registry from their handlers; the home persists what a node holds; the net
moves messages between nodes; an agent drives a node by calls of its own.

## Modules

| Module | Models | Composes |
|---|---|---|
| `Hearth` | `HearthState`, its owners and the immune layer, and the slot clock the callers share | |
| `TallyRule` | the vote count: weights, thresholds, outcome; no state | |
| `Council` | `CouncilState`: seats to tally, with the rings each step seals | extends `Hearth` and `TallyRule`; every call into the Hearth is part of the calling action |
| `Registry` | `FacultyRegistry` after boot | |
| `Legality` | `check_legality`: what no vote adopts, in whatever depth and spelling | extends `Council`, whose `Legal` it gives in `MCUpgrade` |
| `Upgrade` | the grant that bridges them | `Council` and `Registry` |
| `Ratification` | abstract: one verdict per proposal, code live only by an approved proposal for it | implemented by `Upgrade` |
| `CouncilHome` | the operator's council commands on a home: load, act, save, amend the fleets | `TallyRule` |
| `DurableHome` | the disk of a node with a home, write by write, crashes and resume | |
| `Gossip` | the slot loops of a net over sockets and the handlers of a slot's three messages | |
| `Economy` | a slot's reward, its split, what a receipt needs; no state | |
| `LocalNet` | durable homes run together (`net_run`) and alone (`pulse`), one process after another: slots, the bus, pins, receipts, credits | `Economy` |
| `Organism` | one node in memory: its boot, ledger, content store, registry and faults | `Registry` |
| `Agent` | the agent's calls over its node | `Organism` |
| `CouncilProofs`, `UpgradeProofs`, `DurableProofs`, `GossipProofs`, `HomeProofs`, `NetProofs`, `AgentProofs` | theorems about the module of that name (`CouncilProofs`: also `Hearth`; `UpgradeProofs`: also `Legality`; `DurableProofs`: `DurableHome`; `HomeProofs`: `CouncilHome`; `NetProofs`: `LocalNet`) | |
| `Induction` | lemmas only: induction over numbers and finite sets, sums and counts | |
| `MCCouncil`, `MCUpgrade`, `MCCouncilHome`, `MCGossip`, `MCLocalNet`, `MCAgent` | constants for TLC | |

**Hearth and Council.**  A `HearthState` is `position` (an identity without one
maps to `NoPosition`), `liens`, `lp` and `treasury`.  The code's treasury is one
number; here it is kept per identity (its sum is the code's number), so that
conservation can be stated identity by identity.  A `CouncilState` is `seats`,
`status`, `deadline`, `snapshot`, `ballots`, `activation` and `slashLog`; the
chain is the set `rings`, each ring reduced to its type, its proposal and its
seat.  A proposal's class, its legality (`check_legality`) and whether its
deposit suffices are constants, because nothing changes them once it is
submitted.

There is one action per method.  A method that raises after it changed something
is modelled with that change: `AttachReports` on an empty electorate,
`CastBallot` by a seat whose position is gone, `DoubleBallot`.  A method that
raises before it changes anything is a disabled action.  The slot argument of
every method is the shared clock `slot`.

**Council home.**  No council command runs in a process that stays: each loads
`council.json`, rebuilds the Hearth and the seats from the fleet in
`peers.json` with every bond whole, applies the slash log to them, changes the
state, and writes the file back.  `CouncilHome` keeps per operator what the
command in progress has loaded; `Load` and the action that saves are two steps,
so commands overlap.  Votes on file, the slash log and the fleets of the homes
are the durable state.  Every command runs at slot 0, as the CLI's do, so no
deadline passes.  A ratified peer change is applied home by home (`Amend`), each
step a place where the process may be killed (`Kill`, remembered in `killed`) or
meet a home the change does not fit (`Mismatch`).

**Durable home.**  A handler changes memory and queues its writes in `todo`, in
the order the code makes them; `Write` takes one to the disk; `Crash` comes
before any of them, or inside an append, which then leaves nothing, a part of a
line, or a line without its newline.  The other files are replaced by
`os.replace` and are either old or new.  A hash is the sequence it commits to:
a head hash is the rings up to it, an entry's link what it extends.  `Resume` is
enabled only when the replay accepts what it finds.

**Gossip.**  A node has two threads: its loop walks the slots, producing the ones
it leads (`ProduceSlot`, or `SkipSlot` when it has no valid plot) and waiting up to
20 s for the others (`SlotArrived`, `GiveUp`); its listener applies one line at a
time under the node's lock (`Deliver`).  A loop ends when a send fails for good
(`SendFails`), and `tcp_net_run` closes the listeners when it has waited long
enough for the loops, whether they ended or not (`Close`).  The ring, the slot header and the header
of a slot each extend a chain of their own, and an entry's hash commits to the
chain before it: a message carries the chain it was made on (`on`), and a chain is
the sequence of its slots, as the slot determines the leader and so the rest.
`wire` holds the lines a listener has not read; `Fault` is what the reconnecting
sender and the unsynchronised connections allow.  The draw (`leader`) is any
function of the slot.  All homes begin at height 0; pin offers are left out.

**Local net.**  One process at a time holds homes: `net_run` all of them
(`StartNet`, then a `NetSlot` per slot and a delivery per step, in the bus's
order), `pulse` one (`StartPulse`, `PulseSlot`).  What only the process held,
the cadence, the receipts in the buffer, the slot counter, goes with it (`Stop`,
`Crash`); chains, credits and lanes stay.  A kill while a leader produces
(`KilledInSlot`) leaves its ring, then its proof, then its header, then its credits
one by one.  A chain is the sequence of its entries
and a message carries the chain its entry was made on, as in `Gossip`.  A
follower that raises ends the run where it stands.  Three views of who may lead
are kept apart, as in the code: the loop's, the leader's, and that of the
follower who checks the header.  A lane is what each home holds of each object,
whole or rotted; `LaneFault` and `SealFault` are what a disk does between slots.  Putting
an offered object again declines it, stores it, perhaps under its canonical name, or
raises (`StoredAs`).
Four histories, the receipts handed in for each account, whether a run was ever
disturbed, the objects a fault rotted and the slots a home was killed in, let the
properties say what they mean.

**Organism and agent.**  `Bootstrap` goes through S0 to S7 as the code does,
failed steps included: it goes on, remembers, and decides at the end.  Boot and
every health ring seal on the chain bootstrap made; the calls seal on the node's
ledger, `rings`.  An object is absent, intact or tampered; a program is whole or
broken; the registry is `Registry`'s.  `Agent` has one disjunct of `Call` per
verb, with the outcomes in the order of the verb's checks; `answer` is the
envelope, by which the properties tell a refusal from a scarred refusal.  Between calls the node moves by itself
(`NodeMoves`): transactions, rot, programs that break, registry changes.  A call is
screened before its verb sees it; the calls here have at most two flaws, enough
for every order of the checks.

**Legality.**  A text is a sequence of characters, because the property is
about spelling; a change value is the set of ways down to its strings, so depth
costs nothing.  The scan is the code's (find, look on after an occurrence that a
digit continues), the reference (`NamingLaw`) says where a law's name stands in a
text without scanning it.  The clause on gym targets is modelled, and no
instance has a proposal of its class.

**Slips.**  Operators whose comment begins with "Slip" are not part of the
models.  Each is a plausible bug in the definition below it, and each property
is shown to fail when the definition is replaced by its slip; `PROJECT.json`
"mutants" pairs them.

## Runs

| Run | Question | Bounds |
|---|---|---|
| `council_bonds` | Are liens, slashes and the pool right in every order of calls, and can anything an owner or the immune layer does in the window save an illegal yes voter's bond? | 2 seats, 1 illegal proposal, one amount that does not split evenly, window 2, delay 1, 4 slots: long enough to unbond, release and lock again inside one window |
| `council_settles` | Does every vote settle as a recount gives, and every lien clear? | 2 seats, 1 proposal, seats registered again at will; fairness below |
| `upgrade` | Do two open votes, with double ballots and an owner who leaves, disturb each other or the record, is live code ratified code, whatever grants are presented, and does no vote adopt what names a law? | 1 seat, 2 proposals for 2 codes (one of them the kernel faculty's), 2 names, every grant; one proposal amends law 14, the other hides law 1 below a key, after law 14's name, in capitals and with another separator |
| `home` | Does a Council worked by separate commands, killed at any step, keep the votes and slashes they read, and do fleets change by vote alone? | 2 stewards, 2 homes, 1 operator; a removal, a re-admission of the same steward and an illegal removal |
| `durable` | What does any sequence of crashes leave, and what does a resume make of it? | 3 rings, 2 slots, 2 challenges: enough for a slot skipped, produced and produced again after a resume |
| `agent` | Can any order of calls, faults and registry changes get a turn sealed on rot or on code that is not live, a refusal to leave something, a failed boot to serve? | 1 faculty, 1 code, 2 objects (one shaped like a tool call), 1 silo, artifact, task and draft, calls citing up to 2 objects, 2 rings: enough for a turn, a fault and the next turn |
| `localnet` | What do runs together and alone, stopped, and killed between any two deliveries, offers or writes of the leader, with disks that fail, leave on the homes and in their accounts? | 3 homes whose order differs from the bus's, a draw that gives one home two slots, 4 slots in runs of 1 or 3, 3 runs (one to disturb, one to go on, one after that), gap 1 (it runs out within a run of 3), 2 faults, 2 receipts from outside (so one can be handed in again); 3 objects, one stored under another's name and one that cannot be put again; pots of 3 for 2 workers leave dust |
| `gossip` | Do the chains of two nodes agree, whatever times out, is lost or is closed? | 2 nodes (as `tcp_net_run` demands), 3 slots, every draw, 2 faults: enough to fork, and then to lead or follow on the fork |

The charter's numbers (window 128, unbonding 32, activation 32, challenge gap
64) are constants; the runs scale them down and keep what matters: the
unbonding delay is shorter than the voting window (so a bond could leave within
it) and the challenge gap can run out within the clock's bound.  `Leavers`,
`Suspects` and `Renewed` name the identities and seats to which the optional
things happen, `MaxSlot` bounds the clock, `MaxHeight` and `MaxChallenges` the
log; all are bounds of the runs and not of the code.

**Fairness.**  `council_settles`: the clock ticks and, once a proposal can be
tallied, somebody calls `tally`.  The code leaves both to its callers:
`Cluster.run_slot` and the pulse loop advance the slot unconditionally, and
`tally` may be called by anyone.  Nothing is assumed of owners, voters or the
immune layer.  `home_wedge`: a command that was started ends, and the
operator keeps loading and tallying every open vote; even so one never ends.
`Gossip` assumes no fairness, and promises no end: `tcp_net_run` waits 30 s for
loops each of whose waits may last 20 s, then closes connections and listeners, and
a loop whose send failed is over.

`DurableHome` is checked without deadlock checking: a home whose log ends in a
torn line is refused for good, and the system stops there.  So are `Gossip` (a run
has a last slot), `LocalNet` (its runs and faults are bounded) and `Agent` (a
boot that failed serves nobody).

**Runs that find a disagreement.**  Each checks one sentence of the
documentation, or the code's own comment, against what the code does.

- `unbacked_ballot`: "every ballot has skin" (COUNCIL.md 7).  An owner who
  unbonds and releases after the snapshot can still cast: `cast_ballot` stores
  the ballot, then `add_lien` raises.  The ballot counts at the snapshot weight
  with nothing at stake.  This is why `IllegalYesIsSlashed` speaks of voters
  whose ballot is *sealed*.
- `home_wedge`: G16 "is not wedgeable".  A steward votes, is removed from the
  fleet by another vote, and the first vote's tally raises for ever: it indexes
  the seats, rebuilt from the present fleet, by every voter.
- `home_forgets`: "the same organism: ... same ledger height" (HOME.md).  The
  proposal, ballot and transaction RPCs seal rings that are not logged.
- `gossip_rejects`: followers "reject anything whose hash does not match"
  (NET.md).  `_apply_ring` seals the ring and then compares: what it refuses is in
  its ledger.  Proofs and headers, which are compared first, do agree (`gossip`).

Seen while modelling, and plain from the models without a run of their own.

*Council and registry.*  A seat whose owner requested unbonding after the
snapshot still votes, against HEARTH.md 3; an unreported proposal does not
expire, against COUNCIL.md 5.3; a grant's slot is the caller's word, so code can
be live before its activation slot on the clock, against COUNCIL.md 5.6;
`attach_reports` with nobody eligible raises after it put the proposal to the
vote; `register_authored` replaces a kernel faculty's record; `check_legality`
looks for a foreign gym target on a change's own path and not below it, against
COUNCIL.md 4's row on M5.

*Homes and peers.*  `ratify_peer_change` that meets a home it does not fit
leaves the homes before it amended and those after it not, against PEERS.md; a
tally given no homes, or an `at_slot` before the activation, leaves its approved
peer change without a command that could still apply it; of two overlapping
council commands the last to save writes the slash log back without the other's
slash, against the comment in `council_cast` ("so that slash is durable"; `home`
therefore has one operator).

*Slots.*  The slot loop resumes at the height plus one, which a skipped slot left
behind, so a slot number is produced and paid for twice, against the comment in
`pulse` ("continue the slot sequence across resumes"); a ring is applied although
its slot header was refused, against the comment in `produce_slot`; a log line
that lost only its newline is resumed past, and the next append joins the two
lines.

*Local nets.*  Once a run was killed inside a slot, or a home was pulsed alone,
the chains differ, and each later `net_run` raises at its first slot, its leader
sealed and paid, against `net.py`'s "a second `net_run` on the same dirs resumes
both"; a follower that missed a ring ignores the later ones and still takes their
headers (`RingsAreProven` therefore speaks of rings); a leader killed between its
ring and the proof keeps a ring without one, and one killed before it wrote its
credits is never paid for the slot (`RingsAreProven` speaks of rings that were
followed, `CreditsAreEarned` allows for `cut`); a pin offer of an intact object with a
float in it makes the follower raise `CodecError`, against PINS.md's "without
crashing"; no record of paid receipts is kept, so the same receipt handed in for a
later slot is attested and paid again, against COMPUTE.md's "only for compute that
actually happened" (`HandInsPayOnce` counts the times it was handed in); the challenge RPC sets the
last pass down, gossip and resume only up; an object beyond the committed set is
reported as `PIN_MISSING`, against PINS.md; receipts buffered for slots that are
never produced die with the process.

*Agent.*  The white hat looks at the artifact of the call and not at the one in
the silo, and passes survive its replacement; `propose` asks for no hats, and
`propose_release` takes a proposal of the caller's own; a pin whose slot is no
number is refused with the object stored; the epoch tick asks only for the pins
that are there, so a withheld one does not show, and its ring goes to the boot
chain; task chains, and the scars of refusals, do not survive a restart.

## What is proved

From the named assumptions on the constants alone (identities finitely many, seats
and proposals any sets; amounts positive and split within themselves; the charter's
numbers naturals, the minimum bond positive; the laws and the changes texts over
one alphabet), TLAPS checks:

- **Hearth** (`CouncilProofs`): types, `LienPinsPosition`, `SlashedHasNoBond`,
  `Solvent`, `ValueConserved`.  The inductive invariant `HearthInv` adds
  `UnheldIsEmpty` (an identity without a position has nothing recorded), without
  which a release could leave value behind.  Each step changes the liquidity of one
  identity and the pool by the same amount, which is what the sum then changes by.
- **Council** (`CouncilProofs`): types, `LiensAreOpenBallots`, `RecountAgrees`,
  `SlashesAreScarred`, `IllegalYesIsSlashed`, `VoteIsFrozen`, and `Solvent` again,
  with the Council's slashes among the steps.
  The invariant `CouncilInv` adds to these that ballots exist only once voting
  has opened, that a ballot ring names a seat that voted, that an I8 scar's
  proposal is invalid and that only settled proposals have an activation slot.
  The argument for G16: at the tally the lien taken with the ballot is still
  open (`LiensAreOpenBallots`), so the position is still there
  (`LienPinsPosition`), so the slash takes its whole bond.
- **Upgrade** (`UpgradeProofs`): `LiveIsRatified`, and that
  `UpgradeSpec` implements `Ratification` under the mapping in `Upgrade`.  An approved
  proposal is legal (`RecountAgrees`) and stays approved (`VoteIsFrozen`), so a
  verified grant always names a ratified code.
- **Legality** (`UpgradeProofs`): `LawsStand`, for any laws, alphabet, texts and
  depths, under the hypothesis `Legal = Lawful`, the value `MCUpgrade` gives the
  constant: `tally` calls `check_legality` and nothing else.  The recursion of the
  scan has a solution in closed form, "the pattern stands somewhere from here on and
  does not run on" (`SeekFinds`); so a scan finds what a text says (`MatchesSays`),
  and an approved proposal, legal by `RecountAgrees`, says no law.
- **Durable home** (`DurableProofs`): types, `HomeMirrorsMemory`,
  `CrashIsSurvivable`, `ResumeIsPast`, `CreditsAreBacked`, `HeadersFollowRings`, for any
  number of rings, slots and crashes.  `HeadersFollowRings` speaks of neighbouring
  lines, so a slot number that is produced again cannot lend its older ring.
  `DurableInv` is about the queue of writes:
  what is queued brings the disk to what the memory holds (`Owed`), and as long as
  the log can be read it holds what the memory held before the queued line
  (`Caught`), so each write extends it.  Wherever a
  crash cut the log, what still links up is a past of the memory (`LogIsPast`).  For the credits, the
  ring of a queued reward is in the log or at the head of the queue
  (`RoomForCredit`).  The recursion in `Items` is solved once; then only appending
  a line is needed of it.
- **Gossip** (`GossipProofs`): types, `ProofsAgree`, `HeadersAgree`, for any number
  of nodes, slots and faults.  The invariant speaks of every chain *made*, held by a
  node or still on the wire: they agree, and they hold only slots their leader is
  past.  So the entry a leader makes is new (`OneMade`) and agrees with all others
  (`ExtensionAgrees`), and an entry taken from the wire completes a chain that was
  made before (`ApplyMakes`).  It would not hold of ledgers: `ApplyRing` asks for
  the height alone.
  `OneChain` is proved of two nodes (`TwoNodes`, as `tcp_net_run` demands).  Its
  invariant `PairInv` follows each wire: it holds, of rings and of proofs, just
  what the reader lacks, in order (`Behind`), as long as nobody was `hasty` (a wait
  that ended early, a send that failed, a listener closed under way), and nobody is past a slot whose ring is
  to come.  So a leader has read all there is, and the one chain is the longer of
  the two.  It does not hold of three nodes, not even when all lines arrive: a ring
  may overtake the proof of an earlier one that another node sent (TLC shows it
  with 3 nodes and 2 slots).
- **Council home** (`HomeProofs`): types and `IllegalYesIsLogged`, for any number
  of operators whose commands overlap.  `HomeInv` speaks of any one file, on disk or
  loaded (`FileInv`): every save is one operation on a file of that kind, so what
  it overwrites does not matter.  `RecordIsDurable` and `SlashedNeverSit` compare
  what a command saves with what it read, and hold of overlapping commands too:
  nothing locks the file, so of two that overlap the last to save undoes the other,
  but never more than was saved since it read.  `FleetsChangeByVote` compares fleets
  with the file, and is proved under `OneOperator`, which it needs: the approval a
  fleet was changed by can be overwritten.  Its invariant adds that a loaded file is
  the one on disk (`UpToDate`).
- **Local net** (`NetProofs`): types, `RingsAreProven`, `NetAgrees`, `RotStaysPut`,
  `CreditsAreEarned`, `HandInsPayOnce`, for any homes, draws, runs and faults.  The first invariants are about the bus.
  `RingsInv`: a ring under way has its proof on its home, or ahead of it on the
  bus, so a run may die between any two deliveries or writes.  `AgreeInv`: inside an
  undisturbed slot each home's chain is the common one, extended by the slot's entry
  exactly where nothing of that kind is still on its way to it (`Along`); so no
  delivery finds anything amiss, and when the bus is empty all are alike.  What a
  slot puts on the bus, and in which order, is `Sends`.
  A delivered offer leaves no rot that was not there, so only a fault adds to it
  (`RotInv`).  A slot's credits sum to `SlotReward` whoever shares the pots
  (`SlotsPayInFull`), and a follower is never sent a ring of its own (`CreditInv`),
  so a home's credits count the slots it led; a part of them sums to no more
  (`PartPays`).  What an account was paid and what its waiting receipts may still earn
  is together never more than was handed in for it (`WorkInv`); a process that ends
  only lowers it.
- **Agent** (`AgentProofs`): types, `BootTells`, `RefusalsOnlyScar`,
  `TurnsAreWarranted`.  `AgentInv` adds to the types where the boot
  stands: nothing has failed at its start, the node is sound exactly when nothing
  failed, and nobody is answered before it is up.  The rest reads each verb's
  checks in their order.

`Induction` holds what these share.  The library states induction for an operator,
which the provers cannot be given; here it is stated for a set (of numbers, of
subsets), and follows from the library's well-founded relations.  From it come the
sum over a set when one term changes, counts of the members of a sequence, and that
recursive functions such as `Items`, `Stripped` and the scan have their values.

Only model-checked: liveness (`EveryVoteSettles`, `LiensAreCleared`), which these
provers do not reach under fairness, what the violation runs show, and
`FleetsAgree`, which holds only of homes that began with one fleet and commands that
name them all, as in `home`, and which nothing in the code sees to.  Every other
property of a passing run is a theorem.

## Plan

1. The steps of `LocalNet` undisturbed as a refinement of one chain that every home
   holds: `Along` already names the chain and the entry it is being extended by.
2. What the count itself promises (`TallyRule`): more yes votes never turn an approval
   into a refusal, and nothing carries without a majority of the eligible seats.
3. The state half of `EveryVoteSettles`: once its deadline has passed, every open vote
   can be tallied, whatever has become of its voters.

## Not modelled

Cryptographic hashing and canonical encoding (a hash is the thing hashed),
proof of space and VDF arithmetic, the opcodes of a faculty's program, the
transmission predictions of the nervous system (only the simulation tests them),
`forget_scar` (nothing calls it) and `resume_append` (a gym case does), the
simulated AMM quote,
printing and argument parsing, the scripted simulation, the web application.
`PROJECT.json` "components" has the reason for each.
