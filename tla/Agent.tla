------------------------------- MODULE Agent -------------------------------
(***************************************************************************)
(* An agent wearing a node (chronarch_agent.Agent): one JSON call at a     *)
(* time, screened, dispatched to a verb and answered with an envelope,     *)
(* over the agent's ledger, evidence store, silos, hats and task chains.   *)
(*                                                                         *)
(* Left out: the text of payloads and answers, self_poq and the drafts of  *)
(* the optional language model (metadata in a body nothing reads back),    *)
(* and the verbs that only read or only wrap another module's operation    *)
(* (init, silo_list; challenge and ballot).                        *)
(***************************************************************************)
EXTENDS Organism

CONSTANTS
    ToolShaped,    \* the objects is_tool_call_shaped accepts
    Silo,
    Artifact,
    Content,       \* what an artifact may hold, K18 screened by then
    Clean,         \* the contents _white passes
    Draft,         \* proposal ids a caller writes itself
    Underfunded,   \* the drafts below a community proposal's deposit floor
    ReleaseOf,     \* artifact -> the proposal id propose_release makes up
    MaxTaskHeight, \* bound: height of a task chain
    MaxRefs        \* bound: evidence_refs of a call

ASSUME ShapeAssumption == ToolShaped \subseteq Object /\ Clean \subseteq Content
ASSUME DraftAssumption == Underfunded \subseteq Draft
ASSUME HeightAssumption == MaxTaskHeight \in Nat \ {0}
ASSUME NoneAssumption == None \notin Content \cup Task

Role == {"white", "red", "black"}
ProposalId == Draft \cup {ReleaseOf[a] : a \in Artifact}

\* What a call can have wrong with it before any verb looks at it: no object,
\* a forbidden or an unknown verb; too big or too deep; a conveyance key; a
\* K18 key.  Calls are told apart by two flaws at most.
Flaw == {"misaddressed", "oversized", "conveying", "forbidden_key"}
Flawed == {{f, g} : f, g \in Flaw}
Oversized(call) == "oversized" \in call
Conveying(call) == "conveying" \in call

\* The envelope: the error codes are told apart by whether the refusal scars.
Envelope == {"ok", "refused", "scarred"}

VARIABLES
    opened,     \* the open silos
    items,      \* silo -> artifact -> content or None
    passes,     \* artifact -> the hats it passed
    tasks,      \* task -> height of its chain, 0 when not open
    proposals,  \* the ids the node's Council holds
    answer      \* the last call's envelope; "none" when the rest moves

store == <<opened, items>>
agent == <<store, passes, tasks, proposals>>
vars == <<organism, agent, answer>>

TypeOK ==
    /\ OrganismTypeOK
    /\ opened \subseteq Silo /\ items \in [Silo -> [Artifact -> Content \cup {None}]]
    /\ passes \in [Artifact -> SUBSET Role]
    /\ tasks \in [Task -> 0 .. MaxTaskHeight]
    /\ proposals \subseteq ProposalId
    /\ answer \in Envelope \cup {"none"}

Init ==
    /\ OrganismInit
    /\ opened = {} /\ items = [s \in Silo |-> [a \in Artifact |-> None]]
    /\ passes = [a \in Artifact |-> {}]
    /\ tasks = [t \in Task |-> 0]
    /\ proposals = {}
    /\ answer = "none"

Refuse ==
    /\ answer' = "refused"
    /\ UNCHANGED <<core, rings, cas, agent>>
\* A refusal that scars the caller's own ledger, and nothing else.
RefuseScarred ==
    /\ ScarI6
    /\ answer' = "scarred"
    /\ UNCHANGED <<core, cas, agent>>
Answer == answer' = "ok"

\* handle screens in this order and answers the first flaw it meets.
Screen(call) ==
    IF "misaddressed" \notin call /\ (Oversized(call) \/ Conveying(call))
    THEN RefuseScarred ELSE Refuse

----------------------------------------------------------------------------
\* Evidence.  recall_evidence stops at the first reference it cannot use.
\* (Slip: the bytes are not hashed again.)
Verdict_Trusting(o) ==
    IF cas[o] = "absent" THEN "EVIDENCE_MISSING"
    ELSE IF o \in ToolShaped /\ cas[o] = "intact" THEN "QUARANTINE" ELSE "ok"

Verdict(o) ==
    IF cas[o] # "intact" THEN "EVIDENCE_MISSING"
    ELSE IF o \in ToolShaped THEN "QUARANTINE" ELSE "ok"

Refs == SeqOf(Object, MaxRefs)
Usable(refs) == \A i \in DOMAIN refs : Verdict(refs[i]) = "ok"
EvidenceRefused(refs) ==
    LET verdicts == SelectSeq([i \in DOMAIN refs |-> Verdict(refs[i])], LAMBDA v : v # "ok") IN
    /\ verdicts # <<>>
    /\ IF verdicts[1] = "QUARANTINE" THEN RefuseScarred ELSE Refuse

Recall(refs) ==
    \/ EvidenceRefused(refs)
    \/ /\ Usable(refs) /\ Answer
       /\ UNCHANGED <<core, rings, cas, agent>>

\* put_object comes before the slot is read: a call whose slot is no number
\* is refused (INTERNAL) with the object stored.
Pin(o, numeric) ==
    /\ PutObject(o)
    /\ answer' = IF numeric THEN "ok" ELSE "refused"
    /\ UNCHANGED agent

\* The epoch tick hashes every stored pin and seals its vector on the boot
\* chain, where nothing reads it back.
Health == Answer /\ UNCHANGED <<organism, agent>>

\* The seal verb: any sealable type and body, one that looks like a task's
\* pointer among them.
SealAny(t) ==
    /\ Seal([Sealed(IF t = None THEN "experience" ELSE "task_head") EXCEPT !.task = t])
    /\ Answer
    /\ UNCHANGED <<core, cas, agent>>

\* submit_proposal, through the node's rpc.
MaySubmit(p) == p \notin proposals \cup Underfunded
Submit(p) ==
    /\ proposals' = proposals \cup {p}
    /\ Seal(Sealed("proposal"))

Propose(p) ==
    \/ ~MaySubmit(p) /\ Refuse
    \/ /\ MaySubmit(p) /\ Submit(p) /\ Answer
       /\ UNCHANGED <<core, cas, store, passes, tasks>>

\* (Slip: the ring is sealed before the faculty runs.)
Turn_SealsFirst(refs, n) ==
    \/ EvidenceRefused(refs)
    \/ /\ Usable(refs)
       /\ Seal([Sealed("experience") EXCEPT !.faculty = n, !.cites = ToSet(refs)])
       /\ answer' = IF Runs(n) THEN "ok" ELSE "refused"
       /\ UNCHANGED <<core, cas, agent>>

\* The wear loop with intent "seal"; intent "propose" runs the same checks
\* and then Propose.
Turn(refs, n) ==
    \/ EvidenceRefused(refs)
    \/ Usable(refs) /\ ~Runs(n) /\ Refuse
    \/ /\ Usable(refs) /\ Runs(n)
       /\ Seal([Sealed("experience") EXCEPT !.faculty = n, !.cites = ToSet(refs)])
       /\ Answer
       /\ UNCHANGED <<core, cas, agent>>
TurnPropose(refs, n, p) ==
    \/ EvidenceRefused(refs)
    \/ Usable(refs) /\ ~Runs(n) /\ Refuse
    \/ Usable(refs) /\ Runs(n) /\ Propose(p)

----------------------------------------------------------------------------
\* Silos, hats and release.
SiloOpen(s) ==
    /\ opened' = opened \cup {s} /\ Answer
    /\ UNCHANGED <<core, rings, cas, items, passes, tasks, proposals>>

\* Whatever the artifact held is replaced; its hats are not taken off.
SiloPut(s, a, c) ==
    \/ s \notin opened /\ Refuse
    \/ /\ s \in opened
       /\ items' = [items EXCEPT ![s][a] = c] /\ Answer
       /\ UNCHANGED <<core, rings, cas, opened, passes, tasks, proposals>>

\* White looks at the artifact handed in with the call (None: none was), not
\* at the one in the silo.  Red attacks a freshly booted fixture and black
\* scores its own catalog: on the shipped kernel both always pass.  A hat
\* that does not pass is still answered ok.
White(c) == c \in Clean
HatRun(role, foreign, a, c) ==
    \/ foreign /\ Refuse
    \/ /\ ~foreign
       /\ passes' = IF role # "white" \/ White(c)
                    THEN [passes EXCEPT ![a] = @ \cup {role}] ELSE passes
       /\ Answer
       /\ UNCHANGED <<core, rings, cas, store, tasks, proposals>>

ThreeComplete(a) == Role \subseteq passes[a]

\* The caller may hand in a proposal of its own in place of the drafted one.
ProposeRelease(a, p) ==
    /\ p \in Draft \cup {ReleaseOf[a]}
    /\ \/ ~ThreeComplete(a) /\ Refuse
       \/ ThreeComplete(a) /\ ~MaySubmit(p) /\ Refuse
       \/ /\ ThreeComplete(a) /\ MaySubmit(p) /\ Submit(p) /\ Answer
          /\ UNCHANGED <<core, cas, store, passes, tasks>>

----------------------------------------------------------------------------
\* Task chains.
TaskOpen(t) ==
    \/ tasks[t] > 0 /\ Refuse
    \/ /\ tasks[t] = 0
       /\ tasks' = [tasks EXCEPT ![t] = 1]
       /\ Seal([Sealed("task_head") EXCEPT !.task = t])
       /\ Answer
       /\ UNCHANGED <<core, cas, store, passes, proposals>>

TaskResume(t) ==
    \/ tasks[t] = 0 /\ Refuse
    \/ /\ tasks[t] \in 1 .. MaxTaskHeight - 1
       /\ tasks' = [tasks EXCEPT ![t] = @ + 1]
       /\ Answer
       /\ UNCHANGED <<core, rings, cas, store, passes, proposals>>

----------------------------------------------------------------------------
\* What happens to the node between calls.
NodeMoves ==
    /\ \/ \E tx \in TxKind : AdmitTx(tx)
       \/ \E o \in Object, as \in {"absent", "tampered"} : Rot(o, as)
       \/ \E n \in Faculty : Break(n) \/ (n \notin Kernel /\ RegistryMoves(n))
    /\ answer' = "none" /\ UNCHANGED agent

Call ==
    \/ \E call \in Flawed : Screen(call)
    \/ Health
    \/ \E refs \in Refs : Recall(refs)
    \/ \E o \in Object, numeric \in BOOLEAN : Pin(o, numeric)
    \/ \E t \in Task \cup {None} : SealAny(t)
    \/ \E p \in Draft : Propose(p)
    \/ \E refs \in Refs, n \in Faculty : Turn(refs, n)
    \/ \E refs \in Refs, n \in Faculty, p \in Draft : TurnPropose(refs, n, p)
    \/ \E s \in Silo : SiloOpen(s)
    \/ \E s \in Silo, a \in Artifact, c \in Content : SiloPut(s, a, c)
    \/ \E role \in Role, foreign \in BOOLEAN, a \in Artifact, c \in Content \cup {None} :
          HatRun(role, foreign, a, c)
    \/ \E a \in Artifact, p \in ProposalId : ProposeRelease(a, p)
    \/ \E t \in Task : TaskOpen(t) \/ TaskResume(t)

Next ==
    \/ Bootstrap /\ UNCHANGED <<agent, answer>>
    \/ Up /\ Call
    \/ NodeMoves

Spec == Init /\ [][Next]_vars

----------------------------------------------------------------------------
\* A call that is refused changes nothing its answer does not tell of: a
\* quarantined or conveying call leaves one I6 scar on the caller's own
\* ledger, any other refusal leaves every ledger, registry, silo, hat, task
\* and proposal as it was.  What it may leave is a pin (AGENT.md section 3a,
\* agent.handle and _scar_i6).
Refusal ==
    answer' \in {"refused", "scarred"} =>
        /\ UNCHANGED <<core, agent>>
        /\ rings' = IF answer' = "scarred" THEN Append(rings, Sealed("scar_I6")) ELSE rings
RefusalsOnlyScar == [][Refusal]_vars

\* Whatever a turn seals was run by a faculty live at that moment and cites
\* only objects that are there, intact and not shaped like a tool call, in
\* every order of pins, faults and registry changes (S4, G3; _verb_turn).
Warranted(r) ==
    r.faculty # None => /\ Runs(r.faculty)
                        /\ \A o \in r.cites : cas[o] = "intact" /\ o \notin ToolShaped
TurnsAreWarranted == [][rings' # rings => Warranted(Last(rings'))]_vars
=============================================================================
