------------------------------ MODULE Organism ------------------------------
(***************************************************************************)
(* One organism in memory: the self-configuration S0..S7 that boots it,    *)
(* the ledger and content store it then keeps, and the node operations     *)
(* that need no other home: admission of a transaction, running a faculty, *)
(* the health tick.  Agent wears it.                                       *)
(*                                                                         *)
(* Two chains are kept apart as in the code.  Boot (and, after it, every   *)
(* health ring) seals on the chain bootstrap made; the calls seal on the   *)
(* node's ledger.  Rings carry no hashes: the chains only grow here.       *)
(***************************************************************************)
EXTENDS Registry, Naturals, Sequences, SequencesExt

CONSTANTS
    Object,        \* what may be pinned, by its hash
    Task,          \* what a pointer ring may point at
    Sneak,         \* the name the boot smoke registers its sneak under
    NeedsEnv,      \* faculties whose program calls an env primitive
    None,
    MaxRings       \* bound: rings on the ledger

ASSUME SneakAssumption == Sneak \in Faculty \ Kernel

Step == {"S0", "S4", "S5", "S6", "S7", "up", "down"}

\* A ring of the ledger by what the properties read: a turn's faculty and
\* citations, the task a pointer points at.
Ring == [type : {"experience", "task_head", "scar_I6", "scar_I8", "proposal"},
         faculty : Faculty \cup {None}, cites : SUBSET Object, task : Task \cup {None}]
Sealed(type) == [type |-> type, faculty |-> None, cites |-> {}, task |-> None]

VARIABLES
    step,       \* where bootstrap is; "up" serves, "down" raised NodeError
    sound,      \* bootstrap's boot_ok
    failed,     \* the steps its report calls not ok
    boot,       \* the boot chain, by ring types
    broken,     \* faculties whose program no longer hashes to code_hash
    rings,      \* the node's ledger past Ring 0
    cas         \* object -> "absent", "intact" or "tampered"

booting == <<step, sound, failed, boot>>
core == <<booting, records, broken>>
organism == <<core, rings, cas>>

OrganismTypeOK ==
    /\ RegistryTypeOK
    /\ step \in Step /\ sound \in BOOLEAN /\ failed \subseteq {"S0", "S4", "S6"}
    /\ broken \subseteq Faculty
    /\ rings \in Seq(Ring)
    /\ cas \in [Object -> {"absent", "intact", "tampered"}]

\* The seed faculties are there from the start; nobody reads them before S3.
OrganismInit ==
    /\ RegistryInit
    /\ step = "S0" /\ sound = TRUE /\ failed = {} /\ boot = <<>>
    /\ broken = {} /\ rings = <<>> /\ cas = [o \in Object |-> "absent"]

----------------------------------------------------------------------------
\* Boot.  S1 to S3 (pin the kernel, Ring 0 is the head, seed faculties) work
\* on the kernel this code builds itself and cannot fail once S0 held.
Held(s, ok) == failed' = IF ok THEN failed ELSE failed \cup {s}
SealBoot(types) == boot' = boot \o types

VerifyKernel(ok) ==
    /\ step = "S0"
    /\ Held("S0", ok) /\ sound' = ok
    /\ step' = IF ok THEN "S4" ELSE "S7"
    /\ UNCHANGED <<boot, records, broken, rings, cas>>

CommitSpace(ok) ==
    /\ step = "S4"
    /\ Held("S4", ok) /\ sound' = (ok /\ sound)
    /\ step' = "S5"
    /\ UNCHANGED <<boot, records, broken, rings, cas>>

\* PinSet, compute and bond are announced whether the space was good or not.
Announce ==
    /\ step = "S5"
    /\ SealBoot(<<"economic">>)
    /\ step' = "S6"
    /\ UNCHANGED <<sound, failed, records, broken, rings, cas>>

\* run_smoke: two override claims that must scar, a forged ring that must
\* leave evidence, authored code that must come in inert.
Smoke == <<"scar_I8", "scar_I8", "immune", "gym">>
Detected == records'[Sneak].status = "inert"

\* (Slip: the smoke's verdict replaces boot_ok.)
SmokeTest_Overwrites ==
    /\ step = "S6"
    /\ \E c \in Code : RegisterAuthored(Sneak, c)
    /\ SealBoot(Smoke)
    /\ Held("S6", Detected) /\ sound' = Detected
    /\ step' = "S7"
    /\ UNCHANGED <<broken, rings, cas>>

SmokeTest ==
    /\ step = "S6"
    /\ \E c \in Code : RegisterAuthored(Sneak, c)
    /\ SealBoot(Smoke)
    /\ Held("S6", Detected) /\ sound' = (Detected /\ sound)
    /\ step' = "S7"
    /\ UNCHANGED <<broken, rings, cas>>

\* S7: the boot ring, or the scar that says why not (and Node raises).
FinishBoot ==
    /\ step = "S7"
    /\ SealBoot(IF sound THEN <<"boot">>
                ELSE IF "S0" \in failed THEN <<"scar_I8">> ELSE <<"scar_I5">>)
    /\ step' = IF sound THEN "up" ELSE "down"
    /\ UNCHANGED <<sound, failed, records, broken, rings, cas>>

Bootstrap ==
    \/ \E ok \in BOOLEAN : VerifyKernel(ok) \/ CommitSpace(ok)
    \/ Announce \/ SmokeTest \/ FinishBoot

----------------------------------------------------------------------------
\* The ledger.
Up == step = "up"
Room == Len(rings) < MaxRings
Seal(ring) == Room /\ rings' = Append(rings, ring)
ScarI6 == Seal(Sealed("scar_I6"))

\* admit_tx.  An override claim in the type, or a forbidden key anywhere,
\* scars; a bonded sender is slashed too (Hearth!Slash, not repeated here).
TxKind == {"not_object", "claims_override", "forbidden_key", "unknown_type", "allowed"}
ClaimsOverride(tx) == tx \in {"claims_override", "forbidden_key"}
AdmitTx(tx) ==
    /\ Up
    /\ IF ClaimsOverride(tx) THEN Seal(Sealed("scar_I8")) ELSE UNCHANGED rings
    /\ UNCHANGED <<core, cas>>

\* run_faculty looks at the status and hashes the program again; an opcode
\* that wants an env primitive finds none in the calls modelled here.
Runs(n) == Live(n) /\ n \notin broken /\ n \notin NeedsEnv

----------------------------------------------------------------------------
\* The content store.
PutObject(o) ==
    /\ cas' = [cas EXCEPT ![o] = "intact"]
    /\ UNCHANGED <<core, rings>>

----------------------------------------------------------------------------
\* Faults, and the registry the Council and the operator change (Upgrade).
\* Bytes of an object or of a program in memory change; a pin is withheld.
Rot(o, as) ==
    /\ Up /\ cas[o] # "absent" /\ as \in {"absent", "tampered"}
    /\ cas' = [cas EXCEPT ![o] = as]
    /\ UNCHANGED <<core, rings>>
Break(n) ==
    /\ Up /\ Known(n)
    /\ broken' = broken \cup {n}
    /\ UNCHANGED <<booting, records, rings, cas>>

RegistryMoves(n) ==
    /\ Up
    /\ \/ \E c \in Code : RegisterAuthored(n, c) /\ broken' = broken \ {n}
       \/ (ActivateAuthored(n, TRUE) \/ Hibernate(n)) /\ UNCHANGED broken
    /\ UNCHANGED <<booting, rings, cas>>

----------------------------------------------------------------------------
\* A boot that serves held every step and its chain ends in the boot ring;
\* one that failed a step never serves, whatever later steps found, and its
\* chain ends in one scar more than the smoke's, at I8 for the kernel and at
\* I5 otherwise ("Every step either succeeds or seals a Scar", bootstrap).
BootTells ==
    /\ step = "up" => failed = {} /\ Last(boot) = "boot"
    /\ step = "down" => /\ failed # {}
                        /\ Last(boot) = IF "S0" \in failed THEN "scar_I8" ELSE "scar_I5"
                        /\ "boot" \notin ToSet(boot)
=============================================================================
