------------------------------ MODULE Registry ------------------------------
(***************************************************************************)
(* The faculty registry (chronarch_core.FacultyRegistry), after boot step  *)
(* S3 has loaded the kernel's seed faculties.  Authored code enters inert; *)
(* only a verified Council grant makes it live.                            *)
(***************************************************************************)
CONSTANTS
    Faculty,       \* names
    Kernel,        \* the names of the kernel's seed faculties
    Code,          \* code hashes
    KernelCode     \* seed faculty -> its code hash

ASSUME KernelAssumption ==
    /\ Kernel \subseteq Faculty
    /\ KernelCode \in [Kernel -> Code]
    /\ Code # {}

Record == [origin : {"none", "primitive", "authored"},
           status : {"none", "inert", "live", "hibernated"},
           code : Code]

VARIABLE records

RegistryTypeOK == records \in [Faculty -> Record]

\* load_kernel_faculty for every seed faculty; the other names are unknown.
RegistryInit ==
    records = [n \in Faculty |->
                  IF n \in Kernel
                  THEN [origin |-> "primitive", status |-> "live", code |-> KernelCode[n]]
                  ELSE [origin |-> "none", status |-> "none", code |-> CHOOSE c \in Code : TRUE]]

Known(n) == records[n].origin # "none"

\* (Slip: the name's status survives its new code.)
RegisterAuthored_KeepsStatus(n, c) ==
    records' = [records EXCEPT ![n] =
                   [origin |-> "authored", code |-> c,
                    status |-> IF Known(n) THEN records[n].status ELSE "inert"]]

\* Whatever the name held before, the record is replaced.
RegisterAuthored(n, c) ==
    records' = [records EXCEPT ![n] =
                   [origin |-> "authored", status |-> "inert", code |-> c]]

Hibernate(n) ==
    /\ Known(n)
    /\ records' = [records EXCEPT ![n].status = "hibernated"]

\* Verified stands for council_state.verify_activation_grant(grant, code_hash)
\* returning; an already live faculty is returned without asking it.
ActivateAuthored(n, verified) ==
    /\ records[n].origin = "authored"
    /\ records[n].status # "live"
    /\ verified
    /\ records' = [records EXCEPT ![n].status = "live"]

\* get_live: what run_faculty executes on the protocol path (G3).
Live(n) == records[n].status = "live"
LiveAuthored == {n \in Faculty : Live(n) /\ records[n].origin = "authored"}
=============================================================================
