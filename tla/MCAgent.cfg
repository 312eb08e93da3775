SPECIFICATION Spec
CONSTANTS
    f1 = f1
    c1 = c1
    o1 = o1
    o2 = o2
    p1 = p1
    Faculty = {f1}
    Kernel = {}
    Sneak = f1
    NeedsEnv = {}
    Code = {c1}
    KernelCode <- MCKernelCode
    Object = {o1, o2}
    ToolShaped = {o2}
    Silo = {"codex"}
    Artifact = {"art"}
    Content = {"code"}
    Clean = {"code"}
    Task = {"job"}
    Draft = {p1}
    Underfunded = {}
    ReleaseOf <- MCReleaseOf
    None = None
    MaxRings = 2
    MaxTaskHeight = 2
    MaxRefs = 2
INVARIANTS
    BootTells
PROPERTIES
    RefusalsOnlyScar
    TurnsAreWarranted
CHECK_DEADLOCK FALSE
