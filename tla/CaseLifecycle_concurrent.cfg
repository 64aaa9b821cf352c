\* Two overlapping requests, and packages of another installation.
CONSTANTS
    Worker = {w1, w2}
    Evidence = {e1, e2}
    CommonKeys = {k1}
    HybridKeys = {}
    Ops <- Decisive
    Fuels = {}
    Blocks = {FALSE}
    Plans = {}
    Overlap = TRUE
    Absent = Absent
    Written <- Moved
    MaxPackages = 0
SPECIFICATION Spec
SYMMETRY Renamed
INVARIANTS
    HistoryIsPath
    RejectionIsGrounded
    PpiStagesAreBacked
