\* A listing corrected after the PPI.
CONSTANTS
    Worker = {w1}
    Evidence = {e1, e2, e3}
    CommonKeys = {k1}
    HybridKeys = {k2}
    Ops = {"status", "listings", "upload", "ppi", "analyze", "negotiate"}
    Fuels = {"gasoline", "hybrid"}
    Blocks = {FALSE}
    Plans = {}
    Overlap = FALSE
    Absent = Absent
    Written = {}
    MaxPackages = 0
SPECIFICATION Spec
\* A case that was deleted and never exported is gone: nothing is left to do.
CHECK_DEADLOCK FALSE
SYMMETRY Renamed
PROPERTIES
    PpiStageNeedsPpi
