\* Two overlapping requests, a scan and two analyses.
CONSTANTS
    Worker = {w1, w2}
    Evidence = {e1}
    CommonKeys = {k1}
    HybridKeys = {}
    Ops = {"scan", "analyze"}
    Fuels = {}
    Blocks = {FALSE, TRUE}
    Plans = {}
    Overlap = TRUE
    Absent = Absent
    Written = {}
    MaxPackages = 0
SPECIFICATION Spec
\* A case that was deleted and never exported is gone: nothing is left to do.
CHECK_DEADLOCK FALSE
SYMMETRY Renamed
PROPERTIES
    RejectedStays
