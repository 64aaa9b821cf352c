\* A comparable that carries its own VIN.
CONSTANTS
    Worker = {w1}
    Evidence = {e1, e2}
    CommonKeys = {k1}
    HybridKeys = {k2}
    Ops <- Handlers
    Fuels = {"gasoline", "hybrid"}
    Blocks = {FALSE, TRUE}
    Plans <- Plan
    Overlap = FALSE
    Absent = Absent
    Written = {}
    MaxPackages = 0
SPECIFICATION Spec
\* A case that was deleted and never exported is gone: nothing is left to do.
CHECK_DEADLOCK FALSE
SYMMETRY Renamed
PROPERTIES
    RejectedForOwnVehicle
