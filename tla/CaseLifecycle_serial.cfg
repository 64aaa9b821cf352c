\* One request at a time, every handler.
CONSTANTS
    Worker = {w1}
    Evidence = {e1, e2}
    CommonKeys = {k1}
    HybridKeys = {k2}
    Ops <- Handlers
    Fuels = {"gasoline"}
    Blocks = {FALSE, TRUE}
    Plans = {"STOP", "BUY_CANDIDATE"}
    Overlap = FALSE
    Absent = Absent
    Written <- ByHand
    MaxPackages = 0
SPECIFICATION Spec
SYMMETRY Renamed
PROPERTIES
    RejectedStays
    BlockingAnalysisRejects
    PpiStageNeedsPpi
    PurchaseIsEarned
