\* Exports at any time, and imports of old and of hand-written packages.
CONSTANTS
    Worker = {w1}
    Evidence = {e1, e2}
    CommonKeys = {k1}
    HybridKeys = {}
    Ops <- Decisive
    Fuels = {}
    Blocks = {FALSE}
    Plans = {}
    Overlap = FALSE
    Absent = Absent
    Written <- ByHand
    MaxPackages = 1
SPECIFICATION Spec
SYMMETRY Renamed
PROPERTIES
    KeepsAudit
