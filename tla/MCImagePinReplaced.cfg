\* One project is enough: the two runs ask for the same roles.
CONSTANTS
    r1 = r1
    r2 = r2
    s1 = s1
    s2 = s2
    Runs = {r1, r2}
    Projects = {"pn"}
    Roles = {"backend", "frontend"}
    Allowed <- MCAllowed
    FileOf <- MCFileOf
    Badged <- MCBadged
    Shas = {s1, s2}
    Stale = "stale"
    MaxEdits = 0
SPECIFICATION Spec
SYMMETRY MCSymmetry
INVARIANTS
    ReplacedByNewer
CHECK_DEADLOCK FALSE
