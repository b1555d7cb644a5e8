\* Two runs, two projects and two commits; one pin made by hand.
CONSTANTS
    r1 = r1
    r2 = r2
    s1 = s1
    s2 = s2
    Runs = {r1, r2}
    Projects = {"pn", "blog"}
    Roles = {"backend", "frontend", "web", "jobs"}
    Allowed <- MCAllowed
    FileOf <- MCFileOf
    Badged <- MCBadged
    Shas = {s1, s2}
    Stale = "stale"
    MaxEdits = 1
SPECIFICATION Spec
SYMMETRY MCSymmetry
INVARIANTS
    DuplicateWasAsked
    PrIsItsRequest
    HonestPinPasses
PROPERTIES
    NewestWins
CHECK_DEADLOCK FALSE
