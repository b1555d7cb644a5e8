\* One run is enough: a line is edited by hand before it is pinned.
CONSTANTS
    r1 = r1
    s1 = s1
    s2 = s2
    Runs = {r1}
    Projects = {"pn"}
    Roles = {"backend", "frontend"}
    Allowed <- MCAllowed
    FileOf <- MCFileOf
    Badged <- MCBadged
    Shas = {s1, s2}
    Stale = "stale"
    MaxEdits = 1
SPECIFICATION Spec
INVARIANTS
    DifferencesMap
CHECK_DEADLOCK FALSE
