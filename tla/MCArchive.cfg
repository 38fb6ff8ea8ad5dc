CONSTANTS
    f1 = f1 f2 = f2 x1 = x1 x2 = x2 a = a b = b p1 = p1 p2 = p2
    Files = {f1, f2}
    Contents = {a, b}
    Places = {x1, x2}
    Place <- MCPlace
    Procs = {p1, p2}
    MaxId = 2
    MaxEdits = 1
    KeepLast = 1
    None = None
SYMMETRY MCSymmetry
SPECIFICATION Spec
INVARIANTS VerifyClean RestoredTrue
PROPERTY ArchiveKept
CHECK_DEADLOCK FALSE
