SPECIFICATION Spec
CONSTANTS
    Ids = {a, b}
    Revisions = {r1, r2}
    MaxDebris = 2
SYMMETRY Symmetry
INVARIANTS SnapshotSurvives WholeSnapshotInPlace SuccessLoads
