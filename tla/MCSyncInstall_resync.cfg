SPECIFICATION Spec
CONSTANTS
    Ids = {a, b}
    Revisions = {r1, r2}
    MaxDebris = 0
PROPERTIES FreeOfConflictsInstalls
