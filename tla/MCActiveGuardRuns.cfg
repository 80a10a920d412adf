SPECIFICATION GuardSpec
CONSTANTS
    Runs = {r1, r2, r3}
    Cleanups = {c1, c2}
    Allow = {c2}
    Absent = Absent
SYMMETRY Symmetry
INVARIANTS
    LockSound
