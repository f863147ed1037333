\* Three readers over two files of two pages, a cache of one or two entries.
SPECIFICATION Spec
CONSTANTS
    Readers = {r1, r2, r3}
    Files = {f1, f2}
    Slots = {s1, s2, s3}
    None = None
    Offsets <- FirstTwo
    Limits <- OneOrTwo
    AuxLimit = 1
    MaxGen = 2
SYMMETRY Symmetry
INVARIANTS CacheTypeOK PinsExact WithinBudget Coherent
PROPERTY PinnedStable
