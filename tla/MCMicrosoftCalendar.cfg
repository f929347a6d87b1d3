CONSTANTS
    Account = {ms1, ms2}
    Sub = {s1, s2}
    Op = {o1, o2}
    MaxLinks = 2
    MaxFaults = 3
SPECIFICATION Spec
SYMMETRY Symmetry
CONSTRAINT FewAtOnce
INVARIANTS
    OrphansPaidFor
    DuplicatesOverlap
    RenewedInTime
    TokenOfItsAccount
