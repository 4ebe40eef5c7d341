CONSTANTS
    Nothing = Nothing
    Commands = {c1, c2, c3}
SPECIFICATION Spec
INVARIANTS
    LedgerIsTrue
    AppliedOnceUnlessLate
PROPERTIES
    KeepsPromiseUnlessLate
