CONSTANTS
    Nothing = Nothing
    Commands = {c1, c2}
SPECIFICATION Spec
INVARIANTS
    AppliedAtMostOnce
