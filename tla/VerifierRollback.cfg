CONSTANTS
    op = op
    sup = sup
    ic = ic
    signal = signal
    sign = sign
    NoOne = NoOne
    NoCommand = NoCommand
    People = {op, sup, ic}
    Commands = {sign}
    OnCorridor = {sign}
    RolesOf <- MCRolesOf
    ActionOf <- MCActionOf
SPECIFICATION Spec
INVARIANTS
    VerifierRollbackIsRecorded
